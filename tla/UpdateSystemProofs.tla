---- MODULE UpdateSystemProofs ----
(***************************************************************************)
(* Proofs about UpdateSystem, for every set of firmwares, bootloaders,     *)
(* flash maps and partitions, and any number of disturbances.              *)
(***************************************************************************)
EXTENDS UpdateSystem, TLAPS

\* The stages in which a command that downloads is on its way, and those in
\* which a new record waits to be written.
Underway == {"load", "erase", "write", "erase0", "write0"}

\* A partition is asked for only while the firmware runs, and never the running
\* one; on maps of whole megabytes only for even maps.
ForcedSelectable ==
    /\ forced # None => forced # current /\ (flashMap > 4 => flashMap % 2 = 0)
    /\ pc = "off" => forced = None

\* What an upgrade promised is given up when the next one starts.
PromiseEnds == pc \in Underway \cup {"wipe"} => promised = None

\* What has been checked before the parameters are touched.
Checked ==
    pc \in {"erase", "write"} =>
        /\ target \in Parts /\ part[target] \in Images
        /\ csum \in {None, part[target]}

\* The new record, and the new bootloader, in RAM.
Waiting ==
    /\ pc = "write" =>
         /\ held \in Params
         /\ held.boot_part = target
         /\ held.md5[target] = part[target]
         /\ held.type[target] = flashMap
    /\ pc \in {"erase0", "write0"} => held \in Loaders

\* The record the firmware works with: the flash has none while it is rewritten.
Record == IF pc = "write" THEN held ELSE params

\* A firmware that is registered has the board's map, and the running one is
\* registered, unless a rewriting was cut.
Registrations ==
    \/ cut
    \/ /\ \A n \in Parts : Record.md5[n] # Bad => Record.type[n] = flashMap
       /\ pc # "off" => Record.md5[current] # Bad

\* So a download works with the board's map.
MapKnown == pc \in Underway \cup {"wipe"} => tmap = flashMap \/ cut

\* The inductive invariant.
IInv ==
    /\ TypeOK /\ AnsweredOnce /\ OkMeansDefault /\ SectorZeroSafe
    /\ ForcedSelectable /\ PromiseEnds /\ Checked /\ Waiting /\ Registrations /\ MapKnown

\* No flash map above 4 is even: with 1024+1024 on four megabytes (map 6) the
\* number asked for is doubled after it was compared with the running one.
OddMaps == \A m \in Maps : m > 4 => m % 2 = 1

\* A download goes to another partition than the running one, if it works with
\* the board's map.
ElsewhereInv == pc \in {"load", "erase", "write"} /\ tmap = flashMap => target # current

-----------------------------------------------------------------------------
(* The records *)

LEMMA ErasedType == Erased \in Params
  BY DEF Erased, Params, Contents

\* Every prefix of a record is a record.
LEMMA PrefixType ==
    ASSUME NEW b \in Params, NEW p \in Prefixes(b)
    PROVE  p \in Params
<1>1. CASE p = Erased
  BY <1>1, ErasedType
<1>2. CASE \E k \in 0 .. Cardinality(Parts) :
             p = [boot_part |-> b.boot_part,
                  md5  |-> [n \in Parts |-> IF n < k THEN b.md5[n] ELSE Bad],
                  type |-> [n \in Parts |-> NoType]]
  <2>1. PICK k \in 0 .. Cardinality(Parts) :
             p = [boot_part |-> b.boot_part,
                  md5  |-> [n \in Parts |-> IF n < k THEN b.md5[n] ELSE Bad],
                  type |-> [n \in Parts |-> NoType]]
    BY <1>2
  <2>2. [n \in Parts |-> IF n < k THEN b.md5[n] ELSE Bad] \in [Parts -> Contents]
    BY DEF Params, Contents
  <2> QED BY <2>1, <2>2 DEF Params
<1>3. CASE \E w \in 1 .. 2 :
             p = [b EXCEPT !.type = [n \in Parts |-> IF n < 4 * w THEN b.type[n] ELSE NoType]]
  <2>1. PICK w \in 1 .. 2 :
             p = [b EXCEPT !.type = [n \in Parts |-> IF n < 4 * w THEN b.type[n] ELSE NoType]]
    BY <1>3
  <2>2. [n \in Parts |-> IF n < 4 * w THEN b.type[n] ELSE NoType] \in [Parts -> Maps \cup {NoType}]
    BY DEF Params
  <2> QED BY <2>1, <2>2 DEF Params
<1> QED BY <1>1, <1>2, <1>3 DEF Prefixes

\* The record check_firmware makes of the present one.
LEMMA RegisteredType ==
    ASSUME TypeOK, NEW n \in Parts
    PROVE  Registered(n) \in Params
  BY DEF TypeOK, Registered, Params

-----------------------------------------------------------------------------
(* One lemma per action, or per group of actions that do the same to the state. *)

LEMMA InitIInv ==
    ASSUME Init
    PROVE  IInv
<1>1. TypeOK
  <2>1. params \in Params
    BY ErasedType DEF Init
  <2>2. trouble \in 0 .. MaxTrouble /\ counter \in 0 .. CounterMax /\ current \in Parts
    BY PartsAssumption, BoundsAssumption DEF Init
  <2>3. /\ forced \in Parts \cup {None} /\ csum \in Images \cup Loaders \cup {None}
        /\ kind \in Types \cup {None} /\ target \in Nat \cup {None} /\ tmap \in Maps \cup {NoType}
        /\ flashMap \in Maps /\ part \in [Parts -> Contents]
        /\ loader \in Loaders \cup {Bad} /\ lmap \in Maps \cup {NoType}
        /\ request \in Parts \cup {None} /\ promised \in Parts \cup {None}
    BY DEF Init
  <2>4. answers \in 0 .. 1
    BY DEF Init
  <2>5. cut = FALSE /\ pc = "off"
    BY DEF Init
  <2> QED BY <2>1, <2>2, <2>3, <2>4, <2>5 DEF TypeOK
<1>2. AnsweredOnce /\ OkMeansDefault /\ SectorZeroSafe
  BY DEF Init, AnsweredOnce, OkMeansDefault, SectorZeroSafe
<1>3. ForcedSelectable /\ PromiseEnds /\ Checked /\ Waiting /\ MapKnown
  BY DEF Init, ForcedSelectable, PromiseEnds, Checked, Waiting, MapKnown, Underway
<1>4. Registrations
  BY DEF Init, Registrations, Record, Erased
<1> QED BY <1>1, <1>2, <1>3, <1>4 DEF IInv

\* A setting changes nothing but itself.
LEMMA SettingKeepsIInv ==
    ASSUME IInv,
           \/ \E n \in Parts : at_setupCmdFWupdate(n)
           \/ at_setupCmdFWGetMD5
           \/ \E n \in Requestable \cup {None} : at_setupCmdBoot(n)
    PROVE  IInv'
<1> USE DEF IInv, at_setupCmdFWupdate, at_setupCmdFWGetMD5, at_setupCmdBoot, goal, board, rtc, sector0, history
<1>1. TypeOK'
  BY PartsAssumption DEF TypeOK, settings, Selectable
<1>2. ForcedSelectable'
  BY DEF ForcedSelectable, settings, Selectable
<1>3. AnsweredOnce' /\ OkMeansDefault' /\ SectorZeroSafe'
  BY DEF AnsweredOnce, OkMeansDefault, SectorZeroSafe
<1>4. PromiseEnds' /\ Checked' /\ Waiting' /\ MapKnown'
  BY DEF PromiseEnds, Checked, Waiting, MapKnown, Underway
<1>5. Registrations'
  BY DEF Registrations, Record
<1> QED BY <1>1, <1>2, <1>3, <1>4, <1>5

\* A download that runs works with the map of the running firmware's record.
LEMMA StartKeepsIInv ==
    ASSUME IInv, NEW t \in Types, Start(t)
    PROVE  IInv'
<1> USE DEF IInv, board, rtc, sector0
<1>1. /\ pc = "shell" /\ pc' \in {"shell", "load"} /\ promised' = None
      /\ UNCHANGED <<held, flashMap, current, part, params, loader, lmap, cut>>
  BY DEF Start, Calm, Disturbed
<1>2. trouble' \in 0 .. MaxTrouble /\ (trouble > 0 => trouble' > 0)
  BY BoundsAssumption DEF Start, Calm, Disturbed, TypeOK
<1>3. forced' \in {forced, None}
  BY DEF Start, update_setparams
<1>4. TypeOK'
  <2>1. target' \in Nat \cup {None} /\ tmap' \in Maps \cup {NoType} /\ kind' \in Types \cup {None}
    BY PartsAssumption DEF Start, update_setparams, TypeOK, Params, goal
  <2>2. csum' \in Images \cup Loaders \cup {None} /\ rtc' = rtc /\ answers' \in 0 .. 1
    BY DEF Start, TypeOK
  <2> QED BY <1>1, <1>2, <1>3, <2>1, <2>2 DEF TypeOK
<1>5. AnsweredOnce'
  BY <1>1 DEF Start, AnsweredOnce
<1>6. ForcedSelectable'
  BY <1>1, <1>3 DEF ForcedSelectable
<1>7. OkMeansDefault' /\ PromiseEnds' /\ Checked' /\ Waiting'
  BY <1>1 DEF OkMeansDefault, PromiseEnds, Checked, Waiting
<1>8. SectorZeroSafe'
  BY <1>1, <1>2 DEF SectorZeroSafe
<1>9. Registrations'
  BY <1>1 DEF Registrations, Record
<1>10. MapKnown'
  <2>1. CASE pc' = "load"
    <3>1. tmap' = params.type[current]
      BY <1>1, <2>1 DEF Start, update_setparams
    <3> QED BY <1>1, <3>1 DEF MapKnown, Registrations, Record, TypeOK
  <2> QED BY <1>1, <2>1 DEF MapKnown, Underway
<1> QED BY <1>4, <1>5, <1>6, <1>7, <1>8, <1>9, <1>10

\* What an upgrade leaves in the flash is some content of its partition.
LEMMA PutFacts ==
    ASSUME TypeOK, NEW p \in Put(Contents)
    PROVE  p \in [Parts -> Contents]
  BY DEF Put, TypeOK

LEMMA PutBad ==
    ASSUME NEW p \in Put({Bad})
    PROVE  p \in Put(Contents)
  BY DEF Put, Contents

\* While a download runs nothing is promised, so the partition may change.
LEMMA LoadingKeepsIInv ==
    ASSUME IInv, pc = "load", part' \in [Parts -> Contents],
           csum' \in Images \cup Loaders \cup {None},
           trouble' \in 0 .. MaxTrouble, trouble > 0 => trouble' > 0, cut' = cut,
           UNCHANGED <<forced, board, rtc, params, sector0, promised>>,
           \/ pc' = "load" /\ UNCHANGED <<goal, held, answers>>
           \/ Finished
    PROVE  IInv'
<1> USE DEF IInv, board, rtc, sector0
<1>1. promised' = None /\ pc' \in {"load", "shell"}
  BY DEF PromiseEnds, Finished, Underway
<1>2. TypeOK'
  BY <1>1 DEF TypeOK, AnsweredOnce, Finished, goal
<1>3. AnsweredOnce'
  BY DEF AnsweredOnce, Finished
<1>4. OkMeansDefault' /\ PromiseEnds' /\ Checked' /\ Waiting' /\ SectorZeroSafe'
  BY <1>1 DEF OkMeansDefault, PromiseEnds, Checked, Waiting, SectorZeroSafe
<1>5. ForcedSelectable'
  BY <1>1 DEF ForcedSelectable
<1>6. Registrations' /\ MapKnown'
  BY <1>1 DEF Registrations, Record, MapKnown, Underway, Finished, goal
<1> QED BY <1>2, <1>3, <1>4, <1>5, <1>6

LEMMA TroubleFacts ==
    ASSUME TypeOK, Calm \/ Disturbed
    PROVE  trouble' \in 0 .. MaxTrouble /\ (trouble > 0 => trouble' > 0) /\ cut' = cut
  BY BoundsAssumption DEF TypeOK, Calm, Disturbed

LEMMA DownloadKeepsIInv ==
    ASSUME IInv, Download \/ DownloadFailed \/ OtaVerCheck_MD5_CallBack
    PROVE  IInv'
<1>1. pc = "load" /\ TypeOK /\ UNCHANGED <<trouble, cut>>
  BY DEF IInv, Download, DownloadFailed, OtaVerCheck_MD5_CallBack
<1>2. part' \in [Parts -> Contents]
  <2>1. part' \in {part} \cup Put({Bad})
    BY DEF Download, DownloadFailed, OtaVerCheck_MD5_CallBack
  <2>2. part \in [Parts -> Contents]
    BY <1>1 DEF TypeOK
  <2> QED BY <1>1, <2>1, <2>2, PutFacts, PutBad
<1>3. csum' \in Images \cup Loaders \cup {None}
  BY <1>1 DEF TypeOK, Download, DownloadFailed, OtaVerCheck_MD5_CallBack, settings
<1>4. UNCHANGED <<forced, board, rtc, params, sector0, promised>>
  BY DEF Download, DownloadFailed, OtaVerCheck_MD5_CallBack, Failed, settings, history
<1>5. (pc' = "load" /\ UNCHANGED <<goal, held, answers>>) \/ Finished
  BY <1>1 DEF Download, DownloadFailed, OtaVerCheck_MD5_CallBack, Failed, history
<1>6. trouble' \in 0 .. MaxTrouble /\ (trouble > 0 => trouble' > 0) /\ cut' = cut
  BY <1>1 DEF TypeOK
<1> QED BY <1>1, <1>2, <1>3, <1>4, <1>5, <1>6, LoadingKeepsIInv

\* The verdict on a firmware: only one that passed is going to be registered.
LEMMA UpdateKeepsIInv ==
    ASSUME IInv, OtaUpdate_CallBack
    PROVE  IInv'
<1>1. /\ pc = "load" /\ TypeOK /\ (Calm \/ Disturbed)
      /\ UNCHANGED <<settings, board, rtc, params, sector0>>
  BY DEF IInv, OtaUpdate_CallBack
<1>2. part' \in [Parts -> Contents]
  <2>1. part' \in {part} \cup Put(Contents) /\ part \in [Parts -> Contents]
    BY <1>1 DEF OtaUpdate_CallBack, TypeOK
  <2> QED BY <1>1, <2>1, PutFacts
<1>3. trouble' \in 0 .. MaxTrouble /\ (trouble > 0 => trouble' > 0) /\ cut' = cut
  BY <1>1, TroubleFacts
<1>4. CASE Failed
  BY <1>1, <1>2, <1>3, <1>4, LoadingKeepsIInv DEF Failed, settings, TypeOK
<1>5. CASE /\ target \in Parts /\ check_firmware(part'[target])
           /\ pc' = "erase"
           /\ UNCHANGED <<goal, held, history>>
  <2> USE DEF IInv, settings, goal, board, rtc, sector0, history
  <2>1. TypeOK'
    BY <1>1, <1>2, <1>3, <1>5 DEF TypeOK
  <2>2. Checked'
    BY <1>1, <1>5 DEF Checked, check_firmware
  <2>3. AnsweredOnce' /\ PromiseEnds' /\ MapKnown' /\ ForcedSelectable'
    BY <1>1, <1>3, <1>5 DEF AnsweredOnce, PromiseEnds, MapKnown, Underway, ForcedSelectable
  <2>4. OkMeansDefault'
    BY <1>1, <1>5 DEF OkMeansDefault, PromiseEnds, Underway
  <2>5. SectorZeroSafe' /\ Waiting' /\ Registrations'
    BY <1>1, <1>3, <1>5 DEF SectorZeroSafe, Waiting, Registrations, Record
  <2> QED BY <2>1, <2>2, <2>3, <2>4, <2>5
<1> QED BY <1>4, <1>5 DEF OtaUpdate_CallBack

\* The verdict on a bootloader: without its sum it is not written.
LEMMA UpdateBootKeepsIInv ==
    ASSUME IInv, OtaUpdateBoot_CallBack
    PROVE  IInv'
<1>1. /\ pc = "load" /\ TypeOK
      /\ UNCHANGED <<settings, board, rtc, part, params, sector0, cut, trouble>>
  BY DEF IInv, OtaUpdateBoot_CallBack
<1>2. CASE Failed
  BY <1>1, <1>2, LoadingKeepsIInv DEF Failed, settings, TypeOK
<1>3. CASE \E c \in Loaders \cup {Bad} :
             /\ check_bootloader(c)
             /\ pc' = "erase0" /\ held' = c
             /\ UNCHANGED <<goal, history>>
  <2> USE DEF IInv, settings, goal, board, rtc, sector0, history
  <2>1. held' \in Loaders /\ pc' = "erase0"
    BY <1>1, <1>3, ContentsAssumption DEF TypeOK, check_bootloader
  <2>2. TypeOK' /\ AnsweredOnce'
    BY <1>1, <1>3 DEF TypeOK, AnsweredOnce
  <2>3. Waiting' /\ Checked'
    BY <2>1 DEF Waiting, Checked
  <2>4. PromiseEnds' /\ MapKnown' /\ ForcedSelectable'
    BY <1>1, <1>3 DEF PromiseEnds, MapKnown, Underway, ForcedSelectable
  <2>5. OkMeansDefault' /\ SectorZeroSafe' /\ Registrations'
    BY <1>1, <1>3 DEF OkMeansDefault, SectorZeroSafe, Registrations, Record
  <2> QED BY <2>2, <2>3, <2>4, <2>5
<1> QED BY <1>2, <1>3 DEF OtaUpdateBoot_CallBack

\* Ending a command with an error in the middle of the flash operations.
LEMMA ErrorKeepsIInv ==
    ASSUME IInv, pc \in Underway \ {"write"}, Failed, Disturbed,
           UNCHANGED <<settings, board, rtc, part, params, sector0>>
    PROVE  IInv'
<1> USE DEF IInv, settings, board, rtc, sector0, Failed, Finished
<1>1. trouble' \in 0 .. MaxTrouble /\ trouble' > 0 /\ cut' = cut
  BY BoundsAssumption DEF TypeOK, Disturbed
<1>2. TypeOK' /\ AnsweredOnce'
  BY <1>1 DEF TypeOK, AnsweredOnce, Underway
<1>3. OkMeansDefault' /\ SectorZeroSafe' /\ ForcedSelectable'
  BY <1>1 DEF OkMeansDefault, SectorZeroSafe, ForcedSelectable, Underway
<1>4. PromiseEnds' /\ Checked' /\ Waiting' /\ MapKnown'
  BY DEF PromiseEnds, Checked, Waiting, MapKnown, Underway
<1>5. Registrations'
  BY <1>1 DEF Registrations, Record, Underway
<1> QED BY <1>2, <1>3, <1>4, <1>5

\* Without a disturbance the new record is in RAM and the flash is erased.
LEMMA EraseParamsKeepsIInv ==
    ASSUME IInv, EraseParams
    PROVE  IInv'
<1>1. pc = "erase" /\ UNCHANGED <<settings, board, rtc, part, sector0>>
  BY DEF EraseParams
<1>2. CASE Disturbed /\ Failed /\ UNCHANGED params
  BY <1>1, <1>2, ErrorKeepsIInv DEF Underway
<1>3. CASE /\ Calm
           /\ params' = Erased
           /\ held' = Registered(target)
           /\ pc' = "write"
           /\ UNCHANGED <<goal, history>>
  <2> USE DEF IInv, settings, goal, board, rtc, sector0, history, Calm
  <2>1. TypeOK /\ target \in Parts /\ part[target] \in Images
    BY <1>1 DEF Checked
  <2>2. Registered(target) \in Params
    BY <2>1, RegisteredType
  <2>3. /\ held'.boot_part = target
        /\ \A n \in Parts : held'.md5[n] = IF n = target THEN part[n] ELSE params.md5[n]
        /\ \A n \in Parts : held'.type[n] = IF n = target THEN flashMap ELSE params.type[n]
    BY <1>3, <2>1 DEF Registered, TypeOK, Params
  <2>4. TypeOK'
    BY <1>1, <1>3, ErasedType DEF TypeOK
  <2>5. Waiting'
    BY <1>1, <1>3, <2>1, <2>2, <2>3 DEF Waiting
  <2>6. Registrations'
    <3>1. CASE cut
      BY <1>3, <3>1 DEF Registrations
    <3>2. CASE ~cut
      <4>1. \A n \in Parts : params.md5[n] # Bad => params.type[n] = flashMap
        BY <1>1, <3>2 DEF Registrations, Record
      <4>2. params.md5[current] # Bad
        BY <1>1, <3>2 DEF Registrations, Record
      <4>3. current \in Parts /\ part[target] # Bad
        BY <2>1, ContentsAssumption DEF TypeOK
      <4> QED BY <1>1, <1>3, <2>1, <2>3, <4>1, <4>2, <4>3 DEF Registrations, Record
    <3> QED BY <3>1, <3>2
  <2>7. promised' = None
    BY <1>1, <1>3 DEF PromiseEnds, Underway
  <2>8. AnsweredOnce' /\ OkMeansDefault' /\ PromiseEnds'
    BY <1>1, <1>3, <2>7 DEF AnsweredOnce, OkMeansDefault, PromiseEnds
  <2>9. SectorZeroSafe' /\ ForcedSelectable' /\ Checked' /\ MapKnown'
    BY <1>1, <1>3 DEF SectorZeroSafe, ForcedSelectable, Checked, MapKnown, Underway
  <2> QED BY <2>4, <2>5, <2>6, <2>8, <2>9
<1> QED BY <1>2, <1>3 DEF EraseParams

\* A restart keeps the invariant if the flash is in order.
LEMMA LostKeepsIInv ==
    ASSUME IInv, Lost, UNCHANGED <<board, part>>, params' \in Params,
           request' \in Parts \cup {None}, counter' \in 0 .. CounterMax, answers' = 1, promised' \in Parts \cup {None},
           loader' \in Loaders \cup {Bad}, lmap' \in Maps \cup {NoType},
           cut' \in BOOLEAN, trouble' \in 0 .. MaxTrouble,
           OkMeansDefault', SectorZeroSafe',
           cut' \/ \A n \in Parts : params'.md5[n] # Bad => params'.type[n] = flashMap
    PROVE  IInv'
<1> USE DEF IInv, Lost, board, rtc
<1>1. pc' = "off" /\ answers' \in 0 .. 1 /\ AnsweredOnce'
  BY DEF AnsweredOnce
<1>2. TypeOK'
  BY <1>1 DEF TypeOK
<1>3. ForcedSelectable' /\ PromiseEnds' /\ Checked' /\ Waiting' /\ MapKnown'
  BY DEF ForcedSelectable, PromiseEnds, Checked, Waiting, MapKnown, Underway
<1>4. Registrations'
  BY DEF Registrations, Record
<1> QED BY <1>1, <1>2, <1>3, <1>4

LEMMA WriteParamsKeepsIInv ==
    ASSUME IInv, WriteParams
    PROVE  IInv'
<1> USE DEF IInv, settings, board, rtc, sector0, history
<1>1. /\ pc = "write" /\ UNCHANGED <<board, rtc, part, sector0>> /\ TypeOK
      /\ held \in Params /\ target \in Parts /\ part[target] \in Images
      /\ held.boot_part = target /\ held.md5[target] = part[target] /\ held.type[target] = flashMap
  BY DEF WriteParams, Checked, Waiting
<1>2. answers = 0
  BY <1>1 DEF AnsweredOnce
<1>3. cut \/ \A n \in Parts : held.md5[n] # Bad => held.type[n] = flashMap
  BY <1>1 DEF Registrations, Record
<1>4. cut \/ held.md5[current] # Bad
  BY <1>1 DEF Registrations, Record
<1>5. CASE /\ Calm /\ params' = held /\ promised' = target
           /\ \/ Finished /\ UNCHANGED settings
              \/ answers' = answers + 1 /\ Lost
  <2> USE DEF Calm
  <2>1. OkMeansDefault'
    BY <1>1, <1>5 DEF OkMeansDefault
  <2>2. SectorZeroSafe'
    BY <1>1, <1>5 DEF SectorZeroSafe, Finished, Lost
  <2>3. CASE Finished /\ UNCHANGED settings
    <3> USE DEF Finished
    <3>1. TypeOK' /\ AnsweredOnce'
      BY <1>1, <1>2, <1>5, <2>3 DEF TypeOK, AnsweredOnce
    <3>2. ForcedSelectable' /\ PromiseEnds' /\ Checked' /\ Waiting' /\ MapKnown'
      BY <1>1, <1>5, <2>3 DEF ForcedSelectable, PromiseEnds, Checked, Waiting, MapKnown, Underway
    <3>3. Registrations'
      BY <1>1, <1>3, <1>4, <1>5, <2>3 DEF Registrations, Record
    <3> QED BY <2>1, <2>2, <3>1, <3>2, <3>3
  <2>4. CASE answers' = answers + 1 /\ Lost
    BY <1>1, <1>2, <1>3, <1>5, <2>1, <2>2, <2>4, LostKeepsIInv DEF TypeOK
  <2> QED BY <1>5, <2>3, <2>4
<1>6. CASE Interrupted /\ params' \in Prefixes(held) /\ Failed /\ UNCHANGED settings
  <2> USE DEF Failed, Finished
  <2>1. params' \in Params /\ cut' = TRUE /\ trouble' \in 0 .. MaxTrouble /\ trouble' > 0
    BY <1>1, <1>6, PrefixType, BoundsAssumption DEF Interrupted, TypeOK
  <2>2. promised' = None
    BY <1>1, <1>6 DEF PromiseEnds, Underway
  <2>3. TypeOK' /\ AnsweredOnce'
    BY <1>1, <1>2, <1>6, <2>1, <2>2 DEF TypeOK, AnsweredOnce
  <2>4. OkMeansDefault' /\ SectorZeroSafe' /\ PromiseEnds' /\ Registrations'
    BY <1>6, <2>1, <2>2 DEF OkMeansDefault, SectorZeroSafe, PromiseEnds, Registrations
  <2>5. ForcedSelectable' /\ Checked' /\ Waiting' /\ MapKnown'
    BY <1>1, <1>6 DEF ForcedSelectable, Checked, Waiting, MapKnown, Underway
  <2> QED BY <2>3, <2>4, <2>5
<1> QED BY <1>5, <1>6 DEF WriteParams

LEMMA EraseLoaderKeepsIInv ==
    ASSUME IInv, EraseLoader
    PROVE  IInv'
<1>1. pc = "erase0" /\ UNCHANGED <<settings, board, rtc, part, params, lmap>>
  BY DEF EraseLoader
<1>2. CASE Disturbed /\ Failed /\ UNCHANGED loader
  BY <1>1, <1>2, ErrorKeepsIInv DEF Underway, sector0
<1>3. CASE Calm /\ loader' = Bad /\ pc' = "write0" /\ UNCHANGED <<goal, held, history>>
  <2> USE DEF IInv, settings, goal, board, rtc, history, Calm
  <2>1. TypeOK' /\ AnsweredOnce' /\ SectorZeroSafe'
    BY <1>1, <1>3 DEF TypeOK, AnsweredOnce, SectorZeroSafe
  <2>2. OkMeansDefault' /\ PromiseEnds' /\ Checked' /\ Waiting' /\ MapKnown' /\ ForcedSelectable'
    BY <1>1, <1>3 DEF OkMeansDefault, PromiseEnds, Checked, Waiting, MapKnown, Underway, ForcedSelectable
  <2>3. Registrations'
    BY <1>1, <1>3 DEF Registrations, Record
  <2> QED BY <2>1, <2>2, <2>3
<1> QED BY <1>2, <1>3 DEF EraseLoader

LEMMA WriteLoaderKeepsIInv ==
    ASSUME IInv, WriteLoader
    PROVE  IInv'
<1>1. pc = "write0" /\ UNCHANGED <<settings, board, rtc, part, params>>
  BY DEF WriteLoader
<1>2. CASE Disturbed /\ Failed /\ UNCHANGED sector0
  BY <1>1, <1>2, ErrorKeepsIInv DEF Underway
<1>3. CASE /\ Calm /\ loader' = held /\ lmap' = tmap
           /\ \/ Failed
              \/ pc' = "wipe" /\ answers' = answers + 1 /\ UNCHANGED <<goal, held, promised>>
  <2> USE DEF IInv, settings, goal, board, rtc, sector0, history, Calm
  <2>1. /\ held \in Loaders /\ (tmap = flashMap \/ cut) /\ answers = 0 /\ promised = None
    BY <1>1 DEF Waiting, MapKnown, Underway, AnsweredOnce, PromiseEnds
  <2>2. SectorZeroSafe'
    BY <1>1, <1>3, <2>1 DEF SectorZeroSafe
  <2>3. CASE Failed
    <3> USE DEF Failed, Finished
    <3>1. TypeOK' /\ AnsweredOnce'
      BY <1>1, <1>3, <2>1, <2>3 DEF TypeOK, AnsweredOnce
    <3>2. OkMeansDefault' /\ PromiseEnds' /\ Checked' /\ Waiting' /\ MapKnown' /\ ForcedSelectable'
      BY <1>1, <2>1, <2>3 DEF OkMeansDefault, PromiseEnds, Checked, Waiting, MapKnown, Underway, ForcedSelectable
    <3>3. Registrations'
      BY <1>1, <1>3, <2>3 DEF Registrations, Record
    <3> QED BY <2>2, <3>1, <3>2, <3>3
  <2>4. CASE pc' = "wipe" /\ answers' = answers + 1 /\ UNCHANGED <<goal, held, promised>>
    <3>1. TypeOK' /\ AnsweredOnce'
      BY <1>1, <1>3, <2>1, <2>4 DEF TypeOK, AnsweredOnce
    <3>2. OkMeansDefault' /\ PromiseEnds' /\ Checked' /\ Waiting' /\ MapKnown' /\ ForcedSelectable'
      BY <1>1, <1>3, <2>1, <2>4
      DEF OkMeansDefault, PromiseEnds, Checked, Waiting, MapKnown, Underway, ForcedSelectable
    <3>3. Registrations'
      BY <1>1, <1>3, <2>4 DEF Registrations, Record
    <3> QED BY <2>2, <3>1, <3>2, <3>3
  <2> QED BY <1>3, <2>3, <2>4
<1> QED BY <1>2, <1>3 DEF WriteLoader

LEMMA WipeKeepsIInv ==
    ASSUME IInv, Wipe
    PROVE  IInv'
<1>1. /\ pc = "wipe" /\ TypeOK /\ Lost /\ UNCHANGED <<board, rtc, part, sector0, history>>
      /\ (Calm \/ Disturbed)
  BY DEF IInv, Wipe
<1>2. promised = None /\ answers = 1
  BY <1>1 DEF IInv, PromiseEnds, AnsweredOnce
<1>3. trouble' \in 0 .. MaxTrouble /\ (trouble > 0 => trouble' > 0) /\ cut' = cut
  BY <1>1, TroubleFacts
<1>4. params' \in Params
  BY <1>1, ErasedType DEF Wipe, TypeOK
<1>5. cut' \/ \A n \in Parts : params'.md5[n] # Bad => params'.type[n] = flashMap
  <2>1. CASE params' = Erased
    BY <2>1 DEF Erased
  <2>2. CASE params' = params
    BY <1>1, <1>3, <2>2 DEF IInv, Registrations, Record
  <2> QED BY <2>1, <2>2 DEF Wipe
<1>6. OkMeansDefault' /\ SectorZeroSafe'
  BY <1>1, <1>2, <1>3 DEF IInv, OkMeansDefault, SectorZeroSafe, history, sector0, board
<1> QED
  BY <1>1, <1>2, <1>3, <1>4, <1>5, <1>6, LostKeepsIInv DEF TypeOK, history, sector0, rtc

LEMMA RestartKeepsIInv ==
    ASSUME IInv, Restart
    PROVE  IInv'
<1>1. /\ pc = "shell" /\ TypeOK /\ Lost
      /\ UNCHANGED <<board, rtc, part, params, sector0, history, cut, trouble>>
  BY DEF IInv, Restart
<1>2. answers = 1 /\ (cut \/ \A n \in Parts : params.md5[n] # Bad => params.type[n] = flashMap)
  BY <1>1 DEF IInv, AnsweredOnce, Registrations, Record
<1>3. OkMeansDefault' /\ SectorZeroSafe'
  BY <1>1 DEF IInv, OkMeansDefault, SectorZeroSafe, history, sector0, board
<1> QED BY <1>1, <1>2, <1>3, LostKeepsIInv DEF TypeOK, history, sector0, rtc

\* A power cut during the write leaves a prefix of the record, and nothing was
\* promised of it; at any other moment it leaves the record.
LEMMA PowerCutKeepsIInv ==
    ASSUME IInv, PowerCut
    PROVE  IInv'
<1>1. /\ TypeOK /\ Lost /\ UNCHANGED <<board, part, sector0, promised>>
      /\ answers' = 1 /\ request' = None
  BY DEF IInv, PowerCut
<1>2. /\ trouble' \in 0 .. MaxTrouble /\ trouble' > 0 /\ cut' \in BOOLEAN
      /\ counter' \in 0 .. CounterMax
  <2>1. trouble < MaxTrouble /\ trouble' = trouble + 1 /\ (cut' = cut \/ cut' = TRUE)
    BY DEF PowerCut, Interrupted, Disturbed
  <2>2. trouble' \in 0 .. MaxTrouble /\ trouble' > 0
    BY <1>1, <2>1, BoundsAssumption DEF TypeOK
  <2>3. cut' \in BOOLEAN
    BY <1>1, <2>1 DEF TypeOK
  <2>4. counter' \in 0 .. CounterMax
    BY BoundsAssumption DEF PowerCut
  <2> QED BY <2>2, <2>3, <2>4
<1>3. SectorZeroSafe'
  BY <1>1, <1>2 DEF IInv, SectorZeroSafe, PowerCut, Interrupted, Disturbed, sector0, board
<1>4. CASE pc = "write" /\ Interrupted /\ params' \in Prefixes(held)
  <2>1. params' \in Params
    BY <1>4, PrefixType DEF IInv, Waiting
  <2>2. OkMeansDefault'
    BY <1>1, <1>4 DEF IInv, PromiseEnds, Underway, OkMeansDefault
  <2> QED BY <1>1, <1>2, <1>3, <1>4, <2>1, <2>2, LostKeepsIInv DEF TypeOK, Interrupted, sector0
<1>5. CASE pc # "write" /\ Disturbed /\ UNCHANGED params
  <2>1. cut' \/ \A n \in Parts : params.md5[n] # Bad => params.type[n] = flashMap
    BY <1>5 DEF IInv, Registrations, Record, Disturbed
  <2>2. OkMeansDefault'
    BY <1>1, <1>5 DEF IInv, OkMeansDefault, board
  <2> QED BY <1>1, <1>2, <1>3, <1>5, <2>1, <2>2, LostKeepsIInv DEF TypeOK, sector0
<1> QED BY <1>4, <1>5 DEF PowerCut

\* What a run of the bootloader may leave.
LEMMA BootedKeepsIInv ==
    ASSUME IInv, pc = "off", pc' \in {"off", "shell"},
           UNCHANGED <<settings, goal, held, flashMap, part, sector0, answers>>,
           request' \in {request, None}, counter' \in 0 .. CounterMax, promised' \in {promised, None},
           cut' \in BOOLEAN, trouble' \in 0 .. MaxTrouble, trouble > 0 => trouble' > 0, cut => cut',
           current' \in Parts, params' \in Params, OkMeansDefault',
           cut' \/ \A n \in Parts : params'.md5[n] # Bad => params'.type[n] = flashMap,
           pc' = "shell" => params'.md5[current'] # Bad
    PROVE  IInv'
<1> USE DEF IInv, settings, goal, sector0
<1>1. TypeOK' /\ AnsweredOnce'
  BY DEF TypeOK, AnsweredOnce
<1>2. ForcedSelectable' /\ PromiseEnds' /\ Checked' /\ Waiting' /\ MapKnown'
  BY DEF ForcedSelectable, PromiseEnds, Checked, Waiting, MapKnown, Underway
<1>3. SectorZeroSafe'
  BY DEF SectorZeroSafe
<1>4. Registrations'
  BY DEF Registrations, Record
<1> QED BY <1>1, <1>2, <1>3, <1>4

\* The counter stays within its four bits.
LEMMA CounterType ==
    ASSUME TypeOK
    PROVE  NextCount \in 0 .. CounterMax /\ 1 \in 0 .. CounterMax
  BY BoundsAssumption DEF TypeOK, NextCount

\* A record with firmwares registered in it.
LEMMA RegisteringType ==
    ASSUME TypeOK, NEW new \in SUBSET Found, NEW default \in Parts \cup {None}
    PROVE  /\ Registering(new, default) \in Params
           /\ \A n \in Parts : Registering(new, default).md5[n] = IF n \in new THEN part[n] ELSE params.md5[n]
           /\ \A n \in Parts : Registering(new, default).type[n] = IF n \in new THEN flashMap ELSE params.type[n]
  BY DEF TypeOK, Registering, Params, Contents, Found

\* The loop leaves every firmware it found registered, and starts one of them.
LEMMA LoopFacts ==
    ASSUME IInv, pc = "off", NEW seen \in SUBSET Found, boot_1st(seen)
    PROVE  /\ pc' \in {"off", "shell"} /\ counter' \in 0 .. CounterMax
           /\ current' \in Parts /\ params' \in Params
           /\ cut \/ \A n \in Parts : params'.md5[n] # Bad => params'.type[n] = flashMap
           /\ pc' = "shell" => params'.md5[current'] # Bad
<1>1. TypeOK /\ seen \subseteq Parts /\ \A n \in Found : part[n] # Bad
  BY ContentsAssumption DEF IInv, Found
<1>2. PICK default \in Parts \cup {None} : params' = Registering(seen \ Known, default)
  BY DEF boot_1st
<1>3. /\ params' \in Params
      /\ \A n \in Parts : params'.md5[n] = IF n \in seen \ Known THEN part[n] ELSE params.md5[n]
      /\ \A n \in Parts : params'.type[n] = IF n \in seen \ Known THEN flashMap ELSE params.type[n]
  <2>1. seen \ Known \subseteq Found
    OBVIOUS
  <2> QED BY <1>1, <1>2, <2>1 DEF TypeOK, Registering, Params, Contents, Found
<1>4. cut \/ \A n \in Parts : params.md5[n] # Bad => params.type[n] = flashMap
  BY DEF IInv, Registrations, Record
<1>5. \/ pc' = "shell" /\ current' \in seen
      \/ pc' = "off" /\ current' = current
  BY DEF boot_1st, Lowest, exit_ok, exit_err
<1>6. \A n \in seen : params'.md5[n] # Bad
  BY <1>1, <1>3 DEF Known
<1>7. counter' \in 0 .. CounterMax
  BY <1>1, CounterType DEF boot_1st
<1> QED BY <1>1, <1>3, <1>4, <1>5, <1>6, <1>7 DEF TypeOK

\* A registered firmware starts, or none: the record stays.
LEMMA StartedKeepsIInv ==
    ASSUME IInv, pc = "off", UNCHANGED <<settings, goal, held, flashMap, part, sector0, answers>>,
           UNCHANGED <<params, promised>>, request' \in {request, None}, counter' \in 0 .. CounterMax,
           Calm \/ Disturbed, exit_err \/ \E n \in Known : exit_ok(n)
    PROVE  IInv'
<1>1. TypeOK /\ \A n \in Known : n \in Parts /\ params.md5[n] # Bad
  BY ContentsAssumption DEF IInv, Known, Found
<1>2. trouble' \in 0 .. MaxTrouble /\ (trouble > 0 => trouble' > 0) /\ cut' = cut
  BY <1>1, TroubleFacts
<1>3. OkMeansDefault'
  BY DEF IInv, OkMeansDefault
<1>4. cut \/ \A n \in Parts : params.md5[n] # Bad => params.type[n] = flashMap
  BY DEF IInv, Registrations, Record
<1>5. pc' \in {"off", "shell"} /\ current' \in Parts /\ (pc' = "shell" => params'.md5[current'] # Bad)
  BY <1>1 DEF exit_ok, exit_err, TypeOK
<1>6. params' \in Params /\ cut' \in BOOLEAN
  BY <1>1, <1>2 DEF TypeOK
<1> QED BY <1>2, <1>3, <1>4, <1>5, <1>6, BootedKeepsIInv

\* Which firmware starts depends on the request, the counter, the button and the
\* errors; what was promised is registered, and the loop is not reached while it
\* can be read.
LEMMA BootKeepsIInv ==
    ASSUME IInv, NEW e \in Errors, NEW pressed \in BOOLEAN, Boot(e, pressed)
    PROVE  IInv'
<1>1. /\ pc = "off" /\ TypeOK /\ (Calm \/ Disturbed)
      /\ UNCHANGED <<settings, goal, held, flashMap, part, sector0, answers>>
      /\ request' \in {request, None}
  BY DEF IInv, Boot
<1>2. NextCount \in 0 .. CounterMax /\ Known \subseteq Found /\ Found \ e.loop \subseteq Found
  BY <1>1, CounterType DEF Known
<1>3. trouble' \in 0 .. MaxTrouble /\ (trouble > 0 => trouble' > 0) /\ cut' = cut
  BY <1>1, TroubleFacts
<1>4. ASSUME boot_1st(Found \ e.loop), promised' = None
      PROVE  IInv'
  <2>1. OkMeansDefault'
    BY <1>4 DEF OkMeansDefault
  <2>2. promised' \in {promised, None} /\ cut' \in BOOLEAN /\ (cut => cut')
    BY <1>1, <1>3, <1>4 DEF TypeOK
  <2> QED BY <1>1, <1>2, <1>3, <1>4, <2>1, <2>2, LoopFacts, BootedKeepsIInv
<1>5. CASE params.boot_part = None
  <2>1. promised = None
    BY <1>1, <1>5, PartsAssumption DEF IInv, OkMeansDefault, TypeOK
  <2> QED BY <1>4, <1>5, <2>1 DEF Boot
<1>6. CASE exit_ok(request) /\ request \in Known /\ counter' = NextCount /\ UNCHANGED <<params, promised>>
  BY <1>1, <1>2, <1>6, StartedKeepsIInv
<1>7. CASE BootDefault(e, pressed)
  <2>1. CASE OtherFirmware((Known \ {params.boot_part}) \ e.loop) /\ UNCHANGED promised
    BY <1>1, <1>2, <2>1, StartedKeepsIInv DEF OtherFirmware, Lowest
  <2>2. CASE /\ params.boot_part \in Known
             /\ exit_ok(params.boot_part) /\ counter' = NextCount /\ UNCHANGED <<params, promised>>
    BY <1>1, <1>2, <2>2, StartedKeepsIInv
  <2>3. CASE /\ params.boot_part \notin Known \/ e.configured
             /\ boot_1st(Found \ e.loop) /\ promised' = IF e.configured THEN None ELSE promised
    <3>1. promised = None \/ params.boot_part \in Known
      BY <1>1 DEF IInv, OkMeansDefault, TypeOK, Known, Found
    <3>2. promised' = None
      BY <2>3, <3>1
    <3> QED BY <1>4, <2>3, <3>2
  <2> QED BY <1>7, <2>1, <2>2, <2>3 DEF BootDefault
<1> QED BY <1>5, <1>6, <1>7 DEF Boot

LEMMA BootUnreadKeepsIInv ==
    ASSUME IInv, BootUnread
    PROVE  IInv'
<1>1. NextCount \in 0 .. CounterMax
  BY CounterType DEF IInv
<1> QED BY <1>1, StartedKeepsIInv DEF BootUnread, history

\* Power goes while the loop rewrites the record: nothing is promised then.
LEMMA BootCutKeepsIInv ==
    ASSUME IInv, BootCut
    PROVE  IInv'
<1>1. /\ TypeOK /\ pc = "off" /\ pc' = "off" /\ LoopReached /\ Interrupted
      /\ UNCHANGED <<settings, goal, held, board, part, sector0, history>>
      /\ request' = None /\ counter' = 0
  BY DEF IInv, BootCut
<1>2. promised = None
  BY <1>1, PartsAssumption DEF IInv, OkMeansDefault, TypeOK, LoopReached, Known, Found
<1>3. params' \in Params
  <2>1. PICK default \in Parts \cup {None}, last \in Found \ Known :
          params' \in Prefixes(Registering({n \in Found \ Known : n <= last}, default))
    BY DEF BootCut
  <2>2. Registering({n \in Found \ Known : n <= last}, default) \in Params
    BY <1>1, RegisteringType
  <2> QED BY <2>1, <2>2, PrefixType
<1>4. cut' = TRUE /\ trouble' \in 0 .. MaxTrouble /\ trouble' > 0
  BY <1>1, BoundsAssumption DEF Interrupted, TypeOK
<1>5. OkMeansDefault' /\ current' \in Parts /\ 0 \in 0 .. CounterMax /\ promised' = promised
  BY <1>1, <1>2, BoundsAssumption DEF OkMeansDefault, board, history, TypeOK
<1>6. UNCHANGED <<settings, goal, held, flashMap, part, sector0, answers>>
  BY <1>1 DEF board, history
<1> QED BY <1>1, <1>3, <1>4, <1>5, <1>6, BootedKeepsIInv

LEMMA StutterKeepsIInv ==
    ASSUME IInv, UNCHANGED vars
    PROVE  IInv'
<1> USE DEF IInv, vars, settings, goal, board, rtc, sector0, history
<1>1. TypeOK' /\ AnsweredOnce' /\ OkMeansDefault' /\ SectorZeroSafe'
  BY DEF TypeOK, AnsweredOnce, OkMeansDefault, SectorZeroSafe
<1>2. ForcedSelectable' /\ PromiseEnds' /\ Checked' /\ Waiting' /\ MapKnown'
  BY DEF ForcedSelectable, PromiseEnds, Checked, Waiting, MapKnown
<1>3. Registrations'
  BY DEF Registrations, Record
<1> QED BY <1>1, <1>2, <1>3

LEMMA NextKeepsIInv ==
    ASSUME IInv, [Next]_vars
    PROVE  IInv'
<1>1. CASE Command
  BY <1>1, SettingKeepsIInv, StartKeepsIInv DEF Command
<1>2. CASE Download \/ DownloadEnds
  BY <1>2, DownloadKeepsIInv, UpdateKeepsIInv, UpdateBootKeepsIInv DEF DownloadEnds
<1>3. CASE Flash
  BY <1>3, EraseParamsKeepsIInv, WriteParamsKeepsIInv, EraseLoaderKeepsIInv,
     WriteLoaderKeepsIInv, WipeKeepsIInv DEF Flash
<1>4. CASE Restart \/ PowerCut \/ Bootloader
  BY <1>4, RestartKeepsIInv, PowerCutKeepsIInv, BootKeepsIInv, BootUnreadKeepsIInv,
     BootCutKeepsIInv DEF Bootloader
<1>5. CASE UNCHANGED vars
  BY <1>5, StutterKeepsIInv
<1> QED BY <1>1, <1>2, <1>3, <1>4, <1>5 DEF Next

LEMMA AlwaysIInv == Spec => []IInv
  BY InitIInv, NextKeepsIInv, PTL DEF Spec

-----------------------------------------------------------------------------
(* The theorems *)

\* The types of the statics, of the boot parameters and of sector 0 are kept by
\* every command, callback, flash operation and disturbance.
THEOREM TypesPreserved == Spec => []TypeOK
<1>1. IInv => TypeOK
  BY DEF IInv
<1> QED BY <1>1, AlwaysIInv, PTL

\* Every command that downloads is answered exactly once (startUpdate, the three
\* callbacks of a download and the ends they reach), also through power cuts.
THEOREM OneAnswer == Spec => []AnsweredOnce
<1>1. IInv => AnsweredOnce
  BY DEF IInv
<1> QED BY <1>1, AlwaysIInv, PTL

\* What check_firmware and OtaUpdate_CallBack answered OK for stays the complete,
\* registered default, for any number of power cuts and read errors.
THEOREM OkStaysDefault == Spec => []OkMeansDefault
<1>1. IInv => OkMeansDefault
  BY DEF IInv
<1> QED BY <1>1, AlwaysIInv, PTL

\* Sector 0 is without a bootloader only while OtaUpdateBoot_CallBack rewrites it
\* or after a disturbance, and has the board's map unless a rewriting of the
\* boot parameters was cut.
THEOREM SectorZero == Spec => []SectorZeroSafe
<1>1. IInv => SectorZeroSafe
  BY DEF IInv
<1> QED BY <1>1, AlwaysIInv, PTL

\* An undisturbed boot whose counter is below its maximum starts the partition an
\* upgrade was answered OK for, if AT+BOOT asked for no other registered one.
THEOREM UpdateBoots == Spec => UpdateTakesEffect
<1>1. ASSUME IInv, [Next]_vars, pc = "off", pc' = "shell", promised # None, request \notin Known,
             trouble' = trouble, counter' < CounterMax
      PROVE  current' = promised
  <2>1. PICK e \in Errors, pressed \in BOOLEAN : Boot(e, pressed)
    BY <1>1 DEF Next, Command, at_setupCmdFWupdate, at_setupCmdFWGetMD5, at_setupCmdBoot, Start,
                Download, DownloadEnds, DownloadFailed, OtaUpdate_CallBack,
                OtaVerCheck_MD5_CallBack, OtaUpdateBoot_CallBack, Flash, EraseParams, WriteParams,
                EraseLoader, WriteLoader, Wipe, Restart, PowerCut, Bootloader, BootUnread, exit_err,
                BootCut, Lost, vars
  <2>2. trouble \in Nat
    BY <1>1, BoundsAssumption DEF IInv, TypeOK
  <2>3. ~pressed /\ ~e.configured
    BY <1>1, <2>1, <2>2 DEF Boot, Disturbed, NoErrors
  <2>4. params.boot_part = promised /\ promised \in Known /\ promised \in Parts
    BY <1>1 DEF IInv, OkMeansDefault, TypeOK, Known, Found
  <2>5. params.boot_part # None /\ BootDefault(e, pressed)
    BY <1>1, <2>1, <2>4 DEF Boot
  <2>6. ~(NextCount >= CounterMax)
    <3>1. NextCount \in 0 .. CounterMax
      BY <1>1, CounterType DEF IInv
    <3>2. CASE NextCount >= CounterMax
      BY <1>1, <2>5, <3>1, <3>2, BoundsAssumption DEF BootDefault, OtherFirmware
    <3> QED BY <3>2
  <2> QED BY <2>3, <2>4, <2>5, <2>6 DEF BootDefault, exit_ok
<1>2. IInv /\ [Next]_vars
        => [pc = "off" /\ pc' = "shell" /\ promised # None /\ request \notin Known
            /\ trouble' = trouble /\ counter' < CounterMax => current' = promised]_vars
  BY <1>1
<1> QED BY <1>2, AlwaysIInv, PTL DEF Spec, UpdateTakesEffect

-----------------------------------------------------------------------------
(* The running firmware *)

\* update_setparams, with the board's map, chooses another partition.
LEMMA ElsewhereKept ==
    ASSUME OddMaps, IInv, ElsewhereInv, [Next]_vars
    PROVE  ElsewhereInv'
<1> USE DEF ElsewhereInv, goal, board, rtc, settings, history
<1>1. CASE \E t \in Types : Start(t)
  <2>1. PICK t \in Types : Start(t)
    BY <1>1
  <2>2. CASE pc' = "load"
    <3>1. /\ pc = "shell" /\ UNCHANGED board /\ tmap' = params.type[current]
          /\ target' = IF forced # None THEN IF tmap' < 5 THEN forced ELSE 2 * forced
                       ELSE IF current # 0 THEN 0 ELSE IF tmap' < 5 THEN 1 ELSE 2
      BY <2>1, <2>2 DEF Start, update_setparams
    <3>2. /\ forced # None => forced # current /\ (flashMap > 4 => flashMap % 2 = 0)
          /\ flashMap \in Nat /\ flashMap \in Maps
      BY BoundsAssumption DEF IInv, TypeOK, ForcedSelectable
    <3>3. forced # None => flashMap < 5
      BY <3>2 DEF OddMaps
    <3> QED BY <3>1, <3>2, <3>3
  <2> QED BY <2>1, <2>2 DEF Start
<1>2. CASE Bootloader
  BY <1>2 DEF Bootloader, Boot, boot_1st, BootDefault, OtherFirmware, exit_ok, exit_err, BootUnread, BootCut
<1>3. CASE \/ Download \/ DownloadEnds \/ Flash \/ Restart \/ PowerCut \/ UNCHANGED vars
           \/ Command /\ ~\E t \in Types : Start(t)
  <2>1. \/ pc' \notin {"load", "erase", "write"}
        \/ pc \in {"load", "erase", "write"} /\ UNCHANGED <<target, tmap, flashMap, current>>
    BY <1>3 DEF Command, at_setupCmdFWupdate, at_setupCmdFWGetMD5, at_setupCmdBoot, Download,
                DownloadEnds, DownloadFailed, OtaUpdate_CallBack, OtaVerCheck_MD5_CallBack,
                OtaUpdateBoot_CallBack, Flash, EraseParams, WriteParams, EraseLoader, WriteLoader,
                Wipe, Restart, PowerCut, Failed, Finished, Lost, vars
  <2> QED BY <2>1
<1> QED BY <1>1, <1>2, <1>3 DEF Next, Command

LEMMA AlwaysElsewhere ==
    ASSUME OddMaps
    PROVE  Spec => []ElsewhereInv
<1>1. Init => ElsewhereInv
  BY DEF Init, ElsewhereInv
<1>2. IInv /\ ElsewhereInv /\ [Next]_vars => ElsewhereInv'
  BY ElsewhereKept, OddMaps
<1> QED BY <1>1, <1>2, AlwaysIInv, PTL DEF Spec

\* An upgrade is answered OK only for a firmware with the downloaded sum, and
\* never for the running one (check_firmware, update_setparams).
THEOREM VerifiedUpgrades ==
    ASSUME OddMaps
    PROVE  Spec => UpgradeVerified
<1>1. ASSUME IInv, ElsewhereInv, [Next]_vars, promised' # promised, promised' # None
      PROVE  csum \in {None, part[promised']} /\ (tmap = flashMap => promised' # current)
  <2>1. WriteParams /\ promised' = target
    BY <1>1 DEF Next, Command, at_setupCmdFWupdate, at_setupCmdFWGetMD5, at_setupCmdBoot, Start,
                Download, DownloadEnds, DownloadFailed, OtaUpdate_CallBack,
                OtaVerCheck_MD5_CallBack, OtaUpdateBoot_CallBack, Flash, EraseParams, WriteParams,
                EraseLoader, WriteLoader, Wipe, Restart, PowerCut, Bootloader, Boot, boot_1st,
                BootDefault, OtherFirmware, BootUnread, BootCut, Failed, vars, history
  <2> QED BY <1>1, <2>1 DEF IInv, Checked, ElsewhereInv, WriteParams
<1>2. IInv /\ ElsewhereInv /\ [Next]_vars
        => [promised' # promised /\ promised' # None
            => /\ csum \in {None, part[promised']}
               /\ tmap = flashMap => promised' # current]_vars
  BY <1>1
<1> QED BY <1>2, AlwaysIInv, AlwaysElsewhere, OddMaps, PTL DEF Spec, UpgradeVerified

\* A download writes over the running firmware only with another map than the
\* board's, which takes a cut rewriting of the boot parameters (update_setparams).
THEOREM RunningKept ==
    ASSUME OddMaps
    PROVE  Spec => RunningUntouched
<1>1. ASSUME IInv, ElsewhereInv, [Next]_vars, part'[current] # part[current]
      PROVE  tmap # flashMap
  <2>1. pc = "load" /\ part' \in {part} \cup Put({Bad}) \cup Put(Contents)
    BY <1>1 DEF Next, Command, at_setupCmdFWupdate, at_setupCmdFWGetMD5, at_setupCmdBoot, Start,
                Download, DownloadEnds, DownloadFailed, OtaUpdate_CallBack,
                OtaVerCheck_MD5_CallBack, OtaUpdateBoot_CallBack, Flash, EraseParams, WriteParams,
                EraseLoader, WriteLoader, Wipe, Restart, PowerCut, Bootloader, Boot, boot_1st,
                BootDefault, OtherFirmware, BootUnread, BootCut, vars
  <2>2. target = current
    BY <1>1, <2>1 DEF Put, IInv, TypeOK
  <2> QED BY <1>1, <2>1, <2>2 DEF ElsewhereInv
<1>2. IInv /\ ElsewhereInv /\ [Next]_vars
        => [part'[current] # part[current] => tmap # flashMap]_vars
  BY <1>1
<1> QED BY <1>2, AlwaysIInv, AlwaysElsewhere, OddMaps, PTL DEF Spec, RunningUntouched
====
