---- MODULE BootloaderProofs ----
(***************************************************************************)
(* Proofs about Bootloader, for every set of firmwares, flash map, boot    *)
(* counter width and number of disturbances.                               *)
(***************************************************************************)
EXTENDS Bootloader, TLAPS

\* The boards the theorems are about: with maps 6 and 8 the partition to upgrade
\* can be the running one (update_setparams), with maps 3 and 4 too once a
\* rewriting of the boot parameters was cut short; and a firmware for another
\* flash map is taken for good by check_firmware and refused by the bootloader.
PlainBoard ==
    /\ Maps \subseteq {2, 5, 7} \/ (Maps \subseteq {2, 3, 4, 5, 7} /\ MaxTrouble = 0)
    /\ Foreign = {}

\* A firmware is running, or waits for the boot parameters to be rewritten.
FirmwareRuns == pc = "app" \/ saver = "app"

\* Only the partitions the flash map provides for hold anything.
OnlyUsableFilled == \A n \in Parts : part[n] # Blank => n \in Usable(flashMap)

\* What the bootloader knows of the firmware it is about to start.
Chosen ==
    /\ FirmwareRuns => /\ current \in Parts /\ part[current] \in Complete /\ found = NoPart
                       /\ how \notin {"first", "fallback"} => ram = part[current]
    /\ found # NoPart => part[found] \in Complete
    /\ saver = "scan" => scan \in Parts /\ part[scan] \in Complete
    /\ saver = "permanent" => /\ info.boot_part \in Parts
                              /\ part[info.boot_part] \in Complete
                              /\ ram = part[info.boot_part]

\* Which locals mean something where.
Control ==
    /\ pc \in {"erase", "write"} <=> saver # "none"
    /\ pc = "scan" \/ saver = "scan" => how \in {"first", "fallback"}
    /\ pc \in {"requested", "configured", "again", "other"} => info.boot_part \in Parts
    /\ pc = "requested" => request.part \in Parts
    /\ request # NoRequest => request.part \in Parts

\* The inductive invariant.
IInv ==
    /\ PlainBoard
    /\ TypeOK
    /\ OnlyUsableFilled
    /\ BootableRemains
    /\ Chosen
    /\ Control

-----------------------------------------------------------------------------
(* The pieces the actions are made of. *)

LEMMA ErasedType == Erased \in BootInfo /\ Erased.boot_part = NoPart
  BY DEF Erased, BootInfo

LEMMA RequestType == NoRequest \in Selection
  BY DEF NoRequest, Selection

LEMMA CountType ==
    ASSUME TypeOK
    PROVE  NextCount \in 0 .. CounterMax /\ 1 \in 0 .. CounterMax
  BY BoundsAssumption DEF TypeOK, NextCount

LEMMA TroubleType ==
    ASSUME TypeOK, Calm \/ Disturbed
    PROVE  trouble' \in 0 .. MaxTrouble
  BY BoundsAssumption DEF TypeOK, Calm, Disturbed

\* A firmware that is accepted is complete and lies in RAM.
LEMMA CheckFacts ==
    ASSUME TypeOK, NEW n \in Parts, NEW ok \in BOOLEAN, check_load_binary(n, ok)
    PROVE  /\ ram' \in Contents
           /\ trouble' \in 0 .. MaxTrouble
           /\ ok => part[n] \in Complete /\ ram' = part[n]
<1>1. part[n] \in Contents /\ ram \in Contents /\ Torn \in Contents
  BY DEF TypeOK, Contents
<1>2. Calm \/ Disturbed
  BY DEF check_load_binary
<1>3. trouble' \in 0 .. MaxTrouble
  BY <1>2, TroubleType
<1> QED BY <1>1, <1>3, ImagesAssumption DEF check_load_binary, Loaded, Acceptable

\* The partitions of the flash stay as they are, and the parameters, the request
\* and the counter keep their types: what all the bootloader's steps have in
\* common.
Kept ==
    /\ part' = part /\ flashMap' = flashMap
    /\ params' \in BootInfo
    /\ request' \in Selection /\ (request' # NoRequest => request'.part \in Parts)
    /\ counter' \in 0 .. CounterMax
    /\ ram' \in Contents
    /\ wish' \in Selection /\ trouble' \in 0 .. MaxTrouble

LEMMA KeptFacts ==
    ASSUME IInv, Kept
    PROVE  PlainBoard' /\ OnlyUsableFilled' /\ BootableRemains'
  BY DEF IInv, Kept, OnlyUsableFilled, BootableRemains, PlainBoard

\* Starting a complete firmware.
LEMMA ExitOkKeepsIInv ==
    ASSUME IInv, Kept, NEW n \in Parts, NEW way \in Ways,
           part[n] \in Complete, way \notin {"first", "fallback"} => ram' = part[n],
           exit_ok(n, way)
    PROVE  IInv'
<1>1. /\ pc' = "app" /\ how' = way /\ current' = n /\ wish' = NoRequest
      /\ info' = Erased /\ bmap' = NoMap /\ scan' = 0 /\ found' = NoPart /\ mapSet' = FALSE
      /\ saver' = "none"
  BY DEF exit_ok
<1>2. TypeOK'
  BY <1>1, ErasedType DEF Kept, IInv, TypeOK, Stages, Parts, NoPart, MaxParts
<1>3. Chosen'
  BY <1>1 DEF Kept, Chosen, FirmwareRuns
<1>4. Control'
  BY <1>1 DEF Kept, Control
<1> QED BY <1>2, <1>3, <1>4, KeptFacts DEF IInv

\* Giving the boot up.
LEMMA ExitErrKeepsIInv ==
    ASSUME IInv, Kept, current' = current, exit_err
    PROVE  IInv'
<1>1. /\ pc' = "blink" /\ how' = "none"
      /\ info' = Erased /\ bmap' = NoMap /\ scan' = 0 /\ found' = NoPart /\ mapSet' = FALSE
      /\ saver' = "none"
  BY DEF exit_err
<1>2. TypeOK'
  BY <1>1, ErasedType DEF Kept, IInv, TypeOK, Stages, Ways, Parts, NoPart, MaxParts
<1>3. Chosen' /\ Control'
  BY <1>1 DEF Kept, Chosen, FirmwareRuns, Control
<1> QED BY <1>2, <1>3, KeptFacts DEF IInv

\* Looking on: no firmware is chosen by the step.
LEMMA LookingKeepsIInv ==
    ASSUME IInv, Kept, pc' \in {"requested", "configured", "again", "other", "scan"},
           saver' = "none", current' = current, scan' \in Nat, mapSet' \in BOOLEAN,
           info' \in BootInfo, bmap' \in Maps \cup {NoMap}, how' \in Ways,
           found' \in Parts \cup {NoPart}, found' # NoPart => part[found'] \in Complete,
           IF pc' = "scan" THEN how' \in {"first", "fallback"} ELSE info'.boot_part \in Parts,
           pc' = "requested" => request'.part \in Parts
    PROVE  IInv'
<1>1. TypeOK'
  BY DEF Kept, IInv, TypeOK, Stages
<1>2. Chosen'
  BY DEF Kept, Chosen, FirmwareRuns
<1>3. Control'
  BY DEF Kept, Control
<1> QED BY <1>1, <1>2, <1>3, KeptFacts DEF IInv

-----------------------------------------------------------------------------
(* One lemma per action. *)

LEMMA InitIInv ==
    ASSUME PlainBoard, Init
    PROVE  IInv
<1>1. PICK p \in [Usable(flashMap) -> Contents] :
           part = [n \in Parts |-> IF n \in Usable(flashMap) THEN p[n] ELSE Blank]
  BY DEF Init
<1>2. part \in [Parts -> Contents] /\ OnlyUsableFilled
  BY <1>1 DEF Contents, OnlyUsableFilled
<1>3. PICK n \in Parts : part[n] \in Images /\ part[n] \in Complete
  BY DEF Init, Complete
<1>4. BootableRemains
  BY <1>2, <1>3, ImagesAssumption DEF OnlyUsableFilled, BootableRemains
<1>5. TypeOK
  <2>1. params \in BootInfo /\ info \in BootInfo
    BY ErasedType DEF Init
  <2>2. request \in Selection /\ wish \in Selection
    BY RequestType DEF Init
  <2>3. /\ flashMap \in Maps /\ current \in Parts \cup {NoPart} /\ ram \in Contents
        /\ bmap \in Maps \cup {NoMap} /\ scan \in Nat /\ found \in Parts \cup {NoPart}
        /\ mapSet \in BOOLEAN /\ saver \in {"none", "scan", "permanent", "app"}
        /\ pc \in Stages /\ how \in Ways
    BY DEF Init, Contents, Stages, Ways
  <2>4. counter \in 0 .. CounterMax /\ trouble \in 0 .. MaxTrouble
    BY BoundsAssumption DEF Init
  <2> QED BY <1>2, <2>1, <2>2, <2>3, <2>4 DEF TypeOK
<1>6. Chosen /\ Control
  BY DEF Init, Chosen, Control, FirmwareRuns
<1> QED BY <1>2, <1>4, <1>5, <1>6, PlainBoard DEF IInv

LEMMA StartKeepsIInv ==
    ASSUME IInv, Start \/ NoParameters
    PROVE  IInv'
<1>1. TypeOK /\ 1 \in 0 .. CounterMax /\ NextCount \in 0 .. CounterMax
  BY CountType DEF IInv
<1>2. pc = "reset" /\ saver = "none"
  BY DEF IInv, Control, TypeOK, Start, NoParameters
<1>3. Calm \/ Disturbed
  BY DEF Start, NoParameters
<1>4. Kept
  BY <1>1, <1>3, TroubleType DEF Start, NoParameters, Kept, IInv, TypeOK, Control, boot_1st, flashVars
<1>5. CASE NoParameters
  BY <1>4, <1>5, ExitErrKeepsIInv DEF NoParameters
<1>6. CASE Start
  <2>1. bmap' \in Maps \cup {NoMap} /\ info' = params /\ saver' = "none" /\ current' = current
    BY <1>1, <1>2, <1>6 DEF Start, TypeOK
  <2>2. CASE params.boot_part = NoPart
    <3>1. /\ pc' = "scan" /\ how' = "first" /\ scan' = 0 /\ found' = NoPart /\ mapSet' = FALSE
      BY <1>6, <2>2 DEF Start, boot_1st
    <3> QED
      BY <1>1, <1>4, <2>1, <3>1, LookingKeepsIInv DEF TypeOK, Ways
  <2>3. CASE params.boot_part # NoPart
    <3>1. /\ pc' = IF request # NoRequest THEN "requested" ELSE "configured"
          /\ how' = "none" /\ request' = request
          /\ UNCHANGED <<scan, found, mapSet>>
      BY <1>6, <2>3 DEF Start
    <3>2. info'.boot_part \in Parts
      BY <1>1, <2>1, <2>3 DEF TypeOK, BootInfo
    <3>3. /\ scan' \in Nat /\ mapSet' \in BOOLEAN /\ info' \in BootInfo
          /\ found' \in Parts \cup {NoPart} /\ (found' # NoPart => part[found'] \in Complete)
          /\ how' \in Ways
      BY <1>1, <2>1, <3>1 DEF TypeOK, IInv, Chosen, Ways
    <3>4. pc' = "requested" => request'.part \in Parts
      BY <3>1 DEF IInv, Control
    <3>5. pc' \in {"requested", "configured"}
      BY <3>1
    <3> QED BY <1>4, <2>1, <3>2, <3>3, <3>4, <3>5, LookingKeepsIInv
  <2> QED BY <2>2, <2>3
<1> QED BY <1>5, <1>6

\* What Kept and the locals owe to the steps that only look at a partition.
LEMMA UntouchedKept ==
    ASSUME IInv, UNCHANGED <<flashVars, request, counter, wish>>,
           ram' \in Contents, trouble' \in 0 .. MaxTrouble
    PROVE  Kept
  BY DEF IInv, TypeOK, Control, Kept, flashVars

LEMMA ExitOkKept ==
    ASSUME IInv, NEW n, NEW way, exit_ok(n, way), UNCHANGED <<flashVars, request, counter>>,
           ram' \in Contents, trouble' \in 0 .. MaxTrouble
    PROVE  Kept
<1>1. wish' \in Selection
  BY DEF exit_ok, NoRequest, Selection
<1> QED BY <1>1 DEF IInv, TypeOK, Control, Kept, flashVars

LEMMA RequestedKeepsIInv ==
    ASSUME IInv, Requested
    PROVE  IInv'
<1> DEFINE n == request.part
<1>1. /\ TypeOK /\ n \in Parts /\ info.boot_part \in Parts /\ pc = "requested" /\ saver = "none"
      /\ info \in BootInfo /\ bmap \in Maps \cup {NoMap} /\ scan \in Nat /\ mapSet \in BOOLEAN
      /\ found \in Parts \cup {NoPart} /\ (found # NoPart => part[found] \in Complete)
      /\ how \in Ways /\ ram \in Contents /\ trouble \in 0 .. MaxTrouble
      /\ UNCHANGED <<flashVars, counter>>
  BY DEF IInv, Control, Chosen, Requested, TypeOK
<1>2. CASE bmap > 4 /\ n % 2 = 1
  <2>1. /\ pc' = "configured"
        /\ UNCHANGED <<request, ram, trouble, info, saver, current, how, wish, bmap, scan, found, mapSet>>
    BY <1>2 DEF Requested
  <2>2. Kept
    BY <1>1, <2>1, UntouchedKept
  <2> QED BY <1>1, <2>1, <2>2, LookingKeepsIInv
<1>3. CASE ~(bmap > 4 /\ n % 2 = 1)
  <2>1. PICK ok \in BOOLEAN :
           /\ check_load_binary(n, ok)
           /\ IF ~ok
              THEN pc' = "configured" /\ UNCHANGED <<localVars, current, how, wish>>
              ELSE IF ~request.permanent THEN exit_ok(n, "requested")
              ELSE /\ info' = [info EXCEPT !.boot_part = n]
                   /\ pc' = "erase" /\ saver' = "permanent"
                   /\ UNCHANGED <<current, how, wish, bmap, scan, found, mapSet>>
    BY <1>3 DEF Requested
  <2>2. request' = NoRequest
    BY <1>3 DEF Requested
  <2>3. /\ ram' \in Contents /\ trouble' \in 0 .. MaxTrouble
        /\ ok => part[n] \in Complete /\ ram' = part[n]
    BY <1>1, <2>1, CheckFacts
  <2>4. wish' \in Selection
    <3>1. wish \in Selection /\ NoRequest \in Selection
      BY <1>1, RequestType DEF TypeOK
    <3>2. wish' = wish \/ wish' = NoRequest
      BY <2>1 DEF exit_ok
    <3> QED BY <3>1, <3>2
  <2>5. Kept
    BY <1>1, <2>2, <2>3, <2>4 DEF Kept, TypeOK, flashVars, Selection, NoRequest
  <2>6. CASE ~ok
    BY <1>1, <2>1, <2>5, <2>6, LookingKeepsIInv DEF localVars
  <2>7. CASE ok /\ ~request.permanent
    BY <1>1, <2>1, <2>3, <2>5, <2>7, ExitOkKeepsIInv DEF Ways
  <2>8. CASE ok /\ request.permanent
    <3>1. /\ info' = [info EXCEPT !.boot_part = n]
          /\ pc' = "erase" /\ saver' = "permanent"
          /\ UNCHANGED <<current, how, wish, bmap, scan, found, mapSet>>
      BY <2>1, <2>8
    <3>2. info' \in BootInfo /\ info'.boot_part = n
      BY <1>1, <3>1 DEF BootInfo
    <3>3. TypeOK'
      BY <1>1, <2>5, <3>1, <3>2 DEF TypeOK, Kept, Stages
    <3>4. Chosen'
      BY <1>1, <2>3, <2>5, <2>8, <3>1, <3>2 DEF Kept, IInv, Chosen, FirmwareRuns
    <3>5. Control'
      BY <2>5, <3>1 DEF Kept, Control
    <3> QED BY <2>5, <3>3, <3>4, <3>5, KeptFacts DEF IInv
  <2> QED BY <2>6, <2>7, <2>8
<1> QED BY <1>2, <1>3

\* The invariant taken apart, for the steps of the bootloader.
LEMMA Facts ==
    ASSUME IInv
    PROVE  /\ TypeOK
           /\ info \in BootInfo /\ bmap \in Maps \cup {NoMap} /\ scan \in Nat /\ mapSet \in BOOLEAN
           /\ found \in Parts \cup {NoPart} /\ (found # NoPart => part[found] \in Complete)
           /\ how \in Ways /\ ram \in Contents /\ trouble \in 0 .. MaxTrouble
           /\ params \in BootInfo /\ Step(bmap) \in Nat
           /\ pc \in {"erase", "write"} <=> saver # "none"
           /\ pc \in {"configured", "again", "other"} => info.boot_part \in Parts
           /\ pc = "scan" \/ saver = "scan" => how \in {"first", "fallback"}
  BY DEF IInv, TypeOK, Chosen, Control, Step

LEMMA RangeFacts ==
    ASSUME NEW n \in Nat, NEW m, InRange(n, m)
    PROVE  n \in Parts
  BY DEF InRange, Parts, MaxParts

LEMMA ConfiguredKeepsIInv ==
    ASSUME IInv, Configured
    PROVE  IInv'
<1>1. pc = "configured" /\ info.boot_part \in Parts /\ UNCHANGED <<flashVars, request, counter>>
  BY Facts DEF Configured
<1>2. CASE /\ (counter >= CounterMax /\ Calm) \/ Disturbed
           /\ pc' = "other" /\ scan' = 0
           /\ UNCHANGED <<ram, info, bmap, found, mapSet, saver, current, how, wish>>
  <2>1. ram' \in Contents /\ trouble' \in 0 .. MaxTrouble
    BY <1>2, Facts, TroubleType
  <2>2. Kept
    BY <1>1, <1>2, <2>1, UntouchedKept
  <2>3. pc' = "other" /\ saver' = "none" /\ current' = current /\ scan' \in Nat
        /\ mapSet' \in BOOLEAN /\ info' \in BootInfo /\ bmap' \in Maps \cup {NoMap} /\ how' \in Ways
        /\ found' \in Parts \cup {NoPart} /\ (found' # NoPart => part[found'] \in Complete)
        /\ info'.boot_part \in Parts
    BY <1>1, <1>2, Facts
  <2> QED BY <2>2, <2>3, LookingKeepsIInv
<1>3. CASE \E ok \in BOOLEAN :
              /\ check_load_binary(info.boot_part, ok)
              /\ IF ok THEN exit_ok(info.boot_part, "configured")
                 ELSE pc' = "again" /\ UNCHANGED <<localVars, current, how, wish>>
  <2>1. PICK ok \in BOOLEAN :
              /\ check_load_binary(info.boot_part, ok)
              /\ IF ok THEN exit_ok(info.boot_part, "configured")
                 ELSE pc' = "again" /\ UNCHANGED <<localVars, current, how, wish>>
    BY <1>3
  <2>2. /\ ram' \in Contents /\ trouble' \in 0 .. MaxTrouble
        /\ ok => part[info.boot_part] \in Complete /\ ram' = part[info.boot_part]
    BY <1>1, <2>1, CheckFacts, Facts
  <2>3. CASE ok
    <3>1. Kept
      BY <1>1, <2>1, <2>2, <2>3, ExitOkKept
    <3> QED BY <1>1, <2>1, <2>2, <2>3, <3>1, ExitOkKeepsIInv DEF Ways
  <2>4. CASE ~ok
    <3>1. Kept
      BY <1>1, <2>1, <2>2, <2>4, UntouchedKept
    <3>2. pc' = "again" /\ UNCHANGED <<localVars, current, how, wish>>
      BY <2>1, <2>4
    <3> QED BY <1>1, <3>1, <3>2, Facts, LookingKeepsIInv DEF localVars
  <2> QED BY <2>3, <2>4
<1> QED BY <1>2, <1>3 DEF Configured

LEMMA ConfiguredAgainKeepsIInv ==
    ASSUME IInv, ConfiguredAgain
    PROVE  IInv'
<1>1. pc = "again" /\ info.boot_part \in Parts /\ UNCHANGED <<flashVars, request>>
  BY Facts DEF ConfiguredAgain
<1>2. PICK ok \in BOOLEAN :
          /\ check_load_binary(info.boot_part, ok)
          /\ IF ok THEN exit_ok(info.boot_part, "configured") /\ UNCHANGED counter
             ELSE boot_1st("fallback") /\ UNCHANGED <<info, bmap, saver, current, wish>>
  BY DEF ConfiguredAgain
<1>3. /\ ram' \in Contents /\ trouble' \in 0 .. MaxTrouble
      /\ ok => part[info.boot_part] \in Complete /\ ram' = part[info.boot_part]
  BY <1>1, <1>2, CheckFacts, Facts
<1>4. CASE ok
  <2>1. Kept
    BY <1>1, <1>2, <1>3, <1>4, ExitOkKept
  <2> QED BY <1>1, <1>2, <1>3, <1>4, <2>1, ExitOkKeepsIInv DEF Ways
<1>5. CASE ~ok
  <2>1. /\ pc' = "scan" /\ how' = "fallback" /\ scan' = 0 /\ found' = NoPart /\ mapSet' = FALSE
        /\ counter' = 1 /\ UNCHANGED <<info, bmap, saver, current, wish>>
    BY <1>2, <1>5 DEF boot_1st
  <2>2. Kept
    BY <1>1, <1>3, <2>1, CountType DEF IInv, TypeOK, Control, Kept, flashVars
  <2>3. saver' = "none" /\ info' \in BootInfo /\ bmap' \in Maps \cup {NoMap}
    BY <1>1, <2>1, Facts
  <2> QED BY <2>1, <2>2, <2>3, LookingKeepsIInv DEF Ways
<1> QED BY <1>4, <1>5

LEMMA OtherKeepsIInv ==
    ASSUME IInv, OtherFirmware
    PROVE  IInv'
<1>1. pc = "other" /\ saver = "none" /\ info.boot_part \in Parts
      /\ UNCHANGED <<flashVars, request, counter>>
  BY Facts DEF OtherFirmware
<1>2. CASE ~InRange(scan, bmap)
  <2>1. exit_err /\ UNCHANGED <<ram, trouble, current, wish>>
    BY <1>2 DEF OtherFirmware
  <2>2. Kept
    BY <1>1, <2>1, UntouchedKept, Facts
  <2> QED BY <2>1, <2>2, ExitErrKeepsIInv
<1>3. CASE InRange(scan, bmap) /\ scan = info.boot_part
  <2>1. /\ scan' = scan + Step(bmap)
        /\ UNCHANGED <<pc, how, ram, trouble, current, wish, info, bmap, found, mapSet, saver>>
    BY <1>3 DEF OtherFirmware
  <2>2. Kept
    BY <1>1, <2>1, UntouchedKept, Facts
  <2>3. scan' \in Nat
    BY <2>1, Facts
  <2> QED BY <1>1, <2>1, <2>2, <2>3, Facts, LookingKeepsIInv
<1>4. CASE InRange(scan, bmap) /\ scan # info.boot_part
  <2>1. PICK ok \in BOOLEAN :
               /\ check_load_binary(scan, ok)
               /\ IF ok THEN exit_ok(scan, "other")
                  ELSE /\ scan' = scan + Step(bmap)
                       /\ UNCHANGED <<pc, how, current, wish, info, bmap, found, mapSet, saver>>
    BY <1>4 DEF OtherFirmware
  <2>2. scan \in Parts
    BY <1>4, Facts, RangeFacts
  <2>3. /\ ram' \in Contents /\ trouble' \in 0 .. MaxTrouble
        /\ ok => part[scan] \in Complete /\ ram' = part[scan]
    BY <2>1, <2>2, CheckFacts, Facts
  <2>4. CASE ok
    <3>1. Kept
      BY <1>1, <2>1, <2>3, <2>4, ExitOkKept
    <3> QED BY <2>1, <2>2, <2>3, <2>4, <3>1, ExitOkKeepsIInv DEF Ways
  <2>5. CASE ~ok
    <3>1. Kept
      BY <1>1, <2>1, <2>3, <2>5, UntouchedKept
    <3>2. scan' \in Nat
      BY <2>1, <2>5, Facts
    <3>3. UNCHANGED <<pc, how, current, wish, info, bmap, found, mapSet, saver>>
      BY <2>1, <2>5
    <3> QED BY <1>1, <3>1, <3>2, <3>3, Facts, LookingKeepsIInv
  <2> QED BY <2>4, <2>5
<1> QED BY <1>2, <1>3, <1>4

\* boot_info with an entry changed is still one.
LEMMA RegisteredType ==
    ASSUME NEW b \in BootInfo, NEW n \in Parts, part[n] \in Complete
    PROVE  Registered(b, n) \in BootInfo
<1>1. [b.md5 EXCEPT ![n] = part[n]] \in [Parts -> Complete \cup {Blank}]
  BY DEF BootInfo
<1> QED BY <1>1 DEF BootInfo, Registered

\* The firmware a round of the loop finds becomes the one to start if it is the
\* first.
LEMMA TookFacts ==
    ASSUME IInv, scan \in Parts, part[scan] \in Complete, NEW types \in SUBSET BOOLEAN, Took(types)
    PROVE  mapSet' \in BOOLEAN /\ found' \in Parts /\ part[found'] \in Complete
  BY Facts DEF Took

LEMMA FirstFirmwareKeepsIInv ==
    ASSUME IInv, FirstFirmware
    PROVE  IInv'
<1>1. /\ pc = "scan" /\ saver = "none" /\ how \in {"first", "fallback"}
      /\ UNCHANGED <<flashVars, request, counter>>
  BY Facts DEF FirstFirmware
<1>2. CASE ~InRange(scan, bmap)
  <2>1. /\ IF found = NoPart THEN exit_err /\ UNCHANGED <<current, wish>>
           ELSE exit_ok(found, how)
        /\ UNCHANGED <<ram, trouble>>
    BY <1>2 DEF FirstFirmware
  <2>2. CASE found = NoPart
    <3>1. Kept
      BY <1>1, <2>1, <2>2, UntouchedKept, Facts
    <3> QED BY <2>1, <2>2, <3>1, ExitErrKeepsIInv
  <2>3. CASE found # NoPart
    <3>1. Kept
      BY <1>1, <2>1, <2>3, ExitOkKept, Facts
    <3>2. found \in Parts /\ part[found] \in Complete
      BY <2>3, Facts
    <3> QED BY <1>1, <2>1, <2>3, <3>1, <3>2, Facts, ExitOkKeepsIInv
  <2> QED BY <2>2, <2>3
<1>3. CASE /\ InRange(scan, bmap) /\ Disturbed
           /\ ram' \in IF Refused(scan) THEN {ram} ELSE {ram, Torn, part[scan]}
           /\ Passed
           /\ UNCHANGED <<how, info, bmap, found, mapSet, saver, current, wish>>
  <2>1. scan \in Parts
    BY <1>3, Facts, RangeFacts
  <2>2. ram' \in Contents /\ trouble' \in 0 .. MaxTrouble
    BY <1>3, <2>1, Facts, TroubleType DEF TypeOK, Contents
  <2>3. Kept
    BY <1>1, <1>3, <2>2, UntouchedKept
  <2>4. pc' = "scan" /\ scan' \in Nat
    BY <1>3, Facts DEF Passed
  <2> QED BY <1>1, <1>3, <2>3, <2>4, Facts, LookingKeepsIInv
<1>4. CASE /\ InRange(scan, bmap) /\ Calm
           /\ ram' = Loaded(scan)
           /\ IF ~Acceptable(scan)
              THEN Passed /\ UNCHANGED <<info, found, mapSet, saver>>
              ELSE IF part[scan] = info.md5[scan]
              THEN /\ Passed
                   /\ Took(IF trouble = 0 THEN {TRUE} ELSE BOOLEAN)
                   /\ UNCHANGED <<info, saver>>
              ELSE /\ info' = Registered(params, scan)
                   /\ mapSet' = TRUE
                   /\ pc' = "erase" /\ saver' = "scan"
                   /\ UNCHANGED <<scan, found>>
           /\ UNCHANGED <<how, bmap, current, wish>>
  <2>1. scan \in Parts
    BY <1>4, Facts, RangeFacts
  <2>2. ram' \in Contents /\ trouble' \in 0 .. MaxTrouble
    BY <1>4, <2>1, Facts, TroubleType DEF TypeOK, Contents, Loaded
  <2>3. Kept
    BY <1>1, <1>4, <2>2, UntouchedKept
  <2>4. CASE ~Acceptable(scan)
    <3>1. Passed /\ UNCHANGED <<info, found, mapSet, saver>>
      BY <1>4, <2>4
    <3>2. pc' = "scan" /\ scan' \in Nat
      BY <3>1, Facts DEF Passed
    <3> QED BY <1>1, <1>4, <2>3, <3>1, <3>2, Facts, LookingKeepsIInv
  <2>5. CASE Acceptable(scan) /\ part[scan] = info.md5[scan]
    <3>1. /\ Passed
          /\ Took(IF trouble = 0 THEN {TRUE} ELSE BOOLEAN)
          /\ UNCHANGED <<info, saver>>
      BY <1>4, <2>5
    <3>2. pc' = "scan" /\ scan' \in Nat
      BY <3>1, Facts DEF Passed
    <3>3. mapSet' \in BOOLEAN /\ found' \in Parts /\ part[found'] \in Complete
      BY <2>1, <2>5, <3>1, TookFacts DEF Acceptable
    <3> QED BY <1>1, <1>4, <2>3, <3>1, <3>2, <3>3, Facts, LookingKeepsIInv
  <2>6. CASE Acceptable(scan) /\ part[scan] # info.md5[scan]
    <3>1. /\ info' = Registered(params, scan) /\ mapSet' = TRUE
          /\ pc' = "erase" /\ saver' = "scan"
          /\ UNCHANGED <<scan, found, how, bmap, current, wish>>
      BY <1>4, <2>6
    <3>2. info' \in BootInfo
      BY <2>1, <2>6, <3>1, Facts, RegisteredType DEF Acceptable
    <3>3. TypeOK'
      BY <2>3, <3>1, <3>2, Facts DEF TypeOK, Kept, Stages
    <3>4. Chosen'
      BY <2>1, <2>3, <2>6, <3>1, Facts DEF Kept, Chosen, FirmwareRuns, Acceptable
    <3>5. Control'
      BY <1>1, <2>3, <3>1 DEF Kept, Control
    <3> QED BY <2>3, <3>3, <3>4, <3>5, KeptFacts DEF IInv
  <2> QED BY <2>4, <2>5, <2>6
<1> QED BY <1>2, <1>3, <1>4 DEF FirstFirmware

-----------------------------------------------------------------------------

\* What can become of the sector is a boot_info.
LEMMA WrittenType ==
    ASSUME TypeOK, NEW b \in BootInfo
    PROVE  Written(b) \subseteq BootInfo /\ Partly(b) \subseteq BootInfo
<1>1. params \in BootInfo
  BY DEF TypeOK
<1>2. \A n \in Parts : [b EXCEPT !.boot_part = n] \in BootInfo
  BY DEF BootInfo
<1>3. Written(b) \subseteq BootInfo
  BY <1>2 DEF Written
<1>4. \A w \in BootInfo, k \in Nat :
        [boot_part |-> w.boot_part,
         md5 |-> [n \in Parts |-> IF n < k THEN w.md5[n] ELSE params.md5[n]]] \in BootInfo
  BY <1>1 DEF BootInfo
<1>5. Partly(b) \subseteq BootInfo
  <2>1. 0 .. MaxParts \subseteq Nat
    BY DEF MaxParts
  <2> QED BY <1>1, <1>3, <1>4, <2>1 DEF Partly
<1> QED BY <1>3, <1>5

\* The firmware goes on once its boot parameters are written, or are not.
LEMMA BackInFirmware ==
    ASSUME IInv, Kept, saver = "app", saver' = "none", pc' = "app", info' = Erased,
           UNCHANGED <<scan, found, mapSet, bmap, current, how, wish, ram>>
    PROVE  IInv'
<1>1. TypeOK'
  BY ErasedType DEF Kept, IInv, TypeOK, Stages
<1>2. Chosen'
  BY DEF Kept, IInv, Chosen, FirmwareRuns
<1>3. Control'
  BY DEF Kept, Control
<1> QED BY <1>1, <1>2, <1>3, KeptFacts DEF IInv

\* The loop over all partitions goes on.
LEMMA BackInLoop ==
    ASSUME IInv, Kept, saver = "scan", saver' = "none", Passed,
           mapSet' \in BOOLEAN, found' \in Parts \cup {NoPart},
           found' # NoPart => part[found'] \in Complete,
           UNCHANGED <<info, bmap, current, how, wish>>
    PROVE  IInv'
<1>1. pc' = "scan" /\ scan' \in Nat /\ how' \in {"first", "fallback"} /\ how' \in Ways
  BY Facts DEF Passed
<1> QED BY <1>1, Facts, LookingKeepsIInv

\* The rewrite goes from the erase to the write.
LEMMA OnToWrite ==
    ASSUME IInv, Kept, pc = "erase", pc' = "write", ram' = ram, UNCHANGED <<localVars, current, how, wish>>
    PROVE  IInv'
<1> USE DEF localVars
<1>1. TypeOK'
  BY DEF Kept, IInv, TypeOK, Stages
<1>2. Chosen'
  BY DEF Kept, IInv, Chosen, FirmwareRuns
<1>3. Control'
  BY DEF Kept, IInv, Control
<1> QED BY <1>1, <1>2, <1>3, KeptFacts DEF IInv

LEMMA NotSavedKeepsIInv ==
    ASSUME IInv, Kept, NotSaved, ram' = ram
    PROVE  IInv'
<1>1. CASE saver = "scan"
  <2>1. Passed /\ saver' = "none" /\ UNCHANGED <<info, found, mapSet, bmap, current, how, wish>>
    BY <1>1 DEF NotSaved
  <2> QED BY <1>1, <2>1, Facts, BackInLoop
<1>2. CASE saver = "app"
  <2>1. /\ pc' = "app" /\ info' = Erased /\ saver' = "none"
        /\ UNCHANGED <<scan, found, mapSet, bmap, current, how, wish>>
    BY <1>2 DEF NotSaved
  <2> QED BY <1>2, <2>1, BackInFirmware
<1> QED BY <1>1, <1>2 DEF NotSaved

LEMMA EraseKeepsIInv ==
    ASSUME IInv, Erase
    PROVE  IInv'
<1>1. pc = "erase" /\ UNCHANGED <<part, flashMap, request, counter, ram>>
      /\ params' \in {params, Erased} /\ (Calm \/ Disturbed)
  BY DEF Erase
<1>2. wish' = wish
  BY DEF Erase, NotSaved
<1>3. Kept
  BY <1>1, <1>2, ErasedType, TroubleType DEF Kept, IInv, TypeOK, Control
<1>4. CASE pc' = "write" /\ UNCHANGED <<localVars, current, how, wish>>
  BY <1>1, <1>3, <1>4, OnToWrite
<1>5. CASE NotSaved
  BY <1>1, <1>3, <1>5, NotSavedKeepsIInv
<1> QED BY <1>4, <1>5 DEF Erase

LEMMA WriteKeepsIInv ==
    ASSUME IInv, Write
    PROVE  IInv'
<1>1. /\ pc = "write" /\ UNCHANGED <<part, flashMap, request, counter, ram>>
      /\ Calm \/ Disturbed
      /\ params' \in Written(info) \cup Partly(info)
  BY DEF Write
<1>2. params' \in BootInfo
  BY <1>1, Facts, WrittenType
<1>3. wish' = wish \/ wish' = NoRequest
  BY DEF Write, NotSaved, exit_ok
<1>4. Kept
  BY <1>1, <1>2, <1>3, TroubleType, RequestType DEF Kept, IInv, TypeOK, Control
<1>5. \/ /\ saver = "scan" /\ saver' = "none" /\ Passed /\ Took({TRUE})
         /\ UNCHANGED <<info, bmap, current, how, wish>>
      \/ /\ saver = "app" /\ saver' = "none" /\ pc' = "app" /\ info' = Erased
         /\ UNCHANGED <<scan, found, mapSet, bmap, current, how, wish>>
      \/ saver = "permanent" /\ exit_ok(info.boot_part, "requested")
      \/ NotSaved
  BY DEF Write
<1>6. CASE /\ saver = "scan" /\ saver' = "none" /\ Passed /\ Took({TRUE})
           /\ UNCHANGED <<info, bmap, current, how, wish>>
  <2>1. mapSet' \in BOOLEAN /\ found' \in Parts /\ part[found'] \in Complete
    BY <1>6, TookFacts DEF IInv, Chosen
  <2> QED BY <1>4, <1>6, <2>1, BackInLoop
<1>7. CASE /\ saver = "app" /\ saver' = "none" /\ pc' = "app" /\ info' = Erased
           /\ UNCHANGED <<scan, found, mapSet, bmap, current, how, wish>>
  BY <1>1, <1>4, <1>7, BackInFirmware
<1>8. CASE saver = "permanent" /\ exit_ok(info.boot_part, "requested")
  <2>1. info.boot_part \in Parts /\ part[info.boot_part] \in Complete /\ ram' = part[info.boot_part]
    BY <1>1, <1>8 DEF IInv, Chosen
  <2> QED BY <1>4, <1>8, <2>1, ExitOkKeepsIInv DEF Ways
<1>9. CASE NotSaved
  BY <1>1, <1>4, <1>9, NotSavedKeepsIInv
<1> QED BY <1>5, <1>6, <1>7, <1>8, <1>9

-----------------------------------------------------------------------------

\* The partition that is upgraded is never the running one.
LEMMA TargetIsOther ==
    ASSUME IInv, pc = "app", NEW n \in Parts, n \in Usable(flashMap), Target(n)
    PROVE  n # current
<1>1. current \in 0 .. 7 /\ flashMap \in {2, 3, 4, 5, 7}
  BY DEF IInv, Chosen, FirmwareRuns, TypeOK, PlainBoard, Parts, MaxParts
<1>2. flashMap \in {3, 4} => trouble = 0
  <2>1. trouble \in 0 .. MaxTrouble /\ (flashMap \in {3, 4} => MaxTrouble = 0)
    BY DEF IInv, TypeOK, PlainBoard
  <2> QED BY <2>1
<1>3. PICK wide \in BOOLEAN :
          /\ flashMap > 4 => wide
          /\ wide => flashMap > 4 \/ trouble # 0
          /\ \/ n = IF current # 0 THEN 0 ELSE IF wide THEN 2 ELSE 1
             \/ \E k \in Selectable : n = IF wide THEN 2 * k ELSE k
  BY DEF Target
<1>4. flashMap = 2 => n \in {0, 1}
  BY DEF Usable, InRange, Parts, MaxParts
<1>5. CASE n = IF current # 0 THEN 0 ELSE IF wide THEN 2 ELSE 1
  BY <1>1, <1>5
<1>6. CASE \E k \in Selectable : n = IF wide THEN 2 * k ELSE k
  <2>1. PICK k \in Selectable : n = IF wide THEN 2 * k ELSE k
    BY <1>6
  <2>2. k \in 0 .. 7 /\ k # current /\ (flashMap = 2 => k <= 1) /\ flashMap \notin {5, 7}
    BY <1>1 DEF Selectable, Parts, MaxParts
  <2> QED BY <1>1, <1>2, <1>3, <1>4, <2>1, <2>2
<1> QED BY <1>3, <1>5, <1>6

\* An upgrade leaves the running partition alone, so one to start from remains.
LEMMA UpgradeKeepsIInv ==
    ASSUME IInv, NEW n \in Parts, Upgrade(n)
    PROVE  IInv'
<1>1. /\ pc = "app" /\ n \in Usable(flashMap) /\ saver = "none" /\ found = NoPart
      /\ current \in Parts /\ part[current] \in Images
      /\ how \notin {"first", "fallback"} => ram = part[current]
      /\ UNCHANGED <<params, flashMap, rtcVars, ram, bmap, scan, found, mapSet, how, wish, trouble>>
  BY DEF Upgrade, IInv, Chosen, Control, FirmwareRuns
<1>2. n # current
  BY <1>1, TargetIsOther DEF Upgrade
<1>3. PICK c \in Contents :
          /\ part' = [part EXCEPT ![n] = c]
          /\ check_firmware(n, c) \/ UNCHANGED <<info, pc, saver>>
  BY DEF Upgrade
<1>4. part' \in [Parts -> Contents] /\ part'[current] = part[current]
      /\ \A k \in Parts : k # n => part'[k] = part[k]
  BY <1>1, <1>2, <1>3 DEF IInv, TypeOK
<1>5. /\ info' \in BootInfo
      /\ \/ pc' = "app" /\ saver' = "none"
         \/ pc' = "erase" /\ saver' = "app"
  <2>1. CASE check_firmware(n, c)
    BY <2>1, Facts DEF check_firmware, BootInfo
  <2>2. CASE UNCHANGED <<info, pc, saver>>
    BY <1>1, <2>2, Facts
  <2> QED BY <1>3, <2>1, <2>2
<1>6. TypeOK'
  BY <1>1, <1>4, <1>5 DEF IInv, TypeOK, rtcVars, Stages
<1>7. OnlyUsableFilled' /\ PlainBoard'
  BY <1>1, <1>4 DEF IInv, OnlyUsableFilled, PlainBoard
<1>8. BootableRemains'
  BY <1>1, <1>4, ImagesAssumption DEF IInv, OnlyUsableFilled, BootableRemains, Complete
<1>9. Control'
  BY <1>1, <1>5 DEF IInv, Control, rtcVars
<1>10. Chosen'
  BY <1>1, <1>4, <1>5 DEF Chosen, FirmwareRuns, rtcVars, Complete
<1> QED BY <1>6, <1>7, <1>8, <1>9, <1>10 DEF IInv

\* A request is a partition number, whatever the application asks for.
LEMMA RequestKeepsIInv ==
    ASSUME IInv, NEW n \in Requestable,
           UserApplication(n) \/ \E permanent \in BOOLEAN : at_setupCmdBoot(n, permanent)
    PROVE  IInv'
<1>1. n \in Parts
  BY BoundsAssumption
<1>2. /\ pc = "app" /\ UNCHANGED <<flashVars, current, counter, ram, localVars, pc, how, trouble>>
  BY DEF UserApplication, at_setupCmdBoot
<1>3. /\ request' \in Selection /\ (request' # NoRequest => request'.part \in Parts)
      /\ wish' \in Selection
  <2>1. CASE UserApplication(n)
    BY <1>1, <2>1, RequestType DEF UserApplication, Selection
  <2>2. ASSUME NEW permanent \in BOOLEAN, at_setupCmdBoot(n, permanent)
        PROVE  /\ request' \in Selection /\ (request' # NoRequest => request'.part \in Parts)
               /\ wish' \in Selection
    <3>1. wish' \in Selection
      BY <1>1, <2>2 DEF at_setupCmdBoot, Selection
    <3>2. CASE permanent
      <4>1. n + 8 >= MaxParts
        BY <1>1 DEF Parts, MaxParts
      <4>2. request' = NoRequest
        BY <2>2, <3>2, <4>1 DEF at_setupCmdBoot, set_rtc_nextboot
      <4> QED BY <3>1, <4>2, RequestType
    <3>3. CASE ~permanent
      <4>1. request' = NoRequest \/ request' = [part |-> n, permanent |-> FALSE]
        BY <2>2, <3>3 DEF at_setupCmdBoot, set_rtc_nextboot
      <4>2. [part |-> n, permanent |-> FALSE] \in Selection
        BY <1>1 DEF Selection
      <4>3. CASE request' = NoRequest
        BY <3>1, <4>3, RequestType
      <4>4. CASE request' = [part |-> n, permanent |-> FALSE]
        BY <1>1, <3>1, <4>2, <4>4
      <4> QED BY <4>1, <4>3, <4>4
    <3> QED BY <3>2, <3>3
  <2> QED BY <2>1, <2>2
<1>4. Kept
  BY <1>2, <1>3 DEF IInv, TypeOK, Kept, flashVars
<1>5. TypeOK'
  BY <1>2, <1>3 DEF IInv, TypeOK, flashVars, localVars
<1>6. Chosen'
  BY <1>2, <1>4 DEF IInv, Chosen, FirmwareRuns, Kept, localVars
<1>7. Control'
  BY <1>2, <1>3 DEF IInv, Control, localVars
<1> QED BY <1>4, <1>5, <1>6, <1>7, KeptFacts DEF IInv

\* A reset, even in the middle of rewriting the boot parameters.
LEMMA ResetKeepsIInv ==
    ASSUME IInv, Restart \/ Watchdog \/ ExternalReset \/ PowerCut
    PROVE  IInv'
<1>1. ResetState
  BY DEF Restart, Watchdog, ExternalReset, PowerCut
<1>2. /\ pc' = "reset" /\ how' = "none"
      /\ info' = Erased /\ bmap' = NoMap /\ scan' = 0 /\ found' = NoPart /\ mapSet' = FALSE
      /\ saver' = "none"
      /\ params' \in IF pc = "write" THEN Partly(info) ELSE {params}
      /\ UNCHANGED <<part, flashMap>>
  BY <1>1 DEF ResetState
<1>3. params' \in BootInfo
  BY <1>2, Facts, WrittenType
<1>4. \/ UNCHANGED <<rtcVars, ram, wish>>
      \/ /\ request' = NoRequest /\ current' = NoPart /\ counter' = 0
         /\ ram' = Blank /\ wish' = NoRequest
  BY DEF Restart, Watchdog, ExternalReset, PowerCut
<1>5. trouble' \in 0 .. MaxTrouble
  BY Facts, TroubleType DEF Restart, Watchdog, ExternalReset, PowerCut
<1>6. Kept /\ current' \in Parts \cup {NoPart}
  BY <1>2, <1>3, <1>4, <1>5, RequestType, BoundsAssumption
     DEF Kept, IInv, TypeOK, Control, rtcVars, Contents
<1>7. TypeOK'
  BY <1>2, <1>6, ErasedType DEF Kept, IInv, TypeOK, Stages, Ways
<1>8. Chosen' /\ Control'
  BY <1>2, <1>6 DEF Kept, Chosen, FirmwareRuns, Control
<1> QED BY <1>6, <1>7, <1>8, KeptFacts DEF IInv

LEMMA StutterKeepsIInv ==
    ASSUME IInv, UNCHANGED vars
    PROVE  IInv'
<1>1. TypeOK' /\ Control'
  BY DEF vars, IInv, TypeOK, Control
<1>2. PlainBoard' /\ OnlyUsableFilled' /\ BootableRemains' /\ Chosen'
  BY DEF vars, IInv, PlainBoard, OnlyUsableFilled, BootableRemains, Chosen, FirmwareRuns
<1> QED BY <1>1, <1>2 DEF IInv

LEMMA NextKeepsIInv ==
    ASSUME IInv, [Next]_vars
    PROVE  IInv'
<1>1. CASE bootloader_task
  BY <1>1, StartKeepsIInv, RequestedKeepsIInv, ConfiguredKeepsIInv, ConfiguredAgainKeepsIInv,
     OtherKeepsIInv, FirstFirmwareKeepsIInv DEF bootloader_task
<1>2. CASE Erase \/ Write
  BY <1>2, EraseKeepsIInv, WriteKeepsIInv
<1>3. ASSUME NEW n \in Parts, Upgrade(n) PROVE IInv'
  BY <1>3, UpgradeKeepsIInv
<1>4. ASSUME NEW n \in Requestable,
             UserApplication(n) \/ \E permanent \in BOOLEAN : at_setupCmdBoot(n, permanent)
      PROVE  IInv'
  BY <1>4, RequestKeepsIInv
<1>5. CASE Restart \/ Watchdog \/ ExternalReset \/ PowerCut
  BY <1>5, ResetKeepsIInv
<1>6. CASE UNCHANGED vars
  BY <1>6, StutterKeepsIInv
<1> QED BY <1>1, <1>2, <1>3, <1>4, <1>5, <1>6 DEF Next, Firmware

-----------------------------------------------------------------------------
(* The theorems. *)

\* The inductive invariant holds of every behaviour of the bootloader and the
\* firmware, with resets and power cuts at any step of bootloader_task.
THEOREM Inductive ==
    ASSUME PlainBoard
    PROVE  Spec => []IInv
<1>1. Init => IInv
  BY PlainBoard, InitIInv
<1>2. IInv /\ [Next]_vars => IInv'
  BY NextKeepsIInv
<1> QED BY <1>1, <1>2, PTL DEF Spec

\* Every variable keeps its type: the counter its four bits, the default and the
\* request their range.
THEOREM TypesPreserved ==
    ASSUME PlainBoard
    PROVE  Spec => []TypeOK
<1>1. IInv => TypeOK
  BY DEF IInv
<1>2. Spec => []IInv
  BY PlainBoard, Inductive
<1> QED BY <1>1, <1>2, PTL

\* A partition to start from remains whatever is interrupted: an upgrade never
\* goes to the running partition (update_setparams).
THEOREM AlwaysBootable ==
    ASSUME PlainBoard
    PROVE  Spec => []BootableRemains
<1>1. IInv => BootableRemains
  BY DEF IInv
<1>2. Spec => []IInv
  BY PlainBoard, Inductive
<1> QED BY <1>1, <1>2, PTL

\* bootloader_task returns the entry point of a complete firmware only, which is
\* in RAM unless the loop over all partitions selected it.
THEOREM OnlyCompleteStarted ==
    ASSUME PlainBoard
    PROVE  Spec => []StartedIsComplete
<1>1. IInv => StartedIsComplete
  BY DEF IInv, Chosen, FirmwareRuns, StartedIsComplete
<1>2. Spec => []IInv
  BY PlainBoard, Inductive
<1> QED BY <1>1, <1>2, PTL
====
