---- MODULE BootChoiceProofs ----
(***************************************************************************)
(* Proofs about Bootloader: which partition is chosen, and what is saved   *)
(* about it, in a history without a disturbance (trouble = 0), on boards   *)
(* with any flash map.                                                     *)
(***************************************************************************)
EXTENDS BootloaderProofs

\* A partition whose firmware is the one registered for it.
Startable(n) == n \in Usable(flashMap) /\ part[n] \in Images /\ params.md5[n] = part[n]

\* The user asked for a partition with AT+BOOT and no firmware was started since.
Asked == wish # NoRequest /\ ~wish.permanent

\* bootloader_task works with the map of sector 0 and with the boot parameters as
\* they are in the flash.
Copies ==
    /\ pc \in {"requested", "configured", "again", "other", "scan"} => bmap = flashMap /\ info = params
    /\ saver \in {"scan", "permanent"} => bmap = flashMap

\* The boot parameters about to be written register complete firmwares, and go
\* to an erased sector.
Registers ==
    /\ saver = "scan" => /\ scan \in Parts /\ part[scan] \in Images
                         /\ info.md5[scan] = part[scan] /\ info.boot_part # NoPart
    /\ saver \in {"permanent", "app"} => /\ info.boot_part \in Parts
                                         /\ part[info.boot_part] \in Complete
                                         /\ info.md5[info.boot_part] = part[info.boot_part]
    /\ saver = "permanent" => part[info.boot_part] \in Images
    /\ pc = "write" => params = Erased

\* Without a default no firmware is registered.
BlankIsErased == params.boot_part = NoPart => params = Erased

\* No partition below n holds a complete firmware.
Lowest(n) == \A k \in Usable(flashMap) : part[k] \in Images => n <= k

\* What the loop over all partitions has come to: on the first boot nothing, or
\* the lowest firmware, which is the default since; later there is a default.
LoopFound ==
    /\ (pc = "scan" \/ saver = "scan") /\ bmap > 4 => scan % 2 = 0
    /\ how = "fallback" /\ pc = "scan" => params.boot_part \in Parts
    /\ how = "first" /\ pc = "scan" =>
          IF found = NoPart
          THEN params = Erased /\ ~mapSet /\ Lowest(scan)
          ELSE /\ mapSet /\ params.boot_part = found /\ params.md5[found] = part[found]
               /\ Lowest(found)
    /\ how = "first" /\ saver = "scan" =>
          IF found = NoPart
          THEN mapSet /\ info.boot_part = scan /\ Lowest(scan)
          ELSE /\ mapSet /\ info.boot_part = found /\ info.md5[found] = part[found]
               /\ Lowest(found)

\* What has become of the user's request: it waits in the RTC slot, or the
\* partition cannot be started.
Requests ==
    /\ Asked /\ (pc = "app" \/ saver = "app") => request = wish
    /\ Asked /\ Startable(wish.part) =>
          /\ pc \in {"reset", "requested", "blink"} => request = wish
          /\ pc \notin {"configured", "again", "other"}
          /\ pc = "scan" => found # NoPart

\* What holds as long as nothing was disturbed.
CalmInv ==
    /\ TypeOK /\ Control
    /\ Copies /\ Registers /\ BlankIsErased /\ LoopFound /\ Requests

\* The inductive invariant.
ChoiceInv == trouble \in Nat /\ (trouble = 0 => CalmInv)

-----------------------------------------------------------------------------
(* The pieces the actions are made of. *)

LEMMA NoDisturbance ==
    ASSUME trouble = 0, trouble' = 0
    PROVE  ~Disturbed
  BY DEF Disturbed

\* An undisturbed check accepts exactly what is complete and registered.
LEMMA CalmCheck ==
    ASSUME TypeOK, trouble = 0, trouble' = 0, NEW n \in Parts, NEW ok \in BOOLEAN,
           check_load_binary(n, ok)
    PROVE  /\ ram' \in Contents /\ trouble' \in 0 .. MaxTrouble
           /\ ok <=> Acceptable(n) /\ part[n] = info.md5[n]
<1>1. ok <=> Acceptable(n) /\ part[n] = info.md5[n]
  BY NoDisturbance DEF check_load_binary
<1> QED BY <1>1, CheckFacts

\* A map that was read is that of the board: other boards' firmware is refused.
LEMMA AcceptableIsImage ==
    ASSUME TypeOK, bmap = flashMap, NEW n \in Parts
    PROVE  Acceptable(n) <=> part[n] \in Images
<1>1. bmap # NoMap
  BY BoundsAssumption DEF TypeOK, NoMap
<1> QED BY <1>1, ImagesAssumption DEF Acceptable, Refused, Complete

LEMMA ErasedFacts ==
    ASSUME NEW n \in Parts
    PROVE  /\ Erased.md5[n] = Blank /\ Erased.boot_part = NoPart
           /\ Blank \notin Images
  BY ImagesAssumption DEF Erased, Complete

\* While the boot parameters are blank no partition is Startable.
LEMMA NoneStartable ==
    ASSUME params = Erased
    PROVE  \A n : ~Startable(n)
<1> SUFFICES ASSUME NEW n, Startable(n) PROVE FALSE
  OBVIOUS
<1>1. n \in Parts /\ part[n] \in Images /\ Erased.md5[n] = part[n]
  BY DEF Startable, Usable
<1> QED BY <1>1, ErasedFacts

LEMMA UsableFacts ==
    ASSUME NEW n \in Nat, NEW m \in 2 .. 8, InRange(n, m), m > 4 => n % 2 = 0
    PROVE  n \in Usable(m)
  BY DEF Usable, InRange, Parts, MaxParts

\* What all undisturbed steps keep.
CalmKept == Kept /\ BlankIsErased'

\* A firmware is started.
LEMMA StartedKeepsCalm ==
    ASSUME TypeOK, CalmKept, NEW n \in Parts, NEW way \in Ways, exit_ok(n, way)
    PROVE  CalmInv'
<1>1. /\ pc' = "app" /\ how' = way /\ current' = n /\ wish' = NoRequest
      /\ info' = Erased /\ bmap' = NoMap /\ scan' = 0 /\ found' = NoPart /\ mapSet' = FALSE
      /\ saver' = "none"
  BY DEF exit_ok
<1>2. TypeOK'
  BY <1>1, ErasedType DEF CalmKept, Kept, TypeOK, Stages, Parts, NoPart, MaxParts
<1>3. Control'
  BY <1>1 DEF CalmKept, Kept, Control
<1>4. Copies' /\ Registers'
  BY <1>1 DEF Copies, Registers
<1>5. LoopFound' /\ Requests'
  BY <1>1 DEF LoopFound, Requests, Asked
<1> QED BY <1>2, <1>3, <1>4, <1>5 DEF CalmInv, CalmKept

\* The boot is given up, when what the user asked for is of no use.
LEMMA GivenUpKeepsCalm ==
    ASSUME TypeOK, CalmKept, exit_err, current' = current,
           (Asked /\ Startable(wish.part))' => request' = wish'
    PROVE  CalmInv'
<1>1. /\ pc' = "blink" /\ how' = "none"
      /\ info' = Erased /\ bmap' = NoMap /\ scan' = 0 /\ found' = NoPart /\ mapSet' = FALSE
      /\ saver' = "none"
  BY DEF exit_err
<1>2. TypeOK'
  BY <1>1, ErasedType DEF CalmKept, Kept, TypeOK, Stages, Ways, Parts, NoPart, MaxParts
<1>3. Control'
  BY <1>1 DEF CalmKept, Kept, Control
<1>4. Copies' /\ Registers'
  BY <1>1 DEF Copies, Registers
<1>5. LoopFound'
  BY <1>1 DEF LoopFound
<1>6. Requests'
  BY <1>1 DEF Requests
<1> QED BY <1>2, <1>3, <1>4, <1>5, <1>6 DEF CalmInv, CalmKept

\* bootloader_task goes on to another way of choosing.
LEMMA LookingKeepsCalm ==
    ASSUME TypeOK, CalmKept, info' = params', bmap' = flashMap, saver' = "none",
           pc' \in {"requested", "configured", "again", "other", "scan"},
           current' = current, scan' \in Nat, mapSet' \in BOOLEAN, how' \in Ways,
           found' \in Parts \cup {NoPart},
           IF pc' = "scan" THEN how' \in {"first", "fallback"} ELSE params'.boot_part \in Parts,
           pc' = "requested" => request'.part \in Parts,
           LoopFound', Requests'
    PROVE  CalmInv'
<1>1. TypeOK'
  BY DEF CalmKept, Kept, TypeOK, Stages
<1>2. Control'
  BY DEF CalmKept, Kept, Control
<1>3. Copies'
  BY DEF CalmKept, Kept, Copies
<1>4. Registers'
  BY DEF Registers
<1> QED BY <1>1, <1>2, <1>3, <1>4 DEF CalmInv, CalmKept

\* Whether a request can be served changes with the flash only.
LEMMA SameWish ==
    ASSUME UNCHANGED <<part, flashMap, params, wish>>
    PROVE  (Asked /\ Startable(wish.part))' <=> Asked /\ Startable(wish.part)
  BY DEF Asked, Startable

\* The invariant taken apart.
LEMMA CalmFacts ==
    ASSUME CalmInv
    PROVE  /\ TypeOK
           /\ info \in BootInfo /\ bmap \in Maps \cup {NoMap} /\ scan \in Nat /\ mapSet \in BOOLEAN
           /\ found \in Parts \cup {NoPart} /\ how \in Ways /\ ram \in Contents
           /\ params \in BootInfo /\ flashMap \in 2 .. 8 /\ flashMap \in Maps
           /\ Step(flashMap) \in {1, 2}
           /\ pc \in {"erase", "write"} <=> saver # "none"
           /\ pc \in {"requested", "configured", "again", "other", "scan"} =>
                 saver = "none" /\ bmap = flashMap /\ info = params
           /\ pc \in {"requested", "configured", "again", "other"} => params.boot_part \in Parts
           /\ pc = "scan" \/ saver = "scan" => how \in {"first", "fallback"}
  BY BoundsAssumption DEF CalmInv, TypeOK, Control, Copies, Step

\* Steps that only look at the flash.
LEMMA LookedCalmKept ==
    ASSUME CalmInv, UNCHANGED <<flashVars, request, counter, wish>>,
           ram' \in Contents, trouble' \in 0 .. MaxTrouble
    PROVE  CalmKept
  BY DEF CalmInv, TypeOK, Control, Kept, CalmKept, flashVars, BlankIsErased

LEMMA StartedCalmKept ==
    ASSUME CalmInv, NEW n, NEW way, exit_ok(n, way), UNCHANGED <<flashVars, counter>>,
           request' = request \/ request' = NoRequest,
           ram' \in Contents, trouble' \in 0 .. MaxTrouble
    PROVE  CalmKept
<1>1. wish' \in Selection /\ NoRequest \in Selection
  BY RequestType DEF exit_ok
<1> QED BY <1>1 DEF CalmInv, TypeOK, Control, Kept, CalmKept, flashVars, BlankIsErased

-----------------------------------------------------------------------------
(* bootloader_task. *)

LEMMA InitCalm ==
    ASSUME Init
    PROVE  ChoiceInv
<1>1. PICK p \in [Usable(flashMap) -> Contents] :
           part = [n \in Parts |-> IF n \in Usable(flashMap) THEN p[n] ELSE Blank]
  BY DEF Init
<1>2. part \in [Parts -> Contents]
  BY <1>1 DEF Contents
<1>3. TypeOK
  <2>1. params \in BootInfo /\ info \in BootInfo /\ request \in Selection /\ wish \in Selection
    BY ErasedType, RequestType DEF Init
  <2>2. /\ flashMap \in Maps /\ current \in Parts \cup {NoPart} /\ ram \in Contents
        /\ bmap \in Maps \cup {NoMap} /\ scan \in Nat /\ found \in Parts \cup {NoPart}
        /\ mapSet \in BOOLEAN /\ saver \in {"none", "scan", "permanent", "app"}
        /\ pc \in Stages /\ how \in Ways
    BY DEF Init, Contents, Stages, Ways
  <2>3. counter \in 0 .. CounterMax /\ trouble \in 0 .. MaxTrouble
    BY BoundsAssumption DEF Init
  <2> QED BY <1>2, <2>1, <2>2, <2>3 DEF TypeOK
<1>4. Control /\ Copies /\ Registers /\ BlankIsErased /\ LoopFound /\ Requests
  BY DEF Init, Control, Copies, Registers, BlankIsErased, LoopFound, Requests, Asked
<1> QED BY <1>3, <1>4 DEF Init, ChoiceInv, CalmInv

LEMMA StartKeepsCalm ==
    ASSUME CalmInv, trouble = 0, trouble' = 0, Start
    PROVE  CalmInv'
<1>1. /\ pc = "reset" /\ bmap' = flashMap /\ Calm /\ info' = params
      /\ UNCHANGED <<flashVars, request, current, ram, saver, wish>>
  BY NoDisturbance DEF Start
<1>2. counter' \in 0 .. CounterMax
  BY CalmFacts, CountType DEF Start, boot_1st
<1>3. CalmKept /\ saver' = "none"
  BY <1>1, <1>2, CalmFacts
     DEF CalmInv, TypeOK, Control, Kept, CalmKept, flashVars, BlankIsErased, Calm
<1>4. (Asked /\ Startable(wish.part))' <=> Asked /\ Startable(wish.part)
  BY <1>1, SameWish DEF flashVars
<1>5. CASE params.boot_part = NoPart
  <2>1. pc' = "scan" /\ how' = "first" /\ scan' = 0 /\ found' = NoPart /\ mapSet' = FALSE
    BY <1>5 DEF Start, boot_1st
  <2>2. params = Erased
    BY <1>5 DEF CalmInv, BlankIsErased
  <2>3. Lowest(0)
    BY DEF Lowest, Usable, Parts
  <2>4. LoopFound'
    BY <1>1, <1>3, <2>1, <2>2, <2>3 DEF LoopFound, Lowest, flashVars
  <2>5. Requests'
    BY <1>3, <1>4, <2>1, <2>2, NoneStartable DEF Requests
  <2> QED
    BY <1>1, <1>3, <2>1, <2>4, <2>5, CalmFacts, LookingKeepsCalm DEF flashVars, Ways
<1>6. CASE params.boot_part # NoPart
  <2>1. /\ pc' = IF request # NoRequest THEN "requested" ELSE "configured"
        /\ how' = "none" /\ UNCHANGED <<scan, found, mapSet>>
    BY <1>6 DEF Start
  <2>2. params.boot_part \in Parts
    BY <1>6, CalmFacts DEF BootInfo
  <2>3. LoopFound'
    BY <1>3, <2>1 DEF LoopFound
  <2>4. Asked /\ Startable(wish.part) => request = wish
    BY <1>1 DEF CalmInv, Requests
  <2>5. Requests'
    BY <1>1, <1>3, <1>4, <2>1, <2>4 DEF Requests, Asked
  <2>6. request # NoRequest => request'.part \in Parts
    BY <1>1 DEF CalmInv, Control
  <2> QED BY <1>1, <1>3, <2>1, <2>2, <2>3, <2>5, <2>6, CalmFacts, LookingKeepsCalm
          DEF flashVars, Ways
<1> QED BY <1>5, <1>6

\* A request that can be served is served.
LEMMA RequestedKeepsCalm ==
    ASSUME CalmInv, trouble = 0, trouble' = 0, Requested
    PROVE  CalmInv'
<1> DEFINE n == request.part
<1>1. /\ pc = "requested" /\ saver = "none" /\ bmap = flashMap /\ info = params
      /\ UNCHANGED <<flashVars, counter>>
  BY CalmFacts DEF Requested
<1>2. n \in Parts
  BY <1>1 DEF CalmInv, Control
<1>3. Asked /\ Startable(wish.part) => wish.part = n /\ Startable(n)
  BY <1>1 DEF CalmInv, Requests
<1>4. CASE bmap > 4 /\ n % 2 = 1
  <2>1. /\ pc' = "configured"
        /\ UNCHANGED <<request, ram, trouble, info, saver, current, how, wish, bmap, scan, found, mapSet>>
    BY <1>4 DEF Requested
  <2>2. CalmKept
    BY <1>1, <2>1, CalmFacts, LookedCalmKept DEF TypeOK
  <2>3. ~Startable(n)
    BY <1>1, <1>2, <1>4 DEF Startable, Usable, Parts, MaxParts
  <2>4. Requests'
    BY <1>1, <1>3, <2>1, <2>3, SameWish DEF Requests, flashVars
  <2>5. LoopFound'
    BY <1>1, <2>1 DEF LoopFound
  <2> QED BY <1>1, <2>1, <2>2, <2>4, <2>5, CalmFacts, LookingKeepsCalm DEF flashVars
<1>5. CASE ~(bmap > 4 /\ n % 2 = 1)
  <2>1. PICK ok \in BOOLEAN :
           /\ check_load_binary(n, ok)
           /\ IF ~ok
              THEN pc' = "configured" /\ UNCHANGED <<localVars, current, how, wish>>
              ELSE IF ~request.permanent THEN exit_ok(n, "requested")
              ELSE /\ info' = [info EXCEPT !.boot_part = n]
                   /\ pc' = "erase" /\ saver' = "permanent"
                   /\ UNCHANGED <<current, how, wish, bmap, scan, found, mapSet>>
    BY <1>5 DEF Requested
  <2>2. request' = NoRequest
    BY <1>5 DEF Requested
  <2>3. /\ ram' \in Contents /\ trouble' \in 0 .. MaxTrouble
        /\ ok <=> part[n] \in Images /\ part[n] = info.md5[n]
    BY <1>1, <1>2, <2>1, CalmFacts, CalmCheck, AcceptableIsImage
  <2>4. wish' = wish \/ wish' = NoRequest
    BY <2>1 DEF exit_ok
  <2>5. CalmKept
    BY <1>1, <2>2, <2>3, <2>4, RequestType
       DEF CalmInv, TypeOK, Kept, CalmKept, flashVars, BlankIsErased
  <2>6. CASE ~ok
    <3>1. pc' = "configured" /\ UNCHANGED <<localVars, current, how, wish>>
      BY <2>1, <2>6
    <3>2. ~Startable(n)
      BY <1>1, <2>3, <2>6 DEF Startable
    <3>3. Requests'
      BY <1>1, <1>3, <3>1, <3>2, SameWish DEF Requests, flashVars, localVars
    <3>4. LoopFound'
      BY <1>1, <3>1 DEF LoopFound, localVars
    <3> QED BY <1>1, <2>5, <3>1, <3>3, <3>4, CalmFacts, LookingKeepsCalm DEF flashVars, localVars
  <2>7. CASE ok /\ ~request.permanent
    BY <1>2, <2>1, <2>5, <2>7, CalmFacts, StartedKeepsCalm DEF Ways
  <2>8. CASE ok /\ request.permanent
    <3>1. /\ info' = [info EXCEPT !.boot_part = n]
          /\ pc' = "erase" /\ saver' = "permanent"
          /\ UNCHANGED <<current, how, wish, bmap, scan, found, mapSet>>
      BY <2>1, <2>8
    <3>2. info' \in BootInfo /\ info'.boot_part = n /\ info'.md5 = info.md5
      BY <1>2, <3>1, CalmFacts DEF BootInfo
    <3>3. TypeOK'
      BY <2>5, <3>1, <3>2, CalmFacts DEF TypeOK, CalmKept, Kept, Stages
    <3>4. Control'
      BY <2>5, <3>1 DEF CalmKept, Kept, Control
    <3>5. Copies' /\ LoopFound'
      BY <1>1, <3>1 DEF Copies, LoopFound, flashVars
    <3>6. Registers'
      BY <1>1, <1>2, <2>3, <2>8, <3>1, <3>2 DEF Registers, flashVars, Complete
    <3>7. Requests'
      BY <3>1 DEF Requests
    <3> QED BY <2>5, <3>3, <3>4, <3>5, <3>6, <3>7 DEF CalmInv, CalmKept
  <2> QED BY <2>6, <2>7, <2>8
<1> QED BY <1>4, <1>5

\* While another way of choosing is tried, no request that could be served is
\* left over.
LEMMA OtherWaysRequests ==
    ASSUME CalmInv, pc \in {"configured", "again", "other"}, UNCHANGED <<part, flashMap, params, wish>>,
           pc' \in {"configured", "again", "other", "scan"}, saver' = "none"
    PROVE  Requests'
<1>1. ~(Asked /\ Startable(wish.part))
  BY DEF CalmInv, Requests
<1>2. ~(Asked /\ Startable(wish.part))'
  BY <1>1, SameWish
<1> QED BY <1>2 DEF Requests

LEMMA ConfiguredKeepsCalm ==
    ASSUME CalmInv, trouble = 0, trouble' = 0, Configured
    PROVE  CalmInv'
<1>1. /\ pc = "configured" /\ saver = "none" /\ bmap = flashMap /\ info = params
      /\ info.boot_part \in Parts /\ UNCHANGED <<flashVars, request, counter>>
  BY CalmFacts DEF Configured
<1>2. CASE /\ counter >= CounterMax /\ Calm
           /\ pc' = "other" /\ scan' = 0
           /\ UNCHANGED <<ram, info, bmap, found, mapSet, saver, current, how, wish>>
  <2>1. CalmKept
    BY <1>1, <1>2, CalmFacts, LookedCalmKept DEF Calm, TypeOK
  <2>2. Requests'
    BY <1>1, <1>2, OtherWaysRequests DEF flashVars
  <2>3. LoopFound'
    BY <1>1, <1>2 DEF LoopFound
  <2>4. scan' \in Nat
    BY <1>2
  <2> QED BY <1>1, <1>2, <2>1, <2>2, <2>3, <2>4, CalmFacts, LookingKeepsCalm DEF flashVars
<1>3. CASE \E ok \in BOOLEAN :
              /\ check_load_binary(info.boot_part, ok)
              /\ IF ok THEN exit_ok(info.boot_part, "configured")
                 ELSE pc' = "again" /\ UNCHANGED <<localVars, current, how, wish>>
  <2>1. PICK ok \in BOOLEAN :
              /\ check_load_binary(info.boot_part, ok)
              /\ IF ok THEN exit_ok(info.boot_part, "configured")
                 ELSE pc' = "again" /\ UNCHANGED <<localVars, current, how, wish>>
    BY <1>3
  <2>2. ram' \in Contents /\ trouble' \in 0 .. MaxTrouble
    BY <1>1, <2>1, CalmCheck, CalmFacts
  <2>3. CASE ok
    <3>1. CalmKept
      BY <1>1, <2>1, <2>2, <2>3, StartedCalmKept
    <3> QED BY <1>1, <2>1, <2>3, <3>1, CalmFacts, StartedKeepsCalm DEF Ways
  <2>4. CASE ~ok
    <3>1. pc' = "again" /\ UNCHANGED <<localVars, current, how, wish>>
      BY <2>1, <2>4
    <3>2. CalmKept
      BY <1>1, <2>2, <3>1, LookedCalmKept
    <3>3. Requests'
      BY <1>1, <3>1, OtherWaysRequests DEF flashVars, localVars
    <3>4. LoopFound'
      BY <1>1, <3>1 DEF LoopFound, localVars
    <3> QED BY <1>1, <3>1, <3>2, <3>3, <3>4, CalmFacts, LookingKeepsCalm DEF localVars, flashVars
  <2> QED BY <2>3, <2>4
<1> QED BY <1>2, <1>3, NoDisturbance DEF Configured

LEMMA ConfiguredAgainKeepsCalm ==
    ASSUME CalmInv, trouble = 0, trouble' = 0, ConfiguredAgain
    PROVE  CalmInv'
<1>1. /\ pc = "again" /\ saver = "none" /\ bmap = flashMap /\ info = params
      /\ info.boot_part \in Parts /\ UNCHANGED <<flashVars, request>>
  BY CalmFacts DEF ConfiguredAgain
<1>2. PICK ok \in BOOLEAN :
          /\ check_load_binary(info.boot_part, ok)
          /\ IF ok THEN exit_ok(info.boot_part, "configured") /\ UNCHANGED counter
             ELSE boot_1st("fallback") /\ UNCHANGED <<info, bmap, saver, current, wish>>
  BY DEF ConfiguredAgain
<1>3. ram' \in Contents /\ trouble' \in 0 .. MaxTrouble
  BY <1>1, <1>2, CalmCheck, CalmFacts
<1>4. CASE ok
  <2>1. CalmKept
    BY <1>1, <1>2, <1>3, <1>4, StartedCalmKept
  <2> QED BY <1>1, <1>2, <1>4, <2>1, CalmFacts, StartedKeepsCalm DEF Ways
<1>5. CASE ~ok
  <2>1. /\ pc' = "scan" /\ how' = "fallback" /\ scan' = 0 /\ found' = NoPart /\ mapSet' = FALSE
        /\ counter' = 1 /\ UNCHANGED <<info, bmap, saver, current, wish>>
    BY <1>2, <1>5 DEF boot_1st
  <2>2. CalmKept
    BY <1>1, <1>3, <2>1, CalmFacts, CountType
       DEF CalmInv, TypeOK, Control, Kept, CalmKept, flashVars, BlankIsErased
  <2>3. Requests'
    BY <1>1, <2>1, OtherWaysRequests DEF flashVars
  <2>4. LoopFound'
    BY <1>1, <2>1 DEF LoopFound, flashVars
  <2> QED BY <1>1, <2>1, <2>2, <2>3, <2>4, CalmFacts, LookingKeepsCalm DEF flashVars, Ways
<1> QED BY <1>4, <1>5

LEMMA OtherKeepsCalm ==
    ASSUME CalmInv, trouble = 0, trouble' = 0, OtherFirmware
    PROVE  CalmInv'
<1>1. /\ pc = "other" /\ saver = "none" /\ bmap = flashMap /\ info = params
      /\ UNCHANGED <<flashVars, request, counter>>
  BY CalmFacts DEF OtherFirmware
<1>2. CASE ~InRange(scan, bmap)
  <2>1. exit_err /\ UNCHANGED <<ram, trouble, current, wish>>
    BY <1>2 DEF OtherFirmware
  <2>2. CalmKept
    BY <1>1, <2>1, CalmFacts, LookedCalmKept DEF TypeOK
  <2>3. ~(Asked /\ Startable(wish.part))
    BY <1>1 DEF CalmInv, Requests
  <2>4. ~(Asked /\ Startable(wish.part))'
    BY <1>1, <2>1, <2>3, SameWish DEF flashVars
  <2> QED BY <2>1, <2>2, <2>4, CalmFacts, GivenUpKeepsCalm
<1>3. CASE /\ scan' = scan + Step(bmap)
           /\ UNCHANGED <<pc, how, current, wish, info, bmap, found, mapSet, saver>>
           /\ ram' \in Contents /\ trouble' \in 0 .. MaxTrouble
  <2>1. CalmKept
    BY <1>1, <1>3, LookedCalmKept
  <2>2. Requests'
    BY <1>1, <1>3, OtherWaysRequests DEF flashVars
  <2>3. LoopFound'
    BY <1>1, <1>3 DEF LoopFound
  <2>4. scan' \in Nat
    BY <1>1, <1>3, CalmFacts
  <2> QED BY <1>1, <1>3, <2>1, <2>2, <2>3, <2>4, CalmFacts, LookingKeepsCalm DEF flashVars
<1>4. CASE InRange(scan, bmap) /\ scan = info.boot_part
  BY <1>3, <1>4, CalmFacts DEF OtherFirmware, TypeOK
<1>5. CASE InRange(scan, bmap) /\ scan # info.boot_part
  <2>1. PICK ok \in BOOLEAN :
               /\ check_load_binary(scan, ok)
               /\ IF ok THEN exit_ok(scan, "other")
                  ELSE /\ scan' = scan + Step(bmap)
                       /\ UNCHANGED <<pc, how, current, wish, info, bmap, found, mapSet, saver>>
    BY <1>5 DEF OtherFirmware
  <2>2. scan \in Parts
    BY <1>5, CalmFacts, RangeFacts
  <2>3. ram' \in Contents /\ trouble' \in 0 .. MaxTrouble
    BY <2>1, <2>2, CalmCheck, CalmFacts
  <2>4. CASE ok
    <3>1. CalmKept
      BY <1>1, <2>1, <2>3, <2>4, StartedCalmKept
    <3> QED BY <2>1, <2>2, <2>4, <3>1, CalmFacts, StartedKeepsCalm DEF Ways
  <2>5. CASE ~ok
    BY <1>3, <2>1, <2>3, <2>5
  <2> QED BY <2>4, <2>5
<1> QED BY <1>2, <1>4, <1>5

\* A round that finds nothing moves the lower bound on.
LEMMA LowestMovesOn ==
    ASSUME CalmInv, pc = "scan", Lowest(scan), part[scan] \notin Images
    PROVE  Lowest(scan + Step(flashMap))
<1>1. /\ scan \in Nat /\ flashMap \in 2 .. 8 /\ (flashMap > 4 => scan % 2 = 0)
  BY CalmFacts DEF CalmInv, LoopFound
<1> SUFFICES ASSUME NEW k \in Usable(flashMap), part[k] \in Images
             PROVE  scan + Step(flashMap) <= k
  BY DEF Lowest
<1>2. k \in Nat /\ scan <= k /\ scan # k
  BY DEF Lowest, Usable, Parts
<1>3. flashMap > 4 => k % 2 = 0
  BY DEF Usable
<1> QED BY <1>1, <1>2, <1>3 DEF Step

\* The loop goes on after a round that changed nothing.
LEMMA PassedKeepsCalm ==
    ASSUME CalmInv, pc = "scan", CalmKept, Passed, UNCHANGED <<how, bmap, saver, current, info>>,
           mapSet' \in BOOLEAN, found' \in Parts \cup {NoPart}, LoopFound', Requests',
           params' = params
    PROVE  CalmInv'
<1>1. /\ saver' = "none" /\ bmap' = flashMap /\ info' = params' /\ how' \in {"first", "fallback"}
      /\ pc' = "scan" /\ scan' \in Nat /\ TypeOK /\ how' \in Ways
  BY CalmFacts DEF Passed
<1> QED BY <1>1, LookingKeepsCalm

LEMMA FirstFirmwareKeepsCalm ==
    ASSUME CalmInv, trouble = 0, trouble' = 0, FirstFirmware
    PROVE  CalmInv'
<1>1. /\ pc = "scan" /\ saver = "none" /\ how \in {"first", "fallback"}
      /\ bmap = flashMap /\ info = params
      /\ UNCHANGED <<flashVars, request, counter>>
  BY CalmFacts DEF FirstFirmware
<1>2. Asked /\ Startable(wish.part) => found # NoPart
  BY <1>1 DEF CalmInv, Requests
<1>3. CASE ~InRange(scan, bmap)
  <2>1. /\ IF found = NoPart THEN exit_err /\ UNCHANGED <<current, wish>>
           ELSE exit_ok(found, how)
        /\ UNCHANGED <<ram, trouble>>
    BY <1>3 DEF FirstFirmware
  <2>2. ram' \in Contents /\ trouble' \in 0 .. MaxTrouble
    BY <2>1, CalmFacts DEF TypeOK
  <2>3. CASE found = NoPart
    <3>1. exit_err /\ UNCHANGED <<current, wish>>
      BY <2>1, <2>3
    <3>2. CalmKept
      BY <1>1, <2>2, <3>1, LookedCalmKept
    <3>3. ~(Asked /\ Startable(wish.part))'
      BY <1>1, <1>2, <2>3, <3>1, SameWish DEF flashVars
    <3> QED BY <3>1, <3>2, <3>3, CalmFacts, GivenUpKeepsCalm
  <2>4. CASE found # NoPart
    <3>1. exit_ok(found, how) /\ found \in Parts
      BY <2>1, <2>4, CalmFacts
    <3>2. CalmKept
      BY <1>1, <2>2, <3>1, StartedCalmKept
    <3> QED BY <3>1, <3>2, CalmFacts, StartedKeepsCalm
  <2> QED BY <2>3, <2>4
<1>4. CASE /\ InRange(scan, bmap) /\ Calm
           /\ ram' = Loaded(scan)
           /\ IF ~Acceptable(scan)
              THEN Passed /\ UNCHANGED <<info, found, mapSet, saver>>
              ELSE IF part[scan] = info.md5[scan]
              THEN Passed /\ Took({TRUE}) /\ UNCHANGED <<info, saver>>
              ELSE /\ info' = Registered(params, scan)
                   /\ mapSet' = TRUE
                   /\ pc' = "erase" /\ saver' = "scan"
                   /\ UNCHANGED <<scan, found>>
           /\ UNCHANGED <<how, bmap, current, wish>>
  <2>1. scan \in Parts /\ TypeOK
    BY <1>4, CalmFacts, RangeFacts
  <2>2. ram' \in Contents /\ trouble' \in 0 .. MaxTrouble
    BY <1>4, <2>1, TroubleType DEF TypeOK, Contents, Loaded
  <2>3. CalmKept
    BY <1>1, <1>4, <2>2, LookedCalmKept
  <2>4. Acceptable(scan) <=> part[scan] \in Images
    BY <1>1, <2>1, AcceptableIsImage
  <2>5. (Asked /\ Startable(wish.part))' <=> Asked /\ Startable(wish.part)
    BY <1>1, <1>4, SameWish DEF flashVars
  <2>6. scan \in Nat /\ flashMap \in 2 .. 8 /\ Step(flashMap) = (IF flashMap > 4 THEN 2 ELSE 1)
    BY CalmFacts DEF Step
  <2>7. (flashMap > 4 => scan % 2 = 0) /\ (Passed /\ flashMap > 4 => scan' % 2 = 0)
    <3>1. flashMap > 4 => scan % 2 = 0
      BY <1>1 DEF CalmInv, LoopFound
    <3> QED BY <1>1, <2>6, <3>1 DEF Passed
  <2>8. CASE ~Acceptable(scan)
    <3>1. Passed /\ UNCHANGED <<info, found, mapSet, saver, how, bmap, current>> /\ pc' = "scan"
          /\ scan' = scan + Step(flashMap)
      BY <1>1, <1>4, <2>8 DEF Passed
    <3>2. found = NoPart /\ how = "first" => params = Erased /\ ~mapSet /\ Lowest(scan')
      <4>1. found = NoPart /\ how = "first" => params = Erased /\ ~mapSet /\ Lowest(scan)
        BY <1>1 DEF CalmInv, LoopFound
      <4> QED BY <1>1, <2>4, <2>8, <3>1, <4>1, LowestMovesOn
    <3>3. LoopFound'
      <4>1. /\ found # NoPart /\ how = "first" => /\ mapSet /\ params.boot_part = found
                                                  /\ params.md5[found] = part[found]
                                                  /\ Lowest(found)
            /\ how = "fallback" => params.boot_part \in Parts
        BY <1>1 DEF CalmInv, LoopFound
      <4> QED BY <1>1, <2>7, <3>1, <3>2, <4>1 DEF LoopFound, Lowest, flashVars
    <3>4. Requests'
      BY <1>1, <1>2, <2>5, <3>1 DEF Requests
    <3> QED BY <1>1, <2>3, <3>1, <3>3, <3>4, CalmFacts, PassedKeepsCalm DEF flashVars
  <2>9. CASE Acceptable(scan) /\ part[scan] = info.md5[scan]
    <3>1. /\ Passed /\ Took({TRUE}) /\ UNCHANGED <<info, saver, how, bmap, current>>
          /\ pc' = "scan" /\ mapSet' \in BOOLEAN
          /\ found' \in Parts /\ found' # NoPart
          /\ (found # NoPart => found' = found /\ mapSet' = mapSet)
      <4>1. Passed /\ Took({TRUE}) /\ UNCHANGED <<info, saver, how, bmap, current>>
        BY <1>1, <1>4, <2>9
      <4>2. CASE found = NoPart
        BY <2>1, <4>1, <4>2 DEF Passed, Took, Parts, NoPart, MaxParts
      <4>3. CASE found # NoPart
        <5>1. found' = found /\ mapSet' = mapSet
          BY <4>1, <4>3 DEF Took
        <5> QED BY <4>1, <4>3, <5>1, CalmFacts DEF Passed
      <4> QED BY <4>2, <4>3
    <3>2. how = "first" => /\ found # NoPart /\ mapSet /\ params.boot_part = found
                           /\ params.md5[found] = part[found] /\ Lowest(found)
      <4>1. params = Erased => part[scan] \notin Images
        BY <1>1, <2>1, <2>9, ErasedFacts
      <4>2. params # Erased
        BY <2>4, <2>9, <4>1
      <4> QED BY <1>1, <4>2 DEF CalmInv, LoopFound
    <3>3. how = "fallback" => params.boot_part \in Parts
      BY <1>1 DEF CalmInv, LoopFound
    <3>4. LoopFound'
      BY <1>1, <2>7, <3>1, <3>2, <3>3 DEF LoopFound, Lowest, flashVars
    <3>5. Requests'
      BY <1>1, <3>1 DEF Requests
    <3> QED BY <1>1, <2>3, <3>1, <3>4, <3>5, PassedKeepsCalm DEF flashVars
  <2>10. CASE Acceptable(scan) /\ part[scan] # info.md5[scan]
    <3>1. /\ info' = Registered(params, scan) /\ mapSet' = TRUE
          /\ pc' = "erase" /\ saver' = "scan"
          /\ UNCHANGED <<scan, found, how, bmap, current, wish>>
      BY <1>4, <2>10
    <3>2. part[scan] \in Images /\ part[scan] \in Complete
      BY <2>4, <2>10 DEF Complete
    <3>3. /\ info' \in BootInfo /\ info'.md5[scan] = part[scan]
          /\ info'.boot_part = (IF mapSet THEN params.boot_part ELSE scan)
          /\ \A k \in Parts \ {scan} : info'.md5[k] = params.md5[k]
      <4>1. info' \in BootInfo
        BY <2>1, <3>1, <3>2, CalmFacts, RegisteredType
      <4>2. params.md5 \in [Parts -> Complete \cup {Blank}]
        BY CalmFacts DEF BootInfo
      <4> QED BY <2>1, <3>1, <4>1, <4>2 DEF Registered
    <3>4. TypeOK'
      BY <2>3, <3>1, <3>3, CalmFacts DEF TypeOK, Kept, CalmKept, Stages
    <3>5. Control'
      BY <1>1, <2>3, <3>1 DEF Kept, CalmKept, Control
    <3>6. Copies' /\ Requests'
      BY <1>1, <3>1 DEF Copies, Requests, flashVars
    <3>7. /\ how = "fallback" => params.boot_part \in Parts
          /\ how = "first" =>
                IF found = NoPart
                THEN ~mapSet /\ Lowest(scan)
                ELSE /\ mapSet /\ params.boot_part = found /\ params.md5[found] = part[found]
                     /\ Lowest(found)
      BY <1>1 DEF CalmInv, LoopFound
    <3>8. LoopFound'
      <4>1. found \in Parts \cup {NoPart} /\ NoPart \notin Parts
        BY CalmFacts DEF NoPart, Parts, MaxParts
      <4>2. found # NoPart => info'.md5[found] = part[found] \/ params.md5[found] # part[found]
        BY <3>3, <4>1
      <4> QED BY <1>1, <2>7, <3>1, <3>3, <3>7, <4>1, <4>2 DEF LoopFound, Lowest, flashVars
    <3>9. Registers'
      <4>1. info'.boot_part \in Parts
        BY <1>1, <2>1, <3>3, <3>7, CalmFacts
      <4> QED BY <1>1, <2>1, <3>1, <3>2, <3>3, <4>1 DEF Registers, flashVars, NoPart, Parts, MaxParts
    <3> QED BY <2>3, <3>4, <3>5, <3>6, <3>8, <3>9 DEF CalmInv, CalmKept
  <2> QED BY <2>8, <2>9, <2>10
<1> QED BY <1>3, <1>4, NoDisturbance DEF FirstFirmware

-----------------------------------------------------------------------------
(* Rewriting the boot parameters. *)

LEMMA EraseKeepsCalm ==
    ASSUME CalmInv, trouble = 0, trouble' = 0, Erase
    PROVE  CalmInv'
<1>1. /\ pc = "erase" /\ Calm /\ params' = Erased /\ pc' = "write"
      /\ UNCHANGED <<localVars, current, how, wish>>
      /\ UNCHANGED <<part, flashMap, request, counter, ram>>
  BY NoDisturbance DEF Erase
<1>2. TypeOK'
  BY <1>1, ErasedType DEF CalmInv, TypeOK, Stages, Calm, localVars
<1>3. Control'
  BY <1>1 DEF CalmInv, Control, localVars
<1>4. Copies' /\ Registers' /\ BlankIsErased'
  BY <1>1 DEF CalmInv, Copies, Registers, BlankIsErased, localVars
<1>5. LoopFound'
  BY <1>1 DEF CalmInv, LoopFound, Lowest, localVars
<1>6. Requests'
  BY <1>1 DEF CalmInv, Requests, Asked, localVars
<1> QED BY <1>2, <1>3, <1>4, <1>5, <1>6 DEF CalmInv

LEMMA WriteKeepsCalm ==
    ASSUME CalmInv, trouble = 0, trouble' = 0, Write
    PROVE  CalmInv'
<1>1. /\ pc = "write" /\ Calm /\ params' \in Written(info)
      /\ \/ saver = "scan" /\ saver' = "none" /\ Passed /\ Took({TRUE})
            /\ UNCHANGED <<info, bmap, current, how, wish>>
         \/ saver = "app" /\ saver' = "none" /\ pc' = "app" /\ info' = Erased
            /\ UNCHANGED <<scan, found, mapSet, bmap, current, how, wish>>
         \/ saver = "permanent" /\ exit_ok(info.boot_part, "requested")
      /\ UNCHANGED <<part, flashMap, request, counter, ram>>
  BY NoDisturbance DEF Write
<1>2. params' = info /\ info \in BootInfo
  BY <1>1, ErasedType, CalmFacts DEF CalmInv, Registers, Written
<1>3. NoPart \notin Parts
  BY DEF NoPart, Parts, MaxParts
<1>4. info.boot_part # NoPart
  BY <1>1, <1>3 DEF CalmInv, Registers
<1>5. wish' \in Selection
  BY <1>1, RequestType DEF exit_ok, CalmInv, TypeOK
<1>6. CalmKept
  BY <1>1, <1>2, <1>4, <1>5 DEF CalmInv, TypeOK, Control, Kept, CalmKept, BlankIsErased, Calm
<1>7. CASE /\ saver = "scan" /\ saver' = "none" /\ Passed /\ Took({TRUE})
           /\ UNCHANGED <<info, bmap, current, how, wish>>
  <2>1. /\ pc' = "scan" /\ scan' = scan + Step(bmap)
        /\ mapSet' \in BOOLEAN /\ (mapSet => mapSet')
        /\ found' = (IF found = NoPart THEN scan ELSE found)
        /\ scan \in Parts /\ bmap = flashMap /\ info.md5[scan] = part[scan]
    <3>1. /\ pc' = "scan" /\ scan' = scan + Step(bmap)
          /\ scan \in Parts /\ bmap = flashMap /\ info.md5[scan] = part[scan]
      BY <1>7 DEF Passed, CalmInv, Registers, Copies
    <3>2. CASE found = NoPart
      BY <1>7, <3>1, <3>2 DEF Took
    <3>3. CASE found # NoPart
      <4>1. found' = found /\ mapSet' = mapSet
        BY <1>7, <3>3 DEF Took
      <4> QED BY <3>1, <3>3, <4>1, CalmFacts
    <3> QED BY <3>2, <3>3
  <2>2. found' \in Parts /\ scan' \in Nat
    BY <2>1, CalmFacts
  <2>3. flashMap > 4 => scan' % 2 = 0
    <3>1. flashMap > 4 => scan % 2 = 0
      BY <1>7, <2>1 DEF CalmInv, LoopFound
    <3>2. scan \in Nat /\ flashMap \in 2 .. 8 /\ Step(flashMap) = (IF flashMap > 4 THEN 2 ELSE 1)
      BY CalmFacts DEF Step
    <3> QED BY <2>1, <3>1, <3>2
  <2>4. how = "first" => /\ mapSet /\ info.boot_part = found' /\ info.md5[found'] = part[found']
                         /\ Lowest(found')
    BY <1>7, <2>1 DEF CalmInv, LoopFound
  <2>5. info.boot_part \in Parts
    BY <1>2, <1>4 DEF BootInfo
  <2>6. LoopFound'
    BY <1>1, <1>2, <1>3, <1>7, <2>1, <2>2, <2>3, <2>4, <2>5 DEF LoopFound, Lowest
  <2>7. Requests'
    BY <1>3, <1>7, <2>1, <2>2 DEF Requests
  <2> QED BY <1>2, <1>6, <1>7, <2>1, <2>2, <2>6, <2>7, CalmFacts, LookingKeepsCalm
          DEF CalmKept, Kept
<1>8. CASE /\ saver = "app" /\ saver' = "none" /\ pc' = "app" /\ info' = Erased
           /\ UNCHANGED <<scan, found, mapSet, bmap, current, how, wish>>
  <2>1. TypeOK'
    BY <1>1, <1>6, <1>8, CalmFacts, ErasedType DEF TypeOK, Kept, CalmKept, Stages
  <2>2. Control'
    BY <1>6, <1>8 DEF Control, Kept, CalmKept
  <2>3. Copies' /\ Registers' /\ LoopFound'
    BY <1>8 DEF Copies, Registers, LoopFound
  <2>4. Requests'
    BY <1>1, <1>8 DEF CalmInv, Requests, Asked
  <2> QED BY <1>6, <2>1, <2>2, <2>3, <2>4 DEF CalmInv, CalmKept
<1>9. CASE saver = "permanent" /\ exit_ok(info.boot_part, "requested")
  <2>1. info.boot_part \in Parts
    BY <1>9 DEF CalmInv, Registers
  <2> QED BY <1>6, <1>9, <2>1, CalmFacts, StartedKeepsCalm DEF Ways
<1> QED BY <1>1, <1>7, <1>8, <1>9

-----------------------------------------------------------------------------
(* The firmware, and resets. *)

LEMMA UpgradeKeepsCalm ==
    ASSUME CalmInv, trouble = 0, NEW n \in Parts, Upgrade(n)
    PROVE  CalmInv'
<1>1. /\ pc = "app" /\ saver = "none"
      /\ UNCHANGED <<params, flashMap, rtcVars, ram, bmap, scan, found, mapSet, how, wish, trouble>>
  BY CalmFacts DEF Upgrade
<1>2. PICK c \in Contents :
          /\ part' = [part EXCEPT ![n] = c]
          /\ check_firmware(n, c) \/ UNCHANGED <<info, pc, saver>>
  BY DEF Upgrade
<1>3. part' \in [Parts -> Contents] /\ part'[n] = c
  BY <1>2, CalmFacts DEF TypeOK
<1>4. /\ info' \in BootInfo
      /\ \/ pc' = "app" /\ saver' = "none"
         \/ /\ pc' = "erase" /\ saver' = "app" /\ info'.boot_part = n
            /\ part'[n] \in Complete /\ info'.md5[n] = part'[n]
  <2>1. CASE check_firmware(n, c)
    BY <1>3, <2>1, CalmFacts DEF check_firmware, BootInfo
  <2>2. CASE UNCHANGED <<info, pc, saver>>
    BY <1>1, <2>2, CalmFacts
  <2> QED BY <1>2, <2>1, <2>2
<1>5. TypeOK'
  BY <1>1, <1>3, <1>4, CalmFacts DEF TypeOK, rtcVars, Stages
<1>6. Control'
  BY <1>1, <1>4 DEF CalmInv, Control, rtcVars
<1>7. Copies' /\ LoopFound'
  BY <1>4 DEF Copies, LoopFound
<1>8. Registers'
  BY <1>4 DEF Registers
<1>9. BlankIsErased'
  BY <1>1 DEF CalmInv, BlankIsErased
<1>10. Requests'
  BY <1>1, <1>4 DEF CalmInv, Requests, Asked, rtcVars
<1> QED BY <1>5, <1>6, <1>7, <1>8, <1>9, <1>10 DEF CalmInv

\* What AT+BOOT accepts for one boot waits in the RTC slot as it was given.
LEMMA RequestKeepsCalm ==
    ASSUME CalmInv, trouble = 0, NEW n \in Requestable,
           UserApplication(n) \/ \E permanent \in BOOLEAN : at_setupCmdBoot(n, permanent)
    PROVE  CalmInv'
<1>1. n \in Parts /\ n \in 0 .. 7 /\ MaxParts = 8
  BY BoundsAssumption DEF Parts, MaxParts
<1>2. /\ pc = "app" /\ saver = "none"
      /\ UNCHANGED <<flashVars, current, counter, ram, localVars, pc, how, trouble>>
  BY CalmFacts DEF UserApplication, at_setupCmdBoot
<1>3. /\ request' \in Selection /\ (request' # NoRequest => request'.part \in Parts)
      /\ wish' \in Selection /\ (Asked' => request' = wish')
  <2>1. CASE UserApplication(n)
    BY <1>1, <2>1, RequestType DEF UserApplication, Selection, Asked
  <2>2. ASSUME NEW permanent \in BOOLEAN, at_setupCmdBoot(n, permanent)
        PROVE  /\ request' \in Selection /\ (request' # NoRequest => request'.part \in Parts)
               /\ wish' \in Selection /\ (Asked' => request' = wish')
    <3>1. wish' = [part |-> n, permanent |-> permanent] /\ wish' \in Selection
      BY <1>1, <2>2 DEF at_setupCmdBoot, Selection
    <3>2. CASE permanent
      <4>1. request' = NoRequest
        BY <1>1, <2>2, <3>2 DEF at_setupCmdBoot, set_rtc_nextboot
      <4> QED BY <3>1, <3>2, <4>1, RequestType DEF Asked
    <3>3. CASE ~permanent
      <4>1. request' = [part |-> n, permanent |-> FALSE]
        BY <1>1, <2>2, <3>3 DEF at_setupCmdBoot, set_rtc_nextboot
      <4> QED BY <1>1, <3>1, <3>3, <4>1
    <3> QED BY <3>2, <3>3
  <2> QED BY <2>1, <2>2
<1>4. TypeOK'
  BY <1>2, <1>3, CalmFacts DEF TypeOK, flashVars, localVars
<1>5. Control'
  BY <1>2, <1>3 DEF CalmInv, Control, localVars
<1>6. Copies' /\ Registers' /\ LoopFound' /\ BlankIsErased'
  BY <1>2 DEF CalmInv, Copies, Registers, LoopFound, BlankIsErased, localVars, flashVars
<1>7. Requests'
  BY <1>2, <1>3 DEF Requests, localVars
<1> QED BY <1>4, <1>5, <1>6, <1>7 DEF CalmInv

LEMMA ResetKeepsCalm ==
    ASSUME CalmInv, trouble = 0, Restart \/ Watchdog
    PROVE  CalmInv'
<1>1. /\ pc \in {"app", "blink"} /\ pc' = "reset" /\ how' = "none"
      /\ info' = Erased /\ bmap' = NoMap /\ scan' = 0 /\ found' = NoPart /\ mapSet' = FALSE
      /\ saver' = "none" /\ params' = params
      /\ UNCHANGED <<part, flashMap>> /\ UNCHANGED <<rtcVars, ram, wish, trouble>>
  BY DEF Restart, Watchdog, ResetState
<1>2. TypeOK'
  BY <1>1, CalmFacts, ErasedType DEF TypeOK, Stages, Ways, rtcVars
<1>3. Control'
  BY <1>1 DEF CalmInv, Control, rtcVars
<1>4. Copies' /\ Registers' /\ LoopFound'
  BY <1>1 DEF Copies, Registers, LoopFound
<1>5. BlankIsErased'
  BY <1>1 DEF CalmInv, BlankIsErased
<1>6. Asked /\ Startable(wish.part) => request = wish
  BY <1>1 DEF CalmInv, Requests
<1>7. Requests'
  BY <1>1, <1>6, SameWish DEF Requests, rtcVars
<1> QED BY <1>2, <1>3, <1>4, <1>5, <1>7 DEF CalmInv

LEMMA StutterKeepsCalm ==
    ASSUME CalmInv, UNCHANGED vars
    PROVE  CalmInv'
<1>1. TypeOK' /\ Control' /\ Copies' /\ Registers' /\ BlankIsErased'
  BY DEF vars, CalmInv, TypeOK, Control, Copies, Registers, BlankIsErased
<1>2. LoopFound' /\ Requests'
  BY DEF vars, CalmInv, LoopFound, Lowest, Requests, Asked, Startable
<1> QED BY <1>1, <1>2 DEF CalmInv

LEMMA TroubleGrows ==
    ASSUME [Next]_vars
    PROVE  trouble' \in {trouble, trouble + 1}
<1>1. CASE bootloader_task \/ Erase \/ Write
  BY <1>1 DEF bootloader_task, Start, NoParameters, Requested, Configured, ConfiguredAgain,
              OtherFirmware, FirstFirmware, Erase, Write, check_load_binary, Calm, Disturbed
<1>2. CASE Firmware
  BY <1>2 DEF Firmware, Upgrade, UserApplication, at_setupCmdBoot, Restart
<1>3. CASE Watchdog \/ ExternalReset \/ PowerCut
  BY <1>3 DEF Watchdog, ExternalReset, PowerCut, Disturbed
<1> QED BY <1>1, <1>2, <1>3 DEF Next, vars

LEMMA NextKeepsChoice ==
    ASSUME ChoiceInv, [Next]_vars
    PROVE  ChoiceInv'
<1>1. trouble \in Nat
  BY DEF ChoiceInv
<1>2. trouble' \in {trouble, trouble + 1}
  BY TroubleGrows
<1>3. SUFFICES ASSUME trouble' = 0 PROVE CalmInv'
  BY <1>1, <1>2 DEF ChoiceInv
<1>4. trouble = 0 /\ CalmInv
  BY <1>1, <1>2, <1>3 DEF ChoiceInv
<1>5. CASE bootloader_task
  BY <1>3, <1>4, <1>5, NoDisturbance, StartKeepsCalm, RequestedKeepsCalm, ConfiguredKeepsCalm,
     ConfiguredAgainKeepsCalm, OtherKeepsCalm, FirstFirmwareKeepsCalm
     DEF bootloader_task, NoParameters
<1>6. CASE Erase \/ Write
  BY <1>3, <1>4, <1>6, EraseKeepsCalm, WriteKeepsCalm
<1>7. ASSUME NEW n \in Parts, Upgrade(n) PROVE CalmInv'
  BY <1>4, <1>7, UpgradeKeepsCalm
<1>8. ASSUME NEW n \in Requestable,
             UserApplication(n) \/ \E permanent \in BOOLEAN : at_setupCmdBoot(n, permanent)
      PROVE  CalmInv'
  BY <1>4, <1>8, RequestKeepsCalm
<1>9. CASE Restart \/ Watchdog
  BY <1>4, <1>9, ResetKeepsCalm
<1>10. CASE ExternalReset \/ PowerCut
  BY <1>3, <1>4, <1>10, NoDisturbance DEF ExternalReset, PowerCut
<1>11. CASE UNCHANGED vars
  BY <1>4, <1>11, StutterKeepsCalm
<1> QED BY <1>5, <1>6, <1>7, <1>8, <1>9, <1>10, <1>11 DEF Next, Firmware

-----------------------------------------------------------------------------
(* The theorems. *)

\* The inductive invariant holds in every behaviour.
THEOREM ChoiceInvariant == Spec => []ChoiceInv
<1>1. Init => ChoiceInv
  BY InitCalm
<1>2. ChoiceInv /\ [Next]_vars => ChoiceInv'
  BY NextKeepsChoice
<1> QED BY <1>1, <1>2, PTL DEF Spec

\* A history that is undisturbed after a step was so before.
LEMMA CalmBefore ==
    ASSUME ChoiceInv, [Next]_vars, trouble' = 0
    PROVE  trouble = 0 /\ CalmInv
<1>1. trouble \in Nat /\ trouble' \in {trouble, trouble + 1}
  BY TroubleGrows DEF ChoiceInv
<1> QED BY <1>1 DEF ChoiceInv

\* The sector of the boot parameters is erased, or gets what was prepared.
LEMMA ParamsChange ==
    ASSUME CalmInv, trouble = 0, trouble' = 0, [Next]_vars
    PROVE  \/ params' \in {params, Erased}
           \/ pc = "write" /\ params' = info
<1>1. CASE Erase
  BY <1>1 DEF Erase
<1>2. CASE Write
  <2>1. pc = "write" /\ params' \in Written(info)
    BY <1>2, NoDisturbance DEF Write
  <2> QED BY <2>1, ErasedType DEF CalmInv, Registers, Written
<1>3. CASE bootloader_task
  BY <1>3 DEF bootloader_task, Start, NoParameters, Requested, Configured, ConfiguredAgain,
              OtherFirmware, FirstFirmware, flashVars
<1>4. CASE Firmware
  BY <1>4 DEF Firmware, Upgrade, UserApplication, at_setupCmdBoot, Restart, ResetState, flashVars
<1>5. CASE Watchdog \/ ExternalReset \/ PowerCut
  BY <1>5, NoDisturbance DEF Watchdog, ExternalReset, PowerCut, ResetState
<1>6. CASE UNCHANGED vars
  BY <1>6 DEF vars
<1> QED BY <1>1, <1>2, <1>3, <1>4, <1>5, <1>6 DEF Next

\* In an undisturbed history, whoever makes a partition the default one has
\* checked its firmware, and saves the MD5 it was checked to have: the
\* bootloader's check_load_binary and permanent request as well as
\* check_firmware, on a board whose partitions never got a firmware for another
\* flash map (check_firmware refuses those in its debug output only).
THEOREM CheckedDefault ==
    ASSUME Foreign = {}
    PROVE  Spec => DefaultIsChecked
<1> DEFINE A == LET d == params'.boot_part IN
                d # params.boot_part /\ d # NoPart /\ trouble' = 0 /\ (saver = "scan" => d = scan)
                    => part[d] \in Images /\ params'.md5[d] = part[d]
<1>1. ChoiceInv /\ [Next]_vars => [A]_vars
  <2> SUFFICES ASSUME ChoiceInv, [Next]_vars, trouble' = 0,
                      params'.boot_part # params.boot_part, params'.boot_part # NoPart,
                      saver = "scan" => params'.boot_part = scan
               PROVE  /\ part[params'.boot_part] \in Images
                      /\ params'.md5[params'.boot_part] = part[params'.boot_part]
    OBVIOUS
  <2>1. trouble = 0 /\ CalmInv
    BY CalmBefore
  <2>2. pc = "write" /\ params' = info
    BY <2>1, ParamsChange, ErasedType
  <2>3. saver \in {"scan", "permanent", "app"} /\ Registers
    BY <2>1, <2>2 DEF CalmInv, TypeOK, Control
  <2> QED BY <2>2, <2>3 DEF Registers, Complete
<1>2. Spec => [][A]_vars
  BY <1>1, ChoiceInvariant, PTL DEF Spec
<1> QED BY <1>2 DEF DefaultIsChecked

\* The first boot starts the lowest complete firmware and has made it the
\* default, although the loop of boot_1st goes on to register the others.
THEOREM LowestOnFirstBoot == Spec => FirstBootSelects
<1> DEFINE A == pc = "scan" /\ pc' = "app" /\ how = "first" /\ trouble' = 0
                    => /\ params.boot_part = current' /\ params.md5[current'] = part[current']
                       /\ \A n \in Usable(flashMap) : part[n] \in Images => current' <= n
<1>1. ChoiceInv /\ [Next]_vars => [A]_vars
  <2> SUFFICES ASSUME ChoiceInv, [Next]_vars,
                      pc = "scan", pc' = "app", how = "first", trouble' = 0
               PROVE  /\ params.boot_part = current' /\ params.md5[current'] = part[current']
                      /\ \A n \in Usable(flashMap) : part[n] \in Images => current' <= n
    OBVIOUS
  <2>1. trouble = 0 /\ CalmInv
    BY CalmBefore
  <2>2. FirstFirmware
    BY DEF Next, vars, bootloader_task, Start, NoParameters, Requested, Configured,
           ConfiguredAgain, OtherFirmware, Erase, Write, Firmware, Upgrade, UserApplication,
           at_setupCmdBoot, Restart, Watchdog, ExternalReset, PowerCut, ResetState
  <2>3. found # NoPart /\ current' = found
    BY <2>2 DEF FirstFirmware, Passed, exit_err, exit_ok
  <2> QED BY <2>1, <2>3 DEF CalmInv, LoopFound, Lowest
<1>2. Spec => [][A]_vars
  BY <1>1, ChoiceInvariant, PTL DEF Spec
<1> QED BY <1>2 DEF FirstBootSelects

\* A partition that AT+BOOT accepted and whose firmware is the one registered
\* for it is the one the bootloader starts next: it is tried before the counter
\* of boots, the button and the default are looked at, and cannot fail.
THEOREM AskedIsStarted == Spec => RequestHonoured
<1> DEFINE A == pc # "app" /\ pc' = "app" /\ trouble' = 0 /\ how \notin {"first", "fallback"}
                /\ wish # NoRequest /\ ~wish.permanent
                /\ wish.part \in Usable(flashMap)
                /\ part[wish.part] \in Images /\ params.md5[wish.part] = part[wish.part]
                    => current' = wish.part
<1>1. ChoiceInv /\ [Next]_vars => [A]_vars
  <2> SUFFICES ASSUME ChoiceInv, [Next]_vars,
                      pc # "app", pc' = "app", trouble' = 0, how \notin {"first", "fallback"},
                      Asked, Startable(wish.part)
               PROVE  current' = wish.part
    BY DEF Asked, Startable
  <2>1. trouble = 0 /\ CalmInv
    BY CalmBefore
  <2>2. pc \notin {"configured", "again", "other", "scan"}
    BY <2>1 DEF CalmInv, Requests, Control
  <2>3. pc # "write"
    BY <2>1, NoneStartable DEF CalmInv, Registers
  <2>4. Requested
    BY <2>1, <2>2, <2>3, NoDisturbance
       DEF Next, vars, bootloader_task, Start, NoParameters, Configured, boot_1st,
           ConfiguredAgain, OtherFirmware, FirstFirmware, Erase, Write, Firmware, Upgrade,
           UserApplication, at_setupCmdBoot, Restart, Watchdog, ExternalReset, PowerCut, ResetState
  <2>5. current' = request.part
    BY <2>4 DEF Requested, exit_ok
  <2>6. request = wish
    BY <2>1, <2>4 DEF CalmInv, Requests, Requested
  <2> QED BY <2>5, <2>6
<1>2. Spec => [][A]_vars
  BY <1>1, ChoiceInvariant, PTL DEF Spec
<1> QED BY <1>2 DEF RequestHonoured
====
