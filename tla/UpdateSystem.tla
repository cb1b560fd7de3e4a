---- MODULE UpdateSystem ----
(***************************************************************************)
(* The update commands of at_lobo/user/at_upgrade.c: what                  *)
(* AT+UPDATEFIRMWARE, AT+UPDATEBOOT, AT+UPDATECHECK, AT+UPDATEGETCSUM and  *)
(* their variants do to the static variables of the command layer, to the  *)
(* flash and to the host, which waits for one final result per command.    *)
(*                                                                         *)
(* The download is what OtaService promises of it: it is begun or refused, *)
(* an upgrade changes its partition meanwhile, and it ends once, well or   *)
(* badly.  A run of the bootloader is the one step Boot: which firmware it *)
(* starts, with the boot counter, the button and read errors.  Module      *)
(* Bootloader has it step by step, with the failing writes and the         *)
(* unreadable header of sector 0 that are left out here.                   *)
(*                                                                         *)
(* The parameter sector is a record whose partition types (part_type, the  *)
(* flash map and mode of the firmware) are its last words: when a          *)
(* rewriting is cut short the types read as erased.                        *)
(*                                                                         *)
(* A variable that is not read again before it is set is cleared.          *)
(***************************************************************************)
EXTENDS Integers, FiniteSets

CONSTANTS
    Images,     \* complete firmwares for the board; each is its own MD5
    Loaders,    \* bootloaders, smaller than a sector
    Bad,        \* any other content
    None,
    Maps,       \* flash maps the board may be made with
    Parts,      \* partition numbers within the flash
    Requestable,    \* those AT+BOOT asks for
    Sums,       \* the downloads of AT+UPDATEGETCSUM and AT+UPDATEGETCSUMBOOT
    Checks,     \* those of AT+UPDATECHECK and AT+UPDATECHECKBOOT
    CounterMax, \* largest value of the 4-bit boot counter, 15
    MaxTrouble  \* bound on disturbed operations and boots, and power cuts

ASSUME PartsAssumption ==
    Parts \subseteq Nat /\ 0 \in Parts /\ None \notin Parts /\ Requestable \subseteq Parts

ASSUME ContentsAssumption == Bad \notin Images \cup Loaders \cup {None} /\ None \notin Images \cup Loaders

ASSUME BoundsAssumption ==
    Maps \subseteq Nat /\ CounterMax \in Nat \ {0} /\ MaxTrouble \in Nat

VARIABLES
    \* statics of at_upgrade.c, and the globals it shares with at-ota.c
    forced,     \* update_forced_fw
    csum,       \* update_md5
    kind,       \* upgrade_type
    target,     \* upgrade_flash_addr, as a partition
    tmap,       \* upgrade_flash_map
    held,       \* upgrade_check_response, or the record in boot_info
    \* flash
    flashMap,   \* the map the board was flashed for
    part,       \* content of each partition
    params,     \* the boot parameters
    loader,     \* sector 0: a bootloader or Bad
    lmap,       \* and the flash map in its header
    \* RTC memory
    current, request,
    counter,    \* boot counter, 0 when the slot holds none
    \* for the properties
    pc,         \* where the firmware is
    answers,    \* final results to the last command that downloads something
    promised,   \* the partition an upgrade was answered OK for, till the next one
    cut,        \* a rewriting of the boot parameters was disturbed
    trouble

settings == <<forced, csum>>
goal == <<kind, target, tmap>>
board == <<flashMap, current>>
rtc == <<request, counter>>
sector0 == <<loader, lmap>>
history == <<answers, promised>>
vars == <<settings, goal, held, board, rtc, part, params, sector0, pc, history, cut, trouble>>

Contents == Images \cup {Bad}
Types == Sums \cup Checks \cup {"UPGRADE", "UPGBOOT"}
NoType == 15                    \* the flash map in an erased type byte

Params ==
    [boot_part : Parts \cup {None}, md5 : [Parts -> Contents], type : [Parts -> Maps \cup {NoType}]]

Erased ==
    [boot_part |-> None, md5 |-> [n \in Parts |-> Bad], type |-> [n \in Parts |-> NoType]]

Calm == UNCHANGED <<trouble, cut>>
Disturbed == trouble < MaxTrouble /\ trouble' = trouble + 1 /\ UNCHANGED cut
Interrupted == trouble < MaxTrouble /\ trouble' = trouble + 1 /\ cut' = TRUE

\* The host is given a final result and the command is over.
Finished ==
    /\ answers' = answers + 1
    /\ pc' = "shell"
    /\ kind' = None /\ target' = None /\ tmap' = NoType /\ held' = None

Failed == Finished /\ UNCHANGED promised

-----------------------------------------------------------------------------
(* Settings *)

\* The partitions at_setupCmdFWupdate accepts.
Selectable ==
    {n \in Parts \ {current} :
        /\ flashMap = 2 => n <= 1
        /\ flashMap > 4 => flashMap % 2 = 0}

\* AT+UPDATEFIRMWARE="host",r,n; without a partition, or with one that is
\* refused, the last one asked for stays.  The reset flag, which every such
\* command may set either way, is chosen where it is read.
at_setupCmdFWupdate(n) ==
    /\ pc = "shell"
    /\ n \in Selectable
    /\ forced' = n
    /\ UNCHANGED <<csum, goal, held, board, rtc, part, params, sector0, pc, history, cut, trouble>>

\* AT+UPDATEGETCSUM=0
at_setupCmdFWGetMD5 ==
    /\ pc = "shell"
    /\ csum' = None
    /\ UNCHANGED <<forced, goal, held, board, rtc, part, params, sector0, pc, history, cut, trouble>>

\* AT+BOOT=n; set_rtc_nextboot takes a permanent selection for none.
at_setupCmdBoot(n) ==
    /\ pc = "shell"
    /\ request' = n
    /\ UNCHANGED <<settings, goal, held, board, counter, part, params, sector0, pc, history, cut, trouble>>

-----------------------------------------------------------------------------
(* Starting a download *)

\* Faulty variant of update_setparams: the running partition is not looked at.
update_setparams_Always1 ==
    LET map == params.type[current] IN
    /\ target' = IF forced # None THEN forced ELSE IF map < 5 THEN 1 ELSE 2
    /\ forced' = None
    /\ tmap' = map

\* Where the firmware goes: to the partition asked for, which is forgotten,
\* or to the other one of a pair.  The map is that of the running firmware as
\* the boot parameters have it.
update_setparams ==
    LET map == params.type[current] IN
    /\ target' =
         IF forced # None THEN IF map < 5 THEN forced ELSE 2 * forced
         ELSE IF current # 0 THEN 0 ELSE IF map < 5 THEN 1 ELSE 2
    /\ forced' = None
    /\ tmap' = map

\* Faulty variant of Start: a refused download is answered by its callback too.
Start_Twice(t) ==
    /\ pc = "shell"
    /\ csum' = IF t \in Sums THEN None ELSE csum
    /\ promised' = None
    /\ update_setparams /\ Calm
    /\ kind' = t
    /\ pc' = "load" /\ answers' \in {0, 1}
    /\ UNCHANGED <<held, board, rtc, part, params, sector0>>

\* startUpdate and updateVerCheckMD5.  The parameters cannot be read, or
\* at_ota_start refuses, or the download runs and the interpreter is locked.
\* (That the partition asked for is not the running one was seen to by
\* at_setupCmdFWupdate.)
Start(t) ==
    /\ pc = "shell"
    /\ csum' = IF t \in Sums THEN None ELSE csum
    /\ promised' = None
    /\ \/ /\ Disturbed
          /\ answers' = 1
          /\ UNCHANGED <<forced, goal, pc>>
       \/ /\ forced' = None /\ Calm
          /\ answers' = 1
          /\ UNCHANGED <<goal, pc>>
       \/ /\ update_setparams /\ Calm
          /\ kind' = t
          /\ pc' = "load" /\ answers' = 0
    /\ UNCHANGED <<held, board, rtc, part, params, sector0>>

-----------------------------------------------------------------------------
(* The download and its end *)

\* What an upgrade puts in its partition; beyond the flash nothing is stored.
Put(contents) ==
    IF kind = "UPGRADE" /\ target \in Parts
    THEN {[part EXCEPT ![target] = c] : c \in contents} ELSE {part}

\* OtaService!Progress: sectors of the partition are erased and written.
Download ==
    /\ pc = "load"
    /\ kind = "UPGRADE"
    /\ part' \in Put({Bad})
    /\ UNCHANGED <<settings, goal, held, board, rtc, params, sector0, pc, history, cut, trouble>>

\* OtaService!Abort, and the callback after it.
DownloadFailed ==
    /\ pc = "load"
    /\ part' \in {part} \cup Put({Bad})
    /\ csum' = IF kind \in Sums THEN None ELSE csum
    /\ Failed
    /\ UNCHANGED <<forced, board, rtc, params, sector0, cut, trouble>>

\* Faulty variant of check_firmware: the downloaded sum is not compared.
check_firmware_NoSum(c) == c \in Images

\* The firmware is complete and is the one whose sum was downloaded, if one was.
check_firmware(c) == c \in Images /\ csum \in {None, c}

\* OtaUpdate_CallBack(true), up to the writing of the parameters.  When the
\* server announced no content it is the old one that is checked.
OtaUpdate_CallBack ==
    /\ pc = "load" /\ kind = "UPGRADE"
    /\ part' \in {part} \cup Put(Contents)
    /\ \/ /\ target \in Parts /\ check_firmware(part'[target]) /\ Calm
          /\ pc' = "erase"
          /\ UNCHANGED <<goal, held, history>>
       \/ /\ target \in Parts => ~check_firmware(part'[target])
          /\ Calm /\ Failed
       \/ Disturbed /\ Failed     \* a read error
    /\ UNCHANGED <<settings, board, rtc, params, sector0>>

\* OtaVerCheck_MD5_CallBack(true): there may be no RAM for the response, and a
\* version that is not well formed is printed and answered with an error.  A
\* server publishes the sums of whole files.
OtaVerCheck_MD5_CallBack ==
    /\ pc = "load" /\ kind \in Sums \cup Checks
    /\ csum' \in IF kind \in Sums THEN Images \cup Loaders \cup {None} ELSE {csum}
    /\ Failed
    /\ UNCHANGED <<forced, board, rtc, part, params, sector0, cut, trouble>>

\* Faulty variant of check_bootloader: without a downloaded sum it passes.
check_bootloader_Optional(c) == csum \in {None, c}

check_bootloader(c) == csum # None /\ csum = c

\* OtaUpdateBoot_CallBack(true), up to the writing of sector 0.
OtaUpdateBoot_CallBack ==
    /\ pc = "load" /\ kind = "UPGBOOT"
    /\ \/ \E c \in Loaders \cup {Bad} :
             /\ check_bootloader(c)
             /\ pc' = "erase0" /\ held' = c
             /\ UNCHANGED <<goal, history>>
       \/ \E c \in Loaders \cup {Bad} :
             ~check_bootloader(c) /\ Failed
    /\ UNCHANGED <<settings, board, rtc, part, params, sector0, cut, trouble>>

-----------------------------------------------------------------------------
(* Writing the flash: an action for each sector operation, as power may go   *)
(* between them.                                                             *)

\* Faulty variant of Registered: the default partition stays.
Registered_NoDefault(n) ==
    [params EXCEPT !.md5[n] = part[n], !.type[n] = flashMap]

\* check_firmware's new record.
Registered(n) ==
    [boot_part |-> n, md5 |-> [params.md5 EXCEPT ![n] = part[n]],
     type |-> [params.type EXCEPT ![n] = flashMap]]

\* Faulty variant of EraseParams: the host is told OK before the record is
\* written.
EraseParams_Promising ==
    /\ pc = "erase"
    /\ Calm
    /\ params' = Erased
    /\ held' = Registered(target)
    /\ pc' = "write"
    /\ promised' = target
    /\ UNCHANGED <<settings, goal, board, rtc, part, sector0, answers>>

EraseParams ==
    /\ pc = "erase"
    /\ \/ /\ Calm
          /\ params' = Erased
          /\ held' = Registered(target)
          /\ pc' = "write"
          /\ UNCHANGED <<goal, history>>
       \/ Disturbed /\ Failed /\ UNCHANGED params
    /\ UNCHANGED <<settings, board, rtc, part, sector0>>

\* What a write of b that stops early leaves: the words in their order, four
\* types in each of the last two.  It may stop after the last one, before the
\* result is looked at.
Prefixes(b) ==
    {Erased} \cup
    {[boot_part |-> b.boot_part,
      md5  |-> [n \in Parts |-> IF n < k THEN b.md5[n] ELSE Bad],
      type |-> [n \in Parts |-> NoType]] : k \in 0 .. Cardinality(Parts)} \cup
    {[b EXCEPT !.type = [n \in Parts |-> IF n < 4 * w THEN b.type[n] ELSE NoType]] : w \in 1 .. 2}

\* A restart: what is in RAM is lost.
Lost ==
    /\ pc' = "off"
    /\ forced' = None /\ csum' = None
    /\ kind' = None /\ target' = None /\ tmap' = NoType /\ held' = None

\* The answer is OK, and with the reset flag the device restarts.
WriteParams ==
    /\ pc = "write"
    /\ \/ /\ Calm
          /\ params' = held
          /\ promised' = target
          /\ \/ Finished /\ UNCHANGED settings
             \/ answers' = answers + 1 /\ Lost
       \/ /\ Interrupted
          /\ params' \in Prefixes(held)
          /\ Failed /\ UNCHANGED settings
    /\ UNCHANGED <<board, rtc, part, sector0>>

EraseLoader ==
    /\ pc = "erase0"
    /\ \/ /\ Calm
          /\ loader' = Bad
          /\ pc' = "write0"
          /\ UNCHANGED <<goal, held, history>>
       \/ Disturbed /\ Failed /\ UNCHANGED loader
    /\ UNCHANGED <<settings, board, rtc, part, params, lmap>>

\* Faulty variant of WriteLoader: after OK it goes on to the error.
WriteLoader_FallsThrough ==
    /\ pc = "write0"
    /\ Calm
    /\ loader' = held /\ lmap' = tmap
    /\ answers' = answers + 2
    /\ pc' = "shell" /\ kind' = None /\ target' = None /\ tmap' = NoType /\ held' = None
    /\ UNCHANGED <<settings, board, rtc, part, params, promised>>

\* The image is given the map and mode of upgrade_flash_map in its header.  The
\* answer is OK before the configuration sectors are erased.
WriteLoader ==
    /\ pc = "write0"
    /\ \/ /\ Calm
          /\ loader' = held /\ lmap' = tmap
          /\ \/ Failed
             \/ pc' = "wipe" /\ answers' = answers + 1 /\ UNCHANGED <<goal, held, promised>>
       \/ Disturbed /\ Failed /\ UNCHANGED sector0
    /\ UNCHANGED <<settings, board, rtc, part, params>>

\* With the reset flag all configuration sectors are erased before the restart.
Wipe ==
    /\ pc = "wipe"
    /\ \/ Calm /\ params' = Erased
       \/ Disturbed /\ UNCHANGED params
    /\ Lost
    /\ UNCHANGED <<board, rtc, part, sector0, history>>

-----------------------------------------------------------------------------
(* Restarts *)

\* AT+RST, or a crash of the firmware.
Restart ==
    /\ pc = "shell"
    /\ Lost
    /\ UNCHANGED <<board, rtc, part, params, sector0, history, cut, trouble>>

\* Power goes at any moment, and the RTC memory with it; a host that waits
\* learns of it from the start-up message.
PowerCut ==
    /\ \/ pc = "write" /\ Interrupted /\ params' \in Prefixes(held)
       \/ pc # "write" /\ Disturbed /\ UNCHANGED params
    /\ Lost
    /\ answers' = 1
    /\ request' = None /\ counter' = 0
    /\ UNCHANGED <<board, part, sector0, promised>>

-----------------------------------------------------------------------------
(* The bootloader.  It takes no firmware for another map than that in its own *)
(* header, and the loops look at every partition the map has.                 *)

Found == {n \in Parts : part[n] \in Images}
Known == {n \in Found : params.md5[n] = part[n]}

Lowest(n, set) == n \in set /\ \A m \in set : n <= m

\* What goes wrong during a boot: the firmware asked for cannot be read, the
\* default one cannot on both tries, and which ones the loop cannot read.
Errors == [requested : BOOLEAN, configured : BOOLEAN, loop : SUBSET Parts]
NoErrors == [requested |-> FALSE, configured |-> FALSE, loop |-> {}]

\* The boot counter: one more on each boot, four bits wide, and cleared only by
\* power: the firmware does not touch it.
NextCount == (counter + 1) % (CounterMax + 1)

\* A request is cleared when it is tried, and an odd one on a map of whole
\* megabytes is not.
RequestTried == request # None /\ (flashMap > 4 => request % 2 = 0)

\* The boot parameters with the firmwares of `new' registered in them.
Registering(new, default) ==
    [boot_part |-> default,
     md5  |-> [n \in Parts |-> IF n \in new THEN part[n] ELSE params.md5[n]],
     type |-> [n \in Parts |-> IF n \in new THEN flashMap ELSE params.type[n]]]

\* The default after the loop has found `seen': the first firmware registered,
\* unless one that was registered, type and all, came before it.
LoopDefault(seen, default) ==
    LET new == seen \ Known IN
    IF new = {} \/ \E n \in seen : Lowest(n, seen) /\ n \in Known /\ params.type[n] # NoType
    THEN default = params.boot_part ELSE Lowest(default, new)

exit_ok(n) == pc' = "shell" /\ current' = n

\* The watchdog ends the blinking and the bootloader runs again.
exit_err == pc' = "off" /\ UNCHANGED current

\* The loop over all partitions registers every firmware it can read and starts
\* the lowest.
boot_1st(seen) ==
    /\ counter' = 1
    /\ \E default \in Parts \cup {None} :
          LoopDefault(seen, default) /\ params' = Registering(seen \ Known, default)
    /\ \/ \E first \in seen : Lowest(first, seen) /\ exit_ok(first)
       \/ seen = {} /\ exit_err

\* Any firmware but the default one.
OtherFirmware(seen) ==
    /\ counter' = NextCount
    /\ \/ \E n \in seen : Lowest(n, seen) /\ exit_ok(n)
       \/ seen = {} /\ exit_err
    /\ UNCHANGED params

\* The default firmware, unless the button is held or the counter has reached
\* its maximum.  The loop that comes after two failed tries may leave another
\* default than the one an upgrade promised.
BootDefault(e, pressed) ==
    LET d == params.boot_part IN
    IF pressed \/ NextCount >= CounterMax
    THEN OtherFirmware((Known \ {d}) \ e.loop) /\ UNCHANGED promised
    ELSE IF d \in Known /\ ~e.configured
    THEN exit_ok(d) /\ counter' = NextCount /\ UNCHANGED <<params, promised>>
    ELSE boot_1st(Found \ e.loop) /\ promised' = IF e.configured THEN None ELSE promised

\* bootloader_task.  While the boot parameters are blank the request is not
\* looked at.
Boot(e, pressed) ==
    /\ pc = "off" /\ loader # Bad /\ lmap = flashMap
    /\ IF e = NoErrors /\ ~pressed THEN Calm ELSE Disturbed
    /\ IF params.boot_part = None
       THEN boot_1st(Found \ e.loop) /\ UNCHANGED <<request, promised>>
       ELSE /\ request' = IF RequestTried THEN None ELSE request
            /\ IF RequestTried /\ request \in Known /\ ~e.requested
               THEN exit_ok(request) /\ counter' = NextCount /\ UNCHANGED <<params, promised>>
               ELSE BootDefault(e, pressed)
    /\ UNCHANGED <<settings, goal, held, flashMap, part, sector0, answers>>

\* The boot parameters cannot be read.
BootUnread ==
    /\ pc = "off" /\ loader # Bad /\ lmap = flashMap
    /\ Disturbed
    /\ counter' = NextCount /\ exit_err
    /\ UNCHANGED <<settings, goal, held, flashMap, request, part, params, sector0, history>>

\* Without errors the loop runs when there is no default one, or a bad one.
LoopReached ==
    \/ params.boot_part = None
    \/ /\ ~(RequestTried /\ request \in Known)
       /\ NextCount < CounterMax /\ params.boot_part \notin Known

\* Power goes while the loop writes the record with another firmware.
BootCut ==
    /\ pc = "off" /\ loader # Bad /\ lmap = flashMap
    /\ LoopReached
    /\ Interrupted
    /\ \E default \in Parts \cup {None}, last \in Found \ Known :
          /\ LoopDefault(Found, default)
          /\ params' \in Prefixes(Registering({n \in Found \ Known : n <= last}, default))
    /\ request' = None /\ counter' = 0
    /\ UNCHANGED <<settings, goal, held, board, part, sector0, pc, history>>

-----------------------------------------------------------------------------

\* A board as delivered: a firmware in some partitions, before its first boot.
Init ==
    /\ flashMap \in Maps
    /\ part \in [Parts -> Contents]
    /\ \A n \in Parts : flashMap > 4 /\ n % 2 = 1 => part[n] = Bad
    /\ \E n \in Parts : part[n] \in Images
    /\ params = Erased
    /\ loader \in Loaders /\ lmap = flashMap
    /\ forced = None /\ csum = None
    /\ kind = None /\ target = None /\ tmap = NoType /\ held = None
    /\ current = 0 /\ request = None /\ counter = 0
    /\ pc = "off" /\ answers = 1 /\ promised = None /\ cut = FALSE /\ trouble = 0

Command ==
    \/ \E n \in Parts : at_setupCmdFWupdate(n)
    \/ at_setupCmdFWGetMD5
    \/ \E n \in Requestable \cup {None} : at_setupCmdBoot(n)
    \/ \E t \in Types : Start(t)

DownloadEnds ==
    DownloadFailed \/ OtaUpdate_CallBack \/ OtaVerCheck_MD5_CallBack \/ OtaUpdateBoot_CallBack

Flash == EraseParams \/ WriteParams \/ EraseLoader \/ WriteLoader \/ Wipe

Bootloader ==
    \/ \E e \in Errors, pressed \in BOOLEAN : Boot(e, pressed)
    \/ BootUnread \/ BootCut

Next ==
    \/ Command
    \/ Download \/ DownloadEnds
    \/ Flash
    \/ Restart \/ PowerCut
    \/ Bootloader

Spec == Init /\ [][Next]_vars

-----------------------------------------------------------------------------
(* Properties *)

\* Every variable keeps its type.
TypeOK ==
    /\ forced \in Parts \cup {None}
    /\ csum \in Images \cup Loaders \cup {None}
    /\ kind \in Types \cup {None} /\ target \in Nat \cup {None} /\ tmap \in Maps \cup {NoType}
    /\ flashMap \in Maps /\ part \in [Parts -> Contents]
    /\ params \in Params
    /\ loader \in Loaders \cup {Bad} /\ lmap \in Maps \cup {NoType}
    /\ current \in Parts /\ request \in Parts \cup {None} /\ counter \in 0 .. CounterMax
    /\ pc \in {"off", "shell", "load", "erase", "write", "erase0", "write0", "wipe"}
    /\ answers \in 0 .. 1 /\ promised \in Parts \cup {None}
    /\ cut \in BOOLEAN /\ trouble \in 0 .. MaxTrouble

\* A command that downloads is answered once and not before its work is done,
\* through the start that is refused, four callbacks, and the restarts that
\* come with or after the answer: the host counts on one OK or ERROR.
AnsweredOnce ==
    answers = IF pc \in {"load", "erase", "write", "erase0", "write0"} THEN 0 ELSE 1

\* After the OK the partition is the default one, complete, and registered with
\* its sum and type, and stays so until the next such command: through power
\* cuts, AT+BOOT to another partition, restarts, the fifteenth boot and the
\* button (check_firmware registers the partition only after everything else
\* succeeded).  Only a boot that twice fails to read it may take another default.
OkMeansDefault ==
    promised # None =>
        /\ part[promised] \in Images
        /\ params.boot_part = promised
        /\ params.md5[promised] = part[promised]
        /\ params.type[promised] = flashMap

\* OK is given for a firmware that has the sum the host downloaded before, if it
\* did, and is not the running one ("the downloaded firmware will be checked
\* for match with the MD5 file if it was downloaded", at_lobo/README.md:267).
UpgradeVerified ==
    [][promised' # promised /\ promised' # None
           => /\ csum \in {None, part[promised']}
              /\ tmap = flashMap => promised' # current]_vars

\* After the OK the next boot starts the new firmware, unless the host asked for
\* another registered one or the boot itself is disturbed.  The firmware never
\* clears the boot counter, so the boot with which it reaches its maximum, the
\* fifteenth after power was applied, starts another firmware all the same.
UpdateTakesEffect ==
    [][pc = "off" /\ pc' = "shell" /\ promised # None /\ request \notin Known
       /\ trouble' = trouble /\ counter' < CounterMax
           => current' = promised]_vars

\* No download writes over the running firmware, as long as the boot parameters
\* have its type: with the type lost in a cut rewriting, partition 2 is taken
\* for one of a pair of whole megabytes ("cannot update the running firmware",
\* at_upgrade.c:816).
RunningUntouched ==
    [][part'[current] # part[current] => tmap # flashMap]_vars

\* Sector 0 holds a bootloader except between its erasing and its rewriting, as
\* long as nothing was ever disturbed ("The only reason for it to fail can be
\* power loss in the moment of Flash write", at_lobo/README.md:470).  Its header
\* names the board's map, unless a rewriting of the boot parameters was cut
\* short before: the map comes from the type of the running firmware.
SectorZeroSafe ==
    /\ loader \in Loaders \/ pc = "write0" \/ trouble > 0
    /\ lmap = flashMap \/ cut
====
