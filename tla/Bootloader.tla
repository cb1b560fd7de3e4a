---- MODULE Bootloader ----
(***************************************************************************)
(* The bootloader (bootloader/src/main.c, built with OTA support), the     *)
(* flash and RTC memory it shares with the firmware, and what the firmware *)
(* does to them between two boots (at_lobo/user/at_upgrade.c).             *)
(*                                                                         *)
(* The flash holds up to MaxParts firmware partitions and one sector of    *)
(* boot parameters: the default partition and, per partition, the MD5 of   *)
(* the firmware registered in it.  The sector is rewritten by erasing it   *)
(* first, and power can go at any moment.  The bootloader copies a         *)
(* firmware's sections into RAM while it sums them up, before it knows     *)
(* whether the firmware is any good.                                       *)
(*                                                                         *)
(* A firmware is a member of Images, or of Foreign if it is built for      *)
(* another flash map than the board's, and is its own MD5.  Blank stands   *)
(* for every content without the right headers, Torn for every content     *)
(* with good headers and a wrong checksum.                                 *)
(***************************************************************************)
EXTENDS Naturals

CONSTANTS
    Images,       \* complete firmwares for the flash map of the board
    Foreign,      \* complete firmwares for other flash maps
    Blank, Torn,  \* the other contents of a partition
    Maps,         \* flash maps the board may be made with
    Requestable,  \* partition numbers a user asks for
    CounterMax,   \* largest value of the 4-bit boot counter, 15
    MaxTrouble    \* bound on SPI errors, button presses, power cuts and resets

MaxParts == 8                \* MAX_APP_PART
Parts == 0 .. MaxParts - 1
NoPart == MaxParts           \* any boot_part outside [BOOT_FW_MAGIC, BOOT_FW_MAGIC + 8)
NoMap == 255

Complete == Images \cup Foreign

ASSUME ImagesAssumption ==
    Blank \notin Complete /\ Torn \notin Complete /\ Blank # Torn /\ Images \cap Foreign = {}
ASSUME BoundsAssumption ==
    /\ Maps \subseteq 2 .. 8 /\ Maps # {} /\ Requestable \subseteq Parts
    /\ CounterMax \in Nat \ {0} /\ MaxTrouble \in Nat

VARIABLES
    \* the flash
    part,       \* content of each partition
    params,     \* the boot parameters sector
    flashMap,   \* flash map in the header of sector 0
    \* RTC memory
    request,    \* slot 0: partition the application asks for, and bit 3
    current,    \* slot 1: the booted partition
    counter,    \* slot 3: boot counter, 0 when the slot holds none
    \* RAM
    ram,        \* the firmware whose sections are in RAM
    info,       \* boot_info as read and modified by whoever runs
    bmap,       \* boot_flash_map
    scan,       \* the partition the loops look at
    found,      \* app_n of the first loadable partition found by boot_1st
    mapSet,     \* map # 0xFF in boot_1st
    saver,      \* who is rewriting the boot parameters
    pc,         \* where the processor is
    how,        \* by which way the running firmware was selected
    wish,       \* last AT+BOOT accepted since the firmware started
    trouble     \* disturbances so far

flashVars == <<part, params, flashMap>>
rtcVars == <<request, current, counter>>
localVars == <<info, bmap, scan, found, mapSet, saver>>
vars == <<part, params, flashMap, request, current, counter, ram, info, bmap, scan, found,
          mapSet, saver, pc, how, wish, trouble>>

Contents == Complete \cup {Blank, Torn}
BootInfo == [boot_part : Parts \cup {NoPart}, md5 : [Parts -> Complete \cup {Blank}]]
Erased == [boot_part |-> NoPart, md5 |-> [n \in Parts |-> Blank]]
NoRequest == [part |-> NoPart, permanent |-> FALSE]
Selection == [part : Parts \cup {NoPart}, permanent : BOOLEAN]

Stages == {"reset", "requested", "configured", "again", "other", "scan", "erase", "write",
           "blink", "app"}
Ways == {"none", "requested", "configured", "other", "first", "fallback"}

TypeOK ==
    /\ part \in [Parts -> Contents] /\ params \in BootInfo /\ flashMap \in Maps
    /\ request \in Selection /\ current \in Parts \cup {NoPart} /\ counter \in 0 .. CounterMax
    /\ ram \in Contents /\ info \in BootInfo /\ bmap \in Maps \cup {NoMap}
    /\ scan \in Nat /\ found \in Parts \cup {NoPart} /\ mapSet \in BOOLEAN
    /\ saver \in {"none", "scan", "permanent", "app"}
    /\ pc \in Stages /\ how \in Ways
    /\ wish \in Selection /\ trouble \in 0 .. MaxTrouble

-----------------------------------------------------------------------------
(* Disturbances. *)

Calm == trouble' = trouble

Disturbed == trouble < MaxTrouble /\ trouble' = trouble + 1

-----------------------------------------------------------------------------
(* Checking and loading a partition. *)

\* The partitions the loops over all partitions look at.
InRange(n, m) ==
    /\ n < MaxParts
    /\ m = 2 => n <= 1
    /\ m \in {3, 5} => n <= 3

Step(m) == IF m > 4 THEN 2 ELSE 1

Usable(m) == {n \in Parts : InRange(n, m) /\ (m > 4 => n % 2 = 0)}

\* A bad header, or one that names another flash map than that of sector 0.
Refused(n) == part[n] = Blank \/ (part[n] \in Foreign /\ bmap # NoMap)

\* Headers and checksum are good.
Acceptable(n) == part[n] \in Complete /\ ~Refused(n)

\* The sections are copied to RAM while they are read, whatever the checksum
\* will turn out to be; a bad header stops before the first one.
Loaded(n) == IF Refused(n) THEN ram ELSE part[n]

\* Faulty variant of check_load_binary: good headers are enough.
check_load_binary_HeadersOnly(n, ok) ==
    /\ Calm
    /\ ok = ~Refused(n)
    /\ ram' = Loaded(n)

\* check_load_binary with save = 0: ok tells whether it returns an entry point.
\* A read error can come at any moment.
check_load_binary(n, ok) ==
    \/ /\ Calm
       /\ ok = (Acceptable(n) /\ part[n] = info.md5[n])
       /\ ram' = Loaded(n)
    \/ /\ Disturbed
       /\ ok = FALSE
       /\ ram' \in IF Refused(n) THEN {ram} ELSE {ram, Torn, part[n]}

\* exit_ok: the booted partition goes to the RTC memory, its firmware runs.  The
\* locals are gone.
exit_ok(n, way) ==
    /\ pc' = "app" /\ how' = way
    /\ current' = n
    /\ wish' = NoRequest
    /\ info' = Erased /\ bmap' = NoMap /\ scan' = 0 /\ found' = NoPart /\ mapSet' = FALSE
    /\ saver' = "none"

\* boot_1st: start looking at all partitions.
boot_1st(way) ==
    /\ pc' = "scan" /\ how' = way
    /\ scan' = 0 /\ found' = NoPart /\ mapSet' = FALSE
    /\ counter' = 1

\* exit_err
exit_err ==
    /\ pc' = "blink" /\ how' = "none"
    /\ info' = Erased /\ bmap' = NoMap /\ scan' = 0 /\ found' = NoPart /\ mapSet' = FALSE
    /\ saver' = "none"

-----------------------------------------------------------------------------
(* bootloader_task, one action for each firmware it looks at. *)

\* Faulty variant of NextCount: the boot counter stays at its maximum.
NextCount_Saturating == IF counter = CounterMax THEN counter ELSE counter + 1

\* Faulty variant of NextCount: the boot counter is not kept to four bits.
NextCount_Wide == counter + 1

\* The boot counter: one more on each boot, 1 after a power-up.
NextCount == (counter + 1) % (CounterMax + 1)

\* Faulty variant of Start: the counter is looked at before the request.
Start_CounterFirst ==
    /\ pc = "reset"
    /\ bmap' = flashMap /\ Calm
    /\ info' = params
    /\ IF params.boot_part = NoPart
       THEN boot_1st("first")
       ELSE /\ pc' = IF request # NoRequest /\ NextCount < CounterMax THEN "requested" ELSE "configured"
            /\ how' = "none"
            /\ counter' = NextCount
            /\ UNCHANGED <<scan, found, mapSet>>
    /\ UNCHANGED <<flashVars, request, current, ram, saver, wish>>

\* Up to the choice of the firmware to look at first.  Without the header of
\* sector 0 the map stays 0xFF; without boot parameters the boot is given up.
Start ==
    /\ pc = "reset"
    /\ \/ bmap' = flashMap /\ Calm
       \/ bmap' = NoMap /\ Disturbed
    /\ info' = params
    /\ IF params.boot_part = NoPart
       THEN boot_1st("first")
       ELSE /\ pc' = IF request # NoRequest THEN "requested" ELSE "configured"
            /\ how' = "none"
            /\ counter' = NextCount
            /\ UNCHANGED <<scan, found, mapSet>>
    /\ UNCHANGED <<flashVars, request, current, ram, saver, wish>>

NoParameters ==
    /\ pc = "reset"
    /\ Disturbed
    /\ counter' = NextCount
    /\ exit_err
    /\ UNCHANGED <<flashVars, request, current, ram, wish>>

\* The firmware the application asked for.  The request is consumed when it is
\* tried; one that is not allowed stays.
Requested ==
    /\ pc = "requested"
    /\ LET n == request.part IN
       IF bmap > 4 /\ n % 2 = 1
       THEN pc' = "configured" /\ UNCHANGED <<request, ram, trouble, info, saver, current, how,
                                              wish, bmap, scan, found, mapSet>>
       ELSE /\ request' = NoRequest
            /\ \E ok \in BOOLEAN :
                  /\ check_load_binary(n, ok)
                  /\ IF ~ok
                     THEN pc' = "configured" /\ UNCHANGED <<localVars, current, how, wish>>
                     ELSE IF ~request.permanent THEN exit_ok(n, "requested")
                     ELSE /\ info' = [info EXCEPT !.boot_part = n]
                          /\ pc' = "erase" /\ saver' = "permanent"
                          /\ UNCHANGED <<current, how, wish, bmap, scan, found, mapSet>>
    /\ UNCHANGED <<flashVars, counter>>

\* The default firmware, unless the button is held or the counter has reached
\* its maximum.
Configured ==
    /\ pc = "configured"
    /\ \/ /\ \/ counter >= CounterMax /\ Calm
             \/ Disturbed     \* the button is held
          /\ pc' = "other" /\ scan' = 0
          /\ UNCHANGED <<ram, info, bmap, found, mapSet, saver, current, how, wish>>
       \/ /\ counter < CounterMax
          /\ \E ok \in BOOLEAN :
                /\ check_load_binary(info.boot_part, ok)
                /\ IF ok THEN exit_ok(info.boot_part, "configured")
                   ELSE pc' = "again" /\ UNCHANGED <<localVars, current, how, wish>>
    /\ UNCHANGED <<flashVars, request, counter>>

\* The second try, then every partition.
ConfiguredAgain ==
    /\ pc = "again"
    /\ \E ok \in BOOLEAN :
          /\ check_load_binary(info.boot_part, ok)
          /\ IF ok THEN exit_ok(info.boot_part, "configured") /\ UNCHANGED counter
             ELSE boot_1st("fallback") /\ UNCHANGED <<info, bmap, saver, current, wish>>
    /\ UNCHANGED <<flashVars, request>>

\* Any firmware but the default one.
OtherFirmware ==
    /\ pc = "other"
    /\ IF ~InRange(scan, bmap)
       THEN exit_err /\ UNCHANGED <<ram, trouble, current, wish>>
       ELSE IF scan = info.boot_part
       THEN scan' = scan + Step(bmap)
            /\ UNCHANGED <<pc, how, ram, trouble, current, wish, info, bmap, found, mapSet, saver>>
       ELSE \E ok \in BOOLEAN :
               /\ check_load_binary(scan, ok)
               /\ IF ok THEN exit_ok(scan, "other")
                  ELSE /\ scan' = scan + Step(bmap)
                       /\ UNCHANGED <<pc, how, current, wish, info, bmap, found, mapSet, saver>>
    /\ UNCHANGED <<flashVars, request, counter>>

\* Partition `scan' is loadable (or not): the first one that is will be started.
\* Then the map is read from its type, which a cut rewriting may have lost.
Took(types) ==
    IF found = NoPart THEN found' = scan /\ mapSet' \in types ELSE UNCHANGED <<found, mapSet>>
Passed == scan' = scan + Step(bmap) /\ pc' = "scan"

\* Faulty variant of Registered: every firmware found becomes the default.
Registered_LastWins(b, n) ==
    [boot_part |-> n, md5 |-> [b.md5 EXCEPT ![n] = part[n]]]

\* The boot parameters with the firmware of partition n registered in them.
Registered(b, n) ==
    [boot_part |-> IF mapSet THEN b.boot_part ELSE n, md5 |-> [b.md5 EXCEPT ![n] = part[n]]]

\* One round of the boot_1st loop: check_load_binary with save = 1 accepts a
\* firmware whose MD5 it does not know and registers it.  The loop goes on to
\* the last partition.
FirstFirmware ==
    /\ pc = "scan"
    /\ IF ~InRange(scan, bmap)
       THEN /\ IF found = NoPart THEN exit_err /\ UNCHANGED <<current, wish>>
               ELSE exit_ok(found, how)
            /\ UNCHANGED <<ram, trouble>>
       ELSE \/ /\ Disturbed
               /\ ram' \in IF Refused(scan) THEN {ram} ELSE {ram, Torn, part[scan]}
               /\ Passed
               /\ UNCHANGED <<how, info, bmap, found, mapSet, saver, current, wish>>
            \/ /\ Calm
               /\ ram' = Loaded(scan)
               /\ IF ~Acceptable(scan)
                  THEN Passed /\ UNCHANGED <<info, found, mapSet, saver>>
                  ELSE IF part[scan] = info.md5[scan]
                  THEN /\ Passed
                       /\ Took(IF trouble = 0 THEN {TRUE} ELSE BOOLEAN)
                       /\ UNCHANGED <<info, saver>>
                  ELSE /\ info' = Registered(params, scan)
                       /\ mapSet' = TRUE
                       /\ pc' = "erase" /\ saver' = "scan"
                       /\ UNCHANGED <<scan, found>>
               /\ UNCHANGED <<how, bmap, current, wish>>
    /\ UNCHANGED <<flashVars, request, counter>>

-----------------------------------------------------------------------------
(* Rewriting the boot parameters: in check_load_binary, after a permanent    *)
(* request, and in the firmware's check_firmware.                            *)

\* The caller goes on without having saved anything.
NotSaved ==
    /\ saver' = "none"
    /\ \/ saver = "scan" /\ Passed /\ UNCHANGED <<info, found, mapSet, bmap, current, how, wish>>
       \/ saver = "app" /\ pc' = "app" /\ info' = Erased
          /\ UNCHANGED <<scan, found, mapSet, bmap, current, how, wish>>

Erase ==
    /\ pc = "erase"
    /\ \/ /\ Calm
          /\ params' = Erased
          /\ pc' = "write"
          /\ UNCHANGED <<localVars, current, how, wish>>
       \/ /\ Disturbed
          /\ saver # "permanent"
          /\ params' = params
          /\ NotSaved
       \/ /\ Disturbed
          /\ saver = "permanent"     \* its result is not looked at
          /\ params' = params
          /\ pc' = "write"
          /\ UNCHANGED <<localVars, current, how, wish>>
    /\ UNCHANGED <<part, flashMap, request, counter, ram>>

\* A sector that could not be erased keeps the zero bits it had.
Written(b) ==
    IF params.boot_part = NoPart THEN {b}
    ELSE {[b EXCEPT !.boot_part = n] : n \in {k \in Parts : k <= b.boot_part /\ k <= params.boot_part}}

\* What the sector holds when the write of b stops early: its words are written
\* in the order of the record.
Partly(b) ==
    {params} \cup
    {[boot_part |-> w.boot_part,
      md5 |-> [n \in Parts |-> IF n < k THEN w.md5[n] ELSE params.md5[n]]] :
        w \in Written(b), k \in 0 .. MaxParts}

Write ==
    /\ pc = "write"
    /\ \/ /\ Calm
          /\ params' \in Written(info)
          /\ \/ saver = "scan" /\ saver' = "none" /\ Passed /\ Took({TRUE})
                /\ UNCHANGED <<info, bmap, current, how, wish>>
             \/ saver = "app" /\ saver' = "none" /\ pc' = "app" /\ info' = Erased
                /\ UNCHANGED <<scan, found, mapSet, bmap, current, how, wish>>
             \/ saver = "permanent" /\ exit_ok(info.boot_part, "requested")
       \/ /\ Disturbed
          /\ params' \in Partly(info)
          /\ \/ saver # "permanent" /\ NotSaved
             \/ saver = "permanent" /\ exit_ok(info.boot_part, "requested")
    /\ UNCHANGED <<part, flashMap, request, counter, ram>>

-----------------------------------------------------------------------------
(* The firmware. *)

\* AT+UPDATEFIRMWARE=host,reset,n: the partitions it accepts.
Selectable ==
    {n \in Parts \ {current} :
        /\ flashMap = 2 => n <= 1
        /\ flashMap > 4 => flashMap % 2 = 0
        /\ flashMap = 6 => n <= 6}

\* update_setparams: the partition an upgrade goes to.  Whether firmwares take
\* two slots is read from the boot parameters, where the flash map of a
\* partition reads as 15 once a rewriting was cut short.
Target(n) ==
    \E wide \in {flashMap > 4} \cup (IF trouble = 0 THEN {} ELSE {TRUE}) :
        \/ n = IF current # 0 THEN 0 ELSE IF wide THEN 2 ELSE 1
        \/ \E k \in Selectable : n = IF wide THEN 2 * k ELSE k

\* Faulty variant of check_firmware: the checksum is not compared.
check_firmware_NoChecksum(n, c) ==
    /\ c # Blank
    /\ info' = [boot_part |-> n, md5 |-> params.md5]
    /\ pc' = "erase" /\ saver' = "app"

\* check_firmware of partition n with the new content c: a complete firmware is
\* registered and becomes the default.  One for another flash map is refused
\* only if debug output is on.
check_firmware(n, c) ==
    /\ c \in Complete
    /\ info' = [boot_part |-> n, md5 |-> [params.md5 EXCEPT ![n] = c]]
    /\ pc' = "erase" /\ saver' = "app"

\* Faulty variant of Upgrade: the partition is not compared with the running one.
Upgrade_AnyPart(n) ==
    /\ pc = "app"
    /\ n \in Usable(flashMap)
    /\ part' \in {[part EXCEPT ![n] = c] : c \in Contents}
    /\ UNCHANGED <<params, flashMap, rtcVars, ram, localVars, pc, how, wish, trouble>>

\* An upgrade writes to its partition sector by sector, with any content, and it
\* may stop at any sector or go on to the check.  (Addresses behind the end of
\* the flash are refused by the SPI driver, and what a firmware for another
\* flash map does is not modelled.)
Upgrade(n) ==
    /\ pc = "app" /\ part[current] \in Images
    /\ n \in Usable(flashMap) /\ Target(n)
    /\ \E c \in Contents :
          /\ part' = [part EXCEPT ![n] = c]
          /\ check_firmware(n, c) \/ UNCHANGED <<info, pc, saver>>
    /\ UNCHANGED <<params, flashMap, rtcVars, ram, bmap, scan, found, mapSet, how, wish, trouble>>

\* set_rtc_nextboot: 8 and more, which a permanent selection amounts to, clears
\* the request.
set_rtc_nextboot(n) ==
    request' = IF n >= MaxParts THEN NoRequest ELSE [part |-> n, permanent |-> FALSE]

\* AT+BOOT=n[,rst[,8]]
at_setupCmdBoot(n, permanent) ==
    /\ pc = "app"
    /\ set_rtc_nextboot(IF permanent THEN n + 8 ELSE n)
    /\ wish' = [part |-> n, permanent |-> permanent]
    /\ UNCHANGED <<flashVars, current, counter, ram, localVars, pc, how, trouble>>

\* Another application that uses the RTC slot as the bootloader reads it.
UserApplication(n) ==
    /\ pc = "app"
    /\ request' = [part |-> n, permanent |-> TRUE]
    /\ wish' = NoRequest
    /\ UNCHANGED <<flashVars, current, counter, ram, localVars, pc, how, trouble>>

-----------------------------------------------------------------------------
(* Resets. *)

ResetState ==
    /\ pc' = "reset" /\ how' = "none"
    /\ info' = Erased /\ bmap' = NoMap /\ scan' = 0 /\ found' = NoPart /\ mapSet' = FALSE
    /\ saver' = "none"
    /\ params' \in IF pc = "write" THEN Partly(info) ELSE {params}
    /\ UNCHANGED <<part, flashMap>>

\* The firmware restarts or crashes; the watchdog ends the blinking, which
\* stops feeding it after a while.  The RTC memory is kept.
Restart ==
    /\ pc = "app"
    /\ ResetState
    /\ UNCHANGED <<rtcVars, ram, wish, trouble>>

Watchdog ==
    /\ pc = "blink"
    /\ ResetState
    /\ UNCHANGED <<rtcVars, ram, wish, trouble>>

\* The reset pin, at any moment.
ExternalReset ==
    /\ pc \notin {"reset", "app"}
    /\ Disturbed
    /\ ResetState
    /\ UNCHANGED <<rtcVars, ram, wish>>

\* Power is cut, at any moment: RTC memory and RAM are lost.
PowerCut ==
    /\ Disturbed
    /\ ResetState
    /\ request' = NoRequest /\ current' = NoPart /\ counter' = 0
    /\ ram' = Blank /\ wish' = NoRequest

-----------------------------------------------------------------------------

\* A new board: the boot parameters are blank and at least one partition has
\* been flashed with a complete firmware.
Init ==
    /\ flashMap \in Maps
    /\ part \in {[n \in Parts |-> IF n \in Usable(flashMap) THEN p[n] ELSE Blank] :
                     p \in [Usable(flashMap) -> Contents]}
    /\ \E n \in Parts : part[n] \in Images
    /\ params = Erased
    /\ request = NoRequest /\ current = NoPart /\ counter = 0
    /\ ram = Blank /\ info = Erased /\ bmap = NoMap /\ scan = 0 /\ found = NoPart
    /\ mapSet = FALSE /\ saver = "none"
    /\ pc = "reset" /\ how = "none" /\ wish = NoRequest /\ trouble = 0

bootloader_task ==
    \/ Start \/ NoParameters \/ Requested \/ Configured \/ ConfiguredAgain
    \/ OtherFirmware \/ FirstFirmware

Firmware ==
    \/ \E n \in Parts : Upgrade(n)
    \/ \E n \in Requestable :
          UserApplication(n) \/ \E permanent \in BOOLEAN : at_setupCmdBoot(n, permanent)
    \/ Restart

Next ==
    \/ bootloader_task \/ Erase \/ Write
    \/ Firmware
    \/ Watchdog \/ ExternalReset \/ PowerCut

Spec == Init /\ [][Next]_vars

\* The processor executes the bootloader, and the hardware watchdog resets it
\* when the blinking loop no longer feeds it.
Fairness == WF_vars(bootloader_task \/ Erase \/ Write) /\ WF_vars(Watchdog)

FairSpec == Spec /\ Fairness

-----------------------------------------------------------------------------
(* Properties. *)

\* A firmware is started only if its partition holds a complete firmware, and it
\* is the one that was copied to RAM, also when the way there led through checks
\* that failed.  (The loop over all partitions is another matter:
\* StartedIsInRam.)
StartedIsComplete ==
    pc = "app" => /\ part[current] \in Complete
                  /\ how \notin {"first", "fallback"} => ram = part[current]

\* The boot parameters or the firmware can be half written and the power cut at
\* any point of it: there is always a partition the bootloader can start from
\* ("cannot update the running firmware", at_setupCmdFWupdate).
BootableRemains == \E n \in Usable(flashMap) : part[n] \in Images

\* Whoever makes a partition the default one has checked the firmware in it to be
\* complete and made for the board, and the MD5 it will be checked against is
\* saved along with it, unless the write is cut short.  (When the loop over all
\* partitions registers a partition it writes the default back as it was, be it
\* good or not.)
DefaultIsChecked ==
    [][LET d == params'.boot_part IN
       d # params.boot_part /\ d # NoPart /\ trouble' = 0 /\ (saver = "scan" => d = scan)
           => part[d] \in Images /\ params'.md5[d] = part[d]]_vars

\* The first boot of a board starts the lowest complete firmware and makes it
\* the default, though it goes on to look at, and to register, the others.
FirstBootSelects ==
    [][pc = "scan" /\ pc' = "app" /\ how = "first" /\ trouble' = 0
           => /\ params.boot_part = current' /\ params.md5[current'] = part[current']
              /\ \A n \in Usable(flashMap) : part[n] \in Images => current' <= n]_vars

\* A partition accepted by AT+BOOT is the one started next, if its firmware is
\* the one registered for it, even when the counter has reached its maximum.  (A
\* request is not looked at while the boot parameters are blank, and the loop
\* over all partitions registers firmware after the request was refused.)
RequestHonoured ==
    [][pc # "app" /\ pc' = "app" /\ trouble' = 0 /\ how \notin {"first", "fallback"}
       /\ wish # NoRequest /\ ~wish.permanent
       /\ wish.part \in Usable(flashMap)
       /\ part[wish.part] \in Images /\ params.md5[wish.part] = part[wish.part]
           => current' = wish.part]_vars

\* However the device was reset and whatever was being written, once the
\* disturbances end it comes back to a running firmware by itself.
BootsAgain == pc # "app" ~> pc = "app"

\* The code in RAM is that of the firmware that is started.
StartedIsInRam == pc = "app" => ram = part[current]

====
