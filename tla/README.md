# Verification of the ESP8266 AT firmware with OTA update and bootloader

TLA+ models, TLC checks and TLAPS proofs for the AT firmware (`at_lobo/`) and its
bootloader (`bootloader/`). The update path comes first: it is what a board in the field
cannot do without, and it is where callbacks that arrive late, power that goes at any moment and
two programs that share a few words of memory meet.

## 1. The system

| Part | State it keeps | Operations | Interacts with |
| - | - | - | - |
| **OTA download client** `at_lobo/user/at-ota.c` | the heap record `upgrade` (connection, sector buffer, counters, flash address); globals `upgrade_flag`, `ota_timer`, `upgrade_content_len`, `upgrade_check_response`, `upgrade_type` | `at_ota_start`; callbacks: resolved, connected, data, disconnected, error, two timeouts; `at_ota_deinit` | espconn (callbacks), SPI flash (sectors of the target partition), command layer (verdict callback) |
| **Update commands** `at_lobo/user/at_upgrade.c` | `update_forced_fw`, `update_reset`, `boot_info`, the address and map of the target | `AT+UPDATEFIRMWARE`, `AT+UPDATECHECK`, `AT+UPDATEBOOT`, `AT+BOOT`, `check_firmware`, `update_setparams`, the verdict callbacks | OTA client, boot parameters sector, RTC slots, AT interpreter (special state) |
| **Bootloader** `bootloader/src/main.c` | boot parameters sector, RTC slots 0, 1 and 3, RAM | `bootloader_task`, `check_load_binary`, the loop over all partitions, registration of firmware | flash and RTC memory shared with the firmware, hardware watchdog |
| **Bootloader self-update** `at_upgrade.c` `OtaUpdateBoot_CallBack` | sector 0 | check MD5, patch map and mode, erase, write, optional wipe | OTA client |
| **TCP and TLS links** `at_lobo/user/at_extra_cmd.c` | 5 links, 3 servers, certificates | `AT+TCPSTART/SERVER/SEND/CLOSE/STATUS`, callbacks of espconn | espconn, host |
| **Host handshake** `at_extra_cmd.c` | none beyond the loop | the receive callback polls the UART for the host's confirmation | host, AT interpreter |
| **SDIO slave** `at_lobo/driver/sdio_slv.c` | two lists of buffers | interrupt handler and main loop move buffers | host; off by default |
| **Start-up** `at_lobo/user/user_main.c` | none | partition table, flash mapping from RTC slot 2, command table | all |
| vendored: espconn/lwIP, mbed TLS, json, SDK drivers and libraries; tools and scripts | | | |

What makes each correct, and what is hard about it:

* *OTA client.* Every accepted download ends, with one verdict; success means that all announced bytes
  are in the flash; nothing else is erased; no callback uses memory that is gone. Hard: espconn posts
  its events, so callbacks of the *previous* connection run during the next attempt, and most of
  them look only at the global `upgrade`.
* *Bootloader with the firmware.* There is always something to boot; what is started is complete;
  what the user asked for is what is started. Hard: the parameters sector is erased before it is
  written; sections are copied to RAM before their checksum is known; a request, a boot counter, a
  button and the default compete for the choice; two programs write the same records.
* *Update commands.* The running partition is never written; a firmware becomes the default only after it
  was checked; a command leaves no setting behind for the next one. Hard: static variables live
  from one command to the next, and partition numbers count half or whole megabytes by map.
* *Links.* Each event goes to its own link; a slot is released once; counts match. Hard: links are looked up by
  remote address; server callbacks get the server's block; library and program both free blocks.
* *Handshake.* Device and host never wait for each other beyond the timeout. *SDIO.* The lists keep
  every byte in order and no buffer is in both.

The hazards are listed one by one, with lines and the properties that cover them, in `PROJECT.json`.

## 2. Plan

Written, in this order:

1. `OtaService`, `OtaClient`, with `OtaClientProofs` and `OtaRefinementProofs`: the promise to the command
   layer, the client, its invariants, and that it keeps the promise.
2. `Bootloader`, with `BootloaderProofs` and `BootChoiceProofs`: the bootloader with the firmware's steps between two
   boots; that something stays bootable, and which partition is chosen.
3. `UpdateSystem`, `UpdateSystemProofs`: the commands with their static variables, the verdict callbacks, the
   bootloader's self-update, with power loss between any two flash operations. It composes the
   promise of `OtaService` with a one-step summary of `Bootloader`.
4. `ByteStream`, `SdioSlave`, with `SequenceFacts` and `SdioSlaveProofs`: the sending half of the SDIO driver
   implements a byte stream.
5. `TcpLinks`, `TcpLinksProofs`: the table of links with late callbacks, one server, and the library.

Left, in the order of what it would add:

* theorems: every safety and action property of a passing run has one. What is left is to widen their hypotheses
  (`PlainBoard`, `OddMaps`) where the code allows it, and that the one step `Boot` of `UpdateSystem`
  is what `Bootloader` does;
* models: several servers and secure links in `TcpLinks` (certificates are checked by mbed TLS before
  any callback of this code runs), the receiving half of the SDIO driver.

Considered and given up: a module for the flash layout (addresses and sizes by map are constants of the
partition table, without behaviour), and one for the host handshake (section 7).

## 3. The modules

### OtaService and OtaClient

`OtaService` is what the command layer may rely on: a job is idle or running; a start is accepted or
refused; while it runs bytes arrive, never beyond the announced size; it ends once, as ok with all
the announced bytes (for an upgrade) or as failed; a restart of the device forgets it.

`OtaClient` is `at-ota.c`. `upg` is the pointer `upgrade` (null, live, or *dangling*: freed but not
nulled), `uconn total idx faddr` its fields, `flag timer clen resp otype` the globals. `heap` holds the
espconn blocks that are allocated and `net` the stage of the connection that espconn keeps for a block: the two
are independent, as in the code, so a block can be freed while the library still uses it. `busy` is
the AT interpreter's special state, `verdict` what the callback reported. `stored` and `touched` are
what the attempt wrote and erased of its region.

Each callback is one action with everything it calls: `upgrade_recvcb(c)` contains the header checks,
`_write_data` (operator `write_data`: fill, flush, carry over, flash errors), the tail written at the end,
and `at_ota_deinit` with the verdict callback. A callback takes the block it is delivered for but uses
`upgrade` where the code does. `Crash` is the outcome of using null or freed memory or of running over
the sector buffer; only `Reboot` follows it. An access to a freed block may crash or find its old contents.

Abstractions: bytes are counts; the header is an announced length; 4096 is `Sector`. A lookup, a
connection or data may take any time; espconn_disconnect may fail. Left out: that the allocator hands
out a block that the library still lists (it would be the next consequence of what run `ota_freed` shows).

### Bootloader

The bootloader is sequential, its environment is not: power cuts, resets, SPI errors, the button, and the
firmware that runs between boots. `pc` is where the processor is, one stage for each firmware
that is looked at and for the erase and the write of the parameters, which are separate actions because power
can go between them. The firmware's steps are an upgrade of another partition (`Upgrade`, any content
may result, with `check_firmware` and the registration that follows), `AT+BOOT` (`at_setupCmdBoot`),
another application that uses the RTC slot, and a restart.

A partition holds a complete firmware for the board's flash map (`Images`), one for another map
(`Foreign`), something without good headers (`Blank`) or something with good headers and a wrong
checksum (`Torn`). `ram` is the firmware whose sections are in RAM, possibly a mixture (`Torn`).
`Partly` gives what the parameters sector can hold after a write that was cut short: the default
partition with the first so many of the MD5s; `Written` what a
write yields over a sector that was not erased (bits can only be cleared).

`check_firmware` of the firmware and `check_load_binary` of the bootloader are the two programs' views of
"a good firmware". They are modelled separately, from their own code.

### UpdateSystem

The whole path of an update as the host sees it. `forced` and `csum` are the statics `update_forced_fw` and
`update_md5` (`update_reset`, which each `AT+UPDATEFIRMWARE` may set either way and which is read once, when an
upgrade has succeeded, is a choice at that place); `kind`, `target`, `tmap` what `update_setparams` puts into `upgrade_type`,
`upgrade_flash_addr` (as a partition) and `upgrade_flash_map`; `held` the record in `boot_info` or the
bootloader image while it waits to be written. `part`, `params`, `loader` and `lmap` are the flash, `current`,
`request` and `counter` (the boot counter) the RTC slots. `pc` says where the firmware is: in the `shell`, loading, at each flash
operation, or `off`. `answers` counts the final results of the last command that downloads, `promised`
is the partition that was answered OK for.

Commands (`at_setupCmdFWupdate`, `at_setupCmdFWGetMD5`, `at_setupCmdBoot`, `Start`) are one action each;
the download is what `OtaService` promises (`Download`, `DownloadFailed`, or one of the three callbacks
for success); each erase and write of a sector is an action of its own, with an SPI error as an
alternative, because `PowerCut` may come between them. A write that is cut leaves a prefix of
the record (`Prefixes`): `part_type` is last in `boot_info_t`, so a record with a valid default and sums but
with erased types is possible, and `update_setparams` then reads the flash map as 15.

`Boot` is a run of the bootloader in one step: the request, the counter with its maximum, the button, the default
tried twice and the loop over all partitions (`boot_1st`), with read errors of any firmware (`Errors`). `BootUnread` is the
boot that cannot read the parameters, `BootCut` the power cut while the loop registers what it found. Module `Bootloader` has it
step by step; what only that has are erase and write errors in the loop and an unreadable header of sector 0. `AT+BOOT`
with the permanent bit is a request for none, as `set_rtc_nextboot` takes it (section 7).

### TcpLinks

`tcpconns` is the table of links, `tcpserver` one server, `conns` what espconn and the block of a
connection keep of it (stage, remote address, whether it is a server's child, whether the disconnect callback is
registered, whether data is unacknowledged). `locked` is the special state of the interpreter, `owed` the final
results `AT+TCPSTART` still owes. Each command and each callback is an action. A callback is given a block and
finds its link by the remote address (`_get_tcpn`), as the code does; the program frees blocks
(`Cleaned`), and the library frees or keeps what is left (`Left`). For a server's link espconn copies the
connection's callbacks into the server's block when it ends (`Departed`, `espconn_copy_partial`), and a later
connection inherits them: this is where a connection that was turned away gets a disconnect callback.

The code does not handle some circumstances, and goes on with a table that no longer says what the library has. They are
all in the model, and each *spoils* the address it happens on (`spoiled`):

* a connection to or from an address that another connection or link has (`Begun`);
* `espconn_connect` refusing, whose result `tcpconn_resolved` does not look at;
* closing a connection before it is established, as `AT+TCPSEND` does when it cannot send (`Disconnected`);
* a server's connection that ends by an error: its block is freed and the link stays (`BrokenChild`). The block may be handed out
  again, and the new connection, which then has two links, spoils its own address.

`spoiled` restricts nothing (its number is bounded in the runs, `MaxSpoiled`): the system goes on, events of spoiled addresses free other links' blocks (a block freed under a connection is
`dangling`), unlock the interpreter and are delivered to the wrong link as in the code; only the answers owed to it are no longer counted. The properties say that nothing of this
reaches an address that is not spoiled. `AT+TCPSERVER=0,0` with connections open (`DeleteServer`) disconnects them and frees the record,
while the library keeps its server (`orphaned`); a later event of that server, or one on a dangling block, uses what was freed.
That is `Fault`, where the model ends and nothing more is claimed: the step clears all variables. `mixed` remembers that a client's connection and a link of the server had one address,
which is when the close of one is counted for the other.

### ByteStream and SdioSlave

`ByteStream` is what the driver is used as: of every reply a first part is taken over, and the bytes taken over
reach the host once each and in order. `SdioSlave` is `sdio_load_data` (main program) against
`sdio_read_done_process` (interrupt). A list is a sequence of buffers plus its tail pointer; linking behind a
stale tail pointer loses buffers (`Linked`). `pc` is where the main program is; the interrupt comes
wherever it is not masked (`Masked`), in particular while a buffer is taken out and being filled. The
driver is off by default and the host's side of it is not in the repository: the host is the action `HostRead`.

## 4. The runs

Passing:

| Run | Question | Bounds and why they are enough |
| - | - | - |
| `ota_client` | Do memory, lock, accounting and verdict stay right under late callbacks, and is `OtaService` implemented? | three blocks and three starts: an attempt, its predecessor still closing and one before that; sector of 4, chunks up to 6, content below 10: chunks smaller than, equal to and larger than the free space, contents of zero to two sectors and a tail; blocks are symmetric. 271 207 states |
| `ota_quiet` | Does every accepted download end, with no help from the server? | two blocks; the host starts a download only when earlier connections are released (`QuietStart`). 29 239 states |
| `boot` | Is something always bootable, what is started complete, the choice as promised, and does the device come back? | two firmwares, one map of either scheme (2: two partitions at half megabytes; 5: two at whole megabytes), counter maximum 3 instead of 15, one disturbance at any point. 268 544 states |
| `boot_four` | Do the choice of partition and what is saved hold with more candidates? | four partitions at half (map 3) and at whole megabytes (map 7), one firmware, no disturbance: a damaged default among several good partitions needs at least three. 840 319 states |
| `update` | Is every command answered once, is OK kept and does it take effect, and do commands, restarts and one disturbance never lose the running firmware or sector 0? | three partitions on boards of half and of whole megabytes (maps 3 and 5), two firmwares (symmetric), one bootloader, one sum command and one check command (all of them act alike), `AT+BOOT` for partition 2 or none (on map 5 the only other one that can be asked for), counter maximum 2 instead of 15, so that the maximum and the wrap are reached, and one SPI error, read error at boot, held button or power cut anywhere: it is followed by as many further commands and boots as one likes. 1 913 004 states |
| `links` | Do links, blocks and counts correspond on one address whatever happens on the other, and is `AT+TCPSTART` answered? | two links, two blocks, two remote addresses of one host that differ in the port, a server for one connection, one address that may be spoiled: a connection of each kind, one that the server turns away, a stale link next to a good one, a block handed out again, an orphaned server. 241 007 states. Run by hand with the safety properties: three blocks (4 460 000 states); with all properties: three links, and two spoiled addresses |
| `sdio` | Are buffers and bytes kept while interrupt and main program relink the same lists? | three buffers of three bytes, replies up to ten: shorter than, equal to and longer than a buffer and than all of them; 14 bytes in all. The initial order of the buffers is fixed. 12 363 states |

Some cfgs turn deadlock checking off: with `MaxStarts` or `MaxBytes` used up and everything released, the client and
the driver stop, as a device that gets no more commands; `UpdateSystem` may really be left without anything to boot
(sector 0 lost to a power cut); in `TcpLinks` nothing follows a fault, and the interpreter stays
locked when a link closes between AT+TCPSEND and the acknowledgement of its data: with that the last connection, no
event is left to unlock it, in the model as in the code (section 7, Links).

Violations: each run checks one statement of the repository that the code does not keep. Findings in
`PROJECT.json` quote the statements.

| Run | Statement | What happens |
| - | - | - |
| `ota_stale_timer` | "timeout for the initial connect and each receive callback" | The close event of the previous connection disarms the timer of the new attempt; a silent server then keeps the AT interpreter locked for ever |
| `ota_freed` | "not connected so don't call disconnect ... call our own disconnect callback to do the cleanup" | The connect timeout frees the block of a connection attempt that espconn still keeps |
| `boot_ram` | "check and load the firmware and return the address of the entry point" | The loop over all partitions goes on after it selected one: the last sections loaded are not those of the firmware that is started |
| `boot_forced` | "cannot update the running firmware" | On map 6 the number is doubled after the comparison: forced 1 goes over running 2 |
| `links_maxconn` | "maximal number of the remote connection that can be accepted" | After the first close, later connections inherit the disconnect callback; one that is turned away takes one off the count when it closes, and the next is taken in beyond the maximum |

Runs `boot_ram` and `boot_forced` allow no disturbance (`MaxTrouble = 0`): the behaviours need none.
`boot` and `boot_four` have neither map 6 nor foreign firmware; the properties that hold there are claimed for such
boards only. `links_maxconn` has the constants of `links` with three blocks: the connection that was
turned away must still be closing while the next comes in; the run's property speaks of servers that were not deleted with connections open.

Properties that relate the choice of partition to a promise (`DefaultIsChecked`, `FirstBootSelects`,
`RequestHonoured`) are stated for histories without a disturbance (`trouble' = 0`): a read error or a held
button legitimately changes the choice. `UpdateTakesEffect` is about a boot that is not disturbed, whatever went before, with the
counter below its maximum and no request for another registered firmware: at the maximum the code starts another one (section 7). `BootableRemains`, `StartedIsComplete` and `BootsAgain` are stated for all.

Every property of a passing run has a mutant of the code's model that it catches: the definitions
called *Faulty variant* in the modules.

## 5. Fairness

*Client* (`Fairness`): the two timeouts (an armed os_timer fires unless it is disarmed), delivery of
posted close and error events (`espconn_Task` runs whenever it is posted to), the DNS result (the client gives up
after a bounded number of tries and calls back), and the restart after an exception. Nothing is assumed of the
server, of the network, or of espconn handing over data: connection and data callbacks are not fair.

*Bootloader*: the processor goes on (`bootloader_task`, `Erase`, `Write`), and the hardware watchdog ends the blinking
loop, which feeds it for a limited time only. Nothing is assumed of the firmware; disturbances are bounded, so
`BootsAgain` says that the device comes back once they end.

*Links* (`TcpLinks!Fairness`): a name is resolved or the resolver gives up, an attempt to connect succeeds or
ends after its last retransmission, and posted events are handled (`espconn_Task`). Nothing is assumed of
the host, of the peers or of data. `StartAnswered` is conditional: a command to an address that is spoiled may stay without an answer, and does when
`espconn_connect` refuses or the host sends before `CONNECT`; what it says is that this never happens to another one's command.

*SDIO*: the main program goes on, the interrupt is taken once it is pending and not masked, and the host fetches a
buffer that was announced. `SlowHost` is an assumption on speed, not on fairness: between leaving the loop for lack
of a buffer and the next test, the host does not read every queued buffer. It cuts away the one known way to wedge the driver, so `NeverWedged` is about
all others; without it the property fails (section 7).

`UpdateSystem` has no liveness property: that a download ends is `EveryAttemptEnds` of the client, that the device
comes back is `BootsAgain` of the bootloader.

## 6. The proofs

The theorems hold for every value of the constants allowed by the named assumptions of the modules (sizes
positive, null no block, contents distinct, partition numbers and flash maps natural).

*Client.* The invariant `IInv` is inductive. The wanted invariants are not by themselves: `TimerHasAttempt` needs the
lock (`LockedExactlyWhileUpdating`): a start whose allocations fail replaces the pointer, so no attempt, and
with it no armed timer, may exist then; `OwnConnAllocated` needs that a late callback for another block frees
only that block or ends the attempt with its own; `OkMeansStored` needs the accounting of the
sector buffer (`Accounted`): total = flash + buffer and less than announced, before every chunk. The proof of preservation
has a lemma per callback and, for the receive callback, lemmas about `write_data` and
`AfterChunk`. Theorems: `TypesPreserved`, `TimerSafe`, `ConnSafe`, `LockExact`, `BytesAccounted`, `OkIsStored`, `ErasesInBounds`, and
for steps `StaleCloseHarmless`: the only step that releases a closing connection is its own close event, which
leaves another block's attempt alone. `OtaRefinementProofs` shows with the same invariant that the client implements
`OtaService` (`Implements`): a callback that ends the attempt is `Abort` or `Complete`, a chunk in between `Progress`, everything
about connections, timer and buffer is hidden. `Accounted` gives the size of what is stored when the last chunk has come.

*Bootloader.* `BootableRemains` follows from: while the firmware runs, the partition it runs from is complete, and an upgrade
goes to another partition. The second is where the code's arithmetic enters, so the theorems assume
`PlainBoard`: flash maps 2, 5 and 7 (those whose forced partition number cannot hit the running one by
doubling), or also 3 and 4 without disturbances (with one it can, once a parameters write was cut short and the
map of the running partition reads as 15), and no firmware for another flash map. Run `boot_forced` shows the first half
of the assumption is needed. Both passing runs of `Bootloader` are instances.
The invariant also says, for each stage of the bootloader, what has been established about the partition it
looks at. Theorems: `TypesPreserved`, `AlwaysBootable`, `OnlyCompleteStarted`, each under `PlainBoard`.

*The choice of the bootloader* (`BootChoiceProofs`). The three action properties speak of histories without a disturbance, and so does
their invariant: `ChoiceInv` says that `CalmInv` holds as long as `trouble = 0`. It needs no assumption on the flash map.
Its parts are: the bootloader's copies of map and parameters are what the flash holds until it writes (`Copies`); what
waits to be written registers a complete firmware, and the sector it goes to is erased (`Registers`); parameters without a
default register nothing (`BlankIsErased`); in every round of the loop over all partitions, nothing complete is below the one
looked at, or below the one found (`LoopFound`, kept by `LowestMovesOn`, where the step of two on whole-megabyte maps enters);
a request waits in the RTC slot unless its partition cannot be started (`Requests`). The last is what `RequestHonoured`
turns on: a request that was tried and refused may stay behind as `wish`, and must then be of no use until the next firmware runs.
Theorems: `LowestOnFirstBoot` and `AskedIsStarted` without assumption, `CheckedDefault` for `Foreign = {}` (with a firmware
for another map it fails, section 7).

*Update system* (`UpdateSystemProofs`). `OkMeansDefault` is not inductive: the record is in RAM while the sector is erased, so
the invariant says of the waiting record what it later says of the flash (`Waiting`), and what has been checked
before the erase (`Checked`). `SectorZeroSafe` needs that a download works with the board's map: every
registered firmware has it and the running one is registered (`Registrations`), unless a rewriting was cut; the
invariant speaks of the record the firmware works with, in flash or in RAM (`Record`). Theorems: `TypesPreserved`,
`OneAnswer`, `OkStaysDefault`, `SectorZero` and `UpdateBoots` without restriction on the constants (the last is about boots
that are not disturbed, with the counter below its maximum: with an OK promised, such a boot finds the default partition registered and
complete, and neither the request nor the counter leads past it); `VerifiedUpgrades` and
`RunningKept` under `OddMaps` (no map 6, where the forced number is doubled after the comparison), from the
further invariant `ElsewhereInv`: a download with the board's map goes to another partition than the running one.
The number of disturbances is arbitrary, where TLC allows one.

*Links* (`TcpLinksProofs`), without any restriction. The callbacks speak of addresses, the properties of blocks, and on spoiled addresses
neither says anything of the other. The invariant is therefore one statement per address, `Good(p)`, for every address that is not
spoiled: it has at most one connection and one link, the link names that connection's block and no other link does, and stage, callbacks and owed
answer fit; with `Unresolved` (a link that does not know its address yet is on a block that is being resolved), `Unmixed` and `CountRight`
it is inductive. `FindsOwner`: a callback for a good address finds exactly the link on its block. `OthersGood`: a step whose changed links and blocks
are all at one address or at spoiled ones (`Concerns`) leaves every other address good. So each action has a lemma that shows
`Concerns` for its own address and, unless the step spoils it, that it stays good. `CountRight` needs `Unmixed`: only the close of a
connection of the server then releases one of its links, and that close counts; what
connections without a link do to the count can only lower it. Theorems: `TypesPreserved`, `LinksCorrespond`, `NeverOvercounted`, `OneAnswerOwed`.

*SDIO* (`SdioSlaveProofs`). The only assumption on the constants is that there are at least two buffers, of one byte or more (the code has
five). `TailsRight` is not inductive: when the buffer that is being filled was the last free one, the main program puts back
what is left of it behind a tail pointer that it did not set, and which still names that buffer only because nothing was
freed meanwhile (`LastTaken`). With it `Linked` appends, `Placed` says that the lists and the buffers in
hand have no buffer in common, and `BuffersConserved` counts them. The bytes are followed through
`Covers`: the unread buffers (those queued, without the one that was read, and the one being filled or else the first free one) hold the bytes from `Len(received) + 1` to
`accepted` in order (`Chained`); of the free buffers only the first may hold bytes, and it is not full (`Contents`). `ImplementsStream` is then the refinement of `ByteStream`, with the contents of the chain as
what waits: an interrupt that takes a read buffer off is a stutter, a host's read takes the first bytes off, and only filling a
buffer adds bytes at the end. `LoadedOrPending` is proved under `SlowHost`, with which `Busy` is inductive: leaving the
loop for lack of a buffer leaves at least two queued. Theorems: `TypesPreserved`, `NoBufferLost`, `TailsKept`,
`ReadInOrder`, `ImplementsStream` without restriction on the host, and `LoadedOrPending` with it.

`SequenceFacts` has what these proofs keep needing of sequences: what appending, taking the head off and concatenating do to
elements, order and repetitions, and what `FlattenSeq` is (`FlattenIs`). Its `Least` (a set of naturals that is not empty has a least
element, from the well-foundedness of `<`) stands in for induction: `FlattenSeq` is a recursive function, and a first place
where it differs from what it is said to compute leads to a contradiction.

*Model-checked only:* liveness (`EveryAttemptEnds`, `BootsAgain`, `StartAnswered`, `Delivered`), which is out of the
prover's reach, as is `ENABLED`. The library's induction theorems, which take an operator as parameter, are out of
its reach too, and so are `RECURSIVE` operators; the modules with theorems use neither.

## 7. Not modelled, and known divergences

Not modelled: text formats, debug output, URL and header syntax; SSL against plain TCP (the control flow is the same,
the names of the library calls differ) and certificates; the status queries; the `NO_OTA_SUPPORT` build of the
bootloader; start-up; vendored libraries beyond what the models see of espconn; scripts. Of the host handshake only the
outcome is modelled: the receive callback polls the UART and nothing else runs meanwhile, and the host's side of the
protocol is described by a document only, which disagrees with the code (below). Of the SDIO driver the receiving
half is left out: what a host makes of a status register that is changed from both sides depends on a driver that is not here.

The library frees the block of a server's link after the program has freed it (`tcpconn_cleanup`, then
`espconn_server_close`); the model takes the second free to do nothing. It also does not hand out a block that was freed under a connection the
library still has, and it ends at the first use of freed memory: what a device does after that is not claimed.

Two models share a state in the code without sharing it here: the special state of the AT interpreter is left by the callbacks of TCP links
too, so `LockedExactlyWhileUpdating` (`OtaClient`) is about the OTA client alone, with no link open.

The following came up while modelling and has no run of its own. Where a model has it, or a constant turns it on, it is named.

*Updates*
* `at-ota.c:595`: a DNS error leaves `upgrade_flag` at START; every later start is refused until a reset.
* `main.c:438` ("if get some error stay blinking the system led forever") and `main.c:655` ("call the blink LED forever") do not agree with the
  code: `blink_led` feeds the watchdog 1000 times only (`main.c:329-341`), then the watchdog resets the device and the bootloader
  runs again. `Bootloader` has the code's behaviour (`Watchdog`), and `BootsAgain` passes because of it; by the comments it would fail.
* The firmware never clears the boot counter (RTC slot 3), which only a power-up and the loop over all partitions set back. The fifteenth boot after
  power was applied (`main.c:491-497`, `585-607`) therefore starts another firmware than the default, also right after an upgrade was answered OK, or, when there is no
  other one, blinks until the watchdog's reset, after which the counter has wrapped. `OkMeansDefault` holds through it; `UpdateTakesEffect` excepts that boot.
* `at_upgrade.c:894`: the permanent `AT+BOOT` (number with bit 8) is out of range for the check and selects nothing,
  against `at_upgrade.c:862` and `at_lobo/README.md:532`.
* `at_upgrade.c:203`: the refusal of a firmware for another flash map is inside the debug output. The runs have
  no such firmware (`Foreign` empty); with `Foreign` not empty, `DefaultIsChecked` fails in `Bootloader`.
* `boot_info_t` has `part_type` last: after a cut rewriting the map of the running firmware reads as 15, a later upgrade
  doubles its target, and a new bootloader gets map 15 in its header (the disjuncts `cut` and `tmap = flashMap` in the
  properties of `UpdateSystem` are needed for this).
* `AT+UPDATEFIRMWARE` with -1 ("automatic") leaves an earlier forced partition in place, and port 0 the earlier port;
  the forced partition is also consumed by the commands that only check a version or a sum; the reset flag and the
  host are set even when the partition is refused.
* `startUpdate` prints that the update started after `at_ota_start` refused it; content of length zero gives OK for the
  firmware that is already there; `upgrade_remote_host` starts as a string literal and is written to (`at-ota.c:75`).

*Links*
All of these are in `TcpLinks`; the properties are about the other addresses.

* Of two links to one address the lower one gets the events of both (`_get_tcpn`): it is freed while its connection lives, and the other is never released.
* The result of `espconn_connect` is not looked at (`at_extra_cmd.c:473`): when it refuses, the command is never answered, and the interpreter stays
  locked until another link's event unlocks it. `AT+TCPSEND` before `CONNECT` closes a link whose close event nobody hears (`at_extra_cmd.c:1048`).
* A server registers no callback for errors (`espconn_tcp.c:1296-1351`, `261-302`): after a reset of one of its connections the link stays in use
  with a freed block, and the server's count stays too.
* `AT+TCPSERVER=n,0` with connections open (`at_extra_cmd.c:776-796`): `espconn_delete` refuses, block and record are freed, and the close callback
  dereferences the null record (`at_extra_cmd.c:342`). A second close of a server's link posts a second close event (not in the model).
* A link that is closed before its data is acknowledged leaves `AT+TCPSEND` without an answer; any event of any link
  ends the special state of another's command.
* `at_lobo/README.md:168-170` gives the handshake as y then r, the code (`at_extra_cmd.c:277` and `:293`) waits for r then y; `max_con` is
  documented as 0 to 4 and is 1 to 5.

*SDIO*
* With `SlowHost = FALSE`, `NeverWedged` fails: the host empties the list between the end of the loop and the test
  after it, an empty buffer is "loaded", `has_read` stays clear and nothing is ever sent again.
* `at_sdio_response` ignores how much was taken over: the rest of a reply longer than the free buffers is dropped
  (`ByteStream` promises a first part only). The status register is read, changed and written from both sides.

## 8. Running

    tlc -workers 2 -config OtaClient.cfg MCOtaClient
    tlc -workers 2 -config Bootloader.cfg MCBootloader
    tlc -workers 2 -config UpdateSystem.cfg MCUpdateSystem
    tlc -workers 2 -config TcpLinks.cfg MCTcpLinks
    tlc -workers 2 -config SdioSlave.cfg MCSdioSlave
    tlapm OtaClientProofs.tla
    tlapm OtaRefinementProofs.tla
    tlapm BootloaderProofs.tla
    tlapm BootChoiceProofs.tla
    tlapm UpdateSystemProofs.tla
    tlapm TcpLinksProofs.tla
    tlapm SequenceFacts.tla
    tlapm SdioSlaveProofs.tla
