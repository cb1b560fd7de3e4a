---- MODULE OtaClient ----
(***************************************************************************)
(* The HTTP download client of at_lobo/user/at-ota.c, with the part of the *)
(* espconn library and of the AT layer it relies on.                       *)
(*                                                                         *)
(* One download attempt at a time is described by the heap record `upgrade'*)
(* and by file-scope globals; the callbacks that advance it (DNS result,   *)
(* connected, data, disconnected, error, timer) run to completion one at a *)
(* time, but each is delivered some time after its cause, and most of them *)
(* ignore their argument and act on whatever attempt `upgrade' points to   *)
(* when they run.  The attempts of a session share the timer, the flag and *)
(* the length counter.                                                     *)
(*                                                                         *)
(* Dereferencing a null pointer, freeing a block twice or writing past the *)
(* sector buffer ends in an exception (action Fault's outcome); an access  *)
(* to a freed block either finds its old contents or ends the same way.    *)
(***************************************************************************)
EXTENDS Naturals, FiniteSets

CONSTANTS
    Conns,       \* heap blocks an espconn structure can be allocated in
    NoConn,      \* the null espconn pointer
    OtaTypes,    \* kinds of download requested: subset of AllOtaTypes
    Sector,      \* size of a flash sector and of the sector buffer (SECTOR_SIZE)
    MaxChunk,    \* most bytes one receive callback can carry (the TCP window)
    FwMax,       \* FW_MAXSIZE
    VerMax,      \* VER_MAXSIZE
    Md5Len,      \* length of an MD5 text, 32
    MaxStarts,   \* bound on the number of AT commands that start a download
    QuietStart   \* TRUE: the host waits for old connections to be released

AllOtaTypes == {"UPGRADE", "VERCHECK", "VERCHECKBOOT", "MD5", "MD5BOOT", "UPGBOOT"}

ASSUME ConnsAssumption == NoConn \notin Conns
ASSUME TypesAssumption == OtaTypes \subseteq AllOtaTypes /\ OtaTypes # {}
ASSUME SizesAssumption ==
    /\ Sector \in Nat \ {0} /\ MaxChunk \in Nat \ {0} /\ FwMax \in Nat \ {0}
    /\ VerMax \in Nat /\ Md5Len \in Nat /\ MaxStarts \in Nat
ASSUME QuietAssumption == QuietStart \in BOOLEAN

VARIABLES
    \* the upgrade_status record
    upg,        \* the pointer: "none" (null), "live", "dangling" (freed, not nulled)
    uconn,      \* upgrade->conn
    total,      \* upgrade->total_len
    idx,        \* upgrade->sector_idx
    faddr,      \* upgrade->flash_addr - upgrade_flash_addr
    \* globals
    flag,       \* upgrade_flag
    timer,      \* ota_timer: "off", or the handler it is armed for
    clen,       \* upgrade_content_len
    resp,       \* bytes in upgrade_check_response, 0 when it is NULL
    otype,      \* upgrade_type
    \* espconn: heap blocks and the library's view of them
    heap,       \* blocks that are allocated
    net,        \* stage of the connection the library keeps for a block
    hooked,     \* blocks whose receive and disconnect callbacks are registered
    lookups,    \* blocks a DNS lookup is pending for
    \* the AT layer
    busy,       \* the AT interpreter is in its special state
    verdict,    \* what the command that started the last download was told
    \* the target region of the flash, offsets from upgrade_flash_addr
    stored,     \* content bytes written by this attempt
    touched,    \* end of the last sector this attempt erased
    \* the device
    fault,      \* "none", or the exception that stopped the program
    starts      \* number of starts so far, bounded by MaxStarts

structVars == <<upg, uconn, total, idx, faddr>>
globalVars == <<flag, timer, clen, resp, otype>>
netVars    == <<heap, net, hooked, lookups>>
atVars     == <<busy, verdict>>
flashVars  == <<stored, touched>>
vars == <<upg, uconn, total, idx, faddr, flag, timer, clen, resp, otype, heap, net,
          hooked, lookups, busy, verdict, stored, touched, fault, starts>>

NetStages == {"idle", "syn", "open", "fin", "err"}
Faults == {"none", "null", "freed", "overflow"}

IsVersion(t) == t \in {"VERCHECK", "VERCHECKBOOT"}
IsMd5(t) == t \in {"MD5", "MD5BOOT"}

TypeOK ==
    /\ upg \in {"none", "live", "dangling"}
    /\ uconn \in Conns \cup {NoConn}
    /\ total \in Nat /\ idx \in Nat /\ faddr \in Nat
    /\ flag \in {"idle", "start", "finish"}
    /\ timer \in {"off", "deinit", "connect"}
    /\ clen \in Nat /\ resp \in Nat
    /\ otype \in OtaTypes
    /\ heap \subseteq Conns /\ hooked \subseteq Conns /\ lookups \subseteq Conns
    /\ net \in [Conns -> NetStages]
    /\ busy \in BOOLEAN
    /\ verdict \in {"none", "ok", "failed", "refused"}
    /\ stored \in Nat /\ touched \in Nat
    /\ fault \in Faults
    /\ starts \in Nat

-----------------------------------------------------------------------------
(* Outcomes of undefined behaviour. *)

\* The program touched memory it must not: the exception handler resets the
\* device, nothing else of the program runs.
Crash(why) ==
    /\ fault' = why
    /\ UNCHANGED <<structVars, globalVars, netVars, atVars, flashVars, starts>>

\* Whatever a callback does through the block of c may hit reused memory.
FreedBlock(c) == c \notin heap /\ Crash("freed")

Running == fault = "none"

-----------------------------------------------------------------------------
(* Parts of the handlers. *)

\* The bytes of the sector buffer that become upgrade_check_response, 0 for none.
ResponseLength(i) ==
    IF \/ IsVersion(otype) /\ i < VerMax
       \/ IsMd5(otype) /\ i = Md5Len
       \/ otype = "UPGBOOT" /\ i = clen'
    THEN i ELSE 0

\* Faulty variant of EndAttempt: the timer is not disarmed.
EndAttemptTimerLeft(finished, i) ==
    /\ upg' = "none" /\ uconn' = NoConn
    /\ total' = 0 /\ idx' = 0 /\ faddr' = 0
    /\ timer' = timer
    /\ flag' = IF finished THEN "finish" ELSE "idle"
    /\ resp' = 0
    /\ busy' = FALSE
    /\ verdict' = IF finished THEN "ok" ELSE "failed"

\* Faulty variant of EndAttempt: no callback, the special state is not left.
EndAttemptNoCallback(finished, i) ==
    /\ upg' = "none" /\ uconn' = NoConn
    /\ total' = 0 /\ idx' = 0 /\ faddr' = 0
    /\ timer' = "off"
    /\ flag' = IF finished THEN "finish" ELSE "idle"
    /\ resp' = 0
    /\ UNCHANGED atVars

\* at_ota_deinit up to the disconnect, then the user callback.  The version
\* callbacks free the response, the others leave it in the global; its
\* allocation may fail.
EndAttempt(finished, i) ==
    /\ upg' = "none" /\ uconn' = NoConn
    /\ total' = 0 /\ idx' = 0 /\ faddr' = 0
    /\ timer' = "off"
    /\ flag' = IF finished THEN "finish" ELSE "idle"
    /\ resp' \in IF finished /\ ~IsVersion(otype) THEN {0, ResponseLength(i)} ELSE {0}
    /\ busy' = FALSE
    /\ verdict' = IF finished THEN "ok" ELSE "failed"

\* espconn_disconnect: a connection the library knows and that is not closing
\* is closed, which posts the event that leads to the disconnect callback; the
\* close may fail for want of memory.  n is the state of the connections.
Disconnect(c, n) ==
    net' \in {n, [n EXCEPT ![c] = IF n[c] \in {"syn", "open"} THEN "fin" ELSE n[c]]}

\* at_ota_deinit called while upgrade->conn is set.
at_ota_deinit(finished, i, n) ==
    /\ EndAttempt(finished, i)
    /\ Disconnect(uconn, n)
    /\ UNCHANGED <<heap, hooked>>

\* Faulty variant of DropOwnConn: the attempt is left without its connection.
DropOwnConnOnly(n) ==
    /\ heap' = heap \ {uconn}
    /\ net' = n
    /\ timer' = "off"
    /\ UNCHANGED <<structVars, flag, resp, atVars, hooked>>

\* upgrade_disconcb(upgrade->conn): the program's own clean-up of the attempt's
\* connection.  It frees the block whatever the library still does with it.
DropOwnConn(n) ==
    /\ heap' = heap \ {uconn}
    /\ net' = n
    /\ EndAttempt(FALSE, idx)
    /\ UNCHANGED hooked

\* The sector buffer and the flash after a chunk: whether all is well, the fill of
\* the buffer, the flash offset, and what has been stored and erased.
Buffered(ok, i, address, written, erased) ==
    [ok |-> ok, idx |-> i, faddr |-> address, stored |-> written, touched |-> erased]

\* The buffer in the flash, and i bytes in the next one.
Flushed(i) == Buffered(TRUE, i, faddr + Sector, faddr + Sector, faddr + Sector)

\* Faulty variant of write_data: the bytes that did not fit are counted from the
\* wrong end.
write_data_Swapped(length) ==
    IF length < Sector - idx
    THEN {Buffered(TRUE, idx + length, faddr, stored, touched)}
    ELSE {Flushed((Sector - idx) - length)}

\* Faulty variant of write_data: the bytes that did not fit are dropped.
write_data_Dropping(length) ==
    IF length < Sector - idx
    THEN {Buffered(TRUE, idx + length, faddr, stored, touched)}
    ELSE {Flushed(0)}

\* _write_data: the outcomes of handing `length' bytes to the sector buffer.  A
\* full buffer goes to the flash when an upgrade is received and is ignored in
\* the other cases; the bytes that do not fit start the next buffer.  Either of
\* the erase and the write may fail.
write_data(length) ==
    IF length < Sector - idx
    THEN {Buffered(TRUE, idx + length, faddr, stored, touched)}
    ELSE IF length = 0 \/ otype # "UPGRADE"
    THEN {Buffered(TRUE, idx, faddr, stored, touched)}
    ELSE IF faddr > clen
    THEN {Buffered(FALSE, idx, faddr, stored, touched)}
    ELSE {Flushed(length - (Sector - idx)),
          Buffered(FALSE, idx, faddr, stored, touched),
          Buffered(FALSE, idx, faddr, stored, faddr + Sector)}

\* upgrade_resolved with an address: connect and arm the connect timeout.  The
\* result of espconn_connect is ignored; a block the library already lists is
\* refused by it.
ConnectTo(c, n) ==
    /\ net' \in {n, [n EXCEPT ![c] = IF n[c] = "idle" THEN "syn" ELSE n[c]]}
    /\ timer' = "connect"

-----------------------------------------------------------------------------
(* Commands. *)

\* at_ota_start, called by startUpdate and updateVerCheckMD5 with the upgrade
\* type just set.  The AT interpreter passes no command on in its special state.
StartRefused ==
    /\ verdict' = "refused"
    /\ UNCHANGED <<uconn, total, idx, faddr, timer, resp, heap, net, hooked, lookups,
                   busy, stored, touched>>

\* "Already started !"
AlreadyStarted == flag = "start" /\ StartRefused /\ UNCHANGED <<upg, flag, clen>>

\* One of the four allocations fails.  Only the failure of the first leaves the
\* pointer null; after the others it still holds the freed record.
NoRam == flag # "start" /\ StartRefused /\ upg' \in {"none", "dangling"} /\ UNCHANGED <<flag, clen>>

\* espconn_gethostbyname reports an error: all is freed, the flag stays.
DnsError ==
    /\ flag # "start"
    /\ upg' = "dangling" /\ flag' = "start" /\ clen' = 0
    /\ resp' = 0
    /\ verdict' = "refused"
    /\ stored' = 0 /\ touched' = 0
    /\ UNCHANGED <<uconn, total, idx, faddr, timer, heap, net, hooked, lookups, busy>>

\* The attempt begins, with the address at hand or after a lookup.  (That the
\* allocator hands out a block the library still lists is left out: see
\* NoConnectionOnFreedBlock.)
Started(c) ==
    /\ flag # "start"
    /\ c \notin heap /\ net[c] = "idle" /\ c \notin lookups
    /\ upg' = "live" /\ uconn' = c
    /\ total' = 0 /\ idx' = 0 /\ faddr' = 0
    /\ flag' = "start" /\ clen' = 0 /\ resp' = 0
    /\ heap' = heap \cup {c} /\ hooked' = hooked \ {c}
    /\ busy' = TRUE /\ verdict' = "none"
    /\ stored' = 0 /\ touched' = 0
    /\ \/ ConnectTo(c, net) /\ UNCHANGED lookups
       \/ lookups' = lookups \cup {c} /\ UNCHANGED <<net, timer>>

at_ota_start(t) ==
    /\ Running
    /\ ~busy
    /\ starts < MaxStarts
    /\ QuietStart => heap = {}
    /\ otype' = t
    /\ starts' = starts + 1
    /\ AlreadyStarted \/ NoRam \/ DnsError \/ \E c \in Conns : Started(c)
    /\ UNCHANGED fault

-----------------------------------------------------------------------------
(* Callbacks. *)

\* DNS result for the lookup started with block c.  The callback ignores the
\* block and works on upgrade->conn.
upgrade_resolved(c) ==
    /\ Running
    /\ c \in lookups
    /\ IF upg # "live" THEN Crash(IF upg = "none" THEN "null" ELSE "freed")
       ELSE /\ lookups' = lookups \ {c}
            /\ \/ DropOwnConn(net)
               \/ ConnectTo(uconn, net) /\ UNCHANGED <<structVars, flag, resp, heap, hooked, atVars>>
            /\ UNCHANGED <<clen, otype, flashVars, fault, starts>>

\* Faulty variant of upgrade_connect_cb: the timeout for the answer is not armed.
upgrade_connect_cb_NoTimer(c) ==
    /\ Running
    /\ net[c] = "syn" /\ upg = "live"
    /\ hooked' = hooked \cup {uconn}
    /\ net' = [net EXCEPT ![c] = "open"]
    /\ timer' = "off"
    /\ UNCHANGED <<structVars, flag, resp, atVars, heap, lookups, clen, otype, flashVars, fault, starts>>

\* The connection of block c is up.  The callbacks are registered on, and the
\* request is sent to, upgrade->conn.
upgrade_connect_cb(c) ==
    /\ Running
    /\ net[c] = "syn"
    /\ \/ FreedBlock(c)
       \/ upg # "live" /\ Crash(IF upg = "none" THEN "null" ELSE "freed")
       \/ /\ upg = "live"
          /\ hooked' = hooked \cup {uconn}
          /\ LET n == [net EXCEPT ![c] = "open"]
             IN \/ EndAttempt(FALSE, idx) /\ Disconnect(uconn, n)   \* no memory for the request
                \/ /\ timer' = "deinit" /\ net' = n
                   /\ UNCHANGED <<structVars, flag, resp, atVars>>
          /\ UNCHANGED <<heap, lookups, clen, otype, flashVars, fault, starts>>

\* The header of the answer: not acceptable, or announcing n bytes of content.
HeaderAccepted(n) ==
    /\ n < FwMax
    /\ IsVersion(otype) => n < VerMax
    /\ otype = "UPGBOOT" => n < Sector
    /\ IsMd5(otype) => n = Md5Len

\* Faulty variant of AfterChunk: more content than announced is not an error.
AfterChunkUnlimited(c, w, t) ==
    IF t = clen'
    THEN /\ at_ota_deinit(TRUE, w.idx, net)
         /\ stored' = w.faddr + w.idx
         /\ touched' = IF w.idx > 0 THEN w.faddr + Sector ELSE w.touched
    ELSE /\ stored' = w.stored /\ touched' = w.touched
         /\ total' = t /\ idx' = w.idx /\ faddr' = w.faddr
         /\ timer' = "deinit"
         /\ UNCHANGED <<upg, uconn, flag, resp, heap, net, hooked, atVars>>

\* Faulty variant of AfterChunk: done as soon as enough bytes came.
AfterChunkAtLeast(c, w, t) ==
    IF t >= clen'
    THEN /\ at_ota_deinit(TRUE, w.idx, net)
         /\ stored' = w.faddr + w.idx
         /\ touched' = IF w.idx > 0 THEN w.faddr + Sector ELSE w.touched
    ELSE /\ stored' = w.stored /\ touched' = w.touched
         /\ total' = t /\ idx' = w.idx /\ faddr' = w.faddr
         /\ timer' = "deinit"
         /\ UNCHANGED <<upg, uconn, flag, resp, heap, net, hooked, atVars>>

\* The end of upgrade_recvcb: finished, broken or waiting for the next chunk.
\* w is the sector buffer and the flash after the chunk, t the bytes received.  The
\* attempt's own block is in the state "read" only while its own data is handed over.
AfterChunk(c, w, t) ==
    IF t = clen'
    THEN LET tail == w.idx > 0 /\ otype = "UPGRADE" IN
         \/ /\ at_ota_deinit(TRUE, w.idx, net)
            /\ stored' = IF tail THEN w.faddr + w.idx ELSE w.stored
            /\ touched' = IF tail THEN w.faddr + Sector ELSE w.touched
         \/ /\ tail
            /\ at_ota_deinit(FALSE, w.idx, net)
            /\ stored' = w.stored
            /\ touched' \in {w.touched, w.faddr + Sector}
    ELSE /\ stored' = w.stored /\ touched' = w.touched
         /\ \/ /\ c # uconn \/ t > clen'
               /\ at_ota_deinit(FALSE, w.idx, net)
            \/ /\ c = uconn /\ t < clen'
               /\ total' = t /\ idx' = w.idx /\ faddr' = w.faddr
               /\ timer' = "deinit"
               /\ UNCHANGED <<upg, uconn, flag, resp, heap, net, hooked, atVars>>

Failed(w) ==
    /\ at_ota_deinit(FALSE, w.idx, net)
    /\ stored' = w.stored /\ touched' = w.touched

\* A chunk with `body' content bytes while the length is unknown: the content
\* goes to the sector buffer before the announced length n is read.
FirstChunk(c, n, body) ==
    \E w \in write_data(body) :
        IF w.idx > Sector THEN Crash("overflow")
        ELSE /\ clen' = IF w.ok THEN n ELSE clen
             /\ IF w.ok /\ HeaderAccepted(n) THEN AfterChunk(c, w, body) ELSE Failed(w)
             /\ UNCHANGED <<lookups, otype, fault, starts>>

BadHeader ==
    /\ at_ota_deinit(FALSE, idx, net)
    /\ UNCHANGED <<clen, lookups, otype, flashVars, fault, starts>>

NextChunk(c, length) ==
    \E w \in write_data(length) :
        IF w.idx > Sector THEN Crash("overflow")
        ELSE /\ clen' = clen
             /\ IF w.ok THEN AfterChunk(c, w, total + length) ELSE Failed(w)
             /\ UNCHANGED <<lookups, otype, fault, starts>>

\* Data on the connection of block c, handed to upgrade_recvcb.
upgrade_recvcb(c) ==
    /\ Running
    /\ net[c] = "open" /\ c \in hooked
    /\ \/ FreedBlock(c)
       \/ upg # "live" /\ Crash(IF upg = "none" THEN "null" ELSE "freed")
       \/ /\ upg = "live"
          /\ IF clen = 0
             THEN BadHeader \/ \E n \in 0 .. FwMax, body \in 0 .. MaxChunk : FirstChunk(c, n, body)
             ELSE \E length \in 1 .. MaxChunk : NextChunk(c, length)

\* Faulty variant of upgrade_disconcb: any close event ends the attempt.
upgrade_disconcb_AnyConn(c) ==
    /\ Running
    /\ net[c] = "fin" /\ c \in hooked /\ c \in heap
    /\ net' = [net EXCEPT ![c] = "idle"]
    /\ hooked' = hooked \ {c}
    /\ heap' = heap \ {c}
    /\ IF upg = "live" THEN EndAttempt(FALSE, idx)
       ELSE timer' = "off" /\ UNCHANGED <<structVars, flag, resp, atVars>>
    /\ UNCHANGED <<lookups, clen, otype, flashVars, fault, starts>>

\* The close event of block c is delivered to upgrade_disconcb, if it is
\* registered.  It disarms the timer, frees the block and ends the attempt only
\* if the block is the attempt's.
upgrade_disconcb(c) ==
    /\ Running
    /\ net[c] = "fin"
    /\ IF c \in hooked
       THEN \/ FreedBlock(c)
            \/ /\ c \in heap
               /\ net' = [net EXCEPT ![c] = "idle"]
               /\ hooked' = hooked \ {c}
               /\ heap' = heap \ {c}
               /\ IF upg = "live" /\ uconn = c
                  THEN EndAttempt(FALSE, idx)
                  ELSE timer' = "off" /\ UNCHANGED <<structVars, flag, resp, atVars>>
               /\ UNCHANGED <<lookups, clen, otype, flashVars, fault, starts>>
       ELSE /\ net' = [net EXCEPT ![c] = "idle"]
            /\ UNCHANGED <<structVars, globalVars, heap, hooked, lookups, atVars, flashVars,
                           fault, starts>>

\* The error event of block c is delivered: the attempt that is under way, if
\* there is one, is ended, whichever block it uses.
upgrade_recon_cb(c) ==
    /\ Running
    /\ net[c] = "err"
    /\ LET n == [net EXCEPT ![c] = "idle"] IN
       \/ FreedBlock(c)
       \/ upg = "dangling" /\ Crash("freed")
       \/ /\ upg = "live" /\ DropOwnConn(n)
          /\ UNCHANGED <<lookups, clen, otype, flashVars, fault, starts>>
       \/ /\ upg = "none" /\ net' = n
          /\ UNCHANGED <<structVars, globalVars, heap, hooked, lookups, atVars, flashVars,
                         fault, starts>>

\* The timer expires in at_ota_deinit: no answer, or no more data.
ReceiveTimeout ==
    /\ Running
    /\ timer = "deinit"
    /\ IF upg # "live" THEN Crash("null")
       ELSE /\ at_ota_deinit(FALSE, idx, net)
            /\ UNCHANGED <<lookups, clen, otype, flashVars, fault, starts>>

\* The timer expires while connecting.
connect_timeout_cb ==
    /\ Running
    /\ timer = "connect"
    /\ IF upg = "live"
       THEN DropOwnConn(net) /\ UNCHANGED <<lookups, clen, otype, flashVars, fault, starts>>
       ELSE IF upg = "dangling" THEN Crash("freed")
       ELSE /\ timer' = "off"
            /\ UNCHANGED <<structVars, flag, clen, resp, otype, netVars, atVars, flashVars,
                           fault, starts>>

-----------------------------------------------------------------------------
(* The network, through the espconn library. *)

\* The peer closes an established connection: the library closes its side and
\* posts the close event.
PeerClose(c) ==
    /\ Running
    /\ net[c] = "open"
    /\ \/ FreedBlock(c)
       \/ /\ net' = [net EXCEPT ![c] = "fin"]
          /\ UNCHANGED <<structVars, globalVars, heap, hooked, lookups, atVars, flashVars,
                         fault, starts>>

\* A connection attempt or a connection breaks: the error event is posted.
ConnError(c) ==
    /\ Running
    /\ net[c] \in {"syn", "open"}
    /\ \/ FreedBlock(c)
       \/ /\ net' = [net EXCEPT ![c] = "err"]
          /\ UNCHANGED <<structVars, globalVars, heap, hooked, lookups, atVars, flashVars,
                         fault, starts>>

-----------------------------------------------------------------------------
(* The device. *)

\* upgrade_type is OTA_TYPE_UPGRADE until a command sets it; the value is not
\* read before one does.
Init ==
    /\ upg = "none" /\ uconn = NoConn
    /\ total = 0 /\ idx = 0 /\ faddr = 0
    /\ flag = "idle" /\ timer = "off" /\ clen = 0 /\ resp = 0 /\ otype \in OtaTypes
    /\ heap = {} /\ net = [c \in Conns |-> "idle"] /\ hooked = {} /\ lookups = {}
    /\ busy = FALSE /\ verdict = "none"
    /\ stored = 0 /\ touched = 0
    /\ fault = "none" /\ starts = 0

\* Power is cut, or the exception handler or the watchdog restarts the device.
Reboot ==
    /\ upg' = "none" /\ uconn' = NoConn
    /\ total' = 0 /\ idx' = 0 /\ faddr' = 0
    /\ flag' = "idle" /\ timer' = "off" /\ clen' = 0 /\ resp' = 0
    /\ heap' = {} /\ net' = [c \in Conns |-> "idle"] /\ hooked' = {} /\ lookups' = {}
    /\ busy' = FALSE /\ verdict' = "none"
    /\ stored' = 0 /\ touched' = 0
    /\ fault' = "none"
    /\ UNCHANGED <<otype, starts>>

Callback(c) ==
    \/ upgrade_resolved(c)
    \/ upgrade_connect_cb(c)
    \/ upgrade_recvcb(c)
    \/ upgrade_disconcb(c)
    \/ upgrade_recon_cb(c)

Network(c) == PeerClose(c) \/ ConnError(c)

Next ==
    \/ \E t \in OtaTypes : at_ota_start(t)
    \/ \E c \in Conns : Callback(c) \/ Network(c)
    \/ ReceiveTimeout
    \/ connect_timeout_cb
    \/ Reboot

Spec == Init /\ [][Next]_vars

\* The system timer, the task that delivers posted events, the DNS client (it
\* gives up after a bounded number of retries) and the exception handler keep
\* working; the server, the network and the user owe nothing.
Fairness ==
    /\ WF_vars(ReceiveTimeout)
    /\ WF_vars(connect_timeout_cb)
    /\ \A c \in Conns :
          WF_vars(upgrade_resolved(c)) /\ WF_vars(upgrade_disconcb(c)) /\ WF_vars(upgrade_recon_cb(c))
    /\ WF_vars(~Running /\ Reboot)

FairSpec == Spec /\ Fairness

-----------------------------------------------------------------------------
(* Properties. *)

\* The timer is armed only for an attempt that exists: at_ota_deinit, which it
\* may be armed for, reads the record without looking whether there is one.
TimerHasAttempt == timer # "off" => upg = "live"

\* The attempt's own espconn block stays allocated for as long as the attempt
\* lasts, whichever late event of an earlier connection is delivered meanwhile.
OwnConnAllocated == upg = "live" => uconn \in heap

\* The AT interpreter is locked (special state) exactly while an attempt exists,
\* and then no other attempt can be started over it and no verdict has been
\* given yet: no path through the callbacks loses the verdict that unlocks it.
LockedExactlyWhileUpdating ==
    /\ busy <=> upg = "live"
    /\ busy => flag = "start" /\ verdict = "none"

\* How the progress of the attempt under way is accounted for: the bytes counted
\* are those in the flash and those in the sector buffer, and they are fewer than
\* announced (the attempt ends when they are not).  A download that is not an
\* upgrade leaves the flash alone (upgrade_recvcb, _write_data).
Accounted ==
    upg = "live" =>
        /\ clen = 0 => total = 0 /\ faddr = 0
        /\ clen # 0 => total < clen
        /\ stored = faddr /\ touched = faddr
        /\ otype = "UPGRADE" => total = faddr + idx
        /\ otype # "UPGRADE" => faddr = 0

\* When the command layer is told that an upgrade succeeded, every byte the
\* server announced is in the flash, however the content was cut into chunks.
OkMeansStored == verdict = "ok" /\ otype = "UPGRADE" => stored = clen

\* Beyond the first sector, an upgrade erases no sector that lies wholly behind
\* the announced content, even if the server sends more than it announced.
ErasedOnlyAnnounced == touched > Sector => touched < clen + Sector

\* A close event of an earlier attempt's connection does not end the attempt
\* under way ("must ensure disconnect was for this upgrade attempt, not a
\* previous one!", upgrade_disconcb): no verdict is given on its account.
StaleDisconnectEndsNothing ==
    [][\A c \in Conns : upg = "live" /\ c # uconn /\ net[c] = "fin" /\ net'[c] = "idle"
            => verdict' = "none"]_vars

\* An accepted start is answered: the timeouts alone, with no help from the
\* server, bring every attempt to its end.
EveryAttemptEnds == busy ~> ~busy

\* The library holds no connection on a block the client has freed.
NoConnectionOnFreedBlock == \A c \in Conns : net[c] # "idle" => c \in heap

\* The client keeps the promises of OtaService to the command layer.
Service == INSTANCE OtaService WITH
    job  <- IF busy THEN "running" ELSE "idle",
    kind <- otype,
    size <- clen

ServiceSpec == Service!Spec
====
