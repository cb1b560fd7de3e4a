---- MODULE OtaClientProofs ----
(***************************************************************************)
(* Proofs about OtaClient, for every set of heap blocks, every sector,     *)
(* chunk and image size and any number of starts.                          *)
(***************************************************************************)
EXTENDS OtaClient, TLAPS

\* The inductive invariant.  That a finished upgrade is stored needs the account
\* of its bytes, which needs the attempt to be the one the timer, the flag and
\* the connection belong to.
IInv ==
    /\ TypeOK
    /\ TimerHasAttempt
    /\ OwnConnAllocated
    /\ LockedExactlyWhileUpdating
    /\ Accounted
    /\ OkMeansStored
    /\ ErasedOnlyAnnounced

-----------------------------------------------------------------------------

\* What one chunk does to the sector buffer and the flash: nothing is lost or
\* counted twice, at most one sector is erased, and only by an upgrade.
LEMMA WriteDataFacts ==
    ASSUME TypeOK, NEW length \in Nat, NEW w \in write_data(length)
    PROVE  /\ w.ok \in BOOLEAN /\ w.idx \in Nat /\ w.faddr \in Nat
           /\ w.stored \in Nat /\ w.touched \in Nat
           /\ w.ok /\ otype = "UPGRADE" => w.faddr + w.idx = faddr + idx + length
           /\ otype # "UPGRADE" => w.faddr = faddr /\ w.stored = stored /\ w.touched = touched
           /\ \/ w.faddr = faddr /\ w.stored = stored /\ (w.ok => w.touched = touched)
              \/ w.faddr = faddr + Sector /\ w.stored = w.faddr /\ w.touched = w.faddr
           /\ w.touched \in {touched, faddr + Sector}
           /\ w.touched # touched => faddr <= clen
<1> USE SizesAssumption DEF Buffered, Flushed
<1> Sector \in Nat /\ idx \in Nat /\ faddr \in Nat /\ clen \in Nat
    /\ stored \in Nat /\ touched \in Nat
  BY DEF TypeOK
<1>1. CASE length < Sector - idx
  <2>1. w = Buffered(TRUE, idx + length, faddr, stored, touched)
    BY <1>1 DEF write_data
  <2> QED BY <2>1
<1>2. CASE ~(length < Sector - idx) /\ (length = 0 \/ otype # "UPGRADE")
  <2>1. w = Buffered(TRUE, idx, faddr, stored, touched)
    BY <1>2 DEF write_data
  <2> QED BY <2>1, <1>2
<1>3. CASE ~(length < Sector - idx) /\ length # 0 /\ otype = "UPGRADE" /\ faddr > clen
  <2>1. w = Buffered(FALSE, idx, faddr, stored, touched)
    BY <1>3 DEF write_data
  <2> QED BY <2>1
<1>4. CASE ~(length < Sector - idx) /\ length # 0 /\ otype = "UPGRADE" /\ ~(faddr > clen)
  <2>1. \/ w = Flushed(length - (Sector - idx))
        \/ w = Buffered(FALSE, idx, faddr, stored, touched)
        \/ w = Buffered(FALSE, idx, faddr, stored, faddr + Sector)
    BY <1>4 DEF write_data
  <2>2. length - (Sector - idx) \in Nat
    BY <1>4
  <2>3. CASE w = Flushed(length - (Sector - idx))
    BY <2>3, <2>2, <1>4
  <2>4. CASE w = Buffered(FALSE, idx, faddr, stored, touched)
    BY <2>4
  <2>5. CASE w = Buffered(FALSE, idx, faddr, stored, faddr + Sector)
    BY <2>5, <1>4
  <2> QED BY <2>1, <2>3, <2>4, <2>5
<1> QED BY <1>1, <1>2, <1>3, <1>4

-----------------------------------------------------------------------------

\* Whatever ends the attempt leaves the pointer null, the timer off and the AT
\* interpreter unlocked.
LEMMA EndAttemptFacts ==
    ASSUME NEW finished \in BOOLEAN, NEW i \in Nat, EndAttempt(finished, i)
    PROVE  /\ upg' = "none" /\ uconn' = NoConn
           /\ total' = 0 /\ idx' = 0 /\ faddr' = 0
           /\ timer' = "off" /\ flag' \in {"idle", "start", "finish"} /\ resp' \in Nat
           /\ busy' = FALSE /\ verdict' \in {"ok", "failed"}
           /\ finished \/ verdict' = "failed"
  BY DEF EndAttempt, ResponseLength

\* The connections keep their types whatever espconn_disconnect does.
LEMMA DisconnectFacts ==
    ASSUME NEW c \in Conns, NEW n \in [Conns -> NetStages], Disconnect(c, n)
    PROVE  net' \in [Conns -> NetStages]
  BY DEF Disconnect, NetStages

\* The ends of an attempt that give no "ok" and leave the announced length alone.
LEMMA AbortKeepsIInv ==
    ASSUME IInv, upg = "live",
           EndAttempt(FALSE, idx),
           heap' \subseteq Conns, hooked' \subseteq Conns, lookups' \subseteq Conns,
           net' \in [Conns -> NetStages],
           UNCHANGED <<clen, otype, flashVars, fault, starts>>
    PROVE  IInv'
<1>1. TypeOK
  BY DEF IInv
<1>2. idx \in Nat
  BY <1>1 DEF TypeOK
<1>3. /\ upg' = "none" /\ uconn' = NoConn
      /\ total' = 0 /\ idx' = 0 /\ faddr' = 0
      /\ timer' = "off" /\ flag' \in {"idle", "start", "finish"} /\ resp' \in Nat
      /\ busy' = FALSE /\ verdict' = "failed"
  BY <1>2, EndAttemptFacts
<1>4. TypeOK'
  BY <1>1, <1>3 DEF TypeOK, flashVars
<1>5. ErasedOnlyAnnounced'
  BY DEF IInv, ErasedOnlyAnnounced, flashVars
<1> QED
  BY <1>3, <1>4, <1>5 DEF IInv, TimerHasAttempt, OwnConnAllocated,
     LockedExactlyWhileUpdating, Accounted, OkMeansStored

\* A step that touches only the library's connections and the fault keeps IInv.
LEMMA NetKeepsIInv ==
    ASSUME IInv, fault' \in Faults, net' \in [Conns -> NetStages], hooked' \subseteq Conns,
           UNCHANGED <<structVars, globalVars, heap, lookups, atVars, flashVars, starts>>
    PROVE  IInv'
<1> USE DEF structVars, globalVars, atVars, flashVars
<1>1. TypeOK'
  BY DEF IInv, TypeOK
<1>2. TimerHasAttempt' /\ OwnConnAllocated' /\ LockedExactlyWhileUpdating'
  BY DEF IInv, TimerHasAttempt, OwnConnAllocated, LockedExactlyWhileUpdating
<1>3. Accounted' /\ OkMeansStored' /\ ErasedOnlyAnnounced'
  BY DEF IInv, Accounted, OkMeansStored, ErasedOnlyAnnounced
<1> QED BY <1>1, <1>2, <1>3 DEF IInv

\* The exception leaves everything as it was.
LEMMA CrashKeepsIInv ==
    ASSUME IInv, NEW why \in Faults, Crash(why)
    PROVE  IInv'
<1>1. /\ fault' \in Faults
      /\ net' = net /\ hooked' = hooked /\ heap' = heap /\ lookups' = lookups
      /\ UNCHANGED <<structVars, globalVars, atVars, flashVars, starts>>
  BY DEF Crash, netVars
<1>2. net' \in [Conns -> NetStages] /\ hooked' \subseteq Conns
  BY <1>1 DEF IInv, TypeOK
<1> QED BY <1>1, <1>2, NetKeepsIInv

LEMMA FreedKeepsIInv ==
    ASSUME IInv, NEW c, FreedBlock(c)
    PROVE  IInv'
  BY CrashKeepsIInv DEF FreedBlock, Faults

-----------------------------------------------------------------------------
(* One lemma per action. *)

LEMMA InitIInv == Init => IInv
<1> SUFFICES ASSUME Init PROVE IInv
  OBVIOUS
<1>1. TypeOK
  BY DEF Init, TypeOK, NetStages, Faults
<1>2. TimerHasAttempt /\ OwnConnAllocated /\ LockedExactlyWhileUpdating
  BY DEF Init, TimerHasAttempt, OwnConnAllocated, LockedExactlyWhileUpdating
<1>3. Accounted /\ OkMeansStored /\ ErasedOnlyAnnounced
  BY SizesAssumption DEF Init, Accounted, OkMeansStored, ErasedOnlyAnnounced
<1> QED BY <1>1, <1>2, <1>3 DEF IInv

\* A start is made only in the normal state of the interpreter, when no attempt
\* exists and the timer is off.
LEMMA StartKeepsIInv ==
    ASSUME IInv, NEW t \in OtaTypes, at_ota_start(t)
    PROVE  IInv'
<1> USE DEF structVars, atVars, flashVars
<1>1. /\ upg \in {"none", "dangling"} /\ busy = FALSE /\ timer = "off"
      /\ otype' = t /\ starts' = starts + 1 /\ fault' = fault
  BY DEF at_ota_start, IInv, TypeOK, LockedExactlyWhileUpdating, TimerHasAttempt
<1>2. CASE AlreadyStarted
  <2>1. TypeOK'
    BY <1>1, <1>2 DEF AlreadyStarted, StartRefused, IInv, TypeOK
  <2>2. upg' = upg /\ timer' = timer /\ busy' = FALSE /\ verdict' = "refused"
        /\ touched' = touched /\ clen' = clen
    BY <1>1, <1>2 DEF AlreadyStarted, StartRefused
  <2> QED
    BY <1>1, <2>1, <2>2 DEF IInv, TimerHasAttempt, OwnConnAllocated,
       LockedExactlyWhileUpdating, Accounted, OkMeansStored, ErasedOnlyAnnounced
<1>3. CASE NoRam
  <2>1. TypeOK'
    BY <1>1, <1>3 DEF NoRam, StartRefused, IInv, TypeOK
  <2>2. upg' # "live" /\ timer' = timer /\ busy' = FALSE /\ verdict' = "refused"
        /\ touched' = touched /\ clen' = clen
    BY <1>1, <1>3 DEF NoRam, StartRefused
  <2> QED
    BY <1>1, <2>1, <2>2 DEF IInv, TimerHasAttempt, OwnConnAllocated,
       LockedExactlyWhileUpdating, Accounted, OkMeansStored, ErasedOnlyAnnounced
<1>4. CASE DnsError
  <2>1. TypeOK'
    BY <1>1, <1>4 DEF DnsError, IInv, TypeOK
  <2>2. upg' = "dangling" /\ timer' = timer /\ busy' = FALSE /\ verdict' = "refused"
        /\ touched' = 0
    BY <1>1, <1>4 DEF DnsError
  <2> QED
    BY <1>1, <2>1, <2>2, SizesAssumption DEF IInv, TimerHasAttempt, OwnConnAllocated,
       LockedExactlyWhileUpdating, Accounted, OkMeansStored, ErasedOnlyAnnounced
<1>5. ASSUME NEW c \in Conns, Started(c)
      PROVE  IInv'
  <2>1. /\ upg' = "live" /\ uconn' = c /\ total' = 0 /\ idx' = 0 /\ faddr' = 0
        /\ flag' = "start" /\ clen' = 0 /\ resp' = 0 /\ busy' = TRUE /\ verdict' = "none"
        /\ heap' = heap \cup {c} /\ hooked' = hooked \ {c} /\ stored' = 0 /\ touched' = 0
    BY <1>5 DEF Started
  <2>2. net' \in [Conns -> NetStages] /\ timer' \in {"off", "connect"}
        /\ lookups' \subseteq Conns
    BY <1>1, <1>5 DEF Started, ConnectTo, IInv, TypeOK, NetStages
  <2>3. TypeOK'
    BY <1>1, <2>1, <2>2 DEF IInv, TypeOK
  <2> QED
    BY <2>1, <2>3, SizesAssumption DEF IInv, TimerHasAttempt, OwnConnAllocated,
       LockedExactlyWhileUpdating, Accounted, OkMeansStored, ErasedOnlyAnnounced
<1> QED BY <1>2, <1>3, <1>4, <1>5 DEF at_ota_start

\* The attempt goes on with its progress untouched: only the timer and the
\* connections change.
LEMMA WaitKeepsIInv ==
    ASSUME IInv, upg = "live",
           timer' \in {"off", "deinit", "connect"},
           net' \in [Conns -> NetStages], hooked' \subseteq Conns, lookups' \subseteq Conns,
           UNCHANGED <<structVars, flag, clen, resp, otype, heap, atVars, flashVars, fault, starts>>
    PROVE  IInv'
<1> USE DEF structVars, atVars, flashVars
<1>1. TypeOK'
  BY DEF IInv, TypeOK
<1>2. TimerHasAttempt' /\ OwnConnAllocated' /\ LockedExactlyWhileUpdating'
  BY DEF IInv, TimerHasAttempt, OwnConnAllocated, LockedExactlyWhileUpdating
<1>3. Accounted' /\ OkMeansStored' /\ ErasedOnlyAnnounced'
  BY DEF IInv, Accounted, OkMeansStored, ErasedOnlyAnnounced
<1> QED BY <1>1, <1>2, <1>3 DEF IInv

\* What a live attempt's connection is.
LEMMA OwnConn ==
    ASSUME IInv, upg = "live"
    PROVE  uconn \in Conns /\ uconn \in heap
  BY DEF IInv, TypeOK, OwnConnAllocated

LEMMA ResolvedKeepsIInv ==
    ASSUME IInv, NEW c \in Conns, upgrade_resolved(c)
    PROVE  IInv'
<1>1. CASE upg # "live"
  BY <1>1, CrashKeepsIInv DEF upgrade_resolved, Faults
<1>2. CASE upg = "live"
  <2>1. /\ lookups' \subseteq Conns
        /\ UNCHANGED <<clen, otype, flashVars, fault, starts>>
        /\ net \in [Conns -> NetStages] /\ hooked \subseteq Conns /\ heap \subseteq Conns
    BY <1>2 DEF upgrade_resolved, IInv, TypeOK
  <2>2. CASE DropOwnConn(net)
    <3>1. EndAttempt(FALSE, idx) /\ heap' \subseteq Conns /\ net' = net /\ hooked' = hooked
      BY <2>1, <2>2 DEF DropOwnConn
    <3> QED BY <1>2, <2>1, <3>1, AbortKeepsIInv
  <2>3. CASE ConnectTo(uconn, net) /\ UNCHANGED <<structVars, flag, resp, heap, hooked, atVars>>
    <3>1. net' \in [Conns -> NetStages] /\ timer' = "connect"
      BY <2>1, <2>3 DEF ConnectTo, NetStages
    <3> QED BY <1>2, <2>1, <2>3, <3>1, WaitKeepsIInv
  <2> QED BY <1>2, <2>2, <2>3 DEF upgrade_resolved
<1> QED BY <1>1, <1>2

LEMMA ConnectedKeepsIInv ==
    ASSUME IInv, NEW c \in Conns, upgrade_connect_cb(c)
    PROVE  IInv'
<1>1. CASE FreedBlock(c)
  BY <1>1, FreedKeepsIInv
<1>2. CASE upg # "live" /\ Crash(IF upg = "none" THEN "null" ELSE "freed")
  BY <1>2, CrashKeepsIInv DEF Faults
<1>3. CASE ~FreedBlock(c) /\ upg = "live"
  <2> DEFINE n == [net EXCEPT ![c] = "open"]
  <2>1. n \in [Conns -> NetStages]
    BY DEF IInv, TypeOK, NetStages
  <2>2. /\ hooked' = hooked \cup {uconn}
        /\ \/ EndAttempt(FALSE, idx) /\ Disconnect(uconn, n)
           \/ /\ timer' = "deinit" /\ net' = n
              /\ UNCHANGED <<structVars, flag, resp, atVars>>
        /\ UNCHANGED <<heap, lookups, clen, otype, flashVars, fault, starts>>
    BY <1>3 DEF upgrade_connect_cb
  <2>3. hooked' \subseteq Conns /\ lookups' \subseteq Conns /\ heap' \subseteq Conns
    BY <1>3, <2>2, OwnConn DEF IInv, TypeOK
  <2> HIDE DEF n
  <2>4. CASE EndAttempt(FALSE, idx) /\ Disconnect(uconn, n)
    <3>1. net' \in [Conns -> NetStages]
      BY <1>3, <2>1, <2>4, OwnConn, DisconnectFacts
    <3> QED BY <1>3, <2>2, <2>3, <2>4, <3>1, AbortKeepsIInv
  <2>5. CASE /\ timer' = "deinit" /\ net' = n
             /\ UNCHANGED <<structVars, flag, resp, atVars>>
    BY <1>3, <2>1, <2>2, <2>3, <2>5, WaitKeepsIInv
  <2> QED BY <2>2, <2>4, <2>5
<1> QED BY <1>1, <1>2, <1>3 DEF upgrade_connect_cb

\* The sectors a chunk erases lie within what was announced.
LEMMA ChunkErases ==
    ASSUME IInv, upg = "live", NEW length \in Nat, NEW w \in write_data(length),
           clen' \in Nat, clen # 0 => clen' = clen
    PROVE  /\ w.touched > Sector => w.touched < clen' + Sector
           /\ clen = 0 => total = 0
           /\ w.ok => w.stored = w.faddr /\ w.touched = w.faddr
           /\ w.ok /\ otype = "UPGRADE" => w.faddr + w.idx = total + length
           /\ otype # "UPGRADE" => w.faddr = 0
           /\ w.idx \in Nat /\ w.faddr \in Nat /\ w.stored \in Nat /\ w.touched \in Nat
<1>1. TypeOK /\ Sector \in Nat /\ Sector > 0
  BY SizesAssumption DEF IInv
<1>2. /\ total \in Nat /\ idx \in Nat /\ faddr \in Nat /\ clen \in Nat
      /\ stored = faddr /\ touched = faddr
      /\ clen = 0 => total = 0 /\ faddr = 0
      /\ clen # 0 => total < clen
      /\ otype = "UPGRADE" => total = faddr + idx
      /\ otype # "UPGRADE" => faddr = 0
  BY DEF IInv, TypeOK, Accounted
<1>3. /\ w.idx \in Nat /\ w.faddr \in Nat /\ w.stored \in Nat /\ w.touched \in Nat
      /\ w.ok /\ otype = "UPGRADE" => w.faddr + w.idx = faddr + idx + length
      /\ otype # "UPGRADE" => w.faddr = faddr /\ w.stored = stored /\ w.touched = touched
      /\ \/ w.faddr = faddr /\ w.stored = stored /\ (w.ok => w.touched = touched)
         \/ w.faddr = faddr + Sector /\ w.stored = w.faddr /\ w.touched = w.faddr
      /\ w.touched \in {touched, faddr + Sector}
  BY <1>1, WriteDataFacts
<1>4. w.touched > Sector => w.touched < clen' + Sector
  BY <1>1, <1>2, <1>3
<1> QED BY <1>2, <1>3, <1>4

\* The chunk ends the attempt: what a verdict needs of the flash.
LEMMA EndKeepsIInv ==
    ASSUME IInv, upg = "live", NEW finished \in BOOLEAN, NEW i \in Nat,
           at_ota_deinit(finished, i, net),
           UNCHANGED <<lookups, otype, fault, starts>>,
           clen' \in Nat, stored' \in Nat, touched' \in Nat,
           finished /\ otype = "UPGRADE" => stored' = clen',
           touched' > Sector => touched' < clen' + Sector
    PROVE  IInv'
<1>1. TypeOK
  BY DEF IInv
<1>2. /\ upg' = "none" /\ uconn' = NoConn
      /\ total' = 0 /\ idx' = 0 /\ faddr' = 0
      /\ timer' = "off" /\ flag' \in {"idle", "start", "finish"} /\ resp' \in Nat
      /\ busy' = FALSE /\ verdict' \in {"ok", "failed"}
      /\ finished \/ verdict' = "failed"
  BY EndAttemptFacts DEF at_ota_deinit
<1>3. net' \in [Conns -> NetStages] /\ heap' = heap /\ hooked' = hooked
  BY <1>1, OwnConn, DisconnectFacts DEF at_ota_deinit, TypeOK
<1>4. TypeOK'
  BY <1>1, <1>2, <1>3 DEF TypeOK
<1>5. OkMeansStored' /\ ErasedOnlyAnnounced'
  BY <1>2 DEF OkMeansStored, ErasedOnlyAnnounced
<1> QED
  BY <1>2, <1>4, <1>5 DEF IInv, TimerHasAttempt, OwnConnAllocated,
     LockedExactlyWhileUpdating, Accounted

LEMMA AfterChunkKeepsIInv ==
    ASSUME IInv, upg = "live", NEW c \in Conns,
           NEW length \in Nat, NEW w \in write_data(length), w.ok,
           clen' \in Nat, clen # 0 => clen' = clen,
           AfterChunk(c, w, total + length),
           UNCHANGED <<lookups, otype, fault, starts>>
    PROVE  IInv'
<1> DEFINE t == total + length
           tail == w.idx > 0 /\ otype = "UPGRADE"
<1>1. /\ w.touched > Sector => w.touched < clen' + Sector
      /\ w.stored = w.faddr /\ w.touched = w.faddr
      /\ otype = "UPGRADE" => w.faddr + w.idx = t
      /\ otype # "UPGRADE" => w.faddr = 0
      /\ w.idx \in Nat /\ w.faddr \in Nat /\ w.stored \in Nat /\ w.touched \in Nat
  BY ChunkErases
<1>2. t \in Nat /\ Sector \in Nat /\ Sector > 0
  BY SizesAssumption DEF IInv, TypeOK
<1>3. \/ /\ t = clen'
         /\ at_ota_deinit(TRUE, w.idx, net)
         /\ stored' = IF tail THEN w.faddr + w.idx ELSE w.stored
         /\ touched' = IF tail THEN w.faddr + Sector ELSE w.touched
      \/ /\ t = clen' /\ tail
         /\ at_ota_deinit(FALSE, w.idx, net)
         /\ stored' = w.stored
         /\ touched' \in {w.touched, w.faddr + Sector}
      \/ /\ stored' = w.stored /\ touched' = w.touched
         /\ at_ota_deinit(FALSE, w.idx, net)
      \/ /\ t < clen'
         /\ stored' = w.stored /\ touched' = w.touched
         /\ total' = t /\ idx' = w.idx /\ faddr' = w.faddr
         /\ timer' = "deinit"
         /\ UNCHANGED <<upg, uconn, flag, resp, heap, net, hooked, atVars>>
  BY DEF AfterChunk
<1> HIDE DEF t
<1>4. CASE /\ t = clen'
           /\ at_ota_deinit(TRUE, w.idx, net)
           /\ stored' = IF tail THEN w.faddr + w.idx ELSE w.stored
           /\ touched' = IF tail THEN w.faddr + Sector ELSE w.touched
  <2>1. otype = "UPGRADE" => stored' = clen'
    BY <1>1, <1>2, <1>4
  <2>2. stored' \in Nat /\ touched' \in Nat /\ (touched' > Sector => touched' < clen' + Sector)
    BY <1>1, <1>2, <1>4
  <2> QED BY <1>1, <1>4, <2>1, <2>2, EndKeepsIInv
<1>5. CASE /\ t = clen' /\ tail
           /\ at_ota_deinit(FALSE, w.idx, net)
           /\ stored' = w.stored
           /\ touched' \in {w.touched, w.faddr + Sector}
  <2>1. stored' \in Nat /\ touched' \in Nat /\ (touched' > Sector => touched' < clen' + Sector)
    BY <1>1, <1>2, <1>5
  <2> QED BY <1>1, <1>5, <2>1, EndKeepsIInv
<1>6. CASE /\ stored' = w.stored /\ touched' = w.touched
           /\ at_ota_deinit(FALSE, w.idx, net)
  BY <1>1, <1>6, EndKeepsIInv
<1>7. CASE /\ t < clen'
           /\ stored' = w.stored /\ touched' = w.touched
           /\ total' = t /\ idx' = w.idx /\ faddr' = w.faddr
           /\ timer' = "deinit"
           /\ UNCHANGED <<upg, uconn, flag, resp, heap, net, hooked, atVars>>
  <2>1. TypeOK'
    BY <1>1, <1>2, <1>7 DEF IInv, TypeOK, atVars
  <2>2. TimerHasAttempt' /\ OwnConnAllocated' /\ LockedExactlyWhileUpdating'
    BY <1>7 DEF IInv, TimerHasAttempt, OwnConnAllocated, LockedExactlyWhileUpdating, atVars
  <2>3. verdict' = "none"
    BY <1>7 DEF IInv, LockedExactlyWhileUpdating, atVars
  <2>4. clen' # 0 /\ t < clen'
    BY <1>2, <1>7
  <2>5. Accounted'
    BY <1>1, <1>2, <1>7, <2>4 DEF Accounted
  <2>6. OkMeansStored' /\ ErasedOnlyAnnounced'
    BY <1>1, <1>7, <2>3 DEF OkMeansStored, ErasedOnlyAnnounced
  <2> QED BY <2>1, <2>2, <2>5, <2>6 DEF IInv
<1> QED BY <1>3, <1>4, <1>5, <1>6, <1>7

LEMMA FailedKeepsIInv ==
    ASSUME IInv, upg = "live", NEW length \in Nat, NEW w \in write_data(length),
           clen' \in Nat, clen # 0 => clen' = clen,
           Failed(w),
           UNCHANGED <<lookups, otype, fault, starts>>
    PROVE  IInv'
<1>1. /\ w.touched > Sector => w.touched < clen' + Sector
      /\ w.idx \in Nat /\ w.stored \in Nat /\ w.touched \in Nat
  BY ChunkErases
<1> QED BY <1>1, EndKeepsIInv DEF Failed

LEMMA ReceivedKeepsIInv ==
    ASSUME IInv, NEW c \in Conns, upgrade_recvcb(c)
    PROVE  IInv'
<1>1. CASE FreedBlock(c)
  BY <1>1, FreedKeepsIInv
<1>2. CASE upg # "live" /\ Crash(IF upg = "none" THEN "null" ELSE "freed")
  BY <1>2, CrashKeepsIInv DEF Faults
<1>3. CASE /\ upg = "live" /\ clen = 0 /\ BadHeader
  <2>1. idx \in Nat /\ clen' \in Nat /\ stored' \in Nat /\ touched' \in Nat
    BY <1>3 DEF BadHeader, IInv, TypeOK, flashVars
  <2>2. touched' > Sector => touched' < clen' + Sector
    BY <1>3 DEF BadHeader, IInv, ErasedOnlyAnnounced, flashVars
  <2>3. at_ota_deinit(FALSE, idx, net) /\ UNCHANGED <<lookups, otype, fault, starts>>
    BY <1>3 DEF BadHeader
  <2> QED BY <1>3, <2>1, <2>2, <2>3, EndKeepsIInv
<1>4. ASSUME upg = "live", clen = 0, NEW n \in 0 .. FwMax, NEW body \in 0 .. MaxChunk,
             FirstChunk(c, n, body)
      PROVE  IInv'
  <2>1. body \in Nat /\ n \in Nat /\ total = 0 /\ body = total + body
    BY <1>4, SizesAssumption DEF IInv, TypeOK, Accounted
  <2>2. PICK w \in write_data(body) :
             IF w.idx > Sector THEN Crash("overflow")
             ELSE /\ clen' = IF w.ok THEN n ELSE clen
                  /\ IF w.ok /\ HeaderAccepted(n) THEN AfterChunk(c, w, body) ELSE Failed(w)
                  /\ UNCHANGED <<lookups, otype, fault, starts>>
    BY <1>4 DEF FirstChunk
  <2>3. CASE w.idx > Sector
    BY <2>2, <2>3, CrashKeepsIInv DEF Faults
  <2>4. CASE ~(w.idx > Sector) /\ w.ok /\ HeaderAccepted(n)
    <3>1. clen' \in Nat /\ (clen # 0 => clen' = clen) /\ AfterChunk(c, w, total + body)
          /\ UNCHANGED <<lookups, otype, fault, starts>>
      BY <1>4, <2>1, <2>2, <2>4
    <3> QED BY <1>4, <2>1, <2>4, <3>1, AfterChunkKeepsIInv
  <2>5. CASE ~(w.idx > Sector) /\ ~(w.ok /\ HeaderAccepted(n))
    <3>1. clen' \in Nat /\ (clen # 0 => clen' = clen) /\ Failed(w)
          /\ UNCHANGED <<lookups, otype, fault, starts>>
      BY <1>4, <2>1, <2>2, <2>5
    <3> QED BY <1>4, <2>1, <3>1, FailedKeepsIInv
  <2> QED BY <2>3, <2>4, <2>5
<1>5. ASSUME upg = "live", NEW length \in 1 .. MaxChunk, NextChunk(c, length)
      PROVE  IInv'
  <2>1. length \in Nat /\ clen \in Nat
    BY SizesAssumption DEF IInv, TypeOK
  <2>2. PICK w \in write_data(length) :
             IF w.idx > Sector THEN Crash("overflow")
             ELSE /\ clen' = clen
                  /\ IF w.ok THEN AfterChunk(c, w, total + length) ELSE Failed(w)
                  /\ UNCHANGED <<lookups, otype, fault, starts>>
    BY <1>5 DEF NextChunk
  <2>3. CASE w.idx > Sector
    BY <2>2, <2>3, CrashKeepsIInv DEF Faults
  <2>4. CASE ~(w.idx > Sector) /\ w.ok
    BY <1>5, <2>1, <2>2, <2>4, AfterChunkKeepsIInv
  <2>5. CASE ~(w.idx > Sector) /\ ~w.ok
    BY <1>5, <2>1, <2>2, <2>5, FailedKeepsIInv
  <2> QED BY <2>3, <2>4, <2>5
<1> QED BY <1>1, <1>2, <1>3, <1>4, <1>5 DEF upgrade_recvcb

\* The timer may be disarmed and the block of another connection released
\* without harm to the attempt under way.
LEMMA DisconnectedKeepsIInv ==
    ASSUME IInv, NEW c \in Conns, upgrade_disconcb(c)
    PROVE  IInv'
<1>1. CASE FreedBlock(c)
  BY <1>1, FreedKeepsIInv
<1>2. CASE c \notin hooked
  <2>1. /\ net' = [net EXCEPT ![c] = "idle"]
        /\ UNCHANGED <<structVars, globalVars, heap, hooked, lookups, atVars, flashVars, fault, starts>>
    BY <1>2 DEF upgrade_disconcb
  <2>2. net' \in [Conns -> NetStages] /\ hooked' \subseteq Conns /\ fault' \in Faults
    BY <2>1 DEF IInv, TypeOK, NetStages
  <2> QED BY <2>1, <2>2, NetKeepsIInv
<1>3. CASE ~FreedBlock(c) /\ c \in hooked
  <2>1. /\ net' = [net EXCEPT ![c] = "idle"]
        /\ hooked' = hooked \ {c}
        /\ heap' = heap \ {c}
        /\ IF upg = "live" /\ uconn = c
           THEN EndAttempt(FALSE, idx)
           ELSE timer' = "off" /\ UNCHANGED <<structVars, flag, resp, atVars>>
        /\ UNCHANGED <<lookups, clen, otype, flashVars, fault, starts>>
    BY <1>3 DEF upgrade_disconcb
  <2>2. /\ net' \in [Conns -> NetStages] /\ hooked' \subseteq Conns /\ lookups' \subseteq Conns
        /\ heap' \subseteq Conns
    BY <2>1 DEF IInv, TypeOK, NetStages
  <2>3. CASE upg = "live" /\ uconn = c
    BY <2>1, <2>2, <2>3, AbortKeepsIInv
  <2>4. CASE ~(upg = "live" /\ uconn = c)
    <3> USE DEF structVars, atVars, flashVars
    <3>1. timer' = "off" /\ UNCHANGED <<structVars, flag, resp, atVars>>
      BY <2>1, <2>4
    <3>2. TypeOK'
      BY <2>1, <2>2, <3>1 DEF IInv, TypeOK
    <3>3. OwnConnAllocated'
      BY <2>1, <2>4, <3>1 DEF IInv, OwnConnAllocated
    <3>4. TimerHasAttempt' /\ LockedExactlyWhileUpdating'
      BY <3>1 DEF IInv, TimerHasAttempt, LockedExactlyWhileUpdating
    <3>5. Accounted' /\ OkMeansStored' /\ ErasedOnlyAnnounced'
      BY <2>1, <3>1 DEF IInv, Accounted, OkMeansStored, ErasedOnlyAnnounced
    <3> QED BY <3>2, <3>3, <3>4, <3>5 DEF IInv
  <2> QED BY <2>3, <2>4
<1> QED BY <1>1, <1>2, <1>3

LEMMA ErrorKeepsIInv ==
    ASSUME IInv, NEW c \in Conns, upgrade_recon_cb(c)
    PROVE  IInv'
<1> DEFINE n == [net EXCEPT ![c] = "idle"]
<1>1. n \in [Conns -> NetStages]
  BY DEF IInv, TypeOK, NetStages
<1>2. \/ FreedBlock(c)
      \/ upg = "dangling" /\ Crash("freed")
      \/ /\ upg = "live" /\ DropOwnConn(n)
         /\ UNCHANGED <<lookups, clen, otype, flashVars, fault, starts>>
      \/ /\ upg = "none" /\ net' = n
         /\ UNCHANGED <<structVars, globalVars, heap, hooked, lookups, atVars, flashVars,
                        fault, starts>>
  BY DEF upgrade_recon_cb
<1> HIDE DEF n
<1>3. CASE FreedBlock(c)
  BY <1>3, FreedKeepsIInv
<1>4. CASE upg = "dangling" /\ Crash("freed")
  BY <1>4, CrashKeepsIInv DEF Faults
<1>5. CASE /\ upg = "live" /\ DropOwnConn(n)
           /\ UNCHANGED <<lookups, clen, otype, flashVars, fault, starts>>
  <2>1. /\ EndAttempt(FALSE, idx) /\ net' = n
        /\ heap' \subseteq Conns /\ hooked' \subseteq Conns /\ lookups' \subseteq Conns
    BY <1>5 DEF DropOwnConn, IInv, TypeOK
  <2> QED BY <1>1, <1>5, <2>1, AbortKeepsIInv
<1>6. CASE /\ upg = "none" /\ net' = n
           /\ UNCHANGED <<structVars, globalVars, heap, hooked, lookups, atVars, flashVars,
                          fault, starts>>
  <2>1. hooked' \subseteq Conns /\ fault' \in Faults
    BY <1>6 DEF IInv, TypeOK
  <2> QED BY <1>1, <1>6, <2>1, NetKeepsIInv
<1> QED BY <1>2, <1>3, <1>4, <1>5, <1>6

LEMMA ReceiveTimeoutKeepsIInv ==
    ASSUME IInv, ReceiveTimeout
    PROVE  IInv'
<1>1. CASE upg # "live"
  BY <1>1, CrashKeepsIInv DEF ReceiveTimeout, Faults
<1>2. CASE upg = "live"
  <2>1. /\ at_ota_deinit(FALSE, idx, net)
        /\ UNCHANGED <<lookups, clen, otype, flashVars, fault, starts>>
    BY <1>2 DEF ReceiveTimeout
  <2>2. net' \in [Conns -> NetStages] /\ heap' = heap /\ hooked' = hooked
    BY <1>2, <2>1, OwnConn, DisconnectFacts DEF at_ota_deinit, IInv, TypeOK
  <2>3. /\ EndAttempt(FALSE, idx)
        /\ heap' \subseteq Conns /\ hooked' \subseteq Conns /\ lookups' \subseteq Conns
    BY <2>1, <2>2 DEF at_ota_deinit, IInv, TypeOK
  <2> QED BY <1>2, <2>1, <2>2, <2>3, AbortKeepsIInv
<1> QED BY <1>1, <1>2

LEMMA ConnectTimeoutKeepsIInv ==
    ASSUME IInv, connect_timeout_cb
    PROVE  IInv'
<1>1. upg = "live"
  BY DEF connect_timeout_cb, IInv, TimerHasAttempt
<1>2. DropOwnConn(net) /\ UNCHANGED <<lookups, clen, otype, flashVars, fault, starts>>
  BY <1>1 DEF connect_timeout_cb
<1>3. /\ EndAttempt(FALSE, idx) /\ net' \in [Conns -> NetStages]
      /\ heap' \subseteq Conns /\ hooked' \subseteq Conns /\ lookups' \subseteq Conns
  BY <1>2 DEF DropOwnConn, IInv, TypeOK
<1> QED BY <1>1, <1>2, <1>3, AbortKeepsIInv

LEMMA NetworkKeepsIInv ==
    ASSUME IInv, NEW c \in Conns, Network(c)
    PROVE  IInv'
<1>1. CASE FreedBlock(c)
  BY <1>1, FreedKeepsIInv
<1>2. CASE ~FreedBlock(c)
  <2>1. /\ net' \in {[net EXCEPT ![c] = "fin"], [net EXCEPT ![c] = "err"]}
        /\ UNCHANGED <<structVars, globalVars, heap, hooked, lookups, atVars, flashVars,
                       fault, starts>>
    BY <1>2 DEF Network, PeerClose, ConnError
  <2>2. net' \in [Conns -> NetStages] /\ hooked' \subseteq Conns /\ fault' \in Faults
    BY <2>1 DEF IInv, TypeOK, NetStages
  <2> QED BY <2>1, <2>2, NetKeepsIInv
<1> QED BY <1>1, <1>2

LEMMA RebootKeepsIInv ==
    ASSUME IInv, Reboot
    PROVE  IInv'
<1>1. TypeOK'
  BY DEF Reboot, IInv, TypeOK, NetStages, Faults
<1>2. TimerHasAttempt' /\ OwnConnAllocated' /\ LockedExactlyWhileUpdating'
  BY DEF Reboot, TimerHasAttempt, OwnConnAllocated, LockedExactlyWhileUpdating
<1>3. Accounted' /\ OkMeansStored' /\ ErasedOnlyAnnounced'
  BY SizesAssumption DEF Reboot, Accounted, OkMeansStored, ErasedOnlyAnnounced
<1> QED BY <1>1, <1>2, <1>3 DEF IInv

LEMMA StutterKeepsIInv ==
    ASSUME IInv, UNCHANGED vars
    PROVE  IInv'
  BY DEF vars, IInv, TypeOK, TimerHasAttempt, OwnConnAllocated, LockedExactlyWhileUpdating,
     Accounted, OkMeansStored, ErasedOnlyAnnounced

LEMMA NextKeepsIInv ==
    ASSUME IInv, [Next]_vars
    PROVE  IInv'
<1>1. ASSUME NEW t \in OtaTypes, at_ota_start(t) PROVE IInv'
  BY <1>1, StartKeepsIInv
<1>2. ASSUME NEW c \in Conns, Callback(c) PROVE IInv'
  BY <1>2, ResolvedKeepsIInv, ConnectedKeepsIInv, ReceivedKeepsIInv, DisconnectedKeepsIInv,
     ErrorKeepsIInv DEF Callback
<1>3. ASSUME NEW c \in Conns, Network(c) PROVE IInv'
  BY <1>3, NetworkKeepsIInv
<1>4. CASE ReceiveTimeout \/ connect_timeout_cb \/ Reboot \/ UNCHANGED vars
  BY <1>4, ReceiveTimeoutKeepsIInv, ConnectTimeoutKeepsIInv, RebootKeepsIInv, StutterKeepsIInv
<1> QED BY <1>1, <1>2, <1>3, <1>4 DEF Next

-----------------------------------------------------------------------------
(* Which steps release a connection that is closing. *)

LEMMA DisconnectKeepsClosing ==
    ASSUME NEW c \in Conns, NEW d \in Conns, NEW n \in [Conns -> NetStages], n[d] = "fin",
           Disconnect(c, n)
    PROVE  net'[d] = "fin"
  BY DEF Disconnect

\* Neither a timeout, an answer of the DNS, a new connection nor an error does.
LEMMA OthersKeepClosing ==
    ASSUME IInv, NEW d \in Conns, net[d] = "fin", upg = "live",
           \/ ReceiveTimeout \/ connect_timeout_cb
           \/ \E c \in Conns :
                 upgrade_resolved(c) \/ upgrade_connect_cb(c) \/ upgrade_recon_cb(c) \/ Network(c)
    PROVE  net'[d] = "fin"
<1>1. net \in [Conns -> NetStages] /\ uconn \in Conns
  BY DEF IInv, TypeOK, OwnConnAllocated
<1>2. CASE ReceiveTimeout
  BY <1>1, <1>2, DisconnectKeepsClosing DEF ReceiveTimeout, at_ota_deinit
<1>3. CASE connect_timeout_cb
  BY <1>1, <1>3 DEF connect_timeout_cb, DropOwnConn
<1>4. ASSUME NEW c \in Conns, upgrade_resolved(c) PROVE net'[d] = "fin"
  BY <1>1, <1>4 DEF upgrade_resolved, DropOwnConn, ConnectTo
<1>5. ASSUME NEW c \in Conns, upgrade_connect_cb(c) PROVE net'[d] = "fin"
  <2>1. CASE UNCHANGED net
    BY <2>1
  <2>2. CASE Disconnect(uconn, [net EXCEPT ![c] = "open"])
    <3> DEFINE n == [net EXCEPT ![c] = "open"]
    <3>1. n \in [Conns -> NetStages] /\ n[d] = "fin"
      BY <1>1, <1>5 DEF upgrade_connect_cb, NetStages
    <3>2. Disconnect(uconn, n)
      BY <2>2
    <3> HIDE DEF n
    <3> QED BY <1>1, <3>1, <3>2, DisconnectKeepsClosing
  <2>3. CASE net' = [net EXCEPT ![c] = "open"]
    BY <1>1, <1>5, <2>3 DEF upgrade_connect_cb
  <2> QED BY <1>5, <2>1, <2>2, <2>3 DEF upgrade_connect_cb, FreedBlock, Crash, netVars
<1>6. ASSUME NEW c \in Conns, upgrade_recon_cb(c) PROVE net'[d] = "fin"
  BY <1>1, <1>6 DEF upgrade_recon_cb, FreedBlock, Crash, netVars, DropOwnConn
<1>7. ASSUME NEW c \in Conns, Network(c) PROVE net'[d] = "fin"
  BY <1>1, <1>7 DEF Network, PeerClose, ConnError, FreedBlock, Crash, netVars
<1> QED BY <1>2, <1>3, <1>4, <1>5, <1>6, <1>7

\* Nor does data, though it may end the attempt and close its connection.
LEMMA DataKeepsClosing ==
    ASSUME IInv, NEW d \in Conns, net[d] = "fin", upg = "live",
           NEW c \in Conns, upgrade_recvcb(c)
    PROVE  net'[d] = "fin"
<1>1. net \in [Conns -> NetStages] /\ uconn \in Conns
  BY DEF IInv, TypeOK, OwnConnAllocated
<1>2. ASSUME NEW finished, NEW i, at_ota_deinit(finished, i, net) PROVE net'[d] = "fin"
  BY <1>1, <1>2, DisconnectKeepsClosing DEF at_ota_deinit
<1>3. ASSUME NEW w, Failed(w) PROVE net'[d] = "fin"
  BY <1>2, <1>3 DEF Failed
<1>4. ASSUME NEW w, NEW t, AfterChunk(c, w, t) PROVE net'[d] = "fin"
  <2>1. CASE UNCHANGED net
    BY <2>1
  <2>2. CASE \E finished \in BOOLEAN : at_ota_deinit(finished, w.idx, net)
    BY <1>2, <2>2
  <2> QED BY <1>4, <2>1, <2>2 DEF AfterChunk
<1>5. ASSUME Crash("overflow") \/ Crash("freed") \/ Crash("null") PROVE net'[d] = "fin"
  BY <1>5 DEF Crash, netVars
<1>6. CASE BadHeader
  BY <1>2, <1>6 DEF BadHeader
<1>7. ASSUME NEW n, NEW body, FirstChunk(c, n, body) PROVE net'[d] = "fin"
  BY <1>3, <1>4, <1>5, <1>7 DEF FirstChunk
<1>8. ASSUME NEW length, NextChunk(c, length) PROVE net'[d] = "fin"
  BY <1>3, <1>4, <1>5, <1>8 DEF NextChunk
<1> QED BY <1>5, <1>6, <1>7, <1>8 DEF upgrade_recvcb, FreedBlock

\* The close event that does release it gives no verdict on another attempt.
LEMMA ReleaseGivesNoVerdict ==
    ASSUME IInv, NEW d \in Conns, upg = "live", d # uconn, net[d] = "fin",
           NEW c \in Conns, upgrade_disconcb(c), net'[d] # "fin"
    PROVE  verdict' = "none"
<1>1. verdict = "none"
  BY DEF IInv, LockedExactlyWhileUpdating
<1>2. c = d
  <2>1. net' = net \/ net' = [net EXCEPT ![c] = "idle"]
    BY DEF upgrade_disconcb, FreedBlock, Crash, netVars
  <2> QED BY <2>1 DEF IInv, TypeOK
<1>3. UNCHANGED atVars
  BY <1>2 DEF upgrade_disconcb, FreedBlock, Crash
<1> QED BY <1>1, <1>3 DEF atVars

-----------------------------------------------------------------------------
(* The theorems. *)

\* The inductive invariant holds of every behaviour of the client (the callbacks
\* of at-ota.c in any order the library can deliver them).
THEOREM Inductive == Spec => []IInv
<1>1. Init => IInv
  BY InitIInv
<1>2. IInv /\ [Next]_vars => IInv'
  BY NextKeepsIInv
<1> QED BY <1>1, <1>2, PTL DEF Spec

\* Every variable keeps its type.
THEOREM TypesPreserved == Spec => []TypeOK
<1>1. IInv => TypeOK
  BY DEF IInv
<1> QED BY <1>1, Inductive, PTL

\* The timer never fires in at_ota_deinit or connect_timeout_cb without an
\* attempt to end, whichever of the events of earlier connections came first.
THEOREM TimerSafe == Spec => []TimerHasAttempt
<1>1. IInv => TimerHasAttempt
  BY DEF IInv
<1> QED BY <1>1, Inductive, PTL

\* The espconn block of the attempt under way is never freed under it.
THEOREM ConnSafe == Spec => []OwnConnAllocated
<1>1. IInv => OwnConnAllocated
  BY DEF IInv
<1> QED BY <1>1, Inductive, PTL

\* The special state of the AT interpreter lasts exactly as long as the attempt,
\* which has its verdict when it is left.
THEOREM LockExact == Spec => []LockedExactlyWhileUpdating
<1>1. IInv => LockedExactlyWhileUpdating
  BY DEF IInv
<1> QED BY <1>1, Inductive, PTL

\* The bytes counted while an attempt is under way are in the flash or in the
\* sector buffer, and fewer than announced.
THEOREM BytesAccounted == Spec => []Accounted
<1>1. IInv => Accounted
  BY DEF IInv
<1> QED BY <1>1, Inductive, PTL

\* An upgrade reported as successful is in the flash to the last byte, for every
\* sector size, chunk size and way of cutting the content into chunks.
THEOREM OkIsStored == Spec => []OkMeansStored
<1>1. IInv => OkMeansStored
  BY DEF IInv
<1> QED BY <1>1, Inductive, PTL

\* No upgrade erases past the sector the announced content ends in.
THEOREM ErasesInBounds == Spec => []ErasedOnlyAnnounced
<1>1. IInv => ErasedOnlyAnnounced
  BY DEF IInv
<1> QED BY <1>1, Inductive, PTL

\* A late close event of an earlier connection never gives the attempt under way
\* a verdict, so it does not end it either (upgrade_disconcb compares the blocks).
THEOREM StaleCloseHarmless == Spec => StaleDisconnectEndsNothing
<1> DEFINE Harmless ==
        \A c \in Conns : upg = "live" /\ c # uconn /\ net[c] = "fin" /\ net'[c] = "idle"
            => verdict' = "none"
<1>1. IInv /\ [Next]_vars => Harmless
  <2> SUFFICES ASSUME IInv, [Next]_vars, NEW d \in Conns, upg = "live", d # uconn,
                      net[d] = "fin", net'[d] = "idle"
               PROVE  verdict' = "none"
    OBVIOUS
  <2>1. busy
    BY DEF IInv, LockedExactlyWhileUpdating
  <2>2. ~\E t \in OtaTypes : at_ota_start(t)
    BY <2>1 DEF at_ota_start
  <2>3. CASE Reboot
    BY <2>3 DEF Reboot
  <2>4. CASE UNCHANGED vars
    BY <2>4 DEF vars
  <2>5. ASSUME NEW c \in Conns, upgrade_disconcb(c) PROVE verdict' = "none"
    BY <2>5, ReleaseGivesNoVerdict
  <2>6. ASSUME NEW c \in Conns, upgrade_recvcb(c) PROVE FALSE
    BY <2>6, DataKeepsClosing
  <2>7. ~(\/ ReceiveTimeout \/ connect_timeout_cb
          \/ \E c \in Conns :
                upgrade_resolved(c) \/ upgrade_connect_cb(c) \/ upgrade_recon_cb(c) \/ Network(c))
    BY OthersKeepClosing
  <2> QED BY <2>2, <2>3, <2>4, <2>5, <2>6, <2>7 DEF Next, Callback
<1>2. IInv /\ [Next]_vars => [Harmless]_vars
  BY <1>1
<1> QED BY <1>2, Inductive, PTL DEF Spec, StaleDisconnectEndsNothing
====
