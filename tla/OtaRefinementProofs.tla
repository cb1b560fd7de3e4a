---- MODULE OtaRefinementProofs ----
(***************************************************************************)
(* OtaClient implements OtaService: every step of the client is a step of  *)
(* the service or leaves its variables alone, with busy for a running job  *)
(* and the announced length for its size.                                  *)
(***************************************************************************)
EXTENDS OtaClientProofs

LEMMA InitImplements == Init => Service!Init
  BY DEF Init, Service!Init

\* What the service does not see.
LEMMA Hidden ==
    ASSUME UNCHANGED <<busy, otype, clen, stored, verdict>>
    PROVE  UNCHANGED Service!vars
  BY DEF Service!vars

LEMMA CrashHidden ==
    ASSUME NEW why, Crash(why)
    PROVE  UNCHANGED Service!vars
  BY Hidden DEF Crash, globalVars, atVars, flashVars

\* An attempt that exists is a running job, with nothing stored unless it is an
\* upgrade.
LEMMA LiveIsRunning ==
    ASSUME IInv, upg = "live"
    PROVE  /\ busy /\ verdict = "none"
           /\ stored = faddr /\ (otype # "UPGRADE" => stored = 0)
           /\ stored \in Nat /\ clen \in Nat /\ total \in Nat /\ idx \in Nat
  BY DEF IInv, LockedExactlyWhileUpdating, Accounted, TypeOK

\* Every end of an attempt without success is the failure of the job.
LEMMA AbortImplements ==
    ASSUME IInv, upg = "live", NEW i, EndAttempt(FALSE, i),
           otype' = otype, clen' = clen \/ clen = 0,
           stored' >= stored, otype # "UPGRADE" => stored' = 0
    PROVE  Service!Abort
  BY LiveIsRunning DEF EndAttempt, Service!Abort

\* The ends that do not come with data.
LEMMA QuietAbortImplements ==
    ASSUME IInv, upg = "live", NEW i, EndAttempt(FALSE, i), UNCHANGED <<otype, clen, flashVars>>
    PROVE  Service!Abort
<1>1. stored' = stored /\ otype' = otype /\ clen' = clen
  BY DEF flashVars
<1>2. stored' >= stored /\ (otype # "UPGRADE" => stored' = 0)
  BY <1>1, LiveIsRunning
<1> QED BY <1>1, <1>2, AbortImplements

-----------------------------------------------------------------------------

LEMMA StartImplements ==
    ASSUME IInv, NEW t \in OtaTypes, at_ota_start(t)
    PROVE  Service!Begin(t) \/ Service!Refuse(t)
<1>1. ~busy /\ otype' = t
  BY DEF at_ota_start
<1>2. ASSUME StartRefused, clen' = clen PROVE Service!Refuse(t)
  BY <1>1, <1>2 DEF StartRefused, Service!Refuse
<1>3. CASE AlreadyStarted \/ NoRam
  BY <1>2, <1>3 DEF AlreadyStarted, NoRam
<1>4. CASE DnsError
  BY <1>1, <1>4 DEF DnsError, Service!Refuse
<1>5. ASSUME NEW c \in Conns, Started(c) PROVE Service!Begin(t)
  BY <1>1, <1>5 DEF Started, Service!Begin
<1> QED BY <1>3, <1>4, <1>5 DEF at_ota_start

LEMMA ResolvedImplements ==
    ASSUME IInv, NEW c \in Conns, upgrade_resolved(c)
    PROVE  Service!Abort \/ UNCHANGED Service!vars
<1>1. CASE upg # "live"
  BY <1>1, CrashHidden DEF upgrade_resolved
<1>2. CASE upg = "live" /\ DropOwnConn(net)
  BY <1>2, QuietAbortImplements DEF upgrade_resolved, DropOwnConn
<1>3. CASE upg = "live" /\ UNCHANGED atVars
  BY <1>3, Hidden DEF upgrade_resolved, atVars, flashVars
<1> QED BY <1>1, <1>2, <1>3 DEF upgrade_resolved

LEMMA ConnectedImplements ==
    ASSUME IInv, NEW c \in Conns, upgrade_connect_cb(c)
    PROVE  Service!Abort \/ UNCHANGED Service!vars
<1>1. CASE \E why \in Faults : Crash(why)
  BY <1>1, CrashHidden
<1>2. CASE upg = "live" /\ UNCHANGED <<clen, otype, flashVars>> /\ EndAttempt(FALSE, idx)
  BY <1>2, QuietAbortImplements
<1>3. CASE UNCHANGED <<clen, otype, flashVars, atVars>>
  BY <1>3, Hidden DEF atVars, flashVars
<1> QED BY <1>1, <1>2, <1>3 DEF upgrade_connect_cb, FreedBlock, Faults

LEMMA DisconnectedImplements ==
    ASSUME IInv, NEW c \in Conns, upgrade_disconcb(c)
    PROVE  Service!Abort \/ UNCHANGED Service!vars
<1>1. CASE Crash("freed")
  BY <1>1, CrashHidden
<1>2. CASE upg = "live" /\ UNCHANGED <<clen, otype, flashVars>> /\ EndAttempt(FALSE, idx)
  BY <1>2, QuietAbortImplements
<1>3. CASE UNCHANGED <<clen, otype, flashVars, atVars>>
  BY <1>3, Hidden DEF atVars, flashVars
<1> QED BY <1>1, <1>2, <1>3 DEF upgrade_disconcb, FreedBlock, globalVars

LEMMA ErrorImplements ==
    ASSUME IInv, NEW c \in Conns, upgrade_recon_cb(c)
    PROVE  Service!Abort \/ UNCHANGED Service!vars
<1>1. CASE Crash("freed")
  BY <1>1, CrashHidden
<1>2. CASE upg = "live" /\ UNCHANGED <<clen, otype, flashVars>> /\ EndAttempt(FALSE, idx)
  BY <1>2, QuietAbortImplements
<1>3. CASE UNCHANGED <<clen, otype, flashVars, atVars>>
  BY <1>3, Hidden DEF atVars, flashVars
<1> QED BY <1>1, <1>2, <1>3 DEF upgrade_recon_cb, FreedBlock, DropOwnConn, globalVars

LEMMA TimeoutsImplement ==
    ASSUME IInv, ReceiveTimeout \/ connect_timeout_cb
    PROVE  Service!Abort
<1>1. upg = "live"
  BY DEF ReceiveTimeout, connect_timeout_cb, IInv, TimerHasAttempt
<1>2. EndAttempt(FALSE, idx) /\ UNCHANGED <<clen, otype, flashVars>>
  BY <1>1 DEF ReceiveTimeout, connect_timeout_cb, at_ota_deinit, DropOwnConn
<1> QED BY <1>1, <1>2, QuietAbortImplements

-----------------------------------------------------------------------------
(* Data. *)

\* A chunk adds to what is stored, and only an upgrade stores anything.
LEMMA ChunkStores ==
    ASSUME IInv, upg = "live", NEW length \in Nat, NEW w \in write_data(length)
    PROVE  w.stored >= stored /\ (otype # "UPGRADE" => w.stored = 0)
<1>1. Sector \in Nat /\ TypeOK
  BY SizesAssumption DEF IInv
<1>2. /\ otype # "UPGRADE" => w.stored = stored
      /\ w.stored = stored \/ (w.faddr = faddr + Sector /\ w.stored = w.faddr)
  BY <1>1, WriteDataFacts
<1> QED BY <1>1, <1>2, LiveIsRunning

LEMMA FailedImplements ==
    ASSUME IInv, upg = "live", NEW length \in Nat, NEW w \in write_data(length), Failed(w),
           otype' = otype, clen' = clen \/ clen = 0
    PROVE  Service!Abort
  BY ChunkStores, AbortImplements DEF Failed, at_ota_deinit

\* An accepted chunk is progress of the job, its success or its failure.
LEMMA AfterChunkImplements ==
    ASSUME IInv, upg = "live", NEW c \in Conns,
           NEW length \in Nat, NEW w \in write_data(length), w.ok,
           clen' = clen \/ (clen = 0 /\ clen' \in 0 .. FwMax - 1),
           clen' \in Nat, clen # 0 => clen' = clen,
           AfterChunk(c, w, total + length), otype' = otype
    PROVE  Service!Progress \/ Service!Complete \/ Service!Abort
<1> DEFINE t == total + length
           tail == w.idx > 0 /\ otype = "UPGRADE"
<1>1. w.stored >= stored /\ (otype # "UPGRADE" => w.stored = 0)
  BY ChunkStores
<1>2. /\ w.stored = w.faddr
      /\ otype = "UPGRADE" => w.faddr + w.idx = t
      /\ w.idx \in Nat /\ w.faddr \in Nat
  BY ChunkErases
<1>3. t \in Nat
  BY LiveIsRunning
<1>4. \/ /\ t = clen' /\ EndAttempt(TRUE, w.idx)
         /\ stored' = IF tail THEN w.faddr + w.idx ELSE w.stored
      \/ EndAttempt(FALSE, w.idx) /\ stored' = w.stored
      \/ t < clen' /\ stored' = w.stored /\ UNCHANGED atVars
  BY DEF AfterChunk, at_ota_deinit
<1> HIDE DEF t
<1>5. CASE /\ t = clen' /\ EndAttempt(TRUE, w.idx)
           /\ stored' = IF tail THEN w.faddr + w.idx ELSE w.stored
  <2>1. stored' = IF otype = "UPGRADE" THEN clen' ELSE 0
    BY <1>1, <1>2, <1>3, <1>5
  <2> QED BY <1>5, <2>1, LiveIsRunning DEF EndAttempt, Service!Complete
<1>6. CASE EndAttempt(FALSE, w.idx) /\ stored' = w.stored
  BY <1>1, <1>6, AbortImplements
<1>7. CASE t < clen' /\ stored' = w.stored /\ UNCHANGED atVars
  <2>1. clen' = clen \/ (clen = 0 /\ clen' \in 1 .. FwMax - 1)
    BY <1>3, <1>7, SizesAssumption
  <2> QED BY <1>1, <1>7, <2>1, LiveIsRunning DEF atVars, Service!Progress
<1> QED BY <1>4, <1>5, <1>6, <1>7

LEMMA ReceivedImplements ==
    ASSUME IInv, NEW c \in Conns, upgrade_recvcb(c)
    PROVE  \/ Service!Progress \/ Service!Complete \/ Service!Abort
           \/ UNCHANGED Service!vars
<1>1. CASE \E why \in Faults : Crash(why)
  BY <1>1, CrashHidden
<1>2. CASE upg = "live" /\ BadHeader
  BY <1>2, QuietAbortImplements DEF BadHeader, at_ota_deinit
<1>3. ASSUME upg = "live", clen = 0, NEW n \in 0 .. FwMax, NEW body \in 0 .. MaxChunk,
             FirstChunk(c, n, body), ~\E why \in Faults : Crash(why)
      PROVE  Service!Progress \/ Service!Complete \/ Service!Abort
  <2>1. body \in Nat /\ n \in Nat /\ total = 0 /\ body = total + body
    BY <1>3, SizesAssumption DEF IInv, TypeOK, Accounted
  <2>2. PICK w \in write_data(body) :
             /\ clen' = IF w.ok THEN n ELSE clen
             /\ IF w.ok /\ HeaderAccepted(n) THEN AfterChunk(c, w, body) ELSE Failed(w)
             /\ otype' = otype
    BY <1>3 DEF FirstChunk, Faults
  <2>3. CASE w.ok /\ HeaderAccepted(n)
    <3>1. clen' \in 0 .. FwMax - 1 /\ clen' \in Nat
      BY <2>1, <2>2, <2>3, SizesAssumption DEF HeaderAccepted
    <3>2. AfterChunk(c, w, total + body)
      BY <2>1, <2>2, <2>3
    <3> QED BY <1>3, <2>1, <2>2, <2>3, <3>1, <3>2, AfterChunkImplements
  <2>4. CASE ~(w.ok /\ HeaderAccepted(n))
    BY <1>3, <2>1, <2>2, <2>4, FailedImplements
  <2> QED BY <2>3, <2>4
<1>4. ASSUME upg = "live", NEW length \in 1 .. MaxChunk, NextChunk(c, length),
             ~\E why \in Faults : Crash(why)
      PROVE  Service!Progress \/ Service!Complete \/ Service!Abort
  <2>1. length \in Nat /\ clen \in Nat
    BY SizesAssumption DEF IInv, TypeOK
  <2>2. PICK w \in write_data(length) :
             /\ clen' = clen /\ otype' = otype
             /\ IF w.ok THEN AfterChunk(c, w, total + length) ELSE Failed(w)
    BY <1>4 DEF NextChunk, Faults
  <2>3. CASE w.ok
    BY <1>4, <2>1, <2>2, <2>3, AfterChunkImplements
  <2>4. CASE ~w.ok
    BY <1>4, <2>1, <2>2, <2>4, FailedImplements
  <2> QED BY <2>3, <2>4
<1> QED BY <1>1, <1>2, <1>3, <1>4 DEF upgrade_recvcb, FreedBlock, Faults

-----------------------------------------------------------------------------

LEMMA NextImplements ==
    ASSUME IInv, [Next]_vars
    PROVE  [Service!Next]_(Service!vars)
<1>1. ASSUME NEW t \in OtaTypes, at_ota_start(t) PROVE Service!Next
  BY <1>1, StartImplements DEF Service!Next
<1>2. ASSUME NEW c \in Conns, Callback(c) PROVE Service!Next \/ UNCHANGED Service!vars
  BY <1>2, ResolvedImplements, ConnectedImplements, ReceivedImplements,
     DisconnectedImplements, ErrorImplements DEF Callback, Service!Next
<1>3. ASSUME NEW c \in Conns, Network(c) PROVE UNCHANGED Service!vars
  BY <1>3, CrashHidden, Hidden
     DEF Network, PeerClose, ConnError, FreedBlock, globalVars, atVars, flashVars
<1>4. CASE ReceiveTimeout \/ connect_timeout_cb
  BY <1>4, TimeoutsImplement DEF Service!Next
<1>5. CASE Reboot
  <2>1. Service!Restart
    BY <1>5 DEF Reboot, Service!Restart, IInv, TypeOK
  <2> QED BY <2>1 DEF Service!Next
<1>6. CASE UNCHANGED vars
  BY <1>6, Hidden DEF vars
<1> QED BY <1>1, <1>2, <1>3, <1>4, <1>5, <1>6 DEF Next

\* The client of at-ota.c keeps the promises of OtaService to the command layer,
\* for every size of sector, chunk and content and however its callbacks and
\* failures interleave: one job at a time, one verdict each, and success only
\* with everything stored.
THEOREM Implements == Spec => ServiceSpec
<1>1. Init => Service!Init
  BY InitImplements
<1>2. IInv /\ [Next]_vars => [Service!Next]_(Service!vars)
  BY NextImplements
<1> QED BY <1>1, <1>2, Inductive, PTL DEF Spec, ServiceSpec, Service!Spec
====
