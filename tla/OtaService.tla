---- MODULE OtaService ----
(***************************************************************************)
(* What the OTA client of at_lobo/user/at-ota.c promises to the AT command *)
(* layer (at_upgrade.c) that calls it: a download job is begun at most     *)
(* once at a time, it ends with one verdict, and the verdict "ok" of a     *)
(* firmware upgrade is given only when every byte the server announced is  *)
(* in the flash.  How the connection, the timer and the sector buffer      *)
(* bring this about is the business of OtaClient, which implements this    *)
(* specification.                                                          *)
(***************************************************************************)
EXTENDS Naturals

CONSTANTS
    OtaTypes,   \* kinds of download the command layer asks for
    FwMax       \* a download of this size or more is refused (FW_MAXSIZE)

VARIABLES
    job,        \* "idle" or "running"
    kind,       \* the kind of the job begun last
    size,       \* the announced length of its content, 0 until it is known
    stored,     \* how many bytes of its content are in the flash
    verdict     \* what the command layer was told last

vars == <<job, kind, size, stored, verdict>>

Verdicts == {"none", "ok", "failed", "refused"}

Init ==
    /\ job = "idle"
    /\ kind \in OtaTypes
    /\ size = 0
    /\ stored = 0
    /\ verdict = "none"

\* The job is accepted: nothing of it has arrived yet.
Begin(t) ==
    /\ job = "idle"
    /\ job' = "running"
    /\ kind' = t
    /\ size' = 0
    /\ stored' = 0
    /\ verdict' = "none"

\* The job is not accepted, and the caller is told so.
Refuse(t) ==
    /\ job = "idle"
    /\ job' = "idle"
    /\ kind' = t
    /\ verdict' = "refused"
    /\ size' \in {0, size}
    /\ stored' \in {0, stored}

\* Content arrives: the size becomes known once and then stays, and only an
\* upgrade puts anything in the flash.
Progress ==
    /\ job = "running"
    /\ size' = size \/ (size = 0 /\ size' \in 1 .. FwMax - 1)
    /\ stored' >= stored
    /\ kind # "UPGRADE" => stored' = 0
    /\ UNCHANGED <<job, kind, verdict>>

\* The job succeeds, possibly with the chunk that announced its size.
Complete ==
    /\ job = "running"
    /\ job' = "idle"
    /\ size' = size \/ (size = 0 /\ size' \in 0 .. FwMax - 1)
    /\ stored' = IF kind = "UPGRADE" THEN size' ELSE 0
    /\ verdict' = "ok"
    /\ UNCHANGED kind

\* The job fails: what it had stored is of no use.
Abort ==
    /\ job = "running"
    /\ job' = "idle"
    /\ verdict' = "failed"
    /\ size' = size \/ size = 0
    /\ stored' >= stored
    /\ kind # "UPGRADE" => stored' = 0
    /\ UNCHANGED kind

\* The device restarts, whatever it was doing.
Restart == job' = "idle" /\ verdict' = "none" /\ size' = 0 /\ stored' = 0 /\ kind' \in OtaTypes

Next ==
    \/ \E t \in OtaTypes : Begin(t) \/ Refuse(t)
    \/ Progress
    \/ Complete
    \/ Abort
    \/ Restart

Spec == Init /\ [][Next]_vars
====
