---- MODULE TcpLinks ----
(***************************************************************************)
(* The links of at_lobo/user/at_extra_cmd.c: AT+TCPSTART, AT+TCPSEND,      *)
(* AT+TCPCLOSE, AT+TCPSERVER for one server, and the callbacks of espconn. *)
(*                                                                         *)
(* A callback is given the espconn block of a connection, for the links of *)
(* a server mostly the block of the server with the fields of the          *)
(* connection copied into it, and finds its link by the remote address     *)
(* (_get_tcpn).  The program knows a connection by its slot in tcpconns,   *)
(* the library by the block: both must agree.                              *)
(*                                                                         *)
(* Commands and callbacks do not interrupt each other.  One callback, that *)
(* of received data, waits for characters of the host: what comes of that  *)
(* is either that the data was taken or that the connection is aborted.    *)
(*                                                                         *)
(* The addresses need not differ: `spoiled' keeps those where what the     *)
(* program knows may be wrong from now on, and the properties say that all *)
(* others are right.  Where the code goes on with freed memory or a null   *)
(* record it has `faulted' and nothing more is said.                       *)
(*                                                                         *)
(* Freeing the block of a server's link a second time, which the library   *)
(* does after the program has, is taken to do nothing, and a block freed   *)
(* under a connection of the library is not handed out again.              *)
(***************************************************************************)
EXTENDS Naturals, FiniteSets

CONSTANTS
    Links,      \* the slots of tcpconns: 0 .. TCPCONN_MAX_CONN - 1
    Blocks,     \* espconn blocks there is memory for
    Peers,      \* remote addresses, <<ip, port>>
    None,
    MaxConn,    \* the server's maxconn
    MaxSpoiled  \* addresses that get spoiled, a bound of the model

ASSUME LinksAssumption ==
    /\ Links \subseteq Nat /\ IsFiniteSet(Links) /\ Blocks \subseteq Nat
    /\ MaxConn \in Nat \ {0} /\ MaxSpoiled \in Nat

\* tcpconn_t, of a link in use.
Link ==
    [conn : Blocks, peer : Peers \cup {None}, connected : BOOLEAN, parrent : {"client", "server"}]

\* tcpserver_t and the server's block.
Server == [connected : 0 .. MaxConn, disconcb : BOOLEAN]

\* The block of a connection and what the library keeps of it.
Connection ==
    [stage : {"resolving", "connecting", "open", "closing", "failed", "idle", "dangling"},
     peer : Peers, child : BOOLEAN, disconcb : BOOLEAN, unacked : BOOLEAN]

ASSUME NoneAssumption ==
    None \notin Peers /\ None \notin Link /\ None \notin Server /\ None \notin Connection

VARIABLES
    tcpconns,   \* None, or conn, peer (known once resolved), connected, parrent
    tcpserver,  \* None, or connected and the disconnect callback in its block
    orphaned,   \* the library has a server whose block was freed
    conns,      \* None, or what the library and the block keep of a connection
    locked,     \* the interpreter is in its special state
    faulted,    \* freed memory or a null record has been used
    owed        \* AT+TCPSTART commands without a final result, by address

\* History of the addresses: those where something below happened, and whether
\* a client's connection and a link of the server ever had the same one.
VARIABLES spoiled, mixed

history == <<spoiled, mixed>>
vars == <<tcpconns, tcpserver, orphaned, conns, locked, faulted, owed, spoiled, mixed>>

Used == {n \in Links : tcpconns[n] # None}
Held == {b \in Blocks : conns[b] # None}
ServerLinks == {n \in Used : tcpconns[n].parrent = "server"}
Stage(b, s) == b \in Held /\ conns[b].stage = s
Live(b) == Stage(b, "open") \/ Stage(b, "connecting")

\* From now on what the program knows of these addresses may be wrong.
Spoils(ps) == spoiled' = spoiled \cup ps /\ Cardinality(spoiled') <= MaxSpoiled

\* A new connection spoils its address if another connection or link has it, or
\* if its block is one that a link still names, see BrokenChild.
Taken(p) == (\E c \in Held : conns[c].peer = p) \/ (\E n \in Used : tcpconns[n].peer = p)
Named(b) == \E n \in Used : tcpconns[n].conn = b
Begun(b, p) == Spoils(IF Taken(p) \/ Named(b) THEN {p} ELSE {})

\* Memory is any block that is free.  Those no link names are alike: it is the
\* first of them.
Allocated(b) ==
    /\ b \notin Held
    /\ Named(b) \/ \A c \in Blocks \ Held : ~Named(c) => b <= c

\* Faulty variant of _get_tcpn: the port is not compared.
_get_tcpn_IpOnly(p) ==
    {n \in Used : /\ tcpconns[n].peer # None /\ tcpconns[n].peer[1] = p[1]
                  /\ \A m \in Used :
                       tcpconns[m].peer # None /\ tcpconns[m].peer[1] = p[1] => n <= m}

\* The link with this remote address: a set of one link or none.
_get_tcpn(p) ==
    {n \in Used : /\ tcpconns[n].peer = p
                  /\ \A m \in Used : tcpconns[m].peer = p => n <= m}

\* tcpconn_cleanup of the links ns, when the connection of block b has ended: a
\* block freed while the library has a connection on it is dangling.
Cleaned(ns, b, left) ==
    LET freed == {tcpconns[n].conn : n \in ns} IN
    /\ tcpconns' = [n \in Links |-> IF n \in ns THEN None ELSE tcpconns[n]]
    /\ conns' = [c \in Blocks |->
                   IF c = b THEN IF c \in freed THEN None ELSE left
                   ELSE IF c \in freed \cap Held THEN [conns[c] EXCEPT !.stage = "dangling", !.unacked = FALSE]
                   ELSE conns[c]]

\* What is left of a client's block nobody frees, and of a server link's.
Left(b) == IF conns[b].child THEN None ELSE [conns[b] EXCEPT !.stage = "idle"]

\* A final result in an event for this address, followed while it is not spoiled.
Answered(p) == owed' = IF p \in spoiled THEN owed ELSE [owed EXCEPT ![p] = @ - 1]

\* A connection that ends takes no more data.
Ending(b, stage) == [conns[b] EXCEPT !.stage = stage, !.unacked = FALSE]

\* espconn_disconnect of the connections in bs, where it finds one.  A connection
\* closed before it is established tells nobody.
Disconnected(bs) ==
    /\ conns' = [b \in Blocks |-> IF b \in bs /\ Live(b) THEN Ending(b, "closing") ELSE conns[b]]
    /\ Spoils({conns[b].peer : b \in {c \in bs : Stage(c, "connecting")}})

-----------------------------------------------------------------------------
(* Client links *)

\* AT+TCPSTART.  A numeric address is resolved at once, which is one of the
\* orders here.
at_setupCmdTCPConnConnect(n, b, p) ==
    /\ ~locked
    /\ n \notin Used /\ Allocated(b)
    /\ tcpconns' = [tcpconns EXCEPT ![n] =
                      [conn |-> b, peer |-> None, connected |-> FALSE, parrent |-> "client"]]
    /\ conns' = [conns EXCEPT ![b] =
                   [stage |-> "resolving", peer |-> p, child |-> FALSE,
                    disconcb |-> FALSE, unacked |-> FALSE]]
    /\ locked' = TRUE
    /\ Begun(b, p)
    /\ owed' = IF p \in spoiled' THEN owed ELSE [owed EXCEPT ![p] = @ + 1]
    /\ mixed' = (mixed \/ \E m \in ServerLinks : tcpconns[m].peer = p)
    /\ UNCHANGED <<tcpserver, orphaned, faulted>>

\* The link is found by `parrent', which is its own.  What espconn_connect
\* returns is not looked at: when it refuses nobody will answer the command.
tcpconn_resolved(b) ==
    /\ Stage(b, "resolving")
    /\ \E n \in Used :
         /\ tcpconns[n].conn = b /\ tcpconns[n].peer = None
         /\ \/ /\ Cleaned({n}, b, None)
               /\ locked' = FALSE
               /\ Answered(conns[b].peer)
               /\ UNCHANGED spoiled
            \/ /\ tcpconns' = [tcpconns EXCEPT ![n].peer = conns[b].peer]
               /\ \/ /\ conns' = [conns EXCEPT ![b].stage = "connecting"]
                     /\ UNCHANGED spoiled
                  \/ /\ conns' = [conns EXCEPT ![b].stage = "idle"]
                     /\ Spoils({conns[b].peer})
               /\ UNCHANGED <<locked, owed>>
    /\ UNCHANGED <<tcpserver, orphaned, faulted, mixed>>

\* Faulty variant of Connected: the link is not marked.
Connected_Unmarked(ns) == tcpconns' = tcpconns

Connected(ns) ==
    tcpconns' = [n \in Links |-> IF n \in ns THEN [tcpconns[n] EXCEPT !.connected = TRUE]
                                              ELSE tcpconns[n]]

\* Without a link for the address the answer is ERROR.
tcpconn_connect_cb(b) ==
    LET ns == _get_tcpn(conns[b].peer) IN
    /\ Stage(b, "connecting")
    /\ Connected(ns)
    /\ conns' = [conns EXCEPT ![b].stage = "open", ![b].disconcb = (ns # {})]
    /\ locked' = FALSE
    /\ Answered(conns[b].peer)
    /\ UNCHANGED <<tcpserver, orphaned, faulted, history>>

\* Faulty variants of tcpconn_recon_cb: a link that was connected is answered
\* too; one that was not is not answered.
tcpconn_recon_cb_Always(b) ==
    LET ns == _get_tcpn(conns[b].peer) IN
    /\ locked' = FALSE
    /\ IF ns # {} THEN Answered(conns[b].peer) ELSE UNCHANGED owed
    /\ Cleaned(ns, b, [conns[b] EXCEPT !.stage = "idle"])

tcpconn_recon_cb_Silent(b) ==
    LET ns == _get_tcpn(conns[b].peer) IN
    /\ locked' = FALSE
    /\ UNCHANGED owed
    /\ Cleaned(ns, b, [conns[b] EXCEPT !.stage = "idle"])

\* A connection of a client that ends by an error.
tcpconn_recon_cb(b) ==
    LET ns == _get_tcpn(conns[b].peer) IN
    /\ locked' = FALSE
    /\ IF \E n \in ns : ~tcpconns[n].connected THEN Answered(conns[b].peer) ELSE UNCHANGED owed
    /\ Cleaned(ns, b, [conns[b] EXCEPT !.stage = "idle"])

-----------------------------------------------------------------------------
(* Commands for a link *)

\* AT+TCPCLOSE; on a link not connected it answers OK and does nothing.
at_setupCmdTCPClose(n) ==
    /\ ~locked
    /\ n \in Used /\ tcpconns[n].connected
    /\ Disconnected({tcpconns[n].conn})
    /\ UNCHANGED <<tcpconns, tcpserver, orphaned, locked, faulted, owed, mixed>>

\* AT+TCPSEND: the data is on its way, or it is not and the connection is closed,
\* though it may be one whose AT+TCPSTART is under way.  The library holds one
\* piece at a time.
at_setupCmdTCPSend(n) ==
    LET b == tcpconns[n].conn IN
    /\ ~locked
    /\ n \in Used
    /\ \/ /\ Stage(b, "open") /\ ~conns[b].unacked
          /\ conns' = [conns EXCEPT ![b].unacked = TRUE]
          /\ locked' = TRUE
          /\ UNCHANGED spoiled
       \/ /\ Disconnected({b})
          /\ UNCHANGED locked
    /\ UNCHANGED <<tcpconns, tcpserver, orphaned, faulted, owed, mixed>>

tcpconn_sendcb(b) ==
    /\ Stage(b, "open") /\ conns[b].unacked
    /\ conns' = [conns EXCEPT ![b].unacked = FALSE]
    /\ locked' = FALSE
    /\ UNCHANGED <<tcpconns, tcpserver, orphaned, faulted, owed, history>>

\* Data: the host takes it, or asks for an abort or is late.
tcpconn_recvcb(b) ==
    /\ Stage(b, "open")
    /\ _get_tcpn(conns[b].peer) # {}
    /\ locked' = FALSE
    /\ \/ UNCHANGED <<conns, spoiled>>
       \/ /\ \A n \in _get_tcpn(conns[b].peer) : tcpconns[n].connected
          /\ Disconnected({b})
    /\ UNCHANGED <<tcpconns, tcpserver, orphaned, faulted, owed, mixed>>

-----------------------------------------------------------------------------
(* The server *)

\* The program uses freed memory or a null record: nothing is left of its state,
\* and the model ends here.
Fault ==
    /\ faulted' = TRUE
    /\ tcpconns' = [n \in Links |-> None] /\ tcpserver' = None /\ orphaned' = FALSE
    /\ conns' = [b \in Blocks |-> None] /\ locked' = FALSE /\ owed' = [p \in Peers |-> 0]
    /\ spoiled' = {} /\ mixed' = FALSE

\* AT+TCPSERVER=0,1
CreateServer ==
    /\ ~locked
    /\ tcpserver = None
    /\ tcpserver' = [connected |-> 0, disconcb |-> FALSE]
    /\ UNCHANGED <<tcpconns, orphaned, conns, locked, faulted, owed, history>>

\* AT+TCPSERVER=0,0: the server's links are closed, which ends later.  The library
\* keeps a server that has connections, but its block and its record are freed.
DeleteServer ==
    /\ ~locked
    /\ tcpserver # None
    /\ Disconnected({tcpconns[n].conn : n \in ServerLinks})
    /\ orphaned' = (orphaned \/ \E b \in Held : conns[b].child)
    /\ tcpserver' = None
    /\ UNCHANGED <<tcpconns, locked, faulted, owed, mixed>>

\* A connection comes in; its block is a copy of the server's.  It gets the
\* first free link unless there is none, the server has its number, or there is
\* no memory.
tcpserver_client_connect_cb(b, p) ==
    /\ tcpserver # None
    /\ Allocated(b)
    /\ \/ \E n \in Links \ Used :
             /\ \A m \in Links \ Used : n <= m
             /\ tcpserver.connected < MaxConn
             /\ tcpserver' = [tcpserver EXCEPT !.connected = @ + 1]
             /\ tcpconns' = [tcpconns EXCEPT ![n] =
                               [conn |-> b, peer |-> p, connected |-> TRUE, parrent |-> "server"]]
             /\ conns' = [conns EXCEPT ![b] =
                            [stage |-> "open", peer |-> p, child |-> TRUE,
                             disconcb |-> TRUE, unacked |-> FALSE]]
             /\ mixed' = (mixed \/ \E c \in Held : ~conns[c].child /\ conns[c].peer = p)
       \/ /\ conns' = [conns EXCEPT ![b] =
                         [stage |-> "closing", peer |-> p, child |-> TRUE,
                          disconcb |-> tcpserver.disconcb, unacked |-> FALSE]]
          /\ UNCHANGED <<tcpconns, tcpserver, mixed>>
    /\ Begun(b, p)
    /\ UNCHANGED <<orphaned, locked, faulted, owed>>

\* Faulty variant of Departed: the count is left as it is.
Departed_Uncounted(b) == [tcpserver EXCEPT !.disconcb = conns[b].disconcb]

\* A connection of the server has ended: the server's block takes over its
\* callbacks, and the one for disconnecting counts.
Departed(b) ==
    [connected |-> IF conns[b].disconcb /\ tcpserver.connected > 0
                   THEN tcpserver.connected - 1 ELSE tcpserver.connected,
     disconcb  |-> conns[b].disconcb]

\* tcpconn_disconcb, if it is registered.
tcpconn_disconcb(b) ==
    /\ tcpserver' = IF conns[b].child THEN Departed(b) ELSE tcpserver
    /\ Cleaned(IF conns[b].disconcb THEN _get_tcpn(conns[b].peer) ELSE {}, b, Left(b))
    /\ UNCHANGED <<orphaned, locked, faulted, owed, history>>

\* A server registers no callback for errors: when one of its connections ends
\* by an error the block is freed and the link stays.
BrokenChild(b) ==
    /\ conns' = [conns EXCEPT ![b] = None]
    /\ tcpserver' = [tcpserver EXCEPT !.disconcb = conns[b].disconcb]
    /\ Spoils(IF Named(b) THEN {conns[b].peer} ELSE {})
    /\ UNCHANGED <<tcpconns, orphaned, locked, faulted, owed, mixed>>

-----------------------------------------------------------------------------
(* The library *)

\* The other side closes, or a server's link has been idle too long.
PeerCloses(b) ==
    /\ Stage(b, "open")
    /\ conns' = [conns EXCEPT ![b] = Ending(b, "closing")]
    /\ UNCHANGED <<tcpconns, tcpserver, orphaned, locked, faulted, owed, history>>

\* A client's attempt fails, or a connection is reset or times out.
Reset(b) ==
    /\ Live(b)
    /\ conns' = [conns EXCEPT ![b] = Ending(b, "failed")]
    /\ UNCHANGED <<tcpconns, tcpserver, orphaned, locked, faulted, owed, history>>

\* A posted event comes to its turn.
espconn_Task(b) ==
    /\ b \in Held /\ (conns[b].child => tcpserver # None)
    /\ \/ /\ Stage(b, "closing")
          /\ tcpconn_disconcb(b)
       \/ /\ Stage(b, "failed") /\ ~conns[b].child
          /\ tcpconn_recon_cb(b)
          /\ UNCHANGED <<tcpserver, orphaned, faulted, history>>
       \/ /\ Stage(b, "failed") /\ conns[b].child
          /\ BrokenChild(b)

\* An event of a connection whose block was freed, or of one of an orphaned
\* server, or a new connection of that: the block and the record are used, which
\* ends well at most if another server has been created meanwhile.
UsesFreed(b) ==
    /\ \/ Stage(b, "dangling")
       \/ orphaned /\ b \notin Held
       \/ orphaned /\ b \in Held /\ conns[b].child /\ conns[b].stage \in {"closing", "failed"}
    /\ Fault

-----------------------------------------------------------------------------

Init ==
    /\ tcpconns = [n \in Links |-> None]
    /\ tcpserver = None
    /\ orphaned = FALSE
    /\ conns = [b \in Blocks |-> None]
    /\ locked = FALSE
    /\ faulted = FALSE
    /\ owed = [p \in Peers |-> 0]
    /\ spoiled = {}
    /\ mixed = FALSE

Command ==
    \/ \E n \in Links, b \in Blocks, p \in Peers : at_setupCmdTCPConnConnect(n, b, p)
    \/ \E n \in Links : at_setupCmdTCPClose(n) \/ at_setupCmdTCPSend(n)
    \/ CreateServer \/ DeleteServer

Event(b) ==
    \/ tcpconn_resolved(b) \/ tcpconn_connect_cb(b)
    \/ tcpconn_sendcb(b) \/ tcpconn_recvcb(b)
    \/ \E p \in Peers : tcpserver_client_connect_cb(b, p)
    \/ PeerCloses(b) \/ Reset(b) \/ espconn_Task(b) \/ UsesFreed(b)

Next == ~faulted /\ (Command \/ \E b \in Blocks : Event(b))

\* The name server answers or the resolver gives up, an attempt to connect ends
\* after its last retransmission, and posted events are handled.
Fairness ==
    \A b \in Blocks :
        /\ WF_vars(~faulted /\ tcpconn_resolved(b))
        /\ WF_vars(~faulted /\ (tcpconn_connect_cb(b) \/ (Stage(b, "connecting") /\ Reset(b))))
        /\ WF_vars(~faulted /\ espconn_Task(b))

Spec == Init /\ [][Next]_vars
FairSpec == Spec /\ Fairness

-----------------------------------------------------------------------------
(* Properties *)

\* Every variable keeps its type.
TypeOK ==
    /\ tcpconns \in [Links -> {None} \cup Link]
    /\ tcpserver \in {None} \cup Server
    /\ orphaned \in BOOLEAN
    /\ conns \in [Blocks -> {None} \cup Connection]
    /\ locked \in BOOLEAN
    /\ faulted \in BOOLEAN
    /\ owed \in [Peers -> 0 .. 1]
    /\ spoiled \subseteq Peers
    /\ mixed \in BOOLEAN

\* Whatever happens to other links, the links and connections of an address that
\* is not spoiled correspond: a connection has one link, on its own block, with
\* its own address, or is one a server is refusing; its block is not freed under
\* it; and a link that knows such an address has a connection to it.
LinksMatch ==
    /\ \A b \in Held : conns[b].peer \notin spoiled =>
         /\ conns[b].stage \notin {"idle", "dangling"}
         /\ \A n, m \in Used : tcpconns[n].conn = b /\ tcpconns[m].conn = b => n = m
         /\ \/ \E n \in Used : /\ tcpconns[n].conn = b
                               /\ tcpconns[n].peer \in {None, conns[b].peer}
                               /\ conns[b].child = (tcpconns[n].parrent = "server")
            \/ conns[b].child /\ conns[b].stage = "closing"
    /\ \A n \in Used : tcpconns[n].peer \notin spoiled =>
         LET b == tcpconns[n].conn IN
         /\ b \in Held
         /\ tcpconns[n].peer \in {None, conns[b].peer}

\* As long as a client's connection never had the address of a link of the server,
\* the server never counts a link it does not have, so it is never full with
\* links to spare, whatever connections it refused and however they ended.
CountRight == tcpserver # None /\ ~mixed => tcpserver.connected <= Cardinality(ServerLinks)

\* The links on a connection to this address that are not connected.
Waiting(p) ==
    {n \in Used : LET b == tcpconns[n].conn IN
                  ~tcpconns[n].connected /\ b \in Held /\ conns[b].peer = p}

\* Each AT+TCPSTART to an address that is not spoiled has one final result: it is
\* owed as long as the link exists and is not connected, and not after, though
\* data and closing of other links unlock the interpreter in between.
OwedExactly ==
    \A p \in Peers \ spoiled : owed[p] = IF Waiting(p) # {} THEN 1 ELSE 0

\* Each AT+TCPSTART is answered in the end, unless its address is spoiled (which it
\* is when espconn_connect refuses or the host sends too early) or the program
\* faults.
StartAnswered == \A p \in Peers : owed[p] = 1 ~> owed[p] = 0 \/ p \in spoiled \/ faulted

====
