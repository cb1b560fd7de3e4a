---- MODULE TcpLinksProofs ----
(***************************************************************************)
(* Proofs about TcpLinks, for every number of links, blocks and remote     *)
(* addresses, whatever spoils how many of the addresses.                   *)
(***************************************************************************)
EXTENDS TcpLinks, FiniteSetTheorems, TLAPS

\* The links on a block: what a callback means when it asks for an address.
Owner(b) == {n \in Used : tcpconns[n].conn = b}

\* What the program knows of a link fits what the library has of its connection.
Fits(link, connection) ==
    /\ connection.child = (link.parrent = "server")
    /\ link.peer = IF connection.stage = "resolving" THEN None ELSE connection.peer
    /\ connection.stage \in {"resolving", "connecting"} => ~link.connected
    /\ connection.stage \in {"open", "closing"} => link.connected /\ connection.disconcb
    /\ connection.child => link.connected

\* All is well at an address: at most one connection has it, with one link on its
\* block, or none while a server refuses it, and every link with the address is
\* on that connection.
Good(p) ==
    /\ \A b, c \in Held : conns[b].peer = p /\ conns[c].peer = p => b = c
    /\ \A b \in Held : conns[b].peer = p =>
         /\ conns[b].stage \notin {"idle", "dangling"}
         /\ \A n, m \in Owner(b) : n = m
         /\ Owner(b) = {} => conns[b].child /\ conns[b].stage = "closing"
         /\ \A n \in Owner(b) : Fits(tcpconns[n], conns[b])
    /\ \A n \in Used : tcpconns[n].peer = p =>
         tcpconns[n].conn \in Held /\ conns[tcpconns[n].conn].peer = p
    /\ owed[p] = IF Waiting(p) # {} THEN 1 ELSE 0

\* A link that does not know its address is a client's, alone on a block that is
\* being resolved or was freed meanwhile.
Unresolved ==
    \A n \in Used : tcpconns[n].peer = None =>
        /\ tcpconns[n].parrent = "client"
        /\ tcpconns[n].conn \in Held
        /\ conns[tcpconns[n].conn].stage \in {"resolving", "dangling"}
        /\ \A m \in Used : tcpconns[m].peer = None /\ tcpconns[m].conn = tcpconns[n].conn => m = n

\* No client's connection has the address of a link of the server.
Unmixed ==
    ~mixed => \A b \in Held, n \in ServerLinks : ~conns[b].child => conns[b].peer # tcpconns[n].peer

\* The inductive invariant.
IInv == /\ TypeOK /\ Unresolved /\ Unmixed /\ CountRight
        /\ \A p \in Peers \ spoiled : Good(p)

-----------------------------------------------------------------------------
(* Finding a link *)

\* A link in use is a record, and so is a block.
LEMMA Records ==
    ASSUME TypeOK
    PROVE  /\ \A n \in Used : /\ n \in Links /\ n \in Nat /\ tcpconns[n] \in Link
                              /\ tcpconns[n].conn \in Blocks /\ tcpconns[n].peer \in Peers \cup {None}
                              /\ tcpconns[n].connected \in BOOLEAN
                              /\ tcpconns[n].parrent \in {"client", "server"}
           /\ \A b \in Held : /\ b \in Blocks /\ conns[b] \in Connection /\ conns[b].peer \in Peers
                              /\ conns[b].peer # None /\ conns[b].child \in BOOLEAN
                              /\ conns[b].disconcb \in BOOLEAN
<1>1. \A n \in Used : n \in Links /\ n \in Nat /\ tcpconns[n] \in Link
  BY LinksAssumption DEF TypeOK, Used
<1>2. \A b \in Held : b \in Blocks /\ conns[b] \in Connection
  BY DEF TypeOK, Held
<1>3. \A l \in Link : /\ l.conn \in Blocks /\ l.peer \in Peers \cup {None}
                      /\ l.connected \in BOOLEAN /\ l.parrent \in {"client", "server"}
  BY DEF Link
<1>4. \A c \in Connection : c.peer \in Peers /\ c.child \in BOOLEAN /\ c.disconcb \in BOOLEAN
  BY DEF Connection
<1> QED BY <1>1, <1>2, <1>3, <1>4, NoneAssumption

\* A link on the connection of an address that is not spoiled has that address
\* or none.
LEMMA Crossing ==
    ASSUME IInv, NEW n \in Used, tcpconns[n].conn \in Held,
           conns[tcpconns[n].conn].peer \notin spoiled
    PROVE  tcpconns[n].peer \in {None, conns[tcpconns[n].conn].peer}
<1>1. PICK p \in Peers \ spoiled : p = conns[tcpconns[n].conn].peer
  BY Records DEF IInv
<1>2. Good(p) /\ n \in Owner(tcpconns[n].conn)
  BY <1>1 DEF IInv, Owner
<1>3. Fits(tcpconns[n], conns[tcpconns[n].conn])
  BY <1>1, <1>2 DEF Good
<1> QED BY <1>3 DEF Fits

\* _get_tcpn finds the link of a connection whose address is not spoiled, and no
\* other.
LEMMA FindsOwner ==
    ASSUME IInv, NEW b \in Held, conns[b].peer \notin spoiled, conns[b].stage # "resolving"
    PROVE  _get_tcpn(conns[b].peer) = Owner(b)
<1>1. PICK p \in Peers \ spoiled : p = conns[b].peer
  BY Records DEF IInv
<1>2. Good(p) /\ p # None
  BY <1>1, Records DEF IInv
<1>3. \A n \in Used : tcpconns[n].peer = p => n \in Owner(b)
  BY <1>1, <1>2 DEF Good, Owner
<1>4. \A n \in Owner(b) : n \in Used /\ tcpconns[n].peer = p
  BY <1>1, <1>2 DEF Good, Owner, Fits
<1>5. \A n, m \in Owner(b) : n = m
  BY <1>1, <1>2 DEF Good
<1>6. \A n \in Owner(b) : n <= n
  BY <1>4, Records DEF IInv
<1> QED BY <1>1, <1>3, <1>4, <1>5, <1>6 DEF _get_tcpn

\* There is at most one link on such a connection, and a client's has one.
LEMMA OwnerFacts ==
    ASSUME IInv, NEW b \in Held, conns[b].peer \notin spoiled
    PROVE  /\ conns[b].stage \notin {"idle", "dangling"}
           /\ \A n \in Owner(b) : /\ n \in Used /\ tcpconns[n].conn = b
                                  /\ Fits(tcpconns[n], conns[b])
                                  /\ Owner(b) = {n}
           /\ Owner(b) = {} => conns[b].child /\ conns[b].stage = "closing"
<1>1. PICK p \in Peers \ spoiled : p = conns[b].peer
  BY Records DEF IInv
<1>2. Good(p)
  BY <1>1 DEF IInv
<1>3. \A n \in Owner(b) : n \in Used /\ tcpconns[n].conn = b
  BY DEF Owner
<1>4. \A n, m \in Owner(b) : n = m
  BY <1>1, <1>2 DEF Good
<1>5. \A n \in Owner(b) : Owner(b) = {n}
  BY <1>4
<1> QED BY <1>1, <1>2, <1>3, <1>5 DEF Good

-----------------------------------------------------------------------------
(* Steps at one address *)

\* Where a block or a link that changes may be: at p or at a spoiled address.
BlockAt(b, p) == b \in Held => conns[b].peer \in {p} \cup spoiled
LinkAt(n, p) ==
    n \in Used => /\ tcpconns[n].peer \in {None, p} \cup spoiled
                  /\ BlockAt(tcpconns[n].conn, p)

\* A step that leaves every address alone that is not p and not spoiled.
Concerns(p) ==
    /\ spoiled \subseteq spoiled' /\ spoiled' \subseteq spoiled \cup {p}
    /\ \A b \in Blocks : conns'[b] = conns[b] \/ (BlockAt(b, p) /\ BlockAt(b, p)')
    /\ \A n \in Links : tcpconns'[n] = tcpconns[n] \/ (LinkAt(n, p) /\ LinkAt(n, p)')
    /\ \A q \in Peers : q # p => owed'[q] = owed[q]

\* Such a step keeps all other addresses good.
LEMMA OthersGood ==
    ASSUME TypeOK, TypeOK', NEW p \in Peers, Concerns(p), NEW q \in Peers, q # p, q \notin spoiled',
           Good(q)
    PROVE  Good(q)'
<1>1. q \notin spoiled /\ q # None /\ q \notin {None, p} \cup spoiled
  BY NoneAssumption DEF Concerns
<1>2. \A b \in Blocks : \/ conns'[b] = conns[b]
                        \/ /\ b \in Held => conns[b].peer # q
                           /\ b \in Held' => conns'[b].peer # q
  BY <1>1 DEF Concerns, BlockAt
<1>3. \A b : b \in Held /\ conns[b].peer = q <=> b \in Held' /\ conns'[b].peer = q
  BY <1>2 DEF Held
<1>4. \A b \in Held : conns[b].peer = q => conns'[b] = conns[b] /\ b \in Held' /\ b \in Blocks
  BY <1>2, <1>3 DEF Held
<1>5. \A n \in Links : \/ tcpconns'[n] = tcpconns[n]
                       \/ /\ n \in Used => /\ tcpconns[n].peer # q
                                           /\ tcpconns[n].conn \in Held => conns[tcpconns[n].conn].peer # q
                          /\ n \in Used' => /\ tcpconns'[n].peer # q
                                            /\ tcpconns'[n].conn \in Held' => conns'[tcpconns'[n].conn].peer # q
  BY <1>1 DEF Concerns, LinkAt, BlockAt
<1>6. \A b \in Held : conns[b].peer = q =>
         /\ Owner(b) = Owner(b)'
         /\ \A n \in Owner(b) : tcpconns'[n] = tcpconns[n]
  <2> SUFFICES ASSUME NEW b \in Held, conns[b].peer = q
               PROVE  /\ Owner(b) = Owner(b)'
                      /\ \A n \in Owner(b) : tcpconns'[n] = tcpconns[n]
    OBVIOUS
  <2>1. b \in Held' /\ conns'[b].peer = q
    BY <1>3
  <2>2. \A n \in Owner(b) : n \in Links /\ tcpconns'[n] = tcpconns[n] /\ n \in Owner(b)'
    BY <1>5 DEF Owner, Used
  <2>3. \A n \in Owner(b)' : tcpconns'[n] = tcpconns[n] /\ n \in Owner(b)
    BY <1>5, <2>1 DEF Owner, Used
  <2> QED BY <2>2, <2>3
<1>7. \A n \in Used' : tcpconns'[n].peer = q => n \in Used /\ tcpconns'[n] = tcpconns[n]
  BY <1>5 DEF Used
<1>8. Waiting(q)' = Waiting(q)
  <2>1. \A n \in Waiting(q) : n \in Waiting(q)'
    <3> SUFFICES ASSUME NEW n \in Waiting(q)
                 PROVE  n \in Waiting(q)'
      OBVIOUS
    <3>1. n \in Used /\ tcpconns[n].conn \in Held /\ conns[tcpconns[n].conn].peer = q /\ ~tcpconns[n].connected
      BY DEF Waiting
    <3>2. tcpconns'[n] = tcpconns[n] /\ n \in Used'
      BY <1>5, <3>1 DEF Used
    <3> QED BY <1>3, <3>1, <3>2 DEF Waiting
  <2>2. \A n \in Waiting(q)' : n \in Waiting(q)
    <3> SUFFICES ASSUME NEW n \in Waiting(q)'
                 PROVE  n \in Waiting(q)
      OBVIOUS
    <3>1. n \in Used' /\ tcpconns'[n].conn \in Held' /\ conns'[tcpconns'[n].conn].peer = q /\ ~tcpconns'[n].connected
      BY DEF Waiting
    <3>2. tcpconns'[n] = tcpconns[n] /\ n \in Used
      BY <1>5, <3>1 DEF Used
    <3> QED BY <1>3, <3>1, <3>2 DEF Waiting
  <2> QED BY <2>1, <2>2
<1>9. owed'[q] = owed[q]
  BY DEF Concerns
<1>10. \A b, c \in Held' : conns'[b].peer = q /\ conns'[c].peer = q => b = c
  BY <1>3 DEF Good
<1>11. \A b \in Held' : conns'[b].peer = q =>
         /\ conns'[b].stage \notin {"idle", "dangling"}
         /\ \A n, m \in Owner(b)' : n = m
         /\ Owner(b)' = {} => conns'[b].child /\ conns'[b].stage = "closing"
         /\ \A n \in Owner(b)' : Fits(tcpconns'[n], conns'[b])
  <2> SUFFICES ASSUME NEW b \in Held', conns'[b].peer = q
               PROVE  /\ conns'[b].stage \notin {"idle", "dangling"}
                      /\ \A n, m \in Owner(b)' : n = m
                      /\ Owner(b)' = {} => conns'[b].child /\ conns'[b].stage = "closing"
                      /\ \A n \in Owner(b)' : Fits(tcpconns'[n], conns'[b])
    OBVIOUS
  <2>1. b \in Held /\ conns[b].peer = q /\ conns'[b] = conns[b]
    BY <1>3, <1>4
  <2>2. Owner(b)' = Owner(b) /\ \A n \in Owner(b) : tcpconns'[n] = tcpconns[n]
    BY <1>6, <2>1
  <2>3. /\ conns[b].stage \notin {"idle", "dangling"}
        /\ \A n, m \in Owner(b) : n = m
        /\ Owner(b) = {} => conns[b].child /\ conns[b].stage = "closing"
        /\ \A n \in Owner(b) : Fits(tcpconns[n], conns[b])
    BY <2>1 DEF Good
  <2> QED BY <2>1, <2>2, <2>3
<1>12. \A n \in Used' : tcpconns'[n].peer = q =>
         tcpconns'[n].conn \in Held' /\ conns'[tcpconns'[n].conn].peer = q
  BY <1>3, <1>7 DEF Good
<1>13. owed'[q] = IF Waiting(q)' # {} THEN 1 ELSE 0
  BY <1>8, <1>9 DEF Good
<1> QED BY <1>10, <1>11, <1>12, <1>13 DEF Good, Fits

\* What a step at one address has to show for the invariant.
LEMMA Assembled ==
    ASSUME IInv, TypeOK', NEW p \in Peers, Concerns(p), p \notin spoiled' => Good(p)',
           Unresolved', Unmixed', CountRight'
    PROVE  IInv'
<1>1. \A q \in Peers \ spoiled' : Good(q)'
  <2> SUFFICES ASSUME NEW q \in Peers \ spoiled'
               PROVE  Good(q)'
    OBVIOUS
  <2>1. CASE q = p
    BY <2>1
  <2>2. CASE q # p
    <3>1. q \notin spoiled /\ Good(q)
      BY DEF Concerns, IInv
    <3> QED BY <2>2, <3>1, OthersGood DEF IInv
  <2> QED BY <2>1, <2>2
<1> QED BY <1>1 DEF IInv

\* A block in another stage is the same otherwise.
LEMMA Staged ==
    ASSUME NEW c \in Connection, NEW s, NEW u
    PROVE  LET d == [c EXCEPT !.stage = s, !.unacked = u]
               e == [c EXCEPT !.stage = s]
               f == [c EXCEPT !.unacked = u]
           IN  /\ d.peer = c.peer /\ d.child = c.child /\ d.disconcb = c.disconcb /\ d.stage = s
               /\ e.peer = c.peer /\ e.child = c.child /\ e.disconcb = c.disconcb /\ e.stage = s
               /\ f.peer = c.peer /\ f.child = c.child /\ f.disconcb = c.disconcb /\ f.stage = c.stage
  BY DEF Connection

\* From d to c nothing changed but the stage, as far as it may while a link is on
\* the block.
Moved(d, c) ==
    /\ c.peer = d.peer /\ c.child = d.child /\ c.disconcb = d.disconcb
    /\ \/ c.stage = d.stage
       \/ d.stage = "open" /\ c.stage \in {"closing", "failed"}
       \/ d.stage = "connecting" /\ c.stage = "failed"
       \/ d.stage = "connecting" /\ c.stage = "closing" /\ d.peer \in spoiled'

StagesOnly ==
    /\ UNCHANGED <<tcpconns, owed, mixed>>
    /\ spoiled \subseteq spoiled'
    /\ \A b \in Blocks : conns'[b] = conns[b] \/ (b \in Held /\ b \in Held' /\ Moved(conns[b], conns'[b]))

\* Commands and events that only move connections to another stage.
LEMMA StagesKeep ==
    ASSUME IInv, TypeOK', StagesOnly, CountRight'
    PROVE  IInv'
<1>1. /\ Used' = Used /\ ServerLinks' = ServerLinks /\ \A b : Owner(b)' = Owner(b)
      /\ tcpconns' = tcpconns /\ owed' = owed /\ mixed' = mixed
  BY DEF StagesOnly, Used, ServerLinks, Owner
<1>2. \A b : b \in Held <=> b \in Held'
  BY DEF StagesOnly, Held
<1>3. \A b \in Held : conns'[b] = conns[b] \/ Moved(conns[b], conns'[b])
  BY DEF StagesOnly, Held
<1>4. \A b \in Held : conns'[b].peer = conns[b].peer /\ conns'[b].child = conns[b].child
  BY <1>3 DEF Moved
<1>5. \A q : Waiting(q)' = Waiting(q)
  BY <1>1, <1>2, <1>4 DEF Waiting
<1>6. ASSUME NEW q \in Peers \ spoiled'
      PROVE  Good(q)'
  <2>1. q \notin spoiled /\ Good(q)
    BY DEF StagesOnly, IInv
  <2>2. \A b, c \in Held' : conns'[b].peer = q /\ conns'[c].peer = q => b = c
    BY <1>2, <1>4, <2>1 DEF Good
  <2>3. \A n \in Used' : tcpconns'[n].peer = q =>
           tcpconns'[n].conn \in Held' /\ conns'[tcpconns'[n].conn].peer = q
    BY <1>1, <1>2, <1>4, <2>1 DEF Good
  <2>4. ASSUME NEW b \in Held', conns'[b].peer = q
        PROVE  /\ conns'[b].stage \notin {"idle", "dangling"}
               /\ \A n, m \in Owner(b)' : n = m
               /\ Owner(b)' = {} => conns'[b].child /\ conns'[b].stage = "closing"
               /\ \A n \in Owner(b)' : Fits(tcpconns'[n], conns'[b])
    <3>1. b \in Held /\ conns[b].peer = q
      BY <1>2, <1>4, <2>4
    <3>2. /\ conns[b].stage \notin {"idle", "dangling"}
          /\ \A n, m \in Owner(b) : n = m
          /\ Owner(b) = {} => conns[b].child /\ conns[b].stage = "closing"
          /\ \A n \in Owner(b) : Fits(tcpconns[n], conns[b])
      BY <2>1, <3>1 DEF Good
    <3>3. CASE conns'[b] = conns[b]
      BY <1>1, <3>2, <3>3
    <3>4. CASE Moved(conns[b], conns'[b])
      BY <1>1, <3>1, <3>2, <3>4 DEF Moved, Fits
    <3> QED BY <1>3, <3>1, <3>3, <3>4
  <2>5. owed'[q] = IF Waiting(q)' # {} THEN 1 ELSE 0
    BY <1>1, <1>5, <2>1 DEF Good
  <2> QED BY <2>2, <2>3, <2>4, <2>5 DEF Good, Fits
<1>7. Unresolved'
  BY <1>1, <1>2, <1>3 DEF Unresolved, Moved, IInv
<1>8. Unmixed'
  BY <1>1, <1>2, <1>4 DEF Unmixed, IInv
<1> QED BY <1>6, <1>7, <1>8 DEF IInv

\* tcpconn_cleanup of the link of a connection, or of what _get_tcpn took for it.
LEMMA CleanedKeeps ==
    ASSUME IInv, TypeOK', NEW b \in Held, NEW p \in Peers, p = conns[b].peer,
           NEW ns \in SUBSET Used, NEW left,
           \A n \in ns : tcpconns[n].peer = p \/ (tcpconns[n].peer = None /\ tcpconns[n].conn = b),
           \A n \in Used \ ns : tcpconns[n].peer = None => tcpconns[n].conn # b,
           left = None \/ (left \in Connection /\ left.peer = p /\ left.child = conns[b].child),
           Cleaned(ns, b, left), UNCHANGED history,
           \A q \in Peers : q # p => owed'[q] = owed[q]
    PROVE  Concerns(p) /\ Unresolved' /\ Unmixed' /\ ServerLinks' = ServerLinks \ ns
<1> DEFINE freed == {tcpconns[n].conn : n \in ns}
<1>1. /\ tcpconns' = [n \in Links |-> IF n \in ns THEN None ELSE tcpconns[n]]
      /\ conns' = [c \in Blocks |->
                     IF c = b THEN IF c \in freed THEN None ELSE left
                     ELSE IF c \in freed \cap Held
                          THEN [conns[c] EXCEPT !.stage = "dangling", !.unacked = FALSE]
                          ELSE conns[c]]
  BY DEF Cleaned
<1>2. spoiled' = spoiled /\ mixed' = mixed
  BY DEF history
<1>3. \A n \in Links : n \notin ns => tcpconns'[n] = tcpconns[n]
  BY <1>1
<1>4. \A n \in ns : n \in Links /\ tcpconns'[n] = None /\ n \notin Used'
  BY <1>1 DEF Used
<1>5. Used' = Used \ ns
  BY <1>3, <1>4 DEF Used
<1>6. \A c \in Blocks : c # b =>
         \/ conns'[c] = conns[c]
         \/ /\ c \in Held /\ c \in Held' /\ c \in freed
            /\ conns'[c].peer = conns[c].peer /\ conns'[c].child = conns[c].child
            /\ conns'[c].stage = "dangling"
  <2> SUFFICES ASSUME NEW c \in Blocks, c # b, c \in freed \cap Held
               PROVE  /\ c \in Held'
                      /\ conns'[c].peer = conns[c].peer /\ conns'[c].child = conns[c].child
                      /\ conns'[c].stage = "dangling"
    BY <1>1
  <2>1. conns'[c] = [conns[c] EXCEPT !.stage = "dangling", !.unacked = FALSE]
    BY <1>1
  <2>2. conns[c] \in Connection
    BY Records DEF IInv
  <2>3. conns'[c] \in Connection
    BY <2>1, <2>2 DEF Connection
  <2> QED BY <2>1, <2>2, <2>3, Staged, NoneAssumption DEF Held
<1>7. b \in Held' => conns'[b].peer = p /\ conns'[b].child = conns[b].child
  BY <1>1 DEF Held
<1>8. \A n \in ns : BlockAt(tcpconns[n].conn, p)
  <2> SUFFICES ASSUME NEW n \in ns, tcpconns[n].conn \in Held,
                      conns[tcpconns[n].conn].peer \notin spoiled
               PROVE  conns[tcpconns[n].conn].peer = p
    BY DEF BlockAt
  <2>1. CASE tcpconns[n].peer = p
    BY <2>1, Crossing, NoneAssumption
  <2>2. CASE tcpconns[n].conn = b
    BY <2>2
  <2> QED BY <2>1, <2>2
<1>9. \A c \in Blocks : c \in freed \/ c = b => BlockAt(c, p) /\ BlockAt(c, p)'
  <2>1. \A c \in Blocks : c \in freed \/ c = b => BlockAt(c, p)
    BY <1>8 DEF BlockAt
  <2> QED BY <1>2, <1>6, <1>7, <2>1 DEF BlockAt, Held
<1>10. \A c \in Blocks : conns'[c] = conns[c] \/ (BlockAt(c, p) /\ BlockAt(c, p)')
  BY <1>6, <1>9
<1>11. \A n \in Links : tcpconns'[n] = tcpconns[n] \/ (LinkAt(n, p) /\ LinkAt(n, p)')
  BY <1>3, <1>4, <1>8 DEF LinkAt
<1>12. Concerns(p)
  BY <1>2, <1>10, <1>11 DEF Concerns
<1>13. Unresolved'
  <2> SUFFICES ASSUME NEW n \in Used', tcpconns'[n].peer = None
               PROVE  /\ tcpconns'[n].parrent = "client"
                      /\ tcpconns'[n].conn \in Held'
                      /\ conns'[tcpconns'[n].conn].stage \in {"resolving", "dangling"}
                      /\ \A m \in Used' : tcpconns'[m].peer = None /\ tcpconns'[m].conn = tcpconns'[n].conn => m = n
    BY DEF Unresolved
  <2>1. \A m \in Used' : m \in Used /\ m \notin ns /\ tcpconns'[m] = tcpconns[m]
    BY <1>3, <1>5 DEF Used
  <2>2. n \in Used /\ n \notin ns /\ tcpconns'[n] = tcpconns[n]
    BY <2>1
  <2>3. /\ tcpconns[n].parrent = "client"
        /\ tcpconns[n].conn \in Held
        /\ conns[tcpconns[n].conn].stage \in {"resolving", "dangling"}
        /\ \A m \in Used : tcpconns[m].peer = None /\ tcpconns[m].conn = tcpconns[n].conn => m = n
    BY <2>2 DEF Unresolved, IInv
  <2>4. tcpconns[n].conn # b /\ tcpconns[n].conn \in Blocks
    BY <2>2, <2>3 DEF Held
  <2>5. tcpconns[n].conn \in Held' /\ conns'[tcpconns[n].conn].stage \in {"resolving", "dangling"}
    BY <1>6, <2>3, <2>4 DEF Held
  <2> QED BY <2>1, <2>2, <2>3, <2>5
<1>14. ServerLinks' = ServerLinks \ ns
  BY <1>3, <1>5 DEF ServerLinks, Used
<1>15. Unmixed'
  <2>1. \A c \in Held' : c \in Held /\ conns'[c].peer = conns[c].peer /\ conns'[c].child = conns[c].child
    BY <1>6, <1>7 DEF Held
  <2>2. \A n \in ServerLinks' : n \in ServerLinks /\ tcpconns'[n] = tcpconns[n]
    BY <1>3, <1>14 DEF ServerLinks, Used
  <2> QED BY <1>2, <2>1, <2>2 DEF Unmixed, IInv
<1> QED BY <1>12, <1>13, <1>14, <1>15

\* A connection that is gone with its link.
LEMMA ReleasedGood ==
    ASSUME IInv, TypeOK', NEW b \in Held, NEW p \in Peers \ spoiled, p = conns[b].peer,
           \A n \in Links : tcpconns'[n] = IF n \in Owner(b) THEN None ELSE tcpconns[n],
           \A c \in Blocks : conns'[c] = IF c = b THEN None ELSE conns[c],
           owed'[p] = 0
    PROVE  Good(p)'
<1>1. Good(p) /\ p # None
  BY NoneAssumption DEF IInv
<1>2. \A c \in Held' : c \in Held /\ c # b /\ conns'[c] = conns[c]
  BY DEF Held
<1>3. \A c \in Held' : conns'[c].peer # p
  BY <1>1, <1>2 DEF Good
<1>4. \A n \in Used' : n \in Used /\ n \notin Owner(b) /\ tcpconns'[n] = tcpconns[n]
  BY DEF Used, Owner
<1>5. \A n \in Used' : tcpconns'[n].peer # p
  <2> SUFFICES ASSUME NEW n \in Used', tcpconns'[n].peer = p
               PROVE  FALSE
    OBVIOUS
  <2>1. n \in Used /\ n \notin Owner(b) /\ tcpconns[n].peer = p
    BY <1>4
  <2>2. tcpconns[n].conn \in Held /\ conns[tcpconns[n].conn].peer = p
    BY <1>1, <2>1 DEF Good
  <2>3. tcpconns[n].conn = b
    BY <1>1, <2>2 DEF Good
  <2> QED BY <2>1, <2>3 DEF Owner
<1>6. Waiting(p)' = {}
  BY <1>3 DEF Waiting
<1> QED BY <1>3, <1>5, <1>6 DEF Good

-----------------------------------------------------------------------------
(* Counting the server's links *)

LEMMA ServerLinksFinite ==
    /\ IsFiniteSet(ServerLinks) /\ Cardinality(ServerLinks) \in Nat
<1>1. ServerLinks \subseteq Links
  BY DEF ServerLinks, Used
<1> QED BY <1>1, LinksAssumption, FS_Subset, FS_CardinalityType

\* At most one link of the server less, and one off its count.
LEMMA CountAfterLeaving ==
    ASSUME IInv, tcpserver # None, NEW ns \in SUBSET Used, \A n, m \in ns : n = m,
           ServerLinks' = ServerLinks \ ns, mixed' = mixed,
           tcpserver'.connected =
             IF tcpserver.connected > 0 THEN tcpserver.connected - 1 ELSE tcpserver.connected
    PROVE  CountRight'
<1> SUFFICES ASSUME ~mixed
             PROVE  tcpserver'.connected <= Cardinality(ServerLinks')
  BY DEF CountRight
<1>1. tcpserver.connected \in Nat /\ tcpserver.connected <= Cardinality(ServerLinks)
  BY LinksAssumption DEF IInv, TypeOK, Server, CountRight
<1>2. CASE ns = {}
  BY <1>1, <1>2, ServerLinksFinite
<1>3. CASE ns # {}
  <2>1. PICK n \in ns : ns = {n}
    BY <1>3
  <2>2. Cardinality(ServerLinks \ {n}) =
          IF n \in ServerLinks THEN Cardinality(ServerLinks) - 1 ELSE Cardinality(ServerLinks)
    BY ServerLinksFinite, FS_RemoveElement
  <2>3. n \in ServerLinks => Cardinality(ServerLinks) > 0
    BY ServerLinksFinite, FS_EmptySet
  <2> QED BY <1>1, <2>1, <2>2, <2>3, ServerLinksFinite
<1> QED BY <1>2, <1>3

\* One link of the server more, and one more counted.
LEMMA CountAfterArrival ==
    ASSUME IInv, NEW n \in Links \ Used, tcpserver # None, mixed => mixed',
           ServerLinks' = ServerLinks \cup {n},
           tcpserver'.connected = tcpserver.connected + 1
    PROVE  CountRight'
<1> SUFFICES ASSUME ~mixed
             PROVE  tcpserver'.connected <= Cardinality(ServerLinks')
  BY DEF CountRight
<1>1. n \notin ServerLinks
  BY DEF ServerLinks
<1>2. tcpserver.connected \in Nat /\ tcpserver.connected <= Cardinality(ServerLinks)
  BY LinksAssumption DEF IInv, TypeOK, Server, CountRight
<1>3. Cardinality(ServerLinks') = Cardinality(ServerLinks) + 1
  BY <1>1, ServerLinksFinite, FS_AddElement
<1> QED BY <1>2, <1>3, ServerLinksFinite

\* The server and its links stay as they are.
LEMMA SameCount ==
    ASSUME IInv, mixed => mixed', ServerLinks' = ServerLinks,
           tcpserver' = tcpserver \/ (tcpserver # None /\ tcpserver'.connected = tcpserver.connected)
    PROVE  CountRight'
  BY DEF IInv, CountRight

-----------------------------------------------------------------------------
(* One lemma per action *)

\* Nothing is open, as at the start and after a fault.
Empty ==
    /\ tcpconns = [n \in Links |-> None] /\ tcpserver = None /\ orphaned = FALSE
    /\ conns = [b \in Blocks |-> None] /\ locked = FALSE /\ faulted \in BOOLEAN
    /\ owed = [p \in Peers |-> 0] /\ spoiled = {} /\ mixed = FALSE

LEMMA EmptyIInv == Empty => IInv
<1> SUFFICES ASSUME Empty PROVE IInv
  OBVIOUS
<1> USE DEF Empty
<1>1. Used = {} /\ Held = {}
  BY DEF Used, Held
<1>2. TypeOK
  <2>1. owed \in [Peers -> 0 .. 1]
    OBVIOUS
  <2>2. locked \in BOOLEAN /\ orphaned \in BOOLEAN /\ mixed \in BOOLEAN
    OBVIOUS
  <2> QED BY <2>1, <2>2 DEF TypeOK
<1>3. \A p \in Peers : Waiting(p) = {}
  BY <1>1 DEF Waiting
<1>4. \A p \in Peers : Good(p)
  BY <1>1, <1>3 DEF Good
<1>5. Unresolved /\ Unmixed /\ CountRight
  BY <1>1 DEF Unresolved, Unmixed, CountRight
<1> QED BY <1>2, <1>4, <1>5 DEF IInv

LEMMA StartKeepsIInv ==
    ASSUME IInv, NEW n \in Links, NEW b \in Blocks, NEW p \in Peers,
           at_setupCmdTCPConnConnect(n, b, p)
    PROVE  IInv'
<1> DEFINE l == [conn |-> b, peer |-> None, connected |-> FALSE, parrent |-> "client"]
           c == [stage |-> "resolving", peer |-> p, child |-> FALSE,
                 disconcb |-> FALSE, unacked |-> FALSE]
<1>1. /\ n \notin Used /\ b \notin Held
      /\ tcpconns' = [tcpconns EXCEPT ![n] = l] /\ conns' = [conns EXCEPT ![b] = c]
      /\ locked' = TRUE /\ UNCHANGED <<tcpserver, orphaned, faulted>>
      /\ spoiled' = spoiled \cup (IF Taken(p) \/ Named(b) THEN {p} ELSE {})
      /\ owed' = IF p \in spoiled' THEN owed ELSE [owed EXCEPT ![p] = @ + 1]
      /\ mixed' = (mixed \/ \E m \in ServerLinks : tcpconns[m].peer = p)
  BY DEF at_setupCmdTCPConnConnect, Allocated, Begun, Spoils
<1>2. l \in Link /\ c \in Connection /\ l # None /\ c # None /\ p # None
  <2>1. l \in Link
    BY DEF Link
  <2>2. c \in Connection
    BY DEF Connection
  <2> QED BY <2>1, <2>2, NoneAssumption
<1>3. TypeOK
  BY DEF IInv
<1>4. /\ tcpconns'[n] = l /\ \A m \in Links : m # n => tcpconns'[m] = tcpconns[m]
      /\ conns'[b] = c /\ \A d \in Blocks : d # b => conns'[d] = conns[d]
  BY <1>1, <1>3 DEF TypeOK
<1>5. Used' = Used \cup {n} /\ Held' = Held \cup {b}
  BY <1>2, <1>4 DEF Used, Held
<1>6. p \notin spoiled' => owed[p] = 0
  <2> SUFFICES ASSUME p \notin spoiled'
               PROVE  owed[p] = 0
    OBVIOUS
  <2>1. Good(p) /\ ~Taken(p)
    BY <1>1 DEF IInv
  <2>2. Waiting(p) = {}
    BY <2>1 DEF Waiting, Taken
  <2> QED BY <2>1, <2>2 DEF Good
<1>7. TypeOK'
  <2>1. tcpconns' \in [Links -> {None} \cup Link] /\ conns' \in [Blocks -> {None} \cup Connection]
    BY <1>1, <1>2, <1>3 DEF TypeOK
  <2>2. owed' \in [Peers -> 0 .. 1]
    BY <1>1, <1>3, <1>6 DEF TypeOK
  <2>3. mixed' \in BOOLEAN
    BY <1>1
  <2>4. spoiled' \subseteq Peers
    BY <1>1, <1>3 DEF TypeOK
  <2> QED BY <1>1, <1>3, <2>1, <2>2, <2>3, <2>4 DEF TypeOK
<1>8. Concerns(p)
  <2>1. BlockAt(b, p) /\ BlockAt(b, p)'
    BY <1>1, <1>4 DEF BlockAt
  <2>2. LinkAt(n, p) /\ LinkAt(n, p)'
    BY <1>1, <1>4, <2>1 DEF LinkAt
  <2>3. \A q \in Peers : q # p => owed'[q] = owed[q]
    BY <1>1, <1>3 DEF TypeOK
  <2> QED BY <1>1, <1>4, <2>1, <2>2, <2>3 DEF Concerns
<1>9. ASSUME p \notin spoiled'
      PROVE  Good(p)'
  <2>1. Good(p) /\ ~Taken(p) /\ ~Named(b)
    BY <1>1, <1>9 DEF IInv
  <2>2. \A d \in Held' : conns'[d].peer = p => d = b
    BY <1>4, <1>5, <2>1 DEF Taken, Held
  <2>3. \A m \in Used' : tcpconns'[m].conn = b => m = n
    BY <1>4, <1>5, <2>1 DEF Named, Used
  <2>4. Owner(b)' = {n}
    BY <1>4, <1>5, <2>3 DEF Owner
  <2>5. Fits(l, c)
    BY DEF Fits
  <2>6. \A m \in Used' : tcpconns'[m].peer # p
    BY <1>2, <1>4, <1>5, <2>1 DEF Taken, Used
  <2>7. Waiting(p)' # {}
    BY <1>4, <1>5 DEF Waiting
  <2>8. owed'[p] = 1
    BY <1>1, <1>3, <1>6, <1>9 DEF TypeOK
  <2>9. \A d \in Held' : conns'[d].peer = p =>
           /\ conns'[d].stage \notin {"idle", "dangling"}
           /\ \A m, k \in Owner(d)' : m = k
           /\ Owner(d)' # {}
           /\ \A m \in Owner(d)' : Fits(tcpconns'[m], conns'[d])
    <3> SUFFICES ASSUME NEW d \in Held', conns'[d].peer = p
                 PROVE  /\ conns'[d].stage \notin {"idle", "dangling"}
                        /\ \A m, k \in Owner(d)' : m = k
                        /\ Owner(d)' # {}
                        /\ \A m \in Owner(d)' : Fits(tcpconns'[m], conns'[d])
      OBVIOUS
    <3>1. d = b /\ conns'[d] = c /\ Owner(d)' = {n}
      BY <1>4, <2>2, <2>4
    <3>2. \A m \in Owner(d)' : tcpconns'[m] = l
      BY <1>4, <3>1
    <3> QED BY <2>5, <3>1, <3>2
  <2> QED BY <2>2, <2>6, <2>7, <2>8, <2>9 DEF Good, Fits
<1>10. Unresolved'
  BY <1>1, <1>4, <1>5 DEF Unresolved, IInv, Used, Held
<1>11. ServerLinks' = ServerLinks
  BY <1>1, <1>4, <1>5 DEF ServerLinks, Used
<1>12. Unmixed'
  <2>1. \A m \in ServerLinks : tcpconns'[m] = tcpconns[m]
    BY <1>1, <1>4 DEF ServerLinks, Used
  <2>2. \A d \in Held : conns'[d] = conns[d]
    BY <1>1, <1>4 DEF Held
  <2>3. mixed \/ \A d \in Held, m \in ServerLinks : ~conns[d].child => conns[d].peer # tcpconns[m].peer
    BY DEF Unmixed, IInv
  <2>4. mixed' \/ \A m \in ServerLinks : tcpconns[m].peer # p
    BY <1>1
  <2>5. mixed => mixed'
    BY <1>1
  <2>6. conns'[b].peer = p
    BY <1>4
  <2> QED BY <1>5, <1>11, <2>1, <2>2, <2>3, <2>4, <2>5, <2>6 DEF Unmixed
<1>13. CountRight'
  BY <1>1, <1>11, SameCount
<1> QED BY <1>7, <1>8, <1>9, <1>10, <1>12, <1>13, Assembled

\* The name of a host is resolved, or is not.
LEMMA ResolvedKeepsIInv ==
    ASSUME IInv, NEW b \in Blocks, tcpconn_resolved(b)
    PROVE  IInv'
<1>1. PICK p \in Peers : b \in Held /\ p = conns[b].peer /\ p # None /\ conns[b].stage = "resolving"
  BY Records DEF IInv, tcpconn_resolved, Stage
<1>2. PICK n \in Used :
        /\ tcpconns[n].conn = b /\ tcpconns[n].peer = None
        /\ \/ /\ Cleaned({n}, b, None)
              /\ locked' = FALSE
              /\ Answered(p)
              /\ UNCHANGED spoiled
           \/ /\ tcpconns' = [tcpconns EXCEPT ![n].peer = p]
              /\ \/ /\ conns' = [conns EXCEPT ![b].stage = "connecting"]
                    /\ UNCHANGED spoiled
                 \/ /\ conns' = [conns EXCEPT ![b].stage = "idle"]
                    /\ Spoils({p})
              /\ UNCHANGED <<locked, owed>>
  BY <1>1 DEF tcpconn_resolved
<1>3. UNCHANGED <<tcpserver, orphaned, faulted, mixed>>
  BY DEF tcpconn_resolved
<1>4. TypeOK
  BY DEF IInv
<1>5. /\ tcpconns[n].parrent = "client" /\ n \notin ServerLinks /\ n \in Links
      /\ \A m \in Used : tcpconns[m].peer = None /\ tcpconns[m].conn = b => m = n
  BY <1>2 DEF Unresolved, IInv, ServerLinks, Used
<1>6. tcpconns[n] \in Link /\ conns[b] \in Connection
  BY <1>1, <1>2, Records DEF IInv
<1>7. p \notin spoiled => /\ Good(p) /\ Owner(b) = {n} /\ Fits(tcpconns[n], conns[b])
                          /\ n \in Waiting(p) /\ owed[p] = 1
  <2> SUFFICES ASSUME p \notin spoiled
               PROVE  /\ Good(p) /\ Owner(b) = {n} /\ Fits(tcpconns[n], conns[b])
                      /\ n \in Waiting(p) /\ owed[p] = 1
    OBVIOUS
  <2>1. Good(p)
    BY DEF IInv
  <2>2. n \in Owner(b)
    BY <1>2 DEF Owner
  <2>3. Owner(b) = {n} /\ Fits(tcpconns[n], conns[b])
    BY <1>1, <2>2, OwnerFacts
  <2>4. ~tcpconns[n].connected
    BY <1>1, <2>3 DEF Fits
  <2>5. n \in Waiting(p)
    BY <1>1, <1>2, <2>4 DEF Waiting
  <2> QED BY <2>1, <2>3, <2>5 DEF Good
<1>8. CASE Cleaned({n}, b, None) /\ locked' = FALSE /\ Answered(p) /\ UNCHANGED spoiled
  <2>1. /\ owed' = IF p \in spoiled THEN owed ELSE [owed EXCEPT ![p] = @ - 1]
        /\ \A q \in Peers : q # p => owed'[q] = owed[q]
    BY <1>4, <1>8 DEF Answered, TypeOK
  <2>2. owed' \in [Peers -> 0 .. 1] /\ (p \notin spoiled => owed'[p] = 0)
    BY <1>4, <1>7, <2>1 DEF TypeOK
  <2>3. \A m \in Links : tcpconns'[m] = IF m = n THEN None ELSE tcpconns[m]
    BY <1>8 DEF Cleaned
  <2>4. \A c \in Blocks : conns'[c] = IF c = b THEN None ELSE conns[c]
    <3>1. {tcpconns[m].conn : m \in {n}} = {b}
      BY <1>2
    <3>2. Cleaned({n}, b, None)
      BY <1>8
    <3> QED BY <3>1, <3>2 DEF Cleaned
  <2>5. tcpconns' \in [Links -> {None} \cup Link] /\ conns' \in [Blocks -> {None} \cup Connection]
    <3>1. tcpconns' = [m \in Links |-> tcpconns'[m]] /\ conns' = [c \in Blocks |-> conns'[c]]
      BY <1>8 DEF Cleaned
    <3>2. /\ \A m \in Links : tcpconns[m] \in {None} \cup Link
          /\ \A c \in Blocks : conns[c] \in {None} \cup Connection
      BY <1>4 DEF TypeOK
    <3>3. \A m \in Links : tcpconns'[m] \in {None} \cup Link
      BY <2>3, <3>2
    <3>4. \A c \in Blocks : conns'[c] \in {None} \cup Connection
      BY <2>4, <3>2
    <3> QED BY <3>1, <3>3, <3>4
  <2>6. TypeOK'
    BY <1>3, <1>4, <1>8, <2>2, <2>5 DEF TypeOK
  <2>7. UNCHANGED history
    BY <1>3, <1>8 DEF history
  <2>8. Concerns(p) /\ Unresolved' /\ Unmixed' /\ ServerLinks' = ServerLinks \ {n}
    BY <1>1, <1>2, <1>5, <1>8, <2>1, <2>6, <2>7, CleanedKeeps
  <2>9. p \notin spoiled' => Good(p)'
    BY <1>1, <1>7, <1>8, <2>2, <2>3, <2>4, <2>6, ReleasedGood
  <2>10. CountRight'
    BY <1>3, <1>5, <2>8, SameCount
  <2> QED BY <2>6, <2>8, <2>9, <2>10, Assembled
<1>9. ASSUME NEW s \in {"connecting", "idle"},
             tcpconns' = [tcpconns EXCEPT ![n].peer = p],
             conns' = [conns EXCEPT ![b].stage = s],
             UNCHANGED <<locked, owed>>,
             spoiled' = IF s = "idle" THEN spoiled \cup {p} ELSE spoiled
      PROVE  IInv'
  <2> DEFINE l == [tcpconns[n] EXCEPT !.peer = p]
             c == [conns[b] EXCEPT !.stage = s]
  <2>1. l \in Link /\ c \in Connection
    BY <1>6, <1>9 DEF Link, Connection
  <2>2. /\ l.conn = b /\ l.peer = p /\ l.connected = tcpconns[n].connected
        /\ l.parrent = "client"
    BY <1>2, <1>5, <1>6 DEF Link
  <2>3. c.stage = s /\ c.peer = p /\ c.child = conns[b].child
    BY <1>1, <1>6 DEF Connection
  <2>4. /\ tcpconns'[n] = l /\ \A m \in Links : m # n => tcpconns'[m] = tcpconns[m]
        /\ conns'[b] = c /\ \A d \in Blocks : d # b => conns'[d] = conns[d]
    BY <1>4, <1>5, <1>9 DEF TypeOK
  <2>5. l # None /\ c # None
    BY <2>1, NoneAssumption
  <2>6. Used' = Used /\ Held' = Held
    BY <1>1, <2>4, <2>5 DEF Used, Held
  <2>7. TypeOK'
    <3>1. tcpconns' \in [Links -> {None} \cup Link] /\ conns' \in [Blocks -> {None} \cup Connection]
      BY <1>4, <1>9, <2>1 DEF TypeOK
    <3>2. spoiled' \subseteq Peers
      BY <1>4, <1>9 DEF TypeOK
    <3> QED BY <1>3, <1>4, <1>9, <3>1, <3>2 DEF TypeOK
  <2>8. Concerns(p)
    <3>1. BlockAt(b, p) /\ BlockAt(b, p)'
      BY <1>1, <2>3, <2>4 DEF BlockAt
    <3>2. LinkAt(n, p) /\ LinkAt(n, p)'
      BY <1>2, <2>2, <2>4, <3>1 DEF LinkAt
    <3> QED BY <1>9, <2>4, <3>1, <3>2 DEF Concerns
  <2>9. ASSUME p \notin spoiled'
        PROVE  Good(p)'
    <3>1. s = "connecting" /\ p \notin spoiled
      BY <1>9, <2>9
    <3>2. \A d \in Held' : conns'[d].peer = p => d = b
      BY <1>1, <1>7, <2>4, <2>6, <3>1 DEF Good, Held
    <3>3. \A m \in Used' : tcpconns'[m].conn = b => m = n
      BY <1>7, <2>4, <2>6, <3>1 DEF Owner, Used
    <3>4. Owner(b)' = {n}
      BY <2>2, <2>4, <2>6, <3>3 DEF Owner
    <3>5. Fits(l, c)
      BY <1>1, <1>7, <2>2, <2>3, <3>1 DEF Fits
    <3>6. \A m \in Used' : tcpconns'[m].peer = p => tcpconns'[m].conn = b
      <4> SUFFICES ASSUME NEW m \in Used', m # n, tcpconns'[m].peer = p
                   PROVE  FALSE
        BY <2>2, <2>4
      <4>1. m \in Used /\ tcpconns[m].peer = p
        BY <2>4, <2>6 DEF Used
      <4>2. tcpconns[m].conn \in Held /\ conns[tcpconns[m].conn].peer = p
        BY <1>7, <3>1, <4>1 DEF Good
      <4>3. tcpconns[m].conn = b
        BY <1>1, <1>7, <3>1, <4>2 DEF Good
      <4> QED BY <1>7, <3>1, <4>1, <4>3 DEF Owner
    <3>7. n \in Waiting(p)'
      <4>1. ~tcpconns[n].connected
        BY <1>1, <1>7, <3>1 DEF Fits
      <4>2. n \in Used' /\ tcpconns'[n].conn = b /\ ~tcpconns'[n].connected
        BY <1>2, <2>2, <2>4, <2>6, <4>1
      <4>3. b \in Held' /\ conns'[b].peer = p
        BY <1>1, <2>3, <2>4, <2>6
      <4> QED BY <4>2, <4>3 DEF Waiting
    <3>8. owed'[p] = 1
      BY <1>7, <1>9, <3>1
    <3>9. \A d \in Held' : conns'[d].peer = p =>
             /\ conns'[d].stage \notin {"idle", "dangling"}
             /\ \A m, k \in Owner(d)' : m = k
             /\ Owner(d)' # {}
             /\ \A m \in Owner(d)' : Fits(tcpconns'[m], conns'[d])
      <4> SUFFICES ASSUME NEW d \in Held', conns'[d].peer = p
                   PROVE  /\ conns'[d].stage \notin {"idle", "dangling"}
                          /\ \A m, k \in Owner(d)' : m = k
                          /\ Owner(d)' # {}
                          /\ \A m \in Owner(d)' : Fits(tcpconns'[m], conns'[d])
        OBVIOUS
      <4>1. d = b /\ conns'[d] = c /\ Owner(d)' = {n}
        BY <2>4, <3>2, <3>4
      <4>2. c.stage = "connecting"
        BY <2>3, <3>1
      <4>3. \A m \in Owner(d)' : tcpconns'[m] = l
        BY <2>4, <4>1
      <4> QED BY <3>5, <4>1, <4>2, <4>3
    <3>10. \A m \in Used' : tcpconns'[m].peer = p =>
             tcpconns'[m].conn \in Held' /\ conns'[tcpconns'[m].conn].peer = p
      BY <1>1, <2>3, <2>4, <2>6, <3>6
    <3> QED BY <3>2, <3>7, <3>8, <3>9, <3>10 DEF Good, Fits
  <2>10. Unresolved'
    <3> SUFFICES ASSUME NEW m \in Used', tcpconns'[m].peer = None
                 PROVE  /\ tcpconns'[m].parrent = "client"
                        /\ tcpconns'[m].conn \in Held'
                        /\ conns'[tcpconns'[m].conn].stage \in {"resolving", "dangling"}
                        /\ \A k \in Used' : tcpconns'[k].peer = None /\ tcpconns'[k].conn = tcpconns'[m].conn => k = m
      BY DEF Unresolved
    <3>1. \A k \in Used' : tcpconns'[k].peer = None => k # n /\ k \in Used /\ tcpconns'[k] = tcpconns[k]
      BY <1>1, <2>2, <2>4, <2>6 DEF Used
    <3>2. m # n /\ m \in Used /\ tcpconns'[m] = tcpconns[m]
      BY <3>1
    <3>3. /\ tcpconns[m].parrent = "client"
          /\ tcpconns[m].conn \in Held
          /\ conns[tcpconns[m].conn].stage \in {"resolving", "dangling"}
          /\ \A k \in Used : tcpconns[k].peer = None /\ tcpconns[k].conn = tcpconns[m].conn => k = m
      BY <3>2 DEF Unresolved, IInv
    <3>4. tcpconns[m].conn # b
      BY <1>5, <3>2
    <3>5. conns'[tcpconns[m].conn] = conns[tcpconns[m].conn]
      BY <2>4, <3>3, <3>4 DEF Held
    <3> QED BY <2>6, <3>1, <3>2, <3>3, <3>5
  <2>11. ServerLinks' = ServerLinks
    BY <1>5, <2>2, <2>4, <2>6 DEF ServerLinks, Used
  <2>12. Unmixed'
    <3>1. \A m \in ServerLinks : tcpconns'[m] = tcpconns[m]
      BY <1>5, <2>4 DEF ServerLinks, Used
    <3>2. \A d \in Held : conns'[d].peer = conns[d].peer /\ conns'[d].child = conns[d].child
      BY <1>1, <2>3, <2>4 DEF Held
    <3> QED BY <1>3, <2>6, <2>11, <3>1, <3>2 DEF Unmixed, IInv
  <2>13. CountRight'
    BY <1>3, <2>11, SameCount
  <2> QED BY <2>7, <2>8, <2>9, <2>10, <2>12, <2>13, Assembled
<1> QED BY <1>2, <1>8, <1>9 DEF Spoils

\* The connection of a client's link is established.
LEMMA ConnectKeepsIInv ==
    ASSUME IInv, NEW b \in Blocks, tcpconn_connect_cb(b)
    PROVE  IInv'
<1>1. PICK p \in Peers : b \in Held /\ p = conns[b].peer /\ p # None /\ conns[b].stage = "connecting"
  BY Records DEF IInv, tcpconn_connect_cb, Stage
<1> DEFINE ns == _get_tcpn(p)
           c == [conns[b] EXCEPT !.stage = "open", !.disconcb = (ns # {})]
<1>2. /\ tcpconns' = [n \in Links |-> IF n \in ns THEN [tcpconns[n] EXCEPT !.connected = TRUE]
                                                 ELSE tcpconns[n]]
      /\ conns' = [conns EXCEPT ![b] = c]
      /\ locked' = FALSE /\ Answered(p)
      /\ UNCHANGED <<tcpserver, orphaned, faulted>> /\ spoiled' = spoiled /\ mixed' = mixed
  <2>1. conns' = [conns EXCEPT ![b].stage = "open", ![b].disconcb = (ns # {})]
    BY <1>1 DEF tcpconn_connect_cb
  <2>2. conns' = [conns EXCEPT ![b] = c]
    BY <2>1
  <2> QED BY <1>1, <2>2 DEF tcpconn_connect_cb, Connected, history
<1>3. TypeOK
  BY DEF IInv
<1>4. /\ ns \in SUBSET Used
      /\ \A n \in ns : /\ n \in Links /\ tcpconns[n] \in Link /\ tcpconns[n].peer = p
  BY Records DEF IInv, _get_tcpn
<1>5. /\ conns[b] \in Connection /\ c \in Connection /\ c # None
      /\ c.stage = "open" /\ c.peer = p /\ c.child = conns[b].child /\ c.disconcb = (ns # {})
  <2>1. conns[b] \in Connection
    BY <1>1, Records DEF IInv
  <2>2. c \in Connection
    BY <2>1 DEF Connection
  <2>3. c.stage = "open" /\ c.peer = p /\ c.child = conns[b].child /\ c.disconcb = (ns # {})
    BY <1>1, <2>1 DEF Connection
  <2> QED BY <2>1, <2>2, <2>3, NoneAssumption
<1>6. \A n \in ns : /\ tcpconns'[n] \in Link /\ tcpconns'[n] # None
                    /\ tcpconns'[n].conn = tcpconns[n].conn /\ tcpconns'[n].peer = p
                    /\ tcpconns'[n].parrent = tcpconns[n].parrent /\ tcpconns'[n].connected
  <2> SUFFICES ASSUME NEW n \in ns
               PROVE  /\ tcpconns'[n] \in Link /\ tcpconns'[n] # None
                      /\ tcpconns'[n].conn = tcpconns[n].conn /\ tcpconns'[n].peer = p
                      /\ tcpconns'[n].parrent = tcpconns[n].parrent /\ tcpconns'[n].connected
    OBVIOUS
  <2>1. n \in Links /\ tcpconns[n] \in Link /\ tcpconns[n].peer = p
    BY <1>4
  <2>2. tcpconns'[n] = [tcpconns[n] EXCEPT !.connected = TRUE]
    BY <1>2, <2>1
  <2>3. tcpconns'[n] \in Link
    BY <2>1, <2>2 DEF Link
  <2>4. /\ tcpconns'[n].conn = tcpconns[n].conn /\ tcpconns'[n].peer = p
        /\ tcpconns'[n].parrent = tcpconns[n].parrent /\ tcpconns'[n].connected
    BY <2>1, <2>2 DEF Link
  <2> QED BY <2>3, <2>4, NoneAssumption
<1>7. /\ \A n \in Links : n \notin ns => tcpconns'[n] = tcpconns[n]
      /\ conns'[b] = c /\ \A d \in Blocks : d # b => conns'[d] = conns[d]
  BY <1>2, <1>3 DEF TypeOK
<1>8. Used' = Used /\ Held' = Held
  BY <1>1, <1>4, <1>5, <1>6, <1>7 DEF Used, Held
<1>9. /\ owed' = IF p \in spoiled THEN owed ELSE [owed EXCEPT ![p] = @ - 1]
      /\ \A q \in Peers : q # p => owed'[q] = owed[q]
  BY <1>2, <1>3 DEF Answered, TypeOK
<1>10. p \notin spoiled =>
         /\ Good(p) /\ ns = Owner(b) /\ ns # {} /\ owed[p] = 1
         /\ \A n \in ns : Fits(tcpconns[n], conns[b]) /\ tcpconns[n].conn = b /\ ns = {n}
  <2> SUFFICES ASSUME p \notin spoiled
               PROVE  /\ Good(p) /\ ns = Owner(b) /\ ns # {} /\ owed[p] = 1
                      /\ \A n \in ns : Fits(tcpconns[n], conns[b]) /\ tcpconns[n].conn = b /\ ns = {n}
    OBVIOUS
  <2>1. Good(p)
    BY DEF IInv
  <2>2. ns = Owner(b)
    BY <1>1, FindsOwner
  <2>3. \A n \in ns : Fits(tcpconns[n], conns[b]) /\ tcpconns[n].conn = b /\ ns = {n} /\ n \in Used
    BY <1>1, <2>2, OwnerFacts
  <2>4. ns # {}
    BY <1>1, <2>2, OwnerFacts
  <2>5. PICK n \in ns : Fits(tcpconns[n], conns[b]) /\ tcpconns[n].conn = b /\ n \in Used
    BY <2>3, <2>4
  <2>6. ~tcpconns[n].connected
    BY <1>1, <2>5 DEF Fits
  <2>7. n \in Waiting(p)
    BY <1>1, <2>5, <2>6 DEF Waiting
  <2> QED BY <2>1, <2>2, <2>3, <2>4, <2>7 DEF Good
<1>11. TypeOK'
  <2>1. owed' \in [Peers -> 0 .. 1]
    BY <1>3, <1>9, <1>10 DEF TypeOK
  <2>2. conns' \in [Blocks -> {None} \cup Connection]
    BY <1>2, <1>3, <1>5 DEF TypeOK
  <2>3. \A n \in Links : tcpconns'[n] \in {None} \cup Link
    BY <1>3, <1>6, <1>7 DEF TypeOK
  <2>4. tcpconns' \in [Links -> {None} \cup Link]
    BY <1>2, <2>3
  <2> QED BY <1>2, <1>3, <2>1, <2>2, <2>4 DEF TypeOK
<1>12. Concerns(p)
  <2>1. BlockAt(b, p) /\ BlockAt(b, p)'
    BY <1>1, <1>5, <1>7 DEF BlockAt
  <2>2. \A n \in ns : BlockAt(tcpconns[n].conn, p)
    BY <1>4, Crossing, NoneAssumption DEF BlockAt
  <2>3. \A d \in Blocks : BlockAt(d, p) => BlockAt(d, p)'
    BY <1>2, <1>7, <1>8, <2>1 DEF BlockAt
  <2>4. \A n \in ns : LinkAt(n, p) /\ LinkAt(n, p)'
    <3> SUFFICES ASSUME NEW n \in ns
                 PROVE  LinkAt(n, p) /\ LinkAt(n, p)'
      OBVIOUS
    <3>1. tcpconns[n].conn \in Blocks
      BY <1>4, Records DEF IInv
    <3> QED BY <1>4, <1>6, <2>2, <2>3, <3>1 DEF LinkAt
  <2> QED BY <1>2, <1>7, <1>9, <2>1, <2>4 DEF Concerns
<1>13. ASSUME p \notin spoiled'
       PROVE  Good(p)'
  <2>1. p \notin spoiled
    BY <1>2, <1>13
  <2>2. PICK n \in ns : ns = {n} /\ Fits(tcpconns[n], conns[b]) /\ tcpconns[n].conn = b
    BY <1>10, <2>1
  <2>3. \A d \in Held' : conns'[d].peer = p => d = b
    BY <1>1, <1>7, <1>8, <1>10, <2>1 DEF Good, Held
  <2>4. \A m \in Used' : tcpconns'[m].conn = tcpconns[m].conn /\ tcpconns'[m].peer = tcpconns[m].peer
    BY <1>4, <1>6, <1>7, <1>8 DEF Used
  <2>5. Owner(b)' = {n}
    <3>1. Owner(b)' = Owner(b)
      BY <1>8, <2>4 DEF Owner
    <3> QED BY <1>10, <2>1, <2>2, <3>1
  <2>6. Fits(tcpconns'[n], c)
    <3>1. conns[b].child = (tcpconns[n].parrent = "server")
      BY <2>2 DEF Fits
    <3>2. /\ tcpconns'[n].parrent = tcpconns[n].parrent /\ tcpconns'[n].peer = p
          /\ tcpconns'[n].connected
      BY <1>6
    <3>3. c.stage = "open" /\ c.peer = p /\ c.child = conns[b].child /\ c.disconcb
      BY <1>5, <2>2
    <3> HIDE DEF c
    <3> QED BY <3>1, <3>2, <3>3 DEF Fits
  <2>7. \A m \in Used' : tcpconns'[m].peer = p =>
           tcpconns'[m].conn \in Held' /\ conns'[tcpconns'[m].conn].peer = p
    <3> SUFFICES ASSUME NEW m \in Used', tcpconns'[m].peer = p
                 PROVE  tcpconns'[m].conn \in Held' /\ conns'[tcpconns'[m].conn].peer = p
      OBVIOUS
    <3>1. m \in Used /\ tcpconns[m].peer = p /\ tcpconns'[m].conn = tcpconns[m].conn
      BY <1>8, <2>4
    <3>2. tcpconns[m].conn \in Held /\ conns[tcpconns[m].conn].peer = p
      <4>1. Good(p)
        BY <1>10, <2>1
      <4> QED BY <3>1, <4>1 DEF Good
    <3>3. tcpconns[m].conn = b
      <4>1. Good(p)
        BY <1>10, <2>1
      <4> QED BY <1>1, <3>2, <4>1 DEF Good
    <3> QED BY <1>1, <1>5, <1>7, <1>8, <3>1, <3>3
  <2>8. Waiting(p)' = {}
    <3> SUFFICES ASSUME NEW m \in Waiting(p)'
                 PROVE  FALSE
      OBVIOUS
    <3>1. /\ m \in Used' /\ ~tcpconns'[m].connected
          /\ tcpconns'[m].conn \in Held' /\ conns'[tcpconns'[m].conn].peer = p
      BY DEF Waiting
    <3>2. tcpconns'[m].conn = b
      BY <2>3, <3>1
    <3>3. m \in Owner(b)'
      BY <3>1, <3>2 DEF Owner
    <3> QED BY <1>6, <2>2, <2>5, <3>1, <3>3
  <2>9. owed'[p] = 0
    BY <1>3, <1>9, <1>10, <2>1 DEF TypeOK
  <2>10. \A d \in Held' : conns'[d].peer = p =>
           /\ conns'[d].stage \notin {"idle", "dangling"}
           /\ \A m, k \in Owner(d)' : m = k
           /\ Owner(d)' # {}
           /\ \A m \in Owner(d)' : Fits(tcpconns'[m], conns'[d])
    <3> SUFFICES ASSUME NEW d \in Held', conns'[d].peer = p
                 PROVE  /\ conns'[d].stage \notin {"idle", "dangling"}
                        /\ \A m, k \in Owner(d)' : m = k
                        /\ Owner(d)' # {}
                        /\ \A m \in Owner(d)' : Fits(tcpconns'[m], conns'[d])
      OBVIOUS
    <3>1. d = b /\ conns'[d] = c /\ Owner(d)' = {n}
      BY <1>7, <2>3, <2>5
    <3>2. \A m \in Owner(d)' : m = n
      BY <3>1
    <3> QED BY <1>5, <2>6, <3>1, <3>2
  <2> QED BY <2>3, <2>7, <2>8, <2>9, <2>10 DEF Good
<1>14. \A n \in Used : /\ tcpconns'[n].peer = tcpconns[n].peer /\ tcpconns'[n].conn = tcpconns[n].conn
                       /\ tcpconns'[n].parrent = tcpconns[n].parrent
  BY <1>4, <1>6, <1>7 DEF Used
<1>15. Unresolved'
  <2>1. \A d \in Held : conns[d].stage \in {"resolving", "dangling"} => conns'[d] = conns[d]
    BY <1>1, <1>7 DEF Held
  <2> QED BY <1>8, <1>14, <2>1 DEF Unresolved, IInv
<1>16. ServerLinks' = ServerLinks
  BY <1>8, <1>14 DEF ServerLinks
<1>17. Unmixed'
  <2>1. \A d \in Held : conns'[d].peer = conns[d].peer /\ conns'[d].child = conns[d].child
    BY <1>1, <1>5, <1>7 DEF Held
  <2>2. \A n \in ServerLinks : tcpconns'[n].peer = tcpconns[n].peer
    BY <1>14 DEF ServerLinks
  <2> QED BY <1>2, <1>8, <1>16, <2>1, <2>2 DEF Unmixed, IInv
<1>18. CountRight'
  BY <1>2, <1>16, SameCount
<1> QED BY <1>11, <1>12, <1>13, <1>15, <1>17, <1>18, Assembled

\* Cleaning up keeps the types of links and blocks.
LEMMA CleanedTypes ==
    ASSUME TypeOK, NEW b, NEW ns, NEW left \in {None} \cup Connection, Cleaned(ns, b, left)
    PROVE  tcpconns' \in [Links -> {None} \cup Link] /\ conns' \in [Blocks -> {None} \cup Connection]
<1>1. tcpconns' \in [Links -> {None} \cup Link]
  BY DEF Cleaned, TypeOK
<1>2. \A c \in Held : [conns[c] EXCEPT !.stage = "dangling", !.unacked = FALSE] \in Connection
  <2>1. \A c \in Connection : [c EXCEPT !.stage = "dangling", !.unacked = FALSE] \in Connection
    BY DEF Connection
  <2>2. \A c \in Held : conns[c] \in Connection
    BY Records
  <2> QED BY <2>1, <2>2
<1>3. \A c \in Blocks : conns[c] \in {None} \cup Connection
  BY DEF TypeOK
<1>4. \A c \in Blocks : conns'[c] \in {None} \cup Connection
  BY <1>2, <1>3 DEF Cleaned
<1>5. conns' = [c \in Blocks |-> conns'[c]]
  BY DEF Cleaned
<1> QED BY <1>1, <1>4, <1>5

\* What _get_tcpn finds is what Cleaned may take.
LEMMA Found ==
    ASSUME IInv, NEW b \in Held, conns[b].stage \notin {"resolving", "dangling"}
    PROVE  /\ _get_tcpn(conns[b].peer) \in SUBSET Used
           /\ \A n \in _get_tcpn(conns[b].peer) : tcpconns[n].peer = conns[b].peer
           /\ \A n, m \in _get_tcpn(conns[b].peer) : n = m
           /\ \A n \in Used : tcpconns[n].peer = None => tcpconns[n].conn # b
<1>1. \A n \in _get_tcpn(conns[b].peer) : n \in Used /\ tcpconns[n].peer = conns[b].peer
  BY DEF _get_tcpn
<1>2. \A n, m \in _get_tcpn(conns[b].peer) : n <= m /\ m <= n
  BY <1>1 DEF _get_tcpn
<1>3. \A n, m \in _get_tcpn(conns[b].peer) : n = m
  BY <1>1, <1>2, Records DEF IInv
<1>4. \A n \in Used : tcpconns[n].peer = None => tcpconns[n].conn # b
  BY DEF Unresolved, IInv
<1> QED BY <1>1, <1>3, <1>4

\* A client's connection ends by an error.
LEMMA ReconKeepsIInv ==
    ASSUME IInv, NEW b \in Blocks, Stage(b, "failed"), ~conns[b].child, tcpconn_recon_cb(b),
           UNCHANGED <<tcpserver, orphaned, faulted, history>>
    PROVE  IInv'
<1>1. PICK p \in Peers : b \in Held /\ p = conns[b].peer /\ p # None /\ conns[b].stage = "failed"
  BY Records DEF IInv, Stage
<1> DEFINE ns == _get_tcpn(p)
           left == [conns[b] EXCEPT !.stage = "idle"]
<1>2. /\ locked' = FALSE
      /\ IF \E n \in ns : ~tcpconns[n].connected THEN Answered(p) ELSE UNCHANGED owed
      /\ Cleaned(ns, b, left)
  BY <1>1 DEF tcpconn_recon_cb
<1>3. TypeOK /\ spoiled' = spoiled /\ mixed' = mixed
  BY DEF IInv, history
<1>4. /\ ns \in SUBSET Used
      /\ \A n \in ns : tcpconns[n].peer = p
      /\ \A n, m \in ns : n = m
      /\ \A n \in Used : tcpconns[n].peer = None => tcpconns[n].conn # b
  BY <1>1, Found
<1>5. left \in Connection /\ left.peer = p /\ left.child = conns[b].child
  <2>1. conns[b] \in Connection
    BY <1>1, Records DEF IInv
  <2> QED BY <1>1, <2>1 DEF Connection
<1>6. p \notin spoiled =>
         /\ Good(p) /\ ns = Owner(b)
         /\ \E n \in Used : ns = {n} /\ tcpconns[n].conn = b
         /\ owed[p] = IF \E n \in ns : ~tcpconns[n].connected THEN 1 ELSE 0
  <2> SUFFICES ASSUME p \notin spoiled
               PROVE  /\ Good(p) /\ ns = Owner(b)
                      /\ \E n \in Used : ns = {n} /\ tcpconns[n].conn = b
                      /\ owed[p] = IF \E n \in ns : ~tcpconns[n].connected THEN 1 ELSE 0
    OBVIOUS
  <2>1. Good(p)
    BY DEF IInv
  <2>2. ns = Owner(b)
    BY <1>1, FindsOwner
  <2>3. PICK n \in Owner(b) : TRUE
    BY <1>1, OwnerFacts
  <2>4. n \in Used /\ tcpconns[n].conn = b /\ ns = {n}
    BY <1>1, <2>2, <2>3, OwnerFacts
  <2>5. \A m \in Waiting(p) : m = n /\ ~tcpconns[m].connected
    <3> SUFFICES ASSUME NEW m \in Waiting(p)
                 PROVE  m = n /\ ~tcpconns[m].connected
      OBVIOUS
    <3>1. m \in Used /\ tcpconns[m].conn \in Held /\ conns[tcpconns[m].conn].peer = p /\ ~tcpconns[m].connected
      BY DEF Waiting
    <3>2. tcpconns[m].conn = b
      BY <1>1, <2>1, <3>1 DEF Good
    <3> QED BY <2>2, <2>4, <3>1, <3>2 DEF Owner
  <2>6. ~tcpconns[n].connected => n \in Waiting(p)
    BY <1>1, <2>4 DEF Waiting
  <2> QED BY <2>1, <2>2, <2>4, <2>5, <2>6 DEF Good
<1>7. /\ owed' \in [Peers -> 0 .. 1]
      /\ \A q \in Peers : q # p => owed'[q] = owed[q]
      /\ p \notin spoiled => owed'[p] = 0
  <2>1. CASE \E n \in ns : ~tcpconns[n].connected
    <3>1. owed' = IF p \in spoiled THEN owed ELSE [owed EXCEPT ![p] = @ - 1]
      BY <1>2, <2>1 DEF Answered
    <3>2. p \notin spoiled => owed[p] = 1
      BY <1>6, <2>1
    <3> QED BY <1>3, <3>1, <3>2 DEF TypeOK
  <2>2. CASE ~\E n \in ns : ~tcpconns[n].connected
    BY <1>2, <1>3, <1>6, <2>2 DEF TypeOK
  <2> QED BY <2>1, <2>2
<1>8. TypeOK'
  <2>1. tcpconns' \in [Links -> {None} \cup Link] /\ conns' \in [Blocks -> {None} \cup Connection]
    BY <1>2, <1>3, <1>5, CleanedTypes
  <2> QED BY <1>2, <1>3, <1>7, <2>1 DEF TypeOK
<1>9. Concerns(p) /\ Unresolved' /\ Unmixed' /\ ServerLinks' = ServerLinks \ ns
  <2>1. /\ \A n \in ns : tcpconns[n].peer = p \/ (tcpconns[n].peer = None /\ tcpconns[n].conn = b)
        /\ \A n \in Used \ ns : tcpconns[n].peer = None => tcpconns[n].conn # b
        /\ left = None \/ (left \in Connection /\ left.peer = p /\ left.child = conns[b].child)
    BY <1>4, <1>5
  <2> HIDE DEF ns, left
  <2> QED BY <1>1, <1>2, <1>4, <1>7, <1>8, <2>1, CleanedKeeps
<1>10. ASSUME p \notin spoiled'
       PROVE  Good(p)'
  <2>1. p \notin spoiled /\ ns = Owner(b)
    BY <1>3, <1>6, <1>10
  <2>2. {tcpconns[n].conn : n \in ns} = {b}
    BY <1>6, <2>1
  <2>3. \A n \in Links : tcpconns'[n] = IF n \in Owner(b) THEN None ELSE tcpconns[n]
    BY <1>2, <2>1 DEF Cleaned
  <2>4. \A c \in Blocks : conns'[c] = IF c = b THEN None ELSE conns[c]
    BY <1>2, <2>2 DEF Cleaned
  <2> QED BY <1>1, <1>7, <1>8, <2>1, <2>3, <2>4, ReleasedGood
<1>11. CountRight'
  <2> SUFFICES ASSUME ~mixed
               PROVE  CountRight'
    BY <1>3 DEF CountRight
  <2>1. \A n \in ServerLinks : tcpconns[n].peer # p
    BY <1>1 DEF Unmixed, IInv
  <2>2. ServerLinks' = ServerLinks
    BY <1>4, <1>9, <2>1
  <2> QED BY <1>3, <2>2, SameCount
<1> QED BY <1>8, <1>9, <1>10, <1>11, Assembled

\* A connection has ended, with its link if it has one.
LEMMA DisconKeepsIInv ==
    ASSUME IInv, NEW b \in Blocks, Stage(b, "closing"), tcpconn_disconcb(b),
           conns[b].child => tcpserver # None
    PROVE  IInv'
<1>1. PICK p \in Peers : b \in Held /\ p = conns[b].peer /\ p # None /\ conns[b].stage = "closing"
  BY Records DEF IInv, Stage
<1> DEFINE ns == IF conns[b].disconcb THEN _get_tcpn(p) ELSE {}
           left == Left(b)
<1>2. /\ tcpserver' = IF conns[b].child THEN Departed(b) ELSE tcpserver
      /\ Cleaned(ns, b, left)
      /\ UNCHANGED <<orphaned, locked, faulted, owed>>
      /\ spoiled' = spoiled /\ mixed' = mixed
  BY <1>1 DEF tcpconn_disconcb, history
<1>3. TypeOK
  BY DEF IInv
<1>4. /\ ns \in SUBSET Used
      /\ \A n \in ns : tcpconns[n].peer = p
      /\ \A n, m \in ns : n = m
      /\ \A n \in Used : tcpconns[n].peer = None => tcpconns[n].conn # b
  BY <1>1, Found
<1>5. conns[b] \in Connection
  BY <1>1, Records DEF IInv
<1>6. left = None \/ (left \in Connection /\ left.peer = p /\ left.child = conns[b].child)
  BY <1>1, <1>5 DEF Left, Connection
<1>7. TypeOK'
  <2>1. left \in {None} \cup Connection
    BY <1>6
  <2>2. tcpconns' \in [Links -> {None} \cup Link] /\ conns' \in [Blocks -> {None} \cup Connection]
    BY <1>2, <1>3, <2>1, CleanedTypes
  <2>3. tcpserver' \in {None} \cup Server
    <3>1. CASE ~conns[b].child
      BY <1>2, <1>3, <3>1 DEF TypeOK
    <3>2. CASE conns[b].child
      <4>1. tcpserver \in Server /\ conns[b].disconcb \in BOOLEAN
        BY <1>3, <1>5, <3>2 DEF TypeOK, Connection
      <4> QED BY <1>2, <3>2, <4>1, LinksAssumption DEF Departed, Server
    <3> QED BY <3>1, <3>2
  <2> QED BY <1>2, <1>3, <2>2, <2>3 DEF TypeOK
<1>8. Concerns(p) /\ Unresolved' /\ Unmixed' /\ ServerLinks' = ServerLinks \ ns
  <2>1. UNCHANGED history /\ \A q \in Peers : q # p => owed'[q] = owed[q]
    BY <1>2 DEF history
  <2>2. /\ \A n \in ns : tcpconns[n].peer = p \/ (tcpconns[n].peer = None /\ tcpconns[n].conn = b)
        /\ \A n \in Used \ ns : tcpconns[n].peer = None => tcpconns[n].conn # b
    BY <1>4
  <2>3. Cleaned(ns, b, left) /\ ns \in SUBSET Used /\ b \in Held /\ p = conns[b].peer
    BY <1>1, <1>2, <1>4
  <2> HIDE DEF ns, left
  <2> QED BY <1>6, <1>7, <2>1, <2>2, <2>3, CleanedKeeps
<1>9. ASSUME p \notin spoiled'
      PROVE  Good(p)'
  <2>1. p \notin spoiled /\ Good(p)
    BY <1>2, <1>9 DEF IInv
  <2>2. /\ \A n \in Owner(b) : n \in Used /\ tcpconns[n].conn = b /\ Fits(tcpconns[n], conns[b])
        /\ Owner(b) = {} => conns[b].child
    BY <1>1, <2>1, OwnerFacts
  <2>3. _get_tcpn(p) = Owner(b)
    BY <1>1, <2>1, FindsOwner
  <2>4. \A n \in Owner(b) : tcpconns[n].connected /\ conns[b].disconcb
    BY <1>1, <2>2 DEF Fits
  <2>5. ns = Owner(b)
    BY <2>3, <2>4
  <2>6. Owner(b) = {} => left = None
    BY <2>2 DEF Left
  <2>7. {tcpconns[n].conn : n \in ns} = IF Owner(b) = {} THEN {} ELSE {b}
    BY <2>2, <2>5
  <2>8. \A n \in Links : tcpconns'[n] = IF n \in Owner(b) THEN None ELSE tcpconns[n]
    BY <1>2, <2>5 DEF Cleaned
  <2>9. \A c \in Blocks : conns'[c] = IF c = b THEN None ELSE conns[c]
    BY <1>2, <2>6, <2>7 DEF Cleaned
  <2>10. Waiting(p) = {}
    <3> SUFFICES ASSUME NEW m \in Waiting(p)
                 PROVE  FALSE
      OBVIOUS
    <3>1. m \in Used /\ tcpconns[m].conn \in Held /\ conns[tcpconns[m].conn].peer = p /\ ~tcpconns[m].connected
      BY DEF Waiting
    <3>2. tcpconns[m].conn = b
      BY <1>1, <2>1, <3>1 DEF Good
    <3> QED BY <2>4, <3>1, <3>2 DEF Owner
  <2>11. owed'[p] = 0
    BY <1>2, <2>1, <2>10 DEF Good
  <2> QED BY <1>1, <1>7, <2>1, <2>8, <2>9, <2>11, ReleasedGood
<1>10. CountRight'
  <2>1. CASE conns[b].child /\ conns[b].disconcb
    <3>1. tcpserver'.connected =
            IF tcpserver.connected > 0 THEN tcpserver.connected - 1 ELSE tcpserver.connected
      BY <1>2, <2>1 DEF Departed
    <3> QED BY <1>2, <1>4, <1>8, <2>1, <3>1, CountAfterLeaving
  <2>2. CASE conns[b].child /\ ~conns[b].disconcb
    <3>1. tcpserver'.connected = tcpserver.connected /\ ServerLinks' = ServerLinks
      BY <1>2, <1>8, <2>2 DEF Departed
    <3> QED BY <1>2, <2>2, <3>1, SameCount
  <2>3. CASE ~conns[b].child
    <3> SUFFICES ASSUME ~mixed
                 PROVE  CountRight'
      BY <1>2 DEF CountRight
    <3>1. \A n \in ServerLinks : tcpconns[n].peer # p
      BY <1>1, <2>3 DEF Unmixed, IInv
    <3>2. ServerLinks' = ServerLinks
      BY <1>4, <1>8, <3>1
    <3> QED BY <1>2, <2>3, <3>2, SameCount
  <2> QED BY <2>1, <2>2, <2>3
<1> QED BY <1>7, <1>8, <1>9, <1>10, Assembled

\* A connection of the server ends by an error: its address is spoiled, because
\* the link stays.
LEMMA BrokenKeepsIInv ==
    ASSUME IInv, NEW b \in Blocks, Stage(b, "failed"), conns[b].child, tcpserver # None, BrokenChild(b)
    PROVE  IInv'
<1>1. PICK p \in Peers : b \in Held /\ p = conns[b].peer /\ p # None /\ conns[b].stage = "failed"
  BY Records DEF IInv, Stage
<1>2. /\ conns' = [conns EXCEPT ![b] = None]
      /\ tcpserver' = [tcpserver EXCEPT !.disconcb = conns[b].disconcb]
      /\ spoiled' = spoiled \cup (IF Named(b) THEN {p} ELSE {})
      /\ UNCHANGED <<tcpconns, orphaned, locked, faulted, owed, mixed>>
  BY <1>1 DEF BrokenChild, Spoils
<1>3. TypeOK /\ tcpserver \in Server /\ conns[b].disconcb \in BOOLEAN
  BY <1>1, Records DEF IInv, TypeOK
<1>4. conns'[b] = None /\ \A d \in Blocks : d # b => conns'[d] = conns[d]
  BY <1>2, <1>3 DEF TypeOK
<1>5. Held' = Held \ {b} /\ Used' = Used
  BY <1>2, <1>4 DEF Held, Used
<1>6. tcpserver' \in Server /\ tcpserver'.connected = tcpserver.connected
  BY <1>2, <1>3 DEF Server
<1>7. TypeOK'
  <2>1. conns' \in [Blocks -> {None} \cup Connection]
    BY <1>2, <1>3 DEF TypeOK
  <2>2. spoiled' \subseteq Peers
    BY <1>2, <1>3 DEF TypeOK
  <2> QED BY <1>2, <1>3, <1>6, <2>1, <2>2 DEF TypeOK
<1>8. Concerns(p)
  <2>1. BlockAt(b, p) /\ BlockAt(b, p)'
    BY <1>1, <1>5 DEF BlockAt
  <2> QED BY <1>2, <1>4, <2>1 DEF Concerns
<1>9. p \in spoiled'
  <2>1. p \notin spoiled => Owner(b) # {}
    BY <1>1, OwnerFacts
  <2>2. Owner(b) # {} => Named(b)
    BY DEF Owner, Named
  <2> QED BY <1>2, <2>1, <2>2
<1>10. Unresolved'
  <2>1. \A d \in Held : conns[d].stage \in {"resolving", "dangling"} => d \in Held' /\ conns'[d] = conns[d]
    BY <1>1, <1>4, <1>5 DEF Held
  <2> QED BY <1>2, <1>5, <2>1 DEF Unresolved, IInv
<1>11. ServerLinks' = ServerLinks
  BY <1>2, <1>5 DEF ServerLinks
<1>12. Unmixed'
  <2>1. \A d \in Held' : d \in Held /\ conns'[d] = conns[d]
    BY <1>4, <1>5 DEF Held
  <2> QED BY <1>2, <1>11, <2>1 DEF Unmixed, IInv
<1>13. CountRight'
  BY <1>2, <1>6, <1>11, SameCount
<1> QED BY <1>7, <1>8, <1>9, <1>10, <1>12, <1>13, Assembled

\* A connection comes in, and gets a link.
LEMMA AcceptKeepsIInv ==
    ASSUME IInv, NEW n \in Links, NEW b \in Blocks, NEW p \in Peers,
           n \notin Used, b \notin Held, tcpserver # None, tcpserver.connected < MaxConn,
           tcpserver' = [tcpserver EXCEPT !.connected = @ + 1],
           tcpconns' = [tcpconns EXCEPT ![n] =
                          [conn |-> b, peer |-> p, connected |-> TRUE, parrent |-> "server"]],
           conns' = [conns EXCEPT ![b] =
                       [stage |-> "open", peer |-> p, child |-> TRUE,
                        disconcb |-> TRUE, unacked |-> FALSE]],
           mixed' = (mixed \/ \E c \in Held : ~conns[c].child /\ conns[c].peer = p),
           Begun(b, p),
           UNCHANGED <<orphaned, locked, faulted, owed>>
    PROVE  IInv'
<1> DEFINE l == [conn |-> b, peer |-> p, connected |-> TRUE, parrent |-> "server"]
           c == [stage |-> "open", peer |-> p, child |-> TRUE, disconcb |-> TRUE, unacked |-> FALSE]
<1>1. spoiled' = spoiled \cup (IF Taken(p) \/ Named(b) THEN {p} ELSE {})
  BY DEF Begun, Spoils
<1>2. l \in Link /\ c \in Connection /\ l # None /\ c # None /\ p # None
  <2>1. l \in Link
    BY DEF Link
  <2>2. c \in Connection
    BY DEF Connection
  <2> QED BY <2>1, <2>2, NoneAssumption
<1>3. TypeOK /\ tcpserver \in Server
  BY DEF IInv, TypeOK
<1>4. /\ tcpconns'[n] = l /\ \A m \in Links : m # n => tcpconns'[m] = tcpconns[m]
      /\ conns'[b] = c /\ \A d \in Blocks : d # b => conns'[d] = conns[d]
  BY <1>3 DEF TypeOK
<1>5. Used' = Used \cup {n} /\ Held' = Held \cup {b}
  BY <1>2, <1>4 DEF Used, Held
<1>6. tcpserver' \in Server /\ tcpserver'.connected = tcpserver.connected + 1
  BY <1>3, LinksAssumption DEF Server
<1>7. TypeOK'
  <2>1. tcpconns' \in [Links -> {None} \cup Link] /\ conns' \in [Blocks -> {None} \cup Connection]
    BY <1>2, <1>3 DEF TypeOK
  <2>2. mixed' \in BOOLEAN
    OBVIOUS
  <2>3. spoiled' \subseteq Peers
    BY <1>1, <1>3 DEF TypeOK
  <2> QED BY <1>3, <1>6, <2>1, <2>2, <2>3 DEF TypeOK
<1>8. Concerns(p)
  <2>1. BlockAt(b, p) /\ BlockAt(b, p)'
    BY <1>4 DEF BlockAt
  <2>2. LinkAt(n, p) /\ LinkAt(n, p)'
    BY <1>4, <2>1 DEF LinkAt
  <2> QED BY <1>1, <1>4, <2>1, <2>2 DEF Concerns
<1>9. ASSUME p \notin spoiled'
      PROVE  Good(p)'
  <2>1. Good(p) /\ ~Taken(p) /\ ~Named(b)
    BY <1>1, <1>9 DEF IInv
  <2>2. \A d \in Held' : conns'[d].peer = p => d = b
    BY <1>4, <1>5, <2>1 DEF Taken, Held
  <2>3. \A m \in Used' : tcpconns'[m].conn = b => m = n
    BY <1>4, <1>5, <2>1 DEF Named, Used
  <2>4. Owner(b)' = {n}
    BY <1>4, <1>5, <2>3 DEF Owner
  <2>5. Fits(l, c)
    BY DEF Fits
  <2>6. \A m \in Used' : tcpconns'[m].peer = p =>
           tcpconns'[m].conn \in Held' /\ conns'[tcpconns'[m].conn].peer = p
    BY <1>4, <1>5, <2>1 DEF Taken, Used
  <2>7. Waiting(p) = {}
    BY <2>1 DEF Waiting, Taken
  <2>8. Waiting(p)' = {}
    BY <1>4, <2>2, <2>3 DEF Waiting
  <2>9. owed'[p] = 0
    BY <2>1, <2>7 DEF Good
  <2>10. \A d \in Held' : conns'[d].peer = p =>
           /\ conns'[d].stage \notin {"idle", "dangling"}
           /\ \A m, k \in Owner(d)' : m = k
           /\ Owner(d)' # {}
           /\ \A m \in Owner(d)' : Fits(tcpconns'[m], conns'[d])
    <3> SUFFICES ASSUME NEW d \in Held', conns'[d].peer = p
                 PROVE  /\ conns'[d].stage \notin {"idle", "dangling"}
                        /\ \A m, k \in Owner(d)' : m = k
                        /\ Owner(d)' # {}
                        /\ \A m \in Owner(d)' : Fits(tcpconns'[m], conns'[d])
      OBVIOUS
    <3>1. d = b /\ conns'[d] = c /\ Owner(d)' = {n}
      BY <1>4, <2>2, <2>4
    <3>2. \A m \in Owner(d)' : tcpconns'[m] = l
      BY <1>4, <3>1
    <3> QED BY <2>5, <3>1, <3>2
  <2> QED BY <2>2, <2>6, <2>8, <2>9, <2>10 DEF Good, Fits
<1>10. \A m \in Used : tcpconns'[m] = tcpconns[m]
  BY <1>4 DEF Used
<1>11. \A d \in Held : conns'[d] = conns[d]
  BY <1>4 DEF Held
<1>12. Unresolved'
  BY <1>2, <1>4, <1>5, <1>10, <1>11 DEF Unresolved, IInv
<1>13. ServerLinks' = ServerLinks \cup {n}
  BY <1>4, <1>5, <1>10 DEF ServerLinks
<1>14. Unmixed'
  <2>1. mixed \/ \A d \in Held, m \in ServerLinks : ~conns[d].child => conns[d].peer # tcpconns[m].peer
    BY DEF Unmixed, IInv
  <2>2. mixed' \/ \A d \in Held : ~conns[d].child => conns[d].peer # p
    OBVIOUS
  <2>3. mixed => mixed'
    OBVIOUS
  <2>4. conns'[b].child /\ tcpconns'[n].peer = p
    BY <1>4
  <2>5. \A m \in ServerLinks : tcpconns'[m] = tcpconns[m]
    BY <1>10 DEF ServerLinks
  <2> QED BY <1>5, <1>11, <1>13, <2>1, <2>2, <2>3, <2>4, <2>5 DEF Unmixed
<1>15. CountRight'
  <2>1. mixed => mixed'
    OBVIOUS
  <2> QED BY <1>6, <1>13, <2>1, CountAfterArrival
<1> QED BY <1>7, <1>8, <1>9, <1>12, <1>14, <1>15, Assembled

\* A connection comes in and is refused.
LEMMA RefusedKeepsIInv ==
    ASSUME IInv, NEW b \in Blocks, NEW p \in Peers, b \notin Held, tcpserver # None,
           conns' = [conns EXCEPT ![b] =
                       [stage |-> "closing", peer |-> p, child |-> TRUE,
                        disconcb |-> tcpserver.disconcb, unacked |-> FALSE]],
           UNCHANGED <<tcpconns, tcpserver, mixed>>,
           Begun(b, p),
           UNCHANGED <<orphaned, locked, faulted, owed>>
    PROVE  IInv'
<1> DEFINE c == [stage |-> "closing", peer |-> p, child |-> TRUE,
                 disconcb |-> tcpserver.disconcb, unacked |-> FALSE]
<1>1. spoiled' = spoiled \cup (IF Taken(p) \/ Named(b) THEN {p} ELSE {})
  BY DEF Begun, Spoils
<1>2. TypeOK /\ tcpserver \in Server
  BY DEF IInv, TypeOK
<1>3. c \in Connection /\ c # None
  <2>1. tcpserver.disconcb \in BOOLEAN
    BY <1>2 DEF Server
  <2>2. c \in Connection
    BY <2>1 DEF Connection
  <2> QED BY <2>2, NoneAssumption
<1>4. conns'[b] = c /\ \A d \in Blocks : d # b => conns'[d] = conns[d]
  BY <1>2 DEF TypeOK
<1>5. Used' = Used /\ Held' = Held \cup {b} /\ ServerLinks' = ServerLinks
  BY <1>3, <1>4 DEF Used, Held, ServerLinks
<1>6. TypeOK'
  <2>1. conns' \in [Blocks -> {None} \cup Connection]
    BY <1>2, <1>3 DEF TypeOK
  <2>2. spoiled' \subseteq Peers
    BY <1>1, <1>2 DEF TypeOK
  <2> QED BY <1>2, <2>1, <2>2 DEF TypeOK
<1>7. Concerns(p)
  <2>1. BlockAt(b, p) /\ BlockAt(b, p)'
    BY <1>4 DEF BlockAt
  <2> QED BY <1>1, <1>4, <2>1 DEF Concerns
<1>8. ASSUME p \notin spoiled'
      PROVE  Good(p)'
  <2>1. Good(p) /\ ~Taken(p) /\ ~Named(b)
    BY <1>1, <1>8 DEF IInv
  <2>2. \A d \in Held' : conns'[d].peer = p => d = b
    BY <1>4, <1>5, <2>1 DEF Taken, Held
  <2>3. Owner(b)' = {}
    BY <1>5, <2>1 DEF Owner, Named
  <2>4. \A m \in Used' : tcpconns'[m].peer # p /\ tcpconns'[m].conn # b
    BY <1>5, <2>1 DEF Taken, Named
  <2>5. Waiting(p) = {}
    BY <2>1 DEF Waiting, Taken
  <2>6. Waiting(p)' = {}
    BY <2>2, <2>4 DEF Waiting
  <2>7. owed'[p] = 0
    BY <2>1, <2>5 DEF Good
  <2>8. \A d \in Held' : conns'[d].peer = p =>
           /\ conns'[d].stage = "closing" /\ conns'[d].child
           /\ Owner(d)' = {}
    BY <1>4, <2>2, <2>3
  <2> QED BY <2>2, <2>4, <2>6, <2>7, <2>8 DEF Good
<1>9. \A d \in Held : conns'[d] = conns[d]
  BY <1>4 DEF Held
<1>10. Unresolved'
  BY <1>5, <1>9 DEF Unresolved, IInv
<1>11. Unmixed'
  BY <1>4, <1>5, <1>9 DEF Unmixed, IInv
<1>12. CountRight'
  BY <1>5, SameCount
<1> QED BY <1>6, <1>7, <1>8, <1>10, <1>11, <1>12, Assembled

\* espconn_disconnect moves connections to another stage, and spoils those that
\* are not established.
LEMMA DisconnectedMoves ==
    ASSUME IInv, NEW bs, Disconnected(bs)
    PROVE  /\ conns' \in [Blocks -> {None} \cup Connection]
           /\ spoiled \subseteq spoiled' /\ spoiled' \subseteq Peers
           /\ \A b \in Blocks :
                conns'[b] = conns[b] \/ (b \in Held /\ b \in Held' /\ Moved(conns[b], conns'[b]))
<1>1. /\ conns' = [b \in Blocks |-> IF b \in bs /\ Live(b)
                                     THEN [conns[b] EXCEPT !.stage = "closing", !.unacked = FALSE]
                                     ELSE conns[b]]
      /\ spoiled' = spoiled \cup {conns[b].peer : b \in {c \in bs : Stage(c, "connecting")}}
  BY DEF Disconnected, Ending, Spoils
<1>2. TypeOK
  BY DEF IInv
<1>3. \A b \in Blocks : Live(b) =>
        b \in Held /\ conns[b] \in Connection /\ conns[b].stage \in {"open", "connecting"}
  BY <1>2, Records DEF Live, Stage
<1>4. \A b \in Held : conns[b] \in Connection /\ conns[b].peer \in Peers
  BY <1>2, Records
<1>5. \A b \in Held : [conns[b] EXCEPT !.stage = "closing", !.unacked = FALSE] \in Connection
  BY <1>4 DEF Connection
<1>6. \A b \in Blocks : conns'[b] \in {None} \cup Connection
  BY <1>1, <1>2, <1>3, <1>5 DEF TypeOK
<1>7. spoiled \subseteq spoiled' /\ spoiled' \subseteq Peers
  BY <1>1, <1>2, <1>4 DEF TypeOK, Stage
<1>8. ASSUME NEW b \in Blocks, b \in bs, Live(b)
      PROVE  b \in Held /\ b \in Held' /\ Moved(conns[b], conns'[b])
  <2>1. conns'[b] = [conns[b] EXCEPT !.stage = "closing", !.unacked = FALSE]
    BY <1>1, <1>8
  <2>2. b \in Held /\ conns[b] \in Connection /\ conns[b].stage \in {"open", "connecting"}
    BY <1>3, <1>8
  <2>3. /\ conns'[b].peer = conns[b].peer /\ conns'[b].child = conns[b].child
        /\ conns'[b].disconcb = conns[b].disconcb /\ conns'[b].stage = "closing"
    BY <2>1, <2>2, Staged
  <2>4. conns[b].stage = "connecting" => conns[b].peer \in spoiled'
    BY <1>1, <1>8, <2>2 DEF Stage
  <2>5. b \in Held'
    BY <1>5, <2>1, <2>2, NoneAssumption DEF Held
  <2> QED BY <2>2, <2>3, <2>4, <2>5 DEF Moved
<1>9. \A b \in Blocks : conns'[b] = conns[b] \/ (b \in bs /\ Live(b))
  BY <1>1
<1> QED BY <1>1, <1>6, <1>7, <1>8, <1>9

\* One connection moves to another stage, or has data on its way or not.
LEMMA MovedAlone ==
    ASSUME IInv, NEW b \in Held, NEW c \in Connection, conns' = [conns EXCEPT ![b] = c],
           Moved(conns[b], c), UNCHANGED <<tcpconns, tcpserver, orphaned, faulted, owed, history>>,
           locked' \in BOOLEAN
    PROVE  IInv'
<1>1. TypeOK /\ b \in Blocks
  BY DEF IInv, Held
<1>2. conns'[b] = c /\ \A d \in Blocks : d # b => conns'[d] = conns[d]
  BY <1>1 DEF TypeOK
<1>3. spoiled' = spoiled /\ mixed' = mixed
  BY DEF history
<1>4. TypeOK'
  <2>1. conns' \in [Blocks -> {None} \cup Connection]
    BY <1>1 DEF TypeOK
  <2> QED BY <1>1, <1>3, <2>1 DEF TypeOK
<1>5. b \in Held'
  BY <1>1, <1>2, NoneAssumption DEF Held
<1>6. StagesOnly
  BY <1>2, <1>3, <1>5 DEF StagesOnly
<1>7. ServerLinks' = ServerLinks
  BY DEF ServerLinks, Used
<1>8. CountRight'
  BY <1>3, <1>7, SameCount
<1> QED BY <1>4, <1>6, <1>8, StagesKeep

\* Some connections are disconnected and nothing else changes, except that the
\* server may be deleted.
LEMMA DisconnectedKeeps ==
    ASSUME IInv, NEW bs, Disconnected(bs), UNCHANGED <<tcpconns, faulted, owed, mixed>>,
           locked' \in BOOLEAN, orphaned' \in BOOLEAN, tcpserver' \in {None, tcpserver}
    PROVE  IInv'
<1>1. /\ conns' \in [Blocks -> {None} \cup Connection]
      /\ spoiled \subseteq spoiled' /\ spoiled' \subseteq Peers
      /\ \A b \in Blocks :
           conns'[b] = conns[b] \/ (b \in Held /\ b \in Held' /\ Moved(conns[b], conns'[b]))
  BY DisconnectedMoves
<1>2. TypeOK'
  BY <1>1 DEF IInv, TypeOK
<1>3. StagesOnly
  BY <1>1 DEF StagesOnly
<1>4. ServerLinks' = ServerLinks
  BY DEF ServerLinks, Used
<1>5. CountRight'
  <2>1. CASE tcpserver' = tcpserver
    BY <1>4, <2>1, SameCount
  <2>2. CASE tcpserver' = None
    BY <2>2 DEF CountRight
  <2> QED BY <2>1, <2>2
<1> QED BY <1>2, <1>3, <1>5, StagesKeep

\* The commands for a link.
LEMMA LinkCommandKeepsIInv ==
    ASSUME IInv, NEW n \in Links, at_setupCmdTCPClose(n) \/ at_setupCmdTCPSend(n)
    PROVE  IInv'
<1>1. locked \in BOOLEAN /\ orphaned \in BOOLEAN
  BY DEF IInv, TypeOK
<1>2. CASE at_setupCmdTCPClose(n)
  BY <1>1, <1>2, DisconnectedKeeps DEF at_setupCmdTCPClose
<1>3. CASE at_setupCmdTCPSend(n)
  <2> DEFINE b == tcpconns[n].conn
  <2>1. CASE Disconnected({b}) /\ UNCHANGED locked
    BY <1>1, <1>3, <2>1, DisconnectedKeeps DEF at_setupCmdTCPSend
  <2>2. CASE /\ Stage(b, "open") /\ conns' = [conns EXCEPT ![b].unacked = TRUE]
             /\ locked' = TRUE /\ UNCHANGED spoiled
    <3> DEFINE c == [conns[b] EXCEPT !.unacked = TRUE]
    <3>1. b \in Held /\ conns[b] \in Connection
      BY <2>2, Records DEF IInv, Stage
    <3>2. c \in Connection
      BY <3>1 DEF Connection
    <3>3. Moved(conns[b], c)
      BY <3>1, Staged DEF Moved
    <3>4. conns' = [conns EXCEPT ![b] = c]
      BY <2>2
    <3>5. UNCHANGED <<tcpconns, tcpserver, orphaned, faulted, owed, history>>
      BY <1>3, <2>2 DEF at_setupCmdTCPSend, history
    <3> HIDE DEF c, b
    <3> QED BY <2>2, <3>1, <3>2, <3>3, <3>4, <3>5, MovedAlone
  <2> QED BY <1>3, <2>1, <2>2 DEF at_setupCmdTCPSend
<1> QED BY <1>2, <1>3

\* Data is acknowledged or comes in, the other side closes, a connection breaks.
LEMMA TrafficKeepsIInv ==
    ASSUME IInv, NEW b \in Blocks,
           tcpconn_sendcb(b) \/ tcpconn_recvcb(b) \/ PeerCloses(b) \/ Reset(b)
    PROVE  IInv'
<1>1. /\ b \in Held /\ conns[b] \in Connection /\ locked \in BOOLEAN /\ orphaned \in BOOLEAN
      /\ conns[b].stage \in {"open", "connecting"}
  BY Records DEF IInv, TypeOK, tcpconn_sendcb, tcpconn_recvcb, PeerCloses, Reset, Live, Stage
<1>2. CASE tcpconn_sendcb(b)
  <2> DEFINE c == [conns[b] EXCEPT !.unacked = FALSE]
  <2>1. c \in Connection
    BY <1>1 DEF Connection
  <2>2. Moved(conns[b], c)
    BY <1>1, Staged DEF Moved
  <2>3. conns' = [conns EXCEPT ![b] = c] /\ locked' = FALSE
        /\ UNCHANGED <<tcpconns, tcpserver, orphaned, faulted, owed, history>>
    BY <1>2 DEF tcpconn_sendcb
  <2> HIDE DEF c
  <2> QED BY <1>1, <2>1, <2>2, <2>3, MovedAlone
<1>3. CASE tcpconn_recvcb(b)
  <2>1. CASE UNCHANGED <<conns, spoiled>>
    <3>1. conns' = [conns EXCEPT ![b] = conns[b]]
      BY <2>1 DEF IInv, TypeOK
    <3>2. Moved(conns[b], conns[b])
      BY DEF Moved
    <3>3. locked' = FALSE /\ UNCHANGED <<tcpconns, tcpserver, orphaned, faulted, owed, history>>
      BY <1>3, <2>1 DEF tcpconn_recvcb, history
    <3> QED BY <1>1, <3>1, <3>2, <3>3, MovedAlone
  <2>2. CASE Disconnected({b})
    BY <1>1, <1>3, <2>2, DisconnectedKeeps DEF tcpconn_recvcb
  <2> QED BY <1>3, <2>1, <2>2 DEF tcpconn_recvcb
<1>4. ASSUME NEW s \in {"closing", "failed"}, conns' = [conns EXCEPT ![b] = Ending(b, s)],
             s = "closing" => conns[b].stage = "open",
             UNCHANGED <<tcpconns, tcpserver, orphaned, locked, faulted, owed, history>>
      PROVE  IInv'
  <2> DEFINE c == Ending(b, s)
  <2>1. c \in Connection
    BY <1>1 DEF Connection, Ending
  <2>2. Moved(conns[b], c)
    BY <1>1, <1>4, Staged DEF Moved, Ending
  <2> HIDE DEF c
  <2> QED BY <1>1, <1>4, <2>1, <2>2, MovedAlone DEF c
<1>5. CASE PeerCloses(b)
  BY <1>4, <1>5 DEF PeerCloses, Stage
<1>6. CASE Reset(b)
  BY <1>4, <1>6 DEF Reset
<1> QED BY <1>2, <1>3, <1>5, <1>6

\* The server is created or deleted.
LEMMA ServerKeepsIInv ==
    ASSUME IInv, CreateServer \/ DeleteServer
    PROVE  IInv'
<1>1. CASE CreateServer
  <2>1. /\ tcpserver' = [connected |-> 0, disconcb |-> FALSE]
        /\ UNCHANGED <<tcpconns, orphaned, conns, locked, faulted, owed>>
        /\ spoiled' = spoiled /\ mixed' = mixed
    BY <1>1 DEF CreateServer, history
  <2>2. tcpserver' \in Server
    BY <2>1, LinksAssumption DEF Server
  <2>3. TypeOK'
    BY <2>1, <2>2 DEF IInv, TypeOK
  <2>4. StagesOnly
    BY <2>1 DEF StagesOnly
  <2>5. CountRight'
    <3>1. Cardinality(ServerLinks') \in Nat
      <4>1. ServerLinks' = ServerLinks
        BY <2>1 DEF ServerLinks, Used
      <4> QED BY <4>1, ServerLinksFinite
    <3> QED BY <2>1, <3>1 DEF CountRight
  <2> QED BY <2>3, <2>4, <2>5, StagesKeep
<1>2. CASE DeleteServer
  <2>1. orphaned' \in BOOLEAN
    BY <1>2 DEF DeleteServer
  <2>2. locked' \in BOOLEAN
    BY <1>2 DEF DeleteServer, IInv, TypeOK
  <2>3. Disconnected({tcpconns[n].conn : n \in ServerLinks}) /\ tcpserver' = None
        /\ UNCHANGED <<tcpconns, faulted, owed, mixed>>
    BY <1>2 DEF DeleteServer
  <2> QED BY <2>1, <2>2, <2>3, DisconnectedKeeps
<1> QED BY <1>1, <1>2

\* A connection comes in.
LEMMA IncomingKeepsIInv ==
    ASSUME IInv, NEW b \in Blocks, NEW p \in Peers, tcpserver_client_connect_cb(b, p)
    PROVE  IInv'
<1>1. /\ tcpserver # None /\ b \notin Held /\ Begun(b, p)
      /\ UNCHANGED <<orphaned, locked, faulted, owed>>
  BY DEF tcpserver_client_connect_cb, Allocated
<1> QED BY <1>1, AcceptKeepsIInv, RefusedKeepsIInv DEF tcpserver_client_connect_cb

\* A posted event.
LEMMA TaskKeepsIInv ==
    ASSUME IInv, NEW b \in Blocks, espconn_Task(b)
    PROVE  IInv'
  BY DisconKeepsIInv, ReconKeepsIInv, BrokenKeepsIInv DEF espconn_Task

\* Where the program faults the model starts from nothing and stops.
LEMMA FaultKeepsIInv ==
    ASSUME Fault
    PROVE  IInv'
<1>1. Empty'
  BY DEF Fault, Empty
<1> QED BY <1>1, EmptyIInv, PTL

LEMMA StutterKeepsIInv ==
    ASSUME IInv, UNCHANGED vars
    PROVE  IInv'
<1>1. /\ UNCHANGED <<tcpconns, tcpserver, orphaned, conns, locked, faulted, owed>>
      /\ spoiled' = spoiled /\ mixed' = mixed
  BY DEF vars
<1>2. TypeOK'
  BY <1>1 DEF IInv, TypeOK
<1>3. StagesOnly
  BY <1>1 DEF StagesOnly
<1>4. ServerLinks' = ServerLinks
  BY <1>1 DEF ServerLinks, Used
<1>5. CountRight'
  BY <1>1, <1>4, SameCount
<1> QED BY <1>2, <1>3, <1>5, StagesKeep

-----------------------------------------------------------------------------
(* The theorems *)

LEMMA NextKeepsIInv ==
    ASSUME IInv, [Next]_vars
    PROVE  IInv'
<1>1. CASE Command
  <2>1. ASSUME NEW n \in Links, NEW b \in Blocks, NEW p \in Peers, at_setupCmdTCPConnConnect(n, b, p)
        PROVE  IInv'
    BY <2>1, StartKeepsIInv
  <2>2. ASSUME NEW n \in Links, at_setupCmdTCPClose(n) \/ at_setupCmdTCPSend(n)
        PROVE  IInv'
    BY <2>2, LinkCommandKeepsIInv
  <2>3. CASE CreateServer \/ DeleteServer
    BY <2>3, ServerKeepsIInv
  <2> QED BY <1>1, <2>1, <2>2, <2>3 DEF Command
<1>2. ASSUME NEW b \in Blocks, Event(b)
      PROVE  IInv'
  <2>1. CASE tcpconn_resolved(b)
    BY <2>1, ResolvedKeepsIInv
  <2>2. CASE tcpconn_connect_cb(b)
    BY <2>2, ConnectKeepsIInv
  <2>3. CASE tcpconn_sendcb(b) \/ tcpconn_recvcb(b) \/ PeerCloses(b) \/ Reset(b)
    BY <2>3, TrafficKeepsIInv
  <2>4. ASSUME NEW p \in Peers, tcpserver_client_connect_cb(b, p)
        PROVE  IInv'
    BY <2>4, IncomingKeepsIInv
  <2>5. CASE espconn_Task(b)
    BY <2>5, TaskKeepsIInv
  <2>6. CASE UsesFreed(b)
    BY <2>6, FaultKeepsIInv DEF UsesFreed
  <2> QED BY <1>2, <2>1, <2>2, <2>3, <2>4, <2>5, <2>6 DEF Event
<1>3. CASE UNCHANGED vars
  BY <1>3, StutterKeepsIInv
<1> QED BY <1>1, <1>2, <1>3 DEF Next

LEMMA InitIInv ==
    ASSUME Init
    PROVE  IInv
  BY EmptyIInv DEF Init, Empty

LEMMA AlwaysIInv == Spec => []IInv
<1>1. Init => IInv
  BY InitIInv
<1>2. IInv /\ [Next]_vars => IInv'
  BY NextKeepsIInv
<1> QED BY <1>1, <1>2, PTL DEF Spec

\* Links, server and connections keep their types under every command and
\* callback; no command is owed more than one answer.
THEOREM TypesPreserved == Spec => []TypeOK
<1>1. IInv => TypeOK
  BY DEF IInv
<1> QED BY <1>1, AlwaysIInv, PTL

\* tcpconns and the library's connections correspond at every address that is not
\* spoiled, whatever is spoiled elsewhere: _get_tcpn and tcpconn_cleanup never
\* reach the block of another connection, and leave none behind.
THEOREM LinksCorrespond == Spec => []LinksMatch
<1>1. ASSUME IInv
      PROVE  LinksMatch
  <2>1. ASSUME NEW b \in Held, conns[b].peer \notin spoiled
        PROVE  /\ conns[b].stage \notin {"idle", "dangling"}
               /\ \A n, m \in Used : tcpconns[n].conn = b /\ tcpconns[m].conn = b => n = m
               /\ \/ \E n \in Used : /\ tcpconns[n].conn = b
                                     /\ tcpconns[n].peer \in {None, conns[b].peer}
                                     /\ conns[b].child = (tcpconns[n].parrent = "server")
                  \/ conns[b].child /\ conns[b].stage = "closing"
    <3>1. /\ conns[b].stage \notin {"idle", "dangling"}
          /\ \A n \in Owner(b) : /\ n \in Used /\ tcpconns[n].conn = b
                                 /\ Fits(tcpconns[n], conns[b])
                                 /\ Owner(b) = {n}
          /\ Owner(b) = {} => conns[b].child /\ conns[b].stage = "closing"
      BY <1>1, <2>1, OwnerFacts
    <3>2. \A n, m \in Used : tcpconns[n].conn = b /\ tcpconns[m].conn = b => n = m
      BY <3>1 DEF Owner
    <3>3. ASSUME NEW n \in Owner(b)
          PROVE  /\ tcpconns[n].peer \in {None, conns[b].peer}
                 /\ conns[b].child = (tcpconns[n].parrent = "server")
      BY <3>1, <3>3 DEF Fits
    <3> QED BY <3>1, <3>2, <3>3
  <2>2. ASSUME NEW n \in Used, tcpconns[n].peer \notin spoiled
        PROVE  tcpconns[n].conn \in Held /\ tcpconns[n].peer \in {None, conns[tcpconns[n].conn].peer}
    <3>1. CASE tcpconns[n].peer = None
      BY <1>1, <3>1 DEF Unresolved, IInv
    <3>2. CASE tcpconns[n].peer # None
      <4>1. PICK p \in Peers \ spoiled : p = tcpconns[n].peer
        BY <1>1, <2>2, <3>2, Records DEF IInv
      <4>2. Good(p)
        BY <1>1 DEF IInv
      <4> QED BY <4>1, <4>2 DEF Good
    <3> QED BY <3>1, <3>2
  <2> QED BY <2>1, <2>2 DEF LinksMatch
<1> QED BY <1>1, AlwaysIInv, PTL

\* As long as no client's connection had the address of a link of the server,
\* tcpconn_disconcb never leaves the server counting links it does not have.
THEOREM NeverOvercounted == Spec => []CountRight
<1>1. IInv => CountRight
  BY DEF IInv
<1> QED BY <1>1, AlwaysIInv, PTL

\* An AT+TCPSTART in progress to an address that is not spoiled is owed one answer,
\* and no other is.
THEOREM OneAnswerOwed == Spec => []OwedExactly
<1>1. IInv => OwedExactly
  BY DEF IInv, OwedExactly, Good
<1> QED BY <1>1, AlwaysIInv, PTL
====
