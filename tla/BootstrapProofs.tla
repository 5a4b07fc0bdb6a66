-------------------------- MODULE BootstrapProofs ---------------------------
(***************************************************************************)
(* Proofs about Bootstrap.tla for any number of trackers, server threads   *)
(* and restarts, and about its implementing Registry.tla.                  *)
(***************************************************************************)
EXTENDS MCBootstrap, FiniteSetTheorems, WellFoundedInduction, TLAPS

USE BootstrapAssumption

-----------------------------------------------------------------------------
\* The list.

\* Every non-empty set of numbers has a least element.
LEMMA LeastExists ==
    ASSUME NEW S \in SUBSET Nat, S # {}
    PROVE  \E x \in S : \A y \in S : x <= y
<1>1. PICK x \in S : \A y \in S : ~ (<<y, x>> \in OpToRel(<, Nat))
  BY NatLessThanWellFounded, WFMin
<1>2. \A y \in S : ~ (y < x)
  BY <1>1 DEF OpToRel
<1> QED
  BY <1>2

\* The cursor of a list with more than one tracker moves to another one, which
\* is the next, or the first if there is no next.
LEMMA HeadIn ==
    ASSUME NEW S \in SUBSET Node, S # {}
    PROVE  Head(S) \in S /\ \A y \in S : Head(S) <= y
  BY LeastExists DEF Head

LEMMA CircularIn ==
    ASSUME NEW S \in SUBSET Node, NEW n \in S, S # {n}
    PROVE  /\ Circular(S, n) \in S \ {n}
           /\ \/ n < Circular(S, n) /\ \A y \in S : n < y => Circular(S, n) <= y
              \/ /\ Circular(S, n) < n
                 /\ \A y \in S : Circular(S, n) <= y /\ y <= n
<1>1. S \subseteq Nat /\ Later(S, n) \in SUBSET Node
  BY DEF Later
<1>2. CASE Later(S, n) = {}
  <2>1. Head(S) \in S /\ \A y \in S : Head(S) <= y
    BY HeadIn
  <2>2. \A y \in S : y <= n
    BY <1>1, <1>2 DEF Later
  <2>3. PICK z \in S : z # n
    OBVIOUS
  <2>4. Head(S) < n
    <3>1. Head(S) <= z /\ z <= n /\ Head(S) \in Nat /\ z \in Nat /\ n \in Nat
      BY <1>1, <2>1, <2>2
    <3> QED
      BY <2>3, <3>1
  <2> QED
    BY <1>2, <2>1, <2>2, <2>4 DEF Circular
<1>3. CASE Later(S, n) # {}
  <2>1. Head(Later(S, n)) \in Later(S, n) /\ \A y \in Later(S, n) : Head(Later(S, n)) <= y
    BY <1>1, <1>3, HeadIn
  <2> QED
    BY <1>1, <1>3, <2>1 DEF Circular, Later
<1> QED
  BY <1>2, <1>3

-----------------------------------------------------------------------------
\* The invariant of the list, its cursor and server_stop's place in it.

\* A server that is down has no threads, so that nobody can rely on the list it
\* walks when it is quit.
DownIsIdle == sv = "down" => threads = 0

\* A tracker whose clean-up failed is on, or being stopped again: it does not
\* connect a second time.
DeafAreOn == \A n \in deaf : pc[n] \in {"on", "stop"}

ServerInv == TypeOK /\ CursorRegistered /\ StopWalk /\ OnIsRegistered /\ DownIsIdle
               /\ DeafAreOn

LEMMA ServerInit == Init => ServerInv
<1> SUFFICES ASSUME Init PROVE ServerInv
  OBVIOUS
<1>1. TypeOK
  <2>1. quit \in BOOLEAN
    BY Zenon DEF Init
  <2> QED
    BY <2>1 DEF Init, TypeOK
<1>2. CursorRegistered /\ StopWalk /\ OnIsRegistered /\ DownIsIdle /\ DeafAreOn
  BY DEF Init, CursorRegistered, StopWalk, OnIsRegistered, DownIsIdle, DeafAreOn
<1> QED
  BY <1>1, <1>2 DEF ServerInv

\* A request is answered, so server_stop is not walking the list.
LEMMA ConnectInv ==
    ASSUME ServerInv, NEW n \in Node, ConnectTracker(n)
    PROVE  ServerInv'
<1> USE DEF ServerInv, TypeOK, DownIsIdle, DeafAreOn
<1>1. /\ clients' = clients \cup {n} /\ sv \in {"up", "closing"} /\ threads > 0
      /\ pc[n] = "connect" /\ n \notin deaf
      /\ UNCHANGED <<sv, quit, starts, p, uploads, deaf, running, notice>>
      /\ pc' = [pc EXCEPT ![n] = "join"]
      /\ threads' = threads \/ threads' = threads - 1
  BY DEF ConnectTracker, Serves, Served
<1>2. cursor' \in clients' /\ peer' \in [Node -> Node \cup {None}]
  <2>1. CASE clients \subseteq {n}
    BY <1>1, <2>1 DEF ConnectTracker
  <2>2. CASE ~(clients \subseteq {n})
    <3>1. cursor \in clients' /\ cursor \in Node /\ clients' \in SUBSET Node
          /\ clients' # {cursor}
      BY <1>1, <2>2 DEF CursorRegistered
    <3>2. Circular(clients', cursor) \in clients'
      BY <3>1, CircularIn
    <3>3. peer' = [peer EXCEPT ![n] = cursor] /\ cursor' = Circular(clients', cursor)
      BY <2>2 DEF ConnectTracker
    <3> QED
      BY <3>1, <3>2, <3>3
  <2> QED
    BY <2>1, <2>2
<1>3. threads' \in 0 .. PoolSize
  BY <1>1
<1>4. clients' \subseteq Node /\ cursor' \in Node
  BY <1>1, <1>2
<1>5. pc' \in [Node -> {"off", "connect", "join", "on", "stop"}] /\ OnIsRegistered'
  BY <1>1 DEF OnIsRegistered
<1>6. CursorRegistered' /\ StopWalk' /\ DownIsIdle' /\ DeafAreOn'
  BY <1>1, <1>2 DEF CursorRegistered, StopWalk
<1>7. TypeOK'
  BY <1>1, <1>2, <1>3, <1>4, <1>5
<1> QED
  BY <1>5, <1>6, <1>7

\* A tracker that was cleaned up, or was not, is all that a stop changes.
LEMMA DeafAfterStop ==
    ASSUME TypeOK, DeafAreOn, NEW n \in Node, CleanedUp(n)
    PROVE  DeafAreOn'
<1>1. /\ pc \in [Node -> {"off", "connect", "join", "on", "stop"}]
      /\ deaf \subseteq Node
  BY DEF TypeOK
<1>2. CASE TurnsOff(n)
  <2>1. /\ \A m \in Node \ {n} : pc'[m] = pc[m]
        /\ deaf' = deaf \ {n}
    BY <1>1, <1>2 DEF TurnsOff
  <2> QED
    BY <1>1, <2>1 DEF DeafAreOn
<1>3. CASE Lingers(n)
  <2>1. /\ pc'[n] = "on" /\ \A m \in Node \ {n} : pc'[m] = pc[m]
        /\ deaf' = deaf \cup {n}
    BY <1>1, <1>3 DEF Lingers
  <2> QED
    BY <1>1, <2>1 DEF DeafAreOn
<1> QED
  BY <1>2, <1>3 DEF CleanedUp

LEMMA TypesAfterStop ==
    ASSUME TypeOK, NEW n \in Node, CleanedUp(n)
    PROVE  /\ running' \in [Node -> BOOLEAN] /\ notice' \in [Node -> BOOLEAN]
           /\ peer' \in [Node -> Node \cup {None}]
<1>1. /\ running \in [Node -> BOOLEAN] /\ notice \in [Node -> BOOLEAN]
      /\ peer \in [Node -> Node \cup {None}]
  BY DEF TypeOK
<1>2. CASE TurnsOff(n)
  BY <1>1, <1>2 DEF TurnsOff
<1>3. CASE Lingers(n)
  BY <1>1, <1>3 DEF Lingers
<1> QED
  BY <1>2, <1>3 DEF CleanedUp

LEMMA DisconnectInv ==
    ASSUME ServerInv, NEW n \in Node, DisconnectTracker(n)
    PROVE  ServerInv'
<1> USE DEF ServerInv, TypeOK, DownIsIdle, DeafAreOn
<1>1. /\ clients' = clients \ {n} /\ sv \in {"up", "closing"} /\ threads > 0
      /\ UNCHANGED <<sv, quit, starts, p, uploads>> /\ clients # {}
      /\ CleanedUp(n)
      /\ threads' = threads \/ threads' = threads - 1
  BY DEF DisconnectTracker, Serves, Served
<1>2. cursor \in clients /\ clients \in SUBSET Node
  BY <1>1 DEF CursorRegistered
<1>3. cursor' \in Node \cup {None, Freed} /\ (clients' # {} => cursor' \in clients')
  <2>1. CASE clients = {n}
    BY <1>1, <2>1 DEF DisconnectTracker
  <2>2. CASE clients # {n} /\ cursor = n
    BY <1>1, <1>2, <2>2, CircularIn DEF DisconnectTracker
  <2>3. CASE clients # {n} /\ cursor # n
    BY <1>1, <1>2, <2>3 DEF DisconnectTracker
  <2> QED
    BY <2>1, <2>2, <2>3
<1>4. \/ pc' = [pc EXCEPT ![n] = "off"] /\ deaf' = deaf \ {n}
      \/ pc' = [pc EXCEPT ![n] = "on"] /\ deaf' = deaf \cup {n}
  BY <1>1 DEF CleanedUp, TurnsOff, Lingers
<1>5. OnIsRegistered'
  BY <1>1, <1>4 DEF OnIsRegistered
<1>6. threads' \in 0 .. PoolSize
  BY <1>1
<1>7. TypeOK'
  <2>1. /\ running' \in [Node -> BOOLEAN] /\ notice' \in [Node -> BOOLEAN]
        /\ peer' \in [Node -> Node \cup {None}]
    BY <1>1, TypesAfterStop
  <2> QED
    BY <1>1, <1>3, <1>4, <1>6, <2>1
<1>8. CursorRegistered' /\ StopWalk' /\ DownIsIdle'
  BY <1>1, <1>3 DEF CursorRegistered, StopWalk
<1>9. DeafAreOn'
  BY <1>1, DeafAfterStop
<1> QED
  BY <1>5, <1>7, <1>8, <1>9

LEMMA StopInv ==
    ASSUME ServerInv, \/ StopBegins \/ server_cleanup \/ Tell \/ TellDeaf
                      \/ StopClears \/ StopReturns \/ server_start
    PROVE  ServerInv'
<1> USE DEF ServerInv, TypeOK, CursorRegistered, StopWalk, OnIsRegistered, DownIsIdle,
           DeafAreOn, tracker
<1>1. CASE StopBegins
  BY <1>1, HeadIn DEF StopBegins, Walks
<1>2. CASE Tell \/ TellDeaf
  <2>1. p \in clients /\ sv = "stopping"
    BY <1>2 DEF Tell, TellDeaf
  <2>2. NextIn(clients, p) \in clients \cup {None}
    <3>1. Later(clients, p) \in SUBSET Node /\ Later(clients, p) \subseteq clients
      BY DEF Later
    <3> QED
      BY <3>1, HeadIn DEF NextIn
  <2>3. notice' \in [Node -> BOOLEAN]
    BY <1>2, <2>1 DEF Tell, TellDeaf
  <2>4. /\ p' \in clients \cup {None}
        /\ UNCHANGED <<sv, quit, starts, threads, clients, cursor, uploads, pc, deaf,
                       running, peer>>
    BY <1>2, <2>2 DEF Tell, TellDeaf
  <2> QED
    BY <2>3, <2>4
<1>3. CASE StopClears
  BY <1>3 DEF StopClears
<1>4. CASE StopReturns
  BY <1>4 DEF StopReturns
<1>5. CASE server_start
  BY <1>5 DEF server_start
<1>6. CASE server_cleanup
  <2>1. p' \in clients \cup {None} /\ sv' = "stopping" /\ clients' = clients
    BY <1>6, HeadIn DEF server_cleanup, Walks
  <2>2. quit' \in BOOLEAN
    BY <1>6, Zenon DEF server_cleanup
  <2>3. /\ sv \in {"up", "down"}
        /\ UNCHANGED <<starts, threads, clients, cursor, uploads, tracker>>
    BY <1>6 DEF server_cleanup
  <2>4. OnIsRegistered'
    BY <2>1, <2>3
  <2>5. TypeOK'
    BY <2>1, <2>2, <2>3
  <2> QED
    BY <2>1, <2>3, <2>4, <2>5
<1> QED
  BY <1>1, <1>2, <1>3, <1>4, <1>5, <1>6

LEMMA RequestInv ==
    ASSUME ServerInv, LastRequest \/ SearchPeerCrashes \/ \E f \in File : Upload(f)
    PROVE  ServerInv'
<1> USE DEF ServerInv, TypeOK, CursorRegistered, StopWalk, OnIsRegistered, DownIsIdle,
           DeafAreOn, tracker
<1>1. CASE LastRequest
  BY <1>1 DEF LastRequest
<1>2. CASE SearchPeerCrashes
  BY <1>2 DEF SearchPeerCrashes, Serves
<1>3. CASE \E f \in File : Upload(f)
  BY <1>3 DEF Upload, Serves, Served
<1> QED
  BY <1>1, <1>2, <1>3

LEMMA TrackerInv ==
    ASSUME ServerInv, NEW n \in Node,
           \/ DisconnectFromEmpty(n) \/ Refused(n) \/ TrackerJoined(n) \/ ServerStopped(n)
           \/ StartTracker(n) \/ Dies(n) \/ StopTracker(n)
    PROVE  ServerInv'
<1> USE DEF ServerInv, TypeOK, CursorRegistered, StopWalk, OnIsRegistered, DownIsIdle,
           DeafAreOn, server, tracker
<1>1. CASE DisconnectFromEmpty(n)
  BY <1>1 DEF DisconnectFromEmpty, Serves
<1>2. CASE Refused(n)
  <2>1. \/ pc' = [pc EXCEPT ![n] = "off"] /\ deaf' = deaf \ {n}
        \/ pc' = [pc EXCEPT ![n] = "on"] /\ deaf' = deaf \cup {n}
    BY <1>2 DEF Refused, CleanedUp, TurnsOff, Lingers
  <2>2. sv = "crashed" \/ threads = 0
    BY <1>2 DEF Refused, Gone
  <2>3. UNCHANGED server
    BY <1>2 DEF Refused
  <2>4. OnIsRegistered'
    BY <2>2, <2>3
  <2>5. /\ running' \in [Node -> BOOLEAN] /\ notice' \in [Node -> BOOLEAN]
        /\ peer' \in [Node -> Node \cup {None}]
    BY <1>2, TypesAfterStop DEF Refused, CleanedUp
  <2>6. TypeOK'
    BY <2>1, <2>3, <2>5
  <2>7. DeafAreOn'
    BY <1>2, DeafAfterStop DEF Refused, CleanedUp
  <2>8. CursorRegistered' /\ StopWalk' /\ DownIsIdle'
    BY <2>3
  <2> QED
    BY <2>4, <2>6, <2>7, <2>8
<1>3. CASE TrackerJoined(n)
  BY <1>3 DEF TrackerJoined
<1>4. CASE ServerStopped(n)
  BY <1>4 DEF ServerStopped
<1>5. CASE StartTracker(n)
  BY <1>5 DEF StartTracker
<1>6. CASE Dies(n)
  <2>1. /\ pc' = [pc EXCEPT ![n] = "off"] /\ deaf' = deaf \ {n} /\ UNCHANGED server
        /\ running' \in [Node -> BOOLEAN] /\ notice' \in [Node -> BOOLEAN]
        /\ peer' \in [Node -> Node \cup {None}]
    BY <1>6 DEF Dies, TurnsOff
  <2> QED
    BY <2>1
<1>7. CASE StopTracker(n)
  BY <1>7 DEF StopTracker
<1> QED
  BY <1>1, <1>2, <1>3, <1>4, <1>5, <1>6, <1>7

LEMMA ServerStep == ServerInv /\ [Next]_vars => ServerInv'
<1> SUFFICES ASSUME ServerInv, [Next]_vars PROVE ServerInv'
  OBVIOUS
<1>1. CASE UNCHANGED vars
  BY <1>1 DEF vars, server, tracker, ServerInv, TypeOK, CursorRegistered, StopWalk,
              OnIsRegistered, DownIsIdle, DeafAreOn
<1> QED
  BY <1>1, ConnectInv, DisconnectInv, StopInv, RequestInv, TrackerInv
  DEF Next, ServerMain, TrackerStep

LEMMA ServerInvariant == Spec => []ServerInv
  BY ServerInit, ServerStep, PTL DEF Spec

\* Every variable of the server and of its trackers keeps its type.
THEOREM ServerTypeCorrect == Spec => []TypeOK
<1>1. ServerInv => TypeOK
  BY DEF ServerInv
<1> QED
  BY <1>1, ServerInvariant, PTL

\* The answer to CONNECT_TRACKER never comes from a list node that was removed
\* and freed: while trackers are registered, client_read points at one.
THEOREM CursorIsRegistered == Spec => []CursorRegistered
<1>1. ServerInv => CursorRegistered
  BY DEF ServerInv
<1> QED
  BY <1>1, ServerInvariant, PTL

\* server_stop never follows a pointer out of the list.
THEOREM StopWalksTheList == Spec => []StopWalk
<1>1. ServerInv => StopWalk
  BY DEF ServerInv
<1> QED
  BY <1>1, ServerInvariant, PTL

\* While the server has not been stopped, it lists the trackers that it has
\* answered and that have not disconnected: all that are on but those whose
\* clean-up failed after it had let them go.
THEOREM AnsweredAreRegistered == Spec => []OnIsRegistered
<1>1. ServerInv => OnIsRegistered
  BY DEF ServerInv
<1> QED
  BY <1>1, ServerInvariant, PTL

-----------------------------------------------------------------------------
\* Introductions go round.

\* Walking along the circular list from c, x is met before q.
Before(x, c, q) == IF c <= q THEN c <= x /\ x < q ELSE c <= x \/ x < q

\* Who is to be named before q is named again comes before q, seen from the
\* cursor.
OwedInv ==
    /\ owed \in [Node -> SUBSET Node]
    /\ \A q \in Node : \A x \in owed[q] :
          q \in clients /\ x \in clients /\ Before(x, cursor, q)

\* When the cursor moves on, the order from it stays the same, and the tracker
\* it leaves comes last.
LEMMA BeforeNext ==
    ASSUME NEW S \in SUBSET Node, NEW c \in S, S # {c}, NEW x \in S \ {c}, NEW q \in Node
    PROVE  /\ Before(x, c, q) => Before(x, Circular(S, c), q)
           /\ Before(x, Circular(S, c), c)
<1> DEFINE d == Circular(S, c)
<1>1. /\ d \in S
      /\ \/ c < d /\ \A y \in S : c < y => d <= y
         \/ d < c /\ \A y \in S : d <= y /\ y <= c
  BY CircularIn
<1>2. c \in Nat /\ x \in Nat /\ q \in Nat /\ d \in Nat
  BY <1>1
<1> HIDE DEF d
<1>3. CASE c < d /\ \A y \in S : c < y => d <= y
  <2>1. c < x => d <= x
    BY <1>3
  <2> QED
    BY <1>2, <1>3, <2>1 DEF Before, d
<1>4. CASE d < c /\ \A y \in S : d <= y /\ y <= c
  <2>1. d <= x /\ x < c
    BY <1>2, <1>4
  <2> QED
    BY <1>2, <1>4, <2>1 DEF Before, d
<1> QED
  BY <1>1, <1>3, <1>4

\* A step that answers no CONNECT_TRACKER names nobody.
LEMMA NobodyNamed ==
    ASSUME \A m \in Node : pc[m] = "connect" => pc'[m] # "join"
    PROVE  Named = {}
  BY DEF Named

LEMMA ConnectNames ==
    ASSUME ServerInv, NEW n \in Node, ConnectTracker(n)
    PROVE  Named = IF clients \subseteq {n} THEN {} ELSE {cursor}
<1>1. /\ pc[n] = "connect" /\ pc'[n] = "join" /\ \A m \in Node \ {n} : pc'[m] = pc[m]
      /\ peer'[n] = IF clients \subseteq {n} THEN None ELSE cursor
  BY DEF ConnectTracker, ServerInv, TypeOK
<1>2. {m \in Node : pc[m] = "connect" /\ pc'[m] = "join"} = {n}
  BY <1>1
<1>3. Named = {peer'[n]} \ {None}
  BY <1>2 DEF Named
<1>4. clients \subseteq {n} \/ cursor # None
  BY DEF ServerInv, TypeOK, CursorRegistered
<1> QED
  BY <1>1, <1>3, <1>4

\* A step that leaves the list and the cursor alone leaves owed alone.
LEMMA QuietDesk ==
    ASSUME OwedInv, Owing, Named = {}, clients' = clients, cursor' = cursor
    PROVE  OwedInv' /\ UNCHANGED <<clients, owed>>
<1>1. owed' = owed
  BY DEF OwedInv, Owing
<1> QED
  BY <1>1 DEF OwedInv

LEMMA ConnectDesk ==
    ASSUME ServerInv, OwedInv, Owing, NEW n \in Node, ConnectTracker(n)
    PROVE  OwedInv' /\ Desk!Next
<1>1. clients \in SUBSET Node /\ clients' = clients \cup {n}
  BY DEF ServerInv, TypeOK, ConnectTracker
<1>2. CASE clients \subseteq {n}
  <2>1. cursor' = n /\ Named = {} /\ clients' = {n}
    BY <1>1, <1>2, ConnectNames DEF ConnectTracker
  <2>2. \A q \in Node : owed[q] = {}
    \* Nobody comes before the only tracker.
    <3>1. ASSUME NEW q \in Node, NEW x \in owed[q] PROVE FALSE
      <4>1. q = n /\ x = n /\ Before(n, cursor, n) /\ cursor = n
        BY <1>2, <3>1 DEF OwedInv, ServerInv, CursorRegistered
      <4> QED
        BY <4>1 DEF Before
    <3> QED
      BY <3>1
  <2>3. owed' = owed
    BY <2>1, <2>2 DEF Owing, OwedInv
  <2>4. Desk!RegisterFirst(n)
    BY <1>2, <2>1, <2>3 DEF Desk!RegisterFirst
  <2> QED
    BY <2>2, <2>3, <2>4 DEF OwedInv, Desk!Next
<1>3. CASE ~(clients \subseteq {n})
  <2> DEFINE c == cursor
             d == Circular(clients', c)
  <2>1. c \in clients /\ Named = {c} /\ cursor' = d
    BY <1>3, ConnectNames DEF ConnectTracker, ServerInv, CursorRegistered
  <2>2. clients' \in SUBSET Node /\ c \in clients' /\ clients' # {c}
    BY <1>1, <1>3, <2>1
  <2> HIDE DEF c, d
  <2>3. owed' = [q \in Node |-> IF q = c THEN clients' \ {c} ELSE owed[q] \ {c}]
    BY <1>1, <2>1 DEF Owing, OwedInv
  <2>4. owed[c] = {}
    <3>1. c \in Nat /\ c \in Node
      BY <1>1, <2>1
    <3>2. ASSUME NEW x \in owed[c] PROVE FALSE
      <4>1. x \in Nat /\ Before(x, c, c)
        BY <1>1, <3>1, <3>2 DEF OwedInv, c
      <4> QED
        BY <3>1, <4>1 DEF Before
    <3> QED
      BY <3>2
  <2>5. \A x \in clients' \ {c} : Before(x, d, c)
    BY <2>1, <2>2, BeforeNext DEF d
  <2>6. \A q \in Node : \A x \in owed[q] \ {c} : Before(x, d, q)
    BY <1>1, <2>1, <2>2, BeforeNext DEF d, c, OwedInv
  <2>7. OwedInv'
    BY <1>1, <2>1, <2>2, <2>3, <2>5, <2>6 DEF OwedInv
  <2>8. Desk!Introduce(n, c)
    BY <1>1, <1>3, <2>1, <2>3, <2>4 DEF Desk!Introduce
  <2> QED
    BY <1>1, <2>1, <2>7, <2>8 DEF Desk!Next
<1> QED
  BY <1>2, <1>3

LEMMA DisconnectDesk ==
    ASSUME ServerInv, OwedInv, Owing, NEW n \in Node, DisconnectTracker(n)
    PROVE  OwedInv' /\ Desk!Next
<1>1. /\ clients \in SUBSET Node /\ clients' = clients \ {n} /\ cursor \in clients
      /\ pc' = [pc EXCEPT ![n] = "off"] \/ pc' = [pc EXCEPT ![n] = "on"]
  BY DEF ServerInv, TypeOK, DisconnectTracker, CleanedUp, TurnsOff, Lingers,
         CursorRegistered
<1>2. Named = {}
  <2>1. \A m \in Node : pc[m] = "connect" => pc'[m] # "join"
    BY <1>1 DEF ServerInv, TypeOK
  <2> QED
    BY <2>1, NobodyNamed
<1>3. owed' = [q \in Node |-> IF q = n THEN {} ELSE owed[q] \ {n}]
  BY <1>1, <1>2 DEF Owing, OwedInv
<1>4. Desk!Forget({n})
  BY <1>1, <1>3 DEF Desk!Forget
<1>5. ASSUME NEW q \in Node \ {n}, NEW x \in owed[q] \ {n}
      PROVE  Before(x, cursor', q)
  <2>1. q \in clients /\ x \in clients /\ Before(x, cursor, q) /\ clients # {n}
    BY <1>5 DEF OwedInv
  <2>2. CASE cursor = n
    <3>1. cursor' = Circular(clients, n)
      BY <2>1, <2>2 DEF DisconnectTracker
    <3> QED
      BY <1>1, <1>5, <2>1, <2>2, <3>1, BeforeNext
  <2>3. CASE cursor # n
    BY <2>1, <2>3 DEF DisconnectTracker
  <2> QED
    BY <2>2, <2>3
<1>6. OwedInv'
  BY <1>1, <1>3, <1>5 DEF OwedInv
<1> QED
  BY <1>4, <1>6 DEF Desk!Next

LEMMA StopDesk ==
    ASSUME ServerInv, OwedInv, Owing, StopClears
    PROVE  OwedInv' /\ Desk!Next
<1>1. clients' = {} /\ pc' = pc
  BY DEF StopClears, tracker
<1>2. Named = {}
  BY <1>1, NobodyNamed
<1>3. owed' = [q \in Node |-> {}]
  BY <1>1, <1>2 DEF Owing
<1>4. Desk!Forget(clients)
  BY <1>1, <1>3 DEF Desk!Forget, OwedInv
<1> QED
  BY <1>3, <1>4 DEF OwedInv, Desk!Next

\* Every other step.
LEMMA OtherDesk ==
    ASSUME ServerInv, OwedInv, Owing, Next, ~StopClears,
           \A n \in Node : ~ConnectTracker(n) /\ ~DisconnectTracker(n)
    PROVE  OwedInv' /\ UNCHANGED <<clients, owed>>
<1>1. CASE \/ Tell \/ TellDeaf \/ LastRequest \/ StopReturns \/ StopBegins \/ server_cleanup \/ server_start
           \/ SearchPeerCrashes \/ \E f \in File : Upload(f)
  <2>1. clients' = clients /\ cursor' = cursor /\ pc' = pc
    BY <1>1 DEF Tell, TellDeaf, LastRequest, StopReturns, StopBegins, server_cleanup, Walks,
                server_start, SearchPeerCrashes,
                Upload, tracker
  <2> QED
    BY <2>1, NobodyNamed, QuietDesk
<1>2. ASSUME NEW n \in Node,
             \/ DisconnectFromEmpty(n) \/ Refused(n) \/ TrackerJoined(n)
             \/ ServerStopped(n) \/ StartTracker(n) \/ Dies(n) \/ StopTracker(n)
      PROVE  OwedInv' /\ UNCHANGED <<clients, owed>>
  <2>1. clients' = clients /\ cursor' = cursor
    BY <1>2 DEF DisconnectFromEmpty, Refused, TrackerJoined, ServerStopped, StartTracker,
                Dies, StopTracker, server
  <2>2. \A m \in Node : pc[m] = "connect" => pc'[m] # "join"
    BY <1>2 DEF DisconnectFromEmpty, Refused, TrackerJoined, ServerStopped, StartTracker,
                Dies, StopTracker, CleanedUp, TurnsOff, Lingers, tracker,
                ServerInv, TypeOK
  <2> QED
    BY <2>1, <2>2, NobodyNamed, QuietDesk
<1> QED
  BY <1>1, <1>2 DEF Next, ServerMain, TrackerStep

LEMMA DeskStep ==
    ASSUME ServerInv, OwedInv, [MCNext]_<<vars, owed>>
    PROVE  OwedInv' /\ [Desk!Next]_<<clients, owed>>
<1>1. CASE UNCHANGED <<vars, owed>>
  BY <1>1 DEF vars, server, OwedInv
<1>2. CASE MCNext
  BY <1>2, ConnectDesk, DisconnectDesk, StopDesk, OtherDesk DEF MCNext
<1> QED
  BY <1>1, <1>2

\* CONNECT_TRACKER names a registered tracker to everyone but the first, and
\* goes round: a tracker is not named again before those who were registered
\* when it was last named, and still are.
THEOREM ServerImplementsRegistry == MCSpec => ImplementsRegistry
<1>1. MCInit => ServerInv /\ OwedInv /\ Desk!Init
  BY ServerInit DEF MCInit, Init, OwedInv, Desk!Init
<1>2. ServerInv /\ [MCNext]_<<vars, owed>> => ServerInv'
  <2>1. [MCNext]_<<vars, owed>> => [Next]_vars
    BY DEF MCNext
  <2> QED
    BY <2>1, ServerStep
<1>3. ServerInv /\ OwedInv /\ [MCNext]_<<vars, owed>>
        => OwedInv' /\ [Desk!Next]_<<clients, owed>>
  BY DeskStep
<1> QED
  BY <1>1, <1>2, <1>3, PTL DEF MCSpec, ImplementsRegistry, Desk!Spec
=============================================================================
