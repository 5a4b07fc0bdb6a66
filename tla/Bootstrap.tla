----------------------------- MODULE Bootstrap ------------------------------
(***************************************************************************)
(* The bootstrap server of src/src/server.c and the trackers as it sees    *)
(* them.  Its server threads answer one request each, with server->lock    *)
(* held, so a request is one step; server_stop keeps the lock while it     *)
(* tells the registered trackers, and after it has released it each of the *)
(* PoolSize threads handles one more request before it ends.               *)
(***************************************************************************)
EXTENDS Naturals, FiniteSets

CONSTANTS
    Node,      \* the trackers, each named by its key
    File,      \* the torrents that may be uploaded
    None,      \* NULL: no tracker
    Freed,     \* a pointer to a list node that has been freed
    PoolSize,  \* THREAD_POOL_SIZE
    MayDie,    \* trackers that may die, or fail to join
    MayLinger, \* trackers whose clean-up may fail
    MaxStarts  \* bound: times the server is started

ASSUME BootstrapAssumption ==
    /\ Node \subseteq Nat /\ IsFiniteSet(Node)
    /\ None \notin Node /\ Freed \notin Node /\ None # Freed
    /\ PoolSize \in Nat \ {0}
    /\ MayDie \subseteq Node
    /\ MayLinger \subseteq Node
    /\ MaxStarts \in Nat \ {0}

VARIABLES
    sv,       \* the server: "up", "stopping", "closing", "down", "exited", "crashed"
    quit,     \* its user has typed quit
    starts,   \* how often it has been started
    threads,  \* server threads that have not ended
    p,        \* server_stop's place in the list
    clients,  \* server->clients, a list in ascending order of key
    cursor,   \* server->client_read
    uploads,  \* server->uploads
    pc,       \* what the client does about its tracker
    deaf,     \* trackers whose threads a stop told to end, and that are still there
    running,  \* tracker->server_running
    notice,   \* SERVER_STOPPED was answered, server_running is not yet reset
    peer      \* the tracker named in the answer to CONNECT_TRACKER

server == <<sv, quit, starts, threads, p, clients, cursor, uploads>>
tracker == <<pc, deaf, running, notice, peer>>
vars == <<server, tracker>>

TypeOK ==
    /\ sv \in {"up", "stopping", "closing", "down", "exited", "crashed"}
    /\ quit \in BOOLEAN
    /\ starts \in 1 .. MaxStarts
    /\ threads \in 0 .. PoolSize
    /\ p \in Node \cup {None}
    /\ clients \subseteq Node
    /\ cursor \in Node \cup {None, Freed}
    /\ uploads \subseteq File
    /\ pc \in [Node -> {"off", "connect", "join", "on", "stop"}]
    /\ deaf \subseteq Node
    /\ running \in [Node -> BOOLEAN]
    /\ notice \in [Node -> BOOLEAN]
    /\ peer \in [Node -> Node \cup {None}]

Init ==
    /\ sv = "up" /\ quit = FALSE /\ starts = 1 /\ threads = PoolSize
    /\ p = None /\ clients = {} /\ cursor = None /\ uploads = {}
    /\ pc = [n \in Node |-> "off"]
    /\ deaf = {}
    /\ running = [n \in Node |-> FALSE]
    /\ notice = [n \in Node |-> FALSE]
    /\ peer = [n \in Node |-> None]

-----------------------------------------------------------------------------
\* The list of trackers.

Head(S) == CHOOSE x \in S : \A y \in S : x <= y
Later(S, n) == {m \in S : n < m}
\* Mistake: the cursor goes back to the head.
CircularHead(S, n) == Head(S)
\* node->next, and the same with the list treated as circular.
NextIn(S, n) == IF Later(S, n) = {} THEN None ELSE Head(Later(S, n))
Circular(S, n) == IF Later(S, n) = {} THEN Head(S) ELSE Head(Later(S, n))

\* Mistake: server_stop does not hold the lock.
ServesUnlocked == sv \in {"up", "stopping", "closing"} /\ threads > 0

\* Requests are answered.  A thread that sees the server stopped ends.
Serves == sv \in {"up", "closing"} /\ threads > 0
Served == threads' = IF sv = "closing" THEN threads - 1 ELSE threads
Gone   == sv = "crashed" \/ threads = 0
\* A tracker answers; one that could not be cleaned up may, and need not.
MayAnswer(n) == pc[n] # "off"
Listening(n) == MayAnswer(n) /\ n \notin deaf

\* n is no longer running; what its memory held is forgotten.
TurnsOff(n) ==
    /\ pc' = [pc EXCEPT ![n] = "off"]
    /\ deaf' = deaf \ {n}
    /\ running' = [running EXCEPT ![n] = FALSE]
    /\ notice' = [notice EXCEPT ![n] = FALSE]
    /\ peer' = [peer EXCEPT ![n] = None]

\* tracker_cleanup fails on the way: client->tracker stays what it was, and the
\* next stop begins again with DISCONNECT_TRACKER.
Lingers(n) ==
    /\ n \in MayLinger
    /\ pc' = [pc EXCEPT ![n] = "on"]
    /\ deaf' = deaf \cup {n}
    /\ UNCHANGED <<running, notice, peer>>

\* The rest of client_stop_tracker, whatever became of its request.
CleanedUp(n) == TurnsOff(n) \/ Lingers(n)

-----------------------------------------------------------------------------
\* Requests.

\* Mistake: an only tracker is given the cursor too.
ConnectAlwaysAnswers(n) ==
    /\ pc[n] = "connect" /\ Serves
    /\ clients' = clients \cup {n}
    /\ peer' = [peer EXCEPT ![n] = cursor]
    /\ cursor' = IF clients \subseteq {n} THEN n ELSE Circular(clients', cursor)
    /\ pc' = [pc EXCEPT ![n] = "join"]
    /\ Served
    /\ UNCHANGED <<sv, quit, starts, p, uploads, deaf, running, notice>>

\* CONNECT_TRACKER: n is added, unless it is there already; if it is alone the
\* cursor starts at it, else the answer is the cursor, which moves on.
ConnectTracker(n) ==
    /\ pc[n] = "connect" /\ Serves
    /\ clients' = clients \cup {n}
    /\ IF clients \subseteq {n}
       THEN cursor' = n /\ peer' = [peer EXCEPT ![n] = None]
       ELSE /\ peer' = [peer EXCEPT ![n] = cursor]
            /\ cursor' = Circular(clients', cursor)
    /\ pc' = [pc EXCEPT ![n] = "join"]
    /\ Served
    /\ UNCHANGED <<sv, quit, starts, p, uploads, deaf, running, notice>>

\* Mistake: the cursor is not moved off the tracker that is removed.
DisconnectKeepsCursor(n) ==
    /\ pc[n] = "stop" /\ Serves /\ clients # {}
    /\ cursor' = IF clients = {n} THEN Freed ELSE cursor
    /\ clients' = clients \ {n}
    /\ CleanedUp(n)
    /\ Served
    /\ UNCHANGED <<sv, quit, starts, p, uploads>>

\* Mistake: the head of the list is removed, whoever asks.
DisconnectHead(n) ==
    /\ pc[n] = "stop" /\ Serves /\ clients # {}
    /\ cursor' = IF clients = {n} THEN Freed
                 ELSE IF cursor = n THEN Circular(clients, n) ELSE cursor
    /\ clients' = clients \ {Head(clients)}
    /\ CleanedUp(n)
    /\ Served
    /\ UNCHANGED <<sv, quit, starts, p, uploads>>

\* DISCONNECT_TRACKER: a cursor at n moves on first; it is left behind when n
\* was the only tracker.  A tracker that is not in the list changes nothing.
DisconnectTracker(n) ==
    /\ pc[n] = "stop" /\ Serves /\ clients # {}
    /\ cursor' = IF clients = {n} THEN Freed
                 ELSE IF cursor = n THEN Circular(clients, n) ELSE cursor
    /\ clients' = clients \ {n}
    /\ CleanedUp(n)
    /\ Served
    /\ UNCHANGED <<sv, quit, starts, p, uploads>>

\* list_remove reads the head of an empty list: the server process dies.
DisconnectFromEmpty(n) ==
    /\ pc[n] = "stop" /\ Serves /\ clients = {}
    /\ sv' = "crashed"
    /\ UNCHANGED <<quit, starts, threads, p, clients, cursor, uploads, tracker>>

\* UPLOAD: file_list_add.
Upload(f) ==
    /\ Serves /\ \E n \in Node : pc[n] = "on"
    /\ uploads' = uploads \cup {f}
    /\ Served
    /\ UNCHANGED <<sv, quit, starts, p, clients, cursor, tracker>>

\* SEARCH_PEER: with no tracker to ask the cursor is read through NULL, or
\* through freed memory; if the tracker at the cursor names another, which is
\* dead, the request is freed twice.  The server process dies.
SearchPeerCrashes ==
    /\ Serves
    /\ cursor \in Node => MayAnswer(cursor) /\ \E q \in Node : ~Listening(q)
    /\ sv' = "crashed"
    /\ UNCHANGED <<quit, starts, threads, p, clients, cursor, uploads, tracker>>

\* Any other SEARCH, SEARCH_PEER or SHUTDOWN changes nothing, but ends a thread
\* of a server that has been stopped.
LastRequest ==
    /\ sv = "closing" /\ threads > 0
    /\ threads' = threads - 1
    /\ UNCHANGED <<sv, quit, starts, p, clients, cursor, uploads, tracker>>

-----------------------------------------------------------------------------
\* server_start and server_stop, on the server's main thread.

\* server_stop takes the lock, and its place in the list.
Walks ==
    /\ sv' = "stopping"
    /\ p' = IF clients = {} THEN None ELSE Head(clients)

StopBegins ==
    /\ sv = "up"
    /\ Walks
    /\ UNCHANGED <<quit, starts, threads, clients, cursor, uploads, tracker>>

\* quit: server_cleanup stops the server, also one that is down, whose list
\* has those that its last requests registered.
server_cleanup ==
    /\ sv \in {"up", "down"}
    /\ Walks
    /\ quit' = TRUE
    /\ UNCHANGED <<starts, threads, clients, cursor, uploads, tracker>>

\* Mistake: only trackers that still believe in the server are told.
TellBelievers ==
    /\ sv = "stopping" /\ p # None /\ Listening(p) /\ running[p]
    /\ notice' = [notice EXCEPT ![p] = TRUE]
    /\ p' = NextIn(clients, p)
    /\ UNCHANGED <<sv, quit, starts, threads, clients, cursor, uploads, pc, deaf,
                   running, peer>>

\* SERVER_STOPPED.  If the connection is refused the loop tries the same
\* tracker again.
Tell ==
    /\ sv = "stopping" /\ p # None /\ Listening(p)
    /\ notice' = [notice EXCEPT ![p] = TRUE]
    /\ p' = NextIn(clients, p)
    /\ UNCHANGED <<sv, quit, starts, threads, clients, cursor, uploads, pc, deaf,
                   running, peer>>

\* A tracker that could not be cleaned up has a thread left to take the notice.
TellDeaf ==
    /\ sv = "stopping" /\ p \in deaf
    /\ notice' = [notice EXCEPT ![p] = TRUE]
    /\ p' = NextIn(clients, p)
    /\ UNCHANGED <<sv, quit, starts, threads, clients, cursor, uploads, pc, deaf,
                   running, peer>>

\* The lists are freed, running is cleared, the lock is released.
StopClears ==
    /\ sv = "stopping" /\ p = None
    /\ sv' = "closing"
    /\ clients' = {} /\ cursor' = None /\ uploads' = {}
    /\ UNCHANGED <<quit, starts, threads, p, tracker>>

\* After quit the process exits; there was no thread left to wait for, and
\* nobody to take its SHUTDOWN, if the server was down.
StopReturns ==
    /\ sv = "closing" /\ threads = 0
    /\ sv' = IF quit THEN "exited" ELSE "down"
    /\ UNCHANGED <<quit, starts, threads, p, clients, cursor, uploads, tracker>>

\* The lists are as server_stop, and the last requests, left them.
server_start ==
    /\ sv = "down" /\ starts < MaxStarts
    /\ sv' = "up" /\ threads' = PoolSize /\ starts' = starts + 1
    /\ UNCHANGED <<quit, p, clients, cursor, uploads, tracker>>

-----------------------------------------------------------------------------
\* A client's tracker.

\* tracker_init: the tracker listens before it asks the server.
StartTracker(n) ==
    /\ pc[n] = "off" /\ ~Gone
    /\ pc' = [pc EXCEPT ![n] = "connect"]
    /\ UNCHANGED <<server, deaf, running, notice, peer>>

\* The connection is refused: tracker_init fails, or the tracker is stopped
\* without the server.
Refused(n) ==
    /\ Gone
    /\ \/ pc[n] = "connect" /\ TurnsOff(n)
       \/ pc[n] = "stop" /\ CleanedUp(n)
    /\ UNCHANGED server

\* node_join and MOVE_DATA are over: the server is taken to be running.
TrackerJoined(n) ==
    /\ pc[n] = "join"
    /\ pc' = [pc EXCEPT ![n] = "on"]
    /\ running' = [running EXCEPT ![n] = TRUE]
    /\ peer' = [peer EXCEPT ![n] = None]
    /\ UNCHANGED <<server, deaf, notice>>

\* n dies, or node_join fails and n is cleaned up: nobody tells the server.
Dies(n) ==
    /\ n \in MayDie /\ pc[n] \in {"join", "on"}
    /\ TurnsOff(n)
    /\ UNCHANGED server

\* The thread that answered SERVER_STOPPED resets server_running.
ServerStopped(n) ==
    /\ notice[n] /\ MayAnswer(n)
    /\ notice' = [notice EXCEPT ![n] = FALSE]
    /\ running' = [running EXCEPT ![n] = FALSE]
    /\ UNCHANGED <<server, pc, deaf, peer>>

\* The user stops the tracker, or the periodic check sees that it must stop.
StopTracker(n) ==
    /\ pc[n] = "on"
    /\ pc' = [pc EXCEPT ![n] = "stop"]
    /\ UNCHANGED <<server, deaf, running, notice, peer>>

-----------------------------------------------------------------------------
ServerMain == Tell \/ StopClears \/ LastRequest \/ StopReturns
TrackerStep(n) == \/ ConnectTracker(n) \/ DisconnectTracker(n)
                  \/ DisconnectFromEmpty(n) \/ Refused(n) \/ TrackerJoined(n)
                  \/ ServerStopped(n)

Next ==
    \/ ServerMain \/ TellDeaf \/ StopBegins \/ server_cleanup \/ server_start
    \/ SearchPeerCrashes
    \/ \E f \in File : Upload(f)
    \/ \E n \in Node : \/ TrackerStep(n) \/ StartTracker(n) \/ Dies(n)
                       \/ StopTracker(n)

Spec == Init /\ [][Next]_vars

\* The server's main thread goes on with server_stop, and a tracker with what
\* it has begun; starting and stopping are the users' choice.
Fairness == WF_vars(ServerMain) /\ \A n \in Node : WF_vars(TrackerStep(n))
FairSpec == Spec /\ Fairness

-----------------------------------------------------------------------------
\* client_read points into the list whenever there is one: the answer to
\* CONNECT_TRACKER never reads a node that was removed and freed.
CursorRegistered == clients # {} => cursor \in clients

\* server_stop walks the list with p while nobody changes it.
StopWalk == sv = "stopping" => p \in clients \cup {None}

\* Until the server is stopped for the first time it lists the trackers that it
\* has answered, whatever died in between, but for those whose stop it heard of
\* and whose clean-up failed: they are on and not in the list.
OnIsRegistered ==
    sv \in {"up", "stopping"} /\ starts = 1 /\ threads > 0
        => \A n \in Node : pc[n] \in {"join", "on", "stop"}
                              => (n \in clients <=> n \notin deaf)

\* server_stop gets through the list, unless it meets a tracker that is dead or
\* could not be cleaned up.
StopGoesOn == (sv = "stopping") ~> (\/ sv # "stopping"
                                    \/ \E n \in clients : ~Listening(n))
=============================================================================
