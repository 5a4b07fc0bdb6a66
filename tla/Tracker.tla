------------------------------ MODULE Tracker -------------------------------
(***************************************************************************)
(* The network of trackers: the Chord ring of src/lib/dht.c driven by the  *)
(* tracker of src/lib/tracker.c.                                           *)
(*                                                                         *)
(* Every tracker n has a main thread, whose place in the command it is     *)
(* executing is pc[n], and a pool of server threads that answer the other  *)
(* trackers.  A handler takes tracker->lock, so a request to t is one step *)
(* that needs lock[t] to be free; a tracker that no longer listens refuses *)
(* the connection.  Two pieces of code hold a lock across requests:        *)
(* tracker_stabilize holds its own, and the FIND_NEXT handler that serves  *)
(* a joining tracker holds the lock of the tracker it runs at.  lock[t] is *)
(* the tracker whose command holds tracker t's lock.                       *)
(***************************************************************************)
EXTENDS FiniteSets, KeyOrder

CONSTANTS
    KeySpace,   \* number of keys (2^256 in the code)
    Node,       \* the trackers, each named by its key
    File,       \* keys of the torrents that users may upload
    Blank,      \* the key read in a tracker_t no tracker has written yet
    Free,       \* an unlocked mutex
    LastFinger, \* KEY_BITS - 1
    FixIndex,   \* the finger node_fix_fingers refreshes: srand(id) fixes it
    FixStart,   \* finger[FixIndex].start (see KeyBytes.tla)
    FixRounds,  \* calls of node_fix_fingers in one stabilization (5)
    MayLeave,   \* trackers whose user may stop them
    MayCrash,   \* trackers whose process may die
    MayReturn,  \* trackers started again after they stopped
    MayNotSave, \* trackers whose disk may refuse a torrent they receive
    MaxBusy     \* bound: commands in progress at the same time

Key     == 0 .. KeySpace - 1
Fingers == 0 .. LastFinger

ASSUME KeyAssumption ==
    /\ KeySpace \in Nat
    /\ Node \subseteq Key /\ IsFiniteSet(Node)
    /\ File \subseteq Key
    /\ Blank \in Key \ Node
    /\ Free \notin Node
ASSUME FingerAssumption ==
    /\ LastFinger \in Nat \ {0}
    /\ FixIndex \in [Node -> 1 .. LastFinger]
    /\ FixStart \in [Node -> Key]
    /\ FixRounds \in Nat \ {0}
ASSUME BoundAssumption ==
    /\ MayLeave \subseteq Node
    /\ MayCrash \subseteq Node
    /\ MayReturn \subseteq Node
    /\ MayNotSave \subseteq Node
    /\ MaxBusy \in Nat

VARIABLES
    listening,  \* trackers whose server threads accept connections
    registered, \* trackers in the bootstrap server's list
    finger,     \* finger[n][i].node; finger 0 is the successor
    init,       \* indices i with finger[n][i].initialized
    prev,       \* node.prev
    pinit,      \* node.prev_initialized
    lock,       \* whose command holds tracker->lock
    pc,         \* what the main thread is doing
    lk,         \* its node_find_next in progress (or its result)
    idx,        \* its loop counter
    files,      \* tracker->files
    inflight    \* torrents sent by MOVE_DATA and not yet stored

ring == <<finger, init, prev, pinit>>
data == <<files, inflight>>
net  == <<listening, registered>>
vars == <<net, ring, lock, pc, lk, idx, data>>

-----------------------------------------------------------------------------
\* The stages of the commands.
Joining     == {"founder", "connected", "jask", "jfind", "jnotify", "jmove"}
Receiving   == {"jrecv"}
Stabilizing == {"ping", "newnext", "ask", "notify", "fix", "migrate", "mfind",
                "msend"}
Uploading   == {"ufind", "usend"}
Leaving     == {"stop", "leave"}
Stage       == {"off", "idle"} \cup Joining \cup Receiving \cup Stabilizing
                 \cup Uploading \cup Leaving
LookingUp   == {"jfind", "fix", "mfind", "ufind"}
\* A tracker that has completed its join and not begun to stop.
Joined(n)   == pc[n] \in {"idle"} \cup Receiving \cup Stabilizing \cup Uploading

Lookup == [host: Node, id: Key, cur: Key, nxt: Key, hop: BOOLEAN]

TypeOK ==
    /\ listening \subseteq Node
    /\ registered \subseteq Node
    /\ finger \in [Node -> [Fingers -> Key]]
    /\ init \in [Node -> SUBSET Fingers]
    /\ prev \in [Node -> Key]
    /\ pinit \in [Node -> BOOLEAN]
    /\ lock \in [Node -> Node \cup {Free}]
    /\ pc \in [Node -> Stage]
    /\ lk \in [Node -> Lookup]
    /\ idx \in [Node -> Nat]
    /\ files \in [Node -> SUBSET File]
    /\ inflight \in [Node -> SUBSET File]

\* n will ask h for its own successor; n looks nothing up.
Asking(n, h) == [host |-> h, id |-> n, cur |-> n, nxt |-> n, hop |-> FALSE]
NoLookup(n)  == Asking(n, n)

Init ==
    /\ listening = {} /\ registered = {}
    /\ finger = [n \in Node |-> [i \in Fingers |-> Blank]]
    /\ init = [n \in Node |-> {}]
    /\ prev = [n \in Node |-> Blank]
    /\ pinit = [n \in Node |-> FALSE]
    /\ lock = [n \in Node |-> Free]
    /\ pc = [n \in Node |-> "off"]
    /\ lk = [n \in Node |-> NoLookup(n)]
    /\ idx = [n \in Node |-> 0]
    /\ files = [n \in Node |-> {}]
    /\ inflight = [n \in Node |-> {}]

-----------------------------------------------------------------------------
\* Requests.

CanServe(t) == t \in listening /\ lock[t] = Free
Dead(t)     == t \notin listening

Least(S)    == CHOOSE x \in S : \A y \in S : x <= y
Greatest(S) == CHOOSE x \in S : \A y \in S : y <= x

successor(n) == finger[n][0]

\* node_find_closest_preceding: the fingers it may return; the last one wins.
Preceding(m, id) == {i \in init[m] : InOpen(finger[m][i], m, id)}
node_find_closest_preceding(m, id) == finger[m][Greatest(Preceding(m, id))]

\* Mistake: a known predecessor is never replaced.
NotifyOnlyUnknown(t, peer) ==
    LET known == pinit[t] /\ prev[t] \in listening
    IN  /\ pinit' = [pinit EXCEPT ![t] = TRUE]
        /\ prev' = IF known THEN prev ELSE [prev EXCEPT ![t] = peer]

\* node_notify at t, for peer: a dead prev is forgotten (PING takes no lock),
\* then peer is adopted if it is a better predecessor.
node_notify(t, peer) ==
    LET known == pinit[t] /\ prev[t] \in listening
    IN  /\ pinit' = [pinit EXCEPT ![t] = TRUE]
        /\ prev' = IF ~known \/ InOpen(peer, prev[t], t)
                   THEN [prev EXCEPT ![t] = peer]
                   ELSE prev

\* Mistakes, to show that the properties notice them: the sender forgets the
\* torrent and nobody stores it; the receiver files it under the wrong key.
GiveLost(n, t, f)     == files' = [files EXCEPT ![n] = @ \ {f}]
GiveWrongKey(n, t, f) == files' = [files EXCEPT ![n] = @ \ {f}, ![t] = @ \cup {t}]

\* UPLOAD: t stores torrent f, which n held (or, for a user's upload, made).
Give(n, t, f) == files' = [files EXCEPT ![n] = @ \ {f}, ![t] = @ \cup {f}]

\* The tracker a command's current request is addressed to.
Target(n) ==
    CASE pc[n] = "jask" -> lk[n].host
      [] pc[n] \in LookingUp \cup {"msend", "usend"} -> lk[n].cur
      [] OTHER -> successor(n)

\* The request fails: the command returns.  A join stops the tracker again; a
\* stabilization returns without unlocking its own lock, so does lock keep it.
Fails(n) ==
    /\ pc' = [pc EXCEPT ![n] = IF @ \in Joining THEN "stop" ELSE "idle"]
    /\ lock' = IF pc[n] = "jfind" THEN [lock EXCEPT ![lk[n].host] = Free]
                                  ELSE lock
    /\ lk' = [lk EXCEPT ![n] = NoLookup(n)]
    /\ idx' = [idx EXCEPT ![n] = 0]
    /\ UNCHANGED <<net, ring, data>>

\* The connection is refused.
RpcFails(n) ==
    /\ pc[n] \in {"jask", "jnotify", "jmove", "newnext", "ask", "notify",
                  "msend", "usend"} \cup LookingUp
    /\ Dead(Target(n))
    /\ Fails(n)

\* Bound: MaxBusy commands in progress.
Room ==
    Cardinality({m \in Node : pc[m] \notin {"off", "idle"}}) < MaxBusy

-----------------------------------------------------------------------------
\* node_find_next at tracker lk[n].host, on behalf of n: walk from the host to
\* the predecessor of id, then ask that one for its successor.  Requests to
\* the host itself are local calls.

Find(h, id) == [host |-> h, id |-> id, cur |-> h, nxt |-> successor(h),
                hop |-> FALSE]
Moved(l, cur, nxt, hop) == [host |-> l.host, id |-> l.id, cur |-> cur,
                            nxt |-> nxt, hop |-> hop]

Arrived(l)    == l.id = l.host \/ InHalfOpen(l.id, l.cur, l.nxt)
Reachable(l)  == l.cur = l.host \/ CanServe(l.cur)

\* FIND_CLOSEST_PRECEDING_FINGER.  If a remote tracker finds none, the request
\* is repeated: the step is not enabled until it does.
LookupHop(n) ==
    /\ pc[n] \in LookingUp
    /\ ~lk[n].hop /\ ~Arrived(lk[n]) /\ Reachable(lk[n])
    /\ Preceding(lk[n].cur, lk[n].id) # {}
    /\ lk' = [lk EXCEPT ![n] =
                 Moved(@, node_find_closest_preceding(@.cur, @.id), @.nxt, TRUE)]
    /\ UNCHANGED <<net, ring, lock, pc, idx, data>>

\* FIND_NEXT of the new current tracker's own key.
LookupNext(n) ==
    /\ pc[n] \in LookingUp
    /\ lk[n].hop /\ Reachable(lk[n])
    /\ lk' = [lk EXCEPT ![n] = Moved(@, @.cur, successor(@.cur), FALSE)]
    /\ UNCHANGED <<net, ring, lock, pc, idx, data>>

\* The host itself has no finger to go on with: node_find_next fails.
LookupNotFound(n) ==
    /\ pc[n] \in LookingUp
    /\ ~lk[n].hop /\ ~Arrived(lk[n]) /\ lk[n].cur = lk[n].host
    /\ Preceding(lk[n].cur, lk[n].id) = {}
    /\ Fails(n)

\* The last request, FIND_NEXT to the predecessor: its answer is the result.
Answered(n) == ~lk[n].hop /\ Arrived(lk[n]) /\ Reachable(lk[n])
\* (Mistake: the predecessor itself is returned.)
AnswerPrev(n) == lk[n].cur
Answer(n)   == successor(lk[n].cur)

-----------------------------------------------------------------------------
\* client_start_tracker: tracker_init.

\* The server threads start and the bootstrap server registers n; its answer
\* is a registered tracker, or none if n is the only one.  The tracker_t is
\* fresh memory or the block of n's previous tracker.  Bound: only trackers of
\* MayReturn are started again once they have had a successor.
Connect(n) ==
    /\ pc[n] = "off" /\ Room
    /\ n \in MayReturn \/ successor(n) = Blank
    /\ listening' = listening \cup {n}
    /\ registered' = registered \cup {n}
    /\ \/ UNCHANGED ring
       \/ /\ finger' = [finger EXCEPT ![n] = [i \in Fingers |-> Blank]]
          /\ prev' = [prev EXCEPT ![n] = Blank]
          /\ init' = [init EXCEPT ![n] = {}]
          /\ pinit' = [pinit EXCEPT ![n] = FALSE]
    /\ \/ /\ registered \subseteq {n}
          /\ pc' = [pc EXCEPT ![n] = "founder"]
          /\ UNCHANGED lk
       \/ /\ ~(registered \subseteq {n})
          /\ \E peer \in registered : lk' = [lk EXCEPT ![n] = Asking(n, peer)]
          /\ pc' = [pc EXCEPT ![n] = "connected"]
    /\ UNCHANGED <<lock, idx, data>>

\* node_join of the first tracker: a ring of one.
JoinAlone(n) ==
    /\ pc[n] = "founder"
    /\ finger' = [finger EXCEPT ![n][0] = n]
    /\ init' = [init EXCEPT ![n] = {0}]
    /\ prev' = [prev EXCEPT ![n] = n]
    /\ pinit' = [pinit EXCEPT ![n] = TRUE]
    /\ pc' = [pc EXCEPT ![n] = "idle"]
    /\ UNCHANGED <<net, lock, lk, idx, data>>

\* node_join with a peer: forget every finger; if the peer is n itself (it was
\* still registered) its successor is what the memory holds.
JoinReset(n) ==
    /\ pc[n] = "connected"
    /\ pinit' = [pinit EXCEPT ![n] = FALSE]
    /\ init' = [init EXCEPT ![n] = IF lk[n].host = n THEN {0} ELSE {}]
    /\ pc' = [pc EXCEPT ![n] = IF lk[n].host = n THEN "jnotify" ELSE "jask"]
    /\ UNCHANGED <<net, finger, prev, lock, lk, idx, data>>

\* FIND_NEXT of n's key at the peer: its handler locks, and looks up.
JoinAsk(n) ==
    /\ pc[n] = "jask" /\ CanServe(lk[n].host)
    /\ lock' = [lock EXCEPT ![lk[n].host] = n]
    /\ lk' = [lk EXCEPT ![n] = Find(lk[n].host, n)]
    /\ pc' = [pc EXCEPT ![n] = "jfind"]
    /\ UNCHANGED <<net, ring, idx, data>>

JoinFound(n) ==
    /\ pc[n] = "jfind" /\ Answered(n)
    /\ finger' = [finger EXCEPT ![n][0] = Answer(n)]
    /\ init' = [init EXCEPT ![n] = @ \cup {0}]
    /\ lock' = [lock EXCEPT ![lk[n].host] = Free]
    /\ lk' = [lk EXCEPT ![n] = NoLookup(n)]
    /\ pc' = [pc EXCEPT ![n] = "jnotify"]
    /\ UNCHANGED <<net, prev, pinit, idx, data>>

\* Mistake: an unreachable successor is not an error.
JoinNotifyUnchecked(n) ==
    /\ pc[n] = "jnotify"
    /\ IF successor(n) \in Node THEN node_notify(successor(n), n)
                               ELSE UNCHANGED <<prev, pinit>>
    /\ pc' = [pc EXCEPT ![n] = "jmove"]
    /\ lk' = [lk EXCEPT ![n] = NoLookup(n)]
    /\ UNCHANGED <<net, finger, init, lock, idx, data>>

JoinNotify(n) ==
    /\ pc[n] = "jnotify"
    /\ successor(n) = n \/ CanServe(successor(n))
    /\ node_notify(successor(n), n)
    /\ pc' = [pc EXCEPT ![n] = "jmove"]
    /\ lk' = [lk EXCEPT ![n] = NoLookup(n)]
    /\ UNCHANGED <<net, finger, init, lock, idx, data>>

\* Mistake: the torrents are removed but not received.
JoinMoveLost(n) ==
    LET t     == successor(n)
        moved == {f \in files[t] : InHalfOpen(f, t, n)}
    IN  /\ pc[n] = "jmove" /\ CanServe(t)
        /\ files' = [files EXCEPT ![t] = @ \ moved]
        /\ pc' = [pc EXCEPT ![n] = "jrecv"]
        /\ UNCHANGED <<net, ring, lock, lk, idx, inflight>>

\* MOVE_DATA: the successor sends, and forgets, the torrents in (its key, n].
JoinMove(n) ==
    LET t     == successor(n)
        moved == {f \in files[t] : InHalfOpen(f, t, n)}
    IN  /\ pc[n] = "jmove" /\ CanServe(t)
        /\ files' = [files EXCEPT ![t] = @ \ moved]
        /\ inflight' = [inflight EXCEPT ![n] = moved]
        /\ pc' = [pc EXCEPT ![n] = "jrecv"]
        /\ UNCHANGED <<net, ring, lock, lk, idx>>

\* The receive loop stores them one at a time, without the lock.
JoinReceive(n) ==
    /\ pc[n] = "jrecv" /\ inflight[n] # {}
    /\ LET f == Least(inflight[n])
       IN  /\ inflight' = [inflight EXCEPT ![n] = @ \ {f}]
           /\ files' = [files EXCEPT ![n] = @ \cup {f}]
    /\ UNCHANGED <<net, ring, lock, pc, lk, idx>>

\* save_file fails: the loop goes on with the next torrent, and this one is in
\* nobody's list any more: MOVE_DATA has removed it.
JoinReceiveFails(n) ==
    /\ pc[n] = "jrecv" /\ inflight[n] # {} /\ n \in MayNotSave
    /\ inflight' = [inflight EXCEPT ![n] = @ \ {Least(@)}]
    /\ UNCHANGED <<net, ring, lock, pc, lk, idx, files>>

JoinDone(n) ==
    /\ pc[n] = "jrecv" /\ inflight[n] = {}
    /\ pc' = [pc EXCEPT ![n] = "idle"]
    /\ UNCHANGED <<net, ring, lock, lk, idx, data>>

JoinStep(n) ==
    \/ JoinAlone(n) \/ JoinReset(n) \/ JoinAsk(n) \/ JoinFound(n)
    \/ JoinNotify(n) \/ JoinMove(n) \/ JoinReceive(n) \/ JoinReceiveFails(n)
    \/ JoinDone(n)

-----------------------------------------------------------------------------
\* tracker_stabilize.

Stabilize(n) ==
    /\ pc[n] = "idle" /\ Room
    /\ lock[n] = Free
    /\ lock' = [lock EXCEPT ![n] = n]
    /\ pc' = [pc EXCEPT ![n] = "ping"]
    /\ idx' = [idx EXCEPT ![n] = 0]
    /\ UNCHANGED <<net, ring, lk, data>>

\* PING every contact in turn, the fingers and then prev (index LastFinger+1).
\* A dead one is forgotten; a live one becomes the successor if that is lost.
PrevIndex     == LastFinger + 1
Contacts(n)   == {i \in init[n] \cup (IF pinit[n] THEN {PrevIndex} ELSE {}) :
                    i >= idx[n]}
Contact(n, i) == IF i = PrevIndex THEN prev[n] ELSE finger[n][i]

PingDead(n) ==
    LET i == Least(Contacts(n)) IN
    /\ pc[n] = "ping" /\ Contacts(n) # {} /\ Dead(Contact(n, i))
    /\ init' = [init EXCEPT ![n] = @ \ {i}]
    /\ pinit' = [pinit EXCEPT ![n] = @ /\ i # PrevIndex]
    /\ idx' = [idx EXCEPT ![n] = i + 1]
    /\ UNCHANGED <<net, finger, prev, lock, pc, lk, data>>

PingAlive(n) ==
    LET i    == Least(Contacts(n))
        lost == 0 \notin init[n]
    IN  /\ pc[n] = "ping" /\ Contacts(n) # {} /\ ~Dead(Contact(n, i))
        /\ finger' = IF lost THEN [finger EXCEPT ![n][0] = Contact(n, i)]
                             ELSE finger
        /\ init' = [init EXCEPT ![n] = @ \cup {0}]
        /\ idx' = [idx EXCEPT ![n] = i + 1]
        /\ pc' = IF lost /\ Contact(n, i) # n
                 THEN [pc EXCEPT ![n] = "newnext"] ELSE pc
        /\ UNCHANGED <<net, prev, pinit, lock, lk, data>>

NotifyNewNext(n) ==
    /\ pc[n] = "newnext" /\ CanServe(successor(n))
    /\ node_notify(successor(n), n)
    /\ pc' = [pc EXCEPT ![n] = "ping"]
    /\ UNCHANGED <<net, finger, init, lock, lk, idx, data>>

PingDone(n) ==
    /\ pc[n] = "ping" /\ Contacts(n) = {} /\ 0 \in init[n]
    /\ pc' = [pc EXCEPT ![n] = "ask"]
    /\ UNCHANGED <<net, ring, lock, lk, idx, data>>

\* No successor is left: the client stops the tracker (it must rejoin).
MustRejoin(n) ==
    /\ pc[n] = "ping" /\ Contacts(n) = {} /\ 0 \notin init[n]
    /\ registered' = registered \ {n}
    /\ pc' = [pc EXCEPT ![n] = "stop"]
    /\ UNCHANGED <<listening, ring, lock, lk, idx, data>>

\* Mistake: the successor's predecessor is adopted unconditionally.
AskPrevAlways(n) ==
    LET t == successor(n) IN
    /\ pc[n] = "ask" /\ (t = n \/ CanServe(t)) /\ pinit[t]
    /\ finger' = [finger EXCEPT ![n][0] = prev[t]]
    /\ pc' = [pc EXCEPT ![n] = "notify"]
    /\ UNCHANGED <<net, init, prev, pinit, lock, lk, idx, data>>

\* node_stabilize, first half: FIND_PREV of the successor's own key.
AskPrev(n) ==
    LET t == successor(n) IN
    /\ pc[n] = "ask" /\ (t = n \/ CanServe(t)) /\ pinit[t]
    /\ finger' = IF InOpen(prev[t], n, t)
                 THEN [finger EXCEPT ![n][0] = prev[t]] ELSE finger
    /\ pc' = [pc EXCEPT ![n] = "notify"]
    /\ UNCHANGED <<net, init, prev, pinit, lock, lk, idx, data>>

AskPrevUnknown(n) ==
    LET t == successor(n) IN
    /\ pc[n] = "ask" /\ (t = n \/ CanServe(t)) /\ ~pinit[t]
    /\ Fails(n)

\* Second half: NOTIFY the successor; then node_fix_fingers starts.
NotifyNext(n) ==
    /\ pc[n] = "notify"
    /\ successor(n) = n \/ CanServe(successor(n))
    /\ node_notify(successor(n), n)
    /\ pc' = [pc EXCEPT ![n] = "fix"]
    /\ lk' = [lk EXCEPT ![n] = Find(n, FixStart[n])]
    /\ idx' = [idx EXCEPT ![n] = 1]
    /\ UNCHANGED <<net, finger, init, lock, data>>

\* Mistake: the rounds are not counted.
FixFingerForever(n) ==
    /\ pc[n] = "fix" /\ Answered(n)
    /\ finger' = [finger EXCEPT ![n][FixIndex[n]] = Answer(n)]
    /\ init' = [init EXCEPT ![n] = @ \cup {FixIndex[n]}]
    /\ lk' = [lk EXCEPT ![n] = Find(n, FixStart[n])]
    /\ UNCHANGED <<net, prev, pinit, lock, pc, idx, data>>

FixFinger(n) ==
    /\ pc[n] = "fix" /\ Answered(n)
    /\ finger' = [finger EXCEPT ![n][FixIndex[n]] = Answer(n)]
    /\ init' = [init EXCEPT ![n] = @ \cup {FixIndex[n]}]
    /\ IF idx[n] < FixRounds
       THEN /\ lk' = [lk EXCEPT ![n] = Find(n, FixStart[n])]
            /\ idx' = [idx EXCEPT ![n] = @ + 1]
            /\ UNCHANGED pc
       ELSE /\ lk' = [lk EXCEPT ![n] = NoLookup(n)]
            /\ idx' = [idx EXCEPT ![n] = 0]
            /\ pc' = [pc EXCEPT ![n] = "migrate"]
    /\ UNCHANGED <<net, prev, pinit, lock, data>>

\* The torrents outside (prev, n] are sent to their successors, in order.  The
\* test reads prev.id whether or not prev is initialized.
Strays(n) == {f \in files[n] : ~InHalfOpen(f, prev[n], n)}

MigrateNext(n) ==
    /\ pc[n] = "migrate" /\ Strays(n) # {}
    /\ lk' = [lk EXCEPT ![n] = Find(n, Least(Strays(n)))]
    /\ pc' = [pc EXCEPT ![n] = "mfind"]
    /\ UNCHANGED <<net, ring, lock, idx, data>>

MigrateFound(n) ==
    /\ pc[n] = "mfind" /\ Answered(n)
    /\ lk' = [lk EXCEPT ![n] = Moved(@, Answer(n), @.nxt, FALSE)]
    /\ pc' = [pc EXCEPT ![n] = "msend"]
    /\ UNCHANGED <<net, ring, lock, idx, data>>

MigrateSend(n) ==
    /\ pc[n] = "msend" /\ CanServe(lk[n].cur)
    /\ Give(n, lk[n].cur, lk[n].id)
    /\ lk' = [lk EXCEPT ![n] = NoLookup(n)]
    /\ pc' = [pc EXCEPT ![n] = "migrate"]
    /\ UNCHANGED <<net, ring, lock, idx, inflight>>

StabilizeDone(n) ==
    /\ pc[n] = "migrate" /\ Strays(n) = {}
    /\ lock' = [lock EXCEPT ![n] = Free]
    /\ pc' = [pc EXCEPT ![n] = "idle"]
    /\ UNCHANGED <<net, ring, lk, idx, data>>

StabilizeStep(n) ==
    \/ PingDead(n) \/ PingAlive(n) \/ NotifyNewNext(n) \/ PingDone(n)
    \/ MustRejoin(n) \/ AskPrev(n) \/ AskPrevUnknown(n) \/ NotifyNext(n)
    \/ FixFinger(n) \/ MigrateNext(n) \/ MigrateFound(n) \/ MigrateSend(n)
    \/ StabilizeDone(n)

-----------------------------------------------------------------------------
\* tracker_upload: find the successor of the torrent's key and send it there.
\* The main thread does not take its own lock.  Bound: a torrent already
\* stored is not uploaded again.

Stored == UNION {files[n] \cup inflight[n] : n \in Node}

Upload(n, f) ==
    /\ pc[n] = "idle" /\ Room
    /\ f \notin Stored
    /\ lk' = [lk EXCEPT ![n] = Find(n, f)]
    /\ pc' = [pc EXCEPT ![n] = "ufind"]
    /\ UNCHANGED <<net, ring, lock, idx, data>>

UploadFound(n) ==
    /\ pc[n] = "ufind" /\ Answered(n)
    /\ lk' = [lk EXCEPT ![n] = Moved(@, Answer(n), @.nxt, FALSE)]
    /\ pc' = [pc EXCEPT ![n] = "usend"]
    /\ UNCHANGED <<net, ring, lock, idx, data>>

UploadSend(n) ==
    /\ pc[n] = "usend" /\ CanServe(lk[n].cur)
    /\ files' = [files EXCEPT ![lk[n].cur] = @ \cup {lk[n].id}]
    /\ lk' = [lk EXCEPT ![n] = NoLookup(n)]
    /\ pc' = [pc EXCEPT ![n] = "idle"]
    /\ UNCHANGED <<net, ring, lock, idx, inflight>>

-----------------------------------------------------------------------------
\* client_stop_tracker: DISCONNECT_TRACKER, then tracker_cleanup.

Leave(n) ==
    /\ n \in MayLeave /\ pc[n] = "idle" /\ Room
    /\ registered' = registered \ {n}
    /\ pc' = [pc EXCEPT ![n] = "stop"]
    /\ UNCHANGED <<listening, ring, lock, lk, idx, data>>

\* Mistake: the mutex is left as it is.
StopServerKeepsLock(n) ==
    /\ pc[n] = "stop" /\ lock[n] \in {n, Free}
    /\ listening' = listening \ {n}
    /\ lk' = [lk EXCEPT ![n] = NoLookup(n)]
    /\ idx' = [idx EXCEPT ![n] = 0]
    /\ pc' = [pc EXCEPT ![n] = "leave"]
    /\ UNCHANGED <<registered, ring, lock, data>>

\* Mistake: the handlers are not waited for.
StopServerAtOnce(n) ==
    /\ pc[n] = "stop"
    /\ listening' = listening \ {n}
    /\ lock' = [lock EXCEPT ![n] = Free]
    /\ lk' = [lk EXCEPT ![n] = NoLookup(n)]
    /\ idx' = [idx EXCEPT ![n] = 0]
    /\ pc' = [pc EXCEPT ![n] = "leave"]
    /\ UNCHANGED <<registered, ring, data>>

\* The server threads are joined, so no handler is running any more; then the
\* socket is closed and the mutex destroyed.
StopServer(n) ==
    /\ pc[n] = "stop" /\ lock[n] \in {n, Free}
    /\ listening' = listening \ {n}
    /\ lock' = [lock EXCEPT ![n] = Free]
    /\ lk' = [lk EXCEPT ![n] = NoLookup(n)]
    /\ idx' = [idx EXCEPT ![n] = 0]
    /\ pc' = [pc EXCEPT ![n] = "leave"]
    /\ UNCHANGED <<registered, ring, data>>

LeaveSend(n) ==
    /\ pc[n] = "leave" /\ files[n] # {} /\ successor(n) # n
    /\ CanServe(successor(n))
    /\ Give(n, successor(n), Least(files[n]))
    /\ UNCHANGED <<net, ring, lock, pc, lk, idx, inflight>>

\* Nothing left to send, nobody to send it to, or the successor refuses.
LeaveDone(n) ==
    /\ pc[n] = "leave"
    /\ files[n] = {} \/ successor(n) = n \/ Dead(successor(n))
    /\ files' = [files EXCEPT ![n] = {}]
    /\ pc' = [pc EXCEPT ![n] = "off"]
    /\ UNCHANGED <<net, ring, lock, lk, idx, inflight>>

\* The process dies while its main thread waits for a command and no handler
\* runs.  It stays registered, and its torrents are gone.
Crash(n) ==
    /\ n \in MayCrash /\ pc[n] = "idle" /\ lock[n] \in {n, Free}
    /\ listening' = listening \ {n}
    /\ lock' = [lock EXCEPT ![n] = Free]
    /\ files' = [files EXCEPT ![n] = {}]
    /\ pc' = [pc EXCEPT ![n] = "off"]
    /\ UNCHANGED <<registered, ring, lk, idx, inflight>>

-----------------------------------------------------------------------------
Step(n) ==  \* a command in progress goes on
    \/ JoinStep(n) \/ StabilizeStep(n)
    \/ LookupHop(n) \/ LookupNext(n) \/ LookupNotFound(n) \/ RpcFails(n)
    \/ UploadFound(n) \/ UploadSend(n)
    \/ StopServer(n) \/ LeaveSend(n) \/ LeaveDone(n)

Command(n) ==  \* the user, or the periodic check, starts one
    \/ Connect(n) \/ Stabilize(n) \/ Leave(n)
    \/ \E f \in File : Upload(n, f)

Next == \E n \in Node : Step(n) \/ Command(n) \/ Crash(n)

Spec == Init /\ [][Next]_vars

\* Every command in progress goes on, every tracker is started, and each is
\* stabilized again and again.
Fairness == \A n \in Node : WF_vars(Step(n)) /\ SF_vars(Stabilize(n))
                                             /\ SF_vars(Connect(n))
FairSpec == Spec /\ Fairness
-----------------------------------------------------------------------------
\* Safety.

\* A lock is held only by a command that is using it: its own stabilization,
\* or the join whose FIND_NEXT it is serving; a handler never outlives its
\* tracker.  (A stabilization that failed keeps the lock: pc is then "idle",
\* or that of a command that does not need the lock.  The lock an UPLOAD handler
\* leaves behind when it cannot save the torrent is in Swarm.tla: from then on
\* nothing that needs it happens.)
LockInv ==
    \A n \in Node :
        /\ pc[n] \in Stabilizing => lock[n] = n
        /\ pc[n] = "jfind" => lk[n].host # n /\ lock[lk[n].host] = n
        /\ lock[n] = n => Joined(n) \/ pc[n] = "stop"
        /\ \A m \in Node \ {n} :
                lock[n] = m => pc[m] = "jfind" /\ lk[m].host = n
        /\ n \in listening <=> pc[n] \notin {"off", "leave"}
        /\ lock[n] # Free => n \in listening

\* Whatever the memory of a tracker_t held before, the successor of a tracker
\* that its successor knows of, and a predecessor marked initialized, are
\* trackers.
Attached == {n \in Node : Joined(n) \/ pc[n] = "jmove"}

PointersAreTrackers ==
    /\ \A n \in Attached : successor(n) \in Node
    /\ \A n \in Node : pinit[n] => prev[n] \in Node

\* A torrent leaves the network only with a tracker that stops or dies while
\* holding it, or with one that joins and cannot save what MOVE_DATA sent it: no
\* other step of a hand-over (MOVE_DATA, migration, leaving) drops one.
TorrentsKept ==
    [][\A f \in Stored \ Stored' :
           \E n \in Node :
               \/ /\ f \in files[n]
                  /\ pc[n] \in {"leave", "idle"} /\ pc'[n] = "off"
               \/ f \in inflight[n] /\ n \in MayNotSave]_vars

\* The promise as a specification.  What MOVE_DATA has sent already belongs to
\* the tracker that is joining.
Running   == {n \in Node : pc[n] # "off"}
Holding   == [n \in Node |-> files[n] \cup inflight[n]]
Directory == INSTANCE TorrentDirectory
                 WITH active <- Running, holds <- Holding, Careless <- MayNotSave
ImplementsDirectory == Directory!Spec

\* The trackers clockwise from a key, and the ring they should form.
Members       == {n \in Node : Joined(n)}
Successor(k)  == CHOOSE s \in Members :
                    \A m \in Members : Gap(k, s, KeySpace) <= Gap(k, m, KeySpace)
NextOf(n)     == CHOOSE s \in Members :
                    \A m \in Members : Walk(n, s, KeySpace) <= Walk(n, m, KeySpace)
RingIsIdeal   == \A n \in Members : /\ successor(n) = NextOf(n)
                                    /\ pinit[NextOf(n)] /\ prev[NextOf(n)] = n

\* On a ring whose pointers are right, node_find_next answers with the first
\* tracker at or after the key, whatever the other fingers hold.  (Asked for
\* the key of the tracker it starts at, it answers with the next one.)
LookupIsSound ==
    \A n \in Node :
        pc[n] \in LookingUp /\ lk[n].id # lk[n].host /\ Answered(n) /\ RingIsIdeal
            => Answer(n) = Successor(lk[n].id)

\* Without departures a successor pointer only moves closer.
SuccessorOnlyImproves ==
    [][\A n \in Node :
           Joined(n) /\ successor(n)' # successor(n)
               => InOpen(successor(n)', n, successor(n))]_vars

\* There is one ring, it visits its trackers in the order of their keys, once
\* around the circle, and the successors of every tracker that its own successor
\* knows of lead into it: it is part of every closed set of such trackers.
Closed(S)  == \A n \in S : successor(n) \in S
Ordered(S) == \A n, m \in S : ~InOpen(m, n, successor(n))
Rings      == {R \in SUBSET Attached : R # {} /\ Closed(R) /\ Ordered(R)}
OneRing ==
    /\ Closed(Attached)
    /\ Attached # {} =>
           \E R \in Rings :
               \A S \in (SUBSET Attached) \ {{}} : Closed(S) => R \subseteq S

\* Once every tracker has joined, stabilizing makes all pointers right, for
\* good.
Converges == <>[](Members = Node /\ RingIsIdeal)

\* A stabilization that has begun returns.
StabilizeReturns ==
    \A n \in Node : (pc[n] \in Stabilizing) ~> (pc[n] \notin Stabilizing)
=============================================================================
