--------------------------- MODULE TrackerProofs ----------------------------
(***************************************************************************)
(* Proofs about Tracker.tla for any number of trackers, keys, torrents and *)
(* concurrent commands: types, locks, pointers, where the torrents are,    *)
(* the ring the trackers form and what a lookup on it finds.               *)
(***************************************************************************)
EXTENDS Tracker, FiniteSetTheorems, WellFoundedInduction, TLAPS

-----------------------------------------------------------------------------
\* Keys.

\* The interval test of key_in is the order in which a walk clockwise from a
\* meets the keys: (a, b) holds what is met before b, (a, b] also b.
THEOREM KeyInIsClockwise ==
    ASSUME NEW k \in Key, NEW a \in Key, NEW b \in Key
    PROVE  /\ InOpen(k, a, b)     <=> Walk(a, k, KeySpace) < Walk(a, b, KeySpace)
           /\ InHalfOpen(k, a, b) <=> Walk(a, k, KeySpace) <= Walk(a, b, KeySpace)
  BY KeyAssumption DEF InOpen, InHalfOpen, key_in, key_cmp, Walk, Key

\* A finger in (n, b) is strictly between: a lookup that hops to it gets closer.
LEMMA HopIsCloser ==
    ASSUME NEW k \in Key, NEW n \in Key, NEW f \in Key, InOpen(f, n, k)
    PROVE  Gap(f, k, KeySpace) < Walk(n, k, KeySpace)
  BY KeyAssumption DEF InOpen, key_in, key_cmp, Walk, Gap, Key

\* Every non-empty set of numbers has a least element.
LEMMA LeastExists ==
    ASSUME NEW S \in SUBSET Nat, S # {}
    PROVE  \E x \in S : \A y \in S : x <= y
<1>1. PICK x \in S : \A y \in S : ~ (<<y, x>> \in OpToRel(<, Nat))
  BY NatLessThanWellFounded, WFMin
<1>2. \A y \in S : ~ (y < x)
  BY <1>1 DEF OpToRel
<1> QED
  BY <1>2

\* Least chooses the least element of a non-empty set of numbers.
LEMMA LeastIn ==
    ASSUME NEW S \in SUBSET Nat, S # {}
    PROVE  Least(S) \in S /\ \A y \in S : Least(S) <= y
  BY LeastExists DEF Least

\* Every non-empty set of fingers has a greatest element, and Greatest
\* chooses it.
LEMMA GreatestIn ==
    ASSUME NEW S \in SUBSET Fingers, S # {}
    PROVE  Greatest(S) \in S /\ \A y \in S : y <= Greatest(S)
<1> DEFINE U == {LastFinger - x : x \in S}
<1>0. LastFinger \in Nat
  BY FingerAssumption
<1>1. U \subseteq Nat /\ U # {}
  <2>1. \A x \in S : LastFinger - x \in Nat
    BY <1>0 DEF Fingers
  <2>2. PICK x \in S : TRUE
    OBVIOUS
  <2>3. LastFinger - x \in U
    BY <2>2
  <2> QED
    BY <2>1, <2>3
<1>2. Least(U) \in U /\ \A y \in U : Least(U) <= y
  BY <1>1, LeastIn
<1>3. PICK x \in S : Least(U) = LastFinger - x
  BY <1>2
<1>4. \A y \in S : LastFinger - x <= LastFinger - y
  BY <1>2, <1>3
<1>5. \A y \in S : y <= x
  BY <1>0, <1>4 DEF Fingers
<1> QED
  BY <1>5 DEF Greatest

-----------------------------------------------------------------------------
\* Types.

\* What a command looks up to send somewhere is a torrent.
SendsTorrents ==
    \A n \in Node : pc[n] \in {"mfind", "msend", "ufind", "usend"} => lk[n].id \in File
TypeInv == TypeOK /\ SendsTorrents

USE KeyAssumption, FingerAssumption

LEMMA TypeInit == Init => TypeInv
  BY DEF Init, TypeInv, TypeOK, SendsTorrents, NoLookup, Asking, Lookup,
          Stage, Key, Fingers

\* Requests go to trackers; what a tracker answers, and what the helpers that
\* several actions share compute, has its type.
LEMMA ReachableNode ==
    ASSUME TypeInv, NEW n \in Node, Reachable(lk[n])
    PROVE  lk[n].cur \in Node /\ lk[n].cur \in Key
  BY DEF TypeInv, TypeOK, Reachable, CanServe, Lookup, Key

LEMMA SuccessorType ==
    ASSUME TypeInv, NEW n \in Node
    PROVE  successor(n) \in Key
  BY DEF TypeInv, TypeOK, successor, Fingers

LEMMA FindType ==
    ASSUME TypeInv, NEW h \in Node, NEW id \in Key
    PROVE  Find(h, id) \in Lookup
  BY SuccessorType DEF Find, Lookup, Key

LEMMA NoLookupType ==
    ASSUME NEW n \in Node
    PROVE  NoLookup(n) \in Lookup
  BY DEF NoLookup, Asking, Lookup, Key

LEMMA NotifyType ==
    ASSUME TypeInv, NEW t \in Node, NEW p \in Node, node_notify(t, p)
    PROVE  prev' \in [Node -> Key] /\ pinit' \in [Node -> BOOLEAN]
  BY DEF TypeInv, TypeOK, node_notify, Key

LEMMA GiveType ==
    ASSUME TypeInv, NEW n \in Node, NEW t \in Node, NEW f \in File, Give(n, t, f)
    PROVE  files' \in [Node -> SUBSET File]
  BY DEF TypeInv, TypeOK, Give

LEMMA FailsType ==
    ASSUME TypeInv, NEW n \in Node, Fails(n)
    PROVE  TypeInv'
  BY NoLookupType DEF TypeInv, TypeOK, SendsTorrents, Fails, net, ring, data,
         Stage, Leaving

LEMMA LookupStepType ==
    ASSUME TypeInv, NEW n \in Node,
           LookupHop(n) \/ LookupNext(n) \/ LookupNotFound(n) \/ RpcFails(n)
    PROVE  TypeInv'
<1>1. CASE LookupHop(n)
  <2>1. lk[n].cur \in Node
    BY <1>1, ReachableNode DEF LookupHop
  <2> DEFINE P == Preceding(lk[n].cur, lk[n].id)
  <2>a. P \in SUBSET Fingers /\ P # {}
    BY <1>1, <2>1 DEF LookupHop, Preceding, TypeInv, TypeOK
  <2>b. Greatest(P) \in Fingers
    <3> HIDE DEF P
    <3> QED
      BY <2>a, GreatestIn
  <2>2. node_find_closest_preceding(lk[n].cur, lk[n].id) \in Key
    BY <2>1, <2>b DEF node_find_closest_preceding, TypeInv, TypeOK
  <2>3. lk' \in [Node -> Lookup] /\ lk'[n].id = lk[n].id
    BY <1>1, <2>1, <2>2 DEF LookupHop, TypeInv, TypeOK, Lookup, Moved
  <2>4. \A m \in Node \ {n} : lk'[m] = lk[m]
    BY <1>1 DEF LookupHop, TypeInv, TypeOK
  <2> QED
    BY <1>1, <2>3, <2>4 DEF LookupHop, TypeInv, TypeOK, SendsTorrents, net, ring, data
<1>2. CASE LookupNext(n)
  <2>1. successor(lk[n].cur) \in Key
    BY <1>2, ReachableNode, SuccessorType DEF LookupNext
  <2>2. lk' \in [Node -> Lookup] /\ lk'[n].id = lk[n].id
    BY <1>2, <2>1 DEF LookupNext, TypeInv, TypeOK, Lookup, Moved
  <2>3. \A m \in Node \ {n} : lk'[m] = lk[m]
    BY <1>2 DEF LookupNext, TypeInv, TypeOK
  <2> QED
    BY <1>2, <2>2, <2>3 DEF LookupNext, TypeInv, TypeOK, SendsTorrents, net, ring, data
<1>3. CASE LookupNotFound(n)
  BY <1>3, FailsType DEF LookupNotFound
<1>4. CASE RpcFails(n)
  BY <1>4, FailsType DEF RpcFails
<1> QED
  BY <1>1, <1>2, <1>3, <1>4

LEMMA ConnectType ==
    ASSUME TypeInv, NEW n \in Node, Connect(n)
    PROVE  TypeInv'
<1>1. \A peer \in Node : Asking(n, peer) \in Lookup
  BY DEF Asking, Lookup, Key
<1>2. registered \subseteq Node /\ lk \in [Node -> Lookup]
  BY DEF TypeInv, TypeOK
<1>3. lk' = lk \/ \E peer \in registered : lk' = [lk EXCEPT ![n] = Asking(n, peer)]
  BY DEF Connect
<1>4. lk' \in [Node -> Lookup] /\ \A m \in Node \ {n} : lk'[m] = lk[m]
  BY <1>1, <1>2, <1>3
<1>5. pc' = [pc EXCEPT ![n] = "founder"] \/ pc' = [pc EXCEPT ![n] = "connected"]
  BY DEF Connect
<1>6. pc' \in [Node -> Stage] /\ SendsTorrents'
  BY <1>4, <1>5 DEF TypeInv, TypeOK, SendsTorrents, Stage, Joining
<1>7. \/ finger' = finger /\ init' = init /\ prev' = prev /\ pinit' = pinit
      \/ /\ finger' = [finger EXCEPT ![n] = [i \in Fingers |-> Blank]]
         /\ prev' = [prev EXCEPT ![n] = Blank]
         /\ init' = [init EXCEPT ![n] = {}]
         /\ pinit' = [pinit EXCEPT ![n] = FALSE]
  BY DEF Connect, ring
<1>8. /\ finger' \in [Node -> [Fingers -> Key]] /\ init' \in [Node -> SUBSET Fingers]
      /\ prev' \in [Node -> Key] /\ pinit' \in [Node -> BOOLEAN]
  <2>1. Blank \in Key /\ [i \in Fingers |-> Blank] \in [Fingers -> Key]
    OBVIOUS
  <2>2. CASE finger' = finger /\ init' = init /\ prev' = prev /\ pinit' = pinit
    BY <2>2 DEF TypeInv, TypeOK
  <2>3. CASE /\ finger' = [finger EXCEPT ![n] = [i \in Fingers |-> Blank]]
             /\ prev' = [prev EXCEPT ![n] = Blank]
             /\ init' = [init EXCEPT ![n] = {}]
             /\ pinit' = [pinit EXCEPT ![n] = FALSE]
    <3>1. init' \in [Node -> SUBSET Fingers] /\ pinit' \in [Node -> BOOLEAN]
      BY <2>3 DEF TypeInv, TypeOK
    <3>2. prev' \in [Node -> Key]
      BY <2>1, <2>3 DEF TypeInv, TypeOK
    <3>3. finger' \in [Node -> [Fingers -> Key]]
      BY <2>1, <2>3 DEF TypeInv, TypeOK
    <3> QED
      BY <3>1, <3>2, <3>3
  <2> QED
    BY <1>7, <2>2, <2>3
<1>9. /\ listening' = listening \cup {n} /\ registered' = registered \cup {n}
      /\ UNCHANGED <<lock, idx, files, inflight>>
  BY DEF Connect, data
<1> QED
  BY <1>4, <1>6, <1>8, <1>9 DEF TypeInv, TypeOK

LEMMA JoinType ==
    ASSUME TypeInv, NEW n \in Node, JoinStep(n)
    PROVE  TypeInv'
<1> USE DEF TypeInv, TypeOK, SendsTorrents, net, ring, data,
            Stage, Joining, Receiving
<1>2. CASE JoinAlone(n)
  <2>1. n \in Key /\ 0 \in Fingers
    BY DEF Fingers
  <2>2. finger' \in [Node -> [Fingers -> Key]] /\ init' \in [Node -> SUBSET Fingers]
    BY <1>2, <2>1 DEF JoinAlone
  <2>3. prev' \in [Node -> Key] /\ pinit' \in [Node -> BOOLEAN]
    BY <1>2, <2>1 DEF JoinAlone
  <2> QED
    BY <1>2, <2>2, <2>3 DEF JoinAlone
<1>3. CASE JoinReset(n)
  BY <1>3 DEF JoinReset, Fingers
<1>4. CASE JoinAsk(n)
  <2>1. lk[n].host \in Node /\ n \in Key
    BY DEF Lookup, Key
  <2>2. Find(lk[n].host, n) \in Lookup
    BY <2>1, FindType
  <2> QED
    BY <1>4, <2>1, <2>2 DEF JoinAsk
<1>5. CASE JoinFound(n)
  <2>1. Answer(n) \in Key /\ lk[n].host \in Node
    BY <1>5, ReachableNode, SuccessorType DEF JoinFound, Answer, Answered, Lookup
  <2> QED
    BY <1>5, <2>1, NoLookupType DEF JoinFound, Fingers
<1>6. CASE JoinNotify(n)
  <2>1. successor(n) \in Node
    BY <1>6 DEF JoinNotify, CanServe
  <2>2. prev' \in [Node -> Key] /\ pinit' \in [Node -> BOOLEAN]
    BY <1>6, <2>1, NotifyType DEF JoinNotify
  <2> QED
    BY <1>6, <2>2, NoLookupType DEF JoinNotify
<1>7. CASE JoinMove(n)
  BY <1>7 DEF JoinMove, CanServe
<1>8. CASE JoinReceive(n)
  <2>1. Least(inflight[n]) \in inflight[n]
    BY <1>8, LeastIn DEF JoinReceive, Key
  <2> QED
    BY <1>8, <2>1 DEF JoinReceive
<1>9. CASE JoinReceiveFails(n)
  <2>1. inflight[n] \ {Least(inflight[n])} \in SUBSET File
    BY DEF TypeOK
  <2> QED
    BY <1>9, <2>1 DEF JoinReceiveFails
<1>10. CASE JoinDone(n)
  BY <1>10 DEF JoinDone
<1> QED
  BY <1>2, <1>3, <1>4, <1>5, <1>6, <1>7, <1>8, <1>9, <1>10 DEF JoinStep

\* The contacts of a stabilization.
LEMMA ContactType ==
    ASSUME TypeInv, NEW n \in Node, Contacts(n) # {}
    PROVE  /\ Least(Contacts(n)) \in Contacts(n)
           /\ Least(Contacts(n)) \in Fingers \cup {PrevIndex}
           /\ Least(Contacts(n)) \in Nat
           /\ Contact(n, Least(Contacts(n))) \in Key
<1>1. Contacts(n) \subseteq Fingers \cup {PrevIndex}
  BY DEF Contacts, TypeInv, TypeOK
<1>2. Fingers \cup {PrevIndex} \subseteq Nat
  BY DEF Fingers, PrevIndex
<1>3. Least(Contacts(n)) \in Contacts(n)
  BY <1>1, <1>2, LeastIn
<1> HIDE DEF Contacts
<1> QED
  BY <1>1, <1>2, <1>3 DEF Contact, TypeInv, TypeOK, PrevIndex, Fingers

LEMMA FixFingerType ==
    ASSUME TypeInv, NEW n \in Node, FixFinger(n)
    PROVE  TypeInv'
<1>1. Find(n, FixStart[n]) \in Lookup /\ NoLookup(n) \in Lookup
  BY FindType, NoLookupType
<1>2. Answer(n) \in Key /\ FixIndex[n] \in Fingers
  BY ReachableNode, SuccessorType DEF FixFinger, Answer, Answered, Fingers
<1>3. finger' \in [Node -> [Fingers -> Key]] /\ init' \in [Node -> SUBSET Fingers]
  BY <1>2 DEF FixFinger, TypeInv, TypeOK
<1>4. \/ lk' = [lk EXCEPT ![n] = Find(n, FixStart[n])]
      \/ lk' = [lk EXCEPT ![n] = NoLookup(n)]
  BY DEF FixFinger
<1>5. lk' \in [Node -> Lookup] /\ \A m \in Node \ {n} : lk'[m] = lk[m]
  BY <1>1, <1>4 DEF TypeInv, TypeOK
<1>6. pc[n] = "fix" /\ (pc' = pc \/ pc' = [pc EXCEPT ![n] = "migrate"])
  BY DEF FixFinger
<1>7. pc' \in [Node -> Stage] /\ pc'[n] \in {"fix", "migrate"}
  BY <1>6 DEF TypeInv, TypeOK, Stage, Stabilizing
<1>8. idx' \in [Node -> Nat]
  BY DEF FixFinger, TypeInv, TypeOK
<1>9. SendsTorrents'
  BY <1>5, <1>6, <1>7 DEF TypeInv, TypeOK, SendsTorrents
<1> QED
  BY <1>3, <1>5, <1>7, <1>8, <1>9 DEF FixFinger, TypeInv, TypeOK, net, data

LEMMA StabilizeType ==
    ASSUME TypeInv, NEW n \in Node, Stabilize(n) \/ StabilizeStep(n)
    PROVE  TypeInv'
<1> USE DEF TypeInv, TypeOK, SendsTorrents, net, ring, data,
            Stage, Stabilizing
<1>1. CASE Stabilize(n)
  BY <1>1 DEF Stabilize
<1>2. CASE PingDead(n)
  BY <1>2, ContactType DEF PingDead
<1>3. CASE PingAlive(n)
  BY <1>3, ContactType DEF PingAlive, Fingers
<1>4. CASE NotifyNewNext(n)
  BY <1>4, NotifyType DEF NotifyNewNext, CanServe
<1>5. CASE PingDone(n)
  BY <1>5 DEF PingDone
<1>6. CASE MustRejoin(n)
  BY <1>6 DEF MustRejoin, Leaving
<1>7. CASE AskPrev(n)
  BY <1>7 DEF AskPrev, CanServe, Fingers
<1>8. CASE AskPrevUnknown(n)
  BY <1>8, FailsType DEF AskPrevUnknown
<1>9. CASE NotifyNext(n)
  <2>1. Find(n, FixStart[n]) \in Lookup
    BY FindType
  <2>2. prev' \in [Node -> Key] /\ pinit' \in [Node -> BOOLEAN]
    BY <1>9, NotifyType DEF NotifyNext, CanServe
  <2> QED
    BY <1>9, <2>1, <2>2 DEF NotifyNext
<1>10. CASE FixFinger(n)
  BY <1>10, FixFingerType
<1>11. CASE MigrateNext(n)
  <2>1. Strays(n) \subseteq files[n]
    BY DEF Strays
  <2>2. Least(Strays(n)) \in files[n]
    BY <1>11, <2>1, LeastIn DEF MigrateNext, Key
  <2>3. Find(n, Least(Strays(n))) \in Lookup
    BY <2>2, FindType
  <2> QED
    BY <1>11, <2>2, <2>3 DEF MigrateNext, Find
<1>12. CASE MigrateFound(n)
  <2>1. Answer(n) \in Key
    BY <1>12, ReachableNode, SuccessorType DEF MigrateFound, Answer, Answered
  <2>2. Moved(lk[n], Answer(n), lk[n].nxt, FALSE) \in Lookup
    BY <2>1 DEF Moved, Lookup
  <2> QED
    BY <1>12, <2>2 DEF MigrateFound, Moved
<1>13. CASE MigrateSend(n)
  <2>1. files' \in [Node -> SUBSET File]
    BY <1>13, GiveType DEF MigrateSend, CanServe
  <2> QED
    BY <1>13, <2>1, NoLookupType DEF MigrateSend
<1>14. CASE StabilizeDone(n)
  BY <1>14 DEF StabilizeDone
<1> QED
  BY <1>1, <1>2, <1>3, <1>4, <1>5, <1>6, <1>7, <1>8, <1>9, <1>10, <1>11, <1>12,
     <1>13, <1>14 DEF StabilizeStep

LEMMA UploadLeaveType ==
    ASSUME TypeInv, NEW n \in Node,
           \/ \E f \in File : Upload(n, f)
           \/ UploadFound(n) \/ UploadSend(n) \/ Leave(n) \/ StopServer(n)
           \/ LeaveSend(n) \/ LeaveDone(n) \/ Crash(n)
    PROVE  TypeInv'
<1> USE DEF TypeInv, TypeOK, SendsTorrents, net, ring, data,
            Stage, Uploading, Leaving
<1>1. CASE \E f \in File : Upload(n, f)
  <2>1. PICK f \in File : Upload(n, f)
    BY <1>1
  <2>2. Find(n, f) \in Lookup /\ Find(n, f).id = f
    BY FindType DEF Find
  <2> QED
    BY <2>1, <2>2 DEF Upload
<1>2. CASE UploadFound(n)
  <2>1. Answer(n) \in Key
    BY <1>2, ReachableNode, SuccessorType DEF UploadFound, Answer, Answered
  <2>2. Moved(lk[n], Answer(n), lk[n].nxt, FALSE) \in Lookup
    BY <2>1 DEF Moved, Lookup
  <2> QED
    BY <1>2, <2>2 DEF UploadFound, Moved
<1>3. CASE UploadSend(n)
  BY <1>3, NoLookupType DEF UploadSend, CanServe
<1>4. CASE Leave(n)
  BY <1>4 DEF Leave
<1>5. CASE StopServer(n)
  BY <1>5, NoLookupType DEF StopServer
<1>6. CASE LeaveSend(n)
  <2>1. Least(files[n]) \in File
    BY <1>6, LeastIn DEF LeaveSend, Key
  <2>2. files' \in [Node -> SUBSET File]
    BY <1>6, <2>1, GiveType DEF LeaveSend, CanServe
  <2> QED
    BY <1>6, <2>2 DEF LeaveSend
<1>7. CASE LeaveDone(n)
  BY <1>7 DEF LeaveDone
<1>8. CASE Crash(n)
  BY <1>8 DEF Crash
<1> QED
  BY <1>1, <1>2, <1>3, <1>4, <1>5, <1>6, <1>7, <1>8

LEMMA TypeStep == TypeInv /\ [Next]_vars => TypeInv'
<1> SUFFICES ASSUME TypeInv, [Next]_vars PROVE TypeInv'
  OBVIOUS
<1>1. CASE UNCHANGED vars
  BY <1>1 DEF vars, TypeInv, TypeOK, SendsTorrents, net, ring, data
<1>2. CASE Next
  BY <1>2, ConnectType, JoinType, StabilizeType, LookupStepType, UploadLeaveType
  DEF Next, Step, Command
<1> QED
  BY <1>1, <1>2

\* Every variable keeps its type.
THEOREM TypeCorrect == Spec => []TypeOK
<1>1. Spec => []TypeInv
  BY TypeInit, TypeStep, PTL DEF Spec
<1>2. TypeInv => TypeOK
  BY DEF TypeInv
<1> QED
  BY <1>1, <1>2, PTL

-----------------------------------------------------------------------------
\* Locks.

\* A tracker asks another one to find its successor (if the bootstrap server
\* names n itself to n, it asks nobody).
AskOther == \A n \in Node : pc[n] = "jask" => lk[n].host # n
LockOK   == LockInv /\ AskOther

Served == Stage \ {"jfind", "off", "leave"}

LEMMA LockInit == Init => LockOK
  BY DEF Init, LockOK, LockInv, AskOther, Stabilizing

\* Most steps move one command from a stage that needs no other tracker's
\* lock to another one, and touch neither a lock nor who listens.
LEMMA QuietStep ==
    ASSUME TypeOK, TypeOK', LockOK, NEW n \in Node, lock' = lock, listening' = listening,
           pc[n] \in Served, pc'[n] \in Served,
           \A m \in Node \ {n} : pc'[m] = pc[m] /\ lk'[m] = lk[m],
           pc'[n] \in Stabilizing => pc[n] \in Stabilizing,
           Joined(n) \/ pc[n] = "stop" => Joined(n)' \/ pc'[n] = "stop",
           pc'[n] = "jask" => lk'[n].host # n
    PROVE  LockOK'
<1>1. AskOther'
  BY DEF AskOther, LockOK
<1>2. ASSUME NEW m \in Node
      PROVE  /\ pc'[m] \in Stabilizing => lock'[m] = m
             /\ pc'[m] = "jfind" => lk'[m].host # m /\ lock'[lk'[m].host] = m
             /\ lock'[m] = m => Joined(m)' \/ pc'[m] = "stop"
             /\ m \in listening' <=> pc'[m] \notin {"off", "leave"}
             /\ lock'[m] # Free => m \in listening'
  BY DEF LockOK, LockInv, Joined, Served
<1>3. ASSUME NEW m \in Node, NEW k \in Node \ {m}, lock'[m] = k
      PROVE  pc'[k] = "jfind" /\ lk'[k].host = m
  BY <1>3 DEF LockOK, LockInv, Served
<1> QED
  BY <1>1, <1>2, <1>3 DEF LockOK, LockInv

\* A lookup moves on without changing who asked for it.
LEMMA LookupLock ==
    ASSUME TypeOK, LockOK, NEW n \in Node, LookupHop(n) \/ LookupNext(n)
    PROVE  LockOK'
<1>1. /\ lock' = lock /\ listening' = listening /\ pc' = pc
  BY DEF LookupHop, LookupNext, net
<1>2. PICK c, x, b : lk' = [lk EXCEPT ![n] = Moved(lk[n], c, x, b)]
  BY DEF LookupHop, LookupNext
<1>3. \A m \in Node : lk'[m].host = lk[m].host
  BY <1>2 DEF Moved, TypeOK
<1> QED
  BY <1>1, <1>3 DEF LockOK, LockInv, AskOther, Joined

LEMMA FailsLock ==
    ASSUME TypeOK, TypeOK', LockOK, NEW n \in Node, Fails(n),
           pc[n] \in Joining \cup Stabilizing \cup Uploading
    PROVE  LockOK'
<1>1. /\ pc' = [pc EXCEPT ![n] = IF @ \in Joining THEN "stop" ELSE "idle"]
      /\ lk' = [lk EXCEPT ![n] = NoLookup(n)]
      /\ listening' = listening
  BY DEF Fails, net
<1>2. CASE pc[n] = "jfind"
  <2> DEFINE h == lk[n].host
  <2>1. h \in Node /\ h # n /\ lock[h] = n
    BY <1>2 DEF LockOK, LockInv, TypeOK, Lookup
  <2>2. lock' = [lock EXCEPT ![h] = Free]
    BY <1>2 DEF Fails
  <2>3. pc'[n] = "stop" /\ \A m \in Node \ {n} : pc'[m] = pc[m] /\ lk'[m] = lk[m]
    BY <1>1, <1>2 DEF TypeOK, Joining
  <2>4. \A m \in Node \ {h} : lock'[m] = lock[m]
    BY <2>2 DEF TypeOK
  <2>5. lock'[h] = Free
    BY <2>1, <2>2 DEF TypeOK
  <2> HIDE DEF h
  <2>6. ASSUME NEW m \in Node
        PROVE  /\ pc'[m] \in Stabilizing => lock'[m] = m
               /\ pc'[m] = "jfind" => lk'[m].host # m /\ lock'[lk'[m].host] = m
               /\ lock'[m] = m => Joined(m)' \/ pc'[m] = "stop"
               /\ m \in listening' <=> pc'[m] \notin {"off", "leave"}
               /\ lock'[m] # Free => m \in listening'
    <3>1. CASE m = n
      BY <1>1, <1>2, <2>1, <2>3, <2>4, <2>5, <3>1, KeyAssumption
      DEF LockOK, LockInv, Stabilizing
    <3>2. CASE m # n
      <4>1. pc'[m] = "jfind" => lk[m].host # h /\ lk[m].host \in Node
        BY <2>1, <2>3, <3>2 DEF LockOK, LockInv, TypeOK, Lookup
      <4>2. pc[m] \in Stabilizing => m # h
        BY <2>1, <3>2 DEF LockOK, LockInv
      <4> QED
        BY <1>1, <2>3, <2>4, <2>5, <3>2, <4>1, <4>2, KeyAssumption
        DEF LockOK, LockInv, Joined
    <3> QED
      BY <3>1, <3>2
  <2>7. ASSUME NEW m \in Node, NEW k \in Node \ {m}, lock'[m] = k
        PROVE  pc'[k] = "jfind" /\ lk'[k].host = m
    BY <2>1, <2>3, <2>4, <2>5, <2>7, KeyAssumption DEF LockOK, LockInv
  <2>8. AskOther'
    BY <2>3 DEF LockOK, AskOther
  <2> QED
    BY <2>6, <2>7, <2>8 DEF LockOK, LockInv
<1>3. CASE pc[n] # "jfind"
  <2>1. lock' = lock
    BY <1>3 DEF Fails
  <2>2. \A m \in Node \ {n} : pc'[m] = pc[m] /\ lk'[m] = lk[m]
    BY <1>1 DEF TypeOK
  <2>3. pc[n] \in Served
    BY <1>3 DEF Served, TypeOK, Joining, Stabilizing, Uploading
  <2>4. /\ pc'[n] \in Served /\ pc'[n] \notin Stabilizing /\ pc'[n] # "jask"
        /\ Joined(n)' \/ pc'[n] = "stop"
    BY <1>1 DEF TypeOK, Served, Stage, Leaving, Stabilizing, Joined
  <2> QED
    BY <1>1, <2>1, <2>2, <2>3, <2>4, QuietStep
<1> QED
  BY <1>2, <1>3

\* The steps that take or release a lock, or open or close a server.
LEMMA ConnectLock ==
    ASSUME TypeOK, TypeOK', LockOK, NEW n \in Node, Connect(n)
    PROVE  LockOK'
<1>1. /\ pc[n] = "off" /\ pc'[n] \in {"founder", "connected"}
      /\ listening' = listening \cup {n} /\ lock' = lock
      /\ \A m \in Node \ {n} : pc'[m] = pc[m] /\ lk'[m] = lk[m]
  <2>1. pc' = [pc EXCEPT ![n] = "founder"] \/ pc' = [pc EXCEPT ![n] = "connected"]
    BY DEF Connect
  <2>2. lk' = lk \/ \E peer \in registered : lk' = [lk EXCEPT ![n] = Asking(n, peer)]
    BY DEF Connect
  <2>3. pc[n] = "off" /\ listening' = listening \cup {n} /\ lock' = lock
    BY DEF Connect
  <2> QED
    BY <2>1, <2>2, <2>3 DEF TypeOK
<1>2. lock[n] = Free
  BY <1>1 DEF LockOK, LockInv
<1>3. ASSUME NEW m \in Node
      PROVE  /\ pc'[m] \in Stabilizing => lock'[m] = m
             /\ pc'[m] = "jfind" => lk'[m].host # m /\ lock'[lk'[m].host] = m
             /\ lock'[m] = m => Joined(m)' \/ pc'[m] = "stop"
             /\ m \in listening' <=> pc'[m] \notin {"off", "leave"}
             /\ lock'[m] # Free => m \in listening'
             /\ pc'[m] = "jask" => lk'[m].host # m
  BY <1>1, <1>2 DEF LockOK, LockInv, AskOther, Joined, Stabilizing
<1>4. ASSUME NEW m \in Node, NEW k \in Node \ {m}, lock'[m] = k
      PROVE  pc'[k] = "jfind" /\ lk'[k].host = m
  BY <1>1, <1>4 DEF LockOK, LockInv
<1> QED
  BY <1>3, <1>4 DEF LockOK, LockInv, AskOther

LEMMA JoinAskLock ==
    ASSUME TypeOK, TypeOK', LockOK, NEW n \in Node, JoinAsk(n)
    PROVE  LockOK'
<1> DEFINE h == lk[n].host
<1>1. /\ pc[n] = "jask" /\ h \in Node \ {n} /\ h \in listening /\ lock[h] = Free
      /\ listening' = listening
  BY DEF JoinAsk, CanServe, LockOK, AskOther, TypeOK, Lookup, net
<1>2. /\ lock' = [lock EXCEPT ![h] = n] /\ pc' = [pc EXCEPT ![n] = "jfind"]
      /\ lk' = [lk EXCEPT ![n] = Find(h, n)]
  BY DEF JoinAsk
<1>3. Find(h, n).host = h
  BY DEF Find
<1> HIDE DEF h
<1>4. /\ lock'[h] = n /\ \A m \in Node \ {h} : lock'[m] = lock[m]
      /\ pc'[n] = "jfind" /\ lk'[n].host = h
      /\ \A m \in Node \ {n} : pc'[m] = pc[m] /\ lk'[m] = lk[m]
  BY <1>1, <1>2, <1>3 DEF TypeOK
<1>5. ASSUME NEW m \in Node
      PROVE  /\ pc'[m] \in Stabilizing => lock'[m] = m
             /\ pc'[m] = "jfind" => lk'[m].host # m /\ lock'[lk'[m].host] = m
             /\ lock'[m] = m => Joined(m)' \/ pc'[m] = "stop"
             /\ m \in listening' <=> pc'[m] \notin {"off", "leave"}
             /\ lock'[m] # Free => m \in listening'
             /\ pc'[m] = "jask" => lk'[m].host # m
  <2>1. CASE m = n
    BY <1>1, <1>4, <2>1 DEF LockOK, LockInv, AskOther, Joined, Stabilizing,
       Receiving, Uploading
  <2>2. CASE m # n
    <3>1. pc[m] = "jfind" => lk[m].host \in Node \ {h}
      BY <1>1, KeyAssumption DEF LockOK, LockInv, TypeOK, Lookup
    <3>2. pc[m] \in Stabilizing => m # h
      BY <1>1, KeyAssumption DEF LockOK, LockInv
    <3> QED
      BY <1>1, <1>4, <2>2, <3>1, <3>2 DEF LockOK, LockInv, AskOther, Joined
  <2> QED
    BY <2>1, <2>2
<1>6. ASSUME NEW m \in Node, NEW k \in Node \ {m}, lock'[m] = k
      PROVE  pc'[k] = "jfind" /\ lk'[k].host = m
  BY <1>1, <1>4, <1>6 DEF LockOK, LockInv
<1> QED
  BY <1>5, <1>6 DEF LockOK, LockInv, AskOther

LEMMA JoinFoundLock ==
    ASSUME TypeOK, TypeOK', LockOK, NEW n \in Node, JoinFound(n)
    PROVE  LockOK'
<1> DEFINE h == lk[n].host
<1>1. /\ pc[n] = "jfind" /\ h \in Node \ {n} /\ lock[h] = n
      /\ listening' = listening
  BY DEF JoinFound, LockOK, LockInv, TypeOK, Lookup, net
<1>2. /\ lock' = [lock EXCEPT ![h] = Free] /\ pc' = [pc EXCEPT ![n] = "jnotify"]
      /\ lk' = [lk EXCEPT ![n] = NoLookup(n)]
  BY DEF JoinFound
<1> HIDE DEF h
<1>3. /\ lock'[h] = Free /\ \A m \in Node \ {h} : lock'[m] = lock[m]
      /\ pc'[n] = "jnotify"
      /\ \A m \in Node \ {n} : pc'[m] = pc[m] /\ lk'[m] = lk[m]
  BY <1>1, <1>2 DEF TypeOK
<1>4. ASSUME NEW m \in Node
      PROVE  /\ pc'[m] \in Stabilizing => lock'[m] = m
             /\ pc'[m] = "jfind" => lk'[m].host # m /\ lock'[lk'[m].host] = m
             /\ lock'[m] = m => Joined(m)' \/ pc'[m] = "stop"
             /\ m \in listening' <=> pc'[m] \notin {"off", "leave"}
             /\ lock'[m] # Free => m \in listening'
             /\ pc'[m] = "jask" => lk'[m].host # m
  <2>1. CASE m = n
    BY <1>1, <1>3, <2>1 DEF LockOK, LockInv, AskOther, Joined, Stabilizing,
       Receiving, Uploading
  <2>2. CASE m # n
    <3>1. pc[m] = "jfind" => lk[m].host \in Node \ {h}
      BY <1>1, <2>2 DEF LockOK, LockInv, TypeOK, Lookup
    <3>2. pc[m] \in Stabilizing => m # h
      BY <1>1, <2>2 DEF LockOK, LockInv
    <3> QED
      BY <1>1, <1>3, <2>2, <3>1, <3>2, KeyAssumption DEF LockOK, LockInv, AskOther, Joined
  <2> QED
    BY <2>1, <2>2
<1>5. ASSUME NEW m \in Node, NEW k \in Node \ {m}, lock'[m] = k
      PROVE  pc'[k] = "jfind" /\ lk'[k].host = m
  BY <1>1, <1>3, <1>5, KeyAssumption DEF LockOK, LockInv
<1> QED
  BY <1>4, <1>5 DEF LockOK, LockInv, AskOther

\* A command takes its own tracker's lock when it is free, or releases it.
LEMMA OwnLock ==
    ASSUME TypeOK, TypeOK', LockOK, NEW n \in Node, lock[n] \in {n, Free},
           NEW v \in {n, Free}, lock' = [lock EXCEPT ![n] = v],
           listening' = IF pc'[n] \in {"off", "leave"} THEN listening \ {n} ELSE listening,
           pc[n] \in Served, pc'[n] \notin {"jfind", "jask"},
           \A m \in Node \ {n} : pc'[m] = pc[m] /\ lk'[m] = lk[m],
           pc'[n] \in Stabilizing => v = n,
           v = n => Joined(n)'
    PROVE  LockOK'
<1>1. lock'[n] = v /\ \A m \in Node \ {n} : lock'[m] = lock[m]
  BY DEF TypeOK
<1>2. n \in listening
  BY DEF LockOK, LockInv, Served
<1>3. ASSUME NEW m \in Node
      PROVE  /\ pc'[m] \in Stabilizing => lock'[m] = m
             /\ pc'[m] = "jfind" => lk'[m].host # m /\ lock'[lk'[m].host] = m
             /\ lock'[m] = m => Joined(m)' \/ pc'[m] = "stop"
             /\ m \in listening' <=> pc'[m] \notin {"off", "leave"}
             /\ lock'[m] # Free => m \in listening'
             /\ pc'[m] = "jask" => lk'[m].host # m
  <2>1. CASE m = n
    BY <1>1, <1>2, <2>1, KeyAssumption DEF LockOK, LockInv, AskOther, Joined, Served,
       Receiving, Stabilizing, Uploading
  <2>2. CASE m # n
    <3>1. pc[m] = "jfind" => lk[m].host \in Node \ {n}
      BY <2>2, KeyAssumption DEF LockOK, LockInv, TypeOK, Lookup
    <3> QED
      BY <1>1, <2>2, <3>1 DEF LockOK, LockInv, AskOther, Joined
  <2> QED
    BY <2>1, <2>2
<1>4. ASSUME NEW m \in Node, NEW k \in Node \ {m}, lock'[m] = k
      PROVE  pc'[k] = "jfind" /\ lk'[k].host = m
  BY <1>1, <1>4, KeyAssumption DEF LockOK, LockInv, Served
<1> QED
  BY <1>3, <1>4 DEF LockOK, LockInv, AskOther

\* What QuietStep asks of a step of n.
Quiet(n) ==
    /\ lock' = lock /\ listening' = listening
    /\ pc[n] \in Served /\ pc'[n] \in Served
    /\ \A m \in Node \ {n} : pc'[m] = pc[m] /\ lk'[m] = lk[m]
    /\ pc'[n] \in Stabilizing => pc[n] \in Stabilizing
    /\ Joined(n) \/ pc[n] = "stop" => Joined(n)' \/ pc'[n] = "stop"
    /\ pc'[n] = "jask" => lk'[n].host # n

LEMMA QuietSteps ==
    ASSUME TypeOK, TypeOK', NEW n \in Node,
           \/ JoinAlone(n) \/ JoinReset(n) \/ JoinNotify(n) \/ JoinMove(n)
           \/ JoinReceive(n) \/ JoinReceiveFails(n) \/ JoinDone(n)
           \/ PingDead(n) \/ PingAlive(n) \/ NotifyNewNext(n) \/ PingDone(n)
           \/ MustRejoin(n) \/ AskPrev(n) \/ NotifyNext(n) \/ FixFinger(n)
           \/ MigrateNext(n) \/ MigrateFound(n) \/ MigrateSend(n)
           \/ (\E f \in File : Upload(n, f)) \/ UploadFound(n) \/ UploadSend(n)
           \/ Leave(n)
    PROVE  Quiet(n)
<1> USE DEF Quiet, Served, Stage, Joining, Receiving, Stabilizing, Uploading, Leaving,
            Joined, net, ring, data, TypeOK
<1>1. CASE JoinAlone(n)
  BY <1>1 DEF JoinAlone
<1>2. CASE JoinReset(n)
  BY <1>2 DEF JoinReset
<1>3. CASE JoinNotify(n)
  BY <1>3 DEF JoinNotify
<1>4. CASE JoinMove(n)
  BY <1>4 DEF JoinMove
<1>5. CASE JoinReceive(n) \/ JoinReceiveFails(n)
  BY <1>5 DEF JoinReceive, JoinReceiveFails
<1>6. CASE JoinDone(n)
  BY <1>6 DEF JoinDone
<1>7. CASE PingDead(n)
  BY <1>7 DEF PingDead
<1>8. CASE PingAlive(n)
  BY <1>8 DEF PingAlive
<1>9. CASE NotifyNewNext(n)
  BY <1>9 DEF NotifyNewNext
<1>10. CASE PingDone(n)
  BY <1>10 DEF PingDone
<1>11. CASE MustRejoin(n)
  BY <1>11 DEF MustRejoin
<1>12. CASE AskPrev(n)
  BY <1>12 DEF AskPrev
<1>13. CASE NotifyNext(n)
  BY <1>13 DEF NotifyNext
<1>14. CASE FixFinger(n)
  BY <1>14 DEF FixFinger
<1>15. CASE MigrateNext(n)
  BY <1>15 DEF MigrateNext
<1>16. CASE MigrateFound(n)
  BY <1>16 DEF MigrateFound
<1>17. CASE MigrateSend(n)
  BY <1>17 DEF MigrateSend
<1>18. CASE UploadFound(n)
  BY <1>18 DEF UploadFound
<1>19. CASE UploadSend(n)
  BY <1>19 DEF UploadSend
<1>20. CASE Leave(n)
  BY <1>20 DEF Leave
<1>21. CASE \E f \in File : Upload(n, f)
  BY <1>21 DEF Upload
<1> QED
  BY <1>1, <1>2, <1>3, <1>4, <1>5, <1>6, <1>7, <1>8, <1>9, <1>10, <1>11,
     <1>12, <1>13, <1>14, <1>15, <1>16, <1>17, <1>18, <1>19, <1>20, <1>21

LEMMA LockStep ==
    ASSUME TypeInv, TypeInv', LockOK, [Next]_vars
    PROVE  LockOK'
<1> TypeOK /\ TypeOK'
  BY DEF TypeInv
<1>1. CASE UNCHANGED vars
  BY <1>1 DEF vars, net, ring, data, LockOK, LockInv, AskOther, Joined
<1>2. ASSUME NEW n \in Node, Quiet(n) PROVE LockOK'
  BY <1>2, QuietStep DEF Quiet
<1>3. ASSUME NEW n \in Node, JoinStep(n) PROVE LockOK'
  BY <1>2, <1>3, QuietSteps, JoinAskLock, JoinFoundLock DEF JoinStep
<1>4. ASSUME NEW n \in Node, Stabilize(n) \/ StabilizeStep(n) PROVE LockOK'
  <2>1. CASE Stabilize(n)
    <3>1. /\ pc[n] = "idle" /\ lock[n] = Free /\ lock' = [lock EXCEPT ![n] = n]
          /\ pc' = [pc EXCEPT ![n] = "ping"] /\ lk' = lk /\ listening' = listening
      BY <2>1 DEF Stabilize, net
    <3>2. pc'[n] = "ping" /\ \A m \in Node \ {n} : pc'[m] = pc[m]
      BY <3>1 DEF TypeOK
    <3>3. pc[n] \in Served /\ Joined(n)'
      BY <3>1, <3>2 DEF Served, Stage, Joined, Stabilizing
    <3> QED
      BY <3>1, <3>2, <3>3, OwnLock
  <2>2. CASE StabilizeDone(n)
    <3>1. lock[n] = n
      BY <2>2 DEF StabilizeDone, LockOK, LockInv, Stabilizing
    <3> QED
      BY <2>2, <3>1, OwnLock, KeyAssumption
      DEF StabilizeDone, Served, TypeOK, Stage, Stabilizing, net
  <2>3. CASE AskPrevUnknown(n)
    BY <2>3, FailsLock DEF AskPrevUnknown, Stabilizing
  <2> QED
    BY <1>2, <1>4, <2>1, <2>2, <2>3, QuietSteps DEF StabilizeStep
<1>5. ASSUME NEW n \in Node,
             LookupHop(n) \/ LookupNext(n) \/ LookupNotFound(n) \/ RpcFails(n)
      PROVE  LockOK'
  <2>1. CASE LookupNotFound(n)
    BY <2>1, FailsLock
    DEF LookupNotFound, LookingUp, Joining, Stabilizing, Uploading
  <2>2. CASE RpcFails(n)
    BY <2>2, FailsLock DEF RpcFails, LookingUp, Joining, Stabilizing, Uploading
  <2> QED
    BY <1>5, <2>1, <2>2, LookupLock
<1>6. ASSUME NEW n \in Node, StopServer(n) PROVE LockOK'
  BY <1>6, OwnLock, KeyAssumption
  DEF StopServer, Served, TypeOK, Stage, Leaving, Stabilizing, Joined, Receiving, Uploading
<1>7. ASSUME NEW n \in Node, LeaveSend(n) PROVE LockOK'
  BY <1>7 DEF LeaveSend, LockOK, LockInv, AskOther, Joined, net
<1>8. ASSUME NEW n \in Node, LeaveDone(n) PROVE LockOK'
  BY <1>8 DEF LeaveDone, LockOK, LockInv, AskOther, Joined, net, TypeOK,
              Receiving, Stabilizing, Uploading
<1>9. ASSUME NEW n \in Node, Crash(n) PROVE LockOK'
  BY <1>9, OwnLock, KeyAssumption
  DEF Crash, Served, TypeOK, Stage, Stabilizing, Joined, Receiving, Uploading
<1>10. CASE Next
  BY <1>2, <1>3, <1>4, <1>5, <1>6, <1>7, <1>8, <1>9, <1>10, ConnectLock, QuietSteps
  DEF Next, Step, Command
<1> QED
  BY <1>1, <1>10

\* Locks are held only by the commands that use them: a stabilization holds
\* its tracker's lock, a joining tracker that of the tracker that looks its
\* successor up, and nobody holds the lock of a tracker that has stopped.
THEOREM LocksAreOwned == Spec => []LockInv
<1>1. Init => TypeInv /\ LockOK
  BY TypeInit, LockInit
<1>2. TypeInv /\ LockOK /\ [Next]_vars => TypeInv' /\ LockOK'
  BY TypeStep, LockStep
<1>3. LockOK => LockInv
  BY DEF LockOK
<1> QED
  BY <1>1, <1>2, <1>3, PTL DEF Spec

-----------------------------------------------------------------------------
\* Pointers.

\* A step that leaves successors and predecessors alone, and attaches nobody.
LEMMA PointersUntouched ==
    ASSUME TypeOK, TypeOK', PointersAreTrackers, NEW n \in Node,
           \A m \in Node : finger'[m][0] = finger[m][0],
           prev' = prev, pinit' = pinit,
           \A m \in Node \ {n} : pc'[m] = pc[m],
           n \in Attached' => n \in Attached
    PROVE  PointersAreTrackers'
<1>1. \A m \in Node : m \in Attached' => m \in Attached
  BY DEF Attached, Joined
<1> QED
  BY <1>1 DEF PointersAreTrackers, successor, Attached

\* NOTIFY makes the notifying tracker the predecessor.
LEMMA NotifyPointers ==
    ASSUME TypeOK, TypeOK', PointersAreTrackers, NEW n \in Node, NEW t \in Node,
           node_notify(t, n), finger' = finger,
           \A m \in Node \ {n} : pc'[m] = pc[m],
           n \in Attached' => n \in Attached \/ t = successor(n)
    PROVE  PointersAreTrackers'
<1>1. \A m \in Node : pinit'[m] => prev'[m] \in Node
  BY DEF PointersAreTrackers, node_notify, TypeOK
<1>2. ASSUME NEW m \in Attached' PROVE successor(m)' \in Node
  <2>1. m \in Attached \/ (m = n /\ t = successor(n))
    BY <1>2 DEF Attached, Joined
  <2> QED
    BY <2>1 DEF PointersAreTrackers, successor
<1> QED
  BY <1>1, <1>2 DEF PointersAreTrackers

\* The successor of n becomes v, a tracker.
LEMMA SuccessorPointers ==
    ASSUME TypeOK, TypeOK', PointersAreTrackers, NEW n \in Node, NEW v \in Node,
           finger' = [finger EXCEPT ![n][0] = v], prev' = prev, pinit' = pinit,
           \A m \in Node \ {n} : pc'[m] = pc[m]
    PROVE  PointersAreTrackers'
<1>1. \A m \in Node \ {n} : finger'[m] = finger[m]
  BY DEF TypeOK
<1>2. finger'[n][0] = v
  BY DEF TypeOK, Fingers
<1> QED
  BY <1>1, <1>2 DEF PointersAreTrackers, successor, Attached, Joined

LEMMA PointersStep ==
    ASSUME TypeInv, TypeInv', LockInv, PointersAreTrackers, [Next]_vars
    PROVE  PointersAreTrackers'
<1> TypeOK /\ TypeOK'
  BY DEF TypeInv
<1> USE DEF net, ring, data
<1>1. CASE UNCHANGED vars
  BY <1>1 DEF vars, PointersAreTrackers, successor, Attached, Joined
<1>2. ASSUME NEW n \in Node, Connect(n) PROVE PointersAreTrackers'
  <2>1. \A m \in Node \ {n} : /\ finger'[m] = finger[m] /\ prev'[m] = prev[m]
                             /\ pinit'[m] = pinit[m] /\ pc'[m] = pc[m]
    BY <1>2 DEF Connect, TypeOK
  <2>2. pc'[n] \in {"founder", "connected"}
    BY <1>2 DEF Connect, TypeOK
  <2>3. pinit'[n] => pinit[n] /\ prev'[n] = prev[n]
    BY <1>2 DEF Connect, TypeOK
  <2>4. n \notin Attached'
    BY <2>2 DEF Attached, Joined, Receiving, Stabilizing, Uploading
  <2> QED
    BY <2>1, <2>3, <2>4 DEF PointersAreTrackers, successor, Attached, Joined
<1>3. ASSUME NEW n \in Node, JoinStep(n) PROVE PointersAreTrackers'
  <2>1. CASE JoinAlone(n)
    <3>1. /\ \A m \in Node \ {n} : /\ finger'[m] = finger[m] /\ prev'[m] = prev[m]
                                  /\ pinit'[m] = pinit[m] /\ pc'[m] = pc[m]
          /\ finger'[n][0] = n /\ prev'[n] = n
      BY <2>1 DEF JoinAlone, TypeOK, Fingers
    <3> QED
      BY <3>1 DEF PointersAreTrackers, successor, Attached, Joined
  <2>2. CASE JoinReset(n)
    <3>1. /\ finger' = finger /\ prev' = prev /\ \A m \in Node : pinit'[m] => pinit[m]
          /\ \A m \in Node \ {n} : pc'[m] = pc[m]
          /\ pc'[n] \in {"jnotify", "jask"}
      BY <2>2 DEF JoinReset, TypeOK
    <3> QED
      BY <3>1 DEF PointersAreTrackers, successor, Attached, Joined,
                  Receiving, Stabilizing, Uploading
  <2>3. CASE JoinAsk(n)
    BY <2>3, PointersUntouched
    DEF JoinAsk, Attached, Joined, TypeOK, Receiving, Stabilizing, Uploading
  <2>4. CASE JoinFound(n)
    <3>1. /\ prev' = prev /\ pinit' = pinit
          /\ \A m \in Node \ {n} : finger'[m] = finger[m] /\ pc'[m] = pc[m]
          /\ pc'[n] = "jnotify"
      BY <2>4 DEF JoinFound, TypeOK
    <3> QED
      BY <3>1 DEF PointersAreTrackers, successor, Attached, Joined,
                  Receiving, Stabilizing, Uploading
  <2>5. CASE JoinNotify(n)
    <3>1. successor(n) \in Node
      BY <2>5 DEF JoinNotify, CanServe, TypeOK
    <3> QED
      BY <2>5, <3>1, NotifyPointers DEF JoinNotify, TypeOK
  <2>6. CASE JoinMove(n) \/ JoinReceive(n) \/ JoinReceiveFails(n) \/ JoinDone(n)
    BY <2>6, PointersUntouched
    DEF JoinMove, JoinReceive, JoinReceiveFails, JoinDone, Attached, Joined, TypeOK, Receiving
  <2> QED
    BY <1>3, <2>1, <2>2, <2>3, <2>4, <2>5, <2>6 DEF JoinStep
<1>4. ASSUME NEW n \in Node, Fails(n),
             pc[n] \in Joining \cup Stabilizing \cup Uploading
      PROVE  PointersAreTrackers'
  <2>1. pc'[n] = "idle" => pc[n] \in Stabilizing \cup Uploading
    BY <1>4 DEF Fails, TypeOK
  <2>2. pc'[n] \in {"stop", "idle"} /\ \A m \in Node \ {n} : pc'[m] = pc[m]
    BY <1>4 DEF Fails, TypeOK
  <2>3. n \in Attached' => n \in Attached
    BY <2>1, <2>2 DEF Attached, Joined, Receiving, Stabilizing, Uploading
  <2> QED
    BY <1>4, <2>2, <2>3, PointersUntouched DEF Fails
<1>5. ASSUME NEW n \in Node, Stabilize(n) \/ StabilizeStep(n) PROVE PointersAreTrackers'
  <2>1. CASE Stabilize(n) \/ PingDone(n) \/ MustRejoin(n) \/ MigrateNext(n)
             \/ MigrateFound(n) \/ MigrateSend(n) \/ StabilizeDone(n)
    BY <2>1, PointersUntouched
    DEF Stabilize, PingDone, MustRejoin, MigrateNext, MigrateFound, MigrateSend,
        StabilizeDone, Attached, Joined, TypeOK, Stabilizing, Receiving, Uploading
  <2>2. CASE PingDead(n)
    <3>1. /\ finger' = finger /\ prev' = prev /\ pc' = pc
          /\ \A m \in Node : pinit'[m] => pinit[m]
      BY <2>2 DEF PingDead, TypeOK
    <3> QED
      BY <3>1 DEF PointersAreTrackers, successor, Attached, Joined
  <2>3. CASE PingAlive(n)
    <3> DEFINE v == Contact(n, Least(Contacts(n)))
    <3>1. v \in Node
      BY <2>3 DEF PingAlive, Dead, TypeOK
    <3>2. /\ finger' = finger \/ finger' = [finger EXCEPT ![n][0] = v]
          /\ prev' = prev /\ pinit' = pinit /\ pc[n] = "ping"
          /\ pc' = pc \/ pc' = [pc EXCEPT ![n] = "newnext"]
      BY <2>3 DEF PingAlive
    <3>3. \A m \in Node \ {n} : pc'[m] = pc[m]
      BY <3>2 DEF TypeOK
    <3>4. n \in Attached
      BY <3>2 DEF Attached, Joined, Stabilizing
    <3> HIDE DEF v
    <3> QED
      BY <3>1, <3>2, <3>3, <3>4, PointersUntouched, SuccessorPointers
  <2>4. CASE NotifyNewNext(n)
    BY <2>4, NotifyPointers
    DEF NotifyNewNext, CanServe, TypeOK, Attached, Joined, Stabilizing
  <2>5. CASE AskPrev(n)
    <3> DEFINE t == successor(n)
    <3>1. t \in Node /\ prev[t] \in Node
      BY <2>5 DEF AskPrev, CanServe, TypeOK, PointersAreTrackers
    <3>2. /\ finger' = finger \/ finger' = [finger EXCEPT ![n][0] = prev[t]]
          /\ prev' = prev /\ pinit' = pinit /\ pc[n] = "ask"
          /\ pc' = [pc EXCEPT ![n] = "notify"]
      BY <2>5 DEF AskPrev
    <3>3. \A m \in Node \ {n} : pc'[m] = pc[m]
      BY <3>2 DEF TypeOK
    <3>4. n \in Attached
      BY <3>2 DEF Attached, Joined, Stabilizing
    <3> HIDE DEF t
    <3> QED
      BY <3>1, <3>2, <3>3, <3>4, PointersUntouched, SuccessorPointers
  <2>6. CASE AskPrevUnknown(n)
    BY <1>4, <2>6 DEF AskPrevUnknown, Stabilizing
  <2>7. CASE NotifyNext(n)
    BY <2>7, NotifyPointers
    DEF NotifyNext, CanServe, TypeOK, Attached, Joined, Stabilizing
  <2>8. CASE FixFinger(n)
    <3>1. FixIndex[n] # 0
      BY FingerAssumption
    <3>2. /\ finger' = [finger EXCEPT ![n][FixIndex[n]] = Answer(n)]
          /\ prev' = prev /\ pinit' = pinit /\ pc[n] = "fix"
          /\ pc' = pc \/ pc' = [pc EXCEPT ![n] = "migrate"]
      BY <2>8 DEF FixFinger
    <3>3. \A m \in Node : finger'[m][0] = finger[m][0]
      BY <3>1, <3>2 DEF TypeOK, Fingers
    <3>4. n \in Attached /\ \A m \in Node \ {n} : pc'[m] = pc[m]
      BY <3>2 DEF Attached, Joined, Stabilizing, TypeOK
    <3> QED
      BY <3>2, <3>3, <3>4, PointersUntouched
  <2> QED
    BY <1>5, <2>1, <2>2, <2>3, <2>4, <2>5, <2>6, <2>7, <2>8 DEF StabilizeStep
<1>6. ASSUME NEW n \in Node,
             LookupHop(n) \/ LookupNext(n) \/ LookupNotFound(n) \/ RpcFails(n)
      PROVE  PointersAreTrackers'
  <2>1. CASE LookupHop(n) \/ LookupNext(n)
    BY <2>1 DEF LookupHop, LookupNext, PointersAreTrackers, successor, Attached, Joined
  <2>2. CASE LookupNotFound(n)
    BY <1>4, <2>2 DEF LookupNotFound, LookingUp, Joining, Stabilizing, Uploading
  <2>3. CASE RpcFails(n)
    BY <1>4, <2>3 DEF RpcFails, LookingUp, Joining, Stabilizing, Uploading
  <2> QED
    BY <1>6, <2>1, <2>2, <2>3
<1>7. ASSUME NEW n \in Node,
             \/ \E f \in File : Upload(n, f)
             \/ UploadFound(n) \/ UploadSend(n) \/ Leave(n) \/ StopServer(n)
             \/ LeaveSend(n) \/ LeaveDone(n) \/ Crash(n)
      PROVE  PointersAreTrackers'
  <2>1. finger' = finger /\ prev' = prev /\ pinit' = pinit
    BY <1>7 DEF Upload, UploadFound, UploadSend, Leave, StopServer, LeaveSend, LeaveDone,
                Crash, ring
  <2>2. \E c \in {"ufind", "usend", "idle", "stop", "leave", "off"} :
            pc' = pc \/ pc' = [pc EXCEPT ![n] = c]
    BY <1>7 DEF Upload, UploadFound, UploadSend, Leave, StopServer, LeaveSend, LeaveDone,
                Crash
  <2>3. pc \in [Node -> Stage]
    BY DEF TypeOK
  <2>4. \A m \in Node \ {n} : pc'[m] = pc[m]
    BY <2>2, <2>3
  <2>5. pc'[n] \in {"ufind", "usend", "idle"} => pc[n] \in {"idle", "ufind", "usend"}
    BY <1>7, <2>3 DEF Upload, UploadFound, UploadSend, Leave, StopServer, LeaveSend,
                      LeaveDone, Crash
  <2>6. n \in Attached' => n \in Attached
    BY <2>2, <2>3, <2>5 DEF Attached, Joined, Receiving, Stabilizing, Uploading
  <2> QED
    BY <2>1, <2>4, <2>6, PointersUntouched
<1>8. CASE Next
  BY <1>2, <1>3, <1>5, <1>6, <1>7, <1>8 DEF Next, Step, Command
<1> QED
  BY <1>1, <1>8

\* Whatever a tracker_t held before, a tracker that has told its successor of
\* itself has a tracker as successor, and an initialized prev is a tracker.
THEOREM PointersAreSound == Spec => []PointersAreTrackers
<1>1. Init => TypeInv /\ LockOK /\ PointersAreTrackers
  <2>1. Init => PointersAreTrackers
    BY DEF Init, PointersAreTrackers, Attached, Joined, Receiving, Stabilizing, Uploading
  <2> QED
    BY <2>1, TypeInit, LockInit
<1>2. TypeInv /\ LockOK /\ PointersAreTrackers /\ [Next]_vars
         => TypeInv' /\ LockOK' /\ PointersAreTrackers'
  BY TypeStep, LockStep, PointersStep DEF LockOK
<1> QED
  BY <1>1, <1>2, PTL DEF Spec

-----------------------------------------------------------------------------
\* Torrents: a hand-over drops none, and the network of trackers implements
\* TorrentDirectory.tla.

\* What MOVE_DATA sent is on its way only while the joining tracker receives;
\* a torrent that a migration is about to send is still stored by the sender,
\* whose lock keeps the MOVE_DATA of a joining tracker out.
ReceivedByJoin == \A n \in Node : inflight[n] # {} => pc[n] = "jrecv"
SendsOwn       == \A n \in Node : pc[n] \in {"mfind", "msend"} => lk[n].id \in files[n]
CarryInv       == ReceivedByJoin /\ SendsOwn

\* Most steps of tracker n move no torrent.
Still(n) ==
    /\ files' = files /\ inflight' = inflight /\ inflight[n] = {}
    /\ \A m \in Node \ {n} : pc'[m] = pc[m] /\ lk'[m] = lk[m]
    /\ pc'[n] # "off"
    /\ pc'[n] \in {"mfind", "msend"} => lk'[n].id \in files[n]

LEMMA FailsStill ==
    ASSUME TypeOK, CarryInv, NEW n \in Node, Fails(n), pc[n] # "jrecv"
    PROVE  Still(n)
  BY DEF Still, CarryInv, ReceivedByJoin, Fails, TypeOK, data

LEMMA LookupStill ==
    ASSUME TypeOK, CarryInv, NEW n \in Node,
           LookupHop(n) \/ LookupNext(n) \/ LookupNotFound(n) \/ RpcFails(n)
    PROVE  Still(n)
<1>1. CASE LookupHop(n) \/ LookupNext(n)
  <2>1. /\ pc[n] \in LookingUp /\ pc' = pc /\ files' = files /\ inflight' = inflight
    BY <1>1 DEF LookupHop, LookupNext, data
  <2>2. PICK c, x, b : lk' = [lk EXCEPT ![n] = Moved(lk[n], c, x, b)]
    BY <1>1 DEF LookupHop, LookupNext
  <2>3. lk'[n].id = lk[n].id /\ \A m \in Node \ {n} : lk'[m] = lk[m]
    BY <2>2 DEF Moved, TypeOK
  <2> QED
    BY <2>1, <2>3 DEF Still, CarryInv, ReceivedByJoin, SendsOwn, LookingUp
<1>2. CASE LookupNotFound(n)
  BY <1>2, FailsStill DEF LookupNotFound, LookingUp
<1>3. CASE RpcFails(n)
  BY <1>3, FailsStill DEF RpcFails, LookingUp
<1> QED
  BY <1>1, <1>2, <1>3

LEMMA JoinStill ==
    ASSUME TypeOK, CarryInv, NEW n \in Node,
           \/ Connect(n) \/ JoinAlone(n) \/ JoinReset(n) \/ JoinAsk(n) \/ JoinFound(n)
           \/ JoinNotify(n) \/ JoinDone(n)
    PROVE  Still(n)
<1> USE DEF Still, CarryInv, ReceivedByJoin, TypeOK, data
<1>1. CASE Connect(n)
  <2>1. pc' = [pc EXCEPT ![n] = "founder"] \/ pc' = [pc EXCEPT ![n] = "connected"]
    BY <1>1 DEF Connect
  <2>2. lk' = lk \/ \E peer \in registered : lk' = [lk EXCEPT ![n] = Asking(n, peer)]
    BY <1>1 DEF Connect
  <2>3. pc[n] = "off" /\ files' = files /\ inflight' = inflight
    BY <1>1 DEF Connect
  <2> QED
    BY <2>1, <2>2, <2>3
<1>2. CASE JoinAlone(n)
  BY <1>2 DEF JoinAlone
<1>3. CASE JoinReset(n)
  BY <1>3 DEF JoinReset
<1>4. CASE JoinAsk(n)
  BY <1>4 DEF JoinAsk
<1>5. CASE JoinFound(n)
  BY <1>5 DEF JoinFound
<1>6. CASE JoinNotify(n)
  BY <1>6 DEF JoinNotify
<1>7. CASE JoinDone(n)
  BY <1>7 DEF JoinDone
<1> QED
  BY <1>1, <1>2, <1>3, <1>4, <1>5, <1>6, <1>7

LEMMA StabilizeStill ==
    ASSUME TypeOK, CarryInv, NEW n \in Node,
           Stabilize(n) \/ (StabilizeStep(n) /\ ~MigrateSend(n))
    PROVE  Still(n)
<1> USE DEF Still, CarryInv, ReceivedByJoin, TypeOK, data
<1>1. CASE Stabilize(n)
  BY <1>1 DEF Stabilize
<1>2. CASE PingDead(n)
  BY <1>2 DEF PingDead
<1>3. CASE PingAlive(n)
  <2>1. /\ pc[n] = "ping" /\ lk' = lk /\ files' = files /\ inflight' = inflight
        /\ pc' = pc \/ pc' = [pc EXCEPT ![n] = "newnext"]
    BY <1>3 DEF PingAlive
  <2> QED
    BY <2>1
<1>4. CASE NotifyNewNext(n)
  BY <1>4 DEF NotifyNewNext
<1>5. CASE PingDone(n)
  BY <1>5 DEF PingDone
<1>6. CASE MustRejoin(n)
  BY <1>6 DEF MustRejoin
<1>7. CASE AskPrev(n)
  BY <1>7 DEF AskPrev
<1>8. CASE AskPrevUnknown(n)
  BY <1>8, FailsStill DEF AskPrevUnknown
<1>9. CASE NotifyNext(n)
  BY <1>9 DEF NotifyNext
<1>10. CASE FixFinger(n)
  <2>1. /\ pc[n] = "fix" /\ files' = files /\ inflight' = inflight
        /\ pc' = pc \/ pc' = [pc EXCEPT ![n] = "migrate"]
    BY <1>10 DEF FixFinger
  <2>2. PICK l : lk' = [lk EXCEPT ![n] = l]
    BY <1>10 DEF FixFinger
  <2> QED
    BY <2>1, <2>2
<1>11. CASE MigrateNext(n)
  <2>1. Strays(n) \subseteq files[n]
    BY DEF Strays
  <2>2. Least(Strays(n)) \in files[n]
    BY <1>11, <2>1, LeastIn, KeyAssumption DEF MigrateNext, Key
  <2>3. lk' = [lk EXCEPT ![n] = Find(n, Least(Strays(n)))]
    BY <1>11 DEF MigrateNext
  <2>4. lk'[n].id = Least(Strays(n))
    BY <2>3 DEF Find
  <2> QED
    BY <1>11, <2>2, <2>3, <2>4 DEF MigrateNext
<1>12. CASE MigrateFound(n)
  <2>1. PICK v : lk' = [lk EXCEPT ![n] = Moved(lk[n], v, lk[n].nxt, FALSE)]
    BY <1>12 DEF MigrateFound
  <2>2. lk'[n].id = lk[n].id
    BY <2>1 DEF Moved
  <2> QED
    BY <1>12, <2>1, <2>2 DEF MigrateFound, SendsOwn
<1>13. CASE StabilizeDone(n)
  BY <1>13 DEF StabilizeDone
<1> QED
  BY <1>1, <1>2, <1>3, <1>4, <1>5, <1>6, <1>7, <1>8, <1>9, <1>10, <1>11, <1>12,
     <1>13 DEF StabilizeStep

LEMMA UploadLeaveStill ==
    ASSUME TypeOK, CarryInv, NEW n \in Node,
           \/ \E f \in File : Upload(n, f)
           \/ UploadFound(n) \/ Leave(n) \/ StopServer(n)
    PROVE  Still(n)
  BY DEF Still, CarryInv, ReceivedByJoin, TypeOK, data,
         Upload, UploadFound, Leave, StopServer

-----------------------------------------------------------------------------
\* The steps that move torrents: what they do to files and inflight.

\* n gives f, which it stores, to t.
Gives(n, t, f) ==
    /\ t \in Node /\ pc[t] # "off" /\ pc[n] \in {"msend", "leave"}
    /\ f \in files[n] /\ inflight' = inflight
    /\ Give(n, t, f)

LEMMA SendGives ==
    ASSUME TypeOK, LockInv, CarryInv, NEW n \in Node, MigrateSend(n) \/ LeaveSend(n)
    PROVE  /\ \E t \in Node, f \in File : Gives(n, t, f)
           /\ \A m \in Node \ {n} : pc'[m] = pc[m] /\ lk'[m] = lk[m]
           /\ pc'[n] \in {"migrate", "leave"}
<1>1. CASE MigrateSend(n)
  <2>1. Gives(n, lk[n].cur, lk[n].id)
    BY <1>1 DEF MigrateSend, CanServe, Gives, CarryInv, SendsOwn, LockInv, TypeOK
  <2>2. lk[n].cur \in Node /\ lk[n].id \in File
    BY <2>1 DEF Gives, TypeOK
  <2> QED
    BY <1>1, <2>1, <2>2 DEF MigrateSend, TypeOK
<1>2. CASE LeaveSend(n)
  <2>1. Least(files[n]) \in files[n]
    BY <1>2, LeastIn, KeyAssumption DEF LeaveSend, TypeOK, Key
  <2>2. Gives(n, successor(n), Least(files[n]))
    BY <1>2, <2>1 DEF LeaveSend, CanServe, Gives, LockInv, TypeOK
  <2>3. successor(n) \in Node /\ Least(files[n]) \in File
    BY <2>1, <2>2 DEF Gives, TypeOK
  <2> QED
    BY <1>2, <2>2, <2>3 DEF LeaveSend, TypeOK
<1> QED
  BY <1>1, <1>2

\* The successor t of the joining tracker n moves the torrents S of its own.
Moves(n, t, S) ==
    /\ t \in Node /\ pc[t] # "off" /\ lock[t] = Free /\ S \subseteq files[t]
    /\ pc[n] = "jmove" /\ pc' = [pc EXCEPT ![n] = "jrecv"] /\ lk' = lk
    /\ files' = [files EXCEPT ![t] = @ \ S]
    /\ inflight' = [inflight EXCEPT ![n] = S]

LEMMA JoinMoves ==
    ASSUME TypeOK, LockInv, NEW n \in Node, JoinMove(n)
    PROVE  \E t \in Node : \E S \in SUBSET File : Moves(n, t, S)
<1> DEFINE t == successor(n)
           S == {f \in files[t] : InHalfOpen(f, t, n)}
<1>1. t \in Node /\ pc[t] # "off" /\ lock[t] = Free
  BY DEF JoinMove, CanServe, LockInv, TypeOK
<1>2. S \subseteq files[t] /\ S \in SUBSET File
  BY <1>1 DEF TypeOK
<1>3. /\ pc[n] = "jmove" /\ pc' = [pc EXCEPT ![n] = "jrecv"] /\ lk' = lk
      /\ files' = [files EXCEPT ![t] = @ \ S]
      /\ inflight' = [inflight EXCEPT ![n] = S]
  BY DEF JoinMove
<1> HIDE DEF t, S
<1> QED
  BY <1>1, <1>2, <1>3 DEF Moves

\* The joining tracker n stores f, which it received.
Stores(n, f) ==
    /\ pc[n] = "jrecv" /\ f \in inflight[n] /\ pc' = pc /\ lk' = lk
    /\ inflight' = [inflight EXCEPT ![n] = @ \ {f}]
    /\ files' = [files EXCEPT ![n] = @ \cup {f}]

LEMMA ReceiveStores ==
    ASSUME TypeOK, NEW n \in Node, JoinReceive(n)
    PROVE  \E f \in File : Stores(n, f)
<1>1. Least(inflight[n]) \in inflight[n] /\ inflight[n] \subseteq File
  BY LeastIn, KeyAssumption DEF JoinReceive, TypeOK, Key
<1> QED
  BY <1>1 DEF JoinReceive, Stores

\* The joining tracker n cannot store f, which it received.
Loses(n, f) ==
    /\ pc[n] = "jrecv" /\ f \in inflight[n] /\ n \in MayNotSave
    /\ pc' = pc /\ lk' = lk /\ files' = files
    /\ inflight' = [inflight EXCEPT ![n] = @ \ {f}]

LEMMA ReceiveLoses ==
    ASSUME TypeOK, NEW n \in Node, JoinReceiveFails(n)
    PROVE  \E f \in File : Loses(n, f)
<1>1. Least(inflight[n]) \in inflight[n] /\ inflight[n] \subseteq File
  BY LeastIn, KeyAssumption DEF JoinReceiveFails, TypeOK, Key
<1> QED
  BY <1>1 DEF JoinReceiveFails, Loses

\* A user's torrent f reaches t.
Uploads(n, t, f) ==
    /\ t \in Node /\ pc[t] # "off" /\ pc[n] = "usend"
    /\ pc' = [pc EXCEPT ![n] = "idle"] /\ \A m \in Node \ {n} : lk'[m] = lk[m]
    /\ files' = [files EXCEPT ![t] = @ \cup {f}] /\ inflight' = inflight

LEMMA SendUploads ==
    ASSUME TypeInv, LockInv, NEW n \in Node, UploadSend(n)
    PROVE  \E t \in Node, f \in File : Uploads(n, t, f)
<1>1. lk[n].cur \in Node /\ pc[lk[n].cur] # "off" /\ lk[n].id \in File
  BY DEF UploadSend, CanServe, LockInv, TypeInv, TypeOK, SendsTorrents
<1>2. Uploads(n, lk[n].cur, lk[n].id)
  BY <1>1 DEF UploadSend, Uploads, TypeInv, TypeOK
<1> QED
  BY <1>1, <1>2

\* n stops or dies with what it stores.
Departs(n) ==
    /\ pc[n] \in {"leave", "idle"} /\ pc' = [pc EXCEPT ![n] = "off"] /\ lk' = lk
    /\ files' = [files EXCEPT ![n] = {}] /\ inflight' = inflight

LEMMA StopDeparts ==
    ASSUME NEW n \in Node, LeaveDone(n) \/ Crash(n)
    PROVE  Departs(n)
  BY DEF LeaveDone, Crash, Departs

\* Every step is one of these.
LEMMA StepCases ==
    ASSUME TypeInv, LockInv, CarryInv, NEW n \in Node, Step(n) \/ Command(n) \/ Crash(n)
    PROVE  \/ Still(n)
           \/ MigrateSend(n) \/ LeaveSend(n)
           \/ \E t \in Node : \E S \in SUBSET File : Moves(n, t, S)
           \/ \E f \in File : Stores(n, f) \/ Loses(n, f)
           \/ \E t \in Node, f \in File : Uploads(n, t, f)
           \/ Departs(n)
<1>1. TypeOK
  BY DEF TypeInv
<1>2. CASE JoinStep(n)
  BY <1>1, <1>2, JoinStill, JoinMoves, ReceiveStores, ReceiveLoses DEF JoinStep
<1>3. CASE StabilizeStep(n)
  BY <1>1, <1>3, StabilizeStill
<1>4. CASE LookupHop(n) \/ LookupNext(n) \/ LookupNotFound(n) \/ RpcFails(n)
  BY <1>1, <1>4, LookupStill
<1>5. CASE UploadFound(n) \/ StopServer(n)
  BY <1>1, <1>5, UploadLeaveStill
<1>6. CASE UploadSend(n)
  BY <1>6, SendUploads
<1>7. CASE LeaveDone(n) \/ Crash(n)
  BY <1>7, StopDeparts
<1>8. CASE Command(n)
  BY <1>1, <1>8, JoinStill, StabilizeStill, UploadLeaveStill DEF Command
<1> QED
  BY <1>2, <1>3, <1>4, <1>5, <1>6, <1>7, <1>8 DEF Step

-----------------------------------------------------------------------------
\* The invariant.

LEMMA CarryInit == Init => CarryInv
  BY DEF Init, CarryInv, ReceivedByJoin, SendsOwn

LEMMA CarryStep ==
    ASSUME TypeInv, TypeInv', LockInv, CarryInv, [Next]_vars
    PROVE  CarryInv'
<1> TypeOK /\ TypeOK'
  BY DEF TypeInv
<1>1. CASE UNCHANGED vars
  BY <1>1 DEF vars, data, CarryInv, ReceivedByJoin, SendsOwn
<1>2. ASSUME NEW n \in Node, Still(n) PROVE CarryInv'
  BY <1>2 DEF Still, CarryInv, ReceivedByJoin, SendsOwn
<1>3. ASSUME NEW n \in Node, MigrateSend(n) \/ LeaveSend(n) PROVE CarryInv'
  <2>1. PICK t \in Node, f \in File : Gives(n, t, f)
    BY <1>3, SendGives
  <2>2. /\ \A m \in Node \ {n} : pc'[m] = pc[m] /\ lk'[m] = lk[m]
        /\ pc'[n] \in {"migrate", "leave"}
    BY <1>3, SendGives
  <2>3. \A m \in Node \ {n} : files[m] \subseteq files'[m]
    BY <2>1 DEF Gives, Give, TypeOK
  <2> QED
    BY <2>1, <2>2, <2>3 DEF Gives, CarryInv, ReceivedByJoin, SendsOwn
<1>4. ASSUME NEW n \in Node, NEW t \in Node, NEW S \in SUBSET File, Moves(n, t, S)
      PROVE  CarryInv'
  \* The tracker that gives holds no lock, so it is not migrating.
  <2>1. pc[t] \notin {"mfind", "msend"}
    BY <1>4, KeyAssumption DEF Moves, LockInv, Stabilizing
  <2>2. /\ \A m \in Node \ {t} : files'[m] = files[m]
        /\ \A m \in Node \ {n} : pc'[m] = pc[m] /\ inflight'[m] = inflight[m]
        /\ pc'[n] = "jrecv" /\ lk' = lk
    BY <1>4 DEF Moves, TypeOK
  <2> QED
    BY <1>4, <2>1, <2>2 DEF CarryInv, ReceivedByJoin, SendsOwn
<1>5. ASSUME NEW n \in Node, NEW f \in File, Stores(n, f) \/ Loses(n, f)
      PROVE  CarryInv'
  BY <1>5 DEF Stores, Loses, CarryInv, ReceivedByJoin, SendsOwn, TypeOK
<1>6. ASSUME NEW n \in Node, NEW t \in Node, NEW f \in File, Uploads(n, t, f)
      PROVE  CarryInv'
  BY <1>6 DEF Uploads, CarryInv, ReceivedByJoin, SendsOwn, TypeOK
<1>7. ASSUME NEW n \in Node, Departs(n) PROVE CarryInv'
  BY <1>7 DEF Departs, CarryInv, ReceivedByJoin, SendsOwn, TypeOK
<1>8. CASE Next
  BY <1>2, <1>3, <1>4, <1>5, <1>6, <1>7, <1>8, StepCases DEF Next
<1> QED
  BY <1>1, <1>8

\* Everything the theorems below rest on is invariant together.
TorrentInv == TypeInv /\ LockOK /\ CarryInv

LEMMA TorrentInvariant == Spec => []TorrentInv
<1>1. Init => TorrentInv
  BY TypeInit, LockInit, CarryInit DEF TorrentInv
<1>2. TorrentInv /\ [Next]_vars => TorrentInv'
  BY TypeStep, LockStep, CarryStep DEF TorrentInv, LockOK
<1> QED
  BY <1>1, <1>2, PTL DEF Spec

-----------------------------------------------------------------------------
\* Nothing is dropped.

Kept == \A f \in Stored \ Stored' :
            \E n \in Node :
                \/ /\ f \in files[n]
                   /\ pc[n] \in {"leave", "idle"} /\ pc'[n] = "off"
                \/ f \in inflight[n] /\ n \in MayNotSave

LEMMA KeptStep ==
    ASSUME TorrentInv, [Next]_vars
    PROVE  Kept
<1> TypeOK /\ TypeInv /\ LockInv /\ CarryInv
  BY DEF TorrentInv, TypeInv, LockOK
<1>1. ASSUME Stored \subseteq Stored' PROVE Kept
  BY <1>1 DEF Kept
<1>2. CASE UNCHANGED vars
  BY <1>1, <1>2 DEF vars, data, Stored
<1>3. ASSUME NEW n \in Node, Still(n) PROVE Kept
  BY <1>1, <1>3 DEF Still, Stored
<1>4. ASSUME NEW n \in Node, MigrateSend(n) \/ LeaveSend(n) PROVE Kept
  <2>1. PICK t \in Node, f \in File : Gives(n, t, f)
    BY <1>4, SendGives
  <2>2. /\ \A m \in Node : files[m] \subseteq files'[m] \cup {f}
        /\ f \in files'[t] /\ inflight' = inflight
    BY <2>1 DEF Gives, Give, TypeOK
  <2> QED
    BY <1>1, <2>2 DEF Stored
<1>5. ASSUME NEW n \in Node, NEW t \in Node, NEW S \in SUBSET File, Moves(n, t, S)
      PROVE  Kept
  <2>1. /\ \A m \in Node : files[m] \subseteq files'[m] \cup S
        /\ \A m \in Node : inflight[m] \subseteq inflight'[m]
        /\ inflight'[n] = S
    BY <1>5 DEF Moves, TypeOK, CarryInv, ReceivedByJoin
  <2> QED
    BY <1>1, <2>1 DEF Stored
<1>6. ASSUME NEW n \in Node, NEW f \in File, Stores(n, f) PROVE Kept
  <2>1. /\ \A m \in Node : files[m] \subseteq files'[m]
        /\ \A m \in Node : inflight[m] \subseteq inflight'[m] \cup {f}
        /\ f \in files'[n]
    BY <1>6 DEF Stores, TypeOK
  <2> QED
    BY <1>1, <2>1 DEF Stored
<1>7. ASSUME NEW n \in Node, NEW t \in Node, NEW f \in File, Uploads(n, t, f)
      PROVE  Kept
  <2>1. inflight' = inflight /\ \A m \in Node : files[m] \subseteq files'[m]
    BY <1>7 DEF Uploads, TypeOK
  <2> QED
    BY <1>1, <2>1 DEF Stored
<1>8. ASSUME NEW n \in Node, Departs(n) PROVE Kept
  <2>1. /\ inflight' = inflight /\ pc[n] \in {"leave", "idle"} /\ pc'[n] = "off"
        /\ \A m \in Node \ {n} : files'[m] = files[m]
    BY <1>8 DEF Departs, TypeOK
  <2> QED
    BY <2>1 DEF Stored, Kept
<1>9. ASSUME NEW n \in Node, NEW f \in File, Loses(n, f) PROVE Kept
  <2>1. /\ f \in inflight[n] /\ n \in MayNotSave /\ files' = files
        /\ \A m \in Node : inflight[m] \subseteq inflight'[m] \cup {f}
    BY <1>9 DEF Loses, TypeOK
  <2>2. Stored \subseteq Stored' \cup {f}
    BY <2>1 DEF Stored
  <2> QED
    BY <2>1, <2>2 DEF Kept
<1>10. CASE Next
  BY <1>3, <1>4, <1>5, <1>6, <1>7, <1>8, <1>9, <1>10, StepCases DEF Next
<1> QED
  BY <1>2, <1>10

\* A torrent leaves the network only with a tracker that stops or dies while
\* storing it, or with a joining one that cannot save it: MOVE_DATA, migration
\* and leaving drop none otherwise.
THEOREM TorrentsAreKept == Spec => TorrentsKept
<1>1. TorrentInv /\ [Next]_vars
        => [\A f \in Stored \ Stored' :
               \E n \in Node :
                   \/ /\ f \in files[n]
                      /\ pc[n] \in {"leave", "idle"} /\ pc'[n] = "off"
                   \/ f \in inflight[n] /\ n \in MayNotSave]_vars
  BY KeptStep DEF Kept
<1> QED
  BY <1>1, TorrentInvariant, PTL DEF Spec, TorrentsKept

-----------------------------------------------------------------------------
\* The directory.

LEMMA DirectoryInit == Init => Directory!Init
  BY DEF Init, Directory!Init, Running, Holding

LEMMA DirectoryStep ==
    ASSUME TorrentInv, [Next]_vars
    PROVE  [Directory!Next]_<<Running, Holding>>
<1> TypeOK /\ TypeInv /\ LockInv /\ CarryInv
  BY DEF TorrentInv, TypeInv, LockOK
<1> DEFINE Goal == Directory!Next
<1>1. CASE UNCHANGED vars
  BY <1>1 DEF vars, data, Running, Holding
<1>2. ASSUME NEW n \in Node, Still(n) PROVE Goal
  <2>1. Running' = Running \cup {n} /\ Holding' = Holding
    BY <1>2 DEF Still, Running, Holding
  <2> QED
    BY <2>1 DEF Directory!Next, Directory!Start
<1>3. ASSUME NEW n \in Node, MigrateSend(n) \/ LeaveSend(n) PROVE Goal
  <2>1. PICK t \in Node, f \in File : Gives(n, t, f)
    BY <1>3, SendGives
  <2>2. Running' = Running /\ n \in Running /\ t \in Running
    BY <1>3, <2>1, SendGives DEF Running, Gives
  <2>3. f \in Holding[n]
    BY <2>1 DEF Gives, Holding
  <2>4. inflight[n] = {}
    BY <2>1 DEF Gives, CarryInv, ReceivedByJoin
  <2>5. Holding' = [Holding EXCEPT ![n] = @ \ {f}, ![t] = @ \cup {f}]
    BY <2>1, <2>4 DEF Gives, Give, Holding, TypeOK
  <2>6. Directory!HandOver(n, t, {f}, {f})
    BY <2>2, <2>3, <2>5 DEF Directory!HandOver
  <2> QED
    BY <2>6 DEF Directory!Next
<1>4. ASSUME NEW n \in Node, NEW t \in Node, NEW S \in SUBSET File, Moves(n, t, S)
      PROVE  Goal
  <2> DEFINE R == S \ inflight[t]
  <2>1. Running' = Running /\ n \in Running /\ t \in Running
    BY <1>4 DEF Running, Moves, TypeOK
  <2>2. S \subseteq Holding[t] /\ R \subseteq S
    BY <1>4 DEF Moves, Holding
  <2>3. inflight[n] = {}
    BY <1>4 DEF Moves, CarryInv, ReceivedByJoin
  <2>4. Holding' = [Holding EXCEPT ![t] = @ \ R, ![n] = @ \cup S]
    <3> DEFINE H(m) == IF m = n THEN Holding[n] \cup S
                      ELSE IF m = t THEN Holding[t] \ R ELSE Holding[m]
    <3>1. Holding' = [m \in Node |-> Holding'[m]]
      BY DEF Holding
    <3>2. ASSUME NEW m \in Node PROVE Holding'[m] = H(m)
      BY <1>4, <2>3 DEF Moves, Holding, TypeOK
    <3>3. [Holding EXCEPT ![t] = @ \ R, ![n] = @ \cup S] = [m \in Node |-> H(m)]
      BY <2>2 DEF Holding
    <3> QED
      BY <3>1, <3>2, <3>3
  <2>5. Directory!HandOver(t, n, S, R)
    BY <2>1, <2>2, <2>4 DEF Directory!HandOver
  <2> QED
    BY <2>2, <2>5 DEF Directory!Next
<1>5. ASSUME NEW n \in Node, NEW f \in File, Stores(n, f)
      PROVE  UNCHANGED <<Running, Holding>>
  BY <1>5 DEF Stores, Running, Holding, TypeOK
<1>6. ASSUME NEW n \in Node, NEW t \in Node, NEW f \in File, Uploads(n, t, f)
      PROVE  Goal
  <2>1. Running' = Running /\ t \in Running
    BY <1>6 DEF Uploads, Running, TypeOK
  <2>2. Holding' = [Holding EXCEPT ![t] = @ \cup {f}]
    BY <1>6 DEF Uploads, Holding, TypeOK
  <2> QED
    BY <2>1, <2>2 DEF Directory!Next, Directory!Publish
<1>7. ASSUME NEW n \in Node, Departs(n) PROVE Goal
  <2>1. n \in Running /\ Running' = Running \ {n}
    BY <1>7 DEF Departs, Running, TypeOK
  <2>2. inflight[n] = {}
    BY <1>7 DEF Departs, CarryInv, ReceivedByJoin
  <2>3. Holding' = [Holding EXCEPT ![n] = {}]
    BY <1>7, <2>2 DEF Departs, Holding, TypeOK
  <2> QED
    BY <2>1, <2>3 DEF Directory!Next, Directory!Depart
<1>8. ASSUME NEW n \in Node, NEW f \in File, Loses(n, f)
      PROVE  Goal \/ UNCHANGED <<Running, Holding>>
  <2>1. Running' = Running /\ n \in Running /\ n \in MayNotSave
    BY <1>8 DEF Loses, Running
  <2>2. Holding' = [Holding EXCEPT ![n] = files[n] \cup (inflight[n] \ {f})]
    BY <1>8 DEF Loses, Holding, TypeOK
  <2>3. CASE f \in files[n]
    <3>1. files[n] \cup (inflight[n] \ {f}) = Holding[n]
      BY <1>8, <2>3 DEF Loses, Holding
    <3>2. Holding' = Holding
      BY <2>2, <3>1 DEF Holding
    <3> QED
      BY <2>1, <3>2
  <2>4. CASE f \notin files[n]
    <3>1. files[n] \cup (inflight[n] \ {f}) = Holding[n] \ {f}
      BY <1>8, <2>4 DEF Loses, Holding
    <3>2. Directory!Lose(n, f)
      BY <2>1, <2>2, <3>1 DEF Directory!Lose
    <3> QED
      BY <3>2 DEF Directory!Next
  <2> QED
    BY <2>3, <2>4
<1>9. CASE Next
  <2> HIDE DEF Goal
  <2>1. Goal \/ UNCHANGED <<Running, Holding>>
    BY <1>2, <1>3, <1>4, <1>5, <1>6, <1>7, <1>8, <1>9, StepCases DEF Next
  <2> QED
    BY <2>1 DEF Goal
<1> QED
  BY <1>1, <1>9

\* The network of trackers implements the directory: a torrent that was
\* uploaded is handed from tracker to tracker until one stops or dies with it,
\* or joins and cannot save it.
THEOREM TrackersImplementDirectory == Spec => ImplementsDirectory
<1>1. TorrentInv /\ [Next]_vars => [Directory!Next]_<<Running, Holding>>
  BY DirectoryStep
<1> QED
  BY <1>1, DirectoryInit, TorrentInvariant, PTL
  DEF Spec, ImplementsDirectory, Directory!Spec

-----------------------------------------------------------------------------
\* The ring: the trackers form one ring, their successor pointers only improve,
\* and a lookup on a ring whose pointers are right finds the tracker that owns
\* the key.
USE KeyAssumption, FingerAssumption

-----------------------------------------------------------------------------
\* Paths clockwise.

\* Steps clockwise from x to t.
Steps(x, t) == Gap(x, t, KeySpace)

LEMMA StepsAreCounted ==
    ASSUME NEW x \in Key, NEW t \in Key
    PROVE  /\ Steps(x, t) \in Nat /\ Steps(x, t) < KeySpace
           /\ Steps(x, t) = 0 <=> x = t
  BY DEF Steps, Gap, Key

LEMMA StepsTellApart ==
    ASSUME NEW x \in Key, NEW y \in Key, NEW t \in Key, Steps(x, t) = Steps(y, t)
    PROVE  x = y
  BY DEF Steps, Gap, Key

\* From a past b to t: what is met between a and b is as far from t as from b
\* and from b to t together.
LEMMA StepsAdd ==
    ASSUME NEW a \in Key, NEW b \in Key, NEW t \in Key, NEW x \in Key,
           Steps(b, t) < Steps(a, t), Steps(x, b) <= Steps(a, b)
    PROVE  Steps(x, t) = Steps(x, b) + Steps(b, t)
  BY DEF Steps, Gap, Key

\* P holds what a walk along f meets from p to t: every step leads to the next
\* of P, and P holds nothing beyond p.
Path(f, P, p, t) ==
    /\ P \subseteq Node /\ p \in P /\ t \in P
    /\ \A x \in P : Steps(x, t) <= Steps(p, t)
    /\ \A x \in P \ {t} :
           /\ f[x] \in P /\ Steps(f[x], t) < Steps(x, t)
           /\ \A y \in P : Steps(y, t) < Steps(x, t) => Steps(y, t) <= Steps(f[x], t)

\* Only the steps from trackers of P matter.
LEMMA PathKept ==
    ASSUME NEW f, NEW g, NEW P, NEW p, NEW t, Path(f, P, p, t),
           \A x \in P \ {t} : g[x] = f[x]
    PROVE  Path(g, P, p, t)
  BY DEF Path

\* A set that holds the start of a path, and whatever a step of the path
\* leads to from it, holds the path.
LEMMA PathFollowed ==
    ASSUME NEW f, NEW P, NEW p, NEW t, Path(f, P, p, t),
           NEW S, p \in S, \A x \in S \cap P : x # t => f[x] \in S
    PROVE  P \subseteq S
<1> P \subseteq Node /\ p \in P /\ t \in P /\ Node \subseteq Key
  BY DEF Path
<1> SUFFICES ASSUME P \ S # {} PROVE FALSE
  OBVIOUS
<1>1. PICK x \in P \ S : \A y \in P \ S : Steps(y, t) <= Steps(x, t)
  <2> DEFINE M == {KeySpace - Steps(y, t) : y \in P \ S}
  <2>1. M \in SUBSET Nat /\ M # {}
    BY StepsAreCounted
  <2>2. PICK m \in M : \A i \in M : m <= i
    BY <2>1, LeastExists
  <2>3. PICK x \in P \ S : m = KeySpace - Steps(x, t)
    BY <2>2
  <2>4. \A y \in P \ S : KeySpace - Steps(x, t) <= KeySpace - Steps(y, t)
    BY <2>2, <2>3
  <2>5. \A y \in P \ S : Steps(y, t) <= Steps(x, t)
    BY <2>4, StepsAreCounted
  <2> QED
    BY <2>5
<1>2. Steps(x, t) < Steps(p, t)
  <2>1. x # p /\ Steps(x, t) <= Steps(p, t)
    BY DEF Path
  <2> QED
    BY <2>1, StepsTellApart, StepsAreCounted
<1>3. PICK z \in P : /\ Steps(x, t) < Steps(z, t)
                     /\ \A y \in P : Steps(x, t) < Steps(y, t) => Steps(z, t) <= Steps(y, t)
  <2> DEFINE M == {Steps(y, t) : y \in {y \in P : Steps(x, t) < Steps(y, t)}}
  <2>1. M \in SUBSET Nat /\ M # {}
    BY <1>2, StepsAreCounted
  <2>2. PICK m \in M : \A i \in M : m <= i
    BY <2>1, LeastExists
  <2>3. PICK z \in P : m = Steps(z, t) /\ Steps(x, t) < Steps(z, t)
    BY <2>2
  <2> QED
    BY <2>2, <2>3
<1>4. z \in S /\ z # t
  BY <1>1, <1>3, StepsAreCounted
<1>5. f[z] \in P /\ Steps(f[z], t) < Steps(z, t) /\ Steps(x, t) <= Steps(f[z], t)
  BY <1>3, <1>4 DEF Path
<1>6. Steps(f[z], t) <= Steps(x, t)
  BY <1>3, <1>5, StepsAreCounted
<1>7. f[z] = x
  BY <1>5, <1>6, StepsAreCounted, StepsTellApart
<1> QED
  BY <1>4, <1>7

\* Where a path goes from a to b, it may go from a to c and along a path from
\* c to b instead.
LEMMA PathSpliced ==
    ASSUME NEW f, NEW P, NEW p \in Key, NEW t \in Key, Path(f, P, p, t),
           NEW a \in P \ {t}, NEW c \in Key, NEW Q, Path(f, Q, c, f[a]),
           Steps(c, f[a]) < Steps(a, f[a]), c # f[a],
           NEW g, g[a] = c, \A x \in (P \cup Q) \ {a} : g[x] = f[x]
    PROVE  Path(g, P \cup Q, p, t)
<1> DEFINE b == f[a]
<1>1. /\ P \subseteq Node /\ Q \subseteq Node /\ Node \subseteq Key
      /\ a \in Key /\ b \in Key /\ b \in P /\ c \in Q /\ b \in Q
  BY DEF Path
<1>2. /\ Steps(b, t) < Steps(a, t)
      /\ \A y \in P : Steps(y, t) < Steps(a, t) => Steps(y, t) <= Steps(b, t)
  BY DEF Path
<1>3. \A x \in Q : Steps(x, b) <= Steps(c, b)
  BY DEF Path
<1>4. \A x \in Q \cup {a} : Steps(x, t) = Steps(x, b) + Steps(b, t)
  <2>1. ASSUME NEW x \in Q \cup {a} PROVE Steps(x, t) = Steps(x, b) + Steps(b, t)
    <3>1. x \in Key /\ Steps(x, b) <= Steps(a, b)
      BY <1>1, <1>3, StepsAreCounted
    <3> QED
      BY <1>1, <1>2, <3>1, StepsAdd
  <2> QED
    BY <2>1
<1>5. \A x \in P \cup Q : Steps(x, t) \in Nat /\ Steps(x, b) \in Nat
  BY <1>1, StepsAreCounted
<1>b. Steps(c, b) < Steps(a, b) /\ g[a] = c /\ c # b
  OBVIOUS
<1> HIDE DEF b
\* Beyond b, the new piece lies strictly between a and b, where P has nothing.
<1>6. ASSUME NEW x \in Q \ {b}
      PROVE  Steps(b, t) < Steps(x, t) /\ Steps(x, t) < Steps(a, t) /\ x # a /\ x \notin P
  <2>1. Steps(x, b) # 0
    BY <1>1, <1>6, StepsAreCounted
  <2>2. /\ Steps(x, t) = Steps(x, b) + Steps(b, t)
        /\ Steps(a, t) = Steps(a, b) + Steps(b, t)
        /\ Steps(x, b) <= Steps(c, b)
    BY <1>3, <1>4
  <2>3. /\ Steps(x, b) \in Nat /\ Steps(b, t) \in Nat /\ Steps(a, b) \in Nat
        /\ Steps(c, b) \in Nat
    BY <1>1, <1>5
  <2>4. Steps(b, t) < Steps(x, t) /\ Steps(x, t) < Steps(a, t)
    BY <1>b, <2>1, <2>2, <2>3
  <2> QED
    BY <1>1, <1>2, <1>5, <2>3, <2>4
<1>7. \A x \in P \cup Q : Steps(x, t) <= Steps(p, t)
  <2>1. \A x \in P : Steps(x, t) <= Steps(p, t)
    BY DEF Path
  <2>2. \A x \in Q : x \in P \/ Steps(x, t) < Steps(a, t)
    BY <1>1, <1>6
  <2> QED
    BY <1>1, <1>5, <2>1, <2>2, StepsAreCounted
<1>8. ASSUME NEW x \in (P \cup Q) \ {t}
      PROVE  /\ g[x] \in P \cup Q /\ Steps(g[x], t) < Steps(x, t)
             /\ \A y \in P \cup Q : Steps(y, t) < Steps(x, t) => Steps(y, t) <= Steps(g[x], t)
  <2>1. CASE x = a
    <3>1. g[x] \in Q /\ Steps(c, t) < Steps(a, t) /\ Steps(b, t) <= Steps(c, t)
      BY <1>b, <1>1, <1>4, <1>5, <1>6, <2>1
    <3>2. \A y \in Q : Steps(y, t) <= Steps(c, t)
      BY <1>1, <1>3, <1>4, <1>5
    <3> QED
      BY <1>1, <1>2, <1>5, <2>1, <3>1, <3>2
  <2>2. CASE x \in P /\ x # a
    <3>1. /\ f[x] \in P /\ Steps(f[x], t) < Steps(x, t)
          /\ \A y \in P : Steps(y, t) < Steps(x, t) => Steps(y, t) <= Steps(f[x], t)
      BY <1>8, <2>2 DEF Path
    <3>2. ASSUME NEW y \in Q \ {b}, Steps(y, t) < Steps(x, t)
          PROVE  Steps(y, t) <= Steps(f[x], t)
      <4>1. CASE Steps(a, t) < Steps(x, t)
        BY <1>1, <1>5, <1>6, <3>1, <3>2, <4>1
      <4>2. CASE Steps(x, t) < Steps(a, t)
        <5>1. Steps(x, t) <= Steps(b, t) /\ Steps(b, t) < Steps(y, t)
          BY <1>2, <1>6, <2>2, <4>2
        <5>2. Steps(x, t) \in Nat /\ Steps(b, t) \in Nat /\ Steps(y, t) \in Nat
          BY <1>1, <1>5, <2>2
        <5> QED
          BY <3>2, <5>1, <5>2
      <4>3. Steps(x, t) # Steps(a, t)
        BY <1>1, <2>2, StepsTellApart
      <4>4. Steps(x, t) \in Nat /\ Steps(a, t) \in Nat
        BY <1>5, <2>2
      <4> QED
        BY <4>1, <4>2, <4>3, <4>4
    <3> QED
      BY <1>1, <2>2, <3>1, <3>2
  <2>3. CASE x \in Q \ P
    <3>1. x # b /\ x # a
      BY <1>1, <2>3
    <3>2. /\ f[x] \in Q /\ Steps(f[x], b) < Steps(x, b)
          /\ \A y \in Q : Steps(y, b) < Steps(x, b) => Steps(y, b) <= Steps(f[x], b)
      BY <2>3, <3>1 DEF Path, b
    <3>3. Steps(b, t) <= Steps(f[x], t) /\ Steps(f[x], t) < Steps(x, t)
      BY <1>1, <1>4, <1>5, <2>3, <3>2
    <3>4. ASSUME NEW y \in Q, Steps(y, t) < Steps(x, t)
          PROVE  Steps(y, t) <= Steps(f[x], t)
      <4>1. /\ Steps(x, t) = Steps(x, b) + Steps(b, t)
            /\ Steps(y, t) = Steps(y, b) + Steps(b, t)
            /\ Steps(f[x], t) = Steps(f[x], b) + Steps(b, t)
        BY <1>4, <2>3, <3>2
      <4>2. /\ Steps(x, b) \in Nat /\ Steps(y, b) \in Nat /\ Steps(f[x], b) \in Nat
            /\ Steps(b, t) \in Nat
        BY <1>1, <1>5, <2>3, <3>2
      <4>3. Steps(y, b) < Steps(x, b)
        BY <3>4, <4>1, <4>2
      <4>4. Steps(y, b) <= Steps(f[x], b)
        BY <3>2, <4>3
      <4> QED
        BY <4>1, <4>2, <4>4
    <3>5. ASSUME NEW y \in P, Steps(y, t) < Steps(x, t)
          PROVE  Steps(y, t) <= Steps(f[x], t)
      <4>1. Steps(y, t) < Steps(a, t)
        <5>1. Steps(x, t) < Steps(a, t)
          BY <1>6, <2>3, <3>1
        <5>2. Steps(y, t) \in Nat /\ Steps(x, t) \in Nat /\ Steps(a, t) \in Nat
          BY <1>5, <2>3, <3>5
        <5> QED
          BY <3>5, <5>1, <5>2
      <4> QED
        BY <1>1, <1>2, <1>5, <3>2, <3>3, <4>1
    <3> QED
      BY <2>3, <3>1, <3>2, <3>3, <3>4, <3>5
  <2> QED
    BY <2>1, <2>2, <2>3
<1> QED
  <2>1. p \in P /\ t \in P
    BY DEF Path
  <2> QED
    BY <1>1, <1>7, <1>8, <2>1 DEF Path

\* A full turn counts from a to itself: the arc from a to b.
Arc(a, b) == Walk(a, b, KeySpace)

LEMMA ArcType ==
    ASSUME NEW a \in Key, NEW b \in Key
    PROVE  Arc(a, b) \in Nat /\ 0 < Arc(a, b) /\ Arc(a, b) <= Arc(a, a)
  BY DEF Arc, Walk, Key

\* x lies between c and b, and c between a and b.
LEMMA ArcSplit ==
    ASSUME NEW a \in Key, NEW b \in Key, NEW c \in Key, NEW x \in Key,
           Arc(a, c) < Arc(a, b), Steps(x, b) <= Steps(c, b)
    PROVE  Arc(a, c) <= Arc(a, x) /\ Arc(a, x) + Steps(x, b) = Arc(a, b)
  BY DEF Arc, Walk, Steps, Gap, Key

\* y lies between a and x, or x between a and b, which y does not.
LEMMA ArcAround ==
    ASSUME NEW a \in Key, NEW b \in Key, NEW x \in Key, NEW y \in Key
    PROVE  /\ x # a /\ Arc(a, y) < Arc(a, x) => Arc(x, a) < Arc(x, y)
           /\ Arc(a, x) < Arc(a, b) /\ Arc(a, b) <= Arc(a, y)
                  => Steps(x, b) <= Arc(x, y)
  BY DEF Arc, Walk, Steps, Gap, Key

\* s is the first of s and y on the way from x to b.
LEMMA ArcOnPath ==
    ASSUME NEW x \in Key, NEW s \in Key, NEW y \in Key, NEW b \in Key,
           Steps(s, b) < Steps(x, b)
    PROVE  /\ Arc(x, s) <= Steps(x, b)
           /\ (Steps(y, b) < Steps(x, b) => Steps(y, b) <= Steps(s, b))
                  => Arc(x, s) <= Arc(x, y)
  BY DEF Arc, Walk, Steps, Gap, Key

\* f leads from every tracker of R to the next one, once around the circle.
Circle(f, R) ==
    /\ R \subseteq Node /\ R # {}
    /\ \A x \in R : f[x] \in R /\ \A y \in R : Arc(x, f[x]) <= Arc(x, y)

\* A circle that goes from a to b may go from a to c and along a path from c
\* to b instead.
LEMMA CircleSpliced ==
    ASSUME NEW f, NEW R, Circle(f, R),
           NEW a \in R, NEW c \in Key, NEW Q, Path(f, Q, c, f[a]),
           Arc(a, c) < Arc(a, f[a]),
           NEW g, g[a] = c, \A x \in (R \cup Q) \ {a} : g[x] = f[x]
    PROVE  Circle(g, R \cup Q)
<1> DEFINE b == f[a]
<1>1. /\ R \subseteq Node /\ Q \subseteq Node /\ Node \subseteq Key
      /\ a \in Key /\ b \in Key /\ b \in R /\ c \in Q /\ b \in Q
  BY DEF Path, Circle
<1>2. \A y \in R : Arc(a, b) <= Arc(a, y)
  BY DEF Circle
<1>3. Arc(a, c) < Arc(a, b) /\ g[a] = c
  OBVIOUS
<1>4. ASSUME NEW x \in Q \ {b}
      PROVE  /\ f[x] \in Q /\ Steps(f[x], b) < Steps(x, b)
             /\ \A y \in Q : Steps(y, b) < Steps(x, b) => Steps(y, b) <= Steps(f[x], b)
  BY <1>4 DEF Path
<1>5. ASSUME NEW x \in Q
      PROVE  Arc(a, c) <= Arc(a, x) /\ Arc(a, x) + Steps(x, b) = Arc(a, b)
  <2>1. x \in Key /\ Steps(x, b) <= Steps(c, b)
    BY <1>1 DEF Path
  <2> QED
    BY <1>1, <1>3, <2>1, ArcSplit
<1> HIDE DEF b
\* Beyond b, the new piece lies strictly between a and b, where R has nothing.
<1>6. ASSUME NEW x \in Q \ {b}
      PROVE  Arc(a, x) < Arc(a, b) /\ x # a /\ x \notin R
  <2>1. Steps(x, b) \in Nat /\ Steps(x, b) # 0
    BY <1>1, <1>6, StepsAreCounted
  <2>2. /\ Arc(a, x) \in Nat /\ Arc(a, b) \in Nat /\ Arc(a, b) <= Arc(a, a)
        /\ Arc(a, a) \in Nat
    BY <1>1, <1>6, ArcType
  <2>3. Arc(a, x) < Arc(a, b)
    BY <1>5, <2>1, <2>2
  <2>4. \A y \in R : Arc(a, y) \in Nat
    BY <1>1, ArcType
  <2> QED
    BY <1>2, <2>2, <2>3, <2>4
<1>7. ASSUME NEW x \in R \cup Q
      PROVE  g[x] \in R \cup Q /\ \A y \in R \cup Q : Arc(x, g[x]) <= Arc(x, y)
  <2>1. CASE x = a
    <3>1. \A y \in R : Arc(a, c) <= Arc(a, y)
      BY <1>1, <1>2, <1>3, ArcType
    <3> QED
      BY <1>1, <1>3, <1>5, <2>1, <3>1
  <2>2. CASE x \in R /\ x # a
    <3>1. g[x] = f[x] /\ f[x] \in R /\ \A y \in R : Arc(x, f[x]) <= Arc(x, y)
      BY <2>2 DEF Circle
    <3>2. ASSUME NEW y \in Q \ {b} PROVE Arc(x, f[x]) <= Arc(x, y)
      <4>1. x \in Key /\ y \in Key /\ f[x] \in Key
        BY <1>1, <2>2, <3>1
      <4>2. Arc(a, y) < Arc(a, b) /\ Arc(a, b) <= Arc(a, x)
        BY <1>2, <1>6, <2>2
      <4>3. Arc(a, y) < Arc(a, x)
        BY <1>1, <4>1, <4>2, ArcType
      <4>4. Arc(x, a) < Arc(x, y)
        BY <1>1, <2>2, <4>1, <4>3, ArcAround
      <4>5. Arc(x, f[x]) <= Arc(x, a)
        BY <3>1
      <4> QED
        BY <1>1, <4>1, <4>4, <4>5, ArcType
    <3> QED
      BY <1>1, <3>1, <3>2
  <2>3. CASE x \in Q \ R
    <3>1. x # b /\ x # a /\ x \in Key
      BY <1>1, <2>3
    <3>2. /\ g[x] = f[x] /\ f[x] \in Q /\ f[x] \in Key /\ Steps(f[x], b) < Steps(x, b)
          /\ \A y \in Q : Steps(y, b) < Steps(x, b) => Steps(y, b) <= Steps(f[x], b)
      BY <1>1, <1>4, <2>3, <3>1
    <3>3. \A y \in Q : Arc(x, f[x]) <= Arc(x, y)
      BY <1>1, <3>1, <3>2, ArcOnPath
    <3>4. ASSUME NEW y \in R PROVE Arc(x, f[x]) <= Arc(x, y)
      <4>1. Arc(a, x) < Arc(a, b) /\ Arc(a, b) <= Arc(a, y)
        BY <1>2, <1>6, <2>3, <3>1
      <4>2. Steps(x, b) <= Arc(x, y)
        BY <1>1, <3>1, <4>1, ArcAround
      <4>3. Arc(x, f[x]) <= Steps(x, b)
        BY <1>1, <3>1, <3>2, ArcOnPath
      <4> QED
        BY <1>1, <3>1, <3>2, <4>2, <4>3, ArcType, StepsAreCounted
    <3> QED
      BY <3>2, <3>3, <3>4
  <2> QED
    BY <2>1, <2>2, <2>3
<1> QED
  BY <1>1, <1>7 DEF Circle

-----------------------------------------------------------------------------
\* The ring.

Succ == [n \in Node |-> successor(n)]

\* A predecessor is known only to a tracker that a path leads to from it.
Known == \A t \in Node : pinit[t] => \E P \in SUBSET Attached : Path(Succ, P, prev[t], t)

\* What a step may do to the ring: nothing; a tracker makes itself known to its
\* successor; it adopts its successor's predecessor; a first tracker is a ring.
OldPrev(m) == pinit'[m] => pinit[m] /\ prev'[m] = prev[m]
Calm ==
    /\ Attached' = Attached
    /\ \A m \in Attached : Succ'[m] = Succ[m]
    /\ \A m \in Node : OldPrev(m)
Introduces(n) ==
    /\ Succ[n] \in Attached
    /\ Attached' = Attached \cup {n}
    /\ \A m \in Node : Succ'[m] = Succ[m]
    /\ \A m \in Node : OldPrev(m) \/ (m = Succ[n] /\ prev'[m] = n)
Adopts(n) ==
    /\ n \in Attached /\ Attached' = Attached
    /\ pinit[Succ[n]] /\ InOpen(prev[Succ[n]], n, Succ[n])
    /\ Succ'[n] = prev[Succ[n]]
    /\ \A m \in Node \ {n} : Succ'[m] = Succ[m]
    /\ \A m \in Node : OldPrev(m)
Founds(n) ==
    /\ pc[n] = "founder" /\ Attached = {} /\ Attached' = {n}
    /\ Succ'[n] = n
    /\ \A m \in Node : OldPrev(m) \/ (m = n /\ prev'[m] = n)

RingTypes == /\ Succ \in [Node -> Key] /\ prev \in [Node -> Key]

LEMMA RingTyped == TypeInv => RingTypes
  BY SuccessorType DEF TypeInv, TypeOK, RingTypes, Succ

LEMMA AttachedAre == Attached \subseteq Node
  BY DEF Attached

\* Between n and its successor there is a way to go that is no shorter.
LEMMA AdoptedPath ==
    ASSUME RingTypes, Closed(Attached), Known, NEW n \in Node, Adopts(n)
    PROVE  /\ prev[Succ[n]] \in Attached /\ prev[Succ[n]] # Succ[n]
           /\ Arc(n, prev[Succ[n]]) < Arc(n, Succ[n])
           /\ \E Q \in SUBSET Attached :
                  /\ Path(Succ, Q, prev[Succ[n]], Succ[n])
                  /\ \A x \in Q \ {Succ[n]} : x # n
           /\ n # Succ[n] => Steps(prev[Succ[n]], Succ[n]) < Steps(n, Succ[n])
<1> DEFINE b == Succ[n]  c == prev[b]
<1>1. b \in Node /\ b \in Key /\ n \in Key
  BY AttachedAre DEF Adopts, Closed, Succ
<1>2. PICK Q \in SUBSET Attached : Path(Succ, Q, c, b)
  BY <1>1 DEF Known, Adopts
<1>3. c \in Attached /\ c \in Key /\ Q \subseteq Key
  BY <1>2, AttachedAre DEF Path
<1>4. Arc(n, c) < Arc(n, b)
  BY <1>1, <1>3, KeyInIsClockwise DEF Adopts, Arc
<1>5. c # b
  BY <1>1, <1>4, ArcType
<1>6. n # b => Steps(c, b) < Steps(n, b)
  BY <1>1, <1>3, <1>4 DEF Arc, Walk, Steps, Gap, Key
<1>7. ASSUME NEW x \in Q \ {b} PROVE x # n
  <2>1. Steps(x, b) <= Steps(c, b)
    BY <1>2 DEF Path
  <2>2. Steps(x, b) \in Nat /\ Steps(c, b) \in Nat /\ Steps(n, b) \in Nat
    BY <1>1, <1>3, StepsAreCounted
  <2> QED
    BY <1>6, <2>1, <2>2
<1> QED
  BY <1>2, <1>3, <1>4, <1>5, <1>6, <1>7

LEMMA KnownStep ==
    ASSUME RingTypes, Closed(Attached), Known,
           Calm \/ \E n \in Node : Introduces(n) \/ Adopts(n) \/ Founds(n)
    PROVE  Known'
\* A predecessor that was known, where no step of its path has changed.
<1>1. ASSUME NEW t \in Node, pinit[t], prev'[t] = prev[t], NEW P \in SUBSET Attached,
             Path(Succ, P, prev[t], t), Attached \subseteq Attached',
             \A x \in P \ {t} : Succ'[x] = Succ[x]
      PROVE  \E Q \in SUBSET Attached' : Path(Succ', Q, prev'[t], t)
  <2>1. Path(Succ', P, prev[t], t)
    BY <1>1, PathKept
  <2> QED
    BY <1>1, <2>1
<1>2. CASE Calm
  <2>1. ASSUME NEW t \in Node, pinit'[t]
        PROVE  \E Q \in SUBSET Attached' : Path(Succ', Q, prev'[t], t)
    <3>1. pinit[t] /\ prev'[t] = prev[t]
      BY <1>2, <2>1 DEF Calm, OldPrev
    <3>2. PICK P \in SUBSET Attached : Path(Succ, P, prev[t], t)
      BY <3>1 DEF Known
    <3> QED
      BY <1>1, <1>2, <3>1, <3>2 DEF Calm
  <2> QED
    BY <2>1 DEF Known
<1>3. ASSUME NEW n \in Node, Introduces(n) PROVE Known'
  <2>1. ASSUME NEW t \in Node, pinit'[t], OldPrev(t)
        PROVE  \E Q \in SUBSET Attached' : Path(Succ', Q, prev'[t], t)
    <3>1. pinit[t] /\ prev'[t] = prev[t]
      BY <2>1 DEF OldPrev
    <3>2. PICK P \in SUBSET Attached : Path(Succ, P, prev[t], t)
      BY <3>1 DEF Known
    <3> QED
      BY <1>1, <1>3, <3>1, <3>2, AttachedAre DEF Introduces
  <2>2. ASSUME NEW t \in Node, t = Succ[n], prev'[t] = n
        PROVE  \E Q \in SUBSET Attached' : Path(Succ', Q, prev'[t], t)
    <3>1. {n, t} \in SUBSET Attached' /\ Succ'[n] = t
      BY <1>3, <2>2 DEF Introduces
    <3>2. n # t => Steps(t, t) < Steps(n, t)
      BY StepsAreCounted
    <3>3. Steps(t, t) <= Steps(n, t) /\ Steps(n, t) <= Steps(n, t) /\ Steps(t, t) <= Steps(t, t)
      BY StepsAreCounted
    <3>4. ASSUME NEW x \in {n, t} \ {t}
          PROVE  /\ Succ'[x] \in {n, t} /\ Steps(Succ'[x], t) < Steps(x, t)
                 /\ \A y \in {n, t} : Steps(y, t) < Steps(x, t)
                                       => Steps(y, t) <= Steps(Succ'[x], t)
      <4>1. x = n /\ n # t /\ ~ (Steps(n, t) < Steps(n, t))
        BY <3>4, StepsAreCounted
      <4> QED
        BY <3>1, <3>2, <3>3, <4>1
    <3>5. Path(Succ', {n, t}, n, t)
      BY <3>3, <3>4 DEF Path
    <3> QED
      BY <2>2, <3>1, <3>5
  <2> QED
    BY <1>3, <2>1, <2>2 DEF Known, Introduces
<1>4. ASSUME NEW n \in Node, Adopts(n) PROVE Known'
  <2> DEFINE b == Succ[n]  c == prev[b]
  <2>1. PICK Q \in SUBSET Attached : /\ Path(Succ, Q, c, b)
                                     /\ \A x \in Q \ {b} : x # n
    BY <1>4, AdoptedPath
  <2>2. /\ c \in Attached /\ c \in Key /\ c # b
        /\ n # b => Steps(c, b) < Steps(n, b)
    BY <1>4, AdoptedPath, AttachedAre
  <2>3. /\ Succ'[n] = c /\ \A m \in Node \ {n} : Succ'[m] = Succ[m]
        /\ Attached' = Attached
    BY <1>4 DEF Adopts
  <2>4. ASSUME NEW t \in Node, pinit'[t]
        PROVE  \E P \in SUBSET Attached' : Path(Succ', P, prev'[t], t)
    <3>1. pinit[t] /\ prev'[t] = prev[t] /\ prev[t] \in Key /\ t \in Key
      BY <1>4, <2>4 DEF Adopts, OldPrev, RingTypes
    <3>2. PICK P \in SUBSET Attached : Path(Succ, P, prev[t], t)
      BY <3>1 DEF Known
    <3>3. CASE n \notin P \ {t}
      BY <1>1, <2>3, <3>1, <3>2, <3>3, AttachedAre
    <3>4. CASE n \in P \ {t}
      <4>1. Steps(b, t) < Steps(n, t) /\ b \in Key
        BY <3>2, <3>4, AttachedAre DEF Path
      <4>2. n # b
        BY <3>1, <4>1, StepsAreCounted
      <4>3. \A x \in (P \cup Q) \ {n} : Succ'[x] = Succ[x]
        BY <2>3, AttachedAre
      <4> HIDE DEF b, c
      <4>4. Path(Succ', P \cup Q, prev[t], t)
        BY <2>1, <2>2, <2>3, <3>1, <3>2, <3>4, <4>2, <4>3, PathSpliced DEF b
      <4> QED
        BY <2>3, <3>1, <4>4
    <3> QED
      BY <3>3, <3>4
  <2> QED
    BY <2>4 DEF Known
<1>5. ASSUME NEW n \in Node, Founds(n) PROVE Known'
  <2>1. ASSUME NEW t \in Node, pinit'[t] PROVE t = n /\ prev'[t] = n
    <3>1. ~ pinit[t]
      BY <1>5 DEF Known, Founds, Path
    <3> QED
      BY <1>5, <2>1, <3>1 DEF Founds, OldPrev
  <2>2. Steps(n, n) <= Steps(n, n)
    BY StepsAreCounted
  <2>3. Path(Succ', {n}, n, n) /\ {n} \in SUBSET Attached'
    BY <1>5, <2>2 DEF Path, Founds
  <2> QED
    BY <2>1, <2>3 DEF Known
<1> QED
  BY <1>2, <1>3, <1>4, <1>5

\* The property says of a set of trackers that it is a circle.
LEMMA RingsAreCircles ==
    ASSUME RingTypes, NEW R \in SUBSET Attached
    PROVE  R \in Rings <=> Circle(Succ, R)
<1>1. R \subseteq Node /\ R \subseteq Key
  BY AttachedAre
<1>2. \A n \in R : Succ[n] = successor(n) /\ successor(n) \in Key
  BY <1>1 DEF Succ, RingTypes
<1>3. \A n, m \in R : InOpen(m, n, successor(n)) <=> Arc(n, m) < Arc(n, successor(n))
  BY <1>1, <1>2, KeyInIsClockwise DEF Arc
<1>4. \A n, m \in R : ~ (Arc(n, m) < Arc(n, successor(n)))
                         <=> Arc(n, successor(n)) <= Arc(n, m)
  BY <1>1, <1>2, ArcType
<1>5. Ordered(R) <=> \A n, m \in R : Arc(n, successor(n)) <= Arc(n, m)
  BY <1>3, <1>4 DEF Ordered
<1>6. Closed(R) <=> \A n \in R : successor(n) \in R
  BY DEF Closed
<1> QED
  BY <1>1, <1>2, <1>5, <1>6 DEF Rings, Circle

\* R is the one ring.
Leads(R) == \A S \in (SUBSET Attached) \ {{}} : Closed(S) => R \subseteq S

OneCircle ==
    /\ Closed(Attached)
    /\ Attached # {} => \E R \in SUBSET Attached : Circle(Succ, R) /\ Leads(R)

LEMMA OneRingIs == RingTypes => (OneRing <=> OneCircle)
<1>1. \A R \in Rings : R \in SUBSET Attached
  BY DEF Rings
<1> QED
  BY <1>1, RingsAreCircles DEF OneRing, Leads, OneCircle

LEMMA CircleKept ==
    ASSUME NEW f, NEW g, NEW R, Circle(f, R), \A x \in R : g[x] = f[x]
    PROVE  Circle(g, R)
  BY DEF Circle

LEMMA ClosedIs ==
    ASSUME NEW S \in SUBSET Node
    PROVE  /\ Closed(S) <=> \A n \in S : Succ[n] \in S
           /\ Closed(S)' <=> \A n \in S : Succ'[n] \in S
  BY DEF Closed, Succ

LEMMA OneRingStep ==
    ASSUME RingTypes, RingTypes', OneRing, Known,
           Calm \/ \E n \in Node : Introduces(n) \/ Adopts(n) \/ Founds(n)
    PROVE  OneRing'
<1>1. /\ Closed(Attached)
      /\ Attached # {} => \E R \in SUBSET Attached : Circle(Succ, R) /\ Leads(R)
  BY OneRingIs DEF OneCircle
<1>2. SUFFICES /\ Closed(Attached)'
               /\ Attached' # {} =>
                      \E R \in SUBSET Attached' : Circle(Succ', R) /\ Leads(R)'
  <2>1. RingTypes' => (OneRing' <=> OneCircle')
    BY OneRingIs, PTL
  <2> QED
    BY <2>1 DEF OneCircle
<1>3. CASE Calm
  <2>1. Attached' = Attached /\ \A n \in Attached : Succ'[n] = Succ[n]
    BY <1>3 DEF Calm
  <2>2. \A S \in SUBSET Attached : Closed(S)' <=> Closed(S)
    BY <2>1, ClosedIs, AttachedAre
  <2>3. ASSUME NEW R \in SUBSET Attached, Circle(Succ, R), Leads(R)
        PROVE  Circle(Succ', R) /\ Leads(R)'
    BY <2>1, <2>2, <2>3, CircleKept DEF Leads
  <2> QED
    BY <1>1, <2>1, <2>2, <2>3
<1>4. ASSUME NEW n \in Node, Introduces(n)
      PROVE  /\ Closed(Attached)'
             /\ \E R \in SUBSET Attached' : Circle(Succ', R) /\ Leads(R)'
  <2>1. /\ Attached' = Attached \cup {n} /\ Succ[n] \in Attached
        /\ \A m \in Node : Succ'[m] = Succ[m]
    BY <1>4 DEF Introduces
  <2>2. PICK R \in SUBSET Attached : Circle(Succ, R) /\ Leads(R)
    BY <1>1, <2>1
  <2>3. Closed(Attached)'
    BY <1>1, <2>1, ClosedIs, AttachedAre
  <2>4. ASSUME NEW S \in (SUBSET Attached') \ {{}}, Closed(S)' PROVE R \subseteq S
    <3> DEFINE T == S \cap Attached
    <3>1. \A m \in S : Succ[m] \in S
      BY <2>1, <2>4, ClosedIs, AttachedAre
    <3>2. \A m \in S : Succ[m] \in T
      BY <1>1, <2>1, <3>1, ClosedIs, AttachedAre
    <3>3. T # {} /\ Closed(T)
      BY <3>2, ClosedIs, AttachedAre
    <3> QED
      BY <2>2, <3>3 DEF Leads
  <2>5. Circle(Succ', R)
    BY <2>1, <2>2, CircleKept, AttachedAre
  <2> QED
    BY <2>1, <2>3, <2>4, <2>5 DEF Leads
<1>5. ASSUME NEW n \in Node, Adopts(n)
      PROVE  /\ Closed(Attached)'
             /\ \E R \in SUBSET Attached' : Circle(Succ', R) /\ Leads(R)'
  <2> DEFINE b == Succ[n]  c == prev[b]
  <2>1. PICK Q \in SUBSET Attached : /\ Path(Succ, Q, c, b)
                                     /\ \A x \in Q \ {b} : x # n
    BY <1>1, <1>5, AdoptedPath
  <2>2. c \in Attached /\ c \in Key /\ Arc(n, c) < Arc(n, b)
    BY <1>1, <1>5, AdoptedPath, AttachedAre
  <2>3. /\ n \in Attached /\ Attached' = Attached
        /\ Succ'[n] = c /\ \A m \in Node \ {n} : Succ'[m] = Succ[m]
    BY <1>5 DEF Adopts
  <2> HIDE DEF c
  <2>4. Closed(Attached)'
    BY <1>1, <2>2, <2>3, ClosedIs, AttachedAre
\* A set closed under the new successors holds the path if it holds n, so it
\* was closed under the old ones.
  <2>5. ASSUME NEW S \in (SUBSET Attached) \ {{}}, Closed(S)'
        PROVE  (n \in S => Q \subseteq S) /\ Closed(S)
    <3>1. \A m \in S : Succ'[m] \in S
      BY <2>5, ClosedIs, AttachedAre
    <3>2. ASSUME n \in S PROVE Q \subseteq S
      <4>1. c \in S
        BY <2>3, <3>1, <3>2
      <4>2. \A x \in S \cap Q : x # b => Succ[x] \in S
        BY <2>1, <2>3, <3>1, AttachedAre
      <4> QED
        BY <2>1, <4>1, <4>2, PathFollowed
    <3>3. b \in Q
      BY <2>1 DEF Path
    <3>4. \A m \in S : Succ[m] \in S
      BY <2>3, <3>1, <3>2, <3>3, AttachedAre
    <3> QED
      BY <3>2, <3>4, ClosedIs, AttachedAre
  <2>6. PICK R \in SUBSET Attached : Circle(Succ, R) /\ Leads(R)
    BY <1>1, <2>3
  <2>7. CASE n \notin R
    <3>1. Circle(Succ', R)
      BY <2>3, <2>6, <2>7, CircleKept, AttachedAre
    <3>2. Leads(R)'
      BY <2>3, <2>5, <2>6 DEF Leads
    <3> QED
      BY <2>3, <2>4, <3>1, <3>2
  <2>8. CASE n \in R
    <3>1. Circle(Succ', R \cup Q)
      <4>1. \A x \in (R \cup Q) \ {n} : Succ'[x] = Succ[x]
        BY <2>3, AttachedAre
      <4>2. /\ Circle(Succ, R) /\ n \in R /\ c \in Key /\ Path(Succ, Q, c, Succ[n])
            /\ Arc(n, c) < Arc(n, Succ[n]) /\ Succ'[n] = c
        BY <2>1, <2>2, <2>3, <2>6, <2>8
      <4> QED
        BY <4>1, <4>2, CircleSpliced
    <3>2. Leads(R \cup Q)'
      BY <2>3, <2>5, <2>6, <2>8 DEF Leads
    <3> QED
      BY <2>3, <2>4, <3>1, <3>2
  <2> QED
    BY <2>7, <2>8
<1>6. ASSUME NEW n \in Node, Founds(n)
      PROVE  /\ Closed(Attached)'
             /\ \E R \in SUBSET Attached' : Circle(Succ', R) /\ Leads(R)'
  <2>1. Attached' = {n} /\ Succ'[n] = n
    BY <1>6 DEF Founds
  <2>2. Closed(Attached)'
    BY <2>1, ClosedIs
  <2>3. Circle(Succ', {n})
    <3>1. Arc(n, n) <= Arc(n, n)
      BY ArcType
    <3> QED
      BY <2>1, <3>1 DEF Circle
  <2>4. Leads({n})'
    BY <2>1 DEF Leads
  <2> QED
    BY <2>1, <2>2, <2>3, <2>4
<1> QED
  BY <1>3, <1>4, <1>5, <1>6

NobodyLeaves == MayLeave = {} /\ MayCrash = {}

\* Who is at work is registered, and the first tracker is alone in founding a
\* ring.
Enrolled ==
    /\ \A n \in Node : pc[n] # "off" => n \in registered
    /\ \A n \in Node : pc[n] = "founder" =>
           Attached = {} /\ \A m \in Node : pc[m] = "founder" => m = n
\* A successor is a tracker whose own successor knows of it, and an attached
\* tracker never loses its successor.
Linked ==
    /\ \A n \in Node : successor(n) \in Attached \cup {Blank}
    /\ \A n \in Node : n \in Attached \/ pc[n] = "jnotify" => 0 \in init[n]
RingInv == Enrolled /\ Linked /\ Known /\ OneRing

RingMove(n) == Calm \/ Introduces(n) \/ Adopts(n) \/ Founds(n)

\* Most steps of tracker n leave the ring alone.
LEMMA CalmStep ==
    ASSUME TypeOK, Linked, NEW n \in Node,
           \A m \in Node \ {n} : /\ finger'[m][0] = finger[m][0] /\ pc'[m] = pc[m]
                                 /\ 0 \in init[m] => 0 \in init'[m],
           \/ finger'[n][0] = finger[n][0]
           \/ n \notin Attached /\ finger'[n][0] \in Attached \cup {Blank},
           n \in Attached' <=> n \in Attached,
           n \in Attached \/ pc'[n] = "jnotify" => 0 \in init'[n],
           \A m \in Node : OldPrev(m)
    PROVE  Calm /\ Linked'
<1>1. \A m \in Node \ {n} : m \in Attached' <=> m \in Attached
  BY DEF Attached, Joined
<1>2. Attached' = Attached
  BY <1>1 DEF Attached
<1>3. \A m \in Attached : Succ'[m] = Succ[m]
  BY AttachedAre DEF Succ, successor
<1>4. \A m \in Node : successor(m)' \in Attached' \cup {Blank}
  BY <1>2 DEF Linked, successor
<1>5. \A m \in Node : m \in Attached' \/ pc'[m] = "jnotify" => 0 \in init'[m]
  BY <1>2 DEF Linked
<1> QED
  BY <1>2, <1>3, <1>4, <1>5 DEF Calm, Linked

\* The most frequent of them: fingers, init, prev and pinit do not change.
LEMMA UntouchedStep ==
    ASSUME TypeOK, Linked, NEW n \in Node, UNCHANGED ring,
           \A m \in Node \ {n} : pc'[m] = pc[m],
           n \in Attached' <=> n \in Attached, pc'[n] # "jnotify"
    PROVE  Calm /\ Linked'
<1>1. finger' = finger /\ init' = init /\ prev' = prev /\ pinit' = pinit
  BY DEF ring
<1>2. n \in Attached => 0 \in init'[n]
  BY <1>1 DEF Linked
<1> QED
  BY <1>1, <1>2, CalmStep DEF OldPrev

\* NOTIFY of its successor makes a tracker part of the network.
LEMMA NotifyStep ==
    ASSUME TypeOK, Linked, NEW n \in Node, successor(n) \in Attached,
           node_notify(successor(n), n), finger' = finger, init' = init,
           \A m \in Node \ {n} : pc'[m] = pc[m],
           n \in Attached', 0 \in init[n]
    PROVE  Introduces(n) /\ Linked'
<1>1. \A m \in Node \ {n} : m \in Attached' <=> m \in Attached
  BY DEF Attached, Joined
<1>2. Attached' = Attached \cup {n}
  BY <1>1 DEF Attached
<1>3. Succ' = Succ /\ Succ[n] = successor(n)
  BY DEF Succ, successor
<1>4. ASSUME NEW m \in Node PROVE OldPrev(m) \/ (m = Succ[n] /\ prev'[m] = n)
  <2>1. CASE m = successor(n)
    BY <1>3, <2>1 DEF node_notify, OldPrev, TypeOK
  <2>2. CASE m # successor(n)
    BY <2>2 DEF node_notify, OldPrev, TypeOK
  <2> QED
    BY <2>1, <2>2
<1>5. \A m \in Node : successor(m)' \in Attached' \cup {Blank}
  BY <1>2 DEF Linked, successor
<1>6. \A m \in Node : m \in Attached' \/ pc'[m] = "jnotify" => 0 \in init'[m]
  BY <1>2 DEF Linked
<1> QED
  BY <1>2, <1>3, <1>4, <1>5, <1>6 DEF Introduces, Linked

LEMMA AttachedListen == LockInv => Attached \subseteq listening
  BY DEF LockInv, Attached, Joined, Receiving, Stabilizing, Uploading

LEMMA JoinRing ==
    ASSUME TypeInv, TypeInv', LockInv, RingInv, NEW n \in Node, JoinStep(n)
    PROVE  RingMove(n) /\ Linked'
<1> TypeOK /\ TypeOK' /\ Linked /\ Enrolled
  BY DEF TypeInv, RingInv
<1> USE DEF Receiving, Stabilizing, Uploading
<1>1. CASE JoinAlone(n)
  <2>1. /\ pc[n] = "founder" /\ pc'[n] = "idle"
        /\ \A m \in Node \ {n} : /\ finger'[m] = finger[m] /\ prev'[m] = prev[m]
                                /\ pinit'[m] = pinit[m] /\ pc'[m] = pc[m]
                                /\ init'[m] = init[m]
        /\ finger'[n][0] = n /\ prev'[n] = n /\ init'[n] = {0}
    BY <1>1 DEF JoinAlone, TypeOK, Fingers
  <2>2. Attached = {}
    BY <2>1 DEF Enrolled
  <2>3. Attached' = {n}
    BY <2>1, <2>2 DEF Attached, Joined
  <2>4. Succ'[n] = n
    BY <2>1 DEF Succ, successor
  <2>5. \A m \in Node : OldPrev(m) \/ (m = n /\ prev'[m] = n)
    BY <2>1 DEF OldPrev
  <2>6. \A m \in Node : pc'[m] = "jnotify" => m # n /\ pc[m] = "jnotify"
    BY <2>1
  <2>7. Linked'
    BY <2>1, <2>2, <2>3, <2>6 DEF Linked, successor
  <2> QED
    BY <2>1, <2>2, <2>3, <2>4, <2>5, <2>7 DEF RingMove, Founds
<1>2. CASE JoinReset(n)
  <2>1. /\ finger' = finger /\ \A m \in Node \ {n} : pc'[m] = pc[m] /\ init'[m] = init[m]
        /\ pc[n] = "connected" /\ pc'[n] \in {"jnotify", "jask"}
        /\ pc'[n] = "jnotify" => 0 \in init'[n]
        /\ \A m \in Node : OldPrev(m)
    BY <1>2 DEF JoinReset, TypeOK, OldPrev
  <2>2. n \notin Attached /\ n \notin Attached'
    BY <2>1 DEF Attached, Joined
  <2> QED
    BY <2>1, <2>2, CalmStep DEF RingMove
<1>3. CASE JoinAsk(n)
  <2>1. /\ \A m \in Node \ {n} : pc'[m] = pc[m]
        /\ pc[n] = "jask" /\ pc'[n] = "jfind" /\ UNCHANGED ring
    BY <1>3 DEF JoinAsk, TypeOK
  <2> QED
    BY <2>1, UntouchedStep DEF RingMove, Attached, Joined
<1>4. CASE JoinFound(n)
  <2>1. lk[n].cur \in Node
    BY <1>4, ReachableNode DEF JoinFound, Answered
  <2>2. Answer(n) \in Attached \cup {Blank}
    BY <2>1 DEF Answer, Linked
  <2>3. /\ \A m \in Node \ {n} : pc'[m] = pc[m] /\ init'[m] = init[m]
                                 /\ finger'[m] = finger[m]
        /\ pc[n] = "jfind" /\ pc'[n] = "jnotify" /\ 0 \in init'[n]
        /\ finger'[n][0] = Answer(n)
        /\ \A m \in Node : OldPrev(m)
    BY <1>4 DEF JoinFound, TypeOK, Fingers, OldPrev
  <2>4. n \notin Attached /\ n \notin Attached'
    BY <2>3 DEF Attached, Joined
  <2> QED
    BY <2>2, <2>3, <2>4, CalmStep DEF RingMove
<1>5. CASE JoinNotify(n)
  <2>1. /\ \A m \in Node \ {n} : pc'[m] = pc[m]
        /\ pc[n] = "jnotify" /\ pc'[n] = "jmove" /\ finger' = finger /\ init' = init
        /\ node_notify(successor(n), n) /\ (successor(n) = n \/ CanServe(successor(n)))
    BY <1>5 DEF JoinNotify, TypeOK
  <2>2. successor(n) \in Node
    BY <2>1 DEF CanServe, TypeOK
  <2>3. successor(n) \in Attached /\ 0 \in init[n] /\ n \in Attached'
    BY <2>1, <2>2 DEF Linked, Attached
  <2> QED
    BY <2>1, <2>3, NotifyStep DEF RingMove
<1>6. CASE JoinMove(n) \/ JoinReceive(n) \/ JoinReceiveFails(n) \/ JoinDone(n)
  <2>1. /\ \A m \in Node \ {n} : pc'[m] = pc[m]
        /\ pc[n] \in {"jmove", "jrecv"} /\ pc'[n] \in {"jrecv", "idle"} /\ UNCHANGED ring
    BY <1>6 DEF JoinMove, JoinReceive, JoinReceiveFails, JoinDone, TypeOK
  <2>2. n \in Attached /\ n \in Attached'
    BY <2>1 DEF Attached, Joined
  <2> QED
    BY <2>1, <2>2, UntouchedStep DEF RingMove
<1> QED
  BY <1>1, <1>2, <1>3, <1>4, <1>5, <1>6 DEF JoinStep

LEMMA FailsRing ==
    ASSUME TypeOK, LockInv, Linked, Closed(Attached), NEW n \in Node,
           LookupNotFound(n) \/ RpcFails(n) \/ AskPrevUnknown(n)
    PROVE  Calm /\ Linked'
<1> USE DEF Receiving, Stabilizing, Uploading, Joining, LookingUp
<1>1. /\ Fails(n)
      /\ pc[n] \in {"jask", "jfind", "jnotify", "jmove"} \cup Stabilizing \cup Uploading
  BY DEF LookupNotFound, RpcFails, AskPrevUnknown
<1>2. /\ pc'[n] = IF pc[n] \in Joining THEN "stop" ELSE "idle"
      /\ \A m \in Node \ {n} : pc'[m] = pc[m]
      /\ UNCHANGED ring
  BY <1>1 DEF Fails, TypeOK
\* MOVE_DATA does not fail: the successor is attached, so it listens.
<1>3. pc[n] # "jmove"
  <2>1. SUFFICES ASSUME pc[n] = "jmove" PROVE FALSE
    OBVIOUS
  <2>2. successor(n) \in listening
    BY <2>1, AttachedListen DEF Closed, Attached
  <2>3. Dead(successor(n))
    BY <2>1 DEF LookupNotFound, RpcFails, AskPrevUnknown, Target
  <2> QED
    BY <2>2, <2>3 DEF Dead
<1>4. n \in Attached' <=> n \in Attached
  BY <1>1, <1>2, <1>3 DEF Attached, Joined
<1> QED
  BY <1>2, <1>4, UntouchedStep

LEMMA StabilizeRing ==
    ASSUME TypeInv, TypeInv', LockInv, RingInv, NEW n \in Node,
           Stabilize(n) \/ StabilizeStep(n)
    PROVE  RingMove(n) /\ Linked' /\ ~MustRejoin(n)
<1> TypeOK /\ TypeOK' /\ Linked /\ Closed(Attached)
  BY DEF TypeInv, RingInv, OneRing
<1>1. pc[n] \in {"idle"} \cup Stabilizing /\ n \in Attached
  BY DEF Stabilize, StabilizeStep, PingDead, PingAlive, NotifyNewNext, PingDone, MustRejoin,
         AskPrev, AskPrevUnknown, NotifyNext, FixFinger, MigrateNext, MigrateFound,
         MigrateSend, StabilizeDone, Stabilizing, Attached, Joined
<1>2. /\ 0 \in init[n] /\ successor(n) \in Attached /\ successor(n) \in listening
      /\ successor(n) \in Node
  BY <1>1, AttachedListen, AttachedAre DEF Linked, Closed
<1>3. SUFFICES RingMove(n) /\ Linked'
  BY <1>2 DEF MustRejoin
<1>4. CASE Stabilize(n) \/ PingDone(n) \/ MigrateNext(n) \/ MigrateFound(n)
           \/ MigrateSend(n) \/ StabilizeDone(n)
  <2>1. /\ \A m \in Node \ {n} : pc'[m] = pc[m]
        /\ pc'[n] \in {"idle"} \cup Stabilizing /\ UNCHANGED ring
    <3>1. CASE Stabilize(n) \/ PingDone(n) \/ StabilizeDone(n)
      BY <3>1 DEF Stabilize, PingDone, StabilizeDone, TypeOK, Stabilizing
    <3>2. CASE MigrateNext(n) \/ MigrateFound(n)
      BY <3>2 DEF MigrateNext, MigrateFound, TypeOK, Stabilizing
    <3>3. CASE MigrateSend(n)
      BY <3>3 DEF MigrateSend, TypeOK, Stabilizing
    <3> QED
      BY <1>4, <3>1, <3>2, <3>3
  <2>2. n \in Attached' /\ pc'[n] # "jnotify"
    BY <2>1 DEF Attached, Joined, Stabilizing
  <2> QED
    BY <1>1, <2>1, <2>2, UntouchedStep DEF RingMove
\* The successor is not among the dead, so it is neither forgotten nor lost.
<1>5. CASE PingDead(n)
  <2> DEFINE i == Least(Contacts(n))
  <2>1. Contacts(n) # {} /\ Dead(Contact(n, i)) /\ i \in Fingers \cup {PrevIndex}
    BY <1>5, ContactType DEF PingDead
  <2>2. i # 0
    BY <1>2, <2>1 DEF Contact, Dead, PrevIndex, successor
  <2>3. /\ init' = [init EXCEPT ![n] = @ \ {i}]
        /\ pinit' = [pinit EXCEPT ![n] = @ /\ i # PrevIndex]
        /\ finger' = finger /\ prev' = prev /\ pc' = pc
    BY <1>5 DEF PingDead
  <2> HIDE DEF i
  <2>4. \A m \in Node : OldPrev(m)
    BY <2>3 DEF OldPrev, TypeOK
  <2>5. 0 \in init'[n] /\ \A m \in Node \ {n} : init'[m] = init[m]
    BY <1>2, <2>2, <2>3 DEF TypeOK
  <2>6. n \in Attached' /\ pc[n] # "jnotify"
    BY <1>1, <2>3 DEF Attached, Joined, Stabilizing
  <2> QED
    BY <1>1, <2>3, <2>4, <2>5, <2>6, CalmStep DEF RingMove
<1>6. CASE PingAlive(n)
  <2>1. /\ finger' = finger /\ prev' = prev /\ pinit' = pinit /\ pc' = pc
        /\ init' = [init EXCEPT ![n] = @ \cup {0}]
    BY <1>2, <1>6 DEF PingAlive
  <2>2. init' = init
    BY <1>2, <2>1 DEF TypeOK
  <2>3. n \in Attached' /\ pc'[n] # "jnotify"
    BY <1>1, <2>1 DEF Attached, Joined, Stabilizing
  <2> QED
    BY <1>1, <2>1, <2>2, <2>3, UntouchedStep DEF RingMove, ring
<1>7. CASE NotifyNewNext(n) \/ NotifyNext(n)
  <2>1. /\ \A m \in Node \ {n} : pc'[m] = pc[m]
        /\ pc'[n] \in Stabilizing /\ finger' = finger /\ init' = init
        /\ node_notify(successor(n), n)
    BY <1>7 DEF NotifyNewNext, NotifyNext, TypeOK, Stabilizing
  <2>2. n \in Attached'
    BY <2>1 DEF Attached, Joined
  <2> QED
    BY <1>2, <2>1, <2>2, NotifyStep DEF RingMove
<1>8. CASE AskPrev(n)
  <2> DEFINE b == successor(n)
  <2>1. /\ pinit[b] /\ prev' = prev /\ pinit' = pinit /\ init' = init
        /\ pc' = [pc EXCEPT ![n] = "notify"]
        /\ finger' = IF InOpen(prev[b], n, b)
                     THEN [finger EXCEPT ![n][0] = prev[b]] ELSE finger
    BY <1>8 DEF AskPrev
  <2>2. pc'[n] = "notify" /\ \A m \in Node \ {n} : pc'[m] = pc[m]
    BY <2>1 DEF TypeOK
  <2>3. Attached' = Attached
    BY <1>1, <2>2 DEF Attached, Joined, Stabilizing
  <2>4. CASE ~InOpen(prev[b], n, b)
    <3>1. UNCHANGED ring
      BY <2>1, <2>4 DEF ring
    <3> QED
      BY <2>2, <2>3, <3>1, UntouchedStep DEF RingMove
  <2>5. CASE InOpen(prev[b], n, b)
    <3>1. \A m \in Node : OldPrev(m)
      BY <2>1 DEF OldPrev
    <3>2. /\ finger'[n][0] = prev[b]
          /\ \A m \in Node \ {n} : finger'[m] = finger[m]
      BY <2>1, <2>5 DEF TypeOK, Fingers
    <3>3. Succ[n] = b /\ Succ'[n] = prev[b] /\ \A m \in Node \ {n} : Succ'[m] = Succ[m]
      BY <3>2 DEF Succ, successor
    <3>4. Adopts(n)
      BY <1>1, <2>1, <2>3, <2>5, <3>1, <3>3 DEF Adopts
    <3>5. prev[b] \in Attached
      BY <1>2, <2>1 DEF RingInv, Known, Path
    <3>6. \A m \in Node : successor(m)' \in Attached' \cup {Blank}
      BY <2>3, <3>2, <3>5 DEF Linked, successor
    <3>7. \A m \in Node : m \in Attached' \/ pc'[m] = "jnotify" => 0 \in init'[m]
      BY <2>1, <2>2, <2>3 DEF Linked
    <3> QED
      BY <3>4, <3>6, <3>7 DEF RingMove, Linked
  <2> QED
    BY <2>4, <2>5
<1>9. CASE AskPrevUnknown(n)
  BY <1>9, FailsRing DEF RingMove
<1>10. CASE FixFinger(n)
  <2>1. /\ finger' = [finger EXCEPT ![n][FixIndex[n]] = Answer(n)]
        /\ init' = [init EXCEPT ![n] = @ \cup {FixIndex[n]}]
        /\ prev' = prev /\ pinit' = pinit
        /\ pc[n] = "fix" /\ (pc' = pc \/ pc' = [pc EXCEPT ![n] = "migrate"])
    BY <1>10 DEF FixFinger
  <2>2. \A m \in Node : finger'[m][0] = finger[m][0] /\ (0 \in init[m] => 0 \in init'[m])
    BY <2>1 DEF TypeOK, Fingers
  <2>3. pc'[n] \in {"fix", "migrate"} /\ \A m \in Node \ {n} : pc'[m] = pc[m]
    BY <2>1 DEF TypeOK
  <2>4. n \in Attached' /\ \A m \in Node : OldPrev(m)
    BY <2>1, <2>3 DEF Attached, Joined, Stabilizing, OldPrev
  <2> QED
    BY <1>1, <1>2, <2>2, <2>3, <2>4, CalmStep DEF RingMove
<1> QED
  BY <1>2, <1>4, <1>5, <1>6, <1>7, <1>8, <1>9, <1>10 DEF StabilizeStep, MustRejoin

LEMMA OtherRing ==
    ASSUME NobodyLeaves, TypeInv, TypeInv', LockInv, RingInv, NEW n \in Node,
           \/ LookupHop(n) \/ LookupNext(n) \/ LookupNotFound(n) \/ RpcFails(n)
           \/ (\E f \in File : Upload(n, f)) \/ UploadFound(n) \/ UploadSend(n)
           \/ StopServer(n) \/ LeaveSend(n) \/ LeaveDone(n) \/ Connect(n)
    PROVE  RingMove(n) /\ Linked'
<1> TypeOK /\ TypeOK' /\ Linked /\ Closed(Attached)
  BY DEF TypeInv, RingInv, OneRing
<1> USE DEF Receiving, Stabilizing, Uploading
<1>1. CASE LookupHop(n) \/ LookupNext(n)
  <2>1. pc' = pc /\ UNCHANGED ring /\ pc[n] # "jnotify"
    BY <1>1 DEF LookupHop, LookupNext, LookingUp
  <2>2. Attached' = Attached
    BY <2>1 DEF Attached, Joined
  <2> QED
    BY <2>1, <2>2, UntouchedStep DEF RingMove
<1>2. CASE LookupNotFound(n) \/ RpcFails(n)
  BY <1>2, FailsRing DEF RingMove
<1>3. CASE (\E f \in File : Upload(n, f)) \/ UploadFound(n) \/ UploadSend(n)
  <2>1. /\ \A m \in Node \ {n} : pc'[m] = pc[m] /\ UNCHANGED ring
        /\ pc[n] \in {"idle"} \cup Uploading /\ pc'[n] \in {"idle"} \cup Uploading
    BY <1>3 DEF Upload, UploadFound, UploadSend, TypeOK
  <2>2. n \in Attached /\ n \in Attached'
    BY <2>1 DEF Attached, Joined
  <2>3. UNCHANGED ring
    BY <1>3 DEF Upload, UploadFound, UploadSend
  <2> QED
    BY <2>1, <2>2, <2>3, UntouchedStep DEF RingMove
<1>4. CASE StopServer(n) \/ LeaveSend(n) \/ LeaveDone(n)
  <2>1. /\ \A m \in Node \ {n} : pc'[m] = pc[m]
        /\ pc[n] \in {"stop", "leave"} /\ pc'[n] \in {"leave", "off"} /\ UNCHANGED ring
    BY <1>4 DEF StopServer, LeaveSend, LeaveDone, TypeOK
  <2>2. n \notin Attached /\ n \notin Attached'
    BY <2>1 DEF Attached, Joined
  <2> QED
    BY <2>1, <2>2, UntouchedStep DEF RingMove
<1>5. CASE Connect(n)
  <2>1. \A m \in Node \ {n} : /\ pc'[m] = pc[m] /\ finger'[m] = finger[m]
                             /\ init'[m] = init[m]
    BY <1>5 DEF Connect, TypeOK, ring
  <2>2. \A m \in Node : OldPrev(m)
    BY <1>5 DEF Connect, TypeOK, ring, OldPrev
  <2>3. finger'[n][0] = finger[n][0] \/ finger'[n][0] = Blank
    BY <1>5 DEF Connect, TypeOK, ring, Fingers
  <2>4. pc[n] = "off" /\ pc'[n] \in {"founder", "connected"}
    BY <1>5 DEF Connect, TypeOK
  <2>5. n \notin Attached /\ n \notin Attached'
    BY <2>4 DEF Attached, Joined
  <2> QED
    BY <2>1, <2>2, <2>3, <2>4, <2>5, CalmStep DEF RingMove
<1> QED
  BY <1>1, <1>2, <1>3, <1>4, <1>5

LEMMA RingMoves ==
    ASSUME NobodyLeaves, TypeInv, TypeInv', LockInv, RingInv, NEW n \in Node,
           Step(n) \/ Command(n) \/ Crash(n)
    PROVE  RingMove(n) /\ Linked' /\ ~MustRejoin(n)
<1>1. ~Leave(n) /\ ~Crash(n)
  BY DEF NobodyLeaves, Leave, Crash
<1>2. MustRejoin(n) => StabilizeStep(n)
  BY DEF StabilizeStep
<1> QED
  BY <1>1, <1>2, JoinRing, StabilizeRing, OtherRing DEF Step, Command

\* A command in progress concerns its own tracker's stage and lookup, and
\* registers nobody.
GoesOn(n) ==
    /\ pc[n] \notin {"off", "idle"} /\ pc'[n] # "founder"
    /\ registered' = registered \/ MustRejoin(n)
    /\ \A m \in Node \ {n} : pc'[m] = pc[m] /\ lk'[m] = lk[m]

LEMMA StepGoesOn ==
    ASSUME TypeOK, NEW n \in Node, Step(n)
    PROVE  GoesOn(n)
<1> USE DEF GoesOn, TypeOK, net
<1>1. CASE JoinStep(n)
  <2>1. CASE JoinAlone(n) \/ JoinReset(n) \/ JoinAsk(n) \/ JoinFound(n)
    BY <2>1 DEF JoinAlone, JoinReset, JoinAsk, JoinFound
  <2>2. CASE JoinNotify(n) \/ JoinMove(n) \/ JoinReceive(n) \/ JoinReceiveFails(n)
            \/ JoinDone(n)
    BY <2>2 DEF JoinNotify, JoinMove, JoinReceive, JoinReceiveFails, JoinDone
  <2> QED
    BY <1>1, <2>1, <2>2 DEF JoinStep
<1>2. ASSUME Fails(n), pc[n] \notin {"off", "idle"} PROVE GoesOn(n)
  BY <1>2 DEF Fails
<1>3. CASE StabilizeStep(n)
  <2>1. CASE PingDead(n) \/ PingAlive(n) \/ NotifyNewNext(n) \/ PingDone(n)
    BY <2>1 DEF PingDead, PingAlive, NotifyNewNext, PingDone
  <2>2. CASE AskPrev(n) \/ NotifyNext(n) \/ FixFinger(n)
    BY <2>2 DEF AskPrev, NotifyNext, FixFinger
  <2>3. CASE MigrateNext(n) \/ MigrateFound(n) \/ MigrateSend(n) \/ StabilizeDone(n)
    BY <2>3 DEF MigrateNext, MigrateFound, MigrateSend, StabilizeDone
  <2>4. CASE AskPrevUnknown(n)
    BY <1>2, <2>4 DEF AskPrevUnknown
  <2>5. CASE MustRejoin(n)
    BY <2>5 DEF MustRejoin
  <2> QED
    BY <1>3, <2>1, <2>2, <2>3, <2>4, <2>5 DEF StabilizeStep
<1>4. CASE LookupNotFound(n) \/ RpcFails(n)
  BY <1>2, <1>4 DEF LookupNotFound, RpcFails, LookingUp
<1>5. CASE LookupHop(n) \/ LookupNext(n)
  BY <1>5 DEF LookupHop, LookupNext, LookingUp
<1>6. CASE UploadFound(n) \/ UploadSend(n)
  BY <1>6 DEF UploadFound, UploadSend
<1>7. CASE StopServer(n) \/ LeaveSend(n) \/ LeaveDone(n)
  BY <1>7 DEF StopServer, LeaveSend, LeaveDone
<1> QED
  BY <1>1, <1>3, <1>4, <1>5, <1>6, <1>7 DEF Step

\* Only a tracker that finds nobody registered founds a ring.
LEMMA EnrolledStep ==
    ASSUME NobodyLeaves, TypeInv, TypeInv', LockInv, RingInv, NEW n \in Node,
           Step(n) \/ Command(n) \/ Crash(n)
    PROVE  Enrolled'
<1> TypeOK /\ TypeOK' /\ Enrolled
  BY DEF TypeInv, RingInv
<1>1. RingMove(n) /\ ~MustRejoin(n) /\ ~Leave(n) /\ ~Crash(n)
  BY RingMoves DEF NobodyLeaves, Leave, Crash
<1>2. CASE Connect(n)
  <2>1. /\ pc[n] = "off" /\ registered' = registered \cup {n}
        /\ \A m \in Node \ {n} : pc'[m] = pc[m]
        /\ (pc'[n] = "founder" /\ registered \subseteq {n}) \/ pc'[n] = "connected"
    BY <1>2 DEF Connect, TypeOK
  <2>2. Attached' = Attached
    BY <2>1 DEF Attached, Joined, Receiving, Stabilizing, Uploading
  <2>3. \A m \in Node : pc'[m] # "off" => m \in registered'
    BY <2>1 DEF Enrolled
  <2>4. CASE pc'[n] = "founder"
    <3>1. \A m \in Node : pc[m] = "off"
      BY <2>1, <2>4 DEF Enrolled
    <3>2. Attached = {}
      BY <3>1 DEF Attached, Joined, Receiving, Stabilizing, Uploading
    <3> QED
      BY <2>1, <2>2, <2>3, <3>1, <3>2 DEF Enrolled
  <2>5. CASE pc'[n] # "founder"
    BY <2>1, <2>2, <2>3, <2>5 DEF Enrolled
  <2> QED
    BY <2>4, <2>5
<1>3. CASE ~Connect(n)
  <2>1. /\ pc[n] # "off" /\ pc'[n] # "founder" /\ registered' = registered
        /\ \A m \in Node \ {n} : pc'[m] = pc[m]
    <3>1. CASE Step(n)
      BY <1>1, <3>1, StepGoesOn DEF GoesOn
    <3>2. CASE Stabilize(n) \/ \E f \in File : Upload(n, f)
      BY <3>2 DEF Stabilize, Upload, TypeOK, net
    <3> QED
      BY <1>1, <1>3, <3>1, <3>2 DEF Command
  <2>2. \A m \in Node : pc'[m] # "off" => m \in registered'
    BY <2>1 DEF Enrolled
  <2>3. ASSUME NEW m \in Node, pc'[m] = "founder"
        PROVE  m # n /\ pc[m] = "founder" /\ Attached = {}
    BY <2>1, <2>3 DEF Enrolled
  <2>4. ASSUME NEW m \in Node, pc'[m] = "founder" PROVE Attached' = {}
    <3>1. Calm
      <4>1. ~Introduces(n) /\ ~Adopts(n)
        BY <2>3, <2>4 DEF Introduces, Adopts
      <4>2. ~Founds(n)
        BY <2>3, <2>4 DEF Founds, Enrolled
      <4> QED
        BY <1>1, <4>1, <4>2 DEF RingMove
    <3> QED
      BY <2>3, <2>4, <3>1 DEF Calm
  <2> QED
    BY <2>2, <2>3, <2>4 DEF Enrolled
<1> QED
  BY <1>2, <1>3

LEMMA RingInit == Init => RingInv
<1> SUFFICES ASSUME Init PROVE RingInv
  OBVIOUS
<1>1. Attached = {}
  BY DEF Init, Attached, Joined, Receiving, Stabilizing, Uploading
<1>2. \A n \in Node : successor(n) = Blank
  BY DEF Init, successor, Fingers
<1>3. Enrolled /\ Linked /\ Known
  BY <1>1, <1>2 DEF Init, Enrolled, Linked, Known
<1>4. OneRing
  BY <1>1 DEF OneRing, Closed
<1> QED
  BY <1>3, <1>4 DEF RingInv

LEMMA RingStep ==
    ASSUME NobodyLeaves, TypeInv, TypeInv', LockInv, RingInv, [Next]_vars
    PROVE  RingInv'
<1>1. CASE UNCHANGED vars
  <2>1. /\ registered' = registered /\ finger' = finger /\ init' = init /\ prev' = prev
        /\ pinit' = pinit /\ pc' = pc
    BY <1>1 DEF vars, net, ring
  <2>2. Enrolled' /\ Linked'
    BY <2>1 DEF RingInv, Enrolled, Linked, Attached, Joined, successor
  <2>3. Known'
    BY <2>1 DEF RingInv, Known, Attached, Joined, successor, Succ
  <2>4. OneRing'
    BY <2>1 DEF RingInv, OneRing, Attached, Joined, successor, Rings, Closed, Ordered
  <2> QED
    BY <2>2, <2>3, <2>4 DEF RingInv
<1>2. ASSUME NEW n \in Node, Step(n) \/ Command(n) \/ Crash(n) PROVE RingInv'
  <2>1. RingMove(n) /\ Linked' /\ Enrolled'
    BY <1>2, RingMoves, EnrolledStep
  <2>2. RingTypes /\ RingTypes'
    BY RingTyped, PTL
  <2>3. Closed(Attached) /\ Known /\ OneRing
    BY DEF RingInv, OneRing
  <2>4. Known' /\ OneRing'
    BY <2>1, <2>2, <2>3, KnownStep, OneRingStep DEF RingMove
  <2> QED
    BY <2>1, <2>4 DEF RingInv
<1> QED
  BY <1>1, <1>2 DEF Next

\* While no tracker stops or dies, whatever their commands interleave to, the
\* trackers form one ring in the order of their keys, and every one of them
\* leads into it.
THEOREM TrackersFormOneRing == ASSUME NobodyLeaves PROVE Spec => []OneRing
<1>1. Init => TypeInv /\ LockOK /\ RingInv
  BY TypeInit, LockInit, RingInit
<1>2. TypeInv /\ LockOK /\ RingInv /\ [Next]_vars => TypeInv' /\ LockOK' /\ RingInv'
  BY TypeStep, LockStep, RingStep DEF LockOK
<1>3. RingInv => OneRing
  BY DEF RingInv
<1> QED
  BY <1>1, <1>2, <1>3, PTL DEF Spec

\* And a successor pointer only moves closer.
THEOREM SuccessorsImprove == ASSUME NobodyLeaves PROVE Spec => SuccessorOnlyImproves
<1>1. Init => TypeInv /\ LockOK /\ RingInv
  BY TypeInit, LockInit, RingInit
<1>2. TypeInv /\ LockOK /\ RingInv /\ [Next]_vars => TypeInv' /\ LockOK' /\ RingInv'
  BY TypeStep, LockStep, RingStep DEF LockOK
<1>3. ASSUME TypeInv, TypeInv', LockInv, RingInv, [Next]_vars,
             NEW n \in Node, Joined(n), successor(n)' # successor(n)
      PROVE  InOpen(successor(n)', n, successor(n))
  <2>1. n \in Attached /\ Succ[n] = successor(n) /\ Succ'[n] = successor(n)'
    BY <1>3 DEF Attached, Succ
  <2>2. PICK m \in Node : Step(m) \/ Command(m) \/ Crash(m)
    BY <1>3 DEF Next, vars, ring, successor
  <2>3. RingMove(m)
    BY <1>3, <2>2, RingMoves
  <2>4. Adopts(m) /\ m = n
    BY <1>3, <2>1, <2>3 DEF RingMove, Calm, Introduces, Adopts, Founds
  <2> QED
    BY <2>1, <2>4 DEF Adopts
<1>4. TypeInv /\ TypeInv' /\ LockInv /\ RingInv /\ [Next]_vars
         => [\A n \in Node : Joined(n) /\ successor(n)' # successor(n)
                => InOpen(successor(n)', n, successor(n))]_vars
  BY <1>3
<1> QED
  BY <1>1, <1>2, <1>4, PTL DEF Spec, SuccessorOnlyImproves, LockOK

-----------------------------------------------------------------------------
\* Lookups.

\* On a ring whose pointers are right, the tracker after the one that precedes
\* a key is the first at or after the key.
LEMMA NextOfIs ==
    ASSUME NEW n \in Node, Members # {}
    PROVE  NextOf(n) \in Members /\ \A m \in Members : Arc(n, NextOf(n)) <= Arc(n, m)
<1> DEFINE M == {Arc(n, m) : m \in Members}
<1>1. Members \subseteq Node
  BY DEF Members
<1>2. M \in SUBSET Nat /\ M # {}
  BY <1>1, ArcType
<1>3. PICK d \in M : \A e \in M : d <= e
  BY <1>2, LeastExists
<1>4. PICK s \in Members : d = Arc(n, s)
  BY <1>3
<1>5. \A m \in Members : Arc(n, s) <= Arc(n, m)
  BY <1>3, <1>4
<1> QED
  BY <1>5 DEF NextOf, Arc

LEMMA FirstAfter ==
    ASSUME NEW c \in Key, NEW k \in Key, NEW s \in Key, NEW m \in Key,
           Arc(c, k) <= Arc(c, s), Arc(c, s) <= Arc(c, m)
    PROVE  Gap(k, s, KeySpace) <= Gap(k, m, KeySpace)
           /\ (Gap(k, m, KeySpace) <= Gap(k, s, KeySpace) => m = s)
  BY DEF Arc, Walk, Gap, Key

LEMMA IdealRingAnswers ==
    ASSUME RingIsIdeal, NEW c \in Members, NEW k \in Key, InHalfOpen(k, c, successor(c))
    PROVE  successor(c) = Successor(k)
<1> DEFINE s == successor(c)
<1>1. Members \subseteq Node /\ c \in Node
  BY DEF Members
<1>2. s \in Members /\ \A m \in Members : Arc(c, s) <= Arc(c, m)
  BY <1>1, NextOfIs DEF RingIsIdeal
<1>3. Arc(c, k) <= Arc(c, s)
  BY <1>1, <1>2, KeyInIsClockwise DEF Arc
<1> HIDE DEF s
<1>4. \A m \in Members : /\ Gap(k, s, KeySpace) <= Gap(k, m, KeySpace)
                         /\ Gap(k, m, KeySpace) <= Gap(k, s, KeySpace) => m = s
  BY <1>1, <1>2, <1>3, FirstAfter
<1>5. Successor(k) = s
  BY <1>2, <1>4 DEF Successor
<1> QED
  BY <1>5 DEF s

\* One command at a time: a lookup is on its own, and what it has read of its
\* current tracker's successor is still true.
Busy  == {m \in Node : pc[m] \notin {"off", "idle"}}
Alone == \A m, n \in Busy : m = n
OwnLookups ==
    \A n \in Node :
        /\ pc[n] = "jfind" => lk[n].id = n /\ lk[n].cur # n
        /\ pc[n] \in LookingUp \ {"jfind"} => lk[n].host = n
FreshNext ==
    \A n \in Node : pc[n] \in LookingUp /\ ~lk[n].hop /\ lk[n].cur \in Node
                        => lk[n].nxt = successor(lk[n].cur)
LookupInv == Alone /\ OwnLookups /\ FreshNext

\* How a lookup begins; and a step that leaves n looking up begins a lookup or
\* carries it on.
Begins(n) ==
    /\ \A m \in Node : finger'[m][0] = finger[m][0]
    /\ \E h \in Node, k \in Key :
           /\ lk'[n] = Find(h, k)
           /\ IF pc'[n] = "jfind" THEN h # n /\ k = n ELSE h = n

LEMMA LookingOn ==
    ASSUME TypeInv, LockOK, NEW n \in Node, Step(n) \/ Command(n), pc'[n] \in LookingUp
    PROVE  LookupHop(n) \/ LookupNext(n) \/ Begins(n)
<1> TypeOK /\ LookingUp = {"jfind", "fix", "mfind", "ufind"}
  BY DEF TypeInv, LookingUp
<1> USE DEF TypeOK
<1>1. CASE JoinStep(n)
  <2>1. CASE JoinAsk(n)
    <3>1. /\ pc[n] = "jask" /\ pc'[n] = "jfind" /\ lk'[n] = Find(lk[n].host, n)
          /\ finger' = finger
      BY <2>1 DEF JoinAsk, ring
    <3>2. lk[n].host \in Node /\ lk[n].host # n /\ n \in Key
      BY <3>1 DEF LockOK, AskOther, Lookup
    <3> QED
      BY <3>1, <3>2 DEF Begins
  <2>2. CASE JoinAlone(n) \/ JoinReset(n) \/ JoinFound(n)
    BY <2>2 DEF JoinAlone, JoinReset, JoinFound
  <2>3. CASE JoinNotify(n) \/ JoinMove(n) \/ JoinReceive(n) \/ JoinReceiveFails(n)
            \/ JoinDone(n)
    BY <2>3 DEF JoinNotify, JoinMove, JoinReceive, JoinReceiveFails, JoinDone
  <2> QED
    BY <1>1, <2>1, <2>2, <2>3 DEF JoinStep
<1>2. ASSUME Fails(n) PROVE FALSE
  BY <1>2 DEF Fails
<1>3. CASE StabilizeStep(n) \/ Stabilize(n)
  <2>1. CASE NotifyNext(n)
    <3>1. /\ pc'[n] = "fix" /\ lk'[n] = Find(n, FixStart[n]) /\ finger' = finger
      BY <2>1 DEF NotifyNext
    <3>2. FixStart[n] \in Key
      OBVIOUS
    <3> QED
      BY <3>1, <3>2 DEF Begins
  <2>2. CASE FixFinger(n)
    <3>1. /\ finger' = [finger EXCEPT ![n][FixIndex[n]] = Answer(n)]
          /\ pc[n] = "fix"
          /\ \/ pc' = pc /\ lk' = [lk EXCEPT ![n] = Find(n, FixStart[n])]
             \/ pc' = [pc EXCEPT ![n] = "migrate"]
      BY <2>2 DEF FixFinger
    <3>2. \A m \in Node : finger'[m][0] = finger[m][0]
      BY <3>1 DEF Fingers
    <3>3. pc'[n] = "fix" /\ lk'[n] = Find(n, FixStart[n]) /\ FixStart[n] \in Key
      BY <3>1
    <3> QED
      BY <3>2, <3>3 DEF Begins
  <2>3. CASE MigrateNext(n)
    <3>1. /\ pc'[n] = "mfind" /\ lk'[n] = Find(n, Least(Strays(n))) /\ finger' = finger
      BY <2>3 DEF MigrateNext, ring
    <3>2. Least(Strays(n)) \in Strays(n) /\ Strays(n) \subseteq files[n]
      BY <2>3, LeastIn DEF MigrateNext, Strays, Key
    <3>3. Least(Strays(n)) \in Key
      BY <3>2
    <3> QED
      BY <3>1, <3>3 DEF Begins
  <2>4. CASE AskPrevUnknown(n)
    BY <1>2, <2>4 DEF AskPrevUnknown
  <2>5. CASE \/ Stabilize(n) \/ PingDead(n) \/ PingAlive(n) \/ NotifyNewNext(n)
             \/ PingDone(n) \/ MustRejoin(n)
    BY <2>5 DEF Stabilize, PingDead, PingAlive, NotifyNewNext, PingDone, MustRejoin
  <2>6. CASE AskPrev(n) \/ MigrateFound(n) \/ MigrateSend(n) \/ StabilizeDone(n)
    BY <2>6 DEF AskPrev, MigrateFound, MigrateSend, StabilizeDone
  <2> QED
    BY <1>3, <2>1, <2>2, <2>3, <2>4, <2>5, <2>6 DEF StabilizeStep
<1>4. CASE LookupNotFound(n) \/ RpcFails(n)
  BY <1>2, <1>4 DEF LookupNotFound, RpcFails
<1>5. CASE \E f \in File : Upload(n, f)
  <2>1. PICK f \in File : Upload(n, f)
    BY <1>5
  <2>2. pc'[n] = "ufind" /\ lk'[n] = Find(n, f) /\ finger' = finger /\ f \in Key
    BY <2>1 DEF Upload, ring
  <2> QED
    BY <2>2 DEF Begins
<1>6. CASE UploadFound(n) \/ UploadSend(n) \/ Leave(n)
  BY <1>6 DEF UploadFound, UploadSend, Leave
<1>7. CASE Connect(n)
  <2>1. pc'[n] \in {"founder", "connected"}
    BY <1>7 DEF Connect
  <2> QED
    BY <2>1
<1>8. CASE StopServer(n) \/ LeaveSend(n) \/ LeaveDone(n)
  BY <1>8 DEF StopServer, LeaveSend, LeaveDone
<1> QED
  BY <1>1, <1>3, <1>4, <1>5, <1>6, <1>7, <1>8 DEF Step, Command

LEMMA BusyStep ==
    ASSUME TypeOK, MaxBusy = 1, Alone, NEW n \in Node, Step(n) \/ Command(n)
    PROVE  /\ \A m \in Node \ {n} : /\ pc'[m] = pc[m] /\ lk'[m] = lk[m]
                                    /\ m \notin Busy
           /\ Alone'
<1>1. CASE Step(n)
  <2>1. n \in Busy /\ \A m \in Node \ {n} : pc'[m] = pc[m] /\ lk'[m] = lk[m]
    BY <1>1, StepGoesOn DEF GoesOn, Busy
  <2>2. \A m \in Node \ {n} : m \notin Busy
    BY <2>1 DEF Alone
  <2> QED
    BY <2>1, <2>2 DEF Alone, Busy
<1>2. CASE Command(n)
  <2>1. Room /\ \A m \in Node \ {n} : pc'[m] = pc[m] /\ lk'[m] = lk[m]
    BY <1>2 DEF Command, Connect, Stabilize, Leave, Upload, TypeOK
  <2>2. Busy \subseteq Node /\ IsFiniteSet(Busy)
    BY FS_Subset DEF Busy
  <2>3. Cardinality(Busy) = 0
    BY <2>1, <2>2, FS_CardinalityType DEF Room, Busy
  <2>4. Busy = {}
    BY <2>2, <2>3, FS_EmptySet
  <2> QED
    BY <2>1, <2>4 DEF Alone, Busy
<1> QED
  BY <1>1, <1>2

\* A finger that a lookup of k hops to is never k itself.
LEMMA HopStopsBefore ==
    ASSUME TypeInv, NEW n \in Node, LookupHop(n)
    PROVE  lk'[n] = Moved(lk[n], lk'[n].cur, lk[n].nxt, TRUE) /\ lk'[n].cur # lk[n].id
<1> DEFINE c == lk[n].cur  k == lk[n].id  P == Preceding(c, k)
<1>1. c \in Node /\ k \in Key
  BY ReachableNode DEF LookupHop, TypeInv, TypeOK, Lookup
<1>2. P \in SUBSET Fingers /\ P # {}
  BY <1>1 DEF LookupHop, Preceding, TypeInv, TypeOK
<1>3. Greatest(P) \in P
  <2> HIDE DEF P
  <2> QED
    BY <1>2, GreatestIn
<1> DEFINE d == node_find_closest_preceding(c, k)
<1>4. InOpen(d, c, k)
  BY <1>3 DEF node_find_closest_preceding, Preceding
<1>5. d # k
  BY <1>1, <1>4 DEF InOpen, key_in, key_cmp, Key
<1>6. lk'[n] = Moved(lk[n], d, lk[n].nxt, TRUE)
  BY DEF LookupHop, TypeInv, TypeOK
<1> HIDE DEF d
<1> QED
  BY <1>5, <1>6 DEF Moved

LEMMA LookupStep ==
    ASSUME MaxBusy = 1, TypeInv, LockOK, LookupInv, [Next]_vars
    PROVE  LookupInv'
<1> TypeOK /\ Alone /\ OwnLookups /\ FreshNext
  BY DEF TypeInv, LookupInv
<1> USE DEF TypeOK
<1>1. CASE UNCHANGED vars
  BY <1>1 DEF vars, ring, LookupInv, Alone, Busy, OwnLookups, FreshNext, successor
<1>2. ASSUME NEW n \in Node, Crash(n) PROVE LookupInv'
  <2>1. /\ pc[n] = "idle" /\ pc'[n] = "off" /\ \A m \in Node \ {n} : pc'[m] = pc[m]
        /\ lk' = lk /\ finger' = finger
    BY <1>2 DEF Crash, ring
  <2>2. Busy' = Busy
    BY <2>1 DEF Busy
  <2>3. \A m \in Node : pc'[m] \in LookingUp => pc'[m] = pc[m]
    BY <2>1 DEF LookingUp
  <2>4. Alone'
    BY <2>2 DEF Alone
  <2>5. OwnLookups'
    BY <2>1, <2>3 DEF OwnLookups, LookingUp
  <2>6. FreshNext'
    BY <2>1, <2>3 DEF FreshNext, successor
  <2> QED
    BY <2>4, <2>5, <2>6 DEF LookupInv
<1>3. ASSUME NEW n \in Node, Step(n) \/ Command(n) PROVE LookupInv'
  <2>1. Alone' /\ \A m \in Node \ {n} : pc'[m] = pc[m] /\ lk'[m] = lk[m] /\ m \notin Busy
    BY <1>3, BusyStep
\* Only n can be looking up.
  <2>2. \A m \in Node : pc'[m] \in LookingUp => m = n
    BY <2>1 DEF Busy, LookingUp
  <2>3. CASE pc'[n] \notin LookingUp
    BY <2>1, <2>2, <2>3 DEF LookupInv, OwnLookups, FreshNext, LookingUp
  <2>4. CASE Begins(n) /\ pc'[n] \in LookingUp
    <3>1. PICK h \in Node, k \in Key :
              /\ lk'[n] = Find(h, k)
              /\ IF pc'[n] = "jfind" THEN h # n /\ k = n ELSE h = n
      BY <2>4 DEF Begins
    <3>2. /\ lk'[n].id = k /\ lk'[n].host = h /\ lk'[n].cur = h
          /\ lk'[n].nxt = successor(h)
      BY <3>1 DEF Find
    <3>3. successor(h)' = successor(h)
      BY <2>4 DEF Begins, successor
    <3>4. OwnLookups'
      BY <2>2, <3>1, <3>2 DEF OwnLookups, LookingUp
    <3>5. FreshNext'
      BY <2>2, <3>2, <3>3 DEF FreshNext
    <3> QED
      BY <2>1, <3>4, <3>5 DEF LookupInv
  <2>5. CASE LookupHop(n)
    <3>1. /\ pc' = pc
          /\ lk'[n] = Moved(lk[n], lk'[n].cur, lk[n].nxt, TRUE) /\ lk'[n].cur # lk[n].id
      BY <2>5, HopStopsBefore DEF LookupHop
    <3>2. lk'[n].id = lk[n].id /\ lk'[n].host = lk[n].host /\ lk'[n].hop
      BY <3>1 DEF Moved
    <3>3. OwnLookups' /\ FreshNext'
      BY <2>2, <3>1, <3>2 DEF OwnLookups, FreshNext, LookingUp
    <3> QED
      BY <2>1, <3>3 DEF LookupInv
  <2>6. CASE LookupNext(n)
    <3>1. /\ pc' = pc /\ finger' = finger
          /\ lk'[n] = Moved(lk[n], lk[n].cur, successor(lk[n].cur), FALSE)
      BY <2>6 DEF LookupNext, ring
    <3>2. /\ lk'[n].id = lk[n].id /\ lk'[n].host = lk[n].host /\ lk'[n].cur = lk[n].cur
          /\ lk'[n].nxt = successor(lk[n].cur)
      BY <3>1 DEF Moved
    <3>3. OwnLookups'
      <4>1. /\ pc'[n] = "jfind" => lk'[n].id = n /\ lk'[n].cur # n
            /\ pc'[n] \in LookingUp \ {"jfind"} => lk'[n].host = n
        BY <3>1, <3>2 DEF OwnLookups
      <4> QED
        BY <2>2, <4>1 DEF OwnLookups, LookingUp
    <3>4. lk'[n].nxt = finger'[lk'[n].cur][0]
      BY <3>1, <3>2 DEF successor
    <3>5. FreshNext'
      BY <2>2, <3>4 DEF FreshNext, successor
    <3> QED
      BY <2>1, <3>3, <3>5 DEF LookupInv
  <2> QED
    BY <1>3, <2>3, <2>4, <2>5, <2>6, LookingOn
<1> QED
  BY <1>1, <1>2, <1>3 DEF Next

LEMMA LookupInit == Init => LookupInv
  BY DEF Init, LookupInv, Alone, Busy, OwnLookups, FreshNext, LookingUp

\* The tracker that is about to give the last answer is a member of the ring.
LEMMA AnswersFromMember ==
    ASSUME TypeInv, LockOK, LookupInv, NEW n \in Node, pc[n] \in LookingUp, Answered(n)
    PROVE  lk[n].cur \in Members
<1> DEFINE c == lk[n].cur
<1>1. n \in Busy /\ c \in Node
  BY ReachableNode DEF Busy, LookingUp, Answered
<1>2. CASE c = n
  <2>1. Joined(n)
    BY <1>2 DEF LookupInv, OwnLookups, LookingUp, Joined, Stabilizing, Uploading
  <2> QED
    BY <1>2, <2>1 DEF Members
<1>3. CASE c # n
  <2>1. pc[c] \in {"off", "idle"}
    BY <1>1, <1>3 DEF LookupInv, Alone, Busy
  <2>2. c \in listening
    <3>1. CASE c = lk[n].host
      <4>1. pc[n] = "jfind"
        BY <1>3, <3>1 DEF LookupInv, OwnLookups
      <4> QED
        BY <1>1, <3>1, <4>1 DEF LockOK, LockInv
    <3>2. CASE c # lk[n].host
      BY <3>2 DEF Answered, Reachable, CanServe
    <3> QED
      BY <3>1, <3>2
  <2>3. pc[c] = "idle"
    BY <1>1, <2>1, <2>2 DEF LockOK, LockInv
  <2> QED
    BY <1>1, <2>3 DEF Members, Joined
<1> QED
  BY <1>2, <1>3

\* While one command runs at a time, a lookup on a ring whose pointers are
\* right answers with the first tracker at or after the key, whatever the other
\* fingers hold and whoever has left or died before.
THEOREM LookupFindsSuccessor == ASSUME MaxBusy = 1 PROVE Spec => []LookupIsSound
<1>1. Init => TypeInv /\ LockOK /\ LookupInv
  BY TypeInit, LockInit, LookupInit
<1>2. TypeInv /\ LockOK /\ LookupInv /\ [Next]_vars => TypeInv' /\ LockOK' /\ LookupInv'
  BY TypeStep, LockStep, LookupStep
<1>3. TypeInv /\ LockOK /\ LookupInv => LookupIsSound
  <2>1. SUFFICES ASSUME TypeInv, LockOK, LookupInv, NEW n \in Node, pc[n] \in LookingUp,
                        lk[n].id # lk[n].host, Answered(n), RingIsIdeal
                 PROVE  Answer(n) = Successor(lk[n].id)
    BY DEF LookupIsSound
  <2>2. lk[n].cur \in Members /\ lk[n].cur \in Node
    BY <2>1, AnswersFromMember DEF Members
  <2>3. lk[n].nxt = successor(lk[n].cur)
    BY <2>1, <2>2 DEF LookupInv, FreshNext, Answered
  <2>4. InHalfOpen(lk[n].id, lk[n].cur, successor(lk[n].cur)) /\ lk[n].id \in Key
    BY <2>1, <2>3 DEF Answered, Arrived, TypeInv, TypeOK, Lookup
  <2> QED
    BY <2>1, <2>2, <2>4, IdealRingAnswers DEF Answer
<1> QED
  BY <1>1, <1>2, <1>3, PTL DEF Spec
=============================================================================
