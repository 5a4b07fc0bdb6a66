---------------------------- MODULE SwarmProofs ----------------------------
(***************************************************************************)
(* Proofs about Swarm.tla for any number of clients, workers, server       *)
(* threads, blocks, faults and retries: its types, that whoever is listed  *)
(* as a peer has the torrent (PeersHaveIt), and that blocks of zeros come  *)
(* from downloads offered as whole (ZerosAreDownloaded). Inv joins them    *)
(* with Behaves, what a process may do and what its request may have been  *)
(* told, and Sources, whom a download asks. One lemma per action shows     *)
(* that Inv is kept: what the action does to its own process (Behaves),    *)
(* and that it leaves the others theirs (Apart, Others).                   *)
(***************************************************************************)
EXTENDS Swarm, TLAPS

-----------------------------------------------------------------------------
\* The parts of TypeOK, one for each group of variables that actions change.

SwarmTypes ==
    /\ alive \subseteq Node /\ serving \subseteq Tracker
    /\ stopped \subseteq MayStop
    /\ peers \subseteq Tracker /\ local \subseteq Uploaders

DownloadTypes ==
    /\ state \in [Node -> {"none", "IDLE", "RUNNING", "PAUSED", "DONE"}]
    /\ owned \in [Node -> SUBSET Block]
    /\ disk \in [Node -> [Block -> {"data", "zero"}]]
    /\ sources \in [Node -> SUBSET Tracker]

LockTypes ==
    /\ tlock \in [Tracker -> Proc \cup {Nobody}]
    /\ dlock \in [Node -> Proc \cup {Nobody}]
    /\ wlock \in [Node -> Proc \cup {Nobody}]

Activity == {"idle", "upload", "search", "add", "retry", "init",
             "announce", "scan", "claim", "block", "fetch", "finish"}

ProcessTypes ==
    /\ pc \in [Proc -> Activity]
    /\ todo \in [Proc -> SUBSET Tracker]
    /\ at \in [Proc -> 0 .. Blocks] /\ missed \in [Proc -> BOOLEAN]

Stages == {"none", "sent", "accepted", "waiting", "reading",
           "answered", "failed", "hung"}

CallTypes ==
    /\ to \in [Proc -> Tracker] /\ answer \in [Proc -> Answer]
    /\ stage \in [Proc -> Stages]

BoundTypes ==
    /\ tried \in 0 .. MaxTries /\ paused \in 0 .. MaxPauses
    /\ faults \in 0 .. MaxFaults

LEMMA Parts ==
    ASSUME TypeOK
    PROVE  /\ SwarmTypes /\ DownloadTypes /\ LockTypes
           /\ ProcessTypes /\ CallTypes /\ BoundTypes
<1>1. SwarmTypes /\ LockTypes
  BY DEF TypeOK, SwarmTypes, LockTypes
<1>2. DownloadTypes
  BY DEF TypeOK, DownloadTypes
<1>3. ProcessTypes
  BY DEF TypeOK, ProcessTypes, Activity
<1>4. CallTypes
  BY DEF TypeOK, CallTypes, Stages
<1>5. BoundTypes
  BY DEF TypeOK, BoundTypes
<1> QED
  BY <1>1, <1>2, <1>3, <1>4, <1>5

LEMMA Whole ==
    ASSUME SwarmTypes', DownloadTypes', LockTypes', ProcessTypes', CallTypes',
           BoundTypes'
    PROVE  TypeOK'
  BY Zenon DEF TypeOK, SwarmTypes, DownloadTypes, LockTypes, ProcessTypes,
               CallTypes, BoundTypes, Activity, Stages

-----------------------------------------------------------------------------
\* A process is a worker or the user of its client.
LEMMA Processes ==
    /\ \A n \in Node : User(n) \in Proc \ Worker /\ User(n)[1] = n
    /\ \A m, n \in Node : User(m) = User(n) => m = n
    /\ \A p \in Worker : p \in Proc /\ p[1] \in Node
    /\ \A p \in Proc : p[1] \in Node /\ (p \in Worker \/ p = User(p[1]))
  BY SwarmAssumption DEF Proc, User

LEMMA Answering ==
    /\ NULL \in Answer /\ {"whole"} \in Answer
    /\ \A data \in {"data", "zero"} : {data} \in Answer
    /\ \A S \in SUBSET Tracker : S \in Answer
  BY SwarmAssumption DEF NULL, Answer

-----------------------------------------------------------------------------
\* The invariant.

UserPlace   == {"idle", "upload", "search", "add", "retry", "init", "announce"}
WorkerPlace == {"scan", "claim", "block", "fetch", "finish"}
Asking      == {"upload", "search", "init", "announce", "fetch"}

Behaves(p) ==
    \* what it does
    /\ pc[p] \in IF p \in Worker THEN WorkerPlace ELSE UserPlace
    /\ pc[p] = "upload" => p[1] \in Uploaders
    /\ p \notin Worker /\ pc[p] \notin {"idle", "upload"} => p[1] \in Downloaders
    /\ pc[p] \in {"retry", "announce"} => state[p[1]] # "none"
    /\ pc[p] = "announce" /\ stage[p] # "none" => p[1] \in Tracker
    /\ pc[p] \in {"retry", "init", "claim"} => dlock[p[1]] = p
    /\ pc[p] = "fetch" => at[p] \in Block
    \* whom it asks
    /\ todo[p] \subseteq peers
    /\ pc[p] \in {"init", "fetch"} /\ stage[p] # "none" => to[p] \in todo[p]
    /\ pc[p] = "fetch" /\ p[1] \in todo[p] => p[1] \in local \cup stopped
    \* how far its request is
    /\ stage[p] # "none" => pc[p] \in Asking
    /\ stage[p] \in {"waiting", "reading"} => pc[p] \in {"init", "fetch"}
    /\ stage[p] = "reading" =>
          pc[p] = "fetch" /\ (to[p] \in local \/ state[to[p]] # "none")
    \* what it was told
    /\ stage[p] # "answered" => answer[p] = NULL
    /\ pc[p] = "search" => answer[p] \subseteq peers
    /\ pc[p] = "init" /\ answer[p] # NULL /\ to[p] = p[1] =>
          p[1] \in local \cup stopped
    /\ pc[p] = "fetch" => answer[p] \subseteq {"data", "zero"}
    /\ pc[p] = "fetch" /\ "zero" \in answer[p] =>
          to[p] \in Downloaders /\ (to[p] # p[1] \/ p[1] \in stopped)

\* A download is not its own source, save of a file it uploaded: the handler of
\* the request that would make it one waits for the lock that the retry holds.
Sources(n) ==
    /\ sources[n] \subseteq peers
    /\ n \in sources[n] => n \in local \cup stopped
    /\ state[n] # "none" => n \in Downloaders

Inv ==
    /\ TypeOK
    /\ \A p \in Proc : Behaves(p)
    /\ \A n \in Node : Sources(n)
    /\ PeersHaveIt
    /\ ZerosAreDownloaded

LEMMA Given ==
    ASSUME Inv
    PROVE  /\ SwarmTypes /\ DownloadTypes /\ LockTypes
           /\ ProcessTypes /\ CallTypes /\ BoundTypes
           /\ \A p \in Proc : Behaves(p)
           /\ \A n \in Node : Sources(n)
           /\ PeersHaveIt /\ ZerosAreDownloaded
           /\ Nobody \notin Proc
           /\ Home \in Tracker /\ Tracker \subseteq Node
           /\ Uploaders \subseteq Tracker
           /\ Blocks \in Nat /\ MaxFaults \in Nat
  BY Parts, SwarmAssumption DEF Inv

\* What an action of p leaves to the others.
Apart(p) ==
    /\ \A q \in Proc \ {p} :
          /\ pc'[q] = pc[q] /\ stage'[q] = stage[q] /\ answer'[q] = answer[q]
          /\ at'[q] = at[q] /\ to'[q] = to[q] /\ todo'[q] = todo[q]
          /\ dlock[q[1]] = q => dlock'[q[1]] = q
    /\ \A n \in Node : state[n] # "none" => state'[n] # "none"
    /\ local \subseteq local' /\ peers \subseteq peers' /\ stopped \subseteq stopped'

LEMMA Others ==
    ASSUME Inv, NEW p \in Proc, Apart(p), Behaves(p)'
    PROVE  \A q \in Proc : Behaves(q)'
<1>1. SUFFICES ASSUME NEW q \in Proc \ {p} PROVE Behaves(q)'
  OBVIOUS
<1>2. /\ Behaves(q) /\ q[1] \in Node /\ to[q] \in Node
      /\ todo'[q] = todo[q] /\ pc'[q] = pc[q] /\ stage'[q] = stage[q]
      /\ answer'[q] = answer[q] /\ at'[q] = at[q] /\ to'[q] = to[q]
      /\ dlock[q[1]] = q => dlock'[q[1]] = q
  BY Processes, Given DEF Apart, CallTypes
<1>3. /\ \A n \in Node : state[n] # "none" => state'[n] # "none"
      /\ local \subseteq local' /\ peers \subseteq peers' /\ stopped \subseteq stopped'
  BY DEF Apart
<1> QED
  BY <1>2, <1>3 DEF Behaves

-----------------------------------------------------------------------------
\* The user of n.

LEMMA UploadInv == ASSUME Inv, NEW n \in Node, Upload(n) PROVE Inv'
<1> USE Processes DEF Upload, Goto, Ask, online, swarm, download, locks
<1>0. /\ User(n) \in Proc /\ User(n)[1] \in Node
      /\ Behaves(User(n)) /\ Sources(User(n)[1])
  BY Given
<1>1. SwarmTypes' /\ DownloadTypes' /\ LockTypes'
  BY Given DEF SwarmTypes, DownloadTypes, LockTypes
<1>2. ProcessTypes'
  BY <1>0, Given DEF ProcessTypes, Activity
<1>3. CallTypes'
  BY <1>0, Given, Answering DEF CallTypes, Stages, SwarmTypes
<1>4. BoundTypes'
  BY <1>0, Given, SwarmAssumption DEF BoundTypes
<1>5. TypeOK'
  BY <1>1, <1>2, <1>3, <1>4, Whole
<1>6. Apart(User(n))
  BY <1>0, Given DEF Apart, ProcessTypes, CallTypes, BoundTypes
<1>7. Behaves(User(n))'
  BY <1>0, Given DEF Behaves, UserPlace, WorkerPlace, Asking, ProcessTypes,
       CallTypes, BoundTypes
<1>8. \A m \in Node : Sources(m)'
  BY Given DEF Sources
<1>9. PeersHaveIt'
  BY Given DEF PeersHaveIt
<1>10. ZerosAreDownloaded'
  BY Given DEF ZerosAreDownloaded
<1> QED
  BY <1>0, <1>5, <1>6, <1>7, <1>8, <1>9, <1>10, Others DEF Inv

LEMMA UploadedInv == ASSUME Inv, NEW n \in Node, Uploaded(n) PROVE Inv'
<1> USE Processes DEF Uploaded, online, Goto, Done, download, locks, bounds
<1>0. /\ User(n) \in Proc /\ User(n)[1] \in Node
      /\ Behaves(User(n)) /\ Sources(User(n)[1])
  BY Given
<1>1. DownloadTypes' /\ LockTypes' /\ BoundTypes'
  BY Given DEF DownloadTypes, LockTypes, BoundTypes
<1>2. SwarmTypes'
  BY <1>0, Given DEF SwarmTypes, Behaves
<1>3. ProcessTypes'
  BY <1>0, Given DEF ProcessTypes, Activity
<1>4. CallTypes'
  BY <1>0, Given, Answering DEF CallTypes, Stages, SwarmTypes
<1>5. TypeOK'
  BY <1>1, <1>2, <1>3, <1>4, Whole
<1>6. Apart(User(n))
  BY <1>0, Given DEF Apart, SwarmTypes, ProcessTypes, CallTypes
<1>7. Behaves(User(n))'
  BY <1>0, Given DEF Behaves, UserPlace, WorkerPlace, Asking, SwarmTypes,
       ProcessTypes, CallTypes
<1>8. \A m \in Node : Sources(m)'
  BY Given DEF Sources
<1>9. PeersHaveIt'
  BY <1>0, Given DEF PeersHaveIt, Behaves, SwarmTypes, ProcessTypes, CallTypes
<1>10. ZerosAreDownloaded'
  BY Given DEF ZerosAreDownloaded
<1> QED
  BY <1>0, <1>5, <1>6, <1>7, <1>8, <1>9, <1>10, Others DEF Inv

LEMMA SearchInv == ASSUME Inv, NEW n \in Node, Search(n) PROVE Inv'
<1> USE Processes DEF Search, Goto, Ask, online, swarm, download, locks
<1>0. /\ User(n) \in Proc /\ User(n)[1] \in Node
      /\ Behaves(User(n)) /\ Sources(User(n)[1])
  BY Given
<1>1. SwarmTypes' /\ DownloadTypes' /\ LockTypes'
  BY Given DEF SwarmTypes, DownloadTypes, LockTypes
<1>2. ProcessTypes'
  BY <1>0, Given DEF ProcessTypes, Activity
<1>3. CallTypes'
  BY <1>0, Given, Answering DEF CallTypes, Stages, SwarmTypes
<1>4. BoundTypes'
  BY <1>0, Given, SwarmAssumption DEF BoundTypes
<1>5. TypeOK'
  BY <1>1, <1>2, <1>3, <1>4, Whole
<1>6. Apart(User(n))
  BY <1>0, Given DEF Apart, ProcessTypes, CallTypes, BoundTypes
<1>7. Behaves(User(n))'
  BY <1>0, Given DEF Behaves, UserPlace, WorkerPlace, Asking, NULL, Block,
       ProcessTypes, CallTypes, BoundTypes
<1>8. \A m \in Node : Sources(m)'
  BY Given DEF Sources
<1>9. PeersHaveIt'
  BY Given DEF PeersHaveIt
<1>10. ZerosAreDownloaded'
  BY Given DEF ZerosAreDownloaded
<1> QED
  BY <1>0, <1>5, <1>6, <1>7, <1>8, <1>9, <1>10, Others DEF Inv

LEMMA FoundInv == ASSUME Inv, NEW n \in Node, Found(n) PROVE Inv'
<1> USE Processes DEF Found, Goto, Done, online, swarm, download, locks, bounds
<1>0. /\ User(n) \in Proc /\ User(n)[1] \in Node
      /\ Behaves(User(n)) /\ Sources(User(n)[1])
  BY Given
<1>1. SwarmTypes' /\ DownloadTypes' /\ LockTypes' /\ BoundTypes'
  BY Given DEF SwarmTypes, DownloadTypes, LockTypes, BoundTypes
<1>2. ProcessTypes'
  BY <1>0, Given DEF ProcessTypes, Activity, SwarmTypes, DownloadTypes,
       CallTypes, Block, Behaves
<1>3. CallTypes'
  BY <1>0, Given, Answering DEF CallTypes, Stages, SwarmTypes
<1>4. TypeOK'
  BY <1>1, <1>2, <1>3, Whole
<1>5. Apart(User(n))
  BY <1>0, Given DEF Apart, ProcessTypes, CallTypes
<1>6. Behaves(User(n))'
  BY <1>0, Given DEF Behaves, UserPlace, WorkerPlace, Asking, ProcessTypes,
       CallTypes
<1>7. \A m \in Node : Sources(m)'
  BY Given DEF Sources
<1>8. PeersHaveIt'
  BY Given DEF PeersHaveIt
<1>9. ZerosAreDownloaded'
  BY Given DEF ZerosAreDownloaded
<1> QED
  BY <1>0, <1>4, <1>5, <1>6, <1>7, <1>8, <1>9, Others DEF Inv

LEMMA AddInv == ASSUME Inv, NEW n \in Node, Add(n) PROVE Inv'
<1> USE Processes DEF Add, Lock, Goto, online, swarm, download, call, bounds
<1>0. /\ User(n) \in Proc /\ User(n)[1] \in Node
      /\ Behaves(User(n)) /\ Sources(User(n)[1])
  BY Given
<1>1. SwarmTypes' /\ DownloadTypes' /\ LockTypes' /\ CallTypes' /\ BoundTypes'
  BY Given DEF SwarmTypes, DownloadTypes, LockTypes, CallTypes, BoundTypes
<1>2. ProcessTypes'
  BY <1>0, Given DEF ProcessTypes, Activity
<1>3. TypeOK'
  BY <1>1, <1>2, Whole
<1>4. Apart(User(n))
  BY <1>0, Given DEF Apart, ProcessTypes
<1>5. Behaves(User(n))'
  BY <1>0, Given DEF Behaves, UserPlace, WorkerPlace, Asking, Sources, NULL,
       Block, SwarmTypes, DownloadTypes, LockTypes, ProcessTypes, CallTypes
<1>6. \A m \in Node : Sources(m)'
  BY Given DEF Sources
<1>7. PeersHaveIt'
  BY Given DEF PeersHaveIt
<1>8. ZerosAreDownloaded'
  BY Given DEF ZerosAreDownloaded
<1> QED
  BY <1>0, <1>3, <1>4, <1>5, <1>6, <1>7, <1>8, Others DEF Inv

LEMMA AddFailsInv == ASSUME Inv, NEW n \in Node, AddFails(n) PROVE Inv'
<1> USE Processes DEF AddFails, Goto, online, swarm, download, locks, call, bounds
<1>0. /\ User(n) \in Proc /\ User(n)[1] \in Node
      /\ Behaves(User(n)) /\ Sources(User(n)[1])
  BY Given
<1>1. SwarmTypes' /\ DownloadTypes' /\ LockTypes' /\ CallTypes' /\ BoundTypes'
  BY Given DEF SwarmTypes, DownloadTypes, LockTypes, CallTypes, BoundTypes
<1>2. ProcessTypes'
  BY <1>0, Given DEF ProcessTypes, Activity
<1>3. TypeOK'
  BY <1>1, <1>2, Whole
<1>4. Apart(User(n))
  BY <1>0, Given DEF Apart, ProcessTypes
<1>5. Behaves(User(n))'
  BY <1>0, Given DEF Behaves, UserPlace, WorkerPlace, Asking, ProcessTypes
<1>6. \A m \in Node : Sources(m)'
  BY Given DEF Sources
<1>7. PeersHaveIt'
  BY Given DEF PeersHaveIt
<1>8. ZerosAreDownloaded'
  BY Given DEF ZerosAreDownloaded
<1> QED
  BY <1>0, <1>3, <1>4, <1>5, <1>6, <1>7, <1>8, Others DEF Inv

LEMMA AddAgainInv == ASSUME Inv, NEW n \in Node, AddAgain(n) PROVE Inv'
<1> USE Processes DEF AddAgain, Lock, Goto, online, swarm, download, call, bounds
<1>0. /\ User(n) \in Proc /\ User(n)[1] \in Node
      /\ Behaves(User(n)) /\ Sources(User(n)[1])
  BY Given
<1>1. SwarmTypes' /\ DownloadTypes' /\ LockTypes' /\ CallTypes' /\ BoundTypes'
  BY Given DEF SwarmTypes, DownloadTypes, LockTypes, CallTypes, BoundTypes
<1>2. ProcessTypes'
  BY <1>0, Given DEF ProcessTypes, Activity
<1>3. TypeOK'
  BY <1>1, <1>2, Whole
<1>4. Apart(User(n))
  BY <1>0, Given DEF Apart, ProcessTypes
<1>5. Behaves(User(n))'
  BY <1>0, Given DEF Behaves, UserPlace, WorkerPlace, Asking, Sources, NULL,
       Block, SwarmTypes, DownloadTypes, LockTypes, ProcessTypes, CallTypes
<1>6. \A m \in Node : Sources(m)'
  BY Given DEF Sources
<1>7. PeersHaveIt'
  BY Given DEF PeersHaveIt
<1>8. ZerosAreDownloaded'
  BY Given DEF ZerosAreDownloaded
<1> QED
  BY <1>0, <1>3, <1>4, <1>5, <1>6, <1>7, <1>8, Others DEF Inv

LEMMA RetryInv == ASSUME Inv, NEW n \in Node, Retry(n) PROVE Inv'
<1> USE Processes DEF Retry, Lock, Goto, online, swarm, call, bounds
<1>0. /\ User(n) \in Proc /\ User(n)[1] \in Node
      /\ Behaves(User(n)) /\ Sources(User(n)[1])
  BY Given
<1>1. SwarmTypes' /\ LockTypes' /\ CallTypes' /\ BoundTypes'
  BY Given DEF SwarmTypes, LockTypes, CallTypes, BoundTypes
<1>2. DownloadTypes'
  BY <1>0, Given DEF DownloadTypes, Block
<1>3. ProcessTypes'
  BY <1>0, Given DEF ProcessTypes, Activity
<1>4. TypeOK'
  BY <1>1, <1>2, <1>3, Whole
<1>5. Apart(User(n))
  BY <1>0, Given DEF Apart, DownloadTypes, ProcessTypes
<1>6. Behaves(User(n))'
  BY <1>0, Given DEF Behaves, UserPlace, WorkerPlace, Asking, DownloadTypes,
       ProcessTypes
<1>7. \A m \in Node : Sources(m)'
  BY Given DEF Sources
<1>8. PeersHaveIt'
  BY Given DEF PeersHaveIt
<1>9. ZerosAreDownloaded'
  BY Given DEF ZerosAreDownloaded
<1> QED
  BY <1>0, <1>4, <1>5, <1>6, <1>7, <1>8, <1>9, Others DEF Inv

LEMMA NotRetriedInv == ASSUME Inv, NEW n \in Node, NotRetried(n) PROVE Inv'
<1> USE Processes DEF NotRetried, Unlock, Goto, online, swarm, download, call, bounds
<1>0. /\ User(n) \in Proc /\ User(n)[1] \in Node
      /\ Behaves(User(n)) /\ Sources(User(n)[1])
  BY Given
<1>1. SwarmTypes' /\ DownloadTypes' /\ LockTypes' /\ CallTypes' /\ BoundTypes'
  BY Given DEF SwarmTypes, DownloadTypes, LockTypes, CallTypes, BoundTypes
<1>2. ProcessTypes'
  BY <1>0, Given DEF ProcessTypes, Activity
<1>3. TypeOK'
  BY <1>1, <1>2, Whole
<1>4. Apart(User(n))
  BY <1>0, Given DEF Apart, Behaves, ProcessTypes
<1>5. Behaves(User(n))'
  BY <1>0, Given DEF Behaves, UserPlace, WorkerPlace, Asking, ProcessTypes
<1>6. \A m \in Node : Sources(m)'
  BY Given DEF Sources
<1>7. PeersHaveIt'
  BY Given DEF PeersHaveIt
<1>8. ZerosAreDownloaded'
  BY Given DEF ZerosAreDownloaded
<1> QED
  BY <1>0, <1>3, <1>4, <1>5, <1>6, <1>7, <1>8, Others DEF Inv

LEMMA AskPeerInv == ASSUME Inv, NEW n \in Node, AskPeer(n) PROVE Inv'
<1> USE Processes DEF AskPeer, Ask, online, swarm, download, locks, process, bounds
<1>0. /\ User(n) \in Proc /\ User(n)[1] \in Node
      /\ Behaves(User(n)) /\ Sources(User(n)[1])
  BY Given
<1>1. SwarmTypes' /\ DownloadTypes' /\ LockTypes' /\ ProcessTypes' /\ BoundTypes'
  BY Given DEF SwarmTypes, DownloadTypes, LockTypes, ProcessTypes, BoundTypes
<1>2. CallTypes'
  BY <1>0, Given DEF CallTypes, Stages, SwarmTypes, ProcessTypes, Behaves
<1>3. TypeOK'
  BY <1>1, <1>2, Whole
<1>4. Apart(User(n))
  BY <1>0, Given DEF Apart, CallTypes
<1>5. Behaves(User(n))'
  BY <1>0, Given DEF Behaves, UserPlace, WorkerPlace, Asking, CallTypes
<1>6. \A m \in Node : Sources(m)'
  BY Given DEF Sources
<1>7. PeersHaveIt'
  BY Given DEF PeersHaveIt
<1>8. ZerosAreDownloaded'
  BY Given DEF ZerosAreDownloaded
<1> QED
  BY <1>0, <1>3, <1>4, <1>5, <1>6, <1>7, <1>8, Others DEF Inv

LEMMA PeerAnswersInv == ASSUME Inv, NEW n \in Node, PeerAnswers(n) PROVE Inv'
<1> USE Processes DEF PeerAnswers, Done, online, swarm, locks, bounds
<1>0. /\ User(n) \in Proc /\ User(n)[1] \in Node
      /\ Behaves(User(n)) /\ Sources(User(n)[1])
  BY Given
<1>1. SwarmTypes' /\ LockTypes' /\ BoundTypes'
  BY Given DEF SwarmTypes, LockTypes, BoundTypes
<1>2. DownloadTypes'
  BY <1>0, Given DEF DownloadTypes, Block, SwarmTypes, ProcessTypes,
       CallTypes, Behaves
<1>3. ProcessTypes'
  BY <1>0, Given DEF ProcessTypes, Activity
<1>4. CallTypes'
  BY <1>0, Given, Answering DEF CallTypes, Stages, SwarmTypes
<1>5. TypeOK'
  BY <1>1, <1>2, <1>3, <1>4, Whole
<1>6. Apart(User(n))
  BY <1>0, Given DEF Apart, DownloadTypes, ProcessTypes, CallTypes
<1>7. Behaves(User(n))'
  BY <1>0, Given DEF Behaves, DownloadTypes, ProcessTypes, CallTypes
<1>8. \A m \in Node : Sources(m)'
  BY <1>0, Given DEF Sources, Behaves, DownloadTypes, ProcessTypes, CallTypes
<1>9. PeersHaveIt'
  BY Given DEF PeersHaveIt
<1>10. ZerosAreDownloaded'
  BY Given DEF ZerosAreDownloaded
<1> QED
  BY <1>0, <1>5, <1>6, <1>7, <1>8, <1>9, <1>10, Others DEF Inv

LEMMA PeerHasNothingInv == ASSUME Inv, NEW n \in Node, PeerHasNothing(n) PROVE Inv'
<1> USE Processes DEF PeerHasNothing, Ask, online, swarm, download, locks, process,
        bounds
<1>0. /\ User(n) \in Proc /\ User(n)[1] \in Node
      /\ Behaves(User(n)) /\ Sources(User(n)[1])
  BY Given
<1>1. SwarmTypes' /\ DownloadTypes' /\ LockTypes' /\ ProcessTypes' /\ BoundTypes'
  BY Given DEF SwarmTypes, DownloadTypes, LockTypes, ProcessTypes, BoundTypes
<1>2. CallTypes'
  BY <1>0, Given DEF CallTypes, Stages
<1>3. TypeOK'
  BY <1>1, <1>2, Whole
<1>4. Apart(User(n))
  BY <1>0, Given DEF Apart, CallTypes
<1>5. Behaves(User(n))'
  BY <1>0, Given DEF Behaves, CallTypes
<1>6. \A m \in Node : Sources(m)'
  BY Given DEF Sources
<1>7. PeersHaveIt'
  BY Given DEF PeersHaveIt
<1>8. ZerosAreDownloaded'
  BY Given DEF ZerosAreDownloaded
<1> QED
  BY <1>0, <1>3, <1>4, <1>5, <1>6, <1>7, <1>8, Others DEF Inv

LEMMA DeadPeerInv == ASSUME Inv, NEW n \in Node, DeadPeer(n) PROVE Inv'
<1> USE Processes DEF DeadPeer, Done, online, swarm, download, locks, bounds
<1>0. /\ User(n) \in Proc /\ User(n)[1] \in Node
      /\ Behaves(User(n)) /\ Sources(User(n)[1])
  BY Given
<1>1. SwarmTypes' /\ DownloadTypes' /\ LockTypes' /\ BoundTypes'
  BY Given DEF SwarmTypes, DownloadTypes, LockTypes, BoundTypes
<1>2. ProcessTypes'
  BY <1>0, Given DEF ProcessTypes, Activity
<1>3. CallTypes'
  BY <1>0, Given, Answering DEF CallTypes, Stages, SwarmTypes
<1>4. TypeOK'
  BY <1>1, <1>2, <1>3, Whole
<1>5. Apart(User(n))
  BY <1>0, Given DEF Apart, ProcessTypes, CallTypes
<1>6. Behaves(User(n))'
  BY <1>0, Given DEF Behaves, ProcessTypes, CallTypes
<1>7. \A m \in Node : Sources(m)'
  BY Given DEF Sources
<1>8. PeersHaveIt'
  BY Given DEF PeersHaveIt
<1>9. ZerosAreDownloaded'
  BY Given DEF ZerosAreDownloaded
<1> QED
  BY <1>0, <1>4, <1>5, <1>6, <1>7, <1>8, <1>9, Others DEF Inv

LEMMA AddedInv == ASSUME Inv, NEW n \in Node, Added(n) PROVE Inv'
<1> USE Processes DEF Added, Unlock, Goto, online, swarm, call, bounds
<1>0. /\ User(n) \in Proc /\ User(n)[1] \in Node
      /\ Behaves(User(n)) /\ Sources(User(n)[1])
  BY Given
<1>1. SwarmTypes' /\ CallTypes' /\ BoundTypes'
  BY Given DEF SwarmTypes, CallTypes, BoundTypes
<1>2. DownloadTypes'
  BY <1>0, Given DEF DownloadTypes, Block
<1>3. LockTypes'
  BY <1>0, Given DEF LockTypes
<1>4. ProcessTypes'
  BY <1>0, Given DEF ProcessTypes, Activity
<1>5. TypeOK'
  BY <1>1, <1>2, <1>3, <1>4, Whole
<1>6. Apart(User(n))
  BY <1>0, Given DEF Apart, Behaves, DownloadTypes, LockTypes, ProcessTypes
<1>7. Behaves(User(n))'
  BY <1>0, Given DEF Behaves, UserPlace, WorkerPlace, Asking, DownloadTypes,
       LockTypes, ProcessTypes
<1>8. \A m \in Node : Sources(m)'
  BY <1>0, Given DEF Sources, Behaves, DownloadTypes, LockTypes, ProcessTypes
<1>9. PeersHaveIt'
  BY Given DEF PeersHaveIt
<1>10. ZerosAreDownloaded'
  BY Given DEF ZerosAreDownloaded
<1> QED
  BY <1>0, <1>5, <1>6, <1>7, <1>8, <1>9, <1>10, Others DEF Inv

LEMMA AnnounceInv == ASSUME Inv, NEW n \in Node, Announce(n) PROVE Inv'
<1> USE Processes DEF Announce, Ask, online, swarm, download, locks, process, bounds
<1>0. /\ User(n) \in Proc /\ User(n)[1] \in Node
      /\ Behaves(User(n)) /\ Sources(User(n)[1])
  BY Given
<1>1. SwarmTypes' /\ DownloadTypes' /\ LockTypes' /\ ProcessTypes' /\ BoundTypes'
  BY Given DEF SwarmTypes, DownloadTypes, LockTypes, ProcessTypes, BoundTypes
<1>2. CallTypes'
  BY <1>0, Given, Answering DEF CallTypes, Stages, SwarmTypes
<1>3. TypeOK'
  BY <1>1, <1>2, Whole
<1>4. Apart(User(n))
  BY <1>0, Given DEF Apart, CallTypes
<1>5. Behaves(User(n))'
  BY <1>0, Given DEF Behaves, UserPlace, WorkerPlace, Asking, SwarmTypes,
       CallTypes
<1>6. \A m \in Node : Sources(m)'
  BY Given DEF Sources
<1>7. PeersHaveIt'
  BY Given DEF PeersHaveIt
<1>8. ZerosAreDownloaded'
  BY Given DEF ZerosAreDownloaded
<1> QED
  BY <1>0, <1>3, <1>4, <1>5, <1>6, <1>7, <1>8, Others DEF Inv

LEMMA NoTrackerInv == ASSUME Inv, NEW n \in Node, NoTracker(n) PROVE Inv'
<1> USE Processes DEF NoTracker, Goto, online, swarm, download, locks, call, bounds
<1>0. /\ User(n) \in Proc /\ User(n)[1] \in Node
      /\ Behaves(User(n)) /\ Sources(User(n)[1])
  BY Given
<1>1. SwarmTypes' /\ DownloadTypes' /\ LockTypes' /\ CallTypes' /\ BoundTypes'
  BY Given DEF SwarmTypes, DownloadTypes, LockTypes, CallTypes, BoundTypes
<1>2. ProcessTypes'
  BY <1>0, Given DEF ProcessTypes, Activity
<1>3. TypeOK'
  BY <1>1, <1>2, Whole
<1>4. Apart(User(n))
  BY <1>0, Given DEF Apart, ProcessTypes
<1>5. Behaves(User(n))'
  BY <1>0, Given DEF Behaves, UserPlace, WorkerPlace, Asking, ProcessTypes
<1>6. \A m \in Node : Sources(m)'
  BY Given DEF Sources
<1>7. PeersHaveIt'
  BY Given DEF PeersHaveIt
<1>8. ZerosAreDownloaded'
  BY Given DEF ZerosAreDownloaded
<1> QED
  BY <1>0, <1>3, <1>4, <1>5, <1>6, <1>7, <1>8, Others DEF Inv

LEMMA AnnouncedInv == ASSUME Inv, NEW n \in Node, Announced(n) PROVE Inv'
<1> USE Processes DEF Announced, Goto, Done, online, swarm, download, locks, bounds
<1>0. /\ User(n) \in Proc /\ User(n)[1] \in Node
      /\ Behaves(User(n)) /\ Sources(User(n)[1])
  BY Given
<1>1. SwarmTypes' /\ DownloadTypes' /\ LockTypes' /\ BoundTypes'
  BY Given DEF SwarmTypes, DownloadTypes, LockTypes, BoundTypes
<1>2. ProcessTypes'
  BY <1>0, Given DEF ProcessTypes, Activity
<1>3. CallTypes'
  BY <1>0, Given, Answering DEF CallTypes, Stages, SwarmTypes
<1>4. TypeOK'
  BY <1>1, <1>2, <1>3, Whole
<1>5. Apart(User(n))
  BY <1>0, Given DEF Apart, ProcessTypes, CallTypes
<1>6. Behaves(User(n))'
  BY <1>0, Given DEF Behaves, UserPlace, WorkerPlace, Asking, ProcessTypes,
       CallTypes
<1>7. \A m \in Node : Sources(m)'
  BY Given DEF Sources
<1>8. PeersHaveIt'
  BY Given DEF PeersHaveIt
<1>9. ZerosAreDownloaded'
  BY Given DEF ZerosAreDownloaded
<1> QED
  BY <1>0, <1>4, <1>5, <1>6, <1>7, <1>8, <1>9, Others DEF Inv

LEMMA PauseInv == ASSUME Inv, NEW n \in Node, Pause(n) PROVE Inv'
<1> USE Processes DEF Pause, online, swarm, locks, process, call
<1>0. /\ User(n) \in Proc /\ User(n)[1] \in Node
      /\ Behaves(User(n)) /\ Sources(User(n)[1])
  BY Given
<1>1. SwarmTypes' /\ LockTypes' /\ ProcessTypes' /\ CallTypes'
  BY Given DEF SwarmTypes, LockTypes, ProcessTypes, CallTypes
<1>2. DownloadTypes'
  BY <1>0, Given DEF DownloadTypes, Block
<1>3. BoundTypes'
  BY <1>0, Given, SwarmAssumption DEF BoundTypes
<1>4. TypeOK'
  BY <1>1, <1>2, <1>3, Whole
<1>5. Apart(User(n))
  BY <1>0, Given DEF Apart, DownloadTypes, BoundTypes
<1>6. Behaves(User(n))'
  BY <1>0, Given DEF Behaves, DownloadTypes, BoundTypes
<1>7. \A m \in Node : Sources(m)'
  BY Given DEF Sources
<1>8. PeersHaveIt'
  BY Given DEF PeersHaveIt
<1>9. ZerosAreDownloaded'
  BY Given DEF ZerosAreDownloaded
<1> QED
  BY <1>0, <1>4, <1>5, <1>6, <1>7, <1>8, <1>9, Others DEF Inv

-----------------------------------------------------------------------------
\* A worker p.

LEMMA ScanInv == ASSUME Inv, NEW p \in Worker, Scan(p) PROVE Inv'
<1> USE Processes DEF Scan, Lock, Goto, online, swarm, download, call, bounds
<1>0. p \in Proc /\ p[1] \in Node /\ Behaves(p) /\ Sources(p[1])
  BY Given
<1>1. SwarmTypes' /\ DownloadTypes' /\ LockTypes' /\ CallTypes' /\ BoundTypes'
  BY Given DEF SwarmTypes, DownloadTypes, LockTypes, CallTypes, BoundTypes
<1>2. ProcessTypes'
  BY <1>0, Given DEF ProcessTypes, Activity
<1>3. TypeOK'
  BY <1>1, <1>2, Whole
<1>4. Apart(p)
  BY <1>0, Given DEF Apart, ProcessTypes
<1>5. Behaves(p)'
  BY <1>0, Given DEF Behaves, UserPlace, WorkerPlace, Asking, Sources, NULL,
       Block, SwarmTypes, DownloadTypes, LockTypes, ProcessTypes, CallTypes
<1>6. \A m \in Node : Sources(m)'
  BY Given DEF Sources
<1>7. PeersHaveIt'
  BY Given DEF PeersHaveIt
<1>8. ZerosAreDownloaded'
  BY Given DEF ZerosAreDownloaded
<1> QED
  BY <1>0, <1>3, <1>4, <1>5, <1>6, <1>7, <1>8, Others DEF Inv

LEMMA ClaimInv == ASSUME Inv, NEW p \in Worker, Claim(p) PROVE Inv'
<1> USE Processes DEF Claim, Unlock, online, swarm, call, bounds, Goto
<1>0. p \in Proc /\ p[1] \in Node /\ Behaves(p) /\ Sources(p[1])
  BY Given
<1>1. SwarmTypes' /\ LockTypes' /\ CallTypes' /\ BoundTypes'
  BY Given DEF SwarmTypes, LockTypes, CallTypes, BoundTypes
<1>2. DownloadTypes'
  BY <1>0, Given DEF DownloadTypes, Block
<1>3. ProcessTypes'
  BY <1>0, Given DEF ProcessTypes, Activity
<1>4. TypeOK'
  BY <1>1, <1>2, <1>3, Whole
<1>5. Apart(p)
  BY <1>0, Given DEF Apart, Behaves, DownloadTypes, ProcessTypes
<1>6. Behaves(p)'
  BY <1>0, Given DEF Behaves, UserPlace, WorkerPlace, Asking, DownloadTypes,
       ProcessTypes
<1>7. \A m \in Node : Sources(m)'
  BY Given DEF Sources
<1>8. PeersHaveIt'
  BY Given DEF PeersHaveIt
<1>9. ZerosAreDownloaded'
  BY Given DEF ZerosAreDownloaded
<1> QED
  BY <1>0, <1>4, <1>5, <1>6, <1>7, <1>8, <1>9, Others DEF Inv

LEMMA BeginBlockInv == ASSUME Inv, NEW p \in Worker, BeginBlock(p) PROVE Inv'
<1> USE Processes DEF BeginBlock, Lock, Goto, online, swarm, download, call, bounds
<1>0. p \in Proc /\ p[1] \in Node /\ Behaves(p) /\ Sources(p[1])
  BY Given
<1>1. SwarmTypes' /\ DownloadTypes' /\ LockTypes' /\ CallTypes' /\ BoundTypes'
  BY Given DEF SwarmTypes, DownloadTypes, LockTypes, CallTypes, BoundTypes
<1>2. ProcessTypes'
  BY <1>0, Given DEF ProcessTypes, Activity, SwarmTypes, DownloadTypes,
       CallTypes, Block, Behaves
<1>3. TypeOK'
  BY <1>1, <1>2, Whole
<1>4. Apart(p)
  BY <1>0, Given DEF Apart, ProcessTypes
<1>5. Behaves(p)'
  BY <1>0, Given DEF Behaves, UserPlace, WorkerPlace, Asking, Sources, NULL,
       Block, ProcessTypes
<1>6. \A m \in Node : Sources(m)'
  BY Given DEF Sources
<1>7. PeersHaveIt'
  BY Given DEF PeersHaveIt
<1>8. ZerosAreDownloaded'
  BY Given DEF ZerosAreDownloaded
<1> QED
  BY <1>0, <1>3, <1>4, <1>5, <1>6, <1>7, <1>8, Others DEF Inv

LEMMA SkipBlockInv == ASSUME Inv, NEW p \in Worker, SkipBlock(p) PROVE Inv'
<1> USE Processes DEF SkipBlock, online, swarm, download, locks, call, bounds
<1>0. p \in Proc /\ p[1] \in Node /\ Behaves(p) /\ Sources(p[1])
  BY Given
<1>1. SwarmTypes' /\ DownloadTypes' /\ LockTypes' /\ CallTypes' /\ BoundTypes'
  BY Given DEF SwarmTypes, DownloadTypes, LockTypes, CallTypes, BoundTypes
<1>2. ProcessTypes'
  BY <1>0, Given DEF ProcessTypes, Activity, SwarmTypes, DownloadTypes,
       CallTypes, Block, Behaves
<1>3. TypeOK'
  BY <1>1, <1>2, Whole
<1>4. Apart(p)
  BY <1>0, Given DEF Apart, ProcessTypes
<1>5. Behaves(p)'
  BY <1>0, Given DEF Behaves, ProcessTypes
<1>6. \A m \in Node : Sources(m)'
  BY Given DEF Sources
<1>7. PeersHaveIt'
  BY Given DEF PeersHaveIt
<1>8. ZerosAreDownloaded'
  BY Given DEF ZerosAreDownloaded
<1> QED
  BY <1>0, <1>3, <1>4, <1>5, <1>6, <1>7, <1>8, Others DEF Inv

LEMMA InterruptedInv == ASSUME Inv, NEW p \in Worker, Interrupted(p) PROVE Inv'
<1> USE Processes DEF Interrupted, Goto, online, swarm, download, locks, call, bounds
<1>0. p \in Proc /\ p[1] \in Node /\ Behaves(p) /\ Sources(p[1])
  BY Given
<1>1. SwarmTypes' /\ DownloadTypes' /\ LockTypes' /\ CallTypes' /\ BoundTypes'
  BY Given DEF SwarmTypes, DownloadTypes, LockTypes, CallTypes, BoundTypes
<1>2. ProcessTypes'
  BY <1>0, Given DEF ProcessTypes, Activity
<1>3. TypeOK'
  BY <1>1, <1>2, Whole
<1>4. Apart(p)
  BY <1>0, Given DEF Apart, ProcessTypes
<1>5. Behaves(p)'
  BY <1>0, Given DEF Behaves, UserPlace, WorkerPlace, Asking, ProcessTypes
<1>6. \A m \in Node : Sources(m)'
  BY Given DEF Sources
<1>7. PeersHaveIt'
  BY Given DEF PeersHaveIt
<1>8. ZerosAreDownloaded'
  BY Given DEF ZerosAreDownloaded
<1> QED
  BY <1>0, <1>3, <1>4, <1>5, <1>6, <1>7, <1>8, Others DEF Inv

LEMMA AskSourceInv == ASSUME Inv, NEW p \in Worker, AskSource(p) PROVE Inv'
<1> USE Processes DEF AskSource, Ask, online, swarm, download, locks, process, bounds
<1>0. p \in Proc /\ p[1] \in Node /\ Behaves(p) /\ Sources(p[1])
  BY Given
<1>1. SwarmTypes' /\ DownloadTypes' /\ LockTypes' /\ ProcessTypes' /\ BoundTypes'
  BY Given DEF SwarmTypes, DownloadTypes, LockTypes, ProcessTypes, BoundTypes
<1>2. CallTypes'
  BY <1>0, Given DEF CallTypes, Stages, SwarmTypes, ProcessTypes, Behaves
<1>3. TypeOK'
  BY <1>1, <1>2, Whole
<1>4. Apart(p)
  BY <1>0, Given DEF Apart, CallTypes
<1>5. Behaves(p)'
  BY <1>0, Given DEF Behaves, UserPlace, WorkerPlace, Asking, NULL, Block,
       CallTypes
<1>6. \A m \in Node : Sources(m)'
  BY Given DEF Sources
<1>7. PeersHaveIt'
  BY Given DEF PeersHaveIt
<1>8. ZerosAreDownloaded'
  BY Given DEF ZerosAreDownloaded
<1> QED
  BY <1>0, <1>3, <1>4, <1>5, <1>6, <1>7, <1>8, Others DEF Inv

LEMMA BlockArrivesInv == ASSUME Inv, NEW p \in Worker, BlockArrives(p) PROVE Inv'
<1> USE Processes DEF BlockArrives, NextBlock, Done, online, swarm, bounds, Unlock,
        Goto
<1>0. p \in Proc /\ p[1] \in Node /\ Behaves(p) /\ Sources(p[1])
  BY Given
<1>1. SwarmTypes' /\ LockTypes' /\ BoundTypes'
  BY Given DEF SwarmTypes, LockTypes, BoundTypes
<1>2. DownloadTypes'
  <2>1. at[p] \in Block /\ answer[p] \subseteq {"data", "zero"}
    BY <1>0 DEF Behaves
  <2>2. PICK data \in {"data", "zero"} : disk' = [disk EXCEPT ![p[1]][at[p]] = data]
    BY <2>1
  <2>3. DownloadTypes
    BY Given
  <2>4. disk' \in [Node -> [Block -> {"data", "zero"}]]
    BY <1>0, <2>1, <2>2, <2>3 DEF DownloadTypes
  <2>5. owned' \in [Node -> SUBSET Block]
    BY <1>0, <2>1, <2>3 DEF DownloadTypes
  <2> QED
    BY <2>3, <2>4, <2>5 DEF DownloadTypes
<1>3. ProcessTypes'
  <2>1. at[p] \in Block /\ ProcessTypes /\ Blocks \in Nat
    BY <1>0, Given DEF Behaves
  <2>2. at[p] + 1 \in 0 .. Blocks
    BY <2>1 DEF Block
  <2> QED
    BY <1>0, <2>1, <2>2 DEF ProcessTypes, Activity
<1>4. CallTypes'
  BY <1>0, Given, Answering DEF CallTypes, Stages, SwarmTypes
<1>5. TypeOK'
  BY <1>1, <1>2, <1>3, <1>4, Whole
<1>6. Apart(p)
  BY <1>0, Given DEF Apart, DownloadTypes, ProcessTypes, CallTypes
<1>7. Behaves(p)'
  BY <1>0, Given DEF Behaves, UserPlace, WorkerPlace, Asking, DownloadTypes,
       ProcessTypes, CallTypes
<1>8. \A m \in Node : Sources(m)'
  BY Given DEF Sources
<1>9. PeersHaveIt'
  BY Given DEF PeersHaveIt
<1>10. ZerosAreDownloaded'
  BY <1>0, Given DEF ZerosAreDownloaded, Behaves, DownloadTypes, ProcessTypes,
       CallTypes
<1> QED
  BY <1>0, <1>5, <1>6, <1>7, <1>8, <1>9, <1>10, Others DEF Inv

LEMMA SourceFailsInv == ASSUME Inv, NEW p \in Worker, SourceFails(p) PROVE Inv'
<1> USE Processes DEF SourceFails, Done, online, swarm, download, locks, bounds
<1>0. p \in Proc /\ p[1] \in Node /\ Behaves(p) /\ Sources(p[1])
  BY Given
<1>1. SwarmTypes' /\ DownloadTypes' /\ LockTypes' /\ BoundTypes'
  BY Given DEF SwarmTypes, DownloadTypes, LockTypes, BoundTypes
<1>2. ProcessTypes'
  BY <1>0, Given DEF ProcessTypes, Activity
<1>3. CallTypes'
  BY <1>0, Given, Answering DEF CallTypes, Stages, SwarmTypes
<1>4. TypeOK'
  BY <1>1, <1>2, <1>3, Whole
<1>5. Apart(p)
  BY <1>0, Given DEF Apart, ProcessTypes, CallTypes
<1>6. Behaves(p)'
  BY <1>0, Given DEF Behaves, UserPlace, WorkerPlace, Asking, NULL, Block,
       ProcessTypes, CallTypes
<1>7. \A m \in Node : Sources(m)'
  BY Given DEF Sources
<1>8. PeersHaveIt'
  BY Given DEF PeersHaveIt
<1>9. ZerosAreDownloaded'
  BY Given DEF ZerosAreDownloaded
<1> QED
  BY <1>0, <1>4, <1>5, <1>6, <1>7, <1>8, <1>9, Others DEF Inv

LEMMA WriteFailsInv == ASSUME Inv, NEW p \in Worker, WriteFails(p) PROVE Inv'
<1> USE Processes DEF WriteFails, Fault, Done, online, swarm, download, locks
<1>0. p \in Proc /\ p[1] \in Node /\ Behaves(p) /\ Sources(p[1])
  BY Given
<1>1. SwarmTypes' /\ DownloadTypes' /\ LockTypes' /\ BoundTypes'
  BY Given DEF SwarmTypes, DownloadTypes, LockTypes, BoundTypes
<1>2. ProcessTypes'
  BY <1>0, Given DEF ProcessTypes, Activity
<1>3. CallTypes'
  BY <1>0, Given, Answering DEF CallTypes, Stages, SwarmTypes
<1>4. TypeOK'
  BY <1>1, <1>2, <1>3, Whole
<1>5. Apart(p)
  BY <1>0, Given DEF Apart, ProcessTypes, CallTypes
<1>6. Behaves(p)'
  BY <1>0, Given DEF Behaves, UserPlace, WorkerPlace, Asking, NULL, Block,
       ProcessTypes, CallTypes
<1>7. \A m \in Node : Sources(m)'
  BY Given DEF Sources
<1>8. PeersHaveIt'
  BY Given DEF PeersHaveIt
<1>9. ZerosAreDownloaded'
  BY Given DEF ZerosAreDownloaded
<1> QED
  BY <1>0, <1>4, <1>5, <1>6, <1>7, <1>8, <1>9, Others DEF Inv

LEMMA OpenFailsInv == ASSUME Inv, NEW p \in Worker, OpenFails(p) PROVE Inv'
<1> USE Processes DEF OpenFails, Fault, Return, Goto, online, swarm, download,
        locks, call
<1>0. p \in Proc /\ p[1] \in Node /\ Behaves(p) /\ Sources(p[1])
  BY Given
<1>1. SwarmTypes' /\ DownloadTypes' /\ LockTypes' /\ CallTypes' /\ BoundTypes'
  BY Given DEF SwarmTypes, DownloadTypes, LockTypes, CallTypes, BoundTypes
<1>2. ProcessTypes'
  BY <1>0, Given DEF ProcessTypes, Activity
<1>3. TypeOK'
  BY <1>1, <1>2, Whole
<1>4. Apart(p)
  BY <1>0, Given DEF Apart, ProcessTypes
<1>5. Behaves(p)'
  BY <1>0, Given DEF Behaves, UserPlace, WorkerPlace, Asking, ProcessTypes
<1>6. \A m \in Node : Sources(m)'
  BY Given DEF Sources
<1>7. PeersHaveIt'
  BY Given DEF PeersHaveIt
<1>8. ZerosAreDownloaded'
  BY Given DEF ZerosAreDownloaded
<1> QED
  BY <1>0, <1>3, <1>4, <1>5, <1>6, <1>7, <1>8, Others DEF Inv

LEMMA BlockMissedInv == ASSUME Inv, NEW p \in Worker, BlockMissed(p) PROVE Inv'
<1> USE Processes DEF BlockMissed, NextBlock, online, swarm, download, call, bounds,
        Unlock, Goto
<1>0. p \in Proc /\ p[1] \in Node /\ Behaves(p) /\ Sources(p[1])
  BY Given
<1>1. SwarmTypes' /\ DownloadTypes' /\ LockTypes' /\ CallTypes' /\ BoundTypes'
  BY Given DEF SwarmTypes, DownloadTypes, LockTypes, CallTypes, BoundTypes
<1>2. ProcessTypes'
  BY <1>0, Given DEF ProcessTypes, Activity, SwarmTypes, DownloadTypes,
       CallTypes, Block, Behaves
<1>3. TypeOK'
  BY <1>1, <1>2, Whole
<1>4. Apart(p)
  BY <1>0, Given DEF Apart, ProcessTypes
<1>5. Behaves(p)'
  BY <1>0, Given DEF Behaves, UserPlace, WorkerPlace, Asking, ProcessTypes
<1>6. \A m \in Node : Sources(m)'
  BY Given DEF Sources
<1>7. PeersHaveIt'
  BY Given DEF PeersHaveIt
<1>8. ZerosAreDownloaded'
  BY Given DEF ZerosAreDownloaded
<1> QED
  BY <1>0, <1>3, <1>4, <1>5, <1>6, <1>7, <1>8, Others DEF Inv

LEMMA FinishInv == ASSUME Inv, NEW p \in Worker, Finish(p) PROVE Inv'
<1> USE Processes DEF Finish, Return, Goto, online, swarm, locks, call, bounds
<1>0. p \in Proc /\ p[1] \in Node /\ Behaves(p) /\ Sources(p[1])
  BY Given
<1>1. SwarmTypes' /\ LockTypes' /\ CallTypes' /\ BoundTypes'
  BY Given DEF SwarmTypes, LockTypes, CallTypes, BoundTypes
<1>2. DownloadTypes'
  BY <1>0, Given DEF DownloadTypes, Block
<1>3. ProcessTypes'
  BY <1>0, Given DEF ProcessTypes, Activity
<1>4. TypeOK'
  BY <1>1, <1>2, <1>3, Whole
<1>5. Apart(p)
  BY <1>0, Given DEF Apart, DownloadTypes, ProcessTypes
<1>6. Behaves(p)'
  BY <1>0, Given DEF Behaves, UserPlace, WorkerPlace, Asking, DownloadTypes,
       ProcessTypes
<1>7. \A m \in Node : Sources(m)'
  BY Given DEF Sources
<1>8. PeersHaveIt'
  BY Given DEF PeersHaveIt
<1>9. ZerosAreDownloaded'
  BY Given DEF ZerosAreDownloaded
<1> QED
  BY <1>0, <1>4, <1>5, <1>6, <1>7, <1>8, <1>9, Others DEF Inv

-----------------------------------------------------------------------------
\* A handler that serves p.

LEMMA AcceptInv == ASSUME Inv, NEW p \in Proc, Accept(p) PROVE Inv'
<1> USE Processes DEF Accept, Busy, At, online, swarm, download, locks, process,
        bounds
<1>0. p \in Proc /\ p[1] \in Node /\ Behaves(p) /\ Sources(p[1])
  BY Given
<1>1. SwarmTypes' /\ DownloadTypes' /\ LockTypes' /\ ProcessTypes' /\ BoundTypes'
  BY Given DEF SwarmTypes, DownloadTypes, LockTypes, ProcessTypes, BoundTypes
<1>2. CallTypes'
  BY <1>0, Given DEF CallTypes, Stages
<1>3. TypeOK'
  BY <1>1, <1>2, Whole
<1>4. Apart(p)
  BY <1>0, Given DEF Apart, CallTypes
<1>5. Behaves(p)'
  BY <1>0, Given DEF Behaves, CallTypes
<1>6. \A m \in Node : Sources(m)'
  BY Given DEF Sources
<1>7. PeersHaveIt'
  BY Given DEF PeersHaveIt
<1>8. ZerosAreDownloaded'
  BY Given DEF ZerosAreDownloaded
<1> QED
  BY <1>0, <1>3, <1>4, <1>5, <1>6, <1>7, <1>8, Others DEF Inv

LEMMA HandleTorrentInv == ASSUME Inv, NEW p \in Proc, HandleTorrent(p) PROVE Inv'
<1> USE Processes DEF HandleTorrent, online, List, Answers, download, locks, process,
        bounds
<1>0. p \in Proc /\ p[1] \in Node /\ Behaves(p) /\ Sources(p[1])
  BY Given
<1>1. DownloadTypes' /\ LockTypes' /\ ProcessTypes' /\ BoundTypes'
  BY Given DEF DownloadTypes, LockTypes, ProcessTypes, BoundTypes
<1>2. SwarmTypes'
  BY <1>0, Given DEF SwarmTypes, Behaves
<1>3. CallTypes'
  BY <1>0, Given, Answering DEF CallTypes, Stages, SwarmTypes
<1>4. TypeOK'
  BY <1>1, <1>2, <1>3, Whole
<1>5. Apart(p)
  BY <1>0, Given DEF Apart, SwarmTypes, CallTypes
<1>6. Behaves(p)'
  BY <1>0, Given DEF Behaves, SwarmTypes, CallTypes
<1>7. \A m \in Node : Sources(m)'
  BY Given DEF Sources
<1>8. PeersHaveIt'
  BY <1>0, Given DEF PeersHaveIt, Behaves, SwarmTypes, DownloadTypes,
       ProcessTypes, CallTypes, Block, UserPlace, WorkerPlace
<1>9. ZerosAreDownloaded'
  BY Given DEF ZerosAreDownloaded
<1> QED
  BY <1>0, <1>4, <1>5, <1>6, <1>7, <1>8, <1>9, Others DEF Inv

LEMMA SaveFailsInv == ASSUME Inv, NEW p \in Proc, SaveFails(p) PROVE Inv'
<1> USE Processes DEF SaveFails, Fault, Lock, At, online, swarm, download, process
<1>0. p \in Proc /\ p[1] \in Node /\ Behaves(p) /\ Sources(p[1])
  BY Given
<1>1. SwarmTypes' /\ DownloadTypes' /\ LockTypes' /\ ProcessTypes'
  BY Given DEF SwarmTypes, DownloadTypes, LockTypes, ProcessTypes
<1>2. CallTypes'
  BY <1>0, Given DEF CallTypes, Stages
<1>3. BoundTypes'
  BY <1>0, Given, SwarmAssumption DEF BoundTypes
<1>4. TypeOK'
  BY <1>1, <1>2, <1>3, Whole
<1>5. Apart(p)
  BY <1>0, Given DEF Apart, CallTypes, BoundTypes
<1>6. Behaves(p)'
  BY <1>0, Given DEF Behaves, CallTypes, BoundTypes
<1>7. \A m \in Node : Sources(m)'
  BY Given DEF Sources
<1>8. PeersHaveIt'
  BY Given DEF PeersHaveIt
<1>9. ZerosAreDownloaded'
  BY Given DEF ZerosAreDownloaded
<1> QED
  BY <1>0, <1>4, <1>5, <1>6, <1>7, <1>8, <1>9, Others DEF Inv

LEMMA LookLocalInv == ASSUME Inv, NEW p \in Proc, LookLocal(p) PROVE Inv'
<1> USE Processes DEF LookLocal, Offer, OnePerBlock, online, swarm, download, locks, process,
        bounds
<1>0. p \in Proc /\ p[1] \in Node /\ Behaves(p) /\ Sources(p[1])
  BY Given
<1>1. SwarmTypes' /\ DownloadTypes' /\ LockTypes' /\ ProcessTypes' /\ BoundTypes'
  BY Given DEF SwarmTypes, DownloadTypes, LockTypes, ProcessTypes, BoundTypes
<1>2. CallTypes'
  BY <1>0, Given, Answering DEF CallTypes, Stages, SwarmTypes
<1>3. TypeOK'
  BY <1>1, <1>2, Whole
<1>4. Apart(p)
  BY <1>0, Given DEF Apart, CallTypes
<1>5. Behaves(p)'
  BY <1>0, Given DEF Behaves, CallTypes
<1>6. \A m \in Node : Sources(m)'
  BY Given DEF Sources
<1>7. PeersHaveIt'
  BY Given DEF PeersHaveIt
<1>8. ZerosAreDownloaded'
  BY Given DEF ZerosAreDownloaded
<1> QED
  BY <1>0, <1>3, <1>4, <1>5, <1>6, <1>7, <1>8, Others DEF Inv

LEMMA LookElsewhereInv == ASSUME Inv, NEW p \in Proc, LookElsewhere(p) PROVE Inv'
<1> USE Processes DEF LookElsewhere, Lock, At, online, swarm, download, process,
        bounds
<1>0. p \in Proc /\ p[1] \in Node /\ Behaves(p) /\ Sources(p[1])
  BY Given
<1>1. SwarmTypes' /\ DownloadTypes' /\ LockTypes' /\ ProcessTypes' /\ BoundTypes'
  BY Given DEF SwarmTypes, DownloadTypes, LockTypes, ProcessTypes, BoundTypes
<1>2. CallTypes'
  BY <1>0, Given DEF CallTypes, Stages
<1>3. TypeOK'
  BY <1>1, <1>2, Whole
<1>4. Apart(p)
  BY <1>0, Given DEF Apart, CallTypes
<1>5. Behaves(p)'
  BY <1>0, Given DEF Behaves, CallTypes
<1>6. \A m \in Node : Sources(m)'
  BY Given DEF Sources
<1>7. PeersHaveIt'
  BY Given DEF PeersHaveIt
<1>8. ZerosAreDownloaded'
  BY Given DEF ZerosAreDownloaded
<1> QED
  BY <1>0, <1>3, <1>4, <1>5, <1>6, <1>7, <1>8, Others DEF Inv

LEMMA LookDownloadsInv == ASSUME Inv, NEW p \in Proc, LookDownloads(p) PROVE Inv'
<1> USE Processes DEF LookDownloads, Unlock, Offer, OnePerBlock, online, swarm, download, process,
        bounds
<1>0. p \in Proc /\ p[1] \in Node /\ Behaves(p) /\ Sources(p[1])
  BY Given
<1>1. SwarmTypes' /\ DownloadTypes' /\ LockTypes' /\ ProcessTypes' /\ BoundTypes'
  BY Given DEF SwarmTypes, DownloadTypes, LockTypes, ProcessTypes, BoundTypes
<1>2. CallTypes'
  BY <1>0, Given, Answering DEF CallTypes, Stages, SwarmTypes
<1>3. TypeOK'
  BY <1>1, <1>2, Whole
<1>4. Apart(p)
  BY <1>0, Given DEF Apart, CallTypes
<1>5. Behaves(p)'
  BY <1>0, Given DEF Behaves, CallTypes
<1>6. \A m \in Node : Sources(m)'
  BY Given DEF Sources
<1>7. PeersHaveIt'
  BY Given DEF PeersHaveIt
<1>8. ZerosAreDownloaded'
  BY Given DEF ZerosAreDownloaded
<1> QED
  BY <1>0, <1>3, <1>4, <1>5, <1>6, <1>7, <1>8, Others DEF Inv

LEMMA NotHereInv == ASSUME Inv, NEW p \in Proc, NotHere(p) PROVE Inv'
<1> USE Processes DEF NotHere, Unlock, Answers, online, swarm, download, process,
        bounds
<1>0. p \in Proc /\ p[1] \in Node /\ Behaves(p) /\ Sources(p[1])
  BY Given
<1>1. SwarmTypes' /\ DownloadTypes' /\ LockTypes' /\ ProcessTypes' /\ BoundTypes'
  BY Given DEF SwarmTypes, DownloadTypes, LockTypes, ProcessTypes, BoundTypes
<1>2. CallTypes'
  BY <1>0, Given, Answering DEF CallTypes, Stages, SwarmTypes
<1>3. TypeOK'
  BY <1>1, <1>2, Whole
<1>4. Apart(p)
  BY <1>0, Given DEF Apart, CallTypes
<1>5. Behaves(p)'
  BY <1>0, Given DEF Behaves, CallTypes
<1>6. \A m \in Node : Sources(m)'
  BY Given DEF Sources
<1>7. PeersHaveIt'
  BY Given DEF PeersHaveIt
<1>8. ZerosAreDownloaded'
  BY Given DEF ZerosAreDownloaded
<1> QED
  BY <1>0, <1>3, <1>4, <1>5, <1>6, <1>7, <1>8, Others DEF Inv

LEMMA ReadBlockInv == ASSUME Inv, NEW p \in Proc, ReadBlock(p) PROVE Inv'
<1> USE Processes DEF ReadBlock, Answers, online, swarm, download, locks, process,
        bounds
<1>0. p \in Proc /\ p[1] \in Node /\ Behaves(p) /\ Sources(p[1])
  BY Given
<1>d. /\ (IF to[p] \in local THEN "data" ELSE disk[to[p]][at[p]]) \in {"data", "zero"}
      /\ Sources(to[p])
  BY <1>0, Given DEF Behaves, Asking, CallTypes, ProcessTypes, DownloadTypes
<1>e. {IF to[p] \in local THEN "data" ELSE disk[to[p]][at[p]]} \in Answer
  BY ONLY <1>d, Answering, Zenon
<1>1. SwarmTypes' /\ DownloadTypes' /\ LockTypes' /\ ProcessTypes' /\ BoundTypes'
  BY Given DEF SwarmTypes, DownloadTypes, LockTypes, ProcessTypes, BoundTypes
<1>2. CallTypes'
  BY <1>0, Given, Answering, <1>d, <1>e DEF CallTypes, Stages, SwarmTypes
<1>3. TypeOK'
  BY <1>1, <1>2, Whole
<1>4. Apart(p)
  BY <1>0, Given DEF Apart, CallTypes
<1>5. Behaves(p)'
  BY <1>0, Given, <1>d, <1>e DEF Behaves, UserPlace, WorkerPlace, Asking,
       Sources, NULL, Block, CallTypes
<1>6. \A m \in Node : Sources(m)'
  BY Given DEF Sources
<1>7. PeersHaveIt'
  BY Given DEF PeersHaveIt
<1>8. ZerosAreDownloaded'
  BY Given DEF ZerosAreDownloaded
<1> QED
  BY <1>0, <1>3, <1>4, <1>5, <1>6, <1>7, <1>8, Others DEF Inv

LEMMA ReadFailsInv == ASSUME Inv, NEW p \in Proc, ReadFails(p) PROVE Inv'
<1> USE Processes DEF ReadFails, Fault, At, online, swarm, download, locks, process
<1>0. p \in Proc /\ p[1] \in Node /\ Behaves(p) /\ Sources(p[1])
  BY Given
<1>1. SwarmTypes' /\ DownloadTypes' /\ LockTypes' /\ ProcessTypes'
  BY Given DEF SwarmTypes, DownloadTypes, LockTypes, ProcessTypes
<1>2. CallTypes'
  BY <1>0, Given DEF CallTypes, Stages
<1>3. BoundTypes'
  BY <1>0, Given, SwarmAssumption DEF BoundTypes
<1>4. TypeOK'
  BY <1>1, <1>2, <1>3, Whole
<1>5. Apart(p)
  BY <1>0, Given DEF Apart, CallTypes, BoundTypes
<1>6. Behaves(p)'
  BY <1>0, Given DEF Behaves, CallTypes, BoundTypes
<1>7. \A m \in Node : Sources(m)'
  BY Given DEF Sources
<1>8. PeersHaveIt'
  BY Given DEF PeersHaveIt
<1>9. ZerosAreDownloaded'
  BY Given DEF ZerosAreDownloaded
<1> QED
  BY <1>0, <1>4, <1>5, <1>6, <1>7, <1>8, <1>9, Others DEF Inv

-----------------------------------------------------------------------------
\* A kill changes how far the requests to the tracker are, for many at once.
LEMMA DiesInv == ASSUME Inv, NEW n \in Node, Dies(n) PROVE Inv'
<1> USE DEF Dies, Fault, online, swarm, download, locks, process, bounds
<1>1. \A p \in Proc :
         stage'[p] = stage[p] \/ (stage'[p] \in {"hung", "failed"}
             /\ stage[p] \in {"sent", "accepted", "waiting", "reading"})
  OBVIOUS
<1>2. SwarmTypes' /\ DownloadTypes' /\ LockTypes' /\ ProcessTypes' /\ BoundTypes'
  BY Given DEF SwarmTypes, DownloadTypes, LockTypes, ProcessTypes, BoundTypes
<1>3. CallTypes'
  BY Given DEF CallTypes, Stages
<1>4. TypeOK'
  BY <1>2, <1>3, Whole
<1>5. ASSUME NEW p \in Proc PROVE Behaves(p)'
  BY <1>1, Given DEF Behaves, Asking
<1>6. \A m \in Node : Sources(m)'
  BY Given DEF Sources
<1>7. PeersHaveIt' /\ ZerosAreDownloaded'
  BY Given DEF PeersHaveIt, ZerosAreDownloaded
<1> QED
  BY <1>4, <1>5, <1>6, <1>7 DEF Inv

\* A stop fails the requests that nobody serves yet; a request that is served
\* would keep the tracker from stopping.
LEMMA StopTrackerInv == ASSUME Inv, NEW n \in Node, StopTracker(n) PROVE Inv'
<1> USE DEF StopTracker, Fault, download, locks, process
<1>1. \A p \in Proc :
         stage'[p] = stage[p] \/ (stage'[p] = "failed" /\ stage[p] = "sent")
  OBVIOUS
<1>2. \A p \in Proc : stage[p] = "reading" => to[p] # n
  BY DEF Busy
<1>3. /\ local' = local \ {n} /\ stopped' = stopped \cup {n}
      /\ UNCHANGED <<state, owned, disk, sources, dlock, pc, todo, at, to, answer,
                     peers>>
  OBVIOUS
<1>4. SwarmTypes' /\ DownloadTypes' /\ LockTypes' /\ ProcessTypes' /\ BoundTypes'
  BY Given DEF SwarmTypes, DownloadTypes, LockTypes, ProcessTypes, BoundTypes
<1>5. CallTypes'
  BY Given DEF CallTypes, Stages
<1>6. TypeOK'
  BY <1>4, <1>5, Whole
<1>7. ASSUME NEW p \in Proc PROVE Behaves(p)'
  <2>1. Behaves(p)
    BY Given
  <2>2. stage[p] = "reading" => to[p] # n
    BY <1>2
  <2>3. stage'[p] = stage[p] \/ (stage'[p] = "failed" /\ stage[p] = "sent")
    BY <1>1
  <2> QED
    BY ONLY <1>3, <2>1, <2>2, <2>3 DEF Behaves
<1>8. \A m \in Node : Sources(m)'
  BY Given, <1>3 DEF Sources
<1>9. PeersHaveIt' /\ ZerosAreDownloaded'
  BY Given, <1>3 DEF PeersHaveIt, ZerosAreDownloaded
<1> QED
  BY <1>6, <1>7, <1>8, <1>9 DEF Inv

LEMMA StartTrackerInv == ASSUME Inv, NEW n \in Node, StartTracker(n) PROVE Inv'
<1> USE DEF StartTracker, download, locks, process, call, bounds
<1>1. SwarmTypes'
  BY Given, SwarmAssumption DEF SwarmTypes
<1>2. DownloadTypes' /\ LockTypes' /\ ProcessTypes' /\ CallTypes' /\ BoundTypes'
  BY Given DEF DownloadTypes, LockTypes, ProcessTypes, CallTypes, BoundTypes
<1>3. TypeOK'
  BY <1>1, <1>2, Whole
<1>4. ASSUME NEW p \in Proc PROVE Behaves(p)'
  BY Given DEF Behaves
<1>5. \A m \in Node : Sources(m)'
  BY Given DEF Sources
<1>6. PeersHaveIt' /\ ZerosAreDownloaded'
  BY Given DEF PeersHaveIt, ZerosAreDownloaded
<1> QED
  BY <1>3, <1>4, <1>5, <1>6 DEF Inv

-----------------------------------------------------------------------------
LEMMA InitInv == ASSUME Init PROVE Inv
<1>1. TypeOK
  BY SwarmAssumption, Answering, Processes DEF Init, TypeOK, Block
<1>2. \A p \in Proc : Behaves(p)
  BY Processes DEF Init, Behaves, UserPlace, WorkerPlace, Asking, NULL
<1>3. \A n \in Node : Sources(n)
  BY DEF Init, Sources
<1>4. PeersHaveIt /\ ZerosAreDownloaded
  BY DEF Init, PeersHaveIt, ZerosAreDownloaded
<1> QED
  BY <1>1, <1>2, <1>3, <1>4 DEF Inv

LEMMA StutterInv == ASSUME Inv, UNCHANGED vars PROVE Inv'
<1> USE DEF vars, online, swarm, download, locks, process, call, bounds
<1>1. TypeOK'
  BY DEF Inv, TypeOK
<1>2. \A p \in Proc : Behaves(p)'
  BY Given DEF Behaves
<1>3. \A n \in Node : Sources(n)'
  BY Given DEF Sources
<1>4. PeersHaveIt' /\ ZerosAreDownloaded'
  BY Given DEF PeersHaveIt, ZerosAreDownloaded
<1> QED
  BY <1>1, <1>2, <1>3, <1>4 DEF Inv

LEMMA StepInv == ASSUME Inv, Next PROVE Inv'
<1>1. ASSUME NEW n \in Node, Types(n) PROVE Inv'
  BY <1>1, UploadInv, SearchInv, PauseInv, StopTrackerInv, StartTrackerInv
  DEF Types
<1>2. ASSUME NEW n \in Node, UserStep(n) PROVE Inv'
  BY <1>2, UploadedInv, FoundInv, AddInv, AddFailsInv, AddAgainInv, RetryInv,
     NotRetriedInv, AskPeerInv, PeerAnswersInv, PeerHasNothingInv, DeadPeerInv,
     AddedInv, AnnounceInv, NoTrackerInv, AnnouncedInv DEF UserStep
<1>3. ASSUME NEW p \in Worker, WorkerStep(p) PROVE Inv'
  BY <1>3, ScanInv, ClaimInv, BeginBlockInv, SkipBlockInv,
     InterruptedInv, AskSourceInv, BlockArrivesInv, SourceFailsInv,
     BlockMissedInv, FinishInv DEF WorkerStep
<1>4. ASSUME NEW p \in Proc, Serve(p) PROVE Inv'
  BY <1>4, AcceptInv, HandleTorrentInv, LookLocalInv, LookElsewhereInv,
     LookDownloadsInv, NotHereInv, ReadBlockInv DEF Serve
<1> QED
  BY <1>1, <1>2, <1>3, <1>4, DiesInv, SaveFailsInv, ReadFailsInv, WriteFailsInv,
     OpenFailsInv DEF Next

\* Clients, workers and handlers keep the invariant at every step they take.
THEOREM SwarmInvariant == Spec => []Inv
<1>1. Init => Inv
  BY InitInv
<1>2. Inv /\ [Next]_vars => Inv'
  BY StepInv, StutterInv
<1> QED
  BY <1>1, <1>2, PTL DEF Spec

\* The types of downloads, locks and requests (TypeOK).
THEOREM SwarmTypeCorrect == Spec => []TypeOK
<1>1. Inv => TypeOK
  BY DEF Inv
<1> QED
  BY <1>1, SwarmInvariant, PTL

\* Whoever is listed as a peer has the torrent, is about to note that it
\* uploaded it, or has stopped its tracker since: a search returns a tracker that
\* does not know of the file only after a stop.
THEOREM PeersServe == Spec => []PeersHaveIt
<1>1. Inv => PeersHaveIt
  BY DEF Inv
<1> QED
  BY <1>1, SwarmInvariant, PTL

\* A block of zeros comes from the partial download of another client that
\* was listed as a peer, never from an uploader, and from oneself only after a
\* stop of one's own tracker.
THEOREM UploadersSendTheFile == Spec => []ZerosAreDownloaded
<1>1. Inv => ZerosAreDownloaded
  BY DEF Inv
<1> QED
  BY <1>1, SwarmInvariant, PTL
=============================================================================
