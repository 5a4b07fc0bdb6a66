-------------------------- MODULE DownloaderProofs --------------------------
(***************************************************************************)
(* Proofs about Downloader.tla for any number of workers, downloads,       *)
(* blocks and pauses.                                                      *)
(***************************************************************************)
EXTENDS Downloader, TLAPS

-----------------------------------------------------------------------------
\* Types.

Working == {"open", "block", "tally", "last", "finish"}

\* A worker has a listed download exactly while it works, and starts on it
\* afresh.
HasDownload ==
    \A w \in Worker : IF pc[w] \in Working
                      THEN dl[w] \in Listed
                      ELSE dl[w] = NoDownload /\ idx[w] = 0 /\ received[w]
TypeInv == TypeOK /\ HasDownload

LEMMA BlockNat == \A f \in File : Block(f) \subseteq Nat
  BY DownloaderAssumption DEF Block

LEMMA ListedType == ASSUME TypeOK PROVE Listed \subseteq File
  BY DEF TypeOK, Listed

LEMMA Appended ==
    ASSUME NEW s \in Seq(File), NEW f \in File
    PROVE  /\ Append(s, f) \in Seq(File)
           /\ {Append(s, f)[i] : i \in DOMAIN Append(s, f)}
                = {s[i] : i \in DOMAIN s} \cup {f}
<1>1. /\ Append(s, f) \in Seq(File) /\ DOMAIN s = 1 .. Len(s) /\ Len(s) \in Nat
      /\ DOMAIN Append(s, f) = 1 .. Len(s) + 1
      /\ \A i \in 1 .. Len(s) : Append(s, f)[i] = s[i]
      /\ Append(s, f)[Len(s) + 1] = f
  OBVIOUS
<1>2. 1 .. Len(s) + 1 = (1 .. Len(s)) \cup {Len(s) + 1}
  BY <1>1
<1> QED
  BY <1>1, <1>2

LEMMA TypeInit == Init => TypeInv
  BY DEF Init, TypeInv, TypeOK, HasDownload, Working

LEMMA UserType ==
    ASSUME TypeInv, NEW f \in File, User(f)
    PROVE  TypeInv'
<1> USE DEF TypeInv, TypeOK, HasDownload, main, job, worker
<1>1. CASE Add(f)
  <2>0. downloads \in Seq(File) /\ downloads' = Append(downloads, f)
    BY <1>1 DEF Add
  <2>1. downloads' \in Seq(File) /\ Listed' = Listed \cup {f}
    <3> HIDE DEF TypeInv, TypeOK, HasDownload
    <3>1. /\ downloads' \in Seq(File)
          /\ {downloads'[i] : i \in DOMAIN downloads'}
                = {downloads[i] : i \in DOMAIN downloads} \cup {f}
      BY <2>0, Appended
    <3> QED
      BY <3>1 DEF Listed
  <2>2. /\ peers' \in [File -> SUBSET Nat]
        /\ \A g \in File : blocks'[g] \cup peers'[g] \subseteq Block(g)
    BY <1>1, BlockNat DEF Add, download_init_peers
  <2> QED
    BY <1>1, <2>1, <2>2 DEF Add
<1>2. CASE Retry(f)
  <2>1. /\ peers' \in [File -> SUBSET Nat]
        /\ \A g \in File : blocks'[g] \cup peers'[g] \subseteq Block(g)
    BY <1>2, BlockNat DEF Retry, download_init_peers
  <2>2. state' \in [File -> {"IDLE", "RUNNING", "PAUSED", "DONE"}]
    BY <1>2 DEF Retry
  <2> QED
    BY <1>2, <2>1, <2>2 DEF Retry, Listed
<1>3. CASE InitPeersSpins(f)
  BY <1>3 DEF InitPeersSpins, Listed
<1>4. CASE downloader_pause(f)
  BY <1>4 DEF downloader_pause, Listed
<1> QED
  BY <1>1, <1>2, <1>3, <1>4 DEF User

\* A worker gets the block it is at, or goes on without.
LEMMA BlockArrives ==
    ASSUME TypeInv, NEW w \in Worker, GetBlock(w)
    PROVE  /\ dl[w] \in Listed /\ dl[w] \in File /\ state[dl[w]] = "RUNNING"
           /\ \/ blocks' = blocks
              \/ /\ idx[w] \in Block(dl[w])
                 /\ blocks' = [blocks EXCEPT ![dl[w]] = @ \cup {idx[w]}]
           /\ blocks' \in [File -> SUBSET Nat]
           /\ \A g \in File : blocks[g] \subseteq blocks'[g]
           /\ \A g \in File : blocks'[g] \subseteq Block(g)
<1> DEFINE f == dl[w]
           b == idx[w]
<1>1. f \in Listed /\ f \in File /\ state[f] = "RUNNING"
  BY ListedType DEF GetBlock, TypeInv, HasDownload, Working
<1>2. \/ blocks' = blocks
      \/ b \in peers[f] /\ blocks' = [blocks EXCEPT ![f] = @ \cup {b}]
  BY DEF GetBlock
<1>3. /\ blocks \in [File -> SUBSET Nat] /\ Block(f) \subseteq Nat
      /\ \A g \in File : blocks[g] \subseteq Block(g)
      /\ peers[f] \subseteq Block(f)
  BY <1>1, BlockNat DEF TypeInv, TypeOK
<1> HIDE DEF f, b
<1>4. CASE blocks' = blocks
  BY <1>1, <1>3, <1>4 DEF f, b
<1>5. CASE b \in peers[f] /\ blocks' = [blocks EXCEPT ![f] = @ \cup {b}]
  <2>1. /\ b \in Block(f) /\ blocks'[f] = blocks[f] \cup {b}
        /\ \A g \in File \ {f} : blocks'[g] = blocks[g]
        /\ DOMAIN blocks' = File
    BY <1>1, <1>3, <1>5
  <2>2. /\ \A g \in File : blocks[g] \subseteq blocks'[g]
        /\ \A g \in File : blocks'[g] \subseteq Block(g)
    BY <1>3, <2>1
  <2>3. blocks' \in [File -> SUBSET Nat]
    BY <1>3, <1>5, <2>1
  <2> QED
    BY <1>1, <1>5, <2>1, <2>2, <2>3 DEF f, b
<1> QED
  BY <1>2, <1>4, <1>5

LEMMA WorkerType ==
    ASSUME TypeInv, NEW w \in Worker, WorkerStep(w)
    PROVE  TypeInv'
<1> USE DEF TypeInv, TypeOK, HasDownload, main, job, worker, Working
<1>0. /\ WorkerStep(w) => downloads' = downloads
      /\ downloads' = downloads => Listed' = Listed
      /\ Listed \subseteq File
  BY ListedType DEF Listed, WorkerStep, Scan, Exit, Open, OpenFails, GetBlock, Interrupted,
         Tally, Finish
<1>1. CASE Scan(w)
  <2>1. PICK f \in Listed : dl' = [dl EXCEPT ![w] = f]
    BY <1>1 DEF Scan, Listed
  <2>2. state' = [g \in File |-> IF g \in In("IDLE") THEN "RUNNING" ELSE state[g]]
    BY <1>1 DEF Scan
  <2> QED
    BY <1>0, <1>1, <2>1, <2>2 DEF Scan
<1>2. CASE Exit(w)
  BY <1>0, <1>2 DEF Exit
<1>3. CASE Open(w)
  BY <1>0, <1>3 DEF Open
<1>4. CASE OpenFails(w)
  BY <1>0, <1>4 DEF OpenFails, Released
<1>5. CASE GetBlock(w)
  <2>1. /\ blocks' \in [File -> SUBSET Nat]
        /\ \A g \in File : blocks'[g] \subseteq Block(g)
    BY <1>5, BlockArrives
  <2> QED
    BY <1>0, <1>5, <2>1 DEF GetBlock
<1>6. CASE Interrupted(w)
  BY <1>0, <1>6 DEF Interrupted
<1>7. CASE Tally(w)
  BY <1>0, <1>7 DEF Tally
<1>8. CASE Finish(w)
  BY <1>0, <1>8 DEF Finish, Released
<1> QED
  BY <1>1, <1>2, <1>3, <1>4, <1>5, <1>6, <1>7, <1>8 DEF WorkerStep

LEMMA TypeStep == TypeInv /\ [Next]_vars => TypeInv'
<1> SUFFICES ASSUME TypeInv, [Next]_vars PROVE TypeInv'
  OBVIOUS
<1>1. CASE UNCHANGED vars
  BY <1>1 DEF vars, main, job, worker, TypeInv, TypeOK, HasDownload, Listed
<1>2. CASE downloader_cleanup
  BY <1>2 DEF downloader_cleanup, job, worker, TypeInv, TypeOK, HasDownload, Listed
<1> QED
  BY <1>1, <1>2, UserType, WorkerType DEF Next

\* Every variable keeps its type.
THEOREM DownloaderTypeCorrect == Spec => []TypeOK
<1>1. TypeInv => TypeOK
  BY DEF TypeInv
<1> QED
  BY <1>1, TypeInit, TypeStep, PTL DEF Spec

-----------------------------------------------------------------------------
\* One worker for each download, until its user pauses it.

\* The download that w works on, if its user has never paused it.
Sure(w) == pc[w] \in Working /\ paused[dl[w]] = 0

\* It is RUNNING, so no other worker takes it ...
Claimed  == \A w \in Worker : Sure(w) => state[dl[w]] = "RUNNING"
\* ... and the worker has all the blocks before idx, unless it knows better.
Progress ==
    \A w \in Worker : Sure(w) =>
        /\ pc[w] # "last"
        /\ pc[w] = "finish" => Blocks[dl[w]] <= idx[w]
        /\ received[w] => \A i \in Block(dl[w]) : i < idx[w] => i \in blocks[dl[w]]
Alone    == \A v, w \in Worker : Sure(v) /\ dl[v] = dl[w] => v = w
Done     == \A f \in File : state[f] = "DONE" /\ paused[f] = 0 => Complete(f)
ClaimInv == Claimed /\ Progress /\ Alone /\ Done

LEMMA ClaimInit == Init => ClaimInv
  BY DEF Init, ClaimInv, Claimed, Progress, Alone, Done, Sure, Working

LEMMA UserClaim ==
    ASSUME TypeInv, ClaimInv, NEW f \in File, User(f)
    PROVE  ClaimInv'
<1>1. CASE Add(f) \/ InitPeersSpins(f)
  BY <1>1 DEF Add, InitPeersSpins, ClaimInv, Claimed, Progress, Alone, Done, Sure,
              Complete, main, job, worker
<1>2. CASE Retry(f)
  <2>1. \A w \in Worker : Sure(w) => dl[w] # f
    BY <1>2 DEF Retry, ClaimInv, Claimed
  <2>2. state' = [state EXCEPT ![f] = "IDLE"] /\ UNCHANGED <<paused, blocks, pc, dl, idx, received>>
    BY <1>2 DEF Retry, main, worker
  <2> QED
    BY <2>1, <2>2 DEF TypeInv, TypeOK, ClaimInv, Claimed, Progress, Alone, Done,
                      Sure, Complete
<1>3. CASE downloader_pause(f)
  <2>1. /\ paused'[f] # 0 /\ \A g \in File \ {f} : paused'[g] = paused[g] /\ state'[g] = state[g]
        /\ UNCHANGED <<blocks, pc, dl, idx, received>>
    BY <1>3 DEF downloader_pause, TypeInv, TypeOK, worker
  <2>2. \A w \in Worker : Sure(w)' => Sure(w) /\ dl[w] # f /\ dl[w] \in File
    BY <2>1, ListedType DEF Sure, TypeInv, TypeOK, HasDownload
  <2> QED
    BY <2>1, <2>2 DEF ClaimInv, Claimed, Progress, Alone, Done, Complete
<1> QED
  BY <1>1, <1>2, <1>3 DEF User

\* A step of worker w on the download it has.
LEMMA OwnClaim ==
    ASSUME TypeInv, ClaimInv, NEW w \in Worker,
           pc[w] \in Working, dl' = dl, state' = state, paused' = paused,
           \A g \in File : blocks[g] \subseteq blocks'[g],
           \A v \in Worker \ {w} : /\ pc'[v] = pc[v] /\ idx'[v] = idx[v]
                                  /\ received'[v] = received[v],
           Sure(w) => /\ pc'[w] # "last"
                      /\ pc'[w] = "finish" => Blocks[dl[w]] <= idx'[w]
                      /\ received'[w] => \A i \in Block(dl[w]) :
                                            i < idx'[w] => i \in blocks'[dl[w]]
    PROVE  ClaimInv'
<1>1. \A v \in Worker : Sure(v)' => Sure(v) /\ dl[v] \in File
  BY ListedType DEF Sure, TypeInv, TypeOK, HasDownload
<1>2. Claimed' /\ Alone' /\ Done'
  BY <1>1 DEF ClaimInv, Claimed, Alone, Done, Complete
<1>3. Progress'
  <2> SUFFICES ASSUME NEW v \in Worker, Sure(v)'
               PROVE  /\ pc'[v] # "last"
                      /\ pc'[v] = "finish" => Blocks[dl[v]] <= idx'[v]
                      /\ received'[v] => \A i \in Block(dl[v]) :
                                            i < idx'[v] => i \in blocks'[dl[v]]
    BY DEF Progress
  <2>1. CASE v = w
    BY <1>1, <2>1
  <2>2. CASE v # w
    BY <1>1, <2>2 DEF ClaimInv, Progress
  <2> QED
    BY <2>1, <2>2
<1> QED
  BY <1>2, <1>3 DEF ClaimInv

\* Worker w lets go of its download.
LEMMA ReleaseClaim ==
    ASSUME TypeInv, ClaimInv, NEW w \in Worker, Released(w),
           pc[w] \in Working, paused' = paused, blocks' = blocks,
           \/ state' = state
           \/ /\ Sure(w) /\ received[w] => Complete(dl[w])
              /\ state' = [state EXCEPT ![dl[w]] = IF received[w] THEN "DONE" ELSE "PAUSED"]
    PROVE  ClaimInv'
<1> DEFINE f == dl[w]
<1>1. f \in File
  BY ListedType DEF TypeInv, HasDownload
<1>2. /\ ~Sure(w)' /\ dl'[w] = NoDownload
      /\ \A v \in Worker \ {w} : /\ pc'[v] = pc[v] /\ dl'[v] = dl[v] /\ idx'[v] = idx[v]
                                 /\ received'[v] = received[v]
  BY DEF Released, TypeInv, TypeOK, Sure, Working
<1>3. \A v \in Worker : Sure(v)' => v # w /\ Sure(v) /\ dl[v] \in File /\ dl[v] # f
  BY <1>2, ListedType DEF Sure, TypeInv, HasDownload, ClaimInv, Alone
<1>4. \A g \in File \ {f} : state'[g] = state[g]
  BY <1>1 DEF TypeInv, TypeOK
<1>5. Claimed' /\ Progress'
  BY <1>2, <1>3, <1>4 DEF ClaimInv, Claimed, Progress
<1>6. Alone'
  <2>1. \A v \in Worker : Sure(v) => dl[v] # NoDownload
    BY ListedType, DownloaderAssumption DEF Sure, TypeInv, HasDownload
  <2> QED
    BY <1>2, <1>3, <2>1 DEF ClaimInv, Alone
<1>7. Done'
  <2>1. state'[f] = "DONE" /\ paused[f] = 0 => Complete(f)
    BY <1>1 DEF TypeInv, TypeOK, ClaimInv, Done, Sure
  <2> HIDE DEF f
  <2> QED
    BY <1>4, <2>1 DEF ClaimInv, Done, Complete
<1> QED
  BY <1>5, <1>6, <1>7 DEF ClaimInv

LEMMA ScanClaim ==
    ASSUME TypeInv, ClaimInv, NEW w \in Worker, Scan(w)
    PROVE  ClaimInv'
<1>1. PICK f \in Listed : state[f] = "IDLE" /\ dl' = [dl EXCEPT ![w] = f]
  BY DEF Scan, Listed, In
<1>2. /\ pc[w] = "scan" /\ pc' = [pc EXCEPT ![w] = "open"]
      /\ state' = [g \in File |-> IF g \in In("IDLE") THEN "RUNNING" ELSE state[g]]
      /\ UNCHANGED <<paused, blocks, idx, received>>
  BY DEF Scan, main
<1>3. f \in File /\ state'[f] = "RUNNING"
  BY <1>1, <1>2, ListedType DEF TypeInv, In
<1>4. /\ dl'[w] = f /\ pc'[w] = "open" /\ idx'[w] = 0
      /\ \A v \in Worker \ {w} : dl'[v] = dl[v] /\ pc'[v] = pc[v]
  BY <1>1, <1>2 DEF TypeInv, TypeOK, HasDownload, Working
\* Whoever works on a download that was not paused works on a RUNNING one.
<1>5. \A v \in Worker \ {w} : Sure(v)' => Sure(v) /\ dl[v] \in File /\ state[dl[v]] = "RUNNING"
  BY <1>2, <1>4, ListedType DEF Sure, TypeInv, HasDownload, ClaimInv, Claimed
<1>6. Claimed'
  BY <1>2, <1>3, <1>4, <1>5 DEF Claimed, In
<1>7. Progress'
  <2>1. \A i \in Block(f) : ~(i < 0)
    BY <1>3, DownloaderAssumption DEF Block
  <2>2. ASSUME NEW v \in Worker, Sure(v)'
        PROVE  /\ pc'[v] # "last"
               /\ pc'[v] = "finish" => Blocks[dl'[v]] <= idx'[v]
               /\ received'[v] => \A i \in Block(dl'[v]) :
                                     i < idx'[v] => i \in blocks'[dl'[v]]
    <3>1. CASE v = w
      BY <1>4, <2>1, <3>1
    <3>2. CASE v # w
      BY <1>2, <1>4, <1>5, <2>2, <3>2 DEF ClaimInv, Progress
    <3> QED
      BY <3>1, <3>2
  <2> QED
    BY <2>2 DEF Progress
<1>8. Alone'
  <2>1. \A v \in Worker \ {w} : Sure(v)' => dl[v] # f
    BY <1>1, <1>5
  <2>2. \A v \in Worker \ {w} : Sure(w)' => dl[v] # f
    <3> SUFFICES ASSUME NEW v \in Worker \ {w}, Sure(w)', dl[v] = f PROVE FALSE
      OBVIOUS
    <3>1. pc[v] \in Working
      BY <1>3, DownloaderAssumption DEF TypeInv, HasDownload
    <3>2. Sure(v)
      BY <1>2, <1>4, <3>1 DEF Sure
    <3> QED
      BY <1>1, <3>2 DEF ClaimInv, Claimed
  <2> QED
    BY <1>4, <1>5, <2>1, <2>2 DEF ClaimInv, Alone
<1>9. Done'
  BY <1>2 DEF ClaimInv, Done, Complete, In
<1> QED
  BY <1>6, <1>7, <1>8, <1>9 DEF ClaimInv

LEMMA WorkerClaim ==
    ASSUME TypeInv, ClaimInv, NEW w \in Worker, WorkerStep(w)
    PROVE  ClaimInv'
<1> USE DEF main, job
<1>0. /\ pc \in [Worker -> Working \cup {"scan", "exit"}]
      /\ idx \in [Worker -> Nat] /\ received \in [Worker -> BOOLEAN]
  BY DEF TypeInv, TypeOK, Working
<1>1. pc[w] \in Working => dl[w] \in File /\ Blocks[dl[w]] \in Nat
  BY ListedType, DownloaderAssumption DEF TypeInv, HasDownload
<1>2. CASE Exit(w)
  <2>1. \A v \in Worker : Sure(v)' => Sure(v) /\ v # w
    BY <1>0, <1>2 DEF Exit, Sure, Working
  <2> QED
    BY <1>0, <1>2, <2>1 DEF Exit, ClaimInv, Claimed, Progress, Alone, Done, Complete
<1>3. CASE Open(w)
  <2>1. Sure(w) /\ received[w]
           => \A i \in Block(dl[w]) : i < idx[w] => i \in blocks[dl[w]]
    BY DEF ClaimInv, Progress
  <2>2. pc'[w] = "finish" => Blocks[dl[w]] <= idx[w]
    BY <1>0, <1>1, <1>3 DEF Open, Working
  <2> QED
    BY <1>0, <1>3, <2>1, <2>2, OwnClaim DEF Open, Working
<1>4. CASE OpenFails(w)
  BY <1>4, ReleaseClaim DEF OpenFails, Working
<1>5. CASE GetBlock(w)
  <2>1. \A g \in File : blocks[g] \subseteq blocks'[g]
    BY <1>5, BlockArrives
  <2> QED
    BY <1>0, <1>1, <1>5, <2>1, OwnClaim DEF GetBlock, Working, ClaimInv, Progress
<1>6. CASE Interrupted(w)
  <2>1. ~Sure(w)
    BY <1>6 DEF Interrupted, ClaimInv, Claimed
  <2> QED
    BY <1>0, <1>6, <2>1, OwnClaim DEF Interrupted, Working
<1>7. CASE Tally(w)
  <2>1. /\ pc[w] \in {"tally", "last"} /\ UNCHANGED <<dl, state, paused, blocks>>
        /\ received'[w] = (received[w] /\ idx[w] \in blocks[dl[w]])
        /\ idx'[w] = idx[w] + 1
        /\ pc'[w] = IF pc[w] = "tally" /\ idx[w] + 1 < Blocks[dl[w]]
                    THEN "block" ELSE "finish"
        /\ \A v \in Worker \ {w} : /\ pc'[v] = pc[v] /\ idx'[v] = idx[v]
                                   /\ received'[v] = received[v]
    BY <1>0, <1>7 DEF Tally
  <2>2. Sure(w) => pc[w] = "tally"
    BY <2>1 DEF ClaimInv, Progress
  <2>3. Sure(w) /\ pc'[w] = "finish" => Blocks[dl[w]] <= idx'[w]
    BY <1>0, <1>1, <2>1, <2>2 DEF Working
  <2>4. Sure(w) /\ received'[w] => \A i \in Block(dl[w]) : i < idx'[w] => i \in blocks'[dl[w]]
    <3>1. \A i \in Block(dl[w]) : pc[w] \in Working => (i < idx[w] + 1 => i < idx[w] \/ i = idx[w])
      BY <1>0, <1>1 DEF Block
    <3> QED
      BY <2>1, <3>1 DEF ClaimInv, Progress, Working
  <2> QED
    BY <2>1, <2>3, <2>4, OwnClaim DEF Working
<1>8. CASE Finish(w)
  <2>1. Sure(w) /\ received[w] => Complete(dl[w])
    <3>1. ASSUME Sure(w), received[w], NEW i \in Block(dl[w]) PROVE i \in blocks[dl[w]]
      <4>1. pc[w] \in Working /\ Blocks[dl[w]] <= idx[w]
        BY <1>8, <3>1 DEF Finish, ClaimInv, Progress, Working
      <4>2. i < idx[w]
        BY <1>0, <1>1, <4>1 DEF Block
      <4> QED
        BY <3>1, <4>2 DEF ClaimInv, Progress
    <3> QED
      BY <3>1 DEF Complete
  <2> QED
    BY <1>8, <2>1, ReleaseClaim DEF Finish, Working
<1> QED
  BY <1>2, <1>3, <1>4, <1>5, <1>6, <1>7, <1>8, ScanClaim DEF WorkerStep

LEMMA ClaimStep == TypeInv /\ ClaimInv /\ [Next]_vars => ClaimInv'
<1> SUFFICES ASSUME TypeInv, ClaimInv, [Next]_vars PROVE ClaimInv'
  OBVIOUS
<1>1. CASE UNCHANGED vars \/ downloader_cleanup
  BY <1>1 DEF vars, downloader_cleanup, main, job, worker, ClaimInv, Claimed, Progress, Alone, Done,
              Sure, Complete
<1> QED
  BY <1>1, UserClaim, WorkerClaim DEF Next

\* Two workers never work on a download that its user has not paused.
THEOREM WorkersAreAlone == Spec => []AloneUnlessPaused
<1>1. TypeInv /\ ClaimInv => AloneUnlessPaused
  <2> SUFFICES ASSUME TypeInv, ClaimInv, NEW f \in File, paused[f] = 0,
                      NEW v \in Workers(f), NEW w \in Workers(f)
               PROVE  v = w
    BY DEF AloneUnlessPaused
  <2>1. v \in Worker /\ w \in Worker /\ dl[v] = f /\ dl[w] = f
    BY DEF Workers
  <2>2. Sure(v)
    BY <2>1, DownloaderAssumption DEF TypeInv, HasDownload, Sure
  <2> QED
    BY <2>1, <2>2 DEF ClaimInv, Alone
<1> QED
  BY <1>1, TypeInit, TypeStep, ClaimInit, ClaimStep, PTL DEF Spec

\* A download that is DONE, and that its user never paused, has all its blocks.
THEOREM DoneIsComplete == Spec => []DoneUnlessPaused
<1>1. TypeInv /\ ClaimInv => DoneUnlessPaused
  BY ListedType DEF TypeInv, ClaimInv, Done, DoneUnlessPaused, In
<1> QED
  BY <1>1, TypeInit, TypeStep, ClaimInit, ClaimStep, PTL DEF Spec

-----------------------------------------------------------------------------
\* The life of a download.

LEMMA JobsInit == Init => Jobs!Init
  BY DEF Init, Jobs!Init, Listed

LEMMA JobsStep ==
    ASSUME TypeInv, [Next]_vars
    PROVE  [Jobs!Next]_<<Listed, state, blocks>>
<1> USE DEF main, job, worker
<1>1. CASE UNCHANGED vars \/ downloader_cleanup
  BY <1>1 DEF vars, downloader_cleanup, Listed
<1>2. ASSUME NEW f \in File, User(f) PROVE [Jobs!Next]_<<Listed, state, blocks>>
  <2>1. CASE Add(f)
    <3>1. downloads \in Seq(File) /\ downloads' = Append(downloads, f)
      BY <2>1 DEF Add, TypeInv, TypeOK
    <3>2. Listed' = Listed \cup {f}
      BY <3>1, Appended DEF Listed
    <3> QED
      BY <2>1, <3>2 DEF Add, Jobs!Next, Jobs!Request
  <2>2. CASE Retry(f)
    BY <2>2 DEF Retry, Listed, Jobs!Next, Jobs!Move
  <2>3. CASE InitPeersSpins(f)
    BY <2>3 DEF InitPeersSpins, Listed
  <2>4. CASE downloader_pause(f)
    BY <2>4 DEF downloader_pause, Listed, Jobs!Next, Jobs!Move
  <2> QED
    BY <1>2, <2>1, <2>2, <2>3, <2>4 DEF User
<1>3. ASSUME NEW w \in Worker, WorkerStep(w)
      PROVE  [Jobs!Next]_<<Listed, state, blocks>>
  <2>1. CASE Scan(w)
    <3>1. Jobs!Take(In("IDLE")) /\ In("IDLE") \subseteq Listed
      BY <2>1 DEF Scan, Jobs!Take, In, Listed
    <3> QED
      BY <3>1 DEF Jobs!Next
  <2>2. CASE Exit(w) \/ Open(w) \/ OpenFails(w) \/ Interrupted(w) \/ Tally(w)
    BY <2>2 DEF Exit, Open, OpenFails, Interrupted, Tally, Listed
  <2>3. CASE GetBlock(w)
    <3>1. /\ dl[w] \in Listed /\ dl[w] \in File /\ state[dl[w]] = "RUNNING"
          /\ \/ blocks' = blocks
             \/ /\ idx[w] \in Block(dl[w])
                /\ blocks' = [blocks EXCEPT ![dl[w]] = @ \cup {idx[w]}]
      BY <2>3, BlockArrives
    <3>2. Listed' = Listed /\ state' = state
      BY <2>3 DEF GetBlock, Listed
    <3> QED
      BY <3>1, <3>2 DEF Jobs!Next, Jobs!Receive
  <2>4. CASE Finish(w)
    <3>1. dl[w] \in Listed /\ dl[w] \in File
      BY <2>4, ListedType DEF Finish, TypeInv, HasDownload, Working
    <3>2. Listed' = Listed /\ blocks' = blocks
      BY <2>4 DEF Finish, Listed
    <3>3. \/ state' = state
          \/ /\ state[dl[w]] = "RUNNING"
             /\ \/ state' = [state EXCEPT ![dl[w]] = "DONE"]
                \/ state' = [state EXCEPT ![dl[w]] = "PAUSED"]
      BY <2>4 DEF Finish
    <3> QED
      BY <3>1, <3>2, <3>3 DEF Jobs!Next, Jobs!Move
  <2> QED
    BY <1>3, <2>1, <2>2, <2>3, <2>4 DEF WorkerStep
<1> QED
  BY <1>1, <1>2, <1>3 DEF Next

\* Whatever workers and user do at the same time, a download goes through its
\* states in order, and DONE is final.
THEOREM DownloaderImplementsJobs == Spec => ImplementsJobs
<1>1. TypeInv /\ [Next]_vars => [Jobs!Next]_<<Listed, state, blocks>>
  BY JobsStep
<1> QED
  BY <1>1, TypeInit, TypeStep, JobsInit, PTL DEF Spec, ImplementsJobs, Jobs!Spec
=============================================================================
