----------------------------- MODULE Downloader -----------------------------
(***************************************************************************)
(* The downloader of a client: src/lib/downloader.c and download.c.  The   *)
(* main thread adds, retries and pauses downloads; a pool of workers looks *)
(* for IDLE downloads and fetches their blocks.  A download's lock is held *)
(* while one of its blocks is fetched, the downloader's while the list is  *)
(* scanned or extended, so each of these is one step; between two blocks,  *)
(* and before it decides how the download ended, a worker holds no lock.   *)
(***************************************************************************)
EXTENDS Integers, Sequences

CONSTANTS
    File,       \* torrents the user may download
    Worker,     \* downloader->tid: DOWNLOADER_POOL_SIZE threads
    Blocks,     \* Blocks[f]: number of blocks of file f
    Forgotten,  \* files that some peer has, and says it has, forgotten
    Removed,    \* files the user may remove from the disk meanwhile
    NoDownload, \* an index of -1
    MaxPauses   \* bound: MaxPauses[f] is how often the user pauses f

ASSUME DownloaderAssumption ==
    /\ Blocks \in [File -> Nat]
    /\ Forgotten \subseteq File /\ Removed \subseteq File
    /\ NoDownload \notin File
    /\ MaxPauses \in [File -> Nat]

VARIABLES
    running,   \* downloader->running
    spin,      \* the download whose download_init_peers does not return
    downloads, \* downloader->downloads, in the order they were added
    state,     \* download->state
    blocks,    \* download->blocks: the blocks that are owned
    peers,     \* download->peers: the blocks some known peer offers
    pc,        \* a worker's place in downloader_thread and download_start
    dl,        \* the download it works on
    idx,       \* the block it is at
    received,  \* its blocks_received
    paused     \* how often the user paused a download

main   == <<running, spin, downloads, paused>>
job    == <<state, blocks, peers>>
worker == <<pc, dl, idx, received>>
vars   == <<main, job, worker>>

Block(f) == 0 .. (Blocks[f] - 1)
Listed   == {downloads[i] : i \in DOMAIN downloads}
In(s)    == {f \in Listed : state[f] = s}

TypeOK ==
    /\ running \in BOOLEAN
    /\ spin \in File \cup {NoDownload}
    /\ downloads \in Seq(File)
    /\ state \in [File -> {"IDLE", "RUNNING", "PAUSED", "DONE"}]
    /\ blocks \in [File -> SUBSET Nat] /\ peers \in [File -> SUBSET Nat]
    /\ \A f \in File : blocks[f] \cup peers[f] \subseteq Block(f)
    /\ pc \in [Worker -> {"scan", "open", "block", "tally", "last", "finish",
                          "exit"}]
    /\ dl \in [Worker -> File \cup {NoDownload}]
    /\ idx \in [Worker -> Nat]
    /\ received \in [Worker -> BOOLEAN]
    /\ paused \in [File -> Nat]

Init ==
    /\ running = TRUE /\ spin = NoDownload /\ downloads = <<>>
    /\ paused = [f \in File |-> 0]
    /\ state = [f \in File |-> "IDLE"]
    /\ blocks = [f \in File |-> {}] /\ peers = [f \in File |-> {}]
    /\ pc = [w \in Worker |-> "scan"]
    /\ dl = [w \in Worker |-> NoDownload]
    /\ idx = [w \in Worker |-> 0]
    /\ received = [w \in Worker |-> TRUE]

-----------------------------------------------------------------------------
\* The user, on the main thread.
Awake == running /\ spin = NoDownload

\* Mistake: one byte too many is taken for a block.
InitPeersTooMany(f) ==
    \E offered \in SUBSET (0 .. Blocks[f]) : peers' = [peers EXCEPT ![f] = offered]

\* The peers that answer DOWNLOAD offer some of the blocks.
download_init_peers(f) ==
    \E offered \in SUBSET Block(f) : peers' = [peers EXCEPT ![f] = offered]

\* downloader_add of a file that is not listed: download_init.
Add(f) ==
    /\ Awake /\ f \notin Listed
    /\ downloads' = Append(downloads, f)
    /\ download_init_peers(f)
    /\ UNCHANGED <<running, spin, paused, state, blocks, worker>>

\* downloader_add of a listed file: a PAUSED download gets new peers and is
\* IDLE again; any other is left alone.
Retry(f) ==
    /\ Awake /\ f \in Listed /\ state[f] = "PAUSED"
    /\ download_init_peers(f)
    /\ state' = [state EXCEPT ![f] = "IDLE"]
    /\ UNCHANGED <<main, blocks, worker>>

\* A peer answers that it does not know the file, and is asked again and again
\* while the main thread holds the downloader's lock.
InitPeersSpins(f) ==
    /\ Awake /\ f \in Forgotten
    /\ f \notin Listed \/ state[f] = "PAUSED"
    /\ spin' = f
    /\ UNCHANGED <<running, downloads, paused, job, worker>>

downloader_pause(f) ==
    /\ Awake /\ f \in Listed /\ paused[f] < MaxPauses[f]
    /\ state[f] = "RUNNING"
    /\ state' = [state EXCEPT ![f] = "PAUSED"]
    /\ paused' = [paused EXCEPT ![f] = @ + 1]
    /\ UNCHANGED <<running, spin, downloads, blocks, peers, worker>>

\* downloader_cleanup: the workers end when they look for the next download.
downloader_cleanup ==
    /\ Awake
    /\ running' = FALSE
    /\ UNCHANGED <<spin, downloads, paused, job, worker>>

-----------------------------------------------------------------------------
\* A worker.

\* Mistake: the downloads are looked at, not declared as running.
ScanUnclaimed(w) ==
    /\ pc[w] = "scan" /\ Awake
    /\ \E i \in DOMAIN downloads :
          /\ downloads[i] \in In("IDLE")
          /\ dl' = [dl EXCEPT ![w] = downloads[i]]
    /\ pc' = [pc EXCEPT ![w] = "open"]
    /\ UNCHANGED <<main, job, idx, received>>

\* Every IDLE download is declared as running, and the last one is started.
Scan(w) ==
    /\ pc[w] = "scan" /\ Awake
    /\ \E i \in DOMAIN downloads :
          /\ downloads[i] \in In("IDLE")
          /\ \A j \in DOMAIN downloads : j > i => downloads[j] \notin In("IDLE")
          /\ dl' = [dl EXCEPT ![w] = downloads[i]]
    /\ state' = [f \in File |-> IF f \in In("IDLE") THEN "RUNNING" ELSE state[f]]
    /\ pc' = [pc EXCEPT ![w] = "open"]
    /\ UNCHANGED <<main, blocks, peers, idx, received>>

Exit(w) ==
    /\ pc[w] = "scan" /\ ~running
    /\ pc' = [pc EXCEPT ![w] = "exit"]
    /\ UNCHANGED <<main, job, dl, idx, received>>

\* The worker's local variables go out of scope.
Released(w) ==
    /\ dl' = [dl EXCEPT ![w] = NoDownload]
    /\ idx' = [idx EXCEPT ![w] = 0]
    /\ received' = [received EXCEPT ![w] = TRUE]
    /\ pc' = [pc EXCEPT ![w] = "scan"]

\* download_start.
Open(w) ==
    /\ pc[w] = "open"
    /\ pc' = [pc EXCEPT ![w] = IF Blocks[dl[w]] = 0 THEN "finish" ELSE "block"]
    /\ UNCHANGED <<main, job, dl, idx, received>>

\* The file cannot be opened: the worker looks for another download and leaves
\* this one as it is.
OpenFails(w) ==
    /\ pc[w] = "open" /\ dl[w] \in Removed
    /\ Released(w)
    /\ UNCHANGED <<main, job>>

\* Mistake: the worker goes on fetching after a pause.
GetBlockAnyway(w) ==
    LET f == dl[w] IN
    /\ pc[w] = "block" /\ spin # f
    /\ \/ /\ idx[w] \in peers[f]
          /\ blocks' = [blocks EXCEPT ![f] = @ \cup {idx[w]}]
       \/ UNCHANGED blocks
    /\ pc' = [pc EXCEPT ![w] = "tally"]
    /\ UNCHANGED <<main, state, peers, dl, idx, received>>

\* Under the lock: unless it is owned, the block is requested from the peers
\* that offer it, and it arrives or it does not.
GetBlock(w) ==
    LET f == dl[w] IN
    /\ pc[w] = "block" /\ spin # f /\ state[f] = "RUNNING"
    /\ \/ /\ idx[w] \in peers[f]
          /\ blocks' = [blocks EXCEPT ![f] = @ \cup {idx[w]}]
       \/ UNCHANGED blocks
    /\ pc' = [pc EXCEPT ![w] = "tally"]
    /\ UNCHANGED <<main, state, peers, dl, idx, received>>

\* The download is not RUNNING any more: this was the last block.
Interrupted(w) ==
    LET f == dl[w] IN
    /\ pc[w] = "block" /\ spin # f /\ state[f] # "RUNNING"
    /\ pc' = [pc EXCEPT ![w] = "last"]
    /\ UNCHANGED <<main, job, dl, idx, received>>

\* Mistake: a missing block is not noted.
TallyNothing(w) ==
    /\ pc[w] \in {"tally", "last"}
    /\ idx' = [idx EXCEPT ![w] = @ + 1]
    /\ pc' = [pc EXCEPT ![w] = IF @ = "tally" /\ idx[w] + 1 < Blocks[dl[w]]
                               THEN "block" ELSE "finish"]
    /\ UNCHANGED <<main, job, dl, received>>


\* Without the lock: a missing block is noted; then the worker sleeps.
Tally(w) ==
    /\ pc[w] \in {"tally", "last"}
    /\ received' = [received EXCEPT ![w] = @ /\ idx[w] \in blocks[dl[w]]]
    /\ idx' = [idx EXCEPT ![w] = @ + 1]
    /\ pc' = [pc EXCEPT ![w] = IF @ = "tally" /\ idx[w] + 1 < Blocks[dl[w]]
                               THEN "block" ELSE "finish"]
    /\ UNCHANGED <<main, job, dl>>

\* Under the lock: a download that is still RUNNING is DONE or PAUSED.
Finish(w) ==
    LET f == dl[w] IN
    /\ pc[w] = "finish" /\ spin # f
    /\ state' = IF state[f] = "RUNNING"
                THEN [state EXCEPT ![f] = IF received[w] THEN "DONE" ELSE "PAUSED"]
                ELSE state
    /\ Released(w)
    /\ UNCHANGED <<main, blocks, peers>>

-----------------------------------------------------------------------------
WorkerStep(w) ==
    \/ Scan(w) \/ Exit(w) \/ Open(w) \/ OpenFails(w) \/ GetBlock(w)
    \/ Interrupted(w) \/ Tally(w) \/ Finish(w)

User(f) == Add(f) \/ Retry(f) \/ InitPeersSpins(f) \/ downloader_pause(f)

Next == \/ \E w \in Worker : WorkerStep(w)
        \/ \E f \in File : User(f)
        \/ downloader_cleanup

Spec == Init /\ [][Next]_vars

\* The workers go on; the user need not do anything.
FairSpec == Spec /\ \A w \in Worker : WF_vars(WorkerStep(w))

-----------------------------------------------------------------------------
Workers(f)  == {w \in Worker : dl[w] = f}
Complete(f) == Block(f) \subseteq blocks[f]

\* "declare the download as running so that other threads won't take it": two
\* workers never work on a download the user has not paused.
AloneUnlessPaused ==
    \A f \in File : paused[f] = 0 =>
        \A v, w \in Workers(f) : v = w

\* "download is done (all blocks were received)", for such a download.
DoneUnlessPaused ==
    \A f \in In("DONE") : paused[f] = 0 => Complete(f)

\* The life of a download, as the user sees it.
Jobs == INSTANCE DownloadJobs WITH listed <- Listed
ImplementsJobs == Jobs!Spec

=============================================================================
