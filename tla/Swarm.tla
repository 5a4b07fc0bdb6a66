------------------------------- MODULE Swarm -------------------------------
(***************************************************************************)
(* One torrent shared by trackers: tracker_upload and tracker_download of  *)
(* tracker.c, the clients' downloads (downloader.c, download.c), and the   *)
(* handlers UPLOAD, SEARCH, ADD_PEER, DOWNLOAD and BLOCK that answer them. *)
(* A request waits for one of Pool server threads, then for the locks its  *)
(* handler takes; whoever asked waits for the answer, holding its own.     *)
(* Home is the tracker the ring finds for the torrent (Tracker.tla), and   *)
(* bytes are carried by Stream.tla.                                        *)
(***************************************************************************)
EXTENDS Naturals, FiniteSets

CONSTANTS
    Node,        \* client processes
    Tracker,     \* those that run a tracker: the others only download
    Home,        \* the tracker that keeps the torrent
    Uploaders,   \* those whose user has the file
    Downloaders, \* those whose user downloads it
    Worker,      \* the workers of each client, as <<client, tid>>
    Pool,        \* THREAD_POOL_SIZE
    Blocks,      \* number of blocks of the file
    Mortal,      \* bound: uploaders that may be killed, between two commands
    MayStop,     \* bound: trackers that their users stop and start again
    MaxFaults,   \* bound: kills, stops of a tracker, and failures of a disk
    MaxTries,    \* bound: how often users upload and download, all together
    MaxPauses,   \* bound: how often they pause
    MaxTrouble,  \* bound: faults and pauses together
    Nobody       \* holds a free lock

VARIABLES
    alive,   \* clients that run
    serving, \* those whose tracker does
    stopped, \* ghost: trackers that were stopped, whether started again or not
    peers,   \* Home: file->peers of the torrent; none when it is not there
    local,   \* who has the torrent in tracker->local_files
    state,   \* download->state; none when it is not in the list
    owned,   \* download->blocks
    disk,    \* what the file of the download holds, block by block
    sources, \* download->peers
    tlock,   \* tracker->lock: the process whose request is handled
    dlock,   \* downloader->lock
    wlock,   \* download->lock
    pc,      \* what a process does
    todo,    \* peers it has still to ask
    at,      \* the block a worker is at
    missed,  \* not blocks_received
    to, stage, answer, \* its request: to whom, how far it got, and the answer
    tried, paused, faults \* bounds

online   == <<alive, serving, stopped>>
swarm    == <<online, peers, local>>
download == <<state, owned, disk, sources>>
locks    == <<tlock, dlock, wlock>>
process  == <<pc, todo, at, missed>>
call     == <<to, stage, answer>>
bounds   == <<tried, paused, faults>>
vars     == <<swarm, download, locks, process, call, bounds>>

User(n) == <<n, "user">>
Proc    == Worker \cup {User(n) : n \in Node}
Block   == 0 .. Blocks - 1

ASSUME SwarmAssumption ==
    /\ Tracker \subseteq Node /\ Home \in Tracker
    /\ Uploaders \subseteq Tracker /\ Downloaders \subseteq Node
    /\ Mortal \subseteq Uploaders \ (Downloaders \cup {Home})
    /\ MayStop \subseteq Tracker \ {Home}
    /\ \A p \in Worker : p = <<p[1], p[2]>> /\ p[1] \in Node /\ p[2] # "user"
    /\ Nobody \notin Proc
    /\ Node \cap {"data", "zero", "whole"} = {}
    /\ Pool \in Nat \ {0} /\ Blocks \in Nat
    /\ MaxFaults \in Nat
    /\ MaxTries \in Nat /\ MaxPauses \in Nat /\ MaxTrouble \in Nat

\* An answer without a body is NULL.
NULL   == {}
Answer == SUBSET (Node \cup {"data", "zero", "whole"})

TypeOK ==
    /\ alive \subseteq Node /\ serving \subseteq Tracker /\ stopped \subseteq MayStop
    /\ peers \subseteq Tracker /\ local \subseteq Uploaders
    /\ state \in [Node -> {"none", "IDLE", "RUNNING", "PAUSED", "DONE"}]
    /\ owned \in [Node -> SUBSET Block]
    /\ disk \in [Node -> [Block -> {"data", "zero"}]]
    /\ sources \in [Node -> SUBSET Tracker]
    /\ tlock \in [Tracker -> Proc \cup {Nobody}]
    /\ dlock \in [Node -> Proc \cup {Nobody}]
    /\ wlock \in [Node -> Proc \cup {Nobody}]
    /\ pc \in [Proc -> {"idle", "upload", "search", "add", "retry", "init",
                        "announce", "scan", "claim", "block", "fetch", "finish"}]
    /\ todo \in [Proc -> SUBSET Tracker]
    /\ at \in [Proc -> 0 .. Blocks] /\ missed \in [Proc -> BOOLEAN]
    /\ to \in [Proc -> Tracker] /\ answer \in [Proc -> Answer]
    /\ stage \in [Proc -> {"none", "sent", "accepted", "waiting", "reading",
                           "answered", "failed", "hung"}]
    /\ tried \in 0 .. MaxTries /\ paused \in 0 .. MaxPauses
    /\ faults \in 0 .. MaxFaults

Init ==
    /\ alive = Node /\ serving = Tracker /\ stopped = {}
    /\ peers = {} /\ local = {}
    /\ state = [n \in Node |-> "none"] /\ owned = [n \in Node |-> {}]
    /\ disk = [n \in Node |-> [b \in Block |-> "zero"]]
    /\ sources = [n \in Node |-> {}]
    /\ tlock = [n \in Tracker |-> Nobody]
    /\ dlock = [n \in Node |-> Nobody] /\ wlock = [n \in Node |-> Nobody]
    /\ pc = [p \in Proc |-> IF p \in Worker THEN "scan" ELSE "idle"]
    /\ todo = [p \in Proc |-> {}] /\ at = [p \in Proc |-> 0]
    /\ missed = [p \in Proc |-> FALSE]
    /\ to = [p \in Proc |-> Home] /\ answer = [p \in Proc |-> NULL]
    /\ stage = [p \in Proc |-> "none"]
    /\ tried = 0 /\ paused = 0 /\ faults = 0

-----------------------------------------------------------------------------
\* Requests, seen by whoever sends them.

\* connect fails when nobody listens.
Ask(p, n) ==
    /\ to' = [to EXCEPT ![p] = n] /\ answer' = [answer EXCEPT ![p] = NULL]
    /\ stage' = [stage EXCEPT ![p] = IF n \in serving THEN "sent" ELSE "failed"]
Done(p) ==
    /\ to' = [to EXCEPT ![p] = Home] /\ answer' = [answer EXCEPT ![p] = NULL]
    /\ stage' = [stage EXCEPT ![p] = "none"]

\* The disk fails, a client is killed or its tracker stopped.
Fault ==
    /\ faults < MaxFaults /\ faults + paused < MaxTrouble
    /\ faults' = faults + 1

\* Requests that a server thread of n serves.
Busy(n) == {p \in Proc : to[p] = n
                         /\ stage[p] \in {"accepted", "waiting", "reading"}}

Goto(p, there) == pc' = [pc EXCEPT ![p] = there]
Lock(lock, n, p) == lock[n] = Nobody /\ lock' = [lock EXCEPT ![n] = p]
Unlock(lock, n) == lock' = [lock EXCEPT ![n] = Nobody]

-----------------------------------------------------------------------------
\* The user: tracker_upload.

Upload(n) ==
    /\ n \in serving \cap Uploaders /\ n \notin local /\ pc[User(n)] = "idle"
    /\ tried < MaxTries /\ tried' = tried + 1
    /\ Goto(User(n), "upload") /\ Ask(User(n), Home)
    /\ UNCHANGED <<swarm, download, locks, todo, at, missed, paused, faults>>

\* Mistake: the torrent is published, the file forgotten.
UploadedNotKept(n) ==
    /\ pc[User(n)] = "upload" /\ stage[User(n)] = "answered"
    /\ Goto(User(n), "idle") /\ Done(User(n))
    /\ UNCHANGED <<swarm, download, locks, todo, at, missed, bounds>>

\* local_file_list_add, once the torrent is published.
Uploaded(n) ==
    /\ pc[User(n)] = "upload" /\ stage[User(n)] = "answered"
    /\ local' = local \cup {n}
    /\ Goto(User(n), "idle") /\ Done(User(n))
    /\ UNCHANGED <<online, peers, download, locks, todo, at, missed, bounds>>

-----------------------------------------------------------------------------
\* The user: tracker_download, and client_download without a tracker.

Search(n) ==
    /\ n \in alive \cap Downloaders /\ pc[User(n)] = "idle"
    /\ tried < MaxTries /\ tried' = tried + 1
    /\ Goto(User(n), "search") /\ Ask(User(n), Home)
    /\ UNCHANGED <<swarm, download, locks, todo, at, missed, paused, faults>>

Found(n) ==
    /\ pc[User(n)] = "search" /\ stage[User(n)] = "answered"
    /\ Goto(User(n), IF answer[User(n)] = NULL THEN "idle" ELSE "add")
    /\ todo' = [todo EXCEPT ![User(n)] = answer[User(n)]]
    /\ Done(User(n))
    /\ UNCHANGED <<swarm, download, locks, at, missed, bounds>>

\* downloader_add, of a torrent that is not in the list: download_init makes
\* the file, zeroed, or fails.
Add(n) ==
    /\ pc[User(n)] = "add" /\ state[n] = "none"
    /\ Lock(dlock, n, User(n)) /\ Goto(User(n), "init")
    /\ UNCHANGED <<swarm, download, tlock, wlock, todo, at, missed, call,
                   bounds>>

AddFails(n) ==
    /\ pc[User(n)] = "add" /\ state[n] = "none" /\ dlock[n] = Nobody
    /\ Goto(User(n), "idle") /\ todo' = [todo EXCEPT ![User(n)] = {}]
    /\ UNCHANGED <<swarm, download, locks, at, missed, call, bounds>>

\* ... and of one that is: only when it is PAUSED does it get new peers.
AddAgain(n) ==
    /\ pc[User(n)] = "add" /\ state[n] # "none"
    /\ Lock(dlock, n, User(n)) /\ Goto(User(n), "retry")
    /\ UNCHANGED <<swarm, download, tlock, wlock, todo, at, missed, call,
                   bounds>>

Retry(n) ==
    /\ pc[User(n)] = "retry" /\ state[n] = "PAUSED"
    /\ Lock(wlock, n, User(n)) /\ Goto(User(n), "init")
    /\ sources' = [sources EXCEPT ![n] = {}]
    /\ UNCHANGED <<swarm, state, owned, disk, tlock, dlock, todo, at, missed,
                   call, bounds>>

NotRetried(n) ==
    /\ pc[User(n)] = "retry" /\ state[n] # "PAUSED" /\ wlock[n] = Nobody
    /\ Unlock(dlock, n) /\ Goto(User(n), "announce")
    /\ todo' = [todo EXCEPT ![User(n)] = {}]
    /\ UNCHANGED <<swarm, download, tlock, wlock, at, missed, call, bounds>>

\* download_init_peers asks the peers one by one which blocks they have.
AskPeer(n) ==
    /\ pc[User(n)] = "init" /\ stage[User(n)] = "none"
    /\ \E peer \in todo[User(n)] : Ask(User(n), peer)
    /\ UNCHANGED <<swarm, download, locks, process, bounds>>

PeerAnswers(n) ==
    LET p == User(n) IN
    /\ pc[p] = "init" /\ stage[p] = "answered" /\ answer[p] # NULL
    /\ sources' = [sources EXCEPT ![n] = @ \cup {to[p]}]
    /\ todo' = [todo EXCEPT ![p] = @ \ {to[p]}] /\ Done(p)
    /\ UNCHANGED <<swarm, state, owned, disk, locks, pc, at, missed, bounds>>

\* NULL from a peer leaves the loop where it is: it is asked again.
PeerHasNothing(n) ==
    LET p == User(n) IN
    /\ pc[p] = "init" /\ stage[p] = "answered" /\ answer[p] = NULL
    /\ Ask(p, to[p])
    /\ UNCHANGED <<swarm, download, locks, process, bounds>>

\* Mistake: so is a peer that is dead.
DeadPeerAskedAgain(n) ==
    LET p == User(n) IN
    /\ pc[p] = "init" /\ stage[p] = "failed"
    /\ Ask(p, to[p])
    /\ UNCHANGED <<swarm, download, locks, process, bounds>>

DeadPeer(n) ==
    LET p == User(n) IN
    /\ pc[p] = "init" /\ stage[p] = "failed"
    /\ todo' = [todo EXCEPT ![p] = @ \ {to[p]}] /\ Done(p)
    /\ UNCHANGED <<swarm, download, locks, pc, at, missed, bounds>>

\* All were asked: a new download joins the list.
Added(n) ==
    /\ pc[User(n)] = "init" /\ todo[User(n)] = {}
    /\ state' = [state EXCEPT ![n] = "IDLE"]
    /\ Unlock(dlock, n)
    /\ wlock' = [wlock EXCEPT ![n] = IF @ = User(n) THEN Nobody ELSE @]
    /\ Goto(User(n), "announce")
    /\ UNCHANGED <<swarm, owned, disk, sources, tlock, todo, at, missed, call,
                   bounds>>

\* ADD_PEER: a tracker that downloads is a peer from now on.
Announce(n) ==
    /\ pc[User(n)] = "announce" /\ stage[User(n)] = "none" /\ n \in serving
    /\ Ask(User(n), Home)
    /\ UNCHANGED <<swarm, download, locks, process, bounds>>

NoTracker(n) ==
    /\ pc[User(n)] = "announce" /\ stage[User(n)] = "none" /\ n \notin serving
    /\ Goto(User(n), "idle")
    /\ UNCHANGED <<swarm, download, locks, todo, at, missed, call, bounds>>

Announced(n) ==
    /\ pc[User(n)] = "announce" /\ stage[User(n)] = "answered"
    /\ Goto(User(n), "idle") /\ Done(User(n))
    /\ UNCHANGED <<swarm, download, locks, todo, at, missed, bounds>>

\* downloader_pause.
Pause(n) ==
    /\ n \in alive /\ pc[User(n)] = "idle"
    /\ state[n] = "RUNNING" /\ wlock[n] = Nobody
    /\ paused < MaxPauses /\ faults + paused < MaxTrouble
    /\ paused' = paused + 1
    /\ state' = [state EXCEPT ![n] = "PAUSED"]
    /\ UNCHANGED <<swarm, owned, disk, sources, locks, process, call, tried,
                   faults>>

\* client_stop_tracker, between two requests to the tracker: its threads end
\* what they serve, local_files is freed, downloads stay.
StopTracker(n) ==
    /\ n \in serving \cap MayStop /\ pc[User(n)] = "idle"
    /\ Busy(n) = {} /\ Fault
    /\ serving' = serving \ {n} /\ stopped' = stopped \cup {n}
    /\ local' = local \ {n}
    /\ stage' = [p \in Proc |-> IF to[p] = n /\ stage[p] = "sent" THEN "failed"
                                ELSE stage[p]]
    /\ UNCHANGED <<alive, peers, download, locks, process, to, answer, tried,
                   paused>>

\* client_start_tracker: local_files is NULL, the address the same.
StartTracker(n) ==
    /\ n \in alive \cap MayStop /\ n \notin serving /\ pc[User(n)] = "idle"
    /\ serving' = serving \cup {n}
    /\ UNCHANGED <<alive, stopped, peers, local, download, locks, process,
                   call, bounds>>

-----------------------------------------------------------------------------
\* A worker: downloader_thread and download_start.

\* The scan takes the downloader's lock ...
Scan(p) ==
    LET n == p[1] IN
    /\ pc[p] = "scan" /\ (wlock[n] = Nobody => state[n] = "IDLE")
    /\ Lock(dlock, n, p) /\ Goto(p, "claim")
    /\ UNCHANGED <<swarm, download, tlock, wlock, todo, at, missed, call,
                   bounds>>

\* ... and waits for the download's, which is held for as long as a block is
\* fetched.  (A scan that would neither wait nor find anything is left out.)
Claim(p) ==
    LET n == p[1]
        idle == state[n] = "IDLE"
    IN
    /\ pc[p] = "claim" /\ wlock[n] = Nobody
    /\ state' = [state EXCEPT ![n] = IF idle THEN "RUNNING" ELSE @]
    /\ Goto(p, IF idle THEN "block" ELSE "scan")
    /\ Unlock(dlock, n)
    /\ UNCHANGED <<swarm, owned, disk, sources, tlock, wlock, todo, at, missed,
                   call, bounds>>

\* download_start returns, and the next scan begins.
Return(p) ==
    /\ Goto(p, "scan")
    /\ at' = [at EXCEPT ![p] = 0] /\ missed' = [missed EXCEPT ![p] = FALSE]

\* open fails, before the first block: the download stays RUNNING, with nobody
\* at work on it.
OpenFails(p) ==
    /\ pc[p] = "block" /\ at[p] = 0
    /\ Fault /\ Return(p)
    /\ UNCHANGED <<swarm, download, locks, todo, call, tried, paused>>

\* The next block, unless it is owned.
BeginBlock(p) ==
    LET n == p[1] IN
    /\ pc[p] = "block" /\ at[p] \in Block \ owned[n] /\ state[n] = "RUNNING"
    /\ Lock(wlock, n, p) /\ Goto(p, "fetch")
    /\ todo' = [todo EXCEPT ![p] = sources[n]]
    /\ UNCHANGED <<swarm, download, tlock, dlock, at, missed, call, bounds>>

SkipBlock(p) ==
    LET n == p[1] IN
    /\ pc[p] = "block" /\ at[p] \in Block \cap owned[n] /\ state[n] = "RUNNING"
    /\ wlock[n] = Nobody
    /\ at' = [at EXCEPT ![p] = @ + 1]
    /\ UNCHANGED <<swarm, download, locks, pc, todo, missed, call, bounds>>

Interrupted(p) ==
    LET n == p[1] IN
    /\ pc[p] = "block" /\ at[p] < Blocks /\ state[n] # "RUNNING"
    /\ wlock[n] = Nobody
    /\ missed' = [missed EXCEPT ![p] = @ \/ at[p] \notin owned[n]]
    /\ Goto(p, "finish")
    /\ UNCHANGED <<swarm, download, locks, todo, at, call, bounds>>

\* The sources that say they have the block are asked in turn.
AskSource(p) ==
    /\ pc[p] = "fetch" /\ stage[p] = "none"
    /\ \E peer \in todo[p] : Ask(p, peer)
    /\ UNCHANGED <<swarm, download, locks, process, bounds>>

\* Leave the block, for the next one.
NextBlock(p) ==
    /\ Unlock(wlock, p[1]) /\ Goto(p, "block")
    /\ at' = [at EXCEPT ![p] = @ + 1]
    /\ todo' = [todo EXCEPT ![p] = {}]

\* Mistake: the block behind it is marked as received.
NextArrives(p) ==
    LET n == p[1] IN
    /\ pc[p] = "fetch" /\ stage[p] = "answered" /\ answer[p] # NULL
    /\ \E data \in answer[p] : disk' = [disk EXCEPT ![n][at[p]] = data]
    /\ owned' = [owned EXCEPT ![n] = @ \cup {at[p] + 1}]
    /\ NextBlock(p) /\ Done(p)
    /\ UNCHANGED <<swarm, state, sources, tlock, dlock, missed, bounds>>

\* It is written to the file where it belongs, and noted.
BlockArrives(p) ==
    LET n == p[1] IN
    /\ pc[p] = "fetch" /\ stage[p] = "answered" /\ answer[p] # NULL
    /\ \E data \in answer[p] : disk' = [disk EXCEPT ![n][at[p]] = data]
    /\ owned' = [owned EXCEPT ![n] = @ \cup {at[p]}]
    /\ NextBlock(p) /\ Done(p)
    /\ UNCHANGED <<swarm, state, sources, tlock, dlock, missed, bounds>>

SourceFails(p) ==
    /\ pc[p] = "fetch"
    /\ stage[p] = "failed" \/ (stage[p] = "answered" /\ answer[p] = NULL)
    /\ todo' = [todo EXCEPT ![p] = @ \ {to[p]}]
    /\ Done(p)
    /\ UNCHANGED <<swarm, download, locks, pc, at, missed, bounds>>

\* lseek or write fails: the next source is asked for the block.
WriteFails(p) ==
    /\ pc[p] = "fetch" /\ stage[p] = "answered" /\ answer[p] # NULL
    /\ Fault
    /\ todo' = [todo EXCEPT ![p] = @ \ {to[p]}]
    /\ Done(p)
    /\ UNCHANGED <<swarm, download, locks, pc, at, missed, tried, paused>>

BlockMissed(p) ==
    /\ pc[p] = "fetch" /\ stage[p] = "none" /\ todo[p] = {}
    /\ missed' = [missed EXCEPT ![p] = TRUE]
    /\ NextBlock(p)
    /\ UNCHANGED <<swarm, download, tlock, dlock, call, bounds>>

Finish(p) ==
    LET n == p[1] IN
    /\ pc[p] = "finish" \/ (pc[p] = "block" /\ at[p] = Blocks)
    /\ wlock[n] = Nobody
    /\ state' = [state EXCEPT ![n] = IF @ # "RUNNING" THEN @
                                     ELSE IF missed[p] THEN "PAUSED" ELSE "DONE"]
    /\ Return(p)
    /\ UNCHANGED <<swarm, owned, disk, sources, locks, todo, call, bounds>>

-----------------------------------------------------------------------------
\* The server threads, tracker_local_server_thread.

At(p, there) == stage' = [stage EXCEPT ![p] = there] /\ UNCHANGED <<to, answer>>
Answers(p, what) ==
    /\ stage' = [stage EXCEPT ![p] = "answered"]
    /\ answer' = [answer EXCEPT ![p] = what] /\ UNCHANGED to

Accept(p) ==
    /\ stage[p] = "sent" /\ Cardinality(Busy(to[p])) < Pool
    /\ At(p, "accepted")
    /\ UNCHANGED <<swarm, download, locks, process, bounds>>

\* file_list_add, add_peer and serialize_file: an upload of a torrent that is
\* there is ignored, ADD_PEER of one that is not is refused.
List(p) ==
    CASE pc[p] = "upload" -> IF peers = {} THEN {p[1]} ELSE peers
      [] pc[p] = "announce" -> IF peers = {} THEN {} ELSE peers \cup {p[1]}
      [] OTHER -> peers

\* UPLOAD, SEARCH and ADD_PEER, under the tracker's lock.
HandleTorrent(p) ==
    /\ stage[p] = "accepted" /\ pc[p] \in {"upload", "search", "announce"}
    /\ tlock[Home] = Nobody
    /\ peers' = List(p)
    /\ Answers(p, IF pc[p] = "search" THEN peers ELSE NULL)
    /\ UNCHANGED <<online, local, download, locks, process, bounds>>

\* save_file fails: the handler leaves with the lock and without an answer.
SaveFails(p) ==
    /\ stage[p] = "accepted" /\ pc[p] = "upload"
    /\ Fault /\ Lock(tlock, Home, p)
    /\ At(p, "hung")
    /\ UNCHANGED <<swarm, download, dlock, wlock, process, tried, paused>>

\* DOWNLOAD's answer for a file that is here, a 1 for each of its blocks: of an
\* empty file, none.
OnePerBlock == IF Blocks = 0 THEN NULL ELSE {"whole"}

\* What DOWNLOAD answers, and BLOCK begins, for a file that is here: whatever
\* a download owns, it is offered as a whole.
Offer(p) ==
    /\ stage' = [stage EXCEPT ![p] = IF pc[p] = "init" THEN "answered" ELSE "reading"]
    /\ answer' = [answer EXCEPT ![p] = IF pc[p] = "init" THEN OnePerBlock ELSE NULL]
    /\ UNCHANGED to

\* The files it uploaded come first, under the tracker's lock ...
LookLocal(p) ==
    /\ stage[p] = "accepted" /\ pc[p] \in {"init", "fetch"}
    /\ to[p] \in local /\ tlock[to[p]] = Nobody
    /\ Offer(p)
    /\ UNCHANGED <<swarm, download, locks, process, bounds>>

\* ... which is kept while the handler waits for the downloader's.
LookElsewhere(p) ==
    /\ stage[p] = "accepted" /\ pc[p] \in {"init", "fetch"}
    /\ to[p] \notin local /\ Lock(tlock, to[p], p)
    /\ At(p, "waiting")
    /\ UNCHANGED <<swarm, download, dlock, wlock, process, bounds>>

LookDownloads(p) ==
    /\ stage[p] = "waiting" /\ dlock[to[p]] = Nobody /\ state[to[p]] # "none"
    /\ Unlock(tlock, to[p]) /\ Offer(p)
    /\ UNCHANGED <<swarm, download, dlock, wlock, process, bounds>>

NotHere(p) ==
    /\ stage[p] = "waiting" /\ dlock[to[p]] = Nobody /\ state[to[p]] = "none"
    /\ Unlock(tlock, to[p]) /\ Answers(p, NULL)
    /\ UNCHANGED <<swarm, download, dlock, wlock, process, bounds>>

\* Mistake: blocks that the uploader sends are lost.
ReadBlockZero(p) ==
    /\ stage[p] = "reading"
    /\ Answers(p, {"zero"})
    /\ UNCHANGED <<swarm, download, locks, process, bounds>>

\* The block is read from the file without a lock.
ReadBlock(p) ==
    LET n == to[p] IN
    /\ stage[p] = "reading"
    /\ Answers(p, {IF n \in local THEN "data" ELSE disk[n][at[p]]})
    /\ UNCHANGED <<swarm, download, locks, process, bounds>>

\* open, lseek or read fails: the handler leaves without an answer.
ReadFails(p) ==
    /\ stage[p] = "reading"
    /\ Fault /\ At(p, "hung")
    /\ UNCHANGED <<swarm, download, locks, process, tried, paused>>

\* A tracker is killed.  Its requesters get an error, or wait for the rest of
\* an answer for ever (Rpc.tla).
Dies(n) ==
    LET cut == {p \in Proc : to[p] = n
                  /\ stage[p] \in {"sent", "accepted", "waiting", "reading"}}
    IN
    /\ n \in alive \cap Mortal /\ pc[User(n)] = "idle"
    /\ Fault
    /\ alive' = alive \ {n} /\ serving' = serving \ {n}
    /\ \E hung \in SUBSET cut :
          stage' = [p \in Proc |-> IF p \notin cut THEN stage[p]
                                  ELSE IF p \in hung THEN "hung" ELSE "failed"]
    /\ UNCHANGED <<to, answer>>
    /\ UNCHANGED <<stopped, peers, local, download, locks, process, tried,
                   paused>>

-----------------------------------------------------------------------------
Types(n) ==
    \/ Upload(n) \/ Search(n) \/ Pause(n)
    \/ StopTracker(n) \/ StartTracker(n)

UserStep(n) ==
    \/ Uploaded(n) \/ Found(n) \/ Add(n) \/ AddFails(n) \/ AddAgain(n) \/ Retry(n)
    \/ NotRetried(n) \/ AskPeer(n) \/ PeerAnswers(n) \/ PeerHasNothing(n)
    \/ DeadPeer(n) \/ Added(n) \/ Announce(n) \/ NoTracker(n) \/ Announced(n)

WorkerStep(p) ==
    \/ Scan(p) \/ Claim(p) \/ BeginBlock(p) \/ SkipBlock(p)
    \/ Interrupted(p) \/ AskSource(p) \/ BlockArrives(p)
    \/ SourceFails(p) \/ BlockMissed(p) \/ Finish(p)

Serve(p) ==
    \/ Accept(p) \/ HandleTorrent(p) \/ LookLocal(p) \/ LookElsewhere(p)
    \/ LookDownloads(p) \/ NotHere(p) \/ ReadBlock(p)

Next ==
    \/ \E n \in Node : Types(n) \/ UserStep(n) \/ Dies(n)
    \/ \E p \in Worker : WorkerStep(p) \/ WriteFails(p) \/ OpenFails(p)
    \/ \E p \in Proc : Serve(p) \/ SaveFails(p) \/ ReadFails(p)

\* Threads run; the user need not type anything.
Spec ==
    /\ Init /\ [][Next]_vars
    /\ \A n \in Downloaders \cup Uploaders : WF_vars(UserStep(n))
    /\ \A p \in Worker : WF_vars(WorkerStep(p))
    /\ \A p \in Proc : WF_vars(Serve(p))

-----------------------------------------------------------------------------
\* A peer that Home lists has the file, or downloads it, or is about to note
\* that it uploaded it (UPLOAD and ADD_PEER come from another process than the
\* answer to DOWNLOAD and BLOCK): nobody who asks it is told NULL for long.  A
\* stop is the one thing that makes a tracker forget a file it is listed for.
PeersHaveIt ==
    \A n \in peers :
        n \in local \cup stopped \/ state[n] # "none" \/ pc[User(n)] = "upload"

\* A block that a download owns is zero only if another client that downloads
\* was listed as a peer, or it stopped its own tracker: what uploaders send is
\* the file (ReadBlock, BlockArrives), and a client that asks itself has
\* uploaded the file (Retry), until it forgets that (StopTracker).
ZerosAreDownloaded ==
    \A n \in Node, b \in Block :
        b \in owned[n] /\ disk[n][b] = "zero" =>
            \E m \in peers \cap Downloaders : m # n \/ n \in stopped

Waiting(n) == pc[User(n)] # "idle" \/ state[n] \in {"IDLE", "RUNNING"}

\* What ends no wait: a request that a failed handler or a killed tracker left
\* without an answer ...
Hung == \E p \in Proc : stage[p] = "hung"
\* ... a download whose file could not be opened ...
Abandoned(n) == state[n] = "RUNNING"
                /\ \A p \in Worker : p[1] = n => pc[p] \in {"scan", "claim"}
\* ... a user who asks, with its locks held, a tracker that runs and has nothing
\* to offer: it has forgotten the file, or the file is empty ...
AsksInVain(n) == pc[User(n)] = "init" /\ \E peer \in todo[User(n)] \cap serving :
                     (peer \notin local /\ state[peer] = "none") \/ Blocks = 0
\* ... and a retry that asks its own tracker, whose handler waits for its lock.
AsksItself(n) == pc[User(n)] = "init" /\ n \in todo[User(n)] \ local

\* A command ends, and so does the download it makes, whoever asks whom under
\* which locks, but for those.
DownloadsEnd ==
    \A n \in Node :
        Waiting(n) ~> \/ ~Waiting(n) \/ Hung \/ Abandoned(n)
                      \/ \E m \in Node : AsksInVain(m) \/ AsksItself(m)

\* "DONE, // download is done (all blocks were received)".
DoneIsTheFile ==
    \A n \in Node : state[n] = "DONE" => \A b \in Block : disk[n][b] = "data"

\* "If the id is already in the download list, the download is restarted."
RetryRestarts ==
    \A n \in Node :
        state[n] = "PAUSED" /\ pc[User(n)] = "add" ~> (state[n] # "PAUSED" \/ Hung)
=============================================================================
