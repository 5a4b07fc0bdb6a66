------------------------------- MODULE Client -------------------------------
(***************************************************************************)
(* A client process: the main loop of src/src/client.c, which reads lines, *)
(* starts and stops the tracker and checks it when the alarm has rung, and *)
(* the server threads of that tracker (tracker.c), which accept, serve and *)
(* exit.  What requests mean to the ring and to downloads is the subject   *)
(* of Tracker.tla and Swarm.tla; here they have a kind.  No request has a  *)
(* timeout: what the client itself asks of the server and of other         *)
(* trackers may be answered, fail, or stay unanswered.                     *)
(***************************************************************************)
EXTENDS CommandLine, FiniteSets

CONSTANTS
    Thread,  \* THREAD_POOL_SIZE server threads
    Typed,   \* lines that the user types
    Backlog, \* connections that wait to be accepted: listen(fd, 0) allows one
    MaxAsked \* bound: requests of others

ASSUME ClientAssumption ==
    /\ IsFiniteSet(Thread) /\ Thread # {}
    /\ Backlog \in Nat \ {0} /\ MaxAsked \in Nat

\* Requests by what their handlers need: nothing, the tracker's lock, its
\* downloader as well; UPLOAD, whose save_file may fail; the notice that the
\* server has stopped; SHUTDOWN; and one whose sender goes away.
Kind == {"ping", "find", "block", "upload", "notice", "shutdown", "broken"}
NeedsLock == {"find", "block", "upload"}

VARIABLES
    main,       \* what the main thread does
    back,       \* where it goes when a stop or a failed start is over
    command,    \* what the line it executes means
    toStop,     \* SHUTDOWNs that tracker_cleanup has still to send
    check,      \* client.periodic_check
    armed,      \* alarm: SIGALRM will be delivered
    tracker,    \* client.tracker: NULL, being started, or there
    downloader, \* tracker->downloader: not set yet, there, or freed
    running,    \* tracker->running
    serverRunning, \* tracker->server_running
    bound,      \* tracker_init_local_server got its socket and made threads
    leaked,     \* tracker->lock is held by nobody that will release it
    listening,  \* a socket of this process is bound to the tracker's address
    waiting,    \* connections waiting to be accepted
    thread,     \* what each server thread does
    asked,      \* bound: requests of others so far
    serverBusy, \* the bootstrap server's lock is held: server_stop, SEARCH_PEER
    unanswered  \* what the main thread waits for never happens

alarmVars   == <<check, armed>>
trackerVars == <<tracker, downloader, running, serverRunning, bound, leaked>>
threadVars  == <<listening, waiting, thread, asked>>
requestVars == <<serverBusy, unanswered>>
vars == <<main, back, command, toStop, alarmVars, trackerVars, threadVars,
          requestVars>>

Ended == main \in {"exited", "crashed"}

TypeOK ==
    /\ main \in {"read", "check", "alarm", "execute", "stabilize", "bind",
                 "connect", "publish", "hand", "disconnect", "close", "shutdowns",
                 "leave", "cleanup", "exited", "crashed"}
    /\ back \in {"read", "alarm", "exited"}
    /\ toStop \in 0 .. Cardinality(Thread)
    /\ check \in BOOLEAN /\ armed \in BOOLEAN
    /\ tracker \in {"none", "starting", "there"}
    /\ downloader \in {"unset", "there", "freed"}
    /\ running \in BOOLEAN /\ serverRunning \in BOOLEAN
    /\ listening \in BOOLEAN /\ bound \in BOOLEAN /\ leaked \in BOOLEAN
    /\ waiting \in Seq(Kind) /\ Len(waiting) <= Backlog
    /\ thread \in [Thread -> Kind \cup {"none", "accept", "hung", "exited"}]
    /\ asked \in 0 .. MaxAsked
    /\ serverBusy \in BOOLEAN /\ unanswered \in BOOLEAN

\* client_init: the first line is followed by a check.
Init ==
    /\ main = "read" /\ back = "read" /\ command = "UNKNOWN" /\ toStop = 0
    /\ check = TRUE /\ armed = FALSE
    /\ tracker = "none" /\ downloader = "unset"
    /\ running = FALSE /\ serverRunning = FALSE /\ bound = FALSE
    /\ leaked = FALSE /\ listening = FALSE /\ waiting = <<>>
    /\ thread = [t \in Thread |-> "none"]
    /\ asked = 0
    /\ serverBusy = FALSE /\ unanswered = FALSE

From(here, there) == main = here /\ main' = there

\* Every search goes to the server, a download does without a tracker, and an
\* upload ends there.
AsksServer ==
    \/ command = "SEARCH"
    \/ command = "DOWNLOAD" /\ tracker = "none"
    \/ command = "UPLOAD" /\ tracker = "there"

-----------------------------------------------------------------------------
\* The main loop.

ReadLine(line) ==
    /\ From("read", "check")
    /\ command' = Understood(line)
    /\ UNCHANGED <<back, toStop, alarmVars, trackerVars, threadVars,
                   requestVars>>

NoCheck ==
    /\ ~check
    /\ From("check", "execute")
    /\ UNCHANGED <<back, command, toStop, alarmVars, trackerVars, threadVars,
                   requestVars>>

\* Mistake: the server is not asked about.
CheckStabilizesOnly ==
    /\ check /\ check' = FALSE
    /\ main = "check"
    /\ main' = IF tracker = "none" THEN "alarm" ELSE "stabilize"
    /\ back' = "alarm"
    /\ UNCHANGED <<command, toStop, armed, trackerVars, threadVars,
                   requestVars>>

\* The alarm has rung: a tracker whose server has stopped is stopped, any other
\* is stabilized.  Every way through ends in alarm(), as continue only leaves
\* the do { } while (0).
PeriodicCheck ==
    /\ check /\ check' = FALSE
    /\ main = "check"
    /\ main' = IF tracker = "none" THEN "alarm"
               ELSE IF ~serverRunning THEN "disconnect" ELSE "stabilize"
    /\ back' = "alarm"
    /\ UNCHANGED <<command, toStop, armed, trackerVars, threadVars,
                   requestVars>>

\* Mistake: the alarm is set only after a check that stops nothing.
AlarmUnlessStopped ==
    /\ From("alarm", "execute")
    /\ armed' = (tracker = "there")
    /\ UNCHANGED <<back, command, toStop, check, trackerVars, threadVars,
                   requestVars>>

Alarm ==
    /\ From("alarm", "execute")
    /\ armed' = TRUE
    /\ UNCHANGED <<back, command, toStop, check, trackerVars, threadVars,
                   requestVars>>

\* alarm_handle.
AlarmRings ==
    /\ ~Ended /\ armed
    /\ armed' = FALSE /\ check' = TRUE
    /\ UNCHANGED <<main, back, command, toStop, trackerVars, threadVars,
                   requestVars>>

\* tracker_stabilize takes the lock and releases it only when it succeeds.  It
\* may fail, or ask the client to rejoin.
Stabilize ==
    /\ main = "stabilize" /\ ~leaked
    /\ \/ main' = back /\ UNCHANGED leaked
       \/ main' \in {back, "disconnect"} /\ leaked' = TRUE
    /\ UNCHANGED <<back, command, toStop, alarmVars, tracker, downloader, running,
                   serverRunning, bound, threadVars, requestVars>>

Execute ==
    /\ main = "execute"
    /\ command = "TRACKER_STATE" /\ tracker = "there" => ~leaked
    /\ AsksServer => ~serverBusy
    /\ main' = CASE command = "TRACKER_START" /\ tracker = "none" -> "bind"
                 [] command = "TRACKER_STOP" /\ tracker # "none" -> "disconnect"
                 [] command = "TRACKER_STABILIZE" /\ tracker # "none" -> "stabilize"
                 [] command = "QUIT" -> "cleanup"
                 [] OTHER -> "read"
    /\ back' = "read"
    /\ UNCHANGED <<command, toStop, alarmVars, trackerVars, threadVars,
                   requestVars>>

-----------------------------------------------------------------------------
\* client_start_tracker.

\* tracker_init_local_server: the address is taken, or there are threads now.
Bind ==
    /\ main = "bind"
    /\ tracker' = "starting" /\ downloader' = "unset" /\ leaked' = FALSE
    /\ running' = TRUE /\ serverRunning' = FALSE
    /\ \/ main' = "close" /\ bound' = FALSE /\ UNCHANGED <<listening, thread>>
       \/ /\ ~listening
          /\ main' = "connect" /\ bound' = TRUE /\ listening' = TRUE
          /\ thread' = [t \in Thread |-> "accept"]
    /\ UNCHANGED <<back, command, toStop, alarmVars, waiting, asked,
                   requestVars>>

\* tracker_init_dht_connection; CONNECT_TRACKER needs the server's lock.
Connect ==
    /\ main = "connect" /\ ~serverBusy /\ main' \in {"publish", "close"}
    /\ UNCHANGED <<back, command, toStop, alarmVars, trackerVars, threadVars,
                   requestVars>>

\* The server is running if tracker_init gets here.
Publish ==
    /\ From("publish", "hand")
    /\ serverRunning' = TRUE
    /\ UNCHANGED <<back, command, toStop, alarmVars, tracker, downloader, running,
                   bound, leaked, threadVars, requestVars>>

\* Mistake: the handlers are left without the downloader.
HandNothing ==
    /\ From("hand", "read")
    /\ tracker' = "there" /\ UNCHANGED downloader
    /\ UNCHANGED <<back, command, toStop, alarmVars, running, serverRunning, bound,
                   leaked, threadVars, requestVars>>

Hand ==
    /\ From("hand", "read")
    /\ tracker' = "there" /\ downloader' = "there"
    /\ UNCHANGED <<back, command, toStop, alarmVars, running, serverRunning, bound,
                   leaked, threadVars, requestVars>>

-----------------------------------------------------------------------------
\* client_stop_tracker, and tracker_cleanup, which a failed start calls too.

\* DISCONNECT_TRACKER, which waits for the server's lock; what the server
\* answers does not matter.
Disconnect ==
    /\ From("disconnect", "close") /\ ~serverBusy
    /\ UNCHANGED <<back, command, toStop, alarmVars, trackerVars, threadVars,
                   requestVars>>

\* Mistake: one SHUTDOWN too many.
CloseOneMore ==
    /\ From("close", "shutdowns")
    /\ running' = FALSE /\ toStop' = Cardinality(Thread) + 1
    /\ UNCHANGED <<back, command, alarmVars, tracker, downloader, serverRunning,
                   bound, leaked, threadVars, requestVars>>

\* Mistake: one SHUTDOWN less than there are threads.
CloseOneLess ==
    /\ From("close", "shutdowns")
    /\ running' = FALSE /\ toStop' = Cardinality(Thread) - 1
    /\ UNCHANGED <<back, command, alarmVars, tracker, downloader, serverRunning,
                   bound, leaked, threadVars, requestVars>>

\* Threads stop when they next look at running.
Close ==
    /\ From("close", "shutdowns")
    /\ running' = FALSE /\ toStop' = Cardinality(Thread)
    /\ UNCHANGED <<back, command, alarmVars, tracker, downloader, serverRunning,
                   bound, leaked, threadVars, requestVars>>

Stuck(t) == thread[t] = "hung" \/ (leaked /\ thread[t] \in NeedsLock)

\* A thread that will take a connection from the queue.
Accepts(t) == thread[t] \notin {"none", "exited"} /\ ~Stuck(t)

\* To whoever listens there: when bind has failed, not this tracker.
SendShutdown ==
    /\ From("shutdowns", "shutdowns") /\ toStop > 0
    /\ toStop' = toStop - 1
    /\ \/ listening /\ Len(waiting) < Backlog /\ waiting' = Append(waiting, "shutdown")
       \/ ~listening /\ UNCHANGED waiting
    /\ UNCHANGED <<back, command, alarmVars, trackerVars, listening, thread,
                   asked, requestVars>>

\* tracker_cleanup returns.  A failed start frees the tracker in any case, a
\* stop only when cleanup has succeeded.
Returns(cleaned) ==
    /\ main' = back
    /\ IF cleaned \/ tracker = "starting"
       THEN /\ tracker' = "none"
            /\ thread' = [t \in Thread |-> IF Stuck(t) THEN "hung" ELSE thread[t]]
       ELSE UNCHANGED <<tracker, thread>>
    /\ toStop' = 0
    /\ UNCHANGED <<back, command, alarmVars, downloader, running, serverRunning,
                   bound, leaked, asked, requestVars>>

\* connect fails: nobody listens, or the queue is full and nobody empties it.
ShutdownFails ==
    /\ main = "shutdowns" /\ toStop > 0
    /\ listening => Len(waiting) = Backlog /\ \A t \in Thread : ~Accepts(t)
    /\ Returns(FALSE)
    /\ UNCHANGED <<listening, waiting>>

\* Mistake: nobody waits for the threads.
NoJoin ==
    /\ main = "shutdowns" /\ toStop = 0
    /\ main' = "leave"
    /\ UNCHANGED <<back, command, toStop, alarmVars, trackerVars, threadVars,
                   requestVars>>

\* pthread_join; when bind has failed, of whatever tid holds.
Join ==
    /\ main = "shutdowns" /\ toStop = 0
    /\ IF bound THEN (\A t \in Thread : thread[t] = "exited") /\ main' = "leave"
       ELSE main' \in {"leave", "crashed"}
    /\ UNCHANGED <<back, command, toStop, alarmVars, trackerVars, threadVars,
                   requestVars>>

\* The socket is closed, the torrents are handed over.
Leave ==
    /\ main = "leave"
    /\ Returns(TRUE)
    /\ IF bound THEN listening' = FALSE /\ waiting' = <<>>
       ELSE UNCHANGED <<listening, waiting>>

\* client_cleanup: the downloader goes first.
Cleanup ==
    /\ main = "cleanup"
    /\ IF tracker = "none" THEN main' = "exited" /\ UNCHANGED <<back,
                                                                downloader>>
       ELSE main' = "disconnect" /\ back' = "exited" /\ downloader' = "freed"
    /\ UNCHANGED <<command, toStop, alarmVars, tracker, running, serverRunning, bound,
                   leaked, threadVars, requestVars>>

-----------------------------------------------------------------------------
\* The server threads, tracker_local_server_thread.

Accept(t) ==
    /\ ~Ended /\ thread[t] = "accept" /\ waiting # <<>>
    /\ thread' = [thread EXCEPT ![t] = Head(waiting)]
    /\ waiting' = Tail(waiting)
    /\ UNCHANGED <<main, back, command, toStop, alarmVars, trackerVars,
                   listening, asked, requestVars>>

\* The handler, and what the thread does when it has answered: it exits when
\* running says so.
Serve(t) ==
    /\ ~Ended /\ thread[t] \in Kind \ {"broken"}
    /\ thread[t] \in NeedsLock => ~leaked
    /\ thread' = [thread EXCEPT ![t] = IF running THEN "accept" ELSE "exited"]
    /\ leaked' \in {leaked, thread[t] = "upload"} /\ (leaked => leaked')
    /\ serverRunning' = (serverRunning /\ thread[t] # "notice")
    /\ IF thread[t] = "block" /\ downloader # "there"
       THEN main' \in {main, "crashed"} ELSE UNCHANGED main
    /\ UNCHANGED <<back, command, toStop, alarmVars, tracker, downloader, running,
                   bound, listening, waiting, asked, requestVars>>

\* The sender has gone: recv_req fails, and the thread accepts without looking
\* at running, or it waits for the rest of the request for ever.
Broken(t) ==
    /\ ~Ended /\ thread[t] = "broken"
    /\ \E next \in {"accept", "hung"} : thread' = [thread EXCEPT ![t] = next]
    /\ UNCHANGED <<main, back, command, toStop, alarmVars, trackerVars, listening,
                   waiting, asked, requestVars>>

\* A handler waits with the tracker's lock: for another tracker, which FIND asks,
\* or for downloader->lock, which a retry may hold for ever.
ServeHangs(t) ==
    /\ ~Ended /\ thread[t] \in {"find", "block"} /\ ~leaked
    /\ thread' = [thread EXCEPT ![t] = "hung"]
    /\ leaked' = TRUE
    /\ UNCHANGED <<main, back, command, toStop, alarmVars, tracker, downloader,
                   running, serverRunning, bound, listening, waiting, asked,
                   requestVars>>

\* Somebody connects and sends a request; the server sends its notice with its
\* lock held.
Asks(kind) ==
    /\ ~Ended /\ listening /\ Len(waiting) < Backlog
    /\ kind = "notice" => serverBusy
    /\ asked < MaxAsked /\ asked' = asked + 1
    /\ waiting' = Append(waiting, kind)
    /\ UNCHANGED <<main, back, command, toStop, alarmVars, trackerVars,
                   listening, thread, requestVars>>

-----------------------------------------------------------------------------
\* What the client asks of others.

\* The server's lock is held by SEARCH_PEER while it asks trackers, and by
\* server_stop until every tracker has answered its notice: a dead one is tried
\* again for ever.
ServerLock ==
    /\ ~Ended
    /\ serverBusy => "notice" \notin Range(waiting) \cup Range(thread)
    /\ serverBusy' = ~serverBusy
    /\ UNCHANGED <<main, back, command, toStop, alarmVars, trackerVars, threadVars,
                   unanswered>>

\* A request is never answered: its receiver waits for a lock nobody releases,
\* which for a stabilization may be this tracker's own, or for a third one, or
\* the connection was cut.  client_cleanup waits for workers that wait so.
RequestHangs ==
    /\ \/ main \in {"connect", "disconnect", "leave", "cleanup"}
       \/ main = "stabilize" /\ ~leaked
       \/ /\ main = "execute"
          /\ \/ AsksServer
             \/ command \in {"DOWNLOAD", "DOWNLOAD_LIST", "DOWNLOAD_PAUSE"}
    /\ unanswered' = TRUE
    /\ leaked' = (leaked \/ main = "stabilize")
    /\ IF main = "leave" /\ bound THEN listening' = FALSE /\ waiting' = <<>>
       ELSE UNCHANGED <<listening, waiting>>
    /\ UNCHANGED <<main, back, command, toStop, alarmVars, tracker, downloader,
                   running, serverRunning, bound, thread, asked, serverBusy>>

-----------------------------------------------------------------------------
MainStep ==
  /\ ~unanswered
  /\ \/ \E line \in Typed : ReadLine(line)
     \/ NoCheck \/ PeriodicCheck \/ Alarm \/ Stabilize \/ Execute
     \/ Bind \/ Connect \/ Publish \/ Hand
     \/ Disconnect \/ Close \/ SendShutdown \/ ShutdownFails \/ Join \/ Leave
     \/ Cleanup \/ RequestHangs

ThreadStep(t) == Accept(t) \/ Serve(t) \/ Broken(t) \/ ServeHangs(t)

Next ==
    \/ MainStep \/ AlarmRings \/ ServerLock
    \/ \E t \in Thread : ThreadStep(t)
    \/ \E kind \in Kind : Asks(kind)

\* Threads run, signals arrive, and the user goes on entering lines.
Spec ==
    /\ Init /\ [][Next]_vars
    /\ WF_vars(MainStep) /\ WF_vars(AlarmRings)
    /\ \A t \in Thread : WF_vars(ThreadStep(t))

-----------------------------------------------------------------------------
\* When the tracker has been freed no thread works on it, save those that wait
\* for a lock nobody releases or for bytes nobody sends: tracker_cleanup's
\* SHUTDOWNs wake every other thread, whatever was waiting before them.
FreedIsQuiet ==
    ~Ended /\ tracker = "none" =>
        \A t \in Thread : thread[t] \in {"none", "exited", "hung"}

\* A handler finds the downloader, except while the tracker is being started
\* and when the client has begun to quit.
HandlersHaveDownloader ==
    ~Ended /\ (\E t \in Thread : thread[t] = "block") =>
        downloader = "there" \/ tracker = "starting" \/ back = "exited"

\* cmd_parse reads the grammar of docs.tex, and what the client takes out of
\* the arguments is there: what cmds_get_cmd_type admits has its value.
LinesAreRead == ReadsGrammar(3) /\ FindsValues(3)
CommandsAreUnderstood == main = "read" => LinesAreRead

\* The server does not keep its lock for ever: server_stop has no dead tracker
\* to tell, and SEARCH_PEER gets its answers.
ServerGoesOn == <>[]~serverBusy

\* A stop that has begun returns, unless a server thread cannot, the server
\* keeps its lock or a request of this client is never answered.
Stopping == main \in {"disconnect", "close", "shutdowns", "leave"}
StopReturns ==
    ServerGoesOn =>
        (Stopping ~> (~Stopping \/ unanswered \/ \E t \in Thread : Stuck(t)))

\* Threads cannot be stopped: the lock is lost, one waits for ever, or all of
\* them left before their SHUTDOWN had room in the queue.
Jammed ==
    \/ leaked
    \/ \E t \in Thread : thread[t] = "hung"
    \/ tracker = "there" /\ \A t \in Thread : thread[t] = "exited"

\* A tracker that was told that the server stopped is stopped, although only
\* the next line typed after the alarm makes the client look.  The server that
\* sent the notice must get through its list: DISCONNECT_TRACKER waits for it.
NoticeIsActedOn ==
    ServerGoesOn =>
        (tracker = "there" /\ ~serverRunning
            ~> (tracker = "none" \/ Ended \/ Jammed \/ unanswered))

\* The periodic check comes back, whichever way the last one went, if what it
\* and the commands ask of others is answered.
CheckComesBack ==
    ServerGoesOn => (~check ~> (check \/ Ended \/ Jammed \/ unanswered))
=============================================================================
