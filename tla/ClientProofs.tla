---------------------------- MODULE ClientProofs ----------------------------
(***************************************************************************)
(* Theorems about Client: for any number of server threads, any queue of   *)
(* connections and any lines and requests, a freed tracker leaves no       *)
(* thread at work, and no handler is left without the downloader while the *)
(* client serves; and lines of every length are read as the grammar says.  *)
(***************************************************************************)
EXTENDS Client, FiniteSetTheorems, SequenceTheorems, WellFoundedInduction,
        TLAPS

-----------------------------------------------------------------------------
\* Types: of what the main thread keeps, and of the connections and threads.

MainTypes ==
    /\ main \in {"read", "check", "alarm", "execute", "stabilize", "bind",
                 "connect", "publish", "hand", "disconnect", "close", "shutdowns",
                 "leave", "cleanup", "exited", "crashed"}
    /\ back \in {"read", "alarm", "exited"}
    /\ toStop \in 0 .. Cardinality(Thread)
FlagTypes ==
    /\ check \in BOOLEAN /\ armed \in BOOLEAN
    /\ tracker \in {"none", "starting", "there"}
    /\ downloader \in {"unset", "there", "freed"}
    /\ running \in BOOLEAN /\ serverRunning \in BOOLEAN
    /\ listening \in BOOLEAN /\ bound \in BOOLEAN /\ leaked \in BOOLEAN
    /\ serverBusy \in BOOLEAN /\ unanswered \in BOOLEAN
ThreadTypes ==
    /\ waiting \in Seq(Kind) /\ Len(waiting) <= Backlog
    /\ thread \in [Thread -> Kind \cup {"none", "accept", "hung", "exited"}]
    /\ asked \in 0 .. MaxAsked

LEMMA TypesAre == TypeOK <=> MainTypes /\ FlagTypes /\ ThreadTypes
  BY DEF TypeOK, MainTypes, FlagTypes, ThreadTypes

LEMMA ThreadsAreCounted == Cardinality(Thread) \in Nat
  BY ClientAssumption, FS_CardinalityType

LEMMA InitTypes == Init => TypeOK
<1> SUFFICES ASSUME Init PROVE MainTypes /\ FlagTypes /\ ThreadTypes
  BY TypesAre
<1>1. MainTypes
  BY ThreadsAreCounted DEF Init, MainTypes
<1>2. FlagTypes
  BY DEF Init, FlagTypes
<1>3. ThreadTypes
  BY ClientAssumption DEF Init, ThreadTypes
<1> QED
  BY <1>1, <1>2, <1>3

LEMMA MainTypesStep ==
    ASSUME MainTypes, [Next]_vars
    PROVE  MainTypes'
<1> USE DEF MainTypes
<1>1. CASE UNCHANGED <<main, back, toStop>>
  BY <1>1
<1>2. CASE (\E line \in Typed : ReadLine(line)) \/ NoCheck \/ PeriodicCheck \/ Alarm
  BY <1>2 DEF ReadLine, NoCheck, PeriodicCheck, Alarm, From
<1>3. CASE Stabilize \/ Execute \/ Bind \/ Connect \/ Publish \/ Hand
  BY <1>3 DEF Stabilize, Execute, Bind, Connect, Publish, Hand, From
<1>4. CASE Disconnect \/ Join \/ Cleanup
  BY <1>4 DEF Disconnect, Join, Cleanup, From
<1>5. CASE Close \/ SendShutdown
  BY <1>5, ThreadsAreCounted DEF Close, SendShutdown, From
<1>6. CASE ShutdownFails \/ Leave
  BY <1>6, ThreadsAreCounted DEF ShutdownFails, Leave, Returns
<1>7. ASSUME NEW t \in Thread, Serve(t) PROVE MainTypes'
  BY <1>7 DEF Serve
<1>8. CASE AlarmRings \/ ServerLock \/ RequestHangs
  BY <1>1, <1>8 DEF AlarmRings, ServerLock, RequestHangs
<1> QED
  BY <1>1, <1>2, <1>3, <1>4, <1>5, <1>6, <1>7, <1>8 DEF Next, vars, MainStep,
     ThreadStep, Accept, Broken, ServeHangs, Asks

LEMMA FlagTypesStep ==
    ASSUME FlagTypes, [Next]_vars
    PROVE  FlagTypes'
<1> USE DEF FlagTypes, alarmVars, trackerVars, threadVars, requestVars
<1>1. CASE UNCHANGED <<alarmVars, trackerVars, listening, requestVars>>
  BY <1>1
<1>2. CASE PeriodicCheck \/ Alarm \/ Stabilize \/ AlarmRings
  <2>1. CASE PeriodicCheck
    BY <2>1 DEF PeriodicCheck
  <2>2. CASE Alarm
    BY <2>2 DEF Alarm
  <2>3. CASE Stabilize
    <3>1. leaked' \in BOOLEAN
      BY <2>3 DEF Stabilize
    <3>2. UNCHANGED <<alarmVars, tracker, downloader, running, serverRunning,
                     bound, listening, requestVars>>
      BY <2>3 DEF Stabilize
    <3> QED
      BY <3>1, <3>2
  <2>4. CASE AlarmRings
    BY <2>4 DEF AlarmRings
  <2> QED
    BY <1>2, <2>1, <2>2, <2>3, <2>4
<1>3. CASE Bind
  BY <1>3 DEF Bind
<1>4. CASE Publish \/ Hand \/ Close \/ Cleanup
  <2>1. CASE Publish
    BY <2>1 DEF Publish
  <2>2. CASE Hand
    BY <2>2 DEF Hand
  <2>3. CASE Close
    BY <2>3 DEF Close
  <2>4. CASE Cleanup
    BY <2>4 DEF Cleanup
  <2> QED
    BY <1>4, <2>1, <2>2, <2>3, <2>4
<1>5. CASE ShutdownFails \/ Leave
  <2>1. CASE ShutdownFails
    BY <2>1 DEF ShutdownFails, Returns
  <2>2. CASE Leave
    BY <2>2 DEF Leave, Returns
  <2> QED
    BY <1>5, <2>1, <2>2
<1>6. ASSUME NEW t \in Thread, Serve(t) PROVE FlagTypes'
  BY <1>6 DEF Serve
<1>7. CASE (\E line \in Typed : ReadLine(line)) \/ NoCheck \/ Execute \/ Connect
           \/ Disconnect \/ SendShutdown \/ Join
  <2>1. CASE (\E line \in Typed : ReadLine(line)) \/ NoCheck \/ Execute
    BY <1>1, <2>1 DEF ReadLine, NoCheck, Execute
  <2>2. CASE Connect \/ Disconnect \/ Join
    BY <1>1, <2>2 DEF Connect, Disconnect, Join
  <2>3. CASE SendShutdown
    BY <1>1, <2>3 DEF SendShutdown
  <2> QED
    BY <1>7, <2>1, <2>2, <2>3
<1>8. ASSUME NEW t \in Thread, Accept(t) \/ Broken(t) PROVE FlagTypes'
  BY <1>1, <1>8 DEF Accept, Broken
<1>9. ASSUME NEW kind \in Kind, Asks(kind) PROVE FlagTypes'
  BY <1>1, <1>9 DEF Asks
<1>10. CASE ServerLock
  BY <1>10 DEF ServerLock
<1>11. CASE RequestHangs
  BY <1>11 DEF RequestHangs
<1>12. ASSUME NEW t \in Thread, ServeHangs(t) PROVE FlagTypes'
  BY <1>12 DEF ServeHangs
<1> QED
  BY <1>1, <1>2, <1>3, <1>4, <1>5, <1>6, <1>7, <1>8, <1>9, <1>10, <1>11, <1>12
  DEF Next, vars, MainStep, ThreadStep

\* One more connection fits while the queue is not full.
LEMMA QueueGrows ==
    ASSUME ThreadTypes, NEW kind \in Kind, Len(waiting) < Backlog
    PROVE  Append(waiting, kind) \in Seq(Kind) /\ Len(Append(waiting, kind)) <= Backlog
  BY ClientAssumption DEF ThreadTypes

LEMMA ThreadTypesStep ==
    ASSUME ThreadTypes, [Next]_vars
    PROVE  ThreadTypes'
<1> USE DEF alarmVars, trackerVars, threadVars
<1>1. CASE UNCHANGED <<waiting, thread, asked>>
  BY <1>1 DEF ThreadTypes
<1>2. CASE Bind
  BY <1>2 DEF Bind, ThreadTypes
<1>3. CASE SendShutdown
  <2>1. "shutdown" \in Kind
    BY DEF Kind
  <2>2. thread' = thread /\ asked' = asked
    BY <1>3 DEF SendShutdown
  <2>3. CASE waiting' = waiting
    BY <1>1, <2>2, <2>3
  <2>4. CASE Len(waiting) < Backlog /\ waiting' = Append(waiting, "shutdown")
    <3>1. waiting' \in Seq(Kind) /\ Len(waiting') <= Backlog
      BY <2>1, <2>4, QueueGrows
    <3> QED
      BY <2>2, <3>1 DEF ThreadTypes
  <2> QED
    BY <1>3, <2>3, <2>4 DEF SendShutdown
<1>4. CASE ShutdownFails
  BY <1>4 DEF ShutdownFails, Returns, ThreadTypes
<1>5. CASE Leave
  <2>1. waiting' \in {waiting, <<>>} /\ asked' = asked
    BY <1>5 DEF Leave, Returns
  <2>2. thread' \in [Thread -> Kind \cup {"none", "accept", "hung", "exited"}]
    BY <1>5 DEF Leave, Returns, ThreadTypes
  <2>3. <<>> \in Seq(Kind) /\ Len(<<>>) <= Backlog
    BY ClientAssumption
  <2>4. waiting' \in Seq(Kind) /\ Len(waiting') <= Backlog
    BY <2>1, <2>3 DEF ThreadTypes
  <2> QED
    BY <2>1, <2>2, <2>4 DEF ThreadTypes
<1>6. ASSUME NEW t \in Thread, ThreadStep(t) PROVE ThreadTypes'
  <2>1. CASE Accept(t)
    <3>1. Head(waiting) \in Kind /\ Tail(waiting) \in Seq(Kind)
          /\ Len(Tail(waiting)) <= Backlog
      BY <2>1, ClientAssumption, HeadTailProperties DEF Accept, ThreadTypes
    <3> QED
      BY <2>1, <3>1 DEF Accept, ThreadTypes
  <2>2. CASE Serve(t) \/ Broken(t) \/ ServeHangs(t)
    BY <2>2 DEF Serve, Broken, ServeHangs, ThreadTypes
  <2> QED
    BY <1>6, <2>1, <2>2 DEF ThreadStep
<1>7. ASSUME NEW kind \in Kind, Asks(kind) PROVE ThreadTypes'
  <2>1. asked' \in 0 .. MaxAsked
    BY <1>7, ClientAssumption DEF Asks, ThreadTypes
  <2> QED
    BY <1>7, <2>1, QueueGrows DEF Asks, ThreadTypes
<1>8. CASE (\E line \in Typed : ReadLine(line)) \/ NoCheck \/ PeriodicCheck \/ Alarm
           \/ Stabilize \/ Execute \/ AlarmRings
  BY <1>1, <1>8 DEF ReadLine, NoCheck, PeriodicCheck, Alarm, Stabilize, Execute,
                    AlarmRings
<1>9. CASE Connect \/ Publish \/ Hand \/ Disconnect \/ Close \/ Join \/ Cleanup
  BY <1>1, <1>9 DEF Connect, Publish, Hand, Disconnect, Close, Join, Cleanup
<1>10. CASE ServerLock
  BY <1>1, <1>10 DEF ServerLock
<1>11. CASE RequestHangs
  <2>1. thread' = thread /\ asked' = asked /\ waiting' \in {waiting, <<>>}
    BY <1>11 DEF RequestHangs
  <2>2. <<>> \in Seq(Kind) /\ Len(<<>>) <= Backlog
    BY ClientAssumption
  <2> QED
    BY <2>1, <2>2 DEF ThreadTypes
<1> QED
  BY <1>1, <1>2, <1>3, <1>4, <1>5, <1>6, <1>7, <1>8, <1>9, <1>10, <1>11
  DEF Next, vars, MainStep

\* Every variable keeps its type: the queue of connections stays within its
\* bound, and no more SHUTDOWNs are left to send than there are threads.
THEOREM TypeCorrect == Spec => []TypeOK
<1>1. TypeOK /\ [Next]_vars => TypeOK'
  BY MainTypesStep, FlagTypesStep, ThreadTypesStep
  DEF TypeOK, MainTypes, FlagTypes, ThreadTypes
<1> QED
  BY <1>1, InitTypes, PTL DEF Spec

-----------------------------------------------------------------------------
\* Threads at work.

\* A thread that may still touch the tracker.
Active(t) == thread[t] \notin {"none", "exited", "hung"}

\* A thread works for a tracker that has a socket; one is started only when
\* the last one is freed, and gives up its socket when all have exited.
Serving ==
    /\ \A t \in Thread : Active(t) => tracker # "none" /\ bound /\ listening
    /\ main = "bind" => tracker = "none"
    /\ main = "leave" /\ bound => \A t \in Thread : thread[t] = "exited"

\* The downloader is there while the tracker is, until the client quits.
Quitting == back = "exited" /\ main \in {"disconnect", "close", "shutdowns", "leave",
                                        "exited", "crashed"}
Handed ==
    /\ back = "exited" => Quitting
    /\ tracker = "there" => downloader = "there" \/ back = "exited"

QuietInv == Serving /\ Handed

LEMMA InitQuiet == Init => QuietInv
  BY DEF Init, QuietInv, Serving, Handed, Active

\* What changes neither a thread, the tracker nor its socket.
LEMMA SameServing ==
    ASSUME Serving, UNCHANGED <<thread, tracker, bound, listening>>,
           main' = "bind" => tracker = "none",
           main' = "leave" /\ bound => \A t \in Thread : thread[t] = "exited"
    PROVE  Serving'
  BY DEF Serving, Active

\* tracker_cleanup returns: the threads that are left can no longer serve.
LEMMA ReturnsServing ==
    ASSUME TypeOK, Serving, NEW cleaned \in BOOLEAN, Returns(cleaned),
           cleaned \/ tracker = "starting" =>
               \A t \in Thread : Active(t) => Stuck(t)
    PROVE  /\ \A t \in Thread : Active(t)' => tracker' # "none" /\ bound' /\ listening
           /\ main' \notin {"bind", "leave"}
<1>1. bound' = bound /\ main' \notin {"bind", "leave"}
  BY DEF Returns, TypeOK
<1>2. CASE cleaned \/ tracker = "starting"
  <2>1. thread' = [t \in Thread |-> IF Stuck(t) THEN "hung" ELSE thread[t]]
    BY <1>2 DEF Returns
  <2>2. \A t \in Thread : ~ Active(t)'
    BY <1>2, <2>1 DEF Active
  <2> QED
    BY <1>1, <2>2
<1>3. CASE ~ (cleaned \/ tracker = "starting")
  <2>1. thread' = thread /\ tracker' = tracker
    BY <1>3 DEF Returns
  <2> QED
    BY <1>1, <2>1 DEF Serving, Active
<1> QED
  BY <1>2, <1>3

LEMMA ServingStep ==
    ASSUME TypeOK, QuietInv, [Next]_vars
    PROVE  Serving'
<1> Serving /\ Handed
  BY DEF QuietInv
<1> USE DEF alarmVars, trackerVars, threadVars
<1>1. CASE UNCHANGED vars
  BY <1>1, SameServing DEF vars, Serving
<1>2. CASE (\E line \in Typed : ReadLine(line)) \/ NoCheck \/ PeriodicCheck \/ Alarm
           \/ Stabilize \/ Execute
  <2>1. /\ UNCHANGED <<thread, tracker, bound, listening>> /\ main' # "leave"
        /\ main' = "bind" => tracker = "none"
    BY <1>2 DEF ReadLine, NoCheck, PeriodicCheck, Alarm, Stabilize, Execute, From, TypeOK
  <2> QED
    BY <2>1, SameServing
<1>3. CASE Bind
  <2>1. /\ tracker = "none" /\ tracker' = "starting" /\ main' \in {"close", "connect"}
        /\ \/ bound' /\ listening'
           \/ UNCHANGED <<listening, thread>>
    BY <1>3 DEF Bind, Serving
  <2>2. \A t \in Thread : ~ Active(t)
    BY <2>1 DEF Serving
  <2>3. \A t \in Thread : Active(t)' => bound' /\ listening'
    BY <2>1, <2>2 DEF Active
  <2> QED
    BY <2>1, <2>3 DEF Serving
<1>4. CASE Connect \/ Publish \/ Disconnect \/ Close \/ Cleanup \/ SendShutdown
  <2>1. /\ UNCHANGED <<thread, tracker, bound, listening>> /\ main' \notin {"leave", "bind"}
    BY <1>4 DEF Connect, Publish, Disconnect, Close, Cleanup, SendShutdown, From
  <2> QED
    BY <2>1, SameServing
<1>5. CASE Hand
  <2>1. /\ UNCHANGED <<thread, bound, listening>> /\ main' = "read" /\ tracker' = "there"
    BY <1>5 DEF Hand, From
  <2> QED
    BY <2>1 DEF Serving, Active
<1>6. CASE Join
  <2>1. /\ UNCHANGED <<thread, tracker, bound, listening>> /\ main' # "bind"
        /\ bound => \A t \in Thread : thread[t] = "exited"
    BY <1>6 DEF Join
  <2> QED
    BY <2>1, SameServing
<1>7. CASE ShutdownFails
  <2>1. \A t \in Thread : Active(t) => Stuck(t)
    BY <1>7 DEF ShutdownFails, Serving, Active, Accepts
  <2>2. Returns(FALSE) /\ listening' = listening
    BY <1>7 DEF ShutdownFails
  <2> QED
    BY <2>1, <2>2, ReturnsServing DEF Serving
<1>8. CASE Leave
  <2>1. \A t \in Thread : ~ Active(t)
    BY <1>8 DEF Leave, Serving, Active
  <2>2. \A t \in Thread : ~ Active(t)'
    BY <1>8, <2>1 DEF Leave, Returns, Active
  <2>3. main' \notin {"bind", "leave"}
    BY <1>8 DEF Leave, Returns, TypeOK
  <2> QED
    BY <2>2, <2>3 DEF Serving
<1>9. CASE AlarmRings \/ ServerLock \/ \E kind \in Kind : Asks(kind)
  BY <1>9 DEF AlarmRings, ServerLock, Asks, Serving, Active
<1>10. ASSUME NEW t \in Thread, ThreadStep(t) PROVE Serving'
  <2>1. /\ UNCHANGED <<tracker, bound, listening>> /\ Active(t)
        /\ \A u \in Thread \ {t} : thread'[u] = thread[u]
        /\ main' \in {main, "crashed"}
    BY <1>10 DEF ThreadStep, Accept, Serve, Broken, ServeHangs, TypeOK, Active, Kind
  <2>2. ~ (main' = "leave" /\ bound)
    BY <2>1 DEF Serving, Active
  <2> QED
    BY <2>1, <2>2 DEF Serving, Active
<1>11. CASE RequestHangs
  <2>1. UNCHANGED <<main, thread, tracker, bound>>
    BY <1>11 DEF RequestHangs
  <2>2. listening' = listening \/ (main = "leave" /\ bound)
    BY <1>11 DEF RequestHangs
  <2>3. main = "leave" /\ bound => \A t \in Thread : ~ Active(t)
    BY DEF Serving, Active
  <2> QED
    BY <2>1, <2>2, <2>3 DEF Serving, Active
<1> QED
  BY <1>1, <1>2, <1>3, <1>4, <1>5, <1>6, <1>7, <1>8, <1>9, <1>10, <1>11
  DEF Next, MainStep

LEMMA HandedStep ==
    ASSUME TypeOK, QuietInv, [Next]_vars
    PROVE  Handed'
<1> Serving /\ Handed
  BY DEF QuietInv
<1> USE DEF alarmVars, trackerVars, threadVars, Handed, Quitting
<1>1. CASE UNCHANGED vars
  BY <1>1 DEF vars
<1>2. CASE (\E line \in Typed : ReadLine(line)) \/ NoCheck \/ PeriodicCheck \/ Alarm
           \/ Stabilize \/ Execute
  BY <1>2 DEF ReadLine, NoCheck, PeriodicCheck, Alarm, Stabilize, Execute, From
<1>3. CASE Bind \/ Connect \/ Publish \/ Hand
  BY <1>3 DEF Bind, Connect, Publish, Hand, From
<1>4. CASE Disconnect \/ Close \/ SendShutdown \/ Join
  BY <1>4 DEF Disconnect, Close, SendShutdown, Join, From
<1>5. CASE ShutdownFails \/ Leave
  BY <1>5 DEF ShutdownFails, Leave, Returns
<1>6. CASE Cleanup
  BY <1>6 DEF Cleanup
<1>7. CASE AlarmRings \/ ServerLock \/ RequestHangs \/ \E kind \in Kind : Asks(kind)
  BY <1>7 DEF AlarmRings, ServerLock, RequestHangs, Asks
<1>8. ASSUME NEW t \in Thread, ThreadStep(t) PROVE Handed'
  <2>1. UNCHANGED <<tracker, downloader, back>> /\ main' \in {main, "crashed"}
    BY <1>8 DEF ThreadStep, Accept, Serve, Broken, ServeHangs
  <2> QED
    BY <2>1
<1> QED
  BY <1>1, <1>2, <1>3, <1>4, <1>5, <1>6, <1>7, <1>8 DEF Next, MainStep

LEMMA QuietInvariant == Spec => [](TypeOK /\ QuietInv)
<1>1. TypeOK /\ QuietInv /\ [Next]_vars => QuietInv'
  BY ServingStep, HandedStep DEF QuietInv
<1> QED
  BY <1>1, InitQuiet, TypeCorrect, PTL DEF Spec

\* Once the tracker is freed, no server thread works on it but those that can
\* never go on.
THEOREM FreedTrackerIsQuiet == Spec => []FreedIsQuiet
<1>1. QuietInv => FreedIsQuiet
  BY DEF QuietInv, Serving, Active, FreedIsQuiet
<1> QED
  BY <1>1, QuietInvariant, PTL

\* A BLOCK handler finds the downloader, unless the tracker is being started
\* or the client has begun to quit.
THEOREM HandlersFindDownloader == Spec => []HandlersHaveDownloader
<1>1. TypeOK /\ QuietInv => HandlersHaveDownloader
  BY DEF TypeOK, QuietInv, Serving, Handed, Active, HandlersHaveDownloader
<1> QED
  BY <1>1, QuietInvariant, PTL

-----------------------------------------------------------------------------
\* The command line: the loop of cmd_parse, which folds ParseToken over a line.

\* A set that holds 0, and with every number below N the next one, holds all
\* numbers up to N.
LEMMA UpTo ==
    ASSUME NEW N \in Nat, NEW S, 0 \in S,
           \A n \in 0 .. N - 1 : n \in S => n + 1 \in S
    PROVE  \A n \in 0 .. N : n \in S
<1> DEFINE T == {n \in 0 .. N : n \notin S}
<1>1. SUFFICES ASSUME T # {} PROVE FALSE
  OBVIOUS
<1>2. T \in SUBSET Nat
  OBVIOUS
<1> HIDE DEF T
<1>3. PICK n \in T : \A m \in T : ~ (<<m, n>> \in OpToRel(<, Nat))
  BY <1>1, <1>2, NatLessThanWellFounded, WFMin
<1>4. n \in 0 .. N /\ n \notin S /\ n # 0
  BY DEF T
<1>5. n - 1 \in 0 .. N - 1 /\ n - 1 \in Nat /\ n - 1 < n
  BY <1>4
<1>6. n - 1 \notin T
  <2>1. <<n - 1, n>> \in OpToRel(<, Nat)
    BY <1>4, <1>5 DEF OpToRel
  <2> QED
    BY <1>3, <2>1
<1> QED
  BY <1>4, <1>5, <1>6 DEF T

Fold(seq, b) == CHOOSE iter :
    iter = [s \in SUBSET DOMAIN seq |->
              IF s = {} THEN b ELSE ParseToken(iter[s \ {Max(s)}], seq[Max(s)])]

LEMMA FoldIs == \A seq, b : FoldLeft(ParseToken, b, seq) = Fold(seq, b)[DOMAIN seq]
  BY DEF FoldLeft, MapThenFoldSet, Fold

LEMMA MaxUpTo ==
    ASSUME NEW n \in Nat, NEW s \in SUBSET (1 .. n), n \in s
    PROVE  Max(s) = n
<1> DEFINE P(x) == x \in s /\ \A y \in s : x >= y
<1>1. P(n)
  OBVIOUS
<1>2. \A x : P(x) => x = n
  OBVIOUS
<1>3. P(CHOOSE x : P(x))
  <2> HIDE DEF P
  <2> QED
    BY <1>1
<1>4. Max(s) = CHOOSE x : P(x)
  BY DEF Max
<1> QED
  BY <1>2, <1>3, <1>4

\* What the loop of cmd_parse knows after each token: run[k] after k of them.
Runs(run, seq, b) ==
    /\ run[0] = b
    /\ \A k \in 1 .. Len(seq) : run[k] = ParseToken(run[k - 1], seq[k])

LEMMA FoldRuns ==
    ASSUME NEW S, NEW seq \in Seq(S), NEW b
    PROVE  \E run : Runs(run, seq, b) /\ FoldLeft(ParseToken, b, seq) = run[Len(seq)]
<1> DEFINE N == Len(seq)
           Step(f, s) == IF s = {} THEN b ELSE ParseToken(f[s \ {Max(s)}], seq[Max(s)])
           F(m, f) == /\ DOMAIN f = SUBSET (1 .. m)
                      /\ f = [s \in DOMAIN f |-> f[s]]
                      /\ \A s \in SUBSET (1 .. m) : f[s] = Step(f, s)
           T == {m \in 0 .. N : \E f : F(m, f)}
<1>1. N \in Nat /\ DOMAIN seq = 1 .. N
  OBVIOUS
<1> HIDE DEF N
<1>2. 0 \in T
  <2> DEFINE f == [s \in SUBSET (1 .. 0) |-> b]
  <2>1. \A s \in SUBSET (1 .. 0) : s = {}
    OBVIOUS
  <2>2. F(0, f)
    BY <2>1
  <2> HIDE DEF F, f
  <2> QED
    BY <1>1, <2>2
<1>3. ASSUME NEW m \in 0 .. N - 1, m \in T PROVE m + 1 \in T
  <2>1. PICK f : F(m, f)
    BY <1>3
  <2> DEFINE g == [s \in SUBSET (1 .. m + 1) |->
                     IF m + 1 \in s THEN ParseToken(f[s \ {m + 1}], seq[m + 1]) ELSE f[s]]
  <2>2. ASSUME NEW s \in SUBSET (1 .. m + 1) PROVE g[s] = Step(g, s)
    <3>1. CASE m + 1 \in s
      <4>1. Max(s) = m + 1 /\ s # {} /\ s \ {m + 1} \in SUBSET (1 .. m)
        <5>1. m + 1 \in Nat
          BY <1>1
        <5> QED
          BY <3>1, <5>1, MaxUpTo
      <4>2. s \ {m + 1} \in SUBSET (1 .. m + 1) /\ m + 1 \notin s \ {m + 1}
        OBVIOUS
      <4>3. g[s \ {m + 1}] = f[s \ {m + 1}]
        BY <4>2
      <4>4. g[s] = ParseToken(f[s \ {m + 1}], seq[m + 1])
        BY <3>1
      <4> HIDE DEF g
      <4> QED
        BY <4>1, <4>3, <4>4
    <3>2. CASE m + 1 \notin s
      <4>1. s \in SUBSET (1 .. m) /\ g[s] = f[s]
        BY <3>2
      <4>2. f[s] = Step(f, s)
        BY <2>1, <4>1
      <4>4. s \ {Max(s)} \in SUBSET (1 .. m + 1) /\ m + 1 \notin s \ {Max(s)}
        BY <3>2
      <4>5. g[s \ {Max(s)}] = f[s \ {Max(s)}]
        BY <4>4
      <4> HIDE DEF g
      <4> QED
        BY <4>1, <4>2, <4>5
    <3> QED
      BY <3>1, <3>2
  <2>3. F(m + 1, g)
    BY <2>2
  <2>4. m + 1 \in 0 .. N
    BY <1>1
  <2> HIDE DEF F, g
  <2> QED
    BY <2>3, <2>4
<1> HIDE DEF T
<1>4. \A m \in 0 .. N - 1 : m \in T => m + 1 \in T
  BY <1>3
<1>5. N \in T
  BY <1>1, <1>2, <1>4, UpTo
<1> DEFINE P(f) == f = [s \in SUBSET DOMAIN seq |->
                    IF s = {} THEN b ELSE ParseToken(f[s \ {Max(s)}], seq[Max(s)])]
<1>6. PICK f : F(N, f)
  BY <1>5 DEF T
<1>7. P(f)
  BY <1>1, <1>6
<1>8. P(Fold(seq, b))
  <2>1. P(CHOOSE v : P(v))
    <3> HIDE DEF P
    <3> QED
      BY <1>7
  <2> QED
    BY <2>1 DEF Fold
<1> DEFINE h == Fold(seq, b)
           run == [k \in 0 .. N |-> h[1 .. k]]
<1>9. \A s \in SUBSET (1 .. N) :
          h[s] = IF s = {} THEN b ELSE ParseToken(h[s \ {Max(s)}], seq[Max(s)])
  <2> HIDE DEF h
  <2> QED
    BY <1>1, <1>8 DEF h
<1> HIDE DEF h, P, F
<1>10. run[0] = b
  <2>1. h[{}] = b
    BY <1>9
  <2>2. 1 .. 0 = {} /\ run[0] = h[1 .. 0]
    BY <1>1
  <2> QED
    BY <2>1, <2>2
<1>11. ASSUME NEW k \in 1 .. N PROVE run[k] = ParseToken(run[k - 1], seq[k])
  <2>1. k \in 0 .. N /\ k - 1 \in 0 .. N /\ k - 1 \in Nat
    BY <1>1
  <2>2. 1 .. k \in SUBSET (1 .. N) /\ 1 .. k # {} /\ (1 .. k) \ {k} = 1 .. (k - 1)
    <3>1. k \in Nat /\ k > 0
      BY <1>1
    <3>2. \A x : x \in (1 .. k) \ {k} <=> x \in 1 .. (k - 1)
      BY <3>1
    <3>3. (1 .. k) \ {k} = 1 .. (k - 1)
      BY <3>2, Zenon
    <3>4. 1 .. k \in SUBSET (1 .. N) /\ 1 .. k # {}
      BY <1>1, <3>1
    <3> QED
      BY <3>3, <3>4
  <2>3. Max(1 .. k) = k
    <3>1. k \in Nat /\ k \in 1 .. k
      BY <1>1
    <3> QED
      BY <3>1, MaxUpTo
  <2>4. h[1 .. k] = ParseToken(h[1 .. k - 1], seq[k])
    BY <1>9, <2>2, <2>3
  <2> QED
    BY <2>1, <2>4
<1>12. FoldLeft(ParseToken, b, seq) = run[N]
  <2>1. FoldLeft(ParseToken, b, seq) = h[1 .. N]
    BY <1>1, FoldIs DEF h
  <2> QED
    BY <1>1, <2>1
<1>13. Runs(run, seq, b)
  BY <1>10, <1>11 DEF Runs, N
<1> HIDE DEF run
<1> QED
  BY <1>12, <1>13 DEF N

-----------------------------------------------------------------------------
\* Types of the loop.

Word   == Flag \cup Value \cup {Empty, NoValue}
Given  == [flag : Word, value : Word]
States == [args : Seq(Given), flag : Word, status : {"parsing", "rejected", "full"}]
Token  == Flag \cup Value \cup {Empty}

LEMMA ParseTokenType ==
    ASSUME NEW st \in States, NEW token \in Token
    PROVE  ParseToken(st, token) \in States
<1>1. ASSUME NEW value \in Word, NEW flag \in Word PROVE Added(st, value, flag) \in States
  <2>1. Arg(st.flag, value) \in Given
    BY DEF Arg, Given, States
  <2>2. Append(st.args, Arg(st.flag, value)) \in Seq(Given)
    BY <2>1, AppendProperties DEF States
  <2>3. NoValue \in Word
    BY DEF Word
  <2> QED
    BY <2>2, <2>3 DEF Added, Parsing, States
<1>2. token \in Word /\ NoValue \in Word
  BY DEF Word, Token
<1>3. Rejected(st) \in States /\ Parsing(st.args, token) \in States
  BY <1>2 DEF Rejected, Parsing, States
<1> QED
  BY <1>1, <1>2, <1>3 DEF ParseToken

LEMMA RunType ==
    ASSUME NEW seq \in Seq(Token), NEW run, Runs(run, seq, Parsing(<<>>, NoValue))
    PROVE  \A k \in 0 .. Len(seq) : run[k] \in States
<1> DEFINE N == Len(seq)
           T == {k \in 0 .. N : run[k] \in States}
<1>1. N \in Nat
  OBVIOUS
<1>2. 0 \in T
  <2>1. Parsing(<<>>, NoValue) \in States
    BY DEF Parsing, States, Word
  <2> QED
    BY <1>1, <2>1 DEF Runs
<1>3. ASSUME NEW k \in 0 .. N - 1, k \in T PROVE k + 1 \in T
  <2>1. k + 1 \in 1 .. N /\ (k + 1) - 1 = k /\ seq[k + 1] \in Token
    BY <1>1, ElementOfSeq
  <2>2. run[k + 1] = ParseToken(run[k], seq[k + 1])
    BY <2>1 DEF Runs
  <2> QED
    BY <1>3, <2>1, <2>2, ParseTokenType
<1> HIDE DEF T
<1>4. \A k \in 0 .. N - 1 : k \in T => k + 1 \in T
  BY <1>3
<1>5. \A k \in 0 .. N : k \in T
  <2> HIDE DEF N
  <2> QED
    BY <1>1, <1>2, <1>4, UpTo
<1> QED
  BY <1>5 DEF T

Line == [name : DOMAIN cmds, args : Seq(Flag \cup Value), spaces : 0 .. 2]

LEMMA LinesAreLines == \A n \in Nat : Lines(n) \subseteq Line
<1>1. SUFFICES ASSUME NEW n \in Nat, NEW line \in Lines(n) PROVE line \in Line
  OBVIOUS
<1>2. PICK m \in 0 .. n : line.args \in [1 .. m -> Flag \cup Value]
  BY DEF Lines, SeqOf
<1>3. line.args \in Seq(Flag \cup Value)
  BY <1>2
<1> QED
  BY <1>3 DEF Lines, Line

LEMMA TokensType == ASSUME NEW line \in Line PROVE tokens(line) \in Seq(Token)
<1>1. line.args \in Seq(Token) /\ Empty \in Token
  BY DEF Line, Token
<1> QED
  BY <1>1, AppendProperties DEF tokens

LEMMA CommandType ==
    ASSUME NEW line \in Line
    PROVE  cmd_parse(line).args \in Seq(Given) /\ cmd_parse(line).name \in DOMAIN cmds
<1> DEFINE b == Parsing(<<>>, NoValue)
           seq == tokens(line)
           st == FoldLeft(ParseToken, b, seq)
<1>1. seq \in Seq(Token)
  BY TokensType
<1> HIDE DEF seq
<1>2. PICK run : Runs(run, seq, b) /\ st = run[Len(seq)]
  <2> HIDE DEF b
  <2> QED
    BY <1>1, FoldRuns
<1>3. st \in States
  BY <1>1, <1>2, RunType
<1>4. cmd_parse(line).args = IF st.flag = NoValue THEN st.args
                             ELSE Append(st.args, Arg(st.flag, NoValue))
  BY DEF cmd_parse, seq
<1> HIDE DEF st
<1>5. Arg(st.flag, NoValue) \in Given /\ st.args \in Seq(Given)
  BY <1>3 DEF States, Arg, Given, Word
<1>6. cmd_parse(line).args \in Seq(Given)
  BY <1>4, <1>5, AppendProperties
<1>7. cmd_parse(line).name \in DOMAIN cmds
  BY DEF cmd_parse, Line
<1> QED
  BY <1>6, <1>7

-----------------------------------------------------------------------------
\* What the table admits.

Taken == {"DOWNLOAD", "DOWNLOAD_PAUSE", "UPLOAD"}

\* The options of every command that take a value, and those that must stand
\* alone.
Admits(o) ==
    /\ ~o.excl => o.placeholder
    /\ o.type \in Taken => o.excl /\ o.placeholder
    /\ o.type = "SEARCH" => o.placeholder

LEMMA TableAdmits ==
    /\ \A name \in DOMAIN cmds : cmds[name].type \notin Taken
    /\ \A name \in DOMAIN cmds : \A o \in cmds[name].args : Admits(o)
<1>1. \A name \in DOMAIN cmds : cmds[name].type \notin Taken
  BY DEF cmds, Taken
<1>2. SUFFICES ASSUME NEW name \in DOMAIN cmds, NEW o \in cmds[name].args
              PROVE  Admits(o)
  BY <1>1
<1> USE DEF Option, Alone, Taken, Admits
<1>3. CASE name = "tracker"
  BY <1>3 DEF cmds
<1>4. CASE name = "search"
  BY <1>4 DEF cmds
<1>5. CASE name = "download"
  BY <1>5 DEF cmds
<1>6. CASE name = "upload"
  BY <1>6 DEF cmds
<1>7. CASE name \in {"help", "clear", "quit"}
  BY <1>7 DEF cmds
<1> QED
  BY <1>3, <1>4, <1>5, <1>6, <1>7 DEF cmds

\* A name belongs to one option of a command.
LEMMA TableNames ==
    \A name \in DOMAIN cmds : \A o, p \in cmds[name].args :
        \A f : f \in o.names /\ f \in p.names => o = p
<1>1. SUFFICES ASSUME NEW name \in DOMAIN cmds, NEW f
              PROVE  \E q : \A o \in cmds[name].args : f \in o.names => o = q
  OBVIOUS
<1> USE DEF Option, Alone
<1>2. CASE name = "tracker"
  <2> DEFINE q ==
      IF f \in {"-h", "--help"} THEN Alone("TRACKER_HELP", {"-h", "--help"})
      ELSE IF f \in {"-s", "--start"} THEN Alone("TRACKER_START", {"-s", "--start"})
      ELSE IF f \in {"-t", "--stop"} THEN Alone("TRACKER_STOP", {"-t", "--stop"})
      ELSE IF f \in {"-l", "--state"} THEN Alone("TRACKER_STATE", {"-l", "--state"})
      ELSE Alone("TRACKER_STABILIZE", {"-r", "--stabilize"})
  <2>1. ASSUME NEW o \in cmds[name].args, f \in o.names PROVE o = q
    BY <1>2, <2>1 DEF cmds
  <2> HIDE DEF q
  <2> QED
    BY <2>1
<1>3. CASE name = "search"
  <2> DEFINE q ==
      IF f \in {"-h", "--help"} THEN Alone("SEARCH_HELP", {"-h", "--help"})
      ELSE IF f \in {"-i", "--id"} THEN Option("SEARCH", {"-i", "--id"}, FALSE, TRUE)
      ELSE IF f \in {"-n", "--name"} THEN Option("SEARCH", {"-n", "--name"}, FALSE, TRUE)
      ELSE Option("SEARCH", {"-s", "--size"}, FALSE, TRUE)
  <2>1. ASSUME NEW o \in cmds[name].args, f \in o.names PROVE o = q
    BY <1>3, <2>1 DEF cmds
  <2> HIDE DEF q
  <2> QED
    BY <2>1
<1>4. CASE name = "download"
  <2> DEFINE q ==
      IF f \in {"-h", "--help"} THEN Alone("DOWNLOAD_HELP", {"-h", "--help"})
      ELSE IF f \in {"-i", "--id"} THEN Option("DOWNLOAD", {"-i", "--id"}, TRUE, TRUE)
      ELSE IF f \in {"-l", "--list"} THEN Alone("DOWNLOAD_LIST", {"-l", "--list"})
      ELSE Option("DOWNLOAD_PAUSE", {"-p", "--pause"}, TRUE, TRUE)
  <2>1. ASSUME NEW o \in cmds[name].args, f \in o.names PROVE o = q
    BY <1>4, <2>1 DEF cmds
  <2> HIDE DEF q
  <2> QED
    BY <2>1
<1>5. CASE name = "upload"
  <2> DEFINE q ==
      IF f \in {"-h", "--help"} THEN Alone("UPLOAD_HELP", {"-h", "--help"})
      ELSE Option("UPLOAD", {"-p", "--path"}, TRUE, TRUE)
  <2>1. ASSUME NEW o \in cmds[name].args, f \in o.names PROVE o = q
    BY <1>5, <2>1 DEF cmds
  <2> HIDE DEF q
  <2> QED
    BY <2>1
<1>6. CASE name \in {"help", "clear", "quit"}
  BY <1>6 DEF cmds
<1>7. name \in {"tracker", "search", "download", "upload", "help", "clear", "quit"}
  BY DEF cmds
<1> QED
  BY <1>2, <1>3, <1>4, <1>5, <1>6, <1>7

\* FindsValues, for lines of every length.
LEMMA ValuesAreFound == \A n \in Nat : FindsValues(n)
<1>1. SUFFICES ASSUME NEW n \in Nat, NEW line \in Lines(n)
      PROVE  /\ Understood(line) \in Taken =>
                    /\ Len(cmd_parse(line).args) = 1
                    /\ cmd_parse(line).args[1].value # NoValue
             /\ Understood(line) = "SEARCH" =>
                    \A i \in DOMAIN cmd_parse(line).args : cmd_parse(line).args[i].value # NoValue
  BY DEF FindsValues, Taken
<1> DEFINE cmd == cmd_parse(line)
           type == cmds_get_cmd_type(cmd)
           Allowed(a) == \E o \in Meant(cmd.name, a) :
                            /\ o.excl => Len(cmd.args) = 1
                            /\ o.placeholder => a.value # NoValue
           L == Len(cmd.args)
<1>2. cmd.args \in Seq(Given) /\ cmd.name \in DOMAIN cmds
  BY LinesAreLines, CommandType
<1>3. Understood(line) \in Taken \/ Understood(line) = "SEARCH" => Understood(line) = type
  BY DEF Understood, Taken
<1>4. type = IF cmd.args = <<>> THEN cmds[cmd.name].type
             ELSE IF \E i \in DOMAIN cmd.args : ~Allowed(cmd.args[i]) THEN "ERROR"
             ELSE (CHOOSE o \in Meant(cmd.name, Last(cmd.args)) : TRUE).type
  BY <1>2 DEF cmds_get_cmd_type
<1>5. L \in Nat /\ DOMAIN cmd.args = 1 .. L /\ (cmd.args = <<>> <=> L = 0)
  BY <1>2, EmptySeq, LenProperties
<1> HIDE DEF cmd, type
<1>6. CASE cmd.args = <<>>
  BY <1>3, <1>4, <1>5, <1>6, <1>2, TableAdmits DEF cmd
<1>7. CASE cmd.args # <<>> /\ type \in Taken \cup {"SEARCH"}
  <2>1. \A i \in 1 .. L : Allowed(cmd.args[i])
    BY <1>4, <1>5, <1>7 DEF Taken
  <2>2. L > 0 /\ L \in 1 .. L /\ Last(cmd.args) = cmd.args[L]
    BY <1>5, <1>7 DEF Last
  <2>3. PICK o \in Meant(cmd.name, cmd.args[L]) :
            /\ o.excl => L = 1
            /\ o.placeholder => cmd.args[L].value # NoValue
    BY <2>1, <2>2
  <2>4. \A i \in 1 .. L : \A p, q \in Meant(cmd.name, cmd.args[i]) : p = q
    BY <1>2, TableNames DEF Meant
  <2>5. type = o.type
    <3>1. (CHOOSE p \in Meant(cmd.name, Last(cmd.args)) : TRUE)
              \in Meant(cmd.name, Last(cmd.args))
      BY <2>2, <2>3
    <3>2. (CHOOSE p \in Meant(cmd.name, Last(cmd.args)) : TRUE) = o
      BY <2>2, <2>3, <2>4, <3>1
    <3> QED
      BY <1>4, <1>5, <1>7, <2>1, <3>2
  <2>6. \A i \in 1 .. L : \A p \in Meant(cmd.name, cmd.args[i]) : Admits(p)
    BY <1>2, TableAdmits DEF Meant
  <2>7. type \in Taken => L = 1 /\ cmd.args[1].value # NoValue
    BY <2>2, <2>3, <2>5, <2>6 DEF Admits
  <2>8. type = "SEARCH" => \A i \in 1 .. L : cmd.args[i].value # NoValue
    <3>1. SUFFICES ASSUME type = "SEARCH", NEW i \in 1 .. L
                   PROVE  cmd.args[i].value # NoValue
      OBVIOUS
    <3>2. CASE L = 1
      <4>1. i = L
        BY <1>5, <3>2
      <4> QED
        BY <2>2, <2>3, <2>5, <2>6, <3>1, <4>1 DEF Admits
    <3>3. CASE L # 1
      BY <2>1, <2>6, <3>3 DEF Admits
    <3> QED
      BY <3>2, <3>3
  <2> QED
    BY <1>3, <1>5, <2>7, <2>8 DEF cmd
<1>8. CASE type \notin Taken \cup {"SEARCH"}
  BY <1>3, <1>8
<1> QED
  BY <1>6, <1>7, <1>8

-----------------------------------------------------------------------------
\* The flags of a line, counted from its beginning.

LEMMA Ordinals ==
    ASSUME NEW a \in Seq(Flag \cup Value)
    PROVE  /\ FlagsAt(a) \subseteq 1 .. Len(a) /\ IsFiniteSet(FlagsAt(a))
           /\ \A k \in Int : /\ Ordinal(a, k) \in Nat
                             /\ Ordinal(a, k) <= Cardinality(FlagsAt(a))
           /\ Ordinal(a, -1) = 0 /\ Ordinal(a, Len(a)) = Cardinality(FlagsAt(a))
           /\ \A k \in Int : Ordinal(a, k) = IF k \in FlagsAt(a) THEN Ordinal(a, k - 1) + 1
                                             ELSE Ordinal(a, k - 1)
           /\ \A j \in FlagsAt(a), i \in Int : i < j => Ordinal(a, i) < Ordinal(a, j)
<1> DEFINE F == FlagsAt(a)
           U(k) == {j \in F : j <= k}
<1>1. F \subseteq 1 .. Len(a) /\ Len(a) \in Nat
  BY LenProperties DEF FlagsAt
<1> HIDE DEF F
<1>11. \A j \in F : j \in Int /\ j >= 1 /\ j <= Len(a)
  BY <1>1
<1>2. IsFiniteSet(F)
  <2>1. IsFiniteSet(1 .. Len(a))
    BY <1>1, FS_Interval
  <2> QED
    BY <1>1, <2>1, FS_Subset
<1>3. \A k \in Int : Ordinal(a, k) = Cardinality(U(k))
  BY DEF Ordinal, F
<1>4. \A k \in Int : /\ IsFiniteSet(U(k)) /\ Cardinality(U(k)) \in Nat
                     /\ Cardinality(U(k)) <= Cardinality(F)
  <2>1. \A k \in Int : U(k) \subseteq F
    OBVIOUS
  <2> QED
    BY <1>2, <2>1, FS_Subset, FS_CardinalityType
<1>5. Cardinality(U(-1)) = 0 /\ Cardinality(U(Len(a))) = Cardinality(F)
  <2>1. U(-1) = {}
    BY <1>11
  <2>2. U(Len(a)) = F
    BY <1>11
  <2> QED
    BY <2>1, <2>2, FS_EmptySet
<1>6. \A k \in Int : Cardinality(U(k)) = IF k \in F THEN Cardinality(U(k - 1)) + 1
                                         ELSE Cardinality(U(k - 1))
  <2>1. SUFFICES ASSUME NEW k \in Int
                 PROVE  Cardinality(U(k)) = IF k \in F THEN Cardinality(U(k - 1)) + 1
                                            ELSE Cardinality(U(k - 1))
    OBVIOUS
  <2>2. CASE k \in F
    <3>1. U(k) = U(k - 1) \cup {k} /\ k \notin U(k - 1)
      <4>3. \A j \in F : j <= k <=> j <= k - 1 \/ j = k
        BY <1>11
      <4>1. \A j : j \in U(k) <=> j \in U(k - 1) \cup {k}
        BY <2>2, <4>3
      <4>2. k \notin U(k - 1)
        OBVIOUS
      <4> HIDE DEF U
      <4> QED
        BY <4>1, <4>2
    <3>2. IsFiniteSet(U(k - 1))
      BY <1>4
    <3> HIDE DEF U
    <3> QED
      BY <2>2, <3>1, <3>2, FS_AddElement
  <2>3. CASE k \notin F
    <3>1. U(k) = U(k - 1)
      <4>1. \A j : j \in U(k) <=> j \in U(k - 1)
        BY <1>11, <2>3
      <4> HIDE DEF U
      <4> QED
        BY <4>1
    <3> HIDE DEF U
    <3> QED
      BY <2>3, <3>1
  <2> QED
    BY <2>2, <2>3
<1>7. \A j \in F, i \in Int : i < j => Cardinality(U(i)) < Cardinality(U(j))
  <2>1. SUFFICES ASSUME NEW j \in F, NEW i \in Int, i < j
                 PROVE  Cardinality(U(i)) < Cardinality(U(j))
    OBVIOUS
  <2>2. j \in Int /\ j - 1 \in Int /\ U(i) \subseteq U(j - 1)
    <3>1. \A l \in F : l <= i => l <= j - 1
      BY <1>11, <2>1
    <3> QED
      BY <1>11, <3>1
  <2>3. Cardinality(U(i)) <= Cardinality(U(j - 1))
    BY <1>4, <2>2, FS_Subset
  <2>4. Cardinality(U(j)) = Cardinality(U(j - 1)) + 1
    BY <1>6, <2>2
  <2> HIDE DEF U
  <2> QED
    BY <1>4, <2>2, <2>3, <2>4
<1> HIDE DEF U
<1>8. \A k \in Int : k - 1 \in Int
  OBVIOUS
<1>9. F \subseteq Int
  BY <1>1
<1>10. -1 \in Int /\ Len(a) \in Int
  BY <1>1
<1> QED
  BY <1>1, <1>2, <1>3, <1>4, <1>5, <1>6, <1>7, <1>8, <1>9, <1>10 DEF F

\* The arguments args are the flags of the first k tokens of a, each with the
\* value behind it.
HasFlags(a, args, k) ==
    /\ args \in Seq(Given) /\ Len(args) = Ordinal(a, k)
    /\ \A i \in FlagsAt(a) : i <= k =>
          Ordinal(a, i) \in 1 .. Len(args) /\ args[Ordinal(a, i)] = ArgAt(a, i)
    /\ \A m \in 1 .. Len(args) : \E i \in FlagsAt(a) : i <= k /\ Ordinal(a, i) = m

LEMMA ArgType ==
    ASSUME NEW a \in Seq(Flag \cup Value), NEW i \in FlagsAt(a)
    PROVE  ArgAt(a, i) \in Given /\ ArgAt(a, i).flag = a[i]
<1>1. i \in 1 .. Len(a) /\ a[i] \in Word /\ Len(a) \in Nat
  BY LenProperties, ElementOfSeq DEF FlagsAt, Word
<1>2. i < Len(a) => a[i + 1] \in Word
  <2>1. i < Len(a) => i + 1 \in 1 .. Len(a)
    BY <1>1
  <2> QED
    BY <2>1, ElementOfSeq DEF Word
<1> QED
  BY <1>1, <1>2 DEF ArgAt, Arg, Given, Word

LEMMA HasMore ==
    ASSUME NEW a \in Seq(Flag \cup Value), NEW args, NEW k \in FlagsAt(a),
           HasFlags(a, args, k - 1)
    PROVE  HasFlags(a, Append(args, ArgAt(a, k)), k)
<1> DEFINE more == Append(args, ArgAt(a, k))
<1>1. args \in Seq(Given) /\ ArgAt(a, k) \in Given /\ k \in Int /\ k - 1 \in Int
  <2>1. k \in Int
    BY Ordinals
  <2> QED
    BY <2>1, ArgType DEF HasFlags
<1>2. /\ more \in Seq(Given) /\ Len(more) = Len(args) + 1 /\ Len(args) \in Nat
      /\ \A i \in 1 .. Len(args) : more[i] = args[i]
      /\ more[Len(args) + 1] = ArgAt(a, k)
  BY <1>1, AppendProperties, LenProperties
<1>3. /\ Len(args) = Ordinal(a, k - 1) /\ Ordinal(a, k) = Ordinal(a, k - 1) + 1
  BY <1>1, Ordinals DEF HasFlags
<1> HIDE DEF more
<1>4. ASSUME NEW i \in FlagsAt(a), i <= k
      PROVE  Ordinal(a, i) \in 1 .. Len(more) /\ more[Ordinal(a, i)] = ArgAt(a, i)
  <2>1. i \in Int
    BY Ordinals
  <2>2. CASE i = k
    BY <1>2, <1>3, <2>2
  <2>3. CASE i # k
    <3>1. i <= k - 1
      BY <1>1, <1>4, <2>1, <2>3
    <3>2. Ordinal(a, i) \in 1 .. Len(args) /\ args[Ordinal(a, i)] = ArgAt(a, i)
      BY <3>1 DEF HasFlags
    <3> QED
      BY <1>2, <3>2
  <2> QED
    BY <2>2, <2>3
<1>5. ASSUME NEW m \in 1 .. Len(more)
      PROVE  \E i \in FlagsAt(a) : i <= k /\ Ordinal(a, i) = m
  <2>1. CASE m = Len(args) + 1
    BY <1>1, <1>3, <2>1
  <2>2. CASE m # Len(args) + 1
    <3>1. m \in 1 .. Len(args)
      BY <1>2, <1>5, <2>2
    <3>2. PICK i \in FlagsAt(a) : i <= k - 1 /\ Ordinal(a, i) = m
      BY <3>1 DEF HasFlags
    <3>3. i \in Int /\ i <= k
      BY <1>1, <3>2, Ordinals
    <3> QED
      BY <3>2, <3>3
  <2> QED
    BY <2>1, <2>2
<1> QED
  BY <1>2, <1>3, <1>4, <1>5 DEF HasFlags, more

LEMMA HasSame ==
    ASSUME NEW a \in Seq(Flag \cup Value), NEW args, NEW k \in Int, k \notin FlagsAt(a),
           HasFlags(a, args, k - 1)
    PROVE  HasFlags(a, args, k)
<1>1. Ordinal(a, k) = Ordinal(a, k - 1)
  BY Ordinals
<1>2. \A i \in FlagsAt(a) : i <= k <=> i <= k - 1
  <2>1. \A i \in FlagsAt(a) : i \in Int
    BY Ordinals
  <2> QED
    BY <2>1
<1> QED
  BY <1>1, <1>2 DEF HasFlags

LEMMA HasAll ==
    ASSUME NEW a \in Seq(Flag \cup Value), NEW args, HasFlags(a, args, Len(a))
    PROVE  args = FlagsOf(a)
<1> DEFINE C == Cardinality(FlagsAt(a))
           e(m) == ArgAt(a, CHOOSE i \in FlagsAt(a) : Ordinal(a, i) = m)
<1>1. Len(args) = C /\ args \in Seq(Given)
  BY Ordinals DEF HasFlags
<1>2. DOMAIN args = 1 .. C /\ args = [m \in 1 .. C |-> args[m]]
  BY <1>1, LenProperties
<1>3. ASSUME NEW m \in 1 .. C PROVE args[m] = e(m)
  <2>1. PICK i \in FlagsAt(a) : Ordinal(a, i) = m
    BY <1>1, <1>3 DEF HasFlags
  <2>2. \A j \in FlagsAt(a) : Ordinal(a, j) = m => j = i
    <3>1. i \in Int /\ \A j \in FlagsAt(a) : j \in Int
      BY Ordinals
    <3>2. \A j \in FlagsAt(a) : (i < j => Ordinal(a, i) < Ordinal(a, j))
                                /\ (j < i => Ordinal(a, j) < Ordinal(a, i))
      BY <3>1, Ordinals
    <3>3. Ordinal(a, i) \in Nat /\ \A j \in FlagsAt(a) : Ordinal(a, j) \in Nat
      BY <3>1, Ordinals
    <3> QED
      BY <2>1, <3>1, <3>2, <3>3
  <2>3. (CHOOSE j \in FlagsAt(a) : Ordinal(a, j) = m) = i
    BY <2>1, <2>2
  <2>4. i <= Len(a)
    BY Ordinals
  <2>5. args[Ordinal(a, i)] = ArgAt(a, i)
    BY <2>4 DEF HasFlags
  <2> QED
    BY <2>1, <2>3, <2>5
<1> HIDE DEF e, C
<1>4. args = [m \in 1 .. C |-> e(m)]
  BY <1>2, <1>3
<1> QED
  BY <1>4 DEF e, C, FlagsOf

LEMMA Repeats ==
    ASSUME NEW a \in Seq(Flag \cup Value), NEW args, NEW k, HasFlags(a, args, k),
           NEW t
    PROVE  flag_repeats(args, t) <=> \E i \in FlagsAt(a) : i <= k /\ a[i] = t
<1>1. DOMAIN args = 1 .. Len(args)
  BY LenProperties DEF HasFlags
<1>2. \A i \in FlagsAt(a) : ArgAt(a, i).flag = a[i]
  BY ArgType
<1>3. ASSUME flag_repeats(args, t) PROVE \E i \in FlagsAt(a) : i <= k /\ a[i] = t
  <2>1. PICK m \in 1 .. Len(args) : args[m].flag = t
    BY <1>1, <1>3 DEF flag_repeats
  <2>2. PICK i \in FlagsAt(a) : i <= k /\ Ordinal(a, i) = m
    BY <2>1 DEF HasFlags
  <2>3. args[m] = ArgAt(a, i)
    BY <2>2 DEF HasFlags
  <2> QED
    BY <1>2, <2>1, <2>2, <2>3
<1>4. ASSUME NEW i \in FlagsAt(a), i <= k, a[i] = t PROVE flag_repeats(args, t)
  <2>1. Ordinal(a, i) \in 1 .. Len(args) /\ args[Ordinal(a, i)] = ArgAt(a, i)
    BY <1>4 DEF HasFlags
  <2> QED
    BY <1>1, <1>2, <1>4, <2>1 DEF flag_repeats
<1> QED
  BY <1>3, <1>4

-----------------------------------------------------------------------------
\* The loop of cmd_parse accepts what the grammar does.

\* WellFormed, of the first k tokens.
WellFormedTo(a, k) ==
    /\ \A i \in 1 .. k : a[i] \in Value => i > 1 /\ a[i - 1] \in Flag
    /\ \A i, j \in 1 .. k : i < j /\ a[i] \in Flag /\ a[i] = a[j] => j = i + 1

\* What the loop knows after k tokens: the flags before the last token are
\* arguments; the last token, if it is a flag, waits for its value.
Parsed(a, k, st) ==
    \/ /\ st.status = "parsing" /\ WellFormedTo(a, k)
       /\ st.flag = IF k \in FlagsAt(a) THEN a[k] ELSE NoValue
       /\ HasFlags(a, st.args, k - 1)
    \/ st.status = "rejected" /\ ~WellFormedTo(a, k)

LEMMA ParsedNext ==
    ASSUME NEW a \in Seq(Flag \cup Value), NEW k \in 0 .. Len(a) - 1, NEW st \in States,
           Cardinality(FlagsAt(a)) < ArgsSize, Parsed(a, k, st)
    PROVE  Parsed(a, k + 1, ParseToken(st, a[k + 1]))
<1> DEFINE t == a[k + 1]
           next == ParseToken(st, t)
<1>1. /\ k \in Nat /\ k + 1 \in 1 .. Len(a) /\ (k + 1) - 1 = k /\ Len(a) \in Nat
      /\ t \in Flag \cup Value /\ DOMAIN a = 1 .. Len(a)
  BY LenProperties, ElementOfSeq
<1>2. /\ Flag \cap Value = {} /\ NoValue \notin Flag \cup Value /\ ArgsSize \in Nat
  BY CommandLineAssumption
<1>3. /\ k + 1 \in FlagsAt(a) <=> t \in Flag
      /\ k \in FlagsAt(a) <=> k > 0 /\ a[k] \in Flag
      /\ \A i \in FlagsAt(a) : i \in 1 .. Len(a) /\ a[i] \in Flag
  BY <1>1 DEF FlagsAt
<1>4. WellFormedTo(a, k + 1) =>  WellFormedTo(a, k)
  BY <1>1 DEF WellFormedTo
<1> HIDE DEF t
<1>5. CASE st.status = "rejected"
  <2>1. next = st
    BY <1>5 DEF ParseToken
  <2> QED
    BY <1>4, <1>5, <2>1 DEF Parsed, t
<1>6. CASE st.status # "rejected"
  <2>1. /\ st.status = "parsing" /\ WellFormedTo(a, k)
        /\ st.flag = (IF k \in FlagsAt(a) THEN a[k] ELSE NoValue)
        /\ HasFlags(a, st.args, k - 1)
    BY <1>6 DEF Parsed
  <2>2. (st.flag = NoValue <=> k \notin FlagsAt(a)) /\ (st.flag # NoValue => st.flag = a[k])
    BY <1>2, <1>3, <2>1
  <2>3. CASE t \in Flag /\ flag_repeats(st.args, t)
    <3>1. PICK i \in FlagsAt(a) : i <= k - 1 /\ a[i] = t
      BY <2>1, <2>3, Repeats
    <3>2. ~WellFormedTo(a, k + 1)
      <4>1. i \in 1 .. k + 1 /\ k + 1 \in 1 .. k + 1 /\ i < k + 1 /\ k + 1 # i + 1
        BY <1>1, <1>3, <3>1
      <4> QED
        BY <1>3, <3>1, <4>1 DEF WellFormedTo, t
    <3>3. next = Rejected(st)
      BY <2>1, <2>3 DEF ParseToken
    <3>4. next.status = "rejected"
      BY <3>3 DEF Rejected, States
    <3> QED
      BY <3>2, <3>4 DEF Parsed, t
  <2>4. CASE t \in Flag /\ ~flag_repeats(st.args, t)
    <3>1. WellFormedTo(a, k + 1)
      <4>1. ASSUME NEW i \in 1 .. k + 1, a[i] \in Value PROVE i > 1 /\ a[i - 1] \in Flag
        <5>1. i # k + 1
          BY <1>2, <2>4, <4>1 DEF t
        <5>2. i \in 1 .. k
          BY <1>1, <4>1, <5>1
        <5> QED
          BY <2>1, <4>1, <5>2 DEF WellFormedTo
      <4>2. ASSUME NEW i \in 1 .. k + 1, NEW j \in 1 .. k + 1, i < j, a[i] \in Flag, a[i] = a[j]
            PROVE  j = i + 1
        <5>1. CASE j = k + 1
          <6>1. i \in FlagsAt(a) /\ i \in 1 .. k
            BY <1>1, <4>2 DEF FlagsAt
          <6>2. ~(i <= k - 1)
            BY <2>1, <2>4, <4>2, <5>1, <6>1, Repeats DEF t
          <6> QED
            BY <1>1, <5>1, <6>1, <6>2
        <5>2. CASE j # k + 1
          <6>1. i \in 1 .. k /\ j \in 1 .. k
            BY <1>1, <4>2, <5>2
          <6> QED
            BY <2>1, <4>2, <6>1 DEF WellFormedTo
        <5> QED
          BY <5>1, <5>2
      <4> QED
        BY <4>1, <4>2 DEF WellFormedTo
    <3>2. CASE st.flag = NoValue
      <4>1. next = Parsing(st.args, t)
        BY <2>1, <2>4, <3>2 DEF ParseToken
      <4>2. HasFlags(a, st.args, k)
        BY <1>1, <2>1, <2>2, <3>2, HasSame
      <4>3. next.status = "parsing" /\ next.flag = t /\ next.args = st.args
        BY <4>1 DEF Parsing
      <4> HIDE DEF next
      <4> QED
        BY <1>1, <1>3, <2>4, <3>1, <4>2, <4>3 DEF Parsed, next, t
    <3>3. CASE st.flag # NoValue
      <4>1. next = Added(st, NoValue, t)
        BY <2>1, <2>4, <3>3 DEF ParseToken
      <4>2. k \in FlagsAt(a) /\ st.flag = a[k]
        BY <2>2, <3>3
      <4>3. ArgAt(a, k) = Arg(st.flag, NoValue)
        BY <1>1, <1>2, <2>4, <4>2 DEF ArgAt, t
      <4> DEFINE args == Append(st.args, Arg(st.flag, NoValue))
      <4>4. HasFlags(a, args, k)
        BY <2>1, <4>2, <4>3, HasMore
      <4>5. Len(args) < ArgsSize /\ Len(args) \in Nat
        BY <1>1, <1>2, <4>4, Ordinals DEF HasFlags
      <4> HIDE DEF args
      <4>6. next = Parsing(args, t)
        BY <1>2, <4>1, <4>5 DEF Added, args
      <4>7. next.status = "parsing" /\ next.flag = t /\ next.args = args
        BY <4>6 DEF Parsing
      <4> HIDE DEF next
      <4> QED
        BY <1>1, <1>3, <2>4, <3>1, <4>4, <4>7 DEF Parsed, next, t
    <3> QED
      BY <3>2, <3>3
  <2>5. CASE t \in Value /\ st.flag = NoValue
    <3>1. next = Rejected(st)
      BY <1>2, <2>1, <2>5 DEF ParseToken
    <3>2. next.status = "rejected"
      BY <3>1 DEF Rejected, States
    <3>3. ~WellFormedTo(a, k + 1)
      <4>1. ~(k > 0 /\ a[k] \in Flag)
        BY <1>3, <2>2, <2>5
      <4>2. k + 1 \in 1 .. k + 1 /\ (k + 1 > 1 <=> k > 0)
        BY <1>1
      <4> QED
        BY <1>1, <2>5, <4>1, <4>2 DEF WellFormedTo, t
    <3> QED
      BY <3>2, <3>3 DEF Parsed, t
  <2>6. CASE t \in Value /\ st.flag # NoValue
    <3>1. next = Added(st, t, NoValue)
      BY <1>2, <2>1, <2>6 DEF ParseToken
    <3>2. k \in FlagsAt(a) /\ st.flag = a[k]
      BY <2>2, <2>6
    <3>3. ArgAt(a, k) = Arg(st.flag, t)
      <4>1. k < Len(a)
        BY <1>1
      <4> QED
        BY <2>6, <3>2, <4>1 DEF ArgAt, t
    <3> DEFINE args == Append(st.args, Arg(st.flag, t))
    <3>4. HasFlags(a, args, k)
      BY <2>1, <3>2, <3>3, HasMore
    <3>5. Len(args) < ArgsSize /\ Len(args) \in Nat
      BY <1>1, <1>2, <3>4, Ordinals DEF HasFlags
    <3> HIDE DEF args
    <3>6. next = Parsing(args, NoValue)
      BY <1>2, <3>1, <3>5 DEF Added, args
    <3>7. next.status = "parsing" /\ next.flag = NoValue /\ next.args = args
      BY <3>6 DEF Parsing
    <3>8. WellFormedTo(a, k + 1)
      <4>1. ASSUME NEW i \in 1 .. k + 1, a[i] \in Value PROVE i > 1 /\ a[i - 1] \in Flag
        <5>1. CASE i = k + 1
          BY <1>1, <1>3, <3>2, <5>1
        <5>2. CASE i # k + 1
          <6>1. i \in 1 .. k
            BY <1>1, <5>2
          <6> QED
            BY <2>1, <4>1, <6>1 DEF WellFormedTo
        <5> QED
          BY <5>1, <5>2
      <4>2. ASSUME NEW i \in 1 .. k + 1, NEW j \in 1 .. k + 1, i < j, a[i] \in Flag, a[i] = a[j]
            PROVE  j = i + 1
        <5>1. j # k + 1
          BY <1>2, <2>6, <4>2 DEF t
        <5>2. i \in 1 .. k /\ j \in 1 .. k
          BY <1>1, <4>2, <5>1
        <5> QED
          BY <2>1, <4>2, <5>2 DEF WellFormedTo
      <4> QED
        BY <4>1, <4>2 DEF WellFormedTo
    <3> HIDE DEF next
    <3> QED
      BY <1>1, <1>2, <1>3, <2>6, <3>4, <3>7, <3>8 DEF Parsed, next, t
  <2> QED
    BY <1>1, <2>3, <2>4, <2>5, <2>6
<1> QED
  BY <1>5, <1>6 DEF t

\* ReadsGrammar, for lines of every length.
LEMMA GrammarIsRead == \A n \in Nat : ReadsGrammar(n)
<1>1. SUFFICES ASSUME NEW n \in Nat, NEW line \in Lines(n), line.spaces = 0,
                      Cardinality(FlagsAt(line.args)) < ArgsSize
      PROVE  /\ cmd_parse(line).ok <=> WellFormed(line.args)
             /\ cmd_parse(line).ok => cmd_parse(line).args = FlagsOf(line.args)
  BY DEF ReadsGrammar
<1> DEFINE a == line.args
           N == Len(a)
           b == Parsing(<<>>, NoValue)
           st == FoldLeft(ParseToken, b, tokens(line))
<1>2. line \in Line /\ a \in Seq(Flag \cup Value) /\ a \in Seq(Token)
  BY LinesAreLines DEF Line, Token
<1>3. tokens(line) = a
  BY <1>1 DEF tokens
<1> HIDE DEF a
<1>4. PICK run : Runs(run, a, b) /\ st = run[N]
  <2> HIDE DEF b
  <2>1. \E run : Runs(run, a, b) /\ FoldLeft(ParseToken, b, a) = run[Len(a)]
    BY <1>2, FoldRuns
  <2> QED
    BY <1>3, <2>1
<1>5. N \in Nat /\ DOMAIN a = 1 .. N
  BY <1>2, LenProperties
<1>6. \A k \in 0 .. N : run[k] \in States
  BY <1>2, <1>4, RunType
<1> DEFINE T == {k \in 0 .. N : Parsed(a, k, run[k])}
<1>7. 0 \in T
  <2>1. run[0] = b /\ 0 \in 0 .. N
    BY <1>4, <1>5 DEF Runs
  <2>2. 0 \notin FlagsAt(a) /\ \A i \in FlagsAt(a) : i \in Int /\ i > 0
    BY <1>5 DEF FlagsAt
  <2>3. Ordinal(a, 0 - 1) = 0
    BY <1>2, Ordinals
  <2>4. HasFlags(a, <<>>, 0 - 1)
    BY <2>2, <2>3, EmptySeq DEF HasFlags
  <2>5. WellFormedTo(a, 0)
    BY DEF WellFormedTo
  <2>6. b.status = "parsing" /\ b.flag = NoValue /\ b.args = <<>>
    BY DEF Parsing
  <2>7. Parsed(a, 0, b)
    BY <2>2, <2>4, <2>5, <2>6 DEF Parsed
  <2> QED
    BY <2>1, <2>7
<1>8. ASSUME NEW k \in 0 .. N - 1, k \in T PROVE k + 1 \in T
  <2>1. k + 1 \in 1 .. N /\ (k + 1) - 1 = k /\ k \in 0 .. N /\ k + 1 \in 0 .. N
    BY <1>5
  <2>2. run[k + 1] = ParseToken(run[k], a[k + 1])
    BY <1>4, <2>1 DEF Runs
  <2>3. Parsed(a, k + 1, run[k + 1])
    BY <1>1, <1>2, <1>6, <1>8, <2>1, <2>2, ParsedNext DEF a
  <2> QED
    BY <2>1, <2>3
<1> HIDE DEF T, b, N, st
<1>9. \A k \in 0 .. N - 1 : k \in T => k + 1 \in T
  BY <1>8
<1>10. N \in T
  <2>1. N \in Nat
    BY <1>5
  <2>2. \A k \in 0 .. N : k \in T
    BY <1>7, <1>9, <2>1, UpTo
  <2> QED
    BY <2>1, <2>2
<1>11. Parsed(a, N, st) /\ st \in States
  BY <1>4, <1>5, <1>6, <1>10 DEF T
<1>12. WellFormed(a) <=> WellFormedTo(a, N)
  BY <1>5 DEF WellFormed, WellFormedTo
<1>13. /\ cmd_parse(line).ok <=> st.status # "rejected"
       /\ cmd_parse(line).args = IF st.flag = NoValue THEN st.args
                                 ELSE Append(st.args, Arg(st.flag, NoValue))
  BY DEF cmd_parse, st, b
<1>14. cmd_parse(line).ok <=> WellFormed(a)
  BY <1>11, <1>12, <1>13 DEF Parsed
<1>15. ASSUME st.status # "rejected" PROVE cmd_parse(line).args = FlagsOf(a)
  <2>1. /\ st.flag = (IF N \in FlagsAt(a) THEN a[N] ELSE NoValue)
        /\ HasFlags(a, st.args, N - 1)
    BY <1>11, <1>15 DEF Parsed
  <2>2. CASE N \in FlagsAt(a)
    <3>1. a[N] \in Flag /\ a[N] # NoValue /\ st.flag = a[N]
      BY <2>1, <2>2, CommandLineAssumption DEF FlagsAt
    <3>2. ArgAt(a, N) = Arg(a[N], NoValue)
      BY <1>5 DEF ArgAt, N
    <3>3. HasFlags(a, Append(st.args, Arg(a[N], NoValue)), N)
      BY <1>2, <2>1, <2>2, <3>2, HasMore
    <3>4. Append(st.args, Arg(a[N], NoValue)) = FlagsOf(a)
      BY <1>2, <3>3, HasAll DEF N
    <3> QED
      BY <1>13, <3>1, <3>4
  <2>3. CASE N \notin FlagsAt(a)
    <3>1. HasFlags(a, st.args, N)
      <4>1. N \in Int /\ HasFlags(a, st.args, N - 1)
        BY <1>5, <2>1
      <4> QED
        BY <1>2, <2>3, <4>1, HasSame
    <3>2. st.args = FlagsOf(a)
      BY <1>2, <3>1, HasAll DEF N
    <3> QED
      BY <1>13, <2>1, <2>3, <3>2
  <2> QED
    BY <2>2, <2>3
<1> QED
  BY <1>13, <1>14, <1>15 DEF a

\* Whatever is typed: cmd_parse accepts what the grammar of the documentation
\* does and reads its flags and values, and what the client takes out of the
\* arguments is there.
THEOREM LinesAreUnderstood == Spec => []CommandsAreUnderstood
<1>1. LinesAreRead
  BY GrammarIsRead, ValuesAreFound DEF LinesAreRead
<1>2. CommandsAreUnderstood
  BY <1>1 DEF CommandsAreUnderstood
<1> QED
  BY <1>2, PTL
=============================================================================
