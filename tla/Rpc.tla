-------------------------------- MODULE Rpc --------------------------------
(***************************************************************************)
(* A request over TCP: request of src/lib/network.c on one side, and on    *)
(* the other a server thread of tracker.c or server.c that accepts,        *)
(* receives, answers and closes.  The bytes of the two directions are two  *)
(* instances of Stream.  Either process may die in the middle; the code    *)
(* has no timeout.                                                         *)
(***************************************************************************)
EXTENDS Messages, SequencesExt

CONSTANTS
    Request,   \* requests
    Answers,   \* Answers[q]: what the handler of q sends, one after the other
    OneWay,    \* SHUTDOWN: nobody waits for an answer
    Streaming, \* MOVE_DATA: answers are read until Zero
    Zero,      \* the zeroed file_t
    Silent,    \* BLOCK: when it cannot open the file, the handler sends nothing
    Error,     \* answers whose header says ERROR
    None       \* no request yet

ASSUME RpcAssumption ==
    /\ Request \subseteq Msg /\ Answers \in [Request -> Seq(Msg)]
    /\ Zero \in Msg /\ Error \subseteq Msg
    /\ \A q \in Request : (q \in OneWay) <=> (Answers[q] = <<>>)
    /\ Silent \subseteq Request \ (OneWay \cup Streaming)
    /\ \A q \in Request : q \in Streaming <=> Contains(Answers[q], Zero)
    /\ \A q \in Streaming : \A i \in DOMAIN Answers[q] :
            Answers[q][i] = Zero <=> i = Len(Answers[q])
    /\ \A q \in Request \ (OneWay \cup Streaming) : Len(Answers[q]) = 1
    /\ None \notin Msg

VARIABLES
    c,      \* the requester: idle, send, wait, hung in read_full, or dead
    asked,  \* its request
    status, \* what the last request returned
    answer, \* ... and the messages it received
    s,      \* the server thread: accept, recv, reply, hung, or killed
    todo,   \* answers it has still to send
    backlog, \* a connection waits to be accepted
    cut,    \* during this connection a process died, or a handler gave up
    uSent, uWritten, uRead, uPart, uSize, uToRead, uPiece, uRecvd,
    dSent, dWritten, dRead, dPart, dSize, dToRead, dPiece, dRecvd

Up == INSTANCE Stream WITH
        sent <- uSent, written <- uWritten, read <- uRead, part <- uPart,
        size <- uSize, toRead <- uToRead, piece <- uPiece, recvd <- uRecvd
Down == INSTANCE Stream WITH
        sent <- dSent, written <- dWritten, read <- dRead, part <- dPart,
        size <- dSize, toRead <- dToRead, piece <- dPiece, recvd <- dRecvd

up   == <<uSent, uWritten, uRead, uPart, uSize, uToRead, uPiece, uRecvd>>
down == <<dSent, dWritten, dRead, dPart, dSize, dToRead, dPiece, dRecvd>>
requester == <<c, asked, status, answer>>
server    == <<s, todo, backlog>>
vars      == <<requester, server, cut, up, down>>

Steps == 1 .. Header + 2  \* bound: bytes moved by one call

TypeOK ==
    /\ c \in {"idle", "send", "wait", "hung", "dead"}
    /\ asked \in Request \cup {None}
    /\ status \in Int
    /\ answer \in Seq(Msg \cup {Torn})
    /\ s \in {"accept", "recv", "reply", "hung", "killed"}
    /\ todo \in Seq(Msg)
    /\ backlog \in BOOLEAN /\ cut \in BOOLEAN
    /\ Up!TypeOK /\ Down!TypeOK

Init ==
    /\ c = "idle" /\ asked = None /\ status = -1 /\ answer = <<>>
    /\ s = "accept" /\ todo = <<>> /\ backlog = FALSE
    /\ cut = FALSE
    /\ Up!Init /\ Down!Init

-----------------------------------------------------------------------------
\* The requester.

\* The server is not there: connect fails, and so does request.
Refused(q) ==
    /\ c \in {"idle", "dead"} /\ s = "killed"
    /\ c' = "idle" /\ asked' = q /\ status' = -1 /\ answer' = <<>>
    /\ UNCHANGED <<server, cut, up, down>>

\* get_client_socket: a new connection.
Connect(q) ==
    /\ c \in {"idle", "dead"} /\ s = "accept" /\ ~backlog
    /\ c' = "send" /\ asked' = q /\ status' = -1 /\ answer' = <<>>
    /\ backlog' = TRUE /\ cut' = FALSE
    /\ Up!Open /\ Down!Open
    /\ UNCHANGED <<s, todo>>

SendRequest ==
    /\ c = "send" /\ uSent = <<>>
    /\ Up!Send(asked)
    /\ UNCHANGED <<requester, server, cut, down>>

WriteRequest ==
    /\ c = "send" /\ \E n \in Steps : Up!Write(n)
    /\ UNCHANGED <<requester, server, cut, down>>

\* Everything is written; SHUTDOWN is not answered.
RequestSent ==
    /\ c = "send" /\ uSent # <<>> /\ uWritten = Up!End
    /\ c' = IF asked \in OneWay THEN "idle" ELSE "wait"
    /\ status' = IF asked \in OneWay THEN 0 ELSE status
    /\ UNCHANGED <<asked, answer, server, cut, up, down>>

\* The loop of a join ends with Zero, any other request with its one answer.
Complete ==
    IF asked \in Streaming THEN Contains(dRecvd, Zero) ELSE dRecvd # <<>>

ReadAnswer ==
    /\ c = "wait" /\ ~Complete
    /\ \/ \E n \in Steps : Down!Read(n)
       \/ Down!RecvHeader
       \/ Down!RecvBody
    /\ UNCHANGED <<requester, server, cut, up>>

\* Mistake: an error answer is taken for an answer.
ReturnsAnything ==
    /\ c = "wait" /\ Complete
    /\ c' = "idle" /\ answer' = dRecvd /\ status' = dPiece
    /\ UNCHANGED <<asked, server, cut, up, down>>

\* request returns; its status is what read_full returned last, the bytes of
\* the last piece.
Returns ==
    /\ c = "wait" /\ Complete
    /\ c' = "idle" /\ answer' = dRecvd
    /\ status' = IF ToSet(dRecvd) \cap Error # {} THEN -1 ELSE dPiece
    /\ UNCHANGED <<asked, server, cut, up, down>>

-----------------------------------------------------------------------------
\* The server thread.

Accept ==
    /\ s = "accept" /\ backlog
    /\ s' = "recv" /\ backlog' = FALSE
    /\ UNCHANGED <<requester, todo, cut, up, down>>

ReadRequest ==
    /\ s = "recv" /\ uRecvd = <<>>
    /\ \/ \E n \in Steps : Up!Read(n)
       \/ Up!RecvHeader
       \/ Up!RecvBody
    /\ UNCHANGED <<requester, server, cut, down>>

\* The handler.
Handle ==
    /\ s = "recv" /\ uRecvd # <<>>
    /\ s' = "reply"
    /\ \/ todo' = Answers[uRecvd[1]] /\ UNCHANGED cut
       \/ uRecvd[1] \in Silent /\ todo' = <<>> /\ cut' = TRUE
    /\ UNCHANGED <<requester, backlog, up, down>>

\* send_res.
SendAnswer ==
    /\ s = "reply" /\ todo # <<>>
    /\ Down!Send(Head(todo))
    /\ todo' = Tail(todo)
    /\ UNCHANGED <<requester, s, backlog, cut, up>>

WriteAnswer ==
    /\ s = "reply" /\ \E n \in Steps : Down!Write(n)
    /\ UNCHANGED <<requester, server, cut, up>>

\* Mistake: what is not yet written is thrown away.
ClosesEarly ==
    /\ s = "reply"
    /\ s' = "accept" /\ todo' = <<>>
    /\ UNCHANGED <<requester, backlog, cut, up, down>>

\* shutdown and close; the next connection.
Closes ==
    /\ s = "reply" /\ todo = <<>> /\ dWritten = Down!End
    /\ s' = "accept"
    /\ UNCHANGED <<requester, todo, backlog, cut, up, down>>

-----------------------------------------------------------------------------
\* Faults.  A process is killed by its user, or by SIGPIPE, for which nobody
\* has installed a handler, when it writes to an end that is closed.

RequesterDies ==
    /\ c \in {"send", "wait", "hung"}
    /\ c' = "dead" /\ cut' = TRUE
    /\ UNCHANGED <<asked, status, answer, server, up, down>>

\* The system closes the dead server's sockets.
ServerDies ==
    /\ s \in {"recv", "reply"}
    /\ s' = "killed" /\ todo' = <<>> /\ cut' = TRUE
    /\ UNCHANGED <<requester, backlog, up, down>>

\* The end of the stream: read returns 0, and read_full calls it again.
ServerSpins ==
    /\ s = "recv" /\ c = "dead" /\ uRecvd = <<>>
    /\ uRead = uWritten /\ uToRead > 0
    /\ s' = "hung"
    /\ UNCHANGED <<requester, todo, backlog, cut, up, down>>

RequesterSpins ==
    /\ c = "wait" /\ s \in {"accept", "killed"} /\ ~backlog /\ ~Complete
    /\ dRead = dWritten /\ dToRead > 0
    /\ c' = "hung"
    /\ UNCHANGED <<asked, status, answer, server, cut, up, down>>

\* The connection was reset: read fails, and so does recv_req or recv_res.
ServerReset ==
    /\ s = "recv" /\ c = "dead" /\ uRecvd = <<>>
    /\ s' = "accept"
    /\ UNCHANGED <<requester, todo, backlog, cut, up, down>>

RequesterReset ==
    /\ c = "wait" /\ s = "killed" /\ ~Complete /\ asked \notin Streaming
    /\ c' = "idle" /\ status' = -1
    /\ UNCHANGED <<asked, answer, server, cut, up, down>>

\* A killed server is started again once its requester is gone.
ServerRestarts ==
    /\ s = "killed" /\ c \in {"idle", "dead"}
    /\ s' = "accept"
    /\ UNCHANGED <<requester, todo, backlog, cut, up, down>>

-----------------------------------------------------------------------------
RequesterStep ==
    SendRequest \/ WriteRequest \/ RequestSent \/ ReadAnswer \/ Returns
ServerStep ==
    Accept \/ ReadRequest \/ Handle \/ SendAnswer \/ WriteAnswer \/ Closes
Fault ==
    \/ RequesterDies \/ ServerDies \/ ServerSpins \/ RequesterSpins
    \/ ServerReset \/ RequesterReset \/ ServerRestarts

Next ==
    (\E q \in Request : Connect(q) \/ Refused(q)) \/ RequesterStep \/ ServerStep \/ Fault

\* Both processes run as long as they live.
Spec == Init /\ [][Next]_vars /\ WF_vars(RequesterStep) /\ WF_vars(ServerStep)

-----------------------------------------------------------------------------
\* A request that returns a status that is no error has received exactly the
\* answers of its own request, whole and in order, whatever read and write did
\* and whoever died (request, and the receive loop of a join).
SuccessIsTheAnswer ==
    c = "idle" /\ status > 0 =>
        /\ answer = Answers[asked]
        /\ ToSet(answer) \cap Error = {}

\* A process spins in read_full only when the other end of its connection died,
\* or was a handler that left without an answer: whoever closes has sent all.
HungMeansCut == c = "hung" \/ s = "hung" => cut

\* What is sent in either direction is delivered whole and in order, in however
\* many pieces read and write move it (recv_req, send_res and their likes).
MessagesAreWhole == Up!ImplementsChannel /\ Down!ImplementsChannel

\* A request returns unless a process died or a handler gave up.
RequestReturns == c \in {"send", "wait"} ~> (c = "idle" \/ cut)
=============================================================================
