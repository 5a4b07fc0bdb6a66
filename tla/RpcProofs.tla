------------------------------ MODULE RpcProofs ------------------------------
(***************************************************************************)
(* Theorems about Rpc: for any requests, answers and sizes, however the    *)
(* bytes are split and whichever process dies when.  What StreamProofs     *)
(* shows of one direction holds of both, as every step of a request is a   *)
(* step of either stream or leaves it alone.                               *)
(***************************************************************************)
EXTENDS Rpc, SequenceTheorems, TLAPS

UpP == INSTANCE StreamProofs WITH
        sent <- uSent, written <- uWritten, read <- uRead, part <- uPart,
        size <- uSize, toRead <- uToRead, piece <- uPiece, recvd <- uRecvd
DownP == INSTANCE StreamProofs WITH
        sent <- dSent, written <- dWritten, read <- dRead, part <- dPart,
        size <- dSize, toRead <- dToRead, piece <- dPiece, recvd <- dRecvd

-----------------------------------------------------------------------------
\* The two directions.

LEMMA StepsAreNat == Steps \subseteq Nat
  BY MessageAssumption DEF Steps

LEMMA TypesOfStreams ==
    ASSUME TypeOK
    PROVE  UpP!TypeOK /\ DownP!TypeOK
  BY DEF TypeOK, Up!TypeOK, Down!TypeOK, UpP!TypeOK, DownP!TypeOK

\* A request asks for something that can be sent.
Sendable == c = "send" => asked \in Request

LEMMA SendableInit == Init => Sendable
  BY DEF Init, Sendable

LEMMA SendableStep ==
    ASSUME Sendable, [Next]_vars
    PROVE  Sendable'
<1> USE DEF Sendable
<1>1. CASE UNCHANGED vars
  BY <1>1 DEF vars, requester
<1>2. ASSUME NEW q \in Request, Connect(q) \/ Refused(q) PROVE Sendable'
  BY <1>2 DEF Connect, Refused
<1>3. CASE RequesterStep
  BY <1>3 DEF RequesterStep, SendRequest, WriteRequest, RequestSent, ReadAnswer,
              Returns, requester
<1>4. CASE ServerStep
  BY <1>4 DEF ServerStep, Accept, ReadRequest, Handle, SendAnswer, WriteAnswer, Closes,
              requester
<1>5. CASE Fault
  BY <1>5 DEF Fault, RequesterDies, ServerDies, ServerSpins, RequesterSpins,
              ServerReset, RequesterReset, ServerRestarts, requester
<1> QED
  BY <1>1, <1>2, <1>3, <1>4, <1>5 DEF Next

LEMMA UpStep ==
    ASSUME Sendable, [Next]_vars
    PROVE  [UpP!Next]_(UpP!vars)
<1>1. CASE UNCHANGED up
  BY <1>1 DEF up, UpP!vars
<1>2. ASSUME NEW q \in Request, Connect(q) PROVE UpP!Open
  BY <1>2 DEF Connect, Up!Open, UpP!Open
<1>3. CASE SendRequest
  <2>1. asked \in Msg
    BY <1>3, RpcAssumption DEF SendRequest, Sendable
  <2>2. UpP!Send(asked)
    BY <1>3 DEF SendRequest, Up!Send, UpP!Send, Up!End, UpP!End, Up!EndOf, UpP!EndOf
  <2> QED
    BY <2>1, <2>2 DEF UpP!Next
<1>4. CASE WriteRequest
  <2>1. PICK n \in Nat : Up!Write(n)
    BY <1>4, StepsAreNat DEF WriteRequest
  <2>2. UpP!Write(n)
    BY <2>1 DEF Up!Write, UpP!Write, Up!End, UpP!End, Up!EndOf, UpP!EndOf
  <2> QED
    BY <2>2 DEF UpP!Next
<1>5. CASE ReadRequest
  <2>1. ASSUME NEW n \in Nat, Up!Read(n) PROVE UpP!Read(n)
    BY <2>1 DEF Up!Read, UpP!Read
  <2>2. CASE Up!RecvHeader
    BY <2>2 DEF Up!RecvHeader, UpP!RecvHeader, Up!Announced, UpP!Announced, UpP!Next
  <2>3. CASE Up!RecvBody
    BY <2>3 DEF Up!RecvBody, UpP!RecvBody, Up!Received, UpP!Received, Up!EndOf,
                UpP!EndOf, UpP!Next
  <2> QED
    BY <1>5, <2>1, <2>2, <2>3, StepsAreNat DEF ReadRequest, UpP!Next
<1>6. CASE ~ (\/ UNCHANGED up \/ \E q \in Request : Connect(q)
              \/ SendRequest \/ WriteRequest \/ ReadRequest)
  BY <1>6 DEF Next, vars, RequesterStep, ServerStep, Fault, Refused, RequestSent,
     ReadAnswer, Returns, Accept, Handle, SendAnswer, WriteAnswer, Closes, RequesterDies,
     ServerDies, ServerSpins, RequesterSpins, ServerReset, RequesterReset,
     ServerRestarts
<1> QED
  BY <1>1, <1>2, <1>3, <1>4, <1>5, <1>6 DEF UpP!Next
LEMMA UpIsStream == Spec => [](Sendable /\ UpP!Inv)
<1>1. Init => UpP!Init
  BY DEF Init, Up!Init, UpP!Init
<1>2. Sendable /\ [Next]_vars => Sendable' /\ [UpP!Next]_(UpP!vars)
  BY SendableStep, UpStep
<1> QED
  BY <1>1, <1>2, SendableInit, UpP!StreamInvariant, MessageAssumption, PTL
  DEF Spec, UpP!Spec

\* A connection carries the one request its requester is waiting for.
Requested ==
    /\ uSent # <<>> => Len(uSent) = 1 /\ uSent[1].msg \in Request
    /\ c \in {"send", "wait", "hung"} =>
           asked \in Request /\ (uSent # <<>> => uSent[1].msg = asked)
    /\ c \in {"wait", "hung"} => uSent # <<>> /\ asked \notin OneWay
    /\ todo \in Seq(Msg)

\* The handler gets the request that was sent.
LEMMA ReadOne ==
    ASSUME UpP!Inv, Requested, uRecvd # <<>>
    PROVE  uSent # <<>> /\ uRecvd[1] = uSent[1].msg /\ uRecvd[1] \in Request
<1>1. Len(uRecvd) \in Nat /\ Len(uRecvd) > 0 /\ Len(uSent) \in Nat
  BY EmptySeq, LenProperties DEF UpP!Inv, UpP!TypeOK
<1>2. Len(uRecvd) <= Len(uSent)
  BY DEF UpP!Inv, UpP!Bounded
<1>3. uSent # <<>>
  BY <1>1, <1>2
<1>4. uRecvd[1] = uSent[1].msg
  BY <1>1 DEF UpP!Inv, UpP!Delivered
<1> QED
  BY <1>3, <1>4 DEF Requested

LEMMA RequestedInit == Init => Requested
  BY DEF Init, Requested, Up!Init

LEMMA RequestedStep ==
    ASSUME UpP!Inv, Requested, [Next]_vars
    PROVE  Requested'
<1>1. CASE UNCHANGED vars
  BY <1>1 DEF vars, requester, server, up, Requested
<1>2. ASSUME NEW q \in Request, Connect(q) \/ Refused(q) PROVE Requested'
  BY <1>2 DEF Connect, Refused, Requested, Up!Open, server, up
<1>3. CASE RequesterStep
  <2>1. CASE SendRequest
    <3>1. /\ uSent = <<>> /\ c = "send" /\ c' = c /\ asked' = asked /\ todo' = todo
          /\ uSent' = Append(uSent, [msg |-> asked, at |-> Up!End])
      BY <2>1 DEF SendRequest, Up!Send, requester, server
    <3>2. Len(uSent') = 1 /\ uSent'[1].msg = asked
      BY <3>1
    <3> QED
      BY <3>1, <3>2 DEF Requested
  <2>2. CASE WriteRequest
    BY <2>2 DEF WriteRequest, Up!Write, requester, server, Requested
  <2>3. CASE RequestSent
    BY <2>3 DEF RequestSent, server, up, Requested
  <2>4. CASE ReadAnswer \/ Returns
    BY <2>4 DEF ReadAnswer, Returns, requester, server, up, Requested
  <2> QED
    BY <1>3, <2>1, <2>2, <2>3, <2>4 DEF RequesterStep
<1>4. CASE ServerStep
  <2>1. CASE ReadRequest
    BY <2>1 DEF ReadRequest, Up!Read, Up!RecvHeader, Up!RecvBody, requester, server,
                Requested
  <2>2. CASE Handle
    <3>1. uRecvd[1] \in Request
      BY <2>2, ReadOne DEF Handle
    <3>2. Answers[uRecvd[1]] \in Seq(Msg) /\ <<>> \in Seq(Msg)
      BY <3>1, RpcAssumption
    <3> QED
      BY <2>2, <3>2 DEF Handle, requester, up, Requested
  <2>3. CASE SendAnswer
    <3>1. Tail(todo) \in Seq(Msg)
      BY <2>3 DEF SendAnswer, Requested
    <3> QED
      BY <2>3, <3>1 DEF SendAnswer, requester, up, Requested
  <2>4. CASE Accept \/ WriteAnswer \/ Closes
    BY <2>4 DEF Accept, WriteAnswer, Closes, requester, server, up, Requested
  <2> QED
    BY <1>4, <2>1, <2>2, <2>3, <2>4 DEF ServerStep
<1>5. CASE Fault
  <2>1. CASE ServerDies
    BY <2>1 DEF ServerDies, requester, up, Requested
  <2>2. CASE RequesterDies \/ RequesterSpins \/ RequesterReset
    BY <2>2 DEF RequesterDies, RequesterSpins, RequesterReset, server, up, Requested
  <2>3. CASE ServerSpins \/ ServerReset \/ ServerRestarts
    BY <2>3 DEF ServerSpins, ServerReset, ServerRestarts, requester, up, Requested
  <2> QED
    BY <1>5, <2>1, <2>2, <2>3 DEF Fault
<1> QED
  BY <1>1, <1>2, <1>3, <1>4, <1>5 DEF Next

LEMMA DownStep ==
    ASSUME Requested, [Next]_vars
    PROVE  [DownP!Next]_(DownP!vars)
<1>1. CASE UNCHANGED down
  BY <1>1 DEF down, DownP!vars
<1>2. ASSUME NEW q \in Request, Connect(q) PROVE DownP!Open
  BY <1>2 DEF Connect, Down!Open, DownP!Open
<1>3. CASE SendAnswer
  <2>1. Head(todo) \in Msg
    BY <1>3 DEF SendAnswer, Requested
  <2>2. DownP!Send(Head(todo))
    BY <1>3 DEF SendAnswer, Down!Send, DownP!Send, Down!End, DownP!End, Down!EndOf,
                DownP!EndOf
  <2> QED
    BY <2>1, <2>2 DEF DownP!Next
<1>4. CASE WriteAnswer
  <2>1. PICK n \in Nat : Down!Write(n)
    BY <1>4, StepsAreNat DEF WriteAnswer
  <2>2. DownP!Write(n)
    BY <2>1 DEF Down!Write, DownP!Write, Down!End, DownP!End, Down!EndOf, DownP!EndOf
  <2> QED
    BY <2>2 DEF DownP!Next
<1>5. CASE ReadAnswer
  <2>1. ASSUME NEW n \in Nat, Down!Read(n) PROVE DownP!Read(n)
    BY <2>1 DEF Down!Read, DownP!Read
  <2>2. CASE Down!RecvHeader
    BY <2>2 DEF Down!RecvHeader, DownP!RecvHeader, Down!Announced, DownP!Announced,
                DownP!Next
  <2>3. CASE Down!RecvBody
    BY <2>3 DEF Down!RecvBody, DownP!RecvBody, Down!Received, DownP!Received,
                Down!EndOf, DownP!EndOf, DownP!Next
  <2> QED
    BY <1>5, <2>1, <2>2, <2>3, StepsAreNat DEF ReadAnswer, DownP!Next
<1>6. CASE ~ (\/ UNCHANGED down \/ \E q \in Request : Connect(q)
              \/ SendAnswer \/ WriteAnswer \/ ReadAnswer)
  BY <1>6 DEF Next, vars, RequesterStep, ServerStep, Fault, Refused, SendRequest,
     WriteRequest, RequestSent, Returns, Accept, ReadRequest, Handle, Closes,
     RequesterDies, ServerDies, ServerSpins, RequesterSpins, ServerReset,
     RequesterReset, ServerRestarts
<1> QED
  BY <1>1, <1>2, <1>3, <1>4, <1>5, <1>6 DEF DownP!Next

\* Both directions are streams, and carry what they should.
Streams == UpP!Inv /\ DownP!Inv /\ Requested

LEMMA BothAreStreams == Spec => []Streams
<1>1. Init => DownP!Init
  BY DEF Init, Down!Init, DownP!Init
<1>2. UpP!Inv /\ Requested /\ [Next]_vars
        => Requested' /\ [DownP!Next]_(DownP!vars)
  BY RequestedStep, DownStep
<1> QED
  BY <1>1, <1>2, UpIsStream, RequestedInit, DownP!StreamInvariant, MessageAssumption,
     PTL DEF Spec, DownP!Spec, Streams

\* What is sent in either direction is delivered whole and in order.
THEOREM BothDirectionsAreChannels == Spec => MessagesAreWhole
<1>1. Spec => UpP!Spec
  <2>1. Init => UpP!Init
    BY DEF Init, Up!Init, UpP!Init
  <2>2. Sendable /\ [Next]_vars => [UpP!Next]_(UpP!vars)
    BY UpStep
  <2> QED
    BY <2>1, <2>2, UpIsStream, PTL DEF Spec, UpP!Spec
<1>2. Spec => DownP!Spec
  <2>1. Init => DownP!Init
    BY DEF Init, Down!Init, DownP!Init
  <2>2. Requested /\ [Next]_vars => [DownP!Next]_(DownP!vars)
    BY DownStep
  <2>3. Streams => Requested
    BY DEF Streams
  <2> QED
    BY <2>1, <2>2, <2>3, BothAreStreams, PTL DEF Spec, DownP!Spec
<1>3. UpP!ImplementsChannel => Up!ImplementsChannel
  <2>1. UpP!Whole!Init => Up!Whole!Init
    BY DEF UpP!Whole!Init, Up!Whole!Init, UpP!Undelivered, Up!Undelivered
  <2>2. [UpP!Whole!Next]_(UpP!Whole!vars) => [Up!Whole!Next]_(Up!Whole!vars)
    BY DEF UpP!Whole!Next, Up!Whole!Next, UpP!Whole!vars, Up!Whole!vars,
           UpP!Undelivered, Up!Undelivered, UpP!Whole!Connected, Up!Whole!Connected,
           UpP!Whole!Arrives, Up!Whole!Arrives, UpP!Whole!Sent, Up!Whole!Sent
  <2> QED
    BY <2>1, <2>2, PTL DEF UpP!ImplementsChannel, Up!ImplementsChannel,
       UpP!Whole!Spec, Up!Whole!Spec
<1>4. DownP!ImplementsChannel => Down!ImplementsChannel
  <2>1. DownP!Whole!Init => Down!Whole!Init
    BY DEF DownP!Whole!Init, Down!Whole!Init, DownP!Undelivered, Down!Undelivered
  <2>2. [DownP!Whole!Next]_(DownP!Whole!vars) => [Down!Whole!Next]_(Down!Whole!vars)
    BY DEF DownP!Whole!Next, Down!Whole!Next, DownP!Whole!vars, Down!Whole!vars,
           DownP!Undelivered, Down!Undelivered, DownP!Whole!Connected,
           Down!Whole!Connected, DownP!Whole!Arrives, Down!Whole!Arrives,
           DownP!Whole!Sent, Down!Whole!Sent
  <2> QED
    BY <2>1, <2>2, PTL DEF DownP!ImplementsChannel, Down!ImplementsChannel,
       DownP!Whole!Spec, Down!Whole!Spec
<1> QED
  BY <1>1, <1>2, <1>3, <1>4, UpP!StreamIsAChannel, DownP!StreamIsAChannel,
     MessageAssumption, PTL DEF MessagesAreWhole

-----------------------------------------------------------------------------
\* Answers and faults.

\* What the handler of the request that was read sends.
Wanted == Answers[uRecvd[1]]

\* What has been sent is the beginning of that, what is still to be sent the
\* rest (a handler that gives up sends nothing).
Replied ==
    /\ backlog => s = "accept"
    /\ backlog \/ s = "recv" => dSent = <<>>
    /\ dSent # <<>> \/ s = "reply" => uRecvd # <<>>
    /\ \A i \in 1 .. Len(dSent) : i <= Len(Wanted) /\ dSent[i].msg = Wanted[i]
    /\ s = "reply" /\ todo # <<>> =>
           /\ Len(dSent) + Len(todo) = Len(Wanted)
           /\ \A i \in 1 .. Len(todo) : todo[i] = Wanted[Len(dSent) + i]

\* Without a fault everything is sent, and a server that has turned to other
\* connections has written all of it.
Finished ==
    /\ c \in {"dead", "hung"} \/ s \in {"hung", "killed"} => cut
    /\ ~cut /\ s = "reply" => Len(dSent) + Len(todo) = Len(Wanted)
    /\ ~cut /\ s = "accept" /\ ~backlog /\ c \in {"send", "wait"} =>
           /\ uRecvd # <<>> /\ Len(dSent) = Len(Wanted)
           /\ dWritten = Down!End

IInv == TypeOK /\ Replied /\ Finished /\ SuccessIsTheAnswer

LEMMA WantedIsSent ==
    ASSUME Streams, uRecvd # <<>>
    PROVE  uRecvd[1] \in Request /\ Wanted \in Seq(Msg) /\ uRecvd[1] = uSent[1].msg
<1>1. uRecvd[1] \in Request /\ uRecvd[1] = uSent[1].msg
  BY ReadOne DEF Streams
<1> QED
  BY <1>1, RpcAssumption DEF Wanted

\* Messages received are the first of those sent.
LEMMA ReceivedIsSent ==
    ASSUME Streams
    PROVE  /\ dRecvd \in Seq(Msg \cup {Torn}) /\ dSent \in Seq([msg : Msg, at : Nat])
           /\ Len(dRecvd) \in Nat /\ Len(dSent) \in Nat /\ Len(dRecvd) <= Len(dSent)
           /\ \A i \in 1 .. Len(dRecvd) : dRecvd[i] = dSent[i].msg
  BY DEF Streams, DownP!Inv, DownP!TypeOK, DownP!Bounded, DownP!Delivered

\* A requester that has all it waits for has the answers of its request.
LEMMA CompleteIsWanted ==
    ASSUME Streams, Replied, c = "wait", Complete
    PROVE  dRecvd = Answers[asked]
<1>1. uSent # <<>> /\ asked \in Request \ OneWay /\ uSent[1].msg = asked
  BY DEF Streams, Requested
<1>2. dRecvd # <<>>
  <2>1. Contains(dRecvd, Zero) => dRecvd # <<>>
    BY DEF Contains
  <2> QED
    BY <2>1 DEF Complete
<1>3. Len(dRecvd) >= 1 /\ Len(dSent) >= 1
  BY <1>2, ReceivedIsSent, EmptySeq
<1>4. dSent # <<>>
  BY <1>3
<1>5. uRecvd # <<>>
  BY <1>4 DEF Replied
<1>6. Wanted = Answers[asked] /\ Wanted \in Seq(Msg)
  BY <1>1, <1>5, WantedIsSent DEF Wanted
<1>7. \A i \in 1 .. Len(dRecvd) : i <= Len(Wanted) /\ dRecvd[i] = Wanted[i]
  BY ReceivedIsSent DEF Replied
<1>8. Len(Wanted) \in Nat /\ Len(dRecvd) \in Nat /\ Len(dRecvd) <= Len(Wanted)
  BY <1>3, <1>6, <1>7, ReceivedIsSent
<1>9. Len(dRecvd) = Len(Wanted)
  <2>1. CASE asked \in Streaming
    <3>1. PICK i \in 1 .. Len(dRecvd) : dRecvd[i] = Zero
      BY <2>1, ReceivedIsSent DEF Complete, Contains
    <3>2. i \in DOMAIN Wanted /\ Wanted[i] = Zero
      BY <1>6, <1>7, <1>8, <3>1
    <3>3. i = Len(Wanted)
      BY <1>6, <2>1, <3>2, RpcAssumption
    <3> QED
      BY <1>8, <3>1, <3>3
  <2>2. CASE asked \notin Streaming
    <3>1. Len(Wanted) = 1
      BY <1>1, <1>6, <2>2, RpcAssumption
    <3> QED
      BY <1>3, <1>8, <3>1
  <2> QED
    BY <2>1, <2>2
<1>10. dRecvd = Wanted
  <2>1. Wanted \in Seq(Msg \cup {Torn})
    BY <1>6
  <2> HIDE DEF Wanted
  <2> QED
    BY <1>7, <1>9, <2>1, ReceivedIsSent, SeqEqual
<1> QED
  BY <1>6, <1>10

\* A requester does not wait for a server that has written all its answers.
LEMMA NobodySpinsUncut ==
    ASSUME Streams, Replied, Finished, RequesterSpins
    PROVE  cut
<1> SUFFICES ASSUME ~cut PROVE FALSE
  OBVIOUS
<1>1. /\ c = "wait" /\ s = "accept" /\ ~backlog /\ ~Complete
      /\ dRead = dWritten /\ dToRead > 0
  BY DEF RequesterSpins, Finished
<1>2. uRecvd # <<>> /\ Len(dSent) = Len(Wanted) /\ dWritten = Down!End
  BY <1>1 DEF Finished
<1>3. Len(dRecvd) = Len(dSent)
  <2>1. dRead = DownP!End
    BY <1>1, <1>2 DEF Down!End, DownP!End, Down!EndOf, DownP!EndOf
  <2> QED
    BY <1>1, <2>1, DownP!AllRead, MessageAssumption DEF Streams
<1>4. /\ uRecvd[1] = uSent[1].msg /\ Wanted \in Seq(Msg) /\ uSent[1].msg = asked
      /\ asked \in Request \ OneWay
  BY <1>1, <1>2, WantedIsSent DEF Streams, Requested
<1>5. Wanted = Answers[asked]
  BY <1>4 DEF Wanted
<1>6. Len(Wanted) \in Nat /\ Len(Wanted) >= 1
  <2>1. Wanted # <<>>
    BY <1>4, <1>5, RpcAssumption
  <2> QED
    BY <1>4, <2>1, EmptySeq
<1>7. dRecvd # <<>>
  BY <1>2, <1>3, <1>6
<1>8. asked \in Streaming
  BY <1>1, <1>7 DEF Complete
<1>9. dRecvd[Len(Wanted)] = Wanted[Len(Wanted)]
  BY <1>2, <1>3, <1>6, ReceivedIsSent DEF Replied
<1>10. Wanted[Len(Wanted)] = Zero
  BY <1>4, <1>5, <1>6, <1>8, RpcAssumption
<1>11. Contains(dRecvd, Zero)
  BY <1>2, <1>3, <1>6, <1>9, <1>10 DEF Contains
<1> QED
  BY <1>1, <1>8, <1>11 DEF Complete

LEMMA InitHasIInv == Init => IInv
<1> SUFFICES ASSUME Init PROVE IInv
  OBVIOUS
<1>1. /\ c = "idle" /\ asked = None /\ status = -1 /\ answer = <<>>
      /\ s = "accept" /\ todo = <<>> /\ backlog = FALSE /\ cut = FALSE
      /\ dSent = <<>> /\ Up!Init /\ Down!Init
  BY DEF Init, Down!Init
<1>2. Up!TypeOK /\ Down!TypeOK
  BY <1>1, MessageAssumption DEF Up!Init, Down!Init, Up!TypeOK, Down!TypeOK
<1>3. TypeOK /\ SuccessIsTheAnswer
  <2>1. c = "idle" /\ c \in {"idle", "send", "wait", "hung", "dead"}
    BY <1>1
  <2>2. asked \in Request \cup {None}
    BY <1>1
  <2>3. status \in Int /\ ~ (status > 0)
    BY <1>1
  <2>4. answer \in Seq(Msg \cup {Torn}) /\ todo \in Seq(Msg)
    BY <1>1
  <2>5. s \in {"accept", "recv", "reply", "hung", "killed"}
    BY <1>1
  <2>6. backlog \in BOOLEAN /\ cut \in BOOLEAN
    BY <1>1
  <2> QED
  BY <2>1, <2>2, <2>3, <2>4, <2>5, <2>6, <1>2 DEF TypeOK, SuccessIsTheAnswer
<1>4. Replied /\ Finished
  BY <1>1 DEF Replied, Finished
<1> QED
  BY <1>3, <1>4 DEF IInv

\* Every variable keeps its type.
LEMMA TypesStep ==
    ASSUME Streams, Streams', TypeOK, [Next]_vars
    PROVE  TypeOK'
<1>1. Up!TypeOK' /\ Down!TypeOK' /\ todo' \in Seq(Msg)
  BY DEF Streams, Requested, UpP!Inv, DownP!Inv, UpP!TypeOK, DownP!TypeOK, Up!TypeOK,
         Down!TypeOK
<1>2. dPiece \in Nat /\ dRecvd \in Seq(Msg \cup {Torn})
  BY DEF TypeOK, Down!TypeOK
<1>3. /\ c' \in {"idle", "send", "wait", "hung", "dead"}
      /\ asked' \in Request \cup {None} /\ status' \in Int
      /\ answer' \in Seq(Msg \cup {Torn})
      /\ s' \in {"accept", "recv", "reply", "hung", "killed"}
      /\ backlog' \in BOOLEAN /\ cut' \in BOOLEAN
  <2> USE DEF TypeOK
  <2>1. CASE UNCHANGED vars
    BY <2>1 DEF vars, requester, server
  <2>2. ASSUME NEW q \in Request, Connect(q) \/ Refused(q) PROVE <1>3!:
    <3>1. /\ c' \in {"send", "idle"} /\ asked' = q /\ status' = -1 /\ answer' = <<>>
          /\ s' = s /\ backlog' \in {backlog, TRUE} /\ cut' \in {cut, FALSE}
      BY <2>2 DEF Connect, Refused, server
    <3>2. status' \in Int /\ answer' \in Seq(Msg \cup {Torn})
      BY <3>1
    <3> QED
      BY <3>1, <3>2
  <2>3. CASE SendRequest \/ WriteRequest \/ ReadAnswer
    BY <2>3 DEF SendRequest, WriteRequest, ReadAnswer, requester, server
  <2>6. CASE RequestSent
    BY <2>6 DEF RequestSent, server
  <2>7. CASE Returns
    BY <1>2, <2>7 DEF Returns, server
  <2>4. CASE ServerStep
    BY <2>4 DEF ServerStep, Accept, ReadRequest, Handle, SendAnswer, WriteAnswer,
                Closes, requester, server
  <2>5. CASE RequesterDies \/ RequesterSpins \/ RequesterReset
    <3>1. /\ c' \in {"dead", "hung", "idle"} /\ asked' = asked /\ answer' = answer
          /\ status' \in {status, -1} /\ s' = s /\ backlog' = backlog
          /\ cut' \in {cut, TRUE}
      BY <2>5 DEF RequesterDies, RequesterSpins, RequesterReset, server
    <3>2. status' \in Int
      BY <3>1
    <3> QED
      BY <3>1, <3>2
  <2>8. CASE ServerDies \/ ServerSpins \/ ServerReset \/ ServerRestarts
    BY <2>8 DEF ServerDies, ServerSpins, ServerReset, ServerRestarts, requester
  <2> QED
    BY <2>1, <2>2, <2>3, <2>4, <2>5, <2>6, <2>7, <2>8 DEF Next, RequesterStep, Fault
<1> QED
  BY <1>1, <1>3 DEF TypeOK

\* The handler sends one more answer.
LEMMA SendAnswerKeeps ==
    ASSUME Streams, TypeOK, Replied, Finished, SendAnswer
    PROVE  Replied' /\ Finished'
<1>1. /\ s = "reply" /\ s' = s /\ todo # <<>> /\ todo' = Tail(todo)
      /\ c' = c /\ backlog' = backlog /\ cut' = cut /\ uRecvd' = uRecvd
      /\ \E at : dSent' = Append(dSent, [msg |-> Head(todo), at |-> at])
  BY DEF SendAnswer, Down!Send, requester, up
<1>2. uRecvd # <<>> /\ ~backlog
  BY <1>1 DEF Replied
<1>3. todo \in Seq(Msg) /\ Len(dSent) \in Nat /\ dSent \in Seq([msg : Msg, at : Nat])
  BY ReceivedIsSent DEF TypeOK
<1>4. /\ Len(todo) \in Nat /\ Len(todo) >= 1 /\ Len(todo') = Len(todo) - 1
      /\ \A i \in 1 .. Len(todo) - 1 : todo'[i] = todo[i + 1]
      /\ Head(todo) = todo[1]
  BY <1>1, <1>3, HeadTailProperties, EmptySeq
<1>5. /\ Len(dSent') = Len(dSent) + 1 /\ dSent'[Len(dSent) + 1].msg = todo[1]
      /\ \A i \in 1 .. Len(dSent) : dSent'[i] = dSent[i]
  BY <1>1, <1>3, <1>4
<1>6. /\ Len(dSent) + Len(todo) = Len(Wanted)
      /\ \A i \in 1 .. Len(todo) : todo[i] = Wanted[Len(dSent) + i]
  BY <1>1 DEF Replied
<1>7. Wanted' = Wanted
  BY <1>1 DEF Wanted
<1>8. Len(dSent') + Len(todo') = Len(Wanted)
  <2>1. Len(dSent) + Len(todo) = Len(Wanted) /\ Len(dSent') = Len(dSent) + 1
    BY <1>5, <1>6
  <2>2. /\ Len(dSent) \in Nat /\ Len(todo) \in Nat
        /\ Len(todo') = Len(todo) - 1
    BY <1>3, <1>4
  <2> QED
    BY <2>1, <2>2
<1>9. \A i \in 1 .. Len(dSent') : i <= Len(Wanted) /\ dSent'[i].msg = Wanted[i]
  <2>1. ASSUME NEW i \in 1 .. Len(dSent)
        PROVE  i <= Len(Wanted) /\ dSent'[i].msg = Wanted[i]
    BY <1>5 DEF Replied
  <2>2. /\ Len(dSent) + 1 <= Len(Wanted)
        /\ dSent'[Len(dSent) + 1].msg = Wanted[Len(dSent) + 1]
    BY <1>3, <1>4, <1>5, <1>6
  <2> QED
    BY <1>3, <1>5, <2>1, <2>2
<1>10. \A i \in 1 .. Len(todo') : todo'[i] = Wanted[Len(dSent') + i]
  BY <1>3, <1>4, <1>5, <1>6
<1>11. Replied'
  BY <1>1, <1>2, <1>7, <1>8, <1>9, <1>10 DEF Replied
<1>12. Finished'
  BY <1>1, <1>7, <1>8 DEF Finished
<1> QED
  BY <1>11, <1>12

\* What does not touch the answers under way, nor what the server is doing.
LEMMA SameAnswers ==
    ASSUME Replied, UNCHANGED <<server, uRecvd, dSent>>
    PROVE  Replied'
  BY DEF Replied, Wanted, server

LEMMA AnswersStep ==
    ASSUME Streams, TypeOK, Replied, Finished, [Next]_vars
    PROVE  Replied' /\ Finished'
<1>1. CASE UNCHANGED vars
  BY <1>1, SameAnswers DEF vars, requester, up, down, server, Finished, Wanted, Down!End,
                           Down!EndOf
<1>2. ASSUME NEW q \in Request, Connect(q) PROVE Replied' /\ Finished'
  BY <1>2 DEF Connect, Up!Open, Down!Open, Replied, Finished
<1>3. ASSUME NEW q \in Request, Refused(q) PROVE Replied' /\ Finished'
  BY <1>3, SameAnswers DEF Refused, server, up, down, Finished, Wanted
<1>4. CASE SendRequest \/ WriteRequest
  <2>1. UNCHANGED <<requester, server, cut, uRecvd, dSent, dWritten>>
    BY <1>4 DEF SendRequest, WriteRequest, Up!Send, Up!Write, down
  <2> QED
    BY <2>1, SameAnswers DEF Finished, requester, server, Wanted, Down!End, Down!EndOf
<1>5. CASE RequestSent
  <2>1. UNCHANGED <<server, cut, uRecvd, dSent, dWritten>> /\ c = "send"
        /\ c' \in {"idle", "wait"}
    BY <1>5 DEF RequestSent, up, down
  <2> QED
    BY <2>1, SameAnswers DEF Finished, server, Wanted, Down!End, Down!EndOf
<1>6. CASE ReadAnswer
  <2>1. UNCHANGED <<requester, server, cut, uRecvd, dSent, dWritten>>
    BY <1>6 DEF ReadAnswer, Down!Read, Down!RecvHeader, Down!RecvBody, up
  <2> QED
    BY <2>1, SameAnswers DEF Finished, requester, server, Wanted, Down!End, Down!EndOf
<1>7. CASE Returns \/ RequesterDies \/ RequesterReset
  <2>1. UNCHANGED <<server, uRecvd, dSent>> /\ c' \in {"idle", "dead"}
        /\ (cut' = cut \/ cut' = TRUE) /\ (c' = "dead" => cut')
    BY <1>7 DEF Returns, RequesterDies, RequesterReset, up, down
  <2> QED
    BY <2>1, SameAnswers DEF Finished, server, Wanted
<1>8. CASE Accept
  BY <1>8 DEF Accept, requester, up, down, Replied, Finished, Wanted
<1>9. CASE ReadRequest
  <2>1. UNCHANGED <<requester, server, cut, dSent>> /\ s = "recv"
    BY <1>9 DEF ReadRequest, down
  <2>2. dSent = <<>>
    BY <2>1 DEF Replied
  <2> QED
    BY <2>1, <2>2 DEF Replied, Finished, requester, server
<1>10. CASE Handle
  <2>1. /\ s = "recv" /\ uRecvd # <<>> /\ s' = "reply" /\ c' = c /\ ~backlog
        /\ UNCHANGED <<backlog, uRecvd, dSent>> /\ dSent = <<>>
        /\ \/ todo' = Wanted /\ cut' = cut
           \/ todo' = <<>> /\ cut'
    BY <1>10 DEF Handle, requester, up, down, Replied, Wanted
  <2>2. Wanted \in Seq(Msg) /\ Wanted' = Wanted
    BY <2>1, WantedIsSent DEF Wanted
  <2>3. Replied'
    BY <2>1, <2>2 DEF Replied
  <2>4. Finished'
    BY <2>1, <2>2 DEF Finished
  <2> QED
    BY <2>3, <2>4
<1>11. CASE SendAnswer
  BY <1>11, SendAnswerKeeps
<1>12. CASE WriteAnswer
  <2>1. UNCHANGED <<requester, server, cut, uRecvd, dSent>> /\ s = "reply"
    BY <1>12 DEF WriteAnswer, Down!Write, up
  <2> QED
    BY <2>1, SameAnswers DEF Finished, requester, server, Wanted
<1>13. CASE Closes
  <2>1. /\ s = "reply" /\ todo = <<>> /\ dWritten = Down!End /\ s' = "accept"
        /\ UNCHANGED <<requester, todo, backlog, cut, uRecvd, dSent, dWritten>>
        /\ ~backlog /\ uRecvd # <<>>
    BY <1>13 DEF Closes, up, down, Replied
  <2>2. Len(todo) = 0 /\ Len(dSent) \in Nat
    BY <2>1, ReceivedIsSent
  <2>3. Replied'
    BY <2>1 DEF Replied, Wanted
  <2>4. Finished'
    BY <2>1, <2>2 DEF Finished, requester, Wanted, Down!End, Down!EndOf
  <2> QED
    BY <2>3, <2>4
<1>14. CASE ServerDies \/ ServerSpins \/ ServerReset \/ ServerRestarts
  <2>1. /\ UNCHANGED <<requester, backlog, uRecvd, dSent>> /\ ~backlog
        /\ (cut' = cut \/ cut' = TRUE)
        /\ s' \in {"killed", "hung", "accept"}
        /\ s' \in {"killed", "hung"} => cut'
        /\ s' = "accept" => c \in {"dead", "idle"}
    BY <1>14 DEF ServerDies, ServerSpins, ServerReset, ServerRestarts, up, down, Replied,
                 Finished
  <2>2. Replied'
    BY <2>1 DEF Replied, Wanted
  <2>3. Finished'
    BY <2>1 DEF Finished, requester
  <2> QED
    BY <2>2, <2>3
<1>15. CASE RequesterSpins
  <2>1. cut /\ UNCHANGED <<server, cut, uRecvd, dSent>>
    BY <1>15, NobodySpinsUncut DEF RequesterSpins, up, down
  <2> QED
    BY <2>1, SameAnswers DEF Finished
<1> QED
  BY <1>1, <1>2, <1>3, <1>4, <1>5, <1>6, <1>7, <1>8, <1>9, <1>10, <1>11, <1>12, <1>13,
     <1>14, <1>15 DEF Next, RequesterStep, ServerStep, Fault

LEMMA SuccessStep ==
    ASSUME Streams, TypeOK, Replied, SuccessIsTheAnswer, [Next]_vars
    PROVE  SuccessIsTheAnswer'
<1>1. CASE UNCHANGED requester
  BY <1>1 DEF requester, SuccessIsTheAnswer
<1>2. ASSUME NEW q \in Request, Connect(q) \/ Refused(q) PROVE SuccessIsTheAnswer'
  BY <1>2 DEF Connect, Refused, SuccessIsTheAnswer
<1>3. CASE Returns
  <2>1. /\ c = "wait" /\ Complete /\ answer' = dRecvd /\ asked' = asked
        /\ ToSet(dRecvd) \cap Error # {} => status' = -1
    BY <1>3 DEF Returns
  <2>2. dRecvd = Answers[asked]
    BY <2>1, CompleteIsWanted
  <2> QED
    BY <2>1, <2>2 DEF SuccessIsTheAnswer
<1>4. CASE RequestSent \/ RequesterDies \/ RequesterSpins \/ RequesterReset
  <2>1. c' # "idle" \/ ~ (status' > 0)
    BY <1>4 DEF RequestSent, RequesterDies, RequesterSpins, RequesterReset
  <2> QED
    BY <2>1 DEF SuccessIsTheAnswer
<1> QED
  BY <1>1, <1>2, <1>3, <1>4 DEF Next, vars, RequesterStep, ServerStep, Fault,
     SendRequest, WriteRequest, ReadAnswer, Accept, ReadRequest, Handle, SendAnswer,
     WriteAnswer, Closes, ServerDies, ServerSpins, ServerReset, ServerRestarts

LEMMA InvariantHolds == Spec => [](Streams /\ IInv)
<1>1. Streams /\ Streams' /\ IInv /\ [Next]_vars => IInv'
  BY TypesStep, AnswersStep, SuccessStep DEF IInv
<1> QED
  BY <1>1, InitHasIInv, BothAreStreams, PTL DEF Spec

\* Every variable keeps its type: in particular, no message arrives torn that
\* a handler then answers.
THEOREM TypeCorrect == Spec => []TypeOK
<1>1. IInv => TypeOK
  BY DEF IInv
<1> QED
  BY <1>1, InvariantHolds, PTL

\* A request whose status is no error returned exactly the answers of its own
\* request, whichever process died and however the bytes were split.
THEOREM SuccessReturnsTheAnswer == Spec => []SuccessIsTheAnswer
<1>1. IInv => SuccessIsTheAnswer
  BY DEF IInv
<1> QED
  BY <1>1, InvariantHolds, PTL

\* A process spins in read_full only when the other one has died, or was a
\* handler that sent nothing.
THEOREM OnlyFaultsHang == Spec => []HungMeansCut
<1>1. IInv => HungMeansCut
  BY DEF IInv, Finished, HungMeansCut
<1> QED
  BY <1>1, InvariantHolds, PTL
=============================================================================
