---------------------------- MODULE StreamProofs ----------------------------
(***************************************************************************)
(* Theorems about Stream: for any messages, any sizes and any split of the *)
(* bytes by read and write, one direction of a connection delivers         *)
(* messages whole and in order.                                            *)
(***************************************************************************)
EXTENDS Stream, SequenceTheorems, TLAPS

\* Where the message behind the first n begins.
Begin(n) == IF n = 0 THEN 0 ELSE EndOf(n)

LEMMA EndsAreNat ==
    ASSUME TypeOK
    PROVE  /\ \A i \in 1 .. Len(sent) : /\ EndOf(i) \in Nat
                                        /\ sent[i].at \in Nat
                                        /\ Size[sent[i].msg] \in Nat
                                        /\ sent[i].msg \in Msg
                                        /\ sent[i].at < EndOf(i)
           /\ End \in Nat
           /\ \A n \in 0 .. Len(sent) : Begin(n) \in Nat
<1>1. \A i \in 1 .. Len(sent) : /\ EndOf(i) \in Nat
                                /\ sent[i].at \in Nat
                                /\ Size[sent[i].msg] \in Nat
                                /\ sent[i].msg \in Msg
                                /\ sent[i].at < EndOf(i)
  <2> SUFFICES ASSUME NEW i \in 1 .. Len(sent)
               PROVE  /\ EndOf(i) \in Nat /\ sent[i].at \in Nat
                      /\ Size[sent[i].msg] \in Nat /\ sent[i].msg \in Msg
                      /\ sent[i].at < EndOf(i)
    OBVIOUS
  <2>1. sent[i] \in [msg : Msg, at : Nat]
    BY ElementOfSeq DEF TypeOK
  <2>2. sent[i].msg \in Msg /\ sent[i].at \in Nat
    BY <2>1
  <2>3. Size[sent[i].msg] \in Nat /\ Header \in Nat /\ Header > 0
    BY <2>2, MessageAssumption
  <2> QED BY <2>2, <2>3 DEF EndOf
<1>2. Len(sent) \in Nat /\ (sent # <<>> => Len(sent) \in 1 .. Len(sent))
  BY DEF TypeOK
<1>3. End \in Nat
  BY <1>1, <1>2 DEF End
<1> QED BY <1>1, <1>2, <1>3 DEF Begin

\* Every variable keeps to its type.
LEMMA TypeInvariant == Spec => []TypeOK
<1>1. Init => TypeOK
  BY MessageAssumption DEF Init, TypeOK
<1>2. TypeOK /\ [Next]_vars => TypeOK'
  <2> SUFFICES ASSUME TypeOK, [Next]_vars PROVE TypeOK'
    OBVIOUS
  <2> USE MessageAssumption DEF TypeOK
  <2>1. CASE Open
    BY <2>1 DEF Open
  <2>2. ASSUME NEW m \in Msg, Send(m) PROVE TypeOK'
    <3>1. End \in Nat
      BY EndsAreNat
    <3>2. [msg |-> m, at |-> End] \in [msg : Msg, at : Nat]
      BY <3>1
    <3> QED BY <2>2, <3>2 DEF Send
  <2>3. ASSUME NEW n \in Nat, Write(n) PROVE TypeOK'
    BY <2>3 DEF Write
  <2>4. ASSUME NEW n \in Nat, Read(n) PROVE TypeOK'
    BY <2>4 DEF Read
  <2>5. CASE RecvHeader
    <3>1. Announced(read) \subseteq Nat
      <4>1. \A i \in DOMAIN sent : Size[sent[i].msg] \in Nat
        BY EndsAreNat, LenProperties
      <4>2. \A m \in Msg : Size[m] \in Nat
        OBVIOUS
      <4> QED BY <4>1, <4>2 DEF Announced
    <3> QED BY <2>5, <3>1 DEF RecvHeader
  <2>6. CASE RecvBody
    <3>1. Received(read) \subseteq Msg \cup {Torn}
      <4>1. \A i \in DOMAIN sent : sent[i].msg \in Msg
        BY EndsAreNat, LenProperties
      <4> QED BY <4>1 DEF Received
    <3> QED BY <2>6, <3>1 DEF RecvBody
  <2>7. CASE UNCHANGED vars
    BY <2>7 DEF vars
  <2> QED BY <2>1, <2>2, <2>3, <2>4, <2>5, <2>6, <2>7 DEF Next
<1> QED BY <1>1, <1>2, PTL DEF Spec

-----------------------------------------------------------------------------
\* Messages lie end to end in the stream.
Framed ==
    \A i \in 1 .. Len(sent) :
        sent[i].at = IF i = 1 THEN 0 ELSE EndOf(i - 1)

Ordered ==
    \A i, j \in 1 .. Len(sent) : i < j => EndOf(i) <= sent[j].at

\* Nothing is read that was not written, or delivered that was not sent.
Bounded == read <= written /\ written <= End /\ Len(recvd) <= Len(sent)

Delivered == \A i \in 1 .. Len(recvd) : recvd[i] = sent[i].msg

\* How far the receiver is inside its next message.
Position ==
    \/ /\ part = "header"
       /\ toRead <= Header
       /\ read = Begin(Len(recvd)) + (Header - toRead)
    \/ /\ part = "body"
       /\ Len(recvd) < Len(sent)
       /\ size = Size[sent[Len(recvd) + 1].msg]
       /\ toRead <= size
       /\ read = Begin(Len(recvd)) + Header + (size - toRead)

Inv == TypeOK /\ Framed /\ Ordered /\ Bounded /\ Delivered /\ Position

LEMMA LastEnd ==
    ASSUME TypeOK PROVE Begin(Len(sent)) = End
  BY DEF Begin, End, TypeOK

\* The next message begins where the delivered ones end.
LEMMA NextBegins ==
    ASSUME Inv, NEW n \in Nat, n < Len(sent)
    PROVE  sent[n + 1].at = Begin(n)
<1>1. n + 1 \in 1 .. Len(sent)
  BY DEF Inv, TypeOK
<1> QED BY <1>1 DEF Inv, Framed, Begin

\* A complete header is that of the next message.
LEMMA HeaderIsNext ==
    ASSUME Inv, part = "header", toRead = 0
    PROVE  /\ Len(recvd) < Len(sent)
           /\ Announced(read) = {Size[sent[Len(recvd) + 1].msg]}
<1> DEFINE n == Len(recvd)
<1>1. n \in Nat /\ Len(sent) \in Nat /\ Header \in Nat \ {0} /\ n <= Len(sent)
  BY MessageAssumption DEF Inv, TypeOK, Bounded
<1>2. read = Begin(n) + Header
  BY <1>1, EndsAreNat DEF Inv, Position
<1>3. n < Len(sent)
  <2>1. read <= End /\ Begin(Len(sent)) = End /\ End \in Nat
    BY LastEnd, EndsAreNat DEF Inv, Bounded, TypeOK
  <2>2. n # Len(sent)
    BY <1>1, <1>2, <2>1
  <2> QED BY <1>1, <2>2
<1>4. sent[n + 1].at = Begin(n) /\ n + 1 \in 1 .. Len(sent)
  BY <1>1, <1>3, NextBegins
<1>5. \A i \in 1 .. Len(sent) : sent[i].at + Header = read => i = n + 1
  <2> SUFFICES ASSUME NEW i \in 1 .. Len(sent), sent[i].at + Header = read,
                      i # n + 1
               PROVE  FALSE
    OBVIOUS
  <2>0. /\ sent[i].at \in Nat /\ sent[i].at < EndOf(i) /\ EndOf(i) \in Nat
        /\ sent[n + 1].at \in Nat
        /\ sent[n + 1].at < EndOf(n + 1) /\ EndOf(n + 1) \in Nat
    <3>1. TypeOK
      BY DEF Inv
    <3> QED BY <1>4, <3>1, EndsAreNat
  <2>1. sent[i].at = sent[n + 1].at
    <3>1. sent[i].at + Header = sent[n + 1].at + Header
      BY <1>2, <1>4
    <3> HIDE DEF n
    <3> QED BY <1>1, <2>0, <3>1
  <2>2. i < n + 1 \/ n + 1 < i
    BY <1>1
  <2>3. EndOf(i) <= sent[n + 1].at \/ EndOf(n + 1) <= sent[i].at
    BY <2>2, <1>4 DEF Inv, Ordered
  <2> HIDE DEF n
  <2> QED BY <2>0, <2>1, <2>3
<1>6. DOMAIN sent = 1 .. Len(sent)
  BY DEF Inv, TypeOK
<1>7. {i \in DOMAIN sent : sent[i].at + Header = read} = {n + 1}
  BY <1>2, <1>4, <1>5, <1>6
<1> QED BY <1>3, <1>7 DEF Announced

\* A complete body is that of the next message.
LEMMA BodyIsNext ==
    ASSUME Inv, part = "body", toRead = 0
    PROVE  /\ Len(recvd) < Len(sent)
           /\ Received(read) = {sent[Len(recvd) + 1].msg}
           /\ read = EndOf(Len(recvd) + 1)
<1> DEFINE n == Len(recvd)
<1>1. n \in Nat /\ Len(sent) \in Nat /\ Header \in Nat \ {0} /\ n < Len(sent)
  BY MessageAssumption DEF Inv, TypeOK, Position
<1>2. sent[n + 1].at = Begin(n) /\ n + 1 \in 1 .. Len(sent)
  BY <1>1, NextBegins
<1>3. /\ size = Size[sent[n + 1].msg] /\ size \in Nat
      /\ Begin(n) \in Nat
      /\ read = Begin(n) + Header + size
  BY <1>1, EndsAreNat DEF Inv, Position, TypeOK
<1>4. read = EndOf(n + 1)
  BY <1>2, <1>3 DEF EndOf
<1>5. \A i \in 1 .. Len(sent) : EndOf(i) = read => i = n + 1
  <2> SUFFICES ASSUME NEW i \in 1 .. Len(sent), EndOf(i) = read, i # n + 1
               PROVE  FALSE
    OBVIOUS
  <2>1. EndOf(i) = EndOf(n + 1) /\ sent[i].at \in Nat
        /\ sent[i].at < EndOf(i) /\ EndOf(i) \in Nat
        /\ sent[n + 1].at < EndOf(n + 1) /\ sent[n + 1].at \in Nat
    BY <1>2, <1>4, EndsAreNat DEF Inv
  <2>2. i < n + 1 \/ n + 1 < i
    BY <1>1
  <2>3. EndOf(i) <= sent[n + 1].at \/ EndOf(n + 1) <= sent[i].at
    BY <2>2, <1>2 DEF Inv, Ordered
  <2> QED BY <2>1, <2>3
<1>6. DOMAIN sent = 1 .. Len(sent)
  BY DEF Inv, TypeOK
<1>7. {i \in DOMAIN sent : EndOf(i) = read /\ Size[sent[i].msg] = size}
        = {n + 1}
  BY <1>2, <1>3, <1>4, <1>5, <1>6
<1> QED BY <1>1, <1>4, <1>7 DEF Received

\* A receiver that waits for bytes when all that was sent is read has every
\* message.
LEMMA AllRead ==
    ASSUME Inv, read = End, toRead > 0
    PROVE  Len(recvd) = Len(sent)
<1> DEFINE n == Len(recvd)
<1>1. n \in Nat /\ Len(sent) \in Nat /\ n <= Len(sent) /\ Header \in Nat \ {0}
  BY MessageAssumption DEF Inv, TypeOK, Bounded
<1>2. TypeOK /\ toRead \in Nat /\ size \in Nat
  BY DEF Inv, TypeOK
<1>3. SUFFICES ASSUME n < Len(sent) PROVE FALSE
  BY <1>1
<1>4. sent[n + 1].at = Begin(n) /\ n + 1 \in 1 .. Len(sent)
  BY <1>1, <1>3, NextBegins
<1>5. Begin(n) \in Nat /\ Size[sent[n + 1].msg] \in Nat
  BY <1>1, <1>2, <1>4, EndsAreNat
<1>6. EndOf(n + 1) = Begin(n) + Header + Size[sent[n + 1].msg]
  BY <1>4 DEF EndOf
<1>7. read < EndOf(n + 1)
  <2>1. CASE part = "header"
    <3>1. toRead <= Header /\ read = Begin(n) + (Header - toRead)
      BY <2>1 DEF Inv, Position
    <3> HIDE DEF n
    <3> QED BY <1>1, <1>2, <1>5, <1>6, <3>1
  <2>2. CASE part = "body"
    <3>1. /\ size = Size[sent[n + 1].msg] /\ toRead <= size
          /\ read = Begin(n) + Header + (size - toRead)
      BY <2>2 DEF Inv, Position
    <3> HIDE DEF n
    <3> QED BY <1>1, <1>2, <1>5, <1>6, <3>1
  <2> QED BY <1>2, <2>1, <2>2 DEF TypeOK
<1>8. EndOf(n + 1) <= End
  <2>1. End = EndOf(Len(sent))
    BY <1>1, <1>3 DEF End
  <2>2. CASE n + 1 = Len(sent)
    <3>1. End \in Nat
      BY <1>2, EndsAreNat
    <3> QED BY <2>1, <2>2, <3>1
  <2>3. CASE n + 1 < Len(sent)
    <3>1. Len(sent) \in 1 .. Len(sent)
      BY <1>1, <1>3
    <3>2. EndOf(n + 1) <= sent[Len(sent)].at
      BY <1>4, <2>3, <3>1 DEF Inv, Ordered
    <3>3. /\ sent[Len(sent)].at < EndOf(Len(sent)) /\ sent[Len(sent)].at \in Nat
          /\ EndOf(Len(sent)) \in Nat /\ EndOf(n + 1) \in Nat
      BY <1>2, <1>4, <3>1, EndsAreNat
    <3> HIDE DEF n
    <3> QED BY <2>1, <3>2, <3>3
  <2> QED BY <1>1, <1>4, <2>2, <2>3
<1>9. EndOf(n + 1) \in Nat /\ End \in Nat
  BY <1>2, <1>4, EndsAreNat
<1> HIDE DEF n
<1> QED BY <1>7, <1>8, <1>9

-----------------------------------------------------------------------------
\* What does not touch the messages sent leaves their places alone.
LEMMA SameFrames ==
    ASSUME UNCHANGED sent
    PROVE  /\ Framed = Framed' /\ Ordered = Ordered' /\ End = End'
           /\ \A n \in Nat : Begin(n) = Begin(n)'
  BY DEF Framed, Ordered, End, Begin, EndOf

LEMMA SendKeepsInv ==
    ASSUME Inv, TypeOK', NEW m \in Msg, Send(m)
    PROVE  Inv'
<1>0. PICK k \in Nat : k = Len(sent)
  BY DEF Inv, TypeOK
<1>1. /\ k \in Nat /\ Len(sent') = k + 1
      /\ sent'[k + 1] = [msg |-> m, at |-> End]
      /\ \A i \in 1 .. k : sent'[i] = sent[i]
      /\ Header \in Nat \ {0} /\ Size[m] \in Nat
  BY <1>0, MessageAssumption DEF Inv, TypeOK, Send
<1>2. /\ \A i \in 1 .. k : EndOf(i)' = EndOf(i) /\ sent'[i].at = sent[i].at
      /\ sent'[k + 1].at = End
      /\ EndOf(k + 1)' = End + Header + Size[m]
  <2>1. \A i \in 1 .. k : EndOf(i)' = EndOf(i) /\ sent'[i].at = sent[i].at
    BY <1>0, <1>1 DEF EndOf
  <2>2. sent'[k + 1].at = End /\ sent'[k + 1].msg = m
    BY <1>0, <1>1
  <2>3. EndOf(k + 1)' = sent'[k + 1].at + Header + Size[sent'[k + 1].msg]
    BY DEF EndOf
  <2> QED BY <2>1, <2>2, <2>3
<1>3. End \in Nat /\ End' = End + Header + Size[m]
  <2>1. sent' # <<>>
    BY <1>0, <1>1 DEF TypeOK
  <2>2. End' = EndOf(k + 1)'
    BY <1>0, <1>1, <2>1 DEF End
  <2> QED BY <1>2, <2>2, EndsAreNat DEF Inv
<1>4. \A n \in 0 .. k : Begin(n)' = Begin(n) /\ Begin(n) \in Nat
  BY <1>0, <1>1, <1>2, EndsAreNat DEF Begin, Inv
<1>5. Begin(k) = End
  BY <1>0, LastEnd DEF Inv
<1>6. Framed'
  <2> SUFFICES ASSUME NEW i \in 1 .. k + 1
               PROVE  sent'[i].at = IF i = 1 THEN 0 ELSE EndOf(i - 1)'
    BY <1>0, <1>1 DEF Framed
  <2>1. CASE i \in 1 .. k
    <3>1. i # 1 => i - 1 \in 1 .. k
      BY <2>1, <1>0, <1>1
    <3>2. sent[i].at = IF i = 1 THEN 0 ELSE EndOf(i - 1)
      BY <1>0, <2>1 DEF Inv, Framed
    <3> QED BY <2>1, <1>2, <3>1, <3>2
  <2>2. CASE i = k + 1 /\ k # 0
    BY <2>2, <1>0, <1>1, <1>2, <1>5 DEF Begin
  <2>3. CASE i = k + 1 /\ k = 0
    BY <2>3, <1>0, <1>1, <1>2, <1>5 DEF Begin
  <2> QED BY <1>0, <1>1, <2>1, <2>2, <2>3
<1>7. Ordered'
  <2> SUFFICES ASSUME NEW i \in 1 .. k + 1, NEW j \in 1 .. k + 1, i < j
               PROVE  EndOf(i)' <= sent'[j].at
    BY <1>0, <1>1 DEF Ordered
  <2>0. i \in 1 .. k
    BY <1>0, <1>1
  <2>1. CASE j \in 1 .. k
    BY <2>0, <2>1, <1>0, <1>2 DEF Inv, Ordered
  <2>2. CASE j = k + 1
    <3>1. EndOf(k) = End
      BY <2>0, <1>0, <1>1, <1>5 DEF Begin
    <3>2. i < k => EndOf(i) <= sent[k].at /\ sent[k].at < EndOf(k)
                   /\ sent[k].at \in Nat /\ EndOf(k) \in Nat
      BY <2>0, <1>0, <1>1, EndsAreNat DEF Inv, Ordered
    <3>3. EndOf(i) <= End /\ EndOf(i) \in Nat
      <4>1. EndOf(i) \in Nat
        BY <1>0, <2>0, EndsAreNat DEF Inv
      <4>2. CASE i = k
        BY <4>1, <4>2, <3>1, <1>3
      <4>3. CASE i < k
        BY <4>1, <4>3, <3>1, <3>2, <1>3
      <4> QED BY <2>0, <1>0, <1>1, <4>1, <4>2, <4>3
    <3> QED BY <2>0, <2>2, <1>2, <3>3
  <2> QED BY <1>0, <1>1, <2>1, <2>2
<1>8. Bounded'
  <2>1. read' = read /\ written' = written /\ recvd' = recvd
    BY DEF Send
  <2>2. read <= written /\ written <= End /\ Len(recvd) <= k
    BY <1>0 DEF Inv, Bounded
  <2>3. Len(recvd) \in Nat /\ written \in Nat
    BY DEF Inv, TypeOK
  <2> QED BY <2>1, <2>2, <2>3, <1>0, <1>1, <1>3 DEF Bounded
<1>9. Delivered'
  <2>1. recvd' = recvd /\ Len(recvd) <= k /\ Len(recvd) \in Nat
    BY <1>0 DEF Send, Inv, Bounded, TypeOK
  <2>2. \A i \in 1 .. Len(recvd) : i \in 1 .. k /\ recvd[i] = sent[i].msg
    BY <2>1, <1>0, <1>1 DEF Inv, Delivered
  <2> QED BY <2>1, <2>2, <1>0, <1>1 DEF Delivered
<1>10. Position'
  <2>1. /\ part' = part /\ size' = size /\ toRead' = toRead /\ read' = read
        /\ recvd' = recvd
    BY DEF Send
  <2>2. Len(recvd) \in 0 .. k
    BY <1>0, <1>1 DEF Inv, Bounded, TypeOK
  <2>3. Begin(Len(recvd))' = Begin(Len(recvd))
    BY <2>1, <2>2, <1>4
  <2>4. Len(recvd) < k => sent'[Len(recvd) + 1].msg = sent[Len(recvd) + 1].msg
    BY <2>2, <1>0, <1>1
  <2>5. Position
    BY DEF Inv
  <2>6. CASE part = "header"
    BY <2>1, <2>3, <2>5, <2>6 DEF Position
  <2>7. CASE part = "body"
    BY <2>1, <2>2, <2>3, <2>4, <2>5, <2>7, <1>0, <1>1 DEF Position
  <2> QED BY <2>6, <2>7 DEF Inv, TypeOK
<1> QED BY <1>6, <1>7, <1>8, <1>9, <1>0, <1>10 DEF Inv

LEMMA MoveKeepsInv ==
    ASSUME Inv, TypeOK', NEW n \in Nat, Write(n) \/ Read(n)
    PROVE  Inv'
<1>1. UNCHANGED <<sent, part, size, recvd>> /\ Len(recvd) \in Nat
  BY DEF Write, Read, Inv, TypeOK
<1>2. Framed' /\ Ordered' /\ End' = End /\ Begin(Len(recvd))' = Begin(Len(recvd))
  BY <1>1, SameFrames DEF Inv
<1>3. Delivered'
  BY <1>1 DEF Inv, Delivered
<1>4. End \in Nat /\ Begin(Len(recvd)) \in Nat
  BY <1>1, EndsAreNat DEF Inv, Bounded, TypeOK
<1>5. CASE Write(n)
  <2>1. Bounded'
    BY <1>1, <1>2, <1>4, <1>5 DEF Write, Inv, Bounded, TypeOK
  <2>2. Position'
    <3>1. UNCHANGED <<part, size, toRead, read, recvd, sent>>
      BY <1>5 DEF Write
    <3>2. CASE part = "header"
      BY <1>2, <3>1, <3>2 DEF Inv, Position
    <3>3. CASE part = "body"
      BY <1>2, <3>1, <3>3 DEF Inv, Position
    <3> QED BY <3>2, <3>3 DEF Inv, TypeOK
  <2> QED BY <1>2, <1>3, <2>1, <2>2 DEF Inv
<1>6. CASE Read(n)
  <2>1. Bounded'
    BY <1>1, <1>2, <1>4, <1>6 DEF Read, Inv, Bounded, TypeOK
  <2>2. Position'
    <3>1. /\ read' = read + n /\ toRead' = toRead - n /\ n <= toRead
          /\ read \in Nat /\ toRead \in Nat /\ size \in Nat
      BY <1>6 DEF Read, Inv, TypeOK
    <3>2. UNCHANGED <<part, size, sent>> /\ Len(recvd') = Len(recvd)
      BY <1>1
    <3>3. Begin(Len(recvd))' = Begin(Len(recvd)) /\ Header \in Nat
      BY <1>2, MessageAssumption
    <3>4. CASE part = "header"
      BY <1>4, <3>1, <3>2, <3>3, <3>4 DEF Inv, Position
    <3>5. CASE part = "body"
      BY <1>1, <1>4, <3>1, <3>2, <3>3, <3>5 DEF Inv, Position
    <3> QED BY <3>4, <3>5 DEF Inv, TypeOK
  <2> QED BY <1>2, <1>3, <2>1, <2>2 DEF Inv
<1> QED BY <1>5, <1>6

LEMMA HeaderKeepsInv ==
    ASSUME Inv, TypeOK', RecvHeader
    PROVE  Inv'
<1>1. UNCHANGED <<sent, written, read, recvd>> /\ Len(recvd) \in Nat
  BY DEF RecvHeader, Inv, TypeOK
<1>2. Framed' /\ Ordered' /\ End' = End /\ Begin(Len(recvd))' = Begin(Len(recvd))
  BY <1>1, SameFrames DEF Inv
<1>3. Len(recvd) < Len(sent) /\ size' = Size[sent[Len(recvd) + 1].msg]
  BY HeaderIsNext DEF RecvHeader
<1>4. read = Begin(Len(recvd)) + Header /\ Begin(Len(recvd)) \in Nat
  BY <1>1, EndsAreNat, MessageAssumption
  DEF RecvHeader, Inv, Position, Bounded, TypeOK
<1>5. Position'
  <2>1. part' = "body" /\ toRead' = size' /\ size' \in Nat
    BY DEF RecvHeader, TypeOK
  <2> QED BY <1>1, <1>2, <1>3, <1>4, <2>1, MessageAssumption DEF Position
<1> QED BY <1>1, <1>2, <1>5 DEF Inv, Bounded, Delivered

LEMMA BodyKeepsInv ==
    ASSUME Inv, TypeOK', RecvBody
    PROVE  /\ Inv'
           /\ recvd' = Append(recvd, sent[Len(recvd) + 1].msg)
<1>0. PICK n \in Nat : n = Len(recvd)
  BY DEF Inv, TypeOK
<1>1. UNCHANGED <<sent, written, read>> /\ n \in Nat /\ Len(sent) \in Nat
  BY <1>0 DEF RecvBody, Inv, TypeOK
<1>2. Framed' /\ Ordered' /\ End' = End /\ Begin(n + 1)' = Begin(n + 1)
  <2>1. n + 1 \in Nat
    BY <1>0, <1>1
  <2>2. UNCHANGED sent
    BY <1>0, <1>1
  <2> QED BY <1>0, <2>1, <2>2, SameFrames DEF Inv
<1>3. n < Len(sent) /\ read = EndOf(n + 1)
      /\ recvd' = Append(recvd, sent[n + 1].msg)
  BY <1>0, BodyIsNext DEF RecvBody
<1>4. Len(recvd') = n + 1 /\ recvd'[n + 1] = sent[n + 1].msg
      /\ \A i \in 1 .. n : recvd'[i] = recvd[i]
  BY <1>0, <1>3, <1>1 DEF Inv, TypeOK
<1>5. Delivered'
  BY <1>0, <1>1, <1>4 DEF Inv, Delivered
<1>6. Bounded'
  BY <1>0, <1>1, <1>2, <1>3, <1>4 DEF Inv, Bounded
<1>7. Position'
  <2>1. part' = "header" /\ toRead' = Header
    BY DEF RecvBody
  <2>2. read' = Begin(n + 1) /\ Begin(n + 1) \in Nat
    BY <1>0, <1>1, <1>3, EndsAreNat DEF Begin, Inv
  <2> QED BY <1>0, <1>2, <1>4, <2>1, <2>2, MessageAssumption DEF Position
<1> QED BY <1>0, <1>2, <1>3, <1>5, <1>6, <1>7 DEF Inv

LEMMA OpenKeepsInv ==
    ASSUME TypeOK', Open PROVE Inv'
<1>1. sent' = <<>> /\ Len(sent') = 0 /\ recvd' = <<>> /\ Len(recvd') = 0
  BY DEF Open
<1>2. Framed' /\ Ordered' /\ Delivered'
  BY <1>1 DEF Framed, Ordered, Delivered
<1>3. Bounded'
  BY <1>1 DEF Open, Bounded, End
<1>4. Position'
  BY <1>1, MessageAssumption DEF Open, Position, Begin
<1> QED BY <1>2, <1>3, <1>4 DEF Inv

LEMMA InitHasInv == Init => Inv
<1> SUFFICES ASSUME Init PROVE Inv
  OBVIOUS
<1>0. TypeOK
  BY MessageAssumption DEF Init, TypeOK
<1>1. sent = <<>> /\ Len(sent) = 0 /\ recvd = <<>> /\ Len(recvd) = 0
  BY DEF Init
<1>2. Framed /\ Ordered /\ Delivered
  BY <1>1 DEF Framed, Ordered, Delivered
<1>3. Bounded
  BY <1>1 DEF Init, Bounded, End
<1>4. Position
  BY <1>1, MessageAssumption DEF Init, Position, Begin
<1> QED BY <1>0, <1>2, <1>3, <1>4 DEF Inv

\* Nothing is delivered that was not sent, and in no other order.
THEOREM StreamInvariant == Spec => []Inv
<1>1. TypeOK /\ TypeOK' /\ Inv /\ [Next]_vars => Inv'
  <2> SUFFICES ASSUME TypeOK', Inv, [Next]_vars PROVE Inv'
    OBVIOUS
  <2>1. CASE UNCHANGED vars
    BY <2>1, SameFrames
    DEF vars, Inv, TypeOK, Bounded, Delivered, Position, Begin, EndOf, Framed,
        Ordered, End
  <2>2. CASE RecvHeader
    BY <2>2, HeaderKeepsInv
  <2>3. CASE RecvBody
    BY <2>3, BodyKeepsInv
  <2> QED BY <2>1, <2>2, <2>3, OpenKeepsInv, SendKeepsInv, MoveKeepsInv DEF Next
<1> QED BY <1>1, InitHasInv, TypeInvariant, PTL DEF Spec

-----------------------------------------------------------------------------
LEMMA InitRefines == Init => Whole!Init
  BY DEF Init, Whole!Init, Undelivered

LEMMA SendRefines ==
    ASSUME Inv, NEW m \in Msg, Send(m) PROVE Whole!Sent(m)
<1> DEFINE n == Len(recvd)
<1>1. /\ n \in Nat /\ Len(sent) \in Nat /\ n <= Len(sent)
      /\ recvd' = recvd /\ Len(sent') = Len(sent) + 1
      /\ \A i \in 1 .. Len(sent) : sent'[i] = sent[i]
      /\ sent'[Len(sent) + 1].msg = m
  BY DEF Inv, TypeOK, Bounded, Send
<1>2. Undelivered \in Seq(Msg) /\ Len(Undelivered) = Len(sent) - n
  <2>1. ASSUME NEW i \in 1 .. Len(sent) - n PROVE sent[n + i].msg \in Msg
    <3>1. n + i \in 1 .. Len(sent)
      BY <1>1
    <3>2. \A j \in 1 .. Len(sent) : sent[j].msg \in Msg
      BY EndsAreNat DEF Inv
    <3> QED BY <3>1, <3>2
  <2>2. Undelivered \in [1 .. Len(sent) - n -> Msg] /\ Len(sent) - n \in Nat
    BY <1>1, <2>1 DEF Undelivered
  <2> QED BY <2>2
<1>3. Undelivered' = [i \in 1 .. (Len(sent) + 1) - n |-> sent'[n + i].msg]
  BY <1>1 DEF Undelivered
<1>4. Undelivered' = Append(Undelivered, m)
  <2>1. Append(Undelivered, m)
          = [i \in 1 .. (Len(sent) - n) + 1 |->
                IF i = (Len(sent) - n) + 1 THEN m ELSE Undelivered[i]]
    <3>1. /\ Append(Undelivered, m) \in Seq(Msg)
          /\ Len(Append(Undelivered, m)) = (Len(sent) - n) + 1
          /\ \A i \in 1 .. Len(sent) - n : Append(Undelivered, m)[i] = Undelivered[i]
          /\ Append(Undelivered, m)[(Len(sent) - n) + 1] = m
      BY <1>2, AppendProperties
    <3>2. Append(Undelivered, m) = [i \in 1 .. (Len(sent) - n) + 1 |->
                                        Append(Undelivered, m)[i]]
      BY <3>1, LenProperties
    <3>3. \A i \in 1 .. (Len(sent) - n) + 1 : Append(Undelivered, m)[i]
                = IF i = (Len(sent) - n) + 1 THEN m ELSE Undelivered[i]
      <4>0. Len(sent) - n \in Nat
        BY <1>1
      <4>1. PICK l \in Nat : l = Len(sent) - n
        BY <4>0
      <4>2. /\ \A i \in 1 .. l : Append(Undelivered, m)[i] = Undelivered[i]
            /\ Append(Undelivered, m)[l + 1] = m
        BY <3>1, <4>1
      <4>3. \A i \in 1 .. l + 1 : Append(Undelivered, m)[i]
                = IF i = l + 1 THEN m ELSE Undelivered[i]
        <5> SUFFICES ASSUME NEW i \in 1 .. l + 1
                     PROVE  Append(Undelivered, m)[i]
                                = IF i = l + 1 THEN m ELSE Undelivered[i]
          OBVIOUS
        <5>1. i # l + 1 => i \in 1 .. l
          OBVIOUS
        <5> QED BY <4>2, <5>1
      <4> QED BY <4>1, <4>3
    <3> QED BY <3>2, <3>3
  <2>2. \A i \in 1 .. (Len(sent) - n) + 1 :
            sent'[n + i].msg = IF i = (Len(sent) - n) + 1 THEN m
                               ELSE Undelivered[i]
    BY <1>1 DEF Undelivered
  <2>3. (Len(sent) + 1) - n = (Len(sent) - n) + 1
    BY <1>1
  <2> QED BY <1>3, <2>1, <2>2, <2>3
<1> QED BY <1>1, <1>4 DEF Whole!Sent

LEMMA BodyRefines ==
    ASSUME Inv, TypeOK', RecvBody PROVE Whole!Arrives
<1> DEFINE n == Len(recvd)
<1>1. /\ n \in Nat /\ Len(sent) \in Nat /\ n < Len(sent) /\ sent' = sent
      /\ recvd' = Append(recvd, sent[n + 1].msg) /\ Len(recvd') = n + 1
  BY BodyIsNext, BodyKeepsInv DEF Inv, TypeOK, RecvBody
<1>2. Undelivered \in Seq(Msg) /\ Len(Undelivered) = Len(sent) - n
  <2>1. ASSUME NEW i \in 1 .. Len(sent) - n PROVE sent[n + i].msg \in Msg
    <3>1. n + i \in 1 .. Len(sent)
      BY <1>1
    <3>2. \A j \in 1 .. Len(sent) : sent[j].msg \in Msg
      BY EndsAreNat DEF Inv
    <3> QED BY <3>1, <3>2
  <2>2. Undelivered \in [1 .. Len(sent) - n -> Msg] /\ Len(sent) - n \in Nat
    BY <1>1, <2>1 DEF Undelivered
  <2> QED BY <2>2
<1>3. Undelivered # <<>> /\ Head(Undelivered) = sent[n + 1].msg
  BY <1>1, <1>2 DEF Undelivered
<1>4. Undelivered' = [i \in 1 .. Len(sent) - (n + 1) |-> sent[(n + 1) + i].msg]
  BY <1>1 DEF Undelivered
<1>5. /\ Tail(Undelivered) \in Seq(Msg)
      /\ Len(Tail(Undelivered)) = (Len(sent) - n) - 1
      /\ \A i \in 1 .. (Len(sent) - n) - 1 :
            Tail(Undelivered)[i] = Undelivered[i + 1]
  BY <1>2, <1>3, HeadTailProperties
<1>6. Undelivered' = Tail(Undelivered)
  <2>1. (Len(sent) - n) - 1 = Len(sent) - (n + 1)
    BY <1>1
  <2>2. \A i \in 1 .. Len(sent) - (n + 1) :
            Undelivered[i + 1] = sent[(n + 1) + i].msg
    BY <1>1 DEF Undelivered
  <2>3. Tail(Undelivered) = [i \in 1 .. (Len(sent) - n) - 1 |->
                                Tail(Undelivered)[i]]
    BY <1>5, LenProperties
  <2> QED BY <1>4, <1>5, <2>1, <2>2, <2>3
<1> QED BY <1>1, <1>3, <1>6 DEF Whole!Arrives

\* However read and write split the bytes, one direction of a connection is a
\* channel of whole messages.
THEOREM StreamIsAChannel == Spec => ImplementsChannel
<1>1. Inv /\ TypeOK' /\ [Next]_vars => [Whole!Next]_(Whole!vars)
  <2> SUFFICES ASSUME Inv, TypeOK', [Next]_vars
               PROVE  [Whole!Next]_(Whole!vars)
    OBVIOUS
  <2>1. CASE Open
    <3>1. Undelivered' = <<>> /\ recvd' = <<>>
      BY <2>1 DEF Open, Undelivered
    <3> QED BY <3>1 DEF Whole!Next, Whole!Connected
  <2>2. ASSUME NEW m \in Msg, Send(m) PROVE Whole!Next
    BY <2>2, SendRefines DEF Whole!Next
  <2>3. ASSUME NEW n \in Nat, Write(n) \/ Read(n) PROVE UNCHANGED Whole!vars
    <3>1. UNCHANGED <<sent, recvd>>
      BY <2>3 DEF Write, Read
    <3> QED BY <3>1 DEF Whole!vars, Undelivered
  <2>4. CASE RecvHeader
    <3>1. UNCHANGED <<sent, recvd>>
      BY <2>4 DEF RecvHeader
    <3> QED BY <3>1 DEF Whole!vars, Undelivered
  <2>5. CASE RecvBody
    BY <2>5, BodyRefines DEF Whole!Next
  <2>6. CASE UNCHANGED vars
    BY <2>6 DEF vars, Whole!vars, Undelivered
  <2> QED BY <2>1, <2>2, <2>3, <2>4, <2>5, <2>6 DEF Next
<1> QED BY <1>1, StreamInvariant, TypeInvariant, InitRefines, PTL
        DEF Spec, ImplementsChannel, Whole!Spec
=============================================================================
