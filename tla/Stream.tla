------------------------------- MODULE Stream -------------------------------
(***************************************************************************)
(* One direction of a TCP connection as src/lib/network.c uses it.  A      *)
(* message is a header of Header bytes that announces the size of the body *)
(* behind it.  Neither write nor read moves all bytes in one call: the     *)
(* bytes of the stream are numbered, written is how many the system has    *)
(* accepted and read how many the receiver has taken out.                  *)
(***************************************************************************)
EXTENDS Messages

VARIABLES
    sent,     \* messages given to send_req or send_res, and where they begin
    written,  \* bytes written to the socket
    read,     \* bytes read from it
    part,     \* whether recv_req or recv_res reads a header or a body
    size,     \* the size of that body
    toRead,   \* to_read of read_full
    piece,    \* what the last call of read returned
    recvd     \* messages returned by recv_req or recv_res

vars == <<sent, written, read, part, size, toRead, piece, recvd>>

\* Where message i begins and ends in the stream.
EndOf(i) == sent[i].at + Header + Size[sent[i].msg]
End == IF sent = <<>> THEN 0 ELSE EndOf(Len(sent))

TypeOK ==
    /\ sent \in Seq([msg : Msg, at : Nat])
    /\ written \in Nat /\ read \in Nat
    /\ part \in {"header", "body"}
    /\ size \in Nat /\ toRead \in Nat /\ piece \in Nat
    /\ recvd \in Seq(Msg \cup {Torn})

Init ==
    /\ sent = <<>> /\ written = 0 /\ read = 0
    /\ part = "header" /\ size = 0 /\ toRead = Header /\ piece = 0
    /\ recvd = <<>>

\* A new connection.
Open ==
    /\ sent' = <<>> /\ written' = 0 /\ read' = 0
    /\ part' = "header" /\ size' = 0 /\ toRead' = Header /\ piece' = 0
    /\ recvd' = <<>>

\* send_req, send_res: header and body are copied into one buffer.
Send(m) ==
    /\ written = End
    /\ sent' = Append(sent, [msg |-> m, at |-> End])
    /\ UNCHANGED <<written, read, part, size, toRead, piece, recvd>>

\* Mistake: the same bytes are given to write again.
WriteRepeats(n) ==
    /\ n \in 1 .. End - written
    /\ written' = written + n + 1
    /\ UNCHANGED <<sent, read, part, size, toRead, piece, recvd>>

\* A call of write in write_full.
Write(n) ==
    /\ n \in 1 .. End - written
    /\ written' = written + n
    /\ UNCHANGED <<sent, read, part, size, toRead, piece, recvd>>

\* Mistake: read is given the size of the buffer, not what is missing.
ReadTooMuch(n) ==
    /\ n \in 1 .. written - read
    /\ toRead > 0
    /\ read' = read + n
    /\ toRead' = IF n > toRead THEN 0 ELSE toRead - n
    /\ piece' = n
    /\ UNCHANGED <<sent, written, part, size, recvd>>

\* Mistake: the loop ends once to_read is no longer positive, and it is signed.
ReadBeyond(n) ==
    /\ n \in 1 .. written - read
    /\ toRead > 0
    /\ read' = read + n
    /\ toRead' = toRead - n
    /\ piece' = n
    /\ UNCHANGED <<sent, written, part, size, recvd>>

\* A call of read in read_full.
Read(n) ==
    /\ n \in 1 .. written - read
    /\ n <= toRead
    /\ read' = read + n
    /\ toRead' = toRead - n
    /\ piece' = n
    /\ UNCHANGED <<sent, written, part, size, recvd>>

\* The sizes that the header which ends at byte p may announce: that of the
\* message that begins there, or any when it is no header.
Announced(p) ==
    LET at == {i \in DOMAIN sent : sent[i].at + Header = p}
    IN  IF at = {} THEN {Size[m] : m \in Msg} ELSE {Size[sent[i].msg] : i \in at}

\* The header is complete.
RecvHeader ==
    /\ part = "header" /\ toRead = 0
    /\ size' \in Announced(read)
    /\ toRead' = size'
    /\ part' = "body"
    /\ UNCHANGED <<sent, written, read, piece, recvd>>

\* The messages that a body which ends at byte p may belong to.
Received(p) ==
    LET at == {i \in DOMAIN sent : EndOf(i) = p /\ Size[sent[i].msg] = size}
    IN  IF at = {} THEN {Torn} ELSE {sent[i].msg : i \in at}

\* Mistake: one call of read is expected to return the whole body.
RecvBodyOnce ==
    /\ part = "body" /\ (toRead = 0 \/ toRead < size)
    /\ \E m \in Received(read) : recvd' = Append(recvd, m)
    /\ part' = "header" /\ size' = 0 /\ toRead' = Header
    /\ UNCHANGED <<sent, written, read, piece>>

\* The body is complete.
RecvBody ==
    /\ part = "body" /\ toRead = 0
    /\ \E m \in Received(read) : recvd' = Append(recvd, m)
    /\ part' = "header" /\ size' = 0 /\ toRead' = Header
    /\ UNCHANGED <<sent, written, read, piece>>

Next ==
    \/ Open
    \/ \E m \in Msg : Send(m)
    \/ \E n \in Nat : Write(n) \/ Read(n)
    \/ RecvHeader
    \/ RecvBody

Spec == Init /\ [][Next]_vars

-----------------------------------------------------------------------------
\* "read and write don't write all bytes in one call in all cases": however
\* they split the bytes, messages arrive whole and in order.
Undelivered ==
    [i \in 1 .. (Len(sent) - Len(recvd)) |-> sent[Len(recvd) + i].msg]
Whole == INSTANCE Channel WITH underway <- Undelivered, delivered <- recvd
ImplementsChannel == Whole!Spec
=============================================================================
