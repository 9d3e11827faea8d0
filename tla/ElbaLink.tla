------------------------------ MODULE ElbaLink ------------------------------
(***************************************************************************)
(* The connection to the monitoring station as its thread sees it          *)
(* (elba_main, elba_open, elba_close and elba_recv_message of              *)
(* APP/Src/elba_mgr.c): a stream of bytes that arrives in pieces of any    *)
(* size and has to be cut into the frames the station sent.                *)
(*                                                                         *)
(* A frame is cut by three of its bytes: it starts with '{', the byte at   *)
(* TypeAt tells its length and the one at KindAt whether elba_parsing is   *)
(* called.  What is left of a frame waits in bPrevBuf for the next read.   *)
(* elba_close clears bPrevBuf and forgets to clear nIndexPrev, the number  *)
(* of bytes that wait in it; `stale' remembers that a connection ended     *)
(* with such a remainder and the next one has not yet begun with an empty  *)
(* one.  What a frame does to the point table is in PointTable.            *)
(***************************************************************************)
EXTENDS Integers, Sequences

CONSTANTS Payloads,     \* bytes a point number or a value consists of, 0 .. 255
          MaxFrames     \* bound: frames the station sends on a connection

VARIABLES pc,           \* what the elba thread does next
          peer,         \* the station's end of the connection
          frames,       \* what the station has sent on this connection
          wire,         \* bytes of it that arrive and have not been read
          arrived,      \* history: the frames that have been read to their end
          buffer,       \* bRxBuf[nOffset .. nRecvByte - 1], while it is scanned
          reused,       \* bRxBuf holds bytes of an earlier read
          prev,         \* bPrevBuf[0 .. nIndexPrev - 1]
          handled,      \* the frames elba_parsing was called with; 0 is none
          timeRequest,  \* nTimeRequest = ELBA_TIME_REQUEST
          unanswered,   \* history: time frames handled, no time sent since
          stale         \* history: bytes of an earlier connection are about

connection == <<peer, frames>>
input == <<wire, arrived>>
vars == <<pc, connection, input, buffer, reused, prev, handled,
          timeRequest, unanswered, stale>>

Least(a, b) == IF a < b THEN a ELSE b

TypeAt == 5
KindAt == 8
PayloadAt == 12
Brace == 123                                    \* '{'
Other == 254                                    \* any byte nobody looks for
TypeByte == [request |-> 9, command |-> 13, time |-> 15]
KindByte == [request |-> 0, command |-> 64, time |-> 64]
Long == {TypeByte.command, TypeByte.time}
Handleable == {0, 64}
LengthOf(type) == IF type \in Long THEN 25 ELSE 21
\* elba_recv_message reads at most ELBA_BUF_SIZE / 6 bytes at a time.
ReadSize == 4096 \div 6

Frames == [kind : DOMAIN TypeByte, payload : Payloads]
Size(f) == LengthOf(TypeByte[f.kind])
\* Byte k of a frame; the payload is followed by the length and "TAIL}".
ByteAt(f, k) == CASE k = 0 -> Brace
                  [] k = TypeAt -> TypeByte[f.kind]
                  [] k = KindAt -> KindByte[f.kind]
                  [] k \in PayloadAt .. Size(f) - 7 -> f.payload
                  [] OTHER -> Other

\* A byte in a buffer is byte k of frame i, or a zero left by elba_close.
Zero == <<0, 0>>
Byte(b) == IF b = Zero THEN 0 ELSE ByteAt(frames[b[1]], b[2])
Bytes(i) == [k \in 1 .. Size(frames[i]) |-> <<i, k - 1>>]
\* The frames of which some bytes hold the last one.
Ended(bytes) == {b[1] : b \in {c \in {bytes[k] : k \in DOMAIN bytes} :
                                 c # Zero /\ c[2] = Size(frames[c[1]]) - 1}}

-----------------------------------------------------------------------------
\* The frame that is a piece of the buffer, or 0 if that is none of them.
FrameOf(piece) == IF \E i \in DOMAIN frames : piece = Bytes(i) THEN piece[1][1] ELSE 0

\* The remainder of the buffer the loop goes on with: it skips one byte, and
\* only one, if that is not a '{'.
Skip(b) == IF Byte(b[1]) = Brace THEN b ELSE Tail(b)
\* The byte that tells how long the frame is, if it is there yet.
TypeOf(b) == IF Len(b) > TypeAt THEN Byte(b[TypeAt + 1]) ELSE Other
\* Mutant: nIndex < nRecvByte.
WholeAndMore(b) == LengthOf(TypeOf(b)) < Len(b)
\* Is the frame in the buffer to its end?
Whole(b) == LengthOf(TypeOf(b)) <= Len(b)

-----------------------------------------------------------------------------
\* elba_init: nothing is connected and nothing waits in a buffer.
Init == /\ pc = "open"
        /\ peer = "closed"
        /\ frames = << >>
        /\ wire = << >>
        /\ arrived = {}
        /\ buffer = << >>
        /\ reused = FALSE
        /\ prev = << >>
        /\ handled = << >>
        /\ timeRequest = FALSE
        /\ unanswered = {}
        /\ stale = FALSE

\* elba_open succeeds: the station accepts.
Connect ==
    /\ pc = "open"
    /\ pc' = "send"
    /\ peer' = "up"
    /\ UNCHANGED <<frames, input, buffer, reused, prev, handled, timeRequest, unanswered, stale>>

\* What elba_close clears.
Forget ==
    /\ frames' = << >>
    /\ wire' = << >>
    /\ arrived' = {}
    /\ reused' = FALSE
    /\ prev' = [k \in DOMAIN prev |-> Zero]
    /\ handled' = << >>
    /\ unanswered' = {}
    /\ stale' = (prev # << >>)
\* elba_open fails, and elba_close is called all the same.
ConnectFails ==
    /\ pc = "open"
    /\ Forget
    /\ UNCHANGED <<pc, peer, buffer, timeRequest>>

\* elba_close: the buffers are cleared, nIndexPrev is not.
Close ==
    /\ pc = "close"
    /\ pc' = "open"
    /\ Forget
    /\ UNCHANGED <<peer, buffer, timeRequest>>

\* Send what there is, the time with it if `answered'.
TransmitWith(answered) ==
    /\ pc = "send"
    /\ pc' = "recv"
    /\ timeRequest' = FALSE
    /\ unanswered' = IF answered THEN {} ELSE unanswered
    /\ UNCHANGED <<connection, input, buffer, reused, prev, handled, stale>>
\* Mutant: the flag is taken back before it is looked at.
TransmitTooEarly == TransmitWith(FALSE)

(* elba_send_message, whose messages are PointTable's, and the answer to a *)
(* time request.  Nobody looks whether they could be sent.                 *)
Transmit == TransmitWith(timeRequest)

\* Mutant: what was kept is overwritten.
JoinedOverwrites(n) == SubSeq(wire, 1, n)
\* What was kept is put before what is read.
Joined(n) == prev \o SubSeq(wire, 1, n)

\* elba_recv_message reads n bytes.
Recv(n) ==
    /\ pc = "recv"
    /\ pc' = "scan"
    /\ wire' = SubSeq(wire, n + 1, Len(wire))
    /\ arrived' = arrived \cup Ended(SubSeq(wire, 1, n))
    /\ buffer' = Joined(n)
    /\ prev' = << >>
    /\ UNCHANGED <<connection, reused, handled, timeRequest, unanswered, stale>>

\* A time frame sets nTimeRequest, even a piece of one, and where the byte that
\* tells is not there yet a byte that an earlier, longer read left may.
NoteTime(b) ==
    \/ timeRequest' = (timeRequest \/ TypeOf(b) = TypeByte.time)
    \/ Len(b) <= TypeAt /\ reused /\ timeRequest' = TRUE

\* The loop over the buffer: elba_parsing is called with a frame of two kinds.
ScanFrame ==
    /\ pc = "scan"
    /\ LET b == Skip(buffer)
           n == LengthOf(TypeOf(b))
           calls == IF Byte(b[KindAt + 1]) \in Handleable
                    THEN <<FrameOf(SubSeq(b, 1, n))>> ELSE << >>
       IN /\ Whole(b)
          /\ NoteTime(b)
          /\ buffer' = SubSeq(b, n + 1, Len(b))
          /\ handled' = handled \o calls
          /\ unanswered' = unanswered \cup
                {i \in DOMAIN frames : calls = <<i>> /\ frames[i].kind = "time"}
    /\ pc' = IF buffer' = << >> THEN "send" ELSE "scan"
    /\ reused' = (reused \/ buffer' = << >>)
    /\ UNCHANGED <<connection, input, prev, stale>>

\* A piece of a frame is kept for the next read.
ScanPiece ==
    /\ pc = "scan"
    /\ LET b == Skip(buffer) IN ~Whole(b) /\ NoteTime(b) /\ prev' = b
    /\ pc' = "send"
    /\ buffer' = << >>
    /\ reused' = TRUE
    /\ UNCHANGED <<connection, input, handled, unanswered, stale>>

\* select times out.
RecvNothing ==
    /\ pc = "recv"
    /\ peer = "up"
    /\ wire = << >>
    /\ pc' = "send"
    /\ UNCHANGED <<connection, input, buffer, reused, prev, handled, timeRequest, unanswered, stale>>

\* read fails, which elba_main passes over, and finds the end the next time.
RecvError ==
    /\ pc = "recv"
    /\ peer = "reset"
    /\ wire = << >>
    /\ pc' = "send"
    /\ peer' = "closed"
    /\ UNCHANGED <<frames, input, buffer, reused, prev, handled, timeRequest, unanswered, stale>>

\* read returns 0: the end of the stream.
RecvEnd ==
    /\ pc = "recv"
    /\ peer = "closed"
    /\ wire = << >>
    /\ pc' = "close"
    /\ UNCHANGED <<connection, input, buffer, reused, prev, handled, timeRequest, unanswered, stale>>

-----------------------------------------------------------------------------
\* The station sends a request, a command or the time.
StationSends(f) ==
    /\ pc # "open"
    /\ peer = "up"
    /\ Len(frames) < MaxFrames
    /\ frames' = Append(frames, f)
    /\ wire' = wire \o [k \in 1 .. Size(f) |-> <<Len(frames'), k - 1>>]
    /\ UNCHANGED <<pc, peer, arrived, buffer, reused, prev, handled, timeRequest,
                   unanswered, stale>>

\* The connection is closed or breaks, perhaps in the middle of a frame, and
\* what has not been read still arrives or never does.
Lost ==
    /\ peer = "up"
    /\ peer' \in {"reset", "closed"}
    /\ wire' \in {wire, << >>}
    /\ UNCHANGED <<pc, frames, arrived, buffer, reused, prev, handled, timeRequest,
                   unanswered, stale>>

-----------------------------------------------------------------------------
ElbaThread == \/ Connect \/ ConnectFails \/ Close \/ Transmit
              \/ \E n \in 1 .. Least(ReadSize, Len(wire)) : Recv(n)
              \/ ScanFrame \/ ScanPiece \/ RecvNothing \/ RecvError \/ RecvEnd

Station == Lost \/ \E f \in Frames : StationSends(f)

Next == ElbaThread \/ Station

Spec == Init /\ [][Next]_vars

-----------------------------------------------------------------------------
\* The type of every variable.
TypeOK == /\ pc \in {"open", "send", "recv", "scan", "close"}
          /\ peer \in {"up", "reset", "closed"}
          /\ frames \in Seq(Frames)
          /\ arrived \subseteq 1 .. MaxFrames
          /\ reused \in BOOLEAN
          /\ {wire, buffer, prev} \subseteq Seq({Zero} \cup ((1 .. MaxFrames) \X (0 .. 24)))
          /\ handled \in Seq(0 .. MaxFrames)
          /\ timeRequest \in BOOLEAN
          /\ unanswered \subseteq 1 .. MaxFrames
          /\ stale \in BOOLEAN

\* Between two reads the frames handled are those that have arrived whole, each
\* once and in the order sent.
HandledArrived == /\ arrived = DOMAIN handled
                  /\ \A i \in arrived : handled[i] = i

(* However the stream is cut into reads, on a connection that begins with  *)
(* an empty buffer the frames that have arrived whole are handled once and *)
(* in order before the next read (the loop of elba_recv_message).          *)
FramesInOrder == ~stale /\ pc # "scan" => HandledArrived

(* What waits in bPrevBuf is less than a frame, whatever came before, so   *)
(* together with a read it fits in the receive buffer.                     *)
RestIsShort == Len(prev) < 25 /\ Len(prev) + ReadSize <= 4096

(* A time frame is answered before the next read, although the flag is set *)
(* by the byte that tells the kind and taken back by each answer.          *)
TimeAnswered == pc = "recv" => unanswered = {}

(* "If there is something in the previous buffer, the packet is made with  *)
(* it" (elba_mgr.c): so the frames of a connection are handled, whatever   *)
(* the connection before it left behind.                                   *)
PacketsMade == pc # "scan" => HandledArrived
=============================================================================
