--------------------------------- MODULE Stub ---------------------------------
(***************************************************************************)
(* The debug stub of the interpreter, debugstub.c.  The machine calls it   *)
(* between any two instructions; it accepts a debugger, reads what has     *)
(* arrived, and answers each command with "+" and an empty reply.          *)
(***************************************************************************)
EXTENDS Wire

VARIABLES
  clientState,   \* "waiting" or "established"
  stubWire,      \* fd_client: the connection, 0 for none
  bufRecv,       \* what was read and is not decoded yet
  bufRetrans,    \* the last reply, until it is confirmed
  vm,            \* "running", "stuck" in the loop of the decoder, or "crashed"
  heard,         \* all that was read from this connection
  said,          \* all that was sent on it
  rough          \* whether a packet was ever cut in two, was none, or could not be answered

stubVars == <<clientState, stubWire, bufRecv, bufRetrans, vm, heard, said, rough>>

EmptyReply == <<DOLLAR, SHARP, 48, 48>>
Answer == <<PLUS>> \o EmptyReply

(* A packet at the beginning of b, with a sum in hexadecimal digits; its   *)
(* length, 0 when there is none.                                           *)
PacketLength(b) ==
  LET i == FindByte(b, SHARP)
  IN  IF b # <<>> /\ b[1] = DOLLAR /\ i # 0 /\ Len(b) >= i + 2 /\ IsHex(b[i + 1]) /\ IsHex(b[i + 2])
      THEN i + 2 ELSE 0
Valid(packet) ==
  LET n == Len(packet)
  IN  Checksum(SubSeq(packet, 2, n - 3)) = RawOf(packet[n - 1], packet[n])

(* Whether a stream consists of confirmations and packets.                 *)
RECURSIVE Whole(_)
Whole(b) ==
  CASE b = <<>> -> TRUE
    [] b # <<>> /\ b[1] \in {PLUS, MINUS} -> Whole(Tail(b))
    [] OTHER -> \E n \in {PacketLength(b)} : n # 0 /\ \A rest \in {ShiftOut(b, n)} : Whole(rest)

(* Whether a is a right answer to such a stream: "+" and a reply for each  *)
(* packet with a right sum, in order.  A "-" asks for the last reply again *)
(* as long as that is kept; it may come or not.                            *)
RECURSIVE Answers(_, _, _)
Answers(a, b, kept) ==
  CASE b = <<>> -> a = <<>>
    [] b # <<>> /\ b[1] = PLUS -> Answers(a, Tail(b), FALSE)
    [] b # <<>> /\ b[1] = MINUS ->
         \/ Answers(a, Tail(b), kept)
         \/ kept /\ IsPrefix(EmptyReply, a) /\ Answers(ShiftOut(a, Len(EmptyReply)), Tail(b), kept)
    [] OTHER ->
         \E n \in {PacketLength(b)} :
           IF Valid(SubSeq(b, 1, n))
           THEN IsPrefix(Answer, a) /\ Answers(ShiftOut(a, Len(Answer)), ShiftOut(b, n), TRUE)
           ELSE Answers(a, ShiftOut(b, n), kept)

-----------------------------------------------------------------------------
(* What follows a command, its "#" being at i: the "#" and two digits go.  *)
(* A slip takes one byte too few.                                          *)
AfterCommandShort(b, i) == ShiftOut(b, i + 1)
AfterCommand(b, i) == ShiftOut(b, i + 2)

Confirmed(d, b) == [d EXCEPT !.buf = b, !.retrans = <<>>]

(* debugstub_decode, from a record of the two buffers, what it has sent,   *)
(* and how many more times a send will succeed, to one that says in out    *)
(* how it ended.  It takes the "$" out before it looks for the rest, and   *)
(* no branch handles any other byte.                                       *)
RECURSIVE Decode(_)
Again(d) == Only({Decode(e) : e \in {d}})
Command(d, b, i) ==
  CASE i = 0 \/ Len(b) - i <= 1 -> [d EXCEPT !.buf = b, !.out = "done"]
    [] i # 0 /\ Len(b) - i > 1 /\ ~(IsHex(b[i + 1]) /\ IsHex(b[i + 2])) -> [d EXCEPT !.buf = b, !.out = "failed"]
    [] OTHER ->
         IF Checksum(SubSeq(b, 1, i - 1)) # RawOf(b[i + 1], b[i + 2])
         THEN Again([d EXCEPT !.buf = AfterCommand(b, i)])
         ELSE CASE d.sends = 0 -> [d EXCEPT !.buf = b, !.out = "failed"]
                [] d.sends = 1 -> [d EXCEPT !.buf = b, !.sent = Append(@, PLUS), !.retrans = EmptyReply, !.out = "failed"]
                [] OTHER -> Again([d EXCEPT !.buf = AfterCommand(b, i), !.sent = @ \o Answer,
                                            !.retrans = EmptyReply, !.sends = @ - 2])
Decode(d) ==
  LET After(b) ==
        CASE d.buf = <<>> -> [d EXCEPT !.out = "done"]
          [] d.buf # <<>> /\ d.buf[1] = PLUS  -> Again(Confirmed(d, b))
          [] d.buf # <<>> /\ d.buf[1] = MINUS -> Again([d EXCEPT !.buf = b])
          [] d.buf # <<>> /\ d.buf[1] = DOLLAR -> Only({Command(d, b, i) : i \in {FindByte(b, SHARP)}})
          [] OTHER -> [d EXCEPT !.out = "stuck"]
  IN  Only({After(b) : b \in {ShiftOut(d.buf, 1)}})

DecodeOf(buf, sends) == Again([buf |-> buf, retrans |-> bufRetrans, sent |-> <<>>, sends |-> sends, out |-> "none"])
Enough == 100       \* more sends than the bytes of a behaviour can ask for

StubInit ==
  /\ clientState = "waiting" /\ stubWire = 0
  /\ bufRecv = <<>> /\ bufRetrans = <<>> /\ vm = "running"
  /\ heard = <<>> /\ said = <<>> /\ rough = FALSE

(* debugstub_try_recv while it is waiting *)
Accept ==
  /\ vm = "running" /\ clientState = "waiting" /\ Queued # {}
  /\ \E w \in Queued :
       /\ \A v \in Queued : w <= v
       /\ stubWire' = w
       /\ wires' = [wires EXCEPT ![w].stub = "open"]
  /\ clientState' = "established"
  /\ heard' = <<>> /\ said' = <<>>
  /\ UNCHANGED <<bufRecv, bufRetrans, vm, rough>>

(* The decoder over what was read before and the piece; when it fails the  *)
(* connection is closed, and the buffer stays as it is.                    *)
Decoded(piece, sends, open) ==
  \E d \in {DecodeOf(bufRecv \o piece, sends)} :
  LET stays == open /\ d.out # "failed"
      gone == wires[stubWire].debugger # "open"
      wire == wires[stubWire]
  IN  /\ bufRecv' = d.buf /\ bufRetrans' = d.retrans
      /\ vm' = IF d.out = "stuck" THEN "stuck" ELSE vm
      /\ heard' = heard \o piece /\ said' = said \o d.sent
      /\ rough' = (rough \/ ~Whole(heard') \/ d.out = "failed")
      /\ clientState' = (IF stays THEN "established" ELSE "waiting")
      /\ stubWire' = (IF stays THEN stubWire ELSE 0)
      /\ wires' = [wires EXCEPT ![stubWire] =
           [wire EXCEPT !.up = ShiftOut(@, Len(piece)),
                        !.down = IF gone THEN <<>> ELSE @ \o d.sent,
                        !.debugger = IF gone /\ d.sent # <<>> THEN "aborted" ELSE @,
                        !.stub = IF stays THEN @ ELSE ClosedEnd(ShiftOut(wire.up, Len(piece)))]]

(* A send to a debugger that has closed may succeed or fail. *)
Read ==
  /\ vm = "running" /\ clientState = "established"
  /\ wires[stubWire].debugger # "aborted"
  /\ \E piece \in Pieces(wires[stubWire].up) :
       \E sends \in IF wires[stubWire].debugger = "open" THEN {Enough} ELSE {0, 1, Enough} :
         Decoded(piece, sends, TRUE)

(* After the end of the connection the decoder runs once more, without a   *)
(* connection to send on.                                                  *)
ReadEnd ==
  /\ vm = "running" /\ clientState = "established"
  /\ wires[stubWire].debugger = "closed" /\ wires[stubWire].up = <<>>
  /\ Decoded(<<>>, 0, FALSE)

(* After an error of recv the code appends as many bytes as -1 is as a     *)
(* size; the connections nobody has accepted end with the process.         *)
ReadError ==
  /\ vm = "running" /\ clientState = "established"
  /\ wires[stubWire].debugger = "aborted"
  /\ vm' = "crashed" /\ clientState' = "waiting" /\ stubWire' = 0
  /\ wires' = [w \in DOMAIN wires |->
       IF w = stubWire THEN [wires[w] EXCEPT !.up = <<>>, !.stub = "closed"]
       ELSE IF w \in Queued THEN [wires[w] EXCEPT !.stub = "aborted"] ELSE wires[w]]
  /\ UNCHANGED <<bufRecv, bufRetrans, heard, said, rough>>

StubNext == Accept \/ Read \/ ReadEnd \/ ReadError
=============================================================================
