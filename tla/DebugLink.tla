------------------------------- MODULE DebugLink -------------------------------
(***************************************************************************)
(* The link between the debugger and the interpreter.  Each of the two     *)
(* programs is also put opposite a peer that is not of this repository,    *)
(* since the protocol is a public one: a debugger that connects, sends     *)
(* packets and leaves when it likes, and a server that does the same.      *)
(***************************************************************************)
EXTENDS Stub, Session, FiniteSets

CONSTANTS
  Packets,      \* what another debugger sends, as sequences of bytes
  Replies,      \* what another server sends
  MaxSends      \* bound: packets of a foreign peer in a behaviour
ASSUME MaxSendsAssumption == MaxSends \in Nat

VARIABLES
  pair,         \* "own": xjdb and xjr, "debugger": another one and xjr, "server": xjdb and another one
  otherWire,    \* the connection of the foreign peer, 0 for none
  sends         \* how often it has sent

peerVars == <<pair, otherWire, sends>>
vars == <<wires, stubVars, sessionVars, peerVars>>

Init ==
  /\ wires = <<>> /\ StubInit /\ SessionInit
  /\ pair \in {"own", "debugger", "server"} /\ otherWire = 0 /\ sends = 0
  /\ pair # "own" => workMode = "repl"

-----------------------------------------------------------------------------
(* Another debugger *)
DebuggerConnects ==
  /\ otherWire = 0 /\ CanConnect /\ vm # "crashed"
  /\ wires' = Append(wires, NewWire) /\ otherWire' = Len(wires) + 1
  /\ UNCHANGED sends
DebuggerSends ==
  /\ otherWire # 0 /\ sends < MaxSends /\ wires[otherWire].stub \in {"queued", "open"}
  /\ \E p \in Packets : wires' = [wires EXCEPT ![otherWire].up = @ \o p]
  /\ sends' = sends + 1
  /\ UNCHANGED otherWire
DebuggerReads ==
  /\ otherWire # 0 /\ wires[otherWire].down # <<>>
  /\ wires' = [wires EXCEPT ![otherWire].down = <<>>]
  /\ UNCHANGED <<otherWire, sends>>
DebuggerLeaves ==
  /\ otherWire # 0
  /\ wires' = [wires EXCEPT ![otherWire].debugger = IF @ = "open" THEN ClosedEnd(wires[otherWire].down) ELSE @,
                            ![otherWire].down = <<>>]
  /\ otherWire' = 0
  /\ UNCHANGED sends
DebuggerNext == DebuggerConnects \/ DebuggerSends \/ DebuggerReads \/ DebuggerLeaves

(* Another server; it takes one connection at a time. *)
ServerAccepts ==
  /\ otherWire = 0
  /\ \E w \in Queued : wires' = [wires EXCEPT ![w].stub = "open"] /\ otherWire' = w
  /\ UNCHANGED sends
ServerSends ==
  /\ otherWire # 0 /\ sends < MaxSends
  /\ \E r \in Replies : wires' = [wires EXCEPT ![otherWire].down = IF wires[otherWire].debugger = "open" THEN @ \o r ELSE @]
  /\ sends' = sends + 1
  /\ UNCHANGED otherWire
ServerReads ==
  /\ otherWire # 0 /\ wires[otherWire].up # <<>>
  /\ wires' = [wires EXCEPT ![otherWire].up = <<>>]
  /\ UNCHANGED <<otherWire, sends>>
ServerLeaves ==
  /\ otherWire # 0
  /\ wires' = [wires EXCEPT ![otherWire].stub = ClosedEnd(wires[otherWire].up), ![otherWire].up = <<>>]
  /\ otherWire' = 0
  /\ UNCHANGED sends
ServerNext == ServerAccepts \/ ServerSends \/ ServerReads \/ ServerLeaves

-----------------------------------------------------------------------------
ThreadStep == pair # "debugger" /\ ThreadNext(vm # "crashed") /\ UNCHANGED <<stubVars, peerVars>>
MainStep == pair # "debugger" /\ MainNext /\ UNCHANGED <<stubVars, peerVars>>
StubStep == pair # "server" /\ StubNext /\ UNCHANGED <<sessionVars, peerVars>>
DebuggerStep == pair = "debugger" /\ DebuggerNext /\ UNCHANGED <<stubVars, sessionVars, pair>>
ServerStep == pair = "server" /\ ServerNext /\ UNCHANGED <<stubVars, sessionVars, pair>>

Next == ThreadStep \/ MainStep \/ StubStep \/ DebuggerStep \/ ServerStep

(* Both threads of the debugger are run, and the machine goes on between   *)
(* two instructions.  A connection to a process that listens is made in    *)
(* the end.  Nobody has to type, to send or to leave.                      *)
Connects == pair # "debugger" /\ Connect(vm # "crashed") /\ UNCHANGED <<stubVars, peerVars>>
MainProceeds == main # "prompt" /\ MainStep
Spec ==
  /\ Init /\ [][Next]_vars
  /\ WF_vars(ThreadStep) /\ WF_vars(MainProceeds) /\ WF_vars(StubStep)
  /\ SF_vars(Connects)

-----------------------------------------------------------------------------
(* The state of both ends has the types that the code declares. *)
TypeOK ==
  /\ \A w \in DOMAIN wires :
       /\ wires[w].up \in Seq(Byte) /\ wires[w].down \in Seq(Byte)
       /\ wires[w].debugger \in {"open", "closed", "aborted"}
       /\ wires[w].stub \in {"queued", "open", "closed", "aborted"}
  /\ clientState \in {"waiting", "established"} /\ stubWire \in 0..MaxWires
  /\ bufRecv \in Seq(Byte) /\ bufRetrans \in {<<>>, EmptyReply}
  /\ vm \in {"running", "stuck", "crashed"} /\ rough \in BOOLEAN
  /\ state \in {"idle", "connected"} /\ connType \in {"none", "tcp"} /\ fd \in {Number, Closed}
  /\ recvBuf \in Seq(Byte) /\ descriptor \in 0..MaxWires /\ typed \in 0..MaxLines /\ decoded \in Nat
  /\ why \in {"none", "quit", "input", "send"}

(* As long as each read has got whole packets, however many, the machine   *)
(* runs on with an empty buffer and has answered each packet with a right  *)
(* sum once, in order, and nothing else; also on the next connection.      *)
(* debugstub_decode needs this much luck: it takes "$" before it looks.    *)
(* A "-" ("Request retransmission") is answered by the kept reply or, as   *)
(* the code has it, by nothing.                                            *)
WholePacketsAnswered ==
  ~rough /\ vm # "crashed" => vm = "running" /\ bufRecv = <<>> /\ Answers(said, heard, TRUE)

(* The reply that is kept is the one to the last packet, unless a "+" has  *)
(* come since; a "-" leaves it there.                                      *)
KeptUntilConfirmed ==
  ~rough /\ bufRetrans # <<>> /\ said # <<>> => heard[Len(heard)] # PLUS

(* A packet that begins at i: the next "#", two digits, the right sum. *)
PacketAt(b, i) ==
  LET rest == ShiftOut(b, i - 1)
      n == PacketLength(rest)
  IN  n # 0 /\ Valid(SubSeq(rest, 1, n))

(* Also when packets are cut, broken off or none, and when sends fail, not *)
(* more is answered than has come whole and right on this connection: the  *)
(* rest of a packet that stays in the buffer is never taken for one.       *)
NothingElseAnswered ==
  Cardinality({i \in DOMAIN said : said[i] = DOLLAR}) <=
    Cardinality({i \in DOMAIN heard : heard[i] = MINUS \/ PacketAt(heard, i)})


(* However the bytes of a connection were cut into reads and whatever is   *)
(* between them, the debugger has decoded each complete packet with a      *)
(* right sum exactly once, and no other; nothing of an earlier connection  *)
(* is left (the loop of xjdb_session_loop over recv_buf).                  *)
DecodedExact ==
  thread \in {"top", "connect", "poll"} /\ state = "connected" =>
    decoded = Cardinality({i \in DOMAIN got : PacketAt(got, i)})

(* What each end believes of its connection is true whenever its loop      *)
(* begins again: the state of the session, the type and the number of the  *)
(* connection and the socket agree; the stub holds exactly the connection  *)
(* that it has accepted and not closed.                                    *)
EndsAgree ==
  /\ thread = "top" /\ main # "gone" =>
       /\ (state = "connected") = (connType = "tcp")
       /\ (state = "connected") = (fd = Number)
       /\ (state = "connected") = (descriptor # 0)
       /\ descriptor # 0 => wires[descriptor].debugger = "open"
  /\ pair # "server" => {w \in DOMAIN wires : wires[w].stub = "open"} = {stubWire} \ {0}
  /\ (clientState = "established") = (stubWire # 0)

(* The session is deleted only after the thread that uses it has ended,    *)
(* whatever the thread was doing when the commands ended (except for the   *)
(* error exit "controller missing", which goes past the halt).             *)
ThreadEndsFirst == main = "gone" /\ workMode # "lost" => thread = "ended"

(* Neither end uses a connection or a session that is gone.                *)
EndsSound == TypeOK /\ EndsAgree /\ ThreadEndsFirst

(* The debugger ends after "quit", the end of the input or a failed send,  *)
(* also while the thread connects, receives or closes.                     *)
Quits == main = "halt" ~> main = "gone"

(* A debugger that runs and can connect is connected again and again: a    *)
(* lost connection leaves nothing behind that keeps it from a new one.     *)
Reconnects ==
  <>[](pair # "debugger" /\ ~haltFlag /\ main # "gone" /\ vm # "crashed" /\ CanConnect) => []<>(state = "connected")
=============================================================================
