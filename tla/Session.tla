-------------------------------- MODULE Session --------------------------------
(***************************************************************************)
(* The debugger, xjdb: its main thread reads commands (main.c,             *)
(* xjdb_repl.c, cmdparse.c), a second thread keeps the connection and      *)
(* reads what arrives (xjdb_session.c, xjdb_conn.c, xjdb_protocol.c).      *)
(* They share the session without a lock: every read or write of a shared  *)
(* field that the other thread uses is a step.                             *)
(*                                                                         *)
(* The process uses one socket at a time, so a new one gets the number of  *)
(* the last: descriptor says what that number stands for.                  *)
(***************************************************************************)
EXTENDS Wire

CONSTANTS
  Lines,       \* what may be typed
  MaxLines     \* bound: lines in a behaviour
ASSUME MaxLinesAssumption == MaxLines \in Nat

VARIABLES
  workMode,    \* "repl", "daemon", or "lost": daemon without a controller
  state,       \* sess->state, "idle" or "connected"
  connType,    \* conn->type, "none" or "tcp"
  fd,          \* conn->u.as_tcp.fd, Number or -1
  recvBuf,     \* sess->recv_buf
  haltFlag, halted,
  descriptor,  \* the connection that Number stands for in this process, 0 when it is closed
  thread,      \* where the thread is
  main,        \* where the main thread is
  sendFd,      \* the descriptor that the main thread has read
  typed,       \* how many lines were typed
  got,         \* all that was read from this connection
  decoded,     \* how many packets of it were decoded
  why          \* why the loop of commands ended: "none", "quit", "input" or "send"

sessionVars == <<workMode, state, connType, fd, recvBuf, haltFlag, halted, descriptor, thread, main, sendFd, typed,
                 got, decoded, why>>

Number == 3
Closed == 0 - 1

-----------------------------------------------------------------------------
(* xjdb_protocol_try_decode *)
TryDecode(b) ==
  LET i == FindByte(b, SHARP)
  IN  CASE b[1] # DOLLAR -> "error"
        [] b[1] = DOLLAR /\ (i = 0 \/ Len(b) - i < 2) -> "defer"
        [] OTHER -> IF /\ IsHex(b[i + 1]) /\ IsHex(b[i + 2])
                       /\ RawOf(b[i + 1], b[i + 2]) = Checksum(SubSeq(b, 2, i - 1))
                    THEN "ok" ELSE "error"

(* The loop over the buffer: a packet is looked for at each "$". *)
RECURSIVE Emptied(_, _)
Emptied(b, n) ==
  LET After(result) ==
        IF result = "defer" THEN [buf |-> b, ok |-> n]
        ELSE Only({Emptied(rest, IF result = "ok" THEN n + 1 ELSE n) : rest \in {LeftStrip(ShiftOut(b, 1), DOLLAR)}})
  IN  IF b = <<>> THEN [buf |-> b, ok |-> n] ELSE Only({After(result) : result \in {TryDecode(b)}})

(* xjdb_protocol_send: the digits of the sum are written over the "#", and *)
(* a byte is left at the end that nobody has written.                      *)
Junk == {0, SHARP}
Frame(data, junk) == <<DOLLAR>> \o data \o HexOf(Checksum(data)) \o <<0, junk>>

-----------------------------------------------------------------------------
(* strtrim cuts the blanks at the front; those at the back are only        *)
(* counted off.                                                            *)
Blank == {" ", "\t"}
RECURSIVE Trimmed(_)
Trimmed(line) == IF line # "" /\ SubSeq(line, 1, 1) \in Blank THEN Trimmed(SubSeq(line, 2, Len(line))) ELSE line

(* cmdparse_parse counts the words; a quote within a word, or one that is  *)
(* not closed, is an error.                                                *)
Words(line) ==
  LET c(i) == SubSeq(line, i, i)
      at[i \in 0..Len(line)] ==
        IF i = 0 THEN [in |-> "gap", argc |-> 0]
        ELSE LET u == at[i - 1] IN
          CASE u.in = "gap" -> [u EXCEPT !.in = IF c(i) = "\"" THEN "string" ELSE IF c(i) \in Blank THEN "gap" ELSE "word"]
            [] u.in = "word" -> IF c(i) = "\"" THEN [u EXCEPT !.in = "error"]
                                ELSE IF c(i) \in Blank THEN [in |-> "gap", argc |-> u.argc + 1] ELSE u
            [] u.in = "string" -> IF c(i) = "\"" THEN [in |-> "gap", argc |-> u.argc + 1] ELSE u
            [] OTHER -> u
      e == at[Len(line)]
  IN  CASE e.in = "gap" -> e.argc [] e.in = "word" -> e.argc + 1 [] OTHER -> 0

(* The name is compared with the whole rest of the line. *)
CommandOf(line) ==
  LET t == Trimmed(line) IN
  IF Words(t) # 1 THEN "unknown"
  ELSE CASE t \in {"list", "l"} -> "list"
         [] t \in {"quit", "q"} -> "quit"
         [] t \in {"start", "continue"} -> "warning"
         [] OTHER -> "unknown"

-----------------------------------------------------------------------------
(* xjdb_session_fork_loop has started the thread. *)
SessionInit ==
  /\ workMode \in {"repl", "daemon", "lost"}
  /\ state = "idle" /\ connType = "none" /\ fd = Closed /\ recvBuf = <<>>
  /\ haltFlag = FALSE /\ halted = FALSE /\ descriptor = 0
  /\ thread = "top"
  /\ main = (CASE workMode = "repl" -> "prompt" [] workMode = "daemon" -> "halt" [] workMode = "lost" -> "free")
  /\ sendFd = Closed /\ typed = 0 /\ got = <<>> /\ decoded = 0 /\ why = "none"

mainVars == <<main, sendFd, typed, why>>
connVars == <<connType, fd, descriptor, wires>>
Running == main # "gone"

(* The loop of the thread, xjdb_session_loop. *)
Top ==
  /\ thread = "top" /\ Running
  /\ thread' = CASE haltFlag -> "leave" [] ~haltFlag /\ state = "idle" -> "connect" [] OTHER -> "poll"
  /\ UNCHANGED <<mainVars, connVars, workMode, state, recvBuf, haltFlag, halted, got, decoded>>

(* xjdb_conn_connect; alive says whether there is a process that listens. *)
Connect(alive) ==
  /\ thread = "connect" /\ Running /\ connType = "none" /\ alive /\ CanConnect
  /\ wires' = Append(wires, NewWire) /\ descriptor' = Len(wires) + 1
  /\ connType' = "tcp" /\ thread' = "connected"
  /\ UNCHANGED <<mainVars, fd, workMode, state, recvBuf, haltFlag, halted, got, decoded>>

ConnectFd ==
  /\ thread = "connected" /\ Running
  /\ fd' = Number /\ thread' = "join"
  /\ UNCHANGED <<mainVars, connType, descriptor, wires, workMode, state, recvBuf, haltFlag, halted, got, decoded>>
Connected ==
  /\ thread = "join" /\ Running
  /\ state' = "connected" /\ thread' = "top"
  /\ got' = <<>> /\ decoded' = 0
  /\ UNCHANGED <<mainVars, connVars, workMode, recvBuf, haltFlag, halted>>
ConnectFails ==
  /\ thread = "connect" /\ Running
  /\ thread' = "top"
  /\ UNCHANGED <<mainVars, connVars, workMode, state, recvBuf, haltFlag, halted, got, decoded>>

Wire1 == wires[descriptor]
NothingThere == Wire1.down = <<>> /\ Wire1.stub \in {"queued", "open"}

Quiet ==
  /\ thread = "poll" /\ Running /\ connType = "tcp" /\ NothingThere
  /\ thread' = "top"
  /\ UNCHANGED <<mainVars, connVars, workMode, state, recvBuf, haltFlag, halted, got, decoded>>

Receive ==
  /\ thread = "poll" /\ Running /\ connType = "tcp"
  /\ \E piece \in Pieces(Wire1.down) :
       \E e \in {Emptied(LeftStrip(recvBuf \o piece, DOLLAR), 0)} :
       /\ recvBuf' = e.buf /\ decoded' = decoded + e.ok /\ got' = got \o piece
       /\ wires' = [wires EXCEPT ![descriptor].down = ShiftOut(@, Len(piece))]
  /\ thread' = "top"
  /\ UNCHANGED <<mainVars, connType, fd, descriptor, workMode, state, haltFlag, halted>>

(* The other end has closed, or aborted the connection. *)
ReceiveEnd ==
  /\ thread = "poll" /\ Running /\ connType = "tcp"
  /\ ~NothingThere /\ (Wire1.down = <<>> \/ Wire1.stub = "aborted")
  /\ thread' = "close"
  /\ UNCHANGED <<mainVars, connVars, workMode, state, recvBuf, haltFlag, halted, got, decoded>>

(* xjdb_conn_alive finds no connection. *)
NotAlive ==
  /\ thread = "poll" /\ Running /\ connType = "none"
  /\ thread' = "closed"
  /\ UNCHANGED <<mainVars, connVars, workMode, state, recvBuf, haltFlag, halted, got, decoded>>

(* xjdb_conn_close and what follows it, one field after the other *)
CloseSocket ==
  /\ thread = "close" /\ Running
  /\ wires' = [wires EXCEPT ![descriptor].debugger = ClosedEnd(Wire1.down), ![descriptor].down = <<>>]
  /\ descriptor' = 0 /\ thread' = "closefd"
  /\ UNCHANGED <<mainVars, connType, fd, workMode, state, recvBuf, haltFlag, halted, got, decoded>>
CloseFd ==
  /\ thread = "closefd" /\ Running
  /\ fd' = Closed /\ thread' = "closetype"
  /\ UNCHANGED <<mainVars, connType, descriptor, wires, workMode, state, recvBuf, haltFlag, halted, got, decoded>>

(* A slip: the type of the connection is left as it was. *)
CloseTypeKept ==
  /\ thread = "closetype" /\ Running
  /\ thread' = "closed"
  /\ UNCHANGED <<mainVars, connVars, workMode, state, recvBuf, haltFlag, halted, got, decoded>>

CloseType ==
  /\ thread = "closetype" /\ Running
  /\ connType' = "none" /\ thread' = "closed"
  /\ UNCHANGED <<mainVars, fd, descriptor, wires, workMode, state, recvBuf, haltFlag, halted, got, decoded>>

(* A slip: what was read from the connection is kept. *)
ClosedKeeps ==
  /\ thread = "closed" /\ Running
  /\ state' = "idle" /\ thread' = "top"
  /\ UNCHANGED <<mainVars, connVars, workMode, recvBuf, haltFlag, halted, got, decoded>>

IsClosed ==
  /\ thread = "closed" /\ Running
  /\ state' = "idle" /\ recvBuf' = <<>> /\ thread' = "top"
  /\ UNCHANGED <<mainVars, connVars, workMode, haltFlag, halted, got, decoded>>

(* A slip: the thread leaves without saying so. *)
LeaveQuiet ==
  /\ thread = "leave" /\ Running
  /\ thread' = "return"
  /\ UNCHANGED <<mainVars, connVars, workMode, state, recvBuf, haltFlag, halted, got, decoded>>

Leave ==
  /\ thread = "leave" /\ Running
  /\ halted' = TRUE /\ thread' = "return"
  /\ UNCHANGED <<mainVars, connVars, workMode, state, recvBuf, haltFlag, got, decoded>>
Return ==
  /\ thread = "return" /\ Running
  /\ thread' = "ended"
  /\ UNCHANGED <<mainVars, connVars, workMode, state, recvBuf, haltFlag, halted, got, decoded>>

ThreadNext(alive) ==
  \/ Top \/ Connect(alive) \/ ConnectFd \/ Connected \/ ConnectFails \/ Quiet \/ Receive \/ ReceiveEnd \/ NotAlive
  \/ CloseSocket \/ CloseFd \/ CloseType \/ IsClosed \/ Leave \/ Return

-----------------------------------------------------------------------------
threadVars == <<state, recvBuf, halted, thread, got, decoded>>

(* One line, xjdb_repl_start and cmd_process.  A list without a connection *)
(* is a warning. *)
Line ==
  /\ main = "prompt" /\ typed < MaxLines
  /\ \E line \in Lines :
       /\ main' = CASE CommandOf(line) = "quit" -> "halt"
                    [] CommandOf(line) = "list" /\ state = "connected" -> "type"
                    [] OTHER -> "prompt"
       /\ why' = IF CommandOf(line) = "quit" THEN "quit" ELSE why
  /\ typed' = typed + 1
  /\ UNCHANGED <<threadVars, connVars, workMode, haltFlag, sendFd>>

EndOfInput ==
  /\ main = "prompt"
  /\ main' = "halt" /\ why' = "input"
  /\ UNCHANGED <<threadVars, connVars, workMode, haltFlag, sendFd, typed>>

(* xjdb_conn_send reads the type, then the descriptor, and sends.  A       *)
(* failure leaves no message, and that is what ends the loop of commands.  *)
SendType ==
  /\ main = "type"
  /\ main' = (IF connType = "none" THEN "halt" ELSE "fd")
  /\ why' = (IF connType = "none" THEN "send" ELSE why)
  /\ UNCHANGED <<threadVars, connVars, workMode, haltFlag, sendFd, typed>>
SendFd ==
  /\ main = "fd"
  /\ sendFd' = fd /\ main' = "send"
  /\ UNCHANGED <<threadVars, connVars, workMode, haltFlag, typed, why>>
Open == sendFd = Number /\ descriptor # 0
Send ==
  /\ main = "send" /\ Open
  /\ \E junk \in Junk :
       wires' = IF Wire1.stub \in {"queued", "open"} THEN [wires EXCEPT ![descriptor].up = @ \o Frame(<<>>, junk)] ELSE wires
  /\ main' = "prompt"
  /\ UNCHANGED <<threadVars, connType, fd, descriptor, workMode, haltFlag, sendFd, typed, why>>
SendFails ==
  /\ main = "send" /\ (Open => Wire1.stub \notin {"queued", "open"})
  /\ main' = "halt" /\ why' = "send"
  /\ UNCHANGED <<threadVars, connVars, workMode, haltFlag, sendFd, typed>>

(* xjdb_session_loop_halt, and the end of start_debugger *)
Halt ==
  /\ main = "halt"
  /\ haltFlag' = TRUE /\ main' = "wait"
  /\ UNCHANGED <<threadVars, connVars, workMode, sendFd, typed, why>>

(* A slip: the main thread does not wait. *)
WaitNot ==
  /\ main = "wait"
  /\ main' = "free"
  /\ UNCHANGED <<threadVars, connVars, workMode, haltFlag, sendFd, typed, why>>

Wait ==
  /\ main = "wait" /\ halted
  /\ main' = "join"
  /\ UNCHANGED <<threadVars, connVars, workMode, haltFlag, sendFd, typed, why>>
Join ==
  /\ main = "join" /\ thread = "ended"
  /\ main' = "free"
  /\ UNCHANGED <<threadVars, connVars, workMode, haltFlag, sendFd, typed, why>>

(* The session is deleted and the process ends, and its socket with it. *)
Gone ==
  /\ main = "free"
  /\ main' = "gone" /\ descriptor' = 0
  /\ wires' = IF descriptor = 0 THEN wires
              ELSE [wires EXCEPT ![descriptor].debugger = ClosedEnd(Wire1.down), ![descriptor].down = <<>>]
  /\ UNCHANGED <<threadVars, connType, fd, workMode, haltFlag, sendFd, typed, why>>

MainNext == Line \/ EndOfInput \/ SendType \/ SendFd \/ Send \/ SendFails \/ Halt \/ Wait \/ Join \/ Gone
=============================================================================
