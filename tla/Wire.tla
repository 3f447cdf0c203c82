--------------------------------- MODULE Wire ---------------------------------
(***************************************************************************)
(* The connections between a debugger and the interpreter it debugs, as    *)
(* the sockets of debugstub.c and xjdb_conn.c show them.  Each direction   *)
(* of a connection is the bytes on their way: they keep their order, and a *)
(* reader gets as many of them as have arrived.                            *)
(*                                                                         *)
(* The byte buffers of both ends, streambuf.c in the interpreter and       *)
(* hbuf.c in the debugger, have the same code: a buffer is the sequence of *)
(* its bytes, what it has allocated is left out.                           *)
(***************************************************************************)
EXTENDS Naturals, Sequences, SequencesExt

CONSTANT MaxWires       \* bound: connections in a behaviour
ASSUME MaxWiresAssumption == MaxWires \in Nat \ {0}

VARIABLE wires          \* the connections, in the order they were asked for

(* up goes to the interpreter.  An end that is closed before it has read   *)
(* everything aborts the connection: the other end gets an error.          *)
NewWire == [up |-> <<>>, down |-> <<>>, debugger |-> "open", stub |-> "queued"]

CanConnect == Len(wires) < MaxWires

Queued == {w \in DOMAIN wires : wires[w].stub = "queued"}

ClosedEnd(unread) == IF unread = <<>> THEN "closed" ELSE "aborted"

(* The pieces a reader may get of bytes on their way. *)
Pieces(bytes) == {SubSeq(bytes, 1, n) : n \in 1..Len(bytes)}

-----------------------------------------------------------------------------
(* Buffers, sums and hexadecimal digits. *)
Byte == 0..255
DOLLAR == 36
SHARP == 35
PLUS == 43
MINUS == 45

(* The only member of a set.  The loops over a buffer bind what they have  *)
(* computed this way, so that it is computed once.                         *)
Only(S) == CHOOSE x \in S : TRUE

(* Nothing happens when there are fewer than n bytes. *)
ShiftOut(b, n) == IF Len(b) < n THEN b ELSE SubSeq(b, n + 1, Len(b))

(* The place of the first c, 0 when there is none. *)
FindByte(b, c) == IF \E i \in DOMAIN b : b[i] = c THEN CHOOSE i \in DOMAIN b : b[i] = c /\ \A j \in 1..(i - 1) : b[j] # c ELSE 0

(* Everything in front of the first c goes, all when there is none. *)
LeftStrip(b, c) == IF FindByte(b, c) = 0 THEN <<>> ELSE ShiftOut(b, FindByte(b, c) - 1)

Checksum(b) == FoldSeq(LAMBDA x, sum : (sum + x) % 256, 0, b)

(* raw_to_hexlit of one byte, and hexlit_to_raw of two digits *)
HexDigit(n) == IF n < 10 THEN 48 + n ELSE 65 + n - 10
HexOf(x) == <<HexDigit(x \div 16), HexDigit(x % 16)>>
IsHex(c) == c \in (48..57) \cup (65..70) \cup (97..102)
HexValue(c) == CASE c <= 57 -> c - 48 [] c \in 65..70 -> c - 55 [] OTHER -> c - 87
RawOf(hi, lo) == 16 * HexValue(hi) + HexValue(lo)
=============================================================================
