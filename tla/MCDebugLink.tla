------------------------------ MODULE MCDebugLink ------------------------------
EXTENDS DebugLink

(* $a#61, $a#61 with a wrong sum, one with no digits, +, -, and two packets *)
(* in one piece, the first of them empty.                                   *)
MCPackets ==
  {<<36, 97, 35, 54, 49>>, <<36, 97, 35, 54, 50>>, <<36, 35, 103, 48>>, <<43>>, <<45>>,
   <<36, 35, 48, 48, 36, 35, 48, 48>>}

(* The reply of the stub, and the rest of a packet with the beginning of    *)
(* the next: one after the other they give right packets, wrong ones, and   *)
(* a "$" within one.                                                        *)
MCReplies == {<<43, 36, 35, 48, 48>>, <<35, 48, 48, 36>>}

MCLines == {"list", " l", "quit", "list ", "l \"", "start"}
=============================================================================
