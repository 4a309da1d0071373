------------------------------ MODULE MCWireTap ------------------------------
(***************************************************************************)
(* The wire tap on a small instance.  Frames of up to four bytes come in   *)
(* pieces that end in, begin with and hold whole delimiters, so that       *)
(* delimiters are cut, several frames come in one read, blank ones among   *)
(* them, and limits are hit.  A file takes one line of two units and       *)
(* overflows with the next.                                                *)
(***************************************************************************)
EXTENDS WireTap

Pieces == {<<"#">>, <<"#", "t">>, <<"t", "#", "#", "#", "t", "#">>}
=============================================================================
