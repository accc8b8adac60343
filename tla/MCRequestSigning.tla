--------------------------- MODULE MCRequestSigning ---------------------------
(* An instance of RequestSigning: the clock reads one of two days.         *)
EXTENDS RequestSigning

TwoDays == {<<"today", "noon">>, <<"tomorrow", "midnight">>}
=============================================================================
