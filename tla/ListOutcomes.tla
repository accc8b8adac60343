----------------------------- MODULE ListOutcomes -----------------------------
(***************************************************************************)
(* What WorkerPool takes for granted of a worker at one prefix: list_one   *)
(* yields the prefix's pages in their order, each once, until the last,    *)
(* unless one of three things happens first: its retries run out, the page *)
(* after the first or a later one repeats its token, or it throws.         *)
(***************************************************************************)
EXTENDS Naturals

CONSTANT Last   \* the number of pages of the prefix

VARIABLES
  listed,   \* pages listed so far
  end       \* how process_prefix ended, "none" until then

vars == <<listed, end>>

Init == listed = 0 /\ end = "none"

ListPage ==
  /\ end = "none"
  /\ listed' = listed + 1
  /\ end' = IF listed' = Last THEN "listed" ELSE "none"

Ends(how) ==
  /\ end = "none"
  /\ end' = how
  /\ UNCHANGED listed

ListExhausted == Ends("exhausted")
ListRepeated  == listed > 0 /\ Ends("skipped")
ListThrows    == Ends("thrown")

Next ==
  \/ ListPage
  \/ ListExhausted
  \/ ListRepeated
  \/ ListThrows

Spec == Init /\ [][Next]_vars
=============================================================================
