------------------------------ MODULE BucketWalk ------------------------------
(***************************************************************************)
(* What list_all_objects promises of a traversal, without its workers,     *)
(* counters and scaling: the pages of every prefix are listed in order,    *)
(* each once; a prefix is opened only when a listed page (or the start)    *)
(* named it, and once for each time it was named; the walk ends only when  *)
(* no prefix waits and none is open.  A prefix may be given up half-way.   *)
(***************************************************************************)
EXTENDS Naturals, Sequences, FiniteSets

CONSTANTS
  Prefix,
  Root,
  Pages    \* Pages[p][i]: the prefixes named on the i-th page of p

VARIABLES
  waiting,   \* prefixes named and not yet opened
  open,      \* prefixes being listed
  listed,    \* <<p, i>>: the pages listed
  ended

vars == <<waiting, open, listed, ended>>

Init ==
  /\ waiting = {Root}
  /\ open = {}
  /\ listed = {}
  /\ ended = FALSE

Begin(p) ==
  /\ ~ended
  /\ p \in waiting
  /\ waiting' = waiting \ {p}
  /\ open' = open \cup {p}
  /\ UNCHANGED <<listed, ended>>

(* The page after those listed already; the prefix closes with its last.   *)
List(p, i) ==
  /\ ~ended
  /\ p \in open
  /\ <<p, i>> \notin listed
  /\ \A j \in 1..(i - 1) : <<p, j>> \in listed
  /\ listed' = listed \cup {<<p, i>>}
  /\ waiting' = waiting \cup Pages[p][i]
  /\ open' = IF i = Len(Pages[p]) THEN open \ {p} ELSE open
  /\ UNCHANGED ended

GiveUp(p) ==
  /\ ~ended
  /\ p \in open
  /\ open' = open \ {p}
  /\ UNCHANGED <<waiting, listed, ended>>

End ==
  /\ ~ended
  /\ waiting = {}
  /\ open = {}
  /\ ended' = TRUE
  /\ UNCHANGED <<waiting, open, listed>>

Next ==
  \/ \E p \in Prefix :
       \/ Begin(p)
       \/ \E i \in DOMAIN Pages[p] : List(p, i)
       \/ GiveUp(p)
  \/ End

Spec == Init /\ [][Next]_vars
-----------------------------------------------------------------------------
\* Prefixes that are still to be opened: not named yet, or waiting.
Unopened ==
  {p \in Prefix : \/ p \in waiting
                  \/ p # Root /\ \A pg \in listed : p \notin Pages[pg[1]][pg[2]]}

Unlisted == {pg \in UNION {{p} \X DOMAIN Pages[p] : p \in Prefix} : pg \notin listed}

\* How many steps there can still be.
WorkLeft ==
  2 * Cardinality(Unopened) + Cardinality(Unlisted) + Cardinality(open)
    + (IF ended THEN 0 ELSE 1)

(* Every step brings the end of the walk nearer: whatever is given up, no  *)
(* prefix and no page is ever taken up again.                              *)
AlwaysNearer == [][WorkLeft' \in 0..(WorkLeft - 1)]_vars
=============================================================================
