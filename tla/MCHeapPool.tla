----------------------------- MODULE MCHeapPool -----------------------------
(* Instances of HeapPool small enough for TLC.                           *)
EXTENDS HeapPool, TLC

CONSTANTS root, a, b, c

(* root lists a and b on one page; the first of the two of a names c.      *)
DeepPages == root :> <<{a, b}>> @@ a :> <<{c}, {}>> @@ b :> <<{}>> @@ c :> <<{}>>
DeepPrefix == {root, a, b, c}

(* One level: root lists a on its first page and b on its second.          *)
FlatPages == root :> <<{a}, {b}>> @@ a :> <<{}>> @@ b :> <<{}>>
FlatPrefix == {root, a, b}

Symmetry == Permutations(Worker)
=============================================================================
