--------------------------- MODULE MCListAllObjects ---------------------------
(* An instance of ListAllObjects small enough for TLC.                     *)
EXTENDS ListAllObjects, TLC

CONSTANTS root, a

ChainPrefix == {root, a}

(* root lists a on its first page, and nothing on its second, which has no *)
(* objects either.                                                         *)
ChainPages == root :> <<{a}, {}>> @@ a :> <<{}>>

ChainNoObjects == {<<root, 2>>}
=============================================================================
