--------------------------------- MODULE Places ---------------------------------
(***************************************************************************)
(* What the records that are read again share: a comprehension over a      *)
(* sequence keeps some of its members, in their order, and a dictionary or *)
(* a directory that is written again keeps what is not replaced.           *)
(***************************************************************************)
EXTENDS Integers, FiniteSets, Sequences

\* The members of a sequence at some of its places, in their order.
Picked(s, places) ==
  [k \in 1..Cardinality(places) |->
     s[CHOOSE i \in places : Cardinality({j \in places : j <= i}) = k]]

\* What is written now, over what was there.
Over(new, old) == [x \in DOMAIN new \union DOMAIN old |-> IF x \in DOMAIN new THEN new[x] ELSE old[x]]
===============================================================================
