------------------------------- MODULE Totals -------------------------------
(***************************************************************************)
(* Sums over the values of a function, without recursion: the number of    *)
(* bytes if each a in the domain of count has the bytes 1 .. count[a].     *)
(***************************************************************************)
EXTENDS Integers, FiniteSets

Bytes(count) == UNION {{a} \X (1 .. count[a]) : a \in DOMAIN count}

Total(count) == Cardinality(Bytes(count))
=============================================================================
