------------------------------- MODULE Lists --------------------------------
(***************************************************************************)
(* Lists made of what a set holds: Python's sorted with a key, the loops   *)
(* that visit the elements of lists in their order, and slices.  A turn is *)
(* a tuple of numbers, and turns are compared as Python compares tuples.   *)
(***************************************************************************)
EXTENDS Integers, FiniteSets, Sequences

Sooner(s, t) == \E n \in DOMAIN s : s[n] < t[n] /\ \A m \in 1..(n - 1) : s[m] = t[m]

(* The elements of a set of turns in their order.                          *)
InTurn(T) ==
    CHOOSE s \in [1..Cardinality(T) -> T] : \A k \in 2..Len(s) : Sooner(s[k - 1], s[k])

(* A set of numbers in ascending order.                                    *)
Ascending(I) == LET turns == InTurn({<<i>> : i \in I}) IN [k \in DOMAIN turns |-> turns[k][1]]

(* The entries of s at the places I, in their order.                       *)
At(s, I) == LET places == Ascending(I) IN [k \in DOMAIN places |-> s[places[k]]]

IsList(s) == Len(s) \in Nat /\ DOMAIN s = 1..Len(s)

(* s[:limit]                                                               *)
Slice(s, limit) == [k \in 1..(IF limit < Len(s) THEN limit ELSE Len(s)) |-> s[k]]
=============================================================================
