------------------------------ MODULE Positions ------------------------------
(***************************************************************************)
(* Parts of a sequence in the order of the sequence: what Array.filter()   *)
(* keeps, what a loop over an array with a condition meets, and the values *)
(* of an array without repetitions.                                        *)
(***************************************************************************)
EXTENDS Naturals, Sequences, SequencesExt

\* The positions of a set, of 1..n, in order.
InOrder(n, S) == FlattenSeq([i \in 1..n |-> IF i \in S THEN <<i>> ELSE <<>>])
Selected(seq, positions) == [k \in DOMAIN positions |-> seq[positions[k]]]

\* The elements of seq at the positions of a set.
Chosen(seq, S) == Selected(seq, InOrder(Len(seq), S))

\* dedupe(): the first occurrence of each element.
Dedupe(seq) == Chosen(seq, {i \in DOMAIN seq : \A j \in 1..(i - 1) : seq[j] # seq[i]})
=============================================================================
