------------------------------- MODULE Ordered -------------------------------
(* Sets of numbers, taken in increasing order.                              *)
EXTENDS Integers, Sequences, SequencesExt

Increasing(ids) == \A i, j \in DOMAIN ids : i < j => ids[i] < ids[j]

InOrder(S) == CHOOSE ids \in SetToSeqs(S) : Increasing(ids)
==============================================================================
