------------------------------- MODULE MCMaster -------------------------------
(* Instances of Master for TLC. *)
EXTENDS MasterRefinement, TLC

CONSTANTS c1, c2, c3, a1, f1, f2, w1, w2

\* Every server on the one machine, as in the repository's own test, or each
\* on a machine of its own.
Loopback == [c \in {c1, c2, c3} |-> a1]
OwnMachine == [c \in {c1, c2, c3} |-> c]

TwoConnections == {c1, c2}
ThreeConnections == {c1, c2, c3}

Symmetry == Permutations(ThreeConnections) \union Permutations({w1, w2})

TwoFiles == {f1, f2}
TwoChunks == {0, 1}
TwoRequests == {w1, w2}

Listing(f, ids) == [filename |-> f, chunk_ids |-> ids]

EmptyReports == [c \in ThreeConnections |-> {<< >>}]

\* On one server f1 has two entries, as where a deletion failed half-way. (Until
\* its first report a server counts as holding nothing.)
SomeReports ==
  (c1 :> {<<Listing(f1, <<0>>), Listing(f2, <<1>>), Listing(f1, <<1>>)>>}) @@
  (c2 :> {<<Listing(f1, <<1>>), Listing(f2, <<0>>)>>})
==============================================================================
