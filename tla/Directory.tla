------------------------------ MODULE Directory ------------------------------
(***************************************************************************)
(* What the master's registry promises: a directory of the chunk servers,  *)
(* with what each has reported. A server enters once, with nothing; what   *)
(* is shown for it is something it reported itself; it leaves for good. In *)
(* which order servers entered, and which tasks maintain the directory, is *)
(* nobody's concern.                                                       *)
(*                                                                         *)
(* MasterRefinement shows that Master implements this, DfsRefinement that  *)
(* what the clients of Dfs work with is such a directory.                  *)
(***************************************************************************)
CONSTANTS
  Connections,  \* one for every time a server connects
  Reports,      \* Reports[c]: the listings the server of c may report
  Nothing       \* what is shown of a server that has not reported

VARIABLES
  status,       \* "out", "in" the directory, or "gone"
  shown         \* what the directory shows for a connection

vars == <<status, shown>>

Init ==
  /\ status = [c \in Connections |-> "out"]
  /\ shown = [c \in Connections |-> Nothing]

Enter(c) ==
  /\ status[c] = "out"
  /\ status' = [status EXCEPT ![c] = "in"]
  /\ UNCHANGED shown

Update(c) ==
  /\ status[c] = "in"
  /\ \E report \in Reports[c] : shown' = [shown EXCEPT ![c] = report]
  /\ UNCHANGED status

\* A connection may break before the server joined.
Leave(c) ==
  /\ status[c] \in {"out", "in"}
  /\ status' = [status EXCEPT ![c] = "gone"]
  /\ shown' = [shown EXCEPT ![c] = Nothing]

Next == \E c \in Connections : Enter(c) \/ Update(c) \/ Leave(c)

Spec == Init /\ [][Next]_vars
==============================================================================
