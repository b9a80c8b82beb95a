----------------------------- MODULE ChunkServer -----------------------------
(***************************************************************************)
(* What one chunk server promises: it holds a set of chunks of every file, *)
(* an upload adds one chunk, a deletion drops one file, and a report names *)
(* what was held at one moment of the poll it answers.                     *)
(*                                                                         *)
(* StorageNodeRefinement shows that StorageNode implements this while no   *)
(* two uploads interleave.                                                 *)
(***************************************************************************)
CONSTANTS
  Files, Chunks,
  Garbled        \* a report that names nothing in particular

VARIABLES
  alive,      \* the process is alive
  holds,      \* holds[f]: the chunks of f it stands for
  poll,       \* "none", "taken" or "reported"
  snapshot,   \* what was held when the poll was taken up
  overlapped, \* an upload or a deletion got in the way of the report
  report      \* the answer to the poll

vars == <<alive, holds, poll, snapshot, overlapped, report>>

Nothing == [f \in Files |-> {}]

Init ==
  /\ alive = TRUE
  /\ holds = Nothing
  /\ poll = "none"
  /\ snapshot = Nothing
  /\ overlapped = FALSE
  /\ report = Nothing

NoPoll ==
  /\ poll' = "none"
  /\ snapshot' = Nothing
  /\ overlapped' = FALSE
  /\ report' = Nothing

\* While the report is put together it may suffer from a change.
MayOverlap ==
  /\ overlapped' \in {overlapped, overlapped \/ poll = "taken"}
  /\ UNCHANGED <<alive, poll, snapshot, report>>

Put(f, c) ==
  /\ alive
  /\ holds' = [holds EXCEPT ![f] = @ \union {c}]
  /\ MayOverlap

Remove(f) ==
  /\ alive
  /\ holds' = [holds EXCEPT ![f] = {}]
  /\ MayOverlap

TakePoll ==
  /\ alive /\ poll = "none"
  /\ poll' = "taken"
  /\ snapshot' = holds
  /\ UNCHANGED <<alive, holds, overlapped, report>>

Report ==
  /\ alive /\ poll = "taken"
  /\ poll' = "reported"
  /\ \/ report' = snapshot
     \/ overlapped /\ report' = Garbled
  /\ overlapped' = FALSE
  /\ UNCHANGED <<alive, holds, snapshot>>

Send ==
  /\ alive /\ poll = "reported"
  /\ NoPoll
  /\ UNCHANGED <<alive, holds>>

Die ==
  /\ alive
  /\ alive' = FALSE
  /\ holds' = Nothing
  /\ NoPoll

Restart ==
  /\ ~alive
  /\ alive' = TRUE
  /\ UNCHANGED <<holds, poll, snapshot, overlapped, report>>

Next ==
  \/ \E f \in Files : Remove(f) \/ \E c \in Chunks : Put(f, c)
  \/ TakePoll \/ Report \/ Send
  \/ Die \/ Restart

Spec == Init /\ [][Next]_vars
==============================================================================
