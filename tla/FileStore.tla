------------------------------ MODULE FileStore ------------------------------
(***************************************************************************)
(* What the whole system promises its clients of one file, whatever they   *)
(* and the servers do at the same time: an upload that returned true has   *)
(* stored the whole file, and a read returns, in order, what was stored    *)
(* when it began and perhaps what was stored since.                        *)
(*                                                                         *)
(* Nothing is promised to a call that a death, a deletion or a failed      *)
(* request got in the way of, or to a read that began before the directory *)
(* knew what the servers hold: it is idle here.                            *)
(***************************************************************************)
EXTENDS Integers, Sequences

CONSTANTS
  TotalChunks,  \* how many chunks the file has
  Readers

VARIABLES
  stored,    \* the chunks that some live server has
  uploaded,  \* an upload returned true, and nothing was lost since
  call       \* what a reader knows, or has read

vars == <<stored, uploaded, call>>

Chunks == 0..(TotalChunks - 1)
Idle == [step |-> "idle"]

Init ==
  /\ stored = {}
  /\ uploaded = FALSE
  /\ call = [k \in Readers |-> Idle]

\* A chunk is stored, perhaps not for the first time; with the last one an
\* upload may return.
Put(c) ==
  /\ stored' = stored \union {c}
  /\ uploaded' \in {uploaded, uploaded \/ stored' = Chunks}
  /\ UNCHANGED call

\* A server dies, or a deletion is carried out.
Lose ==
  /\ stored' \in SUBSET stored
  /\ uploaded' = FALSE
  /\ call' = [k \in Readers |-> Idle]

BeginRead(k) ==
  /\ call' = [call EXCEPT ![k] = [step |-> "reading", known |-> stored]]
  /\ UNCHANGED <<stored, uploaded>>

\* What was found is returned in order; the answer is true if that is something.
EndRead(k) ==
  /\ call[k].step = "reading"
  /\ \E n \in 0..TotalChunks : \E output \in [1..n -> stored] :
       /\ \A i, j \in 1..n : i < j => output[i] < output[j]
       /\ call[k].known \subseteq {output[i] : i \in 1..n}
       /\ call' = [call EXCEPT ![k] =
                     [step |-> "returned", value |-> output # << >>, output |-> output]]
  /\ UNCHANGED <<stored, uploaded>>

\* The reader does something else, or its read is no longer covered.
GiveUp(k) ==
  /\ call' = [call EXCEPT ![k] = Idle]
  /\ UNCHANGED <<stored, uploaded>>

Next ==
  \/ \E c \in Chunks : Put(c)
  \/ Lose
  \/ \E k \in Readers : BeginRead(k) \/ EndRead(k) \/ GiveUp(k)

Spec == Init /\ [][Next]_vars
==============================================================================
