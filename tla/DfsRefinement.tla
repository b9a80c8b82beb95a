---------------------------- MODULE DfsRefinement ----------------------------
(***************************************************************************)
(* Dfs as an implementation of FileStore: a POST takes effect at the chunk *)
(* server, a read takes effect with the answer to its last request.        *)
(*                                                                         *)
(* And what its clients ask as a Directory, which is what Master is shown  *)
(* to be.                                                                  *)
(***************************************************************************)
EXTENDS Dfs

\* What a reader may rely on of the call it is executing.
Covered(state) ==
  CASE state.step \in {"list", "locations", "get"} /\ state.calm ->
         [step |-> "reading", known |-> state.shown]
    [] state.step = "returned" /\ state.op = "read" ->
         [step |-> "returned", value |-> state.value, output |-> state.output]
    [] OTHER -> [step |-> "idle"]

Abstract == INSTANCE FileStore WITH
  stored <- {c \in Whole : Stored(c)},
  uploaded <- uploaded = "yes",
  call <- [k \in Readers |-> Covered(client[k])]

\* However uploads, reads, deletions, deaths and reports interleave, a calm
\* client sees a store of chunks: its upload is there when it returns true, and
\* its read is of what was there when it began, and perhaps what came since.
ImplementsFileStore == Abstract!Spec

-----------------------------------------------------------------------------
Status(conn) ==
  CASE conn \in DOMAIN view -> "in"
    [] conn \notin DOMAIN view /\ conn \in Dead -> "gone"
    [] OTHER -> "out"

Shown(conn) == IF conn \in DOMAIN view THEN view[conn] ELSE {}

Known == INSTANCE Directory WITH
  status <- [conn \in Connections |-> Status(conn)],
  shown <- [conn \in Connections |-> Shown(conn)],
  Reports <- [conn \in Connections |-> SUBSET Whole],
  Nothing <- {}

\* Deaths, restarts and reports that are still on their way do not bring a
\* connection back that the directory has dropped: a server that comes back is
\* known anew, and with nothing.
ClientsSeeDirectory == Known!Spec
==============================================================================
