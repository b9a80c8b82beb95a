--------------------------- MODULE MasterRefinement ---------------------------
(***************************************************************************)
(* Master as an implementation of Directory: the registry is the directory *)
(* and a connection is gone when its handler has cleaned up.               *)
(***************************************************************************)
EXTENDS Master

Status(c) ==
  CASE Registered(c) -> "in"
    [] ~Registered(c) /\ handler[c] = "done" -> "gone"
    [] OTHER -> "out"

\* What a registry has filed for a connection.
Shown(registry, c) ==
  IF c \in Ids(registry)
  THEN (CHOOSE conn \in ToSet(registry) : conn.connection_id = c).files_to_chunks
  ELSE << >>

Abstract == INSTANCE Directory WITH
  status <- [c \in Connections |-> Status(c)],
  shown <- [c \in Connections |-> Shown(connections, c)],
  Nothing <- << >>

\* Whatever the tasks of all the connections do and however they interleave: a
\* server enters the registry once and with nothing, what is filed for it are
\* its own reports and no other server's, and one that left does not come back.
ImplementsDirectory == Abstract!Spec
===============================================================================
