------------------------ MODULE StorageNodeRefinement ------------------------
(***************************************************************************)
(* StorageNode as an implementation of ChunkServer. An upload takes effect *)
(* when insert_to_struct lists the chunk, a deletion when                  *)
(* remove_from_struct takes the entry away, and both at once: what happens *)
(* to the disk before and after is the server's own affair.                *)
(***************************************************************************)
EXTENDS StorageNode

\* The chunks that a listing names, by file.
Named(listing) == [f \in Files |-> {c \in Chunks : ListedIn(listing, f, c)}]

Abstract == INSTANCE ChunkServer WITH
  alive <- running,
  holds <- Named(file_to_chunk_state),
  poll <- CASE heartbeat = "recv" -> "none"
            [] heartbeat = "pack" -> "taken"
            [] OTHER -> "reported",
  snapshot <- Named(file_mappings),
  overlapped <- torn,
  report <- IF message = Garbled THEN Garbled ELSE Named(message)

\* While uploads do not interleave and deletions do not fail half-way, a chunk
\* server is a set of chunks per file: an upload adds its chunk and no other, a
\* deletion drops its file and no other, and a report is the set at the moment
\* of the poll unless a change got in its way.
ImplementsChunkServer == Abstract!Spec
==============================================================================
