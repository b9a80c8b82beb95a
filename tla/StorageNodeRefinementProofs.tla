--------------------- MODULE StorageNodeRefinementProofs ---------------------
(* StorageNode implements ChunkServer, for every value of its constants. *)
EXTENDS StorageNodeRefinement, StorageNodeProofs

\* Uploads that do not interleave: the chunk being inserted into a directory
\* that had files belongs to the last entry of the listing.
LastEntryInv ==
  request.step = "insert" /\ request.directoryHasFile =>
    num_file_count > 0 /\ file_to_chunk_state[num_file_count].file_path = request.file

-----------------------------------------------------------------------------
(* Lemmas: what each change of the listing does to the chunks it names *)

\* push_chunk_id appends the chunk to the last entry and touches no other.
LEMMA PushIds ==
  ASSUME NEW s \in Seq(Entry), Len(s) > 0, NEW c \in Chunks, NEW t,
         t = [s EXCEPT ![Len(s)].chunk_ids = Append(@, c)]
  PROVE  /\ t[Len(s)].chunk_ids = Append(s[Len(s)].chunk_ids, c)
         /\ \A k \in 1..Len(s) : k # Len(s) => t[k] = s[k]
<1>1. s[Len(s)] \in Entry /\ Len(s) \in DOMAIN s
  OBVIOUS
<1>2. t = [s EXCEPT ![Len(s)] = [s[Len(s)] EXCEPT !.chunk_ids = Append(@, c)]]
  OBVIOUS
<1>3. t[Len(s)] = [s[Len(s)] EXCEPT !.chunk_ids = Append(@, c)]
  BY <1>1, <1>2, Zenon
<1>4. t[Len(s)].chunk_ids = Append(s[Len(s)].chunk_ids, c)
  BY <1>1, <1>3 DEF Entry
<1>5. \A k \in 1..Len(s) : k # Len(s) => t[k] = s[k]
  BY <1>2
<1> QED
  BY <1>4, <1>5

\* An upload to an existing entry adds its chunk to that entry's file.
LEMMA PushNames ==
  ASSUME TypeOK, num_file_count > 0, NEW c \in Chunks, PushChunkId(c)
  PROVE  \A g, d : Listed(g, d)' <=>
           Listed(g, d) \/ (g = file_to_chunk_state[num_file_count].file_path /\ d = c)
<1> DEFINE s == file_to_chunk_state
           n == Len(s)
<1>1. n \in Nat /\ n > 0 /\ s \in Seq(Entry)
  BY DEF TypeOK, num_file_count
<1>2. s[n] \in Entry
  BY <1>1
<1>3. s[n].chunk_ids \in Seq(Chunks)
  BY <1>2 DEF Entry
<1>4. s' = [s EXCEPT ![n].chunk_ids = Append(@, c)]
  BY DEF PushChunkId, num_file_count
<1>5. /\ Len(s') = n
      /\ s'[n].file_path = s[n].file_path
      /\ s'[n].chunk_ids = Append(s[n].chunk_ids, c)
      /\ \A k \in 1..n : k # n => s'[k] = s[k]
  BY <1>1, <1>4, PushProperties, PushIds
<1> HIDE DEF s, n
<1>6. ASSUME NEW g, NEW d
      PROVE  Lists(s'[n], g, d) <=> Lists(s[n], g, d) \/ (g = s[n].file_path /\ d = c)
  <2> DEFINE ids == s[n].chunk_ids
  <2>1. /\ ids \in Seq(Chunks) /\ Len(ids) \in Nat
        /\ Len(Append(ids, c)) = Len(ids) + 1
        /\ Append(ids, c)[Len(ids) + 1] = c
        /\ \A j \in 1..Len(ids) : Append(ids, c)[j] = ids[j]
    BY <1>3
  <2> HIDE DEF ids
  <2>2. (\E j \in 1..Len(Append(ids, c)) : Append(ids, c)[j] = d)
          <=> (\E j \in 1..Len(ids) : ids[j] = d) \/ d = c
    BY <2>1
  <2> QED
    BY <1>5, <2>2 DEF Lists, ids
<1>7. ASSUME NEW g, NEW d
      PROVE  (\E k \in 1..n : Lists(s'[k], g, d))
               <=> (\E k \in 1..n : Lists(s[k], g, d)) \/ (g = s[n].file_path /\ d = c)
  <2>1. \A k \in 1..n : k # n => (Lists(s'[k], g, d) <=> Lists(s[k], g, d))
    BY <1>5
  <2>2. Lists(s'[n], g, d) <=> Lists(s[n], g, d) \/ (g = s[n].file_path /\ d = c)
    BY <1>6
  <2>3. n \in 1..n
    BY <1>1
  <2> QED
    BY <2>1, <2>2, <2>3
<1> QED
  BY <1>5, <1>7 DEF Listed, ListedIn, s, n, num_file_count

\* The first upload of a file makes an entry that names its chunk.
LEMMA NewEntryNames ==
  ASSUME TypeOK, NEW f \in Files, NEW c \in Chunks, NewEntry(f, c)
  PROVE  \A g, d : Listed(g, d)' <=> Listed(g, d) \/ (g = f /\ d = c)
<1> DEFINE s == file_to_chunk_state
           n == Len(s)
           e == [file_path |-> f, chunk_ids |-> <<c>>]
<1>1. /\ n \in Nat /\ Len(s') = n + 1 /\ s'[n + 1] = e
      /\ \A k \in 1..n : s'[k] = s[k]
  <2>1. s \in Seq(Entry) /\ s' = Append(s, e)
    BY DEF TypeOK, NewEntry
  <2> HIDE DEF s, e
  <2> QED
    BY <2>1 DEF n
<1>2. \A g, d : Lists(e, g, d) <=> (g = f /\ d = c)
  BY DEF Lists
<1> HIDE DEF s, n, e
<1>3. ASSUME NEW g, NEW d
      PROVE  (\E k \in 1..(n + 1) : Lists(s'[k], g, d))
               <=> (\E k \in 1..n : Lists(s[k], g, d)) \/ (g = f /\ d = c)
  BY <1>1, <1>2
<1> QED
  BY <1>1, <1>3 DEF Listed, ListedIn, s, n

-----------------------------------------------------------------------------
(* The invariant *)

LEMMA LastEntryInvInit == Init => LastEntryInv
  BY DEF Init, LastEntryInv, Idle

\* Only WriteChunk begins an insertion, and it asks the environment's promise.
LEMMA LastEntryInvNext ==
  ASSUME ~Interleaved, TypeOK, LastEntryInv, [Next]_vars
  PROVE  LastEntryInv'
<1> USE DEF diskVars, tcpVars
<1>1. CASE \E f \in Files, c \in Chunks, v \in Contents : WriteChunk(f, c, v)
  <2> PICK f \in Files, c \in Chunks, v \in Contents : WriteChunk(f, c, v)
    BY <1>1
  <2>1. /\ request'.file = f /\ request'.directoryHasFile = DirectoryHasFiles(f)
        /\ UploadAllowed(f) /\ file_to_chunk_state' = file_to_chunk_state
    BY DEF WriteChunk
  <2> QED
    BY <2>1 DEF LastEntryInv, UploadAllowed, num_file_count
<1>2. CASE insert_to_struct
  <2>1. request \in Upload
    BY <1>2, RequestTypes DEF insert_to_struct, TypeOK
  <2>2. request' = Idle \/ request'.step = "close"
    BY <1>2, <2>1 DEF insert_to_struct, Die, Upload
  <2> QED
    BY <2>2 DEF LastEntryInv, Idle
<1>3. CASE request' = Idle
  BY <1>3 DEF LastEntryInv, Idle
<1>4. CASE UNCHANGED <<request, file_to_chunk_state>>
  BY <1>4 DEF LastEntryInv, num_file_count
<1>5. CASE \E f \in Files : delete_file(f)
  BY <1>5 DEF delete_file, LastEntryInv
<1>6. CASE RemoveDirectory
  <2>1. request \in Removal
    BY <1>6, RequestTypes DEF RemoveDirectory, TypeOK
  <2> QED
    BY <1>6, <2>1 DEF RemoveDirectory, Removal, LastEntryInv
<1> QED
  BY <1>1, <1>2, <1>3, <1>4, <1>5, <1>6
  DEF Next, HttpThread, TcpThread, vars, PostExistingChunk, WriteChunkFails, CloseChunk,
      UnlinkChunk, RemoveDirectoryFails, remove_from_struct, SnapshotListing, PackReport,
      FreeMappingsFaults, SendHealth, Kill, Die, Restart

-----------------------------------------------------------------------------
(* The refinement *)

LEMMA EmptyListing == Named(<< >>) = Abstract!Nothing /\ << >> # Garbled
<1>1. \A f, c : ~ListedIn(<< >>, f, c)
  BY DEF ListedIn
<1>2. << >> \in Seq([file_path : Files, chunk_ids : Seq(Chunks)])
  OBVIOUS
<1> QED
  BY <1>1, <1>2, GarbledAssumption DEF Named, Abstract!Nothing

LEMMA InitRefines == Init => Abstract!Init
  BY EmptyListing DEF Init, Abstract!Init

\* What the server does to the disk alone, or to the handler, is no step.
LEMMA StutterRefines ==
  ASSUME UNCHANGED <<running, file_to_chunk_state, heartbeat, file_mappings, torn, message>>
  PROVE  UNCHANGED Abstract!vars
  BY DEF Abstract!vars, Named, ListedIn, Lists

LEMMA DieRefines ==
  ASSUME running, Die
  PROVE  Abstract!Die
  BY EmptyListing DEF Die, HeartbeatIdle, Abstract!Die, Abstract!NoPoll

\* An upload takes effect when its chunk is listed.
LEMMA InsertRefines ==
  ASSUME TypeOK, LastEntryInv, insert_to_struct, ~Die
  PROVE  Abstract!Next
<1>1. request \in Upload /\ request.step = "insert" /\ running
  BY RequestTypes DEF insert_to_struct, TypeOK
<1>2. PICK f \in Files, c \in Chunks : f = request.file /\ c = request.chunk
  BY <1>1 DEF Upload
<1>3. \A g, d : Listed(g, d)' <=> Listed(g, d) \/ (g = f /\ d = c)
  <2>1. CASE request.directoryHasFile
    <3>1. num_file_count > 0 /\ file_to_chunk_state[num_file_count].file_path = f
      BY <1>1, <1>2, <2>1 DEF LastEntryInv
    <3>2. PushChunkId(c)
      BY <1>2, <2>1 DEF insert_to_struct
    <3> QED
      BY <3>1, <3>2, PushNames
  <2>2. CASE ~request.directoryHasFile
    <3>1. NewEntry(f, c)
      BY <1>2, <2>2 DEF insert_to_struct
    <3> QED
      BY <3>1, NewEntryNames
  <2> QED
    BY <2>1, <2>2
<1>4. Named(file_to_chunk_state)' =
        [Named(file_to_chunk_state) EXCEPT ![f] = @ \union {c}]
  BY <1>3 DEF Named, Listed
<1>5. /\ torn' \in {torn, torn \/ heartbeat = "pack"}
      /\ UNCHANGED <<running, heartbeat, file_mappings, message>>
  BY DEF insert_to_struct, PushChunkId, NewEntry, TypeOK
<1>6. Abstract!Put(f, c)
  BY <1>1, <1>4, <1>5 DEF Abstract!Put, Abstract!MayOverlap, Named, ListedIn, Lists
<1> QED
  BY <1>6 DEF Abstract!Next

\* A deletion takes effect when its entry leaves the listing.
LEMMA RemoveRefines ==
  ASSUME TypeOK, ListingInv, remove_from_struct
  PROVE  Abstract!Next \/ UNCHANGED Abstract!vars
<1>1. CASE ~HasEntry(request.file)
  BY <1>1, StutterRefines DEF remove_from_struct
<1>2. CASE HasEntry(request.file)
  <2>1. request \in Removal /\ running
    BY RequestTypes DEF remove_from_struct, TypeOK
  <2>2. PICK f \in Files : f = request.file
    BY <2>1 DEF Removal
  <2>3. PICK i \in 1..num_file_count :
          /\ file_to_chunk_state[i].file_path = f
          /\ file_to_chunk_state' = RemoveAt(file_to_chunk_state, i)
          /\ torn' = (torn \/ (heartbeat = "pack" /\ i <= shared))
    BY <1>2, <2>2 DEF remove_from_struct
  <2>4. \A g \in Files, c \in Chunks : Listed(g, c)' <=> Listed(g, c) /\ g # f
    BY <2>3, RemoveAtForgets DEF ListingInv
  <2>5. Named(file_to_chunk_state)' = [Named(file_to_chunk_state) EXCEPT ![f] = {}]
    BY <2>4 DEF Named, Listed
  <2>6. /\ torn' \in {torn, torn \/ heartbeat = "pack"}
        /\ UNCHANGED <<running, heartbeat, file_mappings, message>>
    BY <2>3 DEF remove_from_struct, TypeOK
  <2>7. Abstract!Remove(f)
    BY <2>1, <2>5, <2>6 DEF Abstract!Remove, Abstract!MayOverlap, Named, ListedIn, Lists
  <2> QED
    BY <2>7 DEF Abstract!Next
<1> QED
  BY <1>1, <1>2

\* The steps of the TCP thread.
LEMMA TcpRefines ==
  ASSUME TypeOK, TcpThread
  PROVE  Abstract!Next
<1>1. CASE SnapshotListing
  <2>1. Abstract!TakePoll
    BY <1>1 DEF SnapshotListing, Abstract!TakePoll, diskVars
  <2> QED
    BY <2>1 DEF Abstract!Next
<1>2. CASE PackReport
  <2>1. CASE torn /\ Die
    BY <1>2, <2>1, DieRefines DEF PackReport, Abstract!Next
  <2>2. CASE ~(torn /\ Die)
    <3>1. file_mappings # Garbled
      BY GarbledAssumption DEF TypeOK, Entry
    <3>2. Abstract!Report
      BY <1>2, <2>2, <3>1 DEF PackReport, Abstract!Report
    <3> QED
      BY <3>2 DEF Abstract!Next
  <2> QED
    BY <2>1, <2>2
<1>3. CASE FreeMappingsFaults
  BY <1>3, DieRefines DEF FreeMappingsFaults, Abstract!Next
<1>4. CASE SendHealth
  <2>1. Abstract!Send
    BY <1>4, EmptyListing
    DEF SendHealth, HeartbeatIdle, Abstract!Send, Abstract!NoPoll
  <2> QED
    BY <2>1 DEF Abstract!Next
<1> QED
  BY <1>1, <1>2, <1>3, <1>4 DEF TcpThread

LEMMA NextRefines ==
  ASSUME TypeOK, ListingInv, LastEntryInv, [Next]_vars
  PROVE  [Abstract!Next]_(Abstract!vars)
<1>1. CASE insert_to_struct
  <2>1. CASE Die
    BY <1>1, <2>1, DieRefines DEF insert_to_struct, Abstract!Next
  <2> QED
    BY <1>1, <2>1, InsertRefines
<1>2. CASE remove_from_struct
  BY <1>2, RemoveRefines
<1>3. CASE TcpThread
  BY <1>3, TcpRefines
<1>4. CASE Kill \/ \E f \in Files, c \in Chunks : WriteChunkFails(f, c)
  BY <1>4, DieRefines DEF Kill, WriteChunkFails, Abstract!Next
<1>5. CASE \E mode \in Restarts : Restart(mode)
  <2>1. Abstract!Restart
    BY <1>5 DEF Restart, tcpVars, Abstract!Restart
  <2> QED
    BY <2>1 DEF Abstract!Next
<1>6. CASE UNCHANGED <<running, file_to_chunk_state, heartbeat, file_mappings, torn, message>>
  BY <1>6, StutterRefines
<1> QED
  BY <1>1, <1>2, <1>3, <1>4, <1>5, <1>6
  DEF Next, HttpThread, vars, tcpVars, PostExistingChunk, WriteChunk, CloseChunk, delete_file,
      UnlinkChunk, RemoveDirectoryFails, RemoveDirectory

\* While uploads do not interleave, deletions do not fail half-way and run.sh
\* does every restart, a chunk server is a set of chunks per file that uploads
\* and deletions change as asked, and that reports show.
THEOREM StorageNodeRefines ==
  ASSUME Undisturbed, ~Interleaved
  PROVE  Spec => ImplementsChunkServer
<1>1. TypeOK /\ ListingInv /\ [Next]_vars => ListingInv'
  BY ListingInvNext
<1>2. TypeOK /\ LastEntryInv /\ [Next]_vars => LastEntryInv'
  BY LastEntryInvNext
<1>3. TypeOK /\ ListingInv /\ LastEntryInv /\ [Next]_vars => [Abstract!Next]_(Abstract!vars)
  BY NextRefines
<1> QED
  BY <1>1, <1>2, <1>3, ListingInvInit, LastEntryInvInit, InitRefines, TypeCorrect, PTL
  DEF Spec, ImplementsChunkServer, Abstract!Spec
==============================================================================
