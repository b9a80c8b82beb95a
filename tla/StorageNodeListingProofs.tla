----------------------- MODULE StorageNodeListingProofs -----------------------
(* What the listing of a chunk server names, and what can be read by it. *)
EXTENDS StorageNodeRefinementProofs

Inserting(f, c) == request.step = "insert" /\ f = request.file /\ c = request.chunk
Removing(f) == request.step \in {"unlink", "remove"} /\ f = request.file

\* Uploads that do not interleave: but for the chunk about to be listed and the
\* file being deleted, the listing names what is on disk.
NamesInv ==
  running => \A f \in Files, c \in Chunks :
    ~Removing(f) => (Listed(f, c) <=> disk[f][c] # Absent /\ ~Inserting(f, c))

\* ... and it names it once.
IdsInv == \A i \in 1..num_file_count : IsInjective(file_to_chunk_state[i].chunk_ids)

\* Every entry begins with a chunk that is there, whatever follows it.
FirstInv ==
  \A i \in 1..num_file_count :
    LET entry == file_to_chunk_state[i] IN
    /\ Len(entry.chunk_ids) > 0
    /\ ~Removing(entry.file_path) => disk[entry.file_path][entry.chunk_ids[1]] # Absent

-----------------------------------------------------------------------------
(* Steps that most invariants share *)

LEMMA NamesInvInit == Init => NamesInv /\ IdsInv /\ FirstInv
<1> SUFFICES ASSUME Init
             PROVE  NamesInv /\ IdsInv /\ FirstInv
  OBVIOUS
<1>1. \A f, c : ~Listed(f, c)
  BY DEF Init, Listed, ListedIn
<1>2. \A f \in Files, c \in Chunks : disk[f][c] = Absent
  BY DEF Init, EmptyDisk
<1>3. 1..num_file_count = {}
  BY DEF Init, num_file_count
<1> QED
  BY <1>1, <1>2, <1>3 DEF NamesInv, IdsInv, FirstInv

LEMMA NothingListed ==
  ASSUME file_to_chunk_state' = << >>
  PROVE  IdsInv' /\ FirstInv' /\ \A f, c : ~Listed(f, c)'
<1>1. 1..num_file_count' = {}
  BY DEF num_file_count
<1> QED
  BY <1>1 DEF IdsInv, FirstInv, Listed, ListedIn

LEMMA NamesInvDie == Die => NamesInv' /\ IdsInv' /\ FirstInv'
  BY NothingListed DEF Die, NamesInv

\* A step that leaves what matters alone.
LEMMA NamesInvUnchanged ==
  ASSUME UNCHANGED <<running, disk, file_to_chunk_state, request>>
  PROVE  /\ NamesInv => NamesInv'
         /\ IdsInv => IdsInv'
         /\ FirstInv => FirstInv'
<1>1. \A f, c : Listed(f, c)' <=> Listed(f, c)
  BY DEF Listed, ListedIn, Lists
<1>2. num_file_count' = num_file_count
  BY DEF num_file_count
<1> QED
  BY <1>1, <1>2 DEF NamesInv, IdsInv, FirstInv, Removing, Inserting

\* The steps that no invariant of this module looks at.
OtherStep ==
  \/ \E f \in Files, c \in Chunks : PostExistingChunk(f, c)
  \/ SnapshotListing \/ SendHealth
  \/ UNCHANGED vars

\* The steps by which the process ends.
Ends ==
  \/ \E f \in Files, c \in Chunks : WriteChunkFails(f, c)
  \/ FreeMappingsFaults \/ Kill

LEMMA OtherStepsChangeNothing ==
  ASSUME OtherStep \/ (PackReport /\ ~Die)
  PROVE  UNCHANGED <<running, disk, file_to_chunk_state, request>>
  BY DEF OtherStep, PostExistingChunk, SnapshotListing, SendHealth, PackReport, vars, diskVars

LEMMA EndsIsDie ==
  ASSUME Ends
  PROVE  Die
  BY DEF Ends, WriteChunkFails, FreeMappingsFaults, Kill

\* The cases of a step, for an environment in which no deletion fails.
LEMMA StepCases ==
  ASSUME Undisturbed, [Next]_vars
  PROVE  \/ Die
         \/ UNCHANGED <<running, disk, file_to_chunk_state, request>>
         \/ \E f \in Files, c \in Chunks, v \in Contents : WriteChunk(f, c, v)
         \/ insert_to_struct /\ ~Die
         \/ CloseChunk
         \/ \E f \in Files : delete_file(f)
         \/ UnlinkChunk \/ RemoveDirectory \/ remove_from_struct
         \/ Restart("run.sh")
<1>1. ~RemoveDirectoryFails
  BY DEF RemoveDirectoryFails, Undisturbed
<1>2. \A mode \in Restarts : mode = "run.sh"
  BY DEF Undisturbed
<1> QED
  BY <1>1, <1>2, OtherStepsChangeNothing, EndsIsDie
  DEF Next, HttpThread, TcpThread, OtherStep, Ends

\* A removal that goes on or begins: its file, and what it may not change.
LEMMA RemovalSteps ==
  ASSUME TypeOK
  PROVE  /\ UnlinkChunk => \E f \in Files, c \in Chunks :
              /\ Removing(f) /\ Removing(f)' /\ UNCHANGED <<running, file_to_chunk_state, request>>
              /\ disk' = [disk EXCEPT ![f][c] = Absent]
         /\ RemoveDirectory => \E f \in Files :
              /\ Removing(f) /\ Removing(f)' /\ UNCHANGED <<running, file_to_chunk_state, disk>>
              /\ request'.file = request.file
         /\ \A f \in Files : delete_file(f) =>
              /\ Removing(f)' /\ request = Idle /\ request'.file = f
              /\ UNCHANGED <<running, file_to_chunk_state, disk>>
<1>1. ASSUME UnlinkChunk
      PROVE  \E f \in Files, c \in Chunks :
               /\ Removing(f) /\ Removing(f)' /\ UNCHANGED <<running, file_to_chunk_state, request>>
               /\ disk' = [disk EXCEPT ![f][c] = Absent]
  <2>1. request \in Removal
    BY <1>1, RequestTypes DEF UnlinkChunk, TypeOK
  <2> QED
    BY <1>1, <2>1 DEF UnlinkChunk, Removal, Removing
<1>2. ASSUME RemoveDirectory
      PROVE  \E f \in Files :
               /\ Removing(f) /\ Removing(f)' /\ UNCHANGED <<running, file_to_chunk_state, disk>>
               /\ request'.file = request.file
  <2>1. request \in Removal
    BY <1>2, RequestTypes DEF RemoveDirectory, TypeOK
  <2> QED
    BY <1>2, <2>1 DEF RemoveDirectory, Removal, Removing
<1>3. ASSUME NEW f \in Files, delete_file(f)
      PROVE  /\ Removing(f)' /\ request = Idle /\ request'.file = f
             /\ UNCHANGED <<running, file_to_chunk_state, disk>>
  BY <1>3 DEF delete_file, diskVars, Removing
<1> QED
  BY <1>1, <1>2, <1>3

-----------------------------------------------------------------------------
(* ListingExact and AckedServed: uploads that do not interleave *)

\* insert_to_struct adds the chunk of the upload and no other.
LEMMA InsertNames ==
  ASSUME TypeOK, LastEntryInv, insert_to_struct, ~Die
  PROVE  /\ request \in Upload /\ request.step = "insert" /\ request' = [request EXCEPT !.step = "close"]
         /\ UNCHANGED <<running, disk>>
         /\ \A g, d : Listed(g, d)' <=> Listed(g, d) \/ (g = request.file /\ d = request.chunk)
<1>1. request \in Upload /\ request.step = "insert"
  BY RequestTypes DEF insert_to_struct, TypeOK
<1>2. PICK f \in Files, c \in Chunks : f = request.file /\ c = request.chunk
  BY <1>1 DEF Upload
<1>3. CASE request.directoryHasFile
  <2>1. num_file_count > 0 /\ file_to_chunk_state[num_file_count].file_path = f
    BY <1>1, <1>2, <1>3 DEF LastEntryInv
  <2>2. PushChunkId(c)
    BY <1>2, <1>3 DEF insert_to_struct
  <2>3. \A g, d : Listed(g, d)' <=> Listed(g, d) \/ (g = f /\ d = c)
    BY <2>1, <2>2, PushNames
  <2> QED
    BY <1>1, <1>2, <2>3 DEF insert_to_struct, diskVars
<1>4. CASE ~request.directoryHasFile
  <2>1. NewEntry(f, c)
    BY <1>2, <1>4 DEF insert_to_struct
  <2>2. \A g, d : Listed(g, d)' <=> Listed(g, d) \/ (g = f /\ d = c)
    BY <2>1, NewEntryNames
  <2> QED
    BY <1>1, <1>2, <2>2 DEF insert_to_struct, diskVars
<1> QED
  BY <1>3, <1>4

LEMMA NamesInvNext ==
  ASSUME Undisturbed, TypeOK, ListingInv, LastEntryInv, DiskInv, NamesInv, [Next]_vars
  PROVE  NamesInv'
<1>1. CASE \E f \in Files, c \in Chunks, v \in Contents : WriteChunk(f, c, v)
  <2> PICK f \in Files, c \in Chunks, v \in Contents : WriteChunk(f, c, v)
    BY <1>1
  <2> PICK w \in {v, Partial} : disk' = [disk EXCEPT ![f][c] = w]
    BY DEF WriteChunk
  <2>1. /\ running /\ request = Idle /\ disk[f][c] = Absent /\ w # Absent
        /\ request'.step = "insert" /\ request'.file = f /\ request'.chunk = c
        /\ file_to_chunk_state' = file_to_chunk_state
    BY ContentAssumption DEF WriteChunk
  <2>2. \A g, d : Listed(g, d)' <=> Listed(g, d)
    BY <2>1 DEF Listed, ListedIn, Lists
  <2>3. \A g \in Files, d \in Chunks : Listed(g, d) <=> disk[g][d] # Absent
    BY <2>1 DEF NamesInv, Removing, Inserting, Idle
  <2>4. \A g \in Files, d \in Chunks :
          disk'[g][d] = IF g = f /\ d = c THEN w ELSE disk[g][d]
    BY DEF TypeOK
  <2> QED
    BY <2>1, <2>2, <2>3, <2>4 DEF NamesInv, Inserting, Removing
<1>2. CASE insert_to_struct /\ ~Die
  <2>1. /\ request \in Upload /\ request.step = "insert" /\ request' = [request EXCEPT !.step = "close"]
        /\ UNCHANGED <<running, disk>>
        /\ \A g, d : Listed(g, d)' <=> Listed(g, d) \/ (g = request.file /\ d = request.chunk)
    BY <1>2, InsertNames
  <2>2. disk[request.file][request.chunk] # Absent
    BY <2>1, ContentAssumption DEF DiskInv, Upload
  <2>3. request'.step = "close"
    BY <2>1 DEF Upload
  <2> QED
    BY <2>1, <2>2, <2>3 DEF NamesInv, Inserting, Removing
<1>3. CASE CloseChunk
  <2>1. request \in Upload
    BY <1>3, RequestTypes DEF CloseChunk, TypeOK
  <2>2. PICK f \in Files, c \in Chunks, v \in Contents :
          f = request.file /\ c = request.chunk /\ v = request.data
    BY <2>1 DEF Upload
  <2>3. /\ disk' \in {disk, [disk EXCEPT ![f][c] = v]} /\ request' = Idle /\ running
        /\ file_to_chunk_state' = file_to_chunk_state /\ request.step = "close"
    BY <1>3, <2>2 DEF CloseChunk
  <2>4. \A g, d : Listed(g, d)' <=> Listed(g, d)
    BY <2>3 DEF Listed, ListedIn, Lists
  <2>5. \A g \in Files, d \in Chunks : Listed(g, d) <=> disk[g][d] # Absent
    BY <2>3 DEF NamesInv, Removing, Inserting
  <2>6. disk[f][c] # Absent /\ v # Absent
    BY <2>2, <2>3, ContentAssumption DEF DiskInv
  <2>7. \A g \in Files, d \in Chunks : disk'[g][d] # Absent <=> disk[g][d] # Absent
    BY <2>3, <2>6 DEF TypeOK
  <2> QED
    BY <2>3, <2>4, <2>5, <2>7 DEF NamesInv, Inserting, Removing, Idle
<1>4. CASE \E f \in Files : delete_file(f)
  <2>1. PICK f \in Files : delete_file(f)
    BY <1>4
  <2>2. /\ Removing(f)' /\ request = Idle /\ request'.file = f
        /\ UNCHANGED <<running, file_to_chunk_state, disk>>
    BY <2>1, RemovalSteps
  <2>3. \A g, d : Listed(g, d)' <=> Listed(g, d)
    BY <2>2 DEF Listed, ListedIn, Lists
  <2> QED
    BY <2>2, <2>3 DEF NamesInv, Removing, Inserting, Idle
<1>5. CASE UnlinkChunk
  <2>1. PICK f \in Files, c \in Chunks :
          /\ Removing(f) /\ Removing(f)' /\ UNCHANGED <<running, file_to_chunk_state, request>>
          /\ disk' = [disk EXCEPT ![f][c] = Absent]
    BY <1>5, RemovalSteps
  <2>2. \A g, d : Listed(g, d)' <=> Listed(g, d)
    BY <2>1 DEF Listed, ListedIn, Lists
  <2>3. \A g \in Files, d \in Chunks : g # f => disk'[g][d] = disk[g][d]
    BY <2>1 DEF TypeOK
  <2> QED
    BY <2>1, <2>2, <2>3 DEF NamesInv, Removing, Inserting
<1>6. CASE RemoveDirectory
  <2>1. PICK f \in Files :
          /\ Removing(f) /\ Removing(f)' /\ UNCHANGED <<running, file_to_chunk_state, disk>>
          /\ request'.file = request.file
    BY <1>6, RemovalSteps
  <2>2. \A g, d : Listed(g, d)' <=> Listed(g, d)
    BY <2>1 DEF Listed, ListedIn, Lists
  <2> QED
    BY <2>1, <2>2 DEF NamesInv, Removing, Inserting
<1>7. CASE remove_from_struct
  <2>1. request \in Removal /\ request.step = "remove" /\ request # Idle
    BY <1>7, RequestTypes DEF remove_from_struct, TypeOK, Idle
  <2>2. PICK f \in Files : f = request.file
    BY <2>1 DEF Removal
  <2>3. HasEntry(f) /\ ~DirectoryHasFiles(f)
    BY <1>7, <2>1, <2>2 DEF ListingInv, FileAgrees, Busy, remove_from_struct
  <2>4. PICK i \in 1..num_file_count :
          /\ file_to_chunk_state[i].file_path = f
          /\ file_to_chunk_state' = RemoveAt(file_to_chunk_state, i)
    BY <1>7, <2>2, <2>3 DEF remove_from_struct
  <2>5. \A g \in Files, d \in Chunks : Listed(g, d)' <=> Listed(g, d) /\ g # f
    BY <2>4, RemoveAtForgets DEF ListingInv
  <2>6. request' = Idle /\ UNCHANGED <<running, disk>>
    BY <1>7 DEF remove_from_struct, diskVars
  <2>7. \A d \in Chunks : disk[f][d] = Absent
    BY <2>3 DEF DirectoryHasFiles
  <2> QED
    BY <2>1, <2>2, <2>5, <2>6, <2>7 DEF NamesInv, Removing, Inserting, Idle
<1>8. CASE Restart("run.sh")
  <2>1. file_to_chunk_state' = << >> /\ disk' = EmptyDisk
    BY <1>8 DEF Restart, ListingInv
  <2>2. \A g \in Files, d \in Chunks : disk'[g][d] = Absent
    BY <2>1 DEF EmptyDisk
  <2> QED
    BY <2>1, <2>2, NothingListed DEF NamesInv
<1> QED
  BY <1>1, <1>2, <1>3, <1>4, <1>5, <1>6, <1>7, <1>8, StepCases, NamesInvDie, NamesInvUnchanged

\* Appending an id that is not among them keeps ids apart.
LEMMA AppendKeepsApart ==
  ASSUME NEW S, NEW ids \in Seq(S), IsInjective(ids), NEW c \in S,
         \A j \in 1..Len(ids) : ids[j] # c
  PROVE  IsInjective(Append(ids, c))
<1> DEFINE t == Append(ids, c)
           n == Len(ids)
<1>1. /\ n \in Nat /\ DOMAIN ids = 1..n /\ DOMAIN t = 1..(n + 1)
      /\ \A j \in 1..n : t[j] = ids[j]
      /\ t[n + 1] = c
      /\ \A j \in 1..n : ids[j] # c
  BY AppendProperties
<1> HIDE DEF t, n
<1>2. \A a, b \in 1..n : ids[a] = ids[b] => a = b
  BY <1>1 DEF IsInjective
<1>3. \A a, b \in 1..(n + 1) : t[a] = t[b] => a = b
  BY <1>1, <1>2
<1>4. IsInjective(t)
  BY <1>1, <1>3 DEF IsInjective
<1> QED
  BY <1>4 DEF t

\* What the three changes of the listing do to its entries.
LEMMA ChangedEntries ==
  ASSUME TypeOK
  PROVE  /\ \A c \in Chunks : num_file_count > 0 /\ PushChunkId(c) =>
              LET n == num_file_count IN
              /\ num_file_count' = n
              /\ file_to_chunk_state'[n].file_path = file_to_chunk_state[n].file_path
              /\ file_to_chunk_state'[n].chunk_ids = Append(file_to_chunk_state[n].chunk_ids, c)
              /\ \A k \in 1..n : k # n => file_to_chunk_state'[k] = file_to_chunk_state[k]
         /\ \A f \in Files, c \in Chunks : NewEntry(f, c) =>
              LET n == num_file_count IN
              /\ num_file_count' = n + 1
              /\ file_to_chunk_state'[n + 1] = [file_path |-> f, chunk_ids |-> <<c>>]
              /\ \A k \in 1..n : file_to_chunk_state'[k] = file_to_chunk_state[k]
         /\ \A i \in 1..num_file_count : file_to_chunk_state' = RemoveAt(file_to_chunk_state, i) =>
              \A j \in 1..num_file_count' : \E k \in 1..num_file_count :
                k # i /\ file_to_chunk_state'[j] = file_to_chunk_state[k]
<1> DEFINE s == file_to_chunk_state
<1>1. s \in Seq(Entry) /\ num_file_count = Len(s) /\ Len(s) \in Nat /\ num_file_count' = Len(s')
  BY DEF TypeOK, num_file_count
<1>2. ASSUME NEW c \in Chunks, num_file_count > 0, PushChunkId(c)
      PROVE  /\ Len(s') = Len(s)
             /\ s'[Len(s)].file_path = s[Len(s)].file_path
             /\ s'[Len(s)].chunk_ids = Append(s[Len(s)].chunk_ids, c)
             /\ \A k \in 1..Len(s) : k # Len(s) => s'[k] = s[k]
  <2>1. s' = [s EXCEPT ![Len(s)].chunk_ids = Append(@, c)]
    BY <1>2 DEF PushChunkId, num_file_count
  <2> QED
    BY <1>1, <1>2, <2>1, PushProperties, PushIds
<1>3. ASSUME NEW f \in Files, NEW c \in Chunks, NewEntry(f, c)
      PROVE  /\ Len(s') = Len(s) + 1
             /\ s'[Len(s) + 1] = [file_path |-> f, chunk_ids |-> <<c>>]
             /\ \A k \in 1..Len(s) : s'[k] = s[k]
  <2>1. s' = Append(s, [file_path |-> f, chunk_ids |-> <<c>>])
    BY <1>3 DEF NewEntry
  <2> QED
    BY <1>1, <2>1
<1>4. ASSUME NEW i \in 1..Len(s), s' = RemoveAt(s, i)
      PROVE  \A j \in 1..Len(s') : \E k \in 1..Len(s) : k # i /\ s'[j] = s[k]
  <2>1. Len(s') = Len(s) - 1
        /\ \A j \in 1..(Len(s) - 1) : s'[j] = IF j < i THEN s[j] ELSE s[j + 1]
    BY <1>1, <1>4, RemoveAtProperties
  <2> HIDE DEF s
  <2> QED
    BY <1>1, <1>4, <2>1
<1> QED
  BY <1>1, <1>2, <1>3, <1>4

\* Only an upload makes the ids of an entry more, by one that was not listed.
LEMMA IdsInvNext ==
  ASSUME Undisturbed, TypeOK, LastEntryInv, DiskInv, ListingInv, NamesInv, IdsInv, [Next]_vars
  PROVE  IdsInv'
<1>1. CASE insert_to_struct /\ ~Die
  <2>1. request \in Upload /\ request.step = "insert" /\ running
    BY <1>1, RequestTypes DEF insert_to_struct, TypeOK
  <2>2. PICK f \in Files, c \in Chunks : f = request.file /\ c = request.chunk
    BY <2>1 DEF Upload
  <2>3. ~Listed(f, c)
    BY <2>1, <2>2 DEF NamesInv, Inserting, Removing
  <2>4. CASE request.directoryHasFile
    <3> DEFINE n == num_file_count
               ids == file_to_chunk_state[n].chunk_ids
    <3>1. n > 0 /\ file_to_chunk_state[n].file_path = f /\ PushChunkId(c)
      BY <1>1, <2>1, <2>2, <2>4 DEF LastEntryInv, insert_to_struct
    <3>2. n \in 1..n /\ ids \in Seq(Chunks)
      <4>1. n \in 1..n /\ file_to_chunk_state[n] \in Entry
        BY <3>1 DEF TypeOK, num_file_count
      <4> QED
        BY <4>1 DEF Entry
    <3>3. \A j \in 1..Len(ids) : ids[j] # c
      BY <2>3, <3>1, <3>2 DEF Listed, ListedIn, Lists, num_file_count
    <3>4. IsInjective(Append(ids, c))
      <4>1. IsInjective(ids)
        BY <3>2 DEF IdsInv
      <4> HIDE DEF ids
      <4> QED
        BY <3>2, <3>3, <4>1, AppendKeepsApart
    <3>5. /\ num_file_count' = n /\ file_to_chunk_state'[n].chunk_ids = Append(ids, c)
          /\ \A k \in 1..n : k # n => file_to_chunk_state'[k] = file_to_chunk_state[k]
      BY <3>1, ChangedEntries
    <3> QED
      BY <3>4, <3>5 DEF IdsInv
  <2>5. CASE ~request.directoryHasFile
    <3>1. NewEntry(f, c)
      BY <1>1, <2>2, <2>5 DEF insert_to_struct
    <3>2. /\ num_file_count' = num_file_count + 1
          /\ file_to_chunk_state'[num_file_count + 1] = [file_path |-> f, chunk_ids |-> <<c>>]
          /\ \A k \in 1..num_file_count : file_to_chunk_state'[k] = file_to_chunk_state[k]
      BY <3>1, ChangedEntries
    <3>4. num_file_count \in Nat /\ file_to_chunk_state'[num_file_count + 1].chunk_ids = <<c>>
      BY <3>2 DEF TypeOK, num_file_count
    <3>3. IsInjective(<<c>>)
      BY DEF IsInjective
    <3> QED
      BY <3>2, <3>3, <3>4 DEF IdsInv
  <2> QED
    BY <2>4, <2>5
<1>2. CASE remove_from_struct
  <2>1. CASE UNCHANGED file_to_chunk_state
    BY <2>1 DEF IdsInv, num_file_count
  <2>2. CASE ~UNCHANGED file_to_chunk_state
    <3>1. PICK i \in 1..num_file_count : file_to_chunk_state' = RemoveAt(file_to_chunk_state, i)
      BY <1>2, <2>2 DEF remove_from_struct
    <3> QED
      BY <3>1, ChangedEntries DEF IdsInv
  <2> QED
    BY <2>1, <2>2
<1>3. CASE UNCHANGED file_to_chunk_state
  BY <1>3 DEF IdsInv, num_file_count
<1>4. CASE Restart("run.sh")
  BY <1>3, <1>4 DEF Restart
<1>5. CASE UNCHANGED file_to_chunk_state \/ Die
  BY <1>3, <1>5, NamesInvDie
<1> QED
  BY <1>1, <1>2, <1>4, <1>5, StepCases
  DEF WriteChunk, CloseChunk, delete_file, UnlinkChunk, RemoveDirectory

SequentialInv == LastEntryInv /\ ListingInv /\ DiskInv /\ NamesInv /\ IdsInv

LEMMA SequentialInvariant ==
  ASSUME Undisturbed, ~Interleaved
  PROVE  Spec => []SequentialInv
<1>1. Init => SequentialInv
  BY LastEntryInvInit, ListingInvInit, DiskInvInit, NamesInvInit DEF SequentialInv
<1>2. TypeOK /\ SequentialInv /\ [Next]_vars => SequentialInv'
  BY LastEntryInvNext, ListingInvNext, DiskInvNext, NamesInvNext, IdsInvNext DEF SequentialInv
<1> QED
  BY <1>1, <1>2, TypeCorrect, PTL DEF Spec

\* While uploads do not interleave, deletions do not fail half-way and run.sh
\* does every restart, what the master is told between requests is what can be
\* read: the listing names every chunk on disk once, and nothing else.
THEOREM ListingIsTheDisk ==
  ASSUME Undisturbed, ~Interleaved
  PROVE  Spec => []ListingExact
<1>1. SequentialInv => ListingExact
  BY DEF SequentialInv, NamesInv, IdsInv, ListingExact, Serving, Idle, Removing, Inserting
<1> QED
  BY <1>1, SequentialInvariant, PTL

\* If, besides, fclose does not fail unnoticed, every chunk answered with 200
\* is served, whole, from then on.
THEOREM AckedIsServed ==
  ASSUME Undisturbed, ~Interleaved, "fclose" \notin Faults
  PROVE  Spec => []AckedServed
<1>1. TypeOK /\ SequentialInv /\ PartialNeverServed => AckedServed
  <2> SUFFICES ASSUME TypeOK, SequentialInv, PartialNeverServed, Serving,
                      NEW f \in Files, NEW c \in acked[f]
               PROVE  getFileDescriptor(f, c) \in Contents
    BY DEF AckedServed
  <2>1. c \in Chunks /\ disk[f][c] # Absent
    BY DEF SequentialInv, DiskInv, AckedPresent, TypeOK
  <2>2. Listed(f, c)
    BY <2>1 DEF SequentialInv, NamesInv, Serving, Idle, Removing, Inserting
  <2>3. getFileDescriptor(f, c) = disk[f][c] /\ disk[f][c] \in Stored
    BY <2>1, <2>2 DEF getFileDescriptor, TypeOK
  <2> QED
    BY <2>1, <2>3 DEF PartialNeverServed, Stored
<1> QED
  BY <1>1, SequentialInvariant, TypeCorrect, TornChunksStayHidden, PTL

-----------------------------------------------------------------------------
(* FirstChunkIsOwn: uploads may interleave *)

LEMMA EntryTypes ==
  ASSUME TypeOK, NEW i \in 1..num_file_count
  PROVE  LET entry == file_to_chunk_state[i] IN
         /\ entry.file_path \in Files /\ entry.chunk_ids \in Seq(Chunks)
         /\ Len(entry.chunk_ids) > 0 => entry.chunk_ids[1] \in Chunks
<1>1. file_to_chunk_state[i] \in Entry
  BY DEF TypeOK, num_file_count
<1> QED
  BY <1>1 DEF Entry

\* The listing stays, and the disk loses nothing but of a file being removed.
LEMMA FirstInvByDisk ==
  ASSUME TypeOK, FirstInv, UNCHANGED file_to_chunk_state,
         \A g \in Files, d \in Chunks :
           ~Removing(g)' => ~Removing(g) /\ (disk[g][d] # Absent => disk'[g][d] # Absent)
  PROVE  FirstInv'
<1>1. num_file_count' = num_file_count
  BY DEF num_file_count
<1> QED
  BY <1>1, EntryTypes DEF FirstInv

LEMMA FirstInvNext ==
  ASSUME Undisturbed, TypeOK, ListingInv, DiskInv, FirstInv, [Next]_vars
  PROVE  FirstInv'
<1>1. CASE \E f \in Files, c \in Chunks, v \in Contents : WriteChunk(f, c, v)
  <2> PICK f \in Files, c \in Chunks, v \in Contents : WriteChunk(f, c, v)
    BY <1>1
  <2> PICK w \in {v, Partial} : disk' = [disk EXCEPT ![f][c] = w]
    BY DEF WriteChunk
  <2>1. /\ request = Idle /\ file_to_chunk_state' = file_to_chunk_state /\ w # Absent
    BY ContentAssumption DEF WriteChunk
  <2>2. \A g \in Files, d \in Chunks :
          ~Removing(g) /\ (disk[g][d] # Absent => disk'[g][d] # Absent)
    BY <2>1 DEF TypeOK, Removing, Idle
  <2> QED
    BY <2>1, <2>2, FirstInvByDisk
<1>2. CASE insert_to_struct /\ ~Die
  <2>1. request \in Upload /\ request.step = "insert"
    BY <1>2, RequestTypes DEF insert_to_struct, TypeOK
  <2>2. PICK f \in Files, c \in Chunks : f = request.file /\ c = request.chunk
    BY <2>1 DEF Upload
  <2>3. /\ disk[f][c] # Absent /\ disk' = disk
        /\ \A g : ~Removing(g) /\ ~Removing(g)'
    BY <1>2, <2>1, <2>2, ContentAssumption DEF DiskInv, Upload, insert_to_struct, diskVars, Removing
  <2>4. CASE request.directoryHasFile
    <3> DEFINE n == num_file_count
               ids == file_to_chunk_state[n].chunk_ids
    <3>1. n \in Nat /\ n > 0 /\ PushChunkId(c)
      <4>1. n \in Nat
        BY DEF TypeOK, num_file_count
      <4>2. n # 0 /\ PushChunkId(c)
        BY <1>2, <2>2, <2>4 DEF insert_to_struct
      <4> QED
        BY <4>1, <4>2
    <3>2. n \in 1..n /\ ids \in Seq(Chunks) /\ Len(ids) > 0
      BY <3>1, EntryTypes DEF FirstInv
    <3>3. Append(ids, c)[1] = ids[1] /\ Len(Append(ids, c)) > 0
      <4> HIDE DEF ids
      <4>1. Len(ids) \in Nat /\ 1 \in 1..Len(ids)
        BY <3>2
      <4> QED
        BY <3>2, <4>1, AppendProperties
    <3>4. /\ num_file_count' = n
          /\ file_to_chunk_state'[n].file_path = file_to_chunk_state[n].file_path
          /\ file_to_chunk_state'[n].chunk_ids = Append(ids, c)
          /\ \A k \in 1..n : k # n => file_to_chunk_state'[k] = file_to_chunk_state[k]
      BY <3>1, ChangedEntries
    <3> HIDE DEF ids
    <3>5. ASSUME NEW k \in 1..n
          PROVE  /\ Len(file_to_chunk_state'[k].chunk_ids) > 0
                 /\ disk[file_to_chunk_state'[k].file_path][file_to_chunk_state'[k].chunk_ids[1]]
                      # Absent
      BY <2>3, <3>2, <3>3, <3>4 DEF FirstInv, ids
    <3> QED
      BY <2>3, <3>4, <3>5 DEF FirstInv
  <2>5. CASE ~request.directoryHasFile
    <3> DEFINE n == num_file_count
    <3>1. NewEntry(f, c) /\ n \in Nat
      BY <1>2, <2>2, <2>5 DEF insert_to_struct, TypeOK, num_file_count
    <3>2. /\ num_file_count' = n + 1
          /\ file_to_chunk_state'[n + 1] = [file_path |-> f, chunk_ids |-> <<c>>]
          /\ \A k \in 1..n : file_to_chunk_state'[k] = file_to_chunk_state[k]
      BY <3>1, ChangedEntries
    <3>3. /\ Len(file_to_chunk_state'[n + 1].chunk_ids) > 0
          /\ file_to_chunk_state'[n + 1].file_path = f
          /\ file_to_chunk_state'[n + 1].chunk_ids[1] = c
      BY <3>2
    <3>4. \A k \in 1..(n + 1) : k \in 1..n \/ k = n + 1
      BY <3>1
    <3> QED
      BY <2>3, <3>2, <3>3, <3>4 DEF FirstInv
  <2> QED
    BY <2>4, <2>5
<1>3. CASE CloseChunk
  <2>1. request \in Upload
    BY <1>3, RequestTypes DEF CloseChunk, TypeOK
  <2>2. PICK f \in Files, c \in Chunks, v \in Contents :
          f = request.file /\ c = request.chunk /\ v = request.data
    BY <2>1 DEF Upload
  <2>3. /\ disk' \in {disk, [disk EXCEPT ![f][c] = v]} /\ request.step = "close"
        /\ file_to_chunk_state' = file_to_chunk_state /\ v # Absent
    BY <1>3, <2>2, ContentAssumption DEF CloseChunk
  <2>4. \A g \in Files, d \in Chunks :
          ~Removing(g) /\ (disk[g][d] # Absent => disk'[g][d] # Absent)
    BY <2>3 DEF TypeOK, Removing
  <2> QED
    BY <2>3, <2>4, FirstInvByDisk
<1>4. CASE \E f \in Files : delete_file(f)
  <2>1. PICK f \in Files : delete_file(f)
    BY <1>4
  <2>2. request = Idle /\ UNCHANGED <<file_to_chunk_state, disk>>
    BY <2>1, RemovalSteps
  <2>3. \A g : ~Removing(g)
    BY <2>2 DEF Removing, Idle
  <2> QED
    BY <2>2, <2>3, FirstInvByDisk
<1>5. CASE UnlinkChunk
  <2>1. PICK f \in Files, c \in Chunks :
          /\ Removing(f)' /\ UNCHANGED <<file_to_chunk_state, request>>
          /\ disk' = [disk EXCEPT ![f][c] = Absent]
    BY <1>5, RemovalSteps
  <2>2. \A g \in Files, d \in Chunks :
          ~Removing(g)' => ~Removing(g) /\ disk'[g][d] = disk[g][d]
    BY <2>1 DEF TypeOK, Removing
  <2> QED
    BY <2>1, <2>2, FirstInvByDisk
<1>6. CASE RemoveDirectory
  <2>1. PICK f \in Files :
          /\ Removing(f)' /\ UNCHANGED <<file_to_chunk_state, disk>>
          /\ request'.file = request.file
    BY <1>6, RemovalSteps
  <2>2. \A g \in Files : ~Removing(g)' => ~Removing(g)
    BY <2>1 DEF Removing
  <2> QED
    BY <2>1, <2>2, FirstInvByDisk
<1>7. CASE remove_from_struct
  <2>1. request \in Removal /\ request.step = "remove" /\ request # Idle
    BY <1>7, RequestTypes DEF remove_from_struct, TypeOK, Idle
  <2>2. PICK f \in Files : f = request.file
    BY <2>1 DEF Removal
  <2>3. HasEntry(f)
    BY <1>7, <2>1, <2>2 DEF ListingInv, FileAgrees, Busy, remove_from_struct
  <2>4. PICK i \in 1..num_file_count :
          /\ file_to_chunk_state[i].file_path = f
          /\ file_to_chunk_state' = RemoveAt(file_to_chunk_state, i)
    BY <1>7, <2>2, <2>3 DEF remove_from_struct
  <2>5. disk' = disk
    BY <1>7 DEF remove_from_struct, diskVars
  <2>6. \A k \in 1..num_file_count : k # i => ~Removing(file_to_chunk_state[k].file_path)
    BY <2>2, <2>4 DEF Removing, ListingInv, UniquePaths
  <2>7. \A j \in 1..num_file_count' : \E k \in 1..num_file_count :
          k # i /\ file_to_chunk_state'[j] = file_to_chunk_state[k]
    BY <2>4, ChangedEntries
  <2> QED
    BY <2>5, <2>6, <2>7 DEF FirstInv
<1>8. CASE Restart("run.sh")
  BY <1>8, NothingListed DEF Restart, ListingInv
<1> QED
  BY <1>1, <1>2, <1>3, <1>4, <1>5, <1>6, <1>7, <1>8, StepCases, NamesInvDie, NamesInvUnchanged

\* Whatever uploads interleave and whatever chunks an entry collects, between
\* requests it begins with a chunk of its own file, and that chunk is on disk.
THEOREM EntriesBeginWithTheirOwn ==
  ASSUME Undisturbed
  PROVE  Spec => []FirstChunkIsOwn
<1>1. Init => FirstInv /\ ListingInv /\ DiskInv
  BY NamesInvInit, ListingInvInit, DiskInvInit
<1>2. TypeOK /\ ListingInv /\ DiskInv /\ FirstInv /\ [Next]_vars => FirstInv' /\ ListingInv' /\ DiskInv'
  BY FirstInvNext, ListingInvNext, DiskInvNext
<1>3. FirstInv => FirstChunkIsOwn
  BY DEF FirstInv, FirstChunkIsOwn, Serving, Idle, Removing
<1> QED
  BY <1>1, <1>2, <1>3, TypeCorrect, PTL DEF Spec
===============================================================================
