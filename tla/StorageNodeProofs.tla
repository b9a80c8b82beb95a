-------------------------- MODULE StorageNodeProofs --------------------------
(* Theorems about StorageNode, for every value of its constants. *)
EXTENDS StorageNode, SequenceLemmas, TLAPS

-----------------------------------------------------------------------------
(* Lemmas: what the two changes of the listing do to it *)

\* push_chunk_id on the last entry changes nothing but the chunk ids of that
\* entry.
LEMMA PushProperties ==
  ASSUME NEW s \in Seq(Entry), Len(s) > 0, NEW c \in Chunks, NEW t,
         t = [s EXCEPT ![Len(s)].chunk_ids = Append(@, c)]
  PROVE  /\ t \in Seq(Entry)
         /\ Len(t) = Len(s)
         /\ \A k \in 1..Len(s) : t[k].file_path = s[k].file_path
<1>1. s[Len(s)] \in Entry
  OBVIOUS
<1>2. [s[Len(s)] EXCEPT !.chunk_ids = Append(@, c)] \in Entry
  <2>1. Append(s[Len(s)].chunk_ids, c) \in Seq(Chunks)
    BY <1>1 DEF Entry
  <2> QED
    BY <1>1, <2>1 DEF Entry
<1>3. t = [s EXCEPT ![Len(s)] = [s[Len(s)] EXCEPT !.chunk_ids = Append(@, c)]]
  OBVIOUS
<1>4. t \in Seq(Entry) /\ Len(t) = Len(s)
  BY <1>2, <1>3
<1>5. ASSUME NEW k \in 1..Len(s)
      PROVE  t[k].file_path = s[k].file_path
  BY <1>1, <1>3 DEF Entry
<1> QED
  BY <1>4, <1>5

-----------------------------------------------------------------------------
(* Types *)

\* The values the variables start from and return to have the right types.
LEMMA EmptyTypes ==
  /\ << >> \in Seq(Entry)
  /\ NoAcks \in [Files -> SUBSET Chunks]
  /\ EmptyDisk \in [Files -> [Chunks -> Stored]]
<1>1. NoAcks \in [Files -> SUBSET Chunks]
  BY DEF NoAcks
<1>2. EmptyDisk \in [Files -> [Chunks -> Stored]]
  BY DEF EmptyDisk, Stored
<1> QED
  BY <1>1, <1>2

\* Writing or removing one chunk file leaves a disk.
LEMMA DiskUpdate ==
  ASSUME disk \in [Files -> [Chunks -> Stored]],
         NEW f \in Files, NEW c \in Chunks, NEW d \in Stored
  PROVE  [disk EXCEPT ![f][c] = d] \in [Files -> [Chunks -> Stored]]
  OBVIOUS

\* The requests under way, by their step.
LEMMA RequestTypes ==
  ASSUME request \in {Idle} \union Upload \union Removal
  PROVE  /\ request.step \in {"insert", "close"} => request \in Upload
         /\ request.step \in {"unlink", "remove"} => request \in Removal
         /\ request.step = "idle" <=> request = Idle
  BY DEF Idle, Upload, Removal

\* Type correctness: every variable keeps its type through every handler step,
\* fault, death and restart.
THEOREM TypeCorrect == Spec => []TypeOK
<1>1. Init => TypeOK
  <2> SUFFICES ASSUME Init
               PROVE  TypeOK
    OBVIOUS
  <2>1. /\ running \in BOOLEAN /\ directories \subseteq Files
        /\ shared \in Nat /\ torn \in BOOLEAN
    BY DEF Init
  <2>2. /\ file_to_chunk_state \in Seq(Entry) /\ file_mappings \in Seq(Entry)
        /\ message \in Seq(Entry) \union {Garbled}
    BY EmptyTypes DEF Init
  <2>3. /\ disk \in [Files -> [Chunks -> Stored]]
        /\ acked \in [Files -> SUBSET Chunks] /\ promised \in [Files -> SUBSET Chunks]
    BY EmptyTypes DEF Init
  <2>4. /\ request \in {Idle} \union Upload \union Removal
        /\ heartbeat \in {"recv", "pack", "free"}
    BY DEF Init
  <2> QED
    BY <2>1, <2>2, <2>3, <2>4 DEF TypeOK
<1>2. TypeOK /\ [Next]_vars => TypeOK'
  <2> SUFFICES ASSUME TypeOK, [Next]_vars
               PROVE  TypeOK'
    OBVIOUS
  <2> USE DEF TypeOK, diskVars, tcpVars
  <2>0. ASSUME Die
        PROVE  /\ running' \in BOOLEAN
               /\ file_to_chunk_state' \in Seq(Entry)
               /\ request' \in {Idle} \union Upload \union Removal
               /\ heartbeat' \in {"recv", "pack", "free"}
               /\ file_mappings' \in Seq(Entry)
               /\ shared' \in Nat
               /\ torn' \in BOOLEAN
               /\ message' \in Seq(Entry) \union {Garbled}
               /\ promised' \in [Files -> SUBSET Chunks]
    BY <2>0, EmptyTypes DEF Die, HeartbeatIdle
  <2>1. CASE \E f \in Files, c \in Chunks :
               PostExistingChunk(f, c) \/ WriteChunkFails(f, c)
    <3> PICK f \in Files, c \in Chunks : PostExistingChunk(f, c) \/ WriteChunkFails(f, c)
      BY <2>1
    <3>1. CASE PostExistingChunk(f, c)
      BY <3>1 DEF PostExistingChunk, Acknowledge
    <3>2. CASE WriteChunkFails(f, c)
      <4>1. disk' \in [Files -> [Chunks -> Stored]] /\ directories' \subseteq Files
        <5>1. Partial \in Stored
          BY DEF Stored
        <5>2. disk' \in {disk, [disk EXCEPT ![f][c] = Partial]} /\ directories' \subseteq Files
          BY <3>2 DEF WriteChunkFails
        <5>3. [disk EXCEPT ![f][c] = Partial] \in [Files -> [Chunks -> Stored]]
          BY <5>1, DiskUpdate
        <5> QED
          BY <5>2, <5>3
      <4> QED
        BY <2>0, <3>2, <4>1 DEF WriteChunkFails
    <3> QED
      BY <3>1, <3>2
  <2>2. CASE \E f \in Files, c \in Chunks, v \in Contents : WriteChunk(f, c, v)
    <3> PICK f \in Files, c \in Chunks, v \in Contents : WriteChunk(f, c, v)
      BY <2>2
    <3>1. disk' \in [Files -> [Chunks -> Stored]] /\ directories' \subseteq Files
      BY DEF WriteChunk, Stored
    <3>2. request' \in Upload
      BY DEF WriteChunk, Upload, DirectoryHasFiles
    <3> QED
      BY <3>1, <3>2 DEF WriteChunk
  <2>3. CASE insert_to_struct
    <3>1. CASE Die /\ UNCHANGED <<diskVars, acked>>
      BY <2>0, <3>1
    <3>2. CASE ~Die
      <4>1. request \in Upload
        BY <2>3, RequestTypes DEF insert_to_struct
      <4>2. request' \in Upload
        BY <2>3, <3>2, <4>1 DEF insert_to_struct, Upload
      <4>3. CASE request.directoryHasFile
        <5>1. num_file_count > 0 /\ PushChunkId(request.chunk)
          <6>1. num_file_count \in Nat
            BY DEF num_file_count
          <6>2. num_file_count # 0 /\ PushChunkId(request.chunk)
            BY <2>3, <3>2, <4>3 DEF insert_to_struct
          <6> QED
            BY <6>1, <6>2
        <5>2. file_to_chunk_state' \in Seq(Entry)
          BY <4>1, <5>1, PushProperties DEF PushChunkId, num_file_count, Upload
        <5>3. torn' \in BOOLEAN
          BY <5>1 DEF PushChunkId
        <5> QED
          BY <2>3, <3>2, <4>2, <4>3, <5>2, <5>3 DEF insert_to_struct
      <4>4. CASE ~request.directoryHasFile
        <5>1. file_to_chunk_state' \in Seq(Entry) /\ torn' \in BOOLEAN
          <6>1. NewEntry(request.file, request.chunk)
            BY <2>3, <3>2, <4>4 DEF insert_to_struct
          <6>2. request.file \in Files /\ request.chunk \in Chunks
            BY <4>1 DEF Upload
          <6>3. [file_path |-> request.file, chunk_ids |-> <<request.chunk>>] \in Entry
            BY <6>2 DEF Entry
          <6> QED
            BY <6>1, <6>3 DEF NewEntry
        <5> QED
          BY <2>3, <3>2, <4>2, <4>4, <5>1 DEF insert_to_struct
      <4> QED
        BY <4>3, <4>4
    <3> QED
      BY <2>3, <3>1, <3>2 DEF insert_to_struct
  <2>4. CASE CloseChunk
    <3>1. request \in Upload
      BY <2>4, RequestTypes DEF CloseChunk
    <3>2. request.file \in Files /\ request.chunk \in Chunks /\ request.data \in Stored
      BY <3>1 DEF Upload, Stored
    <3>3. disk' \in [Files -> [Chunks -> Stored]]
      <4>1. [disk EXCEPT ![request.file][request.chunk] = request.data]
              \in [Files -> [Chunks -> Stored]]
        BY <3>2, DiskUpdate
      <4> QED
        BY <2>4, <4>1 DEF CloseChunk
    <3>4. acked' \in [Files -> SUBSET Chunks]
      BY <2>4, <3>2 DEF CloseChunk, Acknowledge
    <3> QED
      BY <2>4, <3>3, <3>4 DEF CloseChunk
  <2>5. CASE \E f \in Files : delete_file(f)
    BY <2>5 DEF delete_file, Removal
  <2>6. CASE UnlinkChunk \/ RemoveDirectoryFails \/ RemoveDirectory
    <3>1. request \in Removal
      BY <2>6, RequestTypes DEF UnlinkChunk, RemoveDirectoryFails, RemoveDirectory
    <3>2. request.file \in Files /\ Absent \in Stored
      BY <3>1 DEF Removal, Stored
    <3>3. CASE UnlinkChunk
      <4>1. disk' \in [Files -> [Chunks -> Stored]]
        BY <3>2, <3>3, DiskUpdate DEF UnlinkChunk
      <4> QED
        BY <3>3, <4>1 DEF UnlinkChunk
    <3>4. CASE RemoveDirectoryFails
      BY <3>4 DEF RemoveDirectoryFails
    <3>5. CASE RemoveDirectory
      <4>1. request' \in Removal
        BY <3>1, <3>5 DEF RemoveDirectory, Removal
      <4> QED
        BY <3>5, <4>1 DEF RemoveDirectory
    <3> QED
      BY <2>6, <3>3, <3>4, <3>5
  <2>7. CASE remove_from_struct
    <3>1. request \in Removal
      BY <2>7, RequestTypes DEF remove_from_struct
    <3>2. file_to_chunk_state' \in Seq(Entry) /\ shared' \in Nat /\ torn' \in BOOLEAN
      <4>1. CASE HasEntry(request.file)
        <5> PICK i \in 1..num_file_count :
              /\ file_to_chunk_state' = RemoveAt(file_to_chunk_state, i)
              /\ shared' = IF i <= shared THEN shared - 1 ELSE shared
              /\ torn' = (torn \/ (heartbeat = "pack" /\ i <= shared))
          BY <2>7, <4>1 DEF remove_from_struct
        <5>1. file_to_chunk_state' \in Seq(Entry)
          BY RemoveAtProperties DEF num_file_count
        <5>2. shared' \in Nat
          BY DEF num_file_count
        <5>3. torn' \in BOOLEAN
          BY Zenon
        <5> QED
          BY <5>1, <5>2, <5>3
      <4>2. CASE ~HasEntry(request.file)
        BY <2>7, <4>2 DEF remove_from_struct
      <4> QED
        BY <4>1, <4>2
    <3>3. promised' \in [Files -> SUBSET Chunks]
      BY <2>7, <3>1 DEF remove_from_struct, Removal
    <3> QED
      BY <2>7, <3>2, <3>3 DEF remove_from_struct
  <2>8. CASE SnapshotListing
    BY <2>8 DEF SnapshotListing, num_file_count
  <2>9. CASE PackReport
    <3>1. CASE torn /\ Die
      BY <2>0, <2>9, <3>1 DEF PackReport
    <3>2. CASE ~(torn /\ Die)
      <4>1. message' \in {file_mappings, Garbled} /\ shared' = 0 /\ torn' = FALSE /\ heartbeat' = "free"
        BY <2>9, <3>2 DEF PackReport
      <4> QED
        BY <2>9, <3>2, <4>1 DEF PackReport
    <3> QED
      BY <3>1, <3>2
  <2>10. CASE FreeMappingsFaults \/ Kill
    BY <2>0, <2>10 DEF FreeMappingsFaults, Kill
  <2>11. CASE SendHealth
    BY <2>11, EmptyTypes DEF SendHealth, HeartbeatIdle
  <2>12. CASE \E mode \in Restarts : Restart(mode)
    BY <2>12, EmptyTypes DEF Restart
  <2>13. CASE UNCHANGED vars
    BY <2>13 DEF vars
  <2> QED
    BY <2>1, <2>2, <2>3, <2>4, <2>5, <2>6, <2>7, <2>8, <2>9, <2>10, <2>11, <2>12, <2>13
       DEF Next, HttpThread, TcpThread
<1> QED
  BY <1>1, <1>2, PTL DEF Spec

-----------------------------------------------------------------------------
(* Which files have an entry *)

\* Pushing a chunk id gives no file an entry and takes none away.
LEMMA PushKeepsEntries ==
  ASSUME TypeOK, num_file_count > 0, NEW c \in Chunks, PushChunkId(c), NEW f
  PROVE  HasEntry(f)' <=> HasEntry(f)
<1>1. /\ Len(file_to_chunk_state') = Len(file_to_chunk_state)
      /\ \A k \in 1..Len(file_to_chunk_state) :
           file_to_chunk_state'[k].file_path = file_to_chunk_state[k].file_path
  BY PushProperties DEF TypeOK, PushChunkId, num_file_count
<1> QED
  BY <1>1 DEF HasEntry, num_file_count

\* A new entry is one for its file.
LEMMA NewEntryEntries ==
  ASSUME TypeOK, NEW f \in Files, NEW c \in Chunks, NewEntry(f, c), NEW g
  PROVE  HasEntry(g)' <=> HasEntry(g) \/ g = f
<1> DEFINE s == file_to_chunk_state
<1>1. /\ Len(s') = Len(s) + 1 /\ s'[Len(s) + 1].file_path = f
      /\ \A k \in 1..Len(s) : s'[k] = s[k]
  BY DEF TypeOK, NewEntry
<1>2. Len(s) \in Nat
  BY DEF TypeOK
<1> HIDE DEF s
<1>3. (\E i \in 1..Len(s') : s'[i].file_path = g) <=> (\E i \in 1..Len(s) : s[i].file_path = g) \/ g = f
  BY <1>1, <1>2
<1> QED
  BY <1>3 DEF HasEntry, num_file_count, s

\* Removing an entry gives no file one.
LEMMA RemoveAtEntries ==
  ASSUME TypeOK, NEW i \in 1..num_file_count,
         file_to_chunk_state' = RemoveAt(file_to_chunk_state, i), NEW f, HasEntry(f)'
  PROVE  HasEntry(f)
<1>1. /\ Len(file_to_chunk_state') = Len(file_to_chunk_state) - 1
      /\ \A k \in 1..(Len(file_to_chunk_state) - 1) :
           file_to_chunk_state'[k] =
             IF k < i THEN file_to_chunk_state[k] ELSE file_to_chunk_state[k + 1]
  BY RemoveAtProperties DEF TypeOK, num_file_count
<1>2. PICK k \in 1..(Len(file_to_chunk_state) - 1) : file_to_chunk_state'[k].file_path = f
  BY <1>1 DEF HasEntry, num_file_count
<1>3. k \in 1..num_file_count /\ k + 1 \in 1..num_file_count
  BY <1>2 DEF TypeOK, num_file_count
<1> QED
  BY <1>1, <1>2, <1>3 DEF HasEntry

-----------------------------------------------------------------------------
(* Chunk files: WriteOnce and AckedPresent *)

\* The file an upload has opened holds a prefix of its body or all of it, and a
\* DELETE takes away only what is no longer promised.
DiskInv ==
  /\ ~running => request = Idle
  /\ request.step \in {"insert", "close"} =>
       disk[request.file][request.chunk] \in {request.data, Partial}
  /\ request.step = "unlink" => acked[request.file] = {}
  /\ AckedPresent

\* The steps that leave the disk, the acknowledgements and the request alone.
LEMMA DiskInvUnchanged ==
  ASSUME DiskInv, UNCHANGED <<disk, acked, request>>, running' = running \/ running'
  PROVE  DiskInv'
  BY DEF DiskInv, AckedPresent

\* The death of the process leaves the files.
LEMMA DiskInvDie ==
  ASSUME DiskInv, Die, UNCHANGED <<disk, acked>>
  PROVE  DiskInv'
  BY DEF DiskInv, AckedPresent, Die, Idle

LEMMA DiskInvInit == Init => DiskInv
  BY DEF Init, DiskInv, AckedPresent, Idle, NoAcks

\* Every step preserves DiskInv and overwrites no whole chunk.
LEMMA DiskInvNext ==
  ASSUME TypeOK, DiskInv, [Next]_vars
  PROVE  DiskInv' /\ WriteOnceStep
<1> USE DEF diskVars, tcpVars
<1>0. disk' = disk => WriteOnceStep
  BY DEF WriteOnceStep
<1>1. CASE \E f \in Files, c \in Chunks : PostExistingChunk(f, c)
  <2> PICK f \in Files, c \in Chunks : PostExistingChunk(f, c)
    BY <1>1
  <2>1. AckedPresent'
    BY DEF PostExistingChunk, Acknowledge, DiskInv, AckedPresent, TypeOK
  <2>2. request' = Idle /\ disk' = disk
    BY DEF PostExistingChunk
  <2> QED
    BY <1>0, <2>1, <2>2 DEF DiskInv, Idle
<1>2. CASE \E f \in Files, c \in Chunks : WriteChunkFails(f, c)
  <2> PICK f \in Files, c \in Chunks : WriteChunkFails(f, c)
    BY <1>2
  <2>1. disk[f][c] = Absent /\ acked' = acked /\ request' = Idle
        /\ disk' \in {disk, [disk EXCEPT ![f][c] = Partial]}
    BY DEF WriteChunkFails, Die
  <2>2. CASE disk' = disk
    BY <1>0, <2>1, <2>2 DEF DiskInv, AckedPresent, Idle
  <2>3. CASE disk' = [disk EXCEPT ![f][c] = Partial]
    <3>1. AckedPresent'
      BY <2>1, <2>3, ContentAssumption DEF DiskInv, AckedPresent, TypeOK
    <3>2. WriteOnceStep
      BY <2>1, <2>3, ContentAssumption DEF TypeOK, WriteOnceStep
    <3> QED
      BY <2>1, <3>1, <3>2 DEF DiskInv, Idle
  <2> QED
    BY <2>1, <2>2, <2>3
<1>3. CASE \E f \in Files, c \in Chunks, v \in Contents : WriteChunk(f, c, v)
  <2> PICK f \in Files, c \in Chunks, v \in Contents : WriteChunk(f, c, v)
    BY <1>3
  <2> PICK d \in {v, Partial} : disk' = [disk EXCEPT ![f][c] = d]
    BY DEF WriteChunk
  <2>1. /\ disk[f][c] = Absent /\ acked' = acked /\ request'.step = "insert"
        /\ request'.file = f /\ request'.chunk = c /\ request'.data = v
        /\ running'
    BY DEF WriteChunk
  <2>2. AckedPresent' /\ WriteOnceStep
    BY <2>1, ContentAssumption DEF DiskInv, AckedPresent, TypeOK, WriteOnceStep
  <2>3. disk'[f][c] = d
    BY DEF TypeOK
  <2> QED
    BY <2>1, <2>2, <2>3 DEF DiskInv
<1>4. CASE insert_to_struct
  <2>1. CASE Die
    BY <1>0, <1>4, <2>1, DiskInvDie DEF insert_to_struct
  <2>2. CASE ~Die
    <3>1. request \in Upload
      BY <1>4, RequestTypes DEF insert_to_struct, TypeOK
    <3>2. /\ request' = [request EXCEPT !.step = "close"] /\ disk' = disk /\ acked' = acked
          /\ running'
      BY <1>4, <2>2 DEF insert_to_struct
    <3>3. /\ request'.step = "close" /\ request'.file = request.file
          /\ request'.chunk = request.chunk /\ request'.data = request.data
      BY <3>1, <3>2 DEF Upload
    <3>4. disk[request.file][request.chunk] \in {request.data, Partial}
      BY <1>4 DEF insert_to_struct, DiskInv
    <3>5. AckedPresent'
      BY <3>2 DEF DiskInv, AckedPresent
    <3> QED
      BY <1>0, <3>2, <3>3, <3>4, <3>5 DEF DiskInv
  <2> QED
    BY <2>1, <2>2
<1>5. CASE CloseChunk
  <2>1. request \in Upload
    BY <1>5, RequestTypes DEF CloseChunk, TypeOK
  <2>2. PICK f \in Files, c \in Chunks, v \in Contents :
          f = request.file /\ c = request.chunk /\ v = request.data
    BY <2>1 DEF Upload
  <2>3. /\ disk[f][c] \in {v, Partial} /\ disk' \in {disk, [disk EXCEPT ![f][c] = v]}
        /\ acked' = [acked EXCEPT ![f] = @ \union {c}] /\ request' = Idle
    BY <1>5, <2>2 DEF CloseChunk, Acknowledge, DiskInv
  <2>4. WriteOnceStep
    BY <2>3, ContentAssumption DEF TypeOK, WriteOnceStep
  <2>5. ASSUME NEW g \in Files, NEW e \in acked'[g]
        PROVE  disk'[g][e] # Absent
    BY <2>3, ContentAssumption DEF DiskInv, AckedPresent, TypeOK
  <2> QED
    BY <2>3, <2>4, <2>5 DEF DiskInv, AckedPresent, Idle
<1>6. CASE \E f \in Files : delete_file(f)
  <2> PICK f \in Files : delete_file(f)
    BY <1>6
  <2>1. /\ disk' = disk /\ acked' = [acked EXCEPT ![f] = {}]
        /\ request'.step = "unlink" /\ request'.file = f /\ running'
    BY DEF delete_file
  <2> QED
    BY <1>0, <2>1 DEF DiskInv, AckedPresent, TypeOK
<1>7. CASE UnlinkChunk
  <2>1. request \in Removal
    BY <1>7, RequestTypes DEF UnlinkChunk, TypeOK
  <2>2. PICK f \in Files, c \in Chunks :
          f = request.file /\ disk' = [disk EXCEPT ![f][c] = Absent]
    BY <1>7, <2>1 DEF UnlinkChunk, Removal
  <2>3. /\ acked' = acked /\ request' = request /\ request.step = "unlink" /\ acked[f] = {}
        /\ running'
    BY <1>7, <2>2 DEF UnlinkChunk, DiskInv
  <2>4. AckedPresent' /\ WriteOnceStep
    BY <2>2, <2>3 DEF DiskInv, AckedPresent, TypeOK, WriteOnceStep
  <2> QED
    BY <2>2, <2>3, <2>4 DEF DiskInv
<1>8. CASE RemoveDirectoryFails \/ RemoveDirectory \/ remove_from_struct
  <2>1. disk' = disk /\ acked' = acked /\ running'
    BY <1>8 DEF RemoveDirectoryFails, RemoveDirectory, remove_from_struct
  <2>2. request'.step \in {"idle", "remove"}
    <3>1. CASE RemoveDirectoryFails \/ remove_from_struct
      BY <3>1 DEF RemoveDirectoryFails, remove_from_struct, Idle
    <3>2. CASE RemoveDirectory
      <4>1. request \in Removal
        BY <3>2, RequestTypes DEF RemoveDirectory, TypeOK
      <4> QED
        BY <3>2, <4>1 DEF RemoveDirectory, Removal
    <3> QED
      BY <1>8, <3>1, <3>2
  <2> QED
    BY <1>0, <2>1, <2>2 DEF DiskInv, AckedPresent
<1>9. CASE SnapshotListing \/ SendHealth
  BY <1>0, <1>9, DiskInvUnchanged DEF SnapshotListing, SendHealth
<1>10. CASE PackReport
  <2>1. CASE Die
    BY <1>0, <1>10, <2>1, DiskInvDie DEF PackReport
  <2>2. CASE ~Die
    <3>1. UNCHANGED <<running, disk, acked, request>>
      BY <1>10, <2>2 DEF PackReport
    <3> QED
      BY <1>0, <3>1, DiskInvUnchanged
  <2> QED
    BY <2>1, <2>2
<1>11. CASE FreeMappingsFaults \/ Kill
  BY <1>0, <1>11, DiskInvDie DEF FreeMappingsFaults, Kill
<1>12. CASE \E mode \in Restarts : Restart(mode)
  <2>1. CASE UNCHANGED <<disk, acked, request>>
    BY <1>0, <1>12, <2>1, DiskInvUnchanged DEF Restart
  <2>2. CASE disk' = EmptyDisk /\ acked' = NoAcks /\ request' = request
    <3>1. request = Idle
      BY <1>12 DEF Restart, DiskInv
    <3>2. AckedPresent' /\ WriteOnceStep
      BY <2>2 DEF AckedPresent, NoAcks, EmptyDisk, WriteOnceStep
    <3> QED
      BY <2>2, <3>1, <3>2 DEF DiskInv, Idle
  <2> QED
    BY <1>12, <2>1, <2>2 DEF Restart
<1>13. CASE UNCHANGED vars
  BY <1>0, <1>13, DiskInvUnchanged DEF vars
<1> QED
  BY <1>1, <1>2, <1>3, <1>4, <1>5, <1>6, <1>7, <1>8, <1>9, <1>10, <1>11, <1>12, <1>13
     DEF Next, HttpThread, TcpThread

\* A chunk answered with 200 stays on disk until a DELETE of its file begins.
THEOREM AckedStaysPresent == Spec => []AckedPresent
<1>1. TypeOK /\ DiskInv /\ [Next]_vars => DiskInv'
  BY DiskInvNext
<1>2. DiskInv => AckedPresent
  BY DEF DiskInv
<1> QED
  BY <1>1, <1>2, DiskInvInit, TypeCorrect, PTL DEF Spec

\* A whole chunk is never overwritten.
THEOREM WholeChunksAreFinal == Spec => WriteOnce
<1>1. TypeOK /\ DiskInv /\ [Next]_vars => DiskInv'
  BY DiskInvNext
<1>2. TypeOK /\ DiskInv /\ [Next]_vars => [WriteOnceStep]_vars
  BY DiskInvNext
<1> QED
  BY <1>1, <1>2, DiskInvInit, TypeCorrect, PTL DEF Spec, WriteOnce

-----------------------------------------------------------------------------
(* Torn chunks: PartialNeverServed *)

\* A directory that the listing names holds no torn chunk but the one being
\* written: a directory enters the listing with its first chunk, and what
\* tears a later one ends the process, and the listing with it.
PartialInv ==
  /\ ~running => request = Idle /\ file_to_chunk_state = << >>
  /\ request.step = "insert" /\ ~request.directoryHasFile =>
       \A c \in Chunks \ {request.chunk} : disk[request.file][c] = Absent
  /\ \A f \in Files, c \in Chunks :
       HasEntry(f) /\ disk[f][c] = Partial =>
         request.step \in {"insert", "close"} /\ f = request.file /\ c = request.chunk

LEMMA PartialInvInit == Init => PartialInv
  BY DEF Init, PartialInv, Idle, HasEntry, num_file_count

LEMMA PartialInvDie == Die => PartialInv'
  BY DEF Die, PartialInv, Idle, HasEntry, num_file_count

LEMMA PartialInvUnchanged ==
  ASSUME PartialInv, UNCHANGED <<disk, file_to_chunk_state, request>>, running' = running \/ running'
  PROVE  PartialInv'
  BY DEF PartialInv, HasEntry, num_file_count

\* Every step preserves PartialInv, unless fclose may fail.
LEMMA PartialInvNext ==
  ASSUME "fclose" \notin Faults, TypeOK, PartialInv, [Next]_vars
  PROVE  PartialInv'
<1> USE DEF diskVars, tcpVars
<1>1. CASE \E f \in Files, c \in Chunks : PostExistingChunk(f, c)
  BY <1>1, PartialInvUnchanged DEF PostExistingChunk
<1>2. CASE \E f \in Files, c \in Chunks : WriteChunkFails(f, c)
  BY <1>2, PartialInvDie DEF WriteChunkFails
<1>3. CASE \E f \in Files, c \in Chunks, v \in Contents : WriteChunk(f, c, v)
  <2> PICK f \in Files, c \in Chunks, v \in Contents : WriteChunk(f, c, v)
    BY <1>3
  <2> PICK d \in {v, Partial} : disk' = [disk EXCEPT ![f][c] = d]
    BY DEF WriteChunk
  <2>1. /\ running' /\ request = Idle /\ file_to_chunk_state' = file_to_chunk_state
        /\ request'.step = "insert" /\ request'.file = f /\ request'.chunk = c
        /\ request'.directoryHasFile = DirectoryHasFiles(f)
    BY DEF WriteChunk
  <2>2. ASSUME ~DirectoryHasFiles(f), NEW e \in Chunks \ {c}
        PROVE  disk'[f][e] = Absent
    BY <2>2 DEF DirectoryHasFiles, TypeOK
  <2>3. ASSUME NEW g \in Files, NEW e \in Chunks, HasEntry(g)', disk'[g][e] = Partial
        PROVE  g = f /\ e = c
    <3>1. HasEntry(g) /\ ~(request.step \in {"insert", "close"})
      BY <2>1, <2>3 DEF HasEntry, num_file_count, Idle
    <3>2. disk[g][e] # Partial
      BY <3>1 DEF PartialInv
    <3> QED
      BY <2>3, <3>2 DEF TypeOK
  <2> QED
    BY <2>1, <2>2, <2>3 DEF PartialInv
<1>4. CASE insert_to_struct
  <2>1. CASE Die
    BY <2>1, PartialInvDie
  <2>2. CASE ~Die
    <3>1. request \in Upload
      BY <1>4, RequestTypes DEF insert_to_struct, TypeOK
    <3>2. PICK f \in Files, c \in Chunks : f = request.file /\ c = request.chunk
      BY <3>1 DEF Upload
    <3>3. /\ request' = [request EXCEPT !.step = "close"] /\ disk' = disk /\ running'
          /\ request.step = "insert"
      BY <1>4, <2>2 DEF insert_to_struct
    <3>4. request'.step = "close" /\ request'.file = f /\ request'.chunk = c
      BY <3>1, <3>2, <3>3 DEF Upload
    <3>5. ASSUME NEW g \in Files, NEW e \in Chunks, HasEntry(g)', disk[g][e] = Partial
          PROVE  g = f /\ e = c
      <4>1. CASE request.directoryHasFile
        <5>1. num_file_count > 0 /\ PushChunkId(c)
          <6>1. num_file_count \in Nat
            BY DEF num_file_count, TypeOK
          <6>2. num_file_count # 0 /\ PushChunkId(c)
            BY <1>4, <2>2, <3>2, <4>1 DEF insert_to_struct
          <6> QED
            BY <6>1, <6>2
        <5>2. HasEntry(g)
          BY <3>5, <5>1, PushKeepsEntries
        <5> QED
          BY <3>2, <3>5, <5>2 DEF PartialInv
      <4>2. CASE ~request.directoryHasFile
        <5>1. NewEntry(f, c)
          BY <1>4, <2>2, <3>2, <4>2 DEF insert_to_struct
        <5>2. HasEntry(g) \/ g = f
          BY <3>5, <5>1, NewEntryEntries
        <5>3. CASE HasEntry(g)
          BY <3>2, <3>5, <5>3 DEF PartialInv
        <5>4. CASE g = f
          <6>1. e # c => disk[f][e] = Absent
            BY <3>2, <3>3, <4>2 DEF PartialInv
          <6> QED
            BY <3>5, <5>4, <6>1, ContentAssumption
        <5> QED
          BY <5>2, <5>3, <5>4
      <4> QED
        BY <4>1, <4>2
    <3> QED
      BY <3>3, <3>4, <3>5 DEF PartialInv
  <2> QED
    BY <2>1, <2>2
<1>5. CASE CloseChunk
  <2>1. request \in Upload
    BY <1>5, RequestTypes DEF CloseChunk, TypeOK
  <2>2. PICK f \in Files, c \in Chunks, v \in Contents :
          f = request.file /\ c = request.chunk /\ v = request.data
    BY <2>1 DEF Upload
  <2>3. /\ disk' = [disk EXCEPT ![f][c] = v] /\ request' = Idle /\ running'
        /\ file_to_chunk_state' = file_to_chunk_state
    BY <1>5, <2>2 DEF CloseChunk
  <2>4. ASSUME NEW g \in Files, NEW e \in Chunks, HasEntry(g)'
        PROVE  disk'[g][e] # Partial
    <3>1. HasEntry(g)
      BY <2>3, <2>4 DEF HasEntry, num_file_count
    <3>2. CASE g = f /\ e = c
      BY <2>3, <3>2, ContentAssumption DEF TypeOK
    <3>3. CASE ~(g = f /\ e = c)
      <4>1. disk[g][e] # Partial
        BY <2>2, <3>1, <3>3 DEF PartialInv
      <4> QED
        BY <2>3, <3>3, <4>1 DEF TypeOK
    <3> QED
      BY <3>2, <3>3
  <2> QED
    BY <2>3, <2>4 DEF PartialInv, Idle
<1>6. CASE \E f \in Files : delete_file(f)
  <2>1. /\ UNCHANGED <<disk, file_to_chunk_state>> /\ running' /\ request = Idle
        /\ request'.step = "unlink"
    BY <1>6 DEF delete_file
  <2> QED
    BY <2>1 DEF PartialInv, Idle, HasEntry, num_file_count
<1>7. CASE UnlinkChunk
  <2>1. request \in Removal
    BY <1>7, RequestTypes DEF UnlinkChunk, TypeOK
  <2>2. PICK f \in Files, c \in Chunks : disk' = [disk EXCEPT ![f][c] = Absent]
    BY <1>7, <2>1 DEF UnlinkChunk, Removal
  <2>3. /\ UNCHANGED <<file_to_chunk_state, request>> /\ running' /\ request.step = "unlink"
    BY <1>7 DEF UnlinkChunk
  <2>4. ASSUME NEW g \in Files, NEW e \in Chunks, disk'[g][e] = Partial
        PROVE  disk[g][e] = Partial
    BY <2>2, <2>4, ContentAssumption DEF TypeOK
  <2> QED
    BY <2>3, <2>4 DEF PartialInv, HasEntry, num_file_count
<1>8. CASE RemoveDirectoryFails \/ RemoveDirectory
  <2>1. /\ UNCHANGED <<disk, file_to_chunk_state>> /\ running' /\ request.step = "unlink"
    BY <1>8 DEF RemoveDirectoryFails, RemoveDirectory
  <2>2. request'.step \in {"idle", "remove"}
    <3>1. CASE RemoveDirectoryFails
      BY <3>1 DEF RemoveDirectoryFails, Idle
    <3>2. CASE RemoveDirectory
      <4>1. request \in Removal
        BY <3>2, RequestTypes DEF RemoveDirectory, TypeOK
      <4> QED
        BY <3>2, <4>1 DEF RemoveDirectory, Removal
    <3> QED
      BY <1>8, <3>1, <3>2
  <2> QED
    BY <2>1, <2>2 DEF PartialInv, HasEntry, num_file_count
<1>9. CASE remove_from_struct
  <2>1. disk' = disk /\ running' /\ request.step = "remove" /\ request' = Idle
    BY <1>9 DEF remove_from_struct
  <2>2. ASSUME NEW g \in Files, HasEntry(g)'
        PROVE  HasEntry(g)
    <3>1. CASE HasEntry(request.file)
      <4> PICK i \in 1..num_file_count : file_to_chunk_state' = RemoveAt(file_to_chunk_state, i)
        BY <1>9, <3>1 DEF remove_from_struct
      <4> QED
        BY <2>2, RemoveAtEntries
    <3>2. CASE ~HasEntry(request.file)
      <4>1. file_to_chunk_state' = file_to_chunk_state
        BY <1>9, <3>2 DEF remove_from_struct
      <4> QED
        BY <2>2, <4>1 DEF HasEntry, num_file_count
    <3> QED
      BY <3>1, <3>2
  <2> QED
    BY <2>1, <2>2 DEF PartialInv, Idle
<1>10. CASE SnapshotListing \/ SendHealth
  BY <1>10, PartialInvUnchanged DEF SnapshotListing, SendHealth
<1>11. CASE PackReport
  <2>1. CASE Die
    BY <2>1, PartialInvDie
  <2>2. CASE ~Die
    BY <1>11, <2>2, PartialInvUnchanged DEF PackReport
  <2> QED
    BY <2>1, <2>2
<1>12. CASE FreeMappingsFaults \/ Kill
  BY <1>12, PartialInvDie DEF FreeMappingsFaults, Kill
<1>13. CASE \E mode \in Restarts : Restart(mode)
  <2>1. /\ running' /\ request' = Idle /\ file_to_chunk_state' = << >>
    BY <1>13 DEF Restart, PartialInv
  <2> QED
    BY <2>1 DEF PartialInv, Idle, HasEntry, num_file_count
<1>14. CASE UNCHANGED vars
  BY <1>14, PartialInvUnchanged DEF vars
<1> QED
  BY <1>1, <1>2, <1>3, <1>4, <1>5, <1>6, <1>7, <1>8, <1>9, <1>10, <1>11, <1>12, <1>13, <1>14
     DEF Next, HttpThread, TcpThread

\* As long as fclose does not fail unnoticed, a torn chunk is never served,
\* whatever else fails and however the process dies and is restarted.
THEOREM TornChunksStayHidden ==
  ASSUME "fclose" \notin Faults
  PROVE  Spec => []PartialNeverServed
<1>1. TypeOK /\ PartialInv /\ [Next]_vars => PartialInv'
  BY PartialInvNext
<1>2. PartialInv => PartialNeverServed
  <2> SUFFICES ASSUME PartialInv, Serving, NEW f \in Files, NEW c \in Chunks
               PROVE  getFileDescriptor(f, c) # Partial
    BY DEF PartialNeverServed
  <2>1. Listed(f, c) => HasEntry(f)
    BY DEF Listed, ListedIn, Lists, HasEntry, num_file_count
  <2>2. HasEntry(f) => disk[f][c] # Partial
    BY DEF PartialInv, Serving, Idle
  <2> QED
    BY <2>1, <2>2, ContentAssumption DEF getFileDescriptor
<1> QED
  BY <1>1, <1>2, PartialInvInit, TypeCorrect, PTL DEF Spec

-----------------------------------------------------------------------------
(* Listing and directories: EntryPerDirectory, NoIndexUnderflow, DeleteForgets *)

UniquePaths ==
  \A i, j \in 1..num_file_count :
    file_to_chunk_state[i].file_path = file_to_chunk_state[j].file_path => i = j

Busy(f) == request # Idle /\ f = request.file

\* How the listing and the disk agree about one file at every step of an upload
\* and a delete. No directory is left empty except by the delete that is about
\* to remove it: otherwise a DELETE could find a directory and no entry.
FileAgrees(f) ==
  /\ ~Busy(f) => (HasEntry(f) <=> DirectoryHasFiles(f))
  /\ Busy(f) /\ request.step = "insert" =>
       DirectoryHasFiles(f) /\ (HasEntry(f) <=> request.directoryHasFile)
  /\ Busy(f) /\ request.step = "close" => DirectoryHasFiles(f) /\ HasEntry(f)
  /\ Busy(f) /\ request.step = "unlink" => HasEntry(f)
  /\ Busy(f) /\ request.step = "remove" => HasEntry(f) /\ ~DirectoryHasFiles(f)
  /\ f \in directories => DirectoryHasFiles(f) \/ (Busy(f) /\ request.step = "unlink")

ListingInv ==
  /\ ~running => request = Idle /\ file_to_chunk_state = << >>
  /\ UniquePaths
  /\ running => \A f \in Files : FileAgrees(f)

\* The environment in which the listing and the disk stay in step: of the
\* system calls only fclose may fail, and run.sh does every restart.
Undisturbed == Faults \subseteq {"fclose"} /\ Restarts \subseteq {"run.sh"}

LEMMA SameListing ==
  ASSUME UNCHANGED file_to_chunk_state
  PROVE  (UniquePaths' <=> UniquePaths) /\ \A f \in Files : HasEntry(f)' <=> HasEntry(f)
  BY DEF UniquePaths, HasEntry, num_file_count

LEMMA PushKeepsUnique ==
  ASSUME TypeOK, num_file_count > 0, NEW c \in Chunks, PushChunkId(c), UniquePaths
  PROVE  UniquePaths'
<1>1. /\ Len(file_to_chunk_state') = Len(file_to_chunk_state)
      /\ \A k \in 1..Len(file_to_chunk_state) :
           file_to_chunk_state'[k].file_path = file_to_chunk_state[k].file_path
  BY PushProperties DEF TypeOK, PushChunkId, num_file_count
<1> QED
  BY <1>1 DEF UniquePaths, num_file_count

LEMMA NewEntryKeepsUnique ==
  ASSUME TypeOK, NEW f \in Files, NEW c \in Chunks, NewEntry(f, c), UniquePaths, ~HasEntry(f)
  PROVE  UniquePaths'
<1> DEFINE s == file_to_chunk_state
<1>1. /\ Len(s') = Len(s) + 1 /\ s'[Len(s) + 1].file_path = f
      /\ \A k \in 1..Len(s) : s'[k] = s[k]
  BY DEF TypeOK, NewEntry
<1>2. Len(s) \in Nat /\ \A k \in 1..Len(s) : s[k].file_path # f
  BY DEF TypeOK, HasEntry, num_file_count
<1>3. \A i, j \in 1..Len(s) : s[i].file_path = s[j].file_path => i = j
  BY DEF UniquePaths, num_file_count
<1> HIDE DEF s
<1>4. \A i, j \in 1..Len(s') : s'[i].file_path = s'[j].file_path => i = j
  BY <1>1, <1>2, <1>3
<1> QED
  BY <1>4 DEF UniquePaths, num_file_count, s

\* With unique paths, removing the entry of a file removes the file from the
\* listing and leaves the entries of the others, which stay unique.
LEMMA RemoveAtForgets ==
  ASSUME TypeOK, UniquePaths, NEW i \in 1..num_file_count,
         file_to_chunk_state' = RemoveAt(file_to_chunk_state, i)
  PROVE  /\ UniquePaths'
         /\ \A g \in Files :
              HasEntry(g)' <=> HasEntry(g) /\ g # file_to_chunk_state[i].file_path
         /\ \A g \in Files, c \in Chunks :
              Listed(g, c)' <=> Listed(g, c) /\ g # file_to_chunk_state[i].file_path
<1> DEFINE s == file_to_chunk_state
           n == Len(s)
<1>1. n \in Nat /\ i \in 1..n
  BY DEF TypeOK, num_file_count
<1>2. /\ Len(s') = n - 1
      /\ \A k \in 1..(n - 1) : s'[k] = IF k < i THEN s[k] ELSE s[k + 1]
  BY RemoveAtProperties DEF TypeOK, num_file_count
<1>3. \A j, k \in 1..n : s[j].file_path = s[k].file_path => j = k
  BY DEF UniquePaths, num_file_count
<1> HIDE DEF s, n
<1>4. ASSUME NEW k \in 1..n, k # i
      PROVE  \E j \in 1..(n - 1) : s'[j] = s[k]
  <2>1. CASE k < i
    BY <1>1, <1>2, <2>1
  <2>2. CASE k > i
    <3>1. k - 1 \in 1..(n - 1) /\ ~(k - 1 < i) /\ (k - 1) + 1 = k
      BY <1>1, <2>2
    <3> QED
      BY <1>2, <3>1
  <2> QED
    BY <1>1, <1>4, <2>1, <2>2
<1>5. ASSUME NEW j \in 1..(n - 1)
      PROVE  \E k \in 1..n : k # i /\ s'[j] = s[k]
  BY <1>1, <1>2
<1>6. \A j, k \in 1..(n - 1) : s'[j].file_path = s'[k].file_path => j = k
  <2> SUFFICES ASSUME NEW j \in 1..(n - 1), NEW k \in 1..(n - 1),
                      s'[j].file_path = s'[k].file_path
               PROVE  j = k
    OBVIOUS
  <2> DEFINE at(m) == IF m < i THEN m ELSE m + 1
  <2>1. at(j) \in 1..n /\ at(k) \in 1..n /\ s'[j] = s[at(j)] /\ s'[k] = s[at(k)]
    BY <1>1, <1>2
  <2>2. at(j) = at(k)
    BY <1>3, <2>1
  <2> QED
    BY <1>1, <2>2
<1>7. UniquePaths'
  BY <1>2, <1>6 DEF UniquePaths, num_file_count, s
<1>8. ASSUME NEW g
      PROVE  HasEntry(g)' <=> HasEntry(g) /\ g # s[i].file_path
  <2>1. (\E j \in 1..(n - 1) : s'[j].file_path = g)
          <=> (\E k \in 1..n : s[k].file_path = g) /\ g # s[i].file_path
    BY <1>1, <1>3, <1>4, <1>5
  <2> QED
    BY <1>2, <2>1 DEF HasEntry, num_file_count, s, n
<1>9. ASSUME NEW g, NEW c
      PROVE  Listed(g, c)' <=> Listed(g, c) /\ g # s[i].file_path
  <2>1. \A entry : Lists(entry, g, c) => entry.file_path = g
    BY DEF Lists
  <2>2. (\E j \in 1..(n - 1) : Lists(s'[j], g, c))
          <=> (\E k \in 1..n : Lists(s[k], g, c)) /\ g # s[i].file_path
    BY <1>1, <1>3, <1>4, <1>5, <2>1
  <2> QED
    BY <1>2, <2>2 DEF Listed, ListedIn, s, n
<1> QED
  BY <1>7, <1>8, <1>9 DEF s

LEMMA ListingInvInit == Init => ListingInv
<1> SUFFICES ASSUME Init
             PROVE  ListingInv
  OBVIOUS
<1>1. UniquePaths /\ \A f \in Files : ~HasEntry(f)
  BY DEF Init, UniquePaths, HasEntry, num_file_count
<1>2. \A f \in Files : ~DirectoryHasFiles(f) /\ ~Busy(f) /\ f \notin directories
  BY DEF Init, DirectoryHasFiles, EmptyDisk, Busy
<1> QED
  BY <1>1, <1>2 DEF ListingInv, FileAgrees, Init

LEMMA ListingInvDie == Die => ListingInv'
  BY DEF Die, ListingInv, Idle, UniquePaths, num_file_count

LEMMA ListingInvUnchanged ==
  ASSUME ListingInv, UNCHANGED <<running, diskVars, file_to_chunk_state, request>>
  PROVE  ListingInv'
<1>1. UniquePaths' /\ \A f \in Files : HasEntry(f)' <=> HasEntry(f)
  BY SameListing DEF ListingInv
<1>2. \A f \in Files : (DirectoryHasFiles(f)' <=> DirectoryHasFiles(f)) /\ (Busy(f)' <=> Busy(f))
  BY DEF DirectoryHasFiles, Busy, diskVars
<1> QED
  BY <1>1, <1>2 DEF ListingInv, FileAgrees, diskVars

\* A step that keeps the process running and leaves the files it does not
\* name alone preserves the invariant if it does so for the file it names.
LEMMA ListingInvByFile ==
  ASSUME ListingInv, running, running', UniquePaths', NEW f \in Files, FileAgrees(f)',
         \A g \in Files \ {f} :
           /\ ~Busy(g) /\ ~Busy(g)'
           /\ HasEntry(g)' <=> HasEntry(g)
           /\ DirectoryHasFiles(g)' <=> DirectoryHasFiles(g)
           /\ g \in directories' => g \in directories
  PROVE  ListingInv'
<1>1. ASSUME NEW g \in Files \ {f}
      PROVE  FileAgrees(g)'
  BY <1>1 DEF ListingInv, FileAgrees
<1> QED
  BY <1>1 DEF ListingInv

\* Every step preserves ListingInv in an undisturbed environment.
LEMMA ListingInvNext ==
  ASSUME Undisturbed, TypeOK, ListingInv, [Next]_vars
  PROVE  ListingInv'
<1> USE DEF diskVars, tcpVars
<1>1. CASE \E f \in Files, c \in Chunks : PostExistingChunk(f, c)
  BY <1>1, ListingInvUnchanged DEF PostExistingChunk
<1>2. CASE \E f \in Files, c \in Chunks : WriteChunkFails(f, c)
  BY <1>2, ListingInvDie DEF WriteChunkFails
<1>3. CASE \E f \in Files, c \in Chunks, v \in Contents : WriteChunk(f, c, v)
  <2> PICK f \in Files, c \in Chunks, v \in Contents : WriteChunk(f, c, v)
    BY <1>3
  <2> PICK d \in {v, Partial} : disk' = [disk EXCEPT ![f][c] = d]
    BY DEF WriteChunk
  <2>1. /\ running /\ running' /\ request = Idle /\ file_to_chunk_state' = file_to_chunk_state
        /\ request'.step = "insert" /\ request'.file = f
        /\ request'.directoryHasFile = DirectoryHasFiles(f)
        /\ directories' = directories \union {f}
    BY DEF WriteChunk
  <2>2. request' # Idle
    BY <2>1 DEF Idle
  <2>3. DirectoryHasFiles(f)'
    BY ContentAssumption DEF DirectoryHasFiles, TypeOK
  <2>4. UniquePaths' /\ \A g \in Files : HasEntry(g)' <=> HasEntry(g)
    BY <2>1, SameListing DEF ListingInv
  <2>5. FileAgrees(f)'
    <3>1. HasEntry(f) <=> DirectoryHasFiles(f)
      BY <2>1 DEF ListingInv, FileAgrees, Busy
    <3> QED
      BY <2>1, <2>2, <2>3, <2>4, <3>1 DEF FileAgrees, Busy
  <2>6. ASSUME NEW g \in Files \ {f}
        PROVE  /\ ~Busy(g) /\ ~Busy(g)'
               /\ DirectoryHasFiles(g)' <=> DirectoryHasFiles(g)
               /\ g \in directories' => g \in directories
    BY <2>1 DEF Busy, DirectoryHasFiles, TypeOK
  <2> QED
    BY <2>1, <2>4, <2>5, <2>6, ListingInvByFile
<1>4. CASE insert_to_struct
  <2>1. CASE Die
    BY <2>1, ListingInvDie
  <2>2. CASE ~Die
    <3>1. request \in Upload
      BY <1>4, RequestTypes DEF insert_to_struct, TypeOK
    <3>2. PICK f \in Files, c \in Chunks : f = request.file /\ c = request.chunk
      BY <3>1 DEF Upload
    <3>3. /\ request' = [request EXCEPT !.step = "close"] /\ UNCHANGED <<disk, directories>>
          /\ running /\ running' /\ request.step = "insert"
      BY <1>4, <2>2 DEF insert_to_struct
    <3>4. /\ request'.step = "close" /\ request'.file = f
          /\ request # Idle /\ request' # Idle
      BY <3>1, <3>2, <3>3 DEF Upload, Idle
    <3>5. DirectoryHasFiles(f) /\ (HasEntry(f) <=> request.directoryHasFile)
      BY <3>2, <3>3, <3>4 DEF ListingInv, FileAgrees, Busy
    <3>6. UniquePaths' /\ \A g \in Files : HasEntry(g)' <=> HasEntry(g) \/ g = f
      <4>1. CASE request.directoryHasFile
        <5>1. num_file_count > 0 /\ PushChunkId(c)
          <6>1. num_file_count \in Nat
            BY DEF num_file_count, TypeOK
          <6>2. num_file_count # 0 /\ PushChunkId(c)
            BY <1>4, <2>2, <3>2, <4>1 DEF insert_to_struct
          <6> QED
            BY <6>1, <6>2
        <5>2. UniquePaths'
          BY <5>1, PushKeepsUnique DEF ListingInv
        <5>3. \A g \in Files : HasEntry(g)' <=> HasEntry(g)
          BY <5>1, PushKeepsEntries
        <5> QED
          BY <3>5, <4>1, <5>2, <5>3
      <4>2. CASE ~request.directoryHasFile
        <5>1. NewEntry(f, c)
          BY <1>4, <2>2, <3>2, <4>2 DEF insert_to_struct
        <5>2. UniquePaths'
          BY <3>5, <4>2, <5>1, NewEntryKeepsUnique DEF ListingInv
        <5> QED
          BY <5>1, <5>2, NewEntryEntries
      <4> QED
        BY <4>1, <4>2
    <3>7. \A g \in Files : DirectoryHasFiles(g)' <=> DirectoryHasFiles(g)
      BY <3>3 DEF DirectoryHasFiles
    <3>8. FileAgrees(f)'
      BY <3>4, <3>5, <3>6, <3>7 DEF FileAgrees, Busy
    <3>9. \A g \in Files \ {f} : ~Busy(g) /\ ~Busy(g)'
      BY <3>2, <3>4 DEF Busy
    <3> QED
      BY <3>3, <3>6, <3>7, <3>8, <3>9, ListingInvByFile
  <2> QED
    BY <2>1, <2>2
<1>5. CASE CloseChunk
  <2>1. request \in Upload
    BY <1>5, RequestTypes DEF CloseChunk, TypeOK
  <2>2. PICK f \in Files, c \in Chunks, v \in Contents :
          f = request.file /\ c = request.chunk /\ v = request.data
    BY <2>1 DEF Upload
  <2>3. /\ disk' \in {disk, [disk EXCEPT ![f][c] = v]} /\ request' = Idle
        /\ running /\ running' /\ UNCHANGED <<directories, file_to_chunk_state>>
        /\ request.step = "close" /\ request # Idle
    BY <1>5, <2>2 DEF CloseChunk, Idle
  <2>4. DirectoryHasFiles(f) /\ HasEntry(f)
    BY <2>2, <2>3 DEF ListingInv, FileAgrees, Busy
  <2>5. DirectoryHasFiles(f)'
    BY <2>3, <2>4, ContentAssumption DEF DirectoryHasFiles, TypeOK
  <2>6. UniquePaths' /\ \A g \in Files : HasEntry(g)' <=> HasEntry(g)
    BY <2>3, SameListing DEF ListingInv
  <2>7. FileAgrees(f)'
    BY <2>3, <2>4, <2>5, <2>6 DEF FileAgrees, Busy
  <2>8. ASSUME NEW g \in Files \ {f}
        PROVE  /\ ~Busy(g) /\ ~Busy(g)'
               /\ DirectoryHasFiles(g)' <=> DirectoryHasFiles(g)
    BY <2>2, <2>3 DEF Busy, DirectoryHasFiles, TypeOK
  <2> QED
    BY <2>3, <2>6, <2>7, <2>8, ListingInvByFile
<1>6. CASE \E f \in Files : delete_file(f)
  <2> PICK f \in Files : delete_file(f)
    BY <1>6
  <2>1. /\ UNCHANGED <<disk, directories, file_to_chunk_state>> /\ running /\ running'
        /\ request = Idle /\ request'.step = "unlink" /\ request'.file = f /\ f \in directories
    BY DEF delete_file
  <2>2. request' # Idle
    BY <2>1 DEF Idle
  <2>3. HasEntry(f)
    BY <2>1 DEF ListingInv, FileAgrees, Busy
  <2>4. UniquePaths' /\ \A g \in Files : HasEntry(g)' <=> HasEntry(g)
    BY <2>1, SameListing DEF ListingInv
  <2>5. FileAgrees(f)'
    BY <2>1, <2>2, <2>3, <2>4 DEF FileAgrees, Busy
  <2>6. ASSUME NEW g \in Files \ {f}
        PROVE  /\ ~Busy(g) /\ ~Busy(g)'
               /\ DirectoryHasFiles(g)' <=> DirectoryHasFiles(g)
    BY <2>1 DEF Busy, DirectoryHasFiles
  <2> QED
    BY <2>1, <2>4, <2>5, <2>6, ListingInvByFile
<1>7. CASE UnlinkChunk
  <2>1. request \in Removal
    BY <1>7, RequestTypes DEF UnlinkChunk, TypeOK
  <2>2. PICK f \in Files, c \in Chunks :
          f = request.file /\ disk' = [disk EXCEPT ![f][c] = Absent]
    BY <1>7, <2>1 DEF UnlinkChunk, Removal
  <2>3. /\ UNCHANGED <<directories, file_to_chunk_state, request>> /\ running /\ running'
        /\ request.step = "unlink" /\ request # Idle
    BY <1>7 DEF UnlinkChunk, Idle
  <2>4. UniquePaths' /\ \A g \in Files : HasEntry(g)' <=> HasEntry(g)
    BY <2>3, SameListing DEF ListingInv
  <2>5. FileAgrees(f)'
    <3>1. HasEntry(f)
      BY <2>2, <2>3 DEF ListingInv, FileAgrees, Busy
    <3> QED
      BY <2>2, <2>3, <2>4, <3>1 DEF FileAgrees, Busy
  <2>6. ASSUME NEW g \in Files \ {f}
        PROVE  /\ ~Busy(g) /\ ~Busy(g)'
               /\ DirectoryHasFiles(g)' <=> DirectoryHasFiles(g)
    BY <2>2, <2>3 DEF Busy, DirectoryHasFiles, TypeOK
  <2> QED
    BY <2>3, <2>4, <2>5, <2>6, ListingInvByFile
<1>8. CASE RemoveDirectoryFails
  BY <1>8 DEF RemoveDirectoryFails, Undisturbed
<1>9. CASE RemoveDirectory
  <2>1. request \in Removal
    BY <1>9, RequestTypes DEF RemoveDirectory, TypeOK
  <2>2. PICK f \in Files : f = request.file
    BY <2>1 DEF Removal
  <2>3. /\ UNCHANGED <<disk, file_to_chunk_state>> /\ running /\ running'
        /\ request.step = "unlink" /\ ~DirectoryHasFiles(f) /\ directories' = directories \ {f}
        /\ request' = [request EXCEPT !.step = "remove"]
    BY <1>9, <2>2 DEF RemoveDirectory
  <2>4. request # Idle /\ request' # Idle /\ request'.step = "remove" /\ request'.file = f
    BY <2>1, <2>2, <2>3 DEF Removal, Idle
  <2>5. UniquePaths' /\ \A g \in Files : HasEntry(g)' <=> HasEntry(g)
    BY <2>3, SameListing DEF ListingInv
  <2>6. \A g \in Files : DirectoryHasFiles(g)' <=> DirectoryHasFiles(g)
    BY <2>3 DEF DirectoryHasFiles
  <2>7. FileAgrees(f)'
    <3>1. HasEntry(f)
      BY <2>2, <2>3, <2>4 DEF ListingInv, FileAgrees, Busy
    <3> QED
      BY <2>3, <2>4, <2>5, <2>6, <3>1 DEF FileAgrees, Busy
  <2>8. \A g \in Files \ {f} : ~Busy(g) /\ ~Busy(g)'
    BY <2>2, <2>4 DEF Busy
  <2> QED
    BY <2>3, <2>5, <2>6, <2>7, <2>8, ListingInvByFile
<1>10. CASE remove_from_struct
  <2>1. request \in Removal
    BY <1>10, RequestTypes DEF remove_from_struct, TypeOK
  <2>2. PICK f \in Files : f = request.file
    BY <2>1 DEF Removal
  <2>3. /\ UNCHANGED <<disk, directories>> /\ running /\ running'
        /\ request.step = "remove" /\ request # Idle /\ request' = Idle
    BY <1>10 DEF remove_from_struct, Idle
  <2>4. HasEntry(f) /\ ~DirectoryHasFiles(f) /\ f \notin directories
    BY <2>2, <2>3 DEF ListingInv, FileAgrees, Busy
  <2>5. PICK i \in 1..num_file_count :
          /\ file_to_chunk_state[i].file_path = f
          /\ file_to_chunk_state' = RemoveAt(file_to_chunk_state, i)
    BY <1>10, <2>2, <2>4 DEF remove_from_struct
  <2>6. UniquePaths' /\ \A g \in Files : HasEntry(g)' <=> HasEntry(g) /\ g # f
    BY <2>5, RemoveAtForgets DEF ListingInv
  <2>7. \A g \in Files : DirectoryHasFiles(g)' <=> DirectoryHasFiles(g)
    BY <2>3 DEF DirectoryHasFiles
  <2>8. FileAgrees(f)'
    BY <2>3, <2>4, <2>6, <2>7 DEF FileAgrees, Busy
  <2>9. \A g \in Files \ {f} : ~Busy(g) /\ ~Busy(g)'
    BY <2>2, <2>3 DEF Busy
  <2> QED
    BY <2>3, <2>6, <2>7, <2>8, <2>9, ListingInvByFile
<1>11. CASE SnapshotListing \/ SendHealth
  BY <1>11, ListingInvUnchanged DEF SnapshotListing, SendHealth
<1>12. CASE PackReport
  <2>1. CASE Die
    BY <2>1, ListingInvDie
  <2>2. CASE ~Die
    BY <1>12, <2>2, ListingInvUnchanged DEF PackReport
  <2> QED
    BY <2>1, <2>2
<1>13. CASE FreeMappingsFaults \/ Kill
  BY <1>13, ListingInvDie DEF FreeMappingsFaults, Kill
<1>14. CASE \E mode \in Restarts : Restart(mode)
  <2>1. /\ running' /\ request' = Idle /\ file_to_chunk_state' = << >>
        /\ disk' = EmptyDisk /\ directories' = {}
    BY <1>14 DEF Restart, ListingInv, Undisturbed
  <2>2. UniquePaths' /\ \A f \in Files : ~HasEntry(f)'
    BY <2>1 DEF UniquePaths, HasEntry, num_file_count
  <2>3. \A f \in Files : ~DirectoryHasFiles(f)' /\ ~Busy(f)' /\ f \notin directories'
    BY <2>1 DEF DirectoryHasFiles, EmptyDisk, Busy
  <2> QED
    BY <2>1, <2>2, <2>3 DEF ListingInv, FileAgrees
<1>15. CASE UNCHANGED vars
  BY <1>15, ListingInvUnchanged DEF vars
<1> QED
  BY <1>1, <1>2, <1>3, <1>4, <1>5, <1>6, <1>7, <1>8, <1>9, <1>10, <1>11, <1>12, <1>13,
     <1>14, <1>15 DEF Next, HttpThread, TcpThread

\* Between requests the listing has one entry for every directory with chunks.
THEOREM ListingMatchesDirectories ==
  ASSUME Undisturbed
  PROVE  Spec => []EntryPerDirectory
<1>1. TypeOK /\ ListingInv /\ [Next]_vars => ListingInv'
  BY ListingInvNext
<1>2. ListingInv => EntryPerDirectory
  BY DEF ListingInv, EntryPerDirectory, UniquePaths, FileAgrees, Busy, Serving
<1> QED
  BY <1>1, <1>2, ListingInvInit, TypeCorrect, PTL DEF Spec

\* insert_to_struct never appends to an empty listing: the index -1 takes a
\* deletion that failed or a restart that kept data/.
THEOREM InsertHasAnEntry ==
  ASSUME Undisturbed
  PROVE  Spec => []NoIndexUnderflow
<1>1. TypeOK /\ ListingInv /\ [Next]_vars => ListingInv'
  BY ListingInvNext
<1>2. TypeOK /\ ListingInv => NoIndexUnderflow
  <2> SUFFICES ASSUME TypeOK, ListingInv, running, request.step = "insert", request.directoryHasFile
               PROVE  num_file_count > 0
    BY DEF NoIndexUnderflow
  <2>1. request \in Upload /\ request # Idle
    BY RequestTypes DEF TypeOK, Idle
  <2>2. HasEntry(request.file)
    BY <2>1 DEF ListingInv, FileAgrees, Busy, Upload
  <2> QED
    BY <2>2 DEF HasEntry, num_file_count, TypeOK
<1> QED
  BY <1>1, <1>2, ListingInvInit, TypeCorrect, PTL DEF Spec

\* A DELETE that succeeds leaves no chunk of its file in the listing and every
\* other file as it was.
THEOREM DeleteIsExact ==
  ASSUME Undisturbed
  PROVE  Spec => DeleteForgets
<1>1. TypeOK /\ ListingInv /\ [Next]_vars => ListingInv'
  BY ListingInvNext
<1>2. TypeOK /\ ListingInv /\ [Next]_vars => [DeleteForgetsStep]_vars
  <2> SUFFICES ASSUME TypeOK, ListingInv, Next,
                      request.step = "remove", request' = Idle, running',
                      NEW g \in Files, NEW c \in Chunks
               PROVE  Listed(g, c)' <=> Listed(g, c) /\ g # request.file
    BY DEF DeleteForgetsStep
  <2>1. request # Idle /\ ~Die
    BY DEF Idle, Die
  <2>2. remove_from_struct
    BY <2>1 DEF Next, HttpThread, TcpThread, PostExistingChunk, WriteChunk, WriteChunkFails,
                insert_to_struct, CloseChunk, delete_file, UnlinkChunk, RemoveDirectoryFails,
                RemoveDirectory, SnapshotListing, PackReport, FreeMappingsFaults, SendHealth,
                Kill, Restart
  <2>3. request \in Removal
    BY <2>2, RequestTypes DEF remove_from_struct, TypeOK
  <2>4. HasEntry(request.file)
    BY <2>1, <2>2, <2>3 DEF ListingInv, FileAgrees, Busy, Removal, remove_from_struct
  <2>5. PICK i \in 1..num_file_count :
          /\ file_to_chunk_state[i].file_path = request.file
          /\ file_to_chunk_state' = RemoveAt(file_to_chunk_state, i)
    BY <2>2, <2>4 DEF remove_from_struct
  <2> QED
    BY <2>5, RemoveAtForgets DEF ListingInv
<1> QED
  BY <1>1, <1>2, ListingInvInit, TypeCorrect, PTL DEF Spec, DeleteForgets
==============================================================================
