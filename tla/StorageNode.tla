----------------------------- MODULE StorageNode -----------------------------
(***************************************************************************)
(* One chunk server (src/storageLayer): the chunk files under data/, the   *)
(* in-memory listing file_to_chunk_state, the HTTP thread that changes     *)
(* both, and the TCP thread that reports the listing to the master.        *)
(*                                                                         *)
(* MHD_USE_SELECT_INTERNALLY runs every HTTP handler on one thread, so     *)
(* handlers never overlap each other; a handler is split into the steps    *)
(* between which the TCP thread or the death of the process can be seen.   *)
(* Each step that holds state->lock is one action.                         *)
(***************************************************************************)
EXTENDS Naturals, Sequences, SequencesExt

CONSTANTS
  Files,        \* values of the X-Filename header
  Chunks,       \* values of the X-Chunk-ID header after atoi
  Contents,     \* request bodies; all of them non-empty
  Absent,       \* no such chunk file
  Partial,      \* a chunk file holding only a prefix of the body
  NotFound,     \* getFileDescriptor returned -1
  Garbled,      \* a report packed from memory that was freed meanwhile
  Faults,       \* system calls that may fail in this instance
  Restarts,     \* the ways a dead process is started again
  Interleaved,  \* TRUE: uploads of several files may interleave
  MaxListed     \* bound: entries in the listing, and chunk ids in an entry

ASSUME ContentAssumption ==
  /\ Absent \notin Contents \union {Partial}
  /\ Partial \notin Contents
  /\ NotFound \notin Contents \union {Partial, Absent}

ASSUME GarbledAssumption == Garbled \notin Seq([file_path : Files, chunk_ids : Seq(Chunks)])

ASSUME EnvironmentAssumption ==
  /\ Faults \subseteq {"fopen", "fwrite", "fclose", "unlink"}
  /\ Restarts \subseteq {"run.sh", "binary"}
  /\ Interleaved \in BOOLEAN
  /\ MaxListed \in Nat

VARIABLES
  running,              \* the process is alive
  disk,                 \* disk[f][c]: what data/f/c holds
  directories,          \* the f for which the directory data/f exists
  file_to_chunk_state,  \* the listing; num_file_count is its length
  request,              \* the handler the HTTP thread is executing
  heartbeat,            \* where the TCP thread is in answering a poll
  file_mappings,        \* the listing entries the report points into
  shared,               \* how many listing entries the report still shares
  torn,                 \* memory the report points into has been freed
  message,              \* the packed report
  acked,                \* ghost: chunks of f answered with 200, not deleted
  promised              \* ghost: acked when the poll was taken up

diskVars == <<disk, directories>>
tcpVars  == <<heartbeat, file_mappings, shared, torn, message, promised>>
vars     == <<running, disk, directories, file_to_chunk_state, request,
              heartbeat, file_mappings, shared, torn, message, acked, promised>>

Entry == [file_path : Files, chunk_ids : Seq(Chunks)]
Stored == Contents \union {Absent, Partial}
Idle == [step |-> "idle"]
Upload == [step : {"insert", "close"}, file : Files, chunk : Chunks,
           data : Contents, directoryHasFile : BOOLEAN]
Removal == [step : {"unlink", "remove"}, file : Files]
NoAcks == [f \in Files |-> {}]
EmptyDisk == [f \in Files |-> [c \in Chunks |-> Absent]]

num_file_count == Len(file_to_chunk_state)

\* directoryHasFiles("data/f")
DirectoryHasFiles(f) == \E c \in Chunks : disk[f][c] # Absent

Lists(entry, f, c) ==
  /\ entry.file_path = f
  /\ \E j \in 1..Len(entry.chunk_ids) : entry.chunk_ids[j] = c

ListedIn(listing, f, c) == \E i \in 1..Len(listing) : Lists(listing[i], f, c)

HasEntry(f) == \E i \in 1..num_file_count : file_to_chunk_state[i].file_path = f

Listed(f, c) == ListedIn(file_to_chunk_state, f, c)

\* Slip: the disk alone decides what can be read.
getFileDescriptorUnlisted(f, c) ==
  IF disk[f][c] # Absent THEN disk[f][c] ELSE NotFound

\* What GET /chunk answers: the file is opened only if the listing names it.
getFileDescriptor(f, c) ==
  IF Listed(f, c) /\ disk[f][c] # Absent THEN disk[f][c] ELSE NotFound

-----------------------------------------------------------------------------
Init ==
  /\ running = TRUE
  /\ disk = EmptyDisk
  /\ directories = {}
  /\ file_to_chunk_state = << >>
  /\ request = Idle
  /\ heartbeat = "recv"
  /\ file_mappings = << >>
  /\ shared = 0
  /\ torn = FALSE
  /\ message = << >>
  /\ acked = NoAcks
  /\ promised = NoAcks

\* The TCP thread is back in recv() and holds nothing.
HeartbeatIdle ==
  /\ heartbeat' = "recv"
  /\ file_mappings' = << >>
  /\ shared' = 0
  /\ torn' = FALSE
  /\ message' = << >>
  /\ promised' = NoAcks

\* The process is gone and its memory with it; the disk is what it was.
Die ==
  /\ running' = FALSE
  /\ file_to_chunk_state' = << >>
  /\ request' = Idle
  /\ HeartbeatIdle

Acknowledge(f, c) == acked' = [acked EXCEPT ![f] = @ \union {c}]

-----------------------------------------------------------------------------
(* POST /new-chunk *)

\* The environment's promise when Interleaved is FALSE: a file that has
\* chunks is only extended while it is the one most recently started.
UploadAllowed(f) ==
  \/ Interleaved
  \/ ~DirectoryHasFiles(f)
  \/ num_file_count > 0 /\ file_to_chunk_state[num_file_count].file_path = f

WithinBound ==
  /\ num_file_count < MaxListed
  /\ \A i \in 1..num_file_count :
       Len(file_to_chunk_state[i].chunk_ids) < MaxListed

\* Slip: any file in the directory passes for the chunk.
PostExistingDirectory(f, c) ==
  /\ running /\ request = Idle
  /\ DirectoryHasFiles(f)
  /\ Acknowledge(f, c)
  /\ UNCHANGED <<running, diskVars, file_to_chunk_state, request, tcpVars>>

\* Slip: a chunk that already has a file is listed again.
PostExistingChunkAgain(f, c) ==
  /\ running /\ request = Idle
  /\ disk[f][c] # Absent
  /\ UploadAllowed(f) /\ WithinBound
  /\ request' = [step |-> "insert", file |-> f, chunk |-> c, data |-> disk[f][c],
                 directoryHasFile |-> TRUE]
  /\ UNCHANGED <<running, diskVars, file_to_chunk_state, tcpVars, acked>>

\* A chunk that already has a file is acknowledged and nothing is written.
PostExistingChunk(f, c) ==
  /\ running /\ request = Idle
  /\ disk[f][c] # Absent
  /\ Acknowledge(f, c)
  /\ UNCHANGED <<running, diskVars, file_to_chunk_state, request, tcpVars>>

\* Slip: the chunk is written without asking whether it exists.
WriteChunkAlways(f, c, v) ==
  /\ running /\ request = Idle
  /\ UploadAllowed(f) /\ WithinBound
  /\ \E d \in {v, Partial} : disk' = [disk EXCEPT ![f][c] = d]
  /\ directories' = directories \union {f}
  /\ request' = [step |-> "insert", file |-> f, chunk |-> c, data |-> v,
                 directoryHasFile |-> DirectoryHasFiles(f)]
  /\ UNCHANGED <<running, file_to_chunk_state, tcpVars, acked>>

\* Slip: the directory is looked at after the chunk was written to it.
WriteChunkThenLook(f, c, v) ==
  /\ running /\ request = Idle
  /\ disk[f][c] = Absent
  /\ UploadAllowed(f) /\ WithinBound
  /\ \E d \in {v, Partial} : disk' = [disk EXCEPT ![f][c] = d]
  /\ directories' = directories \union {f}
  /\ request' = [step |-> "insert", file |-> f, chunk |-> c, data |-> v,
                 directoryHasFile |-> TRUE]
  /\ UNCHANGED <<running, file_to_chunk_state, tcpVars, acked>>

\* fwrite succeeds; the tail of the body may still sit in the stdio buffer.
WriteChunk(f, c, v) ==
  /\ running /\ request = Idle
  /\ disk[f][c] = Absent
  /\ UploadAllowed(f) /\ WithinBound
  /\ \E d \in {v, Partial} : disk' = [disk EXCEPT ![f][c] = d]
  /\ directories' = directories \union {f}
  /\ request' = [step |-> "insert", file |-> f, chunk |-> c, data |-> v,
                 directoryHasFile |-> DirectoryHasFiles(f)]
  /\ UNCHANGED <<running, file_to_chunk_state, tcpVars, acked>>

\* saveChunkToFile returns false, page stays NULL and strlen(page) faults.
\* When fopen fails, the mkdir before it, unchecked, may have failed too.
WriteChunkFails(f, c) ==
  /\ running /\ request = Idle
  /\ disk[f][c] = Absent
  /\ UploadAllowed(f)
  /\ \/ /\ "fopen" \in Faults
        /\ directories' \in {directories, directories \union {f}}
        /\ disk' = disk
     \/ /\ "fwrite" \in Faults
        /\ directories' = directories \union {f}
        /\ disk' = [disk EXCEPT ![f][c] = Partial]
  /\ Die
  /\ UNCHANGED acked

\* Slip: the chunk goes to the first entry.
PushChunkIdFirst(c) ==
  /\ file_to_chunk_state' = [file_to_chunk_state EXCEPT ![1].chunk_ids = Append(@, c)]
  /\ torn' = torn

\* Slip: the chunks of an entry are numbered as they come.
PushChunkNumber(c) ==
  LET last == num_file_count IN
  /\ file_to_chunk_state' =
       [file_to_chunk_state EXCEPT ![last].chunk_ids = Append(@, Len(@) + 1)]
  /\ torn' = torn

\* push_chunk_id reallocates the array of the last entry: if the report
\* under way shares that entry, its pointer may now dangle.
PushChunkId(c) ==
  LET last == num_file_count IN
  /\ file_to_chunk_state' =
       [file_to_chunk_state EXCEPT ![last].chunk_ids = Append(@, c)]
  /\ torn' \in (IF heartbeat = "pack" /\ last <= shared THEN {torn, TRUE} ELSE {torn})

\* Slip: the first chunk of a file is not pushed.
NewEntryEmpty(f, c) ==
  /\ file_to_chunk_state' = Append(file_to_chunk_state,
                                   [file_path |-> f, chunk_ids |-> << >>])
  /\ torn' = torn

NewEntry(f, c) ==
  /\ file_to_chunk_state' = Append(file_to_chunk_state,
                                   [file_path |-> f, chunk_ids |-> <<c>>])
  /\ torn' = torn

\* insert_to_struct, under state->lock. A chunk of a directory that already
\* had files goes to the last entry of the listing, whichever file that is;
\* with an empty listing that entry is at index -1 and the process faults.
insert_to_struct ==
  /\ running /\ request.step = "insert"
  /\ IF request.directoryHasFile /\ num_file_count = 0
     THEN Die
     ELSE /\ IF request.directoryHasFile
             THEN PushChunkId(request.chunk)
             ELSE NewEntry(request.file, request.chunk)
          /\ request' = [request EXCEPT !.step = "close"]
          /\ UNCHANGED <<running, heartbeat, file_mappings, shared, message, promised>>
  /\ UNCHANGED <<diskVars, acked>>

\* fclose flushes the buffer, its result is ignored; the handler answers 200.
CloseChunk ==
  /\ running /\ request.step = "close"
  /\ \/ disk' = [disk EXCEPT ![request.file][request.chunk] = request.data]
     \/ "fclose" \in Faults /\ disk' = disk
  /\ Acknowledge(request.file, request.chunk)
  /\ request' = Idle
  /\ UNCHANGED <<running, directories, file_to_chunk_state, tcpVars>>

-----------------------------------------------------------------------------
(* DELETE /remove-file *)

\* opendir succeeds; remove_directory starts on the entries. (When opendir
\* fails the handler answers 500 and changes nothing.)
delete_file(f) ==
  /\ running /\ request = Idle
  /\ f \in directories
  /\ request' = [step |-> "unlink", file |-> f]
  /\ acked' = [acked EXCEPT ![f] = {}]
  /\ UNCHANGED <<running, diskVars, file_to_chunk_state, tcpVars>>

UnlinkChunk ==
  /\ running /\ request.step = "unlink"
  /\ \E c \in Chunks :
       /\ disk[request.file][c] # Absent
       /\ disk' = [disk EXCEPT ![request.file][c] = Absent]
  /\ UNCHANGED <<running, directories, file_to_chunk_state, request, tcpVars, acked>>

\* unlink or rmdir fails: 500, the listing keeps naming what was removed.
RemoveDirectoryFails ==
  /\ running /\ request.step = "unlink"
  /\ "unlink" \in Faults
  /\ request' = Idle
  /\ UNCHANGED <<running, diskVars, file_to_chunk_state, tcpVars, acked>>

\* Slip: the handler returns once the directory is gone.
RemoveDirectoryOnly ==
  /\ running /\ request.step = "unlink"
  /\ ~DirectoryHasFiles(request.file)
  /\ directories' = directories \ {request.file}
  /\ request' = Idle
  /\ UNCHANGED <<running, disk, file_to_chunk_state, tcpVars, acked>>

RemoveDirectory ==
  /\ running /\ request.step = "unlink"
  /\ ~DirectoryHasFiles(request.file)
  /\ directories' = directories \ {request.file}
  /\ request' = [request EXCEPT !.step = "remove"]
  /\ UNCHANGED <<running, disk, file_to_chunk_state, tcpVars, acked>>

\* Slip: the count goes down and no entry is moved.
remove_last_from_struct ==
  /\ running /\ request.step = "remove"
  /\ IF HasEntry(request.file)
     THEN file_to_chunk_state' = SubSeq(file_to_chunk_state, 1, num_file_count - 1)
     ELSE UNCHANGED file_to_chunk_state
  /\ request' = Idle
  /\ promised' = [promised EXCEPT ![request.file] = {}]
  /\ UNCHANGED <<running, diskVars, heartbeat, file_mappings, shared, torn, message, acked>>

\* remove_from_struct, under state->lock: the first entry of the file goes,
\* and its two allocations are freed whether or not the report uses them.
remove_from_struct ==
  /\ running /\ request.step = "remove"
  /\ IF HasEntry(request.file)
     THEN \E i \in 1..num_file_count :
            /\ file_to_chunk_state[i].file_path = request.file
            /\ \A j \in 1..(i - 1) : file_to_chunk_state[j].file_path # request.file
            /\ file_to_chunk_state' = RemoveAt(file_to_chunk_state, i)
            /\ shared' = IF i <= shared THEN shared - 1 ELSE shared
            /\ torn' = (torn \/ (heartbeat = "pack" /\ i <= shared))
     ELSE UNCHANGED <<file_to_chunk_state, shared, torn>>
  /\ request' = Idle
  /\ promised' = [promised EXCEPT ![request.file] = {}]
  /\ UNCHANGED <<running, diskVars, heartbeat, file_mappings, message, acked>>

-----------------------------------------------------------------------------
(* The TCP thread: receive_messages, answering one poll of the master *)

\* Slip: the loop that maps the entries stops one short.
SnapshotListingShort ==
  /\ running /\ heartbeat = "recv"
  /\ heartbeat' = "pack"
  /\ file_mappings' = SubSeq(file_to_chunk_state, 1, num_file_count - 1)
  /\ shared' = num_file_count
  /\ promised' = acked
  /\ UNCHANGED <<running, diskVars, file_to_chunk_state, request, torn, message, acked>>

\* return_current_state_encoded_in_protobufs up to the unlock: the report
\* points at the path and the chunk ids of every entry, it copies neither.
SnapshotListing ==
  /\ running /\ heartbeat = "recv"
  /\ heartbeat' = "pack"
  /\ file_mappings' = file_to_chunk_state
  /\ shared' = num_file_count
  /\ promised' = acked
  /\ UNCHANGED <<running, diskVars, file_to_chunk_state, request, torn, message, acked>>

\* The message is packed after the unlock. Freed memory may still hold what
\* it held, may hold anything else, or may fault.
PackReport ==
  /\ running /\ heartbeat = "pack"
  /\ \/ /\ heartbeat' = "free"
        /\ message' \in {file_mappings} \union (IF torn THEN {Garbled} ELSE {})
        /\ shared' = 0 /\ torn' = FALSE
        /\ UNCHANGED <<running, file_to_chunk_state, request, file_mappings, promised>>
     \/ torn /\ Die
  /\ UNCHANGED <<diskVars, acked>>

\* The loop that frees the mappings re-reads num_file_count without the lock.
\* More entries than were mapped: it frees through NULL if there was no
\* array, and otherwise whatever follows the array, which may fault.
FreeMappingsFaults ==
  /\ running /\ heartbeat = "free"
  /\ num_file_count > Len(file_mappings)
  /\ Die
  /\ UNCHANGED <<diskVars, acked>>

\* The report is handed to send_all and the thread returns to recv().
SendHealth ==
  /\ running /\ heartbeat = "free"
  /\ num_file_count > Len(file_mappings) => Len(file_mappings) > 0
  /\ HeartbeatIdle
  /\ UNCHANGED <<running, diskVars, file_to_chunk_state, request, acked>>

-----------------------------------------------------------------------------
(* The process *)

\* A signal, or exit() on the TCP thread, at any moment of a handler.
Kill ==
  /\ running
  /\ Die
  /\ UNCHANGED <<diskVars, acked>>

\* run.sh starts with rm -rf data; the bare binary finds data/ as it was
\* left. storage_state_init starts from an empty listing in both cases.
Restart(mode) ==
  /\ ~running
  /\ running' = TRUE
  /\ IF mode = "run.sh"
     THEN disk' = EmptyDisk /\ directories' = {} /\ acked' = NoAcks
     ELSE UNCHANGED <<diskVars, acked>>
  /\ UNCHANGED <<file_to_chunk_state, request, tcpVars>>

HttpThread ==
  \/ \E f \in Files, c \in Chunks :
       \/ PostExistingChunk(f, c)
       \/ WriteChunkFails(f, c)
       \/ \E v \in Contents : WriteChunk(f, c, v)
  \/ insert_to_struct \/ CloseChunk
  \/ \E f \in Files : delete_file(f)
  \/ UnlinkChunk \/ RemoveDirectoryFails \/ RemoveDirectory \/ remove_from_struct

TcpThread == SnapshotListing \/ PackReport \/ FreeMappingsFaults \/ SendHealth

Next ==
  \/ HttpThread
  \/ TcpThread
  \/ Kill
  \/ \E mode \in Restarts : Restart(mode)

Spec == Init /\ [][Next]_vars

-----------------------------------------------------------------------------
(* Properties *)

TypeOK ==
  /\ running \in BOOLEAN
  /\ disk \in [Files -> [Chunks -> Stored]]
  /\ directories \subseteq Files
  /\ file_to_chunk_state \in Seq(Entry)
  /\ request \in {Idle} \union Upload \union Removal
  /\ heartbeat \in {"recv", "pack", "free"}
  /\ file_mappings \in Seq(Entry)
  /\ shared \in Nat
  /\ torn \in BOOLEAN
  /\ message \in Seq(Entry) \union {Garbled}
  /\ acked \in [Files -> SUBSET Chunks]
  /\ promised \in [Files -> SUBSET Chunks]

Serving == running /\ request = Idle

\* Between requests the listing has exactly one entry for every directory that
\* holds chunks and none for the others: directoryHasFiles, which looks at the
\* disk, and the listing, which insert_to_struct extends, agree. Every step of
\* an upload or a delete breaks the agreement and a later one restores it. It
\* takes that no deletion fails half-way and that run.sh does every restart.
EntryPerDirectory ==
  Serving =>
    /\ \A i, j \in 1..num_file_count :
         file_to_chunk_state[i].file_path = file_to_chunk_state[j].file_path => i = j
    /\ \A f \in Files : HasEntry(f) <=> DirectoryHasFiles(f)

\* insert_to_struct never writes at index -1: a chunk that found files in its
\* directory finds a listing with an entry to append to.
NoIndexUnderflow ==
  running /\ request.step = "insert" /\ request.directoryHasFile => num_file_count > 0

\* Whatever else uploads that interleave put into an entry, the entry begins
\* with a chunk of its own file, and that chunk is on disk.
FirstChunkIsOwn ==
  Serving => \A i \in 1..num_file_count :
    LET entry == file_to_chunk_state[i]
    IN  Len(entry.chunk_ids) > 0 /\ disk[entry.file_path][entry.chunk_ids[1]] # Absent

\* A chunk answered with 200 stays on disk until a DELETE of its file begins or
\* run.sh wipes the server: through failed uploads of the same file, deaths,
\* and restarts of the binary.
AckedPresent == \A f \in Files : \A c \in acked[f] : disk[f][c] # Absent

\* A whole chunk is never overwritten, by a retry of the upload or by another
\* body: it only ever disappears (saveChunkToFile opens with "ab" but returns
\* before that when the file exists).
WriteOnceStep ==
  \A f \in Files, c \in Chunks :
    disk[f][c] \in Contents => disk'[f][c] \in {disk[f][c], Absent}
WriteOnce == [][WriteOnceStep]_vars

\* When DELETE is about to answer 200, the listing names no chunk of the file
\* any more, not even one listed twice, and every other file as before.
DeleteForgetsStep ==
  request.step = "remove" /\ request' = Idle /\ running' =>
    \A f \in Files, c \in Chunks :
      Listed(f, c)' <=> Listed(f, c) /\ f # request.file
DeleteForgets == [][DeleteForgetsStep]_vars

\* A chunk that was answered with 200 is served, whole, from then on.
AckedServed ==
  Serving => \A f \in Files : \A c \in acked[f] : getFileDescriptor(f, c) \in Contents

\* The listing names exactly the chunks on disk, each once: what the master is
\* told is what can be read.
ListingExact ==
  Serving =>
    /\ \A f \in Files, c \in Chunks : Listed(f, c) <=> disk[f][c] # Absent
    /\ \A i \in 1..num_file_count : IsInjective(file_to_chunk_state[i].chunk_ids)

\* A prefix of a chunk, left by an upload that died or failed, is never
\* served: it survives on disk and is even acknowledged by a retry, but the
\* listing that could expose it died with the process.
PartialNeverServed ==
  Serving => \A f \in Files, c \in Chunks : getFileDescriptor(f, c) # Partial

\* The report that answers a poll names every chunk that had been answered
\* with 200 when the poll was taken up and whose file was not removed since.
ReportCoversAcked ==
  heartbeat = "free" =>
    /\ message # Garbled
    /\ \A f \in Files : \A c \in promised[f] : ListedIn(message, f, c)
==============================================================================
