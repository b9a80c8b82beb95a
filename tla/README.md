# A TLA+ model of the distributed file system

The program stores files in chunks of 8 KiB on chunk servers and finds them
through a master. This directory models its parts in TLA+, checks the models
with TLC on small instances and proves with TLAPS, for every instance, the safety
properties that hold and that each layer implements the specification of what it
promises.

## The system

| Part | State | Operations | Talks to |
|---|---|---|---|
| chunk server, storage and HTTP (`src/storageLayer/state`, `httpServer`) | chunk files `data/<file>/<chunk>`; the listing `file_to_chunk_state`, in memory, under `state->lock` | `POST /new-chunk`, `GET /chunk`, `DELETE /remove-file` | clients (HTTP); the reporting thread, through the listing |
| chunk server, reporting thread (`tcpClient/client.c`) | the socket to the master; a report being packed | `receive_messages`: one report of the listing for every poll | master (TCP); HTTP thread (`shouldWork`) |
| chunk server, process (`main.c`, `run.sh`) | `shouldWork` | join the master, start both threads, stop | |
| master, registry (`state/storage_unit.rs`) | `connections`, `index_to_write`, under one mutex | `insert`, `remove`, `update_state`, `increment_index_and_return_addr`, four queries | |
| master, connections (`tcp_connection_to_storage`) | per connection: the handler task, the sender task, the flag `shared_conn_state` | read a message, poll every ten seconds, clean up | chunk servers (TCP); the registry |
| master, HTTP interface (`http_handlers`) | none | `/server_to_write`, `/chunks`, `/chunk-location`, `/chunk-location-multiple`, `/file-list`, `/filelocation` | clients; the registry |
| master, supervisor (`main.rs`) | two task handles, a shutdown channel | `select!`, shutdown, `join!` | |
| client library (`src/client`) | none between calls | `insertFile`, `readFile`, `deleteFile` | master and chunk servers (HTTP) |

What makes each part correct, and what makes it hard:

* **Storage and HTTP.** An acknowledged chunk stays and is served; a torn one is
  not; the listing is what the disk holds. Hard because the disk and the listing
  are changed in separate steps, the disk outlives the process and the listing
  does not, system calls fail between the steps, and whether a chunk gets a new
  entry is decided from the disk while the entry is found from the listing.
* **Reporting.** A report is the listing at one moment. Hard because it is packed
  after the lock is released, from memory the HTTP thread reallocates and frees.
* **Registry and connections.** The registry holds exactly the servers that
  joined and are connected. Hard because joins, reports, breaks and polls of many
  connections are handled by concurrent tasks that share the registry and a flag.
* **HTTP interface.** Write requests are spread over the servers; the answers to
  the questions a client combines agree. Hard because `/server_to_write` takes
  the registry's mutex anew for every replica.
* **Clients.** What was uploaded can be read after a polling period. Hard because
  a client acts on a directory that is up to a period old, in several requests.
* **Processes.** A server or a master that lost a part of itself ends as a whole
  and lets go of its ports and connections. Hard because the two threads of a
  server see each other only through a flag, which one of them looks at only
  after it received something, the two services of the master only through the
  main task, and because the servers of a machine compete for one port.

`PROJECT.json` lists every hazard at its line, with the properties that would
catch it.

## Modules

    StorageNode                    one chunk server
      StorageNodeRefinement          as an implementation of ChunkServer
      MCStorageNode                  its instances for TLC
      StorageNodeProofs              theorems, proofs and inductive invariants
      StorageNodeRefinementProofs    the proof of the refinement
      StorageNodeListingProofs       what the listing names, and what is served
    ChunkServer                    what a chunk server promises
    Master                         the master
      MasterRefinement               as an implementation of Directory
      MCMaster                       its instances for TLC
      MasterProofs                   types, registry, senders, queries, the refinement
      MasterRoundProofs              the round robin, and who gets replicas
    Directory                      what the master's registry promises
    Lifecycle                      how the processes begin and end
      MCLifecycle                    its instance for TLC
      LifecycleProofs                theorems and proofs
    Dfs                            clients, chunk servers and the master's directory
      MCDfs                          its instances for TLC
      DfsRefinement                  as an implementation of FileStore, and of Directory
      DfsProofs                      types, reads, uploads, the refinements
    FileStore                      what the whole system promises its clients
    Ordered                        sets of numbers, in increasing order
    SequenceLemmas                 sequences, finite sets and orders, for the proofs

### StorageNode

MHD runs every HTTP handler on one internal thread, so handlers never overlap
each other and there is one `request`. A handler is split where another actor
can see or stop it:

| Code | Actions |
|---|---|
| `POST`, the file exists (`fileOperation.c:47`) | `PostExistingChunk` |
| `POST`, new: the directory is looked at, `fopen`, `fwrite` | `WriteChunk`; `WriteChunkFails`, where `page` stays `NULL` and `strlen(page)` faults (`httpMain.c:153`) |
| `insert_to_struct`, one critical section | `insert_to_struct` (`NewEntry`, `PushChunkId`, or the fault at index -1) |
| `fclose`, 200 | `CloseChunk` |
| `DELETE`: `opendir`, every `unlink`, `rmdir` | `delete_file`, `UnlinkChunk`, `RemoveDirectory`, `RemoveDirectoryFails` |
| `remove_from_struct`, one critical section | `remove_from_struct` |
| `GET` | the operator `getFileDescriptor`: it changes nothing |
| `return_current_state_encoded_in_protobufs`: to the unlock; packing; freeing | `SnapshotListing`; `PackReport`; `FreeMappingsFaults` or `SendHealth` |
| a signal, `exit()` on the TCP thread | `Kill`, at any step |
| `run.sh` (`rm -rf data`), or the binary alone | `Restart` |

A chunk file is `Absent`, holds one of `Contents`, or is `Partial` (a prefix).
`fwrite` may leave any part of the body in the stdio buffer, so a file that was
written but not closed is either.

Memory errors are choices. `shared` counts the entries, always the first ones of
the listing, whose memory the report still points into; `realloc` may or may not
move an array (`torn'` is either), `free` always ends it. A report packed from
freed memory is what it should be, is `Garbled`, or kills the process. The loop
that frees the mappings faults when the listing was empty at the snapshot and is
not now, and may fault whenever it has grown.

`acked` and `promised` are ghosts: which chunks were answered with 200 and not
deleted since, and `acked` when a poll was taken up. `Faults` and `Restarts`
choose which system calls may fail and how a dead process is started. When
`Interleaved` is `FALSE` the clients extend a file only while it is the most
recently started one; the code works only then.

### ChunkServer and StorageNodeRefinement

`ChunkServer` is one server without its disk: a set of chunks per file, which an
upload extends by one and a deletion empties, and a report that is this set at
the moment of the poll, unless an upload or a deletion got in its way while it was
put together. `StorageNodeRefinement` maps the listing to the set. An upload takes
effect in `insert_to_struct`, a deletion in `remove_from_struct`; everything the
server does to the disk is a stutter, a death at any step is a death. It holds for
`Interleaved = FALSE` only: the first finding is exactly that a chunk is added to
another file's set.

### Master

One connection is one handler task and one sender task. `ReadMessage` is the
read of one message and the critical section it leads to; the assignment to the
flag after a join is a step of its own (`SetConnState`). On a broken connection
the handler lowers the flag and keeps its mutex to the end of its life
(`ReadError`, `RemoveConnection`); the sender's look at the flag
(`CheckConnState`) waits for that mutex. The chunk server at the other end
(`PeerJoins`, `PeerReports`, `PeerCloses`) behaves as `client.c` does: it joins
once, answers polls in order, and may close at any time; a reset may lose what it
sent. A server that reconnects gets a new connection id. `/server_to_write` is
one step per replica. The queries are operators: an answer in the order of the
registry is `AddressesOf` the entries it is taken from, and `get_location` takes
the first holder of each address. `turns` and `alone` are ghosts
for the round-robin properties. `Reports[c]` is what the server of connection `c`
may report, so that reports can be told apart by who sent them.

### Directory and MasterRefinement

`Directory` is the registry without its tasks, order and index: a connection is
`"out"`, `"in"` or `"gone"`, and while it is in, some listing is shown for it that
is one of its own. `MasterRefinement` maps a registry to it: a connection is in if
it is registered, gone if its handler has cleaned up without or after that, and
what is shown is what is filed under its id. The read of the join is `Enter`, of a
report `Update`, `RemoveConnection` is `Leave`; polls, the flag, broken sockets,
write requests and the turns are stutters.

### Lifecycle

The processes of one machine: the addresses in the code are 127.0.0.1 for the
master (`SERVER_IP`) and port 8002 for every server, so servers that reach the
master at all compete for that port, and one that lost it has joined already.

| Code | Actions |
|---|---|
| `main.c`: connect, join, create the threads | `StartServer` (without a listening master the process exits: nothing happens) |
| `main.c`: both threads joined, `cleanup` | `Cleanup` |
| `httpServer` | `StartDaemon` (the port is taken, or the daemon fails for another reason), `StopDaemon` |
| `receive_messages`: the look at `shouldWork` | `CheckShouldWork` |
| `recv` and unpacking | `RecvPolls`, `RecvFails` (0 or an error) |
| the report | `SendReport`: sent; or the connection is closed and the thread returns, calls `exit` or dies of SIGPIPE |
| `main.rs`: spawn, `select!`, `join!` | `StartMaster`, `Select`, `JoinHandles` |
| `tcp_main`, `http_main` | `TcpFails`, `TcpShutdown`, `HttpFails`, `HttpShutdown` |
| the interval of `health_check_send` | `Poll` |
| Ctrl-C; a signal or a crash | `CtrlC`; `Kill`, `KillMaster` |

A poll is the id of the connection as a protobuf field and a newline. The server
unpacks what one `recv()` returned without the last byte. Of several polls the
newline in the middle is then taken for the tag of a field, and whether the bytes
after it parse depends on the digits of the id: `RecvPolls` has both outcomes.
When they parse, one report answers all of them.

`select!` consumes the handle of a service that ended, and `join!` polls it again:
that panics, and the process is gone at once, with whatever the other service was
doing; after Ctrl-C `join!` waits for both. Either way the master ends as a whole,
which is what `MasterEndsWhole` says. actix installs its own handler of SIGINT, so
after Ctrl-C the HTTP task may end before the main task has seen the signal.

That a connection whose server or master is gone leaves the registry is
`ClosedLeaves` of `Master`. `Master` and `Dfs` take addresses as parameters: they
model the program as it would be configured for several machines.

### Dfs

Clients upload, read and delete one file. A client is the `await` it is at; each
request is a step, and `Continue` is what `insertFile` does up to its next one.

| Code | Actions |
|---|---|
| `insertFile` | `insertFile`, then for every chunk `LocateChunk` (`/server_to_write`) and for every location `PostChunk`; `PostUnanswered` when the answer is lost and the loop repeats the request |
| `readFile` | `readFile`, `ListChunks` (`/chunks`), `LocateChunks` (`/chunk-location-multiple`), `GetChunk` for every chunk from a location chosen at random |
| `deleteFile` | `deleteFile`, `LocateFile` (`/filelocation`), `RemoveAtLocal` |
| a request to nobody | `RequestFails`; for a POST nothing happens, the client asks again |
| a chunk server | `Kill` and `Restart` through `run.sh`, which wipes the data |
| the master | `Join`, `SendReport`, `UpdateState`, `Leave` |

A chunk server is `ChunkServer` with one file. The master is `Master` with the
registry as a function from connections to last reports, where a connection is a
server and the number of its deaths before: the handler of a dead connection may
clean up long after the server is back. A report carries what the server held when
it answered; a garbled one is left to `StorageNode`. `server_to_write` is one step
and gives any servers registered at that moment, at most `replication_factor`, in
any order; `Master` has the round robin and the interleaved picks, which choose
among these except for servers that leave in the middle of a request.

`removeFile.ts` goes over the indices of the array of locations, so the first
request goes to the host `0`, which is the address 0.0.0.0 and by the conventions
of the operating system the client's own machine: the constant `Local` (an
assumption about the platform, outside the repository). The host `1` is nobody's.

`calm` and `uploaded` are ghosts. A call is calm while no server died, nothing was
deleted and no request of its own failed since it began, and, for reads and
deletions, if it began when the directory showed what the live servers hold
(`Settled`); `shown` is what they held then. `uploaded` says what the last calm upload that returned true leaves
one to expect: `"yes"`, or `"skipped"` if it passed over a chunk because no server
was registered. Only what a calm call returned is kept.

### FileStore and DfsRefinement

`FileStore` is the system without servers, reports or requests: a set of stored
chunks, which an upload extends by one and a death or a deletion makes smaller, and
readers that begin with what is stored and end with something, in order, that is
stored by then and includes it. An upload may return only when every chunk is
stored. `DfsRefinement` maps the chunks of the live servers to the set, and a calm
read to one under way. A POST takes effect at the server, answered or not; a read
begins with `readFile` and ends with the answer to its last `GET`. Joins, reports,
restarts and the two questions a reader asks the master are stutters. A call that
is not calm is idle there: to it nothing is promised.

`FileStore` says more than `UploadStored` and `ReadComplete`: that a read returns
only what is on a live server when it returns, and that nothing is stored but by
an upload (a server that restarts brings nothing back).

`DfsRefinement` also maps the master's part of `Dfs` to `Directory`, the
specification `Master` implements (`ClientsSeeDirectory`): a connection is a server
and the number of its deaths, in while it is registered, gone once its server died
and it is not. So both models keep the same promise about who is in the directory
and for how long; that a report shows what its server held is the chunk server's
part, and `Fresh` in the proof of `ReadComplete`.

## Runs

| Run | Instance | What it shows |
|---|---|---|
| `node_interleaved` | 2 files, 2 chunks, `fclose` may fail, `run.sh` | `EntryPerDirectory`, `NoIndexUnderflow`, `FirstChunkIsOwn`, `DeleteForgets`: uploads of both files in any order, deletes and re-uploads keep one entry per non-empty directory, each beginning with a chunk of its own |
| `node_sequential` | 2 files, 2 chunks, no failing call, `Interleaved = FALSE` | `AckedServed`, `ListingExact`: acknowledged chunks are served whole; the listing is exactly the disk. `ImplementsChunkServer`: every behaviour is one of `ChunkServer` |
| `node_torn_write` | 2 files, 2 chunks, `fopen`, `fwrite`, `unlink` may fail, both restarts | `AckedPresent`, `WriteOnce`, `PartialNeverServed` |
| `node_interleaved_uploads_lose_chunks` | as `node_sequential` with `Interleaved = TRUE` | finding: `AckedServed` is violated |
| `node_report_races_upload` | 1 file, 2 chunks, no faults | finding: `ReportCoversAcked` is violated |
| `master_servers` | 2 connections from one address, a report with a repeated file | `RegistryMatchesHandlers`, `SenderStopsLast`, `AnswersAgree`, the liveness properties `ClosedLeaves`, `JoinedEnters`, and `ImplementsDirectory`: every behaviour is one of `Directory` |
| `master_writes` | 3 connections, 2 requests, 2 replicas | `RoundRobinFair`, `AloneGetsReplicas` |
| `lifecycle` | 2 servers on the machine of the master, 2 polls under way | `EndedTells`, `StopsOnlyBehind`: no thread ends in silence, a single poll stops no server; and the liveness properties `ServerEnds`, `ConnectedServes`, `MasterEndsWhole` |
| `dfs_reads` | 2 servers, 2 chunks, 1 replica, a client that uploads, one that reads, 1 death | `UploadStored`, `ReadComplete`, and `ImplementsFileStore`: every behaviour is one of `FileStore` |
| `dfs_progress` | 2 servers, 1 chunk, 2 replicas, a client that uploads and deletes, 2 deaths | the liveness properties `UploadReturns`, `UploadVisible`, and `ClientsSeeDirectory`: what the clients are answered from is a `Directory` |
| `client_upload_nowhere` | 1 server, 2 chunks | finding: `UploadLocated` is violated |
| `client_delete_elsewhere` | 1 server, not on the clients' machine | finding: `DeleteReturnsTrue` is violated |

Findings:

1. `insert_to_struct` (`fileState.c:55`) appends a chunk to the last entry of the
   listing, whichever file that is for. Two clients that upload at the same time
   lose chunks although every upload was answered with 200.
2. `return_current_state_encoded_in_protobufs` (`fileState.c:121`) packs the
   report after the unlock from memory an upload may reallocate meanwhile.
3. `insertFile` (`insertFile.ts:22`) returns true with nothing stored when no server
   is registered: the answer is an empty array, not an error.
4. `deleteFile` (`removeFile.ts:16`) goes over indices instead of addresses: it works
   for one chunk server on the client's own machine and for no other arrangement.

### Bounds and why they are enough

* Two files: entries of different files can be confused, an entry can move up
  when another is removed, and a third file adds no new relation between two
  entries. Two chunks: a directory that already has files is the second chunk.
* `MaxListed` (2 or 3) bounds the entries of the listing and the chunk ids of an
  entry, by the guard `WithinBound` of new uploads. Three chunk ids let an entry
  take chunks of both files. In `node_torn_write`, where failed deletions pile up
  duplicate entries, two entries are enough to have a duplicate.
* `Contents` has one member: `Partial` is already a different value, and a chunk
  that is overwritten is seen to become `Partial` on the way.
* `MaxInbox`, `MaxPolls` bound the messages under way on one connection. Two
  messages let a report wait behind the join. In `master_writes` `MaxPolls` is 0
  (nothing is reported): picks depend on the membership alone.
* Three connections in `master_writes`: a removal can leave the index in the
  middle of, at the end of, or beyond the registry. Connections, and there also
  requests, are interchangeable, so symmetry is used; no liveness is checked
  there.
* `lifecycle`: two servers make one lose port 8002 and let it have the port when
  the other ends; two polls are enough to be received as one. Every thread, task
  and signal is there in full, and processes start, end and die any number of
  times.
* `dfs_reads`: with two servers and one replica the two chunks may be on different
  servers, so a read must combine the reports of both; with one death a connection
  is replaced, and a chunk that is lost leaves a gap in what a read returns. Servers
  are interchangeable there (nobody is `Local`), so symmetry is used. `dfs_progress`: with two replicas a POST may find the first server up
  and the second down; with two deaths each server may die, or one twice, so that a
  server has three connections one after the other. `MaxDeaths` bounds all deaths
  together (the guard of `Kill` counts the connections that are dead).
* Deadlock is checked in every run but `master_servers`, where it is no error
  that every connection has come to its end.

### Fairness

In `Master`, `WF_vars(Handler(c))`: the tokio runtime runs a task whose socket is
readable or closed and whose mutex is free; no other task holds the registry's
mutex across an `await`. Chunk servers and clients are under no obligation there,
nor is the sender. Nothing about `StorageNode` needs fairness.

In `Lifecycle`, `WF` of the steps of each thread and of `Cleanup` (the operating
system runs a thread that is not blocked), of the main task and of the services'
answer to a shutdown (the tokio runtime), and of `Poll` (an interval of ten
seconds). Without `Poll` a server whose HTTP thread ended would wait in `recv()`
for ever. Nobody has to start, stop or kill a process, and no service has to fail.

In `Dfs`, `WF` of a client's next step (a request to a live process is answered in
the end; a lost answer is a different action, which need not be the one that
happens for ever), of the master's handling of a report and of a broken
connection (as above), and of joins and reports: a server joins when it starts and
is polled every ten seconds. `WF` of `Restart` is not the code's doing: it is the
operator's obligation, and `UploadReturns` shows that the endless loop of
`insertFile` ends under this assumption and, by the loop's shape, not without it.
`MaxDeaths` bounds how often a server dies while an upload goes on.

## Theorems

`StorageNodeProofs`, `StorageNodeRefinementProofs` and `StorageNodeListingProofs`
prove, for any sets of files, chunks and contents and any
`MaxListed`, from the named assumptions of `StorageNode`
(`ContentAssumption`, `GarbledAssumption`: the sentinels differ from contents,
reports and each other):

| Theorem | States | Assuming |
|---|---|---|
| `TypeCorrect` | `Spec => []TypeOK` | |
| `AckedStaysPresent` | `Spec => []AckedPresent` | |
| `WholeChunksAreFinal` | `Spec => WriteOnce` | |
| `TornChunksStayHidden` | `Spec => []PartialNeverServed` | `"fclose" \notin Faults` |
| `ListingMatchesDirectories` | `Spec => []EntryPerDirectory` | `Undisturbed` |
| `InsertHasAnEntry` | `Spec => []NoIndexUnderflow` | `Undisturbed` |
| `DeleteIsExact` | `Spec => DeleteForgets` | `Undisturbed` |
| `StorageNodeRefines` | `Spec => ImplementsChunkServer` | `Undisturbed`, `~Interleaved` |
| `ListingIsTheDisk` | `Spec => []ListingExact` | `Undisturbed`, `~Interleaved` |
| `AckedIsServed` | `Spec => []AckedServed` | `Undisturbed`, `~Interleaved`, `"fclose" \notin Faults` |
| `EntriesBeginWithTheirOwn` | `Spec => []FirstChunkIsOwn` | `Undisturbed` |

`MasterProofs` and `MasterRoundProofs` prove, for any set of connections,
addresses, reports and write requests and any number of replicas:

| Theorem | States |
|---|---|
| `MasterProofs!TypeCorrect` | `Spec => []TypeOK` |
| `RegistryIsExact` | `Spec => []RegistryMatchesHandlers` |
| `SenderOutlivesEntry` | `Spec => []SenderStopsLast` |
| `MasterRefines` | `Spec => ImplementsDirectory` |
| `QueriesAgree` | `Spec => []AnswersAgree` |
| `PicksGoRound` | `Spec => []RoundRobinFair` |
| `AloneIsServed` | `Spec => []AloneGetsReplicas` |

`LifecycleProofs` proves, for any number of chunk servers and any `MaxPolls`,
`TypeCorrect` (`Spec => []TypeOK`), `EndedThreadsTell` (`Spec => []EndedTells`) and
`NoSinglePollStops` (`Spec => StopsOnlyBehind`).

`DfsProofs` proves, for any finite set of servers, any clients and any number of
chunks, replicas and deaths (`DfsAssumption`; it also says that no report is taken
for the absence of one):

| Theorem | States |
|---|---|
| `DfsTypeCorrect` | `Spec => []TypeOK` |
| `ReadsAreComplete` | `Spec => []ReadComplete` |
| `UploadsAreStored` | `Spec => []UploadStored` |
| `DfsRefines` | `Spec => ImplementsFileStore` |
| `DirectoryIsKept` | `Spec => ClientsSeeDirectory` |

`Undisturbed` says that of the system calls only `fclose` may fail and that
`run.sh` does every restart. It is needed: a deletion that fails half-way leaves
an entry without a directory, and a restart that keeps `data/` leaves directories
without an entry, whose next chunk is appended at index -1.

The inductive invariants:

* `DiskInv`. `AckedPresent` alone is not inductive: `UnlinkChunk` needs that the
  chunks of the file being deleted are no longer promised, `CloseChunk` that the
  file being written holds a prefix of the body or all of it.
* `PartialInv`. A directory the listing names has no torn chunk but the one being
  written. It is inductive because a directory enters the listing with its first
  chunk, and everything that tears a later one (a failed `fwrite`, a death before
  `fclose`) also ends the process and with it the listing. The theorem is the
  reason why torn chunks, which stay on disk for ever and are acknowledged to
  every retry, do no harm to readers.
* `ListingInv`. `FileAgrees` says for every step of an upload and a delete how the
  entry and the directory of one file relate; `UniquePaths` is what makes the
  first entry that `remove_from_struct` finds the only one. `RemoveAtForgets`
  carries the argument about the shifting loop.
* `LastEntryInv`, for the refinement: while an upload is about to add a chunk to a
  file that has some, that file is the last entry of the listing. Together with
  `ListingInv` it makes `PushChunkId` add the chunk to the set of its own file.
* `NamesInv` and `IdsInv`, for `ListingIsTheDisk`: but for the chunk about to be listed
  and the file being deleted, the listing names what is on disk, and names it once.
  They need `LastEntryInv` (the chunk goes to its own file's entry), `ListingInv` (a
  deletion finds the one entry) and `DiskInv` (what is being uploaded is on disk).
  `AckedIsServed` joins them with `AckedPresent` and `PartialNeverServed`.
* `FirstInv`, for `EntriesBeginWithTheirOwn`, does without `LastEntryInv`: a new entry
  has its own chunk, and what is appended later, to whichever entry, does not come
  first.
* `RegistryInv`, for `RegistryIsExact`, `SenderOutlivesEntry` and `MasterRefines`:
  connection ids are unique in the registry, and `ConnectionInv` says for one
  connection how the handler, the flag, the sender, the socket and the messages
  under way fit together. Its core is that a join is only ever the first message
  that waits, and that a connection whose join waits is not registered: so a join
  is read once, before every report. The tasks of other connections do not disturb
  it (`ConnectionUntouched`).
* `RoundInv`, for `PicksGoRound`: the servers picked in a round are those on the arc
  of positions, modulo the number of servers, from where the round began to
  `index_to_write`. A pick extends the arc by one or closes it; a join or a removal
  begins a new round wherever the index is, beyond the end included.
* `AloneInv`, for `AloneIsServed`: as long as a write request is alone, what it was
  given are the last servers on the way round to `index_to_write`, as many as its
  turns so far, or all. When their addresses differ, `LastPickedCount` counts them.
* `QueriesAgree` needs `TypeOK` only: `AnswersAgree` is about what the queries compute
  from a registry. `FirstProperties` says that of the holders with one address exactly
  one is the first, which is what makes a location of every holder and none twice.
* `EndedTells` of `Lifecycle` is inductive with `TypeOK`; `StopsOnlyBehind` follows
  from the actions that can end the TCP thread.
* `UploadInv`, for `UploadsAreStored`: a calm upload that has passed over nothing and
  is at chunk `i` has stored every chunk before `i` on a live server (`StoredSoFar`).
  A chunk leaves the servers only with a death or a deletion, and both end the calm
  of every call and reset `uploaded`.

* `TypeInv` of `DfsProofs` adds `Fetching` to `TypeOK`: a read that fetches has a
  location for every chunk and one chunk left to fetch, so that `chunkIds[i]` exists.
  `DeathsAreBounded` gets the bound on a server's deaths from the number of dead
  connections.
* `ReadInv`, for `ReadsAreComplete`: while some read is calm the directory is `Fresh`
  (every connection is that of a live server, and what is shown of it is part of
  what is reported, which is part of what it holds), and so grows with every step
  but a death and a deletion, which end the calm. `ReadSoFar` says for each step of
  a read that nothing shown at the beginning was lost on the way, and that the
  servers it will ask have what it will ask for. `ReadComplete` says nothing of a
  read under way, so it cannot be inductive.
* `DirectoryIsKept` needs `TypeOK` only: a number of deaths is used once.
* `DownIsEmpty`, for `DfsRefines`, together with `ReadInv` and `UploadInv`: a server
  that is down holds nothing, so a restart stores nothing. `IncreasingIsShort` bounds
  the length of what is returned by the number of chunks.

`ListingInv`, `PartialInv`, `DiskInv`, `RegistryInv`, `AloneInv` and `ReadInv` were
checked with TLC on the instances of `node_interleaved`, `node_torn_write`,
`master_servers`, `master_writes` and `dfs_reads` before they were proved.

Only model-checked are the liveness properties (`ClosedLeaves` and `JoinedEnters` of
`Master`; `ServerEnds`, `ConnectedServes` and `MasterEndsWhole` of `Lifecycle`;
`UploadReturns` and `UploadVisible` of `Dfs`): liveness under fairness is out of the
prover's reach. Every other property of a passing run is a theorem, some of the chunk
server's under the assumptions in its table. That an order of a finite set of numbers
exists at all (`OrderExists`), which every answer in registry order rests on, takes an
induction; it is proved from the smallest counterexample, for which the library has
the facts.

## Not modelled

* Failing `malloc`/`realloc`, memory leaks, chunk 0-byte bodies (400) and the
  other answers that change nothing; file names with `/`, which make directories
  inside directories; names longer than the fixed buffers.
* The body of a response is sent after the handler returned, from an open file:
  a `DELETE` in between does not disturb it (an unlinked open file keeps its
  content).
* Protobuf encoding and JSON: generated code.
* Clients: local files that cannot be read or written; what a read returns that
  began before the directory was settled, or was disturbed; two uploads of different contents under
  one name, whose chunks would mix. Several files in `Dfs`: by the first finding their
  uploads would have to be kept apart. Deaths of the master, which end its chunk
  servers too (`ServerEnds` of `Lifecycle`): the system starts again from nothing.
* `pthread_create` and `tokio::spawn` do not fail; a poll that arrives in pieces
  (it is some forty bytes, written at once).
* `getNextChunkNumber` and `state/message.rs`, which nothing uses, and the printing
  functions.

## Plan

Done: the chunk server, the master, their abstractions and the refinements; the
processes; clients, and what they are promised; proofs of all safety properties. In
this order, what is left:

1. What a read may return that began before the directory was settled, in `Dfs`,
   `FileStore` and the proof of `DfsRefines`.
2. Several files in `Dfs`, over a chunk server that keeps them apart.

The runs are as many as a reader can keep apart: new properties go to the runs
there are.
