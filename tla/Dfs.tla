--------------------------------- MODULE Dfs ---------------------------------
(***************************************************************************)
(* The system seen from its clients (src/client): several of them upload,  *)
(* read and delete one file, the master answers from the last report of    *)
(* every chunk server, and the servers hold chunks.                        *)
(*                                                                         *)
(* A chunk server is what ChunkServer says it is; with one file its uploads*)
(* do not interleave with those of another. The master is Master with its  *)
(* registry as a set: a server that died and came back is a new connection *)
(* and the old one may still be registered. Each server is on a machine of *)
(* its own, so a server is its address.                                    *)
(***************************************************************************)
EXTENDS Naturals, Sequences, FiniteSets, SequencesExt, FiniteSetsExt, Ordered

CONSTANTS
  Servers,             \* the machines that run a chunk server
  Local,               \* the machine the clients run on
  TotalChunks,         \* how many chunks the file has
  Inserters, Readers, Removers,  \* clients, by the calls they make
  replication_factor,  \* how many servers /server_to_write picks
  MaxDeaths,           \* bound: deaths of chunk servers, all together
  None                 \* no report is under way

ASSUME DfsAssumption ==
  /\ IsFiniteSet(Servers)
  /\ TotalChunks \in Nat /\ MaxDeaths \in Nat /\ replication_factor \in Nat \ {0}
  /\ \A chunks \in SUBSET (0..(TotalChunks - 1)) : None # chunks

VARIABLES
  up,        \* the servers whose process is alive
  deaths,    \* deaths[s]: numbers the connections of s
  holds,     \* holds[s]: the chunks of the file that s serves
  view,      \* view[conn]: the last report of every registered connection
  report,    \* report[conn]: the report on its way to the master
  client,    \* the call each client is executing
  uploaded   \* ghost: "yes" or "skipped" once an upload returned true

serverVars == <<up, deaths, holds>>
masterVars == <<view, report>>
vars == <<up, deaths, holds, view, report, client, uploaded>>

Clients == Inserters \union Readers \union Removers
Whole == 0..(TotalChunks - 1)
Connections == Servers \X (0..MaxDeaths)
Connection(s) == <<s, deaths[s]>>
Dead == {conn \in Connections : conn[2] < deaths[conn[1]]}
Registered == {conn[1] : conn \in DOMAIN view}

\* calm (ghost): what the call began with was settled, and no server died, no
\* request failed and nothing was deleted since. Only what a calm call returned
\* is kept. shown (ghost): what the directory showed when a read began.
Idle == [step |-> "idle", calm |-> FALSE]
Returned(op, value, output, shown, calm) ==
  IF calm
  THEN [step |-> "returned", op |-> op, value |-> value, output |-> output,
        shown |-> shown, calm |-> TRUE]
  ELSE Idle
Step(k, s) == client[k].step = s
Goto(k, state) == client' = [client EXCEPT ![k] = state]
Ready(k) == client[k].step \in {"idle", "returned"}
Disturbed ==
  [k \in Clients |-> IF Ready(k) THEN Idle ELSE [client[k] EXCEPT !.calm = FALSE]]

\* The directory shows what the live servers hold, and will go on doing so.
Settled ==
  /\ DOMAIN view = {Connection(s) : s \in up}
  /\ \A s \in up : /\ view[Connection(s)] = holds[s]
                   /\ report[Connection(s)] \in {None, holds[s]}

Stored(c) == \E s \in up : c \in holds[s]

-----------------------------------------------------------------------------
(* The master's answers, as in TcpStorage *)

\* Slip: the search for the file's chunks ends at the first server that has it.
get_chunks_for_fileFirst ==
  LET having == {conn \in DOMAIN view : view[conn] # {}} IN
  IF having = {} THEN {} ELSE view[CHOOSE conn \in having : TRUE]

get_chunks_for_file == UNION {view[conn] : conn \in DOMAIN view}

get_location(c) == {conn[1] : conn \in {x \in DOMAIN view : c \in view[x]}}

\* How many addresses get_file_locations gives: one for each connection.
get_file_locations_count == Cardinality({conn \in DOMAIN view : view[conn] # {}})

\* /server_to_write: the order of a HashSet is any order. Joins and departures
\* between its turns can make it fewer than there are servers.
server_to_write ==
  IF DOMAIN view = {} THEN {<< >>}
  ELSE UNION {SetToSeqs(P) : P \in {Q \in SUBSET Registered : Cardinality(Q) \in 1..replication_factor}}

Init ==
  /\ up = Servers
  /\ deaths = [s \in Servers |-> 0]
  /\ holds = [s \in Servers |-> {}]
  /\ view = << >>
  /\ report = << >>
  /\ client = [k \in Clients |-> Idle]
  /\ uploaded = "no"

-----------------------------------------------------------------------------
(* insertFile *)

insertFile(k) ==
  /\ k \in Inserters /\ Ready(k)
  /\ Goto(k, IF TotalChunks = 0 THEN Idle
             ELSE [step |-> "locate", chunkId |-> 0, skipped |-> FALSE, calm |-> TRUE])
  /\ UNCHANGED <<serverVars, masterVars, uploaded>>

\* What a call that returns true means for the file.
Uploaded(calm, skipped) ==
  IF ~calm \/ uploaded = "yes" THEN uploaded ELSE IF skipped THEN "skipped" ELSE "yes"

\* The rest of the loop over the locations, and the next chunk when none is left.
Continue(k, locations, skipped) ==
  LET id == client[k].chunkId
      calm == client[k].calm
  IN \/ /\ locations # << >>
        /\ Goto(k, [step |-> "post", chunkId |-> id, locations |-> locations,
                    skipped |-> skipped, calm |-> calm])
        /\ UNCHANGED uploaded
     \/ /\ locations = << >> /\ id + 1 < TotalChunks
        /\ Goto(k, [step |-> "locate", chunkId |-> id + 1, skipped |-> skipped, calm |-> calm])
        /\ UNCHANGED uploaded
     \/ /\ locations = << >> /\ id + 1 = TotalChunks
        /\ Goto(k, Idle)
        /\ uploaded' = Uploaded(calm, skipped)

\* getChunkServerToAddChunkTo. With no server registered it is given no
\* location, and the chunk is passed over.
LocateChunk(k) ==
  /\ Step(k, "locate")
  /\ \E locations \in server_to_write :
       Continue(k, locations, client[k].skipped \/ locations = << >>)
  /\ UNCHANGED <<serverVars, masterVars>>

\* Slip: a chunk that is there already is refused.
PostNewChunk(k) ==
  /\ Step(k, "post")
  /\ LET s == Head(client[k].locations) IN
     /\ s \in up /\ client[k].chunkId \notin holds[s]
     /\ holds' = [holds EXCEPT ![s] = @ \union {client[k].chunkId}]
  /\ Continue(k, Tail(client[k].locations), client[k].skipped)
  /\ UNCHANGED <<up, deaths, masterVars>>

\* Slip: an error ends the repetition, not only the attempt.
PostChunkOnce(k) ==
  /\ Step(k, "post")
  /\ LET s == Head(client[k].locations) IN
     holds' = IF s \in up THEN [holds EXCEPT ![s] = @ \union {client[k].chunkId}] ELSE holds
  /\ Continue(k, Tail(client[k].locations), client[k].skipped)
  /\ UNCHANGED <<up, deaths, masterVars>>

\* POST /new-chunk is answered with 200, whether the chunk is new or not. While
\* the server is down the request fails and is repeated.
PostChunk(k) ==
  /\ Step(k, "post")
  /\ LET s == Head(client[k].locations) IN
     s \in up /\ holds' = [holds EXCEPT ![s] = @ \union {client[k].chunkId}]
  /\ Continue(k, Tail(client[k].locations), client[k].skipped)
  /\ UNCHANGED <<up, deaths, masterVars>>

\* The request is carried out and its answer lost: the client repeats it.
PostUnanswered(k) ==
  /\ Step(k, "post")
  /\ LET s == Head(client[k].locations) IN
     s \in up /\ holds' = [holds EXCEPT ![s] = @ \union {client[k].chunkId}]
  /\ UNCHANGED <<up, deaths, masterVars, client, uploaded>>

-----------------------------------------------------------------------------
(* readFile *)

readFile(k) ==
  /\ k \in Readers /\ Ready(k)
  /\ Goto(k, [step |-> "list", shown |-> IF Settled THEN UNION {holds[s] : s \in up} ELSE {},
              calm |-> Settled])
  /\ UNCHANGED <<serverVars, masterVars, uploaded>>

\* Slip: the answer comes in the order of the servers that were asked.
ListChunksUnsorted(k) ==
  /\ Step(k, "list")
  /\ \E chunkIds \in SetToSeqs(get_chunks_for_file) :
       Goto(k, [step |-> "locations", chunkIds |-> chunkIds,
                shown |-> client[k].shown, calm |-> client[k].calm])
  /\ UNCHANGED <<serverVars, masterVars, uploaded>>

\* POST /chunks; the answer is sorted.
ListChunks(k) ==
  /\ Step(k, "list")
  /\ Goto(k, [step |-> "locations", chunkIds |-> InOrder(get_chunks_for_file),
              shown |-> client[k].shown, calm |-> client[k].calm])
  /\ UNCHANGED <<serverVars, masterVars, uploaded>>

\* getMultipleChunkLocations, a request of its own: the directory may have
\* changed. Without a location for every chunk the call returns false.
LocateChunks(k) ==
  /\ Step(k, "locations")
  /\ LET ids == client[k].chunkIds
         locations == [i \in 1..Len(ids) |-> get_location(ids[i])]
     IN IF ids = << >> \/ \E i \in 1..Len(ids) : locations[i] = {}
        THEN Goto(k, Returned("read", FALSE, << >>, client[k].shown, client[k].calm))
        ELSE Goto(k, [step |-> "get", chunkIds |-> ids, locations |-> locations,
                      output |-> << >>, shown |-> client[k].shown, calm |-> client[k].calm])
  /\ UNCHANGED <<serverVars, masterVars, uploaded>>

\* GET /chunk from one of the locations, whichever chance picks; a server that
\* is down or answers 404 ends the call.
GetChunk(k) ==
  /\ Step(k, "get")
  /\ LET i == Len(client[k].output) + 1
         c == client[k].chunkIds[i]
         output == Append(client[k].output, c)
     IN \E s \in client[k].locations[i] :
          \/ /\ s \notin up \/ c \notin holds[s]
             /\ Goto(k, Returned("read", FALSE, client[k].output, client[k].shown, client[k].calm))
          \/ /\ s \in up /\ c \in holds[s]
             /\ Goto(k, IF i = Len(client[k].chunkIds)
                        THEN Returned("read", TRUE, output, client[k].shown, client[k].calm)
                        ELSE [client[k] EXCEPT !.output = output])
  /\ UNCHANGED <<serverVars, masterVars, uploaded>>

-----------------------------------------------------------------------------
(* deleteFile *)

deleteFile(k) ==
  /\ k \in Removers /\ Ready(k)
  /\ Goto(k, [step |-> "where", calm |-> Settled])
  /\ UNCHANGED <<serverVars, masterVars, uploaded>>

\* POST /filelocation
LocateFile(k) ==
  /\ Step(k, "where")
  /\ LET n == get_file_locations_count IN
     Goto(k, IF n = 0 THEN Returned("delete", TRUE, << >>, {}, client[k].calm)
             ELSE [step |-> "delete", left |-> n, calm |-> client[k].calm])
  /\ UNCHANGED <<serverVars, masterVars, uploaded>>

FileAtLocal == Local \in up /\ holds[Local] # {}

\* `for (let locationOfFile in locations)` goes over the keys "0", "1", ... of
\* the array, and the first request goes to http://0:8002: the client's own
\* machine. Without a chunk server that has the file there it fails. A second
\* one goes to http://1:8002, where nobody is.
RemoveAtLocal(k) ==
  /\ Step(k, "delete")
  /\ \/ /\ ~FileAtLocal
        /\ Goto(k, Returned("delete", FALSE, << >>, {}, client[k].calm))
        /\ UNCHANGED <<holds, uploaded>>
     \/ /\ FileAtLocal
        /\ holds' = [holds EXCEPT ![Local] = {}]
        /\ uploaded' = "no"
        /\ \E answered \in BOOLEAN :
             client' = [Disturbed EXCEPT ![k] =
               Returned("delete", answered /\ client[k].left = 1, << >>, {},
                        answered /\ client[k].calm)]
  /\ UNCHANGED <<up, deaths, masterVars>>

\* A request finds nobody, or its answer is lost: insertFile throws (`locations`
\* is null), readFile and deleteFile return false.
RequestFails(k) ==
  /\ client[k].step \in {"locate", "list", "locations", "get", "where", "delete"}
  /\ Goto(k, Idle)
  /\ UNCHANGED <<serverVars, masterVars, uploaded>>

-----------------------------------------------------------------------------
(* Chunk servers, and what the master hears of them *)

\* The process dies; run.sh wipes its data before it is there again.
Kill(s) ==
  /\ s \in up /\ Cardinality(Dead) < MaxDeaths
  /\ up' = up \ {s}
  /\ deaths' = [deaths EXCEPT ![s] = @ + 1]
  /\ holds' = [holds EXCEPT ![s] = {}]
  /\ client' = Disturbed
  /\ uploaded' = "no"
  /\ UNCHANGED masterVars

Restart(s) ==
  /\ s \notin up
  /\ up' = up \union {s}
  /\ UNCHANGED <<deaths, holds, masterVars, client, uploaded>>

Join(s) ==
  /\ s \in up /\ Connection(s) \notin DOMAIN view
  /\ view' = [conn \in DOMAIN view \union {Connection(s)} |->
                IF conn = Connection(s) THEN {} ELSE view[conn]]
  /\ report' = [conn \in DOMAIN view \union {Connection(s)} |->
                  IF conn = Connection(s) THEN None ELSE report[conn]]
  /\ UNCHANGED <<serverVars, client, uploaded>>

\* A poll arrives and is answered.
SendReport(s) ==
  /\ s \in up /\ Connection(s) \in DOMAIN view /\ report[Connection(s)] = None
  /\ report' = [report EXCEPT ![Connection(s)] = holds[s]]
  /\ UNCHANGED <<serverVars, view, client, uploaded>>

\* Slip: the report of a server that came back finds no entry.
UpdateStateFirst(conn) ==
  /\ conn \in DOMAIN view /\ report[conn] # None
  /\ view' = IF conn[2] = 0 THEN [view EXCEPT ![conn] = report[conn]] ELSE view
  /\ report' = [report EXCEPT ![conn] = None]
  /\ UNCHANGED <<serverVars, client, uploaded>>

UpdateState(conn) ==
  /\ conn \in DOMAIN view /\ report[conn] # None
  /\ view' = [view EXCEPT ![conn] = report[conn]]
  /\ report' = [report EXCEPT ![conn] = None]
  /\ UNCHANGED <<serverVars, client, uploaded>>

\* Slip: a connection may be cleaned up while its server goes on.
LeaveEarly(conn) ==
  /\ conn \in DOMAIN view
  /\ view' = [x \in DOMAIN view \ {conn} |-> view[x]]
  /\ report' = [x \in DOMAIN view \ {conn} |-> report[x]]
  /\ UNCHANGED <<serverVars, client, uploaded>>

\* Slip: the report of a connection that left is kept.
LeaveReport(conn) ==
  /\ conn \in DOMAIN view /\ conn \in Dead
  /\ view' = [x \in DOMAIN view \ {conn} |-> view[x]]
  /\ UNCHANGED <<serverVars, report, client, uploaded>>

\* The handler of a dead connection cleans up; a report not read yet is lost.
Leave(conn) ==
  /\ conn \in DOMAIN view /\ conn \in Dead
  /\ view' = [x \in DOMAIN view \ {conn} |-> view[x]]
  /\ report' = [x \in DOMAIN view \ {conn} |-> report[x]]
  /\ UNCHANGED <<serverVars, client, uploaded>>

Proceed(k) ==
  \/ LocateChunk(k) \/ PostChunk(k)
  \/ ListChunks(k) \/ LocateChunks(k) \/ GetChunk(k)
  \/ LocateFile(k) \/ RemoveAtLocal(k)

Next ==
  \/ \E k \in Clients :
       \/ insertFile(k) \/ readFile(k) \/ deleteFile(k)
       \/ Proceed(k) \/ PostUnanswered(k) \/ RequestFails(k)
  \/ \E s \in Servers : Kill(s) \/ Restart(s) \/ Join(s) \/ SendReport(s)
  \/ \E conn \in DOMAIN view : UpdateState(conn) \/ Leave(conn)

Spec == Init /\ [][Next]_vars

\* A client goes on while its requests are answered, and requests to a live
\* process are in the end. The master polls every ten seconds, its tasks run
\* when they can. That a dead server is started again is the operator's part.
Fairness ==
  /\ \A k \in Clients : WF_vars(Proceed(k))
  /\ \A s \in Servers : WF_vars(Restart(s)) /\ WF_vars(Join(s)) /\ WF_vars(SendReport(s))
  /\ \A conn \in Connections : WF_vars(UpdateState(conn)) /\ WF_vars(Leave(conn))

FairSpec == Spec /\ Fairness

-----------------------------------------------------------------------------
(* Properties *)

Uploading ==
  [step : {"locate"}, chunkId : Whole, skipped : BOOLEAN, calm : BOOLEAN] \union
  [step : {"post"}, chunkId : Whole, locations : Seq(Servers) \ {<< >>},
   skipped : BOOLEAN, calm : BOOLEAN]
Reading ==
  [step : {"list"}, shown : SUBSET Whole, calm : BOOLEAN] \union
  [step : {"locations"}, chunkIds : Seq(Whole), shown : SUBSET Whole, calm : BOOLEAN] \union
  [step : {"get"}, chunkIds : Seq(Whole), locations : Seq(SUBSET Servers),
   output : Seq(Whole), shown : SUBSET Whole, calm : BOOLEAN]
Deleting ==
  [step : {"where"}, calm : BOOLEAN] \union
  [step : {"delete"}, left : Nat \ {0}, calm : BOOLEAN]
Resting ==
  {Idle} \union
  [step : {"returned"}, op : {"read", "delete"}, value : BOOLEAN,
   output : Seq(Whole), shown : SUBSET Whole, calm : {TRUE}]

TypeOK ==
  /\ up \subseteq Servers
  /\ deaths \in [Servers -> 0..MaxDeaths]
  /\ holds \in [Servers -> SUBSET Whole]
  /\ DOMAIN view \subseteq Connections /\ DOMAIN report = DOMAIN view
  /\ \A conn \in DOMAIN view :
       view[conn] \subseteq Whole /\ (report[conn] = None \/ report[conn] \subseteq Whole)
  /\ client \in [Clients -> Resting \union Uploading \union Reading \union Deleting]
  /\ uploaded \in {"no", "yes", "skipped"}

\* An upload that returned true, with no chunk passed over and no server dead
\* and nothing deleted since it began, has put every chunk on a live server:
\* whatever was repeated, lost or interleaved with other uploads of the file.
UploadStored == uploaded = "yes" => \A c \in Whole : Stored(c)

\* A read that begins when the directory is settled, and is disturbed by no
\* death, deletion or failed request, returns the chunks that were shown, and
\* perhaps later ones, in order: all of the file if all of it was shown, and
\* false only if there was nothing. It asks twice, while uploads and reports go
\* on. (What it returns may have gaps where what was shown had.)
ReadComplete ==
  \A k \in Readers :
    Step(k, "returned") /\ client[k].op = "read" =>
      LET output == client[k].output IN
      /\ client[k].value <=> output # << >>
      /\ client[k].shown \subseteq Range(output)
      /\ Increasing(output)

\* An upload whose server dies under it still returns once the server is back.
UploadReturns ==
  \A k \in Inserters : client[k].step \in {"locate", "post"} ~> Ready(k)

\* The directory comes to show an uploaded file, at servers that have it, after
\* deaths before the upload, and reports on their way, unless the file is gone.
UploadVisible ==
  uploaded = "yes" ~>
    \/ uploaded # "yes"
    \/ \A c \in Whole : \E s \in get_location(c) \intersect up : c \in holds[s]

\* "upload file" of the client's test: an upload that returned true can be
\* located, once the servers reported, if no server died meanwhile.
UploadLocated ==
  uploaded # "no" /\ Settled => \A c \in Whole : get_location(c) # {}

\* "delete file functionality" of the client's test: a deletion returns true,
\* if what it began with was settled and nothing went wrong meanwhile.
DeleteReturnsTrue ==
  \A k \in Removers :
    Step(k, "returned") /\ client[k].op = "delete" => client[k].value
==============================================================================
