------------------------------ MODULE DfsProofs ------------------------------
(* Theorems about Dfs, for any servers, clients and number of chunks. *)
EXTENDS DfsRefinement, SequenceLemmas, TLAPS

-----------------------------------------------------------------------------
(* Types *)

CallState == Resting \union Uploading \union Reading \union Deleting

\* A read that fetches has a location for each chunk, and a chunk still to fetch.
Fetching(state) ==
  state.step = "get" =>
    /\ Len(state.locations) = Len(state.chunkIds)
    /\ \A i \in 1..Len(state.chunkIds) : state.locations[i] # {}
    /\ Len(state.output) < Len(state.chunkIds)

TypeInv == TypeOK /\ \A k \in Clients : Fetching(client[k])

LEMMA TypeInvInit == Init => TypeInv
<1> SUFFICES ASSUME Init PROVE TypeInv
  OBVIOUS
<1>1. Idle \in Resting /\ Idle.step = "idle"
  BY DEF Idle, Resting
<1>2. client \in [Clients -> CallState] /\ \A k \in Clients : Fetching(client[k])
  BY <1>1 DEF Init, CallState, Fetching
<1>3. DOMAIN view = {} /\ DOMAIN report = {}
  BY DEF Init
<1>4. up \subseteq Servers /\ deaths \in [Servers -> 0..MaxDeaths] /\ holds \in [Servers -> SUBSET Whole]
  BY DfsAssumption DEF Init
<1> QED
  BY <1>2, <1>3, <1>4 DEF Init, TypeInv, TypeOK, CallState

\* A client goes to a state of the right form; the rest stays as it is.
LEMMA GotoKeepsType ==
  ASSUME TypeInv, UNCHANGED <<serverVars, masterVars>>, uploaded' \in {"no", "yes", "skipped"},
         NEW k \in Clients, NEW state \in CallState, Goto(k, state), Fetching(state)
  PROVE  TypeInv'
<1>1. client \in [Clients -> CallState]
  BY DEF TypeInv, TypeOK, CallState
<1>2. client' \in [Clients -> CallState] /\ \A j \in Clients : Fetching(client'[j])
  BY <1>1 DEF Goto, TypeInv
<1> QED
  BY <1>2 DEF TypeInv, TypeOK, CallState, Fetching, serverVars, masterVars

\* Steps of the servers and of the master's tasks.
LEMMA NoCallKeepsType ==
  ASSUME TypeInv, UNCHANGED client, uploaded' \in {"no", "yes", "skipped"},
         up' \subseteq Servers, deaths' \in [Servers -> 0..MaxDeaths],
         holds' \in [Servers -> SUBSET Whole],
         DOMAIN view' \subseteq Connections, DOMAIN report' = DOMAIN view',
         \A conn \in DOMAIN view' :
           view'[conn] \subseteq Whole /\ (report'[conn] = None \/ report'[conn] \subseteq Whole)
  PROVE  TypeInv'
  BY DEF TypeInv, TypeOK, CallState, Fetching

\* What a call returns has the right form, calm or not.
LEMMA ReturnedType ==
  ASSUME NEW op \in {"read", "delete"}, NEW value \in BOOLEAN, NEW output \in Seq(Whole),
         NEW shown \in SUBSET Whole, NEW calm \in BOOLEAN
  PROVE  LET r == Returned(op, value, output, shown, calm) IN r \in CallState /\ Fetching(r)
<1>1. CASE calm
  BY <1>1 DEF Returned, CallState, Resting, Fetching
<1>2. CASE ~calm
  BY <1>2 DEF Returned, Idle, CallState, Resting, Fetching
<1> QED
  BY <1>1, <1>2

LEMMA DeletionReturnedType ==
  ASSUME NEW value \in BOOLEAN, NEW calm \in BOOLEAN
  PROVE  LET r == Returned("delete", value, << >>, {}, calm) IN r \in CallState /\ Fetching(r)
<1>1. << >> \in Seq(Whole) /\ {} \in SUBSET Whole /\ "delete" \in {"read", "delete"}
  OBVIOUS
<1> QED
  BY <1>1, ReturnedType

\* Which state a call is in, from its step.
LEMMA CallFields ==
  ASSUME NEW state \in CallState
  PROVE  /\ state.calm \in BOOLEAN
         /\ state.step \in {"locate", "post"} =>
              state \in Uploading /\ state.chunkId \in Whole /\ state.skipped \in BOOLEAN
         /\ state.step = "post" => state.locations \in Seq(Servers) \ {<< >>}
         /\ state.step \in {"list", "locations", "get"} =>
              state \in Reading /\ state.shown \in SUBSET Whole
         /\ state.step \notin {"locate", "post", "list", "locations", "get"} =>
              state \in Resting \/ state \in Deleting
         /\ state \in Resting => state.step \in {"idle", "returned"}
         /\ state.step \in {"locations", "get"} => state.chunkIds \in Seq(Whole)
         /\ state.step = "get" => state.locations \in Seq(SUBSET Servers) /\ state.output \in Seq(Whole)
<1>1. state \in Resting => state.step \in {"idle", "returned"} /\ state.calm \in BOOLEAN
  <2>1. Idle.step = "idle" /\ Idle.calm \in BOOLEAN
    BY DEF Idle
  <2> QED
    BY <2>1 DEF Resting
<1>2. state \in Uploading =>
        /\ state.step \in {"locate", "post"} /\ state.calm \in BOOLEAN
        /\ state.chunkId \in Whole /\ state.skipped \in BOOLEAN
        /\ state.step = "post" => state.locations \in Seq(Servers) \ {<< >>}
  BY DEF Uploading
<1>3. state \in Reading =>
        /\ state.step \in {"list", "locations", "get"} /\ state.calm \in BOOLEAN
        /\ state.shown \in SUBSET Whole
        /\ state.step \in {"locations", "get"} => state.chunkIds \in Seq(Whole)
        /\ state.step = "get" =>
             state.locations \in Seq(SUBSET Servers) /\ state.output \in Seq(Whole)
  BY DEF Reading
<1>4. state \in Deleting => state.step \in {"where", "delete"} /\ state.calm \in BOOLEAN
  BY DEF Deleting
<1> QED
  BY <1>1, <1>2, <1>3, <1>4 DEF CallState

\* The master's answers.
LEMMA FiniteDirectory ==
  ASSUME TypeOK
  PROVE  IsFiniteSet(Connections) /\ IsFiniteSet(DOMAIN view) /\ Registered \subseteq Servers
<1>1. IsFiniteSet(0..MaxDeaths)
  BY DfsAssumption, FS_Interval
<1>2. IsFiniteSet(Connections)
  BY <1>1, DfsAssumption, FS_Product DEF Connections
<1>3. IsFiniteSet(DOMAIN view)
  BY <1>2, FS_Subset DEF TypeOK
<1> QED
  BY <1>2, <1>3 DEF Registered, TypeOK, Connections

\* The servers named by /server_to_write are servers.
LEMMA ServerToWriteType ==
  ASSUME TypeOK
  PROVE  server_to_write \subseteq Seq(Servers)
<1> SUFFICES ASSUME NEW locations \in server_to_write PROVE locations \in Seq(Servers)
  OBVIOUS
<1>1. CASE locations = << >>
  BY <1>1
<1>2. CASE locations # << >>
  <2>1. PICK Q \in SUBSET Registered : locations \in SetToSeqs(Q)
    BY <1>2 DEF server_to_write
  <2>2. Q \subseteq Servers /\ IsFiniteSet(Q)
    BY FiniteDirectory, DfsAssumption, FS_Subset
  <2>3. locations \in Seq(Q)
    BY <2>1, <2>2, SetToSeqsProperties
  <2> QED
    BY <2>2, <2>3, SeqMonotonic
<1> QED
  BY <1>1, <1>2

\* The answer of /chunks.
LEMMA ChunksShownType ==
  ASSUME TypeOK
  PROVE  /\ get_chunks_for_file \subseteq Whole
         /\ InOrder(get_chunks_for_file) \in Seq(Whole)
         /\ Increasing(InOrder(get_chunks_for_file))
         /\ Range(InOrder(get_chunks_for_file)) = get_chunks_for_file
<1>1. get_chunks_for_file \subseteq 0..(TotalChunks - 1)
  BY DEF get_chunks_for_file, TypeOK, Whole
<1>2. /\ InOrder(get_chunks_for_file) \in Seq(get_chunks_for_file)
      /\ Increasing(InOrder(get_chunks_for_file))
      /\ Range(InOrder(get_chunks_for_file)) = get_chunks_for_file
  BY <1>1, DfsAssumption, InOrderProperties
<1> QED
  BY <1>1, <1>2, SeqMonotonic DEF Whole

\* The answer of /locations names servers only.
LEMMA LocationType == ASSUME TypeOK PROVE \A c : get_location(c) \subseteq Servers
  BY DEF get_location, TypeOK, Connections

LEMMA InsertFileKeepsType ==
  ASSUME TypeInv, NEW k \in Clients, insertFile(k)
  PROVE  TypeInv'
<1> DEFINE start == [step |-> "locate", chunkId |-> 0, skipped |-> FALSE, calm |-> TRUE]
<1>1. Idle \in CallState /\ Fetching(Idle)
  BY DEF Idle, CallState, Resting, Fetching
<1>2. TotalChunks # 0 => start \in CallState /\ Fetching(start)
  BY DfsAssumption DEF CallState, Uploading, Whole, Fetching
<1>3. UNCHANGED <<serverVars, masterVars>> /\ uploaded' \in {"no", "yes", "skipped"}
  BY DEF insertFile, TypeInv, TypeOK
<1> HIDE DEF start
<1>4. Goto(k, IF TotalChunks = 0 THEN Idle ELSE start)
  BY DEF insertFile, start
<1> QED
  BY <1>1, <1>2, <1>3, <1>4, GotoKeepsType

\* What remains of the loops of insertFile is a call of the right form.
LEMMA ContinueType ==
  ASSUME TypeInv, NEW k \in Clients, client[k].step \in {"locate", "post"},
         NEW locations \in Seq(Servers), NEW skipped \in BOOLEAN,
         Continue(k, locations, skipped)
  PROVE  \E state \in CallState :
           Goto(k, state) /\ Fetching(state) /\ uploaded' \in {"no", "yes", "skipped"}
<1>1. client[k] \in CallState
  BY DEF TypeInv, TypeOK, CallState
<1> DEFINE id == client[k].chunkId
           calm == client[k].calm
           post == [step |-> "post", chunkId |-> id, locations |-> locations,
                    skipped |-> skipped, calm |-> calm]
           next == [step |-> "locate", chunkId |-> id + 1, skipped |-> skipped, calm |-> calm]
<1>2. id \in Whole /\ calm \in BOOLEAN
  BY <1>1, CallFields
<1>3. uploaded \in {"no", "yes", "skipped"} /\ Uploaded(calm, skipped) \in {"no", "yes", "skipped"}
  BY DEF TypeInv, TypeOK, Uploaded
<1>4. CASE locations # << >> /\ Goto(k, post) /\ UNCHANGED uploaded
  <2>1. post \in CallState /\ Fetching(post)
    BY <1>2, <1>4 DEF CallState, Uploading, Fetching
  <2> QED
    BY <2>1, <1>3, <1>4
<1>5. CASE id + 1 < TotalChunks /\ Goto(k, next) /\ UNCHANGED uploaded
  <2>1. id + 1 \in Whole
    BY <1>2, <1>5, DfsAssumption DEF Whole
  <2>2. next \in CallState /\ Fetching(next)
    BY <1>2, <2>1 DEF CallState, Uploading, Fetching
  <2> QED
    BY <2>2, <1>3, <1>5
<1>6. CASE Goto(k, Idle) /\ uploaded' = Uploaded(calm, skipped)
  <2>1. Idle \in CallState /\ Fetching(Idle)
    BY DEF Idle, CallState, Resting, Fetching
  <2> QED
    BY <2>1, <1>3, <1>6
<1> QED
  BY <1>4, <1>5, <1>6 DEF Continue

LEMMA LocateChunkKeepsType ==
  ASSUME TypeInv, NEW k \in Clients, LocateChunk(k)
  PROVE  TypeInv'
<1>1. PICK locations \in server_to_write :
        Continue(k, locations, client[k].skipped \/ locations = << >>)
  BY DEF LocateChunk
<1>2. /\ client[k].step \in {"locate", "post"} /\ UNCHANGED <<serverVars, masterVars>>
      /\ client[k] \in CallState
  BY DEF LocateChunk, Step, TypeInv, TypeOK, CallState
<1>3. (client[k].skipped \/ locations = << >>) \in BOOLEAN
  OBVIOUS
<1>4. locations \in Seq(Servers)
  BY ServerToWriteType DEF TypeInv
<1> QED
  BY <1>1, <1>2, <1>3, <1>4, ContinueType, GotoKeepsType

\* A posted chunk, whatever the client does with the answer.
LEMMA PostKeepsType ==
  ASSUME TypeInv, NEW k \in Clients, PostChunk(k) \/ PostUnanswered(k)
  PROVE  TypeInv'
<1>1. client[k].step = "post" /\ client[k] \in CallState
  BY DEF PostChunk, PostUnanswered, Step, TypeInv, TypeOK, CallState
<1>2. /\ client[k].chunkId \in Whole /\ client[k].skipped \in BOOLEAN
      /\ client[k].locations \in Seq(Servers) /\ client[k].locations # << >>
  BY <1>1, CallFields
<1> DEFINE s == Head(client[k].locations)
           rest == Tail(client[k].locations)
<1>3. rest \in Seq(Servers)
  BY <1>2
<1>4. holds' = [holds EXCEPT ![s] = @ \union {client[k].chunkId}]
  BY DEF PostChunk, PostUnanswered
<1>5. holds' \in [Servers -> SUBSET Whole]
  BY <1>2, <1>4 DEF TypeInv, TypeOK
<1> HIDE DEF rest, s
<1>6. CASE PostChunk(k)
  <2>1. Continue(k, rest, client[k].skipped) /\ UNCHANGED <<up, deaths, masterVars>>
    BY <1>6 DEF PostChunk, rest
  <2>2. PICK state \in CallState :
          Goto(k, state) /\ Fetching(state) /\ uploaded' \in {"no", "yes", "skipped"}
    BY <1>1, <1>2, <1>3, <2>1, ContinueType
  <2>3. client' \in [Clients -> CallState] /\ \A j \in Clients : Fetching(client'[j])
    BY <2>2 DEF Goto, TypeInv, TypeOK, CallState
  <2> QED
    BY <1>5, <2>1, <2>2, <2>3 DEF TypeInv, TypeOK, CallState, Fetching, masterVars
<1>7. CASE PostUnanswered(k)
  <2>1. UNCHANGED <<up, deaths, masterVars, client, uploaded>>
    BY <1>7 DEF PostUnanswered
  <2> QED
    BY <1>5, <2>1, NoCallKeepsType DEF TypeInv, TypeOK, masterVars
<1> QED
  BY <1>6, <1>7

LEMMA ReadFileKeepsType ==
  ASSUME TypeInv, NEW k \in Clients, readFile(k)
  PROVE  TypeInv'
<1> DEFINE shown == IF Settled THEN UNION {holds[s] : s \in up} ELSE {}
           start == [step |-> "list", shown |-> shown, calm |-> Settled]
<1>1. shown \in SUBSET Whole /\ Settled \in BOOLEAN
  BY DEF TypeInv, TypeOK, Settled
<1>2. /\ Goto(k, start) /\ UNCHANGED <<serverVars, masterVars>>
      /\ uploaded' \in {"no", "yes", "skipped"}
  BY DEF readFile, TypeInv, TypeOK
<1> HIDE DEF shown
<1>3. start \in CallState /\ Fetching(start)
  BY <1>1 DEF CallState, Reading, Fetching
<1> QED
  BY <1>2, <1>3, GotoKeepsType

LEMMA ListChunksKeepsType ==
  ASSUME TypeInv, NEW k \in Clients, ListChunks(k)
  PROVE  TypeInv'
<1> DEFINE ids == InOrder(get_chunks_for_file)
           next == [step |-> "locations", chunkIds |-> ids, shown |-> client[k].shown,
                    calm |-> client[k].calm]
<1>1. client[k].step = "list" /\ client[k] \in CallState
  BY DEF ListChunks, Step, TypeInv, TypeOK, CallState
<1>2. client[k].shown \in SUBSET Whole /\ client[k].calm \in BOOLEAN
  BY <1>1, CallFields
<1>3. ids \in Seq(Whole)
  BY ChunksShownType DEF TypeInv
<1>4. /\ Goto(k, next) /\ UNCHANGED <<serverVars, masterVars>>
      /\ uploaded' \in {"no", "yes", "skipped"}
  BY DEF ListChunks, TypeInv, TypeOK
<1> HIDE DEF ids
<1>5. next \in CallState /\ Fetching(next)
  BY <1>2, <1>3 DEF CallState, Reading, Fetching
<1> QED
  BY <1>4, <1>5, GotoKeepsType

LEMMA LocateChunksKeepsType ==
  ASSUME TypeInv, NEW k \in Clients, LocateChunks(k)
  PROVE  TypeInv'
<1> DEFINE ids == client[k].chunkIds
           locations == [i \in 1..Len(ids) |-> get_location(ids[i])]
           next == [step |-> "get", chunkIds |-> ids, locations |-> locations,
                    output |-> << >>, shown |-> client[k].shown, calm |-> client[k].calm]
           none == Returned("read", FALSE, << >>, client[k].shown, client[k].calm)
<1>1. client[k].step = "locations" /\ client[k] \in CallState
  BY DEF LocateChunks, Step, TypeInv, TypeOK, CallState
<1>2. client[k].shown \in SUBSET Whole /\ client[k].calm \in BOOLEAN /\ ids \in Seq(Whole)
  BY <1>1, CallFields
<1>3. UNCHANGED <<serverVars, masterVars>> /\ uploaded' \in {"no", "yes", "skipped"}
  BY DEF LocateChunks, TypeInv, TypeOK
<1>4. \/ Goto(k, none)
      \/ ids # << >> /\ (\A i \in 1..Len(ids) : locations[i] # {}) /\ Goto(k, next)
  BY DEF LocateChunks
<1>5. none \in CallState /\ Fetching(none)
  <2>1. << >> \in Seq(Whole) /\ "read" \in {"read", "delete"}
    OBVIOUS
  <2> QED
    BY <1>2, <2>1, ReturnedType
<1>6. locations \in Seq(SUBSET Servers) /\ Len(locations) = Len(ids)
  <2>1. Len(ids) \in Nat /\ \A i \in 1..Len(ids) : get_location(ids[i]) \in SUBSET Servers
    BY <1>2, LocationType DEF TypeInv
  <2>2. locations \in [1..Len(ids) -> SUBSET Servers]
    BY <2>1
  <2> HIDE DEF locations
  <2> QED
    BY <2>1, <2>2, SeqDef
<1> HIDE DEF none, locations
<1>7. ASSUME ids # << >>, \A i \in 1..Len(ids) : locations[i] # {}
      PROVE  next \in CallState /\ Fetching(next)
  <2>1. Len(<< >>) < Len(ids)
    BY <1>2, <1>7
  <2> QED
    BY <1>2, <1>6, <1>7, <2>1 DEF CallState, Reading, Fetching
<1> QED
  BY <1>3, <1>4, <1>5, <1>7, GotoKeepsType

LEMMA GetChunkKeepsType ==
  ASSUME TypeInv, NEW k \in Clients, GetChunk(k)
  PROVE  TypeInv'
<1> DEFINE ids == client[k].chunkIds
           got == client[k].output
           more == Append(got, ids[Len(got) + 1])
           next == [client[k] EXCEPT !.output = more]
<1>1. client[k].step = "get" /\ client[k] \in CallState /\ client[k] \in Reading
  <2>1. client[k].step = "get" /\ client[k] \in CallState
    BY DEF GetChunk, Step, TypeInv, TypeOK, CallState
  <2> QED
    BY <2>1, CallFields
<1>2. /\ client[k].shown \in SUBSET Whole /\ client[k].calm \in BOOLEAN
      /\ ids \in Seq(Whole) /\ got \in Seq(Whole) /\ client[k].locations \in Seq(SUBSET Servers)
  BY <1>1, CallFields
<1>3. /\ Len(client[k].locations) = Len(ids) /\ Len(got) < Len(ids)
      /\ \A i \in 1..Len(ids) : client[k].locations[i] # {}
  BY <1>1 DEF TypeInv, Fetching
<1>4. UNCHANGED <<serverVars, masterVars>> /\ uploaded' \in {"no", "yes", "skipped"}
  BY DEF GetChunk, TypeInv, TypeOK
<1>5. \/ Goto(k, Returned("read", FALSE, got, client[k].shown, client[k].calm))
      \/ Goto(k, Returned("read", TRUE, more, client[k].shown, client[k].calm))
      \/ Len(got) + 1 # Len(ids) /\ Goto(k, next)
  BY DEF GetChunk
<1>6. more \in Seq(Whole) /\ Len(more) = Len(got) + 1
  <2>1. ids[Len(got) + 1] \in Whole
    BY <1>2, <1>3
  <2> QED
    BY <1>2, <2>1, AppendProperties
<1> HIDE DEF more
<1>7. ASSUME NEW value \in BOOLEAN, NEW output \in Seq(Whole),
             Goto(k, Returned("read", value, output, client[k].shown, client[k].calm))
      PROVE  TypeInv'
  BY <1>2, <1>4, <1>7, ReturnedType, GotoKeepsType
<1>8. CASE Len(got) + 1 # Len(ids) /\ Goto(k, next)
  <2>1. next \in Reading
    BY <1>1, <1>6 DEF Reading
  <2>2. /\ next.locations = client[k].locations /\ next.chunkIds = ids /\ next.output = more
    BY <1>1 DEF Reading
  <2>3. next \in CallState /\ Fetching(next)
    BY <1>2, <1>3, <1>6, <1>8, <2>1, <2>2 DEF CallState, Fetching
  <2> QED
    BY <1>4, <1>8, <2>3, GotoKeepsType
<1> QED
  BY <1>2, <1>5, <1>6, <1>7, <1>8

LEMMA LocationsKeepType ==
  ASSUME TypeInv, NEW k \in Clients, deleteFile(k) \/ LocateFile(k) \/ RequestFails(k)
  PROVE  TypeInv'
<1>1. client[k] \in CallState
  BY DEF TypeInv, TypeOK, CallState
<1>2. client[k].calm \in BOOLEAN
  BY <1>1, CallFields
<1>3. UNCHANGED <<serverVars, masterVars>> /\ uploaded' \in {"no", "yes", "skipped"}
  BY DEF deleteFile, LocateFile, RequestFails, TypeInv, TypeOK
<1>4. CASE deleteFile(k)
  <2>1. PICK calm \in BOOLEAN : Goto(k, [step |-> "where", calm |-> calm])
    BY <1>4 DEF deleteFile, Settled
  <2> QED
    BY <1>3, <2>1, GotoKeepsType DEF CallState, Deleting, Fetching
<1>5. CASE LocateFile(k)
  <2> DEFINE n == get_file_locations_count
             next == [step |-> "delete", left |-> n, calm |-> client[k].calm]
             none == Returned("delete", TRUE, << >>, {}, client[k].calm)
  <2>1. n \in Nat
    <3>1. IsFiniteSet(DOMAIN view)
      BY FiniteDirectory DEF TypeInv
    <3>2. IsFiniteSet({conn \in DOMAIN view : view[conn] # {}})
      BY <3>1, FS_Subset
    <3> QED
      BY <3>2, FS_CardinalityType DEF get_file_locations_count
  <2>2. Goto(k, none) \/ (n # 0 /\ Goto(k, next))
    BY <1>5 DEF LocateFile
  <2>3. none \in CallState /\ Fetching(none)
    BY <1>2, DeletionReturnedType
  <2> HIDE DEF n, none
  <2>4. n # 0 => next \in CallState /\ Fetching(next)
    BY <1>2, <2>1 DEF CallState, Deleting, Fetching
  <2> QED
    BY <1>3, <2>2, <2>3, <2>4, GotoKeepsType
<1>6. CASE RequestFails(k)
  <2>1. Goto(k, Idle)
    BY <1>6 DEF RequestFails
  <2>2. Idle \in CallState /\ Fetching(Idle)
    BY DEF Idle, CallState, Resting, Fetching
  <2> QED
    BY <1>3, <2>1, <2>2, GotoKeepsType
<1> QED
  BY <1>4, <1>5, <1>6

\* A death or a deletion leaves every call at its step.
LEMMA DisturbedType ==
  ASSUME TypeInv
  PROVE  Disturbed \in [Clients -> CallState] /\ \A k \in Clients : Fetching(Disturbed[k])
<1>1. ASSUME NEW k \in Clients
      PROVE  Disturbed[k] \in CallState /\ Fetching(Disturbed[k])
  <2>1. CASE Ready(k)
    BY <2>1 DEF Disturbed, Idle, CallState, Resting, Fetching
  <2>2. CASE ~Ready(k)
    <3>1. Disturbed[k] = [client[k] EXCEPT !.calm = FALSE]
      BY <2>2 DEF Disturbed
    <3>2. client[k] \in CallState /\ client[k].step \notin {"idle", "returned"} /\ Fetching(client[k])
      BY <2>2 DEF TypeInv, TypeOK, CallState, Ready
    <3>3. CASE client[k] \in Uploading
      BY <3>1, <3>3 DEF CallState, Uploading, Fetching
    <3>4. CASE client[k] \in Reading
      <4>1. Disturbed[k] \in Reading
        BY <3>1, <3>4 DEF Reading
      <4>2. CASE client[k].step = "get"
        BY <3>1, <3>2, <3>4, <4>1, <4>2 DEF CallState, Reading, Fetching
      <4>3. CASE client[k].step # "get"
        BY <3>1, <3>4, <4>1, <4>3 DEF CallState, Reading, Fetching
      <4> QED
        BY <4>2, <4>3
    <3>5. CASE client[k] \in Deleting
      BY <3>1, <3>5 DEF CallState, Deleting, Fetching
    <3> QED
      BY <3>2, <3>3, <3>4, <3>5, CallFields DEF CallState
  <2> QED
    BY <2>1, <2>2
<1> QED
  BY <1>1 DEF Disturbed

LEMMA RemoveAtLocalKeepsType ==
  ASSUME TypeInv, NEW k \in Clients, RemoveAtLocal(k)
  PROVE  TypeInv'
<1>1. client[k] \in CallState
  BY DEF TypeInv, TypeOK, CallState
<1>2. client[k].calm \in BOOLEAN
  BY <1>1, CallFields
<1>3. CASE ~FileAtLocal
  <2> DEFINE none == Returned("delete", FALSE, << >>, {}, client[k].calm)
  <2>1. /\ Goto(k, none) /\ UNCHANGED <<serverVars, masterVars>>
        /\ uploaded' \in {"no", "yes", "skipped"}
    BY <1>3 DEF RemoveAtLocal, serverVars, TypeInv, TypeOK
  <2>2. none \in CallState /\ Fetching(none)
    BY <1>2, DeletionReturnedType
  <2> HIDE DEF none
  <2> QED
    BY <2>1, <2>2, GotoKeepsType
<1>4. CASE FileAtLocal
  <2>1. PICK answered \in BOOLEAN :
          client' = [Disturbed EXCEPT ![k] =
            Returned("delete", answered /\ client[k].left = 1, << >>, {},
                     answered /\ client[k].calm)]
    BY <1>4 DEF RemoveAtLocal
  <2> DEFINE value == answered /\ client[k].left = 1
             calm == answered /\ client[k].calm
             last == Returned("delete", value, << >>, {}, calm)
  <2>2. last \in CallState /\ Fetching(last)
    <3>1. value \in BOOLEAN /\ calm \in BOOLEAN
      BY <1>2
    <3> HIDE DEF value, calm
    <3> QED
      BY <3>1, DeletionReturnedType
  <2>3. client' = [Disturbed EXCEPT ![k] = last]
    BY <2>1
  <2> HIDE DEF last
  <2>4. client' \in [Clients -> CallState] /\ \A j \in Clients : Fetching(client'[j])
    BY <2>2, <2>3, DisturbedType
  <2>5. holds' \in [Servers -> SUBSET Whole] /\ uploaded' = "no" /\ UNCHANGED <<up, deaths, masterVars>>
    BY <1>4 DEF RemoveAtLocal, TypeInv, TypeOK
  <2> QED
    BY <2>4, <2>5 DEF TypeInv, TypeOK, CallState, Fetching, masterVars
<1> QED
  BY <1>3, <1>4

\* As many servers died as there are dead connections: no count goes beyond the bound.
LEMMA DeathsAreBounded ==
  ASSUME TypeOK, NEW s \in Servers, Cardinality(Dead) < MaxDeaths
  PROVE  deaths[s] < MaxDeaths
<1> SUFFICES ASSUME deaths[s] = MaxDeaths PROVE FALSE
  BY DfsAssumption DEF TypeOK
<1> DEFINE f == [n \in 0..(MaxDeaths - 1) |-> <<s, n>>]
<1>1. MaxDeaths \in Nat
  BY DfsAssumption
<1>2. f \in [0..(MaxDeaths - 1) -> Dead]
  BY <1>1 DEF Dead, Connections
<1>3. f \in Injection(0..(MaxDeaths - 1), Dead)
  BY <1>2 DEF Injection, IsInjective
<1>4. IsFiniteSet(Dead)
  BY FiniteDirectory, FS_Subset DEF Dead
<1>5. Cardinality(0..(MaxDeaths - 1)) = MaxDeaths
  BY <1>1, FS_Interval
<1> HIDE DEF f
<1>6. Cardinality(0..(MaxDeaths - 1)) <= Cardinality(Dead)
  BY <1>3, <1>4, FS_Injection
<1>7. Cardinality(Dead) \in Nat
  BY <1>4, FS_CardinalityType
<1> QED
  BY <1>1, <1>5, <1>6, <1>7

LEMMA KillKeepsType ==
  ASSUME TypeInv, NEW s \in Servers, Kill(s)
  PROVE  TypeInv'
<1>1. deaths[s] < MaxDeaths
  BY DeathsAreBounded DEF Kill, TypeInv
<1>2. deaths' \in [Servers -> 0..MaxDeaths] /\ up' \subseteq Servers /\ holds' \in [Servers -> SUBSET Whole]
  BY <1>1, DfsAssumption DEF Kill, TypeInv, TypeOK
<1>3. client' \in [Clients -> CallState] /\ \A j \in Clients : Fetching(client'[j])
  BY DisturbedType DEF Kill
<1>4. UNCHANGED masterVars /\ uploaded' = "no"
  BY DEF Kill
<1> QED
  BY <1>2, <1>3, <1>4 DEF TypeInv, TypeOK, CallState, Fetching, masterVars

LEMMA ServersKeepType ==
  ASSUME TypeInv, NEW s \in Servers, Restart(s) \/ Join(s) \/ SendReport(s)
  PROVE  TypeInv'
<1>1. Connection(s) \in Connections
  BY DEF Connection, Connections, TypeInv, TypeOK
<1>2. CASE Restart(s)
  BY <1>2, NoCallKeepsType DEF Restart, masterVars, TypeInv, TypeOK
<1>3. CASE Join(s)
  <2>1. /\ DOMAIN view' = DOMAIN view \union {Connection(s)} /\ DOMAIN report' = DOMAIN view'
        /\ \A conn \in DOMAIN view' :
             /\ view'[conn] = IF conn = Connection(s) THEN {} ELSE view[conn]
             /\ report'[conn] = IF conn = Connection(s) THEN None ELSE report[conn]
    BY <1>3 DEF Join
  <2>2. UNCHANGED <<serverVars, client, uploaded>>
    BY <1>3 DEF Join
  <2> QED
    BY <1>1, <2>1, <2>2, NoCallKeepsType DEF TypeInv, TypeOK, serverVars
<1>4. CASE SendReport(s)
  BY <1>1, <1>4, NoCallKeepsType DEF SendReport, TypeInv, TypeOK, serverVars
<1> QED
  BY <1>2, <1>3, <1>4

LEMMA MasterKeepsType ==
  ASSUME TypeInv, NEW conn \in DOMAIN view, UpdateState(conn) \/ Leave(conn)
  PROVE  TypeInv'
<1>1. CASE UpdateState(conn)
  BY <1>1, NoCallKeepsType DEF UpdateState, TypeInv, TypeOK, serverVars
<1>2. CASE Leave(conn)
  BY <1>2, NoCallKeepsType DEF Leave, TypeInv, TypeOK, serverVars
<1> QED
  BY <1>1, <1>2

LEMMA TypeInvNext == TypeInv /\ [Next]_vars => TypeInv'
<1> SUFFICES ASSUME TypeInv, [Next]_vars PROVE TypeInv'
  OBVIOUS
<1>1. CASE UNCHANGED vars
  BY <1>1 DEF vars, TypeInv, TypeOK, Fetching
<1>2. ASSUME NEW k \in Clients, insertFile(k) \/ readFile(k) \/ deleteFile(k)
      PROVE  TypeInv'
  BY <1>2, InsertFileKeepsType, ReadFileKeepsType, LocationsKeepType
<1>3. ASSUME NEW k \in Clients, Proceed(k)
      PROVE  TypeInv'
  BY <1>3, LocateChunkKeepsType, PostKeepsType, ListChunksKeepsType, LocateChunksKeepsType,
     GetChunkKeepsType, LocationsKeepType, RemoveAtLocalKeepsType DEF Proceed
<1>4. ASSUME NEW k \in Clients, PostUnanswered(k) \/ RequestFails(k)
      PROVE  TypeInv'
  BY <1>4, PostKeepsType, LocationsKeepType
<1>5. ASSUME NEW s \in Servers, Kill(s) \/ Restart(s) \/ Join(s) \/ SendReport(s)
      PROVE  TypeInv'
  BY <1>5, KillKeepsType, ServersKeepType
<1>6. ASSUME NEW conn \in DOMAIN view, UpdateState(conn) \/ Leave(conn)
      PROVE  TypeInv'
  BY <1>6, MasterKeepsType
<1> QED
  BY <1>1, <1>2, <1>3, <1>4, <1>5, <1>6 DEF Next

\* The variables keep their types, whatever the clients, the servers and the
\* master's tasks do: a report belongs to a registered connection and names chunks
\* of the file, every call is at one of its steps with the values that step has,
\* no client asks for a chunk the file does not have, or goes on uploading to an
\* empty list of servers, and no connection is numbered beyond the deaths there are.
THEOREM DfsTypeCorrect == Spec => []TypeOK
<1>1. TypeInv => TypeOK
  BY DEF TypeInv
<1> QED
  BY <1>1, TypeInvInit, TypeInvNext, PTL DEF Spec

-----------------------------------------------------------------------------
(* Reads *)

\* A read that is under way and has not been disturbed.
CalmRead(state) == state.step \in {"list", "locations", "get"} /\ state.calm

\* Every registered connection is that of a live server, and what the directory
\* shows of it, what is reported and what it holds only grow, in this order.
Fresh ==
  \A conn \in DOMAIN view :
    /\ conn[1] \in up /\ conn = Connection(conn[1])
    /\ view[conn] \subseteq holds[conn[1]]
    /\ \/ report[conn] = None
       \/ view[conn] \subseteq report[conn] /\ report[conn] \subseteq holds[conn[1]]

\* Nothing of what was shown is lost between the requests of a read, and the
\* servers it is to ask have what it will ask for.
ReadSoFar(state) ==
  /\ state.step = "list" => state.shown \subseteq get_chunks_for_file
  /\ state.step = "locations" => Range(state.chunkIds) \subseteq get_chunks_for_file
  /\ state.step \in {"locations", "get"} =>
       state.shown \subseteq Range(state.chunkIds) /\ Increasing(state.chunkIds)
  /\ state.step = "get" =>
       /\ \A i \in 1..Len(state.output) : state.output[i] = state.chunkIds[i]
       /\ \A i \in 1..Len(state.chunkIds) : \A s \in state.locations[i] :
            s \in up /\ state.chunkIds[i] \in holds[s]

ReadReturned(state) ==
  state.step = "returned" /\ state.op = "read" =>
    /\ state.value <=> state.output # << >>
    /\ state.shown \subseteq Range(state.output)
    /\ Increasing(state.output)

ReadInv ==
  /\ TypeInv
  /\ (\E k \in Clients : CalmRead(client[k])) => Fresh
  /\ \A k \in Clients : CalmRead(client[k]) => ReadSoFar(client[k])
  /\ \A k \in Clients : ReadReturned(client[k])

\* What a step does to a directory that is fresh, if it disturbs no call.
Grows ==
  /\ Fresh'
  /\ up \subseteq up' /\ \A s \in up : holds[s] \subseteq holds'[s]
  /\ get_chunks_for_file \subseteq get_chunks_for_file'

LEMMA ReadInvInit == Init => ReadInv
<1> SUFFICES ASSUME Init PROVE ReadInv
  OBVIOUS
<1>1. TypeInv
  BY TypeInvInit
<1>2. \A k \in Clients : client[k] = Idle
  BY DEF Init
<1>3. ~CalmRead(Idle) /\ ReadReturned(Idle)
  BY DEF CalmRead, ReadReturned, Idle
<1> QED
  BY <1>1, <1>2, <1>3 DEF ReadInv

\* What a calm read relies on outlives a step after which the directory is fresh.
LEMMA SoFarGrows ==
  ASSUME NEW state, ReadSoFar(state), Grows
  PROVE  /\ state.step = "list" => state.shown \subseteq get_chunks_for_file'
         /\ state.step = "locations" => Range(state.chunkIds) \subseteq get_chunks_for_file'
         /\ state.step \in {"locations", "get"} =>
              state.shown \subseteq Range(state.chunkIds) /\ Increasing(state.chunkIds)
         /\ state.step = "get" =>
              /\ \A i \in 1..Len(state.output) : state.output[i] = state.chunkIds[i]
              /\ \A i \in 1..Len(state.chunkIds) : \A s \in state.locations[i] :
                   s \in up' /\ state.chunkIds[i] \in holds'[s]
  BY DEF ReadSoFar, Grows

\* A step of a server or of the master's tasks.
LEMMA NoCallKeepsReads ==
  ASSUME ReadInv, TypeInv', UNCHANGED client, Fresh => Grows
  PROVE  ReadInv'
<1>1. ASSUME \E k \in Clients : CalmRead(client[k]) PROVE Grows
  BY <1>1 DEF ReadInv
<1>2. ASSUME NEW k \in Clients, CalmRead(client[k]) PROVE ReadSoFar(client[k])'
  <2>1. ReadSoFar(client[k]) /\ Grows
    BY <1>1, <1>2 DEF ReadInv
  <2> QED
    BY <2>1, SoFarGrows DEF ReadSoFar
<1> QED
  BY <1>1, <1>2 DEF ReadInv, CalmRead, ReadReturned, Grows

\* A client goes on, and the other calls are not disturbed.
LEMMA GotoKeepsReads ==
  ASSUME ReadInv, TypeInv', Fresh => Grows, NEW k \in Clients, NEW state, Goto(k, state),
         ReadReturned(state),
         CalmRead(state) =>
           /\ Fresh'
           /\ state.step = "list" => state.shown \subseteq get_chunks_for_file'
           /\ state.step = "locations" => Range(state.chunkIds) \subseteq get_chunks_for_file'
           /\ state.step \in {"locations", "get"} =>
                state.shown \subseteq Range(state.chunkIds) /\ Increasing(state.chunkIds)
           /\ state.step = "get" =>
                /\ \A i \in 1..Len(state.output) : state.output[i] = state.chunkIds[i]
                /\ \A i \in 1..Len(state.chunkIds) : \A s \in state.locations[i] :
                     s \in up' /\ state.chunkIds[i] \in holds'[s]
  PROVE  ReadInv'
<1>1. client \in [Clients -> CallState]
  BY DEF ReadInv, TypeInv, TypeOK, CallState
<1>2. client'[k] = state /\ \A j \in Clients : j # k => client'[j] = client[j]
  BY <1>1 DEF Goto
<1>3. ASSUME NEW j \in Clients, CalmRead(client'[j])
      PROVE  Fresh' /\ ReadSoFar(client[j])'
  <2>1. CASE j = k
    BY <1>2, <1>3, <2>1 DEF ReadSoFar
  <2>2. CASE j # k
    <3>1. client'[j] = client[j] /\ ReadSoFar(client[j]) /\ Grows
      BY <1>2, <1>3, <2>2 DEF ReadInv
    <3> QED
      BY <3>1, SoFarGrows DEF ReadSoFar, Grows
  <2> QED
    BY <2>1, <2>2
<1>4. \A j \in Clients : ReadReturned(client'[j])
  BY <1>2 DEF ReadInv
<1> QED
  BY <1>3, <1>4 DEF ReadInv, CalmRead, ReadReturned

\* A client goes to a state of another call, or rests.
LEMMA OtherCallsKeepReads ==
  ASSUME ReadInv, TypeInv', Fresh => Grows, NEW k \in Clients, NEW state, Goto(k, state),
         state.step \notin {"list", "locations", "get", "returned"}
  PROVE  ReadInv'
<1>1. ReadReturned(state) /\ ~CalmRead(state)
  BY DEF ReadReturned, CalmRead
<1> QED
  BY <1>1, GotoKeepsReads

\* Steps that leave the servers and the master alone.
LEMMA NothingChangesForReads ==
  ASSUME UNCHANGED <<serverVars, masterVars>>
  PROVE  Fresh => Grows
  BY DEF serverVars, masterVars, Fresh, Grows, get_chunks_for_file, Connection

\* Steps that only add chunks or servers.
LEMMA ChunksStayGrows ==
  ASSUME UNCHANGED masterVars, deaths' = deaths, up \subseteq up',
         \A s \in up : holds[s] \subseteq holds'[s]
  PROVE  Fresh => Grows
  BY DEF masterVars, Fresh, Grows, get_chunks_for_file, Connection

LEMMA UploadsKeepReads ==
  ASSUME ReadInv, TypeInv', NEW k \in Clients,
         insertFile(k) \/ LocateChunk(k) \/ PostChunk(k) \/ PostUnanswered(k)
  PROVE  ReadInv'
<1>1. ASSUME NEW locations, NEW skipped, Continue(k, locations, skipped), Fresh => Grows
      PROVE  ReadInv'
  <2>1. PICK state : Goto(k, state) /\ state.step \in {"locate", "post", "idle"}
    <3>1. Idle.step = "idle"
      BY DEF Idle
    <3> QED
      BY <1>1, <3>1 DEF Continue
  <2> QED
    BY <1>1, <2>1, OtherCallsKeepReads
<1>2. CASE insertFile(k)
  <2>1. PICK state : Goto(k, state) /\ state.step \in {"locate", "idle"}
    <3>1. Idle.step = "idle"
      BY DEF Idle
    <3> QED
      BY <1>2, <3>1 DEF insertFile
  <2>2. Fresh => Grows
    BY <1>2, NothingChangesForReads DEF insertFile
  <2> QED
    BY <2>1, <2>2, OtherCallsKeepReads
<1>3. CASE LocateChunk(k)
  <2>1. Fresh => Grows
    BY <1>3, NothingChangesForReads DEF LocateChunk
  <2> QED
    BY <1>1, <1>3, <2>1 DEF LocateChunk
<1>4. ASSUME PostChunk(k) \/ PostUnanswered(k) PROVE Fresh => Grows
  <2> DEFINE s == Head(client[k].locations)
  <2>1. /\ holds' = [holds EXCEPT ![s] = @ \union {client[k].chunkId}]
        /\ UNCHANGED <<up, deaths, masterVars>>
    BY <1>4 DEF PostChunk, PostUnanswered
  <2> HIDE DEF s
  <2>2. \A t \in up : holds[t] \subseteq holds'[t]
    BY <2>1 DEF ReadInv, TypeInv, TypeOK
  <2> QED
    BY <2>1, <2>2, ChunksStayGrows
<1>5. CASE PostChunk(k)
  BY <1>1, <1>4, <1>5 DEF PostChunk
<1>6. CASE PostUnanswered(k)
  BY <1>4, <1>6, NoCallKeepsReads DEF PostUnanswered
<1> QED
  BY <1>2, <1>3, <1>5, <1>6

LEMMA ReadFileKeepsReads ==
  ASSUME ReadInv, TypeInv', NEW k \in Clients, readFile(k)
  PROVE  ReadInv'
<1> DEFINE shown == IF Settled THEN UNION {holds[s] : s \in up} ELSE {}
           start == [step |-> "list", shown |-> shown, calm |-> Settled]
<1>1. Goto(k, start) /\ UNCHANGED <<serverVars, masterVars>>
  BY DEF readFile
<1>2. ASSUME Settled PROVE Fresh /\ shown \subseteq get_chunks_for_file
  <2>1. \A conn \in DOMAIN view : conn[1] \in up /\ conn = Connection(conn[1])
    BY <1>2 DEF Settled, Connection
  <2>2. Fresh
    BY <1>2, <2>1 DEF Settled, Fresh
  <2>3. \A s \in up : Connection(s) \in DOMAIN view /\ view[Connection(s)] = holds[s]
    BY <1>2 DEF Settled
  <2> QED
    BY <1>2, <2>2, <2>3 DEF get_chunks_for_file
<1>3. Fresh => Grows
  BY <1>1, NothingChangesForReads
<1> HIDE DEF shown
<1>4. ReadReturned(start) /\ (CalmRead(start) => Settled) /\ start.step = "list" /\ start.shown = shown
  BY DEF ReadReturned, CalmRead
<1> HIDE DEF start
<1> QED
  BY <1>1, <1>2, <1>3, <1>4, GotoKeepsReads DEF Grows

LEMMA ListChunksKeepsReads ==
  ASSUME ReadInv, TypeInv', NEW k \in Clients, ListChunks(k)
  PROVE  ReadInv'
<1> DEFINE ids == InOrder(get_chunks_for_file)
           next == [step |-> "locations", chunkIds |-> ids, shown |-> client[k].shown,
                    calm |-> client[k].calm]
<1>1. Goto(k, next) /\ UNCHANGED <<serverVars, masterVars>> /\ client[k].step = "list"
  BY DEF ListChunks, Step
<1>2. Increasing(ids) /\ Range(ids) = get_chunks_for_file
  BY ChunksShownType DEF ReadInv, TypeInv
<1>3. Fresh => Grows
  BY <1>1, NothingChangesForReads
<1> HIDE DEF ids
<1>4. /\ ReadReturned(next) /\ (CalmRead(next) => CalmRead(client[k]))
      /\ next.step = "locations" /\ next.chunkIds = ids /\ next.shown = client[k].shown
  BY <1>1 DEF ReadReturned, CalmRead
<1> HIDE DEF next
<1>5. CalmRead(next) => Grows /\ client[k].shown \subseteq get_chunks_for_file
  BY <1>1, <1>3, <1>4 DEF ReadInv, ReadSoFar
<1> QED
  BY <1>1, <1>2, <1>3, <1>4, <1>5, GotoKeepsReads DEF Grows

\* A read that returns with what it should return.
LEMMA ReturnedReadIsWell ==
  ASSUME NEW value \in BOOLEAN, NEW output, NEW shown, NEW calm \in BOOLEAN,
         calm => (value <=> output # << >>) /\ shown \subseteq Range(output) /\ Increasing(output)
  PROVE  LET r == Returned("read", value, output, shown, calm)
         IN  ReadReturned(r) /\ ~CalmRead(r)
<1>1. CASE calm
  BY <1>1 DEF Returned, ReadReturned, CalmRead
<1>2. CASE ~calm
  BY <1>2 DEF Returned, Idle, ReadReturned, CalmRead
<1> QED
  BY <1>1, <1>2

LEMMA LocateChunksKeepsReads ==
  ASSUME ReadInv, TypeInv', NEW k \in Clients, LocateChunks(k)
  PROVE  ReadInv'
<1> DEFINE ids == client[k].chunkIds
           calm == client[k].calm
           shown == client[k].shown
           locations == [i \in 1..Len(ids) |-> get_location(ids[i])]
           next == [step |-> "get", chunkIds |-> ids, locations |-> locations,
                    output |-> << >>, shown |-> shown, calm |-> calm]
           none == Returned("read", FALSE, << >>, shown, calm)
<1>1. client[k].step = "locations" /\ UNCHANGED <<serverVars, masterVars>>
  BY DEF LocateChunks, Step
<1>2. calm \in BOOLEAN /\ ids \in Seq(Whole)
  <2>1. client[k] \in CallState
    BY DEF ReadInv, TypeInv, TypeOK, CallState
  <2> QED
    BY <1>1, <2>1, CallFields
<1>3. ASSUME calm
      PROVE  /\ Fresh /\ Grows /\ shown \subseteq Range(ids) /\ Increasing(ids)
             /\ Range(ids) \subseteq get_chunks_for_file
  BY <1>1, <1>3, NothingChangesForReads DEF ReadInv, ReadSoFar, CalmRead
<1>4. ASSUME calm, NEW i \in 1..Len(ids) PROVE get_location(ids[i]) # {}
  <2>1. ids[i] \in get_chunks_for_file
    BY <1>2, <1>3, <1>4 DEF Range
  <2> QED
    BY <2>1 DEF get_chunks_for_file, get_location
<1>5. CASE Goto(k, none) /\ (ids = << >> \/ \E i \in 1..Len(ids) : get_location(ids[i]) = {})
  <2>1. calm => shown \subseteq Range(<< >>)
    BY <1>3, <1>4, <1>5
  <2>2. Increasing(<< >>)
    BY DEF Increasing
  <2>3. ReadReturned(none) /\ ~CalmRead(none)
    BY <1>2, <2>1, <2>2, ReturnedReadIsWell
  <2> HIDE DEF none
  <2> QED
    BY <1>1, <1>5, <2>3, NothingChangesForReads, GotoKeepsReads
<1>6. CASE Goto(k, next)
  <2>1. ASSUME calm, NEW i \in 1..Len(ids), NEW s \in get_location(ids[i])
        PROVE  s \in up /\ ids[i] \in holds[s]
    <3>1. PICK conn \in DOMAIN view : conn[1] = s /\ ids[i] \in view[conn]
      BY <2>1 DEF get_location
    <3> QED
      BY <1>3, <2>1, <3>1 DEF Fresh
  <2>2. \A i \in 1..Len(ids) : locations[i] = get_location(ids[i])
    OBVIOUS
  <2> HIDE DEF locations
  <2>3. /\ ReadReturned(next) /\ (CalmRead(next) => calm) /\ next.step = "get"
        /\ next.chunkIds = ids /\ next.shown = shown /\ next.locations = locations
        /\ Len(next.output) = 0
    BY DEF ReadReturned, CalmRead
  <2> HIDE DEF next
  <2>4. up' = up /\ holds' = holds
    BY <1>1 DEF serverVars
  <2> QED
    BY <1>1, <1>3, <1>6, <2>1, <2>2, <2>3, <2>4, NothingChangesForReads, GotoKeepsReads DEF Grows
<1> QED
  BY <1>5, <1>6 DEF LocateChunks

LEMMA GetChunkKeepsReads ==
  ASSUME ReadInv, TypeInv', NEW k \in Clients, GetChunk(k)
  PROVE  ReadInv'
<1> DEFINE ids == client[k].chunkIds
           calm == client[k].calm
           shown == client[k].shown
           got == client[k].output
           n == Len(got) + 1
           more == Append(got, ids[n])
           next == [client[k] EXCEPT !.output = more]
<1>1. client[k].step = "get" /\ UNCHANGED <<serverVars, masterVars>>
  BY DEF GetChunk, Step
<1>2. /\ client[k] \in Reading /\ calm \in BOOLEAN /\ ids \in Seq(Whole) /\ got \in Seq(Whole)
      /\ Len(got) < Len(ids)
  <2>1. client[k] \in CallState /\ Fetching(client[k])
    BY DEF ReadInv, TypeInv, TypeOK, CallState
  <2> QED
    BY <1>1, <2>1, CallFields DEF Fetching
<1>3. ASSUME calm
      PROVE  /\ Grows /\ Fresh' /\ shown \subseteq Range(ids) /\ Increasing(ids)
             /\ \A i \in 1..Len(got) : got[i] = ids[i]
             /\ \A i \in 1..Len(ids) : \A s \in client[k].locations[i] :
                  s \in up /\ ids[i] \in holds[s]
  BY <1>1, <1>3, NothingChangesForReads DEF ReadInv, ReadSoFar, CalmRead, Grows
<1>4. n \in 1..Len(ids) /\ Len(got) \in Nat
  BY <1>2
<1>5. /\ more \in Seq(Whole) /\ Len(more) = n
      /\ calm => \A i \in 1..n : more[i] = ids[i]
  <2>1. ids[n] \in Whole
    BY <1>2, <1>4
  <2>2. /\ more \in Seq(Whole) /\ Len(more) = Len(got) + 1
        /\ \A i \in 1..Len(got) : more[i] = got[i]
        /\ more[Len(got) + 1] = ids[n]
    BY <1>2, <2>1, AppendProperties
  <2> HIDE DEF more
  <2> QED
    BY <1>3, <1>4, <2>2
<1> HIDE DEF more
<1>6. CASE Goto(k, Returned("read", FALSE, got, shown, calm)) /\ ~calm
  BY <1>1, <1>2, <1>6, ReturnedReadIsWell, NothingChangesForReads, GotoKeepsReads
<1>7. CASE Goto(k, Returned("read", TRUE, more, shown, calm)) /\ n = Len(ids)
  <2>1. calm => more = ids
    BY <1>2, <1>5, <1>7
  <2>2. more # << >>
    BY <1>4, <1>5
  <2> DEFINE r == Returned("read", TRUE, more, shown, calm)
  <2>3. ReadReturned(r) /\ ~CalmRead(r)
    BY <1>2, <1>3, <2>1, <2>2, ReturnedReadIsWell
  <2>4. Goto(k, r)
    BY <1>7
  <2> HIDE DEF r
  <2> QED
    BY <1>1, <2>3, <2>4, NothingChangesForReads, GotoKeepsReads
<1>8. CASE Goto(k, next)
  <2>1. /\ ReadReturned(next) /\ (CalmRead(next) => calm) /\ next.step = "get"
        /\ next.chunkIds = ids /\ next.shown = shown /\ next.output = more
        /\ next.locations = client[k].locations
    BY <1>1, <1>2 DEF ReadReturned, CalmRead, Reading
  <2> HIDE DEF next
  <2>2. up' = up /\ holds' = holds
    BY <1>1 DEF serverVars
  <2> QED
    BY <1>1, <1>3, <1>5, <1>8, <2>1, <2>2, NothingChangesForReads, GotoKeepsReads
<1>9. PICK s \in client[k].locations[n] :
        \/ (s \notin up \/ ids[n] \notin holds[s]) /\ Goto(k, Returned("read", FALSE, got, shown, calm))
        \/ Goto(k, IF n = Len(ids) THEN Returned("read", TRUE, more, shown, calm) ELSE next)
  BY DEF GetChunk, more
<1>10. calm => s \in up /\ ids[n] \in holds[s]
  BY <1>3, <1>4
<1> QED
  BY <1>6, <1>7, <1>8, <1>9, <1>10

LEMMA LocationsKeepReads ==
  ASSUME ReadInv, TypeInv', NEW k \in Clients, deleteFile(k) \/ LocateFile(k) \/ RequestFails(k)
  PROVE  ReadInv'
<1>1. Fresh => Grows
  BY NothingChangesForReads DEF deleteFile, LocateFile, RequestFails
<1>2. ASSUME NEW calm
      PROVE  LET r == Returned("delete", TRUE, << >>, {}, calm) IN ReadReturned(r) /\ ~CalmRead(r)
  BY DEF Returned, Idle, ReadReturned, CalmRead
<1>3. CASE LocateFile(k) /\ get_file_locations_count = 0
  <2>1. Goto(k, Returned("delete", TRUE, << >>, {}, client[k].calm))
    BY <1>3 DEF LocateFile
  <2> QED
    BY <1>1, <1>2, <2>1, GotoKeepsReads
<1>4. CASE ~(LocateFile(k) /\ get_file_locations_count = 0)
  <2>1. PICK state : Goto(k, state) /\ state.step \in {"where", "delete", "idle"}
    <3>1. CASE deleteFile(k)
      <4>1. Goto(k, [step |-> "where", calm |-> Settled])
        BY <3>1 DEF deleteFile
      <4> QED
        BY <4>1
    <3>2. CASE LocateFile(k)
      <4>1. Goto(k, [step |-> "delete", left |-> get_file_locations_count,
                     calm |-> client[k].calm])
        BY <1>4, <3>2 DEF LocateFile
      <4> QED
        BY <4>1
    <3>3. CASE RequestFails(k)
      BY <3>3 DEF RequestFails, Idle
    <3> QED
      BY <3>1, <3>2, <3>3
  <2> QED
    BY <1>1, <2>1, OtherCallsKeepReads
<1> QED
  BY <1>3, <1>4

\* After a death or a deletion no call is calm, and none of those returned counts.
LEMMA DisturbedCalls ==
  ASSUME TypeInv, NEW k \in Clients
  PROVE  Disturbed[k].calm = FALSE /\ Disturbed[k].step # "returned"
<1>1. CASE Ready(k)
  BY <1>1 DEF Disturbed, Idle
<1>2. CASE ~Ready(k)
  <2>1. Disturbed[k] = [client[k] EXCEPT !.calm = FALSE]
    BY <1>2 DEF Disturbed
  <2>2. client[k] \in CallState /\ client[k].step \notin {"idle", "returned"}
    BY <1>2 DEF TypeInv, TypeOK, CallState, Ready
  <2>3. client[k] \in Uploading \/ client[k] \in Reading \/ client[k] \in Deleting
    BY <2>2, CallFields DEF CallState
  <2> QED
    BY <2>1, <2>2, <2>3 DEF Uploading, Reading, Deleting
<1> QED
  BY <1>1, <1>2

LEMMA DisturbedReads ==
  ASSUME ReadInv, NEW k \in Clients
  PROVE  ~CalmRead(Disturbed[k]) /\ ReadReturned(Disturbed[k])
  BY DisturbedCalls DEF ReadInv, CalmRead, ReadReturned

\* A step after which no read is calm.
LEMMA DisturbanceKeepsReads ==
  ASSUME ReadInv, TypeInv',
         \A k \in Clients : ~CalmRead(client'[k]) /\ ReadReturned(client'[k])
  PROVE  ReadInv'
  BY DEF ReadInv, CalmRead, ReadReturned

LEMMA RemoveAtLocalKeepsReads ==
  ASSUME ReadInv, TypeInv', NEW k \in Clients, RemoveAtLocal(k)
  PROVE  ReadInv'
<1>1. ASSUME NEW value, NEW calm
      PROVE  LET r == Returned("delete", value, << >>, {}, calm) IN ReadReturned(r) /\ ~CalmRead(r)
  BY DEF Returned, Idle, ReadReturned, CalmRead
<1>2. CASE ~FileAtLocal
  <2>1. Goto(k, Returned("delete", FALSE, << >>, {}, client[k].calm))
    BY <1>2 DEF RemoveAtLocal
  <2>2. Fresh => Grows
    BY <1>2, NothingChangesForReads DEF RemoveAtLocal, serverVars
  <2> QED
    BY <1>1, <2>1, <2>2, GotoKeepsReads
<1>3. CASE FileAtLocal
  <2>1. PICK value, calm :
          client' = [Disturbed EXCEPT ![k] = Returned("delete", value, << >>, {}, calm)]
    BY <1>3 DEF RemoveAtLocal
  <2> DEFINE r == Returned("delete", value, << >>, {}, calm)
  <2>2. ReadReturned(r) /\ ~CalmRead(r)
    BY <1>1
  <2>3. client' = [Disturbed EXCEPT ![k] = r]
    BY <2>1
  <2> HIDE DEF r
  <2>4. client'[k] = r /\ \A j \in Clients : j # k => client'[j] = Disturbed[j]
    BY <2>3 DEF Disturbed
  <2> QED
    BY <2>2, <2>4, DisturbedReads, DisturbanceKeepsReads
<1> QED
  BY <1>2, <1>3

LEMMA ServersKeepReads ==
  ASSUME ReadInv, TypeInv', NEW s \in Servers, Kill(s) \/ Restart(s) \/ Join(s) \/ SendReport(s)
  PROVE  ReadInv'
<1>1. CASE Kill(s)
  BY <1>1, DisturbedReads, DisturbanceKeepsReads DEF Kill
<1>2. CASE Restart(s)
  <2>1. Fresh => Grows
    BY <1>2, ChunksStayGrows DEF Restart
  <2> QED
    BY <1>2, <2>1, NoCallKeepsReads DEF Restart
<1>3. CASE Join(s)
  <2>1. /\ s \in up /\ Connection(s) \notin DOMAIN view
        /\ DOMAIN view' = DOMAIN view \union {Connection(s)}
        /\ \A conn \in DOMAIN view' :
             /\ view'[conn] = IF conn = Connection(s) THEN {} ELSE view[conn]
             /\ report'[conn] = IF conn = Connection(s) THEN None ELSE report[conn]
        /\ UNCHANGED <<serverVars, client>>
    BY <1>3 DEF Join
  <2>2. Connection(s)[1] = s /\ \A t : Connection(t)' = Connection(t)
    BY <2>1 DEF Connection, serverVars
  <2>3. get_chunks_for_file \subseteq get_chunks_for_file'
    BY <2>1 DEF get_chunks_for_file
  <2>4. Fresh => Fresh'
    BY <2>1, <2>2 DEF Fresh, serverVars
  <2> QED
    BY <2>1, <2>3, <2>4, NoCallKeepsReads DEF Grows, serverVars
<1>4. CASE SendReport(s)
  <2>1. /\ report' = [report EXCEPT ![Connection(s)] = holds[s]]
        /\ UNCHANGED <<serverVars, view, client>> /\ DOMAIN report = DOMAIN view
    BY <1>4 DEF SendReport, ReadInv, TypeInv, TypeOK
  <2>2. Connection(s)[1] = s /\ \A t : Connection(t)' = Connection(t)
    BY <2>1 DEF Connection, serverVars
  <2>3. Fresh => Fresh'
    BY <2>1, <2>2 DEF Fresh, serverVars
  <2> QED
    BY <2>1, <2>3, NoCallKeepsReads DEF Grows, serverVars, get_chunks_for_file
<1> QED
  BY <1>1, <1>2, <1>3, <1>4

LEMMA MasterKeepsReads ==
  ASSUME ReadInv, TypeInv', NEW conn \in DOMAIN view, UpdateState(conn) \/ Leave(conn)
  PROVE  ReadInv'
<1>1. CASE UpdateState(conn)
  <2>1. /\ view' = [view EXCEPT ![conn] = report[conn]] /\ report[conn] # None
        /\ report' = [report EXCEPT ![conn] = None] /\ DOMAIN report = DOMAIN view
        /\ UNCHANGED <<serverVars, client>>
    BY <1>1 DEF UpdateState, ReadInv, TypeInv, TypeOK
  <2>2. \A t : Connection(t)' = Connection(t)
    BY <2>1 DEF Connection, serverVars
  <2>3. Fresh => Fresh'
    BY <2>1, <2>2 DEF Fresh, serverVars
  <2>4. Fresh => \A x \in DOMAIN view : x \in DOMAIN view' /\ view[x] \subseteq view'[x]
    BY <2>1 DEF Fresh
  <2>5. Fresh => get_chunks_for_file \subseteq get_chunks_for_file'
    BY <2>4 DEF get_chunks_for_file
  <2> QED
    BY <2>1, <2>3, <2>5, NoCallKeepsReads DEF Grows, serverVars
<1>2. CASE Leave(conn)
  <2>1. ~Fresh
    <3> SUFFICES ASSUME Fresh PROVE FALSE
      OBVIOUS
    <3>1. conn[1] \in up /\ conn = <<conn[1], deaths[conn[1]]>>
      BY DEF Fresh, Connection
    <3>2. deaths[conn[1]] \in Nat
      BY <3>1, DfsAssumption DEF ReadInv, TypeInv, TypeOK
    <3>3. conn[2] < deaths[conn[1]]
      BY <1>2 DEF Leave, Dead
    <3> QED
      BY <3>1, <3>2, <3>3
  <2> QED
    BY <1>2, <2>1, NoCallKeepsReads DEF Leave
<1> QED
  BY <1>1, <1>2

LEMMA ReadInvNext == ReadInv /\ [Next]_vars => ReadInv'
<1> SUFFICES ASSUME ReadInv, [Next]_vars PROVE ReadInv'
  OBVIOUS
<1>1. TypeInv'
  BY TypeInvNext DEF ReadInv
<1>2. CASE UNCHANGED vars
  BY <1>1, <1>2, NoCallKeepsReads, NothingChangesForReads DEF vars, serverVars, masterVars
<1>3. ASSUME NEW k \in Clients, insertFile(k) \/ readFile(k) \/ deleteFile(k)
      PROVE  ReadInv'
  BY <1>1, <1>3, UploadsKeepReads, ReadFileKeepsReads, LocationsKeepReads
<1>4. ASSUME NEW k \in Clients, Proceed(k)
      PROVE  ReadInv'
  BY <1>1, <1>4, UploadsKeepReads, ListChunksKeepsReads, LocateChunksKeepsReads,
     GetChunkKeepsReads, LocationsKeepReads, RemoveAtLocalKeepsReads DEF Proceed
<1>5. ASSUME NEW k \in Clients, PostUnanswered(k) \/ RequestFails(k)
      PROVE  ReadInv'
  BY <1>1, <1>5, UploadsKeepReads, LocationsKeepReads
<1>6. ASSUME NEW s \in Servers, Kill(s) \/ Restart(s) \/ Join(s) \/ SendReport(s)
      PROVE  ReadInv'
  BY <1>1, <1>6, ServersKeepReads
<1>7. ASSUME NEW conn \in DOMAIN view, UpdateState(conn) \/ Leave(conn)
      PROVE  ReadInv'
  BY <1>1, <1>7, MasterKeepsReads
<1> QED
  BY <1>2, <1>3, <1>4, <1>5, <1>6, <1>7 DEF Next

\* However uploads, reports, joins and restarts interleave with the three kinds of
\* requests of readFile: a read that began when the directory was settled, and that
\* no death, deletion or failed request disturbed, returns all the chunks that were
\* shown, in order and none twice, and false only when none was.
THEOREM ReadsAreComplete == Spec => []ReadComplete
<1>1. ReadInv => ReadComplete
  BY DEF ReadInv, ReadReturned, ReadComplete, Increasing, Step, Clients
<1> QED
  BY <1>1, ReadInvInit, ReadInvNext, PTL DEF Spec

-----------------------------------------------------------------------------
(* Uploads *)

\* A calm upload that has passed over no chunk has stored those before the one
\* it is at.
StoredSoFar(state) ==
  state.step \in {"locate", "post"} /\ state.calm /\ ~state.skipped =>
    \A c \in Whole : c < state.chunkId => Stored(c)

UploadInv ==
  /\ TypeInv
  /\ \A k \in Clients : StoredSoFar(client[k])
  /\ UploadStored

LEMMA UploadInvInit == Init => UploadInv
<1> SUFFICES ASSUME Init PROVE UploadInv
  OBVIOUS
<1>1. TypeInv
  BY TypeInvInit
<1>2. \A k \in Clients : client[k] = Idle
  BY DEF Init
<1>3. StoredSoFar(Idle)
  BY DEF StoredSoFar, Idle
<1> QED
  BY <1>1, <1>2, <1>3 DEF Init, UploadInv, UploadStored

\* While no server dies and nothing is deleted, what is stored stays so.
LEMMA StoredGrows ==
  ASSUME up \subseteq up', \A s \in up : holds[s] \subseteq holds'[s]
  PROVE  /\ \A c : Stored(c) => Stored(c)'
         /\ \A state : StoredSoFar(state) =>
              (state.step \in {"locate", "post"} /\ state.calm /\ ~state.skipped =>
                 \A c \in Whole : c < state.chunkId => Stored(c)')
  BY DEF Stored, StoredSoFar

\* A client that goes to a state of an upload that has stored what it should have.
LEMMA GotoKeepsUploads ==
  ASSUME UploadInv, TypeInv', UNCHANGED <<serverVars, uploaded>>, NEW k \in Clients, NEW state,
         Goto(k, state), StoredSoFar(state)
  PROVE  UploadInv'
<1>1. client'[k] = state /\ \A j \in Clients : j # k => client'[j] = client[j]
  BY DEF UploadInv, TypeInv, TypeOK, Goto
<1>2. \A c : Stored(c) <=> Stored(c)'
  BY DEF Stored, serverVars
<1>3. \A j \in Clients : StoredSoFar(client[j])'
  BY <1>1, <1>2 DEF UploadInv, StoredSoFar
<1> QED
  BY <1>2, <1>3 DEF UploadInv, UploadStored

\* A client that goes to a state which uploads nothing.
LEMMA OtherCallsKeepUploads ==
  ASSUME UploadInv, TypeInv', UNCHANGED <<serverVars, uploaded>>, NEW k \in Clients, NEW state,
         Goto(k, state), state.step \notin {"locate", "post"}
  PROVE  UploadInv'
<1>1. StoredSoFar(state)
  BY DEF StoredSoFar
<1> QED
  BY <1>1, GotoKeepsUploads

\* A call that returned, or whose result is not kept, uploads nothing.
LEMMA ReturnedUploadsNothing ==
  ASSUME NEW op, NEW value, NEW output, NEW shown, NEW calm
  PROVE  Returned(op, value, output, shown, calm).step \notin {"locate", "post"}
  BY DEF Returned, Idle

\* A step of a server or of the master's tasks that loses no chunk.
LEMMA NoCallKeepsUploads ==
  ASSUME UploadInv, TypeInv', UNCHANGED <<client, uploaded>>, up \subseteq up',
         \A s \in up : holds[s] \subseteq holds'[s]
  PROVE  UploadInv'
  BY StoredGrows DEF UploadInv, StoredSoFar, UploadStored

\* The loops of insertFile: what remains to be done after a chunk was posted,
\* or passed over, is done from a state that keeps the invariant.
LEMMA ContinueKeepsUploads ==
  ASSUME UploadInv, TypeInv', NEW k \in Clients, NEW locations, NEW skipped \in BOOLEAN,
         client[k].step \in {"locate", "post"}, Continue(k, locations, skipped),
         NEW id, client[k].chunkId = id,
         up' = up, \A s \in up : holds[s] \subseteq holds'[s],
         client[k].skipped => skipped,
         skipped \/ locations # << >> \/ Stored(id)'
  PROVE  UploadInv'
<1>1. client[k] \in CallState
  BY DEF UploadInv, TypeInv, TypeOK, CallState
<1>2. /\ id \in Whole /\ client[k].calm \in BOOLEAN /\ client[k].skipped \in BOOLEAN
      /\ client[k].calm /\ ~client[k].skipped => \A c \in Whole : c < id => Stored(c)
      /\ TotalChunks \in Nat
  BY <1>1, CallFields, DfsAssumption DEF UploadInv, StoredSoFar
<1>3. \A c : Stored(c) => Stored(c)'
  BY StoredGrows
<1>4. PICK state :
        /\ Goto(k, state)
        /\ \/ /\ locations # << >> /\ uploaded' = uploaded
              /\ state = [step |-> "post", chunkId |-> id, locations |-> locations,
                          skipped |-> skipped, calm |-> client[k].calm]
           \/ /\ locations = << >> /\ id + 1 < TotalChunks /\ uploaded' = uploaded
              /\ state = [step |-> "locate", chunkId |-> id + 1, skipped |-> skipped,
                          calm |-> client[k].calm]
           \/ /\ locations = << >> /\ id + 1 = TotalChunks
              /\ state = Idle /\ uploaded' = Uploaded(client[k].calm, skipped)
  BY DEF Continue
<1>5. client'[k] = state /\ \A j \in Clients : j # k => client'[j] = client[j]
  BY <1>4 DEF UploadInv, TypeInv, TypeOK, Goto
<1>6. client[k].calm /\ ~skipped /\ locations = << >> => \A c \in Whole : c < id + 1 => Stored(c)'
  BY <1>2, <1>3 DEF Whole
<1>7. StoredSoFar(state)'
  <2>1. CASE state.step = "post"
    BY <1>2, <1>3, <1>4, <2>1 DEF StoredSoFar, Idle
  <2>2. CASE state.step = "locate"
    BY <1>4, <1>6, <2>2 DEF StoredSoFar, Idle
  <2> QED
    BY <2>1, <2>2 DEF StoredSoFar
<1>8. \A j \in Clients : StoredSoFar(client[j])'
  BY <1>3, <1>5, <1>7 DEF UploadInv, StoredSoFar
<1>9. UploadStored'
  <2>1. CASE uploaded' = uploaded
    BY <1>3, <2>1 DEF UploadInv, UploadStored
  <2>2. CASE uploaded' # uploaded
    <3>1. locations = << >> /\ id + 1 = TotalChunks /\ uploaded' = Uploaded(client[k].calm, skipped)
      BY <1>4, <2>2
    <3>2. uploaded' = "yes" => client[k].calm /\ ~skipped
      BY <2>2, <3>1, <1>2 DEF Uploaded
    <3> QED
      BY <1>2, <1>6, <3>1, <3>2 DEF UploadStored, Whole
  <2> QED
    BY <2>1, <2>2
<1> QED
  BY <1>8, <1>9 DEF UploadInv

LEMMA InsertFileKeepsUploads ==
  ASSUME UploadInv, TypeInv', NEW k \in Clients, insertFile(k)
  PROVE  UploadInv'
<1>1. UNCHANGED <<serverVars, uploaded>>
  BY DEF insertFile
<1>2. CASE TotalChunks = 0
  <2>1. Goto(k, Idle) /\ Idle.step \notin {"locate", "post"}
    BY <1>2 DEF insertFile, Idle
  <2> QED
    BY <1>1, <2>1, OtherCallsKeepUploads
<1>3. CASE TotalChunks # 0
  <2> DEFINE start == [step |-> "locate", chunkId |-> 0, skipped |-> FALSE, calm |-> TRUE]
  <2>1. Goto(k, start)
    BY <1>3 DEF insertFile
  <2>2. StoredSoFar(start)
    BY DfsAssumption DEF StoredSoFar, Whole
  <2> HIDE DEF start
  <2> QED
    BY <1>1, <2>1, <2>2, GotoKeepsUploads
<1> QED
  BY <1>2, <1>3

LEMMA LocateChunkKeepsUploads ==
  ASSUME UploadInv, TypeInv', NEW k \in Clients, LocateChunk(k)
  PROVE  UploadInv'
<1>1. PICK locations : Continue(k, locations, client[k].skipped \/ locations = << >>)
  BY DEF LocateChunk
<1>2. client[k].step \in {"locate", "post"} /\ up' = up /\ holds' = holds
  BY DEF LocateChunk, Step, serverVars
<1> DEFINE skipped == client[k].skipped \/ locations = << >>
           id == client[k].chunkId
<1>3. skipped \in BOOLEAN /\ (client[k].skipped => skipped) /\ (skipped \/ locations # << >>)
  OBVIOUS
<1>4. Continue(k, locations, skipped)
  BY <1>1
<1> HIDE DEF skipped
<1> QED
  BY <1>2, <1>3, <1>4, ContinueKeepsUploads

\* The chunk is stored before the client goes on, or repeats its request.
LEMMA PostKeepsUploads ==
  ASSUME UploadInv, TypeInv', NEW k \in Clients, PostChunk(k) \/ PostUnanswered(k)
  PROVE  UploadInv'
<1> DEFINE s == Head(client[k].locations)
           rest == Tail(client[k].locations)
           skipped == client[k].skipped
<1> PICK id : id = client[k].chunkId
  OBVIOUS
<1>1. client[k].step = "post" /\ client[k] \in CallState
  BY DEF PostChunk, PostUnanswered, Step, UploadInv, TypeInv, TypeOK, CallState
<1>2. skipped \in BOOLEAN
  BY <1>1, CallFields
<1>3. s \in up /\ up' = up /\ holds' = [holds EXCEPT ![s] = @ \union {id}]
  BY DEF PostChunk, PostUnanswered
<1> HIDE DEF s, rest, skipped
<1>4. s \in Servers /\ holds \in [Servers -> SUBSET Whole] /\ up \subseteq Servers
  BY <1>3 DEF UploadInv, TypeInv, TypeOK
<1>5. (\A t \in up : holds[t] \subseteq holds'[t]) /\ Stored(id)'
  BY <1>3, <1>4 DEF Stored
<1>6. CASE PostChunk(k)
  <2>1. Continue(k, rest, skipped)
    BY <1>6 DEF PostChunk, rest, skipped
  <2> QED
    BY <1>1, <1>2, <1>3, <1>5, <2>1, ContinueKeepsUploads DEF skipped
<1>7. CASE PostUnanswered(k)
  BY <1>3, <1>5, <1>7, NoCallKeepsUploads DEF PostUnanswered
<1> QED
  BY <1>6, <1>7

LEMMA ReadsKeepUploads ==
  ASSUME UploadInv, TypeInv', NEW k \in Clients,
         readFile(k) \/ ListChunks(k) \/ LocateChunks(k) \/ GetChunk(k)
  PROVE  UploadInv'
<1>1. UNCHANGED <<serverVars, uploaded>>
  BY DEF readFile, ListChunks, LocateChunks, GetChunk
<1>2. ASSUME NEW value, NEW output, NEW shown, NEW calm,
             Goto(k, Returned("read", value, output, shown, calm))
      PROVE  UploadInv'
  BY <1>1, <1>2, ReturnedUploadsNothing, OtherCallsKeepUploads
<1>3. CASE readFile(k)
  <2>1. PICK shown, calm : Goto(k, [step |-> "list", shown |-> shown, calm |-> calm])
    BY <1>3 DEF readFile
  <2> QED
    BY <1>1, <2>1, OtherCallsKeepUploads
<1>4. CASE ListChunks(k)
  <2>1. PICK ids, shown, calm :
          Goto(k, [step |-> "locations", chunkIds |-> ids, shown |-> shown, calm |-> calm])
    BY <1>4 DEF ListChunks
  <2> QED
    BY <1>1, <2>1, OtherCallsKeepUploads
<1>5. CASE LocateChunks(k)
  <2>1. \/ Goto(k, Returned("read", FALSE, << >>, client[k].shown, client[k].calm))
        \/ \E ids, locations, shown, calm :
             Goto(k, [step |-> "get", chunkIds |-> ids, locations |-> locations,
                      output |-> << >>, shown |-> shown, calm |-> calm])
    BY <1>5 DEF LocateChunks
  <2> QED
    BY <1>1, <1>2, <2>1, OtherCallsKeepUploads
<1>6. CASE GetChunk(k)
  <2>1. client[k] \in Reading /\ client[k].step = "get"
    <3>1. client[k].step = "get" /\ client[k] \in CallState
      BY <1>6 DEF GetChunk, Step, UploadInv, TypeInv, TypeOK, CallState
    <3> QED
      BY <3>1, CallFields
  <2>2. \/ \E value, output, shown, calm : Goto(k, Returned("read", value, output, shown, calm))
        \/ \E output : Goto(k, [client[k] EXCEPT !.output = output])
    BY <1>6 DEF GetChunk
  <2>3. \A output : [client[k] EXCEPT !.output = output].step = "get"
    BY <2>1 DEF Reading
  <2> QED
    BY <1>1, <1>2, <2>2, <2>3, OtherCallsKeepUploads
<1> QED
  BY <1>3, <1>4, <1>5, <1>6

LEMMA LocationsKeepUploads ==
  ASSUME UploadInv, TypeInv', NEW k \in Clients,
         deleteFile(k) \/ LocateFile(k) \/ RequestFails(k)
  PROVE  UploadInv'
<1>1. UNCHANGED <<serverVars, uploaded>>
  BY DEF deleteFile, LocateFile, RequestFails
<1>2. CASE deleteFile(k)
  <2>1. PICK calm : Goto(k, [step |-> "where", calm |-> calm])
    BY <1>2 DEF deleteFile
  <2> QED
    BY <1>1, <2>1, OtherCallsKeepUploads
<1>3. CASE LocateFile(k)
  <2>1. \/ Goto(k, Returned("delete", TRUE, << >>, {}, client[k].calm))
        \/ \E n, calm : Goto(k, [step |-> "delete", left |-> n, calm |-> calm])
    BY <1>3 DEF LocateFile
  <2> QED
    BY <1>1, <2>1, ReturnedUploadsNothing, OtherCallsKeepUploads
<1>4. CASE RequestFails(k)
  <2>1. Goto(k, Idle) /\ Idle.step \notin {"locate", "post"}
    BY <1>4 DEF RequestFails, Idle
  <2> QED
    BY <1>1, <2>1, OtherCallsKeepUploads
<1> QED
  BY <1>2, <1>3, <1>4

LEMMA RemoveAtLocalKeepsUploads ==
  ASSUME UploadInv, TypeInv', NEW k \in Clients, RemoveAtLocal(k)
  PROVE  UploadInv'
<1>1. CASE ~FileAtLocal
  <2>1. /\ Goto(k, Returned("delete", FALSE, << >>, {}, client[k].calm))
        /\ UNCHANGED <<serverVars, uploaded>>
    BY <1>1 DEF RemoveAtLocal, serverVars
  <2> QED
    BY <2>1, ReturnedUploadsNothing, OtherCallsKeepUploads
<1>2. CASE FileAtLocal
  <2>1. PICK value, calm :
          client' = [Disturbed EXCEPT ![k] = Returned("delete", value, << >>, {}, calm)]
    BY <1>2 DEF RemoveAtLocal
  <2>2. client'[k].step \notin {"locate", "post"} /\ \A j \in Clients : j # k => client'[j] = Disturbed[j]
    BY <2>1, ReturnedUploadsNothing DEF Disturbed
  <2>3. \A j \in Clients : client'[j].step \notin {"locate", "post"} \/ client'[j].calm = FALSE
    BY <2>2, DisturbedCalls DEF UploadInv
  <2>4. uploaded' = "no"
    BY <1>2 DEF RemoveAtLocal
  <2> QED
    BY <2>3, <2>4 DEF UploadInv, StoredSoFar, UploadStored
<1> QED
  BY <1>1, <1>2

LEMMA ServersKeepUploads ==
  ASSUME UploadInv, TypeInv', NEW s \in Servers, Kill(s) \/ Restart(s) \/ Join(s) \/ SendReport(s)
  PROVE  UploadInv'
<1>1. CASE Kill(s)
  <2>1. client' = Disturbed /\ uploaded' = "no"
    BY <1>1 DEF Kill
  <2> QED
    BY <2>1, DisturbedCalls DEF UploadInv, StoredSoFar, UploadStored
<1>2. CASE Restart(s)
  BY <1>2, NoCallKeepsUploads DEF Restart
<1>3. CASE Join(s) \/ SendReport(s)
  BY <1>3, NoCallKeepsUploads DEF Join, SendReport, serverVars
<1> QED
  BY <1>1, <1>2, <1>3

\* UploadInv is inductive.
LEMMA UploadInvNext == UploadInv /\ [Next]_vars => UploadInv'
<1> SUFFICES ASSUME UploadInv, [Next]_vars PROVE UploadInv'
  OBVIOUS
<1>1. TypeInv'
  BY TypeInvNext DEF UploadInv
<1>2. CASE UNCHANGED vars
  BY <1>1, <1>2, NoCallKeepsUploads DEF vars, serverVars
<1>3. ASSUME NEW k \in Clients, insertFile(k) \/ readFile(k) \/ deleteFile(k)
      PROVE  UploadInv'
  BY <1>1, <1>3, InsertFileKeepsUploads, ReadsKeepUploads, LocationsKeepUploads
<1>4. ASSUME NEW k \in Clients, Proceed(k)
      PROVE  UploadInv'
  BY <1>1, <1>4, LocateChunkKeepsUploads, PostKeepsUploads, ReadsKeepUploads,
     LocationsKeepUploads, RemoveAtLocalKeepsUploads DEF Proceed
<1>5. ASSUME NEW k \in Clients, PostUnanswered(k) \/ RequestFails(k)
      PROVE  UploadInv'
  BY <1>1, <1>5, PostKeepsUploads, LocationsKeepUploads
<1>6. ASSUME NEW s \in Servers, Kill(s) \/ Restart(s) \/ Join(s) \/ SendReport(s)
      PROVE  UploadInv'
  BY <1>1, <1>6, ServersKeepUploads
<1>7. ASSUME NEW conn \in DOMAIN view, UpdateState(conn) \/ Leave(conn)
      PROVE  UploadInv'
  BY <1>1, <1>7, NoCallKeepsUploads DEF UpdateState, Leave, serverVars
<1> QED
  BY <1>2, <1>3, <1>4, <1>5, <1>6, <1>7 DEF Next

\* However uploads of the file interleave with each other, with lost answers,
\* with reads, deletions, deaths and restarts, and with what the master hears:
\* an upload that returned true undisturbed, with no chunk passed over, has put
\* every chunk of the file on a live server, until one dies or a client deletes.
THEOREM UploadsAreStored == Spec => []UploadStored
<1>1. UploadInv => UploadStored
  BY DEF UploadInv
<1> QED
  BY <1>1, UploadInvInit, UploadInvNext, PTL DEF Spec

-----------------------------------------------------------------------------
(* Dfs implements FileStore *)

StoredChunks == {c \in Whole : Stored(c)}

\* run.sh wipes the data of a server that died.
DownIsEmpty == \A s \in Servers : s \notin up => holds[s] = {}

ReadEnded(state) == state.step = "returned" /\ state.op = "read"

LEMMA CoveredCases ==
  ASSUME NEW state
  PROVE  /\ CalmRead(state) => Covered(state) = [step |-> "reading", known |-> state.shown]
         /\ ReadEnded(state) =>
              Covered(state) = [step |-> "returned", value |-> state.value, output |-> state.output]
         /\ ~CalmRead(state) /\ ~ReadEnded(state) => Covered(state) = Abstract!Idle
  BY DEF CalmRead, ReadEnded, Covered, Abstract!Idle

LEMMA DownIsEmptyNext == ASSUME TypeInv, DownIsEmpty, [Next]_vars PROVE DownIsEmpty'
<1>1. up \subseteq Servers /\ holds \in [Servers -> SUBSET Whole]
  BY DEF TypeInv, TypeOK
<1>2. CASE UNCHANGED <<up, holds>>
  BY <1>2 DEF DownIsEmpty
<1>3. ASSUME NEW k \in Clients, PostChunk(k) \/ PostUnanswered(k)
      PROVE  DownIsEmpty'
  <2>1. PICK s, c : s \in up /\ up' = up /\ holds' = [holds EXCEPT ![s] = @ \union {c}]
    BY <1>3 DEF PostChunk, PostUnanswered
  <2> QED
    BY <1>1, <2>1 DEF DownIsEmpty
<1>4. ASSUME NEW k \in Clients, RemoveAtLocal(k)
      PROVE  DownIsEmpty'
  <2>1. up' = up /\ (holds' = holds \/ holds' = [holds EXCEPT ![Local] = {}])
    BY <1>4 DEF RemoveAtLocal
  <2> QED
    BY <1>1, <2>1 DEF DownIsEmpty
<1>5. ASSUME NEW s \in Servers, Kill(s) \/ Restart(s)
      PROVE  DownIsEmpty'
  BY <1>1, <1>5 DEF Kill, Restart, DownIsEmpty
<1> QED
  BY <1>2, <1>3, <1>4, <1>5
     DEF Next, vars, Proceed, serverVars, insertFile, readFile, deleteFile, LocateChunk,
         ListChunks, LocateChunks, GetChunk, LocateFile, RequestFails, Join, SendReport,
         UpdateState, Leave

LEMMA InitRefines == Init => Abstract!Init
<1> SUFFICES ASSUME Init PROVE Abstract!Init
  OBVIOUS
<1>1. \A k \in Clients : client[k] = Idle
  BY DEF Init
<1>2. Covered(Idle) = Abstract!Idle
  BY CoveredCases DEF Idle, CalmRead, ReadEnded
<1>3. \A k \in Readers : Covered(client[k]) = Abstract!Idle
  BY <1>1, <1>2 DEF Clients
<1>4. {c \in Whole : Stored(c)} = {}
  BY DEF Init, Stored
<1> QED
  BY <1>3, <1>4 DEF Init, Abstract!Init

\* Nothing that the store shows changes.
LEMMA StutterRefines ==
  ASSUME StoredChunks' = StoredChunks, uploaded' = "yes" <=> uploaded = "yes",
         \A k \in Readers : Covered(client'[k]) = Covered(client[k])
  PROVE  UNCHANGED Abstract!vars
  BY DEF StoredChunks, Abstract!vars, Covered

\* A step of one client that stores nothing.
LEMMA GotoRefines ==
  ASSUME TypeInv, UNCHANGED serverVars, uploaded' = "yes" <=> uploaded = "yes",
         NEW k \in Clients, NEW state, Goto(k, state),
         \/ Covered(state) = Covered(client[k])
         \/ Covered(state) = Abstract!Idle
         \/ Covered(state) = [step |-> "reading", known |-> StoredChunks]
         \/ /\ Covered(client[k]).step = "reading"
            /\ \E n \in 0..TotalChunks : \E output \in [1..n -> StoredChunks] :
                 /\ \A i, j \in 1..n : i < j => output[i] < output[j]
                 /\ Covered(client[k]).known \subseteq {output[i] : i \in 1..n}
                 /\ Covered(state) =
                      [step |-> "returned", value |-> output # << >>, output |-> output]
  PROVE  [Abstract!Next]_(Abstract!vars)
<1> DEFINE call == [j \in Readers |-> Covered(client[j])]
           next == [j \in Readers |-> Covered(client'[j])]
<1>1. client'[k] = state /\ \A j \in Clients : j # k => client'[j] = client[j]
  BY DEF TypeInv, TypeOK, Goto
<1>2. StoredChunks' = StoredChunks
  BY DEF StoredChunks, Stored, serverVars
<1>3. CASE k \notin Readers
  <2>1. \A j \in Readers : client'[j] = client[j]
    BY <1>1, <1>3 DEF Clients
  <2> QED
    BY <1>2, <2>1, StutterRefines
<1>4. CASE k \in Readers
  <2>1. \A j \in Readers : j # k => client'[j] = client[j]
    BY <1>1 DEF Clients
  <2>2. next = [call EXCEPT ![k] = Covered(state)]
    BY <1>1, <1>4, <2>1
  <2>3. call[k] = Covered(client[k])
    BY <1>4
  <2>4. next = call'
    BY DEF Covered
  <2>5. CASE Covered(state) = Covered(client[k])
    BY <1>1, <1>2, <2>1, <2>5, StutterRefines
  <2> HIDE DEF call, next
  <2>6. CASE Covered(state) = Abstract!Idle
    <3>1. Abstract!GiveUp(k)
      BY <1>2, <2>2, <2>4, <2>6 DEF Abstract!GiveUp, StoredChunks, call
    <3> QED
      BY <1>4, <3>1 DEF Abstract!Next
  <2>7. CASE Covered(state) = [step |-> "reading", known |-> StoredChunks]
    <3>1. Abstract!BeginRead(k)
      BY <1>2, <2>2, <2>4, <2>7 DEF Abstract!BeginRead, StoredChunks, call
    <3> QED
      BY <1>4, <3>1 DEF Abstract!Next
  <2>8. ASSUME Covered(client[k]).step = "reading",
               NEW n \in 0..TotalChunks, NEW output \in [1..n -> StoredChunks],
               \A i, j \in 1..n : i < j => output[i] < output[j],
               Covered(client[k]).known \subseteq {output[i] : i \in 1..n},
               Covered(state) =
                 [step |-> "returned", value |-> output # << >>, output |-> output]
        PROVE  [Abstract!Next]_(Abstract!vars)
    <3>1. call' = [call EXCEPT ![k] =
                     [step |-> "returned", value |-> output # << >>, output |-> output]]
      BY <2>2, <2>4, <2>8
    <3>2. /\ call[k].step = "reading" /\ call[k].known \subseteq {output[i] : i \in 1..n}
          /\ \A i, j \in 1..n : i < j => output[i] < output[j]
      BY <2>3, <2>8
    <3>3. \E m \in 0..TotalChunks : \E out \in [1..m -> StoredChunks] :
            /\ \A i, j \in 1..m : i < j => out[i] < out[j]
            /\ call[k].known \subseteq {out[i] : i \in 1..m}
            /\ call' = [call EXCEPT ![k] =
                          [step |-> "returned", value |-> out # << >>, output |-> out]]
      BY <3>1, <3>2, Zenon
    <3>4. UNCHANGED <<StoredChunks, uploaded = "yes">>
      BY <1>2
    <3>5. Abstract!EndRead(k)
      BY <3>2, <3>3, <3>4, Zenon DEF Abstract!EndRead, StoredChunks, call
    <3> QED
      BY <1>4, <3>5 DEF Abstract!Next
  <2> QED
    BY <2>5, <2>6, <2>7, <2>8
<1> QED
  BY <1>3, <1>4

\* A client that has no read under way and begins none.
LEMMA NoReadRefines ==
  ASSUME TypeInv, UNCHANGED serverVars, uploaded' = "yes" <=> uploaded = "yes",
         NEW k \in Clients, NEW state, Goto(k, state), ~CalmRead(state), ~ReadEnded(state)
  PROVE  [Abstract!Next]_(Abstract!vars)
  BY GotoRefines, CoveredCases

\* insertFile, and what it does between its requests.
LEMMA UploadsRefine ==
  ASSUME UploadInv, UploadStored', NEW k \in Clients,
         insertFile(k) \/ LocateChunk(k) \/ PostChunk(k) \/ PostUnanswered(k)
  PROVE  [Abstract!Next]_(Abstract!vars)
<1>0. /\ TypeInv /\ up \subseteq Servers /\ holds \in [Servers -> SUBSET Whole]
      /\ client \in [Clients -> CallState]
  BY DEF UploadInv, TypeInv, TypeOK, CallState
<1>1. ASSUME NEW locations, NEW skipped \in BOOLEAN, Continue(k, locations, skipped)
      PROVE  /\ \E state : Goto(k, state) /\ ~CalmRead(state) /\ ~ReadEnded(state)
             /\ uploaded = "yes" => uploaded' = "yes"
             /\ uploaded' = "yes" => uploaded = "yes" \/ (locations = << >> /\ ~skipped)
  <2>1. \E state : Goto(k, state) /\ state.step \in {"locate", "post", "idle"}
    BY <1>1 DEF Continue, Idle
  <2>2. \/ uploaded' = uploaded
        \/ locations = << >> /\ uploaded' = Uploaded(client[k].calm, skipped)
    BY <1>1 DEF Continue
  <2>3. /\ uploaded = "yes" => Uploaded(client[k].calm, skipped) = "yes"
        /\ skipped => Uploaded(client[k].calm, skipped) \in {uploaded, "skipped"}
    <3>1. client[k].calm \in BOOLEAN
      BY <1>0, CallFields
    <3> QED
      BY <3>1 DEF Uploaded
  <2>4. \E state : Goto(k, state) /\ ~CalmRead(state) /\ ~ReadEnded(state)
    BY <2>1 DEF CalmRead, ReadEnded
  <2> QED
    BY <2>2, <2>3, <2>4
<1>2. CASE insertFile(k)
  <2>1. \E state : Goto(k, state) /\ state.step \in {"locate", "idle"}
    BY <1>2 DEF insertFile, Idle
  <2>2. UNCHANGED <<serverVars, uploaded>>
    BY <1>2 DEF insertFile
  <2> QED
    BY <1>0, <2>1, <2>2, NoReadRefines DEF CalmRead, ReadEnded
<1>3. CASE LocateChunk(k)
  <2>1. PICK locations : Continue(k, locations, client[k].skipped \/ locations = << >>)
    BY <1>3 DEF LocateChunk
  <2> DEFINE skipped == client[k].skipped \/ locations = << >>
  <2>2. skipped \in BOOLEAN /\ Continue(k, locations, skipped) /\ (locations = << >> => skipped)
    BY <2>1
  <2> HIDE DEF skipped
  <2>3. UNCHANGED serverVars
    BY <1>3 DEF LocateChunk
  <2> QED
    BY <1>0, <1>1, <2>2, <2>3, NoReadRefines
<1>4. CASE PostChunk(k) \/ PostUnanswered(k)
  <2>1. client[k].step = "post" /\ client[k] \in CallState
    BY <1>0, <1>4 DEF PostChunk, PostUnanswered, Step
  <2>2. PICK id \in Whole : id = client[k].chunkId
    BY <2>1, CallFields
  <2>3. PICK s \in up : up' = up /\ holds' = [holds EXCEPT ![s] = @ \union {id}]
    BY <1>4, <2>2 DEF PostChunk, PostUnanswered
  <2>4. \A c : Stored(c)' <=> Stored(c) \/ c = id
    BY <1>0, <2>3 DEF Stored
  <2>5. {c \in Whole : Stored(c)}' = {c \in Whole : Stored(c)} \union {id}
    BY <2>4 DEF Whole
  <2>6. \A j \in Readers : Covered(client'[j]) = Covered(client[j])
    <3>1. CASE PostUnanswered(k)
      BY <3>1 DEF PostUnanswered
    <3>2. CASE PostChunk(k)
      <4>1. client[k].skipped \in BOOLEAN /\ Continue(k, Tail(client[k].locations), client[k].skipped)
        BY <2>1, <3>2, CallFields DEF PostChunk
      <4>2. PICK state : Goto(k, state) /\ ~CalmRead(state) /\ ~ReadEnded(state)
        BY <1>1, <4>1
      <4>3. Covered(state) = Covered(client[k])
        BY <2>1, <4>2, CoveredCases DEF CalmRead, ReadEnded
      <4>4. client'[k] = state /\ \A j \in Clients : j # k => client'[j] = client[j]
        BY <1>0, <4>2 DEF Goto
      <4> QED
        BY <4>3, <4>4 DEF Clients
    <3> QED
      BY <1>4, <3>1, <3>2
  <2>7. /\ uploaded = "yes" => uploaded' = "yes"
        /\ uploaded' = "yes" => {c \in Whole : Stored(c)}' = Whole
    <3>1. uploaded = "yes" => uploaded' = "yes"
      <4>1. CASE PostUnanswered(k)
        BY <4>1 DEF PostUnanswered
      <4>2. CASE PostChunk(k)
        BY <1>1, <2>1, <4>2, CallFields DEF PostChunk
      <4> QED
        BY <1>4, <4>1, <4>2
    <3> QED
      BY <3>1 DEF UploadStored, Whole
  <2>8. Abstract!Put(id)
    BY <2>5, <2>6, <2>7 DEF Abstract!Put, Abstract!Chunks, Whole, Covered
  <2> QED
    BY <2>8 DEF Abstract!Next, Abstract!Chunks, Whole
<1> QED
  BY <1>2, <1>3, <1>4

\* A read returns, with what FileStore wants if it was calm.
LEMMA ReturnRefines ==
  ASSUME TypeInv, UNCHANGED serverVars, uploaded' = uploaded,
         NEW k \in Clients, client[k].step \in {"locations", "get"},
         NEW value \in BOOLEAN, NEW output \in Seq(Whole),
         Goto(k, Returned("read", value, output, client[k].shown, client[k].calm)),
         client[k].calm =>
           /\ value <=> output # << >>
           /\ client[k].shown \subseteq Range(output) /\ Increasing(output)
           /\ \A i \in 1..Len(output) : Stored(output[i])
  PROVE  [Abstract!Next]_(Abstract!vars)
<1> DEFINE state == Returned("read", value, output, client[k].shown, client[k].calm)
           n == Len(output)
<1>1. CASE ~client[k].calm
  <2>1. ~CalmRead(state) /\ ~ReadEnded(state)
    BY <1>1 DEF Returned, Idle, CalmRead, ReadEnded
  <2>2. Goto(k, state)
    OBVIOUS
  <2> HIDE DEF state
  <2> QED
    BY <2>1, <2>2, NoReadRefines
<1>2. CASE client[k].calm
  <2>1. Covered(client[k]) = [step |-> "reading", known |-> client[k].shown]
    BY <1>2, CoveredCases DEF CalmRead
  <2>2. Covered(state) = [step |-> "returned", value |-> output # << >>, output |-> output]
    <3>1. ReadEnded(state) /\ state.value = value /\ state.output = output
      BY <1>2 DEF Returned, ReadEnded
    <3>2. value = (output # << >>)
      BY <1>2
    <3> HIDE DEF state
    <3> QED
      BY <3>1, <3>2, CoveredCases
  <2>3. n \in 0..TotalChunks
    BY <1>2, IncreasingIsShort, DfsAssumption DEF Whole
  <2>4. output \in [1..n -> StoredChunks]
    BY <1>2 DEF StoredChunks
  <2>5. /\ \A i, j \in 1..n : i < j => output[i] < output[j]
        /\ client[k].shown \subseteq {output[i] : i \in 1..n}
    BY <1>2 DEF Increasing, Range
  <2>6. Goto(k, state)
    OBVIOUS
  <2>7. /\ Covered(client[k]).step = "reading"
        /\ Covered(client[k]).known \subseteq {output[i] : i \in 1..n}
    BY <2>1, <2>5
  <2> HIDE DEF state, n
  <2>8. \E m \in 0..TotalChunks : \E out \in [1..m -> StoredChunks] :
          /\ \A i, j \in 1..m : i < j => out[i] < out[j]
          /\ Covered(client[k]).known \subseteq {out[i] : i \in 1..m}
          /\ Covered(state) = [step |-> "returned", value |-> out # << >>, output |-> out]
    BY <2>2, <2>3, <2>4, <2>5, <2>7, Zenon
  <2> QED
    BY <2>6, <2>7, <2>8, GotoRefines
<1> QED
  BY <1>1, <1>2

\* A read that begins when the directory is settled knows what is stored.
LEMMA ReadFileRefines ==
  ASSUME TypeInv, DownIsEmpty, NEW k \in Clients, readFile(k)
  PROVE  [Abstract!Next]_(Abstract!vars)
<1> DEFINE shown == IF Settled THEN UNION {holds[s] : s \in up} ELSE {}
           state == [step |-> "list", shown |-> shown, calm |-> Settled]
<1>1. Goto(k, state) /\ UNCHANGED <<serverVars, uploaded>>
  BY DEF readFile
<1>2. CASE Settled
  <2>1. shown = StoredChunks
    BY <1>2 DEF StoredChunks, Stored, TypeInv, TypeOK
  <2> HIDE DEF shown
  <2>2. CalmRead(state) /\ state.shown = shown
    BY <1>2 DEF CalmRead
  <2>3. Covered(state) = [step |-> "reading", known |-> StoredChunks]
    BY <2>1, <2>2, CoveredCases
  <2> HIDE DEF state
  <2> QED
    BY <1>1, <2>3, GotoRefines
<1>3. CASE ~Settled
  <2>1. ~CalmRead(state) /\ ~ReadEnded(state)
    BY <1>3 DEF CalmRead, ReadEnded
  <2> HIDE DEF state
  <2> QED
    BY <1>1, <2>1, NoReadRefines
<1> QED
  BY <1>2, <1>3

\* A read goes on to its next request.
LEMMA ContinuedReadRefines ==
  ASSUME TypeInv, UNCHANGED <<serverVars, uploaded>>, NEW k \in Clients, NEW state, Goto(k, state),
         client[k].step \in {"list", "locations", "get"}, state.step \in {"list", "locations", "get"},
         state.calm = client[k].calm, state.shown = client[k].shown
  PROVE  [Abstract!Next]_(Abstract!vars)
<1>1. Covered(state) = Covered(client[k])
  BY DEF Covered
<1> QED
  BY <1>1, GotoRefines

LEMMA ListingRefines ==
  ASSUME ReadInv, NEW k \in Clients, ListChunks(k) \/ LocateChunks(k)
  PROVE  [Abstract!Next]_(Abstract!vars)
<1>1. TypeInv /\ client[k] \in CallState
  BY DEF ReadInv, TypeInv, TypeOK, CallState
<1>2. CASE ListChunks(k)
  <2>1. PICK ids : Goto(k, [step |-> "locations", chunkIds |-> ids,
                            shown |-> client[k].shown, calm |-> client[k].calm])
    BY <1>2 DEF ListChunks
  <2> QED
    BY <1>1, <1>2, <2>1, ContinuedReadRefines DEF ListChunks, Step
<1>3. CASE LocateChunks(k)
  <2> DEFINE ids == client[k].chunkIds
  <2>1. /\ client[k].step = "locations" /\ UNCHANGED <<serverVars, uploaded>>
        /\ ids \in Seq(Whole)
    BY <1>1, <1>3, CallFields DEF LocateChunks, Step
  <2>2. CASE \E locations : Goto(k, [step |-> "get", chunkIds |-> ids, locations |-> locations,
                                     output |-> << >>, shown |-> client[k].shown,
                                     calm |-> client[k].calm])
    BY <1>1, <2>1, <2>2, ContinuedReadRefines
  <2>3. CASE /\ Goto(k, Returned("read", FALSE, << >>, client[k].shown, client[k].calm))
             /\ ids = << >> \/ \E i \in 1..Len(ids) : get_location(ids[i]) = {}
    <3>1. ASSUME client[k].calm PROVE client[k].shown \subseteq Range(<< >>)
      <4>1. client[k].shown \subseteq Range(ids) /\ Range(ids) \subseteq get_chunks_for_file
        BY <2>1, <3>1 DEF ReadInv, ReadSoFar, CalmRead
      <4>2. ASSUME NEW i \in 1..Len(ids) PROVE get_location(ids[i]) # {}
        <5>1. ids[i] \in get_chunks_for_file
          BY <2>1, <4>1 DEF Range
        <5> QED
          BY <5>1 DEF get_chunks_for_file, get_location
      <4>3. Range(ids) = Range(<< >>)
        BY <2>3, <4>2
      <4> QED
        BY <4>1, <4>3
    <3> DEFINE none == << >>
    <3>2. none \in Seq(Whole) /\ Increasing(none) /\ \A i \in 1..Len(none) : Stored(none[i])
      BY DEF Increasing
    <3>3. (FALSE <=> none # << >>) /\ (client[k].calm => client[k].shown \subseteq Range(none))
      BY <3>1
    <3>4. Goto(k, Returned("read", FALSE, none, client[k].shown, client[k].calm))
      BY <2>3
    <3> HIDE DEF none
    <3> QED
      BY <1>1, <2>1, <3>2, <3>3, <3>4, ReturnRefines
  <2>4. \/ \E locations : Goto(k, [step |-> "get", chunkIds |-> ids, locations |-> locations,
                                   output |-> << >>, shown |-> client[k].shown,
                                   calm |-> client[k].calm])
        \/ /\ Goto(k, Returned("read", FALSE, << >>, client[k].shown, client[k].calm))
           /\ ids = << >> \/ \E i \in 1..Len(ids) : get_location(ids[i]) = {}
    BY <1>3 DEF LocateChunks
  <2> QED
    BY <2>2, <2>3, <2>4
<1> QED
  BY <1>2, <1>3

\* Each chunk has been fetched from a server that has it, if the read was calm.
LEMMA GetChunkRefines ==
  ASSUME ReadInv, NEW k \in Clients, GetChunk(k)
  PROVE  [Abstract!Next]_(Abstract!vars)
<1> DEFINE ids == client[k].chunkIds
           calm == client[k].calm
           got == client[k].output
           n == Len(got) + 1
           more == Append(got, ids[n])
           next == [client[k] EXCEPT !.output = more]
<1>1. client[k].step = "get" /\ UNCHANGED <<serverVars, uploaded>>
  BY DEF GetChunk, Step
<1>2. /\ TypeInv /\ client[k] \in Reading /\ ids \in Seq(Whole) /\ got \in Seq(Whole)
      /\ client[k].locations \in Seq(SUBSET Servers)
      /\ Len(got) < Len(ids) /\ \A i \in 1..Len(ids) : client[k].locations[i] # {}
  <2>1. TypeInv /\ client[k] \in CallState /\ Fetching(client[k])
    BY DEF ReadInv, TypeInv, TypeOK, CallState
  <2> QED
    BY <1>1, <2>1, CallFields DEF Fetching
<1>3. ASSUME calm
      PROVE  /\ client[k].shown \subseteq Range(ids) /\ Increasing(ids)
             /\ \A i \in 1..Len(got) : got[i] = ids[i]
             /\ \A i \in 1..Len(ids) : \A s \in client[k].locations[i] :
                  s \in up /\ ids[i] \in holds[s]
  BY <1>1, <1>3 DEF ReadInv, ReadSoFar, CalmRead
<1>4. n \in 1..Len(ids) /\ Len(got) \in Nat
  BY <1>2
<1>5. /\ more \in Seq(Whole) /\ Len(more) = n
      /\ calm => \A i \in 1..n : more[i] = ids[i]
  <2>1. ids[n] \in Whole
    BY <1>2, <1>4
  <2>2. /\ more \in Seq(Whole) /\ Len(more) = Len(got) + 1
        /\ \A i \in 1..Len(got) : more[i] = got[i]
        /\ more[Len(got) + 1] = ids[n]
    BY <1>2, <2>1, AppendProperties
  <2> HIDE DEF more
  <2> QED
    BY <1>3, <1>4, <2>2
<1> HIDE DEF more
<1>6. CASE Goto(k, Returned("read", FALSE, got, client[k].shown, calm)) /\ ~calm
  BY <1>1, <1>2, <1>6, ReturnRefines
<1>7. CASE Goto(k, Returned("read", TRUE, more, client[k].shown, calm)) /\ n = Len(ids)
  <2>1. ASSUME calm PROVE more = ids
    <3>1. ids \in Seq(Whole) /\ more \in Seq(Whole) /\ Len(more) = Len(ids)
      BY <1>2, <1>5, <1>7
    <3>2. \A i \in 1..Len(ids) : more[i] = ids[i]
      BY <1>5, <1>7, <2>1
    <3> HIDE DEF ids
    <3> QED
      BY <3>1, <3>2
  <2>2. more # << >>
    BY <1>4, <1>5
  <2>3. ASSUME calm PROVE \A i \in 1..Len(more) : Stored(more[i])
    <3> SUFFICES ASSUME NEW i \in 1..Len(ids) PROVE Stored(ids[i])
      BY <2>1, <2>3
    <3>1. PICK s \in client[k].locations[i] : TRUE
      BY <1>2
    <3> QED
      BY <1>3, <2>3, <3>1 DEF Stored
  <2>4. calm => client[k].shown \subseteq Range(more) /\ Increasing(more)
    BY <1>3, <2>1
  <2> QED
    BY <1>1, <1>2, <1>5, <1>7, <2>2, <2>3, <2>4, ReturnRefines
<1>8. CASE Goto(k, next)
  <2>1. next.step = "get" /\ next.calm = calm /\ next.shown = client[k].shown
    BY <1>1, <1>2 DEF Reading
  <2> HIDE DEF next
  <2> QED
    BY <1>1, <1>2, <1>8, <2>1, ContinuedReadRefines
<1>9. PICK s \in client[k].locations[n] :
        \/ (s \notin up \/ ids[n] \notin holds[s]) /\ Goto(k, Returned("read", FALSE, got, client[k].shown, calm))
        \/ Goto(k, IF n = Len(ids) THEN Returned("read", TRUE, more, client[k].shown, calm) ELSE next)
  BY DEF GetChunk, more
<1>10. calm => s \in up /\ ids[n] \in holds[s]
  BY <1>3, <1>4
<1> QED
  BY <1>6, <1>7, <1>8, <1>9, <1>10

\* A server dies or a deletion is carried out.
LEMMA LossRefines ==
  ASSUME StoredChunks' \subseteq StoredChunks, uploaded' # "yes",
         \A k \in Readers : ~CalmRead(client'[k]) /\ ~ReadEnded(client'[k])
  PROVE  [Abstract!Next]_(Abstract!vars)
<1>1. \A k \in Readers : Covered(client'[k]) = Abstract!Idle
  BY CoveredCases
<1>2. [k \in Readers |-> Covered(client'[k])] = [k \in Readers |-> Abstract!Idle]
  BY <1>1
<1>3. Abstract!Lose
  BY <1>2 DEF Abstract!Lose, StoredChunks, Covered
<1> QED
  BY <1>3 DEF Abstract!Next

\* deleteFile, and a request that fails.
LEMMA LocationsRefine ==
  ASSUME TypeInv, NEW k \in Clients, deleteFile(k) \/ LocateFile(k) \/ RequestFails(k)
  PROVE  [Abstract!Next]_(Abstract!vars)
<1>1. UNCHANGED <<serverVars, uploaded>>
  BY DEF deleteFile, LocateFile, RequestFails
<1>2. PICK state : Goto(k, state) /\ ~CalmRead(state) /\ ~ReadEnded(state)
  <2>1. CASE deleteFile(k)
    BY <2>1 DEF deleteFile, CalmRead, ReadEnded
  <2>2. CASE LocateFile(k)
    BY <2>2 DEF LocateFile, Returned, Idle, CalmRead, ReadEnded
  <2>3. CASE RequestFails(k)
    BY <2>3 DEF RequestFails, Idle, CalmRead, ReadEnded
  <2> QED
    BY <2>1, <2>2, <2>3
<1> QED
  BY <1>1, <1>2, NoReadRefines

LEMMA RemoveAtLocalRefines ==
  ASSUME TypeInv, NEW k \in Clients, RemoveAtLocal(k)
  PROVE  [Abstract!Next]_(Abstract!vars)
<1>1. ASSUME NEW value, NEW calm
      PROVE  LET r == Returned("delete", value, << >>, {}, calm) IN ~CalmRead(r) /\ ~ReadEnded(r)
  BY DEF Returned, Idle, CalmRead, ReadEnded
<1>2. CASE ~FileAtLocal
  <2>1. /\ Goto(k, Returned("delete", FALSE, << >>, {}, client[k].calm))
        /\ UNCHANGED <<serverVars, uploaded>>
    BY <1>2 DEF RemoveAtLocal, serverVars
  <2> QED
    BY <1>1, <2>1, NoReadRefines
<1>3. CASE FileAtLocal
  <2>1. PICK value, calm :
          client' = [Disturbed EXCEPT ![k] = Returned("delete", value, << >>, {}, calm)]
    BY <1>3 DEF RemoveAtLocal
  <2> DEFINE r == Returned("delete", value, << >>, {}, calm)
  <2>2. ~CalmRead(r) /\ ~ReadEnded(r)
    BY <1>1
  <2>3. client' = [Disturbed EXCEPT ![k] = r]
    BY <2>1
  <2> HIDE DEF r
  <2>4. \A j \in Readers : ~CalmRead(client'[j]) /\ ~ReadEnded(client'[j])
    <3>1. client'[k] = r /\ \A j \in Clients : j # k => client'[j] = Disturbed[j]
      BY <2>3 DEF Disturbed
    <3> QED
      BY <2>2, <3>1, DisturbedCalls DEF Clients, CalmRead, ReadEnded
  <2>5. up' = up /\ holds' = [holds EXCEPT ![Local] = {}] /\ uploaded' = "no"
    BY <1>3 DEF RemoveAtLocal
  <2>6. StoredChunks' \subseteq StoredChunks
    BY <2>5 DEF StoredChunks, Stored, TypeInv, TypeOK
  <2> QED
    BY <2>4, <2>5, <2>6, LossRefines
<1> QED
  BY <1>2, <1>3

LEMMA ServersRefine ==
  ASSUME TypeInv, DownIsEmpty, NEW s \in Servers,
         Kill(s) \/ Restart(s) \/ Join(s) \/ SendReport(s)
  PROVE  [Abstract!Next]_(Abstract!vars)
<1>1. holds \in [Servers -> SUBSET Whole] /\ up \subseteq Servers
  BY DEF TypeInv, TypeOK
<1>2. CASE Kill(s)
  <2>1. up' = up \ {s} /\ holds' = [holds EXCEPT ![s] = {}] /\ uploaded' = "no" /\ client' = Disturbed
    BY <1>2 DEF Kill
  <2>2. StoredChunks' \subseteq StoredChunks
    BY <1>1, <2>1 DEF StoredChunks, Stored
  <2>3. \A k \in Readers : ~CalmRead(client'[k]) /\ ~ReadEnded(client'[k])
    BY <2>1, DisturbedCalls DEF Clients, CalmRead, ReadEnded
  <2> QED
    BY <2>1, <2>2, <2>3, LossRefines
<1>3. CASE Restart(s)
  <2>1. up' = up \union {s} /\ holds[s] = {} /\ UNCHANGED <<holds, client, uploaded>>
    BY <1>3 DEF Restart, DownIsEmpty
  <2>2. StoredChunks' = StoredChunks
    BY <1>1, <2>1 DEF StoredChunks, Stored
  <2> QED
    BY <2>1, <2>2, StutterRefines
<1>4. CASE Join(s) \/ SendReport(s)
  <2>1. UNCHANGED <<serverVars, client, uploaded>>
    BY <1>4 DEF Join, SendReport
  <2> QED
    BY <2>1, StutterRefines DEF StoredChunks, Stored, serverVars
<1> QED
  BY <1>2, <1>3, <1>4

LEMMA NextRefines ==
  ASSUME ReadInv, UploadInv, UploadStored', DownIsEmpty, [Next]_vars
  PROVE  [Abstract!Next]_(Abstract!vars)
<1>0. TypeInv
  BY DEF ReadInv
<1>1. CASE UNCHANGED vars
  BY <1>1, StutterRefines DEF vars, serverVars, StoredChunks, Stored
<1>2. ASSUME NEW k \in Clients, insertFile(k) \/ readFile(k) \/ deleteFile(k)
      PROVE  [Abstract!Next]_(Abstract!vars)
  BY <1>0, <1>2, UploadsRefine, ReadFileRefines, LocationsRefine
<1>3. ASSUME NEW k \in Clients, Proceed(k)
      PROVE  [Abstract!Next]_(Abstract!vars)
  BY <1>0, <1>3, UploadsRefine, ListingRefines, GetChunkRefines, LocationsRefine,
     RemoveAtLocalRefines DEF Proceed
<1>4. ASSUME NEW k \in Clients, PostUnanswered(k) \/ RequestFails(k)
      PROVE  [Abstract!Next]_(Abstract!vars)
  BY <1>0, <1>4, UploadsRefine, LocationsRefine
<1>5. ASSUME NEW s \in Servers, Kill(s) \/ Restart(s) \/ Join(s) \/ SendReport(s)
      PROVE  [Abstract!Next]_(Abstract!vars)
  BY <1>0, <1>5, ServersRefine
<1>6. ASSUME NEW conn \in DOMAIN view, UpdateState(conn) \/ Leave(conn)
      PROVE  [Abstract!Next]_(Abstract!vars)
  BY <1>6, StutterRefines DEF UpdateState, Leave, serverVars, StoredChunks, Stored
<1> QED
  BY <1>1, <1>2, <1>3, <1>4, <1>5, <1>6 DEF Next

\* Whatever uploads, reads, deletions, deaths, restarts, joins and reports do to
\* each other, the clients see a store of the file's chunks: an undisturbed upload
\* that returns true has them all stored at that moment, and an undisturbed read
\* returns, in order, chunks that are stored when it returns, among them all that
\* were stored when it began.
THEOREM DfsRefines == Spec => ImplementsFileStore
<1> DEFINE Inv == ReadInv /\ UploadInv /\ DownIsEmpty
<1>1. Init => Inv
  BY ReadInvInit, UploadInvInit DEF Init, DownIsEmpty
<1>2. Inv /\ [Next]_vars => Inv'
  BY ReadInvNext, UploadInvNext, DownIsEmptyNext DEF ReadInv
<1>3. Inv /\ Inv' /\ [Next]_vars => [Abstract!Next]_(Abstract!vars)
  <2>1. UploadInv' => UploadStored'
    BY DEF UploadInv
  <2> QED
    BY <2>1, NextRefines
<1> HIDE DEF Inv
<1> QED
  BY <1>1, <1>2, <1>3, InitRefines, PTL DEF Spec, ImplementsFileStore, Abstract!Spec

-----------------------------------------------------------------------------
(* What the clients ask is a Directory *)

LEMMA StatusCases ==
  ASSUME NEW conn
  PROVE  /\ conn \in DOMAIN view => Status(conn) = "in" /\ Shown(conn) = view[conn]
         /\ conn \notin DOMAIN view =>
              /\ Status(conn) = (IF conn \in Dead THEN "gone" ELSE "out")
              /\ Shown(conn) = {}
  BY DEF Status, Shown

LEMMA DirectoryInit == Init => Known!Init
<1> SUFFICES ASSUME Init PROVE Known!Init
  OBVIOUS
<1>1. DOMAIN view = {} /\ deaths = [s \in Servers |-> 0]
  BY DEF Init
<1>2. \A conn \in Connections : conn \notin DOMAIN view /\ conn \notin Dead
  BY <1>1 DEF Connections, Dead
<1>3. \A conn \in Connections : Status(conn) = "out" /\ Shown(conn) = {}
  BY <1>2, StatusCases
<1> QED
  BY <1>3 DEF Known!Init

\* Nothing enters, changes or leaves.
LEMMA DirectoryStutters ==
  ASSUME UNCHANGED <<view, deaths>>
  PROVE  UNCHANGED Known!vars
  BY DEF Known!vars, Status, Shown, Dead

\* One connection changes, and no other.
LEMMA DirectoryChanges ==
  ASSUME NEW conn \in Connections, NEW s, NEW v,
         Status(conn)' = s, Shown(conn)' = v,
         \A x \in Connections : x # conn => Status(x)' = Status(x) /\ Shown(x)' = Shown(x),
         \/ Status(conn) = "out" /\ s = "in" /\ v = Shown(conn)
         \/ Status(conn) = "in" /\ s = "in" /\ v \in SUBSET Whole
         \/ Status(conn) \in {"out", "in"} /\ s = "gone" /\ v = {}
  PROVE  Known!Next
<1> DEFINE status == [x \in Connections |-> Status(x)]
           shown == [x \in Connections |-> Shown(x)]
           Reports == [x \in Connections |-> SUBSET Whole]
<1>1. status' = [status EXCEPT ![conn] = s] /\ shown' = [shown EXCEPT ![conn] = v]
  OBVIOUS
<1>2. status[conn] = Status(conn) /\ shown[conn] = Shown(conn) /\ Reports[conn] = SUBSET Whole
  OBVIOUS
<1>3. status = [status EXCEPT ![conn] = Status(conn)] /\ shown = [shown EXCEPT ![conn] = Shown(conn)]
  OBVIOUS
<1> HIDE DEF status, shown, Reports
<1>4. CASE Status(conn) = "out" /\ s = "in" /\ v = Shown(conn)
  <2>1. Known!Enter(conn)
    BY <1>1, <1>2, <1>3, <1>4 DEF Known!Enter, status, shown
  <2> QED
    BY <2>1 DEF Known!Next
<1>5. CASE Status(conn) = "in" /\ s = "in" /\ v \in SUBSET Whole
  <2>1. Known!Update(conn)
    BY <1>1, <1>2, <1>3, <1>5 DEF Known!Update, status, shown, Reports
  <2> QED
    BY <2>1 DEF Known!Next
<1>6. CASE Status(conn) \in {"out", "in"} /\ s = "gone" /\ v = {}
  <2>1. Known!Leave(conn)
    BY <1>1, <1>2, <1>6 DEF Known!Leave, status, shown
  <2> QED
    BY <2>1 DEF Known!Next
<1> QED
  BY <1>4, <1>5, <1>6

\* With its process the connection of a server is gone, if it had not joined yet.
LEMMA KillLeaves ==
  ASSUME TypeOK, NEW s \in Servers, Kill(s)
  PROVE  [Known!Next]_(Known!vars)
<1> PICK conn : conn = Connection(s)
  OBVIOUS
<1>1. deaths \in [Servers -> Nat] /\ deaths[s] \in 0..MaxDeaths
  BY DfsAssumption DEF TypeOK
<1>2. deaths' = [deaths EXCEPT ![s] = @ + 1] /\ view' = view
  BY DEF Kill, masterVars
<1>3. conn \in Connections /\ conn[1] = s /\ conn[2] = deaths[s]
  BY <1>1 DEF Connection, Connections
<1>4. conn \notin Dead /\ conn \in Dead'
  BY <1>1, <1>2, <1>3 DEF Dead, Connections
<1>5. ASSUME NEW x \in Connections, x # conn
      PROVE  x \in Dead' <=> x \in Dead
  <2>1. x = <<x[1], x[2]>> /\ x[1] \in Servers /\ x[2] \in Int /\ deaths[x[1]] \in Int
    BY <1>1, DfsAssumption DEF Connections
  <2>2. x[1] # s \/ x[2] # deaths[s]
    BY <1>5, <2>1 DEF Connection
  <2>3. x[2] < deaths'[x[1]] <=> x[2] < deaths[x[1]]
    BY <1>1, <1>2, <2>1, <2>2
  <2> QED
    BY <2>3 DEF Dead, Connections
<1>6. \A x \in Connections : x # conn => Status(x)' = Status(x) /\ Shown(x)' = Shown(x)
  BY <1>2, <1>5 DEF Status, Shown
<1>7. CASE conn \in DOMAIN view
  <2>1. Status(conn)' = Status(conn) /\ Shown(conn)' = Shown(conn)
    BY <1>2, <1>7 DEF Status, Shown
  <2>2. UNCHANGED <<[x \in Connections |-> Status(x)], [x \in Connections |-> Shown(x)]>>
    BY <1>6, <2>1
  <2> QED
    BY <2>2 DEF Known!vars
<1>8. CASE conn \notin DOMAIN view
  <2>1. Status(conn) = "out" /\ Status(conn)' = "gone" /\ Shown(conn)' = {}
    BY <1>2, <1>4, <1>8 DEF Status, Shown
  <2> QED
    BY <1>3, <1>6, <2>1, DirectoryChanges
<1> QED
  BY <1>7, <1>8

LEMMA JoinEnters ==
  ASSUME TypeOK, NEW s \in Servers, Join(s)
  PROVE  Known!Next
<1> PICK conn : conn = Connection(s)
  OBVIOUS
<1>1. deaths \in [Servers -> Nat] /\ deaths[s] \in 0..MaxDeaths
  BY DfsAssumption DEF TypeOK
<1>2. conn \in Connections /\ conn \notin Dead
  BY <1>1 DEF Connection, Connections, Dead
<1>3. /\ conn \notin DOMAIN view /\ DOMAIN view' = DOMAIN view \union {conn}
      /\ \A x \in DOMAIN view' : view'[x] = IF x = conn THEN {} ELSE view[x]
      /\ Dead' = Dead
  BY DEF Join, Dead, serverVars
<1>4. \A x \in Connections : x # conn => Status(x)' = Status(x) /\ Shown(x)' = Shown(x)
  BY <1>3 DEF Status, Shown
<1>5. Status(conn) = "out" /\ Shown(conn) = {} /\ Status(conn)' = "in" /\ Shown(conn)' = {}
  BY <1>2, <1>3 DEF Status, Shown
<1> QED
  BY <1>2, <1>4, <1>5, DirectoryChanges

LEMMA ReportUpdates ==
  ASSUME TypeOK, NEW conn \in DOMAIN view, UpdateState(conn)
  PROVE  Known!Next
<1>1. conn \in Connections /\ report[conn] \in SUBSET Whole
  BY DEF TypeOK, UpdateState
<1>2. view' = [view EXCEPT ![conn] = report[conn]] /\ Dead' = Dead
  BY DEF UpdateState, Dead, serverVars
<1>3. \A x \in Connections : x # conn => Status(x)' = Status(x) /\ Shown(x)' = Shown(x)
  BY <1>2 DEF Status, Shown
<1>4. Status(conn) = "in" /\ Status(conn)' = "in" /\ Shown(conn)' = report[conn]
  BY <1>2 DEF Status, Shown
<1> QED
  BY <1>1, <1>3, <1>4, DirectoryChanges

LEMMA CleanUpLeaves ==
  ASSUME TypeOK, NEW conn \in DOMAIN view, Leave(conn)
  PROVE  Known!Next
<1>1. conn \in Connections /\ conn \in Dead
  BY DEF TypeOK, Leave
<1>2. /\ DOMAIN view' = DOMAIN view \ {conn} /\ \A x \in DOMAIN view' : view'[x] = view[x]
      /\ Dead' = Dead
  BY DEF Leave, Dead, serverVars
<1>3. \A x \in Connections : x # conn => Status(x)' = Status(x) /\ Shown(x)' = Shown(x)
  BY <1>2 DEF Status, Shown
<1>4. Status(conn) = "in" /\ Status(conn)' = "gone" /\ Shown(conn)' = {}
  BY <1>1, <1>2 DEF Status, Shown
<1> QED
  BY <1>1, <1>3, <1>4, DirectoryChanges

\* What the clients are answered from is a directory like the one that Master is
\* shown to be, with a server known under a new connection after every death:
\* reports and clean-ups that come late, after the server is back, show nothing of
\* the dead server under the new connection, and do not bring the old one back.
THEOREM DirectoryIsKept == Spec => ClientsSeeDirectory
<1>1. ASSUME TypeOK, [Next]_vars
      PROVE  [Known!Next]_(Known!vars)
  <2>1. CASE UNCHANGED <<view, deaths>>
    BY <2>1, DirectoryStutters
  <2>2. ASSUME NEW s \in Servers, Kill(s) \/ Join(s)
        PROVE  [Known!Next]_(Known!vars)
    BY <1>1, <2>2, KillLeaves, JoinEnters
  <2>3. ASSUME NEW conn \in DOMAIN view, UpdateState(conn) \/ Leave(conn)
        PROVE  [Known!Next]_(Known!vars)
    BY <1>1, <2>3, ReportUpdates, CleanUpLeaves
  <2> QED
    BY <1>1, <2>1, <2>2, <2>3
       DEF Next, vars, Proceed, serverVars, masterVars, insertFile, readFile, deleteFile,
           LocateChunk, PostChunk, PostUnanswered, ListChunks, LocateChunks, GetChunk,
           LocateFile, RemoveAtLocal, RequestFails, Restart, SendReport
<1> QED
  BY <1>1, DirectoryInit, DfsTypeCorrect, PTL DEF Spec, ClientsSeeDirectory, Known!Spec
==============================================================================
