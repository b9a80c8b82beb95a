-------------------------------- MODULE Master --------------------------------
(***************************************************************************)
(* The master (src/workspace/master): the registry of chunk servers that   *)
(* the TCP side maintains and the HTTP side answers from.                  *)
(*                                                                         *)
(* Every accepted connection is served by two tokio tasks: the handler     *)
(* reads the server's messages, the sender polls it every ten seconds.     *)
(* They share the flag shared_conn_state. The registry is one mutex; each  *)
(* action that touches it is one critical section.                         *)
(***************************************************************************)
EXTENDS Integers, Sequences, SequencesExt, FiniteSets, FiniteSetsExt, Ordered

CONSTANTS
  Connections,         \* connection ids: a fresh UUID for every accept
  Ip,                  \* Ip[c]: the peer address of connection c
  Files,               \* file names that reports and queries mention
  Chunks,              \* chunk ids that reports and queries mention
  Reports,             \* Reports[c]: the listings the server of c may report
  replication_factor,  \* how many servers /server_to_write picks
  Requests,            \* /server_to_write requests that may overlap
  MaxInbox,            \* bound: messages of one server not yet read
  MaxPolls             \* bound: polls of one server not yet answered

ASSUME MasterAssumption ==
  /\ Reports \in [Connections -> SUBSET Seq([filename : Files, chunk_ids : Seq(Chunks)])]
  /\ replication_factor \in Nat
  /\ MaxInbox \in Nat /\ MaxPolls \in Nat

VARIABLES
  connections,        \* the registry, in the order of joining
  index_to_write,     \* round-robin position in the registry
  handler,            \* where the handler task of a connection is
  sender,             \* where its health_check_send task is
  shared_conn_state,  \* the flag they share
  peer,               \* the chunk server's end of the connection
  inbox,              \* its messages that the handler has not read
  polls,              \* polls written to it that it has not answered
  request,            \* the /server_to_write requests under way
  turns               \* ghost: picks of a server in this round-robin round

registryVars == <<connections, index_to_write>>
taskVars     == <<handler, sender, shared_conn_state>>
peerVars     == <<peer, inbox, polls>>
vars == <<connections, index_to_write, handler, sender, shared_conn_state,
          peer, inbox, polls, request, turns>>

ConnectionData ==
  UNION {[connection_id : {c}, files_to_chunks : Reports[c] \union {<< >>}] : c \in Connections}
Join == [type |-> "join"]
Health(report) == [type |-> "health", file_mappings |-> report]
Undecodable == [type |-> "undecodable"]
Message(c) == {Join, Undecodable} \union {Health(r) : r \in Reports[c]}
\* alone (ghost): nothing else touched the registry since the request began
NoRequest == [i |-> replication_factor, picked |-> {}, alone |-> FALSE]
NoTurns == [c \in Connections |-> 0]

Ids(registry) == {registry[k].connection_id : k \in 1..Len(registry)}
Registered(c) == c \in Ids(connections)
Addresses == {Ip[c] : c \in Ids(connections)}

-----------------------------------------------------------------------------
(* TcpStorage *)

\* The caller changes the membership, so a new round of turns begins and no
\* request under way is alone any more.
MembershipChanges ==
  /\ turns' = NoTurns
  /\ request' = [w \in Requests |-> [request[w] EXCEPT !.alone = FALSE]]

\* Slip: only the first server ever gets into the registry.
insertFirstOnly(c) ==
  IF index_to_write = -1
  THEN /\ connections' = Append(connections, [connection_id |-> c, files_to_chunks |-> << >>])
       /\ index_to_write' = 0
       /\ MembershipChanges
  ELSE UNCHANGED <<registryVars, turns, request>>

insert(c) ==
  /\ connections' = Append(connections, [connection_id |-> c, files_to_chunks |-> << >>])
  /\ index_to_write' = IF index_to_write = -1 THEN 0 ELSE index_to_write
  /\ MembershipChanges

\* Slip: retain keeps what it should drop.
removeOthers(c) ==
  /\ connections' = SelectSeq(connections, LAMBDA x : x.connection_id = c)
  /\ MembershipChanges
  /\ UNCHANGED index_to_write

\* Slip: the index is moved back with every removal.
removeMovesIndex(c) ==
  /\ connections' = SelectSeq(connections, LAMBDA x : x.connection_id # c)
  /\ MembershipChanges
  /\ index_to_write' = index_to_write - 1

\* retain drops the entry of c. There is at most one (RegistryMatchesHandlers),
\* and none if c has not joined.
remove(c) ==
  /\ \/ \E k \in 1..Len(connections) :
          connections[k].connection_id = c /\ connections' = RemoveAt(connections, k)
     \/ ~Registered(c) /\ UNCHANGED connections
  /\ MembershipChanges
  /\ UNCHANGED index_to_write

\* Slip: the report is filed under the newest server.
update_stateNewest(c, file_state) ==
  /\ connections' =
       IF connections = << >> THEN connections
       ELSE [connections EXCEPT ![Len(connections)].files_to_chunks = file_state]
  /\ UNCHANGED <<index_to_write, request, turns>>

\* find() takes the first entry of the connection; without one the report is
\* dropped.
update_state(c, file_state) ==
  /\ connections' =
       [k \in 1..Len(connections) |->
          IF /\ connections[k].connection_id = c
             /\ \A j \in 1..(k - 1) : connections[j].connection_id # c
          THEN [connections[k] EXCEPT !.files_to_chunks = file_state]
          ELSE connections[k]]
  /\ UNCHANGED <<index_to_write, request, turns>>

\* Slip: the index is never advanced.
next_index_stuck ==
  IF index_to_write < 0 THEN 0 ELSE index_to_write % Len(connections)

\* The index after increment_index_and_return_addr, for a non-empty registry.
next_index ==
  IF index_to_write < 0 THEN 0 ELSE (index_to_write + 1) % Len(connections)

Mapping(conn, f, k) ==
  k \in 1..Len(conn.files_to_chunks) /\ conn.files_to_chunks[k].filename = f

Mappings(conn, f) == {k \in 1..Len(conn.files_to_chunks) : Mapping(conn, f, k)}

ChunkIds(conn, k) == ToSet(conn.files_to_chunks[k].chunk_ids)

Address(k) == Ip[connections[k].connection_id]

\* The addresses of some of the entries, in the order of the registry.
AddressesOf(entries) ==
  LET order == InOrder(entries) IN [i \in 1..Len(order) |-> Address(order[i])]

\* Every entry a server has of the file is looked at.
Holders(f, id) ==
  {k \in 1..Len(connections) :
     \E m \in Mappings(connections[k], f) : id \in ChunkIds(connections[k], m)}

\* Slip: an address that serves several connections is given several times.
get_location_repeating(f, id) == AddressesOf(Holders(f, id))

\* The addresses that hold chunk id of f, in registry order, each once: a
\* server is passed over when one before it has its address.
get_location(f, id) ==
  AddressesOf({k \in Holders(f, id) :
                 \A j \in Holders(f, id) : Address(j) = Address(k) => k <= j})

\* The chunk ids of f, each once (the code sorts them); of each server only
\* the first entry of the file is looked at.
get_chunks_for_file(f) ==
  UNION {IF Mappings(conn, f) = {} THEN {} ELSE ChunkIds(conn, Min(Mappings(conn, f)))
         : conn \in ToSet(connections)}

get_file_list ==
  UNION {{conn.files_to_chunks[k].filename : k \in 1..Len(conn.files_to_chunks)}
         : conn \in ToSet(connections)}

\* One address for every server with an entry of f. The test meant to keep the
\* answer free of duplicates looks for the file name among the addresses.
get_file_locations(f) ==
  AddressesOf({k \in 1..Len(connections) : Mappings(connections[k], f) # {}})

-----------------------------------------------------------------------------
Init ==
  /\ connections = << >>
  /\ index_to_write = -1
  /\ handler = [c \in Connections |-> "none"]
  /\ sender = [c \in Connections |-> "none"]
  /\ shared_conn_state = [c \in Connections |-> FALSE]
  /\ peer = [c \in Connections |-> "none"]
  /\ inbox = [c \in Connections |-> << >>]
  /\ polls = [c \in Connections |-> 0]
  /\ request = [w \in Requests |-> NoRequest]
  /\ turns = NoTurns

(* The handler task of one connection: accept_connections *)

\* A server connects; the handler spawns the sender and starts reading.
accept_connections(c) ==
  /\ handler[c] = "none"
  /\ handler' = [handler EXCEPT ![c] = "read"]
  /\ sender' = [sender EXCEPT ![c] = "tick"]
  /\ shared_conn_state' = [shared_conn_state EXCEPT ![c] = TRUE]
  /\ peer' = [peer EXCEPT ![c] = "connected"]
  /\ UNCHANGED <<registryVars, inbox, polls, request, turns>>

\* A length-prefixed message is read and dispatched.
ReadMessage(c) ==
  /\ handler[c] = "read" /\ inbox[c] # << >>
  /\ inbox' = [inbox EXCEPT ![c] = Tail(@)]
  /\ LET message == Head(inbox[c]) IN
     \/ /\ message.type = "join"
        /\ insert(c)
        /\ handler' = [handler EXCEPT ![c] = "joined"]
     \/ /\ message.type = "health"
        /\ update_state(c, message.file_mappings)
        /\ UNCHANGED handler
     \/ /\ message.type = "undecodable"
        /\ UNCHANGED <<registryVars, handler, request, turns>>
  /\ UNCHANGED <<sender, shared_conn_state, peer, polls>>

\* The statement after insert, under the flag's own mutex.
SetConnState(c) ==
  /\ handler[c] = "joined"
  /\ shared_conn_state' = [shared_conn_state EXCEPT ![c] = TRUE]
  /\ handler' = [handler EXCEPT ![c] = "read"]
  /\ UNCHANGED <<registryVars, sender, peerVars, request, turns>>

\* The server closed the connection. What it sent before may have been read,
\* be read no further than this, or be lost with a reset. The handler leaves
\* the loop and lowers the flag; it holds the flag's mutex to its end.
ReadError(c) ==
  /\ handler[c] = "read" /\ peer[c] = "closed"
  /\ shared_conn_state' = [shared_conn_state EXCEPT ![c] = FALSE]
  /\ handler' = [handler EXCEPT ![c] = "remove"]
  /\ UNCHANGED <<registryVars, sender, peerVars, request, turns>>

\* Slip: the handler returns without removing its connection.
RemoveConnectionForgotten(c) ==
  /\ handler[c] = "remove"
  /\ handler' = [handler EXCEPT ![c] = "done"]
  /\ UNCHANGED <<registryVars, sender, shared_conn_state, peerVars, request, turns>>

RemoveConnection(c) ==
  /\ handler[c] = "remove"
  /\ remove(c)
  /\ handler' = [handler EXCEPT ![c] = "done"]
  /\ UNCHANGED <<sender, shared_conn_state, peerVars>>

-----------------------------------------------------------------------------
(* The sender task: health_check_send *)

\* Slip: the flag is read while the handler is still removing the connection.
CheckConnStateUnlocked(c) ==
  /\ sender[c] = "tick"
  /\ sender' = [sender EXCEPT ![c] = IF shared_conn_state[c] THEN "write" ELSE "returned"]
  /\ UNCHANGED <<registryVars, handler, shared_conn_state, peerVars, request, turns>>

\* A tick; then the flag is read under its mutex, which a handler that is
\* removing its connection holds.
CheckConnState(c) ==
  /\ sender[c] = "tick" /\ handler[c] # "remove"
  /\ sender' = [sender EXCEPT ![c] = IF shared_conn_state[c] THEN "write" ELSE "returned"]
  /\ UNCHANGED <<registryVars, handler, shared_conn_state, peerVars, request, turns>>

\* On a connection the server has closed a write may still succeed once; when
\* it does not, unwrap() ends the task.
WritePoll(c) ==
  /\ sender[c] = "write"
  /\ \/ /\ peer[c] # "closed" /\ polls[c] < MaxPolls
        /\ polls' = [polls EXCEPT ![c] = @ + 1]
        /\ sender' = [sender EXCEPT ![c] = "tick"]
     \/ /\ peer[c] = "closed"
        /\ \E next \in {"tick", "panicked"} : sender' = [sender EXCEPT ![c] = next]
        /\ UNCHANGED polls
  /\ UNCHANGED <<registryVars, handler, shared_conn_state, peer, inbox, request, turns>>

-----------------------------------------------------------------------------
(* The chunk server at the other end *)

Send(c, message) ==
  /\ Len(inbox[c]) < MaxInbox
  /\ inbox' = [inbox EXCEPT ![c] = Append(@, message)]

\* send_initial_message, once, before anything is read.
PeerJoins(c) ==
  /\ peer[c] = "connected"
  /\ Send(c, Join)
  /\ peer' = [peer EXCEPT ![c] = "joined"]
  /\ UNCHANGED <<registryVars, taskVars, polls, request, turns>>

\* Every poll is answered with a report, which is undecodable when the server
\* packed it from freed memory.
PeerReports(c) ==
  /\ peer[c] = "joined" /\ polls[c] > 0
  /\ \E message \in Message(c) \ {Join} : Send(c, message)
  /\ polls' = [polls EXCEPT ![c] = @ - 1]
  /\ UNCHANGED <<registryVars, taskVars, peer, request, turns>>

PeerCloses(c) ==
  /\ peer[c] \in {"connected", "joined"}
  /\ peer' = [peer EXCEPT ![c] = "closed"]
  /\ UNCHANGED <<registryVars, taskVars, inbox, polls, request, turns>>

-----------------------------------------------------------------------------
(* GET /server_to_write: return_server_to_write_chunk *)

\* Slip: the loop makes one pass too few.
StartWriteAtOne(w) ==
  /\ request[w].i = replication_factor
  /\ request' = [request EXCEPT ![w] = [i |-> 1, picked |-> {}, alone |-> TRUE]]
  /\ UNCHANGED <<registryVars, taskVars, peerVars, turns>>

StartWrite(w) ==
  /\ request[w].i = replication_factor
  /\ request' = [request EXCEPT ![w] = [i |-> 0, picked |-> {}, alone |-> TRUE]]
  /\ UNCHANGED <<registryVars, taskVars, peerVars, turns>>

\* One turn is over when every registered server has been picked in it.
TakeTurn(c) ==
  LET taken == [turns EXCEPT ![c] = @ + 1] IN
  turns' = IF \A d \in Ids(connections) : taken[d] > 0
           THEN [d \in Connections |-> IF Registered(d) THEN taken[d] - 1 ELSE 0]
           ELSE taken

\* One pass of the loop; the registry's mutex is taken anew for each.
increment_index_and_return_addr(w) ==
  /\ request[w].i < replication_factor
  /\ \/ /\ connections = << >>
        /\ UNCHANGED <<registryVars, turns>>
        /\ request' = [request EXCEPT ![w].i = @ + 1]
     \/ /\ connections # << >>
        /\ index_to_write' = next_index
        /\ LET c == connections[next_index + 1].connection_id IN
           /\ TakeTurn(c)
           /\ request' = [v \in Requests |->
                IF v = w
                THEN [request[w] EXCEPT !.i = @ + 1, !.picked = @ \union {Ip[c]}]
                ELSE [request[v] EXCEPT !.alone = FALSE]]
        /\ UNCHANGED connections
  /\ UNCHANGED <<taskVars, peerVars>>

Handler(c) == ReadMessage(c) \/ SetConnState(c) \/ ReadError(c) \/ RemoveConnection(c)

Sender(c) == CheckConnState(c) \/ WritePoll(c)

Next ==
  \/ \E c \in Connections :
       \/ accept_connections(c) \/ Handler(c) \/ Sender(c)
       \/ PeerJoins(c) \/ PeerReports(c) \/ PeerCloses(c)
  \/ \E w \in Requests : StartWrite(w) \/ increment_index_and_return_addr(w)

Spec == Init /\ [][Next]_vars

\* tokio runs a task whose socket is readable; the servers and the clients
\* owe nothing.
Fairness == \A c \in Connections : WF_vars(Handler(c))

FairSpec == Spec /\ Fairness

-----------------------------------------------------------------------------
(* Properties *)

TypeOK ==
  /\ connections \in Seq(ConnectionData)
  /\ index_to_write \in Nat \union {-1}
  /\ handler \in [Connections -> {"none", "read", "joined", "remove", "done"}]
  /\ sender \in [Connections -> {"none", "tick", "write", "returned", "panicked"}]
  /\ shared_conn_state \in [Connections -> BOOLEAN]
  /\ peer \in [Connections -> {"none", "connected", "joined", "closed"}]
  /\ DOMAIN inbox = Connections /\ \A c \in Connections : inbox[c] \in Seq(Message(c))
  /\ polls \in [Connections -> Nat]
  /\ request \in [Requests -> [i : 0..replication_factor, picked : SUBSET {Ip[c] : c \in Connections},
                                alone : BOOLEAN]]
  /\ turns \in [Connections -> Nat]

\* The registry holds a connection at most once; it holds none that has not
\* sent its join or whose handler has cleaned up; and a server whose join has
\* been read stays in it until its connection breaks.
RegistryMatchesHandlers ==
  /\ \A j, k \in 1..Len(connections) :
       connections[j].connection_id = connections[k].connection_id => j = k
  /\ \A c \in Connections :
       /\ Registered(c) => handler[c] \in {"read", "joined", "remove"} /\ peer[c] # "connected"
       /\ handler[c] = "read" /\ peer[c] = "joined" /\ ~Contains(inbox[c], Join) => Registered(c)

\* A sender that stops because of the flag stops after the connection has left
\* the registry: no server is registered whose polling ended that way (the
\* handler keeps the flag's mutex until it has removed the connection).
SenderStopsLast == \A c \in Connections : sender[c] = "returned" => ~Registered(c)

\* Between two changes of membership the picks go round: no server is picked a
\* second time before every other has been picked, whatever requests overlap
\* and wherever a removal left the index.
RoundRobinFair == \A c \in Connections : turns[c] <= 1

\* A write request that nothing overlapped is given as many servers as it
\* asked for, or all there are, when they have different addresses.
AloneGetsReplicas ==
  \A w \in Requests :
    /\ request[w].i = replication_factor /\ request[w].alone
    /\ Cardinality(Addresses) = Len(connections)
    => Cardinality(request[w].picked) = Min({replication_factor, Len(connections)})

\* The three answers a client combines agree: a file is in the file list
\* exactly if it has a location, and a chunk id that is listed for it has a
\* location, which is one of the file's and of a registered server.
AnswersAgree ==
  \A f \in Files :
    /\ f \in get_file_list <=> get_file_locations(f) # << >>
    /\ \A id \in get_chunks_for_file(f) : get_location(f, id) # << >>
    /\ \A id \in Chunks :
         /\ ToSet(get_location(f, id)) \subseteq ToSet(get_file_locations(f)) \intersect Addresses
         /\ IsInjective(get_location(f, id))

\* A server whose connection closed leaves the registry for good.
ClosedLeaves ==
  \A c \in Connections : peer[c] = "closed" ~> [](~Registered(c))

\* A server that joined gets into the registry, unless its connection breaks.
JoinedEnters ==
  \A c \in Connections : peer[c] = "joined" ~> Registered(c) \/ peer[c] = "closed"
===============================================================================
