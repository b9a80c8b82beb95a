----------------------------- MODULE MasterProofs -----------------------------
(***************************************************************************)
(* What holds of the master for any number of connections, requests,       *)
(* replicas, reports and messages on their way.                            *)
(***************************************************************************)
EXTENDS MasterRefinement, SequenceLemmas, TLAPS

-----------------------------------------------------------------------------
(* The registry as a sequence *)

Position == 1..Len(connections)

\* An entry is a connection with something its server may report, or nothing.
LEMMA EntryType ==
  /\ \A c \in Connections : \A r \in Reports[c] \union {<< >>} :
       [connection_id |-> c, files_to_chunks |-> r] \in ConnectionData
  /\ \A conn \in ConnectionData :
       /\ conn.connection_id \in Connections
       /\ conn.files_to_chunks \in Reports[conn.connection_id] \union {<< >>}
       /\ conn = [connection_id |-> conn.connection_id, files_to_chunks |-> conn.files_to_chunks]
<1>1. \A c \in Connections : \A r \in Reports[c] \union {<< >>} :
        [connection_id |-> c, files_to_chunks |-> r] \in ConnectionData
  BY DEF ConnectionData
<1>2. ASSUME NEW conn \in ConnectionData
      PROVE  /\ conn.connection_id \in Connections
             /\ conn.files_to_chunks \in Reports[conn.connection_id] \union {<< >>}
             /\ conn = [connection_id |-> conn.connection_id,
                        files_to_chunks |-> conn.files_to_chunks]
  <2>1. PICK c \in Connections :
          conn \in [connection_id : {c}, files_to_chunks : Reports[c] \union {<< >>}]
    BY DEF ConnectionData
  <2>. QED  BY <2>1
<1>. QED  BY <1>1, <1>2

\* Wherever a removal left the index, the next one is within the registry.
LEMMA NextIndexInRange ==
  ASSUME TypeOK, connections # << >>
  PROVE  next_index \in Nat /\ next_index + 1 \in Position
<1>1. Len(connections) \in Nat /\ Len(connections) > 0
  BY DEF TypeOK
<1>2. \A n \in Nat, m \in Nat : m > 0 => n % m \in 0..(m - 1)
  OBVIOUS
<1>. QED  BY <1>1, <1>2 DEF TypeOK, next_index, Position
-----------------------------------------------------------------------------
(* Type correctness *)

LEMMA InitType == Init => TypeOK
<1>. SUFFICES ASSUME Init
     PROVE  TypeOK
  OBVIOUS
<1>. USE DEF Init
<1>1. connections \in Seq(ConnectionData) /\ index_to_write \in Nat \union {-1}
  OBVIOUS
<1>2. DOMAIN inbox = Connections /\ \A c \in Connections : inbox[c] \in Seq(Message(c))
  OBVIOUS
<1>3. request \in [Requests -> [i : 0..replication_factor,
                               picked : SUBSET {Ip[c] : c \in Connections}, alone : BOOLEAN]]
  <2>1. replication_factor \in 0..replication_factor
    BY MasterAssumption
  <2>. QED  BY <2>1 DEF NoRequest
<1>4. polls \in [Connections -> Nat] /\ turns \in [Connections -> Nat]
  BY DEF NoTurns
<1>5. /\ handler \in [Connections -> {"none", "read", "joined", "remove", "done"}]
      /\ sender \in [Connections -> {"none", "tick", "write", "returned", "panicked"}]
      /\ shared_conn_state \in [Connections -> BOOLEAN]
      /\ peer \in [Connections -> {"none", "connected", "joined", "closed"}]
  OBVIOUS
<1>. QED  BY <1>1, <1>2, <1>3, <1>4, <1>5 DEF TypeOK

LEMMA MembershipChangesType ==
  ASSUME TypeOK, MembershipChanges
  PROVE  /\ turns' \in [Connections -> Nat]
         /\ request' \in [Requests -> [i : 0..replication_factor,
                                       picked : SUBSET {Ip[c] : c \in Connections},
                                       alone : BOOLEAN]]
  BY DEF TypeOK, MembershipChanges, NoTurns

LEMMA InsertType ==
  ASSUME TypeOK, NEW c \in Connections, insert(c)
  PROVE  connections' \in Seq(ConnectionData) /\ index_to_write' \in Nat \union {-1}
<1>1. [connection_id |-> c, files_to_chunks |-> << >>] \in ConnectionData
  BY EntryType
<1>. QED  BY <1>1, AppendProperties DEF TypeOK, insert

LEMMA RemoveType ==
  ASSUME TypeOK, NEW c \in Connections, remove(c)
  PROVE  connections' \in Seq(ConnectionData) /\ index_to_write' \in Nat \union {-1}
<1>1. CASE UNCHANGED connections
  BY <1>1 DEF TypeOK, remove
<1>2. ASSUME NEW k \in 1..Len(connections), connections' = RemoveAt(connections, k)
      PROVE  connections' \in Seq(ConnectionData)
  BY <1>2, RemoveAtProperties DEF TypeOK
<1>. QED  BY <1>1, <1>2 DEF TypeOK, remove

\* update_state changes what one entry shows and nothing else.
LEMMA UpdateProperties ==
  ASSUME TypeOK, NEW c \in Connections, NEW r \in Reports[c], update_state(c, r)
  PROVE  /\ connections' \in Seq(ConnectionData)
         /\ Len(connections') = Len(connections)
         /\ \A k \in Position :
              /\ connections'[k].connection_id = connections[k].connection_id
              /\ connections'[k].files_to_chunks =
                   IF /\ connections[k].connection_id = c
                      /\ \A j \in 1..(k - 1) : connections[j].connection_id # c
                   THEN r ELSE connections[k].files_to_chunks
<1> DEFINE first(k) == /\ connections[k].connection_id = c
                       /\ \A j \in 1..(k - 1) : connections[j].connection_id # c
           entry(k) == IF first(k) THEN [connections[k] EXCEPT !.files_to_chunks = r]
                       ELSE connections[k]
<1>1. connections' = [k \in Position |-> entry(k)]
  BY DEF update_state, Position
<1>2. Len(connections) \in Nat
  BY DEF TypeOK
<1>3. ASSUME NEW k \in Position
      PROVE  /\ entry(k) \in ConnectionData
             /\ entry(k).connection_id = connections[k].connection_id
             /\ entry(k).files_to_chunks =
                  IF first(k) THEN r ELSE connections[k].files_to_chunks
  <2>1. connections[k] \in ConnectionData
    BY DEF TypeOK, Position
  <2>2. CASE first(k)
    <3>1. entry(k) = [connection_id |-> c, files_to_chunks |-> r]
      BY <2>1, <2>2, EntryType
    <3>. QED  BY <2>1, <2>2, <3>1, EntryType
  <2>3. CASE ~first(k)
    BY <2>1, <2>3
  <2>. QED  BY <2>2, <2>3
<1> HIDE DEF entry
<1>4. connections' \in Seq(ConnectionData) /\ Len(connections') = Len(connections)
  BY <1>1, <1>2, <1>3 DEF Position
<1>. QED  BY <1>1, <1>3, <1>4 DEF Position

LEMMA TakeTurnType ==
  ASSUME TypeOK, NEW c \in Connections, TakeTurn(c)
  PROVE  turns' \in [Connections -> Nat]
<1> DEFINE taken == [turns EXCEPT ![c] = @ + 1]
<1>1. taken \in [Connections -> Nat]
  BY DEF TypeOK
<1>2. turns' = IF \A d \in Ids(connections) : taken[d] > 0
               THEN [d \in Connections |-> IF Registered(d) THEN taken[d] - 1 ELSE 0]
               ELSE taken
  BY DEF TakeTurn
<1> HIDE DEF taken
<1>3. CASE \A d \in Ids(connections) : taken[d] > 0
  <2>1. \A d \in Connections : Registered(d) => taken[d] - 1 \in Nat
    BY <1>1, <1>3 DEF Registered
  <2>. QED  BY <1>2, <1>3, <2>1
<1>. QED  BY <1>1, <1>2, <1>3

LEMMA NextType == TypeOK /\ [Next]_vars => TypeOK'
<1>. SUFFICES ASSUME TypeOK, [Next]_vars
     PROVE  TypeOK'
  OBVIOUS
<1>. USE DEF TypeOK
<1>1. ASSUME NEW c \in Connections, accept_connections(c)
      PROVE  TypeOK'
  BY <1>1 DEF accept_connections, registryVars
<1>2. ASSUME NEW c \in Connections, ReadMessage(c)
      PROVE  TypeOK'
  <2> DEFINE message == Head(inbox[c])
  <2>1. message \in Message(c) /\ Tail(inbox[c]) \in Seq(Message(c))
    BY <1>2, TailProperties DEF ReadMessage
  <2>2. inbox' = [inbox EXCEPT ![c] = Tail(@)]
    BY <1>2 DEF ReadMessage
  <2>3. DOMAIN inbox' = Connections /\ \A d \in Connections : inbox'[d] \in Seq(Message(d))
    BY <2>1, <2>2
  <2>4. CASE message.type = "join" /\ insert(c) /\ handler' = [handler EXCEPT ![c] = "joined"]
    BY <1>2, <2>3, <2>4, InsertType, MembershipChangesType DEF ReadMessage, insert
  <2>5. CASE message.type = "health" /\ update_state(c, message.file_mappings) /\ UNCHANGED handler
    <3>1. PICK r \in Reports[c] : message = Health(r)
      BY <2>1, <2>5 DEF Message, Join, Undecodable
    <3>2. update_state(c, r)
      BY <2>5, <3>1 DEF Health
    <3>3. connections' \in Seq(ConnectionData)
      BY <3>2, UpdateProperties
    <3>. QED  BY <1>2, <2>3, <2>5, <3>2, <3>3 DEF ReadMessage, update_state
  <2>6. CASE UNCHANGED <<registryVars, handler, request, turns>>
    BY <1>2, <2>3, <2>6 DEF ReadMessage, registryVars
  <2>. QED  BY <1>2, <2>4, <2>5, <2>6 DEF ReadMessage
<1>3. ASSUME NEW c \in Connections, SetConnState(c) \/ ReadError(c)
      PROVE  TypeOK'
  BY <1>3 DEF SetConnState, ReadError, registryVars, peerVars
<1>4. ASSUME NEW c \in Connections, RemoveConnection(c)
      PROVE  TypeOK'
  BY <1>4, RemoveType, MembershipChangesType DEF RemoveConnection, remove, peerVars
<1>5. ASSUME NEW c \in Connections, Sender(c)
      PROVE  TypeOK'
  <2>1. CASE CheckConnState(c)
    BY <2>1 DEF CheckConnState, registryVars, peerVars
  <2>2. CASE WritePoll(c)
    <3>1. polls' \in [Connections -> Nat]
      <4>1. polls' = [polls EXCEPT ![c] = @ + 1] \/ polls' = polls
        BY <2>2 DEF WritePoll
      <4>. QED  BY <4>1
    <3>2. \E next \in {"tick", "panicked"} : sender' = [sender EXCEPT ![c] = next]
      BY <2>2 DEF WritePoll
    <3>. QED  BY <2>2, <3>1, <3>2 DEF WritePoll, registryVars
  <2>. QED  BY <1>5, <2>1, <2>2 DEF Sender
<1>6. ASSUME NEW c \in Connections, NEW message \in Message(c), Send(c, message)
      PROVE  DOMAIN inbox' = Connections /\ \A d \in Connections : inbox'[d] \in Seq(Message(d))
  BY <1>6, AppendProperties DEF Send
<1>7. ASSUME NEW c \in Connections, PeerJoins(c)
      PROVE  TypeOK'
  <2>1. Join \in Message(c)
    BY DEF Message
  <2>. QED  BY <1>6, <1>7, <2>1 DEF PeerJoins, registryVars, taskVars
<1>8. ASSUME NEW c \in Connections, PeerReports(c)
      PROVE  TypeOK'
  BY <1>6, <1>8 DEF PeerReports, registryVars, taskVars
<1>9. ASSUME NEW c \in Connections, PeerCloses(c)
      PROVE  TypeOK'
  BY <1>9 DEF PeerCloses, registryVars, taskVars
<1>10. ASSUME NEW w \in Requests, StartWrite(w)
       PROVE  TypeOK'
  BY <1>10, MasterAssumption DEF StartWrite, registryVars, taskVars, peerVars
<1>11. ASSUME NEW w \in Requests, increment_index_and_return_addr(w)
       PROVE  TypeOK'
  <2>. USE <1>11, MasterAssumption DEF increment_index_and_return_addr, taskVars, peerVars
  <2>1. request[w].i + 1 \in 0..replication_factor
    OBVIOUS
  <2>2. CASE connections = << >>
    BY <2>1, <2>2 DEF registryVars
  <2>3. CASE connections # << >>
    <3> DEFINE c == connections[next_index + 1].connection_id
    <3>1. next_index \in Nat /\ c \in Connections
      BY <2>3, NextIndexInRange, EntryType DEF Position
    <3>2. /\ index_to_write' = next_index /\ TakeTurn(c) /\ UNCHANGED connections
          /\ request' = [v \in Requests |->
               IF v = w
               THEN [request[w] EXCEPT !.i = @ + 1, !.picked = @ \union {Ip[c]}]
               ELSE [request[v] EXCEPT !.alone = FALSE]]
      BY <2>3
    <3> HIDE DEF c
    <3>3. turns' \in [Connections -> Nat]
      BY <3>1, <3>2, TakeTurnType
    <3>4. request' \in [Requests -> [i : 0..replication_factor,
                                     picked : SUBSET {Ip[d] : d \in Connections},
                                     alone : BOOLEAN]]
      <4>1. ASSUME NEW v \in Requests
            PROVE  request'[v] \in [i : 0..replication_factor,
                                    picked : SUBSET {Ip[d] : d \in Connections},
                                    alone : BOOLEAN]
        <5>1. CASE v = w
          BY <2>1, <3>1, <3>2, <5>1
        <5>2. CASE v # w
          BY <3>2, <5>2
        <5>. QED  BY <5>1, <5>2
      <4>. QED  BY <3>2, <4>1
    <3>. QED  BY <3>1, <3>2, <3>3, <3>4
  <2>. QED  BY <2>2, <2>3
<1>12. CASE UNCHANGED vars
  BY <1>12 DEF vars
<1>. QED
  BY <1>1, <1>2, <1>3, <1>4, <1>5, <1>7, <1>8, <1>9, <1>10, <1>11, <1>12 DEF Next, Handler

\* Every variable of the master keeps its type; in particular the entry of a
\* connection shows nothing but what that connection may report.
THEOREM TypeCorrect == Spec => []TypeOK
  BY InitType, NextType, PTL DEF Spec
-----------------------------------------------------------------------------
(* Who is in a registry, and with what *)

Unique(registry) ==
  \A j, k \in 1..Len(registry) :
    registry[j].connection_id = registry[k].connection_id => j = k

\* Without duplicates what is shown for a connection is what its entry has.
LEMMA ShownIsFiled ==
  ASSUME NEW s \in Seq(ConnectionData), Unique(s), NEW k \in 1..Len(s)
  PROVE  Shown(s, s[k].connection_id) = s[k].files_to_chunks
<1> DEFINE c == s[k].connection_id
           entry == CHOOSE conn \in ToSet(s) : conn.connection_id = c
<1>1. s[k] \in ToSet(s) /\ c \in Ids(s)
  BY DEF ToSet, Ids
<1>2. entry \in ToSet(s) /\ entry.connection_id = c
  BY <1>1
<1> HIDE DEF entry
<1>3. PICK j \in 1..Len(s) : entry = s[j]
  BY <1>2 DEF ToSet
<1>4. j = k
  BY <1>2, <1>3 DEF Unique
<1>. QED  BY <1>1, <1>3, <1>4 DEF Shown, entry

LEMMA AppendEntry ==
  ASSUME NEW s \in Seq(ConnectionData), Unique(s), NEW c \in Connections, c \notin Ids(s),
         NEW t, t = Append(s, [connection_id |-> c, files_to_chunks |-> << >>])
  PROVE  /\ Unique(t) /\ Ids(t) = Ids(s) \union {c}
         /\ \A d \in Connections : Shown(t, d) = Shown(s, d)
<1> DEFINE e == [connection_id |-> c, files_to_chunks |-> << >>]
<1>0. e \in ConnectionData /\ e.connection_id = c /\ e.files_to_chunks = << >>
  BY EntryType
<1> HIDE DEF e
<1>1. /\ t \in Seq(ConnectionData) /\ Len(s) \in Nat /\ Len(t) = Len(s) + 1
      /\ t[Len(s) + 1] = e /\ \A k \in 1..Len(s) : t[k] = s[k]
  BY <1>0, AppendProperties DEF e
<1>2. \A k \in 1..Len(s) : s[k].connection_id # c
  BY DEF Ids
<1>3. Unique(t)
  BY <1>0, <1>1, <1>2 DEF Unique
<1>4. Ids(t) = Ids(s) \union {c}
  BY <1>0, <1>1 DEF Ids
<1>5. ASSUME NEW d \in Connections
      PROVE  Shown(t, d) = Shown(s, d)
  <2>1. CASE d \notin Ids(t)
    BY <1>4, <2>1 DEF Shown
  <2>2. CASE d = c
    <3>1. Len(s) + 1 \in 1..Len(t) /\ t[Len(s) + 1].connection_id = c
      BY <1>0, <1>1
    <3>2. Shown(t, c) = << >>
      BY <1>0, <1>1, <1>3, <3>1, ShownIsFiled
    <3>. QED  BY <2>2, <3>2 DEF Shown
  <2>3. CASE d \in Ids(s)
    <3>1. PICK k \in 1..Len(s) : s[k].connection_id = d
      BY <2>3 DEF Ids
    <3>2. k \in 1..Len(t) /\ t[k] = s[k]
      BY <1>1
    <3>. QED  BY <1>1, <1>3, <3>1, <3>2, ShownIsFiled
  <2>. QED  BY <1>4, <2>1, <2>2, <2>3
<1>. QED  BY <1>3, <1>4, <1>5

LEMMA RemoveEntry ==
  ASSUME NEW s \in Seq(ConnectionData), Unique(s), NEW i \in 1..Len(s),
         NEW t, t = RemoveAt(s, i)
  PROVE  /\ Unique(t) /\ Ids(t) = Ids(s) \ {s[i].connection_id}
         /\ \A d \in Connections :
              Shown(t, d) = IF d = s[i].connection_id THEN << >> ELSE Shown(s, d)
<1> DEFINE n == Len(s)
           at(k) == IF k < i THEN k ELSE k + 1
<1>1. /\ t \in Seq(ConnectionData) /\ n \in Nat /\ i \in 1..n /\ Len(t) = n - 1
      /\ \A k \in 1..(n - 1) : t[k] = s[at(k)]
  BY RemoveAtProperties
<1>2. \A k \in 1..(n - 1) : at(k) \in 1..n /\ at(k) # i
  BY <1>1
<1>3. \A j \in 1..n : j # i => \E k \in 1..(n - 1) : at(k) = j
  <2>. SUFFICES ASSUME NEW j \in 1..n, j # i
       PROVE  \E k \in 1..(n - 1) : at(k) = j
    OBVIOUS
  <2>1. CASE j < i
    <3>1. j \in 1..(n - 1) /\ at(j) = j
      BY <1>1, <2>1
    <3>. QED  BY <3>1
  <2>2. CASE j > i
    <3>1. j - 1 \in 1..(n - 1) /\ at(j - 1) = j
      BY <1>1, <2>2
    <3>. QED  BY <3>1
  <2>. QED  BY <1>1, <2>1, <2>2
<1>4. \A j, k \in 1..(n - 1) : at(j) = at(k) => j = k
  BY <1>1
<1> HIDE DEF n, at
<1>5. \A j, k \in 1..n : s[j].connection_id = s[k].connection_id => j = k
  BY DEF Unique, n
<1>6. Unique(t)
  <2>1. ASSUME NEW j \in 1..(n - 1), NEW k \in 1..(n - 1),
               t[j].connection_id = t[k].connection_id
        PROVE  j = k
    <3>1. s[at(j)].connection_id = s[at(k)].connection_id
      BY <1>1, <2>1
    <3>2. at(j) = at(k)
      BY <1>2, <1>5, <3>1
    <3>. QED  BY <1>4, <3>2
  <2>. QED  BY <1>1, <2>1 DEF Unique
<1>7. ASSUME NEW d
      PROVE  d \in Ids(t) <=> d \in Ids(s) /\ d # s[i].connection_id
  <2>1. ASSUME NEW k \in 1..(n - 1), t[k].connection_id = d
        PROVE  d \in Ids(s) /\ d # s[i].connection_id
    BY <1>1, <1>2, <1>5, <2>1 DEF Ids, n
  <2>2. ASSUME NEW j \in 1..n, s[j].connection_id = d, d # s[i].connection_id
        PROVE  d \in Ids(t)
    BY <1>1, <1>3, <2>2 DEF Ids
  <2>. QED  BY <1>1, <2>1, <2>2 DEF Ids, n
<1>8. ASSUME NEW d \in Connections
      PROVE  Shown(t, d) = IF d = s[i].connection_id THEN << >> ELSE Shown(s, d)
  <2>1. CASE d \notin Ids(t)
    BY <1>7, <2>1 DEF Shown
  <2>2. CASE d \in Ids(t)
    <3>1. PICK k \in 1..(n - 1) : t[k].connection_id = d
      BY <1>1, <2>2 DEF Ids
    <3>2. at(k) \in 1..Len(s) /\ t[k] = s[at(k)]
      BY <1>1, <1>2, <3>1 DEF n
    <3>3. k \in 1..Len(t) /\ s[at(k)].connection_id = d
      BY <1>1, <3>1, <3>2
    <3>4. Shown(t, d) = t[k].files_to_chunks
      BY <1>1, <1>6, <3>1, <3>3, ShownIsFiled
    <3>5. Shown(s, d) = s[at(k)].files_to_chunks
      BY <3>2, <3>3, ShownIsFiled
    <3>. QED  BY <1>7, <2>2, <3>2, <3>4, <3>5
  <2>. QED  BY <2>1, <2>2
<1>. QED  BY <1>6, <1>7, <1>8

LEMMA UpdateEntry ==
  ASSUME TypeOK, Unique(connections), NEW c \in Connections, NEW r \in Reports[c],
         update_state(c, r)
  PROVE  /\ Unique(connections)' /\ Ids(connections)' = Ids(connections)
         /\ \A d \in Connections :
              Shown(connections, d)' =
                IF d = c /\ Registered(c) THEN r ELSE Shown(connections, d)
<1> DEFINE s == connections
           t == connections'
           n == Len(connections)
<1>1. /\ s \in Seq(ConnectionData) /\ t \in Seq(ConnectionData) /\ n \in Nat /\ Len(t) = n
      /\ \A k \in 1..n : t[k].connection_id = s[k].connection_id
  BY UpdateProperties DEF TypeOK, Position
<1>2. \A j, k \in 1..n : s[j].connection_id = s[k].connection_id => j = k
  BY DEF Unique
<1>3. \A k \in 1..n : t[k].files_to_chunks =
                      IF s[k].connection_id = c THEN r ELSE s[k].files_to_chunks
  <2>1. ASSUME NEW k \in 1..n, s[k].connection_id = c
        PROVE  \A j \in 1..(k - 1) : s[j].connection_id # c
    BY <1>1, <1>2, <2>1
  <2>. QED  BY <2>1, UpdateProperties DEF Position
<1>4. Unique(t)
  BY <1>1, <1>2 DEF Unique
<1>5. Ids(t) = Ids(s)
  BY <1>1 DEF Ids
<1>6. ASSUME NEW d \in Connections
      PROVE  Shown(t, d) = IF d = c /\ c \in Ids(s) THEN r ELSE Shown(s, d)
  <2>1. CASE d \notin Ids(s)
    BY <1>5, <2>1 DEF Shown
  <2>2. CASE d \in Ids(s)
    <3>1. PICK k \in 1..n : s[k].connection_id = d
      BY <2>2 DEF Ids
    <3>2. Shown(t, d) = t[k].files_to_chunks /\ Shown(s, d) = s[k].files_to_chunks
      BY <1>1, <1>4, <3>1, ShownIsFiled
    <3>. QED  BY <1>3, <2>2, <3>1, <3>2
  <2>. QED  BY <2>1, <2>2
<1>. QED  BY <1>4, <1>5, <1>6 DEF Registered
-----------------------------------------------------------------------------
(* The registry, the tasks and the messages under way *)

JoinUnderWay(c) == Contains(inbox[c], Join)

\* How the two tasks of a connection, the server at its other end and the
\* registry stand to each other. The join is the first message, so a server is
\* registered or its join is still to be read, never both.
ConnectionInv(c) ==
  /\ handler[c] = "none" => peer[c] = "none" /\ sender[c] = "none"
  /\ peer[c] \in {"none", "connected"} => inbox[c] = << >> /\ ~Registered(c)
  /\ handler[c] \in {"remove", "done"} => peer[c] = "closed"
  /\ handler[c] \in {"none", "done"} => ~Registered(c)
  /\ handler[c] = "joined" => Registered(c)
  /\ \A k \in 2..Len(inbox[c]) : inbox[c][k] # Join
  /\ Registered(c) => ~JoinUnderWay(c)
  /\ handler[c] = "read" /\ peer[c] = "joined" => JoinUnderWay(c) \/ Registered(c)
  /\ ~shared_conn_state[c] => handler[c] \in {"none", "remove", "done"}
  /\ sender[c] = "returned" => handler[c] = "done"

RegistryInv == Unique(connections) /\ \A c \in Connections : ConnectionInv(c)
LEMMA RegistryInvInit == Init => RegistryInv
  BY DEF Init, RegistryInv, Unique, ConnectionInv, JoinUnderWay, Contains, Registered, Ids

\* A step that does not concern a connection.
LEMMA ConnectionUntouched ==
  ASSUME NEW d \in Connections, ConnectionInv(d), Registered(d)' <=> Registered(d),
         handler'[d] = handler[d], sender'[d] = sender[d], peer'[d] = peer[d],
         inbox'[d] = inbox[d], shared_conn_state'[d] = shared_conn_state[d]
  PROVE  ConnectionInv(d)'
  BY DEF ConnectionInv, JoinUnderWay, Contains

\* Nothing is read but the first message, and nothing after it is a join.
LEMMA ReadLeavesNoJoin ==
  ASSUME TypeOK, RegistryInv, NEW c \in Connections, ReadMessage(c)
  PROVE  /\ Head(inbox[c]) \in Message(c)
         /\ \A k \in 1..Len(inbox'[c]) : inbox'[c][k] # Join
         /\ JoinUnderWay(c) <=> Head(inbox[c]) = Join
         /\ \A d \in Connections \ {c} : inbox'[d] = inbox[d]
<1>1. inbox[c] \in Seq(Message(c)) /\ inbox[c] # << >> /\ inbox'[c] = Tail(inbox[c])
  BY DEF TypeOK, ReadMessage
<1>2. \A k \in 2..Len(inbox[c]) : inbox[c][k] # Join
  BY DEF RegistryInv, ConnectionInv
<1>3. Len(inbox[c]) \in Nat /\ Len(inbox[c]) > 0 /\ Head(inbox[c]) = inbox[c][1]
  BY <1>1
<1>4. \A k \in 1..Len(inbox'[c]) : k + 1 \in 2..Len(inbox[c]) /\ inbox'[c][k] = inbox[c][k + 1]
  BY <1>1, <1>3, TailProperties
<1>5. JoinUnderWay(c) <=> Head(inbox[c]) = Join
  BY <1>2, <1>3 DEF JoinUnderWay, Contains
<1>6. \A d \in Connections \ {c} : inbox'[d] = inbox[d]
  BY DEF TypeOK, ReadMessage
<1>. QED  BY <1>1, <1>2, <1>4, <1>5, <1>6, TailProperties

LEMMA RegistryInvNext == TypeOK /\ RegistryInv /\ [Next]_vars => RegistryInv'
<1>. SUFFICES ASSUME TypeOK, RegistryInv, [Next]_vars
     PROVE  RegistryInv'
  OBVIOUS
<1>0. Unique(connections) /\ \A d \in Connections : ConnectionInv(d)
  BY DEF RegistryInv
<1>1. ASSUME NEW c \in Connections, UNCHANGED connections,
             \A d \in Connections \ {c} :
               /\ handler'[d] = handler[d] /\ sender'[d] = sender[d] /\ peer'[d] = peer[d]
               /\ inbox'[d] = inbox[d] /\ shared_conn_state'[d] = shared_conn_state[d],
             ConnectionInv(c)'
      PROVE  RegistryInv'
  <2>1. \A d \in Connections : Registered(d)' <=> Registered(d)
    BY <1>1 DEF Registered
  <2>2. \A d \in Connections \ {c} : ConnectionInv(d)'
    BY <1>0, <1>1, <2>1, ConnectionUntouched
  <2>3. Unique(connections)'
    BY <1>0, <1>1
  <2>. QED  BY <1>1, <2>2, <2>3 DEF RegistryInv
<1>2. ASSUME NEW c \in Connections, accept_connections(c)
      PROVE  RegistryInv'
  <2>1. Registered(c)' <=> Registered(c)
    BY <1>2 DEF accept_connections, registryVars, Registered
  <2>2. ConnectionInv(c)'
    BY <1>0, <1>2, <2>1 DEF accept_connections, TypeOK, ConnectionInv, JoinUnderWay, Contains
  <2>. QED  BY <1>1, <1>2, <2>2 DEF accept_connections, TypeOK, registryVars
<1>3. ASSUME NEW c \in Connections, ReadMessage(c)
      PROVE  RegistryInv'
  <2> DEFINE message == Head(inbox[c])
  <2>1. /\ message \in Message(c)
        /\ \A k \in 1..Len(inbox'[c]) : inbox'[c][k] # Join
        /\ JoinUnderWay(c) <=> message = Join
        /\ \A d \in Connections \ {c} : inbox'[d] = inbox[d]
    BY <1>3, ReadLeavesNoJoin
  <2>2. /\ handler[c] = "read" /\ inbox[c] # << >>
        /\ UNCHANGED <<sender, shared_conn_state, peer>>
    BY <1>3 DEF ReadMessage
  <2>3. (\A k \in 2..Len(inbox'[c]) : inbox'[c][k] # Join) /\ ~JoinUnderWay(c)'
    BY <2>1 DEF JoinUnderWay, Contains
  <2>4. peer[c] \notin {"none", "connected"}
    BY <1>0, <2>2 DEF ConnectionInv
  <2> HIDE DEF message
  <2>5. CASE message.type = "join" /\ insert(c) /\ handler' = [handler EXCEPT ![c] = "joined"]
    <3>1. message = Join
      BY <2>1, <2>5 DEF Message, Join, Undecodable, Health
    <3>2. c \notin Ids(connections)
      BY <1>0, <2>1, <3>1 DEF ConnectionInv, Registered
    <3>3. Unique(connections)' /\ Ids(connections)' = Ids(connections) \union {c}
      BY <1>0, <2>5, <3>2, AppendEntry DEF TypeOK, insert
    <3>4. handler'[c] = "joined" /\ \A d \in Connections \ {c} : handler'[d] = handler[d]
      BY <2>5 DEF TypeOK
    <3>5. ConnectionInv(c)'
      BY <1>0, <2>2, <2>3, <2>4, <3>3, <3>4 DEF ConnectionInv, Registered
    <3>6. \A d \in Connections \ {c} : ConnectionInv(d)'
      BY <1>0, <2>1, <2>2, <3>3, <3>4, ConnectionUntouched DEF Registered
    <3>. QED  BY <3>3, <3>5, <3>6 DEF RegistryInv
  <2>6. ASSUME message # Join, Unique(connections)', Ids(connections)' = Ids(connections),
               UNCHANGED handler
        PROVE  RegistryInv'
    <3>1. ConnectionInv(c)'
      BY <1>0, <2>1, <2>2, <2>3, <2>4, <2>6 DEF ConnectionInv, Registered
    <3>2. \A d \in Connections \ {c} : ConnectionInv(d)'
      BY <1>0, <2>1, <2>2, <2>6, ConnectionUntouched DEF Registered
    <3>. QED  BY <2>6, <3>1, <3>2 DEF RegistryInv
  <2>7. CASE message.type = "health" /\ update_state(c, message.file_mappings) /\ UNCHANGED handler
    <3>1. message # Join
      BY <2>7 DEF Join
    <3>2. PICK r \in Reports[c] : message = Health(r)
      BY <2>1, <2>7 DEF Message, Join, Undecodable
    <3>3. update_state(c, r)
      BY <2>7, <3>2 DEF Health
    <3>. QED  BY <1>0, <2>6, <2>7, <3>1, <3>3, UpdateEntry
  <2>8. CASE message.type = "undecodable" /\ UNCHANGED <<registryVars, handler, request, turns>>
    <3>1. message # Join
      BY <2>8 DEF Join
    <3>. QED  BY <1>0, <2>6, <2>8, <3>1 DEF registryVars
  <2>. QED  BY <1>3, <2>5, <2>7, <2>8 DEF ReadMessage, message
<1>4. ASSUME NEW c \in Connections, SetConnState(c) \/ ReadError(c)
      PROVE  RegistryInv'
  <2>1. Registered(c)' <=> Registered(c)
    BY <1>4 DEF SetConnState, ReadError, registryVars, Registered
  <2>2. ConnectionInv(c)'
    BY <1>0, <1>4, <2>1
       DEF SetConnState, ReadError, TypeOK, peerVars, ConnectionInv, JoinUnderWay, Contains
  <2>. QED  BY <1>1, <1>4, <2>2 DEF SetConnState, ReadError, TypeOK, registryVars, peerVars
<1>5. ASSUME NEW c \in Connections, RemoveConnection(c)
      PROVE  RegistryInv'
  <2>1. Unique(connections)' /\ Ids(connections)' = Ids(connections) \ {c}
    <3>1. CASE ~Registered(c) /\ UNCHANGED connections
      BY <1>0, <3>1 DEF Registered
    <3>2. ASSUME NEW k \in 1..Len(connections), connections[k].connection_id = c,
                 connections' = RemoveAt(connections, k)
          PROVE  Unique(connections)' /\ Ids(connections)' = Ids(connections) \ {c}
      BY <1>0, <3>2, RemoveEntry DEF TypeOK
    <3>. QED  BY <1>5, <3>1, <3>2 DEF RemoveConnection, remove
  <2>2. /\ handler[c] = "remove" /\ handler'[c] = "done"
        /\ \A d \in Connections \ {c} : handler'[d] = handler[d]
        /\ UNCHANGED <<sender, shared_conn_state, peer, inbox>>
    BY <1>5 DEF RemoveConnection, TypeOK, peerVars
  <2>3. ConnectionInv(c)'
    BY <1>0, <2>1, <2>2 DEF ConnectionInv, Registered, JoinUnderWay
  <2>4. \A d \in Connections \ {c} : ConnectionInv(d)'
    BY <1>0, <2>1, <2>2, ConnectionUntouched DEF Registered
  <2>. QED  BY <2>1, <2>3, <2>4 DEF RegistryInv
<1>6. ASSUME NEW c \in Connections, Sender(c)
      PROVE  RegistryInv'
  <2>1. /\ UNCHANGED <<connections, handler, shared_conn_state, peer, inbox>>
        /\ \A d \in Connections \ {c} : sender'[d] = sender[d]
    BY <1>6 DEF Sender, CheckConnState, WritePoll, TypeOK, registryVars, peerVars
  <2>2. Registered(c)' <=> Registered(c)
    BY <2>1 DEF Registered
  <2>3. CASE CheckConnState(c)
    <3>1. /\ sender[c] = "tick" /\ handler[c] # "remove"
          /\ sender'[c] = IF shared_conn_state[c] THEN "write" ELSE "returned"
      BY <2>3 DEF CheckConnState, TypeOK
    <3>2. ConnectionInv(c)'
      BY <1>0, <2>1, <2>2, <3>1 DEF ConnectionInv, JoinUnderWay
    <3>. QED  BY <1>1, <2>1, <3>2
  <2>4. CASE WritePoll(c)
    <3>1. sender[c] = "write" /\ sender'[c] \in {"tick", "panicked", "write"}
      BY <2>4 DEF WritePoll, TypeOK
    <3>2. ConnectionInv(c)'
      BY <1>0, <2>1, <2>2, <3>1 DEF ConnectionInv, JoinUnderWay
    <3>. QED  BY <1>1, <2>1, <3>2
  <2>. QED  BY <1>6, <2>3, <2>4 DEF Sender
<1>7. ASSUME NEW c \in Connections, PeerJoins(c)
      PROVE  RegistryInv'
  <2>1. inbox[c] = << >> /\ ~Registered(c) /\ handler[c] # "none"
    BY <1>0, <1>7 DEF PeerJoins, ConnectionInv
  <2>2. inbox'[c] = Append(inbox[c], Join) /\ \A d \in Connections \ {c} : inbox'[d] = inbox[d]
    BY <1>7 DEF PeerJoins, Send, TypeOK
  <2>3. Len(inbox'[c]) = 1 /\ inbox'[c][1] = Join
    BY <2>1, <2>2
  <2>4. /\ peer[c] = "connected" /\ peer'[c] = "joined"
        /\ UNCHANGED <<connections, handler, sender, shared_conn_state>>
        /\ \A d \in Connections \ {c} : peer'[d] = peer[d]
    BY <1>7 DEF PeerJoins, TypeOK, registryVars, taskVars
  <2>5. Registered(c)' <=> Registered(c)
    BY <2>4 DEF Registered
  <2>6. ConnectionInv(c)'
    BY <1>0, <2>1, <2>3, <2>4, <2>5 DEF ConnectionInv, JoinUnderWay, Contains
  <2>. QED  BY <1>1, <2>2, <2>4, <2>6
<1>8. ASSUME NEW c \in Connections, PeerReports(c)
      PROVE  RegistryInv'
  <2>1. PICK message \in Message(c) \ {Join} : inbox' = [inbox EXCEPT ![c] = Append(@, message)]
    BY <1>8 DEF PeerReports, Send
  <2>2. inbox'[c] = Append(inbox[c], message) /\ \A d \in Connections \ {c} : inbox'[d] = inbox[d]
    BY <2>1 DEF TypeOK
  <2>3. /\ Len(inbox[c]) \in Nat /\ Len(inbox'[c]) = Len(inbox[c]) + 1
        /\ inbox'[c][Len(inbox[c]) + 1] # Join
        /\ \A k \in 1..Len(inbox[c]) : inbox'[c][k] = inbox[c][k]
    BY <2>1, <2>2, AppendProperties DEF TypeOK
  <2>4. /\ JoinUnderWay(c)' <=> JoinUnderWay(c)
        /\ (\A k \in 2..Len(inbox[c]) : inbox[c][k] # Join)
             => \A k \in 2..Len(inbox'[c]) : inbox'[c][k] # Join
    BY <2>3 DEF JoinUnderWay, Contains
  <2>5. peer[c] = "joined" /\ UNCHANGED <<connections, handler, sender, shared_conn_state, peer>>
    BY <1>8 DEF PeerReports, registryVars, taskVars
  <2>6. Registered(c)' <=> Registered(c)
    BY <2>5 DEF Registered
  <2>7. ConnectionInv(c)'
    BY <1>0, <2>4, <2>5, <2>6 DEF ConnectionInv
  <2>. QED  BY <1>1, <2>2, <2>5, <2>7
<1>9. ASSUME NEW c \in Connections, PeerCloses(c)
      PROVE  RegistryInv'
  <2>1. /\ peer[c] \in {"connected", "joined"} /\ peer'[c] = "closed"
        /\ UNCHANGED <<connections, handler, sender, shared_conn_state, inbox>>
        /\ \A d \in Connections \ {c} : peer'[d] = peer[d]
    BY <1>9 DEF PeerCloses, TypeOK, registryVars, taskVars
  <2>2. Registered(c)' <=> Registered(c)
    BY <2>1 DEF Registered
  <2>3. ConnectionInv(c)'
    BY <1>0, <2>1, <2>2 DEF ConnectionInv, JoinUnderWay
  <2>. QED  BY <1>1, <2>1, <2>3
<1>10. ASSUME UNCHANGED <<connections, handler, sender, shared_conn_state, peer, inbox>>
       PROVE  RegistryInv'
  <2>1. \A d \in Connections : Registered(d)' <=> Registered(d)
    BY <1>10 DEF Registered
  <2>. QED  BY <1>0, <1>10, <2>1, ConnectionUntouched DEF RegistryInv
<1>11. ASSUME NEW w \in Requests, StartWrite(w) \/ increment_index_and_return_addr(w)
       PROVE  RegistryInv'
  BY <1>10, <1>11 DEF StartWrite, increment_index_and_return_addr, registryVars, taskVars, peerVars
<1>12. CASE UNCHANGED vars
  BY <1>10, <1>12 DEF vars
<1>. QED
  BY <1>2, <1>3, <1>4, <1>5, <1>6, <1>7, <1>8, <1>9, <1>11, <1>12 DEF Next, Handler

LEMMA RegistryCorrect == Spec => []RegistryInv
  BY RegistryInvInit, RegistryInvNext, TypeCorrect, PTL DEF Spec

\* However the tasks of the connections interleave and wherever connections
\* break: no connection is registered twice, none without its join or after its
\* handler has cleaned up, and none is missing whose join was read.
THEOREM RegistryIsExact == Spec => []RegistryMatchesHandlers
<1>1. TypeOK /\ RegistryInv => RegistryMatchesHandlers
  BY DEF TypeOK, RegistryInv, Unique, ConnectionInv, JoinUnderWay, RegistryMatchesHandlers
<1>. QED  BY <1>1, TypeCorrect, RegistryCorrect, PTL

\* A sender that saw the flag lowered ends after its connection has left the
\* registry, because the handler holds the flag's mutex until then.
THEOREM SenderOutlivesEntry == Spec => []SenderStopsLast
<1>1. RegistryInv => SenderStopsLast
  BY DEF RegistryInv, ConnectionInv, SenderStopsLast
<1>. QED  BY <1>1, RegistryCorrect, PTL
-----------------------------------------------------------------------------
(* What the queries answer *)

\* The entries of a listing that are of one file.
LEMMA MappingsType ==
  ASSUME TypeOK, NEW k \in Position, NEW f
  PROVE  /\ Mappings(connections[k], f) \subseteq Nat
         /\ Mappings(connections[k], f) # {} =>
              Min(Mappings(connections[k], f)) \in Mappings(connections[k], f)
<1> DEFINE S == Mappings(connections[k], f)
<1>1. connections[k].files_to_chunks \in Seq([filename : Files, chunk_ids : Seq(Chunks)])
  <2>1. connections[k] \in ConnectionData
    BY DEF TypeOK, Position
  <2>2. << >> \in Seq([filename : Files, chunk_ids : Seq(Chunks)])
    OBVIOUS
  <2>. QED  BY <2>1, <2>2, EntryType, MasterAssumption
<1>2. S \subseteq Nat
  BY <1>1 DEF Mappings
<1>3. ASSUME S # {} PROVE Min(S) \in S
  <2> HIDE DEF S
  <2>1. \E n \in S : \A m \in S : n <= m
    BY <1>2, <1>3, SmallestExists
  <2>. QED  BY <2>1 DEF Min
<1>. QED  BY <1>2, <1>3

\* An answer names the address of each of its entries and nothing else.
LEMMA AddressesOfProperties ==
  ASSUME TypeOK, NEW E \in SUBSET Position
  PROVE  /\ ToSet(AddressesOf(E)) = {Address(k) : k \in E}
         /\ AddressesOf(E) = << >> <=> E = {}
         /\ (\A j, k \in E : Address(j) = Address(k) => j = k) => IsInjective(AddressesOf(E))
<1> DEFINE order == InOrder(E)
           n == Len(order)
<1>0. E \subseteq Nat
  BY DEF Position
<1>1. /\ order \in Seq(E) /\ Increasing(order) /\ Range(order) = E
      /\ n \in Nat /\ DOMAIN order = 1..n
  <2>1. Len(connections) + 1 \in Nat /\ E \subseteq 0..((Len(connections) + 1) - 1)
    BY DEF TypeOK, Position
  <2>2. order \in Seq(E) /\ Increasing(order) /\ Range(order) = E
    BY <2>1, InOrderProperties
  <2> HIDE DEF order
  <2>. QED  BY <2>2
<1>2. AddressesOf(E) = [i \in 1..n |-> Address(order[i])]
  BY DEF AddressesOf
<1> DEFINE answer == [i \in 1..n |-> Address(order[i])]
<1> HIDE DEF order, n
<1>3. \A i \in 1..n : order[i] \in E /\ \A k \in E : \E j \in 1..n : order[j] = k
  BY <1>1 DEF Range, n
<1>4. ToSet(answer) = {Address(k) : k \in E}
  BY <1>1, <1>3 DEF ToSet, Range
<1>5. answer = << >> <=> E = {}
  BY <1>1 DEF Range
<1>6. ASSUME \A j, k \in E : Address(j) = Address(k) => j = k
      PROVE  IsInjective(answer)
  <2>. SUFFICES ASSUME NEW i \in 1..n, NEW j \in 1..n, answer[i] = answer[j], i # j
       PROVE  FALSE
    BY DEF IsInjective
  <2>1. order[i] = order[j]
    BY <1>1, <1>6
  <2>2. order[i] \in Nat
    BY <1>0, <1>3
  <2>3. i < j \/ j < i
    OBVIOUS
  <2>. QED  BY <1>1, <2>1, <2>2, <2>3 DEF Increasing
<1>. QED  BY <1>2, <1>4, <1>5, <1>6

\* The entries whose addresses an answer gives, the first of those that share one.
First(E) == {k \in E : \A j \in E : Address(j) = Address(k) => k <= j}

LEMMA FirstProperties ==
  ASSUME TypeOK, NEW E \in SUBSET Position
  PROVE  /\ First(E) \in SUBSET Position
         /\ E # {} => First(E) # {}
         /\ \A j, k \in First(E) : Address(j) = Address(k) => j = k
<1>1. E \subseteq Nat
  BY DEF Position
<1>2. ASSUME E # {} PROVE First(E) # {}
  <2>1. PICK n \in E : \A m \in E : n <= m
    BY <1>1, <1>2, SmallestExists
  <2>. QED  BY <2>1 DEF First
<1>3. ASSUME NEW j \in First(E), NEW k \in First(E), Address(j) = Address(k)
      PROVE  j = k
  <2>1. j <= k /\ k <= j /\ j \in Nat /\ k \in Nat
    BY <1>1, <1>3 DEF First
  <2>. QED  BY <2>1
<1>. QED  BY <1>2, <1>3 DEF First

\* For any number of servers and whatever they report, twice or of a file in
\* several entries: what one query of the master shows another one can locate,
\* at servers that are registered, each once.
THEOREM QueriesAgree == Spec => []AnswersAgree
<1>0. TypeOK => ToSet(connections) = {connections[k] : k \in Position}
  BY DEF ToSet, Position, TypeOK
<1>1. ASSUME TypeOK, NEW f \in Files
      PROVE  f \in get_file_list <=> get_file_locations(f) # << >>
  <2> DEFINE E == {k \in Position : Mappings(connections[k], f) # {}}
  <2>1. get_file_locations(f) # << >> <=> E # {}
    BY <1>1, AddressesOfProperties DEF get_file_locations, Position
  <2>2. f \in get_file_list <=> \E k \in Position : Mappings(connections[k], f) # {}
    <3>1. f \in get_file_list
            <=> \E k \in Position : \E m \in 1..Len(connections[k].files_to_chunks) :
                  connections[k].files_to_chunks[m].filename = f
      BY <1>0, <1>1 DEF get_file_list
    <3>. QED  BY <3>1 DEF Mappings, Mapping
  <2>. QED  BY <2>1, <2>2
<1>2. ASSUME TypeOK, NEW f, NEW id
      PROVE  /\ Holders(f, id) \in SUBSET Position
             /\ get_location(f, id) = AddressesOf(First(Holders(f, id)))
  BY DEF Holders, Position, get_location, First
<1>3. ASSUME TypeOK, NEW f \in Files, NEW id \in get_chunks_for_file(f)
      PROVE  get_location(f, id) # << >>
  <2>1. PICK k \in Position :
          /\ Mappings(connections[k], f) # {}
          /\ id \in ChunkIds(connections[k], Min(Mappings(connections[k], f)))
    BY <1>0, <1>3 DEF get_chunks_for_file
  <2>2. Min(Mappings(connections[k], f)) \in Mappings(connections[k], f)
    BY <1>3, <2>1, MappingsType
  <2>3. k \in Holders(f, id)
    BY <2>1, <2>2 DEF Holders, Position
  <2>. QED  BY <1>2, <1>3, <2>3, FirstProperties, AddressesOfProperties
<1>4. ASSUME TypeOK, NEW f \in Files, NEW id \in Chunks
      PROVE  /\ ToSet(get_location(f, id)) \subseteq ToSet(get_file_locations(f)) \intersect Addresses
             /\ IsInjective(get_location(f, id))
  <2> DEFINE E == {k \in Position : Mappings(connections[k], f) # {}}
             H == Holders(f, id)
  <2>1. First(H) \in SUBSET Position /\ \A j, k \in First(H) : Address(j) = Address(k) => j = k
    BY <1>2, <1>4, FirstProperties
  <2>2. /\ ToSet(get_location(f, id)) = {Address(k) : k \in First(H)}
        /\ IsInjective(get_location(f, id))
    BY <1>2, <1>4, <2>1, AddressesOfProperties
  <2>3. ToSet(get_file_locations(f)) = {Address(k) : k \in E}
    BY <1>4, AddressesOfProperties DEF get_file_locations, Position
  <2>4. First(H) \subseteq E
    BY DEF First, Holders, Position
  <2>5. \A k \in Position : Address(k) \in Addresses
    BY DEF Address, Addresses, Ids, Position
  <2> HIDE DEF E, H
  <2>6. {Address(k) : k \in First(H)} \subseteq {Address(k) : k \in E} \intersect Addresses
    BY <2>1, <2>4, <2>5
  <2>. QED  BY <2>2, <2>3, <2>6
<1>5. TypeOK => AnswersAgree
  BY <1>1, <1>3, <1>4 DEF AnswersAgree
<1>. QED  BY <1>5, TypeCorrect, PTL

-----------------------------------------------------------------------------
(* The master implements Directory *)

LEMMA InitRefines == Init => Abstract!Init
  BY DEF Init, Abstract!Init, Status, Shown, Registered, Ids

LEMMA StutterRefines ==
  ASSUME Ids(connections)' = Ids(connections),
         \A d \in Connections : Shown(connections, d)' = Shown(connections, d),
         \A d \in Connections : handler'[d] = "done" <=> handler[d] = "done"
  PROVE  UNCHANGED Abstract!vars
<1>1. \A d \in Connections : Status(d)' = Status(d)
  BY DEF Status, Registered
<1>. QED  BY <1>1 DEF Abstract!vars

LEMMA ReadRefines ==
  ASSUME TypeOK, RegistryInv, NEW c \in Connections, ReadMessage(c)
  PROVE  [Abstract!Next]_(Abstract!vars)
<1> DEFINE message == Head(inbox[c])
<1>1. /\ Unique(connections) /\ handler[c] = "read"
      /\ message \in Message(c)
      /\ JoinUnderWay(c) <=> message = Join
      /\ Registered(c) => ~JoinUnderWay(c)
  BY ReadLeavesNoJoin DEF RegistryInv, ConnectionInv, ReadMessage
<1> HIDE DEF message
<1>2. CASE message.type = "join" /\ insert(c) /\ handler' = [handler EXCEPT ![c] = "joined"]
  <2>1. c \notin Ids(connections)
    BY <1>1, <1>2 DEF Message, Join, Undecodable, Health, Registered
  <2>2. /\ Ids(connections)' = Ids(connections) \union {c}
        /\ \A d \in Connections : Shown(connections, d)' = Shown(connections, d)
    <3>1. connections' = Append(connections, [connection_id |-> c, files_to_chunks |-> << >>])
      BY <1>2 DEF insert
    <3>2. connections \in Seq(ConnectionData)
      BY DEF TypeOK
    <3>3. \A d \in Connections : Shown(connections', d) = Shown(connections, d)
      BY <1>1, <2>1, <3>1, <3>2, AppendEntry
    <3>4. Ids(connections') = Ids(connections) \union {c}
      BY <1>1, <2>1, <3>1, <3>2, AppendEntry
    <3>. QED  BY <3>3, <3>4
  <2>3. Status(c) = "out" /\ Status(c)' = "in"
    BY <1>1, <2>1, <2>2 DEF Status, Registered
  <2>4. \A d \in Connections \ {c} : Status(d)' = Status(d)
    BY <1>2, <2>2 DEF Status, Registered, TypeOK
  <2>5. Abstract!Enter(c)
    BY <2>2, <2>3, <2>4 DEF Abstract!Enter
  <2>. QED  BY <2>5 DEF Abstract!Next
<1>3. CASE message.type = "health" /\ update_state(c, message.file_mappings) /\ UNCHANGED handler
  <2>1. PICK r \in Reports[c] : message = Health(r)
    BY <1>1, <1>3 DEF Message, Join, Undecodable
  <2>2. update_state(c, r)
    BY <1>3, <2>1 DEF Health
  <2>3. /\ Ids(connections)' = Ids(connections)
        /\ \A d \in Connections :
             Shown(connections, d)' = IF d = c /\ Registered(c) THEN r ELSE Shown(connections, d)
    BY <1>1, <2>2, UpdateEntry
  <2>4. CASE Registered(c)
    <3>1. Status(c) = "in" /\ \A d \in Connections : Status(d)' = Status(d)
      BY <1>3, <2>3, <2>4 DEF Status, Registered
    <3>2. Abstract!Update(c)
      BY <2>3, <2>4, <3>1 DEF Abstract!Update
    <3>. QED  BY <3>2 DEF Abstract!Next
  <2>5. CASE ~Registered(c)
    BY <1>3, <2>3, <2>5, StutterRefines
  <2>. QED  BY <2>4, <2>5
<1>4. CASE UNCHANGED <<registryVars, handler, request, turns>>
  BY <1>4, StutterRefines DEF registryVars
<1>. QED  BY <1>2, <1>3, <1>4 DEF ReadMessage, message

LEMMA RemoveRefines ==
  ASSUME TypeOK, RegistryInv, NEW c \in Connections, RemoveConnection(c)
  PROVE  [Abstract!Next]_(Abstract!vars)
<1>1. /\ Unique(connections) /\ handler[c] = "remove" /\ handler'[c] = "done"
      /\ \A d \in Connections \ {c} : handler'[d] = handler[d]
  BY DEF RegistryInv, RemoveConnection, TypeOK
<1>2. /\ Ids(connections)' = Ids(connections) \ {c}
      /\ \A d \in Connections :
           Shown(connections, d)' = IF d = c THEN << >> ELSE Shown(connections, d)
  <2>1. CASE ~Registered(c) /\ UNCHANGED connections
    BY <2>1 DEF Registered, Shown
  <2>2. ASSUME NEW k \in 1..Len(connections), connections[k].connection_id = c,
               connections' = RemoveAt(connections, k)
        PROVE  /\ Ids(connections)' = Ids(connections) \ {c}
               /\ \A d \in Connections :
                    Shown(connections, d)' = IF d = c THEN << >> ELSE Shown(connections, d)
    BY <1>1, <2>2, RemoveEntry DEF TypeOK
  <2>. QED  BY <2>1, <2>2 DEF RemoveConnection, remove
<1>3. Status(c) \in {"out", "in"} /\ Status(c)' = "gone"
  BY <1>1, <1>2 DEF Status, Registered
<1>4. \A d \in Connections \ {c} : Status(d)' = Status(d)
  BY <1>1, <1>2 DEF Status, Registered
<1>5. Abstract!Leave(c)
  BY <1>2, <1>3, <1>4 DEF Abstract!Leave
<1>. QED  BY <1>5 DEF Abstract!Next

LEMMA NextRefines ==
  ASSUME TypeOK, RegistryInv, [Next]_vars
  PROVE  [Abstract!Next]_(Abstract!vars)
<1>1. ASSUME NEW c \in Connections, ReadMessage(c) \/ RemoveConnection(c)
      PROVE  [Abstract!Next]_(Abstract!vars)
  BY <1>1, ReadRefines, RemoveRefines
<1>2. ASSUME UNCHANGED connections,
             \A d \in Connections : handler'[d] = "done" <=> handler[d] = "done"
      PROVE  [Abstract!Next]_(Abstract!vars)
  BY <1>2, StutterRefines
<1>3. ASSUME NEW c \in Connections,
             accept_connections(c) \/ SetConnState(c) \/ ReadError(c)
      PROVE  [Abstract!Next]_(Abstract!vars)
  BY <1>2, <1>3 DEF TypeOK, accept_connections, SetConnState, ReadError, registryVars
<1>4. ASSUME NEW c \in Connections,
             Sender(c) \/ PeerJoins(c) \/ PeerReports(c) \/ PeerCloses(c)
      PROVE  [Abstract!Next]_(Abstract!vars)
  BY <1>2, <1>4 DEF Sender, CheckConnState, WritePoll, PeerJoins, PeerReports, PeerCloses,
                    registryVars, taskVars
<1>5. ASSUME NEW w \in Requests, StartWrite(w) \/ increment_index_and_return_addr(w)
      PROVE  [Abstract!Next]_(Abstract!vars)
  BY <1>2, <1>5 DEF StartWrite, increment_index_and_return_addr, registryVars, taskVars
<1>6. CASE UNCHANGED vars
  BY <1>2, <1>6 DEF vars
<1>. QED  BY <1>1, <1>3, <1>4, <1>5, <1>6 DEF Next, Handler

\* For any number of connections the registry is a directory: a server enters
\* once, its entry shows only what it reported itself, and it leaves for good.
THEOREM MasterRefines == Spec => ImplementsDirectory
<1>1. TypeOK /\ RegistryInv /\ [Next]_vars => [Abstract!Next]_(Abstract!vars)
  BY NextRefines
<1>. QED
  BY <1>1, InitRefines, TypeCorrect, RegistryCorrect, PTL
     DEF Spec, ImplementsDirectory, Abstract!Spec
===============================================================================
