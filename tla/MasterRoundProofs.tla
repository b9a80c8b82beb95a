-------------------------- MODULE MasterRoundProofs --------------------------
(***************************************************************************)
(* Write requests go round the registered servers (RoundRobinFair), and one*)
(* that nothing overlaps is given as many as it asked for                  *)
(* (AloneGetsReplicas): for any number of servers, requests and replicas.  *)
(***************************************************************************)
EXTENDS MasterProofs

Count == Len(connections)

\* The position after i, for positions counted from 0.
After(n, i) == IF i + 1 = n THEN 0 ELSE i + 1

\* Position k is passed on the way round from s to i.
InArc(s, i, k) == IF s <= i THEN s <= k /\ k <= i ELSE s <= k \/ k <= i

IdAt(k) == connections[k + 1].connection_id

\* The servers picked in a round that began at s are those from s to the index,
\* and there is one left.
RoundFrom(s) ==
  /\ index_to_write \in 0..(Count - 1)
  /\ s # After(Count, index_to_write)
  /\ \A k \in 0..(Count - 1) : turns[IdAt(k)] = IF InArc(s, index_to_write, k) THEN 1 ELSE 0
  /\ \A c \in Connections : ~Registered(c) => turns[c] = 0

RoundInv == turns = NoTurns \/ \E s \in 0..(Count - 1) : RoundFrom(s)

-----------------------------------------------------------------------------
(* Going round *)

LEMMA NextIsAfter ==
  ASSUME NEW n \in Nat, n > 0, NEW i \in 0..(n - 1)
  PROVE  (i + 1) % n = After(n, i)
<1>1. CASE i + 1 = n
  <2>1. n % n = 0
    OBVIOUS
  <2>. QED  BY <1>1, <2>1 DEF After
<1>2. CASE i + 1 < n
  <2>1. \A m \in Nat : m < n => m % n = m
    OBVIOUS
  <2>. QED  BY <1>2, <2>1 DEF After
<1>. QED  BY <1>1, <1>2

\* An arc that does not go all the way round does not pass the position after
\* its end, and grows by exactly that one.
LEMMA ArcGrows ==
  ASSUME NEW n \in Nat, n > 0, NEW s \in 0..(n - 1), NEW i \in 0..(n - 1), s # After(n, i)
  PROVE  /\ After(n, i) \in 0..(n - 1)
         /\ ~InArc(s, i, After(n, i))
         /\ \A k \in 0..(n - 1) : InArc(s, After(n, i), k) <=> InArc(s, i, k) \/ k = After(n, i)
  BY DEF After, InArc

LEMMA ArcIsFull ==
  ASSUME NEW n \in Nat, n > 0, NEW i \in 0..(n - 1)
  PROVE  \A k \in 0..(n - 1) : InArc(After(n, i), i, k)
  BY DEF After, InArc

LEMMA PositionOf ==
  ASSUME TypeOK, Unique(connections)
  PROVE  /\ Count \in Nat
         /\ \A k \in 0..(Count - 1) : IdAt(k) \in Connections /\ Registered(IdAt(k))
         /\ \A c \in Connections : Registered(c) => \E k \in 0..(Count - 1) : IdAt(k) = c
         /\ \A j, k \in 0..(Count - 1) : IdAt(j) = IdAt(k) => j = k
<1>1. Count \in Nat
  BY DEF TypeOK, Count
<1>2. ASSUME NEW k \in 0..(Count - 1)
      PROVE  k + 1 \in 1..Count /\ IdAt(k) \in Connections /\ Registered(IdAt(k))
  <2>1. k + 1 \in 1..Count
    BY <1>1
  <2>2. connections[k + 1] \in ConnectionData
    BY <2>1 DEF TypeOK, Count
  <2>. QED  BY <2>1, <2>2, EntryType DEF IdAt, Registered, Ids, Count
<1>3. ASSUME NEW c \in Connections, Registered(c)
      PROVE  \E k \in 0..(Count - 1) : IdAt(k) = c
  <2>1. PICK p \in 1..Count : connections[p].connection_id = c
    BY <1>3 DEF Registered, Ids, Count
  <2>2. p - 1 \in 0..(Count - 1) /\ (p - 1) + 1 = p
    BY <1>1
  <2>. QED  BY <2>1, <2>2 DEF IdAt
<1>4. ASSUME NEW j \in 0..(Count - 1), NEW k \in 0..(Count - 1), IdAt(j) = IdAt(k)
      PROVE  j = k
  <2>1. j + 1 = k + 1
    BY <1>2, <1>4 DEF Unique, IdAt, Count
  <2>. QED  BY <1>1, <2>1
<1>. QED  BY <1>1, <1>2, <1>3, <1>4

-----------------------------------------------------------------------------
(* A pick *)

LEMMA PickKeepsRound ==
  ASSUME TypeOK, Unique(connections), RoundInv, connections # << >>, UNCHANGED connections,
         index_to_write' = next_index, TakeTurn(connections[next_index + 1].connection_id)
  PROVE  RoundInv'
<1> DEFINE n == Count
           p == next_index
           c == IdAt(p)
           taken == [turns EXCEPT ![c] = @ + 1]
<1>1. /\ n \in Nat /\ n > 0
      /\ \A k \in 0..(n - 1) : IdAt(k) \in Connections /\ Registered(IdAt(k))
      /\ \A d \in Connections : Registered(d) => \E k \in 0..(n - 1) : IdAt(k) = d
      /\ \A j, k \in 0..(n - 1) : IdAt(j) = IdAt(k) => j = k
  BY PositionOf DEF TypeOK, Count
<1>2. p \in 0..(n - 1)
  BY NextIndexInRange DEF Position, Count, TypeOK
<1>3. turns' = IF \A d \in Ids(connections) : taken[d] > 0
               THEN [d \in Connections |-> IF Registered(d) THEN taken[d] - 1 ELSE 0]
               ELSE taken
  BY DEF TakeTurn, IdAt
<1>4. /\ c \in Connections /\ Registered(c)
      /\ turns \in [Connections -> Nat]
  BY <1>1, <1>2 DEF TypeOK
<1>5. /\ taken \in [Connections -> Nat] /\ taken[c] = turns[c] + 1
      /\ \A d \in Connections \ {c} : taken[d] = turns[d]
  BY <1>4
<1>6. Count' = n /\ index_to_write' = p /\ \A k \in 0..(n - 1) : IdAt(k)' = IdAt(k)
  BY DEF Count, IdAt
<1>7. \A d \in Connections : Registered(d)' <=> Registered(d)
  BY DEF Registered
<1> HIDE DEF n, p, taken
\* The arc from s to the picked position: it is the round, or the round is over.
<1>8. ASSUME NEW s \in 0..(n - 1),
             \A k \in 0..(n - 1) : taken[IdAt(k)] = IF InArc(s, p, k) THEN 1 ELSE 0,
             \A d \in Connections : ~Registered(d) => taken[d] = 0
      PROVE  RoundInv'
  <2>1. CASE s = After(n, p)
    <3>1. \A k \in 0..(n - 1) : taken[IdAt(k)] = 1
      BY <1>1, <1>2, <1>8, <2>1, ArcIsFull
    <3>2. \A d \in Connections : Registered(d) => taken[d] = 1
      BY <1>1, <3>1
    <3>3. \A d \in Ids(connections) : d \in Connections
      BY EntryType DEF Ids, TypeOK
    <3>4. turns' = [d \in Connections |-> IF Registered(d) THEN taken[d] - 1 ELSE 0]
      BY <1>3, <3>2, <3>3 DEF Registered
    <3>5. turns' = NoTurns
      BY <3>2, <3>4 DEF NoTurns
    <3>. QED  BY <3>5 DEF RoundInv, NoTurns
  <2>2. CASE s # After(n, p)
    <3>1. After(n, p) \in 0..(n - 1) /\ ~InArc(s, p, After(n, p))
      BY <1>1, <1>2, <2>2, ArcGrows
    <3>2. Registered(IdAt(After(n, p))) /\ ~(taken[IdAt(After(n, p))] > 0)
      BY <1>1, <1>8, <3>1
    <3>3. turns' = taken
      BY <1>3, <3>2 DEF Registered
    <3>4. RoundFrom(s)'
      BY <1>2, <1>6, <1>7, <1>8, <2>2, <3>3 DEF RoundFrom
    <3>. QED  BY <1>6, <3>4 DEF RoundInv
  <2>. QED  BY <2>1, <2>2
<1>9. CASE turns = NoTurns
  <2>1. \A d \in Connections : turns[d] = 0
    BY <1>9 DEF NoTurns
  <2>2. ASSUME NEW k \in 0..(n - 1)
        PROVE  taken[IdAt(k)] = IF InArc(p, p, k) THEN 1 ELSE 0
    <3>1. InArc(p, p, k) <=> k = p
      BY <1>1, <1>2 DEF InArc
    <3>2. IdAt(k) = c <=> k = p
      BY <1>1, <1>2
    <3>. QED  BY <1>1, <1>4, <1>5, <2>1, <3>1, <3>2
  <2>3. \A d \in Connections : ~Registered(d) => taken[d] = 0
    BY <1>4, <1>5, <2>1
  <2>. QED  BY <1>2, <1>8, <2>2, <2>3
<1>10. ASSUME NEW s \in 0..(n - 1), RoundFrom(s)
       PROVE  RoundInv'
  <2> DEFINE i == index_to_write
  <2>1. /\ i \in 0..(n - 1) /\ s # After(n, i)
        /\ \A k \in 0..(n - 1) : turns[IdAt(k)] = IF InArc(s, i, k) THEN 1 ELSE 0
        /\ \A d \in Connections : ~Registered(d) => turns[d] = 0
    BY <1>10 DEF RoundFrom, n
  <2>2. p = After(n, i)
    BY <1>1, <2>1, NextIsAfter DEF next_index, n, p, Count
  <2>3. ASSUME NEW k \in 0..(n - 1)
        PROVE  taken[IdAt(k)] = IF InArc(s, p, k) THEN 1 ELSE 0
    <3>1. ~InArc(s, i, p) /\ (InArc(s, p, k) <=> InArc(s, i, k) \/ k = p)
      BY <1>1, <2>1, <2>2, ArcGrows
    <3>2. IdAt(k) = c <=> k = p
      BY <1>1, <1>2
    <3>3. CASE k = p
      BY <1>5, <2>1, <3>1, <3>3
    <3>4. CASE k # p
      BY <1>1, <1>5, <2>1, <3>1, <3>2, <3>4
    <3>. QED  BY <3>3, <3>4
  <2>4. \A d \in Connections : ~Registered(d) => taken[d] = 0
    BY <1>4, <1>5, <2>1
  <2>. QED  BY <1>8, <2>3, <2>4
<1>. QED  BY <1>9, <1>10 DEF RoundInv, n

-----------------------------------------------------------------------------
(* Every step *)

LEMMA RoundUntouched ==
  ASSUME RoundInv, UNCHANGED <<index_to_write, turns>>, Count' = Count,
         \A k \in 0..(Count - 1) : IdAt(k)' = IdAt(k),
         \A c \in Connections : Registered(c)' <=> Registered(c)
  PROVE  RoundInv'
<1>1. ASSUME NEW s \in 0..(Count - 1), RoundFrom(s)
      PROVE  RoundFrom(s)'
  BY <1>1 DEF RoundFrom
<1>. QED  BY <1>1 DEF RoundInv, NoTurns

\* What a step is to the writes: a change of membership, a pass of a request, or
\* nothing, although a report may change what a server shows.
SameServers ==
  /\ Count' = Count
  /\ connections' = << >> <=> connections = << >>
  /\ \A k \in 0..(Count - 1) : IdAt(k)' = IdAt(k)
  /\ \A c \in Connections : Registered(c)' <=> Registered(c)
  /\ UNCHANGED <<index_to_write, turns>>

LEMMA StepKinds ==
  ASSUME TypeOK, RegistryInv, [Next]_vars
  PROVE  \/ MembershipChanges
         \/ (SameServers /\ UNCHANGED request)
         \/ \E w \in Requests : StartWrite(w) \/ increment_index_and_return_addr(w)
<1>0. Unique(connections)
  BY DEF RegistryInv
<1>1. UNCHANGED <<connections, index_to_write, turns>> => SameServers
  BY DEF SameServers, Count, IdAt, Registered
<1>2. ASSUME NEW c \in Connections, ReadMessage(c)
      PROVE  MembershipChanges \/ (SameServers /\ UNCHANGED request)
  <2> DEFINE message == Head(inbox[c])
  <2>1. message \in Message(c)
    BY <1>2, ReadLeavesNoJoin
  <2> HIDE DEF message
  <2>2. CASE insert(c)
    BY <2>2 DEF insert
  <2>3. CASE message.type = "health" /\ update_state(c, message.file_mappings)
    <3>1. PICK r \in Reports[c] : message = Health(r)
      BY <2>1, <2>3 DEF Message, Join, Undecodable
    <3>2. update_state(c, r)
      BY <2>3, <3>1 DEF Health
    <3>3. /\ Count' = Count /\ Ids(connections)' = Ids(connections)
          /\ connections \in Seq(ConnectionData) /\ connections' \in Seq(ConnectionData)
          /\ \A k \in 1..Count : connections'[k].connection_id = connections[k].connection_id
      BY <1>0, <3>2, UpdateProperties, UpdateEntry DEF Count, Position, TypeOK
    <3>4. \A k \in 0..(Count - 1) : IdAt(k)' = IdAt(k)
      BY <3>3 DEF IdAt, Count
    <3>5. connections' = << >> <=> connections = << >>
      BY <3>3 DEF Count
    <3>. QED  BY <3>2, <3>3, <3>4, <3>5 DEF SameServers, update_state, Registered
  <2>4. CASE UNCHANGED <<registryVars, handler, request, turns>>
    BY <1>1, <2>4 DEF registryVars
  <2>. QED  BY <1>2, <2>2, <2>3, <2>4 DEF ReadMessage, message
<1>3. ASSUME NEW c \in Connections, RemoveConnection(c)
      PROVE  MembershipChanges
  BY <1>3 DEF RemoveConnection, remove
<1>4. ASSUME NEW c \in Connections,
             \/ accept_connections(c) \/ SetConnState(c) \/ ReadError(c) \/ Sender(c)
             \/ PeerJoins(c) \/ PeerReports(c) \/ PeerCloses(c)
      PROVE  SameServers /\ UNCHANGED request
  BY <1>1, <1>4
     DEF accept_connections, SetConnState, ReadError, Sender, CheckConnState, WritePoll,
         PeerJoins, PeerReports, PeerCloses, registryVars
<1>5. CASE UNCHANGED vars
  BY <1>1, <1>5 DEF vars
<1>. QED  BY <1>2, <1>3, <1>4, <1>5 DEF Next, Handler

LEMMA RoundInvNext ==
  ASSUME TypeOK, RegistryInv, RoundInv, [Next]_vars
  PROVE  RoundInv'
<1>1. CASE MembershipChanges
  BY <1>1 DEF MembershipChanges, RoundInv, NoTurns
<1>2. CASE SameServers
  BY <1>2, RoundUntouched DEF SameServers
<1>3. ASSUME NEW w \in Requests, StartWrite(w) \/ increment_index_and_return_addr(w)
      PROVE  RoundInv'
  <2>1. CASE UNCHANGED <<registryVars, turns>>
    BY <2>1, RoundUntouched DEF registryVars, Count, IdAt, Registered
  <2>2. CASE /\ connections # << >> /\ UNCHANGED connections /\ index_to_write' = next_index
             /\ TakeTurn(connections[next_index + 1].connection_id)
    BY <2>2, PickKeepsRound DEF RegistryInv
  <2>. QED  BY <1>3, <2>1, <2>2 DEF StartWrite, increment_index_and_return_addr
<1>. QED  BY <1>1, <1>2, <1>3, StepKinds

\* For any number of servers, requests under way and replicas: between two
\* changes of membership no server is picked twice before all have been picked,
\* wherever a removal left the index.
THEOREM PicksGoRound == Spec => []RoundRobinFair
<1>1. Init => RoundInv
  BY DEF Init, RoundInv
<1>2. TypeOK /\ RegistryInv /\ RoundInv /\ [Next]_vars => RoundInv'
  BY RoundInvNext
<1>3. TypeOK /\ RegistryInv /\ RoundInv => RoundRobinFair
  <2>. SUFFICES ASSUME TypeOK, Unique(connections), RoundInv, NEW c \in Connections
       PROVE  turns[c] <= 1
    BY DEF RegistryInv, RoundRobinFair
  <2>1. CASE turns = NoTurns
    BY <2>1 DEF NoTurns
  <2>2. ASSUME NEW s \in 0..(Count - 1), RoundFrom(s)
        PROVE  turns[c] <= 1
    BY <2>2, PositionOf DEF RoundFrom
  <2>. QED  BY <2>1, <2>2 DEF RoundInv
<1>. QED  BY <1>1, <1>2, <1>3, TypeCorrect, RegistryCorrect, PTL DEF Spec

-----------------------------------------------------------------------------
(* What a write request that nothing overlaps is given *)

\* The position that j picks before the index stood at i.
Back(n, i, j) == IF j <= i THEN i - j ELSE i - j + n

\* The addresses of the last m picks, or all there are.
LastPicked(m) ==
  {Ip[IdAt(Back(Count, index_to_write, j))] : j \in {x \in 0..(Count - 1) : x < m}}

\* A request nothing overlapped has been given the servers that were picked last,
\* one for every pass of its loop.
AloneInv ==
  \A w \in Requests : request[w].alone =>
    IF request[w].i = 0 \/ connections = << >>
    THEN request[w].picked = {}
    ELSE index_to_write \in 0..(Count - 1) /\ request[w].picked = LastPicked(request[w].i)

LEMMA GoingBack ==
  ASSUME NEW n \in Nat, n > 0, NEW i \in 0..(n - 1)
  PROVE  /\ After(n, i) \in 0..(n - 1)
         /\ Back(n, i, 0) = i
         /\ Back(n, i, n - 1) = After(n, i)
         /\ \A j \in 0..(n - 1) : Back(n, i, j) \in 0..(n - 1)
         /\ \A j, k \in 0..(n - 1) : Back(n, i, j) = Back(n, i, k) => j = k
         /\ \A j \in 1..(n - 1) : Back(n, After(n, i), j) = Back(n, i, j - 1)
  BY DEF After, Back

\* A pick puts one server in front of those picked before.
LEMMA PickExtends ==
  ASSUME TypeOK, connections # << >>, UNCHANGED connections, index_to_write' = next_index,
         NEW m \in Nat, m > 0 => index_to_write \in 0..(Count - 1)
  PROVE  /\ index_to_write' \in 0..(Count' - 1)
         /\ LastPicked(m + 1)' =
              (IF m = 0 THEN {} ELSE LastPicked(m)) \union {Ip[IdAt(next_index)]}
<1> DEFINE n == Count
           i == index_to_write
           p == next_index
<1>1. n \in Nat /\ n > 0
  BY DEF TypeOK, Count
<1>2. p \in 0..(n - 1)
  BY NextIndexInRange DEF Position, Count, TypeOK
<1>3. Count' = n /\ index_to_write' = p /\ \A k : IdAt(k)' = IdAt(k)
  BY DEF Count, IdAt
<1>4. LastPicked(m + 1)' = {Ip[IdAt(Back(n, p, j))] : j \in {x \in 0..(n - 1) : x < m + 1}}
  BY <1>3 DEF LastPicked, IdAt, Count
<1>5. m > 0 => i \in 0..(n - 1) /\ p = After(n, i)
  BY <1>1, NextIsAfter DEF next_index, Count
<1>6. LastPicked(m) = {Ip[IdAt(Back(n, i, j))] : j \in {x \in 0..(n - 1) : x < m}}
  BY DEF LastPicked
<1> HIDE DEF n, i, p
<1>7. Back(n, p, 0) = p
  BY <1>1, <1>2, GoingBack
<1>8. CASE m = 0
  <2>1. {x \in 0..(n - 1) : x < m + 1} = {0}
    BY <1>1, <1>8
  <2>. QED  BY <1>2, <1>3, <1>4, <1>7, <1>8, <2>1 DEF p
<1>9. CASE m > 0
  <2> DEFINE old == {x \in 0..(n - 1) : x < m}
             new == {x \in 0..(n - 1) : x < m + 1}
             at(k) == Ip[IdAt(k)]
  <2>0. /\ p = After(n, i)
        /\ Back(n, i, n - 1) = p
        /\ \A j \in 1..(n - 1) : Back(n, p, j) = Back(n, i, j - 1)
    BY <1>1, <1>5, <1>9, GoingBack
  <2> HIDE DEF at
  <2>1. ASSUME NEW j \in new
        PROVE  at(Back(n, p, j)) \in {at(Back(n, i, k)) : k \in old} \union {at(p)}
    <3>1. CASE j = 0
      BY <1>7, <3>1
    <3>2. CASE j # 0
      <4>1. j \in 1..(n - 1) /\ j - 1 \in old
        BY <1>1, <1>9, <3>2
      <4>. QED  BY <2>0, <4>1
    <3>. QED  BY <3>1, <3>2
  <2>2. at(p) \in {at(Back(n, p, j)) : j \in new}
    <3>1. 0 \in new
      BY <1>1, <1>9
    <3>. QED  BY <1>7, <3>1
  <2>3. ASSUME NEW k \in old
        PROVE  at(Back(n, i, k)) \in {at(Back(n, p, j)) : j \in new}
    <3>1. CASE k = n - 1
      BY <2>0, <2>2, <3>1
    <3>2. CASE k # n - 1
      <4>1. k + 1 \in 1..(n - 1) /\ k + 1 \in new /\ (k + 1) - 1 = k
        BY <1>1, <3>2
      <4>2. Back(n, p, k + 1) = Back(n, i, k)
        BY <2>0, <4>1
      <4>. QED  BY <4>1, <4>2
    <3>. QED  BY <3>1, <3>2
  <2>4. {at(Back(n, p, j)) : j \in new} = {at(Back(n, i, k)) : k \in old} \union {at(p)}
    BY <2>1, <2>2, <2>3
  <2>5. LastPicked(m + 1)' = LastPicked(m) \union {at(p)}
    BY <1>4, <1>6, <2>4 DEF at
  <2>. QED  BY <1>2, <1>3, <1>9, <2>5 DEF at, p
<1>. QED  BY <1>8, <1>9

LEMMA AloneUntouched ==
  ASSUME AloneInv, Count \in Nat, Count' = Count,
         UNCHANGED <<index_to_write, request>>,
         connections' = << >> <=> connections = << >>,
         \A k \in 0..(Count - 1) : IdAt(k)' = IdAt(k)
  PROVE  AloneInv'
<1>. SUFFICES ASSUME NEW w \in Requests, request[w].alone, request[w].i # 0, connections # << >>,
                     index_to_write \in 0..(Count - 1)
     PROVE  LastPicked(request[w].i)' = LastPicked(request[w].i)
  BY DEF AloneInv
<1> DEFINE n == Count
           i == index_to_write
           passed == {x \in 0..(n - 1) : x < request[w].i}
<1>1. LastPicked(request[w].i)' = {Ip[connections'[Back(n, i, j) + 1].connection_id] : j \in passed}
  BY DEF LastPicked, IdAt
<1>2. LastPicked(request[w].i) = {Ip[connections[Back(n, i, j) + 1].connection_id] : j \in passed}
  BY DEF LastPicked, IdAt
<1>3. ASSUME NEW k \in 0..(n - 1)
      PROVE  connections'[k + 1].connection_id = connections[k + 1].connection_id
  BY DEF IdAt
<1>4. ASSUME NEW j \in passed
      PROVE  Back(n, i, j) \in 0..(n - 1)
  BY GoingBack
<1> HIDE DEF n, i, passed
<1>5. \A j \in passed : connections'[Back(n, i, j) + 1].connection_id
                          = connections[Back(n, i, j) + 1].connection_id
  BY <1>3, <1>4
<1>. QED  BY <1>1, <1>2, <1>5

LEMMA PassKeepsAlone ==
  ASSUME TypeOK, AloneInv, NEW w \in Requests, increment_index_and_return_addr(w)
  PROVE  AloneInv'
<1> DEFINE m == request[w].i
<1>1. /\ request \in [Requests -> [i : 0..replication_factor, picked : SUBSET {Ip[c] : c \in Connections},
                                  alone : BOOLEAN]]
      /\ m \in Nat
  BY MasterAssumption DEF TypeOK
<1>2. CASE connections = << >>
  <2>1. /\ UNCHANGED connections
        /\ request' = [request EXCEPT ![w].i = @ + 1]
    BY <1>2 DEF increment_index_and_return_addr, registryVars
  <2>2. \A v \in Requests : request'[v].alone = request[v].alone
                            /\ request'[v].picked = request[v].picked
    BY <1>1, <2>1
  <2>. QED  BY <1>2, <2>1, <2>2 DEF AloneInv
<1>3. CASE connections # << >>
  <2> DEFINE c == connections[next_index + 1].connection_id
  <2>1. /\ UNCHANGED connections /\ index_to_write' = next_index
        /\ request' = [v \in Requests |->
             IF v = w
             THEN [request[w] EXCEPT !.i = @ + 1, !.picked = @ \union {Ip[c]}]
             ELSE [request[v] EXCEPT !.alone = FALSE]]
    BY <1>3 DEF increment_index_and_return_addr
  <2>2. /\ request'[w].i = m + 1 /\ request'[w].alone = request[w].alone
        /\ request'[w].picked = request[w].picked \union {Ip[c]}
        /\ \A v \in Requests \ {w} : ~request'[v].alone
    BY <1>1, <2>1
  <2>3. ASSUME request[w].alone
        PROVE  /\ index_to_write' \in 0..(Count' - 1)
               /\ request'[w].picked = LastPicked(request[w].i)'
    <3>1. m > 0 => index_to_write \in 0..(Count - 1)
      BY <1>3, <2>3 DEF AloneInv
    <3>2. PICK k : k = m
      OBVIOUS
    <3>3. /\ index_to_write' \in 0..(Count' - 1)
          /\ LastPicked(k + 1)' = (IF k = 0 THEN {} ELSE LastPicked(k)) \union {Ip[c]}
      BY <1>1, <1>3, <2>1, <3>1, <3>2, PickExtends DEF IdAt
    <3>4. request[w].picked = IF k = 0 THEN {} ELSE LastPicked(k)
      BY <1>3, <2>3, <3>2 DEF AloneInv
    <3>5. request'[w].i = k + 1
      BY <2>2, <3>2
    <3>6. LastPicked(request[w].i)' = LastPicked(k + 1)'
      BY <3>5 DEF LastPicked
    <3>. QED  BY <2>2, <3>3, <3>4, <3>6
  <2>4. ASSUME NEW v \in Requests, request'[v].alone
        PROVE  index_to_write' \in 0..(Count' - 1) /\ request'[v].picked = LastPicked(request[v].i)'
    <3>1. v = w
      BY <2>2, <2>4
    <3>. QED  BY <2>2, <2>3, <2>4, <3>1
  <2>5. ~(request'[w].i = 0) /\ connections' # << >>
    BY <1>1, <1>3, <2>1, <2>2
  <2>6. \A v \in Requests : request'[v].alone => v = w
    BY <2>2
  <2>. QED  BY <2>4, <2>5, <2>6 DEF AloneInv
<1>. QED  BY <1>2, <1>3

LEMMA AloneInvNext ==
  ASSUME TypeOK, RegistryInv, AloneInv, [Next]_vars
  PROVE  AloneInv'
<1>0. Count \in Nat
  BY DEF TypeOK, Count
<1>1. CASE MembershipChanges
  <2>1. \A w \in Requests : ~request'[w].alone
    BY <1>1 DEF MembershipChanges, TypeOK
  <2>. QED  BY <2>1 DEF AloneInv
<1>2. CASE SameServers /\ UNCHANGED request
  BY <1>0, <1>2, AloneUntouched DEF SameServers
<1>3. ASSUME NEW w \in Requests, StartWrite(w)
      PROVE  AloneInv'
  <2>1. /\ UNCHANGED <<connections, index_to_write>>
        /\ request' = [request EXCEPT ![w] = [i |-> 0, picked |-> {}, alone |-> TRUE]]
    BY <1>3 DEF StartWrite, registryVars
  <2>2. /\ request'[w].i = 0 /\ request'[w].picked = {}
        /\ \A v \in Requests \ {w} : request'[v] = request[v]
    BY <2>1 DEF TypeOK
  <2>3. ASSUME NEW v \in Requests \ {w}, request'[v].alone
        PROVE  IF request'[v].i = 0 \/ connections' = << >>
               THEN request'[v].picked = {}
               ELSE /\ index_to_write' \in 0..(Count' - 1)
                    /\ request'[v].picked = LastPicked(request[v].i)'
    <3>1. PICK k : k = request[v].i
      OBVIOUS
    <3>2. LastPicked(request[v].i)' = LastPicked(k)
      BY <2>1, <2>2, <3>1 DEF LastPicked, Count, IdAt
    <3>. QED  BY <2>1, <2>2, <2>3, <3>1, <3>2 DEF AloneInv, Count
  <2>. QED  BY <2>2, <2>3 DEF AloneInv
<1>4. ASSUME NEW w \in Requests, increment_index_and_return_addr(w)
      PROVE  AloneInv'
  BY <1>4, PassKeepsAlone
<1>. QED  BY <1>1, <1>2, <1>3, <1>4, StepKinds

\* As many servers as addresses: no address serves two of them.
LEMMA AddressesDiffer ==
  ASSUME TypeOK, Unique(connections), Cardinality(Addresses) = Count
  PROVE  \A j, k \in 0..(Count - 1) : Ip[IdAt(j)] = Ip[IdAt(k)] => j = k
<1> DEFINE n == Count
           positions == 0..(n - 1)
           f == [k \in positions |-> Ip[IdAt(k)]]
<1>1. n \in Nat
  BY DEF TypeOK, Count
<1>2. IsFiniteSet(positions) /\ Cardinality(positions) = n
  <2>1. 0 \in Int /\ n - 1 \in Int
    BY <1>1
  <2>2. IsFiniteSet(positions) /\ Cardinality(positions) = IF 0 > n - 1 THEN 0 ELSE (n - 1) - 0 + 1
    BY <2>1, FS_Interval
  <2>. QED  BY <1>1, <2>2
<1>3. Addresses = {Ip[IdAt(k)] : k \in positions}
  <2>1. \A c \in Ids(connections) : c \in Connections
    BY EntryType DEF Ids, TypeOK
  <2>2. \A c : c \in Ids(connections) <=> \E k \in positions : c = IdAt(k)
    BY <2>1, PositionOf DEF Registered
  <2>. QED  BY <2>2 DEF Addresses
<1>4. f \in Surjection(positions, Addresses)
  BY <1>3 DEF Surjection
<1>5. f \in Injection(positions, Addresses)
  <2> HIDE DEF f, positions
  <2>1. Cardinality(Addresses) = Cardinality(positions)
    BY <1>2 DEF n
  <2>. QED  BY <1>2, <1>4, <2>1, FS_Surjection, Zenon
<1>. QED  BY <1>5 DEF Injection, IsInjective

LEMMA MinOf ==
  ASSUME NEW a \in Nat, NEW b \in Nat
  PROVE  Min({a, b}) = IF a <= b THEN a ELSE b
<1>. QED  BY DEF Min

\* The last m picks went to m servers, or to all.
LEMMA LastPickedCount ==
  ASSUME TypeOK, Unique(connections), Cardinality(Addresses) = Count, Count > 0,
         index_to_write \in 0..(Count - 1), NEW m \in Nat
  PROVE  Cardinality(LastPicked(m)) = Min({m, Count})
<1> DEFINE n == Count
           k == Min({m, n})
           passed == {x \in 0..(n - 1) : x < m}
           f == [j \in 1..k |-> Ip[IdAt(Back(n, index_to_write, j - 1))]]
<1>1. n \in Nat
  BY DEF TypeOK, Count
<1>2. k \in Nat /\ k = IF m <= n THEN m ELSE n
  BY <1>1, MinOf
<1>3. /\ \A j \in 0..(n - 1) : Back(n, index_to_write, j) \in 0..(n - 1)
      /\ \A i, j \in 0..(n - 1) :
           Back(n, index_to_write, i) = Back(n, index_to_write, j) => i = j
  BY <1>1, GoingBack
<1>4. \A i, j \in 0..(n - 1) : Ip[IdAt(i)] = Ip[IdAt(j)] => i = j
  BY AddressesDiffer
<1>5. LastPicked(m) = {Ip[IdAt(Back(n, index_to_write, j))] : j \in passed}
  BY DEF LastPicked
<1> HIDE DEF n, k
<1>6. /\ \A j \in 1..k : j - 1 \in passed
      /\ \A x \in passed : x + 1 \in 1..k /\ (x + 1) - 1 = x
  BY <1>1, <1>2
<1>7. f \in [1..k -> LastPicked(m)]
  BY <1>5, <1>6
<1>8. IsInjective(f)
  <2>. SUFFICES ASSUME NEW i \in 1..k, NEW j \in 1..k, f[i] = f[j]
       PROVE  i = j
    BY DEF IsInjective
  <2>1. i - 1 \in 0..(n - 1) /\ j - 1 \in 0..(n - 1)
    BY <1>6
  <2>2. i - 1 = j - 1
    BY <1>3, <1>4, <2>1
  <2>. QED  BY <1>2, <2>2
<1>9. ASSUME NEW a \in LastPicked(m)
      PROVE  \E j \in 1..k : f[j] = a
  <2>1. PICK x \in passed : a = Ip[IdAt(Back(n, index_to_write, x))]
    BY <1>5
  <2>. QED  BY <1>6, <2>1
<1>10. f \in Bijection(1..k, LastPicked(m))
  <2> HIDE DEF f
  <2>. QED  BY <1>7, <1>8, <1>9 DEF Bijection, Injection, Surjection
<1>11. ExistsBijection(1..k, LastPicked(m))
  BY <1>10 DEF ExistsBijection
<1>. QED  BY <1>2, <1>11, FS_CountingElements DEF k, n

\* For any number of servers, requests and replicas: a write request that no
\* join, no leave and no other write came between is sent to as many servers as
\* it wants replicas, or to all there are, when no two share an address.
THEOREM AloneIsServed == Spec => []AloneGetsReplicas
<1>1. Init => AloneInv
  BY DEF Init, AloneInv, NoRequest
<1>2. TypeOK /\ RegistryInv /\ AloneInv /\ [Next]_vars => AloneInv'
  BY AloneInvNext
<1>3. TypeOK /\ RegistryInv /\ AloneInv => AloneGetsReplicas
  <2>. SUFFICES ASSUME TypeOK, Unique(connections), AloneInv, NEW w \in Requests,
                       request[w].i = replication_factor, request[w].alone,
                       Cardinality(Addresses) = Count
       PROVE  Cardinality(request[w].picked) = Min({replication_factor, Count})
    BY DEF RegistryInv, AloneGetsReplicas, Count
  <2>1. Count \in Nat /\ (Count = 0 <=> connections = << >>)
    BY DEF TypeOK, Count
  <2>2. CASE replication_factor = 0 \/ connections = << >>
    <3>1. request[w].picked = {}
      BY <2>2 DEF AloneInv
    <3>2. Min({replication_factor, Count}) = 0
      BY <2>1, <2>2, MinOf, MasterAssumption
    <3>. QED  BY <3>1, <3>2, FS_EmptySet
  <2>3. CASE ~(replication_factor = 0 \/ connections = << >>)
    <3>1. index_to_write \in 0..(Count - 1) /\ request[w].picked = LastPicked(replication_factor)
      BY <2>3 DEF AloneInv
    <3>. QED  BY <2>1, <2>3, <3>1, LastPickedCount, MasterAssumption
  <2>. QED  BY <2>2, <2>3
<1>. QED  BY <1>1, <1>2, <1>3, TypeCorrect, RegistryCorrect, PTL DEF Spec
=============================================================================
