--------------------------- MODULE LifecycleProofs ---------------------------
(***************************************************************************)
(* What holds of Lifecycle for any number of chunk servers, and of polls   *)
(* on their way to them.                                                   *)
(***************************************************************************)
EXTENDS Lifecycle, TLAPS

\* Every variable keeps its type while processes start, fail and are killed:
\* no thread or task is ever in a state its code does not have.
THEOREM TypeCorrect == Spec => []TypeOK
<1>1. Init => TypeOK
  <2>1. 0 \in 0..MaxPolls
    BY LifecycleAssumption
  <2>. QED  BY <2>1 DEF Init, TypeOK
<1>2. TypeOK /\ [Next]_vars => TypeOK'
  <2>. SUFFICES ASSUME TypeOK, [Next]_vars
       PROVE  TypeOK'
    OBVIOUS
  <2>. USE LifecycleAssumption DEF TypeOK
  <2>1. ASSUME NEW n \in Nodes, StartServer(n)
        PROVE  TypeOK'
    BY <2>1 DEF StartServer, masterVars
  <2>2. ASSUME NEW n \in Nodes, ProcessEnds(n)
        PROVE  TypeOK'
    BY <2>2 DEF ProcessEnds, masterVars
  <2>3. ASSUME NEW n \in Nodes, StartDaemon(n)
        PROVE  TypeOK'
    BY <2>3 DEF StartDaemon, HttpEnds, linkVars, masterVars
  <2>4. ASSUME NEW n \in Nodes, StopDaemon(n)
        PROVE  TypeOK'
    BY <2>4 DEF StopDaemon, HttpEnds, linkVars, masterVars
  <2>5. ASSUME NEW n \in Nodes, CheckShouldWork(n)
        PROVE  TypeOK'
    BY <2>5 DEF CheckShouldWork, TcpEnds, linkVars, masterVars
  <2>6. ASSUME NEW n \in Nodes, RecvPolls(n)
        PROVE  TypeOK'
    <3>1. PICK k \in 1..polls[n] : polls' = [polls EXCEPT ![n] = @ - k]
      BY <2>6 DEF RecvPolls
    <3>2. polls[n] - k \in 0..MaxPolls
      OBVIOUS
    <3>3. polls' \in [Nodes -> 0..MaxPolls]
      BY <3>1, <3>2
    <3>. QED  BY <2>6, <3>3 DEF RecvPolls, TcpEnds, masterVars
  <2>7. ASSUME NEW n \in Nodes, RecvFails(n)
        PROVE  TypeOK'
    BY <2>7 DEF RecvFails, TcpEnds, linkVars, masterVars
  <2>8. ASSUME NEW n \in Nodes, SendReport(n)
        PROVE  TypeOK'
    BY <2>2, <2>8 DEF SendReport, TcpEnds, linkVars, masterVars
  <2>9. ASSUME NEW n \in Nodes, Poll(n)
        PROVE  TypeOK'
    BY <2>9 DEF Poll, nodeVars, masterVars
  <2>10. CASE StartMaster \/ TcpFails \/ TcpShutdown \/ HttpFails \/ HttpShutdown \/ CtrlC
    BY <2>10 DEF StartMaster, TcpFails, TcpShutdown, HttpFails, HttpShutdown, CtrlC,
                 nodeVars, linkVars
  <2>11. ASSUME NEW branch \in {"none", "tcp", "http"}, Select(branch)
         PROVE  TypeOK'
    BY <2>11 DEF Select, nodeVars, linkVars
  <2>12. CASE JoinHandles \/ KillMaster
    BY <2>12 DEF JoinHandles, KillMaster, MasterEnds, nodeVars
  <2>13. CASE UNCHANGED vars
    BY <2>13 DEF vars
  <2>. QED
    BY <2>1, <2>2, <2>3, <2>4, <2>5, <2>6, <2>7, <2>8, <2>9, <2>10, <2>11, <2>12, <2>13
       DEF Next, HttpThread, TcpThread, MainTask, Cleanup, Kill
<1>. QED  BY <1>1, <1>2, PTL DEF Spec

-----------------------------------------------------------------------------
\* No path out of receive_messages or httpServer leaves shouldWork up: the
\* thread that main still waits for is told.
THEOREM EndedThreadsTell == Spec => []EndedTells
<1>1. Init => EndedTells
  BY DEF Init, EndedTells
<1>2. TypeOK /\ EndedTells /\ [Next]_vars => EndedTells'
  <2>. SUFFICES ASSUME TypeOK, EndedTells, [Next]_vars
       PROVE  EndedTells'
    OBVIOUS
  <2>. USE DEF TypeOK, EndedTells
  <2>1. ASSUME NEW n \in Nodes, StartServer(n) \/ ProcessEnds(n)
        PROVE  EndedTells'
    BY <2>1 DEF StartServer, ProcessEnds
  <2>2. ASSUME NEW n \in Nodes, HttpThread(n)
        PROVE  EndedTells'
    BY <2>2 DEF HttpThread, StartDaemon, StopDaemon, HttpEnds
  <2>3. ASSUME NEW n \in Nodes,
               CheckShouldWork(n) \/ RecvPolls(n) \/ RecvFails(n) \/ SendReport(n)
        PROVE  EndedTells'
    BY <2>1, <2>3 DEF CheckShouldWork, RecvPolls, RecvFails, SendReport, TcpEnds
  <2>4. ASSUME UNCHANGED nodeVars
        PROVE  EndedTells'
    BY <2>4 DEF nodeVars
  <2>5. ASSUME NEW n \in Nodes, Poll(n)
        PROVE  EndedTells'
    BY <2>4, <2>5 DEF Poll
  <2>6. CASE \/ StartMaster \/ TcpFails \/ TcpShutdown \/ HttpFails \/ HttpShutdown
             \/ CtrlC \/ MainTask \/ KillMaster
    BY <2>4, <2>6 DEF StartMaster, TcpFails, TcpShutdown, HttpFails, HttpShutdown, CtrlC,
                      MainTask, Select, JoinHandles, KillMaster, MasterEnds
  <2>7. CASE UNCHANGED vars
    BY <2>4, <2>7 DEF vars, nodeVars
  <2>. QED
    BY <2>1, <2>2, <2>3, <2>5, <2>6, <2>7 DEF Next, TcpThread, Cleanup, Kill
<1>. QED  BY <1>1, <1>2, TypeCorrect, PTL DEF Spec

\* A server that is connected ends for no poll that reached it alone, however
\* many servers there are and whatever fails elsewhere.
THEOREM NoSinglePollStops == Spec => StopsOnlyBehind
<1>1. TypeOK /\ [Next]_vars => [StopsOnlyBehindStep]_vars
  <2>. SUFFICES ASSUME TypeOK, Next, NEW m \in Nodes,
                       tcp[m] = "recv", tcp'[m] = "ended", link[m] = "open"
       PROVE  polls[m] - polls'[m] > 1
    BY DEF StopsOnlyBehindStep
  <2>. USE DEF TypeOK
  <2>1. ASSUME tcp' = tcp
        PROVE  FALSE
    BY <2>1
  <2>2. ASSUME NEW n \in Nodes, RecvPolls(n)
        PROVE  polls[m] - polls'[m] > 1
    <3>1. PICK k \in 1..polls[n] :
            /\ polls' = [polls EXCEPT ![n] = @ - k]
            /\ \/ tcp' = [tcp EXCEPT ![n] = "send"]
               \/ k > 1 /\ tcp' = [tcp EXCEPT ![n] = "ended"]
      BY <2>2 DEF RecvPolls, TcpEnds
    <3>2. m = n /\ k > 1
      BY <3>1
    <3>. QED  BY <3>1, <3>2
  <2>3. ASSUME NEW n \in Nodes,
               \/ StartServer(n) \/ ProcessEnds(n) \/ CheckShouldWork(n)
               \/ RecvFails(n) \/ SendReport(n)
        PROVE  FALSE
    BY <2>3 DEF StartServer, ProcessEnds, CheckShouldWork, RecvFails, SendReport, TcpEnds
  <2>4. ASSUME NEW n \in Nodes, HttpThread(n) \/ Poll(n)
        PROVE  FALSE
    BY <2>1, <2>4 DEF HttpThread, StartDaemon, StopDaemon, Poll, nodeVars
  <2>5. CASE \/ StartMaster \/ TcpFails \/ TcpShutdown \/ HttpFails \/ HttpShutdown
             \/ CtrlC \/ MainTask \/ KillMaster
    BY <2>1, <2>5 DEF StartMaster, TcpFails, TcpShutdown, HttpFails, HttpShutdown, CtrlC,
                      MainTask, Select, JoinHandles, KillMaster, MasterEnds, nodeVars
  <2>. QED
    BY <2>2, <2>3, <2>4, <2>5 DEF Next, TcpThread, Cleanup, Kill
<1>. QED  BY <1>1, TypeCorrect, PTL DEF Spec, StopsOnlyBehind
==============================================================================
