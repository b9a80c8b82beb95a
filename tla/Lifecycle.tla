------------------------------ MODULE Lifecycle ------------------------------
(***************************************************************************)
(* How the processes begin and end: the two threads of every chunk server, *)
(* which stop each other through shouldWork, and the two services of the   *)
(* master, which its main task watches. They meet in the TCP connections:  *)
(* the master polls a server over one and breaks them all when it ends.    *)
(*                                                                         *)
(* The addresses are those of the code: SERVER_IP is 127.0.0.1, so every   *)
(* server runs on the master's machine, where only one can have port 8002. *)
(* What is stored and reported is StorageNode's; how the registry is kept, *)
(* Master's. Any process may be killed and started again at any time.      *)
(***************************************************************************)
EXTENDS Naturals

CONSTANTS
  Nodes,      \* the chunk servers on the machine
  Nobody,     \* port 8002 is free
  MaxPolls    \* bound: polls of one server that it has not received

ASSUME LifecycleAssumption == Nobody \notin Nodes /\ MaxPolls \in Nat

VARIABLES
  tcp,          \* receive_messages: where the thread is, "off" without a process
  http,         \* httpServer: where the thread is
  shouldWork,   \* the flag the two share
  port,         \* the server whose HTTP daemon has port 8002
  link,         \* the connection to the master, seen from the server
  polls,        \* polls on their way to the server
  main,         \* the master's main task
  tcp_task,     \* the task tcp_main
  http_task,    \* the task http_main
  sigint,       \* Ctrl-C was pressed
  shutdown,     \* the shutdown message was broadcast
  consumed      \* the handle that select! has polled to its end

nodeVars == <<tcp, http, shouldWork, port>>
linkVars == <<link, polls>>
masterVars == <<main, tcp_task, http_task, sigint, shutdown, consumed>>
vars == <<tcp, http, shouldWork, port, link, polls,
          main, tcp_task, http_task, sigint, shutdown, consumed>>

MasterRuns == main # "off"

Init ==
  /\ tcp = [n \in Nodes |-> "off"]
  /\ http = [n \in Nodes |-> "off"]
  /\ shouldWork = [n \in Nodes |-> FALSE]
  /\ port = Nobody
  /\ link = [n \in Nodes |-> "none"]
  /\ polls = [n \in Nodes |-> 0]
  /\ main = "off" /\ tcp_task = "done" /\ http_task = "done"
  /\ sigint = FALSE /\ shutdown = FALSE /\ consumed = "none"

-----------------------------------------------------------------------------
(* A chunk server: main.c *)

\* connect and join; without a listening master the process exits at once.
\* Then the two threads are created.
StartServer(n) ==
  /\ tcp[n] = "off" /\ tcp_task = "run"
  /\ tcp' = [tcp EXCEPT ![n] = "check"]
  /\ http' = [http EXCEPT ![n] = "start"]
  /\ shouldWork' = [shouldWork EXCEPT ![n] = TRUE]
  /\ link' = [link EXCEPT ![n] = "open"]
  /\ UNCHANGED <<port, polls, masterVars>>

\* The kernel closes what the process had open. (That a broken connection
\* leaves the registry is ClosedLeaves of Master.)
ProcessEnds(n) ==
  /\ tcp' = [tcp EXCEPT ![n] = "off"]
  /\ http' = [http EXCEPT ![n] = "off"]
  /\ shouldWork' = [shouldWork EXCEPT ![n] = FALSE]
  /\ port' = IF port = n THEN Nobody ELSE port
  /\ link' = [link EXCEPT ![n] = "none"]
  /\ polls' = [polls EXCEPT ![n] = 0]
  /\ UNCHANGED masterVars

\* main has joined both threads.
Cleanup(n) ==
  /\ tcp[n] = "ended" /\ http[n] = "ended"
  /\ ProcessEnds(n)

Kill(n) == tcp[n] # "off" /\ ProcessEnds(n)

\* A thread ends and tells the other.
TcpEnds(n) ==
  /\ tcp' = [tcp EXCEPT ![n] = "ended"]
  /\ shouldWork' = [shouldWork EXCEPT ![n] = FALSE]
HttpEnds(n) ==
  /\ http' = [http EXCEPT ![n] = "ended"]
  /\ shouldWork' = [shouldWork EXCEPT ![n] = FALSE]

(* httpServer *)

\* Slip: a daemon that does not start ends the thread without a word.
StartDaemonSilently(n) ==
  /\ http[n] = "start"
  /\ \/ /\ port = Nobody
        /\ port' = n
        /\ http' = [http EXCEPT ![n] = "serve"]
     \/ /\ http' = [http EXCEPT ![n] = "ended"]
        /\ UNCHANGED port
  /\ UNCHANGED <<tcp, shouldWork, linkVars, masterVars>>

\* MHD_start_daemon fails when another server has the port, or for a reason of
\* its own.
StartDaemon(n) ==
  /\ http[n] = "start"
  /\ \/ /\ port = Nobody
        /\ port' = n
        /\ http' = [http EXCEPT ![n] = "serve"]
        /\ UNCHANGED shouldWork
     \/ /\ HttpEnds(n)
        /\ UNCHANGED port
  /\ UNCHANGED <<tcp, linkVars, masterVars>>

\* The flag, looked at every two seconds, is down.
StopDaemon(n) ==
  /\ http[n] = "serve" /\ ~shouldWork[n]
  /\ HttpEnds(n)
  /\ port' = Nobody
  /\ UNCHANGED <<tcp, linkVars, masterVars>>

(* receive_messages *)

CheckShouldWork(n) ==
  /\ tcp[n] = "check"
  /\ \/ /\ shouldWork[n]
        /\ tcp' = [tcp EXCEPT ![n] = "recv"]
        /\ UNCHANGED shouldWork
     \/ ~shouldWork[n] /\ TcpEnds(n)
  /\ UNCHANGED <<http, port, linkVars, masterVars>>

\* Slip: the newline the master appends to every poll is unpacked with it.
RecvPollsWithNewline(n) ==
  /\ tcp[n] = "recv"
  /\ \E k \in 1..polls[n] :
       /\ polls' = [polls EXCEPT ![n] = @ - k]
       /\ \/ k > 1 /\ tcp' = [tcp EXCEPT ![n] = "send"] /\ UNCHANGED shouldWork
          \/ TcpEnds(n)
  /\ UNCHANGED <<http, port, link, masterVars>>

\* One recv() may return several polls. They are unpacked as one message: the
\* newline between two of them is then the tag of a field, and whether what
\* follows makes sense depends on the digits of the connection id. If it does,
\* one report answers them all.
RecvPolls(n) ==
  /\ tcp[n] = "recv"
  /\ \E k \in 1..polls[n] :
       /\ polls' = [polls EXCEPT ![n] = @ - k]
       /\ \/ tcp' = [tcp EXCEPT ![n] = "send"] /\ UNCHANGED shouldWork
          \/ k > 1 /\ TcpEnds(n)
  /\ UNCHANGED <<http, port, link, masterVars>>

\* Slip: the loop is left without lowering the flag.
RecvFailsSilently(n) ==
  /\ tcp[n] = "recv" /\ link[n] = "closed"
  /\ tcp' = [tcp EXCEPT ![n] = "ended"]
  /\ UNCHANGED <<http, shouldWork, port, linkVars, masterVars>>

\* Slip: the end of the stream is taken for a poll.
RecvEmptyAsPoll(n) ==
  /\ tcp[n] = "recv" /\ link[n] = "closed"
  /\ tcp' = [tcp EXCEPT ![n] = "send"]
  /\ polls' = [polls EXCEPT ![n] = @ - 1]
  /\ UNCHANGED <<http, shouldWork, port, link, masterVars>>

\* recv() returns 0, or fails on a reset connection.
RecvFails(n) ==
  /\ tcp[n] = "recv" /\ link[n] = "closed"
  /\ TcpEnds(n)
  /\ UNCHANGED <<http, port, linkVars, masterVars>>

\* On a connection the master has closed send() may succeed once more, fail
\* (exit() for the size, return for the message), or raise SIGPIPE.
SendReport(n) ==
  /\ tcp[n] = "send"
  /\ \/ /\ tcp' = [tcp EXCEPT ![n] = "check"]
        /\ UNCHANGED <<http, shouldWork, port, linkVars, masterVars>>
     \/ /\ link[n] = "closed"
        /\ TcpEnds(n)
        /\ UNCHANGED <<http, port, linkVars, masterVars>>
     \/ link[n] = "closed" /\ ProcessEnds(n)

-----------------------------------------------------------------------------
(* The master: main.rs *)

StartMaster ==
  /\ ~MasterRuns
  /\ main' = "select" /\ tcp_task' = "run" /\ http_task' = "run"
  /\ UNCHANGED <<nodeVars, linkVars, sigint, shutdown, consumed>>

\* tcp_main: the bind fails, or one accept() does, and with it the loop of
\* accept_connections; the handlers of accepted connections go on.
TcpFails ==
  /\ tcp_task = "run"
  /\ tcp_task' = "done"
  /\ UNCHANGED <<nodeVars, linkVars, main, http_task, sigint, shutdown, consumed>>

TcpShutdown ==
  /\ tcp_task = "run" /\ shutdown
  /\ tcp_task' = "done"
  /\ UNCHANGED <<nodeVars, linkVars, main, http_task, sigint, shutdown, consumed>>

\* http_main: the port is taken, or SIGTERM, which actix handles itself.
HttpFails ==
  /\ http_task = "run"
  /\ http_task' = "done"
  /\ UNCHANGED <<nodeVars, linkVars, main, tcp_task, sigint, shutdown, consumed>>

\* actix handles SIGINT too, beside tokio.
HttpShutdown ==
  /\ http_task = "run" /\ (shutdown \/ sigint)
  /\ http_task' = "done"
  /\ UNCHANGED <<nodeVars, linkVars, main, tcp_task, sigint, shutdown, consumed>>

CtrlC ==
  /\ MasterRuns /\ ~sigint
  /\ sigint' = TRUE
  /\ UNCHANGED <<nodeVars, linkVars, main, tcp_task, http_task, shutdown, consumed>>

\* Slip: the branch of Ctrl-C only prints.
SelectSilently(branch) ==
  /\ main = "select"
  /\ \/ branch = "none" /\ sigint
     \/ branch = "tcp" /\ tcp_task = "done"
     \/ branch = "http" /\ http_task = "done"
  /\ main' = "join" /\ shutdown' = (branch # "none") /\ consumed' = branch
  /\ UNCHANGED <<nodeVars, linkVars, tcp_task, http_task, sigint>>

\* select!: of the branches that are ready any one is taken, and its handle, if
\* it has one, polled to its end. Every branch broadcasts the shutdown.
Select(branch) ==
  /\ main = "select"
  /\ \/ branch = "none" /\ sigint
     \/ branch = "tcp" /\ tcp_task = "done"
     \/ branch = "http" /\ http_task = "done"
  /\ main' = "join" /\ shutdown' = TRUE /\ consumed' = branch
  /\ UNCHANGED <<nodeVars, linkVars, tcp_task, http_task, sigint>>

\* The process ends: no task runs any more, every connection is closed.
MasterEnds ==
  /\ main' = "off" /\ tcp_task' = "done" /\ http_task' = "done"
  /\ sigint' = FALSE /\ shutdown' = FALSE /\ consumed' = "none"
  /\ link' = [n \in Nodes |-> IF link[n] = "open" THEN "closed" ELSE link[n]]
  /\ UNCHANGED <<nodeVars, polls>>

\* join! polls both handles: one that select! has consumed panics, which takes
\* the process down whatever the other service is doing.
JoinHandles ==
  /\ main = "join"
  /\ consumed # "none" \/ (tcp_task = "done" /\ http_task = "done")
  /\ MasterEnds

KillMaster == MasterRuns /\ MasterEnds

\* Every ten seconds, from the moment the connection is accepted.
Poll(n) ==
  /\ MasterRuns /\ link[n] = "open" /\ polls[n] < MaxPolls
  /\ polls' = [polls EXCEPT ![n] = @ + 1]
  /\ UNCHANGED <<nodeVars, link, masterVars>>

-----------------------------------------------------------------------------
HttpThread(n) == StartDaemon(n) \/ StopDaemon(n)
TcpThread(n) == CheckShouldWork(n) \/ RecvPolls(n) \/ RecvFails(n) \/ SendReport(n)
MainTask == JoinHandles \/ \E branch \in {"none", "tcp", "http"} : Select(branch)

Next ==
  \/ \E n \in Nodes :
       \/ StartServer(n) \/ HttpThread(n) \/ TcpThread(n) \/ Cleanup(n) \/ Kill(n)
       \/ Poll(n)
  \/ StartMaster \/ TcpFails \/ TcpShutdown \/ HttpFails \/ HttpShutdown
  \/ CtrlC \/ MainTask \/ KillMaster

Spec == Init /\ [][Next]_vars

\* Threads and tasks run when they can, and a connected server is polled every
\* ten seconds. Nobody has to start or stop anything.
Fairness ==
  /\ \A n \in Nodes :
       /\ WF_vars(HttpThread(n)) /\ WF_vars(TcpThread(n)) /\ WF_vars(Cleanup(n))
       /\ WF_vars(Poll(n))
  /\ WF_vars(MainTask) /\ WF_vars(TcpShutdown) /\ WF_vars(HttpShutdown)

FairSpec == Spec /\ Fairness

-----------------------------------------------------------------------------
(* Properties *)

TypeOK ==
  /\ tcp \in [Nodes -> {"off", "check", "recv", "send", "ended"}]
  /\ http \in [Nodes -> {"off", "start", "serve", "ended"}]
  /\ shouldWork \in [Nodes -> BOOLEAN]
  /\ port \in Nodes \union {Nobody}
  /\ link \in [Nodes -> {"none", "open", "closed"}]
  /\ polls \in [Nodes -> 0..MaxPolls]
  /\ main \in {"off", "select", "join"}
  /\ tcp_task \in {"run", "done"} /\ http_task \in {"run", "done"}
  /\ sigint \in BOOLEAN /\ shutdown \in BOOLEAN
  /\ consumed \in {"none", "tcp", "http"}

\* No thread of a server ends without telling the other, on any of the paths
\* out of receive_messages and httpServer: main, which joins both, would wait
\* for ever, with the server registered or the port taken.
EndedTells ==
  \A n \in Nodes : tcp[n] = "ended" \/ http[n] = "ended" => ~shouldWork[n]

\* While its connection is open and the HTTP thread content, a server stops
\* only because several polls reached it as one: never for a single poll.
StopsOnlyBehindStep ==
  \A n \in Nodes :
    tcp[n] = "recv" /\ tcp'[n] = "ended" /\ link[n] = "open" => polls[n] - polls'[n] > 1
StopsOnlyBehind == [][StopsOnlyBehindStep]_vars

\* A server one of whose threads has ended, or whose master is gone, comes to
\* its end and frees port 8002, although the TCP thread looks at the flag only
\* after it received something and nobody wakes it.
ServerEnds ==
  \A n \in Nodes :
    tcp[n] = "ended" \/ http[n] = "ended" \/ link[n] = "closed" ~> tcp[n] = "off"

\* A server connected to the master comes to serve HTTP or leaves: clients are
\* not sent for ever to one that lost port 8002 to another.
ConnectedServes ==
  \A n \in Nodes : link[n] = "open" ~> http[n] = "serve" \/ link[n] # "open"

\* Ctrl-C, or the end of one service, ends the master as a whole: no service
\* goes on without the other.
MasterEndsWhole ==
  MasterRuns /\ (sigint \/ tcp_task = "done" \/ http_task = "done") ~> ~MasterRuns
==============================================================================
