----------------------------- MODULE Lifecycle -----------------------------
(***************************************************************************)
(* The life of one process: main() constructs the LocalNode, whose         *)
(* constructor starts the maintenance thread and the server thread, joins, *)
(* runs the ChatClient and destroys everything; the server thread accepts  *)
(* connections and hands them to detached threads, and ends on an          *)
(* exception; the maintenance thread restarts it.                          *)
(*                                                                         *)
(* The node is shared: owners are the holders of a shared_ptr to it, and   *)
(* the thread that lets go of the last one runs ~LocalNode.  What rounds   *)
(* and handlers do to the ring is in module Ring; here only matters that   *)
(* they call thisPtr(), which throws when there is no owner (bad_weak_ptr),*)
(* and that they may store thisPtr() in the node's own table or replace    *)
(* it.                                                                     *)
(***************************************************************************)
EXTENDS Naturals, FiniteSets

CONSTANTS
  Handler,    \* slots for detached threads that handle a request
  MaxServers  \* bound on the server threads started in the life of a process

ASSUME LifecycleAssumption ==
  /\ MaxServers \in Nat /\ MaxServers > 1
  /\ Handler \intersect {"main", "chat", "table", "periodic"} = {}

VARIABLES
  main,           \* where the main thread is, or how the process ended
  periodic,       \* where the maintenance thread is
  server,         \* server[k]: where the k-th server thread is
  handler,        \* handler[h]: what detached thread h does
  owners,         \* the holders of a shared_ptr to the LocalNode
  destructor,     \* where ~LocalNode is, and which thread runs it
  stop,           \* _stop
  serverRunning,  \* _serverRunning
  serverThread    \* _serverThread: the number of a server thread, 0 if null

memory == <<owners, destructor, stop>>

served == <<server, serverRunning, serverThread>>

vars == <<main, periodic, handler, memory, served>>

ServerNo == 1 .. MaxServers

Owner == {"main", "chat", "table", "periodic"} \union Handler

TypeOK ==
  /\ main \in {"new", "init", "assign", "made", "join", "chat", "unwind", "destroy", "return",
               "exited", "aborted", "aborted in use"}
  /\ periodic \in {"none", "top", "round", "notify", "fix", "fixing", "check", "joining",
                   "restart", "sleep", "ended"}
  /\ server \in [ServerNo -> {"none", "begin", "loop", "accept", "fail", "return", "ended"}]
  /\ handler \in [Handler -> {"none", "run", "hold", "destroy"}]
  /\ owners \subseteq Owner
  /\ destructor \in [at : {"none", "periodic", "server", "done"}, by : Handler \union {"main", "nobody"}]
  /\ stop \in BOOLEAN /\ serverRunning \in BOOLEAN
  /\ serverThread \in 0 .. MaxServers

Init ==
  /\ main = "new" /\ periodic = "none"
  /\ server = [k \in ServerNo |-> "none"]
  /\ handler = [h \in Handler |-> "none"]
  /\ owners = {}
  /\ destructor = [at |-> "none", by |-> "nobody"]
  /\ stop = FALSE /\ serverRunning = TRUE /\ serverThread = 0

-----------------------------------------------------------------------------
(* The process ends, and all its threads with it.                          *)
Gone(how) ==
  /\ main' = how /\ periodic' = "ended"
  /\ server' = [k \in ServerNo |-> "ended"]
  /\ handler' = [h \in Handler |-> "none"]
  /\ owners' = {} /\ destructor' = [at |-> "none", by |-> "nobody"]
  /\ UNCHANGED <<stop, serverRunning, serverThread>>

(* An exception that leaves a thread, or a destructor, ends the process.   *)
Abort == Gone(IF main \in {"join", "chat"} THEN "aborted in use" ELSE "aborted")

(* Thread x ("main" or a handler) is left with the owners S: it goes on,   *)
(* or, when there are none, runs ~LocalNode, which sets _stop.             *)
Release(x, S) ==
  /\ owners' = S
  /\ IF S = {} THEN destructor' = [at |-> "periodic", by |-> x] /\ stop' = TRUE
               ELSE UNCHANGED <<destructor, stop>>

(* The first server thread not yet used.                                   *)
Fresh(k) == k \in ServerNo /\ server[k] = "none" /\ \A j \in 1 .. k - 1 : server[j] # "none"

-----------------------------------------------------------------------------
(* main().                                                                 *)

(* init: start the maintenance thread.                                     *)
InitPeriodic ==
  /\ main = "new"
  /\ main' = "init" /\ periodic' = "top"
  /\ UNCHANGED <<served, handler, memory>>

(* init: start the server thread.  It runs before its pointer is stored.   *)
InitServer ==
  /\ main = "init"
  /\ main' = "assign" /\ server' = [server EXCEPT ![1] = "begin"]
  /\ UNCHANGED <<periodic, handler, memory, serverRunning, serverThread>>

AssignServer ==
  /\ main = "assign"
  /\ main' = "made" /\ serverThread' = 1
  /\ UNCHANGED <<periodic, server, handler, memory, serverRunning>>

(* Node(new LocalNode(...)): from here on thisPtr() works.                 *)
Own ==
  /\ main = "made"
  /\ main' = "join" /\ owners' = {"main"}
  /\ UNCHANGED <<periodic, served, handler, destructor, stop>>

(* join has returned: the ChatClient is constructed and sets the receive   *)
(* function.                                                               *)
Chat ==
  /\ main = "join"
  /\ main' = "chat" /\ owners' = owners \union {"chat"}
  /\ UNCHANGED <<periodic, served, handler, destructor, stop>>

(* The second argument was refused, or join threw: the stack is unwound.   *)
Refused ==
  /\ main = "join"
  /\ main' = "unwind"
  /\ UNCHANGED <<periodic, served, handler, memory>>

(* The user quits: run returns and the ChatClient is destroyed.            *)
Quit ==
  /\ main = "chat"
  /\ main' = "unwind" /\ owners' = owners \ {"chat"}
  /\ UNCHANGED <<periodic, served, handler, destructor, stop>>

(* localNode goes out of scope.                                            *)
Unwind ==
  /\ main = "unwind"
  /\ Release("main", owners \ {"main"})
  /\ main' = IF owners \ {"main"} = {} THEN "destroy" ELSE "return"
  /\ UNCHANGED <<periodic, served, handler>>

(* main returns, and with it every thread is gone.                         *)
Exit == main = "return" /\ Gone("exited")

-----------------------------------------------------------------------------
(* ~LocalNode.                                                             *)

(* Join the maintenance thread.                                            *)
JoinPeriodic ==
  /\ destructor.at = "periodic" /\ periodic = "ended"
  /\ destructor' = [destructor EXCEPT !.at = "server"]
  /\ UNCHANGED <<main, periodic, served, handler, owners, stop>>

(* Mutant of JoinServer: the server thread is not joined.                  *)
JoinServerSkipped ==
  /\ destructor.at = "server"
  /\ destructor' = [destructor EXCEPT !.at = "done"]
  /\ IF destructor.by = "main" THEN main' = "return" /\ UNCHANGED handler
     ELSE handler' = [handler EXCEPT ![destructor.by] = "none"] /\ UNCHANGED main
  /\ UNCHANGED <<periodic, owners, stop, served>>

(* Join the server thread; the memory is freed and the thread goes on.     *)
JoinServer ==
  /\ destructor.at = "server"
  /\ serverThread # 0 => server[serverThread] = "ended"
  /\ serverThread' = 0
  /\ destructor' = [destructor EXCEPT !.at = "done"]
  /\ IF destructor.by = "main" THEN main' = "return" /\ UNCHANGED handler
     ELSE handler' = [handler EXCEPT ![destructor.by] = "none"] /\ UNCHANGED main
  /\ UNCHANGED <<periodic, server, owners, stop, serverRunning>>

-----------------------------------------------------------------------------
(* The maintenance thread, LocalNode::periodic.                            *)

(* Mutant of PeriodicTop: the server is looked after before the ring.      *)
PeriodicTopServes ==
  /\ periodic = "top"
  /\ periodic' = IF stop THEN "ended" ELSE "check"
  /\ UNCHANGED <<main, handler, memory, served>>

(* The top of the loop: until _stop is set, another round.                 *)
PeriodicTop ==
  /\ periodic = "top"
  /\ periodic' = IF stop THEN "ended" ELSE "round"
  /\ UNCHANGED <<main, served, handler, memory>>

(* checkPredecessor and stabilize, up to notify(thisPtr()).                *)
Stabilize ==
  /\ periodic = "round"
  /\ \/ owners = {} /\ Abort
     \/ /\ owners # {}
        /\ owners' = owners \union {"periodic"} /\ periodic' = "notify"
        /\ UNCHANGED <<main, served, handler, destructor, stop>>

(* Mutant of PeriodicRelease: ~LocalNode is run here like anywhere else.   *)
PeriodicReleaseDestroys(pc) ==
  \E table \in SUBSET {"table"} :
    /\ Release("periodic", (owners \ {"periodic", "table"}) \union table)
    /\ periodic' = pc
    /\ UNCHANGED <<main, handler, served>>

(* The pointers of this thread go, and an entry of the table may come or   *)
(* go.  If no owner is left ~LocalNode runs here, and joins its own        *)
(* thread: it throws.                                                      *)
PeriodicRelease(pc) ==
  \E table \in SUBSET {"table"} :
    LET S == (owners \ {"periodic", "table"}) \union table
    IN  \/ S = {} /\ Abort
        \/ /\ S # {}
           /\ owners' = S /\ periodic' = pc
           /\ UNCHANGED <<main, served, handler, destructor, stop>>

(* notify returns.                                                         *)
Notified == periodic = "notify" /\ PeriodicRelease("fix")

(* fixFingers: it may need thisPtr() or not.                               *)
FixFingers ==
  /\ periodic = "fix"
  /\ \/ owners = {} /\ Abort
     \/ /\ owners # {}
        /\ owners' = owners \union {"periodic"} /\ periodic' = "fixing"
        /\ UNCHANGED <<main, served, handler, destructor, stop>>
     \/ /\ periodic' = "check"
        /\ UNCHANGED <<main, served, handler, memory>>

Fixed == periodic = "fixing" /\ PeriodicRelease("check")

(* Is the server thread to be restarted?                                   *)
CheckServer ==
  /\ periodic = "check"
  /\ periodic' = IF serverRunning THEN "sleep"
                 ELSE IF serverThread # 0 THEN "joining" ELSE "restart"
  /\ UNCHANGED <<main, served, handler, memory>>

(* Mutant of JoinOld: the thread is deleted without a join.                *)
JoinOldSkipped ==
  /\ periodic = "joining"
  /\ \/ server[serverThread] # "ended" /\ Abort
     \/ /\ server[serverThread] = "ended"
        /\ periodic' = "restart"
        /\ UNCHANGED <<main, handler, memory, served>>

(* Join the server thread that ended.                                      *)
JoinOld ==
  /\ periodic = "joining" /\ server[serverThread] = "ended"
  /\ periodic' = "restart"
  /\ UNCHANGED <<main, served, handler, memory>>

(* Start the next one.  Only this thread and, after it, the destructor     *)
(* read _serverThread, so that it does not matter when it is stored.       *)
RestartServer ==
  /\ periodic = "restart"
  /\ \E k \in ServerNo :
       Fresh(k) /\ server' = [server EXCEPT ![k] = "begin"] /\ serverThread' = k
  /\ periodic' = "sleep" /\ serverRunning' = TRUE
  /\ UNCHANGED <<main, handler, memory>>

Wake ==
  /\ periodic = "sleep"
  /\ periodic' = "top"
  /\ UNCHANGED <<main, served, handler, memory>>

-----------------------------------------------------------------------------
(* A server thread, LocalNode::server.                                     *)

(* Within MaxServers, a server thread that fails can be followed by        *)
(* another, and that one by the last: a server thread that ends because of *)
(* _stop may still be restarted once, by a round under way.                *)
CanFail(k) == k + 1 < MaxServers

(* The acceptor is bound, or it throws.                                    *)
ServerBegin(k) ==
  /\ server[k] = "begin"
  /\ serverRunning' = TRUE
  /\ \E pc \in {"loop", "fail"} :
       /\ pc = "fail" => CanFail(k)
       /\ server' = [server EXCEPT ![k] = pc]
  /\ UNCHANGED <<main, periodic, handler, memory, serverThread>>

(* Mutant of ServerLoop: _stop is not looked at.                           *)
ServerLoopOn(k) ==
  /\ server[k] = "loop"
  /\ server' = [server EXCEPT ![k] = "accept"]
  /\ UNCHANGED <<main, periodic, handler, memory, serverRunning, serverThread>>

(* Until _stop is set, wait for the next connection.                       *)
ServerLoop(k) ==
  /\ server[k] = "loop"
  /\ server' = [server EXCEPT ![k] = IF stop THEN "fail" ELSE "accept"]
  /\ UNCHANGED <<main, periodic, handler, memory, serverRunning, serverThread>>

(* A request arrives, and a detached thread takes it.                      *)
Accept(k) ==
  /\ server[k] = "accept"
  /\ \E h \in Handler :
       handler[h] = "none" /\ handler' = [handler EXCEPT ![h] = "run"]
  /\ server' = [server EXCEPT ![k] = "loop"]
  /\ UNCHANGED <<main, periodic, memory, serverRunning, serverThread>>

(* accept, or the creation of a thread, throws.                            *)
AcceptFails(k) ==
  /\ server[k] = "accept" /\ CanFail(k)
  /\ server' = [server EXCEPT ![k] = "fail"]
  /\ UNCHANGED <<main, periodic, handler, memory, serverRunning, serverThread>>

(* Mutant of ServerEnd: the flag is not reset.                             *)
ServerEndKeeps(k) ==
  /\ server[k] = "fail"
  /\ server' = [server EXCEPT ![k] = "return"]
  /\ UNCHANGED <<main, periodic, handler, memory, serverRunning, serverThread>>

(* The thread leaves its loop, or the exception is caught.                 *)
ServerEnd(k) ==
  /\ server[k] = "fail"
  /\ server' = [server EXCEPT ![k] = "return"] /\ serverRunning' = FALSE
  /\ UNCHANGED <<main, periodic, handler, memory, serverThread>>

ServerReturn(k) ==
  /\ server[k] = "return"
  /\ server' = [server EXCEPT ![k] = "ended"]
  /\ UNCHANGED <<main, periodic, handler, memory, serverRunning, serverThread>>

-----------------------------------------------------------------------------
(* A detached thread, LocalNode::handleRequest.                            *)

(* The request needs thisPtr(), as a temporary; if that throws, the        *)
(* handler catches it and ends.                                            *)
HandlerHold(h) ==
  /\ handler[h] = "run"
  /\ IF owners = {} THEN handler' = [handler EXCEPT ![h] = "none"] /\ UNCHANGED owners
     ELSE handler' = [handler EXCEPT ![h] = "hold"] /\ owners' = owners \union {h}
  /\ UNCHANGED <<main, periodic, served, destructor, stop>>

(* The pointers of the handler go; the table may have got the node itself, *)
(* or lost it (a notify of another node).                                  *)
HandlerRelease(h) ==
  /\ handler[h] = "hold"
  /\ \E table \in SUBSET {"table"} :
       LET S == (owners \ {h, "table"}) \union table
       IN  /\ Release(h, S)
           /\ handler' = [handler EXCEPT ![h] = IF S = {} THEN "destroy" ELSE "none"]
  /\ UNCHANGED <<main, periodic, served>>

(* The request does without.  If it is a chat message, _rcvFn throws while *)
(* no ChatClient has set it, which is caught, and the message is lost; the *)
(* function of a ChatClient that is gone only prints.                      *)
HandlerEnd(h) ==
  /\ handler[h] = "run"
  /\ handler' = [handler EXCEPT ![h] = "none"]
  /\ UNCHANGED <<main, periodic, served, memory>>

(* A handler that outlives the node uses freed memory, with any outcome:   *)
(* those above, or the end of the process.                                 *)
HandlerAfterFree(h) ==
  /\ handler[h] = "run" /\ destructor.at = "done"
  /\ Abort

-----------------------------------------------------------------------------
DestructorSteps == JoinPeriodic \/ JoinServer

MainSteps ==
  \/ InitPeriodic \/ InitServer \/ AssignServer \/ Own \/ Chat \/ Refused \/ Unwind \/ Exit

PeriodicSteps ==
  \/ PeriodicTop \/ Stabilize \/ Notified \/ FixFingers \/ Fixed
  \/ CheckServer \/ JoinOld \/ RestartServer \/ Wake

ServerSteps(k) == ServerBegin(k) \/ ServerLoop(k) \/ ServerEnd(k) \/ ServerReturn(k)

HandlerSteps(h) ==
  HandlerHold(h) \/ HandlerRelease(h) \/ HandlerEnd(h) \/ HandlerAfterFree(h)

Next ==
  \/ MainSteps \/ Quit \/ DestructorSteps \/ PeriodicSteps
  \/ \E k \in ServerNo : ServerSteps(k) \/ Accept(k) \/ AcceptFails(k)
  \/ \E h \in Handler : HandlerSteps(h)

Spec == Init /\ [][Next]_vars

(* The operating system runs every thread, and remote calls return.        *)
(* Nothing forces the user to quit, a request to arrive or a server thread *)
(* to fail.                                                                *)
FairSpec ==
  /\ Spec
  /\ WF_vars(MainSteps) /\ WF_vars(DestructorSteps) /\ WF_vars(PeriodicSteps)
  /\ \A k \in ServerNo : WF_vars(ServerSteps(k))
  /\ \A h \in Handler : WF_vars(HandlerSteps(h))

(* A node in a ring is asked again and again: its predecessor stabilizes,  *)
(* its successor checks its predecessor.                                   *)
AskedSpec == FairSpec /\ \A k \in ServerNo : WF_vars(Accept(k))

-----------------------------------------------------------------------------
Alive(k) == server[k] \notin {"none", "ended"}

(* There is never more than one server thread, and once the constructor    *)
(* has returned it is the one that _serverThread stands for: so whoever    *)
(* joins that one joins them all.                                          *)
OneServer ==
  \A k \in ServerNo : Alive(k) =>
    /\ \A j \in ServerNo \ {k} : ~Alive(j)
    /\ main \notin {"new", "init", "assign"} => serverThread = k

(* The memory of the node is freed only when the maintenance thread and    *)
(* all server threads have ended; only detached handlers may outlive it.   *)
FreedUnused ==
  destructor.at = "done" => periodic = "ended" /\ \A k \in ServerNo : ~Alive(k)

(* While the user chats the process does not abort: thisPtr() throws in    *)
(* the maintenance thread only before the node has an owner or after the   *)
(* user quit, and no thread is destroyed that was not joined.              *)
ChatUndisturbed == main # "aborted in use"

(* A server thread that ended is followed by another one, as long as the   *)
(* user does not quit.                                                     *)
ServerReturns ==
  \A k \in ServerNo :
    server[k] = "ended" /\ main = "chat" ~> (\E j \in ServerNo : server[j] = "accept") \/ main # "chat"

(* "Signal for the threads to signal they should exit" (LocalNode.h, of    *)
(* _stop): when the user quits, the process ends.                          *)
QuitEnds == main = "unwind" ~> main \in {"exited", "aborted"}
=============================================================================
