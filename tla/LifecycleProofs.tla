-------------------------- MODULE LifecycleProofs --------------------------
(***************************************************************************)
(* Theorems about Lifecycle: there is one server thread, and the memory of *)
(* the node is freed after the threads it knows of have ended, however     *)
(* often the server thread fails.                                          *)
(***************************************************************************)
EXTENDS Lifecycle, TLAPS

-----------------------------------------------------------------------------
(* The inductive invariant.                                                *)

Early == {"new", "init", "assign", "made"}

(* The part of the types that the argument needs.                          *)
Shape ==
  /\ server \in [ServerNo -> {"none", "begin", "loop", "accept", "fail", "return", "ended"}]
  /\ handler \in [Handler -> {"none", "run", "hold", "destroy"}]
  /\ destructor \in [at : {"none", "periodic", "server", "done"},
                     by : Handler \union {"main", "nobody"}]

(* Until main owns the node the maintenance thread cannot get past its     *)
(* first stabilize, where thisPtr() would throw: so it cannot restart a    *)
(* server thread that init has not stored yet.                             *)
Constructing ==
  /\ main \in Early =>
       owners = {} /\ destructor.at = "none" /\ periodic \in {"none", "top", "round", "ended"}
  /\ main \in {"new", "init"} => \A k \in ServerNo : server[k] = "none"
  /\ main = "assign" => \A k \in ServerNo : server[k] = "none" \/ k = 1

(* Once init is over _serverThread is the server thread that is alive, and *)
(* while the maintenance thread is about to start one there is none.       *)
Serving ==
  /\ main \notin {"new", "init", "assign"} => \A k \in ServerNo : Alive(k) => serverThread = k
  /\ periodic = "restart" => \A k \in ServerNo : ~Alive(k)

(* Who holds a pointer is an owner.                                        *)
Holding ==
  /\ main \in {"join", "chat", "unwind"} => "main" \in owners
  /\ periodic \in {"notify", "fixing"} => "periodic" \in owners
  /\ \A h \in Handler : handler[h] = "hold" => h \in owners

(* ~LocalNode runs when there is no owner, and once: it joins the          *)
(* maintenance thread first, so that nobody starts another server thread.  *)
Destroying ==
  /\ destructor.at # "none" => owners = {}
  /\ destructor.at \in {"server", "done"} => periodic = "ended"
  /\ destructor.at = "done" => \A k \in ServerNo : ~Alive(k)

Inv == Shape /\ Constructing /\ Serving /\ Holding /\ Destroying

LEMMA InitInv == Init => Inv
BY LifecycleAssumption
   DEF Init, Inv, Shape, Constructing, Serving, Holding, Destroying, Alive, ServerNo, Early

-----------------------------------------------------------------------------
(* The actions.                                                            *)

LEMMA GoneInv ==
  ASSUME Inv, NEW how \in {"exited", "aborted", "aborted in use"}, Gone(how)
  PROVE  Inv'
BY DEF Gone, Inv, Shape, Constructing, Serving, Holding, Destroying, Alive, Early

LEMMA AbortInv ==
  ASSUME Inv, Abort
  PROVE  Inv'
BY GoneInv DEF Abort

LEMMA MainInv ==
  ASSUME Inv, MainSteps \/ Quit
  PROVE  Inv'
<1> USE DEF Inv, Shape, Constructing, Serving, Holding, Destroying, Alive, Early
<1>1. CASE InitPeriodic
  BY <1>1 DEF InitPeriodic, served, memory
<1>2. CASE InitServer
  BY <1>2 DEF InitServer, memory
<1>3. CASE AssignServer
  BY <1>3 DEF AssignServer, memory
<1>4. CASE Own
  BY <1>4 DEF Own, served
<1>5. CASE Chat
  BY <1>5 DEF Chat, served
<1>6. CASE Refused
  BY <1>6 DEF Refused, served, memory
<1>7. CASE Quit
  <2>1. main = "chat" /\ main' = "unwind" /\ "main" \in owners
    BY <1>7 DEF Quit
  <2>2. /\ periodic' = periodic /\ handler' = handler /\ server' = server
        /\ serverThread' = serverThread /\ destructor' = destructor
        /\ owners' = owners \ {"chat"}
    BY <1>7 DEF Quit, served
  <2>3. \A h \in Handler : h # "chat"
    BY LifecycleAssumption
  <2> QED BY <2>1, <2>2, <2>3
<1>8. CASE Unwind
  <2>1. main = "unwind" /\ main' \in {"destroy", "return"} /\ "main" \in owners
    BY <1>8 DEF Unwind
  <2>2. /\ periodic' = periodic /\ handler' = handler /\ server' = server
        /\ serverThread' = serverThread /\ owners' = owners \ {"main"}
    BY <1>8 DEF Unwind, Release, served
  <2>3. /\ destructor.at = "none"
        /\ \/ destructor' = destructor
           \/ owners' = {} /\ destructor' = [at |-> "periodic", by |-> "main"]
    BY <1>8, <2>1 DEF Unwind, Release
  <2>4. \A h \in Handler : h # "main"
    BY LifecycleAssumption
  <2> QED BY <2>1, <2>2, <2>3, <2>4
<1>9. CASE Exit
  <2> HIDE DEF Inv
  <2> QED BY <1>9, GoneInv DEF Exit
<1> QED BY <1>1, <1>2, <1>3, <1>4, <1>5, <1>6, <1>7, <1>8, <1>9 DEF MainSteps

LEMMA DestructorInv ==
  ASSUME Inv, DestructorSteps
  PROVE  Inv'
<1> USE DEF Inv, Shape, Constructing, Serving, Holding, Destroying, Alive, Early
<1>1. CASE JoinPeriodic
  BY <1>1 DEF JoinPeriodic, served
<1>2. CASE JoinServer
  <2>1. /\ destructor.at = "server" /\ periodic = "ended" /\ owners = {}
        /\ periodic' = periodic /\ server' = server /\ owners' = owners
        /\ destructor' = [destructor EXCEPT !.at = "done"]
    BY <1>2 DEF JoinServer
  <2>2. main \notin Early
    BY <2>1
  <2>3. \A k \in ServerNo : ~Alive(k)
    BY <1>2, <2>1, <2>2 DEF JoinServer, ServerNo
  <2>4. main' \in {main, "return"} /\ (main' = main \/ main' = "return")
    BY <1>2 DEF JoinServer
  <2>5. /\ handler' \in [Handler -> {"none", "run", "hold", "destroy"}]
        /\ \A h \in Handler : handler'[h] = "hold" => handler[h] = "hold"
    BY <1>2 DEF JoinServer
  <2> QED BY <2>1, <2>2, <2>3, <2>4, <2>5
<1> QED BY <1>1, <1>2 DEF DestructorSteps

LEMMA ReleaseInv ==
  ASSUME Inv, periodic \in {"notify", "fixing"}, NEW pc \in {"fix", "check"}, PeriodicRelease(pc)
  PROVE  Inv'
<1>1. CASE Abort
  BY <1>1, AbortInv
<1>2. ASSUME ~Abort PROVE Inv'
  BY <1>2, LifecycleAssumption DEF PeriodicRelease, served, Inv, Shape, Constructing, Serving, Holding, Destroying, Alive, Early
<1> QED BY <1>1, <1>2

LEMMA PeriodicInv ==
  ASSUME Inv, PeriodicSteps
  PROVE  Inv'
<1> USE DEF Inv, Shape, Constructing, Serving, Holding, Destroying, Alive, Early
<1>1. CASE PeriodicTop
  <2>1. periodic = "top" /\ (periodic' = "ended" \/ periodic' = "round")
    BY <1>1, Zenon DEF PeriodicTop
  <2>2. /\ main' = main /\ handler' = handler /\ server' = server /\ serverThread' = serverThread
        /\ owners' = owners /\ destructor' = destructor
    BY <1>1 DEF PeriodicTop, served, memory
  <2> QED BY <2>1, <2>2
<1>2. CASE CheckServer
  <2>1. /\ periodic = "check"
        /\ \/ periodic' = "sleep"
           \/ periodic' = "joining"
           \/ periodic' = "restart" /\ serverThread = 0
    BY <1>2, Zenon DEF CheckServer
  <2>2. /\ main' = main /\ handler' = handler /\ server' = server /\ serverThread' = serverThread
        /\ owners' = owners /\ destructor' = destructor
    BY <1>2 DEF CheckServer, served, memory
  <2>3. periodic' = "restart" => \A k \in ServerNo : ~Alive(k)
    BY <2>1 DEF ServerNo
  <2> QED BY <2>1, <2>2, <2>3
<1>3. CASE JoinOld
  BY <1>3 DEF JoinOld, served, memory
<1>4. CASE Wake
  BY <1>4 DEF Wake, served, memory
<1>5. CASE Stabilize
  BY <1>5, AbortInv DEF Stabilize, served
<1>6. CASE FixFingers
  BY <1>6, AbortInv DEF FixFingers, served, memory
<1>7. CASE Notified \/ Fixed
  BY <1>7, ReleaseInv DEF Notified, Fixed
<1>8. CASE RestartServer
  BY <1>8 DEF RestartServer, memory
<1> QED BY <1>1, <1>2, <1>3, <1>4, <1>5, <1>6, <1>7, <1>8 DEF PeriodicSteps

LEMMA ServerInv ==
  ASSUME Inv, NEW k \in ServerNo, ServerSteps(k) \/ Accept(k) \/ AcceptFails(k)
  PROVE  Inv'
<1> USE DEF Inv, Shape, Constructing, Serving, Holding, Destroying, Alive, Early
<1>1. CASE ServerBegin(k)
  BY <1>1 DEF ServerBegin, memory
<1>2. CASE ServerLoop(k)
  BY <1>2 DEF ServerLoop, memory
<1>3. CASE ServerEnd(k)
  BY <1>3 DEF ServerEnd, memory
<1>4. CASE ServerReturn(k)
  BY <1>4 DEF ServerReturn, memory
<1>5. CASE AcceptFails(k)
  BY <1>5 DEF AcceptFails, memory
<1>6. CASE Accept(k)
  BY <1>6 DEF Accept, memory
<1> QED BY <1>1, <1>2, <1>3, <1>4, <1>5, <1>6 DEF ServerSteps

LEMMA HandlerInv ==
  ASSUME Inv, NEW h \in Handler, HandlerSteps(h)
  PROVE  Inv'
<1> USE DEF Inv, Shape, Constructing, Serving, Holding, Destroying, Alive, Early
<1>1. CASE HandlerHold(h)
  BY <1>1 DEF HandlerHold, served
<1>2. CASE HandlerRelease(h)
  BY <1>2, LifecycleAssumption DEF HandlerRelease, Release, served
<1>3. CASE HandlerEnd(h)
  BY <1>3 DEF HandlerEnd, served, memory
<1>4. CASE HandlerAfterFree(h)
  BY <1>4, AbortInv DEF HandlerAfterFree
<1> QED BY <1>1, <1>2, <1>3, <1>4 DEF HandlerSteps

-----------------------------------------------------------------------------
(* The theorems.                                                           *)

LEMMA StepInv ==
  ASSUME Inv, [Next]_vars
  PROVE  Inv'
<1>1. CASE UNCHANGED vars
  BY <1>1 DEF vars, memory, served, Inv, Shape, Constructing, Serving, Holding, Destroying, Alive, Early
<1> QED BY <1>1, MainInv, DestructorInv, PeriodicInv, ServerInv, HandlerInv DEF Next

LEMMA AlwaysInv == Spec => []Inv
BY InitInv, StepInv, PTL DEF Spec

(* There is never more than one server thread, and the node knows it, for  *)
(* any number of handlers and of failures of server threads.               *)
THEOREM AlwaysOneServer == Spec => []OneServer
<1>1. Inv => OneServer
  BY DEF Inv, Constructing, Serving, OneServer, Alive
<1> QED BY AlwaysInv, <1>1, PTL

(* The node is freed only after the maintenance thread and every server    *)
(* thread have ended.                                                      *)
THEOREM AlwaysFreedUnused == Spec => []FreedUnused
<1>1. Inv => FreedUnused
  BY DEF Inv, Destroying, FreedUnused
<1> QED BY AlwaysInv, <1>1, PTL

(* While the user chats, and while main joins, main itself is an owner: so *)
(* thisPtr() does not throw in the maintenance thread, and its pointers    *)
(* and those of handlers are not the last.                                 *)
LEMMA StepUndisturbed ==
  ASSUME Inv, ChatUndisturbed, [Next]_vars
  PROVE  ChatUndisturbed'
<1> USE DEF ChatUndisturbed
<1>1. ASSUME main \notin {"join", "chat"}, Abort
      PROVE  ChatUndisturbed'
  BY <1>1 DEF Abort, Gone
<1>2. CASE MainSteps \/ Quit
  BY <1>2 DEF MainSteps, Quit, InitPeriodic, InitServer, AssignServer, Own, Chat, Refused,
              Unwind, Exit, Gone
<1>3. CASE DestructorSteps
  BY <1>3 DEF DestructorSteps, JoinPeriodic, JoinServer
<1>4. CASE PeriodicSteps
  <2>1. CASE Stabilize \/ FixFingers
    BY <1>1, <2>1 DEF Stabilize, FixFingers, Inv, Holding
  <2>2. CASE Notified \/ Fixed
    <3>1. ASSUME NEW pc, PeriodicRelease(pc)
          PROVE  ChatUndisturbed'
      <4>1. PICK table \in SUBSET {"table"} :
              \/ (owners \ {"periodic", "table"}) \union table = {} /\ Abort
              \/ UNCHANGED main
        BY <3>1 DEF PeriodicRelease
      <4>2. main \in {"join", "chat"} => "main" \in owners \ {"periodic", "table"}
        BY DEF Inv, Holding
      <4> QED
        BY <1>1, <4>1, <4>2
    <3> QED
      BY <2>2, <3>1 DEF Notified, Fixed
  <2>3. CASE PeriodicTop \/ CheckServer \/ JoinOld \/ RestartServer \/ Wake
    BY <2>3 DEF PeriodicTop, CheckServer, JoinOld, RestartServer, Wake
  <2> QED
    BY <1>4, <2>1, <2>2, <2>3 DEF PeriodicSteps
<1>5. ASSUME NEW k \in ServerNo, ServerSteps(k) \/ Accept(k) \/ AcceptFails(k)
      PROVE  ChatUndisturbed'
  BY <1>5 DEF ServerSteps, ServerBegin, ServerLoop, ServerEnd, ServerReturn, Accept, AcceptFails
<1>6. ASSUME NEW h \in Handler, HandlerSteps(h)
      PROVE  ChatUndisturbed'
  <2>1. CASE HandlerAfterFree(h)
    BY <1>1, <2>1 DEF HandlerAfterFree, Inv, Holding, Destroying
  <2>2. CASE HandlerHold(h) \/ HandlerRelease(h) \/ HandlerEnd(h)
    BY <2>2 DEF HandlerHold, HandlerRelease, HandlerEnd
  <2> QED
    BY <1>6, <2>1, <2>2 DEF HandlerSteps
<1>7. CASE UNCHANGED vars
  BY <1>7 DEF vars
<1> QED
  BY <1>2, <1>3, <1>4, <1>5, <1>6, <1>7 DEF Next

(* The process does not abort while main joins or the user chats: neither  *)
(* shared_from_this in the maintenance thread, nor a pointer that a thread *)
(* drops, nor the restart of the server thread ends it.                    *)
THEOREM AlwaysChatUndisturbed == Spec => []ChatUndisturbed
<1>1. Init => ChatUndisturbed
  BY DEF Init, ChatUndisturbed
<1> QED
  BY <1>1, AlwaysInv, StepUndisturbed, PTL DEF Spec

-----------------------------------------------------------------------------
(* Type correctness.                                                       *)

(* The variables that are not Boolean, and those that are: the first are a *)
(* matter of sets and numbers, the second of cases.                        *)
Places ==
  /\ main \in {"new", "init", "assign", "made", "join", "chat", "unwind", "destroy", "return",
               "exited", "aborted", "aborted in use"}
  /\ periodic \in {"none", "top", "round", "notify", "fix", "fixing", "check", "joining",
                   "restart", "sleep", "ended"}
  /\ owners \subseteq Owner
  /\ serverThread \in 0 .. MaxServers

Flags == stop \in BOOLEAN /\ serverRunning \in BOOLEAN

LEMMA TypeParts == TypeOK <=> Places /\ Shape /\ Flags
BY Zenon DEF TypeOK, Places, Shape, Flags

LEMMA ThreadNumbers ==
  {0, 1} \union ServerNo \subseteq 0 .. MaxServers
BY LifecycleAssumption DEF ServerNo

LEMMA GonePlaces ==
  ASSUME Places, NEW how \in {"exited", "aborted", "aborted in use"}, Gone(how)
  PROVE  Places'
BY DEF Gone, Places

LEMMA AbortPlaces ==
  ASSUME Places, Abort
  PROVE  Places'
BY GonePlaces DEF Abort

LEMMA ReleasePlaces ==
  ASSUME Places, NEW pc \in {"fix", "check"}, PeriodicRelease(pc)
  PROVE  Places'
<1>1. CASE Abort
  BY <1>1, AbortPlaces
<1>2. CASE ~Abort
  <2>1. PICK table \in SUBSET {"table"} :
          /\ owners' = (owners \ {"periodic", "table"}) \union table
          /\ periodic' = pc /\ UNCHANGED <<main, serverThread>>
    BY <1>2 DEF PeriodicRelease, served
  <2> QED
    BY <2>1 DEF Places, Owner
<1> QED
  BY <1>1, <1>2

LEMMA StepPlaces ==
  ASSUME Places, [Next]_vars
  PROVE  Places'
<1>1. CASE MainSteps \/ Quit
  <2>1. CASE InitPeriodic \/ InitServer \/ AssignServer
    <3>1. /\ main' \in {"init", "assign", "made"} /\ periodic' \in {periodic, "top"}
          /\ owners' = owners /\ serverThread' \in {serverThread, 1}
      BY <2>1, Zenon DEF InitPeriodic, InitServer, AssignServer, served, memory
    <3> QED
      BY <3>1, ThreadNumbers DEF Places, Owner
  <2>2. CASE Own \/ Chat \/ Refused \/ Quit
    BY <2>2 DEF Own, Chat, Refused, Quit, Places, Owner, served, memory
  <2>3. CASE Unwind
    <3>1. main' \in {"destroy", "return"} /\ owners' = owners \ {"main"}
      BY <2>3, Zenon DEF Unwind, Release
    <3>2. UNCHANGED <<periodic, serverThread>>
      BY <2>3, Zenon DEF Unwind, served
    <3> QED
      BY <3>1, <3>2 DEF Places, Owner
  <2>4. CASE Exit
    BY <2>4, GonePlaces DEF Exit
  <2> QED
    BY <1>1, <2>1, <2>2, <2>3, <2>4 DEF MainSteps
<1>2. CASE DestructorSteps
  <2>1. main' \in {main, "return"} /\ serverThread' \in {serverThread, 0}
    BY <1>2, Zenon DEF DestructorSteps, JoinPeriodic, JoinServer, served
  <2>2. UNCHANGED <<periodic, owners>>
    BY <1>2, Zenon DEF DestructorSteps, JoinPeriodic, JoinServer
  <2> QED
    BY <2>1, <2>2, ThreadNumbers DEF Places, Owner
<1>3. CASE PeriodicSteps
  <2>1. CASE PeriodicTop \/ CheckServer \/ JoinOld \/ Wake
    <3>1. periodic' \in {"ended", "round", "sleep", "joining", "restart", "top"}
      BY <2>1, Zenon DEF PeriodicTop, CheckServer, JoinOld, Wake
    <3>2. UNCHANGED <<main, serverThread, owners>>
      BY <2>1 DEF PeriodicTop, CheckServer, JoinOld, Wake, served, memory
    <3> QED
      BY <3>1, <3>2 DEF Places
  <2>2. CASE Stabilize \/ FixFingers
    BY <2>2, AbortPlaces DEF Stabilize, FixFingers, Places, Owner, served, memory
  <2>3. CASE Notified \/ Fixed
    BY <2>3, ReleasePlaces DEF Notified, Fixed
  <2>4. CASE RestartServer
    <3>1. periodic' = "sleep" /\ serverThread' \in ServerNo /\ UNCHANGED <<main, owners>>
      BY <2>4, Zenon DEF RestartServer, memory
    <3> QED
      BY <3>1, ThreadNumbers DEF Places, Owner
  <2> QED
    BY <1>3, <2>1, <2>2, <2>3, <2>4 DEF PeriodicSteps
<1>4. ASSUME NEW k \in ServerNo, ServerSteps(k) \/ Accept(k) \/ AcceptFails(k)
      PROVE  Places'
  BY <1>4 DEF ServerSteps, ServerBegin, ServerLoop, ServerEnd, ServerReturn, AcceptFails, Accept,
              Places, memory
<1>5. ASSUME NEW h \in Handler, HandlerSteps(h)
      PROVE  Places'
  <2>1. CASE HandlerHold(h) \/ HandlerEnd(h)
    BY <2>1 DEF HandlerHold, HandlerEnd, Places, Owner, served, memory
  <2>2. CASE HandlerRelease(h)
    BY <2>2 DEF HandlerRelease, Release, Places, Owner, served
  <2>3. CASE HandlerAfterFree(h)
    BY <2>3, AbortPlaces DEF HandlerAfterFree
  <2> QED
    BY <1>5, <2>1, <2>2, <2>3 DEF HandlerSteps
<1>6. CASE UNCHANGED vars
  BY <1>6 DEF vars, Places, served, memory
<1> QED
  BY <1>1, <1>2, <1>3, <1>4, <1>5, <1>6 DEF Next

LEMMA StepFlags ==
  ASSUME Flags, [Next]_vars
  PROVE  Flags'
<1> USE DEF Flags
<1>1. ASSUME NEW how, Gone(how)
      PROVE  Flags'
  BY <1>1, Zenon DEF Gone
<1>2. ASSUME Abort
      PROVE  Flags'
  BY <1>1, <1>2, Zenon DEF Abort
<1>3. ASSUME NEW x, NEW S, Release(x, S)
      PROVE  stop' \in BOOLEAN
  BY <1>3, Zenon DEF Release
<1>4. CASE MainSteps \/ Quit
  <2>1. CASE Unwind
    BY <1>3, <2>1, Zenon DEF Unwind, served
  <2>2. CASE Exit
    BY <1>1, <2>2, Zenon DEF Exit
  <2>3. CASE InitPeriodic \/ InitServer \/ AssignServer \/ Own \/ Chat \/ Refused \/ Quit
    BY <2>3, Zenon DEF InitPeriodic, InitServer, AssignServer, Own, Chat, Refused, Quit, served,
                       memory
  <2> QED
    BY <1>4, <2>1, <2>2, <2>3, Zenon DEF MainSteps
<1>5. CASE DestructorSteps
  BY <1>5, Zenon DEF DestructorSteps, JoinPeriodic, JoinServer, served
<1>6. CASE PeriodicSteps
  <2>1. CASE PeriodicTop \/ CheckServer \/ JoinOld \/ Wake
    BY <2>1, Zenon DEF PeriodicTop, CheckServer, JoinOld, Wake, served, memory
  <2>2. CASE Stabilize \/ FixFingers
    BY <1>2, <2>2, Zenon DEF Stabilize, FixFingers, served, memory
  <2>3. CASE Notified \/ Fixed
    BY <1>2, <2>3, Zenon DEF Notified, Fixed, PeriodicRelease, served
  <2>4. CASE RestartServer
    BY <2>4, Zenon DEF RestartServer, memory
  <2> QED
    BY <1>6, <2>1, <2>2, <2>3, <2>4, Zenon DEF PeriodicSteps
<1>7. ASSUME NEW k \in ServerNo, ServerSteps(k) \/ Accept(k) \/ AcceptFails(k)
      PROVE  Flags'
  BY <1>7, Zenon DEF ServerSteps, ServerBegin, ServerLoop, ServerEnd, ServerReturn, AcceptFails,
                     Accept, memory
<1>8. ASSUME NEW h \in Handler, HandlerSteps(h)
      PROVE  Flags'
  <2>1. CASE HandlerHold(h) \/ HandlerEnd(h)
    BY <2>1, Zenon DEF HandlerHold, HandlerEnd, served, memory
  <2>2. CASE HandlerRelease(h)
    BY <1>3, <2>2, Zenon DEF HandlerRelease, served
  <2>3. CASE HandlerAfterFree(h)
    BY <1>2, <2>3, Zenon DEF HandlerAfterFree
  <2> QED
    BY <1>8, <2>1, <2>2, <2>3, Zenon DEF HandlerSteps
<1>9. CASE UNCHANGED vars
  BY <1>9, Zenon DEF vars, served, memory
<1> QED
  BY <1>4, <1>5, <1>6, <1>7, <1>8, <1>9, Zenon DEF Next

(* Every variable keeps its type; in particular ~LocalNode is run by main  *)
(* or by a handler, never by the maintenance thread that it joins.         *)
THEOREM TypeCorrect == Spec => []TypeOK
<1>1. Init => Places
  BY LifecycleAssumption DEF Init, Places
<1>2. Init => Flags
  BY Zenon DEF Init, Flags
<1>3. Inv => Shape
  BY DEF Inv
<1>4. Spec => []Places
  BY <1>1, StepPlaces, PTL DEF Spec
<1>5. Spec => []Flags
  BY <1>2, StepFlags, PTL DEF Spec
<1> QED
  BY <1>3, <1>4, <1>5, AlwaysInv, TypeParts, PTL
=============================================================================
