-------------------------------- MODULE Ring --------------------------------
(***************************************************************************)
(* A network of LocalNodes: the maintenance thread of each node            *)
(* (LocalNode::periodic), the main thread, which joins (LocalNode::join)   *)
(* and then sends chat messages (ChatClient::send), the threads that serve *)
(* requests (LocalNode::handleRequest) and the calls between them (class   *)
(* RemoteNode).                                                            *)
(*                                                                         *)
(* A step is the longest piece of a thread that reads or writes shared     *)
(* state once: one critical section of _m, or one remote call, whose       *)
(* effect is that of the critical section its handler runs at the callee.  *)
(***************************************************************************)
EXTENDS FingerTable, Sequences

CONSTANTS
  Node,         \* identifiers of the nodes that may take part
  Id,           \* identifiers: those of nodes and those looked up
  Founders,     \* the nodes that have formed a ring to begin with, if any
  Creator,      \* the node that is started without a node to join
  Start,        \* Start[n][k]: what FingerTable::start(k) computes at n
  Talk,         \* Talk[n]: the identifiers the user of n sends messages to
  MaxFails,     \* bound on the processes that are killed
  MaxGlitches,  \* bound on the remote calls that fail on a live callee
  Timely,       \* is every remote call done within TIME_PERIOD?
  LiveContact   \* does a user join only through a node that is running?

ASSUME RingAssumption ==
  /\ Id \subseteq Nat
  /\ Node \subseteq Id
  /\ Founders \subseteq Node
  /\ Creator \in Node
  /\ Nil \notin Id
  /\ Start \in [Node -> [Index -> Id]]
  /\ Talk \in [Node -> SUBSET Id]
  /\ MaxFails \in Nat
  /\ MaxGlitches \in Nat
  /\ Timely \in BOOLEAN
  /\ LiveContact \in BOOLEAN

(* An ID has 160 bits: there is a largest one.                             *)
ASSUME IdAssumption == \E top \in Id : \A id \in Id : id =< top

VARIABLES
  node,     \* node[n]: the process of n, its LocalNode and its threads
  call,     \* call[<<n, r>>]: the findSuccessor that thread r of n waits for
  note,     \* note[n]: the last notify that n sent, until it is handled
  glitches  \* remote calls that failed on a live callee so far

vars == <<node, call, note, glitches>>

-----------------------------------------------------------------------------
(* The state of a process.                                                 *)

(* Why a process that is not up is down: it was killed, or one of its      *)
(* threads dereferenced a null Node while it served GET_PREDECESSOR,       *)
(* FIND_SUCCESSOR or NOTIFY, while it sent a chat message, or in           *)
(* findSuccessor, its successor having been read amid a write.             *)
Segv == {"segvPredecessor", "segvSuccessor", "segvNotify", "segvSend", "segvTable"}

Status == {"off", "up", "killed"} \union Segv

(* Where the maintenance thread is: in its first round or asleep after a   *)
(* round; about to clear the predecessor; in stabilize: at the ping, the   *)
(* getPredecessor, the interval test, the setSuccessor, the notify; in     *)
(* fixFingers: before and during its findSuccessor.                        *)
PeriodicPc == {"none", "first", "sleep", "clear", "ping", "get", "test",
               "set", "notify", "fix", "find"}

(* Where the main thread is: before join, waiting for its findSuccessor,   *)
(* at the prompt of the chat loop, in ChatClient::send.                    *)
MainPc == {"none", "join", "wait", "run", "send"}

Role == {"main", "periodic"}

Thread == Node \X Role

Maybe(S) == S \union {Nil}

Process == [status : Status, pred : Maybe(Node), finger : [Index -> Maybe(Node)],
            ppc : PeriodicPc, mpc : MainPc, x : Maybe(Node), k : Index]

(* A findSuccessor in progress.  path is the chain of nodes the call went  *)
(* through: the caller, then every node whose handler waits for the next.  *)
(* "connect": the caller is about to send it; "succ", "scan": the last     *)
(* node of path compares with its successor, searches its fingers and is   *)
(* at index i; "return": the last node of path has the result res.         *)
Call == [at : {"idle", "connect", "succ", "scan", "return"},
         key : Maybe(Id), path : Seq(Node), res : Maybe(Node), i : Index]

(* A notify: the handler at node to is about to make its null test, its    *)
(* interval test, its assignment.                                          *)
Note == [at : {"idle", "null", "between", "set"}, to : Maybe(Node)]

NoCall == [at |-> "idle", key |-> Nil, path |-> <<>>, res |-> Nil, i |-> 0]

NoNote == [at |-> "idle", to |-> Nil]

Off == [status |-> "off", pred |-> Nil, finger |-> EmptyTable,
        ppc |-> "none", mpc |-> "none", x |-> Nil, k |-> 0]

Corpse(why) == [Off EXCEPT !.status = why]

Up(n) == node[n].status = "up"

Joined(n) == node[n].mpc \in {"run", "send"}

succ(n) == successorOf(node[n].finger, n)

Here(th) == call[th].path[Len(call[th].path)]

-----------------------------------------------------------------------------
(* Helpers of the actions.                                                 *)

(* A remote call to node t.  It fails (sendMessage catches the exception   *)
(* and returns "", ping returns false) when t is down, and may fail when   *)
(* t is up.                                                                *)
Reach(t, ok) ==
  \/ ok /\ Up(t) /\ UNCHANGED glitches
  \/ ~ok /\ ~Up(t) /\ UNCHANGED glitches
  \/ ~ok /\ Up(t) /\ glitches < MaxGlitches /\ glitches' = glitches + 1

(* RemoteNode::ping: sendMessage is told to throw, and ping turns the      *)
(* exception into false.                                                   *)
ping(t, ok) == Reach(t, ok)

(* What is left of the calls and the notifies when process t stops: its    *)
(* own threads and the handlers it ran are gone; handlers of other nodes   *)
(* that work for t go on.                                                  *)
CallsWithout(t) ==
  [th \in Thread |->
     IF th[1] = t /\ (call[th].at = "connect" \/ Len(call[th].path) < 2)
     THEN NoCall ELSE call[th]]

NotesWithout(t) == [m \in Node |-> IF note[m].to = t THEN NoNote ELSE note[m]]

(* removeNode and fixFingers' setNode write the table of n, giving g,      *)
(* without the lock.  getSuccessor reads its first entry up to four times  *)
(* (the loop of getNode and its return, twice): when a lookup is there and *)
(* g empties that entry, one of the reads may see null after another did   *)
(* not.                                                                    *)
Torn(n, g) ==
  \E th \in Thread :
    /\ call[th].at = "succ" /\ Here(th) = n /\ call[th].key # n
    /\ getNode(node[n].finger, 0) # Nil
    /\ g[Min(Filled(node[n].finger, 0))] = Nil

(* What becomes of process n, otherwise p: the table is g; or the null was *)
(* read by the test of getSuccessor, which then stores n itself at index   *)
(* 0; or it was what getSuccessor returned, and the lookup dereferences    *)
(* it.                                                                     *)
Write(n, p, g) ==
  {[p EXCEPT !.finger = g]} \union
  IF Torn(n, g) THEN {[p EXCEPT !.finger = setNode(g, 0, n)], Corpse("segvTable")} ELSE {}

(* Process n becomes q and the calls become c, unless q has crashed.       *)
Becomes(n, q, c) ==
  /\ node' = [node EXCEPT ![n] = q]
  /\ IF q.status = "up" THEN call' = c /\ UNCHANGED note
                        ELSE call' = CallsWithout(n) /\ note' = NotesWithout(n)

(* TIME_PERIOD is ten seconds: where remote calls are faster than that,    *)
(* the maintenance thread wakes up after the join of its own node and      *)
(* after the notify it sent have been completed.                           *)
Settled(n) == Joined(n) /\ note[n].at = "idle"

-----------------------------------------------------------------------------
(* The process is started: main() constructs the LocalNode, whose          *)
(* constructor starts the maintenance thread, and joins through a node c   *)
(* if one is given.  c may itself be about to join, and may not be running *)
(* at all.                                                                 *)
StartNode(n) ==
  LET fresh(pc) == [Off EXCEPT !.status = "up", !.ppc = "first", !.mpc = pc]
  IN
  /\ node[n].status = "off"
  /\ \/ /\ n = Creator /\ Founders = {}
        /\ node' = [node EXCEPT ![n] = fresh("run")]
        /\ UNCHANGED call
     \/ \E c \in Node \ {n} :
          /\ LiveContact => Up(c)
          /\ node' = [node EXCEPT ![n] = fresh("join")]
          /\ call' = [call EXCEPT ![<<n, "main">>] =
                        [at |-> "connect", key |-> n, path |-> <<n, c>>, res |-> Nil, i |-> 0]]
  /\ UNCHANGED <<note, glitches>>

(* A process is killed.  It is not started again.                          *)
Fail(n) ==
  /\ Up(n)
  /\ Cardinality({m \in Node : node[m].status = "killed"}) < MaxFails
  /\ node' = [node EXCEPT ![n] = Corpse("killed")]
  /\ call' = CallsWithout(n)
  /\ note' = NotesWithout(n)
  /\ UNCHANGED glitches

(* join: setPredecessor(nullptr), then the remote findSuccessor is sent.   *)
JoinBegin(n) ==
  LET th == <<n, "main">>
  IN
  /\ node[n].mpc = "join" /\ call[th].at = "connect"
  /\ node' = [node EXCEPT ![n].pred = Nil, ![n].mpc = "wait"]
  /\ \E ok \in BOOLEAN :
       /\ Reach(Here(th), ok)
       /\ call' = [call EXCEPT ![th] =
                     IF ok THEN [@ EXCEPT !.at = "succ"]
                           ELSE [@ EXCEPT !.at = "return", !.path = <<n>>]]
  /\ UNCHANGED note

(* join: setSuccessor of the result, null if the call failed.              *)
JoinEnd(n) ==
  LET th == <<n, "main">>
  IN
  /\ node[n].mpc = "wait"
  /\ call[th].at = "return" /\ Len(call[th].path) = 1
  /\ node' = [node EXCEPT ![n].finger = setNode(@, 0, call[th].res), ![n].mpc = "run"]
  /\ call' = [call EXCEPT ![th] = NoCall]
  /\ UNCHANGED <<note, glitches>>

(* ChatClient::send: look the recipient up.                                *)
Send(n) ==
  /\ node[n].mpc = "run"
  /\ \E id \in Talk[n] :
       call' = [call EXCEPT ![<<n, "main">>] =
                  [at |-> "succ", key |-> id, path |-> <<n>>, res |-> Nil, i |-> 0]]
  /\ node' = [node EXCEPT ![n].mpc = "send"]
  /\ UNCHANGED <<note, glitches>>

(* ChatClient::send: read the identifier of the node found, null or not.   *)
(* What receive does then, if it is the recipient, is to print.            *)
SendEnd(n) ==
  LET th == <<n, "main">>
  IN
  /\ node[n].mpc = "send"
  /\ call[th].at = "return" /\ Len(call[th].path) = 1
  /\ \/ /\ call[th].res = Nil
        /\ node' = [node EXCEPT ![n] = Corpse("segvSend")]
        /\ call' = CallsWithout(n)
        /\ note' = NotesWithout(n)
     \/ /\ call[th].res # Nil
        /\ node' = [node EXCEPT ![n].mpc = "run"]
        /\ call' = [call EXCEPT ![th] = NoCall]
        /\ UNCHANGED note
  /\ UNCHANGED glitches

-----------------------------------------------------------------------------
(* A round of the maintenance thread.                                      *)

(* Mutants of CheckPredecessor: the result of the ping is negated; the     *)
(* successor is pinged.                                                    *)
CheckPredecessorNegated(n) ==
  LET p == node[n].pred
      goto(pc) == node' = [node EXCEPT ![n].ppc = pc]
  IN
  /\ node[n].ppc \in {"first", "sleep"}
  /\ Timely /\ node[n].ppc = "sleep" => Settled(n)
  /\ \/ p \in {Nil, n} /\ goto("ping") /\ UNCHANGED glitches
     \/ /\ p \notin {Nil, n}
        /\ \E ok \in BOOLEAN : ping(p, ok) /\ goto(IF ok THEN "clear" ELSE "ping")
  /\ UNCHANGED <<call, note>>

CheckPredecessorSuccessor(n) ==
  LET p == succ(n)
      goto(pc) == node' = [node EXCEPT ![n].ppc = pc]
  IN
  /\ node[n].ppc \in {"first", "sleep"}
  /\ Timely /\ node[n].ppc = "sleep" => Settled(n)
  /\ \/ p \in {Nil, n} /\ goto("ping") /\ UNCHANGED glitches
     \/ /\ p \notin {Nil, n}
        /\ \E ok \in BOOLEAN : ping(p, ok) /\ goto(IF ok THEN "ping" ELSE "clear")
  /\ UNCHANGED <<call, note>>

(* checkPredecessor: read the predecessor and ping it.                     *)
CheckPredecessor(n) ==
  LET p == node[n].pred
      goto(pc) == node' = [node EXCEPT ![n].ppc = pc]
  IN
  /\ node[n].ppc \in {"first", "sleep"}
  /\ Timely /\ node[n].ppc = "sleep" => Settled(n)
  /\ \/ p \in {Nil, n} /\ goto("ping") /\ UNCHANGED glitches
     \/ /\ p \notin {Nil, n}
        /\ \E ok \in BOOLEAN : ping(p, ok) /\ goto(IF ok THEN "ping" ELSE "clear")
  /\ UNCHANGED <<call, note>>

(* Mutant of ClearPredecessor: the predecessor is kept.                    *)
ClearPredecessorSkipped(n) ==
  /\ node[n].ppc = "clear"
  /\ node' = [node EXCEPT ![n].ppc = "ping"]
  /\ UNCHANGED <<call, note, glitches>>

(* checkPredecessor: the ping failed, setPredecessor(nullptr).             *)
ClearPredecessor(n) ==
  /\ node[n].ppc = "clear"
  /\ node' = [node EXCEPT ![n].pred = Nil, ![n].ppc = "ping"]
  /\ UNCHANGED <<call, note, glitches>>

(* Mutant of StabilizePing: the unreachable successor is not removed.      *)
StabilizePingKeeps(n) ==
  LET s == succ(n)
      f == withSuccessor(node[n].finger, n)
      alive == node' = [node EXCEPT ![n].finger = f, ![n].ppc = "get"]
  IN
  /\ node[n].ppc = "ping"
  /\ \/ s = n /\ alive /\ UNCHANGED glitches
     \/ s # n /\ ping(s, TRUE) /\ alive
     \/ s # n /\ ping(s, FALSE) /\ node' = [node EXCEPT ![n].finger = f]
  /\ UNCHANGED <<call, note>>

(* stabilize: ping the successor; remove it and try the next one when the  *)
(* ping fails.                                                             *)
StabilizePing(n) ==
  LET s == succ(n)
      f == withSuccessor(node[n].finger, n)
      alive == /\ node' = [node EXCEPT ![n].finger = f, ![n].ppc = "get"]
               /\ UNCHANGED <<call, note>>
  IN
  /\ node[n].ppc = "ping"
  /\ \/ s = n /\ alive /\ UNCHANGED glitches
     \/ s # n /\ ping(s, TRUE) /\ alive
     \/ /\ s # n /\ ping(s, FALSE)
        /\ \E g \in removeNode(f, s) : \E q \in Write(n, node[n], g) : Becomes(n, q, call)

(* What stabilize does with the answer x: keep it for the test.  The call  *)
(* of getSuccessor has filled an empty table.                              *)
Got(n, x) ==
  [node EXCEPT ![n].finger = withSuccessor(@, n), ![n].ppc = "test", ![n].x = x]

(* RemoteNode::getPredecessor of node s: null when there is no reply.  The *)
(* handler at s calls serialize() on its predecessor, which is null when   *)
(* it has none: its process ends, and the caller gets no reply.            *)
RemoteGetPredecessor(n, s) ==
  \/ /\ Reach(s, FALSE)
     /\ node' = Got(n, Nil)
     /\ UNCHANGED <<call, note>>
  \/ /\ Reach(s, TRUE) /\ node[s].pred # Nil
     /\ node' = Got(n, node[s].pred)
     /\ UNCHANGED <<call, note>>
  \/ /\ Reach(s, TRUE) /\ node[s].pred = Nil
     /\ node' = [Got(n, Nil) EXCEPT ![s] = Corpse("segvPredecessor")]
     /\ call' = CallsWithout(s)
     /\ note' = NotesWithout(s)

(* stabilize: x = getSuccessor()->getPredecessor().                        *)
StabilizeGet(n) ==
  /\ node[n].ppc = "get"
  /\ \/ /\ succ(n) = n
        /\ node' = Got(n, node[n].pred)
        /\ UNCHANGED <<call, note, glitches>>
     \/ succ(n) # n /\ RemoteGetPredecessor(n, succ(n))

(* Mutant of StabilizeTest: the interval test is dropped.                  *)
StabilizeTestNull(n) ==
  /\ node[n].ppc = "test"
  /\ node' = [node EXCEPT ![n] =
                IF node[n].x # Nil THEN [@ EXCEPT !.ppc = "set"]
                                   ELSE [@ EXCEPT !.ppc = "notify", !.x = Nil]]
  /\ UNCHANGED <<call, note, glitches>>

(* stabilize: is x between this node and its successor?                    *)
StabilizeTest(n) ==
  LET x == node[n].x
      f == withSuccessor(node[n].finger, n)
  IN
  /\ node[n].ppc = "test"
  /\ node' = IF x # Nil /\ InInterval(x, n, succ(n))
             THEN [node EXCEPT ![n].finger = f, ![n].ppc = "set"]
             ELSE [node EXCEPT ![n].finger = f, ![n].ppc = "notify", ![n].x = Nil]
  /\ UNCHANGED <<call, note, glitches>>

(* stabilize: setSuccessor(x).                                             *)
StabilizeSet(n) ==
  /\ node[n].ppc = "set"
  /\ node' = [node EXCEPT ![n].finger = setNode(@, 0, node[n].x),
                          ![n].ppc = "notify", ![n].x = Nil]
  /\ UNCHANGED <<call, note, glitches>>

(* stabilize: getSuccessor()->notify(thisPtr()).  A remote notify is only  *)
(* sent: nobody waits for its handler, and nobody learns that it failed.   *)
(* At most one notify of a sender is under way.                            *)
StabilizeNotify(n) ==
  LET s == succ(n)
      sent == note' = [note EXCEPT ![n] = [at |-> "null", to |-> s]]
  IN
  /\ node[n].ppc = "notify"
  /\ note[n].at = "idle"
  /\ node' = [node EXCEPT ![n].finger = withSuccessor(@, n), ![n].ppc = "fix"]
  /\ \/ s = n /\ sent /\ UNCHANGED glitches
     \/ s # n /\ Reach(s, TRUE) /\ sent
     \/ s # n /\ Reach(s, FALSE) /\ UNCHANGED note
  /\ UNCHANGED call

(* Mutant of FixFingers: the start of the entry below is looked up.        *)
FixFingersBelow(n) ==
  /\ node[n].ppc = "fix"
  /\ note[n].to # n
  /\ \E k \in 1 .. M - 2 :
       /\ node' = [node EXCEPT ![n].ppc = "find", ![n].k = k]
       /\ call' = [call EXCEPT ![<<n, "periodic">>] =
                     [at |-> "succ", key |-> Start[n][k - 1], path |-> <<n>>, res |-> Nil, i |-> 0]]
  /\ UNCHANGED <<note, glitches>>

(* fixFingers: pick an index, rand() % (M - 2) + 1, and look up its start. *)
(* A notify to the node itself is an ordinary call and has returned.       *)
FixFingers(n) ==
  /\ node[n].ppc = "fix"
  /\ note[n].to # n
  /\ \E k \in 1 .. M - 2 :
       /\ node' = [node EXCEPT ![n].ppc = "find", ![n].k = k]
       /\ call' = [call EXCEPT ![<<n, "periodic">>] =
                     [at |-> "succ", key |-> Start[n][k], path |-> <<n>>, res |-> Nil, i |-> 0]]
  /\ UNCHANGED <<note, glitches>>

(* Mutant of FixFingersSet: the entry below is set.                        *)
FixFingersSetBelow(n) ==
  LET th == <<n, "periodic">>
  IN
  /\ node[n].ppc = "find"
  /\ call[th].at = "return" /\ Len(call[th].path) = 1
  /\ node' = [node EXCEPT ![n].finger = setNode(@, node[n].k - 1, call[th].res),
                          ![n].ppc = "sleep", ![n].k = 0]
  /\ call' = [call EXCEPT ![th] = NoCall]
  /\ UNCHANGED <<note, glitches>>

(* fixFingers: setNode of the result, null if a call failed; the round is  *)
(* over.                                                                   *)
FixFingersSet(n) ==
  LET th == <<n, "periodic">>
      g  == setNode(node[n].finger, node[n].k, call[th].res)
  IN
  /\ node[n].ppc = "find"
  /\ call[th].at = "return" /\ Len(call[th].path) = 1
  /\ \E q \in Write(n, [node[n] EXCEPT !.ppc = "sleep", !.k = 0], g) :
       Becomes(n, q, [call EXCEPT ![th] = NoCall])
  /\ UNCHANGED glitches

-----------------------------------------------------------------------------
(* findSuccessor, at the last node of the path of the call.                *)

(* Mutant of FindSuccessor: it answers the identifier, not the node.       *)
FindSuccessorId(th) ==
  LET a   == Here(th)
      key == call[th].key
  IN
  /\ call[th].at = "succ" /\ Up(a)
  /\ node' = [node EXCEPT ![a].finger = withSuccessor(@, a)]
  /\ IF InHalfOpen(key, a, succ(a))
     THEN call' = [call EXCEPT ![th].at = "return", ![th].res = key]
     ELSE call' = [call EXCEPT ![th].at = "scan", ![th].i = M - 1]
  /\ UNCHANGED <<note, glitches>>

(* This node, or its successor, is the answer, or the call is to be        *)
(* forwarded.                                                              *)
FindSuccessor(th) ==
  LET a   == Here(th)
      key == call[th].key
      s   == succ(a)
      answer(r) == call' = [call EXCEPT ![th].at = "return", ![th].res = r]
  IN
  /\ call[th].at = "succ" /\ Up(a)
  /\ \/ a = key /\ answer(a) /\ UNCHANGED node
     \/ /\ a # key
        /\ node' = [node EXCEPT ![a].finger = withSuccessor(@, a)]
        /\ IF InHalfOpen(key, a, s) THEN answer(s)
             ELSE call' = [call EXCEPT ![th].at = "scan", ![th].i = M - 1]
  /\ UNCHANGED <<note, glitches>>

(* Mutant of Forward: the finger itself is the answer.                     *)
ForwardAnswers(th, f) ==
  /\ call' = [call EXCEPT ![th].at = "return", ![th].res = f, ![th].i = 0]
  /\ UNCHANGED glitches

(* Mutant of Forward: an unreachable finger is tried again.                *)
ForwardRetries(th, f) ==
  \/ /\ Reach(f, TRUE)
     /\ call' = [call EXCEPT ![th].at = "succ", ![th].path = Append(@, f), ![th].i = 0]
  \/ Reach(f, FALSE) /\ UNCHANGED call

(* findSuccessor goes on at finger f: null when f cannot be reached.       *)
Forward(th, f) ==
  \/ /\ Reach(f, TRUE)
     /\ call' = [call EXCEPT ![th].at = "succ", ![th].path = Append(@, f), ![th].i = 0]
  \/ /\ Reach(f, FALSE)
     /\ call' = [call EXCEPT ![th].at = "return", ![th].res = Nil, ![th].i = 0]

(* The call of thread th has come back to it with null.                    *)
Nulled(th) == call[th].at = "return" /\ Len(call[th].path) = 1 /\ call[th].res = Nil

(* The entries of n that one of its threads is about to empty: removeNode  *)
(* in stabilize, setNode in fixFingers, setSuccessor in join.              *)
Doomed(n) ==
  LET s == succ(n)
  IN  {j \in Index :
         \/ /\ node[n].ppc = "ping" /\ node[n].finger[j] = s /\ s # n
            /\ ~Up(s) \/ glitches < MaxGlitches
         \/ node[n].ppc = "find" /\ node[n].k = j /\ Nulled(<<n, "periodic">>)
         \/ node[n].mpc = "wait" /\ j = 0 /\ Nulled(<<n, "main">>)}

(* closestPrecedingFinger looks at one entry, without the lock: the table  *)
(* may change between two entries, and between the two reads that getNode  *)
(* makes of an entry: it then returns null.  When no finger precedes the   *)
(* key this node is returned, and findSuccessor calls itself.              *)
Scan(th) ==
  LET a == Here(th)
      i == call[th].i
      f == getNode(node[a].finger, i)
  IN
  /\ call[th].at = "scan" /\ Up(a)
  /\ \/ precedes(f, a, call[th].key) /\ Forward(th, f)
     \/ /\ precedes(f, a, call[th].key) => Min(Filled(node[a].finger, i)) \in Doomed(a)
        /\ call' = IF i > 0 THEN [call EXCEPT ![th].i = i - 1]
                            ELSE [call EXCEPT ![th].at = "succ"]
        /\ UNCHANGED glitches
  /\ UNCHANGED <<node, note>>

(* The node that was working on the call is gone: no reply.                *)
HopLost(th) ==
  /\ call[th].at \in {"succ", "scan"} /\ ~Up(Here(th))
  /\ call' = [call EXCEPT ![th].at = "return", ![th].res = Nil, ![th].i = 0]
  /\ UNCHANGED <<node, note, glitches>>

(* The reply of a node of the path to the node before it.  The handler     *)
(* calls serialize() on the result, null or not; a node that is gone       *)
(* replies nothing.                                                        *)
Reply(th) ==
  LET a == Here(th)
      p == call[th].path
      back == IF Len(p) = 2 /\ ~Up(p[1]) THEN NoCall
              ELSE [call[th] EXCEPT !.path = SubSeq(p, 1, Len(p) - 1),
                                    !.res = IF Up(a) THEN @ ELSE Nil]
  IN
  /\ call[th].at = "return" /\ Len(p) > 1
  /\ \/ /\ Up(a) /\ call[th].res = Nil
        /\ node' = [node EXCEPT ![a] = Corpse("segvSuccessor")]
        /\ call' = [CallsWithout(a) EXCEPT ![th] = back]
        /\ note' = NotesWithout(a)
     \/ /\ ~(Up(a) /\ call[th].res = Nil)
        /\ call' = [call EXCEPT ![th] = back]
        /\ UNCHANGED <<node, note>>
  /\ UNCHANGED glitches

-----------------------------------------------------------------------------
(* LocalNode::notify at the receiver of the notify that m sent.            *)

(* Mutant of NotifyNull: the interval test is never made.                  *)
NotifyNullOnly(m) ==
  LET t == note[m].to
  IN
  /\ note[m].at = "null"
  /\ note' = [note EXCEPT ![m] = IF node[t].pred = Nil THEN [@ EXCEPT !.at = "set"]
                                                      ELSE NoNote]
  /\ UNCHANGED <<node, call, glitches>>

(* getPredecessor() == nullptr                                             *)
NotifyNull(m) ==
  LET t == note[m].to
  IN
  /\ note[m].at = "null"
  /\ note' = [note EXCEPT ![m].at = IF node[t].pred = Nil THEN "set" ELSE "between"]
  /\ UNCHANGED <<node, call, glitches>>

(* isInInterval(getPredecessor()->getId(), getId()): the predecessor is    *)
(* read again, and may be null by now.                                     *)
NotifyBetween(m) ==
  LET t == note[m].to
      p == node[t].pred
  IN
  /\ note[m].at = "between"
  /\ \/ /\ p = Nil
        /\ node' = [node EXCEPT ![t] = Corpse("segvNotify")]
        /\ call' = CallsWithout(t)
        /\ note' = NotesWithout(t)
     \/ /\ p # Nil
        /\ note' = [note EXCEPT ![m] = IF InInterval(m, p, t)
                                       THEN [@ EXCEPT !.at = "set"] ELSE NoNote]
        /\ UNCHANGED <<node, call>>
  /\ UNCHANGED glitches

(* setPredecessor(n)                                                       *)
NotifySet(m) ==
  /\ note[m].at = "set"
  /\ node' = [node EXCEPT ![note[m].to].pred = m]
  /\ note' = [note EXCEPT ![m] = NoNote]
  /\ UNCHANGED <<call, glitches>>

-----------------------------------------------------------------------------
(* The ring the protocol is to build on a set S of nodes.                  *)

(* The node of S that follows node n.                                      *)
Following(S, n) == IF S = {n} THEN n ELSE Closest(S \ {n}, n)

(* A founder: its network has stabilized, its successor and predecessor p  *)
(* are those of the ring, and the fingers in F have been fixed.            *)
Settle(n, p, F) ==
  [Off EXCEPT
     !.status = "up", !.ppc = "sleep", !.mpc = "run", !.pred = p,
     !.finger = [k \in Index |->
                   IF k = 0 THEN Following(Founders, n)
                   ELSE IF k \in F THEN Closest(Founders, Start[n][k]) ELSE Nil]]

Init ==
  /\ \E fixed \in [Founders -> SUBSET (1 .. M - 2)], before \in [Founders -> Founders] :
       /\ \A n \in Founders : before[Following(Founders, n)] = n
       /\ node = [n \in Node |-> IF n \in Founders THEN Settle(n, before[n], fixed[n])
                                                  ELSE Off]
  /\ call = [th \in Thread |-> NoCall]
  /\ note = [n \in Node |-> NoNote]
  /\ glitches = 0

Periodic(n) ==
  \/ CheckPredecessor(n) \/ ClearPredecessor(n)
  \/ StabilizePing(n) \/ StabilizeGet(n) \/ StabilizeTest(n)
  \/ StabilizeSet(n) \/ StabilizeNotify(n)
  \/ FixFingers(n) \/ FixFingersSet(n)

Main(n) == JoinBegin(n) \/ JoinEnd(n) \/ SendEnd(n)

Lookup(th) == FindSuccessor(th) \/ Scan(th) \/ HopLost(th) \/ Reply(th)

Notify(m) == NotifyNull(m) \/ NotifyBetween(m) \/ NotifySet(m)

Next ==
  \/ \E n \in Node : StartNode(n) \/ Fail(n) \/ Send(n) \/ Main(n) \/ Periodic(n) \/ Notify(n)
  \/ \E th \in Thread : Lookup(th)

Spec == Init /\ [][Next]_vars

(* The operating system runs every thread, and a thread that waits for a   *)
(* reply those that serve it; nothing forces a user to start or to kill a  *)
(* process or to send a message.                                           *)
Fairness ==
  \A n \in Node : /\ WF_vars(Main(n) \/ Lookup(<<n, "main">>))
                 /\ WF_vars(Periodic(n) \/ Lookup(<<n, "periodic">>))
                 /\ WF_vars(Notify(n))

FairSpec == Spec /\ Fairness

(* rand() picks every index it can pick again and again.                   *)
RandSpec ==
  FairSpec /\ \A n \in Node : \A k \in 1 .. M - 2 :
                SF_vars(FixFingers(n) /\ node'[n].k = k)

-----------------------------------------------------------------------------
TypeOK ==
  /\ node \in [Node -> Process]
  /\ call \in [Thread -> Call]
  /\ note \in [Node -> Note]
  /\ glitches \in 0 .. MaxGlitches

-----------------------------------------------------------------------------
(* Lookups.                                                                *)

(* A lookup never comes back to a node it went through: every node it is   *)
(* forwarded to lies strictly between the forwarder and the key, whatever  *)
(* the finger tables hold and however they change meanwhile.               *)
LookupAdvances ==
  \A th \in Thread : LET c == call[th] IN
    \A i, j \in 1 .. Len(c.path) :
      i < j => /\ c.path[i] # c.path[j]
               /\ InInterval(c.path[j], c.path[i], c.key)

(* Was a process killed?                                                   *)
Damaged == \E n \in Node : node[n].status = "killed"

(* What each thread looks up, and what was found for it.                   *)
Question == [th \in Thread |-> call[th].key]

Found == [th \in Thread |-> IF call[th].at = "return" THEN {call[th].res} ELSE {}]

Lookups == INSTANCE Directory WITH
  Asker <- Thread, Member <- Node, Key <- Id, None <- Nil,
  question <- Question, answer <- Found, damaged <- Damaged

(* In a network that has stabilized, findSuccessor is a directory: its     *)
(* chain of hops over tables that are being fixed meanwhile looks to the   *)
(* caller like one look into the set of all nodes, until a process is      *)
(* killed.                                                                 *)
LookupIsDirectory == Lookups!Spec

(* findSuccessor returns to its caller, or is given up with it: no chain   *)
(* of handlers waits for ever, whatever processes die and calls fail.      *)
LookupsEnd ==
  \A th \in Thread : []<>(call[th].at = "idle")

-----------------------------------------------------------------------------
(* Maintenance.                                                            *)

(* The maintenance thread never stops: every round ends, the loop over     *)
(* unreachable successors in stabilize included.                           *)
RoundsEnd ==
  \A n \in Node : []<>(node[n].ppc \in {"none", "sleep"})

(* Nodes that are gone are forgotten for good: once processes stop dying,  *)
(* stabilize and checkPredecessor drop them, and no answer that a node     *)
(* gave earlier brings one back.                                           *)
DeadForgotten ==
  \A n \in Node : <>[](Up(n) => /\ Up(succ(n))
                                /\ node[n].pred # Nil => Up(node[n].pred))

(* In a network that has stabilized, every finger fixFingers looks after   *)
(* comes to point to the successor of its start and does so for good.      *)
FingersConverge ==
  \A n \in Node : \A k \in 0 .. M - 2 :
    <>[](node[n].finger[k] = Closest(Node, Start[n][k]))

-----------------------------------------------------------------------------
(* Null nodes.                                                             *)

Crashed == \E n \in Node : node[n].status \in Segv

(* In a network that has stabilized, nobody dereferences a null node       *)
(* before a process was killed; and later a node is without a predecessor  *)
(* when it is asked for it, or loses it amid a notify, only if the node    *)
(* before it is down, and its successor is emptied under a lookup only if  *)
(* the node after it is.                                                   *)
CrashNeedsFailure ==
  /\ Crashed => Damaged
  /\ \A n \in Node :
       LET f == Following(Node, n)
       IN  /\ node[f].status \in {"segvPredecessor", "segvNotify"} => ~Up(n)
           /\ node[n].status = "segvTable" => ~Up(f)

(* In a network that has stabilized, a lookup comes back with null, which  *)
(* ends the process that serves it or sends a message, only if a node      *)
(* between this one and the key is down: lookups for keys this side of the *)
(* dead are answered.                                                      *)
NullNeedsDead ==
  \A th \in Thread : LET c == call[th] IN
    c.at = "return" /\ c.res = Nil /\ Up(Here(th)) =>
      \E m \in Node : ~Up(m) /\ InInterval(m, Here(th), c.key)

(* A single node that joins an established ring makes no process crash:    *)
(* whoever is asked for its predecessor has one by then.                   *)
NobodyCrashes == ~Crashed

(* "The reply message, or an empty string if none" (RemoteNode.h, of       *)
(* sendMessage): a node that has no predecessor says so when it is asked.  *)
PredecessorAnswered == \A n \in Node : node[n].status # "segvPredecessor"

-----------------------------------------------------------------------------
(* The shape of the ring.                                                  *)

Members == {n \in Node : Up(n) /\ Joined(n)}

(* The sets of members that the successor pointers do not leave.           *)
Closed == {S \in SUBSET Members : S # {} /\ \A n \in S : succ(n) \in S}

(* The cycles of the successor pointers: the least of these sets.          *)
Cycles ==
  LET C == Closed
  IN  {S \in C : \A T \in C : T \subseteq S => T = S}

(* Nodes that join one network stay in one network: at no time are there   *)
(* two groups of members whose successor pointers never meet.              *)
OneRing == ~Crashed => \A S, T \in Closed : S \intersect T # {}

(* The cycle visits its nodes in the order of their identifiers: it goes   *)
(* from a larger one to a smaller one only once.                           *)
OrderedRing ==
  ~Crashed => \A S \in Cycles : \A m, n \in S :
                succ(m) =< m /\ succ(n) =< n => m = n

(* While nobody fails, stabilize replaces the successor of a member only   *)
(* by a node closer to it, never by one farther round the ring, although   *)
(* the predecessor it acts on was read before.                             *)
SuccessorImproves ==
  [][\A n \in Members :
       succ(n)' # succ(n) => InInterval(succ(n)', n, succ(n))]_vars

(* Every node that is up has as successor and predecessor the nodes next   *)
(* to it among those that are up.                                          *)
Ideal ==
  \A n \in Node : Up(n) =>
    LET S == {m \in Node : Up(m)}
    IN  /\ succ(n) = Following(S, n)
        /\ node[n].pred \in S /\ Following(S, node[n].pred) = n

(* Maintenance never disturbs a ring that has formed, and a process that   *)
(* is killed disturbs only its neighbours: two nodes next to each other    *)
(* stay successor and predecessor of each other as long as both are up,    *)
(* whatever dies elsewhere, races and is read too early.                   *)
LinksLast ==
  \A n \in Node :
    LET f == Following(Node, n)
    IN  Up(n) /\ Up(f) => succ(n) = f /\ node[f].pred = n

(* Two notifies to one node have both passed the test in notify, which     *)
(* holds no lock between the test and the assignment: the assignment that  *)
(* comes last may undo the better one.                                     *)
NotifyRace ==
  \E m, q \in Node : /\ m # q /\ note[m].to = note[q].to
                     /\ note[m].at = "set" /\ note[q].at = "set"

(* Unless a process crashes, or notifies race for ever, the network        *)
(* becomes, and stays, the ideal ring of the nodes that are up.            *)
Converges == <>[](Crashed \/ Ideal) \/ []<>NotifyRace

(* "Join an existing network through the given Node" (INode.h, of join):   *)
(* a node whose join has returned has a successor other than itself, or    *)
(* will have one.                                                          *)
JoinTakesEffect ==
  \A n \in Node \ {Creator} : [](Joined(n) => <>(succ(n) # n))
=============================================================================
