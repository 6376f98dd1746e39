----------------------------- MODULE RingProofs -----------------------------
(***************************************************************************)
(* Theorems about module Ring, for every set of nodes, every size of the   *)
(* finger table and every bound on failures.                               *)
(***************************************************************************)
EXTENDS Ring, WellFoundedInduction, TLAPS

-----------------------------------------------------------------------------
(* Identifiers.                                                            *)

(* A step of a lookup from p to a and one from a to f, both towards key,   *)
(* make a step from p to f towards key, and f is not p.                    *)
LEMMA IntervalTransitive ==
  ASSUME NEW p \in Int, NEW a \in Int, NEW f \in Int, NEW key \in Int,
         InInterval(a, p, key), InInterval(f, a, key), a # key, a # p
  PROVE  f # p /\ InInterval(f, p, key)
BY DEF InInterval

-----------------------------------------------------------------------------
(* Finger tables.                                                          *)

(* A set of indexes that is not empty has a least element.                 *)
LEMMA MinIndex ==
  ASSUME NEW S \in SUBSET Index, S # {}
  PROVE  Min(S) \in S
<1>1. S \subseteq Nat
  BY MAssumption DEF Index
<1>2. PICK x \in S : \A y \in S : ~(<<y, x>> \in OpToRel(<, Nat))
  BY <1>1, NatLessThanWellFounded, WFMin
<1>3. ASSUME NEW y \in S
      PROVE  x =< y
  <2>1. ~(y < x)
    BY <1>1, <1>2 DEF OpToRel
  <2> QED
    BY <1>1, <2>1
<1> QED
  BY <1>3 DEF Min

Table == [Index -> Maybe(Node)]

(* getNode returns a node or null, successorOf a node.                     *)
LEMMA GetNodeType ==
  ASSUME NEW f \in Table, NEW k \in Index
  PROVE  getNode(f, k) \in Maybe(Node)
<1>1. CASE Filled(f, k) = {}
  BY <1>1 DEF getNode, Maybe
<1>2. CASE Filled(f, k) # {}
  <2>1. Min(Filled(f, k)) \in Index
    BY <1>2, MinIndex DEF Filled
  <2> QED
    BY <1>2, <2>1 DEF getNode, Table
<1> QED
  BY <1>1, <1>2

LEMMA SuccessorType ==
  ASSUME NEW f \in Table, NEW n \in Node
  PROVE  /\ successorOf(f, n) \in Node
         /\ withSuccessor(f, n) \in Table
<1>1. 0 \in Index
  BY MAssumption DEF Index
<1>2. getNode(f, 0) \in Maybe(Node)
  BY <1>1, GetNodeType
<1> QED
  BY <1>1, <1>2 DEF successorOf, withSuccessor, setNode, Table, Maybe

LEMMA SetNodeType ==
  ASSUME NEW f \in Table, NEW k \in Index, NEW n \in Maybe(Node)
  PROVE  setNode(f, k, n) \in Table
BY DEF setNode, Table

LEMMA RemoveNodeType ==
  ASSUME NEW f \in Table, NEW n, NEW g \in removeNode(f, n)
  PROVE  g \in Table
BY DEF removeNode, Table, Maybe

-----------------------------------------------------------------------------
(* Type correctness and the lookups.                                       *)

(* What makes LookupAdvances inductive: a findSuccessor under way has an   *)
(* identifier to look up and a node working on it, and a node that goes    *)
(* through its fingers is not itself the one looked for.                   *)
GoodCall(c) ==
  /\ c \in Call
  /\ c.at # "idle" => c.key \in Id /\ Len(c.path) > 0
  /\ c.at = "scan" => c.path[Len(c.path)] # c.key
  /\ \A i, j \in 1 .. Len(c.path) :
       i < j => c.path[i] # c.path[j] /\ InInterval(c.path[j], c.path[i], c.key)

(* The inductive invariant.                                                *)
NodesOK == node \in [Node -> Process]

CallsOK == call \in [Thread -> Call] /\ \A th \in Thread : GoodCall(call[th])

NotesOK == note \in [Node -> Note]

GlitchesOK == glitches \in 0 .. MaxGlitches

Inductive == NodesOK /\ CallsOK /\ NotesOK /\ GlitchesOK

LEMMA InductiveImplies == Inductive => TypeOK /\ LookupAdvances
BY DEF Inductive, NodesOK, CallsOK, NotesOK, GlitchesOK, TypeOK, LookupAdvances, GoodCall

(* What the invariant says of the record of one process.                   *)
LEMMA ProcessType ==
  ASSUME NodesOK, NEW n \in Node
  PROVE  /\ node[n] \in Process
         /\ node[n].finger \in Table
         /\ node[n].pred \in Maybe(Node)
         /\ node[n].x \in Maybe(Node)
         /\ node[n].k \in Index
         /\ succ(n) \in Node
         /\ withSuccessor(node[n].finger, n) \in Table
<1>1. /\ node[n] \in Process /\ node[n].finger \in Table
      /\ node[n].pred \in Maybe(Node) /\ node[n].x \in Maybe(Node)
      /\ node[n].k \in Index
  BY DEF NodesOK, Process, Table
<1> QED
  BY <1>1, SuccessorType DEF succ

LEMMA CorpseType ==
  ASSUME NEW why \in Status
  PROVE  Off \in Process /\ Corpse(why) \in Process
<1>1. 0 \in Index
  BY MAssumption DEF Index
<1> QED
  BY <1>1 DEF Off, Corpse, Process, Status, Segv, PeriodicPc, MainPc, Maybe, EmptyTable

(* Assigning fields of one process keeps the processes well typed.         *)
LEMMA FieldTypes ==
  ASSUME NEW g \in [Node -> Process], NEW n \in Node
  PROVE  /\ \A f \in Table : [g EXCEPT ![n].finger = f] \in [Node -> Process]
         /\ \A pc \in PeriodicPc : [g EXCEPT ![n].ppc = pc] \in [Node -> Process]
         /\ \A pc \in MainPc : [g EXCEPT ![n].mpc = pc] \in [Node -> Process]
         /\ \A p \in Maybe(Node) : [g EXCEPT ![n].pred = p] \in [Node -> Process]
         /\ \A x \in Maybe(Node) : [g EXCEPT ![n].x = x] \in [Node -> Process]
         /\ \A k \in Index : [g EXCEPT ![n].k = k] \in [Node -> Process]
<1>1. Process = [status : Status, pred : Maybe(Node), finger : Table,
                 ppc : PeriodicPc, mpc : MainPc, x : Maybe(Node), k : Index]
  BY DEF Process, Table
<1> QED
  BY <1>1

LEMMA NoCallGood == GoodCall(NoCall)
<1>1. 0 \in Index
  BY MAssumption DEF Index
<1> QED
  BY <1>1 DEF GoodCall, NoCall, Call, Maybe

(* A call that is just made at node n is good.                             *)
LEMMA NewCallGood ==
  ASSUME NEW n \in Node, NEW key \in Id
  PROVE  GoodCall([at |-> "succ", key |-> key, path |-> <<n>>, res |-> Nil, i |-> 0])
<1>1. 0 \in Index
  BY MAssumption DEF Index
<1> QED
  BY <1>1 DEF GoodCall, Call, Maybe

(* A call under way stays good when it moves on at the same node, and when *)
(* it returns with a result.                                               *)
LEMMA AtGood ==
  ASSUME NEW c, GoodCall(c), c.at # "idle",
         NEW at \in {"succ", "return"}, NEW res \in Maybe(Node), NEW i \in Index
  PROVE  /\ GoodCall([c EXCEPT !.at = at])
         /\ GoodCall([c EXCEPT !.i = i])
         /\ GoodCall([c EXCEPT !.at = at, !.res = res])
         /\ GoodCall([c EXCEPT !.at = at, !.res = res, !.i = i])
<1> DEFINE D == {[c EXCEPT !.at = at], [c EXCEPT !.at = at, !.res = res],
                 [c EXCEPT !.at = at, !.res = res, !.i = i]}
           e == [c EXCEPT !.i = i]
<1>1. c \in Call /\ c.key \in Id /\ Len(c.path) > 0
  BY DEF GoodCall
<1>2. ASSUME NEW d \in D
      PROVE  d \in Call /\ d.at = at /\ d.key = c.key /\ d.path = c.path
  BY <1>1 DEF Call
<1>3. e \in Call /\ e.at = c.at /\ e.key = c.key /\ e.path = c.path
  BY <1>1 DEF Call
<1>4. ASSUME NEW d \in D
      PROVE  GoodCall(d)
  <2> HIDE DEF D
  <2> QED
    BY <1>1, <1>2 DEF GoodCall
<1>5. GoodCall(e)
  <2> HIDE DEF e
  <2> QED
    BY <1>1, <1>3 DEF GoodCall
<1> QED
  BY <1>4, <1>5

(* A call that could not be sent is back at its caller.                    *)
LEMMA GiveUpGood ==
  ASSUME NEW c, GoodCall(c), c.at # "idle", NEW n \in Node
  PROVE  GoodCall([c EXCEPT !.at = "return", !.path = <<n>>])
<1> DEFINE p == <<n>>
           d == [c EXCEPT !.at = "return", !.path = p]
<1>1. c \in Call /\ c.key \in Id
  BY DEF GoodCall
<1>2. p \in Seq(Node) /\ Len(p) = 1
  OBVIOUS
<1> HIDE DEF p
<1>3. d \in Call /\ d.at = "return" /\ d.key \in Id /\ d.path = p
  BY <1>1, <1>2 DEF Call
<1> HIDE DEF d
<1>4. \A i, j \in 1 .. Len(p) : ~(i < j)
  BY <1>2
<1>5. \A i, j \in 1 .. Len(d.path) :
        i < j => d.path[i] # d.path[j] /\ InInterval(d.path[j], d.path[i], d.key)
  BY <1>3, <1>4
<1>6. d.at # "idle" /\ d.at # "scan" /\ Len(d.path) > 0
  BY <1>2, <1>3
<1>7. GoodCall(d)
  BY <1>3, <1>5, <1>6 DEF GoodCall
<1> QED
  BY <1>7 DEF d, p

(* Replacing one call by a good one, or dropping all that a process leaves.*)
LEMMA CallsExcept ==
  ASSUME CallsOK, NEW th \in Thread, NEW c, GoodCall(c), call' = [call EXCEPT ![th] = c]
  PROVE  CallsOK'
BY DEF CallsOK, GoodCall

LEMMA CallsDropped ==
  ASSUME CallsOK, NEW t, NEW th \in Thread, NEW c, GoodCall(c)
  PROVE  /\ call' = CallsWithout(t) => CallsOK'
         /\ call' = [CallsWithout(t) EXCEPT ![th] = c] => CallsOK'
<1> DEFINE C == CallsWithout(t)
<1>1. NoCall \in Call /\ c \in Call
  BY NoCallGood DEF GoodCall
<1>2. C \in [Thread -> Call] /\ \A h \in Thread : GoodCall(C[h])
  BY <1>1, NoCallGood DEF CallsOK, CallsWithout
<1>3. call' = C => CallsOK'
  BY <1>2 DEF CallsOK
<1>4. call' = [C EXCEPT ![th] = c] => CallsOK'
  <2> HIDE DEF C
  <2> QED
    BY <1>1, <1>2 DEF CallsOK
<1> QED
  BY <1>3, <1>4

LEMMA CallsSame ==
  ASSUME CallsOK, UNCHANGED call
  PROVE  CallsOK'
BY DEF CallsOK

LEMMA NotesDropped ==
  ASSUME NotesOK, NEW t, note' = NotesWithout(t)
  PROVE  NotesOK'
BY DEF NotesOK, NotesWithout, NoNote, Note, Maybe

LEMMA ReachGlitches ==
  ASSUME GlitchesOK, NEW t, NEW ok, Reach(t, ok)
  PROVE  GlitchesOK'
BY RingAssumption DEF GlitchesOK, Reach

-----------------------------------------------------------------------------
(* Every action keeps the invariant.                                       *)

LEMMA StartNodeStep ==
  ASSUME Inductive, NEW n \in Node, StartNode(n)
  PROVE  Inductive'
<1> DEFINE fresh(pc) == [Off EXCEPT !.status = "up", !.ppc = "first", !.mpc = pc]
           th == <<n, "main">>
<1> USE DEF Inductive
<1>1. th \in Thread /\ 0 \in Index
  BY MAssumption DEF Thread, Role, Index
<1>2. fresh("run") \in Process /\ fresh("join") \in Process
  <2>1. "off" \in Status /\ Off \in Process
    BY CorpseType DEF Status
  <2> QED
    BY <2>1 DEF Process, Status, PeriodicPc, MainPc, Off
<1>3. NodesOK' /\ NotesOK' /\ GlitchesOK'
  <2> HIDE DEF fresh
  <2>1. PICK pc \in {"run", "join"} : node' = [node EXCEPT ![n] = fresh(pc)]
    BY DEF StartNode, fresh
  <2> QED
    BY <1>2, <2>1 DEF StartNode, NodesOK, NotesOK, GlitchesOK
<1>4. CallsOK'
  <2>1. CASE UNCHANGED call
    BY <2>1, CallsSame
  <2>2. ASSUME NEW c \in Node \ {n},
               call' = [call EXCEPT ![th] =
                          [at |-> "connect", key |-> n, path |-> <<n, c>>, res |-> Nil,
                           i |-> 0]]
        PROVE  CallsOK'
    <3> DEFINE new == [at |-> "connect", key |-> n, path |-> <<n, c>>, res |-> Nil,
                           i |-> 0]
    <3>1. c \in Node /\ c # n
      OBVIOUS
    <3>2. n \in Id /\ n \in Int /\ InInterval(c, n, n)
      BY RingAssumption DEF InInterval
    <3>3. GoodCall(new)
      BY <1>1, <3>1, <3>2 DEF GoodCall, Call, Maybe
    <3> QED
      BY <1>1, <2>2, <3>3, CallsExcept
  <2> QED
    BY <2>1, <2>2 DEF StartNode
<1> QED
  BY <1>3, <1>4

LEMMA FailStep ==
  ASSUME Inductive, NEW n \in Node, Fail(n)
  PROVE  Inductive'
<1> USE DEF Inductive
<1>1. NodesOK'
  BY CorpseType DEF Fail, NodesOK, Status
<1>2. CallsOK'
  BY CallsDropped, NoCallGood DEF Fail, CallsOK, CallsWithout, GoodCall
<1>3. NotesOK' /\ GlitchesOK'
  BY NotesDropped DEF Fail, GlitchesOK
<1> QED
  BY <1>1, <1>2, <1>3

LEMMA JoinBeginStep ==
  ASSUME Inductive, NEW n \in Node, JoinBegin(n)
  PROVE  Inductive'
<1> DEFINE th == <<n, "main">>
<1> USE DEF Inductive
<1>1. th \in Thread /\ 0 \in Index
  BY MAssumption DEF Thread, Role, Index
<1>2. NodesOK' /\ NotesOK'
  BY DEF JoinBegin, NodesOK, NotesOK, Process, MainPc, Maybe
<1>3. PICK ok \in BOOLEAN :
        /\ Reach(Here(th), ok)
        /\ call' = [call EXCEPT ![th] =
                      IF ok THEN [@ EXCEPT !.at = "succ"]
                            ELSE [@ EXCEPT !.at = "return", !.path = <<n>>]]
  BY DEF JoinBegin
<1>4. GlitchesOK'
  BY <1>3, ReachGlitches
<1>5. CallsOK'
  <2> DEFINE c == IF ok THEN [call[th] EXCEPT !.at = "succ"]
                        ELSE [call[th] EXCEPT !.at = "return", !.path = <<n>>]
  <2>1. GoodCall(call[th]) /\ call[th].at = "connect"
    BY <1>1 DEF CallsOK, JoinBegin
  <2>2. GoodCall(c)
    <3>1. CASE ok
      BY <1>1, <2>1, <3>1, AtGood DEF Maybe
    <3>2. CASE ~ok
      BY <2>1, <3>2, GiveUpGood
    <3> QED
      BY <3>1, <3>2
  <2>3. call' = [call EXCEPT ![th] = c]
    BY <1>1, <1>3 DEF CallsOK
  <2> QED
    BY <1>1, <2>2, <2>3, CallsExcept
<1> QED
  BY <1>2, <1>4, <1>5

(* The call of a thread has come back with its result.                     *)
LEMMA ReturnedResult ==
  ASSUME CallsOK, NEW th \in Thread
  PROVE  call[th].res \in Maybe(Node)
BY DEF CallsOK, Call

LEMMA JoinEndStep ==
  ASSUME Inductive, NEW n \in Node, JoinEnd(n)
  PROVE  Inductive'
<1> DEFINE th == <<n, "main">>
<1> USE DEF Inductive
<1>1. th \in Thread /\ 0 \in Index
  BY MAssumption DEF Thread, Role, Index
<1>2. setNode(node[n].finger, 0, call[th].res) \in Table
  BY <1>1, ProcessType, ReturnedResult, SetNodeType
<1>3. NodesOK'
  BY <1>2 DEF JoinEnd, NodesOK, Process, MainPc, Table
<1>4. CallsOK'
  BY <1>1, NoCallGood, CallsExcept DEF JoinEnd
<1> QED
  BY <1>3, <1>4 DEF JoinEnd, NotesOK, GlitchesOK

LEMMA SendStep ==
  ASSUME Inductive, NEW n \in Node, Send(n)
  PROVE  Inductive'
<1> USE DEF Inductive
<1>1. NodesOK'
  BY DEF Send, NodesOK, Process, MainPc
<1>2. CallsOK'
  <2>1. PICK id \in Talk[n] :
          call' = [call EXCEPT ![<<n, "main">>] =
                     [at |-> "succ", key |-> id, path |-> <<n>>, res |-> Nil, i |-> 0]]
    BY DEF Send
  <2>2. id \in Id /\ <<n, "main">> \in Thread
    BY RingAssumption DEF Thread, Role
  <2> QED
    BY <2>1, <2>2, NewCallGood, CallsExcept
<1> QED
  BY <1>1, <1>2 DEF Send, NotesOK, GlitchesOK

LEMMA SendEndStep ==
  ASSUME Inductive, NEW n \in Node, SendEnd(n)
  PROVE  Inductive'
<1> DEFINE th == <<n, "main">>
<1> USE DEF Inductive
<1>1. th \in Thread
  BY DEF Thread, Role
<1>2. CASE call[th].res = Nil
  <2>1. NodesOK'
    BY <1>2, CorpseType DEF SendEnd, NodesOK, Status, Segv
  <2>2. CallsOK' /\ NotesOK'
    BY <1>1, <1>2, NoCallGood, CallsDropped, NotesDropped DEF SendEnd
  <2> QED
    BY <2>1, <2>2 DEF SendEnd, GlitchesOK
<1>3. CASE call[th].res # Nil
  <2>1. NodesOK'
    <3>1. node' = [node EXCEPT ![n].mpc = "run"]
      BY <1>3 DEF SendEnd
    <3> QED
      BY <3>1 DEF NodesOK, Process, MainPc
  <2>2. CallsOK'
    BY <1>1, <1>3, NoCallGood, CallsExcept DEF SendEnd
  <2> QED
    BY <1>3, <2>1, <2>2 DEF SendEnd, NotesOK, GlitchesOK
<1> QED
  BY <1>2, <1>3

-----------------------------------------------------------------------------
(* The round of the maintenance thread.                                    *)

LEMMA CheckPredecessorStep ==
  ASSUME Inductive, NEW n \in Node, CheckPredecessor(n) \/ ClearPredecessor(n)
  PROVE  Inductive'
<1> USE DEF Inductive
<1>1. CASE CheckPredecessor(n)
  <2>1. PICK pc \in PeriodicPc : node' = [node EXCEPT ![n].ppc = pc]
    BY <1>1 DEF CheckPredecessor, PeriodicPc
  <2>2. NodesOK'
    BY <2>1, FieldTypes DEF NodesOK
  <2>3. GlitchesOK'
    BY <1>1, ReachGlitches DEF CheckPredecessor, ping, GlitchesOK
  <2> QED
    BY <1>1, <2>2, <2>3, CallsSame DEF CheckPredecessor, NotesOK
<1>2. CASE ClearPredecessor(n)
  <2>1. NodesOK'
    BY <1>2, FieldTypes DEF ClearPredecessor, NodesOK, PeriodicPc, Maybe
  <2> QED
    BY <1>2, <2>1, CallsSame DEF ClearPredecessor, NotesOK, GlitchesOK
<1> QED
  BY <1>1, <1>2

(* A write of the table, torn or not, leaves a well typed process.         *)
LEMMA WriteType ==
  ASSUME NEW n \in Node, NEW p \in Process, NEW g \in Table, NEW q \in Write(n, p, g)
  PROVE  q \in Process
<1>1. setNode(g, 0, n) \in Table
  BY SetNodeType, MAssumption DEF Index, Maybe
<1>2. Corpse("segvTable") \in Process
  BY CorpseType DEF Status, Segv
<1>3. \A f \in Table : [p EXCEPT !.finger = f] \in Process
  BY DEF Process, Table
<1> QED
  BY <1>1, <1>2, <1>3 DEF Write

LEMMA BecomesGood ==
  ASSUME Inductive, NEW n \in Node, NEW q \in Process, NEW c,
         call' = c => CallsOK', Becomes(n, q, c), GlitchesOK'
  PROVE  Inductive'
<1> USE DEF Inductive
<1>1. NodesOK'
  BY DEF Becomes, NodesOK
<1>2. CASE q.status = "up"
  BY <1>1, <1>2 DEF Becomes, NotesOK
<1>3. CASE q.status # "up"
  <2>1. <<n, "main">> \in Thread
    BY DEF Thread, Role
  <2> QED
    BY <1>1, <1>3, <2>1, NoCallGood, CallsDropped, NotesDropped DEF Becomes
<1> QED
  BY <1>2, <1>3

LEMMA StabilizePingStep ==
  ASSUME Inductive, NEW n \in Node, StabilizePing(n)
  PROVE  Inductive'
<1> DEFINE s == succ(n)
           f == withSuccessor(node[n].finger, n)
<1> USE DEF Inductive
<1>1. f \in Table /\ node[n] \in Process
  BY ProcessType
<1> HIDE DEF s, f
<1>2. GlitchesOK'
  BY ReachGlitches DEF StabilizePing, ping, GlitchesOK
<1>3. CASE /\ node' = [node EXCEPT ![n].finger = f, ![n].ppc = "get"]
           /\ UNCHANGED <<call, note>>
  <2>1. "get" \in PeriodicPc
    BY DEF PeriodicPc
  <2>2. NodesOK'
    BY <1>1, <1>3, <2>1, FieldTypes DEF NodesOK
  <2> QED
    BY <1>2, <1>3, <2>2, CallsSame DEF NotesOK
<1>4. ASSUME NEW g \in removeNode(f, s), NEW q \in Write(n, node[n], g), Becomes(n, q, call)
      PROVE  Inductive'
  <2>1. g \in Table
    BY <1>1, RemoveNodeType
  <2>2. q \in Process
    BY <1>1, <2>1, WriteType
  <2> QED
    BY <1>2, <1>4, <2>2, BecomesGood, CallsSame
<1> QED
  BY <1>3, <1>4 DEF StabilizePing, s, f

LEMMA StabilizeGetStep ==
  ASSUME Inductive, NEW n \in Node, StabilizeGet(n)
  PROVE  Inductive'
<1> DEFINE s == succ(n)
           f == withSuccessor(node[n].finger, n)
<1> USE DEF Inductive
<1>1. f \in Table /\ s \in Node /\ node[n].pred \in Maybe(Node)
  BY ProcessType
<1>2. node[s].pred \in Maybe(Node)
  BY <1>1, ProcessType
<1>3. ASSUME NEW x \in Maybe(Node)
      PROVE  Got(n, x) \in [Node -> Process]
  <2>1. Got(n, x) = [node EXCEPT ![n].finger = f, ![n].ppc = "test", ![n].x = x]
    BY FieldTypes DEF Got, NodesOK
  <2> HIDE DEF f
  <2>2. [node EXCEPT ![n].finger = f, ![n].ppc = "test", ![n].x = x] \in [Node -> Process]
    BY <1>1, FieldTypes DEF NodesOK, PeriodicPc
  <2> QED
    BY <2>1, <2>2
<1>4. GlitchesOK'
  BY ReachGlitches DEF StabilizeGet, RemoteGetPredecessor, GlitchesOK
<1> HIDE DEF s
<1>5. CASE \E x \in Maybe(Node) : node' = Got(n, x) /\ UNCHANGED <<call, note>>
  BY <1>3, <1>4, <1>5, CallsSame DEF NodesOK, NotesOK
<1>6. CASE /\ node' = [Got(n, Nil) EXCEPT ![s] = Corpse("segvPredecessor")]
           /\ call' = CallsWithout(s)
           /\ note' = NotesWithout(s)
  <2>1. "segvPredecessor" \in Status /\ Nil \in Maybe(Node)
    BY DEF Status, Segv, Maybe
  <2>2. Corpse("segvPredecessor") \in Process /\ Got(n, Nil) \in [Node -> Process]
    BY <1>3, <2>1, CorpseType
  <2>3. NodesOK'
    BY <1>1, <1>6, <2>2 DEF NodesOK
  <2>4. CallsOK' /\ NotesOK'
    <3>1. <<n, "main">> \in Thread
      BY DEF Thread, Role
    <3> QED
      BY <1>6, <3>1, NoCallGood, CallsDropped, NotesDropped
  <2> QED
    BY <1>4, <2>3, <2>4
<1> QED
  BY <1>1, <1>2, <1>5, <1>6 DEF StabilizeGet, RemoteGetPredecessor, s, Maybe

LEMMA StabilizeRestStep ==
  ASSUME Inductive, NEW n \in Node,
         StabilizeTest(n) \/ StabilizeSet(n) \/ StabilizeNotify(n)
  PROVE  Inductive'
<1> DEFINE s == succ(n)
           f == withSuccessor(node[n].finger, n)
<1> USE DEF Inductive
<1>1. f \in Table /\ s \in Node /\ node[n].x \in Maybe(Node)
  BY ProcessType
<1> HIDE DEF f, s
<1>2. CASE StabilizeTest(n)
  <2>1. \/ node' = [node EXCEPT ![n].finger = f, ![n].ppc = "set"]
        \/ node' = [node EXCEPT ![n].finger = f, ![n].ppc = "notify", ![n].x = Nil]
    BY <1>2 DEF StabilizeTest, f
  <2>2. NodesOK'
    <3>1. "set" \in PeriodicPc /\ "notify" \in PeriodicPc /\ Nil \in Maybe(Node)
      BY DEF PeriodicPc, Maybe
    <3>2. CASE node' = [node EXCEPT ![n].finger = f, ![n].ppc = "set"]
      BY <1>1, <3>1, <3>2, FieldTypes DEF NodesOK
    <3>3. CASE node' = [node EXCEPT ![n].finger = f, ![n].ppc = "notify", ![n].x = Nil]
      BY <1>1, <3>1, <3>3, FieldTypes DEF NodesOK
    <3> QED
      BY <2>1, <3>2, <3>3
  <2> QED
    BY <1>2, <2>2, CallsSame DEF StabilizeTest, NotesOK, GlitchesOK
<1>3. CASE StabilizeSet(n)
  <2> DEFINE g == setNode(node[n].finger, 0, node[n].x)
  <2>1. 0 \in Index
    BY MAssumption DEF Index
  <2>2. g \in Table
    BY <1>1, <2>1, ProcessType, SetNodeType
  <2>3. node' = [node EXCEPT ![n].finger = g, ![n].ppc = "notify", ![n].x = Nil]
    BY <1>3 DEF StabilizeSet, NodesOK
  <2> HIDE DEF g
  <2>4. NodesOK'
    BY <2>2, <2>3, FieldTypes DEF NodesOK, PeriodicPc, Maybe
  <2> QED
    BY <1>3, <2>4, CallsSame DEF StabilizeSet, NotesOK, GlitchesOK
<1>4. CASE StabilizeNotify(n)
  <2>1. node' = [node EXCEPT ![n].finger = f, ![n].ppc = "fix"]
    BY <1>4 DEF StabilizeNotify, NodesOK, f
  <2>2. NodesOK'
    BY <1>1, <2>1, FieldTypes DEF NodesOK, PeriodicPc
  <2>3. NotesOK'
    <3>1. note' = [note EXCEPT ![n] = [at |-> "null", to |-> s]] \/ UNCHANGED note
      BY <1>4 DEF StabilizeNotify, s
    <3>2. [at |-> "null", to |-> s] \in Note
      BY <1>1 DEF Note, Maybe
    <3> QED
      BY <3>1, <3>2 DEF NotesOK
  <2>4. GlitchesOK'
    BY <1>4, ReachGlitches DEF StabilizeNotify, GlitchesOK
  <2> QED
    BY <1>4, <2>2, <2>3, <2>4, CallsSame DEF StabilizeNotify
<1> QED
  BY <1>2, <1>3, <1>4

LEMMA FixFingersStep ==
  ASSUME Inductive, NEW n \in Node, FixFingers(n)
  PROVE  Inductive'
<1> USE DEF Inductive
<1>1. PICK k \in 1 .. M - 2 :
        /\ node' = [node EXCEPT ![n].ppc = "find", ![n].k = k]
        /\ call' = [call EXCEPT ![<<n, "periodic">>] =
                      [at |-> "succ", key |-> Start[n][k], path |-> <<n>>, res |-> Nil, i |-> 0]]
  BY DEF FixFingers
<1>2. k \in Index
  BY MAssumption DEF Index
<1>3. NodesOK'
  BY <1>1, <1>2, FieldTypes DEF NodesOK, PeriodicPc
<1>4. CallsOK'
  <2>1. Start[n][k] \in Id /\ <<n, "periodic">> \in Thread
    BY <1>2, RingAssumption DEF Thread, Role
  <2> QED
    BY <1>1, <2>1, NewCallGood, CallsExcept
<1> QED
  BY <1>3, <1>4 DEF FixFingers, NotesOK, GlitchesOK

LEMMA FixFingersSetStep ==
  ASSUME Inductive, NEW n \in Node, FixFingersSet(n)
  PROVE  Inductive'
<1> DEFINE th == <<n, "periodic">>
           g == setNode(node[n].finger, node[n].k, call[th].res)
           p == [node[n] EXCEPT !.ppc = "sleep", !.k = 0]
<1> USE DEF Inductive
<1>1. th \in Thread /\ 0 \in Index
  BY MAssumption DEF Thread, Role, Index
<1>2. g \in Table
  BY <1>1, ProcessType, ReturnedResult, SetNodeType
<1>3. p \in Process
  <2>1. node[n] \in Process /\ "sleep" \in PeriodicPc
    BY ProcessType DEF PeriodicPc
  <2> QED
    BY <1>1, <2>1 DEF Process
<1>4. PICK q \in Write(n, p, g) : Becomes(n, q, [call EXCEPT ![th] = NoCall])
  BY DEF FixFingersSet
<1> HIDE DEF g, p
<1>5. q \in Process
  BY <1>2, <1>3, WriteType
<1>6. GlitchesOK'
  BY DEF FixFingersSet, GlitchesOK
<1>7. call' = [call EXCEPT ![th] = NoCall] => CallsOK'
  BY <1>1, NoCallGood, CallsExcept
<1> QED
  BY <1>4, <1>5, <1>6, <1>7, BecomesGood

-----------------------------------------------------------------------------
(* findSuccessor.                                                          *)

(* The node at the end of the path of a call under way.                    *)
LEMMA HereType ==
  ASSUME CallsOK, NEW th \in Thread, call[th].at # "idle"
  PROVE  /\ GoodCall(call[th])
         /\ call[th].key \in Id
         /\ call[th].path \in Seq(Node)
         /\ Here(th) \in Node
<1>1. GoodCall(call[th]) /\ call[th] \in Call
  BY DEF CallsOK
<1>2. call[th].key \in Id /\ call[th].path \in Seq(Node) /\ Len(call[th].path) > 0
  BY <1>1 DEF GoodCall, Call
<1> QED
  BY <1>1, <1>2 DEF Here

(* The node that goes through its fingers is not the one looked for.       *)
LEMMA ScanGood ==
  ASSUME NEW c, GoodCall(c), c.at # "idle", c.path[Len(c.path)] # c.key
  PROVE  GoodCall([c EXCEPT !.at = "scan", !.i = M - 1])
<1> DEFINE d == [c EXCEPT !.at = "scan", !.i = M - 1]
<1>1. c \in Call /\ c.key \in Id /\ Len(c.path) > 0
  BY DEF GoodCall
<1>2. M - 1 \in Index
  BY MAssumption DEF Index
<1>3. d \in Call /\ d.at = "scan" /\ d.key = c.key /\ d.path = c.path
  BY <1>1, <1>2 DEF Call
<1> HIDE DEF d
<1>4. GoodCall(d)
  BY <1>1, <1>3 DEF GoodCall
<1> QED
  BY <1>4 DEF d

(* A call is forwarded to a node strictly between the forwarder and the    *)
(* key: that node was not on the path, and every node of the path has it   *)
(* ahead.                                                                  *)
LEMMA ForwardGood ==
  ASSUME NEW c, GoodCall(c), c.at = "scan", NEW f \in Node,
         f # c.path[Len(c.path)], InInterval(f, c.path[Len(c.path)], c.key)
  PROVE  GoodCall([c EXCEPT !.at = "succ", !.path = Append(@, f), !.i = 0])
<1> DEFINE p == c.path
           q == Append(c.path, f)
           a == c.path[Len(c.path)]
           d == [c EXCEPT !.at = "succ", !.path = q, !.i = 0]
<1>1. c \in Call /\ c.key \in Id /\ p \in Seq(Node) /\ Len(p) > 0 /\ a # c.key
  BY DEF GoodCall, Call
<1>2. q \in Seq(Node) /\ Len(q) = Len(p) + 1 /\ q[Len(q)] = f
      /\ \A i \in 1 .. Len(p) : q[i] = p[i] /\ p[i] \in Node
  BY <1>1
<1>3. a \in Node
  BY <1>1
<1>4. ASSUME NEW i \in 1 .. Len(q), NEW j \in 1 .. Len(q), i < j
      PROVE  q[i] # q[j] /\ InInterval(q[j], q[i], c.key)
  <2>1. i \in 1 .. Len(p)
    BY <1>1, <1>2, <1>4
  <2>2. CASE j \in 1 .. Len(p)
    BY <1>2, <1>4, <2>1, <2>2 DEF GoodCall
  <2>3. CASE j = Len(q) /\ i = Len(p)
    BY <1>2, <2>1, <2>3
  <2>4. CASE j = Len(q) /\ i # Len(p)
    <3>1. i < Len(p) /\ Len(p) \in 1 .. Len(p)
      BY <1>1, <2>1, <2>4
    <3>2. p[i] # a /\ InInterval(a, p[i], c.key)
      BY <2>1, <3>1 DEF GoodCall
    <3>3. p[i] \in Int /\ a \in Int /\ f \in Int /\ c.key \in Int
      <4>1. Id \subseteq Int /\ Node \subseteq Int
        BY RingAssumption
      <4>2. p[i] \in Node
        BY <1>2, <2>1
      <4> QED
        BY <1>1, <1>3, <4>1, <4>2
    <3>4. f # p[i] /\ InInterval(f, p[i], c.key)
      BY <1>1, <3>2, <3>3, IntervalTransitive
    <3> QED
      BY <1>2, <2>1, <2>4, <3>4
  <2> QED
    BY <1>1, <1>2, <1>4, <2>2, <2>3, <2>4
<1> HIDE DEF q
<1>5. d \in Call /\ d.at = "succ" /\ d.key = c.key /\ d.path = q
  <2>1. 0 \in Index
    BY MAssumption DEF Index
  <2> QED
    BY <1>1, <1>2, <2>1 DEF Call
<1> HIDE DEF d
<1>6. Len(d.path) > 0
  BY <1>1, <1>2, <1>5
<1>7. GoodCall(d)
  BY <1>1, <1>4, <1>5, <1>6 DEF GoodCall
<1> QED
  BY <1>7 DEF d, q

(* The reply of the last node of the path: a shorter path is still good.   *)
LEMMA BackGood ==
  ASSUME NEW c, GoodCall(c), c.at = "return", Len(c.path) > 1, NEW res \in Maybe(Node)
  PROVE  GoodCall([c EXCEPT !.path = SubSeq(c.path, 1, Len(c.path) - 1), !.res = res])
<1> DEFINE p == c.path
           q == SubSeq(p, 1, Len(p) - 1)
           d == [c EXCEPT !.path = q, !.res = res]
<1>1. c \in Call /\ c.key \in Id /\ p \in Seq(Node)
  BY DEF GoodCall, Call
<1>2. /\ q \in Seq(Node) /\ Len(q) = Len(p) - 1 /\ Len(q) > 0
      /\ \A i \in 1 .. Len(q) : i \in 1 .. Len(p) /\ q[i] = p[i]
  BY <1>1
<1>3. ASSUME NEW i \in 1 .. Len(q), NEW j \in 1 .. Len(q), i < j
      PROVE  q[i] # q[j] /\ InInterval(q[j], q[i], c.key)
  BY <1>2, <1>3 DEF GoodCall
<1> HIDE DEF q
<1>4. d \in Call /\ d.at = "return" /\ d.key = c.key /\ d.path = q
  BY <1>1, <1>2 DEF Call
<1> HIDE DEF d
<1>5. GoodCall(d)
  BY <1>1, <1>2, <1>3, <1>4 DEF GoodCall
<1> QED
  BY <1>5 DEF d, q

LEMMA FindSuccessorStep ==
  ASSUME Inductive, NEW th \in Thread, FindSuccessor(th)
  PROVE  Inductive'
<1> DEFINE a == Here(th)
           c == call[th]
<1> USE DEF Inductive
<1>1. GoodCall(c) /\ c.at # "idle" /\ a \in Node /\ 0 \in Index
  BY HereType, MAssumption DEF FindSuccessor, Index
<1>2. succ(a) \in Node /\ withSuccessor(node[a].finger, a) \in Table
  BY <1>1, ProcessType
<1>3. NodesOK'
  <2>1. \/ UNCHANGED node
        \/ node' = [node EXCEPT ![a].finger = withSuccessor(node[a].finger, a)]
    BY DEF FindSuccessor
  <2> HIDE DEF a
  <2> QED
    BY <1>1, <1>2, <2>1, FieldTypes DEF NodesOK
<1>4. CallsOK'
  <2> DEFINE answer(res) == call' = [call EXCEPT ![th].at = "return", ![th].res = res]
  <2>1. \/ answer(a)
        \/ answer(succ(a))
        \/ a # c.key /\ call' = [call EXCEPT ![th].at = "scan", ![th].i = M - 1]
    BY DEF FindSuccessor
  <2>2. ASSUME NEW res \in Maybe(Node), answer(res)
        PROVE  CallsOK'
    <3>1. GoodCall([c EXCEPT !.at = "return", !.res = res])
      BY <1>1, AtGood
    <3>2. call' = [call EXCEPT ![th] = [c EXCEPT !.at = "return", !.res = res]]
      BY <2>2 DEF CallsOK
    <3> QED
      BY <3>1, <3>2, CallsExcept
  <2>3. CASE a # c.key /\ call' = [call EXCEPT ![th].at = "scan", ![th].i = M - 1]
    <3>1. GoodCall([c EXCEPT !.at = "scan", !.i = M - 1])
      BY <1>1, <2>3, ScanGood DEF Here
    <3>2. call' = [call EXCEPT ![th] = [c EXCEPT !.at = "scan", !.i = M - 1]]
      BY <2>3 DEF CallsOK
    <3> QED
      BY <3>1, <3>2, CallsExcept
  <2>4. a \in Maybe(Node) /\ succ(a) \in Maybe(Node)
    BY <1>1, <1>2 DEF Maybe
  <2> HIDE DEF answer, a
  <2> QED
    BY <2>1, <2>2, <2>3, <2>4
<1> QED
  BY <1>3, <1>4 DEF FindSuccessor, NotesOK, GlitchesOK

LEMMA ScanStep ==
  ASSUME Inductive, NEW th \in Thread, Scan(th)
  PROVE  Inductive'
<1> DEFINE a == Here(th)
           c == call[th]
           f == getNode(node[a].finger, c.i)
<1> USE DEF Inductive
<1>1. GoodCall(c) /\ c.at = "scan" /\ a \in Node /\ c.key \in Id /\ c.i \in Index
  BY HereType DEF Scan, GoodCall, Call
<1>2. f \in Maybe(Node) /\ 0 \in Index
  BY <1>1, ProcessType, GetNodeType, MAssumption DEF Index
<1>3. ASSUME NEW d, GoodCall(d), call' = [call EXCEPT ![th] = d]
      PROVE  CallsOK'
  BY <1>3, CallsExcept
<1>4. CASE precedes(f, a, c.key) /\ Forward(th, f)
  <2>1. f \in Node /\ InInterval(f, a, c.key)
    BY <1>2, <1>4 DEF precedes, Maybe
  <2>2. f # a
    <3>1. Id \subseteq Int /\ Node \subseteq Int
      BY RingAssumption
    <3> HIDE DEF f
    <3>2. f \in Int /\ c.key \in Int /\ a \in Int
      BY <1>1, <2>1, <3>1
    <3> QED
      BY <1>1, <2>1, <3>2 DEF InInterval, GoodCall, Here
  <2>3. GoodCall([c EXCEPT !.at = "succ", !.path = Append(@, f), !.i = 0])
    BY <1>1, <2>1, <2>2, ForwardGood DEF Here
  <2>4. GoodCall([c EXCEPT !.at = "return", !.res = Nil, !.i = 0])
    BY <1>1, <1>2, AtGood DEF Maybe
  <2>5. \/ call' = [call EXCEPT ![th] = [c EXCEPT !.at = "succ", !.path = Append(@, f), !.i = 0]]
        \/ call' = [call EXCEPT ![th] = [c EXCEPT !.at = "return", !.res = Nil, !.i = 0]]
    BY <1>4 DEF Forward, CallsOK
  <2>6. CallsOK'
    BY <1>3, <2>3, <2>4, <2>5
  <2>7. GlitchesOK'
    BY <1>4, ReachGlitches DEF Forward
  <2> QED
    BY <2>6, <2>7 DEF Scan, NodesOK, NotesOK
<1>5. CASE /\ call' = IF c.i > 0 THEN [call EXCEPT ![th].i = c.i - 1]
                                 ELSE [call EXCEPT ![th].at = "succ"]
           /\ UNCHANGED glitches
  <2>1. c.i > 0 => c.i - 1 \in Index
    BY <1>1, MAssumption DEF Index
  <2>2. /\ c.i > 0 => GoodCall([c EXCEPT !.i = c.i - 1])
        /\ GoodCall([c EXCEPT !.at = "succ"])
    BY <1>1, <1>2, <2>1, AtGood DEF Maybe
  <2>3. call' = [call EXCEPT ![th] = IF c.i > 0 THEN [c EXCEPT !.i = c.i - 1]
                                               ELSE [c EXCEPT !.at = "succ"]]
    BY <1>5 DEF CallsOK
  <2>4. CallsOK'
    BY <1>3, <2>2, <2>3
  <2> QED
    BY <1>5, <2>4 DEF Scan, NodesOK, NotesOK, GlitchesOK
<1> QED
  BY <1>4, <1>5 DEF Scan

LEMMA HopLostStep ==
  ASSUME Inductive, NEW th \in Thread, HopLost(th)
  PROVE  Inductive'
<1> DEFINE c == call[th]
<1> USE DEF Inductive
<1>1. GoodCall(c) /\ c.at # "idle" /\ 0 \in Index
  BY HereType, MAssumption DEF HopLost, Index
<1>2. GoodCall([c EXCEPT !.at = "return", !.res = Nil, !.i = 0])
  BY <1>1, AtGood DEF Maybe
<1>3. call' = [call EXCEPT ![th] = [c EXCEPT !.at = "return", !.res = Nil, !.i = 0]]
  BY DEF HopLost, CallsOK
<1>4. CallsOK'
  BY <1>2, <1>3, CallsExcept
<1> QED
  BY <1>4 DEF HopLost, NodesOK, NotesOK, GlitchesOK

LEMMA ReplyStep ==
  ASSUME Inductive, NEW th \in Thread, Reply(th)
  PROVE  Inductive'
<1> DEFINE a == Here(th)
           c == call[th]
           p == c.path
           res == IF Up(a) THEN c.res ELSE Nil
           shorter == [c EXCEPT !.path = SubSeq(p, 1, Len(p) - 1), !.res = res]
           back == IF Len(p) = 2 /\ ~Up(p[1]) THEN NoCall ELSE shorter
<1> USE DEF Inductive
<1>1. GoodCall(c) /\ c.at = "return" /\ Len(p) > 1 /\ a \in Node
  BY HereType DEF Reply
<1>2. res \in Maybe(Node)
  BY ReturnedResult DEF Maybe
<1>3. GoodCall(back)
  <2>1. GoodCall(shorter)
    BY <1>1, <1>2, BackGood
  <2> QED
    BY <2>1, NoCallGood
<1>4. back = IF Len(p) = 2 /\ ~Up(p[1]) THEN NoCall
             ELSE [call[th] EXCEPT !.path = SubSeq(p, 1, Len(p) - 1),
                                   !.res = IF Up(a) THEN c.res ELSE Nil]
  OBVIOUS
<1> HIDE DEF back
<1>5. CASE Up(a) /\ c.res = Nil
  <2>1. /\ node' = [node EXCEPT ![a] = Corpse("segvSuccessor")]
        /\ call' = [CallsWithout(a) EXCEPT ![th] = back]
        /\ note' = NotesWithout(a)
    BY <1>4, <1>5 DEF Reply
  <2>2. NodesOK'
    BY <2>1, CorpseType DEF NodesOK, Status, Segv
  <2>3. CallsOK' /\ NotesOK'
    BY <1>3, <2>1, CallsDropped, NotesDropped
  <2> QED
    BY <2>2, <2>3 DEF Reply, GlitchesOK
<1>6. CASE ~(Up(a) /\ c.res = Nil)
  <2>1. call' = [call EXCEPT ![th] = back] /\ UNCHANGED <<node, note>>
    BY <1>4, <1>6 DEF Reply
  <2>2. CallsOK'
    BY <1>3, <2>1, CallsExcept
  <2> QED
    BY <2>1, <2>2 DEF Reply, NodesOK, NotesOK, GlitchesOK
<1> QED
  BY <1>5, <1>6

-----------------------------------------------------------------------------
(* notify at its receiver.                                                 *)

LEMMA NotifyStep ==
  ASSUME Inductive, NEW m \in Node, Notify(m)
  PROVE  Inductive'
<1> DEFINE t == note[m].to
<1> USE DEF Inductive
<1>1. note[m] \in Note /\ t \in Maybe(Node)
  BY DEF NotesOK, Note
<1>2. CASE NotifyNull(m)
  <2>1. PICK at \in {"set", "between"} : note' = [note EXCEPT ![m].at = at]
    BY <1>2 DEF NotifyNull
  <2>2. NotesOK'
    BY <2>1 DEF NotesOK, Note
  <2> QED
    BY <1>2, <2>2, CallsSame DEF NotifyNull, NodesOK, GlitchesOK
<1>3. CASE NotifyBetween(m)
  <2>1. CASE node[t].pred = Nil
    <3>1. /\ node' = [node EXCEPT ![t] = Corpse("segvNotify")]
          /\ call' = CallsWithout(t) /\ note' = NotesWithout(t)
      BY <1>3, <2>1 DEF NotifyBetween
    <3>2. NodesOK'
      BY <3>1, CorpseType DEF NodesOK, Status, Segv
    <3>3. <<m, "main">> \in Thread
      BY DEF Thread, Role
    <3>4. CallsOK' /\ NotesOK'
      BY <3>1, <3>3, NoCallGood, CallsDropped, NotesDropped
    <3> QED
      BY <1>3, <3>2, <3>4 DEF NotifyBetween, GlitchesOK
  <2>2. CASE node[t].pred # Nil
    <3>1. /\ UNCHANGED <<node, call, glitches>>
          /\ \/ note' = [note EXCEPT ![m] = [@ EXCEPT !.at = "set"]]
             \/ note' = [note EXCEPT ![m] = NoNote]
      BY <1>3, <2>2 DEF NotifyBetween
    <3>2. NoNote \in Note /\ [note[m] EXCEPT !.at = "set"] \in Note
      BY <1>1 DEF NoNote, Note, Maybe
    <3>3. NotesOK'
      BY <3>1, <3>2 DEF NotesOK
    <3> QED
      BY <3>1, <3>3, CallsSame DEF NodesOK, GlitchesOK
  <2> QED
    BY <2>1, <2>2
<1>4. CASE NotifySet(m)
  <2>1. NodesOK'
    <3>1. node' = [node EXCEPT ![t].pred = m] /\ m \in Maybe(Node)
      BY <1>4 DEF NotifySet, Maybe
    <3>2. CASE t \in Node
      BY <3>1, <3>2, FieldTypes DEF NodesOK
    <3>3. CASE t \notin Node
      BY <3>1, <3>3 DEF NodesOK
    <3> QED
      BY <3>2, <3>3
  <2>2. NotesOK'
    BY <1>4 DEF NotifySet, NotesOK, NoNote, Note, Maybe
  <2> QED
    BY <1>4, <2>1, <2>2, CallsSame DEF NotifySet, GlitchesOK
<1> QED
  BY <1>2, <1>3, <1>4 DEF Notify

-----------------------------------------------------------------------------
(* The initial states.                                                     *)

(* A set of identifiers that is not empty has a least element.             *)
LEMMA LeastId ==
  ASSUME NEW S \in SUBSET Nat, S # {}
  PROVE  \E m \in S : \A q \in S : m =< q
<1>1. PICK m \in S : \A q \in S : ~(<<q, m>> \in OpToRel(<, Nat))
  BY NatLessThanWellFounded, WFMin
<1>2. ASSUME NEW q \in S
      PROVE  m =< q
  <2>1. ~(q < m)
    BY <1>1 DEF OpToRel
  <2> QED
    BY <2>1
<1> QED
  BY <1>2

(* A set of nodes that is not empty has a node closest to an identifier.   *)
LEMMA ClosestExists ==
  ASSUME NEW S \in SUBSET Nat, S # {}, NEW key \in Nat
  PROVE  /\ Closest(S, key) \in S
         /\ \/ Closest(S, key) = key
            \/ \A q \in S \ {Closest(S, key)} :
                 q # key /\ ~InInterval(q, key, Closest(S, key))
<1> DEFINE Good(m) == \/ m = key
                      \/ \A q \in S \ {m} : q # key /\ ~InInterval(q, key, m)
           Ahead == {q \in S : q > key}
<1>1. \E m \in S : Good(m)
  <2>1. CASE key \in S
    BY <2>1
  <2>2. CASE key \notin S /\ Ahead # {}
    <3>1. PICK m \in Ahead : \A q \in Ahead : m =< q
      BY <2>2, LeastId
    <3> QED
      BY <2>2, <3>1 DEF InInterval
  <2>3. CASE key \notin S /\ Ahead = {}
    <3>1. PICK m \in S : \A q \in S : m =< q
      BY LeastId
    <3> QED
      BY <2>3, <3>1 DEF InInterval
  <2> QED
    BY <2>1, <2>2, <2>3
<1>2. Closest(S, key) = CHOOSE m \in S : Good(m)
  BY DEF Closest
<1> HIDE DEF Good
<1>3. Closest(S, key) \in S /\ Good(Closest(S, key))
  BY <1>1, <1>2
<1> QED
  BY <1>3 DEF Good

LEMMA FollowingType ==
  ASSUME NEW S \in SUBSET Nat, NEW n \in S
  PROVE  Following(S, n) \in S
<1>1. CASE S = {n}
  BY <1>1 DEF Following
<1>2. CASE S # {n}
  BY <1>2, ClosestExists DEF Following
<1> QED
  BY <1>1, <1>2

LEMMA InitInductive == Init => Inductive
<1> SUFFICES ASSUME Init
             PROVE  Inductive
  OBVIOUS
<1>1. PICK fixed \in [Founders -> SUBSET (1 .. M - 2)], before \in [Founders -> Founders] :
        node = [n \in Node |-> IF n \in Founders THEN Settle(n, before[n], fixed[n]) ELSE Off]
  BY DEF Init
<1>2. Off \in Process
  BY CorpseType DEF Status
<1>3. ASSUME NEW n \in Founders
      PROVE  Settle(n, before[n], fixed[n]) \in Process
  <2> DEFINE f == [k \in Index |->
                     IF k = 0 THEN Following(Founders, n)
                     ELSE IF k \in fixed[n] THEN Closest(Founders, Start[n][k]) ELSE Nil]
  <2>1. Founders \in SUBSET Nat /\ Founders \subseteq Node
    BY RingAssumption
  <2>2. ASSUME NEW k \in Index
        PROVE  Following(Founders, n) \in Node /\ Closest(Founders, Start[n][k]) \in Node
    <3>1. Start[n][k] \in Nat
      <4>1. n \in Node /\ Start \in [Node -> [Index -> Id]] /\ Id \subseteq Nat
        BY <2>1, RingAssumption
      <4> QED
        BY <4>1
    <3> QED
      BY <2>1, <3>1, FollowingType, ClosestExists
  <2>3. f \in Table
    BY <2>2 DEF Table, Maybe
  <2>4. before[n] \in Maybe(Node)
    BY <2>1 DEF Maybe
  <2>5. Settle(n, before[n], fixed[n]) =
          [Off EXCEPT !.status = "up", !.ppc = "sleep", !.mpc = "run",
                      !.pred = before[n], !.finger = f]
    BY DEF Settle
  <2> HIDE DEF f
  <2>6. Process = [status : Status, pred : Maybe(Node), finger : Table,
                   ppc : PeriodicPc, mpc : MainPc, x : Maybe(Node), k : Index]
    BY DEF Process, Table
  <2>7. "up" \in Status /\ "sleep" \in PeriodicPc /\ "run" \in MainPc
    BY DEF Status, PeriodicPc, MainPc
  <2> QED
    BY <1>2, <2>3, <2>4, <2>5, <2>6, <2>7
<1>4. NodesOK
  BY <1>1, <1>2, <1>3 DEF NodesOK
<1>5. NoCall \in Call
  BY NoCallGood DEF GoodCall
<1>6. CallsOK
  BY <1>5, NoCallGood DEF Init, CallsOK
<1>7. NotesOK /\ GlitchesOK
  BY RingAssumption DEF Init, NotesOK, GlitchesOK, NoNote, Note, Maybe
<1> QED
  BY <1>4, <1>6, <1>7 DEF Inductive

-----------------------------------------------------------------------------
(* The theorems.                                                           *)

LEMMA StepInductive == Inductive /\ [Next]_vars => Inductive'
<1> SUFFICES ASSUME Inductive, [Next]_vars
             PROVE  Inductive'
  OBVIOUS
<1>1. ASSUME NEW n \in Node,
             StartNode(n) \/ Fail(n) \/ Send(n) \/ Main(n) \/ Periodic(n) \/ Notify(n)
      PROVE  Inductive'
  <2>1. CASE StartNode(n) \/ Fail(n) \/ Send(n) \/ Notify(n)
    BY <2>1, StartNodeStep, FailStep, SendStep, NotifyStep
  <2>2. CASE Main(n)
    BY <2>2, JoinBeginStep, JoinEndStep, SendEndStep DEF Main
  <2>3. CASE Periodic(n)
    BY <2>3, CheckPredecessorStep, StabilizePingStep, StabilizeGetStep,
       StabilizeRestStep, FixFingersStep, FixFingersSetStep DEF Periodic
  <2> QED
    BY <1>1, <2>1, <2>2, <2>3
<1>2. ASSUME NEW th \in Thread, Lookup(th)
      PROVE  Inductive'
  BY <1>2, FindSuccessorStep, ScanStep, HopLostStep, ReplyStep DEF Lookup
<1>3. CASE UNCHANGED vars
  BY <1>3 DEF vars, Inductive, NodesOK, CallsOK, NotesOK, GlitchesOK
<1> QED
  BY <1>1, <1>2, <1>3 DEF Next

(* Every variable keeps its type, whatever fails and in whatever order the *)
(* threads run.                                                            *)
THEOREM TypeCorrect == Spec => []TypeOK
<1>1. Inductive => TypeOK
  BY InductiveImplies
<1> QED
  BY <1>1, InitInductive, StepInductive, PTL DEF Spec

(* No lookup ever comes back to a node it went through, and every node it  *)
(* reaches is strictly closer to the key than all those before it: with    *)
(* any number of nodes and entries, whatever the finger tables hold,       *)
(* whatever start(k) computes, and however tables and processes change     *)
(* while the lookup is under way.                                          *)
THEOREM LookupsAdvance == Spec => []LookupAdvances
<1>1. Inductive => LookupAdvances
  BY InductiveImplies
<1> QED
  BY <1>1, InitInductive, StepInductive, PTL DEF Spec
=============================================================================
