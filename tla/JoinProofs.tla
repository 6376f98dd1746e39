----------------------------- MODULE JoinProofs -----------------------------
(***************************************************************************)
(* Theorems about one node that joins a ring of two nodes or more: as long *)
(* as nobody is killed and remote calls are faster than the maintenance    *)
(* period, nobody dereferences a null node, successors only improve and    *)
(* the successor pointers always form one cycle, in the order of the       *)
(* identifiers.                                                            *)
(***************************************************************************)
EXTENDS OrderProofs, FiniteSetTheorems

(* The newcomer, the founders it comes between, and the founder that       *)
(* follows n before the newcomer is known.                                 *)
J == CHOOSE j \in Node : j \notin Founders

After == Following(Node, J)

Before == CHOOSE p \in Founders : Following(Node, p) = J

Old(n) == Following(Founders, n)

(* All nodes but one have formed a ring to begin with.                     *)
OneNewcomer ==
  /\ \E j \in Node : Node \ Founders = {j}
  /\ \E m, n \in Founders : m # n
  /\ MaxFails = 0 /\ MaxGlitches = 0
  /\ Timely = TRUE

-----------------------------------------------------------------------------
(* Where the newcomer belongs.                                             *)

(* The newcomer lies between Before and After, and nowhere else.           *)
Placed ==
  /\ Node \in SUBSET Nat /\ Node = Founders \union {J}
  /\ J \in Node /\ J \notin Founders /\ Nil \notin Node
  /\ Before \in Founders /\ After \in Founders /\ Before # After
  /\ Old(Before) = After
  /\ \A n \in Founders :
       /\ Old(n) \in Founders /\ Old(n) # n
       /\ \A m \in Founders : Old(m) = Old(n) => m = n
       /\ n # Before => Following(Node, n) = Old(n)
       /\ InInterval(J, n, Old(n)) => n = Before
  /\ Following(Node, Before) = J
  /\ InInterval(J, Before, After) /\ ~InInterval(Before, J, After)

LEMMA Between ==
  ASSUME NEW b \in Nat, NEW j \in Nat, NEW a \in Nat, b # j, a # j,
         a # b => ~InInterval(a, b, j) /\ ~InInterval(b, j, a)
  PROVE  /\ a # b => InInterval(j, b, a)
         /\ \A q \in Nat \ {b, j, a} :
              ~InInterval(q, b, j) /\ ~InInterval(q, j, a) => a # b /\ ~InInterval(q, b, a)
BY DEF InInterval

LEMMA Places ==
  ASSUME OneNewcomer
  PROVE  Placed
<1>1. /\ Node \in SUBSET Nat /\ Node = Founders \union {J} /\ Founders \in SUBSET Nat
      /\ J \in Node /\ J \notin Founders /\ Nil \notin Node
  BY RingAssumption DEF OneNewcomer, J
<1>2. PICK top \in Nat : \A s \in Node : s =< top
  BY IdAssumption, RingAssumption
<1>3. /\ Before \in Founders /\ Following(Node, Before) = J
  <2>1. PICK p \in Node : Following(Node, p) = J
    BY <1>1, <1>2, FollowingSurjective
  <2>2. p # J
    <3>1. Node # {J}
      BY <1>1 DEF OneNewcomer
    <3> QED
      BY <1>1, <2>1, <3>1, FollowingIs
  <2> QED
    BY <1>1, <2>1, <2>2 DEF Before
<1>4. /\ After \in Founders
      /\ \A q \in Node \ {J, After} : ~InInterval(q, J, After)
  <2>1. Node # {J}
    BY <1>1 DEF OneNewcomer
  <2> QED
    BY <1>1, <2>1, FollowingIs DEF After
<1>5. \A q \in Node \ {Before, J} : ~InInterval(q, Before, J)
  BY <1>1, <1>3, FollowingIs
<1>6. After # Before /\ InInterval(J, Before, After) /\ ~InInterval(Before, J, After)
  <2>1. PICK q \in Founders : q # Before
    BY DEF OneNewcomer
  <2>2. Before \in Nat /\ After \in Nat /\ J \in Nat /\ q \in Nat
    BY <1>1, <1>3, <1>4
  <2>3. After # Before => ~InInterval(After, Before, J) /\ ~InInterval(Before, J, After)
    BY <1>1, <1>3, <1>4, <1>5
  <2>4. After # Before
    BY <1>1, <1>3, <1>4, <1>5, <2>1, <2>2, <2>3, Between
  <2> QED
    BY <1>1, <1>3, <1>4, <2>2, <2>3, <2>4, Between
<1>7. Old(Before) = After
  <2>1. ASSUME NEW q \in Founders \ {Before, After}
        PROVE  ~InInterval(q, Before, After)
    <3>1. Before \in Nat /\ After \in Nat /\ J \in Nat /\ q \in Nat \ {Before, J, After}
      BY <1>1, <1>3, <1>4
    <3>2. After # Before => ~InInterval(After, Before, J) /\ ~InInterval(Before, J, After)
      BY <1>1, <1>3, <1>4, <1>5
    <3>3. ~InInterval(q, Before, J) /\ ~InInterval(q, J, After)
      BY <1>1, <1>4, <1>5
    <3> QED
      BY <1>1, <1>3, <1>4, <3>1, <3>2, <3>3, Between
  <2> QED
    BY <1>1, <1>3, <1>4, <1>6, <2>1, FollowingUnique DEF Old
<1>8. ASSUME NEW n \in Founders
      PROVE  /\ Old(n) \in Founders /\ Old(n) # n
             /\ \A m \in Founders : Old(m) = Old(n) => m = n
  <2>1. Founders # {n}
    BY DEF OneNewcomer
  <2> QED
    BY <1>1, <2>1, FollowingIs, FollowingInjective DEF Old
<1>9. ASSUME NEW n \in Founders, n # Before
      PROVE  Following(Node, n) = Old(n) /\ ~InInterval(J, n, Old(n))
  <2> DEFINE f == Following(Node, n)
  <2>1. n \in Node /\ Before \in Node /\ Node # {n}
    BY <1>1, <1>3
  <2>2. f # J
    BY <1>1, <1>3, <1>9, <2>1, FollowingInjective
  <2>3. f \in Node /\ f # n /\ \A q \in Node \ {n, f} : ~InInterval(q, n, f)
    BY <1>1, <2>1, FollowingIs
  <2> HIDE DEF f
  <2>4. Following(Founders, n) = f
    <3>1. f \in Founders \ {n} /\ \A q \in Founders \ {n, f} : ~InInterval(q, n, f)
      BY <1>1, <2>2, <2>3
    <3> QED
      BY <1>1, <3>1, FollowingUnique
  <2>5. J \in Node \ {n, f}
    BY <1>1, <2>2
  <2>6. ~InInterval(J, n, f)
    BY <2>3, <2>5
  <2> QED
    BY <2>4, <2>6 DEF f, Old
<1> QED
  BY <1>1, <1>3, <1>4, <1>6, <1>7, <1>8, <1>9 DEF Placed
-----------------------------------------------------------------------------
(* The inductive invariant.                                                *)

(* After has heard of the newcomer; Before has made it its successor.      *)
Known == node[After].pred = J

Linked == node[Before].finger[0] = J

(* A founder keeps its place in the ring; all that may happen is that      *)
(* After comes to have the newcomer as predecessor, and Before as          *)
(* successor.                                                              *)
FounderOK(n, p) ==
  /\ p.status = "up" /\ p.mpc \in {"run", "send"} /\ p.ppc \notin {"none", "first", "clear"}
  /\ p.finger[0] = Old(n) \/ (n = Before /\ p.finger[0] = J)
  /\ p.pred \in Node
  /\ (p.pred \in Founders /\ Old(p.pred) = n) \/ (n = After /\ p.pred = J)
  /\ p.ppc = "test" => p.x = n \/ (n = Before /\ p.x = J)
  /\ p.ppc = "set" => n = Before /\ p.x = J /\ p.finger[0] = After
  /\ p.ppc = "find" => p.k \in 1 .. M - 2

(* The newcomer: until its join has returned its table is empty or holds   *)
(* itself; while it makes its first round it has no predecessor, unless it *)
(* has notified itself.                                                    *)
Lonely(p) ==
  /\ p.mpc \in {"join", "wait"}
  /\ \A k \in Index : p.finger[k] \in {Nil, J}
  /\ p.pred \in {Nil, J}
  /\ p.ppc = "test" => p.x = Nil
  /\ p.ppc \in {"first", "ping", "get", "test", "notify"} => p.pred = Nil

Joining(p) ==
  /\ p.mpc \in {"run", "send"}
  /\ p.finger[0] = After
  /\ p.pred \in {Nil, J, Before}
  /\ p.ppc = "test" => p.x \in {Nil, J, Before}

NewcomerOK(p) ==
  \/ p = Off
  \/ /\ p.status = "up" /\ p.ppc \notin {"none", "clear", "set"}
     /\ p.ppc = "find" => p.k \in 1 .. M - 2
     /\ Lonely(p) \/ Joining(p)

NodesPlaced == (\A n \in Founders : FounderOK(n, node[n])) /\ NewcomerOK(node[J])

(* Tables hold nodes that are up.                                          *)
LiveTable(f) == \A k \in Index : f[k] # Nil => Up(f[k])

TablesLive == \A n \in Node : LiveTable(node[n].finger)

(* A lookup goes through nodes that are up and finds one.  That of join    *)
(* finds After; one that the newcomer makes before that finds itself.      *)
CallOK(th, c) ==
  c.at # "idle" =>
    /\ \A i \in 1 .. Len(c.path) : Up(c.path[i])
    /\ c.at = "return" => c.res # Nil /\ Up(c.res)
    /\ th = <<J, "main">> /\ ~Joined(J) =>
         /\ c.key = J
         /\ IF c.at = "return" THEN c.res = After ELSE Len(c.path) > 1 /\ c.path[1] = J
    /\ th = <<J, "periodic">> /\ ~Joined(J) =>
         /\ c.at \in {"succ", "return"} /\ Len(c.path) = 1 /\ c.path[1] = J
         /\ c.at = "return" => c.res = J

CallsPlaced == \A th \in Thread : CallOK(th, call[th])

(* After hears of the newcomer before Before does, and not before the join *)
(* is over; once Before has told the newcomer about itself, the newcomer   *)
(* has a predecessor.                                                      *)
Links ==
  /\ Linked => Known
  /\ node[Before].ppc \in {"test", "set"} /\ node[Before].x = J => Known
  /\ Known => Joined(J)
  /\ Linked /\ note[Before].at = "idle" /\ node[Before].ppc # "notify" => node[J].pred # Nil

(* A notify under way.                                                     *)
NoteOK(n, t) ==
  t.at # "idle" =>
    \/ /\ n \in Founders /\ t.to = node[n].finger[0]
       /\ t.to # J => t.at # "set"
       /\ t.to = J /\ t.at = "between" => node[J].pred # Nil
    \/ n = J /\ t.to = After /\ Joined(J)
    \/ n = J /\ t.to = J /\ ~Known /\ node[J].pred = Nil /\ t.at # "between"

(* Between waking up and its next notify, a node has no notify under way.  *)
Early == {"none", "first", "ping", "get", "test", "set", "notify"}

NotesPlaced ==
  \A n \in Node : NoteOK(n, note[n]) /\ (node[n].ppc \in Early => note[n].at = "idle")

JoinInv == NodesPlaced /\ TablesLive /\ CallsPlaced /\ Links /\ NotesPlaced

(* What every step has to do: keep the invariant, and undo neither the     *)
(* join nor the link to the newcomer.                                      *)
JoinStep ==
  /\ JoinInv'
  /\ Linked => Linked'
  /\ Joined(J) => Joined(J)'

-----------------------------------------------------------------------------
(* What the invariant says at a node.                                      *)

LEMMA AtFounder ==
  ASSUME OneNewcomer, Inductive, JoinInv, NEW n \in Founders
  PROVE  /\ n \in Node /\ n # J /\ Up(n) /\ Joined(n) /\ FounderOK(n, node[n])
         /\ succ(n) = node[n].finger[0]
         /\ succ(n) \in Node /\ succ(n) # n /\ Up(succ(n))
         /\ withSuccessor(node[n].finger, n) = node[n].finger
<1>1. FounderOK(n, node[n]) /\ n \in Node /\ n # J
  BY Places DEF JoinInv, NodesPlaced, Placed
<1>2. node[n].finger \in Table /\ 0 \in Index
  BY <1>1, ProcessType, MAssumption DEF Inductive, Index
<1>3. node[n].finger[0] \in Node /\ node[n].finger[0] # Nil /\ node[n].finger[0] # n
  BY <1>1, Places DEF FounderOK, Placed
<1>4. Up(node[n].finger[0])
  BY <1>1, <1>2, <1>3 DEF JoinInv, TablesLive, LiveTable
<1>5. /\ succ(n) = node[n].finger[0]
      /\ withSuccessor(node[n].finger, n) = node[n].finger
  BY <1>1, <1>2, <1>3, FirstFinger DEF succ
<1>6. Up(n) /\ Joined(n)
  BY <1>1 DEF FounderOK, Up, Joined
<1> QED
  BY <1>1, <1>3, <1>4, <1>5, <1>6

LEMMA AtNewcomer ==
  ASSUME OneNewcomer, Inductive, JoinInv
  PROVE  /\ J \in Node /\ NewcomerOK(node[J])
         /\ Joined(J) => Up(J)
         /\ node[J].ppc # "none" \/ node[J].mpc # "none" => Up(J)
         /\ Up(J) => node[J].status = "up" /\ node[J].ppc \notin {"none", "clear", "set"}
         /\ Up(J) => Lonely(node[J]) \/ Joining(node[J])
<1>1. J \in Node /\ NewcomerOK(node[J])
  BY Places DEF JoinInv, NodesPlaced, Placed
<1>2. Off.status = "off" /\ Off.mpc = "none" /\ Off.ppc = "none"
  BY DEF Off
<1> QED
  BY <1>1, <1>2 DEF NewcomerOK, Up, Joined

LEMMA AtJoining ==
  ASSUME OneNewcomer, Inductive, JoinInv, Joined(J)
  PROVE  /\ Up(J) /\ Joining(node[J])
         /\ succ(J) = After
         /\ After \in Node /\ After # J /\ Up(After)
         /\ withSuccessor(node[J].finger, J) = node[J].finger
<1>1. Up(J) /\ J \in Node /\ Joining(node[J])
  BY AtNewcomer DEF Joined, Lonely
<1>2. After \in Founders /\ After # Nil /\ After # J /\ After \in Node
  BY Places DEF Placed
<1>3. node[J].finger \in Table /\ node[J].finger[0] = After
  BY <1>1, ProcessType DEF Inductive, Joining
<1> QED
  BY <1>1, <1>2, <1>3, FirstFinger, AtFounder DEF succ

LEMMA AtLonely ==
  ASSUME OneNewcomer, Inductive, JoinInv, Up(J), ~Joined(J)
  PROVE  /\ Lonely(node[J])
         /\ succ(J) = J
         /\ \A k \in Index : withSuccessor(node[J].finger, J)[k] \in {Nil, J}
<1> DEFINE f == node[J].finger
<1>1. J \in Node /\ J # Nil /\ Lonely(node[J])
  BY AtNewcomer, Places DEF Joined, Joining, Placed
<1>2. f \in Table /\ \A k \in Index : f[k] \in {Nil, J}
  BY <1>1, ProcessType DEF Inductive, Lonely
<1>3. 0 \in Index /\ Filled(f, 0) \subseteq Index
  BY MAssumption DEF Index, Filled
<1>4. getNode(f, 0) \in {Nil, J}
  <2>1. Filled(f, 0) # {} => Min(Filled(f, 0)) \in Index
    BY <1>3, MinIndex
  <2> QED
    BY <1>2, <2>1 DEF getNode
<1>5. successorOf(f, J) = J
  BY <1>4 DEF successorOf
<1>6. \A k \in Index : withSuccessor(f, J)[k] \in {Nil, J}
  BY <1>2, <1>3 DEF withSuccessor, setNode, Table
<1> QED
  BY <1>1, <1>5, <1>6 DEF succ

(* Every node that is up has its successor up, and keeps its place when    *)
(* getSuccessor fills its table.                                           *)
LEMMA AtUp ==
  ASSUME OneNewcomer, Inductive, JoinInv, NEW n \in Node, Up(n)
  PROVE  /\ n \in Founders \/ n = J
         /\ succ(n) \in Node /\ Up(succ(n)) /\ succ(n) # Nil
         /\ LiveTable(withSuccessor(node[n].finger, n))
         /\ withSuccessor(node[n].finger, n) \in Table
         /\ n \in Founders \/ Joined(n) => withSuccessor(node[n].finger, n) = node[n].finger
<1>1. n \in Founders \/ n = J
  BY Places DEF Placed
<1>2. succ(n) \in Node /\ withSuccessor(node[n].finger, n) \in Table /\ Nil \notin Node
  BY ProcessType, Places DEF Inductive, Placed
<1>3. LiveTable(node[n].finger)
  BY DEF JoinInv, TablesLive
<1>4. CASE n \in Founders
  BY <1>1, <1>2, <1>3, <1>4, AtFounder
<1>5. CASE n = J /\ Joined(J)
  BY <1>1, <1>2, <1>3, <1>5, AtJoining
<1>6. CASE n = J /\ ~Joined(J) /\ n \notin Founders
  BY <1>1, <1>2, <1>6, AtLonely DEF LiveTable
<1> QED
  BY <1>1, <1>4, <1>5, <1>6

(* No remote call to a node that is up fails.                              *)
LEMMA Answers ==
  ASSUME OneNewcomer, Inductive, NEW t, Up(t)
  PROVE  ~Reach(t, FALSE)
BY DEF OneNewcomer, Inductive, GlitchesOK, Reach

-----------------------------------------------------------------------------
(* Kinds of steps.                                                         *)

(* Process n, which is up, becomes q, and its links stay as they are.      *)
Still(n, q) ==
  /\ Up(n) /\ q.status = "up" /\ q.pred = node[n].pred
  /\ q.mpc \in {"run", "send"} <=> Joined(n)
  /\ n \in Founders => FounderOK(n, q) /\ q.finger[0] = node[n].finger[0]
  /\ n = J => NewcomerOK(q)
  /\ LiveTable(q.finger)
  /\ n = Before /\ q.ppc \in {"test", "set"} /\ q.x = J => Known

(* The same, and it sends no notify.                                       *)
Quiet(n, q) ==
  /\ Still(n, q)
  /\ q.ppc \in Early => note[n].at = "idle"
  /\ n = Before /\ Linked /\ q.ppc # "notify" => node[n].ppc # "notify"

LEMMA TablesStay ==
  ASSUME Inductive', \A m \in Node : Up(m) => Up(m)',
         \A m \in Node : LiveTable(node'[m].finger)
  PROVE  TablesLive'
<1>1. ASSUME NEW m \in Node, NEW k \in Index, node'[m].finger[k] # Nil
      PROVE  node'[node'[m].finger[k]].status = "up"
  <2> DEFINE t == node'[m].finger[k]
  <2>1. t \in Node
    BY <1>1 DEF Inductive, NodesOK, Process, Maybe
  <2>2. Up(t)
    BY <1>1 DEF LiveTable
  <2> HIDE DEF t
  <2>3. node'[t].status = "up"
    BY <2>1, <2>2 DEF Up
  <2> QED
    BY <2>3 DEF t
<1> QED
  BY <1>1 DEF TablesLive, LiveTable, Up

LEMMA StillNodes ==
  ASSUME OneNewcomer, Inductive, Inductive', JoinInv, NEW n \in Node, NEW q, Still(n, q),
         node' = [node EXCEPT ![n] = q]
  PROVE  /\ NodesPlaced' /\ TablesLive'
         /\ \A m \in Node : Up(m)' <=> Up(m)
         /\ \A m \in Node : node'[m].pred = node[m].pred
         /\ \A m \in Founders : node'[m].finger[0] = node[m].finger[0]
         /\ Joined(J)' <=> Joined(J)
         /\ (Linked' <=> Linked) /\ (Known' <=> Known)
         /\ node'[Before].ppc \in {"test", "set"} /\ node'[Before].x = J => Known
<1>1. \A m \in Node : node'[m] = IF m = n THEN q ELSE node[m]
  BY DEF Inductive, NodesOK
<1>2. /\ J \in Node /\ J \notin Founders /\ Founders \subseteq Node
      /\ Before \in Founders /\ After \in Founders /\ Before \in Node /\ After \in Node
  BY Places DEF Placed
<1>3. NodesPlaced'
  BY <1>1, <1>2 DEF JoinInv, NodesPlaced, Still
<1>4. \A m \in Node : Up(m)' <=> Up(m)
  BY <1>1 DEF Still, Up
<1>5. \A m \in Node : Joined(m)' <=> Joined(m)
  BY <1>1 DEF Still, Joined
<1>6. \A m \in Node : node'[m].pred = node[m].pred
  BY <1>1 DEF Still
<1>7. \A m \in Founders : node'[m].finger[0] = node[m].finger[0]
  BY <1>1, <1>2 DEF Still
<1>8. (Linked' <=> Linked) /\ (Known' <=> Known)
  BY <1>2, <1>6, <1>7 DEF Linked, Known
<1>9. TablesLive'
  BY <1>1, <1>4, TablesStay DEF JoinInv, TablesLive, Still
<1>10. node'[Before].ppc \in {"test", "set"} /\ node'[Before].x = J => Known
  BY <1>1, <1>2 DEF JoinInv, Links, Still
<1> QED
  BY <1>2, <1>3, <1>4, <1>5, <1>6, <1>7, <1>8, <1>9, <1>10

LEMMA QuietNodes ==
  ASSUME OneNewcomer, Inductive, Inductive', JoinInv, NEW n \in Node, NEW q, Quiet(n, q),
         node' = [node EXCEPT ![n] = q], UNCHANGED note
  PROVE  /\ NodesPlaced' /\ TablesLive' /\ Links' /\ NotesPlaced'
         /\ \A m \in Node : Up(m)' <=> Up(m)
         /\ Joined(J)' <=> Joined(J)
         /\ Linked' <=> Linked
<1>1. \A m \in Node : node'[m] = IF m = n THEN q ELSE node[m]
  BY DEF Inductive, NodesOK
<1>2. J \in Node /\ Before \in Node
  BY Places DEF Placed
<1>3. /\ NodesPlaced' /\ TablesLive'
      /\ \A m \in Node : Up(m)' <=> Up(m)
      /\ \A m \in Node : node'[m].pred = node[m].pred
      /\ \A m \in Founders : node'[m].finger[0] = node[m].finger[0]
      /\ Joined(J)' <=> Joined(J)
      /\ (Linked' <=> Linked) /\ (Known' <=> Known)
      /\ node'[Before].ppc \in {"test", "set"} /\ node'[Before].x = J => Known
  BY StillNodes DEF Quiet
<1>4. Links'
  BY <1>1, <1>2, <1>3 DEF JoinInv, Links, Quiet
<1>5. NotesPlaced'
  BY <1>1, <1>2, <1>3 DEF JoinInv, NotesPlaced, NoteOK, Quiet
<1> QED
  BY <1>3, <1>4, <1>5

(* A call that is in order stays so.                                       *)
LEMMA CallStays ==
  ASSUME \A m \in Node : Up(m) => Up(m)', Joined(J) => Joined(J)',
         NEW th, NEW c \in Call, CallOK(th, c)
  PROVE  CallOK(th, c)'
<1>1. c.path \in Seq(Node) /\ c.res \in Maybe(Node)
  BY DEF Call
<1>2. \A i \in 1 .. Len(c.path) : Up(c.path[i]) => Up(c.path[i])'
  BY <1>1
<1>3. c.res # Nil /\ Up(c.res) => Up(c.res)'
  BY <1>1 DEF Maybe
<1> QED
  BY <1>2, <1>3 DEF CallOK

LEMMA CallsStay ==
  ASSUME Inductive, JoinInv, \A m \in Node : Up(m) => Up(m)', Joined(J) => Joined(J)'
  PROVE  /\ UNCHANGED call => CallsPlaced'
         /\ \A th \in Thread : \A c \in Call :
              CallOK(th, c) /\ call' = [call EXCEPT ![th] = c] => CallsPlaced'
<1>1. ASSUME NEW h \in Thread, NEW c \in Call, CallOK(h, c), call'[h] = c
      PROVE  CallOK(h, call[h])'
  <2>1. CallOK(h, c)'
    BY <1>1, CallStays
  <2> QED
    BY <1>1, <2>1
<1>2. \A h \in Thread : call[h] \in Call /\ CallOK(h, call[h])
  BY DEF Inductive, CallsOK, JoinInv, CallsPlaced
<1>3. UNCHANGED call => CallsPlaced'
  BY <1>1, <1>2 DEF CallsPlaced
<1>4. ASSUME NEW th \in Thread, NEW c \in Call, CallOK(th, c), call' = [call EXCEPT ![th] = c]
      PROVE  CallsPlaced'
  <2>1. \A h \in Thread : call'[h] = IF h = th THEN c ELSE call[h]
    BY <1>4 DEF Inductive, CallsOK
  <2> QED
    BY <1>1, <1>2, <1>4, <2>1 DEF CallsPlaced
<1> QED
  BY <1>3, <1>4

(* A turn of process n without a call, and one that makes c of the call of *)
(* thread th.                                                              *)
LEMMA QuietTurn ==
  ASSUME OneNewcomer, Inductive, Inductive', JoinInv, NEW n \in Node, NEW q, Quiet(n, q),
         node' = [node EXCEPT ![n] = q], UNCHANGED <<call, note>>
  PROVE  JoinStep
<1>1. /\ NodesPlaced' /\ TablesLive' /\ Links' /\ NotesPlaced'
      /\ \A m \in Node : Up(m)' <=> Up(m)
      /\ Joined(J)' <=> Joined(J)
      /\ Linked' <=> Linked
  BY QuietNodes
<1>2. CallsPlaced'
  BY <1>1, CallsStay
<1> QED
  BY <1>1, <1>2 DEF JoinStep, JoinInv

LEMMA QuietCall ==
  ASSUME OneNewcomer, Inductive, Inductive', JoinInv, NEW n \in Node, NEW q, Quiet(n, q),
         node' = [node EXCEPT ![n] = q], UNCHANGED note,
         NEW th \in Thread, NEW c \in Call, CallOK(th, c), call' = [call EXCEPT ![th] = c]
  PROVE  JoinStep
<1>1. /\ NodesPlaced' /\ TablesLive' /\ Links' /\ NotesPlaced'
      /\ \A m \in Node : Up(m)' <=> Up(m)
      /\ Joined(J)' <=> Joined(J)
      /\ Linked' <=> Linked
  BY QuietNodes
<1>2. CallsPlaced'
  BY <1>1, CallsStay
<1> QED
  BY <1>1, <1>2 DEF JoinStep, JoinInv

(* A step of a lookup that changes no process.                             *)
LEMMA CallTurn ==
  ASSUME Inductive, JoinInv, UNCHANGED <<node, note>>,
         NEW th \in Thread, NEW c \in Call, CallOK(th, c), call' = [call EXCEPT ![th] = c]
  PROVE  JoinStep
<1>1. (\A m \in Node : Up(m)' <=> Up(m)) /\ (Joined(J)' <=> Joined(J))
  BY DEF Up, Joined
<1>2. CallsPlaced'
  BY <1>1, CallsStay
<1>3. NodesPlaced' /\ TablesLive' /\ Links' /\ NotesPlaced'
  BY DEF JoinInv, NodesPlaced, TablesLive, LiveTable, Links, NotesPlaced, NoteOK,
         Up, Joined, Linked, Known
<1> QED
  BY <1>1, <1>2, <1>3 DEF JoinStep, JoinInv, Linked

(* A process that is up moves on in stabilize: a founder, the newcomer.    *)
Stabilizing == {"ping", "get", "test", "set", "notify"}

LEMMA FounderTurn ==
  ASSUME OneNewcomer, Inductive, JoinInv, NEW n \in Founders,
         NEW pc \in Stabilizing, NEW x,
         note[n].at = "idle", node[n].ppc # "notify",
         pc = "test" => x = n \/ (n = Before /\ x = J),
         pc = "set" => n = Before /\ x = J /\ node[n].finger[0] = After,
         pc \in {"test", "set"} /\ x = J => Known
  PROVE  Quiet(n, [node[n] EXCEPT !.ppc = pc, !.x = x])
<1> DEFINE q == [node[n] EXCEPT !.ppc = pc, !.x = x]
<1>1. n \in Node /\ n # J /\ Up(n) /\ Joined(n) /\ FounderOK(n, node[n])
  BY AtFounder
<1>2. /\ q.status = node[n].status /\ q.pred = node[n].pred /\ q.mpc = node[n].mpc
      /\ q.finger = node[n].finger /\ q.ppc = pc /\ q.x = x
  BY <1>1 DEF Inductive, NodesOK, Process
<1> HIDE DEF q
<1>3. FounderOK(n, q)
  BY <1>1, <1>2 DEF FounderOK, Stabilizing
<1>4. LiveTable(q.finger)
  BY <1>1, <1>2 DEF JoinInv, TablesLive
<1>5. Quiet(n, q)
  BY <1>1, <1>2, <1>3, <1>4 DEF Quiet, Still, Up, Joined
<1> QED
  BY <1>5 DEF q

LEMMA NewcomerTurn ==
  ASSUME OneNewcomer, Inductive, JoinInv, Up(J),
         NEW pc \in Stabilizing \ {"set"}, NEW x,
         NEW f \in {node[J].finger, withSuccessor(node[J].finger, J)},
         note[J].at = "idle",
         pc = "test" => x = Nil \/ (Joined(J) /\ x \in {J, Before}),
         ~Joined(J) => node[J].pred = Nil
  PROVE  Quiet(J, [node[J] EXCEPT !.finger = f, !.ppc = pc, !.x = x])
<1> DEFINE q == [node[J] EXCEPT !.finger = f, !.ppc = pc, !.x = x]
<1>1. J \in Node /\ J \notin Founders /\ J # Before
  BY Places DEF Placed
<1>2. /\ q.status = node[J].status /\ q.pred = node[J].pred /\ q.mpc = node[J].mpc
      /\ q.finger = f /\ q.ppc = pc /\ q.x = x
  BY <1>1 DEF Inductive, NodesOK, Process
<1> HIDE DEF q
<1>3. LiveTable(q.finger)
  BY <1>1, <1>2, AtUp DEF JoinInv, TablesLive
<1>4. Lonely(q) \/ Joining(q)
  <2>1. CASE Joined(J)
    <3>1. Joining(node[J]) /\ f = node[J].finger
      BY <2>1, AtJoining
    <3> QED
      BY <1>2, <2>1, <3>1 DEF Joining
  <2>2. CASE ~Joined(J)
    <3>1. Lonely(node[J]) /\ \A k \in Index : f[k] \in {Nil, J}
      BY <2>2, AtLonely DEF Lonely
    <3> QED
      BY <1>2, <2>2, <3>1 DEF Lonely
  <2> QED
    BY <2>1, <2>2
<1>5. NewcomerOK(q)
  BY <1>2, <1>4 DEF NewcomerOK, Up, Stabilizing
<1>6. Quiet(J, q)
  BY <1>1, <1>2, <1>3, <1>5 DEF Quiet, Still, Up, Joined
<1> QED
  BY <1>6 DEF q

LEMMA Awake ==
  ASSUME OneNewcomer, Inductive, JoinInv, NEW n \in Node, node[n].ppc # "none"
  PROVE  Up(n) /\ (n \in Founders \/ n = J) /\ node[n] \in Process
BY AtFounder, AtNewcomer, Places DEF Placed, Inductive, NodesOK

-----------------------------------------------------------------------------
(* The actions: a round of the maintenance thread.                         *)

LEMMA CheckPredecessorJoin ==
  ASSUME OneNewcomer, Inductive, Inductive', JoinInv, NEW n \in Node, CheckPredecessor(n)
  PROVE  JoinStep
<1> DEFINE q == [node[n] EXCEPT !.ppc = "ping"]
<1>1. node[n].ppc \in {"first", "sleep"} /\ UNCHANGED <<call, note>>
  BY DEF CheckPredecessor
<1>2. Up(n) /\ (n \in Founders \/ n = J) /\ node[n] \in Process
  BY <1>1, Awake
<1>3. node[n].ppc = "sleep" => Joined(n) /\ note[n].at = "idle"
  BY DEF CheckPredecessor, Settled, OneNewcomer
<1>4. note[n].at = "idle"
  BY <1>1, <1>3 DEF JoinInv, NotesPlaced, Early
<1>5. node[n].pred # Nil => Up(node[n].pred)
  <2>1. CASE n \in Founders
    BY <2>1, AtFounder, AtNewcomer, Places DEF FounderOK, Placed, JoinInv, Links, Known
  <2>2. CASE n = J
    <3>1. node[n].pred \in {Nil, J, Before}
      BY <1>2, <2>2, AtNewcomer DEF Lonely, Joining
    <3> QED
      BY <1>2, <2>2, <3>1, AtFounder, Places DEF Placed
  <2> QED
    BY <1>2, <2>1, <2>2
<1>6. node' = [node EXCEPT ![n].ppc = "ping"]
  BY <1>5, Answers DEF CheckPredecessor, ping
<1>7. node' = [node EXCEPT ![n] = q]
  BY <1>6 DEF Inductive, NodesOK
<1>8. Quiet(n, q)
  <2>1. "ping" \in Stabilizing \ {"set"}
    BY DEF Stabilizing
  <2>2. CASE n \in Founders
    <3>1. q = [node[n] EXCEPT !.ppc = "ping", !.x = node[n].x]
      BY <1>2 DEF Process
    <3>2. Quiet(n, [node[n] EXCEPT !.ppc = "ping", !.x = node[n].x])
      BY <1>1, <1>4, <2>1, <2>2, FounderTurn
    <3> QED
      BY <3>1, <3>2
  <2>3. CASE n = J
    <3>1. q = [node[J] EXCEPT !.finger = node[J].finger, !.ppc = "ping", !.x = node[J].x]
      BY <1>2, <2>3 DEF Process
    <3>2. ~Joined(J) => node[J].pred = Nil
      BY <1>1, <1>2, <1>3, <2>3, AtLonely DEF Lonely
    <3> QED
      BY <1>1, <1>2, <1>4, <2>1, <2>3, <3>1, <3>2, NewcomerTurn
  <2> QED
    BY <1>2, <2>2, <2>3
<1> HIDE DEF q
<1> QED
  BY <1>1, <1>7, <1>8, QuietTurn

LEMMA ClearPredecessorJoin ==
  ASSUME OneNewcomer, Inductive, JoinInv, NEW n \in Node
  PROVE  ~ClearPredecessor(n)
<1>1. node[n].ppc # "clear"
  BY Places, AtFounder, AtNewcomer, Awake DEF FounderOK
<1> QED
  BY <1>1 DEF ClearPredecessor

LEMMA StabilizePingJoin ==
  ASSUME OneNewcomer, Inductive, Inductive', JoinInv, NEW n \in Node, StabilizePing(n)
  PROVE  JoinStep
<1> DEFINE f == withSuccessor(node[n].finger, n)
           q == [node[n] EXCEPT !.finger = f, !.ppc = "get"]
<1>1. node[n].ppc = "ping"
  BY DEF StabilizePing
<1>2. /\ Up(n) /\ (n \in Founders \/ n = J) /\ node[n] \in Process
      /\ note[n].at = "idle" /\ Up(succ(n))
  BY <1>1, Awake, AtUp DEF JoinInv, NotesPlaced, Early
<1>3. /\ node' = [node EXCEPT ![n].finger = f, ![n].ppc = "get"]
      /\ UNCHANGED <<call, note>>
  BY <1>2, Answers DEF StabilizePing, ping
<1>4. node' = [node EXCEPT ![n] = q]
  BY <1>3 DEF Inductive, NodesOK
<1>5. Quiet(n, q)
  <2>1. "get" \in Stabilizing \ {"set"}
    BY DEF Stabilizing
  <2>2. CASE n \in Founders
    <3>1. q = [node[n] EXCEPT !.ppc = "get", !.x = node[n].x]
      <4>1. f = node[n].finger
        BY <2>2, AtFounder
      <4> HIDE DEF f
      <4> QED
        BY <1>2, <4>1 DEF Process
    <3>2. Quiet(n, [node[n] EXCEPT !.ppc = "get", !.x = node[n].x])
      BY <1>1, <1>2, <2>1, <2>2, FounderTurn
    <3> QED
      BY <3>1, <3>2
  <2>3. CASE n = J
    <3>1. q = [node[J] EXCEPT !.finger = f, !.ppc = "get", !.x = node[J].x]
      BY <1>2, <2>3 DEF Process
    <3>2. ~Joined(J) => node[J].pred = Nil
      BY <1>1, <1>2, <2>3, AtLonely DEF Lonely
    <3>3. Quiet(J, [node[J] EXCEPT !.finger = f, !.ppc = "get", !.x = node[J].x])
      BY <1>1, <1>2, <2>1, <2>3, <3>2, NewcomerTurn
    <3> QED
      BY <2>3, <3>1, <3>3
  <2> QED
    BY <1>2, <2>2, <2>3
<1> HIDE DEF q
<1> QED
  BY <1>3, <1>4, <1>5, QuietTurn

(* What stabilize is told: a founder hears of itself, or Before of the     *)
(* newcomer.                                                               *)
LEMMA FounderAsks ==
  ASSUME OneNewcomer, Inductive, JoinInv, NEW n \in Founders, node[n].ppc = "get"
  PROVE  /\ node[succ(n)].pred # Nil
         /\ \/ node[succ(n)].pred = n
            \/ n = Before /\ node[succ(n)].pred = J /\ Known
<1>1. /\ FounderOK(n, node[n]) /\ succ(n) = node[n].finger[0] /\ note[n].at = "idle"
      /\ n \in Node /\ n # J
  BY AtFounder DEF JoinInv, NotesPlaced, Early
<1>2. CASE succ(n) = Old(n)
  <2>1. /\ Old(n) \in Founders /\ FounderOK(Old(n), node[Old(n)])
        /\ \A m \in Founders : Old(m) = Old(n) => m = n
        /\ Old(n) = After => n = Before
        /\ Nil \notin Node
    BY AtFounder, Places DEF Placed
  <2> QED
    BY <1>2, <2>1 DEF FounderOK, Known
<1>3. CASE n = Before /\ succ(n) = J
  <2>1. Linked /\ node[J].pred # Nil /\ Known /\ Joined(J)
    BY <1>1, <1>3 DEF Linked, JoinInv, Links
  <2>2. node[J].pred \in {J, Before}
    BY <2>1, AtJoining DEF Joining
  <2> QED
    BY <1>3, <2>1, <2>2
<1> QED
  BY <1>1, <1>2, <1>3 DEF FounderOK

LEMMA AfterKnows ==
  ASSUME OneNewcomer, Inductive, JoinInv
  PROVE  node[After].pred \in {Before, J} /\ node[After].pred # Nil
<1>1. /\ After \in Founders /\ FounderOK(After, node[After]) /\ Nil \notin Node
      /\ Before \in Founders /\ Old(Before) = After
      /\ \A m \in Founders : Old(m) = Old(Before) => m = Before
  BY AtFounder, Places DEF Placed
<1> QED
  BY <1>1 DEF FounderOK

LEMMA StabilizeGetJoin ==
  ASSUME OneNewcomer, Inductive, Inductive', JoinInv, NEW n \in Node, StabilizeGet(n)
  PROVE  JoinStep
<1> DEFINE s == succ(n)
           f == withSuccessor(node[n].finger, n)
           x == node[s].pred
           q == [node[n] EXCEPT !.finger = f, !.ppc = "test", !.x = x]
<1>1. node[n].ppc = "get"
  BY DEF StabilizeGet
<1>2. /\ Up(n) /\ (n \in Founders \/ n = J) /\ node[n] \in Process
      /\ note[n].at = "idle" /\ Up(s)
  BY <1>1, Awake, AtUp DEF JoinInv, NotesPlaced, Early
<1>3. s # n => x # Nil
  <2>1. CASE n \in Founders
    BY <1>1, <2>1, FounderAsks
  <2>2. CASE n = J
    BY <1>2, <2>2, AfterKnows, AtJoining, AtLonely
  <2> QED
    BY <1>2, <2>1, <2>2
<1>4. node' = Got(n, x) /\ UNCHANGED <<call, note>>
  BY <1>2, <1>3, Answers DEF StabilizeGet, RemoteGetPredecessor
<1>5. node' = [node EXCEPT ![n] = q]
  BY <1>4 DEF Inductive, NodesOK, Got
<1>6. Quiet(n, q)
  <2>1. "test" \in Stabilizing \ {"set"}
    BY DEF Stabilizing
  <2>2. CASE n \in Founders
    <3>1. q = [node[n] EXCEPT !.ppc = "test", !.x = x]
      <4>1. f = node[n].finger
        BY <2>2, AtFounder
      <4> HIDE DEF f, x
      <4> QED
        BY <1>2, <4>1 DEF Process
    <3>2. (x = n \/ (n = Before /\ x = J)) /\ (x = J => Known)
      BY <1>1, <2>2, FounderAsks, Places DEF Placed
    <3>3. node[n].ppc # "notify"
      BY <1>1
    <3> HIDE DEF x, q, f
    <3>4. Quiet(n, [node[n] EXCEPT !.ppc = "test", !.x = x])
      BY <1>2, <2>1, <2>2, <3>2, <3>3, FounderTurn
    <3> QED
      BY <3>1, <3>4
  <2>3. CASE n = J
    <3>1. ~Joined(J) => node[J].pred = Nil /\ x = Nil
      BY <1>1, <1>2, <2>3, AtLonely DEF Lonely
    <3>2. Joined(J) => x \in {J, Before}
      BY <2>3, AtJoining, AfterKnows
    <3> HIDE DEF x, q
    <3>3. Quiet(J, [node[J] EXCEPT !.finger = f, !.ppc = "test", !.x = x])
      BY <1>2, <2>1, <2>3, <3>1, <3>2, NewcomerTurn
    <3> QED
      BY <2>3, <3>3 DEF q
  <2> QED
    BY <1>2, <2>2, <2>3
<1> HIDE DEF q
<1> QED
  BY <1>4, <1>5, <1>6, QuietTurn

LEMMA NotBetween ==
  ASSUME NEW a \in Nat, NEW b \in Nat, a # b
  PROVE  ~InInterval(a, a, b) /\ ~InInterval(b, a, b)
BY DEF InInterval

LEMMA StabilizeTestJoin ==
  ASSUME OneNewcomer, Inductive, Inductive', JoinInv, NEW n \in Node, StabilizeTest(n)
  PROVE  JoinStep
<1> DEFINE x == node[n].x
           f == withSuccessor(node[n].finger, n)
           yes == [node[n] EXCEPT !.finger = f, !.ppc = "set"]
           no == [node[n] EXCEPT !.finger = f, !.ppc = "notify", !.x = Nil]
<1>1. node[n].ppc = "test" /\ UNCHANGED <<call, note>>
  BY DEF StabilizeTest
<1>2. /\ Up(n) /\ (n \in Founders \/ n = J) /\ node[n] \in Process
      /\ note[n].at = "idle" /\ n \in Nat /\ succ(n) \in Nat
  BY <1>1, Awake, AtUp, Places DEF JoinInv, NotesPlaced, Early, Placed
<1>3. \/ x # Nil /\ InInterval(x, n, succ(n)) /\ node' = [node EXCEPT ![n] = yes]
      \/ ~(x # Nil /\ InInterval(x, n, succ(n))) /\ node' = [node EXCEPT ![n] = no]
  BY DEF StabilizeTest, Inductive, NodesOK
<1>4. {"set", "notify"} \subseteq Stabilizing
  BY DEF Stabilizing
<1>5. CASE n \in Founders
  <2>1. f = node[n].finger /\ succ(n) # n /\ succ(n) = node[n].finger[0] /\ n # J
    BY <1>5, AtFounder
  <2>2. /\ yes = [node[n] EXCEPT !.ppc = "set", !.x = x]
        /\ no = [node[n] EXCEPT !.ppc = "notify", !.x = Nil]
    <3> HIDE DEF f
    <3> QED
      BY <1>2, <2>1 DEF Process
  <2>3. x = n \/ (n = Before /\ x = J /\ Known)
    BY <1>1, <1>5, AtFounder DEF FounderOK, JoinInv, Links
  <2>4. ASSUME InInterval(x, n, succ(n))
        PROVE  n = Before /\ x = J /\ Known /\ node[n].finger[0] = After
    <3>1. x # n
      BY <1>2, <2>1, <2>4, NotBetween
    <3>2. n = Before /\ x = J /\ Known
      BY <2>3, <3>1
    <3>3. succ(n) # J
      BY <1>2, <2>1, <2>4, <3>2, NotBetween
    <3>4. succ(n) = Old(n)
      BY <1>5, <2>1, <3>3, AtFounder DEF FounderOK
    <3> QED
      BY <2>1, <3>2, <3>4, Places DEF Placed
  <2>5. node[n].ppc # "notify"
    BY <1>1
  <2> HIDE DEF x, yes, no, f
  <2>6. Quiet(n, no)
    <3>1. Quiet(n, [node[n] EXCEPT !.ppc = "notify", !.x = Nil])
      BY <1>2, <1>4, <1>5, <2>5, FounderTurn
    <3> QED
      BY <2>2, <3>1
  <2>7. InInterval(x, n, succ(n)) => Quiet(n, yes)
    <3>1. InInterval(x, n, succ(n)) => Quiet(n, [node[n] EXCEPT !.ppc = "set", !.x = x])
      BY <1>2, <1>4, <1>5, <2>4, <2>5, FounderTurn
    <3> QED
      BY <2>2, <3>1
  <2> QED
    BY <1>1, <1>3, <2>6, <2>7, QuietTurn
<1>6. CASE n = J
  <2>1. ~(x # Nil /\ InInterval(x, n, succ(n))) /\ (~Joined(J) => node[J].pred = Nil)
    <3>1. CASE Joined(J)
      <4>1. x \in {Nil, J, Before} /\ succ(n) = After /\ After # J
        BY <1>1, <1>6, <3>1, AtJoining DEF Joining
      <4>2. ~InInterval(J, J, After)
        BY <1>2, <1>6, <4>1, NotBetween
      <4> QED
        BY <1>6, <3>1, <4>1, <4>2, Places DEF Placed
    <3>2. CASE ~Joined(J)
      BY <1>1, <1>2, <1>6, <3>2, AtLonely DEF Lonely
    <3> QED
      BY <3>1, <3>2
  <2>2. node' = [node EXCEPT ![n] = no]
    BY <1>3, <2>1
  <2> HIDE DEF f
  <2>3. Quiet(J, [node[J] EXCEPT !.finger = f, !.ppc = "notify", !.x = Nil])
    <3>1. f \in {node[J].finger, withSuccessor(node[J].finger, J)}
      BY <1>6 DEF f
    <3> QED
      BY <1>2, <1>4, <1>6, <2>1, <3>1, NewcomerTurn
  <2>4. Quiet(n, no)
    BY <1>6, <2>3
  <2> HIDE DEF no
  <2> QED
    BY <1>1, <2>2, <2>4, QuietTurn
<1> QED
  BY <1>2, <1>5, <1>6

LEMMA StabilizeSetJoin ==
  ASSUME OneNewcomer, Inductive, Inductive', JoinInv, NEW n \in Node, StabilizeSet(n)
  PROVE  JoinStep
<1> DEFINE q == [node[n] EXCEPT !.finger = setNode(node[n].finger, 0, node[n].x),
                                !.ppc = "notify", !.x = Nil]
<1>1. node[n].ppc = "set" /\ UNCHANGED <<call, note>>
  BY DEF StabilizeSet
<1>2. /\ Up(n) /\ n \in Founders /\ node[n] \in Process
      /\ n = Before /\ node[n].x = J /\ note[n].at = "idle"
  BY <1>1, Awake, AtNewcomer, AtFounder DEF FounderOK, JoinInv, NotesPlaced, Early
<1>3. Known /\ Joined(J) /\ Up(J)
  BY <1>1, <1>2, AtJoining DEF JoinInv, Links
<1>4. node' = [node EXCEPT ![n] = q]
  BY DEF StabilizeSet, Inductive, NodesOK
<1>5. 0 \in Index /\ node[n].finger \in Table
  BY MAssumption, ProcessType DEF Index, Inductive
<1>6. /\ q.status = node[n].status /\ q.pred = node[n].pred /\ q.mpc = node[n].mpc
      /\ q.finger = setNode(node[n].finger, 0, J) /\ q.ppc = "notify" /\ q.finger[0] = J
  BY <1>2, <1>5 DEF Process, setNode, Table
<1> HIDE DEF q
<1>7. FounderOK(n, q)
  BY <1>2, <1>6, AtFounder DEF FounderOK
<1>8. \A m \in Node : node'[m] = IF m = n THEN q ELSE node[m]
  BY <1>4 DEF Inductive, NodesOK
<1>9. /\ J \in Node /\ J \notin Founders /\ Founders \subseteq Node
      /\ After \in Node /\ Before \in Node
  BY Places DEF Placed
<1>10. NodesPlaced'
  BY <1>2, <1>7, <1>8, <1>9 DEF JoinInv, NodesPlaced
<1>11. (\A m \in Node : Up(m)' <=> Up(m)) /\ \A m \in Node : node'[m].pred = node[m].pred
  BY <1>6, <1>8 DEF Up
<1>12. (Joined(J)' <=> Joined(J)) /\ (Known' <=> Known) /\ Linked'
  BY <1>2, <1>6, <1>8, <1>9, <1>11 DEF Joined, Known, Linked
<1>13. TablesLive'
  <2>1. LiveTable(q.finger)
    BY <1>3, <1>5, <1>6, <1>9 DEF LiveTable, setNode, Table, JoinInv, TablesLive
  <2> QED
    BY <1>8, <1>11, <2>1, TablesStay DEF JoinInv, TablesLive
<1>14. CallsPlaced'
  BY <1>1, <1>11, <1>12, CallsStay
<1>15. Links'
  BY <1>2, <1>3, <1>6, <1>8, <1>9, <1>12 DEF Links
<1>16. NotesPlaced'
  <2>1. ASSUME NEW m \in Node, m # n
        PROVE  NoteOK(m, note[m])'
    BY <1>1, <1>8, <1>9, <1>11, <1>12, <2>1 DEF JoinInv, NotesPlaced, NoteOK
  <2>2. NoteOK(n, note[n])'
    BY <1>1, <1>2 DEF NoteOK
  <2> QED
    BY <1>1, <1>2, <1>8, <2>1, <2>2 DEF JoinInv, NotesPlaced
<1> QED
  BY <1>10, <1>12, <1>13, <1>14, <1>15, <1>16 DEF JoinStep, JoinInv

LEMMA StabilizeNotifyJoin ==
  ASSUME OneNewcomer, Inductive, Inductive', JoinInv, NEW n \in Node, StabilizeNotify(n)
  PROVE  JoinStep
<1> DEFINE s == succ(n)
           f == withSuccessor(node[n].finger, n)
           q == [node[n] EXCEPT !.finger = f, !.ppc = "fix"]
           t == [at |-> "null", to |-> s]
<1>1. node[n].ppc = "notify" /\ UNCHANGED call
  BY DEF StabilizeNotify
<1>2. /\ Up(n) /\ (n \in Founders \/ n = J) /\ node[n] \in Process
      /\ note[n].at = "idle" /\ Up(s) /\ s \in Node /\ LiveTable(f)
      /\ n \in Founders \/ Joined(n) => f = node[n].finger
  BY <1>1, Awake, AtUp DEF JoinInv, NotesPlaced, Early
<1>3. node' = [node EXCEPT ![n] = q] /\ note' = [note EXCEPT ![n] = t]
  BY <1>2, Answers DEF StabilizeNotify, Inductive, NodesOK
<1>4. /\ q.status = node[n].status /\ q.pred = node[n].pred /\ q.mpc = node[n].mpc
      /\ q.finger = f /\ q.ppc = "fix"
  BY <1>2 DEF Process
<1>5. t.at = "null" /\ t.to = s
  OBVIOUS
<1> HIDE DEF q, t
<1>6. Still(n, q)
  <2>1. CASE n \in Founders
    <3>1. FounderOK(n, q) /\ n # J
      BY <1>2, <1>4, <2>1, AtFounder DEF FounderOK
    <3> QED
      BY <1>2, <1>4, <2>1, <3>1 DEF Still, Up, Joined
  <2>2. CASE n = J
    <3>1. n \notin Founders /\ n # Before
      BY <2>2, Places DEF Placed
    <3>2. NewcomerOK(q)
      <4>1. CASE Joined(J)
        BY <1>2, <1>4, <2>2, <4>1, AtJoining DEF NewcomerOK, Joining, Up
      <4>2. CASE ~Joined(J)
        BY <1>2, <1>4, <2>2, <4>2, AtLonely DEF NewcomerOK, Lonely, Up
      <4> QED
        BY <4>1, <4>2
    <3> QED
      BY <1>2, <1>4, <3>1, <3>2 DEF Still, Up, Joined
  <2> QED
    BY <1>2, <2>1, <2>2
<1>7. /\ NodesPlaced' /\ TablesLive'
      /\ \A m \in Node : Up(m)' <=> Up(m)
      /\ \A m \in Node : node'[m].pred = node[m].pred
      /\ \A m \in Founders : node'[m].finger[0] = node[m].finger[0]
      /\ Joined(J)' <=> Joined(J)
      /\ (Linked' <=> Linked) /\ (Known' <=> Known)
      /\ node'[Before].ppc \in {"test", "set"} /\ node'[Before].x = J => Known
  BY <1>3, <1>6, StillNodes
<1>8. CallsPlaced'
  BY <1>1, <1>7, CallsStay
<1>9. /\ \A m \in Node : node'[m] = IF m = n THEN q ELSE node[m]
      /\ \A m \in Node : note'[m] = IF m = n THEN t ELSE note[m]
      /\ J \in Node /\ Before \in Node
  BY <1>3, Places DEF Inductive, NodesOK, NotesOK, Placed
<1>10. Links'
  BY <1>4, <1>5, <1>7, <1>9 DEF JoinInv, Links
<1>11. NotesPlaced'
  <2>1. ASSUME NEW m \in Node, m # n
        PROVE  NoteOK(m, note[m])'
    BY <1>7, <1>9, <2>1 DEF JoinInv, NotesPlaced, NoteOK
  <2>2. note'[n].at = "null" /\ note'[n].to = s
    BY <1>5, <1>9
  <2>3. NoteOK(n, note[n])'
    <3>1. CASE n \in Founders
      <4>1. note'[n].to = node'[n].finger[0]
        BY <1>7, <2>2, <3>1, AtFounder
      <4> QED
        BY <2>2, <3>1, <4>1 DEF NoteOK
    <3>2. CASE n = J /\ Joined(J)
      BY <1>7, <2>2, <3>2, AtJoining DEF NoteOK
    <3>3. CASE n = J /\ ~Joined(J)
      <4>1. s = J /\ node[J].pred = Nil /\ ~Known
        BY <1>1, <1>2, <3>3, AtLonely DEF Lonely, JoinInv, Links
      <4> QED
        BY <1>7, <1>9, <2>2, <3>3, <4>1 DEF NoteOK
    <3> QED
      BY <1>2, <3>1, <3>2, <3>3
  <2>4. \A m \in Node : node'[m].ppc \in Early => note'[m].at = "idle"
    BY <1>4, <1>9 DEF JoinInv, NotesPlaced, Early
  <2> QED
    BY <2>1, <2>3, <2>4 DEF NotesPlaced
<1> QED
  BY <1>7, <1>8, <1>10, <1>11 DEF JoinStep, JoinInv

(* A turn outside stabilize: the table is g.                               *)
LEMMA ChoreTurn ==
  ASSUME OneNewcomer, Inductive, JoinInv, NEW n \in Node, Up(n), NEW q, NEW g,
         q.status = "up", q.pred = node[n].pred, q.x = node[n].x, q.finger = g,
         q.mpc = node[n].mpc \/ (Joined(n) /\ q.mpc \in {"run", "send"}),
         \/ q.ppc = node[n].ppc /\ q.k = node[n].k
         \/ node[n].ppc = "fix" /\ q.ppc = "find" /\ q.k \in 1 .. M - 2
         \/ node[n].ppc = "find" /\ q.ppc = "sleep",
         LiveTable(g),
         n \in Founders \/ Joined(n) => g[0] = node[n].finger[0],
         n = J /\ ~Joined(n) => \A k \in Index : g[k] \in {Nil, J}
  PROVE  Quiet(n, q)
<1>1. (n \in Founders /\ n # J) \/ (n = J /\ n \notin Founders /\ n # Before)
  BY Places DEF Placed
<1>2. n \in Founders => FounderOK(n, q)
  BY AtFounder DEF FounderOK
<1>3. n = J => NewcomerOK(q)
  <2>1. CASE n = J /\ Joined(J)
    <3>1. Joining(node[J]) /\ NewcomerOK(node[J]) /\ node[J] # Off
      BY <2>1, AtJoining, AtNewcomer DEF Joining, Off
    <3> QED
      BY <2>1, <3>1 DEF NewcomerOK, Joining
  <2>2. CASE n = J /\ ~Joined(J)
    <3>1. Lonely(node[J]) /\ NewcomerOK(node[J]) /\ node[J] # Off
      BY <2>2, AtLonely, AtNewcomer DEF Lonely, Off
    <3> QED
      BY <2>2, <3>1 DEF NewcomerOK, Lonely
  <2> QED
    BY <2>1, <2>2
<1>4. q.mpc \in {"run", "send"} <=> Joined(n)
  BY DEF Joined
<1>5. n = Before /\ q.ppc \in {"test", "set"} /\ q.x = J => Known
  BY DEF JoinInv, Links
<1>6. q.ppc \in Early => note[n].at = "idle"
  BY DEF JoinInv, NotesPlaced, Early
<1>7. q.ppc # "notify" => node[n].ppc # "notify"
  OBVIOUS
<1> QED
  BY <1>1, <1>2, <1>3, <1>4, <1>5, <1>6, <1>7 DEF Quiet, Still

(* A call that is just made, and one that is over.                         *)
LEMMA NewCallOK ==
  ASSUME NEW n \in Node, Up(n), NEW r \in Role, NEW key \in Id, r = "main" => Joined(n)
  PROVE  LET c == [at |-> "succ", key |-> key, path |-> <<n>>, res |-> Nil, i |-> 0]
         IN  c \in Call /\ CallOK(<<n, r>>, c)
<1> DEFINE c == [at |-> "succ", key |-> key, path |-> <<n>>, res |-> Nil, i |-> 0]
<1>1. c \in Call
  BY NewCallGood DEF GoodCall
<1>2. c.at = "succ" /\ c.path = <<n>> /\ Len(c.path) = 1 /\ c.path[1] = n
  OBVIOUS
<1> HIDE DEF c
<1>3. \A i \in 1 .. Len(c.path) : Up(c.path[i])
  BY <1>2
<1>4. CallOK(<<n, r>>, c)
  BY <1>2, <1>3 DEF CallOK
<1> QED
  BY <1>1, <1>4 DEF c

LEMMA NoCallOK ==
  ASSUME NEW th
  PROVE  NoCall \in Call /\ CallOK(th, NoCall)
BY NoCallGood DEF GoodCall, CallOK, NoCall

LEMMA FixFingersJoin ==
  ASSUME OneNewcomer, Inductive, Inductive', JoinInv, NEW n \in Node, FixFingers(n)
  PROVE  JoinStep
<1> DEFINE th == <<n, "periodic">>
<1>1. node[n].ppc = "fix" /\ UNCHANGED note
  BY DEF FixFingers
<1>2. Up(n) /\ (n \in Founders \/ n = J) /\ node[n] \in Process /\ th \in Thread
  BY <1>1, Awake DEF Thread, Role
<1>3. PICK k \in 1 .. M - 2 :
        /\ node' = [node EXCEPT ![n].ppc = "find", ![n].k = k]
        /\ call' = [call EXCEPT ![th] =
             [at |-> "succ", key |-> Start[n][k], path |-> <<n>>, res |-> Nil, i |-> 0]]
  BY DEF FixFingers
<1> DEFINE q == [node[n] EXCEPT !.ppc = "find", !.k = k]
           c == [at |-> "succ", key |-> Start[n][k], path |-> <<n>>, res |-> Nil, i |-> 0]
<1>4. node' = [node EXCEPT ![n] = q]
  BY <1>3 DEF Inductive, NodesOK
<1>5. Start[n][k] \in Id
  <2>1. Start \in [Node -> [Index -> Id]] /\ k \in Index
    BY <1>3, RingAssumption, MAssumption DEF Index
  <2> QED
    BY <2>1
<1>6. c \in Call /\ CallOK(th, c)
  BY <1>2, <1>5, NewCallOK DEF Role
<1>7. Quiet(n, q)
  <2>1. /\ q.status = "up" /\ q.pred = node[n].pred /\ q.x = node[n].x
        /\ q.finger = node[n].finger /\ q.mpc = node[n].mpc /\ q.ppc = "find" /\ q.k = k
    BY <1>2 DEF Process, Up
  <2>2. LiveTable(node[n].finger)
    BY DEF JoinInv, TablesLive
  <2>3. n = J /\ ~Joined(n) => \A i \in Index : node[n].finger[i] \in {Nil, J}
    BY <1>2, AtLonely DEF Lonely
  <2> HIDE DEF q
  <2> QED
    BY <1>1, <1>2, <1>3, <2>1, <2>2, <2>3, ChoreTurn
<1> HIDE DEF q, c, th
<1> QED
  BY <1>1, <1>2, <1>3, <1>4, <1>6, <1>7, QuietCall DEF c

(* A node that is found is no null: the write tears no read.               *)
LEMMA NotTorn ==
  ASSUME NEW n \in Node, node[n].finger \in Table, NEW k \in Index, NEW r, r # Nil
  PROVE  ~Torn(n, setNode(node[n].finger, k, r))
<1> DEFINE f == node[n].finger
           j == Min(Filled(f, 0))
<1>1. getNode(f, 0) # Nil => j \in Index /\ f[j] # Nil
  <2>1. Filled(f, 0) \in SUBSET Index
    BY DEF Filled
  <2>2. getNode(f, 0) # Nil => Filled(f, 0) # {}
    BY DEF getNode
  <2>3. Filled(f, 0) # {} => j \in Filled(f, 0)
    BY <2>1, MinIndex
  <2> QED
    BY <2>2, <2>3 DEF Filled
<1>2. getNode(f, 0) # Nil => setNode(f, k, r)[j] # Nil
  BY <1>1 DEF setNode, Table
<1> QED
  BY <1>2 DEF Torn

LEMMA FixFingersSetJoin ==
  ASSUME OneNewcomer, Inductive, Inductive', JoinInv, NEW n \in Node, FixFingersSet(n)
  PROVE  JoinStep
<1> DEFINE th == <<n, "periodic">>
           r == call[th].res
           g == setNode(node[n].finger, node[n].k, r)
           p == [node[n] EXCEPT !.ppc = "sleep", !.k = 0]
           q == [p EXCEPT !.finger = g]
<1>1. node[n].ppc = "find" /\ call[th].at = "return"
  BY DEF FixFingersSet
<1>2. /\ Up(n) /\ (n \in Founders \/ n = J) /\ node[n] \in Process /\ th \in Thread
      /\ node[n].finger \in Table /\ node[n].k \in Index
  BY <1>1, Awake, ProcessType DEF Thread, Role, Inductive
<1>3. /\ r # Nil /\ Up(r)
      /\ n = J /\ ~Joined(n) => r = J
  BY <1>1, <1>2 DEF JoinInv, CallsPlaced, CallOK
<1>4. node[n].k \in 1 .. M - 2
  BY <1>1, <1>2, AtFounder, AtNewcomer DEF FounderOK, NewcomerOK, Off
<1> HIDE DEF r
<1>5. ~Torn(n, g)
  BY <1>2, <1>3, NotTorn
<1>6. /\ q.status = "up" /\ q.pred = node[n].pred /\ q.x = node[n].x
      /\ q.finger = g /\ q.mpc = node[n].mpc /\ q.ppc = "sleep"
  BY <1>2 DEF Process, Up
<1>7. Becomes(n, q, [call EXCEPT ![th] = NoCall])
  BY <1>5 DEF FixFingersSet, Write, r
<1>8. /\ node' = [node EXCEPT ![n] = q] /\ UNCHANGED note
      /\ call' = [call EXCEPT ![th] = NoCall]
  BY <1>6, <1>7 DEF Becomes
<1>9. Quiet(n, q)
  <2>1. LiveTable(g)
    BY <1>2, <1>3 DEF LiveTable, setNode, Table, JoinInv, TablesLive
  <2>2. g[0] = node[n].finger[0]
    <3>1. 0 \in Index /\ node[n].k # 0
      BY <1>4, MAssumption DEF Index
    <3> QED
      BY <1>2, <3>1 DEF setNode, Table
  <2>3. n = J /\ ~Joined(n) => \A i \in Index : g[i] \in {Nil, J}
    BY <1>2, <1>3, AtLonely DEF Lonely, setNode, Table
  <2> HIDE DEF q, g
  <2> QED
    BY <1>1, <1>2, <1>6, <2>1, <2>2, <2>3, ChoreTurn
<1> HIDE DEF q, th
<1> QED
  BY <1>2, <1>8, <1>9, NoCallOK, QuietCall

-----------------------------------------------------------------------------
(* The actions: the main thread.                                           *)

LEMMA AtPrompt ==
  ASSUME OneNewcomer, Inductive, JoinInv, NEW n \in Node, node[n].mpc # "none"
  PROVE  /\ Up(n) /\ (n \in Founders \/ n = J) /\ node[n] \in Process
         /\ ~Joined(n) => n = J
         /\ LiveTable(node[n].finger)
         /\ n = J /\ ~Joined(n) => \A k \in Index : node[n].finger[k] \in {Nil, J}
<1>1. n \in Founders \/ n = J
  BY Places DEF Placed
<1>2. Up(n) /\ (~Joined(n) => n = J)
  BY <1>1, AtFounder, AtNewcomer
<1>3. node[n] \in Process /\ LiveTable(node[n].finger)
  BY DEF Inductive, NodesOK, JoinInv, TablesLive
<1> QED
  BY <1>1, <1>2, <1>3, AtLonely DEF Lonely

LEMMA SendJoin ==
  ASSUME OneNewcomer, Inductive, Inductive', JoinInv, NEW n \in Node, Send(n)
  PROVE  JoinStep
<1> DEFINE th == <<n, "main">>
           q == [node[n] EXCEPT !.mpc = "send"]
<1>1. node[n].mpc = "run" /\ UNCHANGED note /\ node' = [node EXCEPT ![n] = q]
  BY DEF Send, Inductive, NodesOK
<1>2. Up(n) /\ node[n] \in Process /\ th \in Thread /\ Joined(n) /\ LiveTable(node[n].finger)
  BY <1>1, AtPrompt DEF Thread, Role, Joined
<1>3. PICK id \in Talk[n] :
        call' = [call EXCEPT ![th] =
                   [at |-> "succ", key |-> id, path |-> <<n>>, res |-> Nil, i |-> 0]]
  BY DEF Send
<1> DEFINE c == [at |-> "succ", key |-> id, path |-> <<n>>, res |-> Nil, i |-> 0]
<1>4. c \in Call /\ CallOK(th, c)
  <2>1. id \in Id /\ "main" \in Role
    BY <1>3, RingAssumption DEF Role
  <2> QED
    BY <1>2, <2>1, NewCallOK
<1>5. Quiet(n, q)
  <2>1. /\ q.status = "up" /\ q.pred = node[n].pred /\ q.x = node[n].x /\ q.k = node[n].k
        /\ q.finger = node[n].finger /\ q.mpc = "send" /\ q.ppc = node[n].ppc
    BY <1>2 DEF Process, Up
  <2> HIDE DEF q
  <2> QED
    BY <1>2, <2>1, ChoreTurn
<1> HIDE DEF q, c, th
<1> QED
  BY <1>1, <1>2, <1>3, <1>4, <1>5, QuietCall DEF c

LEMMA SendEndJoin ==
  ASSUME OneNewcomer, Inductive, Inductive', JoinInv, NEW n \in Node, SendEnd(n)
  PROVE  JoinStep
<1> DEFINE th == <<n, "main">>
           q == [node[n] EXCEPT !.mpc = "run"]
<1>1. node[n].mpc = "send" /\ call[th].at = "return"
  BY DEF SendEnd
<1>2. Up(n) /\ node[n] \in Process /\ th \in Thread /\ Joined(n) /\ LiveTable(node[n].finger)
  BY <1>1, AtPrompt DEF Thread, Role, Joined
<1>3. call[th].res # Nil
  BY <1>1, <1>2 DEF JoinInv, CallsPlaced, CallOK
<1>4. /\ node' = [node EXCEPT ![n] = q] /\ UNCHANGED note
      /\ call' = [call EXCEPT ![th] = NoCall]
  BY <1>3 DEF SendEnd, Inductive, NodesOK
<1>5. Quiet(n, q)
  <2>1. /\ q.status = "up" /\ q.pred = node[n].pred /\ q.x = node[n].x /\ q.k = node[n].k
        /\ q.finger = node[n].finger /\ q.mpc = "run" /\ q.ppc = node[n].ppc
    BY <1>2 DEF Process, Up
  <2> HIDE DEF q
  <2> QED
    BY <1>2, <2>1, ChoreTurn
<1> HIDE DEF q, th
<1> QED
  BY <1>2, <1>4, <1>5, NoCallOK, QuietCall

(* The newcomer is on its way into the ring.                               *)
LEMMA NewcomerMoves ==
  ASSUME OneNewcomer, Inductive, Inductive', JoinInv, ~Joined(J), NEW q,
         node' = [node EXCEPT ![J] = q], UNCHANGED note,
         q.status = "up", NewcomerOK(q), LiveTable(q.finger),
         q.pred \in {Nil, node[J].pred},
         q.ppc = node[J].ppc \/ note[J].at = "idle"
  PROVE  /\ NodesPlaced' /\ TablesLive' /\ Links' /\ NotesPlaced'
         /\ \A m \in Node : Up(m) => Up(m)'
         /\ ~Linked
<1>1. /\ J \in Node /\ J \notin Founders /\ Founders \subseteq Node /\ Before # J /\ After # J
      /\ Before \in Node /\ After \in Node /\ Nil \notin Node
      /\ Before \in Founders /\ \A m \in Founders : Old(m) # J
  BY Places DEF Placed
<1>2. \A m \in Node : node'[m] = IF m = J THEN q ELSE node[m]
  BY <1>1 DEF Inductive, NodesOK
<1>3. NodesPlaced'
  BY <1>1, <1>2 DEF JoinInv, NodesPlaced
<1>4. \A m \in Node : Up(m) => Up(m)'
  BY <1>2 DEF Up
<1>5. TablesLive'
  BY <1>2, <1>4, TablesStay DEF JoinInv, TablesLive
<1>6. ~Linked /\ ~Known /\ ~Linked' /\ ~Known'
  BY <1>1, <1>2 DEF JoinInv, Links, Linked, Known
<1>7. \A m \in Founders : node[m].finger[0] # J
  BY <1>1, <1>6 DEF JoinInv, NodesPlaced, FounderOK, Linked
<1>8. Links'
  BY <1>1, <1>2, <1>6 DEF JoinInv, Links
<1>9. NotesPlaced'
  BY <1>1, <1>2, <1>6, <1>7 DEF JoinInv, NotesPlaced, NoteOK
<1> QED
  BY <1>3, <1>4, <1>5, <1>6, <1>8, <1>9

LEMMA JoinBeginJoin ==
  ASSUME OneNewcomer, Inductive, Inductive', JoinInv, NEW n \in Node, JoinBegin(n)
  PROVE  JoinStep
<1> DEFINE th == <<n, "main">>
           q == [node[n] EXCEPT !.pred = Nil, !.mpc = "wait"]
           c == [call[th] EXCEPT !.at = "succ"]
<1>1. node[n].mpc = "join" /\ call[th].at = "connect" /\ UNCHANGED note
  BY DEF JoinBegin
<1>2. Up(n) /\ n = J /\ ~Joined(J) /\ node[n] \in Process /\ th \in Thread
      /\ LiveTable(node[n].finger)
  BY <1>1, AtPrompt DEF Thread, Role, Joined
<1>3. call[th] \in Call /\ CallOK(th, call[th]) /\ Up(Here(th))
  <2>1. /\ call[th] \in Call /\ CallOK(th, call[th])
        /\ call[th].path \in Seq(Node) /\ Len(call[th].path) > 0
    BY <1>1, <1>2 DEF JoinInv, CallsPlaced, Inductive, CallsOK, GoodCall, Call
  <2> QED
    BY <1>1, <2>1 DEF CallOK, Here
<1>4. node' = [node EXCEPT ![n] = q] /\ call' = [call EXCEPT ![th] = c]
  <2>1. call \in [Thread -> Call] /\ node \in [Node -> Process]
    BY DEF Inductive, NodesOK, CallsOK
  <2>2. call' = [call EXCEPT ![th] = [@ EXCEPT !.at = "succ"]]
    BY <1>3, Answers DEF JoinBegin
  <2> QED
    BY <1>2, <2>1, <2>2 DEF JoinBegin
<1>5. c \in Call /\ CallOK(th, c)
  <2>1. /\ c \in Call /\ c.at = "succ" /\ c.key = call[th].key /\ c.path = call[th].path
    BY <1>3 DEF Call
  <2> HIDE DEF c, th
  <2> QED
    BY <1>1, <1>3, <2>1 DEF CallOK, th
<1>6. /\ q.status = "up" /\ q.finger = node[n].finger /\ q.pred = Nil /\ q.mpc = "wait"
      /\ q.ppc = node[n].ppc /\ q.x = node[n].x /\ q.k = node[n].k
  BY <1>2 DEF Process, Up
<1> HIDE DEF q, c, th
<1>7. NewcomerOK(q)
  BY <1>2, <1>6, AtLonely, AtNewcomer DEF NewcomerOK, Lonely, Joining, Joined, Up, Off
<1>8. /\ NodesPlaced' /\ TablesLive' /\ Links' /\ NotesPlaced'
      /\ \A m \in Node : Up(m) => Up(m)'
      /\ ~Linked
  BY <1>1, <1>2, <1>4, <1>6, <1>7, NewcomerMoves
<1>9. CallsPlaced'
  BY <1>2, <1>4, <1>5, <1>8, CallsStay
<1> QED
  BY <1>2, <1>8, <1>9 DEF JoinStep, JoinInv

LEMMA JoinEndJoin ==
  ASSUME OneNewcomer, Inductive, Inductive', JoinInv, NEW n \in Node, JoinEnd(n)
  PROVE  JoinStep
<1> DEFINE th == <<n, "main">>
           q == [node[n] EXCEPT !.finger = setNode(node[n].finger, 0, call[th].res),
                                !.mpc = "run"]
<1>1. /\ node[n].mpc = "wait" /\ call[th].at = "return" /\ UNCHANGED note
      /\ call' = [call EXCEPT ![th] = NoCall]
  BY DEF JoinEnd
<1>2. Up(n) /\ n = J /\ ~Joined(J) /\ node[n] \in Process /\ th \in Thread
      /\ LiveTable(node[n].finger) /\ Lonely(node[n])
  BY <1>1, AtPrompt, AtLonely DEF Thread, Role, Joined
<1>3. call[th].res = After /\ Up(After)
  BY <1>1, <1>2 DEF JoinInv, CallsPlaced, CallOK
<1>4. node' = [node EXCEPT ![n] = q]
  BY DEF JoinEnd, Inductive, NodesOK
<1>5. 0 \in Index /\ node[n].finger \in Table
  BY MAssumption, ProcessType DEF Index, Inductive
<1>6. /\ q.status = "up" /\ q.finger = setNode(node[n].finger, 0, After) /\ q.mpc = "run"
      /\ q.pred = node[n].pred
      /\ q.ppc = node[n].ppc /\ q.x = node[n].x /\ q.k = node[n].k
  BY <1>2, <1>3 DEF Process, Up
<1>7. q.finger[0] = After /\ LiveTable(q.finger)
  BY <1>2, <1>3, <1>5, <1>6 DEF LiveTable, setNode, Table
<1> HIDE DEF q, th
<1>8. NewcomerOK(q)
  BY <1>2, <1>6, <1>7, AtNewcomer DEF NewcomerOK, Lonely, Joining, Up, Off
<1>9. /\ NodesPlaced' /\ TablesLive' /\ Links' /\ NotesPlaced'
      /\ \A m \in Node : Up(m) => Up(m)'
      /\ ~Linked
  BY <1>1, <1>2, <1>4, <1>6, <1>7, <1>8, NewcomerMoves
<1>10. CallsPlaced'
  BY <1>1, <1>2, <1>9, NoCallOK, CallsStay
<1> QED
  BY <1>2, <1>9, <1>10 DEF JoinStep, JoinInv

LEMMA StartNodeJoin ==
  ASSUME OneNewcomer, Inductive, Inductive', JoinInv, NEW n \in Node, StartNode(n)
  PROVE  JoinStep
<1> DEFINE th == <<J, "main">>
           q == [Off EXCEPT !.status = "up", !.ppc = "first", !.mpc = "join"]
<1>1. n = J /\ J \in Node /\ th \in Thread /\ ~Up(J) /\ Founders # {}
  BY AtFounder, Places DEF Placed, StartNode, Up, Thread, Role
<1>2. node[J] = Off /\ ~Joined(J) /\ note[J].at = "idle"
  <2>1. node[J] = Off
    BY <1>1, AtNewcomer DEF NewcomerOK, Up
  <2>2. node[J].ppc = "none" /\ node[J].mpc = "none"
    BY <2>1 DEF Off
  <2> QED
    BY <1>1, <2>1, <2>2 DEF Joined, JoinInv, NotesPlaced, Early
<1>3. PICK c \in Node \ {J} :
        /\ node' = [node EXCEPT ![J] = q] /\ UNCHANGED note
        /\ call' = [call EXCEPT ![th] =
             [at |-> "connect", key |-> J, path |-> <<J, c>>, res |-> Nil, i |-> 0]]
  BY <1>1 DEF StartNode
<1>4. /\ q.status = "up" /\ q.finger = EmptyTable /\ q.pred = Nil /\ q.mpc = "join"
      /\ q.ppc = "first"
  BY DEF Off
<1>5. NewcomerOK(q) /\ LiveTable(q.finger)
  BY <1>4 DEF NewcomerOK, Lonely, LiveTable, EmptyTable
<1> HIDE DEF q
<1>6. /\ NodesPlaced' /\ TablesLive' /\ Links' /\ NotesPlaced'
      /\ \A m \in Node : Up(m) => Up(m)'
      /\ ~Linked
  BY <1>2, <1>3, <1>4, <1>5, NewcomerMoves
<1>7. Up(J)' /\ Up(c)'
  <2>1. c \in Node /\ Up(c)
    BY AtFounder, Places DEF Placed
  <2> QED
    BY <1>1, <1>3, <1>4, <1>6, <2>1 DEF Inductive, NodesOK, Up
<1>8. CallsPlaced'
  <2>1. ASSUME NEW h \in Thread, h # th
        PROVE  CallOK(h, call[h])'
    <3>1. call[h] \in Call /\ CallOK(h, call[h]) /\ call'[h] = call[h]
      BY <1>3, <2>1 DEF JoinInv, CallsPlaced, Inductive, CallsOK
    <3>2. CallOK(h, call[h])
      BY <3>1
    <3> DEFINE d == call[h]
    <3>3. d.path \in Seq(Node) /\ d.res \in Maybe(Node)
      BY <3>1 DEF Call
    <3>4. \A i \in 1 .. Len(d.path) : Up(d.path[i]) => node'[d.path[i]].status = "up"
      BY <1>6, <3>3 DEF Up
    <3>5. d.res # Nil /\ Up(d.res) => node'[d.res].status = "up"
      BY <1>6, <3>3 DEF Up, Maybe
    <3> QED
      BY <1>2, <3>1, <3>4, <3>5 DEF CallOK, Up
  <2>2. CallOK(th, call[th])'
    <3> DEFINE p == <<J, c>>
    <3>1. /\ call'[th].at = "connect" /\ call'[th].key = J /\ call'[th].path = p
      BY <1>1, <1>3 DEF Inductive, CallsOK
    <3>2. Len(p) = 2 /\ p[1] = J /\ p[2] = c
      OBVIOUS
    <3> HIDE DEF p
    <3>3. \A i \in 1 .. Len(p) : node'[p[i]].status = "up"
      BY <1>7, <3>2 DEF Up
    <3> QED
      BY <3>1, <3>2, <3>3 DEF CallOK, Up
  <2> QED
    BY <2>1, <2>2 DEF CallsPlaced
<1> QED
  BY <1>2, <1>6, <1>8 DEF JoinStep, JoinInv

(* Nobody is killed.                                                       *)
LEMMA FailJoin ==
  ASSUME OneNewcomer, Inductive, JoinInv, NEW n \in Node
  PROVE  ~Fail(n)
<1>1. ASSUME NEW m \in Node
      PROVE  node[m].status # "killed"
  <2>1. m \in Founders \/ m = J
    BY Places DEF Placed
  <2> QED
    BY <2>1, AtFounder, AtNewcomer DEF Up, NewcomerOK, Off
<1>2. {m \in Node : node[m].status = "killed"} = {}
  BY <1>1
<1>3. Cardinality({m \in Node : node[m].status = "killed"}) = 0
  BY <1>2, FS_EmptySet
<1> QED
  BY <1>3 DEF Fail, OneNewcomer

-----------------------------------------------------------------------------
(* The actions: lookups.                                                   *)

(* A lookup under way, and the node that works on it.                      *)
LEMMA AtLookup ==
  ASSUME Inductive, JoinInv, NEW th \in Thread, call[th].at # "idle"
  PROVE  /\ GoodCall(call[th]) /\ call[th] \in Call /\ CallOK(th, call[th])
         /\ call[th].path \in Seq(Node) /\ Len(call[th].path) > 0
         /\ Here(th) = call[th].path[Len(call[th].path)]
         /\ Here(th) \in Node /\ Up(Here(th))
<1>1. /\ GoodCall(call[th]) /\ call[th] \in Call /\ CallOK(th, call[th])
      /\ Here(th) \in Node
  BY HereType DEF Inductive, CallsOK, JoinInv, CallsPlaced
<1>2. call[th].path \in Seq(Node) /\ Len(call[th].path) > 0
  BY <1>1 DEF GoodCall, Call
<1> QED
  BY <1>1, <1>2 DEF CallOK, Here

LEMMA HopLostJoin ==
  ASSUME Inductive, JoinInv, NEW th \in Thread
  PROVE  ~HopLost(th)
BY AtLookup DEF HopLost

(* It is answered with a node that is up, goes on to one, or stays where   *)
(* it is.                                                                  *)
LEMMA AnswerOK ==
  ASSUME NEW th, NEW c \in Call, CallOK(th, c), c.at = "succ", NEW r, r # Nil, Up(r),
         ~Joined(J) => /\ th = <<J, "main">> => r = After
                       /\ th = <<J, "periodic">> => r = J
  PROVE  CallOK(th, [c EXCEPT !.at = "return", !.res = r])
<1> DEFINE d == [c EXCEPT !.at = "return", !.res = r]
<1>1. d.at = "return" /\ d.key = c.key /\ d.path = c.path /\ d.res = r
  BY DEF Call
<1> HIDE DEF d
<1>2. CallOK(th, d)
  BY <1>1 DEF CallOK
<1> QED
  BY <1>2 DEF d

LEMMA FindSuccessorJoin ==
  ASSUME OneNewcomer, Inductive, Inductive', JoinInv, NEW th \in Thread, FindSuccessor(th)
  PROVE  JoinStep
<1> DEFINE a == Here(th)
           key == call[th].key
           s == succ(a)
           f == withSuccessor(node[a].finger, a)
           q == [node[a] EXCEPT !.finger = f]
           ans(r) == [call[th] EXCEPT !.at = "return", !.res = r]
           scan == [call[th] EXCEPT !.at = "scan", !.i = M - 1]
<1>1. call[th].at = "succ" /\ UNCHANGED note
  BY DEF FindSuccessor
<1>2. /\ GoodCall(call[th]) /\ call[th] \in Call /\ CallOK(th, call[th])
      /\ call[th].path \in Seq(Node) /\ Len(call[th].path) > 0
      /\ a = call[th].path[Len(call[th].path)]
      /\ a \in Node /\ Up(a)
  BY <1>1, AtLookup
<1>3. /\ a \in Founders \/ a = J
      /\ s \in Node /\ Up(s) /\ s # Nil /\ LiveTable(f) /\ f \in Table
      /\ a \in Founders \/ Joined(a) => f = node[a].finger
      /\ node[a] \in Process /\ a # Nil
  BY <1>2, AtUp, Places DEF Inductive, NodesOK, Placed
<1>4. \/ UNCHANGED node /\ call' = [call EXCEPT ![th] = ans(a)] /\ a = key
      \/ /\ node' = [node EXCEPT ![a] = q] /\ a # key
         /\ \/ InHalfOpen(key, a, s) /\ call' = [call EXCEPT ![th] = ans(s)]
            \/ ~InHalfOpen(key, a, s) /\ call' = [call EXCEPT ![th] = scan]
  BY <1>2 DEF FindSuccessor, Inductive, CallsOK, NodesOK
<1>5. Quiet(a, q)
  <2>1. /\ q.status = "up" /\ q.pred = node[a].pred /\ q.x = node[a].x /\ q.k = node[a].k
        /\ q.finger = f /\ q.mpc = node[a].mpc /\ q.ppc = node[a].ppc
    BY <1>2, <1>3 DEF Process, Up
  <2>2. a = J /\ ~Joined(a) => \A k \in Index : f[k] \in {Nil, J}
    BY <1>2, AtLonely
  <2> HIDE DEF q, f, a
  <2> QED
    BY <1>2, <1>3, <2>1, <2>2, ChoreTurn
<1>6. ASSUME ~Joined(J), th = <<J, "main">>
      PROVE  a # key /\ (InHalfOpen(key, a, s) => s = After)
  <2>1. key = J /\ Len(call[th].path) > 1 /\ call[th].path[1] = J
    BY <1>1, <1>2, <1>6 DEF CallOK
  <2>2. call[th].path[1] # a
    BY <1>2, <2>1 DEF GoodCall
  <2>3. a \in Founders /\ a # J
    BY <1>3, <2>1, <2>2
  <2>4. s = Old(a) /\ Old(a) # J
    BY <1>6, <2>3, AtFounder, Places DEF FounderOK, Placed, JoinInv, Links, Linked
  <2>5. InHalfOpen(J, a, Old(a)) => a = Before
    BY <2>3, <2>4, Places DEF Placed, InHalfOpen
  <2> QED
    BY <2>1, <2>3, <2>4, <2>5, Places DEF Placed
<1>7. ASSUME ~Joined(J), th = <<J, "periodic">>
      PROVE  a = J /\ s = J /\ InHalfOpen(key, a, s)
  <2>1. Len(call[th].path) = 1 /\ call[th].path[1] = J
    BY <1>1, <1>2, <1>7 DEF CallOK
  <2>2. a = J
    BY <1>2, <2>1
  <2>3. s = J
    BY <1>2, <1>7, <2>2, AtLonely
  <2> QED
    BY <2>2, <2>3 DEF InHalfOpen, InInterval
<1>8. CASE UNCHANGED node /\ call' = [call EXCEPT ![th] = ans(a)] /\ a = key
  <2>1. CallOK(th, ans(a))
    BY <1>1, <1>2, <1>3, <1>6, <1>7, <1>8, AnswerOK
  <2>2. ans(a) \in Call
    BY <1>2 DEF Call, Maybe
  <2> HIDE DEF ans
  <2> QED
    BY <1>1, <1>8, <2>1, <2>2, CallTurn
<1>9. CASE InHalfOpen(key, a, s) /\ call' = [call EXCEPT ![th] = ans(s)]
           /\ node' = [node EXCEPT ![a] = q]
  <2>1. CallOK(th, ans(s))
    BY <1>1, <1>2, <1>3, <1>6, <1>7, <1>9, AnswerOK
  <2>2. ans(s) \in Call
    BY <1>2, <1>3 DEF Call, Maybe
  <2> HIDE DEF ans, q
  <2> QED
    BY <1>1, <1>2, <1>5, <1>9, <2>1, <2>2, QuietCall
<1>10. CASE ~InHalfOpen(key, a, s) /\ call' = [call EXCEPT ![th] = scan]
            /\ node' = [node EXCEPT ![a] = q]
  <2>1. /\ scan \in Call /\ scan.at = "scan" /\ scan.key = key
        /\ scan.path = call[th].path
    <3>1. M - 1 \in Index
      BY MAssumption DEF Index
    <3> QED
      BY <1>2, <3>1 DEF Call
  <2> HIDE DEF scan, q
  <2>2. CallOK(th, scan)
    BY <1>1, <1>2, <1>7, <1>10, <2>1 DEF CallOK
  <2> QED
    BY <1>1, <1>2, <1>5, <1>10, <2>1, <2>2, QuietCall
<1> QED
  BY <1>4, <1>8, <1>9, <1>10

(* A finger that is set is up.                                             *)
LEMMA LiveFinger ==
  ASSUME NEW f \in Table, LiveTable(f), NEW k \in Index, getNode(f, k) # Nil
  PROVE  getNode(f, k) \in Node /\ Up(getNode(f, k))
<1>1. Filled(f, k) \in SUBSET Index /\ Filled(f, k) # {}
  BY DEF Filled, getNode
<1>2. Min(Filled(f, k)) \in Index
  BY <1>1, MinIndex
<1>3. getNode(f, k) = f[Min(Filled(f, k))]
  BY <1>1 DEF getNode
<1> QED
  BY <1>2, <1>3 DEF LiveTable, Table, Maybe

LEMMA ScanJoin ==
  ASSUME OneNewcomer, Inductive, Inductive', JoinInv, NEW th \in Thread, Scan(th)
  PROVE  JoinStep
<1> DEFINE a == Here(th)
           i == call[th].i
           f == getNode(node[a].finger, i)
           on == [call[th] EXCEPT !.at = "succ", !.path = Append(@, f), !.i = 0]
           next == [call[th] EXCEPT !.i = i - 1]
           again == [call[th] EXCEPT !.at = "succ"]
<1>1. call[th].at = "scan" /\ UNCHANGED <<node, note>>
  BY DEF Scan
<1>2. /\ call[th] \in Call /\ CallOK(th, call[th])
      /\ call[th].path \in Seq(Node) /\ Len(call[th].path) > 0
      /\ a \in Node /\ Up(a) /\ call \in [Thread -> Call]
  BY <1>1, AtLookup DEF Inductive, CallsOK
<1>3. i \in Index /\ 0 \in Index /\ (i > 0 => i - 1 \in Index)
  BY <1>2, MAssumption DEF Call, Index
<1>4. f # Nil => f \in Node /\ Up(f)
  BY <1>2, <1>3, ProcessType, LiveFinger DEF Inductive, JoinInv, TablesLive
<1>5. \/ f # Nil /\ call' = [call EXCEPT ![th] = on]
      \/ i > 0 /\ call' = [call EXCEPT ![th] = next]
      \/ call' = [call EXCEPT ![th] = again]
  <2>1. \/ f # Nil /\ Forward(th, f)
        \/ i > 0 /\ call' = [call EXCEPT ![th].i = i - 1]
        \/ call' = [call EXCEPT ![th].at = "succ"]
    BY DEF Scan, precedes
  <2>2. f # Nil /\ Forward(th, f) => call' = [call EXCEPT ![th] = on]
    BY <1>2, <1>4, Answers DEF Forward
  <2> QED
    BY <1>2, <2>1, <2>2
<1>6. ~(th = <<J, "periodic">> /\ ~Joined(J))
  BY <1>1, <1>2 DEF CallOK
<1>7. CASE f # Nil /\ call' = [call EXCEPT ![th] = on]
  <2> DEFINE p == Append(call[th].path, f)
  <2>1. /\ p \in Seq(Node) /\ Len(p) = Len(call[th].path) + 1 /\ p[1] = call[th].path[1]
        /\ \A j \in 1 .. Len(p) : p[j] = f \/ (\E k \in 1 .. Len(call[th].path) :
                                                  p[j] = call[th].path[k])
    BY <1>2, <1>4, <1>7
  <2> HIDE DEF p
  <2>2. \A j \in 1 .. Len(p) : Up(p[j])
    BY <1>1, <1>2, <1>4, <1>7, <2>1 DEF CallOK
  <2>3. on \in Call /\ on.at = "succ" /\ on.key = call[th].key /\ on.path = p
    BY <1>2, <1>3, <2>1 DEF Call, p
  <2> HIDE DEF on
  <2>4. Len(call[th].path) > 1 => Len(p) > 1
    BY <1>2, <2>1
  <2>5. CallOK(th, on)
    BY <1>1, <1>2, <1>6, <2>1, <2>2, <2>3, <2>4 DEF CallOK
  <2> QED
    BY <1>1, <1>7, <2>3, <2>5, CallTurn
<1>8. CASE i > 0 /\ call' = [call EXCEPT ![th] = next]
  <2>1. /\ next \in Call /\ next.at = "scan" /\ next.key = call[th].key
        /\ next.path = call[th].path
    <3> HIDE DEF i
    <3> QED
      BY <1>1, <1>2, <1>3, <1>8 DEF Call
  <2> HIDE DEF next
  <2>2. CallOK(th, next)
    BY <1>1, <1>2, <1>6, <2>1 DEF CallOK
  <2> QED
    BY <1>1, <1>8, <2>1, <2>2, CallTurn
<1>9. CASE call' = [call EXCEPT ![th] = again]
  <2>1. /\ again \in Call /\ again.at = "succ" /\ again.key = call[th].key
        /\ again.path = call[th].path
    BY <1>2 DEF Call
  <2> HIDE DEF again
  <2>2. CallOK(th, again)
    BY <1>1, <1>2, <1>6, <2>1 DEF CallOK
  <2> QED
    BY <1>1, <1>9, <2>1, <2>2, CallTurn
<1> QED
  BY <1>5, <1>7, <1>8, <1>9

LEMMA ReplyJoin ==
  ASSUME OneNewcomer, Inductive, Inductive', JoinInv, NEW th \in Thread, Reply(th)
  PROVE  JoinStep
<1> DEFINE p == call[th].path
           b == SubSeq(p, 1, Len(p) - 1)
           back == [call[th] EXCEPT !.path = b]
<1>1. call[th].at = "return" /\ Len(p) > 1
  BY DEF Reply
<1>2. /\ call[th] \in Call /\ CallOK(th, call[th]) /\ p \in Seq(Node)
      /\ Here(th) \in Node /\ Up(Here(th))
  BY <1>1, AtLookup
<1>3. call[th].res # Nil /\ Up(call[th].res) /\ \A k \in 1 .. Len(p) : Up(p[k])
  BY <1>1, <1>2 DEF CallOK
<1>4. Up(p[1])
  BY <1>1, <1>2, <1>3
<1>5. /\ b \in Seq(Node) /\ Len(b) = Len(p) - 1
      /\ \A k \in 1 .. Len(b) : b[k] = p[k] /\ k \in 1 .. Len(p)
  BY <1>1, <1>2
<1>6. call' = [call EXCEPT ![th] = back] /\ UNCHANGED <<node, note>>
  <2>1. [call[th] EXCEPT !.path = b, !.res = IF Up(Here(th)) THEN @ ELSE Nil] = back
    <3> HIDE DEF b
    <3> QED
      BY <1>2 DEF Call
  <2> QED
    BY <1>2, <1>3, <1>4, <2>1 DEF Reply
<1> HIDE DEF b
<1>7. /\ back \in Call /\ back.at = "return" /\ back.key = call[th].key
      /\ back.path = b /\ back.res = call[th].res
  BY <1>1, <1>2, <1>5 DEF Call
<1> HIDE DEF back
<1>8. ~(th = <<J, "periodic">> /\ ~Joined(J))
  BY <1>1, <1>2 DEF CallOK
<1>9. \A k \in 1 .. Len(b) : Up(b[k])
  BY <1>3, <1>5
<1>10. CallOK(th, back)
  BY <1>1, <1>2, <1>3, <1>7, <1>8, <1>9 DEF CallOK
<1> QED
  BY <1>6, <1>7, <1>10, CallTurn

-----------------------------------------------------------------------------
(* The actions: notify.                                                    *)

(* The handler moves on, or is done without an assignment.                 *)
LEMMA NoteMoves ==
  ASSUME OneNewcomer, Inductive, JoinInv, UNCHANGED <<node, call>>,
         NEW m \in Node, note[m].at # "idle",
         NEW t, note' = [note EXCEPT ![m] = t], NoteOK(m, t),
         t.at = "idle" /\ m = Before /\ Linked => node[J].pred # Nil
  PROVE  JoinStep
<1>1. \A n \in Node : note'[n] = IF n = m THEN t ELSE note[n]
  BY DEF Inductive, NotesOK
<1>2. NodesPlaced' /\ TablesLive' /\ CallsPlaced'
  BY DEF JoinInv, NodesPlaced, TablesLive, LiveTable, CallsPlaced, CallOK, Up, Joined
<1>3. /\ Linked' <=> Linked
      /\ Known' <=> Known
      /\ Joined(J)' <=> Joined(J)
  BY DEF Linked, Known, Joined
<1>4. Links'
  <2>1. Before \in Node
    BY Places DEF Placed
  <2> QED
    BY <1>1, <1>3, <2>1 DEF JoinInv, Links
<1>5. NotesPlaced'
  <2>1. \A n \in Node : NoteOK(n, note[n])'
    BY <1>1, <1>3 DEF JoinInv, NotesPlaced, NoteOK
  <2>2. \A n \in Node : node'[n].ppc \in Early => note'[n].at = "idle"
    BY <1>1 DEF JoinInv, NotesPlaced
  <2> QED
    BY <2>1, <2>2 DEF NotesPlaced
<1> QED
  BY <1>2, <1>3, <1>4, <1>5 DEF JoinStep, JoinInv

(* Whom a notify under way comes from and goes to.                         *)
LEMMA AtNote ==
  ASSUME OneNewcomer, Inductive, JoinInv, NEW m \in Node, note[m].at # "idle"
  PROVE  \/ /\ m \in Founders /\ note[m].to = Old(m) /\ Old(m) \in Founders /\ Old(m) # J
            /\ note[m].at # "set" /\ node[m].finger[0] = Old(m)
            /\ m = Before => ~Linked
         \/ /\ m = Before /\ m \in Founders /\ note[m].to = J /\ Linked /\ Joined(J)
            /\ note[m].at = "between" => node[J].pred # Nil
         \/ m = J /\ note[m].to = After /\ Joined(J)
         \/ /\ m = J /\ note[m].to = J /\ ~Known /\ node[J].pred = Nil
            /\ note[m].at # "between"
<1>1. NoteOK(m, note[m])
  BY DEF JoinInv, NotesPlaced
<1>2. CASE /\ m \in Founders /\ note[m].to = node[m].finger[0]
           /\ note[m].to # J => note[m].at # "set"
           /\ note[m].to = J /\ note[m].at = "between" => node[J].pred # Nil
  <2>1. Old(m) \in Founders /\ Old(m) # J
    BY <1>2, Places DEF Placed
  <2>2. node[m].finger[0] = Old(m) \/ (m = Before /\ node[m].finger[0] = J)
    BY <1>2, AtFounder DEF FounderOK
  <2> QED
    BY <1>2, <2>1, <2>2 DEF Linked, JoinInv, Links
<1> QED
  BY <1>1, <1>2 DEF NoteOK

LEMMA NotifyNullJoin ==
  ASSUME OneNewcomer, Inductive, JoinInv, NEW m \in Node, NotifyNull(m)
  PROVE  JoinStep
<1> DEFINE u == note[m].to
           at == IF node[u].pred = Nil THEN "set" ELSE "between"
           t == [note[m] EXCEPT !.at = at]
<1>1. note[m].at = "null" /\ UNCHANGED <<node, call>> /\ note' = [note EXCEPT ![m] = t]
  BY DEF NotifyNull, Inductive, NotesOK
<1>2. t.at = at /\ t.to = u
  BY DEF Inductive, NotesOK, Note
<1> HIDE DEF t
<1>3. NoteOK(m, t)
  <2>1. CASE /\ m \in Founders /\ u = Old(m) /\ Old(m) \in Founders /\ Old(m) # J
             /\ node[m].finger[0] = Old(m)
    <3>1. node[u].pred # Nil
      BY <2>1, AtFounder, Places DEF FounderOK, Placed
    <3> QED
      BY <1>2, <2>1, <3>1 DEF NoteOK
  <2>2. CASE m = Before /\ m \in Founders /\ u = J /\ Linked /\ Joined(J)
    BY <1>2, <2>2 DEF NoteOK, Linked
  <2>3. CASE m = J /\ u = After /\ Joined(J)
    BY <1>2, <2>3 DEF NoteOK
  <2>4. CASE m = J /\ u = J /\ ~Known /\ node[J].pred = Nil
    BY <1>2, <2>4 DEF NoteOK
  <2> QED
    BY <1>1, <2>1, <2>2, <2>3, <2>4, AtNote
<1> QED
  BY <1>1, <1>2, <1>3, NoteMoves

LEMMA NotifyBetweenJoin ==
  ASSUME OneNewcomer, Inductive, JoinInv, NEW m \in Node, NotifyBetween(m)
  PROVE  JoinStep
<1> DEFINE u == note[m].to
           p == node[u].pred
           t == IF InInterval(m, p, u) THEN [note[m] EXCEPT !.at = "set"] ELSE NoNote
<1>1. note[m].at = "between"
  BY DEF NotifyBetween
<1>2. /\ InInterval(m, p, u) => t.at = "set" /\ t.to = u
      /\ ~InInterval(m, p, u) => t.at = "idle"
  BY DEF Inductive, NotesOK, Note, NoNote
<1>3. ASSUME p # Nil, NoteOK(m, t), t.at = "idle" /\ m = Before /\ Linked => node[J].pred # Nil
      PROVE  JoinStep
  <2>1. UNCHANGED <<node, call>> /\ note' = [note EXCEPT ![m] = t]
    BY <1>3 DEF NotifyBetween, Inductive, NotesOK
  <2>2. note[m].at # "idle"
    BY <1>1
  <2> HIDE DEF t
  <2> QED
    BY <1>3, <2>1, <2>2, NoteMoves
<1> HIDE DEF t
<1>4. CASE /\ m \in Founders /\ u = Old(m) /\ Old(m) \in Founders
           /\ m = Before => ~Linked
  <2>1. FounderOK(u, node[u]) /\ p # Nil /\ m # Old(m) /\ Node \in SUBSET Nat
    BY <1>4, AtFounder, Places DEF FounderOK, Placed
  <2>2. p = m \/ (u = After /\ p = J /\ m = Before)
    BY <1>4, <2>1, Places DEF FounderOK, Placed
  <2>3. ~InInterval(m, m, u)
    BY <1>4, <2>1, NotBetween, Places DEF Placed
  <2>4. ~InInterval(m, p, u)
    BY <2>2, <2>3, Places DEF Placed
  <2> QED
    BY <1>2, <1>3, <1>4, <2>1, <2>4 DEF NoteOK
<1>5. CASE /\ m = Before /\ m \in Founders /\ u = J /\ Linked /\ Joined(J)
           /\ node[J].pred # Nil
  BY <1>2, <1>3, <1>5 DEF NoteOK, Linked
<1>6. CASE m = J /\ u = After /\ Joined(J)
  <2>1. p # Nil /\ m # Before
    BY <1>6, AfterKnows, Places DEF Placed
  <2> QED
    BY <1>2, <1>3, <1>6, <2>1 DEF NoteOK
<1> QED
  BY <1>1, <1>4, <1>5, <1>6, AtNote

LEMMA NotifySetJoin ==
  ASSUME OneNewcomer, Inductive, Inductive', JoinInv, NEW m \in Node, NotifySet(m)
  PROVE  JoinStep
<1> DEFINE u == note[m].to
           q == [node[u] EXCEPT !.pred = m]
<1>1. /\ note[m].at = "set" /\ UNCHANGED call /\ note' = [note EXCEPT ![m] = NoNote]
      /\ node' = [node EXCEPT ![u].pred = m]
  BY DEF NotifySet
<1>2. /\ J \in Node /\ J \notin Founders /\ Founders \subseteq Node /\ Before # J /\ After # J
      /\ Before \in Node /\ After \in Node /\ Nil \notin Node
      /\ Before \in Founders /\ After \in Founders
  BY Places DEF Placed
<1>3. \/ m = Before /\ u = J /\ Linked /\ Joined(J)
      \/ m = J /\ u = After /\ Joined(J)
      \/ m = J /\ u = J /\ ~Known /\ node[J].pred = Nil
  BY <1>1, AtNote
<1>4. u \in Node /\ Up(u)
  BY <1>1, <1>2, <1>3, AtJoining, AtFounder, AtNewcomer DEF JoinInv, NotesPlaced, Early
<1>5. \A n \in Node : node'[n] = IF n = u THEN q ELSE node[n]
  BY <1>1, <1>4 DEF Inductive, NodesOK
<1>6. /\ q.status = node[u].status /\ q.finger = node[u].finger /\ q.pred = m
      /\ q.mpc = node[u].mpc /\ q.ppc = node[u].ppc /\ q.x = node[u].x /\ q.k = node[u].k
  BY <1>4 DEF Inductive, NodesOK, Process
<1> HIDE DEF q
<1>7. \A n \in Node : /\ node'[n].status = node[n].status
                      /\ node'[n].finger = node[n].finger
                      /\ node'[n].mpc = node[n].mpc
                      /\ node'[n].ppc = node[n].ppc
                      /\ node'[n].x = node[n].x
                      /\ n # u => node'[n].pred = node[n].pred
                      /\ n = u => node'[n].pred = m
  BY <1>5, <1>6
<1>8. /\ \A n \in Node : note'[n] = IF n = m THEN NoNote ELSE note[n]
      /\ NoNote.at = "idle"
  BY <1>1 DEF Inductive, NotesOK, NoNote
<1>9. (\A n \in Node : Up(n)' <=> Up(n)) /\ (Joined(J)' <=> Joined(J)) /\ (Linked' <=> Linked)
  BY <1>2, <1>7 DEF Up, Joined, Linked
<1>10. TablesLive'
  <2>1. \A n \in Node : LiveTable(node'[n].finger)
    BY <1>7 DEF JoinInv, TablesLive
  <2> QED
    BY <1>9, <2>1, TablesStay
<1>11. CallsPlaced'
  BY <1>1, <1>9, CallsStay
<1>12. \A n \in Node : node'[n].ppc \in Early => note'[n].at = "idle"
  BY <1>7, <1>8 DEF JoinInv, NotesPlaced
<1>13. \A n \in Founders : node[n].finger[0] = J => n = Before /\ Linked
  BY Places, AtFounder DEF FounderOK, Placed, Linked
<1>14. ASSUME NodesPlaced', Links', \A n \in Node : NoteOK(n, note[n])'
       PROVE  JoinStep
  BY <1>9, <1>10, <1>11, <1>12, <1>14 DEF JoinStep, JoinInv, NotesPlaced
<1>15. CASE m = Before /\ u = J /\ Linked /\ Joined(J)
  <2>1. Joining(node[J]) /\ Up(J)
    BY <1>15, AtJoining
  <2>2. NewcomerOK(q)
    BY <1>2, <1>6, <1>15, <2>1, AtNewcomer DEF NewcomerOK, Joining, Up, Off
  <2>3. NodesPlaced'
    BY <1>2, <1>5, <1>15, <2>2 DEF JoinInv, NodesPlaced
  <2>4. Known /\ (Known' <=> Known)
    BY <1>2, <1>7, <1>15 DEF Known, JoinInv, Links
  <2>5. Links'
    BY <1>2, <1>7, <1>9, <1>15, <2>4 DEF JoinInv, Links
  <2>6. \A n \in Node : NoteOK(n, note[n])'
    BY <1>2, <1>7, <1>8, <1>9, <1>15, <2>4 DEF JoinInv, NotesPlaced, NoteOK
  <2> QED
    BY <1>14, <2>3, <2>5, <2>6
<1>16. CASE m = J /\ u = After /\ Joined(J)
  <2>1. FounderOK(After, q)
    BY <1>2, <1>6, <1>16, AtFounder DEF FounderOK
  <2>2. NodesPlaced'
    BY <1>2, <1>5, <1>16, <2>1 DEF JoinInv, NodesPlaced
  <2>3. Known'
    BY <1>2, <1>7, <1>16 DEF Known
  <2>4. Links'
    BY <1>2, <1>7, <1>8, <1>9, <1>16, <2>3 DEF JoinInv, Links
  <2>5. \A n \in Node : NoteOK(n, note[n])'
    BY <1>2, <1>7, <1>8, <1>9, <1>16 DEF JoinInv, NotesPlaced, NoteOK
  <2> QED
    BY <1>14, <2>2, <2>4, <2>5
<1>17. CASE m = J /\ u = J /\ ~Known /\ node[J].pred = Nil
  <2>1. node[J].ppc \notin Early /\ Up(J)
    BY <1>1, <1>2, <1>4, <1>17 DEF JoinInv, NotesPlaced
  <2>2. NewcomerOK(q)
    <3>1. NewcomerOK(node[J]) /\ node[J] # Off
      BY <2>1, AtNewcomer DEF Off, Up
    <3> QED
      BY <1>2, <1>6, <1>17, <2>1, <3>1 DEF NewcomerOK, Lonely, Joining, Early
  <2>3. NodesPlaced'
    BY <1>2, <1>5, <1>17, <2>2 DEF JoinInv, NodesPlaced
  <2>4. ~Known' /\ ~Linked
    BY <1>2, <1>7, <1>17 DEF Known, JoinInv, Links
  <2>5. Links'
    BY <1>2, <1>7, <1>9, <1>17, <2>4 DEF JoinInv, Links
  <2>6. \A n \in Node : NoteOK(n, note[n])'
    BY <1>2, <1>7, <1>8, <1>9, <1>17 DEF JoinInv, NotesPlaced, NoteOK
  <2> QED
    BY <1>14, <2>3, <2>5, <2>6
<1> QED
  BY <1>3, <1>15, <1>16, <1>17

-----------------------------------------------------------------------------
(* The invariant holds.                                                    *)

LEMMA StepJoin ==
  ASSUME OneNewcomer, Inductive, Inductive', JoinInv, Next
  PROVE  JoinStep
<1>1. ASSUME NEW n \in Node,
             StartNode(n) \/ Fail(n) \/ Send(n) \/ Main(n)
      PROVE  JoinStep
  BY <1>1, StartNodeJoin, FailJoin, SendJoin, JoinBeginJoin, JoinEndJoin, SendEndJoin DEF Main
<1>2. ASSUME NEW n \in Node, Periodic(n)
      PROVE  JoinStep
  BY <1>2, CheckPredecessorJoin, ClearPredecessorJoin, StabilizePingJoin, StabilizeGetJoin,
     StabilizeTestJoin, StabilizeSetJoin, StabilizeNotifyJoin, FixFingersJoin,
     FixFingersSetJoin DEF Periodic
<1>3. ASSUME NEW n \in Node, Notify(n)
      PROVE  JoinStep
  BY <1>3, NotifyNullJoin, NotifyBetweenJoin, NotifySetJoin DEF Notify
<1>4. ASSUME NEW th \in Thread, Lookup(th)
      PROVE  JoinStep
  BY <1>4, FindSuccessorJoin, ScanJoin, HopLostJoin, ReplyJoin DEF Lookup
<1> QED
  BY <1>1, <1>2, <1>3, <1>4 DEF Next

LEMMA StutterJoin ==
  ASSUME JoinInv, UNCHANGED vars
  PROVE  JoinStep
<1>1. NodesPlaced' /\ TablesLive' /\ Links' /\ NotesPlaced'
  BY DEF vars, JoinInv, NodesPlaced, TablesLive, LiveTable, Links, NotesPlaced, NoteOK,
         Up, Joined, Linked, Known
<1>2. CallsPlaced'
  BY DEF vars, JoinInv, CallsPlaced, CallOK, Up, Joined
<1> QED
  BY <1>1, <1>2 DEF JoinStep, JoinInv, vars, Linked, Joined

LEMMA InitJoin ==
  ASSUME OneNewcomer, Init
  PROVE  JoinInv
<1>1. PICK fixed \in [Founders -> SUBSET (1 .. M - 2)], before \in [Founders -> Founders] :
        /\ \A n \in Founders : before[Following(Founders, n)] = n
        /\ node = [n \in Node |-> IF n \in Founders THEN Settle(n, before[n], fixed[n])
                                                   ELSE Off]
  BY DEF Init
<1>2. /\ J \in Node /\ J \notin Founders /\ Founders \subseteq Node /\ Founders \in SUBSET Nat
      /\ Before \in Founders /\ After \in Founders /\ Founders # {} /\ Nil \notin Node
      /\ \A n \in Founders : Old(n) \in Founders
  BY Places DEF Placed
<1>3. /\ call = [th \in Thread |-> NoCall] /\ NoCall.at = "idle"
      /\ note = [n \in Node |-> NoNote] /\ NoNote.at = "idle"
  BY DEF Init, NoCall, NoNote
<1>4. node[J] = Off /\ Off.status = "off" /\ Off.mpc = "none" /\ Off.finger = EmptyTable
  BY <1>1, <1>2 DEF Off
<1>5. ASSUME NEW n \in Founders
      PROVE  /\ node[n].status = "up" /\ node[n].mpc = "run" /\ node[n].ppc = "sleep"
             /\ node[n].finger[0] = Old(n) /\ node[n].pred = before[n]
             /\ \A k \in Index : node[n].finger[k] \in Founders \union {Nil}
  <2>1. node[n] = Settle(n, before[n], fixed[n])
    BY <1>1, <1>2
  <2>2. 0 \in Index
    BY MAssumption DEF Index
  <2>3. ASSUME NEW k \in Index
        PROVE  Closest(Founders, Start[n][k]) \in Founders
    <3>1. n \in Node /\ Start \in [Node -> [Index -> Id]] /\ Id \subseteq Nat
      BY <1>2, RingAssumption
    <3>2. Start[n][k] \in Nat
      BY <3>1
    <3> QED
      BY <1>2, <3>2, ClosestExists
  <2>4. /\ node[n].status = "up" /\ node[n].mpc = "run" /\ node[n].ppc = "sleep"
        /\ node[n].pred = before[n]
        /\ node[n].finger = [k \in Index |->
                               IF k = 0 THEN Old(n)
                               ELSE IF k \in fixed[n] THEN Closest(Founders, Start[n][k])
                               ELSE Nil]
    BY <2>1 DEF Settle, Off, Old
  <2> QED
    BY <1>2, <2>2, <2>3, <2>4
<1>6. ASSUME NEW n \in Founders
      PROVE  before[n] \in Founders /\ Old(before[n]) = n
  <2>1. PICK top \in Id : \A id \in Id : id =< top
    BY IdAssumption
  <2>2. top \in Nat /\ \A s \in Founders : s =< top
    BY <1>2, <2>1, RingAssumption
  <2>3. PICK p \in Founders : Following(Founders, p) = n
    BY <1>2, <2>2, FollowingSurjective
  <2>4. before[n] = p
    BY <1>1, <2>3
  <2> QED
    BY <2>3, <2>4 DEF Old
<1>7. NodesPlaced
  BY <1>2, <1>4, <1>5, <1>6 DEF NodesPlaced, FounderOK, NewcomerOK
<1>8. TablesLive
  <2>1. \A n \in Founders : LiveTable(node[n].finger)
    BY <1>5 DEF LiveTable, Up
  <2>2. LiveTable(node[J].finger)
    BY <1>4 DEF LiveTable, EmptyTable
  <2> QED
    BY <2>1, <2>2, Places DEF TablesLive, Placed
<1>9. CallsPlaced
  BY <1>3 DEF CallsPlaced, CallOK
<1>10. Links
  <2>1. ~Linked /\ ~Known
    BY <1>2, <1>5, <1>6 DEF Linked, Known
  <2> QED
    BY <1>2, <1>5, <2>1 DEF Links
<1>11. NotesPlaced
  BY <1>3 DEF NotesPlaced, NoteOK
<1> QED
  BY <1>7, <1>8, <1>9, <1>10, <1>11 DEF JoinInv

(* The invariant holds throughout.                                         *)
THEOREM AlwaysJoin ==
  ASSUME OneNewcomer
  PROVE  Spec => [](Inductive /\ JoinInv)
<1>1. Inductive /\ JoinInv /\ [Next]_vars => (Inductive /\ JoinInv)'
  BY StepInductive, StepJoin, StutterJoin DEF JoinStep
<1>2. Init => Inductive /\ JoinInv
  BY InitInductive, InitJoin
<1> QED
  BY <1>1, <1>2, PTL DEF Spec

(* A single node that joins an established ring of any size makes no       *)
(* process crash, whatever its users send meanwhile: whoever is asked for  *)
(* its predecessor has one, and every lookup finds a node.                 *)
THEOREM JoinCrashesNobody ==
  ASSUME OneNewcomer
  PROVE  Spec => []NobodyCrashes
<1>1. Inductive /\ JoinInv => NobodyCrashes
  <2> SUFFICES ASSUME Inductive, JoinInv, NEW n \in Node
               PROVE  node[n].status \notin Segv
    BY DEF NobodyCrashes, Crashed
  <2>1. n \in Founders \/ n = J
    BY Places DEF Placed
  <2>2. node[n].status \in {"up", "off"}
    BY <2>1, AtFounder, AtNewcomer DEF NewcomerOK, Up, Off
  <2> QED
    BY <2>2 DEF Segv
<1> QED
  BY <1>1, AlwaysJoin, PTL

-----------------------------------------------------------------------------
(* The shape of the ring.                                                  *)

(* The successors.                                                         *)
SuccessorsPlaced ==
  /\ \A n \in Founders : succ(n) = IF n = Before /\ Linked THEN J ELSE Old(n)
  /\ Joined(J) => succ(J) = After

LEMMA AtSuccessors ==
  ASSUME OneNewcomer, Inductive, JoinInv
  PROVE  SuccessorsPlaced
<1>1. ASSUME NEW n \in Founders
      PROVE  succ(n) = IF n = Before /\ Linked THEN J ELSE Old(n)
  BY AtFounder DEF FounderOK, Linked
<1> QED
  BY <1>1, AtJoining DEF SuccessorsPlaced

(* While one node joins, stabilize replaces a successor only by a closer   *)
(* node.                                                                   *)
THEOREM JoinImproves ==
  ASSUME OneNewcomer
  PROVE  Spec => SuccessorImproves
<1> DEFINE Better == \A n \in Members :
                       succ(n)' # succ(n) => InInterval(succ(n)', n, succ(n))
<1>1. Inductive /\ JoinInv => SuccessorsPlaced
  BY AtSuccessors
<1>2. Inductive /\ JoinInv /\ [Next]_vars => JoinStep
  BY StepInductive, StepJoin, StutterJoin
<1>3. SuccessorsPlaced /\ SuccessorsPlaced' /\ JoinStep => Better
  <2> SUFFICES ASSUME SuccessorsPlaced, SuccessorsPlaced', JoinStep,
                      NEW n \in Members, succ(n)' # succ(n)
               PROVE  InInterval(succ(n)', n, succ(n))
    OBVIOUS
  <2>1. /\ Old(Before) = After /\ InInterval(J, Before, After)
        /\ n \in Founders \/ n = J
    BY Places DEF Placed, Members
  <2>2. CASE n \in Founders
    BY <2>1, <2>2 DEF SuccessorsPlaced, JoinStep
  <2>3. CASE n = J
    BY <2>3 DEF SuccessorsPlaced, JoinStep, Members
  <2> QED
    BY <2>1, <2>2, <2>3
<1> QED
  BY <1>1, <1>2, <1>3, AlwaysJoin, PTL DEF Spec, SuccessorImproves

(* A set of nodes of a ring that has with every node the next one is the   *)
(* whole ring.                                                             *)
LEMMA ClosedWhole ==
  ASSUME NEW R \in SUBSET Nat, NEW top \in Nat, \A r \in R : r =< top,
         NEW S \in SUBSET R, S # {}, \A n \in S : Following(R, n) \in S
  PROVE  S = R
<1> SUFFICES ASSUME NEW m \in R, m \notin S
             PROVE  FALSE
  OBVIOUS
<1> DEFINE T == S \union {m}
<1>1. T \in SUBSET Nat /\ m \in T /\ T # {m} /\ T \subseteq R
  OBVIOUS
<1> HIDE DEF T
<1>2. PICK p \in T : Following(T, p) = m
  BY <1>1, FollowingSurjective
<1>3. p \in S /\ p # m
  BY <1>1, <1>2, FollowingIs DEF T
<1> DEFINE f == Following(R, p)
<1>4. f \in S /\ (f = p <=> R = {p}) /\ \A q \in R \ {p, f} : ~InInterval(q, p, f)
  BY <1>3, FollowingIs
<1> HIDE DEF f
<1>5. f \in T \ {p} /\ \A q \in T \ {p, f} : ~InInterval(q, p, f)
  BY <1>1, <1>3, <1>4 DEF T
<1>6. Following(T, p) = f
  BY <1>1, <1>5, FollowingUnique
<1> QED
  BY <1>2, <1>4, <1>6

(* The successor pointers have no cycle but one, which is ordered: that of *)
(* the founders until Before knows the newcomer, then that of all nodes.   *)
LEMMA TheCycle ==
  ASSUME OneNewcomer, Inductive, JoinInv
  PROVE  \E R \in SUBSET Nat : /\ R # {}
                               /\ \A S \in Closed : R \subseteq S
                               /\ Cycles \subseteq {R}
                               /\ \A n \in R : succ(n) = Following(R, n)
<1>1. /\ Node \in SUBSET Nat /\ Node = Founders \union {J} /\ J \notin Founders
      /\ Founders \in SUBSET Nat /\ Before \in Founders /\ After \in Founders
      /\ Following(Node, Before) = J
      /\ \A n \in Founders : Old(n) \in Founders /\ (n # Before => Following(Node, n) = Old(n))
  BY Places DEF Placed
<1>2. PICK top \in Nat : \A s \in Node : s =< top
  BY IdAssumption, RingAssumption
<1>3. SuccessorsPlaced
  BY AtSuccessors
<1>4. Founders \subseteq Members /\ (J \in Members => Joined(J)) /\ Members \subseteq Node
  BY AtFounder DEF Members
<1>5. CASE Linked
  <2>1. Joined(J)
    BY <1>5 DEF JoinInv, Links
  <2>2. \A n \in Node : succ(n) = Following(Node, n)
    BY <1>1, <1>3, <1>5, <2>1 DEF SuccessorsPlaced, After
  <2>3. ASSUME NEW S \in Closed
        PROVE  S = Node
    <3>1. S \in SUBSET Node /\ S # {} /\ \A n \in S : Following(Node, n) \in S
      BY <1>4, <2>2, <2>3 DEF Closed
    <3> QED
      BY <1>1, <1>2, <3>1, ClosedWhole
  <2>4. Node # {} /\ Cycles \subseteq {Node}
    BY <1>1, <2>3 DEF Cycles
  <2>5. \A S \in Closed : Node \subseteq S
    BY <2>3
  <2> QED
    BY <1>1, <2>2, <2>4, <2>5
<1>6. CASE ~Linked
  <2>1. \A n \in Founders : succ(n) = Following(Founders, n) /\ succ(n) \in Founders
    BY <1>1, <1>3, <1>6 DEF SuccessorsPlaced, Old
  <2>2. ASSUME NEW S \in SUBSET Founders, S # {}, \A n \in S : succ(n) \in S
        PROVE  S = Founders
    <3>1. \A n \in S : Following(Founders, n) \in S
      BY <2>1, <2>2
    <3>2. \A s \in Founders : s =< top
      BY <1>1, <1>2
    <3> QED
      BY <1>1, <2>2, <3>1, <3>2, ClosedWhole
  <2>3. Founders \in Closed
    BY <1>1, <1>4, <2>1 DEF Closed
  <2>4. ASSUME NEW S \in Closed
        PROVE  Founders \subseteq S
    <3>1. S \subseteq Members /\ S # {} /\ \A n \in S : succ(n) \in S
      BY DEF Closed
    <3>2. S \ {J} \in SUBSET Founders
      BY <1>1, <1>4, <3>1
    <3>3. S \ {J} # {}
      <4>1. J \in S => After \in S
        BY <1>3, <1>4, <3>1 DEF SuccessorsPlaced
      <4> QED
        BY <1>1, <3>1, <4>1
    <3>4. \A n \in S \ {J} : succ(n) \in S \ {J}
      BY <1>1, <2>1, <3>1, <3>2
    <3>5. S \ {J} = Founders
      BY <2>2, <3>2, <3>3, <3>4
    <3> QED
      BY <3>5
  <2>5. ASSUME NEW S \in Cycles
        PROVE  S = Founders
    BY <2>3, <2>4 DEF Cycles
  <2> QED
    BY <1>1, <2>1, <2>4, <2>5
<1> QED
  BY <1>5, <1>6

(* While one node joins a ring of any size, there are never two groups of  *)
(* members whose successor pointers do not meet.                           *)
THEOREM JoinKeepsOneRing ==
  ASSUME OneNewcomer
  PROVE  Spec => []OneRing
<1>1. Inductive /\ JoinInv => OneRing
  BY TheCycle DEF OneRing
<1> QED
  BY <1>1, AlwaysJoin, PTL

(* That cycle always visits its nodes in the order of their identifiers.   *)
THEOREM JoinKeepsOrder ==
  ASSUME OneNewcomer
  PROVE  Spec => []OrderedRing
<1>1. Inductive /\ JoinInv => OrderedRing
  <2> SUFFICES ASSUME Inductive, JoinInv, NEW S \in Cycles, NEW m \in S, NEW n \in S,
                      succ(m) =< m, succ(n) =< n
               PROVE  m = n
    BY DEF OrderedRing
  <2>1. ASSUME NEW p \in S, succ(p) =< p
        PROVE  \A q \in S : q =< p
    <3>1. S \in SUBSET Nat /\ succ(p) = Following(S, p)
      BY TheCycle
    <3>2. /\ succ(p) \in S
          /\ succ(p) = p <=> S = {p}
          /\ \A q \in S \ {p, succ(p)} : ~InInterval(q, p, succ(p))
      BY <3>1, FollowingIs
    <3> SUFFICES ASSUME NEW q \in S
                 PROVE  q =< p
      OBVIOUS
    <3>3. p \in Nat /\ q \in Nat /\ succ(p) \in Nat
      BY <3>1, <3>2
    <3>4. CASE q \in {p, succ(p)}
      BY <2>1, <3>3, <3>4
    <3>5. CASE q \notin {p, succ(p)} /\ succ(p) # p
      <4>1. ~InInterval(q, p, succ(p)) /\ succ(p) < p
        BY <2>1, <3>2, <3>3, <3>5
      <4> QED
        BY <3>3, <4>1 DEF InInterval
    <3> QED
      BY <3>2, <3>4, <3>5
  <2>2. m \in Nat /\ n \in Nat
    BY TheCycle
  <2> QED
    BY <2>1, <2>2
<1> QED
  BY <1>1, AlwaysJoin, PTL
=============================================================================
