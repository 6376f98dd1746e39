----------------------------- MODULE LinkProofs -----------------------------
(***************************************************************************)
(* Theorems about a network that has stabilized, of any size, and what is  *)
(* left of it after any number of kills and crashes: which links last,     *)
(* which crashes are possible, and which lookups come back with null.      *)
(***************************************************************************)
EXTENDS RestProofs

-----------------------------------------------------------------------------
(* The inductive invariant, relative to RestInv.                           *)

(* A process that is up: as long as the node after it is up it is the      *)
(* first finger, and the answer stabilize got from it is the process       *)
(* itself; as long as the node before it is up it is the predecessor and   *)
(* is not about to be cleared.                                             *)
LinkNode(n, p) ==
  /\ p.ppc = "find" => p.k \in 1 .. M - 2
  /\ Up(F(n)) => /\ p.finger[0] = F(n)
                 /\ p.ppc \in {"test", "set"} => p.x = n
                 /\ p.ppc = "set" => F(n) = n
  /\ \A b \in Node : F(b) = n /\ Up(b) => p.pred = b /\ p.ppc # "clear"

(* A process that has crashed.                                             *)
LinkCorpse(n, p) ==
  /\ p.status \in {"segvPredecessor", "segvNotify"} => \A b \in Node : F(b) = n => ~Up(b)
  /\ p.status = "segvTable" => ~Up(F(n))

(* A notify that has passed the test of its receiver is from the node      *)
(* before it, if that is up.                                               *)
LinkNote(m, d) ==
  d.at = "set" => \A b \in Node : F(b) = d.to /\ Up(b) => b = m

Links ==
  /\ \A n \in Node : Up(n) => LinkNode(n, node[n])
  /\ \A n \in Node : LinkCorpse(n, node[n])
  /\ \A m \in Node : LinkNote(m, note[m])

(* A lookup that has come back to a node with null has met a dead one on   *)
(* the way.                                                                *)
NullOK(c) ==
  c.at = "return" /\ c.res = Nil /\ Up(c.path[Len(c.path)]) =>
    \E m \in Node : ~Up(m) /\ InInterval(m, c.path[Len(c.path)], c.key)

Nulls == \A th \in Thread : NullOK(call[th])

LinkInv == Links /\ Nulls

-----------------------------------------------------------------------------
(* Kinds of steps.                                                         *)

(* Nobody is started.                                                      *)
Shrinks == \A m \in Node : Up(m)' => Up(m)

LEMMA LinkStep ==
  ASSUME Links, Shrinks,
         \A m \in Node : \/ node'[m] = node[m]
                         \/ Up(m)' /\ LinkNode(m, node'[m])
                         \/ ~Up(m)' /\ LinkCorpse(m, node'[m]),
         \A m \in Node : note'[m] = note[m] \/ LinkNote(m, note'[m])
  PROVE  Links'
<1>1. \A m \in Node : F(m) \in Node
  BY Ahead
<1>2. ASSUME NEW n \in Node, Up(n)'
      PROVE  LinkNode(n, node[n])'
  <2>1. Up(n)
    BY <1>2 DEF Shrinks
  <2>2. LinkNode(n, node'[n])
    BY <1>2, <2>1 DEF Links
  <2> QED
    BY <1>1, <2>2 DEF LinkNode, Shrinks, F
<1>3. ASSUME NEW n \in Node
      PROVE  LinkCorpse(n, node[n])'
  <2>1. CASE Up(n)'
    BY <2>1 DEF LinkCorpse, Up
  <2>2. CASE ~Up(n)'
    <3>1. LinkCorpse(n, node'[n])
      <4>1. CASE node'[n] = node[n]
        BY <4>1 DEF Links
      <4>2. CASE node'[n] # node[n]
        BY <2>2, <4>2
      <4> QED
        BY <4>1, <4>2
    <3> QED
      BY <1>1, <3>1 DEF LinkCorpse, Shrinks, F
  <2> QED
    BY <2>1, <2>2
<1>4. ASSUME NEW m \in Node
      PROVE  LinkNote(m, note[m])'
  <2>1. LinkNote(m, note'[m])
    BY DEF Links
  <2> QED
    BY <2>1 DEF LinkNote, Shrinks, F
<1> QED
  BY <1>2, <1>3, <1>4 DEF Links

(* A step of process n that goes on, to q.                                 *)
LEMMA LinkTurn ==
  ASSUME Inductive, Links, NEW n \in Node, NEW q, node' = [node EXCEPT ![n] = q],
         Up(n), q.status = "up", LinkNode(n, q),
         \A m \in Node : note'[m] = note[m] \/ LinkNote(m, note'[m])
  PROVE  Links' /\ Shrinks
<1>1. \A m \in Node : node'[m] = IF m = n THEN q ELSE node[m]
  BY DEF Inductive, NodesOK
<1>2. Shrinks
  BY <1>1 DEF Shrinks, Up
<1>3. \A m \in Node : \/ node'[m] = node[m]
                      \/ Up(m)' /\ LinkNode(m, node'[m])
  BY <1>1 DEF Up
<1> QED
  BY <1>2, <1>3, LinkStep

(* Process t ends.                                                         *)
LEMMA LinkDeath ==
  ASSUME Inductive, Links, NEW t \in Node, NEW why \in {"killed"} \union Segv,
         node' = [node EXCEPT ![t] = Corpse(why)],
         LinkCorpse(t, Corpse(why)), note' = NotesWithout(t)
  PROVE  Links' /\ Shrinks /\ ~Up(t)'
<1>1. \A m \in Node : node'[m] = IF m = t THEN Corpse(why) ELSE node[m]
  BY DEF Inductive, NodesOK
<1>2. Corpse(why).status = why /\ why # "up"
  BY DEF Corpse, Off, Segv
<1>3. Shrinks /\ ~Up(t)'
  BY <1>1, <1>2 DEF Shrinks, Up
<1>4. \A m \in Node : \/ node'[m] = node[m]
                      \/ ~Up(m)' /\ LinkCorpse(m, node'[m])
  BY <1>1, <1>3
<1>5. \A m \in Node : note'[m] = note[m] \/ LinkNote(m, note'[m])
  BY DEF NotesWithout, NoNote, LinkNote
<1> QED
  BY <1>3, <1>4, <1>5, LinkStep

LEMMA NullStep ==
  ASSUME Inductive, Nulls, Shrinks,
         \A th \in Thread : \/ call'[th] = call[th]
                            \/ call'[th].at # "return"
                            \/ NullOK(call[th])'
  PROVE  Nulls'
<1> SUFFICES ASSUME NEW th \in Thread
             PROVE  NullOK(call[th])'
  BY DEF Nulls
<1>1. CASE call'[th] = call[th]
  <2>1. NullOK(call[th])
    BY DEF Nulls
  <2>2. call[th].at = "return" => call[th].path[Len(call[th].path)] \in Node
    BY HereType DEF Here, Inductive
  <2> QED
    BY <1>1, <2>1, <2>2 DEF NullOK, Shrinks
<1>2. CASE call'[th].at # "return"
  BY <1>2 DEF NullOK
<1> QED
  BY <1>1, <1>2

(* Calls that a process leaves behind when it ends.                        *)
LEMMA NullWithout ==
  ASSUME Inductive, Nulls, Shrinks, NEW t, call' = CallsWithout(t)
  PROVE  Nulls'
<1>1. \A th \in Thread : call'[th] = call[th] \/ call'[th] = NoCall
  BY DEF CallsWithout
<1>2. NoCall.at = "idle"
  BY DEF NoCall
<1> QED
  BY <1>1, <1>2, NullStep

LEMMA NullSame ==
  ASSUME Inductive, Nulls, Shrinks, UNCHANGED call
  PROVE  Nulls'
BY NullStep

(* One call changes, to c.                                                 *)
LEMMA NullExcept ==
  ASSUME Inductive, Nulls, Shrinks, NEW th \in Thread, NEW c,
         call' = [call EXCEPT ![th] = c], c.at # "return" \/ c.res # Nil
  PROVE  Nulls'
<1>1. \A h \in Thread : call'[h] = IF h = th THEN c ELSE call[h]
  BY DEF Inductive, CallsOK
<1>2. \A h \in Thread : \/ call'[h] = call[h]
                        \/ call'[h].at # "return"
                        \/ NullOK(call[h])'
  BY <1>1 DEF NullOK
<1> QED
  BY <1>2, NullStep

(* What the invariant says at a node whose next one is up.                 *)
LEMMA LinkAt ==
  ASSUME Inductive, Links, NEW n \in Node, Up(n), Up(F(n))
  PROVE  /\ succ(n) = F(n)
         /\ withSuccessor(node[n].finger, n) = node[n].finger
         /\ Min(Filled(node[n].finger, 0)) = 0
         /\ node[F(n)].pred = n
<1>1. node[n].finger \in Table /\ F(n) \in Node /\ F(n) # Nil
  BY ProcessType, Ahead DEF Inductive
<1>2. node[n].finger[0] = F(n) /\ node[F(n)].pred = n
  BY <1>1 DEF Links, LinkNode
<1> QED
  BY <1>1, <1>2, FirstFinger DEF succ

LEMMA AheadInt ==
  ASSUME NEW n \in Node
  PROVE  n \in Int /\ F(n) \in Int
<1>1. Node \subseteq Int
  BY RingAssumption
<1>2. F(n) \in Node
  BY Ahead
<1> QED
  BY <1>1, <1>2

(* A turn of the maintenance thread that leaves the calls as they are.     *)
LEMMA LinkPeriodic ==
  ASSUME RestInv, LinkInv, NEW n \in Node, NEW q, node' = [node EXCEPT ![n] = q],
         node[n].ppc # "none", q.status = node[n].status, LinkNode(n, q),
         UNCHANGED call, \A m \in Node : note'[m] = note[m] \/ LinkNote(m, note'[m])
  PROVE  LinkInv'
<1>1. Up(n)
  BY DEF RestInv, Sane, SaneNodes
<1>2. Links' /\ Shrinks
  BY <1>1, LinkTurn DEF RestInv, LinkInv, Up
<1> QED
  BY <1>2, NullSame DEF RestInv, LinkInv

-----------------------------------------------------------------------------
(* The actions.                                                            *)

LEMMA FailLink ==
  ASSUME RestInv, LinkInv, NEW n \in Node, Fail(n)
  PROVE  LinkInv'
<1>1. /\ node' = [node EXCEPT ![n] = Corpse("killed")]
      /\ call' = CallsWithout(n) /\ note' = NotesWithout(n)
  BY DEF Fail
<1>2. LinkCorpse(n, Corpse("killed"))
  BY DEF LinkCorpse, Corpse, Off
<1>3. Links' /\ Shrinks
  BY <1>1, <1>2, LinkDeath DEF RestInv, LinkInv
<1> QED
  BY <1>1, <1>3, NullWithout DEF RestInv, LinkInv

LEMMA SendLink ==
  ASSUME RestInv, LinkInv, NEW n \in Node, Send(n)
  PROVE  LinkInv'
<1> DEFINE q == [node[n] EXCEPT !.mpc = "send"]
           th == <<n, "main">>
<1>1. PICK key \in Talk[n] :
        call' = [call EXCEPT ![th] =
                   [at |-> "succ", key |-> key, path |-> <<n>>, res |-> Nil, i |-> 0]]
  BY DEF Send
<1>2. /\ Up(n) /\ th \in Thread /\ node[n] \in Process /\ UNCHANGED note
      /\ node' = [node EXCEPT ![n] = q]
  BY DEF Send, RestInv, Sane, SaneNodes, Inductive, NodesOK, Thread, Role
<1>3. q.status = "up" /\ LinkNode(n, q)
  BY <1>2 DEF LinkInv, Links, LinkNode, Process, Up
<1> HIDE DEF q
<1>4. Links' /\ Shrinks
  BY <1>2, <1>3, LinkTurn DEF RestInv, LinkInv
<1>5. Nulls'
  BY <1>1, <1>2, <1>4, NullExcept DEF RestInv, LinkInv
<1> QED
  BY <1>4, <1>5 DEF LinkInv

LEMMA SendEndLink ==
  ASSUME RestInv, LinkInv, NEW n \in Node, SendEnd(n)
  PROVE  LinkInv'
<1> DEFINE q == [node[n] EXCEPT !.mpc = "run"]
           th == <<n, "main">>
<1>1. Up(n) /\ th \in Thread /\ node[n] \in Process /\ node \in [Node -> Process]
  BY DEF SendEnd, RestInv, Sane, SaneNodes, Inductive, NodesOK, Thread, Role
<1>2. CASE /\ node' = [node EXCEPT ![n] = Corpse("segvSend")]
           /\ call' = CallsWithout(n) /\ note' = NotesWithout(n)
  <2>1. LinkCorpse(n, Corpse("segvSend")) /\ "segvSend" \in Segv
    BY DEF LinkCorpse, Corpse, Off, Segv
  <2>2. Links' /\ Shrinks
    BY <1>2, <2>1, LinkDeath DEF RestInv, LinkInv
  <2> QED
    BY <1>2, <2>2, NullWithout DEF RestInv, LinkInv
<1>3. CASE /\ node' = [node EXCEPT ![n].mpc = "run"] /\ UNCHANGED note
           /\ call' = [call EXCEPT ![th] = NoCall]
  <2>1. node' = [node EXCEPT ![n] = q]
    BY <1>1, <1>3
  <2>2. q.status = "up" /\ LinkNode(n, q) /\ NoCall.at = "idle"
    BY <1>1 DEF LinkInv, Links, LinkNode, Process, Up, NoCall
  <2> HIDE DEF q, th
  <2>3. Links' /\ Shrinks
    BY <1>1, <1>3, <2>1, <2>2, LinkTurn DEF RestInv, LinkInv
  <2>4. Nulls'
    BY <1>1, <1>3, <2>2, <2>3, NullExcept DEF RestInv, LinkInv
  <2> QED
    BY <2>3, <2>4 DEF LinkInv
<1> QED
  BY <1>2, <1>3 DEF SendEnd

LEMMA CheckPredecessorLink ==
  ASSUME Established, RestInv, LinkInv, NEW n \in Node,
         CheckPredecessor(n) \/ ClearPredecessor(n)
  PROVE  LinkInv'
<1> DEFINE q(pc) == [node[n] EXCEPT !.ppc = pc]
<1>1. /\ node[n].ppc # "none" /\ Up(n) /\ UNCHANGED <<call, note>>
      /\ node[n] \in Process /\ node \in [Node -> Process] /\ LinkNode(n, node[n])
  BY DEF CheckPredecessor, ClearPredecessor, RestInv, Sane, SaneNodes, Inductive, NodesOK,
         LinkInv, Links
<1>2. CASE ClearPredecessor(n)
  <2> DEFINE r == [node[n] EXCEPT !.pred = Nil, !.ppc = "ping"]
  <2>1. node' = [node EXCEPT ![n] = r] /\ node[n].ppc = "clear"
    BY <1>1, <1>2 DEF ClearPredecessor
  <2>2. r.status = node[n].status /\ LinkNode(n, r)
    BY <1>1, <2>1 DEF LinkNode, Process
  <2> HIDE DEF r
  <2> QED
    BY <1>1, <2>1, <2>2, LinkPeriodic
<1>3. CASE CheckPredecessor(n)
  <2>1. PICK pc \in {"ping", "clear"} :
          /\ node' = [node EXCEPT ![n].ppc = pc]
          /\ pc = "clear" => ping(node[n].pred, FALSE)
    BY <1>3 DEF CheckPredecessor
  <2>2. pc = "clear" => ~Up(node[n].pred)
    BY <2>1, Reached0 DEF ping, RestInv
  <2>3. node' = [node EXCEPT ![n] = q(pc)]
    BY <1>1, <2>1
  <2>4. q(pc).status = node[n].status /\ LinkNode(n, q(pc))
    BY <1>1, <2>2 DEF LinkNode, Process
  <2> HIDE DEF q
  <2> QED
    BY <1>1, <2>3, <2>4, LinkPeriodic
<1> QED
  BY <1>2, <1>3

(* What Write may leave of process n.                                      *)
LEMMA WriteLinks ==
  ASSUME NEW n \in Node, NEW p \in Process, LinkNode(n, p), NEW g \in Table,
         NEW q \in Write(n, p, g),
         Up(F(n)) => g[0] = F(n) /\ ~Torn(n, g)
  PROVE  \/ q.status = p.status /\ LinkNode(n, q)
         \/ q = Corpse("segvTable") /\ ~Up(F(n))
<1>1. PICK h : \/ q = [p EXCEPT !.finger = h] /\ (Up(F(n)) => h = g)
               \/ q = Corpse("segvTable") /\ ~Up(F(n))
  BY DEF Write
<1> QED
  BY <1>1 DEF LinkNode, Process

LEMMA BecomesLinks ==
  ASSUME RestInv, LinkInv, NEW n \in Node, Up(n), NEW q,
         \/ q.status = "up" /\ LinkNode(n, q)
         \/ q = Corpse("segvTable") /\ ~Up(F(n)),
         NEW c, \A th \in Thread : c[th] = call[th] \/ c[th].at # "return",
         Becomes(n, q, c)
  PROVE  LinkInv'
<1>1. CASE q.status = "up"
  <2>1. node' = [node EXCEPT ![n] = q] /\ call' = c /\ UNCHANGED note
    BY <1>1 DEF Becomes
  <2>2. q # Corpse("segvTable")
    BY <1>1 DEF Corpse, Off
  <2>3. Links' /\ Shrinks
    BY <1>1, <2>1, <2>2, LinkTurn DEF RestInv, LinkInv
  <2> QED
    BY <2>1, <2>3, NullStep DEF RestInv, LinkInv
<1>2. CASE q.status # "up"
  <2>1. q = Corpse("segvTable") /\ ~Up(F(n))
    BY <1>2
  <2>2. /\ node' = [node EXCEPT ![n] = Corpse("segvTable")]
        /\ call' = CallsWithout(n) /\ note' = NotesWithout(n)
    BY <1>2, <2>1 DEF Becomes
  <2>3. LinkCorpse(n, Corpse("segvTable")) /\ "segvTable" \in Segv
    BY <2>1 DEF LinkCorpse, Corpse, Off, Segv
  <2>4. Links' /\ Shrinks
    BY <2>2, <2>3, LinkDeath DEF RestInv, LinkInv
  <2> QED
    BY <2>2, <2>4, NullWithout DEF RestInv, LinkInv
<1> QED
  BY <1>1, <1>2

LEMMA StabilizePingLink ==
  ASSUME Established, RestInv, LinkInv, NEW n \in Node, StabilizePing(n)
  PROVE  LinkInv'
<1> DEFINE s == succ(n)
           f == withSuccessor(node[n].finger, n)
           r == [node[n] EXCEPT !.finger = f, !.ppc = "get"]
<1>1. /\ node[n].ppc = "ping" /\ Up(n) /\ LinkNode(n, node[n])
      /\ node[n] \in Process /\ f \in Table /\ node \in [Node -> Process]
  BY ProcessType
     DEF StabilizePing, RestInv, Sane, SaneNodes, Inductive, NodesOK, LinkInv, Links
<1>2. Up(F(n)) => f = node[n].finger /\ Up(s)
  BY <1>1, LinkAt DEF RestInv, LinkInv
<1>3. \/ node' = [node EXCEPT ![n].finger = f, ![n].ppc = "get"] /\ UNCHANGED <<call, note>>
      \/ /\ ping(s, FALSE)
         /\ \E g \in removeNode(f, s) : \E q \in Write(n, node[n], g) : Becomes(n, q, call)
  BY DEF StabilizePing
<1> HIDE DEF f, s
<1>4. CASE node' = [node EXCEPT ![n].finger = f, ![n].ppc = "get"] /\ UNCHANGED <<call, note>>
  <2>1. node' = [node EXCEPT ![n] = r]
    BY <1>1, <1>4
  <2>2. r.status = node[n].status /\ LinkNode(n, r)
    BY <1>1, <1>2 DEF LinkNode, Process
  <2> HIDE DEF r
  <2> QED
    BY <1>1, <1>4, <2>1, <2>2, LinkPeriodic
<1>5. ASSUME ping(s, FALSE), NEW g \in removeNode(f, s), NEW q \in Write(n, node[n], g),
             Becomes(n, q, call)
      PROVE  LinkInv'
  <2>1. ~Up(s) /\ ~Up(F(n))
    BY <1>2, <1>5, Reached0 DEF ping, RestInv
  <2>2. g \in Table
    BY <1>1, <1>5, RemoveNodeType
  <2>3. \/ q.status = "up" /\ LinkNode(n, q)
        \/ q = Corpse("segvTable") /\ ~Up(F(n))
    BY <1>1, <1>5, <2>1, <2>2, WriteLinks DEF Up
  <2> QED
    BY <1>1, <1>5, <2>3, BecomesLinks
<1> QED
  BY <1>3, <1>4, <1>5

LEMMA StabilizeGetLink ==
  ASSUME Established, RestInv, LinkInv, NEW n \in Node, StabilizeGet(n)
  PROVE  LinkInv'
<1> DEFINE s == succ(n)
           f == withSuccessor(node[n].finger, n)
           r(x) == [node[n] EXCEPT !.finger = f, !.ppc = "test", !.x = x]
<1>1. /\ node[n].ppc = "get" /\ Up(n) /\ LinkNode(n, node[n])
      /\ node[n] \in Process /\ s \in Node /\ node \in [Node -> Process]
  BY ProcessType
     DEF StabilizeGet, RestInv, Sane, SaneNodes, Inductive, NodesOK, LinkInv, Links
<1>2. \A x : Got(n, x) = [node EXCEPT ![n] = r(x)]
  BY <1>1 DEF Got
<1>3. Up(F(n)) => f = node[n].finger /\ Up(s) /\ node[s].pred = n
  BY <1>1, LinkAt DEF RestInv, LinkInv
<1> HIDE DEF f, s
<1>4. ASSUME NEW x, Up(F(n)) => x = n
      PROVE  r(x).status = node[n].status /\ LinkNode(n, r(x))
  BY <1>1, <1>3, <1>4 DEF LinkNode, Process
<1>5. ASSUME NEW x, node' = Got(n, x), Up(F(n)) => x = n, UNCHANGED <<call, note>>
      PROVE  LinkInv'
  <2>1. node' = [node EXCEPT ![n] = r(x)]
    BY <1>2, <1>5
  <2>2. r(x).status = node[n].status /\ LinkNode(n, r(x))
    BY <1>4, <1>5
  <2> HIDE DEF r
  <2> QED
    BY <1>1, <1>5, <2>1, <2>2, LinkPeriodic
<1>6. CASE s = n /\ node' = Got(n, node[n].pred) /\ UNCHANGED <<call, note>>
  BY <1>3, <1>5, <1>6
<1>7. CASE Reach(s, FALSE) /\ node' = Got(n, Nil) /\ UNCHANGED <<call, note>>
  BY <1>1, <1>3, <1>5, <1>7, Reached0 DEF RestInv
<1>8. CASE Reach(s, TRUE) /\ node' = Got(n, node[s].pred) /\ UNCHANGED <<call, note>>
  BY <1>3, <1>5, <1>8
<1>9. CASE /\ s # n /\ Reach(s, TRUE) /\ node[s].pred = Nil
           /\ node' = [Got(n, Nil) EXCEPT ![s] = Corpse("segvPredecessor")]
           /\ call' = CallsWithout(s) /\ note' = NotesWithout(s)
  <2>1. Nil \notin Node
    BY RingAssumption
  <2>2. Up(s) /\ ~Up(F(n))
    BY <1>3, <1>9, <2>1 DEF Reach
  <2>3. r(Nil).status = "up" /\ LinkNode(n, r(Nil))
    BY <1>1, <1>4, <2>2 DEF Up
  <2>4. node' = [[node EXCEPT ![n] = r(Nil)] EXCEPT ![s] = Corpse("segvPredecessor")]
    BY <1>2, <1>9
  <2>5. Corpse("segvPredecessor").status = "segvPredecessor"
    BY DEF Corpse, Off
  <2>6. \A b \in Node : F(b) = s => ~Up(b)
    BY <1>1, <1>9, <2>1, <2>2 DEF LinkInv, Links, LinkNode
  <2>7. LinkCorpse(s, Corpse("segvPredecessor"))
    BY <2>5, <2>6 DEF LinkCorpse
  <2> HIDE DEF r
  <2>8. \A m \in Node : node'[m] = IF m = s THEN Corpse("segvPredecessor")
                                   ELSE IF m = n THEN r(Nil) ELSE node[m]
    BY <1>1, <1>9, <2>4
  <2>9. Shrinks
    BY <1>1, <2>3, <2>5, <2>8 DEF Shrinks, Up
  <2>10. \A m \in Node : \/ node'[m] = node[m]
                         \/ Up(m)' /\ LinkNode(m, node'[m])
                         \/ ~Up(m)' /\ LinkCorpse(m, node'[m])
    BY <2>3, <2>5, <2>7, <2>8 DEF Up
  <2>11. \A m \in Node : note'[m] = note[m] \/ LinkNote(m, note'[m])
    BY <1>9 DEF NotesWithout, NoNote, LinkNote
  <2>12. Links'
    BY <2>9, <2>10, <2>11, LinkStep DEF LinkInv
  <2>13. Nulls'
    BY <1>9, <2>9, NullWithout DEF RestInv, LinkInv
  <2> QED
    BY <2>12, <2>13 DEF LinkInv
<1> QED
  BY <1>6, <1>7, <1>8, <1>9 DEF StabilizeGet, RemoteGetPredecessor, s

LEMMA StabilizeTestLink ==
  ASSUME RestInv, LinkInv, NEW n \in Node, StabilizeTest(n)
  PROVE  LinkInv'
<1> DEFINE x == node[n].x
           f == withSuccessor(node[n].finger, n)
           there == [node[n] EXCEPT !.finger = f, !.ppc = "set"]
           kept == [node[n] EXCEPT !.finger = f, !.ppc = "notify", !.x = Nil]
<1>1. /\ node[n].ppc = "test" /\ Up(n) /\ UNCHANGED <<call, note>> /\ LinkNode(n, node[n])
      /\ node[n] \in Process /\ node \in [Node -> Process]
  BY DEF StabilizeTest, RestInv, Sane, SaneNodes, Inductive, NodesOK, LinkInv, Links
<1>2. Up(F(n)) => f = node[n].finger /\ succ(n) = F(n) /\ x = n
  BY <1>1, LinkAt DEF RestInv, LinkInv, LinkNode
<1>3. \/ InInterval(x, n, succ(n)) /\ node' = [node EXCEPT ![n] = there]
      \/ node' = [node EXCEPT ![n] = kept]
  BY <1>1 DEF StabilizeTest
<1> HIDE DEF f
<1>4. CASE InInterval(x, n, succ(n)) /\ node' = [node EXCEPT ![n] = there]
  <2>1. n \in Int /\ F(n) \in Int
    BY AheadInt
  <2>2. Up(F(n)) => F(n) = n
    BY <1>2, <1>4, <2>1 DEF InInterval
  <2>3. there.status = node[n].status /\ LinkNode(n, there)
    BY <1>1, <1>2, <2>2 DEF LinkNode, Process
  <2> HIDE DEF there
  <2> QED
    BY <1>1, <1>4, <2>3, LinkPeriodic
<1>5. CASE node' = [node EXCEPT ![n] = kept]
  <2>1. kept.status = node[n].status /\ LinkNode(n, kept)
    BY <1>1, <1>2 DEF LinkNode, Process
  <2> HIDE DEF kept
  <2> QED
    BY <1>1, <1>5, <2>1, LinkPeriodic
<1> QED
  BY <1>3, <1>4, <1>5

LEMMA StabilizeSetLink ==
  ASSUME RestInv, LinkInv, NEW n \in Node, StabilizeSet(n)
  PROVE  LinkInv'
<1> DEFINE g == setNode(node[n].finger, 0, node[n].x)
           q == [node[n] EXCEPT !.finger = g, !.ppc = "notify", !.x = Nil]
<1>1. /\ node[n].ppc = "set" /\ UNCHANGED <<call, note>> /\ LinkNode(n, node[n])
      /\ node[n] \in Process /\ node[n].finger \in Table /\ node \in [Node -> Process]
  BY ProcessType
     DEF StabilizeSet, RestInv, Sane, SaneNodes, Inductive, NodesOK, LinkInv, Links
<1>2. node' = [node EXCEPT ![n] = q]
  BY <1>1 DEF StabilizeSet
<1>3. g[0] = node[n].x
  BY <1>1, MAssumption DEF setNode, Table, Index
<1> HIDE DEF g
<1>4. q.status = node[n].status /\ LinkNode(n, q)
  BY <1>1, <1>3 DEF LinkNode, Process
<1> HIDE DEF q
<1> QED
  BY <1>1, <1>2, <1>4, LinkPeriodic

LEMMA StabilizeNotifyLink ==
  ASSUME RestInv, LinkInv, NEW n \in Node, StabilizeNotify(n)
  PROVE  LinkInv'
<1> DEFINE s == succ(n)
           f == withSuccessor(node[n].finger, n)
           q == [node[n] EXCEPT !.finger = f, !.ppc = "fix"]
           new == [at |-> "null", to |-> s]
<1>1. /\ node[n].ppc = "notify" /\ Up(n) /\ UNCHANGED call /\ LinkNode(n, node[n])
      /\ node[n] \in Process /\ node \in [Node -> Process] /\ note \in [Node -> Note]
  BY DEF StabilizeNotify, RestInv, Sane, SaneNodes, Inductive, NodesOK, NotesOK, LinkInv, Links
<1>2. node' = [node EXCEPT ![n] = q]
  BY <1>1 DEF StabilizeNotify
<1>3. Up(F(n)) => f = node[n].finger
  BY <1>1, LinkAt DEF RestInv, LinkInv
<1>4. note' = [note EXCEPT ![n] = new] \/ UNCHANGED note
  BY <1>1 DEF StabilizeNotify
<1>5. new.at = "null"
  OBVIOUS
<1> HIDE DEF f, new
<1>6. q.status = node[n].status /\ LinkNode(n, q)
  BY <1>1, <1>3 DEF LinkNode, Process
<1> HIDE DEF q
<1>7. \A m \in Node : note'[m] = note[m] \/ LinkNote(m, note'[m])
  BY <1>1, <1>4, <1>5 DEF LinkNote
<1> QED
  BY <1>1, <1>2, <1>6, <1>7, LinkPeriodic

LEMMA FixFingersLink ==
  ASSUME RestInv, LinkInv, NEW n \in Node, FixFingers(n)
  PROVE  LinkInv'
<1> DEFINE th == <<n, "periodic">>
<1>1. PICK k \in 1 .. M - 2 :
        /\ node' = [node EXCEPT ![n].ppc = "find", ![n].k = k]
        /\ call' = [call EXCEPT ![th] =
                      [at |-> "succ", key |-> Start[n][k], path |-> <<n>>, res |-> Nil, i |-> 0]]
  BY DEF FixFingers
<1> DEFINE q == [node[n] EXCEPT !.ppc = "find", !.k = k]
<1>2. /\ Up(n) /\ th \in Thread /\ node[n] \in Process /\ UNCHANGED note
      /\ node \in [Node -> Process] /\ LinkNode(n, node[n])
  BY DEF FixFingers, RestInv, Sane, SaneNodes, Inductive, NodesOK, Thread, Role, LinkInv, Links
<1>3. node' = [node EXCEPT ![n] = q]
  BY <1>1, <1>2
<1>4. q.status = "up" /\ LinkNode(n, q)
  BY <1>2 DEF LinkNode, Process, Up
<1> HIDE DEF q
<1>5. Links' /\ Shrinks
  BY <1>2, <1>3, <1>4, LinkTurn DEF RestInv, LinkInv
<1>6. Nulls'
  BY <1>1, <1>2, <1>5, NullExcept DEF RestInv, LinkInv
<1> QED
  BY <1>5, <1>6 DEF LinkInv

LEMMA FixFingersSetLink ==
  ASSUME RestInv, LinkInv, NEW n \in Node, FixFingersSet(n)
  PROVE  LinkInv'
<1> DEFINE th == <<n, "periodic">>
           g == setNode(node[n].finger, node[n].k, call[th].res)
           p == [node[n] EXCEPT !.ppc = "sleep", !.k = 0]
           c == [call EXCEPT ![th] = NoCall]
<1>1. /\ node[n].ppc = "find" /\ Up(n) /\ th \in Thread /\ call[th].at = "return"
      /\ node[n].finger \in Table /\ node[n] \in Process /\ LinkNode(n, node[n])
      /\ node[n].k \in Index
  BY ProcessType
     DEF FixFingersSet, RestInv, Sane, SaneNodes, Thread, Role, Inductive, NodesOK, LinkInv, Links
<1>2. PICK q \in Write(n, p, g) : Becomes(n, q, c)
  BY DEF FixFingersSet
<1>3. 0 \in Index /\ node[n].k # 0
  BY <1>1, MAssumption DEF Index, LinkNode
<1>4. p \in Process /\ p.status = "up" /\ LinkNode(n, p)
  BY <1>1, <1>3 DEF Process, PeriodicPc, Up, LinkNode
<1>5. g \in Table
  BY <1>1, ReturnedResult, SetNodeType DEF RestInv, Inductive
<1>6. g[0] = node[n].finger[0]
  BY <1>1, <1>3 DEF setNode, Table
<1> HIDE DEF g, p
<1>7. ASSUME Up(F(n))
      PROVE  g[0] = F(n) /\ ~Torn(n, g)
  <2>1. g[0] = F(n) /\ F(n) # Nil
    BY <1>1, <1>6, <1>7, Ahead DEF LinkNode
  <2>2. Min(Filled(node[n].finger, 0)) = 0
    BY <1>1, <1>7, LinkAt DEF RestInv, LinkInv
  <2> QED
    BY <2>1, <2>2 DEF Torn
<1>8. \/ q.status = "up" /\ LinkNode(n, q)
      \/ q = Corpse("segvTable") /\ ~Up(F(n))
  BY <1>2, <1>4, <1>5, <1>7, WriteLinks
<1>9. \A h \in Thread : c[h] = call[h] \/ c[h].at # "return"
  BY DEF RestInv, Inductive, CallsOK, NoCall
<1> HIDE DEF c
<1> QED
  BY <1>1, <1>2, <1>8, <1>9, BecomesLinks

-----------------------------------------------------------------------------
(* The lookups.                                                            *)

LEMMA FindSuccessorLink ==
  ASSUME RestInv, LinkInv, NEW th \in Thread, FindSuccessor(th)
  PROVE  LinkInv'
<1> DEFINE a == Here(th)
           f == withSuccessor(node[a].finger, a)
           q == [node[a] EXCEPT !.finger = f]
           found(r) == [call[th] EXCEPT !.at = "return", !.res = r]
           scan == [call[th] EXCEPT !.at = "scan", !.i = M - 1]
<1>1. call[th].at = "succ" /\ a \in Node /\ Up(a) /\ UNCHANGED note /\ call[th] \in Call
  BY HereType DEF FindSuccessor, RestInv, Inductive, CallsOK
<1>2. /\ node[a] \in Process /\ node \in [Node -> Process] /\ succ(a) \in Node
      /\ LinkNode(a, node[a])
  BY <1>1, ProcessType DEF RestInv, Inductive, NodesOK, LinkInv, Links
<1>3. Up(F(a)) => f = node[a].finger
  BY <1>1, LinkAt DEF RestInv, LinkInv
<1>4. UNCHANGED node \/ node' = [node EXCEPT ![a].finger = f]
  BY DEF FindSuccessor
<1>5. \/ call' = [call EXCEPT ![th] = found(a)]
      \/ call' = [call EXCEPT ![th] = found(succ(a))]
      \/ call' = [call EXCEPT ![th] = scan]
  BY <1>1 DEF FindSuccessor
<1>6. scan.at = "scan" /\ \A r : found(r).res = r
  BY <1>1 DEF Call
<1> HIDE DEF f, a, found, scan
<1>7. Links' /\ Shrinks
  <2>1. CASE UNCHANGED node
    <3>1. Shrinks
      BY <2>1 DEF Shrinks, Up
    <3> QED
      BY <1>1, <2>1, <3>1, LinkStep DEF LinkInv
  <2>2. CASE node' = [node EXCEPT ![a].finger = f]
    <3>1. node' = [node EXCEPT ![a] = q]
      BY <1>1, <1>2, <2>2
    <3>2. q.status = "up" /\ LinkNode(a, q)
      BY <1>1, <1>2, <1>3 DEF LinkNode, Process, Up
    <3> HIDE DEF q
    <3> QED
      BY <1>1, <3>1, <3>2, LinkTurn DEF RestInv, LinkInv
  <2> QED
    BY <1>4, <2>1, <2>2
<1>8. Nil \notin Node
  BY RingAssumption
<1>9. Nulls'
  BY <1>1, <1>2, <1>5, <1>6, <1>7, <1>8, NullExcept DEF RestInv, LinkInv
<1> QED
  BY <1>7, <1>9 DEF LinkInv

(* A step of lookup th that leaves the processes as they are.              *)
LEMMA LookupLink ==
  ASSUME RestInv, LinkInv, UNCHANGED <<node, note>>, NEW th \in Thread, NEW d,
         call' = [call EXCEPT ![th] = d], NullOK(d)
  PROVE  LinkInv'
<1>1. Shrinks /\ \A m \in Node : Up(m)' <=> Up(m)
  BY DEF Shrinks, Up
<1>2. Links'
  BY <1>1, LinkStep DEF LinkInv
<1>3. \A h \in Thread : call'[h] = IF h = th THEN d ELSE call[h]
  BY DEF RestInv, Inductive, CallsOK
<1>4. NullOK(call[th])'
  BY <1>3 DEF NullOK, Up
<1>5. \A h \in Thread : call'[h] = call[h] \/ NullOK(call[h])'
  BY <1>3, <1>4
<1>6. Nulls'
  BY <1>1, <1>5, NullStep DEF RestInv, LinkInv
<1> QED
  BY <1>2, <1>6 DEF LinkInv

LEMMA ScanLink ==
  ASSUME Established, RestInv, LinkInv, NEW th \in Thread, Scan(th)
  PROVE  LinkInv'
<1> DEFINE a == Here(th)
           f == getNode(node[a].finger, call[th].i)
           on == [call[th] EXCEPT !.at = "succ", !.path = Append(@, f), !.i = 0]
           lost == [call[th] EXCEPT !.at = "return", !.res = Nil, !.i = 0]
           next == IF call[th].i > 0 THEN [call[th] EXCEPT !.i = call[th].i - 1]
                                     ELSE [call[th] EXCEPT !.at = "succ"]
<1>1. /\ call[th].at = "scan" /\ a \in Node /\ call[th] \in Call /\ call[th].i \in Index
      /\ UNCHANGED <<node, note>>
  BY HereType DEF Scan, RestInv, Inductive, CallsOK, Call
<1>2. f \in Maybe(Node)
  BY <1>1, ProcessType, GetNodeType DEF RestInv, Inductive
<1>3. \/ call' = [call EXCEPT ![th] = on]
      \/ /\ f # Nil /\ InInterval(f, a, call[th].key) /\ Reach(f, FALSE)
         /\ call' = [call EXCEPT ![th] = lost]
      \/ call' = [call EXCEPT ![th] = next]
  BY <1>1 DEF Scan, Forward, precedes
<1>4. /\ on.at = "succ" /\ next.at \in {"succ", "scan"}
      /\ lost.key = call[th].key /\ lost.path = call[th].path
  BY <1>1 DEF Call
<1>5. lost.path[Len(lost.path)] = a
  BY <1>4 DEF Here
<1> HIDE DEF a, f, on, lost, next
<1>6. NullOK(on) /\ NullOK(next)
  BY <1>4 DEF NullOK
<1>7. CASE /\ f # Nil /\ InInterval(f, a, call[th].key) /\ Reach(f, FALSE)
           /\ call' = [call EXCEPT ![th] = lost]
  <2>1. f \in Node /\ ~Up(f)
    BY <1>2, <1>7, Reached0 DEF RestInv, Maybe
  <2>2. NullOK(lost)
    BY <1>4, <1>5, <1>7, <2>1 DEF NullOK
  <2> QED
    BY <1>1, <1>7, <2>2, LookupLink
<1> QED
  BY <1>1, <1>3, <1>6, <1>7, LookupLink

LEMMA HopLostLink ==
  ASSUME RestInv, LinkInv, NEW th \in Thread, HopLost(th)
  PROVE  LinkInv'
<1> DEFINE lost == [call[th] EXCEPT !.at = "return", !.res = Nil, !.i = 0]
<1>1. ~Up(Here(th)) /\ call[th] \in Call /\ UNCHANGED <<node, note>>
  BY DEF HopLost, RestInv, Inductive, CallsOK
<1>2. call' = [call EXCEPT ![th] = lost]
  BY <1>1 DEF HopLost
<1>3. lost.path = call[th].path
  BY <1>1 DEF Call
<1> HIDE DEF lost
<1>4. NullOK(lost)
  BY <1>1, <1>3 DEF NullOK, Here
<1> QED
  BY <1>1, <1>2, <1>4, LookupLink

(* The node whose reply is lost lies between the one that waits for it and *)
(* the key.                                                                *)
LEMMA BackToward ==
  ASSUME CallsOK, NEW th \in Thread, call[th].at = "return", Len(call[th].path) > 1,
         NEW d, d.path = SubSeq(call[th].path, 1, Len(call[th].path) - 1)
  PROVE  /\ d.path[Len(d.path)] \in Node
         /\ InInterval(Here(th), d.path[Len(d.path)], call[th].key)
<1> DEFINE p == call[th].path
           l == Len(p)
           e == SubSeq(p, 1, l - 1)
<1>1. p \in Seq(Node) /\ l \in Nat /\ l > 1 /\ Here(th) = p[l] /\ GoodCall(call[th])
  BY HereType DEF Here
<1>2. Len(e) = l - 1 /\ e[l - 1] = p[l - 1] /\ p[l - 1] \in Node
  BY <1>1
<1>3. InInterval(p[l], p[l - 1], call[th].key)
  <2>1. l - 1 \in 1 .. l /\ l \in 1 .. l /\ l - 1 < l
    BY <1>1
  <2> QED
    BY <1>1, <2>1 DEF GoodCall
<1> HIDE DEF l, p, e
<1> QED
  BY <1>1, <1>2, <1>3 DEF e, l, p

LEMMA ReplyLink ==
  ASSUME RestInv, LinkInv, NEW th \in Thread, Reply(th)
  PROVE  LinkInv'
<1>0. PICK a \in Node : a = Here(th)
  BY HereType DEF Reply, RestInv, Inductive
<1> DEFINE p == call[th].path
           shorter == [call[th] EXCEPT !.path = SubSeq(p, 1, Len(p) - 1),
                                       !.res = IF Up(a) THEN @ ELSE Nil]
           back == IF Len(p) = 2 /\ ~Up(p[1]) THEN NoCall ELSE shorter
<1>1. /\ call[th].at = "return" /\ Len(p) > 1
      /\ call[th] \in Call /\ call \in [Thread -> Call] /\ CallsOK
  BY DEF Reply, RestInv, Inductive, CallsOK
<1>2. /\ shorter.key = call[th].key
      /\ shorter.path = SubSeq(call[th].path, 1, Len(call[th].path) - 1)
      /\ shorter.res = IF Up(a) THEN call[th].res ELSE Nil
  BY <1>1 DEF Call
<1>3. back = NoCall \/ back = shorter
  OBVIOUS
<1>4. \/ /\ Up(a) /\ call[th].res = Nil
         /\ node' = [node EXCEPT ![a] = Corpse("segvSuccessor")]
         /\ call' = [CallsWithout(a) EXCEPT ![th] = back]
         /\ note' = NotesWithout(a)
      \/ /\ ~(Up(a) /\ call[th].res = Nil)
         /\ call' = [call EXCEPT ![th] = back]
         /\ UNCHANGED <<node, note>>
  BY <1>0 DEF Reply
<1> HIDE DEF p, shorter, back
<1>5. InInterval(a, shorter.path[Len(shorter.path)], shorter.key)
  BY <1>0, <1>1, <1>2, BackToward DEF p
<1>6. NoCall.at = "idle"
  BY DEF NoCall
<1>7. CASE /\ Up(a) /\ call[th].res = Nil
           /\ node' = [node EXCEPT ![a] = Corpse("segvSuccessor")]
           /\ call' = [CallsWithout(a) EXCEPT ![th] = back]
           /\ note' = NotesWithout(a)
  <2>1. LinkCorpse(a, Corpse("segvSuccessor")) /\ "segvSuccessor" \in Segv
    BY DEF LinkCorpse, Corpse, Off, Segv
  <2>2. Links' /\ Shrinks /\ ~Up(a)'
    BY <1>1, <1>7, <2>1, LinkDeath DEF RestInv, LinkInv
  <2>3. CallsWithout(a) \in [Thread -> {call[g] : g \in Thread} \union {NoCall}]
    BY DEF CallsWithout
  <2>4. /\ \A h \in Thread \ {th} : call'[h] = call[h] \/ call'[h] = NoCall
        /\ call'[th] = back
    <3>1. \A h \in Thread : CallsWithout(a)[h] = call[h] \/ CallsWithout(a)[h] = NoCall
      BY DEF CallsWithout
    <3> QED
      BY <1>7, <2>3, <3>1
  <2>5. call'[th].at # "return" \/ NullOK(call[th])'
    <3>1. CASE back = NoCall
      BY <1>6, <2>4, <3>1
    <3>2. CASE back = shorter
      <4>1. call'[th] = shorter
        BY <2>4, <3>2
      <4>2. \E m \in Node : /\ ~Up(m)'
                            /\ InInterval(m, shorter.path[Len(shorter.path)], shorter.key)
        BY <1>1, <1>5, <2>2
      <4> QED
        BY <4>1, <4>2 DEF NullOK
    <3> QED
      BY <1>3, <3>1, <3>2
  <2>6. Nulls'
    BY <1>6, <2>2, <2>4, <2>5, NullStep DEF RestInv, LinkInv
  <2> QED
    BY <2>2, <2>6 DEF LinkInv
<1>8. CASE /\ ~(Up(a) /\ call[th].res = Nil)
           /\ call' = [call EXCEPT ![th] = back]
           /\ UNCHANGED <<node, note>>
  <2>1. NullOK(back)
    <3>1. CASE back = NoCall
      BY <1>6, <3>1 DEF NullOK
    <3>2. CASE back = shorter
      <4>1. shorter.res = Nil => ~Up(a)
        BY <1>2, <1>8
      <4> QED
        BY <1>1, <1>5, <3>2, <4>1 DEF NullOK
    <3> QED
      BY <1>3, <3>1, <3>2
  <2> QED
    BY <1>8, <2>1, LookupLink
<1> QED
  BY <1>4, <1>7, <1>8

-----------------------------------------------------------------------------
(* notify at its receiver.                                                 *)

(* Who passes the interval test is the node before the receiver, when the  *)
(* predecessor is.                                                         *)
LEMMA BetweenBefore ==
  ASSUME NEW b \in Node, NEW m \in Node, InInterval(m, b, F(b))
  PROVE  m = b
<1>1. Node \in SUBSET Nat /\ b \in Int /\ m \in Int /\ F(b) \in Int
  BY Ahead, AheadInt
<1>2. m \in {b, F(b)} /\ (F(b) = b <=> Node = {b})
  BY <1>1, FollowingIs DEF F
<1>3. CASE m = F(b) /\ F(b) # b
  BY <1>1, <1>3 DEF InInterval
<1> QED
  BY <1>2, <1>3

LEMMA NotesLink ==
  ASSUME RestInv, LinkInv, UNCHANGED <<node, call>>, NEW m \in Node, NEW d,
         note' = [note EXCEPT ![m] = d], LinkNote(m, d)
  PROVE  LinkInv'
<1>1. \A n \in Node : note'[n] = IF n = m THEN d ELSE note[n]
  BY DEF RestInv, Inductive, NotesOK
<1>2. Shrinks
  BY DEF Shrinks, Up
<1>3. \A n \in Node : note'[n] = note[n] \/ LinkNote(n, note'[n])
  BY <1>1
<1>4. Links'
  BY <1>2, <1>3, LinkStep DEF LinkInv
<1> QED
  BY <1>2, <1>4, NullSame DEF RestInv, LinkInv

LEMMA NotifyLink ==
  ASSUME RestInv, LinkInv, NEW m \in Node, Notify(m)
  PROVE  LinkInv'
<1>1. note \in [Node -> Note] /\ note[m] \in Note /\ node \in [Node -> Process]
  BY DEF RestInv, Inductive, NotesOK, NodesOK
<1>2. PICK t \in Node : note[m].to = t /\ Up(t)
  BY DEF Notify, NotifyNull, NotifyBetween, NotifySet, RestInv, Sane, SaneNotes
<1>3. \A b \in Node : F(b) = t /\ Up(b) => node[t].pred = b /\ b # Nil
  BY <1>2, RingAssumption DEF LinkInv, Links, LinkNode
<1>4. LinkNote(m, NoNote)
  BY DEF NoNote, LinkNote
<1>5. CASE NotifyNull(m)
  <2>1. PICK pc \in {"set", "between"} : /\ note' = [note EXCEPT ![m].at = pc]
                                         /\ pc = "set" => node[t].pred = Nil
    BY <1>2, <1>5 DEF NotifyNull
  <2> DEFINE d == [note[m] EXCEPT !.at = pc]
  <2>2. /\ note' = [note EXCEPT ![m] = d] /\ d.to = t /\ d.at = pc
        /\ UNCHANGED <<node, call>>
    BY <1>1, <1>2, <1>5, <2>1 DEF Note, NotifyNull
  <2> HIDE DEF d
  <2>3. LinkNote(m, d)
    BY <1>3, <2>1, <2>2 DEF LinkNote
  <2> QED
    BY <2>2, <2>3, NotesLink
<1>6. CASE NotifyBetween(m)
  <2>1. CASE node[t].pred = Nil
    <3>1. /\ node' = [node EXCEPT ![t] = Corpse("segvNotify")]
          /\ call' = CallsWithout(t) /\ note' = NotesWithout(t)
      BY <1>2, <1>6, <2>1 DEF NotifyBetween
    <3>2. LinkCorpse(t, Corpse("segvNotify")) /\ "segvNotify" \in Segv
      BY <1>3, <2>1 DEF LinkCorpse, Corpse, Off, Segv
    <3>3. Links' /\ Shrinks
      BY <3>1, <3>2, LinkDeath DEF RestInv, LinkInv
    <3> QED
      BY <3>1, <3>3, NullWithout DEF RestInv, LinkInv
  <2>2. CASE node[t].pred # Nil
    <3> DEFINE d == [note[m] EXCEPT !.at = "set"]
    <3>1. /\ UNCHANGED <<node, call>>
          /\ \/ note' = [note EXCEPT ![m] = d] /\ InInterval(m, node[t].pred, t)
             \/ note' = [note EXCEPT ![m] = NoNote]
      BY <1>2, <1>6, <2>2 DEF NotifyBetween
    <3>2. d.to = t
      BY <1>1, <1>2 DEF Note
    <3> HIDE DEF d
    <3>3. InInterval(m, node[t].pred, t) => LinkNote(m, d)
      BY <1>3, <3>2, BetweenBefore DEF LinkNote
    <3> QED
      BY <1>4, <3>1, <3>3, NotesLink
  <2> QED
    BY <2>1, <2>2
<1>7. CASE NotifySet(m)
  <2> DEFINE q == [node[t] EXCEPT !.pred = m]
  <2>1. /\ node' = [node EXCEPT ![t] = q] /\ UNCHANGED call /\ note[m].at = "set"
        /\ note' = [note EXCEPT ![m] = NoNote]
    BY <1>1, <1>2, <1>7 DEF NotifySet
  <2>2. \A b \in Node : F(b) = t /\ Up(b) => b = m
    BY <1>2, <2>1 DEF LinkInv, Links, LinkNote
  <2>3. node[t] \in Process /\ LinkNode(t, node[t])
    BY <1>1, <1>2 DEF LinkInv, Links
  <2>4. q.status = "up" /\ LinkNode(t, q)
    BY <1>2, <2>2, <2>3 DEF LinkNode, Process, Up
  <2> HIDE DEF q
  <2>5. \A n \in Node : note'[n] = note[n] \/ LinkNote(n, note'[n])
    BY <1>1, <1>4, <2>1
  <2>6. Links' /\ Shrinks
    BY <1>2, <2>1, <2>4, <2>5, LinkTurn DEF RestInv, LinkInv
  <2> QED
    BY <2>1, <2>6, NullSame DEF RestInv, LinkInv
<1> QED
  BY <1>5, <1>6, <1>7 DEF Notify

-----------------------------------------------------------------------------
(* The theorems.                                                           *)

LEMMA StepLink ==
  ASSUME Established, RestInv, LinkInv, [Next]_vars
  PROVE  LinkInv'
<1>1. ASSUME NEW n \in Node, Main(n)
      PROVE  LinkInv'
  BY <1>1, JoinRest, SendEndLink DEF Main
<1>2. ASSUME NEW n \in Node, Periodic(n)
      PROVE  LinkInv'
  BY <1>2, CheckPredecessorLink, StabilizePingLink, StabilizeGetLink, StabilizeTestLink,
     StabilizeSetLink, StabilizeNotifyLink, FixFingersLink, FixFingersSetLink DEF Periodic
<1>3. ASSUME NEW th \in Thread, Lookup(th)
      PROVE  LinkInv'
  BY <1>3, FindSuccessorLink, ScanLink, HopLostLink, ReplyLink DEF Lookup
<1>4. CASE UNCHANGED vars
  <2>1. UNCHANGED <<node, call, note>>
    BY <1>4 DEF vars
  <2>2. Shrinks
    BY <2>1 DEF Shrinks, Up
  <2>3. Links'
    BY <2>1, <2>2, LinkStep DEF LinkInv
  <2> QED
    BY <2>1, <2>2, <2>3, NullSame DEF RestInv, LinkInv
<1> QED
  BY <1>1, <1>2, <1>3, <1>4, JoinRest, FailLink, SendLink, NotifyLink DEF Next

LEMMA InitLink ==
  ASSUME Established, Init
  PROVE  LinkInv
<1>1. RestInv /\ ~Damaged
  <2>1. RestInv
    BY InitRest
  <2>2. PICK fixed \in [Founders -> SUBSET (1 .. M - 2)], before \in [Founders -> Founders] :
          node = [n \in Node |-> IF n \in Founders THEN Settle(n, before[n], fixed[n]) ELSE Off]
    BY DEF Init
  <2>3. \A n \in Node : node[n] = Settle(n, before[n], fixed[n])
    BY <2>2 DEF Established
  <2>4. \A n \in Node : node[n].status = "up"
    BY <2>3 DEF Settle, Off
  <2> QED
    BY <2>1, <2>4 DEF Damaged
<1>2. \A n \in Node : RestNode(n, node[n])
  BY <1>1 DEF RestInv, Rest, RestNodes
<1>3. /\ call = [th \in Thread |-> NoCall] /\ NoCall.at = "idle"
      /\ note = [n \in Node |-> NoNote] /\ NoNote.at = "idle"
  BY DEF Init, NoCall, NoNote
<1>4. ASSUME NEW n \in Node
      PROVE  LinkNode(n, node[n]) /\ LinkCorpse(n, node[n])
  <2>1. \A b \in Node : F(b) = n => node[n].pred = b
    <3>1. node[n].pred \in Node /\ F(node[n].pred) = n
      BY <1>2 DEF RestNode
    <3> QED
      BY <3>1, Ahead
  <2> QED
    BY <1>2, <2>1 DEF RestNode, LinkNode, LinkCorpse
<1>5. Links
  BY <1>3, <1>4 DEF Links, LinkNote
<1>6. Nulls
  BY <1>3 DEF Nulls, NullOK
<1> QED
  BY <1>5, <1>6 DEF LinkInv

(* The invariant holds throughout, whoever is killed.                      *)
THEOREM AlwaysLinked ==
  ASSUME Established
  PROVE  Spec => [](RestInv /\ LinkInv)
<1>1. RestInv /\ LinkInv /\ [Next]_vars => LinkInv'
  BY StepLink
<1>2. Init => LinkInv
  BY InitLink
<1> QED
  BY <1>1, <1>2, AlwaysRest, PTL DEF Spec

(* In an established ring of any size, whatever start(k) computes, whoever *)
(* sends messages and whichever processes are killed or crash: two nodes   *)
(* next to each other that are both up have each other as successor and    *)
(* predecessor, in every interleaving of the maintenance threads and the   *)
(* handlers.                                                               *)
THEOREM NeighboursStayLinked ==
  ASSUME Established
  PROVE  Spec => []LinksLast
<1>1. RestInv /\ LinkInv => LinksLast
  BY LinkAt DEF LinksLast, RestInv, LinkInv, F
<1> QED
  BY <1>1, AlwaysLinked, PTL

(* No process of an established ring crashes before one was killed, and    *)
(* after that GET_PREDECESSOR and NOTIFY end a process only when the node  *)
(* before it is down, and a torn read of the table only when the node      *)
(* after it is.                                                            *)
THEOREM CrashesNeedFailure ==
  ASSUME Established
  PROVE  Spec => []CrashNeedsFailure
<1>1. RestInv => (Crashed => Damaged)
  <2> SUFFICES ASSUME RestInv, ~Damaged
               PROVE  ~Crashed
    OBVIOUS
  <2>1. \A n \in Node : node[n].status = "up"
    BY DEF RestInv, Rest, RestNodes, RestNode
  <2> QED
    BY <2>1 DEF Crashed, Segv
<1>2. RestInv /\ LinkInv => CrashNeedsFailure
  <2>1. \A n \in Node : F(n) \in Node
    BY Ahead
  <2> QED
    BY <1>1, <2>1 DEF CrashNeedsFailure, LinkInv, Links, LinkCorpse, F
<1> QED
  BY <1>2, AlwaysLinked, PTL

(* A lookup in an established ring of any size comes back to a node with   *)
(* null only if a node between it and the key is down, whatever the        *)
(* fingers held and however many hops it took.                             *)
THEOREM NullsNeedDead ==
  ASSUME Established
  PROVE  Spec => []NullNeedsDead
<1>1. LinkInv => NullNeedsDead
  BY DEF LinkInv, Nulls, NullOK, NullNeedsDead, Here
<1> QED
  BY <1>1, AlwaysLinked, PTL
=============================================================================
