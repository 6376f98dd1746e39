----------------------------- MODULE RestProofs -----------------------------
(***************************************************************************)
(* Theorems about a network that has stabilized, of any size: until a      *)
(* process is killed nothing disturbs the ring, and findSuccessor is the   *)
(* directory of module Directory.  What lasts after a kill is in module    *)
(* LinkProofs.                                                             *)
(***************************************************************************)
EXTENDS OrderProofs

(* All nodes have formed a ring to begin with, and remote calls do not     *)
(* fail on a live callee.                                                  *)
Established == Founders = Node /\ MaxGlitches = 0

F(n) == Following(Node, n)

-----------------------------------------------------------------------------
(* The inductive invariant.                                                *)

(* What holds whoever is killed: a process that is down has no thread, a   *)
(* thread that is not in a lookup has no call, and a notify is handled at  *)
(* a process that is up.                                                   *)
SaneNodes ==
  \A n \in Node :
    /\ node[n].status # "off"
    /\ Up(n) => node[n].mpc \in {"run", "send"}
    /\ ~Up(n) => node[n].ppc = "none" /\ node[n].mpc = "none"

SaneCalls ==
  /\ \A th \in Thread : call[th].at = "idle" => call[th] = NoCall
  /\ \A n \in Node : Up(n) =>
       /\ call[<<n, "main">>].at # "idle" => node[n].mpc = "send"
       /\ call[<<n, "periodic">>].at # "idle" => node[n].ppc = "find"

SaneNotes ==
  \A m \in Node : note[m].at # "idle" => note[m].to \in Node /\ Up(note[m].to)

Sane == SaneNodes /\ SaneCalls /\ SaneNotes

(* What holds until somebody is killed.  The first finger of a process is  *)
(* the node that follows it and its predecessor the one it follows, so     *)
(* that the answer stabilize gets is the process itself: it changes        *)
(* nothing.                                                                *)
RestNode(n, p) ==
  /\ p.status = "up" /\ p.ppc \notin {"none", "first", "clear"}
  /\ p.finger[0] = F(n)
  /\ p.pred \in Node /\ F(p.pred) = n
  /\ p.ppc \in {"test", "set"} => p.x = n
  /\ p.ppc = "set" => F(n) = n
  /\ p.ppc = "find" => p.k \in 1 .. M - 2

RestCall(c) == c.at = "return" => c.res = Closest(Node, c.key)

RestNodes == \A n \in Node : RestNode(n, node[n])

RestCalls == \A th \in Thread : RestCall(call[th])

RestNotes == \A m \in Node : note[m].at # "idle" => note[m].to = F(m)

Rest == RestNodes /\ RestCalls /\ RestNotes

RestInv == Inductive /\ Sane /\ (Damaged \/ Rest)

(* What every step has to do.                                              *)
Undisturbed ==
  /\ Sane'
  /\ Damaged => Damaged'
  /\ Rest => Rest' \/ Damaged'
  /\ [Lookups!Next]_(Lookups!vars)

LEMMA UndisturbedInv ==
  ASSUME RestInv, Inductive', Undisturbed
  PROVE  RestInv'
BY DEF RestInv, Undisturbed

-----------------------------------------------------------------------------
(* Steps of the directory.                                                 *)

LEMMA DirectoryStutters ==
  ASSUME UNCHANGED Damaged,
         \A th \in Thread : /\ call'[th].key = call[th].key
                            /\ call'[th].at = "return" <=> call[th].at = "return"
                            /\ call[th].at = "return" => call'[th].res = call[th].res
  PROVE  UNCHANGED Lookups!vars
<1>1. UNCHANGED Question
  BY DEF Question
<1>2. UNCHANGED Found
  BY DEF Found
<1> QED
  BY <1>1, <1>2 DEF Lookups!vars

LEMMA DirectoryAsked ==
  ASSUME UNCHANGED Damaged, call \in [Thread -> Call],
         NEW th \in Thread, call[th] = NoCall, NEW key \in Id,
         NEW c, c.key = key, c.at # "return", call' = [call EXCEPT ![th] = c]
  PROVE  Lookups!Ask(th)
<1>1. call[th].key = Nil /\ call[th].at = "idle"
  BY DEF NoCall
<1>2. Question[th] = Nil
  BY <1>1 DEF Question
<1>3. Question' = [Question EXCEPT ![th] = key]
  BY DEF Question
<1>4. UNCHANGED Found
  BY <1>1 DEF Found
<1> QED
  BY <1>2, <1>3, <1>4 DEF Lookups!Ask

LEMMA SameClosest ==
  ASSUME NEW S, NEW key
  PROVE  Lookups!Closest(S, key) = Closest(S, key)
BY DEF Lookups!Closest, Lookups!InInterval, Closest, InInterval

LEMMA DirectoryAnswered ==
  ASSUME UNCHANGED Damaged, CallsOK,
         NEW th \in Thread, call[th].at \in {"succ", "scan"},
         NEW d, d.key = call[th].key, d.at = "return", call' = [call EXCEPT ![th] = d],
         d.res \in Maybe(Node), Damaged \/ d.res = Closest(Node, call[th].key)
  PROVE  Lookups!Answer(th)
<1>1. call[th].key \in Id /\ Nil \notin Id /\ call \in [Thread -> Call]
  BY HereType, RingAssumption DEF CallsOK
<1>2. Question[th] # Nil /\ Question[th] = call[th].key
  BY <1>1 DEF Question
<1>3. UNCHANGED Question
  BY <1>1 DEF Question
<1>4. Found[th] = {}
  BY DEF Found
<1>5. Found' = [Found EXCEPT ![th] = {d.res}]
  BY <1>1 DEF Found
<1> QED
  BY <1>2, <1>3, <1>4, <1>5, SameClosest DEF Lookups!Answer, Maybe

LEMMA DirectoryTaken ==
  ASSUME UNCHANGED Damaged, call \in [Thread -> Call],
         NEW th \in Thread, call[th].at = "return", call' = [call EXCEPT ![th] = NoCall]
  PROVE  Lookups!Take(th)
<1>1. Question' = [Question EXCEPT ![th] = Nil]
  BY DEF Question, NoCall
<1>2. Found' = [Found EXCEPT ![th] = {}] /\ Found[th] # {}
  BY DEF Found, NoCall
<1> QED
  BY <1>1, <1>2 DEF Lookups!Take

(* A call is as it was, forgotten, or its result is lost.                  *)
Fades(c, d) ==
  \/ d = c
  \/ d = NoCall
  \/ /\ c.at = "return" /\ d.at = "return" /\ d.key = c.key
     /\ d.res \in {c.res, Nil}

LEMMA DirectoryStops ==
  ASSUME CallsOK, CallsOK', Damaged', \A th \in Thread : Fades(call[th], call'[th])
  PROVE  Lookups!Stop
<1>1. Question' \in [Thread -> Id \union {Nil}]
  <2>1. \A th \in Thread : call'[th].key \in Id \union {Nil}
    BY DEF CallsOK, Call, Maybe
  <2> QED
    BY <2>1 DEF Question
<1>2. Found' \in [Thread -> SUBSET (Node \union {Nil})]
  <2>1. \A th \in Thread : call'[th].res \in Node \union {Nil}
    BY DEF CallsOK, Call, Maybe
  <2> QED
    BY <2>1 DEF Found
<1>3. ASSUME NEW th \in Thread
      PROVE  \/ Question'[th] = Question[th] /\ Found'[th] = Found[th]
             \/ Question'[th] = Question[th] /\ Question[th] # Nil /\ Found'[th] = {Nil}
             \/ Question'[th] = Nil /\ Found'[th] = {}
  <2>1. CASE call'[th] = call[th]
    BY <2>1 DEF Question, Found
  <2>2. CASE call'[th] = NoCall
    BY <2>2 DEF Question, Found, NoCall
  <2>3. CASE /\ call[th].at = "return" /\ call'[th].at = "return"
             /\ call'[th].key = call[th].key /\ call'[th].res \in {call[th].res, Nil}
    <3>1. call[th].key # Nil
      BY <2>3, HereType, RingAssumption
    <3> QED
      BY <2>3, <3>1 DEF Question, Found
  <2> QED
    BY <2>1, <2>2, <2>3 DEF Fades
<1>4. Damaged' = TRUE
  OBVIOUS
<1> QED
  BY <1>1, <1>2, <1>3, <1>4 DEF Lookups!Stop

-----------------------------------------------------------------------------
(* Kinds of steps.                                                         *)

(* A step of process n that goes on, to q.                                 *)
LEMMA Turn ==
  ASSUME Inductive, Sane, NEW n \in Node, NEW q, node' = [node EXCEPT ![n] = q],
         Up(n), q.status = "up", q.mpc \in {"run", "send"}
  PROVE  /\ SaneNodes'
         /\ UNCHANGED Damaged
         /\ \A m \in Node : Up(m)' <=> Up(m)
         /\ UNCHANGED note => SaneNotes'
         /\ RestNodes /\ RestNode(n, q) => RestNodes'
         /\ UNCHANGED note /\ RestNotes => RestNotes'
<1>1. \A m \in Node : node'[m] = IF m = n THEN q ELSE node[m]
  BY DEF Inductive, NodesOK
<1>2. SaneNodes'
  BY <1>1 DEF Sane, SaneNodes, Up
<1>3. \A m \in Node : node'[m].status = node[m].status
  BY <1>1 DEF Up
<1>4. UNCHANGED Damaged
  BY <1>3 DEF Damaged
<1>5. \A m \in Node : Up(m)' <=> Up(m)
  BY <1>3 DEF Up
<1>6. UNCHANGED note => SaneNotes'
  BY <1>5 DEF Sane, SaneNotes
<1>7. RestNodes /\ RestNode(n, q) => RestNodes'
  BY <1>1 DEF RestNodes, RestNode, F
<1>8. UNCHANGED note /\ RestNotes => RestNotes'
  BY DEF RestNotes, F
<1> QED
  BY <1>2, <1>4, <1>5, <1>6, <1>7, <1>8

(* A step of its maintenance thread outside fixFingers, or of a handler.   *)
LEMMA TurnCallsSame ==
  ASSUME Inductive, Sane, NEW n \in Node, NEW q, node' = [node EXCEPT ![n] = q],
         Up(n), q.status = "up", q.mpc = node[n].mpc,
         node[n].ppc = "find" => q.ppc = "find", UNCHANGED call,
         SaneNotes' \/ UNCHANGED note,
         Rest => RestNode(n, q),
         Rest => RestNotes' \/ UNCHANGED note
  PROVE  Undisturbed
<1>1. q.mpc \in {"run", "send"}
  BY DEF Sane, SaneNodes
<1>2. /\ SaneNodes' /\ UNCHANGED Damaged
      /\ \A m \in Node : Up(m)' <=> Up(m)
      /\ UNCHANGED note => SaneNotes'
      /\ RestNodes /\ RestNode(n, q) => RestNodes'
      /\ UNCHANGED note /\ RestNotes => RestNotes'
  BY <1>1, Turn
<1>3. \A m \in Node : node'[m] = IF m = n THEN q ELSE node[m]
  BY DEF Inductive, NodesOK
<1>4. SaneCalls'
  BY <1>2, <1>3 DEF Sane, SaneCalls
<1>5. Rest => Rest'
  BY <1>2 DEF Rest, RestCalls, RestCall
<1>6. UNCHANGED Lookups!vars
  BY <1>2, DirectoryStutters
<1> QED
  BY <1>2, <1>4, <1>5, <1>6 DEF Undisturbed, Sane

(* Process t ends, killed or when somebody was killed before.              *)
LEMMA Death ==
  ASSUME Inductive, Inductive', Sane, NEW t \in Node, Up(t),
         NEW why \in {"killed"} \union Segv, node'[t] = Corpse(why),
         Damaged \/ why = "killed",
         \A m \in Node \ {t} :
           /\ node'[m].status = node[m].status
           /\ node'[m].mpc = node[m].mpc
           /\ node'[m].ppc = node[m].ppc \/ (Up(m) /\ node[m].ppc # "find"),
         \A th \in Thread : Fades(call[th], call'[th]),
         note' = NotesWithout(t)
  PROVE  Undisturbed
<1>1. /\ node'[t].status = why /\ why \notin {"up", "off"}
      /\ node'[t].ppc = "none" /\ node'[t].mpc = "none"
  BY DEF Corpse, Off, Segv
<1>2. SaneNodes'
  BY <1>1 DEF Sane, SaneNodes, Up
<1>3. Damaged'
  BY <1>1 DEF Damaged, Up
<1>4. \A m \in Node : Up(m)' <=> Up(m) /\ m # t
  BY <1>1 DEF Up
<1>5. SaneNotes'
  <2>1. \A m \in Node : note'[m] = IF note[m].to = t THEN NoNote ELSE note[m]
    BY DEF NotesWithout
  <2> QED
    BY <1>4, <2>1 DEF Sane, SaneNotes, NoNote
<1>6. SaneCalls'
  <2>1. \A th \in Thread : call'[th].at = "idle" => call'[th] = NoCall
    BY DEF Fades, Sane, SaneCalls
  <2>2. \A th \in Thread : call'[th].at # "idle" => call[th].at # "idle"
    BY DEF Fades, NoCall
  <2>3. \A n \in Node : <<n, "main">> \in Thread /\ <<n, "periodic">> \in Thread
    BY DEF Thread, Role
  <2> QED
    BY <1>4, <2>1, <2>2, <2>3 DEF Sane, SaneCalls
<1>7. Lookups!Stop
  BY <1>3, DirectoryStops DEF Inductive
<1> QED
  BY <1>2, <1>3, <1>5, <1>6, <1>7 DEF Undisturbed, Sane, Lookups!Next

LEMMA WithoutFades ==
  ASSUME NEW t
  PROVE  \A th \in Thread : Fades(call[th], CallsWithout(t)[th])
BY DEF Fades, CallsWithout

LEMMA DeathOne ==
  ASSUME Inductive, Inductive', Sane, NEW t \in Node, Up(t),
         NEW why \in {"killed"} \union Segv, node' = [node EXCEPT ![t] = Corpse(why)],
         Damaged \/ why = "killed",
         \A th \in Thread : Fades(call[th], call'[th]),
         note' = NotesWithout(t)
  PROVE  Undisturbed
<1>1. node'[t] = Corpse(why)
  BY DEF Inductive, NodesOK
<1>2. \A m \in Node \ {t} : node'[m] = node[m]
  BY DEF Inductive, NodesOK
<1>3. \A m \in Node \ {t} :
        /\ node'[m].status = node[m].status
        /\ node'[m].mpc = node[m].mpc
        /\ node'[m].ppc = node[m].ppc \/ (Up(m) /\ node[m].ppc # "find")
  BY <1>2
<1> QED
  BY <1>1, <1>3, Death

(* A step that makes call c of the call of thread th.                      *)
LEMMA TurnCall ==
  ASSUME Inductive, Sane, NEW n \in Node, NEW q, node' = [node EXCEPT ![n] = q],
         Up(n), q.status = "up", q.mpc \in {"run", "send"},
         NEW th \in Thread, NEW c, call' = [call EXCEPT ![th] = c],
         c.at = "idle" => c = NoCall,
         \A m \in Node : Up(m) =>
           /\ call'[<<m, "main">>].at # "idle" => node'[m].mpc = "send"
           /\ call'[<<m, "periodic">>].at # "idle" => node'[m].ppc = "find",
         UNCHANGED note,
         Rest => RestNode(n, q) /\ RestCall(c),
         UNCHANGED Damaged => [Lookups!Next]_(Lookups!vars)
  PROVE  Undisturbed
<1>1. /\ SaneNodes' /\ UNCHANGED Damaged
      /\ \A m \in Node : Up(m)' <=> Up(m)
      /\ SaneNotes'
      /\ RestNodes /\ RestNode(n, q) => RestNodes'
      /\ RestNotes => RestNotes'
  BY Turn
<1>2. \A h \in Thread : call'[h] = IF h = th THEN c ELSE call[h]
  BY DEF Inductive, CallsOK
<1>3. \A h \in Thread : call'[h].at = "idle" => call'[h] = NoCall
  BY <1>2 DEF Sane, SaneCalls
<1>4. SaneCalls'
  BY <1>1, <1>3 DEF SaneCalls
<1>5. RestCalls /\ RestCall(c) => RestCalls'
  BY <1>2 DEF RestCalls, RestCall
<1> QED
  BY <1>1, <1>4, <1>5 DEF Undisturbed, Sane, Rest

-----------------------------------------------------------------------------
(* What the invariant says at a node.                                      *)

LEMMA Reached0 ==
  ASSUME Established, Inductive, NEW t, Reach(t, FALSE)
  PROVE  ~Up(t)
BY DEF Established, Inductive, GlitchesOK, Reach

LEMMA Ahead ==
  ASSUME NEW n \in Node
  PROVE  /\ Node \in SUBSET Nat /\ Nil \notin Node
         /\ F(n) \in Node /\ F(n) # Nil
         /\ \A m \in Node : F(m) = F(n) => m = n
<1>1. Node \in SUBSET Nat /\ Nil \notin Node
  BY RingAssumption
<1> QED
  BY <1>1, FollowingIs, FollowingInjective DEF F

LEMMA ClosestNode ==
  ASSUME NEW key \in Id
  PROVE  Closest(Node, key) \in Node /\ Closest(Node, key) # Nil
<1>1. Node \in SUBSET Nat /\ Node # {} /\ Nil \notin Node /\ key \in Nat
  BY RingAssumption
<1>2. Closest(Node, key) \in Node
  BY <1>1, ClosestExists
<1> QED
  BY <1>1, <1>2

LEMMA AtNode ==
  ASSUME Inductive, RestNodes, NEW n \in Node
  PROVE  /\ Up(n) /\ RestNode(n, node[n])
         /\ succ(n) = F(n)
         /\ withSuccessor(node[n].finger, n) = node[n].finger
         /\ Min(Filled(node[n].finger, 0)) = 0
<1>1. RestNode(n, node[n]) /\ node[n].finger \in Table
  BY ProcessType DEF RestNodes, Inductive
<1>2. node[n].finger[0] # Nil
  BY <1>1, Ahead DEF RestNode
<1> QED
  BY <1>1, <1>2, FirstFinger DEF succ, RestNode, Up

(* Somebody is down: somebody was killed.                                  *)
LEMMA DownDamaged ==
  ASSUME RestInv, NEW n \in Node, ~Up(n)
  PROVE  Damaged
BY AtNode DEF RestInv, Rest

-----------------------------------------------------------------------------
(* The actions.                                                            *)

LEMMA FailRest ==
  ASSUME RestInv, Inductive', NEW n \in Node, Fail(n)
  PROVE  Undisturbed
<1>1. /\ Up(n) /\ node' = [node EXCEPT ![n] = Corpse("killed")]
      /\ call' = CallsWithout(n) /\ note' = NotesWithout(n)
  BY DEF Fail
<1>2. \A th \in Thread : Fades(call[th], call'[th])
  BY <1>1, WithoutFades
<1> QED
  BY <1>1, <1>2, DeathOne DEF RestInv

(* Nobody is started, nobody joins.                                        *)
LEMMA JoinRest ==
  ASSUME RestInv, NEW n \in Node, StartNode(n) \/ JoinBegin(n) \/ JoinEnd(n)
  PROVE  FALSE
BY DEF RestInv, Sane, SaneNodes, StartNode, JoinBegin, JoinEnd

(* Thread r of n makes a call.                                             *)
LEMMA TurnAsked ==
  ASSUME RestInv, NEW n \in Node, NEW q, node' = [node EXCEPT ![n] = q],
         Up(n), q.status = "up", q.mpc \in {"run", "send"},
         NEW r \in Role, NEW key \in Id, call[<<n, r>>].at = "idle",
         call' = [call EXCEPT ![<<n, r>>] =
                    [at |-> "succ", key |-> key, path |-> <<n>>, res |-> Nil, i |-> 0]],
         r = "main" => q.mpc = "send" /\ q.ppc = node[n].ppc,
         r = "periodic" => q.ppc = "find" /\ q.mpc = node[n].mpc,
         UNCHANGED note,
         Rest => RestNode(n, q)
  PROVE  Undisturbed
<1> DEFINE th == <<n, r>>
           c == [at |-> "succ", key |-> key, path |-> <<n>>, res |-> Nil, i |-> 0]
<1>1. th \in Thread /\ call \in [Thread -> Call] /\ call[th] = NoCall
  BY DEF Thread, RestInv, Sane, SaneCalls, Inductive, CallsOK
<1>2. c.key = key /\ c.at = "succ" /\ RestCall(c) /\ call' = [call EXCEPT ![th] = c]
  BY DEF RestCall
<1> HIDE DEF c
<1>3. UNCHANGED Damaged => Lookups!Ask(th)
  <2> HIDE DEF th
  <2> QED
    BY <1>1, <1>2, DirectoryAsked
<1>4. \A m \in Node : Up(m) =>
        /\ call'[<<m, "main">>].at # "idle" => node'[m].mpc = "send"
        /\ call'[<<m, "periodic">>].at # "idle" => node'[m].ppc = "find"
  <2>1. \A m \in Node : node'[m] = IF m = n THEN q ELSE node[m]
    BY DEF RestInv, Inductive, NodesOK
  <2>2. \A m \in Node : /\ <<m, "periodic">> \in Thread /\ <<m, "main">> \in Thread
                        /\ <<m, "periodic">> = th <=> m = n /\ r = "periodic"
                        /\ <<m, "main">> = th <=> m = n /\ r = "main"
    BY DEF Thread, Role
  <2>3. \A h \in Thread : h # th => call'[h] = call[h]
    BY <1>1, <1>2
  <2>4. r \in {"main", "periodic"}
    BY DEF Role
  <2> HIDE DEF th
  <2> QED
    BY <2>1, <2>2, <2>3, <2>4 DEF RestInv, Sane, SaneCalls
<1>5. UNCHANGED Damaged => [Lookups!Next]_(Lookups!vars)
  BY <1>1, <1>3 DEF Lookups!Next
<1>6. c.at = "idle" => c = NoCall
  BY <1>2
<1>7. Rest => RestNode(n, q) /\ RestCall(c)
  BY <1>2
<1>8. Inductive /\ Sane
  BY DEF RestInv
<1> HIDE DEF th
<1> QED
  BY <1>1, <1>2, <1>4, <1>5, <1>6, <1>7, <1>8, TurnCall

LEMMA SendRest ==
  ASSUME RestInv, NEW n \in Node, Send(n)
  PROVE  Undisturbed
<1> DEFINE q  == [node[n] EXCEPT !.mpc = "send"]
<1>1. PICK key \in Talk[n] :
        call' = [call EXCEPT ![<<n, "main">>] =
                   [at |-> "succ", key |-> key, path |-> <<n>>, res |-> Nil, i |-> 0]]
  BY DEF Send
<1>2. key \in Id /\ <<n, "main">> \in Thread /\ "main" \in Role
  BY RingAssumption DEF Thread, Role
<1>3. node[n].mpc = "run" /\ Up(n)
  BY DEF Send, RestInv, Sane, SaneNodes
<1>4. call[<<n, "main">>].at = "idle"
  BY <1>2, <1>3 DEF RestInv, Sane, SaneCalls
<1>5. node' = [node EXCEPT ![n] = q] /\ UNCHANGED note
  BY DEF Send, RestInv, Inductive, NodesOK
<1>6. /\ q.status = "up" /\ q.mpc = "send" /\ q.ppc = node[n].ppc
      /\ Rest => RestNode(n, q)
  BY <1>3 DEF RestInv, Inductive, NodesOK, Process, Rest, RestNodes, RestNode, Up
<1> HIDE DEF q
<1> QED
  BY <1>1, <1>2, <1>3, <1>4, <1>5, <1>6, TurnAsked

(* The call of a thread that waits for it is over.                         *)
LEMMA TurnTaken ==
  ASSUME Inductive, Sane, NEW n \in Node, NEW q, node' = [node EXCEPT ![n] = q],
         Up(n), q.status = "up", q.mpc \in {"run", "send"},
         NEW r \in Role, call[<<n, r>>].at = "return",
         call' = [call EXCEPT ![<<n, r>>] = NoCall],
         r = "main" => q.ppc = node[n].ppc,
         r = "periodic" => q.mpc = node[n].mpc,
         UNCHANGED note,
         Rest => RestNode(n, q)
  PROVE  Undisturbed
<1> DEFINE th == <<n, r>>
<1>1. th \in Thread /\ call \in [Thread -> Call]
  BY DEF Thread, Inductive, CallsOK
<1>2. UNCHANGED Damaged => Lookups!Take(th)
  <2> HIDE DEF th
  <2> QED
    BY <1>1, DirectoryTaken DEF th
<1>3. \A m \in Node : Up(m) =>
        /\ call'[<<m, "main">>].at # "idle" => node'[m].mpc = "send"
        /\ call'[<<m, "periodic">>].at # "idle" => node'[m].ppc = "find"
  <2>1. \A m \in Node : node'[m] = IF m = n THEN q ELSE node[m]
    BY DEF Inductive, NodesOK
  <2>2. \A m \in Node : /\ <<m, "periodic">> \in Thread /\ <<m, "main">> \in Thread
                        /\ <<m, "periodic">> = th <=> m = n /\ r = "periodic"
                        /\ <<m, "main">> = th <=> m = n /\ r = "main"
    BY DEF Thread, Role
  <2>3. \A h \in Thread : call'[h] = IF h = th THEN NoCall ELSE call[h]
    BY <1>1
  <2>4. NoCall.at = "idle" /\ r \in {"main", "periodic"}
    BY DEF NoCall, Role
  <2> HIDE DEF th
  <2> QED
    BY <2>1, <2>2, <2>3, <2>4 DEF Sane, SaneCalls
<1>4. RestCall(NoCall)
  BY DEF RestCall, NoCall
<1> HIDE DEF th
<1> QED
  BY <1>1, <1>2, <1>3, <1>4, TurnCall DEF th, Lookups!Next

LEMMA SendEndRest ==
  ASSUME Established, RestInv, Inductive', NEW n \in Node, SendEnd(n)
  PROVE  Undisturbed
<1> DEFINE th == <<n, "main">>
           q  == [node[n] EXCEPT !.mpc = "run"]
<1>1. node[n].mpc = "send" /\ Up(n) /\ th \in Thread /\ call[th].at = "return"
  BY DEF SendEnd, RestInv, Sane, SaneNodes, Thread, Role
<1>2. CASE call[th].res = Nil
  <2>1. /\ node' = [node EXCEPT ![n] = Corpse("segvSend")]
        /\ call' = CallsWithout(n) /\ note' = NotesWithout(n)
    BY <1>2 DEF SendEnd
  <2>2. \A h \in Thread : Fades(call[h], call'[h])
    BY <2>1, WithoutFades
  <2>3. Damaged
    <3>1. Rest => Closest(Node, call[th].key) = Nil
      BY <1>1, <1>2 DEF Rest, RestCalls, RestCall
    <3>2. call[th].key \in Id
      BY <1>1, HereType DEF RestInv, Inductive
    <3>3. Closest(Node, call[th].key) # Nil
      BY <3>2, ClosestNode
    <3> QED
      BY <3>1, <3>3 DEF RestInv
  <2>4. "segvSend" \in Segv
    BY DEF Segv
  <2> QED
    BY <1>1, <2>1, <2>2, <2>3, <2>4, DeathOne DEF RestInv
<1>3. CASE call[th].res # Nil
  <2>1. /\ call' = [call EXCEPT ![th] = NoCall] /\ UNCHANGED note
        /\ node' = [node EXCEPT ![n] = q]
    BY <1>3 DEF SendEnd, RestInv, Inductive, NodesOK
  <2>2. /\ q.status = "up" /\ q.mpc = "run" /\ q.ppc = node[n].ppc
        /\ Rest => RestNode(n, q)
    BY <1>1 DEF RestInv, Inductive, NodesOK, Process, Rest, RestNodes, RestNode, Up
  <2> HIDE DEF q
  <2> QED
    BY <1>1, <2>1, <2>2, TurnTaken DEF RestInv, Role
<1> QED
  BY <1>2, <1>3

(* A turn of the maintenance thread: the goal restated.                    *)
LEMMA PeriodicTurn ==
  ASSUME RestInv, NEW n \in Node, NEW q, node' = [node EXCEPT ![n] = q],
         node[n].ppc \notin {"none", "find"}, q.status = "up", q.mpc = node[n].mpc,
         UNCHANGED call,
         SaneNotes' \/ UNCHANGED note,
         Rest => RestNode(n, q),
         Rest => RestNotes' \/ UNCHANGED note
  PROVE  Undisturbed
<1>1. Up(n)
  BY DEF RestInv, Sane, SaneNodes
<1> QED
  BY <1>1, TurnCallsSame DEF RestInv

LEMMA CheckPredecessorRest ==
  ASSUME Established, RestInv, NEW n \in Node, CheckPredecessor(n) \/ ClearPredecessor(n)
  PROVE  Undisturbed
<1> DEFINE q(pc) == [node[n] EXCEPT !.ppc = pc]
<1>1. node[n].ppc \notin {"none", "find"} /\ UNCHANGED <<call, note>> /\ Up(n)
  BY DEF CheckPredecessor, ClearPredecessor, RestInv, Sane, SaneNodes
<1>2. CASE ClearPredecessor(n)
  <2> DEFINE r == [node[n] EXCEPT !.pred = Nil, !.ppc = "ping"]
  <2>1. node' = [node EXCEPT ![n] = r]
    BY <1>2 DEF ClearPredecessor, RestInv, Inductive, NodesOK
  <2>2. r.status = "up" /\ r.mpc = node[n].mpc
    BY <1>1 DEF RestInv, Inductive, NodesOK, Process, Up
  <2>3. ~Rest
    BY <1>2 DEF ClearPredecessor, Rest, RestNodes, RestNode
  <2> HIDE DEF r
  <2> QED
    BY <1>1, <2>1, <2>2, <2>3, PeriodicTurn
<1>3. CASE CheckPredecessor(n)
  <2>1. PICK pc \in {"ping", "clear"} :
          /\ node' = [node EXCEPT ![n].ppc = pc]
          /\ pc = "clear" => node[n].pred \notin {Nil, n} /\ ping(node[n].pred, FALSE)
    BY <1>3 DEF CheckPredecessor
  <2>2. node' = [node EXCEPT ![n] = q(pc)]
    BY <2>1 DEF RestInv, Inductive, NodesOK
  <2>3. q(pc).status = "up" /\ q(pc).mpc = node[n].mpc
    BY <1>1 DEF RestInv, Inductive, NodesOK, Process, Up
  <2>4. ASSUME Rest
        PROVE  RestNode(n, q(pc))
    <3>1. Up(node[n].pred)
      BY <2>4, AtNode DEF Rest, RestNodes, RestNode, RestInv
    <3>2. pc = "ping"
      BY <2>1, <3>1, Reached0 DEF ping, RestInv
    <3> QED
      BY <2>4, <3>2 DEF RestInv, Inductive, NodesOK, Process, Rest, RestNodes, RestNode
  <2> HIDE DEF q
  <2> QED
    BY <1>1, <2>2, <2>3, <2>4, PeriodicTurn
<1> QED
  BY <1>2, <1>3

(* What Write may leave of process n.                                      *)
LEMMA WriteIs ==
  ASSUME Inductive, NEW n \in Node, NEW p \in Process, p.status = "up", NEW g \in Table,
         NEW q \in Write(n, p, g)
  PROVE  \/ q.status = "up" /\ q.mpc = p.mpc /\ q.ppc = p.ppc
         \/ q = Corpse("segvTable")
<1>1. PICK h : q = [p EXCEPT !.finger = h] \/ q = Corpse("segvTable")
  BY DEF Write
<1> QED
  BY <1>1 DEF Process

LEMMA StabilizePingRest ==
  ASSUME Established, RestInv, Inductive', NEW n \in Node, StabilizePing(n)
  PROVE  Undisturbed
<1> DEFINE s == succ(n)
           f == withSuccessor(node[n].finger, n)
           r == [node[n] EXCEPT !.finger = f, !.ppc = "get"]
<1>1. /\ node[n].ppc = "ping" /\ Up(n)
      /\ node[n] \in Process /\ f \in Table /\ s \in Node /\ node \in [Node -> Process]
  BY ProcessType DEF StabilizePing, RestInv, Sane, SaneNodes, Inductive, NodesOK
<1>2. Rest => f = node[n].finger /\ Up(s)
  BY <1>1, AtNode DEF RestInv, Rest
<1>3. \/ node' = [node EXCEPT ![n].finger = f, ![n].ppc = "get"] /\ UNCHANGED <<call, note>>
      \/ /\ s # n /\ ping(s, FALSE)
         /\ \E g \in removeNode(f, s) : \E q \in Write(n, node[n], g) : Becomes(n, q, call)
  BY DEF StabilizePing
<1> HIDE DEF f, s
<1>4. CASE node' = [node EXCEPT ![n].finger = f, ![n].ppc = "get"] /\ UNCHANGED <<call, note>>
  <2>1. node' = [node EXCEPT ![n] = r]
    BY <1>1, <1>4
  <2>2. r.status = "up" /\ r.mpc = node[n].mpc
    BY <1>1 DEF Process, Up
  <2>3. Rest => RestNode(n, r)
    BY <1>1, <1>2 DEF Process, Rest, RestNodes, RestNode
  <2> HIDE DEF r
  <2> QED
    BY <1>1, <1>4, <2>1, <2>2, <2>3, PeriodicTurn
<1>5. ASSUME s # n, ping(s, FALSE), NEW g \in removeNode(f, s), NEW q \in Write(n, node[n], g),
             Becomes(n, q, call)
      PROVE  Undisturbed
  <2>1. ~Up(s)
    BY <1>5, Reached0 DEF ping, RestInv
  <2>2. Damaged /\ ~Rest
    BY <1>1, <1>2, <2>1, DownDamaged
  <2>3. \/ q.status = "up" /\ q.mpc = node[n].mpc /\ q.ppc = node[n].ppc
        \/ q = Corpse("segvTable")
    BY <1>1, <1>5, RemoveNodeType, WriteIs DEF RestInv, Up
  <2>4. CASE q.status = "up"
    <3>1. node' = [node EXCEPT ![n] = q] /\ UNCHANGED <<call, note>>
      BY <1>5, <2>4 DEF Becomes
    <3>2. q.mpc = node[n].mpc
      BY <2>3, <2>4 DEF Corpse, Off
    <3> QED
      BY <1>1, <2>2, <2>4, <3>1, <3>2, PeriodicTurn
  <2>5. CASE q.status # "up"
    <3>1. /\ node' = [node EXCEPT ![n] = Corpse("segvTable")]
          /\ call' = CallsWithout(n) /\ note' = NotesWithout(n)
      BY <1>5, <2>3, <2>5 DEF Becomes
    <3>2. \A h \in Thread : Fades(call[h], call'[h])
      BY <3>1, WithoutFades
    <3>3. "segvTable" \in Segv
      BY DEF Segv
    <3> QED
      BY <1>1, <2>2, <3>1, <3>2, <3>3, DeathOne DEF RestInv
  <2> QED
    BY <2>4, <2>5
<1> QED
  BY <1>3, <1>4, <1>5

LEMMA StabilizeGetRest ==
  ASSUME Established, RestInv, Inductive', NEW n \in Node, StabilizeGet(n)
  PROVE  Undisturbed
<1> DEFINE s == succ(n)
           f == withSuccessor(node[n].finger, n)
           r(x) == [node[n] EXCEPT !.finger = f, !.ppc = "test", !.x = x]
<1>1. /\ node[n].ppc = "get" /\ Up(n)
      /\ node[n] \in Process /\ s \in Node /\ node \in [Node -> Process]
  BY ProcessType DEF StabilizeGet, RestInv, Sane, SaneNodes, Inductive, NodesOK
<1>2. \A x : Got(n, x) = [node EXCEPT ![n] = r(x)]
  BY <1>1 DEF Got
<1>3. ASSUME Rest
      PROVE  f = node[n].finger /\ Up(s) /\ node[s].pred = n
  <2>1. f = node[n].finger /\ s = F(n) /\ RestNode(s, node[s]) /\ Up(s)
    BY <1>1, <1>3, AtNode DEF RestInv, Rest
  <2>2. node[s].pred \in Node /\ F(node[s].pred) = F(n)
    BY <2>1 DEF RestNode
  <2>3. node[s].pred = n
    BY <2>2, Ahead
  <2> QED
    BY <2>1, <2>3
<1> HIDE DEF f, s
<1>4. ASSUME NEW x, node' = Got(n, x), Rest => x = n, UNCHANGED <<call, note>>
      PROVE  Undisturbed
  <2>1. node' = [node EXCEPT ![n] = r(x)]
    BY <1>2, <1>4
  <2>2. r(x).status = "up" /\ r(x).mpc = node[n].mpc
    BY <1>1 DEF Process, Up
  <2>3. Rest => RestNode(n, r(x))
    BY <1>1, <1>3, <1>4 DEF Process, Rest, RestNodes, RestNode
  <2> HIDE DEF r
  <2> QED
    BY <1>1, <1>4, <2>1, <2>2, <2>3, PeriodicTurn
<1>5. CASE s = n /\ node' = Got(n, node[n].pred) /\ UNCHANGED <<call, note>>
  BY <1>3, <1>4, <1>5
<1>6. CASE Reach(s, FALSE) /\ node' = Got(n, Nil) /\ UNCHANGED <<call, note>>
  BY <1>1, <1>3, <1>4, <1>6, Reached0 DEF RestInv
<1>7. CASE Reach(s, TRUE) /\ node' = Got(n, node[s].pred) /\ UNCHANGED <<call, note>>
  BY <1>3, <1>4, <1>7
<1>8. CASE /\ s # n /\ Reach(s, TRUE) /\ node[s].pred = Nil
           /\ node' = [Got(n, Nil) EXCEPT ![s] = Corpse("segvPredecessor")]
           /\ call' = CallsWithout(s) /\ note' = NotesWithout(s)
  <2>1. Up(s) /\ "segvPredecessor" \in Segv
    BY <1>8 DEF Reach, Segv
  <2>2. Damaged
    BY <1>3, <1>8, RingAssumption DEF RestInv
  <2>3. node' = [[node EXCEPT ![n] = r(Nil)] EXCEPT ![s] = Corpse("segvPredecessor")]
    BY <1>2, <1>8
  <2>4. r(Nil).status = "up" /\ r(Nil).mpc = node[n].mpc
    BY <1>1 DEF Process, Up
  <2> HIDE DEF r
  <2>7. /\ node'[s] = Corpse("segvPredecessor") /\ node'[n] = r(Nil)
        /\ \A m \in Node \ {s, n} : node'[m] = node[m]
    BY <1>1, <1>8, <2>3
  <2>5. \A m \in Node \ {s} :
          /\ node'[m].status = node[m].status
          /\ node'[m].mpc = node[m].mpc
          /\ node'[m].ppc = node[m].ppc \/ (Up(m) /\ node[m].ppc # "find")
    BY <1>1, <2>4, <2>7 DEF Up
  <2>6. \A h \in Thread : Fades(call[h], call'[h])
    BY <1>8, WithoutFades
  <2> QED
    BY <1>1, <1>8, <2>1, <2>2, <2>5, <2>6, <2>7, Death DEF RestInv
<1> QED
  BY <1>5, <1>6, <1>7, <1>8 DEF StabilizeGet, RemoteGetPredecessor, s

LEMMA StabilizeTestRest ==
  ASSUME RestInv, NEW n \in Node, StabilizeTest(n)
  PROVE  Undisturbed
<1> DEFINE x == node[n].x
           f == withSuccessor(node[n].finger, n)
           there == [node[n] EXCEPT !.finger = f, !.ppc = "set"]
           kept == [node[n] EXCEPT !.finger = f, !.ppc = "notify", !.x = Nil]
<1>1. /\ node[n].ppc = "test" /\ Up(n) /\ UNCHANGED <<call, note>>
      /\ node[n] \in Process /\ node \in [Node -> Process]
  BY ProcessType DEF StabilizeTest, RestInv, Sane, SaneNodes, Inductive, NodesOK
<1>2. Rest => f = node[n].finger /\ succ(n) = F(n) /\ x = n /\ F(n) \in Node
  BY <1>1, AtNode, Ahead DEF RestInv, Rest, RestNode
<1>3. \/ InInterval(x, n, succ(n)) /\ node' = [node EXCEPT ![n] = there]
      \/ node' = [node EXCEPT ![n] = kept]
  BY <1>1 DEF StabilizeTest
<1> HIDE DEF f
<1>4. CASE InInterval(x, n, succ(n)) /\ node' = [node EXCEPT ![n] = there]
  <2>1. there.status = "up" /\ there.mpc = node[n].mpc
    BY <1>1 DEF Process, Up
  <2>2. ASSUME Rest
        PROVE  RestNode(n, there)
    <3>1. InInterval(n, n, F(n)) /\ n \in Int /\ F(n) \in Int
      BY <1>2, <1>4, <2>2, RingAssumption
    <3>2. F(n) = n
      BY <3>1 DEF InInterval
    <3> QED
      BY <1>1, <1>2, <2>2, <3>2 DEF Process, Rest, RestNodes, RestNode
  <2> HIDE DEF there
  <2> QED
    BY <1>1, <1>4, <2>1, <2>2, PeriodicTurn
<1>5. CASE node' = [node EXCEPT ![n] = kept]
  <2>1. kept.status = "up" /\ kept.mpc = node[n].mpc
    BY <1>1 DEF Process, Up
  <2>2. Rest => RestNode(n, kept)
    BY <1>1, <1>2 DEF Process, Rest, RestNodes, RestNode
  <2> HIDE DEF kept
  <2> QED
    BY <1>1, <1>5, <2>1, <2>2, PeriodicTurn
<1> QED
  BY <1>3, <1>4, <1>5

LEMMA StabilizeSetRest ==
  ASSUME RestInv, NEW n \in Node, StabilizeSet(n)
  PROVE  Undisturbed
<1> DEFINE g == setNode(node[n].finger, 0, node[n].x)
           q == [node[n] EXCEPT !.finger = g, !.ppc = "notify", !.x = Nil]
<1>1. /\ node[n].ppc = "set" /\ Up(n) /\ UNCHANGED <<call, note>>
      /\ node[n] \in Process /\ node[n].finger \in Table /\ node \in [Node -> Process]
  BY ProcessType DEF StabilizeSet, RestInv, Sane, SaneNodes, Inductive, NodesOK
<1>2. node' = [node EXCEPT ![n] = q]
  BY <1>1 DEF StabilizeSet
<1>3. g[0] = node[n].x
  BY <1>1, MAssumption DEF setNode, Table, Index
<1> HIDE DEF g
<1>4. q.status = "up" /\ q.mpc = node[n].mpc
  BY <1>1 DEF Process, Up
<1>5. Rest => RestNode(n, q)
  BY <1>1, <1>3 DEF Process, Rest, RestNodes, RestNode
<1> HIDE DEF q
<1> QED
  BY <1>1, <1>2, <1>4, <1>5, PeriodicTurn

LEMMA StabilizeNotifyRest ==
  ASSUME RestInv, NEW n \in Node, StabilizeNotify(n)
  PROVE  Undisturbed
<1> DEFINE s == succ(n)
           f == withSuccessor(node[n].finger, n)
           q == [node[n] EXCEPT !.finger = f, !.ppc = "fix"]
           new == [at |-> "null", to |-> s]
<1>1. /\ node[n].ppc = "notify" /\ Up(n) /\ UNCHANGED call /\ s \in Node
      /\ node[n] \in Process /\ node \in [Node -> Process] /\ note \in [Node -> Note]
  BY ProcessType DEF StabilizeNotify, RestInv, Sane, SaneNodes, Inductive, NodesOK, NotesOK
<1>2. node' = [node EXCEPT ![n] = q]
  BY <1>1 DEF StabilizeNotify
<1>3. Rest => f = node[n].finger /\ s = F(n)
  BY <1>1, AtNode DEF RestInv, Rest, RestNode
<1>4. \/ Up(s) /\ note' = [note EXCEPT ![n] = new]
      \/ UNCHANGED note
  BY <1>1 DEF StabilizeNotify, Reach
<1> HIDE DEF f, s
<1>5. q.status = "up" /\ q.mpc = node[n].mpc /\ q.mpc \in {"run", "send"}
  BY <1>1 DEF Process, Up, RestInv, Sane, SaneNodes
<1>6. Rest => RestNode(n, q)
  BY <1>1, <1>3 DEF Process, Rest, RestNodes, RestNode
<1> HIDE DEF q
<1>7. CASE UNCHANGED note
  BY <1>1, <1>2, <1>5, <1>6, <1>7, PeriodicTurn
<1>8. CASE Up(s) /\ note' = [note EXCEPT ![n] = new]
  <2>1. \A m \in Node : Up(m)' <=> Up(m)
    BY <1>1, <1>2, <1>5, Turn DEF RestInv
  <2>2. \A m \in Node : note'[m] = IF m = n THEN new ELSE note[m]
    BY <1>1, <1>8
  <2>3. SaneNotes'
    BY <1>1, <1>8, <2>1, <2>2 DEF SaneNotes, RestInv, Sane
  <2>4. Rest => RestNotes'
    BY <1>3, <2>2 DEF RestNotes, Rest, F
  <2> QED
    BY <1>1, <1>2, <1>5, <1>6, <2>3, <2>4, PeriodicTurn
<1> QED
  BY <1>4, <1>7, <1>8

LEMMA FixFingersRest ==
  ASSUME RestInv, NEW n \in Node, FixFingers(n)
  PROVE  Undisturbed
<1>1. PICK k \in 1 .. M - 2 :
        /\ node' = [node EXCEPT ![n].ppc = "find", ![n].k = k]
        /\ call' = [call EXCEPT ![<<n, "periodic">>] =
                      [at |-> "succ", key |-> Start[n][k], path |-> <<n>>, res |-> Nil, i |-> 0]]
  BY DEF FixFingers
<1> DEFINE q == [node[n] EXCEPT !.ppc = "find", !.k = k]
<1>2. Start[n][k] \in Id /\ <<n, "periodic">> \in Thread /\ "periodic" \in Role
  <2>1. k \in Index /\ Start \in [Node -> [Index -> Id]]
    BY RingAssumption, MAssumption DEF Index
  <2> QED
    BY <2>1 DEF Thread, Role
<1>3. node[n].ppc = "fix" /\ Up(n) /\ UNCHANGED note
  BY DEF FixFingers, RestInv, Sane, SaneNodes
<1>4. call[<<n, "periodic">>].at = "idle"
  BY <1>2, <1>3 DEF RestInv, Sane, SaneCalls
<1>5. node' = [node EXCEPT ![n] = q]
  BY <1>1 DEF RestInv, Inductive, NodesOK
<1>6. /\ q.status = "up" /\ q.ppc = "find" /\ q.mpc = node[n].mpc
      /\ q.mpc \in {"run", "send"}
  BY <1>3 DEF RestInv, Inductive, NodesOK, Process, Up, Sane, SaneNodes
<1>7. Rest => RestNode(n, q)
  BY DEF RestInv, Inductive, NodesOK, Process, Rest, RestNodes, RestNode
<1> HIDE DEF q
<1> QED
  BY <1>1, <1>2, <1>3, <1>4, <1>5, <1>6, <1>7, TurnAsked

LEMMA FixFingersSetRest ==
  ASSUME RestInv, Inductive', NEW n \in Node, FixFingersSet(n)
  PROVE  Undisturbed
<1> DEFINE th == <<n, "periodic">>
           g == setNode(node[n].finger, node[n].k, call[th].res)
           p == [node[n] EXCEPT !.ppc = "sleep", !.k = 0]
<1>1. /\ node[n].ppc = "find" /\ Up(n) /\ th \in Thread /\ "periodic" \in Role
      /\ call[th].at = "return" /\ node[n].finger \in Table /\ node[n].k \in Index
      /\ node[n] \in Process /\ node[n].mpc \in {"run", "send"}
  BY ProcessType
     DEF FixFingersSet, RestInv, Sane, SaneNodes, Thread, Role, Inductive, NodesOK
<1>2. PICK q \in Write(n, p, g) : Becomes(n, q, [call EXCEPT ![th] = NoCall])
  BY DEF FixFingersSet
<1>3. p \in Process /\ p.status = "up" /\ p.mpc = node[n].mpc /\ 0 \in Index
  <2>1. 0 \in Index
    BY MAssumption DEF Index
  <2> QED
    BY <1>1, <2>1 DEF Process, PeriodicPc, Up
<1>4. g \in Table
  BY <1>1, ReturnedResult, SetNodeType DEF RestInv, Inductive
<1>5. ASSUME Rest
      PROVE  q.status = "up" /\ RestNode(n, q)
  <2>1. RestNode(n, node[n]) /\ Min(Filled(node[n].finger, 0)) = 0
    BY <1>5, AtNode DEF Rest, RestInv
  <2>2. node[n].k \in 1 .. M - 2
    BY <1>1, <2>1 DEF RestNode
  <2>3. g[0] = F(n)
    <3>1. node[n].k # 0
      BY <2>2
    <3> QED
      BY <1>1, <1>3, <2>1, <3>1 DEF RestNode, setNode, Table
  <2> HIDE DEF g
  <2>4. ~Torn(n, g)
    BY <2>1, <2>3, Ahead DEF Torn
  <2>5. q = [p EXCEPT !.finger = g]
    BY <1>2, <2>4 DEF Write
  <2> QED
    BY <1>1, <2>1, <2>3, <2>5 DEF RestNode, Process, Up
<1>6. \/ q.status = "up" /\ q.mpc = node[n].mpc
      \/ q = Corpse("segvTable")
  <2> HIDE DEF p, g
  <2> QED
    BY <1>2, <1>3, <1>4, WriteIs DEF RestInv
<1> HIDE DEF p, g
<1>7. CASE q.status = "up"
  <2>1. /\ node' = [node EXCEPT ![n] = q] /\ UNCHANGED note
        /\ call' = [call EXCEPT ![th] = NoCall]
    BY <1>2, <1>7 DEF Becomes
  <2>2. q.mpc = node[n].mpc
    BY <1>6, <1>7 DEF Corpse, Off
  <2> QED
    BY <1>1, <1>5, <1>7, <2>1, <2>2, TurnTaken DEF RestInv
<1>8. CASE q.status # "up"
  <2>1. /\ node' = [node EXCEPT ![n] = Corpse("segvTable")]
        /\ call' = CallsWithout(n) /\ note' = NotesWithout(n)
    BY <1>2, <1>6, <1>8 DEF Becomes
  <2>2. \A h \in Thread : Fades(call[h], call'[h])
    BY <2>1, WithoutFades
  <2>3. "segvTable" \in Segv /\ Damaged
    BY <1>5, <1>8 DEF Segv, RestInv
  <2> QED
    BY <1>1, <2>1, <2>2, <2>3, DeathOne DEF RestInv
<1> QED
  BY <1>7, <1>8

-----------------------------------------------------------------------------
(* The lookups.                                                            *)

(* A step of a lookup: of a process it changes the table at most.          *)
LEMMA LookupTurn ==
  ASSUME RestInv, NEW th \in Thread, NEW d, call' = [call EXCEPT ![th] = d],
         call[th].at # "idle", d = NoCall \/ d.at # "idle", UNCHANGED note,
         \A m \in Node : /\ node'[m].status = node[m].status
                         /\ node'[m].mpc = node[m].mpc
                         /\ node'[m].ppc = node[m].ppc,
         Rest => RestNodes' /\ RestCall(d),
         UNCHANGED Damaged => [Lookups!Next]_(Lookups!vars)
  PROVE  Undisturbed
<1>1. \A h \in Thread : call'[h] = IF h = th THEN d ELSE call[h]
  BY DEF RestInv, Inductive, CallsOK
<1>2. UNCHANGED Damaged /\ \A m \in Node : Up(m)' <=> Up(m)
  BY DEF Damaged, Up
<1>3. SaneNodes' /\ SaneNotes'
  BY <1>2 DEF RestInv, Sane, SaneNodes, SaneNotes
<1>4. SaneCalls'
  <2>1. \A h \in Thread : call'[h].at = "idle" => call'[h] = NoCall
    BY <1>1 DEF RestInv, Sane, SaneCalls
  <2>2. \A h \in Thread : call'[h].at # "idle" => call[h].at # "idle"
    BY <1>1
  <2>3. \A n \in Node : <<n, "main">> \in Thread /\ <<n, "periodic">> \in Thread
    BY DEF Thread, Role
  <2> QED
    BY <1>2, <2>1, <2>2, <2>3 DEF RestInv, Sane, SaneCalls
<1>5. Rest => Rest'
  BY <1>1 DEF Rest, RestCalls, RestCall, RestNotes, F
<1> QED
  BY <1>2, <1>3, <1>4, <1>5 DEF Undisturbed, Sane

(* It moves on: nobody sees it.                                            *)
LEMMA LookupMoves ==
  ASSUME RestInv, NEW th \in Thread, NEW d, call' = [call EXCEPT ![th] = d],
         call[th].at \in {"succ", "scan"}, d.at \in {"succ", "scan"}, d.key = call[th].key,
         UNCHANGED Damaged
  PROVE  [Lookups!Next]_(Lookups!vars)
<1>1. \A h \in Thread : call'[h] = IF h = th THEN d ELSE call[h]
  BY DEF RestInv, Inductive, CallsOK
<1>2. \A h \in Thread : /\ call'[h].key = call[h].key
                        /\ call'[h].at = "return" <=> call[h].at = "return"
                        /\ call[h].at = "return" => call'[h].res = call[h].res
  BY <1>1
<1> QED
  BY <1>2, DirectoryStutters

(* It is answered.                                                         *)
LEMMA LookupAnswered ==
  ASSUME RestInv, NEW th \in Thread, NEW d, call' = [call EXCEPT ![th] = d],
         call[th].at \in {"succ", "scan"}, d.at = "return", d.key = call[th].key,
         d.res \in Maybe(Node), Damaged \/ d.res = Closest(Node, d.key),
         UNCHANGED Damaged
  PROVE  [Lookups!Next]_(Lookups!vars)
<1>1. Lookups!Answer(th)
  BY DirectoryAnswered DEF RestInv, Inductive
<1> QED
  BY <1>1 DEF Lookups!Next

LEMMA FindSuccessorRest ==
  ASSUME RestInv, NEW th \in Thread, FindSuccessor(th)
  PROVE  Undisturbed
<1> DEFINE a == Here(th)
           key == call[th].key
           f == withSuccessor(node[a].finger, a)
           found(r) == [call[th] EXCEPT !.at = "return", !.res = r]
           scan == [call[th] EXCEPT !.at = "scan", !.i = M - 1]
<1>1. /\ call[th].at = "succ" /\ a \in Node /\ key \in Id /\ key \in Nat
      /\ call[th] \in Call /\ call \in [Thread -> Call] /\ UNCHANGED note
      /\ node \in [Node -> Process] /\ succ(a) \in Node
  BY HereType, ProcessType, RingAssumption
     DEF FindSuccessor, RestInv, Inductive, CallsOK, NodesOK
<1>2. \/ UNCHANGED node
      \/ node' = [node EXCEPT ![a].finger = f]
  BY DEF FindSuccessor
<1>3. \/ a = key /\ call' = [call EXCEPT ![th] = found(a)]
      \/ InHalfOpen(key, a, succ(a)) /\ call' = [call EXCEPT ![th] = found(succ(a))]
      \/ call' = [call EXCEPT ![th] = scan]
  BY <1>1 DEF FindSuccessor
<1>4. Rest => f = node[a].finger /\ succ(a) = F(a)
  BY <1>1, AtNode DEF RestInv, Rest
<1> HIDE DEF f, a
<1>5. \A m \in Node : /\ node'[m].status = node[m].status
                      /\ node'[m].mpc = node[m].mpc
                      /\ node'[m].ppc = node[m].ppc
  BY <1>1, <1>2 DEF Process
<1>6. Rest => RestNodes'
  <2>1. f = node[a].finger => UNCHANGED node
    BY <1>1, <1>2 DEF Process
  <2> QED
    BY <1>4, <2>1 DEF Rest, RestNodes, RestNode, F
<1>7. ASSUME NEW r \in Node, call' = [call EXCEPT ![th] = found(r)],
             Rest => r = Closest(Node, key)
      PROVE  Undisturbed
  <2>1. found(r).at = "return" /\ found(r).key = key /\ found(r).res = r /\ r \in Maybe(Node)
    BY <1>1 DEF Call, Maybe
  <2> HIDE DEF found
  <2>2. UNCHANGED Damaged => [Lookups!Next]_(Lookups!vars)
    BY <1>1, <1>7, <2>1, LookupAnswered DEF RestInv
  <2>3. Rest => RestCall(found(r))
    BY <1>7, <2>1 DEF RestCall
  <2> QED
    BY <1>1, <1>5, <1>6, <1>7, <2>1, <2>2, <2>3, LookupTurn
<1>8. CASE a = key /\ call' = [call EXCEPT ![th] = found(a)]
  <2>1. Node \in SUBSET Nat /\ key \in Node /\ key \in Nat
    BY <1>1, <1>8, RingAssumption
  <2> HIDE DEF key
  <2>2. Closest(Node, key) = key
    BY <2>1, ClosestUnique
  <2> QED
    BY <1>1, <1>7, <1>8, <2>2
<1>9. CASE InHalfOpen(key, a, succ(a)) /\ call' = [call EXCEPT ![th] = found(succ(a))]
  <2>1. Rest => succ(a) = Closest(Node, key)
    BY <1>1, <1>4, <1>9, Ahead, HalfOpenClosest DEF F
  <2> QED
    BY <1>1, <1>7, <1>9, <2>1
<1>10. CASE call' = [call EXCEPT ![th] = scan]
  <2>1. scan.at = "scan" /\ scan.key = key
    BY <1>1 DEF Call
  <2> HIDE DEF scan
  <2>2. UNCHANGED Damaged => [Lookups!Next]_(Lookups!vars)
    BY <1>1, <1>10, <2>1, LookupMoves
  <2>3. RestCall(scan)
    BY <2>1 DEF RestCall
  <2> QED
    BY <1>1, <1>5, <1>6, <1>10, <2>1, <2>2, <2>3, LookupTurn
<1> QED
  BY <1>3, <1>8, <1>9, <1>10

LEMMA ScanRest ==
  ASSUME Established, RestInv, NEW th \in Thread, Scan(th)
  PROVE  Undisturbed
<1> DEFINE a == Here(th)
           f == getNode(node[a].finger, call[th].i)
           on == [call[th] EXCEPT !.at = "succ", !.path = Append(@, f), !.i = 0]
           lost == [call[th] EXCEPT !.at = "return", !.res = Nil, !.i = 0]
           next == IF call[th].i > 0 THEN [call[th] EXCEPT !.i = call[th].i - 1]
                                     ELSE [call[th] EXCEPT !.at = "succ"]
<1>1. /\ call[th].at = "scan" /\ a \in Node /\ call[th] \in Call /\ call \in [Thread -> Call]
      /\ UNCHANGED <<node, note>> /\ f \in Maybe(Node)
  <2>1. call[th].at = "scan" /\ a \in Node /\ call[th] \in Call /\ call[th].i \in Index
    BY HereType DEF Scan, RestInv, Inductive, CallsOK, Call
  <2> QED
    BY <2>1, ProcessType, GetNodeType DEF Scan, RestInv, Inductive, CallsOK
<1>2. \/ call' = [call EXCEPT ![th] = on]
      \/ f # Nil /\ Reach(f, FALSE) /\ call' = [call EXCEPT ![th] = lost]
      \/ call' = [call EXCEPT ![th] = next]
  BY <1>1 DEF Scan, Forward, precedes
<1>3. /\ on.at = "succ" /\ on.key = call[th].key
      /\ lost.at = "return" /\ lost.key = call[th].key /\ lost.res = Nil
      /\ next.at \in {"succ", "scan"} /\ next.key = call[th].key
  BY <1>1 DEF Call
<1> HIDE DEF a, f, on, lost, next
<1>4. /\ \A m \in Node : /\ node'[m].status = node[m].status
                         /\ node'[m].mpc = node[m].mpc
                         /\ node'[m].ppc = node[m].ppc
      /\ Rest => RestNodes'
  BY <1>1 DEF Rest, RestNodes, RestNode, F
<1>5. ASSUME NEW d, call' = [call EXCEPT ![th] = d], d.at \in {"succ", "scan"},
             d.key = call[th].key
      PROVE  Undisturbed
  <2>1. UNCHANGED Damaged => [Lookups!Next]_(Lookups!vars)
    BY <1>1, <1>5, LookupMoves
  <2>2. RestCall(d)
    BY <1>5 DEF RestCall
  <2> QED
    BY <1>1, <1>4, <1>5, <2>1, <2>2, LookupTurn
<1>6. CASE f # Nil /\ Reach(f, FALSE) /\ call' = [call EXCEPT ![th] = lost]
  <2>1. f \in Node /\ ~Up(f)
    BY <1>1, <1>6, Reached0 DEF RestInv, Maybe
  <2>2. Damaged /\ ~Rest
    BY <2>1, DownDamaged, AtNode DEF RestInv, Rest
  <2>3. UNCHANGED Damaged => [Lookups!Next]_(Lookups!vars)
    BY <1>1, <1>3, <1>6, <2>2, LookupAnswered DEF Maybe
  <2> QED
    BY <1>1, <1>3, <1>4, <1>6, <2>2, <2>3, LookupTurn
<1> QED
  BY <1>2, <1>3, <1>5, <1>6

LEMMA HopLostRest ==
  ASSUME RestInv, NEW th \in Thread, HopLost(th)
  PROVE  Undisturbed
<1> DEFINE lost == [call[th] EXCEPT !.at = "return", !.res = Nil, !.i = 0]
<1>1. /\ call[th].at \in {"succ", "scan"} /\ Here(th) \in Node /\ ~Up(Here(th))
      /\ call[th] \in Call /\ call \in [Thread -> Call] /\ UNCHANGED <<node, note>>
  BY HereType DEF HopLost, RestInv, Inductive, CallsOK
<1>2. call' = [call EXCEPT ![th] = lost]
  BY <1>1 DEF HopLost
<1>3. lost.at = "return" /\ lost.key = call[th].key /\ lost.res = Nil
  BY <1>1 DEF Call
<1> HIDE DEF lost
<1>4. Damaged /\ ~Rest
  BY <1>1, DownDamaged, AtNode DEF RestInv, Rest
<1>5. UNCHANGED Damaged => [Lookups!Next]_(Lookups!vars)
  BY <1>1, <1>2, <1>3, <1>4, LookupAnswered DEF Maybe
<1> QED
  BY <1>1, <1>2, <1>3, <1>4, <1>5, LookupTurn

LEMMA ReplyRest ==
  ASSUME RestInv, Inductive', NEW th \in Thread, Reply(th)
  PROVE  Undisturbed
<1> DEFINE a == Here(th)
           p == call[th].path
           shorter == [call[th] EXCEPT !.path = SubSeq(p, 1, Len(p) - 1),
                                       !.res = IF Up(a) THEN @ ELSE Nil]
           back == IF Len(p) = 2 /\ ~Up(p[1]) THEN NoCall ELSE shorter
<1>1. /\ call[th].at = "return" /\ a \in Node /\ call[th].key \in Id
      /\ call[th] \in Call /\ call \in [Thread -> Call] /\ p \in Seq(Node)
  BY HereType DEF Reply, RestInv, Inductive, CallsOK
<1>2. /\ shorter.at = "return" /\ shorter.key = call[th].key
      /\ shorter.res = IF Up(a) THEN call[th].res ELSE Nil
  BY <1>1 DEF Call
<1>3. \/ back = NoCall /\ Len(p) = 2 /\ ~Up(p[1])
      \/ back = shorter
  OBVIOUS
<1>4. \/ /\ Up(a) /\ call[th].res = Nil
         /\ node' = [node EXCEPT ![a] = Corpse("segvSuccessor")]
         /\ call' = [CallsWithout(a) EXCEPT ![th] = back]
         /\ note' = NotesWithout(a)
      \/ /\ ~(Up(a) /\ call[th].res = Nil)
         /\ call' = [call EXCEPT ![th] = back]
         /\ UNCHANGED <<node, note>>
  BY DEF Reply
<1> HIDE DEF shorter, back, a
<1>5. CASE /\ Up(a) /\ call[th].res = Nil
           /\ node' = [node EXCEPT ![a] = Corpse("segvSuccessor")]
           /\ call' = [CallsWithout(a) EXCEPT ![th] = back]
           /\ note' = NotesWithout(a)
  <2>1. ASSUME NEW h \in Thread
        PROVE  Fades(call[h], call'[h])
    <3>1. CallsWithout(a) \in [Thread -> {call[g] : g \in Thread} \union {NoCall}]
      BY DEF CallsWithout
    <3>2. call'[h] = IF h = th THEN back ELSE CallsWithout(a)[h]
      BY <1>5, <3>1
    <3>3. CASE h = th
      BY <1>1, <1>2, <1>3, <1>5, <3>2, <3>3 DEF Fades
    <3>4. CASE h # th
      BY <3>2, <3>4, WithoutFades
    <3> QED
      BY <3>3, <3>4
  <2>2. Damaged
    <3>1. Rest => Closest(Node, call[th].key) = Nil
      BY <1>1, <1>5 DEF Rest, RestCalls, RestCall
    <3> QED
      BY <1>1, <3>1, ClosestNode DEF RestInv
  <2>3. "segvSuccessor" \in Segv
    BY DEF Segv
  <2> QED
    BY <1>1, <1>5, <2>1, <2>2, <2>3, DeathOne DEF RestInv
<1>6. CASE /\ ~(Up(a) /\ call[th].res = Nil)
           /\ call' = [call EXCEPT ![th] = back]
           /\ UNCHANGED <<node, note>>
  <2>1. /\ \A m \in Node : /\ node'[m].status = node[m].status
                           /\ node'[m].mpc = node[m].mpc
                           /\ node'[m].ppc = node[m].ppc
        /\ Rest => RestNodes'
    BY <1>6 DEF Rest, RestNodes, RestNode, F
  <2>2. back = NoCall \/ back.at # "idle"
    BY <1>2, <1>3
  <2>3. \A h \in Thread : call'[h] = IF h = th THEN back ELSE call[h]
    BY <1>1, <1>6
  <2>4. CASE Up(a) /\ back = shorter
    <3>1. RestCalls => RestCall(back)
      BY <1>1, <1>2, <2>4 DEF RestCalls, RestCall
    <3>2. UNCHANGED Damaged => UNCHANGED Lookups!vars
      BY <1>1, <1>2, <2>3, <2>4, DirectoryStutters
    <3> QED
      BY <1>1, <1>6, <2>1, <2>2, <3>1, <3>2, LookupTurn DEF Rest
  <2>5. CASE ~(Up(a) /\ back = shorter)
    <3>1. Damaged /\ ~Rest
      <4>1. \E n \in Node : ~Up(n)
        BY <1>1, <1>3, <2>5
      <4> QED
        BY <4>1, DownDamaged, AtNode DEF RestInv, Rest
    <3>2. \A h \in Thread : Fades(call[h], call'[h])
      BY <1>1, <1>2, <1>3, <2>3 DEF Fades
    <3>3. UNCHANGED Damaged => Lookups!Stop
      BY <3>1, <3>2, DirectoryStops DEF RestInv, Inductive
    <3>4. UNCHANGED Damaged => [Lookups!Next]_(Lookups!vars)
      BY <3>3 DEF Lookups!Next
    <3> QED
      BY <1>1, <1>6, <2>1, <2>2, <3>1, <3>4, LookupTurn
  <2> QED
    BY <2>4, <2>5
<1> QED
  BY <1>4, <1>5, <1>6

-----------------------------------------------------------------------------
(* notify at its receiver.                                                 *)

LEMMA NotesTurn ==
  ASSUME RestInv, UNCHANGED <<node, call>>, NEW m \in Node, NEW d,
         note' = [note EXCEPT ![m] = d], note[m].at # "idle",
         d.at = "idle" \/ d.to = note[m].to
  PROVE  Undisturbed
<1>1. \A n \in Node : note'[n] = IF n = m THEN d ELSE note[n]
  BY DEF RestInv, Inductive, NotesOK
<1>2. UNCHANGED Damaged
  BY DEF Damaged
<1>3. SaneNodes' /\ SaneCalls'
  BY DEF RestInv, Sane, SaneNodes, SaneCalls, Up
<1>4. SaneNotes'
  BY <1>1 DEF RestInv, Sane, SaneNotes, Up
<1>5. Rest => Rest'
  BY <1>1 DEF Rest, RestNodes, RestNode, RestCalls, RestCall, RestNotes, F
<1>6. UNCHANGED Lookups!vars
  BY <1>2, DirectoryStutters
<1> QED
  BY <1>2, <1>3, <1>4, <1>5, <1>6 DEF Undisturbed, Sane

LEMMA NotifyRest ==
  ASSUME RestInv, Inductive', NEW m \in Node, Notify(m)
  PROVE  Undisturbed
<1> DEFINE t == note[m].to
<1>1. note \in [Node -> Note] /\ note[m] \in Note /\ node \in [Node -> Process]
  BY DEF RestInv, Inductive, NotesOK, NodesOK
<1>2. note[m].at # "idle" /\ t \in Node /\ Up(t)
  BY DEF Notify, NotifyNull, NotifyBetween, NotifySet, RestInv, Sane, SaneNotes
<1>3. NoNote.at = "idle"
  BY DEF NoNote
<1>4. CASE NotifyNull(m)
  <2>1. PICK pc \in {"set", "between"} : note' = [note EXCEPT ![m].at = pc]
    BY <1>4 DEF NotifyNull
  <2> DEFINE d == [note[m] EXCEPT !.at = pc]
  <2>2. note' = [note EXCEPT ![m] = d] /\ d.to = t /\ UNCHANGED <<node, call>>
    BY <1>1, <1>4, <2>1 DEF Note, NotifyNull
  <2> HIDE DEF d
  <2> QED
    BY <1>2, <2>2, NotesTurn
<1>5. CASE NotifyBetween(m)
  <2>1. CASE node[t].pred = Nil
    <3>1. /\ node' = [node EXCEPT ![t] = Corpse("segvNotify")]
          /\ call' = CallsWithout(t) /\ note' = NotesWithout(t)
      BY <1>5, <2>1 DEF NotifyBetween
    <3>2. \A h \in Thread : Fades(call[h], call'[h])
      BY <3>1, WithoutFades
    <3>3. Damaged /\ "segvNotify" \in Segv
      BY <1>2, <2>1, RingAssumption DEF RestInv, Rest, RestNodes, RestNode, Segv
    <3> HIDE DEF t
    <3> QED
      BY <1>2, <3>1, <3>2, <3>3, DeathOne DEF RestInv
  <2>2. CASE node[t].pred # Nil
    <3> DEFINE d == [note[m] EXCEPT !.at = "set"]
    <3>1. /\ UNCHANGED <<node, call>>
          /\ note' = [note EXCEPT ![m] = d] \/ note' = [note EXCEPT ![m] = NoNote]
      BY <1>5, <2>2 DEF NotifyBetween
    <3>2. d.to = t
      BY <1>1 DEF Note
    <3> HIDE DEF d
    <3> QED
      BY <1>2, <1>3, <3>1, <3>2, NotesTurn
  <2> QED
    BY <2>1, <2>2
<1>6. CASE NotifySet(m)
  <2> DEFINE q == [node[t] EXCEPT !.pred = m]
  <2>1. /\ node' = [node EXCEPT ![t] = q] /\ UNCHANGED call
        /\ note' = [note EXCEPT ![m] = NoNote]
    BY <1>1, <1>6 DEF NotifySet
  <2>2. q.status = "up" /\ q.mpc = node[t].mpc /\ q.ppc = node[t].ppc
    BY <1>1, <1>2 DEF Process, Up
  <2>3. Rest => RestNode(t, q)
    BY <1>1, <1>2 DEF Process, Rest, RestNodes, RestNode, RestNotes
  <2>4. q.mpc \in {"run", "send"}
    BY <1>2, <2>2 DEF RestInv, Sane, SaneNodes
  <2> HIDE DEF q, t
  <2>5. \A n \in Node : Up(n)' <=> Up(n)
    BY <1>2, <2>1, <2>2, <2>4, Turn DEF RestInv
  <2>6. \A n \in Node : note'[n] = IF n = m THEN NoNote ELSE note[n]
    BY <1>1, <2>1
  <2>7. SaneNotes'
    BY <1>3, <2>5, <2>6 DEF RestInv, Sane, SaneNotes
  <2>8. Rest => RestNotes'
    BY <1>3, <2>6 DEF Rest, RestNotes, F
  <2> QED
    BY <1>2, <2>1, <2>2, <2>3, <2>7, <2>8, TurnCallsSame DEF RestInv
<1> QED
  BY <1>4, <1>5, <1>6 DEF Notify

-----------------------------------------------------------------------------
(* The theorems.                                                           *)

LEMMA StepRest ==
  ASSUME Established, RestInv, Inductive', [Next]_vars
  PROVE  Undisturbed
<1>1. ASSUME NEW n \in Node, Main(n)
      PROVE  Undisturbed
  BY <1>1, JoinRest, SendEndRest DEF Main
<1>2. ASSUME NEW n \in Node, Periodic(n)
      PROVE  Undisturbed
  BY <1>2, CheckPredecessorRest, StabilizePingRest, StabilizeGetRest, StabilizeTestRest,
     StabilizeSetRest, StabilizeNotifyRest, FixFingersRest, FixFingersSetRest DEF Periodic
<1>3. ASSUME NEW th \in Thread, Lookup(th)
      PROVE  Undisturbed
  BY <1>3, FindSuccessorRest, ScanRest, HopLostRest, ReplyRest DEF Lookup
<1>4. CASE UNCHANGED vars
  <2>1. UNCHANGED <<node, call, note>>
    BY <1>4 DEF vars
  <2>2. UNCHANGED Damaged
    BY <2>1 DEF Damaged
  <2>3. Sane'
    BY <2>1 DEF RestInv, Sane, SaneNodes, SaneCalls, SaneNotes, Up
  <2>4. Rest => Rest'
    BY <2>1 DEF Rest, RestNodes, RestNode, RestCalls, RestCall, RestNotes, F
  <2>5. UNCHANGED Lookups!vars
    BY <2>1, <2>2, DirectoryStutters
  <2> QED
    BY <2>2, <2>3, <2>4, <2>5 DEF Undisturbed
<1> QED
  BY <1>1, <1>2, <1>3, <1>4, JoinRest, FailRest, SendRest, NotifyRest DEF Next

LEMMA InitRest ==
  ASSUME Established, Init
  PROVE  RestInv /\ Lookups!Init
<1>1. PICK fixed \in [Founders -> SUBSET (1 .. M - 2)], before \in [Founders -> Founders] :
        /\ \A n \in Founders : before[Following(Founders, n)] = n
        /\ node = [n \in Node |-> IF n \in Founders THEN Settle(n, before[n], fixed[n])
                                                   ELSE Off]
  BY DEF Init
<1>2. ASSUME NEW n \in Node
      PROVE  /\ node[n].status = "up" /\ node[n].mpc = "run" /\ node[n].ppc = "sleep"
             /\ node[n].finger[0] = F(n)
             /\ node[n].pred = before[n]
  <2>1. node[n] = Settle(n, before[n], fixed[n])
    BY <1>1 DEF Established
  <2>2. 0 \in Index
    BY MAssumption DEF Index
  <2> QED
    BY <2>1, <2>2 DEF Settle, Off, F, Established
<1>3. ASSUME NEW n \in Node
      PROVE  before[n] \in Node /\ F(before[n]) = n
  <2>1. PICK top \in Id : \A id \in Id : id =< top
    BY IdAssumption
  <2>2. Node \in SUBSET Nat /\ top \in Nat /\ \A s \in Node : s =< top
    BY <2>1, RingAssumption
  <2>3. PICK p \in Node : F(p) = n
    BY <2>2, FollowingSurjective DEF F
  <2>4. before[F(p)] = p
    BY <1>1 DEF Established, F
  <2> QED
    BY <2>3, <2>4
<1>4. /\ call = [th \in Thread |-> NoCall] /\ NoCall.at = "idle" /\ NoCall.key = Nil
      /\ note = [n \in Node |-> NoNote] /\ NoNote.at = "idle"
  BY DEF Init, NoCall, NoNote
<1>5. Sane
  BY <1>2, <1>4 DEF Sane, SaneNodes, SaneCalls, SaneNotes, Up, Thread, Role
<1>6. Rest
  BY <1>2, <1>3, <1>4 DEF Rest, RestNodes, RestNode, RestCalls, RestCall, RestNotes
<1>7. ~Damaged
  BY <1>2 DEF Damaged
<1>8. Question = [th \in Thread |-> Nil] /\ Found = [th \in Thread |-> {}]
  BY <1>4 DEF Question, Found
<1>9. Damaged = FALSE
  BY <1>7
<1> QED
  BY <1>5, <1>6, <1>8, <1>9, InitInductive DEF RestInv, Lookups!Init

(* The invariant holds throughout.                                         *)
THEOREM AlwaysRest ==
  ASSUME Established
  PROVE  Spec => []RestInv
<1>1. RestInv /\ [Next]_vars => RestInv'
  BY StepRest, StepInductive, UndisturbedInv DEF RestInv
<1>2. Init => RestInv
  BY InitRest
<1> QED
  BY <1>1, <1>2, PTL DEF Spec

(* findSuccessor implements the directory: hop by hop, over tables that    *)
(* fixFingers changes meanwhile, the lookups of all threads do what module *)
(* Directory says, and after a process was killed they lose answers but do *)
(* not mix up questions.                                                   *)
THEOREM LookupsImplementDirectory ==
  ASSUME Established
  PROVE  Spec => LookupIsDirectory
<1>1. Init => Lookups!Init
  BY InitRest
<1>2. RestInv /\ [Next]_vars => [Lookups!Next]_(Lookups!vars)
  BY StepRest, StepInductive DEF RestInv, Undisturbed
<1> QED
  BY <1>1, <1>2, AlwaysRest, PTL DEF Spec, LookupIsDirectory, Lookups!Spec
=============================================================================
