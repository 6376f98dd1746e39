----------------------------- MODULE Directory -----------------------------
(***************************************************************************)
(* What findSuccessor promises its callers: a directory that everybody     *)
(* asks at once.  As long as no process of the network was killed a        *)
(* question gets one answer, the member closest to the identifier asked    *)
(* for, and the asker takes that very answer.  Afterwards the answer may   *)
(* be another node or null, may get lost on its way (null), and the asker  *)
(* may vanish; the question is still the one that was asked.               *)
(***************************************************************************)
EXTENDS Interval

CONSTANTS
  Asker,    \* the threads that look up identifiers
  Member,   \* the nodes of the network
  Key,      \* the identifiers they may look up
  None      \* no question, or the null pointer as an answer

VARIABLES
  question,  \* question[a]: the identifier a looks up
  answer,    \* answer[a]: what was found, as a set of at most one element
  damaged    \* was a process killed?

vars == <<question, answer, damaged>>

Init ==
  /\ question = [a \in Asker |-> None]
  /\ answer = [a \in Asker |-> {}]
  /\ damaged = FALSE

Ask(a) ==
  /\ question[a] = None
  /\ \E key \in Key : question' = [question EXCEPT ![a] = key]
  /\ UNCHANGED <<answer, damaged>>

Answer(a) ==
  /\ question[a] # None /\ answer[a] = {}
  /\ \E m \in Member \union {None} :
       /\ damaged \/ m = Closest(Member, question[a])
       /\ answer' = [answer EXCEPT ![a] = {m}]
  /\ UNCHANGED <<question, damaged>>

Take(a) ==
  /\ answer[a] # {}
  /\ question' = [question EXCEPT ![a] = None]
  /\ answer' = [answer EXCEPT ![a] = {}]
  /\ UNCHANGED damaged

(* A process stops, killed if it is the first: a lookup may be answered by *)
(* null, as it went through that process, or be forgotten, as it was its   *)
(* own.                                                                    *)
Stop ==
  /\ question' \in [Asker -> Key \union {None}]
  /\ answer' \in [Asker -> SUBSET (Member \union {None})]
  /\ \A a \in Asker :
       \/ question'[a] = question[a] /\ answer'[a] = answer[a]
       \/ question'[a] = question[a] /\ question[a] # None /\ answer'[a] = {None}
       \/ question'[a] = None /\ answer'[a] = {}
  /\ damaged' = TRUE

Next == Stop \/ \E a \in Asker : Ask(a) \/ Answer(a) \/ Take(a)

Spec == Init /\ [][Next]_vars
=============================================================================
