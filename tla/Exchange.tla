------------------------------ MODULE Exchange ------------------------------
(***************************************************************************)
(* What a remote call promises, and what module Ring assumes of it: the    *)
(* request that was made is executed at the callee at most once, before or *)
(* after the call returns, or never; the call returns once, with the       *)
(* result of that execution or with nothing.                               *)
(***************************************************************************)
CONSTANTS
  Call,     \* calls that may be under way at the same time
  Request,  \* what may be asked
  Result    \* what an execution may result in

VARIABLES
  waiting,   \* waiting[c]: is the caller still in the call?
  asked,     \* asked[c]: the request made, as a set of at most one element
  executed,  \* executed[c]: the request as the callee executed it, if it did
  result,    \* result[c]: what the execution gave, if it gave something
  returned   \* returned[c]: what the caller got, if it got something

vars == <<waiting, asked, executed, result, returned>>

Init ==
  /\ waiting = [c \in Call |-> FALSE]
  /\ asked = [c \in Call |-> {}]
  /\ executed = [c \in Call |-> {}]
  /\ result = [c \in Call |-> {}]
  /\ returned = [c \in Call |-> {}]

Ask(c) ==
  /\ ~waiting[c]
  /\ waiting' = [waiting EXCEPT ![c] = TRUE]
  /\ \E r \in Request : asked' = [asked EXCEPT ![c] = {r}]
  /\ executed' = [executed EXCEPT ![c] = {}]
  /\ result' = [result EXCEPT ![c] = {}]
  /\ returned' = [returned EXCEPT ![c] = {}]

Execute(c) ==
  /\ asked[c] # {} /\ executed[c] = {}
  /\ executed' = [executed EXCEPT ![c] = asked[c]]
  /\ \E v \in {{}} \union {{x} : x \in Result} : result' = [result EXCEPT ![c] = v]
  /\ UNCHANGED <<waiting, asked, returned>>

Return(c) ==
  /\ waiting[c]
  /\ waiting' = [waiting EXCEPT ![c] = FALSE]
  /\ \E v \in {{}, result[c]} : returned' = [returned EXCEPT ![c] = v]
  /\ UNCHANGED <<asked, executed, result>>

Next == \E c \in Call : Ask(c) \/ Execute(c) \/ Return(c)

Spec == Init /\ [][Next]_vars
=============================================================================
