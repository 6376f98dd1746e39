# Chord chat client: a TLA+ model

The program is a peer-to-peer chat client built on the Chord ring. Each process
holds one `LocalNode`; a process knows others through `RemoteNode` proxies that
open one TCP connection per call. The interest of the code is in the ring: nodes
join, stabilize and look identifiers up with no coordination but these calls,
from several threads per process, while processes come and go.

Paths and line numbers below are those of `src/src/`.

## 1. Inventory

| Part | State | Operations | Talks to |
|---|---|---|---|
| `ID` (ID.cpp) | 20 chars, most significant first | `+=`, `-=`, `<`, `==`, `isInInterval`, hash of a name | SHA1 |
| `FingerTable` | M = 160 shared pointers to nodes, own ID | `getNode` (entry or next one above), `setNode`, `removeNode`, `start` | ID |
| `LocalNode` | predecessor, finger table, mutex `_m`, two threads, `_stop`, `_serverRunning` | `join`, `stabilize`, `notify`, `fixFingers`, `checkPredecessor`, `findSuccessor`, `closestPrecedingFinger`; `server` and `handleRequest` | RemoteNode (calls out), handler threads (calls in) |
| `RemoteNode` | name, host, port | each method of `INode` as one request; `sendMessage`, `ping` | a handler of the callee |
| `INode` | name, host, port, id | `serialize`, constructor from a serialized node | |
| `ChatClient` | the local node | `run` (prompt), `send`, `receiveMessage` | `findSuccessor`, `receive` |
| `ChordChat` | | `main`: construct, join, run | all of the above |
| `sha1`, `StringTrim`, `Logger` | | hash, trim, log | |
| `UnitTests` | | ID and FingerTable | |
| `lib/` | | vendored asio, spdlog, Catch | |

Threads of a process: the main thread (join, then the chat loop), the
maintenance thread (`periodic`: every ten seconds `checkPredecessor`,
`stabilize`, `fixFingers`), the server thread (accepts connections) and one
detached handler thread for each request. They share the predecessor and the
finger table. `getPredecessor`, `setPredecessor`, `getSuccessor` and
`setSuccessor` each take the mutex; nothing holds it across two of them, and
`closestPrecedingFinger`, `removeNode` and `fixFingers` use the table without it.

What makes each part correct:

- **lookup**: finds the node that follows the key in a ring at rest; never comes
  back to a node it went through; always ends;
- **maintenance**: does not damage a ring at rest; keeps one ordered ring while
  nodes join; replaces a successor only by a closer one; forgets dead nodes for
  good; fills the finger table; every round ends;
- **join**: the node becomes part of the ring;
- **null nodes**: a call that fails yields a null `Node`; nobody may use one;
- **remote calls**: a request is executed at most once and as it was made; every
  call returns, with the answer to that request or with none;
- **life cycle**: one server thread, replaced when it fails; no abort while the
  user chats; nothing is freed under a running thread; quitting ends the process;
- **send**: tells whether the recipient was found;
- **ID**: addition modulo 2^160, a circular order.

The hard behaviours are the ones `hazards` in `PROJECT.json` lists, each at its
line: the joiner's own two threads racing, check-then-act in `notify` and
`checkPredecessor`, values used after a remote call, lookups through tables that
change without a lock, null results of failed calls, lengths and byte arithmetic
with signed chars, threads that start before the node has an owner, a server
thread that is restarted while the node is destroyed.

## 2. Modules

| Module | Models | Content |
|---|---|---|
| `Interval` | `ID::isInInterval` | identifiers as integers; open and half-open clockwise intervals |
| `FingerTable` | `FingerTable`, and the reads of `LocalNode` in it | a table as a function from indexes to nodes or `Nil` |
| `Ring` | `LocalNode`, `ChatClient::send`, `main` | the network; all properties of it |
| `Directory` | abstract | what `findSuccessor` promises: one look into the set of nodes |
| `Rpc` | `RemoteNode`, `handleRequest`, serialization in `INode` | one call after another on several connections |
| `Exchange` | abstract | what a remote call promises |
| `Lifecycle` | constructor, `periodic`, `server`, destructor, `main` | the threads of one process and who owns the node |
| `ByteID` | `ID`, `FingerTable::start` | identifiers as arrays of bytes, `char` signed or not |
| `MCRing`, `MCRpc`, `MCByteID` | | instances for TLC |
| `RingProofs`, `OrderProofs`, `RestProofs`, `LinkProofs`, `JoinProofs` | | theorems about `Ring`: any network; the circular order; a ring at rest; what is left of it after kills; a node that joins |
| `RpcProofs`, `LifecycleProofs`, `ByteIDProofs` | | theorems about `Rpc`, `Lifecycle`, `ByteID` |

`Ring` extends `FingerTable`, which extends `Interval`. The other modules justify
what `Ring` takes for granted:

- `ByteID`: the order of byte arrays is a linear order whose intervals are those
  of `Interval`, whatever the signedness of `char` (run `bytes`, and theorem
  `IntervalsOfRanks` for every length and width), so `Ring` may
  use integers; `Start` is a constant of `Ring`, because what `start(k)` computes
  depends on the platform (section 4);
- `Rpc` implements `Exchange`: a call takes effect at most once, as asked, and
  yields that effect's answer or nothing. This is the contract of `Reach`, the
  remote calls in `Ring`; a call that fails on a live callee is one of its
  `MaxGlitches`;
- `Lifecycle`: while the user chats the process has its maintenance thread, a
  server thread and handlers, as `Ring` has. The time between the failure of a
  server thread and its restart, in which the node is up and cannot be reached,
  is another source of those glitches.

In the other direction `Ring` at rest implements `Directory`, which is what
`ChatClient` relies on.

### State and steps of Ring

`node[n]` is a process: `pred` and `finger` are the fields of `LocalNode`; `ppc`
and `mpc` say where its maintenance and its main thread are; `x` is the local
variable of `stabilize` and `k` the index `fixFingers` picked. `status` says
whether the process is up and, when it is down, why: killed, or ended by a null
dereference, in which handler.

`call[<<n, r>>]` is the `findSuccessor` that thread `r` of `n` waits for. Its
`path` is the chain of nodes it was forwarded through, each with a handler
thread that waits for the next. `note[n]` is the last `notify` sent by `n`, from
when it is sent until its handler at the receiver is done; nobody waits for it.

A step is the longest piece of a thread with one access to shared state: one
critical section of `_m`, or one remote call, whose effect is that of the
critical section its handler runs.

| Code | Actions |
|---|---|
| `main`, constructor | `StartNode` |
| `join` 103-110 | `JoinBegin`, `JoinEnd` |
| `checkPredecessor` 160-170 | `CheckPredecessor`, `ClearPredecessor` |
| `stabilize` 112-132 | `StabilizePing`, `StabilizeGet` (with `RemoteGetPredecessor` and the GET_PREDECESSOR handler), `StabilizeTest`, `StabilizeSet`, `StabilizeNotify` |
| `fixFingers` 144-158 | `FixFingers`, `FixFingersSet` |
| `findSuccessor` 64-84 and the FIND_SUCCESSOR handler | `FindSuccessor`, `Scan` (with `Forward`), `Reply`, `HopLost` |
| `notify` 134-142 and the NOTIFY handler | `NotifyNull`, `NotifyBetween`, `NotifySet` |
| `ChatClient::send` | `Send`, `SendEnd` |
| death of a process | `Fail` |

Points where the correspondence needs a word:

- *Reading the successor and calling it* are one step in `StabilizePing`,
  `StabilizeGet` and `StabilizeNotify`. Only `join` can store another successor
  between the two, and before it does the table of a joiner holds nothing but the
  node itself, so that the call is a local one and touches nothing the new
  successor would.
- `getSuccessor` has an effect: it stores the node itself in an empty table.
  Every step that calls it has that effect (`withSuccessor`).
- `removeNode` compares pointers. Two entries for the same node may hold
  different objects, so it clears the entry the pointer was read from and any
  subset of the others that name that node.
- `getNode` reads one entry past the end when all entries are null
  (`_entries[index]` is tested before `index < M`); the value read has no
  influence on the result, `Nil`.
- The scan of `closestPrecedingFinger` holds no lock, so it is one step per entry
  (`Scan`), and every entry is read when its turn comes. `getNode` reads an entry
  twice, to test it and to return it; when another thread is about to empty the
  entry (`Doomed`: `removeNode`, or a `setNode` of null after a failed lookup), it
  may return null, and the scan goes on to the next index. With glitches the model
  lets an entry be skipped before a ping that then succeeds, which the code cannot;
  the skip only makes a lookup take another finger, and none of the violations in
  section 4 uses it. `getSuccessor` does take
  the mutex, but `removeNode` and the `setNode` of `fixFingers` do not: when one of
  them empties the first entry while a lookup is in `getSuccessor`, the four reads
  that `getSuccessor` makes may disagree (`Torn`). `Write` has the outcomes: the
  node becomes its own successor, or a null one is dereferenced. The same race
  with another thread's `getSuccessor` in `stabilize` does not arise: the writers
  are in that same thread. That a `shared_ptr` may itself be corrupted by a copy
  racing with an assignment is not modelled.
- A request either takes effect or fails (`Reach`). It fails when the callee is
  down and may fail, at most `MaxGlitches` times, when it is up. A callee may
  die while it serves a lookup (`HopLost`, `Reply`). `notify` may fail or be
  delayed; each sender has at most one under way.
- `StartNode` takes the node to join through from the command line: one that is up,
  whether it has joined itself or not, or with `LiveContact` FALSE any node,
  running or not. Nobody starts a process and names itself as contact.
- A process whose command line cannot be parsed never starts; its identifiers and
  addresses are given. A killed process is not started again under its name.
- A process whose thread dereferences null ends (the build has no handler for
  it).
- `RECEIVE` prints at the recipient and changes nothing in the ring (it is in
  `Rpc`); the requests that nothing in the program sends are left out of `Ring`
  too (FIND_PREDECESSOR, CLOSEST_PRECEDING_FINGER, GET_SUCCESSOR, SET_*, GET_ID).
- `Init` is either nothing started (`Founders = {}`), or the founders in a ring
  that has stabilized, with any of the fingers that `fixFingers` looks after
  filled in already.
- `Timely` restricts the maintenance thread to wake up only after its node's
  join and its last notify are done, which is the case where remote calls take
  less than `TIME_PERIOD`. The first round, which the constructor starts, is
  never restricted. Runs about failures and about lost joins do not assume it.

### State and steps of Rpc

`conn[c]` is one call with both its ends: `pc` is where the caller is in
`sendMessage`, `at` where the connection and its handler are, `sent`, `reply` and
`wire` what is on the way, `ran` the request as it was executed, `got` what the
caller has made of the reply. Of the data only lengths are kept. A node is the
lengths of its three parts; `char` is the conversion of a length to a char and
back to an int, `serialize` and `INode` the two directions of the serialization,
`header` and `wanted` those of the framing.

| Code | Actions |
|---|---|
| `sendMessage` 149-191 | `Begin`, `Connect`, `ConnectFails`, `Write`, `ReadReply` |
| `server` 283-289 | `Accept` |
| `handleRequest` 299-463 | `HandlerRead`, `HandlerRun`, `HandlerRespond` |
| faults | `Kill`, `Break`, `ConnectFails` |

A negative length becomes a huge `size_t`, and `asio::read` then waits until the
array of `MAX_DATA_LENGTH` bytes is full or the connection is closed. A caller
that waits for an answer sends no more bytes, so one with a long request would
wait for ever; the requests with an answer carry an identifier of 20 bytes or
nothing, and those with long payloads do not wait. This is what `CallsReturn`
depends on. `GET_ID` and the codes "not implemented" are sent by nobody. What the
handler does to the ring is in `Ring`; here it yields some node. When a connection
breaks, a handler that has read its request does not notice: it executes it, and its
response is lost (`Break`).

### State and steps of Lifecycle

`main`, `periodic`, `server[k]` and `handler[h]` are where the threads are;
`owners` the holders of a `shared_ptr` to the node: the variable of `main`, the
`ChatClient`, the node's own finger table or predecessor (a node alone is its own
successor, so it owns itself and is never destroyed), and temporaries of the
threads. Who drops the last one runs the destructor (`destructor`).

| Code | Actions |
|---|---|
| `init` 37-48, `new LocalNode` | `InitPeriodic`, `InitServer`, `AssignServer`, `Own` |
| `main`, `ChatClient` | `Chat`, `Refused`, `Quit`, `Unwind`, `Exit` |
| `~LocalNode` 19-35 | `JoinPeriodic`, `JoinServer` |
| `periodic` 226-262 | `PeriodicTop`, `Stabilize`, `Notified`, `FixFingers`, `Fixed`, `CheckServer`, `JoinOld`, `RestartServer`, `Wake` |
| `server` 264-297 | `ServerBegin`, `ServerLoop`, `Accept`, `AcceptFails`, `ServerEnd`, `ServerReturn` |
| `handleRequest` | `HandlerHold`, `HandlerRelease`, `HandlerEnd`, `HandlerAfterFree` |

`thisPtr()` throws when there is no owner. In the maintenance thread nothing
catches that, and the process ends: before the constructor's result is stored in a
`shared_ptr`, and in a round that is still under way when the node is destroyed.
A handler catches it. A maintenance thread that drops the last pointer joins itself
in the destructor, which ends the process too. A handler that outlives the node
uses freed memory (`HandlerAfterFree`). All of these happen only while the process
starts or after the user has quit; that is `ChatUndisturbed`.

## 3. Runs that pass

| Run | Instance | Properties |
|---|---|---|
| `ring_fail` | nodes 0, 1, 4 of 8 in a ring, one kill | `LookupAdvances`, `CrashNeedsFailure`, `LinksLast`, `NullNeedsDead`, `LookupIsDirectory` |
| `pair_churn` | node 1 joins node 0, which may be dead already; one kill, one failed call; fair | `LookupsEnd`, `RoundsEnd`, `DeadForgotten` |
| `pair_join` | nodes 0 and 1 from nothing, chat, one kill, timely; fair | `TypeOK`, `Converges` |
| `join_ring` | node 1 joins the ring of 0 and 4, timely | `OneRing`, `OrderedRing`, `NobodyCrashes`, `SuccessorImproves` |
| `pair_fingers` | nodes 0 and 3 of 16 in a ring; fair, fair `rand()` | `FingersConverge` |
| `bytes` | three bytes of two bits, signed and unsigned | `SumIsModular`, `StartOnUnsigned`, `IntervalOfRanks` |
| `life` | three handlers, four server threads; `AskedSpec` | `TypeOK`, `OneServer`, `FreedUnused`, `ChatUndisturbed`, `ServerReturns`, `QuitEnds` |
| `rpc` | two calls, signed char, lengths around 127, one fault, the callee may end; fair | `TypeOK`, `FramedParses`, `CallIsExchange`, `CallsReturn`, `ShortArrives` |

`LookupIsDirectory` and `CallIsExchange` are refinements: the module `Directory`
(resp. `Exchange`) is instantiated with a mapping from the state of `Ring` (`Rpc`)
and its specification is the property. `LinksLast` and `NullNeedsDead` speak of the
time after a kill too: what dies takes its neighbours' links and the lookups that
lead past it, and nothing else. `OrderedRing` is stated with the order of the
integers alone: of the nodes on a cycle exactly one has a successor that is not
greater than itself. For `Directory`, a question is the key of a
call and its answer the result, from the moment the last node of the chain has it.

Why the bounds are enough for the questions asked:

- three nodes are the fewest for which a lookup has a hop, a successor differs
  from a predecessor, and a newcomer has two neighbours that are not the same;
  the identifiers 0, 1, 4 of eight put an immediate neighbour, a gap and a
  wrap-around in the ring. Every node starts a lookup from `fixFingers` at any
  time, so lookups, maintenance and notifies of all three overlap;
- two nodes suffice where the question is about one relation (a caller and a
  callee, a joiner and its contact): `pair_join` lets everything start from nothing
  with a kill, `pair_churn` adds a failed call, a contact that is not running and
  calls slower than the maintenance period. Fairness conditions make larger
  instances too slow. That a node may join through one that is itself still joining
  needs three nodes and is covered by the theorems of `RingProofs`;
- M = 3 is the least table `fixFingers` works with; M = 4 in `pair_fingers` gives
  it two entries to choose from, one of them not refreshed by chance;
- `life`: two server threads may fail one after the other (`CanFail`), and one
  more that ends because of `_stop` may be restarted by the round under way, so
  `MaxServers` = 4 is never what stops the model. Three handlers let one hold the
  node, one run without it and one arrive;
- `rpc`: `MCPeer` has the longest node whose request still fits in a signed char
  (its message is 127 bytes) and one whose name alone does not; chat messages of
  127 and 128 bytes lie on both sides of the limit. Two calls show that calls do
  not disturb one another. `LengthBound` keeps messages below 255 bytes: from there
  on the length wraps round to that of a shorter one. `MaxFaults` bounds the
  connections that fail or break;
- three bytes let a carry run through a byte and into the next; two bits let a
  byte have a sign and a magnitude. The number of sums is finite, so the run
  covers every sequence of additions.

Deadlock is checked in `join_ring`, `pair_fingers`, `bytes` and `rpc`. In the others
every process may be down, or has ended, after which nothing happens.

**Fairness.** The operating system schedules every thread: weak fairness for the
main thread of each process together with the lookup it waits for, for the
maintenance thread likewise, and for each notify handler. Nothing obliges a user
to start, kill or use a process. `RandSpec` adds that `rand()` returns each
index it can return again and again (strong fairness for each choice), which is
what `fixFingers` relies on.

In `Rpc` it is weak fairness of the caller and of the handler of each call, in
`Lifecycle` of each thread; neither a fault, nor a request, nor the user's quitting
is forced. `AskedSpec` adds that a server thread in `accept` gets a connection
again and again. A node with a neighbour does: its predecessor stabilizes and its
successor pings it every `TIME_PERIOD`. When the users of two neighbours quit within
one such period neither is called again, which is the difference between the runs
`life` and `quit`. (A node alone owns itself through its table, is not destroyed and
ends with `main`.)

`Converges` allows for two exceptions, both real. A process may crash
(`null_predecessor`), and `notify` tests and assigns in two critical sections: a
notify of the creator to itself that passed its test before the joiner's arrived
may be assigned after it. A fair and timely schedule can repeat this for ever
(`NotifyRace`), so convergence is claimed when the race happens finitely often.

## 4. Runs that find a violation

Each states what a comment, a doc or a test says, and TLC finds a run of the
code that does otherwise.

| Run | Statement | What happens |
|---|---|---|
| `lost_join` | "Join an existing network through the given Node." (INode.h:100) | the join takes longer than `TIME_PERIOD`; the node has notified itself in its first round, and stabilize, in a later one, has decided to make it its own successor; join stores the one it found; stabilize overwrites it |
| `null_predecessor` | "The reply message, or an empty string if none" (RemoteNode.h:57) | a node without a predecessor is asked for it and dereferences null |
| `bytes_start` | "((n + 2**i) % 2**M)" (FingerTable.h:43) | with signed chars the sign extension enters the carry |
| `quit` | "Signal for the threads to signal they should exit" (LocalNode.h:72) | the server thread stays in `accept`, the destructor waits for it, the process does not end |

Seen while modelling, without a run of their own, because one line shows them:

- `rand() % (M - 2) + 1` is at most M - 2, where the comment above it says "from 1
  to M - 1" (LocalNode.cpp:149): the last finger stays null;
- `send` dereferences the null result of a lookup that failed (ChatClient.cpp:109),
  where ChatClient.h:47 says "false if recipient not found";
- `ping` rethrows by `throw e`, which slices the exception; it is caught all the
  same, as `std::exception`;
- `run` ignores the end of its input: `getline` fails for ever and the loop spins.

## 5. Theorems

**RingProofs**, for every finite or infinite set of nodes, every M > 2, every
`Start` and every bound on failures:

- `TypeCorrect`: `Spec => []TypeOK`;
- `LookupsAdvance`: `Spec => []LookupAdvances`. A lookup passes through pairwise
  different nodes, each strictly between every earlier one and the key, whatever
  the finger tables hold and however they change while it is under way, entry by
  entry, and through joins, kills, failed calls and torn reads. This is why lookups
  do not circle and why the handlers that wait for one another cannot form a cycle.

*Assumptions*: `MAssumption` (M is a natural number above 2) and
`RingAssumption` (identifiers are natural numbers, `Nil` is none, the constants
have their types). TLC evaluates both in every run of `MCRing`.

*Argument.* `LookupAdvances` alone is not inductive: from p to a and from a to f,
both towards the key, follows p to f only if a is not the key itself, because
`isInInterval` with equal ends holds for everything. So the invariant `Inductive`
adds to the types, for each call, that the path is not empty, that the key is an
identifier, and that a call in its scan is at a node other than the key
(`findSuccessor` returns at once when it is at the key). `IntervalTransitive` is
the geometric fact; the proof for `Scan` combines it with the test `precedes`. The
initial ring needs that `Closest` exists (`ClosestExists`, by well-foundedness of
the naturals). Then there is one lemma per action, `StepInductive` collects them,
and the theorems follow.

**RpcProofs**, for every set of calls, signed or unsigned `char`, every set of nodes
and of message lengths within `LengthBound`, every bound on faults:

- `TypeCorrect`: `Spec => []TypeOK`;
- `FramedAlwaysParses`: `Spec => []FramedParses`;
- `CallRefines`: `Spec => CallIsExchange`, the refinement of `Exchange`.

*Assumptions*: `RpcAssumption`, `LengthBound`.

*Argument.* The arithmetic comes first: a header that is not negative is the
length itself, and if a whole node fits, its parts do, so they are parsed back.
The inductive invariant `Good` says for each call how its fields depend on where
the two ends are: nothing is executed before it is sent and read in full, what ran
is the request, what is on the wire is the length of the reply, what the caller got
is the reply. Without it a step of `HandlerRun` could not be shown to execute what
was asked, nor `ReadReply` to return what was answered. Every action then maps to
`Ask`, `Execute`, `Return` or a stutter.

**RestProofs**, about a network that has stabilized: all nodes are founders and no
call fails on a live callee (`Established == Founders = Node /\ MaxGlitches = 0`).
The number of nodes, M, `Start`, and the number of kills are arbitrary.

- `LookupsImplementDirectory`: `Spec => LookupIsDirectory`, the refinement of
  `Directory`.

*Hypotheses.* Run `ring_fail` is an instance. Kills are part of the specification,
because the refinement goes on after one: answers may then be lost or wrong, as
`Directory` allows, but stay attached to their questions. A failed call on a live
callee would have the effect of a kill (the caller drops its successor or
predecessor), which is why it is excluded. Beside `MAssumption` and
`RingAssumption` there is `IdAssumption`: there is a largest identifier, as there is
with 160 bits. Without it the node before the first one might not exist.

*Argument.* `OrderProofs` has the geometry: the node that follows n in a set is
unique, different nodes are followed by different ones, and every node follows one
(`FollowingIs`, `FollowingInjective`, `FollowingSurjective`); the half-open test of
`findSuccessor` between a node and the one that follows it singles out the owner of
a key (`HalfOpenClosest`). That every node has the next one as successor is not
inductive alone. `RestInv` adds what is under way: a `stabilize` that has read its
successor's predecessor read the node itself, a notify that has not arrived is
addressed to the node that follows the sender, an answer that is on its way back is
the owner of the key, and a thread that waits has the call it waits for (`Sane`,
which survives kills and is what the refinement needs after one). It is a
disjunction, `Damaged \/ Rest`: one lemma per action shows `Rest` preserved or the
network damaged. Only the first entry of a table matters to the answer; the others
may hold anything `fixFingers` ever stores, which is why `Start` is arbitrary.

**LinkProofs**, under the same hypotheses, about what is left of such a network
after any number of kills and of crashes in consequence:

- `NeighboursStayLinked`: `Spec => []LinksLast`;
- `CrashesNeedFailure`: `Spec => []CrashNeedsFailure`;
- `NullsNeedDead`: `Spec => []NullNeedsDead`.

*Argument.* Links are local and the dead stay dead. `LinkInv` says for every process
that is up what its links are *as long as* the node before it, or after it, is up:
its first finger, the answer `stabilize` got, its predecessor, and that it is not
about to clear it; for every notify that has passed its test, that it is from the
node before the receiver, if that is up; for every crashed process, which neighbour
was dead (`Links`). These hypotheses only ever become false (`Shrinks`), so a step
has to be considered only at the process that takes it (`LinkStep`). What is not in
`LinkInv`, because it does not depend on who is dead, is taken from `RestInv`
(`Sane`) and from `Inductive` of `RingProofs`. A null answer (`Nulls`) arises at a
finger that cannot be reached, which the scan has found between the node and the key,
or at a hop that died; a node that is to send one back dies of it and is then
itself the dead one. By `LookupAdvances` each of these lies between the node that
waits for it and the key (`BackToward`).

**JoinProofs**, about one node that joins a ring of two nodes or more
(`OneNewcomer`: all nodes but one are founders, there are at least two, nobody is
killed, no call fails on a live callee, calls are timely):

- `JoinCrashesNobody`: `Spec => []NobodyCrashes`;
- `JoinImproves`: `Spec => SuccessorImproves`, an action property;
- `JoinKeepsOneRing`: `Spec => []OneRing`;
- `JoinKeepsOrder`: `Spec => []OrderedRing`.

*Hypotheses.* Run `join_ring` is an instance; the founders may be any number, with
any fingers, chat messages may be sent meanwhile, and the newcomer may join through
any of them. The hypotheses are not for convenience: without `Timely` a join can be
lost (run `lost_join`), and a node that starts alone, as the creator of a network
does, can be asked for a predecessor it does not have (run `null_predecessor`).

*Argument.* Let J be the newcomer, Before and After the founders it comes between.
Every pointer of a founder but these two stays as it was. `JoinInv` says in which
order the others change: J's successor is J until its lookup ends and After from
then on; After takes J as predecessor only from J's notify; only then can Before's
`stabilize` learn of J, and only after that does Before notify J. So Before's
successor is After or J, and it is J only when After's predecessor is (`Links`); the
local variable of `stabilize`, every table entry, every hop and answer of a lookup,
and every notify under way is a node that is up, and is the old or the new
neighbour (`NodesPlaced`, `TablesLive`, `CallsPlaced`, `NotesPlaced`).
None of the four properties is inductive without these: a stale predecessor read
before, or a notify sent before, could undo the progress. The invariant was checked
with TLC on the instance of `join_ring` before it was proved.
For the shape of the ring, a non-empty set that is closed under "the next node" is
everything (`ClosedWhole`: were m outside it, the element of the set that m comes
right after would have a next node, in the set, that is not closer than m). So the
cycle is the founders until Before learns of J and all nodes after that, every set
the pointers do not leave contains it (`TheCycle`), and its order is that of
`Following`: two nodes whose next is not greater would both be the greatest.

**LifecycleProofs**, for every set of handlers and every bound on server threads:

- `AlwaysOneServer`: `Spec => []OneServer`;
- `AlwaysFreedUnused`: `Spec => []FreedUnused`;
- `AlwaysChatUndisturbed`: `Spec => []ChatUndisturbed`;
- `TypeCorrect`: `Spec => []TypeOK`.

*Assumption*: `LifecycleAssumption`.

*Argument.* None is inductive. The invariant `Inv` has four parts beside the
types: until `main` owns the node the maintenance thread cannot get past its first
`thisPtr()`, so it restarts no server thread that `init` has not stored yet
(`Constructing`); after that the thread that is alive is `_serverThread`, and none
is while a restart is under way (`Serving`); who holds a pointer is an owner
(`Holding`), so the destructor starts once and without holders; it joins the
maintenance thread first, after which nobody starts a server thread, and then the
only one there is (`Destroying`). That the code is right in this depends on the
exception of the first `thisPtr()` ending the process: a maintenance thread that
survived it could start a second server thread. `ChatUndisturbed` follows because
`main` is an owner as long as it joins or chats, so that no other thread drops the
last pointer and no `thisPtr()` throws; the type of `destructor`, never the
maintenance thread, because that thread aborts the process when it drops the last
pointer.

**ByteIDProofs**, for identifiers of every length and bytes of every width:

- `SumsAreModular`: `Spec => []SumIsModular`;
- `StartsAsDocumented`: `Spec => []StartOnUnsigned`;
- `IntervalsOfRanks`: `Spec => []IntervalOfRanks`.

*Assumptions*: `ByteAssumption`, `BoundsAssumption` and `PowerAssumption`. The last
is the law 2^(m+n) = 2^m * 2^n with 2^m positive, for exponents up to the number of
bits: the provers know nothing of exponentiation.

*Argument.* `Value` and `plus` are recursive functions. `Induction` states induction
over 0..n for a set of numbers in place of a predicate, so that it can be
instantiated; with it the functions are shown to exist (`PrefixesExist`,
`SumsExist`) and so to obey their recursive rules (`ValueRule`, `PlusRule`).
The sum: in each column, bytes and carry in are Base times the carry out plus the
byte stored (`CarryAndRest`, here `char` is unsigned), hence the first i bytes of the
two summands and the carry into them are those of the result plus Base^i times the
carry lost at the front (`PlusIsSum`); the result is below the modulus
(`ValueBelow`). `start`: the one bit that `bit(k)` sets stands for 2^k
(`BitIsPower`). The order: the first byte that differs decides between the numbers
too (`FirstByteDecides`), and different arrays have a first difference; a signed
`char` is shifted by half the range, which keeps the order.

*Only model-checked*: the liveness properties (`LookupsEnd`, `RoundsEnd`,
`DeadForgotten`, `Converges`, `FingersConverge`, `ServerReturns`, `QuitEnds`,
`CallsReturn`, `ShortArrives`), which need fairness and `ENABLED` and are out of
reach of the prover. Every safety property of the runs has a theorem.

## 6. Plan

Done: all the modules of section 2.

Next theorems: `DeadForgotten` rests on a safety fact, that a process which is down
and in nobody's table, call or notify stays so, which is worth a theorem of its own;
wider hypotheses for `JoinProofs` (a sequence of joins, each after the one before has
settled). Larger instances of joins: with two joiners at once a node can already be
asked for a predecessor it lacks.

**Not modelled**:

- the vendored libraries under `lib/` (asio, spdlog, Catch): 98% of the lines of
  the repository and no part of the program's own logic, so that the share of all
  lines a model of this program can cover is small by its nature. Of the program
  itself, some 2,000 lines under `src/src/`, what is left out is the following;
- SHA1: identifiers are given and different;
- logging, trimming, formatting, parsing of the command line and of chat lines;
- `ID::operator-=`, which only the unit tests call (its carry runs from the most
  significant byte towards the least, which their one-byte operands do not show);
- messages of 255 bytes and more, whose length wraps round;
- corruption of a `shared_ptr` by a data race; a process that is started again
  under the name of a killed one; exhaustion of threads or memory.

## 7. Running

    tlc -workers 2 -config ring_fail.cfg MCRing
    tlc -workers 2 -config life.cfg Lifecycle
    tlc -workers 2 -config rpc.cfg MCRpc
    tlapm RingProofs.tla
    tlapm JoinProofs.tla
