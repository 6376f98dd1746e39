-------------------------------- MODULE Rpc --------------------------------
(***************************************************************************)
(* Remote calls: a thread of another process in a method of RemoteNode     *)
(* (createMessage, sendMessage), the connection, and the detached thread   *)
(* that handles it at the callee (LocalNode::handleRequest); and the       *)
(* serialization of the nodes that are sent (INode).                       *)
(*                                                                         *)
(* Of what is sent only the kind of request and the numbers of bytes are   *)
(* kept; a node is known by the lengths of its name, its host and its      *)
(* port.  Lengths travel in one char each.                                 *)
(***************************************************************************)
EXTENDS Integers

CONSTANTS
  Conn,      \* calls that may be under way at the same time
  Signed,    \* is char signed?
  IdLen,     \* ID_LEN
  Peer,      \* nodes: the lengths of name, host and port
  TextLen,   \* lengths of chat messages
  MaxFaults  \* bound on the connections that fail or break

ASSUME RpcAssumption == Signed \in BOOLEAN /\ MaxFaults \in Nat

(* A bound of the model, not of the code: from 255 bytes on the length of  *)
(* a message wraps around to that of a shorter one, and the callee acts on *)
(* its first bytes.                                                        *)
ASSUME LengthBound ==
  /\ IdLen \in 1 .. 126
  /\ TextLen \subseteq 1 .. 254
  /\ Peer \subseteq [name : 1 .. 254, host : 1 .. 254, port : 1 .. 10]
  /\ \A n \in Peer : 3 + n.name + n.host + n.port < 255

VARIABLES
  up,     \* is the process that is called running?
  conn,   \* conn[c]: the state of call c, at both ends
  faults  \* connections that failed or broke so far

vars == <<up, conn, faults>>

-----------------------------------------------------------------------------
(* Serialization.                                                          *)

(* A number of bytes, as it arrives in a char.                             *)
char(n) == LET b == n % 256 IN IF Signed /\ b > 127 THEN b - 256 ELSE b

(* Mutant of serialize: the host gets the length of the name.              *)
serializeName(n) == [name |-> char(n.name), host |-> char(n.name), port |-> char(n.port)]

(* serialize: each part follows a char with its length.                    *)
serialize(n) == [name |-> char(n.name), host |-> char(n.host), port |-> char(n.port)]

(* The number of bytes of serialize.                                       *)
length(n) == 3 + n.name + n.host + n.port

(* The constructor from a serialization takes as many bytes as each length *)
(* says; std::string throws when that is a negative int.                   *)
INode(s) == {m \in {s} : m.name >= 0 /\ m.host >= 0 /\ m.port >= 0}

(* What becomes of node n on its way.                                      *)
Parsed(n) == INode(serialize(n))

-----------------------------------------------------------------------------
(* Requests.                                                               *)

Lookup == {"FIND_PREDECESSOR", "FIND_SUCCESSOR", "CLOSEST_PRECEDING_FINGER"}

Getter == {"GET_PREDECESSOR", "GET_SUCCESSOR"}

Setter == {"NOTIFY", "SET_PREDECESSOR", "SET_SUCCESSOR"}

Code == Lookup \union Getter \union Setter \union {"RECEIVE", "PING"}

(* A code, the length of the payload, and the node in it if there is one.  *)
Request ==
  [code : Lookup, len : {IdLen}, node : {{}}]
    \union [code : Getter \union {"PING"}, len : {0}, node : {{}}]
    \union [code : {"RECEIVE"}, len : TextLen, node : {{}}]
    \union {[code |-> k, len |-> length(n), node |-> {n}] : k \in Setter, n \in Peer}

(* The methods that pass responseExpected to sendMessage.                  *)
Expected(r) == r.code \in Lookup \union Getter

(* Mutants of header: the byte of the code is forgotten, is counted twice. *)
headerShort(r) == char(r.len)

headerLong(r) == char(2 + r.len)

(* createMessage: the first byte, the length of the rest.                  *)
header(r) == char(1 + r.len)

MAX_DATA_LENGTH == 1024

(* The bytes asio::read waits for, given an array of MAX_DATA_LENGTH and   *)
(* the length as an int: a negative one is a huge size_t.                  *)
wanted(h) == IF h < 0 THEN MAX_DATA_LENGTH ELSE h

(* What the handler takes the request for after that many bytes of it.     *)
Received(r) ==
  LET w == wanted(header(r))
  IN  IF w = 0 THEN [code |-> "FIND_PREDECESSOR", len |-> 0, node |-> {}]
      ELSE [code |-> r.code, len |-> w - 1, node |-> UNION {Parsed(n) : n \in r.node}]

-----------------------------------------------------------------------------
(* pc: the caller connects, writes, waits for the reply, is done; at: the  *)
(* connection waits to be accepted, its handler reads, executes, responds; *)
(* reply: what the handler is to send; wire: the header it sent it with.   *)
State ==
  [pc : {"over", "connect", "write", "wait"},
   at : {"none", "backlog", "read", "run", "respond", "closed"},
   req : SUBSET Request, sent : BOOLEAN,
   ran : SUBSET [code : Code, len : Nat, node : SUBSET Peer],
   reply : SUBSET Peer, wire : SUBSET Nat, got : SUBSET Peer]

Unused == [pc |-> "over", at |-> "none", req |-> {}, sent |-> FALSE, ran |-> {},
           reply |-> {}, wire |-> {}, got |-> {}]

(* The request of call c.                                                  *)
Req(c) == CHOOSE r \in conn[c].req : TRUE

Init ==
  /\ up = TRUE /\ faults = 0
  /\ conn = [c \in Conn |-> Unused]

Set(c, s) == conn' = [conn EXCEPT ![c] = s] /\ UNCHANGED <<up, faults>>

-----------------------------------------------------------------------------
(* The caller.                                                             *)

(* A method of RemoteNode is called.                                       *)
Begin(c) ==
  /\ conn[c].pc = "over" /\ conn[c].at \in {"none", "closed"}
  /\ \E r \in Request : Set(c, [Unused EXCEPT !.pc = "connect", !.req = {r}])

(* resolve and connect; they throw when nobody listens.                    *)
Connect(c) ==
  /\ conn[c].pc = "connect"
  /\ IF up THEN Set(c, [conn[c] EXCEPT !.pc = "write", !.at = "backlog"])
           ELSE Set(c, [conn[c] EXCEPT !.pc = "over"])

(* They may throw although the process runs: its server thread has failed  *)
(* and was not restarted yet, or the network is at fault.                  *)
ConnectFails(c) ==
  /\ conn[c].pc = "connect" /\ faults < MaxFaults
  /\ conn' = [conn EXCEPT ![c].pc = "over"]
  /\ faults' = faults + 1
  /\ UNCHANGED up

(* write; it may throw when the other end is closed.  A caller that does   *)
(* not expect a response closes the connection at once.                    *)
Write(c) ==
  /\ conn[c].pc = "write"
  /\ \/ Set(c, [conn[c] EXCEPT !.sent = TRUE,
                               !.pc = IF Expected(Req(c)) THEN "wait" ELSE "over"])
     \/ /\ conn[c].at = "closed"
        /\ Set(c, [conn[c] EXCEPT !.pc = "over"])

(* Read the reply and make a node of it, or throw when the connection is   *)
(* closed without one or before it is complete.                            *)
ReadReply(c) ==
  LET whole == {n \in conn[c].reply : \A h \in conn[c].wire : wanted(h) <= length(n)}
  IN
  /\ conn[c].pc = "wait"
  /\ \/ /\ conn[c].wire # {}
        /\ Set(c, [conn[c] EXCEPT !.pc = "over", !.got = UNION {Parsed(n) : n \in whole}])
     \/ /\ conn[c].wire = {} /\ conn[c].at = "closed"
        /\ Set(c, [conn[c] EXCEPT !.pc = "over"])

-----------------------------------------------------------------------------
(* The callee.                                                             *)

(* The server thread accepts the connection and starts a handler.          *)
Accept(c) ==
  /\ conn[c].at = "backlog"
  /\ Set(c, [conn[c] EXCEPT !.at = "read"])

(* Mutant of HandlerRead: a connection closed by the peer is given up.     *)
HandlerReadEof(c) ==
  /\ conn[c].at = "read"
  /\ \/ /\ conn[c].pc = "over"
        /\ Set(c, [conn[c] EXCEPT !.at = "closed"])
     \/ /\ conn[c].pc # "over" /\ conn[c].sent /\ 1 + Req(c).len >= wanted(header(Req(c)))
        /\ Set(c, [conn[c] EXCEPT !.at = "run"])

(* Read the header and as many bytes as it says; give up when the caller   *)
(* has closed the connection and there are fewer.                          *)
HandlerRead(c) ==
  LET enough == conn[c].sent /\ 1 + Req(c).len >= wanted(header(Req(c)))
  IN
  /\ conn[c].at = "read"
  /\ \/ enough /\ Set(c, [conn[c] EXCEPT !.at = "run"])
     \/ ~enough /\ conn[c].pc = "over" /\ Set(c, [conn[c] EXCEPT !.at = "closed"])

(* The switch over the code of the request.  A node that cannot be read    *)
(* throws, and the handler gives up.                                       *)
HandlerRun(c) ==
  LET r == Received(Req(c))
  IN
  /\ conn[c].at = "run"
  /\ IF r.code \in Setter /\ r.node = {} THEN Set(c, [conn[c] EXCEPT !.at = "closed"])
     ELSE \E v \in {{n} : n \in Peer} \union {{}} :
            /\ Expected(r) <=> v # {}
            /\ Set(c, [conn[c] EXCEPT !.at = "respond", !.ran = {r}, !.reply = v])

(* Mutant of HandlerRespond: any response that is not empty is written.    *)
HandlerRespondAll(c) ==
  /\ conn[c].at = "respond"
  /\ Set(c, [conn[c] EXCEPT !.at = "closed",
                            !.wire = {h \in {char(length(n)) : n \in conn[c].reply} : h # 0}])

(* Write the response if its length is positive as a char, and close.      *)
HandlerRespond(c) ==
  /\ conn[c].at = "respond"
  /\ Set(c, [conn[c] EXCEPT !.at = "closed",
                            !.wire = {h \in {char(length(n)) : n \in conn[c].reply} : h > 0}])

-----------------------------------------------------------------------------
(* Faults.                                                                 *)

(* The process that is called ends; its connections are closed.            *)
Kill ==
  /\ up /\ up' = FALSE
  /\ conn' = [c \in Conn |-> IF conn[c].at = "none" THEN conn[c]
                             ELSE [conn[c] EXCEPT !.at = "closed"]]
  /\ UNCHANGED faults

(* A connection breaks: the caller gives up, and so does a handler that is *)
(* still to read; one that has its request goes on, for nobody.            *)
Break(c) ==
  LET left == IF conn[c].at \in {"backlog", "read"} THEN "closed" ELSE conn[c].at
  IN
  /\ faults < MaxFaults /\ conn[c].at \notin {"none", "closed"}
  /\ conn' = [conn EXCEPT ![c] = [conn[c] EXCEPT !.pc = "over", !.at = left]]
  /\ faults' = faults + 1
  /\ UNCHANGED up

CallerSteps(c) == Connect(c) \/ Write(c) \/ ReadReply(c)

HandlerSteps(c) == Accept(c) \/ HandlerRead(c) \/ HandlerRun(c) \/ HandlerRespond(c)

Faults(c) == ConnectFails(c) \/ Break(c)

Next == Kill \/ \E c \in Conn : Begin(c) \/ CallerSteps(c) \/ HandlerSteps(c) \/ Faults(c)

Spec == Init /\ [][Next]_vars

(* The operating systems run the threads on both sides.                    *)
FairSpec == Spec /\ \A c \in Conn : WF_vars(CallerSteps(c)) /\ WF_vars(HandlerSteps(c))

-----------------------------------------------------------------------------
TypeOK ==
  /\ up \in BOOLEAN
  /\ conn \in [Conn -> State]
  /\ faults \in 0 .. MaxFaults

(* The state of an Exchange.                                               *)
waiting == [c \in Conn |-> conn[c].pc # "over"]

asked == [c \in Conn |-> conn[c].req]

executed == [c \in Conn |-> conn[c].ran]

result == [c \in Conn |-> conn[c].reply]

returned == [c \in Conn |-> conn[c].got]

Remote == INSTANCE Exchange WITH Call <- Conn, Result <- Peer

(* A remote call is an exchange: framing and serialization by lengths in a *)
(* char neither execute another request than the one made nor hand the     *)
(* caller another answer than the one given, whatever dies or breaks.      *)
CallIsExchange == Remote!Spec

(* A node that the framing lets through can be read: no constructor throws *)
(* on it, which on the side of the caller nobody would catch.              *)
FramedParses ==
  \A c \in Conn :
    /\ conn[c].at = "run" => \A r \in conn[c].req : \A n \in r.node : Parsed(n) = {n}
    /\ conn[c].wire # {} => \A n \in conn[c].reply : Parsed(n) = {n}

(* Every call returns: caller and handler never wait for bytes of each     *)
(* other, and the end of the callee ends the wait.                         *)
CallsReturn == \A c \in Conn : []<>(conn[c].pc = "over")

(* Does the length of the request fit in seven bits?                       *)
Short(c) == \A r \in conn[c].req : 1 + r.len < 128

(* A short request that was sent to a process that goes on, over a         *)
(* connection that does not break, is executed, although its sender does   *)
(* not wait.  A longer one may be lost, and its sender is not told.        *)
ShortArrives ==
  \A c \in Conn :
    conn[c].sent /\ Short(c) /\ conn[c].at # "closed" ~> conn[c].ran # {} \/ ~up \/ faults > 0
=============================================================================
