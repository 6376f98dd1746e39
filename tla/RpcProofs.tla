----------------------------- MODULE RpcProofs -----------------------------
(***************************************************************************)
(* Theorems about Rpc: types, FramedParses, and the refinement of          *)
(* Exchange.  The inductive invariant is Good, of every call.              *)
(***************************************************************************)
EXTENDS Rpc, TLAPS

-----------------------------------------------------------------------------
(* Lengths.                                                                *)

(* A length below 256 arrives as it is, or as a negative number, and the   *)
(* latter only from 128 on.                                                *)
LEMMA CharValue ==
  ASSUME NEW n \in 0 .. 255
  PROVE  /\ char(n) \in Int
         /\ char(n) = n \/ (char(n) < 0 /\ Signed /\ n > 127)
         /\ char(n) = n <=> (Signed => n < 128)
BY RpcAssumption DEF char

LEMMA PeerLengths ==
  ASSUME NEW n \in Peer
  PROVE  /\ n \in [name : 1 .. 254, host : 1 .. 254, port : 1 .. 10]
         /\ n.name \in 0 .. 255 /\ n.host \in 0 .. 255 /\ n.port \in 0 .. 255
         /\ length(n) \in 1 .. 254 /\ 1 + length(n) \in 0 .. 255
         /\ n.name < length(n) /\ n.host < length(n) /\ n.port < length(n)
<1>1. n \in [name : 1 .. 254, host : 1 .. 254, port : 1 .. 10]
  BY LengthBound
<1>2. n.name \in 1 .. 254 /\ n.host \in 1 .. 254 /\ n.port \in 1 .. 10
  BY <1>1
<1>3. length(n) = 3 + n.name + n.host + n.port /\ length(n) < 255
  BY LengthBound DEF length
<1>4. /\ n.name \in Int /\ n.host \in Int /\ n.port \in Int
      /\ 1 <= n.name /\ n.name <= 254 /\ 1 <= n.host /\ n.host <= 254
      /\ 1 <= n.port /\ n.port <= 10
  BY <1>2
<1>5. length(n) \in Int /\ 1 <= length(n) /\ n.name < length(n) /\ n.host < length(n) /\ n.port < length(n)
  BY <1>3, <1>4
<1> QED BY <1>1, <1>3, <1>4, <1>5

(* A node is read as it was, or not at all.                                *)
LEMMA ParsedSame ==
  ASSUME NEW n \in Peer
  PROVE  /\ Parsed(n) \subseteq {n}
         /\ (Signed => length(n) < 128) => Parsed(n) = {n}
<1> USE PeerLengths
<1>1. /\ char(n.name) \in Int /\ (char(n.name) = n.name \/ char(n.name) < 0)
      /\ char(n.host) \in Int /\ (char(n.host) = n.host \/ char(n.host) < 0)
      /\ char(n.port) \in Int /\ (char(n.port) = n.port \/ char(n.port) < 0)
  BY CharValue
<1>2. ASSUME char(n.name) >= 0, char(n.host) >= 0, char(n.port) >= 0
      PROVE  serialize(n) = n
  <2>1. char(n.name) = n.name /\ char(n.host) = n.host /\ char(n.port) = n.port
    BY <1>1, <1>2
  <2>2. serialize(n) = [name |-> n.name, host |-> n.host, port |-> n.port]
    BY <2>1 DEF serialize
  <2> QED BY <2>2
<1>3. Parsed(n) \subseteq {n}
  BY <1>2 DEF Parsed, INode, serialize
<1>4. ASSUME Signed => length(n) < 128
      PROVE  Parsed(n) = {n}
  <2>1. (Signed => n.name < 128) /\ (Signed => n.host < 128) /\ (Signed => n.port < 128)
    <3> HIDE PeerLengths
    <3>1. /\ n.name \in Int /\ n.host \in Int /\ n.port \in Int /\ length(n) \in Int
          /\ n.name < length(n) /\ n.host < length(n) /\ n.port < length(n)
      BY PeerLengths
    <3> QED BY <1>4, <3>1
  <2>2. char(n.name) = n.name /\ char(n.host) = n.host /\ char(n.port) = n.port
    BY <2>1, CharValue
  <2>3. serialize(n) = n
    BY <2>2 DEF serialize
  <2> QED BY <2>3 DEF Parsed, INode
<1> QED BY <1>3, <1>4

LEMMA RequestTyped ==
  ASSUME NEW r \in Request
  PROVE  /\ r = [code |-> r.code, len |-> r.len, node |-> r.node]
         /\ r.code \in Code /\ r.len \in 0 .. 254 /\ r.node \subseteq Peer
         /\ 1 + r.len \in 0 .. 255
         /\ r.node = {} \/ \E n \in Peer : r.node = {n} /\ r.len = length(n)
<1>1. CASE r \in [code : Lookup, len : {IdLen}, node : {{}}]
  BY <1>1, LengthBound DEF Code
<1>2. CASE r \in [code : Getter \union {"PING"}, len : {0}, node : {{}}]
  BY <1>2 DEF Code
<1>3. CASE r \in [code : {"RECEIVE"}, len : TextLen, node : {{}}]
  <2>1. r.len \in 1 .. 254
    BY <1>3, LengthBound
  <2> QED BY <1>3, <2>1 DEF Code
<1>4. ASSUME NEW k \in Setter, NEW n \in Peer,
             r = [code |-> k, len |-> length(n), node |-> {n}]
      PROVE  /\ r = [code |-> r.code, len |-> r.len, node |-> r.node]
             /\ r.code \in Code /\ r.len \in 0 .. 254 /\ r.node \subseteq Peer
             /\ 1 + r.len \in 0 .. 255
             /\ r.node = {n} /\ r.len = length(n)
  BY <1>4, PeerLengths DEF Code
<1> QED BY <1>1, <1>2, <1>3, <1>4 DEF Request

(* A request whose bytes all arrive is taken for what it is.               *)
LEMMA ReceivedSame ==
  ASSUME NEW r \in Request, 1 + r.len >= wanted(header(r))
  PROVE  /\ Received(r) = r
         /\ \A n \in r.node : Parsed(n) = {n}
<1>1. header(r) \in Int /\ wanted(header(r)) = 1 + r.len /\ (Signed => 1 + r.len < 128)
  BY RequestTyped, CharValue DEF header, wanted, MAX_DATA_LENGTH
<1>2. \A n \in r.node : Parsed(n) = {n}
  BY <1>1, RequestTyped, PeerLengths, ParsedSame
<1>3. UNION {Parsed(n) : n \in r.node} = r.node
  BY <1>2
<1>4. wanted(header(r)) # 0 /\ wanted(header(r)) - 1 = r.len
  BY <1>1, RequestTyped
<1>5. Received(r) = [code |-> r.code, len |-> r.len, node |-> r.node]
  BY <1>3, <1>4, Zenon DEF Received
<1> QED BY <1>2, <1>5, RequestTyped

-----------------------------------------------------------------------------
(* What holds of a call k at every moment: it has a request once it has    *)
(* begun; nothing is executed or answered before its handler is past the   *)
(* switch, nor returned while the caller waits; what its handler executes  *)
(* is its request; a header that was sent is the length of the answer.     *)
Good(k) ==
  /\ k \in State
  /\ k.req = {} \/ \E r \in Request : k.req = {r}
  /\ k.req = {} => k.pc = "over" /\ k.at = "none"
  /\ k.at \in {"none", "backlog", "read", "run"} => k.ran = {} /\ k.reply = {} /\ k.wire = {}
  /\ k.pc # "over" => k.got = {}
  /\ k.pc = "connect" => k.at = "none"
  /\ k.at = "run" => \A r \in k.req : Received(r) = r /\ \A n \in r.node : Parsed(n) = {n}
  /\ k.reply = {} \/ \E n \in Peer : k.reply = {n}
  /\ \A h \in k.wire : \A n \in k.reply : h = length(n) /\ Parsed(n) = {n}
  /\ k.wire # {} => k.reply # {}

Inv == up \in BOOLEAN /\ faults \in 0 .. MaxFaults
       /\ conn \in [Conn -> State] /\ \A c \in Conn : Good(conn[c])

(* The request of a call that has one.                                     *)
LEMMA ReqIs ==
  ASSUME NEW c \in Conn, Good(conn[c]), conn[c].req # {}
  PROVE  Req(c) \in Request /\ conn[c].req = {Req(c)}
BY DEF Good, Req

LEMMA InitInv == Init => Inv
BY RpcAssumption DEF Init, Inv, Good, Unused, State

-----------------------------------------------------------------------------
(* Steps of one call.                                                      *)

(* A step that makes a call good keeps the invariant.                      *)
LEMMA KeepsInv ==
  ASSUME Inv, NEW c \in Conn, NEW s, Good(s), conn' = [conn EXCEPT ![c] = s],
         up' \in BOOLEAN, faults' \in 0 .. MaxFaults
  PROVE  Inv'
<1>1. s \in State
  BY DEF Good
<1>2. conn' \in [Conn -> State]
  BY <1>1 DEF Inv
<1>3. \A d \in Conn : Good(conn'[d])
  BY DEF Inv
<1> QED BY <1>2, <1>3 DEF Inv

(* What the caller and the users of the answer see of two calls k and s.   *)
SameCall(k, s) == s.req = k.req /\ s.ran = k.ran /\ s.reply = k.reply

(* The state of the Exchange before and after a step, as functions.        *)
LEMMA Mapped ==
  /\ waiting = [d \in Conn |-> waiting[d]] /\ waiting' = [d \in Conn |-> waiting'[d]]
  /\ asked = [d \in Conn |-> asked[d]] /\ asked' = [d \in Conn |-> asked'[d]]
  /\ executed = [d \in Conn |-> executed[d]] /\ executed' = [d \in Conn |-> executed'[d]]
  /\ result = [d \in Conn |-> result[d]] /\ result' = [d \in Conn |-> result'[d]]
  /\ returned = [d \in Conn |-> returned[d]] /\ returned' = [d \in Conn |-> returned'[d]]
BY DEF waiting, asked, executed, result, returned

LEMMA MappedAt ==
  ASSUME NEW d \in Conn
  PROVE  /\ waiting[d] = (conn[d].pc # "over") /\ waiting'[d] = (conn'[d].pc # "over")
         /\ asked[d] = conn[d].req /\ asked'[d] = conn'[d].req
         /\ executed[d] = conn[d].ran /\ executed'[d] = conn'[d].ran
         /\ result[d] = conn[d].reply /\ result'[d] = conn'[d].reply
         /\ returned[d] = conn[d].got /\ returned'[d] = conn'[d].got
BY DEF waiting, asked, executed, result, returned

(* Two functions on Conn that differ at most at c.                         *)
LEMMA Differ ==
  ASSUME NEW c \in Conn, NEW F, NEW G, NEW v,
         F = [d \in Conn |-> F[d]], G = [d \in Conn |-> G[d]],
         G[c] = v, \A d \in Conn \ {c} : G[d] = F[d]
  PROVE  G = [F EXCEPT ![c] = v] /\ (F[c] = v => G = F)
OBVIOUS

(* What a step of call c does to the state of the Exchange.                *)
LEMMA Projected ==
  ASSUME Inv, NEW c \in Conn, NEW s, conn' = [conn EXCEPT ![c] = s]
  PROVE  /\ waiting' = [waiting EXCEPT ![c] = (s.pc # "over")]
         /\ asked' = [asked EXCEPT ![c] = s.req] /\ (s.req = conn[c].req => asked' = asked)
         /\ executed' = [executed EXCEPT ![c] = s.ran] /\ (s.ran = conn[c].ran => executed' = executed)
         /\ result' = [result EXCEPT ![c] = s.reply] /\ (s.reply = conn[c].reply => result' = result)
         /\ returned' = [returned EXCEPT ![c] = s.got] /\ (s.got = conn[c].got => returned' = returned)
         /\ ((s.pc # "over") = (conn[c].pc # "over")) => waiting' = waiting
<1>1. conn'[c] = s /\ \A d \in Conn \ {c} : conn'[d] = conn[d]
  BY DEF Inv
<1>2. /\ waiting'[c] = (s.pc # "over") /\ asked'[c] = s.req /\ executed'[c] = s.ran
      /\ result'[c] = s.reply /\ returned'[c] = s.got
  BY <1>1, MappedAt, Zenon
<1>3. \A d \in Conn \ {c} : /\ waiting'[d] = waiting[d] /\ asked'[d] = asked[d]
                            /\ executed'[d] = executed[d] /\ result'[d] = result[d]
                            /\ returned'[d] = returned[d]
  <2> SUFFICES ASSUME NEW d \in Conn \ {c}
               PROVE  /\ waiting'[d] = waiting[d] /\ asked'[d] = asked[d]
                      /\ executed'[d] = executed[d] /\ result'[d] = result[d]
                      /\ returned'[d] = returned[d]
    OBVIOUS
  <2>1. conn'[d] = conn[d] /\ d \in Conn
    BY <1>1
  <2>2. waiting'[d] = waiting[d]
    BY <2>1, Zenon DEF waiting
  <2>3. /\ asked'[d] = asked[d] /\ executed'[d] = executed[d]
        /\ result'[d] = result[d] /\ returned'[d] = returned[d]
    BY <2>1 DEF asked, executed, result, returned
  <2> QED BY <2>2, <2>3
<1>4. /\ waiting[c] = (conn[c].pc # "over") /\ asked[c] = conn[c].req
      /\ executed[c] = conn[c].ran /\ result[c] = conn[c].reply /\ returned[c] = conn[c].got
  BY MappedAt
<1>5. waiting' = [waiting EXCEPT ![c] = (s.pc # "over")] /\ (waiting[c] = (s.pc # "over") => waiting' = waiting)
  <2>1. waiting' = [waiting EXCEPT ![c] = (s.pc # "over")]
    BY <1>1, Zenon DEF waiting
  <2>2. ASSUME waiting[c] = (s.pc # "over") PROVE waiting' = waiting
    <3>1. \A d \in Conn : waiting'[d] = waiting[d]
      BY <1>2, <1>3, <2>2, Zenon
    <3> QED BY <3>1, Mapped, Zenon
  <2> QED BY <2>1, <2>2
<1>6. asked' = [asked EXCEPT ![c] = s.req] /\ (asked[c] = s.req => asked' = asked)
  <2>1. /\ asked = [d \in Conn |-> asked[d]] /\ asked' = [d \in Conn |-> asked'[d]]
        /\ asked'[c] = s.req /\ \A d \in Conn \ {c} : asked'[d] = asked[d]
    BY <1>2, <1>3, Mapped
  <2> QED BY <2>1, Differ
<1>7. executed' = [executed EXCEPT ![c] = s.ran] /\ (executed[c] = s.ran => executed' = executed)
  <2>1. /\ executed = [d \in Conn |-> executed[d]] /\ executed' = [d \in Conn |-> executed'[d]]
        /\ executed'[c] = s.ran /\ \A d \in Conn \ {c} : executed'[d] = executed[d]
    BY <1>2, <1>3, Mapped
  <2> QED BY <2>1, Differ
<1>8. result' = [result EXCEPT ![c] = s.reply] /\ (result[c] = s.reply => result' = result)
  <2>1. /\ result = [d \in Conn |-> result[d]] /\ result' = [d \in Conn |-> result'[d]]
        /\ result'[c] = s.reply /\ \A d \in Conn \ {c} : result'[d] = result[d]
    BY <1>2, <1>3, Mapped
  <2> QED BY <2>1, Differ
<1>9. returned' = [returned EXCEPT ![c] = s.got] /\ (returned[c] = s.got => returned' = returned)
  <2>1. /\ returned = [d \in Conn |-> returned[d]] /\ returned' = [d \in Conn |-> returned'[d]]
        /\ returned'[c] = s.got /\ \A d \in Conn \ {c} : returned'[d] = returned[d]
    BY <1>2, <1>3, Mapped
  <2> QED BY <2>1, Differ
<1> QED BY <1>4, <1>5, <1>6, <1>7, <1>8, <1>9, Zenon

(* A step inside a call is a stutter of Exchange.                          *)
LEMMA Inside ==
  ASSUME Inv, NEW c \in Conn, NEW s, conn' = [conn EXCEPT ![c] = s],
         SameCall(conn[c], s), s.got = conn[c].got, s.pc = "over" <=> conn[c].pc = "over"
  PROVE  UNCHANGED Remote!vars
<1>1. (s.pc # "over") = (conn[c].pc # "over")
  BY Zenon
<1> QED BY <1>1, Projected, Zenon DEF Remote!vars, SameCall

(* A step by which the caller gets nothing, or the answer, is Return.      *)
LEMMA Returns ==
  ASSUME Inv, NEW c \in Conn, NEW s, conn' = [conn EXCEPT ![c] = s],
         SameCall(conn[c], s), s.got \in {{}, conn[c].reply},
         conn[c].pc # "over", s.pc = "over"
  PROVE  Remote!Next
<1>1. waiting[c] /\ s.got \in {{}, result[c]} /\ (s.pc # "over") = FALSE
  BY MappedAt, Zenon
<1>2. waiting' = [waiting EXCEPT ![c] = FALSE]
  BY <1>1, Projected, Zenon
<1>3. /\ asked' = asked /\ executed' = executed /\ result' = result
      /\ returned' = [returned EXCEPT ![c] = s.got]
  BY Projected, Zenon DEF SameCall
<1>4. Remote!Return(c)
  BY <1>1, <1>2, <1>3, Zenon DEF Remote!Return
<1> QED BY <1>4 DEF Remote!Next

(* A step that starts a call over is Ask.                                  *)
LEMMA Asks ==
  ASSUME Inv, NEW c \in Conn, NEW s, NEW r \in Request, conn' = [conn EXCEPT ![c] = s],
         conn[c].pc = "over", s.pc # "over",
         s.req = {r}, s.ran = {}, s.reply = {}, s.got = {}
  PROVE  Remote!Next
<1>1. ~waiting[c] /\ (s.pc # "over") = TRUE
  BY MappedAt, Zenon
<1>2. waiting' = [waiting EXCEPT ![c] = TRUE]
  BY <1>1, Projected, Zenon
<1>3. /\ asked' = [asked EXCEPT ![c] = {r}] /\ executed' = [executed EXCEPT ![c] = {}]
      /\ result' = [result EXCEPT ![c] = {}] /\ returned' = [returned EXCEPT ![c] = {}]
  <2>1. /\ asked' = [asked EXCEPT ![c] = s.req] /\ executed' = [executed EXCEPT ![c] = s.ran]
        /\ result' = [result EXCEPT ![c] = s.reply] /\ returned' = [returned EXCEPT ![c] = s.got]
    BY Projected, Zenon
  <2>2. asked' = [asked EXCEPT ![c] = {r}] /\ executed' = [executed EXCEPT ![c] = {}]
    BY <2>1
  <2>3. result' = [result EXCEPT ![c] = {}] /\ returned' = [returned EXCEPT ![c] = {}]
    BY <2>1
  <2> QED BY <2>2, <2>3
<1>4. Remote!Ask(c)
  BY <1>1, <1>2, <1>3, Zenon DEF Remote!Ask
<1> QED BY <1>4 DEF Remote!Next

(* The step that executes the request of a call is Execute.                *)
LEMMA Executes ==
  ASSUME Inv, NEW c \in Conn, NEW s, conn' = [conn EXCEPT ![c] = s],
         conn[c].req # {}, conn[c].ran = {},
         s.pc = conn[c].pc, s.req = conn[c].req, s.ran = s.req, s.got = conn[c].got,
         s.reply \in {{}} \union {{x} : x \in Peer}
  PROVE  Remote!Next
<1>1. asked[c] # {} /\ executed[c] = {} /\ asked[c] = s.ran
  BY MappedAt, Zenon
<1>2. (s.pc # "over") = (conn[c].pc # "over")
  BY Zenon
<1>3. /\ waiting' = waiting /\ asked' = asked /\ returned' = returned
      /\ executed' = [executed EXCEPT ![c] = s.ran] /\ result' = [result EXCEPT ![c] = s.reply]
  BY <1>2, Projected, Zenon
<1>4. Remote!Execute(c)
  BY <1>1, <1>3, Zenon DEF Remote!Execute
<1> QED BY <1>4 DEF Remote!Next

-----------------------------------------------------------------------------
(* The actions: each keeps the invariant and is a step of Exchange.        *)

LEMMA BeginStep ==
  ASSUME Inv, NEW c \in Conn, Begin(c)
  PROVE  Inv' /\ [Remote!Next]_Remote!vars
<1>1. PICK r \in Request : Set(c, [Unused EXCEPT !.pc = "connect", !.req = {r}])
  BY DEF Begin
<1> DEFINE s == [Unused EXCEPT !.pc = "connect", !.req = {r}]
<1>2. Good(s) /\ s.pc # "over" /\ s.req = {r} /\ s.ran = {} /\ s.reply = {} /\ s.got = {}
  BY DEF Good, Unused, State
<1> HIDE DEF s
<1>3. conn' = [conn EXCEPT ![c] = s] /\ up' = up /\ faults' = faults /\ conn[c].pc = "over"
  BY <1>1 DEF Set, Begin, s
<1>4. Inv'
  BY <1>2, <1>3, KeepsInv DEF Inv
<1>5. Remote!Next
  BY <1>2, <1>3, Asks
<1> QED BY <1>4, <1>5

LEMMA InsideStep ==
  ASSUME Inv, NEW c \in Conn, NEW s, Good(s), conn' = [conn EXCEPT ![c] = s],
         up' \in BOOLEAN, faults' \in 0 .. MaxFaults,
         SameCall(conn[c], s), s.got = conn[c].got, s.pc = "over" <=> conn[c].pc = "over"
  PROVE  Inv' /\ [Remote!Next]_Remote!vars
BY KeepsInv, Inside

LEMMA ReturnStep ==
  ASSUME Inv, NEW c \in Conn, NEW s, Good(s), conn' = [conn EXCEPT ![c] = s],
         up' \in BOOLEAN, faults' \in 0 .. MaxFaults,
         SameCall(conn[c], s), s.got \in {{}, conn[c].reply},
         conn[c].pc # "over", s.pc = "over"
  PROVE  Inv' /\ [Remote!Next]_Remote!vars
BY KeepsInv, Returns

LEMMA ConnectStep ==
  ASSUME Inv, NEW c \in Conn, Connect(c)
  PROVE  Inv' /\ [Remote!Next]_Remote!vars
<1> DEFINE k == conn[c]
<1>1. Good(k) /\ k.pc = "connect" /\ k.at = "none" /\ k \in State
  BY DEF Inv, Connect, Good
<1>2. CASE up
  <2> DEFINE s == [k EXCEPT !.pc = "write", !.at = "backlog"]
  <2>1. Good(s)
    BY <1>1 DEF Good, State
  <2>2. SameCall(k, s) /\ s.got = k.got /\ s.pc = "write"
    BY <1>1 DEF SameCall, State
  <2>3. conn' = [conn EXCEPT ![c] = s] /\ up' \in BOOLEAN /\ faults' \in 0 .. MaxFaults
    BY <1>2 DEF Connect, Set, Inv
  <2> HIDE DEF s
  <2> QED BY <1>1, <2>1, <2>2, <2>3, InsideStep
<1>3. CASE ~up
  <2> DEFINE s == [k EXCEPT !.pc = "over"]
  <2>1. Good(s)
    BY <1>1 DEF Good, State
  <2>2. SameCall(k, s) /\ s.got \in {{}, k.reply} /\ s.pc = "over"
    BY <1>1 DEF SameCall, State, Good
  <2>3. conn' = [conn EXCEPT ![c] = s] /\ up' \in BOOLEAN /\ faults' \in 0 .. MaxFaults
    BY <1>3 DEF Connect, Set, Inv
  <2> HIDE DEF s
  <2> QED BY <1>1, <2>1, <2>2, <2>3, ReturnStep
<1> QED BY <1>2, <1>3

LEMMA ConnectFailsStep ==
  ASSUME Inv, NEW c \in Conn, ConnectFails(c)
  PROVE  Inv' /\ [Remote!Next]_Remote!vars
<1> DEFINE k == conn[c]
           s == [k EXCEPT !.pc = "over"]
<1>1. Good(k) /\ k.pc = "connect" /\ k \in State
  BY DEF Inv, ConnectFails, Good
<1>2. Good(s)
  BY <1>1 DEF Good, State
<1>3. SameCall(k, s) /\ s.got \in {{}, k.reply} /\ s.pc = "over"
  BY <1>1 DEF SameCall, State, Good
<1>4. conn' = [conn EXCEPT ![c] = s] /\ up' \in BOOLEAN /\ faults' \in 0 .. MaxFaults
  BY RpcAssumption DEF ConnectFails, Inv
<1> HIDE DEF s
<1> QED BY <1>1, <1>2, <1>3, <1>4, ReturnStep

LEMMA WriteStep ==
  ASSUME Inv, NEW c \in Conn, Write(c)
  PROVE  Inv' /\ [Remote!Next]_Remote!vars
<1> DEFINE k == conn[c]
<1>1. Good(k) /\ k.pc = "write" /\ k \in State /\ k.got = {}
  BY DEF Inv, Write, Good
<1>2. CASE Set(c, [k EXCEPT !.sent = TRUE, !.pc = IF Expected(Req(c)) THEN "wait" ELSE "over"])
  <2>1. CASE Expected(Req(c))
    <3> DEFINE s == [k EXCEPT !.sent = TRUE, !.pc = "wait"]
    <3>1. Good(s)
      BY <1>1 DEF Good, State
    <3>2. SameCall(k, s) /\ s.got = k.got /\ s.pc = "wait"
      BY <1>1 DEF SameCall, State
    <3>3. conn' = [conn EXCEPT ![c] = s] /\ up' \in BOOLEAN /\ faults' \in 0 .. MaxFaults
      BY <1>2, <2>1 DEF Set, Inv
    <3> HIDE DEF s
    <3> QED BY <1>1, <3>1, <3>2, <3>3, InsideStep
  <2>2. CASE ~Expected(Req(c))
    <3> DEFINE s == [k EXCEPT !.sent = TRUE, !.pc = "over"]
    <3>1. Good(s)
      BY <1>1 DEF Good, State
    <3>2. SameCall(k, s) /\ s.got \in {{}, k.reply} /\ s.pc = "over"
      BY <1>1 DEF SameCall, State
    <3>3. conn' = [conn EXCEPT ![c] = s] /\ up' \in BOOLEAN /\ faults' \in 0 .. MaxFaults
      BY <1>2, <2>2 DEF Set, Inv
    <3> HIDE DEF s
    <3> QED BY <1>1, <3>1, <3>2, <3>3, ReturnStep
  <2> QED BY <2>1, <2>2
<1>3. CASE Set(c, [k EXCEPT !.pc = "over"])
  <2> DEFINE s == [k EXCEPT !.pc = "over"]
  <2>1. Good(s)
    BY <1>1 DEF Good, State
  <2>2. SameCall(k, s) /\ s.got \in {{}, k.reply} /\ s.pc = "over"
    BY <1>1 DEF SameCall, State
  <2>3. conn' = [conn EXCEPT ![c] = s] /\ up' \in BOOLEAN /\ faults' \in 0 .. MaxFaults
    BY <1>3 DEF Set, Inv
  <2> HIDE DEF s
  <2> QED BY <1>1, <2>1, <2>2, <2>3, ReturnStep
<1> QED BY <1>2, <1>3 DEF Write

(* The answer is read whole, as the header is its length.                  *)
LEMMA ReadReplyStep ==
  ASSUME Inv, NEW c \in Conn, ReadReply(c)
  PROVE  Inv' /\ [Remote!Next]_Remote!vars
<1> DEFINE k == conn[c]
           whole == {n \in k.reply : \A h \in k.wire : wanted(h) <= length(n)}
           got == UNION {Parsed(n) : n \in whole}
<1>1. Good(k) /\ k.pc = "wait" /\ k \in State
  BY DEF Inv, ReadReply, Good
<1>2. CASE k.wire # {} /\ Set(c, [k EXCEPT !.pc = "over", !.got = got])
  <2> DEFINE s == [k EXCEPT !.pc = "over", !.got = got]
  <2>1. PICK n \in Peer : k.reply = {n} /\ Parsed(n) = {n} /\ \A h \in k.wire : h = length(n)
    BY <1>1, <1>2 DEF Good
  <2>2. \A h \in k.wire : wanted(h) = length(n)
    BY <2>1, PeerLengths DEF wanted
  <2>3. whole = {n}
    BY <2>1, <2>2, PeerLengths
  <2>4. got = k.reply
    BY <2>1, <2>3
  <2> HIDE DEF got, whole
  <2>5. Good(s)
    BY <1>1, <2>4 DEF Good, State
  <2>6. SameCall(k, s) /\ s.got \in {{}, k.reply} /\ s.pc = "over"
    BY <1>1, <2>4 DEF SameCall, State
  <2>7. conn' = [conn EXCEPT ![c] = s] /\ up' \in BOOLEAN /\ faults' \in 0 .. MaxFaults
    BY <1>2 DEF Set, Inv
  <2> HIDE DEF s
  <2> QED BY <1>1, <2>5, <2>6, <2>7, ReturnStep
<1>3. CASE Set(c, [k EXCEPT !.pc = "over"])
  <2> DEFINE s == [k EXCEPT !.pc = "over"]
  <2>1. Good(s)
    BY <1>1 DEF Good, State
  <2>2. SameCall(k, s) /\ s.got \in {{}, k.reply} /\ s.pc = "over"
    BY <1>1 DEF SameCall, State, Good
  <2>3. conn' = [conn EXCEPT ![c] = s] /\ up' \in BOOLEAN /\ faults' \in 0 .. MaxFaults
    BY <1>3 DEF Set, Inv
  <2> HIDE DEF s
  <2> QED BY <1>1, <2>1, <2>2, <2>3, ReturnStep
<1> QED BY <1>2, <1>3 DEF ReadReply

LEMMA AcceptStep ==
  ASSUME Inv, NEW c \in Conn, Accept(c)
  PROVE  Inv' /\ [Remote!Next]_Remote!vars
<1> DEFINE k == conn[c]
           s == [k EXCEPT !.at = "read"]
<1>1. Good(k) /\ k.at = "backlog" /\ k \in State
  BY DEF Inv, Accept, Good
<1>2. Good(s)
  BY <1>1 DEF Good, State
<1>3. SameCall(k, s) /\ s.got = k.got /\ s.pc = k.pc
  BY <1>1 DEF SameCall, State
<1>4. conn' = [conn EXCEPT ![c] = s] /\ up' \in BOOLEAN /\ faults' \in 0 .. MaxFaults
  BY DEF Accept, Set, Inv
<1> HIDE DEF s
<1> QED BY <1>1, <1>2, <1>3, <1>4, InsideStep

(* A handler goes on only with all bytes of the request.                   *)
LEMMA HandlerReadStep ==
  ASSUME Inv, NEW c \in Conn, HandlerRead(c)
  PROVE  Inv' /\ [Remote!Next]_Remote!vars
<1> DEFINE k == conn[c]
<1>1. Good(k) /\ k.at = "read" /\ k \in State /\ k.req # {}
  BY DEF Inv, HandlerRead, Good
<1>2. Req(c) \in Request /\ k.req = {Req(c)}
  BY <1>1, ReqIs
<1>3. CASE /\ 1 + Req(c).len >= wanted(header(Req(c)))
           /\ Set(c, [k EXCEPT !.at = "run"])
  <2> DEFINE s == [k EXCEPT !.at = "run"]
  <2>1. \A r \in k.req : Received(r) = r /\ \A n \in r.node : Parsed(n) = {n}
    BY <1>2, <1>3, ReceivedSame
  <2>2. Good(s)
    BY <1>1, <2>1 DEF Good, State
  <2>3. SameCall(k, s) /\ s.got = k.got /\ s.pc = k.pc
    BY <1>1 DEF SameCall, State
  <2>4. conn' = [conn EXCEPT ![c] = s] /\ up' \in BOOLEAN /\ faults' \in 0 .. MaxFaults
    BY <1>3 DEF Set, Inv
  <2> HIDE DEF s
  <2> QED BY <1>1, <2>2, <2>3, <2>4, InsideStep
<1>4. CASE Set(c, [k EXCEPT !.at = "closed"])
  <2> DEFINE s == [k EXCEPT !.at = "closed"]
  <2>1. Good(s)
    BY <1>1 DEF Good, State
  <2>2. SameCall(k, s) /\ s.got = k.got /\ s.pc = k.pc
    BY <1>1 DEF SameCall, State
  <2>3. conn' = [conn EXCEPT ![c] = s] /\ up' \in BOOLEAN /\ faults' \in 0 .. MaxFaults
    BY <1>4 DEF Set, Inv
  <2> HIDE DEF s
  <2> QED BY <1>1, <2>1, <2>2, <2>3, InsideStep
<1> QED BY <1>3, <1>4 DEF HandlerRead

(* What is executed is the request.                                        *)
LEMMA HandlerRunStep ==
  ASSUME Inv, NEW c \in Conn, HandlerRun(c)
  PROVE  Inv' /\ [Remote!Next]_Remote!vars
<1> DEFINE k == conn[c]
           r == Received(Req(c))
<1>1. Good(k) /\ k.at = "run" /\ k \in State /\ k.req # {}
  BY DEF Inv, HandlerRun, Good
<1>2. r \in Request /\ k.req = {r}
  BY <1>1, ReqIs DEF Good
<1>3. r \in [code : Code, len : Nat, node : SUBSET Peer]
  BY <1>2, RequestTyped
<1> HIDE DEF r
<1>4. CASE Set(c, [k EXCEPT !.at = "closed"])
  <2> DEFINE s == [k EXCEPT !.at = "closed"]
  <2>1. Good(s)
    BY <1>1 DEF Good, State
  <2>2. SameCall(k, s) /\ s.got = k.got /\ s.pc = k.pc
    BY <1>1 DEF SameCall, State
  <2>3. conn' = [conn EXCEPT ![c] = s] /\ up' \in BOOLEAN /\ faults' \in 0 .. MaxFaults
    BY <1>4 DEF Set, Inv
  <2> HIDE DEF s
  <2> QED BY <1>1, <2>1, <2>2, <2>3, InsideStep
<1>5. ASSUME NEW v \in {{n} : n \in Peer} \union {{}},
             Set(c, [k EXCEPT !.at = "respond", !.ran = {r}, !.reply = v])
      PROVE  Inv' /\ [Remote!Next]_Remote!vars
  <2> DEFINE s == [k EXCEPT !.at = "respond", !.ran = {r}, !.reply = v]
  <2>1. k.ran = {} /\ k.wire = {}
    BY <1>1 DEF Good
  <2>2. s \in State /\ s.wire = {} /\ s.at = "respond" /\ s.reply = v
    BY <1>1, <1>3, <2>1 DEF State
  <2>3. s.pc = k.pc /\ s.req = k.req /\ s.ran = s.req /\ s.got = k.got
    BY <1>1, <1>2 DEF State
  <2>4. conn' = [conn EXCEPT ![c] = s] /\ up' \in BOOLEAN /\ faults' \in 0 .. MaxFaults
    BY <1>5 DEF Set, Inv
  <2> HIDE DEF s
  <2>5. Good(s)
    BY <1>1, <2>2, <2>3 DEF Good
  <2>6. Inv'
    BY <2>4, <2>5, KeepsInv
  <2>7. Remote!Next
    BY <1>1, <2>1, <2>2, <2>3, <2>4, Executes
  <2> QED BY <2>6, <2>7
<1> QED BY <1>4, <1>5 DEF HandlerRun, r

(* Only an answer whose length is positive as a char is sent, and that     *)
(* length is then right.                                                   *)
LEMMA HandlerRespondStep ==
  ASSUME Inv, NEW c \in Conn, HandlerRespond(c)
  PROVE  Inv' /\ [Remote!Next]_Remote!vars
<1> DEFINE k == conn[c]
           w == {h \in {char(length(n)) : n \in k.reply} : h > 0}
           s == [k EXCEPT !.at = "closed", !.wire = w]
<1>1. Good(k) /\ k.at = "respond" /\ k \in State /\ k.req # {} /\ k.reply \subseteq Peer
  BY DEF Inv, HandlerRespond, Good, State
<1>2. \A n \in k.reply : /\ char(length(n)) \in Int
                         /\ char(length(n)) > 0 => char(length(n)) = length(n) /\ Parsed(n) = {n}
  <2> SUFFICES ASSUME NEW n \in k.reply
               PROVE  /\ char(length(n)) \in Int
                      /\ char(length(n)) > 0 => char(length(n)) = length(n) /\ Parsed(n) = {n}
    OBVIOUS
  <2>1. n \in Peer /\ length(n) \in 0 .. 255
    BY <1>1, PeerLengths
  <2>2. char(length(n)) \in Int
    BY <2>1, CharValue
  <2>3. ASSUME char(length(n)) > 0
        PROVE  char(length(n)) = length(n) /\ (Signed => length(n) < 128)
    BY <2>1, <2>2, <2>3, CharValue
  <2> QED BY <2>1, <2>2, <2>3, ParsedSame
<1>3. \A h \in w : h \in Nat /\ \E n \in k.reply : h = length(n) /\ Parsed(n) = {n}
  BY <1>2
<1>4. conn' = [conn EXCEPT ![c] = s] /\ up' \in BOOLEAN /\ faults' \in 0 .. MaxFaults
  BY DEF HandlerRespond, Set, Inv
<1> HIDE DEF w
<1>5. s \in State
  BY <1>1, <1>3 DEF State
<1>6. /\ s.at = "closed" /\ s.wire = w /\ SameCall(k, s) /\ s.got = k.got /\ s.pc = k.pc
      /\ s.req = k.req /\ s.reply = k.reply
  BY <1>1 DEF SameCall, State
<1> HIDE DEF s
<1>7. Good(s)
  BY <1>1, <1>3, <1>5, <1>6 DEF Good
<1> QED BY <1>4, <1>6, <1>7, InsideStep

LEMMA BreakStep ==
  ASSUME Inv, NEW c \in Conn, Break(c)
  PROVE  Inv' /\ [Remote!Next]_Remote!vars
<1> DEFINE k == conn[c]
           left == IF k.at \in {"backlog", "read"} THEN "closed" ELSE k.at
           s == [k EXCEPT !.pc = "over", !.at = left]
<1>1. Good(k) /\ k \in State /\ k.at # "none" /\ k.req # {}
  BY DEF Inv, Break, Good
<1>2. Good(s)
  BY <1>1 DEF Good, State
<1>3. SameCall(k, s) /\ s.got = k.got /\ s.pc = "over"
  BY <1>1 DEF SameCall, State
<1>4. /\ conn' = [conn EXCEPT ![c] = s]
      /\ up' \in BOOLEAN /\ faults' \in 0 .. MaxFaults
  <2>1. conn' = [conn EXCEPT ![c] = s]
    BY DEF Break
  <2>2. up' \in BOOLEAN /\ faults' \in 0 .. MaxFaults
    BY RpcAssumption DEF Break, Inv
  <2> QED BY <2>1, <2>2
<1> HIDE DEF s
<1>5. CASE k.pc = "over"
  BY <1>2, <1>3, <1>4, <1>5, InsideStep
<1>6. CASE k.pc # "over"
  <2>1. s.got \in {{}, k.reply}
    BY <1>1, <1>3, <1>6 DEF Good
  <2> QED BY <1>2, <1>3, <1>4, <1>6, <2>1, ReturnStep
<1> QED BY <1>5, <1>6

(* The end of the callee changes nothing the caller has seen.              *)
LEMMA KillStep ==
  ASSUME Inv, Kill
  PROVE  Inv' /\ [Remote!Next]_Remote!vars
<1>1. ASSUME NEW c \in Conn
      PROVE  /\ conn'[c] \in State /\ Good(conn'[c]) /\ SameCall(conn[c], conn'[c])
             /\ conn'[c].got = conn[c].got /\ conn'[c].pc = conn[c].pc
  <2> DEFINE k == conn[c]
             s == [k EXCEPT !.at = "closed"]
  <2>1. Good(k) /\ k \in State
    BY DEF Inv, Good
  <2>2. CASE k.at = "none"
    <3>1. conn'[c] = k
      BY <2>2 DEF Kill
    <3> QED BY <2>1, <3>1 DEF SameCall
  <2>3. CASE k.at # "none"
    <3>1. conn'[c] = s
      BY <2>3 DEF Kill
    <3>2. s \in State /\ Good(s)
      BY <2>1, <2>3 DEF Good, State
    <3>3. SameCall(k, s) /\ s.got = k.got /\ s.pc = k.pc
      BY <2>1 DEF SameCall, State
    <3> HIDE DEF s
    <3> QED BY <3>1, <3>2, <3>3
  <2> QED BY <2>2, <2>3
<1>2. conn' = [c \in Conn |-> conn'[c]] /\ up' \in BOOLEAN /\ faults' = faults
  BY DEF Kill
<1>3. conn' \in [Conn -> State]
  BY <1>1, <1>2
<1>4. Inv'
  BY <1>1, <1>2, <1>3 DEF Inv
<1>5. waiting' = waiting
  BY <1>1, Zenon DEF waiting
<1>6. asked' = asked /\ executed' = executed /\ result' = result /\ returned' = returned
  BY <1>1 DEF SameCall, asked, executed, result, returned
<1> QED BY <1>4, <1>5, <1>6 DEF Remote!vars

-----------------------------------------------------------------------------
(* The theorems.                                                           *)

LEMMA StepInv ==
  ASSUME Inv, [Next]_vars
  PROVE  Inv' /\ [Remote!Next]_Remote!vars
<1>1. CASE UNCHANGED vars
  <2>1. Inv'
    BY <1>1 DEF Inv, vars
  <2>2. UNCHANGED Remote!vars
    BY <1>1 DEF Remote!vars, vars, waiting, asked, executed, result, returned
  <2> QED BY <2>1, <2>2
<1>2. CASE Kill
  BY <1>2, KillStep
<1>3. ASSUME NEW c \in Conn, Begin(c) \/ CallerSteps(c) \/ HandlerSteps(c) \/ Faults(c)
      PROVE  Inv' /\ [Remote!Next]_Remote!vars
  BY <1>3, BeginStep, ConnectStep, WriteStep, ReadReplyStep, AcceptStep, HandlerReadStep,
     HandlerRunStep, HandlerRespondStep, ConnectFailsStep, BreakStep
     DEF CallerSteps, HandlerSteps, Faults
<1> QED BY <1>1, <1>2, <1>3 DEF Next

LEMMA AlwaysInv == Spec => []Inv
<1>1. Inv /\ [Next]_vars => Inv'
  BY StepInv
<1> QED BY InitInv, <1>1, PTL DEF Spec

(* Every reachable state is well typed; in particular only lengths that    *)
(* are positive are ever written as the header of a reply.                 *)
THEOREM TypeCorrect == Spec => []TypeOK
<1>1. Inv => TypeOK
  BY DEF Inv, TypeOK
<1> QED BY AlwaysInv, <1>1, PTL

(* A node that the framing lets through can be read at the other end, for  *)
(* all nodes and texts within LengthBound, char signed or not.             *)
THEOREM FramedAlwaysParses == Spec => []FramedParses
<1>1. Inv => FramedParses
  BY DEF Inv, Good, FramedParses
<1> QED BY AlwaysInv, <1>1, PTL

(* A remote call is an exchange: what the handler executes is what was     *)
(* asked, once at most, and the caller gets what that gave or nothing, for *)
(* any number of calls at once and whatever fails.                         *)
THEOREM CallRefines == Spec => CallIsExchange
<1>1. Init => Remote!Init
  <2> SUFFICES ASSUME Init PROVE Remote!Init
    OBVIOUS
  <2>1. \A c \in Conn : /\ (conn[c].pc # "over") = FALSE /\ conn[c].req = {} /\ conn[c].ran = {}
                        /\ conn[c].reply = {} /\ conn[c].got = {}
    BY DEF Init, Unused
  <2>2. waiting = [c \in Conn |-> FALSE]
    BY <2>1, Zenon DEF waiting
  <2>3. /\ asked = [c \in Conn |-> {}] /\ executed = [c \in Conn |-> {}]
        /\ result = [c \in Conn |-> {}] /\ returned = [c \in Conn |-> {}]
    BY <2>1 DEF asked, executed, result, returned
  <2> QED BY <2>2, <2>3 DEF Remote!Init
<1>2. Inv /\ [Next]_vars => [Remote!Next]_Remote!vars
  BY StepInv
<1> QED BY AlwaysInv, <1>1, <1>2, PTL DEF Spec, CallIsExchange, Remote!Spec
=============================================================================
