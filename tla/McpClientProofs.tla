--------------------------- MODULE McpClientProofs ---------------------------
(***************************************************************************)
(* The MCP clients, for any number of calls and any amount of noise on the *)
(* wire: types, the causes of a lost connection, who is woken by it, and   *)
(* that McpClient implements RpcContract.                                  *)
(***************************************************************************)
EXTENDS McpClient, TLAPS

LEMMA TypeInit == Init => TypeOK
<1> SUFFICES ASSUME Init PROVE TypeOK
  OBVIOUS
<1>1. wire \in Seq(Messages)
  BY DEF Init
<1>2. noise \in 0 .. MaxNoise /\ nextId \in Nat
  BY MaxNoiseAssumption DEF Init
<1> QED BY <1>1, <1>2 DEF Init, TypeOK

LEMMA TypeServer ==
  ASSUME TypeOK,
         \/ \E p \in inbox : Answer(p[1], p[2])
         \/ \E kind \in {"stray", "undecodable", "misframed"} : Garble(kind)
         \/ Exit
  PROVE  TypeOK'
<1> USE DEF TypeOK, task, caller
<1>1. ASSUME NEW p \in inbox, Answer(p[1], p[2]) PROVE TypeOK'
  <2>1. p[1] \in Nat /\ p[2] \in Calls
    OBVIOUS
  <2>2. [kind |-> "reply", id |-> p[1], to |-> p[2]] \in Messages
    BY <2>1 DEF Messages
  <2> QED BY <1>1, <2>1, <2>2 DEF Answer
<1>2. ASSUME NEW kind \in {"stray", "undecodable", "misframed"}, Garble(kind) PROVE TypeOK'
  <2>1. [kind |-> kind] \in Messages
    BY DEF Messages
  <2> QED BY <1>2, <2>1, MaxNoiseAssumption DEF Garble
<1>3. CASE Exit
  BY <1>3 DEF Exit
<1> QED BY <1>1, <1>2, <1>3

LEMMA TypeCaller ==
  ASSUME TypeOK, NEW c \in Calls,
         \/ Request(c) \/ Refuse(c) \/ Sent(c) \/ SendFails(c)
         \/ Return(c) \/ TimeOut(c) \/ CancelCall(c)
  PROVE  TypeOK'
<1> USE DEF TypeOK, world, task
<1>1. CASE Request(c)
  BY <1>1 DEF Request
<1>2. CASE Refuse(c) \/ SendFails(c)
  BY <1>2 DEF Refuse, SendFails, Finish
<1>3. CASE Sent(c)
  BY <1>3 DEF Sent
<1>4. CASE Return(c)
  BY <1>4 DEF Return, Finish
<1>5. CASE TimeOut(c) \/ CancelCall(c)
  BY <1>5 DEF TimeOut, CancelCall, GiveUp, Finish
<1> QED BY <1>1, <1>2, <1>3, <1>4, <1>5

(* What the reader takes from the wire is a message.                       *)
LEMMA FirstIsMessage ==
  ASSUME TypeOK, wire # <<>>
  PROVE  /\ First \in Messages
         /\ Tail(wire) \in Seq(Messages)
         /\ First.kind = "reply" => First.id \in Nat /\ First.to \in Calls
<1>1. First \in Messages /\ Tail(wire) \in Seq(Messages)
  BY DEF TypeOK, First
<1> QED BY <1>1 DEF Messages

LEMMA FailPendingType ==
  ASSUME TypeOK, FailPending
  PROVE  /\ pending' \subseteq Nat \X Calls
         /\ future' \in [Calls -> Calls \cup {"none", "cancelled", "lost"}]
BY DEF TypeOK, FailPending

LEMMA TypeReader ==
  ASSUME TypeOK, Read \/ Stop
  PROVE  TypeOK'
<1> USE DEF TypeOK
<1>1. CASE SkipStray \/ SkipUndecodable
  BY <1>1, FirstIsMessage DEF SkipStray, SkipUndecodable, task, caller
<1>2. ASSUME NEW c \in Calls, Resolve(c) PROVE TypeOK'
  BY <1>2, FirstIsMessage DEF Resolve, NextReply
<1>3. ASSUME NEW c \in Calls, DropReply(c) PROVE TypeOK'
  BY <1>3, FirstIsMessage DEF DropReply, NextReply, caller
<1>4. ASSUME NEW c \in Calls, TripOverReply(c) PROVE TypeOK'
  BY <1>4, FirstIsMessage, FailPendingType DEF TripOverReply, NextReply, Ends
<1>5. CASE Tear
  BY <1>5, FirstIsMessage, FailPendingType DEF Tear, Ends
<1>6. CASE EndOfStream
  BY <1>6, FailPendingType DEF EndOfStream, Ends, world
<1>7. CASE Stop
  BY <1>7, FailPendingType DEF Stop
<1> QED BY <1>1, <1>2, <1>3, <1>4, <1>5, <1>6, <1>7 DEF Read

LEMMA TypeStep == TypeOK /\ [Next]_vars => TypeOK'
<1> SUFFICES ASSUME TypeOK, [Next]_vars PROVE TypeOK'
  OBVIOUS
<1>1. CASE UNCHANGED vars
  BY <1>1 DEF TypeOK, vars, world, task, caller
<1>2. CASE Next
  BY <1>2, TypeServer, TypeCaller, TypeReader DEF Next
<1> QED BY <1>1, <1>2

(* Every variable of the clients keeps its type.                           *)
THEOREM ClientTypeCorrect == Spec => []TypeOK
BY TypeInit, TypeStep, PTL DEF Spec

-----------------------------------------------------------------------------
(* An id is one call's only, and a call has one id only, wherever it is    *)
(* on its way: in the server, on the wire or in _pending.                  *)

OnWire(n, c) == \E i \in DOMAIN wire : wire[i] = [kind |-> "reply", id |-> n, to |-> c]

Traced(n, c) == <<n, c>> \in inbox \/ <<n, c>> \in pending \/ OnWire(n, c)

IdInv ==
  /\ \A n \in Nat, c \in Calls : Traced(n, c) => n < nextId /\ at[c] # "idle"
  /\ \A n, m \in Nat, c, d \in Calls : Traced(n, c) /\ Traced(m, d) => (n = m <=> c = d)

LEMMA OnWireTail ==
  ASSUME TypeOK, wire # <<>>, wire' = Tail(wire), NEW n, NEW c, OnWire(n, c)'
  PROVE  OnWire(n, c)
<1>1. PICK i \in DOMAIN wire' : wire'[i] = [kind |-> "reply", id |-> n, to |-> c]
  BY DEF OnWire
<1>2. i \in Nat /\ i + 1 \in DOMAIN wire /\ wire'[i] = wire[i + 1]
  BY <1>1 DEF TypeOK
<1> QED BY <1>1, <1>2 DEF OnWire

LEMMA OnWireAppend ==
  ASSUME TypeOK, NEW e \in Messages, wire' = Append(wire, e), NEW n, NEW c, OnWire(n, c)'
  PROVE  OnWire(n, c) \/ e = [kind |-> "reply", id |-> n, to |-> c]
<1>1. PICK i \in DOMAIN wire' : wire'[i] = [kind |-> "reply", id |-> n, to |-> c]
  BY DEF OnWire
<1>2. CASE i \in DOMAIN wire
  BY <1>1, <1>2 DEF OnWire, TypeOK
<1>3. CASE i \notin DOMAIN wire
  BY <1>1, <1>3 DEF TypeOK
<1> QED BY <1>2, <1>3

(* The first reply is that of its owner.                                   *)
LEMMA FirstOnWire ==
  ASSUME TypeOK, wire # <<>>, First.kind = "reply"
  PROVE  OnWire(First.id, First.to)
<1>1. First = [kind |-> "reply", id |-> First.id, to |-> First.to]
  BY FirstIsMessage DEF Messages
<1>2. 1 \in DOMAIN wire /\ First = wire[1]
  BY DEF TypeOK, First
<1> QED BY <1>1, <1>2 DEF OnWire

LEMMA IdInit == Init => IdInv
BY DEF Init, IdInv, Traced, OnWire

(* Nobody but Request puts a new pair on its way.                          *)
LEMMA NothingTraced ==
  ASSUME TypeOK, [Next]_vars, \A c \in Calls : ~Request(c),
         NEW n \in Nat, NEW d \in Calls, Traced(n, d)'
  PROVE  Traced(n, d)
<1> USE DEF Traced
<1>1. ASSUME NEW p \in inbox, Answer(p[1], p[2]) PROVE Traced(n, d)
  <2>1. p[1] \in Nat /\ p[2] \in Calls /\ p = <<p[1], p[2]>>
    BY DEF TypeOK
  <2>2. [kind |-> "reply", id |-> p[1], to |-> p[2]] \in Messages
    BY <2>1 DEF Messages
  <2>3. OnWire(n, d)' => OnWire(n, d) \/ <<n, d>> = p
    BY <1>1, <2>1, <2>2, OnWireAppend DEF Answer
  <2> QED BY <1>1, <2>3 DEF Answer, task
<1>2. ASSUME NEW kind \in {"stray", "undecodable", "misframed"}, Garble(kind) PROVE Traced(n, d)
  <2>1. [kind |-> kind] \in Messages
    BY DEF Messages
  <2>2. OnWire(n, d)' => OnWire(n, d)
    BY <1>2, <2>1, OnWireAppend DEF Garble
  <2> QED BY <1>2, <2>2 DEF Garble, task
<1>3. CASE Exit \/ Stop \/ EndOfStream
  BY <1>3 DEF Exit, Stop, EndOfStream, FailPending, OnWire, task, world
<1>4. ASSUME NEW c \in Calls,
             Refuse(c) \/ Sent(c) \/ SendFails(c) \/ Return(c) \/ TimeOut(c) \/ CancelCall(c)
      PROVE  Traced(n, d)
  BY <1>4 DEF Refuse, Sent, SendFails, Return, TimeOut, CancelCall, GiveUp, OnWire, task, world
<1>5. CASE SkipStray \/ SkipUndecodable \/ Tear
  <2>1. OnWire(n, d)' => OnWire(n, d)
    BY <1>5, OnWireTail DEF SkipStray, SkipUndecodable, Tear
  <2> QED BY <1>5, <2>1 DEF SkipStray, SkipUndecodable, Tear, FailPending, task
<1>6. ASSUME NEW c \in Calls, Resolve(c) \/ DropReply(c) \/ TripOverReply(c)
      PROVE  Traced(n, d)
  <2>1. OnWire(n, d)' => OnWire(n, d)
    BY <1>6, OnWireTail DEF Resolve, DropReply, TripOverReply, NextReply
  <2> QED BY <1>6, <2>1 DEF Resolve, DropReply, TripOverReply, FailPending
<1>7. CASE UNCHANGED vars
  BY <1>7 DEF vars, world, task, OnWire
<1> QED BY <1>1, <1>2, <1>3, <1>4, <1>5, <1>6, <1>7 DEF Next, Read

LEMMA StaysBegun ==
  ASSUME TypeOK, [Next]_vars, NEW c \in Calls, at[c] # "idle"
  PROVE  at'[c] # "idle" /\ nextId' >= nextId
<1> USE DEF TypeOK, caller
<1>1. ASSUME NEW d \in Calls,
             \/ Request(d) \/ Refuse(d) \/ Sent(d) \/ SendFails(d)
             \/ Return(d) \/ TimeOut(d) \/ CancelCall(d)
      PROVE  at'[c] # "idle" /\ nextId' >= nextId
  BY <1>1 DEF Request, Refuse, Sent, SendFails, Return, TimeOut, CancelCall, GiveUp, Finish
<1>2. CASE ~\E d \in Calls :
             \/ Request(d) \/ Refuse(d) \/ Sent(d) \/ SendFails(d)
             \/ Return(d) \/ TimeOut(d) \/ CancelCall(d)
  <2>1. at' = at /\ nextId' = nextId
    BY <1>2 DEF Next, Read, Answer, Garble, Exit, SkipStray, Resolve, DropReply, TripOverReply,
                SkipUndecodable, Tear, EndOfStream, Stop, vars
  <2> QED BY <2>1
<1> QED BY <1>1, <1>2

LEMMA IdStep == TypeOK /\ IdInv /\ [Next]_vars => IdInv'
<1> SUFFICES ASSUME TypeOK, IdInv, [Next]_vars PROVE IdInv'
  OBVIOUS
<1>1. ASSUME NEW c \in Calls, Request(c) PROVE IdInv'
  <2>1. ASSUME NEW n \in Nat, NEW d \in Calls, Traced(n, d)'
        PROVE  Traced(n, d) \/ (n = nextId /\ d = c)
    <3>1. wire' = wire /\ inbox' \subseteq inbox \cup {<<nextId, c>>}
          /\ pending' = pending \cup {<<nextId, c>>}
      BY <1>1 DEF Request
    <3> QED BY <2>1, <3>1 DEF Traced, OnWire
  <2>2. nextId \in Nat /\ nextId' = nextId + 1 /\ at[c] = "idle"
        /\ at' = [at EXCEPT ![c] = "sending"] /\ DOMAIN at = Calls
    BY <1>1 DEF Request, TypeOK
  <2> QED BY <2>1, <2>2 DEF IdInv
<1>2. CASE \A c \in Calls : ~Request(c)
  <2>1. \A n \in Nat, d \in Calls : Traced(n, d)' => Traced(n, d)
    BY <1>2, NothingTraced
  <2>2. ASSUME NEW n \in Nat, NEW d \in Calls, Traced(n, d)'
        PROVE  n < nextId' /\ at'[d] # "idle"
    <3>1. n < nextId /\ at[d] # "idle"
      BY <2>1, <2>2 DEF IdInv
    <3>2. at'[d] # "idle" /\ nextId' >= nextId
      BY <3>1, StaysBegun
    <3>3. nextId \in Nat /\ nextId' \in Nat
      BY TypeStep DEF TypeOK
    <3> QED BY <3>1, <3>2, <3>3
  <2> QED BY <2>1, <2>2 DEF IdInv
<1> QED BY <1>1, <1>2

-----------------------------------------------------------------------------
(* What is true of a call and its future, wherever the call stands.        *)

Open(c) == at[c] \in {"sending", "waiting"}

Sound(c) ==
  /\ at[c] = "idle" => future[c] = "none" /\ c \notin answered
  /\ at[c] \in {"idle", "sending", "waiting"} => result[c] = "none"
  /\ future[c] = "cancelled" => at[c] = "done" /\ GivenUp(c)
  /\ future[c] = "lost" \/ result[c] = "lost" => reader = "ended"
  /\ future[c] \in Calls => future[c] = c /\ c \in answered
  /\ result[c] \in Calls => result[c] = c /\ c \in answered

(* A pair in _pending still has its future to resolve, a request at the    *)
(* server is unanswered, a reply on the wire is an answer.                 *)
Placed(n, c) ==
  /\ <<n, c>> \in pending => future[c] \in {"none", "cancelled"}
  /\ <<n, c>> \in inbox => c \notin answered
  /\ OnWire(n, c) => c \in answered

(* MCPServer's reader can still reach everyone who waits.                  *)
Reachable(c) ==
  Limited /\ Open(c) /\ future[c] = "none" /\ c \notin late =>
    reader = "reading" /\ \E n \in Nat : <<n, c>> \in pending

Blameless ==
  reader = "ended" =>
    \/ server = "exited" \/ torn
    \/ Limited /\ \E c \in Calls : GivenUp(c) /\ c \in answered

CallInv ==
  /\ \A c \in Calls : Sound(c)
  /\ \A n \in Nat, c \in Calls : Placed(n, c)
  /\ \A c \in Calls : Reachable(c)
  /\ Blameless

LEMMA CallInit == Init => CallInv
BY CallsAssumption DEF Init, CallInv, Sound, Placed, OnWire, Reachable, Open, Blameless, Limited

LEMMA CallImplies == CallInv => LossHasACause /\ WokenAtLoss
BY DEF CallInv, Sound, Reachable, Open, Blameless, LossHasACause, WokenAtLoss, GivenUp

(* A step that only moves one open call to its end.                        *)
LEMMA GiveUpStep ==
  ASSUME TypeOK, CallInv, NEW c \in Calls, Open(c), NEW r \in {"timeout", "cancelled"},
         GiveUp(c, r)
  PROVE  CallInv'
<1> USE DEF GiveUp, Finish, world, task, TypeOK
<1>1. ASSUME NEW d \in Calls PROVE Sound(d)'
  <2>1. Sound(d) /\ Sound(c)
    BY DEF CallInv
  <2> QED BY <2>1, CallsAssumption DEF Sound, Open, GivenUp
<1>2. ASSUME NEW n \in Nat, NEW d \in Calls PROVE Placed(n, d)'
  <2>1. Placed(n, d)
    BY DEF CallInv
  <2> QED BY <2>1 DEF Placed, OnWire
<1>3. ASSUME NEW d \in Calls PROVE Reachable(d)'
  <2>1. Reachable(d)
    BY DEF CallInv
  <2> QED BY <2>1 DEF Reachable, Open, Limited
<1>4. Blameless'
  <2>1. \A d \in Calls : GivenUp(d) => GivenUp(d)'
    BY DEF GivenUp
  <2> QED BY <2>1 DEF CallInv, Blameless, Limited
<1> QED BY <1>1, <1>2, <1>3, <1>4 DEF CallInv

LEMMA CallServer ==
  ASSUME TypeOK, IdInv, CallInv,
         \/ \E p \in inbox : Answer(p[1], p[2])
         \/ \E kind \in {"stray", "undecodable", "misframed"} : Garble(kind)
         \/ Exit
  PROVE  CallInv'
<1> USE DEF task, caller
<1>1. ASSUME NEW p \in inbox, Answer(p[1], p[2]) PROVE CallInv'
  <2>1. p[1] \in Nat /\ p[2] \in Calls /\ p = <<p[1], p[2]>>
    BY DEF TypeOK
  <2>2. [kind |-> "reply", id |-> p[1], to |-> p[2]] \in Messages
    BY <2>1 DEF Messages
  <2>3. UNCHANGED <<client, server, reader, stopped, torn, pending, at, future, result, late>>
        /\ inbox' = inbox \ {p} /\ answered' = answered \cup {p[2]}
    BY <1>1, <2>1 DEF Answer
  <2>4. ASSUME NEW n \in Nat, NEW d \in Calls PROVE Placed(n, d)'
    <3>1. Placed(n, d)
      BY DEF CallInv
    <3>2. OnWire(n, d)' => OnWire(n, d) \/ <<n, d>> = p
      BY <1>1, <2>1, <2>2, OnWireAppend DEF Answer
    <3>3. <<n, d>> \in inbox' => d # p[2]
      BY <2>1, <2>3 DEF IdInv, Traced
    <3> QED BY <2>1, <2>3, <3>1, <3>2, <3>3 DEF Placed
  <2>5. \A d \in Calls : Sound(d)' /\ Reachable(d)'
    <3>1. at[p[2]] # "idle"
      BY <2>1 DEF IdInv, Traced
    <3> QED BY <2>3, <3>1 DEF CallInv, Sound, Reachable, Open, Limited, GivenUp
  <2>6. Blameless'
    BY <2>3 DEF CallInv, Blameless, GivenUp, Limited
  <2> QED BY <2>4, <2>5, <2>6 DEF CallInv
<1>2. ASSUME NEW kind \in {"stray", "undecodable", "misframed"}, Garble(kind) PROVE CallInv'
  <2>1. [kind |-> kind] \in Messages
    BY DEF Messages
  <2>2. \A n \in Nat, d \in Calls : OnWire(n, d)' => OnWire(n, d)
    BY <1>2, <2>1, OnWireAppend DEF Garble
  <2>3. \A n \in Nat, d \in Calls : Placed(n, d)'
    BY <1>2, <2>2 DEF Garble, CallInv, Placed
  <2>4. \A d \in Calls : Sound(d)' /\ Reachable(d)'
    BY <1>2 DEF Garble, CallInv, Sound, Reachable, Open, Limited, GivenUp
  <2>5. Blameless'
    BY <1>2 DEF Garble, CallInv, Blameless, GivenUp, Limited
  <2> QED BY <2>3, <2>4, <2>5 DEF CallInv
<1>3. CASE Exit
  BY <1>3 DEF Exit, CallInv, Sound, Placed, OnWire, Reachable, Open, Blameless, GivenUp, Limited
<1> QED BY <1>1, <1>2, <1>3

LEMMA CallCaller ==
  ASSUME TypeOK, IdInv, CallInv, NEW c \in Calls,
         \/ Request(c) \/ Refuse(c) \/ Sent(c) \/ SendFails(c)
         \/ Return(c) \/ TimeOut(c) \/ CancelCall(c)
  PROVE  CallInv'
<1> USE DEF TypeOK, world, task
<1>1. CASE Request(c)
  <2>1. ASSUME NEW d \in Calls PROVE Sound(d)'
    BY <1>1 DEF Request, CallInv, Sound, GivenUp
  <2>2. ASSUME NEW n \in Nat, NEW d \in Calls PROVE Placed(n, d)'
    <3>1. Placed(n, d) /\ Sound(d)
      BY DEF CallInv
    <3> QED BY <1>1, <3>1 DEF Request, Placed, Sound, OnWire
  <2>3. ASSUME NEW d \in Calls PROVE Reachable(d)'
    <3>1. Reachable(d)
      BY DEF CallInv
    <3>2. CASE d = c
      BY <1>1, <3>2 DEF Request, Reachable, Limited
    <3>3. CASE d # c
      BY <1>1, <3>1, <3>3 DEF Request, Reachable, Open, Limited
    <3> QED BY <3>2, <3>3
  <2>4. Blameless'
    BY <1>1 DEF Request, CallInv, Blameless, GivenUp, Limited
  <2> QED BY <2>1, <2>2, <2>3, <2>4 DEF CallInv
<1>2. CASE Refuse(c) \/ SendFails(c) \/ Return(c)
  <2>1. PICK r \in {"closed", future[c]} : Finish(c, r) /\ (r = future[c] => at[c] = "waiting" /\ r # "none")
    BY <1>2, CallsAssumption DEF Refuse, SendFails, Return
  <2>2. UNCHANGED <<client, world, task, nextId, future, late>> /\ at[c] # "done"
    BY <1>2 DEF Refuse, SendFails, Return
  <2>3. ASSUME NEW d \in Calls PROVE Sound(d)'
    <3>1. Sound(d) /\ Sound(c)
      BY DEF CallInv
    <3> QED BY <2>1, <2>2, <3>1, CallsAssumption DEF Finish, Sound, GivenUp
  <2>4. ASSUME NEW n \in Nat, NEW d \in Calls PROVE Placed(n, d)' /\ Reachable(d)'
    <3>1. Placed(n, d)'
      BY <2>2 DEF CallInv, Placed, OnWire
    <3>2. Reachable(d)
      BY DEF CallInv
    <3>3. at'[d] \in {at[d], "done"}
      BY <2>1 DEF Finish
    <3> QED BY <2>2, <3>1, <3>2, <3>3 DEF Reachable, Open, Limited
  <2>5. Blameless'
    <3>1. \A d \in Calls : GivenUp(d) => GivenUp(d)'
      BY <2>1, <2>2 DEF CallInv, Sound, Finish, GivenUp
    <3> QED BY <2>2, <3>1 DEF CallInv, Blameless, Limited
  <2> QED BY <2>3, <2>4, <2>5 DEF CallInv
<1>3. CASE Sent(c)
  <2>1. UNCHANGED <<client, world, task, nextId, future, result, late>>
        /\ at[c] = "sending" /\ at' = [at EXCEPT ![c] = "waiting"]
    BY <1>3 DEF Sent
  <2>2. ASSUME NEW d \in Calls PROVE Sound(d)' /\ Reachable(d)'
    <3>1. Sound(d) /\ Reachable(d)
      BY DEF CallInv
    <3>2. at'[d] = at[d] \/ (at[d] = "sending" /\ at'[d] = "waiting")
      BY <2>1
    <3> QED BY <2>1, <3>1, <3>2 DEF Sound, GivenUp, Reachable, Open, Limited
  <2>3. (\A n \in Nat, d \in Calls : Placed(n, d)') /\ Blameless'
    BY <2>1 DEF CallInv, Placed, OnWire, Blameless, GivenUp, Limited
  <2> QED BY <2>2, <2>3 DEF CallInv
<1>4. CASE TimeOut(c) \/ CancelCall(c)
  BY <1>4, GiveUpStep DEF TimeOut, CancelCall, Open
<1> QED BY <1>1, <1>2, <1>3, <1>4

(* The reader ends and fails what is registered, for a cause.              *)
LEMMA FailPendingStep ==
  ASSUME TypeOK, IdInv, CallInv, FailPending, reader' = "ended", Blameless',
         UNCHANGED <<client, at, result, answered, late>>,
         Limited => reader = "reading",
         \A n \in Nat, c \in Calls : OnWire(n, c)' => OnWire(n, c),
         inbox' \subseteq inbox
  PROVE  CallInv'
<1> USE DEF FailPending, TypeOK
<1>1. ASSUME NEW c \in Calls PROVE Sound(c)'
  <2>1. Sound(c)
    BY DEF CallInv
  <2>2. \A p \in pending : p[2] = c => at[c] # "idle"
    BY DEF IdInv, Traced
  <2> QED BY <2>1, <2>2, CallsAssumption DEF Sound, GivenUp
<1>2. ASSUME NEW n \in Nat, NEW c \in Calls PROVE Placed(n, c)'
  BY DEF CallInv, Placed
<1>3. ASSUME NEW c \in Calls PROVE Reachable(c)'
  BY DEF CallInv, Reachable, Open, Limited
<1> QED BY <1>1, <1>2, <1>3 DEF CallInv

LEMMA CallReader ==
  ASSUME TypeOK, IdInv, CallInv, Read \/ Stop
  PROVE  CallInv'
<1>1. CASE SkipStray \/ SkipUndecodable
  <2>1. \A n \in Nat, c \in Calls : OnWire(n, c)' => OnWire(n, c)
    BY <1>1, OnWireTail DEF SkipStray, SkipUndecodable
  <2>2. UNCHANGED <<client, server, inbox, answered, task, caller>>
    BY <1>1 DEF SkipStray, SkipUndecodable
  <2> QED BY <2>1, <2>2 DEF task, caller, CallInv, Sound, Placed, Reachable, Open, Blameless,
                            GivenUp, Limited
(* The owner of the entry is the call answered.                            *)
<1>2. ASSUME NEW c \in Calls, NextReply, c \in Owners
      PROVE  /\ First.to = c /\ c \in answered
             /\ First.id \in Nat /\ <<First.id, c>> \in pending
             /\ \A n \in Nat : <<n, c>> \in pending => n = First.id
             /\ \A n \in Nat, d \in Calls : OnWire(n, d)' => OnWire(n, d)
  <2>1. First.id \in Nat /\ First.to \in Calls /\ OnWire(First.id, First.to)
    BY <1>2, FirstIsMessage, FirstOnWire DEF NextReply
  <2>2. <<First.id, c>> \in pending
    BY <1>2 DEF Owners
  <2>3. First.to = c /\ \A n \in Nat : <<n, c>> \in pending => n = First.id
    BY <2>1, <2>2 DEF IdInv, Traced
  <2>4. c \in answered
    BY <2>1, <2>3 DEF CallInv, Placed
  <2>5. \A n \in Nat, d \in Calls : OnWire(n, d)' => OnWire(n, d)
    BY <1>2, OnWireTail DEF NextReply
  <2> QED BY <2>1, <2>2, <2>3, <2>4, <2>5
<1>3. ASSUME NEW c \in Calls, Resolve(c) PROVE CallInv'
  <2>1. /\ First.to = c /\ c \in answered
        /\ \A n \in Nat : <<n, c>> \in pending => n = First.id
        /\ \A n \in Nat, d \in Calls : OnWire(n, d)' => OnWire(n, d)
    BY <1>2, <1>3 DEF Resolve
  <2>2. /\ future' = [future EXCEPT ![c] = c] /\ DOMAIN future = Calls
        /\ pending' = pending \ {<<First.id, c>>}
        /\ UNCHANGED <<client, server, inbox, answered, reader, torn, at, result, late>>
    BY <1>3, <2>1 DEF Resolve, TypeOK
  <2>3. at[c] # "idle"
    BY <2>1 DEF CallInv, Sound
  <2>4. ASSUME NEW d \in Calls PROVE Sound(d)'
    <3>1. Sound(d)
      BY DEF CallInv
    <3> QED BY <2>1, <2>2, <2>3, <3>1, CallsAssumption DEF Sound, GivenUp
  <2>5. ASSUME NEW n \in Nat, NEW d \in Calls PROVE Placed(n, d)'
    <3>1. Placed(n, d)
      BY DEF CallInv
    <3> QED BY <2>1, <2>2, <3>1 DEF Placed
  <2>6. ASSUME NEW d \in Calls PROVE Reachable(d)'
    <3>1. Reachable(d)
      BY DEF CallInv
    <3> QED BY <2>2, <3>1, CallsAssumption DEF Reachable, Open, Limited
  <2>7. Blameless'
    BY <2>2 DEF CallInv, Blameless, GivenUp, Limited
  <2> QED BY <2>4, <2>5, <2>6, <2>7 DEF CallInv
<1>4. ASSUME NEW c \in Calls, DropReply(c) PROVE CallInv'
  <2>1. \A n \in Nat, d \in Calls : OnWire(n, d)' => OnWire(n, d)
    BY <1>2, <1>4 DEF DropReply
  <2>2. /\ ~Limited /\ pending' \subseteq pending
        /\ UNCHANGED <<client, server, inbox, answered, reader, torn, at, future, result, late>>
    BY <1>4 DEF DropReply, caller
  <2> QED BY <2>1, <2>2 DEF CallInv, Sound, Placed, Reachable, Open, Blameless, GivenUp, Limited
<1>5. ASSUME NEW c \in Calls, TripOverReply(c) PROVE CallInv'
  <2>1. /\ c \in answered /\ First.id \in Nat /\ <<First.id, c>> \in pending
        /\ \A n \in Nat, d \in Calls : OnWire(n, d)' => OnWire(n, d)
    BY <1>2, <1>5 DEF TripOverReply
  <2>2. GivenUp(c)
    BY <1>5, <2>1 DEF TripOverReply, CallInv, Placed, Sound
  <2>3. Blameless'
    BY <1>5, <2>1, <2>2 DEF TripOverReply, Blameless, GivenUp, Limited
  <2> QED BY <1>5, <2>1, <2>3, FailPendingStep DEF TripOverReply, Ends
<1>6. CASE Tear
  <2>1. \A n \in Nat, d \in Calls : OnWire(n, d)' => OnWire(n, d)
    BY <1>6, OnWireTail DEF Tear
  <2>2. Blameless'
    BY <1>6 DEF Tear, Blameless
  <2> QED BY <1>6, <2>1, <2>2, FailPendingStep DEF Tear, Ends
<1>7. CASE EndOfStream \/ Stop
  <2>1. /\ Blameless' /\ reader' = "ended"
        /\ \A n \in Nat, d \in Calls : OnWire(n, d)' => OnWire(n, d)
        /\ inbox' \subseteq inbox
        /\ UNCHANGED <<client, at, result, answered, late>>
    BY <1>7 DEF EndOfStream, Stop, Ends, Blameless, OnWire, world
  <2>2. CASE Limited /\ reader = "reading"
    BY <1>7, <2>1, <2>2, FailPendingStep DEF EndOfStream, Stop
  <2>3. CASE ~(Limited /\ reader = "reading")
    <3>1. UNCHANGED <<pending, future>>
      BY <1>7, <2>3 DEF EndOfStream, Stop, Ends
    <3> QED BY <2>1, <2>3, <3>1 DEF CallInv, Sound, Placed, Reachable, Open, GivenUp, Limited
  <2> QED BY <2>2, <2>3
<1> QED BY <1>1, <1>3, <1>4, <1>5, <1>6, <1>7 DEF Read

LEMMA CallStep == TypeOK /\ IdInv /\ CallInv /\ [Next]_vars => CallInv'
<1> SUFFICES ASSUME TypeOK, IdInv, CallInv, [Next]_vars PROVE CallInv'
  OBVIOUS
<1>1. CASE UNCHANGED vars
  BY <1>1 DEF vars, world, task, caller, CallInv, Sound, Placed, OnWire, Reachable, Open,
              Blameless, GivenUp, Limited
<1>2. CASE Next
  BY <1>2, CallServer, CallCaller, CallReader DEF Next
<1> QED BY <1>1, <1>2

LEMMA CallsCorrect == Spec => [](TypeOK /\ IdInv /\ CallInv)
<1>1. TypeOK /\ IdInv /\ CallInv /\ [Next]_vars => (TypeOK /\ IdInv /\ CallInv)'
  BY TypeStep, IdStep, CallStep
<1> QED BY <1>1, TypeInit, IdInit, CallInit, PTL DEF Spec

(* A caller told of a lost connection is told after the reader ended, and  *)
(* that had a cause.  (_read_loop, _fail_pending)                          *)
THEOREM LossIsExplained == Spec => []LossHasACause
BY CallsCorrect, CallImplies, PTL

(* MCPServer's reader leaves nobody behind who called before it ended.     *)
(* (_read_loop, _fail_pending)                                             *)
THEOREM EveryWaiterIsWoken == Spec => []WokenAtLoss
BY CallsCorrect, CallImplies, PTL

-----------------------------------------------------------------------------
(* The clients implement the contract.                                     *)

Phase == [c \in Calls |-> PhaseOf(c)]

LEMMA PhaseFacts ==
  ASSUME NEW c \in Calls
  PROVE  /\ at[c] = "idle" => PhaseOf(c) = "new"
         /\ Open(c) => PhaseOf(c) = "open"
         /\ at[c] = "done" /\ result[c] = c => PhaseOf(c) = "replied"
         /\ at[c] = "done" /\ result[c] \notin Calls => PhaseOf(c) = "failed"
BY DEF PhaseOf, Open

(* A step of one caller moves its phase only.                              *)
LEMMA PhaseMoves ==
  ASSUME TypeOK, NEW c \in Calls,
         \A d \in Calls \ {c} : at'[d] = at[d] /\ result'[d] = result[d]
  PROVE  Phase' = [Phase EXCEPT ![c] = PhaseOf(c)']
<1>1. \A d \in Calls \ {c} : PhaseOf(d)' = PhaseOf(d)
  BY DEF PhaseOf
<1> QED BY <1>1 DEF Phase

LEMMA PhaseStays ==
  ASSUME UNCHANGED <<at, result>>
  PROVE  Phase' = Phase
BY DEF Phase, PhaseOf

LEMMA RpcInit == Init => Contract!Init
<1> SUFFICES ASSUME Init PROVE Contract!Init
  OBVIOUS
<1>1. \A c \in Calls : PhaseOf(c) = "new"
  BY PhaseFacts DEF Init
<1> QED BY <1>1 DEF Init, Contract!Init

LEMMA RpcCaller ==
  ASSUME TypeOK, CallInv, NEW c \in Calls,
         \/ Request(c) \/ Refuse(c) \/ Sent(c) \/ SendFails(c)
         \/ Return(c) \/ TimeOut(c) \/ CancelCall(c)
  PROVE  \/ Contract!Open(c) \/ Contract!Reply(c) \/ Contract!Fail(c)
         \/ UNCHANGED Contract!vars
<1> USE DEF Phase
<1>0. /\ answered' = answered
      /\ \A d \in Calls \ {c} : at'[d] = at[d] /\ result'[d] = result[d]
  BY DEF TypeOK, world, Request, Refuse, Sent, SendFails, Return, TimeOut, CancelCall, GiveUp, Finish
<1>1. Phase' = [Phase EXCEPT ![c] = PhaseOf(c)']
  BY <1>0, PhaseMoves
<1>2. CASE Request(c)
  <2>1. PhaseOf(c) = "new" /\ PhaseOf(c)' = "open"
    BY <1>2, PhaseFacts DEF Request, TypeOK, PhaseOf
  <2> QED BY <1>0, <1>1, <2>1 DEF Contract!Open
<1>3. CASE Refuse(c) \/ SendFails(c) \/ TimeOut(c) \/ CancelCall(c)
  <2>1. PhaseOf(c) \in {"new", "open"}
    BY <1>3, PhaseFacts DEF Refuse, SendFails, TimeOut, CancelCall, Open
  <2>2. at'[c] = "done" /\ result'[c] \in {"closed", "timeout", "cancelled"}
    BY <1>3 DEF Refuse, SendFails, TimeOut, CancelCall, GiveUp, Finish, TypeOK
  <2>3. PhaseOf(c)' = "failed"
    BY <2>2, CallsAssumption DEF PhaseOf
  <2> QED BY <1>0, <1>1, <2>1, <2>3 DEF Contract!Fail
<1>4. CASE Return(c)
  <2>1. PhaseOf(c) = "open"
    BY <1>4, PhaseFacts DEF Return, Open
  <2>2. at'[c] = "done" /\ result'[c] = future[c] /\ future[c] \in Calls \cup {"cancelled", "lost"}
    BY <1>4 DEF Return, Finish, TypeOK
  <2>3. CASE future[c] \in Calls
    <3>1. future[c] = c /\ c \in answered
      BY <2>3 DEF CallInv, Sound
    <3>2. PhaseOf(c)' = "replied"
      BY <2>2, <3>1 DEF PhaseOf
    <3> QED BY <1>0, <1>1, <2>1, <3>1, <3>2 DEF Contract!Reply
  <2>4. CASE future[c] \notin Calls
    <3>1. PhaseOf(c)' = "failed"
      BY <2>2, <2>4 DEF PhaseOf
    <3> QED BY <1>0, <1>1, <2>1, <3>1 DEF Contract!Fail
  <2> QED BY <2>3, <2>4
<1>5. CASE Sent(c)
  <2>1. PhaseOf(c)' = PhaseOf(c)
    BY <1>5 DEF Sent, TypeOK, PhaseOf
  <2>2. Phase' = Phase
    BY <1>1, <2>1
  <2> QED BY <1>0, <2>2 DEF Contract!vars
<1> QED BY <1>2, <1>3, <1>4, <1>5

LEMMA RpcStep ==
  TypeOK /\ IdInv /\ CallInv /\ [Next]_vars => [Contract!Next]_(Contract!vars)
<1> SUFFICES ASSUME TypeOK, IdInv, CallInv, [Next]_vars
             PROVE  Contract!Next \/ UNCHANGED Contract!vars
  OBVIOUS
<1>1. ASSUME NEW p \in inbox, Answer(p[1], p[2]) PROVE Contract!Produce(p[2])
  <2>1. p[1] \in Nat /\ p[2] \in Calls /\ p = <<p[1], p[2]>>
    BY DEF TypeOK
  <2>2. at[p[2]] # "idle" /\ p[2] \notin answered
    BY <2>1 DEF IdInv, Traced, CallInv, Placed
  <2>3. PhaseOf(p[2]) # "new"
    BY <2>1, <2>2 DEF PhaseOf
  <2>4. Phase' = Phase
    BY <1>1, PhaseStays DEF Answer, caller
  <2> QED BY <1>1, <2>1, <2>2, <2>3, <2>4 DEF Answer, Contract!Produce, Phase
<1>2. ASSUME NEW c \in Calls,
             \/ Request(c) \/ Refuse(c) \/ Sent(c) \/ SendFails(c)
             \/ Return(c) \/ TimeOut(c) \/ CancelCall(c)
      PROVE  Contract!Next \/ UNCHANGED Contract!vars
  BY <1>2, RpcCaller DEF Contract!Next
<1>3. CASE \/ \E kind \in {"stray", "undecodable", "misframed"} : Garble(kind)
           \/ Exit \/ Read \/ Stop \/ UNCHANGED vars
  <2>1. UNCHANGED <<at, result, answered>>
    BY <1>3 DEF Garble, Exit, Read, SkipStray, Resolve, DropReply, TripOverReply,
                SkipUndecodable, Tear, EndOfStream, Stop, vars, caller, world
  <2> QED BY <2>1, PhaseStays DEF Phase, Contract!vars
<1> QED BY <1>1, <1>2, <1>3 DEF Next, Contract!Next, TypeOK

(* Each call gets its own answer, if any, at most once, whatever was lost, *)
(* late, unreadable or cancelled.  (_request, _send_request, _read_loop)   *)
THEOREM ClientKeepsRpc == Spec => KeepsRpc
BY CallsCorrect, RpcInit, RpcStep, PTL DEF Spec, KeepsRpc, Contract!Spec
=============================================================================
