----------------------------- MODULE McpClient -----------------------------
(***************************************************************************)
(* The two JSON-RPC clients of MCP servers: MCPServer (avo/mcp.py) and     *)
(* McpStdioClient (avo/mcp_client/stdio_client.py).  Callers register a    *)
(* future under a request id, write to the server's stdin and await the    *)
(* future; one reader task takes messages from the server's stdout and     *)
(* resolves futures.  The clients differ in what the reader does with a    *)
(* reply nobody awaits, with a message it cannot read and at the end of    *)
(* the stream, and in that only MCPServer limits the wait.                 *)
(*                                                                         *)
(* The server is outside this code: it answers what it was sent, each at   *)
(* most once and in any order, or not at all, may write a notification or  *)
(* something unreadable and may exit.  It sends no requests of its own.    *)
(***************************************************************************)
EXTENDS Naturals, Sequences

CONSTANTS Calls,     \* calls of _request (MCPServer), _send_request (McpStdioClient)
          MaxNoise   \* bound on the messages that answer nothing

ASSUME CallsAssumption ==
  Calls \cap {"none", "cancelled", "lost", "timeout", "closed"} = {}
ASSUME MaxNoiseAssumption == MaxNoise \in Nat

VARIABLES
  client,   \* which of the two it is
  \* the server and its pipes
  server,   \* "up", or "exited": its stdout is closed
  inbox,    \* requests it has not answered, <<id, call>>
  wire,     \* messages on its stdout, unread
  noise,    \* messages written so far that answer nothing
  \* the client
  reader,   \* the reader task: "reading" or "ended"
  stopped,  \* stop() or close() was called
  nextId,   \* _next_id
  pending,  \* _pending, _pending_requests: pairs <<id, call>>
  at,       \* where a call stands
  future,   \* its future: the call whose reply it holds, or what else
  result,   \* what it returned or raised
  \* history
  answered, \* calls the server has answered
  torn,     \* the reader met a message it does not survive
  late      \* calls made after the reader had ended

world   == <<server, inbox, wire, noise, answered>>
task    == <<reader, stopped, pending, torn>>
caller  == <<nextId, at, future, result, late>>
vars    == <<client, world, task, caller>>

Limited == client = "MCPServer"  \* the wait has a timeout (90 seconds)

Messages == [kind : {"reply"}, id : Nat, to : Calls]
            \cup [kind : {"stray", "undecodable", "misframed"}]

TypeOK ==
  /\ client \in {"MCPServer", "McpStdioClient"}
  /\ server \in {"up", "exited"}
  /\ inbox \subseteq Nat \X Calls
  /\ wire \in Seq(Messages)
  /\ noise \in 0 .. MaxNoise
  /\ reader \in {"reading", "ended"}
  /\ stopped \in BOOLEAN
  /\ nextId \in Nat
  /\ pending \subseteq Nat \X Calls
  /\ at \in [Calls -> {"idle", "sending", "waiting", "done"}]
  /\ future \in [Calls -> Calls \cup {"none", "cancelled", "lost"}]
  /\ result \in [Calls -> Calls \cup {"none", "lost", "timeout", "cancelled", "closed"}]
  /\ answered \subseteq Calls
  /\ torn \in BOOLEAN
  /\ late \subseteq Calls

Init ==
  /\ client \in {"MCPServer", "McpStdioClient"}
  /\ server = "up"
  /\ inbox = {} /\ wire = <<>> /\ noise = 0
  /\ reader = "reading" /\ stopped = FALSE
  /\ nextId = 1
  /\ pending = {}
  /\ at = [c \in Calls |-> "idle"]
  /\ future = [c \in Calls |-> "none"]
  /\ result = [c \in Calls |-> "none"]
  /\ answered = {} /\ torn = FALSE /\ late = {}

-----------------------------------------------------------------------------
(* The server                                                              *)

Answer(n, c) ==
  /\ server = "up"
  /\ <<n, c>> \in inbox
  /\ inbox' = inbox \ {<<n, c>>}
  /\ wire' = Append(wire, [kind |-> "reply", id |-> n, to |-> c])
  /\ answered' = answered \cup {c}
  /\ UNCHANGED <<client, server, noise, task, caller>>

(* A notification, a body that is not JSON, or a header that is not one.   *)
Garble(kind) ==
  /\ server = "up"
  /\ noise < MaxNoise
  /\ noise' = noise + 1
  /\ wire' = Append(wire, [kind |-> kind])
  /\ UNCHANGED <<client, server, inbox, answered, task, caller>>

Exit ==
  /\ server = "up"
  /\ server' = "exited"
  /\ inbox' = {}
  /\ UNCHANGED <<client, wire, noise, answered, task, caller>>

-----------------------------------------------------------------------------
(* A caller                                                                *)

(* Mutant: _next_id only moves on once the request has been sent.          *)
RequestSharingId(c) ==
  LET n == IF \E d \in Calls : at[d] = "sending" THEN nextId - 1 ELSE nextId IN
  /\ at[c] = "idle"
  /\ Limited \/ ~stopped
  /\ nextId' = n + 1
  /\ pending' = {p \in pending : p[1] # n} \cup {<<n, c>>}
  /\ inbox' = IF server = "up" THEN inbox \cup {<<n, c>>} ELSE inbox
  /\ at' = [at EXCEPT ![c] = "sending"]
  /\ late' = IF reader = "ended" THEN late \cup {c} ELSE late
  /\ UNCHANGED <<client, server, wire, noise, answered, reader, stopped, torn, future, result>>

(* The future is registered under a fresh id and the request written.      *)
(* After stop() an MCPServer still writes to the pipe it has.              *)
Request(c) ==
  /\ at[c] = "idle"
  /\ Limited \/ ~stopped
  /\ nextId' = nextId + 1
  /\ pending' = pending \cup {<<nextId, c>>}
  /\ inbox' = IF server = "up" THEN inbox \cup {<<nextId, c>>} ELSE inbox
  /\ at' = [at EXCEPT ![c] = "sending"]
  /\ late' = IF reader = "ended" THEN late \cup {c} ELSE late
  /\ UNCHANGED <<client, server, wire, noise, answered, reader, stopped, torn, future, result>>

Finish(c, r) ==
  /\ at' = [at EXCEPT ![c] = "done"]
  /\ result' = [result EXCEPT ![c] = r]

(* close() has dropped the process.                                        *)
Refuse(c) ==
  /\ at[c] = "idle"
  /\ ~Limited /\ stopped
  /\ Finish(c, "closed")
  /\ UNCHANGED <<client, world, task, nextId, future, late>>

(* drain() returns, and the future is awaited.                             *)
Sent(c) ==
  /\ at[c] = "sending"
  /\ at' = [at EXCEPT ![c] = "waiting"]
  /\ UNCHANGED <<client, world, task, nextId, future, result, late>>

(* drain() finds the pipe closed: the entry stays in _pending.             *)
SendFails(c) ==
  /\ at[c] = "sending"
  /\ server = "exited"
  /\ Finish(c, "closed")
  /\ UNCHANGED <<client, world, task, nextId, future, late>>

Return(c) ==
  /\ at[c] = "waiting"
  /\ future[c] # "none"
  /\ Finish(c, future[c])
  /\ UNCHANGED <<client, world, task, nextId, future, late>>

(* A future that is no longer awaited is cancelled; its entry stays.       *)
GiveUp(c, r) ==
  /\ Finish(c, r)
  /\ future' = [future EXCEPT ![c] =
       IF at[c] = "waiting" /\ @ = "none" THEN "cancelled" ELSE @]
  /\ UNCHANGED <<client, world, task, nextId, late>>

(* Mutant: the timeouts are kept by the reader.                            *)
TimeOutConnected(c) ==
  /\ Limited /\ reader = "reading"
  /\ at[c] = "waiting"
  /\ GiveUp(c, "timeout")

(* wait_for gives up, possibly just after the result was set.              *)
TimeOut(c) ==
  /\ Limited
  /\ at[c] = "waiting"
  /\ GiveUp(c, "timeout")

(* The caller is cancelled, as a tool is whose own timeout is shorter.     *)
CancelCall(c) ==
  /\ at[c] \in {"sending", "waiting"}
  /\ GiveUp(c, "cancelled")

-----------------------------------------------------------------------------
(* The reader                                                              *)

(* set_exception on every registered future that is not done.              *)
FailPending ==
  /\ pending' = {}
  /\ future' = [c \in Calls |->
       IF future[c] = "none" /\ \E p \in pending : p[2] = c THEN "lost" ELSE future[c]]

Ends == reader = "reading" /\ reader' = "ended"

First == Head(wire)

Owners == {c \in Calls : First.kind = "reply" /\ <<First.id, c>> \in pending}

NextReply ==
  /\ reader = "reading"
  /\ wire # <<>>
  /\ First.kind = "reply"
  /\ wire' = Tail(wire)

(* A notification, or a reply to no request in _pending, is skipped.       *)
SkipStray ==
  /\ reader = "reading"
  /\ wire # <<>>
  /\ First.kind \in {"stray", "reply"}
  /\ Owners = {}
  /\ wire' = Tail(wire)
  /\ UNCHANGED <<client, server, inbox, noise, answered, task, caller>>

(* The entry is popped and its future resolved.                            *)
Resolve(c) ==
  /\ NextReply
  /\ c \in Owners
  /\ future[c] = "none"
  /\ pending' = pending \ {<<First.id, c>>}
  /\ future' = [future EXCEPT ![c] = First.to]
  /\ UNCHANGED <<client, server, inbox, noise, answered, reader, stopped, torn,
                 nextId, at, result, late>>

(* McpStdioClient drops a reply whose future is done.                      *)
DropReply(c) ==
  /\ NextReply
  /\ c \in Owners
  /\ future[c] # "none"
  /\ ~Limited
  /\ pending' = pending \ {<<First.id, c>>}
  /\ UNCHANGED <<client, server, inbox, noise, answered, reader, stopped, torn, caller>>

(* MCPServer resolves it all the same: InvalidStateError, which is not     *)
(* among the exceptions _read_loop expects, ends the task, and its finally *)
(* clause fails every other request.                                       *)
TripOverReply(c) ==
  /\ NextReply
  /\ c \in Owners
  /\ future[c] # "none"
  /\ Limited
  /\ Ends
  /\ FailPending
  /\ UNCHANGED <<client, server, inbox, noise, answered, stopped, torn,
                 nextId, at, result, late>>

(* Mutant: break for continue.                                             *)
SkipUndecodableBreak ==
  /\ Ends
  /\ wire # <<>>
  /\ First.kind = "undecodable"
  /\ Limited
  /\ wire' = Tail(wire)
  /\ FailPending
  /\ UNCHANGED <<client, server, inbox, noise, answered, stopped, torn, nextId, at, result, late>>

(* JSONDecodeError: only MCPServer goes on.                                *)
SkipUndecodable ==
  /\ reader = "reading"
  /\ wire # <<>>
  /\ First.kind = "undecodable"
  /\ Limited
  /\ wire' = Tail(wire)
  /\ UNCHANGED <<client, server, inbox, noise, answered, task, caller>>

(* Both clients take a broken message for the loss of the connection.      *)
Tear ==
  /\ Ends
  /\ wire # <<>>
  /\ First.kind = "misframed" \/ (First.kind = "undecodable" /\ ~Limited)
  /\ wire' = Tail(wire)
  /\ torn' = TRUE
  /\ FailPending
  /\ UNCHANGED <<client, server, inbox, noise, answered, stopped, nextId, at, result, late>>

(* Mutant: MCPServer's reader leaves at the end as McpStdioClient's does.  *)
EndOfStreamSilent ==
  /\ Ends
  /\ server = "exited" /\ wire = <<>>
  /\ UNCHANGED <<client, world, stopped, torn, pending, caller>>

(* The stream ends.  McpStdioClient leaves its loop and wakes nobody.      *)
EndOfStream ==
  /\ Ends
  /\ server = "exited" /\ wire = <<>>
  /\ IF Limited THEN FailPending ELSE UNCHANGED <<pending, future>>
  /\ UNCHANGED <<client, world, stopped, torn, nextId, at, result, late>>

(* stop(), close(): the reader is cancelled and the process ended.  The    *)
(* finally clause of MCPServer's reader runs, McpStdioClient has none.     *)
Stop ==
  /\ ~stopped
  /\ stopped' = TRUE
  /\ server' = "exited"
  /\ inbox' = {}
  /\ reader' = "ended"
  /\ IF Limited /\ reader = "reading" THEN FailPending ELSE UNCHANGED <<pending, future>>
  /\ UNCHANGED <<client, wire, noise, answered, torn, nextId, at, result, late>>

-----------------------------------------------------------------------------

Read ==
  \/ SkipStray \/ SkipUndecodable \/ Tear \/ EndOfStream
  \/ \E c \in Calls : Resolve(c) \/ DropReply(c) \/ TripOverReply(c)

Next ==
  \/ \E p \in inbox : Answer(p[1], p[2])
  \/ \E kind \in {"stray", "undecodable", "misframed"} : Garble(kind)
  \/ Exit
  \/ \E c \in Calls :
       \/ Request(c) \/ Refuse(c) \/ Sent(c) \/ SendFails(c)
       \/ Return(c) \/ TimeOut(c) \/ CancelCall(c)
  \/ Read
  \/ Stop

Spec == Init /\ [][Next]_vars

(* Tasks run while the process lives, timers expire, and the server takes  *)
(* what is written to it, so drain() returns.  It need not answer.         *)
FairSpec ==
  /\ Spec
  /\ WF_vars(Read)
  /\ \A c \in Calls :
       WF_vars(Sent(c) \/ SendFails(c)) /\ WF_vars(Return(c)) /\ WF_vars(TimeOut(c))

-----------------------------------------------------------------------------

GivenUp(c) == result[c] \in {"timeout", "cancelled"}

(* A call is told that the connection is lost only after the reader has    *)
(* ended, and it ends for a reason: the server has exited, the client was  *)
(* stopped, a message could not be read or, in MCPServer, the answer came  *)
(* to a call that had already given up.  (_read_loop, _fail_pending)       *)
LossHasACause ==
  /\ \A c \in Calls : result[c] = "lost" => reader = "ended"
  /\ reader = "ended" =>
       \/ server = "exited" \/ torn
       \/ Limited /\ \E c \in Calls : GivenUp(c) /\ c \in answered

(* When MCPServer's reader ends, everyone who was waiting is woken: only   *)
(* calls made afterwards wait out their timeout.  (_fail_pending)          *)
WokenAtLoss ==
  Limited /\ reader = "ended" =>
    \A c \in Calls : at[c] \in {"sending", "waiting"} /\ future[c] = "none" => c \in late

(* Nothing but an answer ends this wait: McpStdioClient has no timeout,    *)
(* and its reader wakes nobody when the stream ends or close() cancels it. *)
Forsaken(c) == ~Limited /\ (reader = "ended" \/ c \notin answered)

(* Every call returns, even if the server never answers, except those of   *)
(* McpStdioClient that nothing can wake.  (_request, _send_request)        *)
EveryCallReturns == \A c \in Calls :
  at[c] = "sending" ~> (at[c] = "done" \/ Forsaken(c))

(* "EOF, malformed framing - treated as connection loss below", "MCP       *)
(* server closed its stdout": the reader of MCPServer ends only with the   *)
(* stream.  Does not hold, see TripOverReply.  (_read_loop)                *)
LossIsReal == Limited /\ reader = "ended" => server = "exited" \/ torn

-----------------------------------------------------------------------------
(* Both clients keep the contract: each call gets its own answer, if any,  *)
(* once, whatever was lost, late, unreadable or cancelled.                 *)

PhaseOf(c) ==
  CASE at[c] = "idle" -> "new"
    [] at[c] \in {"sending", "waiting"} -> "open"
    [] at[c] = "done" /\ result[c] = c -> "replied"
    [] at[c] = "done" /\ result[c] \in Calls \ {c} -> "mixed up"
    [] OTHER -> "failed"

Contract == INSTANCE RpcContract WITH
  phase <- [c \in Calls |-> PhaseOf(c)], produced <- answered

(* (_request, _send_request, _read_messages, _read_loop)                   *)
KeepsRpc == Contract!Spec
=============================================================================
