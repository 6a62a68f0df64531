# avo in TLA+

A verification development for avo, the agent runtime: TLA+ modules translated
from `src/src/avo`, TLC configurations that check them on small instances, and
proofs checked by TLAPS. Paths below are relative to `src/src/avo` unless they
start with `src/`.

## 1. The system

avo executes *runs*. A run asks a model what to do, asks an approver whether a
requested tool may run, executes it, records the observation and goes round
again until the model gives a final answer or a limit stops it. Everything a
run does is written to an event store, so that a run interrupted by the loss
of its process can be resumed.

| Component | State it keeps | Operations | What makes it hard | What makes it correct |
|---|---|---|---|---|
| Run state machine (`state.py`) | none | `validate_transition`, `validate_terminal_outcome` | | every stop has a fitting reason |
| Agent runtime (`runtime.py`, `runtime_handlers.py`, `runtime_persistence.py`, `policies.py`, `progress.py`) | `_RunContext`: next step, usage, errors, completed ids, pending response, detector | one handler per state, `terminate`, `trigger_policy`, `checkpoint`, `run`, `resume` | cancellation at every await, process loss between any two writes, resume from an older checkpoint | no tool without approval, none twice, no result forgotten, limits hold across resumes, one outcome |
| Event store (`events.py`, `storage/*.py`) | events, run record, checkpoints | `create_run`, `append_event`, `append_event_and_update_run`, `save_checkpoint`, `finalize_run` | what is in one transaction and what is not | log, record and checkpoint agree |
| Tools (`tools.py`) | registry | `invoke` | timeouts, exceptions, ids used twice | one result per call |
| Circuit breaker (`circuit_breaker.py`) | state, failures, opening time, probes | `allow`, `record_success`, `record_failure`, `reset`, `state` | time, probes in flight, cancelled calls; outlives runs | opens in time, contains an outage, recovers |
| Web approval (`web_approval.py`) | pending futures, SQLite rows | `request_approval`, `resolve`, `clear` | a web thread against the event loop and a timeout | decisions are final; run and table differ only for a known reason; every request returns |
| Background jobs (`background.py`) | jobs, tasks | `submit`, `_drive`, `cancel`, `wait_all` | cancellation before the first step, in a run, in its `STOP` hooks | what the job list says agrees with the run |
| Loop runner (`loop/runner.py`) | loop state, ticks, failures, usage | `step`, `run_forever`, `stop`, `pause`, `resume` | calls during a step; ticks that raise | an ended loop begins no run; spending is bounded |
| Chat (`chat.py` and the commands on runs) | the prompt, the active loop | a turn, `&`, `/cancel`, `/loop`, `/unloop`, Ctrl-C, `/quit` | turns, jobs and loops share one runtime and one store, which `/quit` closes | no run is left open; the chat comes to its end |
| Failover and racing (`combo/provider.py`, `providers/router.py`) | health per route | `generate`, `stream`, `reset_health`, `probe_route` | concurrent calls share health; a route breaks in mid-stream; racers finish together or never | a call hears one route, and fails only if all of them did |
| MCP client (`mcp.py`, `mcp_client/stdio_client.py`) | request ids, pending futures, the reader task | `_request`, `_read_loop`, `stop`, `close` | late and unreadable replies, cancelled callers, server exit | each call gets its own answer or an error, once, and returns |
| OAuth refresh (`oauth/refresh.py`, `credentials.py`) | the credential file, a lock per provider | `ensure_fresh`, `refresh_credential`, `put` | rotated refresh tokens, lost replies, two processes | one renewal per expiry, no session lost |
| Speculative runs (`speculative/*.py`) | snapshots: a git stash and an entry in a file | `capture`, `restore`, `discard`, `run_speculative`, `/fork`, `/rollback` | five git commands in a row, any of which may fail; a repository and a stash list that others use | a restore gives back what was captured; what fails loses no work |
| Delegation (`delegation.py`) | children | `run`, `pipeline` | parallel children | bounded, nothing left behind |
| Blackboard (`blackboard/store.py`), rate limits (`rate_limit.py`) | rows; tokens in a bucket | `set`, `get`; `take` | read and update in two statements; requests above the capacity | no lost update; every wait ends |

How they interact: the chat, the CLI, the web cockpit, background jobs, loops
and delegation all call `AgentRuntime.run` or `resume`; one runtime executes
one run at a time (`_execution_lock`, `runtime.py:131`). The runtime calls the
provider (directly, or through failover and the breaker), the approval callback
(a prompt, or the web bridge), hooks, and the tool registry; it writes to the
event store after each of them. `PROJECT.json` lists the components, also
those without a model, and under "hazards" what is hard to test in this code.

## 2. Modules

| Module | Models |
|---|---|
| `RunStates` | `state.py`: states, transition table, stop reasons |
| `AgentRuntime` | one durable run: handlers, store, checkpoints, cancellation, process loss, resume; its properties |
| `ToolContract` | abstract specification: what avo promises about each tool call of a run and about the run's outcome |
| `AgentRuntimeInv` | the inductive invariant of `AgentRuntime`, checked by TLC and proved, and the measure by which a coroutine comes to its end |
| `MCAgentRuntime` | the instance for TLC (symmetry) |
| `AgentRuntimeProofs` | theorems about `AgentRuntime`; that it implements `ToolContract` |
| `CircuitBreaker` | the breaker, its caller, time, outages, cancelled calls; its properties |
| `CircuitBreakerProofs` | theorems about `CircuitBreaker` |
| `WebApproval` | approval requests of runs, web threads that decide them, the table, the timeout, restarts; its properties |
| `WebApprovalProofs` | theorems about `WebApproval` |
| `McpClient` | the two JSON-RPC clients, their callers, reader task and server; its properties |
| `RpcContract` | abstract specification: a call ends once, with its own answer or an error |
| `McpClientProofs` | theorems about `McpClient`; that it implements `RpcContract` |
| `OAuthRefresh` | calls of `ensure_fresh` in several processes over one credential file, the vendor, lost messages; its properties |
| `MCOAuthRefresh` | the instance for TLC (symmetry) |
| `OAuthRefreshProofs` | theorems about `OAuthRefresh` |
| `Routes` | the fallback, race and combo routers, health shared by concurrent calls; its properties |
| `RouteContract` | abstract specification: several routes look like one provider |
| `RoutesProofs` | theorems about `Routes`; that it implements `RouteContract` |
| `ChatHost` | the chat as host of turns, background jobs and loops over one runtime and store; its properties |
| `ChatHostProofs` | theorems about `ChatHost` |
| `Snapshots` | git snapshots of the workspace, the speculative run, `/fork` and `/rollback`, work by hand in the same repository, faults; its properties |
| `SnapshotsProofs` | theorems about `Snapshots` |

`AgentRuntime` extends `RunStates` and instantiates `ToolContract` with a
refinement mapping, as `McpClient` does with `RpcContract` and `Routes` with
`RouteContract`. `ChatHost` composes `background.py`, `loop/runner.py` and the
chat around the runtime, of which it keeps the lock, the record of a run and
the ways a run ends. Operators whose comment begins with "Mutant" are not part
of a specification: each is a definition changed as a bug in that code would
change it, used to see that a property notices.

### AgentRuntime

Variables, in four groups:

* durable: `run` (the `RunRecord`), `log` (the facts the event log holds that
  some code reads back), `tail` (those logged after the latest checkpoint,
  which is what `last_event_sequence` delimits), `ckpt` (the latest
  `Checkpoint`);
* volatile: `pc` (where the coroutine stands between two durable writes),
  `ctx` (`_RunContext`), `goal` (the outcome `terminate` is about to persist);
* the world: `effects` (how often each call took effect), `streak` (the
  action executed latest and how many calls of it in a row took effect),
  `abandoned` (calls whose execution ended in an exception), `requests` (model calls made), `late`
  (`max_runtime_seconds` have elapsed);
* `crashes`, which counts process losses against their bound.

A step ends with at most one durable write. Since the store's operations do
not yield to the event loop between acquiring an uncontended lock and
committing, a write together with the in-memory work next to it is one step,
and a `Crash` between two steps is the loss of the process between two
transactions. A `StorageError` at a write has the same effect as losing the
process before it (`run` and `resume` re-raise it and leave the run), so
`Crash` stands for both. `Cancel` strikes where the coroutine is suspended:
model call, hooks, approval, tool.

Each handler is split at its writes. `handle_model_pending` is
`StopBeforeModel`, `RequestModel`, then one of `ModelResponds`,
`ModelInvalid`, `ModelFails`, then `RecordDecision`, `CheckpointDecision`,
`CheckBudget`; `handle_approval_pending` is `Approve`, `Deny`,
`ApprovalFails`, `GrantExecution`, `StopOnDenial`; `handle_tool_executing` is
`StopBeforeTool`, `RefuseCompleted`, `StartTool`, `ToolTakesEffect`,
`ToolSettles`, `ToolRaises`, `RecordObservation`, `CheckpointObservation`,
`ReviewProgress`; `terminate` is `CheckpointEnding`, `Finalize`; `resume` is
`Resume` or `ResumeReplaying` and `CheckpointReplay`. The map in
`PROJECT.json` gives the lines.

Abstractions, and why they lose nothing the properties speak of:

* A tool call is an id and an action (the fingerprint of name and arguments).
  The model may send any of them in any response, also an id it used before.
* The action history of the progress detector is kept as its identical tail
  (last action, length), which is all `repeated_action` looks at.
  `no_progress` compares fingerprints of observations, responses and markers:
  it is a free choice.
* Events nobody reads back are left out of `log`; `STATE_CHANGED` is the
  change of `run.state` in the same transaction.
* Token usage is one number with the total limit; input and output limits are
  tested in the same way and stop for the same reason.
* A tool takes effect before its result is known and not after. A thread that
  outlives its timeout is outside this code.
* Two processes driving one run are excluded, as the project does
  (`src/project.md:1010`, "SQLite v0.1 assumes normal single-process use").
* The `STOP` hook, notices and traces change no state that is modelled.

### ToolContract

The promise, without steps, checkpoints or processes: every call of a run is
new, approved, started or settled; it is executed only while started, at most
once unless its execution was abandoned; nothing happens after the outcome is
set. `KeepsContract` maps the phase of a call to what the *log alone* says
about it (`PhaseOf`), executions to `effects` and the outcome to the record's
stop reason.

### CircuitBreaker

`age` is the time since `_opened_at` in ticks, up to the cooldown. `healthy`
is the provider; `bad` counts failed calls in a row and `through` the calls
let through since the last opening, independently of what the breaker counts,
so that properties do not merely compare the breaker with itself. There is one
model call at a time, because `_execution_lock` serialises runs, but the
breaker outlives runs and can be read or reset at any moment.

### WebApproval

One element of `Requests` is one call of `request_approval`, one element of
`Operators` one thread of the web server that carries a decision through
`resolve`. The model keeps apart the three places that hold an answer, because
no lock spans them: `row` (the table), `future` with `scheduled` (the event
loop) and `answer` (what the run was told). `request_approval` is split where a
web thread can come in between: `Register`, `CreateRow` (or `CreateFails`),
`Answered` or `TimeOut` or `CancelRun`, `RecordTimeout` (or
`RecordTimeoutFails`), `Leave`. `resolve` is `Record`, then `Notify`; a thread
may have read its listing long ago. `Deliver` is the callback that sets the
future: it waits while the request's own coroutine runs. `TimeOut` may win even
after the future was set, as `wait_for` does since Python 3.12 (the project
supports 3.11 and later, which do less). `Restart` keeps the rows only. A
decision whose write fails is a request the server answers with an error and
changes nothing. `posted`, `cut`, `cleared` and `early` are history, for the
properties.

### McpClient

`MCPServer` and `McpStdioClient` do the same work with different care, so one
module models both and `client` says which it is. A call is `Request` (or
`Refuse` after `stop`), `Sent` or `SendFails`, then `Return`, `TimeOut` or
`CancelCall`. The id, the entry in `pending` and the write to the pipe are one
step, as nothing yields before `drain`. The reader takes one message at a time:
`Resolve`, `DropReply`, `TripOverReply` (the future is done already),
`SkipStray`, `SkipUndecodable`, `Tear` (a message it does not survive),
`EndOfStream`. `stop` and `close` are `Stop`. The server answers in any order, late
or never, writes what answers nothing (`MaxNoise` bounds that) and may exit. The
handshake and the tool list are calls like others; results are the call they
answer. A message is taken from the pipe whole; the chunks it arrives in are
left to asyncio.

### OAuthRefresh

Tokens are numbered as the vendor issues them, so a credential is a pair of
numbers and "expired" is a comparison. `ensure_fresh` is `Call` (which reads
the clock, `seen`), then `FindNothing`, `ReturnStored` or `Begin` under the lock; the
exchange goes on with `Retry`, `Refused` or a grant, and `put` is `Load` and
`Write`, in between which only another process can come, because one process does not
yield there. The vendor answers a request whether or not its sender still
waits (`ServeStray`), rotates the refresh token or leaves it out of the reply,
and refuses a rotated one. `Lose` is a request or reply that is lost, `Cancel`
the caller's cancellation, `Crash` the loss of a process, `WriteFails` a file
that cannot be replaced. A read that fails raises nothing: `_load_raw` answers as
for an empty file (`credentials.py:66-69`), so `get_credential` finds no entry
(`FindNothing`) and `put` writes back its own entry only (`Load`). It may happen at
any read; a file that stays unreadable is one where every read fails. An entry
that is not there is `NoCredential`. `misread` (accounts whose entry a failed read
took for absent), `mishaps` and `overlap` are history, for the properties. Taking the lock is a step; who waits for it first is left open.
The encrypted and keyring stores, login and logout are not modelled, nor an entry
edited by hand into something avo does not write.

### Routes

`router` says which of the three it is. The candidates of a call are fixed when
it begins, in an order that is free, because priority, latency, weights and
session pinning choose it. The fallback and combo routers try one after the
other (`Chunk`, `Succeed`, `FailOver`, `Raise`, `FailAlone`); a race starts
all (`Reply`), takes the first good answer (`CollectAnswer`, or `TakeStream` for
streams) and fails when all have (`CollectFailures`, `TakeFailure`). A racer
whose answer is ready before the caller runs may arrive together with others.
Of the health records only the cooldown decides anything, so they are the set
`cooling`, which any call's success or failure changes at any time, and time and
`reset_health` empty. `voices` is the set of routes whose output a call has got.

### ChatHost

Every task of the event loop that executes runs is an element of `Tasks`: the
turn at the prompt, each background job, each loop. `task` says where it
stands: created, waiting for the runtime's lock (`queue`, first come first
served), in a run, in the run's `STOP` hooks, sleeping between ticks, ended.
`cancelling` holds the tasks that will find themselves cancelled at their next
await. `record` is the run's state in the store, `status` the job's, `state` the
loop's. The prompt is `Submit`, `CancelJob`, `StartLoop`, `StopLoop`,
`BeginTurn`, `InterruptTurn`, `Quit`, `QuitAtOnce`, `InterruptDrain`; leaving is
`Close`, `CancelRest` (`asyncio.run` cancels what is left, `cli.py:464`) and
`Exit`; a task goes on with `StartJob`, `StartRunner`, `Wake`, `BeginRun`,
`Return`, or breaks off with one of the actions for a failing store and for a
cancellation at each place.

What happens inside a run is `AgentRuntime`'s matter. Since the store's
operations never yield, `terminate` is one step here. A second Ctrl-C ends the
process and is left out. `pause` and `resume` of the loop runner belong to its
interface though no chat command reaches them, so they may come at any time.
Each result reports one unit of usage: `Budget` counts ticks, and supposes that
tokens have a price (`AVO_USAGE_RATES_*`) and `hard_limit_usd` is set. Whether a
schedule is due is left open. `_event_persisted` does nothing and is left out.

### Snapshots

`head` and `tree` are what is committed and what is in the working tree, as sets
of pieces of work; `objects`, `list` and `pruned` are the stashes ever made,
those git lists and those it has deleted; `meta` is `avo_snapshots.json`; `run`
and `attempt` are the speculative run; `last` is what the latest call came to.
`capture` is `Captures` or `CaptureRaises`, `restore` is `Restore`, `discard` is
`Discard`, each one action: they wait for their git commands with
`subprocess.run` and yield to no coroutine. What can come in between is a
failing command, a metadata file that cannot be read or written, or the loss of
the process, and each place where that stops a method is an outcome of its own
that uses up `MaxFaults`. `promised`, `doubtful` and `taken` are history: what the
tree was when a snapshot was taken, which snapshots a fault has spoiled, and
which stashes were dropped by hand.

How git behaves is modelled from its use here and was tried with git 2.39: a
stash applies without conflict to the commit it was made on, `git stash apply
<id>` also takes a stash that is no longer listed, and `git rev-parse -q --verify`
succeeds for every full id, whether or not the object still exists. The tag of a
speculative run is random; a second run would be the first with another name.
`commit`, `rollback` and the stash operations of `workspace/git.py` stand for
all that is done by hand; a stash popped with conflicts is an edit. `discard` looks
for its tag anywhere in an entry of the list, the model for entries with that
tag: only random tags are ever discarded. Branches, the difference between staged
and unstaged, ignored files, and a `git stash apply` of `capture` that fails half
way (the stash still holds all of the work) are left out.

## 3. Runs

| Run | Configuration | Shows |
|---|---|---|
| `runtime_safety` | `AgentRuntime.cfg` | safety, action properties, the inductive invariant and the refinement of `ToolContract` |
| `runtime_liveness` | `AgentRuntimeLiveness.cfg` | every run halts; a cancellation becomes the outcome |
| `runtime_repeated_tool` | `AgentRuntimeRepeated.cfg` | finding: a tool can be executed twice (below) |
| `breaker` | `CircuitBreaker.cfg` | safety and recovery of the breaker |
| `breaker_cancelled_probe` | `CircuitBreakerCancelled.cfg` | finding: a cancelled probe blocks the breaker |
| `web_approval` | `WebApproval.cfg` | agreement, finality and leftovers of approval requests; every request returns |
| `mcp` | `McpClient.cfg` | both MCP clients implement `RpcContract`; why a connection is lost, who is woken, and that calls return |
| `mcp_late_reply` | `McpClientLateReply.cfg` | finding: a late answer ends the reader |
| `oauth` | `OAuthRefresh.cfg` | no session lost, no needless login or renewal, no stale token |
| `chat_host` | `ChatHost.cfg` | jobs, loops and turns against cancellation, store failures and `/quit` |
| `routes` | `Routes.cfg` | the routers implement `RouteContract`; a call fails only if all routes did |
| `snapshots` | `Snapshots.cfg` | what was captured comes back; failures lose no work |

Bounds.

* `runtime_safety` (668,707 states) has three call ids and two actions: enough
  for a reused id, for the same id with another action, and for repetition with
  and without a break. With two ids an action cannot come back after another
  one, so that "in a row" and "in all" are the same there. Three steps with an error limit and a repetition limit
  of two let each limit be reached both before and after another round. Two
  process losses let a resume itself be lost. Call ids and actions are
  symmetric; `runtime_liveness` (33,228 states) uses no symmetry. `TokenBudget`
  1 with usage 1 or none per response passes the budget on the second response.
  `MaxCrashes` is the only bound on behaviour that the code does not have; the
  theorems hold for every value of it.
* The breaker has a threshold of 4, a cooldown of three ticks and three probe
  slots: "one too early" and "one too late" differ from right, and two cancelled
  calls leave it a slot.
* Two requests and two operators let two people disagree on one request and let
  `clear` and a restart strike requests in different places; requests share
  nothing else.
* Two MCP calls and one message that answers nothing (44,440 states) let one
  call's late answer end the reader under the other. Three calls without noise
  (331,000 states) were checked by hand with the same result.
* Two calls of `ensure_fresh`, in one or two processes, for one or two accounts,
  two exchanges each as in the code, two expiries: a retry after a rotation, a
  renewal of a renewed token, two processes writing one file and one account's
  renewal dropping the other's entry all occur (1,489,273 states).
* One job, one loop and one turn contend for the lock and the store in all
  orders; failure limit and budget of two separate "one tick too many"; two
  store failures reach a cancelled tick and the tick after it. Two loops with
  one job and two jobs with one loop (3.1 and 2.6 million states) were checked
  by hand for safety.
* Two calls over two routes share health, fail over and race. One call over
  three routes was checked by hand.
* Two stashes are the least for one snapshot's stash to stand before another's,
  and two attempts for work between them. One fault anywhere, one name and one
  piece of work (897,852 states); two faults (3.3 million states), two
  names (6.1 million with one attempt) and three stashes without
  faults were checked by hand with the same result.

The runs of the approval bridge, the MCP clients, OAuth, the chat and the
routers do not check for deadlock, because there the system may stop: all calls
have returned, or the chat has been left.

The properties worth knowing:

* `AtMostOnceUnlessAbandoned`, `EffectsApproved`, `ResultsRemembered`: tools
  across process losses. `LogStaysUsable`: no write is refused, and at most one
  result trails a checkpoint, which is the reason why the order in which
  `reconcile_after_checkpoint` replays results cannot matter.
* `LimitsHold` and `DenialHolds` state precisely what a process loss can cost:
  one more model call (`StepBudget`), one more error (`ErrorBudget`), one more
  question. `RepetitionContained` and `DeadlineHolds`: limits survive resuming.
* `OutcomeAgrees`, `TerminalIsFinal`: one outcome, for ever.
* `OpensAtThreshold`, `OutageIsContained`, `CooldownServed`, `Recovers`: the
  breaker; `Recovers` holds while fewer calls are cancelled than there are probe
  slots.
* `AnswersAgree`: a tool runs only if an operator approved that very request,
  and never against a recorded denial unless operators disagreed.
  `NothingLeftBehind` lists what can stay behind of a request, `DecisionIsFinal`
  that nobody changes a decision.
* `LossHasACause`, `WokenAtLoss`, `KeepsRpc`, `EveryCallReturns`: a caller never
  gets another's answer, and waits in vain only in `McpStdioClient`, whose
  reader wakes nobody when it leaves and whose waits have no timeout.
* `SessionKept`, `ReauthHasACause`, `OneRefreshPerExpiry`, `ReturnedIsFresh`:
  within one process the lock keeps its promise. What it cannot promise is named
  by `Undisturbed`: an exchange that was not followed to its end, and two
  processes that renew at once; and by `LeftOut`: a read that fails while another
  account is stored costs the whole entry (below). A failed read never leaves a
  stale token behind, and costs nothing to the account that is being stored or
  looked up; nobody is told that there is no credential without one. A 401 forces a renewal each, also in a burst,
  contrary to `docs/guides/subscription-auth.md:159-160`: `OneRefreshPerExpiry`
  is stated for calls without force.
* `JobAccounted`, `NothingLeftOpen`: what can drift apart between the job list
  and the store, and which runs `/quit` leaves open. `SpendBounded`: ticks that
  raise are not counted, but the failure limit bounds how many there are.
  `NoTickAfterUnloop`, `ChatGoesOn`: the end of a loop and of the chat.
* `KeepsContract`, `ExhaustedIsTrue`, `AnswerIsTaken`: a call's output never
  mixes two routes, "all routes failed" is true, and a race is decided by the
  first answer even if the others hang.
* `RestoredAsPromised`, `FailureLosesNothing`, `SnapshotsIntact`: a restore that
  succeeds, and a run that reports a rollback, give back the captured tree,
  whatever was committed, stashed or restored since; a refused restore and a
  failed capture lose nothing; no snapshot takes another's stash. Each names the
  faults it excepts.

Fairness, and why the code justifies it:

* `AgentRuntime`: weak fairness of `Drive` (model calls and tools are cut off by
  `provider_timeout_seconds` and `tool_timeout_seconds`, 60 s by default;
  approvers answer or are bounded by the web bridge's timeout; store operations
  return) and of `Recover` (an operator resumes). Nothing is assumed of crashes,
  cancellation or the deadline. A synchronous tool that never returns, or
  timeouts set to `None`, are outside this assumption.
* `CircuitBreaker`: time passes, the caller goes on asking, calls are answered.
* `WebApproval`: the event loop runs each request's coroutine and
  `default_timeout_seconds` ends its wait. Operators, `Deliver` and restarts are
  not fair.
* `McpClient`: the reader and the callers run, timeouts expire, and the server
  takes what is written to it, because `drain` is outside `wait_for`
  (`mcp.py:162`). The server need not answer.
* `ChatHost`: the event loop runs every task, a run ends (its policy bounds it),
  the main coroutine goes on. Nobody need type.
* `Routes`: a caller is woken when something it waits for is there. No route
  need answer.
* `OAuthRefresh` states no liveness: its network calls are bounded by timeouts
  outside the modelled code.

### Findings

1. `terminate` first saves a checkpoint "to preserve a resumable pre-terminal
   boundary" (`runtime_persistence.py:246`). When a tool was cut off by
   cancellation or an unexpected exception, this checkpoint lies *after*
   `TOOL_STARTED`, and if the process is lost before `finalize_run`, resume
   sees no trailing `TOOL_STARTED` without a result: it executes the call again
   instead of raising `UnsafeResumeError` as `src/project.md:231` promises
   (`AtMostOnce`). `AtMostOnceUnlessAbandoned` shows that this is the only way.
2. A half-open probe whose run is cancelled never gives its slot back
   (`circuit_breaker.py:101`): with the default of one slot the breaker rejects
   for ever (`Recovers`).
3. The answer to an MCP call that timed out or was cancelled finds a future that
   is done: `set_result` raises `InvalidStateError`, which `_read_loop` does not
   expect (`mcp.py:198`, `mcp.py:171`). The reader task ends, every other request
   is told that the server closed its stdout, and later ones wait out their
   timeout, although the server is up (`LossIsReal`). `LossHasACause` shows that
   this is the only end that is not a loss.

Met while modelling, and stated by the model rather than by a run of their own:

* The transition to `decision_received` is durable before the checkpoint that
  holds the decision (`runtime_handlers.py:179-182`). A loss between the two
  makes resume end the run as an internal error (`DecisionMissing`), although
  `models.py:181` calls a checkpoint "sufficient to continue
  a non-terminal run".
* `restore` "refuses to run destructive commands if tag is invalid or missing"
  (`speculative/runner.py:171`), but its test accepts the id of a stash that git has
  deleted: the tree is reset and cleaned first, and `False` returned after
  (`ReviveFails`; `FailureLosesNothing` excepts it, for a stash dropped by hand).
  `run_speculative` reports `rolled_back=True` all the same (`GiveUp`), as after
  any other refusal (`speculative/runner.py:344`).
* A failure between `git stash push` and `git stash apply` leaves the user's work
  in a stash only, with no entry that names it (`CaptureRaises`).
* A snapshot whose run was rolled back or aborted is never discarded.
* `_load_raw` swallows the error of a read (`credentials.py:68`), and `put` replaces
  the file by what it read and one entry: if `auth.json` exists but cannot be read
  for a moment, the renewal of one account deletes the sessions and keys of all
  others, and raises nothing (`Load`; `SessionKept` excepts it by `LeftOut`).
* A run cancelled while it waits for approval leaves its row pending
  (`web_approval.py:203`); `NothingLeftBehind` names this and the other ways to the
  same end.
* `pause()` during a step ends `run_forever`, and `resume()` sets RUNNING with
  nobody left to run (`loop/runner.py:205`).
* A success of an older call clears a newer cooldown (`providers/router.py:127`),
  and the streams of a race's losers are never closed (`providers/router.py:402`).
* A tool that hands its work to a thread may act after its timeout
  (`runtime_handlers.py:403`); a final answer is remembered twice when the process
  is lost before the run is terminated (`runtime_handlers.py:289`). These two are
  not modelled.

## 4. Proofs

TLAPS proves, for every value of the constants that satisfies the named
assumptions, all evaluated by TLC in the runs: `PolicyAssumption`,
`DistinctAssumption`, `CheckpointAssumption` (runtime), `BreakerAssumption`,
`NoneAssumption` (approval), `CallsAssumption`, `MaxNoiseAssumption` (MCP),
`AttemptsAssumption`, `MaxExpiriesAssumption` (OAuth), `NAssumption` (routes),
`TasksAssumption`, `LimitsAssumption` (chat), `NamesAssumption`,
`BoundsAssumption` (snapshots). They say that model values differ
from each other and that bounds are natural numbers, where it matters positive.

| Theorem | Module | States |
|---|---|---|
| `TypeCorrect` | `AgentRuntimeProofs` | `TypeOK` |
| `RuntimeInvariant` | | `RuntimeInv`, the inductive invariant |
| `NoSecondEffect` | | `AtMostOnceUnlessAbandoned` |
| `ApprovalComesFirst` | | `EffectsApproved` |
| `NoResultForgotten` | | `ResultsRemembered` |
| `OutcomesAgree` | | `OutcomeAgrees` |
| `EndIsFinal` | | `TerminalIsFinal` |
| `LogUsable` | | `LogStaysUsable` |
| `LimitsKept` | | `LimitsHold`: step, error and repetition limits across process losses |
| `DenialsHold` | | `DenialHolds` |
| `DeadlineKept` | | `DeadlineHolds` |
| `CoroutineEnds` | | `ComesNearer`: the driver's loop cannot turn for ever |
| `RuntimeKeepsContract` | | `KeepsContract`: `Spec` implements `ToolContract` |
| `BreakerTypeCorrect`, `BreakerOpensInTime`, `BreakerContainsOutage`, `CooldownIsServed` | `CircuitBreakerProofs` | the breaker's safety |
| `ApprovalTypeCorrect`, `ApprovalsAgree`, `LeftBehind`, `DecisionsAreFinal` | `WebApprovalProofs` | the approval bridge's safety |
| `ClientTypeCorrect`, `LossIsExplained`, `EveryWaiterIsWoken` | `McpClientProofs` | the MCP clients' safety |
| `ClientKeepsRpc` | | `KeepsRpc`: both clients implement `RpcContract` |
| `RefreshTypeCorrect`, `SessionIsKept`, `ReauthIsExplained`, `RefreshedOnce`, `FreshIsFresh` | `OAuthRefreshProofs` | all properties of the renewal |
| `RoutesTypeCorrect`, `ExhaustionIsTrue` | `RoutesProofs` | types, `ExhaustedIsTrue` |
| `RoutersKeepContract` | | `KeepsContract`: the routers implement `RouteContract` |
| `HostTypeCorrect`, `JobsAreAccounted`, `NoRunIsLeftOpen`, `SpendingIsBounded`, `UnloopedLoopsRest` | `ChatHostProofs` | the chat's safety |
| `SnapshotsTypeCorrect`, `SnapshotsStayIntact`, `RestoresKeepThePromise`, `FailuresLoseNothing` | `SnapshotsProofs` | all properties of the snapshots |

The argument for the runtime. None of the contract's properties is inductive:
that a tool is not run twice depends on what the coroutine will find in its
checkpoint when it is resumed. `ContractInv` (module `AgentRuntimeInv`) says
what ties the four kinds of state together: which place of the coroutine goes
with which run state and which facts (`StandsAt`, `Equipped`), that results
follow starts and starts follow approvals in the log (`InOrder`), that the
decision a run acts on is in its checkpoint (`DecisionSaved`), that the
coroutine knows every settled call (`CoroutineKnows`), that the checkpoint
knows every settled call that does not trail it (`CheckpointKnows`) and that a
call takes effect only between its start and its result (`ExecutingOnce`). The
proof has one step per action. `EndsOnce` carries `OutcomeAgrees`.

The rest of the runtime's safety follows from `RuntimeInv`, which TLC checks in
`runtime_safety` and which extends `ContractInv` by three parts:

* `UsableInv`, for `LogStaysUsable`: a decision and a successful end come from a
  logged response (`Answered`), what a context counts as settled is logged
  (`DoneIsLogged`), nothing is settled between a saved tool decision and its
  result (`Trailing`), and a decision found in the checkpoint of a run that waits
  for none has a result that trails the checkpoint (`Undecided`). So at most one
  result trails.
* `LimitInv`, for `LimitsHold`: the coroutine or else the checkpoint counts every
  request, but for one per loss (`StepsAccounted`); a loss lets the run go on
  with at most one error more (`ErrorsAccounted`); and the detector's history, in
  memory and in the checkpoint, covers the actions that took effect
  (`Pace`, `BelowLimit`): it may count an action that has not been executed, never
  miss one that was. It counts at the decision, before the execution, and the
  invariant says why that order is the safe one.
* `DenialStops`: without a loss, a run that denied a call is on its way to its
  end.

These proofs do not go through the runtime's 30 actions four times. `StepShapes`
shows once that every step that is not one of the few that do the work (a
request, a response, a denial, a start, an effect, a result) begins to end the
run (`Stops`), goes on and saves nothing (`Moves`), saves the context it goes on
with (`Saves`), loses or resumes the process, or leaves the run alone (`Rests`).
Each part of the invariant is then shown for these shapes.

`CoroutineEnds` is the part of liveness that needs no fairness: `Remaining`, a
natural number made of the steps left and the place within a step, falls with every
step that changes the run, whatever the model, the approver and the tools
answer and wherever the run is cancelled. A coroutine that is driven on
therefore comes to its end after at most `20 * (MaxSteps + 1)` changes. What is
left to TLC is that a coroutine which has not ended can always go on, which is a
matter of ENABLED.

For the breaker the inductive invariant adds that every call let through since
the opening still holds its slot (`Link`) and that no call is out while the
breaker is open (`Quiet`).

For the approval bridge, `SourceInv` says that every answer, in the row, the
future, on its way to it, in a thread or with the run, comes from an operator,
from clear or from the timeout, and that a run that timed out is never told yes.
`TidyInv` says that while a row is undecided an answer can only come from
`clear` or from an operator who was early: then a run that was answered leaves a
decided row.

For the MCP clients, `IdInv` says that every request, entry and reply carries an
id below `nextId` and belongs to one call, so that an answer can only reach the
call it answers; `CallInv` says for each call where it stands and what its
future may hold there. The refinement then follows step by step.

For OAuth, `IInv` says that at most one call of a process and account is in its
exchange (the lock), which stage an exchange can have where, and, while nothing
has gone wrong, that a call in hand of the lock holds the vendor's refresh token
and the file holds everything renewed before, or no entry at all. Under
`Undisturbed` this ties the file, the vendor and the one exchange together.
`Absent` is a second invariant on top of it: in the file, and in the copy a `put` is
about to write back, an entry is not there only if a read overlooked it. It
needs from `IInv` that a granted token is younger than the call, so that what is
stored is an entry.

For the routers, the invariant is a conjunction over calls: one that has not
begun is as new (`Fresh`), one that tries candidates in turn has failed exactly
those before `pos` and heard only the current one (`AtCandidate`), and in a race
every candidate is running, waiting to be collected, or counted among the errors
(`AtRace`). The last is why "all have failed" is true when the count says so.

For the chat, `Hosted` says what the main coroutine may rely on, `Told` how a
job's place, its status and its record go together, `Pace` that a loop has begun
at most `FailureLimit` runs for each one counted plus its failures in a row,
`Unloops` that what is left of an ended loop is on its way out, `Recorded` who
owns an open run.

For the snapshots, `Fine` says what every snapshot that no fault has spoiled
keeps: the commit it was taken on, and, if there was work to save, a stash that
shows its tag, holds what was promised and is listed, unless it was dropped by
hand. Stashes are only added and taken away one at a time, and a `Drop` by tag
takes none that shows another tag; this is what a capture or discard under
one name leaves of the others. `Made` (a record names a stash that was made) keeps
a record from naming a stash made later, and `Armed` that a run that works has
a snapshot to go back to.

Type correctness is proved and, where it is not needed to find an error, not
model-checked again. Every safety and action property of the passing runs, and
every refinement, is proved. Only model-checked: liveness (`EventuallyHalts`,
`CancellationRecorded`, `Recovers`, `EveryRequestReturns`, `EveryCallReturns`,
`ChatGoesOn`, `AnswerIsTaken`), which rests on fairness and is out of reach of
the provers used. The properties of the runs that end in a finding are false.

## 5. Plan

Proofs still to write: measures like `Remaining` for the other components (a call
of an MCP client, of the routers, of `ensure_fresh` comes to its end), and an
abstract specification of an approval that `WebApproval` implements.

Modules still to write:

1. `Delegation`: children under a semaphore inside the parent's tool call, of
   which some fail and all are cancelled with the parent; abstract specification:
   one tool result per child.
2. `Blackboard`: two processes between the read and the update of a version.
3. `RateLimit`: a bucket shared by callers; waits end unless more is asked than
   it holds.
4. A composition of `AgentRuntime` with `CircuitBreaker` if the runs stay small
   enough: the step budget during an outage.

## 6. Not modelled

The provider adapters, the command line, the chat's settings and rendering, the
web pages, the file and process tools and the stores for memory, history and
blackboard: data conversion, rendering, or single transactions whose effect on
a run is the abstract tool effect or model response of `AgentRuntime`. These
make up most of the lines of the package and hold next to none of its
concurrency. Delegation, the blackboard and the rate limits are left to the
plan. Of the credential stores only the file is
modelled; of the MCP code only the client. `handle_created` and
`handle_paused` are never reached: `run` leaves CREATED before driving, and
nothing transitions to PAUSED.
