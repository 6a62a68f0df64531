------------------------------ MODULE ChatHost ------------------------------
(***************************************************************************)
(* The interactive chat as the host of concurrent runs: the turn at the    *)
(* prompt, background jobs (avo/background.py) and autonomous loops        *)
(* (avo/loop/runner.py) are tasks of one event loop that share one         *)
(* AgentRuntime, whose lock lets a single run execute, and one event       *)
(* store, which /quit closes.  A cancelled task learns of it at its next   *)
(* await.  What happens inside a run is AgentRuntime's matter; here a run  *)
(* returns a result, raises StorageError or is cancelled.                  *)
(***************************************************************************)
EXTENDS Naturals, Sequences

CONSTANTS Jobs, Loops,   \* background jobs and loops, in the order they come
          FailureLimit,  \* max_consecutive_failures
          Budget,        \* the hard limit, in ticks: each result reports one unit (tokens
                         \* have a price: without one nothing is ever exceeded)
          MaxTurns,      \* bound on the turns at the prompt
          MaxFaults      \* bound on the store's failures while it is open

Tasks == Jobs \cup Loops \cup {"chat"}

ASSUME TasksAssumption ==
  /\ Jobs \cap Loops = {}
  /\ {"chat", "none"} \cap (Jobs \cup Loops) = {}
ASSUME LimitsAssumption ==
  /\ FailureLimit \in Nat \ {0}
  /\ Budget \in Nat
  /\ MaxTurns \in Nat /\ MaxFaults \in Nat

VARIABLES
  repl,        \* where the main coroutine is
  interrupted, \* Ctrl-C was pressed: the next one would end the process
  awaited,     \* jobs wait_all() gathers
  active,      \* ctx.active_loop_runner
  \* the shared runtime
  queue,       \* tasks waiting for _execution_lock, first come first served
  store,       \* "open" or "closed"
  \* tasks
  task,        \* where a task stands; "none" before it is created
  cancelling,  \* tasks that will find themselves cancelled
  record,      \* the stored state of a task's last run
  status,      \* of a job
  state,       \* of a loop
  failures,    \* its _consecutive_failures
  counted,     \* its _cumulative_usage
  \* history
  spent,       \* runs a loop began, whether or not they were counted
  unlooped,    \* loops ended by /unloop
  struck,      \* tasks that met a failure of the open store
  turns, faults

session  == <<repl, interrupted, awaited, active, turns>>
progress == <<task, cancelling, queue>>
ledger   == <<state, failures, counted>>
vars     == <<session, progress, store, record, status, ledger, spent, unlooped, struck, faults>>

Ended == {"completed", "failed", "cancelled"}

TypeOK ==
  /\ repl \in {"prompt", "turn", "draining", "aborting", "leaving", "exiting", "gone"}
  /\ interrupted \in BOOLEAN
  /\ awaited \subseteq Jobs
  /\ active \in Loops \cup {"none"}
  /\ queue \in Seq(Tasks)
  /\ store \in {"open", "closed"}
  /\ task \in [Tasks ->
       {"none", "created", "waiting", "running", "hooks", "sleeping", "ended"}]
  /\ cancelling \subseteq Tasks
  /\ record \in [Tasks -> Ended \cup {"none", "open"}]
  /\ status \in [Jobs -> Ended \cup {"pending", "running"}]
  /\ state \in [Loops -> {"idle", "running", "paused", "stopped", "failed"}]
  /\ failures \in [Loops -> 0 .. FailureLimit]
  /\ counted \in [Loops -> 0 .. Budget]
  /\ spent \in [Loops -> Nat]
  /\ unlooped \subseteq Loops
  /\ struck \subseteq Tasks
  /\ turns \in 0 .. MaxTurns
  /\ faults \in 0 .. MaxFaults

Init ==
  /\ repl = "prompt" /\ interrupted = FALSE /\ awaited = {} /\ active = "none"
  /\ queue = <<>> /\ store = "open"
  /\ task = [a \in Tasks |-> "none"] /\ cancelling = {}
  /\ record = [a \in Tasks |-> "none"]
  /\ status = [j \in Jobs |-> "pending"]
  /\ state = [l \in Loops |-> "idle"]
  /\ failures = [l \in Loops |-> 0]
  /\ counted = [l \in Loops |-> 0]
  /\ spent = [l \in Loops |-> 0]
  /\ unlooped = {} /\ struck = {} /\ turns = 0 /\ faults = 0

Alive(a) == task[a] \notin {"none", "ended"}

Becomes(a, stage) == task' = [task EXCEPT ![a] = stage]

-----------------------------------------------------------------------------
(* The prompt                                                              *)

(* "task &": submit() creates the job and its task.                        *)
Submit(j) ==
  /\ repl = "prompt" /\ task[j] = "none"
  /\ Becomes(j, "created")
  /\ UNCHANGED <<session, cancelling, queue, store, record, status, ledger, spent, unlooped,
                 struck, faults>>

(* /cancel: refused once the job is terminal.                              *)
CancelJob(j) ==
  /\ repl = "prompt" /\ task[j] # "none"
  /\ status[j] \notin Ended
  /\ cancelling' = IF Alive(j) THEN cancelling \cup {j} ELSE cancelling
  /\ UNCHANGED <<session, task, queue, store, record, status, ledger, spent, unlooped,
                 struck, faults>>

(* /loop: refused while the registered loop is idle, running or paused.    *)
StartLoop(l) ==
  /\ repl = "prompt" /\ task[l] = "none"
  /\ active # "none" => state[active] \in {"stopped", "failed"}
  /\ active' = l
  /\ Becomes(l, "created")
  /\ UNCHANGED <<repl, interrupted, awaited, turns, cancelling, queue, store, record, status,
                 ledger, spent, unlooped, struck, faults>>

(* Mutant: the task is cancelled, the runner not told.                     *)
StopLoopTaskOnly(l) ==
  /\ repl = "prompt" /\ active = l
  /\ cancelling' = IF Alive(l) THEN cancelling \cup {l} ELSE cancelling
  /\ active' = "none"
  /\ unlooped' = unlooped \cup {l}
  /\ UNCHANGED <<repl, interrupted, awaited, turns, task, queue, store, record, status,
                 ledger, spent, struck, faults>>

(* /unloop: stop(), cancel and forget.                                     *)
StopLoop(l) ==
  /\ repl = "prompt" /\ active = l
  /\ state' = [state EXCEPT ![l] = "stopped"]
  /\ cancelling' = IF Alive(l) THEN cancelling \cup {l} ELSE cancelling
  /\ active' = "none"
  /\ unlooped' = unlooped \cup {l}
  /\ UNCHANGED <<repl, interrupted, awaited, turns, task, queue, store, record, status,
                 failures, counted, spent, struck, faults>>

(* pause() and resume() of the registered loop; resume() finds a driver    *)
(* only if the one that was paused has not looked at the state meanwhile.  *)
SetState(l, from, to) ==
  /\ repl = "prompt" /\ active = l
  /\ state[l] = from
  /\ state' = [state EXCEPT ![l] = to]
  /\ UNCHANGED <<session, progress, store, record, status, failures, counted, spent, unlooped,
                 struck, faults>>

Pause(l)  == SetState(l, "running", "paused")
Resume(l) == SetState(l, "paused", "running")

(* A line that is a prompt: the turn asks for the runtime.                 *)
BeginTurn ==
  /\ repl = "prompt" /\ turns < MaxTurns
  /\ repl' = "turn" /\ turns' = turns + 1
  /\ Becomes("chat", "waiting")
  /\ queue' = Append(queue, "chat")
  /\ UNCHANGED <<interrupted, awaited, active, cancelling, store, record, status, ledger,
                 spent, unlooped, struck, faults>>

(* Ctrl-C cancels the main task, in a turn...                              *)
InterruptTurn ==
  /\ repl = "turn" /\ ~interrupted
  /\ interrupted' = TRUE
  /\ cancelling' = cancelling \cup {"chat"}
  /\ UNCHANGED <<repl, awaited, active, turns, task, queue, store, record, status, ledger,
                 spent, unlooped, struck, faults>>

(* Mutant: nothing waits for the jobs.                                     *)
QuitAtOnce ==
  /\ repl = "prompt"
  /\ repl' = "draining"
  /\ UNCHANGED <<interrupted, awaited, active, turns, progress, store, record, status, ledger,
                 spent, unlooped, struck, faults>>

(* /quit or the end of the input: wait_all() gathers the jobs' tasks.      *)
Quit ==
  /\ repl = "prompt"
  /\ repl' = "draining"
  /\ awaited' = {j \in Jobs : Alive(j)}
  /\ UNCHANGED <<interrupted, active, turns, progress, store, record, status, ledger,
                 spent, unlooped, struck, faults>>

(* ... or in wait_all(), whose gather cancels the jobs in turn.            *)
InterruptDrain ==
  /\ repl = "draining" /\ ~interrupted
  /\ interrupted' = TRUE
  /\ repl' = "aborting"
  /\ cancelling' = cancelling \cup {j \in awaited : Alive(j)}
  /\ UNCHANGED <<awaited, active, turns, task, queue, store, record, status, ledger,
                 spent, unlooped, struck, faults>>

(* The store is closed once the jobs have ended, unless wait_all() raised. *)
Close ==
  /\ repl \in {"draining", "aborting"}
  /\ \A j \in awaited : ~Alive(j)
  /\ repl' = "leaving"
  /\ store' = IF repl = "draining" THEN "closed" ELSE store
  /\ UNCHANGED <<interrupted, awaited, active, turns, progress, record, status, ledger,
                 spent, unlooped, struck, faults>>

(* The main coroutine has returned: asyncio.run cancels what is left...    *)
CancelRest ==
  /\ repl = "leaving"
  /\ repl' = "exiting"
  /\ cancelling' = cancelling \cup {a \in Tasks : Alive(a)}
  /\ UNCHANGED <<interrupted, awaited, active, turns, task, queue, store, record, status,
                 ledger, spent, unlooped, struck, faults>>

(* ... and waits for it.                                                   *)
Exit ==
  /\ repl = "exiting"
  /\ \A a \in Tasks : ~Alive(a)
  /\ repl' = "gone"
  /\ UNCHANGED <<interrupted, awaited, active, turns, progress, store, record, status,
                 ledger, spent, unlooped, struck, faults>>

-----------------------------------------------------------------------------
(* A task                                                                  *)

Runs(a) == a \notin cancelling

(* _drive's first step.                                                    *)
StartJob(j) ==
  /\ task[j] = "created" /\ Runs(j)
  /\ status' = [status EXCEPT ![j] = "running"]
  /\ Becomes(j, "waiting")
  /\ queue' = Append(queue, j)
  /\ UNCHANGED <<session, cancelling, store, record, ledger, spent, unlooped, struck, faults>>

(* Mutant: a budget is exceeded only beyond its limit.                     *)
BeginTickLate(l) ==
  IF counted[l] > Budget
    THEN /\ state' = [state EXCEPT ![l] = "stopped"]
         /\ Becomes(l, "ended")
         /\ UNCHANGED queue
    ELSE /\ state' = [state EXCEPT ![l] = "running"]
         /\ Becomes(l, "waiting")
         /\ queue' = Append(queue, l)

(* step(): the budget is looked at before the runtime is asked.            *)
BeginTick(l) ==
  IF counted[l] >= Budget
    THEN /\ state' = [state EXCEPT ![l] = "stopped"]
         /\ Becomes(l, "ended")
         /\ UNCHANGED queue
    ELSE /\ state' = [state EXCEPT ![l] = "running"]
         /\ Becomes(l, "waiting")
         /\ queue' = Append(queue, l)

(* run_forever() begins as RUNNING, whatever was set before.               *)
StartRunner(l) ==
  /\ task[l] = "created" /\ Runs(l)
  /\ BeginTick(l)
  /\ UNCHANGED <<session, cancelling, store, record, status, failures, counted, spent, unlooped,
                 struck, faults>>

(* The cadence has passed.                                                 *)
Wake(l) ==
  /\ task[l] = "sleeping" /\ Runs(l)
  /\ IF state[l] = "running" THEN BeginTick(l)
                             ELSE Becomes(l, "ended") /\ UNCHANGED <<state, queue>>
  /\ UNCHANGED <<session, cancelling, store, record, status, failures, counted, spent, unlooped,
                 struck, faults>>

(* A task cancelled before its first step never takes it, and one that is  *)
(* cancelled in its sleep is over: neither status nor state are touched.   *)
Vanish(a) ==
  /\ task[a] \in {"created", "sleeping"} /\ ~Runs(a)
  /\ Becomes(a, "ended")
  /\ cancelling' = cancelling \ {a}
  /\ UNCHANGED <<session, queue, store, record, status, ledger, spent, unlooped, struck, faults>>

-----------------------------------------------------------------------------
(* A run, and what its caller makes of its end r: a result, "cancelled"    *)
(* (CancelledError) or "error" (StorageError)                              *)

JobEnds(j, r) ==
  /\ Becomes(j, "ended")
  /\ status' = [status EXCEPT ![j] = IF r = "error" THEN "failed" ELSE r]
  /\ UNCHANGED <<repl, ledger>>

TurnEnds ==
  /\ Becomes("chat", "none")
  /\ repl' = "prompt"
  /\ UNCHANGED <<status, ledger>>

(* Mutant: an exception is not a failure of the tick.                      *)
TickEndsForgiving(l, r) ==
  /\ IF r = "cancelled"
       THEN /\ state' = [state EXCEPT ![l] = "stopped"]
            /\ UNCHANGED <<failures, counted>>
       ELSE /\ failures' = [failures EXCEPT ![l] =
                 IF r = "failed" THEN @ + 1 ELSE IF r = "error" THEN @ ELSE 0]
            /\ counted' = [counted EXCEPT ![l] = IF r = "error" THEN @ ELSE @ + 1]
            /\ state' = [state EXCEPT ![l] = IF failures'[l] >= FailureLimit THEN "failed" ELSE @]
  /\ Becomes(l, IF state'[l] = "running" THEN "sleeping" ELSE "ended")
  /\ UNCHANGED <<repl, status>>

(* A tick that was cancelled stops the loop; any other exception counts as *)
(* a failed tick, and its usage is not known.                              *)
TickEnds(l, r) ==
  /\ IF r = "cancelled"
       THEN /\ state' = [state EXCEPT ![l] = "stopped"]
            /\ UNCHANGED <<failures, counted>>
       ELSE /\ failures' = [failures EXCEPT ![l] = IF r = "completed" THEN 0 ELSE @ + 1]
            /\ counted' = [counted EXCEPT ![l] = IF r = "error" THEN @ ELSE @ + 1]
            /\ state' = [state EXCEPT ![l] = IF failures'[l] >= FailureLimit THEN "failed" ELSE @]
  /\ Becomes(l, IF state'[l] = "running" THEN "sleeping" ELSE "ended")
  /\ UNCHANGED <<repl, status>>

RunEnds(a, r) ==
  /\ \/ a \in Jobs /\ JobEnds(a, r)
     \/ a \in Loops /\ TickEnds(a, r)
     \/ a = "chat" /\ TurnEnds
  /\ cancelling' = cancelling \ {a}
  /\ UNCHANGED <<interrupted, awaited, active, turns, store, unlooped>>

LockFree == \A a \in Tasks : task[a] \notin {"running", "hooks"}

Granted(a) == queue # <<>> /\ Head(queue) = a /\ LockFree /\ Runs(a)

(* The lock is taken and create_run() succeeds.                            *)
BeginRun(a) ==
  /\ Granted(a) /\ store = "open"
  /\ Becomes(a, "running")
  /\ queue' = Tail(queue)
  /\ record' = [record EXCEPT ![a] = "open"]
  /\ spent' = [l \in Loops |-> IF l = a THEN spent[l] + 1 ELSE spent[l]]
  /\ UNCHANGED <<session, cancelling, store, status, ledger, unlooped, struck, faults>>

(* The store refuses, because it is closed or for a reason of its own.     *)
StoreRaises(a) ==
  IF store = "closed"
    THEN UNCHANGED <<struck, faults>>
    ELSE /\ faults < MaxFaults
         /\ faults' = faults + 1
         /\ struck' = struck \cup {a}

CreateFails(a) ==
  /\ Granted(a)
  /\ StoreRaises(a)
  /\ queue' = Tail(queue)
  /\ RunEnds(a, "error")
  /\ UNCHANGED <<record, spent>>

(* The outcome is stored; the STOP hooks run before it is returned.        *)
Finish(a, r) ==
  /\ task[a] = "running" /\ Runs(a) /\ store = "open"
  /\ record' = [record EXCEPT ![a] = r]
  /\ Becomes(a, "hooks")
  /\ UNCHANGED <<session, cancelling, queue, store, status, ledger, spent, unlooped, struck,
                 faults>>

Return(a) ==
  /\ task[a] = "hooks" /\ Runs(a)
  /\ RunEnds(a, record[a])
  /\ UNCHANGED <<queue, record, spent, struck, faults>>

(* StorageError: the run stays as it is stored.                            *)
Break(a) ==
  /\ task[a] = "running" /\ Runs(a)
  /\ StoreRaises(a)
  /\ RunEnds(a, "error")
  /\ UNCHANGED <<queue, record, spent>>

-----------------------------------------------------------------------------
(* A cancelled run                                                         *)

(* Waiting for the lock: there is no run yet.                              *)
CancelWaiting(a) ==
  /\ task[a] = "waiting" /\ ~Runs(a)
  /\ \E i \in DOMAIN queue :
       /\ queue[i] = a
       /\ queue' = [k \in 1 .. Len(queue) - 1 |-> IF k < i THEN queue[k] ELSE queue[k + 1]]
  /\ RunEnds(a, "cancelled")
  /\ UNCHANGED <<record, spent, struck, faults>>

(* Mutant: the run is not terminated.                                      *)
CancelRunningOnly(a) ==
  /\ task[a] = "running" /\ ~Runs(a) /\ store = "open"
  /\ RunEnds(a, "cancelled")
  /\ UNCHANGED <<queue, record, spent, struck, faults>>

(* terminate() stores the outcome, and CancelledError goes on.             *)
CancelRunning(a) ==
  /\ task[a] = "running" /\ ~Runs(a) /\ store = "open"
  /\ record' = [record EXCEPT ![a] = "cancelled"]
  /\ RunEnds(a, "cancelled")
  /\ UNCHANGED <<queue, spent, struck, faults>>

(* The outcome is stored already.                                          *)
CancelHooks(a) ==
  /\ task[a] = "hooks" /\ ~Runs(a)
  /\ RunEnds(a, "cancelled")
  /\ UNCHANGED <<queue, record, spent, struck, faults>>

(* terminate() raises StorageError, in the place of CancelledError.        *)
CancelBreaks(a) ==
  /\ task[a] = "running" /\ ~Runs(a)
  /\ StoreRaises(a)
  /\ RunEnds(a, "error")
  /\ UNCHANGED <<queue, record, spent>>

-----------------------------------------------------------------------------

Prompt ==
  \/ \E j \in Jobs : Submit(j) \/ CancelJob(j)
  \/ \E l \in Loops : StartLoop(l) \/ StopLoop(l) \/ Pause(l) \/ Resume(l)
  \/ BeginTurn \/ InterruptTurn \/ Quit \/ InterruptDrain

Leave == Close \/ CancelRest \/ Exit

Advance(a) ==
  \/ a \in Jobs /\ StartJob(a)
  \/ a \in Loops /\ (StartRunner(a) \/ Wake(a))
  \/ Vanish(a)
  \/ BeginRun(a) \/ (\E r \in {"completed", "failed"} : Finish(a, r)) \/ Return(a)
  \/ CreateFails(a) \/ Break(a)
  \/ CancelWaiting(a) \/ CancelRunning(a) \/ CancelHooks(a) \/ CancelBreaks(a)

Next == Prompt \/ Leave \/ \E a \in Tasks : Advance(a)

Spec == Init /\ [][Next]_vars

(* The event loop runs every task, runs end (their policy bounds them),    *)
(* timers expire, and the main coroutine goes on.  Nobody need type.       *)
FairSpec ==
  /\ Spec
  /\ WF_vars(Leave)
  /\ \A a \in Tasks : WF_vars(Advance(a))

-----------------------------------------------------------------------------

(* What /jobs tells of a job that has ended is what the store tells of its *)
(* run, except that a cancellation may come during the STOP hooks of a run *)
(* already decided, a run the store failed is not closed, and a job        *)
(* cancelled before its first step stays pending.  (_drive, cancel)        *)
JobAccounted == \A j \in Jobs :
  /\ status[j] \in Ended => task[j] = "ended"
  /\ task[j] = "ended" =>
       \/ status[j] = record[j]
       \/ status[j] = "cancelled" /\ record[j] # "open"
       \/ status[j] = "failed" /\ record[j] \in {"none", "open"} /\ j \in struck
       \/ status[j] = "pending" /\ record[j] = "none"

(* However jobs, turns and loops are cancelled and the chat is left, no    *)
(* run is left to be resumed that nobody executes, except where the store  *)
(* failed and the tick in flight when /quit closes the store under a loop. *)
(* (wait_all, close, run)                                                  *)
NothingLeftOpen == \A a \in Tasks :
  record[a] = "open" =>
    \/ task[a] = "running"
    \/ a \in struck
    \/ a \in Loops /\ store = "closed"

(* A loop never begins more runs than its failure limit times its budget:  *)
(* ticks that raise cost what nobody counts, but only so many in a row.    *)
(* (step)                                                                  *)
SpendBounded == \A l \in Loops : spent[l] <= FailureLimit * Budget

(* A loop ended by /unloop begins no further run, wherever its driver was  *)
(* and whatever the store does to the cancellation.  (_stop_loop, stop)    *)
NoTickAfterUnloop ==
  [][\A l \in unlooped : spent'[l] = spent[l]]_vars

(* A turn comes back to the prompt, and a chat that is left is gone in the *)
(* end, even if a loop has swallowed its cancellation.                     *)
(* (_run_turn, step, wait_all)                                             *)
ChatGoesOn ==
  /\ repl = "turn" ~> repl = "prompt"
  /\ repl = "draining" ~> repl = "gone"
=============================================================================
