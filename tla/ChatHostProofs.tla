--------------------------- MODULE ChatHostProofs ---------------------------
(***************************************************************************)
(* The chat as the host of concurrent runs, for any number of jobs, loops, *)
(* turns and failures of the store: types, the jobs' status, no run left   *)
(* open, the loops' spending and the end of a loop.                        *)
(***************************************************************************)
EXTENDS ChatHost, TLAPS

(* Waiting tasks wait once.                                                *)
Queued ==
  /\ \A i \in DOMAIN queue : task[queue[i]] = "waiting"
  /\ \A i, k \in DOMAIN queue : queue[i] = queue[k] => i = k

(* What the main coroutine may rely on.                                    *)
Hosted ==
  /\ task["chat"] \in {"none", "waiting", "running", "hooks"}
  /\ repl = "turn" <=> task["chat"] # "none"
  /\ repl \in {"draining", "aborting"} => \A j \in Jobs : Alive(j) => j \in awaited
  /\ store = "closed" =>
       repl \in {"leaving", "exiting", "gone"} /\ \A j \in Jobs : ~Alive(j)
  /\ active # "none" => task[active] # "none"

(* Where a job stands, its status and the record of its run.               *)
Told(j) ==
  /\ task[j] \in {"none", "created"} => status[j] = "pending" /\ record[j] = "none"
  /\ task[j] = "waiting" => status[j] = "running" /\ record[j] = "none"
  /\ task[j] = "running" => status[j] = "running" /\ record[j] = "open"
  /\ task[j] = "hooks" => status[j] = "running" /\ record[j] \in {"completed", "failed"}
  /\ task[j] # "sleeping"
  /\ task[j] = "ended" =>
       \/ status[j] = record[j]
       \/ status[j] = "cancelled" /\ record[j] # "open"
       \/ status[j] = "failed" /\ record[j] \in {"none", "open"} /\ j \in struck
       \/ status[j] = "pending" /\ record[j] = "none"

InRun(a) == task[a] \in {"running", "hooks"}

(* A loop begins no run it could not still pay for.                        *)
Pace(l) ==
  /\ spent[l] <= FailureLimit * Budget
  /\ Alive(l) =>
       /\ failures[l] < FailureLimit
       /\ spent[l] <= FailureLimit * counted[l] + failures[l] + (IF InRun(l) THEN 1 ELSE 0)
  /\ task[l] \in {"waiting", "running", "hooks"} => counted[l] < Budget
  /\ task[l] = "none" => failures[l] = 0 /\ counted[l] = 0 /\ spent[l] = 0

(* What is left of a loop after /unloop is on its way out.                 *)
Unloops(l) == l \in unlooped =>
  /\ task[l] # "none" /\ active # l
  /\ state[l] \in {"stopped", "failed"}
  /\ Alive(l) => l \in cancelling

Recorded(a) ==
  /\ task[a] = "hooks" => record[a] \in {"completed", "failed"}
  /\ record[a] = "open" =>
       \/ task[a] = "running"
       \/ a \in struck
       \/ a \in Loops /\ store = "closed"

Inv ==
  /\ TypeOK /\ Queued /\ Hosted
  /\ \A j \in Jobs : Told(j)
  /\ \A l \in Loops : Pace(l) /\ Unloops(l)
  /\ \A a \in Tasks : Recorded(a)

LEMMA TasksAre ==
  /\ Jobs \subseteq Tasks /\ Loops \subseteq Tasks /\ "chat" \in Tasks
  /\ Tasks = Jobs \cup Loops \cup {"chat"}
  /\ \A j \in Jobs : j \notin Loops /\ j # "chat" /\ j # "none"
  /\ \A l \in Loops : l \notin Jobs /\ l # "chat" /\ l # "none"
BY TasksAssumption DEF Tasks

(* One more result, and there is still budget.                             *)
LEMMA Product ==
  ASSUME NEW f \in Nat, NEW c \in Nat, NEW b \in Nat, c < b
  PROVE  f * c \in Nat /\ f * b \in Nat /\ f * (c + 1) = f * c + f /\ f * (c + 1) <= f * b
<1>1. f * c \in Nat /\ f * b \in Nat
  OBVIOUS
<1>2. f * (c + 1) = f * c + f
  OBVIOUS
<1>3. PICK d \in Nat : b = (c + 1) + d
  <2>1. b - (c + 1) \in Nat
    OBVIOUS
  <2> QED BY <2>1
<1>4. f * b = f * (c + 1) + f * d
  BY <1>3
<1>5. f * d \in Nat
  OBVIOUS
<1> QED BY <1>1, <1>2, <1>4, <1>5

LEMMA InvInit == Init => Inv
<1> SUFFICES ASSUME Init PROVE Inv
  OBVIOUS
<1> USE TasksAre, LimitsAssumption
<1>1. TypeOK
  <2>1. queue \in Seq(Tasks) /\ 0 \in 0 .. FailureLimit /\ 0 \in 0 .. Budget
        /\ 0 \in 0 .. MaxTurns /\ 0 \in 0 .. MaxFaults
    BY DEF Init
  <2>2. /\ failures \in [Loops -> 0 .. FailureLimit] /\ counted \in [Loops -> 0 .. Budget]
        /\ spent \in [Loops -> Nat]
    BY <2>1 DEF Init
  <2>3. task \in [Tasks -> {"none"}] /\ record \in [Tasks -> {"none"}]
        /\ status \in [Jobs -> {"pending"}] /\ state \in [Loops -> {"idle"}]
    BY DEF Init
  <2> QED BY <2>1, <2>2, <2>3 DEF Init, TypeOK, Ended
<1>2. Queued /\ Hosted
  BY DEF Init, Queued, Hosted, Alive
<1>3. \A j \in Jobs : Told(j)
  BY DEF Init, Told
<1>4. \A l \in Loops : Pace(l) /\ Unloops(l)
  <2>1. FailureLimit * Budget \in Nat
    OBVIOUS
  <2> QED BY <2>1 DEF Init, Pace, Unloops, Alive
<1>5. \A a \in Tasks : Recorded(a)
  BY DEF Init, Recorded
<1> QED BY <1>1, <1>2, <1>3, <1>4, <1>5 DEF Inv

-----------------------------------------------------------------------------
(* What a step leaves alone.                                               *)

LEMMA JobKept ==
  ASSUME NEW j \in Jobs, Told(j), struck \subseteq struck',
         task'[j] = task[j], status'[j] = status[j], record'[j] = record[j]
  PROVE  Told(j)'
BY DEF Told

LEMMA PaceKept ==
  ASSUME NEW l \in Loops, Pace(l),
         task'[l] = task[l], failures'[l] = failures[l], counted'[l] = counted[l],
         spent'[l] = spent[l]
  PROVE  Pace(l)'
BY DEF Pace, Alive, InRun

LEMMA UnloopsKept ==
  ASSUME NEW l \in Loops, Unloops(l), l \in cancelling => l \in cancelling',
         active' = active, unlooped' = unlooped, task'[l] = task[l], state'[l] = state[l]
  PROVE  Unloops(l)'
BY DEF Unloops, Alive

LEMMA RecordKept ==
  ASSUME NEW a \in Tasks, Recorded(a), struck \subseteq struck',
         store = "closed" => store' = "closed",
         task'[a] = task[a], record'[a] = record[a]
  PROVE  Recorded(a)'
BY DEF Recorded

LEMMA QueueKept ==
  ASSUME Queued, queue' = queue,
         \A i \in DOMAIN queue : task'[queue[i]] = task[queue[i]]
  PROVE  Queued'
BY DEF Queued

-----------------------------------------------------------------------------
(* The prompt, where no task moves.                                        *)

Still ==
  /\ UNCHANGED <<task, queue, record, status, failures, counted, spent, struck>>
  /\ store = "closed" => store' = "closed"

LEMMA StillStep ==
  ASSUME Inv, Still, TypeOK', Hosted', \A l \in Loops : Unloops(l)'
  PROVE  Inv'
<1>1. Queued'
  BY QueueKept DEF Inv, Still
<1>2. \A j \in Jobs : Told(j)'
  BY JobKept DEF Inv, Still
<1>3. \A l \in Loops : Pace(l)'
  BY PaceKept DEF Inv, Still
<1>4. \A a \in Tasks : Recorded(a)'
  BY RecordKept DEF Inv, Still
<1> QED BY <1>1, <1>2, <1>3, <1>4 DEF Inv

LEMMA CancelJobStep ==
  ASSUME Inv, NEW j \in Jobs, CancelJob(j)
  PROVE  Inv'
<1> USE TasksAre DEF CancelJob, session
<1>1. Still /\ UNCHANGED <<repl, awaited, active, unlooped, state, store, interrupted, turns, faults>>
      /\ cancelling \subseteq cancelling' /\ cancelling' \subseteq cancelling \cup {j}
  BY DEF Still, ledger
<1>2. TypeOK'
  BY <1>1 DEF Still, Inv, TypeOK
<1>3. Hosted'
  BY <1>1 DEF Still, Inv, Hosted, Alive
<1>4. \A l \in Loops : Unloops(l)'
  BY <1>1, UnloopsKept DEF Still, Inv
<1> QED BY <1>1, <1>2, <1>3, <1>4, StillStep

LEMMA StopLoopStep ==
  ASSUME Inv, NEW l \in Loops, StopLoop(l)
  PROVE  Inv'
<1> USE TasksAre
<1>1. Still /\ UNCHANGED <<repl, awaited, store, interrupted, turns, faults>>
      /\ repl = "prompt" /\ active = l /\ active' = "none"
      /\ unlooped' = unlooped \cup {l} /\ state' = [state EXCEPT ![l] = "stopped"]
      /\ cancelling' = IF Alive(l) THEN cancelling \cup {l} ELSE cancelling
  BY DEF StopLoop, Still
<1>2. TypeOK'
  BY <1>1 DEF Still, Inv, TypeOK
<1>3. Hosted'
  BY <1>1 DEF Still, Inv, Hosted, Alive
<1>4. ASSUME NEW m \in Loops PROVE Unloops(m)'
  <2>1. CASE m = l
    BY <1>1, <2>1 DEF Still, Inv, TypeOK, Hosted, Unloops, Alive
  <2>2. CASE m # l
    BY <1>1, <2>2 DEF Still, Inv, TypeOK, Unloops, Alive
  <2> QED BY <2>1, <2>2
<1> QED BY <1>1, <1>2, <1>3, <1>4, StillStep

LEMMA SetStateStep ==
  ASSUME Inv, NEW l \in Loops, Pause(l) \/ Resume(l)
  PROVE  Inv'
<1> USE TasksAre
<1>1. Still /\ UNCHANGED <<session, store, cancelling, unlooped, faults>> /\ active = l
  BY DEF Pause, Resume, SetState, Still, progress
<1>2. PICK to \in {"paused", "running"} : state' = [state EXCEPT ![l] = to]
  BY DEF Pause, Resume, SetState
<1>3. TypeOK'
  BY <1>1, <1>2 DEF Still, session, Inv, TypeOK
<1>4. Hosted'
  BY <1>1 DEF Still, session, Inv, Hosted, Alive
<1>5. \A m \in Loops : Unloops(m)'
  BY <1>1, <1>2 DEF Still, session, Inv, TypeOK, Unloops, Alive
<1> QED BY <1>1, <1>3, <1>4, <1>5, StillStep

LEMMA HostStep ==
  ASSUME Inv, \/ InterruptTurn \/ Quit \/ InterruptDrain
              \/ Close \/ CancelRest \/ Exit \/ UNCHANGED vars
  PROVE  Inv'
<1> USE TasksAre
<1>1. Still /\ UNCHANGED <<active, unlooped, state, turns, faults>>
      /\ cancelling \subseteq cancelling'
  BY DEF InterruptTurn, Quit, InterruptDrain, Close, CancelRest, Exit, vars, Still,
         session, progress, ledger
<1>2. TypeOK'
  BY <1>1 DEF InterruptTurn, Quit, InterruptDrain, Close, CancelRest, Exit, vars,
              session, Still, Inv, TypeOK, progress
<1>3. Hosted'
  <2>1. CASE InterruptTurn \/ InterruptDrain \/ UNCHANGED vars
    BY <1>1, <2>1 DEF InterruptTurn, InterruptDrain, vars, session, Still, Inv, Hosted, Alive
  <2>2. CASE Quit
    BY <1>1, <2>2 DEF Quit, Still, Inv, Hosted, Alive
  <2>3. CASE Close
    BY <1>1, <2>3 DEF Close, Still, Inv, Hosted, Alive
  <2>4. CASE CancelRest \/ Exit
    BY <1>1, <2>4 DEF CancelRest, Exit, Still, Inv, Hosted, Alive
  <2> QED BY <2>1, <2>2, <2>3, <2>4
<1>4. \A l \in Loops : Unloops(l)'
  BY <1>1, UnloopsKept DEF Still, Inv
<1> QED BY <1>1, <1>2, <1>3, <1>4, StillStep

-----------------------------------------------------------------------------
(* A task that moves without a run.                                        *)

(* Nothing but the place of task a changes that concerns other tasks.      *)
Alone(a) ==
  /\ \A b \in Tasks \ {a} : task'[b] = task[b] /\ record'[b] = record[b]
  /\ \A j \in Jobs \ {a} : status'[j] = status[j]
  /\ \A l \in Loops \ {a} :
       /\ state'[l] = state[l] /\ failures'[l] = failures[l]
       /\ counted'[l] = counted[l] /\ spent'[l] = spent[l]
       /\ l \in cancelling => l \in cancelling'
  /\ struck \subseteq struck'
  /\ UNCHANGED <<store, awaited, unlooped>>

(* It leaves the queue alone, joins it or leaves it.                       *)
LEMMA AloneStep ==
  ASSUME Inv, NEW a \in Tasks, Alone(a), TypeOK', Queued', Hosted', Recorded(a)',
         active' = active \/ (active' = a /\ a \in Loops /\ a \notin unlooped),
         a \in Jobs => Told(a)', a \in Loops => Pace(a)' /\ Unloops(a)'
  PROVE  Inv'
<1> USE TasksAre
<1>1. \A j \in Jobs : Told(j)'
  BY JobKept DEF Inv, Alone
<1>2. \A l \in Loops : Pace(l)'
  BY PaceKept DEF Inv, Alone
<1>3. \A l \in Loops : Unloops(l)'
  <2> SUFFICES ASSUME NEW l \in Loops, l # a PROVE Unloops(l)'
    OBVIOUS
  <2> QED BY DEF Inv, Alone, Unloops, Alive
<1>4. \A b \in Tasks : Recorded(b)'
  BY RecordKept DEF Inv, Alone
<1> QED BY <1>1, <1>2, <1>3, <1>4 DEF Inv

LEMMA QueueStays ==
  ASSUME Inv, NEW a \in Tasks, task[a] # "waiting", Alone(a), queue' = queue
  PROVE  Queued'
<1>1. \A i \in DOMAIN queue : queue[i] \in Tasks /\ queue[i] # a
  BY DEF Inv, TypeOK, Queued
<1> QED BY <1>1, QueueKept DEF Inv, Alone

LEMMA QueueGrows ==
  ASSUME Inv, NEW a \in Tasks, task[a] # "waiting", task'[a] = "waiting", Alone(a),
         queue' = Append(queue, a)
  PROVE  Queued' /\ queue' \in Seq(Tasks)
<1>1. queue \in Seq(Tasks)
  BY DEF Inv, TypeOK
<1>2. \A i \in DOMAIN queue : queue[i] \in Tasks /\ queue[i] # a /\ task'[queue[i]] = "waiting"
  BY <1>1 DEF Inv, Queued, Alone
<1>3. /\ queue' \in Seq(Tasks) /\ Len(queue') = Len(queue) + 1
      /\ DOMAIN queue' = 1 .. Len(queue) + 1 /\ DOMAIN queue = 1 .. Len(queue)
      /\ queue'[Len(queue) + 1] = a
      /\ \A i \in DOMAIN queue : queue'[i] = queue[i]
  BY <1>1
<1>4. \A i \in DOMAIN queue' : i \in DOMAIN queue \/ i = Len(queue) + 1
  BY <1>1, <1>3
<1>5. \A i, k \in DOMAIN queue : queue[i] = queue[k] => i = k
  BY DEF Inv, Queued
<1> QED BY <1>2, <1>3, <1>4, <1>5 DEF Queued

LEMMA SubmitStep ==
  ASSUME Inv, NEW j \in Jobs, Submit(j)
  PROVE  Inv'
<1> USE TasksAre
<1>1. /\ repl = "prompt" /\ task[j] = "none" /\ task' = [task EXCEPT ![j] = "created"]
      /\ UNCHANGED <<repl, interrupted, awaited, active, turns, cancelling, queue, store,
                     record, status, state, failures, counted, spent, unlooped, struck, faults>>
  BY DEF Submit, Becomes, session, ledger
<1>2. TypeOK'
  BY <1>1 DEF Inv, TypeOK
<1>3. Alone(j) /\ task'[j] = "created"
  BY <1>1 DEF Alone, Inv, TypeOK
<1>4. Queued'
  BY <1>1, <1>3, QueueStays
<1>5. Hosted'
  BY <1>1, <1>3 DEF Inv, TypeOK, Hosted, Alone, Alive
<1>6. Told(j)' /\ Recorded(j)'
  BY <1>1, <1>3 DEF Inv, Told, Recorded
<1>7. active' = active /\ j \notin Loops
  BY <1>1
<1> QED BY <1>2, <1>3, <1>4, <1>5, <1>6, <1>7, AloneStep

LEMMA StartLoopStep ==
  ASSUME Inv, NEW l \in Loops, StartLoop(l)
  PROVE  Inv'
<1> USE TasksAre
<1>1. /\ repl = "prompt" /\ task[l] = "none" /\ task' = [task EXCEPT ![l] = "created"]
      /\ active' = l
      /\ UNCHANGED <<repl, interrupted, awaited, turns, cancelling, queue, store,
                     record, status, state, failures, counted, spent, unlooped, struck, faults>>
  BY DEF StartLoop, Becomes, ledger
<1>2. TypeOK'
  BY <1>1 DEF Inv, TypeOK
<1>3. Alone(l) /\ task'[l] = "created" /\ l \notin unlooped
  BY <1>1 DEF Alone, Inv, TypeOK, Unloops
<1>4. Queued'
  BY <1>1, <1>3, QueueStays
<1>5. Hosted'
  BY <1>1, <1>3 DEF Inv, TypeOK, Hosted, Alone, Alive
<1>6. Recorded(l)' /\ Unloops(l)'
  BY <1>1, <1>3 DEF Inv, Recorded, Unloops
<1>7. Pace(l)'
  BY <1>1, <1>3, LimitsAssumption DEF Inv, Pace, Alive, InRun
<1> QED BY <1>1, <1>2, <1>3, <1>4, <1>5, <1>6, <1>7, AloneStep

LEMMA BeginTurnStep ==
  ASSUME Inv, BeginTurn
  PROVE  Inv'
<1> USE TasksAre
<1>1. /\ repl = "prompt" /\ repl' = "turn" /\ turns < MaxTurns /\ turns' = turns + 1
      /\ task' = [task EXCEPT !["chat"] = "waiting"] /\ queue' = Append(queue, "chat")
      /\ UNCHANGED <<interrupted, awaited, active, cancelling, store,
                     record, status, state, failures, counted, spent, unlooped, struck, faults>>
  BY DEF BeginTurn, Becomes, ledger
<1>2. task["chat"] = "none"
  BY <1>1 DEF Inv, Hosted
<1>3. Alone("chat") /\ task'["chat"] = "waiting"
  BY <1>1 DEF Alone, Inv, TypeOK
<1>4. Queued' /\ queue' \in Seq(Tasks)
  BY <1>1, <1>2, <1>3, QueueGrows
<1>5. TypeOK'
  BY <1>1, <1>4, LimitsAssumption DEF Inv, TypeOK
<1>6. Hosted'
  BY <1>1, <1>3 DEF Inv, TypeOK, Hosted, Alone, Alive
<1>7. Recorded("chat")'
  BY <1>1, <1>2, <1>3 DEF Inv, Recorded
<1>8. active' = active /\ "chat" \notin Jobs /\ "chat" \notin Loops
  BY <1>1
<1> QED BY <1>3, <1>4, <1>5, <1>6, <1>7, <1>8, AloneStep

LEMMA StartJobStep ==
  ASSUME Inv, NEW j \in Jobs, StartJob(j)
  PROVE  Inv'
<1> USE TasksAre
<1>1. /\ task[j] = "created" /\ task' = [task EXCEPT ![j] = "waiting"]
      /\ status' = [status EXCEPT ![j] = "running"] /\ queue' = Append(queue, j)
      /\ UNCHANGED <<repl, interrupted, awaited, active, turns, cancelling, store,
                     record, state, failures, counted, spent, unlooped, struck, faults>>
  BY DEF StartJob, Becomes, session, ledger
<1>3. Alone(j) /\ task'[j] = "waiting" /\ status'[j] = "running"
  BY <1>1 DEF Alone, Inv, TypeOK
<1>4. Queued' /\ queue' \in Seq(Tasks)
  BY <1>1, <1>3, QueueGrows
<1>5. TypeOK'
  BY <1>1, <1>4 DEF Inv, TypeOK
<1>6. Hosted'
  BY <1>1, <1>3 DEF Inv, TypeOK, Hosted, Alone, Alive
<1>7. Told(j)' /\ Recorded(j)'
  BY <1>1, <1>3 DEF Inv, Told, Recorded
<1>8. active' = active /\ j \notin Loops
  BY <1>1
<1> QED BY <1>3, <1>4, <1>5, <1>6, <1>7, <1>8, AloneStep

(* A loop whose task has been started, and wants to go on.                 *)
LEMMA BeginTickStep ==
  ASSUME Inv, NEW l \in Loops, task[l] \in {"created", "sleeping"}, l \notin cancelling,
         BeginTick(l),
         UNCHANGED <<session, cancelling, store, record, status, failures, counted, spent,
                     unlooped, struck, faults>>
  PROVE  Inv'
<1> USE TasksAre
<1>1. PICK s \in {"stopped", "running"}, stage \in {"ended", "waiting"} :
        state' = [state EXCEPT ![l] = s] /\ task' = [task EXCEPT ![l] = stage]
  BY DEF BeginTick, Becomes
<1>2. Alone(l) /\ task'[l] = stage
  BY <1>1 DEF Alone, session, Inv, TypeOK
<1>3. Queued' /\ queue' \in Seq(Tasks) /\ (stage = "waiting" => counted[l] < Budget)
  <2>1. CASE counted[l] >= Budget
    <3>1. queue' = queue /\ task'[l] = "ended" /\ queue \in Seq(Tasks)
      BY <1>1, <2>1 DEF BeginTick, Becomes, Inv, TypeOK
    <3> QED BY <1>2, <3>1, QueueStays
  <2>2. CASE ~(counted[l] >= Budget)
    <3>1. queue' = Append(queue, l) /\ task'[l] = "waiting"
      BY <1>1, <2>2 DEF BeginTick, Becomes, Inv, TypeOK
    <3> QED BY <1>2, <2>2, <3>1, QueueGrows, LimitsAssumption DEF Inv, TypeOK
  <2> QED BY <2>1, <2>2
<1>4. TypeOK'
  BY <1>1, <1>3 DEF session, Inv, TypeOK
<1>5. Hosted'
  BY <1>2 DEF session, Inv, TypeOK, Hosted, Alone, Alive
<1>6. Recorded(l)'
  BY <1>2 DEF Inv, Recorded
<1>7. Pace(l)'
  BY <1>2, <1>3 DEF Inv, Pace, Alive, InRun
<1>8. Unloops(l)'
  BY DEF Inv, Unloops, Alive
<1>9. active' = active /\ l \notin Jobs
  BY DEF session
<1> QED BY <1>2, <1>3, <1>4, <1>5, <1>6, <1>7, <1>8, <1>9, AloneStep

(* A task that is over without having run.                                 *)
LEMMA OverStep ==
  ASSUME Inv, NEW a \in Tasks, task[a] \in {"created", "sleeping"},
         Becomes(a, "ended"), cancelling' = cancelling \ {a},
         a \in unlooped => a \in cancelling,
         UNCHANGED <<session, queue, store, record, status, ledger, spent, unlooped, struck, faults>>
  PROVE  Inv'
<1> USE TasksAre
<1>1. Alone(a) /\ task'[a] = "ended" /\ task' = [task EXCEPT ![a] = "ended"] /\ a # "chat"
  BY DEF Becomes, Alone, session, ledger, Inv, TypeOK, Hosted
<1>2. TypeOK'
  BY <1>1 DEF session, ledger, Inv, TypeOK
<1>3. Queued'
  BY <1>1, QueueStays
<1>4. Hosted'
  BY <1>1 DEF session, Inv, TypeOK, Hosted, Alone, Alive
<1>5. Recorded(a)'
  BY <1>1 DEF Inv, Recorded
<1>6. a \in Jobs => Told(a)'
  BY <1>1 DEF Inv, Told
<1>7. a \in Loops => Pace(a)' /\ Unloops(a)'
  BY <1>1 DEF session, ledger, Inv, Pace, Unloops, Alive
<1>8. active' = active
  BY DEF session
<1> QED BY <1>1, <1>2, <1>3, <1>4, <1>5, <1>6, <1>7, <1>8, AloneStep

LEMMA StartRunnerStep ==
  ASSUME Inv, NEW l \in Loops, StartRunner(l)
  PROVE  Inv'
BY BeginTickStep DEF StartRunner, Runs

LEMMA WakeStep ==
  ASSUME Inv, NEW l \in Loops, Wake(l)
  PROVE  Inv'
<1> USE TasksAre
<1>1. CASE state[l] = "running"
  BY <1>1, BeginTickStep DEF Wake, Runs
<1>2. CASE state[l] # "running"
  <2>1. cancelling' = cancelling \ {l} /\ l \notin unlooped
    BY DEF Wake, Runs, Inv, Unloops, Alive
  <2> QED BY <1>2, <2>1, OverStep DEF Wake, ledger
<1> QED BY <1>1, <1>2

LEMMA VanishStep ==
  ASSUME Inv, NEW a \in Tasks, Vanish(a)
  PROVE  Inv'
BY OverStep DEF Vanish, Runs

-----------------------------------------------------------------------------
(* A task with a run                                                       *)

(* Whose turn it is to run is waiting.                                     *)
LEMMA GrantedFacts ==
  ASSUME Inv, NEW a \in Tasks, Granted(a)
  PROVE  /\ task[a] = "waiting" /\ a \notin cancelling
         /\ Tail(queue) \in Seq(Tasks)
         /\ \A b \in Tasks : \A i \in DOMAIN Tail(queue) : Tail(queue)[i] = b => b # a
<1>1. queue \in Seq(Tasks) /\ queue # <<>> /\ Head(queue) = a /\ a \notin cancelling
  BY DEF Granted, Runs, Inv, TypeOK
<1>2. /\ 1 \in DOMAIN queue /\ queue[1] = a /\ Tail(queue) \in Seq(Tasks)
      /\ Len(Tail(queue)) = Len(queue) - 1
      /\ \A i \in DOMAIN Tail(queue) : i + 1 \in DOMAIN queue /\ Tail(queue)[i] = queue[i + 1] /\ i + 1 # 1
  BY <1>1
<1> QED BY <1>1, <1>2 DEF Inv, Queued

LEMMA QueueShrinks ==
  ASSUME Inv, NEW a \in Tasks, Granted(a), Alone(a), queue' = Tail(queue)
  PROVE  Queued'
<1>1. queue \in Seq(Tasks) /\ queue # <<>> /\ queue[1] = a /\ 1 \in DOMAIN queue
  BY DEF Granted, Inv, TypeOK
<1>2. \A i \in DOMAIN queue' :
        i + 1 \in DOMAIN queue /\ queue'[i] = queue[i + 1] /\ i + 1 # 1 /\ i \in Nat
  BY <1>1
<1>3. \A i, k \in DOMAIN queue : queue[i] = queue[k] => i = k
  BY DEF Inv, Queued
<1>4. \A i \in DOMAIN queue' : queue'[i] \in Tasks \ {a} /\ task[queue'[i]] = "waiting"
  BY <1>1, <1>2, <1>3 DEF Inv, Queued
<1>5. \A i \in DOMAIN queue' : task'[queue'[i]] = "waiting"
  BY <1>4 DEF Alone
<1>6. ASSUME NEW i \in DOMAIN queue', NEW k \in DOMAIN queue', queue'[i] = queue'[k] PROVE i = k
  <2>1. i + 1 = k + 1
    BY <1>2, <1>3, <1>6
  <2> QED BY <1>2, <2>1
<1> QED BY <1>5, <1>6 DEF Queued

LEMMA BeginRunStep ==
  ASSUME Inv, NEW a \in Tasks, BeginRun(a)
  PROVE  Inv'
<1> USE TasksAre
<1>1. /\ task[a] = "waiting" /\ a \notin cancelling
      /\ queue' = Tail(queue) /\ Tail(queue) \in Seq(Tasks)
  BY GrantedFacts DEF BeginRun
<1>2. /\ store = "open" /\ task' = [task EXCEPT ![a] = "running"]
      /\ record' = [record EXCEPT ![a] = "open"]
      /\ spent' = [l \in Loops |-> IF l = a THEN spent[l] + 1 ELSE spent[l]]
      /\ UNCHANGED <<repl, interrupted, awaited, active, turns, cancelling, store, status,
                     state, failures, counted, unlooped, struck, faults>>
  BY DEF BeginRun, Becomes, session, ledger
<1>3. TypeOK'
  BY <1>1, <1>2 DEF Inv, TypeOK
<1>4. Alone(a) /\ task'[a] = "running" /\ record'[a] = "open"
  BY <1>2 DEF Alone, Inv, TypeOK
<1>5. Queued'
  BY <1>1, <1>4, QueueShrinks DEF BeginRun
<1>6. Hosted'
  BY <1>1, <1>2, <1>4 DEF Inv, TypeOK, Hosted, Alone, Alive
<1>7. Recorded(a)'
  BY <1>4 DEF Recorded
<1>8. a \in Jobs => Told(a)'
  BY <1>1, <1>2, <1>4 DEF Inv, Told
<1>9. ASSUME a \in Loops PROVE Pace(a)' /\ Unloops(a)'
  <2>1. /\ Pace(a) /\ Unloops(a) /\ Alive(a) /\ ~InRun(a)
        /\ failures[a] \in Nat /\ counted[a] \in Nat /\ spent[a] \in Nat
    BY <1>1, <1>9, LimitsAssumption DEF Inv, TypeOK, Alive, InRun
  <2>0. FailureLimit * counted[a] \in Nat
    BY <2>1, LimitsAssumption
  <2>2. /\ counted[a] < Budget /\ failures[a] < FailureLimit
        /\ spent[a] <= FailureLimit * counted[a] + failures[a]
    BY <1>1, <2>0, <2>1 DEF Pace
  <2>3. /\ FailureLimit * counted[a] \in Nat /\ FailureLimit * Budget \in Nat
        /\ FailureLimit * counted[a] + FailureLimit <= FailureLimit * Budget
    BY <2>1, <2>2, Product, LimitsAssumption
  <2>4. spent'[a] = spent[a] + 1
    BY <1>2, <1>9
  <2>5. spent'[a] <= FailureLimit * Budget /\ spent'[a] <= FailureLimit * counted[a] + failures[a] + 1
    BY <2>1, <2>2, <2>3, <2>4, LimitsAssumption
  <2>6. Pace(a)'
    BY <1>2, <1>4, <2>2, <2>5 DEF Pace, Alive, InRun
  <2>7. a \notin unlooped
    BY <1>1, <2>1 DEF Unloops
  <2> QED BY <1>2, <2>6, <2>7 DEF Unloops
<1>10. active' = active
  BY <1>2
<1> QED BY <1>3, <1>4, <1>5, <1>6, <1>7, <1>8, <1>9, <1>10, AloneStep

LEMMA FinishStep ==
  ASSUME Inv, NEW a \in Tasks, NEW r \in {"completed", "failed"}, Finish(a, r)
  PROVE  Inv'
<1> USE TasksAre
<1>1. /\ task[a] = "running" /\ a \notin cancelling
      /\ task' = [task EXCEPT ![a] = "hooks"]
      /\ record' = [record EXCEPT ![a] = r]
      /\ UNCHANGED <<repl, interrupted, awaited, active, turns, queue, cancelling, store, status,
                     state, failures, counted, spent, unlooped, struck, faults>>
  BY DEF Finish, Becomes, Runs, session, ledger
<1>2. TypeOK'
  BY <1>1 DEF Ended, Inv, TypeOK
<1>3. Alone(a) /\ task'[a] = "hooks" /\ record'[a] = r
  BY <1>1 DEF Alone, Inv, TypeOK
<1>4. Queued'
  BY <1>1, <1>3, QueueStays
<1>5. Hosted'
  BY <1>1, <1>3 DEF Inv, TypeOK, Hosted, Alone, Alive
<1>6. Recorded(a)'
  BY <1>3 DEF Recorded
<1>7. a \in Jobs => Told(a)'
  BY <1>1, <1>3 DEF Inv, Told
<1>8. a \in Loops => Pace(a)' /\ Unloops(a)'
  BY <1>1, <1>3 DEF Inv, Pace, Unloops, Alive, InRun
<1>9. active' = active
  BY <1>1
<1> QED BY <1>2, <1>3, <1>4, <1>5, <1>6, <1>7, <1>8, <1>9, AloneStep


-----------------------------------------------------------------------------
(* The end of a run, as its caller meets it: the run has returned, was     *)
(* cancelled, or the store has raised.                                     *)

EndsRun(a, r) ==
  /\ task[a] \in {"waiting", "running", "hooks"}
  /\ RunEnds(a, r)
  /\ \/ r \in {"completed", "failed"} /\ task[a] = "hooks" /\ a \notin cancelling
        /\ record' = record /\ record[a] = r
     \/ r = "cancelled" /\ task[a] # "running" /\ record' = record
     \/ r = "cancelled" /\ record' = [record EXCEPT ![a] = "cancelled"]
     \/ r = "error" /\ task[a] # "hooks" /\ record' = record /\ (a \in struck' \/ store = "closed")
  /\ spent' = spent /\ struck \subseteq struck' /\ struck' \subseteq Tasks
  /\ faults' \in 0 .. MaxFaults /\ queue' \in Seq(Tasks)

(* The record of a run that ended so is closed, or there is a reason.      *)
LEMMA EndRecord ==
  ASSUME Inv, NEW a \in Tasks, NEW r, EndsRun(a, r)
  PROVE  /\ record' \in [Tasks -> Ended \cup {"none", "open"}]
         /\ \A b \in Tasks \ {a} : record'[b] = record[b]
         /\ record'[a] = "open" => a \in struck' \/ (a \in Loops /\ store = "closed")
         /\ r = "error" /\ a \notin Loops => a \in struck'
<1> USE TasksAre
<1>0. record' = record \/ record' = [record EXCEPT ![a] = "cancelled"]
  BY DEF EndsRun
<1>1. record' \in [Tasks -> Ended \cup {"none", "open"}]
      /\ \A b \in Tasks \ {a} : record'[b] = record[b]
  BY <1>0 DEF Ended, Inv, TypeOK
<1>2. store = "closed" => a \in Loops
  BY DEF EndsRun, Inv, Hosted, Alive
<1>3. CASE record' = record
  <2>1. record[a] = "open" /\ task[a] # "running" => a \in struck \/ (a \in Loops /\ store = "closed")
    BY DEF Inv, Recorded
  <2>2. task[a] = "running" /\ record[a] = "open" => a \in struck' \/ store = "closed"
    BY <1>3 DEF EndsRun, Inv, TypeOK
  <2> QED BY <1>1, <1>2, <1>3, <2>1, <2>2 DEF EndsRun
<1>4. CASE record' = [record EXCEPT ![a] = "cancelled"]
  <2>1. record'[a] = "cancelled"
    BY <1>4 DEF Inv, TypeOK
  <2> QED BY <1>1, <1>2, <2>1 DEF EndsRun
<1> QED BY <1>0, <1>3, <1>4

LEMMA JobEndStep ==
  ASSUME Inv, NEW j \in Jobs, NEW r, EndsRun(j, r), Alone(j) => Queued'
  PROVE  Inv'
<1> USE TasksAre
<1>1. /\ task' = [task EXCEPT ![j] = "ended"]
      /\ status' = [status EXCEPT ![j] = IF r = "error" THEN "failed" ELSE r]
      /\ cancelling' = cancelling \ {j}
      /\ UNCHANGED <<repl, state, failures, counted, interrupted, awaited, active, turns, store,
                     unlooped, spent>>
  BY DEF EndsRun, RunEnds, JobEnds, Becomes, ledger
<1>2. r \in Ended \cup {"error"}
  BY DEF EndsRun, Ended
<1>3. TypeOK'
  BY <1>1, <1>2, EndRecord DEF EndsRun, Ended, Inv, TypeOK
<1>4. /\ Alone(j) /\ task'[j] = "ended" /\ struck \subseteq struck'
      /\ status'[j] = IF r = "error" THEN "failed" ELSE r
  BY <1>1, EndRecord DEF EndsRun, Alone, Inv, TypeOK
<1>5. Hosted'
  BY <1>1, <1>4 DEF Inv, TypeOK, Hosted, Alone, Alive
<1>6. Recorded(j)'
  BY <1>1, <1>4, EndRecord DEF Recorded
<1>7. Told(j)'
  <2>1. Told(j) /\ record \in [Tasks -> Ended \cup {"none", "open"}]
    BY DEF Inv, TypeOK
  <2>2. CASE r = "error"
    BY <1>4, <2>1, <2>2, EndRecord DEF EndsRun, Told
  <2>3. CASE r = "cancelled"
    <3>1. record'[j] # "open"
      BY <2>1, <2>3 DEF EndsRun, Told
    <3> QED BY <1>4, <2>3, <3>1 DEF Told
  <2>4. CASE r \in {"completed", "failed"}
    BY <1>4, <2>1, <2>4 DEF EndsRun, Told
  <2> QED BY <2>2, <2>3, <2>4 DEF EndsRun
<1>8. active' = active /\ j \notin Loops
  BY <1>1
<1> QED BY <1>3, <1>4, <1>5, <1>6, <1>7, <1>8, AloneStep

LEMMA TurnEndStep ==
  ASSUME Inv, NEW r, EndsRun("chat", r), Alone("chat") => Queued'
  PROVE  Inv'
<1> USE TasksAre
<1>1. /\ task' = [task EXCEPT !["chat"] = "none"] /\ repl' = "prompt"
      /\ cancelling' = cancelling \ {"chat"}
      /\ UNCHANGED <<status, state, failures, counted, interrupted, awaited, active, turns, store,
                     unlooped, spent>>
  BY DEF EndsRun, RunEnds, TurnEnds, Becomes, ledger
<1>2. TypeOK'
  BY <1>1, EndRecord DEF EndsRun, Inv, TypeOK
<1>3. Alone("chat") /\ task'["chat"] = "none" /\ struck \subseteq struck'
  BY <1>1, EndRecord DEF EndsRun, Alone, Inv, TypeOK
<1>4. Hosted'
  BY <1>1, <1>3 DEF EndsRun, Inv, TypeOK, Hosted, Alone, Alive
<1>5. Recorded("chat")'
  BY <1>1, <1>3, EndRecord DEF Recorded
<1>6. active' = active /\ "chat" \notin Jobs /\ "chat" \notin Loops
  BY <1>1
<1> QED BY <1>2, <1>3, <1>4, <1>5, <1>6, AloneStep

(* What a tick leaves of the loop's account.                               *)
LEMMA TickPace ==
  ASSUME Inv, NEW l \in Loops, NEW r, EndsRun(l, r)
  PROVE  /\ failures' \in [Loops -> 0 .. FailureLimit]
         /\ counted' \in [Loops -> 0 .. Budget]
         /\ state' \in [Loops -> {"idle", "running", "paused", "stopped", "failed"}]
         /\ \A m \in Loops \ {l} :
              failures'[m] = failures[m] /\ counted'[m] = counted[m] /\ state'[m] = state[m]
         /\ task' = [task EXCEPT ![l] = IF state'[l] = "running" THEN "sleeping" ELSE "ended"]
         /\ Pace(l)'
<1> USE TasksAre, LimitsAssumption
<1>1. /\ TickEnds(l, r) /\ spent' = spent
      /\ Becomes(l, IF state'[l] = "running" THEN "sleeping" ELSE "ended")
  BY DEF EndsRun, RunEnds, TickEnds
<1>2. /\ failures[l] \in Nat /\ counted[l] \in Nat /\ spent[l] \in Nat /\ Pace(l)
      /\ FailureLimit * counted[l] \in Nat /\ FailureLimit * Budget \in Nat
  BY DEF Inv, TypeOK
<1>3. /\ counted[l] < Budget /\ failures[l] < FailureLimit
      /\ spent[l] <= FailureLimit * Budget
      /\ spent[l] <= FailureLimit * counted[l] + failures[l] + (IF InRun(l) THEN 1 ELSE 0)
  BY <1>2 DEF EndsRun, Pace, Alive
<1>4. task' = [task EXCEPT ![l] = IF state'[l] = "running" THEN "sleeping" ELSE "ended"]
  BY <1>1 DEF Becomes
<1>5. task'[l] \in {"sleeping", "ended"} /\ spent'[l] = spent[l]
      /\ (task'[l] = "sleeping" <=> state'[l] = "running")
  BY <1>1, <1>4 DEF Inv, TypeOK
<1>6. CASE r = "cancelled"
  <2>1. state' = [state EXCEPT ![l] = "stopped"] /\ UNCHANGED <<failures, counted>>
    BY <1>1, <1>6 DEF TickEnds
  <2>2. state'[l] = "stopped"
    BY <2>1 DEF Inv, TypeOK
  <2>3. Pace(l)'
    BY <1>3, <1>5, <2>2 DEF Pace, Alive
  <2> QED BY <1>4, <2>1, <2>3 DEF Inv, TypeOK
<1>7. CASE r # "cancelled"
  <2>1. /\ failures' = [failures EXCEPT ![l] = IF r = "completed" THEN 0 ELSE failures[l] + 1]
        /\ counted' = [counted EXCEPT ![l] = IF r = "error" THEN counted[l] ELSE counted[l] + 1]
        /\ state' = [state EXCEPT ![l] = IF failures'[l] >= FailureLimit THEN "failed" ELSE state[l]]
    BY <1>1, <1>7 DEF TickEnds
  <2>2. /\ failures'[l] = IF r = "completed" THEN 0 ELSE failures[l] + 1
        /\ counted'[l] = IF r = "error" THEN counted[l] ELSE counted[l] + 1
        /\ state'[l] = IF failures'[l] >= FailureLimit THEN "failed" ELSE state[l]
    BY <2>1 DEF Inv, TypeOK
  <2>3. task'[l] = "sleeping" => failures'[l] < FailureLimit
    BY <1>2, <1>5, <2>2
  <2>4. spent[l] <= FailureLimit * counted'[l] + failures'[l]
    <3>1. CASE r = "error"
      <4>1. InRun(l) \/ ~InRun(l)
        OBVIOUS
      <4> QED BY <1>2, <1>3, <2>2, <3>1
    <3>2. CASE r # "error"
      <4>1. counted'[l] = counted[l] + 1 /\ failures'[l] \in Nat
        BY <1>2, <2>2, <3>2
      <4>2. FailureLimit * counted'[l] = FailureLimit * counted[l] + FailureLimit
        BY <1>2, <1>3, <4>1, Product
      <4> QED BY <1>2, <1>3, <4>1, <4>2
    <3> QED BY <3>1, <3>2
  <2>5. Pace(l)'
    <3>1. spent'[l] <= FailureLimit * counted'[l] + failures'[l]
      BY <1>5, <2>4
    <3>2. FailureLimit * counted'[l] + failures'[l] + 0 = FailureLimit * counted'[l] + failures'[l]
      <4>1. counted'[l] \in Nat /\ failures'[l] \in Nat
        BY <1>2, <2>2
      <4> QED BY <4>1
    <3> QED BY <1>3, <1>5, <2>3, <3>1, <3>2 DEF Pace, Alive, InRun
  <2>6. /\ failures' \in [Loops -> 0 .. FailureLimit] /\ counted' \in [Loops -> 0 .. Budget]
        /\ state' \in [Loops -> {"idle", "running", "paused", "stopped", "failed"}]
    <3>1. failures'[l] \in 0 .. FailureLimit /\ counted'[l] \in 0 .. Budget
      BY <1>2, <1>3, <2>2
    <3> QED BY <2>1, <2>2, <3>1 DEF Inv, TypeOK
  <2> QED BY <1>4, <2>1, <2>5, <2>6 DEF Inv, TypeOK
<1> QED BY <1>6, <1>7

LEMMA TickEndStep ==
  ASSUME Inv, NEW l \in Loops, NEW r, EndsRun(l, r), Alone(l) => Queued'
  PROVE  Inv'
<1> USE TasksAre
<1>1. /\ TickEnds(l, r) /\ cancelling' = cancelling \ {l}
      /\ UNCHANGED <<repl, status, interrupted, awaited, active, turns, store, unlooped, spent>>
  BY DEF EndsRun, RunEnds, TickEnds
<1>0. PICK stage \in {"sleeping", "ended"} :
        task' = [task EXCEPT ![l] = stage] /\ (stage = "sleeping" => state'[l] = "running")
  BY TickPace
<1>2. TypeOK'
  <2>1. /\ task' \in [Tasks ->
             {"none", "created", "waiting", "running", "hooks", "sleeping", "ended"}]
        /\ cancelling' \subseteq Tasks
    BY <1>0, <1>1 DEF Inv, TypeOK
  <2>2. record' \in [Tasks -> Ended \cup {"none", "open"}]
    BY EndRecord
  <2>3. struck' \subseteq Tasks /\ faults' \in 0 .. MaxFaults /\ queue' \in Seq(Tasks)
    BY DEF EndsRun
  <2>4. /\ failures' \in [Loops -> 0 .. FailureLimit] /\ counted' \in [Loops -> 0 .. Budget]
        /\ state' \in [Loops -> {"idle", "running", "paused", "stopped", "failed"}]
    BY TickPace
  <2> QED BY <1>1, <2>1, <2>2, <2>3, <2>4 DEF Inv, TypeOK
<1>3. /\ Alone(l) /\ task'[l] \in {"sleeping", "ended"} /\ struck \subseteq struck'
      /\ (task'[l] = "sleeping" => state'[l] = "running")
  <2>1. task'[l] = stage /\ \A b \in Tasks \ {l} : task'[b] = task[b]
    BY <1>0 DEF Inv, TypeOK
  <2>2. \A b \in Tasks \ {l} : record'[b] = record[b]
    BY EndRecord
  <2>3. \A m \in Loops \ {l} :
          failures'[m] = failures[m] /\ counted'[m] = counted[m] /\ state'[m] = state[m]
    BY TickPace
  <2>4. struck \subseteq struck'
    BY DEF EndsRun
  <2>5. Alone(l)
    BY <1>1, <2>1, <2>2, <2>3, <2>4 DEF Alone
  <2> QED BY <1>0, <2>1, <2>4, <2>5
<1>4. Hosted'
  <2>1. \A b \in Tasks : b # l => task'[b] = task[b]
    BY <1>3 DEF Alone
  <2>2. task'["chat"] = task["chat"] /\ \A j \in Jobs : Alive(j)' <=> Alive(j)
    BY <2>1 DEF Alive
  <2>3. active # "none" => task'[active] # "none"
    <3>1. active # "none" => active \in Loops /\ task[active] # "none"
      BY DEF Inv, TypeOK, Hosted
    <3> QED BY <1>3, <2>1, <3>1
  <2> QED BY <1>1, <2>2, <2>3 DEF Inv, Hosted
<1>5. Recorded(l)'
  BY <1>1, <1>3, EndRecord DEF Recorded
<1>6. Unloops(l)'
  <2> SUFFICES ASSUME l \in unlooped PROVE active' # l /\ state'[l] \in {"stopped", "failed"}
    BY <1>1, <1>3 DEF Unloops, Alive
  <2>1. active # l /\ state[l] \in {"stopped", "failed"} /\ l \in cancelling
    BY DEF EndsRun, Inv, Unloops, Alive
  <2>2. state' = [state EXCEPT ![l] = "stopped"]
        \/ state' = [state EXCEPT ![l] = IF failures'[l] >= FailureLimit THEN "failed" ELSE state[l]]
    BY <1>1 DEF TickEnds
  <2> QED BY <1>1, <2>1, <2>2 DEF Inv, TypeOK
<1>7. active' = active /\ l \notin Jobs
  BY <1>1
<1> QED BY <1>2, <1>3, <1>4, <1>5, <1>6, <1>7, TickPace, AloneStep

LEMMA EndStep ==
  ASSUME Inv, NEW a \in Tasks, NEW r, EndsRun(a, r), Alone(a) => Queued'
  PROVE  Inv'
BY TasksAre, JobEndStep, TurnEndStep, TickEndStep

LEMMA ReturnStep ==
  ASSUME Inv, NEW a \in Tasks, Return(a)
  PROVE  Inv'
<1>1. record[a] \in {"completed", "failed"}
  BY DEF Return, Inv, Recorded
<1>2. EndsRun(a, record[a])
  BY <1>1 DEF Return, Runs, EndsRun, Inv, TypeOK
<1>3. Alone(a) => Queued'
  BY QueueStays DEF Return
<1> QED BY <1>2, <1>3, EndStep

(* The store raises: it is closed, or its failure is noted.                *)
LEMMA StoreRaisesFacts ==
  ASSUME Inv, NEW a \in Tasks, StoreRaises(a)
  PROVE  /\ a \in struck' \/ store = "closed"
         /\ struck \subseteq struck' /\ struck' \subseteq Tasks /\ faults' \in 0 .. MaxFaults
<1>1. CASE store = "closed"
  BY <1>1 DEF StoreRaises, Inv, TypeOK
<1>2. CASE store # "closed"
  BY <1>2, LimitsAssumption DEF StoreRaises, Inv, TypeOK
<1> QED BY <1>1, <1>2

LEMMA BreakStep ==
  ASSUME Inv, NEW a \in Tasks, Break(a) \/ CancelBreaks(a)
  PROVE  Inv'
<1>1. /\ task[a] = "running" /\ StoreRaises(a) /\ RunEnds(a, "error")
      /\ queue' = queue /\ record' = record /\ spent' = spent
  BY DEF Break, CancelBreaks
<1>2. EndsRun(a, "error")
  BY <1>1, StoreRaisesFacts DEF EndsRun, Inv, TypeOK
<1>3. Alone(a) => Queued'
  BY <1>1, QueueStays
<1> QED BY <1>2, <1>3, EndStep

LEMMA CreateFailsStep ==
  ASSUME Inv, NEW a \in Tasks, CreateFails(a)
  PROVE  Inv'
<1>1. /\ Granted(a) /\ StoreRaises(a) /\ RunEnds(a, "error")
      /\ queue' = Tail(queue) /\ record' = record /\ spent' = spent
  BY DEF CreateFails
<1>2. task[a] = "waiting" /\ Tail(queue) \in Seq(Tasks)
  BY <1>1, GrantedFacts
<1>3. EndsRun(a, "error")
  BY <1>1, <1>2, StoreRaisesFacts DEF EndsRun
<1>4. Alone(a) => Queued'
  BY <1>1, QueueShrinks
<1> QED BY <1>3, <1>4, EndStep

LEMMA CancelInRunStep ==
  ASSUME Inv, NEW a \in Tasks, CancelRunning(a) \/ CancelHooks(a)
  PROVE  Inv'
<1>1. /\ task[a] \in {"running", "hooks"} /\ RunEnds(a, "cancelled")
      /\ UNCHANGED <<queue, spent, struck, faults>>
      /\ \/ record' = [record EXCEPT ![a] = "cancelled"]
         \/ task[a] = "hooks" /\ record' = record
  BY DEF CancelRunning, CancelHooks
<1>2. EndsRun(a, "cancelled")
  BY <1>1 DEF EndsRun, Inv, TypeOK
<1>3. Alone(a) => Queued'
  BY <1>1, QueueStays
<1> QED BY <1>2, <1>3, EndStep

(* One that waits is taken out of the queue.                               *)
LEMMA CancelWaitingStep ==
  ASSUME Inv, NEW a \in Tasks, CancelWaiting(a)
  PROVE  Inv'
<1>1. PICK i \in DOMAIN queue :
        /\ queue[i] = a
        /\ queue' = [k \in 1 .. Len(queue) - 1 |-> IF k < i THEN queue[k] ELSE queue[k + 1]]
  BY DEF CancelWaiting
<1>2. /\ queue \in Seq(Tasks) /\ DOMAIN queue = 1 .. Len(queue) /\ Len(queue) \in Nat
      /\ i \in 1 .. Len(queue)
  BY <1>1 DEF Inv, TypeOK
<1>3. \A k \in 1 .. Len(queue) - 1 :
        /\ k < i => k \in DOMAIN queue /\ queue'[k] = queue[k]
        /\ ~(k < i) => k + 1 \in DOMAIN queue /\ queue'[k] = queue[k + 1]
  BY <1>1, <1>2
<1>4. queue' \in Seq(Tasks) /\ DOMAIN queue' = 1 .. Len(queue) - 1
  <2>1. Len(queue) - 1 \in Nat
    BY <1>2
  <2>2. \A k \in 1 .. Len(queue) - 1 : queue'[k] \in Tasks
    BY <1>2, <1>3
  <2>3. queue' \in [1 .. Len(queue) - 1 -> Tasks]
    BY <1>1, <2>2
  <2> QED BY <2>1, <2>3
<1>5. EndsRun(a, "cancelled")
  BY <1>4 DEF CancelWaiting, EndsRun, Inv, TypeOK
<1>6. ASSUME Alone(a) PROVE Queued'
  <2>1. \A m, n \in DOMAIN queue : queue[m] = queue[n] => m = n
    BY DEF Inv, Queued
  <2>2. ASSUME NEW k \in DOMAIN queue' PROVE task'[queue'[k]] = "waiting"
    <3>1. PICK m \in DOMAIN queue : m # i /\ queue'[k] = queue[m]
      <4>1. CASE k < i
        BY <1>2, <1>3, <1>4, <4>1
      <4>2. CASE ~(k < i)
        <5>1. k + 1 # i /\ k + 1 \in DOMAIN queue /\ queue'[k] = queue[k + 1]
          BY <1>2, <1>3, <1>4, <4>2
        <5> QED BY <5>1
      <4> QED BY <4>1, <4>2
    <3>2. queue[m] \in Tasks \ {a} /\ task[queue[m]] = "waiting"
      BY <1>1, <1>2, <2>1, <3>1 DEF Inv, Queued
    <3> QED BY <1>6, <3>1, <3>2 DEF Alone
  <2>3. ASSUME NEW k \in DOMAIN queue', NEW n \in DOMAIN queue', queue'[k] = queue'[n]
        PROVE  k = n
    <3>1. CASE k < i /\ n < i
      BY <1>3, <1>4, <2>1, <2>3, <3>1
    <3>2. CASE ~(k < i) /\ ~(n < i)
      <4>1. k + 1 = n + 1
        BY <1>3, <1>4, <2>1, <2>3, <3>2
      <4> QED BY <1>2, <1>4, <4>1
    <3>3. CASE k < i /\ ~(n < i)
      <4>1. k = n + 1
        BY <1>3, <1>4, <2>1, <2>3, <3>3
      <4> QED BY <1>2, <1>4, <3>3, <4>1
    <3>4. CASE ~(k < i) /\ n < i
      <4>1. n = k + 1
        BY <1>3, <1>4, <2>1, <2>3, <3>4
      <4> QED BY <1>2, <1>4, <3>4, <4>1
    <3> QED BY <3>1, <3>2, <3>3, <3>4
  <2> QED BY <2>2, <2>3 DEF Queued
<1> QED BY <1>5, <1>6, EndStep

-----------------------------------------------------------------------------

LEMMA AdvanceStep ==
  ASSUME Inv, NEW a \in Tasks, Advance(a)
  PROVE  Inv'
<1>1. CASE a \in Jobs /\ StartJob(a)
  BY <1>1, StartJobStep
<1>2. CASE a \in Loops /\ (StartRunner(a) \/ Wake(a))
  BY <1>2, StartRunnerStep, WakeStep
<1>3. CASE Vanish(a) \/ BeginRun(a) \/ \E r \in {"completed", "failed"} : Finish(a, r)
  BY <1>3, VanishStep, BeginRunStep, FinishStep
<1>4. CASE Return(a) \/ CreateFails(a) \/ Break(a) \/ CancelBreaks(a)
  BY <1>4, ReturnStep, CreateFailsStep, BreakStep
<1>5. CASE CancelWaiting(a) \/ CancelRunning(a) \/ CancelHooks(a)
  BY <1>5, CancelWaitingStep, CancelInRunStep
<1> QED BY <1>1, <1>2, <1>3, <1>4, <1>5 DEF Advance

LEMMA InvStep == Inv /\ [Next]_vars => Inv'
<1> SUFFICES ASSUME Inv, [Next]_vars PROVE Inv'
  OBVIOUS
<1>1. ASSUME NEW j \in Jobs, Submit(j) \/ CancelJob(j) PROVE Inv'
  BY <1>1, SubmitStep, CancelJobStep
<1>2. ASSUME NEW l \in Loops, StartLoop(l) \/ StopLoop(l) \/ Pause(l) \/ Resume(l) PROVE Inv'
  BY <1>2, StartLoopStep, StopLoopStep, SetStateStep
<1>3. CASE BeginTurn
  BY <1>3, BeginTurnStep
<1>4. CASE InterruptTurn \/ Quit \/ InterruptDrain \/ Leave \/ UNCHANGED vars
  BY <1>4, HostStep DEF Leave
<1>5. ASSUME NEW a \in Tasks, Advance(a) PROVE Inv'
  BY <1>5, AdvanceStep
<1> QED BY <1>1, <1>2, <1>3, <1>4, <1>5 DEF Next, Prompt

LEMMA Invariance == Spec => []Inv
BY InvInit, InvStep, PTL DEF Spec

-----------------------------------------------------------------------------

(* Every variable of the chat keeps its type, for any number of jobs and   *)
(* loops; a loop's counters never pass their limits.                       *)
THEOREM HostTypeCorrect == Spec => []TypeOK
<1>1. Inv => TypeOK
  BY DEF Inv
<1> QED BY <1>1, Invariance, PTL

(* What /jobs tells of a job that has ended agrees with the record of its  *)
(* run, up to the differences named.  (_drive, cancel)                     *)
THEOREM JobsAreAccounted == Spec => []JobAccounted
<1>1. Inv => JobAccounted
  <2> SUFFICES ASSUME Inv, NEW j \in Jobs
               PROVE  /\ status[j] \in Ended => task[j] = "ended"
                      /\ task[j] = "ended" =>
                           \/ status[j] = record[j]
                           \/ status[j] = "cancelled" /\ record[j] # "open"
                           \/ status[j] = "failed" /\ record[j] \in {"none", "open"} /\ j \in struck
                           \/ status[j] = "pending" /\ record[j] = "none"
    BY DEF JobAccounted
  <2>1. Told(j) /\ task[j] \in
          {"none", "created", "waiting", "running", "hooks", "sleeping", "ended"}
    BY TasksAre DEF Inv, TypeOK
  <2>2. status[j] \in Ended => status[j] # "pending" /\ status[j] # "running"
    BY DEF Ended
  <2> QED BY <2>1, <2>2 DEF Told
<1> QED BY <1>1, Invariance, PTL

(* However the chat is left, no run stays open that nobody executes,       *)
(* except for the reasons named.  (wait_all, close, run)                   *)
THEOREM NoRunIsLeftOpen == Spec => []NothingLeftOpen
<1>1. Inv => NothingLeftOpen
  BY DEF Inv, Recorded, NothingLeftOpen
<1> QED BY <1>1, Invariance, PTL

(* A loop begins at most FailureLimit * Budget runs.  (step)               *)
THEOREM SpendingIsBounded == Spec => []SpendBounded
<1>1. Inv => SpendBounded
  BY DEF Inv, Pace, SpendBounded
<1> QED BY <1>1, Invariance, PTL

(* A loop ended by /unloop begins no further run.  (_stop_loop, stop)      *)
THEOREM UnloopedLoopsRest == Spec => NoTickAfterUnloop
<1>1. Inv /\ [Next]_vars => [\A l \in unlooped : spent'[l] = spent[l]]_vars
  <2> SUFFICES ASSUME Inv, [Next]_vars, NEW l \in unlooped PROVE spent'[l] = spent[l]
    OBVIOUS
  <2>1. l \in Loops
    BY DEF Inv, TypeOK
  <2>2. ASSUME NEW a \in Tasks, BeginRun(a) PROVE spent'[l] = spent[l]
    <3>1. a # l
      BY <2>1, <2>2, GrantedFacts DEF BeginRun, Inv, Unloops, Alive
    <3> QED BY <2>1, <2>2, <3>1 DEF BeginRun
  <2>3. ASSUME ~\E a \in Tasks : BeginRun(a) PROVE spent' = spent
    <3>1. CASE Prompt \/ Leave \/ UNCHANGED vars
      BY <3>1 DEF Prompt, Leave, vars, Submit, CancelJob, StartLoop, StopLoop, Pause, Resume,
                  SetState, BeginTurn, InterruptTurn, Quit, InterruptDrain, Close, CancelRest, Exit
    <3>2. ASSUME NEW a \in Tasks, Advance(a) PROVE spent' = spent
      BY <2>3, <3>2 DEF Advance, StartJob, StartRunner, Wake, Vanish, Finish, Return, CreateFails,
                        Break, CancelWaiting, CancelRunning, CancelHooks, CancelBreaks
    <3> QED BY <3>1, <3>2 DEF Next
  <2> QED BY <2>2, <2>3
<1> QED BY <1>1, Invariance, PTL DEF Spec, NoTickAfterUnloop
=============================================================================
