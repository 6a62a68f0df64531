----------------------------- MODULE WebApproval -----------------------------
(***************************************************************************)
(* Approval of tool calls from the web cockpit (avo/web_approval.py): a    *)
(* run awaits a future on its event loop, threads of the web server        *)
(* resolve requests, a timeout denies them, and a table keeps the          *)
(* decisions.  Three places hold an answer, the row, the future and the    *)
(* run itself, and no lock spans them.                                     *)
(*                                                                         *)
(* Request ids are random and never used twice, so a request is an element *)
(* of Requests.  An operator is a thread of the web server (do_POST,       *)
(* web_api.py) that carries one decision through resolve().  The requests  *)
(* may live on different event loops: what is between two awaits of a      *)
(* request holds up the callbacks of that request only.                    *)
(***************************************************************************)
EXTENDS Naturals

CONSTANTS Requests,   \* calls of request_approval
          Operators,  \* decisions posted to the web server
          None        \* no answer

ASSUME NoneAssumption == None \notin {"yes", "no", "raised", "cancelled"}

Decisions == {"yes", "no"}  \* approved = True, False

VARIABLES
  \* durable: the table pending_approvals
  row,        \* status of the request
  \* volatile: the bridge and the event loops
  pending,    \* keys of _pending
  future,     \* result of the future, or "cancelled"
  scheduled,  \* set_result waiting on the event loop; later ones are void
  pc,         \* where request_approval stands
  answer,     \* what it returned to the run, "raised" for an exception
  \* the web server
  operator,   \* the decision a thread carries, and where it stands
  \* history
  posted,     \* decisions that reached resolve
  cut,        \* requests ended by the timeout
  cleared,    \* requests thrown out by clear
  early       \* requests resolved before their row existed

bridge  == <<pending, future, scheduled, pc, answer>>
history == <<posted, cut, cleared, early>>
vars    == <<row, bridge, operator, history>>

Status(d) == IF d = "yes" THEN "approved" ELSE "denied"

Decided == {"approved", "denied"}

(* Between two awaits of request_approval: the event loop is taken.        *)
Running == {"registered", "expired", "leaving"}

TypeOK ==
  /\ row \in [Requests -> Decided \cup {"none", "pending"}]
  /\ pending \subseteq Requests
  /\ future \in [Requests -> Decisions \cup {None, "cancelled"}]
  /\ scheduled \in [Requests -> Decisions \cup {None}]
  /\ pc \in [Requests -> Running \cup {"idle", "waiting", "done", "lost"}]
  /\ answer \in [Requests -> Decisions \cup {None, "raised"}]
  /\ operator \in [Operators ->
       [at : {"idle", "done"}] \cup
       [at : {"recorded"}, request : Requests, says : Decisions]]
  /\ posted \subseteq Requests \X Decisions
  /\ cut \subseteq Requests
  /\ cleared \subseteq Requests
  /\ early \subseteq Requests

Init ==
  /\ row = [r \in Requests |-> "none"]
  /\ pending = {}
  /\ future = [r \in Requests |-> None]
  /\ scheduled = [r \in Requests |-> None]
  /\ pc = [r \in Requests |-> "idle"]
  /\ answer = [r \in Requests |-> None]
  /\ operator = [o \in Operators |-> [at |-> "idle"]]
  /\ posted = {} /\ cut = {} /\ cleared = {} /\ early = {}

-----------------------------------------------------------------------------
(* The run: request_approval                                               *)

(* The request is entered in _pending, under the lock.                     *)
Register(r) ==
  /\ pc[r] = "idle"
  /\ pc' = [pc EXCEPT ![r] = "registered"]
  /\ pending' = pending \cup {r}
  /\ UNCHANGED <<row, future, scheduled, answer, operator, history>>

(* create_approval commits, and the run awaits its future.                 *)
CreateRow(r) ==
  /\ pc[r] = "registered"
  /\ row' = [row EXCEPT ![r] = "pending"]
  /\ pc' = [pc EXCEPT ![r] = "waiting"]
  /\ UNCHANGED <<pending, future, scheduled, answer, operator, history>>

(* create_approval raises (the database stays locked): not inside the try. *)
CreateFails(r) ==
  /\ pc[r] = "registered"
  /\ pc' = [pc EXCEPT ![r] = "done"]
  /\ answer' = [answer EXCEPT ![r] = "raised"]
  /\ UNCHANGED <<row, pending, future, scheduled, operator, history>>

Leaves(r, a) ==
  /\ pc' = [pc EXCEPT ![r] = "leaving"]
  /\ answer' = [answer EXCEPT ![r] = a]

(* wait_for returns the result of the future.                              *)
Answered(r) ==
  /\ pc[r] = "waiting"
  /\ future[r] \in Decisions
  /\ Leaves(r, future[r])
  /\ UNCHANGED <<row, pending, future, scheduled, operator, history>>

(* wait_for cancels the future it stops awaiting.                          *)
Abandon(r) == future' = [future EXCEPT ![r] = IF @ = None THEN "cancelled" ELSE @]

(* Mutant: the wait is only cut short when an answer is there.             *)
TimeOutAnswered(r) ==
  /\ pc[r] = "waiting"
  /\ future[r] # None
  /\ pc' = [pc EXCEPT ![r] = "expired"]
  /\ cut' = cut \cup {r}
  /\ UNCHANGED <<row, pending, future, scheduled, answer, operator, posted, cleared, early>>

(* wait_for times out.  Since Python 3.12 it may do so after the result    *)
(* was set and before the run woke up.                                     *)
TimeOut(r) ==
  /\ pc[r] = "waiting"
  /\ pc' = [pc EXCEPT ![r] = "expired"]
  /\ cut' = cut \cup {r}
  /\ Abandon(r)
  /\ UNCHANGED <<row, pending, scheduled, answer, operator, posted, cleared, early>>

(* Mutant: a timeout denies the run and leaves the row.                    *)
RecordTimeoutInMemory(r) ==
  /\ pc[r] = "expired"
  /\ Leaves(r, "no")
  /\ UNCHANGED <<row, pending, future, scheduled, operator, history>>

(* The handler of TimeoutError records a denial and returns False.         *)
RecordTimeout(r) ==
  /\ pc[r] = "expired"
  /\ row' = [row EXCEPT ![r] = IF @ = "pending" THEN "denied" ELSE @]
  /\ Leaves(r, "no")
  /\ UNCHANGED <<pending, future, scheduled, operator, history>>

(* It cannot write: the exception reaches the run, through finally.        *)
RecordTimeoutFails(r) ==
  /\ pc[r] = "expired"
  /\ Leaves(r, "raised")
  /\ UNCHANGED <<row, pending, future, scheduled, operator, history>>

(* The run is cancelled while it waits.                                    *)
CancelRun(r) ==
  /\ pc[r] = "waiting"
  /\ Abandon(r)
  /\ Leaves(r, "raised")
  /\ UNCHANGED <<row, pending, scheduled, operator, history>>

(* The finally clause.                                                     *)
Leave(r) ==
  /\ pc[r] = "leaving"
  /\ pc' = [pc EXCEPT ![r] = "done"]
  /\ pending' = pending \ {r}
  /\ UNCHANGED <<row, future, scheduled, answer, operator, history>>

(* The event loop runs set_result; on a finished future it raises          *)
(* InvalidStateError, which the loop logs.                                 *)
Deliver(r) ==
  /\ scheduled[r] # None
  /\ pc[r] \notin Running
  /\ future' = [future EXCEPT ![r] = IF @ = None THEN scheduled[r] ELSE @]
  /\ scheduled' = [scheduled EXCEPT ![r] = None]
  /\ UNCHANGED <<row, pending, pc, answer, operator, history>>

-----------------------------------------------------------------------------
(* The web server: resolve and clear                                       *)

(* call_soon_threadsafe(set_result, d) for each request in R whose future  *)
(* is not done: callbacks run in order, so the first one decides.          *)
Schedule(R, d) ==
  scheduled' = [r \in Requests |->
    IF r \in R /\ future[r] = None /\ scheduled[r] = None THEN d ELSE scheduled[r]]

(* Mutants: record_decision without "status = 'pending'" in its condition, *)
(* and without "id = ?".                                                   *)
RecordWhere(o, r, d, R) ==
  /\ operator[o].at = "idle"
  /\ pc[r] # "idle"
  /\ row' = [q \in Requests |-> IF q \in R THEN Status(d) ELSE row[q]]
  /\ operator' = [operator EXCEPT ![o] = [at |-> "recorded", request |-> r, says |-> d]]
  /\ posted' = posted \cup {<<r, d>>}
  /\ early' = IF row[r] = "none" THEN early \cup {r} ELSE early
  /\ UNCHANGED <<bridge, cut, cleared>>

RecordAnyStatus(o, r, d) == RecordWhere(o, r, d, {r} \ {q \in Requests : row[q] = "none"})

RecordAnyId(o, r, d) == RecordWhere(o, r, d, {q \in Requests : row[q] = "pending"})

(* resolve, first half: record_decision in the table.  An operator knows   *)
(* the request from list_pending, possibly from a listing long ago.        *)
Record(o, r, d) ==
  /\ operator[o].at = "idle"
  /\ pc[r] # "idle"
  /\ row' = [row EXCEPT ![r] = IF @ = "pending" THEN Status(d) ELSE @]
  /\ operator' = [operator EXCEPT ![o] = [at |-> "recorded", request |-> r, says |-> d]]
  /\ posted' = posted \cup {<<r, d>>}
  /\ early' = IF row[r] = "none" THEN early \cup {r} ELSE early
  /\ UNCHANGED <<bridge, cut, cleared>>

(* resolve, second half, under the lock: the future, if there is one.      *)
Notify(o) ==
  /\ operator[o].at = "recorded"
  /\ LET r == operator[o].request IN
       Schedule(IF r \in pending THEN {r} ELSE {}, operator[o].says)
  /\ operator' = [operator EXCEPT ![o] = [at |-> "done"]]
  /\ UNCHANGED <<row, pending, future, pc, answer, history>>

(* clear, under the lock: every request is denied, no row is written.      *)
Clear ==
  /\ pending # {}
  /\ Schedule(pending, "no")
  /\ pending' = {}
  /\ cleared' = cleared \cup pending
  /\ UNCHANGED <<row, future, pc, answer, operator, posted, cut, early>>

(* The process is lost and started again: rows survive.                    *)
Restart ==
  LET alive == {r \in Requests : pc[r] \in Running \cup {"waiting"}} IN
  /\ alive # {}
  /\ pc' = [r \in Requests |-> IF r \in alive THEN "lost" ELSE pc[r]]
  /\ pending' = {}
  /\ future' = [r \in Requests |-> IF r \in alive THEN None ELSE future[r]]
  /\ scheduled' = [r \in Requests |-> None]
  /\ answer' = [r \in Requests |-> IF r \in alive THEN None ELSE answer[r]]
  /\ operator' = [o \in Operators |->
       IF operator[o].at = "recorded" THEN [at |-> "done"] ELSE operator[o]]
  /\ UNCHANGED <<row, history>>

-----------------------------------------------------------------------------

Asks(r) == CreateRow(r) \/ CreateFails(r)

Returns(r) ==
  \/ Answered(r) \/ TimeOut(r)
  \/ RecordTimeout(r) \/ RecordTimeoutFails(r)
  \/ Leave(r)

Next ==
  \/ \E r \in Requests :
       \/ Register(r) \/ Asks(r) \/ Returns(r) \/ CancelRun(r) \/ Deliver(r)
       \/ \E o \in Operators, d \in Decisions : Record(o, r, d)
  \/ \E o \in Operators : Notify(o)
  \/ Clear
  \/ Restart

Spec == Init /\ [][Next]_vars

(* The coroutine goes on while its process lives: the wait ends, at the    *)
(* latest after default_timeout_seconds, and the store commits or raises.  *)
FairSpec == Spec /\ \A r \in Requests : WF_vars(Asks(r) \/ Returns(r))

-----------------------------------------------------------------------------

Posted(r, d) == <<r, d>> \in posted

(* A tool only runs if an operator approved this very request, and where   *)
(* the run and the table hold different answers there is a reason: two     *)
(* operators disagreed, or the run was denied by the timeout or by clear   *)
(* while an approval was being recorded.  A run never goes ahead against a *)
(* recorded denial unless an operator also approved.                       *)
(* (request_approval, resolve, record_decision, clear)                     *)
AnswersAgree == \A r \in Requests :
  /\ answer[r] = "yes" => Posted(r, "yes")
  /\ answer[r] = "yes" /\ row[r] = "denied" => Posted(r, "no")
  /\ answer[r] = "no" /\ row[r] = "approved" =>
       /\ Posted(r, "yes")
       /\ Posted(r, "no") \/ r \in cut \cup cleared

(* A request whose run has gone leaves nothing behind that looks open,     *)
(* except where the code has no remedy: a row stays pending if the run was *)
(* cancelled or could not write, if clear threw the request out, or if an  *)
(* operator answered before create_approval had written the row; an entry  *)
(* of _pending stays if create_approval raised.                            *)
(* (request_approval, create_approval, record_decision)                    *)
NothingLeftBehind == \A r \in Requests : pc[r] = "done" =>
  /\ row[r] = "pending" => answer[r] = "raised" \/ r \in cleared \cup early
  /\ r \in pending => answer[r] = "raised" /\ row[r] = "none"

(* A recorded decision is never changed, whoever decides later: another    *)
(* operator, the timeout, or a thread that read an old listing; nor is     *)
(* what the run was told.  (record_decision, request_approval)             *)
DecisionIsFinal ==
  [][\A r \in Requests :
       /\ row[r] \in Decided => row'[r] = row[r]
       /\ pc[r] = "done" => answer'[r] = answer[r]]_vars

(* Nobody waits for ever: each request that was registered returns to its  *)
(* run, by an answer, the timeout or an exception, unless the process is   *)
(* lost; also when no operator ever looks.  (request_approval)             *)
EveryRequestReturns == \A r \in Requests :
  pc[r] = "registered" ~> pc[r] \in {"done", "lost"}

=============================================================================
