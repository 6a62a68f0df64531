------------------------------- MODULE Routes -------------------------------
(***************************************************************************)
(* The providers that are made of several: ComboRouterProvider             *)
(* (avo/combo/provider.py), FallbackRouterProvider and RaceRouterProvider  *)
(* (avo/providers/router.py).  Calls of generate() or stream() run side by *)
(* side and share the routes' health, of which only the cooldown decides   *)
(* anything.  The first two try one candidate after the other; a race      *)
(* starts them all and takes the first good answer.                        *)
(*                                                                         *)
(* The routes are outside this code: each may answer, fail for a reason    *)
(* the router goes on after or for one it does not, break off in the       *)
(* middle of its stream, or never answer.                                  *)
(***************************************************************************)
EXTENDS Naturals, Sequences, FiniteSets

CONSTANTS Calls,
          N  \* routes, numbered by priority

ASSUME NAssumption == N \in Nat \ {0}

Routes == 1 .. N

VARIABLES
  router,  \* which of the three it is
  cooling, \* routes in their cooldown
  \* a call
  at,      \* where it stands
  mode,    \* "generate" or "stream"
  cands,   \* its candidates, chosen when it begins
  pos,     \* the candidate it is trying
  errors,  \* candidates that have failed
  racer,   \* of a race: where a candidate stands
  arrived, \* of a race of streams: the queue of first chunks and errors
  winner,  \* the route whose answer it is, 0 if none
  voices,  \* routes whose output the caller has got
  outcome

choice == <<mode, cands>>
race   == <<racer, arrived>>
vars   == <<router, cooling, at, choice, pos, errors, race, winner, voices, outcome>>

Kinds == {"combo", "fallback", "race"}

Outcomes == {"none", "answered", "exhausted", "refused", "broken", "cancelled"}

TypeOK ==
  /\ router \in Kinds
  /\ cooling \subseteq Routes
  /\ at \in [Calls -> {"idle", "trying", "speaking", "done"}]
  /\ mode \in [Calls -> {"generate", "stream"}]
  /\ cands \in [Calls -> Seq(Routes)]
  /\ pos \in [Calls -> Nat]
  /\ errors \in [Calls -> SUBSET Routes]
  /\ racer \in [Calls -> [Routes -> {"none", "running", "ready", "broke", "spent", "cancelled"}]]
  /\ arrived \in [Calls -> Seq(Routes)]
  /\ winner \in [Calls -> Routes \cup {0}]
  /\ voices \in [Calls -> SUBSET Routes]
  /\ outcome \in [Calls -> Outcomes]

Init ==
  /\ router \in Kinds
  /\ cooling = {}
  /\ at = [c \in Calls |-> "idle"]
  /\ mode = [c \in Calls |-> "generate"]
  /\ cands = [c \in Calls |-> <<>>]
  /\ pos = [c \in Calls |-> 1]
  /\ errors = [c \in Calls |-> {}]
  /\ racer = [c \in Calls |-> [r \in Routes |-> "none"]]
  /\ arrived = [c \in Calls |-> <<>>]
  /\ winner = [c \in Calls |-> 0]
  /\ voices = [c \in Calls |-> {}]
  /\ outcome = [c \in Calls |-> "none"]

-----------------------------------------------------------------------------
(* Health                                                                  *)

RecordSuccess(r) == cooling' = cooling \ {r}
RecordFailure(r) == cooling' = cooling \cup {r}

Expire(r) ==
  /\ r \in cooling
  /\ cooling' = cooling \ {r}
  /\ UNCHANGED <<router, at, choice, pos, errors, race, winner, voices, outcome>>

(* reset_health(), on request or after a probe that went well.             *)
ResetHealth(R) ==
  /\ cooling \cap R # {}
  /\ cooling' = cooling \ R
  /\ UNCHANGED <<router, at, choice, pos, errors, race, winner, voices, outcome>>

-----------------------------------------------------------------------------
(* A call                                                                  *)

(* Routes not cooling down; if all are, all of them.                       *)
Available == IF Routes \subseteq cooling THEN Routes ELSE Routes \ cooling

(* A combo may order them by latency or by cost instead of priority.       *)
Orders(R) ==
  {s \in [1 .. Cardinality(R) -> R] :
     \A i, j \in 1 .. Cardinality(R) :
       i < j => IF router = "combo" THEN s[i] # s[j] ELSE s[i] < s[j]}

Candidates(c) == {cands[c][i] : i \in DOMAIN cands[c]}

InTurn(c) == router # "race" \/ Len(cands[c]) = 1

Begin(c, m) ==
  /\ at[c] = "idle"
  /\ at' = [at EXCEPT ![c] = "trying"]
  /\ mode' = [mode EXCEPT ![c] = m]
  /\ \E s \in Orders(Available) :
       /\ cands' = [cands EXCEPT ![c] = s]
       /\ racer' = [racer EXCEPT ![c] = [r \in Routes |->
            IF router = "race" /\ Len(s) > 1 /\ \E i \in DOMAIN s : s[i] = r
              THEN "running" ELSE "none"]]
  /\ UNCHANGED <<router, cooling, pos, errors, arrived, winner, voices, outcome>>

Ends(c, o) ==
  /\ at' = [at EXCEPT ![c] = "done"]
  /\ outcome' = [outcome EXCEPT ![c] = o]

Says(c, r) == voices' = [voices EXCEPT ![c] = @ \cup {r}]

CallOff(c) ==
  racer' = [racer EXCEPT ![c] = [r \in Routes |-> IF @[r] = "running" THEN "cancelled" ELSE @[r]]]

(* The caller is cancelled or closes the stream: the racers are cancelled. *)
Cancel(c) ==
  /\ at[c] \in {"trying", "speaking"}
  /\ Ends(c, "cancelled")
  /\ CallOff(c)
  /\ UNCHANGED <<router, cooling, choice, pos, errors, arrived, winner, voices>>

-----------------------------------------------------------------------------
(* One candidate after the other                                           *)

Trying(c) == at[c] = "trying" /\ InTurn(c)

Current(c) == cands[c][pos[c]]

Partial(c) == Current(c) \in voices[c]  \* yielded_any

Chunk(c) ==
  /\ Trying(c)
  /\ mode[c] = "stream"
  /\ Says(c, Current(c))
  /\ UNCHANGED <<router, cooling, at, choice, pos, errors, race, winner, outcome>>

Succeed(c) ==
  /\ Trying(c)
  /\ RecordSuccess(Current(c))
  /\ winner' = [winner EXCEPT ![c] = Current(c)]
  /\ Says(c, Current(c))
  /\ Ends(c, "answered")
  /\ UNCHANGED <<router, choice, pos, errors, race>>

Errs(c) == errors' = [errors EXCEPT ![c] = @ \cup {Current(c)}]

(* Mutant: the next route is tried although the first was heard.           *)
FailOverMidStream(c) ==
  /\ Trying(c)
  /\ router \in {"combo", "fallback"}
  /\ RecordFailure(Current(c))
  /\ Errs(c)
  /\ IF pos[c] < Len(cands[c])
       THEN pos' = [pos EXCEPT ![c] = @ + 1] /\ UNCHANGED <<at, outcome>>
       ELSE Ends(c, "exhausted") /\ UNCHANGED pos
  /\ UNCHANGED <<router, choice, race, winner, voices>>

(* Mutant: the last candidate is never tried.                              *)
FailOverShort(c) ==
  /\ Trying(c)
  /\ router \in {"combo", "fallback"} /\ ~Partial(c)
  /\ RecordFailure(Current(c))
  /\ Errs(c)
  /\ IF pos[c] + 1 < Len(cands[c])
       THEN pos' = [pos EXCEPT ![c] = @ + 1] /\ UNCHANGED <<at, outcome>>
       ELSE Ends(c, "exhausted") /\ UNCHANGED pos
  /\ UNCHANGED <<router, choice, race, winner, voices>>

(* A failure that another route may do better at.                          *)
FailOver(c) ==
  /\ Trying(c)
  /\ router \in {"combo", "fallback"} /\ ~Partial(c)
  /\ RecordFailure(Current(c))
  /\ Errs(c)
  /\ IF pos[c] < Len(cands[c])
       THEN pos' = [pos EXCEPT ![c] = @ + 1] /\ UNCHANGED <<at, outcome>>
       ELSE Ends(c, "exhausted") /\ UNCHANGED pos
  /\ UNCHANGED <<router, choice, race, winner, voices>>

(* A failure that is raised: unclassified or not retryable, or one in the  *)
(* middle of a stream.  A combo does not hold it against the route.        *)
Raise(c) ==
  /\ Trying(c)
  /\ router \in {"combo", "fallback"}
  /\ IF router = "combo" THEN UNCHANGED <<cooling, errors>>
                         ELSE RecordFailure(Current(c)) /\ Errs(c)
  /\ Ends(c, IF Partial(c) THEN "broken" ELSE "refused")
  /\ UNCHANGED <<router, choice, pos, race, winner, voices>>

(* A race of one.                                                          *)
FailAlone(c) ==
  /\ Trying(c)
  /\ router = "race"
  /\ RecordFailure(Current(c))
  /\ Errs(c)
  /\ Ends(c, "exhausted")
  /\ UNCHANGED <<router, choice, pos, race, winner, voices>>

-----------------------------------------------------------------------------
(* A race                                                                  *)

Racing(c) == at[c] = "trying" /\ ~InTurn(c)

Standing(c, s) == {r \in Routes : racer[c][r] = s}

(* A racer's task is done, or its worker has put something in the queue.   *)
Reply(c, r, good) ==
  /\ racer[c][r] = "running"
  /\ racer' = [racer EXCEPT ![c][r] = IF good THEN "ready" ELSE "broke"]
  /\ arrived' = [arrived EXCEPT ![c] = IF mode[c] = "stream" THEN Append(@, r) ELSE @]
  /\ UNCHANGED <<router, cooling, at, choice, pos, errors, winner, voices, outcome>>

(* Mutant: wait() waits for all of them.                                   *)
CollectAnswerOfAll(c, w, F) ==
  /\ Racing(c) /\ mode[c] = "generate"
  /\ Standing(c, "running") = {}
  /\ w \in Standing(c, "ready")
  /\ F \subseteq Standing(c, "broke")
  /\ cooling' = (cooling \cup F) \ {w}
  /\ errors' = [errors EXCEPT ![c] = @ \cup F]
  /\ winner' = [winner EXCEPT ![c] = w]
  /\ Says(c, w)
  /\ Ends(c, "answered")
  /\ CallOff(c)
  /\ UNCHANGED <<router, choice, pos, arrived>>

(* asyncio.wait returns: the tasks done so far are looked at in any order. *)
CollectAnswer(c, w, F) ==
  /\ Racing(c) /\ mode[c] = "generate"
  /\ w \in Standing(c, "ready")
  /\ F \subseteq Standing(c, "broke")
  /\ cooling' = (cooling \cup F) \ {w}
  /\ errors' = [errors EXCEPT ![c] = @ \cup F]
  /\ winner' = [winner EXCEPT ![c] = w]
  /\ Says(c, w)
  /\ Ends(c, "answered")
  /\ CallOff(c)
  /\ UNCHANGED <<router, choice, pos, arrived>>

CollectFailures(c) ==
  LET F == Standing(c, "broke") IN
  /\ Racing(c) /\ mode[c] = "generate"
  /\ F # {} /\ Standing(c, "ready") = {}
  /\ cooling' = cooling \cup F
  /\ errors' = [errors EXCEPT ![c] = @ \cup F]
  /\ racer' = [racer EXCEPT ![c] = [r \in Routes |-> IF r \in F THEN "spent" ELSE @[r]]]
  /\ IF Standing(c, "running") = {} THEN Ends(c, "exhausted") ELSE UNCHANGED <<at, outcome>>
  /\ UNCHANGED <<router, choice, pos, arrived, winner, voices>>

(* The first of the queue: a stream that has begun (or is empty) wins.     *)
TakeStream(c) ==
  LET r == Head(arrived[c]) IN
  /\ Racing(c) /\ arrived[c] # <<>>
  /\ racer[c][r] = "ready"
  /\ RecordSuccess(r)
  /\ arrived' = [arrived EXCEPT ![c] = Tail(@)]
  /\ winner' = [winner EXCEPT ![c] = r]
  /\ at' = [at EXCEPT ![c] = "speaking"]
  /\ CallOff(c)
  /\ UNCHANGED <<router, choice, pos, errors, voices, outcome>>

TakeFailure(c) ==
  LET r == Head(arrived[c]) IN
  /\ Racing(c) /\ arrived[c] # <<>>
  /\ racer[c][r] = "broke"
  /\ RecordFailure(r)
  /\ errors' = [errors EXCEPT ![c] = @ \cup {r}]
  /\ arrived' = [arrived EXCEPT ![c] = Tail(@)]
  /\ racer' = [racer EXCEPT ![c][r] = "spent"]
  /\ IF Standing(c, "spent") \cup {r} = Candidates(c)
       THEN Ends(c, "exhausted")
       ELSE UNCHANGED <<at, outcome>>
  /\ UNCHANGED <<router, choice, pos, winner, voices>>

Speak(c) ==
  /\ at[c] = "speaking"
  /\ Says(c, winner[c])
  /\ UNCHANGED <<router, cooling, at, choice, pos, errors, race, winner, outcome>>

EndStream(c) ==
  /\ at[c] = "speaking"
  /\ Says(c, winner[c])
  /\ Ends(c, "answered")
  /\ UNCHANGED <<router, cooling, choice, pos, errors, race, winner>>

(* The winner fails after all: its success has been recorded.              *)
BreakStream(c) ==
  /\ at[c] = "speaking"
  /\ Ends(c, "broken")
  /\ UNCHANGED <<router, cooling, choice, pos, errors, race, winner, voices>>

-----------------------------------------------------------------------------

Settle(c) ==
  \/ \E w \in Routes, F \in SUBSET Routes : CollectAnswer(c, w, F)
  \/ CollectFailures(c) \/ TakeStream(c) \/ TakeFailure(c)

Next ==
  \/ \E c \in Calls :
       \/ \E m \in {"generate", "stream"} : Begin(c, m)
       \/ Cancel(c)
       \/ Chunk(c) \/ Succeed(c) \/ FailOver(c) \/ Raise(c) \/ FailAlone(c)
       \/ \E r \in Routes, good \in BOOLEAN : Reply(c, r, good)
       \/ Settle(c)
       \/ Speak(c) \/ EndStream(c) \/ BreakStream(c)
  \/ \E r \in Routes : Expire(r)
  \/ \E R \in {Routes} \cup {{r} : r \in Routes} : ResetHealth(R)

Spec == Init /\ [][Next]_vars

(* A caller that waits for its racers is woken by them; no route need      *)
(* ever answer.                                                            *)
FairSpec == Spec /\ \A c \in Calls : WF_vars(Settle(c))

-----------------------------------------------------------------------------

(* A call only says that all routes have failed when every candidate it    *)
(* had has failed in this very call, none has won and none is left         *)
(* running, whatever other calls do to the routes' health.                 *)
(* (generate, stream)                                                      *)
ExhaustedIsTrue == \A c \in Calls :
  outcome[c] = "exhausted" =>
    /\ errors[c] = Candidates(c)
    /\ winner[c] = 0
    /\ Standing(c, "running") = {}

(* A race is decided by the first route that answers: the call goes on     *)
(* even if all other racers hang.  (asyncio.wait, queue.get)               *)
AnswerIsTaken == \A c \in Calls :
  Racing(c) /\ Standing(c, "ready") # {} ~> ~Racing(c)

PhaseOf(c) ==
  CASE at[c] = "idle" -> "new"
    [] at[c] \in {"trying", "speaking"} -> "open"
    [] outcome[c] = "answered" -> "answered"
    [] OTHER -> "failed"

(* The one route a call has heard; N + 1 if there were several.            *)
SpeakerOf(c) ==
  IF voices[c] = {} THEN 0
  ELSE IF \E r \in Routes : voices[c] = {r} THEN CHOOSE r \in Routes : voices[c] = {r}
  ELSE N + 1

Contract == INSTANCE RouteContract WITH
  Nobody <- 0,
  phase <- [c \in Calls |-> PhaseOf(c)], speaker <- [c \in Calls |-> SpeakerOf(c)]

(* All three routers look like one provider: the output of a call never    *)
(* mixes two routes, even when one breaks off and another could go on.     *)
(* (generate, stream)                                                      *)
KeepsContract == Contract!Spec
=============================================================================
