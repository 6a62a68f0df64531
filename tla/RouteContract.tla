--------------------------- MODULE RouteContract ---------------------------
(***************************************************************************)
(* What a router promises to whoever calls it as if it were one provider:  *)
(* all a call hears comes from a single route, an answer is that route's,  *)
(* and a call that has ended stays ended.                                  *)
(***************************************************************************)
CONSTANTS Calls, Routes, Nobody

VARIABLES phase,   \* of a call
          speaker  \* the route it has heard, or Nobody

vars == <<phase, speaker>>

Init ==
  /\ phase = [c \in Calls |-> "new"]
  /\ speaker = [c \in Calls |-> Nobody]

Open(c) ==
  /\ phase[c] = "new"
  /\ phase' = [phase EXCEPT ![c] = "open"]
  /\ UNCHANGED speaker

Hears(c, r) ==
  /\ phase[c] = "open"
  /\ speaker[c] \in {Nobody, r}
  /\ speaker' = [speaker EXCEPT ![c] = r]

(* A part of the answer...                                                 *)
Hear(c, r) == Hears(c, r) /\ UNCHANGED phase

(* ... its end (an answer may be empty, if its end is all that is heard)... *)
Answer(c, r) ==
  /\ Hears(c, r)
  /\ phase' = [phase EXCEPT ![c] = "answered"]

(* ... or an error, which may come after a part.                           *)
Fail(c) ==
  /\ phase[c] = "open"
  /\ phase' = [phase EXCEPT ![c] = "failed"]
  /\ UNCHANGED speaker

Next == \E c \in Calls :
  Open(c) \/ Fail(c) \/ \E r \in Routes : Hear(c, r) \/ Answer(c, r)

Spec == Init /\ [][Next]_vars
=============================================================================
