---------------------------- MODULE RoutesProofs ----------------------------
(***************************************************************************)
(* The routers, for any number of calls and routes: types, that "all       *)
(* routes failed" is true, and that Routes implements RouteContract.       *)
(***************************************************************************)
EXTENDS Routes, FiniteSetTheorems, TLAPS

LEMMA RoutesAre == Routes = 1 .. N /\ Routes # {} /\ IsFiniteSet(Routes) /\ 0 \notin Routes
<1>1. 1 \in Routes /\ 0 \notin Routes
  BY NAssumption DEF Routes
<1>2. IsFiniteSet(1 .. N)
  BY NAssumption, FS_Interval
<1> QED BY <1>1, <1>2 DEF Routes

LEMMA AvailableFacts ==
  Available \subseteq Routes /\ Available # {} /\ IsFiniteSet(Available)
<1>1. Available \subseteq Routes /\ Available # {}
  BY RoutesAre DEF Available
<1> QED BY <1>1, RoutesAre, FS_Subset

(* A call has at least one candidate.                                      *)
LEMMA OrdersFacts ==
  ASSUME NEW s \in Orders(Available)
  PROVE  s \in Seq(Routes) /\ Len(s) \in Nat \ {0} /\ 1 \in DOMAIN s /\ DOMAIN s = 1 .. Len(s)
<1> DEFINE n == Cardinality(Available)
<1>1. n \in Nat /\ n # 0
  BY AvailableFacts, FS_CardinalityType, FS_EmptySet
<1>2. s \in [1 .. n -> Routes]
  BY AvailableFacts DEF Orders
<1> HIDE DEF n
<1>3. s \in Seq(Routes) /\ Len(s) = n
  BY <1>1, <1>2
<1> QED BY <1>1, <1>2, <1>3

LEMMA TypeInit == Init => TypeOK
<1> SUFFICES ASSUME Init PROVE TypeOK
  OBVIOUS
<1>1. cands \in [Calls -> Seq(Routes)] /\ arrived \in [Calls -> Seq(Routes)]
  BY DEF Init
<1> QED BY <1>1 DEF Init, TypeOK, Outcomes

-----------------------------------------------------------------------------
(* The inductive invariant, one call at a time.                            *)

Fresh(c) ==
  /\ pos[c] = 1 /\ errors[c] = {} /\ voices[c] = {} /\ winner[c] = 0
  /\ \A r \in Routes : racer[c][r] = "none"

(* The candidates before the current one have failed, unheard.             *)
AtCandidate(c) ==
  /\ pos[c] \in DOMAIN cands[c]
  /\ \A r \in Routes : r \in errors[c] <=> \E i \in 1 .. pos[c] - 1 : cands[c][i] = r
  /\ voices[c] \subseteq {Current(c)}
  /\ winner[c] = 0

(* Everybody who was sent off is accounted for.                            *)
AtRace(c) ==
  /\ voices[c] = {} /\ winner[c] = 0
  /\ errors[c] = Standing(c, "spent")
  /\ \A r \in Routes : racer[c][r] # "cancelled"
  /\ Candidates(c) = {r \in Routes : racer[c][r] # "none"}

CallInv(c) ==
  /\ at[c] = "idle" => Fresh(c)
  /\ Trying(c) => AtCandidate(c)
  /\ Racing(c) => AtRace(c)
  /\ at[c] = "speaking" => winner[c] \in Routes /\ voices[c] \subseteq {winner[c]}
  /\ \A r \in Routes : racer[c][r] = "running" => Racing(c)
  /\ at[c] # "done" => outcome[c] = "none"
  /\ outcome[c] = "exhausted" => errors[c] = Candidates(c) /\ winner[c] = 0

Inv == TypeOK /\ \A c \in Calls : CallInv(c)

Same(c) ==
  /\ router' = router
  /\ at'[c] = at[c] /\ mode'[c] = mode[c] /\ cands'[c] = cands[c] /\ pos'[c] = pos[c]
  /\ errors'[c] = errors[c] /\ racer'[c] = racer[c] /\ winner'[c] = winner[c]
  /\ voices'[c] = voices[c] /\ outcome'[c] = outcome[c]

LEMMA CallKept ==
  ASSUME NEW c \in Calls, CallInv(c), Same(c)
  PROVE  CallInv(c)'
<1> USE DEF Same
<1>1. /\ InTurn(c)' <=> InTurn(c)
      /\ Current(c)' = Current(c) /\ Candidates(c)' = Candidates(c)
      /\ Standing(c, "spent")' = Standing(c, "spent")
  BY DEF InTurn, Current, Candidates, Standing
<1>2. (Trying(c)' <=> Trying(c)) /\ (Racing(c)' <=> Racing(c))
  BY <1>1 DEF Trying, Racing
<1>3. /\ Fresh(c) => Fresh(c)'
      /\ AtCandidate(c) => AtCandidate(c)'
      /\ AtRace(c) => AtRace(c)'
  BY <1>1 DEF Fresh, AtCandidate, AtRace
<1> QED BY <1>1, <1>2, <1>3 DEF CallInv

LEMMA InvInit == Init => Inv
<1> SUFFICES ASSUME Init PROVE Inv
  OBVIOUS
<1>1. ASSUME NEW c \in Calls PROVE CallInv(c)
  BY DEF Init, CallInv, Fresh, Trying, Racing
<1> QED BY <1>1, TypeInit DEF Inv

(* A step of one call leaves the others alone.                             *)
LEMMA InvKept ==
  ASSUME Inv, NEW c \in Calls, TypeOK', CallInv(c)', \A d \in Calls \ {c} : Same(d)
  PROVE  Inv'
BY CallKept DEF Inv

LEMMA CurrentIsRoute ==
  ASSUME Inv, NEW c \in Calls, Trying(c)
  PROVE  Current(c) \in Routes /\ AtCandidate(c)
         /\ Len(cands[c]) \in Nat /\ DOMAIN cands[c] = 1 .. Len(cands[c])
BY DEF Inv, TypeOK, CallInv, AtCandidate, Current

LEMMA BeginStep ==
  ASSUME Inv, NEW c \in Calls, NEW m \in {"generate", "stream"}, Begin(c, m)
  PROVE  Inv'
<1>1. PICK s \in Orders(Available) :
        /\ cands' = [cands EXCEPT ![c] = s]
        /\ racer' = [racer EXCEPT ![c] = [r \in Routes |->
             IF router = "race" /\ Len(s) > 1 /\ \E i \in DOMAIN s : s[i] = r
               THEN "running" ELSE "none"]]
  BY DEF Begin
<1>2. s \in Seq(Routes) /\ Len(s) \in Nat \ {0} /\ 1 \in DOMAIN s /\ DOMAIN s = 1 .. Len(s)
  BY OrdersFacts
<1>3. /\ at[c] = "idle" /\ at' = [at EXCEPT ![c] = "trying"] /\ mode' = [mode EXCEPT ![c] = m]
      /\ UNCHANGED <<router, cooling, pos, errors, arrived, winner, voices, outcome>>
  BY DEF Begin
<1>4. TypeOK'
  BY <1>1, <1>2, <1>3 DEF Inv, TypeOK
<1>5. /\ at'[c] = "trying" /\ cands'[c] = s
      /\ racer'[c] = [r \in Routes |->
           IF router = "race" /\ Len(s) > 1 /\ \E i \in DOMAIN s : s[i] = r
             THEN "running" ELSE "none"]
  BY <1>1, <1>3 DEF Inv, TypeOK
<1>6. Fresh(c) /\ outcome[c] = "none"
  BY <1>3 DEF Inv, CallInv
<1>7. CASE router = "race" /\ Len(s) > 1
  <2>1. ~Trying(c)' /\ Racing(c)'
    <3>1. Len(s) # 1 /\ router' = "race"
      BY <1>2, <1>3, <1>7
    <3>2. ~InTurn(c)'
      BY <1>5, <3>1 DEF InTurn
    <3> QED BY <1>5, <3>2 DEF Trying, Racing
  <2>2. Candidates(c)' = {r \in Routes : racer'[c][r] # "none"}
    BY <1>2, <1>5, <1>7 DEF Candidates
  <2>3. Standing(c, "spent")' = {}
    BY <1>5 DEF Standing
  <2>4. AtRace(c)'
    BY <1>3, <1>5, <1>6, <2>2, <2>3 DEF AtRace, Fresh
  <2>5. CallInv(c)'
    BY <1>3, <1>5, <1>6, <2>1, <2>4 DEF CallInv
  <2>6. \A d \in Calls \ {c} : Same(d)
    BY <1>1, <1>3 DEF Same, Inv, TypeOK
  <2> QED BY <1>4, <2>5, <2>6, InvKept
<1>8. CASE ~(router = "race" /\ Len(s) > 1)
  <2>1. Trying(c)' /\ ~Racing(c)'
    BY <1>2, <1>3, <1>5, <1>8 DEF Trying, Racing, InTurn
  <2>2. AtCandidate(c)'
    BY <1>2, <1>3, <1>5, <1>6 DEF AtCandidate, Fresh
  <2>3. \A r \in Routes : racer'[c][r] = "none"
    BY <1>5, <1>8
  <2>4. CallInv(c)'
    BY <1>3, <1>5, <1>6, <2>1, <2>2, <2>3 DEF CallInv
  <2>5. \A d \in Calls \ {c} : Same(d)
    BY <1>1, <1>3 DEF Same, Inv, TypeOK
  <2> QED BY <1>4, <2>4, <2>5, InvKept
<1> QED BY <1>7, <1>8

(* A call that ends with something else than "exhausted".                  *)
LEMMA EndsWell ==
  ASSUME Inv, NEW c \in Calls, NEW o \in Outcomes \ {"none", "exhausted"}, Ends(c, o),
         \A r \in Routes : racer'[c][r] # "running"
  PROVE  CallInv(c)'
<1>1. at'[c] = "done" /\ outcome'[c] = o
  BY DEF Inv, TypeOK, Ends
<1> QED BY <1>1 DEF CallInv, Trying, Racing, Outcomes

LEMMA CancelStep ==
  ASSUME Inv, NEW c \in Calls, Cancel(c)
  PROVE  Inv'
<1> USE DEF Inv, TypeOK
<1>1. \A r \in Routes : racer'[c][r] # "running"
  BY DEF Cancel, CallOff
<1>2. CallInv(c)'
  BY <1>1, EndsWell DEF Cancel, Outcomes
<1>3. TypeOK'
  BY DEF Cancel, Ends, CallOff, Outcomes, choice
<1>4. \A d \in Calls \ {c} : Same(d)
  BY DEF Cancel, Ends, CallOff, Same, choice
<1> QED BY <1>2, <1>3, <1>4, InvKept

-----------------------------------------------------------------------------
(* One candidate after the other                                           *)

(* Nobody races for such a call.                                           *)
LEMMA NoRacers ==
  ASSUME Inv, NEW c \in Calls, ~Racing(c)
  PROVE  \A r \in Routes : racer[c][r] # "running"
BY DEF Inv, CallInv

LEMMA ChunkStep ==
  ASSUME Inv, NEW c \in Calls, Chunk(c)
  PROVE  Inv'
<1>1. /\ Trying(c) /\ voices' = [voices EXCEPT ![c] = voices[c] \cup {Current(c)}]
      /\ UNCHANGED <<router, cooling, at, mode, cands, pos, errors, racer, arrived, winner, outcome>>
  BY DEF Chunk, Says, choice, race
<1>2. Current(c) \in Routes /\ AtCandidate(c)
  BY <1>1, CurrentIsRoute
<1>3. TypeOK'
  BY <1>1, <1>2 DEF Inv, TypeOK
<1>4. voices'[c] = voices[c] \cup {Current(c)}
  BY <1>1 DEF Inv, TypeOK
<1>5. AtCandidate(c)'
  BY <1>1, <1>2, <1>4 DEF AtCandidate, Current
<1>6. Trying(c)' /\ ~Racing(c) /\ ~Racing(c)' /\ at[c] = "trying"
  BY <1>1 DEF Trying, Racing, InTurn
<1>7. CallInv(c)'
  BY <1>1, <1>5, <1>6, NoRacers DEF CallInv, Inv
<1> QED BY <1>1, <1>3, <1>7, InvKept DEF Same, Inv, TypeOK

LEMMA SucceedStep ==
  ASSUME Inv, NEW c \in Calls, Succeed(c)
  PROVE  Inv'
<1>1. Trying(c) /\ Current(c) \in Routes /\ ~Racing(c)
  BY CurrentIsRoute DEF Succeed, Trying, Racing
<1>2. TypeOK'
  BY <1>1 DEF Succeed, RecordSuccess, Says, Ends, Outcomes, choice, race, Inv, TypeOK
<1>3. CallInv(c)'
  BY <1>1, NoRacers, EndsWell DEF Succeed, race, Outcomes
<1>4. \A d \in Calls \ {c} : Same(d)
  BY DEF Succeed, Says, Ends, choice, race, Same, Inv, TypeOK
<1> QED BY <1>2, <1>3, <1>4, InvKept

LEMMA RaiseStep ==
  ASSUME Inv, NEW c \in Calls, Raise(c)
  PROVE  Inv'
<1>1. Trying(c) /\ Current(c) \in Routes /\ ~Racing(c)
  BY CurrentIsRoute DEF Raise, Trying, Racing
<1>2. PICK o \in {"broken", "refused"} : Ends(c, o)
  BY DEF Raise
<1>3. /\ cooling' \subseteq Routes /\ errors' \in [Calls -> SUBSET Routes]
      /\ \A d \in Calls \ {c} : errors'[d] = errors[d]
  <2>1. CASE router = "combo"
    BY <2>1 DEF Raise, Inv, TypeOK
  <2>2. CASE router # "combo"
    <3>1. cooling' = cooling \cup {Current(c)}
          /\ errors' = [errors EXCEPT ![c] = errors[c] \cup {Current(c)}]
      BY <2>2 DEF Raise, RecordFailure, Errs
    <3> QED BY <1>1, <3>1 DEF Inv, TypeOK
  <2> QED BY <2>1, <2>2
<1>4. UNCHANGED <<router, mode, cands, pos, racer, arrived, winner, voices>>
  BY DEF Raise, choice, race
<1>5. TypeOK'
  BY <1>2, <1>3, <1>4 DEF Ends, Outcomes, Inv, TypeOK
<1>6. CallInv(c)'
  BY <1>1, <1>2, <1>4, NoRacers, EndsWell DEF Outcomes
<1>7. \A d \in Calls \ {c} : Same(d)
  BY <1>2, <1>3, <1>4 DEF Ends, Same, Inv, TypeOK
<1> QED BY <1>5, <1>6, <1>7, InvKept

LEMMA FailOverStep ==
  ASSUME Inv, NEW c \in Calls, FailOver(c)
  PROVE  Inv'
<1>1. /\ Trying(c) /\ ~Racing(c) /\ at[c] = "trying"
      /\ Current(c) \in Routes /\ AtCandidate(c)
      /\ Len(cands[c]) \in Nat /\ DOMAIN cands[c] = 1 .. Len(cands[c])
      /\ pos[c] \in 1 .. Len(cands[c])
  BY CurrentIsRoute DEF FailOver, Trying, Racing, AtCandidate
<1>2. /\ cooling' = cooling \cup {Current(c)}
      /\ errors' = [errors EXCEPT ![c] = errors[c] \cup {Current(c)}]
      /\ UNCHANGED <<router, mode, cands, racer, arrived, winner, voices>>
      /\ voices[c] = {}
  BY <1>1 DEF FailOver, RecordFailure, Errs, choice, race, Partial, AtCandidate
<1>3. errors'[c] = errors[c] \cup {Current(c)} /\ outcome[c] = "none"
      /\ \A r \in Routes : racer[c][r] # "running"
  BY <1>1, <1>2, NoRacers DEF Inv, TypeOK, CallInv
<1>4. \A r \in Routes : r \in errors'[c] <=> \E i \in 1 .. pos[c] : cands[c][i] = r
  BY <1>1, <1>3 DEF AtCandidate, Current
<1>5. CASE pos[c] < Len(cands[c])
  <2>1. pos' = [pos EXCEPT ![c] = pos[c] + 1] /\ UNCHANGED <<at, outcome>>
    BY <1>5 DEF FailOver
  <2>2. TypeOK'
    BY <1>1, <1>2, <2>1 DEF Inv, TypeOK
  <2>3. pos'[c] = pos[c] + 1 /\ pos'[c] \in DOMAIN cands[c]
    BY <1>1, <1>5, <2>1 DEF Inv, TypeOK
  <2>4. AtCandidate(c)'
    <3>1. \A r \in Routes : r \in errors'[c] <=> \E i \in 1 .. pos'[c] - 1 : cands[c][i] = r
      BY <1>1, <1>4, <2>3
    <3> QED BY <1>1, <1>2, <2>3, <3>1 DEF AtCandidate
  <2>5. Trying(c)' /\ ~Racing(c)'
    BY <1>1, <1>2, <2>1 DEF Trying, Racing, InTurn
  <2>6. CallInv(c)'
    BY <1>1, <1>2, <1>3, <2>1, <2>4, <2>5 DEF CallInv
  <2>7. \A d \in Calls \ {c} : Same(d)
    BY <1>2, <2>1 DEF Same, Inv, TypeOK
  <2> QED BY <2>2, <2>6, <2>7, InvKept
<1>6. CASE ~(pos[c] < Len(cands[c]))
  <2>1. Ends(c, "exhausted") /\ pos' = pos
    BY <1>6 DEF FailOver
  <2>2. TypeOK'
    BY <1>1, <1>2, <2>1 DEF Ends, Outcomes, Inv, TypeOK
  <2>3. pos[c] = Len(cands[c])
    BY <1>1, <1>6
  <2>4. errors'[c] = Candidates(c)'
    <3>1. errors'[c] \subseteq Routes /\ cands[c] \in Seq(Routes)
      BY <2>2 DEF Inv, TypeOK
    <3> QED BY <1>1, <1>2, <1>4, <2>3, <3>1 DEF Candidates
  <2>5. at'[c] = "done" /\ outcome'[c] = "exhausted" /\ winner'[c] = 0
    BY <1>1, <1>2, <2>1 DEF Ends, Inv, TypeOK, AtCandidate
  <2>6. CallInv(c)'
    BY <1>2, <1>3, <2>4, <2>5 DEF CallInv, Trying, Racing
  <2>7. \A d \in Calls \ {c} : Same(d)
    BY <1>2, <2>1 DEF Ends, Same, Inv, TypeOK
  <2> QED BY <2>2, <2>6, <2>7, InvKept
<1> QED BY <1>5, <1>6

LEMMA FailAloneStep ==
  ASSUME Inv, NEW c \in Calls, FailAlone(c)
  PROVE  Inv'
<1>1. /\ Trying(c) /\ ~Racing(c) /\ router = "race" /\ Len(cands[c]) = 1
      /\ Current(c) \in Routes /\ AtCandidate(c)
      /\ DOMAIN cands[c] = 1 .. 1 /\ pos[c] = 1
  BY CurrentIsRoute DEF FailAlone, Trying, Racing, InTurn, AtCandidate
<1>2. /\ cooling' = cooling \cup {Current(c)}
      /\ errors' = [errors EXCEPT ![c] = errors[c] \cup {Current(c)}]
      /\ UNCHANGED <<router, mode, cands, pos, racer, arrived, winner, voices>>
      /\ Ends(c, "exhausted")
  BY DEF FailAlone, RecordFailure, Errs, choice, race
<1>3. TypeOK'
  BY <1>1, <1>2 DEF Ends, Outcomes, Inv, TypeOK
<1>4. errors[c] = {}
  BY <1>1 DEF AtCandidate, Inv, TypeOK
<1>5. errors'[c] = Candidates(c)'
  BY <1>1, <1>2, <1>4 DEF Candidates, Current, Inv, TypeOK
<1>6. at'[c] = "done" /\ outcome'[c] = "exhausted" /\ winner'[c] = 0
  BY <1>1, <1>2 DEF Ends, AtCandidate, Inv, TypeOK
<1>7. CallInv(c)'
  BY <1>1, <1>2, <1>5, <1>6, NoRacers DEF CallInv, Trying, Racing
<1>8. \A d \in Calls \ {c} : Same(d)
  BY <1>2 DEF Ends, Same, Inv, TypeOK
<1> QED BY <1>3, <1>7, <1>8, InvKept

-----------------------------------------------------------------------------
(* A race                                                                  *)

LEMMA ReplyStep ==
  ASSUME Inv, NEW c \in Calls, NEW r \in Routes, NEW good \in BOOLEAN, Reply(c, r, good)
  PROVE  Inv'
<1>1. /\ racer[c][r] = "running"
      /\ racer' = [racer EXCEPT ![c] = [racer[c] EXCEPT ![r] = IF good THEN "ready" ELSE "broke"]]
      /\ UNCHANGED <<router, cooling, at, mode, cands, pos, errors, winner, voices, outcome>>
  BY DEF Reply, choice, Inv, TypeOK
<1>2. arrived' \in [Calls -> Seq(Routes)]
  BY DEF Reply, Inv, TypeOK
<1>3. TypeOK'
  BY <1>1, <1>2 DEF Inv, TypeOK
<1>4. Racing(c) /\ AtRace(c) /\ at[c] = "trying" /\ outcome[c] = "none"
  BY <1>1 DEF Inv, CallInv, Racing
<1>5. /\ racer'[c][r] \in {"ready", "broke"}
      /\ \A q \in Routes \ {r} : racer'[c][q] = racer[c][q]
  BY <1>1 DEF Inv, TypeOK
<1>6. Racing(c)' /\ ~Trying(c)'
  BY <1>1, <1>4 DEF Racing, Trying, InTurn
<1>7. AtRace(c)'
  <2>1. Standing(c, "spent")' = Standing(c, "spent")
    BY <1>1, <1>5 DEF Standing
  <2>2. {q \in Routes : racer'[c][q] # "none"} = {q \in Routes : racer[c][q] # "none"}
    BY <1>1, <1>5
  <2>3. Candidates(c)' = Candidates(c)
    BY <1>1 DEF Candidates
  <2> QED BY <1>1, <1>4, <1>5, <2>1, <2>2, <2>3 DEF AtRace
<1>8. CallInv(c)'
  BY <1>1, <1>4, <1>6, <1>7 DEF CallInv
<1>9. \A d \in Calls \ {c} : Same(d)
  BY <1>1 DEF Same, Inv, TypeOK
<1> QED BY <1>3, <1>8, <1>9, InvKept

LEMMA CollectAnswerStep ==
  ASSUME Inv, NEW c \in Calls, NEW w \in Routes, NEW F \in SUBSET Routes, CollectAnswer(c, w, F)
  PROVE  Inv'
<1>1. TypeOK'
  <2>1. racer' \in [Calls -> [Routes -> {"none", "running", "ready", "broke", "spent", "cancelled"}]]
    BY DEF CollectAnswer, CallOff, Inv, TypeOK
  <2> QED BY <2>1 DEF CollectAnswer, Says, Ends, Outcomes, choice, Inv, TypeOK
<1>2. \A r \in Routes : racer'[c][r] # "running"
  BY DEF CollectAnswer, CallOff, Inv, TypeOK
<1>3. CallInv(c)'
  BY <1>2, EndsWell DEF CollectAnswer, Outcomes
<1>4. \A d \in Calls \ {c} : Same(d)
  BY DEF CollectAnswer, Says, Ends, CallOff, choice, Same, Inv, TypeOK
<1> QED BY <1>1, <1>3, <1>4, InvKept

(* While it races, nobody is cancelled and the errors are the spent ones.  *)
LEMMA RaceFacts ==
  ASSUME Inv, NEW c \in Calls, Racing(c)
  PROVE  AtRace(c) /\ at[c] = "trying" /\ outcome[c] = "none"
BY DEF Inv, CallInv, Racing

LEMMA CollectFailuresStep ==
  ASSUME Inv, NEW c \in Calls, CollectFailures(c)
  PROVE  Inv'
<1> DEFINE F == Standing(c, "broke")
<1>1. /\ Racing(c) /\ F \subseteq Routes /\ Standing(c, "ready") = {}
      /\ cooling' = cooling \cup F
      /\ errors' = [errors EXCEPT ![c] = errors[c] \cup F]
      /\ racer' = [racer EXCEPT ![c] = [r \in Routes |-> IF r \in F THEN "spent" ELSE racer[c][r]]]
      /\ UNCHANGED <<router, mode, cands, pos, arrived, winner, voices>>
  BY DEF CollectFailures, Standing, choice, Inv, TypeOK
<1>2. AtRace(c) /\ at[c] = "trying" /\ outcome[c] = "none"
  BY <1>1, RaceFacts
<1>3. \A r \in Routes : racer'[c][r] = IF racer[c][r] = "broke" THEN "spent" ELSE racer[c][r]
  BY <1>1 DEF Inv, TypeOK, Standing
<1>4. errors'[c] = errors[c] \cup F
  BY <1>1 DEF Inv, TypeOK
<1> HIDE DEF F
<1>5. /\ racer' \in [Calls -> [Routes -> {"none", "running", "ready", "broke", "spent", "cancelled"}]]
      /\ errors' \in [Calls -> SUBSET Routes] /\ cooling' \subseteq Routes
  BY <1>1 DEF Inv, TypeOK
<1>6. /\ errors'[c] = Standing(c, "spent")'
      /\ Candidates(c)' = {r \in Routes : racer'[c][r] # "none"}
  <2>1. Standing(c, "spent")' = Standing(c, "spent") \cup F
    BY <1>3 DEF Standing, F
  <2>2. Candidates(c)' = Candidates(c)
    BY <1>1 DEF Candidates
  <2>3. {r \in Routes : racer'[c][r] # "none"} = {r \in Routes : racer[c][r] # "none"}
    BY <1>3
  <2> QED BY <1>2, <1>4, <2>1, <2>2, <2>3 DEF AtRace
<1>7. CASE Standing(c, "running") = {}
  <2>1. Ends(c, "exhausted")
    BY <1>7 DEF CollectFailures
  <2>2. TypeOK'
    BY <1>1, <1>5, <2>1 DEF Ends, Outcomes, Inv, TypeOK
  <2>3. \A r \in Routes : racer'[c][r] \in {"none", "spent"}
    BY <1>1, <1>2, <1>3, <1>7 DEF Standing, AtRace, Inv, TypeOK
  <2>4. errors'[c] = Candidates(c)'
    BY <1>6, <2>3 DEF Standing
  <2>5. at'[c] = "done" /\ outcome'[c] = "exhausted" /\ winner'[c] = 0
    BY <1>1, <1>2, <2>1 DEF Ends, AtRace, Inv, TypeOK
  <2>6. CallInv(c)'
    BY <2>3, <2>4, <2>5 DEF CallInv, Trying, Racing
  <2>7. \A d \in Calls \ {c} : Same(d)
    BY <1>1, <2>1 DEF Ends, Same, Inv, TypeOK
  <2> QED BY <2>2, <2>6, <2>7, InvKept
<1>8. CASE Standing(c, "running") # {}
  <2>1. UNCHANGED <<at, outcome>>
    BY <1>8 DEF CollectFailures
  <2>2. TypeOK'
    BY <1>1, <1>5, <2>1 DEF Inv, TypeOK
  <2>3. Racing(c)' /\ ~Trying(c)'
    BY <1>1, <2>1 DEF Racing, Trying, InTurn
  <2>4. AtRace(c)'
    BY <1>1, <1>2, <1>3, <1>6 DEF AtRace
  <2>5. CallInv(c)'
    BY <1>2, <2>1, <2>3, <2>4 DEF CallInv
  <2>6. \A d \in Calls \ {c} : Same(d)
    BY <1>1, <2>1 DEF Same, Inv, TypeOK
  <2> QED BY <2>2, <2>5, <2>6, InvKept
<1> QED BY <1>7, <1>8

(* What is first in the queue has raced.                                   *)
LEMMA HeadIsRoute ==
  ASSUME Inv, NEW c \in Calls, arrived[c] # <<>>
  PROVE  Head(arrived[c]) \in Routes /\ [arrived EXCEPT ![c] = Tail(@)] \in [Calls -> Seq(Routes)]
BY DEF Inv, TypeOK

LEMMA TakeStreamStep ==
  ASSUME Inv, NEW c \in Calls, TakeStream(c)
  PROVE  Inv'
<1> DEFINE r == Head(arrived[c])
<1>1. r \in Routes /\ arrived' \in [Calls -> Seq(Routes)]
  BY HeadIsRoute DEF TakeStream
<1>2. /\ Racing(c) /\ cooling' = cooling \ {r}
      /\ winner' = [winner EXCEPT ![c] = r] /\ at' = [at EXCEPT ![c] = "speaking"]
      /\ CallOff(c)
      /\ UNCHANGED <<router, mode, cands, pos, errors, voices, outcome>>
  BY DEF TakeStream, RecordSuccess, choice
<1> HIDE DEF r
<1>3. racer' \in [Calls -> [Routes -> {"none", "running", "ready", "broke", "spent", "cancelled"}]]
      /\ \A q \in Routes : racer'[c][q] # "running"
  BY <1>2 DEF CallOff, Inv, TypeOK
<1>4. TypeOK'
  BY <1>1, <1>2, <1>3 DEF Inv, TypeOK
<1>5. AtRace(c) /\ outcome[c] = "none"
  BY <1>2, RaceFacts
<1>6. at'[c] = "speaking" /\ winner'[c] = r
  BY <1>2 DEF Inv, TypeOK
<1>7. CallInv(c)'
  BY <1>1, <1>2, <1>3, <1>5, <1>6 DEF CallInv, AtRace, Trying, Racing
<1>8. \A d \in Calls \ {c} : Same(d)
  BY <1>2 DEF CallOff, Same, Inv, TypeOK
<1> QED BY <1>4, <1>7, <1>8, InvKept

LEMMA TakeFailureStep ==
  ASSUME Inv, NEW c \in Calls, TakeFailure(c)
  PROVE  Inv'
<1> DEFINE r == Head(arrived[c])
<1>1. r \in Routes /\ arrived' \in [Calls -> Seq(Routes)]
  BY HeadIsRoute DEF TakeFailure
<1>2. /\ Racing(c) /\ racer[c][r] = "broke" /\ cooling' = cooling \cup {r}
      /\ errors' = [errors EXCEPT ![c] = errors[c] \cup {r}]
      /\ racer' = [racer EXCEPT ![c] = [racer[c] EXCEPT ![r] = "spent"]]
      /\ UNCHANGED <<router, mode, cands, pos, winner, voices>>
      /\ IF Standing(c, "spent") \cup {r} = Candidates(c)
           THEN Ends(c, "exhausted") ELSE UNCHANGED <<at, outcome>>
  BY DEF TakeFailure, RecordFailure, choice, Inv, TypeOK
<1> HIDE DEF r
<1>3. AtRace(c) /\ at[c] = "trying" /\ outcome[c] = "none"
  BY <1>2, RaceFacts
<1>4. /\ racer' \in [Calls -> [Routes -> {"none", "running", "ready", "broke", "spent", "cancelled"}]]
      /\ errors' \in [Calls -> SUBSET Routes] /\ cooling' \subseteq Routes
  BY <1>1, <1>2 DEF Inv, TypeOK
<1>5. /\ racer'[c][r] = "spent" /\ \A q \in Routes \ {r} : racer'[c][q] = racer[c][q]
      /\ errors'[c] = errors[c] \cup {r}
  BY <1>1, <1>2 DEF Inv, TypeOK
<1>6. /\ Standing(c, "spent")' = Standing(c, "spent") \cup {r}
      /\ Candidates(c)' = Candidates(c)
      /\ {q \in Routes : racer'[c][q] # "none"} = {q \in Routes : racer[c][q] # "none"}
  BY <1>1, <1>2, <1>5 DEF Standing, Candidates
<1>7. errors'[c] = Standing(c, "spent")'
  BY <1>3, <1>5, <1>6 DEF AtRace
<1>8. CASE Standing(c, "spent") \cup {r} = Candidates(c)
  <2>1. Ends(c, "exhausted")
    BY <1>2, <1>8
  <2>2. TypeOK'
    BY <1>1, <1>2, <1>4, <2>1 DEF Ends, Outcomes, Inv, TypeOK
  <2>3. errors'[c] = Candidates(c)'
    BY <1>6, <1>7, <1>8
  <2>4. \A q \in Routes : racer'[c][q] # "running"
    BY <1>3, <1>6, <1>8 DEF AtRace, Standing
  <2>5. at'[c] = "done" /\ outcome'[c] = "exhausted" /\ winner'[c] = 0
    BY <1>2, <1>3, <2>1 DEF Ends, AtRace, Inv, TypeOK
  <2>6. CallInv(c)'
    BY <2>3, <2>4, <2>5 DEF CallInv, Trying, Racing
  <2>7. \A d \in Calls \ {c} : Same(d)
    BY <1>2, <2>1 DEF Ends, Same, Inv, TypeOK
  <2> QED BY <2>2, <2>6, <2>7, InvKept
<1>9. CASE Standing(c, "spent") \cup {r} # Candidates(c)
  <2>1. UNCHANGED <<at, outcome>>
    BY <1>2, <1>9
  <2>2. TypeOK'
    BY <1>1, <1>2, <1>4, <2>1 DEF Inv, TypeOK
  <2>3. Racing(c)' /\ ~Trying(c)'
    BY <1>2, <2>1 DEF Racing, Trying, InTurn
  <2>4. AtRace(c)'
    BY <1>2, <1>3, <1>5, <1>6, <1>7 DEF AtRace
  <2>5. CallInv(c)'
    BY <1>3, <2>1, <2>3, <2>4 DEF CallInv
  <2>6. \A d \in Calls \ {c} : Same(d)
    BY <1>2, <2>1 DEF Same, Inv, TypeOK
  <2> QED BY <2>2, <2>5, <2>6, InvKept
<1> QED BY <1>8, <1>9

SpeaksFor(c) == at[c] = "speaking" /\ winner[c] \in Routes /\ voices[c] \subseteq {winner[c]}

LEMMA SpeakerFacts ==
  ASSUME Inv, NEW c \in Calls, at[c] = "speaking"
  PROVE  SpeaksFor(c) /\ outcome[c] = "none" /\ \A r \in Routes : racer[c][r] # "running"
BY DEF Inv, CallInv, SpeaksFor, Racing

LEMMA SpeakStep ==
  ASSUME Inv, NEW c \in Calls, Speak(c)
  PROVE  Inv'
<1>1. /\ at[c] = "speaking" /\ voices' = [voices EXCEPT ![c] = voices[c] \cup {winner[c]}]
      /\ UNCHANGED <<router, cooling, at, mode, cands, pos, errors, racer, arrived, winner, outcome>>
  BY DEF Speak, Says, choice, race
<1>2. SpeaksFor(c) /\ outcome[c] = "none" /\ \A r \in Routes : racer[c][r] # "running"
  BY <1>1, SpeakerFacts
<1>3. TypeOK'
  BY <1>1, <1>2 DEF SpeaksFor, Inv, TypeOK
<1>4. voices'[c] = voices[c] \cup {winner[c]}
  BY <1>1 DEF Inv, TypeOK
<1>5. CallInv(c)'
  BY <1>1, <1>2, <1>4 DEF CallInv, SpeaksFor, Trying, Racing
<1> QED BY <1>1, <1>3, <1>5, InvKept DEF Same, Inv, TypeOK

LEMMA EndStreamStep ==
  ASSUME Inv, NEW c \in Calls, EndStream(c)
  PROVE  Inv'
<1>1. SpeaksFor(c) /\ \A r \in Routes : racer[c][r] # "running"
  BY SpeakerFacts DEF EndStream
<1>2. TypeOK'
  BY <1>1 DEF SpeaksFor, EndStream, Says, Ends, Outcomes, choice, race, Inv, TypeOK
<1>3. CallInv(c)'
  BY <1>1, EndsWell DEF EndStream, race, Outcomes
<1>4. \A d \in Calls \ {c} : Same(d)
  BY DEF EndStream, Says, Ends, choice, race, Same, Inv, TypeOK
<1> QED BY <1>2, <1>3, <1>4, InvKept

LEMMA BreakStreamStep ==
  ASSUME Inv, NEW c \in Calls, BreakStream(c)
  PROVE  Inv'
<1>1. SpeaksFor(c) /\ \A r \in Routes : racer[c][r] # "running"
  BY SpeakerFacts DEF BreakStream
<1>2. TypeOK'
  BY DEF BreakStream, Ends, Outcomes, choice, race, Inv, TypeOK
<1>3. CallInv(c)'
  BY <1>1, EndsWell DEF BreakStream, race, Outcomes
<1>4. \A d \in Calls \ {c} : Same(d)
  BY DEF BreakStream, Ends, choice, race, Same, Inv, TypeOK
<1> QED BY <1>2, <1>3, <1>4, InvKept

-----------------------------------------------------------------------------

(* No call changes.                                                        *)
Rests == UNCHANGED <<router, at, choice, pos, errors, race, winner, voices, outcome>>

LEMMA RestStep ==
  ASSUME Inv, Rests, cooling' \subseteq Routes
  PROVE  Inv'
<1>1. TypeOK'
  BY DEF Rests, choice, race, Inv, TypeOK
<1>2. \A c \in Calls : Same(c)
  BY DEF Rests, choice, race, Same
<1> QED BY <1>1, <1>2, CallKept DEF Inv

LEMMA HealthStep ==
  ASSUME Inv, \/ \E r \in Routes : Expire(r)
              \/ \E R \in {Routes} \cup {{r} : r \in Routes} : ResetHealth(R)
              \/ UNCHANGED vars
  PROVE  Rests /\ cooling' \subseteq Routes
<1>1. Rests
  BY DEF Expire, ResetHealth, vars, Rests
<1>2. cooling \subseteq Routes
  BY DEF Inv, TypeOK
<1>3. cooling' \subseteq cooling
  BY DEF Expire, ResetHealth, vars
<1> QED BY <1>1, <1>2, <1>3

LEMMA InvStep == Inv /\ [Next]_vars => Inv'
<1> SUFFICES ASSUME Inv, [Next]_vars PROVE Inv'
  OBVIOUS
<1>1. ASSUME NEW c \in Calls, NEW m \in {"generate", "stream"}, Begin(c, m) PROVE Inv'
  BY <1>1, BeginStep
<1>2. ASSUME NEW c \in Calls, Cancel(c) PROVE Inv'
  BY <1>2, CancelStep
<1>3. ASSUME NEW c \in Calls, Chunk(c) \/ Succeed(c) PROVE Inv'
  BY <1>3, ChunkStep, SucceedStep
<1>4. ASSUME NEW c \in Calls, FailOver(c) \/ Raise(c) \/ FailAlone(c) PROVE Inv'
  BY <1>4, FailOverStep, RaiseStep, FailAloneStep
<1>5. ASSUME NEW c \in Calls, NEW r \in Routes, NEW good \in BOOLEAN, Reply(c, r, good) PROVE Inv'
  BY <1>5, ReplyStep
<1>6. ASSUME NEW c \in Calls, Settle(c) PROVE Inv'
  BY <1>6, CollectAnswerStep, CollectFailuresStep, TakeStreamStep, TakeFailureStep DEF Settle
<1>7. ASSUME NEW c \in Calls, Speak(c) \/ EndStream(c) \/ BreakStream(c) PROVE Inv'
  BY <1>7, SpeakStep, EndStreamStep, BreakStreamStep
<1>8. ASSUME \/ \E r \in Routes : Expire(r)
             \/ \E R \in {Routes} \cup {{r} : r \in Routes} : ResetHealth(R)
             \/ UNCHANGED vars
      PROVE  Inv'
  BY <1>8, HealthStep, RestStep
<1> QED BY <1>1, <1>2, <1>3, <1>4, <1>5, <1>6, <1>7, <1>8 DEF Next

LEMMA Invariance == Spec => []Inv
BY InvInit, InvStep, PTL DEF Spec

(* Every variable keeps its type, for any number of calls and routes: a    *)
(* call never looks past its last candidate, and the winner is a route.    *)
THEOREM RoutesTypeCorrect == Spec => []TypeOK
<1>1. Inv => TypeOK
  BY DEF Inv
<1> QED BY <1>1, Invariance, PTL

(* "All routes failed" is said only by a call whose every candidate failed *)
(* in that call, with no winner and nobody left running.                   *)
(* (generate, stream)                                                      *)
THEOREM ExhaustionIsTrue == Spec => []ExhaustedIsTrue
<1>1. Inv => ExhaustedIsTrue
  <2> SUFFICES ASSUME Inv, NEW c \in Calls, outcome[c] = "exhausted"
               PROVE  errors[c] = Candidates(c) /\ winner[c] = 0 /\ Standing(c, "running") = {}
    BY DEF ExhaustedIsTrue
  <2>1. CallInv(c)
    BY DEF Inv
  <2>2. at[c] = "done"
    BY <2>1 DEF CallInv, Inv, TypeOK
  <2>3. Standing(c, "running") = {}
    BY <2>1, <2>2 DEF CallInv, Standing, Racing
  <2> QED BY <2>1, <2>3 DEF CallInv
<1> QED BY <1>1, Invariance, PTL

-----------------------------------------------------------------------------
(* The refinement                                                          *)

Phase   == [c \in Calls |-> PhaseOf(c)]
Speaker == [c \in Calls |-> SpeakerOf(c)]

LEMMA PhaseFacts ==
  ASSUME NEW c \in Calls, at[c] # "done" => outcome[c] = "none"
  PROVE  /\ at[c] = "idle" => PhaseOf(c) = "new"
         /\ at[c] = "trying" \/ at[c] = "speaking" => PhaseOf(c) = "open"
         /\ at[c] = "done" /\ outcome[c] = "answered" => PhaseOf(c) = "answered"
         /\ at[c] = "done" /\ outcome[c] # "answered" => PhaseOf(c) = "failed"
<1>1. ASSUME at[c] = "idle" PROVE PhaseOf(c) = "new"
  BY <1>1 DEF PhaseOf
<1>2. ASSUME at[c] = "trying" \/ at[c] = "speaking" PROVE PhaseOf(c) = "open"
  <2>1. at[c] # "idle" /\ at[c] \in {"trying", "speaking"} /\ outcome[c] # "answered"
    BY <1>2
  <2> QED BY <2>1 DEF PhaseOf
<1>3. ASSUME at[c] = "done" PROVE PhaseOf(c) = IF outcome[c] = "answered" THEN "answered" ELSE "failed"
  BY <1>3 DEF PhaseOf
<1> QED BY <1>1, <1>2, <1>3

LEMMA PhaseOpen ==
  ASSUME Inv, NEW c \in Calls, at[c] \in {"trying", "speaking"}
  PROVE  PhaseOf(c) = "open"
BY PhaseFacts DEF Inv, CallInv

LEMMA SpeakerIs ==
  ASSUME NEW c \in Calls
  PROVE  /\ voices[c] = {} => SpeakerOf(c) = 0
         /\ \A r \in Routes : voices[c] = {r} => SpeakerOf(c) = r
         /\ \A r \in Routes : voices[c] \subseteq {r} => SpeakerOf(c) \in {0, r}
<1>1. voices[c] = {} => SpeakerOf(c) = 0
  BY DEF SpeakerOf
<1>2. ASSUME NEW r \in Routes, voices[c] = {r} PROVE SpeakerOf(c) = r
  <2>1. \A q \in Routes : voices[c] = {q} <=> q = r
    BY <1>2
  <2>2. (CHOOSE q \in Routes : voices[c] = {q}) = r
    BY <2>1
  <2> QED BY <1>2, <2>2 DEF SpeakerOf
<1>3. ASSUME NEW r \in Routes, voices[c] \subseteq {r} PROVE SpeakerOf(c) \in {0, r}
  <2>1. voices[c] = {} \/ voices[c] = {r}
    BY <1>3
  <2> QED BY <1>1, <1>2, <2>1
<1> QED BY <1>1, <1>2, <1>3

(* A step of one call moves its phase and its speaker only.                *)
LEMMA ViewMoves ==
  ASSUME NEW c \in Calls, \A d \in Calls \ {c} : Same(d)
  PROVE  /\ Phase' = [Phase EXCEPT ![c] = PhaseOf(c)']
         /\ Speaker' = [Speaker EXCEPT ![c] = SpeakerOf(c)']
<1>1. \A d \in Calls \ {c} : PhaseOf(d)' = PhaseOf(d) /\ SpeakerOf(d)' = SpeakerOf(d)
  BY DEF Same, PhaseOf, SpeakerOf
<1> QED BY <1>1 DEF Phase, Speaker

LEMMA SpeakerStays ==
  ASSUME NEW c \in Calls, voices'[c] = voices[c]
  PROVE  SpeakerOf(c)' = SpeakerOf(c)
BY DEF SpeakerOf

LEMMA ContractInit == Init => Contract!Init
<1> SUFFICES ASSUME Init PROVE Contract!Init
  OBVIOUS
<1>1. ASSUME NEW c \in Calls PROVE PhaseOf(c) = "new" /\ SpeakerOf(c) = 0
  BY PhaseFacts, SpeakerIs DEF Init
<1> QED BY <1>1 DEF Init, Contract!Init

(* The four ways a call is seen to move, and one in which it is not.       *)
LEMMA SeenToFail ==
  ASSUME Inv, NEW c \in Calls, at[c] \in {"trying", "speaking"}, voices'[c] = voices[c],
         NEW o \in Outcomes \ {"answered"}, Ends(c, o), \A d \in Calls \ {c} : Same(d)
  PROVE  Contract!Fail(c)
<1>1. at'[c] = "done" /\ outcome'[c] # "answered"
  BY DEF Ends, Inv, TypeOK
<1>2. PhaseOf(c) = "open" /\ PhaseOf(c)' = "failed" /\ SpeakerOf(c)' = SpeakerOf(c)
  BY <1>1, PhaseOpen, SpeakerStays DEF PhaseOf
<1>3. Speaker' = Speaker
  BY <1>2, ViewMoves DEF Speaker
<1> QED BY <1>2, <1>3, ViewMoves DEF Contract!Fail, Phase, Speaker

LEMMA SeenToAnswer ==
  ASSUME Inv, NEW c \in Calls, at[c] \in {"trying", "speaking"},
         NEW r \in Routes, voices[c] \subseteq {r}, Says(c, r),
         Ends(c, "answered"), \A d \in Calls \ {c} : Same(d)
  PROVE  Contract!Answer(c, r)
<1>1. at'[c] = "done" /\ outcome'[c] = "answered" /\ voices'[c] = {r}
  BY DEF Ends, Says, Inv, TypeOK
<1>2. PhaseOf(c) = "open" /\ PhaseOf(c)' = "answered"
  BY <1>1, PhaseOpen DEF PhaseOf
<1>3. SpeakerOf(c) \in {0, r} /\ SpeakerOf(c)' = r
  <2>1. \E q \in Routes : voices'[c] = {q}
    BY <1>1
  <2>2. (CHOOSE q \in Routes : voices'[c] = {q}) = r
    BY <1>1
  <2> QED BY <1>1, <2>1, <2>2, SpeakerIs DEF SpeakerOf
<1> QED BY <1>2, <1>3, ViewMoves DEF Contract!Answer, Contract!Hears, Phase, Speaker

LEMMA SeenToHear ==
  ASSUME Inv, NEW c \in Calls, at[c] \in {"trying", "speaking"}, at' = at, outcome' = outcome,
         NEW r \in Routes, voices[c] \subseteq {r}, Says(c, r), \A d \in Calls \ {c} : Same(d)
  PROVE  Contract!Hear(c, r)
<1>1. voices'[c] = {r}
  BY DEF Says, Inv, TypeOK
<1>2. PhaseOf(c) = "open" /\ PhaseOf(c)' = PhaseOf(c)
  BY PhaseOpen DEF PhaseOf
<1>3. SpeakerOf(c) \in {0, r} /\ SpeakerOf(c)' = r
  <2>1. \E q \in Routes : voices'[c] = {q}
    BY <1>1
  <2>2. (CHOOSE q \in Routes : voices'[c] = {q}) = r
    BY <1>1
  <2> QED BY <1>1, <2>1, <2>2, SpeakerIs DEF SpeakerOf
<1>4. Phase' = Phase
  BY <1>2, ViewMoves DEF Phase
<1> QED BY <1>2, <1>3, <1>4, ViewMoves DEF Contract!Hear, Contract!Hears, Phase, Speaker

LEMMA NotSeen ==
  ASSUME NEW c \in Calls, PhaseOf(c)' = PhaseOf(c), voices' = voices,
         \A d \in Calls \ {c} : Same(d)
  PROVE  UNCHANGED Contract!vars
<1>1. Phase' = Phase /\ Speaker' = Speaker
  BY ViewMoves, SpeakerStays DEF Phase, Speaker
<1> QED BY <1>1 DEF Contract!vars, Phase, Speaker

-----------------------------------------------------------------------------

Seen(c) ==
  \/ Contract!Open(c) \/ Contract!Fail(c)
  \/ \E r \in Routes : Contract!Hear(c, r) \/ Contract!Answer(c, r)
  \/ UNCHANGED Contract!vars

LEMMA BeginSeen ==
  ASSUME Inv, NEW c \in Calls, NEW m \in {"generate", "stream"}, Begin(c, m)
  PROVE  Contract!Open(c)
<1>1. /\ at[c] = "idle" /\ at'[c] = "trying" /\ UNCHANGED <<voices, outcome>>
      /\ \A d \in Calls \ {c} : Same(d)
  BY DEF Begin, Same, Inv, TypeOK
<1>2. outcome[c] = "none" /\ PhaseOf(c) = "new"
  BY <1>1, PhaseFacts DEF Inv, CallInv
<1>3. PhaseOf(c)' = "open"
  BY <1>1, <1>2 DEF PhaseOf
<1>4. Speaker' = Speaker
  BY <1>1, ViewMoves, SpeakerStays DEF Speaker
<1> QED BY <1>1, <1>2, <1>3, <1>4, ViewMoves DEF Contract!Open, Phase, Speaker

LEMMA TurnSeen ==
  ASSUME Inv, NEW c \in Calls, Chunk(c) \/ Succeed(c) \/ FailOver(c) \/ Raise(c) \/ FailAlone(c)
  PROVE  Seen(c)
<1>1. /\ Trying(c) /\ at[c] = "trying" /\ Current(c) \in Routes
      /\ voices[c] \subseteq {Current(c)}
  BY CurrentIsRoute DEF Chunk, Succeed, FailOver, Raise, FailAlone, Trying, AtCandidate
<1>2. \A d \in Calls \ {c} : Same(d)
  BY DEF Chunk, Succeed, FailOver, Raise, FailAlone, Says, Ends, Errs, choice, race,
         Same, Inv, TypeOK
<1>3. CASE Chunk(c)
  BY <1>1, <1>2, <1>3, SeenToHear DEF Chunk, Seen
<1>4. CASE Succeed(c)
  BY <1>1, <1>2, <1>4, SeenToAnswer DEF Succeed, Seen
<1>5. CASE Raise(c)
  <2>1. PICK o \in {"broken", "refused"} : Ends(c, o)
    BY <1>5 DEF Raise
  <2> QED BY <1>1, <1>2, <1>5, <2>1, SeenToFail DEF Raise, Outcomes, Seen
<1>6. CASE FailAlone(c)
  BY <1>1, <1>2, <1>6, SeenToFail DEF FailAlone, Outcomes, Seen
<1>7. CASE FailOver(c)
  <2>1. CASE Ends(c, "exhausted")
    BY <1>1, <1>2, <1>7, <2>1, SeenToFail DEF FailOver, Outcomes, Seen
  <2>2. CASE UNCHANGED <<at, outcome>>
    BY <1>2, <1>7, <2>2, NotSeen DEF FailOver, PhaseOf, Seen
  <2> QED BY <1>7, <2>1, <2>2 DEF FailOver
<1> QED BY <1>3, <1>4, <1>5, <1>6, <1>7

LEMMA RaceSeen ==
  ASSUME Inv, NEW c \in Calls,
         Settle(c) \/ \E r \in Routes, good \in BOOLEAN : Reply(c, r, good)
  PROVE  Seen(c)
<1>1. ASSUME NEW w \in Routes, NEW F \in SUBSET Routes, CollectAnswer(c, w, F) PROVE Seen(c)
  <2>1. at[c] = "trying" /\ voices[c] \subseteq {w}
    BY <1>1, RaceFacts DEF CollectAnswer, AtRace
  <2>2. \A d \in Calls \ {c} : Same(d)
    BY <1>1 DEF CollectAnswer, Says, Ends, CallOff, choice, Same, Inv, TypeOK
  <2> QED BY <1>1, <2>1, <2>2, SeenToAnswer DEF CollectAnswer, Seen
<1>2. ASSUME CollectFailures(c) \/ TakeFailure(c) PROVE Seen(c)
  <2>1. at[c] = "trying" /\ voices' = voices
    BY <1>2, RaceFacts DEF CollectFailures, TakeFailure
  <2>2. \A d \in Calls \ {c} : Same(d)
    BY <1>2 DEF CollectFailures, TakeFailure, Ends, choice, Same, Inv, TypeOK
  <2>3. CASE Ends(c, "exhausted")
    BY <2>1, <2>2, <2>3, SeenToFail DEF Outcomes, Seen
  <2>4. CASE UNCHANGED <<at, outcome>>
    BY <2>1, <2>2, <2>4, NotSeen DEF PhaseOf, Seen
  <2> QED BY <1>2, <2>3, <2>4 DEF CollectFailures, TakeFailure
<1>3. ASSUME TakeStream(c) PROVE Seen(c)
  <2>1. /\ at[c] = "trying" /\ at'[c] = "speaking" /\ outcome[c] = "none"
        /\ UNCHANGED <<voices, outcome>>
    BY <1>3, RaceFacts DEF TakeStream, Inv, TypeOK
  <2>2. \A d \in Calls \ {c} : Same(d)
    BY <1>3 DEF TakeStream, CallOff, choice, Same, Inv, TypeOK
  <2>3. PhaseOf(c) = "open" /\ PhaseOf(c)' = "open"
    BY <2>1, PhaseOpen DEF PhaseOf
  <2> QED BY <2>1, <2>2, <2>3, NotSeen DEF Seen
<1>4. ASSUME NEW r \in Routes, NEW good \in BOOLEAN, Reply(c, r, good) PROVE Seen(c)
  <2>1. UNCHANGED <<at, outcome, voices>> /\ \A d \in Calls \ {c} : Same(d)
    BY <1>4 DEF Reply, choice, Same, Inv, TypeOK
  <2> QED BY <2>1, NotSeen DEF PhaseOf, Seen
<1> QED BY <1>1, <1>2, <1>3, <1>4 DEF Settle

LEMMA SpeechSeen ==
  ASSUME Inv, NEW c \in Calls, Speak(c) \/ EndStream(c) \/ BreakStream(c)
  PROVE  Seen(c)
<1>1. at[c] = "speaking" /\ winner[c] \in Routes /\ voices[c] \subseteq {winner[c]}
  BY SpeakerFacts DEF Speak, EndStream, BreakStream, SpeaksFor
<1>2. \A d \in Calls \ {c} : Same(d)
  BY DEF Speak, EndStream, BreakStream, Says, Ends, choice, race, Same, Inv, TypeOK
<1>3. CASE Speak(c)
  BY <1>1, <1>2, <1>3, SeenToHear DEF Speak, Seen
<1>4. CASE EndStream(c)
  BY <1>1, <1>2, <1>4, SeenToAnswer DEF EndStream, Seen
<1>5. CASE BreakStream(c)
  BY <1>1, <1>2, <1>5, SeenToFail DEF BreakStream, Outcomes, Seen
<1> QED BY <1>3, <1>4, <1>5

LEMMA CancelSeen ==
  ASSUME Inv, NEW c \in Calls, Cancel(c)
  PROVE  Contract!Fail(c)
<1>1. \A d \in Calls \ {c} : Same(d)
  BY DEF Cancel, Ends, CallOff, Same, choice, Inv, TypeOK
<1> QED BY <1>1, SeenToFail DEF Cancel, Outcomes

LEMMA ContractStep == Inv /\ [Next]_vars => [Contract!Next]_(Contract!vars)
<1> SUFFICES ASSUME Inv, [Next]_vars
             PROVE  Contract!Next \/ UNCHANGED Contract!vars
  OBVIOUS
<1>1. ASSUME NEW c \in Calls, Seen(c) PROVE Contract!Next \/ UNCHANGED Contract!vars
  BY <1>1 DEF Seen, Contract!Next
<1>2. ASSUME NEW c \in Calls, NEW m \in {"generate", "stream"}, Begin(c, m) PROVE Seen(c)
  BY <1>2, BeginSeen DEF Seen
<1>3. ASSUME NEW c \in Calls, Cancel(c) PROVE Seen(c)
  BY <1>3, CancelSeen DEF Seen
<1>4. CASE \/ \E r \in Routes : Expire(r)
           \/ \E R \in {Routes} \cup {{r} : r \in Routes} : ResetHealth(R)
           \/ UNCHANGED vars
  <2>1. UNCHANGED <<at, outcome, voices>>
    BY <1>4, HealthStep DEF Rests
  <2>2. \A c \in Calls : PhaseOf(c)' = PhaseOf(c) /\ SpeakerOf(c)' = SpeakerOf(c)
    BY <2>1 DEF PhaseOf, SpeakerOf
  <2> QED BY <2>2 DEF Contract!vars
<1> QED BY <1>1, <1>2, <1>3, <1>4, TurnSeen, RaceSeen, SpeechSeen DEF Next

(* All three routers look like one provider to their caller, for any       *)
(* number of calls and routes: the output never mixes two routes.          *)
(* (generate, stream)                                                      *)
THEOREM RoutersKeepContract == Spec => KeepsContract
BY Invariance, ContractInit, ContractStep, PTL DEF Spec, KeepsContract, Contract!Spec
=============================================================================
