------------------------- MODULE OAuthRefreshProofs -------------------------
(***************************************************************************)
(* Renewal of credentials, for any number of processes, providers, calls   *)
(* and attempts: types, and the four safety properties of OAuthRefresh.    *)
(***************************************************************************)
EXTENDS OAuthRefresh, TLAPS

LEMMA TypeInit == Init => TypeOK
<1> SUFFICES ASSUME Init PROVE TypeOK
  OBVIOUS
<1>1. NoCredential \in Credential /\ [access |-> 1, refresh |-> 1] \in Credential
      /\ Stage("none") \in Exchange
  BY DEF NoCredential, Credential, Stage, Exchange
<1>2. file \in [Providers -> Credential] /\ cred \in [Tasks -> Credential]
      /\ copy \in [Tasks -> [Providers -> Credential]] /\ exchange \in [Tasks -> Exchange]
  BY <1>1 DEF Init, NoEntries
<1>3. tries \in [Tasks -> 0 .. Attempts]
  BY AttemptsAssumption DEF Init
<1> QED BY <1>2, <1>3 DEF Init, TypeOK

LEMMA StageType ==
  ASSUME NEW s \in {"none", "sent", "refused", "granted"}
  PROVE  Stage(s) \in Exchange /\ Stage(s).stage = s
BY DEF Stage, Exchange

(* The vendor grants: the last token is a new one.                         *)
LEMMA GrantType ==
  ASSUME TypeOK, NEW p \in Providers, NEW rotate \in BOOLEAN, Grant(p, rotate)
  PROVE  /\ issued' \in [Providers -> Nat] /\ valid' \in [Providers -> Nat]
         /\ issued' = [issued EXCEPT ![p] = issued[p] + 1]
         /\ issued'[p] = issued[p] + 1
         /\ valid' = [valid EXCEPT ![p] = IF rotate THEN issued[p] + 1 ELSE valid[p]]
         /\ expired' = expired
BY DEF TypeOK, Grant

LEMMA RetryType ==
  ASSUME TypeOK, NEW t \in Tasks, Retry(t)
  PROVE  /\ tries' \in [Tasks -> 0 .. Attempts]
         /\ exchange' \in [Tasks -> Exchange]
         /\ at' \in [Tasks -> Holding \cup {"idle", "locking", "done"}]
         /\ result' \in [Tasks -> {"none", "fresh", "reauth", "missing", "abandoned"}]
<1>1. CASE tries[t] < Attempts
  <2>1. tries[t] + 1 \in 0 .. Attempts
    BY <1>1, AttemptsAssumption DEF TypeOK
  <2>2. /\ tries' = [tries EXCEPT ![t] = tries[t] + 1]
        /\ exchange' = [exchange EXCEPT ![t] = Stage("sent")]
        /\ at' = [at EXCEPT ![t] = "exchanging"] /\ result' = result
    BY <1>1 DEF Retry
  <2> QED BY <2>1, <2>2, StageType DEF TypeOK, Holding
<1>2. CASE ~(tries[t] < Attempts)
  BY <1>2, StageType DEF TypeOK, Retry, Finish
<1> QED BY <1>1, <1>2

LEMMA DropType ==
  ASSUME TypeOK, NEW T \in SUBSET Tasks, Drop(T)
  PROVE  strays' \subseteq Providers \X Nat /\ mishaps' \subseteq Providers
<1>1. \A t \in T : account[t] \in Providers /\ cred[t].refresh \in Nat
  BY DEF TypeOK, Credential
<1> QED BY <1>1 DEF TypeOK, Drop

LEMMA MappedType ==
  ASSUME TypeOK, NEW t \in Tasks
  PROVE  Mapped(t) \in Credential
BY DEF TypeOK, Mapped, Credential, Exchange

LEMMA TypeVendor ==
  ASSUME TypeOK,
         \/ \E t \in Tasks, rotate \in BOOLEAN : Serve(t, rotate)
         \/ \E s \in strays, rotate \in BOOLEAN : ServeStray(s[1], s[2], rotate)
         \/ \E p \in Providers : Expire(p)
  PROVE  TypeOK'
<1>1. ASSUME NEW t \in Tasks, NEW rotate \in BOOLEAN, Serve(t, rotate) PROVE TypeOK'
  <2> DEFINE p == account[t]
  <2>1. p \in Providers
    BY DEF TypeOK
  <2>2. CASE cred[t].refresh = valid[p]
    <3>1. Grant(p, rotate) /\ exchange' = [exchange EXCEPT ![t] =
            [stage |-> "granted", access |-> issued'[p],
             refresh |-> IF rotate THEN issued'[p] ELSE 0]]
      BY <1>1, <2>2 DEF Serve
    <3>2. issued'[p] \in Nat
      BY <2>1, <3>1, GrantType DEF TypeOK
    <3>3. [stage |-> "granted", access |-> issued'[p],
           refresh |-> IF rotate THEN issued'[p] ELSE 0] \in Exchange
      BY <3>2 DEF Exchange
    <3>4. exchange' \in [Tasks -> Exchange]
      BY <3>1, <3>3 DEF TypeOK
    <3>5. /\ issued' \in [Providers -> Nat] /\ valid' \in [Providers -> Nat] /\ expired' = expired
      BY <2>1, <3>1, GrantType
    <3> QED BY <1>1, <3>4, <3>5 DEF Serve, TypeOK
  <2>3. CASE cred[t].refresh # valid[p]
    <3>1. exchange' \in [Tasks -> Exchange]
      BY <1>1, <2>3, StageType DEF Serve, TypeOK
    <3> QED BY <1>1, <2>3, <3>1 DEF Serve, TypeOK
  <2> QED BY <2>2, <2>3
<1>2. ASSUME NEW s \in strays, NEW rotate \in BOOLEAN, ServeStray(s[1], s[2], rotate)
      PROVE  TypeOK'
  <2>1. s[1] \in Providers
    BY DEF TypeOK
  <2>2. /\ issued' \in [Providers -> Nat] /\ valid' \in [Providers -> Nat] /\ expired' = expired
    BY <1>2, <2>1, GrantType DEF ServeStray, TypeOK
  <2> QED BY <1>2, <2>2 DEF ServeStray, TypeOK, call
<1>3. ASSUME NEW p \in Providers, Expire(p) PROVE TypeOK'
  BY <1>3 DEF Expire, TypeOK, call
<1> QED BY <1>1, <1>2, <1>3

LEMMA TypeCall ==
  ASSUME TypeOK, NEW t \in Tasks, Step(t)
  PROVE  TypeOK'
<1>1. ASSUME NEW force \in BOOLEAN, Call(t, force) PROVE TypeOK'
  BY <1>1 DEF Call, TypeOK, vendor
<1>2. CASE FindNothing(t) \/ ReturnStored(t)
  <2>1. misread' \subseteq Providers
    BY <1>2 DEF FindNothing, ReturnStored, TypeOK
  <2> QED BY <1>2, <2>1 DEF FindNothing, ReturnStored, Finish, TypeOK, vendor
<1>3. CASE Begin(t)
  BY <1>3, StageType, AttemptsAssumption DEF Begin, TypeOK, vendor, Holding
<1>4. CASE Refused(t)
  BY <1>4, RetryType DEF Refused, TypeOK, vendor
<1>5. CASE Lose(t) \/ WriteFails(t)
  <2>1. Drop({t}) /\ Retry(t)
    BY <1>5 DEF Lose, WriteFails
  <2>2. strays' \subseteq Providers \X Nat /\ mishaps' \subseteq Providers
    BY <2>1, DropType
  <2> QED BY <1>5, <2>1, <2>2, RetryType DEF Lose, WriteFails, TypeOK
<1>6. CASE Load(t)
  <2>1. NoEntries \in [Providers -> Credential]
    BY DEF NoEntries, NoCredential, Credential
  <2>2. copy' \in [Tasks -> [Providers -> Credential]] /\ misread' \subseteq Providers
    BY <1>6, <2>1 DEF Load, TypeOK
  <2> QED BY <1>6, <2>2 DEF Load, TypeOK, vendor, Holding
<1>7. CASE Write(t)
  <2>1. file' \in [Providers -> Credential] /\ cred' \in [Tasks -> Credential]
    BY <1>7, MappedType DEF Write, TypeOK
  <2> QED BY <1>7, <2>1, StageType DEF Write, Finish, TypeOK, vendor
<1>8. CASE Cancel(t)
  <2>1. strays' \subseteq Providers \X Nat /\ mishaps' \subseteq Providers
    BY <1>8, DropType DEF Cancel, TypeOK
  <2> QED BY <1>8, <2>1, StageType DEF Cancel, Finish, TypeOK
<1> QED BY <1>1, <1>2, <1>3, <1>4, <1>5, <1>6, <1>7, <1>8 DEF Step

LEMMA TypeStep == TypeOK /\ [Next]_vars => TypeOK'
<1> SUFFICES ASSUME TypeOK, [Next]_vars PROVE TypeOK'
  OBVIOUS
<1>1. ASSUME NEW h \in Processes, Crash(h) PROVE TypeOK'
  <2> DEFINE alive == {t \in Tasks : home[t] = h /\ at[t] \in Holding \cup {"locking"}}
  <2>1. Drop({t \in alive : at[t] \in Holding})
    BY <1>1 DEF Crash
  <2>2. strays' \subseteq Providers \X Nat /\ mishaps' \subseteq Providers
    BY <2>1, DropType
  <2>3. exchange' \in [Tasks -> Exchange]
    BY <1>1, StageType DEF Crash, TypeOK
  <2> QED BY <1>1, <2>2, <2>3 DEF Crash, TypeOK
<1>2. CASE UNCHANGED vars
  BY <1>2 DEF TypeOK, vars, vendor, call
<1> QED BY <1>1, <1>2, TypeVendor, TypeCall DEF Next

(* Every variable of the renewal keeps its type.                           *)
THEOREM RefreshTypeCorrect == Spec => []TypeOK
BY TypeInit, TypeStep, PTL DEF Spec

-----------------------------------------------------------------------------
(* The inductive invariant.                                                *)

Active(t) == at[t] \in Holding

(* Two calls inside the lock differ in process or provider, only one of a  *)
(* process is in put(), and they are of one process unless it was noted:   *)
(* then put() writes back what the file still holds, or could not read it. *)
Locks ==
  /\ \A t, u \in Tasks : t # u /\ Active(t) /\ Active(u) /\ home[t] = home[u] =>
       account[t] # account[u] /\ ~(at[t] = "storing" /\ at[u] = "storing")
  /\ ~overlap => \A t, u \in Tasks : Active(t) /\ Active(u) => home[t] = home[u]
  /\ ~overlap => \A t \in Tasks : at[t] = "storing" => copy[t] \in {file, NoEntries}

(* Where a call stands tells what it has.                                  *)
Stages == \A t \in Tasks :
  /\ Active(t) <=> exchange[t].stage # "none"
  /\ at[t] = "storing" => exchange[t].stage = "granted"
  /\ result[t] # "none" => at[t] = "done"
  /\ at[t] = "idle" => ~forced[t]

(* A call knows of no expiry that has not been, and what it is granted, or *)
(* returns, is younger.                                                    *)
Young ==
  /\ \A p \in Providers : expired[p] <= issued[p]
  /\ \A t \in Tasks :
       /\ seen[t] <= expired[account[t]]
       /\ exchange[t].stage = "granted" => exchange[t].access > seen[t]
       /\ result[t] = "fresh" => cred[t].access > seen[t]

(* The call that holds p's lock has the refresh token the vendor accepts,  *)
(* and without force it renews a token that has expired.                   *)
Holds(t, p) ==
  /\ exchange[t].stage = "sent" => cred[t].refresh = valid[p]
  /\ exchange[t].stage \in {"sent", "granted"}
  /\ exchange[t].stage = "granted" =>
       Mapped(t).refresh = valid[p] /\ exchange[t].access = issued[p]
  /\ exchange[t].stage = "sent" /\ ~forced[t] => issued[p] <= expired[p]

Settled(p) ==
  /\ ~InHand(p) => \/ file[p].refresh = valid[p] /\ file[p].access = issued[p]
                   \/ file[p] = NoCredential
  /\ \A t \in Tasks : account[t] = p =>
       (Active(t) => Holds(t, p)) /\ result[t] # "reauth"
  /\ (\A t \in Tasks : account[t] = p => ~forced[t]) => issued[p] <= expired[p] + 1

Sound(p) == Undisturbed(p) => Settled(p)

Noted == \A s \in strays : s[1] \in mishaps

IInv ==
  /\ Locks
  /\ Stages
  /\ Young
  /\ Noted
  /\ \A p \in Providers : Sound(p)

LEMMA IInit == Init => IInv
<1> SUFFICES ASSUME Init PROVE IInv
  OBVIOUS
<1>1. \A t \in Tasks : ~Active(t) /\ exchange[t].stage = "none"
  BY StageType DEF Init, Active, Holding
<1>2. Locks /\ Stages /\ Noted
  BY <1>1 DEF Init, Locks, Stages, Noted
<1>3. \A t \in Tasks : account[t] \in Providers
  BY DEF Init
<1>4. Young
  BY <1>1, <1>3 DEF Init, Young
<1>5. ASSUME NEW p \in Providers PROVE Sound(p)
  BY <1>1 DEF Init, Sound, Settled
<1> QED BY <1>2, <1>4, <1>5 DEF IInv

(* Nobody enters the lock, or put().                                       *)
LEMMA LocksKept ==
  ASSUME Locks, UNCHANGED <<home, account, overlap>>,
         \A t \in Tasks : /\ Active(t)' => Active(t)
                          /\ at'[t] = "storing" =>
                               /\ at[t] = "storing"
                               /\ copy[t] \in {file, NoEntries} => copy'[t] \in {file', NoEntries}
  PROVE  Locks'
BY DEF Locks

(* p's part of the state is left alone.                                    *)
LEMMA SettledKept ==
  ASSUME TypeOK, NEW p \in Providers, Settled(p), account' = account,
         file'[p] \in {file[p], NoCredential}, valid'[p] = valid[p], issued'[p] = issued[p],
         expired'[p] \in Nat, expired[p] <= expired'[p],
         \A t \in Tasks : account[t] = p =>
           /\ Active(t)' <=> Active(t)
           /\ Active(t) =>
                /\ at'[t] = at[t] /\ cred'[t] = cred[t] /\ exchange'[t] = exchange[t]
                /\ forced'[t] = forced[t]
           /\ forced[t] => forced'[t]
           /\ result'[t] = "reauth" => result[t] = "reauth"
  PROVE  Settled(p)'
<1>1. issued[p] \in Nat /\ expired[p] \in Nat
  BY DEF TypeOK
<1>2. InHand(p)' <=> InHand(p)
  BY DEF InHand, Active
<1>3. ASSUME NEW t \in Tasks, account[t] = p, Active(t)' PROVE Holds(t, p)'
  <2>1. Holds(t, p) /\ Active(t)
    BY <1>3 DEF Settled
  <2>2. Mapped(t)' = Mapped(t)
    BY <1>3, <2>1 DEF Mapped
  <2> QED BY <1>1, <1>3, <2>1, <2>2 DEF Holds
<1>4. (\A t \in Tasks : account[t] = p => ~forced'[t]) => issued'[p] <= expired'[p] + 1
  <2>1. SUFFICES ASSUME \A t \in Tasks : account[t] = p => ~forced'[t]
                 PROVE  issued[p] <= expired'[p] + 1
    OBVIOUS
  <2>2. issued[p] <= expired[p] + 1
    BY <2>1 DEF Settled
  <2> QED BY <1>1, <2>2
<1>5. \A t \in Tasks : account[t] = p => result'[t] # "reauth"
  BY DEF Settled
<1> QED BY <1>2, <1>3, <1>4, <1>5 DEF Settled

-----------------------------------------------------------------------------
(* The steps of the vendor                                                 *)

(* Without overlap, the holder of a provider's lock is the only one.       *)
LEMMA OneHolder ==
  ASSUME Locks, ~overlap, NEW t \in Tasks, NEW u \in Tasks,
         Active(t), Active(u), account[t] = account[u]
  PROVE  t = u
BY DEF Locks

LEMMA ServeStep ==
  ASSUME TypeOK, IInv, NEW t \in Tasks, NEW rotate \in BOOLEAN, Serve(t, rotate)
  PROVE  IInv'
<1> DEFINE p == account[t]
<1>1. /\ exchange[t].stage = "sent" /\ Active(t) /\ p \in Providers
      /\ UNCHANGED <<home, account, file, misread, strays, at, forced, seen, cred, tries,
                     copy, result, mishaps, overlap>>
      /\ \A u \in Tasks \ {t} : exchange'[u] = exchange[u]
  BY DEF Serve, TypeOK, IInv, Stages
<1>2. at[t] = "exchanging"
  BY <1>1 DEF IInv, Stages, Active, Holding
<1>3. CASE cred[t].refresh = valid[p]
  <2>1. Grant(p, rotate)
    BY <1>3 DEF Serve
  <2>2. /\ issued'[p] = issued[p] + 1 /\ expired' = expired
        /\ valid'[p] = (IF rotate THEN issued[p] + 1 ELSE valid[p])
        /\ \A q \in Providers \ {p} : issued'[q] = issued[q] /\ valid'[q] = valid[q]
    BY <1>1, <2>1, GrantType DEF TypeOK
  <2>3. exchange'[t] = [stage |-> "granted", access |-> issued[p] + 1,
                        refresh |-> IF rotate THEN issued[p] + 1 ELSE 0]
    BY <1>3, <2>2 DEF Serve, TypeOK
  <2>4. issued[p] \in Nat /\ expired[p] \in Nat /\ seen[t] \in Nat
    BY <1>1 DEF TypeOK
  <2>5. Locks' /\ Stages' /\ Noted'
    BY <1>1, <1>2, <2>3 DEF IInv, Locks, Stages, Noted, Active
  <2>6. Young'
    <3>1. \A q \in Providers : expired'[q] <= issued'[q]
      BY <2>2, <2>4 DEF IInv, Young
    <3>2. issued[p] + 1 > seen[t]
      BY <1>1, <2>4 DEF IInv, Young
    <3> QED BY <1>1, <2>2, <2>3, <3>1, <3>2 DEF IInv, Young
  <2>7. ASSUME NEW q \in Providers, Undisturbed(q)' PROVE Settled(q)'
    <3>1. Settled(q) /\ ~overlap
      BY <1>1, <2>7 DEF IInv, Sound, Undisturbed
    <3>2. CASE q # p
      BY <1>1, <2>2, <3>1, <3>2, SettledKept DEF TypeOK, Active
    <3>3. CASE q = p
      <4>1. \A u \in Tasks : Active(u) /\ account[u] = p => u = t
        BY <1>1, <3>1, OneHolder DEF IInv
      <4>2. Holds(t, p)
        BY <1>1, <3>1, <3>3 DEF Settled
      <4>3. InHand(p)'
        BY <1>1, <2>3 DEF InHand, Active
      <4>4. Mapped(t)'.refresh = valid'[p] /\ exchange'[t].access = issued'[p]
        BY <1>1, <1>3, <2>2, <2>3, <2>4 DEF Mapped
      <4>5. Holds(t, p)'
        BY <1>1, <1>2, <2>3, <4>2, <4>4 DEF Holds
      <4>6. (\A u \in Tasks : account[u] = p => ~forced[u]) => issued'[p] <= expired'[p] + 1
        BY <1>1, <2>2, <2>4, <4>2 DEF Holds
      <4>7. \A u \in Tasks : account[u] = p => result[u] # "reauth"
        BY <3>1, <3>3 DEF Settled
      <4> QED BY <1>1, <3>3, <4>1, <4>3, <4>5, <4>6, <4>7 DEF Settled, Active
    <3> QED BY <3>2, <3>3
  <2> QED BY <2>5, <2>6, <2>7 DEF IInv, Sound
<1>4. CASE cred[t].refresh # valid[p]
  <2>1. UNCHANGED <<issued, valid, expired>> /\ exchange'[t] = Stage("refused")
    BY <1>4 DEF Serve, TypeOK
  <2>2. Locks' /\ Stages' /\ Noted' /\ Young'
    BY <1>1, <1>2, <2>1, StageType DEF IInv, Locks, Stages, Noted, Young, Active
  <2>3. ASSUME NEW q \in Providers, Undisturbed(q)' PROVE Settled(q)'
    <3>1. Settled(q) /\ ~overlap
      BY <1>1, <2>3 DEF IInv, Sound, Undisturbed
    <3>2. CASE q # p
      <4>1. expired[q] \in Nat /\ account' = account
        BY <1>1 DEF TypeOK
      <4> QED BY <1>1, <2>1, <3>1, <3>2, <4>1, SettledKept DEF Active
    <3>3. CASE q = p
      <4>1. \A u \in Tasks : Active(u) /\ account[u] = p => u = t
        BY <1>1, <3>1, OneHolder DEF IInv
      <4>2. cred[t].refresh = valid[p]
        BY <1>1, <3>1, <3>3 DEF Settled, Holds
      <4> QED BY <1>4, <4>2
    <3> QED BY <3>2, <3>3
  <2> QED BY <2>2, <2>3 DEF IInv, Sound
<1> QED BY <1>3, <1>4

LEMMA ServeStrayStep ==
  ASSUME TypeOK, IInv, NEW s \in strays, NEW rotate \in BOOLEAN, ServeStray(s[1], s[2], rotate)
  PROVE  IInv'
<1> DEFINE p == s[1]
<1>1. /\ p \in Providers /\ p \in mishaps /\ strays' \subseteq strays
      /\ UNCHANGED <<home, account, file, misread, call, mishaps, overlap>>
  BY DEF ServeStray, TypeOK, IInv, Noted
<1>2. /\ \A q \in Providers \ {p} : issued'[q] = issued[q] /\ valid'[q] = valid[q]
      /\ issued'[p] \in {issued[p], issued[p] + 1} /\ expired' = expired
  BY <1>1, GrantType DEF ServeStray, TypeOK
<1>3. Locks' /\ Stages' /\ Noted'
  BY <1>1 DEF IInv, Locks, Stages, Noted, Active, call
<1>4. Young'
  <2>1. \A q \in Providers : expired'[q] <= issued'[q]
    <3>1. issued[p] \in Nat /\ expired[p] \in Nat /\ expired[p] <= issued[p]
      BY <1>1 DEF TypeOK, IInv, Young
    <3> QED BY <1>2, <3>1 DEF IInv, Young
  <2> QED BY <1>1, <1>2, <2>1 DEF IInv, Young, call
<1>5. ASSUME NEW q \in Providers, Undisturbed(q)' PROVE Settled(q)'
  <2>1. q # p /\ Settled(q)
    BY <1>1, <1>5 DEF Undisturbed, IInv, Sound
  <2> QED BY <1>1, <1>2, <2>1, SettledKept DEF TypeOK, Active, call
<1> QED BY <1>3, <1>4, <1>5 DEF IInv, Sound

LEMMA ExpireStep ==
  ASSUME TypeOK, IInv, NEW p \in Providers, Expire(p)
  PROVE  IInv'
<1>1. UNCHANGED <<home, account, file, misread, issued, valid, strays, call, mishaps,
                  overlap>>
  BY DEF Expire
<1>2. \A q \in Providers : /\ expired[q] \in Nat /\ issued[q] \in Nat
                           /\ expired'[q] \in Nat
                           /\ expired[q] <= expired'[q] /\ expired'[q] <= issued[q]
  BY DEF Expire, TypeOK, IInv, Young
<1>3. Locks' /\ Stages' /\ Noted'
  BY <1>1 DEF IInv, Locks, Stages, Noted, Active, call
<1>4. Young'
  <2>1. \A t \in Tasks : seen[t] <= expired'[account[t]]
    <3>1. \A t \in Tasks : seen[t] \in Nat /\ account[t] \in Providers
                           /\ seen[t] <= expired[account[t]]
      BY DEF TypeOK, IInv, Young
    <3> QED BY <1>2, <3>1
  <2> QED BY <1>1, <1>2, <2>1 DEF IInv, Young, call
<1>5. ASSUME NEW q \in Providers, Undisturbed(q)' PROVE Settled(q)'
  <2>1. Settled(q)
    BY <1>1, <1>5 DEF Undisturbed, IInv, Sound
  <2> QED BY <1>1, <1>2, <2>1, SettledKept DEF Active, call
<1> QED BY <1>3, <1>4, <1>5 DEF IInv, Sound

-----------------------------------------------------------------------------
(* The steps of a call                                                     *)

LEMMA CallStep ==
  ASSUME TypeOK, IInv, NEW t \in Tasks, NEW force \in BOOLEAN, Call(t, force)
  PROVE  IInv'
<1>1. /\ at[t] = "idle" /\ ~Active(t) /\ ~Active(t)'
      /\ UNCHANGED <<home, account, file, misread, vendor, cred, tries, exchange, copy,
                     result, mishaps, overlap>>
      /\ \A u \in Tasks \ {t} : at'[u] = at[u] /\ forced'[u] = forced[u] /\ seen'[u] = seen[u]
      /\ at'[t] = "locking" /\ seen'[t] = expired[account[t]]
  BY DEF Call, Active, Holding, TypeOK
<1>2. ~forced[t] /\ exchange[t].stage = "none" /\ result[t] = "none"
  BY <1>1 DEF IInv, Stages, TypeOK
<1>3. Locks'
  BY <1>1, LocksKept DEF IInv, Active
<1>4. Stages' /\ Noted'
  BY <1>1, <1>2 DEF IInv, Stages, Noted, Active, vendor
<1>5. Young'
  <2>1. expired[account[t]] \in Nat
    BY DEF TypeOK
  <2> QED BY <1>1, <1>2, <2>1 DEF IInv, Young, vendor
<1>6. ASSUME NEW q \in Providers, Undisturbed(q)' PROVE Settled(q)'
  <2>1. Settled(q)
    BY <1>1, <1>6 DEF Undisturbed, IInv, Sound
  <2>2. \A u \in Tasks : (Active(u)' <=> Active(u)) /\ (forced[u] => forced'[u])
    BY <1>1, <1>2 DEF Active
  <2>3. expired[q] \in Nat
    BY DEF TypeOK
  <2> QED BY <1>1, <2>1, <2>2, <2>3, SettledKept DEF vendor
<1> QED BY <1>3, <1>4, <1>5, <1>6 DEF IInv, Sound

LEMMA ReturnStoredStep ==
  ASSUME TypeOK, IInv, NEW t \in Tasks, ReturnStored(t)
  PROVE  IInv'
<1>1. /\ ~Active(t) /\ ~Active(t)'
      /\ UNCHANGED <<home, account, file, misread, vendor, forced, seen, tries, exchange,
                     copy, mishaps, overlap>>
      /\ \A u \in Tasks \ {t} : at'[u] = at[u] /\ cred'[u] = cred[u] /\ result'[u] = result[u]
      /\ at'[t] = "done" /\ result'[t] = "fresh" /\ cred'[t] = file[account[t]]
  BY DEF ReturnStored, Finish, Active, Holding, TypeOK
<1>2. exchange[t].stage = "none"
  BY <1>1 DEF IInv, Stages
<1>3. Locks'
  BY <1>1, LocksKept DEF IInv, Active
<1>4. Stages' /\ Noted'
  BY <1>1, <1>2 DEF IInv, Stages, Noted, Active, vendor
<1>5. Young'
  <2>1. file[account[t]].access \in Nat /\ seen[t] \in Nat
    BY DEF TypeOK, Credential
  <2>2. file[account[t]].access > seen[t]
    BY <2>1 DEF ReturnStored, NeedsRefresh
  <2> QED BY <1>1, <1>2, <2>2 DEF IInv, Young, vendor
<1>6. ASSUME NEW q \in Providers, Undisturbed(q)' PROVE Settled(q)'
  <2>1. Settled(q)
    BY <1>1, <1>6 DEF Undisturbed, IInv, Sound
  <2>2. \A u \in Tasks : (Active(u)' <=> Active(u))
    BY <1>1 DEF Active
  <2>3. expired[q] \in Nat
    BY DEF TypeOK
  <2> QED BY <1>1, <2>1, <2>2, <2>3, SettledKept DEF vendor
<1> QED BY <1>3, <1>4, <1>5, <1>6 DEF IInv, Sound

LEMMA FindNothingStep ==
  ASSUME TypeOK, IInv, NEW t \in Tasks, FindNothing(t)
  PROVE  IInv'
<1>1. /\ ~Active(t) /\ ~Active(t)'
      /\ UNCHANGED <<home, account, file, vendor, forced, seen, cred, tries, exchange, copy,
                     mishaps, overlap>>
      /\ \A u \in Tasks \ {t} : at'[u] = at[u] /\ result'[u] = result[u]
      /\ at'[t] = "done" /\ result'[t] = "missing"
  BY DEF FindNothing, Finish, Active, Holding, TypeOK
<1>2. exchange[t].stage = "none"
  BY <1>1 DEF IInv, Stages
<1>3. Locks'
  BY <1>1, LocksKept DEF IInv, Active
<1>4. Stages' /\ Noted'
  BY <1>1, <1>2 DEF IInv, Stages, Noted, Active, vendor
<1>5. Young'
  BY <1>1, <1>2 DEF IInv, Young, vendor
<1>6. ASSUME NEW q \in Providers, Undisturbed(q)' PROVE Settled(q)'
  <2>1. Settled(q)
    BY <1>1, <1>6 DEF Undisturbed, IInv, Sound
  <2>2. \A u \in Tasks : (Active(u)' <=> Active(u))
    BY <1>1 DEF Active
  <2>3. expired[q] \in Nat
    BY DEF TypeOK
  <2> QED BY <1>1, <2>1, <2>2, <2>3, SettledKept DEF vendor
<1> QED BY <1>3, <1>4, <1>5, <1>6 DEF IInv, Sound

LEMMA BeginStep ==
  ASSUME TypeOK, IInv, NEW t \in Tasks, Begin(t)
  PROVE  IInv'
<1> DEFINE p == account[t]
<1>1. /\ at[t] = "locking" /\ ~Active(t) /\ at'[t] = "exchanging" /\ Active(t)'
      /\ UNCHANGED <<home, account, file, misread, vendor, forced, seen, copy, result,
                     mishaps>>
      /\ \A u \in Tasks \ {t} : at'[u] = at[u] /\ cred'[u] = cred[u] /\ exchange'[u] = exchange[u]
      /\ exchange'[t].stage = "sent" /\ cred'[t] = file[p]
      /\ p \in Providers
      /\ overlap' = (overlap \/ \E u \in Tasks : home[u] # home[t] /\ Active(u))
      /\ \A u \in Tasks : home[u] = home[t] /\ account[u] = p => ~Active(u)
  BY StageType DEF Begin, LockFree, Active, Holding, TypeOK
<1>2. result[t] = "none"
  BY <1>1 DEF IInv, Stages, TypeOK
<1>3. Locks'
  <2>1. ASSUME NEW u \in Tasks, NEW v \in Tasks, u # v, Active(u)', Active(v)', home[u] = home[v]
        PROVE  account[u] # account[v] /\ ~(at'[u] = "storing" /\ at'[v] = "storing")
    <3>1. \A w \in Tasks \ {t} : Active(w)' <=> Active(w)
      BY <1>1 DEF Active
    <3>2. CASE u # t /\ v # t
      BY <1>1, <2>1, <3>1, <3>2 DEF IInv, Locks
    <3>3. CASE u = t \/ v = t
      BY <1>1, <2>1, <3>1, <3>3
    <3> QED BY <3>2, <3>3
  <2>2. ASSUME ~overlap', NEW u \in Tasks, NEW v \in Tasks, Active(u)', Active(v)'
        PROVE  home[u] = home[v]
    <3>1. \A w \in Tasks : Active(w) => home[w] = home[t]
      BY <1>1, <2>2
    <3>2. \A w \in Tasks : Active(w)' => home[w] = home[t]
      BY <1>1, <3>1 DEF Active
    <3> QED BY <2>2, <3>2
  <2>3. ASSUME ~overlap', NEW u \in Tasks, at'[u] = "storing" PROVE copy'[u] \in {file', NoEntries}
    BY <1>1, <2>3 DEF IInv, Locks
  <2> QED BY <1>1, <2>1, <2>2, <2>3 DEF Locks
<1>4. Stages' /\ Noted'
  BY <1>1, <1>2 DEF IInv, Stages, Noted, Active, vendor
<1>5. Young'
  BY <1>1, <1>2 DEF IInv, Young, vendor
<1>6. ASSUME NEW q \in Providers, Undisturbed(q)' PROVE Settled(q)'
  <2>1. /\ Settled(q) /\ expired[q] \in Nat
        /\ \A u \in Tasks : Active(u) => home[u] = home[t]
    BY <1>1, <1>6 DEF Undisturbed, IInv, Sound, TypeOK
  <2>2. CASE q # p
    BY <1>1, <2>1, <2>2, SettledKept DEF vendor, Active
  <2>3. CASE q = p
    <3>1. \A u \in Tasks : account[u] = p => ~Active(u)
      BY <1>1, <2>1
    <3>2. ~InHand(p) /\ ~InHand(p)'
      BY <1>1, <3>1 DEF InHand, Active
    <3>3. file[p].refresh = valid[p] /\ file[p].access = issued[p]
      BY <2>1, <2>3, <3>2 DEF Settled, Begin, Stored
    <3>4. ~forced[t] => issued[p] <= expired[p]
      <4>1. SUFFICES ASSUME ~forced[t] PROVE issued[p] <= expired[p]
        OBVIOUS
      <4>2. file[p].access <= seen[t] /\ seen[t] <= expired[p]
        BY <4>1 DEF Begin, NeedsRefresh, IInv, Young
      <4>3. issued[p] \in Nat /\ expired[p] \in Nat /\ seen[t] \in Nat
        BY <1>1 DEF TypeOK
      <4> QED BY <3>3, <4>2, <4>3
    <3>5. Holds(t, p)'
      BY <1>1, <3>3, <3>4 DEF Holds, vendor
    <3>6. \A u \in Tasks : Active(u)' /\ account[u] = p => u = t
      BY <1>1, <3>1 DEF Active
    <3> QED BY <1>1, <2>1, <2>3, <3>2, <3>3, <3>5, <3>6 DEF Settled, vendor
  <2> QED BY <2>2, <2>3
<1> QED BY <1>3, <1>4, <1>5, <1>6 DEF IInv, Sound

(* An attempt that fails leaves the lock or starts again.                  *)
LEMMA RetryFacts ==
  ASSUME TypeOK, NEW t \in Tasks, Retry(t)
  PROVE  /\ \A u \in Tasks \ {t} :
              at'[u] = at[u] /\ exchange'[u] = exchange[u] /\ result'[u] = result[u]
         /\ \/ at'[t] = "exchanging" /\ exchange'[t].stage = "sent" /\ result'[t] = result[t]
            \/ at'[t] = "done" /\ exchange'[t].stage = "none" /\ result'[t] = "reauth"
BY StageType DEF TypeOK, Retry, Finish

(* Request and reply of a provider in trouble may go wrong.                *)
LEMMA RetryStep ==
  ASSUME TypeOK, IInv, NEW t \in Tasks, Active(t), Retry(t),
         UNCHANGED <<home, account, file, misread, issued, valid, expired, forced, seen,
                     cred, copy, overlap>>,
         Noted', mishaps \subseteq mishaps', ~Undisturbed(account[t])'
  PROVE  IInv'
<1>1. /\ \A u \in Tasks \ {t} :
           at'[u] = at[u] /\ exchange'[u] = exchange[u] /\ result'[u] = result[u]
      /\ \/ at'[t] = "exchanging" /\ exchange'[t].stage = "sent" /\ result'[t] = result[t]
         \/ at'[t] = "done" /\ exchange'[t].stage = "none" /\ result'[t] = "reauth"
  BY RetryFacts
<1>2. result[t] = "none"
  BY DEF IInv, Stages, Active, Holding, TypeOK
<1>3. Locks'
  BY <1>1, LocksKept DEF IInv, Active
<1>4. Stages'
  BY <1>1, <1>2 DEF IInv, Stages, Active, Holding
<1>5. Young'
  BY <1>1, <1>2 DEF IInv, Young
<1>6. ASSUME NEW q \in Providers, Undisturbed(q)' PROVE Settled(q)'
  <2>1. q # account[t] /\ Settled(q) /\ expired[q] \in Nat
    BY <1>6 DEF Undisturbed, IInv, Sound, TypeOK
  <2> QED BY <1>1, <2>1, SettledKept DEF Active
<1> QED BY <1>3, <1>4, <1>5, <1>6 DEF IInv, Sound

LEMMA DropFacts ==
  ASSUME IInv, NEW T \in SUBSET Tasks, Drop(T)
  PROVE  /\ mishaps' = mishaps \cup {account[t] : t \in T}
         /\ Noted'
BY DEF Drop, IInv, Noted

LEMMA RefusedStep ==
  ASSUME TypeOK, IInv, NEW t \in Tasks, Refused(t)
  PROVE  IInv'
<1>1. /\ Active(t) /\ Retry(t) /\ exchange[t].stage = "refused"
      /\ UNCHANGED <<home, account, file, misread, vendor, forced, seen, cred, copy,
                     mishaps, overlap>>
      /\ account[t] \in Providers
  BY DEF Refused, Active, Holding, TypeOK
<1>2. ~Undisturbed(account[t])
  BY <1>1 DEF IInv, Sound, Settled, Holds
<1>3. Noted' /\ ~Undisturbed(account[t])'
  BY <1>1, <1>2 DEF IInv, Noted, Undisturbed, vendor
<1> QED BY <1>1, <1>3, RetryStep DEF vendor

LEMMA LoseStep ==
  ASSUME TypeOK, IInv, NEW t \in Tasks, Lose(t) \/ WriteFails(t)
  PROVE  IInv'
<1>1. /\ Active(t) /\ Retry(t) /\ Drop({t})
      /\ UNCHANGED <<home, account, file, misread, issued, valid, expired, forced, seen,
                     cred, copy, overlap>>
  BY DEF Lose, WriteFails, Active, Holding
<1>2. mishaps' = mishaps \cup {account[t]} /\ Noted'
  BY <1>1, DropFacts
<1> QED BY <1>1, <1>2, RetryStep DEF Undisturbed

LEMMA LoadStep ==
  ASSUME TypeOK, IInv, NEW t \in Tasks, Load(t)
  PROVE  IInv'
<1>1. /\ at[t] = "exchanging" /\ at'[t] = "storing" /\ exchange[t].stage = "granted"
      /\ Active(t) /\ Active(t)' /\ copy'[t] \in {file, NoEntries}
      /\ UNCHANGED <<home, account, file, vendor, cred, forced, seen, tries,
                     exchange, result, mishaps, overlap>>
      /\ \A u \in Tasks \ {t} : at'[u] = at[u] /\ copy'[u] = copy[u]
      /\ \A u \in Tasks \ {t} : home[u] = home[t] => at[u] # "storing"
  BY DEF Load, Runs, Active, Holding, TypeOK
<1>2. Locks'
  <2>1. \A u \in Tasks : Active(u)' <=> Active(u)
    BY <1>1 DEF Active
  <2>2. ASSUME NEW u \in Tasks, NEW v \in Tasks, u # v, Active(u), Active(v), home[u] = home[v]
        PROVE  account[u] # account[v] /\ ~(at'[u] = "storing" /\ at'[v] = "storing")
    <3>1. account[u] # account[v] /\ ~(at[u] = "storing" /\ at[v] = "storing")
      BY <2>2 DEF IInv, Locks
    <3> QED BY <1>1, <2>2, <3>1
  <2>3. ~overlap => \A u \in Tasks : at'[u] = "storing" => copy'[u] \in {file, NoEntries}
    BY <1>1 DEF IInv, Locks
  <2> QED BY <1>1, <2>1, <2>2, <2>3 DEF IInv, Locks
<1>3. Stages' /\ Noted'
  BY <1>1 DEF IInv, Stages, Noted, Active, Holding, vendor
<1>4. Young'
  BY <1>1 DEF IInv, Young, vendor
<1>5. ASSUME NEW q \in Providers, Undisturbed(q)' PROVE Settled(q)'
  <2>1. Settled(q) /\ expired[q] \in Nat /\ ~overlap
    BY <1>1, <1>5 DEF Undisturbed, IInv, Sound, TypeOK
  <2>2. CASE q # account[t]
    BY <1>1, <2>1, <2>2, SettledKept DEF vendor, Active
  <2>3. CASE q = account[t]
    <3>1. \A u \in Tasks : Active(u)' /\ account[u] = q => u = t
      BY <1>1, <2>1, <2>3, OneHolder DEF IInv, Active
    <3>2. Holds(t, q)' /\ InHand(q)'
      BY <1>1, <2>1, <2>3 DEF Settled, Holds, InHand, Mapped, vendor, Active
    <3> QED BY <1>1, <2>1, <3>1, <3>2 DEF Settled, vendor
  <2> QED BY <2>2, <2>3
<1> QED BY <1>2, <1>3, <1>4, <1>5 DEF IInv, Sound

LEMMA WriteStep ==
  ASSUME TypeOK, IInv, NEW t \in Tasks, Write(t)
  PROVE  IInv'
<1> DEFINE p == account[t]
<1>1. /\ at[t] = "storing" /\ at'[t] = "done" /\ Active(t) /\ ~Active(t)'
      /\ exchange[t].stage = "granted" /\ exchange'[t].stage = "none"
      /\ cred'[t] = Mapped(t) /\ result'[t] = "fresh"
      /\ file' = [copy[t] EXCEPT ![p] = Mapped(t)] /\ p \in Providers
      /\ UNCHANGED <<home, account, misread, vendor, forced, seen, tries, copy, mishaps,
                     overlap>>
      /\ \A u \in Tasks \ {t} : at'[u] = at[u] /\ cred'[u] = cred[u] /\ exchange'[u] = exchange[u]
                                /\ result'[u] = result[u]
  BY StageType DEF Write, Finish, IInv, Stages, Active, Holding, TypeOK
<1>2. Locks'
  <2>1. ~overlap => \A u \in Tasks : at'[u] # "storing"
    BY <1>1 DEF IInv, Locks, Active, Holding
  <2> QED BY <1>1, <2>1 DEF IInv, Locks, Active
<1>3. Stages' /\ Noted'
  BY <1>1 DEF IInv, Stages, Noted, Active, vendor
<1>4. Young'
  <2>1. cred'[t].access > seen[t]
    BY <1>1 DEF IInv, Young, Mapped
  <2> QED BY <1>1, <2>1 DEF IInv, Young, vendor
<1>5. ASSUME NEW q \in Providers, Undisturbed(q)' PROVE Settled(q)'
  <2>1. Settled(q) /\ expired[q] \in Nat /\ ~overlap
    BY <1>1, <1>5 DEF Undisturbed, IInv, Sound, TypeOK
  <2>3. DOMAIN copy[t] = Providers
    BY DEF TypeOK
  <2>4. CASE q # p
    <3>1. file'[q] = copy[t][q]
      BY <1>1, <2>3, <2>4
    <3>2. copy[t][q] \in {file[q], NoCredential}
      BY <1>1, <2>1 DEF IInv, Locks, NoEntries
    <3> QED BY <1>1, <2>1, <2>4, <3>1, <3>2, SettledKept DEF vendor, Active
  <2>5. CASE q = p
    <3>1. \A u \in Tasks : account[u] = p => ~Active(u)'
      BY <1>1, <2>1, <2>5, OneHolder DEF IInv, Active
    <3>2. Mapped(t).refresh = valid[p] /\ Mapped(t).access = issued[p]
      BY <1>1, <2>1, <2>5 DEF Settled, Holds, Mapped
    <3>3. file'[p] = Mapped(t)
      BY <1>1, <2>3
    <3> QED BY <1>1, <2>1, <2>5, <3>1, <3>2, <3>3 DEF Settled, vendor
  <2> QED BY <2>4, <2>5
<1> QED BY <1>2, <1>3, <1>4, <1>5 DEF IInv, Sound

(* Calls that end here and now, some of them in the midst of an exchange.  *)
LEMMA EndStep ==
  ASSUME TypeOK, IInv, NEW T \in SUBSET Tasks,
         UNCHANGED <<home, account, file, misread, issued, valid, expired, forced, seen,
                     cred, copy, overlap>>,
         \A t \in T : at'[t] = "done" /\ exchange'[t].stage = "none" /\ result'[t] = "abandoned",
         \A t \in Tasks \ T :
           at'[t] = at[t] /\ exchange'[t] = exchange[t] /\ result'[t] = result[t],
         Noted', mishaps \subseteq mishaps',
         \A t \in T : Active(t) => account[t] \in mishaps'
  PROVE  IInv'
<1>1. \A t \in T : ~Active(t)'
  BY DEF Active, Holding
<1>2. Locks'
  BY <1>1, LocksKept DEF IInv, Active
<1>3. Stages'
  BY <1>1 DEF IInv, Stages, Active
<1>4. Young'
  <2>1. ASSUME NEW t \in Tasks
        PROVE  /\ exchange'[t].stage = "granted" => exchange'[t].access > seen[t]
               /\ result'[t] = "fresh" => cred[t].access > seen[t]
    <3>1. CASE t \in T
      BY <3>1
    <3>2. CASE t \notin T
      BY <3>2 DEF IInv, Young
    <3> QED BY <3>1, <3>2
  <2> QED BY <2>1 DEF IInv, Young
<1>5. ASSUME NEW q \in Providers, Undisturbed(q)' PROVE Settled(q)'
  <2>1. /\ Settled(q) /\ expired[q] \in Nat
        /\ \A t \in T : account[t] = q => ~Active(t)
    BY <1>5 DEF Undisturbed, IInv, Sound, TypeOK
  <2> QED BY <1>1, <2>1, SettledKept DEF Active
<1> QED BY <1>2, <1>3, <1>4, <1>5 DEF IInv, Sound

LEMMA CancelStep ==
  ASSUME TypeOK, IInv, NEW t \in Tasks, Cancel(t)
  PROVE  IInv'
<1> DEFINE T == {t}
<1>1. /\ UNCHANGED <<home, account, file, misread, issued, valid, expired, forced, seen,
                     cred, copy, overlap>>
      /\ \A u \in T : at'[u] = "done" /\ exchange'[u].stage = "none" /\ result'[u] = "abandoned"
      /\ \A u \in Tasks \ T :
           at'[u] = at[u] /\ exchange'[u] = exchange[u] /\ result'[u] = result[u]
  BY StageType DEF Cancel, Finish, TypeOK
<1>2. /\ Noted' /\ mishaps \subseteq mishaps'
      /\ \A u \in T : Active(u) => account[u] \in mishaps'
  <2>1. CASE at[t] = "exchanging"
    <3>1. mishaps' = mishaps \cup {account[t]} /\ Noted'
      BY <2>1, DropFacts DEF Cancel
    <3> QED BY <3>1
  <2>2. CASE at[t] = "locking"
    <3>1. UNCHANGED <<strays, mishaps>> /\ ~Active(t)
      BY <2>2 DEF Cancel, Active, Holding
    <3> QED BY <3>1 DEF IInv, Noted
  <2> QED BY <2>1, <2>2 DEF Cancel
<1>3. T \in SUBSET Tasks
  OBVIOUS
<1> HIDE DEF T
<1> QED BY <1>1, <1>2, <1>3, EndStep

LEMMA CrashStep ==
  ASSUME TypeOK, IInv, NEW h \in Processes, Crash(h)
  PROVE  IInv'
<1> DEFINE alive == {t \in Tasks : home[t] = h /\ at[t] \in Holding \cup {"locking"}}
           cut   == {t \in alive : at[t] \in Holding}
<1>1. /\ UNCHANGED <<home, account, file, misread, issued, valid, expired, forced, seen,
                     cred, copy, overlap>>
      /\ \A t \in alive : at'[t] = "done" /\ exchange'[t].stage = "none" /\ result'[t] = "abandoned"
      /\ \A t \in Tasks \ alive :
           at'[t] = at[t] /\ exchange'[t] = exchange[t] /\ result'[t] = result[t]
      /\ Drop(cut)
  BY StageType DEF Crash
<1>2. mishaps' = mishaps \cup {account[t] : t \in cut} /\ Noted'
  BY <1>1, DropFacts
<1>3. \A t \in alive : Active(t) => account[t] \in mishaps'
  BY <1>2 DEF Active
<1> HIDE DEF alive, cut
<1>4. alive \in SUBSET Tasks
  BY DEF alive
<1> QED BY <1>1, <1>2, <1>3, <1>4, EndStep

LEMMA IStep == TypeOK /\ IInv /\ [Next]_vars => IInv'
<1> SUFFICES ASSUME TypeOK, IInv, [Next]_vars PROVE IInv'
  OBVIOUS
<1>1. ASSUME NEW t \in Tasks, Step(t) PROVE IInv'
  BY <1>1, CallStep, FindNothingStep, ReturnStoredStep, BeginStep, RefusedStep, LoseStep,
     LoadStep, WriteStep, CancelStep DEF Step
<1>2. CASE UNCHANGED vars
  <2>1. Locks' /\ Stages' /\ Young' /\ Noted'
    BY <1>2 DEF vars, vendor, call, IInv, Locks, Stages, Young, Noted, Active
  <2>2. \A p \in Providers : Sound(p)'
    BY <1>2 DEF vars, vendor, call, IInv, Sound, Undisturbed, Settled, InHand, Holds, Mapped, Active
  <2> QED BY <2>1, <2>2 DEF IInv
<1> QED BY <1>1, <1>2, ServeStep, ServeStrayStep, ExpireStep, CrashStep DEF Next

LEMMA RefreshInvariant == Spec => []IInv
<1>1. TypeOK /\ IInv /\ [Next]_vars => (TypeOK /\ IInv)'
  BY TypeStep, IStep
<1> QED BY <1>1, TypeInit, IInit, PTL DEF Spec

-----------------------------------------------------------------------------
(* Entries that are not there                                              *)

(* Only entries that a read has overlooked are not there, or will not be.  *)
Absent ==
  /\ \A p \in Providers : file[p] = NoCredential => p \in misread
  /\ \A t \in Tasks : at[t] = "storing" =>
       \A p \in Providers \ {account[t]} : copy[t][p] = NoCredential => p \in misread
  /\ \A t \in Tasks : result[t] = "missing" => account[t] \in misread

LEMMA AbsentInit == Init => Absent
BY DEF Init, Absent, NoCredential

(* Steps that neither read nor write the file.                             *)
LEMMA AbsentKept ==
  ASSUME Absent, UNCHANGED <<account, file, copy>>, misread \subseteq misread',
         \A t \in Tasks : /\ at'[t] = "storing" => at[t] = "storing"
                          /\ result'[t] = "missing" =>
                               result[t] = "missing" \/ account[t] \in misread'
  PROVE  Absent'
BY DEF Absent

LEMMA AbsentLoad ==
  ASSUME TypeOK, Absent, NEW t \in Tasks, Load(t)
  PROVE  Absent'
<1>1. /\ UNCHANGED <<account, file, result>> /\ misread \subseteq misread'
      /\ \A u \in Tasks \ {t} : at'[u] = at[u] /\ copy'[u] = copy[u]
      /\ \/ copy'[t] = file
         \/ Providers \ {account[t]} \subseteq misread'
  BY DEF Load, TypeOK
<1>2. \A p \in Providers \ {account[t]} : copy'[t][p] = NoCredential => p \in misread'
  BY <1>1 DEF Absent
<1> QED BY <1>1, <1>2 DEF Absent

(* What put() writes for its own account is an entry.                      *)
LEMMA AbsentWrite ==
  ASSUME TypeOK, IInv, Absent, NEW t \in Tasks, Write(t)
  PROVE  Absent'
<1> DEFINE p == account[t]
<1>1. /\ at[t] = "storing" /\ exchange[t].stage = "granted"
      /\ UNCHANGED <<account, misread, copy>>
      /\ at'[t] = "done" /\ result'[t] = "fresh"
      /\ \A u \in Tasks \ {t} : at'[u] = at[u] /\ result'[u] = result[u]
      /\ file' = [copy[t] EXCEPT ![p] = Mapped(t)]
      /\ p \in Providers /\ DOMAIN copy[t] = Providers
  BY DEF Write, Finish, IInv, Stages, TypeOK
<1>2. exchange[t].access > seen[t] /\ seen[t] \in Nat /\ exchange[t].access \in Nat
  BY <1>1 DEF IInv, Young, TypeOK, Exchange
<1>3. Mapped(t) # NoCredential
  BY <1>2 DEF Mapped, NoCredential
<1>4. \A q \in Providers : file'[q] = NoCredential => q \in misread
  BY <1>1, <1>3 DEF Absent
<1> QED BY <1>1, <1>4 DEF Absent

LEMMA AbsentStep == TypeOK /\ IInv /\ Absent /\ [Next]_vars => Absent'
<1> SUFFICES ASSUME TypeOK, IInv, Absent, [Next]_vars PROVE Absent'
  OBVIOUS
<1>1. ASSUME NEW t \in Tasks, Step(t) PROVE Absent'
  <2>1. CASE FindNothing(t)
    <3>1. /\ UNCHANGED <<account, file, copy>> /\ misread \subseteq misread'
          /\ \A u \in Tasks \ {t} : at'[u] = at[u] /\ result'[u] = result[u]
          /\ at'[t] = "done"
      BY <2>1 DEF FindNothing, Finish, TypeOK
    <3>2. account[t] \in misread'
      BY <2>1 DEF FindNothing, Stored, Absent, TypeOK
    <3> QED BY <3>1, <3>2, AbsentKept
  <2>2. CASE Load(t)
    BY <2>2, AbsentLoad
  <2>3. CASE Write(t)
    BY <2>3, AbsentWrite
  <2>4. CASE Refused(t) \/ Lose(t) \/ WriteFails(t)
    <3>1. Retry(t) /\ UNCHANGED <<account, file, copy, misread>>
      BY <2>4 DEF Refused, Lose, WriteFails
    <3> QED BY <3>1, RetryFacts, AbsentKept
  <2>5. CASE ReturnStored(t) \/ Begin(t) \/ Cancel(t) \/ \E force \in BOOLEAN : Call(t, force)
    <3>1. /\ UNCHANGED <<account, file, copy, misread>>
          /\ \A u \in Tasks \ {t} : at'[u] = at[u] /\ result'[u] = result[u]
          /\ at'[t] # "storing" /\ (result'[t] # "missing" \/ result'[t] = result[t])
      BY <2>5 DEF ReturnStored, Begin, Cancel, Call, Finish, TypeOK
    <3> QED BY <3>1, AbsentKept
  <2> QED BY <1>1, <2>1, <2>2, <2>3, <2>4, <2>5 DEF Step
<1>2. ASSUME NEW h \in Processes, Crash(h) PROVE Absent'
  <2>1. /\ UNCHANGED <<account, file, copy, misread>>
        /\ \A u \in Tasks : /\ at'[u] \in {at[u], "done"}
                             /\ result'[u] \in {result[u], "abandoned"}
    BY <1>2 DEF Crash
  <2> QED BY <2>1, AbsentKept
<1>3. CASE \/ \E t \in Tasks, rotate \in BOOLEAN : Serve(t, rotate)
           \/ \E s \in strays, rotate \in BOOLEAN : ServeStray(s[1], s[2], rotate)
           \/ \E p \in Providers : Expire(p)
           \/ UNCHANGED vars
  <2>1. UNCHANGED <<account, file, copy, misread, at, result>>
    BY <1>3 DEF Serve, ServeStray, Expire, vars, call
  <2> QED BY <2>1, AbsentKept
<1> QED BY <1>1, <1>2, <1>3 DEF Next

LEMMA AbsenceExplained == Spec => []Absent
<1>1. TypeOK /\ IInv /\ Absent /\ [Next]_vars => Absent'
  BY AbsentStep
<1> QED BY <1>1, AbsentInit, RefreshTypeCorrect, RefreshInvariant, PTL DEF Spec

-----------------------------------------------------------------------------

(* Without a mishap the file, or the call that is about to store it, has   *)
(* the refresh token the vendor accepts, or the whole entry is gone since  *)
(* a put() could not read the file.  (refresh_credential, put, _load_raw)  *)
THEOREM SessionIsKept == Spec => []SessionKept
<1>1. IInv /\ Absent => SessionKept
  BY DEF IInv, Sound, Settled, Absent, LeftOut, SessionKept
<1> QED BY <1>1, RefreshInvariant, AbsenceExplained, PTL

(* Nobody has to log in again unless an exchange went wrong, and nobody is *)
(* told that there is no credential unless a read failed: the calls of one *)
(* process do not make each other fail.  (ensure_fresh, _get_lock, put)    *)
THEOREM ReauthIsExplained == Spec => []ReauthHasACause
<1>1. TypeOK /\ IInv /\ Absent => ReauthHasACause
  BY DEF TypeOK, IInv, Sound, Settled, Absent, ReauthHasACause
<1> QED BY <1>1, RefreshInvariant, RefreshTypeCorrect, AbsenceExplained, PTL

(* However many calls find a token expired, one exchange renews it.        *)
(* (ensure_fresh, needs_refresh)                                           *)
THEOREM RefreshedOnce == Spec => []OneRefreshPerExpiry
<1>1. IInv => OneRefreshPerExpiry
  BY DEF IInv, Sound, Settled, OneRefreshPerExpiry
<1> QED BY <1>1, RefreshInvariant, PTL

(* A call returns a credential that was good when it was made.             *)
(* (ensure_fresh, needs_refresh, map_tokens)                               *)
THEOREM FreshIsFresh == Spec => []ReturnedIsFresh
<1>1. IInv => ReturnedIsFresh
  BY DEF IInv, Young, ReturnedIsFresh
<1> QED BY <1>1, RefreshInvariant, PTL
=============================================================================
