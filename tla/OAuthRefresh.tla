---------------------------- MODULE OAuthRefresh ----------------------------
(***************************************************************************)
(* Renewal of OAuth credentials (avo/oauth/refresh.py) over the shared     *)
(* credential file (avo/credentials.py), by calls of ensure_fresh in       *)
(* several processes.  A lock per process and provider orders the calls of *)
(* one process; nothing orders those of two, and the file is read whole,   *)
(* changed and replaced.  The vendor may rotate the refresh token with     *)
(* each exchange, after which the old one is refused.                      *)
(*                                                                         *)
(* Tokens of a provider are numbered as they are issued, so a credential   *)
(* is the number of its access token and the exchange its refresh token    *)
(* came from.  A call is an element of Tasks.                              *)
(***************************************************************************)
EXTENDS Naturals

CONSTANTS Processes, Providers, Tasks,
          Attempts,    \* exchanges one call tries: 2 in the code
          MaxExpiries  \* bound on the expiries of a provider's tokens

ASSUME AttemptsAssumption == Attempts \in Nat \ {0}
ASSUME MaxExpiriesAssumption == MaxExpiries \in Nat

VARIABLES
  home,     \* process of a task
  account,  \* provider it asks for
  \* durable: auth.json
  file,
  \* the vendor
  issued,   \* the last access token
  valid,    \* the refresh token it accepts
  expired,  \* access tokens up to this one have expired (or soon will)
  strays,   \* requests on their way whose sender has given up
  \* a call of ensure_fresh
  at,       \* where it stands
  forced,   \* force=True, after a 401
  seen,     \* what had expired at current_time
  cred,     \* the credential it read
  tries,    \* exchanges it has begun
  exchange, \* the exchange under way
  copy,     \* the file as put() read it
  result,   \* "fresh", "reauth", "missing", "abandoned"
  \* history
  misread,  \* providers whose entry a failed read took for absent
  mishaps,  \* providers with an exchange whose outcome did not reach the file
  overlap   \* two processes were renewing at the same time

vendor == <<issued, valid, expired, strays>>
call   == <<at, forced, seen, cred, tries, exchange, copy, result>>
vars   == <<home, account, file, misread, vendor, call, mishaps, overlap>>

Credential == [access : Nat, refresh : Nat]

(* A reply without a refresh token has refresh = 0.                        *)
Exchange == [stage : {"none", "sent", "refused", "granted"}, access : Nat, refresh : Nat]

Stage(s) == [stage |-> s, access |-> 0, refresh |-> 0]

Holding == {"exchanging", "storing"}  \* inside "async with lock", at an await

TypeOK ==
  /\ home \in [Tasks -> Processes]
  /\ account \in [Tasks -> Providers]
  /\ file \in [Providers -> Credential]
  /\ issued \in [Providers -> Nat]
  /\ valid \in [Providers -> Nat]
  /\ expired \in [Providers -> Nat]
  /\ strays \subseteq Providers \X Nat
  /\ at \in [Tasks -> Holding \cup {"idle", "locking", "done"}]
  /\ forced \in [Tasks -> BOOLEAN]
  /\ seen \in [Tasks -> Nat]
  /\ cred \in [Tasks -> Credential]
  /\ tries \in [Tasks -> 0 .. Attempts]
  /\ exchange \in [Tasks -> Exchange]
  /\ copy \in [Tasks -> [Providers -> Credential]]
  /\ result \in [Tasks -> {"none", "fresh", "reauth", "missing", "abandoned"}]
  /\ misread \subseteq Providers
  /\ mishaps \subseteq Providers
  /\ overlap \in BOOLEAN

(* No entry.  An empty file, and what _load_raw makes of one it cannot read. *)
NoCredential == [access |-> 0, refresh |-> 0]
NoEntries == [p \in Providers |-> NoCredential]

Init ==
  /\ home \in [Tasks -> Processes]
  /\ account \in [Tasks -> Providers]
  /\ file = [p \in Providers |-> [access |-> 1, refresh |-> 1]]
  /\ issued = [p \in Providers |-> 1]
  /\ valid = [p \in Providers |-> 1]
  /\ expired = [p \in Providers |-> 0]
  /\ strays = {}
  /\ at = [t \in Tasks |-> "idle"]
  /\ forced = [t \in Tasks |-> FALSE]
  /\ seen = [t \in Tasks |-> 0]
  /\ cred = [t \in Tasks |-> NoCredential]
  /\ tries = [t \in Tasks |-> 0]
  /\ exchange = [t \in Tasks |-> Stage("none")]
  /\ copy = [t \in Tasks |-> NoEntries]
  /\ result = [t \in Tasks |-> "none"]
  /\ misread = {} /\ mishaps = {} /\ overlap = FALSE

-----------------------------------------------------------------------------
(* The vendor                                                              *)

Expire(p) ==
  /\ expired[p] < issued[p]
  /\ issued[p] <= MaxExpiries
  /\ expired' = [expired EXCEPT ![p] = issued[p]]
  /\ UNCHANGED <<home, account, file, misread, issued, valid, strays, call, mishaps,
                 overlap>>

(* An exchange is granted; the vendor may or may not rotate.               *)
Grant(p, rotate) ==
  /\ issued' = [issued EXCEPT ![p] = @ + 1]
  /\ valid' = [valid EXCEPT ![p] = IF rotate THEN issued'[p] ELSE @]
  /\ UNCHANGED expired

Serve(t, rotate) ==
  LET p == account[t] IN
  /\ exchange[t].stage = "sent"
  /\ IF cred[t].refresh = valid[p]
       THEN /\ Grant(p, rotate)
            /\ exchange' = [exchange EXCEPT ![t] =
                 [stage |-> "granted", access |-> issued'[p],
                  refresh |-> IF rotate THEN issued'[p] ELSE 0]]
       ELSE /\ exchange' = [exchange EXCEPT ![t] = Stage("refused")]
            /\ UNCHANGED <<issued, valid, expired>>
  /\ UNCHANGED <<home, account, file, misread, strays, at, forced, seen, cred,
                 tries, copy, result, mishaps, overlap>>

(* A request whose sender has given up arrives after all.                  *)
ServeStray(p, r, rotate) ==
  /\ <<p, r>> \in strays
  /\ strays' = strays \ {<<p, r>>}
  /\ IF r = valid[p] THEN Grant(p, rotate) ELSE UNCHANGED <<issued, valid, expired>>
  /\ UNCHANGED <<home, account, file, misread, call, mishaps, overlap>>

-----------------------------------------------------------------------------
(* ensure_fresh                                                            *)

(* put() does not yield: while it runs, so does nothing else of its process. *)
Runs(t) == \A u \in Tasks \ {t} : home[u] = home[t] => at[u] # "storing"

Call(t, force) ==
  /\ at[t] = "idle" /\ Runs(t)
  /\ at' = [at EXCEPT ![t] = "locking"]
  /\ forced' = [forced EXCEPT ![t] = force]
  /\ seen' = [seen EXCEPT ![t] = expired[account[t]]]
  /\ UNCHANGED <<home, account, file, misread, vendor, cred, tries, exchange, copy,
                 result, mishaps, overlap>>

LockFree(t) == \A u \in Tasks :
  home[u] = home[t] /\ account[u] = account[t] => at[u] \notin Holding

(* Mutant: an access token that expires right now is taken for good.       *)
NeedsRefreshLate(t) == forced[t] \/ file[account[t]].access < seen[t]

(* needs_refresh, with the time taken before the lock was.                 *)
NeedsRefresh(t) == forced[t] \/ file[account[t]].access <= seen[t]

Finish(t, r) ==
  /\ at' = [at EXCEPT ![t] = "done"]
  /\ result' = [result EXCEPT ![t] = r]

Stored(t) == file[account[t]] # NoCredential

(* get_credential finds no entry, or cannot read the file and takes it for *)
(* empty: "No stored credential found".                                    *)
FindNothing(t) ==
  /\ at[t] = "locking" /\ Runs(t) /\ LockFree(t)
  /\ \/ ~Stored(t) /\ UNCHANGED misread
     \/ misread' = misread \cup {account[t]}
  /\ Finish(t, "missing")
  /\ UNCHANGED <<home, account, file, vendor, forced, seen, cred, tries, exchange,
                 copy, mishaps, overlap>>

(* Under the lock: the stored credential is still good.                    *)
ReturnStored(t) ==
  /\ at[t] = "locking" /\ Runs(t) /\ LockFree(t)
  /\ Stored(t) /\ ~NeedsRefresh(t)
  /\ cred' = [cred EXCEPT ![t] = file[account[t]]]
  /\ Finish(t, "fresh")
  /\ UNCHANGED <<home, account, file, misread, vendor, forced, seen, tries,
                 exchange, copy, mishaps, overlap>>

(* Mutant: the credential is read before the lock is taken.                *)
BeginUnlocked(t) ==
  /\ at[t] = "locking" /\ Runs(t)
  /\ Stored(t) /\ NeedsRefresh(t)
  /\ cred' = [cred EXCEPT ![t] = file[account[t]]]
  /\ at' = [at EXCEPT ![t] = "exchanging"]
  /\ tries' = [tries EXCEPT ![t] = 1]
  /\ exchange' = [exchange EXCEPT ![t] = Stage("sent")]
  /\ overlap' = (overlap \/ \E u \in Tasks : home[u] # home[t] /\ at[u] \in Holding)
  /\ UNCHANGED <<home, account, file, misread, vendor, forced, seen, copy, result,
                 mishaps>>

(* Under the lock: the first exchange is sent, from a thread.              *)
Begin(t) ==
  /\ at[t] = "locking" /\ Runs(t) /\ LockFree(t)
  /\ Stored(t) /\ NeedsRefresh(t)
  /\ cred' = [cred EXCEPT ![t] = file[account[t]]]
  /\ at' = [at EXCEPT ![t] = "exchanging"]
  /\ tries' = [tries EXCEPT ![t] = 1]
  /\ exchange' = [exchange EXCEPT ![t] = Stage("sent")]
  /\ overlap' = (overlap \/ \E u \in Tasks : home[u] # home[t] /\ at[u] \in Holding)
  /\ UNCHANGED <<home, account, file, misread, vendor, forced, seen, copy, result,
                 mishaps>>

(* The exception of an attempt: the same refresh token is tried again.     *)
Retry(t) ==
  IF tries[t] < Attempts
    THEN /\ tries' = [tries EXCEPT ![t] = @ + 1]
         /\ exchange' = [exchange EXCEPT ![t] = Stage("sent")]
         /\ at' = [at EXCEPT ![t] = "exchanging"]
         /\ UNCHANGED result
    ELSE /\ exchange' = [exchange EXCEPT ![t] = Stage("none")]
         /\ Finish(t, "reauth")
         /\ UNCHANGED tries

Refused(t) ==
  /\ at[t] = "exchanging" /\ Runs(t)
  /\ exchange[t].stage = "refused"
  /\ Retry(t)
  /\ UNCHANGED <<home, account, file, misread, vendor, forced, seen, cred, copy,
                 mishaps, overlap>>

(* What becomes of an exchange its sender no longer follows.               *)
Drop(T) ==
  /\ strays' = strays \cup {<<account[t], cred[t].refresh>> :
                             t \in {u \in T : exchange[u].stage = "sent"}}
  /\ mishaps' = mishaps \cup {account[t] : t \in T}

(* Request or reply are lost, or the reply cannot be read.                 *)
Lose(t) ==
  /\ at[t] = "exchanging" /\ Runs(t)
  /\ exchange[t].stage \in {"sent", "granted"}
  /\ Drop({t})
  /\ Retry(t)
  /\ UNCHANGED <<home, account, file, misread, issued, valid, expired, forced, seen,
                 cred, copy, overlap>>

(* Mutant: a reply without a refresh token leaves none.                    *)
MappedAsIs(t) == [access |-> exchange[t].access, refresh |-> exchange[t].refresh]

(* map_tokens; without a refresh token in the reply the old one is kept.   *)
Mapped(t) ==
  [access |-> exchange[t].access,
   refresh |-> IF exchange[t].refresh = 0 THEN cred[t].refresh ELSE exchange[t].refresh]

(* put() reads the file.  One it cannot read counts as empty: the entries  *)
(* of the other accounts will not be written back.                         *)
Load(t) ==
  /\ at[t] = "exchanging" /\ Runs(t)
  /\ exchange[t].stage = "granted"
  /\ at' = [at EXCEPT ![t] = "storing"]
  /\ \/ copy' = [copy EXCEPT ![t] = file] /\ UNCHANGED misread
     \/ /\ copy' = [copy EXCEPT ![t] = NoEntries]
        /\ misread' = misread \cup (Providers \ {account[t]})
  /\ UNCHANGED <<home, account, file, vendor, forced, seen, cred, tries, exchange,
                 result, mishaps, overlap>>

(* put() replaces the file; the renewed credential is returned.            *)
Write(t) ==
  /\ at[t] = "storing"
  /\ file' = [copy[t] EXCEPT ![account[t]] = Mapped(t)]
  /\ cred' = [cred EXCEPT ![t] = Mapped(t)]
  /\ exchange' = [exchange EXCEPT ![t] = Stage("none")]
  /\ Finish(t, "fresh")
  /\ UNCHANGED <<home, account, misread, vendor, forced, seen, tries, copy, mishaps,
                 overlap>>

(* put() raises: inside the try block, so the exchange is tried again.     *)
WriteFails(t) ==
  /\ at[t] = "storing"
  /\ Drop({t})
  /\ Retry(t)
  /\ UNCHANGED <<home, account, file, misread, issued, valid, expired, forced, seen,
                 cred, copy, overlap>>

(* The call is cancelled at an await; the thread goes on.                  *)
Cancel(t) ==
  /\ at[t] \in {"locking", "exchanging"} /\ Runs(t)
  /\ IF at[t] = "exchanging" THEN Drop({t}) ELSE UNCHANGED <<strays, mishaps>>
  /\ exchange' = [exchange EXCEPT ![t] = Stage("none")]
  /\ Finish(t, "abandoned")
  /\ UNCHANGED <<home, account, file, misread, issued, valid, expired, forced, seen,
                 cred, tries, copy, overlap>>

(* A process is lost: the file is whole, before or after os.replace.       *)
Crash(h) ==
  LET alive == {t \in Tasks : home[t] = h /\ at[t] \in Holding \cup {"locking"}} IN
  /\ alive # {}
  /\ Drop({t \in alive : at[t] \in Holding})
  /\ exchange' = [t \in Tasks |-> IF t \in alive THEN Stage("none") ELSE exchange[t]]
  /\ at' = [t \in Tasks |-> IF t \in alive THEN "done" ELSE at[t]]
  /\ result' = [t \in Tasks |-> IF t \in alive THEN "abandoned" ELSE result[t]]
  /\ UNCHANGED <<home, account, file, misread, issued, valid, expired, forced, seen,
                 cred, tries, copy, overlap>>

-----------------------------------------------------------------------------

Step(t) ==
  \/ \E force \in BOOLEAN : Call(t, force)
  \/ FindNothing(t) \/ ReturnStored(t) \/ Begin(t) \/ Refused(t) \/ Lose(t)
  \/ Load(t) \/ Write(t) \/ WriteFails(t) \/ Cancel(t)

Next ==
  \/ \E t \in Tasks : Step(t) \/ \E rotate \in BOOLEAN : Serve(t, rotate)
  \/ \E s \in strays, rotate \in BOOLEAN : ServeStray(s[1], s[2], rotate)
  \/ \E p \in Providers : Expire(p)
  \/ \E h \in Processes : Crash(h)

Spec == Init /\ [][Next]_vars

-----------------------------------------------------------------------------

(* Nothing has gone wrong that ensure_fresh has no remedy for: every       *)
(* exchange of p was followed to its end, and no two processes were        *)
(* renewing at once (in any account: they share the file).                 *)
Undisturbed(p) == p \notin mishaps /\ ~overlap

InHand(p) == \E t \in Tasks :
  account[t] = p /\ at[t] \in Holding /\ exchange[t].stage = "granted"

(* A put() that could not read the file has left p's entry out of it.      *)
LeftOut(p) == p \in misread /\ file[p] = NoCredential

(* The session is never lost: the file holds the refresh token the vendor  *)
(* accepts, or the call that has just exchanged it still has to store it,  *)
(* whatever other calls of the process do, forced or not, and whether or   *)
(* not the vendor rotates.  Only a read that fails while another account   *)
(* is stored may cost it, and then the whole entry; a read that fails      *)
(* while this one is stored, or looked up, does not.                       *)
(* (ensure_fresh, refresh_credential, put, _load_raw)                      *)
SessionKept == \A p \in Providers :
  Undisturbed(p) => file[p].refresh = valid[p] \/ InHand(p) \/ LeftOut(p)

(* A user is asked to log in again only if something went wrong with an    *)
(* exchange: the calls of one process do not make each other fail.  And    *)
(* nobody is told that there is no credential, in any circumstances, but   *)
(* after a read that failed.  (ensure_fresh, _get_lock, _load_raw, put)    *)
ReauthHasACause == \A t \in Tasks :
  /\ result[t] = "reauth" => ~Undisturbed(account[t])
  /\ result[t] = "missing" => account[t] \in misread

(* "A burst of requests only triggers one refresh call": without a 401, a  *)
(* token is renewed only after it has expired, however many calls of one   *)
(* process find it expired.  (ensure_fresh, needs_refresh)                 *)
OneRefreshPerExpiry == \A p \in Providers :
  Undisturbed(p) /\ (\A t \in Tasks : account[t] = p => ~forced[t]) =>
    issued[p] <= expired[p] + 1

(* The credential a call returns had not expired when the call was made.   *)
(* (ensure_fresh, needs_refresh, map_tokens)                               *)
ReturnedIsFresh == \A t \in Tasks :
  result[t] = "fresh" => cred[t].access > seen[t]
=============================================================================
