----------------------------- MODULE Snapshots -----------------------------
(***************************************************************************)
(* Snapshots of a git workspace and what relies on them                    *)
(* (avo/speculative/runner.py): capture, restore and discard, the          *)
(* speculative run that takes a snapshot, lets the agent work and rolls    *)
(* back when the tests fail, and /fork and /rollback of the chat with the  *)
(* model's tools of the same effect.  All of them share one repository     *)
(* with the agent's edits and with commit, undo and stash by hand          *)
(* (avo/workspace/git.py).                                                 *)
(*                                                                         *)
(* The three methods wait for each git command without yielding, so within *)
(* the process nothing comes in between; a command that fails, or a        *)
(* process lost between two, is a fault.                                   *)
(*                                                                         *)
(* A tree is the set of the pieces of work it contains, and so is a        *)
(* commit; a stash is a tree and the commit it was made on.  The           *)
(* repository has a commit; ignored files are in no set.                   *)
(***************************************************************************)
EXTENDS Naturals, FiniteSetsExt, SequencesExt

CONSTANTS Pieces,      \* of work
          Names,       \* what /fork and create_checkpoint call a snapshot
          MaxAttempts, \* max_attempts
          MaxStashes,  \* bound on the stashes ever made
          MaxFaults    \* bound on what fails

Tags == Names \cup {"speculative"} \* a run's own tag is random: no other has it

ASSUME NamesAssumption == {"speculative", "none"} \cap Names = {}
ASSUME BoundsAssumption == MaxAttempts \in Nat \ {0} /\ MaxStashes \in Nat /\ MaxFaults \in Nat

VARIABLES
  \* the repository
  head,     \* what is committed
  tree,     \* what is in the working tree
  objects,  \* stashes ever made
  list,     \* those "git stash list" shows, the latest first
  pruned,   \* those git has deleted for good
  \* avo
  meta,     \* avo_snapshots.json
  run,      \* the speculative run
  attempt,
  last,     \* what the latest step of capture, restore or discard came to
  \* history
  promised, \* by tag: the tree when the snapshot was taken
  doubtful, \* tags whose snapshot, or its record, a fault left incomplete
  taken,    \* stashes dropped or popped by hand
  faults

stashes == <<objects, list, pruned>>
repo    == <<head, tree, stashes>>
vars    == <<repo, meta, run, attempt, last, promised, doubtful, taken, faults>>

Snapshots == [kept : BOOLEAN, pinned : BOOLEAN, head : SUBSET Pieces, stash : 0 .. MaxStashes]
None  == [kept |-> FALSE, pinned |-> FALSE, head |-> {}, stash |-> 0]
Quiet == [did |-> "none", tag |-> "none"]

TypeOK ==
  /\ head \subseteq Pieces /\ tree \subseteq Pieces
  /\ objects \in Seq([base : SUBSET Pieces, content : SUBSET Pieces, tag : Tags \cup {"none"}])
  /\ list \in Seq(DOMAIN objects)
  /\ pruned \subseteq DOMAIN objects
  /\ meta \in [Tags -> Snapshots]
  /\ run \in {"idle", "acting", "passed", "rolled_back", "ended"}
  /\ attempt \in 0 .. MaxAttempts
  /\ last \in [did : {"none", "captured", "raised", "restored", "refused", "discarded"},
               tag : Tags \cup {"none"}]
  /\ promised \in [Tags -> SUBSET Pieces]
  /\ doubtful \subseteq Tags
  /\ taken \subseteq DOMAIN objects
  /\ faults \in 0 .. MaxFaults

Init ==
  /\ head \in SUBSET Pieces /\ tree \in SUBSET Pieces
  /\ objects = <<>> /\ list = <<>> /\ pruned = {}
  /\ meta = [t \in Tags |-> None]
  /\ run = "idle" /\ attempt = 0
  /\ last = Quiet
  /\ promised = [t \in Tags |-> {}]
  /\ doubtful = {} /\ taken = {} /\ faults = 0

Answers(did, t) == last' = [did |-> did, tag |-> t]

Fault   == faults < MaxFaults /\ faults' = faults + 1
NoFault == UNCHANGED faults

-----------------------------------------------------------------------------
(* git                                                                     *)

(* What lies between two trees.                                            *)
Between(A, B) == {(A \cap B) \cup X : X \in SUBSET (A \cup B)}

(* "git stash push --include-untracked": nothing of tree stays in it.      *)
StashPush(t) ==
  /\ Len(objects) < MaxStashes
  /\ objects' = Append(objects, [base |-> head, content |-> tree, tag |-> t])
  /\ list' = <<Len(objects')>> \o list
  /\ UNCHANGED <<head, pruned>>

(* "git stash apply" to a tree: what the stash removed and added.          *)
Applied(s, onto) ==
  LET o == objects[s] IN (onto \ (o.base \ o.content)) \cup (o.content \ o.base)

(* On the commit it was made on a stash applies.                           *)
MayFail(s, onto) == s \in pruned \/ onto # objects[s].base

-----------------------------------------------------------------------------
(* What else happens in the repository                                     *)

(* The agent, its tools or an editor change files.                         *)
Edit ==
  /\ tree' \in SUBSET Pieces \ {tree}
  /\ UNCHANGED <<head, stashes, taken>>

(* commit(): what is staged, or all there is.                              *)
Commit ==
  /\ head' \in Between(head, tree) \ {head}
  /\ UNCHANGED <<tree, stashes, taken>>

(* rollback(), by /undo: back to what is staged, or to HEAD.               *)
Undo ==
  /\ tree' \in Between(head, tree) \ {tree}
  /\ UNCHANGED <<head, stashes, taken>>

StashSave == tree # head /\ StashPush("none") /\ tree' = head /\ UNCHANGED taken

StashDrop(i) ==
  /\ list' = RemoveAt(list, i)
  /\ taken' = taken \cup {list[i]}
  /\ UNCHANGED <<head, tree, objects, pruned>>

StashPop(i) ==
  /\ tree' = Applied(list[i], tree)
  /\ list' = RemoveAt(list, i)
  /\ taken' = taken \cup {list[i]}
  /\ UNCHANGED <<head, objects, pruned>>

(* "git gc" deletes a stash that is no longer listed.                      *)
Prune(s) ==
  /\ s \notin ToSet(list)
  /\ pruned' = pruned \cup {s}
  /\ UNCHANGED <<head, tree, objects, list, taken>>

ByHand ==
  /\ \/ Edit \/ Commit \/ Undo \/ StashSave
     \/ \E i \in DOMAIN list : StashDrop(i) \/ StashPop(i)
     \/ \E s \in DOMAIN objects \ pruned : Prune(s)
  /\ last' = Quiet
  /\ UNCHANGED <<meta, run, attempt, promised, doubtful, faults>>

-----------------------------------------------------------------------------
(* capture                                                                 *)

(* The entry is put into what could be read, and written.  Nobody is told  *)
(* when git could not say what HEAD is, or the file not be read or written.*)
Record(t, snap) ==
  \/ /\ meta' = [meta EXCEPT ![t] = snap]
     /\ doubtful' = doubtful \ {t}
     /\ NoFault
  \/ /\ meta' \in {meta, [meta EXCEPT ![t] = [snap EXCEPT !.pinned = FALSE]]}
     /\ doubtful' = doubtful \cup {t}
     /\ Fault
  \/ /\ meta' = [u \in Tags |-> IF u = t THEN snap ELSE None]
     /\ doubtful' = Tags \ {t}
     /\ Fault

(* A dirty tree is stashed and the stash, the latest, applied again.       *)
Captures(t) ==
  /\ IF tree = head THEN UNCHANGED stashes ELSE StashPush(t)
  /\ Record(t, [kept |-> TRUE, pinned |-> TRUE, head |-> head,
                stash |-> IF tree = head THEN 0 ELSE Len(objects')])
  /\ promised' = [promised EXCEPT ![t] = tree]
  /\ Answers("captured", t)
  /\ UNCHANGED <<head, tree, taken>>

(* A git command fails: what was stashed by then stays stashed.            *)
CaptureRaises(t) ==
  /\ \/ UNCHANGED <<head, tree, stashes>>
     \/ tree # head /\ StashPush(t) /\ tree' = head
  /\ Answers("raised", t)
  /\ Fault
  /\ UNCHANGED <<meta, promised, doubtful, taken>>

-----------------------------------------------------------------------------
(* restore                                                                 *)

(* Where "git reset --hard" leads.                                         *)
BackTo(t) == IF meta[t].pinned THEN meta[t].head ELSE head

(* Mutant: the tree is cleaned first.                                      *)
NotKeptCleaned(t) ==
  /\ ~meta[t].kept
  /\ tree' = head
  /\ Answers("refused", t) /\ NoFault
  /\ UNCHANGED head

(* The metadata has no such tag, or cannot be read.                        *)
NotKept(t) ==
  /\ (~meta[t].kept /\ NoFault) \/ Fault
  /\ Answers("refused", t)
  /\ UNCHANGED <<head, tree>>

(* Reset or clean fails, or the process is lost after it.                  *)
ResetFails(t) ==
  /\ meta[t].kept
  /\ head' \in {head, BackTo(t)}
  /\ tree' \in Between(BackTo(t), BackTo(t) \cup tree) \cup {tree}
  /\ Answers("refused", t) /\ Fault

(* Reset and clean, and nothing to apply.                                  *)
BackToCommit(t) ==
  /\ meta[t].kept /\ meta[t].stash = 0
  /\ head' = BackTo(t) /\ tree' = head'
  /\ Answers("restored", t) /\ NoFault

(* Mutant: "git stash apply", of the latest.                               *)
ReviveLatest(t) ==
  /\ meta[t].stash # 0 /\ list # <<>>
  /\ head' = BackTo(t) /\ tree' = Applied(Head(list), head')
  /\ Answers("restored", t) /\ NoFault

(* Reset, clean and "git stash apply" of the snapshot's own stash, listed  *)
(* or not.                                                                 *)
Revive(t) ==
  /\ meta[t].stash # 0 /\ meta[t].stash \notin pruned
  /\ head' = BackTo(t) /\ tree' = Applied(meta[t].stash, head')
  /\ Answers("restored", t) /\ NoFault

(* The stash does not apply: reset and clean again, unless that fails too. *)
(* That it is there is looked up before, with a command that accepts any   *)
(* full id, also of what git has deleted.                                  *)
ReviveFails(t) ==
  /\ meta[t].stash # 0
  /\ head' = BackTo(t)
  /\ \/ MayFail(meta[t].stash, head') /\ tree' = head' /\ NoFault
     \/ meta[t].stash \notin pruned /\ Fault
        /\ tree' \in Between(head', Applied(meta[t].stash, head'))
  /\ Answers("refused", t)

Restore(t) ==
  /\ NotKept(t) \/ ResetFails(t) \/ BackToCommit(t) \/ Revive(t) \/ ReviveFails(t)
  /\ UNCHANGED <<stashes, meta, promised, doubtful, taken>>

-----------------------------------------------------------------------------
(* discard                                                                 *)

(* Mutant: the latest stash.                                               *)
DropLatest(t) == list' = IF list # <<>> THEN Tail(list) ELSE list

(* "git stash drop" of the latest entry that shows the tag.  Its test is   *)
(* for a substring; only random tags are discarded, which no other holds.  *)
Drop(t) ==
  LET shown == {i \in DOMAIN list : objects[list[i]].tag = t} IN
  list' = IF shown = {} THEN list ELSE RemoveAt(list, Min(shown))

Discard(t) ==
  /\ \/ /\ ~meta[t].kept
        /\ UNCHANGED <<meta, list, doubtful>> /\ NoFault
     \/ /\ meta[t].kept
        /\ meta' = [meta EXCEPT ![t] = None]
        /\ IF meta[t].stash = 0 THEN UNCHANGED list ELSE Drop(t)
        /\ UNCHANGED doubtful /\ NoFault
     \* nothing is read or written, git drops nothing, or the process is lost
     \/ /\ Fault
        /\ meta' \in {meta, [meta EXCEPT ![t] = None]}
        /\ (meta[t].stash # 0 /\ Drop(t)) \/ UNCHANGED list
        /\ doubtful' = doubtful \cup {t}
  /\ Answers("discarded", t)
  /\ UNCHANGED <<head, tree, objects, pruned, promised, taken>>

-----------------------------------------------------------------------------
(* run_speculative: a snapshot, attempts, and the verdict of the tests     *)

Speculate ==
  /\ run = "idle"
  /\ \/ Captures("speculative") /\ run' = "acting" /\ attempt' = 1
     \/ CaptureRaises("speculative") /\ run' = "ended" /\ UNCHANGED attempt

TestsPass == run = "acting" /\ Discard("speculative") /\ run' = "passed" /\ UNCHANGED attempt

TryAgain ==
  /\ run = "acting" /\ attempt < MaxAttempts
  /\ attempt' = attempt + 1
  /\ last' = Quiet
  /\ UNCHANGED <<repo, meta, run, promised, doubtful, taken, faults>>

(* The last attempt failed: rolled_back, whatever restore answered.        *)
GiveUp ==
  /\ run = "acting" /\ attempt = MaxAttempts
  /\ Restore("speculative")
  /\ run' = "rolled_back" /\ UNCHANGED attempt

(* The agent raises or is cancelled, or the process is lost.               *)
Abort ==
  /\ run = "acting"
  /\ run' = "ended" /\ last' = Quiet
  /\ UNCHANGED <<repo, meta, attempt, promised, doubtful, taken, faults>>

(* /fork, create_checkpoint.                                               *)
Fork(t) == (Captures(t) \/ CaptureRaises(t)) /\ UNCHANGED <<run, attempt>>

(* /rollback, rollback_checkpoint: any tag may be asked for.               *)
Rollback(t) == Restore(t) /\ UNCHANGED <<run, attempt>>

Next ==
  \/ ByHand
  \/ Speculate \/ TestsPass \/ TryAgain \/ GiveUp \/ Abort
  \/ \E t \in Names : Fork(t)
  \/ \E t \in Tags : Rollback(t)

Spec == Init /\ [][Next]_vars

-----------------------------------------------------------------------------

Excused(t) == faults' # faults \/ t \in doubtful \/ meta[t].stash \in pruned \cap taken

(* "Roll back working directory to the exact state at capture time":       *)
(* whatever was committed, stashed, forked or rolled back since, a restore *)
(* that succeeds, and a run that reports rolled_back, leave the tree as it *)
(* was when the snapshot was taken.  The run reports it also when git      *)
(* failed or the stash was dropped by hand and deleted; then alone it may  *)
(* be untrue.  (capture, restore, run_speculative)                         *)
RestoredAsPromised ==
  [][last'.did = "restored" \/ (run = "acting" /\ run' = "rolled_back") =>
       \/ tree' = promised[last'.tag]
       \/ last'.tag \in doubtful
       \/ last'.did = "refused" /\ Excused(last'.tag)]_vars

(* What fails costs nobody's work: a restore that is refused leaves the    *)
(* tree and HEAD alone unless git failed, the snapshot was incomplete or   *)
(* its stash was dropped by hand and deleted, and a capture that raises    *)
(* leaves the work in the tree or in the latest stash.  (capture, restore) *)
FailureLosesNothing ==
  [][/\ last'.did = "refused" => (tree' = tree /\ head' = head) \/ Excused(last'.tag)
     /\ last'.did = "raised" =>
          \/ tree' = tree
          \/ list' # <<>> /\ objects'[Head(list')].base = head
                          /\ objects'[Head(list')].content = tree]_vars

(* A snapshot that is kept can be restored: no capture under the same name *)
(* or another, and no discard, takes its stash or its record from it;      *)
(* only dropping it by hand does.  (capture, discard, _save_metadata)      *)
SnapshotsIntact == \A t \in Tags \ doubtful :
  /\ meta[t].stash # 0 =>
       /\ meta[t].stash \in ToSet(list) \cup taken
       /\ objects[meta[t].stash].base = meta[t].head
       /\ objects[meta[t].stash].content = promised[t]
  /\ meta[t].kept /\ meta[t].stash = 0 => meta[t].head = promised[t]
=============================================================================
