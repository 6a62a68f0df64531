-------------------------- MODULE SnapshotsProofs --------------------------
(***************************************************************************)
(* Theorems about Snapshots, for any work, any names and any number of     *)
(* stashes and faults.                                                     *)
(***************************************************************************)
EXTENDS Snapshots, WellFoundedInduction, TLAPS

-----------------------------------------------------------------------------
(* Sequences                                                               *)

(* What the list shows when a stash has been pushed in front of it.        *)
LEMMA Pushed ==
  ASSUME NEW S, NEW s \in Seq(S), NEW e \in S
  PROVE  /\ <<e>> \o s \in Seq(S)
         /\ <<e>> \o s # <<>> /\ Head(<<e>> \o s) = e
         /\ ToSet(<<e>> \o s) = ToSet(s) \cup {e}
<1> DEFINE p == <<e>> \o s
<1>1. /\ p \in Seq(S) /\ Len(p) = Len(s) + 1 /\ p[1] = e
      /\ \A i \in 1 .. Len(s) : p[i + 1] = s[i]
  OBVIOUS
<1> HIDE DEF p
<1>2. p # <<>> /\ Head(p) = e
  BY <1>1
<1>3. ToSet(p) \subseteq ToSet(s) \cup {e}
  <2>1. ASSUME NEW i \in DOMAIN p PROVE p[i] \in ToSet(s) \cup {e}
    <3>1. i = 1 \/ (i - 1 \in 1 .. Len(s) /\ p[i] = s[i - 1])
      BY <1>1
    <3> QED BY <1>1, <3>1 DEF ToSet
  <2> QED BY <2>1 DEF ToSet
<1>4. ToSet(s) \cup {e} \subseteq ToSet(p)
  <2>1. e \in ToSet(p)
    BY <1>1 DEF ToSet
  <2>2. ASSUME NEW i \in DOMAIN s PROVE s[i] \in ToSet(p)
    <3>1. i + 1 \in DOMAIN p /\ p[i + 1] = s[i]
      BY <1>1
    <3> QED BY <3>1 DEF ToSet
  <2> QED BY <2>1, <2>2 DEF ToSet
<1> QED BY <1>1, <1>2, <1>3, <1>4 DEF p

(* Removing one entry loses no other.                                      *)
LEMMA Removed ==
  ASSUME NEW S, NEW s \in Seq(S), NEW i \in DOMAIN s
  PROVE  /\ RemoveAt(s, i) \in Seq(S)
         /\ ToSet(RemoveAt(s, i)) \subseteq ToSet(s)
         /\ ToSet(s) \subseteq ToSet(RemoveAt(s, i)) \cup {s[i]}
<1> DEFINE r == RemoveAt(s, i)
<1>1. /\ r \in Seq(S) /\ Len(r) = Len(s) - 1
      /\ \A j \in 1 .. Len(s) - 1 : r[j] = IF j < i THEN s[j] ELSE s[j + 1]
  <2> DEFINE a == SubSeq(s, 1, i - 1)
             b == SubSeq(s, i + 1, Len(s))
  <2>1. a \in Seq(S) /\ Len(a) = i - 1 /\ \A j \in 1 .. i - 1 : a[j] = s[j]
    OBVIOUS
  <2>2. /\ b \in Seq(S) /\ Len(b) = Len(s) - i
        /\ \A j \in 1 .. Len(s) - i : b[j] = s[j + i]
    OBVIOUS
  <2>3. r = a \o b
    BY DEF RemoveAt
  <2> HIDE DEF a, b, r
  <2>4. /\ r \in Seq(S) /\ Len(r) = Len(s) - 1
        /\ \A j \in 1 .. Len(s) - 1 : r[j] = IF j < i THEN a[j] ELSE b[j - (i - 1)]
    BY <2>1, <2>2, <2>3
  <2>5. ASSUME NEW j \in 1 .. Len(s) - 1
        PROVE  r[j] = IF j < i THEN s[j] ELSE s[j + 1]
    <3>1. CASE j < i
      BY <2>1, <2>4, <3>1
    <3>2. CASE j >= i
      <4>1. j - (i - 1) \in 1 .. Len(s) - i /\ (j - (i - 1)) + i = j + 1
        BY <3>2
      <4>2. b[j - (i - 1)] = s[j + 1]
        BY <2>2, <4>1
      <4> QED BY <2>4, <3>2, <4>2
    <3> QED BY <3>1, <3>2
  <2> QED BY <2>4, <2>5
<1> HIDE DEF r
<1>2. ToSet(r) \subseteq ToSet(s)
  <2>1. ASSUME NEW j \in DOMAIN r PROVE r[j] \in ToSet(s)
    <3>1. j \in 1 .. Len(s) /\ j + 1 \in 1 .. Len(s) /\ r[j] \in {s[j], s[j + 1]}
      BY <1>1
    <3> QED BY <3>1 DEF ToSet
  <2> QED BY <2>1 DEF ToSet
<1>3. ToSet(s) \subseteq ToSet(r) \cup {s[i]}
  <2>1. ASSUME NEW j \in DOMAIN s, j # i PROVE s[j] \in ToSet(r)
    <3>1. CASE j < i
      <4>1. j \in DOMAIN r /\ r[j] = s[j]
        BY <1>1, <3>1
      <4> QED BY <4>1 DEF ToSet
    <3>2. CASE j > i
      <4>1. j - 1 \in DOMAIN r /\ r[j - 1] = s[j]
        BY <1>1, <3>2
      <4> QED BY <4>1 DEF ToSet
    <3> QED BY <2>1, <3>1, <3>2
  <2> QED BY <2>1 DEF ToSet
<1> QED BY <1>1, <1>2, <1>3 DEF r

(* Min of natural numbers is one of them: < is well-founded.               *)
LEMMA Smallest ==
  ASSUME NEW S \in SUBSET Nat, S # {}
  PROVE  Min(S) \in S
<1> DEFINE R == OpToRel(<, Nat)
<1>1. IsWellFoundedOn(R, Nat)
  BY NatLessThanWellFounded
<1>2. \A x, y \in Nat : <<y, x>> \in R <=> y < x
  BY DEF OpToRel
<1> HIDE DEF R
<1>3. PICK x \in S : \A y \in S : <<y, x>> \notin R
  BY <1>1, WFMin
<1>4. ASSUME NEW y \in S PROVE x =< y
  <2>1. ~(y < x)
    BY <1>2, <1>3
  <2> QED BY <2>1
<1>5. \E z \in S : \A y \in S : z =< y
  BY <1>4
<1> QED BY <1>5 DEF Min

-----------------------------------------------------------------------------
(* The inductive invariant                                                 *)

(* A tag's snapshot, when no fault left it incomplete: it knows its        *)
(* commit, and owns a stash that shows the tag, holds what was promised    *)
(* and has not been lost except by hand.                                   *)
Fine(t) ==
  /\ meta[t].kept => meta[t].pinned
  /\ meta[t].stash # 0 =>
       /\ meta[t].kept
       /\ meta[t].stash \in ToSet(list) \cup taken
       /\ objects[meta[t].stash] = [base |-> meta[t].head, content |-> promised[t], tag |-> t]
  /\ meta[t].kept /\ meta[t].stash = 0 => meta[t].head = promised[t]

StashObjects == [base : SUBSET Pieces, content : SUBSET Pieces, tag : Tags \cup {"none"}]

(* git deletes no stash that it lists.                                     *)
StashesOK ==
  /\ objects \in Seq(StashObjects)
  /\ list \in Seq(DOMAIN objects)
  /\ pruned \subseteq DOMAIN objects
  /\ taken \subseteq DOMAIN objects
  /\ pruned \cap ToSet(list) = {}

RecordsOK ==
  /\ meta \in [Tags -> Snapshots]
  /\ promised \in [Tags -> SUBSET Pieces]
  /\ doubtful \subseteq Tags
  /\ faults \in 0 .. MaxFaults

RunOK ==
  /\ run \in {"idle", "acting", "passed", "rolled_back", "ended"}
  /\ attempt \in 0 .. MaxAttempts
  /\ last \in [did : {"none", "captured", "raised", "restored", "refused", "discarded"},
               tag : Tags \cup {"none"}]

(* A snapshot's stash has been made, also where a fault left the rest      *)
(* incomplete.                                                             *)
Made == \A t \in Tags : meta[t].stash # 0 => meta[t].stash \in DOMAIN objects

(* The run that works has a snapshot to go back to.                        *)
Armed == run = "acting" => meta["speculative"].kept \/ "speculative" \in doubtful

IInv ==
  /\ head \subseteq Pieces /\ tree \subseteq Pieces
  /\ StashesOK
  /\ RecordsOK
  /\ RunOK
  /\ Made
  /\ Armed
  /\ \A t \in Tags \ doubtful : Fine(t)

(* The invariant contains what is to be shown.                             *)
LEMMA InvImplies == IInv => TypeOK /\ SnapshotsIntact
<1> SUFFICES ASSUME IInv PROVE TypeOK /\ SnapshotsIntact
  OBVIOUS
<1>1. TypeOK
  BY DEF IInv, StashesOK, RecordsOK, RunOK, TypeOK, StashObjects
<1>2. \A t \in Tags \ doubtful : Fine(t)
  BY DEF IInv
<1>3. ASSUME NEW t \in Tags \ doubtful
      PROVE  /\ meta[t].stash # 0 =>
                  /\ meta[t].stash \in ToSet(list) \cup taken
                  /\ objects[meta[t].stash].base = meta[t].head
                  /\ objects[meta[t].stash].content = promised[t]
             /\ meta[t].kept /\ meta[t].stash = 0 => meta[t].head = promised[t]
  <2>1. Fine(t)
    BY <1>2, <1>3
  <2> QED BY <2>1 DEF Fine
<1> QED BY <1>1, <1>3 DEF SnapshotsIntact

LEMMA InvInit == Init => IInv
<1> SUFFICES ASSUME Init PROVE IInv
  OBVIOUS
<1>1. head \subseteq Pieces /\ tree \subseteq Pieces
  BY DEF Init
<1>2. StashesOK
  BY DEF Init, StashesOK, ToSet
<1>3. RecordsOK /\ RunOK /\ Made /\ Armed
  BY BoundsAssumption DEF Init, RecordsOK, RunOK, Made, Armed, None, Snapshots, Quiet
<1>4. \A t \in Tags : Fine(t)
  BY DEF Init, Fine, None
<1> QED BY <1>1, <1>2, <1>3, <1>4 DEF IInv

-----------------------------------------------------------------------------
(* Stashes                                                                 *)

(* Nothing that was listed or taken by hand is lost, and no stash changes. *)
Grows ==
  /\ StashesOK'
  /\ DOMAIN objects \subseteq DOMAIN objects'
  /\ \A s \in DOMAIN objects : objects'[s] = objects[s]
  /\ ToSet(list) \cup taken \subseteq ToSet(list') \cup taken'

(* Steps under which the stashes only grow.                                *)
LEMMA Rested ==
  ASSUME StashesOK, UNCHANGED <<stashes, taken>>
  PROVE  Grows
BY DEF StashesOK, Grows, stashes

LEMMA StashPushed ==
  ASSUME StashesOK, head \subseteq Pieces, tree \subseteq Pieces,
         NEW t \in Tags \cup {"none"}, StashPush(t), UNCHANGED taken
  PROVE  /\ Grows
         /\ Len(objects') \in 1 .. MaxStashes /\ Len(objects') \in DOMAIN objects'
         /\ objects'[Len(objects')] = [base |-> head, content |-> tree, tag |-> t]
         /\ list' # <<>> /\ Head(list') = Len(objects')
         /\ Len(objects') \in ToSet(list')
<1> DEFINE o == [base |-> head, content |-> tree, tag |-> t]
           n == Len(objects')
<1>1. o \in StashObjects
  BY DEF StashObjects
<1>2. objects' = Append(objects, o) /\ list' = <<n>> \o list /\ pruned' = pruned
      /\ Len(objects) < MaxStashes /\ taken' = taken
  BY DEF StashPush
<1> HIDE DEF o
<1>3. /\ objects' \in Seq(StashObjects) /\ n = Len(objects) + 1 /\ objects'[n] = o
      /\ \A s \in DOMAIN objects : objects'[s] = objects[s]
      /\ DOMAIN objects = 1 .. Len(objects) /\ DOMAIN objects' = 1 .. n
      /\ Len(objects) \in Nat
  BY <1>1, <1>2 DEF StashesOK
<1> HIDE DEF n
<1>4. n \in DOMAIN objects' /\ n \notin DOMAIN objects /\ DOMAIN objects \subseteq DOMAIN objects'
      /\ n \in 1 .. MaxStashes
  BY <1>2, <1>3, BoundsAssumption
<1>5. list \in Seq(DOMAIN objects')
  BY <1>4 DEF StashesOK
<1>6. /\ list' \in Seq(DOMAIN objects') /\ list' # <<>> /\ Head(list') = n
      /\ ToSet(list') = ToSet(list) \cup {n}
  BY <1>2, <1>4, <1>5, Pushed
<1>7. Grows
  BY <1>2, <1>3, <1>4, <1>6 DEF Grows, StashesOK
<1> QED BY <1>3, <1>4, <1>6, <1>7 DEF o, n

LEMMA StashTaken ==
  ASSUME StashesOK, NEW i \in DOMAIN list, list' = RemoveAt(list, i),
         taken' = taken \cup {list[i]}, UNCHANGED <<objects, pruned>>
  PROVE  Grows
<1>1. /\ list' \in Seq(DOMAIN objects) /\ list[i] \in DOMAIN objects
      /\ ToSet(list') \subseteq ToSet(list)
      /\ ToSet(list) \subseteq ToSet(list') \cup {list[i]}
  BY Removed DEF StashesOK
<1> QED BY <1>1 DEF StashesOK, Grows

LEMMA Pruned ==
  ASSUME StashesOK, NEW s \in DOMAIN objects \ pruned, Prune(s)
  PROVE  Grows
BY DEF StashesOK, Grows, Prune

(* As long as they do, a snapshot stays fine while its record does.        *)
LEMMA KeepFine ==
  ASSUME NEW t \in Tags, Fine(t), Made, Grows, meta'[t] = meta[t], promised'[t] = promised[t]
  PROVE  Fine(t)'
BY DEF Fine, Made, Grows

(* "git stash drop" of a tag takes no stash of another one.                *)
LEMMA Dropped ==
  ASSUME StashesOK, NEW t \in Tags, Drop(t), UNCHANGED <<objects, pruned, taken>>
  PROVE  /\ StashesOK'
         /\ \A s \in ToSet(list) : objects[s].tag # t => s \in ToSet(list')
<1> DEFINE shown == {i \in DOMAIN list : objects[list[i]].tag = t}
<1>1. CASE shown = {}
  BY <1>1 DEF Drop, StashesOK
<1>2. CASE shown # {}
  <2>1. shown \in SUBSET Nat
    BY DEF StashesOK
  <2>2. Min(shown) \in shown
    BY <1>2, <2>1, Smallest
  <2>3. PICK i \in shown : list' = RemoveAt(list, i)
    BY <1>2, <2>2 DEF Drop
  <2>4. i \in DOMAIN list /\ objects[list[i]].tag = t
    BY <2>3
  <2>5. /\ list' \in Seq(DOMAIN objects)
        /\ ToSet(list') \subseteq ToSet(list)
        /\ ToSet(list) \subseteq ToSet(list') \cup {list[i]}
    BY <2>3, <2>4, Removed DEF StashesOK
  <2> QED BY <2>4, <2>5 DEF StashesOK
<1> QED BY <1>1, <1>2

-----------------------------------------------------------------------------
(* Steps                                                                   *)

(* What a step by hand, or one that only looks, does to the records.       *)
LEMMA RecordsKept ==
  ASSUME IInv, Grows, head' \subseteq Pieces, tree' \subseteq Pieces,
         UNCHANGED <<meta, promised, doubtful>>, faults' \in 0 .. MaxFaults,
         RunOK', run' = "acting" => run = "acting"
  PROVE  IInv'
<1>1. StashesOK' /\ RecordsOK' /\ Made' /\ Armed'
  BY DEF IInv, Grows, RecordsOK, Made, Armed
<1>2. ASSUME NEW t \in Tags \ doubtful PROVE Fine(t)'
  BY <1>2, KeepFine DEF IInv
<1> QED BY <1>1, <1>2 DEF IInv

(* A tree a stash is applied to contains nothing but pieces of work.       *)
LEMMA AppliedInPieces ==
  ASSUME StashesOK, NEW s \in DOMAIN objects, NEW onto \in SUBSET Pieces
  PROVE  Applied(s, onto) \subseteq Pieces
<1>1. objects[s] \in StashObjects
  BY DEF StashesOK
<1> QED BY <1>1 DEF Applied, StashObjects

LEMMA BetweenInPieces ==
  ASSUME NEW A \in SUBSET Pieces, NEW B \in SUBSET Pieces, NEW C \in Between(A, B)
  PROVE  C \subseteq Pieces
BY DEF Between

(* Nothing done by hand takes a snapshot's stash unnoticed.                *)
LEMMA ByHandKeeps ==
  ASSUME IInv, ByHand
  PROVE  IInv'
<1>1. /\ RunOK' /\ run' = run /\ faults' \in 0 .. MaxFaults
      /\ UNCHANGED <<meta, promised, doubtful>>
  BY DEF ByHand, IInv, RunOK, RecordsOK, Quiet
<1>2. head \in SUBSET Pieces /\ tree \in SUBSET Pieces /\ StashesOK
  BY DEF IInv
<1>3. CASE Edit \/ Commit \/ Undo
  <2>1. head' \subseteq Pieces /\ tree' \subseteq Pieces
    BY <1>2, <1>3, BetweenInPieces DEF Edit, Commit, Undo
  <2>2. Grows
    BY <1>2, <1>3, Rested DEF Edit, Commit, Undo
  <2> QED BY <1>1, <2>1, <2>2, RecordsKept
<1>4. CASE StashSave
  <2>1. Grows
    BY <1>2, <1>4, StashPushed DEF StashSave
  <2> QED BY <1>1, <1>2, <1>4, <2>1, RecordsKept DEF StashSave, StashPush
<1>5. ASSUME NEW i \in DOMAIN list, StashDrop(i) \/ StashPop(i)
      PROVE  IInv'
  <2>1. Grows
    BY <1>2, <1>5, StashTaken DEF StashDrop, StashPop
  <2>2. list[i] \in DOMAIN objects
    BY <1>2 DEF StashesOK
  <2>3. head' \subseteq Pieces /\ tree' \subseteq Pieces
    BY <1>2, <1>5, <2>2, AppliedInPieces DEF StashDrop, StashPop
  <2> QED BY <1>1, <2>1, <2>3, RecordsKept
<1>6. ASSUME NEW s \in DOMAIN objects \ pruned, Prune(s)
      PROVE  IInv'
  <2>1. Grows
    BY <1>2, <1>6, Pruned
  <2> QED BY <1>1, <1>2, <1>6, <2>1, RecordsKept DEF Prune
<1> QED BY <1>3, <1>4, <1>5, <1>6 DEF ByHand

(* A capture that is recorded: its own snapshot is fine, the others are    *)
(* kept, or in doubt.                                                      *)
LEMMA CaptureKeeps ==
  ASSUME IInv, NEW t \in Tags, Captures(t)
  PROVE  /\ head' \subseteq Pieces /\ tree' \subseteq Pieces
         /\ StashesOK' /\ RecordsOK' /\ Made'
         /\ \A u \in Tags \ doubtful' : Fine(u)'
         /\ meta'[t].kept \/ t \in doubtful'
         /\ last' = [did |-> "captured", tag |-> t]
         /\ run = "acting" /\ t # "speculative"
              => meta'["speculative"].kept \/ "speculative" \in doubtful'
<1> DEFINE snap == [kept |-> TRUE, pinned |-> TRUE, head |-> head,
                    stash |-> IF tree = head THEN 0 ELSE Len(objects')]
<1>1. /\ head \in SUBSET Pieces /\ tree \in SUBSET Pieces /\ StashesOK /\ RecordsOK
      /\ UNCHANGED <<head, tree, taken>> /\ promised' = [promised EXCEPT ![t] = tree]
      /\ last' = [did |-> "captured", tag |-> t]
  BY DEF IInv, Captures, Answers
<1>2. Grows
  BY <1>1, Rested, StashPushed DEF Captures
<1>3. snap \in Snapshots
  <2>1. (IF tree = head THEN 0 ELSE Len(objects')) \in 0 .. MaxStashes
    <3>1. CASE tree = head
      BY <3>1, BoundsAssumption
    <3>2. CASE tree # head
      <4>1. StashPush(t) /\ UNCHANGED taken
        BY <3>2 DEF Captures
      <4>2. Len(objects') \in 1 .. MaxStashes
        BY <1>1, <4>1, StashPushed
      <4> QED BY <3>2, <4>2
    <3> QED BY <3>1, <3>2
  <2> QED BY <1>1, <2>1 DEF Snapshots
<1>4. promised' \in [Tags -> SUBSET Pieces] /\ promised'[t] = tree
      /\ \A u \in Tags \ {t} : promised'[u] = promised[u]
  BY <1>1 DEF RecordsOK
<1>5. ASSUME meta'[t] = snap PROVE Fine(t)'
  <2>1. CASE tree = head
    BY <1>1, <1>4, <1>5, <2>1 DEF Fine
  <2>2. CASE tree # head
    <3>1. /\ Len(objects') \in DOMAIN objects' /\ Len(objects') \in ToSet(list')
          /\ objects'[Len(objects')] = [base |-> head, content |-> tree, tag |-> t]
      BY <1>1, <2>2, StashPushed DEF Captures
    <3> QED BY <1>1, <1>4, <1>5, <2>2, <3>1 DEF Fine
  <2> QED BY <2>1, <2>2
<1>6. Record(t, snap)
  BY DEF Captures
<1> HIDE DEF snap
<1>7. ASSUME NEW u \in Tags \ doubtful, u # t, meta'[u] = meta[u]
      PROVE  Fine(u)'
  BY <1>2, <1>4, <1>7, KeepFine DEF IInv
<1>8. snap.kept = TRUE /\ (snap.stash # 0 => snap.stash \in DOMAIN objects')
  BY <1>1, StashPushed DEF snap, Captures
<1>12. ASSUME \A u \in Tags : meta'[u].stash \in {0, meta[u].stash, snap.stash} PROVE Made'
  BY <1>2, <1>8, <1>12 DEF Made, IInv, Grows
<1>9. CASE /\ meta' = [meta EXCEPT ![t] = snap]
           /\ doubtful' = doubtful \ {t}
           /\ NoFault
  <2>1. meta' \in [Tags -> Snapshots] /\ meta'[t] = snap
        /\ \A u \in Tags \ {t} : meta'[u] = meta[u]
    BY <1>1, <1>3, <1>9 DEF RecordsOK
  <2>2. RecordsOK'
    BY <1>1, <1>4, <1>9, <2>1 DEF RecordsOK, NoFault
  <2>3. \A u \in Tags \ doubtful' : Fine(u)'
    BY <1>5, <1>7, <1>9, <2>1
  <2>4. run = "acting" /\ t # "speculative"
          => meta'["speculative"].kept \/ "speculative" \in doubtful'
    BY <1>9, <2>1 DEF IInv, Armed, Tags
  <2>5. Made'
    BY <1>12, <2>1
  <2> QED BY <1>1, <1>2, <1>8, <2>1, <2>2, <2>3, <2>4, <2>5 DEF Grows
<1>10. CASE /\ meta' \in {meta, [meta EXCEPT ![t] = [snap EXCEPT !.pinned = FALSE]]}
            /\ doubtful' = doubtful \cup {t}
            /\ Fault
  <2>1. [snap EXCEPT !.pinned = FALSE] \in Snapshots
    BY <1>3 DEF Snapshots
  <2>2. meta' \in [Tags -> Snapshots] /\ \A u \in Tags \ {t} : meta'[u] = meta[u]
    BY <1>1, <1>10, <2>1 DEF RecordsOK
  <2>3. RecordsOK'
    BY <1>1, <1>4, <1>10, <2>2, BoundsAssumption DEF RecordsOK, Fault
  <2>4. \A u \in Tags \ doubtful' : Fine(u)'
    BY <1>7, <1>10, <2>2
  <2>5. run = "acting" /\ t # "speculative"
          => meta'["speculative"].kept \/ "speculative" \in doubtful'
    BY <1>10, <2>2 DEF IInv, Armed, Tags
  <2>6. meta'[t].stash \in {meta[t].stash, snap.stash}
    BY <1>1, <1>3, <1>10 DEF RecordsOK, Snapshots
  <2>7. Made'
    BY <1>12, <2>2, <2>6
  <2> QED BY <1>1, <1>2, <1>10, <2>3, <2>4, <2>5, <2>7 DEF Grows
<1>11. CASE /\ meta' = [u \in Tags |-> IF u = t THEN snap ELSE None]
            /\ doubtful' = Tags \ {t}
            /\ Fault
  <2>1. None \in Snapshots
    BY BoundsAssumption DEF None, Snapshots
  <2>2. meta' \in [Tags -> Snapshots] /\ meta'[t] = snap
    BY <1>3, <1>11, <2>1
  <2>3. RecordsOK'
    BY <1>1, <1>4, <1>11, <2>2, BoundsAssumption DEF RecordsOK, Fault
  <2>4. \A u \in Tags \ doubtful' : Fine(u)'
    BY <1>5, <1>11, <2>2
  <2>5. t # "speculative" => "speculative" \in doubtful'
    BY <1>11 DEF Tags
  <2>6. Made'
    BY <1>11, <1>12 DEF None
  <2> QED BY <1>1, <1>2, <1>8, <2>2, <2>3, <2>4, <2>5, <2>6 DEF Grows
<1> QED BY <1>6, <1>9, <1>10, <1>11 DEF Record

(* A capture that raises leaves the records alone.                         *)
LEMMA RaiseKeeps ==
  ASSUME IInv, NEW t \in Tags, CaptureRaises(t),
         RunOK', run' = "acting" => run = "acting"
  PROVE  IInv'
<1>1. head \in SUBSET Pieces /\ tree \in SUBSET Pieces /\ StashesOK /\ faults \in 0 .. MaxFaults
  BY DEF IInv, RecordsOK
<1>2. head' \subseteq Pieces /\ tree' \subseteq Pieces /\ faults' \in 0 .. MaxFaults
  BY <1>1, BoundsAssumption DEF CaptureRaises, StashPush, Fault
<1>3. Grows
  BY <1>1, Rested, StashPushed DEF CaptureRaises
<1> QED BY <1>2, <1>3, RecordsKept DEF CaptureRaises

(* A restore changes the tree and HEAD only.                               *)
LEMMA RestoreKeeps ==
  ASSUME IInv, NEW t \in Tags, Restore(t), RunOK', run' = "acting" => run = "acting"
  PROVE  IInv'
<1>1. /\ head \in SUBSET Pieces /\ tree \in SUBSET Pieces /\ StashesOK
      /\ faults \in 0 .. MaxFaults /\ meta[t] \in Snapshots
      /\ UNCHANGED <<stashes, meta, promised, doubtful, taken>>
  BY DEF IInv, RecordsOK, Restore
<1>2. BackTo(t) \in SUBSET Pieces
  BY <1>1 DEF BackTo, Snapshots
<1>3. faults' \in 0 .. MaxFaults
  BY <1>1, BoundsAssumption
     DEF Restore, NotKept, ResetFails, BackToCommit, Revive, ReviveFails, Fault, NoFault
<1>4. Grows
  BY <1>1, Rested
<1>5. ASSUME meta[t].stash # 0, head' = BackTo(t)
      PROVE  Applied(meta[t].stash, head') \in SUBSET Pieces
  BY <1>1, <1>2, <1>5, AppliedInPieces DEF IInv, Made
<1>6. head' \in SUBSET Pieces /\ tree' \in SUBSET Pieces
  <2>1. CASE NotKept(t)
    BY <1>1, <2>1 DEF NotKept
  <2>2. CASE ResetFails(t)
    BY <1>1, <1>2, <2>2 DEF ResetFails, Between
  <2>3. CASE BackToCommit(t)
    BY <1>2, <2>3 DEF BackToCommit
  <2>4. CASE Revive(t)
    BY <1>2, <1>5, <2>4 DEF Revive
  <2>5. CASE ReviveFails(t)
    BY <1>2, <1>5, <2>5, BetweenInPieces DEF ReviveFails
  <2> QED BY <2>1, <2>2, <2>3, <2>4, <2>5 DEF Restore
<1> QED BY <1>1, <1>3, <1>4, <1>6, RecordsKept

(* A discard takes the record and the stash of its own tag only.           *)
LEMMA DiscardKeeps ==
  ASSUME IInv, NEW t \in Tags, Discard(t), RunOK', run' # "acting"
  PROVE  IInv'
<1>1. /\ head' \subseteq Pieces /\ tree' \subseteq Pieces /\ StashesOK /\ RecordsOK
      /\ UNCHANGED <<objects, pruned, promised, taken>>
      /\ meta' \in {meta, [meta EXCEPT ![t] = None]}
      /\ UNCHANGED list \/ Drop(t)
      /\ doubtful \subseteq doubtful' /\ doubtful' \subseteq doubtful \cup {t}
      /\ faults' \in 0 .. MaxFaults
  BY BoundsAssumption DEF IInv, RecordsOK, Discard, Fault, NoFault
<1>2. /\ StashesOK'
      /\ \A s \in ToSet(list) : objects[s].tag # t => s \in ToSet(list')
  BY <1>1, Dropped DEF StashesOK
<1>3. None \in Snapshots
  BY BoundsAssumption DEF None, Snapshots
<1>4. meta' \in [Tags -> Snapshots] /\ \A u \in Tags \ {t} : meta'[u] = meta[u]
      /\ meta'[t] \in {meta[t], None}
  BY <1>1, <1>3 DEF RecordsOK
<1>5. RecordsOK' /\ Made' /\ Armed'
  BY <1>1, <1>4 DEF IInv, RecordsOK, Made, Armed, None
<1>6. ASSUME NEW u \in Tags \ doubtful', u # t
      PROVE  Fine(u)'
  <2>1. Fine(u) /\ meta'[u] = meta[u] /\ promised'[u] = promised[u]
    BY <1>1, <1>4, <1>6 DEF IInv
  <2>2. meta[u].stash # 0 => meta[u].stash \in ToSet(list') \cup taken'
    BY <1>1, <1>2, <1>6, <2>1 DEF Fine
  <2> QED BY <1>1, <2>1, <2>2 DEF Fine
<1>7. ASSUME t \notin doubtful'
      PROVE  Fine(t)'
  <2>1. CASE meta'[t] = None
    BY <2>1 DEF Fine, None
  <2>2. CASE meta'[t] # None
    <3>1. ~meta[t].kept /\ UNCHANGED <<meta, list>>
      BY <1>1, <1>7, <2>2 DEF Discard, RecordsOK
    <3>2. Fine(t)
      BY <1>1, <1>7 DEF IInv
    <3> QED BY <1>1, <3>1, <3>2 DEF Fine
  <2> QED BY <2>1, <2>2
<1> QED BY <1>1, <1>2, <1>5, <1>6, <1>7 DEF IInv

(* Every step keeps the invariant.                                         *)
LEMMA InvStep == IInv /\ [Next]_vars => IInv'
<1> SUFFICES ASSUME IInv, [Next]_vars PROVE IInv'
  OBVIOUS
<1>1. "speculative" \in Tags /\ Names \subseteq Tags /\ "speculative" \notin Names
  BY NamesAssumption DEF Tags
<1>2. RunOK /\ faults \in 0 .. MaxFaults
  BY DEF IInv, RecordsOK
<1>3. CASE Speculate
  <2>1. CASE Captures("speculative") /\ run' = "acting" /\ attempt' = 1
    <3>1. RunOK'
      BY <1>1, <2>1, CaptureKeeps, BoundsAssumption DEF RunOK
    <3> QED BY <1>1, <2>1, <3>1, CaptureKeeps DEF IInv, Armed
  <2>2. CASE CaptureRaises("speculative") /\ run' = "ended" /\ UNCHANGED attempt
    <3>1. RunOK'
      BY <1>1, <1>2, <2>2 DEF RunOK, CaptureRaises, Answers
    <3> QED BY <1>1, <2>2, <3>1, RaiseKeeps
  <2> QED BY <1>3, <2>1, <2>2 DEF Speculate
<1>4. CASE TestsPass
  <2>1. RunOK' /\ run' # "acting"
    BY <1>1, <1>2, <1>4 DEF RunOK, TestsPass, Discard, Answers
  <2> QED BY <1>1, <1>4, <2>1, DiscardKeeps DEF TestsPass
<1>5. CASE TryAgain \/ Abort
  <2>1. RunOK' /\ (run' = "acting" => run = "acting") /\ faults' \in 0 .. MaxFaults
    BY <1>2, <1>5, BoundsAssumption DEF RunOK, TryAgain, Abort, Quiet
  <2>2. Grows
    BY <1>5, Rested DEF IInv, TryAgain, Abort, repo, stashes
  <2>3. head' \subseteq Pieces /\ tree' \subseteq Pieces /\ UNCHANGED <<meta, promised, doubtful>>
    BY <1>5 DEF IInv, TryAgain, Abort, repo
  <2> QED BY <2>1, <2>2, <2>3, RecordsKept
<1>6. CASE GiveUp
  <2>1. RunOK' /\ run' # "acting"
    BY <1>1, <1>2, <1>6
       DEF RunOK, GiveUp, Restore, NotKept, ResetFails, BackToCommit, Revive, ReviveFails, Answers
  <2> QED BY <1>1, <1>6, <2>1, RestoreKeeps DEF GiveUp
<1>7. ASSUME NEW t \in Names, Fork(t)
      PROVE  IInv'
  <2>1. CASE Captures(t)
    <3>1. RunOK'
      BY <1>1, <1>2, <1>7, <2>1, CaptureKeeps DEF RunOK, Fork
    <3> QED BY <1>1, <1>7, <2>1, <3>1, CaptureKeeps DEF Fork, IInv, Armed
  <2>2. CASE CaptureRaises(t)
    <3>1. RunOK'
      BY <1>1, <1>2, <1>7, <2>2 DEF RunOK, Fork, CaptureRaises, Answers
    <3> QED BY <1>1, <1>7, <2>2, <3>1, RaiseKeeps DEF Fork
  <2> QED BY <1>7, <2>1, <2>2 DEF Fork
<1>8. ASSUME NEW t \in Tags, Rollback(t)
      PROVE  IInv'
  <2>1. RunOK' /\ run' = run
    BY <1>2, <1>8
       DEF RunOK, Rollback, Restore, NotKept, ResetFails, BackToCommit, Revive, ReviveFails, Answers
  <2> QED BY <1>8, <2>1, RestoreKeeps DEF Rollback
<1>9. CASE UNCHANGED vars
  <2>1. Grows
    BY <1>9, Rested DEF IInv, vars, repo, stashes
  <2> QED BY <1>9, <2>1, RecordsKept DEF IInv, RecordsOK, RunOK, vars, repo
<1> QED BY <1>3, <1>4, <1>5, <1>6, <1>7, <1>8, <1>9, ByHandKeeps DEF Next

(* The inductive invariant holds.                                          *)
LEMMA Invariant == Spec => []IInv
BY InvInit, InvStep, PTL DEF Spec

(* Trees, stashes and records are well formed at all times.                *)
THEOREM SnapshotsTypeCorrect == Spec => []TypeOK
BY Invariant, InvImplies, PTL

(* A kept snapshot can be restored: no capture and no discard, under its   *)
(* name or another, takes its stash or its record. (capture, discard,      *)
(* _save_metadata)                                                         *)
THEOREM SnapshotsStayIntact == Spec => []SnapshotsIntact
BY Invariant, InvImplies, PTL

-----------------------------------------------------------------------------
(* Restores and captures                                                   *)

(* A fine snapshot's stash applies to the snapshot's commit, and gives     *)
(* what was promised.                                                      *)
LEMMA FineApplies ==
  ASSUME IInv, NEW t \in Tags \ doubtful, meta[t].stash # 0
  PROVE  /\ BackTo(t) = objects[meta[t].stash].base
         /\ Applied(meta[t].stash, BackTo(t)) = promised[t]
<1>1. /\ BackTo(t) = meta[t].head
      /\ objects[meta[t].stash] = [base |-> meta[t].head, content |-> promised[t], tag |-> t]
  BY DEF IInv, Fine, BackTo
<1>2. /\ objects[meta[t].stash].base = BackTo(t)
      /\ objects[meta[t].stash].content = promised[t]
  BY <1>1
<1> QED BY <1>2 DEF Applied

(* A restore that succeeds brings back what was promised.                  *)
LEMMA RestoreDelivers ==
  ASSUME IInv, NEW t \in Tags, Restore(t), last'.did = "restored"
  PROVE  last'.tag = t /\ (tree' = promised[t] \/ t \in doubtful)
<1>1. BackToCommit(t) \/ Revive(t)
  BY DEF Restore, NotKept, ResetFails, ReviveFails, Answers
<1>2. last'.tag = t
  BY <1>1 DEF BackToCommit, Revive, Answers
<1>3. ASSUME t \notin doubtful PROVE tree' = promised[t]
  <2>1. CASE BackToCommit(t)
    BY <1>3, <2>1 DEF IInv, Fine, BackToCommit, BackTo
  <2>2. CASE Revive(t)
    BY <1>3, <2>2, FineApplies DEF Revive
  <2> QED BY <1>1, <2>1, <2>2
<1> QED BY <1>2, <1>3

(* A restore is refused when there is nothing to restore, or for an        *)
(* excuse.                                                                 *)
LEMMA RestoreRefuses ==
  ASSUME IInv, NEW t \in Tags, Restore(t), last'.did # "restored"
  PROVE  /\ last' = [did |-> "refused", tag |-> t]
         /\ Excused(t) \/ (~meta[t].kept /\ UNCHANGED <<tree, head>>)
<1>1. NotKept(t) \/ ResetFails(t) \/ ReviveFails(t)
  BY DEF Restore, BackToCommit, Revive, Answers
<1>2. last' = [did |-> "refused", tag |-> t]
  BY <1>1 DEF NotKept, ResetFails, ReviveFails, Answers
<1>3. Fault => faults' # faults
  BY BoundsAssumption DEF IInv, RecordsOK, Fault
<1>4. CASE NotKept(t) \/ ResetFails(t)
  BY <1>2, <1>3, <1>4 DEF NotKept, ResetFails, Excused
<1>5. CASE ReviveFails(t)
  <2>1. CASE MayFail(meta[t].stash, head') /\ t \notin doubtful
    <3>1. head' = BackTo(t) /\ meta[t].stash # 0
      BY <1>5 DEF ReviveFails
    <3>2. meta[t].stash \in pruned
      BY <2>1, <3>1, FineApplies DEF MayFail
    <3>3. meta[t].stash \in taken
      BY <2>1, <3>1, <3>2 DEF IInv, Fine, StashesOK
    <3> QED BY <1>2, <3>2, <3>3 DEF Excused
  <2>2. CASE t \in doubtful
    BY <1>2, <2>2 DEF Excused
  <2>3. CASE Fault
    BY <1>2, <1>3, <2>3 DEF Excused
  <2> QED BY <1>5, <2>1, <2>2, <2>3 DEF ReviveFails
<1> QED BY <1>1, <1>2, <1>4, <1>5

(* Only a restore answers "restored" or "refused", and only the one that   *)
(* gives up ends a working run as rolled back.                             *)
LEMMA OnlyRestore ==
  ASSUME Next, \/ last'.did \in {"restored", "refused"}
               \/ run = "acting" /\ run' = "rolled_back"
  PROVE  GiveUp \/ \E t \in Tags : Rollback(t)
<1>1. CASE ByHand \/ TryAgain \/ Abort
  BY <1>1 DEF ByHand, TryAgain, Abort, Quiet
<1>2. CASE Speculate \/ (\E t \in Names : Fork(t))
  BY <1>2 DEF Speculate, Fork, Captures, CaptureRaises, Answers
<1>3. CASE TestsPass
  BY <1>3 DEF TestsPass, Discard, Answers
<1> QED BY <1>1, <1>2, <1>3 DEF Next

(* A successful restore brings the tree back to what it was when the       *)
(* snapshot was taken, and so does a run that reports rolled_back, but for *)
(* a failure of git or a stash dropped by hand.  (restore, run_speculative)*)
THEOREM RestoresKeepThePromise == Spec => RestoredAsPromised
<1> DEFINE Promised ==
      last'.did = "restored" \/ (run = "acting" /\ run' = "rolled_back") =>
        \/ tree' = promised[last'.tag]
        \/ last'.tag \in doubtful
        \/ last'.did = "refused" /\ Excused(last'.tag)
<1>1. IInv /\ [Next]_vars => [Promised]_vars
  <2> SUFFICES ASSUME IInv, Next,
                      last'.did = "restored" \/ (run = "acting" /\ run' = "rolled_back")
               PROVE  \/ tree' = promised[last'.tag]
                      \/ last'.tag \in doubtful
                      \/ last'.did = "refused" /\ Excused(last'.tag)
    OBVIOUS
  <2>1. PICK t \in Tags : /\ Restore(t)
                          /\ run = "acting" /\ run' = "rolled_back" => t = "speculative"
    BY OnlyRestore DEF GiveUp, Rollback, Tags
  <2>2. CASE last'.did = "restored"
    BY <2>1, <2>2, RestoreDelivers
  <2>3. CASE last'.did # "restored"
    <3>1. last' = [did |-> "refused", tag |-> t]
      BY <2>1, <2>3, RestoreRefuses
    <3>2. meta[t].kept \/ t \in doubtful
      BY <2>1, <2>3 DEF IInv, Armed
    <3>3. t \in doubtful \/ Excused(t)
      BY <2>1, <2>3, <3>2, RestoreRefuses
    <3> QED BY <3>1, <3>3
  <2> QED BY <2>2, <2>3
<1> QED BY <1>1, Invariant, PTL DEF Spec, RestoredAsPromised

(* What fails costs nobody's work: a refused restore leaves tree and HEAD  *)
(* alone, but for a failure of git, an incomplete snapshot or a stash      *)
(* dropped by hand, and a capture that raises leaves the work in the tree  *)
(* or in the latest stash.  (capture, restore)                             *)
THEOREM FailuresLoseNothing == Spec => FailureLosesNothing
<1> DEFINE Spared ==
      /\ last'.did = "refused" => (tree' = tree /\ head' = head) \/ Excused(last'.tag)
      /\ last'.did = "raised" =>
           \/ tree' = tree
           \/ list' # <<>> /\ objects'[Head(list')].base = head
                           /\ objects'[Head(list')].content = tree
<1>1. IInv /\ [Next]_vars => [Spared]_vars
  <2> SUFFICES ASSUME IInv, Next PROVE Spared
    OBVIOUS
  <2>1. ASSUME last'.did = "refused"
        PROVE  (tree' = tree /\ head' = head) \/ Excused(last'.tag)
    <3>1. PICK t \in Tags : Restore(t)
      BY <2>1, OnlyRestore DEF GiveUp, Rollback, Tags
    <3>2. last'.tag = t /\ (Excused(t) \/ UNCHANGED <<tree, head>>)
      BY <2>1, <3>1, RestoreRefuses
    <3> QED BY <3>2
  <2>2. ASSUME last'.did = "raised", tree' # tree
        PROVE  list' # <<>> /\ objects'[Head(list')].base = head
                            /\ objects'[Head(list')].content = tree
    <3>1. PICK t \in Tags : CaptureRaises(t)
      <4>1. ~(ByHand \/ TryAgain \/ Abort \/ TestsPass)
        BY <2>2 DEF ByHand, TryAgain, Abort, TestsPass, Discard, Answers, Quiet
      <4>2. ~\E t \in Tags : Restore(t)
        BY <2>2, RestoreRefuses
      <4>3. Speculate \/ \E t \in Names : Fork(t)
        BY <4>1, <4>2 DEF Next, GiveUp, Rollback, Tags
      <4> QED BY <2>2, <4>3 DEF Speculate, Fork, Captures, Answers, Tags
    <3>2. StashPush(t) /\ UNCHANGED taken
      BY <2>2, <3>1 DEF CaptureRaises
    <3>3. /\ list' # <<>>
          /\ objects'[Head(list')] = [base |-> head, content |-> tree, tag |-> t]
      BY <3>2, StashPushed DEF IInv
    <3> QED BY <3>3
  <2> QED BY <2>1, <2>2
<1> QED BY <1>1, Invariant, PTL DEF Spec, FailureLosesNothing
=============================================================================
