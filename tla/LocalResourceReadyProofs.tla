------------------------- MODULE LocalResourceReadyProofs -------------------------
(***************************************************************************)
(* A theorem about what LocalResource reports, for any resources, files,   *)
(* versions and bounds: a resource that is Available has its file on the   *)
(* target branch, or has lost the commit of its create to an error.        *)
(*                                                                         *)
(* Observe never looks at the file.  It goes by footers, and by a commit   *)
(* that was recorded before, so the theorem rests on what both stand for:  *)
(* HeldInv says that a footer, a record and a worktree about to be         *)
(* committed each mean that the branch holds the file, or is about to,     *)
(* unless the resource is among the lost.                                  *)
(***************************************************************************)
EXTENDS LocalResourceCreateProofs

----------------------------------------------------------------------------------
(* Histories that take nothing away.                                       *)

\* What a commit shows of a file: the file, or a footer of a resource that writes it.
Shows(c, f) == c.tree[f] # Absent \/ (c.by \in CR /\ FileOf[c.by] = f)

\* What any commit of a history shows, its tip holds.
Keeps(history) == \A i \in 1..Len(history), f \in File :
                     Shows(history[i], f) => Tree(history)[f] # Absent

\* The target branch holds the resource's file.
Held(r) == Tree(branch)[FileOf[r]] # Absent

\* The resource says so: its condition, or a commit recorded for it.
Says(r) == \/ ready[r] = "Available"
           \/ copy[r].ready = "Available"
           \/ \E h \in Records(r) : h # << >>

HeldInv ==
  /\ Keeps(branch)
  /\ \A r \in CR : Says(r) => Held(r) \/ r \in lost
  /\ \A r \in CR : pc[r] = "commit" => work[r][FileOf[r]] # Absent

\* A commit that takes no file away, and whose footer is true, keeps a history so.
LEMMA KeepsAppended ==
  ASSUME NEW h \in Seq(Commit), Keeps(h), NEW c \in Commit,
         \A f \in File : Tree(h)[f] # Absent \/ (c.by \in CR /\ FileOf[c.by] = f) =>
                           c.tree[f] # Absent
  PROVE  /\ Keeps(Append(h, c))
         /\ \A f \in File : Tree(h)[f] # Absent => Tree(Append(h, c))[f] # Absent
<1> DEFINE g == Append(h, c)
<1>1. /\ g \in Seq(Commit) /\ Len(h) \in Nat /\ Len(g) = Len(h) + 1
      /\ \A i \in 1..Len(h) : g[i] = h[i]
      /\ g[Len(h) + 1] = c
  BY LenProperties, AppendProperties
<1>2. Tree(g) = c.tree
  <2>1. g # << >>
    BY <1>1, EmptySeq
  <2> HIDE DEF g
  <2> QED BY <1>1, <2>1 DEF Tree, Git!Tree
<1> HIDE DEF g
<1>3. ASSUME NEW i \in 1..Len(g), NEW f \in File, Shows(g[i], f)
      PROVE  Tree(g)[f] # Absent
  <2>1. CASE i = Len(h) + 1
    BY <1>1, <1>2, <1>3, <2>1 DEF Shows
  <2>2. CASE i # Len(h) + 1
    <3>1. i \in 1..Len(h) /\ g[i] = h[i]
      BY <1>1, <2>2
    <3>2. Tree(h)[f] # Absent
      BY <1>3, <3>1 DEF Keeps
    <3> QED BY <1>2, <3>2
  <2> QED BY <2>1, <2>2
<1>4. Keeps(g)
  BY <1>3 DEF Keeps
<1>5. \A f \in File : Tree(h)[f] # Absent => Tree(g)[f] # Absent
  BY <1>2
<1> QED BY <1>4, <1>5 DEF g

\* What an earlier commit of a history holds, its tip holds.
LEMMA KeepsPrefix ==
  ASSUME NEW h \in Seq(Commit), Keeps(h), NEW p \in Seq(Commit), IsPrefix(p, h),
         NEW f \in File, Tree(p)[f] # Absent
  PROVE  Tree(h)[f] # Absent
<1>1. p # << >>
  BY DEF Tree, Git!Tree, Git!EmptyTree
<1>2. Len(p) \in 1..Len(p) /\ Len(p) <= Len(h) /\ Len(h) \in Nat /\ p[Len(p)] = h[Len(p)]
  BY <1>1, EmptySeq, LenProperties, PrefixElements
<1>3. Len(p) \in 1..Len(h)
  BY <1>2
<1>4. Shows(h[Len(p)], f)
  BY <1>1, <1>2 DEF Shows, Tree, Git!Tree
<1> QED BY <1>3, <1>4 DEF Keeps

\* A resource's commit on the branch.
LEMMA PublicationKeeps ==
  ASSUME TypeInv, Rooted, Keeps(branch), NEW r \in CR, NEW written \in Version, NEW hashed \in Version,
         branch' = Publication(r, Git!Base(branch), written, hashed)
  PROVE  /\ Keeps(branch')
         /\ \A f \in File : Tree(branch)[f] # Absent => Tree(branch')[f] # Absent
         /\ Tree(branch')[FileOf[r]] # Absent
<1>1. branch \in Seq(Commit)
  BY DEF TypeInv, TypeOK, ServerTypes
<1>2. Tree(branch) \in [File -> Version \union {Absent}] /\ FileOf[r] \in File
  BY <1>1, HistoryTypes, ResourceAssumption
<1> DEFINE c == [by |-> r, hash |-> hashed, tree |-> [Tree(branch) EXCEPT ![FileOf[r]] = written]]
<1>3. c \in Commit /\ Shows(c, FileOf[r])
  BY <1>2 DEF Commit, Shows
<1>4. branch' = Append(branch, c)
  BY DEF Publication, Rooted, Tree
<1>5. \A f \in File : Tree(branch)[f] # Absent \/ (c.by \in CR /\ FileOf[c.by] = f) =>
                        c.tree[f] # Absent
  BY <1>2, ResourceAssumption
<1> HIDE DEF c
<1>6. /\ Keeps(branch')
      /\ \A f \in File : Tree(branch)[f] # Absent => Tree(branch')[f] # Absent
  BY <1>1, <1>3, <1>4, <1>5, KeepsAppended
<1>7. Tree(branch')[FileOf[r]] # Absent
  <2>1. Len(branch') \in 1..Len(branch') /\ branch'[Len(branch')] = c
    BY <1>1, <1>3, <1>4, AppendProperties, LenProperties
  <2> QED BY <1>2, <1>3, <1>6, <2>1 DEF Keeps
<1> QED BY <1>6, <1>7

\* Somebody else's.
LEMMA OtherPushKeeps ==
  ASSUME TypeInv, Keeps(branch), OtherPush
  PROVE  /\ Keeps(branch')
         /\ \A f \in File : Tree(branch)[f] # Absent => Tree(branch')[f] # Absent
<1>1. branch \in Seq(Commit)
  BY DEF TypeInv, TypeOK, ServerTypes
<1> DEFINE c == [by |-> Other, hash |-> NoHash, tree |-> Tree(branch)]
<1>2. c \in Commit
  BY <1>1, HistoryTypes DEF Commit
<1>3. branch' = Append(branch, c)
  BY DEF OtherPush
<1>4. \A f \in File : Tree(branch)[f] # Absent \/ (c.by \in CR /\ FileOf[c.by] = f) =>
                        c.tree[f] # Absent
  BY ResourceAssumption
<1> HIDE DEF c
<1> QED BY <1>1, <1>2, <1>3, <1>4, KeepsAppended

\* No step takes a file away, and a resource's own push brings its file.
LEMMA StepKeeps ==
  ASSUME TypeInv, SyncInv, Rooted, Keeps(branch), [Next]_vars
  PROVE  /\ Keeps(branch')
         /\ \A f \in File : Tree(branch)[f] # Absent => Tree(branch')[f] # Absent
         /\ \A r \in CR : Push(r) \/ PushReplyLost(r) => Tree(branch')[FileOf[r]] # Absent
<1>1. ASSUME NEW r \in CR, Push(r) \/ PushReplyLost(r)
      PROVE  /\ Keeps(branch')
             /\ \A f \in File : Tree(branch)[f] # Absent => Tree(branch')[f] # Absent
             /\ Tree(branch')[FileOf[r]] # Absent
  <2>1. PICK written, hashed \in Version :
          branch' = Publication(r, Git!Base(branch), written, hashed)
    BY <1>1 DEF SyncInv, Shape, Push, PushReplyLost
  <2> QED BY <2>1, PublicationKeeps
<1>2. CASE UNCHANGED branch
  BY <1>1, <1>2
<1> QED BY <1>1, <1>2, OtherPushKeeps, StepLands

----------------------------------------------------------------------------------
(* What a resource says.                                                   *)

\* A copy of which a reconcile has replaced a part, and what it says then.
LEMMA CopySays ==
  ASSUME copy \in [CR -> Copies], NEW r \in CR, NEW q \in CR, NEW v, NEW b, NEW h, NEW d
  PROVE  LET c == copy[q]
             e(new) == new[q].target = c.target /\ new[q].name = c.name
         IN  /\ [copy EXCEPT ![r].ready = d][q].ready = IF q = r THEN d ELSE c.ready
             /\ e([copy EXCEPT ![r].ready = d])
             /\ [copy EXCEPT ![r].source = v, ![r].deleting = b][q].ready = c.ready
             /\ e([copy EXCEPT ![r].source = v, ![r].deleting = b])
             /\ [copy EXCEPT ![r].name = h][q].ready = c.ready
             /\ [copy EXCEPT ![r].name = h][q].target = c.target
             /\ [copy EXCEPT ![r].name = h][q].name = IF q = r THEN h ELSE c.name
<1> DEFINE H == Seq(Commit)
<1>1. Copies = [source : Version \union {Absent}, target : H, name : H, ready : Ready,
                deleting : BOOLEAN]
  BY DEF Copies
<1> HIDE DEF H
<1> QED BY <1>1

\* A reconcile that ends writes what its copy says, or nothing.
LEMMA EndSays ==
  ASSUME TypeInv, NEW r \in CR, NEW q \in CR, Forget(r), Says(q)',
         \/ ready'[q] = ready[q]
         \/ q = r /\ ready'[q] \in {copy[r].ready, "Deleting", "NotObserved"},
         \/ target'[q] = target[q]
         \/ q = r /\ target'[q] = copy[r].target,
         \/ name'[q] = name[q]
         \/ q = r /\ name'[q] = copy[r].name
  PROVE  Says(q)
<1>1. copy' = [copy EXCEPT ![r] = NoCopy] /\ copy \in [CR -> Copies]
  BY DEF Forget, TypeInv, TypeOK, MemoryTypes
<1>2. /\ copy'[q].ready \in {copy[q].ready, "none"}
      /\ copy'[q].target \in {copy[q].target, << >>}
      /\ copy'[q].name \in {copy[q].name, << >>}
  BY <1>1 DEF NoCopy
<1> QED BY <1>2 DEF Says, Records

\* A step of another resource's.
LEMMA OthersSay ==
  ASSUME NEW q \in CR, Says(q)', ready'[q] = ready[q], copy'[q] = copy[q], target'[q] = target[q],
         name'[q] = name[q]
  PROVE  Says(q)
BY DEF Says, Records

\* A resource says no more than it said, unless its reconcile has seen its file, pushed it, or
\* lost its commit.
LEMMA StepSays ==
  ASSUME TypeInv, RecordInv, HeldInv, [Next]_vars, NEW q \in CR, Says(q)'
  PROVE  Says(q) \/ Held(q) \/ Push(q) \/ PushReplyLost(q) \/ q \in lost'
<1> USE DEF TypeInv, TypeOK, MemoryTypes, ServerTypes
<1>1. ASSUME NEW r \in CR, Get(r) PROVE Says(q)
  BY <1>1 DEF Get, Snapshot, Says, Records, server
<1>2. ASSUME NEW r \in CR, ObserveDeleting(r) PROVE Says(q)
  <2>1. copy' = [copy EXCEPT ![r].ready = "Deleting"] /\ UNCHANGED <<ready, target, name>>
    BY <1>2 DEF ObserveDeleting, server
  <2>2. /\ copy'[q].ready = "Available" => copy[q].ready = "Available"
        /\ copy'[q].target = copy[q].target /\ copy'[q].name = copy[q].name
    BY <2>1, CopySays
  <2> QED BY <2>1, <2>2 DEF Says, Records
<1>3. ASSUME NEW r \in CR, ObserveDrifted(r) \/ ObserveFound(r) \/ ObserveMisses(r)
      PROVE  Says(q) \/ Held(q)
  <2>1. CASE q = r
    <3>1. PICK i \in 1..Len(branch) : branch[i].by = q
      BY <1>3, <2>1 DEF ObserveDrifted, ObserveFound, ObserveMisses, Own
    <3>2. Shows(branch[i], FileOf[q]) /\ FileOf[q] \in File
      BY <3>1, ResourceAssumption DEF Shows
    <3> QED BY <3>1, <3>2 DEF HeldInv, Keeps, Held
  <2>2. CASE q # r
    <3>1. UNCHANGED <<ready, target, name>>
      BY <1>3 DEF ObserveDrifted, ObserveFound, ObserveMisses, server
    <3>2. copy'[q] = copy[q]
      <4>1. CASE ObserveMisses(r)
        <5>1. CASE copy' = [copy EXCEPT ![r].name = Adopted(r), ![r].ready = "Available"]
          BY <2>2, <5>1
        <5>2. ASSUME NEW n \in 1..Len(branch),
                     copy' = [copy EXCEPT ![r].name = SubSeq(branch, 1, n),
                                          ![r].target = SubSeq(branch, 1, n),
                                          ![r].ready = "Available"]
              PROVE  copy'[q] = copy[q]
          BY <2>2, <5>2
        <5>3. branch \in Seq(Commit)
          OBVIOUS
        <5> QED BY <4>1, <5>1, <5>2, <5>3, MissesFinds, Zenon
      <4>2. CASE ObserveDrifted(r) \/ ObserveFound(r)
        BY <2>2, <4>2 DEF ObserveDrifted, ObserveFound
      <4> QED BY <1>3, <4>1, <4>2
    <3> QED BY <3>1, <3>2, OthersSay
  <2> QED BY <2>1, <2>2
<1>4. ASSUME NEW r \in CR, ObserveAbsent(r) PROVE Says(q)
  <2>1. copy' = [copy EXCEPT ![r].ready = "Unavailable"] /\ UNCHANGED <<ready, target, name>>
    BY <1>4 DEF ObserveAbsent, server
  <2>2. /\ copy'[q].ready = "Available" => copy[q].ready = "Available"
        /\ copy'[q].target = copy[q].target /\ copy'[q].name = copy[q].name
    BY <2>1, CopySays
  <2> QED BY <2>1, <2>2 DEF Says, Records
<1>5. ASSUME NEW r \in CR, ObserveRecorded(r) PROVE Says(q)
  <2>1. CASE q = r
    BY <1>5, <2>1 DEF ObserveRecorded, Adopted, Says, Records
  <2>2. CASE q # r
    <3>1. /\ copy'[q] = copy[q] /\ UNCHANGED <<ready, target, name>>
      BY <1>5, <2>2 DEF ObserveRecorded, server
    <3> QED BY <3>1, OthersSay
  <2> QED BY <2>1, <2>2
<1>6. ASSUME NEW r \in CR, ObserveFails(r) \/ Report(r) \/ Delete(r) \/ Release(r) \/ Done(r)
      PROVE  Says(q)
  <2>1. Forget(r)
    BY <1>6 DEF ObserveFails, Report, Delete, Release, Done
  <2>2. ready'[q] = ready[q] \/ (q = r /\ ready'[q] \in {copy[r].ready, "Deleting", "NotObserved"})
    BY <1>6 DEF ObserveFails, Report, Delete, Release, Done, WriteStatus
  <2>3. target'[q] = target[q] \/ (q = r /\ target'[q] = copy[r].target)
    BY <1>6 DEF ObserveFails, Report, Delete, Release, Done, WriteStatus
  <2>4. name'[q] = name[q] \/ (q = r /\ name'[q] = copy[r].name)
    BY <1>6 DEF ObserveFails, Report, Delete, Release, Done
  <2> QED BY <2>1, <2>2, <2>3, <2>4, EndSays
\* A sync that fails.
<1>7. ASSUME NEW r \in CR, Fail(r) PROVE Says(q)
  <2>1. Forget(r)
    BY <1>7 DEF Fail
  <2>2. ready'[q] = ready[q] \/ (q = r /\ ready'[q] \in {copy[r].ready, "Deleting", "NotObserved"})
    BY <1>7 DEF Fail
  <2>3. target'[q] = target[q] \/ (q = r /\ target'[q] = copy[r].target)
    BY <1>7 DEF Fail
  <2>4. name'[q] = name[q] \/ (q = r /\ name'[q] = copy[r].name)
    BY <1>7 DEF Fail
  <2> QED BY <2>1, <2>2, <2>3, <2>4, EndSays
<1>8. ASSUME NEW r \in CR, SyncFails(r) \/ PushReplyLost(r) \/ RecordFails(r) PROVE Says(q)
  BY <1>7, <1>8 DEF SyncFails, PushReplyLost, RecordFails
<1>9. ASSUME NEW r \in CR, UNCHANGED <<ready, target, name>>,
             \/ copy' = copy
             \/ copy' = [copy EXCEPT ![r].ready = "Creating"]
             \/ Forget(r)
      PROVE  Says(q)
  <2>1. CASE copy' = copy
    BY <1>9, <2>1, OthersSay
  <2>2. CASE copy' = [copy EXCEPT ![r].ready = "Creating"]
    <3>1. /\ copy'[q].ready = "Available" => copy[q].ready = "Available"
          /\ copy'[q].target = copy[q].target /\ copy'[q].name = copy[q].name
      BY <2>2, CopySays
    <3> QED BY <1>9, <3>1 DEF Says, Records
  <2>3. CASE Forget(r)
    BY <1>9, <2>3, EndSays
  <2> QED BY <1>9, <2>1, <2>2, <2>3
<1>10. ASSUME NEW r \in CR, \/ BeginCreate(r) \/ BeginUpdate(r) \/ Clone(r) \/ Write(r)
       PROVE  Says(q)
  <2>1. UNCHANGED <<ready, target, name>>
    BY <1>10 DEF BeginCreate, BeginUpdate, Clone, Write, server
  <2>2. copy' = copy \/ copy' = [copy EXCEPT ![r].ready = "Creating"] \/ Forget(r)
    BY <1>10 DEF BeginCreate, BeginUpdate, Clone, Write, memory
  <2> QED BY <1>9, <2>1, <2>2
<1>11. ASSUME NEW r \in CR, PushContended(r) PROVE Says(q)
  <2>1. CASE attempt[r] < PushSteps
    BY <1>9, <1>11, <2>1 DEF PushContended, server
  <2>2. CASE ~(attempt[r] < PushSteps)
    BY <1>7, <1>11, <2>2 DEF PushContended
  <2> QED BY <2>1, <2>2
<1>12. ASSUME NEW r \in CR, MakeCommit(r) PROVE Says(q) \/ Held(q)
  <2>1. UNCHANGED <<ready, target, name>>
    BY <1>12 DEF MakeCommit, server
  <2>2. CASE q = r /\ work[r] = Tree(local[r])
    <3>1. pc[r] = "commit" /\ FileOf[r] \in File
      BY <1>12, ResourceAssumption DEF MakeCommit
    <3>2. Tree(local[r])[FileOf[r]] # Absent
      BY <2>2, <3>1 DEF HeldInv
    <3>3. IsPrefix(local[r], branch) /\ Keeps(branch)
      BY <3>1 DEF RecordInv, HeldInv
    <3>4. local[r] \in Seq(Commit) /\ branch \in Seq(Commit)
      OBVIOUS
    <3> QED BY <2>2, <3>1, <3>2, <3>3, <3>4, KeepsPrefix DEF Held
  <2>3. CASE ~(q = r /\ work[r] = Tree(local[r]))
    <3>1. copy'[q] = copy[q]
      <4>1. CASE work[r] = Tree(local[r])
        <5>1. SetRecord(r, local[r])
          BY <1>12, <4>1 DEF MakeCommit
        <5> QED BY <2>3, <4>1, <5>1 DEF SetRecord
      <4>2. CASE work[r] # Tree(local[r])
        BY <1>12, <4>2 DEF MakeCommit
      <4> QED BY <4>1, <4>2
    <3> QED BY <2>1, <3>1, OthersSay
  <2> QED BY <2>2, <2>3
<1>13. ASSUME NEW r \in CR, Push(r) PROVE Says(q) \/ Push(q)
  <2>1. CASE q # r
    <3>1. copy'[q] = copy[q] /\ UNCHANGED <<ready, target, name>>
      BY <1>13, <2>1 DEF Push, SetRecord, server
    <3> QED BY <3>1, OthersSay
  <2> QED BY <1>13, <2>1
<1>14. ASSUME NEW r \in CR, RecordStatus(r) PROVE Says(q)
  <2>1. /\ copy' = [copy EXCEPT ![r].name = name[r]]
        /\ name' = name
        /\ target' = [target EXCEPT ![r] = copy[r].target]
        /\ ready' = [ready EXCEPT ![r] = copy[r].ready]
    BY <1>14 DEF RecordStatus
  <2>2. /\ copy'[q].ready = copy[q].ready /\ copy'[q].target = copy[q].target
        /\ copy'[q].name \in {copy[q].name, name[q]}
    BY <2>1, CopySays
  <2> QED BY <2>1, <2>2 DEF Says, Records
<1>15. ASSUME NEW r \in CR, RecordConflict(r) PROVE Says(q)
  <2>1. UNCHANGED <<ready, target, name>>
    BY <1>15 DEF RecordConflict, FailInConflict, server
  <2>2. CASE tries[r] > 1
    <3>1. copy' = [copy EXCEPT ![r].source = Snapshot(r).source,
                               ![r].deleting = Snapshot(r).deleting]
      BY <1>15, <2>2 DEF RecordConflict
    <3>2. /\ copy'[q].ready = copy[q].ready
          /\ copy'[q].target = copy[q].target /\ copy'[q].name = copy[q].name
      BY <3>1, CopySays
    <3> QED BY <2>1, <3>2 DEF Says, Records
  <2>3. CASE ~(tries[r] > 1)
    BY <1>9, <1>15, <2>1, <2>3 DEF RecordConflict, FailInConflict
  <2> QED BY <2>2, <2>3
<1>16. ASSUME NEW r \in CR, Edit(r) \/ Touch(r) \/ ClearPending(r) \/ RequestDeletion(r)
       PROVE  Says(q)
  <2>1. copy' = copy /\ UNCHANGED <<ready, target, name>>
    BY <1>16 DEF Edit, Touch, ClearPending, RequestDeletion, memory, server
  <2> QED BY <2>1, OthersSay
<1>17. ASSUME NEW r \in CR, Recreate(r) PROVE Says(q)
  BY <1>17 DEF Recreate, Says, Records, memory
<1>18. CASE OtherPush
  BY <1>18, OthersSay DEF OtherPush, memory, server
<1>19. CASE Crash
  BY <1>19 DEF Crash, Says, Records, NoCopy, server
<1>20. CASE UNCHANGED vars
  BY <1>20, OthersSay DEF vars
<1>21. ASSUME NEW r \in CR, CommitLost(r) PROVE Says(q) \/ Held(q) \/ q \in lost'
  <2>1. CASE q # r
    <3>1. copy'[q] = copy[q] /\ UNCHANGED <<ready, target, name>>
      BY <1>21, <2>1 DEF CommitLost, SetRecord, server
    <3> QED BY <3>1, OthersSay
  <2>2. CASE q = r /\ Own(local[r], r) = {}
    BY <1>21, <2>2 DEF CommitLost
  <2>3. CASE q = r /\ Own(local[r], r) # {}
    <3>1. local[r] \in Seq(Commit) /\ branch \in Seq(Commit) /\ IsPrefix(local[r], branch)
      BY <1>21 DEF CommitLost, RecordInv
    <3>2. PICK i \in 1..Len(local[r]) : local[r][i].by = r
      BY <2>3 DEF Own
    <3>3. i \in 1..Len(branch) /\ branch[i].by = r
      <4>1. Len(local[r]) <= Len(branch) /\ branch[i] = local[r][i]
        BY <3>1, <3>2, PrefixElements
      <4>2. Len(local[r]) \in Nat /\ Len(branch) \in Nat
        BY <3>1, LenProperties
      <4> QED BY <3>2, <4>1, <4>2
    <3>4. Shows(branch[i], FileOf[q]) /\ FileOf[q] \in File
      BY <2>3, <3>3, ResourceAssumption DEF Shows
    <3> QED BY <3>3, <3>4 DEF HeldInv, Keeps, Held
  <2> QED BY <2>1, <2>2, <2>3
<1> QED
  BY <1>1, <1>2, <1>3, <1>4, <1>5, <1>6, <1>8, <1>10, <1>11, <1>12, <1>13, <1>14, <1>15, <1>16,
     <1>17, <1>18, <1>19, <1>20, <1>21
     DEF Next, Reconcile, Observe, Fault, Lifecycle

\* Who has lost a commit has until it pushes.
LEMMA StepStaysLost ==
  ASSUME [Next]_vars, NEW q \in lost
  PROVE  q \in lost' \/ (q \in CR /\ (Push(q) \/ PushReplyLost(q)))
<1>1. ASSUME NEW r \in CR, Push(r) \/ PushReplyLost(r)
      PROVE  lost' = lost \ {r}
  BY <1>1 DEF Push, PushReplyLost
<1>2. ASSUME NEW r \in CR, CommitLost(r) PROVE lost \subseteq lost'
  BY <1>2 DEF CommitLost
<1>3. ASSUME NEW r \in CR,
             \/ Get(r) \/ Observe(r) \/ Report(r) \/ Delete(r) \/ Release(r) \/ BeginCreate(r)
             \/ BeginUpdate(r) \/ Clone(r) \/ Write(r) \/ MakeCommit(r) \/ PushContended(r)
             \/ RecordStatus(r) \/ RecordConflict(r) \/ Done(r)
      PROVE  lost' = lost
  BY <1>3 DEF Get, Observe, ObserveDeleting, ObserveDrifted, ObserveFound, ObserveAbsent,
              ObserveRecorded, Report, Delete, Release, BeginCreate, BeginUpdate, Clone, Write,
              MakeCommit, PushContended, RecordStatus, RecordConflict, Done
<1>4. ASSUME NEW r \in CR,
             \/ ObserveFails(r) \/ ObserveMisses(r) \/ SyncFails(r) \/ RecordFails(r)
             \/ Edit(r) \/ Touch(r) \/ ClearPending(r) \/ RequestDeletion(r) \/ Recreate(r)
      PROVE  lost' = lost
  BY <1>4 DEF ObserveFails, ObserveMisses, SyncFails, RecordFails, Edit, Touch, ClearPending,
              RequestDeletion, Recreate
<1>5. CASE OtherPush \/ Crash \/ UNCHANGED vars
  BY <1>5 DEF OtherPush, Crash, vars
<1> QED BY <1>1, <1>2, <1>3, <1>4, <1>5 DEF Next, Reconcile, Fault, Lifecycle

\* What a sync is about to commit holds its file.
LEMMA StepWorks ==
  ASSUME TypeInv, HeldInv, [Next]_vars, NEW q \in CR, pc'[q] = "commit"
  PROVE  work'[q][FileOf[q]] # Absent
<1> USE DEF TypeInv, TypeOK, MemoryTypes
<1>1. ASSUME NEW r \in CR, Write(r), q = r PROVE work'[q][FileOf[q]] # Absent
  <2>1. ContentOf[Read(r)] \in Version /\ local[r] \in Seq(Commit) /\ FileOf[r] \in File
    BY <1>1, ReadType, ResourceAssumption DEF Write
  <2>2. Tree(local[r]) \in [File -> Version \union {Absent}]
    BY <2>1, HistoryTypes
  <2>3. work'[r] = IF r \in Override \/ Tree(local[r])[FileOf[r]] = Absent
                     THEN [Tree(local[r]) EXCEPT ![FileOf[r]] = ContentOf[Read(r)]]
                     ELSE Tree(local[r])
    BY <1>1 DEF Write
  <2> QED BY <1>1, <2>1, <2>2, <2>3, ResourceAssumption
<1>2. ASSUME pc[q] = "commit", work'[q] = work[q] PROVE work'[q][FileOf[q]] # Absent
  BY <1>2 DEF HeldInv
<1>3. CASE \E r \in CR : Write(r) /\ q = r
  BY <1>1, <1>3
<1>4. CASE ~\E r \in CR : Write(r) /\ q = r
  <2>1. ASSUME NEW r \in CR, Reconcile(r) PROVE pc[q] = "commit" /\ work'[q] = work[q]
    <3>1. CASE Get(r) \/ Observe(r)
      BY <3>1 DEF Get, Observe, ObserveDeleting, ObserveDrifted, ObserveFound, ObserveAbsent,
                  ObserveRecorded, Then, Goto, clone
    <3>2. CASE Report(r) \/ Delete(r) \/ Release(r) \/ BeginCreate(r) \/ BeginUpdate(r)
      BY <3>2 DEF Report, Delete, Release, BeginCreate, BeginUpdate, Forget, Goto, clone
    <3>3. CASE Clone(r) \/ Write(r) \/ MakeCommit(r) \/ Push(r)
      BY <1>4, <3>3 DEF Clone, Write, MakeCommit, Push, Goto, clone
    <3>4. CASE PushContended(r) \/ RecordStatus(r) \/ RecordConflict(r) \/ Done(r)
      BY <3>4 DEF PushContended, RecordStatus, RecordConflict, FailInConflict, Done, Fail, Forget,
                  Goto, clone
    <3> QED BY <2>1, <3>1, <3>2, <3>3, <3>4 DEF Reconcile
  <2>2. ASSUME NEW r \in CR, Fault(r) PROVE pc[q] = "commit" /\ work'[q] = work[q]
    <3>1. CASE ObserveMisses(r)
      BY <3>1, MissesGoes DEF ObserveMisses, Goto, clone
    <3>2. CASE CommitLost(r)
      BY <3>2 DEF CommitLost, Goto, clone
    <3>3. CASE ObserveFails(r) \/ SyncFails(r) \/ PushReplyLost(r) \/ RecordFails(r)
      BY <3>3 DEF ObserveFails, SyncFails, PushReplyLost, RecordFails, Fail, Forget, Goto
    <3> QED BY <2>2, <3>1, <3>2, <3>3 DEF Fault
  <2>3. ASSUME NEW r \in CR, Edit(r) \/ Touch(r) \/ ClearPending(r) \/ Lifecycle(r)
        PROVE  pc[q] = "commit" /\ work'[q] = work[q]
    BY <2>3 DEF Edit, Touch, ClearPending, Lifecycle, RequestDeletion, Recreate, clone
  <2>4. CASE OtherPush \/ Crash \/ UNCHANGED vars
    BY <1>2, <2>4 DEF OtherPush, Crash, vars, clone
  <2> QED BY <1>2, <2>1, <2>2, <2>3, <2>4 DEF Next
<1> QED BY <1>3, <1>4

(* A resource whose Ready condition is Available has its file on the       *)
(* target branch, though Observe looks at footers and records only: none   *)
(* is left by a step that has not brought the file, but for a create whose *)
(* commit fails, which Commit takes for one with nothing to do and which   *)
(* the resource is then taken to have survived.  It needs a target branch  *)
(* that is not made from another one, and branches that hold at first what *)
(* their commits show; the model's environment, like a careful user, then  *)
(* never removes a file.                                                   *)
THEOREM AvailableResourcesAreHeld ==
  ASSUME CloneFrom = << >> \/ << >> \notin InitialBranches,
         \A history \in InitialBranches : Keeps(history)
  PROVE  Spec => []AvailableIsPublished
<1>1. Init => TypeInv /\ SyncInv /\ RecordInv
  BY InitTypes, InitShapes, InitRecords
<1>2. Init => HeldInv
  BY DEF Init, HeldInv, Says, Records, NoCopy
<1>3. TypeInv /\ SyncInv /\ RecordInv /\ [Next]_vars => TypeInv' /\ SyncInv' /\ RecordInv'
  BY StepTypes, StepShapes, StepRecords
<1>4. TypeInv /\ SyncInv /\ RecordInv /\ HeldInv /\ [Next]_vars => HeldInv'
  <2> SUFFICES ASSUME TypeInv, SyncInv, RecordInv, HeldInv, [Next]_vars
               PROVE  HeldInv'
    OBVIOUS
  <2>1. /\ Keeps(branch')
        /\ \A f \in File : Tree(branch)[f] # Absent => Tree(branch')[f] # Absent
        /\ \A r \in CR : Push(r) \/ PushReplyLost(r) => Tree(branch')[FileOf[r]] # Absent
    BY StepKeeps DEF RecordInv, HeldInv
  <2>2. ASSUME NEW q \in CR, Says(q)' PROVE Tree(branch')[FileOf[q]] # Absent \/ q \in lost'
    <3>1. Held(q) \/ Push(q) \/ PushReplyLost(q) \/ q \in lost'
      <4>1. Says(q) => Held(q) \/ q \in lost
        BY DEF HeldInv
      <4> QED BY <2>2, <4>1, StepSays, StepStaysLost
    <3>2. FileOf[q] \in File
      BY ResourceAssumption
    <3> QED BY <2>1, <3>1, <3>2 DEF Held
  <2>3. \A q \in CR : pc'[q] = "commit" => work'[q][FileOf[q]] # Absent
    BY StepWorks
  <2>4. Keeps(branch)' /\ \A q \in CR : Held(q)' <=> Tree(branch')[FileOf[q]] # Absent
    BY <2>1 DEF Keeps, Held, Shows, Tree, Git!Tree, Git!EmptyTree
  <2> QED BY <2>2, <2>3, <2>4 DEF HeldInv
<1>5. HeldInv => AvailableIsPublished
  BY DEF HeldInv, Says, Held, AvailableIsPublished
<1> QED BY <1>1, <1>2, <1>3, <1>4, <1>5, PTL DEF Spec
=================================================================================
