------------------------ MODULE LocalResourceCreateProofs ------------------------
(***************************************************************************)
(* Theorems about the creates of LocalResource and the attempts of its     *)
(* syncs, for any resources, files, versions and bounds: a create never    *)
(* publishes what is published; only a crash, or a conflict for every      *)
(* attempt of the status write, leaves one pending; and a sync starts over *)
(* only when somebody else has landed a push.                              *)
(***************************************************************************)
EXTENDS LocalResourceProofs, FiniteSetTheorems

----------------------------------------------------------------------------------
(* What a create finds on the branch.                                      *)

\* From the decision to create until the push.
Creating(r) == pc[r] = "create" \/ (pc[r] \in Sync /\ action[r] = "create")

CreateInv == \A r \in CR : Creating(r) => Own(branch, r) = {}

\* The resource's own syncs apart, no step starts a create but Observe's, nor ends at one.
LEMMA StepCreates ==
  ASSUME TypeInv, [Next]_vars, NEW q \in CR, Creating(q)'
  PROVE  Creating(q) \/ Own(branch, q) = {}
<1> USE DEF TypeInv, TypeOK, MemoryTypes
<1>1. ASSUME NEW r \in CR, ObserveAbsent(r) PROVE Creating(q) \/ Own(branch, q) = {}
  BY <1>1 DEF ObserveAbsent, Creating, Goto
<1>2. ASSUME NEW r \in CR, Get(r) \/ Clone(r) \/ Write(r) \/ RecordStatus(r) \/ MakeCommit(r)
                           \/ CommitLost(r) \/ Push(r) \/ ObserveDeleting(r)
      PROVE  Creating(q)
  BY <1>2 DEF Get, Clone, Write, RecordStatus, MakeCommit, CommitLost, Push, ObserveDeleting,
              Creating, Goto, Sync, memory
<1>3. ASSUME NEW r \in CR, ObserveDrifted(r) \/ ObserveFound(r) \/ ObserveRecorded(r)
      PROVE  Creating(q)
  BY <1>3 DEF ObserveDrifted, ObserveFound, ObserveRecorded, Then, Creating, Goto, Sync
<1>4. ASSUME NEW r \in CR, Forget(r) PROVE Creating(q)
  BY <1>4 DEF Forget, Creating, Goto, Sync
<1>5. ASSUME NEW r \in CR, \/ ObserveFails(r) \/ Report(r) \/ Delete(r) \/ Release(r) \/ SyncFails(r)
                           \/ PushReplyLost(r) \/ RecordFails(r) \/ Done(r)
      PROVE  Creating(q)
  BY <1>4, <1>5 DEF ObserveFails, Report, Delete, Release, SyncFails, PushReplyLost, RecordFails,
                    Done, Fail
<1>6. ASSUME NEW r \in CR, BeginCreate(r) PROVE Creating(q)
  BY <1>4, <1>6 DEF BeginCreate, Creating, Goto, Sync
<1>7. ASSUME NEW r \in CR, BeginUpdate(r) PROVE Creating(q)
  BY <1>7 DEF BeginUpdate, Creating, Goto, Sync
<1>8. ASSUME NEW r \in CR, PushContended(r) PROVE Creating(q)
  BY <1>4, <1>8 DEF PushContended, Fail, Creating, Goto, Sync
<1>9. ASSUME NEW r \in CR, RecordConflict(r) PROVE Creating(q)
  BY <1>4, <1>9 DEF RecordConflict, FailInConflict, Creating, Goto, Sync
<1>10. ASSUME UNCHANGED <<pc, action>> PROVE Creating(q)
  BY <1>10 DEF Creating
<1>11. ASSUME NEW r \in CR, Edit(r) \/ Touch(r) \/ ClearPending(r) \/ Lifecycle(r)
       PROVE  Creating(q)
  BY <1>10, <1>11 DEF Edit, Touch, ClearPending, Lifecycle, RequestDeletion, Recreate, memory
<1>12. CASE OtherPush
  BY <1>10, <1>12 DEF OtherPush, memory
<1>13. CASE Crash
  BY <1>13 DEF Crash, Creating, Sync
<1>14. CASE UNCHANGED vars
  BY <1>10, <1>14 DEF vars
<1>15. ASSUME NEW r \in CR, ObserveMisses(r) PROVE Creating(q)
  <2>1. action' = action
    BY <1>15 DEF ObserveMisses
  <2> QED BY <1>15, <2>1, MissesGoes DEF Creating, Goto, Sync
<1> QED
  BY <1>1, <1>2, <1>3, <1>5, <1>6, <1>7, <1>8, <1>9, <1>11, <1>12, <1>13, <1>14, <1>15
     DEF Next, Reconcile, Observe, Fault

\* Somebody else's commit.
LEMMA OthersCommit ==
  ASSUME branch \in Seq(Commit), NEW q \in CR, Own(branch, q) = {}, NEW c \in Commit,
         branch' = Append(branch, c), c.by # q
  PROVE  Own(branch', q) = {}
<1>1. /\ Len(branch) \in Nat /\ Len(branch') = Len(branch) + 1
      /\ \A i \in 1..Len(branch) : branch'[i] = branch[i]
      /\ branch'[Len(branch) + 1] = c
  BY LenProperties, AppendProperties
<1> QED BY <1>1 DEF Own

\* A push is a commit of the resource on top of the branch.
LEMMA PushLands ==
  ASSUME TypeInv, SyncInv, Rooted, NEW r \in CR, Push(r) \/ PushReplyLost(r)
  PROVE  \E c \in Commit : branch' = Append(branch, c) /\ c.by = r
<1>1. branch \in Seq(Commit)
  BY DEF TypeInv, TypeOK, ServerTypes
<1>2. Tree(branch) \in [File -> Version \union {Absent}]
  BY <1>1, HistoryTypes
<1>3. PICK written, hashed \in Version :
        branch' = Publication(r, Git!Base(branch), written, hashed)
  BY DEF SyncInv, Shape, Push, PushReplyLost
<1> DEFINE c == [by |-> r, hash |-> hashed, tree |-> [Tree(branch) EXCEPT ![FileOf[r]] = written]]
<1>4. c \in Commit /\ c.by = r
  BY <1>2 DEF Commit
<1>5. branch' = Append(branch, c)
  BY <1>3 DEF Publication, Rooted, Tree
<1> HIDE DEF c
<1> QED BY <1>4, <1>5

\* Where the branch's commits come from.
LEMMA StepLands ==
  ASSUME TypeInv, SyncInv, Rooted, [Next]_vars
  PROVE  \/ UNCHANGED branch
         \/ OtherPush /\ \E c \in Commit : branch' = Append(branch, c) /\ c.by = Other
         \/ \E r \in CR : /\ Push(r) \/ PushReplyLost(r)
                          /\ \E c \in Commit : branch' = Append(branch, c) /\ c.by = r
<1>1. branch \in Seq(Commit)
  BY DEF TypeInv, TypeOK, ServerTypes
<1>2. Tree(branch) \in [File -> Version \union {Absent}]
  BY <1>1, HistoryTypes
<1>4. ASSUME OtherPush
      PROVE  \E c \in Commit : branch' = Append(branch, c) /\ c.by = Other
  <2> DEFINE c == [by |-> Other, hash |-> NoHash, tree |-> Tree(branch)]
  <2>1. c \in Commit /\ c.by = Other
    BY <1>2 DEF Commit
  <2>2. branch' = Append(branch, c)
    BY <1>4 DEF OtherPush
  <2> HIDE DEF c
  <2> QED BY <2>1, <2>2
<1>5. ASSUME NEW r \in CR, Reconcile(r), ~Push(r) PROVE UNCHANGED branch
  BY <1>5 DEF Reconcile, Observe, Get, ObserveDeleting, ObserveDrifted, ObserveFound, ObserveAbsent,
              ObserveRecorded, Report, BeginCreate, BeginUpdate, Clone, Write, MakeCommit,
              PushContended, RecordStatus, RecordConflict, FailInConflict, Done, Delete, Release
<1>6. ASSUME NEW r \in CR, Fault(r), ~PushReplyLost(r) PROVE UNCHANGED branch
  BY <1>6 DEF Fault, ObserveFails, ObserveMisses, SyncFails, CommitLost, RecordFails
<1>7. ASSUME NEW r \in CR, Edit(r) \/ Touch(r) \/ ClearPending(r) \/ Lifecycle(r)
      PROVE  UNCHANGED branch
  BY <1>7 DEF Edit, Touch, ClearPending, Lifecycle, RequestDeletion, Recreate
<1>8. CASE Crash \/ UNCHANGED vars
  BY <1>8 DEF Crash, vars
<1> QED BY <1>4, <1>5, <1>6, <1>7, <1>8, PushLands DEF Next

LEMMA CreatesKept ==
  ASSUME TypeInv, SyncInv, Rooted, CreateInv, [Next]_vars
  PROVE  CreateInv'
<1> SUFFICES ASSUME NEW q \in CR, Creating(q)'
             PROVE  Own(branch', q) = {}
  BY DEF CreateInv
<1>1. Own(branch, q) = {}
  BY StepCreates DEF CreateInv
<1>2. branch \in Seq(Commit)
  BY DEF TypeInv, TypeOK, ServerTypes
<1>3. CASE UNCHANGED branch
  BY <1>1, <1>3
<1>4. ASSUME NEW r \in CR, Push(r) \/ PushReplyLost(r), NEW c \in Commit,
             branch' = Append(branch, c), c.by = r
      PROVE  Own(branch', q) = {}
  <2>1. pc'[r] \notin Sync \union {"create"}
    BY <1>4 DEF Push, PushReplyLost, Fail, Forget, Goto, Sync, TypeInv, TypeOK, MemoryTypes
  <2> QED BY <1>1, <1>2, <1>4, <2>1, OthersCommit DEF Creating
<1>5. ASSUME NEW c \in Commit, branch' = Append(branch, c), c.by = Other
      PROVE  Own(branch', q) = {}
  BY <1>1, <1>2, <1>5, OthersCommit, ResourceAssumption
<1> QED BY <1>3, <1>4, <1>5, StepLands

(* A create runs only while no commit of the branch names the resource:    *)
(* what an attempt without an answer, without a record or without an end   *)
(* has pushed is found again.  Like RecordsArePushed, the theorem is about *)
(* branches that are not made from another one, which may name it already. *)
THEOREM CreatesPublishOnce ==
  ASSUME CloneFrom = << >> \/ << >> \notin InitialBranches
  PROVE  Spec => []CreatesOnlyUnpublished
<1>1. Init => TypeInv /\ SyncInv /\ RecordInv
  BY InitTypes, InitShapes, InitRecords
<1>2. Init => CreateInv
  BY DEF Init, CreateInv, Creating, Sync
<1>3. TypeInv /\ SyncInv /\ RecordInv /\ [Next]_vars => TypeInv' /\ SyncInv' /\ RecordInv'
  BY StepTypes, StepShapes, StepRecords
<1>4. TypeInv /\ SyncInv /\ RecordInv /\ CreateInv /\ [Next]_vars => CreateInv'
  BY CreatesKept DEF RecordInv
<1>5. CreateInv => CreatesOnlyUnpublished
  BY DEF CreateInv, Creating, CreatesOnlyUnpublished
<1> QED BY <1>1, <1>2, <1>3, <1>4, <1>5, PTL DEF Spec

----------------------------------------------------------------------------------
(* What leaves a create pending.                                           *)

Bounds == {"edits", "touches", "faults", "crashes", "others", "recreations", "all"}

SpentTypes == spent \in [Bounds -> Nat]

\* The writes of others that a resource's status write may have met.
Conflicts(r) == spent["touches"] + spent["edits"] + (IF life[r] = "deleting" THEN 1 ELSE 0)

Pending == Sync \union {"record", "done"}

(* Every attempt of the status write that is used up, and a copy that is   *)
(* stale, stand for a conflict each.                                       *)
Paid(r) ==
  /\ pc[r] # "idle" /\ outcome[r] = "pending" => pc[r] \in Pending /\ action[r] = "create"
  /\ life[r] = "gone" => pc[r] = "idle"
  /\ stale[r] => pc[r] # "idle" /\ Conflicts(r) >= 1
  /\ pc[r] = "record" => StatusSteps + (IF stale[r] THEN 1 ELSE 0) <= Conflicts(r) + tries[r]
  /\ outcome[r] = "pending" /\ pc[r] = "idle" =>
       /\ life[r] # "gone"
       /\ spent["crashes"] > 0 \/ Conflicts(r) >= StatusSteps

\* What is spent is never given back.
Grows == \A b \in Bounds : spent'[b] \in Nat /\ spent[b] <= spent'[b]

LEMMA SpendGrows ==
  ASSUME SpentTypes, NEW b \in Bounds \ {"all"}, NEW max, Spend(b, max)
  PROVE  SpentTypes' /\ Grows /\ spent'[b] = spent[b] + 1
BY DEF SpentTypes, Spend, Grows, Bounds

\* A step the resource has no part in.
LEMMA PaidKept ==
  ASSUME TypeInv, SpentTypes, Grows, NEW q \in CR, Paid(q), pc'[q] = pc[q], outcome'[q] = outcome[q],
         life'[q] = life[q], stale'[q] = stale[q], pc[q] = "record" => tries'[q] = tries[q],
         action'[q] = action[q]
  PROVE  Paid(q)'
<1>1. tries[q] \in Nat /\ StatusSteps \in Nat
  BY ResourceAssumption DEF TypeInv, TypeOK, MemoryTypes
<1>2. Conflicts(q) \in Nat /\ Conflicts(q)' \in Nat /\ Conflicts(q) <= Conflicts(q)'
  BY DEF Conflicts, SpentTypes, Grows, Bounds
<1>3. spent["crashes"] > 0 => spent'["crashes"] > 0
  BY DEF SpentTypes, Grows, Bounds
<1> QED BY <1>1, <1>2, <1>3 DEF Paid

\* A reconcile that goes on, before the status write.
LEMMA PaidOnTheWay ==
  ASSUME TypeInv, SpentTypes, Grows, NEW q \in CR, Paid(q), pc'[q] \notin {"idle", "record"},
         life[q] # "gone", life'[q] = life[q], stale'[q] = stale[q],
         outcome'[q] = "pending" => pc'[q] \in Pending /\ action'[q] = "create"
  PROVE  Paid(q)'
<1>1. Conflicts(q) \in Nat /\ Conflicts(q)' \in Nat /\ Conflicts(q) <= Conflicts(q)'
  BY DEF Conflicts, SpentTypes, Grows, Bounds
<1> QED BY <1>1 DEF Paid

\* A reconcile that ends with an outcome, or with none to come.
LEMMA PaidAtTheEnd ==
  ASSUME TypeInv, NEW q \in CR, Forget(q), outcome'[q] # "pending"
  PROVE  Paid(q)'
BY DEF TypeInv, TypeOK, MemoryTypes, Forget, Goto, Paid

LEMMA StepSpends ==
  ASSUME SpentTypes, [Next]_vars
  PROVE  SpentTypes' /\ Grows
<1>1. ASSUME UNCHANGED spent PROVE SpentTypes' /\ Grows
  BY <1>1 DEF SpentTypes, Grows
<1>2. ASSUME NEW r \in CR, Reconcile(r) PROVE UNCHANGED spent
  BY <1>2 DEF Reconcile, Observe, Get, ObserveDeleting, ObserveDrifted, ObserveFound, ObserveAbsent,
              ObserveRecorded, Report, BeginCreate, BeginUpdate, Clone, Write, MakeCommit, Push,
              PushContended, RecordStatus, RecordConflict, Done, Delete, Release
<1>3. ASSUME NEW r \in CR, Fault(r) PROVE Spend("faults", MaxFaults)
  BY <1>3 DEF Fault, ObserveFails, ObserveMisses, SyncFails, CommitLost, PushReplyLost, RecordFails
<1>4. ASSUME NEW r \in CR, Edit(r) PROVE Spend("edits", MaxEdits)
  BY <1>4 DEF Edit
<1>5. ASSUME NEW r \in CR, Touch(r) PROVE Spend("touches", MaxTouches)
  BY <1>5 DEF Touch
<1>6. ASSUME NEW r \in CR, ClearPending(r) \/ RequestDeletion(r) PROVE UNCHANGED spent
  BY <1>6 DEF ClearPending, RequestDeletion
<1>7. ASSUME NEW r \in CR, Recreate(r) PROVE Spend("recreations", MaxRecreations)
  BY <1>7 DEF Recreate
<1>8. CASE OtherPush
  BY <1>8, SpendGrows DEF OtherPush, Bounds
<1>9. CASE Crash
  BY <1>9, SpendGrows DEF Crash, Bounds
<1>10. CASE UNCHANGED vars
  BY <1>1, <1>10 DEF vars
<1> QED
  BY <1>1, <1>2, <1>3, <1>4, <1>5, <1>6, <1>7, <1>8, <1>9, <1>10, SpendGrows
     DEF Next, Lifecycle, Bounds

LEMMA StepPays ==
  ASSUME TypeInv, SpentTypes, \A r \in CR : Paid(r), [Next]_vars
  PROVE  SpentTypes' /\ \A r \in CR : Paid(r)'
<1>1. SpentTypes' /\ Grows
  BY StepSpends
<1> SUFFICES ASSUME NEW q \in CR
             PROVE  Paid(q)'
  BY <1>1
\* The bounds that are spent, as numbers.
<1>0. /\ spent["touches"] \in Nat /\ spent'["touches"] \in Nat
      /\ spent["edits"] \in Nat /\ spent'["edits"] \in Nat
      /\ spent["crashes"] \in Nat /\ spent'["crashes"] \in Nat
      /\ spent["touches"] <= spent'["touches"] /\ spent["edits"] <= spent'["edits"]
  BY <1>1 DEF SpentTypes, Grows, Bounds
<1>2. /\ Conflicts(q) \in Nat /\ Conflicts(q)' \in Nat /\ StatusSteps \in Nat \ {0}
      /\ life'[q] = life[q] => Conflicts(q) <= Conflicts(q)'
  BY <1>0, ResourceAssumption DEF Conflicts
<1> USE DEF TypeInv, TypeOK, MemoryTypes, ServerTypes
<1>3. Paid(q)
  OBVIOUS
<1> DEFINE Same == /\ pc'[q] = pc[q] /\ outcome'[q] = outcome[q] /\ life'[q] = life[q]
                   /\ stale'[q] = stale[q] /\ tries'[q] = tries[q] /\ action'[q] = action[q]
<1>4. Same => Paid(q)'
  BY <1>1, <1>3, PaidKept
<1>5. ASSUME NEW r \in CR, r # q, Reconcile(r) \/ Fault(r) PROVE Same
  <2>1. CASE Get(r) \/ Observe(r)
    BY <1>5, <2>1 DEF Get, Observe, ObserveDeleting, ObserveDrifted, ObserveFound, ObserveAbsent,
                      ObserveRecorded, Then, Goto, server
  <2>2. CASE Report(r) \/ Delete(r) \/ Release(r) \/ ObserveFails(r)
    BY <1>5, <2>2 DEF Report, Delete, Release, ObserveFails, Forget, Goto
  <2>3. CASE BeginCreate(r) \/ BeginUpdate(r) \/ Clone(r) \/ Write(r) \/ MakeCommit(r) \/ Push(r)
    BY <1>5, <2>3 DEF BeginCreate, BeginUpdate, Clone, Write, MakeCommit, Push, Forget, Goto,
                      server, memory
  <2>4. CASE PushContended(r) \/ SyncFails(r) \/ PushReplyLost(r) \/ RecordFails(r)
    BY <1>5, <2>4 DEF PushContended, SyncFails, PushReplyLost, RecordFails, Fail, Forget, Goto, server
  <2>5. CASE RecordStatus(r) \/ RecordConflict(r) \/ Done(r)
    BY <1>5, <2>5 DEF RecordStatus, RecordConflict, FailInConflict, Done, Forget, Goto, server
  <2>6. CASE CommitLost(r)
    BY <1>5, <2>6 DEF CommitLost, Goto, server
  <2>7. CASE ObserveMisses(r)
    BY <1>5, <2>7, MissesGoes DEF Goto, server
  <2>8. CASE Reconcile(r)
    BY <2>1, <2>2, <2>3, <2>4, <2>5, <2>8 DEF Reconcile
  <2>9. CASE Fault(r)
    BY <2>2, <2>4, <2>6, <2>7, <2>9 DEF Fault
  <2> QED BY <1>5, <2>8, <2>9
<1>6. CASE Get(q) \/ Observe(q) \/ BeginUpdate(q)
  <2>1. /\ pc'[q] \notin {"idle", "record"} /\ life[q] # "gone"
        /\ life' = life /\ stale' = stale /\ outcome' = outcome /\ outcome[q] # "pending"
    BY <1>3, <1>6 DEF Get, Observe, ObserveDeleting, ObserveDrifted, ObserveFound, ObserveAbsent,
                      ObserveRecorded, Observing, BeginUpdate, Then, Goto, server, Paid, Pending, Sync
  <2> QED BY <1>1, <1>3, <2>1, PaidOnTheWay
<1>7. CASE Report(q) \/ Delete(q) \/ Release(q) \/ ObserveFails(q)
  <2>1. Forget(q) /\ outcome'[q] # "pending"
    BY <1>3, <1>7 DEF Report, Delete, Release, ObserveFails, Observing, Paid, Pending, Sync
  <2> QED BY <2>1, PaidAtTheEnd
<1>8. CASE BeginCreate(q)
  <2>1. CASE stale[q]
    <3>1. Forget(q) /\ outcome'[q] # "pending"
      BY <1>3, <1>8, <2>1 DEF BeginCreate, Paid, Pending, Sync
    <3> QED BY <3>1, PaidAtTheEnd
  <2>2. CASE ~stale[q]
    <3>1. /\ pc'[q] = "clone" /\ action'[q] = "create" /\ life' = life /\ stale' = stale
          /\ life[q] # "gone"
      BY <1>3, <1>8, <2>2 DEF BeginCreate, Goto, Paid
    <3> QED BY <1>1, <1>3, <3>1, PaidOnTheWay DEF Pending, Sync
  <2> QED BY <2>1, <2>2
<1>9. CASE Clone(q) \/ Write(q) \/ RecordStatus(q)
  <2>1. /\ pc[q] \in Pending /\ pc'[q] \in Pending \ {"record"} /\ life[q] # "gone" /\ action' = action
        /\ life' = life /\ stale' = stale /\ outcome' = outcome
    BY <1>3, <1>9 DEF Clone, Write, RecordStatus, Goto, Paid, Pending, Sync, server, memory
  <2> QED BY <1>1, <1>3, <2>1, PaidOnTheWay DEF Paid, Pending, Sync
<1>10. CASE MakeCommit(q) \/ CommitLost(q) \/ Push(q)
  <2>1. /\ pc[q] \in Sync /\ pc'[q] \in {"push", "record"} /\ life[q] # "gone" /\ action' = action
        /\ life' = life /\ stale' = stale /\ outcome' = outcome
        /\ pc'[q] = "record" => tries'[q] = StatusSteps
    BY <1>3, <1>10 DEF MakeCommit, CommitLost, Push, Goto, Paid, Sync, server
  <2>2. outcome[q] = "pending" => action[q] = "create"
    BY <1>3, <2>1 DEF Paid, Sync
  <2>3. stale[q] => Conflicts(q)' >= 1
    BY <1>2, <1>3, <2>1 DEF Paid
  <2> QED BY <1>2, <2>1, <2>2, <2>3 DEF Paid, Pending, Sync
<1>11. CASE Fail(q) /\ pc[q] \in Pending
  <2>1. Forget(q) /\ outcome'[q] # "pending"
    BY <1>3, <1>11 DEF Fail, Paid, Pending, Sync
  <2> QED BY <2>1, PaidAtTheEnd
<1>12. CASE SyncFails(q) \/ PushReplyLost(q) \/ RecordFails(q)
  BY <1>11, <1>12 DEF SyncFails, PushReplyLost, RecordFails, Pending, Sync
<1>13. CASE PushContended(q)
  <2>1. CASE attempt[q] < PushSteps
    <3>1. /\ pc[q] \in Sync /\ pc'[q] = "clone" /\ life[q] # "gone" /\ action' = action
          /\ life' = life /\ stale' = stale /\ outcome' = outcome
      BY <1>3, <1>13, <2>1 DEF PushContended, Goto, Paid, Sync, server
    <3> QED BY <1>1, <1>3, <3>1, PaidOnTheWay DEF Paid, Pending, Sync
  <2>2. CASE ~(attempt[q] < PushSteps)
    BY <1>11, <1>13, <2>2 DEF PushContended, Pending, Sync
  <2> QED BY <2>1, <2>2
<1>14. CASE RecordConflict(q)
  <2>1. pc[q] = "record" /\ stale[q] /\ life' = life /\ outcome' = outcome /\ tries[q] \in Nat
    BY <1>14 DEF RecordConflict, FailInConflict, server
  <2>2. StatusSteps + 1 <= Conflicts(q)' + tries[q]
    BY <1>2, <1>3, <2>1 DEF Paid
  <2>3. CASE tries[q] > 1
    <3>1. tries'[q] = tries[q] - 1 /\ stale'[q] = FALSE /\ pc' = pc /\ action' = action
      BY <1>14, <2>3 DEF RecordConflict
    <3> QED BY <1>2, <1>3, <2>1, <2>2, <3>1 DEF Paid
  <2>4. CASE ~(tries[q] > 1)
    <3>1. pc'[q] = "idle" /\ stale'[q] = FALSE /\ life[q] # "gone"
      BY <1>3, <1>14, <2>1, <2>4 DEF RecordConflict, FailInConflict, Forget, Goto, Paid
    <3>2. Conflicts(q)' >= StatusSteps
      BY <1>2, <2>1, <2>2, <2>4
    <3> QED BY <2>1, <3>1, <3>2 DEF Paid
  <2> QED BY <2>3, <2>4
<1>15. CASE Done(q)
  <2>1. Forget(q) /\ outcome'[q] # "pending"
    BY <1>3, <1>15 DEF Done, Paid, Pending, Sync
  <2> QED BY <2>1, PaidAtTheEnd
\* The copy goes stale by a write that counts as a conflict.
<1>16. ASSUME pc' = pc, outcome' = outcome, tries' = tries, action' = action, stale'[q] = TRUE,
              stale[q] = FALSE => Conflicts(q)' >= Conflicts(q) + 1, Conflicts(q)' >= Conflicts(q),
              pc[q] # "idle", life'[q] # "gone"
       PROVE  Paid(q)'
  <2>1. tries[q] \in Nat /\ stale[q] \in BOOLEAN
    OBVIOUS
  <2>2. Conflicts(q)' >= 1
    BY <1>2, <1>3, <1>16, <2>1 DEF Paid
  <2>3. pc[q] = "record" => StatusSteps + 1 <= Conflicts(q)' + tries[q]
    BY <1>2, <1>3, <1>16, <2>1 DEF Paid
  <2> QED BY <1>3, <1>16, <2>2, <2>3 DEF Paid
<1>17. ASSUME NEW r \in CR, Edit(r) \/ Touch(r) PROVE Paid(q)'
  <2>1. /\ pc' = pc /\ outcome' = outcome /\ tries' = tries /\ action' = action /\ life' = life
        /\ Same \/ (stale'[q] = TRUE /\ pc[q] # "idle")
    BY <1>17 DEF Edit, Touch, server
  <2>2. \/ spent'["edits"] = spent["edits"] + 1 \/ spent'["touches"] = spent["touches"] + 1
    BY <1>17, SpendGrows DEF Edit, Touch, Bounds
  <2>3. Conflicts(q)' >= Conflicts(q) + 1
    <3> DEFINE t == spent["touches"]
               u == spent'["touches"]
               e == spent["edits"]
               f == spent'["edits"]
               d == IF life[q] = "deleting" THEN 1 ELSE 0
    <3>1. t \in Nat /\ u \in Nat /\ e \in Nat /\ f \in Nat /\ d \in Nat /\ t <= u /\ e <= f
      BY <1>0
    <3>2. f = e + 1 \/ u = t + 1
      BY <2>2
    <3>3. Conflicts(q) = t + e + d /\ Conflicts(q)' = u + f + d
      BY <2>1 DEF Conflicts
    <3> HIDE DEF t, u, e, f, d
    <3>4. u + f + d >= t + e + d + 1
      BY <3>1, <3>2
    <3> QED BY <3>3, <3>4
  <2>4. pc[q] # "idle" => life[q] # "gone"
    BY <1>3 DEF Paid
  <2> QED BY <1>2, <1>4, <1>16, <2>1, <2>3, <2>4
<1>18. ASSUME NEW r \in CR, ClearPending(r) PROVE Paid(q)'
  <2>1. CASE q = r
    BY <1>3, <1>18, <2>1 DEF ClearPending, Paid, memory
  <2>2. CASE q # r
    BY <1>4, <1>18, <2>2 DEF ClearPending, memory
  <2> QED BY <2>1, <2>2
<1>19. ASSUME NEW r \in CR, RequestDeletion(r) PROVE Paid(q)'
  <2>1. CASE q # r
    BY <1>4, <1>19, <2>1 DEF RequestDeletion
  <2>2. CASE q = r
    <3>1. /\ pc' = pc /\ outcome' = outcome /\ tries' = tries /\ action' = action /\ spent' = spent
          /\ life[q] = "present" /\ life'[q] = "deleting" /\ stale'[q] = (pc[q] # "idle")
      BY <1>19, <2>2 DEF RequestDeletion
    <3>2. Conflicts(q)' = Conflicts(q) + 1
      BY <3>1 DEF Conflicts, SpentTypes, Bounds
    <3>3. CASE pc[q] # "idle"
      <4>1. Conflicts(q)' >= Conflicts(q) + 1 /\ Conflicts(q)' >= Conflicts(q)
        BY <1>2, <3>2
      <4>2. stale'[q] = TRUE /\ life'[q] # "gone"
        BY <3>1, <3>3
      <4> QED BY <1>16, <3>1, <3>3, <4>1, <4>2
    <3>4. CASE pc[q] = "idle"
      <4>1. Conflicts(q) >= StatusSteps => Conflicts(q)' >= StatusSteps
        BY <1>2, <3>2
      <4> QED BY <1>3, <3>1, <3>4, <4>1 DEF Paid
    <3> QED BY <3>3, <3>4
  <2> QED BY <2>1, <2>2
<1>20. ASSUME NEW r \in CR, Recreate(r) PROVE Paid(q)'
  <2>1. CASE q # r
    BY <1>4, <1>20, <2>1 DEF Recreate, memory
  <2>2. CASE q = r
    BY <1>3, <1>20, <2>2 DEF Recreate, memory, Paid
  <2> QED BY <2>1, <2>2
<1>21. CASE OtherPush
  BY <1>4, <1>21 DEF OtherPush, server, memory
<1>22. CASE Crash
  <2>1. spent'["crashes"] > 0
    <3>1. spent'["crashes"] = spent["crashes"] + 1
      BY <1>22, SpendGrows DEF Crash, Bounds
    <3> QED BY <1>0, <3>1
  <2>2. pc'[q] = "idle" /\ stale'[q] = FALSE /\ outcome' = outcome /\ life' = life
    BY <1>22 DEF Crash, server
  <2>3. outcome[q] = "pending" => life[q] # "gone"
    BY <1>3 DEF Paid
  <2> QED BY <2>1, <2>2, <2>3 DEF Paid
<1>23. CASE UNCHANGED vars
  BY <1>4, <1>23 DEF vars, server, memory
<1>24. CASE ObserveMisses(q)
  <2>1. pc'[q] \notin {"idle", "record"}
    BY <1>24, MissesGoes DEF Goto
  <2>2. /\ life[q] # "gone" /\ outcome[q] # "pending"
        /\ life' = life /\ stale' = stale /\ outcome' = outcome
    BY <1>3, <1>24 DEF ObserveMisses, Observing, Paid, Pending, Sync, server
  <2> QED BY <1>1, <1>3, <2>1, <2>2, PaidOnTheWay
<1> QED
  BY <1>4, <1>5, <1>6, <1>7, <1>8, <1>9, <1>10, <1>12, <1>13, <1>14, <1>15, <1>17, <1>18, <1>19,
     <1>20, <1>21, <1>22, <1>23, <1>24 DEF Next, Reconcile, Fault, Lifecycle

(* A create stays pending only after a crash, or when every attempt of the *)
(* status write has met a conflict, each with a write of its own: a sync   *)
(* that fails, a lost answer or contention always leaves an outcome.       *)
THEOREM OnlyCrashesWedge == Spec => []WedgedOnlyByCrash
<1>1. Init => TypeInv
  BY InitTypes
<1>2. Init => SpentTypes /\ \A r \in CR : Paid(r)
  BY DEF Init, SpentTypes, Bounds, Paid
<1>3. TypeInv /\ [Next]_vars => TypeInv'
  BY StepTypes
<1>4. TypeInv /\ SpentTypes /\ (\A r \in CR : Paid(r)) /\ [Next]_vars =>
        SpentTypes' /\ (\A r \in CR : Paid(r))'
  BY StepPays
<1>5. SpentTypes /\ (\A r \in CR : Paid(r)) => WedgedOnlyByCrash
  <2> SUFFICES ASSUME SpentTypes, NEW r \in CR, Paid(r), Wedged(r)
               PROVE  \/ spent["crashes"] > 0
                      \/ spent["touches"] + spent["edits"] >= StatusSteps
                      \/ /\ life[r] = "deleting"
                         /\ spent["touches"] + spent["edits"] + 1 >= StatusSteps
    BY DEF WedgedOnlyByCrash
  <2> QED BY ResourceAssumption DEF Paid, Wedged, Conflicts, SpentTypes, Bounds
<1> QED BY <1>1, <1>2, <1>3, <1>4, <1>5, PTL DEF Spec

----------------------------------------------------------------------------------
(* What an attempt costs.                                                  *)

\* The commits other resources have landed; with them, the pushes of everyone else.
Siblings(r) == {i \in 1..Len(branch) : branch[i].by \in CR \ {r}}

Landed(r) == spent["others"] + Cardinality(Siblings(r))

\* Where a sync holds a clone.
Cloned == {"write", "commit", "push"}

(* The attempts of a sync, and what the branch has grown by since its last *)
(* clone, are within what others have landed.                              *)
Afforded(r) ==
  /\ attempt[r] <= 1 + Landed(r)
  /\ pc[r] \in Cloned => /\ IsPrefix(cloned[r], branch)
                         /\ attempt[r] + Len(branch) - Len(cloned[r]) <= 1 + Landed(r)

\* They can be counted.
LEMMA CountType ==
  ASSUME NEW h \in Seq(Commit), NEW r
  PROVE  LET s == {i \in 1..Len(h) : h[i].by \in CR \ {r}} IN
           IsFiniteSet(s) /\ Cardinality(s) \in Nat
<1> DEFINE s == {i \in 1..Len(h) : h[i].by \in CR \ {r}}
<1>1. IsFiniteSet(1..Len(h)) /\ s \subseteq 1..Len(h)
  BY LenProperties, FS_Interval
<1> HIDE DEF s
<1>2. IsFiniteSet(s) /\ Cardinality(s) \in Nat
  BY <1>1, FS_Subset, FS_CardinalityType
<1> QED BY <1>2 DEF s

LEMMA LandedType ==
  ASSUME TypeInv, SpentTypes, NEW r \in CR
  PROVE  /\ IsFiniteSet(Siblings(r)) /\ Cardinality(Siblings(r)) \in Nat
         /\ Landed(r) \in Nat
<1>1. IsFiniteSet(Siblings(r)) /\ Cardinality(Siblings(r)) \in Nat
  BY CountType DEF Siblings, TypeInv, TypeOK, ServerTypes
<1>2. spent["others"] \in Nat
  BY DEF SpentTypes, Bounds
<1> QED BY <1>1, <1>2 DEF Landed

\* A step that does not push, or a push of the resource's own.
LEMMA LandedKept ==
  ASSUME SpentTypes, Grows, NEW r \in CR, Cardinality(Siblings(r)) \in Nat,
         Siblings(r)' = Siblings(r)
  PROVE  Landed(r) <= Landed(r)'
<1>1. Siblings(r)' = Siblings(r)
  OBVIOUS
<1>2. spent["others"] \in Nat /\ spent'["others"] \in Nat /\ spent["others"] <= spent'["others"]
  BY DEF SpentTypes, Grows, Bounds
<1> DEFINE n == Cardinality(Siblings(r))
<1>3. Landed(r)' = spent'["others"] + n
  BY <1>1 DEF Landed
<1> QED BY <1>2, <1>3 DEF Landed

\* A push of somebody else pays for one attempt.
LEMMA LandedGrows ==
  ASSUME TypeInv, SpentTypes, Grows, NEW q \in CR, NEW c, branch' = Append(branch, c),
         \/ c.by \in CR \ {q}
         \/ c.by = Other /\ spent'["others"] = spent["others"] + 1
  PROVE  Landed(q)' >= Landed(q) + 1
<1>1. /\ Len(branch) \in Nat /\ Len(branch') = Len(branch) + 1
      /\ \A i \in 1..Len(branch) : branch'[i] = branch[i]
      /\ branch'[Len(branch) + 1] = c
  <2>1. branch \in Seq(Commit \union {c}) /\ c \in Commit \union {c}
    <3>1. branch \in Seq(Commit)
      BY DEF TypeInv, TypeOK, ServerTypes
    <3>2. Len(branch) \in Nat /\ \A i \in 1..Len(branch) : branch[i] \in Commit
      BY <3>1, ElementOfSeq, LenProperties
    <3>3. branch \in [1..Len(branch) -> Commit \union {c}]
      BY <3>1, <3>2, LenProperties
    <3> QED BY <3>2, <3>3, SeqDef
  <2> QED BY <2>1, LenProperties, AppendProperties
<1>2. IsFiniteSet(Siblings(q)) /\ Cardinality(Siblings(q)) \in Nat
  BY LandedType
<1>4. spent["others"] \in Nat /\ spent'["others"] \in Nat /\ spent["others"] <= spent'["others"]
  BY DEF SpentTypes, Grows, Bounds
<1>5. CASE c.by \in CR \ {q}
  <2>1. Siblings(q)' = Siblings(q) \union {Len(branch) + 1}
    BY <1>1, <1>5 DEF Siblings
  <2>2. Len(branch) + 1 \notin Siblings(q)
    BY <1>1 DEF Siblings
  <2>3. Cardinality(Siblings(q) \union {Len(branch) + 1}) = Cardinality(Siblings(q)) + 1
    BY <1>2, <2>2, FS_AddElement
  <2>4. Landed(q)' = spent'["others"] + (Cardinality(Siblings(q)) + 1)
    BY <2>1, <2>3 DEF Landed
  <2> QED BY <1>2, <1>4, <2>4 DEF Landed
<1>6. CASE c.by = Other /\ spent'["others"] = spent["others"] + 1
  <2>1. Siblings(q)' = Siblings(q)
    BY <1>1, <1>6, ResourceAssumption DEF Siblings
  <2>2. Landed(q)' = spent["others"] + 1 + Cardinality(Siblings(q))
    BY <1>6, <2>1 DEF Landed
  <2> QED BY <1>2, <1>4, <2>2 DEF Landed
<1> QED BY <1>5, <1>6

\* A clone that is a proper prefix is shorter.
LEMMA PrefixLength ==
  ASSUME NEW s \in Seq(Commit), NEW t \in Seq(Commit), IsPrefix(s, t)
  PROVE  Len(s) \in Nat /\ Len(t) \in Nat /\ Len(s) <= Len(t) /\ (s # t => Len(s) < Len(t))
<1>1. Len(s) \in Nat /\ Len(t) \in Nat
  BY LenProperties
<1>2. Len(s) <= Len(t) /\ SubSeq(s, 1, Len(s)) = SubSeq(t, 1, Len(s))
  BY DEF IsPrefix
<1>3. SubSeq(s, 1, Len(s)) = s /\ SubSeq(t, 1, Len(t)) = t
  BY SubSeqFull
<1>4. Len(s) = Len(t) => s = t
  BY <1>2, <1>3
<1> QED BY <1>1, <1>2, <1>4

\* A branch that grows by no more than others land leaves an attempt afforded.
LEMMA GrowthIsAfforded ==
  ASSUME NEW a \in Nat, NEW m \in Nat, NEW n \in Nat, NEW n1 \in Nat, NEW l \in Nat, NEW l1 \in Nat,
         a + n - m <= 1 + l, l1 + n >= l + n1
  PROVE  a + n1 - m <= 1 + l1
OBVIOUS

LEMMA StepAfforded ==
  ASSUME TypeInv, SyncInv, Rooted, SpentTypes, \A r \in CR : Afforded(r), [Next]_vars
  PROVE  \A r \in CR : Afforded(r)'
<1> SUFFICES ASSUME NEW q \in CR
             PROVE  Afforded(q)'
  OBVIOUS
<1>1. SpentTypes' /\ Grows
  BY StepSpends
<1>2. branch \in Seq(Commit) /\ branch' \in Seq(Commit) /\ cloned[q] \in Seq(Commit)
  BY StepTypes DEF TypeInv, TypeOK, ServerTypes, MemoryTypes
<1>3. /\ Landed(q) \in Nat /\ Landed(q)' \in Nat
      /\ Len(branch) \in Nat /\ Len(branch') \in Nat /\ Len(cloned[q]) \in Nat
  <2>1. spent'["others"] \in Nat
    BY <1>1 DEF SpentTypes, Bounds
  <2>2. Cardinality(Siblings(q)') \in Nat
    BY <1>2, CountType DEF Siblings
  <2>3. Landed(q)' \in Nat
    BY <2>1, <2>2 DEF Landed
  <2> QED BY <1>2, <2>3, LandedType, LenProperties
<1>4. attempt[q] \in Nat /\ attempt[q] <= 1 + Landed(q)
  BY ResourceAssumption DEF TypeInv, TypeOK, MemoryTypes, Afforded
<1>a. Cardinality(Siblings(q)) \in Nat
  BY LandedType
\* What the branch grows by, others have landed, unless the resource has.
<1>5. ASSUME \A r \in CR : Push(r) \/ PushReplyLost(r) => r # q
      PROVE  /\ Landed(q)' + Len(branch) >= Landed(q) + Len(branch')
             /\ Landed(q)' >= Landed(q)
             /\ \A h \in Seq(Commit) : IsPrefix(h, branch) => IsPrefix(h, branch')
  <2>1. CASE UNCHANGED branch
    <3>2. Landed(q) <= Landed(q)'
      BY <1>1, <1>a, <2>1, LandedKept DEF Siblings
    <3> QED BY <1>3, <2>1, <3>2
  <2>2. ASSUME NEW c \in Commit, branch' = Append(branch, c),
               \/ c.by \in CR \ {q}
               \/ c.by = Other /\ spent'["others"] = spent["others"] + 1
        PROVE  /\ Landed(q)' + Len(branch) >= Landed(q) + Len(branch')
               /\ Landed(q)' >= Landed(q)
               /\ \A h \in Seq(Commit) : IsPrefix(h, branch) => IsPrefix(h, branch')
    <3>1. Landed(q)' >= Landed(q) + 1
      BY <1>1, <2>2, LandedGrows
    <3>2. Len(branch') = Len(branch) + 1
      BY <1>2, <2>2, AppendProperties
    <3>3. \A h \in Seq(Commit) : IsPrefix(h, branch) => IsPrefix(h, branch')
      BY <1>2, <2>2, PrefixAppend
    <3> QED BY <1>3, <3>1, <3>2, <3>3
  <2>3. OtherPush => spent'["others"] = spent["others"] + 1
    BY SpendGrows DEF OtherPush, Bounds
  <2> QED BY <1>5, <2>1, <2>2, <2>3, StepLands
\* A sync that is where it was, or has not cloned.
<1>6. ASSUME \A r \in CR : Push(r) \/ PushReplyLost(r) => r # q, attempt'[q] = attempt[q],
             pc'[q] \in Cloned => pc[q] \in Cloned /\ cloned'[q] = cloned[q]
      PROVE  Afforded(q)'
  <2>1. attempt'[q] <= 1 + Landed(q)'
    BY <1>3, <1>4, <1>5, <1>6
  <2>2. CASE pc'[q] \in Cloned
    <3>1. IsPrefix(cloned[q], branch) /\ attempt[q] + Len(branch) - Len(cloned[q]) <= 1 + Landed(q)
      BY <1>6, <2>2 DEF Afforded
    <3>2. IsPrefix(cloned'[q], branch')
      BY <1>2, <1>5, <1>6, <2>2, <3>1
    <3>3. attempt[q] + Len(branch') - Len(cloned[q]) <= 1 + Landed(q)'
      <4>1. Landed(q)' + Len(branch) >= Landed(q) + Len(branch')
        BY <1>5, <1>6
      <4>2. attempt[q] \in Nat
        BY <1>4
      <4> QED BY <1>3, <3>1, <4>1, <4>2, GrowthIsAfforded
    <3>4. attempt'[q] + Len(branch') - Len(cloned'[q]) <= 1 + Landed(q)'
      BY <1>6, <2>2, <3>3
    <3> QED BY <2>1, <3>2, <3>4 DEF Afforded
  <2> QED BY <2>1, <2>2 DEF Afforded
<1> USE DEF TypeInv, TypeOK, MemoryTypes
<1>7. ASSUME attempt'[q] \in {0, 1}, pc'[q] \notin Cloned PROVE Afforded(q)'
  BY <1>3, <1>7 DEF Afforded
<1>8. ASSUME NEW r \in CR, Forget(r), r = q PROVE Afforded(q)'
  BY <1>7, <1>8 DEF Forget, Goto, Cloned
<1>9. ASSUME NEW r \in CR, Reconcile(r) \/ Fault(r), r # q PROVE Afforded(q)'
  <2>1. attempt'[q] = attempt[q] /\ pc'[q] = pc[q] /\ cloned'[q] = cloned[q]
    <3>1. CASE Get(r) \/ Observe(r)
      BY <1>9, <3>1 DEF Get, Observe, ObserveDeleting, ObserveDrifted, ObserveFound, ObserveAbsent,
                        ObserveRecorded, Then, Goto, clone
    <3>2. CASE Report(r) \/ Delete(r) \/ Release(r) \/ ObserveFails(r)
      BY <1>9, <3>2 DEF Report, Delete, Release, ObserveFails, Forget, Goto
    <3>3. CASE BeginCreate(r) \/ BeginUpdate(r) \/ Clone(r) \/ Write(r) \/ MakeCommit(r) \/ Push(r)
      BY <1>9, <3>3 DEF BeginCreate, BeginUpdate, Clone, Write, MakeCommit, Push, Forget, Goto,
                        clone, memory
    <3>4. CASE PushContended(r) \/ SyncFails(r) \/ PushReplyLost(r) \/ RecordFails(r)
      BY <1>9, <3>4 DEF PushContended, SyncFails, PushReplyLost, RecordFails, Fail, Forget, Goto,
                        clone
    <3>5. CASE RecordStatus(r) \/ RecordConflict(r) \/ Done(r)
      BY <1>9, <3>5 DEF RecordStatus, RecordConflict, FailInConflict, Done, Forget, Goto, clone
    <3>6. CASE CommitLost(r)
      BY <1>9, <3>6 DEF CommitLost, Goto, clone
    <3>7. CASE ObserveMisses(r)
      BY <1>9, <3>7, MissesGoes DEF Goto, clone
    <3>8. CASE Reconcile(r)
      BY <3>1, <3>2, <3>3, <3>4, <3>5, <3>8 DEF Reconcile
    <3>9. CASE Fault(r)
      BY <3>2, <3>4, <3>6, <3>7, <3>9 DEF Fault
    <3> QED BY <1>9, <3>8, <3>9
  <2>2. ASSUME NEW p \in CR, Push(p) \/ PushReplyLost(p) PROVE p # q
    <3>1. pc[p] = "push" /\ pc'[p] # "push"
      BY <2>2 DEF Push, PushReplyLost, Fail, Forget, Goto
    <3> QED BY <2>1, <3>1
  <2> QED BY <1>6, <2>1, <2>2
\* No step but a push's own is a push.
<1>10. ASSUME NEW p \in CR, Push(p) \/ PushReplyLost(p) PROVE pc[p] = "push" /\ pc'[p] \in {"record", "idle"}
  BY <1>10 DEF Push, PushReplyLost, Fail, Forget, Goto
<1>11. CASE Get(q) \/ Observe(q) \/ Write(q) \/ MakeCommit(q) \/ CommitLost(q) \/ RecordStatus(q)
  <2>1. /\ attempt' = attempt /\ cloned' = cloned
        /\ pc'[q] \in Cloned => pc[q] \in Cloned
        /\ pc[q] # "push"
    BY <1>11 DEF Get, Observe, ObserveDeleting, ObserveDrifted, ObserveFound, ObserveAbsent,
                 ObserveRecorded, Observing, Then, Write, MakeCommit, CommitLost, RecordStatus, Goto,
                 Cloned, clone, memory
  <2> QED BY <1>6, <1>10, <2>1
<1>12. CASE \/ Report(q) \/ Delete(q) \/ Release(q) \/ Done(q) \/ ObserveFails(q)
            \/ SyncFails(q) \/ PushReplyLost(q) \/ RecordFails(q)
  BY <1>8, <1>12 DEF Report, Delete, Release, Done, ObserveFails, SyncFails, PushReplyLost, RecordFails,
                     Fail
<1>13. CASE BeginCreate(q) \/ BeginUpdate(q)
  <2>1. CASE Forget(q)
    BY <1>8, <2>1
  <2>2. CASE ~Forget(q)
    <3>1. attempt'[q] = 1 \/ (attempt' = attempt /\ cloned' = cloned)
      BY <1>13, <2>2 DEF BeginCreate, BeginUpdate, clone
    <3>2. pc'[q] \notin Cloned /\ pc[q] # "push"
      BY <1>13, <2>2 DEF BeginCreate, BeginUpdate, Goto, Cloned
    <3> QED BY <1>6, <1>7, <1>10, <3>1, <3>2
  <2> QED BY <2>1, <2>2
<1>14. CASE Clone(q)
  <2>1. branch' = branch /\ cloned'[q] = branch /\ attempt' = attempt /\ pc[q] # "push"
    BY <1>14 DEF Clone, memory
  <2>2. Landed(q)' >= Landed(q)
    BY <1>5, <1>10, <2>1
  <2>3. IsPrefix(cloned'[q], branch')
    BY <1>2, <2>1, PrefixSelf
  <2>4. attempt'[q] <= 1 + Landed(q)'
    BY <1>3, <1>4, <2>1, <2>2
  <2>5. attempt'[q] + Len(branch') - Len(cloned'[q]) <= 1 + Landed(q)'
    BY <1>3, <1>4, <2>1, <2>4
  <2> QED BY <2>3, <2>4, <2>5 DEF Afforded
<1>15. CASE Push(q)
  <2>1. attempt' = attempt /\ pc'[q] \notin Cloned
    BY <1>15 DEF Push, Goto, Cloned
  <2>2. Landed(q)' >= Landed(q)
    <3>1. PICK c \in Commit : branch' = Append(branch, c) /\ c.by = q
      BY <1>15, PushLands
    <3>2. /\ Len(branch') = Len(branch) + 1
          /\ \A i \in 1..Len(branch) : branch'[i] = branch[i]
          /\ branch'[Len(branch) + 1] = c
      BY <1>2, <3>1, AppendProperties
    <3>3. Siblings(q)' = Siblings(q)
      BY <1>3, <3>1, <3>2 DEF Siblings
    <3> QED BY <1>1, <1>3, <1>a, <3>3, LandedKept
  <2> QED BY <1>3, <1>4, <2>1, <2>2 DEF Afforded
<1>16. CASE PushContended(q)
  <2>1. CASE attempt[q] < PushSteps
    <3>1. attempt'[q] = attempt[q] + 1 /\ pc'[q] = "clone" /\ branch' = branch /\ spent' = spent
      BY <1>16, <2>1 DEF PushContended, Goto
    <3>2. Len(cloned[q]) < Len(branch) /\ attempt[q] + Len(branch) - Len(cloned[q]) <= 1 + Landed(q)
      <4>1. branch # cloned[q] /\ pc[q] \in Cloned
        BY <1>16 DEF PushContended, Cloned
      <4>2. IsPrefix(cloned[q], branch) /\ attempt[q] + Len(branch) - Len(cloned[q]) <= 1 + Landed(q)
        BY <4>1 DEF Afforded
      <4> QED BY <1>2, <4>1, <4>2, PrefixLength
    <3>3. Landed(q)' = Landed(q)
      BY <3>1 DEF Landed, Siblings
    <3>4. attempt'[q] <= 1 + Landed(q)'
      BY <1>3, <1>4, <3>1, <3>2, <3>3
    <3> QED BY <3>1, <3>4 DEF Afforded, Cloned
  <2>2. CASE ~(attempt[q] < PushSteps)
    BY <1>8, <1>16, <2>2 DEF PushContended, Fail
  <2> QED BY <2>1, <2>2
<1>17. CASE RecordConflict(q)
  <2>1. CASE tries[q] > 1
    <3>1. attempt' = attempt /\ cloned' = cloned /\ pc' = pc /\ pc[q] # "push"
      BY <1>17, <2>1 DEF RecordConflict, clone
    <3> QED BY <1>6, <1>10, <3>1
  <2>2. CASE ~(tries[q] > 1)
    BY <1>8, <1>17, <2>2 DEF RecordConflict, FailInConflict
  <2> QED BY <2>1, <2>2
\* The others leave every sync where it is.
<1>18. ASSUME attempt' = attempt, cloned' = cloned, pc' = pc PROVE Afforded(q)'
  BY <1>6, <1>10, <1>18
<1>19. ASSUME NEW r \in CR, Edit(r) \/ Touch(r) \/ ClearPending(r) \/ Lifecycle(r) PROVE Afforded(q)'
  BY <1>18, <1>19 DEF Edit, Touch, ClearPending, Lifecycle, RequestDeletion, Recreate, memory, clone
<1>20. CASE OtherPush
  BY <1>18, <1>20 DEF OtherPush, memory, clone
<1>21. CASE Crash
  BY <1>7, <1>21 DEF Crash, Cloned
<1>22. CASE UNCHANGED vars
  BY <1>18, <1>22 DEF vars, memory, clone
<1>23. CASE ObserveMisses(q)
  <2>1. attempt' = attempt /\ cloned' = cloned /\ pc[q] # "push"
    BY <1>23 DEF ObserveMisses, Observing, clone
  <2>2. pc'[q] \notin Cloned
    BY <1>23, MissesGoes DEF Goto, Cloned
  <2> QED BY <1>6, <1>10, <2>1, <2>2
<1> QED
  BY <1>9, <1>11, <1>12, <1>13, <1>14, <1>15, <1>16, <1>17, <1>19, <1>20, <1>21, <1>22, <1>23
     DEF Next, Reconcile, Fault

(* A sync starts over only when somebody else has landed a push since it   *)
(* cloned: among siblings that publish one file each, nobody is turned     *)
(* away more often than the others are served.                             *)
THEOREM AttemptsAreAfforded ==
  ASSUME CloneFrom = << >> \/ << >> \notin InitialBranches
  PROVE  Spec => []RetriesArePaid
<1>1. Init => TypeInv /\ SyncInv /\ RecordInv
  BY InitTypes, InitShapes, InitRecords
<1>2. Init => SpentTypes
  BY DEF Init, SpentTypes, Bounds
<1>3. Init => \A r \in CR : Afforded(r)
  <2> SUFFICES ASSUME Init, NEW r \in CR PROVE Afforded(r)
    OBVIOUS
  <2>1. Landed(r) \in Nat
    BY <1>1, <1>2, LandedType
  <2> QED BY <2>1 DEF Init, Afforded, Cloned
<1>4. TypeInv /\ SyncInv /\ RecordInv /\ [Next]_vars => TypeInv' /\ SyncInv' /\ RecordInv'
  BY StepTypes, StepShapes, StepRecords
<1>5. SpentTypes /\ [Next]_vars => SpentTypes'
  BY StepSpends
<1>6. TypeInv /\ SyncInv /\ RecordInv /\ SpentTypes /\ (\A r \in CR : Afforded(r)) /\ [Next]_vars =>
        (\A r \in CR : Afforded(r))'
  BY StepAfforded DEF RecordInv
<1>7. TypeInv /\ SpentTypes /\ (\A r \in CR : Afforded(r)) => RetriesArePaid
  <2> SUFFICES ASSUME TypeInv, SpentTypes, NEW r \in CR, Afforded(r)
               PROVE  attempt[r] <= 1 + spent["others"]
                                      + Cardinality({i \in 1..Len(branch) : branch[i].by \in CR \ {r}})
    BY DEF RetriesArePaid
  <2> DEFINE o == spent["others"]
             n == Cardinality(Siblings(r))
             a == attempt[r]
  <2>1. o \in Nat /\ n \in Nat /\ a \in Nat
    <3>1. n \in Nat
      BY LandedType
    <3> QED BY <3>1, ResourceAssumption DEF SpentTypes, Bounds, TypeInv, TypeOK, MemoryTypes
  <2>2. a <= 1 + (o + n)
    BY DEF Afforded, Landed
  <2>3. n = Cardinality({i \in 1..Len(branch) : branch[i].by \in CR \ {r}})
    BY DEF Siblings
  <2> HIDE DEF o, n, a
  <2>4. a <= 1 + o + n
    BY <2>1, <2>2
  <2> QED BY <2>3, <2>4 DEF o, a
<1> QED BY <1>1, <1>2, <1>3, <1>4, <1>5, <1>6, <1>7, PTL DEF Spec
==================================================================================
