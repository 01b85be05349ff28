------------------------------- MODULE RepoProofs -------------------------------
(***************************************************************************)
(* Theorems about Repo, for any target branch and any bounds: types; that  *)
(* the recorded commits belong together; that a create that has succeeded  *)
(* is named; and that without enableUpdate a recorded push is the last.    *)
(*                                                                         *)
(* All but the types rest on what a reconcile holds at each of its places: *)
(* what it has copied from the origin (SyncInv), a commit to record        *)
(* (NameInv), and the right to push (FreshInv).                            *)
(***************************************************************************)
EXTENDS Repo, SequenceTheorems, TLAPS

Bounds == {"others", "rewrites", "outages", "faults", "edits", "touches", "losses", "rewinds",
           "crashes", "all"}

SpentTypes == spent \in [Bounds -> Nat] /\ spent["rewrites"] <= MaxRewrites

TypeInv == TypeOK /\ SpentTypes

----------------------------------------------------------------------------------
(* Types.                                                                  *)

\* What is at the end of a history.
LEMMA FileType ==
  ASSUME NEW h \in Seq(Commit)
  PROVE  File(h) \in Files
<1>1. CASE h = << >>
  BY <1>1 DEF File, Files
<1>2. CASE h # << >>
  <2>1. Len(h) \in 1..Len(h)
    BY <1>2, LenProperties, EmptySeq
  <2>2. h[Len(h)] \in Commit
    BY <2>1, ElementOfSeq
  <2> QED BY <1>2, <2>2 DEF File, Last, Commit
<1> QED BY <1>1, <1>2

\* A history that holds a copied file has a commit.
LEMMA FileMeansCommit ==
  ASSUME NEW h, File(h) # Absent
  PROVE  h # << >>
BY DEF File

\* A commit made on a history.
LEMMA CommitType ==
  ASSUME NEW h \in Seq(Commit), NEW b \in {"repo", "other"}, NEW e \in 0..MaxRewrites,
         NEW f \in Files
  PROVE  LET c == [by |-> b, era |-> e, file |-> f] IN
           /\ c \in Commit
           /\ <<c>> \in Seq(Commit)
           /\ Append(h, c) \in Seq(Commit)
           /\ Append(h, c) # << >>
           /\ Len(Append(h, c)) = Len(h) + 1
           /\ Last(Append(h, c)) = c
<1> DEFINE c == [by |-> b, era |-> e, file |-> f]
<1>1. c \in Commit
  BY DEF Commit
<1>2. <<c>> \in Seq(Commit)
  BY <1>1
<1> HIDE DEF c
<1>3. /\ Append(h, c) \in Seq(Commit)
      /\ Append(h, c) # << >>
      /\ Len(Append(h, c)) = Len(h) + 1
      /\ Append(h, c)[Len(h) + 1] = c
  BY <1>1, AppendProperties
<1>4. Last(Append(h, c)) = c
  BY <1>3 DEF Last
<1> USE DEF c
<1> QED BY <1>1, <1>2, <1>3, <1>4

\* The era in which a commit is made.
LEMMA EraType ==
  ASSUME SpentTypes
  PROVE  spent["rewrites"] \in 0..MaxRewrites
BY RepoAssumption DEF SpentTypes, Bounds

\* A history that is cut short.
LEMMA CutType ==
  ASSUME NEW h \in Seq(Commit), NEW n \in 0..(Len(h) - 1)
  PROVE  SubSeq(h, 1, n) \in Seq(Commit) /\ Len(SubSeq(h, 1, n)) = n
<1>1. Len(h) \in Nat
  BY LenProperties
<1>2. \A i \in 1..n : h[i] \in Commit
  BY <1>1, ElementOfSeq
<1>3. /\ SubSeq(h, 1, n) \in Seq(Commit)
      /\ Len(SubSeq(h, 1, n)) = IF 1 <= n THEN n - 1 + 1 ELSE 0
  BY <1>1, <1>2, SubSeqProperties
<1> QED BY <1>1, <1>3

\* A disturbance is paid for.
LEMMA SpendTypes ==
  ASSUME SpentTypes, NEW b \in Bounds \ {"all"}, NEW max, Spend(b, max),
         b = "rewrites" => max = MaxRewrites
  PROVE  SpentTypes'
<1>1. spent \in [Bounds -> Nat] /\ spent["rewrites"] <= MaxRewrites /\ "all" \in Bounds
  BY DEF SpentTypes, Bounds
<1>2. spent' = [spent EXCEPT ![b] = @ + 1, !["all"] = @ + 1] /\ spent[b] < max
  BY DEF Spend
<1>3. spent' \in [Bounds -> Nat]
  BY <1>1, <1>2
<1>4. CASE b = "rewrites"
  <2>1. spent'["rewrites"] = spent["rewrites"] + 1 /\ spent["rewrites"] \in Nat
    BY <1>1, <1>2, <1>4
  <2> QED BY <2>1, <1>2, <1>3, <1>4, RepoAssumption DEF SpentTypes
<1>5. CASE b # "rewrites"
  <2>1. "rewrites" \in Bounds
    BY DEF Bounds
  <2>2. spent'["rewrites"] = spent["rewrites"]
    BY <1>1, <1>2, <1>5, <2>1
  <2> QED BY <2>2, <1>1, <1>3 DEF SpentTypes
<1> QED BY <1>4, <1>5

\* A status with new reasons.
LEMMA StatusTypes ==
  ASSUME NEW s \in Status, NEW d \in Ready, NEW e \in Synced
  PROVE  /\ [s EXCEPT !.synced = e] \in Status
         /\ [s EXCEPT !.ready = d, !.synced = e] \in Status
         /\ [s EXCEPT !.ready = d] \in Status
<1> DEFINE H == Seq(Commit)
<1>1. Status = [origin : OriginCommits \union {NoCommit}, target : H, ready : Ready,
                synced : Synced]
  BY DEF Status
<1> HIDE DEF H
<1> QED BY <1>1

\* Reasons say nothing of the commits.
LEMMA ReasonsKeep ==
  ASSUME NEW s \in Status, NEW d, NEW e
  PROVE  /\ [s EXCEPT !.synced = e].origin = s.origin
         /\ [s EXCEPT !.synced = e].target = s.target
         /\ [s EXCEPT !.ready = d, !.synced = e].origin = s.origin
         /\ [s EXCEPT !.ready = d, !.synced = e].target = s.target
<1> DEFINE H == Seq(Commit)
<1>1. Status = [origin : OriginCommits \union {NoCommit}, target : H, ready : Ready,
                synced : Synced]
  BY DEF Status
<1> HIDE DEF H
<1> QED BY <1>1

\* What a reconcile sets on its copy.
LEMMA CopyTypes ==
  ASSUME NEW c \in Copies, NEW h \in Seq(Commit), NEW d \in Ready, NEW s \in Status,
         NEW o \in OriginCommits \union {NoCommit}
  PROVE  /\ [c EXCEPT !.status.ready = d] \in Copies
         /\ [c EXCEPT !.name = h] \in Copies
         /\ [c EXCEPT !.status.target = h] \in Copies
         /\ [c EXCEPT !.status.origin = o, !.status.target = h, !.name = h] \in Copies
         /\ [c EXCEPT !.status = s, !.name = h] \in Copies
<1> DEFINE H == Seq(Commit)
<1>1. /\ Status = [origin : OriginCommits \union {NoCommit}, target : H, ready : Ready,
                   synced : Synced]
      /\ Copies = [enableUpdate : BOOLEAN, deleted : BOOLEAN, status : Status, name : H]
      /\ h \in H
  BY DEF Status, Copies
<1> HIDE DEF H
<1>2. [c EXCEPT !.status.ready = d] \in Copies
  BY <1>1
<1>3. [c EXCEPT !.name = h] \in Copies /\ [c EXCEPT !.status = s, !.name = h] \in Copies
  BY <1>1
<1>4. [c EXCEPT !.status.target = h] \in Copies
  BY <1>1
<1>5. [c EXCEPT !.status.origin = o, !.status.target = h, !.name = h] \in Copies
  BY <1>1
<1> QED BY <1>2, <1>3, <1>4, <1>5

\* What a copy holds.
LEMMA HeldTypes ==
  ASSUME MemoryTypes
  PROVE  /\ copy.status \in Status
         /\ copy.status.target \in Seq(Commit)
         /\ copy.name \in Seq(Commit)
BY DEF MemoryTypes, Copies, Status

\* What a reconcile reads.
LEMMA SnapshotType ==
  ASSUME ObjectTypes
  PROVE  Snapshot \in Copies
BY DEF ObjectTypes, Snapshot, Copies

\* A reconcile that has ended holds nothing.
LEMMA ForgetTypes ==
  ASSUME Forget
  PROVE  MemoryTypes'
<1>1. << >> \in Seq(Commit)
  BY EmptySeq
<1>2. NoStatus \in Status
  BY <1>1 DEF NoStatus, Status, Ready, Synced
<1>3. NoCopy \in Copies
  BY <1>1, <1>2 DEF NoCopy, Copies
<1>4. 0 \in 0..StatusSteps
  BY RepoAssumption
<1>5. Absent \in Files /\ "idle" \in PC
  BY DEF Files, PC
<1> QED BY <1>1, <1>3, <1>4, <1>5 DEF Forget, MemoryTypes, Goto

\* The status write that ends a reconcile.
LEMMA WriteStatusTypes ==
  ASSUME TypeInv, NEW s \in Status, WriteStatus(s)
  PROVE  ServerTypes' /\ ObjectTypes' /\ MemoryTypes'
<1>1. MemoryTypes'
  BY ForgetTypes DEF WriteStatus
<1>2. ServerTypes'
  BY DEF TypeInv, TypeOK, WriteStatus, servers, ServerTypes
<1>3. status' \in Status
  BY DEF TypeInv, TypeOK, WriteStatus, ObjectTypes
<1> QED BY <1>1, <1>2, <1>3 DEF TypeInv, TypeOK, WriteStatus, ObjectTypes, spec

\* What a failed sync leaves behind.
LEMMA FailTypes ==
  ASSUME TypeInv, Fail
  PROVE  ObjectTypes' /\ MemoryTypes' /\ origin' = origin /\ reachable' = reachable
<1>1. MemoryTypes' /\ origin' = origin /\ reachable' = reachable
  BY ForgetTypes DEF Fail
<1>2. copy.status \in Status /\ copy.name \in Seq(Commit) /\ status \in Status
      /\ name \in Seq(Commit)
  BY HeldTypes DEF TypeInv, TypeOK, ObjectTypes
<1>3. "Unavailable" \in Ready /\ "ReconcileError" \in Synced
  BY DEF Ready, Synced
<1>4. status' \in Status
  <2>1. CASE action = "create"
    <3>1. status' = [status EXCEPT !.synced = "ReconcileError"]
      BY <2>1 DEF Fail
    <3> QED BY <1>2, <1>3, <3>1, StatusTypes
  <2>2. CASE action # "create"
    <3>1. \/ status' = status
          \/ status' = [copy.status EXCEPT !.ready = "Unavailable", !.synced = "ReconcileError"]
      BY <2>2 DEF Fail
    <3>2. [copy.status EXCEPT !.ready = "Unavailable", !.synced = "ReconcileError"] \in Status
      BY <1>2, <1>3, StatusTypes
    <3> QED BY <1>2, <3>1, <3>2
  <2> QED BY <2>1, <2>2
<1>5. name' \in Seq(Commit)
  BY <1>2 DEF Fail
<1>6. outcome' \in {"none", "pending", "succeeded", "failed"}
  BY DEF Fail, TypeInv, TypeOK, ObjectTypes
<1> QED BY <1>1, <1>4, <1>5, <1>6 DEF Fail, TypeInv, TypeOK, ObjectTypes, spec

\* The types hold at first.
LEMMA InitTypes == Init => TypeInv
<1> SUFFICES ASSUME Init PROVE TypeInv
  OBVIOUS
<1>1. << >> \in Seq(Commit) /\ branch \in Seq(Commit)
  BY EmptySeq, RepoAssumption DEF Init
<1>2. NoStatus \in Status
  BY <1>1 DEF NoStatus, Status, Ready, Synced
<1>3. NoCopy \in Copies
  BY <1>1, <1>2 DEF NoCopy, Copies
<1>4. ServerTypes
  BY <1>1, RepoAssumption DEF Init, ServerTypes, OriginCommits
<1>5. ObjectTypes
  BY <1>1, <1>2, RepoAssumption DEF Init, ObjectTypes
<1>6. MemoryTypes
  <2>1. 0 \in 0..StatusSteps /\ Absent \in Files /\ "idle" \in PC
    BY RepoAssumption DEF Files, PC
  <2> QED BY <1>1, <1>3, <2>1 DEF Init, MemoryTypes
<1>7. SpentTypes
  BY RepoAssumption DEF Init, SpentTypes, Bounds
<1>8. LostTypes
  BY DEF Init, LostTypes
<1> QED BY <1>4, <1>5, <1>6, <1>7, <1>8 DEF TypeInv, TypeOK

\* What a step leaves alone keeps its types.
LEMMA SameTypes ==
  ASSUME TypeInv
  PROVE  /\ UNCHANGED servers => ServerTypes'
         /\ UNCHANGED object => ObjectTypes'
         /\ UNCHANGED <<pc, memory>> => MemoryTypes'
         /\ UNCHANGED spent => SpentTypes'
         /\ UNCHANGED lost => LostTypes'
<1>1. UNCHANGED servers => ServerTypes'
  BY DEF TypeInv, TypeOK, ServerTypes, servers
<1>2. UNCHANGED object => ObjectTypes'
  BY DEF TypeInv, TypeOK, ObjectTypes, object, spec
<1>3. UNCHANGED <<pc, memory>> => MemoryTypes'
  BY DEF TypeInv, TypeOK, MemoryTypes, memory, clones
<1>4. UNCHANGED spent => SpentTypes'
  BY DEF TypeInv, SpentTypes
<1>5. UNCHANGED lost => LostTypes'
  BY DEF TypeInv, TypeOK, LostTypes
<1> QED BY <1>1, <1>2, <1>3, <1>4, <1>5

\* A target commit adopted from the external name.
LEMMA AdoptedType ==
  ASSUME TypeInv
  PROVE  Adopted \in Copies
<1>1. copy \in Copies /\ copy.status.target \in Seq(Commit) /\ copy.name \in Seq(Commit)
      /\ copy.status \in Status
  BY HeldTypes DEF TypeInv, TypeOK, MemoryTypes
<1>2. /\ [copy EXCEPT !.name = copy.status.target] \in Copies
      /\ [copy EXCEPT !.status.target = copy.name] \in Copies
  <2>1. "none" \in Ready
    BY DEF Ready
  <2>2. NoCommit \in OriginCommits \union {NoCommit}
    OBVIOUS
  <2> QED BY <1>1, <2>1, <2>2, CopyTypes
<1> QED BY <1>2 DEF Adopted

\* Each outcome of Observe keeps the types.
LEMMA ObserveTypes ==
  ASSUME TypeInv, Observe
  PROVE  TypeInv'
<1>1. MemoryTypes /\ ObjectTypes /\ ServerTypes
  BY DEF TypeInv, TypeOK
<1>2. copy \in Copies /\ copy.status \in Status /\ copy.status.target \in Seq(Commit)
      /\ copy.name \in Seq(Commit)
  BY <1>1, HeldTypes DEF MemoryTypes
<1>3. ASSUME UNCHANGED <<servers, object, spent, lost>>, copy' \in Copies, pc' \in PC,
             seen' \in OriginCommits \union {NoCommit},
             UNCHANGED <<stale, action, tries, clones>>
      PROVE  TypeInv'
  <2>1. MemoryTypes'
    BY <1>1, <1>3 DEF MemoryTypes, clones
  <2> QED BY <1>3, <2>1, SameTypes DEF TypeInv, TypeOK
<1>4. ASSUME NEW d \in Ready, SetReady(d), pc' \in PC, UNCHANGED seen,
             UNCHANGED <<servers, object, spent, lost>>, UNCHANGED <<stale, action, tries, clones>>
      PROVE  TypeInv'
  <2>1. copy' \in Copies
    BY <1>2, <1>4, CopyTypes DEF SetReady
  <2>2. seen' \in OriginCommits \union {NoCommit}
    BY <1>1, <1>4 DEF MemoryTypes
  <2> QED BY <1>3, <1>4, <2>1, <2>2
<1>5. ASSUME NEW c \in Copies, NEW d \in Ready, NEW e \in Synced, UNCHANGED <<spent, lost>>,
             WriteStatus([c.status EXCEPT !.ready = d, !.synced = e])
      PROVE  TypeInv'
  <2>1. c.status \in Status
    BY DEF Copies
  <2>2. [c.status EXCEPT !.ready = d, !.synced = e] \in Status
    BY <2>1, StatusTypes
  <2> QED BY <1>5, <2>2, WriteStatusTypes, SameTypes DEF TypeInv, TypeOK
<1>6. {"Deleting", "Unavailable", "Available", "NotObserved"} \subseteq Ready
      /\ "ReconcileError" \in Synced
  BY DEF Ready, Synced
<1>7. ASSUME NEW l \in PC, Then(l) PROVE pc' \in PC
  BY <1>7 DEF Then, Goto, PC
<1>8. CASE ObserveDeleting
  <2>1. pc' \in PC /\ UNCHANGED seen
    BY <1>8 DEF ObserveDeleting, Goto, PC
  <2> QED BY <1>8, <1>4, <1>6, <2>1 DEF ObserveDeleting
<1>9. CASE ObserveNothing
  <2>1. pc' \in PC /\ UNCHANGED seen
    BY <1>9 DEF ObserveNothing, Goto, PC
  <2> QED BY <1>9, <1>4, <1>6, <2>1 DEF ObserveNothing
<1>10. CASE ObserveOrigin
  <2>1. pc' \in PC
    BY <1>10 DEF ObserveOrigin, Goto, PC
  <2>2. copy' \in Copies
    BY <1>10, AdoptedType DEF ObserveOrigin
  <2>3. seen' \in OriginCommits \union {NoCommit}
    BY <1>1, <1>10 DEF ObserveOrigin, ServerTypes
  <2> QED BY <1>10, <1>3, <2>1, <2>2, <2>3 DEF ObserveOrigin
<1>11. CASE ObserveLost
  BY <1>2, <1>11, <1>5, <1>6 DEF ObserveLost
<1>12. CASE ObserveRewritten
  <2>1. pc' \in PC /\ UNCHANGED seen
    BY <1>12, <1>7 DEF ObserveRewritten, PC
  <2> QED BY <1>12, <1>4, <1>6, <2>1 DEF ObserveRewritten
<1>13. CASE ObserveBehind
  <2>1. pc' \in PC /\ UNCHANGED seen
    BY <1>13, <1>7 DEF ObserveBehind, PC
  <2> QED BY <1>13, <1>4, <1>6, <2>1 DEF ObserveBehind
<1>14. CASE ObserveSynced
  <2>1. pc' \in PC /\ UNCHANGED seen
    BY <1>14, <1>7 DEF ObserveSynced, PC
  <2> QED BY <1>14, <1>4, <1>6, <2>1 DEF ObserveSynced
<1>15. CASE ObserveFails
  BY <1>15, <1>5, <1>6, AdoptedType DEF ObserveFails
<1> QED BY <1>8, <1>9, <1>10, <1>11, <1>12, <1>13, <1>14, <1>15 DEF Observe

\* The rest of a reconcile keeps the types.
LEMMA ReconcileTypes ==
  ASSUME TypeInv, Reconcile
  PROVE  TypeInv'
<1>1. MemoryTypes /\ ObjectTypes /\ ServerTypes
  BY DEF TypeInv, TypeOK
<1>2. /\ copy \in Copies /\ copy.status \in Status /\ copy.name \in Seq(Commit)
      /\ status \in Status /\ branch \in Seq(Commit) /\ local \in Seq(Commit)
      /\ from \in OriginCommits \union {NoCommit}
  BY <1>1, HeldTypes DEF MemoryTypes, ObjectTypes, ServerTypes
<1>3. Ready = {"none", "NotObserved", "Unavailable", "Creating", "Available", "Deleting"}
      /\ Synced = {"none", "ReconcileSuccess", "ReconcileError"}
  BY DEF Ready, Synced
<1>4. CASE Connect
  <2>1. MemoryTypes'
    BY <1>1, <1>4, SnapshotType DEF Connect, MemoryTypes, Goto, PC, clones
  <2> QED BY <1>4, <2>1, SameTypes DEF Connect, TypeInv, TypeOK
<1>5. CASE ConnectFails
  <2>1. status' \in Status
    <3>1. PICK d : /\ d \in {status.ready, IF deleted THEN "Deleting" ELSE "NotObserved"}
                   /\ status' = [status EXCEPT !.ready = d, !.synced = "ReconcileError"]
      BY <1>5 DEF ConnectFails
    <3>2. d \in Ready /\ "ReconcileError" \in Synced
      BY <1>2, <1>3, <3>1 DEF Status
    <3> QED BY <1>2, <3>1, <3>2, StatusTypes
  <2>2. ObjectTypes'
    BY <1>1, <1>5, <2>1 DEF ConnectFails, ObjectTypes, spec
  <2> QED BY <1>5, <2>2, SameTypes DEF ConnectFails, TypeInv, TypeOK
<1>6. CASE Observe
  BY <1>6, ObserveTypes
<1>7. CASE Report
  <2>1. [copy.status EXCEPT !.synced = "ReconcileSuccess"] \in Status
    BY <1>2, <1>3, StatusTypes
  <2> QED BY <1>7, <2>1, WriteStatusTypes, SameTypes DEF Report, TypeInv, TypeOK
<1>8. CASE Delete
  <2>1. [copy.status EXCEPT !.ready = "Deleting", !.synced = "ReconcileSuccess"] \in Status
    BY <1>2, <1>3, StatusTypes
  <2> QED BY <1>8, <2>1, WriteStatusTypes, SameTypes DEF Delete, TypeInv, TypeOK
<1>9. CASE Release
  <2>1. ObjectTypes'
    BY <1>1, <1>9 DEF Release, ObjectTypes, spec, MemoryTypes
  <2> QED BY <1>9, <2>1, ForgetTypes, SameTypes DEF Release, TypeInv, TypeOK
<1>10. CASE BeginCreate
  <2>1. CASE stale
    <3>1. Forget /\ UNCHANGED outcome
      BY <1>10, <2>1 DEF BeginCreate
    <3>2. UNCHANGED object
      BY <1>10, <3>1 DEF BeginCreate, object
    <3> QED BY <1>10, <3>1, <3>2, ForgetTypes, SameTypes DEF BeginCreate, TypeInv, TypeOK
  <2>2. CASE ~stale
    <3>1. /\ outcome' = "pending" /\ SetReady("Creating") /\ action' = "create"
          /\ Goto("cloneTarget") /\ UNCHANGED <<stale, seen, tries, clones>>
      BY <1>10, <2>2 DEF BeginCreate
    <3>2. copy' \in Copies
      BY <1>2, <1>3, <3>1, CopyTypes DEF SetReady
    <3>3. MemoryTypes'
      BY <1>1, <3>1, <3>2 DEF MemoryTypes, Goto, PC, clones
    <3>4. ObjectTypes'
      BY <1>1, <1>10, <3>1 DEF BeginCreate, ObjectTypes, spec
    <3> QED BY <1>10, <3>3, <3>4, SameTypes DEF BeginCreate, TypeInv, TypeOK
  <2> QED BY <2>1, <2>2
<1>11. CASE BeginUpdate
  <2>1. copy' \in Copies
    BY <1>2, <1>3, <1>11, CopyTypes DEF BeginUpdate, SetReady
  <2>2. MemoryTypes'
    BY <1>1, <1>11, <2>1 DEF BeginUpdate, MemoryTypes, Goto, PC, clones
  <2> QED BY <1>11, <2>2, SameTypes DEF BeginUpdate, TypeInv, TypeOK
<1>12. CASE CloneTarget
  <2>1. Base(branch) \in Seq(Commit)
    BY <1>2, RepoAssumption DEF Base
  <2>2. MemoryTypes'
    BY <1>1, <1>2, <1>12, <2>1 DEF CloneTarget, MemoryTypes, Goto, PC
  <2> QED BY <1>12, <2>2, SameTypes DEF CloneTarget, TypeInv, TypeOK
<1>13. CASE CloneOrigin
  <2>1. MemoryTypes'
    BY <1>1, <1>13 DEF CloneOrigin, MemoryTypes, Goto, PC, ServerTypes
  <2> QED BY <1>13, <2>1, SameTypes DEF CloneOrigin, TypeInv, TypeOK
<1>14. CASE Write
  <2>1. work' \in Files
    <3>1. File(local) \in Files /\ from \in Files
      BY <1>2, FileType DEF Files, NoCommit, Absent
    <3> QED BY <1>14, <3>1 DEF Write
  <2>2. MemoryTypes'
    BY <1>1, <1>14, <2>1 DEF Write, MemoryTypes, Goto, PC
  <2> QED BY <1>14, <2>2, SameTypes DEF Write, TypeInv, TypeOK
<1>15. ASSUME SetRecord(local) PROVE copy' \in Copies
  BY <1>2, <1>3, <1>15, CopyTypes DEF SetRecord
<1>16. ASSUME BeginRecord PROVE tries' \in 0..StatusSteps /\ pc' \in PC
  <2>1. StatusSteps \in 0..StatusSteps
    BY RepoAssumption
  <2> QED BY <1>16, <2>1 DEF BeginRecord, Goto, PC
<1>17. CASE MakeCommit
  <2>1. CASE work = File(local)
    <3>1. SetRecord(local) /\ BeginRecord /\ UNCHANGED local
      BY <1>17, <2>1 DEF MakeCommit
    <3>2. MemoryTypes'
      BY <1>1, <1>15, <1>16, <1>17, <3>1 DEF MakeCommit, MemoryTypes
    <3> QED BY <1>17, <3>2, SameTypes DEF MakeCommit, TypeInv, TypeOK
  <2>2. CASE work # File(local)
    <3>1. /\ local' = Append(local, [by |-> "repo", era |-> spent["rewrites"], file |-> work])
          /\ Goto("push") /\ UNCHANGED <<copy, tries>>
      BY <1>17, <2>2 DEF MakeCommit
    <3>2. local' \in Seq(Commit)
      <4>1. spent["rewrites"] \in 0..MaxRewrites /\ work \in Files
        BY <1>1, EraType DEF TypeInv, MemoryTypes
      <4> QED BY <1>2, <3>1, <4>1, CommitType
    <3>3. MemoryTypes'
      BY <1>1, <1>17, <3>1, <3>2 DEF MakeCommit, MemoryTypes, Goto, PC
    <3> QED BY <1>17, <3>3, SameTypes DEF MakeCommit, TypeInv, TypeOK
  <2> QED BY <2>1, <2>2
<1>18. CASE Push
  <2>1. MemoryTypes'
    BY <1>1, <1>15, <1>16, <1>18 DEF Push, MemoryTypes, clones
  <2>2. ServerTypes'
    BY <1>1, <1>2, <1>18 DEF Push, ServerTypes
  <2> QED BY <1>18, <2>1, <2>2, SameTypes DEF Push, TypeInv, TypeOK
<1>19. CASE SyncFails
  <2>1. UNCHANGED servers /\ ObjectTypes' /\ MemoryTypes' /\ UNCHANGED <<spent, lost>>
    BY <1>19, FailTypes DEF SyncFails, servers
  <2> QED BY <2>1, SameTypes DEF TypeInv, TypeOK
<1>20. CASE RecordStatus
  <2>1. ObjectTypes'
    BY <1>1, <1>2, <1>20 DEF RecordStatus, ObjectTypes, spec
  <2>2. MemoryTypes'
    BY <1>1, <1>20 DEF RecordStatus, MemoryTypes, memory, clones, Goto, PC
  <2> QED BY <1>20, <2>1, <2>2, SameTypes DEF RecordStatus, TypeInv, TypeOK
<1>21. CASE RecordConflict
  <2>1. CASE tries > 1
    <3>1. /\ tries' = tries - 1 /\ stale' = FALSE
          /\ copy' = [Snapshot EXCEPT !.status = copy.status, !.name = copy.name]
          /\ UNCHANGED <<pc, action, seen, clones>>
      BY <1>21, <2>1 DEF RecordConflict
    <3>2. copy' \in Copies
      <4>1. Snapshot \in Copies
        BY <1>1, SnapshotType
      <4> QED BY <1>2, <1>3, <3>1, <4>1, CopyTypes
    <3>3. tries' \in 0..StatusSteps
      BY <1>1, <2>1, <3>1, RepoAssumption DEF MemoryTypes
    <3>4. MemoryTypes'
      BY <1>1, <3>1, <3>2, <3>3 DEF MemoryTypes, clones
    <3> QED BY <1>21, <3>4, SameTypes DEF RecordConflict, TypeInv, TypeOK
  <2>2. CASE ~(tries > 1)
    BY <1>21, <2>2, ForgetTypes, SameTypes DEF RecordConflict, TypeInv, TypeOK
  <2> QED BY <2>1, <2>2
<1>22. CASE Done
  <2>1. status' \in Status
    <3>1. [status EXCEPT !.synced = "ReconcileSuccess"] \in Status
      BY <1>2, <1>3, StatusTypes
    <3> QED BY <1>2, <1>22, <3>1 DEF Done
  <2>2. ObjectTypes'
    BY <1>1, <1>2, <1>22, <2>1 DEF Done, ObjectTypes, spec
  <2> QED BY <1>22, <2>2, ForgetTypes, SameTypes DEF Done, TypeInv, TypeOK
<1> QED BY <1>4, <1>5, <1>6, <1>7, <1>8, <1>9, <1>10, <1>11, <1>12, <1>13, <1>14, <1>17,
           <1>18, <1>19, <1>20, <1>21, <1>22 DEF Reconcile

\* A commit that fails is paid for as the other faults are, and remembered.
LEMMA CommitLostTypes ==
  ASSUME TypeInv, CommitLost
  PROVE  TypeInv'
<1>1. MemoryTypes /\ SpentTypes /\ LostTypes
  BY DEF TypeInv, TypeOK
<1>2. /\ copy \in Copies /\ copy.status \in Status /\ copy.name \in Seq(Commit)
      /\ local \in Seq(Commit) /\ from \in OriginCommits \union {NoCommit}
  BY <1>1, HeldTypes DEF MemoryTypes
<1>3. SpentTypes'
  <2>1. "faults" \in Bounds \ {"all"}
    BY DEF Bounds
  <2> QED BY <1>1, <2>1, SpendTypes DEF CommitLost
<1>4. LostTypes'
  <2>1. lost' = lost \union {<<from, local>>} /\ local # << >>
    BY DEF CommitLost
  <2> QED BY <1>1, <1>2, <2>1 DEF LostTypes
<1>5. MemoryTypes'
  <2>1. "none" \in Ready
    BY DEF Ready
  <2>2. copy' \in Copies
    BY <1>2, <2>1, CopyTypes DEF CommitLost, SetRecord
  <2>3. tries' \in 0..StatusSteps /\ pc' \in PC
    <3>1. StatusSteps \in 0..StatusSteps
      BY RepoAssumption
    <3> QED BY <3>1 DEF CommitLost, BeginRecord, Goto, PC
  <2> QED BY <1>1, <2>2, <2>3 DEF CommitLost, MemoryTypes, clones
<1>6. UNCHANGED servers /\ UNCHANGED object
  BY DEF CommitLost
<1> QED BY <1>3, <1>4, <1>5, <1>6, SameTypes DEF TypeInv, TypeOK

\* So do faults.
LEMMA FaultTypes ==
  ASSUME TypeInv, Fault
  PROVE  TypeInv'
<1>1. CASE CommitLost
  BY <1>1, CommitLostTypes
<1>2. CASE WriteFails \/ PushReplyLost \/ RecordFails
  <2>1. Fail /\ branch' \in Seq(Commit) /\ UNCHANGED lost
    <3>1. branch \in Seq(Commit) /\ local \in Seq(Commit)
      BY DEF TypeInv, TypeOK, ServerTypes, MemoryTypes
    <3> QED BY <1>2, <3>1 DEF WriteFails, PushReplyLost, RecordFails
  <2>2. SpentTypes'
    <3>1. Spend("faults", MaxFaults) /\ "faults" \in Bounds \ {"all"}
      BY <1>2 DEF WriteFails, PushReplyLost, RecordFails, Bounds
    <3> QED BY <3>1, SpendTypes DEF TypeInv
  <2>3. ObjectTypes' /\ MemoryTypes' /\ origin' = origin /\ reachable' = reachable
    BY <2>1, FailTypes
  <2>4. ServerTypes'
    BY <2>1, <2>3 DEF TypeInv, TypeOK, ServerTypes
  <2> QED BY <2>1, <2>2, <2>3, <2>4, SameTypes DEF TypeInv, TypeOK
<1> QED BY <1>1, <1>2 DEF Fault

\* And everyone else.
LEMMA EnvironmentTypes ==
  ASSUME TypeInv, Environment
  PROVE  TypeInv'
<1>1. MemoryTypes /\ ObjectTypes /\ ServerTypes /\ SpentTypes
  BY DEF TypeInv, TypeOK
<1>2. ASSUME NEW b \in Bounds \ {"all"}, NEW max, Spend(b, max), b # "rewrites"
      PROVE  SpentTypes'
  BY <1>1, <1>2, SpendTypes
<1>3. {"others", "outages", "edits", "touches", "losses", "rewinds", "crashes"}
        \subseteq Bounds \ {"all", "rewrites"}
  BY DEF Bounds
<1>4. ASSUME UNCHANGED <<object, pc, memory, lost>>, ServerTypes', SpentTypes' PROVE TypeInv'
  BY <1>4, SameTypes DEF TypeInv, TypeOK
<1>5. CASE OriginPush
  <2>1. ServerTypes'
    <3>1. origin' \in OriginCommits
      BY <1>1, <1>5, RepoAssumption DEF OriginPush, ServerTypes, OriginCommits
    <3> QED BY <1>1, <1>5, <3>1 DEF OriginPush, ServerTypes
  <2> QED BY <1>4, <1>5, <2>1, SameTypes DEF OriginPush
<1>6. CASE OriginRewrite
  <2>1. ServerTypes'
    <3>1. origin' \in OriginCommits
      BY <1>1, <1>6, RepoAssumption DEF OriginRewrite, ServerTypes, OriginCommits
    <3> QED BY <1>1, <1>6, <3>1 DEF OriginRewrite, ServerTypes
  <2> QED BY <1>2, <1>3, <1>4, <1>6, <2>1 DEF OriginRewrite
<1>7. CASE OtherPush
  <2>1. branch' \in Seq(Commit)
    <3>1. branch \in Seq(Commit) /\ spent["rewrites"] \in 0..MaxRewrites
      BY <1>1, EraType DEF ServerTypes
    <3>2. File(branch) \in Files
      BY <3>1, FileType
    <3> QED BY <1>7, <3>1, <3>2, CommitType DEF OtherPush
  <2>2. ServerTypes'
    BY <1>1, <1>7, <2>1 DEF OtherPush, ServerTypes
  <2> QED BY <1>2, <1>3, <1>4, <1>7, <2>2 DEF OtherPush
<1>8. CASE Rewrite
  <2>1. SpentTypes'
    <3>1. "rewrites" \in Bounds \ {"all"}
      BY DEF Bounds
    <3> QED BY <1>1, <1>8, <3>1, SpendTypes DEF Rewrite
  <2>2. branch' \in Seq(Commit)
    <3>1. spent'["rewrites"] \in 0..MaxRewrites
      BY <2>1, RepoAssumption DEF SpentTypes, Bounds
    <3>2. Absent \in Files
      BY DEF Files
    <3>3. <<[by |-> "other", era |-> spent'["rewrites"], file |-> Absent]>> \in Seq(Commit)
      BY <1>1, <3>1, <3>2, CommitType DEF ServerTypes
    <3> QED BY <1>1, <1>8, <3>3, CutType DEF Rewrite, ServerTypes
  <2>3. ServerTypes'
    BY <1>1, <1>8, <2>2 DEF Rewrite, ServerTypes
  <2> QED BY <1>4, <1>8, <2>1, <2>3 DEF Rewrite
<1>9. CASE Outage
  <2>1. ServerTypes'
    BY <1>1, <1>9 DEF Outage, ServerTypes
  <2> QED BY <1>2, <1>3, <1>4, <1>9, <2>1 DEF Outage
<1>10. CASE OutageEnds
  <2>1. ServerTypes'
    BY <1>1, <1>10 DEF OutageEnds, ServerTypes
  <2> QED BY <1>4, <1>10, <2>1, SameTypes DEF OutageEnds
<1>11. CASE AllowUpdates
  <2>1. ObjectTypes' /\ UNCHANGED servers
    BY <1>1, <1>11 DEF AllowUpdates, ObjectTypes
  <2>2. MemoryTypes'
    BY <1>1, <1>11 DEF AllowUpdates, MemoryTypes, UserWrites, clones
  <2> QED BY <1>2, <1>3, <1>11, <2>1, <2>2, SameTypes DEF AllowUpdates, TypeInv, TypeOK
<1>12. CASE LoseSecrets
  <2>1. ObjectTypes' /\ UNCHANGED servers /\ UNCHANGED <<pc, memory>>
    BY <1>1, <1>12 DEF LoseSecrets, ObjectTypes
  <2> QED BY <1>2, <1>3, <1>12, <2>1, SameTypes DEF LoseSecrets, TypeInv, TypeOK
<1>13. CASE RestoreSecrets
  <2>1. ObjectTypes' /\ UNCHANGED servers /\ UNCHANGED <<pc, memory>>
    BY <1>1, <1>13 DEF RestoreSecrets, ObjectTypes
  <2> QED BY <1>13, <2>1, SameTypes DEF RestoreSecrets, TypeInv, TypeOK
<1>14. CASE Touch
  <2>1. MemoryTypes'
    BY <1>1, <1>14 DEF Touch, MemoryTypes, UserWrites, clones
  <2> QED BY <1>2, <1>3, <1>14, <2>1, SameTypes DEF Touch, TypeInv, TypeOK
<1>15. CASE RequestDeletion
  <2>1. ObjectTypes' /\ UNCHANGED servers
    BY <1>1, <1>15 DEF RequestDeletion, ObjectTypes
  <2>2. MemoryTypes'
    BY <1>1, <1>15 DEF RequestDeletion, MemoryTypes, UserWrites, clones
  <2> QED BY <1>15, <2>1, <2>2, SameTypes DEF RequestDeletion, TypeInv, TypeOK
<1>16. CASE Crash
  BY <1>2, <1>3, <1>16, ForgetTypes, SameTypes DEF Crash, TypeInv, TypeOK
<1>17. CASE ClearPending
  <2>1. ObjectTypes' /\ UNCHANGED servers /\ UNCHANGED <<pc, memory>>
    BY <1>1, <1>17 DEF ClearPending, ObjectTypes, spec
  <2> QED BY <1>17, <2>1, SameTypes DEF ClearPending, TypeInv, TypeOK
<1> QED BY <1>5, <1>6, <1>7, <1>8, <1>9, <1>10, <1>11, <1>12, <1>13, <1>14, <1>15, <1>16, <1>17
           DEF Environment

\* Every step keeps the types.
LEMMA StepTypes ==
  ASSUME TypeInv, [Next]_vars
  PROVE  TypeInv'
<1>1. CASE UNCHANGED vars
  BY <1>1, SameTypes DEF vars, TypeInv, TypeOK
<1> QED BY <1>1, ReconcileTypes, FaultTypes, EnvironmentTypes DEF Next

\* In every reachable state the variables have their types, and the eras their bound.
THEOREM Invariance == Spec => []TypeInv
BY InitTypes, StepTypes, PTL DEF Spec

(* The types of the Repo controller's state hold for any target branch and *)
(* any bounds.                                                             *)
THEOREM TypeCorrect == Spec => []TypeOK
<1>1. TypeInv => TypeOK
  BY DEF TypeInv
<1> QED BY <1>1, Invariance, PTL

----------------------------------------------------------------------------------
(* The recorded pair of commits.                                           *)

\* What a sync has copied from the origin: all of it with spec.override, else what was there.
Copied(file) == IF override THEN file = from ELSE file \in OriginCommits

SyncInv ==
  /\ pc \in {"write", "commit", "push"} => from # NoCommit
  /\ pc = "commit" => Copied(work)
  /\ pc = "push" => Copied(File(local))

RecordInv ==
  /\ Consistent(status)
  /\ pc # "idle" => Consistent(copy.status)
  /\ SyncInv

\* What is set on a copy: the reason of Ready,
LEMMA ReadySet ==
  ASSUME NEW c \in Copies, NEW d
  PROVE  LET e == [c EXCEPT !.status.ready = d] IN
           /\ e.status.origin = c.status.origin
           /\ e.status.target = c.status.target
           /\ e.name = c.name
           /\ e.enableUpdate = c.enableUpdate
<1> DEFINE H == Seq(Commit)
<1>1. /\ Status = [origin : OriginCommits \union {NoCommit}, target : H, ready : Ready,
                   synced : Synced]
      /\ Copies = [enableUpdate : BOOLEAN, deleted : BOOLEAN, status : Status, name : H]
  BY DEF Status, Copies
<1> HIDE DEF H
<1> QED BY <1>1

\* the external name, or the target commit,
LEMMA CommitSet ==
  ASSUME NEW c \in Copies, NEW h
  PROVE  /\ [c EXCEPT !.name = h].status = c.status
         /\ [c EXCEPT !.status.target = h].status.origin = c.status.origin
         /\ [c EXCEPT !.status.target = h].status.target = h
<1> DEFINE H == Seq(Commit)
<1>1. /\ Status = [origin : OriginCommits \union {NoCommit}, target : H, ready : Ready,
                   synced : Synced]
      /\ Copies = [enableUpdate : BOOLEAN, deleted : BOOLEAN, status : Status, name : H]
  BY DEF Status, Copies
<1> HIDE DEF H
<1> QED BY <1>1

\* the record of a sync,
LEMMA RecordSet ==
  ASSUME copy \in Copies, NEW h, SetRecord(h)
  PROVE  copy'.status.origin = from /\ copy'.status.target = h /\ copy'.name = h
<1> DEFINE H == Seq(Commit)
<1>1. /\ Status = [origin : OriginCommits \union {NoCommit}, target : H, ready : Ready,
                   synced : Synced]
      /\ Copies = [enableUpdate : BOOLEAN, deleted : BOOLEAN, status : Status, name : H]
  BY DEF Status, Copies
<1> HIDE DEF H
<1> QED BY <1>1 DEF SetRecord

\* and what is kept of it in a conflict.
LEMMA OutcomeSet ==
  ASSUME NEW c \in Copies, NEW h, NEW st
  PROVE  LET e == [c EXCEPT !.status = st, !.name = h] IN e.status = st /\ e.name = h
<1> DEFINE H == Seq(Commit)
<1>1. /\ Status = [origin : OriginCommits \union {NoCommit}, target : H, ready : Ready,
                   synced : Synced]
      /\ Copies = [enableUpdate : BOOLEAN, deleted : BOOLEAN, status : Status, name : H]
  BY DEF Status, Copies
<1> HIDE DEF H
<1> QED BY <1>1

\* The environment touches neither records nor syncs, unless it ends one.
LEMMA EnvironmentKeeps ==
  ASSUME Environment
  PROVE  \/ /\ Forget
            /\ UNCHANGED object
         \/ /\ UNCHANGED <<override, gone, status, name, pc, copy, from, work, local>>
            /\ outcome' = outcome \/ outcome' = "none"
<1>1. CASE OriginPush \/ OriginRewrite \/ OtherPush \/ Rewrite
  BY <1>1 DEF OriginPush, OriginRewrite, OtherPush, Rewrite, object, spec, memory, clones
<1>2. CASE Outage \/ OutageEnds \/ Touch
  BY <1>2 DEF Outage, OutageEnds, Touch, object, spec, memory, clones
<1>3. CASE AllowUpdates \/ LoseSecrets \/ RestoreSecrets \/ RequestDeletion \/ ClearPending
  BY <1>3 DEF AllowUpdates, LoseSecrets, RestoreSecrets, RequestDeletion, ClearPending, spec,
              memory, clones
<1>4. CASE Crash
  BY <1>4 DEF Crash
<1> QED BY <1>1, <1>2, <1>3, <1>4 DEF Environment

\* A failed sync leaves the record of the server, or writes the copy's.
LEMMA FailKeeps ==
  ASSUME TypeInv, Fail
  PROVE  /\ Forget
         /\ UNCHANGED override
         /\ \/ status'.origin = status.origin /\ status'.target = status.target
            \/ status'.origin = copy.status.origin /\ status'.target = copy.status.target
<1>1. status \in Status /\ copy.status \in Status
  BY HeldTypes DEF TypeInv, TypeOK, ObjectTypes
<1>2. \/ status' = status
      \/ status' = [status EXCEPT !.synced = "ReconcileError"]
      \/ status' = [copy.status EXCEPT !.ready = "Unavailable", !.synced = "ReconcileError"]
  BY DEF Fail
<1>3. \/ status'.origin = status.origin /\ status'.target = status.target
      \/ status'.origin = copy.status.origin /\ status'.target = copy.status.target
  <2>1. LET t == [status EXCEPT !.synced = "ReconcileError"] IN
          t.origin = status.origin /\ t.target = status.target
    BY <1>1, ReasonsKeep
  <2>2. LET t == [copy.status EXCEPT !.ready = "Unavailable", !.synced = "ReconcileError"] IN
          t.origin = copy.status.origin /\ t.target = copy.status.target
    BY <1>1, ReasonsKeep
  <2> QED BY <1>2, <2>1, <2>2
<1> QED BY <1>3 DEF Fail, spec

\* The recorded pair is consistent at first.
LEMMA InitRecord == Init => RecordInv
BY DEF Init, RecordInv, SyncInv, Consistent, NoStatus

\* Only a commit that fails is lost, and what is lost stays so.
LEMMA LostGrows ==
  ASSUME [Next]_vars
  PROVE  lost \subseteq lost' /\ (CommitLost \/ UNCHANGED lost)
<1>1. CASE Connect \/ ConnectFails \/ Observe \/ Report \/ Delete \/ Release
  BY <1>1 DEF Connect, ConnectFails, Observe, ObserveDeleting, ObserveNothing, ObserveOrigin,
              ObserveLost, ObserveRewritten, ObserveBehind, ObserveSynced, ObserveFails, Report,
              Delete, Release
<1>2. CASE \/ BeginCreate \/ BeginUpdate \/ CloneTarget \/ CloneOrigin \/ Write \/ MakeCommit
           \/ Push \/ SyncFails
  BY <1>2 DEF BeginCreate, BeginUpdate, CloneTarget, CloneOrigin, Write, MakeCommit, Push, SyncFails
<1>3. CASE RecordStatus \/ RecordConflict \/ Done
  BY <1>3 DEF RecordStatus, RecordConflict, Done
<1>4. CASE Fault
  BY <1>4 DEF Fault, WriteFails, CommitLost, PushReplyLost, RecordFails
<1>5. CASE Environment
  <2>1. CASE OriginPush \/ OriginRewrite \/ OtherPush \/ Rewrite \/ Outage \/ OutageEnds
    BY <2>1 DEF OriginPush, OriginRewrite, OtherPush, Rewrite, Outage, OutageEnds
  <2>2. CASE \/ AllowUpdates \/ LoseSecrets \/ RestoreSecrets \/ Touch \/ RequestDeletion
             \/ Crash \/ ClearPending
    BY <2>2 DEF AllowUpdates, LoseSecrets, RestoreSecrets, Touch, RequestDeletion, Crash,
                ClearPending
  <2> QED BY <1>5, <2>1, <2>2 DEF Environment
<1>6. CASE UNCHANGED vars
  BY <1>6 DEF vars
<1> QED BY <1>1, <1>2, <1>3, <1>4, <1>5, <1>6 DEF Next, Reconcile

\* A record with the same pair of commits is as consistent.
LEMMA SamePair ==
  ASSUME NEW r, NEW t, t.origin = r.origin, t.target = r.target, Consistent(r)
  PROVE  Consistent(t)
BY DEF Consistent, Pair

\* A target commit is adopted where there is no origin commit beside it.
LEMMA AdoptedConsistent ==
  ASSUME TypeInv, Consistent(copy.status)
  PROVE  Consistent(Adopted.status)
<1>1. copy \in Copies
  BY DEF TypeInv, TypeOK, MemoryTypes
<1>2. CASE copy.status.target # << >>
  BY <1>1, <1>2, CommitSet DEF Adopted
<1>3. CASE copy.status.target = << >>
  <2>1. Adopted.status.origin = copy.status.origin
    BY <1>1, <1>3, CommitSet DEF Adopted
  <2>2. File(copy.status.target) = Absent /\ Pair(copy.status) \notin lost
    <3>1. \A q \in lost : q[2] # << >>
      BY DEF TypeInv, TypeOK, LostTypes
    <3>2. Pair(copy.status)[2] = << >>
      BY <1>3 DEF Pair
    <3> QED BY <1>3, <3>1, <3>2 DEF File
  <2>3. copy.status.origin = NoCommit
    <3>1. Absent \notin OriginCommits /\ NoCommit = Absent
      BY DEF OriginCommits, Absent, NoCommit
    <3> QED BY <2>2, <3>1 DEF Consistent
  <2> QED BY <2>1, <2>3 DEF Consistent
<1> QED BY <1>2, <1>3

\* And after each step.
LEMMA StepRecord ==
  ASSUME TypeInv, RecordInv, [Next]_vars
  PROVE  RecordInv'
<1>1. /\ copy \in Copies /\ copy.status \in Status /\ status \in Status
      /\ from \in OriginCommits \union {NoCommit} /\ local \in Seq(Commit)
  BY HeldTypes DEF TypeInv, TypeOK, MemoryTypes, ObjectTypes
<1>0. lost \subseteq lost'
  BY LostGrows
<1>2. Consistent(status) /\ (pc # "idle" => Consistent(copy.status)) /\ SyncInv
  BY DEF RecordInv
\* The three ways a step can go.
<1>3. ASSUME UNCHANGED <<override, status, pc, copy, from, work, local>>
      PROVE  RecordInv'
  BY <1>0, <1>2, <1>3 DEF RecordInv, Consistent, Pair, SyncInv, Copied
<1>4. ASSUME pc # "idle", pc' \notin {"write", "commit", "push"}, UNCHANGED <<override, status>>,
             \/ copy' = copy
             \/ \E d : SetReady(d)
      PROVE  RecordInv'
  <2>1. copy'.status.origin = copy.status.origin /\ copy'.status.target = copy.status.target
    <3>1. CASE copy' = copy
      BY <3>1
    <3>2. ASSUME NEW d, SetReady(d)
          PROVE  /\ copy'.status.origin = copy.status.origin
                 /\ copy'.status.target = copy.status.target
      <4>1. LET e == [copy EXCEPT !.status.ready = d] IN
              e.status.origin = copy.status.origin /\ e.status.target = copy.status.target
        BY <1>1, ReadySet
      <4> QED BY <3>2, <4>1 DEF SetReady
    <3> QED BY <1>4, <3>1, <3>2
  <2>2. Consistent(status)' /\ Consistent(copy.status)'
    BY <1>0, <1>2, <1>4, <2>1 DEF Consistent, Pair
  <2> QED BY <1>4, <2>2 DEF RecordInv, SyncInv
<1>5. ASSUME Forget, UNCHANGED override,
             \/ status'.origin = status.origin /\ status'.target = status.target
             \/ /\ pc # "idle"
                /\ status'.origin = copy.status.origin
                /\ status'.target = copy.status.target
      PROVE  RecordInv'
  <2>1. Consistent(status)'
    BY <1>0, <1>2, <1>5 DEF Consistent, Pair
  <2>2. pc' = "idle"
    BY <1>5 DEF Forget, Goto
  <2> QED BY <2>1, <2>2 DEF RecordInv, SyncInv
<1>6. ASSUME NEW t, WriteStatus(t), Consistent(t)
      PROVE  RecordInv'
  <2>1. \/ status' = status
        \/ status' = t
    BY <1>6 DEF WriteStatus
  <2>2. Forget /\ UNCHANGED override
    BY <1>6 DEF WriteStatus, spec
  <2>3. Consistent(status)'
    BY <1>0, <1>2, <1>6, <2>1, <2>2 DEF Consistent, Pair
  <2>4. pc' = "idle"
    BY <2>2 DEF Forget, Goto
  <2> QED BY <2>3, <2>4 DEF RecordInv, SyncInv
<1>7. ASSUME NEW s \in Status, Consistent(s), NEW d, NEW x,
             \/ WriteStatus([s EXCEPT !.ready = d, !.synced = x])
             \/ WriteStatus([s EXCEPT !.synced = x])
      PROVE  RecordInv'
  <2>1. CASE WriteStatus([s EXCEPT !.ready = d, !.synced = x])
    <3> DEFINE t == [s EXCEPT !.ready = d, !.synced = x]
    <3>1. t.origin = s.origin /\ t.target = s.target
      BY <1>7, ReasonsKeep
    <3> HIDE DEF t
    <3>2. Consistent(t)
      BY <1>7, <3>1, SamePair
    <3> USE DEF t
    <3> QED BY <1>6, <2>1, <3>2
  <2>2. CASE WriteStatus([s EXCEPT !.synced = x])
    <3> DEFINE t == [s EXCEPT !.synced = x]
    <3>1. t.origin = s.origin /\ t.target = s.target
      BY <1>7, ReasonsKeep
    <3> HIDE DEF t
    <3>2. Consistent(t)
      BY <1>7, <3>1, SamePair
    <3> USE DEF t
    <3> QED BY <1>6, <2>2, <3>2
  <2> QED BY <1>7, <2>1, <2>2
<1>9. ASSUME NEW l, Then(l), l \notin {"write", "commit", "push"}
      PROVE  pc' \notin {"write", "commit", "push"}
  BY <1>9 DEF Then, Goto
<1>10. CASE Connect
  <2>1. copy'.status = status /\ UNCHANGED <<status, override>> /\ pc' = "observe"
    BY <1>10 DEF Connect, Snapshot, object, spec, Goto
  <2> QED BY <1>0, <1>2, <2>1 DEF RecordInv, SyncInv, Consistent, Pair
<1>11. CASE ConnectFails
  <2>1. PICK d : status' = [status EXCEPT !.ready = d, !.synced = "ReconcileError"]
    BY <1>11 DEF ConnectFails
  <2>2. status'.origin = status.origin /\ status'.target = status.target
    BY <1>1, <2>1, ReasonsKeep
  <2>3. pc' = "idle" /\ UNCHANGED override
    BY <1>11 DEF ConnectFails, Get, spec
  <2> QED BY <1>0, <1>2, <2>2, <2>3 DEF RecordInv, SyncInv, Consistent, Pair
<1>12. CASE ObserveDeleting \/ ObserveNothing
  <2>1. pc # "idle" /\ pc' \notin {"write", "commit", "push"} /\ UNCHANGED <<override, status>>
        /\ \E d : SetReady(d)
    BY <1>12 DEF ObserveDeleting, ObserveNothing, Observing, Goto, object, spec
  <2> QED BY <1>4, <2>1
<1>13. CASE ObserveOrigin
  <2>1. UNCHANGED <<status, override>> /\ pc' = "history" /\ pc # "idle"
    BY <1>13 DEF ObserveOrigin, Observing, object, spec, Goto
  <2>2. copy' = Adopted /\ Consistent(Adopted.status)
    BY <1>2, <1>13, <2>1, AdoptedConsistent DEF ObserveOrigin
  <2> QED BY <1>0, <1>2, <2>1, <2>2 DEF RecordInv, SyncInv, Consistent, Pair
<1>14. CASE ObserveLost
  BY <1>1, <1>2, <1>7, <1>14 DEF ObserveLost
<1>15. CASE ObserveRewritten \/ ObserveBehind \/ ObserveSynced
  <2>1. pc # "idle" /\ UNCHANGED <<override, status>> /\ \E d : SetReady(d)
    BY <1>15 DEF ObserveRewritten, ObserveBehind, ObserveSynced, object, spec
  <2>2. Then("update") \/ Then("report")
    BY <1>15 DEF ObserveRewritten, ObserveBehind, ObserveSynced
  <2>3. pc' \notin {"write", "commit", "push"}
    BY <2>2, <1>9
  <2> QED BY <1>4, <2>1, <2>3
<1>16. CASE ObserveFails
  <2>1. pc # "idle"
    BY <1>16 DEF ObserveFails, Observing
  <2>2. Adopted.status \in Status /\ Consistent(Adopted.status)
    BY <1>2, <2>1, AdoptedType, AdoptedConsistent DEF Copies
  <2> QED BY <1>7, <1>16, <2>2 DEF ObserveFails
<1>17. CASE Report \/ Delete
  BY <1>1, <1>2, <1>7, <1>17 DEF Report, Delete
<1>18. CASE Release
  BY <1>5, <1>18 DEF Release, spec
<1>19. CASE BeginCreate
  <2>1. CASE stale
    BY <1>5, <1>19, <2>1 DEF BeginCreate, spec
  <2>2. CASE ~stale
    <3>1. pc # "idle" /\ pc' \notin {"write", "commit", "push"} /\ UNCHANGED <<override, status>>
          /\ \E d : SetReady(d)
      BY <1>19, <2>2 DEF BeginCreate, Goto, spec
    <3> QED BY <1>4, <3>1
  <2> QED BY <2>1, <2>2
<1>20. CASE BeginUpdate
  <2>1. pc # "idle" /\ pc' \notin {"write", "commit", "push"} /\ UNCHANGED <<override, status>>
        /\ \E d : SetReady(d)
    BY <1>20 DEF BeginUpdate, Goto, object, spec
  <2> QED BY <1>4, <2>1
<1>21. CASE CloneTarget
  <2>1. pc # "idle" /\ pc' \notin {"write", "commit", "push"} /\ UNCHANGED <<override, status>>
        /\ copy' = copy
    BY <1>21 DEF CloneTarget, Goto, object, spec
  <2> QED BY <1>4, <2>1
<1>22. CASE CloneOrigin
  <2>1. pc # "idle" /\ pc' = "write" /\ UNCHANGED <<override, status, copy>> /\ from' = origin
    BY <1>22 DEF CloneOrigin, Goto, object, spec
  <2>2. origin # NoCommit
    BY DEF TypeInv, TypeOK, ServerTypes, OriginCommits, NoCommit
  <2> QED BY <1>0, <1>2, <2>1, <2>2 DEF RecordInv, SyncInv, Consistent, Pair
<1>23. CASE Write
  <2>1. pc = "write" /\ pc' = "commit" /\ UNCHANGED <<override, status, copy, from>>
        /\ work' = IF override \/ File(local) = Absent THEN from ELSE File(local)
    BY <1>23 DEF Write, Goto, object, spec
  <2>2. from # NoCommit /\ from \in OriginCommits
    BY <1>1, <1>2, <2>1 DEF SyncInv
  <2>3. File(local) \in OriginCommits \union {Absent}
    BY <1>1, FileType DEF Files
  <2>4. Copied(work)'
    BY <2>1, <2>2, <2>3 DEF Copied
  <2> QED BY <1>0, <1>2, <2>1, <2>2, <2>4 DEF RecordInv, SyncInv, Consistent, Pair
\* A commit that holds what was copied makes a consistent record; a lost one is remembered.
<1>24. ASSUME pc # "idle", SetRecord(local), BeginRecord,
              Copied(File(local)) \/ <<from, local>> \in lost',
              UNCHANGED <<override, status>>
       PROVE  RecordInv'
  <2>1. copy'.status.origin = from /\ copy'.status.target = local
    BY <1>1, <1>24, RecordSet
  <2>2. Consistent(copy.status)'
    BY <1>0, <1>24, <2>1 DEF Consistent, Pair, Copied
  <2>3. pc' = "record"
    BY <1>24 DEF BeginRecord, Goto
  <2> QED BY <1>0, <1>2, <1>24, <2>2, <2>3 DEF RecordInv, SyncInv, Consistent, Pair
<1>25. CASE MakeCommit
  <2>1. pc = "commit" /\ UNCHANGED <<override, status, from>> /\ Copied(work)
    BY <1>2, <1>25 DEF MakeCommit, object, spec, SyncInv
  <2>2. CASE work = File(local)
    BY <1>24, <1>25, <2>1, <2>2 DEF MakeCommit
  <2>3. CASE work # File(local)
    <3>1. /\ local' = Append(local, [by |-> "repo", era |-> spent["rewrites"], file |-> work])
          /\ pc' = "push" /\ UNCHANGED copy
      BY <1>25, <2>3 DEF MakeCommit, Goto
    <3>2. File(local') = work
      <4>1. spent["rewrites"] \in 0..MaxRewrites /\ work \in Files
        BY EraType DEF TypeInv, TypeOK, MemoryTypes
      <4>2. local' # << >> /\ Last(local').file = work
        BY <1>1, <3>1, <4>1, CommitType
      <4> QED BY <4>2 DEF File
    <3>3. Copied(File(local))'
      BY <2>1, <3>2 DEF Copied
    <3> QED BY <1>0, <1>2, <2>1, <3>1, <3>3 DEF RecordInv, SyncInv, Consistent, Pair
  <2> QED BY <2>2, <2>3
<1>26. CASE Push
  BY <1>2, <1>24, <1>26 DEF Push, SyncInv, object, spec
<1>27. ASSUME Fail, pc # "idle" PROVE RecordInv'
  BY <1>5, <1>27, FailKeeps
<1>28. CASE SyncFails
  BY <1>27, <1>28 DEF SyncFails
<1>29. CASE RecordStatus
  <2>1. pc # "idle" /\ status' = copy.status /\ UNCHANGED <<override, copy>> /\ pc' = "done"
    BY <1>29 DEF RecordStatus, Goto, spec, memory
  <2> QED BY <1>0, <1>2, <2>1 DEF RecordInv, SyncInv, Consistent, Pair
<1>30. CASE RecordConflict
  <2>1. CASE tries > 1
    <3>1. /\ pc = "record" /\ UNCHANGED <<override, status, pc>>
          /\ copy' = [Snapshot EXCEPT !.status = copy.status, !.name = copy.name]
      BY <1>30, <2>1 DEF RecordConflict, object, spec
    <3>2. copy'.status = copy.status
      <4>1. Snapshot \in Copies
        BY SnapshotType DEF TypeInv, TypeOK
      <4>2. [Snapshot EXCEPT !.status = copy.status, !.name = copy.name].status = copy.status
        BY <4>1, OutcomeSet
      <4> QED BY <3>1, <4>2
    <3> QED BY <1>0, <1>2, <3>1, <3>2 DEF RecordInv, SyncInv, Consistent, Pair
  <2>2. CASE ~(tries > 1)
    BY <1>5, <1>30, <2>2 DEF RecordConflict, object, spec
  <2> QED BY <2>1, <2>2
<1>31. CASE Done
  <2>1. \/ status' = status
        \/ status' = [status EXCEPT !.synced = "ReconcileSuccess"]
    BY <1>31 DEF Done
  <2>2. status'.origin = status.origin /\ status'.target = status.target
    <3>1. LET t == [status EXCEPT !.synced = "ReconcileSuccess"] IN
            t.origin = status.origin /\ t.target = status.target
      BY <1>1, ReasonsKeep
    <3> QED BY <2>1, <3>1
  <2> QED BY <1>5, <1>31, <2>2 DEF Done, spec
<1>32. CASE Fault
  <2>1. CASE CommitLost
    <3>1. pc # "idle" /\ SetRecord(local) /\ BeginRecord /\ UNCHANGED <<override, status>>
          /\ <<from, local>> \in lost'
      BY <2>1 DEF CommitLost, object, spec
    <3> QED BY <1>24, <3>1
  <2>2. CASE ~CommitLost
    BY <1>27, <1>32, <2>2 DEF Fault, WriteFails, PushReplyLost, RecordFails
  <2> QED BY <2>1, <2>2
<1>33. CASE Environment
  <2>1. CASE Forget /\ UNCHANGED object
    BY <1>5, <2>1 DEF object, spec
  <2> QED BY <1>3, <1>33, <2>1, EnvironmentKeeps
<1>34. CASE UNCHANGED vars
  BY <1>3, <1>34 DEF vars, object, spec, memory, clones
<1> QED BY <1>10, <1>11, <1>12, <1>13, <1>14, <1>15, <1>16, <1>17, <1>18, <1>19, <1>20, <1>21,
           <1>22, <1>23, <1>25, <1>26, <1>28, <1>29, <1>30, <1>31, <1>32, <1>33, <1>34
           DEF Next, Reconcile, Observe

(* The two commits of a status belong together, for any target branch, and *)
(* however often the origin moves and the target is rewritten: the pair is *)
(* taken from the two clones of one sync, and only the target's commit is  *)
(* ever adopted from elsewhere, when there is no origin's commit beside it.*)
(* The one exception is a pair whose sync lost its commit, which Commit    *)
(* reports as nothing to do: it is among the lost.                         *)
THEOREM RecordsBelongTogether == Spec => []RecordIsConsistent
<1>1. Init => TypeInv /\ RecordInv
  BY InitTypes, InitRecord
<1>2. TypeInv /\ RecordInv /\ [Next]_vars => (TypeInv /\ RecordInv)'
  BY StepTypes, StepRecord
<1>3. RecordInv => RecordIsConsistent
  BY DEF RecordInv, RecordIsConsistent
<1> QED BY <1>1, <1>2, <1>3, PTL DEF Spec

----------------------------------------------------------------------------------
(* The external name of a create that has succeeded.                       *)

NameInv ==
  /\ outcome = "succeeded" => name # << >>
  /\ pc \in {"record", "done"} => copy.name # << >>

LEMMA InitName == Init => NameInv
BY DEF Init, NameInv

\* A sync that has nothing to push has a commit all the same: the file it copies is there.
LEMMA CopiedMeansCommit ==
  ASSUME TypeInv, RecordInv, pc \in {"commit", "push"}, Copied(File(local))
  PROVE  local # << >>
<1>1. from # NoCommit
  BY DEF RecordInv, SyncInv
<1>2. File(local) # Absent
  BY <1>1 DEF Copied, OriginCommits, Absent, NoCommit
<1> QED BY <1>2, FileMeansCommit

LEMMA StepName ==
  ASSUME TypeInv, RecordInv, NameInv, [Next]_vars
  PROVE  NameInv'
<1>1. copy \in Copies
  BY DEF TypeInv, TypeOK, MemoryTypes
<1>2. ASSUME UNCHANGED <<name, pc, copy>>, outcome' = outcome \/ outcome' = "none"
      PROVE  NameInv'
  BY <1>2 DEF NameInv
<1>3. ASSUME pc' \notin {"record", "done"}, UNCHANGED name,
             outcome' = outcome \/ outcome' = "pending"
      PROVE  NameInv'
  BY <1>3 DEF NameInv
<1>4. ASSUME NEW t, WriteStatus(t) PROVE NameInv'
  BY <1>3, <1>4 DEF WriteStatus, Forget, Goto
<1>5. ASSUME NEW l, Then(l), l \notin {"record", "done"} PROVE pc' \notin {"record", "done"}
  BY <1>5 DEF Then, Goto
<1>6. CASE Connect
  BY <1>3, <1>6 DEF Connect, Goto, object
<1>7. CASE ConnectFails
  BY <1>3, <1>7 DEF ConnectFails, Get
<1>8. CASE ObserveDeleting \/ ObserveNothing \/ ObserveOrigin
  BY <1>3, <1>8 DEF ObserveDeleting, ObserveNothing, ObserveOrigin, Goto, object
<1>9. CASE ObserveLost \/ ObserveFails
  BY <1>4, <1>9 DEF ObserveLost, ObserveFails
<1>10. CASE ObserveRewritten \/ ObserveBehind \/ ObserveSynced
  <2>1. Then("update") \/ Then("report")
    BY <1>10 DEF ObserveRewritten, ObserveBehind, ObserveSynced
  <2>2. pc' \notin {"record", "done"}
    BY <2>1, <1>5
  <2> QED BY <1>3, <1>10, <2>2 DEF ObserveRewritten, ObserveBehind, ObserveSynced, object
<1>11. CASE Report \/ Delete
  BY <1>4, <1>11 DEF Report, Delete
<1>12. CASE Release
  BY <1>3, <1>12 DEF Release, Forget, Goto
<1>13. CASE BeginCreate
  BY <1>3, <1>13 DEF BeginCreate, Forget, Goto
<1>14. CASE BeginUpdate
  BY <1>3, <1>14 DEF BeginUpdate, Goto, object
<1>15. CASE CloneTarget \/ CloneOrigin \/ Write
  BY <1>3, <1>15 DEF CloneTarget, CloneOrigin, Write, Goto, object
<1>16. ASSUME SetRecord(local), BeginRecord, local # << >>, UNCHANGED <<name, outcome>>
       PROVE  NameInv'
  <2>1. copy'.name = local
    BY <1>1, <1>16, RecordSet
  <2> QED BY <1>16, <2>1 DEF NameInv
<1>17. CASE MakeCommit
  <2>1. CASE work = File(local)
    <3>1. Copied(File(local)) /\ pc = "commit"
      BY <1>17, <2>1 DEF MakeCommit, RecordInv, SyncInv
    <3>2. local # << >>
      BY <3>1, CopiedMeansCommit
    <3> QED BY <1>16, <1>17, <2>1, <3>2 DEF MakeCommit, object
  <2>2. CASE work # File(local)
    BY <1>3, <1>17, <2>2 DEF MakeCommit, Goto, object
  <2> QED BY <2>1, <2>2
<1>18. CASE Push
  <2>1. Copied(File(local)) /\ pc = "push"
    BY <1>18 DEF Push, RecordInv, SyncInv
  <2>2. local # << >>
    BY <2>1, CopiedMeansCommit
  <2> QED BY <1>16, <1>18, <2>2 DEF Push, object
<1>19. ASSUME Fail PROVE NameInv'
  <2>1. pc' = "idle"
    BY <1>19 DEF Fail, Forget, Goto
  <2>2. \/ outcome' = "failed"
        \/ UNCHANGED <<outcome, name>>
    BY <1>19 DEF Fail
  <2> QED BY <2>1, <2>2 DEF NameInv
<1>20. CASE SyncFails \/ Fault
  <2>1. CASE CommitLost
    BY <1>16, <2>1 DEF CommitLost, object
  <2>2. CASE ~CommitLost
    BY <1>19, <1>20, <2>2 DEF SyncFails, Fault, WriteFails, PushReplyLost, RecordFails
  <2> QED BY <2>1, <2>2
<1>21. CASE RecordStatus
  BY <1>21 DEF RecordStatus, NameInv, memory
<1>22. CASE RecordConflict
  <2>1. CASE tries > 1
    <3>1. /\ pc = "record" /\ UNCHANGED <<name, outcome, pc>>
          /\ copy' = [Snapshot EXCEPT !.status = copy.status, !.name = copy.name]
      BY <1>22, <2>1 DEF RecordConflict, object
    <3>2. copy'.name = copy.name
      <4>1. Snapshot \in Copies
        BY SnapshotType DEF TypeInv, TypeOK
      <4>2. [Snapshot EXCEPT !.status = copy.status, !.name = copy.name].name = copy.name
        BY <4>1, OutcomeSet
      <4> QED BY <3>1, <4>2
    <3> QED BY <3>1, <3>2 DEF NameInv
  <2>2. CASE ~(tries > 1)
    BY <1>3, <1>22, <2>2 DEF RecordConflict, Forget, Goto, object
  <2> QED BY <2>1, <2>2
<1>23. CASE Done
  BY <1>23 DEF Done, NameInv, Forget, Goto
<1>24. CASE Environment
  <2>1. CASE Forget /\ UNCHANGED object
    BY <1>3, <2>1 DEF object, Forget, Goto
  <2> QED BY <1>2, <1>24, <2>1, EnvironmentKeeps
<1>25. CASE UNCHANGED vars
  BY <1>2, <1>25 DEF vars, object, memory
<1> QED BY <1>6, <1>7, <1>8, <1>9, <1>10, <1>11, <1>12, <1>13, <1>14, <1>15, <1>17, <1>18,
           <1>20, <1>21, <1>22, <1>23, <1>24, <1>25 DEF Next, Reconcile, Observe

(* A create recorded as succeeded has named a commit, for any bounds: the  *)
(* sync that made it had a file to copy, and the name is put back on the   *)
(* object after every refused status write.                                *)
THEOREM CreatesAreNamed == Spec => []SucceededIsNamed
<1>1. Init => TypeInv /\ RecordInv /\ NameInv
  BY InitTypes, InitRecord, InitName
<1>2. TypeInv /\ RecordInv /\ NameInv /\ [Next]_vars => (TypeInv /\ RecordInv /\ NameInv)'
  BY StepTypes, StepRecord, StepName
<1>3. NameInv => SucceededIsNamed
  BY DEF NameInv, SucceededIsNamed
<1> QED BY <1>1, <1>2, <1>3, PTL DEF Spec

----------------------------------------------------------------------------------
(* Without enableUpdate, one push.                                         *)

Unrecorded == status.target = << >> /\ name = << >>

Syncing == {"cloneTarget", "cloneOrigin", "write", "commit", "push"}

FreshInv ==
  /\ pc = "observe" => copy.status.target = status.target /\ copy.name = name
  /\ pc = "create" => Unrecorded
  /\ pc = "update" => copy.enableUpdate
  /\ pc \in Syncing => copy.enableUpdate \/ Unrecorded

LEMMA InitFresh == Init => FreshInv
BY DEF Init, FreshInv, Syncing

LEMMA StepFresh ==
  ASSUME TypeInv, FreshInv, [Next]_vars
  PROVE  FreshInv'
<1>1. copy \in Copies
  BY DEF TypeInv, TypeOK, MemoryTypes
<1>2. ASSUME UNCHANGED <<status, name, pc, copy>> PROVE FreshInv'
  BY <1>2 DEF FreshInv, Unrecorded
<1>3. ASSUME pc' \in {"idle", "history", "report", "delete", "release", "record", "done"}
      PROVE  FreshInv'
  BY <1>3 DEF FreshInv, Syncing
<1>4. ASSUME Forget PROVE FreshInv'
  BY <1>3, <1>4 DEF Forget, Goto
<1>5. ASSUME NEW t, WriteStatus(t) PROVE FreshInv'
  BY <1>4, <1>5 DEF WriteStatus
<1>6. ASSUME NEW d, SetReady(d) PROVE copy'.enableUpdate = copy.enableUpdate
  <2>1. [copy EXCEPT !.status.ready = d].enableUpdate = copy.enableUpdate
    BY <1>1, ReadySet
  <2> QED BY <1>6, <2>1 DEF SetReady
<1>7. ASSUME pc \in Syncing, pc' \in Syncing, UNCHANGED <<copy, status, name>> PROVE FreshInv'
  BY <1>7 DEF FreshInv, Unrecorded, Syncing
<1>8. CASE Connect
  BY <1>8 DEF Connect, FreshInv, Syncing, Goto, Snapshot, object
<1>9. CASE ConnectFails
  BY <1>3, <1>9 DEF ConnectFails, Get
<1>10. CASE ObserveDeleting \/ ObserveOrigin
  BY <1>3, <1>10 DEF ObserveDeleting, ObserveOrigin, Goto
<1>11. CASE ObserveNothing
  <2>1. Unrecorded /\ UNCHANGED <<status, name>> /\ pc' \in {"release", "create"}
    BY <1>11 DEF ObserveNothing, Observing, FreshInv, Unrecorded, Goto, object
  <2> QED BY <2>1 DEF FreshInv, Unrecorded, Syncing
<1>12. CASE ObserveLost \/ ObserveFails
  BY <1>5, <1>12 DEF ObserveLost, ObserveFails
<1>13. CASE ObserveRewritten \/ ObserveBehind
  <2>1. copy.enableUpdate /\ SetReady(IF ObserveBehind THEN "Available" ELSE "Unavailable")
        /\ pc' \in {"delete", "update"}
    BY <1>13 DEF ObserveRewritten, ObserveBehind, Then, Goto
  <2>2. copy'.enableUpdate
    BY <2>1, <1>6
  <2> QED BY <2>1, <2>2 DEF FreshInv, Syncing
<1>14. CASE ObserveSynced
  BY <1>3, <1>14 DEF ObserveSynced, Then, Goto
<1>15. CASE Report \/ Delete
  BY <1>5, <1>15 DEF Report, Delete
<1>16. CASE Release
  BY <1>4, <1>16 DEF Release
<1>17. CASE BeginCreate
  <2>1. CASE stale
    BY <1>4, <1>17, <2>1 DEF BeginCreate
  <2>2. CASE ~stale
    <3>1. Unrecorded /\ UNCHANGED <<status, name>> /\ pc' = "cloneTarget"
      BY <1>17, <2>2 DEF BeginCreate, FreshInv, Goto
    <3> QED BY <3>1 DEF FreshInv, Unrecorded
  <2> QED BY <2>1, <2>2
<1>18. CASE BeginUpdate
  <2>1. copy.enableUpdate /\ SetReady("Creating") /\ pc' = "cloneTarget"
    BY <1>18 DEF BeginUpdate, FreshInv, Goto
  <2>2. copy'.enableUpdate
    BY <2>1, <1>6
  <2> QED BY <2>1, <2>2 DEF FreshInv
<1>19. CASE CloneTarget \/ CloneOrigin \/ Write
  BY <1>7, <1>19 DEF CloneTarget, CloneOrigin, Write, Goto, Syncing, object
<1>20. CASE MakeCommit
  <2>1. CASE work = File(local)
    BY <1>3, <1>20, <2>1 DEF MakeCommit, BeginRecord, Goto
  <2>2. CASE work # File(local)
    BY <1>7, <1>20, <2>2 DEF MakeCommit, Goto, Syncing, object
  <2> QED BY <2>1, <2>2
<1>21. CASE Push
  BY <1>3, <1>21 DEF Push, BeginRecord, Goto
<1>22. CASE SyncFails \/ Fault
  <2>1. CASE CommitLost
    BY <1>3, <2>1 DEF CommitLost, BeginRecord, Goto
  <2>2. CASE ~CommitLost
    BY <1>4, <1>22, <2>2 DEF SyncFails, Fault, WriteFails, PushReplyLost, RecordFails, Fail
  <2> QED BY <2>1, <2>2
<1>23. CASE RecordStatus
  BY <1>3, <1>23 DEF RecordStatus, Goto
<1>24. CASE RecordConflict
  <2>1. pc' \in {"idle", "record"}
    BY <1>24 DEF RecordConflict, Forget, Goto
  <2> QED BY <1>3, <2>1
<1>25. CASE Done
  BY <1>4, <1>25 DEF Done
<1>26. CASE Environment
  BY <1>2, <1>4, <1>26, EnvironmentKeeps
<1>27. CASE UNCHANGED vars
  BY <1>2, <1>27 DEF vars, object, memory
<1> QED BY <1>8, <1>9, <1>10, <1>11, <1>12, <1>13, <1>14, <1>15, <1>16, <1>17, <1>18, <1>19,
           <1>20, <1>21, <1>22, <1>23, <1>24, <1>25, <1>26, <1>27 DEF Next, Reconcile, Observe

\* A commit of the Repo's own on the target is pushed, never made by a rewrite.
LEMMA PushesPush ==
  ASSUME TypeInv, Next, Pushes
  PROVE  pc = "push"
<1>1. branch \in Seq(Commit) /\ Len(branch) \in Nat
  BY LenProperties DEF TypeInv, TypeOK, ServerTypes
<1>2. branch' # branch
  BY <1>1 DEF Pushes
<1>3. CASE Reconcile
  <2>1. ~(Connect \/ ConnectFails \/ Observe \/ Report \/ Delete \/ Release)
    BY <1>2 DEF Connect, ConnectFails, Observe, ObserveDeleting, ObserveNothing, ObserveOrigin,
                ObserveLost, ObserveRewritten, ObserveBehind, ObserveSynced, ObserveFails, Report,
                Delete, Release, WriteStatus, servers
  <2>2. ~(BeginCreate \/ BeginUpdate \/ CloneTarget \/ CloneOrigin \/ Write \/ MakeCommit)
    BY <1>2 DEF BeginCreate, BeginUpdate, CloneTarget, CloneOrigin, Write, MakeCommit, servers
  <2>3. ~(SyncFails \/ RecordStatus \/ RecordConflict \/ Done)
    BY <1>2 DEF SyncFails, RecordStatus, RecordConflict, Done, servers
  <2> QED BY <1>3, <2>1, <2>2, <2>3 DEF Reconcile, Push
<1>4. CASE Fault
  BY <1>2, <1>4 DEF Fault, WriteFails, CommitLost, PushReplyLost, RecordFails, servers
<1>5. CASE Environment
  <2>1. CASE OtherPush
    <3>1. spent["rewrites"] \in 0..MaxRewrites /\ File(branch) \in Files
      BY <1>1, EraType, FileType DEF TypeInv
    <3>2. Last(branch').by = "other"
      BY <1>1, <2>1, <3>1, CommitType DEF OtherPush
    <3> QED BY <3>2 DEF Pushes
  <2>2. CASE Rewrite
    <3>1. \/ \E n \in 0..(Len(branch) - 1) : branch' = SubSeq(branch, 1, n)
          \/ branch' = <<[by |-> "other", era |-> spent'["rewrites"], file |-> Absent]>>
      BY <2>2 DEF Rewrite
    <3>2. ASSUME NEW n \in 0..(Len(branch) - 1), branch' = SubSeq(branch, 1, n) PROVE FALSE
      <4>1. Len(branch') = n
        BY <1>1, <3>2, CutType
      <4> QED BY <1>1, <4>1 DEF Pushes
    <3>3. ASSUME branch' = <<[by |-> "other", era |-> spent'["rewrites"], file |-> Absent]>>
          PROVE  FALSE
      <4>1. Last(branch') = [by |-> "other", era |-> spent'["rewrites"], file |-> Absent]
        BY <3>3 DEF Last
      <4> QED BY <4>1 DEF Pushes
    <3> QED BY <3>1, <3>2, <3>3
  <2>3. ~(OriginPush \/ OriginRewrite \/ Outage \/ OutageEnds \/ AllowUpdates \/ LoseSecrets)
    BY <1>2 DEF OriginPush, OriginRewrite, Outage, OutageEnds, AllowUpdates, LoseSecrets, servers
  <2>4. ~(RestoreSecrets \/ Touch \/ RequestDeletion \/ Crash \/ ClearPending)
    BY <1>2 DEF RestoreSecrets, Touch, RequestDeletion, Crash, ClearPending, servers
  <2> QED BY <1>5, <2>1, <2>2, <2>3, <2>4 DEF Environment
<1> QED BY <1>3, <1>4, <1>5 DEF Next

(* Without spec.enableUpdate a Repo with a record of its push, on the      *)
(* status or as its external name, never pushes again, for any target      *)
(* branch and any bounds: Observe sends only an unrecorded one to Create,  *)
(* a stale copy is not sent there, and nobody else writes a record         *)
(* during the reconcile.                                                   *)
THEOREM PushesOnce == Spec => OneShot
<1>1. Init => TypeInv /\ FreshInv
  BY InitTypes, InitFresh
<1>2. TypeInv /\ FreshInv /\ [Next]_vars => (TypeInv /\ FreshInv)'
  BY StepTypes, StepFresh
<1>3. TypeInv /\ FreshInv /\ [Next]_vars
        => [Pushes /\ ~copy.enableUpdate => status.target = << >> /\ name = << >>]_vars
  <2> SUFFICES ASSUME TypeInv, FreshInv, Next, Pushes, ~copy.enableUpdate
               PROVE  status.target = << >> /\ name = << >>
    OBVIOUS
  <2>1. pc = "push"
    BY PushesPush
  <2> QED BY <2>1 DEF FreshInv, Syncing, Unrecorded
<1> QED BY <1>1, <1>2, <1>3, PTL DEF Spec, OneShot
=================================================================================
