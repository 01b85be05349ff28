--------------------------- MODULE LocalResourceProofs ---------------------------
(***************************************************************************)
(* Theorems about LocalResource, for any set of resources, files, versions *)
(* and bounds: types; the refinement of PublishSpec; and that statuses     *)
(* record only commits of the target branch.                               *)
(*                                                                         *)
(* The refinement rests on SyncInv, what a sync has in its clone at each   *)
(* of its places; what is recorded rests on RecordInv, that every commit a *)
(* resource names anywhere, and every clone that has not committed, is a   *)
(* prefix of the branch, which only grows.                                 *)
(***************************************************************************)
EXTENDS LocalResource, SequenceTheorems, WellFoundedInduction, TLAPS

\* A prefix agrees with the longer history, position by position.
LEMMA PrefixElements ==
  ASSUME NEW S, NEW s \in Seq(S), NEW t \in Seq(S)
  PROVE  IsPrefix(s, t) <=> Len(s) <= Len(t) /\ \A i \in 1..Len(s) : s[i] = t[i]
<1>1. ASSUME Len(s) <= Len(t)
      PROVE SubSeq(s, 1, Len(s)) = SubSeq(t, 1, Len(s)) <=> \A i \in 1..Len(s) : s[i] = t[i]
  <2>1. Len(s) \in Nat /\ Len(t) \in Nat
    BY LenProperties
  <2>2. SubSeq(s, 1, Len(s)) = s
    BY SubSeqFull
  <2>3. /\ SubSeq(t, 1, Len(s)) \in Seq(S)
        /\ Len(SubSeq(t, 1, Len(s))) = Len(s)
        /\ \A i \in 1..Len(s) : SubSeq(t, 1, Len(s))[i] = t[i]
    <3>1. \A i \in 1..Len(s) : t[i] \in S
      BY <2>1, <1>1, ElementOfSeq
    <3>2. /\ SubSeq(t, 1, Len(s)) \in Seq(S)
          /\ Len(SubSeq(t, 1, Len(s))) = IF 1 <= Len(s) THEN Len(s) - 1 + 1 ELSE 0
          /\ \A i \in 1..(Len(s) - 1 + 1) : SubSeq(t, 1, Len(s))[i] = t[1 + i - 1]
      BY <2>1, <3>1, SubSeqProperties
    <3> QED BY <2>1, <3>2
  <2> QED BY <2>2, <2>3, SeqEqual
<1> QED BY <1>1 DEF IsPrefix

\* An appended commit leaves the prefixes of a history prefixes of it.
LEMMA PrefixAppend ==
  ASSUME NEW S, NEW s \in Seq(S), NEW t \in Seq(S), NEW c \in S, IsPrefix(s, t)
  PROVE  IsPrefix(s, Append(t, c))
<1>1. Append(t, c) \in Seq(S) /\ Len(Append(t, c)) = Len(t) + 1
      /\ \A i \in 1..Len(t) : Append(t, c)[i] = t[i]
  BY AppendProperties
<1>2. Len(s) <= Len(t) /\ \A i \in 1..Len(s) : s[i] = t[i]
  BY PrefixElements
<1>3. Len(s) \in Nat /\ Len(t) \in Nat
  BY LenProperties
<1>4. /\ Len(s) <= Len(Append(t, c))
      /\ \A i \in 1..Len(s) : s[i] = Append(t, c)[i]
  BY <1>1, <1>2, <1>3
<1>5. QED
  BY <1>1, <1>4, PrefixElements, Zenon

\* A history is a prefix of itself, and the empty one of each.
LEMMA PrefixSelf ==
  ASSUME NEW S, NEW s \in Seq(S)
  PROVE  IsPrefix(s, s) /\ IsPrefix(<< >>, s)
<1>1. << >> \in Seq(S) /\ Len(<< >>) = 0 /\ Len(s) \in Nat
  BY EmptySeq, LenProperties
<1>2. Len(s) <= Len(s) /\ \A i \in 1..Len(s) : s[i] = s[i]
  BY <1>1
<1>3. Len(<< >>) <= Len(s) /\ \A i \in 1..Len(<< >>) : << >>[i] = s[i]
  BY <1>1
<1>4. IsPrefix(s, s)
  BY <1>2, PrefixElements, Zenon
<1>5. IsPrefix(<< >>, s)
  BY <1>1, <1>3, PrefixElements, Zenon
<1> QED BY <1>4, <1>5

\* The first n commits of a history are a prefix of it.
LEMMA PrefixSubSeq ==
  ASSUME NEW S, NEW s \in Seq(S), NEW n \in 1..Len(s)
  PROVE  SubSeq(s, 1, n) \in Seq(S) /\ IsPrefix(SubSeq(s, 1, n), s)
<1>1. Len(s) \in Nat
  BY LenProperties
<1>2. \A i \in 1..n : s[i] \in S
  BY <1>1, ElementOfSeq
<1>3. /\ SubSeq(s, 1, n) \in Seq(S)
      /\ Len(SubSeq(s, 1, n)) = IF 1 <= n THEN n - 1 + 1 ELSE 0
      /\ \A i \in 1..(n - 1 + 1) : SubSeq(s, 1, n)[i] = s[1 + i - 1]
  BY <1>1, <1>2, SubSeqProperties
<1>4. Len(SubSeq(s, 1, n)) = n /\ \A i \in 1..n : SubSeq(s, 1, n)[i] = s[i]
  BY <1>1, <1>3
<1>5. /\ Len(SubSeq(s, 1, n)) <= Len(s)
      /\ \A i \in 1..Len(SubSeq(s, 1, n)) : SubSeq(s, 1, n)[i] = s[i]
  BY <1>1, <1>4
<1>6. QED
  BY <1>3, <1>5, PrefixElements, Zenon

\* A set of positions that is not empty has an oldest one.
LEMMA OldestIsMember ==
  ASSUME NEW S, S \subseteq Nat, S # {}
  PROVE  Oldest(S) \in S
<1>1. PICK i \in S : \A j \in S : ~ (<<j, i>> \in OpToRel(<, Nat))
  BY WFMin, NatLessThanWellFounded
<1>2. \A j \in S : i <= j
  <2> TAKE j \in S
  <2>1. <<j, i>> \notin {ss \in Nat \X Nat : ss[1] < ss[2]}
    BY <1>1 DEF OpToRel
  <2>2. i \in Nat /\ j \in Nat
    OBVIOUS
  <2> QED BY <2>1, <2>2
<1> QED BY <1>2 DEF Oldest

----------------------------------------------------------------------------------
(* Types.                                                                  *)

\* A reconcile that has begun holds a source it can read.
SourceIsHeld == \A r \in CR : pc[r] # "idle" /\ r \notin FromRef => copy[r].source \in Version

TypeInv == ServerTypes /\ MemoryTypes /\ SourceIsHeld

\* What the helpers on histories return.
LEMMA HistoryTypes ==
  ASSUME NEW h \in Seq(Commit)
  PROVE  /\ Git!Base(h) \in Seq(Commit)
         /\ Tree(h) \in [File -> Version \union {Absent}]
<1>1. Git!Base(h) \in Seq(Commit)
  BY ResourceAssumption DEF Git!Base
<1>2. CASE h = << >>
  BY <1>1, <1>2 DEF Tree, Git!Tree, Git!EmptyTree
<1>3. CASE h # << >>
  <2>1. Len(h) \in 1..Len(h) /\ h[Len(h)] \in Commit
    BY <1>3, LenProperties, EmptySeq, ElementOfSeq
  <2> QED BY <1>1, <1>3, <2>1 DEF Tree, Git!Tree, Commit
<1> QED BY <1>2, <1>3

\* A reconcile that has begun reads a version.
LEMMA ReadType ==
  ASSUME TypeInv, NEW r \in CR, pc[r] # "idle"
  PROVE  Read(r) \in Version
BY DEF TypeInv, TypeOK, ServerTypes, MemoryTypes, SourceIsHeld, Read

\* The types hold at first.
LEMMA InitTypes == Init => TypeInv
BY ResourceAssumption, EmptySeq
   DEF Init, TypeInv, TypeOK, ServerTypes, MemoryTypes, SourceIsHeld, NoCopy, Copies,
       Git!EmptyTree, PC, Ready, Sync

(* A reconcile that ends leaves nothing in memory.                         *)
LEMMA ForgetTypes ==
  ASSUME TypeInv, NEW r \in CR, Forget(r)
  PROVE  MemoryTypes' /\ (source' = source => SourceIsHeld')
<1> USE DEF TypeInv, TypeOK, MemoryTypes, Forget
<1>1. NoCopy \in Copies
  BY EmptySeq DEF NoCopy, Copies, Ready
<1>2. copy' \in [CR -> Copies]
  BY <1>1
<1>3. pc' \in [CR -> PC]
  BY DEF Goto, PC
<1>4. cloned' \in [CR -> Seq(Commit)] /\ local' \in [CR -> Seq(Commit)]
  BY EmptySeq
<1>5. work' \in [CR -> [File -> Version \union {Absent}]]
  BY DEF Git!EmptyTree
<1>6. stale' \in [CR -> BOOLEAN] /\ action' \in [CR -> {"none", "create", "update"}]
  OBVIOUS
<1>7. attempt' \in [CR -> 0..PushSteps] /\ tries' \in [CR -> 0..StatusSteps]
  BY ResourceAssumption
<1>8. ASSUME NEW q \in CR, pc'[q] # "idle", q \notin FromRef PROVE copy'[q].source \in Version
  BY <1>8 DEF SourceIsHeld, Goto
<1> QED BY <1>2, <1>3, <1>4, <1>5, <1>6, <1>7, <1>8 DEF SourceIsHeld

\* c has become d, the sources it holds the same.
Updated(c, d) == /\ d \in [CR -> Copies]
                 /\ \A q \in CR : d[q].source = c[q].source

(* What a reconcile sets on its copy leaves the copy's source alone.       *)
LEMMA CopyTypes ==
  ASSUME NEW c \in [CR -> Copies], NEW r \in CR, NEW h \in Seq(Commit), NEW d \in Ready
  PROVE  /\ Updated(c, [c EXCEPT ![r].ready = d])
         /\ Updated(c, [c EXCEPT ![r].name = h])
         /\ Updated(c, [c EXCEPT ![r].name = h, ![r].ready = d])
         /\ Updated(c, [c EXCEPT ![r].name = h, ![r].target = h])
         /\ Updated(c, [c EXCEPT ![r].name = h, ![r].target = h, ![r].ready = d])
<1> DEFINE H == Seq(Commit)
<1>1. /\ h \in H
      /\ Copies = [source : Version \union {Absent}, target : H, name : H, ready : Ready,
                   deleting : BOOLEAN]
  BY DEF Copies
<1> HIDE DEF H
<1> QED BY <1>1 DEF Updated

(* What a reread of the object replaces on the copy.                       *)
LEMMA MetadataTypes ==
  ASSUME NEW c \in [CR -> Copies], NEW r \in CR, NEW v \in Version \union {Absent},
         NEW b \in BOOLEAN
  PROVE  [c EXCEPT ![r].source = v, ![r].deleting = b] \in [CR -> Copies]
<1> DEFINE H == Seq(Commit)
<1>1. Copies = [source : Version \union {Absent}, target : H, name : H, ready : Ready,
                deleting : BOOLEAN]
  BY DEF Copies
<1> HIDE DEF H
<1> QED BY <1>1

(* A step inside a reconcile.                                              *)
LEMMA ContinueTypes ==
  ASSUME TypeInv, NEW r \in CR, pc[r] # "idle", NEW l \in PC, Goto(r, l), Updated(copy, copy')
  PROVE  copy' \in [CR -> Copies] /\ pc' \in [CR -> PC] /\ SourceIsHeld'
BY DEF TypeInv, TypeOK, MemoryTypes, SourceIsHeld, Goto, Updated

\* The commit Observe adopts.
LEMMA AdoptedType ==
  ASSUME TypeInv, NEW r \in CR
  PROVE  Adopted(r) \in Seq(Commit)
BY DEF TypeInv, TypeOK, MemoryTypes, Copies, Adopted

(* What the copy holds fits the server.                                    *)
LEMMA HeldTypes ==
  ASSUME TypeInv, NEW r \in CR
  PROVE  copy[r].target \in Seq(Commit) /\ copy[r].name \in Seq(Commit) /\ copy[r].ready \in Ready
BY DEF TypeInv, TypeOK, MemoryTypes, Copies

(* What the end of a reconcile may write on the server.                    *)
LEMMA WriteTypes ==
  ASSUME TypeInv, NEW r \in CR, NEW h \in Seq(Commit), NEW d \in Ready
  PROVE  /\ [target EXCEPT ![r] = h] \in [CR -> Seq(Commit)]
         /\ [name EXCEPT ![r] = h] \in [CR -> Seq(Commit)]
         /\ [ready EXCEPT ![r] = d] \in [CR -> Ready]
BY DEF TypeInv, TypeOK, ServerTypes

(* The status write that ends a reconcile.                                 *)
LEMMA StatusTypes ==
  ASSUME TypeInv, NEW r \in CR, NEW d \in Ready, WriteStatus(r, d)
  PROVE  /\ target' \in [CR -> Seq(Commit)]
         /\ ready' \in [CR -> Ready]
         /\ synced' \in [CR -> {"none", "ReconcileSuccess", "ReconcileError"}]
<1>1. /\ target \in [CR -> Seq(Commit)] /\ ready \in [CR -> Ready]
      /\ synced \in [CR -> {"none", "ReconcileSuccess", "ReconcileError"}]
  BY DEF TypeInv, TypeOK, ServerTypes
<1>2. CASE stale[r]
  BY <1>1, <1>2 DEF WriteStatus
<1>3. CASE ~stale[r]
  <2>1. /\ target' = [target EXCEPT ![r] = copy[r].target]
        /\ ready' = [ready EXCEPT ![r] = d]
        /\ synced' = [synced EXCEPT ![r] = "ReconcileSuccess"]
    BY <1>3 DEF WriteStatus
  <2> QED BY <1>1, <2>1, HeldTypes, WriteTypes
<1> QED BY <1>2, <1>3

\* Where Observe leads.
LEMMA ThenGoes ==
  ASSUME NEW r \in CR, NEW l \in PC, Then(r, l)
  PROVE  \E m \in PC : m \in {"delete", l} /\ Goto(r, m)
<1>1. CASE copy[r].deleting
  BY <1>1 DEF Then, PC
<1>2. CASE ~copy[r].deleting
  BY <1>2 DEF Then
<1> QED BY <1>1, <1>2

\* What a walk finds that misses commits of the current spec: none, or one of the branch.
LEMMA MissesFinds ==
  ASSUME branch \in Seq(Commit), NEW r \in CR, ObserveMisses(r)
  PROVE  \/ /\ copy' = [copy EXCEPT ![r].name = Adopted(r), ![r].ready = "Available"]
            /\ Then(r, "update")
         \/ /\ \E n \in 1..Len(branch) :
                 copy' = [copy EXCEPT ![r].name = SubSeq(branch, 1, n),
                                      ![r].target = SubSeq(branch, 1, n),
                                      ![r].ready = "Available"]
            /\ Then(r, "report")
<1>1. PICK seen \in SUBSET SameSpec(branch, r, Read(r)) :
        \/ /\ copy' = [copy EXCEPT ![r].name = Adopted(r), ![r].ready = "Available"]
           /\ Then(r, "update")
        \/ /\ seen # {}
           /\ copy' = [copy EXCEPT ![r].name = SubSeq(branch, 1, Oldest(seen)),
                                   ![r].target = SubSeq(branch, 1, Oldest(seen)),
                                   ![r].ready = "Available"]
           /\ Then(r, "report")
  BY Zenon DEF ObserveMisses
<1>2. ASSUME seen # {} PROVE Oldest(seen) \in 1..Len(branch)
  <2>1. seen \subseteq 1..Len(branch) /\ seen \subseteq Nat
    BY LenProperties DEF SameSpec
  <2>2. Oldest(seen) \in seen
    BY <1>2, <2>1, OldestIsMember
  <2> QED BY <2>1, <2>2
<1> QED BY <1>1, <1>2, Zenon

\* Where it leads.
LEMMA MissesGoes ==
  ASSUME NEW r \in CR, ObserveMisses(r)
  PROVE  /\ \E l \in {"update", "report", "delete"} : Goto(r, l)
         /\ UNCHANGED <<branch, server, stale, action, attempt, tries, clone, lost>>
<1>1. Then(r, "update") \/ Then(r, "report")
  BY Zenon DEF ObserveMisses
<1>2. UNCHANGED <<branch, server, stale, action, attempt, tries, clone, lost>>
  BY Zenon DEF ObserveMisses
<1> QED BY <1>1, <1>2 DEF Then

\* Setting the commit of a sync on the copy.
LEMMA RecordTypes ==
  ASSUME copy \in [CR -> Copies], NEW r \in CR, NEW h \in Seq(Commit), SetRecord(r, h)
  PROVE  Updated(copy, copy')
<1>1. "none" \in Ready
  BY DEF Ready
<1> QED BY <1>1, CopyTypes DEF SetRecord

\* What a failed sync leaves behind, after a push or without one.
LEMMA FailTypes ==
  ASSUME TypeInv, NEW r \in CR, Fail(r), branch' \in Seq(Commit)
  PROVE  TypeInv'
<1> USE DEF TypeInv, TypeOK
<1>1. /\ [target EXCEPT ![r] = copy[r].target] \in [CR -> Seq(Commit)]
      /\ [ready EXCEPT ![r] = copy[r].ready] \in [CR -> Ready]
  BY HeldTypes, WriteTypes
<1>2. [name EXCEPT ![r] = IF copy[r].name = << >> THEN @ ELSE copy[r].name] \in [CR -> Seq(Commit)]
  <2>1. copy[r].name \in Seq(Commit) /\ name \in [CR -> Seq(Commit)]
    BY HeldTypes DEF ServerTypes
  <2> QED BY <2>1
<1>3. [outcome EXCEPT ![r] = "failed"] \in [CR -> {"none", "pending", "succeeded", "failed"}]
  BY DEF ServerTypes
<1>4. source' = source /\ Forget(r)
  BY DEF Fail
<1>5. target' \in [CR -> Seq(Commit)] /\ ready' \in [CR -> Ready]
  <2>1. target' = target \/ target' = [target EXCEPT ![r] = copy[r].target]
    BY DEF Fail
  <2>2. ready' = ready \/ ready' = [ready EXCEPT ![r] = copy[r].ready]
    BY DEF Fail
  <2> QED BY <1>1, <2>1, <2>2 DEF ServerTypes
<1>6. /\ name' \in [CR -> Seq(Commit)]
      /\ outcome' \in [CR -> {"none", "pending", "succeeded", "failed"}]
  <2>1. \/ name' = name /\ outcome' = outcome
        \/ /\ name' = [name EXCEPT ![r] = IF copy[r].name = << >> THEN @ ELSE copy[r].name]
           /\ outcome' = [outcome EXCEPT ![r] = "failed"]
    BY DEF Fail
  <2> QED BY <1>2, <1>3, <2>1 DEF ServerTypes
<1>7. MemoryTypes' /\ SourceIsHeld'
  BY <1>4, ForgetTypes
<1>8. synced' \in [CR -> {"none", "ReconcileSuccess", "ReconcileError"}] /\ life' = life
  <2>1. synced' = synced \/ synced' = [synced EXCEPT ![r] = "ReconcileError"]
    BY DEF Fail
  <2> QED BY <2>1 DEF Fail, ServerTypes
<1> QED BY <1>4, <1>5, <1>6, <1>7, <1>8 DEF ServerTypes

\* Every step keeps the types.
LEMMA StepTypes ==
  ASSUME TypeInv, [Next]_vars
  PROVE  TypeInv'
<1> USE DEF TypeInv, TypeOK
<1>1. ASSUME NEW r \in CR, ObserveDrifted(r) PROVE TypeInv'
  <2>1. Updated(copy, copy')
    BY <1>1, AdoptedType, CopyTypes DEF ObserveDrifted, Ready, MemoryTypes
  <2>2. pc[r] # "idle" /\ \E l \in PC : Goto(r, l)
    <3>1. pc[r] # "idle" /\ Then(r, "update") /\ "update" \in PC
      BY <1>1 DEF ObserveDrifted, Observing, PC
    <3> QED BY <3>1, ThenGoes
  <2>3. copy' \in [CR -> Copies] /\ pc' \in [CR -> PC] /\ SourceIsHeld'
    BY <2>1, <2>2, ContinueTypes
  <2>4. MemoryTypes'
    BY <1>1, <2>3 DEF ObserveDrifted, MemoryTypes, memory, clone
  <2>5. ServerTypes'
    BY <1>1 DEF ObserveDrifted, ServerTypes, server
  <2> QED BY <2>3, <2>4, <2>5
<1>2. ASSUME NEW r \in CR, ObserveAbsent(r) PROVE TypeInv'
  <2>1. Updated(copy, copy')
    BY <1>2, AdoptedType, CopyTypes DEF ObserveAbsent, Ready, MemoryTypes
  <2>2. pc[r] # "idle" /\ \E l \in PC : Goto(r, l)
    BY <1>2 DEF ObserveAbsent, Observing, PC
  <2>3. copy' \in [CR -> Copies] /\ pc' \in [CR -> PC] /\ SourceIsHeld'
    BY <2>1, <2>2, ContinueTypes
  <2>4. MemoryTypes'
    BY <1>2, <2>3 DEF ObserveAbsent, MemoryTypes, memory, clone
  <2>5. ServerTypes'
    BY <1>2 DEF ObserveAbsent, ServerTypes, server
  <2> QED BY <2>3, <2>4, <2>5
<1>3. ASSUME NEW r \in CR, ObserveRecorded(r) PROVE TypeInv'
  <2>1. Updated(copy, copy')
    BY <1>3, AdoptedType, CopyTypes DEF ObserveRecorded, Ready, MemoryTypes
  <2>2. pc[r] # "idle" /\ \E l \in PC : Goto(r, l)
    <3>1. pc[r] # "idle" /\ Then(r, "report") /\ "report" \in PC
      BY <1>3 DEF ObserveRecorded, Observing, PC
    <3> QED BY <3>1, ThenGoes
  <2>3. copy' \in [CR -> Copies] /\ pc' \in [CR -> PC] /\ SourceIsHeld'
    BY <2>1, <2>2, ContinueTypes
  <2>4. MemoryTypes'
    BY <1>3, <2>3 DEF ObserveRecorded, MemoryTypes, memory, clone
  <2>5. ServerTypes'
    BY <1>3 DEF ObserveRecorded, ServerTypes, server
  <2> QED BY <2>3, <2>4, <2>5
<1>4. ASSUME NEW r \in CR, Clone(r) PROVE TypeInv'
  <2>1. Updated(copy, copy')
    BY <1>4, Zenon DEF Clone, MemoryTypes, Updated, memory
  <2>2. pc[r] # "idle" /\ Goto(r, "write") /\ "write" \in PC
    BY <1>4 DEF Clone, PC, Sync
  <2>3. copy' \in [CR -> Copies] /\ pc' \in [CR -> PC] /\ SourceIsHeld'
    BY <2>1, <2>2, ContinueTypes
  <2>4. MemoryTypes'
    <3>1. Git!Base(branch) \in Seq(Commit) /\ branch \in Seq(Commit)
      BY HistoryTypes DEF ServerTypes
    <3>2. cloned' \in [CR -> Seq(Commit)] /\ local' \in [CR -> Seq(Commit)]
      BY <1>4, <3>1 DEF Clone, MemoryTypes
    <3> QED BY <1>4, <2>3, <3>2 DEF Clone, MemoryTypes, memory
  <2>5. ServerTypes'
    BY <1>4 DEF Clone, ServerTypes, server
  <2> QED BY <2>3, <2>4, <2>5
<1>5. ASSUME NEW r \in CR, Write(r) PROVE TypeInv'
  <2>1. Updated(copy, copy')
    BY <1>5, Zenon DEF Write, MemoryTypes, Updated, memory
  <2>2. pc[r] # "idle" /\ Goto(r, "commit") /\ "commit" \in PC
    BY <1>5 DEF Write, PC, Sync
  <2>3. copy' \in [CR -> Copies] /\ pc' \in [CR -> PC] /\ SourceIsHeld'
    BY <2>1, <2>2, ContinueTypes
  <2>4. MemoryTypes'
    <3>1. /\ ContentOf[Read(r)] \in Version
          /\ Tree(local[r]) \in [File -> Version \union {Absent}]
      BY <2>2, ReadType, HistoryTypes, ResourceAssumption DEF MemoryTypes
    <3>2. work' \in [CR -> [File -> Version \union {Absent}]]
      BY <1>5, <3>1 DEF Write, MemoryTypes
    <3> QED BY <1>5, <2>3, <3>2 DEF Write, MemoryTypes, memory
  <2>5. ServerTypes'
    BY <1>5 DEF Write, ServerTypes, server
  <2> QED BY <2>3, <2>4, <2>5
<1>6. ASSUME NEW r \in CR, RecordStatus(r) PROVE TypeInv'
  <2>1. Updated(copy, copy')
    BY <1>6, CopyTypes DEF RecordStatus, MemoryTypes, ServerTypes
  <2>2. pc[r] # "idle" /\ Goto(r, "done") /\ "done" \in PC
    BY <1>6 DEF RecordStatus, PC, Sync
  <2>3. copy' \in [CR -> Copies] /\ pc' \in [CR -> PC] /\ SourceIsHeld'
    BY <2>1, <2>2, ContinueTypes
  <2>4. MemoryTypes'
    BY <1>6, <2>3 DEF RecordStatus, MemoryTypes, memory, clone
  <2>5. ServerTypes'
    BY <1>6, HeldTypes, WriteTypes DEF RecordStatus, ServerTypes
  <2> QED BY <2>3, <2>4, <2>5
<1>7. ASSUME NEW r \in CR, ObserveFails(r) PROVE TypeInv'
  <2>1. "NotObserved" \in Ready /\ "Deleting" \in Ready
    BY DEF Ready
  <2>2. /\ ready' \in [CR -> Ready]
        /\ synced' \in [CR -> {"none", "ReconcileSuccess", "ReconcileError"}]
    <3>1. \/ ready' = ready /\ synced' = synced
          \/ /\ \E d \in Ready : ready' = [ready EXCEPT ![r] = d]
             /\ synced' = [synced EXCEPT ![r] = "ReconcileError"]
      <4>1. CASE stale[r]
        BY <1>7, <4>1 DEF ObserveFails
      <4>2. CASE ~stale[r]
        BY <1>7, <2>1, <4>2 DEF ObserveFails
      <4> QED BY <4>1, <4>2
    <3> QED BY <3>1 DEF ServerTypes
  <2>3. MemoryTypes' /\ SourceIsHeld'
    BY <1>7, ForgetTypes DEF ObserveFails
  <2> QED BY <1>7, <2>2, <2>3 DEF ObserveFails, ServerTypes
<1>8. ASSUME NEW r \in CR, Report(r) PROVE TypeInv'
  <2>1. /\ target' \in [CR -> Seq(Commit)] /\ ready' \in [CR -> Ready]
        /\ synced' \in [CR -> {"none", "ReconcileSuccess", "ReconcileError"}]
    BY <1>8, HeldTypes, StatusTypes DEF Report
  <2>2. MemoryTypes' /\ SourceIsHeld'
    BY <1>8, ForgetTypes DEF Report
  <2> QED BY <1>8, <2>1, <2>2 DEF Report, ServerTypes
<1>9. ASSUME NEW r \in CR, Done(r) PROVE TypeInv'
  <2>1. /\ name' \in [CR -> Seq(Commit)]
        /\ outcome' \in [CR -> {"none", "pending", "succeeded", "failed"}]
    <3>1. CASE action[r] = "create"
      BY <1>9, <3>1, HeldTypes, WriteTypes DEF Done, ServerTypes
    <3>2. CASE action[r] # "create"
      BY <1>9, <3>2 DEF Done, ServerTypes
    <3> QED BY <3>1, <3>2
  <2>2. MemoryTypes' /\ SourceIsHeld'
    BY <1>9, ForgetTypes DEF Done
  <2>3. synced' \in [CR -> {"none", "ReconcileSuccess", "ReconcileError"}]
    <3>1. synced' = synced \/ synced' = [synced EXCEPT ![r] = "ReconcileSuccess"]
      BY <1>9 DEF Done
    <3> QED BY <3>1 DEF ServerTypes
  <2> QED BY <1>9, <2>1, <2>2, <2>3 DEF Done, ServerTypes
<1>10. ASSUME NEW r \in CR, SyncFails(r) PROVE TypeInv'
  BY <1>10, FailTypes DEF SyncFails, ServerTypes
<1>11. ASSUME NEW r \in CR, RecordFails(r) PROVE TypeInv'
  BY <1>11, FailTypes DEF RecordFails, ServerTypes
<1>12. ASSUME NEW r \in CR, PushReplyLost(r) PROVE TypeInv'
  BY <1>12, FailTypes DEF PushReplyLost, ServerTypes, MemoryTypes
<1>13. ASSUME NEW r \in CR, Push(r) PROVE TypeInv'
  <2>1. local[r] \in Seq(Commit)
    BY DEF MemoryTypes
  <2>2. Updated(copy, copy')
    BY <1>13, <2>1, RecordTypes DEF Push, MemoryTypes
  <2>3. pc[r] # "idle" /\ Goto(r, "record") /\ "record" \in PC
    BY <1>13 DEF Push, PC, Sync
  <2>4. copy' \in [CR -> Copies] /\ pc' \in [CR -> PC] /\ SourceIsHeld'
    BY <2>2, <2>3, ContinueTypes
  <2>5. tries' \in [CR -> 0..StatusSteps]
    BY <1>13, ResourceAssumption DEF Push, MemoryTypes
  <2>6. MemoryTypes'
    BY <1>13, <2>4, <2>5 DEF Push, MemoryTypes, clone
  <2>7. ServerTypes'
    BY <1>13, <2>1 DEF Push, ServerTypes, server
  <2> QED BY <2>4, <2>6, <2>7
<1>14. ASSUME NEW r \in CR, Edit(r) PROVE TypeInv'
  <2>1. ServerTypes'
    BY <1>14 DEF Edit, ServerTypes, server
  <2>2. MemoryTypes' /\ SourceIsHeld'
    BY <1>14 DEF Edit, MemoryTypes, SourceIsHeld, memory, clone
  <2> QED BY <2>1, <2>2
<1>15. ASSUME NEW r \in CR, Touch(r) PROVE TypeInv'
  <2>1. ServerTypes'
    BY <1>15 DEF Touch, ServerTypes, server
  <2>2. MemoryTypes' /\ SourceIsHeld'
    BY <1>15 DEF Touch, MemoryTypes, SourceIsHeld, memory, clone
  <2> QED BY <2>1, <2>2
<1>16. ASSUME NEW r \in CR, ClearPending(r) PROVE TypeInv'
  <2>1. ServerTypes'
    BY <1>16 DEF ClearPending, ServerTypes, server
  <2>2. MemoryTypes' /\ SourceIsHeld'
    BY <1>16 DEF ClearPending, MemoryTypes, SourceIsHeld, memory, clone
  <2> QED BY <2>1, <2>2
<1>17. ASSUME NEW r \in CR, Get(r) PROVE TypeInv'
  <2>1. Snapshot(r) \in Copies /\ (r \notin FromRef => Snapshot(r).source \in Version)
    BY DEF Snapshot, Copies, ServerTypes
  <2>2. copy' \in [CR -> Copies] /\ pc' \in [CR -> PC]
    BY <1>17, <2>1 DEF Get, MemoryTypes, Goto, PC, Sync
  <2>3. SourceIsHeld'
    BY <1>17, <2>1 DEF Get, Goto, SourceIsHeld, MemoryTypes
  <2> QED BY <1>17, <2>2, <2>3 DEF Get, MemoryTypes, ServerTypes, server, clone
<1>18. ASSUME NEW r \in CR, ObserveFound(r) PROVE TypeInv'
  <2> DEFINE S == SameSpec(branch, r, Read(r))
             found == SubSeq(branch, 1, Oldest(S))
  <2>1. S \subseteq 1..Len(branch) /\ S # {}
    BY <1>18 DEF ObserveFound, SameSpec
  <2>2. Oldest(S) \in S
    BY <2>1, OldestIsMember
  <2>3. found \in Seq(Commit) /\ "Available" \in Ready
    BY <2>1, <2>2, PrefixSubSeq DEF ServerTypes, Ready
  <2>4. copy' = [copy EXCEPT ![r].name = found, ![r].target = found, ![r].ready = "Available"]
    BY <1>18 DEF ObserveFound
  <2> HIDE DEF found, S
  <2>5. Updated(copy, copy')
    BY <2>3, <2>4, CopyTypes DEF MemoryTypes
  <2>6. pc[r] # "idle" /\ \E l \in PC : Goto(r, l)
    <3>1. pc[r] # "idle" /\ Then(r, "report") /\ "report" \in PC
      BY <1>18 DEF ObserveFound, Observing, PC
    <3> QED BY <3>1, ThenGoes
  <2>7. copy' \in [CR -> Copies] /\ pc' \in [CR -> PC] /\ SourceIsHeld'
    BY <2>5, <2>6, ContinueTypes
  <2> QED BY <1>18, <2>7 DEF ObserveFound, MemoryTypes, ServerTypes, server, clone
<1>19. ASSUME NEW r \in CR, BeginCreate(r) PROVE TypeInv'
  <2>1. CASE stale[r]
    BY <1>19, <2>1, ForgetTypes DEF BeginCreate, ServerTypes
  <2>2. CASE ~stale[r]
    <3>1. "Creating" \in Ready /\ << >> \in Seq(Commit)
      BY EmptySeq DEF Ready
    <3>2. Updated(copy, copy')
      <4>1. copy' = [copy EXCEPT ![r].ready = "Creating"] /\ copy \in [CR -> Copies]
        BY <1>19, <2>2 DEF BeginCreate, MemoryTypes
      <4> QED BY <3>1, <4>1, CopyTypes
    <3>3. pc[r] # "idle" /\ Goto(r, "clone") /\ "clone" \in PC
      BY <1>19, <2>2 DEF BeginCreate, PC, Sync
    <3>4. copy' \in [CR -> Copies] /\ pc' \in [CR -> PC] /\ SourceIsHeld'
      BY <3>2, <3>3, ContinueTypes
    <3>5. attempt' \in [CR -> 0..PushSteps] /\ action' \in [CR -> {"none", "create", "update"}]
      <4>1. 1 \in 0..PushSteps
        BY ResourceAssumption
      <4>2. /\ attempt' = [attempt EXCEPT ![r] = 1]
            /\ action' = [action EXCEPT ![r] = "create"]
        BY <1>19, <2>2 DEF BeginCreate
      <4> QED BY <4>1, <4>2 DEF MemoryTypes
    <3>6. MemoryTypes'
      BY <1>19, <2>2, <3>4, <3>5 DEF BeginCreate, MemoryTypes, clone
    <3>7. ServerTypes'
      BY <1>19, <2>2 DEF BeginCreate, ServerTypes, server
    <3> QED BY <3>4, <3>6, <3>7
  <2> QED BY <2>1, <2>2
<1>20. ASSUME NEW r \in CR, BeginUpdate(r) PROVE TypeInv'
  <2>1. CASE r \notin SyncEnabled
    <3>1. Updated(copy, copy')
      BY <1>20, <2>1 DEF BeginUpdate, Updated, MemoryTypes
    <3>2. pc[r] # "idle" /\ Goto(r, "report") /\ "report" \in PC
      BY <1>20, <2>1 DEF BeginUpdate, PC
    <3>3. pc' \in [CR -> PC] /\ SourceIsHeld'
      BY <3>1, <3>2, ContinueTypes
    <3> QED BY <1>20, <2>1, <3>3 DEF BeginUpdate, MemoryTypes, ServerTypes, server, clone
  <2>2. CASE r \in SyncEnabled
    <3>1. "Creating" \in Ready /\ << >> \in Seq(Commit)
      BY EmptySeq DEF Ready
    <3>2. Updated(copy, copy')
      <4>1. copy' = [copy EXCEPT ![r].ready = "Creating"] /\ copy \in [CR -> Copies]
        BY <1>20, <2>2 DEF BeginUpdate, MemoryTypes
      <4> QED BY <3>1, <4>1, CopyTypes
    <3>3. pc[r] # "idle" /\ Goto(r, "clone") /\ "clone" \in PC
      BY <1>20, <2>2 DEF BeginUpdate, PC, Sync
    <3>4. copy' \in [CR -> Copies] /\ pc' \in [CR -> PC] /\ SourceIsHeld'
      BY <3>2, <3>3, ContinueTypes
    <3>5. attempt' \in [CR -> 0..PushSteps] /\ action' \in [CR -> {"none", "create", "update"}]
      <4>1. 1 \in 0..PushSteps
        BY ResourceAssumption
      <4>2. /\ attempt' = [attempt EXCEPT ![r] = 1]
            /\ action' = [action EXCEPT ![r] = "update"]
        BY <1>20, <2>2 DEF BeginUpdate
      <4> QED BY <4>1, <4>2 DEF MemoryTypes
    <3>6. MemoryTypes'
      BY <1>20, <2>2, <3>4, <3>5 DEF BeginUpdate, MemoryTypes, clone
    <3>7. ServerTypes'
      BY <1>20, <2>2 DEF BeginUpdate, ServerTypes, server
    <3> QED BY <3>4, <3>6, <3>7
  <2> QED BY <2>1, <2>2
<1>21. ASSUME NEW r \in CR, MakeCommit(r) PROVE TypeInv'
  <2>1. ServerTypes'
    BY <1>21 DEF MakeCommit, ServerTypes, server
  <2>2. local[r] \in Seq(Commit) /\ pc[r] # "idle"
    BY <1>21 DEF MakeCommit, MemoryTypes
  <2>3. CASE work[r] = Tree(local[r])
    <3>1. Updated(copy, copy')
      BY <1>21, <2>2, <2>3, RecordTypes DEF MakeCommit, MemoryTypes
    <3>2. Goto(r, "record") /\ "record" \in PC
      BY <1>21, <2>3 DEF MakeCommit, PC
    <3>3. copy' \in [CR -> Copies] /\ pc' \in [CR -> PC] /\ SourceIsHeld'
      BY <2>2, <3>1, <3>2, ContinueTypes
    <3>4. tries' \in [CR -> 0..StatusSteps]
      <4>1. tries' = [tries EXCEPT ![r] = StatusSteps]
        BY <1>21, <2>3 DEF MakeCommit
      <4>2. StatusSteps \in 0..StatusSteps
        BY ResourceAssumption
      <4> QED BY <4>1, <4>2 DEF MemoryTypes
    <3> QED BY <1>21, <2>1, <2>3, <3>3, <3>4 DEF MakeCommit, MemoryTypes
  <2>4. CASE work[r] # Tree(local[r])
    <3>1. Updated(copy, copy')
      BY <1>21, <2>4 DEF MakeCommit, MemoryTypes, Updated
    <3>2. Goto(r, "push") /\ "push" \in PC
      BY <1>21, <2>4 DEF MakeCommit, PC, Sync
    <3>3. pc' \in [CR -> PC] /\ SourceIsHeld'
      BY <2>2, <3>1, <3>2, ContinueTypes
    <3> DEFINE c == [by |-> r, hash |-> Read(r), tree |-> work[r]]
    <3>4. c \in Commit
      BY <2>2, ReadType DEF Commit, MemoryTypes
    <3>5. Append(local[r], c) \in Seq(Commit)
      BY <2>2, <3>4, AppendProperties
    <3>6. local' = [local EXCEPT ![r] = Append(local[r], c)]
      BY <1>21, <2>4 DEF MakeCommit
    <3> HIDE DEF c
    <3>7. local' \in [CR -> Seq(Commit)]
      BY <3>5, <3>6 DEF MemoryTypes
    <3> QED BY <1>21, <2>1, <2>4, <3>3, <3>7 DEF MakeCommit, MemoryTypes
  <2> QED BY <2>3, <2>4
<1>22. ASSUME NEW r \in CR, PushContended(r) PROVE TypeInv'
  <2>1. CASE attempt[r] < PushSteps
    <3>1. Updated(copy, copy')
      BY <1>22, <2>1 DEF PushContended, MemoryTypes, Updated
    <3>2. pc[r] # "idle" /\ Goto(r, "clone") /\ "clone" \in PC
      BY <1>22, <2>1 DEF PushContended, PC, Sync
    <3>3. pc' \in [CR -> PC] /\ SourceIsHeld'
      BY <3>1, <3>2, ContinueTypes
    <3>4. attempt' \in [CR -> 0..PushSteps]
      <4>1. attempt' = [attempt EXCEPT ![r] = attempt[r] + 1]
        BY <1>22, <2>1 DEF PushContended
      <4>2. attempt[r] + 1 \in 0..PushSteps
        BY <2>1, ResourceAssumption DEF MemoryTypes
      <4> QED BY <4>1, <4>2 DEF MemoryTypes
    <3> QED BY <1>22, <2>1, <3>3, <3>4 DEF PushContended, MemoryTypes, ServerTypes, server, clone
  <2>2. CASE ~ (attempt[r] < PushSteps)
    BY <1>22, <2>2, FailTypes DEF PushContended, ServerTypes
  <2> QED BY <2>1, <2>2
<1>23. ASSUME NEW r \in CR, RecordConflict(r) PROVE TypeInv'
  <2>1. CASE tries[r] > 1
    <3>1. /\ Snapshot(r).source \in Version \union {Absent}
          /\ (r \notin FromRef => Snapshot(r).source \in Version)
          /\ Snapshot(r).deleting \in BOOLEAN
      BY DEF Snapshot, ServerTypes
    <3>2. /\ copy' = [copy EXCEPT ![r].source = Snapshot(r).source,
                                  ![r].deleting = Snapshot(r).deleting]
          /\ pc' = pc
      BY <1>23, <2>1 DEF RecordConflict
    <3>3. copy' \in [CR -> Copies]
      BY <3>1, <3>2, MetadataTypes DEF MemoryTypes
    <3>4. SourceIsHeld'
      BY <3>1, <3>2 DEF SourceIsHeld, MemoryTypes
    <3>5. tries' \in [CR -> 0..StatusSteps] /\ stale' \in [CR -> BOOLEAN]
      <4>1. /\ tries' = [tries EXCEPT ![r] = tries[r] - 1]
            /\ stale' = [stale EXCEPT ![r] = FALSE]
        BY <1>23, <2>1 DEF RecordConflict
      <4>2. tries[r] - 1 \in 0..StatusSteps
        BY <2>1, ResourceAssumption DEF MemoryTypes
      <4> QED BY <4>1, <4>2 DEF MemoryTypes
    <3> QED BY <1>23, <2>1, <3>2, <3>3, <3>4, <3>5
            DEF RecordConflict, MemoryTypes, ServerTypes, server, clone
  <2>2. CASE ~ (tries[r] > 1)
    BY <1>23, <2>2, ForgetTypes DEF RecordConflict, FailInConflict, ServerTypes, server
  <2> QED BY <2>1, <2>2
<1>24. ASSUME OtherPush PROVE TypeInv'
  <2> DEFINE c == [by |-> Other, hash |-> NoHash, tree |-> Tree(branch)]
  <2>1. c \in Commit
    BY HistoryTypes DEF Commit, ServerTypes
  <2>2. Append(branch, c) \in Seq(Commit)
    BY <2>1, AppendProperties DEF ServerTypes
  <2>3. branch' = Append(branch, c)
    BY <1>24 DEF OtherPush
  <2> HIDE DEF c
  <2>4. ServerTypes'
    BY <1>24, <2>2, <2>3 DEF OtherPush, ServerTypes, server
  <2>5. MemoryTypes' /\ SourceIsHeld'
    BY <1>24 DEF OtherPush, MemoryTypes, SourceIsHeld, memory, clone
  <2> QED BY <2>4, <2>5
<1>25. ASSUME Crash PROVE TypeInv'
  <2>1. ServerTypes'
    BY <1>25 DEF Crash, ServerTypes, server
  <2>2. NoCopy \in Copies /\ << >> \in Seq(Commit) /\ "idle" \in PC
    BY EmptySeq DEF NoCopy, Copies, Ready, PC
  <2>3. MemoryTypes' /\ SourceIsHeld'
    BY <1>25, <2>2, ResourceAssumption DEF Crash, MemoryTypes, SourceIsHeld, Git!EmptyTree
  <2> QED BY <2>1, <2>3
<1>26. CASE UNCHANGED vars
  BY <1>26 DEF vars, ServerTypes, MemoryTypes, SourceIsHeld
<1>27. ASSUME NEW r \in CR, ObserveDeleting(r) PROVE TypeInv'
  <2>1. Updated(copy, copy')
    <3>1. copy' = [copy EXCEPT ![r].ready = "Deleting"] /\ copy \in [CR -> Copies]
      BY <1>27 DEF ObserveDeleting, MemoryTypes
    <3>2. "Deleting" \in Ready /\ << >> \in Seq(Commit)
      BY EmptySeq DEF Ready
    <3> QED BY <3>1, <3>2, CopyTypes
  <2>2. pc[r] # "idle" /\ Goto(r, "release") /\ "release" \in PC
    BY <1>27 DEF ObserveDeleting, PC
  <2>3. copy' \in [CR -> Copies] /\ pc' \in [CR -> PC] /\ SourceIsHeld'
    BY <2>1, <2>2, ContinueTypes
  <2> QED BY <1>27, <2>3 DEF ObserveDeleting, MemoryTypes, ServerTypes, server, clone
<1>28. ASSUME NEW r \in CR, Delete(r) PROVE TypeInv'
  <2>1. /\ target' \in [CR -> Seq(Commit)] /\ ready' \in [CR -> Ready]
        /\ synced' \in [CR -> {"none", "ReconcileSuccess", "ReconcileError"}]
    <3>1. "Deleting" \in Ready
      BY DEF Ready
    <3> QED BY <1>28, <3>1, StatusTypes DEF Delete
  <2>2. MemoryTypes' /\ SourceIsHeld'
    BY <1>28, ForgetTypes DEF Delete
  <2> QED BY <1>28, <2>1, <2>2 DEF Delete, ServerTypes
<1>29. ASSUME NEW r \in CR, Release(r) PROVE TypeInv'
  <2>1. life' \in [CR -> {"present", "deleting", "gone"}]
    BY <1>29 DEF Release, ServerTypes
  <2>2. MemoryTypes' /\ SourceIsHeld'
    BY <1>29, ForgetTypes DEF Release
  <2> QED BY <1>29, <2>1, <2>2 DEF Release, ServerTypes
<1>30. ASSUME NEW r \in CR, RequestDeletion(r) PROVE TypeInv'
  <2>1. ServerTypes'
    BY <1>30 DEF RequestDeletion, ServerTypes
  <2>2. MemoryTypes' /\ SourceIsHeld'
    BY <1>30 DEF RequestDeletion, MemoryTypes, SourceIsHeld, clone
  <2> QED BY <2>1, <2>2
<1>31. ASSUME NEW r \in CR, Recreate(r) PROVE TypeInv'
  <2>1. source' \in [CR -> Version] /\ life' \in [CR -> {"present", "deleting", "gone"}]
    BY <1>31 DEF Recreate, ServerTypes
  <2>2. /\ target' \in [CR -> Seq(Commit)] /\ name' \in [CR -> Seq(Commit)]
        /\ ready' \in [CR -> Ready]
    <3>1. << >> \in Seq(Commit) /\ "none" \in Ready
      BY EmptySeq DEF Ready
    <3> QED BY <1>31, <3>1, WriteTypes DEF Recreate
  <2>3. /\ synced' \in [CR -> {"none", "ReconcileSuccess", "ReconcileError"}]
        /\ outcome' \in [CR -> {"none", "pending", "succeeded", "failed"}]
    BY <1>31 DEF Recreate, ServerTypes
  <2>4. MemoryTypes' /\ SourceIsHeld'
    BY <1>31 DEF Recreate, MemoryTypes, SourceIsHeld, memory, clone
  <2> QED BY <1>31, <2>1, <2>2, <2>3, <2>4 DEF Recreate, ServerTypes
<1>32. ASSUME NEW r \in CR, ObserveMisses(r) PROVE TypeInv'
  <2>1. branch \in Seq(Commit) /\ copy \in [CR -> Copies] /\ "Available" \in Ready
    BY DEF ServerTypes, MemoryTypes, Ready
  <2>2. pc[r] # "idle" /\ "update" \in PC /\ "report" \in PC
    BY <1>32 DEF ObserveMisses, Observing, PC
  <2>3. Updated(copy, copy') /\ \E l \in PC : Goto(r, l)
    <3>1. CASE /\ copy' = [copy EXCEPT ![r].name = Adopted(r), ![r].ready = "Available"]
               /\ Then(r, "update")
      <4>1. Updated(copy, copy')
        BY <2>1, <3>1, AdoptedType, CopyTypes
      <4> QED BY <2>2, <3>1, <4>1, ThenGoes
    <3>2. ASSUME NEW n \in 1..Len(branch), Then(r, "report"),
                 copy' = [copy EXCEPT ![r].name = SubSeq(branch, 1, n),
                                      ![r].target = SubSeq(branch, 1, n),
                                      ![r].ready = "Available"]
          PROVE  Updated(copy, copy') /\ \E l \in PC : Goto(r, l)
      <4> DEFINE found == SubSeq(branch, 1, n)
      <4>1. found \in Seq(Commit)
        BY <2>1, PrefixSubSeq
      <4>2. copy' = [copy EXCEPT ![r].name = found, ![r].target = found, ![r].ready = "Available"]
        BY <3>2
      <4> HIDE DEF found
      <4>3. Updated(copy, copy')
        BY <2>1, <4>1, <4>2, CopyTypes
      <4> QED BY <2>2, <3>2, <4>3, ThenGoes
    <3> QED BY <1>32, <2>1, <3>1, <3>2, MissesFinds
  <2>4. copy' \in [CR -> Copies] /\ pc' \in [CR -> PC] /\ SourceIsHeld'
    BY <2>2, <2>3, ContinueTypes
  <2> QED BY <1>32, <2>4 DEF ObserveMisses, MemoryTypes, ServerTypes, server, clone
<1>33. ASSUME NEW r \in CR, CommitLost(r) PROVE TypeInv'
  <2>1. local[r] \in Seq(Commit)
    BY DEF MemoryTypes
  <2>2. Updated(copy, copy')
    BY <1>33, <2>1, RecordTypes DEF CommitLost, MemoryTypes
  <2>3. pc[r] # "idle" /\ Goto(r, "record") /\ "record" \in PC
    BY <1>33 DEF CommitLost, PC
  <2>4. copy' \in [CR -> Copies] /\ pc' \in [CR -> PC] /\ SourceIsHeld'
    BY <2>2, <2>3, ContinueTypes
  <2>5. tries' \in [CR -> 0..StatusSteps]
    BY <1>33, ResourceAssumption DEF CommitLost, MemoryTypes
  <2> QED BY <1>33, <2>4, <2>5 DEF CommitLost, MemoryTypes, ServerTypes, server, clone
<1> QED
  BY <1>1, <1>2, <1>3, <1>4, <1>5, <1>6, <1>7, <1>8, <1>9, <1>10, <1>11, <1>12, <1>13,
     <1>14, <1>15, <1>16, <1>17, <1>18, <1>19, <1>20, <1>21, <1>22, <1>23, <1>24, <1>25, <1>26,
     <1>27, <1>28, <1>29, <1>30, <1>31, <1>32, <1>33
     DEF Next, Reconcile, Observe, Fault, Lifecycle

\* The history variable has its type.
LostType == lost \subseteq CR

\* Only resources lose a commit.
LEMMA StepLoses ==
  ASSUME LostType, [Next]_vars
  PROVE  LostType'
<1> USE DEF LostType
<1>1. ASSUME NEW r \in CR, CommitLost(r) \/ Push(r) \/ PushReplyLost(r)
      PROVE  LostType'
  BY <1>1 DEF CommitLost, Push, PushReplyLost
<1>2. ASSUME NEW r \in CR,
             \/ Get(r) \/ Observe(r) \/ Report(r) \/ Delete(r) \/ Release(r) \/ BeginCreate(r)
             \/ BeginUpdate(r) \/ Clone(r) \/ Write(r) \/ MakeCommit(r) \/ PushContended(r)
             \/ RecordStatus(r) \/ RecordConflict(r) \/ Done(r)
      PROVE  lost' = lost
  BY <1>2 DEF Get, Observe, ObserveDeleting, ObserveDrifted, ObserveFound, ObserveAbsent,
              ObserveRecorded, Report, Delete, Release, BeginCreate, BeginUpdate, Clone, Write,
              MakeCommit, PushContended, RecordStatus, RecordConflict, Done
<1>3. ASSUME NEW r \in CR,
             \/ ObserveFails(r) \/ ObserveMisses(r) \/ SyncFails(r) \/ RecordFails(r)
             \/ Edit(r) \/ Touch(r) \/ ClearPending(r) \/ RequestDeletion(r) \/ Recreate(r)
      PROVE  lost' = lost
  BY <1>3 DEF ObserveFails, ObserveMisses, SyncFails, RecordFails, Edit, Touch, ClearPending,
              RequestDeletion, Recreate
<1>4. CASE OtherPush \/ Crash \/ UNCHANGED vars
  BY <1>4 DEF OtherPush, Crash, vars
<1> QED BY <1>1, <1>2, <1>3, <1>4 DEF Next, Reconcile, Fault, Lifecycle

\* In every reachable state every variable has its type.
THEOREM TypeCorrect == Spec => []TypeOK
<1>1. Init => TypeInv /\ LostType
  BY InitTypes DEF Init, LostType
<1>2. TypeInv /\ LostType /\ [Next]_vars => TypeInv' /\ LostType'
  BY StepTypes, StepLoses
<1>3. TypeInv /\ LostType => TypeOK
  BY DEF TypeInv, TypeOK, LostType
<1> QED BY <1>1, <1>2, <1>3, PTL DEF Spec

----------------------------------------------------------------------------------
(* The pushes, seen from the repository.                                   *)

Publication(r, base, written, hashed) ==
  Append(base, [by |-> r, hash |-> hashed,
                tree |-> [Git!Tree(base) EXCEPT ![FileOf[r]] = written]])

(* What a sync has made of its clone, at each of its places.               *)
Shape(r) ==
  /\ pc[r] \in {"write", "commit"} => local[r] = Git!Base(cloned[r])
  /\ pc[r] = "commit" => \/ work[r] = Tree(local[r])
                         \/ \E v \in Version :
                              work[r] = [Tree(local[r]) EXCEPT ![FileOf[r]] = v]
  /\ pc[r] = "push" => \E written, hashed \in Version :
                         local[r] = Publication(r, Git!Base(cloned[r]), written, hashed)

SyncInv == \A r \in CR : Shape(r)

\* Resource q's sync is where it was, or is none that Shape speaks of.
Untouched(q) == \/ pc'[q] \notin {"write", "commit", "push"}
                \/ /\ pc'[q] = pc[q] /\ cloned'[q] = cloned[q]
                   /\ local'[q] = local[q] /\ work'[q] = work[q]

\* A sync nobody has touched keeps its shape.
LEMMA ShapeKept ==
  ASSUME NEW q \in CR, Shape(q), Untouched(q)
  PROVE  Shape(q)'
BY DEF Shape, Untouched

\* Every step keeps every sync in shape.
LEMMA StepShapes ==
  ASSUME TypeInv, SyncInv, [Next]_vars
  PROVE  SyncInv'
<1> SUFFICES ASSUME NEW q \in CR
             PROVE  Shape(q)'
  BY DEF SyncInv
<1> USE DEF TypeInv, TypeOK, MemoryTypes
<1>0. Shape(q)
  BY DEF SyncInv
<1>1. ASSUME NEW r \in CR, Get(r) PROVE Shape(q)'
  BY <1>0, <1>1, ShapeKept DEF Get, Untouched, Goto, Forget, server, memory, clone
<1>2. ASSUME NEW r \in CR, ObserveDrifted(r) PROVE Shape(q)'
  <2>1. pc'[q] \notin {"write", "commit", "push"} \/ pc'[q] = pc[q]
    BY <1>2 DEF ObserveDrifted, Observing, Then, Goto
  <2> QED BY <1>0, <1>2, <2>1, ShapeKept DEF ObserveDrifted, Untouched, clone
<1>3. ASSUME NEW r \in CR, ObserveFound(r) PROVE Shape(q)'
  <2>1. pc'[q] \notin {"write", "commit", "push"} \/ pc'[q] = pc[q]
    BY <1>3 DEF ObserveFound, Observing, Then, Goto
  <2> QED BY <1>0, <1>3, <2>1, ShapeKept DEF ObserveFound, Untouched, clone
<1>4. ASSUME NEW r \in CR, ObserveAbsent(r) PROVE Shape(q)'
  <2>1. pc'[q] \notin {"write", "commit", "push"} \/ pc'[q] = pc[q]
    BY <1>4 DEF ObserveAbsent, Observing, Then, Goto
  <2> QED BY <1>0, <1>4, <2>1, ShapeKept DEF ObserveAbsent, Untouched, clone
<1>5. ASSUME NEW r \in CR, ObserveRecorded(r) PROVE Shape(q)'
  <2>1. pc'[q] \notin {"write", "commit", "push"} \/ pc'[q] = pc[q]
    BY <1>5 DEF ObserveRecorded, Observing, Then, Goto
  <2> QED BY <1>0, <1>5, <2>1, ShapeKept DEF ObserveRecorded, Untouched, clone
<1>6. ASSUME NEW r \in CR, ObserveFails(r) PROVE Shape(q)'
  BY <1>0, <1>6, ShapeKept DEF ObserveFails, Untouched, Goto, Forget, server, memory, clone
<1>7. ASSUME NEW r \in CR, Report(r) PROVE Shape(q)'
  BY <1>0, <1>7, ShapeKept DEF Report, Untouched, Goto, Forget, server, memory, clone
<1>8. ASSUME NEW r \in CR, BeginCreate(r) PROVE Shape(q)'
  BY <1>0, <1>8, ShapeKept DEF BeginCreate, Untouched, Goto, Forget, server, memory, clone
<1>9. ASSUME NEW r \in CR, BeginUpdate(r) PROVE Shape(q)'
  BY <1>0, <1>9, ShapeKept DEF BeginUpdate, Untouched, Goto, Forget, server, memory, clone
<1>10. ASSUME NEW r \in CR, Clone(r) PROVE Shape(q)'
  <2>1. CASE q = r
    BY <1>10, <2>1 DEF Clone, Goto, Shape
  <2>2. CASE q # r
    BY <1>0, <1>10, <2>2, ShapeKept DEF Clone, Goto, Untouched
  <2> QED BY <2>1, <2>2
<1>11. ASSUME NEW r \in CR, Write(r) PROVE Shape(q)'
  <2>1. CASE q = r
    <3>1. ContentOf[Read(r)] \in Version /\ local[r] = Git!Base(cloned[r])
      BY <1>0, <1>11, <2>1, ReadType, ResourceAssumption DEF Write, Shape
    <3>2. /\ pc'[r] = "commit" /\ local' = local /\ cloned' = cloned
          /\ \/ work'[r] = Tree(local[r])
             \/ work'[r] = [Tree(local[r]) EXCEPT ![FileOf[r]] = ContentOf[Read(r)]]
      BY <1>11 DEF Write, Goto
    <3>3. Tree(local[r])' = Tree(local'[r])
      BY <3>2 DEF Tree, Git!Tree, Git!EmptyTree
    <3> QED BY <2>1, <3>1, <3>2, <3>3 DEF Shape
  <2>2. CASE q # r
    BY <1>0, <1>11, <2>2, ShapeKept DEF Write, Goto, Untouched
  <2> QED BY <2>1, <2>2
<1>12. ASSUME NEW r \in CR, SyncFails(r) PROVE Shape(q)'
  BY <1>0, <1>12, ShapeKept DEF SyncFails, Fail, Untouched, Goto, Forget, server, memory, clone
<1>13. ASSUME NEW r \in CR, MakeCommit(r) PROVE Shape(q)'
  <2>1. CASE q = r /\ work[r] # Tree(local[r])
    <3>1. PICK v \in Version : work[r] = [Tree(local[r]) EXCEPT ![FileOf[r]] = v]
      BY <1>0, <1>13, <2>1 DEF MakeCommit, Shape
    <3>2. Read(r) \in Version /\ local[r] = Git!Base(cloned[r])
      BY <1>0, <1>13, <2>1, ReadType DEF MakeCommit, Shape
    <3>3. local'[r] = Append(local[r], [by |-> r, hash |-> Read(r), tree |-> work[r]])
      BY <1>13, <2>1 DEF MakeCommit
    <3>4. pc'[r] = "push" /\ cloned' = cloned
      BY <1>13, <2>1 DEF MakeCommit, Goto
    <3>5. local'[r] = Publication(r, Git!Base(cloned[r]), v, Read(r))
      BY <3>1, <3>2, <3>3 DEF Publication, Tree
    <3>6. \E written, hashed \in Version :
            local'[r] = Publication(r, Git!Base(cloned'[r]), written, hashed)
      BY <3>2, <3>4, <3>5
    <3> QED BY <2>1, <3>4, <3>6 DEF Shape
  <2>2. CASE q # r \/ work[r] = Tree(local[r])
    BY <1>0, <1>13, <2>2, ShapeKept DEF MakeCommit, Goto, Untouched
  <2> QED BY <2>1, <2>2
<1>14. ASSUME NEW r \in CR, Push(r) PROVE Shape(q)'
  BY <1>0, <1>14, ShapeKept DEF Push, Untouched, Goto, Forget, server, memory, clone
<1>15. ASSUME NEW r \in CR, PushReplyLost(r) PROVE Shape(q)'
  BY <1>0, <1>15, ShapeKept DEF PushReplyLost, Fail, Untouched, Goto, Forget, server, memory, clone
<1>16. ASSUME NEW r \in CR, PushContended(r) PROVE Shape(q)'
  BY <1>0, <1>16, ShapeKept DEF PushContended, Fail, Untouched, Goto, Forget, server, memory, clone
<1>17. ASSUME NEW r \in CR, RecordStatus(r) PROVE Shape(q)'
  BY <1>0, <1>17, ShapeKept DEF RecordStatus, Untouched, Goto, Forget, server, memory, clone
<1>18. ASSUME NEW r \in CR, RecordConflict(r) PROVE Shape(q)'
  BY <1>0, <1>18, ShapeKept DEF RecordConflict, FailInConflict, Untouched, Goto, Forget,
     server, memory, clone
<1>19. ASSUME NEW r \in CR, RecordFails(r) PROVE Shape(q)'
  BY <1>0, <1>19, ShapeKept DEF RecordFails, Fail, Untouched, Goto, Forget, server, memory, clone
<1>20. ASSUME NEW r \in CR, Done(r) PROVE Shape(q)'
  BY <1>0, <1>20, ShapeKept DEF Done, Untouched, Goto, Forget, server, memory, clone
<1>21. ASSUME NEW r \in CR, Edit(r) PROVE Shape(q)'
  BY <1>0, <1>21, ShapeKept DEF Edit, Untouched, Goto, Forget, server, memory, clone
<1>22. ASSUME NEW r \in CR, Touch(r) PROVE Shape(q)'
  BY <1>0, <1>22, ShapeKept DEF Touch, Untouched, Goto, Forget, server, memory, clone
<1>23. ASSUME NEW r \in CR, ClearPending(r) PROVE Shape(q)'
  BY <1>0, <1>23, ShapeKept DEF ClearPending, Untouched, Goto, Forget, server, memory, clone
<1>24. ASSUME OtherPush PROVE Shape(q)'
  BY <1>0, <1>24, ShapeKept DEF OtherPush, Untouched, memory, clone
<1>25. ASSUME Crash PROVE Shape(q)'
  BY <1>0, <1>25, ShapeKept DEF Crash, Untouched, memory, clone
<1>26. CASE UNCHANGED vars
  BY <1>0, <1>26, ShapeKept DEF Untouched, vars
<1>27. ASSUME NEW r \in CR, ObserveDeleting(r) PROVE Shape(q)'
  BY <1>0, <1>27, ShapeKept DEF ObserveDeleting, Untouched, Goto, clone
<1>28. ASSUME NEW r \in CR, Delete(r) PROVE Shape(q)'
  BY <1>0, <1>28, ShapeKept DEF Delete, Untouched, Goto, Forget
<1>29. ASSUME NEW r \in CR, Release(r) PROVE Shape(q)'
  BY <1>0, <1>29, ShapeKept DEF Release, Untouched, Goto, Forget
<1>30. ASSUME NEW r \in CR, RequestDeletion(r) PROVE Shape(q)'
  BY <1>0, <1>30, ShapeKept DEF RequestDeletion, Untouched, clone
<1>31. ASSUME NEW r \in CR, Recreate(r) PROVE Shape(q)'
  BY <1>0, <1>31, ShapeKept DEF Recreate, Untouched, clone
<1>32. ASSUME NEW r \in CR, ObserveMisses(r) PROVE Shape(q)'
  <2>1. pc'[q] \notin {"write", "commit", "push"} \/ pc'[q] = pc[q]
    BY <1>32, MissesGoes DEF Goto
  <2> QED BY <1>0, <1>32, <2>1, ShapeKept DEF ObserveMisses, Untouched, clone
<1>33. ASSUME NEW r \in CR, CommitLost(r) PROVE Shape(q)'
  BY <1>0, <1>33, ShapeKept DEF CommitLost, Untouched, Goto, clone
<1> QED
  BY <1>1, <1>2, <1>3, <1>4, <1>5, <1>6, <1>7, <1>8, <1>9, <1>10, <1>11, <1>12, <1>13,
     <1>14, <1>15, <1>16, <1>17, <1>18, <1>19, <1>20, <1>21, <1>22, <1>23, <1>24, <1>25, <1>26,
     <1>27, <1>28, <1>29, <1>30, <1>31, <1>32, <1>33
     DEF Next, Reconcile, Observe, Fault, Lifecycle

(* Each step of a controller is, on the branch, one push or nothing.       *)
LEMMA StepPublishes ==
  ASSUME TypeInv, SyncInv, [Next]_vars
  PROVE  [Git!Next]_branch
<1>1. ASSUME NEW r \in CR, branch' = local[r], pc[r] = "push", branch = cloned[r]
      PROVE  Git!Publish(r)
  BY <1>1 DEF SyncInv, Shape, Publication, Git!Publish
<1>2. ASSUME NEW r \in CR, Push(r) \/ PushReplyLost(r)
      PROVE  Git!Publish(r)
  BY <1>1, <1>2 DEF Push, PushReplyLost
<1>3. CASE OtherPush
  BY <1>3 DEF OtherPush, Git!OtherPush, Git!Next, Tree
<1>4. ASSUME NEW r \in CR,
             \/ Get(r) \/ Observe(r) \/ Report(r) \/ BeginCreate(r) \/ BeginUpdate(r)
             \/ Clone(r) \/ Write(r) \/ MakeCommit(r) \/ PushContended(r)
             \/ RecordStatus(r) \/ RecordConflict(r) \/ Done(r)
             \/ ObserveFails(r) \/ ObserveMisses(r)
             \/ SyncFails(r) \/ CommitLost(r) \/ RecordFails(r)
             \/ Edit(r) \/ Touch(r) \/ ClearPending(r)
             \/ Delete(r) \/ Release(r) \/ RequestDeletion(r) \/ Recreate(r)
      PROVE  UNCHANGED branch
  BY <1>4 DEF Get, Observe, ObserveDeleting, ObserveDrifted, ObserveFound, ObserveAbsent, ObserveRecorded,
              Report, BeginCreate, BeginUpdate, Clone, Write, MakeCommit, PushContended,
              RecordStatus, RecordConflict, FailInConflict, Done, ObserveFails, ObserveMisses,
              SyncFails, CommitLost, RecordFails, Edit, Touch, ClearPending, Delete, Release, RequestDeletion,
              Recreate
<1>5. CASE Crash \/ UNCHANGED vars
  BY <1>5 DEF Crash, vars
<1> QED
  BY <1>2, <1>3, <1>4, <1>5 DEF Next, Reconcile, Fault, Lifecycle, Git!Next

\* No sync runs at first.
LEMMA InitShapes == Init => SyncInv
BY DEF Init, SyncInv, Shape

(* Seen from the repository, every push of every resource is one commit on *)
(* the branch as it then is, which changes the file of the resource and no *)
(* other: sync, its retry after a contended push, and the non-forced push. *)
THEOREM ImplementsPublishSpec == Spec => ImplementsPublish
<1>1. Init => TypeInv /\ SyncInv
  BY InitTypes, InitShapes
<1>2. TypeInv /\ SyncInv /\ [Next]_vars => TypeInv' /\ SyncInv'
  BY StepTypes, StepShapes
<1>3. Init => Git!Init
  BY DEF Init, Git!Init
<1>4. TypeInv /\ SyncInv /\ [Next]_vars => [Git!Next]_branch
  BY StepPublishes
<1> QED BY <1>1, <1>2, <1>3, <1>4, PTL DEF Spec, ImplementsPublish, Git!Spec

----------------------------------------------------------------------------------
(* What a status records.                                                  *)

\* The commits a resource names, on the server and in a reconcile's copy.
Records(r) == {target[r], name[r], copy[r].target, copy[r].name}

\* A branch that does not exist has no parent to start from.
Rooted == Git!Base(branch) = branch

RecordInv ==
  /\ Rooted
  /\ \A r \in CR : \A h \in Records(r) : IsPrefix(h, branch)
  /\ \A r \in CR : pc[r] \in {"write", "commit"} => IsPrefix(local[r], branch)

(* No step takes a commit off the branch.                                  *)
LEMMA BranchGrows ==
  ASSUME TypeInv, Rooted, [Git!Next]_branch
  PROVE  /\ Rooted'
         /\ \A h \in Seq(Commit) : IsPrefix(h, branch) => IsPrefix(h, branch')
<1>1. branch \in Seq(Commit)
  BY DEF TypeInv, TypeOK, ServerTypes
<1>2. CASE UNCHANGED branch
  BY <1>2 DEF Rooted, Git!Base
<1>3. ASSUME NEW c \in Commit, branch' = Append(branch, c)
      PROVE  Rooted' /\ \A h \in Seq(Commit) : IsPrefix(h, branch) => IsPrefix(h, branch')
  <2>1. branch' # << >>
    BY <1>1, <1>3, AppendProperties
  <2> QED BY <1>1, <1>3, <2>1, PrefixAppend DEF Rooted, Git!Base
<1>4. CASE Git!OtherPush
  <2>1. [by |-> Other, hash |-> NoHash, tree |-> Tree(branch)] \in Commit
    BY <1>1, HistoryTypes DEF Commit
  <2> QED BY <1>3, <1>4, <2>1 DEF Git!OtherPush, Tree
<1>5. ASSUME NEW r \in CR, Git!Publish(r)
      PROVE  Rooted' /\ \A h \in Seq(Commit) : IsPrefix(h, branch) => IsPrefix(h, branch')
  <2>1. PICK written, hashed \in Version :
          branch' = Publication(r, Git!Base(branch), written, hashed)
    BY <1>5 DEF Git!Publish, Publication
  <2>2. Tree(branch) \in [File -> Version \union {Absent}]
    BY <1>1, HistoryTypes
  <2>3. [by |-> r, hash |-> hashed,
         tree |-> [Tree(branch) EXCEPT ![FileOf[r]] = written]] \in Commit
    BY <2>2 DEF Commit
  <2> QED BY <1>3, <2>1, <2>3 DEF Publication, Rooted, Tree
<1> QED BY <1>2, <1>4, <1>5 DEF Git!Next

\* The commits a resource names are histories.
LEMMA RecordsTypes ==
  ASSUME TypeInv, NEW r \in CR
  PROVE  Records(r) \subseteq Seq(Commit) /\ << >> \in Seq(Commit)
BY HeldTypes, EmptySeq DEF Records, TypeInv, TypeOK, ServerTypes

(* A step that records nothing of its own.                                 *)
LEMMA RecordsKept ==
  ASSUME TypeInv, RecordInv, NEW q \in CR,
         \A h \in Seq(Commit) : IsPrefix(h, branch) => IsPrefix(h, branch'),
         Records(q)' \subseteq Records(q) \union {<< >>},
         pc'[q] \in {"write", "commit"} =>
           pc[q] \in {"write", "commit"} /\ local'[q] = local[q]
  PROVE  /\ \A h \in Records(q)' : IsPrefix(h, branch')
         /\ pc'[q] \in {"write", "commit"} => IsPrefix(local'[q], branch')
<1>1. branch \in Seq(Commit) /\ local[q] \in Seq(Commit)
  BY DEF TypeInv, TypeOK, ServerTypes, MemoryTypes
<1>2. IsPrefix(<< >>, branch)
  BY <1>1, PrefixSelf
<1> QED BY <1>1, <1>2, RecordsTypes DEF RecordInv

(* What a reconcile sets on its copy besides commits leaves those alone.   *)
LEMMA CommitsKept ==
  ASSUME copy \in [CR -> Copies], NEW r \in CR, NEW q \in CR,
         \/ copy' = [copy EXCEPT ![r] = NoCopy]
         \/ copy' = copy
         \/ copy' = [copy EXCEPT ![r].ready = "Creating"]
         \/ copy' = [copy EXCEPT ![r].ready = "Deleting"]
         \/ copy' = [copy EXCEPT ![r].source = Snapshot(r).source,
                                 ![r].deleting = Snapshot(r).deleting]
  PROVE  \/ copy'[q] = NoCopy
         \/ copy'[q].target = copy[q].target /\ copy'[q].name = copy[q].name
<1> DEFINE H == Seq(Commit)
<1>1. Copies = [source : Version \union {Absent}, target : H, name : H, ready : Ready,
                deleting : BOOLEAN]
  BY DEF Copies
<1> HIDE DEF H
<1>2. CASE copy' = [copy EXCEPT ![r] = NoCopy]
  BY <1>2
<1>3. CASE copy' = [copy EXCEPT ![r].ready = "Creating"]
  BY <1>1, <1>3
<1>4. CASE copy' = [copy EXCEPT ![r].ready = "Deleting"]
  BY <1>1, <1>4
<1>5. CASE copy' = [copy EXCEPT ![r].source = Snapshot(r).source,
                               ![r].deleting = Snapshot(r).deleting]
  BY <1>1, <1>5
<1> QED BY <1>2, <1>3, <1>4, <1>5

(* A commit the resource already names is adopted as the external name.    *)
LEMMA AdoptsNothingNew ==
  ASSUME copy \in [CR -> Copies], NEW r \in CR, NEW q \in CR, NEW h \in Records(r), NEW d,
         copy' = [copy EXCEPT ![r].name = h, ![r].ready = d], target' = target, name' = name
  PROVE  Records(q)' \subseteq Records(q) \union {<< >>}
<1> DEFINE H == Seq(Commit)
<1>1. Copies = [source : Version \union {Absent}, target : H, name : H, ready : Ready,
                deleting : BOOLEAN]
  BY DEF Copies
<1> HIDE DEF H
<1>2. copy'[q].target = copy[q].target /\ copy'[q].name = IF q = r THEN h ELSE copy[q].name
  BY <1>1
<1> QED BY <1>2 DEF Records

(* A reconcile that ends writes what its copy names, or nothing.           *)
LEMMA EndsWithItsCopy ==
  ASSUME TypeInv, NEW r \in CR, NEW q \in CR, NEW d, WriteStatus(r, d), Forget(r), name' = name
  PROVE  Records(q)' \subseteq Records(q) \union {<< >>}
<1>1. copy' = [copy EXCEPT ![r] = NoCopy] /\ copy \in [CR -> Copies]
  BY DEF Forget, TypeInv, TypeOK, MemoryTypes
<1>2. /\ target \in [CR -> Seq(Commit)]
      /\ target' = target \/ target' = [target EXCEPT ![r] = copy[r].target]
  BY DEF WriteStatus, TypeInv, TypeOK, ServerTypes
<1> QED BY <1>1, <1>2 DEF Records, NoCopy

\* Every step keeps what is recorded on the branch.
LEMMA StepRecords ==
  ASSUME TypeInv, SyncInv, RecordInv, [Next]_vars
  PROVE  RecordInv'
<1> DEFINE Good(q) == /\ \A h \in Records(q)' : IsPrefix(h, branch')
                      /\ pc'[q] \in {"write", "commit"} => IsPrefix(local'[q], branch')
<1>a. /\ Rooted'
      /\ \A h \in Seq(Commit) : IsPrefix(h, branch) => IsPrefix(h, branch')
  BY StepPublishes, BranchGrows DEF RecordInv
<1> SUFFICES ASSUME NEW q \in CR
             PROVE  Good(q)
  BY <1>a DEF RecordInv
<1>b. ASSUME Records(q)' \subseteq Records(q) \union {<< >>},
             pc'[q] \in {"write", "commit"} =>
               pc[q] \in {"write", "commit"} /\ local'[q] = local[q]
      PROVE  Good(q)
  BY <1>a, <1>b, RecordsKept
<1>c. branch \in Seq(Commit) /\ branch' \in Seq(Commit)
  BY StepTypes DEF TypeInv, TypeOK, ServerTypes
<1>d. \A h \in Records(q) : h \in Seq(Commit) /\ IsPrefix(h, branch')
  BY <1>a, RecordsTypes DEF RecordInv
<1> HIDE DEF Good
<1> USE DEF TypeInv, TypeOK, MemoryTypes, ServerTypes
<1>1. ASSUME NEW r \in CR, Get(r) PROVE Good(q)
  <2>1. Records(q)' \subseteq Records(q) \union {<< >>}
    BY <1>1 DEF Get, Snapshot, Records, Goto, Forget, NoCopy, server, memory, clone
  <2>2. pc'[q] \in {"write", "commit"} =>
          pc[q] \in {"write", "commit"} /\ local'[q] = local[q]
    BY <1>1 DEF Get, Snapshot, Goto, Forget, NoCopy, server, memory, clone
  <2> QED BY <1>b, <2>1, <2>2
<1>2. ASSUME NEW r \in CR, ObserveDrifted(r) PROVE Good(q)
  <2>1. Records(q)' \subseteq Records(q) \union {<< >>}
    <3>1. /\ copy' = [copy EXCEPT ![r].name = Adopted(r), ![r].ready = "Available"]
          /\ target' = target /\ name' = name
      BY <1>2 DEF ObserveDrifted, server
    <3>2. Adopted(r) \in Records(r)
      BY DEF Adopted, Records
    <3> QED BY <3>1, <3>2, AdoptsNothingNew
  <2>2. pc'[q] \in {"write", "commit"} =>
          pc[q] \in {"write", "commit"} /\ local'[q] = local[q]
    BY <1>2 DEF ObserveDrifted, Observing, Then, Goto, clone
  <2> QED BY <1>b, <2>1, <2>2
<1>3. ASSUME NEW r \in CR, ObserveAbsent(r) PROVE Good(q)
  <2>1. Records(q)' \subseteq Records(q) \union {<< >>}
    BY <1>3 DEF ObserveAbsent, Records, Goto, Forget, NoCopy, server, memory, clone
  <2>2. pc'[q] \in {"write", "commit"} =>
          pc[q] \in {"write", "commit"} /\ local'[q] = local[q]
    BY <1>3 DEF ObserveAbsent, Observing, Goto, clone
  <2> QED BY <1>b, <2>1, <2>2
<1>4. ASSUME NEW r \in CR, ObserveRecorded(r) PROVE Good(q)
  <2>1. Records(q)' \subseteq Records(q) \union {<< >>}
    <3>1. /\ copy' = [copy EXCEPT ![r].name = Adopted(r), ![r].ready = "Available"]
          /\ target' = target /\ name' = name
      BY <1>4 DEF ObserveRecorded, server
    <3>2. Adopted(r) \in Records(r)
      BY DEF Adopted, Records
    <3> QED BY <3>1, <3>2, AdoptsNothingNew
  <2>2. pc'[q] \in {"write", "commit"} =>
          pc[q] \in {"write", "commit"} /\ local'[q] = local[q]
    BY <1>4 DEF ObserveRecorded, Observing, Then, Goto, clone
  <2> QED BY <1>b, <2>1, <2>2
<1>5. ASSUME NEW r \in CR, ObserveFails(r) PROVE Good(q)
  <2>1. Records(q)' \subseteq Records(q) \union {<< >>}
    BY <1>5 DEF ObserveFails, Records, Goto, Forget, NoCopy, server, memory, clone
  <2>2. pc'[q] \in {"write", "commit"} =>
          pc[q] \in {"write", "commit"} /\ local'[q] = local[q]
    BY <1>5 DEF ObserveFails, Goto, Forget, NoCopy, server, memory, clone
  <2> QED BY <1>b, <2>1, <2>2
<1>6. ASSUME NEW r \in CR, Report(r) PROVE Good(q)
  <2>1. Records(q)' \subseteq Records(q) \union {<< >>}
    BY <1>6, EndsWithItsCopy DEF Report
  <2>2. pc'[q] \in {"write", "commit"} =>
          pc[q] \in {"write", "commit"} /\ local'[q] = local[q]
    BY <1>6 DEF Report, Goto, Forget, NoCopy, server, memory, clone
  <2> QED BY <1>b, <2>1, <2>2
<1>7. ASSUME NEW r \in CR, Write(r) PROVE Good(q)
  <2>1. Records(q)' \subseteq Records(q) \union {<< >>}
    BY <1>7 DEF Write, Records, Goto, Forget, NoCopy, server, memory, clone
  <2>2. pc'[q] \in {"write", "commit"} =>
          pc[q] \in {"write", "commit"} /\ local'[q] = local[q]
    BY <1>7 DEF Write, Goto, Forget, NoCopy, server, memory, clone
  <2> QED BY <1>b, <2>1, <2>2
<1>8. ASSUME NEW r \in CR, SyncFails(r) PROVE Good(q)
  <2>1. Records(q)' \subseteq Records(q) \union {<< >>}
    BY <1>8 DEF SyncFails, Fail, Records, Goto, Forget, NoCopy, server, memory, clone
  <2>2. pc'[q] \in {"write", "commit"} =>
          pc[q] \in {"write", "commit"} /\ local'[q] = local[q]
    BY <1>8 DEF SyncFails, Fail, Goto, Forget, NoCopy, server, memory, clone
  <2> QED BY <1>b, <2>1, <2>2
<1>9. ASSUME NEW r \in CR, PushReplyLost(r) PROVE Good(q)
  <2>1. Records(q)' \subseteq Records(q) \union {<< >>}
    BY <1>9 DEF PushReplyLost, Fail, Records, Goto, Forget, NoCopy, server, memory, clone
  <2>2. pc'[q] \in {"write", "commit"} =>
          pc[q] \in {"write", "commit"} /\ local'[q] = local[q]
    BY <1>9 DEF PushReplyLost, Fail, Goto, Forget, NoCopy, server, memory, clone
  <2> QED BY <1>b, <2>1, <2>2
<1>10. ASSUME NEW r \in CR, PushContended(r) PROVE Good(q)
  <2>1. Records(q)' \subseteq Records(q) \union {<< >>}
    <3>1. CASE attempt[r] < PushSteps
      BY <1>10, <3>1 DEF PushContended, Records, server
    <3>2. CASE ~ (attempt[r] < PushSteps)
      <4>1. Fail(r)
        BY <1>10, <3>2 DEF PushContended
      <4> QED BY <4>1 DEF Fail, Records, Forget, NoCopy
    <3> QED BY <3>1, <3>2
  <2>2. pc'[q] \in {"write", "commit"} =>
          pc[q] \in {"write", "commit"} /\ local'[q] = local[q]
    BY <1>10 DEF PushContended, Fail, Goto, Forget, NoCopy, server, memory, clone
  <2> QED BY <1>b, <2>1, <2>2
<1>11. ASSUME NEW r \in CR, RecordStatus(r) PROVE Good(q)
  <2>1. Records(q)' \subseteq Records(q) \union {<< >>}
    BY <1>11 DEF RecordStatus, Records, Goto, Forget, NoCopy, server, memory, clone
  <2>2. pc'[q] \in {"write", "commit"} =>
          pc[q] \in {"write", "commit"} /\ local'[q] = local[q]
    BY <1>11 DEF RecordStatus, Goto, Forget, NoCopy, server, memory, clone
  <2> QED BY <1>b, <2>1, <2>2
<1>12. ASSUME NEW r \in CR, RecordFails(r) PROVE Good(q)
  <2>1. Records(q)' \subseteq Records(q) \union {<< >>}
    BY <1>12 DEF RecordFails, Fail, Records, Goto, Forget, NoCopy, server, memory, clone
  <2>2. pc'[q] \in {"write", "commit"} =>
          pc[q] \in {"write", "commit"} /\ local'[q] = local[q]
    BY <1>12 DEF RecordFails, Fail, Goto, Forget, NoCopy, server, memory, clone
  <2> QED BY <1>b, <2>1, <2>2
<1>13. ASSUME NEW r \in CR, Done(r) PROVE Good(q)
  <2>1. Records(q)' \subseteq Records(q) \union {<< >>}
    BY <1>13 DEF Done, Records, Goto, Forget, NoCopy, server, memory, clone
  <2>2. pc'[q] \in {"write", "commit"} =>
          pc[q] \in {"write", "commit"} /\ local'[q] = local[q]
    BY <1>13 DEF Done, Goto, Forget, NoCopy, server, memory, clone
  <2> QED BY <1>b, <2>1, <2>2
<1>14. ASSUME NEW r \in CR, Edit(r) PROVE Good(q)
  <2>1. Records(q)' \subseteq Records(q) \union {<< >>}
    BY <1>14 DEF Edit, Records, Goto, Forget, NoCopy, server, memory, clone
  <2>2. pc'[q] \in {"write", "commit"} =>
          pc[q] \in {"write", "commit"} /\ local'[q] = local[q]
    BY <1>14 DEF Edit, Goto, Forget, NoCopy, server, memory, clone
  <2> QED BY <1>b, <2>1, <2>2
<1>15. ASSUME NEW r \in CR, Touch(r) PROVE Good(q)
  <2>1. Records(q)' \subseteq Records(q) \union {<< >>}
    BY <1>15 DEF Touch, Records, Goto, Forget, NoCopy, server, memory, clone
  <2>2. pc'[q] \in {"write", "commit"} =>
          pc[q] \in {"write", "commit"} /\ local'[q] = local[q]
    BY <1>15 DEF Touch, Goto, Forget, NoCopy, server, memory, clone
  <2> QED BY <1>b, <2>1, <2>2
<1>16. ASSUME NEW r \in CR, ClearPending(r) PROVE Good(q)
  <2>1. Records(q)' \subseteq Records(q) \union {<< >>}
    BY <1>16 DEF ClearPending, Records, Goto, Forget, NoCopy, server, memory, clone
  <2>2. pc'[q] \in {"write", "commit"} =>
          pc[q] \in {"write", "commit"} /\ local'[q] = local[q]
    BY <1>16 DEF ClearPending, Goto, Forget, NoCopy, server, memory, clone
  <2> QED BY <1>b, <2>1, <2>2
<1>17. ASSUME NEW r \in CR, BeginCreate(r) PROVE Good(q)
  <2>1. \/ copy'[q] = NoCopy
        \/ copy'[q].target = copy[q].target /\ copy'[q].name = copy[q].name
    <3>1. \/ copy' = [copy EXCEPT ![r] = NoCopy]
          \/ copy' = copy
          \/ copy' = [copy EXCEPT ![r].ready = "Creating"]
      BY <1>17 DEF BeginCreate, Forget
    <3>2. copy \in [CR -> Copies]
      OBVIOUS
    <3> QED BY <3>1, <3>2, CommitsKept
  <2>2. target' = target /\ name' = name
    BY <1>17 DEF BeginCreate, server
  <2>3. Records(q)' \subseteq Records(q) \union {<< >>}
    BY <2>1, <2>2 DEF Records, NoCopy
  <2>4. pc'[q] \in {"write", "commit"} =>
          pc[q] \in {"write", "commit"} /\ local'[q] = local[q]
    BY <1>17 DEF BeginCreate, Goto, Forget, NoCopy, server, memory, clone
  <2> QED BY <1>b, <2>3, <2>4
<1>18. ASSUME NEW r \in CR, BeginUpdate(r) PROVE Good(q)
  <2>1. \/ copy'[q] = NoCopy
        \/ copy'[q].target = copy[q].target /\ copy'[q].name = copy[q].name
    <3>1. \/ copy' = [copy EXCEPT ![r] = NoCopy]
          \/ copy' = copy
          \/ copy' = [copy EXCEPT ![r].ready = "Creating"]
      BY <1>18 DEF BeginUpdate, Forget
    <3>2. copy \in [CR -> Copies]
      OBVIOUS
    <3> QED BY <3>1, <3>2, CommitsKept
  <2>2. target' = target /\ name' = name
    BY <1>18 DEF BeginUpdate, server
  <2>3. Records(q)' \subseteq Records(q) \union {<< >>}
    BY <2>1, <2>2 DEF Records, NoCopy
  <2>4. pc'[q] \in {"write", "commit"} =>
          pc[q] \in {"write", "commit"} /\ local'[q] = local[q]
    BY <1>18 DEF BeginUpdate, Goto, Forget, NoCopy, server, memory, clone
  <2> QED BY <1>b, <2>3, <2>4
<1>19. ASSUME NEW r \in CR, RecordConflict(r) PROVE Good(q)
  <2>1. \/ copy'[q] = NoCopy
        \/ copy'[q].target = copy[q].target /\ copy'[q].name = copy[q].name
    <3>1. \/ copy' = [copy EXCEPT ![r] = NoCopy]
          \/ copy' = copy
          \/ copy' = [copy EXCEPT ![r].source = Snapshot(r).source,
                                  ![r].deleting = Snapshot(r).deleting]
      BY <1>19 DEF RecordConflict, FailInConflict, Forget
    <3>2. copy \in [CR -> Copies]
      OBVIOUS
    <3> QED BY <3>1, <3>2, CommitsKept
  <2>2. target' = target /\ name' = name
    BY <1>19 DEF RecordConflict, FailInConflict, server
  <2>3. Records(q)' \subseteq Records(q) \union {<< >>}
    BY <2>1, <2>2 DEF Records, NoCopy
  <2>4. pc'[q] \in {"write", "commit"} =>
          pc[q] \in {"write", "commit"} /\ local'[q] = local[q]
    BY <1>19 DEF RecordConflict, FailInConflict, Goto, Forget, NoCopy, server, memory, clone
  <2> QED BY <1>b, <2>3, <2>4
<1>20. ASSUME NEW r \in CR, Clone(r) PROVE Good(q)
  <2>1. Records(q)' = Records(q) /\ branch' = branch
    BY <1>20 DEF Clone, Records, server, memory
  <2>2. CASE q = r
    <3>1. local'[q] = branch'
      BY <1>20, <2>1, <2>2 DEF Clone, RecordInv, Rooted
    <3>2. IsPrefix(local'[q], branch')
      BY <1>c, <3>1, PrefixSelf
    <3> QED BY <1>d, <2>1, <3>2 DEF Good
  <2>3. CASE q # r
    BY <1>b, <1>20, <2>1, <2>3 DEF Clone, Goto
  <2> QED BY <2>2, <2>3
<1>21. ASSUME NEW r \in CR, ObserveFound(r) PROVE Good(q)
  <2> DEFINE S == SameSpec(branch, r, Read(r))
             found == SubSeq(branch, 1, Oldest(S))
  <2>1. S \subseteq 1..Len(branch) /\ S # {}
    BY <1>21 DEF ObserveFound, SameSpec
  <2>2. Oldest(S) \in S
    <3>1. S \subseteq Nat
      BY <1>c, <2>1
    <3> QED BY <2>1, <3>1, OldestIsMember, Zenon
  <2>3. IsPrefix(found, branch) /\ branch' = branch
    BY <1>c, <1>21, <2>1, <2>2, PrefixSubSeq DEF ObserveFound
  <2>4. copy' = [copy EXCEPT ![r].name = found, ![r].target = found, ![r].ready = "Available"]
    BY <1>21 DEF ObserveFound
  <2> HIDE DEF found, S
  <2>5. target' = target /\ name' = name
    BY <1>21 DEF ObserveFound, server
  <2>6. Records(q)' \subseteq Records(q) \union {found}
    BY <2>4, <2>5 DEF Records
  <2>7. pc'[q] \in {"write", "commit"} =>
          pc[q] \in {"write", "commit"} /\ local'[q] = local[q]
    BY <1>21 DEF ObserveFound, Observing, Then, Goto, clone
  <2> QED BY <1>d, <2>3, <2>6, <2>7 DEF Good, RecordInv
<1>22. ASSUME NEW r \in CR, MakeCommit(r) PROVE Good(q)
  <2>1. target' = target /\ name' = name
    BY <1>22 DEF MakeCommit, server
  <2>2. CASE q = r /\ work[r] = Tree(local[r])
    <3>1. copy' = [copy EXCEPT ![r].name = local[r], ![r].target = local[r]]
      BY <1>22, <2>2 DEF MakeCommit, SetRecord
    <3>2. Records(q)' \subseteq Records(q) \union {local[r]}
      BY <2>1, <3>1 DEF Records
    <3>3. IsPrefix(local[r], branch')
      BY <1>22 DEF MakeCommit, RecordInv
    <3>4. pc'[q] = "record"
      BY <1>22, <2>2 DEF MakeCommit, Goto
    <3> QED BY <1>d, <3>2, <3>3, <3>4 DEF Good
  <2>3. CASE q # r \/ work[r] # Tree(local[r])
    <3>1. copy'[q] = copy[q] /\ (pc'[q] = pc[q] \/ pc'[q] = "push")
      <4>1. CASE work[r] = Tree(local[r])
        <5>1. SetRecord(r, local[r]) /\ Goto(r, "record")
          BY <1>22, <4>1 DEF MakeCommit
        <5>2. q # r
          BY <2>3, <4>1
        <5> QED BY <5>1, <5>2 DEF SetRecord, Goto
      <4>2. CASE work[r] # Tree(local[r])
        BY <1>22, <4>2 DEF MakeCommit, Goto
      <4> QED BY <4>1, <4>2
    <3>2. Records(q)' = Records(q)
      BY <2>1, <3>1 DEF Records
    <3>3. pc'[q] = pc[q] => local'[q] = local[q]
      BY <1>22, <2>3 DEF MakeCommit, Goto
    <3>4. pc'[q] \in {"write", "commit"} => pc[q] \in {"write", "commit"} /\ local'[q] = local[q]
      BY <3>1, <3>3
    <3> QED BY <1>b, <3>2, <3>4
  <2> QED BY <2>2, <2>3
<1>23. ASSUME NEW r \in CR, Push(r) PROVE Good(q)
  <2>1. target' = target /\ name' = name
    BY <1>23 DEF Push, server
  <2>2. CASE q = r
    <3>1. copy' = [copy EXCEPT ![r].name = local[r], ![r].target = local[r]]
      BY <1>23, <2>2 DEF Push, SetRecord
    <3>2. Records(q)' \subseteq Records(q) \union {local[r]}
      BY <2>1, <3>1 DEF Records
    <3>3. IsPrefix(local[r], branch')
      BY <1>c, <1>23, PrefixSelf DEF Push
    <3>4. pc'[q] = "record"
      BY <1>23, <2>2 DEF Push, Goto
    <3> QED BY <1>d, <3>2, <3>3, <3>4 DEF Good
  <2>3. CASE q # r
    <3>1. copy'[q] = copy[q]
      BY <1>23, <2>3 DEF Push, SetRecord
    <3>2. Records(q)' = Records(q)
      BY <2>1, <3>1 DEF Records
    <3> QED BY <1>b, <1>23, <2>3, <3>2 DEF Push, Goto, clone
  <2> QED BY <2>2, <2>3
<1>24. ASSUME OtherPush PROVE Good(q)
  <2>1. Records(q)' = Records(q)
    BY <1>24 DEF OtherPush, Records, server, memory
  <2> QED BY <1>b, <1>24, <2>1 DEF OtherPush, clone
<1>25. ASSUME Crash PROVE Good(q)
  <2>1. Records(q)' \subseteq Records(q) \union {<< >>} /\ pc'[q] = "idle"
    BY <1>25 DEF Crash, Records, server, NoCopy
  <2> QED BY <1>b, <2>1
<1>26. CASE UNCHANGED vars
  BY <1>b, <1>26 DEF vars, Records
<1>27. ASSUME NEW r \in CR, ObserveDeleting(r) PROVE Good(q)
  <2>1. \/ copy'[q] = NoCopy
        \/ copy'[q].target = copy[q].target /\ copy'[q].name = copy[q].name
    <3>1. copy' = [copy EXCEPT ![r].ready = "Deleting"] /\ copy \in [CR -> Copies]
      BY <1>27 DEF ObserveDeleting
    <3> QED BY <3>1, CommitsKept
  <2>2. Records(q)' \subseteq Records(q) \union {<< >>}
    BY <1>27, <2>1 DEF ObserveDeleting, Records, NoCopy, server
  <2>3. pc'[q] \in {"write", "commit"} =>
          pc[q] \in {"write", "commit"} /\ local'[q] = local[q]
    BY <1>27 DEF ObserveDeleting, Goto, clone
  <2> QED BY <1>b, <2>2, <2>3
<1>28. ASSUME NEW r \in CR, Delete(r) PROVE Good(q)
  <2>1. Records(q)' \subseteq Records(q) \union {<< >>}
    BY <1>28, EndsWithItsCopy DEF Delete
  <2>2. pc'[q] \in {"write", "commit"} =>
          pc[q] \in {"write", "commit"} /\ local'[q] = local[q]
    BY <1>28 DEF Delete, Goto, Forget
  <2> QED BY <1>b, <2>1, <2>2
<1>29. ASSUME NEW r \in CR, Release(r) PROVE Good(q)
  <2>1. Records(q)' \subseteq Records(q) \union {<< >>}
    BY <1>29 DEF Release, Records, Forget, NoCopy
  <2>2. pc'[q] \in {"write", "commit"} =>
          pc[q] \in {"write", "commit"} /\ local'[q] = local[q]
    BY <1>29 DEF Release, Goto, Forget
  <2> QED BY <1>b, <2>1, <2>2
<1>30. ASSUME NEW r \in CR, RequestDeletion(r) PROVE Good(q)
  <2>1. Records(q)' = Records(q)
    BY <1>30 DEF RequestDeletion, Records
  <2> QED BY <1>b, <1>30, <2>1 DEF RequestDeletion, clone
<1>31. ASSUME NEW r \in CR, Recreate(r) PROVE Good(q)
  <2>1. Records(q)' \subseteq Records(q) \union {<< >>}
    BY <1>31 DEF Recreate, Records, memory
  <2> QED BY <1>b, <1>31, <2>1 DEF Recreate, clone
<1>32. ASSUME NEW r \in CR, ObserveMisses(r) PROVE Good(q)
  <2>1. target' = target /\ name' = name /\ branch' = branch
    BY <1>32 DEF ObserveMisses, server
  <2>2. pc'[q] \in {"write", "commit"} =>
          pc[q] \in {"write", "commit"} /\ local'[q] = local[q]
    <3>1. local' = local
      BY <1>32 DEF ObserveMisses, clone
    <3> QED BY <1>32, <3>1, MissesGoes DEF Goto
  <2>3. CASE copy' = [copy EXCEPT ![r].name = Adopted(r), ![r].ready = "Available"]
    <3>1. Adopted(r) \in Records(r)
      BY DEF Adopted, Records
    <3>2. Records(q)' \subseteq Records(q) \union {<< >>}
      BY <2>1, <2>3, <3>1, AdoptsNothingNew
    <3> QED BY <1>b, <2>2, <3>2
  <2>4. ASSUME NEW n \in 1..Len(branch),
               copy' = [copy EXCEPT ![r].name = SubSeq(branch, 1, n),
                                    ![r].target = SubSeq(branch, 1, n),
                                    ![r].ready = "Available"]
        PROVE  Good(q)
    <3> DEFINE found == SubSeq(branch, 1, n)
    <3>1. IsPrefix(found, branch')
      BY <1>c, <2>1, PrefixSubSeq
    <3>2. copy' = [copy EXCEPT ![r].name = found, ![r].target = found, ![r].ready = "Available"]
      BY <2>4
    <3> HIDE DEF found
    <3>3. Records(q)' \subseteq Records(q) \union {found}
      BY <2>1, <3>2 DEF Records
    <3> QED BY <1>d, <2>1, <2>2, <3>1, <3>3 DEF Good, RecordInv
  <2>5. \/ copy' = [copy EXCEPT ![r].name = Adopted(r), ![r].ready = "Available"]
        \/ \E n \in 1..Len(branch) :
             copy' = [copy EXCEPT ![r].name = SubSeq(branch, 1, n),
                                  ![r].target = SubSeq(branch, 1, n),
                                  ![r].ready = "Available"]
    BY <1>c, <1>32, MissesFinds, Zenon
  <2> QED BY <2>3, <2>4, <2>5, Zenon
<1>33. ASSUME NEW r \in CR, CommitLost(r) PROVE Good(q)
  <2>1. /\ target' = target /\ name' = name /\ branch' = branch /\ local' = local
        /\ copy' = [copy EXCEPT ![r].name = local[r], ![r].target = local[r]]
        /\ pc' = [pc EXCEPT ![r] = "record"]
    BY <1>33 DEF CommitLost, SetRecord, Goto, server, clone
  <2>2. CASE q = r
    <3>1. Records(q)' \subseteq Records(q) \union {local[r]}
      BY <2>1 DEF Records
    <3>2. IsPrefix(local[r], branch')
      BY <1>33, <2>1 DEF CommitLost, RecordInv
    <3> QED BY <1>d, <2>1, <2>2, <3>1, <3>2 DEF Good
  <2>3. CASE q # r
    <3>1. Records(q)' = Records(q)
      BY <2>1, <2>3 DEF Records
    <3> QED BY <1>b, <2>1, <2>3, <3>1
  <2> QED BY <2>2, <2>3
<1> QED
  BY <1>1, <1>2, <1>3, <1>4, <1>5, <1>6, <1>7, <1>8, <1>9, <1>10, <1>11, <1>12, <1>13,
     <1>14, <1>15, <1>16, <1>17, <1>18, <1>19, <1>20, <1>21, <1>22, <1>23, <1>24, <1>25, <1>26,
     <1>27, <1>28, <1>29, <1>30, <1>31, <1>32, <1>33
     DEF Next, Reconcile, Observe, Fault, Lifecycle

\* Nothing is recorded at first.
LEMMA InitRecords ==
  ASSUME CloneFrom = << >> \/ << >> \notin InitialBranches, Init
  PROVE  RecordInv
<1>1. branch \in Seq(Commit) /\ Rooted
  BY ResourceAssumption DEF Init, Rooted, Git!Base
<1>2. \A r \in CR : Records(r) = {<< >>} /\ pc[r] = "idle"
  BY DEF Init, Records, NoCopy
<1> QED BY <1>1, <1>2, PrefixSelf DEF RecordInv

(* Unless the target branch has to be made from another one, a recorded    *)
(* commit is in the target branch's history, whatever fails, crashes or    *)
(* races: pushes are made before they are recorded, a retry forgets what   *)
(* the lost attempt had committed.  (A branch made from another one and    *)
(* not pushed for want of changes is the exception, one of the findings.)  *)
THEOREM RecordsArePushed ==
  ASSUME CloneFrom = << >> \/ << >> \notin InitialBranches
  PROVE  Spec => []RecordedIsOnBranch
<1>1. Init => TypeInv /\ SyncInv /\ RecordInv
  BY InitTypes, InitShapes, InitRecords
<1>2. TypeInv /\ SyncInv /\ RecordInv /\ [Next]_vars => TypeInv' /\ SyncInv' /\ RecordInv'
  BY StepTypes, StepShapes, StepRecords
<1>3. RecordInv => RecordedIsOnBranch
  BY DEF RecordInv, Records, RecordedIsOnBranch
<1> QED BY <1>1, <1>2, <1>3, PTL DEF Spec
==================================================================================
