------------------------------ MODULE LocalResource ------------------------------
(***************************************************************************)
(* The LocalResource controller                                            *)
(* (internal/controllers/localresource/localresource.go): several          *)
(* LocalResources, one goroutine each, publish one file each to the same   *)
(* branch of the same repository.                                          *)
(*                                                                         *)
(* A reconcile reads the resource (Get), observes the target branch, and   *)
(* then reports, creates or updates.  Creating and updating is a sync:     *)
(* clone, write the source into the clone, commit, push, record the commit *)
(* on the status; a push that loses the race for the branch re-clones and  *)
(* starts over.  The runtime brackets a Create with annotations: one says  *)
(* it is pending, a later one how it ended.  A resource whose annotation   *)
(* stays pending is refused until a human removes it.  A deleted resource  *)
(* is released without anything being removed from the branch, and another *)
(* may then be created under its name.                                     *)
(*                                                                         *)
(* Abstracted: what a source holds is a version.  The spec hash of a       *)
(* footer is the version it was computed from (resources with the same     *)
(* file and version have the same hash, for the hash does not cover the    *)
(* resource's name); the content of a file is ContentOf the version it was *)
(* written from, for a change of a placeholder nobody uses, or of no more  *)
(* than the resourceVersion of a fromRef, is a change of the hash alone.   *)
(* A resourceVersion of the resource itself is modelled by what the API    *)
(* server does with it, refuse a write whose copy is stale.  Templating,   *)
(* file names, events and the management policies (all actions are         *)
(* allowed) are left out.                                                  *)
(***************************************************************************)
EXTENDS Naturals, FiniteSets, SequencesExt

CONSTANTS CR, Other, Version, Absent, NoHash, File, FileOf, CloneFrom, InitialBranches,
          InitialVersion,  \* what each source holds at first
          ContentOf,       \* the content of a version, named by one that has it
          Edits,           \* how a source may change: pairs of versions
          FromRef,         \* the resources whose source is another object (fromRef)
          Override,        \* the resources with spec.override
          SyncEnabled,     \* the resources Update may push for
          Deletable,       \* the resources that may be deleted
          PushSteps,       \* refContentionRetry.Steps
          StatusSteps,     \* retry.DefaultRetry.Steps
          \* Bounds of the model.
          MaxEdits, MaxTouches, MaxFaults, MaxCrashes, MaxOthers, MaxRecreations,
          MaxUpsets        \* of all of these together

Commit == [by : CR \union {Other}, hash : Version \union {NoHash},
           tree : [File -> Version \union {Absent}]]

ASSUME ResourceAssumption ==
          /\ Other \notin CR
          /\ Absent \notin Version
          /\ NoHash \notin Version
          /\ FileOf \in [CR -> File]
          /\ CloneFrom \in Seq(Commit)
          /\ InitialBranches \subseteq Seq(Commit)
          /\ InitialVersion \in [CR -> Version]
          /\ ContentOf \in [Version -> Version]
          /\ Edits \subseteq Version \X Version
          /\ FromRef \subseteq CR
          /\ Override \subseteq CR
          /\ SyncEnabled \subseteq CR
          /\ Deletable \subseteq CR
          /\ PushSteps \in Nat \ {0}
          /\ StatusSteps \in Nat \ {0}

VARIABLES
  branch,   \* the target branch on the git server
  \* On the API server, per resource:
  source,   \* what its source holds: the spec, or the object fromRef names
  target,   \* status.targetCommitId, << >> when empty
  name,     \* the external-name annotation, << >> when empty
  ready,    \* the reason of the Ready condition
  synced,   \* the reason of the Synced condition
  life,     \* present, deleting (its deletion was requested) or gone
  outcome,  \* the annotations around Create: none, pending, succeeded or failed
  \* In the provider's memory, per resource:
  pc,       \* where its reconcile is
  copy,     \* the object as the reconcile read it, and what it has set on it since
  stale,    \* the object has changed on the server since
  action,   \* create or update, which of them the sync runs for
  attempt,  \* attempts of the sync
  tries,    \* attempts of the status write
  cloned,   \* the target branch when the clone read it
  local,    \* the branch in the clone
  work,     \* the files of the clone's worktree
  \* How much of each bound is spent:
  spent,
  \* History, read by a property only: the resources of which the branch had no commit when
  \* an error took the commit of their sync, and that have not pushed since.
  lost

server == <<source, target, name, ready, synced, life, outcome>>
clone == <<cloned, local, work>>
memory == <<copy, stale, action, attempt, tries>>
vars == <<branch, source, target, name, ready, synced, life, outcome, pc, copy, stale, action,
          attempt, tries, cloned, local, work, spent, lost>>

----------------------------------------------------------------------------------
(* Histories and footers.                                                  *)

Git == INSTANCE PublishSpec

Tree(history) == Git!Tree(history)

\* The commits of a history whose footer names the resource.
Own(history, r) == {i \in 1..Len(history) : history[i].by = r}

\* Mutant: a hash that covers the object's own metadata never comes back.
SameSpecNever(history, r, v) == {}

\* The commits whose footer carries the spec hash of the resource, whoever made them.
SameSpec(history, r, v) == {i \in 1..Len(history) :
                              /\ history[i].by \in CR
                              /\ FileOf[history[i].by] = FileOf[r]
                              /\ history[i].hash = v}

\* The history walk goes from the tip to the root and keeps its last match.
Oldest(S) == CHOOSE i \in S : \A j \in S : i <= j

\* The content a read of the source returns now: fromRef is read from the server,
\* fromYaml and fromString from the reconcile's copy.
Read(r) == IF r \in FromRef THEN source[r] ELSE copy[r].source

----------------------------------------------------------------------------------
\* Where a sync is before it has pushed.
Sync == {"clone", "write", "commit", "push"}

Goto(r, l) == pc' = [pc EXCEPT ![r] = l]

\* The reconcile ends; what it had in memory is forgotten.
NoCopy == [source |-> Absent, target |-> << >>, name |-> << >>, ready |-> "none",
           deleting |-> FALSE]

Snapshot(r) == [source |-> IF r \in FromRef THEN Absent ELSE source[r],
                target |-> target[r], name |-> name[r], ready |-> ready[r],
                deleting |-> life[r] = "deleting"]

Spend(bound, max) == /\ spent[bound] < max
                     /\ spent["all"] < MaxUpsets
                     /\ spent' = [spent EXCEPT ![bound] = @ + 1, !["all"] = @ + 1]

Forget(r) == /\ copy' = [copy EXCEPT ![r] = NoCopy]
             /\ stale' = [stale EXCEPT ![r] = FALSE]
             /\ action' = [action EXCEPT ![r] = "none"]
             /\ attempt' = [attempt EXCEPT ![r] = 0]
             /\ tries' = [tries EXCEPT ![r] = 0]
             /\ cloned' = [cloned EXCEPT ![r] = << >>]
             /\ local' = [local EXCEPT ![r] = << >>]
             /\ work' = [work EXCEPT ![r] = Git!EmptyTree]
             /\ Goto(r, "idle")

Init == /\ branch \in InitialBranches
        /\ source = InitialVersion
        /\ target = [r \in CR |-> << >>]
        /\ name = [r \in CR |-> << >>]
        /\ ready = [r \in CR |-> "none"]
        /\ synced = [r \in CR |-> "none"]
        /\ life = [r \in CR |-> "present"]
        /\ outcome = [r \in CR |-> "none"]
        /\ pc = [r \in CR |-> "idle"]
        /\ copy = [r \in CR |-> NoCopy]
        /\ stale = [r \in CR |-> FALSE]
        /\ action = [r \in CR |-> "none"]
        /\ attempt = [r \in CR |-> 0]
        /\ tries = [r \in CR |-> 0]
        /\ cloned = [r \in CR |-> << >>]
        /\ local = [r \in CR |-> << >>]
        /\ work = [r \in CR |-> Git!EmptyTree]
        /\ lost = {}
        /\ spent = [b \in {"edits", "touches", "faults", "crashes", "others", "recreations", "all"} |-> 0]

----------------------------------------------------------------------------------
(* The runtime reads the resource; it refuses one whose create is pending. *)
Get(r) == /\ pc[r] = "idle"
          /\ life[r] # "gone"
          /\ outcome[r] # "pending"
          /\ copy' = [copy EXCEPT ![r] = Snapshot(r)]
          /\ Goto(r, "observe")
          /\ UNCHANGED <<branch, server, stale, action, attempt, tries, clone, spent, lost>>

(* Observe, a resource being deleted: nothing is removed from the target,  *)
(* so one that is already Deleting, or whose last reconcile failed, is     *)
(* released without a look at the branch.                                  *)
Releasable(r) == \/ copy[r].ready = "Deleting"
                 \/ copy[r].deleting /\ synced[r] = "ReconcileError"

ObserveDeleting(r) ==
  /\ pc[r] = "observe"
  /\ Releasable(r)
  /\ copy' = [copy EXCEPT ![r].ready = "Deleting"]
  /\ Goto(r, "release")
  /\ UNCHANGED <<branch, server, stale, action, attempt, tries, clone, spent, lost>>

Observing(r) == pc[r] = "observe" /\ ~Releasable(r)

\* The runtime hands a resource being deleted that exists to Delete, whatever else it needs.
Then(r, l) == Goto(r, IF copy[r].deleting THEN "delete" ELSE l)

(* Observe: the recorded commit becomes the external name, then one clone  *)
(* of the target branch decides, from the footers of its commits.          *)
Adopted(r) == IF copy[r].target # << >> THEN copy[r].target ELSE copy[r].name

\* Mutant: an older version on the branch counts as up to date.
ObserveDriftedReports(r) ==
  /\ Observing(r)
  /\ Own(branch, r) # {}
  /\ SameSpec(branch, r, Read(r)) = {}
  /\ copy' = [copy EXCEPT ![r].name = Adopted(r), ![r].ready = "Available"]
  /\ Then(r, "report")
  /\ UNCHANGED <<branch, server, stale, action, attempt, tries, clone, spent, lost>>

\* The branch holds this resource, but no commit of its current spec.
ObserveDrifted(r) ==
  /\ Observing(r)
  /\ Own(branch, r) # {}
  /\ SameSpec(branch, r, Read(r)) = {}
  /\ copy' = [copy EXCEPT ![r].name = Adopted(r), ![r].ready = "Available"]
  /\ Then(r, "update")
  /\ UNCHANGED <<branch, server, stale, action, attempt, tries, clone, spent, lost>>

\* The branch holds a commit of the current spec: that commit is what the resource is.
ObserveFound(r) ==
  /\ Observing(r)
  /\ Own(branch, r) # {}
  /\ SameSpec(branch, r, Read(r)) # {}
  /\ LET found == SubSeq(branch, 1, Oldest(SameSpec(branch, r, Read(r)))) IN
       copy' = [copy EXCEPT ![r].name = found, ![r].target = found, ![r].ready = "Available"]
  /\ Then(r, "report")
  /\ UNCHANGED <<branch, server, stale, action, attempt, tries, clone, spent, lost>>

\* Mutant: the external name alone decides whether the resource exists.
ObserveAbsentByName(r) ==
  /\ Observing(r)
  /\ Adopted(r) = << >>
  /\ copy' = [copy EXCEPT ![r].ready = "Unavailable"]
  /\ Goto(r, IF copy[r].deleting THEN "release" ELSE "create")
  /\ UNCHANGED <<branch, server, stale, action, attempt, tries, clone, spent, lost>>

\* No commit names the resource and none is recorded.
ObserveAbsent(r) ==
  /\ Observing(r)
  /\ Own(branch, r) = {}
  /\ Adopted(r) = << >>
  /\ copy' = [copy EXCEPT ![r].ready = "Unavailable"]
  /\ Goto(r, IF copy[r].deleting THEN "release" ELSE "create")
  /\ UNCHANGED <<branch, server, stale, action, attempt, tries, clone, spent, lost>>

\* No commit names the resource, but one is recorded: it is taken at its word.
ObserveRecorded(r) ==
  /\ Observing(r)
  /\ Own(branch, r) = {}
  /\ Adopted(r) # << >>
  /\ copy' = [copy EXCEPT ![r].name = Adopted(r), ![r].ready = "Available"]
  /\ Then(r, "report")
  /\ UNCHANGED <<branch, server, stale, action, attempt, tries, clone, spent, lost>>

(* The credentials or the target cannot be read: an error, and the runtime *)
(* reports NotObserved, or Deleting.                                       *)
ObserveFails(r) ==
  /\ Observing(r)
  /\ Spend("faults", MaxFaults)
  /\ IF stale[r]
       THEN UNCHANGED <<ready, synced>>
       ELSE /\ ready' = [ready EXCEPT ![r] = IF copy[r].deleting THEN "Deleting" ELSE "NotObserved"]
            /\ synced' = [synced EXCEPT ![r] = "ReconcileError"]
  /\ Forget(r)
  /\ UNCHANGED <<branch, source, target, name, life, outcome, lost>>

(* The hash is computed anew for each commit of the walk, and with it the  *)
(* object fromRef names is read: a commit for which that fails is none of  *)
(* the current spec, whatever its footer says.                             *)
ObserveMisses(r) ==
  /\ Observing(r)
  /\ r \in FromRef
  /\ Own(branch, r) # {}
  /\ Spend("faults", MaxFaults)
  /\ \E seen \in SUBSET SameSpec(branch, r, Read(r)) :
       \/ /\ seen = {}
          /\ copy' = [copy EXCEPT ![r].name = Adopted(r), ![r].ready = "Available"]
          /\ Then(r, "update")
       \/ /\ seen # {}
          /\ LET found == SubSeq(branch, 1, Oldest(seen)) IN
               copy' = [copy EXCEPT ![r].name = found, ![r].target = found,
                                    ![r].ready = "Available"]
          /\ Then(r, "report")
  /\ UNCHANGED <<branch, server, stale, action, attempt, tries, clone, lost>>

Observe(r) == \/ ObserveDeleting(r) \/ ObserveDrifted(r) \/ ObserveFound(r)
              \/ ObserveAbsent(r) \/ ObserveRecorded(r)

(* The runtime ends a reconcile with a write of its copy's status, which   *)
(* the API server refuses when the copy is stale.                          *)
WriteStatus(r, reason) ==
  IF stale[r] THEN UNCHANGED <<target, ready, synced>>
  ELSE /\ target' = [target EXCEPT ![r] = copy[r].target]
       /\ ready' = [ready EXCEPT ![r] = reason]
       /\ synced' = [synced EXCEPT ![r] = "ReconcileSuccess"]

\* A resource that needs nothing.
Report(r) ==
  /\ pc[r] = "report"
  /\ WriteStatus(r, copy[r].ready)
  /\ Forget(r)
  /\ UNCHANGED <<branch, source, name, life, outcome, spent, lost>>

\* Mutant: Delete forgets to say Deleting.
DeleteSilently(r) ==
  /\ pc[r] = "delete"
  /\ WriteStatus(r, copy[r].ready)
  /\ Forget(r)
  /\ UNCHANGED <<branch, source, name, life, outcome, spent, lost>>

\* Delete removes nothing: it says Deleting, and the next Observe releases the resource.
Delete(r) ==
  /\ pc[r] = "delete"
  /\ WriteStatus(r, "Deleting")
  /\ Forget(r)
  /\ UNCHANGED <<branch, source, name, life, outcome, spent, lost>>

\* The runtime removes the finalizer, unless its copy is stale.
Release(r) ==
  /\ pc[r] = "release"
  /\ life' = IF stale[r] THEN life ELSE [life EXCEPT ![r] = "gone"]
  /\ Forget(r)
  /\ UNCHANGED <<branch, source, target, name, ready, synced, outcome, spent, lost>>

----------------------------------------------------------------------------------
(* Create and Update.                                                      *)

\* The pending annotation is written before Create is called, unless the copy is stale.
BeginCreate(r) ==
  /\ pc[r] = "create"
  /\ IF stale[r]
       THEN /\ UNCHANGED outcome
            /\ Forget(r)
       ELSE /\ outcome' = [outcome EXCEPT ![r] = "pending"]
            /\ copy' = [copy EXCEPT ![r].ready = "Creating"]
            /\ action' = [action EXCEPT ![r] = "create"]
            /\ attempt' = [attempt EXCEPT ![r] = 1]
            /\ Goto(r, "clone")
            /\ UNCHANGED <<stale, tries, clone>>
  /\ UNCHANGED <<branch, source, target, name, ready, synced, life, spent, lost>>

\* Update does nothing, successfully, unless spec.syncEnabled.
BeginUpdate(r) ==
  /\ pc[r] = "update"
  /\ IF r \in SyncEnabled
       THEN /\ copy' = [copy EXCEPT ![r].ready = "Creating"]
            /\ action' = [action EXCEPT ![r] = "update"]
            /\ attempt' = [attempt EXCEPT ![r] = 1]
            /\ Goto(r, "clone")
       ELSE /\ Goto(r, "report")
            /\ UNCHANGED <<copy, action, attempt>>
  /\ UNCHANGED <<branch, server, stale, tries, clone, spent, lost>>

(* The sync returns an error.  After a failed Create the runtime writes its *)
(* annotations, and with them the external name the sync may already have  *)
(* set; that write returns the server's status to the copy, so what the    *)
(* sync set there is gone, and only the error is left to write.  After a   *)
(* failed Update the copy's status is written, when the copy is not stale. *)
Fail(r) ==
  /\ IF action[r] = "create"
       THEN /\ outcome' = [outcome EXCEPT ![r] = "failed"]
            /\ name' = [name EXCEPT ![r] = IF copy[r].name = << >> THEN @ ELSE copy[r].name]
            /\ synced' = [synced EXCEPT ![r] = "ReconcileError"]
            /\ UNCHANGED <<target, ready>>
       ELSE /\ target' = IF stale[r] THEN target ELSE [target EXCEPT ![r] = copy[r].target]
            /\ ready' = IF stale[r] THEN ready ELSE [ready EXCEPT ![r] = copy[r].ready]
            /\ synced' = IF stale[r] THEN synced ELSE [synced EXCEPT ![r] = "ReconcileError"]
            /\ UNCHANGED <<outcome, name>>
  /\ Forget(r)
  /\ UNCHANGED <<source, life>>

\* A conflict is recorded as nothing at all.
FailInConflict(r) ==
  /\ Forget(r)
  /\ UNCHANGED <<branch, server>>

\* git.Clone: the branch when it exists, else CloneFrom, else an orphan.
Clone(r) ==
  /\ pc[r] = "clone"
  /\ cloned' = [cloned EXCEPT ![r] = branch]
  /\ local' = [local EXCEPT ![r] = Git!Base(branch)]
  /\ Goto(r, "write")
  /\ UNCHANGED <<branch, server, memory, work, spent, lost>>

\* The copier leaves a file that exists in the target alone unless spec.override.
Write(r) ==
  /\ pc[r] = "write"
  /\ work' = [work EXCEPT ![r] =
                IF r \in Override \/ Tree(local[r])[FileOf[r]] = Absent
                  THEN [Tree(local[r]) EXCEPT ![FileOf[r]] = ContentOf[Read(r)]]
                  ELSE Tree(local[r])]
  /\ Goto(r, "commit")
  /\ UNCHANGED <<branch, server, memory, cloned, local, spent, lost>>

\* Mutant: every error is retried as if the branch had moved.
SyncFailsRetried(r) ==
  /\ pc[r] \in Sync
  /\ Spend("faults", MaxFaults)
  /\ IF attempt[r] < PushSteps
       THEN /\ attempt' = [attempt EXCEPT ![r] = @ + 1]
            /\ Goto(r, "clone")
            /\ UNCHANGED <<server, copy, stale, action, tries, clone>>
       ELSE Fail(r)
  /\ UNCHANGED <<branch, lost>>

(* A clone, a read of the source or of the footer's hash, the copy, what   *)
(* Commit does before it commits, or the push fails: no second attempt.    *)
SyncFails(r) ==
  /\ pc[r] \in Sync
  /\ Spend("faults", MaxFaults)
  /\ Fail(r)
  /\ UNCHANGED <<branch, lost>>

SetRecord(r, commit) == copy' = [copy EXCEPT ![r].name = commit, ![r].target = commit]

\* Mutant: the commit is recorded on the copy before it is pushed.
MakeCommitRecordsFirst(r) ==
  /\ pc[r] = "commit"
  /\ work[r] # Tree(local[r])
  /\ local' = [local EXCEPT ![r] = Append(@, [by |-> r, hash |-> Read(r), tree |-> work[r]])]
  /\ SetRecord(r, local'[r])
  /\ Goto(r, "push")
  /\ UNCHANGED <<branch, server, stale, action, attempt, tries, cloned, work, spent, lost>>

(* The footer hashes the source, read anew, and Commit commits.  When the  *)
(* worktree has not changed there is no commit, on a new branch either     *)
(* (go-git refuses an empty one and Commit reports every error of its as   *)
(* nothing to do): the tip of the local branch is recorded.                *)
MakeCommit(r) ==
  /\ pc[r] = "commit"
  /\ IF work[r] = Tree(local[r])
       THEN /\ SetRecord(r, local[r])
            /\ tries' = [tries EXCEPT ![r] = StatusSteps]
            /\ Goto(r, "record")
            /\ UNCHANGED local
       ELSE /\ local' = [local EXCEPT ![r] =
                           Append(@, [by |-> r, hash |-> Read(r), tree |-> work[r]])]
            /\ Goto(r, "push")
            /\ UNCHANGED <<copy, tries>>
  /\ UNCHANGED <<branch, server, stale, action, attempt, cloned, work, spent, lost>>

(* The commit itself fails.  Commit reports that as nothing to do as well, *)
(* so the sync records the tip of the local branch and succeeds; without   *)
(* such a tip it fails like any other (SyncFails).                         *)
CommitLost(r) ==
  /\ pc[r] = "commit"
  /\ work[r] # Tree(local[r])
  /\ local[r] # << >>
  /\ Spend("faults", MaxFaults)
  /\ SetRecord(r, local[r])
  /\ tries' = [tries EXCEPT ![r] = StatusSteps]
  /\ Goto(r, "record")
  /\ lost' = IF Own(local[r], r) = {} THEN lost \union {r} ELSE lost
  /\ UNCHANGED <<branch, server, stale, action, attempt, clone>>

\* Mutant: a forced push.
PushForced(r) ==
  /\ pc[r] = "push"
  /\ branch' = local[r]
  /\ lost' = lost \ {r}
  /\ SetRecord(r, local[r])
  /\ tries' = [tries EXCEPT ![r] = StatusSteps]
  /\ Goto(r, "record")
  /\ UNCHANGED <<server, stale, action, attempt, clone, spent>>

\* Push advances the branch from the commit the clone read it at.
Push(r) ==
  /\ pc[r] = "push"
  /\ branch = cloned[r]
  /\ branch' = local[r]
  /\ lost' = lost \ {r}
  /\ SetRecord(r, local[r])
  /\ tries' = [tries EXCEPT ![r] = StatusSteps]
  /\ Goto(r, "record")
  /\ UNCHANGED <<server, stale, action, attempt, clone, spent>>

\* The push lands, its answer does not.
PushReplyLost(r) ==
  /\ pc[r] = "push"
  /\ branch = cloned[r]
  /\ Spend("faults", MaxFaults)
  /\ branch' = local[r]
  /\ lost' = lost \ {r}
  /\ Fail(r)

\* Mutant: one attempt too many.
PushContendedOnceMore(r) ==
  /\ pc[r] = "push"
  /\ branch # cloned[r]
  /\ IF attempt[r] <= PushSteps
       THEN /\ attempt' = [attempt EXCEPT ![r] = @ + 1]
            /\ Goto(r, "clone")
            /\ UNCHANGED <<server, copy, stale, action, tries, clone>>
       ELSE Fail(r)
  /\ UNCHANGED branch
  /\ UNCHANGED <<spent, lost>>

\* Mutant: the commit is put on the new tip as it is, instead of made anew.
PushContendedReparented(r) ==
  /\ pc[r] = "push"
  /\ branch # cloned[r]
  /\ IF attempt[r] < PushSteps
       THEN /\ attempt' = [attempt EXCEPT ![r] = @ + 1]
            /\ cloned' = [cloned EXCEPT ![r] = branch]
            /\ local' = [local EXCEPT ![r] = Append(branch, Last(@))]
            /\ UNCHANGED <<server, pc, copy, stale, action, tries, work>>
       ELSE Fail(r)
  /\ UNCHANGED branch
  /\ UNCHANGED <<spent, lost>>

\* Another push moved the branch first: re-clone and start over, PushSteps times.
PushContended(r) ==
  /\ pc[r] = "push"
  /\ branch # cloned[r]
  /\ IF attempt[r] < PushSteps
       THEN /\ attempt' = [attempt EXCEPT ![r] = @ + 1]
            /\ Goto(r, "clone")
            /\ UNCHANGED <<server, copy, stale, action, tries, clone>>
       ELSE Fail(r)
  /\ UNCHANGED branch
  /\ UNCHANGED <<spent, lost>>

(* The status write.  It returns the server's object, whose annotations    *)
(* replace the copy's: the external name set by the sync is gone from it.  *)
RecordStatus(r) ==
  /\ pc[r] = "record"
  /\ ~stale[r]
  /\ target' = [target EXCEPT ![r] = copy[r].target]
  /\ ready' = [ready EXCEPT ![r] = copy[r].ready]
  /\ copy' = [copy EXCEPT ![r].name = name[r]]
  /\ Goto(r, "done")
  /\ UNCHANGED <<branch, source, name, synced, life, outcome, stale, action, attempt, tries,
                 clone, spent, lost>>

\* Mutant: a bare write, whose conflict is returned.
RecordConflictBare(r) ==
  /\ pc[r] = "record"
  /\ stale[r]
  /\ FailInConflict(r)
  /\ UNCHANGED <<spent, lost>>

\* A stale copy is refused: take the server's object, keep the outcome, try again.
RecordConflict(r) ==
  /\ pc[r] = "record"
  /\ stale[r]
  /\ IF tries[r] > 1
       THEN /\ tries' = [tries EXCEPT ![r] = @ - 1]
            /\ stale' = [stale EXCEPT ![r] = FALSE]
            /\ copy' = [copy EXCEPT ![r].source = Snapshot(r).source,
                                    ![r].deleting = Snapshot(r).deleting]
            /\ UNCHANGED <<branch, server, pc, action, attempt, clone>>
       ELSE FailInConflict(r)
  /\ UNCHANGED <<spent, lost>>

\* The write, or the read after a conflict, fails otherwise.
RecordFails(r) ==
  /\ pc[r] = "record"
  /\ Spend("faults", MaxFaults)
  /\ Fail(r)
  /\ UNCHANGED <<branch, lost>>

\* Create or Update has succeeded; the runtime records the former.
Done(r) ==
  /\ pc[r] = "done"
  /\ IF action[r] = "create"
       THEN /\ outcome' = [outcome EXCEPT ![r] = "succeeded"]
            /\ name' = [name EXCEPT ![r] = copy[r].name]
       ELSE UNCHANGED <<outcome, name>>
  /\ synced' = IF stale[r] THEN synced ELSE [synced EXCEPT ![r] = "ReconcileSuccess"]
  /\ Forget(r)
  /\ UNCHANGED <<branch, source, target, ready, life, spent, lost>>

Reconcile(r) == \/ Get(r) \/ Observe(r) \/ Report(r) \/ Delete(r) \/ Release(r)
                \/ BeginCreate(r) \/ BeginUpdate(r)
                \/ Clone(r) \/ Write(r) \/ MakeCommit(r)
                \/ Push(r) \/ PushContended(r)
                \/ RecordStatus(r) \/ RecordConflict(r) \/ Done(r)

Fault(r) == \/ ObserveFails(r) \/ ObserveMisses(r)
            \/ SyncFails(r) \/ CommitLost(r) \/ PushReplyLost(r) \/ RecordFails(r)

----------------------------------------------------------------------------------
(* Everyone else.                                                          *)

(* The source changes.  A resource that is neither synced nor overriding   *)
(* has an immutable spec; fromRef's object can change whatever it says.    *)
Edit(r) ==
  /\ r \in FromRef \union SyncEnabled \union Override
  /\ life[r] # "gone"
  /\ Spend("edits", MaxEdits)
  /\ \E v \in Version : /\ <<source[r], v>> \in Edits
                        /\ source' = [source EXCEPT ![r] = v]
  /\ stale' = IF r \in FromRef \/ pc[r] = "idle" THEN stale ELSE [stale EXCEPT ![r] = TRUE]
  /\ UNCHANGED <<branch, target, name, ready, synced, life, outcome, pc, copy, action, attempt,
                 tries, clone, lost>>

\* The owner of the resource writes its metadata during a reconcile.
Touch(r) ==
  /\ pc[r] # "idle"
  /\ ~stale[r]
  /\ Spend("touches", MaxTouches)
  /\ stale' = [stale EXCEPT ![r] = TRUE]
  /\ UNCHANGED <<branch, server, pc, copy, action, attempt, tries, clone, lost>>

\* A human, or another tool, pushes to the branch.
OtherPush ==
  /\ branch # << >>
  /\ Spend("others", MaxOthers)
  /\ branch' = Append(branch, [by |-> Other, hash |-> NoHash, tree |-> Tree(branch)])
  /\ UNCHANGED <<server, pc, memory, clone, lost>>

\* The provider's process dies between any two steps, and starts again.
Crash ==
  /\ \E r \in CR : pc[r] # "idle"
  /\ Spend("crashes", MaxCrashes)
  /\ pc' = [r \in CR |-> "idle"]
  /\ copy' = [r \in CR |-> NoCopy]
  /\ stale' = [r \in CR |-> FALSE]
  /\ action' = [r \in CR |-> "none"]
  /\ attempt' = [r \in CR |-> 0]
  /\ tries' = [r \in CR |-> 0]
  /\ cloned' = [r \in CR |-> << >>]
  /\ local' = [r \in CR |-> << >>]
  /\ work' = [r \in CR |-> Git!EmptyTree]
  /\ UNCHANGED <<branch, server, lost>>

\* A human removes the annotation of a create that never ended.
ClearPending(r) ==
  /\ pc[r] = "idle"
  /\ outcome[r] = "pending"
  /\ outcome' = [outcome EXCEPT ![r] = "none"]
  /\ UNCHANGED <<branch, source, target, name, ready, synced, life, pc, memory, clone, spent, lost>>

\* The owner deletes the resource.
RequestDeletion(r) ==
  /\ r \in Deletable
  /\ life[r] = "present"
  /\ life' = [life EXCEPT ![r] = "deleting"]
  /\ stale' = [stale EXCEPT ![r] = (pc[r] # "idle")]
  /\ UNCHANGED <<branch, source, target, name, ready, synced, outcome, pc, copy, action, attempt,
                 tries, clone, spent, lost>>

\* The owner creates another one under the name of a resource that is gone.
Recreate(r) ==
  /\ life[r] = "gone"
  /\ Spend("recreations", MaxRecreations)
  /\ life' = [life EXCEPT ![r] = "present"]
  /\ \E v \in Version : /\ v = source[r] \/ (r \notin FromRef /\ <<source[r], v>> \in Edits)
                        /\ source' = [source EXCEPT ![r] = v]
  /\ target' = [target EXCEPT ![r] = << >>]
  /\ name' = [name EXCEPT ![r] = << >>]
  /\ ready' = [ready EXCEPT ![r] = "none"]
  /\ synced' = [synced EXCEPT ![r] = "none"]
  /\ outcome' = [outcome EXCEPT ![r] = "none"]
  /\ UNCHANGED <<branch, pc, memory, clone, lost>>

Lifecycle(r) == RequestDeletion(r) \/ Recreate(r)

Next == \/ \E r \in CR : Reconcile(r) \/ Fault(r) \/ Edit(r) \/ Touch(r) \/ ClearPending(r)
                      \/ Lifecycle(r)
        \/ OtherPush
        \/ Crash

Spec == Init /\ [][Next]_vars

(* Every resource is reconciled again and again (the poll interval and the *)
(* workqueue), and a reconcile that has begun goes on.  Nothing obliges    *)
(* the environment, and no human removes annotations.                      *)
FairSpec == Spec /\ \A r \in CR : WF_vars(Reconcile(r))

----------------------------------------------------------------------------------
(* Properties.                                                             *)

PC == {"idle", "observe", "report", "delete", "release", "create", "update", "record", "done"}
        \union Sync
Ready == {"none", "NotObserved", "Unavailable", "Creating", "Available", "Deleting"}

Copies == [source : Version \union {Absent}, target : Seq(Commit), name : Seq(Commit),
           ready : Ready, deleting : BOOLEAN]

ServerTypes ==
  /\ branch \in Seq(Commit)
  /\ source \in [CR -> Version]
  /\ target \in [CR -> Seq(Commit)]
  /\ name \in [CR -> Seq(Commit)]
  /\ ready \in [CR -> Ready]
  /\ synced \in [CR -> {"none", "ReconcileSuccess", "ReconcileError"}]
  /\ life \in [CR -> {"present", "deleting", "gone"}]
  /\ outcome \in [CR -> {"none", "pending", "succeeded", "failed"}]

MemoryTypes ==
  /\ pc \in [CR -> PC]
  /\ copy \in [CR -> Copies]
  /\ stale \in [CR -> BOOLEAN]
  /\ action \in [CR -> {"none", "create", "update"}]
  /\ attempt \in [CR -> 0..PushSteps]
  /\ tries \in [CR -> 0..StatusSteps]
  /\ cloned \in [CR -> Seq(Commit)]
  /\ local \in [CR -> Seq(Commit)]
  /\ work \in [CR -> [File -> Version \union {Absent}]]

\* Every variable has its type.
TypeOK == ServerTypes /\ MemoryTypes /\ lost \subseteq CR

(* A commit recorded on the status is in the history of the target branch: *)
(* the status never names a commit that was not pushed, or whose push was  *)
(* overtaken.                                                              *)
RecordedIsOnBranch == \A r \in CR : IsPrefix(target[r], branch)

(* A resource whose status names a target commit has a target branch: when *)
(* the branch did not exist, the sync has created it.                      *)
RecordedBranchExists == \A r \in CR : target[r] # << >> => branch # << >>

(* Create runs only for a resource that the branch does not hold yet: a    *)
(* push whose answer was lost, a status write that failed, a crash after   *)
(* the push are all made up for by the footers, and never by publishing    *)
(* anew.                                                                   *)
CreatesOnlyUnpublished == \A r \in CR : pc[r] \in Sync /\ action[r] = "create" =>
                             Own(branch, r) = {}

(* A resource is left with a pending create only by a crash, or when every *)
(* one of the retries of the status write met a conflict of its own, with  *)
(* an edit, a foreign write or the deletion request.                       *)
Wedged(r) == outcome[r] = "pending" /\ pc[r] = "idle"
WedgedOnlyByCrash == \A r \in CR : Wedged(r) =>
                        \/ spent["crashes"] > 0
                        \/ spent["touches"] + spent["edits"] >= StatusSteps
                        \/ /\ life[r] = "deleting"
                           /\ spent["touches"] + spent["edits"] + 1 >= StatusSteps

(* A sync has no more attempts behind its first than pushes of others are  *)
(* on the branch: contention costs one writer an attempt only when another *)
(* one advances, and other errors cost none, for they end the sync.  (The  *)
(* pushes counted are all there ever were, not those during this sync.)    *)
RetriesArePaid ==
  \A r \in CR : attempt[r] <= 1 + spent["others"]
                                + Cardinality({i \in 1..Len(branch) : branch[i].by \in CR \ {r}})

(* Ready is Available only when the target branch holds the resource's     *)
(* file, or an error took the commit of its create, which Commit takes for *)
(* nothing to do.                                                          *)
AvailableIsPublished == \A r \in CR : ready[r] = "Available" =>
                           \/ Tree(branch)[FileOf[r]] # Absent
                           \/ r \in lost

(* The pushes of all the resources are, seen from the repository, single   *)
(* commits on the tip that change one file each.                           *)
ImplementsPublish == Git!Spec

(* What a resource has recorded is all Observe has to go by, for no commit *)
(* of the branch names it: its create found the file as it would write it, *)
(* or lost its commit.                                                     *)
TakenAtItsWord(r) == Own(branch, r) = {} /\ (target[r] # << >> \/ name[r] # << >>)

(* The branch comes to hold what the source of every synced, overriding    *)
(* resource holds, and stays so, whether the source was edited, or the     *)
(* resource deleted and created anew, except for a resource that is taken  *)
(* at its word: its source is never compared again, one of the findings.   *)
SourcesArePublished ==
  \A r \in SyncEnabled \intersect Override :
     <>[](life[r] = "present" => \/ Tree(branch)[FileOf[r]] = ContentOf[source[r]]
                                 \/ TakenAtItsWord(r))

(* A resource that is created is published, once at least: when its source *)
(* does not change, the branch comes to hold it, though another resource   *)
(* had the name before.                                                    *)
CreatedIsPublished ==
  \A r \in CR : <>[](life[r] = "present" =>
                         Tree(branch)[FileOf[r]] = ContentOf[source[r]])

(* A deleted resource is released, whatever its reconciles run into, unless *)
(* its create is pending.                                                  *)
DeletedIsReleased == \A r \in CR : life[r] = "deleting" ~> life[r] = "gone" \/ Wedged(r)

(* No commit of the resource carries the hash of what its source holds,    *)
(* and none will: an update leaves the file alone, or finds it as it is.   *)
Futile(r) == /\ \A i \in Own(branch, r) : branch[i].hash # source[r]
             /\ \/ r \notin Override /\ Tree(branch)[FileOf[r]] # Absent
                \/ Tree(branch)[FileOf[r]] = ContentOf[source[r]]

(* Once the sources no longer change, the controllers stop syncing: an     *)
(* update is repeated over and over only if it is futile, one of the       *)
(* findings; none that can commit is, and none whose commit is there.      *)
Settles == <>[](\A r \in CR : action[r] = "none" \/ Futile(r))
==================================================================================
