---------------------------------- MODULE Repo ----------------------------------
(***************************************************************************)
(* The Repo controller (internal/controllers/repo/repo.go): one Repo       *)
(* copies a path of its origin repository into a path of its target        *)
(* repository, once, or again whenever the origin has new commits.         *)
(*                                                                         *)
(* What a Repo has done is known only by the pair of commits its status    *)
(* records, the origin's and the target's: its commits carry no footer.    *)
(* Observe looks the target commit up in the history of the target branch, *)
(* and compares the origin commit with the origin's latest.  The target    *)
(* can be rewritten under it (force-pushed, deleted, recreated), others    *)
(* push to it, either server can be out of reach, the status write that    *)
(* follows a push can be lost, the Secrets with the credentials can go and *)
(* come back, and the Repo can be deleted at any time.                     *)
(*                                                                         *)
(* Abstracted: the copied path is one file, whose content is the origin    *)
(* commit it was copied from; a target commit is identified by the history *)
(* that ends in it, and commits say in which era of the target they were   *)
(* made, an era ending with each rewrite; the Secrets are read, all of     *)
(* them, as a reconcile begins.  Templating values, events and the         *)
(* management policies (all actions are allowed) are left out.             *)
(***************************************************************************)
EXTENDS Naturals, SequencesExt

CONSTANTS Overrides,    \* the values of spec.override
          CloneFrom,    \* the branch of spec.toRepo.cloneFromBranch
          InitialBranches,
          StatusSteps,  \* retry.DefaultRetry.Steps
          \* Bounds of the model.
          MaxOrigin, MaxOthers, MaxRewrites, MaxOutages, MaxFaults, MaxEdits, MaxTouches,
          MaxLosses, MaxRewinds, MaxCrashes,
          MaxUpsets     \* of all of these together

NoCommit == 0              \* status.originCommitId when empty
OriginCommits == 1..MaxOrigin
Absent == 0                \* the file is not in the tree
Files == OriginCommits \union {Absent}

Commit == [by : {"repo", "other"}, era : 0..MaxRewrites, file : Files]

ASSUME RepoAssumption ==
          /\ Overrides \subseteq BOOLEAN
          /\ CloneFrom \in Seq(Commit)
          /\ InitialBranches \subseteq Seq(Commit)
          /\ StatusSteps \in Nat \ {0}
          /\ MaxOrigin \in Nat \ {0}
          /\ MaxRewrites \in Nat

VARIABLES
  \* On the git servers:
  origin,       \* the latest commit of the origin's branch
  branch,       \* the target branch, << >> when it does not exist
  reachable,    \* the servers answer
  \* On the API server:
  secrets,      \* the Secrets that spec.fromRepo and spec.toRepo refer to can be read
  override,     \* spec.override
  enableUpdate, \* spec.enableUpdate
  deleted,      \* the deletion timestamp is set
  gone,         \* the finalizer has been removed
  status,       \* the two commits, and the reasons of Ready and Synced
  name,         \* the external-name annotation, << >> when empty
  outcome,      \* the annotations around Create
  \* In the provider's memory:
  pc,
  copy,         \* the object as the reconcile read it, and what it has set on it since
  stale,        \* the object has changed on the server since
  action,       \* create or update, which of them the sync runs for
  seen,         \* the origin's latest commit, as Observe saw it
  tries,        \* attempts of the status write
  cloned,       \* the target branch when the clone read it
  local,        \* the branch in the clone
  from,         \* the commit of the origin's clone
  work,         \* the file in the target clone's worktree
  \* How much of each bound is spent:
  spent,
  \* History: the pairs of commits recorded by syncs whose commit was lost.
  lost

servers == <<origin, branch, reachable>>
spec == <<secrets, override, enableUpdate, deleted>>
object == <<spec, gone, status, name, outcome>>
clones == <<cloned, local, from, work>>
memory == <<copy, stale, action, seen, tries, clones>>
vars == <<servers, object, pc, memory, spent, lost>>

----------------------------------------------------------------------------------
File(history) == IF history = << >> THEN Absent ELSE Last(history).file

Base(history) == IF history = << >> THEN CloneFrom ELSE history

Goto(l) == pc' = l

Spend(bound, max) == /\ spent[bound] < max
                     /\ spent["all"] < MaxUpsets
                     /\ spent' = [spent EXCEPT ![bound] = @ + 1, !["all"] = @ + 1]

Snapshot == [enableUpdate |-> enableUpdate, deleted |-> deleted, status |-> status, name |-> name]

NoStatus == [origin |-> NoCommit, target |-> << >>, ready |-> "none", synced |-> "none"]

NoCopy == [enableUpdate |-> FALSE, deleted |-> FALSE, status |-> NoStatus, name |-> << >>]

\* The reconcile ends; what it had in memory is forgotten.
Forget == /\ copy' = NoCopy
          /\ stale' = FALSE
          /\ action' = "none"
          /\ seen' = NoCommit
          /\ tries' = 0
          /\ cloned' = << >>
          /\ local' = << >>
          /\ from' = NoCommit
          /\ work' = Absent
          /\ Goto("idle")

Init == /\ origin = 1
        /\ branch \in InitialBranches
        /\ reachable = TRUE
        /\ secrets = TRUE
        /\ override \in Overrides
        /\ enableUpdate \in BOOLEAN
        /\ deleted = FALSE
        /\ gone = FALSE
        /\ status = NoStatus
        /\ name = << >>
        /\ outcome = "none"
        /\ pc = "idle"
        /\ copy = NoCopy
        /\ stale = FALSE
        /\ action = "none"
        /\ seen = NoCommit
        /\ tries = 0
        /\ cloned = << >>
        /\ local = << >>
        /\ from = NoCommit
        /\ work = Absent
        /\ spent = [b \in {"others", "rewrites", "outages", "faults", "edits",
                           "touches", "losses", "rewinds", "crashes", "all"} |-> 0]
        /\ lost = {}

----------------------------------------------------------------------------------
(* The runtime reads the Repo, refuses one whose create is pending, and    *)
(* connects, which takes the credentials of both repositories.             *)
Get == pc = "idle" /\ ~gone /\ outcome # "pending"

Connect == /\ Get
           /\ secrets
           /\ copy' = Snapshot
           /\ Goto("observe")
           /\ UNCHANGED <<servers, object, stale, action, seen, tries, clones, spent, lost>>

\* Without them the reconcile ends there; it may say of Ready that it could not tell.
ConnectFails ==
  /\ Get
  /\ ~secrets
  /\ \E ready \in {status.ready, IF deleted THEN "Deleting" ELSE "NotObserved"} :
       status' = [status EXCEPT !.ready = ready, !.synced = "ReconcileError"]
  /\ UNCHANGED <<servers, spec, gone, name, outcome, pc, memory, spent, lost>>

(* The runtime ends a reconcile with a status write of its copy, which the *)
(* API server refuses when the copy is stale.                              *)
WriteStatus(written) == /\ status' = IF stale THEN status ELSE written
                        /\ Forget
                        /\ UNCHANGED <<servers, spec, gone, name, outcome>>

SetReady(reason) == copy' = [copy EXCEPT !.status.ready = reason]

\* A Repo being deleted that exists is handed to Delete, whatever else it needs.
Then(l) == Goto(IF copy.deleted THEN "delete" ELSE l)

(* Observe, a Repo being deleted: nothing is removed from the target, so   *)
(* one that is already Deleting, or whose last reconcile failed, is        *)
(* released without asking the servers.                                    *)
ObserveDeleting ==
  /\ pc = "observe"
  /\ \/ copy.status.ready = "Deleting"
     \/ copy.deleted /\ copy.status.synced = "ReconcileError"
  /\ SetReady("Deleting")
  /\ Goto("release")
  /\ UNCHANGED <<servers, object, stale, action, seen, tries, clones, spent, lost>>

Observing == /\ pc = "observe"
             /\ copy.status.ready # "Deleting"
             /\ ~(copy.deleted /\ copy.status.synced = "ReconcileError")

\* Mutant: the history is not asked about a push that only the name remembers.
ObserveNothingByStatus ==
  /\ Observing
  /\ copy.status.target = << >>
  /\ SetReady("Unavailable")
  /\ Goto(IF copy.deleted THEN "release" ELSE "create")
  /\ UNCHANGED <<servers, object, stale, action, seen, tries, clones, spent, lost>>

\* Neither the status nor the external name holds a commit: nothing was ever pushed.
ObserveNothing ==
  /\ Observing
  /\ copy.status.target = << >>
  /\ copy.name = << >>
  /\ SetReady("Unavailable")
  /\ Goto(IF copy.deleted THEN "release" ELSE "create")
  /\ UNCHANGED <<servers, object, stale, action, seen, tries, clones, spent, lost>>

\* The target commit of the status becomes the external name, or else the
\* external name the target commit.
Adopted == IF copy.status.target # << >> THEN [copy EXCEPT !.name = copy.status.target]
                                         ELSE [copy EXCEPT !.status.target = copy.name]

\* Something was pushed once: the origin's refs are listed.
ObserveOrigin ==
  /\ Observing
  /\ copy.status.target # << >> \/ copy.name # << >>
  /\ reachable
  /\ copy' = Adopted
  /\ seen' = origin
  /\ Goto("history")
  /\ UNCHANGED <<servers, object, stale, action, tries, clones, spent, lost>>

\* Mutant: the recorded commit is taken for granted.
OnTargetTrusted == copy.status.target # << >>

OnTarget == IsPrefix(copy.status.target, branch)

\* Mutant: a lost target commit is overlooked unless the Repo may update.
ObserveLostQuietly ==
  /\ pc = "history"
  /\ reachable
  /\ ~OnTarget
  /\ ~copy.enableUpdate
  /\ WriteStatus([copy.status EXCEPT !.ready = "Available", !.synced = "ReconcileSuccess"])
  /\ UNCHANGED <<spent, lost>>

(* The target commit is no longer on the target branch, and the Repo may   *)
(* not push again: an error, with Ready assessed, until a human decides.   *)
ObserveLost ==
  /\ pc = "history"
  /\ reachable
  /\ ~OnTarget
  /\ ~copy.enableUpdate
  /\ WriteStatus([copy.status EXCEPT !.ready = IF copy.deleted THEN "Deleting" ELSE "Unavailable",
                                     !.synced = "ReconcileError"])
  /\ UNCHANGED <<spent, lost>>

\* The same, and the Repo may push again.
ObserveRewritten ==
  /\ pc = "history"
  /\ reachable
  /\ ~OnTarget
  /\ copy.enableUpdate
  /\ SetReady("Unavailable")
  /\ Then("update")
  /\ UNCHANGED <<servers, object, stale, action, seen, tries, clones, spent, lost>>

\* The origin has moved and the Repo follows it.
ObserveBehind ==
  /\ pc = "history"
  /\ reachable
  /\ OnTarget
  /\ copy.enableUpdate
  /\ seen # copy.status.origin
  /\ SetReady("Available")
  /\ Then("update")
  /\ UNCHANGED <<servers, object, stale, action, seen, tries, clones, spent, lost>>

ObserveSynced ==
  /\ pc = "history"
  /\ reachable
  /\ OnTarget
  /\ copy.enableUpdate => seen = copy.status.origin
  /\ SetReady("Available")
  /\ Then("report")
  /\ UNCHANGED <<servers, object, stale, action, seen, tries, clones, spent, lost>>

(* A server does not answer: a plain error, which the runtime reports as   *)
(* NotObserved, or as Deleting.  The commit adopted from the name stays.   *)
ObserveFails ==
  /\ \/ Observing /\ (copy.status.target # << >> \/ copy.name # << >>)
     \/ pc = "history"
  /\ ~reachable
  /\ WriteStatus([Adopted.status EXCEPT !.ready = IF copy.deleted THEN "Deleting" ELSE "NotObserved",
                                        !.synced = "ReconcileError"])
  /\ UNCHANGED <<spent, lost>>

Observe == \/ ObserveDeleting \/ ObserveNothing \/ ObserveOrigin \/ ObserveLost
           \/ ObserveRewritten \/ ObserveBehind \/ ObserveSynced \/ ObserveFails

Report == /\ pc = "report"
          /\ WriteStatus([copy.status EXCEPT !.synced = "ReconcileSuccess"])
          /\ UNCHANGED <<spent, lost>>

\* Mutant: Delete forgets to say Deleting.
DeleteSilently ==
  /\ pc = "delete"
  /\ WriteStatus([copy.status EXCEPT !.synced = "ReconcileSuccess"])
  /\ UNCHANGED <<spent, lost>>

\* Delete removes nothing: it says Deleting, and the next Observe releases the Repo.
Delete == /\ pc = "delete"
          /\ WriteStatus([copy.status EXCEPT !.ready = "Deleting", !.synced = "ReconcileSuccess"])
          /\ UNCHANGED <<spent, lost>>

\* The runtime removes the finalizer, unless its copy is stale.
Release == /\ pc = "release"
           /\ gone' = ~stale
           /\ Forget
           /\ UNCHANGED <<servers, spec, status, name, outcome, spent, lost>>

----------------------------------------------------------------------------------
(* Create and Update: SyncRepos.                                           *)

BeginCreate ==
  /\ pc = "create"
  /\ IF stale
       THEN Forget /\ UNCHANGED outcome
       ELSE /\ outcome' = "pending"
            /\ SetReady("Creating")
            /\ action' = "create"
            /\ Goto("cloneTarget")
            /\ UNCHANGED <<stale, seen, tries, clones>>
  /\ UNCHANGED <<servers, spec, gone, status, name, spent, lost>>

BeginUpdate ==
  /\ pc = "update"
  /\ SetReady("Creating")
  /\ action' = "update"
  /\ Goto("cloneTarget")
  /\ UNCHANGED <<servers, object, stale, seen, tries, clones, spent, lost>>

CloneTarget ==
  /\ pc = "cloneTarget"
  /\ reachable
  /\ cloned' = branch
  /\ local' = Base(branch)
  /\ Goto("cloneOrigin")
  /\ UNCHANGED <<servers, object, copy, stale, action, seen, tries, from, work, spent, lost>>

CloneOrigin ==
  /\ pc = "cloneOrigin"
  /\ reachable
  /\ from' = origin
  /\ Goto("write")
  /\ UNCHANGED <<servers, object, copy, stale, action, seen, tries, cloned, local, work, spent, lost>>

\* The copier leaves a file that exists in the target alone unless spec.override.
Write ==
  /\ pc = "write"
  /\ work' = IF override \/ File(local) = Absent THEN from ELSE File(local)
  /\ Goto("commit")
  /\ UNCHANGED <<servers, object, copy, stale, action, seen, tries, cloned, local, from, spent, lost>>

\* Mutant: the origin commit Observe saw is recorded, not the one that was copied.
SetRecordOfSeen(commit) == copy' = [copy EXCEPT !.status.origin = seen,
                                                !.status.target = commit,
                                                !.name = commit]

SetRecord(commit) == copy' = [copy EXCEPT !.status.origin = from,
                                          !.status.target = commit,
                                          !.name = commit]

BeginRecord == tries' = StatusSteps /\ Goto("record")

\* A worktree that has not changed makes no commit, on a new branch either:
\* the tip of the local branch is recorded.
MakeCommit ==
  /\ pc = "commit"
  /\ IF work = File(local)
       THEN SetRecord(local) /\ BeginRecord /\ UNCHANGED local
       ELSE /\ local' = Append(local, [by |-> "repo", era |-> spent["rewrites"], file |-> work])
            /\ Goto("push")
            /\ UNCHANGED <<copy, tries>>
  /\ UNCHANGED <<servers, object, stale, action, seen, cloned, from, work, spent, lost>>

(* Every error of wt.Commit, a full disk say, is taken for nothing to do:  *)
(* what the worktree holds is dropped, and the tip of the local branch is  *)
(* recorded beside the origin commit that it does not hold.                *)
CommitLost ==
  /\ pc = "commit"
  /\ work # File(local)
  /\ local # << >>
  /\ Spend("faults", MaxFaults)
  /\ SetRecord(local)
  /\ BeginRecord
  /\ lost' = lost \union {<<from, local>>}
  /\ UNCHANGED <<servers, object, stale, action, seen, clones>>

(* go-git pushes when what the server advertises is an ancestor of the     *)
(* local branch: a branch that was cut short since the clone is restored.  *)
FastForward == IsPrefix(branch, local)

Push ==
  /\ pc = "push"
  /\ reachable
  /\ FastForward
  /\ branch' = local
  /\ SetRecord(local)
  /\ BeginRecord
  /\ UNCHANGED <<origin, reachable, object, stale, action, seen, clones, spent, lost>>

(* The sync fails: failSync says Unavailable and ReconcileError.  After a  *)
(* failed Create the runtime writes its annotations, the external name     *)
(* among them, and that write returns the server's status to the copy; of  *)
(* the copy's own only the error is left to write.  After a failed Update  *)
(* the copy's status is written, when the copy is not stale.               *)
Fail ==
  /\ IF action = "create"
       THEN /\ outcome' = "failed"
            /\ name' = IF copy.name = << >> THEN name ELSE copy.name
            /\ status' = [status EXCEPT !.synced = "ReconcileError"]
       ELSE /\ status' = IF stale THEN status
                         ELSE [copy.status EXCEPT !.ready = "Unavailable",
                                                  !.synced = "ReconcileError"]
            /\ UNCHANGED <<outcome, name>>
  /\ Forget
  /\ UNCHANGED <<origin, reachable, spec, gone>>

\* A server does not answer, or the branch has moved: there is no second attempt.
SyncFails ==
  /\ \/ pc \in {"cloneTarget", "cloneOrigin", "push"} /\ ~reachable
     \/ pc = "push" /\ ~FastForward
  /\ Fail
  /\ UNCHANGED <<branch, spent, lost>>

(* The ConfigMap of the values cannot be read, or a file cannot be         *)
(* rendered; or else the files cannot be added to the index, or wt.Commit  *)
(* fails on a branch that has no tip to be recorded.                       *)
WriteFails ==
  /\ pc \in {"write", "commit"}
  /\ Spend("faults", MaxFaults)
  /\ Fail
  /\ UNCHANGED <<branch, lost>>

\* The push lands, its answer does not.
PushReplyLost ==
  /\ pc = "push"
  /\ reachable
  /\ FastForward
  /\ Spend("faults", MaxFaults)
  /\ branch' = local
  /\ Fail
  /\ UNCHANGED lost

\* Mutant: the external name is lost with the copy's annotations.
RecordStatusDroppingName ==
  /\ pc = "record"
  /\ ~stale
  /\ status' = copy.status
  /\ copy' = [copy EXCEPT !.name = name]
  /\ Goto("done")
  /\ UNCHANGED <<servers, spec, gone, name, outcome, stale, action, seen, tries, clones, spent, lost>>

\* The status write; the external name is put back on the object it returns.
RecordStatus ==
  /\ pc = "record"
  /\ ~stale
  /\ status' = copy.status
  /\ Goto("done")
  /\ UNCHANGED <<servers, spec, gone, name, outcome, memory, spent, lost>>

\* Mutant: the attempts of the status write are never used up.
RecordConflictUncounted ==
  /\ pc = "record"
  /\ stale
  /\ tries' = tries + 1
  /\ stale' = FALSE
  /\ copy' = [Snapshot EXCEPT !.status = copy.status, !.name = copy.name]
  /\ UNCHANGED <<servers, object, pc, action, seen, clones, spent, lost>>

(* A stale copy is refused: take the server's object, keep the status and  *)
(* the name, try again.  The last conflict is returned, and the runtime    *)
(* records nothing of a conflict.                                          *)
RecordConflict ==
  /\ pc = "record"
  /\ stale
  /\ IF tries > 1
       THEN /\ tries' = tries - 1
            /\ stale' = FALSE
            /\ copy' = [Snapshot EXCEPT !.status = copy.status, !.name = copy.name]
            /\ UNCHANGED <<pc, action, seen, clones>>
       ELSE Forget
  /\ UNCHANGED <<servers, object, spent, lost>>

\* The write, or the read after a conflict, fails otherwise.
RecordFails ==
  /\ pc = "record"
  /\ Spend("faults", MaxFaults)
  /\ Fail
  /\ UNCHANGED <<branch, lost>>

Done ==
  /\ pc = "done"
  /\ IF action = "create"
       THEN outcome' = "succeeded" /\ name' = copy.name
       ELSE UNCHANGED <<outcome, name>>
  /\ status' = IF stale THEN status ELSE [status EXCEPT !.synced = "ReconcileSuccess"]
  /\ Forget
  /\ UNCHANGED <<servers, spec, gone, spent, lost>>

Reconcile == \/ Connect \/ ConnectFails \/ Observe \/ Report \/ Delete \/ Release
             \/ BeginCreate \/ BeginUpdate
             \/ CloneTarget \/ CloneOrigin \/ Write \/ MakeCommit \/ Push \/ SyncFails
             \/ RecordStatus \/ RecordConflict \/ Done

Fault == WriteFails \/ CommitLost \/ PushReplyLost \/ RecordFails

----------------------------------------------------------------------------------
(* Everyone else.                                                          *)

UserWrites == stale' = (pc # "idle")

\* Someone pushes to the origin.
OriginPush == /\ origin < MaxOrigin
              /\ origin' = origin + 1
              /\ UNCHANGED <<branch, reachable, object, pc, memory, spent, lost>>

\* The origin is force-pushed back to a commit it had.
OriginRewrite == /\ Spend("rewinds", MaxRewinds)
                 /\ origin' \in 1..(origin - 1)
                 /\ UNCHANGED <<branch, reachable, object, pc, memory, lost>>

\* Someone else pushes to the target, outside of the copied path.
OtherPush == /\ branch # << >>
             /\ Spend("others", MaxOthers)
             /\ branch' = Append(branch, [by |-> "other", era |-> spent["rewrites"],
                                          file |-> File(branch)])
             /\ UNCHANGED <<origin, reachable, object, pc, memory, lost>>

\* The target is cut short by a force-push, deleted, or recreated from nothing.
Rewrite == /\ branch # << >>
           /\ Spend("rewrites", MaxRewrites)
           /\ \/ \E n \in 0..(Len(branch) - 1) : branch' = SubSeq(branch, 1, n)
              \/ branch' = <<[by |-> "other", era |-> spent'["rewrites"], file |-> Absent]>>
           /\ UNCHANGED <<origin, reachable, object, pc, memory, lost>>

Outage == /\ reachable
          /\ Spend("outages", MaxOutages)
          /\ reachable' = FALSE
          /\ UNCHANGED <<origin, branch, object, pc, memory, lost>>

OutageEnds == /\ ~reachable
              /\ reachable' = TRUE
              /\ UNCHANGED <<origin, branch, object, pc, memory, spent, lost>>

\* The owner sets spec.enableUpdate, or takes it back.
AllowUpdates == /\ ~gone
                /\ Spend("edits", MaxEdits)
                /\ enableUpdate' = ~enableUpdate
                /\ UserWrites
                /\ UNCHANGED <<servers, secrets, override, deleted, gone, status, name, outcome, pc,
                               copy, action, seen, tries, clones, lost>>

\* The Secrets go, as when the namespace is deleted, and may come back.
LoseSecrets == /\ secrets
               /\ Spend("losses", MaxLosses)
               /\ secrets' = FALSE
               /\ UNCHANGED <<servers, override, enableUpdate, deleted, gone, status, name, outcome,
                              pc, memory, lost>>

RestoreSecrets == /\ ~secrets
                  /\ secrets' = TRUE
                  /\ UNCHANGED <<servers, override, enableUpdate, deleted, gone, status, name,
                                 outcome, pc, memory, spent, lost>>

\* The owner writes the object's metadata during a reconcile.
Touch == /\ pc # "idle"
         /\ ~stale
         /\ Spend("touches", MaxTouches)
         /\ UserWrites
         /\ UNCHANGED <<servers, object, pc, copy, action, seen, tries, clones, lost>>

\* The owner deletes the Repo.
RequestDeletion == /\ ~deleted
                   /\ deleted' = TRUE
                   /\ UserWrites
                   /\ UNCHANGED <<servers, secrets, override, enableUpdate, gone, status, name,
                                  outcome, pc, copy, action, seen, tries, clones, spent, lost>>

Crash == /\ pc # "idle"
         /\ Spend("crashes", MaxCrashes)
         /\ Forget
         /\ UNCHANGED <<servers, object, lost>>

\* A human removes the annotation of a create that never ended.
ClearPending == /\ pc = "idle"
                /\ outcome = "pending"
                /\ outcome' = "none"
                /\ UNCHANGED <<servers, spec, gone, status, name, pc, memory, spent, lost>>

Environment == \/ OriginPush \/ OriginRewrite \/ OtherPush \/ Rewrite \/ Outage \/ OutageEnds
               \/ AllowUpdates \/ LoseSecrets \/ RestoreSecrets \/ Touch \/ RequestDeletion
               \/ Crash \/ ClearPending

Next == Reconcile \/ Fault \/ Environment

Spec == Init /\ [][Next]_vars

(* The Repo is reconciled again and again (the poll interval and the       *)
(* workqueue), and a reconcile that has begun goes on.  Nothing obliges    *)
(* the environment: an outage may last, and no human removes annotations.  *)
FairSpec == Spec /\ WF_vars(Reconcile)

----------------------------------------------------------------------------------
(* Properties.                                                             *)

Ready == {"none", "NotObserved", "Unavailable", "Creating", "Available", "Deleting"}
Synced == {"none", "ReconcileSuccess", "ReconcileError"}

Status == [origin : OriginCommits \union {NoCommit}, target : Seq(Commit), ready : Ready,
           synced : Synced]

PC == {"idle", "observe", "history", "report", "delete", "release", "create", "update",
       "cloneTarget", "cloneOrigin", "write", "commit", "push", "record", "done"}

Copies == [enableUpdate : BOOLEAN, deleted : BOOLEAN, status : Status, name : Seq(Commit)]

ServerTypes ==
  /\ origin \in OriginCommits
  /\ branch \in Seq(Commit)
  /\ reachable \in BOOLEAN

ObjectTypes ==
  /\ secrets \in BOOLEAN
  /\ override \in BOOLEAN
  /\ enableUpdate \in BOOLEAN
  /\ deleted \in BOOLEAN
  /\ gone \in BOOLEAN
  /\ status \in Status
  /\ name \in Seq(Commit)
  /\ outcome \in {"none", "pending", "succeeded", "failed"}

MemoryTypes ==
  /\ pc \in PC
  /\ copy \in Copies
  /\ stale \in BOOLEAN
  /\ action \in {"none", "create", "update"}
  /\ seen \in OriginCommits \union {NoCommit}
  /\ tries \in 0..StatusSteps
  /\ cloned \in Seq(Commit)
  /\ local \in Seq(Commit)
  /\ from \in OriginCommits \union {NoCommit}
  /\ work \in Files

LostTypes ==
  lost \subseteq (OriginCommits \union {NoCommit}) \X (Seq(Commit) \ {<< >>})

\* Every variable has its type.
TypeOK == ServerTypes /\ ObjectTypes /\ MemoryTypes /\ LostTypes

Pair(record) == <<record.origin, record.target>>

Consistent(record) ==
  \/ record.origin = NoCommit
  \/ IF override THEN File(record.target) = record.origin ELSE File(record.target) \in OriginCommits
  \/ Pair(record) \in lost

(* The two commits of the status belong together: the target commit holds  *)
(* what the origin commit holds, however far the origin has moved between  *)
(* Observe, the clones and the status write, and however often the target  *)
(* commit was adopted from the external name.  Without spec.override it    *)
(* holds at least what some origin commit holds.  Only a sync whose commit *)
(* failed, and was taken for nothing to do, leaves a pair that does not.   *)
RecordIsConsistent == Consistent(status)

(* Without spec.enableUpdate the sync is a one-shot: a Repo that has a     *)
(* record of its push, on the status or as the external name, never pushes *)
(* again, whatever becomes of the origin, the target or the status write;  *)
(* nor does one that had updates allowed until the reconcile began.        *)
Pushes == Len(branch') > Len(branch) /\ Last(branch').by = "repo"
OneShot == [][Pushes /\ ~copy.enableUpdate => status.target = << >> /\ name = << >>]_vars

(* A create recorded as succeeded has left the pushed commit as external   *)
(* name, whatever happened to the object during the status write.          *)
SucceededIsNamed == outcome = "succeeded" => name # << >>

Wedged == outcome = "pending" /\ pc = "idle"

(* Ready comes to tell the truth: once rewrites stop, a Repo that can      *)
(* connect is not left Available when its target commit is not on the      *)
(* target branch.                                                          *)
ReadyIsTruthful ==
  <>[](~gone /\ secrets /\ status.ready = "Available" => IsPrefix(status.target, branch))

(* With enableUpdate and override, the target comes to hold what the       *)
(* origin's latest commit holds, whatever was pushed, rewritten or out of  *)
(* reach in between, and stays so; unless the commit of the sync that      *)
(* should have brought it there failed: the record says it is published.   *)
Following == enableUpdate /\ override /\ reachable /\ secrets /\ ~deleted /\ ~Wedged

OriginIsPublished ==
  <>[](Following => File(branch) = origin \/ Pair(status) \in lost)

(* What docs/repo.md says of enableUpdate: when the origin, which is never *)
(* forced back here, has a newer commit than the one the target holds, it  *)
(* is pushed to the target.                                                *)
UpdatesArePushed ==
  Following /\ File(branch) \in 1..(origin - 1) ~> ~Following \/ File(branch) = origin

(* A deleted Repo is released, even when its repositories never answer     *)
(* again, unless its create is pending, or its Secrets went first: without *)
(* them it is not even observed.                                           *)
DeletedIsReleased == <>[]secrets => (deleted ~> gone \/ Wedged)
==================================================================================
