# A TLA+ verification of git-provider

git-provider is a Kubernetes operator with two custom resources. A `Repo` copies
a path of one git repository into another; a `LocalResource` publishes one
manifest (inline, a string, or an object of the cluster) as a file of a git
repository. This directory holds TLA+ models of the parts whose correctness
depends on interleavings, lost answers, crashes, rewritten histories and nested
trees, the TLC runs that check them, and proofs checked by TLAPS. Paths below are
relative to the repository's root; `git.go` is `internal/clients/git/git.go`.

## Inventory

| Component | State it keeps | Operations | What makes it correct |
| --- | --- | --- | --- |
| Transport lock (`git.go` 79-294) | go-git's process globals: the https client of the registry, the list of unsupported capabilities; `transportMu` | every remote operation: list, history walk, clone, push, pull | no unguarded write, each session runs with its own settings, defaults restored on every exit, nobody waits for himself |
| Git client (`git.go` 530-861) | a clone in a temporary directory | `Clone` (existing branch, branch off another, orphan), `Commit`, `Push`, `GetLatestCommit` | a push only fast-forwards; one commit per sync |
| LocalResource controller (`internal/controllers/localresource`) | none of its own: status, annotations, the branch's commit footers | `Connect`, `Observe`, `Create`, `Update`, `Delete`; sync with contention retry; status write with conflict retry | the branch comes to hold the source; no file is reverted by a sibling; a push that landed is never lost from view; a deleted resource is released |
| Commit footer (`internal/controllers/common/footer`) | a line in each commit message | spec hash, format, parse | identifies resource and spec version |
| Repo controller (`internal/controllers/repo`) | the recorded pair of commits, external name, conditions | `Connect`, `Observe`, `Create`, `Update`, `Delete`; sync | the recorded pair belongs together; one-shot without `enableUpdate`; recovery from a rewritten target; release on deletion |
| Copier (`internal/tools/copier`) | the two ignore lists, the errors of a walk | `Copy`: a recursive copy that renders names and contents | it makes of the target what its declarative reading says; it takes nothing away; nothing half rendered is published; every file at fault is reported |
| Templating (`internal/tools/template`, `templating.go`) | none | engine selection, render, validate | modelled by what they make of each form of content |
| localfs, credential helper, API types | none that outlives a call | | modelled by their outcomes |
| Set-up, generated code, test doubles | | | not modelled |

How they interact: up to five reconciles of each controller run concurrently in
one process (`main.go` 38) and share the transport lock; reconciles of different
resources meet on the target branch, where git's compare-and-set on a ref is the
only arbiter; the controllers and the rest of the cluster meet on the custom
resource, where a stale `resourceVersion` makes a write fail; the runtime
(krateo's provider-runtime) brackets a Create with annotations, and refuses a
resource whose create has no recorded outcome. A sync of either controller clones
into a temporary directory, lets the copier change the target's worktree, and
commits and pushes what it finds changed.

What is hard: all of the above interleaved with a crash between the push and the
record of it, an answer that is lost although the push landed, a commit that fails
and is taken for nothing to do, sources that
change during a sync, histories rewritten from outside, Secrets that vanish,
deletion at any point, and trees in which ignored, rendered and already present
names nest. `PROJECT.json` lists each hazard at its line.

## Modules

| Module | What it is |
| --- | --- |
| `TransportSpec` | abstract: remote operations with private settings |
| `Transport` | `transportMu`, the two globals, and all operations under the lock |
| `TransportProofs` | TLAPS: invariants and refinement of `Transport` |
| `PublishSpec` | abstract: a branch to which each resource's push adds one commit changing its own file |
| `LocalResource` | the LocalResource controller, several resources on one branch |
| `LocalResourceProofs` | TLAPS: types, what a status records, and refinement of `LocalResource` |
| `LocalResourceCreateProofs` | TLAPS: creates, pending creates and retries of `LocalResource` |
| `LocalResourceReadyProofs` | TLAPS: what an Available resource has on its branch |
| `Repo` | the Repo controller, one Repo between an origin and a target |
| `RepoProofs` | TLAPS: types, the recorded pair, the external name, one push |
| `Copier` | the walk of a sync over source and target trees, with templating |
| `CopierProofs` | TLAPS: types, and what a push leaves on the target |
| `CopierWalkProofs` | TLAPS: the tree the walk makes, its report, what it leaves alone, a second sync |
| `MCTransport`, `MCLocalResource`, `MCRepo`, `MCCopier` | the constants of the runs |

**Transport.** A goroutine goes from `Call` through taking the lock (`RLock`, or
`Announce` and `Drain`), `Install` of its client, `SetCaps`, one or two sessions
(`OpenSession`, `CloseSession`: a clone looks its branch up first), and back
through the defers (`RestoreCaps`, `RestoreClient`, `RUnlock` or `Unlock`).
`sync.RWMutex` is modelled as Go implements it, readers parked behind an
announced writer included, because that is what makes a nested read lock
deadlock. A session's end covers errors: they leave through the same defers.

**LocalResource.** One action per step that touches shared state: `Get`, the
`Observe` outcomes (`ObserveFails` covers the credentials read in Connect,
`ObserveMisses` a fromRef object that cannot be read for the hash of a commit, which
is then none of the current spec), `Report`; `BeginCreate`/`BeginUpdate`; `Clone`, `Write`, `MakeCommit`, `Push` and
its failures (`PushContended`, `PushReplyLost`, `SyncFails`, `CommitLost`); `RecordStatus`,
`RecordConflict`, `RecordFails`; `Done`. Deletion is `ObserveDeleting`, `Delete`
and `Release`: nothing is removed from the branch, the first reconcile says
Deleting and the next one lets the resource go. The environment edits sources,
writes metadata (`Touch`), pushes to the branch, crashes the process, removes
pending annotations, requests deletions, and creates another resource under the
name of one that is gone (`Recreate`). A branch is the sequence of its commits; a
commit hash is modelled by the history that ends in it, so "the recorded commit
is on the branch" is a prefix relation. A spec hash is the version of the source it
was computed from, a file's content is `ContentOf` that version: two versions may
share it, for an unused placeholder or a fromRef's resourceVersion changes the hash
alone. `CommitLost` is the line `git.go` 759-761: every error of `wt.Commit` is
reported as nothing to do, and the sync records the tip it cloned as a success. The
history variable `lost` remembers the resources of which the branch then had no
commit, until they push; no step reads it.

**Repo.** The same shape, with two reads in `Observe` (the origin's latest
commit, then the target's history), the clones of target and origin as separate
steps, the status as the pair of commits plus Ready and Synced, and deletion.
`Connect` fails while the Secrets are away (`LoseSecrets`, `RestoreSecrets`). A
Repo's commits carry no footer, so a target that is cut short, deleted or
recreated (`Rewrite`) is visible only by the recorded commit missing from it; the
origin can be force-pushed back as well (`OriginRewrite`). `override` is chosen
at the start, `enableUpdate` is set and cleared at any time. Commits carry the
era of the target in which they were made: a commit made anew after a rewrite is
another commit. `CommitLost` is the same error as above; `lost` remembers the pairs of
commits it made a sync record. go-git's fast-forward check accepts whatever is an ancestor of
the local branch, so a push restores a branch that was cut short since the clone;
the model does too.

**Copier.** What both controllers call between clone and commit. A sync `Begin`s
with the two clones and, without `spec.override`, the list of files it has to
leave alone; `EnterRoot`, `EnterDir` and `LeaveDir` are `copyDir` on a directory,
in the order of `ReadDir`, with a stack where the code recurses; `Skip` passes
over what is blocked and over links; `RefuseName` and `CopyFile` are `copyFile`
with its two kinds of fault, which are noted while the walk goes on; `Abort` is
every error the trees make of the walk, `IOFails` an error of reading or writing
anywhere in the sync; `RenderFailed` and `Copied` are how the walk ends; `Push` and `PushContended` are the commit and the push around it. Which files of
the target are blocked is decided on the source's names, by the target's paths
read as ignore patterns; a destination is rendered again as a whole on every
level, and not at all where `.krateoignore` matches the source. A name renders to
a name; a placeholder is what the engine's own delimiters enclose, in names as in
contents. A content is one of seven forms (plain, template, one that asks for the
time or an identifier, one with an undeclared value, one with such a value where
`Validate` does not look, broken, link), and what rendering makes of it depends on
the engine: a set of results, for sprig's `now` and `uuidv4` give another text each
time, and a hole where a value is missing and nobody objects (mustache never does). The
environment edits the source and its ignore file between syncs and pushes to the
target at any time. `Copier` repeats neither retries nor statuses of the
controllers; in their modules a copy is one step.

What provider-runtime does is not in this repository. It is modelled from what
the controllers rely on and say of it (`localresource.go` 609-623, `repo.go`
124-158, 229-236, 527-541) and from the semantics of the API server: a write from
a stale copy is refused, and an object written as a whole comes back with the
server's status.

## Runs

| Run | Question | Bounds |
| --- | --- | --- |
| `transport` | races, leaked settings, refinement of `TransportSpec`, does every caller return | 3 goroutines: a reader inside, a writer and a second reader or writer behind it, the fewest that show writer preference; 5 operations, one per kind of lock request; no symmetry, for the sake of liveness |
| `localresource` | what status, annotations and branch say of each other; refinement of `PublishSpec` | a branch that is missing, empty, or holds `b`'s file from another hand (so that its create commits nothing); 2 resources (`a` synced and overriding, `b` one-shot from a fromRef); any two of an edit, a metadata write, a fault (a lost commit among them), a crash, a foreign push, a re-creation; `a` deleted at any time; 2 push and 2 status attempts |
| `localresource_live` | do sources reach the branch, is a deleted resource released, and do the controllers settle | 2 synced resources, `a` overriding and deleted, `b` not overriding; a branch that holds `a`'s file as an edit would have it; three versions, the third with the content of the first; any two of two edits, a fault, a re-creation; 3 status attempts |
| `repo` | the recorded pair, one-shot, the external name | override or not; the origin moves once; any three of a foreign push, a target rewrite, an origin rewrite, an outage, lost Secrets, a fault, a change of `enableUpdate`, a metadata write, a crash; deletion at any time |
| `repo_live` | truth of Ready, publication, release | an overriding Repo; the origin moves once; any three of a foreign push, a rewrite, an outage that may last, lost Secrets, a fault, a change of `enableUpdate`; deletion |
| `copier` | the tree a copy makes, made twice, and its report | seven names: plain, rendering to another, to none, a pattern that matches another and not itself; sources of one file of any form in nine places, or three files that meet in one place; three targets; five requests; three ignore files; two results of a volatile file; one edit, one sync, one fault, one foreign push |
| `localresource_revert`, `localresource_fromref`, `localresource_newbranch`, `localresource_recreated`, `repo_commit_lost`, `copier_report` | the findings below, by a violation | one resource, the one disturbance that matters |

Two writers suffice for contention, since a loser only sees that the branch is
not what it cloned. Each disturbance is bounded by one and all of them by two or
three (`MaxUpsets`), so that every pair, or every three, of different
disturbances meets in every order. The retry limits (6 and 5 in the code) are set
to 2 or 3 so that exhausting them is within the bounds of the disturbances that
spend them. `copier` runs one sync because nothing of a sync outlives it but the
target: `ResyncOnlyRestamps` applies the declarative reading to the result, and
the three targets stand for what earlier syncs and others have left.
`MCRepo*.cfg` and `MCCopier*.cfg` switch deadlock checking off because a released
Repo stops, and a copier without a sync left does too.

Properties. `TypeOK` of each module.

- Transport: `NoRegistryRace`, `OwnSettings`, `DefaultsRestored`,
  `ImplementsAbstract`, `EveryCallReturns`.
- LocalResource: `RecordedIsOnBranch` (a recorded commit was pushed and not
  overtaken), `CreatesOnlyUnpublished` (lost answers, failed records and crashes
  are made up for by the footers, never by another create), `WedgedOnlyByCrash`,
  `RetriesArePaid` (each re-clone is paid for by somebody's landed push, hence
  contention alone makes progress; it counts all pushes there ever were),
  `AvailableIsPublished` (but for the lost), `ImplementsPublish`,
  `SourcesArePublished` (of synced, overriding resources, but for those taken at
  their word: no footer names them and their record is all `Observe` has, because
  their create committed nothing), `DeletedIsReleased`, `Settles` (an update that is
  repeated for ever is futile: no commit has the hash of the spec, and none will,
  because the file is left alone or is already right); refuted:
  `RecordedBranchExists`, `CreatedIsPublished`. The exceptions are findings 8 to 10.
- Repo: `RecordIsConsistent` (but for the lost pairs), `SucceededIsNamed`,
  `OneShot` (nothing is pushed by a Repo that has a record of a push; a push whose
  answer is lost leaves none), `ReadyIsTruthful`, `OriginIsPublished` (but for the
  lost pairs; in a run where the origin is not forced back, since nobody claims that
  a commit the origin goes back to is published), `DeletedIsReleased` (under the
  assumption that the Secrets come back: a Repo deleted after its Secrets is never
  released); refuted: `UpdatesArePushed`, the same without the exception.
- Copier: `CopyIsOverlay` (the walk against a reference without a walk),
  `ResyncOnlyRestamps` (a copy of the same source on its own result changes
  nothing but files that ask for the time or an identifier; it needs the order of
  `ReadDir`, in which `{` comes after the letters), `EveryFaultIsReported`,
  `SyncsOnlyAdd` (a push removes nothing, and publishes nothing of a file that was
  found at fault; holes are published where nothing finds them, under mustache and
  where `Validate` does not look), `AdditiveLeavesOthers` (but for names that are no
  pattern of themselves); refuted: `FaultsReachTheStatus`.

Fairness. `Transport`: each goroutine that can go on does, and the mutex between
writers is not withheld for ever (Go hands it over to a starved waiter); that
sessions end is an assumption, the code sets no deadline. The controllers: weak
fairness of the reconcile of each resource, justified by the poll interval and
the workqueue. Nothing is assumed of the environment: it may stop, an outage may
last, and no human repairs anything. Disturbances are bounded in number, so the
liveness properties say what the code reaches once they are over. `Copier` states
no fairness: whether a sync is run again is its controllers' business.

## Findings

By a run that expects a violation:

1. `localresource_revert`: a source that returns to an earlier version is not
   published: an old commit's footer matches.
2. `localresource_fromref`: content and footer hash are separate reads of the
   fromRef object; a change in between is never corrected.
3. `localresource_newbranch`: a new branch whose parent already holds the file is
   recorded as published and never created.
4. `localresource_recreated`: a one-shot resource created under the name of a
   deleted one is taken for it, by its footers, and never published.
5. `repo_commit_lost`: the commit of an update fails, is taken for nothing to do,
   and the origin's newer commit is recorded as published and never pushed.
6. `copier_report`: a directory whose name cannot be rendered ends the walk with
   an error of its own, and the files found at fault before it are not reported.

By a property that holds, where a document says otherwise:

7. `CopyIsOverlay`: files that `.krateoignore` matches are copied, only not
   rendered.
8. `AvailableIsPublished`: the same lost commit in the create of a LocalResource
   leaves it Available with no file on the branch.
9. `SourcesArePublished`: a create whose file the branch already holds leaves no
   footer, and later edits of the source are never compared.
10. `Settles`: an update that can commit nothing (`override: false`, or a change of
    the hash alone) is repeated for ever.
11. `AdditiveLeavesOthers`: with `override: false` a file that is in the target is
    never updated, the resource's own included.
12. `SyncsOnlyAdd`: no sync removes a file, where the documents speak of deleting
    all other files.
13. `CopyIsOverlay`: names are rendered with the engine's own delimiters, where the
    document says `{{ }}` whatever the engine.

The quotations are in `PROJECT.json`.

## Proofs

**`TransportProofs`** proves, for any set of goroutines, cookies and operations,
the safety properties and the refinement of the run `transport`. `NoRegistryRace`
and `OwnSettings` are not inductive: they need to know who holds the lock from
where each goroutine stands, and what the globals must be at each of those
places. `IInv` says so: a goroutine inside is a reader, or the writer after its
drain with no reader inside; the globals are the writer's where it has installed
them, the defaults everywhere else; the saved capability list is the default one.
Theorem `Invariance` proves it, `TypeCorrect`, `RegistryNeverRaces`,
`SessionsUseOwnSettings` and `GlobalsAreRestored` follow, and
`TransportImplementsSpec` maps each step to a step or stutter of `TransportSpec`.
Assumed: `ConstantsAssumption`.

**`LocalResourceProofs`** proves properties of the run `localresource`, for any
set of resources, files, versions and bounds, deletion and re-creation included.

- `TypeCorrect`. Inductive once strengthened by `SourceIsHeld`: a reconcile that
  has begun holds the source it is going to write, unless it reads it from the
  cluster. The histories need lemmas of their own about prefixes and the oldest
  matching commit of the footer walk.
- `ImplementsPublishSpec`, the refinement of `PublishSpec`. `SyncInv` says what a
  sync has made in its clone at each place: a clone of the branch (or of its
  parent), then a worktree that differs in its own file at most, then one commit
  on top. A push that finds the branch where it was cloned adds that commit.
- `RecordsArePushed`. Not inductive as it stands, since a status is written from
  a copy and a copy may take a commit from the name, from the walk or from the
  clone: `RecordInv` says that every commit a resource names, on the server or in
  a copy, and every clone not yet committed to, is a prefix of the branch; and the
  branch only grows, by `ImplementsPublishSpec`. The theorem assumes that no
  target branch has to be made from another one, `CloneFrom = << >>` or no initial
  branch is missing. Without that it is false: finding 3.

**`LocalResourceCreateProofs`** adds what needs several of these together.

- `CreatesPublishOnce` (`CreatesOnlyUnpublished`): `CreateInv` says of a create,
  from Observe's decision to the push, that no commit names the resource; a
  commit that does can only come from a push of its own, which ends the create.
- `OnlyCrashesWedge` (`WedgedOnlyByCrash`): `Paid` counts. In the status write
  the attempts used up, and one more when the copy is stale, are at most the
  edits, foreign writes and the deletion request so far; every other way out of a
  create leaves an outcome.
- `AttemptsAreAfforded` (`RetriesArePaid`): `Afforded` says that a sync's attempts,
  plus what the branch has grown by since its clone, are at most one more than
  what others have landed; a contended push has seen the branch grow.

The first and the last again assume a branch that is not made from another one.

**`LocalResourceReadyProofs`** proves `AvailableResourcesAreHeld`
(`AvailableIsPublished`): an Available resource has its file on the branch, or lost
the commit of its create.
Observe never looks at the file, so the invariant has to say what a footer stands
for. `HeldInv`: what any commit of the branch shows of a file, the file itself or
the footer of a resource that writes it, the tip holds (`Keeps`); a condition, a
copy of one or a recorded commit means that the branch holds the file, unless the resource is
among the lost; and a worktree about to be committed has it. With `SyncInv` and `RecordInv` this is
inductive: a push puts a commit on top that takes nothing away, and its footer is
true. Hypotheses: a branch that is not made from another one, as before (finding 3),
and initial branches of which `Keeps` holds. The environment of the model never removes a file from the branch; a
writer that does would make the property false, and the code would not notice
(a hazard without a property in `PROJECT.json`).

Assumed: `ResourceAssumption`. The environment of `LocalResource` does not rewrite
history; in `Repo` it does.

**`RepoProofs`** proves the safety properties of the run `repo`, for any target
branch and any bounds. `TypeInv` adds to the types those of the counters, for a
commit's era is the number of rewrites spent. The other three are not inductive:
each rests on what a reconcile holds at each of its places.

- `RecordsBelongTogether`: `RecordInv` says that the pair belongs together in the
  copy of a running reconcile as well as on the status, and that the worktree and
  the local branch hold what the sync has copied from the origin it cloned
  (`SyncInv`); a push or an empty commit then records a pair that does, and a lost
  commit a pair that is remembered.
- `CreatesAreNamed`: `NameInv` says that a sync that has pushed, or found nothing
  to push, carries a commit as external name; the copy after a conflicting status
  write still does.
- `PushesOnce`: `FreshInv` says that a reconcile that has decided to create found
  neither status nor name recording a commit, and that this is still so until it
  has pushed, because no other step but its own records one; only `enableUpdate`
  leads to an update.

Assumed: `RepoAssumption`.

**`CopierProofs`** proves, for any trees, names, values, requests and bounds:

- `TypeCorrect`: the walk stays on paths made of names, whatever these render to.
  It is inductive once it also says that a walk that has not ended is in a
  directory; its lemmas say that the first entry of a directory exists and is one
  (a least rank, by well-foundedness), and what entering and rendering return.
- `PushesAdd` (`SyncsOnlyAdd`): `TreeInv` says of every file of the worktree that
  it is the clone's, or a rendition of a source file that is without fault or
  among the errors noted; when a push begins there are none.

**`CopierWalkProofs`** proves the other four properties of the run `copier`, for
any trees, names, ignore files, requests and bounds. The reference of these
properties has no walk: it speaks of all source files at once. Between the two
stands what is *done*: the files that are copied in the end less those that some
directory on the stack still awaits (`Done`). `WalkInv` says of a walk on its way:

- `Frames`: each directory on the stack is an entry of the one before it, its
  destination is its path's, unblocked, and what it has still to do comes later in
  the order of `ReadDir`;
- `Sorted`: what is done comes before what is not, in the order of paths;
- `Written`: the worktree is the overlay of what is done, the last of several
  files with one destination;
- `Listed`: the errors are the files at fault of what is done, in that order.

`CloneInv` says that the clones and the list of files to be left alone stay as
they were at `Begin`. A step takes one file from what is to come to what is done,
or skips what is blocked, or enters or leaves a directory and changes nothing of
it (`DoneCopying`, `DoneSkipping`, `FramesEnter`, `LeavingFrames`). At the end of
the walk nothing is awaited, and what is done is everything.

- `CopiesAreOverlays` (`CopyIsOverlay`) is `Written` there, `FaultsAreReported`
  (`EveryFaultIsReported`) is `Listed`.
- `OthersAreLeftAlone` (`AdditiveLeavesOthers`) follows for the file a push
  changes: its destination is that of a file that is not blocked.
- `ResyncsOnlyRestamp` (`NoPlaceholderIsLeft => ResyncOnlyRestamps`): the file that
  stays at a destination in the first sync is copied by the second one as well
  (`LastIsCopiedAgain`), and is the last there again; what it is made of is the same
  set, of one result or of the stamps (`MadeOnce`).

The hypotheses are about the values that placeholders render to, none is about
the walk, and the constants of the run `copier` meet those that speak of constants
alone:

- `RendersOnce` (all four): what a name renders to has no placeholder left. The
  code renders a destination again as a whole on every level, so a value that
  itself contains a placeholder is expanded once more in each directory below,
  and the depth of a file decides on its name. The documents show no such value.
- `RendersToEarlier` (the last): a name with a placeholder sorts after what it
  renders to. `{` comes after the letters and digits; a value that begins with
  `{`, `|`, `}`, `~` or a character beyond ASCII need not sort so.
- `PatternsSparePlaceholders` (the last): as ignore pattern, no name matches a name
  with a placeholder but itself. A target file such as `*` would block the one and
  not what it renders to.
- `NoPlaceholderIsLeft` (the last, of the sync at hand): in a sync that renders,
  no name with a placeholder is copied as it is. `.krateoignore` can switch
  rendering off for a directory and everything in it; then such a name is in the
  target, and without `spec.override` it may block on the second sync what
  the first has copied.

Assumed: `CopierAssumption`. It asks that initial trees are trees: what is a file
is not a directory as well.

Only model-checked: liveness (`EveryCallReturns`, `SourcesArePublished`,
`DeletedIsReleased`, `Settles`, `ReadyIsTruthful`, `OriginIsPublished`), which is
out of the prover's reach. Every safety property of a passing run is stated by a
theorem.

## Not modelled, and what is left

- Management policies: whether the runtime asks for them is not visible in the
  source here; all actions are allowed.
- Several resources that publish the same file, and target histories rewritten
  under a LocalResource (the documents give each file one owner).
- Composition of the controllers with `Transport`: a session that never ends
  blocks everything behind it, and the code promises nothing against it.
- Two processes: leader election is off by default; the branch is guarded by git,
  `transportMu` by nobody.
- `localfs`: default file names, jq filters and serialisation; credentials: which
  Secret each `authMethod` needs; the templating scanner's positions and messages.
- The `.git` of the clones. `fromRepo.path` and `toRepo.path` default to the root,
  and with both at the root and `override` the origin's `.git` is copied over the
  target's before the commit; the documents warn of it (`docs/repo.md` 79,
  `docs/local-resource.md` 192) and the code emits a warning (`repo.go` 455-460).
  The properties speak of the other syncs.
- Names with a placeholder nobody declared, which come out as `<no value>`: a
  hazard without a property.
- `UpdateIndex` (file modes), `Pull` and `Exists` of the git client: the first
  changes no content, the others are not called by a reconcile.
- Generated code, flags and start-up: no behaviour of their own.

Next, in this order: an abstract specification of what a Repo's status promises;
several writers of one file.
