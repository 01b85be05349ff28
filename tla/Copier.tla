--------------------------------- MODULE Copier ---------------------------------
(***************************************************************************)
(* The copy of a source tree into a target repository                      *)
(* (internal/tools/copier/copier.go), as the syncs of both controllers run *)
(* it: clone both, list what the target already has unless spec.override,  *)
(* walk the source, render names and contents on the way, and commit and   *)
(* push only when every file could be rendered.                            *)
(*                                                                         *)
(* The walk goes through one directory at a time, in the order of the      *)
(* names.  A file at fault is noted and the walk goes on; a directory      *)
(* whose name cannot be rendered, or a name that is a directory here and a *)
(* file there, ends it.  Others push to the target during a sync, and      *)
(* between two syncs the source, its .krateoignore and the annotations of  *)
(* the resource change.                                                    *)
(*                                                                         *)
(* Abstracted: a path is the sequence of its names; a placeholder, between *)
(* the delimiters of the engine, does not span a separator, and a name     *)
(* renders to one name; a content is its form; the .krateoignore is the    *)
(* set of source paths its patterns match; target paths are absolute;      *)
(* commits, footers, retries and the status write are in the controllers'  *)
(* own modules.  The clones' own .git is in neither tree: a walk from root *)
(* to root with spec.override, which the docs warn of, is out of scope.    *)
(***************************************************************************)
EXTENDS Naturals, SequencesExt

CONSTANTS Name, Rank,     \* the names of files and directories, and their order in ReadDir
          Value, Bad,     \* what a name renders to, Bad when it cannot be rendered
          Matched,        \* the names each name matches when read as an ignore pattern
          TargetPath,     \* spec.toRepo.path
          Request,        \* what a resource can ask of its sync
          InitialSources, \* the source, its .krateoignore and its kind at first
          InitialTargets,
          \* Bounds of the model.
          SourcePaths, OtherPaths, IgnoreSets, MaxEdits, MaxSyncs, MaxOthers, MaxFaults

Path == Seq(Name)
Engines == {"", "none", "gotemplate", "mustache", "typo"}
Kinds == {"Repo", "LocalResource"}

\* A file without placeholders, with resolved ones, with the time or an identifier, with a
\* value nobody declared, with one where Validate does not look, one that is no template,
\* and a symbolic link.
SourceContent == {"plain", "template", "volatile", "undeclared", "hidden", "broken", "symlink"}

\* What a volatile file can come to.
Stamps == {"stamped1", "stamped2"}

\* And what rendering makes of a file, or others write.
Content == SourceContent \union Stamps \union {"rendered", "gutted", "empty", "foreign"}

IsFiles(f) == DOMAIN f \subseteq Path /\ f \in [DOMAIN f -> Content]

\* What is a file is no directory.
IsTree(f) == IsFiles(f) /\ \A p, q \in DOMAIN f : IsPrefix(p, q) => p = q

ASSUME CopierAssumption ==
          /\ Rank \in [Name -> Nat]
          /\ \A m, n \in Name : Rank[m] = Rank[n] => m = n
          /\ Bad \notin Name
          /\ Value \in [Name -> Name \union {Bad}]
          /\ Matched \in [Name -> SUBSET Name]
          /\ TargetPath \in Path
          /\ Request \subseteq [engine : Engines, delims : {"ok", "malformed"},
                                values : BOOLEAN, override : BOOLEAN]
          /\ \A first \in InitialSources : /\ first.kind \in Kinds
                                           /\ IsTree(first.source)
                                           /\ << >> \notin DOMAIN first.source
                                           /\ first.ignore \subseteq Path
          /\ \A files \in InitialTargets : IsTree(files)
          /\ SourcePaths \subseteq Path \ {<< >>}
          /\ OtherPaths \subseteq Path
          /\ IgnoreSets \subseteq SUBSET Path

VARIABLES
  kind,      \* Repo or LocalResource
  source,    \* the files of the source: of the origin's branch, or the one local file
  ignore,    \* the source paths .krateoignore matches
  published, \* the files of the target branch on the server
  reports,   \* status.templatingErrors: the files it lists
  pc,
  \* The sync:
  request,   \* what the resource asked for
  from,      \* the source as cloned, and below it the walk
  base,      \* the target as cloned
  tree,      \* the files of the target's worktree
  made,      \* the directories the walk has made
  blocked,   \* the target's files, as ignore patterns
  stack,     \* the directories the walk is in: source, destination, names to come
  errors,    \* the source files that could not be rendered, in the order of the walk
  \* How much of each bound is spent:
  spent

repository == <<kind, source, ignore>>
walk == <<from, base, blocked>>
vars == <<repository, published, reports, pc, request, walk, tree, made, stack, errors, spent>>

----------------------------------------------------------------------------------
(* The templating pass a sync installs (templatingOptions).                *)

Refuses(k, r) ==
  IF k = "Repo"
    THEN r.values /\ \/ r.engine = "typo"
                     \/ r.engine = "gotemplate" /\ r.delims = "malformed"
    ELSE r.delims = "malformed" \/ r.engine \in {"mustache", "typo"}

Pass(k, r) ==
  IF k = "Repo"
    THEN CASE ~r.values \/ r.engine = "none" -> "none"
           [] r.engine = "gotemplate" -> "gotemplate"
           [] OTHER -> "mustache"
    ELSE CASE r.engine = "gotemplate" \/ (r.engine = "" /\ r.values) -> "gotemplate"
           [] OTHER -> "none"

\* A source path is rendered, name and content, unless .krateoignore matches it.
Renders(s) == Pass(kind, request) # "none" /\ s \notin ignore

\* A destination is rendered as a whole: the directories in it once more.
RenderedPath(s, p) == IF Renders(s) THEN [i \in DOMAIN p |-> Value[p[i]]] ELSE p

Renderable(s, p) == Renders(s) => \A i \in DOMAIN p : Value[p[i]] # Bad

(* What the renderer can write for a file: nothing for one it refuses, a   *)
(* hole for a value it does not have, and for a Go template with the time  *)
(* or an identifier (sprig's now and uuidv4) another text each time.       *)
Rendition(s, c) ==
  IF Renders(s)
    THEN CASE c = "template" -> {"rendered"}
           [] c = "volatile" /\ Pass(kind, request) = "gotemplate" -> Stamps
           [] c \in {"volatile", "undeclared", "hidden"} -> {"gutted"}
           [] c = "broken" -> {"empty"}
           [] OTHER -> {c}
    ELSE {c}

(* Whether a file counts as failed: the renderer refuses it, or Validate    *)
(* finds a value nobody declared in the Go template it did render.  It does *)
(* not look at {% $.x %} nor into a define block.                           *)
Fault(s, c) == Renders(s) /\ \/ c = "broken"
                             \/ c = "undeclared" /\ Pass(kind, request) = "gotemplate"

----------------------------------------------------------------------------------
(* The trees.                                                              *)

IsFileOf(files, p) == p \in DOMAIN files

IsDirOf(files, p) == \E q \in DOMAIN files : IsStrictPrefix(p, q)

Children(s) == {q[Len(s) + 1] : q \in {q \in DOMAIN from : IsStrictPrefix(s, q)}}

\* Mutant: the names as they come.
FirstUnsorted(names) == CHOOSE n \in names : \A m \in names : Rank[m] <= Rank[n]

\* The order of ReadDir.
First(names) == CHOOSE n \in names : \A m \in names : Rank[n] <= Rank[m]

Under(p, files) == {q \in DOMAIN files : IsPrefix(p, q)}

(* A file of the target as a line of an ignore file matches itself and what *)
(* is below it; but a name such as [a] is a pattern, and matches others.    *)
Matches(f, p) == Len(f) <= Len(p) /\ \A i \in DOMAIN f : p[i] \in Matched[f[i]]

Odd == {n \in Name : n \notin Matched[n]}

\* Mutant: only the copied path's own files are looked up.
BlockedAtTop(s) == Len(s) = 1 /\ \E f \in blocked : Matches(f, TargetPath \o s)

\* The source's name is looked up, not what it renders to.
Blocked(s) == \E f \in blocked : Matches(f, TargetPath \o s)

\* MkdirAll and Create, which makes the directories above the file.
CanMake(p) == \A q \in Prefixes(p) : ~IsFileOf(tree, q)
CanCreate(p) == CanMake(Front(p)) /\ p \notin made /\ ~IsDirOf(tree, p)

Put(p, c) == [q \in DOMAIN tree \union {p} |-> IF q = p THEN c ELSE tree[q]]

----------------------------------------------------------------------------------
NoFiles == [p \in {} |-> "plain"]
NoRequest == [engine |-> "", delims |-> "ok", values |-> FALSE, override |-> FALSE]

Init == /\ \E first \in InitialSources : /\ kind = first.kind
                                         /\ source = first.source
                                         /\ ignore = first.ignore
        /\ published \in InitialTargets
        /\ reports = {}
        /\ pc = "idle"
        /\ request = NoRequest
        /\ from = NoFiles
        /\ base = NoFiles
        /\ tree = NoFiles
        /\ made = {}
        /\ blocked = {}
        /\ stack = << >>
        /\ errors = << >>
        /\ spent = [b \in {"edits", "syncs", "others", "faults"} |-> 0]

Spend(bound, max) == /\ spent[bound] < max
                     /\ spent' = [spent EXCEPT ![bound] = @ + 1]

\* The sync ends, with a status and nothing else to show for it.
Forget == /\ pc' = "idle"
          /\ request' = NoRequest
          /\ from' = NoFiles
          /\ base' = NoFiles
          /\ tree' = NoFiles
          /\ made' = {}
          /\ blocked' = {}
          /\ stack' = << >>
          /\ errors' = << >>

(* A sync clones both repositories.  An annotation it does not understand, *)
(* or a target path that is a file, ends it before it has copied anything. *)
Begin(r) ==
  /\ pc = "idle"
  /\ Spend("syncs", MaxSyncs)
  /\ ~Refuses(kind, r)
  /\ r.override \/ ~IsFileOf(published, TargetPath)
  /\ request' = r
  /\ from' = source
  /\ base' = published
  /\ tree' = published
  /\ blocked' = IF r.override THEN {} ELSE Under(TargetPath, published)
  /\ pc' = "copy"
  /\ UNCHANGED <<repository, published, reports, made, stack, errors>>

\* MkdirAll, and the walk goes on in the directory.
Enter(outer, s, p) ==
  /\ made' = made \union Prefixes(p)
  /\ stack' = Append(outer, [src |-> s, dst |-> p, todo |-> Children(s)])

\* copyDir of the copied path itself.
EnterRoot ==
  /\ pc = "copy"
  /\ DOMAIN from # {}
  /\ Renderable(<< >>, TargetPath)
  /\ CanMake(RenderedPath(<< >>, TargetPath))
  /\ Enter(<< >>, << >>, RenderedPath(<< >>, TargetPath))
  /\ pc' = "walk"
  /\ UNCHANGED <<repository, published, reports, request, walk, tree, errors, spent>>

\* The next entry of the directory the walk is in.
Entering == pc = "walk" /\ Last(stack).todo # {}
Entry == First(Last(stack).todo)
Src == Append(Last(stack).src, Entry)
Dst == Append(Last(stack).dst, Entry)

\* The entry is done with.
Past == [stack EXCEPT ![Len(stack)].todo = @ \ {Entry}]

\* Mutant: a directory's name is left as it is.
EnterDirUnrendered ==
  /\ Entering
  /\ IsDirOf(from, Src)
  /\ ~Blocked(Src)
  /\ CanMake(Dst)
  /\ Enter(Past, Src, Dst)
  /\ UNCHANGED <<repository, published, reports, pc, request, walk, tree, errors, spent>>

EnterDir ==
  /\ Entering
  /\ IsDirOf(from, Src)
  /\ ~Blocked(Src)
  /\ Renderable(Src, Dst)
  /\ CanMake(RenderedPath(Src, Dst))
  /\ Enter(Past, Src, RenderedPath(Src, Dst))
  /\ UNCHANGED <<repository, published, reports, pc, request, walk, tree, errors, spent>>

LeaveDir ==
  /\ pc = "walk"
  /\ Last(stack).todo = {}
  /\ stack' = Front(stack)
  /\ pc' = IF Len(stack) = 1 THEN "walked" ELSE "walk"
  /\ UNCHANGED <<repository, published, reports, request, walk, tree, made, errors, spent>>

\* What the target already has is left alone, and a link is passed over.
Skip ==
  /\ Entering
  /\ \/ Blocked(Src)
     \/ IsFileOf(from, Src) /\ from[Src] = "symlink"
  /\ stack' = Past
  /\ UNCHANGED <<repository, published, reports, pc, request, walk, tree, made, errors, spent>>

File == Entering /\ IsFileOf(from, Src) /\ from[Src] # "symlink" /\ ~Blocked(Src)

\* A file whose name cannot be rendered is noted, its content not looked at.
RefuseName ==
  /\ File
  /\ ~Renderable(Src, Dst)
  /\ errors' = Append(errors, Src)
  /\ stack' = Past
  /\ UNCHANGED <<repository, published, reports, pc, request, walk, tree, made, spent>>

\* Mutant: a name that cannot be rendered is used all the same.
CopyFileUnnamed ==
  /\ File
  /\ \E c \in Rendition(Src, from[Src]) : tree' = Put(RenderedPath(Src, Dst), c)
  /\ errors' = IF Fault(Src, from[Src]) THEN Append(errors, Src) ELSE errors
  /\ stack' = Past
  /\ UNCHANGED <<repository, published, reports, pc, request, walk, made, spent>>

\* Mutant: the walk ends at the first file at fault.
CopyFileToFirstFault ==
  /\ File
  /\ Renderable(Src, Dst)
  /\ CanCreate(RenderedPath(Src, Dst))
  /\ \E c \in Rendition(Src, from[Src]) : tree' = Put(RenderedPath(Src, Dst), c)
  /\ made' = made \union Prefixes(Front(RenderedPath(Src, Dst)))
  /\ errors' = IF Fault(Src, from[Src]) THEN Append(errors, Src) ELSE errors
  /\ pc' = IF Fault(Src, from[Src]) THEN "walked" ELSE pc
  /\ stack' = IF Fault(Src, from[Src]) THEN << >> ELSE Past
  /\ UNCHANGED <<repository, published, reports, request, walk, spent>>

\* The file is created, rendered into, and then found to be at fault or not.
CopyFile ==
  /\ File
  /\ Renderable(Src, Dst)
  /\ CanCreate(RenderedPath(Src, Dst))
  /\ \E c \in Rendition(Src, from[Src]) : tree' = Put(RenderedPath(Src, Dst), c)
  /\ made' = made \union Prefixes(Front(RenderedPath(Src, Dst)))
  /\ errors' = IF Fault(Src, from[Src]) THEN Append(errors, Src) ELSE errors
  /\ stack' = Past
  /\ UNCHANGED <<repository, published, reports, pc, request, walk, spent>>

(* The copied path is not there, a directory's name cannot be rendered, or *)
(* the worktree has a file where a directory should be, or the other way   *)
(* round: the copy ends there, and the status keeps the report it had.     *)
Abort ==
  /\ \/ /\ pc = "copy"
        /\ \/ DOMAIN from = {}
           \/ ~Renderable(<< >>, TargetPath)
           \/ ~CanMake(RenderedPath(<< >>, TargetPath))
     \/ /\ Entering
        /\ IsDirOf(from, Src)
        /\ ~Blocked(Src)
        /\ ~Renderable(Src, Dst) \/ ~CanMake(RenderedPath(Src, Dst))
     \/ /\ File
        /\ Renderable(Src, Dst)
        /\ ~CanCreate(RenderedPath(Src, Dst))
  /\ Forget
  /\ UNCHANGED <<repository, published, reports, spent>>

(* RenderFailed: the files at fault go to the status, and nothing is        *)
(* committed (what the runtime makes of the status after a failed Create    *)
(* is not modelled).                                                        *)
RenderFailed ==
  /\ pc = "walked"
  /\ errors # << >>
  /\ reports' = ToSet(errors)
  /\ Forget
  /\ UNCHANGED <<repository, published, spent>>

\* Mutant: what could be rendered is pushed.
CopiedInPart ==
  /\ pc = "walked"
  /\ reports' = ToSet(errors)
  /\ pc' = "push"
  /\ UNCHANGED <<repository, published, request, walk, tree, made, stack, errors, spent>>

Copied ==
  /\ pc = "walked"
  /\ errors = << >>
  /\ reports' = {}
  /\ pc' = "push"
  /\ UNCHANGED <<repository, published, request, walk, tree, made, stack, errors, spent>>

\* The commit holds the worktree; without changes there is none.
Push ==
  /\ pc = "push"
  /\ published = base
  /\ published' = tree
  /\ Forget
  /\ UNCHANGED <<repository, reports, spent>>

\* Somebody pushed in between: the sync fails, or starts over.
PushContended ==
  /\ pc = "push"
  /\ published # base
  /\ Forget
  /\ UNCHANGED <<repository, published, reports, spent>>

(* .krateoignore or a file cannot be read, a directory or file not made,   *)
(* the commit or the push fails.                                           *)
IOFails ==
  /\ pc \in {"copy", "walk", "push"}
  /\ Spend("faults", MaxFaults)
  /\ Forget
  /\ UNCHANGED <<repository, published, reports>>

Sync == \/ \E r \in Request : Begin(r)
        \/ EnterRoot \/ EnterDir \/ LeaveDir \/ Skip
        \/ RefuseName \/ CopyFile \/ Abort \/ IOFails
        \/ RenderFailed \/ Copied \/ Push \/ PushContended

----------------------------------------------------------------------------------
(* Everyone else.                                                          *)

\* A file is added to the source, changed or removed, between two syncs.
Edit ==
  /\ pc = "idle"
  /\ kind = "Repo"
  /\ Spend("edits", MaxEdits)
  /\ \/ \E p \in SourcePaths, c \in SourceContent :
          /\ \A q \in DOMAIN source : q = p \/ ~(IsPrefix(p, q) \/ IsPrefix(q, p))
          /\ source' = [q \in DOMAIN source \union {p} |-> IF q = p THEN c ELSE source[q]]
          /\ UNCHANGED ignore
     \/ \E p \in DOMAIN source :
          /\ source' = [q \in DOMAIN source \ {p} |-> source[q]]
          /\ UNCHANGED ignore
     \/ /\ ignore' \in IgnoreSets
        /\ UNCHANGED source
  /\ UNCHANGED <<kind, published, reports, pc, request, walk, tree, made, stack, errors>>

\* Somebody else pushes a file to the target.
OtherPush ==
  /\ Spend("others", MaxOthers)
  /\ \E p \in OtherPaths :
       /\ \A q \in DOMAIN published : q = p \/ ~(IsPrefix(p, q) \/ IsPrefix(q, p))
       /\ published' = [q \in DOMAIN published \union {p} |->
                          IF q = p THEN "foreign" ELSE published[q]]
  /\ UNCHANGED <<repository, reports, pc, request, walk, tree, made, stack, errors>>

Next == Sync \/ Edit \/ OtherPush

Spec == Init /\ [][Next]_vars
----------------------------------------------------------------------------------
(* What a copy comes to, without a walk.                                   *)

Blocks(files, s) == /\ ~request.override
                    /\ \E f \in Under(TargetPath, files) : Matches(f, TargetPath \o s)

Copies(files) == {s \in DOMAIN from : /\ from[s] # "symlink"
                                      /\ \A q \in Prefixes(s) : ~Blocks(files, q)}

\* A name on the way to a file is rendered when the file or a directory at or below it is.
Destination(s) ==
  LET above == Len(TargetPath)
      lowest(i) == IF i <= above THEN 0 ELSE i - above
      rendered(i) == \E j \in lowest(i)..Len(s) : Renders(SubSeq(s, 1, j))
  IN [i \in 1..(above + Len(s)) |-> LET n == (TargetPath \o s)[i] IN
                                       IF rendered(i) THEN Value[n] ELSE n]

Misnamed(s) == Renders(s) /\ \E n \in ToSet(TargetPath \o s) : Value[n] = Bad

\* ReadDir's order makes the walk's order.
Before(s, t) == \E i \in DOMAIN s \intersect DOMAIN t :
                   /\ \A j \in 1..(i - 1) : s[j] = t[j]
                   /\ Rank[s[i]] < Rank[t[i]]

(* What each file can come to: of the source files with the same            *)
(* destination, the last one stays.                                         *)
Overlay(files) ==
  LET written == {Destination(s) : s \in Copies(files)}
      last(p) == CHOOSE s \in Copies(files) :
                   /\ Destination(s) = p
                   /\ \A t \in Copies(files) : Destination(t) = p => t = s \/ Before(t, s)
  IN [p \in DOMAIN files \union written |->
        IF p \in written THEN Rendition(last(p), from[last(p)]) ELSE {files[p]}]

\* A copy into the files may come to the result.
IsOverlay(result, files) ==
  LET overlay == Overlay(files) IN /\ DOMAIN result = DOMAIN overlay
                                   /\ \A p \in DOMAIN result : result[p] \in overlay[p]

----------------------------------------------------------------------------------
(* Properties.                                                             *)

Frame == [src : Path, dst : Path, todo : SUBSET Name]

RepositoryTypes ==
  /\ kind \in Kinds
  /\ IsFiles(source)
  /\ ignore \subseteq Path
  /\ IsFiles(published)
  /\ reports \subseteq Path

SyncTypes ==
  /\ pc \in {"idle", "copy", "walk", "walked", "push"}
  /\ request \in Request \union {NoRequest}
  /\ IsFiles(from)
  /\ IsFiles(base)
  /\ IsFiles(tree)
  /\ made \subseteq Path
  /\ blocked \subseteq Path
  /\ stack \in Seq(Frame)
  /\ errors \in Seq(Path)

\* Every variable has its type.
TypeOK == RepositoryTypes /\ SyncTypes

(* The walk makes of the target what the declarative reading of the copy   *)
(* makes of it: every file that is not blocked, each at the name its path  *)
(* renders to, the last of several that share a name, and everything else  *)
(* as it was, however directories, ignored paths and rendered names nest.  *)
CopyIsOverlay == pc = "push" => IsOverlay(tree, base)

(* A second sync of the same source on top of the first changes nothing    *)
(* but the files of Go templates that ask for the time or an identifier:   *)
(* neither rendered names nor the files the first one has just added make  *)
(* it copy something else, which would have the controllers push again and *)
(* again.  It rests on the order of the walk, in which a name with a       *)
(* placeholder comes after the plain name it renders to, and on no name    *)
(* with one being copied as it is, below a directory that .krateoignore    *)
(* matches with everything in it, or matched by another's as a pattern.    *)
ResyncOnlyRestamps ==
  pc = "push" =>
    LET again == Overlay(tree) IN
    /\ DOMAIN again = DOMAIN tree
    /\ \A p \in DOMAIN tree : \/ again[p] = {tree[p]}
                              \/ again[p] = Stamps /\ tree[p] \in Stamps

(* A copy that has come to its end has every file at fault in its report,  *)
(* in the order of the walk, and no other.                                 *)
EveryFaultIsReported ==
  pc = "walked" =>
    /\ ToSet(errors) = {s \in Copies(base) : Misnamed(s) \/ Fault(s, from[s])}
    /\ \A i, j \in DOMAIN errors : i < j => Before(errors[i], errors[j])

Pushes == pc = "push" /\ pc' = "idle"

(* A push takes no file away from the target, on top of what others have   *)
(* pushed since the clone, and what it adds or changes is what rendering   *)
(* makes of a source file that it found no fault with: nothing of a file   *)
(* that the renderer refuses, nor, under gotemplate, of one with a value   *)
(* that Validate has seen nobody declare.  (A hole for such a value is      *)
(* published under mustache, and where Validate does not look.)            *)
SyncsOnlyAdd ==
  [][Pushes => /\ DOMAIN published \subseteq DOMAIN published'
               /\ \A p \in DOMAIN published' :
                    \/ p \in DOMAIN published /\ published'[p] = published[p]
                    \/ \E s \in DOMAIN from : /\ ~Fault(s, from[s])
                                             /\ published'[p] \in Rendition(s, from[s])]_vars

(* Without spec.override a push leaves the files of the target path alone, *)
(* those excepted whose name is a rendered one, or is not matched by itself *)
(* as an ignore pattern.                                                   *)
AdditiveLeavesOthers ==
  [][Pushes /\ ~request.override =>
       \A p \in Under(TargetPath, published) :
          \/ published'[p] = published[p]
          \/ \E i \in DOMAIN p : p[i] \in Odd
          \/ \E s \in DOMAIN from : Destination(s) = p /\ TargetPath \o s # p]_vars

(* The files a sync found at fault are on the status when it has ended     *)
(* (docs/repo.md, "Failures").                                             *)
FaultsReachTheStatus == [][pc # "idle" /\ pc' = "idle" => ToSet(errors) \subseteq reports']_vars
==================================================================================
