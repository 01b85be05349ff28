------------------------------ MODULE CopierProofs ------------------------------
(***************************************************************************)
(* Theorems about Copier, for any names, values, requests and trees: types; *)
(* and that a push takes nothing away and adds no file at fault.           *)
(*                                                                         *)
(* The second rests on TreeInv: whatever the walk has come to, each file   *)
(* of the worktree is the clone's, or a rendition of a source file that is *)
(* without fault or in the list of errors.                                 *)
(***************************************************************************)
EXTENDS Copier, SequenceTheorems, WellFoundedInduction, TLAPS

\* The walk is in a directory until it has ended.
TypeInv == TypeOK /\ (pc = "walk" => stack # << >>)

----------------------------------------------------------------------------------
(* What the walk's helpers return.                                         *)

\* The first entry of a directory is one of its entries, and before the others.
LEMMA FirstIsEntry ==
  ASSUME NEW names, names \subseteq Name, names # {}
  PROVE  First(names) \in names /\ \A m \in names : Rank[First(names)] <= Rank[m]
<1> DEFINE ranks == {Rank[n] : n \in names}
<1>1. ranks \subseteq Nat /\ ranks # {}
  BY CopierAssumption
<1>2. PICK i \in ranks : \A j \in ranks : ~ (<<j, i>> \in OpToRel(<, Nat))
  BY <1>1, WFMin, NatLessThanWellFounded
<1>3. \A j \in ranks : i <= j
  <2> TAKE j \in ranks
  <2>1. <<j, i>> \notin {ss \in Nat \X Nat : ss[1] < ss[2]}
    BY <1>2 DEF OpToRel
  <2>2. i \in Nat /\ j \in Nat
    BY <1>1
  <2> QED BY <2>1, <2>2
<1>4. \E n \in names : \A m \in names : Rank[n] <= Rank[m]
  BY <1>2, <1>3
<1> QED BY <1>4 DEF First

\* The paths above a path are paths.
LEMMA PrefixesType ==
  ASSUME NEW p \in Path
  PROVE  Prefixes(p) \subseteq Path
<1> SUFFICES ASSUME NEW l \in 0..Len(p)
             PROVE  SubSeq(p, 1, l) \in Path
  BY DEF Prefixes
<1>1. Len(p) \in Nat
  BY LenProperties DEF Path
<1>2. \A i \in 1..l : p[i] \in Name
  BY <1>1, ElementOfSeq DEF Path
<1> QED BY <1>1, <1>2, SubSeqProperties DEF Path

\* So is the directory of a file.
LEMMA FrontType ==
  ASSUME NEW S, NEW s \in Seq(S), s # << >>
  PROVE  /\ Front(s) \in Seq(S)
         /\ Len(s) \in Nat \ {0}
         /\ Len(Front(s)) = Len(s) - 1
<1>1. Len(s) \in Nat \ {0}
  BY EmptySeq
<1>2. \A i \in 1..(Len(s) - 1) : s[i] \in S
  BY <1>1, ElementOfSeq
<1>3. /\ SubSeq(s, 1, Len(s) - 1) \in Seq(S)
      /\ Len(SubSeq(s, 1, Len(s) - 1))
           = IF 1 <= Len(s) - 1 THEN Len(s) - 1 - 1 + 1 ELSE 0
  BY <1>1, <1>2, SubSeqProperties
<1>4. Front(s) = SubSeq(s, 1, Len(s) - 1)
  BY DEF Front
<1>5. Len(SubSeq(s, 1, Len(s) - 1)) = Len(s) - 1
  <2> DEFINE n == Len(s)
             l == Len(SubSeq(s, 1, n - 1))
  <2>1. n \in Nat \ {0} /\ l = IF 1 <= n - 1 THEN n - 1 - 1 + 1 ELSE 0
    BY <1>1, <1>3
  <2> HIDE DEF n, l
  <2>2. l = n - 1
    BY <2>1
  <2> QED BY <2>2 DEF l, n
<1> QED BY <1>1, <1>3, <1>4, <1>5

\* A path that can be rendered becomes a path.
LEMMA RenderedType ==
  ASSUME NEW s, NEW p \in Path, Renderable(s, p)
  PROVE  RenderedPath(s, p) \in Path
<1>1. CASE ~Renders(s)
  BY <1>1 DEF RenderedPath
<1>2. CASE Renders(s)
  <2>1. Len(p) \in Nat /\ DOMAIN p = 1..Len(p) /\ p \in [1..Len(p) -> Name]
    BY LenProperties DEF Path
  <2>2. \A i \in 1..Len(p) : Value[p[i]] \in Name
    BY <1>2, <2>1, CopierAssumption DEF Renderable
  <2>3. [i \in 1..Len(p) |-> Value[p[i]]] \in [1..Len(p) -> Name]
    BY <2>2
  <2>4. [i \in 1..Len(p) |-> Value[p[i]]] \in Seq(Name)
    BY <2>1, <2>3, SeqDef
  <2> QED BY <1>2, <2>1, <2>4 DEF RenderedPath, Path
<1> QED BY <1>1, <1>2

\* The entries of a directory are names.
LEMMA ChildrenType ==
  ASSUME IsFiles(from), NEW s \in Path
  PROVE  Children(s) \subseteq Name
<1> SUFFICES ASSUME NEW q \in DOMAIN from, IsStrictPrefix(s, q)
             PROVE  q[Len(s) + 1] \in Name
  BY DEF Children
<1>1. q \in Seq(Name) /\ s \in Seq(Name)
  BY DEF IsFiles, Path
<1>2. Len(s) \in Nat /\ Len(q) \in Nat
  BY <1>1, LenProperties
<1>3. Len(s) <= Len(q) /\ SubSeq(s, 1, Len(s)) = SubSeq(q, 1, Len(s)) /\ s # q
  BY DEF IsStrictPrefix, IsPrefix
<1>4. Len(s) # Len(q)
  <2> SUFFICES ASSUME Len(s) = Len(q) PROVE FALSE
    OBVIOUS
  <2>1. SubSeq(s, 1, Len(s)) = s /\ SubSeq(q, 1, Len(q)) = q
    BY <1>1, SubSeqFull
  <2> QED BY <1>3, <2>1
<1>5. Len(s) + 1 \in 1..Len(q)
  BY <1>2, <1>3, <1>4
<1> QED BY <1>1, <1>5, ElementOfSeq

\* A worktree with one more file.
LEMMA PutType ==
  ASSUME IsFiles(tree), NEW p \in Path, NEW c \in Content
  PROVE  /\ IsFiles(Put(p, c))
         /\ DOMAIN Put(p, c) = DOMAIN tree \union {p}
         /\ \A q \in DOMAIN Put(p, c) : Put(p, c)[q] = IF q = p THEN c ELSE tree[q]
BY DEF IsFiles, Put

LEMMA RenditionType ==
  ASSUME NEW s, NEW c \in Content
  PROVE  Rendition(s, c) \subseteq Content
BY DEF Rendition, Content, Stamps

\* Where the walk is, and where it goes on.
LEMMA EntryTypes ==
  ASSUME TypeInv, Entering
  PROVE  /\ Src \in Path
         /\ Dst \in Path
         /\ Past \in Seq(Frame)
         /\ Past # << >>
<1>1. stack \in Seq(Frame) /\ stack # << >> /\ pc = "walk" /\ Last(stack).todo # {}
  BY DEF TypeInv, TypeOK, SyncTypes, Entering
<1>2. Len(stack) \in 1..Len(stack)
  BY <1>1, FrontType
<1>3. Last(stack) \in Frame
  BY <1>1, <1>2, ElementOfSeq DEF Last
<1>4. Entry \in Name
  <2>1. Last(stack).todo \subseteq Name
    BY <1>3 DEF Frame
  <2> QED BY <1>1, <2>1, FirstIsEntry DEF Entry
<1>5. Src \in Path /\ Dst \in Path
  <2>1. Last(stack).src \in Seq(Name) /\ Last(stack).dst \in Seq(Name)
    BY <1>3 DEF Frame, Path
  <2> QED BY <1>4, <2>1, AppendProperties DEF Src, Dst, Path
<1>6. [Last(stack) EXCEPT !.todo = @ \ {Entry}] \in Frame
  BY <1>3 DEF Frame
<1>7. Past = [stack EXCEPT ![Len(stack)] = [Last(stack) EXCEPT !.todo = @ \ {Entry}]]
  BY <1>1, <1>2, LenProperties DEF Past, Last
<1>8. Past \in Seq(Frame) /\ Len(Past) = Len(stack)
  BY <1>1, <1>2, <1>6, <1>7, ExceptSeq
<1>9. Past # << >>
  BY <1>2, <1>8, EmptySeq
<1> QED BY <1>5, <1>8, <1>9

\* The walk enters a directory.
LEMMA EnterTypes ==
  ASSUME TypeInv, NEW outer \in Seq(Frame), NEW s \in Path, NEW p \in Path, Enter(outer, s, p)
  PROVE  made' \subseteq Path /\ stack' \in Seq(Frame) /\ stack' # << >>
<1>1. made \subseteq Path /\ IsFiles(from)
  BY DEF TypeInv, TypeOK, SyncTypes
<1>2. made' \subseteq Path
  BY <1>1, PrefixesType DEF Enter
<1>3. [src |-> s, dst |-> p, todo |-> Children(s)] \in Frame
  BY <1>1, ChildrenType DEF Frame
<1>4. stack' \in Seq(Frame) /\ stack' # << >>
  BY <1>3, AppendProperties DEF Enter
<1> QED BY <1>2, <1>4

\* A sync that has ended holds nothing.
LEMMA ForgetTypes ==
  ASSUME Forget
  PROVE  SyncTypes' /\ pc' = "idle"
<1>1. IsFiles(NoFiles)
  BY DEF IsFiles, NoFiles
<1>2. << >> \in Seq(Frame) /\ << >> \in Seq(Path)
  BY EmptySeq
<1> QED BY <1>1, <1>2 DEF Forget, SyncTypes

----------------------------------------------------------------------------------
(* Types.                                                                  *)

LEMMA InitTypes == Init => TypeInv
<1> SUFFICES ASSUME Init PROVE TypeInv
  OBVIOUS
<1>1. IsFiles(NoFiles)
  BY DEF IsFiles, NoFiles
<1>2. << >> \in Seq(Frame) /\ << >> \in Seq(Path)
  BY EmptySeq
<1>3. SyncTypes
  BY <1>1, <1>2 DEF Init, SyncTypes
<1>4. RepositoryTypes
  BY CopierAssumption DEF Init, RepositoryTypes, IsTree
<1> QED BY <1>3, <1>4 DEF Init, TypeInv, TypeOK

\* Every step keeps the types.
LEMMA StepTypes ==
  ASSUME TypeInv, [Next]_vars
  PROVE  TypeInv'
<1>1. RepositoryTypes /\ SyncTypes /\ (pc = "walk" => stack # << >>)
  BY DEF TypeInv, TypeOK
<1>2. ASSUME UNCHANGED <<repository, published, reports>> PROVE RepositoryTypes'
  BY <1>1, <1>2 DEF RepositoryTypes, repository
<1>3. ASSUME Forget, RepositoryTypes' PROVE TypeInv'
  BY <1>3, ForgetTypes DEF TypeInv, TypeOK
\* A step of the walk.
<1>4. ASSUME UNCHANGED <<repository, published, reports, request, walk>>,
             pc' \in {"walk", "walked", "push"}, pc' = "walk" => stack' # << >>,
             IsFiles(tree'), made' \subseteq Path, stack' \in Seq(Frame), errors' \in Seq(Path)
      PROVE  TypeInv'
  <2>1. SyncTypes'
    BY <1>1, <1>4 DEF SyncTypes, walk
  <2> QED BY <1>2, <1>4, <2>1 DEF TypeInv, TypeOK
<1>5. ASSUME NEW r \in Request, Begin(r) PROVE TypeInv'
  <2>1. Under(TargetPath, published) \subseteq Path
    BY <1>1 DEF RepositoryTypes, IsFiles, Under
  <2>2. /\ request' = r /\ from' = source /\ base' = published /\ tree' = published
        /\ pc' = "copy" /\ blocked' \in {{}, Under(TargetPath, published)}
        /\ UNCHANGED <<repository, published, reports, made, stack, errors>>
    BY <1>5 DEF Begin
  <2>3. SyncTypes'
    BY <1>1, <2>1, <2>2 DEF SyncTypes, RepositoryTypes
  <2> QED BY <1>2, <2>2, <2>3 DEF TypeInv, TypeOK
<1>6. CASE EnterRoot
  <2>1. RenderedPath(<< >>, TargetPath) \in Path /\ << >> \in Path
    BY <1>6, CopierAssumption, RenderedType, EmptySeq DEF EnterRoot, Path
  <2>2. << >> \in Seq(Frame)
    BY EmptySeq
  <2>3. made' \subseteq Path /\ stack' \in Seq(Frame) /\ stack' # << >>
    BY <1>6, <2>1, <2>2, EnterTypes DEF EnterRoot
  <2> QED BY <1>1, <1>4, <1>6, <2>3 DEF EnterRoot, SyncTypes
<1>7. CASE EnterDir
  <2>1. Entering /\ Renderable(Src, Dst) /\ pc' = "walk"
    BY <1>7 DEF EnterDir, Entering
  <2>2. RenderedPath(Src, Dst) \in Path
    BY <2>1, EntryTypes, RenderedType
  <2>3. made' \subseteq Path /\ stack' \in Seq(Frame) /\ stack' # << >>
    BY <1>7, <2>1, <2>2, EntryTypes, EnterTypes DEF EnterDir
  <2> QED BY <1>1, <1>4, <1>7, <2>1, <2>3 DEF EnterDir, SyncTypes
<1>8. CASE LeaveDir
  <2>1. stack # << >> /\ stack \in Seq(Frame)
    BY <1>1, <1>8 DEF LeaveDir, SyncTypes
  <2>2. stack' = Front(stack) /\ pc' = IF Len(stack) = 1 THEN "walked" ELSE "walk"
    BY <1>8 DEF LeaveDir
  <2>3. stack' \in Seq(Frame) /\ Len(stack') = Len(stack) - 1 /\ Len(stack) \in Nat \ {0}
    BY <2>1, <2>2, FrontType
  <2>4. pc' = "walk" => stack' # << >>
    <3>1. Len(<< >>) = 0
      BY EmptySeq
    <3> QED BY <2>2, <2>3, <3>1
  <2> QED BY <1>1, <1>4, <1>8, <2>2, <2>3, <2>4 DEF LeaveDir, SyncTypes
<1>9. CASE Skip
  <2>1. Entering /\ stack' = Past /\ pc' = "walk"
    BY <1>9 DEF Skip, Entering
  <2>2. stack' \in Seq(Frame) /\ stack' # << >>
    BY <2>1, EntryTypes
  <2> QED BY <1>1, <1>4, <1>9, <2>1, <2>2 DEF Skip, SyncTypes
<1>10. CASE RefuseName
  <2>1. Entering /\ stack' = Past /\ pc' = "walk"
    BY <1>10 DEF RefuseName, File, Entering
  <2>2. stack' \in Seq(Frame) /\ stack' # << >>
    BY <2>1, EntryTypes
  <2>3. errors' \in Seq(Path)
    BY <1>1, <1>10, <2>1, EntryTypes, AppendProperties DEF RefuseName, SyncTypes
  <2> QED BY <1>1, <1>4, <1>10, <2>1, <2>2, <2>3 DEF RefuseName, SyncTypes
<1>11. CASE CopyFile
  <2>1. Entering /\ stack' = Past /\ pc' = "walk" /\ Renderable(Src, Dst) /\ IsFileOf(from, Src)
    BY <1>11 DEF CopyFile, File, Entering
  <2>2. stack' \in Seq(Frame) /\ stack' # << >>
    BY <2>1, EntryTypes
  <2>3. errors' \in Seq(Path)
    BY <1>1, <1>11, <2>1, EntryTypes, AppendProperties DEF CopyFile, SyncTypes
  <2>4. RenderedPath(Src, Dst) \in Path
    BY <2>1, EntryTypes, RenderedType
  <2>5. IsFiles(tree')
    <3>1. from[Src] \in Content
      BY <1>1, <2>1 DEF SyncTypes, IsFiles, IsFileOf
    <3>2. PICK c \in Rendition(Src, from[Src]) : tree' = Put(RenderedPath(Src, Dst), c)
      BY <1>11 DEF CopyFile
    <3>3. c \in Content /\ IsFiles(tree)
      BY <1>1, <3>1, RenditionType DEF SyncTypes
    <3> QED BY <2>4, <3>2, <3>3, PutType
  <2>6. made' \subseteq Path
    <3>1. Len(RenderedPath(Src, Dst)) \in Nat
      BY <2>4, LenProperties DEF Path
    <3>2. Front(RenderedPath(Src, Dst)) \in Path
      <4>1. CASE RenderedPath(Src, Dst) = << >>
        <5>1. Front(RenderedPath(Src, Dst)) = << >>
          BY <4>1, EmptySeq, SubSeqEmpty DEF Front
        <5> QED BY <5>1, EmptySeq DEF Path
      <4>2. CASE RenderedPath(Src, Dst) # << >>
        BY <2>4, <4>2, FrontType DEF Path
      <4> QED BY <4>1, <4>2
    <3> QED BY <1>1, <1>11, <3>2, PrefixesType DEF CopyFile, SyncTypes
  <2> QED BY <1>1, <1>4, <1>11, <2>1, <2>2, <2>3, <2>5, <2>6 DEF CopyFile, SyncTypes
<1>12. CASE Abort \/ IOFails
  BY <1>2, <1>3, <1>12 DEF Abort, IOFails
<1>13. CASE RenderFailed
  <2>1. reports' \subseteq Path
    <3>1. ToSet(errors) \subseteq Path
      BY <1>1, ElementOfSeq, LenProperties DEF ToSet, SyncTypes
    <3> QED BY <1>13, <3>1 DEF RenderFailed
  <2>2. RepositoryTypes'
    BY <1>1, <1>13, <2>1 DEF RenderFailed, RepositoryTypes, repository
  <2> QED BY <1>3, <1>13, <2>2 DEF RenderFailed
<1>14. CASE Copied
  <2>1. RepositoryTypes'
    BY <1>1, <1>14 DEF Copied, RepositoryTypes, repository
  <2>2. SyncTypes' /\ pc' = "push"
    BY <1>1, <1>14 DEF Copied, SyncTypes, walk
  <2> QED BY <2>1, <2>2 DEF TypeInv, TypeOK
<1>15. CASE Push
  <2>1. RepositoryTypes'
    BY <1>1, <1>15 DEF Push, RepositoryTypes, SyncTypes, repository
  <2> QED BY <1>3, <1>15, <2>1 DEF Push
<1>16. CASE PushContended
  BY <1>2, <1>3, <1>16 DEF PushContended
\* The others leave the sync alone.
<1>17. ASSUME UNCHANGED <<pc, request, walk, tree, made, stack, errors>>, RepositoryTypes'
       PROVE  TypeInv'
  <2>1. SyncTypes'
    BY <1>1, <1>17 DEF SyncTypes, walk
  <2> QED BY <1>1, <1>17, <2>1 DEF TypeInv, TypeOK
<1>18. CASE Edit
  <2>1. IsFiles(source') /\ ignore' \subseteq Path
    <3>1. IsFiles(source) /\ ignore \subseteq Path
      BY <1>1 DEF RepositoryTypes
    <3>2. \/ IsFiles(source') /\ UNCHANGED ignore
          \/ ignore' \in IgnoreSets /\ UNCHANGED source
      <4>1. SourceContent \subseteq Content /\ SourcePaths \subseteq Path
        BY CopierAssumption DEF Content
      <4>2. \A p \in SourcePaths, c \in SourceContent :
              IsFiles([q \in DOMAIN source \union {p} |-> IF q = p THEN c ELSE source[q]])
        BY <3>1, <4>1 DEF IsFiles
      <4>3. \A p \in DOMAIN source : IsFiles([q \in DOMAIN source \ {p} |-> source[q]])
        BY <3>1 DEF IsFiles
      <4> QED BY <1>18, <4>2, <4>3 DEF Edit
    <3>3. \A set \in IgnoreSets : set \subseteq Path
      BY CopierAssumption
    <3> QED BY <3>1, <3>2, <3>3
  <2>2. RepositoryTypes'
    BY <1>1, <1>18, <2>1 DEF Edit, RepositoryTypes
  <2> QED BY <1>17, <1>18, <2>2 DEF Edit
<1>19. CASE OtherPush
  <2>1. IsFiles(published')
    <3>1. IsFiles(published) /\ OtherPaths \subseteq Path
      BY <1>1, CopierAssumption DEF RepositoryTypes
    <3>2. \A p \in OtherPaths :
            IsFiles([q \in DOMAIN published \union {p} |-> IF q = p THEN "foreign"
                                                           ELSE published[q]])
      BY <3>1 DEF IsFiles, Content
    <3> QED BY <1>19, <3>2 DEF OtherPush
  <2>2. RepositoryTypes'
    BY <1>1, <1>19, <2>1 DEF OtherPush, RepositoryTypes, repository
  <2> QED BY <1>17, <1>19, <2>2 DEF OtherPush
<1>20. CASE UNCHANGED vars
  BY <1>2, <1>17, <1>20 DEF vars
<1> QED BY <1>5, <1>6, <1>7, <1>8, <1>9, <1>10, <1>11, <1>12, <1>13, <1>14, <1>15, <1>16, <1>18,
           <1>19, <1>20 DEF Next, Sync

(* The types of the copier's state hold for any names, values, requests    *)
(* and trees: whatever is rendered, the walk makes paths of names only.    *)
THEOREM TypeCorrect == Spec => []TypeOK
<1>1. TypeInv => TypeOK
  BY DEF TypeInv
<1> QED BY <1>1, InitTypes, StepTypes, PTL DEF Spec

----------------------------------------------------------------------------------
(* What is pushed.                                                         *)

Noted(s) == \E i \in 1..Len(errors) : errors[i] = s

\* A file of the worktree: the clone's, or what the walk has made of a source file.
Accounted(p) ==
  \/ p \in DOMAIN base /\ tree[p] = base[p]
  \/ \E s \in DOMAIN from : /\ tree[p] \in Rendition(s, from[s])
                            /\ Fault(s, from[s]) => Noted(s)

TreeInv ==
  /\ pc # "idle" => /\ DOMAIN base \subseteq DOMAIN tree
                    /\ \A p \in DOMAIN tree : Accounted(p)
  /\ pc = "push" => errors = << >>

\* Rendering depends on the resource and the sync's request alone.
LEMMA RenderingIsStable ==
  ASSUME UNCHANGED <<repository, request>>, NEW s, NEW c
  PROVE  Rendition(s, c)' = Rendition(s, c) /\ (Fault(s, c)' <=> Fault(s, c))
<1>1. kind' = kind /\ request' = request /\ ignore' = ignore
  BY DEF repository
<1>2. Pass(kind, request)' = Pass(kind, request)
  BY <1>1
<1>3. Renders(s)' <=> Renders(s)
  BY <1>1, <1>2 DEF Renders
<1>4. Fault(s, c)' <=> Fault(s, c)
  BY <1>2, <1>3 DEF Fault
<1>5. Rendition(s, c)' = Rendition(s, c)
  BY <1>3 DEF Rendition
<1> QED BY <1>4, <1>5

\* A source file that is noted stays noted.
LEMMA NotedIsStable ==
  ASSUME errors \in Seq(Path), NEW r \in Path, errors' \in {errors, Append(errors, r)}
  PROVE  /\ \A s : Noted(s) => Noted(s)'
         /\ errors' = Append(errors, r) => Noted(r)'
<1>1. CASE errors' = errors
  <2>1. Len(errors) \in Nat /\ Len(Append(errors, r)) = Len(errors) + 1
    BY LenProperties, AppendProperties
  <2>2. errors # Append(errors, r)
    BY <2>1
  <2> QED BY <1>1, <2>2 DEF Noted
<1>2. CASE errors' = Append(errors, r)
  <2>1. /\ Len(errors) \in Nat /\ Len(errors') = Len(errors) + 1
        /\ \A i \in 1..Len(errors) : errors'[i] = errors[i]
        /\ errors'[Len(errors) + 1] = r
    BY <1>2, LenProperties, AppendProperties
  <2> QED BY <2>1 DEF Noted
<1> QED BY <1>1, <1>2

\* What is accounted for stays so while the errors only grow.
LEMMA AccountedIsStable ==
  ASSUME UNCHANGED <<repository, request, from, base>>, NEW p, tree'[p] = tree[p], Accounted(p),
         \A s : Noted(s) => Noted(s)'
  PROVE  Accounted(p)'
<1>1. CASE p \in DOMAIN base /\ tree[p] = base[p]
  BY <1>1 DEF Accounted
<1>2. ASSUME NEW s \in DOMAIN from, tree[p] \in Rendition(s, from[s]), Fault(s, from[s]) => Noted(s)
      PROVE  Accounted(p)'
  <2>1. from' = from
    OBVIOUS
  <2>2. Rendition(s, from[s])' = Rendition(s, from[s]) /\ (Fault(s, from[s])' <=> Fault(s, from[s]))
    BY <2>1, RenderingIsStable DEF Rendition, Fault
  <2> QED BY <1>2, <2>1, <2>2 DEF Accounted
<1> QED BY <1>1, <1>2 DEF Accounted

\* A step that leaves the worktree alone.
LEMMA TreeIsStable ==
  ASSUME TreeInv, pc # "idle", UNCHANGED <<repository, request, walk, tree>>,
         \A s : Noted(s) => Noted(s)', pc' = "push" => errors' = << >>
  PROVE  TreeInv'
<1>1. UNCHANGED <<from, base>>
  BY DEF walk
<1>2. \A p \in DOMAIN tree' : Accounted(p)'
  <2> SUFFICES ASSUME NEW p \in DOMAIN tree PROVE Accounted(p)'
    OBVIOUS
  <2>1. Accounted(p) /\ tree'[p] = tree[p]
    BY DEF TreeInv
  <2> QED BY <1>1, <2>1, AccountedIsStable
<1> QED BY <1>1, <1>2 DEF TreeInv

LEMMA StepTree ==
  ASSUME TypeInv, TreeInv, [Next]_vars
  PROVE  TreeInv'
<1>1. IsFiles(from) /\ IsFiles(base) /\ IsFiles(tree) /\ IsFiles(published) /\ errors \in Seq(Path)
  BY DEF TypeInv, TypeOK, SyncTypes, RepositoryTypes
<1>2. ASSUME pc' = "idle" PROVE TreeInv'
  BY <1>2 DEF TreeInv
<1>3. ASSUME UNCHANGED errors PROVE \A s : Noted(s) => Noted(s)'
  BY <1>3 DEF Noted
<1>4. ASSUME NEW r \in Request, Begin(r) PROVE TreeInv'
  <2>1. base' = published /\ tree' = published /\ pc' = "copy"
    BY <1>4 DEF Begin
  <2> QED BY <2>1 DEF TreeInv, Accounted
<1>5. CASE EnterRoot \/ EnterDir \/ LeaveDir \/ Skip
  <2>1. /\ pc # "idle" /\ pc' # "push"
        /\ UNCHANGED <<repository, request, walk, tree, errors>>
    BY <1>5 DEF EnterRoot, EnterDir, LeaveDir, Skip, Entering
  <2> QED BY <1>3, <2>1, TreeIsStable
<1>6. CASE RefuseName
  <2>1. Entering /\ pc = "walk" /\ pc' = "walk"
    BY <1>6 DEF RefuseName, File, Entering
  <2>2. Src \in Path /\ errors' = Append(errors, Src)
    BY <1>6, <2>1, EntryTypes DEF RefuseName
  <2>3. \A s : Noted(s) => Noted(s)'
    BY <1>1, <2>2, NotedIsStable
  <2> QED BY <1>6, <2>1, <2>3, TreeIsStable DEF RefuseName
<1>7. CASE CopyFile
  <2>1. /\ Entering /\ pc = "walk" /\ pc' = "walk" /\ Src \in DOMAIN from /\ Renderable(Src, Dst)
        /\ UNCHANGED <<repository, request, from, base>>
    BY <1>7 DEF CopyFile, File, Entering, IsFileOf, walk
  <2>2. Src \in Path /\ Dst \in Path
    BY <2>1, EntryTypes
  <2>3. \A s : Noted(s) => Noted(s)'
    BY <1>1, <1>7, <2>2, NotedIsStable DEF CopyFile
  <2> DEFINE p == RenderedPath(Src, Dst)
  <2>4. PICK c \in Rendition(Src, from[Src]) : tree' = Put(p, c)
    BY <1>7 DEF CopyFile
  <2>5. p \in Path /\ c \in Content
    BY <1>1, <2>1, <2>2, RenderedType, RenditionType DEF IsFiles
  <2>6. /\ DOMAIN tree' = DOMAIN tree \union {p}
        /\ \A q \in DOMAIN tree' : tree'[q] = IF q = p THEN c ELSE tree[q]
    BY <1>1, <2>4, <2>5, PutType
  <2>7. Fault(Src, from[Src]) => \E i \in 1..Len(errors') : errors'[i] = Src
    <3>1. Fault(Src, from[Src]) => errors' = Append(errors, Src)
      BY <1>7 DEF CopyFile
    <3> QED BY <1>1, <2>2, <3>1, NotedIsStable DEF Noted
  <2>8. ASSUME NEW q, q = p PROVE Accounted(q)'
    <3>1. ASSUME NEW s, s = Src PROVE Accounted(q)'
      <4>1. s \in DOMAIN from' /\ tree'[q] \in Rendition(s, from[s])
        BY <2>1, <2>4, <2>6, <2>8, <3>1
      <4>2. Fault(s, from[s]) => Noted(s)'
        BY <2>7, <3>1 DEF Noted
      <4>3. \A d : Rendition(s, d)' = Rendition(s, d) /\ (Fault(s, d)' <=> Fault(s, d))
        BY <2>1, RenderingIsStable
      <4>4. from'[s] = from[s]
        BY <2>1
      <4>5. Rendition(s, from[s])' = Rendition(s, from[s])
        BY <4>3, <4>4 DEF Rendition
      <4>6. Fault(s, from[s])' <=> Fault(s, from[s])
        BY <4>3, <4>4 DEF Fault
      <4> QED BY <4>1, <4>2, <4>5, <4>6 DEF Accounted
    <3> QED BY <3>1
  <2>9. \A q \in DOMAIN tree' : Accounted(q)'
    <3> SUFFICES ASSUME NEW q \in DOMAIN tree' PROVE Accounted(q)'
      OBVIOUS
    <3>1. CASE q = p
      BY <2>8, <3>1
    <3>2. CASE q # p
      <4>1. Accounted(q) /\ tree'[q] = tree[q]
        BY <2>1, <2>6, <3>2 DEF TreeInv
      <4> QED BY <2>1, <2>3, <4>1, AccountedIsStable
    <3> QED BY <3>1, <3>2
  <2>10. DOMAIN base' \subseteq DOMAIN tree'
    BY <2>1, <2>6 DEF TreeInv
  <2> QED BY <2>1, <2>9, <2>10 DEF TreeInv
<1>8. CASE Abort \/ IOFails \/ RenderFailed \/ Push \/ PushContended
  BY <1>2, <1>8 DEF Abort, IOFails, RenderFailed, Push, PushContended, Forget
<1>9. CASE Copied
  <2>1. /\ pc # "idle" /\ errors' = << >> /\ errors' = errors
        /\ UNCHANGED <<repository, request, walk, tree>>
    BY <1>9 DEF Copied
  <2> QED BY <1>3, <2>1, TreeIsStable
<1>10. CASE Edit
  BY <1>2, <1>10 DEF Edit
<1>11. ASSUME UNCHANGED <<repository, pc, request, walk, tree, errors>> PROVE TreeInv'
  <2>1. CASE pc = "idle"
    BY <1>2, <1>11, <2>1
  <2>2. CASE pc # "idle"
    <3>1. pc' = "push" => errors' = << >>
      BY <1>11 DEF TreeInv
    <3> QED BY <1>3, <1>11, <2>2, <3>1, TreeIsStable
  <2> QED BY <2>1, <2>2
<1>12. CASE OtherPush
  BY <1>11, <1>12 DEF OtherPush
<1>13. CASE UNCHANGED vars
  BY <1>11, <1>13 DEF vars
<1> QED BY <1>4, <1>5, <1>6, <1>7, <1>8, <1>9, <1>10, <1>12, <1>13 DEF Next, Sync

\* What a push leaves on the server.
LEMMA PushedFiles ==
  ASSUME TypeInv, TreeInv, [Next]_vars, Pushes
  PROVE  /\ DOMAIN published \subseteq DOMAIN published'
         /\ \A p \in DOMAIN published' :
              \/ p \in DOMAIN published /\ published'[p] = published[p]
              \/ \E s \in DOMAIN from : /\ ~Fault(s, from[s])
                                        /\ published'[p] \in Rendition(s, from[s])
<1>1. Push \/ UNCHANGED published
  BY DEF Pushes, vars, Next, Sync, Begin, EnterRoot, EnterDir, LeaveDir, Skip, RefuseName, CopyFile,
         Abort, IOFails, RenderFailed, Copied, PushContended, Edit, OtherPush, Entering, File
<1>2. CASE Push
  <2>1. published = base /\ published' = tree /\ errors = << >>
    BY <1>2 DEF Push, Pushes, TreeInv
  <2>2. DOMAIN base \subseteq DOMAIN tree /\ \A p \in DOMAIN tree : Accounted(p)
    BY DEF TreeInv, Pushes
  <2>3. \A s : ~Noted(s)
    <3>1. Len(errors) = 0
      BY <2>1, EmptySeq
    <3> QED BY <3>1 DEF Noted
  <2> QED BY <2>1, <2>2, <2>3 DEF Accounted
<1> QED BY <1>1, <1>2

(* A push adds renditions of files without fault and takes nothing         *)
(* away, whatever names render to, however the trees nest, and whoever     *)
(* else pushes.                                                            *)
THEOREM PushesAdd == Spec => SyncsOnlyAdd
<1>1. Init => TreeInv
  BY DEF Init, TreeInv
<1>2. TypeInv /\ TreeInv /\ [Next]_vars => TreeInv'
  BY StepTree
<1>3. TypeInv /\ TreeInv /\ [Next]_vars =>
        [Pushes => /\ DOMAIN published \subseteq DOMAIN published'
                   /\ \A p \in DOMAIN published' :
                        \/ p \in DOMAIN published /\ published'[p] = published[p]
                        \/ \E s \in DOMAIN from : /\ ~Fault(s, from[s])
                                                 /\ published'[p] \in Rendition(s, from[s])]_vars
  BY PushedFiles
<1> QED BY <1>1, <1>2, <1>3, InitTypes, StepTypes, PTL DEF Spec, SyncsOnlyAdd
=================================================================================
