----------------------------- MODULE MCLocalResource -----------------------------
(* Two LocalResources, a file each, on one branch.                          *)
EXTENDS LocalResource

MCResources == {"a", "b"}
MCFiles == {"a.yaml", "b.yaml"}
MCFileOf == [r \in MCResources |-> IF r = "a" THEN "a.yaml" ELSE "b.yaml"]
MCFileOfA == [r \in {"a"} |-> "a.yaml"]
MCVersions == 1..2
MCContents == [v \in MCVersions |-> v]
\* A third version, whose content is that of the first.
LiveVersions == 1..3
LiveContents == [v \in LiveVersions |-> IF v = 3 THEN 1 ELSE v]
MCInitialVersion == [r \in MCResources |-> 1]
MCInitialVersionA == [r \in {"a"} |-> 1]

NoFiles == [f \in MCFiles |-> Absent]
Root(tree) == <<[by |-> Other, hash |-> NoHash, tree |-> tree]>>

\* The branch does not exist, holds nothing yet, or holds b's file from another hand.
AnyBranch == {<< >>, Root(NoFiles), Root([NoFiles EXCEPT !["b.yaml"] = 2])}
NewBranch == {<< >>}
ExistingBranch == {Root(NoFiles)}
\* It holds a's file, not as a has it at first but as a has it after an edit.
LiveBranch == {Root([NoFiles EXCEPT !["a.yaml"] = 2])}

\* A main branch that already holds a's file as a would write it.
MainWithFile == Root([NoFiles EXCEPT !["a.yaml"] = 1])

NoBranch == << >>
Forward == {<<1, 2>>}
\* To another content, and then to the first content under another hash.
AndBackAnew == {<<1, 2>>, <<2, 3>>}
AndBack == {<<1, 2>>, <<2, 1>>}
Nobody == {}
OnlyA == {"a"}
OnlyB == {"b"}
Both == {"a", "b"}
==================================================================================
