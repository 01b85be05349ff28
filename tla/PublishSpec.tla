------------------------------- MODULE PublishSpec -------------------------------
(***************************************************************************)
(* What the LocalResources of one target branch promise to the repository: *)
(* each of their pushes is one commit on top of the branch as it then is,  *)
(* and that commit changes the file of its own resource and nothing else.  *)
(* No push rewrites history, none reverts a file another one published.    *)
(*                                                                         *)
(* A branch is the sequence of its commits, the root first.  A commit hash *)
(* covers the whole history behind it, so a commit is identified by the    *)
(* branch that ends in it.                                                 *)
(***************************************************************************)
EXTENDS Sequences

CONSTANTS CR,             \* the LocalResources that share the branch
          Other,          \* whoever else pushes to it
          Version,        \* what the source of a resource can hold
          Absent,         \* the content of a file that is not there
          NoHash,         \* a commit message without footer
          File, FileOf,   \* the files, and the one each resource writes
          CloneFrom,      \* the branch of spec.toRepo.cloneFromBranch
          InitialBranches \* the target branch at first: << >> when it does not exist

VARIABLE branch  \* the target branch on the server

Contents == [File -> Version \union {Absent}]

EmptyTree == [f \in File |-> Absent]

\* The files at the tip of a history.
Tree(history) == IF history = << >> THEN EmptyTree ELSE history[Len(history)].tree

\* The history a commit is made on: a branch that does not exist starts from CloneFrom.
Base(history) == IF history = << >> THEN CloneFrom ELSE history

Init == branch \in InitialBranches

Publish(r) ==
  \E written, hashed \in Version :
    branch' = Append(Base(branch),
                     [by |-> r, hash |-> hashed,
                      tree |-> [Tree(Base(branch)) EXCEPT ![FileOf[r]] = written]])

OtherPush ==
  /\ branch # << >>
  /\ branch' = Append(branch, [by |-> Other, hash |-> NoHash, tree |-> Tree(branch)])

Next == OtherPush \/ \E r \in CR : Publish(r)

Spec == Init /\ [][Next]_branch
==================================================================================
