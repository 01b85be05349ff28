--------------------------------- MODULE MCRepo ---------------------------------
(* One Repo, an origin that moves at most twice, and a target branch that   *)
(* exists without the file, or does not exist.                              *)
EXTENDS Repo

Root == <<[by |-> "other", era |-> 0, file |-> Absent]>>
EitherBranch == {<< >>, Root}
ExistingBranch == {Root}
NoBranch == << >>
==================================================================================
