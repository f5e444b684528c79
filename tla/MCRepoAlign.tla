----------------------------- MODULE MCRepoAlign -----------------------------
(* The tip of verilator's branch, which a failed alignment may build, says  *)
(* "rev <tag>-<commits>-<hash>": the first tag is in its text.             *)
EXTENDS RepoAlign

MCAlike == {<<1, Default>>}
=============================================================================
