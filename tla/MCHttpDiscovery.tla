-------------------------- MODULE MCHttpDiscovery --------------------------
(* Lists of three writes, of which the target serves two names and a path.  *)
EXTENDS HttpDiscovery, TLC

Alike == Permutations(Worker)
SomeNames == {1, 3}
SomePaths == {2, 3}
=============================================================================
