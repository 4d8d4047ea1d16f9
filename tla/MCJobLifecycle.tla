--------------------------- MODULE MCJobLifecycle ---------------------------
(* JobLifecycle on small instances.  Handlers and workers are alike, so      *)
(* states that differ only in their names are one; a run that checks a       *)
(* liveness property must not use that.                                      *)
EXTENDS JobLifecycle, TLC

HandlersAndWorkersAlike == Permutations(Handlers) \cup Permutations(Workers)

=============================================================================
