---------------------------- MODULE MCRunService ----------------------------
(***************************************************************************)
(* RunService for TLC.  Answerers are alike: no definition tells one from   *)
(* another, and the invariants that are checked under this symmetry do not  *)
(* either.                                                                  *)
(***************************************************************************)
EXTENDS RunService, TLC

AnswerersAreAlike == Permutations(Answerers)
=============================================================================
