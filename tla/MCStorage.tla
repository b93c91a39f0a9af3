----------------------------- MODULE MCStorage ------------------------------
(***************************************************************************)
(* Instances of Storage.  Article x is listed twice in its group, x2 has   *)
(* the Message-ID of x and no newsgroups, y is an unrelated article of the *)
(* same group.                                                             *)
(***************************************************************************)
EXTENDS Storage, TLC

CONSTANTS t1, t2, i1, i2, g1, x, x2, y, none

MCTasks      == {t1, t2}
MCIds        == {i1, i2}
MCGroups     == {g1}
MCArticles   == {x, x2, y}
MCMessageId  == x :> i1 @@ x2 :> i1 @@ y :> i2
MCNewsgroups == x :> <<g1, g1>> @@ x2 :> <<>> @@ y :> <<g1>>

TaskSymmetry == Permutations(MCTasks)
=============================================================================
