--------------------------- MODULE MCReaderSession --------------------------
(* Two groups, and enough numbers for one behind, at and ahead of the      *)
(* position of a session, and one more.                                    *)
EXTENDS ReaderSession, TLC

Symmetry == Permutations(Groups)
=============================================================================
