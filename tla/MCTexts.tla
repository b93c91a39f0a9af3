------------------------------ MODULE MCTexts -------------------------------
(* Enough for a negated class with a literal and a star around it, three   *)
(* rules, a folded header, a body of stuffed lines, a quoted local part,   *)
(* and one header in a whole milter exchange.                              *)
EXTENDS Texts

MCChar == STRING

MCLength == [pattern |-> 5, rules |-> 3, number |-> 4, head |-> 8, body |-> 6,
             id |-> 5, milter |-> 6]
=============================================================================
