------------------------------ MODULE Scanning ------------------------------
(***************************************************************************)
(* Texts, as sequences of characters, and what the code does to them with  *)
(* a loop over chars(): a state that one character after the other         *)
(* changes.                                                                *)
(***************************************************************************)
EXTENDS Integers, Sequences, FiniteSets, SequencesExt

CONSTANT Char

\* The characters that mean something to the code, and a few that do not.
KnownChars ==
    {"0", "1", "2", "3", "4", "5", "6", "7", "8", "9", "+", "K", "k", "M", "m", "G", "g",
     "s", "S", "h", "H", "d", "D", "w", "W", " ", "\t", "\r", "\n", ".", ":",
     "<", ">", "@", "\"", "\\", "(", ")", "[", "]", "*", "?", "!", "^", "$", "a", "b", "c", "n"}

ASSUME CharAssumption == KnownChars \subseteq Char

Text == Seq(Char)

CR == "\r"
LF == "\n"

\* The state after s, from start: step[state][character] is the next state.
Loop(step, start, s) ==
    LET at[i \in 0 .. Len(s)] == IF i = 0 THEN start ELSE step[at[i - 1]][s[i]]
    IN  at[Len(s)]

Joining == [out \in Text |-> [piece \in Text |-> out \o piece]]

\* The pieces, one after the other.
Joined(pieces) == Loop(Joining, <<>>, pieces)

Chars(s)     == {s[i] : i \in DOMAIN s}
Rest(s, i)   == SubSeq(s, i, Len(s))
Starts(s, p) == IsPrefix(p, s)

\* Where the first character of C is; one past the end if there is none.
First(s, C) == Min({i \in DOMAIN s : s[i] \in C} \cup {Len(s) + 1})

\* char::is_whitespace, of ASCII.
Spaces == {" ", "\t", CR, LF}
Ink(s) == {i \in DOMAIN s : s[i] \notin Spaces}

\* str::trim
Trim(s) == IF Ink(s) = {} THEN <<>> ELSE SubSeq(s, Min(Ink(s)), Max(Ink(s)))

=============================================================================
