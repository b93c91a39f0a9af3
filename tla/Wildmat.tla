------------------------------ MODULE Wildmat -------------------------------
(***************************************************************************)
(* wildmat(pattern, text): the pattern is translated into a regular        *)
(* expression, which the regex crate compiles and runs.  Ranges and the    *)
(* set operators that the crate knows inside a class (a-z, &&, --, ~~) are *)
(* left out.                                                               *)
(***************************************************************************)
EXTENDS Scanning

Lit(c)          == [kind |-> "literal", char |-> c]
AnyChar         == [kind |-> "any"]
AnyString       == [kind |-> "star"]
Class(neg, set) == [kind |-> "class", negated |-> neg, chars |-> set]
End             == [kind |-> "end"]
Invalid         == [kind |-> "invalid"]

Atom == [kind : {"any", "star", "end", "invalid"}] \cup [kind : {"literal"}, char : Char]
          \cup [kind : {"class"}, negated : BOOLEAN, chars : SUBSET Char]

\* What the loop of pattern_to_regex sees of a character: parse_class looks
\* ahead for a ].
Peek == [char : Char, closes : BOOLEAN]
Peeked(p) == [i \in DOMAIN p |->
                [char |-> p[i], closes |-> \E j \in i + 1 .. Len(p) : p[j] = "]"]]

\* The atoms so far; in a class also what it has so far, and whether a bare [
\* opened a class inside it, which nothing will close.
Translation == [mode : {"plain", "escape", "first", "class", "quote"},
                atoms : Seq(Atom), negated : BOOLEAN, chars : SUBSET Char, open : BOOLEAN]

Start == [mode |-> "plain", atoms |-> <<>>, negated |-> FALSE, chars |-> {}, open |-> FALSE]

Put(st, atom) == [Start EXCEPT !.atoms = Append(st.atoms, atom)]

\* The crate takes a ] right after the bracket for an item: an empty class
\* swallows the rest.
CloseClass(st) ==
    Put(st, IF st.chars = {} \/ st.open THEN Invalid ELSE Class(st.negated, st.chars))

\* parse_class.  A backslash takes the next character as it is, a ] too.
InClass(st, c) ==
    CASE c = "]"  -> CloseClass(st)
      [] c = "\\" -> [st EXCEPT !.mode = "quote"]
      [] OTHER    -> [st EXCEPT !.mode = "class", !.chars = @ \cup {c},
                                !.open = @ \/ c = "["]

Translate(st, c, closes) ==
    CASE st.mode = "escape" -> Put(st, Lit(c))
      [] st.mode = "quote"  -> [st EXCEPT !.mode = "class", !.chars = @ \cup {c}]
      [] st.mode = "class"  -> InClass(st, c)
      [] st.mode = "first"  ->
           IF c \in {"!", "^"} THEN [st EXCEPT !.mode = "class", !.negated = TRUE]
           ELSE InClass(st, c)
      [] st.mode = "plain"  ->
           CASE c = "*"  -> Put(st, AnyString)
             [] c = "?"  -> Put(st, AnyChar)
             [] c = "\\" -> [st EXCEPT !.mode = "escape"]
             [] c = "[" /\ closes -> [st EXCEPT !.mode = "first"]
             [] OTHER    -> Put(st, Lit(c))

Translating == [st \in Translation |-> [x \in Peek |-> Translate(st, x.char, x.closes)]]

\* A last backslash escapes the $ put at the end, or the ] of a class whose
\* own ] is escaped.
PatternToRegex(p) ==
    LET st == Loop(Translating, Start, Peeked(p))
    IN  CASE st.mode = "plain"  -> Append(st.atoms, End)
          [] st.mode = "escape" -> Append(st.atoms, Lit("$"))
          [] st.mode = "quote"  -> Append(st.atoms, Invalid)
          [] OTHER              -> Append(CloseClass(st).atoms, End)

\* Mutant: the expression is not closed with $.
PatternToRegexOpen(p) ==
    LET r == PatternToRegex(p)
    IN  IF r[Len(r)] = End THEN SubSeq(r, 1, Len(r) - 1) ELSE r

\* A dot is any character but a line feed.
Fits(atom, c) ==
    CASE atom.kind = "literal" -> c = atom.char
      [] atom.kind = "any"     -> c # LF
      [] atom.kind = "class"   -> (c \in atom.chars) # atom.negated

\* The atom takes the characters of t after i, up to j.
Takes(atom, t, i, j) ==
    CASE atom = End       -> i = Len(t) /\ j = i
      [] atom = AnyString -> i <= j /\ \A k \in i + 1 .. j : t[k] # LF
      [] OTHER            -> j = i + 1 /\ Fits(atom, t[j])

Matching(t) ==
    [from \in SUBSET (0 .. Len(t)) |->
       [atom \in Atom |-> {j \in 0 .. Len(t) : \E i \in from : Takes(atom, t, i, j)}]]

\* Regex::is_match of an expression that starts with ^.
IsMatch(r, t) == Loop(Matching(t), {0}, r) # {}

Expression(p) == PatternToRegex(p)

wildmat(pattern, text) ==
    LET r == Expression(pattern)
    IN  Invalid \notin Chars(r) /\ IsMatch(r, text)

-----------------------------------------------------------------------------
(* What a pattern means. *)

\* What the crate does not take for itself in a class.
ClassMeta == {"[", "]", "\\", "-", "&", "~"}

\* A part of a pattern: a character, an escaped one or a whole class.
IsPart(a) ==
    \/ Len(a) = 1 /\ a[1] \notin {"[", "\\"}
    \/ Len(a) = 2 /\ a[1] = "\\"
    \/ /\ Len(a) > 2 /\ a[1] = "[" /\ a[Len(a)] = "]"
       /\ LET first == IF a[2] \in {"!", "^"} THEN 3 ELSE 2
          IN  first < Len(a) /\ \A k \in first .. Len(a) - 1 : a[k] \notin ClassMeta

Neighbours(S, i, j) == i < j /\ \A k \in S : k <= i \/ j <= k

\* The ways to cut a pattern into parts: the places where one ends.
Cuts(p) ==
    {S \in SUBSET (0 .. Len(p)) :
        /\ {0, Len(p)} \subseteq S
        /\ \A i, j \in S : Neighbours(S, i, j) => IsPart(SubSeq(p, i + 1, j))}

WellFormed(p) == Cuts(p) # {}

\* The texts a part stands for.
Stands(a, t) ==
    CASE a = <<"*">> -> TRUE
      [] a = <<"?">> -> Len(t) = 1
      [] Len(a) = 2 -> t = <<a[2]>>
      [] Len(a) > 2 /\ a[2] \in {"!", "^"} ->
           Len(t) = 1 /\ t[1] \notin {a[k] : k \in 3 .. Len(a) - 1}
      [] Len(a) > 2 /\ a[2] \notin {"!", "^"} ->
           Len(t) = 1 /\ t[1] \in {a[k] : k \in 2 .. Len(a) - 1}
      [] OTHER -> t = a

\* The text can be cut into pieces, one for each part.
Matches(p, t) ==
    \E S \in Cuts(p) : \E at \in [S -> 0 .. Len(t)] :
        /\ at[0] = 0 /\ at[Len(p)] = Len(t)
        /\ \A i, j \in S : Neighbours(S, i, j) =>
              at[i] <= at[j] /\ Stands(SubSeq(p, i + 1, j), SubSeq(t, at[i] + 1, at[j]))

=============================================================================
