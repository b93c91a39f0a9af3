---------------------------- MODULE TextsProofs -----------------------------
(***************************************************************************)
(* Proofs about the text algorithms, for texts of any length over any      *)
(* characters: wildmat, the rules of a configuration and its units, the    *)
(* milter exchange, Message-IDs, and articles passed from server to        *)
(* server.                                                                 *)
(***************************************************************************)
EXTENDS Texts, FiniteSetTheorems, WellFoundedInduction, SequenceTheorems, TLAPS

-----------------------------------------------------------------------------
(* Induction over data.  A property of every number or every text is shown *)
(* by its least counterexample: a set of naturals that is not empty has a  *)
(* least member (Least), so a set of texts that has the empty one and is   *)
(* closed under appending a character has all (SeqInduction).  With that,  *)
(* Loop, the recursive function behind every scanner, is well defined      *)
(* (LoopRuns) and goes on where it stopped (LoopAppend, LoopConcat).       *)

\* A set of naturals that is not empty has a least member.
LEMMA Least ==
    ASSUME NEW T, T \subseteq Nat, T # {}
    PROVE  \E n \in T : \A m \in T : n <= m
<1> DEFINE U == {1 .. n : n \in T}
<1>1. U \subseteq FiniteSubsetsOf(Nat) /\ U # {}
  <2>1. \A n \in T : 1 .. n \in SUBSET Nat /\ IsFiniteSet(1 .. n)
    BY FS_Interval
  <2>2. QED
    BY <2>1 DEF FiniteSubsetsOf
<1>2. PICK x \in U : \A y \in U : ~(<<y, x>> \in StrictSubsetOrdering(Nat))
  <2> HIDE DEF U
  <2>1. QED
  BY <1>1, WFMin, FS_StrictSubsetOrderingWellFounded
<1>3. PICK n \in T : x = 1 .. n
  OBVIOUS
<1>4. SUFFICES ASSUME NEW m \in T, m < n PROVE FALSE
  BY <1>3
<1>5. <<1 .. m, 1 .. n>> \in StrictSubsetOrdering(Nat)
  BY <1>4 DEF StrictSubsetOrdering
<1>6. QED
  BY <1>2, <1>3, <1>5

\* f is a run of the loop over the first n characters of s.
Good(V, G, a, s, n, f) ==
   /\ f \in [0 .. n -> V]
   /\ f[0] = a
   /\ \A i \in 1 .. n : f[i] = G[f[i - 1]][s[i]]

Runs(V, G, a, s, f) == Good(V, G, a, s, Len(s), f) /\ Loop(G, a, s) = f[Len(s)]

\* G takes a state in V and a character in C to a state in V.
IsStep(G, V, C) == G \in [V -> [C -> V]]
Applied(G, v, c) == G[v][c]

LEMMA Pred ==
    ASSUME NEW n \in Nat, NEW m \in 0 .. n, m # 0
    PROVE  m \in 1 .. n /\ m - 1 \in 0 .. n /\ m - 1 \in Nat /\ ~(m <= m - 1)
           /\ 0 \in 0 .. m - 1 /\ m - 1 \in 0 .. m - 1
  OBVIOUS

\* Every text has a run.
LEMMA GoodExists ==
    ASSUME NEW V, NEW C, NEW G, IsStep(G, V, C), NEW a \in V, NEW s \in Seq(C)
    PROVE  \E f : Good(V, G, a, s, Len(s), f)
<1> DEFINE P(m) == \E f : Good(V, G, a, s, m, f)
           T == {m \in 0 .. Len(s) : ~P(m)}
<1>1. Len(s) \in Nat
  OBVIOUS
<1>2. SUFFICES ASSUME T # {} PROVE FALSE
  <2>1. Len(s) \in 0 .. Len(s)
    BY <1>1
  <2>2. Len(s) \notin T => P(Len(s))
    BY <2>1
  <2>3. QED
    BY <1>2, <2>2
<1>3. PICK m \in T : \A k \in T : m <= k
  <2>1. T \subseteq Nat
    OBVIOUS
  <2> HIDE DEF T
  <2>2. QED
    BY <1>2, <2>1, Least
<1>4. m # 0
  <2>1. P(0)
    <3>1. Good(V, G, a, s, 0, [i \in 0 .. 0 |-> a])
      BY DEF Good
    <3>2. QED
      BY <3>1
  <2> HIDE DEF P
  <2>2. QED
    BY <1>3, <2>1
<1>5. m \in 1 .. Len(s) /\ m - 1 \in 0 .. Len(s) /\ ~(m <= m - 1) /\ ~P(m)
  <2> HIDE DEF P
  <2>1. m \in 0 .. Len(s) /\ ~P(m)
    BY <1>3
  <2>2. QED
    BY <1>1, <1>4, <2>1, Pred
<1>6. PICK f : Good(V, G, a, s, m - 1, f)
  <2>1. m - 1 \notin T
    BY <1>3, <1>5
  <2>2. P(m - 1)
    <3> HIDE DEF P
    <3> QED BY <1>5, <2>1
  <2>3. QED
    BY <2>2
<1> DEFINE x == G[f[m - 1]][s[m]]
           g == [i \in 0 .. m |-> IF i = m THEN x ELSE f[i]]
<1>7. x \in V
  BY <1>5, <1>6 DEF Good, IsStep
<1> HIDE DEF P, x
<1>8. Good(V, G, a, s, m, g)
  <2>1. \A i \in 0 .. m - 1 : g[i] = f[i] /\ f[i] \in V
    BY <1>5, <1>6 DEF Good
  <2>2. g[m] = x /\ g[m - 1] = f[m - 1]
    BY <1>5, <2>1
  <2>3. \A i \in 0 .. m : g[i] \in V
    <3>1. \A i \in 0 .. m : i = m \/ i \in 0 .. m - 1
      BY <1>5
    <3>2. QED
      BY <1>7, <2>1, <2>2, <3>1
  <2>4. g[0] = a
    BY <1>5, <1>6, <2>1 DEF Good
  <2>5. g \in [0 .. m -> V]
    BY <2>3
  <2>6. ASSUME NEW i \in 1 .. m PROVE g[i] = G[g[i - 1]][s[i]]
    <3>1. CASE i = m
      BY <2>2, <3>1 DEF x
    <3>2. CASE i # m
      <4>1. i \in 1 .. m - 1 /\ i \in 0 .. m - 1 /\ i - 1 \in 0 .. m - 1
        BY <1>5, <3>2
      <4>2. f[i] = G[f[i - 1]][s[i]]
        BY <1>6, <4>1 DEF Good
      <4> HIDE DEF g
      <4>3. QED
        BY <2>1, <4>1, <4>2
    <3>3. QED
      BY <3>1, <3>2
  <2> HIDE DEF g
  <2>7. QED
    BY <2>4, <2>5, <2>6 DEF Good
<1>9. QED
  BY <1>5, <1>8 DEF P

(* The equation of Loop has one solution. *)
LEMMA LoopRuns ==
    ASSUME NEW V, NEW C, NEW G, IsStep(G, V, C), NEW a \in V, NEW s \in Seq(C)
    PROVE  \E f : Runs(V, G, a, s, f)
<1> USE DEF Runs
<1>1. PICK f : Good(V, G, a, s, Len(s), f)
  BY GoodExists
<1> DEFINE Eq(h) == h = [i \in 0 .. Len(s) |-> IF i = 0 THEN a ELSE G[h[i - 1]][s[i]]]
           at == CHOOSE h : Eq(h)
           T == {m \in 0 .. Len(s) : at[m] # f[m]}
<1>2. Len(s) \in Nat
  OBVIOUS
<1>3. Eq(f)
  BY <1>1 DEF Good
<1>4. Eq(at)
  BY <1>3
<1>5. Loop(G, a, s) = at[Len(s)]
  BY DEF Loop
<1> HIDE DEF at
<1>6. SUFFICES ASSUME T # {} PROVE FALSE
  <2>1. Len(s) \in 0 .. Len(s)
    BY <1>2
  <2>2. Len(s) \notin T => at[Len(s)] = f[Len(s)]
    BY <2>1
  <2>3. QED
    BY <1>1, <1>5, <1>6, <2>2
<1>7. PICK m \in T : \A k \in T : m <= k
  <2>1. T \subseteq Nat
    OBVIOUS
  <2> HIDE DEF T
  <2>2. QED
    BY <1>6, <2>1, Least
<1>8. m # 0
  BY <1>1, <1>4, <1>7 DEF Good
<1>9. m \in 1 .. Len(s) /\ m - 1 \in 0 .. Len(s) /\ ~(m <= m - 1)
  BY <1>2, <1>7, <1>8, Pred
<1>10. at[m - 1] = f[m - 1]
  BY <1>7, <1>9
<1>11. at[m] = G[at[m - 1]][s[m]]
  <2>1. m \in 0 .. Len(s) /\ m # 0
    BY <1>2, <1>9
  <2>2. at[m] = IF m = 0 THEN a ELSE G[at[m - 1]][s[m]]
    BY <1>4, <2>1
  <2>3. QED
    BY <2>1, <2>2
<1>12. f[m] = G[f[m - 1]][s[m]]
  BY <1>1, <1>9 DEF Good
<1>13. QED
  BY <1>7, <1>10, <1>11, <1>12

\* Over nothing, a loop stays where it is.
LEMMA LoopNone ==
    ASSUME NEW V, NEW C, NEW G, IsStep(G, V, C), NEW a \in V, NEW s \in Seq(C), Len(s) = 0
    PROVE  Loop(G, a, s) = a
<1>1. PICK f : Runs(V, G, a, s, f)
  BY LoopRuns
<1>2. f[0] = a /\ Loop(G, a, s) = f[Len(s)]
  BY <1>1 DEF Good, Runs
<1>3. QED
  BY <1>2

LEMMA LoopEmpty ==
    ASSUME NEW V, NEW C, NEW G, IsStep(G, V, C), NEW a \in V
    PROVE  Loop(G, a, <<>>) = a
<1>1. \A s : s = <<>> => Loop(G, a, s) = a
  <2>1. ASSUME NEW s, s = <<>> PROVE s \in Seq(C) /\ Len(s) = 0
    BY <2>1
  <2>2. QED
    BY <2>1, LoopNone
<1>2. QED
  BY <1>1

\* One more character is one more step.
LEMMA LoopAppend ==
    ASSUME NEW V, NEW C, NEW G, IsStep(G, V, C), NEW a \in V, NEW s \in Seq(C), NEW c \in C
    PROVE  /\ Loop(G, a, s) \in V
           /\ Loop(G, a, Append(s, c)) = Applied(G, Loop(G, a, s), c)
<1> DEFINE t == Append(s, c)
           n == Len(s)
<1>1. t \in Seq(C) /\ Len(t) = n + 1 /\ n \in Nat /\ t[n + 1] = c
      /\ \A i \in 1 .. n : t[i] = s[i]
  OBVIOUS
<1> HIDE DEF t
<1>2. PICK f : Runs(V, G, a, t, f)
  BY <1>1, LoopRuns
<1>3. PICK g : Runs(V, G, a, s, g)
  BY LoopRuns
<1> USE DEF Runs
<1>4. Good(V, G, a, s, n, g) /\ Loop(G, a, s) = g[n]
  BY <1>3
<1> HIDE DEF n
<1>5. \A i \in 0 .. n : f[i] = g[i]
  <2> DEFINE T == {i \in 0 .. n : f[i] # g[i]}
  <2>1. SUFFICES ASSUME T # {} PROVE FALSE
    OBVIOUS
  <2>2. PICK m \in T : \A k \in T : m <= k
    <3>1. T \subseteq Nat
      BY <1>1
    <3> HIDE DEF T
    <3>2. QED
      BY <2>1, <3>1, Least
  <2>3. m # 0
    BY <1>2, <1>4, <2>2 DEF Good
  <2>4. m \in 1 .. n /\ m - 1 \in 0 .. n /\ ~(m <= m - 1) /\ m \in 1 .. n + 1
    BY <1>1, <2>2, <2>3, Pred
  <2>5. f[m - 1] = g[m - 1]
    BY <2>2, <2>4
  <2>6. f[m] = G[f[m - 1]][s[m]]
    BY <1>1, <1>2, <2>4 DEF Good
  <2>7. g[m] = G[g[m - 1]][s[m]]
    BY <1>4, <2>4 DEF Good
  <2>8. QED
    BY <2>2, <2>5, <2>6, <2>7
<1>6. f[n + 1] = G[f[n]][c]
  <2>1. n + 1 \in 1 .. n + 1 /\ (n + 1) - 1 = n
    BY <1>1
  <2>2. QED
    BY <1>1, <1>2, <2>1 DEF Good
<1>7. f[n] = g[n] /\ g[n] \in V
  BY <1>1, <1>4, <1>5 DEF Good
<1>8. QED
  BY <1>1, <1>2, <1>4, <1>6, <1>7 DEF t, Applied

\* Induction over texts.
LEMMA SeqInduction ==
    ASSUME NEW C, NEW X \in SUBSET Seq(C), <<>> \in X,
           \A s \in X : \A c \in C : Append(s, c) \in X
    PROVE  X = Seq(C)
<1> DEFINE T == {n \in Nat : \E s \in Seq(C) : Len(s) = n /\ s \notin X}
<1>1. SUFFICES ASSUME NEW u \in Seq(C), u \notin X PROVE FALSE
  OBVIOUS
<1>2. Len(u) \in T
  BY <1>1
<1>3. PICK n \in T : \A m \in T : n <= m
  <2>1. T \subseteq Nat /\ T # {}
    BY <1>2
  <2> HIDE DEF T
  <2>2. QED
    BY <2>1, Least
<1>4. PICK s \in Seq(C) : Len(s) = n /\ s \notin X
  BY <1>3
<1>5. s # <<>>
  BY <1>4
<1>6. PICK f \in Seq(C), c \in C : s = Append(f, c)
  BY <1>5, SequenceEmptyOrAppend
<1>7. Len(f) \in Nat /\ n = Len(f) + 1
  BY <1>4, <1>6
<1>8. f \in X
  <2>1. Len(f) \notin T
    <3> HIDE DEF T
    <3> QED BY <1>3, <1>7
  <2>2. QED
    BY <1>7, <2>1
<1>9. QED
  BY <1>4, <1>6, <1>8

LEMMA LoopType ==
    ASSUME NEW V, NEW C, NEW G, IsStep(G, V, C), NEW a \in V, NEW s \in Seq(C)
    PROVE  Loop(G, a, s) \in V
<1>1. PICK f : Runs(V, G, a, s, f)
  BY LoopRuns
<1>2. Len(s) \in 0 .. Len(s)
  OBVIOUS
<1>3. f \in [0 .. Len(s) -> V] /\ Loop(G, a, s) = f[Len(s)]
  BY <1>1 DEF Good, Runs
<1>4. QED
  BY <1>2, <1>3

LEMMA LoopOne ==
    ASSUME NEW V, NEW C, NEW G, IsStep(G, V, C), NEW a \in V, NEW c \in C
    PROVE  Loop(G, a, <<c>>) = Applied(G, a, c)
<1> DEFINE e == <<>>
<1>1. e \in Seq(C) /\ <<c>> = Append(e, c)
  OBVIOUS
<1>2. Loop(G, a, e) = a
  BY LoopEmpty
<1> HIDE DEF e
<1>3. Loop(G, a, Append(e, c)) = Applied(G, Loop(G, a, e), c)
  BY <1>1, LoopAppend
<1>4. QED
  BY <1>1, <1>2, <1>3

\* Over two texts, one after the other, a loop goes on where it stopped.
LEMMA LoopConcat ==
    ASSUME NEW V, NEW C, NEW G, IsStep(G, V, C), NEW a \in V, NEW s \in Seq(C), NEW t \in Seq(C)
    PROVE  Loop(G, a, s \o t) = Loop(G, Loop(G, a, s), t)
<1> DEFINE P(u) == Loop(G, a, s \o u) = Loop(G, Loop(G, a, s), u)
           X == {u \in Seq(C) : P(u)}
<1>1. Loop(G, a, s) \in V
  BY LoopType
<1>2. <<>> \in X
  <2>1. s \o <<>> = s /\ <<>> \in Seq(C)
    BY ConcatEmptySeq, EmptySeq
  <2>2. Loop(G, Loop(G, a, s), <<>>) = Loop(G, a, s)
    BY <1>1, LoopEmpty
  <2>3. P(<<>>)
    BY <2>1, <2>2
  <2>4. QED
    BY <2>1, <2>3
<1>3. ASSUME NEW u \in X, NEW c \in C PROVE Append(u, c) \in X
  <2>1. u \in Seq(C) /\ Append(u, c) \in Seq(C) /\ P(u)
    OBVIOUS
  <2>2. s \o u \in Seq(C) /\ s \o Append(u, c) = Append(s \o u, c)
    BY <2>1
  <2> DEFINE v == s \o u
  <2>3. Loop(G, a, Append(v, c)) = Applied(G, Loop(G, a, v), c)
    <3>1. v \in Seq(C)
      BY <2>2
    <3> HIDE DEF v
    <3>2. QED
      BY <3>1, LoopAppend
  <2>4. Loop(G, Loop(G, a, s), Append(u, c)) = Applied(G, Loop(G, Loop(G, a, s), u), c)
    BY <1>1, <2>1, LoopAppend
  <2>5. P(Append(u, c))
    BY <2>1, <2>2, <2>3, <2>4
  <2>6. QED
    BY <2>1, <2>5
<1>4. X = Seq(C)
  <2> HIDE DEF P
  <2>1. X \in SUBSET Seq(C)
    OBVIOUS
  <2> HIDE DEF X
  <2>2. QED
    BY <1>2, <1>3, <2>1, SeqInduction
<1>5. QED
  BY <1>4

-----------------------------------------------------------------------------
(* The inputs, whatever their length, and the milter.                      *)

LEMMA MinIs ==
    ASSUME NEW S, S \subseteq Nat, S # {}
    PROVE  Min(S) \in S /\ \A n \in S : Min(S) <= n
<1>1. \E n \in S : \A m \in S : n <= m
  BY Least
<1>2. QED
  BY <1>1 DEF Min

\* What TextNext puts together: a text, rules or events.
InputType ==
    /\ kind \in {"pattern", "number", "head", "body", "id"} => input \in Text
    /\ kind = "rules" => input \in Seq(Rules)
    /\ kind = "milter" => input \in Seq(Responses \cup Faults)

LEMMA OneChar ==
    ASSUME NEW C, NEW D, C \subseteq D
    PROVE  Str(C) \subseteq Seq(D)
<1>1. \A c \in C : <<c>> \in Seq(D)
  OBVIOUS
<1>2. QED
  BY <1>1, Zenon DEF Str

\* The pieces of each kind.
LEMMA PieceTypes ==
    /\ \A k \in {"pattern", "number", "head", "body", "id"} : Pieces(k) \subseteq Text
    /\ Pieces("rules") \subseteq Seq(Rules)
    /\ Pieces("milter") \subseteq Seq(Responses \cup Faults)
<1>1. /\ Pieces("pattern") = Str({"a", "b", "*", "?", "[", "]", "!", "\\"})
      /\ Pieces("number") = Str({"0", "1", "9", " ", "+"})
      /\ Pieces("id") = Str({"a", "@", "\"", "\\", "[", "]", "(", ")", " "})
      /\ Pieces("head") = {<<"n">>, <<":">>, <<" ">>, <<".">>, CRLF, <<LF>>}
      /\ Pieces("body") = {<<"n">>, <<".">>, <<CR>>, CRLF, <<LF>>}
      /\ Pieces("rules") = {<<r>> : r \in Rules}
      /\ Pieces("milter") = Str(Responses \cup Faults)
  BY Zenon DEF Pieces
<1>2. Pieces("pattern") \subseteq Text /\ Pieces("number") \subseteq Text /\ Pieces("id") \subseteq Text
  <2> DEFINE A == {"a", "b", "*", "?", "[", "]", "!", "\\"}
             B == {"0", "1", "9", " ", "+"}
             C == {"a", "@", "\"", "\\", "[", "]", "(", ")", " "}
  <2>1. A \subseteq Char /\ B \subseteq Char /\ C \subseteq Char
    BY CharAssumption, ZenonT(30) DEF KnownChars
  <2>2. Pieces("pattern") = Str(A) /\ Pieces("number") = Str(B) /\ Pieces("id") = Str(C)
    BY <1>1
  <2> HIDE DEF A, B, C
  <2>3. QED
    BY <2>1, <2>2, OneChar DEF Text
<1>3. Pieces("head") \subseteq Text /\ Pieces("body") \subseteq Text
  <2>1. "n" \in Char /\ ":" \in Char /\ " " \in Char /\ "." \in Char /\ CR \in Char /\ LF \in Char
    BY CharAssumption DEF KnownChars, CR, LF
  <2>2. (\A c \in Char : <<c>> \in Text) /\ (\A c, d \in Char : <<c, d>> \in Text)
    BY DEF Text
  <2>3. CRLF \in Text
    BY <2>1, <2>2, Zenon DEF CRLF
  <2>4. QED
    BY <1>1, <2>1, <2>2, <2>3, Zenon
<1>4. Pieces("rules") \subseteq Seq(Rules) /\ Pieces("milter") \subseteq Seq(Responses \cup Faults)
  <2>1. Pieces("rules") = Str(Rules)
    BY <1>1, Zenon DEF Str
  <2>2. Str(Rules) \subseteq Seq(Rules) /\ Str(Responses \cup Faults) \subseteq Seq(Responses \cup Faults)
    BY OneChar
  <2>3. QED
    BY <1>1, <2>1, <2>2, Zenon
<1>5. QED
  BY <1>2, <1>3, <1>4

LEMMA InputTyped == TextSpec => []InputType
<1>1. TextInit => InputType
  BY DEF TextInit, InputType, Text
<1>2. InputType /\ [TextNext]_textVars => InputType'
  <2> SUFFICES ASSUME InputType, [TextNext]_textVars PROVE InputType'
    OBVIOUS
  <2>1. CASE UNCHANGED textVars
    BY <2>1 DEF textVars, InputType
  <2>2. ASSUME NEW p \in Pieces(kind), Extend(p) PROVE InputType'
    <3>1. kind' = kind /\ input' = input \o p
      BY <2>2 DEF Extend
    <3>2. CASE kind \in {"pattern", "number", "head", "body", "id"}
      BY <2>2, <3>1, <3>2, PieceTypes DEF InputType, Text
    <3>3. CASE kind = "rules"
      BY <2>2, <3>1, <3>3, PieceTypes DEF InputType
    <3>4. CASE kind = "milter"
      BY <2>2, <3>1, <3>4, PieceTypes DEF InputType
    <3>5. QED
      BY <3>1, <3>2, <3>3, <3>4 DEF InputType
  <2>3. QED
    BY <2>1, <2>2 DEF TextNext
<1>3. QED
  BY <1>1, <1>2, PTL DEF TextSpec

\* Only an answer that accepts or consents gives ok.
LEMMA VerdictOk ==
    ASSUME NEW events \in Seq(Responses \cup Faults), NEW n \in Nat, n # 0,
           Verdict(events, n) = "ok"
    PROVE  n <= Len(events) /\ events[n] \in {"accept", "continue"}
<1>1. n <= Len(events)
  BY DEF Verdict
<1>2. HandleResponse(events[n]) = "ok"
  BY <1>1 DEF Verdict
<1>3. QED
  BY <1>1, <1>2 DEF HandleResponse

(***************************************************************************)
(* A milter that cannot be reached, breaks off, answers nonsense, asks for *)
(* a later attempt, rejects or discards stops the article, for any number  *)
(* of headers and any sequence of events: process_article of               *)
(* filters/milter.rs returns Ok only when the milter accepts or consents   *)
(* to every command.                                                       *)
(***************************************************************************)
THEOREM ClosedMilter == TextSpec => []MilterFailsClosed
<1>1. InputType => MilterFailsClosed
  <2> SUFFICES ASSUME InputType, kind = "milter" PROVE MilterFailsClosed
    BY DEF MilterFailsClosed
  <2>1. input \in Seq(Responses \cup Faults)
    BY DEF InputType
  <2>2. Commands \in Nat /\ Commands >= 4
    BY HeadersAssumption DEF Commands
  <2>3. ProcessArticle(FALSE, input) # "ok"
    BY DEF ProcessArticle
  <2> DEFINE S == {n \in 1 .. Commands :
                     n = Commands \/ n > Len(input) \/ input[n] # "continue"}
             d == Decisive(input)
  <2>4. d \in S /\ \A m \in S : d <= m
    <3>1. S \subseteq Nat /\ S # {} /\ d = Min(S)
      BY <2>2 DEF Decisive
    <3> HIDE DEF S, d
    <3>2. QED
      BY <3>1, MinIs
  <2>5. \A m \in 1 .. d - 1 : input[m] = "continue" /\ m <= Len(input)
    <3>1. \A m \in 1 .. d - 1 : m \in 1 .. Commands /\ m \notin S
      BY <2>2, <2>4
    <3>2. QED
      BY <3>1
  <2> HIDE DEF d
  <2>6. ASSUME ProcessArticle(TRUE, input) = "ok"
        PROVE  \/ \E n \in 1 .. Commands : /\ n <= Len(input) /\ input[n] = "accept"
                                           /\ \A m \in 1 .. n - 1 : input[m] = "continue"
               \/ /\ Commands <= Len(input)
                  /\ \A m \in 1 .. Commands : input[m] = "continue"
    <3>1. d \in 1 .. Commands /\ d \in Nat /\ d # 0
      BY <2>2, <2>4
    <3>2. d <= Len(input) /\ input[d] \in {"accept", "continue"}
      BY <2>1, <2>6, <3>1, VerdictOk DEF ProcessArticle, d
    <3>3. CASE input[d] = "accept"
      BY <2>5, <3>1, <3>2, <3>3
    <3>4. CASE input[d] = "continue"
      <4>1. d = Commands
        BY <2>4, <3>2, <3>4
      <4>2. QED
        BY <2>2, <2>5, <3>2, <3>4, <4>1
    <3>5. QED
      BY <3>2, <3>3, <3>4
  <2>7. QED
    BY <2>3, <2>6 DEF MilterFailsClosed
<1>2. QED
  BY <1>1, InputTyped, PTL

USE DEF Text

-----------------------------------------------------------------------------
(* Parts of texts, and str::trim.                                          *)

LEMMA MinEq ==
    ASSUME NEW S, S \subseteq Int, NEW m \in S, \A n \in S : m <= n
    PROVE  Min(S) = m
<1>1. Min(S) \in S /\ \A n \in S : Min(S) <= n
  BY DEF Min
<1> DEFINE k == Min(S)
<1>2. k \in Int /\ m \in Int /\ k <= m /\ m <= k
  BY <1>1
<1> HIDE DEF k
<1>3. QED
  BY <1>2 DEF k

LEMMA MaxEq ==
    ASSUME NEW S, S \subseteq Int, NEW m \in S, \A n \in S : n <= m
    PROVE  Max(S) = m
<1>1. \A n \in S : m >= n
  OBVIOUS
<1>2. Max(S) \in S /\ \A n \in S : Max(S) >= n
  BY <1>1 DEF Max
<1> DEFINE k == Max(S)
<1>3. k \in Int /\ m \in Int /\ k >= m /\ k <= m
  BY <1>2
<1> HIDE DEF k
<1>4. QED
  BY <1>3 DEF k

LEMMA MaxIs ==
    ASSUME NEW n \in Nat, NEW S, S \subseteq 0 .. n, S # {}
    PROVE  Max(S) \in S /\ \A m \in S : m <= Max(S)
<1> DEFINE T == {n - m : m \in S}
<1>1. T \subseteq Nat /\ T # {}
  <2>1. \A m \in S : m \in 0 .. n /\ n - m \in Nat
    OBVIOUS
  <2>2. QED
    BY <2>1
<1>2. PICK k \in T : \A l \in T : k <= l
  <2> HIDE DEF T
  <2> QED BY <1>1, Least
<1>3. PICK m \in S : k = n - m
  OBVIOUS
<1>4. \A l \in S : l <= m
  <2> SUFFICES ASSUME NEW l \in S PROVE l <= m
    OBVIOUS
  <2>1. n - l \in T
    OBVIOUS
  <2>2. k <= n - l
    BY <1>2, <2>1
  <2>3. QED
    BY <1>3, <2>2
<1>5. S \subseteq Int
  OBVIOUS
<1>6. QED
  BY <1>4, <1>5, MaxEq

\* A part of a text.
LEMMA SubText ==
    ASSUME NEW C, NEW s \in Seq(C), NEW a \in 1 .. Len(s) + 1, NEW b \in 0 .. Len(s), a <= b + 1
    PROVE  /\ SubSeq(s, a, b) \in Seq(C)
           /\ Len(SubSeq(s, a, b)) = b - a + 1
           /\ \A i \in 1 .. b - a + 1 : SubSeq(s, a, b)[i] = s[a + i - 1]
<1>1. \A i \in a .. b : s[i] \in C
  BY ElementOfSeq
<1>2. a \in Int /\ b \in Int
  OBVIOUS
<1>3. QED
  BY <1>1, <1>2, SubSeqProperties

\* Texts with the same characters are equal.
LEMMA SameText ==
    ASSUME NEW C, NEW s \in Seq(C), NEW t \in Seq(C), Len(s) = Len(t),
           \A i \in 1 .. Len(s) : s[i] = t[i]
    PROVE  s = t
  BY SeqEqual

LEMMA InkPlaces ==
    ASSUME NEW s \in Text
    PROVE  Ink(s) \subseteq 1 .. Len(s) /\ Ink(s) \subseteq Nat /\ Ink(s) \subseteq Int /\ Ink(s) \subseteq 0 .. Len(s)
<1>1. DOMAIN s = 1 .. Len(s) /\ Len(s) \in Nat
  BY LenProperties DEF Text
<1>2. Ink(s) \subseteq 1 .. Len(s)
  BY <1>1, Zenon DEF Ink
<1>3. QED
  BY <1>1, <1>2

LEMMA OneMore ==
    ASSUME NEW C, NEW s \in Seq(C), NEW c \in C
    PROVE  /\ s \o <<c>> = Append(s, c) /\ Append(s, c) \in Seq(C)
           /\ Len(Append(s, c)) = Len(s) + 1 /\ Append(s, c)[Len(s) + 1] = c
           /\ \A i \in 1 .. Len(s) : Append(s, c)[i] = s[i]
  BY AppendIsConcat, AppendProperties

LEMMA Segment ==
    ASSUME NEW C, NEW s \in Seq(C), NEW n \in Nat, n = Len(s), NEW a \in 1 .. n + 1,
           NEW b \in 0 .. n, NEW k \in Nat, k = b - a + 1
    PROVE  /\ SubSeq(s, a, b) \in Seq(C) /\ Len(SubSeq(s, a, b)) = k
           /\ \A i \in 1 .. k : SubSeq(s, a, b)[i] = s[a + i - 1]
<1>1. a <= b + 1
  OBVIOUS
<1>2. QED
  BY <1>1, SubText

\* All but the last character.
LEMMA FrontText ==
    ASSUME NEW C, NEW s \in Seq(C), s # <<>>
    PROVE  /\ Front(s) \in Seq(C) /\ Len(Front(s)) = Len(s) - 1
           /\ \A i \in 1 .. Len(s) - 1 : Front(s)[i] = s[i]
<1>1. PICK n \in Nat : n = Len(s)
  BY LenProperties
<1>2. n # 0
  BY <1>1, EmptySeq
<1>3. n - 1 \in 0 .. n /\ n - 1 \in Nat /\ n - 1 = (n - 1) - 1 + 1 /\ 1 \in 1 .. n + 1
      /\ \A i \in 1 .. n - 1 : 1 + i - 1 = i
  BY <1>2
<1>4. QED
  BY <1>1, <1>3, Segment DEF Front

\* Trimming takes the blanks off both ends, and no more.
LEMMA Trimmed ==
    ASSUME NEW s \in Text, NEW a \in Ink(s), NEW b \in Ink(s),
           \A i \in Ink(s) : a <= i /\ i <= b
    PROVE  Trim(s) = SubSeq(s, a, b)
<1>1. Ink(s) \subseteq Int
  BY InkPlaces
<1>2. Min(Ink(s)) = a /\ Max(Ink(s)) = b
  BY <1>1, MinEq, MaxEq
<1>3. QED
  BY <1>2 DEF Trim

\* A text that is not blank has a first and a last character that is not.
LEMMA InkEnds ==
    ASSUME NEW s \in Text, Ink(s) # {}
    PROVE  \E a, b \in Ink(s) : \A i \in Ink(s) : a <= i /\ i <= b
<1>1. Ink(s) \subseteq Nat /\ Ink(s) \subseteq 0 .. Len(s) /\ Len(s) \in Nat
  BY InkPlaces
<1>2. PICK a \in Ink(s) : \A i \in Ink(s) : a <= i
  BY <1>1, Least
<1>3. PICK b \in Ink(s) : \A i \in Ink(s) : i <= b
  BY <1>1, MaxIs
<1>4. QED
  BY <1>2, <1>3

\* The blanks of a part of a text.
LEMMA InkShift ==
    ASSUME NEW s \in Text, NEW t \in Text, NEW d \in Nat,
           \A i \in 1 .. Len(t) : i + d \in 1 .. Len(s) /\ t[i] = s[i + d]
    PROVE  \A i \in 1 .. Len(t) : i \in Ink(t) <=> i + d \in Ink(s)
<1>1. DOMAIN s = 1 .. Len(s) /\ DOMAIN t = 1 .. Len(t)
  BY LenProperties
<1> SUFFICES ASSUME NEW i \in 1 .. Len(t) PROVE i \in Ink(t) <=> i + d \in Ink(s)
  OBVIOUS
<1> DEFINE j == i + d
<1>2. j \in 1 .. Len(s) /\ t[i] = s[j]
  OBVIOUS
<1> HIDE DEF j
<1>3. i \in Ink(t) <=> j \in Ink(s)
  BY <1>1, <1>2, Zenon DEF Ink
<1>4. QED
  BY <1>3 DEF j

\* Trimming a text with a unit behind it leaves the unit at the end, and in
\* front of it what trimming the text alone leaves.
LEMMA TrimmedUnit ==
    ASSUME NEW s \in Text, NEW c \in Char, c \notin Spaces
    PROVE  LET t == Trim(Append(s, c))
           IN  /\ t \in Text /\ t # <<>> /\ Last(t) = c
               /\ Front(t) \in Text /\ Trim(Front(t)) = Trim(s)
<1>1. PICK n \in Nat : n = Len(s)
  OBVIOUS
<1>2. PICK u \in Text : u = Append(s, c)
  <2>1. Append(s, c) \in Text
    OBVIOUS
  <2>2. QED
    BY <2>1, Zenon
<1>3. Len(u) = n + 1 /\ u[n + 1] = c /\ (\A i \in 1 .. n : u[i] = s[i]) /\ DOMAIN u = 1 .. n + 1
  BY <1>1, <1>2
<1>4. n + 1 \in Ink(u)
  <2>1. n + 1 \in DOMAIN u
    BY <1>3
  <2>2. QED
    BY <1>3, <2>1, Zenon DEF Ink
<1>5. \A i \in 1 .. n : i \in Ink(s) <=> i \in Ink(u)
  <2>1. \A i \in 1 .. n : i \in DOMAIN s /\ i \in DOMAIN u
    BY <1>1, <1>3
  <2>2. QED
    BY <1>3, <2>1, Zenon DEF Ink
<1>6. Ink(u) \subseteq 1 .. n + 1 /\ Ink(u) \subseteq Nat /\ Ink(s) \subseteq 1 .. n
  BY <1>1, <1>3, InkPlaces
<1>7. PICK a \in Ink(u) : \A i \in Ink(u) : a <= i
  BY <1>4, <1>6, Least
<1>8. PICK k \in 1 .. n + 1 : k = a
  BY <1>6
<1>9. Trim(u) = SubSeq(u, k, n + 1)
  <2>1. \A i \in Ink(u) : i <= n + 1
    BY <1>6
  <2>2. QED
    BY <1>4, <1>7, <1>8, <2>1, Trimmed
<1>10. PICK t \in Text : t = Trim(u)
  <2>1. k \in 1 .. Len(u) + 1 /\ n + 1 \in 0 .. Len(u) /\ k <= (n + 1) + 1
    BY <1>3
  <2>2. Trim(u) \in Text
    BY <1>9, <2>1, SubText
  <2>3. QED
    BY <2>2, Zenon
<1>11. Len(t) = n + 2 - k /\ \A i \in 1 .. n + 2 - k : t[i] = u[k + i - 1]
  <2>1. k \in 1 .. Len(u) + 1 /\ n + 1 \in 0 .. Len(u) /\ k <= (n + 1) + 1 /\ (n + 1) - k + 1 = n + 2 - k
    BY <1>3
  <2>2. QED
    BY <1>9, <1>10, <2>1, SubText
<1>12. t # <<>> /\ Last(t) = c
  <2>1. n + 2 - k \in 1 .. n + 2 - k /\ k + (n + 2 - k) - 1 = n + 1 /\ n + 2 - k # 0
    OBVIOUS
  <2>2. t[n + 2 - k] = c
    BY <1>3, <1>11, <2>1
  <2>3. QED
    BY <1>11, <2>1, <2>2 DEF Last
<1>13. PICK f \in Text : f = Front(t)
  BY <1>12, FrontText
<1>14. Len(f) = n + 1 - k /\ \A i \in 1 .. n + 1 - k : f[i] = s[i + (k - 1)] /\ i + (k - 1) \in 1 .. n
  <2>1. Len(f) = n + 1 - k /\ \A i \in 1 .. n + 1 - k : f[i] = t[i]
    <3>1. Len(t) - 1 = n + 1 - k
      BY <1>11
    <3>2. QED
      BY <1>12, <1>13, <3>1, FrontText
  <2>2. ASSUME NEW i \in 1 .. n + 1 - k PROVE f[i] = s[i + (k - 1)] /\ i + (k - 1) \in 1 .. n
    <3>1. i \in 1 .. n + 2 - k /\ k + i - 1 = i + (k - 1) /\ i + (k - 1) \in 1 .. n
      OBVIOUS
    <3>2. QED
      BY <1>3, <1>11, <2>1, <3>1
  <2>3. QED
    BY <2>1, <2>2
<1>15. \A i \in 1 .. n + 1 - k : i \in Ink(f) <=> i + (k - 1) \in Ink(s)
  <2>1. PICK d \in Nat : d = k - 1
    OBVIOUS
  <2>2. Len(f) = n + 1 - k
    BY <1>14
  <2>3. \A i \in 1 .. Len(f) : i + d \in 1 .. Len(s) /\ f[i] = s[i + d]
    BY <1>1, <1>14, <2>1
  <2>4. \A i \in 1 .. Len(f) : i \in Ink(f) <=> i + d \in Ink(s)
    BY <2>3, InkShift, Zenon
  <2>5. QED
    BY <2>1, <2>2, <2>4, Zenon
<1>16. Ink(f) \subseteq 1 .. n + 1 - k
  BY <1>14, InkPlaces
<1>17. Trim(f) = Trim(s)
  <2>1. CASE Ink(s) = {}
    <3>1. Ink(f) = {}
      BY <1>15, <1>16, <2>1
    <3>2. QED
      BY <2>1, <3>1 DEF Trim
  <2>2. CASE Ink(s) # {}
    <3>1. PICK a1, b1 \in Ink(s) : \A i \in Ink(s) : a1 <= i /\ i <= b1
      BY <2>2, InkEnds
    <3>2. PICK b \in 1 .. n : b = b1
      BY <1>6
    <3>3. a1 \in 1 .. n /\ a1 \in Ink(u) /\ k <= a1 /\ k <= b /\ k \in 1 .. n
      <4>1. a1 \in 1 .. n /\ a1 \in Ink(u)
        BY <1>5, <1>6
      <4>2. k <= a1 /\ a1 <= b
        BY <1>7, <1>8, <3>1, <3>2, <4>1
      <4>3. QED
        BY <4>1, <4>2
    <3>4. k = a1
      <4>1. k \in Ink(s)
        BY <1>5, <1>8, <3>3
      <4>2. a1 <= k
        BY <3>1, <4>1
      <4>3. QED
        BY <3>3, <4>2
    <3>5. Trim(s) = SubSeq(s, k, b)
      BY <3>1, <3>2, <3>4, Trimmed
    <3>6. PICK l \in 1 .. n + 1 - k : l = b - k + 1
      BY <3>3
    <3>7. 1 \in Ink(f) /\ l \in Ink(f)
      <4>1. 1 \in 1 .. n + 1 - k /\ 1 + (k - 1) = k /\ l + (k - 1) = b
        BY <3>3, <3>6
      <4>2. QED
        BY <1>15, <3>1, <3>2, <3>4, <4>1
    <3>8. \A i \in Ink(f) : 1 <= i /\ i <= l
      <4> SUFFICES ASSUME NEW i \in Ink(f) PROVE 1 <= i /\ i <= l
        OBVIOUS
      <4>1. PICK j \in 1 .. n + 1 - k : j = i
        BY <1>16
      <4>2. j + (k - 1) <= b
        BY <1>15, <3>1, <3>2, <4>1
      <4>3. 1 <= j /\ j <= l
        BY <3>6, <4>2
      <4>4. QED
        BY <4>1, <4>3
    <3>9. Trim(f) = SubSeq(f, 1, l)
      BY <3>7, <3>8, Trimmed
    <3>10. PICK x \in Text, y \in Text : x = SubSeq(f, 1, l) /\ y = SubSeq(s, k, b)
      <4>1. 1 \in 1 .. Len(f) + 1 /\ l \in 0 .. Len(f) /\ 1 <= l + 1
        BY <1>14
      <4>2. k \in 1 .. Len(s) + 1 /\ b \in 0 .. Len(s) /\ k <= b + 1
        BY <1>1, <3>3
      <4>3. SubSeq(f, 1, l) \in Text /\ SubSeq(s, k, b) \in Text
        BY <4>1, <4>2, SubText
      <4>4. QED
        BY <4>3, Zenon
    <3>11. Len(x) = l /\ \A i \in 1 .. l : x[i] = f[i]
      <4>1. 1 \in 1 .. Len(f) + 1 /\ l \in 0 .. Len(f) /\ 1 <= l + 1 /\ l - 1 + 1 = l /\ \A i \in 1 .. l : 1 + i - 1 = i
        BY <1>14
      <4>2. QED
        BY <3>10, <4>1, SubText
    <3>12. Len(y) = l /\ \A i \in 1 .. l : y[i] = s[k + i - 1]
      <4>1. k \in 1 .. Len(s) + 1 /\ b \in 0 .. Len(s) /\ k <= b + 1
        BY <1>1, <3>3
      <4>2. QED
        BY <3>6, <3>10, <4>1, SubText
    <3>13. \A i \in 1 .. l : f[i] = s[k + i - 1]
      <4>1. \A i \in 1 .. l : i \in 1 .. n + 1 - k /\ k + i - 1 = i + (k - 1)
        OBVIOUS
      <4>2. QED
        BY <1>14, <4>1
    <3>14. x = y
      BY <3>11, <3>12, <3>13, SameText
    <3>15. QED
      BY <3>5, <3>9, <3>10, <3>14
  <2>3. QED
    BY <2>1, <2>2
<1>18. QED
  BY <1>2, <1>10, <1>12, <1>13, <1>17

LEMMA TrimType ==
    ASSUME NEW s \in Text
    PROVE  Trim(s) \in Text
<1>1. CASE Ink(s) = {}
  <2>1. <<>> \in Text
    OBVIOUS
  <2>2. QED
    BY <1>1, <2>1, Zenon DEF Trim
<1>2. CASE Ink(s) # {}
  <2>1. PICK a, b \in Ink(s) : \A i \in Ink(s) : a <= i /\ i <= b
    BY <1>2, InkEnds
  <2>2. Ink(s) \subseteq 1 .. Len(s) /\ Len(s) \in Nat
    BY InkPlaces
  <2>3. a \in 1 .. Len(s) + 1 /\ b \in 0 .. Len(s) /\ a <= b + 1
    BY <2>1, <2>2
  <2>4. Trim(s) = SubSeq(s, a, b)
    BY <2>1, Trimmed
  <2>5. SubSeq(s, a, b) \in Text
    BY <2>3, SubText
  <2>6. QED
    BY <2>4, <2>5, Zenon
<1>3. QED
  BY <1>1, <1>2

-----------------------------------------------------------------------------
(* Sizes and durations.                                                    *)

LEMMA TenDigits == DOMAIN Digits = 1 .. 10
  BY DEF Digits

Units == {"K", "k", "M", "m", "G", "g", "s", "S", "h", "H", "d", "D", "w", "W", " "}

LEMMA NoDigits == \A c \in Chars(Digits) : c \notin Units
<1>1. /\ Digits[1] = "0" /\ Digits[2] = "1" /\ Digits[3] = "2" /\ Digits[4] = "3" /\ Digits[5] = "4"
      /\ Digits[6] = "5" /\ Digits[7] = "6" /\ Digits[8] = "7" /\ Digits[9] = "8" /\ Digits[10] = "9"
  BY DEF Digits
<1>2. \A i \in 1 .. 10 : i = 1 \/ i = 2 \/ i = 3 \/ i = 4 \/ i = 5 \/ i = 6 \/ i = 7 \/ i = 8 \/ i = 9 \/ i = 10
  OBVIOUS
<1>3. \A c \in {"0", "1", "2", "3", "4", "5", "6", "7", "8", "9"} : c \notin Units
  BY DEF Units
<1>4. \A i \in 1 .. 10 : Digits[i] \notin Units
  BY <1>1, <1>2, <1>3, Zenon
<1>5. QED
  BY <1>4, TenDigits, Zenon DEF Chars

LEMMA UnitFactors ==
    /\ SizeFactor("K") = Kilo /\ DurationFactor("m") = 60 /\ DurationFactor("h") = 60 * 60
<1>1. \A c \in Chars(Digits) : c # "K" /\ c # "m" /\ c # "h"
  BY NoDigits, Zenon DEF Units
<1>2. SizeFactor("K") = Kilo
  BY <1>1, Zenon DEF SizeFactor
<1>3. DurationFactor("m") = 60
  BY <1>1, Zenon DEF DurationFactor
<1>4. DurationFactor("h") = 60 * 60
  BY <1>1, Zenon DEF DurationFactor
<1>5. QED
  BY <1>2, <1>3, <1>4

LEMMA DigitFactors ==
    ASSUME NEW c \in Chars(Digits)
    PROVE  SizeFactor(c) = 1 /\ DurationFactor(c) = 1
<1>1. c \notin {"K", "k"} /\ c \notin {"M", "m"} /\ c \notin {"G", "g"} /\ c \notin {"s", "S"}
      /\ c \notin {"m", "M"} /\ c \notin {"h", "H"} /\ c \notin {"d", "D"} /\ c \notin {"w", "W"}
  BY NoDigits, Zenon DEF Units
<1>2. QED
  BY <1>1, Zenon DEF SizeFactor, DurationFactor

\* A digit is worth nine at most.
LEMMA DigitValue ==
    ASSUME NEW c \in Chars(Digits)
    PROVE  Digit(c) \in 0 .. 9
<1>1. PICK i \in 1 .. 10 : Digits[i] = c
  BY TenDigits DEF Chars
<1>2. PICK d \in 0 .. 9 : d + 1 = i
  <2>1. i - 1 \in 0 .. 9 /\ (i - 1) + 1 = i
    OBVIOUS
  <2>2. QED
    BY <2>1
<1>3. \E e \in 0 .. 9 : Digits[e + 1] = c
  BY <1>1, <1>2
<1>4. QED
  BY <1>3, Zenon DEF Digit

LEMMA CountingStep == IsStep(Counting, Nat, Chars(Digits))
<1>1. \A n \in Nat, c \in Chars(Digits) : 10 * n + Digit(c) \in Nat
  <2> SUFFICES ASSUME NEW n \in Nat, NEW c \in Chars(Digits) PROVE 10 * n + Digit(c) \in Nat
    OBVIOUS
  <2>1. PICK d \in 0 .. 9 : d = Digit(c)
    BY DigitValue
  <2>2. 10 * n + d \in Nat
    OBVIOUS
  <2>3. QED
    BY <2>1, <2>2
<1>2. QED
  BY <1>1 DEF IsStep, Counting

LEMMA TailText ==
    ASSUME NEW C, NEW s \in Seq(C), NEW n \in Nat, n = Len(s), n > 1
    PROVE  Tail(s) \in Seq(C) /\ Len(Tail(s)) = n - 1 /\ \A i \in 1 .. n - 1 : Tail(s)[i] = s[i + 1]
<1>1. s # <<>>
  OBVIOUS
<1>2. QED
  BY <1>1, HeadTailProperties

LEMMA LongTail ==
    ASSUME NEW s \in Text, Len(s) > 1
    PROVE  /\ Tail(s) \in Text /\ s # <<>>
           /\ Last(s) = Tail(s)[Len(Tail(s))]
<1>1. PICK n \in Nat : n = Len(s)
  OBVIOUS
<1>2. n > 1 /\ s # <<>>
  BY <1>1
<1>3. Tail(s) \in Text /\ Len(Tail(s)) = n - 1 /\ \A i \in 1 .. n - 1 : Tail(s)[i] = s[i + 1]
  BY <1>1, <1>2, TailText
<1>4. n - 1 \in 1 .. n - 1 /\ (n - 1) + 1 = n
  BY <1>2
<1>5. QED
  BY <1>1, <1>2, <1>3, <1>4 DEF Last

LEMMA LastOfTail ==
    ASSUME NEW s \in Text, NEW d, d # <<>>, d = s \/ (d = Tail(s) /\ Len(s) > 1)
    PROVE  d \in Seq(Char) /\ s # <<>> /\ Last(s) = d[Len(d)]
<1>1. CASE d = s
  BY <1>1, Zenon DEF Last, Text
<1>2. CASE d = Tail(s) /\ Len(s) > 1
  BY <1>2, LongTail, Zenon DEF Text
<1>3. QED
  BY <1>1, <1>2

\* A number that is taken is below Word, and its last character is a digit.
LEMMA Parsed ==
    ASSUME NEW s \in Text, ParseU64(s) # Absent
    PROVE  /\ ParseU64(s) \in Nat /\ ParseU64(s) < Word
           /\ s # <<>> /\ Last(s) \in Chars(Digits)
<1> DEFINE d == IF Len(s) > 1 /\ s[1] = "+" THEN Tail(s) ELSE s
           n == Loop(Counting, 0, d)
<1>1. d # <<>> /\ Chars(d) \subseteq Chars(Digits) /\ n < Word /\ ParseU64(s) = n
  BY Zenon DEF ParseU64
<1>2. d = s \/ (d = Tail(s) /\ Len(s) > 1)
  BY Zenon
<1> HIDE DEF d, n
<1>3. d \in Seq(Char) /\ s # <<>> /\ Last(s) = d[Len(d)]
  BY <1>1, <1>2, LastOfTail
<1>4. d \in Seq(Chars(Digits)) /\ d[Len(d)] \in Chars(Digits)
  <2>1. DOMAIN d = 1 .. Len(d) /\ Len(d) \in Nat /\ Len(d) # 0
    BY <1>1, <1>3
  <2>2. \A i \in 1 .. Len(d) : d[i] \in Chars(Digits)
    BY <1>1, <2>1 DEF Chars
  <2>3. QED
    BY <1>3, <2>1, <2>2
<1>5. n \in Nat
  BY <1>4, CountingStep, LoopType DEF n
<1>6. QED
  BY <1>1, <1>3, <1>4, <1>5

LEMMA NotNumbers == Absent \notin Int /\ Refused \notin Int /\ Absent \notin Text /\ Refused \notin Text
<1>1. \A x : x \in {Absent, Refused} => x \notin Int \cup Text
  BY NotValues
<1>2. QED
  BY <1>1, Zenon

\* A product is exact or is not taken.
LEMMA Multiplied ==
    ASSUME NEW n \in Nat, NEW f \in Nat, f # 0
    PROVE  CheckedMul(n, f) = Absent \/ CheckedMul(n, f) = n * f
  BY DEF CheckedMul

LEMMA TimesOne ==
    ASSUME NEW n \in Nat, n < Word
    PROVE  CheckedMul(n, 1) = n
  BY WordAssumption DEF CheckedMul

\* A number is what its digits say, with or without a unit behind it.
LEMMA ScaledPlain ==
    ASSUME NEW s \in Text, ParseU64(s) # Absent
    PROVE  Scaled(s, 1) = ParseU64(s)
<1>1. ParseU64(s) \in Nat /\ ParseU64(s) < Word /\ Last(s) \in Chars(Digits)
  BY Parsed
<1>2. CheckedMul(ParseU64(s), 1) = ParseU64(s)
  BY <1>1, TimesOne
<1>3. 1 # Absent
  BY NotNumbers
<1>4. QED
  BY <1>1, <1>2, <1>3, Zenon DEF Scaled, Last

LEMMA ScaledUnit ==
    ASSUME NEW s \in Text, NEW c \in Char, c \notin Spaces, c \notin Chars(Digits), NEW f \in Nat, f # 0
    PROVE  LET t == Trim(Append(s, c))
           IN  /\ t # <<>> /\ t[Len(t)] = c
               /\ \/ Scaled(t, f) = Absent
                  \/ /\ ParseU64(Trim(s)) # Absent
                     /\ Scaled(t, f) = ParseU64(Trim(s)) * f
<1> DEFINE t == Trim(Append(s, c))
           n == ParseU64(Trim(s))
<1>1. t # <<>> /\ Last(t) = c /\ Trim(Front(t)) = Trim(s)
  BY TrimmedUnit
<1>2. t[Len(t)] = c
  BY <1>1, Zenon DEF Last
<1>3. Scaled(t, f) = IF f = Absent \/ n = Absent THEN Absent ELSE CheckedMul(n, f)
  BY <1>1, <1>2, Zenon DEF Scaled
<1>4. Trim(s) \in Text
  BY TrimType
<1> HIDE DEF t
<1>5. ASSUME n # Absent PROVE Scaled(t, f) = Absent \/ Scaled(t, f) = n * f
  <2>1. n \in Nat
    BY <1>4, <1>5, Parsed
  <2>2. f # Absent
    BY NotNumbers
  <2> HIDE DEF n
  <2>3. QED
    BY <1>3, <1>5, <2>1, <2>2, Multiplied
<1>6. QED
  BY <1>1, <1>2, <1>3, <1>5, Zenon DEF t

\* Where the text is a number, it is its own value without a unit.
LEMMA PlainNumber ==
    ASSUME NEW s \in Text, ParseU64(Trim(s)) # Absent
    PROVE  /\ parse_size(s) = ParseU64(Trim(s))
           /\ parse_duration_secs(s) = Absent \/ parse_duration_secs(s) = ParseU64(Trim(s))
<1>1. Trim(s) \in Text
  BY TrimType
<1>2. Trim(s) # <<>> /\ Last(Trim(s)) \in Chars(Digits) /\ Scaled(Trim(s), 1) = ParseU64(Trim(s))
  BY <1>1, Parsed, ScaledPlain
<1>3. SizeFactor(Last(Trim(s))) = 1 /\ DurationFactor(Last(Trim(s))) = 1
  BY <1>2, DigitFactors
<1>4. QED
  BY <1>2, <1>3, Zenon DEF parse_size, parse_duration_secs, Last

(***************************************************************************)
(* parse_size and parse_duration_secs of config.rs, for any text and any   *)
(* unit: the value with the unit is that many times the number in front of *)
(* it, or it is not taken; no overflow of the checked multiplication and   *)
(* no blank makes another number of it.  And no text is a bandwidth limit  *)
(* of zero bytes.                                                          *)
(***************************************************************************)
THEOREM UnitsWorth ==
    ASSUME NEW s \in Text, NEW c \in Char, c \notin Spaces, c \notin Chars(Digits), NEW f \in Nat \ {0}
    PROVE  /\ SizeFactor(c) = f =>
                Worth(parse_size(s), deserialize_size(s \o <<c>>), f)
           /\ DurationFactor(c) = f =>
                Worth(parse_duration_secs(s), deserialize_duration_secs(s \o <<c>>), f)
           /\ deserialize_bandwidth_limit(s) # 0
<1>1. PICK t : t = Trim(Append(s, c))
  OBVIOUS
<1>2. PICK u : u = ParseU64(Trim(s))
  OBVIOUS
<1>3. t # <<>> /\ t[Len(t)] = c /\ (Scaled(t, f) = Absent \/ (u # Absent /\ Scaled(t, f) = u * f))
  BY <1>1, <1>2, ScaledUnit
<1>4. u # Absent => /\ parse_size(s) = u
                    /\ parse_duration_secs(s) = Absent \/ parse_duration_secs(s) = u
  BY <1>2, PlainNumber
<1>5. s \o <<c>> = Append(s, c)
  OBVIOUS
<1>6. ASSUME SizeFactor(c) = f
      PROVE  Worth(parse_size(s), deserialize_size(s \o <<c>>), f)
  <2>1. parse_size(s \o <<c>>) = Scaled(t, f)
    BY <1>1, <1>3, <1>5, <1>6, Zenon DEF parse_size
  <2>2. QED
    BY <1>3, <1>4, <2>1, Zenon DEF Worth, deserialize_size
<1>7. ASSUME DurationFactor(c) = f
      PROVE  Worth(parse_duration_secs(s), deserialize_duration_secs(s \o <<c>>), f)
  <2>1. parse_duration_secs(s \o <<c>>) = Absent \/ parse_duration_secs(s \o <<c>>) = Scaled(t, f)
    BY <1>1, <1>3, <1>5, <1>7, Zenon DEF parse_duration_secs
  <2>2. QED
    BY <1>3, <1>4, <2>1, Zenon DEF Worth, deserialize_duration_secs
<1>8. deserialize_bandwidth_limit(s) # 0
  <2>1. Absent # 0 /\ Refused # 0
    BY NotNumbers
  <2>2. QED
    BY <2>1, Zenon DEF deserialize_bandwidth_limit
<1>9. QED
  BY <1>6, <1>7, <1>8

(***************************************************************************)
(* The inputs of the run: kilobytes, minutes and hours are exact or        *)
(* refused, and no way to write a bandwidth limit makes it zero bytes.     *)
(***************************************************************************)
THEOREM ExactUnits == TextSpec => []UnitsExact
<1>1. InputType => UnitsExact
  <2> SUFFICES ASSUME InputType, kind = "number" PROVE UnitsExact
    BY DEF UnitsExact
  <2>1. input \in Text
    BY DEF InputType
  <2>2. \A c \in {"K", "m", "h"} : c \in Char /\ c \notin Spaces /\ c \notin Chars(Digits)
    <3>1. \A c \in {"K", "m", "h"} : c \in Char /\ c \notin Spaces
      BY CharAssumption DEF KnownChars, Spaces, CR, LF
    <3>2. QED
      BY <3>1, NoDigits, Zenon DEF Units
  <2>3. PICK k \in Nat \ {0}, m \in Nat \ {0}, h \in Nat \ {0} :
          k = 1024 /\ m = 60 /\ h = 3600 /\ Kilo = k /\ 60 = m /\ 60 * 60 = h
    BY DEF Kilo
  <2>4. SizeFactor("K") = k /\ DurationFactor("m") = m /\ DurationFactor("h") = h
    BY <2>3, UnitFactors
  <2>5. /\ Worth(parse_size(input), deserialize_size(input \o <<"K">>), k)
        /\ Worth(parse_duration_secs(input), deserialize_duration_secs(input \o <<"m">>), m)
        /\ Worth(parse_duration_secs(input), deserialize_duration_secs(input \o <<"h">>), h)
    BY <2>1, <2>2, <2>4, UnitsWorth, Zenon DEF Text
  <2>6. \A unit \in {<<>>, <<"K">>} : deserialize_bandwidth_limit(input \o unit) # 0
    <3>1. Absent # 0 /\ Refused # 0
      BY NotNumbers
    <3>2. QED
      BY <3>1, Zenon DEF deserialize_bandwidth_limit
  <2>7. QED
    BY <2>3, <2>5, <2>6 DEF UnitsExact
<1>2. QED
  BY <1>1, InputTyped, PTL

-----------------------------------------------------------------------------
(* The rules of group_settings.  FirstRule chooses the one rule that is    *)
(* before all others; the exchange of two neighbours that are not tied     *)
(* moves that rule and no other into its place.                            *)

Weight(rules, k) == Wildcards(rules[k].pattern)
Length(rules, k) == Len(rules[k].pattern)
Prefers(rules, j, k) == Before(rules[j].pattern, rules[k].pattern)

\* The rule FirstRule chooses.
Best(rules, fits, j) ==
    /\ j \in fits
    /\ \A k \in fits \ {j} : Prefers(rules, j, k) \/ (~Prefers(rules, k, j) /\ j < k)

Weighed(rules, fits) ==
    /\ fits \subseteq Nat
    /\ \E most \in Nat : \A k \in fits : Weight(rules, k) \in Nat /\ Length(rules, k) \in 0 .. most

LEMMA PrefersIs ==
    ASSUME NEW rules, NEW j, NEW k
    PROVE  Prefers(rules, j, k) <=>
              \/ Weight(rules, j) < Weight(rules, k)
              \/ Weight(rules, j) = Weight(rules, k) /\ Length(rules, j) > Length(rules, k)
  BY Zenon DEF Prefers, Weight, Length, Before, MoreSpecific

\* There is such a rule: of those with the fewest wildcards, of those the
\* longest, of those the first.
LEMMA BestExists ==
    ASSUME NEW rules, NEW fits, Weighed(rules, fits), fits # {}
    PROVE  \E j \in fits : Best(rules, fits, j)
<1> DEFINE W(k) == Weight(rules, k)
           L(k) == Length(rules, k)
           A == {W(k) : k \in fits}
<1>1. PICK most \in Nat : \A k \in fits : k \in Nat /\ W(k) \in Nat /\ L(k) \in 0 .. most
  BY DEF Weighed
<1> HIDE DEF W, L
<1>2. PICK w \in A : \A v \in A : w <= v
  <2>1. A \subseteq Nat /\ A # {}
    BY <1>1
  <2> HIDE DEF A
  <2>2. QED
    BY <2>1, Least
<1> DEFINE B == {most - L(k) : k \in {k \in fits : W(k) = w}}
<1>3. PICK b \in B : \A v \in B : b <= v
  <2>1. B \subseteq Nat /\ B # {}
    BY <1>1
  <2> HIDE DEF B
  <2>2. QED
    BY <2>1, Least
<1> DEFINE D == {k \in fits : W(k) = w /\ most - L(k) = b}
<1>4. PICK j \in D : \A v \in D : j <= v
  <2>1. D \subseteq Nat /\ D # {}
    BY <1>1
  <2> HIDE DEF D
  <2>2. QED
    BY <2>1, Least
<1>5. ASSUME NEW k \in fits, k # j
      PROVE  Prefers(rules, j, k) \/ (~Prefers(rules, k, j) /\ j < k)
  <2>1. W(k) \in Nat /\ L(k) \in 0 .. most /\ W(j) = w /\ most - L(j) = b /\ k \in Nat /\ j \in Nat /\ L(j) \in 0 .. most /\ w \in Nat
    BY <1>1
  <2>2. w <= W(k)
    BY <1>2
  <2>3. W(k) = w => b <= most - L(k)
    BY <1>3
  <2>4. W(k) = w /\ most - L(k) = b => j <= k
    BY <1>4
  <2> HIDE DEF A, B, D
  <2>5. \/ W(j) < W(k) \/ (W(j) = W(k) /\ L(j) > L(k))
        \/ (W(j) = W(k) /\ L(j) = L(k) /\ j < k)
    BY <1>5, <2>1, <2>2, <2>3, <2>4
  <2>6. QED
    BY <2>1, <2>5, PrefersIs DEF W, L
<1>6. QED
  BY <1>5 DEF Best

\* And only one.
LEMMA BestOnly ==
    ASSUME NEW rules, NEW fits, Weighed(rules, fits),
           NEW j, NEW k, Best(rules, fits, j), Best(rules, fits, k)
    PROVE  j = k
<1> SUFFICES ASSUME j # k PROVE FALSE
  OBVIOUS
<1>1. j \in fits /\ k \in fits /\ j \in Nat /\ k \in Nat
  BY DEF Best, Weighed
<1>2. /\ Prefers(rules, j, k) \/ (~Prefers(rules, k, j) /\ j < k)
      /\ Prefers(rules, k, j) \/ (~Prefers(rules, j, k) /\ k < j)
  BY <1>1 DEF Best
<1>3. ~(Prefers(rules, j, k) /\ Prefers(rules, k, j))
  <2>1. /\ Weight(rules, j) \in Nat /\ Weight(rules, k) \in Nat
        /\ Length(rules, j) \in Nat /\ Length(rules, k) \in Nat
    BY <1>1 DEF Weighed
  <2>2. QED
    BY <2>1, PrefersIs
<1>4. QED
  BY <1>1, <1>2, <1>3

LEMMA FirstRuleIs ==
    ASSUME NEW rules, NEW fits, Weighed(rules, fits), NEW j, Best(rules, fits, j)
    PROVE  FirstRule(rules, fits) = j
<1>1. \A k \in fits : Best(rules, fits, k) <=>
           \A l \in fits \ {k} : \/ Before(rules[k].pattern, rules[l].pattern)
                                 \/ ~Before(rules[l].pattern, rules[k].pattern) /\ k < l
  BY Zenon DEF Best, Prefers
<1>2. j \in fits
  BY DEF Best
<1>3. Best(rules, fits, FirstRule(rules, fits))
  BY <1>1, <1>2, Zenon DEF FirstRule
<1>4. QED
  BY <1>3, BestOnly

\* The exchange of the places i and i + 1.
Pi(i, j) == IF j = i THEN i + 1 ELSE IF j = i + 1 THEN i ELSE j

LEMMA Exchange ==
    ASSUME NEW n \in Nat, NEW i \in 1 .. n - 1, NEW j \in 1 .. n
    PROVE  /\ Pi(i, j) \in 1 .. n /\ Pi(i, Pi(i, j)) = j
  BY DEF Pi

\* It keeps the order of all others.
LEMMA ExchangeOrder ==
    ASSUME NEW n \in Nat, NEW i \in 1 .. n - 1, NEW j \in 1 .. n, NEW k \in 1 .. n, j < k
    PROVE  Pi(i, j) < Pi(i, k) \/ (j = i /\ k = i + 1)
  BY DEF Pi

LEMMA SwappedIs ==
    ASSUME NEW R, NEW s \in Seq(R), NEW n \in Nat, n = Len(s), NEW i \in 1 .. n - 1
    PROVE  /\ DOMAIN s = 1 .. n /\ DOMAIN Swapped(s, i) = 1 .. n
           /\ \A j \in 1 .. n : s[j] \in R /\ Swapped(s, i)[j] = s[Pi(i, j)]
  BY DEF Swapped, Pi

\* A rule of any configuration.
GroupRule == [group : Text \cup {Absent}, pattern : Text \cup {Absent}, value : Int \cup {Absent}]

Longest(rules, most) ==
    \A k \in 1 .. Len(rules) : rules[k].pattern \in Text => Len(rules[k].pattern) \in 0 .. most

\* The patterns of a list have a greatest length.
LEMMA LongestExists ==
    ASSUME NEW s \in Seq(GroupRule)
    PROVE  \E most \in Nat : Longest(s, most)
<1> DEFINE X == {r \in Seq(GroupRule) : \E most \in Nat : Longest(r, most)}
<1>1. <<>> \in X
  <2>1. <<>> \in Seq(GroupRule) /\ 1 .. Len(<<>>) = {}
    OBVIOUS
  <2>2. Longest(<<>>, 0)
    BY <2>1, Zenon DEF Longest
  <2>3. QED
    BY <2>1, <2>2
<1>2. ASSUME NEW r \in X, NEW g \in GroupRule PROVE Append(r, g) \in X
  <2>1. PICK m \in Nat : Longest(r, m)
    OBVIOUS
  <2>2. PICK n \in Nat : m <= n /\ (g.pattern \in Text => Len(g.pattern) \in 0 .. n)
    <3>1. CASE g.pattern \in Text
      <4>1. PICK l \in Nat : l = Len(g.pattern)
        BY <3>1
      <4>2. m + l \in Nat /\ m <= m + l /\ l \in 0 .. m + l
        OBVIOUS
      <4>3. QED
        BY <4>1, <4>2, Zenon
    <3>2. CASE g.pattern \notin Text
      <4>1. m <= m
        OBVIOUS
      <4>2. QED
        BY <3>2, <4>1, Zenon
    <3>3. QED
      BY <3>1, <3>2
  <2>3. r \in Seq(GroupRule)
    OBVIOUS
  <2>4. PICK a \in Seq(GroupRule) : a = Append(r, g)
    BY <2>3, OneMore, Zenon
  <2>5. /\ Len(a) = Len(r) + 1 /\ a[Len(r) + 1] = g /\ Len(r) \in Nat
        /\ \A k \in 1 .. Len(r) : a[k] = r[k]
    BY <2>3, <2>4, OneMore
  <2>6. Longest(a, n)
    <3> SUFFICES ASSUME NEW k \in 1 .. Len(a), a[k].pattern \in Text
                 PROVE  Len(a[k].pattern) \in 0 .. n
      BY Zenon DEF Longest
    <3>1. k \in 1 .. Len(r) \/ k = Len(r) + 1
      BY <2>5
    <3>2. CASE k \in 1 .. Len(r)
      <4>1. PICK p \in Text : p = a[k].pattern /\ p = r[k].pattern
        BY <2>5, <3>2, Zenon
      <4>2. Len(p) \in 0 .. m
        BY <2>1, <3>2, <4>1, Zenon DEF Longest
      <4>3. Len(p) \in 0 .. n
        BY <2>2, <4>2
      <4>4. QED
        BY <4>1, <4>3, Zenon
    <3>3. CASE k = Len(r) + 1
      BY <2>2, <2>5, <3>3, Zenon
    <3>4. QED
      BY <3>1, <3>2, <3>3
  <2>7. QED
    BY <2>4, <2>6
<1>3. X \in SUBSET Seq(GroupRule)
  OBVIOUS
<1> HIDE DEF X
<1>4. X = Seq(GroupRule)
  BY <1>1, <1>2, <1>3, SeqInduction
<1>5. QED
  BY <1>4 DEF X

LEMMA RulesAre == Rules \subseteq GroupRule
<1>1. \A p \in RulePatterns \cup {<<"a", "b">>, <<"c">>} : p \in Text
  <2>1. "*" \in Char /\ "a" \in Char /\ "b" \in Char /\ "c" \in Char /\ "?" \in Char
    BY CharAssumption DEF KnownChars
  <2>2. \A c \in Char : \A d \in Char : \A e \in Char :
          <<c>> \in Text /\ <<c, d>> \in Text /\ <<c, d, e>> \in Text
    OBVIOUS
  <2>3. QED
    BY <2>1, <2>2, Zenon DEF RulePatterns
<1>2. \A v \in Values : v \in Int \cup {Absent}
  BY DEF Values
<1>3. \A g \in Text \cup {Absent} : \A p \in Text \cup {Absent} : \A v \in Int \cup {Absent} :
        Rule(g, p, v) \in GroupRule
  BY DEF Rule, GroupRule
<1>4. ASSUME NEW r \in Rules PROVE r \in GroupRule
  <2>1. CASE \E g \in {<<"a", "b">>, <<"c">>}, v \in Values : r = Rule(g, Absent, v)
    BY <1>1, <1>2, <1>3, <2>1, Zenon
  <2>2. CASE \E p \in RulePatterns, v \in Values \ {0} : r = Rule(Absent, p, v)
    BY <1>1, <1>2, <1>3, <2>2, Zenon
  <2>3. QED
    BY <2>1, <2>2 DEF Rules
<1>5. QED
  BY <1>4

\* The wildcards of a pattern can be counted.
LEMMA WildcardsType ==
    ASSUME NEW p \in Text
    PROVE  Wildcards(p) \in Nat
<1> DEFINE S == {i \in DOMAIN p : p[i] \in {"*", "?"}}
<1>1. DOMAIN p = 1 .. Len(p) /\ Len(p) \in Nat
  OBVIOUS
<1>2. S \subseteq 1 .. Len(p)
  BY <1>1, Zenon
<1>3. IsFiniteSet(S)
  <2> HIDE DEF S
  <2>1. IsFiniteSet(1 .. Len(p))
    BY <1>1, FS_Interval
  <2>2. QED
    BY <1>2, <2>1, FS_Subset
<1>4. Cardinality(S) \in Nat
  BY <1>3, FS_CardinalityType
<1>5. QED
  BY <1>4, Zenon DEF Wildcards

\* The rules for the group itself, and the pattern rules that apply to it.
ExactRules(rules, group) == {i \in DOMAIN rules : rules[i].group = group}
FittingRules(rules, group) ==
    {i \in DOMAIN rules :
        /\ rules[i].group = Absent /\ rules[i].pattern # Absent
        /\ wildmat(rules[i].pattern, group)
        /\ rules[i].value # Absent}

LEMMA ValueForIs ==
    ASSUME NEW rules, NEW group
    PROVE  LET exact == ExactRules(rules, group)
               fits == FittingRules(rules, group)
           IN  ValueFor(rules, group) =
                 IF exact # {} /\ rules[Min(exact)].value # Absent THEN rules[Min(exact)].value
                 ELSE IF fits # {} THEN rules[FirstRule(rules, fits)].value
                 ELSE Absent
  BY Zenon DEF ValueFor, ExactRules, FittingRules

\* The exchange of two neighbours that are not tied changes no value.
LEMMA SameValue ==
    ASSUME NEW s \in Seq(GroupRule), NEW n \in Nat, n = Len(s), NEW i \in 1 .. n - 1,
           ~Tied(s[i], s[i + 1]), NEW group, group # Absent
    PROVE  ValueFor(Swapped(s, i), group) = ValueFor(s, group)
<1> DEFINE t == Swapped(s, i)
           E == ExactRules(s, group)
           F == FittingRules(s, group)
           E2 == ExactRules(t, group)
           F2 == FittingRules(t, group)
<1>1. /\ DOMAIN s = 1 .. n /\ DOMAIN t = 1 .. n
      /\ \A j \in 1 .. n : s[j] \in GroupRule /\ t[j] = s[Pi(i, j)]
  BY SwappedIs
<1>2. \A j \in 1 .. n : Pi(i, j) \in 1 .. n /\ Pi(i, Pi(i, j)) = j
  BY Exchange
<1> HIDE DEF t
<1>3. E \subseteq 1 .. n /\ E2 \subseteq 1 .. n /\ F \subseteq 1 .. n /\ F2 \subseteq 1 .. n
  BY <1>1, Zenon DEF ExactRules, FittingRules
<1>4. \A j \in 1 .. n : j \in E2 <=> Pi(i, j) \in E
  BY <1>1, <1>2, Zenon DEF ExactRules
<1>5. \A j \in 1 .. n : j \in F2 <=> Pi(i, j) \in F
  BY <1>1, <1>2, Zenon DEF FittingRules
<1>6. i \in 1 .. n /\ i + 1 \in 1 .. n
  OBVIOUS
<1>7. ~(i \in E /\ i + 1 \in E)
  BY <1>6, Zenon DEF ExactRules, Tied
<1>8. i \in F /\ i + 1 \in F => Prefers(s, i, i + 1) \/ Prefers(s, i + 1, i)
  BY Zenon DEF FittingRules, Tied, Prefers, Before
<1>9. Weighed(s, F)
  <2>1. PICK most \in Nat : Longest(s, most)
    BY LongestExists
  <2>2. ASSUME NEW k \in F PROVE Weight(s, k) \in Nat /\ Length(s, k) \in 0 .. most
    <3>1. k \in 1 .. n /\ s[k] \in GroupRule /\ s[k].pattern # Absent
      BY <1>1, <1>3, Zenon DEF FittingRules
    <3>2. s[k].pattern \in Text
      BY <3>1 DEF GroupRule
    <3>3. Len(s[k].pattern) \in 0 .. most
      BY <2>1, <3>1, <3>2, Zenon DEF Longest
    <3>4. Wildcards(s[k].pattern) \in Nat
      BY <3>2, WildcardsType
    <3>5. QED
      BY <3>3, <3>4, Zenon DEF Weight, Length
  <2>3. F \subseteq Nat
    BY <1>3
  <2>4. QED
    BY <2>2, <2>3, Zenon DEF Weighed
<1> HIDE DEF E, E2, F, F2
<1>10. \A j \in 1 .. n : t[Pi(i, j)] = s[j]
  BY <1>1, <1>2
<1>11. Weighed(t, F2)
  <2>1. PICK most \in Nat : \A k \in F : Weight(s, k) \in Nat /\ Length(s, k) \in 0 .. most
    BY <1>9, Zenon DEF Weighed
  <2>2. ASSUME NEW k \in F2 PROVE Weight(t, k) \in Nat /\ Length(t, k) \in 0 .. most
    <3>1. Pi(i, k) \in F /\ t[k] = s[Pi(i, k)]
      BY <1>1, <1>3, <1>5
    <3>2. QED
      BY <2>1, <3>1, Zenon DEF Weight, Length
  <2>3. F2 \subseteq Nat
    BY <1>3
  <2>4. QED
    BY <2>2, <2>3, Zenon DEF Weighed
<1>12. E = {} => E2 = {}
  BY <1>3, <1>4
<1>13. F = {} => F2 = {}
  BY <1>3, <1>5
<1>14. ASSUME E # {} PROVE E2 # {} /\ t[Min(E2)] = s[Min(E)]
  <2>1. PICK m \in E : \A k \in E : m <= k
    <3>1. E \subseteq Nat
      BY <1>3
    <3>2. QED
      BY <1>14, <3>1, Least
  <2>2. m \in 1 .. n /\ Pi(i, m) \in E2
    BY <1>2, <1>3, <1>4
  <2>3. ASSUME NEW k \in E2 PROVE Pi(i, m) <= k
    <3>1. k \in 1 .. n /\ Pi(i, k) \in E /\ Pi(i, k) \in 1 .. n /\ Pi(i, Pi(i, k)) = k
      BY <1>2, <1>3, <1>4
    <3>2. PICK l \in 1 .. n : l = Pi(i, k)
      BY <3>1
    <3>3. m <= l /\ l \in E /\ k = Pi(i, l)
      BY <2>1, <3>1, <3>2
    <3>4. CASE m = l
      BY <3>1, <3>3, <3>4
    <3>5. CASE m < l
      <4>1. Pi(i, m) < Pi(i, l)
        BY <1>7, <2>2, <3>3, <3>5, ExchangeOrder
      <4>2. QED
        BY <1>2, <2>2, <3>1, <3>3, <4>1
    <3>6. QED
      BY <2>2, <3>3, <3>4, <3>5
  <2>4. Min(E2) = Pi(i, m) /\ Min(E) = m
    <3>1. E \subseteq Int /\ E2 \subseteq Int
      BY <1>3
    <3>2. QED
      BY <2>1, <2>2, <2>3, <3>1, MinEq
  <2>5. QED
    BY <1>10, <2>2, <2>4
<1>15. ASSUME F # {} PROVE F2 # {} /\ t[FirstRule(t, F2)] = s[FirstRule(s, F)]
  <2>1. PICK j \in F : Best(s, F, j)
    BY <1>9, <1>15, BestExists
  <2>2. j \in 1 .. n /\ Pi(i, j) \in F2 /\ Pi(i, j) \in 1 .. n
    BY <1>2, <1>3, <1>5
  <2>3. Best(t, F2, Pi(i, j))
    <3> SUFFICES ASSUME NEW k \in F2, k # Pi(i, j)
                 PROVE  Prefers(t, Pi(i, j), k) \/ (~Prefers(t, k, Pi(i, j)) /\ Pi(i, j) < k)
      BY <2>2 DEF Best
    <3>1. PICK l \in 1 .. n : l = Pi(i, k) /\ l \in F /\ k = Pi(i, l) /\ k \in 1 .. n
      BY <1>2, <1>3, <1>5
    <3>2. l # j
      BY <3>1
    <3>3. Prefers(s, j, l) \/ (~Prefers(s, l, j) /\ j < l)
      BY <2>1, <3>1, <3>2 DEF Best
    <3>4. (Prefers(t, Pi(i, j), k) <=> Prefers(s, j, l)) /\ (Prefers(t, k, Pi(i, j)) <=> Prefers(s, l, j))
      BY <1>1, <1>10, <2>2, <3>1, Zenon DEF Prefers
    <3>5. CASE Prefers(s, j, l)
      BY <3>4, <3>5
    <3>6. CASE ~Prefers(s, j, l) /\ ~Prefers(s, l, j) /\ j < l
      <4>1. Pi(i, j) < Pi(i, l) \/ (j = i /\ l = i + 1)
        BY <2>2, <3>1, <3>6, ExchangeOrder
      <4>2. ~(j = i /\ l = i + 1)
        BY <1>8, <2>1, <3>1, <3>6
      <4>3. QED
        BY <3>1, <3>4, <3>6, <4>1, <4>2
    <3>7. QED
      BY <3>3, <3>5, <3>6
  <2>4. FirstRule(s, F) = j /\ FirstRule(t, F2) = Pi(i, j)
    BY <1>9, <1>11, <2>1, <2>3, FirstRuleIs
  <2>5. QED
    BY <1>10, <2>2, <2>4
<1>16. ValueFor(s, group) =
         IF E # {} /\ s[Min(E)].value # Absent THEN s[Min(E)].value
         ELSE IF F # {} THEN s[FirstRule(s, F)].value ELSE Absent
  BY ValueForIs, Zenon DEF E, F
<1>17. ValueFor(t, group) =
         IF E2 # {} /\ t[Min(E2)].value # Absent THEN t[Min(E2)].value
         ELSE IF F2 # {} THEN t[FirstRule(t, F2)].value ELSE Absent
  BY ValueForIs, Zenon DEF E2, F2
<1>18. ValueFor(t, group) = ValueFor(s, group)
  <2>1. (E # {} <=> E2 # {}) /\ (F # {} <=> F2 # {})
    BY <1>12, <1>13, <1>14, <1>15
  <2>2. (E # {} => t[Min(E2)].value = s[Min(E)].value)
        /\ (F # {} => t[FirstRule(t, F2)].value = s[FirstRule(s, F)].value)
    BY <1>14, <1>15
  <2>3. QED
    BY <1>16, <1>17, <2>1, <2>2
<1>19. QED
  BY <1>18 DEF t

(***************************************************************************)
(* max_size_for_group and retention_for_group of config.rs, for any list   *)
(* of rules and any group: exchanging two neighbours that do not name the  *)
(* same group and are not equally specific changes neither answer.         *)
(***************************************************************************)
THEOREM OrderNeverDecides ==
    ASSUME NEW s \in Seq(GroupRule), NEW i \in 1 .. Len(s) - 1, ~Tied(s[i], s[i + 1]), NEW group \in Text
    PROVE  /\ max_size_for_group(Swapped(s, i), group) = max_size_for_group(s, group)
           /\ retention_for_group(Swapped(s, i), group) = retention_for_group(s, group)
<1>1. PICK n \in Nat : n = Len(s) /\ i \in 1 .. n - 1
  OBVIOUS
<1>2. group # Absent
  BY NotNumbers
<1>3. ValueFor(Swapped(s, i), group) = ValueFor(s, group)
  BY <1>1, <1>2, SameValue
<1>4. QED
  BY <1>3, Zenon DEF max_size_for_group, retention_for_group

(***************************************************************************)
(* The same for every list the run can put together: the order of the      *)
(* rules in the configuration does not matter.                             *)
(***************************************************************************)
THEOREM IrrelevantOrder == TextSpec => []OrderIrrelevant
<1>1. InputType => OrderIrrelevant
  <2> SUFFICES ASSUME InputType, kind = "rules", NEW i \in 1 .. Len(input) - 1,
                      ~Tied(input[i], input[i + 1])
               PROVE  /\ max_size_for_group(Swapped(input, i), <<"a", "b">>)
                           = max_size_for_group(input, <<"a", "b">>)
                      /\ retention_for_group(Swapped(input, i), <<"a", "b">>)
                           = retention_for_group(input, <<"a", "b">>)
    BY Zenon DEF OrderIrrelevant
  <2>1. input \in Seq(GroupRule)
    <3>1. input \in Seq(Rules)
      BY DEF InputType
    <3>2. QED
      BY <3>1, RulesAre
  <2>2. <<"a", "b">> \in Text
    <3>1. "a" \in Char /\ "b" \in Char
      BY CharAssumption DEF KnownChars
    <3>2. QED
      BY <3>1
  <2>3. QED
    BY <2>1, <2>2, OrderNeverDecides, Zenon DEF Text
<1>2. QED
  BY <1>1, InputTyped, PTL

-----------------------------------------------------------------------------
(* Message-IDs.  What is escaped is scanned back, character by character,  *)
(* where it stands: in quotes, in brackets or bare (Echo); so the parts of *)
(* the ID come back (LeftBack, RightBack), and with them the whole         *)
(* (MiddleBack).                                                           *)

\* The scanner outside of comments.
State(o, q, b, e) == [out |-> o, quotes |-> q, brackets |-> b, depth |-> 0, escaped |-> e]

LEMMA NestedType ==
    ASSUME NEW n \in Nat, n > 0, NEW c
    PROVE  Nested(n, c) \in Nat
<1>1. n + 1 \in Nat /\ n - 1 \in Nat
  OBVIOUS
<1>2. QED
  BY <1>1, Zenon DEF Nested

LEMMA ScanStep == IsStep(Unescaping, Scanner, Char)
<1>1. ASSUME NEW st \in Scanner, NEW c \in Char PROVE Scan(st, c) \in Scanner
  <2>1. CASE st.depth > 0
    <3>1. Nested(st.depth, c) \in Nat
      BY <2>1, NestedType DEF Scanner
    <3>2. Scan(st, c) = [st EXCEPT !.depth = Nested(st.depth, c)]
      BY <2>1, Zenon DEF Scan
    <3>3. QED
      BY <3>1, <3>2 DEF Scanner
  <2>2. CASE ~(st.depth > 0)
    <3>1. Append(st.out, c) \in Text /\ 1 \in Nat
      BY DEF Scanner
    <3> DEFINE push == [st EXCEPT !.out = Append(st.out, c)]
    <3>2. /\ push \in Scanner /\ [push EXCEPT !.escaped = FALSE] \in Scanner
          /\ [st EXCEPT !.quotes = ~st.quotes] \in Scanner /\ [push EXCEPT !.brackets = TRUE] \in Scanner
          /\ [push EXCEPT !.brackets = FALSE] \in Scanner /\ [st EXCEPT !.escaped = TRUE] \in Scanner
          /\ [st EXCEPT !.depth = 1] \in Scanner
      BY <3>1 DEF Scanner
    <3>3. QED
      BY <2>2, <3>2, Zenon DEF Scan
  <2>3. QED
    BY <2>1, <2>2
<1>2. QED
  BY <1>1 DEF IsStep, Unescaping

LEMMA ScanApplied ==
    ASSUME NEW st \in Scanner, NEW c \in Char
    PROVE  Applied(Unescaping, st, c) = Scan(st, c)
  BY DEF Applied, Unescaping

LEMMA StateType ==
    ASSUME NEW o \in Text, NEW q \in BOOLEAN, NEW b \in BOOLEAN, NEW e \in BOOLEAN
    PROVE  State(o, q, b, e) \in Scanner
  BY DEF State, Scanner

LEMMA StateFields ==
    ASSUME NEW o, NEW q, NEW b, NEW e
    PROVE  /\ State(o, q, b, e).out = o /\ State(o, q, b, e).quotes = q
           /\ State(o, q, b, e).brackets = b /\ State(o, q, b, e).depth = 0
           /\ State(o, q, b, e).escaped = e
  BY DEF State

\* The scan, without its comments.
LEMMA ScanOutside ==
    ASSUME NEW o \in Text, NEW q \in BOOLEAN, NEW b \in BOOLEAN, NEW e \in BOOLEAN, NEW c
    PROVE  LET new == Scan(State(o, q, b, e), c)
               more == Append(o, c)
           IN  /\ e => new = State(more, q, b, FALSE)
               /\ ~e /\ c = "\"" /\ ~b => new = State(o, ~q, b, e)
               /\ ~e /\ c = "[" /\ ~q => new = State(more, q, TRUE, e)
               /\ ~e /\ c = "]" /\ b => new = State(more, q, FALSE, e)
               /\ ~e /\ c = "\\" /\ (q \/ b) => new = State(o, q, b, TRUE)
               /\ /\ ~e /\ ~(c = "\"" /\ ~b) /\ ~(c = "[" /\ ~q) /\ ~(c = "]" /\ b)
                  /\ ~(c = "\\" /\ (q \/ b)) /\ ~(c = "(" /\ ~(q \/ b)) /\ ~(c \in Spaces /\ ~(q \/ b))
                  => new = State(more, q, b, e)
<1>1. \A x, y : [State(o, q, b, e) EXCEPT !.out = x] = State(x, q, b, e)
      /\ [State(o, q, b, e) EXCEPT !.quotes = x] = State(o, x, b, e)
      /\ [State(o, q, b, e) EXCEPT !.escaped = x] = State(o, q, b, x)
      /\ [State(y, q, b, e) EXCEPT !.brackets = x] = State(y, q, x, e)
      /\ [State(y, q, b, e) EXCEPT !.escaped = x] = State(y, q, b, x)
  BY DEF State
<1> DEFINE st == State(o, q, b, e)
           push == [st EXCEPT !.out = Append(st.out, c)]
<1>2. /\ st.quotes = q /\ st.brackets = b /\ st.escaped = e /\ ~(st.depth > 0) /\ st.out = o
  <2>1. ~(0 > 0)
    OBVIOUS
  <2>2. QED
    BY <2>1, StateFields
<1>3. push = State(Append(o, c), q, b, e)
  BY <1>2, <1>1, Zenon
<1>4. /\ [push EXCEPT !.escaped = FALSE] = State(Append(o, c), q, b, FALSE)
      /\ [push EXCEPT !.brackets = TRUE] = State(Append(o, c), q, TRUE, e)
      /\ [push EXCEPT !.brackets = FALSE] = State(Append(o, c), q, FALSE, e)
      /\ [st EXCEPT !.quotes = ~st.quotes] = State(o, ~q, b, e)
      /\ [st EXCEPT !.escaped = TRUE] = State(o, q, b, TRUE)
  <2>1. st = State(o, q, b, e)
    OBVIOUS
  <2> HIDE DEF st, push
  <2>2. [push EXCEPT !.escaped = FALSE] = State(Append(o, c), q, b, FALSE)
    BY <1>1, <1>3, Zenon
  <2>3. [push EXCEPT !.brackets = TRUE] = State(Append(o, c), q, TRUE, e)
    BY <1>1, <1>3, Zenon
  <2>4. [push EXCEPT !.brackets = FALSE] = State(Append(o, c), q, FALSE, e)
    BY <1>1, <1>3, Zenon
  <2>5. [st EXCEPT !.quotes = ~st.quotes] = State(o, ~q, b, e)
    BY <1>2, <2>1 DEF State
  <2>6. [st EXCEPT !.escaped = TRUE] = State(o, q, b, TRUE)
    BY <1>1, <2>1, Zenon
  <2>7. QED
    BY <2>2, <2>3, <2>4, <2>5, <2>6
<1>5. Scan(st, c) =
        IF st.escaped THEN [push EXCEPT !.escaped = FALSE]
        ELSE IF c = "\"" /\ ~st.brackets THEN [st EXCEPT !.quotes = ~st.quotes]
        ELSE IF c = "[" /\ ~st.quotes THEN [push EXCEPT !.brackets = TRUE]
        ELSE IF c = "]" /\ st.brackets THEN [push EXCEPT !.brackets = FALSE]
        ELSE IF c = "\\" /\ (st.quotes \/ st.brackets) THEN [st EXCEPT !.escaped = TRUE]
        ELSE IF c = "(" /\ ~(st.quotes \/ st.brackets) THEN [st EXCEPT !.depth = 1]
        ELSE IF c \in Spaces /\ ~(st.quotes \/ st.brackets) THEN st
        ELSE push
  BY <1>2, Zenon DEF Scan
<1> HIDE DEF st, push
<1>6. /\ "[" # "\"" /\ "]" # "\"" /\ "]" # "[" /\ "\\" # "\"" /\ "\\" # "[" /\ "\\" # "]"
  OBVIOUS
<1>7. /\ e => Scan(st, c) = State(Append(o, c), q, b, FALSE)
      /\ ~e /\ c = "\"" /\ ~b => Scan(st, c) = State(o, ~q, b, e)
      /\ ~e /\ c = "[" /\ ~q => Scan(st, c) = State(Append(o, c), q, TRUE, e)
      /\ ~e /\ c = "]" /\ b => Scan(st, c) = State(Append(o, c), q, FALSE, e)
  BY <1>2, <1>3, <1>4, <1>5, <1>6, Zenon
<1>8. ~e /\ c = "\\" /\ (q \/ b) => Scan(st, c) = State(o, q, b, TRUE)
  BY <1>2, <1>3, <1>4, <1>5, <1>6, Zenon
<1>9. /\ ~e /\ ~(c = "\"" /\ ~b) /\ ~(c = "[" /\ ~q) /\ ~(c = "]" /\ b)
      /\ ~(c = "\\" /\ (q \/ b)) /\ ~(c = "(" /\ ~(q \/ b)) /\ ~(c \in Spaces /\ ~(q \/ b))
      => Scan(st, c) = State(Append(o, c), q, b, e)
  BY <1>2, <1>3, <1>4, <1>5, Zenon
<1>10. QED
  BY <1>7, <1>8, <1>9, Zenon DEF st

\* A character escaped, if it is one of C.
Code(c, C) == IF c \in C THEN <<"\\", c>> ELSE <<c>>
Coded(s, C) == [i \in DOMAIN s |-> Code(s[i], C)]

LEMMA JoinStep == IsStep(Joining, Text, Text)
  BY DEF IsStep, Joining

LEMMA JoinApplied ==
    ASSUME NEW s \in Text, NEW t \in Text
    PROVE  Applied(Joining, s, t) = s \o t
  BY DEF Applied, Joining

LEMMA JoinedEmpty == Joined(<<>>) = <<>>
<1>1. <<>> \in Text
  OBVIOUS
<1>2. QED
  BY <1>1, JoinStep, LoopEmpty, Zenon DEF Joined

\* Joining one piece more.
LEMMA JoinedAppend ==
    ASSUME NEW ps \in Seq(Text), NEW p \in Text
    PROVE  Joined(ps) \in Text /\ Joined(Append(ps, p)) = Joined(ps) \o p
<1>1. PICK e \in Text : e = <<>>
  <2>1. <<>> \in Text
    OBVIOUS
  <2>2. QED
    BY <2>1, Zenon
<1>2. Joined(ps) = Loop(Joining, e, ps) /\ Joined(Append(ps, p)) = Loop(Joining, e, Append(ps, p))
  BY <1>1, Zenon DEF Joined
<1> HIDE DEF Text
<1>3. Loop(Joining, e, ps) \in Text /\ Loop(Joining, e, Append(ps, p)) = Applied(Joining, Loop(Joining, e, ps), p)
  BY JoinStep, LoopAppend
<1>4. QED
  BY <1>2, <1>3, JoinApplied

LEMMA CodeType ==
    ASSUME NEW c \in Char, NEW C
    PROVE  Code(c, C) \in Text
<1>1. "\\" \in Char
  BY CharAssumption DEF KnownChars
<1>2. <<"\\", c>> \in Text /\ <<c>> \in Text
  BY <1>1
<1>3. QED
  BY <1>2, Zenon DEF Code

LEMMA CodedType ==
    ASSUME NEW s \in Text, NEW C
    PROVE  Coded(s, C) \in Seq(Text) /\ Len(Coded(s, C)) = Len(s)
           /\ \A i \in 1 .. Len(s) : Coded(s, C)[i] = Code(s[i], C)
<1>1. DOMAIN s = 1 .. Len(s) /\ Len(s) \in Nat /\ \A i \in 1 .. Len(s) : s[i] \in Char
  OBVIOUS
<1>2. \A i \in 1 .. Len(s) : Code(s[i], C) \in Text
  BY <1>1, CodeType
<1> HIDE DEF Text
<1>3. QED
  BY <1>1, <1>2 DEF Coded

LEMMA CodedAppend ==
    ASSUME NEW s \in Text, NEW c \in Char, NEW C
    PROVE  Coded(Append(s, c), C) = Append(Coded(s, C), Code(c, C))
<1>1. PICK n \in Nat : n = Len(s)
  OBVIOUS
<1>2. PICK u \in Text : u = Append(s, c)
  <2>1. Append(s, c) \in Text
    OBVIOUS
  <2>2. QED
    BY <2>1, Zenon
<1>3. Len(u) = n + 1 /\ u[n + 1] = c /\ \A i \in 1 .. n : u[i] = s[i]
  BY <1>1, <1>2
<1> DEFINE x == Coded(u, C)
           y == Coded(s, C)
           z == Code(c, C)
<1>4. x \in Seq(Text) /\ y \in Seq(Text) /\ z \in Text /\ Len(x) = n + 1 /\ Len(y) = n
      /\ x[n + 1] = z /\ \A i \in 1 .. n : x[i] = y[i]
  <2>1. \A i \in 1 .. n : i \in 1 .. n + 1
    OBVIOUS
  <2>2. n + 1 \in 1 .. n + 1
    OBVIOUS
  <2>3. QED
    BY <1>1, <1>3, <2>1, <2>2, CodedType, CodeType
<1> HIDE DEF x, y, z, Text
<1>5. x = Append(y, z)
  BY <1>4
<1>6. QED
  BY <1>2, <1>5 DEF x, y, z

LEMMA EscapedIs ==
    ASSUME NEW s, NEW C
    PROVE  Escaped(s, C) = Joined(Coded(s, C))
  BY Zenon DEF Escaped, Coded, Code

\* Escaping one character more.
LEMMA EscapedAppend ==
    ASSUME NEW s \in Text, NEW c \in Char, NEW C
    PROVE  Escaped(s, C) \in Text /\ Escaped(Append(s, c), C) = Escaped(s, C) \o Code(c, C)
  BY EscapedIs, CodedAppend, CodedType, CodeType, JoinedAppend

LEMMA EscapedEmpty ==
    ASSUME NEW C
    PROVE  Escaped(<<>>, C) = <<>>
<1>1. PICK e : e = <<>>
  OBVIOUS
<1>2. e \in Text /\ Len(e) = 0
  BY <1>1
<1>3. Coded(e, C) \in Seq(Text) /\ Len(Coded(e, C)) = 0
  BY <1>2, CodedType
<1>4. Coded(e, C) = <<>>
  BY <1>3, EmptySeq
<1>5. QED
  BY <1>1, <1>4, EscapedIs, JoinedEmpty, Zenon

\* What is scanned again is what was escaped, where each character is.
At(m, o) == State(o, m = "quotes", m = "brackets", FALSE)

LEMMA AtIs ==
    ASSUME NEW o
    PROVE  /\ At("plain", o) = State(o, FALSE, FALSE, FALSE)
           /\ At("quotes", o) = State(o, TRUE, FALSE, FALSE)
           /\ At("brackets", o) = State(o, FALSE, TRUE, FALSE)
  BY DEF At, State

LEMMA AtType ==
    ASSUME NEW m, NEW o \in Text
    PROVE  At(m, o) \in Scanner
  BY DEF At, State, Scanner

\* In the mode m, each character of D that is escaped is scanned as it was.
Echoes(D, C, m) ==
    \A c \in D : \A o \in Text : Loop(Unescaping, At(m, o), Code(c, C)) = At(m, Append(o, c))

LEMMA Echo ==
    ASSUME NEW D, D \subseteq Char, NEW C, NEW m, Echoes(D, C, m), NEW o \in Text, NEW s \in Seq(D)
    PROVE  Loop(Unescaping, At(m, o), Escaped(s, C)) = At(m, o \o s)
<1> DEFINE P(t) == Loop(Unescaping, At(m, o), Escaped(t, C)) = At(m, o \o t)
           X == {t \in Seq(D) : P(t)}
           a == At(m, o)
<1>1. Seq(D) \subseteq Seq(Char)
  BY SeqMonotonic
<1>2. a \in Scanner
  BY AtType
<1>3. <<>> \in X
  <2>1. o \o <<>> = o /\ <<>> \in Seq(D)
    OBVIOUS
  <2>2. Loop(Unescaping, At(m, o), <<>>) = At(m, o)
    <3> HIDE DEF a
    <3>1. Loop(Unescaping, a, <<>>) = a
      BY <1>2, ScanStep, LoopEmpty
    <3>2. QED
      BY <3>1 DEF a
  <2>3. P(<<>>)
    BY <2>1, <2>2, EscapedEmpty, Zenon
  <2>4. QED
    BY <2>1, <2>3
<1>4. ASSUME NEW t \in X, NEW c \in D PROVE Append(t, c) \in X
  <2>1. t \in Seq(D) /\ t \in Text /\ c \in Char /\ Append(t, c) \in Seq(D)
    BY <1>1
  <2>2. o \o t \in Text /\ o \o Append(t, c) = Append(o \o t, c)
    BY <2>1
  <2> DEFINE e == Escaped(t, C)
             k == Code(c, C)
  <2>3. e \in Text /\ k \in Text /\ Escaped(Append(t, c), C) = e \o k
    BY <2>1, EscapedAppend, CodeType
  <2>4. Loop(Unescaping, a, e) = At(m, o \o t)
    BY <1>4
  <2> HIDE DEF e, k, a
  <2>5. Loop(Unescaping, a, e \o k) = Loop(Unescaping, Loop(Unescaping, a, e), k)
    BY <1>2, <2>3, ScanStep, LoopConcat
  <2>6. Loop(Unescaping, At(m, o \o t), k) = At(m, Append(o \o t, c))
    BY <2>2, Zenon DEF k, Echoes, Text
  <2>7. P(Append(t, c))
    BY <2>2, <2>3, <2>4, <2>5, <2>6, Zenon DEF a
  <2>8. QED
    BY <2>1, <2>7
<1>5. X = Seq(D)
  <2> HIDE DEF P
  <2>1. X \in SUBSET Seq(D)
    OBVIOUS
  <2> HIDE DEF X
  <2>2. QED
    BY <1>3, <1>4, <2>1, SeqInduction
<1>6. QED
  BY <1>5

LEMMA LoopTwo ==
    ASSUME NEW V, NEW C, NEW G, IsStep(G, V, C), NEW a \in V, NEW c \in C, NEW d \in C
    PROVE  Loop(G, a, <<c, d>>) = Applied(G, Applied(G, a, c), d)
<1> DEFINE s == <<c>>
<1>1. s \in Seq(C) /\ <<c, d>> = Append(s, d)
  OBVIOUS
<1>2. Loop(G, a, s) = Applied(G, a, c)
  BY LoopOne
<1> HIDE DEF s
<1>3. Loop(G, a, Append(s, d)) = Applied(G, Loop(G, a, s), d)
  BY <1>1, LoopAppend
<1>4. QED
  BY <1>1, <1>2, <1>3

\* A character scanned by itself.
LEMMA ScanOne ==
    ASSUME NEW st \in Scanner, NEW c \in Char
    PROVE  Loop(Unescaping, st, <<c>>) = Scan(st, c)
  BY ScanStep, LoopOne, ScanApplied

LEMMA ScanTwo ==
    ASSUME NEW st \in Scanner, NEW c \in Char, Scan(st, c) \in Scanner, NEW d \in Char
    PROVE  Loop(Unescaping, st, <<c, d>>) = Scan(Scan(st, c), d)
<1>1. Loop(Unescaping, st, <<c, d>>) = Applied(Unescaping, Applied(Unescaping, st, c), d)
  BY ScanStep, LoopTwo
<1>2. QED
  BY <1>1, ScanApplied

LEMMA PlainPush ==
    ASSUME NEW p \in Text, NEW c \in Char, c \notin Special
    PROVE  Loop(Unescaping, State(p, FALSE, FALSE, FALSE), <<c>>) = State(Append(p, c), FALSE, FALSE, FALSE)
<1>1. State(p, FALSE, FALSE, FALSE) \in Scanner
  BY StateType
<1>2. Scan(State(p, FALSE, FALSE, FALSE), c) = State(Append(p, c), FALSE, FALSE, FALSE)
  BY ScanOutside, ZenonT(30) DEF Special
<1>3. QED
  BY <1>1, <1>2, ScanOne

LEMMA EscapedPush ==
    ASSUME NEW p \in Text, NEW c \in Char
    PROVE  /\ Loop(Unescaping, State(p, TRUE, FALSE, FALSE), <<"\\", c>>) = State(Append(p, c), TRUE, FALSE, FALSE)
           /\ Loop(Unescaping, State(p, FALSE, TRUE, FALSE), <<"\\", c>>) = State(Append(p, c), FALSE, TRUE, FALSE)
<1>1. "\\" \in Char
  BY CharAssumption DEF KnownChars
<1>2. /\ State(p, TRUE, FALSE, FALSE) \in Scanner /\ State(p, TRUE, FALSE, TRUE) \in Scanner
      /\ State(p, FALSE, TRUE, FALSE) \in Scanner /\ State(p, FALSE, TRUE, TRUE) \in Scanner
  BY StateType
<1>3. /\ Scan(State(p, TRUE, FALSE, FALSE), "\\") = State(p, TRUE, FALSE, TRUE)
      /\ Scan(State(p, FALSE, TRUE, FALSE), "\\") = State(p, FALSE, TRUE, TRUE)
  BY ScanOutside, ZenonT(30)
<1>4. /\ Scan(State(p, TRUE, FALSE, TRUE), c) = State(Append(p, c), TRUE, FALSE, FALSE)
      /\ Scan(State(p, FALSE, TRUE, TRUE), c) = State(Append(p, c), FALSE, TRUE, FALSE)
  BY ScanOutside, ZenonT(30)
<1>5. ASSUME NEW st \in Scanner, NEW mid \in Scanner, NEW new,
             Scan(st, "\\") = mid, Scan(mid, c) = new
      PROVE  Loop(Unescaping, st, <<"\\", c>>) = new
  <2>1. Scan(st, "\\") \in Scanner
    BY <1>5
  <2>2. Loop(Unescaping, st, <<"\\", c>>) = Scan(Scan(st, "\\"), c)
    BY <1>1, <2>1, ScanTwo
  <2>3. QED
    BY <1>5, <2>2
<1>6. Loop(Unescaping, State(p, TRUE, FALSE, FALSE), <<"\\", c>>) = State(Append(p, c), TRUE, FALSE, FALSE)
  BY <1>2, <1>3, <1>4, <1>5, Zenon
<1>7. Loop(Unescaping, State(p, FALSE, TRUE, FALSE), <<"\\", c>>) = State(Append(p, c), FALSE, TRUE, FALSE)
  BY <1>2, <1>3, <1>4, <1>5, Zenon
<1>8. QED
  BY <1>6, <1>7

LEMMA QuotedPush ==
    ASSUME NEW p \in Text, NEW c \in Char
    PROVE  Loop(Unescaping, State(p, TRUE, FALSE, FALSE), Code(c, {"\"", "\\"}))
             = State(Append(p, c), TRUE, FALSE, FALSE)
<1>1. CASE c \in {"\"", "\\"}
  <2>1. Loop(Unescaping, State(p, TRUE, FALSE, FALSE), <<"\\", c>>) = State(Append(p, c), TRUE, FALSE, FALSE)
    BY EscapedPush
  <2>2. QED
    BY <1>1, <2>1, Zenon DEF Code
<1>2. CASE c \notin {"\"", "\\"}
  <2>1. State(p, TRUE, FALSE, FALSE) \in Scanner
    BY StateType
  <2>2. Scan(State(p, TRUE, FALSE, FALSE), c) = State(Append(p, c), TRUE, FALSE, FALSE)
    BY <1>2, ScanOutside, ZenonT(30)
  <2>3. Loop(Unescaping, State(p, TRUE, FALSE, FALSE), <<c>>) = State(Append(p, c), TRUE, FALSE, FALSE)
    BY <2>1, <2>2, ScanOne
  <2>4. QED
    BY <1>2, <2>3, Zenon DEF Code
<1>3. QED
  BY <1>1, <1>2

LEMMA BracketPush ==
    ASSUME NEW p \in Text, NEW c \in Char
    PROVE  Loop(Unescaping, State(p, FALSE, TRUE, FALSE), Code(c, {"\\", "[", "]"}))
             = State(Append(p, c), FALSE, TRUE, FALSE)
<1>1. CASE c \in {"\\", "[", "]"}
  <2>1. Loop(Unescaping, State(p, FALSE, TRUE, FALSE), <<"\\", c>>) = State(Append(p, c), FALSE, TRUE, FALSE)
    BY EscapedPush
  <2>2. QED
    BY <1>1, <2>1, Zenon DEF Code
<1>2. CASE c \notin {"\\", "[", "]"}
  <2>1. State(p, FALSE, TRUE, FALSE) \in Scanner
    BY StateType
  <2>2. Scan(State(p, FALSE, TRUE, FALSE), c) = State(Append(p, c), FALSE, TRUE, FALSE)
    BY <1>2, ScanOutside, ZenonT(30)
  <2>3. Loop(Unescaping, State(p, FALSE, TRUE, FALSE), <<c>>) = State(Append(p, c), FALSE, TRUE, FALSE)
    BY <2>1, <2>2, ScanOne
  <2>4. QED
    BY <1>2, <2>3, Zenon DEF Code
<1>3. QED
  BY <1>1, <1>2

LEMMA QuotesEcho == Echoes(Char, {"\"", "\\"}, "quotes")
  BY AtIs, QuotedPush, Zenon DEF Echoes, Text

LEMMA BracketsEcho == Echoes(Char, {"\\", "[", "]"}, "brackets")
  BY AtIs, BracketPush, Zenon DEF Echoes, Text

LEMMA PlainEcho ==
    ASSUME NEW D \in SUBSET (Char \ Special), NEW C, D \cap C = {}
    PROVE  Echoes(D, C, "plain")
<1> SUFFICES ASSUME NEW c \in D, NEW o \in Text
             PROVE  Loop(Unescaping, At("plain", o), Code(c, C)) = At("plain", Append(o, c))
  BY Zenon DEF Echoes
<1>1. Code(c, C) = <<c>>
  <2>1. c \notin C
    OBVIOUS
  <2>2. QED
    BY <2>1, Zenon DEF Code
<1>2. c \in Char /\ c \notin Special
  OBVIOUS
<1>3. QED
  BY <1>1, <1>2, PlainPush, AtIs, Zenon DEF Text

LEMMA EscapedNone ==
    ASSUME NEW s \in Text
    PROVE  Escaped(s, {}) = s
<1> DEFINE P(t) == Escaped(t, {}) = t
           X == {t \in Text : P(t)}
<1>1. <<>> \in X
  <2>1. <<>> \in Text
    OBVIOUS
  <2>2. QED
    BY <2>1, EscapedEmpty
<1>2. ASSUME NEW t \in X, NEW c \in Char PROVE Append(t, c) \in X
  <2>1. t \in Text /\ Escaped(t, {}) = t /\ Append(t, c) \in Text
    OBVIOUS
  <2>2. Code(c, {}) = <<c>>
    BY DEF Code
  <2>3. Escaped(Append(t, c), {}) = t \o <<c>>
    <3>1. PICK N : N = {}
      OBVIOUS
    <3>2. Escaped(Append(t, c), N) = Escaped(t, N) \o Code(c, N)
      BY <2>1, EscapedAppend
    <3>3. QED
      BY <2>1, <2>2, <3>1, <3>2, Zenon
  <2>4. QED
    BY <2>1, <2>3
<1>3. X = Text
  <2> HIDE DEF P
  <2>1. X \in SUBSET Text
    OBVIOUS
  <2> HIDE DEF X
  <2>2. QED
    BY <1>1, <1>2, <2>1, SeqInduction
<1>4. QED
  BY <1>3

LEMMA OneText ==
    ASSUME NEW c \in Char
    PROVE  <<c>> \in Text
  OBVIOUS

LEMMA LoopThree ==
    ASSUME NEW V, NEW C, NEW G, IsStep(G, V, C), NEW a \in V,
           NEW s \in Seq(C), NEW t \in Seq(C), NEW u \in Seq(C)
    PROVE  Loop(G, a, (s \o t) \o u) = Loop(G, Loop(G, Loop(G, a, s), t), u)
<1> DEFINE v == s \o t
<1>1. v \in Seq(C)
  OBVIOUS
<1>2. Loop(G, a, v) = Loop(G, Loop(G, a, s), t)
  BY LoopConcat
<1> HIDE DEF v
<1>3. Loop(G, a, v \o u) = Loop(G, Loop(G, a, v), u)
  BY <1>1, LoopConcat
<1>4. QED
  BY <1>2, <1>3 DEF v

LEMMA EscapedType ==
    ASSUME NEW s \in Text, NEW C
    PROVE  Escaped(s, C) \in Text
<1>1. PICK c \in Char : TRUE
  BY CharAssumption DEF KnownChars
<1>2. QED
  BY EscapedAppend

\* The part in front of the @ comes back.
LEMMA LeftBack ==
    ASSUME NEW s \in Text
    PROVE  /\ EscapedLeft(s) \in Text
           /\ Loop(Unescaping, At("plain", <<>>), EscapedLeft(s)) = At("plain", s)
<1> DEFINE C == {"\"", "\\"}
           e == Escaped(s, C)
<1>1. PICK z \in Text : z = <<>> /\ z \o s = s
  <2>1. <<>> \in Text /\ <<>> \o s = s
    OBVIOUS
  <2>2. QED
    BY <2>1, Zenon
<1>2. e \in Text
  BY EscapedType
<1>3. CASE \E i \in DOMAIN s : s[i] \notin AtomChars
  <2>1. PICK m \in Text : m = <<"\"">>
    <3>1. "\"" \in Char
      BY CharAssumption DEF KnownChars
    <3>2. QED
      BY <3>1, OneText, Zenon
  <2>2. EscapedLeft(s) = (m \o e) \o m
    BY <1>3, <2>1, Zenon DEF EscapedLeft
  <2>3. \A o \in Text : /\ Loop(Unescaping, At("plain", o), m) = At("quotes", o)
                        /\ Loop(Unescaping, At("quotes", o), m) = At("plain", o)
    <3> SUFFICES ASSUME NEW o \in Text
                 PROVE  /\ Loop(Unescaping, At("plain", o), m) = At("quotes", o)
                        /\ Loop(Unescaping, At("quotes", o), m) = At("plain", o)
      OBVIOUS
    <3>1. At("plain", o) \in Scanner /\ At("quotes", o) \in Scanner
      BY AtType
    <3>2. /\ Scan(State(o, FALSE, FALSE, FALSE), "\"") = State(o, TRUE, FALSE, FALSE)
          /\ Scan(State(o, TRUE, FALSE, FALSE), "\"") = State(o, FALSE, FALSE, FALSE)
      BY ScanOutside, ZenonT(30)
    <3>3. "\"" \in Char
      BY CharAssumption DEF KnownChars
    <3>4. QED
      BY <2>1, <3>1, <3>2, <3>3, ScanOne, AtIs, Zenon
  <2>4. Loop(Unescaping, At("quotes", z), e) = At("quotes", s)
    <3>1. Echoes(Char, C, "quotes") /\ Char \subseteq Char
      BY QuotesEcho
    <3> HIDE DEF C
    <3>2. Loop(Unescaping, At("quotes", z), Escaped(s, C)) = At("quotes", z \o s)
      BY <3>1, Echo
    <3>3. QED
      BY <1>1, <3>2
  <2> DEFINE a == At("plain", z)
  <2>5. a \in Scanner
    BY AtType
  <2> HIDE DEF a, e
  <2>6. Loop(Unescaping, a, (m \o e) \o m) = Loop(Unescaping, Loop(Unescaping, Loop(Unescaping, a, m), e), m)
    BY <1>2, <2>5, ScanStep, LoopThree
  <2>7. Loop(Unescaping, Loop(Unescaping, Loop(Unescaping, a, m), e), m) = At("plain", s)
    BY <2>3, <2>4, Zenon DEF a, Text
  <2>8. (m \o e) \o m \in Text
    BY <1>2
  <2>9. QED
    BY <1>1, <2>2, <2>6, <2>7, <2>8, Zenon DEF a
<1>4. CASE ~(\E i \in DOMAIN s : s[i] \notin AtomChars)
  <2>1. s \in Seq(AtomChars)
    <3>1. DOMAIN s = 1 .. Len(s) /\ Len(s) \in Nat
      OBVIOUS
    <3>2. \A i \in 1 .. Len(s) : s[i] \in AtomChars
      BY <1>4, <3>1
    <3>3. QED
      BY <3>1, <3>2
  <2>2. /\ AtomChars \in SUBSET (Char \ Special) /\ AtomChars \cap C = {}
        /\ AtomChars \subseteq Char
    BY AtomAssumption DEF Special
  <2> HIDE DEF C
  <2>3. Echoes(AtomChars, C, "plain")
    BY <2>2, PlainEcho
  <2>4. EscapedLeft(s) = e
    BY <1>4, Zenon DEF EscapedLeft, C
  <2>5. Loop(Unescaping, At("plain", z), e) = At("plain", z \o s)
    <3>1. AtomChars \subseteq Char
      BY <2>2
    <3>2. Loop(Unescaping, At("plain", z), Escaped(s, C)) = At("plain", z \o s)
      BY <2>1, <2>3, <3>1, Echo
    <3>3. QED
      BY <3>2
  <2>6. QED
    BY <1>1, <1>2, <2>4, <2>5, Zenon
<1>5. QED
  BY <1>3, <1>4

\* A text in brackets or quotes.
LEMMA Wrapped ==
    ASSUME NEW x \in Text, NEW c \in Char, NEW d \in Char
    PROVE  LET w == (<<c>> \o x) \o <<d>>
           IN  /\ w \in Text /\ Len(w) > 1 /\ w[1] = c /\ Last(w) = d /\ Inner(w) = x
               /\ c \notin Spaces /\ d \notin Spaces => Trim(w) = w
<1>1. PICK n \in Nat : n = Len(x)
  OBVIOUS
<1>2. PICK w \in Text : w = (<<c>> \o x) \o <<d>>
  <2>1. (<<c>> \o x) \o <<d>> \in Text
    OBVIOUS
  <2>2. QED
    BY <2>1, Zenon
<1>3. Len(w) = n + 2 /\ w[1] = c /\ w[n + 2] = d /\ \A i \in 1 .. n : w[i + 1] = x[i]
  BY <1>1, <1>2
<1>4. Len(w) > 1 /\ Last(w) = d
  BY <1>3 DEF Last
<1>5. Inner(w) = x
  <2>1. PICK y \in Text : y = Inner(w) /\ Len(y) = n /\ \A i \in 1 .. n : y[i] = w[2 + i - 1]
    <3>1. 2 \in 1 .. (n + 2) + 1 /\ n + 1 \in 0 .. n + 2 /\ n = (n + 1) - 2 + 1 /\ n + 2 \in Nat
          /\ (n + 2) - 1 = n + 1
      OBVIOUS
    <3>2. /\ SubSeq(w, 2, n + 1) \in Text /\ Len(SubSeq(w, 2, n + 1)) = n
          /\ \A i \in 1 .. n : SubSeq(w, 2, n + 1)[i] = w[2 + i - 1]
      BY <1>3, <3>1, Segment
    <3>3. Inner(w) = SubSeq(w, 2, n + 1)
      BY <1>3, <3>1 DEF Inner
    <3>4. QED
      BY <3>2, <3>3, Zenon
  <2>2. \A i \in 1 .. n : y[i] = x[i]
    <3>1. \A i \in 1 .. n : 2 + i - 1 = i + 1
      OBVIOUS
    <3>2. QED
      BY <1>3, <2>1, <3>1
  <2>3. y = x
    BY <1>1, <2>1, <2>2, SameText
  <2>4. QED
    BY <2>1, <2>3
<1>6. ASSUME c \notin Spaces, d \notin Spaces PROVE Trim(w) = w
  <2>1. 1 \in DOMAIN w /\ n + 2 \in DOMAIN w
    BY <1>3
  <2>2. 1 \in Ink(w) /\ n + 2 \in Ink(w)
    BY <1>3, <1>6, <2>1, Zenon DEF Ink
  <2>3. \A i \in Ink(w) : 1 <= i /\ i <= n + 2
    BY <1>3, InkPlaces
  <2>4. Trim(w) = SubSeq(w, 1, n + 2)
    BY <2>2, <2>3, Trimmed
  <2>5. SubSeq(w, 1, n + 2) = w
    BY <1>3, SubSeqFull
  <2>6. QED
    BY <2>4, <2>5
<1>7. QED
  BY <1>2, <1>3, <1>4, <1>5, <1>6, Zenon

\* A text that has a beginning and an end is what is between, with both.
LEMMA InnerOf ==
    ASSUME NEW s \in Text, Len(s) > 1
    PROVE  Inner(s) \in Text /\ s = (<<s[1]>> \o Inner(s)) \o <<Last(s)>> /\ s[1] \in Char /\ Last(s) \in Char
<1>1. PICK n \in Nat : n + 2 = Len(s)
  <2>1. Len(s) - 2 \in Nat /\ (Len(s) - 2) + 2 = Len(s)
    OBVIOUS
  <2>2. QED
    BY <2>1
<1>2. PICK x \in Text : x = Inner(s) /\ Len(x) = n /\ \A i \in 1 .. n : x[i] = s[2 + i - 1]
  <2>1. 2 \in 1 .. (n + 2) + 1 /\ n + 1 \in 0 .. n + 2 /\ n = (n + 1) - 2 + 1 /\ n + 2 \in Nat
        /\ (n + 2) - 1 = n + 1
    OBVIOUS
  <2>2. /\ SubSeq(s, 2, n + 1) \in Text /\ Len(SubSeq(s, 2, n + 1)) = n
        /\ \A i \in 1 .. n : SubSeq(s, 2, n + 1)[i] = s[2 + i - 1]
    BY <1>1, <2>1, Segment
  <2>3. Inner(s) = SubSeq(s, 2, n + 1)
    BY <1>1, <2>1 DEF Inner
  <2>4. QED
    BY <2>2, <2>3, Zenon
<1>3. s[1] \in Char /\ s[n + 2] \in Char /\ Last(s) = s[n + 2]
  BY <1>1 DEF Last
<1>4. PICK c \in Char, d \in Char : c = s[1] /\ d = s[n + 2]
  BY <1>3
<1>5. PICK w \in Text : w = (<<c>> \o x) \o <<d>>
  <2>1. (<<c>> \o x) \o <<d>> \in Text
    OBVIOUS
  <2>2. QED
    BY <2>1, Zenon
<1>6. Len(w) = n + 2 /\ w[1] = c /\ w[n + 2] = d /\ \A i \in 1 .. n : w[i + 1] = x[i]
  BY <1>2, <1>5
<1>7. \A i \in 1 .. n + 2 : w[i] = s[i]
  <2>1. ASSUME NEW i \in 1 .. n PROVE w[i + 1] = s[i + 1]
    <3>1. 2 + i - 1 = i + 1
      OBVIOUS
    <3>2. QED
      BY <1>2, <1>6, <3>1
  <2>2. ASSUME NEW i \in 1 .. n + 2 PROVE w[i] = s[i]
    <3>1. i = 1 \/ i = n + 2 \/ (i - 1 \in 1 .. n /\ (i - 1) + 1 = i)
      OBVIOUS
    <3>2. QED
      BY <1>4, <1>6, <2>1, <3>1
  <2>3. QED
    BY <2>2
<1>8. s = w
  BY <1>1, <1>6, <1>7, SameText
<1>9. QED
  BY <1>2, <1>3, <1>4, <1>5, <1>8, Zenon

\* The domain comes back: a literal in brackets, or a name.
DomainName(s) == \A i \in DOMAIN s : s[i] \notin Special
DomainLiteral(s) == Len(s) > 1 /\ s[1] = "[" /\ Last(s) = "]"

LEMMA RightBack ==
    ASSUME NEW s \in Text, NEW o \in Text, DomainName(s) \/ DomainLiteral(s)
    PROVE  /\ EscapedRight(s) \in Text
           /\ Loop(Unescaping, At("plain", o), EscapedRight(s)) = At("plain", o \o s)
<1>1. CASE DomainLiteral(s)
  <2> DEFINE C == {"\\", "[", "]"}
             x == Inner(s)
             e == Escaped(x, C)
  <2>1. PICK l \in Char, r \in Char : l = "[" /\ r = "]"
    BY CharAssumption DEF KnownChars
  <2>2. x \in Text /\ s = (<<l>> \o x) \o <<r>>
    <3>1. Inner(s) \in Text /\ s = (<<s[1]>> \o Inner(s)) \o <<Last(s)>>
      <4>1. Len(s) > 1
        BY <1>1, Zenon DEF DomainLiteral
      <4>2. QED
        BY <4>1, InnerOf
    <3>2. QED
      BY <1>1, <2>1, <3>1, Zenon DEF DomainLiteral
  <2>3. e \in Text
    BY <2>2, EscapedType
  <2>4. EscapedRight(s) = (<<l>> \o e) \o <<r>>
    BY <1>1, <2>1, Zenon DEF EscapedRight, DomainLiteral
  <2>5. \A p \in Text : /\ Loop(Unescaping, At("plain", p), <<l>>) = At("brackets", Append(p, l))
                        /\ Loop(Unescaping, At("brackets", p), <<r>>) = At("plain", Append(p, r))
    <3> SUFFICES ASSUME NEW p \in Text
                 PROVE  /\ Loop(Unescaping, At("plain", p), <<l>>) = At("brackets", Append(p, l))
                        /\ Loop(Unescaping, At("brackets", p), <<r>>) = At("plain", Append(p, r))
      OBVIOUS
    <3>1. At("plain", p) \in Scanner /\ At("brackets", p) \in Scanner
      BY AtType
    <3>2. /\ Scan(State(p, FALSE, FALSE, FALSE), l) = State(Append(p, l), FALSE, TRUE, FALSE)
          /\ Scan(State(p, FALSE, TRUE, FALSE), r) = State(Append(p, r), FALSE, FALSE, FALSE)
      BY <2>1, ScanOutside
    <3>3. QED
      BY <3>1, <3>2, ScanOne, AtIs, Zenon
  <2>6. PICK p \in Text, v \in Text : p = Append(o, l) /\ v = p \o x /\ Append(v, r) = o \o s
    <3>1. PICK p \in Text : p = Append(o, l)
      <4>1. Append(o, l) \in Text
        OBVIOUS
      <4>2. QED
        BY <4>1, Zenon
    <3>2. p \o x \in Text
      BY <2>2
    <3>3. Append(p \o x, r) = o \o s
      <4>1. PICK a \in Text, b \in Text : a = <<l>> /\ b = <<r>>
        BY OneText
      <4>2. p = o \o a
        BY <3>1, <4>1
      <4>3. Append(p \o x, r) = (p \o x) \o b
        BY <3>2, <4>1
      <4>4. (o \o a) \o x = o \o (a \o x)
        <5>1. x \in Text
          BY <2>2
        <5> HIDE DEF x
        <5>2. QED
          BY <5>1, ConcatAssociative, SMTT(30)
      <4>5. a \o x \in Text
        BY <2>2
      <4>6. (o \o (a \o x)) \o b = o \o ((a \o x) \o b)
        <5> DEFINE y == a \o x
        <5>1. y \in Text
          BY <4>5
        <5> HIDE DEF y
        <5>2. (o \o y) \o b = o \o (y \o b)
          BY <5>1, ConcatAssociative, SMTT(30)
        <5>3. QED
          BY <5>2 DEF y
      <4>7. QED
        BY <2>2, <4>1, <4>2, <4>3, <4>4, <4>6, Zenon
    <3>4. QED
      BY <3>1, <3>2, <3>3, Zenon
  <2>7. Loop(Unescaping, At("brackets", p), e) = At("brackets", v)
    <3>1. Echoes(Char, C, "brackets") /\ Char \subseteq Char
      BY BracketsEcho
    <3> HIDE DEF C, x
    <3>2. Loop(Unescaping, At("brackets", p), Escaped(x, C)) = At("brackets", p \o x)
      BY <2>2, <3>1, Echo
    <3>3. QED
      BY <2>6, <3>2
  <2>8. PICK a \in Text, b \in Text : a = <<l>> /\ b = <<r>>
    BY OneText
  <2> DEFINE k == At("plain", o)
  <2>9. k \in Scanner
    BY AtType
  <2> HIDE DEF e, k
  <2>10. Loop(Unescaping, k, (a \o e) \o b) = Loop(Unescaping, Loop(Unescaping, Loop(Unescaping, k, a), e), b)
    BY <2>3, <2>9, ScanStep, LoopThree
  <2>11. Loop(Unescaping, Loop(Unescaping, Loop(Unescaping, k, a), e), b) = At("plain", o \o s)
    BY <2>5, <2>6, <2>7, <2>8, Zenon DEF k, Text
  <2>12. (a \o e) \o b \in Text
    BY <2>3, <2>8
  <2>13. QED
    BY <2>4, <2>8, <2>10, <2>11, <2>12, Zenon DEF k
<1>2. CASE ~DomainLiteral(s)
  <2> DEFINE B == Special
             D == Char \ B
  <2>1. \A i \in DOMAIN s : s[i] \notin B
    BY <1>2, Zenon DEF DomainName
  <2>2. s \in Seq(D)
    <3> HIDE DEF B
    <3>1. DOMAIN s = 1 .. Len(s) /\ Len(s) \in Nat /\ \A i \in 1 .. Len(s) : s[i] \in Char
      OBVIOUS
    <3>2. \A i \in 1 .. Len(s) : s[i] \in D
      BY <2>1, <3>1
    <3>3. QED
      BY <3>1, <3>2
  <2>3. PICK N : N = {}
    OBVIOUS
  <2>4. D \in SUBSET (Char \ B) /\ D \cap N = {} /\ D \subseteq Char
    BY <2>3
  <2>5. Echoes(D, N, "plain")
    BY <2>4, PlainEcho, Zenon
  <2> HIDE DEF B, D
  <2>6. Loop(Unescaping, At("plain", o), Escaped(s, N)) = At("plain", o \o s)
    BY <2>2, <2>4, <2>5, Echo
  <2>7. Escaped(s, N) = s
    BY <2>3, EscapedNone, Zenon DEF Text
  <2>8. EscapedRight(s) = s
    BY <1>2, Zenon DEF EscapedRight, DomainLiteral
  <2>9. QED
    BY <2>6, <2>7, <2>8, Zenon
<1>3. QED
  BY <1>1, <1>2

Wrap(x) == (<<"<">> \o x) \o <<">">>

LEMMA WrapIs ==
    ASSUME NEW x \in Text
    PROVE  Wrap(x) \in Text /\ Bracketed(Wrap(x)) /\ Inner(Wrap(x)) = x /\ Trim(Wrap(x)) = Wrap(x)
<1>1. PICK l \in Char, r \in Char : l = "<" /\ r = ">" /\ l \notin Spaces /\ r \notin Spaces
  <2>1. "<" \in Char /\ ">" \in Char /\ "<" \notin Spaces /\ ">" \notin Spaces
    BY CharAssumption DEF KnownChars, Spaces, CR, LF
  <2>2. QED
    BY <2>1, Zenon
<1>2. PICK w : w = (<<l>> \o x) \o <<r>>
  OBVIOUS
<1>3. w = Wrap(x)
  BY <1>1, <1>2, Zenon DEF Wrap
<1>4. w \in Text /\ Len(w) > 1 /\ w[1] = l /\ Last(w) = r /\ Inner(w) = x /\ Trim(w) = w
  <2>1. l \notin Spaces /\ r \notin Spaces
    BY <1>1
  <2>2. QED
    BY <1>2, <2>1, Wrapped
<1>5. QED
  BY <1>1, <1>3, <1>4, Zenon DEF Bracketed

LEMMA UnescapedType ==
    ASSUME NEW x \in Text
    PROVE  Unescaped(x) \in Text /\ Unescaped(x) = Loop(Unescaping, At("plain", <<>>), x).out
<1>1. PICK z \in Text : z = <<>>
  <2>1. <<>> \in Text
    OBVIOUS
  <2>2. QED
    BY <2>1, Zenon
<1>2. At("plain", z) = [out |-> z, quotes |-> FALSE, brackets |-> FALSE, depth |-> 0, escaped |-> FALSE]
  BY AtIs, Zenon DEF State
<1> DEFINE a == At("plain", z)
<1>3. a \in Scanner
  BY AtType
<1>4. Unescaped(x) = Loop(Unescaping, a, x).out
  BY <1>1, <1>2, Zenon DEF Unescaped
<1> HIDE DEF a
<1>5. Loop(Unescaping, a, x) \in Scanner
  BY <1>3, ScanStep, LoopType
<1>6. \A st \in Scanner : st.out \in Text
  BY DEF Scanner
<1>7. QED
  BY <1>1, <1>4, <1>5, <1>6, Zenon DEF a, Text

LEMMA UnescapeWrap ==
    ASSUME NEW x \in Text
    PROVE  unescape_message_id(Wrap(x)) = Wrap(Unescaped(x))
<1>1. unescape_message_id(Wrap(x)) = (<<"<">> \o Unescaped(Inner(Wrap(x)))) \o <<">">>
  BY WrapIs, Zenon DEF unescape_message_id, Text
<1>2. QED
  BY <1>1, WrapIs, Zenon DEF Wrap, Text

\* A Message-ID in front of its first @, and behind it.
Local(x) == SubSeq(x, 1, First(x, {"@"}) - 1)
Domain(x) == Rest(x, First(x, {"@"}) + 1)
Middle(x) == (EscapedLeft(Local(x)) \o <<"@">>) \o EscapedRight(Domain(x))

LEMMA FirstType ==
    ASSUME NEW x \in Text, NEW C
    PROVE  First(x, C) \in Nat
<1> DEFINE S == {i \in DOMAIN x : x[i] \in C} \cup {Len(x) + 1}
<1>1. DOMAIN x = 1 .. Len(x) /\ Len(x) \in Nat
  OBVIOUS
<1>2. S \subseteq Nat /\ S # {} /\ First(x, C) = Min(S)
  BY <1>1 DEF First
<1> HIDE DEF S
<1>3. QED
  BY <1>2, MinIs

\* A text is what is in front of its first @, the @, and the rest.
LEMMA AtSplit ==
    ASSUME NEW x \in Text, First(x, {"@"}) <= Len(x)
    PROVE  /\ Local(x) \in Text /\ Domain(x) \in Text
           /\ x = (Local(x) \o <<"@">>) \o Domain(x)
<1> DEFINE S == {i \in DOMAIN x : x[i] \in {"@"}}
<1>1. PICK n \in Nat : n = Len(x) /\ DOMAIN x = 1 .. n
  OBVIOUS
<1>2. S \subseteq 1 .. n /\ \A i \in S : x[i] = "@"
  BY <1>1, Zenon
<1>3. First(x, {"@"}) = Min(S \cup {n + 1})
  BY <1>1, Zenon DEF First
<1>4. PICK m \in Char : m = "@"
  BY CharAssumption DEF KnownChars
<1> HIDE DEF S
<1>5. PICK k \in 1 .. n : k = First(x, {"@"}) /\ x[k] = m
  <2>1. PICK f : f = First(x, {"@"})
    OBVIOUS
  <2>2. f = Min(S \cup {n + 1}) /\ f <= n
    BY <1>1, <1>3, <2>1, Zenon
  <2>3. \A i \in S : x[i] = m
    BY <1>2, <1>4, Zenon
  <2>4. f \in S \cup {n + 1}
    <3>1. S \cup {n + 1} \subseteq Nat /\ S \cup {n + 1} # {}
      BY <1>2
    <3>2. QED
      BY <2>2, <3>1, MinIs
  <2>5. f \in S
    BY <2>2, <2>4
  <2>6. f \in 1 .. n /\ x[f] = m
    BY <1>2, <2>3, <2>5
  <2>7. QED
    BY <2>1, <2>6, Zenon
<1>6. PICK l \in Text : l = Local(x) /\ Len(l) = k - 1 /\ \A i \in 1 .. k - 1 : l[i] = x[1 + i - 1]
  <2>1. 1 \in 1 .. n + 1 /\ k - 1 \in 0 .. n /\ k - 1 \in Nat /\ k - 1 = (k - 1) - 1 + 1
    OBVIOUS
  <2>2. /\ SubSeq(x, 1, k - 1) \in Text /\ Len(SubSeq(x, 1, k - 1)) = k - 1
        /\ \A i \in 1 .. k - 1 : SubSeq(x, 1, k - 1)[i] = x[1 + i - 1]
    BY <1>1, <2>1, Segment
  <2>3. Local(x) = SubSeq(x, 1, k - 1)
    BY <1>5, Zenon DEF Local
  <2>4. QED
    BY <2>2, <2>3, Zenon
<1>7. PICK r \in Text : r = Domain(x) /\ Len(r) = n - k /\ \A i \in 1 .. n - k : r[i] = x[(k + 1) + i - 1]
  <2>1. k + 1 \in 1 .. n + 1 /\ n \in 0 .. n /\ n - k \in Nat /\ n - k = n - (k + 1) + 1
    OBVIOUS
  <2>2. /\ SubSeq(x, k + 1, n) \in Text /\ Len(SubSeq(x, k + 1, n)) = n - k
        /\ \A i \in 1 .. n - k : SubSeq(x, k + 1, n)[i] = x[(k + 1) + i - 1]
    BY <1>1, <2>1, Segment
  <2>3. Domain(x) = SubSeq(x, k + 1, n)
    BY <1>1, <1>5, Zenon DEF Domain, Rest
  <2>4. QED
    BY <2>2, <2>3, Zenon
<1>8. PICK y \in Text : y = (l \o <<m>>) \o r
  <2>1. (l \o <<m>>) \o r \in Text
    OBVIOUS
  <2>2. QED
    BY <2>1, Zenon
<1>9. Len(y) = n
  <2>1. Len(y) = Len(l) + 1 + Len(r)
    BY <1>8
  <2>2. Len(l) = k - 1 /\ Len(r) = n - k
    BY <1>6, <1>7
  <2>3. QED
    BY <2>1, <2>2
<1>10. ASSUME NEW i \in 1 .. n PROVE y[i] = x[i]
  <2>1. CASE i < k
    <3>1. i \in 1 .. k - 1 /\ 1 + i - 1 = i
      BY <2>1
    <3>2. y[i] = l[i]
      BY <1>6, <1>7, <1>8, <3>1
    <3>3. QED
      BY <1>6, <3>1, <3>2
  <2>2. CASE i = k
    <3>1. y[k] = m
      BY <1>6, <1>7, <1>8
    <3>2. QED
      BY <1>5, <2>2, <3>1
  <2>3. CASE i > k
    <3>1. i - k \in 1 .. n - k /\ (k + 1) + (i - k) - 1 = i
      BY <2>3
    <3>2. y[i] = r[i - k]
      BY <1>6, <1>7, <1>8, <2>3, <3>1
    <3>3. QED
      BY <1>7, <3>1, <3>2
  <2>4. QED
    BY <2>1, <2>2, <2>3
<1>11. x = y
  BY <1>1, <1>9, <1>10, SameText
<1>12. QED
  BY <1>4, <1>6, <1>7, <1>8, <1>11, Zenon

\* The inner part of an ID, escaped and scanned again, is the same.
LEMMA MiddleBack ==
    ASSUME NEW x \in Text, HasDomain(x)
    PROVE  Middle(x) \in Text /\ Unescaped(Middle(x)) = x
<1>1. First(x, {"@"}) <= Len(x) /\ (DomainName(Domain(x)) \/ DomainLiteral(Domain(x)))
  BY Zenon DEF HasDomain, DomainName, DomainLiteral, Domain
<1>2. PICK l \in Text, r \in Text : l = Local(x) /\ r = Domain(x)
  BY <1>1, AtSplit
<1>3. PICK m \in Text : m = <<"@">>
  <2>1. "@" \in Char
    BY CharAssumption DEF KnownChars
  <2>2. QED
    BY <2>1, OneText, Zenon
<1>4. x = (l \o m) \o r
  BY <1>1, <1>2, <1>3, AtSplit, Zenon DEF Text
<1>5. PICK a : a = At("plain", <<>>)
  OBVIOUS
<1>6. a \in Scanner
  <2>1. <<>> \in Text
    OBVIOUS
  <2>2. QED
    BY <1>5, <2>1, AtType, Zenon
<1>7. EscapedLeft(l) \in Text /\ Loop(Unescaping, a, EscapedLeft(l)) = At("plain", l)
  BY <1>5, LeftBack, Zenon DEF Text
<1>8. Loop(Unescaping, At("plain", l), m) = At("plain", l \o m) /\ l \o m \in Text
  <2>1. "@" \in Char /\ "@" \notin Special
    BY CharAssumption DEF KnownChars, Special, Spaces, CR, LF
  <2>2. PICK c \in Char : c = "@" /\ c \notin Special
    BY <2>1, Zenon
  <2>3. Loop(Unescaping, At("plain", l), <<c>>) = At("plain", Append(l, c))
    BY <2>2, PlainPush, AtIs, ZenonT(30) DEF Text
  <2>4. Append(l, c) = l \o <<c>> /\ Append(l, c) \in Text
    OBVIOUS
  <2>5. QED
    BY <1>3, <2>2, <2>3, <2>4, Zenon
<1>9. EscapedRight(r) \in Text /\ Loop(Unescaping, At("plain", l \o m), EscapedRight(r)) = At("plain", (l \o m) \o r)
  <2>1. DomainName(r) \/ DomainLiteral(r)
    BY <1>1, <1>2, Zenon
  <2>2. PICK o \in Text : o = l \o m
    BY <1>8
  <2>3. EscapedRight(r) \in Text /\ Loop(Unescaping, At("plain", o), EscapedRight(r)) = At("plain", o \o r)
    BY <2>1, RightBack
  <2>4. QED
    BY <2>2, <2>3, Zenon
<1> DEFINE e == EscapedLeft(l)
           f == EscapedRight(r)
<1>10. Middle(x) = (e \o m) \o f
  BY <1>2, <1>3, Zenon DEF Middle
<1>11. e \in Text /\ f \in Text
  BY <1>7, <1>9
<1>12. Loop(Unescaping, a, e) = At("plain", l) /\ Loop(Unescaping, At("plain", l \o m), f) = At("plain", (l \o m) \o r)
  BY <1>7, <1>9
<1> HIDE DEF e, f
<1>13. (e \o m) \o f \in Text
  BY <1>11
<1>14. Loop(Unescaping, a, (e \o m) \o f) = Loop(Unescaping, Loop(Unescaping, Loop(Unescaping, a, e), m), f)
  BY <1>6, <1>11, ScanStep, LoopThree
<1>15. Loop(Unescaping, a, Middle(x)) = At("plain", x)
  BY <1>4, <1>8, <1>10, <1>12, <1>14, Zenon
<1>16. At("plain", x).out = x
  BY DEF At, State
<1>17. QED
  BY <1>5, <1>10, <1>13, <1>15, <1>16, UnescapedType, Zenon DEF Text

\* What escape_message_id writes.
LEMMA EscapeWrap ==
    ASSUME NEW x \in Text, HasDomain(x)
    PROVE  escape_message_id(Wrap(x)) = Wrap(Middle(x))
<1>1. First(x, {"@"}) <= Len(x)
  BY Zenon DEF HasDomain
<1>2. ~(First(x, {"@"}) > Len(x))
  <2>1. PICK n \in Nat : n = Len(x)
    OBVIOUS
  <2>2. \A f \in Int : f <= n => ~(f > n)
    OBVIOUS
  <2>3. First(x, {"@"}) \in Int
    <3>1. First(x, {"@"}) \in Nat
      BY FirstType
    <3>2. QED
      BY <3>1
  <2>4. QED
    BY <1>1, <2>1, <2>2, <2>3, Zenon
<1>3. escape_message_id(Wrap(x)) =
        (((<<"<">> \o EscapedLeft(Local(x))) \o <<"@">>) \o EscapedRight(Domain(x))) \o <<">">>
  BY <1>2, WrapIs, Zenon DEF escape_message_id, Local, Domain, Text
<1>4. PICK a \in Text, m \in Text : a = <<"<">> /\ m = <<"@">>
  <2>1. "<" \in Char /\ "@" \in Char
    BY CharAssumption DEF KnownChars
  <2>2. QED
    BY <2>1, OneText, Zenon
<1> DEFINE e == EscapedLeft(Local(x))
           f == EscapedRight(Domain(x))
<1>5. e \in Text /\ f \in Text
  <2>1. Local(x) \in Text /\ Domain(x) \in Text
    BY <1>1, AtSplit
  <2>2. DomainName(Domain(x)) \/ DomainLiteral(Domain(x))
    BY Zenon DEF HasDomain, DomainName, DomainLiteral, Domain
  <2>3. QED
    BY <2>1, <2>2, LeftBack, RightBack
<1> HIDE DEF e, f
<1>6. ((a \o e) \o m) \o f = a \o ((e \o m) \o f)
  <2>1. (a \o e) \o m = a \o (e \o m)
    BY <1>5, ConcatAssociative, SMTT(30)
  <2>2. PICK y \in Text : y = e \o m
    <3>1. e \o m \in Text
      BY <1>5
    <3>2. QED
      BY <3>1, Zenon
  <2>3. (a \o y) \o f = a \o (y \o f)
    BY <1>5, ConcatAssociative, SMTT(30)
  <2>4. QED
    BY <2>1, <2>2, <2>3
<1>7. QED
  BY <1>3, <1>4, <1>6, Zenon DEF e, f, Wrap, Middle

(***************************************************************************)
(* escape_message_id and unescape_message_id of parse.rs, for any text     *)
(* between the angle brackets: once it has a domain, the form that the     *)
(* first server stores is the form that every later server makes of it.    *)
(***************************************************************************)
THEOREM IdsFixed ==
    ASSUME NEW s \in Text, HasDomain(Inner(unescape_message_id(Wrap(s))))
    PROVE  Canonical(Canonical(Wrap(s))) = Canonical(Wrap(s))
<1>1. PICK x \in Text : x = Unescaped(s)
  BY UnescapedType
<1>2. unescape_message_id(Wrap(s)) = Wrap(x)
  BY <1>1, UnescapeWrap, Zenon DEF Text
<1>3. HasDomain(x)
  BY <1>2, WrapIs, Zenon DEF Text
<1>4. Middle(x) \in Text /\ Unescaped(Middle(x)) = x /\ escape_message_id(Wrap(x)) = Wrap(Middle(x))
  BY <1>3, MiddleBack, EscapeWrap, Zenon DEF Text
<1>5. unescape_message_id(Wrap(Middle(x))) = Wrap(x)
  BY <1>4, UnescapeWrap, Zenon DEF Text
<1>6. QED
  BY <1>2, <1>4, <1>5, Zenon DEF Canonical

(***************************************************************************)
(* A Message-ID with a domain has one form, for the inputs of the run at   *)
(* any length.                                                             *)
(***************************************************************************)
THEOREM SettledIds == TextSpec => []IdsSettle
<1>1. InputType => IdsSettle
  <2> SUFFICES ASSUME InputType, kind = "id",
                      HasDomain(Inner(unescape_message_id(Wrap(input))))
               PROVE  Canonical(Canonical(Wrap(input))) = Canonical(Wrap(input))
    BY Zenon DEF IdsSettle, Wrap
  <2>1. input \in Text
    BY DEF InputType
  <2>2. QED
    BY <2>1, IdsFixed
<1>2. QED
  BY <1>1, InputTyped, PTL

-----------------------------------------------------------------------------
(* Wildmat: the translation.  Between two parts of a pattern the scanner   *)
(* is in the same state again but for the atoms (Plain), and one part      *)
(* becomes one atom (ScanPart).                                            *)

LEMMA AtomTypes ==
    /\ AnyChar \in Atom /\ AnyString \in Atom /\ End \in Atom /\ Invalid \in Atom
    /\ \A c \in Char : Lit(c) \in Atom
    /\ \A neg \in BOOLEAN : \A set \in SUBSET Char : Class(neg, set) \in Atom
<1>1. AnyChar \in Atom /\ AnyString \in Atom /\ End \in Atom /\ Invalid \in Atom
  BY DEF Atom, AnyChar, AnyString, End, Invalid
<1>2. \A c \in Char : Lit(c) \in Atom
  BY DEF Atom, Lit
<1>3. \A neg \in BOOLEAN : \A set \in SUBSET Char : Class(neg, set) \in Atom
  BY DEF Atom, Class
<1>4. QED
  BY <1>1, <1>2, <1>3

\* The scanner between two parts of a pattern.
Plain(A) == [mode |-> "plain", atoms |-> A, negated |-> FALSE, chars |-> {}, open |-> FALSE]

LEMMA PlainType ==
    ASSUME NEW A \in Seq(Atom)
    PROVE  Plain(A) \in Translation
  BY DEF Plain, Translation

LEMMA PutIs ==
    ASSUME NEW st, NEW atom
    PROVE  Put(st, atom) = Plain(Append(st.atoms, atom))
<1>1. \A x : [Start EXCEPT !.atoms = x] = Plain(x)
  <2>1. Start = Plain(<<>>)
    BY Zenon DEF Start, Plain
  <2>2. \A x, y : [Plain(y) EXCEPT !.atoms = x] = Plain(x)
    BY DEF Plain
  <2>3. QED
    BY <2>1, <2>2, Zenon
<1>2. QED
  BY <1>1, Zenon DEF Put

LEMMA PutType ==
    ASSUME NEW st \in Translation, NEW atom \in Atom
    PROVE  Put(st, atom) \in Translation
<1>1. st.atoms \in Seq(Atom)
  BY DEF Translation
<1>2. Append(st.atoms, atom) \in Seq(Atom)
  BY <1>1
<1>3. QED
  BY <1>2, PutIs, PlainType, Zenon

LEMMA CloseType ==
    ASSUME NEW st \in Translation
    PROVE  CloseClass(st) \in Translation
<1>1. st.negated \in BOOLEAN /\ st.chars \in SUBSET Char
  BY DEF Translation
<1>2. Class(st.negated, st.chars) \in Atom /\ Invalid \in Atom
  BY <1>1, AtomTypes
<1>3. QED
  BY <1>2, PutType, Zenon DEF CloseClass

LEMMA ClassType ==
    ASSUME NEW st \in Translation, NEW c \in Char
    PROVE  InClass(st, c) \in Translation
<1>1. CloseClass(st) \in Translation
  BY CloseType
<1>2. [st EXCEPT !.mode = "quote"] \in Translation
  BY DEF Translation
<1>3. [st EXCEPT !.mode = "class", !.chars = @ \cup {c}, !.open = @ \/ c = "["] \in Translation
  BY DEF Translation
<1>4. QED
  BY <1>1, <1>2, <1>3, Zenon DEF InClass

\* A step of the translation, whatever its state.
LEMMA TranslateType ==
    ASSUME NEW st \in Translation, NEW c \in Char, NEW closes \in BOOLEAN
    PROVE  Translate(st, c, closes) \in Translation
<1>1. \A atom \in Atom : Put(st, atom) \in Translation
  BY PutType
<1>2. Lit(c) \in Atom /\ AnyString \in Atom /\ AnyChar \in Atom
  BY AtomTypes
<1>3. /\ [st EXCEPT !.mode = "class", !.chars = @ \cup {c}] \in Translation
      /\ [st EXCEPT !.mode = "class", !.negated = TRUE] \in Translation
      /\ [st EXCEPT !.mode = "escape"] \in Translation
      /\ [st EXCEPT !.mode = "first"] \in Translation
  BY DEF Translation
<1>4. InClass(st, c) \in Translation
  BY ClassType
<1>5. CASE st.mode = "escape"
  <2>1. Translate(st, c, closes) = Put(st, Lit(c))
    BY <1>5, Zenon DEF Translate
  <2>2. QED
    BY <1>1, <1>2, <2>1
<1>6. CASE st.mode = "quote"
  BY <1>3, <1>6, Zenon DEF Translate
<1>7. CASE st.mode = "class"
  BY <1>4, <1>7, Zenon DEF Translate
<1>8. CASE st.mode = "first"
  BY <1>3, <1>4, <1>8, Zenon DEF Translate
<1>9. CASE st.mode = "plain"
  <2>1. \/ Translate(st, c, closes) = Put(st, AnyString) \/ Translate(st, c, closes) = Put(st, AnyChar)
        \/ Translate(st, c, closes) = [st EXCEPT !.mode = "escape"]
        \/ Translate(st, c, closes) = [st EXCEPT !.mode = "first"]
        \/ Translate(st, c, closes) = Put(st, Lit(c))
    BY <1>9, Zenon DEF Translate
  <2>2. QED
    BY <1>1, <1>2, <1>3, <2>1, Zenon
<1>10. QED
  BY <1>5, <1>6, <1>7, <1>8, <1>9 DEF Translation

LEMMA TranslateStep == IsStep(Translating, Translation, Peek)
<1>1. \A st \in Translation : \A x \in Peek : Translate(st, x.char, x.closes) \in Translation
  <2> SUFFICES ASSUME NEW st \in Translation, NEW x \in Peek PROVE Translate(st, x.char, x.closes) \in Translation
    OBVIOUS
  <2>1. x.char \in Char /\ x.closes \in BOOLEAN
    BY DEF Peek
  <2>2. QED
    BY <2>1, TranslateType
<1>2. QED
  BY <1>1 DEF IsStep, Translating

LEMMA TranslateApplied ==
    ASSUME NEW st \in Translation, NEW x \in Peek
    PROVE  Applied(Translating, st, x) = Translate(st, x.char, x.closes)
  BY DEF Applied, Translating

\* What the scanner sees of the i-th character.
Closes(p, i) == \E j \in i + 1 .. Len(p) : p[j] = "]"
Seen(p, i) == [char |-> p[i], closes |-> Closes(p, i)]

LEMMA SeenIs ==
    ASSUME NEW p \in Text, NEW i \in 1 .. Len(p)
    PROVE  Seen(p, i) \in Peek /\ Seen(p, i).char = p[i] /\ Seen(p, i).closes = Closes(p, i)
<1>1. p[i] \in Char
  OBVIOUS
<1>2. Closes(p, i) \in BOOLEAN
  BY DEF Closes
<1>3. QED
  BY <1>1, <1>2 DEF Seen, Peek

LEMMA PeekedType ==
    ASSUME NEW p \in Text
    PROVE  /\ Peeked(p) \in Seq(Peek) /\ Len(Peeked(p)) = Len(p)
           /\ \A i \in 1 .. Len(p) : Peeked(p)[i] = Seen(p, i)
<1>1. DOMAIN p = 1 .. Len(p) /\ Len(p) \in Nat
  OBVIOUS
<1>2. Peeked(p) = [i \in 1 .. Len(p) |-> Seen(p, i)]
  BY <1>1, Zenon DEF Peeked, Seen, Closes
<1>3. \A i \in 1 .. Len(p) : Seen(p, i) \in Peek
  BY SeenIs
<1>4. QED
  BY <1>1, <1>2, <1>3

\* The scanner after i characters of the pattern.
Scanned(p, i) == Loop(Translating, Start, SubSeq(Peeked(p), 1, i))

\* One character more.
LEMMA ScannedNext ==
    ASSUME NEW p \in Text, NEW i \in 1 .. Len(p)
    PROVE  /\ Scanned(p, i - 1) \in Translation
           /\ Scanned(p, i) = Translate(Scanned(p, i - 1), p[i], Closes(p, i))
<1>1. PICK n \in Nat : n = Len(p)
  OBVIOUS
<1>2. PICK q \in Seq(Peek) : q = Peeked(p) /\ Len(q) = n /\ \A j \in 1 .. n : q[j] = Seen(p, j)
  BY <1>1, PeekedType
<1>3. PICK k \in Nat : k = i - 1 /\ k \in 0 .. n /\ k + 1 = i /\ i \in 1 .. n
  BY <1>1
<1>4. PICK s \in Seq(Peek) : s = SubSeq(q, 1, k)
  <2>1. 1 \in 1 .. n + 1 /\ k = k - 1 + 1
    BY <1>3
  <2>2. SubSeq(q, 1, k) \in Seq(Peek)
    BY <1>2, <1>3, <2>1, Segment
  <2>3. QED
    BY <2>2, Zenon
<1>5. PICK x \in Peek : x = Seen(p, i) /\ x = q[i] /\ x.char = p[i] /\ x.closes = Closes(p, i)
  <2>1. i \in 1 .. Len(p) /\ q[i] = Seen(p, i)
    BY <1>1, <1>2, <1>3
  <2>2. QED
    BY <2>1, SeenIs, Zenon
<1>6. SubSeq(q, 1, i) = Append(s, x)
  <2>1. 1 \in 1 .. Len(q) /\ i \in 1 .. Len(q)
    BY <1>2, <1>3
  <2>2. SubSeq(q, 1, i) = SubSeq(q, 1, i - 1) \o <<q[i]>>
    BY <2>1, SubSeqRecursiveSecond
  <2>3. SubSeq(q, 1, i) = s \o <<x>>
    BY <1>3, <1>4, <1>5, <2>2, Zenon
  <2>4. s \o <<x>> = Append(s, x)
    OBVIOUS
  <2>5. QED
    BY <2>3, <2>4
<1>7. PICK st \in Translation : st = Start
  <2>1. Start \in Translation
    BY DEF Start, Translation
  <2>2. QED
    BY <2>1, Zenon
<1>8. Loop(Translating, st, s) \in Translation /\ Loop(Translating, st, Append(s, x)) = Applied(Translating, Loop(Translating, st, s), x)
  BY TranslateStep, LoopAppend
<1>9. Scanned(p, i) = Loop(Translating, st, Append(s, x)) /\ Scanned(p, i - 1) = Loop(Translating, st, s)
  BY <1>2, <1>3, <1>4, <1>6, <1>7, Zenon DEF Scanned
<1>10. Applied(Translating, Loop(Translating, st, s), x) = Translate(Loop(Translating, st, s), x.char, x.closes)
  BY <1>8, TranslateApplied
<1>11. QED
  BY <1>5, <1>8, <1>9, <1>10, Zenon

LEMMA ScannedNone ==
    ASSUME NEW p \in Text
    PROVE  Scanned(p, 0) = Plain(<<>>)
<1>1. SubSeq(Peeked(p), 1, 0) = <<>>
  BY SubSeqEmpty
<1>2. Start \in Translation
  BY DEF Start, Translation
<1>3. Loop(Translating, Start, <<>>) = Start
  BY <1>2, TranslateStep, LoopEmpty
<1>4. QED
  BY <1>1, <1>3, Zenon DEF Scanned, Start, Plain

\* The steps of the scanner on the parts of a pattern.
Within(m, A, neg, set) == [mode |-> m, atoms |-> A, negated |-> neg, chars |-> set, open |-> FALSE]

Modes == {"plain", "escape", "first", "class", "quote"}

LEMMA WithinType ==
    ASSUME NEW m \in Modes, NEW A \in Seq(Atom), NEW neg \in BOOLEAN, NEW set \in SUBSET Char
    PROVE  Within(m, A, neg, set) \in Translation
  BY DEF Within, Translation, Modes

LEMMA WithinFields ==
    ASSUME NEW m, NEW A, NEW neg, NEW set
    PROVE  /\ Within(m, A, neg, set).mode = m /\ Within(m, A, neg, set).atoms = A
           /\ Within(m, A, neg, set).negated = neg /\ Within(m, A, neg, set).chars = set
           /\ Within(m, A, neg, set).open = FALSE
  BY DEF Within

LEMMA WithinOnly ==
    ASSUME NEW st \in Translation, st.open = FALSE
    PROVE  st = Within(st.mode, st.atoms, st.negated, st.chars)
  BY DEF Within, Translation

LEMMA WithinUpdates ==
    ASSUME NEW st \in Translation, st.open = FALSE, NEW m \in Modes
    PROVE  /\ [st EXCEPT !.mode = m] = Within(m, st.atoms, st.negated, st.chars)
           /\ [st EXCEPT !.mode = m, !.negated = TRUE] = Within(m, st.atoms, TRUE, st.chars)
<1>1. [st EXCEPT !.mode = m] = Within(m, st.atoms, st.negated, st.chars)
  <2> DEFINE new == [st EXCEPT !.mode = m]
  <2>1. new \in Translation
    BY DEF Translation, Modes
  <2>2. new.mode = m /\ new.atoms = st.atoms /\ new.negated = st.negated /\ new.chars = st.chars /\ ( new.open = FALSE)
    BY DEF Translation
  <2> HIDE DEF new
  <2>3. new = Within(new.mode, new.atoms, new.negated, new.chars)
    BY <2>1, <2>2, WithinOnly
  <2>4. QED
    BY <2>2, <2>3, Zenon DEF new
<1>2. [st EXCEPT !.mode = m, !.negated = TRUE] = Within(m, st.atoms, TRUE, st.chars)
  <2> DEFINE new == [st EXCEPT !.mode = m, !.negated = TRUE]
  <2>1. new \in Translation
    BY DEF Translation, Modes
  <2>2. new.mode = m /\ new.atoms = st.atoms /\ new.negated = TRUE /\ new.chars = st.chars /\ ( new.open = FALSE)
    BY DEF Translation
  <2> HIDE DEF new
  <2>3. new = Within(new.mode, new.atoms, new.negated, new.chars)
    BY <2>1, <2>2, WithinOnly
  <2>4. QED
    BY <2>2, <2>3, Zenon DEF new
<1>3. QED
  BY <1>1, <1>2, Zenon

Added(st, m, c) == [st EXCEPT !.mode = m, !.chars = @ \cup {c}, !.open = @ \/ c = "["]

LEMMA WithinAdded ==
    ASSUME NEW st \in Translation, st.open = FALSE, NEW m \in Modes, NEW c \in Char, c # "["
    PROVE  Added(st, m, c) = Within(m, st.atoms, st.negated, st.chars \cup {c})
<1> DEFINE new == Added(st, m, c)
<1>1. new \in Translation
  BY DEF Translation, Modes, Added
<1>2. new.mode = m /\ new.atoms = st.atoms /\ new.negated = st.negated /\ new.chars = st.chars \cup {c} /\ new.open = FALSE
  BY DEF Translation, Added
<1> HIDE DEF new
<1>3. new = Within(new.mode, new.atoms, new.negated, new.chars)
  BY <1>1, <1>2, WithinOnly
<1>4. QED
  BY <1>2, <1>3, Zenon DEF new

LEMMA PlainWithin ==
    ASSUME NEW A
    PROVE  Plain(A) = Within("plain", A, FALSE, {})
  BY Zenon DEF Plain, Within

EscapeState(A) == Within("escape", A, FALSE, {})
FirstState(A) == Within("first", A, FALSE, {})
ClassState(A, neg, set) == Within("class", A, neg, set)

\* The states, by their fields.
LEMMA StatesAre ==
    ASSUME NEW A \in Seq(Atom)
    PROVE  /\ Plain(A) \in Translation /\ Plain(A).mode = "plain" /\ Plain(A).atoms = A
           /\ Plain(A).open = FALSE /\ Plain(A).negated = FALSE /\ Plain(A).chars = {}
           /\ EscapeState(A).mode = "escape" /\ EscapeState(A).atoms = A
           /\ FirstState(A) \in Translation /\ FirstState(A).mode = "first" /\ FirstState(A).atoms = A
           /\ FirstState(A).open = FALSE /\ FirstState(A).negated = FALSE /\ FirstState(A).chars = {}
<1>1. /\ "plain" \in Modes /\ "first" \in Modes /\ FALSE \in BOOLEAN /\ {} \in SUBSET Char
  BY DEF Modes
<1>2. \A m \in Modes : Within(m, A, FALSE, {}) \in Translation
  BY <1>1, WithinType, Zenon
<1>3. QED
  <2>1. Plain(A) \in Translation /\ FirstState(A) \in Translation
    BY <1>1, <1>2, PlainWithin, Zenon DEF FirstState
  <2>2. /\ Plain(A).mode = "plain" /\ Plain(A).atoms = A
        /\ Plain(A).open = FALSE /\ Plain(A).negated = FALSE /\ Plain(A).chars = {}
    BY DEF Plain
  <2>3. EscapeState(A).mode = "escape" /\ EscapeState(A).atoms = A
    BY DEF EscapeState, Within
  <2>4. /\ FirstState(A).mode = "first" /\ FirstState(A).atoms = A
        /\ FirstState(A).open = FALSE /\ FirstState(A).negated = FALSE /\ FirstState(A).chars = {}
    BY DEF FirstState, Within
  <2>5. QED
    BY <2>1, <2>2, <2>3, <2>4

InClassState(st, A, neg, set) ==
    /\ st \in Translation /\ st.mode = "class" /\ st.atoms = A
    /\ st.open = FALSE /\ st.negated = neg /\ st.chars = set

LEMMA ClassIs ==
    ASSUME NEW A \in Seq(Atom), NEW neg \in BOOLEAN, NEW set \in SUBSET Char
    PROVE  InClassState(ClassState(A, neg, set), A, neg, set)
<1>1. "class" \in Modes
  BY DEF Modes
<1>2. ClassState(A, neg, set) \in Translation
  BY <1>1, WithinType, Zenon DEF ClassState
<1>3. /\ ClassState(A, neg, set).mode = "class"
      /\ ClassState(A, neg, set).atoms = A /\ ClassState(A, neg, set).negated = neg
      /\ ClassState(A, neg, set).chars = set /\ ClassState(A, neg, set).open = FALSE
  BY DEF ClassState, Within
<1>4. QED
  BY <1>2, <1>3, Zenon DEF InClassState

LEMMA StepPlain ==
    ASSUME NEW A \in Seq(Atom), NEW c \in Char, NEW closes
    PROVE  LET new == Translate(Plain(A), c, closes)
           IN  /\ c = "*" => new = Plain(Append(A, AnyString))
               /\ c = "?" => new = Plain(Append(A, AnyChar))
               /\ c = "\\" => new = EscapeState(A)
               /\ c = "[" /\ closes => new = FirstState(A)
               /\ c \notin {"*", "?", "\\", "["} => new = Plain(Append(A, Lit(c)))
<1>1. PICK st \in Translation : /\ st = Plain(A) /\ st.mode = "plain" /\ st.atoms = A
                              /\ st.open = FALSE /\ st.negated = FALSE /\ st.chars = {}
  BY StatesAre, Zenon
<1>2. [st EXCEPT !.mode = "escape"] = EscapeState(A) /\ [st EXCEPT !.mode = "first"] = FirstState(A)
  <2>1. "escape" \in Modes /\ "first" \in Modes
    BY DEF Modes
  <2>2. /\ [st EXCEPT !.mode = "escape"] = Within("escape", st.atoms, st.negated, st.chars)
        /\ [st EXCEPT !.mode = "first"] = Within("first", st.atoms, st.negated, st.chars)
    <3>1. \A m \in Modes : [st EXCEPT !.mode = m] = Within(m, st.atoms, st.negated, st.chars)
      BY <1>1, WithinUpdates, Zenon
    <3>2. QED
      BY <2>1, <3>1, Zenon
  <2>3. QED
    BY <1>1, <2>2, Zenon DEF EscapeState, FirstState
<1>3. c = "*" => Translate(st, c, closes) = Put(st, AnyString)
  BY <1>1, Zenon DEF Translate
<1>4. c = "?" => Translate(st, c, closes) = Put(st, AnyChar)
  BY <1>1, Zenon DEF Translate
<1>5. c = "\\" => Translate(st, c, closes) = [st EXCEPT !.mode = "escape"]
  BY <1>1, Zenon DEF Translate
<1>6. c = "[" /\ closes => Translate(st, c, closes) = [st EXCEPT !.mode = "first"]
  BY <1>1, Zenon DEF Translate
<1>7. c \notin {"*", "?", "\\", "["} => Translate(st, c, closes) = Put(st, Lit(c))
  BY <1>1, Zenon DEF Translate
<1>8. QED
  BY <1>1, <1>2, <1>3, <1>4, <1>5, <1>6, <1>7, PutIs, Zenon

LEMMA StepEscape ==
    ASSUME NEW A \in Seq(Atom), NEW c, NEW closes
    PROVE  Translate(EscapeState(A), c, closes) = Plain(Append(A, Lit(c)))
<1>1. Translate(EscapeState(A), c, closes) = Put(EscapeState(A), Lit(c))
  BY StatesAre, Zenon DEF Translate
<1>2. QED
  BY <1>1, PutIs, StatesAre, Zenon

LEMMA StepFirst ==
    ASSUME NEW A \in Seq(Atom), NEW c \in Char, NEW closes
    PROVE  LET new == Translate(FirstState(A), c, closes)
           IN  /\ c \in {"!", "^"} => new = ClassState(A, TRUE, {})
               /\ c \notin {"!", "^", "[", "]", "\\"} => new = ClassState(A, FALSE, {c})
<1>1. PICK st \in Translation : /\ st = FirstState(A) /\ st.mode = "first" /\ st.atoms = A
                              /\ st.open = FALSE /\ st.negated = FALSE /\ st.chars = {}
  BY StatesAre, Zenon
<1>2. /\ [st EXCEPT !.mode = "class", !.negated = TRUE] = ClassState(A, TRUE, {})
      /\ c # "[" => Added(st, "class", c)
                       = ClassState(A, FALSE, {c})
  <2>1. "class" \in Modes /\ {} \cup {c} = {c}
    BY DEF Modes
  <2>2. /\ [st EXCEPT !.mode = "class", !.negated = TRUE] = Within("class", st.atoms, TRUE, st.chars)
        /\ c # "[" => Added(st, "class", c)
                         = Within("class", st.atoms, st.negated, st.chars \cup {c})
    <3>1. \A m \in Modes : /\ [st EXCEPT !.mode = m, !.negated = TRUE] = Within(m, st.atoms, TRUE, st.chars)
                           /\ c # "[" => Added(st, m, c)
                                            = Within(m, st.atoms, st.negated, st.chars \cup {c})
      BY <1>1, WithinUpdates, WithinAdded, Zenon
    <3>2. QED
      BY <2>1, <3>1, Zenon
  <2>3. QED
    BY <1>1, <2>1, <2>2, Zenon DEF ClassState
<1>3. c \in {"!", "^"} => Translate(st, c, closes) = [st EXCEPT !.mode = "class", !.negated = TRUE]
  BY <1>1, Zenon DEF Translate
<1>4. c \notin {"!", "^"} => Translate(st, c, closes) = InClass(st, c)
  BY <1>1, Zenon DEF Translate
<1>5. c \notin {"]", "\\"} => InClass(st, c) = Added(st, "class", c)
  BY Zenon DEF InClass, Added
<1>6. QED
  BY <1>1, <1>2, <1>3, <1>4, <1>5, Zenon

LEMMA StepOrdinary ==
    ASSUME NEW A \in Seq(Atom), NEW neg \in BOOLEAN, NEW set \in SUBSET Char, NEW c \in Char, NEW closes,
           c \notin {"[", "]", "\\"}
    PROVE  Translate(ClassState(A, neg, set), c, closes) = ClassState(A, neg, set \cup {c})
<1>1. PICK st \in Translation : /\ st = ClassState(A, neg, set) /\ st.mode = "class" /\ st.atoms = A
                              /\ st.open = FALSE /\ st.negated = neg /\ st.chars = set
  <2>1. InClassState(ClassState(A, neg, set), A, neg, set)
    BY ClassIs
  <2>2. QED
    BY <2>1, Zenon DEF InClassState
<1>2. Added(st, "class", c) = ClassState(A, neg, set \cup {c})
  <2>1. "class" \in Modes /\ c # "["
    BY DEF Modes
  <2>2. Added(st, "class", c) = Within("class", st.atoms, st.negated, st.chars \cup {c})
    BY <1>1, <2>1, WithinAdded, Zenon
  <2>3. QED
    BY <1>1, <2>2, Zenon DEF ClassState
<1>3. Translate(st, c, closes) = InClass(st, c)
  BY <1>1, Zenon DEF Translate
<1>4. InClass(st, c) = Added(st, "class", c)
  BY Zenon DEF InClass, Added
<1>5. QED
  BY <1>1, <1>2, <1>3, <1>4, Zenon

LEMMA StepClose ==
    ASSUME NEW A \in Seq(Atom), NEW neg \in BOOLEAN, NEW set \in SUBSET Char, NEW closes, set # {}
    PROVE  Translate(ClassState(A, neg, set), "]", closes) = Plain(Append(A, Class(neg, set)))
<1>1. PICK st \in Translation : /\ st = ClassState(A, neg, set) /\ st.mode = "class" /\ st.atoms = A
                              /\ st.open = FALSE /\ st.negated = neg /\ st.chars = set
  <2>1. InClassState(ClassState(A, neg, set), A, neg, set)
    BY ClassIs
  <2>2. QED
    BY <2>1, Zenon DEF InClassState
<1>2. Translate(st, "]", closes) = InClass(st, "]")
  BY <1>1, Zenon DEF Translate
<1>3. InClass(st, "]") = CloseClass(st)
  BY Zenon DEF InClass
<1>4. CloseClass(st) = Put(st, Class(neg, set))
  BY <1>1, Zenon DEF CloseClass
<1>5. QED
  BY <1>1, <1>2, <1>3, <1>4, PutIs, Zenon

-----------------------------------------------------------------------------
(* Wildmat: what an atom takes is what its part stands for (Denotes).      *)

Piece(t, x, y) == SubSeq(t, x + 1, y)

LEMMA PieceIs ==
    ASSUME NEW t \in Text, NEW x \in 0 .. Len(t), NEW y \in 0 .. Len(t), x <= y
    PROVE  /\ Piece(t, x, y) \in Text
           /\ Len(Piece(t, x, y)) = 1 <=> y = x + 1
           /\ y = x + 1 => /\ t[y] \in Char /\ Piece(t, x, y)[1] = t[y]
                           /\ Piece(t, x, y) = <<t[y]>>
<1>1. PICK n \in Nat : n = Len(t)
  OBVIOUS
<1>2. x + 1 \in 1 .. n + 1 /\ y \in x .. n /\ x \in Nat /\ y \in Nat /\ y = (x + 1) - 1 + (y - x)
  BY <1>1
<1>3. /\ Piece(t, x, y) \in Text /\ Len(Piece(t, x, y)) = y - x
      /\ \A k \in 1 .. y - x : Piece(t, x, y)[k] = t[x + k]
  BY <1>1, <1>2 DEF Piece
<1>4. Len(Piece(t, x, y)) = 1 <=> y = x + 1
  BY <1>2, <1>3
<1>5. ASSUME y = x + 1
      PROVE  /\ t[y] \in Char /\ Piece(t, x, y)[1] = t[y]
             /\ Piece(t, x, y) = <<t[y]>>
  <2>1. y \in 1 .. n /\ 1 \in 1 .. y - x
    BY <1>1, <1>2, <1>5
  <2>2. t[y] \in Char /\ Piece(t, x, y)[1] = t[y]
    BY <1>1, <1>3, <1>5, <2>1
  <2>3. PICK u \in Text : u = Piece(t, x, y) /\ Len(u) = 1 /\ u[1] = t[y]
    BY <1>3, <1>4, <1>5, <2>2
  <2>4. u = <<u[1]>>
    BY <2>3
  <2>5. QED
    BY <2>2, <2>3, <2>4, Zenon
<1>6. QED
  BY <1>3, <1>4, <1>5

\* The texts on one line, as the names of groups are: a dot is no line feed.
OneLine == {t \in Text : \A i \in 1 .. Len(t) : t[i] # LF}

\* What the regex takes for an atom is what the part stands for.
Denotes(atom, a) ==
    /\ atom \in Atom /\ atom # Invalid
    /\ \A t \in OneLine : \A x, y \in 0 .. Len(t) :
          Takes(atom, t, x, y) <=> x <= y /\ Stands(a, Piece(t, x, y))

LEMMA AtomKinds ==
    /\ AnyString # Invalid /\ AnyChar # Invalid /\ AnyString # End /\ AnyChar # End /\ AnyChar # AnyString
    /\ End # Invalid
    /\ \A c : Lit(c) # Invalid /\ Lit(c) # End /\ Lit(c) # AnyString
    /\ \A neg, set : Class(neg, set) # Invalid /\ Class(neg, set) # End /\ Class(neg, set) # AnyString
<1>1. AnyString.kind = "star" /\ AnyChar.kind = "any" /\ End.kind = "end" /\ Invalid.kind = "invalid"
  BY DEF AnyString, AnyChar, End, Invalid
<1>2. \A c : Lit(c).kind = "literal"
  BY DEF Lit
<1>3. \A neg, set : Class(neg, set).kind = "class"
  BY DEF Class
<1>4. QED
  BY <1>1, <1>2, <1>3, Zenon

LEMMA TakesIs ==
    ASSUME NEW t, NEW x, NEW y
    PROVE  /\ Takes(AnyString, t, x, y) <=> x <= y /\ \A k \in x + 1 .. y : t[k] # LF
           /\ Takes(AnyChar, t, x, y) <=> y = x + 1 /\ t[y] # LF
           /\ \A c : Takes(Lit(c), t, x, y) <=> y = x + 1 /\ t[y] = c
           /\ \A set : Takes(Class(TRUE, set), t, x, y) <=> y = x + 1 /\ t[y] \notin set
           /\ \A set : Takes(Class(FALSE, set), t, x, y) <=> y = x + 1 /\ t[y] \in set
           /\ Takes(End, t, x, y) <=> x = Len(t) /\ y = x
<1>1. AnyString.kind = "star" /\ AnyChar.kind = "any"
  BY DEF AnyString, AnyChar
<1>2. \A c : Lit(c).kind = "literal" /\ Lit(c).char = c
  BY DEF Lit
<1>3. \A neg, set : Class(neg, set).kind = "class" /\ Class(neg, set).chars = set /\ Class(neg, set).negated = neg
  BY DEF Class
<1>4. Takes(AnyString, t, x, y) <=> x <= y /\ \A k \in x + 1 .. y : t[k] # LF
  BY AtomKinds, Zenon DEF Takes
<1>5. Takes(End, t, x, y) <=> x = Len(t) /\ y = x
  BY AtomKinds, Zenon DEF Takes
<1>6. \A atom : atom # End /\ atom # AnyString => (Takes(atom, t, x, y) <=> y = x + 1 /\ Fits(atom, t[y]))
  BY Zenon DEF Takes
<1>7. \A c : Fits(AnyChar, c) <=> c # LF
  BY <1>1, Zenon DEF Fits
<1>8. \A c, d : Fits(Lit(c), d) <=> d = c
  BY <1>2, Zenon DEF Fits
<1>9. \A neg, set, d : Fits(Class(neg, set), d) <=> ((d \in set) # neg)
  BY <1>3, Zenon DEF Fits
<1>10. \A set, d : (Fits(Class(TRUE, set), d) <=> d \notin set) /\ (Fits(Class(FALSE, set), d) <=> d \in set)
  <2>1. \A set, d : ((d \in set) # TRUE <=> d \notin set) /\ ((d \in set) # FALSE <=> d \in set)
    <3>1. \A b \in BOOLEAN : (b # TRUE <=> ~b) /\ (b # FALSE <=> b)
      OBVIOUS
    <3>2. \A set, d : (d \in set) \in BOOLEAN
      OBVIOUS
    <3>3. QED
      BY <3>1, <3>2, Zenon
  <2>2. ASSUME NEW set, NEW d PROVE (Fits(Class(TRUE, set), d) <=> d \notin set) /\ (Fits(Class(FALSE, set), d) <=> d \in set)
    <3>1. Fits(Class(TRUE, set), d) <=> ((d \in set) # TRUE)
      BY <1>9, Zenon
    <3>2. Fits(Class(FALSE, set), d) <=> ((d \in set) # FALSE)
      BY <1>9, Zenon
    <3>3. QED
      BY <2>1, <3>1, <3>2, Zenon
  <2>3. QED
    BY <2>2, Zenon
<1>11. QED
  BY <1>4, <1>5, <1>6, <1>7, <1>8, <1>10, AtomKinds, ZenonT(60)

LEMMA TakesOne ==
    ASSUME NEW t, NEW x, NEW y
    PROVE  /\ \A c : Takes(Lit(c), t, x, y) <=> y = x + 1 /\ t[y] = c
           /\ \A set : Takes(Class(TRUE, set), t, x, y) <=> y = x + 1 /\ t[y] \notin set
           /\ \A set : Takes(Class(FALSE, set), t, x, y) <=> y = x + 1 /\ t[y] \in set
           /\ Takes(End, t, x, y) <=> x = Len(t) /\ y = x
  BY TakesIs

LEMMA OneDenotes ==
    ASSUME NEW atom \in Atom, atom # Invalid, NEW a, NEW set,
           \A t \in OneLine : \A x, y \in 0 .. Len(t) :
               x <= y => (Takes(atom, t, x, y) <=> y = x + 1 /\ t[y] \in set),
           \A t \in OneLine : \A x, y \in 0 .. Len(t) : Takes(atom, t, x, y) => y = x + 1,
           \A u \in Text : Stands(a, u) <=> Len(u) = 1 /\ u[1] \in set
    PROVE  Denotes(atom, a)
<1>1. ASSUME NEW t \in OneLine, NEW x \in 0 .. Len(t), NEW y \in 0 .. Len(t)
      PROVE  Takes(atom, t, x, y) <=> x <= y /\ Stands(a, Piece(t, x, y))
  <2>1. CASE x <= y
    <3>0. t \in Text
      BY Zenon DEF OneLine
    <3>1. PICK u \in Text : u = Piece(t, x, y) /\ (Len(u) = 1 <=> y = x + 1) /\ (y = x + 1 => u[1] = t[y])
      BY <2>1, <3>0, PieceIs
    <3>2. Stands(a, u) <=> Len(u) = 1 /\ u[1] \in set
      OBVIOUS
    <3>3. Takes(atom, t, x, y) <=> y = x + 1 /\ t[y] \in set
      BY <2>1
    <3>4. QED
      BY <2>1, <3>1, <3>2, <3>3, Zenon
  <2>2. CASE ~(x <= y)
    <3>1. y # x + 1
      BY <2>2
    <3>2. ~Takes(atom, t, x, y)
      BY <3>1
    <3>3. QED
      BY <2>2, <3>2
  <2>3. QED
    BY <2>1, <2>2
<1>2. QED
  BY <1>1, Zenon DEF Denotes

LEMMA DenotesStar == Denotes(AnyString, <<"*">>)
<1>1. \A u : Stands(<<"*">>, u)
  <2>1. \A a, u : a = <<"*">> /\ a # <<"?">> /\ Len(a) # 2 /\ ~(Len(a) > 2) => Stands(a, u)
    BY Zenon DEF Stands
  <2>2. <<"*">> # <<"?">> /\ Len(<<"*">>) # 2 /\ ~(Len(<<"*">>) > 2)
    OBVIOUS
  <2>3. QED
    BY <2>1, <2>2, Zenon
<1>2. ASSUME NEW t \in OneLine, NEW x \in 0 .. Len(t), NEW y \in 0 .. Len(t)
      PROVE  Takes(AnyString, t, x, y) <=> x <= y
  <2>1. Len(t) \in Nat /\ \A i \in 1 .. Len(t) : t[i] # LF
    BY DEF OneLine
  <2>2. \A k \in x + 1 .. y : k \in 1 .. Len(t)
    BY <2>1
  <2>3. QED
    BY <2>1, <2>2, TakesIs, Zenon
<1>3. QED
  BY <1>1, <1>2, AtomTypes, AtomKinds, Zenon DEF Denotes

LEMMA DenotesAny == Denotes(AnyChar, <<"?">>)
<1>1. <<"?">> # <<"*">>
  OBVIOUS
<1>2. \A u : Stands(<<"?">>, u) <=> Len(u) = 1
  <2>1. \A a, u : a = <<"?">> /\ a # <<"*">> /\ Len(a) # 2 /\ ~(Len(a) > 2) => (Stands(a, u) <=> Len(u) = 1)
    BY Zenon DEF Stands
  <2>2. Len(<<"?">>) # 2 /\ ~(Len(<<"?">>) > 2)
    OBVIOUS
  <2>3. QED
    BY <1>1, <2>1, <2>2, Zenon
<1>3. ASSUME NEW t \in OneLine, NEW x \in 0 .. Len(t), NEW y \in 0 .. Len(t)
      PROVE  Takes(AnyChar, t, x, y) <=> y = x + 1
  <2>1. Len(t) \in Nat /\ \A i \in 1 .. Len(t) : t[i] # LF
    BY DEF OneLine
  <2>2. y = x + 1 => y \in 1 .. Len(t)
    BY <2>1
  <2>3. QED
    BY <2>1, <2>2, TakesIs, Zenon
<1>4. PICK a : a = <<"?">>
  OBVIOUS
<1>5. \A u \in Text : Stands(a, u) <=> Len(u) = 1 /\ u[1] \in Char
  <2>1. \A u \in Text : Len(u) = 1 => u[1] \in Char
    OBVIOUS
  <2>2. QED
    BY <1>2, <1>4, <2>1, Zenon
<1>6. \A t \in OneLine : \A x, y \in 0 .. Len(t) : x <= y => (Takes(AnyChar, t, x, y) <=> y = x + 1 /\ t[y] \in Char)
  <2>1. ASSUME NEW t \in OneLine, NEW x \in 0 .. Len(t), NEW y \in 0 .. Len(t), y = x + 1 PROVE t[y] \in Char
    <3>1. t \in Text
      BY Zenon DEF OneLine
    <3>2. QED
      BY <2>1, <3>1
  <2>2. QED
    BY <1>3, <2>1, Zenon
<1>7. \A t \in OneLine : \A x, y \in 0 .. Len(t) : Takes(AnyChar, t, x, y) => y = x + 1
  BY <1>3, Zenon
<1>8. AnyChar \in Atom /\ AnyChar # Invalid
  BY AtomTypes, AtomKinds
<1>9. Denotes(AnyChar, a)
  BY <1>5, <1>6, <1>7, <1>8, OneDenotes
<1>10. QED
  BY <1>4, <1>9, Zenon

LEMMA LitDenotes ==
    ASSUME NEW c \in Char, NEW a, \A u \in Text : Stands(a, u) <=> u = <<c>>
    PROVE  Denotes(Lit(c), a)
<1>1. \A t, x, y : Takes(Lit(c), t, x, y) <=> y = x + 1 /\ t[y] = c
  BY TakesOne, Zenon
<1>2. PICK set : set = {c}
  OBVIOUS
<1>3. \A d : d \in set <=> d = c
  BY <1>2
<1>4. \A u \in Text : Stands(a, u) <=> Len(u) = 1 /\ u[1] \in set
  <2>1. \A u \in Text : u = <<c>> <=> Len(u) = 1 /\ u[1] = c
    OBVIOUS
  <2>2. QED
    BY <1>3, <2>1, Zenon
<1>5. \A t \in OneLine : \A x, y \in 0 .. Len(t) : x <= y => (Takes(Lit(c), t, x, y) <=> y = x + 1 /\ t[y] \in set)
  BY <1>1, <1>3, Zenon
<1>6. \A t \in OneLine : \A x, y \in 0 .. Len(t) : Takes(Lit(c), t, x, y) => y = x + 1
  BY <1>1, Zenon
<1>7. Lit(c) \in Atom /\ Lit(c) # Invalid
  BY AtomTypes, AtomKinds
<1>8. QED
  BY <1>4, <1>5, <1>6, <1>7, OneDenotes

LEMMA DenotesEscaped ==
    ASSUME NEW a \in Text, Len(a) = 2
    PROVE  Denotes(Lit(a[2]), a)
<1>1. a # <<"*">> /\ a # <<"?">> /\ a[2] \in Char /\ ~(Len(a) > 2)
  <2>1. \A c : Len(<<c>>) = 1
    OBVIOUS
  <2>2. Len(a) # 1 /\ ~(Len(a) > 2) /\ a[2] \in Char
    BY SMTT(30)
  <2>3. QED
    BY <2>1, <2>2, Zenon
<1>2. \A u : Stands(a, u) <=> u = <<a[2]>>
  BY <1>1, Zenon DEF Stands
<1>3. QED
  BY <1>1, <1>2, LitDenotes, Zenon

LEMMA DenotesLiteral ==
    ASSUME NEW a \in Text, Len(a) = 1, a[1] \notin {"*", "?"}
    PROVE  Denotes(Lit(a[1]), a)
<1>1. a # <<"*">> /\ a # <<"?">> /\ a = <<a[1]>> /\ a[1] \in Char
  OBVIOUS
<1>2. Len(a) # 2 /\ ~(Len(a) > 2)
  OBVIOUS
<1>3. \A u : Stands(a, u) <=> u = a
  BY <1>1, <1>2, Zenon DEF Stands
<1>4. \A u : Stands(a, u) <=> u = <<a[1]>>
  BY <1>1, <1>3, Zenon
<1>5. QED
  BY <1>1, <1>4, LitDenotes, Zenon

Negates(a) == a[2] \in {"!", "^"}
Members(a, f) == {a[k] : k \in f .. Len(a) - 1}

LEMMA MembersType ==
    ASSUME NEW a \in Text, NEW f \in Nat, 1 <= f
    PROVE  Members(a, f) \in SUBSET Char
  BY DEF Members

LEMMA LongStands ==
    ASSUME NEW a \in Text, Len(a) > 2
    PROVE  /\ Negates(a) => \A u : Stands(a, u) <=> Len(u) = 1 /\ u[1] \notin Members(a, 3)
           /\ ~Negates(a) => \A u : Stands(a, u) <=> Len(u) = 1 /\ u[1] \in Members(a, 2)
<1>1. \A c : Len(<<c>>) = 1
  OBVIOUS
<1>2. Len(a) # 1 /\ Len(a) # 2
  <2>1. \A n \in Nat : n > 2 => n # 1 /\ n # 2
    OBVIOUS
  <2>2. Len(a) \in Nat
    OBVIOUS
  <2>3. QED
    BY <2>1, <2>2, Zenon
<1>3. a # <<"*">> /\ a # <<"?">>
  BY <1>1, <1>2, Zenon
<1>4. Negates(a) => \A u : Stands(a, u) <=> Len(u) = 1 /\ u[1] \notin Members(a, 3)
  BY <1>2, <1>3, Zenon DEF Stands, Negates, Members
<1>5. ~Negates(a) => \A u : Stands(a, u) <=> Len(u) = 1 /\ u[1] \in Members(a, 2)
  BY <1>2, <1>3, Zenon DEF Stands, Negates, Members
<1>6. QED
  BY <1>4, <1>5

LEMMA ClassInside ==
    ASSUME NEW a, NEW set \in SUBSET Char, \A u : Stands(a, u) <=> Len(u) = 1 /\ u[1] \in set
    PROVE  Denotes(Class(FALSE, set), a)
<1>1. PICK atom : atom = Class(FALSE, set)
  OBVIOUS
<1>2. atom \in Atom /\ atom # Invalid
  BY <1>1, AtomTypes, AtomKinds
<1>3. \A t, x, y : Takes(atom, t, x, y) <=> y = x + 1 /\ t[y] \in set
  BY <1>1, TakesOne, ZenonT(60)
<1>4. Denotes(atom, a)
  <2>1. \A u \in Text : Stands(a, u) <=> Len(u) = 1 /\ u[1] \in set
    BY Zenon
  <2>2. \A t \in OneLine : \A x, y \in 0 .. Len(t) : x <= y => (Takes(atom, t, x, y) <=> y = x + 1 /\ t[y] \in set)
    BY <1>3, Zenon
  <2>3. \A t \in OneLine : \A x, y \in 0 .. Len(t) : Takes(atom, t, x, y) => y = x + 1
    BY <1>3, Zenon
  <2>4. QED
    BY <1>2, <2>1, <2>2, <2>3, OneDenotes
<1>5. QED
  BY <1>1, <1>4, Zenon

LEMMA ClassOutside ==
    ASSUME NEW a, NEW set \in SUBSET Char, \A u : Stands(a, u) <=> Len(u) = 1 /\ u[1] \notin set
    PROVE  Denotes(Class(TRUE, set), a)
<1>1. PICK atom : atom = Class(TRUE, set)
  OBVIOUS
<1>2. atom \in Atom /\ atom # Invalid
  BY <1>1, AtomTypes, AtomKinds
<1>3. \A t, x, y : Takes(atom, t, x, y) <=> y = x + 1 /\ t[y] \notin set
  BY <1>1, TakesOne, ZenonT(60)
<1>4. PICK other : other = Char \ set
  OBVIOUS
<1>5. \A c \in Char : c \in other <=> c \notin set
  BY <1>4
<1>6. Denotes(atom, a)
  <2>1. \A u \in Text : Stands(a, u) <=> Len(u) = 1 /\ u[1] \in other
    <3>1. \A u \in Text : Len(u) = 1 => u[1] \in Char
      OBVIOUS
    <3>2. QED
      BY <1>5, <3>1, Zenon
  <2>2. \A t \in OneLine : \A x, y \in 0 .. Len(t) : x <= y => (Takes(atom, t, x, y) <=> y = x + 1 /\ t[y] \in other)
    <3>1. ASSUME NEW t \in OneLine, NEW x \in 0 .. Len(t), NEW y \in 0 .. Len(t), y = x + 1 PROVE t[y] \in Char
      <4>1. t \in Text
        BY Zenon DEF OneLine
      <4>2. QED
        BY <3>1, <4>1
    <3>2. QED
      BY <1>3, <1>5, <3>1, Zenon
  <2>3. \A t \in OneLine : \A x, y \in 0 .. Len(t) : Takes(atom, t, x, y) => y = x + 1
    BY <1>3, Zenon
  <2>4. QED
    BY <1>2, <2>1, <2>2, <2>3, OneDenotes
<1>7. QED
  BY <1>1, <1>6, Zenon

LEMMA DenotesClass ==
    ASSUME NEW a \in Text, Len(a) > 2
    PROVE  /\ Negates(a) => Denotes(Class(TRUE, Members(a, 3)), a)
           /\ ~Negates(a) => Denotes(Class(FALSE, Members(a, 2)), a)
<1>1. Members(a, 3) \in SUBSET Char /\ Members(a, 2) \in SUBSET Char
  BY MembersType
<1>2. QED
  BY <1>1, LongStands, ClassInside, ClassOutside, Zenon

-----------------------------------------------------------------------------
(* Wildmat: the scanner over one part.                                     *)

\* The three shapes of a part.
Single(a) == Len(a) = 1 /\ a[1] \notin {"[", "\\"}
Escaped2(a) == Len(a) = 2 /\ a[1] = "\\"
ClassFrom(a) == IF Negates(a) THEN 3 ELSE 2
Ordinary(c) == c \notin ClassMeta
ClosedClass(a) ==
    /\ Len(a) > 2 /\ a[1] = "[" /\ a[Len(a)] = "]"
    /\ ClassFrom(a) < Len(a) /\ \A k \in ClassFrom(a) .. Len(a) - 1 : Ordinary(a[k])

LEMMA PartShapes ==
    ASSUME NEW a, IsPart(a)
    PROVE  Single(a) \/ Escaped2(a) \/ ClosedClass(a)
  BY Zenon DEF IsPart, Single, Escaped2, ClosedClass, ClassFrom, Negates, Ordinary

LEMMA CutIs ==
    ASSUME NEW p \in Text, NEW i \in 0 .. Len(p), NEW j \in 0 .. Len(p), i < j
    PROVE  /\ Piece(p, i, j) \in Text /\ Len(Piece(p, i, j)) = j - i
           /\ \A k \in 1 .. j - i : /\ i + k \in 1 .. Len(p)
                                    /\ Piece(p, i, j)[k] = p[i + k] /\ p[i + k] \in Char
<1>1. PICK n \in Nat : n = Len(p)
  OBVIOUS
<1>2. i + 1 \in 1 .. n + 1 /\ j \in i .. n /\ i \in Nat /\ j \in Nat /\ j = (i + 1) - 1 + (j - i)
  BY <1>1
<1>3. /\ Piece(p, i, j) \in Text /\ Len(Piece(p, i, j)) = j - i
      /\ \A k \in 1 .. j - i : Piece(p, i, j)[k] = p[i + k]
  BY <1>1, <1>2 DEF Piece
<1>4. \A k \in 1 .. j - i : i + k \in 1 .. n
  BY <1>1, <1>2
<1>5. QED
  BY <1>1, <1>3, <1>4

\* A single character is one atom.
LEMMA ScanSingle ==
    ASSUME NEW p \in Text, NEW i \in 0 .. Len(p), NEW j \in 0 .. Len(p), i < j,
           NEW A \in Seq(Atom), Scanned(p, i) = Plain(A), Single(Piece(p, i, j))
    PROVE  \E atom : Denotes(atom, Piece(p, i, j)) /\ Scanned(p, j) = Plain(Append(A, atom))
<1>1. PICK a \in Text : /\ a = Piece(p, i, j) /\ Len(a) = j - i
                        /\ \A k \in 1 .. j - i : a[k] = p[i + k] /\ p[i + k] \in Char
  BY CutIs
<1>2. Len(a) = 1 /\ a[1] \notin {"[", "\\"}
  BY <1>1, Zenon DEF Single
<1>3. j = i + 1 /\ j \in 1 .. Len(p) /\ j - 1 = i /\ a[1] = p[j] /\ p[j] \in Char
  <2>1. Len(a) = 1
    BY <1>2
  <2>2. j - i = 1
    BY <1>1, <2>1, Zenon
  <2>3. Len(p) \in Nat
    OBVIOUS
  <2>4. j = i + 1 /\ j \in 1 .. Len(p) /\ j - 1 = i
    BY <2>2, <2>3
  <2>5. 1 \in 1 .. j - i
    BY <2>2
  <2>6. QED
    BY <1>1, <2>4, <2>5
<1>4. Scanned(p, j) = Translate(Plain(A), p[j], Closes(p, j))
  <2>1. Scanned(p, j) = Translate(Scanned(p, j - 1), p[j], Closes(p, j))
    BY <1>3, ScannedNext
  <2>2. QED
    BY <1>3, <2>1, Zenon
<1>5. a = <<a[1]>>
  BY <1>2
<1>6. /\ p[j] = "*" => Scanned(p, j) = Plain(Append(A, AnyString))
      /\ p[j] = "?" => Scanned(p, j) = Plain(Append(A, AnyChar))
      /\ p[j] \notin {"*", "?"} => Scanned(p, j) = Plain(Append(A, Lit(p[j])))
  BY <1>2, <1>3, <1>4, StepPlain, Zenon
<1>7. CASE p[j] = "*"
  <2>1. a = <<"*">>
    BY <1>3, <1>5, <1>7, Zenon
  <2>2. QED
    BY <1>1, <1>6, <1>7, <2>1, DenotesStar, Zenon
<1>8. CASE p[j] = "?"
  <2>1. a = <<"?">>
    BY <1>3, <1>5, <1>8, Zenon
  <2>2. QED
    BY <1>1, <1>6, <1>8, <2>1, DenotesAny, Zenon
<1>9. CASE p[j] \notin {"*", "?"}
  <2>1. a[1] \notin {"*", "?"}
    BY <1>3, <1>9, Zenon
  <2>2. Denotes(Lit(a[1]), a)
    BY <1>2, <2>1, DenotesLiteral, Zenon DEF Text
  <2>3. QED
    BY <1>1, <1>3, <1>6, <1>9, <2>2, Zenon
<1>10. QED
  BY <1>7, <1>8, <1>9, Zenon

\* So is an escaped one.
LEMMA ScanEscaped ==
    ASSUME NEW p \in Text, NEW i \in 0 .. Len(p), NEW j \in 0 .. Len(p), i < j,
           NEW A \in Seq(Atom), Scanned(p, i) = Plain(A), Escaped2(Piece(p, i, j))
    PROVE  \E atom : Denotes(atom, Piece(p, i, j)) /\ Scanned(p, j) = Plain(Append(A, atom))
<1>1. PICK a \in Text : /\ a = Piece(p, i, j) /\ Len(a) = j - i
                        /\ \A k \in 1 .. j - i : a[k] = p[i + k] /\ p[i + k] \in Char
  BY CutIs
<1>2. Len(a) = 2 /\ a[1] = "\\"
  BY <1>1, Zenon DEF Escaped2
<1>3. /\ j = i + 2 /\ j \in 1 .. Len(p) /\ j - 1 = i + 1 /\ i + 1 \in 1 .. Len(p) /\ (i + 1) - 1 = i
      /\ a[1] = p[i + 1] /\ p[i + 1] \in Char /\ a[2] = p[j] /\ p[j] \in Char
  <2>1. Len(a) = 2
    BY <1>2
  <2>2. /\ j = i + 2 /\ j \in 1 .. Len(p) /\ j - 1 = i + 1 /\ i + 1 \in 1 .. Len(p) /\ (i + 1) - 1 = i
    <3>1. j - i = 2
      BY <1>1, <2>1, Zenon
    <3>2. Len(p) \in Nat
      OBVIOUS
    <3>3. QED
      BY <3>1, <3>2
  <2>3. 1 \in 1 .. j - i /\ 2 \in 1 .. j - i
    BY <2>2
  <2>4. QED
    BY <1>1, <2>2, <2>3
<1>4. Scanned(p, i + 1) = Translate(Plain(A), p[i + 1], Closes(p, i + 1))
  <2>1. Scanned(p, i + 1) = Translate(Scanned(p, (i + 1) - 1), p[i + 1], Closes(p, i + 1))
    BY <1>3, ScannedNext
  <2>2. QED
    BY <1>3, <2>1, Zenon
<1>5. Scanned(p, i + 1) = EscapeState(A)
  BY <1>2, <1>3, <1>4, StepPlain, ZenonT(30)
<1>6. Scanned(p, j) = Translate(EscapeState(A), p[j], Closes(p, j))
  <2>1. Scanned(p, j) = Translate(Scanned(p, j - 1), p[j], Closes(p, j))
    BY <1>3, ScannedNext
  <2>2. QED
    BY <1>3, <1>5, <2>1, Zenon
<1>7. Scanned(p, j) = Plain(Append(A, Lit(p[j])))
  BY <1>6, StepEscape, Zenon
<1>8. Denotes(Lit(a[2]), a)
  BY <1>2, DenotesEscaped, Zenon DEF Text
<1>9. QED
  BY <1>1, <1>3, <1>7, <1>8, Zenon

\* The characters of p after x, up to y.
Among(p, x, y) == {p[m] : m \in x + 1 .. y}

LEMMA AmongIs ==
    ASSUME NEW p \in Text, NEW x \in 0 .. Len(p)
    PROVE  /\ Among(p, x, x) = {}
           /\ \A k \in x .. Len(p) : Among(p, x, k) \in SUBSET Char
           /\ \A k \in x + 1 .. Len(p) : Among(p, x, k) = Among(p, x, k - 1) \cup {p[k]}
<1>1. PICK n \in Nat : n = Len(p)
  OBVIOUS
<1>2. \A k : k \in x + 1 .. x => FALSE
  BY <1>1
<1>3. Among(p, x, x) = {}
  BY <1>2 DEF Among
<1>4. \A k \in x .. n : \A m \in x + 1 .. k : m \in 1 .. n
  BY <1>1
<1>5. \A k \in x .. Len(p) : Among(p, x, k) \in SUBSET Char
  BY <1>1, <1>4 DEF Among
<1>6. ASSUME NEW k \in x + 1 .. n PROVE Among(p, x, k) = Among(p, x, k - 1) \cup {p[k]}
  <2>1. \A m : m \in x + 1 .. k <=> m \in x + 1 .. k - 1 \/ m = k
    BY <1>1
  <2>2. QED
    BY <2>1, Zenon DEF Among
<1>7. QED
  BY <1>1, <1>3, <1>5, <1>6

Opens(c) == c = "["
Shuts(c) == c = "]"

\* Inside a class, ordinary characters are collected.
LEMMA ScanInside ==
    ASSUME NEW p \in Text, NEW x \in 1 .. Len(p), NEW y \in x .. Len(p), NEW A \in Seq(Atom),
           NEW neg \in BOOLEAN, NEW set \in SUBSET Char, Scanned(p, x) = ClassState(A, neg, set),
           \A m \in x + 1 .. y : Ordinary(p[m])
    PROVE  Scanned(p, y) = ClassState(A, neg, set \cup Among(p, x, y))
<1>1. PICK n \in Nat : n = Len(p)
  OBVIOUS
<1> DEFINE P(k) == Scanned(p, k) = ClassState(A, neg, set \cup Among(p, x, k))
           T == {k \in x .. y : ~P(k)}
<1>2. x \in 0 .. Len(p) /\ x \in Nat /\ y \in Nat /\ y \in x .. y /\ x \in x .. y /\ x .. y \subseteq Nat
      /\ x \in 1 .. n /\ y \in x .. n
  BY <1>1
<1>3. P(x)
  BY <1>2, AmongIs
<1>4. ASSUME NEW k \in x .. y, k # x, P(k - 1) PROVE P(k)
  <2>1. k \in 1 .. n /\ k \in x + 1 .. y /\ k \in x + 1 .. n /\ k - 1 \in x .. n
    BY <1>2, <1>4
  <2>2. /\ Among(p, x, k) = Among(p, x, k - 1) \cup {p[k]}
        /\ Among(p, x, k - 1) \in SUBSET Char
    BY <1>1, <1>2, <2>1, AmongIs
  <2>3. PICK s \in SUBSET Char : s = set \cup Among(p, x, k - 1)
    BY <2>2
  <2>4. Scanned(p, k) = Translate(ClassState(A, neg, s), p[k], Closes(p, k))
    <3>1. Scanned(p, k) = Translate(Scanned(p, k - 1), p[k], Closes(p, k))
      BY <1>1, <2>1, ScannedNext
    <3>2. QED
      BY <1>4, <2>3, <3>1, Zenon
  <2>5. p[k] \in Char /\ Ordinary(p[k])
    BY <1>1, <2>1
  <2>6. Translate(ClassState(A, neg, s), p[k], Closes(p, k)) = ClassState(A, neg, s \cup {p[k]})
    <3>1. p[k] \notin {"[", "]", "\\"}
      BY <2>5, Zenon DEF Ordinary, ClassMeta
    <3>2. QED
      BY <2>5, <3>1, StepOrdinary
  <2>7. s \cup {p[k]} = set \cup Among(p, x, k)
    BY <2>2, <2>3
  <2>8. QED
    BY <2>4, <2>6, <2>7, Zenon
<1> HIDE DEF P
<1>5. T = {}
  <2>1. SUFFICES ASSUME T # {} PROVE FALSE
    OBVIOUS
  <2>2. T \subseteq Nat
    BY <1>2
  <2>3. PICK k \in T : \A l \in T : k <= l
    <3> HIDE DEF T
    <3>1. QED
      BY <2>1, <2>2, Least
  <2>4. k \in x .. y /\ k # x /\ ~P(k)
    BY <1>3, <2>3
  <2>5. k - 1 \in x .. y /\ ~(k <= k - 1)
    BY <1>2, <2>4
  <2>6. k - 1 \notin T
    BY <2>3, <2>5
  <2>7. P(k - 1)
    BY <2>5, <2>6
  <2>8. QED
    BY <1>4, <2>4, <2>7
<1>6. P(y)
  BY <1>2, <1>5
<1>7. QED
  BY <1>6 DEF P

LEMMA ScanClose ==
    ASSUME NEW p \in Text, NEW x \in 1 .. Len(p), NEW j \in x + 1 .. Len(p), NEW A \in Seq(Atom),
           NEW neg \in BOOLEAN, NEW set \in SUBSET Char, Scanned(p, x) = ClassState(A, neg, set),
           \A m \in x + 1 .. j - 1 : Ordinary(p[m]), Shuts(p[j]), set \cup Among(p, x, j - 1) # {}
    PROVE  Scanned(p, j) = Plain(Append(A, Class(neg, set \cup Among(p, x, j - 1))))
<1>1. PICK n \in Nat : n = Len(p)
  OBVIOUS
<1>2. j - 1 \in x .. n /\ x \in 0 .. n /\ j \in 1 .. n
  BY <1>1
<1>3. Scanned(p, j - 1) = ClassState(A, neg, set \cup Among(p, x, j - 1))
  BY <1>1, <1>2, ScanInside
<1>4. PICK s \in SUBSET Char : s = set \cup Among(p, x, j - 1)
  <2>1. Among(p, x, j - 1) \in SUBSET Char
    BY <1>1, <1>2, AmongIs
  <2>2. QED
    BY <2>1
<1>5. Scanned(p, j) = Translate(ClassState(A, neg, s), p[j], Closes(p, j))
  <2>1. Scanned(p, j) = Translate(Scanned(p, j - 1), p[j], Closes(p, j))
    BY <1>1, <1>2, ScannedNext
  <2>2. QED
    BY <1>3, <1>4, <2>1, Zenon
<1>6. p[j] \in Char /\ s # {}
  BY <1>1, <1>2, <1>4
<1>7. Translate(ClassState(A, neg, s), "]", Closes(p, j)) = Plain(Append(A, Class(neg, s)))
  BY <1>6, StepClose
<1>8. QED
  BY <1>4, <1>5, <1>7, Zenon DEF Shuts

LEMMA MembersAre ==
    ASSUME NEW p \in Text, NEW i \in 0 .. Len(p), NEW j \in 0 .. Len(p), i < j,
           NEW f \in Nat, 1 <= f
    PROVE  Members(Piece(p, i, j), f) = Among(p, i + f - 1, j - 1)
<1>1. PICK a \in Text : /\ a = Piece(p, i, j) /\ Len(a) = j - i
                        /\ \A k \in 1 .. j - i : a[k] = p[i + k]
  BY CutIs
<1>2. i \in Nat /\ j \in Nat
  OBVIOUS
<1>3. PICK l \in Nat : l = Len(a) /\ l = j - i
  BY <1>1
<1>4. ASSUME NEW c, c \in Members(a, f) PROVE c \in Among(p, i + f - 1, j - 1)
  <2>1. PICK k \in f .. l - 1 : c = a[k]
    BY <1>3, <1>4 DEF Members
  <2>2. k \in 1 .. j - i /\ i + k \in (i + f - 1) + 1 .. j - 1
    BY <1>2, <1>3
  <2>3. c = p[i + k]
    BY <1>1, <2>1, <2>2
  <2>4. QED
    BY <2>2, <2>3 DEF Among
<1>5. ASSUME NEW c, c \in Among(p, i + f - 1, j - 1) PROVE c \in Members(a, f)
  <2>1. PICK m \in (i + f - 1) + 1 .. j - 1 : c = p[m]
    BY <1>5 DEF Among
  <2>2. PICK k \in f .. l - 1 : m = i + k
    BY <1>2, <1>3
  <2>3. k \in 1 .. j - i
    BY <1>2, <1>3, <2>2
  <2>4. c = a[k]
    BY <1>1, <2>1, <2>2, <2>3
  <2>5. QED
    BY <1>3, <2>2, <2>4 DEF Members
<1>6. Members(a, f) = Among(p, i + f - 1, j - 1)
  BY <1>4, <1>5
<1>7. QED
  BY <1>1, <1>6

\* A class that is closed.
LEMMA ScanOpening ==
    ASSUME NEW p \in Text, NEW i \in 0 .. Len(p), NEW j \in 0 .. Len(p), i + 2 < j,
           NEW A \in Seq(Atom), Scanned(p, i) = Plain(A), p[i + 1] = "[", p[j] = "]"
    PROVE  Scanned(p, i + 1) = FirstState(A)
<1>1. PICK n \in Nat : n = Len(p)
  OBVIOUS
<1>2. i + 1 \in 1 .. n /\ (i + 1) - 1 = i /\ j \in (i + 1) + 1 .. n
  BY <1>1
<1>3. Scanned(p, i + 1) = Translate(Plain(A), p[i + 1], Closes(p, i + 1))
  <2>1. Scanned(p, i + 1) = Translate(Scanned(p, (i + 1) - 1), p[i + 1], Closes(p, i + 1))
    BY <1>1, <1>2, ScannedNext
  <2>2. QED
    BY <1>2, <2>1, Zenon
<1>4. Closes(p, i + 1)
  BY <1>1, <1>2, Zenon DEF Closes
<1>5. p[i + 1] \in Char
  BY <1>1, <1>2
<1>6. QED
  BY <1>3, <1>4, <1>5, StepPlain, Zenon

LEMMA ScanNegated ==
    ASSUME NEW p \in Text, NEW i \in 0 .. Len(p), NEW j \in 0 .. Len(p), i + 2 < j,
           NEW A \in Seq(Atom), Scanned(p, i + 1) = FirstState(A)
    PROVE  /\ p[i + 2] \in {"!", "^"} => Scanned(p, i + 2) = ClassState(A, TRUE, {})
           /\ p[i + 2] \notin {"!", "^"} /\ Ordinary(p[i + 2])
                => Scanned(p, i + 2) = ClassState(A, FALSE, {p[i + 2]})
<1>1. PICK n \in Nat : n = Len(p)
  OBVIOUS
<1>2. i + 2 \in 1 .. n /\ (i + 2) - 1 = i + 1
  BY <1>1
<1>3. Scanned(p, i + 2) = Translate(FirstState(A), p[i + 2], Closes(p, i + 2))
  <2>1. Scanned(p, i + 2) = Translate(Scanned(p, (i + 2) - 1), p[i + 2], Closes(p, i + 2))
    BY <1>1, <1>2, ScannedNext
  <2>2. QED
    BY <1>2, <2>1, Zenon
<1>4. p[i + 2] \in Char
  BY <1>1, <1>2
<1>5. QED
  BY <1>3, <1>4, StepFirst, Zenon DEF Ordinary, ClassMeta

LEMMA ClassShape ==
    ASSUME NEW p \in Text, NEW i \in 0 .. Len(p), NEW j \in 0 .. Len(p), i < j, ClosedClass(Piece(p, i, j))
    PROVE  /\ i + 2 < j /\ Opens(p[i + 1]) /\ Shuts(p[j])
           /\ Negates(Piece(p, i, j)) <=> p[i + 2] \in {"!", "^"}
           /\ Negates(Piece(p, i, j)) => i + 3 < j /\ \A m \in i + 3 .. j - 1 : Ordinary(p[m])
           /\ ~Negates(Piece(p, i, j)) => \A m \in i + 2 .. j - 1 : Ordinary(p[m])
<1>1. PICK a \in Text : /\ a = Piece(p, i, j) /\ Len(a) = j - i
                        /\ \A k \in 1 .. j - i : a[k] = p[i + k]
  BY CutIs
<1>2. i \in Nat /\ j \in Nat
  OBVIOUS
<1>3. PICK l \in Nat : l = Len(a) /\ l = j - i
  BY <1>1
<1>4. PICK f : f = ClassFrom(a)
  OBVIOUS
<1>5. (Negates(a) => f = 3) /\ (~Negates(a) => f = 2)
  BY <1>4, Zenon DEF ClassFrom
<1>6. /\ l > 2 /\ Opens(a[1]) /\ Shuts(a[l])
      /\ f < l /\ \A k \in f .. l - 1 : Ordinary(a[k])
  BY <1>1, <1>3, <1>4, Zenon DEF ClosedClass, Opens, Shuts
<1>7. f \in {2, 3}
  BY <1>5, Zenon
<1>8. /\ i + 2 < j /\ 1 \in 1 .. j - i /\ 2 \in 1 .. j - i /\ l \in 1 .. j - i /\ i + l = j
  BY <1>2, <1>3, <1>6
<1>9. a[1] = p[i + 1] /\ a[2] = p[i + 2] /\ a[l] = p[j]
  BY <1>1, <1>8
<1>10. \A m \in i + f .. j - 1 : Ordinary(p[m])
  <2> SUFFICES ASSUME NEW m \in i + f .. j - 1 PROVE Ordinary(p[m])
    OBVIOUS
  <2>1. f \in Nat /\ f >= 2
    BY <1>7
  <2>2. PICK k \in f .. l - 1 : m = i + k
    BY <1>2, <1>3, <2>1
  <2>3. k \in 1 .. j - i
    BY <1>2, <1>3, <2>1, <2>2
  <2>4. QED
    BY <1>1, <1>6, <2>2, <2>3
<1>11. Negates(a) <=> p[i + 2] \in {"!", "^"}
  BY <1>9, Zenon DEF Negates
<1>12. Negates(a) => i + 3 < j /\ \A m \in i + 3 .. j - 1 : Ordinary(p[m])
  <2>1. f = 3 => i + 3 < j
    BY <1>2, <1>3, <1>6
  <2>2. QED
    BY <1>5, <1>10, <2>1, Zenon
<1>13. ~Negates(a) => \A m \in i + 2 .. j - 1 : Ordinary(p[m])
  BY <1>5, <1>10, Zenon
<1>14. QED
  BY <1>1, <1>6, <1>8, <1>9, <1>11, <1>12, <1>13, Zenon

\* A class is one atom, and denotes what it says.
LEMMA ScanClass ==
    ASSUME NEW p \in Text, NEW i \in 0 .. Len(p), NEW j \in 0 .. Len(p), i < j,
           NEW A \in Seq(Atom), Scanned(p, i) = Plain(A), ClosedClass(Piece(p, i, j))
    PROVE  \E atom : Denotes(atom, Piece(p, i, j)) /\ Scanned(p, j) = Plain(Append(A, atom))
<1>1. PICK n \in Nat : n = Len(p)
  OBVIOUS
<1>2. i + 2 < j /\ p[i + 1] = "[" /\ p[j] = "]"
  BY ClassShape, ZenonT(30) DEF Opens, Shuts
<1>3. /\ i \in Nat /\ j \in Nat /\ i + 2 \in 1 .. n /\ j \in (i + 2) + 1 .. n /\ j - 1 \in Nat
      /\ (i + 2) + 1 = i + 3 /\ i + 3 - 1 = i + 2 /\ i + 2 - 1 = i + 1
  <2>1. i + 2 < j
    BY <1>2
  <2>2. QED
    BY <1>1, <2>1
<1>4. Scanned(p, i + 1) = FirstState(A)
  BY <1>2, ScanOpening, Zenon DEF Text
<1>5. PICK a \in Text : a = Piece(p, i, j) /\ Len(a) > 2
  <2>1. i + 2 < j
    BY <1>2
  <2>2. Piece(p, i, j) \in Text /\ Len(Piece(p, i, j)) = j - i
    BY CutIs
  <2>3. QED
    BY <1>3, <2>1, <2>2
<1>6. CASE Negates(a)
  <2>1. i + 3 < j /\ (\A m \in i + 3 .. j - 1 : Ordinary(p[m])) /\ p[i + 2] \in {"!", "^"}
    BY <1>5, <1>6, ClassShape, Zenon
  <2>2. Scanned(p, i + 2) = ClassState(A, TRUE, {})
    BY <1>2, <1>4, <2>1, ScanNegated, Zenon
  <2>3. PICK set : set = Members(a, 3)
    OBVIOUS
  <2>4. set = {} \cup Among(p, i + 2, j - 1)
    <3>1. Members(Piece(p, i, j), 3) = Among(p, i + 3 - 1, j - 1)
      BY MembersAre
    <3>2. QED
      BY <1>3, <1>5, <2>3, <3>1
  <2>5. set # {}
    <3>1. i + 3 \in (i + 2) + 1 .. j - 1
      <4>1. i + 3 < j
        BY <2>1
      <4>2. QED
        BY <1>3, <4>1
    <3>2. p[i + 3] \in Among(p, i + 2, j - 1)
      BY <3>1, Zenon DEF Among
    <3>3. QED
      BY <2>4, <3>2
  <2>6. Scanned(p, j) = Plain(Append(A, Class(TRUE, set)))
    <3>1. TRUE \in BOOLEAN /\ {} \in SUBSET Char
      OBVIOUS
    <3>2. \A m \in (i + 2) + 1 .. j - 1 : Ordinary(p[m])
      BY <1>3, <2>1, Zenon
    <3>3. i + 2 \in 1 .. Len(p) /\ j \in (i + 2) + 1 .. Len(p) /\ {} \cup Among(p, i + 2, j - 1) # {}
      BY <1>1, <1>3, <2>4, <2>5
    <3>4. Scanned(p, j) = Plain(Append(A, Class(TRUE, {} \cup Among(p, i + 2, j - 1))))
      <4>1. PICK neg \in BOOLEAN, s \in SUBSET Char : neg = TRUE /\ s = {}
        BY <3>1
      <4>2. Scanned(p, i + 2) = ClassState(A, neg, s) /\ s \cup Among(p, i + 2, j - 1) # {}
        BY <2>2, <3>3, <4>1, Zenon
      <4>3. Scanned(p, j) = Plain(Append(A, Class(neg, s \cup Among(p, i + 2, j - 1))))
        <5>1. Shuts(p[j])
          BY <1>2, Zenon DEF Shuts
        <5>2. i + 2 \in 1 .. Len(p) /\ j \in (i + 2) + 1 .. Len(p)
          BY <3>3
        <5>3. PICK x \in 1 .. Len(p) : /\ x = i + 2 /\ j \in x + 1 .. Len(p)
                                       /\ \A m \in x + 1 .. j - 1 : Ordinary(p[m])
          BY <3>2, <5>2, Zenon
        <5>4. Scanned(p, x) = ClassState(A, neg, s) /\ s \cup Among(p, x, j - 1) # {}
          BY <4>2, <5>3, Zenon
        <5>5. Scanned(p, j) = Plain(Append(A, Class(neg, s \cup Among(p, x, j - 1))))
          <6>1. j \in x + 1 .. Len(p) /\ \A m \in x + 1 .. j - 1 : Ordinary(p[m])
            BY <5>3
          <6>2. QED
            BY <5>1, <5>4, <6>1, ScanClose
        <5>6. QED
          BY <5>3, <5>5, Zenon
      <4>4. QED
        BY <4>1, <4>3, Zenon
    <3>5. QED
      BY <2>4, <3>4
  <2>7. Denotes(Class(TRUE, set), a)
    BY <1>5, <1>6, <2>3, DenotesClass
  <2>8. QED
    BY <1>5, <2>6, <2>7
<1>7. CASE ~Negates(a)
  <2>1. (\A m \in i + 2 .. j - 1 : Ordinary(p[m])) /\ p[i + 2] \notin {"!", "^"}
    BY <1>5, <1>7, ClassShape, Zenon
  <2>2. Ordinary(p[i + 2])
    <3>1. i + 2 \in i + 2 .. j - 1
      BY <1>3
    <3>2. QED
      BY <2>1, <3>1, Zenon
  <2>3. Scanned(p, i + 2) = ClassState(A, FALSE, {p[i + 2]})
    BY <1>2, <1>4, <2>1, <2>2, ScanNegated, Zenon
  <2>4. PICK set : set = Members(a, 2)
    OBVIOUS
  <2>5. set = {p[i + 2]} \cup Among(p, i + 2, j - 1) /\ p[i + 2] \in Char
    <3>1. Members(Piece(p, i, j), 2) = Among(p, i + 2 - 1, j - 1)
      BY MembersAre
    <3>2. \A m : m \in (i + 2 - 1) + 1 .. j - 1 <=> m \in (i + 2) + 1 .. j - 1 \/ m = i + 2
      BY <1>3
    <3>3. Among(p, i + 2 - 1, j - 1) = {p[i + 2]} \cup Among(p, i + 2, j - 1)
      BY <3>2, Zenon DEF Among
    <3>4. p[i + 2] \in Char
      BY <1>1, <1>3
    <3>5. QED
      BY <1>5, <2>4, <3>1, <3>3, <3>4
  <2>6. Scanned(p, j) = Plain(Append(A, Class(FALSE, set)))
    <3>1. FALSE \in BOOLEAN /\ {p[i + 2]} \in SUBSET Char
      BY <2>5
    <3>2. \A m \in (i + 2) + 1 .. j - 1 : Ordinary(p[m])
      <4>1. \A m \in (i + 2) + 1 .. j - 1 : m \in i + 2 .. j - 1
        BY <1>3
      <4>2. QED
        BY <2>1, <4>1, Zenon
    <3>3. i + 2 \in 1 .. Len(p) /\ j \in (i + 2) + 1 .. Len(p) /\ {p[i + 2]} \cup Among(p, i + 2, j - 1) # {}
      BY <1>1, <1>3
    <3>4. Scanned(p, j) = Plain(Append(A, Class(FALSE, {p[i + 2]} \cup Among(p, i + 2, j - 1))))
      <4>1. PICK neg \in BOOLEAN, s \in SUBSET Char : neg = FALSE /\ s = {p[i + 2]}
        BY <3>1
      <4>2. Scanned(p, i + 2) = ClassState(A, neg, s) /\ s \cup Among(p, i + 2, j - 1) # {}
        BY <2>3, <3>3, <4>1, Zenon
      <4>3. Scanned(p, j) = Plain(Append(A, Class(neg, s \cup Among(p, i + 2, j - 1))))
        <5>1. Shuts(p[j])
          BY <1>2, Zenon DEF Shuts
        <5>2. i + 2 \in 1 .. Len(p) /\ j \in (i + 2) + 1 .. Len(p)
          BY <3>3
        <5>3. PICK x \in 1 .. Len(p) : /\ x = i + 2 /\ j \in x + 1 .. Len(p)
                                       /\ \A m \in x + 1 .. j - 1 : Ordinary(p[m])
          BY <3>2, <5>2, Zenon
        <5>4. Scanned(p, x) = ClassState(A, neg, s) /\ s \cup Among(p, x, j - 1) # {}
          BY <4>2, <5>3, Zenon
        <5>5. Scanned(p, j) = Plain(Append(A, Class(neg, s \cup Among(p, x, j - 1))))
          <6>1. j \in x + 1 .. Len(p) /\ \A m \in x + 1 .. j - 1 : Ordinary(p[m])
            BY <5>3
          <6>2. QED
            BY <5>1, <5>4, <6>1, ScanClose
        <5>6. QED
          BY <5>3, <5>5, Zenon
      <4>4. QED
        BY <4>1, <4>3, Zenon
    <3>5. QED
      BY <2>5, <3>4
  <2>7. Denotes(Class(FALSE, set), a)
    BY <1>5, <1>7, <2>4, DenotesClass
  <2>8. QED
    BY <1>5, <2>6, <2>7
<1>8. QED
  BY <1>6, <1>7

\* Any part is one atom, which denotes it.
LEMMA ScanPart ==
    ASSUME NEW p \in Text, NEW i \in 0 .. Len(p), NEW j \in 0 .. Len(p), i < j,
           NEW A \in Seq(Atom), Scanned(p, i) = Plain(A), IsPart(Piece(p, i, j))
    PROVE  \E atom : Denotes(atom, Piece(p, i, j)) /\ Scanned(p, j) = Plain(Append(A, atom))
<1>1. Single(Piece(p, i, j)) \/ Escaped2(Piece(p, i, j)) \/ ClosedClass(Piece(p, i, j))
  BY PartShapes, Zenon
<1>2. QED
  BY <1>1, ScanSingle, ScanEscaped, ScanClass, Zenon DEF Text

-----------------------------------------------------------------------------
(* Wildmat: along the cut.  The places the expression reaches in the text  *)
(* after i characters of the pattern (Ends) are those where some way of    *)
(* cutting the text ends (Path).                                           *)

\* Induction along the places where a pattern is cut.
LEMMA CutInduction ==
    ASSUME NEW n \in Nat, NEW S \in SUBSET (0 .. n), NEW X \in SUBSET S, 0 \in X,
           \A i \in X : \A j \in S : Neighbours(S, i, j) => j \in X
    PROVE  X = S
<1>1. SUFFICES ASSUME S \ X # {} PROVE FALSE
  OBVIOUS
<1>2. PICK j \in S \ X : \A k \in S \ X : j <= k
  <2>1. S \ X \subseteq Nat
    OBVIOUS
  <2>2. QED
    BY <1>1, <2>1, Least
<1> DEFINE L == {j - k : k \in {m \in S : m < j}}
<1>3. L \subseteq Nat /\ L # {}
  <2>1. 0 \in S /\ 0 < j
    BY <1>2
  <2>2. QED
    BY <2>1
<1>4. PICK d \in L : \A e \in L : d <= e
  <2> HIDE DEF L
  <2>1. QED
    BY <1>3, Least
<1>5. PICK i \in S : i < j /\ d = j - i
  BY <1>4
<1>6. Neighbours(S, i, j)
  <2>1. ASSUME NEW k \in S, k < j PROVE k <= i
    <3>1. j - k \in L
      BY <2>1
    <3>2. j - i <= j - k
      BY <1>4, <1>5, <3>1
    <3>3. i \in Nat /\ j \in Nat /\ k \in Nat
      OBVIOUS
    <3> HIDE DEF L
    <3>4. QED
      BY <3>2, <3>3
  <2>2. \A k \in S : k < j \/ j <= k
    OBVIOUS
  <2> HIDE DEF L
  <2>3. QED
    BY <1>5, <2>1, <2>2 DEF Neighbours
<1>7. i \in X
  <2>1. ~(j <= i)
    BY <1>5
  <2>2. QED
    BY <1>2, <2>1
<1>8. QED
  BY <1>2, <1>6, <1>7

LEMMA MatchingStep ==
    ASSUME NEW t \in Text
    PROVE  IsStep(Matching(t), SUBSET (0 .. Len(t)), Atom)
  BY DEF IsStep, Matching

LEMMA MatchingApplied ==
    ASSUME NEW t \in Text, NEW from \in SUBSET (0 .. Len(t)), NEW atom \in Atom
    PROVE  Applied(Matching(t), from, atom) = {j \in 0 .. Len(t) : \E i \in from : Takes(atom, t, i, j)}
  BY DEF Applied, Matching

\* The places in t that the atoms reach.
Reached(t, A) == Loop(Matching(t), {0}, A)

LEMMA ReachedNone ==
    ASSUME NEW t \in Text
    PROVE  Reached(t, <<>>) = {0}
<1>1. {0} \in SUBSET (0 .. Len(t))
  OBVIOUS
<1>2. PICK V, z : V = SUBSET (0 .. Len(t)) /\ z = {0}
  OBVIOUS
<1>3. z \in V /\ IsStep(Matching(t), V, Atom)
  BY <1>1, <1>2, MatchingStep, Zenon
<1>4. Loop(Matching(t), z, <<>>) = z
  BY <1>3, LoopEmpty
<1>5. QED
  BY <1>2, <1>4, Zenon DEF Reached

\* With one atom more, the places that it takes them to.
LEMMA ReachedNext ==
    ASSUME NEW t \in Text, NEW A \in Seq(Atom), NEW atom \in Atom
    PROVE  /\ Reached(t, A) \in SUBSET (0 .. Len(t))
           /\ \A y : y \in Reached(t, Append(A, atom))
                       <=> y \in 0 .. Len(t) /\ \E x \in Reached(t, A) : Takes(atom, t, x, y)
<1>1. {0} \in SUBSET (0 .. Len(t))
  OBVIOUS
<1>2. PICK V, z : V = SUBSET (0 .. Len(t)) /\ z = {0}
  OBVIOUS
<1>3. z \in V /\ IsStep(Matching(t), V, Atom) /\ V = SUBSET (0 .. Len(t)) /\ z = {0}
  BY <1>1, <1>2, MatchingStep, Zenon
<1>4. /\ Loop(Matching(t), z, A) \in V
      /\ Loop(Matching(t), z, Append(A, atom)) = Applied(Matching(t), Loop(Matching(t), z, A), atom)
  <2>1. z \in V /\ IsStep(Matching(t), V, Atom)
    BY <1>3
  <2>2. QED
    BY <2>1, LoopAppend
<1>5. PICK from \in SUBSET (0 .. Len(t)) : from = Reached(t, A)
  BY <1>3, <1>4, Zenon DEF Reached
<1>6. Reached(t, Append(A, atom)) = Applied(Matching(t), from, atom)
  BY <1>3, <1>4, <1>5, Zenon DEF Reached
<1>7. Reached(t, Append(A, atom)) = {j \in 0 .. Len(t) : \E i \in from : Takes(atom, t, i, j)}
  BY <1>6, MatchingApplied, Zenon
<1>8. QED
  BY <1>5, <1>7, Zenon

\* The scanner stands between two parts, and what it has is valid.
Between(p, i, A) ==
    A \in Seq(Atom) /\ Scanned(p, i) = Plain(A) /\ \A k \in 1 .. Len(A) : A[k] # Invalid

LEMMA CutFacts ==
    ASSUME NEW p \in Text, NEW S \in Cuts(p)
    PROVE  /\ Len(p) \in Nat /\ S \in SUBSET (0 .. Len(p)) /\ 0 \in S /\ Len(p) \in S
           /\ \A i, j \in S : Neighbours(S, i, j) => i < j /\ IsPart(Piece(p, i, j))
<1>1. Len(p) \in Nat
  OBVIOUS
<1>2. QED
  BY <1>1, Zenon DEF Cuts, Piece, Neighbours

LEMMA PlainOnce ==
    ASSUME NEW A, NEW B, Plain(A) = Plain(B)
    PROVE  A = B
<1>1. Plain(A).atoms = A /\ Plain(B).atoms = B
  BY DEF Plain
<1>2. QED
  BY <1>1, Zenon

\* One part of the pattern is one atom.
LEMMA NextCut ==
    ASSUME NEW p \in Text, NEW S \in Cuts(p), NEW i \in S, NEW j \in S, Neighbours(S, i, j),
           NEW A, Between(p, i, A)
    PROVE  \E atom : Denotes(atom, Piece(p, i, j)) /\ Between(p, j, Append(A, atom))
<1>1. i \in 0 .. Len(p) /\ j \in 0 .. Len(p) /\ i < j /\ IsPart(Piece(p, i, j))
  <2>1. S \in SUBSET (0 .. Len(p)) /\ i < j /\ IsPart(Piece(p, i, j))
    BY CutFacts, Zenon
  <2>2. QED
    BY <2>1
<1>2. A \in Seq(Atom) /\ Scanned(p, i) = Plain(A) /\ \A k \in 1 .. Len(A) : A[k] # Invalid
  BY DEF Between
<1>3. PICK atom : Denotes(atom, Piece(p, i, j)) /\ Scanned(p, j) = Plain(Append(A, atom))
  BY <1>1, <1>2, ScanPart, Zenon
<1>4. atom \in Atom /\ atom # Invalid
  BY <1>3, Zenon DEF Denotes
<1>5. PICK B : B = Append(A, atom)
  OBVIOUS
<1>6. B \in Seq(Atom) /\ \A k \in 1 .. Len(B) : B[k] # Invalid
  <2>1. B \in Seq(Atom) /\ Len(B) = Len(A) + 1 /\ B[Len(A) + 1] = atom /\ \A k \in 1 .. Len(A) : B[k] = A[k]
    BY <1>2, <1>4, <1>5
  <2>2. Len(A) \in Nat
    BY <1>2
  <2>3. \A k \in 1 .. Len(B) : k \in 1 .. Len(A) \/ k = Len(A) + 1
    BY <2>1, <2>2
  <2>4. QED
    BY <1>2, <1>4, <2>1, <2>3, Zenon
<1>7. Between(p, j, B)
  BY <1>3, <1>5, <1>6, Zenon DEF Between
<1>8. QED
  BY <1>3, <1>5, <1>7, Zenon

\* At every cut the scanner stands between two parts.
LEMMA AllBetween ==
    ASSUME NEW p \in Text, NEW S \in Cuts(p)
    PROVE  \A i \in S : \E A : Between(p, i, A)
<1> DEFINE X == {i \in S : \E A : Between(p, i, A)}
<1>1. 0 \in X
  <2>1. 0 \in S
    BY CutFacts
  <2>2. PICK e : e = <<>>
    OBVIOUS
  <2>3. e \in Seq(Atom) /\ \A k \in 1 .. Len(e) : e[k] # Invalid
    BY <2>2
  <2>4. Between(p, 0, e)
    BY <2>2, <2>3, ScannedNone, Zenon DEF Between
  <2>5. QED
    BY <2>1, <2>4, Zenon
<1>2. ASSUME NEW i \in X, NEW j \in S, Neighbours(S, i, j) PROVE j \in X
  <2>1. PICK A : Between(p, i, A)
    OBVIOUS
  <2>2. i \in S
    OBVIOUS
  <2>3. \E B : Between(p, j, B)
    BY <1>2, <2>1, <2>2, NextCut, Zenon
  <2>4. QED
    BY <2>3
<1>3. X \in SUBSET S
  OBVIOUS
<1>4. X = S
  <2> HIDE DEF X
  <2>1. Len(p) \in Nat /\ S \in SUBSET (0 .. Len(p))
    BY CutFacts
  <2>2. QED
    BY <1>1, <1>2, <1>3, <2>1, CutInduction
<1>5. QED
  BY <1>4, Zenon

\* The places in t where the text of the parts up to i can end.
Ends(p, t, i) == Reached(t, Scanned(p, i).atoms)

LEMMA EndsAre ==
    ASSUME NEW p \in Text, NEW t \in Text, NEW i, NEW A, Between(p, i, A)
    PROVE  Ends(p, t, i) = Reached(t, A)
<1>1. Plain(A).atoms = A
  BY DEF Plain
<1>2. QED
  BY <1>1, Zenon DEF Between, Ends

\* How the ends of neighbours are related.
LEMMA EndsNext ==
    ASSUME NEW p \in Text, NEW t \in Text, t \in OneLine, NEW S \in Cuts(p), NEW i \in S, NEW j \in S, Neighbours(S, i, j)
    PROVE  /\ Ends(p, t, i) \in SUBSET (0 .. Len(t))
           /\ \A y : y \in Ends(p, t, j)
                       <=> y \in 0 .. Len(t)
                           /\ \E x \in Ends(p, t, i) : x <= y /\ Stands(Piece(p, i, j), Piece(t, x, y))
<1>1. PICK A : Between(p, i, A)
  BY AllBetween, Zenon
<1>2. PICK atom : Denotes(atom, Piece(p, i, j)) /\ Between(p, j, Append(A, atom))
  BY <1>1, NextCut, Zenon
<1>3. Ends(p, t, i) = Reached(t, A) /\ Ends(p, t, j) = Reached(t, Append(A, atom))
  BY <1>1, <1>2, EndsAre, ZenonT(30) DEF Text
<1>4. A \in Seq(Atom) /\ atom \in Atom
  BY <1>1, <1>2, Zenon DEF Between, Denotes
<1>5. /\ Reached(t, A) \in SUBSET (0 .. Len(t))
      /\ \A y : y \in Reached(t, Append(A, atom))
                  <=> y \in 0 .. Len(t) /\ \E x \in Reached(t, A) : Takes(atom, t, x, y)
  BY <1>4, ReachedNext, Zenon DEF Text
<1>6. \A x, y \in 0 .. Len(t) : Takes(atom, t, x, y) <=> x <= y /\ Stands(Piece(p, i, j), Piece(t, x, y))
  BY <1>2, Zenon DEF Denotes, Text
<1>7. QED
  BY <1>3, <1>5, <1>6, Zenon

LEMMA EndsNone ==
    ASSUME NEW p \in Text, NEW t \in Text
    PROVE  \A y : y \in Ends(p, t, 0) <=> y = 0
<1>1. Plain(<<>>).atoms = <<>>
  BY DEF Plain
<1>2. Ends(p, t, 0) = {0}
  BY <1>1, ScannedNone, ReachedNone, Zenon DEF Ends, Text
<1>3. QED
  BY <1>2

Linked(p, t, at, k, l) == at[k] <= at[l] /\ Stands(Piece(p, k, l), Piece(t, at[k], at[l]))

\* A way of cutting t as p is cut, up to i.
Path(p, t, S, at, i) ==
    /\ at \in [S -> 0 .. Len(t)] /\ at[0] = 0
    /\ \A k, l \in S : l <= i /\ Neighbours(S, k, l) => Linked(p, t, at, k, l)

LEMMA PathEnds ==
    ASSUME NEW p \in Text, NEW t \in Text, t \in OneLine, NEW S \in Cuts(p), NEW at, Path(p, t, S, at, Len(p))
    PROVE  \A i \in S : at[i] \in Ends(p, t, i)
<1> DEFINE X == {i \in S : at[i] \in Ends(p, t, i)}
<1>1. Len(p) \in Nat /\ S \in SUBSET (0 .. Len(p)) /\ 0 \in S
  BY CutFacts
<1>2. 0 \in X
  <2>1. at[0] = 0
    BY Zenon DEF Path
  <2>2. at[0] \in Ends(p, t, 0)
    BY <2>1, EndsNone, Zenon DEF Text
  <2>3. QED
    BY <1>1, <2>2
<1>3. ASSUME NEW i \in X, NEW j \in S, Neighbours(S, i, j) PROVE j \in X
  <2>1. i \in S /\ at[i] \in Ends(p, t, i)
    OBVIOUS
  <2>2. j <= Len(p)
    BY <1>1
  <2>3. Linked(p, t, at, i, j)
    BY <1>3, <2>1, <2>2, Zenon DEF Path
  <2>4. at[j] \in 0 .. Len(t)
    BY DEF Path
  <2>5. at[j] \in Ends(p, t, j)
    BY <1>3, <2>1, <2>3, <2>4, EndsNext, Zenon DEF Linked, Text
  <2>6. QED
    BY <2>5
<1>4. X \in SUBSET S
  OBVIOUS
<1>5. X = S
  <2> HIDE DEF X
  <2>1. QED
    BY <1>1, <1>2, <1>3, <1>4, CutInduction
<1>6. QED
  BY <1>5, Zenon

LEMMA OneNeighbour ==
    ASSUME NEW n \in Nat, NEW S \in SUBSET (0 .. n), NEW i \in S, NEW j \in S, Neighbours(S, i, j)
    PROVE  \A k, l \in S : Neighbours(S, k, l) /\ l <= j => (k = i /\ l = j) \/ (l <= i /\ k < l)
<1>1. i \in Nat /\ j \in Nat /\ i < j
  BY DEF Neighbours
<1>2. ASSUME NEW k \in S, NEW l \in S, Neighbours(S, k, l), l <= j
      PROVE (k = i /\ l = j) \/ (l <= i /\ k < l)
  <2>1. k \in Nat /\ l \in Nat /\ k < l
    BY <1>2 DEF Neighbours
  <2>2. l <= i \/ j <= l
    BY DEF Neighbours
  <2>3. k <= i \/ j <= k
    BY DEF Neighbours
  <2>4. i <= k \/ l <= i
    BY <1>2 DEF Neighbours
  <2>5. QED
    BY <1>1, <1>2, <2>1, <2>2, <2>3, <2>4
<1>3. QED
  BY <1>2

LEMMA PathNext ==
    ASSUME NEW p \in Text, NEW t \in Text, NEW S \in Cuts(p), NEW i \in S, NEW j \in S, Neighbours(S, i, j),
           NEW at, Path(p, t, S, at, i), NEW y \in 0 .. Len(t), at[i] <= y,
           Stands(Piece(p, i, j), Piece(t, at[i], y))
    PROVE  \E new : Path(p, t, S, new, j) /\ new[j] = y
<1>1. Len(p) \in Nat /\ S \in SUBSET (0 .. Len(p)) /\ 0 \in S
  BY CutFacts
<1>2. at \in [S -> 0 .. Len(t)] /\ at[0] = 0
  BY Zenon DEF Path
<1>3. PICK new : new = [at EXCEPT ![j] = y]
  OBVIOUS
<1>4. new \in [S -> 0 .. Len(t)] /\ new[j] = y /\ \A k \in S : k # j => new[k] = at[k]
  BY <1>2, <1>3
<1>5. i \in Nat /\ j \in Nat /\ i < j /\ 0 # j /\ i # j
  BY <1>1 DEF Neighbours
<1>6. new[0] = 0
  BY <1>1, <1>2, <1>4, <1>5
<1>7. ASSUME NEW k \in S, NEW l \in S, l <= j, Neighbours(S, k, l) PROVE Linked(p, t, new, k, l)
  <2>1. (k = i /\ l = j) \/ (l <= i /\ k < l)
    BY <1>1, <1>7, OneNeighbour
  <2>2. CASE k = i /\ l = j
    <3>1. new[i] = at[i]
      BY <1>4, <1>5
    <3>2. QED
      BY <1>4, <2>2, <3>1, Zenon DEF Linked
  <2>3. CASE l <= i /\ k < l
    <3>1. k # j /\ l # j
      BY <1>1, <1>5, <2>3
    <3>2. new[k] = at[k] /\ new[l] = at[l]
      BY <1>4, <3>1
    <3>3. Linked(p, t, at, k, l)
      BY <1>7, <2>3, Zenon DEF Path
    <3>4. QED
      BY <3>2, <3>3, Zenon DEF Linked
  <2>4. QED
    BY <2>1, <2>2, <2>3
<1>8. Path(p, t, S, new, j)
  BY <1>4, <1>6, <1>7, Zenon DEF Path
<1>9. QED
  BY <1>4, <1>8, Zenon

\* The ends are the ends of the paths.
LEMMA EndsPath ==
    ASSUME NEW p \in Text, NEW t \in Text, t \in OneLine, NEW S \in Cuts(p)
    PROVE  \A i \in S : \A y \in Ends(p, t, i) : \E at : Path(p, t, S, at, i) /\ at[i] = y
<1> DEFINE P(i) == \A y \in Ends(p, t, i) : \E at : Path(p, t, S, at, i) /\ at[i] = y
           X == {i \in S : P(i)}
<1>1. Len(p) \in Nat /\ S \in SUBSET (0 .. Len(p)) /\ 0 \in S
  BY CutFacts
<1>2. P(0)
  <2>1. PICK at : at = [i \in S |-> 0]
    OBVIOUS
  <2>2. at \in [S -> 0 .. Len(t)] /\ at[0] = 0
    BY <1>1, <2>1
  <2>3. \A k, l \in S : l <= 0 /\ Neighbours(S, k, l) => FALSE
    BY <1>1 DEF Neighbours
  <2>4. Path(p, t, S, at, 0)
    BY <2>2, <2>3, Zenon DEF Path
  <2>5. QED
    BY <2>2, <2>4, EndsNone, Zenon DEF Text
<1>3. ASSUME NEW i \in S, P(i), NEW j \in S, Neighbours(S, i, j) PROVE P(j)
  <2>1. SUFFICES ASSUME NEW y \in Ends(p, t, j) PROVE \E at : Path(p, t, S, at, j) /\ at[j] = y
    OBVIOUS
  <2>2. /\ y \in 0 .. Len(t)
        /\ \E x \in Ends(p, t, i) : x <= y /\ Stands(Piece(p, i, j), Piece(t, x, y))
    <3>1. Neighbours(S, i, j)
      BY <1>3
    <3>2. \A z : z \in Ends(p, t, j)
                   => z \in 0 .. Len(t)
                      /\ \E x \in Ends(p, t, i) : x <= z /\ Stands(Piece(p, i, j), Piece(t, x, z))
      BY <3>1, EndsNext
    <3>3. QED
      BY <2>1, <3>2, Zenon
  <2>3. PICK x \in Ends(p, t, i) : x <= y /\ Stands(Piece(p, i, j), Piece(t, x, y))
    BY <2>2, Zenon
  <2>4. PICK at : Path(p, t, S, at, i) /\ at[i] = x
    BY <1>3, <2>3, Zenon
  <2>5. at[i] <= y /\ Stands(Piece(p, i, j), Piece(t, at[i], y))
    BY <2>3, <2>4, Zenon
  <2>6. QED
    <3>1. Neighbours(S, i, j) /\ Path(p, t, S, at, i) /\ y \in 0 .. Len(t)
      BY <1>3, <2>2, <2>4
    <3>2. QED
      BY <2>5, <3>1, PathNext
<1> HIDE DEF P
<1>4. X = S
  <2>1. X \in SUBSET S /\ 0 \in X /\ \A i \in X : \A j \in S : Neighbours(S, i, j) => j \in X
    BY <1>1, <1>2, <1>3
  <2> HIDE DEF X
  <2>2. QED
    BY <1>1, <2>1, CutInduction
<1>5. QED
  BY <1>4, Zenon DEF P

LEMMA WholePattern ==
    ASSUME NEW p \in Text, NEW A, Between(p, Len(p), A)
    PROVE  PatternToRegex(p) = Append(A, End)
<1>1. Len(Peeked(p)) = Len(p) /\ Peeked(p) \in Seq(Peek)
  BY PeekedType
<1>2. SubSeq(Peeked(p), 1, Len(p)) = Peeked(p)
  BY <1>1, SubSeqFull
<1>3. Loop(Translating, Start, Peeked(p)) = Plain(A)
  BY <1>2, Zenon DEF Between, Scanned
<1>4. Plain(A).mode = "plain" /\ Plain(A).atoms = A
  BY DEF Plain
<1>5. QED
  BY <1>3, <1>4, Zenon DEF PatternToRegex

\* A match of the whole pattern ends where the text does.
LEMMA RunsWhole ==
    ASSUME NEW p \in Text, NEW t \in Text, NEW A, Between(p, Len(p), A)
    PROVE  wildmat(p, t) <=> Len(t) \in Ends(p, t, Len(p))
<1>1. A \in Seq(Atom) /\ \A k \in 1 .. Len(A) : A[k] # Invalid
  BY Zenon DEF Between
<1>2. End \in Atom /\ End # Invalid
  BY AtomTypes, AtomKinds
<1>3. PICK r : r = Append(A, End)
  OBVIOUS
<1>4. Expression(p) = r
  BY <1>3, WholePattern, Zenon DEF Expression, Text
<1>5. Invalid \notin Chars(r)
  <2>1. /\ DOMAIN r = 1 .. Len(A) + 1 /\ r[Len(A) + 1] = End /\ Len(A) \in Nat
        /\ \A k \in 1 .. Len(A) : r[k] = A[k]
    BY <1>1, <1>2, <1>3
  <2>2. \A k \in 1 .. Len(A) + 1 : k \in 1 .. Len(A) \/ k = Len(A) + 1
    BY <2>1
  <2>3. \A k \in DOMAIN r : r[k] # Invalid
    BY <1>1, <1>2, <2>1, <2>2, Zenon
  <2>4. QED
    BY <2>3, Zenon DEF Chars
<1>6. /\ Reached(t, A) \in SUBSET (0 .. Len(t))
      /\ \A y : y \in Reached(t, r)
                  <=> y \in 0 .. Len(t) /\ \E x \in Reached(t, A) : Takes(End, t, x, y)
  BY <1>1, <1>2, <1>3, ReachedNext, Zenon DEF Text
<1>7. \A x, y : Takes(End, t, x, y) <=> x = Len(t) /\ y = x
  BY TakesOne, Zenon
<1>8. Len(t) \in 0 .. Len(t)
  OBVIOUS
<1>9. Reached(t, r) # {} <=> Len(t) \in Reached(t, A)
  <2>1. \A y : y \in Reached(t, r) <=> y = Len(t) /\ Len(t) \in Reached(t, A)
    <3>1. ASSUME NEW y \in Reached(t, r) PROVE y = Len(t) /\ Len(t) \in Reached(t, A)
      <4>1. PICK x \in Reached(t, A) : Takes(End, t, x, y)
        BY <1>6, Zenon
      <4>2. QED
        BY <1>7, <4>1, Zenon
    <3>2. ASSUME Len(t) \in Reached(t, A) PROVE Len(t) \in Reached(t, r)
      BY <1>6, <1>7, <1>8, <3>2, Zenon
    <3>3. QED
      BY <3>1, <3>2, Zenon
  <2>2. QED
    BY <2>1, Zenon
<1>10. IsMatch(r, t) <=> Len(t) \in Ends(p, t, Len(p))
  <2>1. Ends(p, t, Len(p)) = Reached(t, A)
    BY EndsAre
  <2>2. QED
    BY <1>9, <2>1, Zenon DEF IsMatch, Reached
<1>11. QED
  BY <1>4, <1>5, <1>10, Zenon DEF wildmat

LEMMA PathIsMatch ==
    ASSUME NEW p \in Text, NEW t \in Text, NEW S \in Cuts(p), NEW at
    PROVE  Path(p, t, S, at, Len(p)) <=>
             /\ at \in [S -> 0 .. Len(t)] /\ at[0] = 0
             /\ \A i, j \in S : Neighbours(S, i, j) =>
                   at[i] <= at[j] /\ Stands(SubSeq(p, i + 1, j), SubSeq(t, at[i] + 1, at[j]))
<1>1. S \in SUBSET (0 .. Len(p))
  BY CutFacts
<1>2. \A l \in S : l <= Len(p)
  BY <1>1
<1>3. QED
  BY <1>2, Zenon DEF Path, Linked, Piece

\* A path through the whole pattern is what Matches asks for.
LEMMA MatchesIs ==
    ASSUME NEW p \in Text, NEW t \in Text
    PROVE  Matches(p, t) <=>
             \E S \in Cuts(p) : \E at : Path(p, t, S, at, Len(p)) /\ at[Len(p)] = Len(t)
  BY PathIsMatch, Zenon DEF Matches, Text

(***************************************************************************)
(* pattern_to_regex of wildmat.rs and the regex crate together, for any    *)
(* text on one line: a pattern of whole parts, without the operators of    *)
(* the crate in a class, matches it exactly when it can be cut into what   *)
(* the parts stand for.                                                    *)
(***************************************************************************)
THEOREM WildmatExact ==
    ASSUME NEW p \in Text, WellFormed(p), NEW t \in OneLine
    PROVE  wildmat(p, t) = Matches(p, t)
<1>0. t \in Text
  BY Zenon DEF OneLine
<1>1. PICK S \in Cuts(p) : TRUE
  BY DEF WellFormed
<1>2. Len(p) \in S
  BY CutFacts
<1>3. PICK A : Between(p, Len(p), A)
  BY <1>2, AllBetween, Zenon DEF Text
<1>4. wildmat(p, t) <=> Len(t) \in Ends(p, t, Len(p))
  BY <1>0, <1>3, RunsWhole, Zenon DEF Text
<1>5. ASSUME Len(t) \in Ends(p, t, Len(p)) PROVE Matches(p, t)
  <2>1. PICK at : Path(p, t, S, at, Len(p)) /\ at[Len(p)] = Len(t)
    <3>1. \A i \in S : \A y \in Ends(p, t, i) : \E at : Path(p, t, S, at, i) /\ at[i] = y
      BY <1>0, EndsPath
    <3>2. QED
      BY <1>2, <1>5, <3>1, Zenon
  <2>2. QED
    BY <1>0, <2>1, MatchesIs, Zenon DEF Text
<1>6. ASSUME Matches(p, t) PROVE Len(t) \in Ends(p, t, Len(p))
  <2>1. PICK Z \in Cuts(p) : \E at : Path(p, t, Z, at, Len(p)) /\ at[Len(p)] = Len(t)
    BY <1>0, <1>6, MatchesIs, Zenon DEF Text
  <2>2. PICK at : Path(p, t, Z, at, Len(p)) /\ at[Len(p)] = Len(t)
    BY <2>1, Zenon
  <2>3. Len(p) \in Z
    BY CutFacts
  <2>4. at[Len(p)] \in Ends(p, t, Len(p))
    BY <1>0, <2>2, <2>3, PathEnds, Zenon DEF Text
  <2>5. QED
    BY <2>2, <2>4, Zenon
<1>7. wildmat(p, t) <=> Matches(p, t)
  BY <1>4, <1>5, <1>6
<1>8. wildmat(p, t) \in BOOLEAN /\ Matches(p, t) \in BOOLEAN
  BY Zenon DEF wildmat, Matches
<1>9. QED
  BY <1>7, <1>8

LEMMA SmallTextsAre == SmallTexts \subseteq OneLine
<1>1. {"a", "]"} \subseteq Char \ {LF}
  BY CharAssumption DEF KnownChars, LF
<1>2. ASSUME NEW C \in SUBSET (Char \ {LF}), NEW n \in 0 .. 3 PROVE [1 .. n -> C] \subseteq OneLine
  <2>1. ASSUME NEW t \in [1 .. n -> C] PROVE t \in Text /\ Len(t) = n /\ \A i \in 1 .. n : t[i] # LF
    OBVIOUS
  <2>2. QED
    BY <2>1, Zenon DEF OneLine
<1>3. QED
  BY <1>1, <1>2, Zenon DEF SmallTexts

(***************************************************************************)
(* wildmat on the patterns of the run, at any length: the regular          *)
(* expression means what the pattern does.                                 *)
(***************************************************************************)
THEOREM PatternsMean == TextSpec => []WildmatMeans
<1>1. InputType => WildmatMeans
  <2>1. ASSUME InputType, kind = "pattern", WellFormed(input), NEW t \in SmallTexts
        PROVE  wildmat(input, t) = Matches(input, t)
    <3>1. input \in Text
      BY <2>1 DEF InputType
    <3>2. t \in OneLine
      BY SmallTextsAre
    <3>3. QED
      BY <2>1, <3>1, <3>2, WildmatExact
  <2>2. QED
    BY <2>1, Zenon DEF WildmatMeans
<1>2. QED
  BY <1>1, InputTyped, PTL

-----------------------------------------------------------------------------
(* Loops that collect, and loops over pieces.                              *)

\* What every step keeps, a loop keeps.
LEMMA LoopKeeps ==
    ASSUME NEW V, NEW C, NEW G, IsStep(G, V, C), NEW X \in SUBSET V, NEW a \in X,
           \A v \in X : \A c \in C : Applied(G, v, c) \in X, NEW s \in Seq(C)
    PROVE  Loop(G, a, s) \in X
<1> DEFINE Y == {u \in Seq(C) : Loop(G, a, u) \in X}
<1>1. a \in V
  OBVIOUS
<1>2. <<>> \in Y
  <2>1. Loop(G, a, <<>>) = a
    BY <1>1, LoopEmpty
  <2>2. QED
    BY <2>1
<1>3. ASSUME NEW u \in Y, NEW c \in C PROVE Append(u, c) \in Y
  <2>1. u \in Seq(C) /\ Append(u, c) \in Seq(C)
    OBVIOUS
  <2>2. Loop(G, a, Append(u, c)) = Applied(G, Loop(G, a, u), c)
    BY <1>1, <2>1, LoopAppend
  <2>3. QED
    BY <2>1, <2>2
<1>4. Y \in SUBSET Seq(C)
  OBVIOUS
<1>5. Y = Seq(C)
  <2> HIDE DEF Y
  <2>1. QED
    BY <1>2, <1>3, <1>4, SeqInduction
<1>6. QED
  BY <1>5

\* A loop that collects the characters of D as they come.
Val(F, x) == F[x]
IsMap(F, X, V) == F \in [X -> V]
Collects(G, F, C, D) == \A b \in Seq(C) : \A c \in D : Applied(G, F[b], c) = F[Append(b, c)]

\* It gathers a text of such characters as a whole.
LEMMA LoopCollects ==
    ASSUME NEW V, NEW C, NEW G, IsStep(G, V, C), NEW D \in SUBSET C, NEW F, IsMap(F, Seq(C), V),
           Collects(G, F, C, D),
           NEW o \in Seq(C), NEW s \in Seq(D)
    PROVE  Loop(G, Val(F, o), s) = Val(F, o \o s)
<1> DEFINE P(u) == Loop(G, F[o], u) = F[o \o u]
           X == {u \in Seq(D) : P(u)}
<1>1. F[o] \in V /\ Seq(D) \subseteq Seq(C)
  BY SeqMonotonic DEF IsMap
<1>2. P(<<>>)
  <2>1. o \o <<>> = o
    OBVIOUS
  <2>2. Loop(G, F[o], <<>>) = F[o]
    BY <1>1, LoopEmpty
  <2>3. QED
    BY <2>1, <2>2, Zenon
<1>3. ASSUME NEW u \in Seq(D), P(u), NEW c \in D PROVE P(Append(u, c))
  <2>1. u \in Seq(C) /\ c \in C
    BY <1>1
  <2>2. o \o u \in Seq(C) /\ o \o Append(u, c) = Append(o \o u, c)
    BY <2>1
  <2>3. Loop(G, F[o], Append(u, c)) = Applied(G, Loop(G, F[o], u), c)
    BY <1>1, <2>1, LoopAppend
  <2>4. Applied(G, F[o \o u], c) = F[Append(o \o u, c)]
    BY <2>2, Zenon DEF Collects
  <2>5. QED
    BY <1>3, <2>2, <2>3, <2>4, Zenon
<1> HIDE DEF P
<1>4. X \in SUBSET Seq(D) /\ <<>> \in X /\ \A u \in X : \A c \in D : Append(u, c) \in X
  BY <1>2, <1>3
<1>5. X = Seq(D)
  <2> HIDE DEF X
  <2>1. QED
    BY <1>4, SeqInduction
<1>6. P(s)
  BY <1>5
<1>7. QED
  BY <1>6, Zenon DEF P, Val

LEMMA Triple ==
    ASSUME NEW C, NEW a \in C, NEW b \in C, NEW c \in C
    PROVE  Append(<<a, b>>, c) = <<a, b, c>>
<1>1. PICK s \in Seq(C) : s = <<a, b>> /\ Len(s) = 2 /\ s[1] = a /\ s[2] = b
  <2>1. <<a, b>> \in Seq(C)
    OBVIOUS
  <2>2. QED
    BY <2>1
<1>2. PICK t \in Seq(C) : t = <<a, b, c>> /\ Len(t) = 3 /\ t[1] = a /\ t[2] = b /\ t[3] = c
  <2>1. <<a, b, c>> \in Seq(C)
    OBVIOUS
  <2>2. QED
    BY <2>1
<1>3. PICK r \in Seq(C) : r = Append(s, c) /\ Len(r) = 3 /\ r[1] = a /\ r[2] = b /\ r[3] = c
  <2>1. Append(s, c) \in Seq(C) /\ Len(Append(s, c)) = 3 /\ Append(s, c)[3] = c
        /\ Append(s, c)[1] = s[1] /\ Append(s, c)[2] = s[2]
    <3>1. Len(s) = 2
      BY <1>1
    <3>2. /\ Append(s, c) \in Seq(C) /\ Len(Append(s, c)) = Len(s) + 1 /\ Append(s, c)[Len(s) + 1] = c
          /\ \A i \in 1 .. Len(s) : Append(s, c)[i] = s[i]
      BY OneMore
    <3>3. 1 \in 1 .. Len(s) /\ 2 \in 1 .. Len(s) /\ Len(s) + 1 = 3
      BY <3>1
    <3>4. QED
      BY <3>2, <3>3, Zenon
  <2>2. QED
    BY <1>1, <2>1, Zenon
<1>4. \A i \in 1 .. 3 : r[i] = t[i]
  <2>1. \A i \in 1 .. 3 : i = 1 \/ i = 2 \/ i = 3
    OBVIOUS
  <2>2. QED
    BY <1>2, <1>3, <2>1, Zenon
<1>5. r = t
  BY <1>2, <1>3, <1>4, SameText
<1>6. QED
  BY <1>1, <1>2, <1>3, <1>5, Zenon

LEMMA OneLonger ==
    ASSUME NEW C, NEW s \in Seq(C), NEW k \in 1 .. Len(s)
    PROVE  /\ SubSeq(s, 1, k - 1) \in Seq(C) /\ s[k] \in C
           /\ SubSeq(s, 1, k) = Append(SubSeq(s, 1, k - 1), s[k])
<1>1. PICK n \in Nat : n = Len(s)
  OBVIOUS
<1>2. PICK a \in Seq(C) : a = SubSeq(s, 1, k - 1)
  <2>1. 1 \in 1 .. n + 1 /\ k - 1 \in 0 .. n /\ k - 1 \in Nat /\ k - 1 = (k - 1) - 1 + 1
    BY <1>1
  <2>2. SubSeq(s, 1, k - 1) \in Seq(C)
    BY <1>1, <2>1, Segment
  <2>3. QED
    BY <2>2, Zenon
<1>3. 1 \in 1 .. Len(s) /\ k \in 1 .. Len(s) /\ s[k] \in C
  OBVIOUS
<1>4. SubSeq(s, 1, k) = a \o <<s[k]>>
  BY <1>2, <1>3, SubSeqRecursiveSecond
<1>5. a \o <<s[k]>> = Append(a, s[k])
  BY <1>3
<1>6. QED
  BY <1>2, <1>3, <1>4, <1>5

LEMMA NoneOf ==
    ASSUME NEW s
    PROVE  SubSeq(s, 1, 0) = <<>>
  BY SubSeqEmpty

LEMMA AllOf ==
    ASSUME NEW C, NEW s \in Seq(C)
    PROVE  SubSeq(s, 1, Len(s)) = s
  BY SubSeqFull

\* A loop over pieces, stage by stage.
Stages(G, f, ws) == \A k \in 1 .. Len(ws) : Loop(G, f[k - 1], ws[k]) = f[k]

\* A loop over joined pieces, each of which takes f one stage further.
LEMMA LoopStages ==
    ASSUME NEW V, NEW G, IsStep(G, V, Char), NEW ws \in Seq(Text), NEW n \in Nat, n = Len(ws),
           NEW f, IsMap(f, 0 .. n, V), Stages(G, f, ws)
    PROVE  Joined(ws) \in Text /\ Loop(G, Val(f, 0), Joined(ws)) = Val(f, n)
<1> DEFINE P(k) == LET w == SubSeq(ws, 1, k) IN w \in Seq(Text) /\ Joined(w) \in Text /\ Loop(G, f[0], Joined(w)) = f[k]
           T == {k \in 0 .. n : ~P(k)}
<1>1. f[0] \in V
  BY DEF IsMap
<1>2. P(0)
  <2>1. SubSeq(ws, 1, 0) = <<>>
    BY NoneOf
  <2>2. <<>> \in Seq(Text) /\ <<>> \in Text
    OBVIOUS
  <2>3. Loop(G, f[0], <<>>) = f[0]
    BY <1>1, LoopEmpty
  <2>4. QED
    BY <2>1, <2>2, <2>3, JoinedEmpty, Zenon
<1>3. ASSUME NEW k \in 1 .. n, P(k - 1) PROVE P(k)
  <2>1. PICK w \in Seq(Text) : w = SubSeq(ws, 1, k - 1)
    BY <1>3
  <2>2. ws[k] \in Text /\ SubSeq(ws, 1, k) = Append(w, ws[k])
    BY <2>1, OneLonger
  <2>3. PICK x \in Text : x = ws[k]
    BY <2>2, Zenon
  <2>4. PICK j \in Text : j = Joined(w) /\ Joined(Append(w, x)) = j \o x
    <3>1. Joined(w) \in Text /\ Joined(Append(w, x)) = Joined(w) \o x
      BY JoinedAppend
    <3>2. QED
      BY <3>1, Zenon
  <2>5. Loop(G, f[0], j) = f[k - 1]
    BY <1>3, <2>1, <2>4, Zenon
  <2>6. Loop(G, f[0], j \o x) = Loop(G, Loop(G, f[0], j), x)
    BY <1>1, LoopConcat
  <2>7. Loop(G, f[k - 1], x) = f[k]
    BY <2>3, Zenon DEF Stages
  <2>8. j \o x \in Text /\ Append(w, x) \in Seq(Text)
    OBVIOUS
  <2>9. QED
    BY <2>2, <2>3, <2>4, <2>5, <2>6, <2>7, <2>8, Zenon
<1> HIDE DEF P
<1>4. T = {}
  <2>1. SUFFICES ASSUME T # {} PROVE FALSE
    OBVIOUS
  <2>2. PICK k \in T : \A l \in T : k <= l
    <3>1. T \subseteq Nat
      OBVIOUS
    <3> HIDE DEF T
    <3>2. QED
      BY <2>1, <3>1, Least
  <2>3. k \in 1 .. n /\ k - 1 \in 0 .. n /\ ~(k <= k - 1) /\ ~P(k)
    BY <1>2, <2>2
  <2>4. P(k - 1)
    BY <2>2, <2>3
  <2>5. QED
    BY <1>3, <2>3, <2>4
<1>5. P(n)
  BY <1>4
<1>6. SubSeq(ws, 1, n) = ws
  BY AllOf
<1>7. QED
  BY <1>5, <1>6, Zenon DEF P, Val

-----------------------------------------------------------------------------
(* read_message: line by line, up to the terminating dot.                  *)

\* The reader within the message, and after it.
Hears(m, l) == [msg |-> m, line |-> l, done |-> FALSE, after |-> <<>>]
Heard(m, a) == [msg |-> m, line |-> <<>>, done |-> TRUE, after |-> a]

LEMMA HearsType ==
    ASSUME NEW m \in Text, NEW l \in Text
    PROVE  Hears(m, l) \in Reader /\ Heard(m, l) \in Reader
  BY DEF Hears, Heard, Reader

LEMMA UnstuffedType ==
    ASSUME NEW l \in Text, l # <<>>
    PROVE  Unstuffed(l) \in Text
  BY DEF Unstuffed

IsLast(l) == l \in {Dot, <<".", LF>>}

\* The reader stays a reader.
LEMMA ReadStep == IsStep(Reading, Reader, Char)
<1>1. ASSUME NEW st \in Reader, NEW c \in Char PROVE Read(st, c) \in Reader
  <2>1. PICK line \in Text : line = Append(st.line, c) /\ line # <<>>
    <3>1. st.line \in Text
      BY DEF Reader
    <3>2. Append(st.line, c) \in Text /\ Append(st.line, c) # <<>>
      BY <3>1
    <3>3. QED
      BY <3>2, Zenon
  <2>2. CASE st.done
    <3>1. PICK a \in Text : a = Append(st.after, c)
      <4>1. st.after \in Text
        BY DEF Reader
      <4>2. Append(st.after, c) \in Text
        BY <4>1
      <4>3. QED
        BY <4>2, Zenon
    <3>2. Read(st, c) = [st EXCEPT !.after = a]
      BY <2>2, <3>1, Zenon DEF Read
    <3>3. [st EXCEPT !.after = a] \in Reader
      BY DEF Reader
    <3>4. QED
      BY <3>2, <3>3, Zenon
  <2>3. CASE ~st.done /\ c # LF
    <3>1. Read(st, c) = [st EXCEPT !.line = line]
      BY <2>1, <2>3, Zenon DEF Read
    <3>2. QED
      BY <3>1 DEF Reader
  <2>4. CASE ~st.done /\ c = LF
    <3>1. PICK e \in Text, m \in Text : e = <<>> /\ m = st.msg \o Unstuffed(line)
      <4>1. st.msg \in Text /\ Unstuffed(line) \in Text
        BY <2>1, UnstuffedType DEF Reader
      <4>2. st.msg \o Unstuffed(line) \in Text /\ <<>> \in Text
        BY <4>1
      <4>3. QED
        BY <4>2, Zenon
    <3>2. \/ Read(st, c) = [st EXCEPT !.line = e, !.done = TRUE]
          \/ Read(st, c) = [st EXCEPT !.line = e, !.msg = m]
      BY <2>1, <2>4, <3>1, Zenon DEF Read
    <3>3. [st EXCEPT !.line = e, !.done = TRUE] \in Reader
      BY DEF Reader
    <3>4. [st EXCEPT !.line = e, !.msg = m] \in Reader
      BY DEF Reader
    <3>5. QED
      BY <3>2, <3>3, <3>4, Zenon
  <2>5. QED
    BY <2>2, <2>3, <2>4
<1>2. QED
  BY <1>1 DEF IsStep, Reading

LEMMA ReadApplied ==
    ASSUME NEW st \in Reader, NEW c \in Char
    PROVE  Applied(Reading, st, c) = Read(st, c)
  BY DEF Applied, Reading

LEMMA HearsOnly ==
    ASSUME NEW st \in Reader
    PROVE  /\ ~st.done /\ st.after = <<>> => st = Hears(st.msg, st.line)
           /\ st.done /\ st.line = <<>> => st = Heard(st.msg, st.after)
  BY DEF Hears, Heard, Reader

\* A character within the message.
LEMMA HearsChar ==
    ASSUME NEW m \in Text, NEW l \in Text, NEW c \in Char
    PROVE  /\ c # LF => Read(Hears(m, l), c) = Hears(m, Append(l, c))
           /\ c = LF /\ IsLast(Append(l, c)) => Read(Hears(m, l), c) = Heard(m, <<>>)
           /\ c = LF /\ ~IsLast(Append(l, c))
                => Read(Hears(m, l), c) = Hears(m \o Unstuffed(Append(l, c)), <<>>)
<1>1. PICK st \in Reader : st = Hears(m, l) /\ ~st.done /\ st.msg = m /\ st.line = l /\ st.after = <<>>
  <2>1. /\ Hears(m, l) \in Reader
    BY HearsType
  <2>2. ~Hears(m, l).done /\ Hears(m, l).msg = m /\ Hears(m, l).line = l /\ Hears(m, l).after = <<>>
    BY DEF Hears
  <2>3. QED
    BY <2>1, <2>2, Zenon
<1>2. PICK line \in Text : line = Append(l, c) /\ line # <<>>
  <2>1. Append(l, c) \in Text /\ Append(l, c) # <<>>
    OBVIOUS
  <2>2. QED
    BY <2>1, Zenon
<1>3. c # LF => Read(st, c) = Hears(m, line)
  <2>1. c # LF => Read(st, c) = [st EXCEPT !.line = line]
    BY <1>1, <1>2, Zenon DEF Read
  <2>2. PICK new : new = [st EXCEPT !.line = line]
    OBVIOUS
  <2>3. new \in Reader /\ ~new.done /\ new.msg = m /\ new.line = line /\ new.after = <<>>
    BY <1>1, <2>2 DEF Reader
  <2>4. new = Hears(m, line)
    BY <2>3, HearsOnly, Zenon
  <2>5. QED
    BY <2>1, <2>2, <2>4, Zenon
<1>4. c = LF /\ IsLast(line) => Read(st, c) = Heard(m, <<>>)
  <2>1. c = LF /\ IsLast(line) => Read(st, c) = [st EXCEPT !.line = <<>>, !.done = TRUE]
    BY <1>1, <1>2, Zenon DEF Read, IsLast
  <2>2. PICK new : new = [st EXCEPT !.line = <<>>, !.done = TRUE]
    OBVIOUS
  <2>3. new \in Reader /\ new.done /\ new.msg = m /\ new.line = <<>> /\ new.after = <<>>
    BY <1>1, <2>2 DEF Reader
  <2>4. new = Heard(m, <<>>)
    BY <2>3, HearsOnly, Zenon
  <2>5. QED
    BY <2>1, <2>2, <2>4, Zenon
<1>5. c = LF /\ ~IsLast(line) => Read(st, c) = Hears(m \o Unstuffed(line), <<>>)
  <2>1. c = LF /\ ~IsLast(line) => Read(st, c) = [st EXCEPT !.line = <<>>, !.msg = @ \o Unstuffed(line)]
    BY <1>1, <1>2, Zenon DEF Read, IsLast
  <2>2. PICK u \in Text : u = Unstuffed(line)
    BY <1>2, UnstuffedType
  <2>3. PICK mu \in Text : mu = m \o u
    <3>1. m \o u \in Text
      OBVIOUS
    <3>2. QED
      BY <3>1, Zenon
  <2>4. PICK new : new = [st EXCEPT !.line = <<>>, !.msg = mu]
    OBVIOUS
  <2>5. new \in Reader /\ ~new.done /\ new.msg = mu /\ new.line = <<>> /\ new.after = <<>>
    BY <1>1, <2>4 DEF Reader
  <2>6. new = Hears(mu, <<>>)
    BY <2>5, HearsOnly, Zenon
  <2>7. QED
    BY <1>1, <2>1, <2>2, <2>3, <2>4, <2>6, Zenon
<1>6. QED
  BY <1>1, <1>2, <1>3, <1>4, <1>5, Zenon

\* After the message, all stays in the connection.
LEMMA HeardChar ==
    ASSUME NEW m \in Text, NEW a \in Text, NEW c \in Char
    PROVE  Read(Heard(m, a), c) = Heard(m, Append(a, c))
<1>1. PICK st \in Reader : st = Heard(m, a) /\ st.done /\ st.msg = m /\ st.line = <<>> /\ st.after = a
  <2>1. Heard(m, a) \in Reader
    BY HearsType
  <2>2. Heard(m, a).done /\ Heard(m, a).msg = m /\ Heard(m, a).line = <<>> /\ Heard(m, a).after = a
    BY DEF Heard
  <2>3. QED
    BY <2>1, <2>2, Zenon
<1>2. PICK b \in Text : b = Append(a, c)
  <2>1. Append(a, c) \in Text
    OBVIOUS
  <2>2. QED
    BY <2>1, Zenon
<1>3. Read(st, c) = [st EXCEPT !.after = b]
  BY <1>1, <1>2, Zenon DEF Read
<1>4. PICK new : new = [st EXCEPT !.after = b]
  OBVIOUS
<1>5. new \in Reader /\ new.done /\ new.msg = m /\ new.line = <<>> /\ new.after = b
  BY <1>1, <1>4 DEF Reader
<1>6. new = Heard(m, b)
  BY <1>5, HearsOnly, Zenon
<1>7. QED
  BY <1>1, <1>2, <1>3, <1>4, <1>6, Zenon

LineChars == Char \ {LF}

LEMMA LineCharsAre ==
    LineChars \in SUBSET Char /\ Seq(LineChars) \subseteq Text /\ LF \in Char /\ CR \in LineChars /\ "." \in LineChars
<1>1. LF \in Char /\ CR \in Char /\ "." \in Char /\ CR # LF /\ "." # LF
  BY CharAssumption DEF KnownChars, LF, CR
<1>2. LineChars \subseteq Char
  BY DEF LineChars
<1>3. QED
  BY <1>1, <1>2, SeqMonotonic DEF LineChars

\* Characters of a line are gathered until its line feed.
LEMMA ReadCollects ==
    ASSUME NEW m \in Text, NEW u \in Seq(LineChars)
    PROVE  Loop(Reading, Hears(m, <<>>), u) = Hears(m, u)
<1>1. PICK F : F = [o \in Text |-> Hears(m, o)]
  OBVIOUS
<1>2. F \in [Seq(Char) -> Reader]
  BY <1>1, HearsType
<1>3. ASSUME NEW o \in Seq(Char), NEW c \in LineChars
      PROVE  Applied(Reading, F[o], c) = F[Append(o, c)]
  <2>1. c \in Char /\ c # LF
    BY DEF LineChars
  <2>2. PICK p \in Text : p = Append(o, c)
    <3>1. Append(o, c) \in Text
      BY <2>1
    <3>2. QED
      BY <3>1, Zenon
  <2>3. F[o] = Hears(m, o) /\ F[p] = Hears(m, p)
    BY <1>1
  <2>4. Hears(m, o) \in Reader
    BY HearsType
  <2>5. Read(Hears(m, o), c) = Hears(m, p)
    BY <2>1, <2>2, HearsChar
  <2>6. Applied(Reading, Hears(m, o), c) = Read(Hears(m, o), c)
    BY <2>1, <2>4, ReadApplied
  <2>7. QED
    BY <2>2, <2>3, <2>5, <2>6, Zenon
<1>4. PICK e \in Seq(Char) : e = <<>>
  BY EmptySeq
<1>5. LineChars \in SUBSET Char
  BY LineCharsAre
<1>6. Loop(Reading, F[e], u) = F[e \o u]
  <2>1. Collects(Reading, F, Char, LineChars)
    BY <1>3, Zenon DEF Collects
  <2>2. IsMap(F, Seq(Char), Reader)
    BY <1>2, Zenon DEF IsMap
  <2>3. Loop(Reading, Val(F, e), u) = Val(F, e \o u)
    BY <1>5, <2>1, <2>2, ReadStep, LoopCollects
  <2>4. QED
    BY <2>3, Zenon DEF Val
<1>7. u \in Text /\ e \o u = u
  BY <1>4, LineCharsAre
<1>8. F[e] = Hears(m, e) /\ F[u] = Hears(m, u)
  BY <1>1, <1>4, <1>7
<1>9. QED
  BY <1>4, <1>6, <1>7, <1>8, Zenon

LEMMA ReadToEnd ==
    ASSUME NEW m \in Text, NEW u \in Seq(LineChars)
    PROVE  /\ Append(u, LF) \in Text /\ Append(u, LF) # <<>>
           /\ Loop(Reading, Hears(m, <<>>), Append(u, LF)) = Read(Hears(m, u), LF)
<1>1. u \in Text /\ LF \in Char
  BY LineCharsAre
<1>2. PICK e \in Text : e = <<>>
  BY EmptySeq
<1>3. Hears(m, e) \in Reader
  BY HearsType
<1>4. /\ Loop(Reading, Hears(m, e), u) \in Reader
      /\ Loop(Reading, Hears(m, e), Append(u, LF)) = Applied(Reading, Loop(Reading, Hears(m, e), u), LF)
  BY <1>1, <1>3, ReadStep, LoopAppend
<1>5. Loop(Reading, Hears(m, e), u) = Hears(m, u)
  BY <1>2, ReadCollects, Zenon
<1>6. Applied(Reading, Hears(m, u), LF) = Read(Hears(m, u), LF)
  BY <1>1, <1>4, <1>5, ReadApplied, Zenon DEF Text
<1>7. Append(u, LF) \in Text /\ Append(u, LF) # <<>>
  BY <1>1
<1>8. QED
  BY <1>2, <1>4, <1>5, <1>6, <1>7, Zenon

\* A line that is not the last one.
Wired(w) == \E u \in Seq(LineChars) : w = Append(u, LF) /\ ~IsLast(w)

\* A whole line goes to the message, unstuffed.
LEMMA ReadLine ==
    ASSUME NEW m \in Text, NEW w, Wired(w)
    PROVE  /\ w \in Text /\ Unstuffed(w) \in Text
           /\ Loop(Reading, Hears(m, <<>>), w) = Hears(m \o Unstuffed(w), <<>>)
<1>1. PICK u \in Seq(LineChars) : w = Append(u, LF) /\ ~IsLast(w)
  BY Zenon DEF Wired
<1>2. u \in Text /\ LF \in Char
  BY LineCharsAre
<1>3. w \in Text /\ w # <<>> /\ Loop(Reading, Hears(m, <<>>), w) = Read(Hears(m, u), LF)
  BY <1>1, ReadToEnd, Zenon DEF Text
<1>4. Read(Hears(m, u), LF) = Hears(m \o Unstuffed(w), <<>>)
  BY <1>1, <1>2, HearsChar, Zenon DEF Text
<1>5. Unstuffed(w) \in Text
  BY <1>3, UnstuffedType
<1>6. QED
  BY <1>3, <1>4, <1>5, Zenon

\* The dot ends it.
LEMMA ReadDot ==
    ASSUME NEW m \in Text
    PROVE  Loop(Reading, Hears(m, <<>>), Dot) = Heard(m, <<>>)
<1>1. PICK u \in Seq(LineChars) : u = <<".", CR>>
  <2>1. \A a, b \in LineChars : <<a, b>> \in Seq(LineChars)
    OBVIOUS
  <2>2. <<".", CR>> \in Seq(LineChars)
    BY <2>1, LineCharsAre, Zenon
  <2>3. QED
    BY <2>2, Zenon
<1>2. u \in Text /\ LF \in Char
  BY LineCharsAre
<1>3. Append(u, LF) = Dot
  <2>1. ASSUME NEW a \in Char, NEW b \in Char, NEW c \in Char PROVE Append(<<a, b>>, c) = <<a, b, c>>
    BY Triple
  <2>2. "." \in Char /\ CR \in Char
    BY LineCharsAre
  <2>3. QED
    BY <1>1, <1>2, <2>1, <2>2, Zenon DEF Dot
<1>4. Loop(Reading, Hears(m, <<>>), Dot) = Read(Hears(m, u), LF)
  BY <1>3, ReadToEnd, Zenon DEF Text
<1>5. IsLast(Append(u, LF))
  BY <1>3, Zenon DEF IsLast
<1>6. QED
  BY <1>2, <1>4, <1>5, HearsChar, Zenon DEF Text

\* Lines that are none the last, one after the other.
LEMMA ReadLines ==
    ASSUME NEW m \in Text, NEW ws \in Seq(Text), NEW us \in Seq(Text), Len(us) = Len(ws),
           \A i \in 1 .. Len(ws) : Wired(ws[i]) /\ us[i] = Unstuffed(ws[i])
    PROVE  /\ Joined(ws) \in Text /\ Joined(us) \in Text
           /\ Loop(Reading, Hears(m, <<>>), Joined(ws)) = Hears(m \o Joined(us), <<>>)
<1>1. PICK n \in Nat : n = Len(ws)
  OBVIOUS
<1>2. PICK e \in Text : e = <<>>
  BY EmptySeq
<1> DEFINE J(k) == Joined(SubSeq(us, 1, k))
<1>3. \A k \in 1 .. n : J(k - 1) \in Text /\ J(k) = J(k - 1) \o us[k] /\ us[k] \in Text
  <2> SUFFICES ASSUME NEW k \in 1 .. n PROVE J(k - 1) \in Text /\ J(k) = J(k - 1) \o us[k] /\ us[k] \in Text
    OBVIOUS
  <2>1. k \in 1 .. Len(us)
    BY <1>1
  <2>2. SubSeq(us, 1, k - 1) \in Seq(Text) /\ us[k] \in Text /\ SubSeq(us, 1, k) = Append(SubSeq(us, 1, k - 1), us[k])
    BY <2>1, OneLonger
  <2>3. PICK a \in Seq(Text), b \in Text : a = SubSeq(us, 1, k - 1) /\ b = us[k] /\ SubSeq(us, 1, k) = Append(a, b)
    BY <2>2, Zenon
  <2>4. Joined(a) \in Text /\ Joined(Append(a, b)) = Joined(a) \o b
    BY JoinedAppend
  <2>5. QED
    BY <2>3, <2>4, Zenon
<1>4. J(0) = <<>> /\ J(n) = Joined(us)
  BY <1>1, NoneOf, AllOf, JoinedEmpty
<1> HIDE DEF J
<1>5. \A k \in 0 .. n : J(k) \in Text
  <2>1. \A k \in 0 .. n : k = 0 \/ k \in 1 .. n
    OBVIOUS
  <2>2. J(0) \in Text
    BY <1>2, <1>4, Zenon
  <2>3. ASSUME NEW k \in 1 .. n PROVE J(k) \in Text
    <3>1. PICK a \in Text, b \in Text : J(k) = a \o b
      BY <1>3, Zenon
    <3>2. a \o b \in Text
      OBVIOUS
    <3>3. QED
      BY <3>1, <3>2, Zenon
  <2>4. QED
    BY <2>1, <2>2, <2>3
<1>6. PICK f : f = [k \in 0 .. n |-> Hears(m \o J(k), e)]
  OBVIOUS
<1>7. f \in [0 .. n -> Reader]
  <2>1. \A k \in 0 .. n : m \o J(k) \in Text
    BY <1>5
  <2>2. \A k \in 0 .. n : Hears(m \o J(k), e) \in Reader
    BY <2>1, HearsType, Zenon
  <2>3. QED
    BY <1>6, <2>2
<1>8. ASSUME NEW k \in 1 .. n PROVE Loop(Reading, f[k - 1], ws[k]) = f[k]
  <2>1. k - 1 \in 0 .. n /\ k \in 0 .. n /\ k \in 1 .. Len(ws)
    BY <1>1
  <2>2. PICK a \in Text, b \in Text : a = J(k - 1) /\ b = us[k] /\ J(k) = a \o b
    BY <1>3, Zenon
  <2>3. PICK mm \in Text : mm = m \o a
    <3>1. m \o a \in Text
      OBVIOUS
    <3>2. QED
      BY <3>1, Zenon
  <2>4. Wired(ws[k]) /\ b = Unstuffed(ws[k])
    BY <2>1, <2>2, Zenon
  <2>5. Loop(Reading, Hears(mm, <<>>), ws[k]) = Hears(mm \o b, <<>>)
    BY <2>4, ReadLine, Zenon DEF Text
  <2>6. mm \o b = m \o (a \o b)
    BY <2>3, SMTT(30)
  <2>7. f[k - 1] = Hears(m \o J(k - 1), e) /\ f[k] = Hears(m \o J(k), e)
    BY <1>6, <2>1
  <2>8. QED
    BY <1>2, <2>2, <2>3, <2>5, <2>6, <2>7, Zenon
<1>9. Joined(ws) \in Text /\ Loop(Reading, f[0], Joined(ws)) = f[n]
  <2>1. Stages(Reading, f, ws)
    BY <1>1, <1>8, Zenon DEF Stages
  <2>2. IsMap(f, 0 .. n, Reader)
    BY <1>7, Zenon DEF IsMap
  <2>3. Joined(ws) \in Text /\ Loop(Reading, Val(f, 0), Joined(ws)) = Val(f, n)
    BY <1>1, <2>1, <2>2, ReadStep, LoopStages
  <2>4. QED
    BY <2>3, Zenon DEF Val
<1>10. f[0] = Hears(m \o J(0), e) /\ f[n] = Hears(m \o J(n), e)
  BY <1>6
<1>11. m \o <<>> = m
  OBVIOUS
<1>12. Joined(us) \in Text
  BY <1>4, <1>5
<1>13. QED
  BY <1>2, <1>4, <1>9, <1>10, <1>11, <1>12, Zenon

-----------------------------------------------------------------------------
(* str::lines, and what send_body makes of the lines.                      *)

Splitter == [lines : Seq(Text), line : Text]
Split(ls, l) == [lines |-> ls, line |-> l]
Chomped(l) == IF l # <<>> /\ Last(l) = CR THEN Front(l) ELSE l

LEMMA ChompedType ==
    ASSUME NEW C, NEW l \in Seq(C)
    PROVE  Chomped(l) \in Seq(C)
<1>1. l # <<>> => Front(l) \in Seq(C)
  BY FrontText
<1>2. QED
  BY <1>1, Zenon DEF Chomped

\* str::lines takes off what Ended puts on.
LEMMA ChompedBack ==
    ASSUME NEW l \in Text
    PROVE  Append(l, CR) \in Text /\ Chomped(Append(l, CR)) = l
<1>1. PICK c \in Char : c = CR
  BY LineCharsAre DEF LineChars
<1>2. PICK u \in Text : u = Append(l, c)
  <2>1. Append(l, c) \in Text
    OBVIOUS
  <2>2. QED
    BY <2>1, Zenon
<1>3. u # <<>> /\ Len(u) = Len(l) + 1 /\ Last(u) = c
  BY <1>2 DEF Last
<1>4. Front(u) = l
  <2>1. /\ Front(u) \in Seq(Char) /\ Len(Front(u)) = Len(u) - 1
        /\ \A i \in 1 .. Len(u) - 1 : Front(u)[i] = u[i]
    BY <1>3, FrontText
  <2>2. PICK n \in Nat : n = Len(l)
    OBVIOUS
  <2>3. PICK v \in Seq(Char) : v = Front(u) /\ Len(v) = n /\ \A i \in 1 .. n : v[i] = u[i]
    <3>1. Len(u) - 1 = n
      BY <1>3, <2>2
    <3>2. QED
      BY <2>1, <3>1, Zenon
  <2>4. \A i \in 1 .. n : u[i] = l[i]
    BY <1>2, <2>2
  <2>5. v = l
    BY <2>2, <2>3, <2>4, SameText
  <2>6. QED
    BY <2>3, <2>5
<1>5. QED
  BY <1>1, <1>2, <1>3, <1>4, Zenon DEF Chomped

LEMMA SplitType ==
    ASSUME NEW ls \in Seq(Text), NEW l \in Text
    PROVE  Split(ls, l) \in Splitter /\ Split(ls, l).lines = ls /\ Split(ls, l).line = l
  BY DEF Split, Splitter

LEMMA SplitOnly ==
    ASSUME NEW st \in Splitter
    PROVE  /\ st = Split(st.lines, st.line) /\ st.lines \in Seq(Text) /\ st.line \in Text
           /\ \A l : [st EXCEPT !.line = l] = Split(st.lines, l)
<1>1. st = Split(st.lines, st.line) /\ st.lines \in Seq(Text) /\ st.line \in Text
  BY DEF Split, Splitter
<1>2. \A x, y, l : [Split(x, y) EXCEPT !.line = l] = Split(x, l)
  BY DEF Split
<1>3. PICK x, y : x = st.lines /\ y = st.line
  OBVIOUS
<1>4. st = Split(x, y)
  BY <1>1, <1>3, Zenon
<1>5. \A l : [st EXCEPT !.line = l] = Split(x, l)
  BY <1>2, <1>4, Zenon
<1>6. QED
  BY <1>1, <1>3, <1>5

LEMMA SplittingIs ==
    Splitting = [st \in Splitter |-> [c \in Char |->
                   IF c # LF THEN Split(st.lines, Append(st.line, c))
                   ELSE Split(Append(st.lines, Chomped(st.line)), <<>>)]]
<1>1. \A st \in Splitter : \A c : [st EXCEPT !.line = Append(@, c)] = Split(st.lines, Append(st.line, c))
  BY SplitOnly, Zenon
<1>2. \A x, y : [line |-> y, lines |-> x] = Split(x, y)
  BY DEF Split
<1>3. QED
  BY <1>1, <1>2, Zenon DEF Splitting, Chomped, Splitter

LEMMA SplitStep == IsStep(Splitting, Splitter, Char)
<1>1. ASSUME NEW st \in Splitter, NEW c \in Char
      PROVE  /\ Split(st.lines, Append(st.line, c)) \in Splitter
             /\ Split(Append(st.lines, Chomped(st.line)), <<>>) \in Splitter
  <2>1. PICK ls \in Seq(Text), l \in Text : ls = st.lines /\ l = st.line
    BY SplitOnly, Zenon
  <2>2. PICK m \in Text : m = Chomped(l)
    BY ChompedType
  <2>3. Append(l, c) \in Text /\ Append(ls, m) \in Seq(Text) /\ <<>> \in Text
    OBVIOUS
  <2>4. Split(ls, Append(l, c)) \in Splitter /\ Split(Append(ls, m), <<>>) \in Splitter
    BY <2>3, SplitType, Zenon
  <2>5. QED
    BY <2>1, <2>2, <2>4, Zenon
<1>2. QED
  BY <1>1, SplittingIs, Zenon DEF IsStep

LEMMA SplitApplied ==
    ASSUME NEW ls \in Seq(Text), NEW l \in Text, NEW c \in Char
    PROVE  /\ c # LF => Applied(Splitting, Split(ls, l), c) = Split(ls, Append(l, c))
           /\ c = LF => Applied(Splitting, Split(ls, l), c) = Split(Append(ls, Chomped(l)), <<>>)
<1>1. PICK st \in Splitter : st = Split(ls, l) /\ st.lines = ls /\ st.line = l
  BY SplitType, Zenon
<1>2. Applied(Splitting, st, c) = IF c # LF THEN Split(st.lines, Append(st.line, c))
                                  ELSE Split(Append(st.lines, Chomped(st.line)), <<>>)
  BY SplittingIs, Zenon DEF Applied
<1>3. QED
  BY <1>1, <1>2, Zenon

\* str::lines gives lines without a line feed.
LEMMA LinesType ==
    ASSUME NEW s \in Text
    PROVE  Lines(s) \in Seq(Seq(LineChars))
<1>1. PICK N : N = Seq(LineChars)
  OBVIOUS
<1>2. N \subseteq Text /\ <<>> \in N
  BY <1>1, LineCharsAre
<1> DEFINE X == {st \in Splitter : st.lines \in Seq(N) /\ st.line \in N}
<1>3. PICK z : z = Split(<<>>, <<>>)
  OBVIOUS
<1>4. z \in X
  <2>1. \A e \in Seq(Text) : \A f \in Text : Split(e, f) \in Splitter /\ Split(e, f).lines = e /\ Split(e, f).line = f
    BY SplitType
  <2>2. <<>> \in Seq(Text) /\ <<>> \in Text /\ <<>> \in Seq(N)
    OBVIOUS
  <2>3. z \in Splitter /\ z.lines = <<>> /\ z.line = <<>>
    BY <1>3, <2>1, <2>2, Zenon
  <2>4. QED
    BY <1>2, <2>2, <2>3
<1>5. ASSUME NEW st \in X, NEW c \in Char PROVE Applied(Splitting, st, c) \in X
  <2>1. PICK ls \in Seq(N), l \in N : ls = st.lines /\ l = st.line
    OBVIOUS
  <2>2. ls \in Seq(Text) /\ l \in Text /\ st = Split(ls, l)
    <3>1. st \in Splitter
      OBVIOUS
    <3>2. QED
      BY <2>1, <3>1, SplitOnly, Zenon
  <2>3. CASE c # LF
    <3>1. c \in LineChars
      BY <2>3 DEF LineChars
    <3>2. PICK m \in N : m = Append(l, c)
      <4>1. \A v \in Seq(LineChars) : Append(v, c) \in Seq(LineChars)
        BY <3>1
      <4>2. QED
        BY <1>1, <4>1, Zenon
    <3>3. m \in Text
      BY <1>2
    <3>4. Applied(Splitting, st, c) = Split(ls, m)
      BY <2>2, <2>3, <3>2, SplitApplied, Zenon DEF Text
    <3>5. Split(ls, m) \in Splitter /\ Split(ls, m).lines = ls /\ Split(ls, m).line = m
      BY <2>2, <3>3, SplitType, Zenon
    <3>6. QED
      BY <3>4, <3>5
  <2>4. CASE c = LF
    <3>1. PICK m \in N : m = Chomped(l)
      BY <1>1, ChompedType
    <3>2. PICK ms \in Seq(N), e \in Text : ms = Append(ls, m) /\ e = <<>>
      <4>1. Append(ls, m) \in Seq(N) /\ <<>> \in Text
        OBVIOUS
      <4>2. QED
        BY <4>1, Zenon
    <3>3. ms \in Seq(Text) /\ e \in N
      <4>1. Seq(N) \subseteq Seq(Text)
        BY <1>2, SeqMonotonic
      <4>2. QED
        BY <1>2, <3>2, <4>1, Zenon
    <3>4. Applied(Splitting, st, c) = Split(ms, e)
      BY <2>2, <2>4, <3>1, <3>2, SplitApplied, Zenon DEF Text
    <3>5. Split(ms, e) \in Splitter /\ Split(ms, e).lines = ms /\ Split(ms, e).line = e
      BY <3>3, SplitType, Zenon
    <3>6. QED
      BY <3>3, <3>4, <3>5
  <2>5. QED
    BY <2>3, <2>4
<1>6. PICK st : st = Loop(Splitting, z, s)
  OBVIOUS
<1>7. st \in X
  <2>1. X \in SUBSET Splitter
    OBVIOUS
  <2> HIDE DEF X
  <2>2. QED
    BY <1>4, <1>5, <1>6, <2>1, SplitStep, LoopKeeps
<1>8. Lines(s) = IF st.line = <<>> THEN st.lines ELSE Append(st.lines, st.line)
  BY <1>3, <1>6, Zenon DEF Lines, Split
<1>9. st.lines \in Seq(N) /\ Append(st.lines, st.line) \in Seq(N)
  BY <1>7
<1>10. QED
  BY <1>1, <1>8, <1>9, Zenon

\* The lines, each with a line end.
Ended(ls) == [i \in DOMAIN ls |-> ls[i] \o CRLF]

LEMMA CrlfIs ==
    ASSUME NEW l \in Text
    PROVE  CRLF \in Text /\ l \o CRLF \in Text /\ l \o CRLF = Append(Append(l, CR), LF)
<1>1. PICK c \in Char, d \in Char : c = CR /\ d = LF
  BY LineCharsAre DEF LineChars
<1>2. <<c, d>> \in Text /\ l \o <<c, d>> \in Text /\ l \o <<c, d>> = Append(Append(l, c), d)
  <2>1. \A s \in Text : s \o <<d>> = Append(s, d)
    OBVIOUS
  <2>2. <<c, d>> = <<c>> \o <<d>> /\ l \o <<c>> = Append(l, c) /\ Append(l, c) \in Text
    <3>1. <<c, d>> = <<c>> \o <<d>>
      <4>1. <<c, d>> = Append(<<c>>, d) /\ <<c>> \in Text
        OBVIOUS
      <4>2. QED
        BY <2>1, <4>1, Zenon
    <3>2. l \o <<c>> = Append(l, c) /\ Append(l, c) \in Text
      OBVIOUS
    <3>3. QED
      BY <3>1, <3>2
  <2>3. l \o (<<c>> \o <<d>>) = (l \o <<c>>) \o <<d>>
    OBVIOUS
  <2>4. <<c, d>> \in Text /\ l \o <<c, d>> \in Text
    OBVIOUS
  <2>5. QED
    BY <2>1, <2>2, <2>3, <2>4, Zenon
<1>3. QED
  BY <1>1, <1>2, Zenon DEF CRLF

LEMMA SplitCollects ==
    ASSUME NEW ls \in Seq(Text), NEW u \in Seq(LineChars)
    PROVE  Loop(Splitting, Split(ls, <<>>), u) = Split(ls, u)
<1>1. PICK F : F = [o \in Text |-> Split(ls, o)]
  OBVIOUS
<1>2. IsMap(F, Seq(Char), Splitter)
  <2>1. \A o \in Text : Split(ls, o) \in Splitter
    BY SplitType
  <2>2. QED
    BY <1>1, <2>1 DEF IsMap
<1>3. ASSUME NEW o \in Seq(Char), NEW c \in LineChars
      PROVE  Applied(Splitting, F[o], c) = F[Append(o, c)]
  <2>1. c \in Char /\ c # LF
    BY DEF LineChars
  <2>2. PICK p \in Text : p = Append(o, c)
    <3>1. Append(o, c) \in Text
      BY <2>1
    <3>2. QED
      BY <3>1, Zenon
  <2>3. F[o] = Split(ls, o) /\ F[p] = Split(ls, p)
    BY <1>1
  <2>4. Applied(Splitting, Split(ls, o), c) = Split(ls, p)
    BY <2>1, <2>2, SplitApplied
  <2>5. QED
    BY <2>2, <2>3, <2>4, Zenon
<1>4. PICK e \in Seq(Char) : e = <<>>
  BY EmptySeq
<1>5. Loop(Splitting, Val(F, e), u) = Val(F, e \o u)
  <2>1. Collects(Splitting, F, Char, LineChars)
    BY <1>3, Zenon DEF Collects
  <2>2. LineChars \in SUBSET Char
    BY LineCharsAre
  <2>3. QED
    BY <1>2, <2>1, <2>2, SplitStep, LoopCollects
<1>6. u \in Text /\ e \o u = u
  BY <1>4, LineCharsAre
<1>7. F[e] = Split(ls, e) /\ F[u] = Split(ls, u)
  BY <1>1, <1>4, <1>6
<1>8. QED
  BY <1>4, <1>5, <1>6, <1>7, Zenon DEF Val

LEMMA SplitLine ==
    ASSUME NEW ls \in Seq(Text), NEW l \in Seq(LineChars)
    PROVE  Loop(Splitting, Split(ls, <<>>), l \o CRLF) = Split(Append(ls, l), <<>>)
<1>1. l \in Text /\ CR \in LineChars /\ LF \in Char
  BY LineCharsAre
<1>2. PICK u \in Seq(LineChars) : u = Append(l, CR)
  <2>1. Append(l, CR) \in Seq(LineChars)
    BY <1>1
  <2>2. QED
    BY <2>1, Zenon
<1>3. u \in Text
  BY LineCharsAre
<1>4. PICK e \in Text : e = <<>>
  BY EmptySeq
<1>5. PICK z \in Splitter : z = Split(ls, e)
  BY SplitType
<1>6. l \o CRLF = Append(u, LF)
  BY <1>1, <1>2, CrlfIs, Zenon DEF Text
<1>7. Loop(Splitting, z, Append(u, LF)) = Applied(Splitting, Loop(Splitting, z, u), LF)
  BY <1>1, <1>3, SplitStep, LoopAppend
<1>8. Loop(Splitting, z, u) = Split(ls, u)
  BY <1>4, <1>5, SplitCollects, Zenon DEF Text
<1>9. Applied(Splitting, Split(ls, u), LF) = Split(Append(ls, Chomped(u)), <<>>)
  BY <1>1, <1>3, SplitApplied
<1>10. Chomped(u) = l
  BY <1>1, <1>2, ChompedBack, Zenon DEF Text
<1>11. QED
  BY <1>4, <1>5, <1>6, <1>7, <1>8, <1>9, <1>10, Zenon

LEMMA StartsIs ==
    ASSUME NEW s \in Text, NEW p \in Text
    PROVE  Starts(s, p) <=> Len(p) <= Len(s) /\ \A i \in 1 .. Len(p) : s[i] = p[i]
<1>1. PICK n \in Nat, k \in Nat : n = Len(s) /\ k = Len(p)
  OBVIOUS
<1>2. SubSeq(p, 1, k) = p
  BY <1>1, AllOf
<1>3. ASSUME k <= n PROVE SubSeq(s, 1, k) = p <=> \A i \in 1 .. k : s[i] = p[i]
  <2>1. 1 \in 1 .. n + 1 /\ k \in 0 .. n /\ k = k - 1 + 1
    BY <1>3
  <2>2. PICK q \in Seq(Char) : /\ q = SubSeq(s, 1, k) /\ Len(q) = k
                               /\ \A i \in 1 .. k : q[i] = s[1 + i - 1]
    <3>1. /\ SubSeq(s, 1, k) \in Seq(Char) /\ Len(SubSeq(s, 1, k)) = k
          /\ \A i \in 1 .. k : SubSeq(s, 1, k)[i] = s[1 + i - 1]
      BY <1>1, <2>1, Segment
    <3>2. QED
      BY <3>1, Zenon
  <2>3. \A i \in 1 .. k : q[i] = s[i]
    <3>1. \A i \in 1 .. k : 1 + i - 1 = i
      OBVIOUS
    <3>2. QED
      BY <2>2, <3>1, Zenon
  <2>4. (\A i \in 1 .. k : q[i] = p[i]) => q = p
    BY <1>1, <2>2, SameText
  <2>5. QED
    BY <2>2, <2>3, <2>4, Zenon
<1>4. QED
  BY <1>1, <1>2, <1>3, Zenon DEF Starts, IsPrefix

LEMMA DotsAre ==
    /\ <<".">> \in Text /\ Len(<<".">>) = 1 /\ <<".">>[1] = "."
    /\ <<".", ".">> \in Text /\ Len(<<".", ".">>) = 2
    /\ <<".", ".">>[1] = "." /\ <<".", ".">>[2] = "."
    /\ Dot[1] = "." /\ Dot[2] = CR /\ <<".", LF>>[1] = "." /\ <<".", LF>>[2] = LF
    /\ "." # CR /\ "." # LF /\ ":" # CR /\ ":" # LF /\ ":" # "."
<1>1. "." \in Char
  BY LineCharsAre DEF LineChars
<1>2. <<".">> \in Text /\ <<".", ".">> \in Text
  BY <1>1
<1>3. Len(<<".">>) = 1 /\ Len(<<".", ".">>) = 2
  OBVIOUS
<1>4. <<".">>[1] = "." /\ <<".", ".">>[1] = "." /\ <<".", ".">>[2] = "."
  OBVIOUS
<1>5. Dot[1] = "." /\ Dot[2] = CR /\ <<".", LF>>[1] = "." /\ <<".", LF>>[2] = LF
  BY DEF Dot
<1>6. "." # CR /\ "." # LF /\ ":" # CR /\ ":" # LF /\ ":" # "."
  BY DEF CR, LF
<1>7. QED
  BY <1>2, <1>3, <1>4, <1>5, <1>6

\* A line that does not need stuffing.
Safe(w) == w[1] # "." \/ w[2] \notin {".", CR, LF}

LEMMA SafeLine ==
    ASSUME NEW w \in Text, Safe(w)
    PROVE  ~IsLast(w) /\ Unstuffed(w) = w
<1>1. ~IsLast(w)
  BY DotsAre, Zenon DEF IsLast, Safe
<1>2. ASSUME Starts(w, <<".", ".">>) PROVE FALSE
  <2>1. PICK d \in Text : d = <<".", ".">> /\ Len(d) = 2 /\ d[1] = "." /\ d[2] = "."
    BY DotsAre, Zenon
  <2>2. Starts(w, d)
    BY <1>2, <2>1, Zenon
  <2>3. \A i \in 1 .. Len(d) : w[i] = d[i]
    BY <2>2, StartsIs
  <2>4. 1 \in 1 .. 2 /\ 2 \in 1 .. 2
    OBVIOUS
  <2>5. w[1] = d[1] /\ w[2] = d[2]
    BY <2>1, <2>3, <2>4, Zenon
  <2>6. QED
    BY <2>1, <2>5, Zenon DEF Safe
<1>3. QED
  BY <1>1, <1>2, Zenon DEF Unstuffed

LEMMA FirstDot ==
    ASSUME NEW l \in Text
    PROVE  Starts(l, <<".">>) <=> l # <<>> /\ l[1] = "."
<1>1. PICK d \in Text : d = <<".">> /\ Len(d) = 1 /\ d[1] = "."
  BY DotsAre, Zenon
<1>2. Starts(l, d) <=> Len(d) <= Len(l) /\ \A i \in 1 .. Len(d) : l[i] = d[i]
  BY StartsIs
<1>3. 1 <= Len(l) <=> l # <<>>
  BY EmptySeq
<1>4. \A i : i \in 1 .. 1 <=> i = 1
  OBVIOUS
<1>5. QED
  BY <1>1, <1>2, <1>3, <1>4, Zenon

LEMMA FirstOf ==
    ASSUME NEW l \in Text, NEW k \in Text
    PROVE  l # <<>> => (l \o k)[1] = l[1]
  BY EmptySeq

\* A line that was stuffed is read as a line, and comes out as it was.
LEMMA StuffedLine ==
    ASSUME NEW l \in Text
    PROVE  /\ Stuffed(l) \in Text /\ ~IsLast(Stuffed(l) \o CRLF)
           /\ Unstuffed(Stuffed(l) \o CRLF) = l \o CRLF
<1>1. PICK e \in Text : e = l \o CRLF /\ e # <<>>
  <2>1. PICK k \in Text : k = CRLF /\ k # <<>>
    <3>1. CRLF \in Text
      BY CrlfIs
    <3>2. CRLF # <<>>
      BY DEF CRLF
    <3>3. QED
      BY <3>1, <3>2, Zenon
  <2>2. l \o k \in Text /\ l \o k # <<>>
    BY <2>1
  <2>3. QED
    BY <2>1, <2>2, Zenon
<1>2. CASE ~Starts(l, <<".">>)
  <2>1. Stuffed(l) = l
    BY <1>2, Zenon DEF Stuffed
  <2>2. e[1] # "."
    <3>1. CASE l = <<>>
      <4>1. e = CRLF
        <5>1. CRLF \in Text
          BY CrlfIs
        <5>2. \A k \in Text : <<>> \o k = k
          OBVIOUS
        <5>3. QED
          BY <1>1, <3>1, <5>1, <5>2, Zenon
      <4>2. CRLF[1] = CR
        BY DEF CRLF
      <4>3. QED
        BY <4>1, <4>2, DotsAre, Zenon
    <3>2. CASE l # <<>>
      <4>1. CRLF \in Text
        BY CrlfIs
      <4>2. e[1] = l[1]
        BY <1>1, <3>2, <4>1, FirstOf, Zenon DEF Text
      <4>3. l[1] # "."
        BY <1>2, <3>2, FirstDot, Zenon DEF Text
      <4>4. QED
        BY <4>2, <4>3, Zenon
    <3>3. QED
      BY <3>1, <3>2
  <2>3. Safe(e)
    BY <2>2, Zenon DEF Safe
  <2>4. ~IsLast(e) /\ Unstuffed(e) = e
    BY <2>3, SafeLine
  <2>5. QED
    BY <1>1, <2>1, <2>4, Zenon
<1>3. CASE Starts(l, <<".">>)
  <2>1. PICK d \in Text : d = <<".">> /\ Len(d) = 1 /\ d[1] = "."
    BY DotsAre, Zenon
  <2>2. Stuffed(l) = d \o l /\ d \o l \in Text
    <3>1. Stuffed(l) = <<".">> \o l
      BY <1>3, Zenon DEF Stuffed
    <3>2. d \o l \in Text
      OBVIOUS
    <3>3. QED
      BY <2>1, <3>1, <3>2, Zenon
  <2>3. PICK x \in Text : x = Stuffed(l) \o CRLF /\ x = d \o e
    <3>1. CRLF \in Text
      BY CrlfIs
    <3>2. \A k \in Text : (d \o l) \o k = d \o (l \o k)
      OBVIOUS
    <3>3. d \o e \in Text
      OBVIOUS
    <3>4. QED
      BY <1>1, <2>2, <3>1, <3>2, <3>3, Zenon
  <2>4. Len(x) = Len(e) + 1 /\ Len(e) \in Nat /\ Len(e) >= 1 /\ x[1] = d[1] /\ x[2] = e[1] /\ Tail(x) = e
    <3>1. Len(d) = 1
      BY <2>1
    <3>2. Len(x) = Len(e) + 1 /\ Len(e) \in Nat /\ Len(e) >= 1
      <4>1. Len(e) \in Nat /\ (e # <<>> => Len(e) >= 1)
        BY EmptySeq
      <4>2. Len(d \o e) = Len(d) + Len(e)
        OBVIOUS
      <4>3. e # <<>> /\ x = d \o e
        BY <1>1, <2>3
      <4>4. Len(x) = 1 + Len(e)
        BY <3>1, <4>2, <4>3, Zenon
      <4>5. QED
        BY <4>1, <4>3, <4>4
    <3>3. x[1] = d[1] /\ x[2] = e[1]
      BY <2>3, <3>1, <3>2
    <3>4. Tail(x) = e
      <4>1. \A c \in Char : Tail(<<c>> \o e) = e
        OBVIOUS
      <4>2. "." \in Char
        BY LineCharsAre DEF LineChars
      <4>3. QED
        BY <2>1, <2>3, <4>1, <4>2, Zenon
    <3>5. QED
      BY <3>2, <3>3, <3>4
  <2>5. e[1] = "."
    <3>1. l # <<>> /\ l[1] = "."
      BY <1>3, FirstDot, Zenon DEF Text
    <3>2. CRLF \in Text
      BY CrlfIs
    <3>3. QED
      BY <1>1, <3>1, <3>2, FirstOf, Zenon DEF Text
  <2>6. x[1] = "." /\ x[2] = "."
    BY <2>1, <2>4, <2>5, Zenon
  <2>7. Starts(x, <<".", ".">>)
    <3>1. PICK dd \in Text : dd = <<".", ".">> /\ Len(dd) = 2 /\ dd[1] = "." /\ dd[2] = "."
      BY DotsAre, Zenon
    <3>2. \A i : i \in 1 .. 2 <=> i = 1 \/ i = 2
      OBVIOUS
    <3>3. \A i \in 1 .. Len(dd) : x[i] = dd[i]
      BY <2>6, <3>1, <3>2, Zenon
    <3>4. 2 <= Len(x)
      BY <2>4
    <3>5. Len(dd) <= Len(x)
      BY <3>1, <3>4, Zenon
    <3>6. Starts(x, dd)
      BY <3>3, <3>5, StartsIs, Zenon DEF Text
    <3>7. QED
      BY <3>1, <3>6, Zenon
  <2>8. Unstuffed(x) = e
    BY <2>4, <2>7, Zenon DEF Unstuffed
  <2>9. ~IsLast(x)
    BY <2>6, DotsAre, Zenon DEF IsLast
  <2>10. QED
    BY <1>1, <2>2, <2>3, <2>8, <2>9, Zenon
<1>4. QED
  BY <1>2, <1>3, Zenon

LEMMA EndedIs ==
    ASSUME NEW ls \in Seq(Seq(LineChars))
    PROVE  /\ Ended(ls) \in Seq(Text) /\ Len(Ended(ls)) = Len(ls)
           /\ \A i \in 1 .. Len(ls) : ls[i] \in Seq(LineChars) /\ ls[i] \in Text /\ Ended(ls)[i] = ls[i] \o CRLF
<1>1. DOMAIN ls = 1 .. Len(ls) /\ Len(ls) \in Nat /\ \A i \in 1 .. Len(ls) : ls[i] \in Seq(LineChars)
  OBVIOUS
<1>2. \A i \in 1 .. Len(ls) : ls[i] \in Text
  BY <1>1, LineCharsAre, Zenon DEF Text
<1>3. \A i \in 1 .. Len(ls) : ls[i] \o CRLF \in Text
  BY <1>2, CrlfIs, Zenon DEF Text
<1>4. Ended(ls) = [i \in 1 .. Len(ls) |-> ls[i] \o CRLF]
  BY <1>1, Zenon DEF Ended
<1>5. QED
  BY <1>1, <1>2, <1>3, <1>4

\* Lines that were sent with a line end each are the lines found.
LEMMA LinesBack ==
    ASSUME NEW ls \in Seq(Seq(LineChars))
    PROVE  Joined(Ended(ls)) \in Text /\ Lines(Joined(Ended(ls))) = ls
<1>1. PICK n \in Nat : n = Len(ls)
  OBVIOUS
<1>2. PICK ws \in Seq(Text) : /\ ws = Ended(ls) /\ n = Len(ws)
                              /\ \A i \in 1 .. n : ls[i] \in Seq(LineChars) /\ ws[i] = ls[i] \o CRLF
  BY <1>1, EndedIs
<1>3. PICK e \in Text : e = <<>>
  BY EmptySeq
<1>4. PICK f : f = [k \in 0 .. n |-> Split(SubSeq(ls, 1, k), e)]
  OBVIOUS
<1>5. Seq(Seq(LineChars)) \subseteq Seq(Text)
  BY LineCharsAre, SeqMonotonic
<1>6. ASSUME NEW k \in 0 .. n PROVE SubSeq(ls, 1, k) \in Seq(Text) /\ Split(SubSeq(ls, 1, k), e) \in Splitter
  <2>1. 1 \in 1 .. n + 1 /\ k \in 0 .. n /\ k \in Nat /\ k = k - 1 + 1
    OBVIOUS
  <2>2. SubSeq(ls, 1, k) \in Seq(Seq(LineChars))
    BY <1>1, <2>1, Segment
  <2>3. SubSeq(ls, 1, k) \in Seq(Text)
    BY <1>5, <2>2, Zenon
  <2>4. QED
    BY <2>3, SplitType, Zenon DEF Text
<1>7. IsMap(f, 0 .. n, Splitter)
  BY <1>4, <1>6 DEF IsMap
<1>8. ASSUME NEW k \in 1 .. n PROVE Loop(Splitting, f[k - 1], ws[k]) = f[k]
  <2>1. k - 1 \in 0 .. n /\ k \in 0 .. n /\ k \in 1 .. Len(ls)
    BY <1>1
  <2>2. PICK a \in Seq(Text) : a = SubSeq(ls, 1, k - 1)
    BY <1>6, <2>1, Zenon
  <2>3. PICK l \in Seq(LineChars) : l = ls[k] /\ ws[k] = l \o CRLF
    BY <1>2, Zenon
  <2>4. SubSeq(ls, 1, k) = Append(a, l)
    BY <2>1, <2>2, <2>3, OneLonger
  <2>5. Loop(Splitting, Split(a, <<>>), l \o CRLF) = Split(Append(a, l), <<>>)
    BY SplitLine
  <2>6. f[k - 1] = Split(SubSeq(ls, 1, k - 1), e) /\ f[k] = Split(SubSeq(ls, 1, k), e)
    BY <1>4, <2>1
  <2>7. QED
    BY <1>3, <2>2, <2>3, <2>4, <2>5, <2>6, Zenon
<1>9. Joined(ws) \in Text /\ Loop(Splitting, Val(f, 0), Joined(ws)) = Val(f, n)
  <2>1. Stages(Splitting, f, ws)
    BY <1>2, <1>8, Zenon DEF Stages
  <2>2. n = Len(ws)
    BY <1>2
  <2>3. QED
    BY <1>7, <2>1, <2>2, SplitStep, LoopStages
<1>10. f[0] = Split(SubSeq(ls, 1, 0), e) /\ f[n] = Split(SubSeq(ls, 1, n), e)
  BY <1>4
<1>11. SubSeq(ls, 1, 0) = <<>> /\ SubSeq(ls, 1, n) = ls
  BY <1>1, NoneOf, AllOf
<1>12. Loop(Splitting, Split(<<>>, <<>>), Joined(ws)) = Split(ls, <<>>)
  BY <1>3, <1>9, <1>10, <1>11, Zenon DEF Val
<1>13. Split(ls, <<>>).line = <<>> /\ Split(ls, <<>>).lines = ls
  BY DEF Split
<1>14. Lines(Joined(ws)) = ls
  BY <1>12, <1>13, Zenon DEF Lines, Split
<1>15. QED
  BY <1>2, <1>9, <1>14, Zenon

LEMMA EndsInLine ==
    ASSUME NEW l \in Seq(LineChars), ~IsLast(l \o CRLF)
    PROVE  Wired(l \o CRLF)
<1>1. l \in Text /\ CR \in LineChars
  BY LineCharsAre
<1>2. Append(l, CR) \in Seq(LineChars)
  BY <1>1
<1>3. l \o CRLF = Append(Append(l, CR), LF)
  BY <1>1, CrlfIs, Zenon DEF Text
<1>4. QED
  BY <1>2, <1>3, Zenon DEF Wired

LEMMA StuffedWire ==
    ASSUME NEW l \in Seq(LineChars)
    PROVE  Wired(Stuffed(l) \o CRLF) /\ Unstuffed(Stuffed(l) \o CRLF) = l \o CRLF /\ Stuffed(l) \o CRLF \in Text
<1>1. l \in Text
  BY LineCharsAre
<1>2. ~IsLast(Stuffed(l) \o CRLF) /\ Unstuffed(Stuffed(l) \o CRLF) = l \o CRLF /\ Stuffed(l) \in Text
  BY <1>1, StuffedLine, Zenon DEF Text
<1>3. Stuffed(l) \in Seq(LineChars)
  <2>1. "." \in LineChars
    BY LineCharsAre
  <2>2. <<".">> \o l \in Seq(LineChars)
    BY <2>1
  <2>3. QED
    BY <2>2, Zenon DEF Stuffed
<1>4. QED
  BY <1>2, <1>3, EndsInLine, CrlfIs, Zenon DEF Text

\* What send_body writes is read up to its dot and no further.
LEMMA ReadBody ==
    ASSUME NEW m \in Text, NEW body \in Text
    PROVE  /\ SendBody(body) \in Text /\ Joined(Ended(Lines(body))) \in Text
           /\ Loop(Reading, Hears(m, <<>>), SendBody(body)) = Hears(m \o Joined(Ended(Lines(body))), <<>>)
<1>1. PICK ls \in Seq(Seq(LineChars)) : ls = Lines(body)
  BY LinesType
<1>2. PICK ws : ws = [i \in DOMAIN ls |-> Stuffed(ls[i]) \o CRLF]
  OBVIOUS
<1>3. DOMAIN ls = 1 .. Len(ls) /\ Len(ls) \in Nat /\ \A i \in 1 .. Len(ls) : ls[i] \in Seq(LineChars)
  OBVIOUS
<1>4. \A i \in 1 .. Len(ls) : Stuffed(ls[i]) \o CRLF \in Text
  BY <1>3, StuffedWire, Zenon
<1>5. ws \in Seq(Text) /\ Len(ws) = Len(ls) /\ \A i \in 1 .. Len(ls) : ws[i] = Stuffed(ls[i]) \o CRLF
  BY <1>2, <1>3, <1>4
<1>6. PICK us \in Seq(Text) : us = Ended(ls) /\ Len(us) = Len(ls) /\ \A i \in 1 .. Len(ls) : us[i] = ls[i] \o CRLF
  BY EndedIs
<1>7. \A i \in 1 .. Len(ws) : Wired(ws[i]) /\ us[i] = Unstuffed(ws[i])
  BY <1>3, <1>5, <1>6, StuffedWire, Zenon
<1>8. SendBody(body) = Joined(ws)
  BY <1>1, <1>2, Zenon DEF SendBody
<1>9. Len(us) = Len(ws)
  BY <1>5, <1>6, Zenon
<1>10. /\ Joined(ws) \in Text /\ Joined(us) \in Text
       /\ Loop(Reading, Hears(m, <<>>), Joined(ws)) = Hears(m \o Joined(us), <<>>)
  BY <1>5, <1>7, <1>9, ReadLines, Zenon DEF Text
<1>11. QED
  BY <1>1, <1>6, <1>8, <1>10, Zenon

-----------------------------------------------------------------------------
(* parse_message: its states and steps.                                    *)

Header == [name : Text, value : Text]
With(n, v) == [name |-> n, value |-> v]
ParserAt(m, H, n, b) == [mode |-> m, headers |-> H, name |-> n, body |-> b]
ParserModes == {"line", "name", "skip", "value", "return", "blank", "body", "failed"}

LEMMA ParserAtType ==
    ASSUME NEW m \in ParserModes, NEW H \in Seq(Header), NEW n \in Text, NEW b \in Text
    PROVE  ParserAt(m, H, n, b) \in Parser
  BY DEF ParserAt, Parser, ParserModes, Header

LEMMA ParserAtOnly ==
    ASSUME NEW st \in Parser
    PROVE  /\ st = ParserAt(st.mode, st.headers, st.name, st.body)
           /\ st.mode \in ParserModes /\ st.headers \in Seq(Header) /\ st.name \in Text /\ st.body \in Text
  BY DEF ParserAt, Parser, ParserModes, Header

LEMMA ParserAtFields ==
    ASSUME NEW m, NEW H, NEW n, NEW b
    PROVE  /\ ParserAt(m, H, n, b).mode = m /\ ParserAt(m, H, n, b).headers = H
           /\ ParserAt(m, H, n, b).name = n /\ ParserAt(m, H, n, b).body = b
  BY DEF ParserAt

LEMMA ParserAre ==
  Parser = [mode : ParserModes, headers : Seq(Header), name : Text, body : Text]
  BY Zenon DEF Parser, ParserModes, Header

LEMMA ParserAtMode ==
    ASSUME NEW st \in Parser, NEW x \in ParserModes
    PROVE [st EXCEPT !.mode = x] = ParserAt(x, st.headers, st.name, st.body)
<1>1. PICK new : new = [st EXCEPT !.mode = x]
  OBVIOUS
<1>2. new \in Parser /\ new.mode = x /\ new.headers = st.headers /\ new.name = st.name /\ new.body = st.body
  BY <1>1, ParserAre
<1>3. QED
  BY <1>1, <1>2, ParserAtOnly, Zenon

LEMMA ParserAtModeHeaders ==
    ASSUME NEW st \in Parser, NEW x \in ParserModes, NEW y \in Seq(Header)
    PROVE [st EXCEPT !.mode = x, !.headers = y] = ParserAt(x, y, st.name, st.body)
<1>1. PICK new : new = [st EXCEPT !.mode = x, !.headers = y]
  OBVIOUS
<1>2. new \in Parser /\ new.mode = x /\ new.headers = y /\ new.name = st.name /\ new.body = st.body
  BY <1>1, ParserAre
<1>3. QED
  BY <1>1, <1>2, ParserAtOnly, Zenon

LEMMA ParserAtModeName ==
    ASSUME NEW st \in Parser, NEW x \in ParserModes, NEW y \in Text
    PROVE [st EXCEPT !.mode = x, !.name = y] = ParserAt(x, st.headers, y, st.body)
<1>1. PICK new : new = [st EXCEPT !.mode = x, !.name = y]
  OBVIOUS
<1>2. new \in Parser /\ new.mode = x /\ new.headers = st.headers /\ new.name = y /\ new.body = st.body
  BY <1>1, ParserAre
<1>3. QED
  BY <1>1, <1>2, ParserAtOnly, Zenon

LEMMA ParserAtName ==
    ASSUME NEW st \in Parser, NEW y \in Text
    PROVE [st EXCEPT !.name = y] = ParserAt(st.mode, st.headers, y, st.body)
<1>1. PICK new : new = [st EXCEPT !.name = y]
  OBVIOUS
<1>2. new \in Parser /\ new.mode = st.mode /\ new.headers = st.headers /\ new.name = y /\ new.body = st.body
  BY <1>1, ParserAre
<1>3. QED
  BY <1>1, <1>2, ParserAtOnly, Zenon

LEMMA ParserAtBody ==
    ASSUME NEW st \in Parser, NEW y \in Text
    PROVE [st EXCEPT !.body = y] = ParserAt(st.mode, st.headers, st.name, y)
<1>1. PICK new : new = [st EXCEPT !.body = y]
  OBVIOUS
<1>2. new \in Parser /\ new.mode = st.mode /\ new.headers = st.headers /\ new.name = st.name /\ new.body = y
  BY <1>1, ParserAre
<1>3. QED
  BY <1>1, <1>2, ParserAtOnly, Zenon

LEMMA ParserAtNewHeader ==
    ASSUME NEW st \in Parser, NEW x \in ParserModes, NEW y \in Text, NEW z \in Seq(Header)
    PROVE [st EXCEPT !.mode = x, !.name = y, !.headers = z] = ParserAt(x, z, y, st.body)
<1>1. PICK new : new = [st EXCEPT !.mode = x, !.name = y, !.headers = z]
  OBVIOUS
<1>2. new \in Parser /\ new.mode = x /\ new.headers = z /\ new.name = y /\ new.body = st.body
  BY <1>1, ParserAre
<1>3. QED
  BY <1>1, <1>2, ParserAtOnly, Zenon

LEMMA WithType ==
    ASSUME NEW n \in Text, NEW v \in Text
    PROVE  With(n, v) \in Header /\ With(n, v).name = n /\ With(n, v).value = v
  BY DEF With, Header

LEMMA WithOnly ==
    ASSUME NEW h \in Header
    PROVE  h.name \in Text /\ h.value \in Text /\ h = With(h.name, h.value)
  BY DEF With, Header

LEMMA WithValue ==
    ASSUME NEW h \in Header, NEW v \in Text
    PROVE  [h EXCEPT !.value = v] = With(h.name, v)
<1>1. PICK new : new = [h EXCEPT !.value = v]
  OBVIOUS
<1>2. new \in Header /\ new.name = h.name /\ new.value = v
  BY <1>1 DEF Header
<1>3. QED
  BY <1>1, <1>2, WithOnly, Zenon

LEMMA GrownIs ==
    ASSUME NEW H \in Seq(Header), NEW c \in Char
    PROVE  Grown(H, c) = [i \in 1 .. Len(H) |->
                            IF i = Len(H) THEN With(H[i].name, Append(H[i].value, c)) ELSE H[i]]
<1>1. DOMAIN H = 1 .. Len(H)
  OBVIOUS
<1>2. \A i \in 1 .. Len(H) : [H[i] EXCEPT !.value = Append(@, c)] = With(H[i].name, Append(H[i].value, c))
  <2> SUFFICES ASSUME NEW i \in 1 .. Len(H) PROVE [H[i] EXCEPT !.value = Append(@, c)] = With(H[i].name, Append(H[i].value, c))
    OBVIOUS
  <2>1. PICK h \in Header : h = H[i]
    OBVIOUS
  <2>2. PICK v \in Text : v = Append(h.value, c)
    <3>1. h.value \in Text
      BY WithOnly
    <3>2. Append(h.value, c) \in Text
      BY <3>1
    <3>3. QED
      BY <3>2, Zenon
  <2>3. [h EXCEPT !.value = v] = With(h.name, v)
    BY WithValue
  <2>4. QED
    BY <2>1, <2>2, <2>3, Zenon
<1>3. QED
  BY <1>1, <1>2, Zenon DEF Grown

LEMMA GrownType ==
    ASSUME NEW H \in Seq(Header), NEW c \in Char
    PROVE  Grown(H, c) \in Seq(Header)
<1>1. \A i \in 1 .. Len(H) : H[i] \in Header /\ With(H[i].name, Append(H[i].value, c)) \in Header
  <2> SUFFICES ASSUME NEW i \in 1 .. Len(H) PROVE H[i] \in Header /\ With(H[i].name, Append(H[i].value, c)) \in Header
    OBVIOUS
  <2>1. PICK h \in Header : h = H[i]
    OBVIOUS
  <2>2. h.name \in Text /\ h.value \in Text
    BY WithOnly
  <2>3. Append(h.value, c) \in Text
    BY <2>2
  <2>4. QED
    BY <2>1, <2>2, <2>3, WithType, Zenon
<1>2. [i \in 1 .. Len(H) |-> IF i = Len(H) THEN With(H[i].name, Append(H[i].value, c)) ELSE H[i]] \in Seq(Header)
  BY <1>1
<1>3. QED
  BY <1>2, GrownIs, Zenon

\* Only the last header grows.
LEMMA GrownLast ==
    ASSUME NEW G \in Seq(Header), NEW n \in Text, NEW v \in Text, NEW c \in Char
    PROVE  Grown(Append(G, With(n, v)), c) = Append(G, With(n, Append(v, c)))
<1>1. PICK x \in Text : x = Append(v, c)
  <2>1. Append(v, c) \in Text
    OBVIOUS
  <2>2. QED
    BY <2>1, Zenon
<1>2. PICK h \in Header, k \in Header : h = With(n, v) /\ h.name = n /\ h.value = v /\ k = With(n, x)
  BY WithType, Zenon DEF Text
<1>3. PICK H \in Seq(Header) : H = Append(G, h)
  <2>1. Append(G, h) \in Seq(Header)
    OBVIOUS
  <2>2. QED
    BY <2>1, Zenon
<1>4. PICK l \in Nat : l = Len(G)
  OBVIOUS
<1>5. Len(H) = l + 1 /\ H[l + 1] = h /\ \A i \in 1 .. l : H[i] = G[i]
  BY <1>3, <1>4
<1>6. PICK R \in Seq(Header) : R = Grown(H, c)
  BY GrownType
<1>7. PICK K \in Seq(Header) : K = Append(G, k)
  <2>1. Append(G, k) \in Seq(Header)
    OBVIOUS
  <2>2. QED
    BY <2>1, Zenon
<1>8. Len(K) = l + 1 /\ K[l + 1] = k /\ \A i \in 1 .. l : K[i] = G[i]
  BY <1>4, <1>7
<1>9. R = [i \in 1 .. l + 1 |-> IF i = l + 1 THEN With(H[i].name, Append(H[i].value, c)) ELSE H[i]]
  <2>1. \A q : q = Len(H) => R = [i \in 1 .. q |-> IF i = q THEN With(H[i].name, Append(H[i].value, c)) ELSE H[i]]
    BY <1>6, GrownIs
  <2>2. QED
    BY <1>5, <2>1, Zenon
<1>10. With(H[l + 1].name, Append(H[l + 1].value, c)) = k
  BY <1>1, <1>2, <1>5, Zenon
<1>11. R = [i \in 1 .. l + 1 |-> IF i = l + 1 THEN k ELSE H[i]]
  BY <1>9, <1>10, Zenon
<1>12. Len(R) = l + 1 /\ \A i \in 1 .. l + 1 : R[i] = K[i]
  BY <1>5, <1>8, <1>11
<1>13. R = K
  BY <1>8, <1>12, SameText
<1>14. QED
  BY <1>1, <1>2, <1>3, <1>6, <1>7, <1>13, Zenon

LEMMA ParseChars ==
    /\ CR \notin Blanks /\ LF \notin Blanks /\ ":" \notin Blanks /\ CR # LF /\ CR # ":" /\ LF # ":" /\ " " \in Blanks
  BY DEF CR, LF, Blanks

LEMMA ParseKnown == CR \in Char /\ LF \in Char /\ ":" \in Char /\ " " \in Char /\ Blanks \subseteq Char
  BY CharAssumption DEF KnownChars, CR, LF, Blanks

LEMMA ModesAre ==
    /\ "line" \in ParserModes /\ "name" \in ParserModes /\ "skip" \in ParserModes /\ "value" \in ParserModes
    /\ "return" \in ParserModes /\ "blank" \in ParserModes /\ "body" \in ParserModes /\ "failed" \in ParserModes
  BY DEF ParserModes

LEMMA Being ==
    ASSUME NEW m \in ParserModes, NEW H \in Seq(Header), NEW n \in Text, NEW b \in Text
    PROVE  \E st \in Parser : st = ParserAt(m, H, n, b) /\ st.mode = m /\ st.headers = H /\ st.name = n /\ st.body = b
<1>1. ParserAt(m, H, n, b) \in Parser
  BY ParserAtType
<1>2. /\ ParserAt(m, H, n, b).mode = m /\ ParserAt(m, H, n, b).headers = H
      /\ ParserAt(m, H, n, b).name = n /\ ParserAt(m, H, n, b).body = b
  BY ParserAtFields
<1>3. QED
  BY <1>1, <1>2, Zenon

\* The steps, one lemma for each mode.
LEMMA AtLine ==
    ASSUME NEW H \in Seq(Header), NEW n \in Text, NEW b \in Text, NEW c \in Char
    PROVE  /\ c \in Blanks /\ H # <<>> => Parse(ParserAt("line", H, n, b), c) = ParserAt("skip", Grown(H, " "), n, b)
           /\ c = CR => Parse(ParserAt("line", H, n, b), c) = ParserAt("blank", H, n, b)
           /\ c \in {":", LF} => Parse(ParserAt("line", H, n, b), c) = ParserAt("failed", H, n, b)
           /\ ~(c \in Blanks /\ H # <<>>) /\ c \notin {CR, ":", LF}
                => Parse(ParserAt("line", H, n, b), c) = ParserAt("name", H, <<c>>, b)
<1>1. PICK st \in Parser : /\ st = ParserAt("line", H, n, b) /\ st.mode = "line"
                           /\ st.headers = H /\ st.name = n /\ st.body = b
  BY ModesAre, Being
<1>2. Parse(st, c) = Line(st, c)
  BY <1>1, Zenon DEF Parse
<1>3. ASSUME c \in Blanks, H # <<>> PROVE Line(st, c) = ParserAt("skip", Grown(H, " "), n, b)
  <2>1. PICK K \in Seq(Header) : K = Grown(H, " ")
    BY GrownType, ParseKnown
  <2>2. Line(st, c) = [st EXCEPT !.mode = "skip", !.headers = K]
    BY <1>1, <1>3, <2>1, ParseChars, Zenon DEF Line
  <2>3. [st EXCEPT !.mode = "skip", !.headers = K] = ParserAt("skip", K, st.name, st.body)
    BY ParserAtModeHeaders, ModesAre
  <2>4. QED
    BY <1>1, <2>1, <2>2, <2>3, Zenon
<1>4. ASSUME c = CR PROVE Line(st, c) = ParserAt("blank", H, n, b)
  <2>1. Line(st, c) = [st EXCEPT !.mode = "blank"]
    BY <1>1, <1>4, ParseChars, Zenon DEF Line
  <2>2. [st EXCEPT !.mode = "blank"] = ParserAt("blank", st.headers, st.name, st.body)
    BY ParserAtMode, ModesAre
  <2>3. QED
    BY <1>1, <2>1, <2>2, Zenon
<1>5. ASSUME c \in {":", LF} PROVE Line(st, c) = ParserAt("failed", H, n, b)
  <2>1. Line(st, c) = [st EXCEPT !.mode = "failed"]
    BY <1>1, <1>5, ParseChars, Zenon DEF Line
  <2>2. [st EXCEPT !.mode = "failed"] = ParserAt("failed", st.headers, st.name, st.body)
    BY ParserAtMode, ModesAre
  <2>3. QED
    BY <1>1, <2>1, <2>2, Zenon
<1>6. ASSUME ~(c \in Blanks /\ H # <<>>), c \notin {CR, ":", LF} PROVE Line(st, c) = ParserAt("name", H, <<c>>, b)
  <2>1. PICK w \in Text : w = <<c>>
    <3>1. <<c>> \in Text
      OBVIOUS
    <3>2. QED
      BY <3>1, Zenon
  <2>2. Line(st, c) = [st EXCEPT !.mode = "name", !.name = w]
    BY <1>1, <1>6, <2>1, Zenon DEF Line
  <2>3. [st EXCEPT !.mode = "name", !.name = w] = ParserAt("name", st.headers, w, st.body)
    BY ParserAtModeName, ModesAre
  <2>4. QED
    BY <1>1, <2>1, <2>2, <2>3, Zenon
<1>7. QED
  BY <1>1, <1>2, <1>3, <1>4, <1>5, <1>6, Zenon

LEMMA AtName ==
    ASSUME NEW H \in Seq(Header), NEW n \in Text, NEW b \in Text, NEW c \in Char
    PROVE  /\ c = ":" => Parse(ParserAt("name", H, n, b), c) = ParserAt("skip", Append(H, With(n, <<>>)), <<>>, b)
           /\ c \in {CR, LF} => Parse(ParserAt("name", H, n, b), c) = ParserAt("failed", H, n, b)
           /\ c \notin {":", CR, LF} => Parse(ParserAt("name", H, n, b), c) = ParserAt("name", H, Append(n, c), b)
<1>1. PICK st \in Parser : /\ st = ParserAt("name", H, n, b) /\ st.mode = "name"
                           /\ st.headers = H /\ st.name = n /\ st.body = b
  BY ModesAre, Being
<1>2. ASSUME c = ":" PROVE Parse(st, c) = ParserAt("skip", Append(H, With(n, <<>>)), <<>>, b)
  <2>1. PICK e \in Text : e = <<>>
    BY EmptySeq
  <2>2. PICK K \in Seq(Header) : K = Append(H, With(n, e))
    <3>1. With(n, e) \in Header
      BY WithType
    <3>2. Append(H, With(n, e)) \in Seq(Header)
      BY <3>1
    <3>3. QED
      BY <3>2, Zenon
  <2>3. Parse(st, c) = [st EXCEPT !.mode = "skip", !.name = e, !.headers = K]
    BY <1>1, <1>2, <2>1, <2>2, ParseChars, Zenon DEF Parse, With
  <2>4. [st EXCEPT !.mode = "skip", !.name = e, !.headers = K] = ParserAt("skip", K, e, st.body)
    BY ParserAtNewHeader, ModesAre
  <2>5. QED
    BY <1>1, <2>1, <2>2, <2>3, <2>4, Zenon
<1>3. ASSUME c \in {CR, LF} PROVE Parse(st, c) = ParserAt("failed", H, n, b)
  <2>1. Parse(st, c) = [st EXCEPT !.mode = "failed"]
    BY <1>1, <1>3, ParseChars, Zenon DEF Parse
  <2>2. [st EXCEPT !.mode = "failed"] = ParserAt("failed", st.headers, st.name, st.body)
    BY ParserAtMode, ModesAre
  <2>3. QED
    BY <1>1, <2>1, <2>2, Zenon
<1>4. ASSUME c \notin {":", CR, LF} PROVE Parse(st, c) = ParserAt("name", H, Append(n, c), b)
  <2>1. PICK w \in Text : w = Append(n, c)
    <3>1. Append(n, c) \in Text
      OBVIOUS
    <3>2. QED
      BY <3>1, Zenon
  <2>2. Parse(st, c) = [st EXCEPT !.name = w]
    BY <1>1, <1>4, <2>1, Zenon DEF Parse
  <2>3. [st EXCEPT !.name = w] = ParserAt(st.mode, st.headers, w, st.body)
    BY ParserAtName
  <2>4. QED
    BY <1>1, <2>1, <2>2, <2>3, Zenon
<1>5. QED
  BY <1>1, <1>2, <1>3, <1>4, Zenon

LEMMA AtSkip ==
    ASSUME NEW H \in Seq(Header), NEW n \in Text, NEW b \in Text, NEW c \in Char
    PROVE  /\ c \in Blanks => Parse(ParserAt("skip", H, n, b), c) = ParserAt("skip", H, n, b)
           /\ c = CR => Parse(ParserAt("skip", H, n, b), c) = ParserAt("return", H, n, b)
           /\ c = LF => Parse(ParserAt("skip", H, n, b), c) = ParserAt("failed", H, n, b)
           /\ c \notin Blanks /\ c \notin {CR, LF} => Parse(ParserAt("skip", H, n, b), c) = ParserAt("value", Grown(H, c), n, b)
<1>1. PICK st \in Parser : /\ st = ParserAt("skip", H, n, b) /\ st.mode = "skip"
                           /\ st.headers = H /\ st.name = n /\ st.body = b
  BY ModesAre, Being
<1>2. c \in Blanks => Parse(st, c) = st
  BY <1>1, Zenon DEF Parse
<1>3. ASSUME c = CR PROVE Parse(st, c) = ParserAt("return", H, n, b)
  <2>1. Parse(st, c) = [st EXCEPT !.mode = "return"]
    BY <1>1, <1>3, ParseChars, Zenon DEF Parse
  <2>2. [st EXCEPT !.mode = "return"] = ParserAt("return", st.headers, st.name, st.body)
    BY ParserAtMode, ModesAre
  <2>3. QED
    BY <1>1, <2>1, <2>2, Zenon
<1>4. ASSUME c = LF PROVE Parse(st, c) = ParserAt("failed", H, n, b)
  <2>1. Parse(st, c) = [st EXCEPT !.mode = "failed"]
    BY <1>1, <1>4, ParseChars, Zenon DEF Parse
  <2>2. [st EXCEPT !.mode = "failed"] = ParserAt("failed", st.headers, st.name, st.body)
    BY ParserAtMode, ModesAre
  <2>3. QED
    BY <1>1, <2>1, <2>2, Zenon
<1>5. ASSUME c \notin Blanks, c \notin {CR, LF} PROVE Parse(st, c) = ParserAt("value", Grown(H, c), n, b)
  <2>1. PICK K \in Seq(Header) : K = Grown(H, c)
    BY GrownType
  <2>2. Parse(st, c) = [st EXCEPT !.mode = "value", !.headers = K]
    BY <1>1, <1>5, <2>1, Zenon DEF Parse
  <2>3. [st EXCEPT !.mode = "value", !.headers = K] = ParserAt("value", K, st.name, st.body)
    BY ParserAtModeHeaders, ModesAre
  <2>4. QED
    BY <1>1, <2>1, <2>2, <2>3, Zenon
<1>6. QED
  BY <1>1, <1>2, <1>3, <1>4, <1>5, Zenon

LEMMA AtValue ==
    ASSUME NEW H \in Seq(Header), NEW n \in Text, NEW b \in Text, NEW c \in Char
    PROVE  /\ c = CR => Parse(ParserAt("value", H, n, b), c) = ParserAt("return", H, n, b)
           /\ c = LF => Parse(ParserAt("value", H, n, b), c) = ParserAt("failed", H, n, b)
           /\ c \notin {CR, LF} => Parse(ParserAt("value", H, n, b), c) = ParserAt("value", Grown(H, c), n, b)
<1>1. PICK st \in Parser : /\ st = ParserAt("value", H, n, b) /\ st.mode = "value"
                           /\ st.headers = H /\ st.name = n /\ st.body = b
  BY ModesAre, Being
<1>2. ASSUME c = CR PROVE Parse(st, c) = ParserAt("return", H, n, b)
  <2>1. Parse(st, c) = [st EXCEPT !.mode = "return"]
    BY <1>1, <1>2, ParseChars, Zenon DEF Parse
  <2>2. [st EXCEPT !.mode = "return"] = ParserAt("return", st.headers, st.name, st.body)
    BY ParserAtMode, ModesAre
  <2>3. QED
    BY <1>1, <2>1, <2>2, Zenon
<1>3. ASSUME c = LF PROVE Parse(st, c) = ParserAt("failed", H, n, b)
  <2>1. Parse(st, c) = [st EXCEPT !.mode = "failed"]
    BY <1>1, <1>3, ParseChars, Zenon DEF Parse
  <2>2. [st EXCEPT !.mode = "failed"] = ParserAt("failed", st.headers, st.name, st.body)
    BY ParserAtMode, ModesAre
  <2>3. QED
    BY <1>1, <2>1, <2>2, Zenon
<1>4. ASSUME c \notin {CR, LF} PROVE Parse(st, c) = ParserAt("value", Grown(H, c), n, b)
  <2>1. PICK K \in Seq(Header) : K = Grown(H, c)
    BY GrownType
  <2>2. Parse(st, c) = [st EXCEPT !.mode = "value", !.headers = K]
    BY <1>1, <1>4, <2>1, Zenon DEF Parse
  <2>3. [st EXCEPT !.mode = "value", !.headers = K] = ParserAt("value", K, st.name, st.body)
    BY ParserAtModeHeaders, ModesAre
  <2>4. QED
    BY <1>1, <2>1, <2>2, <2>3, Zenon
<1>5. QED
  BY <1>1, <1>2, <1>3, <1>4, Zenon

LEMMA AtReturn ==
    ASSUME NEW H \in Seq(Header), NEW n \in Text, NEW b \in Text, NEW c \in Char
    PROVE  /\ c = LF => Parse(ParserAt("return", H, n, b), c) = ParserAt("line", H, n, b)
           /\ c # LF => Parse(ParserAt("return", H, n, b), c) = ParserAt("failed", H, n, b)
<1>1. PICK st \in Parser : /\ st = ParserAt("return", H, n, b) /\ st.mode = "return"
                           /\ st.headers = H /\ st.name = n /\ st.body = b
  BY ModesAre, Being
<1>2. Parse(st, c) = [st EXCEPT !.mode = IF c = LF THEN "line" ELSE "failed"]
  BY <1>1, Zenon DEF Parse
<1>3. \A x \in ParserModes : [st EXCEPT !.mode = x] = ParserAt(x, st.headers, st.name, st.body)
  BY ParserAtMode
<1>4. QED
  BY <1>1, <1>2, <1>3, ModesAre, Zenon

LEMMA AtBlank ==
    ASSUME NEW H \in Seq(Header), NEW n \in Text, NEW b \in Text, NEW c \in Char
    PROVE  /\ c = LF => Parse(ParserAt("blank", H, n, b), c) = ParserAt("body", H, n, b)
           /\ c # LF => Parse(ParserAt("blank", H, n, b), c) = ParserAt("failed", H, n, b)
<1>1. PICK st \in Parser : /\ st = ParserAt("blank", H, n, b) /\ st.mode = "blank"
                           /\ st.headers = H /\ st.name = n /\ st.body = b
  BY ModesAre, Being
<1>2. Parse(st, c) = [st EXCEPT !.mode = IF c = LF THEN "body" ELSE "failed"]
  BY <1>1, Zenon DEF Parse
<1>3. \A x \in ParserModes : [st EXCEPT !.mode = x] = ParserAt(x, st.headers, st.name, st.body)
  BY ParserAtMode
<1>4. QED
  BY <1>1, <1>2, <1>3, ModesAre, Zenon

LEMMA AtBody ==
    ASSUME NEW H \in Seq(Header), NEW n \in Text, NEW b \in Text, NEW c \in Char
    PROVE  /\ Parse(ParserAt("body", H, n, b), c) = ParserAt("body", H, n, Append(b, c))
           /\ Parse(ParserAt("failed", H, n, b), c) = ParserAt("failed", H, n, b)
<1>1. PICK st \in Parser : /\ st = ParserAt("body", H, n, b) /\ st.mode = "body"
                           /\ st.headers = H /\ st.name = n /\ st.body = b
  BY ModesAre, Being
<1>2. PICK w \in Text : w = Append(b, c)
  <2>1. Append(b, c) \in Text
    OBVIOUS
  <2>2. QED
    BY <2>1, Zenon
<1>3. Parse(st, c) = [st EXCEPT !.body = w]
  BY <1>1, <1>2, Zenon DEF Parse
<1>4. [st EXCEPT !.body = w] = ParserAt(st.mode, st.headers, st.name, w)
  BY ParserAtBody
<1>5. PICK sf \in Parser : sf = ParserAt("failed", H, n, b) /\ sf.mode = "failed"
  BY ModesAre, Being
<1>6. Parse(sf, c) = sf
  BY <1>5, Zenon DEF Parse
<1>7. QED
  BY <1>1, <1>2, <1>3, <1>4, <1>5, <1>6, Zenon

-----------------------------------------------------------------------------
(* parse_message: what it accepts.  Names are not empty and have no colon  *)
(* or line end, values no line end, and only the first name may begin with *)
(* a blank (GoodHeaders).                                                  *)

\* What parse_headers lets into a name and into a value.
NameChars == Char \ {":", CR, LF}
ValueChars == Char \ {CR, LF}
GoodName(n) == n \in Seq(NameChars) /\ n # <<>>
Named(H, n) == GoodName(n) /\ (H # <<>> => n[1] \notin Blanks)
GoodHeaders(H) ==
    \A i \in 1 .. Len(H) : /\ GoodName(H[i].name) /\ H[i].value \in Seq(ValueChars)
                           /\ i # 1 => H[i].name[1] \notin Blanks
WellParsed(m, H, n) == GoodHeaders(H) /\ (m = "name" => Named(H, n))

LEMMA NameCharsAre ==
    /\ NameChars \in SUBSET Char /\ ValueChars \in SUBSET Char /\ NameChars \subseteq LineChars
    /\ ValueChars \subseteq LineChars
    /\ Seq(NameChars) \subseteq Text /\ Seq(ValueChars) \subseteq Text
    /\ Seq(NameChars) \subseteq Seq(LineChars) /\ Seq(ValueChars) \subseteq Seq(LineChars)
<1>1. NameChars \subseteq LineChars /\ ValueChars \subseteq LineChars /\ NameChars \subseteq Char /\ ValueChars \subseteq Char
  BY DEF NameChars, ValueChars, LineChars
<1>2. QED
  BY <1>1, SeqMonotonic

\* A new header with a good name.
LEMMA GoodAdd ==
    ASSUME NEW H \in Seq(Header), NEW n \in Text, GoodHeaders(H), Named(H, n)
    PROVE  GoodHeaders(Append(H, With(n, <<>>)))
<1>1. PICK e \in Text : e = <<>> /\ e \in Seq(ValueChars)
  <2>1. \A C : <<>> \in Seq(C)
    BY EmptySeq
  <2>2. QED
    BY <2>1, Zenon
<1>2. PICK h \in Header : h = With(n, e) /\ h.name = n /\ h.value = e
  BY WithType
<1>3. PICK l \in Nat : l = Len(H)
  OBVIOUS
<1>4. PICK K \in Seq(Header) : K = Append(H, h) /\ Len(K) = l + 1 /\ K[l + 1] = h /\ \A i \in 1 .. l : K[i] = H[i]
  <2>1. /\ Append(H, h) \in Seq(Header) /\ Len(Append(H, h)) = l + 1 /\ Append(H, h)[l + 1] = h
        /\ \A i \in 1 .. l : Append(H, h)[i] = H[i]
    BY <1>3
  <2>2. QED
    BY <2>1, Zenon
<1>5. ASSUME NEW i \in 1 .. Len(K)
      PROVE  /\ GoodName(K[i].name) /\ K[i].value \in Seq(ValueChars)
             /\ i # 1 => K[i].name[1] \notin Blanks
  <2>1. i \in 1 .. l \/ i = l + 1
    BY <1>4
  <2>2. CASE i \in 1 .. l
    <3>1. K[i] = H[i]
      BY <1>4, <2>2, Zenon
    <3>2. QED
      BY <1>3, <2>2, <3>1, Zenon DEF GoodHeaders
  <2>3. CASE i = l + 1
    <3>1. i # 1 => H # <<>>
      BY <1>3, <2>3, EmptySeq
    <3>2. K[i] = h
      BY <1>4, <2>3, Zenon
    <3>3. QED
      BY <1>1, <1>2, <3>1, <3>2, Zenon DEF Named
  <2>4. QED
    BY <2>1, <2>2, <2>3
<1>6. GoodHeaders(K)
  BY <1>5, Zenon DEF GoodHeaders
<1>7. QED
  BY <1>1, <1>2, <1>4, <1>6, Zenon

\* A value that grows by a character of a value.
LEMMA GoodGrown ==
    ASSUME NEW H \in Seq(Header), NEW c \in ValueChars, GoodHeaders(H)
    PROVE  GoodHeaders(Grown(H, c))
<1>1. c \in Char
  BY NameCharsAre
<1>2. PICK K \in Seq(Header) : K = Grown(H, c)
  BY <1>1, GrownType
<1>3. PICK l \in Nat : l = Len(H)
  OBVIOUS
<1>4. K = [i \in 1 .. l |-> IF i = l THEN With(H[i].name, Append(H[i].value, c)) ELSE H[i]]
  <2>1. \A q : q = Len(H) => K = [i \in 1 .. q |-> IF i = q THEN With(H[i].name, Append(H[i].value, c)) ELSE H[i]]
    BY <1>1, <1>2, GrownIs
  <2>2. QED
    BY <1>3, <2>1, Zenon
<1>5. Len(K) = l
  BY <1>4
<1>6. ASSUME NEW i \in 1 .. l
      PROVE  /\ GoodName(K[i].name) /\ K[i].value \in Seq(ValueChars)
             /\ i # 1 => K[i].name[1] \notin Blanks
  <2>1. PICK h \in Header : h = H[i]
    BY <1>3
  <2>2. GoodName(h.name) /\ h.value \in Seq(ValueChars) /\ (i # 1 => h.name[1] \notin Blanks)
    BY <1>3, <2>1, Zenon DEF GoodHeaders
  <2>3. Append(h.value, c) \in Seq(ValueChars)
    BY <2>2
  <2>4. Append(h.value, c) \in Text /\ h.name \in Text
    BY <2>3, NameCharsAre, WithOnly
  <2>5. With(h.name, Append(h.value, c)).name = h.name /\ With(h.name, Append(h.value, c)).value = Append(h.value, c)
    BY <2>4, WithType, Zenon DEF Text
  <2>6. K[i] = IF i = l THEN With(H[i].name, Append(H[i].value, c)) ELSE H[i]
    BY <1>4, Zenon
  <2>7. QED
    BY <2>1, <2>2, <2>3, <2>5, <2>6, Zenon
<1>7. QED
  BY <1>2, <1>5, <1>6, Zenon DEF GoodHeaders

\* A step of the parser keeps what is parsed well.
Moves(m, H, n, b, c) ==
    \E m2 \in ParserModes, H2 \in Seq(Header), n2 \in Text, b2 \in Text :
        /\ Parse(ParserAt(m, H, n, b), c) = ParserAt(m2, H2, n2, b2)
        /\ WellParsed(m, H, n) => WellParsed(m2, H2, n2)

LEMMA MovesTo ==
    ASSUME NEW m, NEW H, NEW n, NEW b, NEW c,
           NEW m2 \in ParserModes, NEW H2 \in Seq(Header), NEW n2 \in Text, NEW b2 \in Text,
           Parse(ParserAt(m, H, n, b), c) = ParserAt(m2, H2, n2, b2),
           GoodHeaders(H) => GoodHeaders(H2), m2 # "name"
    PROVE  Moves(m, H, n, b, c)
  BY Zenon DEF Moves, WellParsed

LEMMA MovesLine ==
    ASSUME NEW H \in Seq(Header), NEW n \in Text, NEW b \in Text, NEW c \in Char
    PROVE  Moves("line", H, n, b, c)
<1>1. CASE c \in Blanks /\ H # <<>>
  <2>1. " " \in ValueChars /\ " " \in Char
    BY ParseKnown, ParseChars DEF ValueChars
  <2>2. PICK K \in Seq(Header) : K = Grown(H, " ")
    BY <2>1, GrownType
  <2>3. GoodHeaders(H) => GoodHeaders(K)
    BY <2>1, <2>2, GoodGrown
  <2>4. Parse(ParserAt("line", H, n, b), c) = ParserAt("skip", K, n, b)
    BY <1>1, <2>2, AtLine
  <2>5. QED
    BY <2>3, <2>4, MovesTo, ModesAre
<1>2. CASE c = CR
  <2>1. Parse(ParserAt("line", H, n, b), c) = ParserAt("blank", H, n, b)
    BY <1>2, AtLine
  <2>2. QED
    BY <2>1, MovesTo, ModesAre
<1>3. CASE c \in {":", LF}
  <2>1. Parse(ParserAt("line", H, n, b), c) = ParserAt("failed", H, n, b)
    BY <1>3, AtLine
  <2>2. QED
    BY <2>1, MovesTo, ModesAre
<1>4. CASE ~(c \in Blanks /\ H # <<>>) /\ c \notin {CR, ":", LF}
  <2>1. c \in NameChars
    BY <1>4 DEF NameChars
  <2>2. PICK w \in Text : w = <<c>> /\ GoodName(w) /\ w[1] = c
    <3>1. <<c>> \in Text /\ <<c>> \in Seq(NameChars) /\ <<c>> # <<>> /\ <<c>>[1] = c
      BY <2>1
    <3>2. QED
      BY <3>1, Zenon DEF GoodName
  <2>3. Parse(ParserAt("line", H, n, b), c) = ParserAt("name", H, w, b)
    BY <1>4, <2>2, AtLine, ZenonT(30)
  <2>4. Named(H, w)
    BY <1>4, <2>2, Zenon DEF Named
  <2>5. WellParsed("line", H, n) => WellParsed("name", H, w)
    BY <2>4, Zenon DEF WellParsed
  <2>6. QED
    BY <2>3, <2>5, ModesAre, Zenon DEF Moves, Text
<1>5. QED
  BY <1>1, <1>2, <1>3, <1>4, Zenon

LEMMA MovesName ==
    ASSUME NEW H \in Seq(Header), NEW n \in Text, NEW b \in Text, NEW c \in Char
    PROVE  Moves("name", H, n, b, c)
<1>1. CASE c = ":"
  <2>1. PICK e \in Text : e = <<>>
    BY EmptySeq
  <2>2. PICK K \in Seq(Header) : K = Append(H, With(n, e))
    <3>1. With(n, e) \in Header
      BY WithType
    <3>2. Append(H, With(n, e)) \in Seq(Header)
      BY <3>1
    <3>3. QED
      BY <3>2, Zenon
  <2>3. Parse(ParserAt("name", H, n, b), c) = ParserAt("skip", K, e, b)
    <3>1. Parse(ParserAt("name", H, n, b), c) = ParserAt("skip", Append(H, With(n, <<>>)), <<>>, b)
      BY <1>1, AtName
    <3>2. QED
      BY <2>1, <2>2, <3>1, Zenon
  <2>4. GoodHeaders(H) /\ Named(H, n) => GoodHeaders(K)
    <3>1. GoodHeaders(H) /\ Named(H, n) => GoodHeaders(Append(H, With(n, <<>>)))
      BY GoodAdd
    <3>2. QED
      BY <2>1, <2>2, <3>1, Zenon
  <2>5. WellParsed("name", H, n) => WellParsed("skip", K, e)
    BY <2>4, Zenon DEF WellParsed
  <2>6. QED
    BY <2>3, <2>5, ModesAre, Zenon DEF Moves, Text
<1>2. CASE c \in {CR, LF}
  <2>1. Parse(ParserAt("name", H, n, b), c) = ParserAt("failed", H, n, b)
    BY <1>2, AtName
  <2>2. QED
    BY <2>1, MovesTo, ModesAre
<1>3. CASE c \notin {":", CR, LF}
  <2>1. c \in NameChars
    BY <1>3 DEF NameChars
  <2>2. PICK w \in Text : w = Append(n, c)
    <3>1. Append(n, c) \in Text
      OBVIOUS
    <3>2. QED
      BY <3>1, Zenon
  <2>3. Parse(ParserAt("name", H, n, b), c) = ParserAt("name", H, w, b)
    BY <1>3, <2>2, AtName
  <2>4. ASSUME Named(H, n) PROVE Named(H, w)
    <3>1. n \in Seq(NameChars) /\ n # <<>>
      BY <2>4, Zenon DEF Named, GoodName
    <3>2. Append(n, c) \in Seq(NameChars) /\ Append(n, c) # <<>> /\ Append(n, c)[1] = n[1]
      BY <2>1, <3>1, EmptySeq
    <3>3. QED
      BY <2>2, <2>4, <3>2, Zenon DEF Named, GoodName
  <2>5. WellParsed("name", H, n) => WellParsed("name", H, w)
    BY <2>4, Zenon DEF WellParsed
  <2>6. QED
    BY <2>3, <2>5, ModesAre, Zenon DEF Moves, Text
<1>4. QED
  BY <1>1, <1>2, <1>3, Zenon

LEMMA MovesSkip ==
    ASSUME NEW H \in Seq(Header), NEW n \in Text, NEW b \in Text, NEW c \in Char
    PROVE  Moves("skip", H, n, b, c) /\ Moves("value", H, n, b, c)
<1>1. ASSUME c \notin {CR, LF} PROVE \E K \in Seq(Header) : K = Grown(H, c) /\ (GoodHeaders(H) => GoodHeaders(K))
  <2>1. c \in ValueChars
    BY <1>1 DEF ValueChars
  <2>2. Grown(H, c) \in Seq(Header)
    BY GrownType
  <2>3. GoodHeaders(H) => GoodHeaders(Grown(H, c))
    BY <2>1, GoodGrown
  <2>4. QED
    BY <2>2, <2>3, Zenon
<1>2. Moves("skip", H, n, b, c)
  <2>1. CASE c \in Blanks
    <3>1. Parse(ParserAt("skip", H, n, b), c) = ParserAt("skip", H, n, b)
      BY <2>1, AtSkip
    <3>2. QED
      BY <3>1, MovesTo, ModesAre
  <2>2. CASE c = CR
    <3>1. Parse(ParserAt("skip", H, n, b), c) = ParserAt("return", H, n, b)
      BY <2>2, AtSkip
    <3>2. QED
      BY <3>1, MovesTo, ModesAre
  <2>3. CASE c = LF
    <3>1. Parse(ParserAt("skip", H, n, b), c) = ParserAt("failed", H, n, b)
      BY <2>3, AtSkip
    <3>2. QED
      BY <3>1, MovesTo, ModesAre
  <2>4. CASE c \notin Blanks /\ c \notin {CR, LF}
    <3>1. PICK K \in Seq(Header) : K = Grown(H, c) /\ (GoodHeaders(H) => GoodHeaders(K))
      BY <1>1, <2>4, Zenon
    <3>2. Parse(ParserAt("skip", H, n, b), c) = ParserAt("value", K, n, b)
      BY <2>4, <3>1, AtSkip
    <3>3. QED
      BY <3>1, <3>2, MovesTo, ModesAre
  <2>5. QED
    BY <2>1, <2>2, <2>3, <2>4, Zenon
<1>3. Moves("value", H, n, b, c)
  <2>1. CASE c = CR
    <3>1. Parse(ParserAt("value", H, n, b), c) = ParserAt("return", H, n, b)
      BY <2>1, AtValue
    <3>2. QED
      BY <3>1, MovesTo, ModesAre
  <2>2. CASE c = LF
    <3>1. Parse(ParserAt("value", H, n, b), c) = ParserAt("failed", H, n, b)
      BY <2>2, AtValue
    <3>2. QED
      BY <3>1, MovesTo, ModesAre
  <2>3. CASE c \notin {CR, LF}
    <3>1. PICK K \in Seq(Header) : K = Grown(H, c) /\ (GoodHeaders(H) => GoodHeaders(K))
      BY <1>1, <2>3, Zenon
    <3>2. Parse(ParserAt("value", H, n, b), c) = ParserAt("value", K, n, b)
      BY <2>3, <3>1, AtValue
    <3>3. QED
      BY <3>1, <3>2, MovesTo, ModesAre
  <2>4. QED
    BY <2>1, <2>2, <2>3, Zenon
<1>4. QED
  BY <1>2, <1>3

LEMMA MovesRest ==
    ASSUME NEW H \in Seq(Header), NEW n \in Text, NEW b \in Text, NEW c \in Char
    PROVE  /\ Moves("return", H, n, b, c) /\ Moves("blank", H, n, b, c)
           /\ Moves("body", H, n, b, c) /\ Moves("failed", H, n, b, c)
<1>1. Moves("return", H, n, b, c)
  <2>1. \E m2 \in ParserModes : m2 # "name" /\ Parse(ParserAt("return", H, n, b), c) = ParserAt(m2, H, n, b)
    <3>1. /\ c = LF => Parse(ParserAt("return", H, n, b), c) = ParserAt("line", H, n, b)
          /\ c # LF => Parse(ParserAt("return", H, n, b), c) = ParserAt("failed", H, n, b)
      BY AtReturn
    <3>2. QED
      BY <3>1, ModesAre, Zenon
  <2>2. QED
    BY <2>1, MovesTo
<1>2. Moves("blank", H, n, b, c)
  <2>1. \E m2 \in ParserModes : m2 # "name" /\ Parse(ParserAt("blank", H, n, b), c) = ParserAt(m2, H, n, b)
    <3>1. /\ c = LF => Parse(ParserAt("blank", H, n, b), c) = ParserAt("body", H, n, b)
          /\ c # LF => Parse(ParserAt("blank", H, n, b), c) = ParserAt("failed", H, n, b)
      BY AtBlank
    <3>2. QED
      BY <3>1, ModesAre, Zenon
  <2>2. QED
    BY <2>1, MovesTo
<1>3. Moves("body", H, n, b, c)
  <2>1. PICK w \in Text : w = Append(b, c)
    <3>1. Append(b, c) \in Text
      OBVIOUS
    <3>2. QED
      BY <3>1, Zenon
  <2>2. Parse(ParserAt("body", H, n, b), c) = ParserAt("body", H, n, w)
    BY <2>1, AtBody
  <2>3. QED
    BY <2>2, MovesTo, ModesAre
<1>4. Moves("failed", H, n, b, c)
  <2>1. Parse(ParserAt("failed", H, n, b), c) = ParserAt("failed", H, n, b)
    BY AtBody
  <2>2. QED
    BY <2>1, MovesTo, ModesAre
<1>5. QED
  BY <1>1, <1>2, <1>3, <1>4

\* All modes together.
LEMMA ParserMoves ==
    ASSUME NEW m \in ParserModes, NEW H \in Seq(Header), NEW n \in Text, NEW b \in Text, NEW c \in Char
    PROVE  Moves(m, H, n, b, c)
  BY MovesLine, MovesName, MovesSkip, MovesRest DEF ParserModes

LEMMA ParseMoves ==
    ASSUME NEW st \in Parser, NEW c \in Char
    PROVE  /\ Parse(st, c) \in Parser
           /\ WellParsed(st.mode, st.headers, st.name)
                => WellParsed(Parse(st, c).mode, Parse(st, c).headers, Parse(st, c).name)
<1>1. PICK m \in ParserModes, H \in Seq(Header), n \in Text, b \in Text :
        m = st.mode /\ H = st.headers /\ n = st.name /\ b = st.body /\ st = ParserAt(m, H, n, b)
  <2>1. /\ st = ParserAt(st.mode, st.headers, st.name, st.body)
        /\ st.mode \in ParserModes /\ st.headers \in Seq(Header) /\ st.name \in Text /\ st.body \in Text
    BY ParserAtOnly
  <2>2. QED
    BY <2>1, Zenon
<1>2. Moves(m, H, n, b, c)
  BY ParserMoves
<1>3. PICK m2 \in ParserModes, H2 \in Seq(Header), n2 \in Text, b2 \in Text :
        /\ Parse(ParserAt(m, H, n, b), c) = ParserAt(m2, H2, n2, b2)
        /\ WellParsed(m, H, n) => WellParsed(m2, H2, n2)
  BY <1>2, Zenon DEF Moves, Text
<1>4. PICK tt \in Parser : tt = ParserAt(m2, H2, n2, b2) /\ tt.mode = m2 /\ tt.headers = H2 /\ tt.name = n2
  BY Being
<1>5. Parse(st, c) = tt
  BY <1>1, <1>3, <1>4, Zenon
<1>6. QED
  BY <1>1, <1>3, <1>4, <1>5, Zenon

LEMMA ParseStep == IsStep(Parsing, Parser, Char)
<1>1. \A st \in Parser : \A c \in Char : Parse(st, c) \in Parser
  BY ParseMoves
<1>2. QED
  BY <1>1 DEF IsStep, Parsing

LEMMA ParseApplied ==
    ASSUME NEW st \in Parser, NEW c \in Char
    PROVE  Applied(Parsing, st, c) = Parse(st, c)
  BY DEF Applied, Parsing

Opening == ParserAt("line", <<>>, <<>>, <<>>)

LEMMA OpeningType == Opening \in Parser /\ Opening.mode = "line" /\ Opening.headers = <<>> /\ Opening.name = <<>>
<1>1. <<>> \in Seq(Header) /\ <<>> \in Text
  BY EmptySeq
<1>2. PICK x \in Seq(Header), e \in Text : x = <<>> /\ e = <<>>
  BY <1>1, Zenon
<1>3. PICK st \in Parser : st = ParserAt("line", x, e, e) /\ st.mode = "line" /\ st.headers = x /\ st.name = e
  BY Being, ModesAre
<1>4. QED
  BY <1>2, <1>3, Zenon DEF Opening

Kept(H, b) == [ok |-> TRUE, headers |-> H, body |-> b]

LEMMA KeptFields ==
    ASSUME NEW H, NEW b
    PROVE  Kept(H, b).ok /\ Kept(H, b).headers = H /\ Kept(H, b).body = b
  BY DEF Kept

LEMMA ParseIs ==
    ASSUME NEW s
    PROVE  ParseMessage(s) = LET st == Loop(Parsing, Opening, s)
                             IN  IF st.mode = "body" THEN Kept(st.headers, st.body) ELSE Failed
  BY Zenon DEF ParseMessage, Opening, ParserAt, Kept

\* What parse_message accepts has good headers.
LEMMA ParseSound ==
    ASSUME NEW s \in Text, ParseMessage(s).ok
    PROVE  \E H \in Seq(Header), b \in Text : ParseMessage(s) = Kept(H, b) /\ GoodHeaders(H)
<1> DEFINE X == {st \in Parser : WellParsed(st.mode, st.headers, st.name)}
<1>1. Opening \in X
  <2>1. GoodHeaders(<<>>)
    <3>1. Len(<<>>) = 0 /\ \A i : i \notin 1 .. 0
      BY EmptySeq
    <3>2. QED
      BY <3>1, Zenon DEF GoodHeaders
  <2>2. WellParsed("line", <<>>, <<>>)
    BY <2>1, Zenon DEF WellParsed
  <2>3. QED
    BY <2>2, OpeningType, Zenon
<1>2. ASSUME NEW st \in X, NEW c \in Char PROVE Applied(Parsing, st, c) \in X
  <2>1. st \in Parser /\ WellParsed(st.mode, st.headers, st.name)
    BY Zenon
  <2>2. Applied(Parsing, st, c) = Parse(st, c)
    BY <2>1, ParseApplied
  <2>3. Parse(st, c) \in Parser /\ WellParsed(Parse(st, c).mode, Parse(st, c).headers, Parse(st, c).name)
    BY <2>1, ParseMoves
  <2>4. QED
    BY <2>2, <2>3, Zenon
<1>3. PICK st : st = Loop(Parsing, Opening, s)
  OBVIOUS
<1>4. st \in X
  <2>1. X \in SUBSET Parser
    BY Zenon
  <2> HIDE DEF X
  <2>2. QED
    BY <1>1, <1>2, <1>3, <2>1, ParseStep, LoopKeeps
<1>5. st \in Parser /\ GoodHeaders(st.headers)
  BY <1>4, Zenon DEF WellParsed
<1>6. st.headers \in Seq(Header) /\ st.body \in Text
  BY <1>5, ParserAtOnly
<1>7. ParseMessage(s) = IF st.mode = "body" THEN Kept(st.headers, st.body) ELSE Failed
  BY <1>3, ParseIs, Zenon
<1>8. ~Failed.ok
  BY DEF Failed
<1>9. QED
  BY <1>5, <1>6, <1>7, <1>8, Zenon

-----------------------------------------------------------------------------
(* parse_message again, over what send_headers writes: the value comes     *)
(* back without the blanks in front of it.                                 *)

\* A value without the blanks in front of it.
Taken(w, c) == IF w = <<>> /\ c \in Blanks THEN w ELSE Append(w, c)
Stripping == [w \in Text |-> [c \in Char |-> Taken(w, c)]]
Stripped(v) == Loop(Stripping, <<>>, v)

LEMMA TakenType ==
    ASSUME NEW C, NEW w \in Seq(C), NEW c \in C
    PROVE  Taken(w, c) \in Seq(C)
<1>1. Append(w, c) \in Seq(C)
  OBVIOUS
<1>2. QED
  BY <1>1, Zenon DEF Taken

LEMMA StripStep == IsStep(Stripping, Text, Char)
<1>1. \A w \in Text : \A c \in Char : Taken(w, c) \in Text
  BY TakenType
<1>2. QED
  BY <1>1 DEF IsStep, Stripping

LEMMA StripApplied ==
    ASSUME NEW w \in Text, NEW c \in Char
    PROVE  Applied(Stripping, w, c) = Taken(w, c)
  BY DEF Applied, Stripping

LEMMA StrippedEmpty == Stripped(<<>>) = <<>>
<1>1. PICK e \in Text : e = <<>>
  BY EmptySeq
<1>2. Loop(Stripping, e, <<>>) = e
  BY StripStep, LoopEmpty
<1>3. QED
  BY <1>1, <1>2, Zenon DEF Stripped

LEMMA StrippedAppend ==
    ASSUME NEW v \in Text, NEW c \in Char
    PROVE  Stripped(v) \in Text /\ Stripped(Append(v, c)) = Taken(Stripped(v), c)
<1>1. PICK e \in Text : e = <<>>
  BY EmptySeq
<1>2. Loop(Stripping, e, v) \in Text /\ Loop(Stripping, e, Append(v, c)) = Applied(Stripping, Loop(Stripping, e, v), c)
  BY StripStep, LoopAppend
<1>3. Applied(Stripping, Loop(Stripping, e, v), c) = Taken(Loop(Stripping, e, v), c)
  BY <1>2, StripApplied
<1>4. QED
  BY <1>1, <1>2, <1>3, Zenon DEF Stripped

\* No blank in front.
Solid(w) == w # <<>> => w[1] \notin Blanks

LEMMA StrippedType ==
    ASSUME NEW C \in SUBSET Char, NEW v \in Seq(C)
    PROVE  Stripped(v) \in Seq(C) /\ Solid(Stripped(v))
<1> DEFINE P(u) == Stripped(u) \in Seq(C) /\ Solid(Stripped(u))
           X == {u \in Seq(C) : P(u)}
<1>1. Seq(C) \subseteq Text
  BY SeqMonotonic
<1>2. P(<<>>)
  <2>1. <<>> \in Seq(C)
    OBVIOUS
  <2>2. QED
    BY <2>1, StrippedEmpty, Zenon DEF Solid
<1>3. ASSUME NEW u \in Seq(C), P(u), NEW c \in C PROVE P(Append(u, c))
  <2>1. u \in Text /\ c \in Char
    BY <1>1
  <2>2. PICK w \in Seq(C) : w = Stripped(u) /\ Solid(w)
    BY <1>3, Zenon
  <2>3. Stripped(Append(u, c)) = Taken(w, c)
    BY <2>1, <2>2, StrippedAppend, Zenon DEF Text
  <2>4. Taken(w, c) \in Seq(C)
    BY TakenType
  <2>5. Solid(Taken(w, c))
    <3>1. CASE w = <<>> /\ c \in Blanks
      BY <2>2, <3>1, Zenon DEF Taken
    <3>2. CASE w = <<>> /\ c \notin Blanks
      <4>1. \A k \in Seq(C) : k = <<>> => Append(k, c)[1] = c
        OBVIOUS
      <4>2. Append(w, c)[1] = c
        BY <3>2, <4>1, Zenon
      <4>3. Taken(w, c) = Append(w, c)
        BY <3>2, Zenon DEF Taken
      <4>4. QED
        BY <3>2, <4>2, <4>3, Zenon DEF Solid
    <3>3. CASE w # <<>>
      <4>1. Append(w, c)[1] = w[1]
        BY <3>3, EmptySeq
      <4>2. QED
        BY <2>2, <3>3, <4>1, Zenon DEF Solid, Taken
    <3>4. QED
      BY <3>1, <3>2, <3>3
  <2>6. QED
    BY <2>3, <2>4, <2>5, Zenon
<1> HIDE DEF P
<1>4. X \in SUBSET Seq(C) /\ <<>> \in X /\ \A u \in X : \A c \in C : Append(u, c) \in X
  BY <1>2, <1>3
<1>5. X = Seq(C)
  <2> HIDE DEF X
  <2>1. QED
    BY <1>4, SeqInduction
<1>6. P(v)
  BY <1>5
<1>7. QED
  BY <1>6, Zenon DEF P

\* A value without a blank in front stays as it is.
LEMMA StrippedSolid ==
    ASSUME NEW v \in Text, Solid(v)
    PROVE  Stripped(v) = v
<1> DEFINE P(u) == Solid(u) => Stripped(u) = u
           X == {u \in Text : P(u)}
<1>1. P(<<>>)
  BY StrippedEmpty, Zenon
<1>2. ASSUME NEW u \in Text, P(u), NEW c \in Char PROVE P(Append(u, c))
  <2>1. SUFFICES ASSUME Solid(Append(u, c)) PROVE Stripped(Append(u, c)) = Append(u, c)
    OBVIOUS
  <2>2. Append(u, c) # <<>>
    OBVIOUS
  <2>3. Stripped(Append(u, c)) = Taken(Stripped(u), c)
    BY StrippedAppend
  <2>4. CASE u = <<>>
    <3>1. \A k \in Text : k = <<>> => Append(k, c)[1] = c
      OBVIOUS
    <3>2. c \notin Blanks
      BY <2>1, <2>2, <2>4, <3>1, Zenon DEF Solid
    <3>3. QED
      BY <2>3, <2>4, <3>2, StrippedEmpty, Zenon DEF Taken
  <2>5. CASE u # <<>>
    <3>1. Append(u, c)[1] = u[1]
      BY <2>5, EmptySeq
    <3>2. Solid(u)
      BY <2>1, <2>2, <3>1, Zenon DEF Solid
    <3>3. Stripped(u) = u
      BY <1>2, <3>2, Zenon
    <3>4. QED
      BY <2>3, <2>5, <3>3, Zenon DEF Taken
  <2>6. QED
    BY <2>4, <2>5
<1> HIDE DEF P
<1>3. X \in SUBSET Seq(Char) /\ <<>> \in X /\ \A u \in X : \A c \in Char : Append(u, c) \in X
  BY <1>1, <1>2
<1>4. X = Seq(Char)
  <2> HIDE DEF X
  <2>1. QED
    BY <1>3, SeqInduction
<1>5. P(v)
  BY <1>4
<1>6. QED
  BY <1>5, Zenon DEF P

Fresh(H) == ParserAt("line", H, <<>>, <<>>)
InName(H, n) == ParserAt("name", H, n, <<>>)
Phase(w) == IF w = <<>> THEN "skip" ELSE "value"
InValue(H, n, w) == ParserAt(Phase(w), Append(H, With(n, w)), <<>>, <<>>)

LEMMA AddHeader ==
    ASSUME NEW H \in Seq(Header), NEW n \in Text, NEW v \in Text
    PROVE  Append(H, With(n, v)) \in Seq(Header) /\ Append(H, With(n, v)) # <<>>
<1>1. PICK h \in Header : h = With(n, v)
  BY WithType
<1>2. Append(H, h) \in Seq(Header) /\ Append(H, h) # <<>>
  OBVIOUS
<1>3. QED
  BY <1>1, <1>2, Zenon

LEMMA StatesType ==
    ASSUME NEW H \in Seq(Header), NEW n \in Text, NEW w \in Text
    PROVE  Fresh(H) \in Parser /\ InName(H, n) \in Parser /\ InValue(H, n, w) \in Parser
<1>1. PICK e \in Text : e = <<>>
  BY EmptySeq
<1>2. PICK K \in Seq(Header) : K = Append(H, With(n, w))
  BY AddHeader
<1>3. Phase(w) \in ParserModes
  BY ModesAre, Zenon DEF Phase
<1>4. ParserAt("line", H, e, e) \in Parser /\ ParserAt("name", H, n, e) \in Parser /\ ParserAt(Phase(w), K, e, e) \in Parser
  BY <1>3, ParserAtType, ModesAre
<1>5. QED
  BY <1>1, <1>2, <1>4, Zenon DEF Fresh, InName, InValue

LEMMA NotEmpty ==
    ASSUME NEW C, NEW w \in Seq(C), NEW c \in C
    PROVE  Append(w, c) # <<>>
<1>1. Len(Append(w, c)) = Len(w) + 1 /\ Len(w) \in Nat /\ Append(w, c) \in Seq(C)
  BY OneMore
<1>2. QED
  BY <1>1, EmptySeq

LEMMA ValueChar ==
    ASSUME NEW H \in Seq(Header), NEW n \in Text, NEW w \in Text, NEW c \in ValueChars
    PROVE  Parse(InValue(H, n, w), c) = InValue(H, n, Taken(w, c))
<1>1. c \in Char /\ c \notin {CR, LF}
  BY DEF ValueChars
<1>2. PICK e \in Text : e = <<>>
  BY EmptySeq
<1>3. PICK K \in Seq(Header) : K = Append(H, With(n, w))
  BY AddHeader
<1>4. Grown(K, c) = Append(H, With(n, Append(w, c)))
  BY <1>1, <1>3, GrownLast, ZenonT(30) DEF Text
<1>5. Append(w, c) # <<>>
  BY <1>1, NotEmpty
<1>6. CASE w = <<>> /\ c \in Blanks
  <2>1. Parse(ParserAt("skip", K, e, e), c) = ParserAt("skip", K, e, e)
    BY <1>1, <1>6, AtSkip
  <2>2. QED
    BY <1>2, <1>3, <1>6, <2>1, Zenon DEF InValue, Phase, Taken
<1>7. CASE w = <<>> /\ c \notin Blanks
  <2>1. Parse(ParserAt("skip", K, e, e), c) = ParserAt("value", Grown(K, c), e, e)
    BY <1>1, <1>7, AtSkip
  <2>2. QED
    BY <1>2, <1>3, <1>4, <1>5, <1>7, <2>1, Zenon DEF InValue, Phase, Taken
<1>8. CASE w # <<>>
  <2>1. Parse(ParserAt("value", K, e, e), c) = ParserAt("value", Grown(K, c), e, e)
    BY <1>1, AtValue
  <2>2. QED
    BY <1>2, <1>3, <1>4, <1>5, <1>8, <2>1, Zenon DEF InValue, Phase, Taken
<1>9. QED
  BY <1>6, <1>7, <1>8

LEMMA ValueLoop ==
    ASSUME NEW H \in Seq(Header), NEW n \in Text, NEW v \in Seq(ValueChars)
    PROVE  Loop(Parsing, InValue(H, n, <<>>), v) = InValue(H, n, Stripped(v))
<1> DEFINE P(u) == Loop(Parsing, InValue(H, n, <<>>), u) = InValue(H, n, Stripped(u))
           X == {u \in Seq(ValueChars) : P(u)}
<1>1. PICK st \in Parser : st = InValue(H, n, <<>>)
  <2>1. <<>> \in Text
    OBVIOUS
  <2>2. InValue(H, n, <<>>) \in Parser
    BY <2>1, StatesType, Zenon DEF Text
  <2>3. QED
    BY <2>2, Zenon
<1>2. P(<<>>)
  <2>1. Loop(Parsing, st, <<>>) = st
    BY ParseStep, LoopEmpty
  <2>2. QED
    BY <1>1, <2>1, StrippedEmpty, Zenon
<1>3. ASSUME NEW u \in Seq(ValueChars), P(u), NEW c \in ValueChars PROVE P(Append(u, c))
  <2>1. u \in Text /\ c \in Char
    BY NameCharsAre
  <2>2. PICK w \in Text : w = Stripped(u) /\ Stripped(Append(u, c)) = Taken(w, c)
    BY <2>1, StrippedAppend, Zenon DEF Text
  <2>3. Loop(Parsing, st, Append(u, c)) = Applied(Parsing, Loop(Parsing, st, u), c)
    BY <2>1, ParseStep, LoopAppend
  <2>4. InValue(H, n, w) \in Parser
    BY StatesType
  <2>5. Applied(Parsing, InValue(H, n, w), c) = Parse(InValue(H, n, w), c)
    BY <2>1, <2>4, ParseApplied
  <2>6. Parse(InValue(H, n, w), c) = InValue(H, n, Taken(w, c))
    BY ValueChar
  <2>7. QED
    BY <1>1, <1>3, <2>2, <2>3, <2>5, <2>6, Zenon
<1> HIDE DEF P
<1>4. X \in SUBSET Seq(ValueChars) /\ <<>> \in X /\ \A u \in X : \A c \in ValueChars : Append(u, c) \in X
  BY <1>2, <1>3
<1>5. X = Seq(ValueChars)
  <2> HIDE DEF X
  <2>1. QED
    BY <1>4, SeqInduction
<1>6. P(v)
  BY <1>5
<1>7. QED
  BY <1>6, Zenon DEF P

LEMMA NameLoop ==
    ASSUME NEW H \in Seq(Header), NEW n, Named(H, n)
    PROVE  n \in Text /\ Loop(Parsing, Fresh(H), n) = InName(H, n)
<1>1. n \in Seq(NameChars) /\ n # <<>> /\ (H # <<>> => n[1] \notin Blanks)
  BY Zenon DEF Named, GoodName
<1>2. n \in Text
  BY <1>1, NameCharsAre
<1>3. PICK c \in NameChars, r \in Seq(NameChars) : c = n[1] /\ n = <<c>> \o r
  <2>1. n[1] \in NameChars /\ Tail(n) \in Seq(NameChars) /\ n = <<n[1]>> \o Tail(n)
    BY <1>1, EmptySeq
  <2>2. QED
    BY <2>1, Zenon
<1>4. c \in Char /\ c \notin {CR, ":", LF}
  BY DEF NameChars
<1>5. PICK e \in Text, f \in Text : e = <<>> /\ f = <<c>>
  <2>1. <<>> \in Text /\ <<c>> \in Text
    BY <1>4
  <2>2. QED
    BY <2>1, Zenon
<1>6. r \in Text
  BY NameCharsAre
<1>7. Fresh(H) \in Parser
  BY <1>2, StatesType
<1>8. Loop(Parsing, Fresh(H), f) = InName(H, f)
  <2>1. Loop(Parsing, Fresh(H), <<c>>) = Applied(Parsing, Fresh(H), c)
    BY <1>4, <1>7, ParseStep, LoopOne
  <2>2. Applied(Parsing, Fresh(H), c) = Parse(Fresh(H), c)
    BY <1>4, <1>7, ParseApplied
  <2>3. Parse(ParserAt("line", H, e, e), c) = ParserAt("name", H, <<c>>, e)
    BY <1>1, <1>3, <1>4, AtLine
  <2>4. QED
    BY <1>5, <2>1, <2>2, <2>3, Zenon DEF Fresh, InName
<1>9. Loop(Parsing, InName(H, f), r) = InName(H, f \o r)
  <2>1. PICK F : F = [o \in Text |-> InName(H, o)]
    OBVIOUS
  <2>2. IsMap(F, Seq(Char), Parser)
    <3>1. \A o \in Text : InName(H, o) \in Parser
      BY StatesType
    <3>2. QED
      BY <2>1, <3>1 DEF IsMap
  <2>3. ASSUME NEW o \in Seq(Char), NEW d \in NameChars PROVE Applied(Parsing, F[o], d) = F[Append(o, d)]
    <3>1. d \in Char /\ d \notin {":", CR, LF}
      BY DEF NameChars
    <3>2. PICK p \in Text : p = Append(o, d)
      <4>1. Append(o, d) \in Text
        BY <3>1
      <4>2. QED
        BY <4>1, Zenon
    <3>3. F[o] = InName(H, o) /\ F[p] = InName(H, p)
      BY <2>1
    <3>4. InName(H, o) \in Parser
      BY StatesType
    <3>5. Applied(Parsing, InName(H, o), d) = Parse(InName(H, o), d)
      BY <3>1, <3>4, ParseApplied
    <3>6. Parse(ParserAt("name", H, o, e), d) = ParserAt("name", H, p, e)
      BY <3>1, <3>2, AtName
    <3>7. QED
      BY <1>5, <3>2, <3>3, <3>5, <3>6, Zenon DEF InName
  <2>4. Collects(Parsing, F, Char, NameChars)
    BY <2>3, Zenon DEF Collects
  <2>5. NameChars \in SUBSET Char
    BY NameCharsAre
  <2>6. Loop(Parsing, Val(F, f), r) = Val(F, f \o r)
    BY <2>2, <2>4, <2>5, ParseStep, LoopCollects
  <2>7. f \o r \in Text
    BY <1>6
  <2>8. F[f] = InName(H, f) /\ F[f \o r] = InName(H, f \o r)
    BY <2>1, <2>7
  <2>9. QED
    BY <2>6, <2>8, Zenon DEF Val
<1>10. Loop(Parsing, Fresh(H), f \o r) = Loop(Parsing, Loop(Parsing, Fresh(H), f), r)
  BY <1>6, <1>7, ParseStep, LoopConcat
<1>11. QED
  BY <1>2, <1>3, <1>5, <1>8, <1>9, <1>10, Zenon

\* A header as send_headers writes it.
LineOf(h) == h.name \o <<":", " ">> \o h.value \o CRLF

LEMMA ColonIs ==
    ASSUME NEW C, NEW s \in Seq(C), NEW a \in C, NEW b \in C
    PROVE  s \o <<a, b>> = Append(Append(s, a), b) /\ Append(s, a) \in Seq(C) /\ s \o <<a, b>> \in Seq(C)
<1>1. \A t \in Seq(C) : t \o <<b>> = Append(t, b)
  OBVIOUS
<1>2. <<a, b>> = Append(<<a>>, b) /\ <<a>> \in Seq(C) /\ s \o <<a>> = Append(s, a) /\ Append(s, a) \in Seq(C)
  OBVIOUS
<1>3. <<a, b>> = <<a>> \o <<b>>
  BY <1>1, <1>2, Zenon
<1>4. s \o (<<a>> \o <<b>>) = (s \o <<a>>) \o <<b>>
  OBVIOUS
<1>5. s \o <<a, b>> \in Seq(C)
  OBVIOUS
<1>6. QED
  BY <1>1, <1>2, <1>3, <1>4, <1>5, Zenon

\* A header line adds the header, its value stripped.
LEMMA ParseLine ==
    ASSUME NEW H \in Seq(Header), NEW n, Named(H, n), NEW v \in Seq(ValueChars)
    PROVE  /\ n \o <<":", " ">> \o v \o CRLF \in Text
           /\ Loop(Parsing, Fresh(H), n \o <<":", " ">> \o v \o CRLF) = Fresh(Append(H, With(n, Stripped(v))))
<1>1. n \in Text /\ Loop(Parsing, Fresh(H), n) = InName(H, n)
  BY NameLoop
<1>2. PICK e \in Text : e = <<>>
  BY EmptySeq
<1>3. PICK st \in Parser : st = Fresh(H)
  BY <1>1, StatesType
<1>4. n \in Text
  BY <1>1
<1>5. PICK co \in Char, sp \in Char, cr \in Char, lf \in Char : co = ":" /\ sp = " " /\ cr = CR /\ lf = LF
  BY ParseKnown, Zenon
<1>6. v \in Text
  BY NameCharsAre
<1>7. PICK a \in Text, d \in Text : a = Append(n, co) /\ d = Append(a, sp) /\ d = n \o <<":", " ">>
  <2>1. Append(n, co) \in Text /\ n \o <<co, sp>> \in Text /\ n \o <<co, sp>> = Append(Append(n, co), sp)
    BY <1>4, ColonIs
  <2>2. QED
    BY <1>5, <2>1, Zenon
<1>8. co = ":"
  BY <1>5
<1>9. cr = CR
  BY <1>5
<1>10. lf = LF
  BY <1>5
<1>11. a = Append(n, co) /\ d = Append(a, sp)
  BY <1>7
<1>12. Loop(Parsing, st, d) = InValue(H, n, e)
  <2>1. PICK K \in Seq(Header) : K = Append(H, With(n, e))
    BY <1>4, AddHeader
  <2>2. InName(H, n) \in Parser /\ InValue(H, n, e) \in Parser
    BY <1>4, StatesType
  <2>3. Loop(Parsing, st, a) = Applied(Parsing, Loop(Parsing, st, n), co)
    BY <1>4, <1>11, ParseStep, LoopAppend
  <2>4. Applied(Parsing, InName(H, n), co) = Parse(InName(H, n), co)
    BY <2>2, ParseApplied
  <2>5. Parse(ParserAt("name", H, n, e), co) = ParserAt("skip", Append(H, With(n, <<>>)), <<>>, e)
    BY <1>4, <1>8, AtName
  <2>6. InValue(H, n, e) = ParserAt("skip", K, e, e)
    BY <1>2, <2>1, Zenon DEF InValue, Phase
  <2>7. Loop(Parsing, st, a) = InValue(H, n, e)
    BY <1>1, <1>2, <1>3, <2>1, <2>3, <2>4, <2>5, <2>6, Zenon DEF InName
  <2>8. Loop(Parsing, st, d) = Applied(Parsing, Loop(Parsing, st, a), sp)
    <3>1. Loop(Parsing, st, Append(a, sp)) = Applied(Parsing, Loop(Parsing, st, a), sp)
      BY ParseStep, LoopAppend
    <3>2. QED
      BY <1>7, <3>1, Zenon
  <2>9. Applied(Parsing, InValue(H, n, e), sp) = Parse(InValue(H, n, e), sp)
    BY <2>2, ParseApplied
  <2>10. Parse(ParserAt("skip", K, e, e), sp) = ParserAt("skip", K, e, e)
    <3>1. sp \in Blanks
      BY <1>5, ParseChars, Zenon
    <3>2. QED
      BY <3>1, AtSkip
  <2>11. QED
    BY <2>6, <2>7, <2>8, <2>9, <2>10, Zenon
<1>13. PICK l \in Text : l = d \o v /\ Loop(Parsing, st, l) = InValue(H, n, Stripped(v))
  <2>1. d \o v \in Text
    BY <1>6
  <2>2. Loop(Parsing, st, d \o v) = Loop(Parsing, Loop(Parsing, st, d), v)
    BY <1>6, ParseStep, LoopConcat
  <2>3. Loop(Parsing, InValue(H, n, <<>>), v) = InValue(H, n, Stripped(v))
    BY <1>4, ValueLoop
  <2>4. QED
    BY <1>2, <1>12, <2>1, <2>2, <2>3, Zenon
<1>14. PICK w \in Text : w = Stripped(v)
  <2>1. Stripped(v) \in Text
    BY <1>6, StrippedType
  <2>2. QED
    BY <2>1, Zenon
<1>15. PICK K \in Seq(Header) : K = Append(H, With(n, w))
  BY <1>4, AddHeader
<1>16. PICK x \in Text, y \in Text : x = Append(l, cr) /\ y = Append(x, lf) /\ y = l \o CRLF
  <2>1. Append(l, cr) \in Text /\ l \o <<cr, lf>> \in Text /\ l \o <<cr, lf>> = Append(Append(l, cr), lf)
    BY ColonIs
  <2>2. QED
    BY <1>5, <2>1, Zenon DEF CRLF
<1>17. x = Append(l, cr) /\ y = Append(x, lf)
  BY <1>16
<1>18. PICK rt \in Parser : rt = ParserAt("return", K, e, e)
  BY ParserAtType, ModesAre
<1>19. Loop(Parsing, st, x) = rt
  <2>1. InValue(H, n, w) \in Parser
    BY <1>4, StatesType
  <2>2. Loop(Parsing, st, x) = Applied(Parsing, Loop(Parsing, st, l), cr)
    BY <1>17, ParseStep, LoopAppend
  <2>3. Applied(Parsing, InValue(H, n, w), cr) = Parse(InValue(H, n, w), cr)
    BY <2>1, ParseApplied
  <2>4. Parse(ParserAt("skip", K, e, e), cr) = ParserAt("return", K, e, e) /\ Parse(ParserAt("value", K, e, e), cr) = ParserAt("return", K, e, e)
    BY <1>9, AtSkip, AtValue
  <2>5. Parse(InValue(H, n, w), cr) = rt
    BY <1>2, <1>15, <1>18, <2>4, Zenon DEF InValue, Phase
  <2>6. QED
    BY <1>13, <1>14, <2>2, <2>3, <2>5, Zenon
<1>20. Loop(Parsing, st, y) = Fresh(K)
  <2>1. Loop(Parsing, st, y) = Applied(Parsing, Loop(Parsing, st, x), lf)
    <3>1. Loop(Parsing, st, Append(x, lf)) = Applied(Parsing, Loop(Parsing, st, x), lf)
      BY ParseStep, LoopAppend
    <3>2. QED
      BY <1>16, <3>1, Zenon
  <2>2. Applied(Parsing, rt, lf) = Parse(rt, lf)
    BY ParseApplied
  <2>3. Parse(ParserAt("return", K, e, e), lf) = ParserAt("line", K, e, e)
    BY <1>10, AtReturn
  <2>4. QED
    BY <1>2, <1>18, <1>19, <2>1, <2>2, <2>3, Zenon DEF Fresh
<1>21. QED
  BY <1>3, <1>7, <1>13, <1>14, <1>15, <1>16, <1>20, Zenon

\* The headers as the receiver has them.
CutHeader(h) == With(h.name, Stripped(h.value))
Cut(H) == [i \in 1 .. Len(H) |-> CutHeader(H[i])]

CutAt(K, H, i) ==
    /\ K[i] = CutHeader(H[i]) /\ K[i].name = H[i].name /\ K[i].value = Stripped(H[i].value)
    /\ K[i].value \in Seq(ValueChars) /\ Solid(K[i].value)

LEMMA CutFits ==
    ASSUME NEW H \in Seq(Header), GoodHeaders(H)
    PROVE  /\ Cut(H) \in Seq(Header) /\ Len(Cut(H)) = Len(H)
           /\ \A i \in 1 .. Len(H) : CutAt(Cut(H), H, i)
<1>1. PICK l \in Nat : l = Len(H)
  OBVIOUS
<1>2. ASSUME NEW i \in 1 .. l
      PROVE  /\ CutHeader(H[i]) \in Header /\ CutHeader(H[i]).name = H[i].name
             /\ CutHeader(H[i]).value = Stripped(H[i].value)
             /\ Stripped(H[i].value) \in Seq(ValueChars) /\ Solid(Stripped(H[i].value))
  <2>1. PICK h \in Header : h = H[i]
    BY <1>1
  <2>2. h.name \in Text /\ h.value \in Seq(ValueChars)
    BY <1>1, <2>1, WithOnly, Zenon DEF GoodHeaders
  <2>3. PICK w \in Seq(ValueChars) : w = Stripped(h.value) /\ Solid(w)
    BY <2>2, StrippedType, NameCharsAre
  <2>4. w \in Text /\ h.name \in Text
    BY <2>2, NameCharsAre
  <2>5. With(h.name, w) \in Header /\ With(h.name, w).name = h.name /\ With(h.name, w).value = w
    BY <2>4, WithType
  <2>6. QED
    BY <2>1, <2>3, <2>5, Zenon DEF CutHeader
<1>3. PICK K : K = [i \in 1 .. l |-> CutHeader(H[i])]
  OBVIOUS
<1>4. K \in Seq(Header) /\ Len(K) = l /\ \A i \in 1 .. l : K[i] = CutHeader(H[i])
  BY <1>2, <1>3
<1>5. Cut(H) = K
  BY <1>1, <1>3, Zenon DEF Cut
<1>6. \A i \in 1 .. l : CutAt(K, H, i)
  BY <1>2, <1>4, Zenon DEF CutAt
<1>7. QED
  BY <1>1, <1>4, <1>5, <1>6, Zenon

\* The receiver's headers are good as well.
LEMMA CutGood ==
    ASSUME NEW H \in Seq(Header), GoodHeaders(H)
    PROVE  GoodHeaders(Cut(H)) /\ Cut(Cut(H)) = Cut(H)
<1>1. PICK K \in Seq(Header) : K = Cut(H) /\ Len(K) = Len(H) /\ \A i \in 1 .. Len(H) : CutAt(K, H, i)
  BY CutFits, Zenon
<1>2. GoodHeaders(K)
  BY <1>1, Zenon DEF GoodHeaders, CutAt
<1>3. PICK L \in Seq(Header) : L = Cut(K) /\ Len(L) = Len(K) /\ \A i \in 1 .. Len(K) : CutAt(L, K, i)
  BY <1>2, CutFits, Zenon
<1>4. ASSUME NEW i \in 1 .. Len(K) PROVE L[i] = K[i]
  <2>1. i \in 1 .. Len(H)
    BY <1>1, Zenon
  <2>2. CutAt(K, H, i) /\ CutAt(L, K, i)
    BY <1>1, <1>3, <2>1, Zenon
  <2>3. PICK h \in Header : h = K[i]
    OBVIOUS
  <2>4. h.value \in Seq(ValueChars) /\ Solid(h.value) /\ L[i] = CutHeader(h)
    BY <2>2, <2>3, Zenon DEF CutAt
  <2>5. h.value \in Text
    BY <2>4, NameCharsAre
  <2>6. Stripped(h.value) = h.value
    BY <2>4, <2>5, StrippedSolid
  <2>7. h = With(h.name, h.value)
    BY WithOnly
  <2>8. QED
    BY <2>3, <2>4, <2>6, <2>7, Zenon DEF CutHeader
<1>5. L = K
  BY <1>3, <1>4, SameText
<1>6. QED
  BY <1>1, <1>2, <1>3, <1>5, Zenon

LEMMA LinesOf ==
    ASSUME NEW H \in Seq(Header), GoodHeaders(H)
    PROVE  \E ws \in Seq(Text) : /\ SendHeaders(H) = Joined(ws) /\ Len(ws) = Len(H)
                                 /\ \A i \in 1 .. Len(H) : ws[i] = LineOf(H[i])
<1>1. PICK l \in Nat : l = Len(H) /\ DOMAIN H = 1 .. l
  OBVIOUS
<1>2. ASSUME NEW i \in 1 .. l PROVE LineOf(H[i]) \in Text
  <2>1. PICK h \in Header : h = H[i]
    BY <1>1
  <2>2. PICK n \in Text, v \in Text : n = h.name /\ v = h.value
    BY WithOnly
  <2>3. PICK c \in Char, s \in Char : c = ":" /\ s = " "
    BY ParseKnown
  <2>4. CRLF \in Text
    BY CrlfIs
  <2>5. n \o <<c, s>> \o v \o CRLF \in Text
    BY <2>4
  <2>6. QED
    BY <2>1, <2>2, <2>3, <2>5, Zenon DEF LineOf
<1>3. PICK ws : ws = [i \in 1 .. l |-> LineOf(H[i])]
  OBVIOUS
<1>4. ws \in Seq(Text) /\ Len(ws) = l /\ \A i \in 1 .. l : ws[i] = LineOf(H[i])
  BY <1>2, <1>3
<1>5. SendHeaders(H) = Joined(ws)
  BY <1>1, <1>3, Zenon DEF SendHeaders, LineOf
<1>6. QED
  BY <1>1, <1>4, <1>5, Zenon

\* All of the headers, line by line.
LEMMA ParseHeaders ==
    ASSUME NEW H \in Seq(Header), GoodHeaders(H)
    PROVE  SendHeaders(H) \in Text /\ Loop(Parsing, Opening, SendHeaders(H)) = Fresh(Cut(H))
<1>1. PICK n \in Nat : n = Len(H)
  OBVIOUS
<1>2. PICK ws \in Seq(Text) : SendHeaders(H) = Joined(ws) /\ n = Len(ws) /\ \A i \in 1 .. n : ws[i] = LineOf(H[i])
  BY <1>1, LinesOf, Zenon DEF Text
<1>3. PICK K \in Seq(Header) : K = Cut(H) /\ n = Len(K) /\ \A i \in 1 .. n : CutAt(K, H, i)
  BY <1>1, CutFits, Zenon
<1>4. ASSUME NEW k \in 0 .. n PROVE SubSeq(K, 1, k) \in Seq(Header) /\ (SubSeq(K, 1, k) # <<>> => k # 0)
  <2>1. 1 \in 1 .. n + 1 /\ k \in 0 .. n /\ k \in Nat /\ k = k - 1 + 1
    OBVIOUS
  <2>2. SubSeq(K, 1, k) \in Seq(Header)
    BY <1>3, <2>1, Segment
  <2>3. QED
    BY <2>2, NoneOf, Zenon
<1>5. PICK f : f = [k \in 0 .. n |-> Fresh(SubSeq(K, 1, k))]
  OBVIOUS
<1>6. IsMap(f, 0 .. n, Parser)
  <2>1. \A k \in 0 .. n : Fresh(SubSeq(K, 1, k)) \in Parser
    <3>1. <<>> \in Text
      OBVIOUS
    <3>2. \A X \in Seq(Header) : Fresh(X) \in Parser
      BY <3>1, StatesType
    <3>3. QED
      BY <1>4, <3>2, Zenon
  <2>2. QED
    BY <1>5, <2>1 DEF IsMap
<1>7. ASSUME NEW k \in 1 .. n PROVE Loop(Parsing, f[k - 1], ws[k]) = f[k]
  <2>1. k - 1 \in 0 .. n /\ k \in 0 .. n /\ k \in 1 .. Len(K) /\ k \in 1 .. Len(H) /\ (k - 1 # 0 => k # 1)
    BY <1>1, <1>3
  <2>2. PICK a \in Seq(Header) : a = SubSeq(K, 1, k - 1) /\ (a # <<>> => k # 1)
    BY <1>4, <2>1, Zenon
  <2>3. SubSeq(K, 1, k) = Append(a, K[k])
    BY <2>1, <2>2, OneLonger
  <2>4. PICK nm : nm = H[k].name /\ GoodName(nm) /\ (k # 1 => nm[1] \notin Blanks)
    BY <2>1, Zenon DEF GoodHeaders
  <2>5. PICK v \in Seq(ValueChars) : v = H[k].value
    BY <2>1, Zenon DEF GoodHeaders
  <2>6. Named(a, nm)
    BY <2>2, <2>4, Zenon DEF Named
  <2>7. Loop(Parsing, Fresh(a), nm \o <<":", " ">> \o v \o CRLF) = Fresh(Append(a, With(nm, Stripped(v))))
    BY <2>6, ParseLine
  <2>8. f[k - 1] = Fresh(SubSeq(K, 1, k - 1)) /\ f[k] = Fresh(SubSeq(K, 1, k))
    BY <1>5, <2>1
  <2>9. K[k] = With(nm, Stripped(v)) /\ ws[k] = nm \o <<":", " ">> \o v \o CRLF
    BY <1>2, <1>3, <2>4, <2>5, Zenon DEF LineOf, CutAt, CutHeader
  <2>10. QED
    BY <2>2, <2>3, <2>7, <2>8, <2>9, Zenon
<1>8. Joined(ws) \in Text /\ Loop(Parsing, Val(f, 0), Joined(ws)) = Val(f, n)
  <2>1. Stages(Parsing, f, ws)
    BY <1>2, <1>7, Zenon DEF Stages
  <2>2. n = Len(ws)
    BY <1>2
  <2>3. QED
    BY <1>6, <2>1, <2>2, ParseStep, LoopStages
<1>9. f[0] = Fresh(SubSeq(K, 1, 0)) /\ f[n] = Fresh(SubSeq(K, 1, n))
  BY <1>5
<1>10. SubSeq(K, 1, 0) = <<>> /\ SubSeq(K, 1, n) = K
  BY <1>3, NoneOf, AllOf
<1>11. QED
  BY <1>2, <1>3, <1>8, <1>9, <1>10, Zenon DEF Val, Fresh, Opening

-----------------------------------------------------------------------------
(* The whole message.                                                      *)

InBody(H, b) == ParserAt("body", H, <<>>, b)

\* Behind the blank line everything is body.
LEMMA ParseBody ==
    ASSUME NEW H \in Seq(Header), NEW s \in Text
    PROVE  Loop(Parsing, InBody(H, <<>>), s) = InBody(H, s)
<1>1. PICK e \in Text : e = <<>>
  BY EmptySeq
<1>2. PICK F : F = [o \in Text |-> InBody(H, o)]
  OBVIOUS
<1>3. \A o \in Text : InBody(H, o) \in Parser
  <2>1. \A o \in Text : ParserAt("body", H, e, o) \in Parser
    BY ParserAtType, ModesAre
  <2>2. QED
    BY <1>1, <2>1, Zenon DEF InBody
<1>4. IsMap(F, Seq(Char), Parser)
  BY <1>2, <1>3 DEF IsMap
<1>5. ASSUME NEW o \in Seq(Char), NEW d \in Char PROVE Applied(Parsing, F[o], d) = F[Append(o, d)]
  <2>1. PICK p \in Text : p = Append(o, d)
    <3>1. Append(o, d) \in Text
      OBVIOUS
    <3>2. QED
      BY <3>1, Zenon
  <2>2. F[o] = InBody(H, o) /\ F[p] = InBody(H, p)
    BY <1>2
  <2>3. Applied(Parsing, InBody(H, o), d) = Parse(InBody(H, o), d)
    BY <1>3, ParseApplied
  <2>4. Parse(ParserAt("body", H, e, o), d) = ParserAt("body", H, e, p)
    BY <2>1, AtBody
  <2>5. QED
    BY <1>1, <2>1, <2>2, <2>3, <2>4, Zenon DEF InBody
<1>6. Collects(Parsing, F, Char, Char)
  BY <1>5, Zenon DEF Collects
<1>7. Char \in SUBSET Char
  OBVIOUS
<1>8. Loop(Parsing, Val(F, e), s) = Val(F, e \o s)
  BY <1>4, <1>6, <1>7, ParseStep, LoopCollects
<1>9. e \o s = s
  BY <1>1
<1>10. F[e] = InBody(H, e) /\ F[s] = InBody(H, s)
  BY <1>2
<1>11. QED
  BY <1>1, <1>8, <1>9, <1>10, Zenon DEF Val

LEMMA ParseBlank ==
    ASSUME NEW H \in Seq(Header)
    PROVE  CRLF \in Text /\ Loop(Parsing, Fresh(H), CRLF) = InBody(H, <<>>)
<1>1. PICK e \in Text : e = <<>>
  BY EmptySeq
<1>2. PICK cr \in Char, lf \in Char : cr = CR /\ lf = LF
  BY ParseKnown, Zenon
<1>3. PICK f \in Text, g \in Text : f = <<cr>> /\ g = Append(f, lf) /\ g = CRLF
  <2>1. <<cr>> \in Text /\ <<cr, lf>> \in Text /\ <<cr, lf>> = Append(<<cr>>, lf)
    OBVIOUS
  <2>2. QED
    BY <1>2, <2>1, Zenon DEF CRLF
<1>4. PICK st \in Parser : st = Fresh(H)
  BY <1>1, StatesType
<1>5. PICK bl \in Parser : bl = ParserAt("blank", H, e, e)
  BY ParserAtType, ModesAre
<1>6. cr = CR
  BY <1>2
<1>7. lf = LF
  BY <1>2
<1>8. Loop(Parsing, st, f) = bl
  <2>1. Loop(Parsing, st, <<cr>>) = Applied(Parsing, st, cr)
    BY ParseStep, LoopOne
  <2>2. Applied(Parsing, st, cr) = Parse(st, cr)
    BY ParseApplied
  <2>3. Parse(ParserAt("line", H, e, e), cr) = ParserAt("blank", H, e, e)
    BY <1>6, AtLine
  <2>4. QED
    BY <1>1, <1>3, <1>4, <1>5, <2>1, <2>2, <2>3, Zenon DEF Fresh
<1>9. Loop(Parsing, st, Append(f, lf)) = Applied(Parsing, Loop(Parsing, st, f), lf)
  BY ParseStep, LoopAppend
<1>10. Applied(Parsing, bl, lf) = Parse(bl, lf)
  BY ParseApplied
<1>11. Parse(ParserAt("blank", H, e, e), lf) = ParserAt("body", H, e, e)
  BY <1>7, AtBlank
<1>12. QED
  BY <1>1, <1>3, <1>4, <1>5, <1>8, <1>9, <1>10, <1>11, Zenon DEF InBody

\* What send_headers and send_body write is parsed again.
LEMMA ParseWhole ==
    ASSUME NEW H \in Seq(Header), GoodHeaders(H), NEW b \in Text
    PROVE  /\ SendHeaders(H) \o CRLF \o b \in Text
           /\ ParseMessage(SendHeaders(H) \o CRLF \o b) = Kept(Cut(H), b)
<1>1. PICK h \in Text : h = SendHeaders(H)
  BY ParseHeaders
<1>2. PICK K \in Seq(Header) : K = Cut(H)
  BY CutFits
<1>3. PICK cl \in Text : cl = CRLF
  BY ParseBlank
<1>4. Loop(Parsing, Opening, h) = Fresh(K)
  BY <1>1, <1>2, ParseHeaders
<1>5. Opening \in Parser
  BY OpeningType
<1>6. h \o cl \in Text /\ (h \o cl) \o b \in Text
  OBVIOUS
<1>7. Loop(Parsing, Opening, h \o cl) = Loop(Parsing, Loop(Parsing, Opening, h), cl)
  BY <1>5, ParseStep, LoopConcat
<1>8. Loop(Parsing, Fresh(K), cl) = InBody(K, <<>>)
  BY <1>3, ParseBlank
<1>9. Loop(Parsing, Opening, (h \o cl) \o b) = Loop(Parsing, Loop(Parsing, Opening, h \o cl), b)
  <2>1. PICK hc \in Text : hc = h \o cl
    BY <1>6, Zenon
  <2>2. Loop(Parsing, Opening, hc \o b) = Loop(Parsing, Loop(Parsing, Opening, hc), b)
    BY <1>5, ParseStep, LoopConcat
  <2>3. QED
    BY <2>1, <2>2, Zenon
<1>10. Loop(Parsing, InBody(K, <<>>), b) = InBody(K, b)
  BY ParseBody
<1>11. Loop(Parsing, Opening, (h \o cl) \o b) = InBody(K, b)
  BY <1>4, <1>7, <1>8, <1>9, <1>10, Zenon
<1>12. InBody(K, b).mode = "body" /\ InBody(K, b).headers = K /\ InBody(K, b).body = b
  BY ParserAtFields DEF InBody
<1>13. ParseMessage((h \o cl) \o b) = Kept(K, b)
  BY <1>11, <1>12, ParseIs, Zenon
<1>14. QED
  BY <1>1, <1>2, <1>3, <1>6, <1>13, Zenon

-----------------------------------------------------------------------------
(* A transfer: what is sent, read and parsed.                              *)

\* Headers whose names do not begin with two dots: they are sent unstuffed.
Undotted(H) == \A i \in 1 .. Len(H) : ~Starts(H[i].name, <<".", ".">>)

LEMMA AfterOne ==
    ASSUME NEW n \in Text, NEW d \in Text, Len(n) = 1, Len(d) = 2
    PROVE  n \o d \in Text /\ (n \o d)[2] = d[1] /\ Len(n \o d) = 3
<1>1. /\ n \o d \in Text /\ Len(n \o d) = Len(n) + Len(d)
      /\ \A i \in 1 .. Len(n) + Len(d) : (n \o d)[i] = IF i <= Len(n) THEN n[i] ELSE d[i - Len(n)]
  BY ConcatProperties
<1>2. Len(n) + Len(d) = 3 /\ 2 \in 1 .. Len(n) + Len(d) /\ ~(2 <= Len(n)) /\ 2 - Len(n) = 1
  OBVIOUS
<1>3. QED
  BY <1>1, <1>2, Zenon

\* A header line is neither the dot nor stuffed.
LEMMA SafeHeader ==
    ASSUME NEW n, GoodName(n), ~Starts(n, <<".", ".">>), NEW v \in Seq(ValueChars)
    PROVE  /\ n \o <<":", " ">> \o v \in Seq(LineChars)
           /\ Safe(n \o <<":", " ">> \o v \o CRLF)
<1>1. n \in Seq(NameChars) /\ n # <<>>
  BY Zenon DEF GoodName
<1>2. n \in Text /\ n \in Seq(LineChars) /\ v \in Text /\ v \in Seq(LineChars)
  BY <1>1, NameCharsAre
<1>3. PICK co \in Char, sp \in Char : co = ":" /\ sp = " " /\ co \in LineChars /\ sp \in LineChars
  <2>1. ":" # LF /\ " " # LF
    BY DEF LF
  <2>2. QED
    BY <2>1, ParseKnown DEF LineChars
<1>4. PICK cl \in Text : cl = CRLF
  BY ParseBlank, EmptySeq
<1>5. n \o <<co, sp>> \o v \in Seq(LineChars)
  <2>1. co \in LineChars /\ sp \in LineChars
    BY <1>3
  <2>2. <<co, sp>> \in Seq(LineChars)
    BY <2>1
  <2>3. n \o <<co, sp>> \in Seq(LineChars)
    BY <1>2, <2>2
  <2>4. QED
    BY <1>2, <2>3
<1>6. PICK w \in Text : w = n \o <<co, sp>> \o v \o cl
  <2>1. n \o <<co, sp>> \o v \o cl \in Text
    BY <1>2
  <2>2. QED
    BY <2>1, Zenon
<1>7. PICK l \in Nat : l = Len(n) /\ l >= 1
  BY <1>2, <1>1, EmptySeq
<1>8. w[1] = n[1]
  BY <1>2, <1>6, <1>7
<1>9. CASE l = 1
  <2>1. w[2] = co
    <3>1. PICK x \in Text : x = n \o <<co, sp>> /\ x[2] = co /\ Len(x) = 3
      <4>1. PICK d \in Text : d = <<co, sp>> /\ Len(d) = 2 /\ d[1] = co
        <5>1. <<co, sp>> \in Text /\ Len(<<co, sp>>) = 2 /\ <<co, sp>>[1] = co
          OBVIOUS
        <5>2. QED
          BY <5>1, Zenon
      <4>2. n \o d \in Text /\ (n \o d)[2] = d[1] /\ Len(n \o d) = 3
        <5>1. n \in Text /\ Len(n) = 1 /\ Len(d) = 2
          BY <1>2, <1>7, <1>9, <4>1, Zenon
        <5>2. QED
          BY <5>1, AfterOne
      <4>3. QED
        BY <4>1, <4>2, Zenon
    <3>2. PICK y \in Text : y = x \o v /\ y[2] = x[2] /\ Len(y) >= 3
      <4>1. x \o v \in Text /\ (x \o v)[2] = x[2] /\ Len(x \o v) >= 3
        BY <1>2, <3>1
      <4>2. QED
        BY <4>1, Zenon
    <3>3. (y \o cl)[2] = y[2]
      BY <3>2
    <3>4. QED
      BY <1>6, <3>1, <3>2, <3>3, Zenon
  <2>2. QED
    BY <1>3, <1>4, <1>5, <1>6, <2>1, DotsAre, Zenon DEF Safe
<1>10. CASE l >= 2
  <2>1. w[2] = n[2] /\ n[2] \in NameChars
    BY <1>1, <1>2, <1>6, <1>7, <1>10
  <2>2. n[2] \notin {CR, LF}
    BY <2>1 DEF NameChars
  <2>3. PICK d \in Text : d = <<".", ".">> /\ Len(d) = 2 /\ d[1] = "." /\ d[2] = "."
    BY DotsAre, Zenon
  <2>4. ~(Len(d) <= Len(n) /\ \A i \in 1 .. Len(d) : n[i] = d[i])
    <3>1. ~Starts(n, d)
      BY <2>3, Zenon
    <3>2. QED
      BY <1>2, <3>1, StartsIs
  <2>5. 2 <= Len(n) /\ \A i : i \in 1 .. 2 <=> i = 1 \/ i = 2
    BY <1>7, <1>10
  <2>6. ~(n[1] = "." /\ n[2] = ".")
    BY <2>3, <2>4, <2>5, Zenon
  <2>7. QED
    BY <1>3, <1>4, <1>5, <1>6, <1>8, <2>1, <2>2, <2>6, Zenon DEF Safe
<1>11. l = 1 \/ l >= 2
  BY <1>7
<1>12. QED
  BY <1>9, <1>10, <1>11

LEMMA HeaderWire ==
    ASSUME NEW n, GoodName(n), ~Starts(n, <<".", ".">>), NEW v \in Seq(ValueChars)
    PROVE  /\ Wired(n \o <<":", " ">> \o v \o CRLF)
           /\ Unstuffed(n \o <<":", " ">> \o v \o CRLF) = n \o <<":", " ">> \o v \o CRLF
<1>1. PICK l \in Seq(LineChars) : l = n \o <<":", " ">> \o v /\ Safe(l \o CRLF)
  BY SafeHeader, Zenon
<1>2. l \in Text
  BY LineCharsAre
<1>3. l \o CRLF \in Text
  BY <1>2, CrlfIs
<1>4. ~IsLast(l \o CRLF) /\ Unstuffed(l \o CRLF) = l \o CRLF
  BY <1>1, <1>3, SafeLine, Zenon DEF Text
<1>5. Wired(l \o CRLF)
  BY <1>4, EndsInLine
<1>6. QED
  BY <1>1, <1>4, <1>5, Zenon

\* The headers are read as they were written.
LEMMA ReadHeaders ==
    ASSUME NEW H \in Seq(Header), GoodHeaders(H), Undotted(H), NEW m \in Text
    PROVE  /\ SendHeaders(H) \in Text
           /\ Loop(Reading, Hears(m, <<>>), SendHeaders(H)) = Hears(m \o SendHeaders(H), <<>>)
<1>1. PICK ws \in Seq(Text) : SendHeaders(H) = Joined(ws) /\ Len(ws) = Len(H) /\ \A i \in 1 .. Len(H) : ws[i] = LineOf(H[i])
  BY LinesOf, Zenon DEF Text
<1>2. ASSUME NEW i \in 1 .. Len(ws) PROVE Wired(ws[i]) /\ ws[i] = Unstuffed(ws[i])
  <2>1. i \in 1 .. Len(H)
    BY <1>1, Zenon
  <2>2. PICK n : n = H[i].name /\ GoodName(n) /\ ~Starts(n, <<".", ".">>)
    BY <2>1, Zenon DEF GoodHeaders, Undotted
  <2>3. PICK v \in Seq(ValueChars) : v = H[i].value
    BY <2>1, Zenon DEF GoodHeaders
  <2>4. ws[i] = n \o <<":", " ">> \o v \o CRLF
    BY <1>1, <2>1, <2>2, <2>3, Zenon DEF LineOf
  <2>5. QED
    BY <2>2, <2>4, HeaderWire, Zenon
<1>3. /\ Joined(ws) \in Text
      /\ Loop(Reading, Hears(m, <<>>), Joined(ws)) = Hears(m \o Joined(ws), <<>>)
  BY <1>2, ReadLines, Zenon DEF Text
<1>4. QED
  BY <1>1, <1>3, Zenon

LEMMA ReadBlank ==
    ASSUME NEW m \in Text
    PROVE  Loop(Reading, Hears(m, <<>>), CRLF) = Hears(m \o CRLF, <<>>)
<1>1. PICK l \in Seq(LineChars) : l = <<>>
  BY EmptySeq
<1>2. PICK cl \in Text : cl = CRLF
  BY ParseBlank, EmptySeq
<1>3. l \o CRLF = CRLF
  <2>1. <<>> \o cl = cl
    OBVIOUS
  <2>2. QED
    BY <1>1, <1>2, <2>1, Zenon
<1>4. cl[1] = CR
  BY <1>2 DEF CRLF
<1>5. Safe(cl)
  BY <1>4, DotsAre, Zenon DEF Safe
<1>6. ~IsLast(cl) /\ Unstuffed(cl) = cl
  BY <1>5, SafeLine
<1>7. Wired(CRLF)
  BY <1>2, <1>3, <1>6, EndsInLine, Zenon
<1>8. Loop(Reading, Hears(m, <<>>), CRLF) = Hears(m \o Unstuffed(CRLF), <<>>)
  BY <1>7, ReadLine, Zenon DEF Text
<1>9. QED
  BY <1>2, <1>6, <1>8, Zenon

\* What the receiver puts together.
Written(H, b) == SendHeaders(H) \o CRLF \o Joined(Ended(Lines(b)))

LEMMA HeardAfter ==
    ASSUME NEW m \in Text, NEW t \in Text
    PROVE  Loop(Reading, Heard(m, <<>>), t) = Heard(m, t)
<1>1. PICK e \in Text : e = <<>>
  BY EmptySeq
<1>2. PICK F : F = [o \in Text |-> Heard(m, o)]
  OBVIOUS
<1>3. \A o \in Text : Heard(m, o) \in Reader
  BY HearsType
<1>4. IsMap(F, Seq(Char), Reader)
  BY <1>2, <1>3 DEF IsMap
<1>5. ASSUME NEW o \in Seq(Char), NEW d \in Char PROVE Applied(Reading, F[o], d) = F[Append(o, d)]
  <2>1. PICK p \in Text : p = Append(o, d)
    <3>1. Append(o, d) \in Text
      OBVIOUS
    <3>2. QED
      BY <3>1, Zenon
  <2>2. F[o] = Heard(m, o) /\ F[p] = Heard(m, p)
    BY <1>2
  <2>3. Applied(Reading, Heard(m, o), d) = Read(Heard(m, o), d)
    BY <1>3, ReadApplied
  <2>4. Read(Heard(m, o), d) = Heard(m, p)
    BY <2>1, HeardChar
  <2>5. QED
    BY <2>1, <2>2, <2>3, <2>4, Zenon
<1>6. Collects(Reading, F, Char, Char)
  BY <1>5, Zenon DEF Collects
<1>7. Char \in SUBSET Char
  OBVIOUS
<1>8. Loop(Reading, Val(F, e), t) = Val(F, e \o t)
  BY <1>4, <1>6, <1>7, ReadStep, LoopCollects
<1>9. e \o t = t
  BY <1>1
<1>10. F[e] = Heard(m, e) /\ F[t] = Heard(m, t)
  BY <1>2
<1>11. QED
  BY <1>1, <1>8, <1>9, <1>10, Zenon DEF Val

\* What Sent puts on the wire is read as it was written.
LEMMA ReadSent ==
    ASSUME NEW H \in Seq(Header), GoodHeaders(H), Undotted(H), NEW b \in Text, NEW t \in Text
    PROVE  /\ Sent(Kept(H, b)) \in Text /\ Written(H, b) \in Text
           /\ ReadMessage(Sent(Kept(H, b)) \o t) = Heard(Written(H, b), t)
<1>1. PICK e \in Text : e = <<>>
  BY EmptySeq
<1>2. PICK z \in Reader : z = Hears(e, <<>>)
  <2>1. Hears(e, e) \in Reader
    BY HearsType
  <2>2. QED
    BY <1>1, <2>1, Zenon
<1>3. PICK h \in Text : h = SendHeaders(H)
  BY ReadHeaders
<1>4. PICK cl \in Text : cl = CRLF
  BY ParseBlank
<1>5. PICK sb \in Text, lb \in Text : sb = SendBody(b) /\ lb = Joined(Ended(Lines(b)))
  BY ReadBody, EmptySeq, Zenon DEF Text
<1>6. PICK dt \in Text : dt = Dot
  <2>1. "." \in Char
    BY LineCharsAre DEF LineChars
  <2>2. \A x, y, w \in Char : <<x, y, w>> \in Text
    OBVIOUS
  <2>3. QED
    BY <2>1, <2>2, ParseKnown, Zenon DEF Dot
<1>7. PICK hc \in Text, hb \in Text, wr \in Text, hd \in Text :
         hc = h \o cl /\ hb = hc \o sb /\ wr = hc \o lb /\ hd = hb \o dt
  <2>1. h \o cl \in Text /\ (h \o cl) \o sb \in Text /\ (h \o cl) \o lb \in Text /\ ((h \o cl) \o sb) \o dt \in Text
    OBVIOUS
  <2>2. QED
    BY <2>1, Zenon
<1>8. Sent(Kept(H, b)) = hd /\ Written(H, b) = wr
  <2>1. Kept(H, b).headers = H /\ Kept(H, b).body = b
    BY KeptFields
  <2>2. QED
    BY <1>3, <1>4, <1>5, <1>6, <1>7, <2>1, Zenon DEF Sent, Written
<1>9. Loop(Reading, z, h) = Hears(h, <<>>)
  <2>1. Loop(Reading, Hears(e, <<>>), h) = Hears(e \o h, <<>>)
    BY <1>3, ReadHeaders
  <2>2. e \o h = h
    BY <1>1
  <2>3. QED
    BY <1>2, <2>1, <2>2, Zenon
<1>10. Loop(Reading, z, hc) = Hears(hc, <<>>)
  <2>1. Loop(Reading, z, h \o cl) = Loop(Reading, Loop(Reading, z, h), cl)
    BY ReadStep, LoopConcat
  <2>2. Loop(Reading, Hears(h, <<>>), CRLF) = Hears(h \o CRLF, <<>>)
    BY ReadBlank
  <2>3. QED
    BY <1>4, <1>7, <1>9, <2>1, <2>2, Zenon
<1>11. Loop(Reading, z, hb) = Hears(wr, <<>>)
  <2>1. Loop(Reading, z, hc \o sb) = Loop(Reading, Loop(Reading, z, hc), sb)
    BY ReadStep, LoopConcat
  <2>2. Loop(Reading, Hears(hc, <<>>), SendBody(b)) = Hears(hc \o Joined(Ended(Lines(b))), <<>>)
    BY ReadBody
  <2>3. QED
    BY <1>5, <1>7, <1>10, <2>1, <2>2, Zenon
<1>12. Loop(Reading, z, hd) = Heard(wr, <<>>)
  <2>1. Loop(Reading, z, hb \o dt) = Loop(Reading, Loop(Reading, z, hb), dt)
    BY ReadStep, LoopConcat
  <2>2. Loop(Reading, Hears(wr, <<>>), Dot) = Heard(wr, <<>>)
    BY ReadDot
  <2>3. QED
    BY <1>6, <1>7, <1>11, <2>1, <2>2, Zenon
<1>13. Loop(Reading, z, hd \o t) = Heard(wr, t)
  <2>1. Loop(Reading, z, hd \o t) = Loop(Reading, Loop(Reading, z, hd), t)
    BY ReadStep, LoopConcat
  <2>2. Loop(Reading, Heard(wr, <<>>), t) = Heard(wr, t)
    BY HeardAfter
  <2>3. QED
    BY <1>12, <2>1, <2>2, Zenon
<1>14. ReadMessage(hd \o t) = Loop(Reading, z, hd \o t)
  BY <1>1, <1>2, Zenon DEF ReadMessage, Hears
<1>15. QED
  BY <1>8, <1>13, <1>14, Zenon

\* A transfer: what becomes of the article, with more to come after it.
LEMMA Transfer ==
    ASSUME NEW H \in Seq(Header), GoodHeaders(H), Undotted(H), NEW b \in Text, NEW t \in Text
    PROVE  /\ Joined(Ended(Lines(b))) \in Text
           /\ ReadMessage(Sent(Kept(H, b)) \o t).after = t
           /\ ParseMessage(ReadMessage(Sent(Kept(H, b)) \o t).msg) = Kept(Cut(H), Joined(Ended(Lines(b))))
<1>1. ReadMessage(Sent(Kept(H, b)) \o t) = Heard(Written(H, b), t)
  BY ReadSent
<1>2. PICK lb \in Text : lb = Joined(Ended(Lines(b)))
  BY ReadBody, EmptySeq
<1>3. ParseMessage(SendHeaders(H) \o CRLF \o lb) = Kept(Cut(H), lb)
  BY ParseWhole
<1>4. Heard(Written(H, b), t).msg = Written(H, b) /\ Heard(Written(H, b), t).after = t
  BY DEF Heard
<1>5. QED
  BY <1>1, <1>2, <1>3, <1>4, Zenon DEF Written

\* Stripping values leaves the names.
LEMMA CutUndotted ==
    ASSUME NEW H \in Seq(Header), GoodHeaders(H), Undotted(H)
    PROVE  Undotted(Cut(H))
<1>1. Len(Cut(H)) = Len(H) /\ \A i \in 1 .. Len(H) : CutAt(Cut(H), H, i)
  BY CutFits
<1>2. QED
  BY <1>1, Zenon DEF Undotted, CutAt

\* What RelaysFaithfully says of an article that is sent, with t after it.
Arrives(article, t) ==
    LET read == ReadMessage(Sent(article) \o t)
        copy == ParseMessage(read.msg)
    IN  /\ read.after = t
        /\ copy.ok
        /\ Len(copy.headers) = Len(article.headers)
        /\ Lines(copy.body) = Lines(article.body)
        /\ NextCopy(copy) = copy

(***************************************************************************)
(* read_message, parse_message, send_headers and send_body together: any   *)
(* article that parse_message accepts and whose header names do not begin  *)
(* with two dots arrives whole at the next server, whatever follows it on  *)
(* the connection, and what that server passes on is what it got.  (The    *)
(* Message-ID, which both ends rewrite, is the subject of IdsFixed.)       *)
(***************************************************************************)
THEOREM RelayExact ==
    ASSUME NEW s \in Text, NEW t \in Text, ParseMessage(s).ok, ~DottedName(ParseMessage(s))
    PROVE  Arrives(ParseMessage(s), t)
<1>1. PICK H \in Seq(Header), b \in Text : ParseMessage(s) = Kept(H, b) /\ GoodHeaders(H)
  BY ParseSound
<1>2. Undotted(H)
  <2>1. DOMAIN H = 1 .. Len(H)
    OBVIOUS
  <2>2. Kept(H, b).headers = H
    BY KeptFields
  <2>3. QED
    BY <1>1, <2>1, <2>2, Zenon DEF DottedName, Undotted
<1>3. PICK K \in Seq(Header) : K = Cut(H) /\ Len(K) = Len(H)
  BY <1>1, CutFits
<1>4. GoodHeaders(K) /\ Cut(K) = K /\ Undotted(K)
  BY <1>1, <1>2, <1>3, CutGood, CutUndotted, Zenon
<1>5. PICK ls \in Seq(Seq(LineChars)) : ls = Lines(b)
  BY LinesType
<1>6. PICK B \in Text : B = Joined(Ended(ls)) /\ Lines(B) = ls
  BY LinesBack
<1>7. /\ ReadMessage(Sent(Kept(H, b)) \o t).after = t
      /\ ParseMessage(ReadMessage(Sent(Kept(H, b)) \o t).msg) = Kept(K, B)
  <2>1. /\ ReadMessage(Sent(Kept(H, b)) \o t).after = t
        /\ ParseMessage(ReadMessage(Sent(Kept(H, b)) \o t).msg) = Kept(Cut(H), Joined(Ended(Lines(b))))
    BY <1>1, <1>2, Transfer
  <2>2. QED
    BY <1>3, <1>5, <1>6, <2>1, Zenon
<1>8. NextCopy(Kept(K, B)) = Kept(K, B)
  <2>1. PICK e \in Text : e = <<>>
    BY EmptySeq
  <2>2. ParseMessage(ReadMessage(Sent(Kept(K, B)) \o e).msg) = Kept(Cut(K), Joined(Ended(Lines(B))))
    BY <1>4, Transfer
  <2>3. Sent(Kept(K, B)) \o e = Sent(Kept(K, B))
    <3>1. PICK x \in Text : x = Sent(Kept(K, B))
      BY <1>4, <2>1, ReadSent
    <3>2. x \o e = x
      BY <2>1
    <3>3. QED
      BY <3>1, <3>2, Zenon
  <2>4. QED
    BY <1>4, <1>6, <2>2, <2>3, Zenon DEF NextCopy
<1>9. /\ Kept(H, b).headers = H /\ Kept(H, b).body = b
      /\ Kept(K, B).ok /\ Kept(K, B).headers = K /\ Kept(K, B).body = B
  BY KeptFields
<1>10. QED
  BY <1>1, <1>3, <1>5, <1>6, <1>7, <1>8, <1>9, Zenon DEF Arrives

LEMMA PostedType ==
    ASSUME input \in Text
    PROVE  Posted \in Text /\ ReadMessage(Posted).msg \in Text
<1>1. PICK cl \in Text : cl = CRLF
  BY ParseBlank, EmptySeq
<1>2. PICK dt \in Text : dt = Dot
  <2>1. "." \in Char
    BY LineCharsAre DEF LineChars
  <2>2. \A x, y, w \in Char : <<x, y, w>> \in Text
    OBVIOUS
  <2>3. QED
    BY <2>1, <2>2, ParseKnown, Zenon DEF Dot
<1>3. PICK nc \in Text : nc = <<"n", ":">>
  <2>1. "n" \in Char
    BY CharAssumption DEF KnownChars
  <2>2. \A x, y \in Char : <<x, y>> \in Text
    OBVIOUS
  <2>3. QED
    BY <2>1, <2>2, ParseKnown, Zenon
<1>4. nc \o cl \o cl \o input \in Text
  OBVIOUS
<1>5. PICK raw \in Text : raw = IF kind = "body" THEN nc \o cl \o cl \o input ELSE input
  BY <1>4, Zenon
<1>6. raw \o cl \o dt \in Text
  OBVIOUS
<1>7. Posted = raw \o cl \o dt
  BY <1>1, <1>2, <1>3, <1>5, Zenon DEF Posted
<1>8. PICK e \in Text : e = <<>>
  BY EmptySeq
<1>9. Hears(e, e) \in Reader
  BY HearsType
<1>10. Loop(Reading, Hears(e, e), raw \o cl \o dt) \in Reader
  BY <1>6, <1>9, ReadStep, LoopType
<1>11. ReadMessage(Posted) \in Reader
  BY <1>7, <1>8, <1>10, Zenon DEF ReadMessage, Hears
<1>12. QED
  BY <1>6, <1>7, <1>11 DEF Reader

(***************************************************************************)
(* The same for every article the run can post: headers sent without       *)
(* stuffing, stuffed bodies, folded headers and bare line feeds survive    *)
(* any number of transfers.                                                *)
(***************************************************************************)
THEOREM FaithfulRelays == TextSpec => []RelaysFaithfully
<1>1. InputType => RelaysFaithfully
  <2>1. ASSUME InputType, kind \in {"head", "body"}, NEW s, s = ReadMessage(Posted).msg,
               ParseMessage(s).ok, ~DottedName(ParseMessage(s))
        PROVE  Arrives(ParseMessage(s), <<"n">>)
    <3>1. input \in Text
      BY <2>1 DEF InputType
    <3>2. s \in Text
      BY <2>1, <3>1, PostedType, Zenon DEF Text
    <3>3. PICK t \in Text : t = <<"n">>
      <4>1. "n" \in Char
        BY CharAssumption DEF KnownChars
      <4>2. <<"n">> \in Text
        BY <4>1
      <4>3. QED
        BY <4>2, Zenon
    <3>4. Arrives(ParseMessage(s), t)
      BY <2>1, <3>2, RelayExact
    <3>5. QED
      BY <3>3, <3>4, Zenon
  <2>2. QED
    BY <2>1, Zenon DEF RelaysFaithfully, Arrives
<1>2. QED
  BY <1>1, InputTyped, PTL

=============================================================================
