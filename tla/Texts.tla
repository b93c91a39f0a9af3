------------------------------- MODULE Texts --------------------------------
(***************************************************************************)
(* The pure algorithms, run on every input up to a length: a behaviour     *)
(* picks a kind of input and puts one together, piece by piece.            *)
(***************************************************************************)
EXTENDS GroupRules, GroupListing, ArticleText, Milter

CONSTANTS
    Kinds,      \* kinds of input to try
    MaxLength   \* bound: length of an input, per kind

VARIABLES kind, input

textVars == <<kind, input>>

Str(set) == {<<c>> : c \in set}

\* Rules for the group ab: exact or by pattern, and days or none.
RulePatterns == {<<"*">>, <<"a", "*">>, <<"?", "b">>, <<"a", "b", "*">>, <<"c", "*">>}
Values == {Absent, 0, 7, 9}
Rules == {Rule(g, Absent, v) : g \in {<<"a", "b">>, <<"c">>}, v \in Values}
           \cup {Rule(Absent, p, v) : p \in RulePatterns, v \in Values \ {0}}

Pieces(k) ==
    CASE k = "pattern" -> Str({"a", "b", "*", "?", "[", "]", "!", "\\"})
      [] k = "rules"   -> {<<r>> : r \in Rules}
      [] k = "number"  -> Str({"0", "1", "9", " ", "+"})
      [] k = "head"    -> {<<"n">>, <<":">>, <<" ">>, <<".">>, CRLF, <<LF>>}
      [] k = "body"    -> {<<"n">>, <<".">>, <<CR>>, CRLF, <<LF>>}
      [] k = "id"      -> Str({"a", "@", "\"", "\\", "[", "]", "(", ")", " "})
      [] k = "milter"  -> Str(Responses \cup Faults)

TextInit == kind \in Kinds /\ input = <<>>

Extend(p) ==
    /\ Len(input) < MaxLength[kind]
    /\ input' = input \o p
    /\ UNCHANGED kind

TextNext == \E p \in Pieces(kind) : Extend(p)

TextSpec == TextInit /\ [][TextNext]_textVars

-----------------------------------------------------------------------------
SmallTexts == UNION {[1 .. n -> {"a", "]"}] : n \in 0 .. 3}

(* A pattern without a malformed class or a stray backslash matches        *)
(* exactly the texts that can be cut into what its parts stand for: the    *)
(* regular expression that wildmat builds, with its escapes, classes and   *)
(* anchors, means what the pattern does.                                   *)
WildmatMeans ==
    kind = "pattern" /\ WellFormed(input) =>
        \A t \in SmallTexts : wildmat(input, t) = Matches(input, t)

Swapped(s, i) == [s EXCEPT ![i] = s[i + 1], ![i + 1] = s[i]]

\* Two rules between which only their order decides.
Tied(r, q) ==
    \/ r.group # Absent /\ r.group = q.group
    \/ /\ r.group = Absent /\ q.group = Absent
       /\ ~MoreSpecific(r.pattern, q.pattern) /\ ~MoreSpecific(q.pattern, r.pattern)

(* The order of the rules in the configuration does not matter: exchanging *)
(* two neighbours changes neither the retention nor the size limit of a    *)
(* group, unless they name the same group or are equally specific.         *)
OrderIrrelevant ==
    kind = "rules" =>
        \A i \in 1 .. Len(input) - 1 :
            ~Tied(input[i], input[i + 1]) =>
                /\ max_size_for_group(Swapped(input, i), <<"a", "b">>)
                     = max_size_for_group(input, <<"a", "b">>)
                /\ retention_for_group(Swapped(input, i), <<"a", "b">>)
                     = retention_for_group(input, <<"a", "b">>)

\* What the units are worth.
Worth(n, c, unit) ==
    n = Absent \/ c = Absent \/ c = Refused \/ c = n * unit

(* A size or a duration with a unit is that many times the number in front *)
(* of it, or is not taken: no overflow makes a large limit a small one,    *)
(* and no way to write it makes a limit of zero bytes.                     *)
UnitsExact ==
    kind = "number" =>
        /\ Worth(parse_size(input), deserialize_size(input \o <<"K">>), 1024)
        /\ Worth(parse_duration_secs(input), deserialize_duration_secs(input \o <<"m">>), 60)
        /\ Worth(parse_duration_secs(input), deserialize_duration_secs(input \o <<"h">>), 3600)
        /\ \A unit \in {<<>>, <<"K">>} :
              deserialize_bandwidth_limit(input \o unit) # 0

\* The article of the input: its headers are complete with the body's first
\* line, or all of it is headers.
Posted ==
    LET raw == IF kind = "body" THEN <<"n", ":">> \o CRLF \o CRLF \o input ELSE input
    IN  raw \o CRLF \o Dot

NextCopy(article) == ParseMessage(ReadMessage(Sent(article)).msg)

\* Headers are sent without stuffing.
DottedName(article) ==
    \E i \in DOMAIN article.headers : Starts(article.headers[i].name, <<".", ".">>)

(* An article passed on from server to server arrives whole: the receiver  *)
(* stops reading exactly where the sender stopped sending, finds as many   *)
(* headers and the lines that were sent, and what one transfer made of     *)
(* line ends and folded headers no further transfer changes.               *)
RelaysFaithfully ==
    kind \in {"head", "body"} =>
        LET article == ParseMessage(ReadMessage(Posted).msg)
        IN  article.ok /\ ~DottedName(article) =>
              LET read == ReadMessage(Sent(article) \o <<"n">>)
                  copy == ParseMessage(read.msg)
              IN  /\ read.after = <<"n">>
                  /\ copy.ok
                  /\ Len(copy.headers) = Len(article.headers)
                  /\ Lines(copy.body) = Lines(article.body)
                  /\ NextCopy(copy) = copy

\* What unescaping does not leave as it is.
Special == {"\"", "(", "[", "]", "\\"} \cup Spaces

\* local@domain, the domain a name or a literal in brackets.
HasDomain(id) ==
    LET right == Rest(id, First(id, {"@"}) + 1)
    IN  /\ First(id, {"@"}) <= Len(id)
        /\ \/ \A i \in DOMAIN right : right[i] \notin Special
           \/ Len(right) > 1 /\ right[1] = "[" /\ Last(right) = "]"

(* A Message-ID with a domain has one form: what the first server makes of *)
(* it, quoting and escaping what needs it, is what every later server      *)
(* makes of it, so that a copy that comes back is known.                   *)
IdsSettle ==
    kind = "id" =>
        LET id == <<"<">> \o input \o <<">">>
            u == unescape_message_id(id)
        IN  HasDomain(Inner(u)) => Canonical(Canonical(id)) = Canonical(id)

(* A milter that cannot be reached, breaks off, answers nonsense, asks for *)
(* a later attempt, rejects or discards stops the article, at whichever    *)
(* command; only its acceptance or its consent to all of it lets it pass.  *)
MilterFailsClosed ==
    kind = "milter" =>
        /\ ProcessArticle(FALSE, input) # "ok"
        /\ ProcessArticle(TRUE, input) = "ok" =>
              \/ \E n \in 1 .. Commands : /\ n <= Len(input) /\ input[n] = "accept"
                                          /\ \A m \in 1 .. n - 1 : input[m] = "continue"
              \/ /\ Commands <= Len(input)
                 /\ \A m \in 1 .. Commands : input[m] = "continue"

-----------------------------------------------------------------------------
(* A claim of the repository that the code does not keep: LIST ACTIVE and  *)
(* NEWNEWS show the groups whose names match the client's pattern, see     *)
(* GroupListing.                                                           *)
GroupsListed ==
    kind = "pattern" => ListShowsMatches({<<"a">>, <<"a", "b">>}, input)

=============================================================================
