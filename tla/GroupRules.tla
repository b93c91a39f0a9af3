---------------------------- MODULE GroupRules ------------------------------
(***************************************************************************)
(* The configuration values that decide about articles: which rule of      *)
(* group_settings applies to a group, and how sizes and durations are      *)
(* read.                                                                   *)
(***************************************************************************)
EXTENDS Wildmat

CONSTANTS
    Absent,   \* Option::None
    Refused   \* an error that refuses the configuration

ASSUME NotValues == {Absent, Refused} \cap (Int \cup Text) = {}

\* GroupRule: group or pattern (a sequence of characters, or Absent) and one
\* of its values, retention_days or max_article_bytes.
Rule(group, pattern, value) == [group |-> group, pattern |-> pattern, value |-> value]

Wildcards(p) == Cardinality({i \in DOMAIN p : p[i] \in {"*", "?"}})

\* The key sort_by_key uses, smaller first.
MoreSpecific(p, q) ==
    \/ Wildcards(p) < Wildcards(q)
    \/ Wildcards(p) = Wildcards(q) /\ Len(p) > Len(q)

\* Mutant: only the wildcards count.
FewerWildcards(p, q) == Wildcards(p) < Wildcards(q)

Before(p, q) == MoreSpecific(p, q)

\* The first of the most specific rules: the sort is stable.
FirstRule(rules, fits) ==
    CHOOSE i \in fits :
        \A j \in fits \ {i} :
            \/ Before(rules[i].pattern, rules[j].pattern)
            \/ ~Before(rules[j].pattern, rules[i].pattern) /\ i < j

\* The value of the first rule for the very group, if it has one; else that
\* of the most specific pattern rule that has one.
ValueFor(rules, group) ==
    LET exact == {i \in DOMAIN rules : rules[i].group = group}
        fits == {i \in DOMAIN rules :
                    /\ rules[i].group = Absent /\ rules[i].pattern # Absent
                    /\ wildmat(rules[i].pattern, group)
                    /\ rules[i].value # Absent}
    IN  IF exact # {} /\ rules[Min(exact)].value # Absent THEN rules[Min(exact)].value
        ELSE IF fits # {} THEN rules[FirstRule(rules, fits)].value
        ELSE Absent

max_size_for_group(rules, group) == ValueFor(rules, group)

\* Zero days or fewer: keep for ever.
retention_for_group(rules, group) ==
    LET days == ValueFor(rules, group)
    IN  IF days # Absent /\ days > 0 THEN days ELSE Absent

-----------------------------------------------------------------------------
(* Sizes and durations.  A number is kept below Word, the range of a u64.  *)

CONSTANT Word

ASSUME WordAssumption == Word \in Nat \ {0}

Digits == <<"0", "1", "2", "3", "4", "5", "6", "7", "8", "9">>
Digit(c) == CHOOSE d \in 0 .. 9 : Digits[d + 1] = c

Counting == [n \in Nat |-> [c \in Chars(Digits) |-> 10 * n + Digit(c)]]

\* str::parse::<u64>, which takes a leading plus.
ParseU64(s) ==
    LET d == IF Len(s) > 1 /\ s[1] = "+" THEN Tail(s) ELSE s
        n == Loop(Counting, 0, d)
    IN  IF d = <<>> \/ ~(Chars(d) \subseteq Chars(Digits)) THEN Absent
        ELSE IF n < Word THEN n ELSE Absent

\* Mutant: the product wraps around.
WrappingMul(n, factor) == (n * factor) % Word

CheckedMul(n, factor) == IF n <= (Word - 1) \div factor THEN n * factor ELSE Absent

Kilo == 1024

SizeFactor(c) ==
    CASE c \in {"K", "k"} -> Kilo
      [] c \in {"M", "m"} -> Kilo * Kilo
      [] c \in {"G", "g"} -> Kilo * Kilo * Kilo
      [] c \in Chars(Digits) -> 1
      [] OTHER -> Absent

DurationFactor(c) ==
    CASE c \in {"s", "S"} -> 1
      [] c \in {"m", "M"} -> 60
      [] c \in {"h", "H"} -> 60 * 60
      [] c \in {"d", "D"} -> 60 * 60 * 24
      [] c \in {"w", "W"} -> 60 * 60 * 24 * 7
      [] c \in Chars(Digits) -> 1
      [] OTHER -> Absent

Scaled(s, factor) ==
    LET n == ParseU64(IF s[Len(s)] \in Chars(Digits) THEN s ELSE Trim(Front(s)))
    IN  IF factor = Absent \/ n = Absent THEN Absent ELSE CheckedMul(n, factor)

parse_size(input) ==
    LET s == Trim(input)
    IN  IF s = <<>> THEN Absent ELSE Scaled(s, SizeFactor(s[Len(s)]))

parse_duration_secs(input) ==
    LET s == Trim(input)
    IN  IF s = <<>> \/ s = <<"0">> THEN Absent
        ELSE Scaled(s, DurationFactor(s[Len(s)]))

\* What serde makes of the string.
deserialize_size(input) ==
    IF parse_size(input) = Absent THEN Refused ELSE parse_size(input)

deserialize_bandwidth_limit(input) ==
    IF input = <<>> \/ input = <<"0">> THEN Absent
    ELSE IF parse_size(input) = Absent THEN Refused
    ELSE IF parse_size(input) = 0 THEN Absent ELSE parse_size(input)

deserialize_duration_secs(input) ==
    IF input = <<>> THEN Absent ELSE parse_duration_secs(input)

=============================================================================
