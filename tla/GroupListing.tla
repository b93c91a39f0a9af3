---------------------------- MODULE GroupListing ----------------------------
(***************************************************************************)
(* What LIST ACTIVE and NEWNEWS show of the groups.  Both hand wildmat the *)
(* group's name as the pattern and the client's pattern as the text.       *)
(***************************************************************************)
EXTENDS Wildmat

Shown(group, pattern) == wildmat(group, pattern)

Low(N)  == IF N = {} THEN 0 ELSE CHOOSE n \in N : \A m \in N : n <= m
High(N) == IF N = {} THEN 0 ELSE CHOOSE n \in N : \A m \in N : m <= n

\* numbers: the article numbers of each group, in ascending order in the code.
\* patterns: the client's pattern, if it gave one.
ListActive(groups, numbers, patterns) ==
    {[group |-> g, high |-> High(numbers[g]), low |-> Low(numbers[g])] :
        g \in {h \in groups : \A p \in patterns : Shown(h, p)}}

\* recent: the Message-IDs of each group since the date.
NewNews(groups, recent, pattern) ==
    UNION {recent[g] : g \in {h \in groups : Shown(h, pattern)}}

-----------------------------------------------------------------------------
(* src/src/wildmat.rs:4 declares "pub fn wildmat(pattern: &str, text:      *)
(* &str)", and src/src/handlers/group.rs:183 calls the client's argument   *)
(* wildmat_pattern: LIST ACTIVE and NEWNEWS show the groups whose names    *)
(* the client's pattern matches.                                           *)
ListShowsMatches(groups, pattern) ==
    LET one == [g \in groups |-> {1}]
        of == [g \in groups |-> {g}]
    IN  /\ {l.group : l \in ListActive(groups, one, {pattern})}
             = {g \in groups : wildmat(pattern, g)}
        /\ NewNews(groups, of, pattern) = {g \in groups : wildmat(pattern, g)}

=============================================================================
