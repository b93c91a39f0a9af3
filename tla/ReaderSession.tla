--------------------------- MODULE ReaderSession ----------------------------
(***************************************************************************)
(* A reading client: GROUP, NEXT, LAST, ARTICLE and its relatives, OVER,   *)
(* HDR and XPAT, with the position the session keeps (current_group and    *)
(* current_article), while other tasks store and delete articles and       *)
(* create and remove groups.                                               *)
(*                                                                         *)
(* A step is one storage statement of a handler together with what the     *)
(* handler does up to the next one.  Sessions share nothing but the        *)
(* tables, so one session is enough.  Of the tables a reader sees the      *)
(* group list and the rows of group_articles; every row has its message    *)
(* (RowsHaveMessages of ArticleStore).                                     *)
(***************************************************************************)
EXTENDS Naturals

CONSTANTS
    Groups,
    NoGroup,
    Unknown,     \* the client cannot tell the position of the session
    MaxNumber    \* bound: article numbers in a group, and numbers clients send

ASSUME ReaderAssumption ==
    NoGroup \notin Groups /\ MaxNumber \in Nat

VARIABLES
    groups,    \* names in table groups
    rows,      \* table group_articles
    session,   \* current_group and current_article (0 for None)
    cmd,       \* the command in progress
    view,      \* history: the position the replies so far tell the client
    shown,     \* history: rows shown by NEXT since the walk began
    start,     \* history: the number at which the walk began
    late,      \* history: rows that came in behind the walk
    steady     \* history: rows asked for and listed all through the command

tables     == <<groups, rows>>
walk       == <<shown, start, late>>
readerVars == <<groups, rows, session, cmd, view, shown, start, late, steady>>

-----------------------------------------------------------------------------
Numbers  == 1 .. MaxNumber
Sent     == 0 .. MaxNumber     \* numbers clients send; 0 is never an article
Open     == MaxNumber + 1      \* the upper end of "a-"
Row      == [group : Groups, number : Numbers]
Position == [group : Groups \cup {NoGroup}, article : Sent]

\* ARTICLE stands for HEAD, BODY and STAT, OVER for HDR with ":", HDR for XPAT.
Verb == {"ARTICLE", "OVER", "HDR"}

Idle == [pc |-> "idle"]
Cmd ==
    [pc : {"idle"}]
      \cup [pc : {"group"}, group : Groups]
      \cup [pc : {"move"}, dir : {"next", "last"}, to : Numbers]
      \cup [pc : {"fetch"}, verb : Verb, todo : SUBSET Sent, got : SUBSET Numbers]

ReaderInit ==
    /\ groups \in SUBSET Groups
    /\ rows = {}
    /\ session = [group |-> NoGroup, article |-> 0]
    /\ cmd = Idle
    /\ view = session
    /\ shown = {} /\ start = 0 /\ late = {} /\ steady = {}

\* list_article_numbers
NumbersOf(g) == {n \in Numbers : [group |-> g, number |-> n] \in rows}

\* get_article_by_number
Found(g, n) == n \in NumbersOf(g)

IsFirst(n, S) == n \in S /\ \A m \in S : n <= m
IsLast(n, S)  == n \in S /\ \A m \in S : m <= n

\* The command ends; p is where the client takes the position to be.
Reply(p) == cmd' = Idle /\ view' = p
Stay     == UNCHANGED <<session, shown, start, late>>

\* A walk is a run of NEXTs and of commands that leave the position alone.
WalkFrom(n) == start' = n /\ shown' = {} /\ late' = {}

Here == session.article
SetCurrent(n) == session' = [session EXCEPT !.article = n]

-----------------------------------------------------------------------------
(* GROUP: does it exist, then its numbers. *)

Group(g) ==
    /\ cmd = Idle
    /\ \/ g \notin groups /\ Reply(view)
       \/ /\ g \in groups
          /\ cmd' = [pc |-> "group", group |-> g]
          /\ UNCHANGED view
    /\ Stay /\ UNCHANGED <<groups, rows, steady>>

\* select_group with the first number, or None in an empty group.
SelectGroup ==
    /\ cmd.pc = "group"
    /\ \E n \in Sent :
          /\ IF NumbersOf(cmd.group) = {} THEN n = 0
             ELSE IsFirst(n, NumbersOf(cmd.group))
          /\ session' = [group |-> cmd.group, article |-> n]
          /\ WalkFrom(n)
          /\ Reply([group |-> cmd.group, article |-> n])
    /\ UNCHANGED <<groups, rows, steady>>

-----------------------------------------------------------------------------
(* NEXT and LAST: list the numbers, then fetch the article. *)

\* Mutant: NEXT takes the number after the next one.
NeighbourTwoOn(dir, n) ==
    LET S == NumbersOf(session.group)
        After == {m \in S : m > Here}
    IN  IF dir = "next" THEN \E k \in After : IsFirst(k, After)
                                /\ IsFirst(n, After \ {k})
        ELSE IsLast(n, {m \in S : m < Here})

\* pos + 1 or pos.saturating_sub(1): before the first article is the first one.
Neighbour(dir, n) ==
    LET S == NumbersOf(session.group)
    IN  \/ dir = "next" /\ IsFirst(n, {m \in S : m > Here})
        \/ dir = "last" /\ IsLast(n, {m \in S : m < Here})
        \/ dir = "last" /\ n = Here /\ IsFirst(Here, S)

\* 412 without a position, 421 or 422 when the current article is not listed
\* any more or has no neighbour.
Navigate(dir) ==
    /\ cmd = Idle
    /\ \/ /\ session.group # NoGroup /\ Here \in NumbersOf(session.group)
          /\ \E n \in Numbers :
                /\ Neighbour(dir, n)
                /\ cmd' = [pc |-> "move", dir |-> dir, to |-> n]
          /\ UNCHANGED view
       \/ /\ \/ session.group = NoGroup
             \/ Here \notin NumbersOf(session.group)
             \/ \A n \in Numbers : ~Neighbour(dir, n)
          /\ Reply(view)
    /\ Stay /\ UNCHANGED <<groups, rows, steady>>

\* 223 with the article.
Move ==
    /\ cmd.pc = "move" /\ Found(session.group, cmd.to)
    /\ SetCurrent(cmd.to)
    /\ Reply([session EXCEPT !.article = cmd.to])
    /\ \/ /\ cmd.dir = "next"
          /\ shown' = shown \cup {[group |-> session.group, number |-> cmd.to]}
          /\ UNCHANGED <<start, late>>
       \/ cmd.dir = "last" /\ WalkFrom(cmd.to)
    /\ UNCHANGED <<groups, rows, steady>>

\* 421 or 422: the article has gone since the numbers were listed.
MoveGone ==
    /\ cmd.pc = "move" /\ ~Found(session.group, cmd.to)
    /\ Reply(view) /\ Stay /\ UNCHANGED <<groups, rows, steady>>

-----------------------------------------------------------------------------
(* ARTICLE, HEAD, BODY, STAT, OVER, HDR and XPAT. *)

\* By Message-ID or without argument, found or not (and 412, 420, 430, 501):
\* one statement, and the position stays.
Look ==
    /\ cmd = Idle
    /\ Reply(view) /\ Stay /\ UNCHANGED <<groups, rows, steady>>

\* Mutant: the upper end of the range is left out.
ParseRangeExclusive(a, b) ==
    IF b = Open THEN {n \in NumbersOf(session.group) : a <= n}
    ELSE {n \in a .. b : n < b \/ a = b}

\* parse_range of "a-b", of "a" when they are equal, and of "a-", which lists
\* what is there.
ParseRange(a, b) ==
    IF b = Open THEN {n \in NumbersOf(session.group) : a <= n} ELSE a .. b

Asked(a, b) == {r \in rows : r.group = session.group /\ r.number \in a .. b}

Fetch(verb, a, b) ==
    /\ cmd = Idle /\ session.group # NoGroup
    /\ \/ /\ ParseRange(a, b) # {}
          /\ cmd' = [pc |-> "fetch", verb |-> verb, todo |-> ParseRange(a, b),
                     got |-> {}]
          /\ steady' = Asked(a, b)
          /\ UNCHANGED view
       \/ /\ ParseRange(a, b) = {}  \* 423
          /\ Reply(view) /\ UNCHANGED steady
    /\ Stay /\ UNCHANGED <<groups, rows>>

\* Mutant: HDR and XPAT move the position like the other commands.
MovesAlways(verb) == TRUE

\* resolve_articles sets the current article, collect_header_values does not.
Moves(verb) == verb # "HDR"

FetchOne ==
    /\ cmd.pc = "fetch"
    /\ \E n \in cmd.todo :
          /\ IsFirst(n, cmd.todo)
          /\ \/ /\ Found(session.group, n)
                /\ cmd' = [cmd EXCEPT !.todo = @ \ {n}, !.got = @ \cup {n}]
                /\ IF Moves(cmd.verb) THEN SetCurrent(n) /\ WalkFrom(n) ELSE Stay
             \/ /\ ~Found(session.group, n)
                /\ cmd' = [cmd EXCEPT !.todo = @ \ {n}]
                /\ Stay
    /\ UNCHANGED <<groups, rows, view, steady>>

\* All is read: the articles are sent, or 423 when there was none.
SendFetched ==
    /\ cmd.pc = "fetch" /\ cmd.todo = {}
    /\ \/ /\ cmd.got = {} \/ cmd.verb = "HDR"
          /\ Reply(view)
       \/ /\ cmd.verb # "HDR"
          /\ \E n \in cmd.got : IsLast(n, cmd.got)
                                /\ Reply([session EXCEPT !.article = n])
    /\ steady' = {}
    /\ Stay /\ UNCHANGED <<groups, rows>>

\* check_bandwidth says no (ARTICLE), or the size of a message cannot be read
\* (OVER), before the last article is sent: the client does not learn of it.
SendStops ==
    /\ cmd.pc = "fetch" /\ cmd.todo = {} /\ cmd.got # {} /\ cmd.verb # "HDR"
    /\ Reply(Unknown) /\ steady' = {}
    /\ Stay /\ UNCHANGED <<groups, rows>>

-----------------------------------------------------------------------------
(* A statement fails. *)

\* GROUP, NEXT and LAST pass the error up: the client gets no reply, and the
\* position has not been touched.
NavigationFails ==
    /\ cmd.pc \in {"group", "move"}
    /\ Reply(view) /\ Stay /\ UNCHANGED <<groups, rows, steady>>

\* 423, although resolve_articles may have moved the position by then.
FetchFails ==
    /\ cmd.pc = "fetch" /\ cmd.todo # {}
    /\ Reply(IF cmd.got # {} /\ cmd.verb # "HDR" THEN Unknown ELSE view)
    /\ steady' = {}
    /\ Stay /\ UNCHANGED <<groups, rows>>

-----------------------------------------------------------------------------
(* The other tasks. *)

\* Where the walk is, or is about to be.
Reach == IF cmd.pc = "move" /\ cmd.dir = "next" THEN cmd.to ELSE Here

\* Mutant: COALESCE(MAX(number),0) without the + 1.
StoreRowAtMax(r) ==
    /\ NumbersOf(r.group) = {}
    /\ rows' = rows \cup {[r EXCEPT !.number = 0]}
    /\ UNCHANGED <<groups, session, cmd, view, shown, start, late, steady>>

\* Any number that is free: the SELECT of MAX(number)+1 may be long past.
StoreRow(r) ==
    /\ ~Found(r.group, r.number)
    /\ rows' = rows \cup {r}
    /\ late' = IF r.group = session.group /\ start < r.number /\ r.number <= Reach
               THEN late \cup {r} ELSE late
    /\ UNCHANGED <<groups, session, cmd, view, shown, start, steady>>

\* purge_group_before, delete_article_by_id and remove_group
DeleteRows(S) ==
    /\ S # {}
    /\ rows' = rows \ S
    /\ shown' = shown \ S /\ late' = late \ S /\ steady' = steady \ S
    /\ UNCHANGED <<groups, session, cmd, view, start>>

\* newgroup and rmgroup
ChangeGroups(g) ==
    /\ groups' = IF g \in groups THEN groups \ {g} ELSE groups \cup {g}
    /\ UNCHANGED <<rows, session, cmd, view, shown, start, late, steady>>

-----------------------------------------------------------------------------
ReaderNext ==
    \/ \E g \in Groups : Group(g)
    \/ SelectGroup
    \/ \E dir \in {"next", "last"} : Navigate(dir)
    \/ Move \/ MoveGone
    \/ Look
    \/ \E verb \in Verb, a \in Sent, b \in Sent \cup {Open} : Fetch(verb, a, b)
    \/ FetchOne \/ SendFetched \/ SendStops
    \/ NavigationFails \/ FetchFails
    \/ \E r \in Row : StoreRow(r)
    \/ \E S \in SUBSET rows : DeleteRows(S)
    \/ \E g \in Groups : ChangeGroups(g)

ReaderSpec == ReaderInit /\ [][ReaderNext]_readerVars

-----------------------------------------------------------------------------
(***************************************************************************)
(* The session, the command and the tables have the shape the code gives   *)
(* them: numbers begin at 1, and the session has no current article        *)
(* without a group.                                                        *)
(***************************************************************************)
ReaderTypeOK ==
    /\ groups \subseteq Groups /\ rows \subseteq Row
    /\ session \in Position /\ (session.group = NoGroup => Here = 0)
    /\ cmd \in Cmd
    /\ view \in Position \cup {Unknown}
    /\ shown \subseteq rows /\ late \subseteq rows /\ steady \subseteq rows
    /\ start \in Sent

(***************************************************************************)
(* Reading a group with NEXT misses nothing: every article now in the      *)
(* group between where the walk began and where it is was shown to the     *)
(* client, unless it came in at a number the walk was already past.  NEXT  *)
(* lists the numbers in one statement and fetches in another, while other  *)
(* tasks delete articles and reuse their numbers.                          *)
(***************************************************************************)
WalkComplete ==
    \A r \in rows :
        (r.group = session.group /\ start < r.number /\ r.number <= Here)
            => r \in shown \cup late

(***************************************************************************)
(* Between commands the session is where the replies say it is, unless the *)
(* last reply that could tell was cut short (403 half way, an error after  *)
(* the position moved).  A client that counts on it would otherwise read   *)
(* the wrong article next.                                                 *)
(***************************************************************************)
ClientAgrees == cmd = Idle /\ view # Unknown => view = session

(***************************************************************************)
(* A range is answered in full although it is read number by number: an    *)
(* article the client asked for that is there from the beginning of the    *)
(* command until all numbers are read is among the ones that are sent.     *)
(***************************************************************************)
RangeComplete ==
    cmd.pc = "fetch" /\ cmd.todo = {} => \A r \in steady : r.number \in cmd.got
=============================================================================
