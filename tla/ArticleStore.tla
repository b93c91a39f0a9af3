---------------------------- MODULE ArticleStore ----------------------------
(***************************************************************************)
(* The article database behind the Storage trait (src/src/storage).  Both  *)
(* backends issue the same SQL statements, one at a time and outside any   *)
(* transaction, so the unit of atomicity is the statement: every action    *)
(* below is one statement (with the call that leads to it), and statements *)
(* of different tasks interleave freely.                                   *)
(*                                                                         *)
(* Any task may call any operation with any argument at any time.  What is *)
(* true here is therefore true whatever the command handlers, queue        *)
(* workers, retention task and admin commands do with their handle.        *)
(***************************************************************************)
EXTENDS Naturals, Sequences

CONSTANTS
    Tasks,        \* tasks that hold a DynStorage handle
    Ids,          \* Message-IDs
    Groups,       \* newsgroup names
    Articles,     \* articles passed to store_article
    NoArticle,    \* stands for "no row" in the messages table
    MessageId,    \* the Message-ID header of an article
    Newsgroups,   \* the Newsgroups header of an article, split and trimmed
    MaxNumber,    \* bound: article numbers handed out per group
    MaxClock      \* bound: seconds of the wall clock

ASSUME StoreAssumption ==
    /\ NoArticle \notin Articles
    /\ MessageId \in [Articles -> Ids]
    /\ Newsgroups \in [Articles -> Seq(Groups)]
    /\ MaxNumber \in Nat
    /\ MaxClock \in Nat

VARIABLES
    messages,       \* table messages: Message-ID -> stored article or NoArticle
    groupArticles,  \* table group_articles: a set of rows
    groups,         \* table groups: "none", "open" or "moderated"
    overview,       \* table overview: a set of lines
    clock,          \* chrono::Utc::now(), in seconds
    op              \* per task: the storage call it is in, or its result

storeVars == <<messages, groupArticles, groups, overview, clock, op>>

-----------------------------------------------------------------------------
Row  == [group : Groups, number : Nat, id : Ids, at : Nat]
Line == [group : Groups, number : Nat, art : Articles]

(* A call in progress carries the local variables that later statements of *)
(* the call still use.                                                     *)
Returned  == [pc : {"ok", "err"}]
Selecting == [pc : {"select_number"}, art : Articles, idx : Nat, at : Nat]
Writing   == [pc : {"insert_row", "write_overview"},
              art : Articles, idx : Nat, at : Nat, num : Nat]
Deleting  == [pc : {"delete_message"}, id : Ids]
Matching  == [pc : {"next_group"}, doomed : SUBSET Groups]
Removing  == [pc : {"remove_name", "remove_orphans"},
              group : Groups, doomed : SUBSET Groups]
Op == Returned \cup Selecting \cup Writing \cup Deleting \cup Matching
        \cup Removing

Result(r) == [pc |-> r]
Idle(t)   == op[t].pc \in {"ok", "err"}
At(t, pc) == op[t].pc = pc
Go(t, o)  == op' = [op EXCEPT ![t] = o]

StoreInit ==
    /\ messages = [i \in Ids |-> NoArticle]
    /\ groupArticles = {}
    /\ groups \in [Groups -> {"none", "open", "moderated"}]
    /\ overview = {}
    /\ clock = 0
    /\ op = [t \in Tasks |-> Result("ok")]

-----------------------------------------------------------------------------
(* store_article: INSERT OR IGNORE the message, then for each newsgroup    *)
(* select the next number, insert the row and write the overview line.     *)

Numbers(g) == {r.number : r \in {x \in groupArticles : x.group = g}}

\* SELECT COALESCE(MAX(number),0)+1 ... WHERE group_name = g
IsNextNumber(g, n) ==
    /\ n \in Nat
    /\ \A m \in Numbers(g) : m < n
    /\ n # 1 => n - 1 \in Numbers(g)

\* The loop over the newsgroups, at its idx-th element.
Loop(a, i, now) ==
    IF i <= Len(Newsgroups[a])
    THEN [pc |-> "select_number", art |-> a, idx |-> i, at |-> now]
    ELSE Result("ok")

\* Mutant: INSERT OR REPLACE instead of INSERT OR IGNORE.
StoreArticleReplaces(t, a) ==
    /\ Idle(t)
    /\ messages' = [messages EXCEPT ![MessageId[a]] = a]
    /\ Go(t, Loop(a, 1, clock))
    /\ UNCHANGED <<groupArticles, groups, overview, clock>>

StoreArticle(t, a) ==
    /\ Idle(t)
    /\ messages' = IF messages[MessageId[a]] = NoArticle
                   THEN [messages EXCEPT ![MessageId[a]] = a]
                   ELSE messages
    /\ Go(t, Loop(a, 1, clock))
    /\ UNCHANGED <<groupArticles, groups, overview, clock>>

SelectNumber(t) ==
    /\ At(t, "select_number")
    /\ \E n \in 1..MaxNumber :
          /\ IsNextNumber(Newsgroups[op[t].art][op[t].idx], n)
          /\ Go(t, [pc |-> "insert_row", art |-> op[t].art, idx |-> op[t].idx,
                    at |-> op[t].at, num |-> n])
    /\ UNCHANGED <<messages, groupArticles, groups, overview, clock>>

\* PRIMARY KEY(group_name, number) and FOREIGN KEY(message_id): the insert
\* fails, and with it store_article, when the number has been taken or the
\* message row has gone since the earlier statements.
KeyTaken(g, n) == \E r \in groupArticles : r.group = g /\ r.number = n

NewRow(o) == [group |-> Newsgroups[o.art][o.idx], number |-> o.num,
              id |-> MessageId[o.art], at |-> o.at]

\* Mutant: no PRIMARY KEY on (group_name, number).
AcceptsTakenNumber(r) == messages[r.id] # NoArticle

Accepts(r) == ~KeyTaken(r.group, r.number) /\ messages[r.id] # NoArticle

InsertRow(t) ==
    /\ At(t, "insert_row")
    /\ \/ /\ Accepts(NewRow(op[t]))
          /\ groupArticles' = groupArticles \cup {NewRow(op[t])}
          /\ Go(t, [op[t] EXCEPT !.pc = "write_overview"])
       \/ /\ ~Accepts(NewRow(op[t]))
          /\ Go(t, Result("err"))
          /\ UNCHANGED groupArticles
    /\ UNCHANGED <<messages, groups, overview, clock>>

NewLine(o) == [group |-> Newsgroups[o.art][o.idx], number |-> o.num,
               art |-> o.art]

\* INSERT OR REPLACE INTO overview
WriteOverview(t) ==
    /\ At(t, "write_overview")
    /\ LET l == NewLine(op[t])
       IN  overview' = {x \in overview : x.group # l.group \/ x.number # l.number}
                           \cup {l}
    /\ Go(t, Loop(op[t].art, op[t].idx + 1, op[t].at))
    /\ UNCHANGED <<messages, groupArticles, groups, clock>>

-----------------------------------------------------------------------------
(* Deletion.  A message row is only deleted by a statement whose WHERE     *)
(* clause excludes the messages still listed in some group.                *)

Listed(i) == \E r \in groupArticles : r.id = i

\* Mutant: the DELETE lacks its NOT IN (SELECT message_id ...) clause.
DropListedToo(S) == [i \in Ids |-> IF i \in S THEN NoArticle ELSE messages[i]]

DropUnlisted(S) ==
    [i \in Ids |-> IF i \in S /\ ~Listed(i) THEN NoArticle ELSE messages[i]]

DeleteArticleById(t, i) ==
    /\ Idle(t)
    /\ groupArticles' = {r \in groupArticles : r.id # i}
    /\ Go(t, [pc |-> "delete_message", id |-> i])
    /\ UNCHANGED <<messages, groups, overview, clock>>

DeleteMessage(t) ==
    /\ At(t, "delete_message")
    /\ messages' = DropUnlisted({op[t].id})
    /\ Go(t, Result("ok"))
    /\ UNCHANGED <<groupArticles, groups, overview, clock>>

\* remove_group: rows, then the group's name, then every unlisted message.
DeleteGroupRows(t, g, rest) ==
    /\ groupArticles' = {r \in groupArticles : r.group # g}
    /\ Go(t, [pc |-> "remove_name", group |-> g, doomed |-> rest])
    /\ UNCHANGED <<messages, groups, overview, clock>>

RemoveGroup(t, g) == Idle(t) /\ DeleteGroupRows(t, g, {})

\* Mutant: the group is flagged as removed instead of being deleted.
RemoveNameSoftly(t) ==
    /\ At(t, "remove_name")
    /\ groups' = [groups EXCEPT ![op[t].group] = "removed"]
    /\ Go(t, [op[t] EXCEPT !.pc = "remove_orphans"])
    /\ UNCHANGED <<messages, groupArticles, overview, clock>>

RemoveName(t) ==
    /\ At(t, "remove_name")
    /\ groups' = [groups EXCEPT ![op[t].group] = "none"]
    /\ Go(t, [op[t] EXCEPT !.pc = "remove_orphans"])
    /\ UNCHANGED <<messages, groupArticles, overview, clock>>

RemoveOrphans(t) ==
    /\ At(t, "remove_orphans")
    /\ messages' = DropUnlisted(Ids)
    /\ Go(t, [pc |-> "next_group", doomed |-> op[t].doomed])
    /\ UNCHANGED <<groupArticles, groups, overview, clock>>

\* remove_groups_by_pattern: select the matching names, then remove_group each.
RemoveGroupsByPattern(t, S) ==
    /\ Idle(t)
    /\ S \subseteq {g \in Groups : groups[g] # "none"}
    /\ Go(t, [pc |-> "next_group", doomed |-> S])
    /\ UNCHANGED <<messages, groupArticles, groups, overview, clock>>

NextGroup(t) ==
    /\ At(t, "next_group")
    /\ \E g \in op[t].doomed : DeleteGroupRows(t, g, op[t].doomed \ {g})

RemovalDone(t) ==
    /\ At(t, "next_group")
    /\ op[t].doomed = {}
    /\ Go(t, Result("ok"))
    /\ UNCHANGED <<messages, groupArticles, groups, overview, clock>>

PurgeGroupBefore(t, g, before) ==
    /\ Idle(t)
    /\ groupArticles' = {r \in groupArticles : r.group # g \/ ~(r.at < before)}
    /\ Go(t, Result("ok"))
    /\ UNCHANGED <<messages, groups, overview, clock>>

PurgeOrphanMessages(t) ==
    /\ Idle(t)
    /\ messages' = DropUnlisted(Ids)
    /\ Go(t, Result("ok"))
    /\ UNCHANGED <<groupArticles, groups, overview, clock>>

-----------------------------------------------------------------------------
(* The group list. *)

Flag(moderated) == IF moderated THEN "moderated" ELSE "open"

\* INSERT OR IGNORE INTO groups
AddGroup(t, g, moderated) ==
    /\ Idle(t)
    /\ groups' = IF groups[g] = "none"
                 THEN [groups EXCEPT ![g] = Flag(moderated)] ELSE groups
    /\ Go(t, Result("ok"))
    /\ UNCHANGED <<messages, groupArticles, overview, clock>>

\* UPDATE groups SET moderated
SetGroupModerated(t, g, moderated) ==
    /\ Idle(t)
    /\ groups' = IF groups[g] # "none"
                 THEN [groups EXCEPT ![g] = Flag(moderated)] ELSE groups
    /\ Go(t, Result("ok"))
    /\ UNCHANGED <<messages, groupArticles, overview, clock>>

\* INSERT ... ON CONFLICT(name) DO UPDATE (the description is not modelled)
AddGroupWithDescription(t, g, moderated) ==
    /\ Idle(t)
    /\ groups' = [groups EXCEPT ![g] = Flag(moderated)]
    /\ Go(t, Result("ok"))
    /\ UNCHANGED <<messages, groupArticles, overview, clock>>

-----------------------------------------------------------------------------
(* A statement may fail (`?`), the first of a call included: the call      *)
(* returns the error, and what its earlier statements did stays.           *)
DbError(t) ==
    /\ Go(t, Result("err"))
    /\ UNCHANGED <<messages, groupArticles, groups, overview, clock>>

\* The process dies and comes back: the tables are durable, the calls are not.
Restart ==
    /\ op' = [t \in Tasks |-> Result("err")]
    /\ UNCHANGED <<messages, groupArticles, groups, overview, clock>>

Tick ==
    /\ clock < MaxClock
    /\ clock' = clock + 1
    /\ UNCHANGED <<messages, groupArticles, groups, overview, op>>

\* The statements after the first one of a call.
Continue(t) ==
    \/ SelectNumber(t)
    \/ InsertRow(t)
    \/ WriteOverview(t)
    \/ DeleteMessage(t)
    \/ RemoveName(t)
    \/ RemoveOrphans(t)
    \/ NextGroup(t)
    \/ RemovalDone(t)

\* The first statement of a call.
Call(t) ==
    \/ \E a \in Articles : StoreArticle(t, a)
    \/ \E i \in Ids : DeleteArticleById(t, i)
    \/ \E g \in Groups : RemoveGroup(t, g)
    \/ \E S \in SUBSET Groups : RemoveGroupsByPattern(t, S)
    \/ \E g \in Groups, b \in 0..MaxClock : PurgeGroupBefore(t, g, b)
    \/ PurgeOrphanMessages(t)
    \/ \E g \in Groups, m \in BOOLEAN : AddGroup(t, g, m)
    \/ \E g \in Groups, m \in BOOLEAN : SetGroupModerated(t, g, m)
    \/ \E g \in Groups, m \in BOOLEAN : AddGroupWithDescription(t, g, m)

StoreNext ==
    \/ \E t \in Tasks : Call(t) \/ Continue(t) \/ DbError(t)
    \/ Restart
    \/ Tick

StoreSpec == StoreInit /\ [][StoreNext]_storeVars

-----------------------------------------------------------------------------
(* Types of the tables and of the calls in progress. *)
StoreTypeOK ==
    /\ messages \in [Ids -> Articles \cup {NoArticle}]
    /\ groupArticles \subseteq Row
    /\ groups \in [Groups -> {"none", "open", "moderated"}]
    /\ overview \subseteq Line
    /\ clock \in Nat
    /\ op \in [Tasks -> Op]

(* An article number of a group designates at most one article, although   *)
(* two store_article calls can select the same MAX(number)+1 before either *)
(* has inserted its row.                                                   *)
NumbersUnique ==
    \A r, s \in groupArticles :
        r.group = s.group /\ r.number = s.number => r = s

(* Every row of group_articles has its message: no interleaving of         *)
(* cancels, group removals, orphan purges and half-finished stores leaves  *)
(* an article that GROUP lists and ARTICLE cannot fetch.                   *)
RowsHaveMessages == \A r \in groupArticles : messages[r.id] # NoArticle

(* A number, once given, keeps its message for as long as it is listed:    *)
(* neither a concurrent store nor INSERT OR IGNORE of another article with *)
(* the same Message-ID changes what a listed number designates.            *)
NumberKeepsArticle ==
    [][\A r \in groupArticles, s \in groupArticles' :
          r.group = s.group /\ r.number = s.number =>
              r = s /\ messages'[s.id] = messages[r.id]]_storeVars
=============================================================================
