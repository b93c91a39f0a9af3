--------------------------- MODULE PostgresStore ----------------------------
(***************************************************************************)
(* The PostgreSQL backend (src/src/storage/postgres.rs).  It issues the    *)
(* statements of ArticleStore, but a DELETE is not atomic there.  Every    *)
(* statement is a transaction of its own at READ COMMITTED: it takes a     *)
(* snapshot, picks its rows from it, and applies the deletion to those of  *)
(* them that still exist, whatever other sessions committed in between.    *)
(* The foreign key is checked when it applies, on the current state.       *)
(* INSERT ... ON CONFLICT, UPDATE and one-row reads keep ArticleStore's    *)
(* actions: they wait for a conflicting row and look again.                *)
(***************************************************************************)
EXTENDS ArticleStore

(* A DELETE that has its snapshot carries the rows it picked, and what its *)
(* call goes on with once the deletion is applied.                         *)
Onward == Returned \cup Deleting \cup Matching \cup Removing
DeletingRows     == [pc : {"apply_rows"}, rows : SUBSET Row, then : Onward]
DeletingMessages == [pc : {"apply_messages"}, ids : SUBSET Ids, then : Onward]
PgOp == Op \cup DeletingRows \cup DeletingMessages

Pick(t, o) ==
    /\ Go(t, o)
    /\ UNCHANGED <<messages, groupArticles, groups, overview, clock>>

PickRows(t, S, next) ==
    Pick(t, [pc |-> "apply_rows", rows |-> S, then |-> next])

PickUnlisted(t, S, next) ==
    Pick(t, [pc |-> "apply_messages", then |-> next,
             ids |-> {i \in S : messages[i] # NoArticle /\ ~Listed(i)}])

-----------------------------------------------------------------------------
(* The calls, up to the snapshot of their DELETE. *)

PgStoreArticle(t) ==
    \/ \E a \in Articles : StoreArticle(t, a)
    \/ SelectNumber(t)
    \/ InsertRow(t)
    \/ WriteOverview(t)

PgAddGroup(t, g, m) == AddGroup(t, g, m)

PgSetGroupModerated(t, g, m) == SetGroupModerated(t, g, m)

PgAddGroupWithDescription(t, g, m) == AddGroupWithDescription(t, g, m)

PgDeleteGroupRows(t, g, rest) ==
    PickRows(t, {r \in groupArticles : r.group = g},
             [pc |-> "remove_name", group |-> g, doomed |-> rest])

PgRemoveGroup(t) ==
    \/ Idle(t) /\ \E g \in Groups : PgDeleteGroupRows(t, g, {})
    \/ RemoveName(t)
    \/ /\ At(t, "remove_orphans")
       /\ PickUnlisted(t, Ids, [pc |-> "next_group", doomed |-> op[t].doomed])

PgRemoveGroupsByPattern(t) ==
    \/ \E S \in SUBSET Groups : RemoveGroupsByPattern(t, S)
    \/ /\ At(t, "next_group")
       /\ \E g \in op[t].doomed : PgDeleteGroupRows(t, g, op[t].doomed \ {g})
    \/ RemovalDone(t)

PgDeleteArticleById(t) ==
    \/ /\ Idle(t)
       /\ \E i \in Ids : PickRows(t, {r \in groupArticles : r.id = i},
                                  [pc |-> "delete_message", id |-> i])
    \/ At(t, "delete_message") /\ PickUnlisted(t, {op[t].id}, Result("ok"))

PgPurgeGroupBefore(t, g, before) ==
    /\ Idle(t)
    /\ PickRows(t, {r \in groupArticles : r.group = g /\ r.at < before},
                Result("ok"))

PgPurgeOrphanMessages(t) == Idle(t) /\ PickUnlisted(t, Ids, Result("ok"))

-----------------------------------------------------------------------------
(* Applying a deletion.  A row that is gone is gone for every snapshot: a  *)
(* row of the same content inserted later is another row.                  *)
Without(o, R, S) ==
    IF o.pc = "apply_rows" THEN [o EXCEPT !.rows = @ \ R]
    ELSE IF o.pc = "apply_messages" THEN [o EXCEPT !.ids = @ \ S]
    ELSE o

GoOn(t, R, S) ==
    op' = [u \in Tasks |-> IF u = t THEN op[t].then ELSE Without(op[u], R, S)]

ApplyRows(t) ==
    /\ At(t, "apply_rows")
    /\ groupArticles' = groupArticles \ op[t].rows
    /\ GoOn(t, op[t].rows, {})
    /\ UNCHANGED <<messages, groups, overview, clock>>

\* Mutant: the schema lacks the foreign key.
ApplyMessagesUnchecked(t) ==
    /\ At(t, "apply_messages")
    /\ messages' = [i \in Ids |-> IF i \in op[t].ids THEN NoArticle
                                  ELSE messages[i]]
    /\ GoOn(t, {}, op[t].ids)
    /\ UNCHANGED <<groupArticles, groups, overview, clock>>

\* FOREIGN KEY ... NO ACTION: one row inserted since the snapshot fails all.
ApplyMessages(t) ==
    /\ At(t, "apply_messages")
    /\ \A i \in op[t].ids : ~Listed(i)
    /\ messages' = DropUnlisted(op[t].ids)
    /\ GoOn(t, {}, op[t].ids)
    /\ UNCHANGED <<groupArticles, groups, overview, clock>>

ForeignKeyHolds(t) ==
    /\ At(t, "apply_messages")
    /\ \E i \in op[t].ids : Listed(i)
    /\ DbError(t)

PgCall(t) ==
    \/ PgStoreArticle(t)
    \/ PgRemoveGroup(t)
    \/ PgRemoveGroupsByPattern(t)
    \/ PgDeleteArticleById(t)
    \/ \E g \in Groups, b \in 0..MaxClock : PgPurgeGroupBefore(t, g, b)
    \/ PgPurgeOrphanMessages(t)
    \/ \E g \in Groups, m \in BOOLEAN :
          \/ PgAddGroup(t, g, m)
          \/ PgSetGroupModerated(t, g, m)
          \/ PgAddGroupWithDescription(t, g, m)
    \/ ApplyRows(t)
    \/ ApplyMessages(t)
    \/ ForeignKeyHolds(t)

PgNext ==
    \/ \E t \in Tasks : PgCall(t) \/ DbError(t)
    \/ Restart
    \/ Tick
=============================================================================
