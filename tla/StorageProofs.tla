--------------------------- MODULE StorageProofs ----------------------------
(***************************************************************************)
(* Proofs about the storage, for every number of tasks, articles and       *)
(* groups: first about ArticleStore, then what holds of both backends, and *)
(* that both implement Catalogue.                                          *)
(***************************************************************************)
EXTENDS Storage, TLAPS

(* The loop of store_article never runs past the Newsgroups header: what   *)
(* makes the group of a new row well defined.                              *)
CursorInRange ==
    \A t \in Tasks :
        op[t].pc \in {"select_number", "insert_row", "write_overview"} =>
            op[t].idx \in DOMAIN Newsgroups[op[t].art]

(* The inductive strengthening of the type invariant. *)
StoreTypeInv == StoreTypeOK /\ CursorInRange

-----------------------------------------------------------------------------
(* What a call in progress carries, read off the statement it is at. *)
LEMMA OpShape ==
    ASSUME NEW o \in Op
    PROVE  /\ o.pc = "select_number" => o \in Selecting
           /\ o.pc \in {"insert_row", "write_overview"} => o \in Writing
           /\ o.pc = "delete_message" => o \in Deleting
           /\ o.pc = "next_group" => o \in Matching
           /\ o.pc \in {"remove_name", "remove_orphans"} => o \in Removing
  BY DEF Op, Returned, Selecting, Writing, Deleting, Matching, Removing

(* The group a cursor in range points to is a newsgroup. *)
LEMMA CursorGroup ==
    ASSUME NEW a \in Articles, NEW i \in DOMAIN Newsgroups[a]
    PROVE  Newsgroups[a][i] \in Groups /\ i \in Nat
  BY StoreAssumption

(* The loop head yields a well-formed call whose cursor is in range. *)
LEMMA LoopShape ==
    ASSUME NEW a \in Articles, NEW i \in Nat \ {0}, NEW now \in Nat
    PROVE  /\ Loop(a, i, now) \in Op
           /\ Loop(a, i, now).pc \in {"select_number", "insert_row",
                                      "write_overview"} =>
                Loop(a, i, now).idx \in DOMAIN Newsgroups[Loop(a, i, now).art]
<1>1. CASE i <= Len(Newsgroups[a])
  <2>1. Loop(a, i, now) = [pc |-> "select_number", art |-> a, idx |-> i,
                           at |-> now]
    BY <1>1 DEF Loop
  <2>2. i \in DOMAIN Newsgroups[a]
    BY <1>1, StoreAssumption
  <2>3. QED
    BY <2>1, <2>2 DEF Op, Selecting
<1>2. CASE ~(i <= Len(Newsgroups[a]))
  BY <1>2 DEF Loop, Result, Op, Returned
<1>3. QED
  BY <1>1, <1>2

(* Replacing the call of one task by a well-formed one keeps the typing of *)
(* op and of every other task's cursor.                                    *)
LEMMA GoShape ==
    ASSUME NEW t \in Tasks, NEW o \in Op, StoreTypeInv, Go(t, o),
           o.pc \in {"select_number", "insert_row", "write_overview"} =>
               o.idx \in DOMAIN Newsgroups[o.art]
    PROVE  op' \in [Tasks -> Op] /\ CursorInRange'
  BY DEF StoreTypeInv, StoreTypeOK, Go, CursorInRange

(* DropUnlisted keeps the type of the messages table. *)
LEMMA DropShape ==
    ASSUME NEW S, StoreTypeOK
    PROVE  DropUnlisted(S) \in [Ids -> Articles \cup {NoArticle}]
  BY DEF DropUnlisted, StoreTypeOK

-----------------------------------------------------------------------------
LEMMA TypeInit == StoreInit => StoreTypeInv
  BY DEF StoreInit, StoreTypeInv, StoreTypeOK, CursorInRange, Result, Op,
         Returned

LEMMA ResultShape ==
    ASSUME NEW r \in {"ok", "err"}
    PROVE  /\ Result(r) \in Op
           /\ Result(r).pc \notin {"select_number", "insert_row",
                                   "write_overview"}
  BY DEF Result, Op, Returned

(* Type correctness is preserved: the calls of store_article. *)
LEMMA TypeStore ==
    ASSUME StoreTypeInv, NEW t \in Tasks,
           \/ \E a \in Articles : StoreArticle(t, a)
           \/ SelectNumber(t) \/ InsertRow(t) \/ WriteOverview(t)
    PROVE  StoreTypeInv'
<1> USE DEF StoreTypeInv
<1>0. op[t] \in Op
  BY DEF StoreTypeOK
<1>1. ASSUME NEW a \in Articles, StoreArticle(t, a)
      PROVE  StoreTypeInv'
  <2>1. op' \in [Tasks -> Op] /\ CursorInRange'
    BY <1>1, LoopShape, GoShape, clock \in Nat DEF StoreArticle, StoreTypeOK
  <2>2. messages' \in [Ids -> Articles \cup {NoArticle}]
    BY <1>1, StoreAssumption DEF StoreArticle, StoreTypeOK
  <2>3. QED
    BY <1>1, <2>1, <2>2 DEF StoreArticle, StoreTypeOK
<1>2. ASSUME SelectNumber(t)
      PROVE  StoreTypeInv'
  <2>1. op[t] \in Selecting /\ op[t].idx \in DOMAIN Newsgroups[op[t].art]
    BY <1>0, <1>2, OpShape DEF SelectNumber, At, CursorInRange
  <2>2. PICK n \in 1..MaxNumber :
            Go(t, [pc |-> "insert_row", art |-> op[t].art, idx |-> op[t].idx,
                   at |-> op[t].at, num |-> n])
    BY <1>2 DEF SelectNumber
  <2> DEFINE o == [pc |-> "insert_row", art |-> op[t].art, idx |-> op[t].idx,
                   at |-> op[t].at, num |-> n]
  <2>3. o \in Op /\ o.idx \in DOMAIN Newsgroups[o.art]
    BY <2>1, StoreAssumption DEF Op, Writing, Selecting
  <2> HIDE DEF o
  <2>4. op' \in [Tasks -> Op] /\ CursorInRange'
    BY <2>2, <2>3, GoShape DEF o
  <2>5. QED
    BY <1>2, <2>4 DEF SelectNumber, StoreTypeOK
<1>3. ASSUME InsertRow(t)
      PROVE  StoreTypeInv'
  <2>1. op[t] \in Writing /\ op[t].idx \in DOMAIN Newsgroups[op[t].art]
    BY <1>0, <1>3, OpShape DEF InsertRow, At, CursorInRange
  <2>2. NewRow(op[t]) \in Row
    BY <2>1, CursorGroup, StoreAssumption DEF NewRow, Row, Writing
  <2>3. groupArticles' \subseteq Row
    BY <1>3, <2>2 DEF InsertRow, StoreTypeOK
  <2> DEFINE o == [op[t] EXCEPT !.pc = "write_overview"]
  <2>4. o \in Op /\ o.idx \in DOMAIN Newsgroups[o.art]
    BY <2>1 DEF Op, Writing
  <2> HIDE DEF o
  <2>5. Go(t, o) \/ Go(t, Result("err"))
    BY <1>3 DEF InsertRow, o
  <2>6. op' \in [Tasks -> Op] /\ CursorInRange'
    BY <2>4, <2>5, ResultShape, GoShape
  <2>7. QED
    BY <1>3, <2>3, <2>6 DEF InsertRow, StoreTypeOK
<1>4. ASSUME WriteOverview(t)
      PROVE  StoreTypeInv'
  <2>1. op[t] \in Writing /\ op[t].idx \in DOMAIN Newsgroups[op[t].art]
    BY <1>0, <1>4, OpShape DEF WriteOverview, At, CursorInRange
  <2>2. NewLine(op[t]) \in Line
    BY <2>1, CursorGroup DEF NewLine, Line, Writing
  <2>3. overview' \subseteq Line
    BY <1>4, <2>2 DEF WriteOverview, StoreTypeOK
  <2>4. /\ op[t].art \in Articles
        /\ op[t].idx + 1 \in Nat \ {0}
        /\ op[t].at \in Nat
    BY <2>1 DEF Writing
  <2>5. Go(t, Loop(op[t].art, op[t].idx + 1, op[t].at))
    BY <1>4 DEF WriteOverview
  <2>6. op' \in [Tasks -> Op] /\ CursorInRange'
    BY <2>4, <2>5, LoopShape, GoShape
  <2>7. QED
    BY <1>4, <2>3, <2>6 DEF WriteOverview, StoreTypeOK
<1>5. QED
  BY <1>1, <1>2, <1>3, <1>4

(* Type correctness is preserved: deletions. *)
LEMMA TypeDelete ==
    ASSUME StoreTypeInv, NEW t \in Tasks,
           \/ \E i \in Ids : DeleteArticleById(t, i)
           \/ \E g \in Groups : RemoveGroup(t, g)
           \/ \E S \in SUBSET Groups : RemoveGroupsByPattern(t, S)
           \/ \E g \in Groups, b \in 0..MaxClock : PurgeGroupBefore(t, g, b)
           \/ PurgeOrphanMessages(t)
           \/ DeleteMessage(t) \/ RemoveName(t) \/ RemoveOrphans(t)
           \/ NextGroup(t) \/ RemovalDone(t)
    PROVE  StoreTypeInv'
<1> USE DEF StoreTypeInv
<1>0. op[t] \in Op
  BY DEF StoreTypeOK
<1>1. ASSUME NEW i \in Ids, DeleteArticleById(t, i)
      PROVE  StoreTypeInv'
  <2>1. [pc |-> "delete_message", id |-> i] \in Op
    BY DEF Op, Deleting
  <2>2. op' \in [Tasks -> Op] /\ CursorInRange'
    BY <1>1, <2>1, GoShape DEF DeleteArticleById
  <2>3. QED
    BY <1>1, <2>2 DEF DeleteArticleById, StoreTypeOK
<1>2. ASSUME NEW g \in Groups, NEW rest \in SUBSET Groups,
             DeleteGroupRows(t, g, rest)
      PROVE  StoreTypeInv'
  <2>1. [pc |-> "remove_name", group |-> g, doomed |-> rest] \in Op
    BY DEF Op, Removing
  <2>2. op' \in [Tasks -> Op] /\ CursorInRange'
    BY <1>2, <2>1, GoShape DEF DeleteGroupRows
  <2>3. QED
    BY <1>2, <2>2 DEF DeleteGroupRows, StoreTypeOK
<1>3. ASSUME NEW S \in SUBSET Groups, RemoveGroupsByPattern(t, S)
      PROVE  StoreTypeInv'
  <2>1. [pc |-> "next_group", doomed |-> S] \in Op
    BY DEF Op, Matching
  <2>2. op' \in [Tasks -> Op] /\ CursorInRange'
    BY <1>3, <2>1, GoShape DEF RemoveGroupsByPattern
  <2>3. QED
    BY <1>3, <2>2 DEF RemoveGroupsByPattern, StoreTypeOK
<1>4. ASSUME NEW g \in Groups, NEW b \in 0..MaxClock, PurgeGroupBefore(t, g, b)
      PROVE  StoreTypeInv'
  <2>1. op' \in [Tasks -> Op] /\ CursorInRange'
    BY <1>4, ResultShape, GoShape DEF PurgeGroupBefore
  <2>2. QED
    BY <1>4, <2>1 DEF PurgeGroupBefore, StoreTypeOK
<1>5. ASSUME PurgeOrphanMessages(t)
      PROVE  StoreTypeInv'
  <2>1. op' \in [Tasks -> Op] /\ CursorInRange'
    BY <1>5, ResultShape, GoShape DEF PurgeOrphanMessages
  <2>2. QED
    BY <1>5, <2>1, DropShape DEF PurgeOrphanMessages, StoreTypeOK
<1>6. ASSUME DeleteMessage(t)
      PROVE  StoreTypeInv'
  <2>1. op' \in [Tasks -> Op] /\ CursorInRange'
    BY <1>6, ResultShape, GoShape DEF DeleteMessage
  <2>2. QED
    BY <1>6, <2>1, DropShape DEF DeleteMessage, StoreTypeOK
<1>7. ASSUME RemoveName(t)
      PROVE  StoreTypeInv'
  <2>1. op[t] \in Removing
    BY <1>0, <1>7, OpShape DEF RemoveName, At
  <2> DEFINE o == [op[t] EXCEPT !.pc = "remove_orphans"]
  <2>2. o \in Op /\ o.pc = "remove_orphans"
    BY <2>1 DEF Op, Removing
  <2> HIDE DEF o
  <2>3. op' \in [Tasks -> Op] /\ CursorInRange'
    BY <1>7, <2>2, GoShape DEF RemoveName, o
  <2>4. QED
    BY <1>7, <2>1, <2>3 DEF RemoveName, StoreTypeOK
<1>8. ASSUME RemoveOrphans(t)
      PROVE  StoreTypeInv'
  <2>1. op[t] \in Removing
    BY <1>0, <1>8, OpShape DEF RemoveOrphans, At
  <2>2. [pc |-> "next_group", doomed |-> op[t].doomed] \in Op
    BY <2>1 DEF Op, Matching, Removing
  <2>3. op' \in [Tasks -> Op] /\ CursorInRange'
    BY <1>8, <2>2, GoShape DEF RemoveOrphans
  <2>4. QED
    BY <1>8, <2>3, DropShape DEF RemoveOrphans, StoreTypeOK
<1>9. ASSUME RemovalDone(t)
      PROVE  StoreTypeInv'
  <2>1. op' \in [Tasks -> Op] /\ CursorInRange'
    BY <1>9, ResultShape, GoShape DEF RemovalDone
  <2>2. QED
    BY <1>9, <2>1 DEF RemovalDone, StoreTypeOK
<1>10. ASSUME NextGroup(t)
       PROVE  StoreTypeInv'
  <2>1. op[t] \in Matching
    BY <1>0, <1>10, OpShape DEF NextGroup, At
  <2>2. PICK g \in op[t].doomed : DeleteGroupRows(t, g, op[t].doomed \ {g})
    BY <1>10 DEF NextGroup
  <2>3. g \in Groups /\ op[t].doomed \ {g} \in SUBSET Groups
    BY <2>1 DEF Matching
  <2>4. QED
    BY <1>2, <2>2, <2>3
<1>11. ASSUME NEW g \in Groups, RemoveGroup(t, g)
       PROVE  StoreTypeInv'
  BY <1>2, <1>11 DEF RemoveGroup
<1>12. QED
  BY <1>1, <1>3, <1>4, <1>5, <1>6, <1>7, <1>8, <1>9, <1>10, <1>11

(* Type correctness is preserved: the group list, errors, time. *)
LEMMA TypeRest ==
    ASSUME StoreTypeInv,
           \/ \E t \in Tasks, g \in Groups, m \in BOOLEAN :
                 \/ AddGroup(t, g, m)
                 \/ SetGroupModerated(t, g, m)
                 \/ AddGroupWithDescription(t, g, m)
           \/ \E t \in Tasks : DbError(t)
           \/ Restart
           \/ Tick
           \/ UNCHANGED storeVars
    PROVE  StoreTypeInv'
<1> USE DEF StoreTypeInv
<1>1. ASSUME NEW t \in Tasks, NEW g \in Groups, NEW m \in BOOLEAN,
             \/ AddGroup(t, g, m)
             \/ SetGroupModerated(t, g, m)
             \/ AddGroupWithDescription(t, g, m)
      PROVE  StoreTypeInv'
  <2>1. Go(t, Result("ok"))
    BY <1>1 DEF AddGroup, SetGroupModerated, AddGroupWithDescription
  <2>2. op' \in [Tasks -> Op] /\ CursorInRange'
    BY <2>1, ResultShape, GoShape
  <2>3. Flag(m) \in {"none", "open", "moderated"}
    BY DEF Flag
  <2>4. groups' \in [Groups -> {"none", "open", "moderated"}]
    BY <1>1, <2>3 DEF AddGroup, SetGroupModerated, AddGroupWithDescription,
                      StoreTypeOK
  <2>5. UNCHANGED <<messages, groupArticles, overview, clock>>
    BY <1>1 DEF AddGroup, SetGroupModerated, AddGroupWithDescription
  <2>6. QED
    BY <2>2, <2>4, <2>5 DEF StoreTypeOK
<1>2. ASSUME NEW t \in Tasks, DbError(t)
      PROVE  StoreTypeInv'
  <2>1. op' \in [Tasks -> Op] /\ CursorInRange'
    BY <1>2, ResultShape, GoShape DEF DbError
  <2>2. QED
    BY <1>2, <2>1 DEF DbError, StoreTypeOK
<1>3. ASSUME Restart
      PROVE  StoreTypeInv'
  <2>1. op' \in [Tasks -> Op] /\ CursorInRange'
    BY <1>3, ResultShape DEF Restart, CursorInRange
  <2>2. QED
    BY <1>3, <2>1 DEF Restart, StoreTypeOK
<1>4. ASSUME Tick
      PROVE  StoreTypeInv'
  BY <1>4 DEF Tick, StoreTypeOK, CursorInRange
<1>5. ASSUME UNCHANGED storeVars
      PROVE  StoreTypeInv'
  BY <1>5 DEF storeVars, StoreTypeOK, CursorInRange
<1>6. QED
  BY <1>1, <1>2, <1>3, <1>4, <1>5

LEMMA TypeNext == StoreTypeInv /\ [StoreNext]_storeVars => StoreTypeInv'
<1> SUFFICES ASSUME StoreTypeInv, [StoreNext]_storeVars
             PROVE  StoreTypeInv'
  OBVIOUS
<1>1. ASSUME NEW t \in Tasks, Call(t)
      PROVE  StoreTypeInv'
  BY <1>1, TypeStore, TypeDelete, TypeRest DEF Call
<1>2. ASSUME NEW t \in Tasks, Continue(t)
      PROVE  StoreTypeInv'
  BY <1>2, TypeStore, TypeDelete DEF Continue
<1>3. QED
  BY <1>1, <1>2, TypeRest DEF StoreNext

(* The tables and the calls in progress always have their types: in        *)
(* particular store_article never indexes past the Newsgroups header.      *)
THEOREM StoreTypeCorrect == StoreSpec => []StoreTypeOK
<1>1. StoreSpec => []StoreTypeInv
  BY TypeInit, TypeNext, PTL DEF StoreSpec
<1>2. QED
  BY <1>1, PTL DEF StoreTypeInv

-----------------------------------------------------------------------------
(* What one statement can do to the two article tables: drop rows, insert  *)
(* one row that passed both constraints, fill an empty message, or drop    *)
(* messages that no row lists.  The three theorems below rest on it.       *)
RowsDropped == messages' = messages /\ groupArticles' \subseteq groupArticles

RowInserted ==
    \E t \in Tasks : /\ At(t, "insert_row")
                     /\ Accepts(NewRow(op[t]))
                     /\ groupArticles' = groupArticles \cup {NewRow(op[t])}
                     /\ messages' = messages

MessageInserted ==
    /\ groupArticles' = groupArticles
    /\ \E a \in Articles :
          messages' = IF messages[MessageId[a]] = NoArticle
                      THEN [messages EXCEPT ![MessageId[a]] = a]
                      ELSE messages

MessagesDropped ==
    groupArticles' = groupArticles /\ \E S : messages' = DropUnlisted(S)

LEMMA StatementEffect ==
    ASSUME [StoreNext]_storeVars
    PROVE  RowsDropped \/ RowInserted \/ MessageInserted \/ MessagesDropped
<1> DEFINE Goal == RowsDropped \/ RowInserted \/ MessageInserted
                     \/ MessagesDropped
<1>1. ASSUME NEW t \in Tasks, Call(t)
      PROVE  Goal
  <2>1. ASSUME NEW a \in Articles, StoreArticle(t, a)
        PROVE  Goal
    BY <2>1 DEF StoreArticle, MessageInserted
  <2>2. ASSUME NEW i \in Ids, DeleteArticleById(t, i)
        PROVE  Goal
    BY <2>2 DEF DeleteArticleById, RowsDropped
  <2>3. ASSUME NEW g \in Groups, RemoveGroup(t, g)
        PROVE  Goal
    BY <2>3 DEF RemoveGroup, DeleteGroupRows, RowsDropped
  <2>4. ASSUME NEW S \in SUBSET Groups, RemoveGroupsByPattern(t, S)
        PROVE  Goal
    BY <2>4 DEF RemoveGroupsByPattern, RowsDropped
  <2>5. ASSUME NEW g \in Groups, NEW b \in 0..MaxClock,
               PurgeGroupBefore(t, g, b)
        PROVE  Goal
    BY <2>5 DEF PurgeGroupBefore, RowsDropped
  <2>6. ASSUME PurgeOrphanMessages(t)
        PROVE  Goal
    BY <2>6 DEF PurgeOrphanMessages, MessagesDropped
  <2>7. ASSUME NEW g \in Groups, NEW m \in BOOLEAN,
               \/ AddGroup(t, g, m)
               \/ SetGroupModerated(t, g, m)
               \/ AddGroupWithDescription(t, g, m)
        PROVE  Goal
    BY <2>7 DEF AddGroup, SetGroupModerated, AddGroupWithDescription,
                RowsDropped
  <2>8. QED
    BY <1>1, <2>1, <2>2, <2>3, <2>4, <2>5, <2>6, <2>7 DEF Call
<1>2. ASSUME NEW t \in Tasks, Continue(t)
      PROVE  Goal
  <2>1. CASE InsertRow(t)
    BY <2>1 DEF InsertRow, RowInserted, RowsDropped
  <2>2. CASE NextGroup(t)
    BY <2>2 DEF NextGroup, DeleteGroupRows, RowsDropped
  <2>3. CASE DeleteMessage(t) \/ RemoveOrphans(t)
    BY <2>3 DEF DeleteMessage, RemoveOrphans, MessagesDropped
  <2>4. CASE SelectNumber(t) \/ WriteOverview(t) \/ RemoveName(t)
               \/ RemovalDone(t)
    BY <2>4 DEF SelectNumber, WriteOverview, RemoveName, RemovalDone,
                RowsDropped
  <2>5. QED
    BY <1>2, <2>1, <2>2, <2>3, <2>4 DEF Continue
<1>3. ASSUME (\E t \in Tasks : DbError(t)) \/ Restart \/ Tick
               \/ UNCHANGED storeVars
      PROVE  Goal
  BY <1>3 DEF DbError, Restart, Tick, storeVars, RowsDropped
<1>4. QED
  BY <1>1, <1>2, <1>3 DEF StoreNext

(* Article numbers are unique within a group for any number of concurrent  *)
(* store_article calls: the primary key turns the MAX+1 race into an error *)
(* of one of the callers, never into two articles under one number.        *)
THEOREM ArticleNumbersUnique == StoreSpec => []NumbersUnique
<1>1. StoreInit => NumbersUnique
  BY DEF StoreInit, NumbersUnique
<1>2. NumbersUnique /\ [StoreNext]_storeVars => NumbersUnique'
  <2> SUFFICES ASSUME NumbersUnique, [StoreNext]_storeVars
               PROVE  NumbersUnique'
    OBVIOUS
  <2>1. CASE RowInserted
    BY <2>1 DEF RowInserted, Accepts, KeyTaken, NumbersUnique
  <2>2. CASE ~RowInserted
    BY <2>2, StatementEffect DEF RowsDropped, MessageInserted,
                                 MessagesDropped, NumbersUnique
  <2>3. QED
    BY <2>1, <2>2
<1>3. QED
  BY <1>1, <1>2, PTL DEF StoreSpec

(* DropUnlisted never touches the message of a listed row. *)
LEMMA DropKeepsListed ==
    ASSUME StoreTypeOK, NEW S, NEW r \in groupArticles
    PROVE  DropUnlisted(S)[r.id] = messages[r.id]
<1>1. r.id \in Ids
  BY DEF StoreTypeOK, Row
<1>2. Listed(r.id)
  BY DEF Listed
<1>3. QED
  BY <1>1, <1>2 DEF DropUnlisted

(* INSERT OR IGNORE never touches the message of a listed row. *)
LEMMA FillKeepsListed ==
    ASSUME StoreTypeOK, RowsHaveMessages, MessageInserted,
           NEW r \in groupArticles
    PROVE  messages'[r.id] = messages[r.id]
<1>1. r.id \in Ids /\ messages[r.id] # NoArticle
  BY DEF StoreTypeOK, Row, RowsHaveMessages
<1>2. PICK a \in Articles :
          messages' = IF messages[MessageId[a]] = NoArticle
                      THEN [messages EXCEPT ![MessageId[a]] = a]
                      ELSE messages
  BY DEF MessageInserted
<1>3. QED
  BY <1>1, <1>2 DEF StoreTypeOK

LEMMA RowsInit == StoreInit => RowsHaveMessages
  BY DEF StoreInit, RowsHaveMessages

LEMMA RowsNext ==
    ASSUME StoreTypeOK, RowsHaveMessages, [StoreNext]_storeVars
    PROVE  RowsHaveMessages'
<1>1. CASE RowsDropped
  BY <1>1 DEF RowsDropped, RowsHaveMessages
<1>2. CASE RowInserted
  BY <1>2 DEF RowInserted, Accepts, RowsHaveMessages
<1>3. CASE MessageInserted
  BY <1>3, FillKeepsListed DEF MessageInserted, RowsHaveMessages
<1>4. CASE MessagesDropped
  BY <1>4, DropKeepsListed DEF MessagesDropped, RowsHaveMessages
<1>5. QED
  BY <1>1, <1>2, <1>3, <1>4, StatementEffect

(* No interleaving leaves a listed article without its message: the        *)
(* foreign key guards the insertion, the WHERE clauses guard the           *)
(* deletions, and the two together are enough.                             *)
THEOREM ListedArticlesExist == StoreSpec => []RowsHaveMessages
<1>1. StoreInit => StoreTypeInv /\ RowsHaveMessages
  BY TypeInit, RowsInit
<1>2. StoreTypeInv /\ RowsHaveMessages /\ [StoreNext]_storeVars
        => (StoreTypeInv /\ RowsHaveMessages)'
  BY TypeNext, RowsNext DEF StoreTypeInv
<1>3. QED
  BY <1>1, <1>2, PTL DEF StoreSpec

(* What a listed number designates never changes while it stays listed.    *)
THEOREM ListedNumbersKeepArticle == StoreSpec => NumberKeepsArticle
<1> DEFINE Kept == \A r \in groupArticles, s \in groupArticles' :
                      r.group = s.group /\ r.number = s.number =>
                          r = s /\ messages'[s.id] = messages[r.id]
<1>1. ASSUME StoreTypeOK, NumbersUnique, RowsHaveMessages,
             [StoreNext]_storeVars
      PROVE  Kept
  <2>1. CASE RowsDropped
    BY <1>1, <2>1 DEF RowsDropped, NumbersUnique
  <2>2. CASE RowInserted
    BY <1>1, <2>2 DEF RowInserted, Accepts, KeyTaken, NumbersUnique
  <2>3. CASE MessageInserted
    <3>1. groupArticles' = groupArticles
      BY <2>3 DEF MessageInserted
    <3>2. \A r \in groupArticles : messages'[r.id] = messages[r.id]
      BY <1>1, <2>3, FillKeepsListed
    <3>3. QED
      BY <1>1, <3>1, <3>2 DEF NumbersUnique
  <2>4. CASE MessagesDropped
    BY <1>1, <2>4, DropKeepsListed DEF MessagesDropped, NumbersUnique
  <2>5. QED
    BY <1>1, <2>1, <2>2, <2>3, <2>4, StatementEffect
<1>2. StoreTypeOK /\ NumbersUnique /\ RowsHaveMessages
        /\ [StoreNext]_storeVars => [Kept]_storeVars
  BY <1>1
<1>3. QED
  BY <1>2, StoreTypeCorrect, ArticleNumbersUnique, ListedArticlesExist, PTL
     DEF StoreSpec, NumberKeepsArticle

-----------------------------------------------------------------------------
(* The calls as PostgreSQL runs them, with its DELETEs in two steps. *)

(* The calls of PostgreSQL in progress, and the cursor of store_article.   *)
StorageInv ==
    /\ StorageTypeOK
    /\ CursorInRange

TablesOK ==
    /\ messages \in [Ids -> Articles \cup {NoArticle}]
    /\ groupArticles \subseteq Row

LEMMA PgOpShape ==
    ASSUME NEW o \in PgOp
    PROVE  /\ o.pc = "select_number" => o \in Selecting
           /\ o.pc \in {"insert_row", "write_overview"} => o \in Writing
           /\ o.pc = "delete_message" => o \in Deleting
           /\ o.pc = "next_group" => o \in Matching
           /\ o.pc \in {"remove_name", "remove_orphans"} => o \in Removing
           /\ o.pc = "apply_rows" => o \in DeletingRows
           /\ o.pc = "apply_messages" => o \in DeletingMessages
  BY DEF PgOp, Op, Returned, Selecting, Writing, Deleting, Matching, Removing,
         DeletingRows, DeletingMessages

LEMMA RestShape ==
    ASSUME NEW o \in Onward
    PROVE  o \in PgOp /\ o.pc \notin {"select_number", "insert_row",
                                      "write_overview"}
  BY DEF Onward, PgOp, Op, Returned, Deleting, Matching, Removing

-----------------------------------------------------------------------------
(* One statement of either backend has one of the four effects on the      *)
(* tables: the deletion of messages that PostgreSQL applies is             *)
(* a DropUnlisted, because the foreign key refuses it otherwise.           *)
Effect == RowsDropped \/ RowInserted \/ MessageInserted \/ MessagesDropped

LEMMA PgStatementEffect ==
    ASSUME PgNext
    PROVE  Effect
<1>1. ASSUME NEW t \in Tasks, PgStoreArticle(t)
      PROVE  Effect
  BY <1>1 DEF PgStoreArticle, StoreArticle, SelectNumber, InsertRow,
              WriteOverview, RowsDropped, RowInserted, MessageInserted, Effect
<1>2. ASSUME NEW t \in Tasks, NEW o, Pick(t, o)
      PROVE  Effect
  BY <1>2 DEF Pick, RowsDropped, Effect
<1>3. ASSUME NEW t \in Tasks,
             PgRemoveGroup(t) \/ PgRemoveGroupsByPattern(t)
      PROVE  Effect
  BY <1>2, <1>3 DEF PgRemoveGroup, PgRemoveGroupsByPattern, RemoveName,
              RemoveGroupsByPattern, RemovalDone, PgDeleteGroupRows, PickRows,
              PickUnlisted, RowsDropped, Effect
<1>4. ASSUME NEW t \in Tasks,
             \/ PgDeleteArticleById(t)
             \/ \E g \in Groups, b \in 0..MaxClock : PgPurgeGroupBefore(t, g, b)
             \/ PgPurgeOrphanMessages(t)
      PROVE  Effect
  BY <1>2, <1>4 DEF PgDeleteArticleById, PgPurgeGroupBefore,
              PgPurgeOrphanMessages, PickRows, PickUnlisted
<1>5. ASSUME NEW t \in Tasks, NEW g \in Groups, NEW m \in BOOLEAN,
             \/ PgAddGroup(t, g, m)
             \/ PgSetGroupModerated(t, g, m)
             \/ PgAddGroupWithDescription(t, g, m)
      PROVE  Effect
  BY <1>5 DEF PgAddGroup, PgSetGroupModerated, PgAddGroupWithDescription,
              AddGroup, SetGroupModerated, AddGroupWithDescription,
              RowsDropped, Effect
<1>6. ASSUME NEW t \in Tasks, ApplyRows(t) \/ ApplyMessages(t)
      PROVE  Effect
  BY <1>6 DEF ApplyRows, ApplyMessages, RowsDropped, MessagesDropped, Effect
<1>7. ASSUME (\E t \in Tasks : DbError(t) \/ ForeignKeyHolds(t)) \/ Restart \/ Tick
      PROVE  Effect
  BY <1>7 DEF DbError, ForeignKeyHolds, Restart, Tick, RowsDropped, Effect
<1>8. QED
  BY <1>1, <1>3, <1>4, <1>5, <1>6, <1>7 DEF PgNext, PgCall

LEMMA StorageEffect ==
    ASSUME [StorageNext]_storageVars
    PROVE  Effect
<1>1. CASE StorageNext
  BY <1>1, PgStatementEffect, StatementEffect DEF StorageNext, Effect
<1>2. CASE UNCHANGED storageVars
  BY <1>2 DEF storageVars, RowsDropped, Effect
<1>3. QED
  BY <1>1, <1>2

-----------------------------------------------------------------------------
(* Type correctness of PostgreSQL's calls in progress. *)

LEMMA PgGoShape ==
    ASSUME NEW t \in Tasks, NEW o \in PgOp, op \in [Tasks -> PgOp],
           CursorInRange, Go(t, o),
           o.pc \in {"select_number", "insert_row", "write_overview"} =>
               o.idx \in DOMAIN Newsgroups[o.art]
    PROVE  op' \in [Tasks -> PgOp] /\ CursorInRange'
  BY DEF Go, CursorInRange

(* Op is closed under the statements that PostgreSQL shares with           *)
(* ArticleStore, whatever the other tasks are doing.                       *)
PgTyped ==
    /\ TablesOK
    /\ groups \in [Groups -> {"none", "open", "moderated"}]
    /\ overview \subseteq Line
    /\ clock \in Nat
    /\ op \in [Tasks -> PgOp]
    /\ CursorInRange

LEMMA PgTypeStore ==
    ASSUME PgTyped, NEW t \in Tasks, PgStoreArticle(t)
    PROVE  PgTyped'
<1>0. op[t] \in PgOp /\ Op \subseteq PgOp
  BY DEF PgTyped, PgOp
<1>1. ASSUME NEW a \in Articles, StoreArticle(t, a)
      PROVE  PgTyped'
  <2>1. op' \in [Tasks -> PgOp] /\ CursorInRange'
    BY <1>0, <1>1, LoopShape, PgGoShape, clock \in Nat DEF StoreArticle, PgTyped
  <2>2. messages' \in [Ids -> Articles \cup {NoArticle}]
    BY <1>1, StoreAssumption DEF StoreArticle, PgTyped, TablesOK
  <2>3. QED
    BY <1>1, <2>1, <2>2 DEF StoreArticle, PgTyped, TablesOK
<1>2. ASSUME SelectNumber(t)
      PROVE  PgTyped'
  <2>1. op[t] \in Selecting /\ op[t].idx \in DOMAIN Newsgroups[op[t].art]
    BY <1>0, <1>2, PgOpShape DEF SelectNumber, At, CursorInRange, PgTyped
  <2>2. PICK n \in 1..MaxNumber :
            Go(t, [pc |-> "insert_row", art |-> op[t].art, idx |-> op[t].idx,
                   at |-> op[t].at, num |-> n])
    BY <1>2 DEF SelectNumber
  <2> DEFINE o == [pc |-> "insert_row", art |-> op[t].art, idx |-> op[t].idx,
                   at |-> op[t].at, num |-> n]
  <2>3. o \in Op /\ o.idx \in DOMAIN Newsgroups[o.art]
    BY <2>1, StoreAssumption DEF Op, Writing, Selecting
  <2> HIDE DEF o
  <2>4. op' \in [Tasks -> PgOp] /\ CursorInRange'
    BY <1>0, <2>2, <2>3, PgGoShape DEF o, PgTyped
  <2>5. QED
    BY <1>2, <2>4 DEF SelectNumber, PgTyped, TablesOK
<1>3. ASSUME InsertRow(t)
      PROVE  PgTyped'
  <2>1. op[t] \in Writing /\ op[t].idx \in DOMAIN Newsgroups[op[t].art]
    BY <1>0, <1>3, PgOpShape DEF InsertRow, At, CursorInRange, PgTyped
  <2>2. NewRow(op[t]) \in Row
    BY <2>1, CursorGroup, StoreAssumption DEF NewRow, Row, Writing
  <2>3. groupArticles' \subseteq Row
    BY <1>3, <2>2 DEF InsertRow, PgTyped, TablesOK
  <2> DEFINE o == [op[t] EXCEPT !.pc = "write_overview"]
  <2>4. o \in Op /\ o.idx \in DOMAIN Newsgroups[o.art]
    BY <2>1 DEF Op, Writing
  <2> HIDE DEF o
  <2>5. Go(t, o) \/ Go(t, Result("err"))
    BY <1>3 DEF InsertRow, o
  <2>6. op' \in [Tasks -> PgOp] /\ CursorInRange'
    BY <1>0, <2>4, <2>5, ResultShape, PgGoShape DEF PgTyped
  <2>7. QED
    BY <1>3, <2>3, <2>6 DEF InsertRow, PgTyped, TablesOK
<1>4. ASSUME WriteOverview(t)
      PROVE  PgTyped'
  <2>1. op[t] \in Writing /\ op[t].idx \in DOMAIN Newsgroups[op[t].art]
    BY <1>0, <1>4, PgOpShape DEF WriteOverview, At, CursorInRange, PgTyped
  <2>2. NewLine(op[t]) \in Line
    BY <2>1, CursorGroup DEF NewLine, Line, Writing
  <2>3. overview' \subseteq Line
    BY <1>4, <2>2 DEF WriteOverview, PgTyped
  <2>4. /\ op[t].art \in Articles
        /\ op[t].idx + 1 \in Nat \ {0}
        /\ op[t].at \in Nat
    BY <2>1 DEF Writing
  <2>5. Go(t, Loop(op[t].art, op[t].idx + 1, op[t].at))
    BY <1>4 DEF WriteOverview
  <2>6. op' \in [Tasks -> PgOp] /\ CursorInRange'
    BY <1>0, <2>4, <2>5, LoopShape, PgGoShape DEF PgTyped
  <2>7. QED
    BY <1>4, <2>3, <2>6 DEF WriteOverview, PgTyped, TablesOK
<1>5. QED
  BY <1>1, <1>2, <1>3, <1>4 DEF PgStoreArticle

(* A DELETE that takes its snapshot. *)
LEMMA PgTypePick ==
    ASSUME PgTyped, NEW t \in Tasks, NEW next \in Onward,
           \/ \E S \in SUBSET groupArticles : PickRows(t, S, next)
           \/ \E S \in SUBSET Ids : PickUnlisted(t, S, next)
    PROVE  PgTyped'
<1>1. ASSUME NEW S \in SUBSET groupArticles, PickRows(t, S, next)
      PROVE  PgTyped'
  <2> DEFINE o == [pc |-> "apply_rows", rows |-> S, then |-> next]
  <2>1. o \in PgOp /\ o.pc = "apply_rows"
    BY DEF PgOp, DeletingRows, PgTyped, TablesOK
  <2>2. Pick(t, o)
    BY <1>1 DEF PickRows
  <2> HIDE DEF o
  <2>3. QED
    BY <2>1, <2>2, PgGoShape DEF Pick, PgTyped, TablesOK
<1>2. ASSUME NEW S \in SUBSET Ids, PickUnlisted(t, S, next)
      PROVE  PgTyped'
  <2> DEFINE o == [pc |-> "apply_messages", then |-> next,
                   ids |-> {i \in S : messages[i] # NoArticle /\ ~Listed(i)}]
  <2>1. o \in PgOp /\ o.pc = "apply_messages"
    BY DEF PgOp, DeletingMessages
  <2>2. Pick(t, o)
    BY <1>2 DEF PickUnlisted
  <2> HIDE DEF o
  <2>3. QED
    BY <2>1, <2>2, PgGoShape DEF Pick, PgTyped, TablesOK
<1>3. QED
  BY <1>1, <1>2

(* The calls that delete, up to the snapshot of their DELETE. *)
LEMMA PgTypeDelete ==
    ASSUME PgTyped, NEW t \in Tasks,
           \/ PgRemoveGroup(t) \/ PgRemoveGroupsByPattern(t)
           \/ PgDeleteArticleById(t)
           \/ \E g \in Groups, b \in 0..MaxClock : PgPurgeGroupBefore(t, g, b)
           \/ PgPurgeOrphanMessages(t)
    PROVE  PgTyped'
<1>0. op[t] \in PgOp
  BY DEF PgTyped
<1>1. ASSUME NEW g \in Groups, NEW rest \in SUBSET Groups,
             PgDeleteGroupRows(t, g, rest)
      PROVE  PgTyped'
  <2>1. [pc |-> "remove_name", group |-> g, doomed |-> rest] \in Onward
    BY DEF Onward, Removing
  <2>2. QED
    BY <1>1, <2>1, PgTypePick DEF PgDeleteGroupRows
<1>2. ASSUME PgRemoveGroup(t)
      PROVE  PgTyped'
  <2>1. CASE RemoveName(t)
    <3>1. op[t] \in Removing
      BY <1>0, <2>1, PgOpShape DEF RemoveName, At
    <3> DEFINE o == [op[t] EXCEPT !.pc = "remove_orphans"]
    <3>2. o \in PgOp /\ o.pc = "remove_orphans"
      BY <3>1 DEF PgOp, Op, Removing
    <3> HIDE DEF o
    <3>3. op' \in [Tasks -> PgOp] /\ CursorInRange'
      BY <2>1, <3>2, PgGoShape DEF RemoveName, o, PgTyped
    <3>4. QED
      BY <2>1, <3>1, <3>3 DEF RemoveName, PgTyped, TablesOK
  <2>2. CASE At(t, "remove_orphans")
               /\ PickUnlisted(t, Ids, [pc |-> "next_group",
                                        doomed |-> op[t].doomed])
    <3>1. op[t] \in Removing
      BY <1>0, <2>2, PgOpShape DEF At
    <3>2. [pc |-> "next_group", doomed |-> op[t].doomed] \in Onward
      BY <3>1 DEF Onward, Matching, Removing
    <3>3. QED
      BY <2>2, <3>2, PgTypePick
  <2>3. QED
    BY <1>1, <1>2, <2>1, <2>2 DEF PgRemoveGroup
<1>3. ASSUME PgRemoveGroupsByPattern(t)
      PROVE  PgTyped'
  <2>1. ASSUME NEW S \in SUBSET Groups, RemoveGroupsByPattern(t, S)
        PROVE  PgTyped'
    <3>1. [pc |-> "next_group", doomed |-> S] \in PgOp
      BY DEF PgOp, Op, Matching
    <3>2. op' \in [Tasks -> PgOp] /\ CursorInRange'
      BY <2>1, <3>1, PgGoShape DEF RemoveGroupsByPattern, PgTyped
    <3>3. QED
      BY <2>1, <3>2 DEF RemoveGroupsByPattern, PgTyped, TablesOK
  <2>2. ASSUME At(t, "next_group"), NEW g \in op[t].doomed,
               PgDeleteGroupRows(t, g, op[t].doomed \ {g})
        PROVE  PgTyped'
    <3>1. op[t] \in Matching
      BY <1>0, <2>2, PgOpShape DEF At
    <3>2. g \in Groups /\ op[t].doomed \ {g} \in SUBSET Groups
      BY <3>1 DEF Matching
    <3>3. QED
      BY <1>1, <2>2, <3>2
  <2>3. CASE RemovalDone(t)
    <3>1. op' \in [Tasks -> PgOp] /\ CursorInRange'
      BY <2>3, ResultShape, PgGoShape DEF RemovalDone, PgTyped, PgOp
    <3>2. QED
      BY <2>3, <3>1 DEF RemovalDone, PgTyped, TablesOK
  <2>4. QED
    BY <1>3, <2>1, <2>2, <2>3 DEF PgRemoveGroupsByPattern
<1>4. Result("ok") \in Onward
  BY DEF Result, Onward, Returned
<1>5. ASSUME PgDeleteArticleById(t)
      PROVE  PgTyped'
  <2>1. ASSUME NEW i \in Ids,
               PickRows(t, {r \in groupArticles : r.id = i},
                        [pc |-> "delete_message", id |-> i])
        PROVE  PgTyped'
    <3>1. [pc |-> "delete_message", id |-> i] \in Onward
      BY DEF Onward, Deleting
    <3>2. QED
      BY <2>1, <3>1, PgTypePick
  <2>2. CASE At(t, "delete_message")
               /\ PickUnlisted(t, {op[t].id}, Result("ok"))
    <3>1. op[t].id \in Ids
      BY <1>0, <2>2, PgOpShape DEF At, Deleting
    <3>2. QED
      BY <1>4, <2>2, <3>1, PgTypePick
  <2>3. QED
    BY <1>5, <2>1, <2>2 DEF PgDeleteArticleById
<1>6. ASSUME NEW g \in Groups, NEW b \in 0..MaxClock,
             PgPurgeGroupBefore(t, g, b)
      PROVE  PgTyped'
  BY <1>4, <1>6, PgTypePick DEF PgPurgeGroupBefore
<1>7. ASSUME PgPurgeOrphanMessages(t)
      PROVE  PgTyped'
  BY <1>4, <1>7, PgTypePick DEF PgPurgeOrphanMessages
<1>8. QED
  BY <1>2, <1>3, <1>5, <1>6, <1>7

(* A deletion that is applied leaves every other snapshot well formed. *)
LEMMA WithoutShape ==
    ASSUME NEW o \in PgOp, NEW R, NEW S
    PROVE  /\ Without(o, R, S) \in PgOp
           /\ Without(o, R, S).pc = o.pc
           /\ o.pc \in {"select_number", "insert_row", "write_overview"} =>
                Without(o, R, S) = o
<1>1. CASE o.pc = "apply_rows"
  <2>1. o \in DeletingRows
    BY <1>1, PgOpShape
  <2>2. Without(o, R, S) = [o EXCEPT !.rows = @ \ R]
    BY <1>1 DEF Without
  <2>3. Without(o, R, S) \in DeletingRows /\ Without(o, R, S).pc = o.pc
    BY <2>1, <2>2 DEF DeletingRows
  <2>4. QED
    BY <1>1, <2>3 DEF PgOp
<1>2. CASE o.pc = "apply_messages"
  <2>1. o \in DeletingMessages
    BY <1>2, PgOpShape
  <2>2. Without(o, R, S) = [o EXCEPT !.ids = @ \ S]
    BY <1>2 DEF Without
  <2>3. Without(o, R, S) \in DeletingMessages /\ Without(o, R, S).pc = o.pc
    BY <2>1, <2>2 DEF DeletingMessages
  <2>4. QED
    BY <1>2, <2>3 DEF PgOp
<1>3. CASE o.pc \notin {"apply_rows", "apply_messages"}
  BY <1>3 DEF Without
<1>4. QED
  BY <1>1, <1>2, <1>3

LEMMA PgTypeApply ==
    ASSUME PgTyped, NEW t \in Tasks, ApplyRows(t) \/ ApplyMessages(t)
    PROVE  PgTyped'
<1>1. op[t] \in PgOp /\ op[t].then \in Onward
  BY PgOpShape DEF PgTyped, ApplyRows, ApplyMessages, At, DeletingRows,
                   DeletingMessages
<1>2. PICK R, S : GoOn(t, R, S)
  BY DEF ApplyRows, ApplyMessages
<1>3. op[t].then \in PgOp
        /\ op[t].then.pc \notin {"select_number", "insert_row", "write_overview"}
  BY <1>1, RestShape
<1>4. op' \in [Tasks -> PgOp]
  BY <1>2, <1>3, WithoutShape DEF GoOn, PgTyped
<1>5. CursorInRange'
  <2> SUFFICES ASSUME NEW u \in Tasks,
                      op'[u].pc \in {"select_number", "insert_row",
                                     "write_overview"}
               PROVE  op'[u].idx \in DOMAIN Newsgroups[op'[u].art]
    BY DEF CursorInRange
  <2>1. u # t /\ op'[u] = Without(op[u], R, S)
    BY <1>2, <1>3 DEF GoOn
  <2>2. op'[u] = op[u]
    BY <2>1, WithoutShape DEF PgTyped
  <2>3. QED
    BY <2>2 DEF PgTyped, CursorInRange
<1>6. messages' \in [Ids -> Articles \cup {NoArticle}]
  BY DEF ApplyRows, ApplyMessages, DropUnlisted, PgTyped, TablesOK
<1>7. QED
  BY <1>4, <1>5, <1>6 DEF ApplyRows, ApplyMessages, PgTyped, TablesOK

LEMMA PgTypeNext == PgTyped /\ PgNext => PgTyped'
<1> SUFFICES ASSUME PgTyped, PgNext
             PROVE  PgTyped'
  OBVIOUS
<1>1. ASSUME NEW t \in Tasks, NEW g \in Groups, NEW m \in BOOLEAN,
             \/ PgAddGroup(t, g, m)
             \/ PgSetGroupModerated(t, g, m)
             \/ PgAddGroupWithDescription(t, g, m)
      PROVE  PgTyped'
  <2> USE DEF PgAddGroup, PgSetGroupModerated, PgAddGroupWithDescription
  <2>1. Go(t, Result("ok"))
    BY <1>1 DEF AddGroup, SetGroupModerated, AddGroupWithDescription
  <2>2. op' \in [Tasks -> PgOp] /\ CursorInRange'
    BY <2>1, ResultShape, PgGoShape DEF PgTyped, PgOp
  <2>3. Flag(m) \in {"none", "open", "moderated"}
    BY DEF Flag
  <2>4. groups' \in [Groups -> {"none", "open", "moderated"}]
    BY <1>1, <2>3 DEF AddGroup, SetGroupModerated, AddGroupWithDescription,
                      PgTyped
  <2>5. UNCHANGED <<messages, groupArticles, overview, clock>>
    BY <1>1 DEF AddGroup, SetGroupModerated, AddGroupWithDescription
  <2>6. QED
    BY <2>2, <2>4, <2>5 DEF PgTyped, TablesOK
<1>2. ASSUME NEW t \in Tasks, DbError(t)
      PROVE  PgTyped'
  <2>1. op' \in [Tasks -> PgOp] /\ CursorInRange'
    BY <1>2, ResultShape, PgGoShape DEF DbError, PgTyped, PgOp
  <2>2. QED
    BY <1>2, <2>1 DEF DbError, PgTyped, TablesOK
<1>3. ASSUME Restart
      PROVE  PgTyped'
  <2>1. op' \in [Tasks -> PgOp] /\ CursorInRange'
    BY <1>3, ResultShape DEF Restart, CursorInRange, PgOp
  <2>2. QED
    BY <1>3, <2>1 DEF Restart, PgTyped, TablesOK
<1>4. ASSUME Tick
      PROVE  PgTyped'
  BY <1>4 DEF Tick, PgTyped, TablesOK, CursorInRange
<1>5. ASSUME NEW t \in Tasks, PgCall(t)
      PROVE  PgTyped'
  BY <1>1, <1>2, <1>5, PgTypeStore, PgTypeDelete, PgTypeApply
     DEF PgCall, ForeignKeyHolds
<1>6. QED
  BY <1>2, <1>3, <1>4, <1>5 DEF PgNext

-----------------------------------------------------------------------------
(* Both backends. *)

LEMMA StorageInit == Open => StorageInv
<1> SUFFICES ASSUME Open
             PROVE  StorageInv
  OBVIOUS
<1>1. StoreTypeInv
  BY TypeInit DEF Open
<1>2. QED
  BY <1>1 DEF StorageInv, StorageTypeOK, StoreTypeInv, StoreTypeOK, Open, PgOp

LEMMA StorageTypeNext == StorageInv /\ [StorageNext]_storageVars => StorageInv'
<1> SUFFICES ASSUME StorageInv, [StorageNext]_storageVars
             PROVE  StorageInv'
  OBVIOUS
<1>1. CASE backend = "sqlite" /\ StoreNext /\ UNCHANGED backend
  <2>1. StoreTypeInv'
    BY <1>1, TypeNext DEF StorageInv, StorageTypeOK, StoreTypeInv, StoreTypeOK
  <2>2. QED
    BY <1>1, <2>1 DEF StorageInv, StorageTypeOK, StoreTypeInv, StoreTypeOK
<1>2. CASE backend = "postgres" /\ PgNext /\ UNCHANGED backend
  <2>1. PgTyped'
    BY <1>2, PgTypeNext DEF StorageInv, StorageTypeOK, PgTyped, TablesOK
  <2>2. QED
    BY <1>2, <2>1 DEF StorageInv, StorageTypeOK, PgTyped, TablesOK
<1>3. CASE UNCHANGED storageVars
  BY <1>3 DEF storageVars, StorageInv, StorageTypeOK, CursorInRange
<1>4. QED
  BY <1>1, <1>2, <1>3 DEF StorageNext

(* The tables and the calls of either backend always have their types.     *)
THEOREM StorageTypeCorrect == StorageSpec => []StorageTypeOK
<1>1. StorageSpec => []StorageInv
  BY StorageInit, StorageTypeNext, PTL DEF StorageSpec
<1>2. QED
  BY <1>1, PTL DEF StorageInv

(* An article number designates at most one article on either backend,     *)
(* for any number of concurrent store_article calls.                       *)
THEOREM StorageNumbersUnique == StorageSpec => []NumbersUnique
<1>1. Open => NumbersUnique
  BY DEF Open, StoreInit, NumbersUnique
<1>2. NumbersUnique /\ [StorageNext]_storageVars => NumbersUnique'
  <2> SUFFICES ASSUME NumbersUnique, [StorageNext]_storageVars
               PROVE  NumbersUnique'
    OBVIOUS
  <2>1. CASE RowInserted
    BY <2>1 DEF RowInserted, Accepts, KeyTaken, NumbersUnique
  <2>2. CASE ~RowInserted
    BY <2>2, StorageEffect DEF Effect, RowsDropped, MessageInserted,
                               MessagesDropped, NumbersUnique
  <2>3. QED
    BY <2>1, <2>2
<1>3. QED
  BY <1>1, <1>2, PTL DEF StorageSpec

(* An article is filed under its own Message-ID. *)
FiledById == \A i \in Ids : messages[i] # NoArticle => MessageId[messages[i]] = i

TableInv == StorageInv /\ RowsHaveMessages /\ FiledById

(* No statement changes the message of a row that was listed before it. *)
LEMMA ListedMessageStays ==
    ASSUME TableInv, Effect, NEW r \in groupArticles
    PROVE  messages'[r.id] = messages[r.id]
<1>1. r.id \in Ids /\ messages[r.id] # NoArticle
  BY DEF TableInv, StorageInv, StorageTypeOK, Row, RowsHaveMessages
<1>2. messages \in [Ids -> Articles \cup {NoArticle}]
  BY DEF TableInv, StorageInv, StorageTypeOK
<1>3. CASE MessageInserted
  <2>1. PICK a \in Articles :
            messages' = IF messages[MessageId[a]] = NoArticle
                        THEN [messages EXCEPT ![MessageId[a]] = a]
                        ELSE messages
    BY <1>3 DEF MessageInserted
  <2>2. QED
    BY <1>1, <1>2, <2>1
<1>4. CASE MessagesDropped
  <2>1. Listed(r.id)
    BY DEF Listed
  <2>2. PICK S : messages' = DropUnlisted(S)
    BY <1>4 DEF MessagesDropped
  <2>3. QED
    BY <1>1, <2>1, <2>2 DEF DropUnlisted
<1>5. QED
  BY <1>3, <1>4 DEF Effect, RowsDropped, RowInserted

LEMMA TableInit == Open => TableInv
  BY StorageInit DEF Open, StoreInit, TableInv, RowsHaveMessages, FiledById

LEMMA TableNext == TableInv /\ [StorageNext]_storageVars => TableInv'
<1> SUFFICES ASSUME TableInv, [StorageNext]_storageVars
             PROVE  TableInv'
  OBVIOUS
<1>1. StorageInv'
  BY StorageTypeNext DEF TableInv
<1>2. Effect
  BY StorageEffect
<1>3. RowsHaveMessages'
  <2>1. \A r \in groupArticles : messages'[r.id] # NoArticle
    BY <1>2, ListedMessageStays DEF TableInv, RowsHaveMessages
  <2>2. CASE RowInserted
    BY <2>1, <2>2 DEF RowInserted, Accepts, RowsHaveMessages
  <2>3. CASE ~RowInserted
    BY <1>2, <2>1, <2>3 DEF Effect, RowsDropped, MessageInserted,
                            MessagesDropped, RowsHaveMessages
  <2>4. QED
    BY <2>2, <2>3
<1>4. FiledById'
  <2>1. messages \in [Ids -> Articles \cup {NoArticle}]
    BY DEF TableInv, StorageInv, StorageTypeOK
  <2>2. CASE MessageInserted
    BY <2>1, <2>2, StoreAssumption DEF MessageInserted, TableInv, FiledById
  <2>3. CASE MessagesDropped
    BY <2>1, <2>3 DEF MessagesDropped, DropUnlisted, TableInv, FiledById
  <2>4. CASE RowsDropped \/ RowInserted
    BY <2>4 DEF RowsDropped, RowInserted, TableInv, FiledById
  <2>5. QED
    BY <1>2, <2>2, <2>3, <2>4 DEF Effect
<1>5. QED
  BY <1>1, <1>3, <1>4 DEF TableInv

(* On neither backend does an interleaving leave a listed article without  *)
(* its message, although a PostgreSQL DELETE acts on a stale snapshot.     *)
THEOREM StorageListedExist == StorageSpec => []RowsHaveMessages
<1>1. StorageSpec => []TableInv
  BY TableInit, TableNext, PTL DEF StorageSpec
<1>2. QED
  BY <1>1, PTL DEF TableInv

(* What a listed number designates stays the same on either backend.       *)
THEOREM StorageNumbersKeep == StorageSpec => NumberKeepsArticle
<1> DEFINE Kept == \A r \in groupArticles, s \in groupArticles' :
                      r.group = s.group /\ r.number = s.number =>
                          r = s /\ messages'[s.id] = messages[r.id]
<1>1. ASSUME TableInv, NumbersUnique, [StorageNext]_storageVars
      PROVE  [Kept]_storeVars
  <2>1. Effect
    BY <1>1, StorageEffect
  <2>2. \A r \in groupArticles : messages'[r.id] = messages[r.id]
    BY <1>1, <2>1, ListedMessageStays
  <2>3. CASE RowInserted
    BY <1>1, <2>2, <2>3 DEF RowInserted, Accepts, KeyTaken, NumbersUnique
  <2>4. CASE ~RowInserted
    BY <1>1, <2>1, <2>2, <2>4 DEF Effect, RowsDropped, MessageInserted,
                                  MessagesDropped, NumbersUnique
  <2>5. QED
    BY <2>3, <2>4
<1>2. StorageSpec => []TableInv
  BY TableInit, TableNext, PTL DEF StorageSpec
<1>3. TableInv /\ NumbersUnique /\ [StorageNext]_storageVars => [Kept]_storeVars
  BY <1>1
<1>4. QED
  BY <1>2, <1>3, StorageNumbersUnique, PTL DEF StorageSpec, NumberKeepsArticle

-----------------------------------------------------------------------------
(* The refinement: every statement is a step of Catalogue or shows nothing *)
(* of itself to a reader.                                                  *)

LEMMA ShownInsert ==
    ASSUME TableInv, RowInserted
    PROVE  \E a \in Articles, g \in Groups : Reader!List(a, g)
<1>1. PICK t \in Tasks :
          /\ At(t, "insert_row")
          /\ Accepts(NewRow(op[t]))
          /\ groupArticles' = groupArticles \cup {NewRow(op[t])}
          /\ messages' = messages
  BY DEF RowInserted
<1>2. op[t] \in PgOp
  BY DEF TableInv, StorageInv, StorageTypeOK, PgOp
<1>3. /\ op[t] \in Writing
      /\ op[t].idx \in DOMAIN Newsgroups[op[t].art]
  BY <1>1, <1>2, PgOpShape DEF At, TableInv, StorageInv, CursorInRange
<1> DEFINE a == op[t].art
           g == Newsgroups[op[t].art][op[t].idx]
           e == <<g, op[t].num, messages[MessageId[a]]>>
<1>4. /\ NewRow(op[t]).group = g
      /\ NewRow(op[t]).number = op[t].num
      /\ NewRow(op[t]).id = MessageId[a]
  BY DEF NewRow
<1>5. a \in Articles /\ g \in Groups /\ op[t].num \in Nat
  BY <1>3, CursorGroup DEF Writing
<1>6. Reader!Named(a, g)
  BY <1>3 DEF Reader!Named
<1>7. messages[MessageId[a]] # NoArticle /\ ~KeyTaken(g, op[t].num)
  BY <1>1, <1>4 DEF Accepts
<1>8. Shown' = Shown \cup {e}
  BY <1>1, <1>4 DEF Shown
<1>9. \A f \in Shown : f[1] = g => f[2] # e[2]
  BY <1>7 DEF Shown, KeyTaken
<1>10. e[2] = op[t].num /\ e \in Shown'
  BY <1>8
<1>11. Reader!List(a, g)
  <2> HIDE DEF a, g
  <2>1. e[2] \in Nat /\ e = <<g, e[2], messages[MessageId[a]]>>
    BY <1>5, <1>10
  <2> HIDE DEF e
  <2>2. QED
    BY <1>1, <1>6, <1>7, <1>8, <1>9, <1>10, <2>1 DEF Reader!List
<1>12. QED
  BY <1>5, <1>11

LEMMA ShownStep ==
    ASSUME TableInv, [StorageNext]_storageVars
    PROVE  [Reader!CatalogueNext]_(Reader!catalogueVars)
<1>0. Effect
  BY StorageEffect
<1>1. CASE RowsDropped
  <2>1. messages' = messages /\ Shown' \subseteq Shown
    BY <1>1 DEF RowsDropped, Shown
  <2>2. QED
    BY <2>1 DEF Reader!CatalogueNext, Reader!Withdraw
<1>2. CASE RowInserted
  BY <1>2, ShownInsert DEF Reader!CatalogueNext
<1>3. \A r \in groupArticles : messages'[r.id] = messages[r.id]
  BY <1>0, ListedMessageStays
<1>4. CASE MessageInserted
  <2>1. Shown' = Shown
    BY <1>3, <1>4 DEF MessageInserted, Shown
  <2>2. PICK a \in Articles :
            messages' = IF messages[MessageId[a]] = NoArticle
                        THEN [messages EXCEPT ![MessageId[a]] = a]
                        ELSE messages
    BY <1>4 DEF MessageInserted
  <2>3. CASE messages[MessageId[a]] = NoArticle
    <3>1. Reader!Keep(a)
      BY <2>1, <2>2, <2>3 DEF Reader!Keep
    <3>2. QED
      BY <3>1 DEF Reader!CatalogueNext
  <2>4. CASE messages[MessageId[a]] # NoArticle
    BY <2>1, <2>2, <2>4 DEF Reader!catalogueVars
  <2>5. QED
    BY <2>3, <2>4
<1>5. CASE MessagesDropped
  <2>1. Shown' = Shown
    BY <1>3, <1>5 DEF MessagesDropped, Shown
  <2>2. PICK S : messages' = DropUnlisted(S)
    BY <1>5 DEF MessagesDropped
  <2> DEFINE D == {i \in Ids : i \in S /\ ~Listed(i)}
  <2>3. messages' = [i \in Ids |-> IF i \in D THEN NoArticle ELSE messages[i]]
    BY <2>2 DEF DropUnlisted
  <2>4. \A r \in groupArticles : \A i \in D : messages[r.id] # messages[i]
    <3> SUFFICES ASSUME NEW r \in groupArticles, NEW i \in D,
                        messages[r.id] = messages[i]
                 PROVE  FALSE
      OBVIOUS
    <3>1. Listed(r.id) /\ r.id \in Ids /\ messages[r.id] # NoArticle
      BY DEF Listed, TableInv, StorageInv, StorageTypeOK, Row, RowsHaveMessages
    <3>2. MessageId[messages[r.id]] = r.id /\ MessageId[messages[i]] = i
      BY <3>1 DEF TableInv, FiledById
    <3>3. QED
      BY <3>1, <3>2
  <2>5. \A e \in Shown : e[3] \notin {messages[i] : i \in D}
    BY <2>4 DEF Shown
  <2>6. Reader!Forget(D)
    <3> HIDE DEF D
    <3>1. QED
      BY <2>1, <2>3, <2>5 DEF Reader!Forget
  <2>7. D \in SUBSET Ids
    OBVIOUS
  <2>8. QED
    BY <2>6, <2>7 DEF Reader!CatalogueNext
<1>6. QED
  BY <1>0, <1>1, <1>2, <1>4, <1>5 DEF Effect

(* Both backends implement the promise of Catalogue.  The foreign key, the *)
(* primary key and INSERT OR IGNORE carry it; no statement needs to be in  *)
(* a transaction with another.                                             *)
THEOREM BackendsImplementCatalogue == StorageSpec => ReaderSpec
<1>1. Open => Reader!CatalogueInit
  BY DEF Open, StoreInit, Shown, Reader!CatalogueInit
<1>2. StorageSpec => []TableInv
  BY TableInit, TableNext, PTL DEF StorageSpec
<1>3. TableInv /\ [StorageNext]_storageVars
        => [Reader!CatalogueNext]_(Reader!catalogueVars)
  BY ShownStep
<1>4. QED
  BY <1>1, <1>2, <1>3, PTL DEF StorageSpec, ReaderSpec, Reader!CatalogueSpec
=============================================================================
