------------------------------ MODULE Storage -------------------------------
(***************************************************************************)
(* The storage the server opened: SQLite or PostgreSQL, chosen by the URI  *)
(* of db_path, and the promise both keep (module Catalogue).               *)
(***************************************************************************)
EXTENDS PostgresStore

VARIABLE backend

storageVars == <<messages, groupArticles, groups, overview, clock, op, backend>>

\* open(uri): the scheme decides; any other one is an error before a handle
\* exists.  The tables are empty, or what an earlier process left in them.
Open == StoreInit /\ backend \in {"sqlite", "postgres"}

StorageNext ==
    /\ \/ backend = "sqlite" /\ StoreNext
       \/ backend = "postgres" /\ PgNext
    /\ UNCHANGED backend

StorageSpec == Open /\ [][StorageNext]_storageVars

-----------------------------------------------------------------------------
(* Types of the tables and of the calls in progress: on PostgreSQL a call  *)
(* may be between the snapshot and the effect of a DELETE.                 *)
StorageTypeOK ==
    /\ messages \in [Ids -> Articles \cup {NoArticle}]
    /\ groupArticles \subseteq Row
    /\ groups \in [Groups -> {"none", "open", "moderated"}]
    /\ overview \subseteq Line
    /\ clock \in Nat
    /\ backend \in {"sqlite", "postgres"}
    /\ op \in [Tasks -> IF backend = "sqlite" THEN Op ELSE PgOp]

\* What a reader is shown: the join of group_articles and messages.
Shown == {<<r.group, r.number, messages[r.id]>> : r \in groupArticles}

Reader == INSTANCE Catalogue WITH held <- messages, listing <- Shown

(* Both backends implement the catalogue, whatever statements of other     *)
(* tasks run between the statements of a call, and, on PostgreSQL, between *)
(* the snapshot and the effect of a DELETE.                                *)
ReaderSpec == Reader!CatalogueSpec
=============================================================================
