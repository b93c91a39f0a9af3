----------------------------- MODULE Catalogue ------------------------------
(***************************************************************************)
(* What the article database promises to a reader, whatever its backend,   *)
(* its tables and its statements: a set of articles that can be fetched by *)
(* Message-ID, and a listing that gives some of them numbers in groups.    *)
(*                                                                         *)
(*   - an article is listed only while it can be fetched;                  *)
(*   - a number of a group designates one article, and never another one   *)
(*     for as long as it is listed;                                        *)
(*   - an article is listed only in groups that its own Newsgroups header, *)
(*     or that of another article with its Message-ID, names;              *)
(*   - an article that can be fetched is never replaced by another one.    *)
(***************************************************************************)
EXTENDS Naturals, Sequences

CONSTANTS Ids, Groups, Articles, NoArticle, MessageId, Newsgroups

VARIABLES
    held,     \* Message-ID -> the article that can be fetched, or NoArticle
    listing   \* the entries <<group, number, article>> a reader is shown

catalogueVars == <<held, listing>>

Named(a, g) == \E k \in DOMAIN Newsgroups[a] : Newsgroups[a][k] = g

CatalogueInit ==
    /\ held = [i \in Ids |-> NoArticle]
    /\ listing = {}

\* A new Message-ID becomes fetchable.
Keep(a) ==
    /\ held[MessageId[a]] = NoArticle
    /\ held' = [held EXCEPT ![MessageId[a]] = a]
    /\ UNCHANGED listing

\* A fetchable article gets a number that is free in the group.
List(a, g) ==
    /\ Named(a, g)
    /\ held[MessageId[a]] # NoArticle
    /\ \E e \in listing' :
          /\ e[2] \in Nat /\ e = <<g, e[2], held[MessageId[a]]>>
          /\ \A f \in listing : f[1] = g => f[2] # e[2]
          /\ listing' = listing \cup {e}
    /\ UNCHANGED held

\* Entries leave the listing: a cancel, an expiry, a removed group.
Withdraw ==
    /\ listing' \subseteq listing
    /\ UNCHANGED held

\* Articles that no entry shows stop being fetchable.
Forget(S) ==
    /\ \A e \in listing : e[3] \notin {held[i] : i \in S}
    /\ held' = [i \in Ids |-> IF i \in S THEN NoArticle ELSE held[i]]
    /\ UNCHANGED listing

CatalogueNext ==
    \/ \E a \in Articles : Keep(a)
    \/ \E a \in Articles, g \in Groups : List(a, g)
    \/ Withdraw
    \/ \E S \in SUBSET Ids : Forget(S)

CatalogueSpec == CatalogueInit /\ [][CatalogueNext]_catalogueVars
=============================================================================
