--------------------------- MODULE MCArticleFeed ----------------------------
(***************************************************************************)
(* Instances of ArticleFeed.                                               *)
(*                                                                         *)
(* x and y are ordinary articles of group g1 (x expires), z is crossposted *)
(* to g1 and g2.  Control articles: key and badkey cancel x with a         *)
(* Cancel-Key, adm cancels x with an admin signature, new creates g2 and   *)
(* rm removes g1, both signed, and forged is an unsigned rmgroup.          *)
(***************************************************************************)
EXTENDS ArticleFeed, TLC

CONSTANTS s1, s2, w1, rt, i1, i2, i3, ic, g1, g2,
          x, y, z, key, badkey, adm, new, rm, forged, none, never

MCSessions == {s1, s2}
MCWorkers1 == {w1}
MCTasks1   == {s1, s2, w1, rt}
MCIds      == {i1, i2, i3, ic}
IdsOfX     == {i1, ic}
MCGroups   == {g1, g2}
JustG1     == {g1}
MCControls == {key, badkey, adm, new, rm, forged}
MCArticles == {x, y, z} \cup MCControls

MCMessageId ==
    [a \in Articles |-> CASE a = x -> i1 [] a = y -> i2 [] a = z -> i3
                            [] OTHER -> ic]
MCNewsgroups ==
    [a \in Articles |-> IF a = z THEN <<g1, g2>> ELSE <<g1>>]

CancelX(keyed) == [verb |-> "cancel", id |-> i1, keyed |-> keyed]
MCControl ==
    [a \in Articles |->
        CASE a \in {key, badkey} -> CancelX(TRUE)
          [] a = adm -> CancelX(FALSE)
          [] a = new -> [verb |-> "newgroup", group |-> g2, moderated |-> TRUE]
          [] a \in {rm, forged} -> [verb |-> "rmgroup", group |-> g1]
          [] OTHER -> none]
MCOpens       == {<<key, x>>}
MCAdminSigned == {adm, new, rm}
MCApproved    == {<<z, g2>>}
MCExpires     == [a \in Articles |-> IF a = x THEN 1 ELSE never]
MCRetention   == [g \in Groups |-> IF g = g1 THEN 1 ELSE 0]
MCNoRetention == [g \in Groups |-> 0]
MCNothing     == {}

MCInitialGroups == [g \in Groups |-> IF g = g1 THEN "open" ELSE "moderated"]
NoG2 == [g \in Groups |-> IF g = g1 THEN "open" ELSE "none"]
SessionSymmetry == Permutations(MCSessions)

\* What comes in, per run.
OfferX     == {<<i1, x>>}
OfferXKey  == {<<i1, x>>, <<ic, key>>}
OfferCtl   == {<<i1, x>>} \cup {<<ic, c>> : c \in {key, rm}}
StreamCtl  == {<<i3, z>>} \cup {<<ic, c>> : c \in {adm, forged}}
StreamKey  == {<<ic, key>>}
PostX      == {x}
PostCtl    == {badkey, new}
XAndKey    == {x, key}
=============================================================================
