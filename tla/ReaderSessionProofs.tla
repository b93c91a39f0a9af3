------------------------- MODULE ReaderSessionProofs ------------------------
(***************************************************************************)
(* Proofs about ReaderSession, for any number of groups and articles.      *)
(***************************************************************************)
EXTENDS ReaderSession, TLAPS

MoveCmd  == [pc : {"move"}, dir : {"next", "last"}, to : Numbers]
FetchCmd == [pc : {"fetch"}, verb : Verb, todo : SUBSET Sent, got : SUBSET Numbers]

(* While NEXT is between its two statements: only late articles lie between *)
(* the position and the number it is about to fetch.                        *)
AheadLate ==
    cmd.pc = "move" /\ cmd.dir = "next" =>
        /\ Here < cmd.to
        /\ \A r \in rows :
              (r.group = session.group /\ start < r.number /\ r.number < cmd.to)
                  => r \in shown \cup late

(* While a range is read: what was read lies below what was not, the       *)
(* commands that move the position are at the last article they found, and *)
(* the steady articles are found or still to be read.                      *)
FetchOrdered ==
    cmd.pc = "fetch" =>
        /\ \A n \in cmd.got, m \in cmd.todo : n < m
        /\ cmd.verb # "HDR" /\ cmd.got # {} => IsLast(Here, cmd.got)
        /\ \A r \in steady : r.group = session.group
                             /\ r.number \in cmd.got \cup cmd.todo

(* The position has not moved since the last reply. *)
Settled == cmd.pc # "fetch" \/ cmd.got = {} \/ cmd.verb = "HDR"
ViewCurrent == Settled /\ view # Unknown => view = session

ReaderInv ==
    /\ ReaderTypeOK
    /\ start <= Here /\ WalkComplete /\ AheadLate
    /\ FetchOrdered /\ ViewCurrent

-----------------------------------------------------------------------------
LEMMA NumberTypes ==
    /\ MaxNumber \in Nat
    /\ \A n \in Sent : n \in Nat /\ n <= MaxNumber
    /\ \A n \in Numbers : n \in Sent /\ n \in Nat /\ n # 0
    /\ 0 \in Sent
  BY ReaderAssumption DEF Numbers, Sent

LEMMA FoundRow ==
    ASSUME ReaderTypeOK, NEW g, NEW n, Found(g, n)
    PROVE  /\ n \in Numbers /\ g \in Groups /\ g # NoGroup
           /\ [group |-> g, number |-> n] \in rows
<1>1. n \in Numbers /\ [group |-> g, number |-> n] \in rows
  BY DEF Found, NumbersOf
<1>2. [group |-> g, number |-> n] \in Row
  BY <1>1 DEF ReaderTypeOK, Here
<1>3. QED
  BY <1>1, <1>2, ReaderAssumption DEF Row

LEMMA RowFound ==
    ASSUME ReaderTypeOK, NEW r \in rows
    PROVE  /\ Found(r.group, r.number) /\ r.number \in NumbersOf(r.group)
           /\ r = [group |-> r.group, number |-> r.number]
           /\ r.group \in Groups /\ r.number \in Numbers
<1>1. r \in Row
  BY DEF ReaderTypeOK, Here
<1>2. r = [group |-> r.group, number |-> r.number] /\ r.number \in Numbers
      /\ r.group \in Groups
  BY <1>1 DEF Row
<1>3. QED
  BY <1>2 DEF Found, NumbersOf

LEMMA SetCurrentType ==
    ASSUME ReaderTypeOK, NEW n \in Sent, session.group # NoGroup
    PROVE  /\ [session EXCEPT !.article = n] \in Position
           /\ [session EXCEPT !.article = n].group = session.group
           /\ [session EXCEPT !.article = n].article = n
  BY DEF ReaderTypeOK, Here, Position

LEMMA MoveRecord ==
    ASSUME ReaderTypeOK, cmd.pc = "move"
    PROVE  cmd \in MoveCmd /\ cmd.to \in Numbers /\ cmd.dir \in {"next", "last"}
<1>1. cmd \in MoveCmd
  BY DEF ReaderTypeOK, Here, Cmd, MoveCmd
<1>2. QED
  BY <1>1 DEF MoveCmd

LEMMA FetchRecord ==
    ASSUME ReaderTypeOK, cmd.pc = "fetch"
    PROVE  cmd \in FetchCmd /\ cmd.todo \subseteq Sent /\ cmd.got \subseteq Numbers
           /\ cmd.verb \in Verb
<1>1. cmd \in FetchCmd
  BY DEF ReaderTypeOK, Here, Cmd, FetchCmd
<1>2. QED
  BY <1>1 DEF FetchCmd

LEMMA ParseRangeType ==
    ASSUME ReaderTypeOK, NEW a \in Sent, NEW b \in Sent \cup {Open}
    PROVE  ParseRange(a, b) \subseteq Sent
<1>1. CASE b = Open
  BY <1>1, NumberTypes DEF ParseRange, NumbersOf
<1>2. CASE b # Open
  <2>1. b \in Sent /\ ParseRange(a, b) = a .. b
    BY <1>2 DEF ParseRange
  <2>2. QED
    BY <2>1, NumberTypes DEF Sent
<1>3. QED
  BY <1>1, <1>2

LEMMA IdleType == Idle \in Cmd /\ Idle.pc = "idle"
  BY DEF Idle, Cmd

-----------------------------------------------------------------------------
(* The types. *)

LEMMA TypeReplies ==
    ASSUME ReaderTypeOK, Reply(view), Stay, UNCHANGED <<groups, rows>>,
           UNCHANGED steady \/ steady' = {}
    PROVE  ReaderTypeOK'
  BY IdleType DEF Reply, Stay, ReaderTypeOK, Here

LEMMA TypeNavigation ==
    ASSUME ReaderTypeOK,
           \/ \E g \in Groups : Group(g)
           \/ SelectGroup
           \/ \E dir \in {"next", "last"} : Navigate(dir)
           \/ Move \/ MoveGone \/ Look \/ NavigationFails
    PROVE  ReaderTypeOK'
<1>1. ASSUME NEW g \in Groups, Group(g)
      PROVE  ReaderTypeOK'
  <2>1. cmd' \in Cmd /\ view' = view
    BY <1>1, IdleType DEF Group, Reply, Cmd
  <2>2. QED
    BY <1>1, <2>1 DEF Group, Stay, ReaderTypeOK, Here
<1>2. CASE SelectGroup
  <2>1. PICK n \in Sent : /\ session' = [group |-> cmd.group, article |-> n]
                          /\ WalkFrom(n)
                          /\ Reply([group |-> cmd.group, article |-> n])
    BY <1>2 DEF SelectGroup
  <2>2. cmd.group \in Groups
    BY <1>2 DEF SelectGroup, ReaderTypeOK, Here, Cmd
  <2>3. session' \in Position /\ session'.group # NoGroup /\ view' = session'
    BY <2>1, <2>2, ReaderAssumption DEF Position, Reply
  <2>4. QED
    BY <1>2, <2>1, <2>3, IdleType DEF SelectGroup, WalkFrom, Reply, ReaderTypeOK, Here
<1>3. ASSUME NEW dir \in {"next", "last"}, Navigate(dir)
      PROVE  ReaderTypeOK'
  <2>1. cmd' \in Cmd /\ view' = view
    BY <1>3, IdleType DEF Navigate, Reply, Cmd
  <2>2. QED
    BY <1>3, <2>1 DEF Navigate, Stay, ReaderTypeOK, Here
<1>4. CASE Move
  <2>1. /\ cmd.to \in Sent /\ session.group # NoGroup
        /\ [group |-> session.group, number |-> cmd.to] \in rows
    BY <1>4, FoundRow, NumberTypes DEF Move
  <2>2. session' \in Position /\ session'.group # NoGroup /\ view' = session'
    BY <1>4, <2>1, SetCurrentType DEF Move, SetCurrent, Reply
  <2>3. shown' \subseteq rows /\ late' \subseteq rows /\ start' \in Sent
    BY <1>4, <2>1 DEF Move, WalkFrom, ReaderTypeOK, Here
  <2>4. QED
    BY <1>4, <2>2, <2>3, IdleType DEF Move, Reply, ReaderTypeOK, Here
<1>5. CASE MoveGone \/ Look \/ NavigationFails
  BY <1>5, TypeReplies DEF MoveGone, Look, NavigationFails
<1>6. QED
  BY <1>1, <1>2, <1>3, <1>4, <1>5

LEMMA TypeFetches ==
    ASSUME ReaderTypeOK,
           \/ \E verb \in Verb, a \in Sent, b \in Sent \cup {Open} : Fetch(verb, a, b)
           \/ FetchOne \/ SendFetched \/ SendStops \/ FetchFails
    PROVE  ReaderTypeOK'
<1>1. ASSUME NEW verb \in Verb, NEW a \in Sent, NEW b \in Sent \cup {Open},
             Fetch(verb, a, b)
      PROVE  ReaderTypeOK'
  <2>1. ParseRange(a, b) \in SUBSET Sent
    BY ParseRangeType
  <2>2. cmd' \in Cmd /\ view' = view
    BY <1>1, <2>1, IdleType DEF Fetch, Reply, Cmd
  <2>3. steady' \subseteq rows
    BY <1>1 DEF Fetch, Asked, ReaderTypeOK, Here
  <2>4. QED
    BY <1>1, <2>2, <2>3 DEF Fetch, Stay, ReaderTypeOK, Here
<1>2. CASE FetchOne
  <2>1. cmd \in FetchCmd /\ cmd.todo \subseteq Sent /\ cmd.got \subseteq Numbers
    BY <1>2, FetchRecord DEF FetchOne
  <2>2. PICK n \in cmd.todo :
          \/ /\ Found(session.group, n)
             /\ cmd' = [cmd EXCEPT !.todo = @ \ {n}, !.got = @ \cup {n}]
             /\ IF Moves(cmd.verb) THEN SetCurrent(n) /\ WalkFrom(n) ELSE Stay
          \/ /\ ~Found(session.group, n)
             /\ cmd' = [cmd EXCEPT !.todo = @ \ {n}]
             /\ Stay
    BY <1>2 DEF FetchOne
  <2>3. CASE ~Found(session.group, n)
    <3>1. cmd' \in FetchCmd
      BY <2>1, <2>2, <2>3 DEF FetchCmd
    <3>2. cmd' \in Cmd
      BY <3>1 DEF FetchCmd, Cmd
    <3>3. QED
      BY <1>2, <2>2, <2>3, <3>2 DEF FetchOne, Stay, ReaderTypeOK, Here
  <2>4. CASE Found(session.group, n)
    <3>1. n \in Numbers /\ n \in Sent /\ session.group # NoGroup
      BY <2>4, FoundRow, NumberTypes
    <3>2. cmd.todo \ {n} \in SUBSET Sent /\ cmd.got \cup {n} \in SUBSET Numbers
      BY <2>1, <3>1
    <3>3. cmd' \in FetchCmd
      BY <2>1, <2>2, <2>4, <3>2 DEF FetchCmd
    <3>4. cmd' \in Cmd
      BY <3>3 DEF FetchCmd, Cmd
    <3>5. CASE Moves(cmd.verb)
      <4>1. session' \in Position /\ session'.group # NoGroup
        BY <2>2, <2>4, <3>1, <3>5, SetCurrentType DEF SetCurrent
      <4>2. QED
        BY <1>2, <2>2, <2>4, <3>1, <3>4, <3>5, <4>1
           DEF FetchOne, WalkFrom, ReaderTypeOK, Here
    <3>6. CASE ~Moves(cmd.verb)
      BY <1>2, <2>2, <2>4, <3>4, <3>6 DEF FetchOne, Stay, ReaderTypeOK, Here
    <3>7. QED
      BY <3>5, <3>6
  <2>5. QED
    BY <2>3, <2>4
<1>3. CASE SendFetched
  <2>1. CASE Reply(view)
    BY <1>3, <2>1, TypeReplies DEF SendFetched
  <2>2. CASE \E n \in cmd.got : Reply([session EXCEPT !.article = n])
    <3>1. PICK n \in cmd.got : Reply([session EXCEPT !.article = n])
      BY <2>2
    <3>2. n \in Sent
      BY <1>3, FetchRecord, NumberTypes DEF SendFetched
    <3>3. view' \in Position /\ cmd' = Idle
      BY <3>1, <3>2 DEF Reply, ReaderTypeOK, Here, Position
    <3>4. QED
      BY <1>3, <3>3, IdleType DEF SendFetched, Stay, ReaderTypeOK, Here
  <2>3. QED
    BY <1>3, <2>1, <2>2 DEF SendFetched
<1>4. CASE SendStops
  BY <1>4, IdleType DEF SendStops, Reply, Stay, ReaderTypeOK, Here
<1>5. CASE FetchFails
  <2>1. cmd' = Idle /\ view' \in {Unknown, view}
    BY <1>5 DEF FetchFails, Reply
  <2>2. QED
    BY <1>5, <2>1, IdleType DEF FetchFails, Stay, ReaderTypeOK, Here
<1>6. QED
  BY <1>1, <1>2, <1>3, <1>4, <1>5

LEMMA TypeOthers ==
    ASSUME ReaderTypeOK,
           \/ \E r \in Row : StoreRow(r)
           \/ \E S \in SUBSET rows : DeleteRows(S)
           \/ \E g \in Groups : ChangeGroups(g)
    PROVE  ReaderTypeOK'
<1>1. ASSUME NEW r \in Row, StoreRow(r)
      PROVE  ReaderTypeOK'
  BY <1>1 DEF StoreRow, ReaderTypeOK, Here
<1>2. ASSUME NEW S \in SUBSET rows, DeleteRows(S)
      PROVE  ReaderTypeOK'
  BY <1>2 DEF DeleteRows, ReaderTypeOK, Here
<1>3. ASSUME NEW g \in Groups, ChangeGroups(g)
      PROVE  ReaderTypeOK'
  BY <1>3 DEF ChangeGroups, ReaderTypeOK, Here
<1>4. QED
  BY <1>1, <1>2, <1>3

LEMMA TypeNext ==
    ASSUME ReaderTypeOK, [ReaderNext]_readerVars
    PROVE  ReaderTypeOK'
<1>1. CASE UNCHANGED readerVars
  BY <1>1 DEF readerVars, ReaderTypeOK, Here
<1>2. QED
  BY <1>1, TypeNavigation, TypeFetches, TypeOthers DEF ReaderNext

LEMMA InvInit ==
    ASSUME ReaderInit
    PROVE  ReaderInv
<1>1. ReaderTypeOK
  BY IdleType, NumberTypes DEF ReaderInit, ReaderTypeOK, Here, Position
<1>2. start <= Here /\ WalkComplete /\ AheadLate /\ FetchOrdered /\ ViewCurrent
  BY IdleType DEF ReaderInit, Here, WalkComplete, AheadLate, FetchOrdered, ViewCurrent
<1>3. QED
  BY <1>1, <1>2 DEF ReaderInv

(***************************************************************************)
(* The session, its command and the tables always have their types: no     *)
(* article number 0, and no current article without a group.               *)
(***************************************************************************)
THEOREM ReaderTypeCorrect == ReaderSpec => []ReaderTypeOK
<1>1. ReaderTypeOK /\ [ReaderNext]_readerVars => ReaderTypeOK'
  BY TypeNext
<1>2. ReaderInit => ReaderTypeOK
  BY InvInit DEF ReaderInv
<1>3. QED
  BY <1>1, <1>2, PTL DEF ReaderSpec

-----------------------------------------------------------------------------
(* The walk. *)

WalkInv == start <= Here /\ WalkComplete /\ AheadLate

LEMMA PositionTypes ==
    ASSUME ReaderTypeOK
    PROVE  Here \in Nat /\ start \in Nat /\ Here \in Sent /\ session \in Position
<1>1. Here \in Sent /\ start \in Sent /\ session \in Position
  BY DEF ReaderTypeOK, Here, Position
<1>2. QED
  BY <1>1, NumberTypes

(* Steps that leave the tables and the walk alone and are not in a NEXT. *)
LEMMA WalkStays ==
    ASSUME ReaderTypeOK, WalkInv, Stay, UNCHANGED rows, cmd'.pc # "move"
    PROVE  WalkInv'
  BY DEF WalkInv, Stay, Here, WalkComplete, AheadLate

(* A new walk has passed nothing yet. *)
LEMMA WalkBegins ==
    ASSUME NEW n \in Sent, WalkFrom(n), session'.article = n, cmd'.pc # "move",
           rows' \subseteq Row
    PROVE  WalkInv'
<1>1. start' = n /\ Here' = n /\ n \in Nat
  BY NumberTypes DEF WalkFrom, Here
<1>2. \A r \in rows' : ~(n < r.number /\ r.number <= n)
  <2>1. \A r \in rows' : r.number \in Nat
    BY NumberTypes DEF Row
  <2>2. QED
    BY <1>1, <2>1
<1>3. QED
  BY <1>1, <1>2 DEF WalkInv, WalkComplete, AheadLate

LEMMA WalkNavigate ==
    ASSUME ReaderTypeOK, WalkInv, NEW dir \in {"next", "last"}, Navigate(dir)
    PROVE  WalkInv'
<1>1. CASE cmd' = Idle
  BY <1>1, WalkStays, IdleType DEF Navigate
<1>2. ASSUME NEW n \in Numbers, Neighbour(dir, n),
             cmd' = [pc |-> "move", dir |-> dir, to |-> n]
      PROVE  WalkInv'
  <2>1. UNCHANGED <<session, shown, start, late, rows>>
    BY DEF Navigate, Stay
  <2>2. CASE dir = "last"
    BY <1>2, <2>1, <2>2 DEF WalkInv, Here, WalkComplete, AheadLate
  <2>3. CASE dir = "next"
    <3>1. IsFirst(n, {m \in NumbersOf(session.group) : m > Here})
      BY <1>2, <2>3 DEF Neighbour
    <3>2. n > Here /\ \A m \in NumbersOf(session.group) : m > Here => n <= m
      BY <3>1 DEF IsFirst
    <3>3. Here < n
      BY <3>2, PositionTypes, NumberTypes
    <3>4. ASSUME NEW r \in rows, r.group = session.group, start < r.number,
                 r.number < n
          PROVE  r \in shown \cup late
      <4>1. r.number \in NumbersOf(session.group) /\ r.number \in Nat
        BY <3>4, RowFound, NumberTypes
      <4>2. r.number <= Here
        BY <3>2, <3>4, <4>1, PositionTypes, NumberTypes
      <4>3. QED
        BY <3>4, <4>2 DEF WalkInv, WalkComplete
    <3>5. QED
      BY <1>2, <2>1, <3>3, <3>4 DEF WalkInv, Here, WalkComplete, AheadLate
  <2>4. QED
    BY <2>2, <2>3
<1>3. QED
  BY <1>1, <1>2 DEF Navigate, Reply

LEMMA WalkMove ==
    ASSUME ReaderTypeOK, WalkInv, Move
    PROVE  WalkInv'
<1>1. /\ cmd.to \in Sent /\ cmd.to \in Nat /\ session.group # NoGroup
      /\ cmd.dir \in {"next", "last"} /\ cmd.pc = "move"
  BY FoundRow, NumberTypes, MoveRecord DEF Move
<1>2. /\ session'.group = session.group /\ session'.article = cmd.to
      /\ cmd' = Idle /\ UNCHANGED rows
  BY <1>1, SetCurrentType DEF Move, SetCurrent, Reply
<1>3. CASE cmd.dir = "last"
  <2>1. WalkFrom(cmd.to) /\ rows' \subseteq Row /\ cmd'.pc # "move"
    BY <1>2, <1>3, IdleType DEF Move, ReaderTypeOK
  <2>2. QED
    BY <1>1, <1>2, <2>1, WalkBegins
<1>4. CASE cmd.dir = "next"
  <2>1. /\ Here < cmd.to /\ UNCHANGED <<start, late>> /\ Here' = cmd.to
        /\ shown' = shown \cup {[group |-> session.group, number |-> cmd.to]}
    BY <1>1, <1>2, <1>4 DEF Move, WalkInv, AheadLate, Here
  <2>2. start' <= Here'
    BY <1>1, <2>1, PositionTypes DEF WalkInv
  <2>3. ASSUME NEW r \in rows, r.group = session.group, start < r.number,
               r.number <= cmd.to
        PROVE  r \in shown' \cup late
    <3>1. r = [group |-> session.group, number |-> r.number] /\ r.number \in Nat
      BY <2>3, RowFound, NumberTypes
    <3>2. CASE r.number = cmd.to
      BY <2>1, <3>1, <3>2
    <3>3. CASE r.number # cmd.to
      <4>1. r.number < cmd.to
        BY <1>1, <2>3, <3>1, <3>3
      <4>2. QED
        BY <1>1, <1>4, <2>1, <2>3, <4>1 DEF WalkInv, AheadLate
    <3>4. QED
      BY <3>2, <3>3
  <2>4. QED
    BY <1>2, <2>1, <2>2, <2>3, IdleType DEF WalkInv, WalkComplete, AheadLate
<1>5. QED
  BY <1>1, <1>3, <1>4

LEMMA WalkFetchOne ==
    ASSUME ReaderTypeOK, WalkInv, FetchOne
    PROVE  WalkInv'
<1>1. cmd \in FetchCmd /\ cmd.todo \subseteq Sent
  BY FetchRecord DEF FetchOne
<1>2. cmd'.pc # "move" /\ UNCHANGED rows
  BY <1>1 DEF FetchOne, FetchCmd
<1>3. CASE Stay
  BY <1>2, <1>3, WalkStays
<1>4. ASSUME NEW n \in cmd.todo, Found(session.group, n), SetCurrent(n), WalkFrom(n)
      PROVE  WalkInv'
  <2>1. n \in Sent /\ session.group # NoGroup
    BY <1>1, <1>4, FoundRow
  <2>2. session'.article = n /\ rows' \subseteq Row
    BY <1>2, <1>4, <2>1, SetCurrentType DEF SetCurrent, ReaderTypeOK
  <2>3. QED
    BY <1>2, <1>4, <2>1, <2>2, WalkBegins
<1>5. QED
  BY <1>3, <1>4 DEF FetchOne

LEMMA WalkStore ==
    ASSUME ReaderTypeOK, WalkInv, NEW r \in Row, StoreRow(r)
    PROVE  WalkInv'
<1>1. /\ UNCHANGED <<session, cmd, shown, start>> /\ rows' = rows \cup {r}
      /\ late \subseteq late' /\ r.number \in Nat
      /\ (r.group = session.group /\ start < r.number /\ r.number <= Reach)
             => r \in late'
  BY NumberTypes DEF StoreRow, Row
<1>2. Here <= Reach
  <2>1. CASE cmd.pc = "move" /\ cmd.dir = "next"
    <3>1. Reach = cmd.to /\ Here < cmd.to /\ cmd.to \in Nat
      BY <2>1, MoveRecord, NumberTypes DEF Reach, WalkInv, AheadLate
    <3>2. QED
      BY <3>1, PositionTypes
  <2>2. CASE ~(cmd.pc = "move" /\ cmd.dir = "next")
    BY <2>2, PositionTypes DEF Reach
  <2>3. QED
    BY <2>1, <2>2
<1>3. Reach \in Nat
  BY PositionTypes, MoveRecord, NumberTypes DEF Reach
<1>4. WalkComplete'
  <2>1. ASSUME NEW q \in rows', q.group = session.group, start < q.number,
               q.number <= Here
        PROVE  q \in shown \cup late'
    <3>1. CASE q = r
      <4>1. r.number <= Reach
        BY <1>1, <1>2, <1>3, <2>1, <3>1, PositionTypes
      <4>2. QED
        BY <1>1, <2>1, <3>1, <4>1
    <3>2. CASE q \in rows
      BY <1>1, <2>1, <3>2 DEF WalkInv, WalkComplete
    <3>3. QED
      BY <1>1, <3>1, <3>2
  <2>2. QED
    BY <1>1, <2>1 DEF WalkComplete, Here
<1>5. AheadLate'
  <2>1. ASSUME cmd.pc = "move", cmd.dir = "next", NEW q \in rows',
               q.group = session.group, start < q.number, q.number < cmd.to
        PROVE  q \in shown \cup late'
    <3>1. Reach = cmd.to /\ cmd.to \in Nat
      BY <2>1, MoveRecord, NumberTypes DEF Reach
    <3>2. CASE q = r
      BY <1>1, <2>1, <3>1, <3>2
    <3>3. CASE q \in rows
      BY <1>1, <2>1, <3>3 DEF WalkInv, AheadLate
    <3>4. QED
      BY <1>1, <3>2, <3>3
  <2>2. QED
    BY <1>1, <2>1 DEF AheadLate, Here, WalkInv
<1>6. QED
  BY <1>1, <1>4, <1>5 DEF WalkInv, Here

LEMMA WalkNext ==
    ASSUME ReaderTypeOK, WalkInv, [ReaderNext]_readerVars
    PROVE  WalkInv'
<1>1. CASE UNCHANGED readerVars
  BY <1>1 DEF readerVars, WalkInv, Here, WalkComplete, AheadLate
<1>2. CASE \E g \in Groups : Group(g)
  BY <1>2, WalkStays, IdleType DEF Group, Reply
<1>3. CASE SelectGroup
  <2>1. PICK n \in Sent : session' = [group |-> cmd.group, article |-> n] /\ WalkFrom(n)
    BY <1>3 DEF SelectGroup
  <2>2. session'.article = n /\ cmd'.pc # "move" /\ rows' \subseteq Row
    BY <1>3, <2>1, IdleType DEF SelectGroup, Reply, ReaderTypeOK
  <2>3. QED
    BY <2>1, <2>2, WalkBegins
<1>4. CASE \E dir \in {"next", "last"} : Navigate(dir)
  BY <1>4, WalkNavigate
<1>5. CASE Move
  BY <1>5, WalkMove
<1>6. CASE MoveGone \/ Look \/ NavigationFails
  BY <1>6, WalkStays, IdleType DEF MoveGone, Look, NavigationFails, Reply
<1>7. CASE \E verb \in Verb, a \in Sent, b \in Sent \cup {Open} : Fetch(verb, a, b)
  BY <1>7, WalkStays, IdleType DEF Fetch, Reply
<1>8. CASE FetchOne
  BY <1>8, WalkFetchOne
<1>9. CASE SendFetched \/ SendStops \/ FetchFails
  BY <1>9, WalkStays, IdleType DEF SendFetched, SendStops, FetchFails, Reply
<1>10. CASE \E r \in Row : StoreRow(r)
  BY <1>10, WalkStore
<1>11. CASE \E S \in SUBSET rows : DeleteRows(S)
  BY <1>11 DEF DeleteRows, WalkInv, Here, WalkComplete, AheadLate
<1>12. CASE \E g \in Groups : ChangeGroups(g)
  BY <1>12 DEF ChangeGroups, WalkInv, Here, WalkComplete, AheadLate
<1>13. QED
  BY <1>1, <1>2, <1>3, <1>4, <1>5, <1>6, <1>7, <1>8, <1>9, <1>10, <1>11, <1>12
     DEF ReaderNext

(***************************************************************************)
(* A walk with NEXT shows every article of the group that did not come in  *)
(* behind it, although articles are deleted and their numbers reused       *)
(* between its statements.                                                 *)
(***************************************************************************)
THEOREM WalksComplete == ReaderSpec => []WalkComplete
<1>1. ReaderTypeOK /\ WalkInv /\ [ReaderNext]_readerVars => (ReaderTypeOK /\ WalkInv)'
  BY TypeNext, WalkNext
<1>2. ReaderInit => ReaderTypeOK /\ WalkInv
  BY InvInit DEF ReaderInv, WalkInv
<1>3. WalkInv => WalkComplete
  BY DEF WalkInv
<1>4. QED
  BY <1>1, <1>2, <1>3, PTL DEF ReaderSpec

-----------------------------------------------------------------------------
(* Ranges, and what the client knows. *)

LEMMA ReplySettles ==
    ASSUME NEW p, Reply(p), p # Unknown => p = session'
    PROVE  (FetchOrdered /\ ViewCurrent)'
  BY IdleType DEF Reply, FetchOrdered, ViewCurrent

(* A step that leaves the session, the command and the view alone. *)
LEMMA OthersSettle ==
    ASSUME FetchOrdered, ViewCurrent, UNCHANGED <<session, cmd, view>>,
           steady' \subseteq steady
    PROVE  (FetchOrdered /\ ViewCurrent)'
  BY DEF FetchOrdered, ViewCurrent, Settled, Here

LEMMA FetchStarts ==
    ASSUME ReaderTypeOK, FetchOrdered, ViewCurrent, NEW verb \in Verb,
           NEW a \in Sent, NEW b \in Sent \cup {Open}, Fetch(verb, a, b)
    PROVE  (FetchOrdered /\ ViewCurrent)'
<1>1. ViewCurrent /\ UNCHANGED session /\ (view # Unknown => view = session)
  BY IdleType DEF Fetch, Stay, ViewCurrent, Settled
<1>2. CASE Reply(view)
  BY <1>1, <1>2, ReplySettles
<1>3. CASE /\ cmd' = [pc |-> "fetch", verb |-> verb, todo |-> ParseRange(a, b),
                      got |-> {}]
           /\ steady' = Asked(a, b) /\ UNCHANGED view
  <2>1. cmd'.got = {} /\ cmd'.todo = ParseRange(a, b) /\ cmd'.pc = "fetch"
    BY <1>3
  <2>2. ASSUME NEW r \in Asked(a, b)
        PROVE  r.group = session.group /\ r.number \in ParseRange(a, b)
    <3>1. /\ r \in rows /\ r.group = session.group /\ r.number \in a .. b
          /\ r.number \in NumbersOf(session.group)
      BY <2>2, RowFound DEF Asked
    <3>2. a <= r.number
      BY <3>1, NumberTypes DEF Open
    <3>3. QED
      BY <3>1, <3>2 DEF ParseRange
  <2>3. FetchOrdered'
    BY <1>1, <1>3, <2>1, <2>2 DEF FetchOrdered
  <2>4. QED
    BY <1>1, <1>3, <2>3 DEF ViewCurrent
<1>4. QED
  BY <1>2, <1>3 DEF Fetch

LEMMA FetchContinues ==
    ASSUME ReaderTypeOK, FetchOrdered, ViewCurrent, FetchOne
    PROVE  (FetchOrdered /\ ViewCurrent)'
<1>1. /\ cmd \in FetchCmd /\ cmd.todo \subseteq Sent /\ cmd.got \subseteq Numbers
      /\ cmd.pc = "fetch" /\ UNCHANGED <<view, steady>>
  BY FetchRecord DEF FetchOne
<1>2. PICK n \in cmd.todo :
        /\ IsFirst(n, cmd.todo)
        /\ \/ /\ Found(session.group, n)
              /\ cmd' = [cmd EXCEPT !.todo = @ \ {n}, !.got = @ \cup {n}]
              /\ IF Moves(cmd.verb) THEN SetCurrent(n) /\ WalkFrom(n) ELSE Stay
           \/ /\ ~Found(session.group, n)
              /\ cmd' = [cmd EXCEPT !.todo = @ \ {n}]
              /\ Stay
  BY DEF FetchOne
<1>3. /\ n \in Nat /\ \A m \in cmd.todo : m \in Nat /\ n <= m
      /\ \A m \in cmd.got : m \in Nat /\ m < n
      /\ \A m \in cmd.todo \ {n} : n < m
  BY <1>1, <1>2, NumberTypes DEF IsFirst, FetchOrdered
<1>4. CASE ~Found(session.group, n)
  <2>1. /\ cmd'.todo = cmd.todo \ {n} /\ cmd'.got = cmd.got /\ cmd'.verb = cmd.verb
        /\ UNCHANGED session /\ cmd'.pc = "fetch"
    BY <1>1, <1>2, <1>4 DEF FetchCmd, Stay
  <2>2. \A r \in steady : r.number # n
    BY <1>1, <1>4, RowFound DEF FetchOrdered, ReaderTypeOK
  <2>3. FetchOrdered'
    BY <1>1, <2>1, <2>2 DEF FetchOrdered, Here
  <2>4. QED
    BY <1>1, <2>1, <2>3 DEF ViewCurrent, Settled
<1>5. CASE Found(session.group, n)
  <2>1. /\ cmd'.todo = cmd.todo \ {n} /\ cmd'.got = cmd.got \cup {n}
        /\ cmd'.verb = cmd.verb /\ cmd'.pc = "fetch"
    BY <1>1, <1>2, <1>5 DEF FetchCmd
  <2>2. \A k \in cmd'.got, m \in cmd'.todo : k < m
    BY <1>1, <1>3, <2>1, NumberTypes
  <2>3. n \in Sent /\ session.group # NoGroup
    BY <1>1, <1>5, FoundRow
  <2>4. session'.group = session.group
    BY <1>2, <1>5, <2>3, SetCurrentType DEF SetCurrent, Stay
  <2>5. cmd'.verb # "HDR" => IsLast(Here', cmd'.got)
    <3>1. SUFFICES ASSUME cmd.verb # "HDR"
                   PROVE  IsLast(Here', cmd'.got)
      BY <2>1
    <3>2. Here' = n
      BY <1>2, <1>5, <2>3, <3>1, SetCurrentType DEF Moves, SetCurrent, Here
    <3>3. QED
      BY <1>3, <2>1, <3>2 DEF IsLast
  <2>6. FetchOrdered'
    BY <1>1, <2>1, <2>2, <2>4, <2>5 DEF FetchOrdered, IsLast
  <2>7. CASE cmd.verb = "HDR"
    <3>1. UNCHANGED session
      BY <1>2, <1>5, <2>7 DEF Moves, Stay
    <3>2. QED
      BY <1>1, <2>1, <2>6, <2>7, <3>1 DEF ViewCurrent, Settled
  <2>8. CASE cmd.verb # "HDR"
    BY <2>1, <2>6, <2>8 DEF ViewCurrent, Settled
  <2>9. QED
    BY <2>7, <2>8
<1>6. QED
  BY <1>4, <1>5

LEMMA FetchEnds ==
    ASSUME ReaderTypeOK, FetchOrdered, ViewCurrent,
           SendFetched \/ SendStops \/ FetchFails
    PROVE  (FetchOrdered /\ ViewCurrent)'
<1>1. UNCHANGED session /\ cmd.pc = "fetch"
  BY DEF SendFetched, SendStops, FetchFails, Stay
<1>2. CASE SendFetched
  <2>1. CASE Reply(view) /\ (cmd.got = {} \/ cmd.verb = "HDR")
    BY <1>1, <2>1, ReplySettles DEF ViewCurrent, Settled
  <2>2. ASSUME NEW n \in cmd.got, IsLast(n, cmd.got), cmd.verb # "HDR",
               Reply([session EXCEPT !.article = n])
        PROVE  (FetchOrdered /\ ViewCurrent)'
    <3>1. n = Here
      <4>1. IsLast(Here, cmd.got) /\ n \in Nat
        BY <1>1, <2>2, FetchRecord, NumberTypes DEF FetchOrdered
      <4>2. QED
        BY <2>2, <4>1, PositionTypes DEF IsLast
    <3>2. [session EXCEPT !.article = n] = session
      BY <3>1, PositionTypes DEF Here, Position
    <3>3. QED
      BY <1>1, <2>2, <3>2, ReplySettles
  <2>3. QED
    BY <1>2, <2>1, <2>2 DEF SendFetched
<1>3. CASE SendStops
  BY <1>1, <1>3, ReplySettles DEF SendStops
<1>4. CASE FetchFails
  <2>1. CASE cmd.got # {} /\ cmd.verb # "HDR"
    BY <1>1, <1>4, <2>1, ReplySettles DEF FetchFails
  <2>2. CASE ~(cmd.got # {} /\ cmd.verb # "HDR")
    BY <1>1, <1>4, <2>2, ReplySettles DEF FetchFails, ViewCurrent, Settled
  <2>3. QED
    BY <2>1, <2>2
<1>5. QED
  BY <1>2, <1>3, <1>4

LEMMA FetchNext ==
    ASSUME ReaderTypeOK, FetchOrdered, ViewCurrent, [ReaderNext]_readerVars
    PROVE  (FetchOrdered /\ ViewCurrent)'
<1>1. CASE UNCHANGED readerVars
  BY <1>1, OthersSettle DEF readerVars
<1>2. ASSUME Stay, cmd.pc # "fetch", Reply(view)
      PROVE  (FetchOrdered /\ ViewCurrent)'
  BY <1>2, ReplySettles DEF Stay, ViewCurrent, Settled
<1>3. ASSUME Stay, cmd.pc # "fetch", UNCHANGED view, cmd'.pc # "fetch"
      PROVE  (FetchOrdered /\ ViewCurrent)'
  BY <1>3 DEF Stay, ViewCurrent, Settled, FetchOrdered
<1>4. CASE \E g \in Groups : Group(g)
  BY <1>2, <1>3, <1>4, IdleType DEF Group
<1>5. CASE SelectGroup
  BY <1>5, ReplySettles DEF SelectGroup
<1>6. CASE \E dir \in {"next", "last"} : Navigate(dir)
  BY <1>2, <1>3, <1>6, IdleType DEF Navigate
<1>7. CASE Move
  BY <1>7, ReplySettles DEF Move, SetCurrent
<1>8. CASE MoveGone \/ Look \/ NavigationFails
  BY <1>2, <1>8, IdleType DEF MoveGone, Look, NavigationFails
<1>9. CASE \E verb \in Verb, a \in Sent, b \in Sent \cup {Open} : Fetch(verb, a, b)
  BY <1>9, FetchStarts
<1>10. CASE FetchOne
  BY <1>10, FetchContinues
<1>11. CASE SendFetched \/ SendStops \/ FetchFails
  BY <1>11, FetchEnds
<1>12. CASE \/ \E r \in Row : StoreRow(r)
            \/ \E S \in SUBSET rows : DeleteRows(S)
            \/ \E g \in Groups : ChangeGroups(g)
  BY <1>12, OthersSettle DEF StoreRow, DeleteRows, ChangeGroups
<1>13. QED
  BY <1>1, <1>4, <1>5, <1>6, <1>7, <1>8, <1>9, <1>10, <1>11, <1>12 DEF ReaderNext

(***************************************************************************)
(* Between commands the session is where its replies said it is, unless    *)
(* the reply that would have said so was cut short.                        *)
(***************************************************************************)
THEOREM ClientAlwaysAgrees == ReaderSpec => []ClientAgrees
<1>1. /\ ReaderTypeOK /\ FetchOrdered /\ ViewCurrent /\ [ReaderNext]_readerVars
      => (ReaderTypeOK /\ FetchOrdered /\ ViewCurrent)'
  BY TypeNext, FetchNext
<1>2. ReaderInit => ReaderTypeOK /\ FetchOrdered /\ ViewCurrent
  BY InvInit DEF ReaderInv
<1>3. ViewCurrent => ClientAgrees
  BY IdleType DEF ViewCurrent, Settled, ClientAgrees
<1>4. QED
  BY <1>1, <1>2, <1>3, PTL DEF ReaderSpec

(***************************************************************************)
(* A range read number by number holds every article that was there from   *)
(* the beginning of the command to its end.                                *)
(***************************************************************************)
THEOREM RangesComplete == ReaderSpec => []RangeComplete
<1>1. /\ ReaderTypeOK /\ FetchOrdered /\ ViewCurrent /\ [ReaderNext]_readerVars
      => (ReaderTypeOK /\ FetchOrdered /\ ViewCurrent)'
  BY TypeNext, FetchNext
<1>2. ReaderInit => ReaderTypeOK /\ FetchOrdered /\ ViewCurrent
  BY InvInit DEF ReaderInv
<1>3. FetchOrdered => RangeComplete
  BY DEF FetchOrdered, RangeComplete
<1>4. QED
  BY <1>1, <1>2, <1>3, PTL DEF ReaderSpec
=============================================================================
