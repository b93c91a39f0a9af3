----------------------- MODULE ConnectionLimitsProofs -----------------------
(***************************************************************************)
(* Proofs about ConnectionLimits, for any number of users, connections and *)
(* logins and any width of the counters.                                   *)
(***************************************************************************)
EXTENDS ConnectionLimits, FiniteSetTheorems, TLAPS

LEMMA DecrementedType ==
    ASSUME NEW v \in Int
    PROVE  Decremented(v) \in 0 .. Modulus - 1
  BY LimitAssumption DEF Decremented

LEMMA DecrementedValue ==
    ASSUME NEW v \in 1 .. Modulus - 1
    PROVE  Decremented(v) = v - 1
  BY LimitAssumption DEF Decremented

LEMMA FreshType == Fresh \in Conn /\ Fresh.pc = "closed"
  BY LimitAssumption DEF Fresh, Conn

(* The step of one connection touches only its own record. *)
LEMMA GoType ==
    ASSUME LimitTypeOK, NEW s \in Conns, NEW c \in Conn,
           conn' = [conn EXCEPT ![s] = c]
    PROVE  conn' \in [Conns -> Conn]
  BY DEF LimitTypeOK

LEMMA SpendType ==
    ASSUME LimitTypeOK, NEW what \in {"logins", "errors"}, NEW bound,
           Spend(what, bound)
    PROVE  spent' \in [{"logins", "errors"} -> Nat]
  BY DEF LimitTypeOK, Spend

LEMMA ValueType ==
    ASSUME LimitTypeOK, NEW u \in Users
    PROVE  Value(u) \in 0 .. Modulus - 1 /\ (count[u] # NoEntry => Value(u) = count[u])
  BY LimitAssumption DEF LimitTypeOK, Value

LEMMA AbandonsType ==
    ASSUME LimitTypeOK, NEW s \in Conns
    PROVE  Abandons(s) \subseteq Users
  BY DEF LimitTypeOK, Abandons

(* The steps of the client and of the session loop. *)
LEMMA TypeSession ==
    ASSUME LimitTypeOK, NEW s \in Conns, SessionStep(s) \/ ClientStep(s)
    PROVE  LimitTypeOK'
<1>0. conn \in [Conns -> Conn] /\ conn[s] \in Conn /\ slot \in [Conns -> {NoUser} \cup Users]
        /\ Abandons(s) \subseteq Users
  BY AbandonsType DEF LimitTypeOK
<1>1. ASSUME NEW pc \in {"open", "article", "connect", "close"}, Go(s, pc)
      PROVE  conn' \in [Conns -> Conn]
  BY <1>0, <1>1 DEF Go, Conn
<1>2. CASE Accept(s)
  <2>1. conn' \in [Conns -> Conn]
    BY <1>0, <1>2, FreshType DEF Accept, Conn
  <2>2. QED
    BY <1>2, <2>1 DEF Accept, MapUnchanged, LimitTypeOK, Input
<1>3. CASE Hangup(s)
  BY <1>3 DEF Hangup, MapUnchanged, LimitTypeOK, Input
<1>4. CASE Lost(s)
  <2>1. spent' \in [{"logins", "errors"} -> Nat]
    BY <1>4, SpendType DEF Lost
  <2>2. QED
    BY <1>4, <2>1 DEF Lost, MapUnchanged, LimitTypeOK, Input
<1>5. CASE BridgeEnds(s)
  BY <1>5 DEF BridgeEnds, MapUnchanged, LimitTypeOK
<1>6. CASE Greet(s) \/ BeginArticle(s) \/ EndArticle(s)
  <2>1. conn' \in [Conns -> Conn]
    BY <1>1, <1>6 DEF Greet, BeginArticle, EndArticle
  <2>2. QED
    BY <1>6, <2>1 DEF Greet, BeginArticle, EndArticle, MapUnchanged,
                      PeerUnchanged, LimitTypeOK
<1>7. ASSUME NEW u \in Users, AuthUser(s, u)
      PROVE  LimitTypeOK'
  <2>1. conn' \in [Conns -> Conn]
    BY <1>0, <1>7 DEF AuthUser, Conn
  <2>2. QED
    BY <1>7, <2>1 DEF AuthUser, MapUnchanged, PeerUnchanged, LimitTypeOK
<1>8. CASE AuthPass(s)
  <2>1. spent' \in [{"logins", "errors"} -> Nat]
    BY <1>8, SpendType DEF AuthPass
  <2>2. conn' \in [Conns -> Conn]
    BY <1>0, <1>1, <1>8 DEF AuthPass, Authenticate, Conn
  <2>3. QED
    BY <1>8, <2>1, <2>2 DEF AuthPass, MapUnchanged, PeerUnchanged, LimitTypeOK
<1>9. CASE Leave(s)
  <2>1. conn' \in [Conns -> Conn]
    BY <1>0, <1>1, <1>9, FreshType, GoType DEF Leave
  <2>2. QED
    BY <1>0, <1>9, <2>1 DEF Leave, MapUnchanged, PeerUnchanged, LimitTypeOK
<1>10. CASE Break(s)
  <2>1. conn' \in [Conns -> Conn]
    BY <1>10, FreshType, GoType DEF Break
  <2>2. QED
    BY <1>0, <1>10, <2>1 DEF Break, MapUnchanged, PeerUnchanged, LimitTypeOK
<1>11. QED
  BY <1>2, <1>3, <1>4, <1>5, <1>6, <1>7, <1>8, <1>9, <1>10
     DEF SessionStep, ClientStep, EndOfInput, IdleTimeout, Quit

(* The steps of the tracker; a session in one of them has a name. *)
Named ==
    \A s \in Conns :
        conn[s].pc \in {"connect", "close", "drop", "remove", "put"}
          \/ conn[s].authenticated => conn[s].name \in Users

(* A counter that is out of the map leaves nothing to count behind, and    *)
(* only one close has it.                                                  *)
CarriedOnce ==
    \A u \in Users \ upset :
        Carried(u) # {} => Value(u) = 0 /\ \A s, t \in Carried(u) : s = t

LimitInv == LimitTypeOK /\ Named /\ CarriedOnce /\ SlotsExact

LEMMA TypeTracker ==
    ASSUME LimitTypeOK, Named, NEW s \in Conns, TrackerStep(s)
    PROVE  LimitTypeOK'
<1>0. /\ conn \in [Conns -> Conn] /\ conn[s] \in Conn
      /\ count \in [Users -> {NoEntry} \cup 0 .. Modulus - 1]
      /\ slot \in [Conns -> {NoUser} \cup Users]
      /\ Abandons(s) \subseteq Users
      /\ Name(s) \in Users
      /\ Value(Name(s)) \in 0 .. Modulus - 1
  <2>1. Name(s) \in Users
    BY DEF Named, TrackerStep, TryConnect, FetchSub, DropRef, Remove, PutBack,
           At, Name
  <2>2. QED
    BY <2>1, AbandonsType, ValueType DEF LimitTypeOK
<1>1. CASE TryConnect(s)
  <2>1. conn' \in [Conns -> Conn]
    BY <1>0, <1>1 DEF TryConnect, Go, Authenticate, Conn
  <2>2. count' \in [Users -> {NoEntry} \cup 0 .. Modulus - 1]
    <3>1. \/ count' = [count EXCEPT ![Name(s)] = Value(Name(s))]
          \/ /\ Value(Name(s)) < Limit[Name(s)]
             /\ count' = [count EXCEPT ![Name(s)] = Value(Name(s)) + 1]
      BY <1>1 DEF TryConnect
    <3>2. Value(Name(s)) < Limit[Name(s)] =>
              Value(Name(s)) + 1 \in 0 .. Modulus - 1
      BY <1>0, LimitAssumption
    <3>3. QED
      BY <1>0, <3>1, <3>2
  <2>3. slot' \in [Conns -> {NoUser} \cup Users] /\ upset' \subseteq Users
    BY <1>0, <1>1 DEF TryConnect, LimitTypeOK
  <2>4. QED
    BY <1>1, <2>1, <2>2, <2>3 DEF TryConnect, PeerUnchanged, LimitTypeOK
<1>2. CASE FetchSub(s)
  <2>1. slot' \in [Conns -> {NoUser} \cup Users] /\ upset' \subseteq Users
    BY <1>0, <1>2 DEF FetchSub, LimitTypeOK
  <2>2. CASE count[Name(s)] = NoEntry
    <3>1. conn' \in [Conns -> Conn]
      BY <1>0, <1>2, <2>2, FreshType DEF FetchSub, Closed
    <3>2. QED
      BY <1>2, <2>1, <2>2, <3>1 DEF FetchSub, MapUnchanged, PeerUnchanged,
                                    LimitTypeOK
  <2>3. CASE count[Name(s)] # NoEntry
    <3>1. count[Name(s)] \in 0 .. Modulus - 1
      BY <1>0, <2>3
    <3>2. Decremented(count[Name(s)]) \in 0 .. Modulus - 1
      BY <3>1, DecrementedType
    <3>3. count' \in [Users -> {NoEntry} \cup 0 .. Modulus - 1]
      BY <1>0, <1>2, <2>3, <3>2 DEF FetchSub
    <3>4. conn' \in [Conns -> Conn]
      BY <1>0, <1>2, <2>3, <3>1 DEF FetchSub, Conn
    <3>5. readers' \subseteq Conns
      BY <1>2, <2>3 DEF FetchSub, LimitTypeOK
    <3>6. QED
      BY <1>2, <2>1, <3>3, <3>4, <3>5 DEF FetchSub, PeerUnchanged, LimitTypeOK
  <2>4. QED
    BY <2>2, <2>3
<1>3. CASE DropRef(s)
  <2>1. conn' \in [Conns -> Conn]
    BY <1>0, <1>3, FreshType DEF DropRef, Go, Closed, Conn
  <2>2. QED
    BY <1>3, <2>1 DEF DropRef, PeerUnchanged, LimitTypeOK
<1>4. CASE Remove(s)
  <2>1. conn' \in [Conns -> Conn]
    <3>1. CASE Value(Name(s)) > 0
      BY <1>0, <1>4, <3>1 DEF Remove, Conn
    <3>2. CASE ~(Value(Name(s)) > 0)
      BY <1>0, <1>4, <3>2, FreshType DEF Remove, Closed
    <3>3. QED
      BY <3>1, <3>2
  <2>2. QED
    BY <1>0, <1>4, <2>1 DEF Remove, PeerUnchanged, LimitTypeOK
<1>5. CASE PutBack(s)
  <2>1. conn' \in [Conns -> Conn]
    BY <1>0, <1>5, FreshType DEF PutBack, Closed
  <2>2. conn[s].value \in 0 .. Modulus - 1
    BY <1>0 DEF Conn
  <2>3. QED
    BY <1>0, <1>5, <2>1, <2>2 DEF PutBack, PeerUnchanged, LimitTypeOK
<1>6. QED
  BY <1>1, <1>2, <1>3, <1>4, <1>5 DEF TrackerStep

LEMMA NamedNext ==
    ASSUME LimitTypeOK, Named, [LimitNext]_limitVars
    PROVE  Named'
<1>0. conn \in [Conns -> Conn] /\ NoUser \notin Users
  BY LimitAssumption DEF LimitTypeOK
<1>1. ASSUME NEW s \in Conns, SessionStep(s) \/ ClientStep(s)
      PROVE  Named'
  <2>1. \/ UNCHANGED conn
        \/ \E pc \in {"open", "article", "greet"} : conn' = [conn EXCEPT ![s].pc = pc]
        \/ conn' = [conn EXCEPT ![s] = Fresh]
        \/ conn' = [conn EXCEPT ![s] = [Fresh EXCEPT !.pc = "greet"]]
        \/ \E u \in Users : conn' = [conn EXCEPT ![s].name = u]
        \/ Name(s) # NoUser /\ Authenticate(s, TRUE)
        \/ (Name(s) # NoUser \/ conn[s].authenticated)
              /\ \E pc \in {"connect", "close"} : conn' = [conn EXCEPT ![s].pc = pc]
    BY <1>1 DEF SessionStep, ClientStep, Greet, EndOfInput, Break, BridgeEnds,
         EndArticle, IdleTimeout, Leave, Accept, Hangup, Lost, AuthPass,
         BeginArticle, Quit, AuthUser, Go
  <2>2. QED
    BY <1>0, <2>1 DEF Named, Fresh, Conn, Authenticate, Name
<1>2. ASSUME NEW s \in Conns, TrackerStep(s)
      PROVE  Named'
  <2>1. conn[s].name \in Users /\ conn[s] \in Conn
    BY <1>0, <1>2 DEF Named, TrackerStep, TryConnect, FetchSub, DropRef,
         Remove, PutBack, At
  <2>2. CASE conn' = [conn EXCEPT ![s] = Fresh]
    BY <1>0, <2>2 DEF Named, Fresh
  <2>3. ASSUME NEW pc, conn' = [conn EXCEPT ![s].pc = pc]
        PROVE  Named'
    BY <1>0, <2>1, <2>3 DEF Named, Conn
  <2>4. ASSUME NEW pc, NEW v,
               conn' = [conn EXCEPT ![s].pc = pc, ![s].value = v]
        PROVE  Named'
    BY <1>0, <2>1, <2>4 DEF Named, Conn
  <2>5. CASE Authenticate(s, FALSE)
    BY <1>0, <2>1, <2>5 DEF Named, Conn, Authenticate
  <2>6. QED
    BY <1>2, <2>2, <2>3, <2>4, <2>5 DEF TrackerStep, TryConnect, FetchSub,
         DropRef, Remove, PutBack, Go, Closed
<1>3. CASE UNCHANGED limitVars
  BY <1>3 DEF limitVars, Named
<1>4. QED
  BY <1>1, <1>2, <1>3 DEF LimitNext

LEMMA TypeNext ==
    ASSUME LimitTypeOK, Named, [LimitNext]_limitVars
    PROVE  LimitTypeOK'
<1>1. CASE UNCHANGED limitVars
  BY <1>1 DEF limitVars, LimitTypeOK
<1>2. QED
  BY <1>1, TypeSession, TypeTracker DEF LimitNext

LEMMA LimitTypeInit == LimitInit => LimitTypeOK /\ Named
<1> SUFFICES ASSUME LimitInit
             PROVE  LimitTypeOK /\ Named
  OBVIOUS
<1>1. LimitTypeOK
  BY FreshType DEF LimitInit, LimitTypeOK, Input
<1>2. Named
  BY DEF LimitInit, Named, Fresh
<1>3. QED
  BY <1>1, <1>2

(* A counter never leaves the range of a usize, and every entry, session   *)
(* and bridge task is in a state the code knows.                           *)
THEOREM LimitTypeCorrect == LimitSpec => []LimitTypeOK
<1>1. LimitTypeOK /\ Named /\ [LimitNext]_limitVars => (LimitTypeOK /\ Named)'
  BY TypeNext, NamedNext
<1>2. QED
  BY <1>1, LimitTypeInit, PTL DEF LimitSpec

-----------------------------------------------------------------------------
(* The count of slots.  For a user that nothing has upset, the counter is  *)
(* either in the map or carried by exactly one close, and in both places   *)
(* it says how many sessions hold a slot.                                  *)

Once(u)  == Carried(u) # {} => Value(u) = 0 /\ \A s, t \in Carried(u) : s = t
Exact(u) == Counted(u) = Cardinality(Slots(u))

LEMMA ChooseOnly ==
    ASSUME NEW S, NEW t, S = {t}
    PROVE  (CHOOSE x \in S : TRUE) = t
  OBVIOUS

LEMMA SlotsFinite ==
    ASSUME NEW u
    PROVE  IsFiniteSet(Slots(u)) /\ Cardinality(Slots(u)) \in Nat
<1>1. IsFiniteSet(Slots(u))
  BY LimitAssumption, FS_Subset DEF Slots
<1>2. QED
  BY <1>1, FS_CardinalityType

(* A step that neither takes a counter out of the map nor puts one back.   *)
LEMMA CarriedStays ==
    ASSUME LimitTypeOK, NEW s \in Conns, NEW c,
           conn' = [conn EXCEPT ![s] = c], conn[s].pc # "put", c.pc # "put",
           NEW u
    PROVE  Carried(u)' = Carried(u) /\ \A t \in Carried(u) : conn'[t] = conn[t]
  BY DEF LimitTypeOK, Carried, At, Name

(* ... leaves the count of a user alone whose slots and counter it leaves. *)
LEMMA ExactStays ==
    ASSUME NEW u, Once(u), Exact(u), Slots(u)' = Slots(u),
           Value(u)' = Value(u),
           Carried(u)' = Carried(u), \A t \in Carried(u) : conn'[t] = conn[t]
    PROVE  Once(u)' /\ Exact(u)'
<1>1. Once(u)'
  BY DEF Once
<1>2. CASE Carried(u) = {}
  BY <1>1, <1>2 DEF Exact, Counted
<1>3. CASE Carried(u) # {}
  <2>1. PICK t : Carried(u) = {t}
    BY <1>3 DEF Once
  <2>2. /\ (CHOOSE x \in Carried(u) : TRUE) = t
        /\ (CHOOSE x \in Carried(u)' : TRUE) = t
    BY <2>1, ChooseOnly
  <2>3. Counted(u) = conn[t].value /\ Counted(u)' = conn'[t].value
    BY <1>3, <2>2 DEF Counted
  <2>4. QED
    BY <1>1, <2>1, <2>3 DEF Exact
<1>4. QED
  BY <1>2, <1>3

(* The steps of the client and of the session loop. *)
LEMMA SlotsSession ==
    ASSUME LimitInv, NEW s \in Conns, SessionStep(s) \/ ClientStep(s),
           NEW u \in Users \ upset', upset \subseteq upset'
    PROVE  Once(u)' /\ Exact(u)'
<1>0. /\ LimitTypeOK /\ Once(u) /\ Exact(u) /\ conn \in [Conns -> Conn]
      /\ conn[s] \in Conn /\ slot \in [Conns -> {NoUser} \cup Users]
      /\ NoUser \notin Users
  BY LimitAssumption DEF LimitInv, CarriedOnce, SlotsExact, Once, Exact,
                         LimitTypeOK
<1>1. UNCHANGED count
  BY DEF SessionStep, ClientStep, Greet, EndOfInput, Break, BridgeEnds,
         EndArticle, IdleTimeout, Leave, Accept, Hangup, Lost, AuthPass,
         BeginArticle, Quit, AuthUser, MapUnchanged
<1>2. UNCHANGED slot \/ (slot' = [slot EXCEPT ![s] = NoUser] /\ slot[s] # u)
  BY <1>0 DEF SessionStep, ClientStep, Greet, EndOfInput, Break, BridgeEnds,
         EndArticle, IdleTimeout, Leave, Accept, Hangup, Lost, AuthPass,
         BeginArticle, Quit, AuthUser, Abandons
<1>3. Slots(u)' = Slots(u)
  BY <1>0, <1>2 DEF Slots
<1>4. Carried(u)' = Carried(u) /\ \A t \in Carried(u) : conn'[t] = conn[t]
  <2>1. CASE UNCHANGED conn
    BY <2>1 DEF Carried, At, Name
  <2>2. CASE /\ conn[s].pc # "put"
             /\ \E c : conn' = [conn EXCEPT ![s] = c] /\ c.pc # "put"
    BY <1>0, <2>2, CarriedStays
  <2>3. ASSUME NEW pc \in {"open", "article", "connect", "close"}, Go(s, pc)
        PROVE  \E c : conn' = [conn EXCEPT ![s] = c] /\ c.pc # "put"
    <3> DEFINE c == [conn[s] EXCEPT !.pc = pc]
    <3>1. conn' = [conn EXCEPT ![s] = c] /\ c.pc = pc
      BY <1>0, <2>3 DEF Go, Conn
    <3>2. QED
      BY <3>1
  <2>4. CASE Hangup(s) \/ Lost(s) \/ BridgeEnds(s)
    BY <2>1, <2>4 DEF Hangup, Lost, BridgeEnds
  <2>5. CASE Greet(s) \/ BeginArticle(s) \/ EndArticle(s)
    BY <2>2, <2>3, <2>5 DEF Greet, BeginArticle, EndArticle, At
  <2>6. CASE Break(s)
    BY <2>2, <2>6, FreshType DEF Break
  <2>7. CASE At(s, "open") /\ Leave(s)
    BY <2>2, <2>3, <2>7, FreshType DEF Leave, At
  <2>8. CASE Accept(s)
    <3>1. [Fresh EXCEPT !.pc = "greet"].pc # "put"
      BY FreshType DEF Conn
    <3>2. QED
      BY <2>2, <2>8, <3>1 DEF Accept, At
  <2>9. CASE \E v \in Users : AuthUser(s, v)
    <3>1. PICK v \in Users : AuthUser(s, v)
      BY <2>9
    <3> DEFINE c == [conn[s] EXCEPT !.name = v]
    <3>2. conn' = [conn EXCEPT ![s] = c] /\ c.pc = "open"
      BY <1>0, <3>1 DEF AuthUser, At, Conn
    <3>3. QED
      BY <2>2, <3>1, <3>2 DEF AuthUser, At
  <2>10. CASE AuthPass(s)
    <3> DEFINE c == [conn[s] EXCEPT !.pc = "open", !.authenticated = TRUE,
                                    !.admin = TRUE]
    <3>1. c.pc = "open"
      BY <1>0 DEF Conn
    <3>2. Authenticate(s, TRUE) => conn' = [conn EXCEPT ![s] = c]
      BY <1>0 DEF Authenticate, Conn
    <3> HIDE DEF c
    <3>3. QED
      BY <2>2, <2>3, <2>10, <3>1, <3>2 DEF AuthPass, At
  <2>11. QED
    BY <2>4, <2>5, <2>6, <2>7, <2>8, <2>9, <2>10
       DEF SessionStep, ClientStep, EndOfInput, IdleTimeout, Quit
<1>5. Value(u)' = Value(u)
  BY <1>1 DEF Value
<1>6. QED
  BY <1>0, <1>3, <1>4, <1>5, ExactStays

(* What a step of the tracker leaves in the session's record. *)
LEMMA TrackerRecord ==
    ASSUME LimitTypeOK, Named, NEW s \in Conns, TrackerStep(s)
    PROVE  \E c : /\ conn' = [conn EXCEPT ![s] = c]
                  /\ c.pc = "put" => Remove(s) /\ Value(Name(s)) > 0
                                     /\ c.name = conn[s].name
                                     /\ c.value = Value(Name(s))
<1>0. conn \in [Conns -> Conn] /\ conn[s] \in Conn
  BY DEF LimitTypeOK
<1>1. ASSUME Closed(s)
      PROVE  \E c : conn' = [conn EXCEPT ![s] = c] /\ c.pc # "put"
  BY <1>1, FreshType DEF Closed
<1>2. ASSUME NEW pc \in {"open", "remove"}, Go(s, pc)
      PROVE  \E c : conn' = [conn EXCEPT ![s] = c] /\ c.pc # "put"
  <2> DEFINE c == [conn[s] EXCEPT !.pc = pc]
  <2>1. conn' = [conn EXCEPT ![s] = c] /\ c.pc = pc
    BY <1>0, <1>2 DEF Go, Conn
  <2>2. QED
    BY <2>1
<1>3. ASSUME Authenticate(s, FALSE)
      PROVE  \E c : conn' = [conn EXCEPT ![s] = c] /\ c.pc # "put"
  <2> DEFINE c == [conn[s] EXCEPT !.pc = "open", !.authenticated = TRUE,
                                  !.admin = FALSE]
  <2>1. c.pc = "open"
    BY <1>0 DEF Conn
  <2>2. conn' = [conn EXCEPT ![s] = c]
    BY <1>0, <1>3 DEF Authenticate, Conn
  <2> HIDE DEF c
  <2>3. QED
    BY <2>1, <2>2
<1>4. ASSUME NEW pc, NEW v, conn' = [conn EXCEPT ![s].pc = pc, ![s].value = v]
      PROVE  \E c : /\ conn' = [conn EXCEPT ![s] = c] /\ c.pc = pc
                    /\ c.value = v /\ c.name = conn[s].name
  <2> DEFINE c == [conn[s] EXCEPT !.pc = pc, !.value = v]
  <2>1. c.pc = pc /\ c.value = v /\ c.name = conn[s].name
    BY <1>0 DEF Conn
  <2>2. conn' = [conn EXCEPT ![s] = c]
    BY <1>0, <1>4
  <2> HIDE DEF c
  <2>3. QED
    BY <2>1, <2>2
<1>5. CASE TryConnect(s)
  BY <1>2, <1>3, <1>5 DEF TryConnect
<1>6. CASE FetchSub(s)
  <2>1. Closed(s) \/ conn' = [conn EXCEPT ![s].pc = "drop", ![s].value = count[Name(s)]]
    BY <1>6 DEF FetchSub
  <2>2. QED
    BY <1>1, <1>4, <2>1
<1>7. CASE DropRef(s)
  BY <1>1, <1>2, <1>7 DEF DropRef
<1>8. CASE Remove(s)
  <2>1. \/ Closed(s)
        \/ /\ Value(Name(s)) > 0
           /\ conn' = [conn EXCEPT ![s].pc = "put", ![s].value = Value(Name(s))]
    BY <1>8 DEF Remove
  <2>2. QED
    BY <1>1, <1>4, <1>8, <2>1
<1>9. CASE PutBack(s)
  BY <1>1, <1>9 DEF PutBack
<1>10. QED
  BY <1>5, <1>6, <1>7, <1>8, <1>9 DEF TrackerStep

(* The steps of the tracker: for a user other than the one it serves ... *)
LEMMA SlotsOther ==
    ASSUME LimitInv, NEW s \in Conns, TrackerStep(s),
           NEW u \in Users \ upset', upset \subseteq upset', Name(s) # u
    PROVE  Once(u)' /\ Exact(u)'
<1>0. /\ LimitTypeOK /\ Named /\ Once(u) /\ Exact(u) /\ conn \in [Conns -> Conn]
      /\ slot \in [Conns -> {NoUser} \cup Users]
      /\ count \in [Users -> {NoEntry} \cup 0 .. Modulus - 1]
      /\ NoUser \notin Users
  BY LimitAssumption DEF LimitInv, CarriedOnce, SlotsExact, Once, Exact,
                         LimitTypeOK
<1>1. count'[u] = count[u]
  BY <1>0 DEF TrackerStep, TryConnect, FetchSub, DropRef, Remove, PutBack,
              MapUnchanged
<1>2. \/ UNCHANGED slot
      \/ /\ slot' = [slot EXCEPT ![s] = NoUser] \/ slot' = [slot EXCEPT ![s] = Name(s)]
         /\ slot[s] # u
  BY <1>0 DEF TrackerStep, TryConnect, FetchSub, DropRef, Remove, PutBack,
              Abandons
<1>3. Slots(u)' = Slots(u)
  BY <1>0, <1>2 DEF Slots
<1>4. PICK c : conn' = [conn EXCEPT ![s] = c] /\ (c.pc = "put" => c.name = conn[s].name)
  BY <1>0, TrackerRecord
<1>5. Carried(u)' = Carried(u) /\ \A t \in Carried(u) : conn'[t] = conn[t]
  <2>1. conn[s].name # u /\ (c.pc = "put" => c.name # u)
    BY <1>4 DEF Name
  <2>2. QED
    BY <1>0, <1>4, <2>1 DEF LimitTypeOK, Carried, At, Name
<1>6. Value(u)' = Value(u)
  BY <1>1 DEF Value
<1>7. QED
  BY <1>0, <1>3, <1>5, <1>6, ExactStays

(* ... and for its own. *)
LEMMA SlotsOwn ==
    ASSUME LimitInv, NEW s \in Conns, TrackerStep(s),
           NEW u \in Users \ upset', upset \subseteq upset', Name(s) = u
    PROVE  Once(u)' /\ Exact(u)'
<1>0. /\ LimitTypeOK /\ Named /\ Once(u) /\ Exact(u) /\ conn \in [Conns -> Conn]
      /\ slot \in [Conns -> {NoUser} \cup Users]
      /\ count \in [Users -> {NoEntry} \cup 0 .. Modulus - 1]
      /\ NoUser \notin Users /\ NoEntry \notin Int /\ Modulus \in Nat
      /\ Value(u) \in 0 .. Modulus - 1
      /\ count[u] # NoEntry => Value(u) = count[u]
  BY LimitAssumption, ValueType DEF LimitInv, CarriedOnce, SlotsExact, Once,
                                    Exact, LimitTypeOK
<1>1. PICK c : /\ conn' = [conn EXCEPT ![s] = c]
               /\ c.pc = "put" => /\ Remove(s) /\ Value(u) > 0
                                  /\ c.name = u /\ c.value = Value(u)
  BY <1>0, TrackerRecord DEF Name
<1>2. ASSUME ~At(s, "put"), c.pc # "put", Slots(u)' = Slots(u), Value(u)' = Value(u)
      PROVE  Once(u)' /\ Exact(u)'
  BY <1>0, <1>1, <1>2, CarriedStays, ExactStays DEF At
<1>3. ASSUME UNCHANGED slot
      PROVE  Slots(u)' = Slots(u)
  BY <1>3 DEF Slots
<1>4. CASE TryConnect(s)
  <2>1. c.pc # "put"
    BY <1>1, <1>4 DEF Remove, TryConnect, At
  <2>0. \/ /\ Value(u) >= Limit[u]
           /\ UNCHANGED slot /\ count' = [count EXCEPT ![u] = Value(u)]
        \/ /\ Value(u) < Limit[u]
           /\ count' = [count EXCEPT ![u] = Value(u) + 1]
           /\ slot' = [slot EXCEPT ![s] = u]
           /\ Abandons(s) \subseteq upset' /\ Carried(u) = {}
    BY <1>4 DEF TryConnect
  <2>2. CASE /\ Value(u) >= Limit[u]
             /\ UNCHANGED slot /\ count' = [count EXCEPT ![u] = Value(u)]
    <3>1. UNCHANGED slot /\ count' = [count EXCEPT ![u] = Value(u)]
      BY <2>2
    <3>2. Value(u)' = Value(u)
      BY <1>0, <3>1 DEF Value
    <3>3. QED
      BY <1>2, <1>3, <1>4, <2>1, <3>1, <3>2 DEF TryConnect, At
  <2>3. CASE /\ count' = [count EXCEPT ![u] = Value(u) + 1]
             /\ slot' = [slot EXCEPT ![s] = u]
             /\ Abandons(s) \subseteq upset' /\ Carried(u) = {}
    <3>1. /\ count' = [count EXCEPT ![u] = Value(u) + 1]
          /\ slot' = [slot EXCEPT ![s] = u]
          /\ Carried(u) = {} /\ slot[s] # u
      BY <1>0, <2>3 DEF Abandons
    <3>2. Carried(u)' = {}
      BY <1>0, <1>1, <1>4, <2>1, <3>1, CarriedStays DEF TryConnect, At
    <3>3. Slots(u)' = Slots(u) \cup {s} /\ s \notin Slots(u)
      BY <1>0, <3>1 DEF Slots
    <3>4. Cardinality(Slots(u)') = Cardinality(Slots(u)) + 1
      BY <3>3, SlotsFinite, FS_AddElement
    <3>5. Value(u)' = Value(u) + 1
      BY <1>0, <3>1 DEF Value
    <3>6. QED
      BY <1>0, <3>1, <3>2, <3>4, <3>5 DEF Once, Exact, Counted
  <2>4. QED
    BY <2>0, <2>2, <2>3
<1>5. CASE FetchSub(s)
  <2>1. c.pc # "put"
    BY <1>1, <1>5 DEF Remove, FetchSub, At
  <2>2. slot[s] = u /\ Carried(u) = {} /\ slot' = [slot EXCEPT ![s] = NoUser]
    BY <1>5 DEF FetchSub
  <2>3. Carried(u)' = {}
    BY <1>0, <1>1, <1>5, <2>1, <2>2, CarriedStays DEF FetchSub, At
  <2>4. Slots(u)' = Slots(u) \ {s} /\ s \in Slots(u)
    BY <1>0, <2>2 DEF Slots
  <2>5. /\ Cardinality(Slots(u)') = Cardinality(Slots(u)) - 1
        /\ Cardinality(Slots(u)) \in Nat /\ Cardinality(Slots(u)) # 0
    <3>0. IsFiniteSet(Slots(u))
      BY SlotsFinite
    <3>1. Cardinality(Slots(u)') = Cardinality(Slots(u)) - 1
      <4> DEFINE S == Slots(u)
      <4> HIDE DEF S
      <4>1. Cardinality(S \ {s}) = Cardinality(S) - 1
        BY <2>4, <3>0, FS_RemoveElement DEF S
      <4>2. QED
        BY <2>4, <4>1 DEF S
    <3>2. Cardinality(Slots(u)) # 0
      BY <2>4, SlotsFinite, FS_EmptySet
    <3>3. QED
      BY <3>1, <3>2, SlotsFinite
  <2>6. Value(u) = Cardinality(Slots(u)) /\ Value(u) \in 1 .. Modulus - 1
    BY <1>0, <2>2, <2>5 DEF Exact, Counted
  <2>7. count[u] # NoEntry /\ count[u] = Value(u)
    BY <1>0, <2>6 DEF Value
  <2>8. count' = [count EXCEPT ![u] = Value(u) - 1]
    BY <1>5, <2>6, <2>7, DecrementedValue DEF FetchSub
  <2>9. Value(u)' = Value(u) - 1
    BY <1>0, <2>6, <2>8 DEF Value
  <2>10. QED
    BY <2>3, <2>5, <2>6, <2>9 DEF Once, Exact, Counted
<1>6. CASE DropRef(s)
  <2>1. c.pc # "put" /\ UNCHANGED <<count, slot>> /\ ~At(s, "put")
    BY <1>1, <1>6 DEF Remove, DropRef, At
  <2>2. QED
    BY <1>2, <1>3, <2>1 DEF Value
<1>7. CASE Remove(s)
  <2>1. /\ UNCHANGED slot /\ count' = [count EXCEPT ![u] = NoEntry]
        /\ At(s, "remove")
    BY <1>7 DEF Remove
  <2>2. Value(u)' = 0
    BY <1>0, <2>1 DEF Value
  <2>3. CASE Value(u) > 0
    <3>1. conn' = [conn EXCEPT ![s].pc = "put", ![s].value = Value(u)]
      BY <1>7, <2>3 DEF Remove
    <3>2. conn'[s].pc = "put" /\ conn'[s].value = Value(u) /\ conn'[s].name = u
      BY <1>0, <3>1 DEF Conn, Name
    <3>3. Carried(u) = {}
      BY <1>0, <2>3 DEF Once
    <3>4. Carried(u)' = {s}
      BY <1>0, <3>1, <3>2, <3>3 DEF Carried, At, Name
    <3>5. (CHOOSE x \in Carried(u)' : TRUE) = s
      BY <3>4, ChooseOnly
    <3>6. Counted(u)' = Value(u) /\ Counted(u) = Value(u)
      BY <3>2, <3>3, <3>4, <3>5 DEF Counted
    <3>7. QED
      BY <1>0, <1>3, <2>1, <2>2, <3>4, <3>6 DEF Once, Exact
  <2>4. CASE ~(Value(u) > 0)
    <3>1. Value(u) = 0 /\ c.pc # "put"
      BY <1>0, <1>1, <2>4
    <3>2. QED
      BY <1>2, <1>3, <2>1, <2>2, <3>1 DEF At
  <2>5. QED
    BY <2>3, <2>4
<1>8. CASE PutBack(s)
  <2>1. /\ UNCHANGED slot /\ count' = [count EXCEPT ![u] = conn[s].value]
        /\ At(s, "put") /\ conn' = [conn EXCEPT ![s] = Fresh]
    BY <1>8 DEF PutBack, Closed
  <2>2. Carried(u) = {s}
    BY <1>0, <2>1 DEF Once, Carried
  <2>3. (CHOOSE x \in Carried(u) : TRUE) = s
    BY <2>2, ChooseOnly
  <2>4. Counted(u) = conn[s].value
    BY <2>2, <2>3 DEF Counted
  <2>5. Carried(u)' = {}
    BY <1>0, <2>1, <2>2, FreshType DEF Carried, At, Name
  <2>6. conn[s].value \in 0 .. Modulus - 1
    BY <1>0 DEF Conn
  <2>7. Value(u)' = conn[s].value
    BY <1>0, <2>1, <2>6 DEF Value
  <2>8. QED
    BY <1>0, <1>3, <2>1, <2>4, <2>5, <2>7 DEF Once, Exact, Counted
<1>9. QED
  BY <1>4, <1>5, <1>6, <1>7, <1>8 DEF TrackerStep

LEMMA SlotsNext ==
    ASSUME LimitInv, [LimitNext]_limitVars
    PROVE  LimitInv'
<1>1. LimitTypeOK' /\ Named'
  BY TypeNext, NamedNext DEF LimitInv
<1>2. upset \subseteq upset'
  BY DEF LimitNext, limitVars, SessionStep, ClientStep, TrackerStep, Greet,
         EndOfInput, Break, BridgeEnds, EndArticle, IdleTimeout, Leave, Accept,
         Hangup, Lost, AuthPass, BeginArticle, Quit, AuthUser, TryConnect,
         FetchSub, DropRef, Remove, PutBack
<1>3. ASSUME NEW u \in Users \ upset'
      PROVE  Once(u)' /\ Exact(u)'
  <2>1. CASE UNCHANGED limitVars
    <3>1. UNCHANGED <<count, conn, slot, upset>>
      BY <2>1 DEF limitVars
    <3>2. Once(u) /\ Exact(u)
      BY <3>1 DEF LimitInv, CarriedOnce, SlotsExact, Once, Exact
    <3>3. /\ Carried(u)' = Carried(u) /\ Value(u)' = Value(u)
          /\ Slots(u)' = Slots(u)
      BY <3>1 DEF Carried, Value, Slots, At, Name
    <3>4. QED
      BY <3>1, <3>2, <3>3, ExactStays
  <2>2. ASSUME NEW s \in Conns, SessionStep(s) \/ ClientStep(s) \/ TrackerStep(s)
        PROVE  Once(u)' /\ Exact(u)'
    BY <1>2, <2>2, SlotsSession, SlotsOther, SlotsOwn
  <2>3. QED
    BY <2>1, <2>2 DEF LimitNext
<1>4. CarriedOnce' /\ SlotsExact'
  BY <1>3 DEF CarriedOnce, SlotsExact, Once, Exact
<1>5. QED
  BY <1>1, <1>4 DEF LimitInv

LEMMA SlotsInit == LimitInit => LimitInv
<1> SUFFICES ASSUME LimitInit
             PROVE  LimitInv
  OBVIOUS
<1>1. LimitTypeOK /\ Named
  BY LimitTypeInit
<1>2. \A u \in Users : Carried(u) = {} /\ Value(u) = 0 /\ Slots(u) = {}
  BY FreshType, LimitAssumption DEF LimitInit, Carried, Value, Slots, At
<1>3. CarriedOnce
  BY <1>2 DEF CarriedOnce
<1>4. SlotsExact
  BY <1>2, FS_EmptySet DEF SlotsExact, Counted
<1>5. QED
  BY <1>1, <1>3, <1>4 DEF LimitInv

(* The counter of a user that nothing has upset is the number of sessions  *)
(* that hold a slot of theirs, for any number of sessions that log in and  *)
(* close at once: the two-step clean-up of disconnect and the race it puts *)
(* right lose no slot.                                                     *)
THEOREM SlotsExactAlways == LimitSpec => []SlotsExact
<1>1. LimitInv => SlotsExact
  BY DEF LimitInv
<1>2. QED
  BY <1>1, SlotsInit, SlotsNext, PTL DEF LimitSpec
=============================================================================
