--------------------------- MODULE BandwidthProofs --------------------------
(***************************************************************************)
(* Proofs about Bandwidth, for any limit, period and sizes and any number  *)
(* of sessions, logins and transfers.                                      *)
(***************************************************************************)
EXTENDS Bandwidth, TLAPS

(* A copy of the account is fair when its window has begun and it counts   *)
(* at most what was charged since.                                         *)
Fair(a) == a \in Account /\ a.window <= clock /\ a.used <= charged[a.window]

(* What was charged since an earlier time is at least as much.             *)
Antitone == \A v, w \in 0 .. MaxClock : v <= w => charged[w] <= charged[v]

AccountsFair == \A i \in 1 .. Len(accounts) : Fair(accounts[i])
SessionsFair == \A s \in Sessions : At(s, "insert") => Fair(session[s].usage)
SaverFair    == saver.pc = "write" => Fair(saver.usage)
RowFair      == row # NoRow => Fair(row)

CopiesFair == AccountsFair /\ SessionsFair /\ SaverFair /\ RowFair

BandwidthInv == BandwidthTypeOK /\ Antitone /\ CopiesFair

-----------------------------------------------------------------------------
(* The types. *)

LEMMA NewFair ==
    ASSUME BandwidthTypeOK
    PROVE  New \in Account /\ New.window = clock /\ Fair(New)
<1>1. clock \in 0 .. MaxClock /\ charged[clock] \in Nat
  BY BandwidthAssumption DEF BandwidthTypeOK
<1>2. New \in Account /\ New.used = 0 /\ New.window = clock
  BY <1>1 DEF New, Account
<1>3. QED
  BY <1>1, <1>2 DEF Fair

LEMMA SavedAccount ==
    ASSUME NEW a \in Account
    PROVE  /\ [a EXCEPT !.window = WholeSecond(@)] \in Account
           /\ [a EXCEPT !.window = WholeSecond(@)].used = a.used
           /\ [a EXCEPT !.window = WholeSecond(@)].window <= a.window
<1>1. a.window \in 0 .. MaxClock
  BY DEF Account
<1>2. WholeSecond(a.window) \in Nat /\ WholeSecond(a.window) <= a.window
  BY <1>1, BandwidthAssumption DEF WholeSecond
<1>3. WholeSecond(a.window) \in 0 .. MaxClock
  BY <1>1, <1>2, BandwidthAssumption
<1>4. QED
  BY <1>2, <1>3 DEF Account

LEMMA SpendType ==
    ASSUME BandwidthTypeOK, NEW what \in {"login", "transfer"}, Spend(what)
    PROVE  left' \in [{"login", "transfer"} -> Nat]
  BY DEF BandwidthTypeOK, Spend

(* A session that refers to an account refers to one of n accounts. *)
Refers(st, n) == st.pc \in {"check", "send", "record"} => st.account \in 1 .. n

LEMMA GoType ==
    ASSUME BandwidthTypeOK, NEW s \in Sessions, NEW st \in Session, Go(s, st),
           NEW n \in Nat, Len(accounts) <= n, Refers(st, n)
    PROVE  /\ session' \in [Sessions -> Session]
           /\ \A t \in Sessions : Refers(session'[t], n)
<1>1. /\ session \in [Sessions -> Session] /\ accounts \in Seq(Account)
      /\ \A t \in Sessions : Refers(session[t], Len(accounts))
  BY DEF BandwidthTypeOK, Refers
<1>2. Len(accounts) \in Nat
  BY <1>1
<1>3. \A t \in Sessions : Refers(session[t], n)
  BY <1>1, <1>2 DEF Refers
<1>4. QED
  BY <1>1, <1>3 DEF Go

LEMMA StatesType ==
    /\ Out \in Session /\ In \in Session
    /\ \A n : Refers(Out, n) /\ Refers(In, n)
    /\ \A a \in Account : /\ [pc |-> "insert", usage |-> a] \in Session
                          /\ \A n : Refers([pc |-> "insert", usage |-> a], n)
    /\ \A pc \in {"check", "send", "record"}, i \in Nat, size \in Sizes :
          [pc |-> pc, account |-> i, size |-> size] \in Session
<1>1. Out \in Session /\ In \in Session /\ \A n : Refers(Out, n) /\ Refers(In, n)
  BY DEF Out, In, Session, Refers
<1>2. \A a \in Account : /\ [pc |-> "insert", usage |-> a] \in Session
                         /\ \A n : Refers([pc |-> "insert", usage |-> a], n)
  BY DEF Session, Refers
<1>3. \A pc \in {"check", "send", "record"}, i \in Nat, size \in Sizes :
          [pc |-> pc, account |-> i, size |-> size] \in Session
  BY DEF Session
<1>4. QED
  BY <1>1, <1>2, <1>3

LEMMA AppendAccount ==
    ASSUME BandwidthTypeOK, NEW a \in Account, accounts' = Append(accounts, a)
    PROVE  /\ accounts' \in Seq(Account)
           /\ Len(accounts') = Len(accounts) + 1 /\ Len(accounts) \in Nat
           /\ accounts'[Len(accounts) + 1] = a
           /\ \A i \in 1 .. Len(accounts) : accounts'[i] = accounts[i]
  BY DEF BandwidthTypeOK

LEMMA EntryType ==
    ASSUME BandwidthTypeOK, NEW s \in Sessions, NEW size \in Sizes,
           NEW pc \in {"check", "record"}, Entry(s, pc, size)
    PROVE  /\ accounts' \in Seq(Account) /\ Len(accounts) <= Len(accounts')
           /\ current' \in 0 .. Len(accounts')
           /\ session' \in [Sessions -> Session]
           /\ \A t \in Sessions : Refers(session'[t], Len(accounts'))
<1>0. accounts \in Seq(Account) /\ Len(accounts) \in Nat /\ current \in 0 .. Len(accounts)
  BY DEF BandwidthTypeOK
<1>1. CASE current = 0
  <2>1. /\ accounts' = Append(accounts, New) /\ current' = Len(accounts) + 1
        /\ Go(s, [pc |-> pc, account |-> Len(accounts) + 1, size |-> size])
    BY <1>1 DEF Entry
  <2>2. accounts' \in Seq(Account) /\ Len(accounts') = Len(accounts) + 1
    BY <2>1, NewFair, AppendAccount
  <2> DEFINE st == [pc |-> pc, account |-> Len(accounts) + 1, size |-> size]
  <2>3. st \in Session /\ Refers(st, Len(accounts) + 1)
    <3>1. Len(accounts) + 1 \in Nat /\ Len(accounts) + 1 \in 1 .. Len(accounts) + 1
      BY <1>0
    <3>2. st \in Session
      BY <3>1, StatesType
    <3>3. QED
      BY <3>1, <3>2 DEF Refers
  <2>4. QED
    BY <1>0, <2>1, <2>2, <2>3, GoType
<1>2. CASE current # 0
  <2>1. /\ UNCHANGED <<accounts, current>>
        /\ Go(s, [pc |-> pc, account |-> current, size |-> size])
    BY <1>2 DEF Entry, MemoryUnchanged
  <2> DEFINE st == [pc |-> pc, account |-> current, size |-> size]
  <2>2. st \in Session /\ Refers(st, Len(accounts))
    BY <1>0, <1>2, StatesType DEF Refers
  <2>3. QED
    BY <1>0, <2>1, <2>2, GoType
<1>3. QED
  BY <1>1, <1>2

LEMMA SameLength ==
    ASSUME BandwidthTypeOK, NEW i \in 1 .. Len(accounts), NEW a \in Account,
           accounts' = [accounts EXCEPT ![i] = a]
    PROVE  /\ accounts' \in Seq(Account) /\ Len(accounts') = Len(accounts)
           /\ accounts'[i] = a
           /\ \A j \in 1 .. Len(accounts) : j # i => accounts'[j] = accounts[j]
  BY DEF BandwidthTypeOK

(* The account a session or the saver refers to. *)
LEMMA Referred ==
    ASSUME BandwidthTypeOK, NEW s \in Sessions,
           At(s, "check") \/ At(s, "send") \/ At(s, "record")
    PROVE  /\ session[s].account \in 1 .. Len(accounts)
           /\ accounts[session[s].account] \in Account
           /\ session[s].size \in Sizes /\ session[s].size \in Nat
           /\ session[s] = [pc |-> session[s].pc, account |-> session[s].account,
                            size |-> session[s].size]
<1>1. session[s] \in Session /\ session[s].pc \in {"check", "send", "record"}
      /\ accounts \in Seq(Account)
  BY DEF BandwidthTypeOK, At
<1>2. session[s].account \in 1 .. Len(accounts)
  BY <1>1 DEF BandwidthTypeOK
<1>3. session[s] \in [pc : {"check", "send", "record"}, account : Nat, size : Sizes]
  BY <1>1 DEF Session
<1>4. accounts[session[s].account] \in Account
  BY <1>1, <1>2
<1>5. session[s].size \in Sizes /\ session[s].size \in Nat
  BY <1>3, BandwidthAssumption
<1>6. session[s] = [pc |-> session[s].pc, account |-> session[s].account,
                    size |-> session[s].size]
  BY <1>3
<1>7. QED
  BY <1>2, <1>4, <1>5, <1>6

LEMMA RenewedType ==
    ASSUME BandwidthTypeOK, NEW a \in Account
    PROVE  Renewed(a) \in Account /\ (Renewed(a) = a \/ Renewed(a) = New)
  BY NewFair DEF Renewed

LEMMA LoadedType ==
    ASSUME BandwidthTypeOK
    PROVE  Loaded \in Account
  BY NewFair DEF Loaded, BandwidthTypeOK

(* What is left of the type invariant when sessions and accounts are typed. *)
LEMMA TypeRest ==
    ASSUME BandwidthTypeOK, UNCHANGED <<clock, row, saver>>,
           left' \in [{"login", "transfer"} -> Nat],
           charged' \in [0 .. MaxClock -> Nat],
           accounts' \in Seq(Account), Len(accounts) <= Len(accounts'),
           current' \in 0 .. Len(accounts'),
           session' \in [Sessions -> Session],
           \A t \in Sessions : Refers(session'[t], Len(accounts'))
    PROVE  BandwidthTypeOK'
<1>1. Len(accounts) \in Nat /\ Len(accounts') \in Nat
  BY DEF BandwidthTypeOK
<1>2. saver'.pc = "read" => saver'.account \in 1 .. Len(accounts')
  BY <1>1 DEF BandwidthTypeOK
<1>3. QED
  BY <1>2 DEF BandwidthTypeOK, Refers

LEMMA TypeSessions ==
    ASSUME BandwidthTypeOK, NEW s \in Sessions,
           \/ LoadUser(s) \/ LoadFails(s) \/ InsertLoaded(s)
           \/ \E size \in Sizes : CheckBandwidth(s, size)
           \/ Checked(s) \/ RecordBandwidth(s) \/ Charge(s) \/ Leave(s)
    PROVE  BandwidthTypeOK'
<1>0. /\ accounts \in Seq(Account) /\ Len(accounts) \in Nat
      /\ current \in 0 .. Len(accounts)
      /\ left \in [{"login", "transfer"} -> Nat]
      /\ charged \in [0 .. MaxClock -> Nat]
      /\ session \in [Sessions -> Session] /\ session[s] \in Session
  BY DEF BandwidthTypeOK
<1>1. CASE LoadUser(s)
  <2>1. Go(s, [pc |-> "insert", usage |-> Loaded]) /\ UNCHANGED <<accounts, current>>
        /\ Spend("login") /\ UNCHANGED <<clock, row, saver, charged>>
    BY <1>1 DEF LoadUser, MemoryUnchanged
  <2>2. session' \in [Sessions -> Session]
        /\ \A t \in Sessions : Refers(session'[t], Len(accounts))
    BY <1>0, <2>1, LoadedType, StatesType, GoType
  <2>3. QED
    BY <1>0, <2>1, <2>2, SpendType, TypeRest
<1>2. CASE LoadFails(s)
  <2>1. Go(s, In) /\ UNCHANGED <<accounts, current>>
        /\ Spend("login") /\ UNCHANGED <<clock, row, saver, charged>>
    BY <1>2 DEF LoadFails, MemoryUnchanged
  <2>2. session' \in [Sessions -> Session]
        /\ \A t \in Sessions : Refers(session'[t], Len(accounts))
    BY <1>0, <2>1, StatesType, GoType
  <2>3. QED
    BY <1>0, <2>1, <2>2, SpendType, TypeRest
<1>3. CASE InsertLoaded(s)
  <2>1. session[s].usage \in Account
    BY <1>0, <1>3 DEF InsertLoaded, At, Session
  <2>2. accounts' \in Seq(Account) /\ Len(accounts') = Len(accounts) + 1
        /\ current' = Len(accounts) + 1
    BY <1>3, <2>1, AppendAccount DEF InsertLoaded
  <2>3. session' \in [Sessions -> Session]
        /\ \A t \in Sessions : Refers(session'[t], Len(accounts'))
    BY <1>0, <1>3, <2>2, StatesType, GoType DEF InsertLoaded
  <2>4. QED
    BY <1>0, <1>3, <2>2, <2>3, TypeRest DEF InsertLoaded
<1>4. ASSUME NEW size \in Sizes, CheckBandwidth(s, size)
      PROVE  BandwidthTypeOK'
  BY <1>0, <1>4, EntryType, SpendType, TypeRest DEF CheckBandwidth
<1>5. CASE Checked(s)
  <2> DEFINE i == session[s].account
             a == Renewed(accounts[i])
             st == [pc |-> "send", account |-> i, size |-> session[s].size]
  <2>1. i \in 1 .. Len(accounts) /\ a \in Account /\ session[s].size \in Sizes
        /\ accounts' = [accounts EXCEPT ![i] = a]
    BY <1>5, Referred, RenewedType DEF Checked
  <2>2. accounts' \in Seq(Account) /\ Len(accounts') = Len(accounts)
    BY <2>1, SameLength
  <2>3. Go(s, st) \/ Go(s, In)
    BY <1>0, <1>5, Referred DEF Checked, Go
  <2>4. st \in Session /\ Refers(st, Len(accounts))
    BY <1>0, <2>1, StatesType DEF Refers
  <2>5. session' \in [Sessions -> Session]
        /\ \A t \in Sessions : Refers(session'[t], Len(accounts'))
    BY <1>0, <2>2, <2>3, <2>4, StatesType, GoType
  <2>6. QED
    BY <1>0, <1>5, <2>2, <2>5, TypeRest DEF Checked
<1>6. CASE RecordBandwidth(s)
  <2>1. session[s].size \in Sizes
    BY <1>6, Referred DEF RecordBandwidth
  <2>2. QED
    BY <1>0, <1>6, <2>1, EntryType, TypeRest DEF RecordBandwidth
<1>7. CASE Charge(s)
  <2> DEFINE i == session[s].account
             a == [accounts[i] EXCEPT !.used = @ + session[s].size]
  <2>1. i \in 1 .. Len(accounts) /\ accounts[i] \in Account /\ session[s].size \in Nat
    BY <1>7, Referred DEF Charge
  <2>2. a \in Account /\ accounts' = [accounts EXCEPT ![i] = a]
    <3>0. accounts[i].used \in Nat
      BY <2>1 DEF Account
    <3>1. accounts[i].used + session[s].size \in Nat
      BY <2>1, <3>0
    <3>2. a \in Account
      BY <2>1, <3>1 DEF Account
    <3>3. accounts' = [accounts EXCEPT ![i] = a]
      BY <1>0, <1>7, <2>1 DEF Charge
    <3>4. QED
      BY <3>2, <3>3
  <2>3. accounts' \in Seq(Account) /\ Len(accounts') = Len(accounts)
    BY <2>1, <2>2, SameLength
  <2>4. session' \in [Sessions -> Session]
        /\ \A t \in Sessions : Refers(session'[t], Len(accounts'))
    BY <1>0, <1>7, <2>3, StatesType, GoType DEF Charge
  <2>5. charged' \in [0 .. MaxClock -> Nat]
    <3>1. \A w \in 0 .. MaxClock : charged[w] \in Nat /\ charged[w] + session[s].size \in Nat
      BY <1>0, <2>1
    <3>2. QED
      BY <1>7, <3>1 DEF Charge
  <2>6. QED
    BY <1>0, <1>7, <2>3, <2>4, <2>5, TypeRest DEF Charge
<1>8. CASE Leave(s)
  <2>1. session' \in [Sessions -> Session]
        /\ \A t \in Sessions : Refers(session'[t], Len(accounts))
    BY <1>0, <1>8, StatesType, GoType DEF Leave
  <2>2. QED
    BY <1>0, <1>8, <2>1, TypeRest DEF Leave, MemoryUnchanged
<1>9. QED
  BY <1>1, <1>2, <1>3, <1>4, <1>5, <1>6, <1>7, <1>8

LEMMA TypeOthers ==
    ASSUME BandwidthTypeOK,
           Persist \/ PersistRead \/ PersistWrite \/ Restart \/ Tick
    PROVE  BandwidthTypeOK'
<1>0. /\ accounts \in Seq(Account) /\ Len(accounts) \in Nat
      /\ current \in 0 .. Len(accounts) /\ saver \in Saver
  BY DEF BandwidthTypeOK
<1>1. CASE Persist
  <2>1. saver' \in Saver /\ saver'.account \in 1 .. Len(accounts)
    BY <1>0, <1>1 DEF Persist, Saver
  <2>2. QED
    BY <1>1, <2>1 DEF Persist, MemoryUnchanged, BandwidthTypeOK
<1>2. CASE PersistRead
  <2>1. accounts[saver.account] \in Account
    BY <1>0, <1>2 DEF PersistRead, BandwidthTypeOK
  <2>2. saver' \in Saver /\ saver'.pc # "read"
    BY <1>2, <2>1 DEF PersistRead, Saver
  <2>3. QED
    BY <1>2, <2>2 DEF PersistRead, MemoryUnchanged, BandwidthTypeOK
<1>3. CASE PersistWrite
  <2>1. saver.usage \in Account
    BY <1>0, <1>3 DEF PersistWrite, Saver
  <2>2. row' \in Account \cup {NoRow}
    BY <1>3, <2>1, SavedAccount DEF PersistWrite, BandwidthTypeOK
  <2>3. saver' \in Saver /\ saver'.pc # "read"
    BY <1>3 DEF PersistWrite, Saver
  <2>4. QED
    BY <1>3, <2>2, <2>3 DEF PersistWrite, MemoryUnchanged, BandwidthTypeOK
<1>4. CASE Restart
  <2>1. /\ session' \in [Sessions -> Session]
        /\ \A t \in Sessions : session'[t].pc \notin {"check", "send", "record"}
    BY <1>4, StatesType DEF Restart, Out
  <2>2. saver' \in Saver /\ saver'.pc # "read"
    BY <1>4 DEF Restart, Saver
  <2>3. accounts' \in Seq(Account) /\ current' \in 0 .. Len(accounts')
    BY <1>4 DEF Restart
  <2>4. QED
    BY <1>4, <2>1, <2>2, <2>3 DEF Restart, BandwidthTypeOK
<1>5. CASE Tick
  <2>1. clock' \in 0 .. MaxClock
    BY <1>5, BandwidthAssumption DEF Tick, BandwidthTypeOK
  <2>2. QED
    BY <1>5, <2>1 DEF Tick, MemoryUnchanged, BandwidthTypeOK
<1>6. QED
  BY <1>1, <1>2, <1>3, <1>4, <1>5

LEMMA TypeNext ==
    ASSUME BandwidthTypeOK, [BandwidthNext]_bandwidthVars
    PROVE  BandwidthTypeOK'
<1>1. CASE UNCHANGED bandwidthVars
  BY <1>1 DEF bandwidthVars, BandwidthTypeOK
<1>2. QED
  BY <1>1, TypeSessions, TypeOthers DEF BandwidthNext

LEMMA TypeInit ==
    ASSUME BandwidthInit
    PROVE  BandwidthTypeOK
<1>1. /\ session \in [Sessions -> Session]
      /\ \A t \in Sessions : session[t].pc \notin {"check", "send", "record"}
  BY StatesType DEF BandwidthInit, Out
<1>2. saver \in Saver /\ saver.pc # "read"
  BY DEF BandwidthInit, Saver
<1>3. accounts \in Seq(Account) /\ current \in 0 .. Len(accounts)
  BY DEF BandwidthInit
<1>4. left \in [{"login", "transfer"} -> Nat]
  BY BandwidthAssumption DEF BandwidthInit
<1>5. clock \in 0 .. MaxClock /\ charged \in [0 .. MaxClock -> Nat]
  BY BandwidthAssumption DEF BandwidthInit
<1>6. QED
  BY <1>1, <1>2, <1>3, <1>4, <1>5 DEF BandwidthInit, BandwidthTypeOK

(***************************************************************************)
(* Accounts, sessions and the task that saves always have their types, and *)
(* nobody holds a reference to an account that does not exist.             *)
(***************************************************************************)
THEOREM BandwidthTypeCorrect == BandwidthSpec => []BandwidthTypeOK
<1>1. BandwidthTypeOK /\ [BandwidthNext]_bandwidthVars => BandwidthTypeOK'
  BY TypeNext
<1>2. QED
  BY <1>1, TypeInit, PTL DEF BandwidthSpec

-----------------------------------------------------------------------------
(* Every copy stays fair. *)

FairAfter(a) ==
    a \in Account /\ a.window <= clock' /\ a.used <= charged'[a.window]

(* Time and charges only grow, so a fair copy stays fair. *)
Grows ==
    /\ clock <= clock'
    /\ \A w \in 0 .. MaxClock : charged[w] <= charged'[w]

LEMMA StaysFair ==
    ASSUME BandwidthTypeOK, BandwidthTypeOK', Grows, NEW a, Fair(a)
    PROVE  FairAfter(a)
<1>1. a.window \in 0 .. MaxClock /\ a.used \in Nat /\ a.window <= clock
      /\ a.used <= charged[a.window] /\ a \in Account
  BY DEF Fair, Account
<1>2. clock \in Nat /\ clock' \in Nat
      /\ charged[a.window] \in Nat /\ charged'[a.window] \in Nat
  <2>1. /\ clock \in 0 .. MaxClock /\ charged \in [0 .. MaxClock -> Nat]
        /\ clock' \in 0 .. MaxClock /\ charged' \in [0 .. MaxClock -> Nat]
    BY DEF BandwidthTypeOK
  <2>2. QED
    BY <1>1, <2>1, BandwidthAssumption
<1>3. a.window <= clock' /\ a.used <= charged'[a.window]
  BY <1>1, <1>2, BandwidthAssumption DEF Grows
<1>4. QED
  BY <1>1, <1>3 DEF FairAfter

LEMMA GrowsWhenSame ==
    ASSUME BandwidthTypeOK, UNCHANGED <<clock, charged>>
    PROVE  Grows /\ (Antitone => Antitone')
<1>1. clock \in Nat /\ \A w \in 0 .. MaxClock : charged[w] \in Nat
  BY BandwidthAssumption DEF BandwidthTypeOK
<1>2. QED
  BY <1>1 DEF Grows, Antitone

(* The copies a step leaves alone. *)
LEMMA RestFair ==
    ASSUME BandwidthInv, BandwidthTypeOK', Grows
    PROVE  /\ UNCHANGED accounts => AccountsFair'
           /\ UNCHANGED session => SessionsFair'
           /\ UNCHANGED saver => SaverFair'
           /\ UNCHANGED row => RowFair'
<1>1. UNCHANGED accounts => AccountsFair'
  BY StaysFair DEF BandwidthInv, CopiesFair, Fair, FairAfter, AccountsFair
<1>2. UNCHANGED session => SessionsFair'
  BY StaysFair DEF BandwidthInv, CopiesFair, Fair, FairAfter, SessionsFair, At
<1>3. UNCHANGED saver => SaverFair'
  BY StaysFair DEF BandwidthInv, CopiesFair, Fair, FairAfter, SaverFair
<1>4. UNCHANGED row => RowFair'
  BY StaysFair DEF BandwidthInv, CopiesFair, Fair, FairAfter, RowFair
<1>5. QED
  BY <1>1, <1>2, <1>3, <1>4

LEMMA AppendFair ==
    ASSUME BandwidthInv, BandwidthTypeOK', Grows, NEW a, Fair(a),
           accounts' = Append(accounts, a)
    PROVE  AccountsFair'
<1>1. a \in Account /\ BandwidthTypeOK
  BY DEF Fair, BandwidthInv
<1>2. /\ Len(accounts') = Len(accounts) + 1 /\ Len(accounts) \in Nat
      /\ accounts'[Len(accounts) + 1] = a
      /\ \A i \in 1 .. Len(accounts) : accounts'[i] = accounts[i]
  BY <1>1, AppendAccount
<1>3. SUFFICES ASSUME NEW i \in 1 .. Len(accounts) + 1
               PROVE  FairAfter(accounts'[i])
  BY <1>2 DEF AccountsFair, Fair, FairAfter
<1>4. CASE i = Len(accounts) + 1
  BY <1>1, <1>2, <1>4, StaysFair
<1>5. CASE i \in 1 .. Len(accounts)
  <2>1. Fair(accounts[i])
    BY <1>5 DEF BandwidthInv, CopiesFair, AccountsFair
  <2>2. QED
    BY <1>1, <1>2, <1>5, <2>1, StaysFair
<1>6. QED
  BY <1>2, <1>3, <1>4, <1>5

(* One account is replaced by one that is fair after the step. *)
LEMMA ReplaceFair ==
    ASSUME BandwidthInv, BandwidthTypeOK', Grows,
           NEW i \in 1 .. Len(accounts), NEW a \in Account, FairAfter(a),
           accounts' = [accounts EXCEPT ![i] = a]
    PROVE  AccountsFair'
<1>1. BandwidthTypeOK
  BY DEF BandwidthInv
<1>2. /\ Len(accounts') = Len(accounts) /\ accounts'[i] = a
      /\ \A j \in 1 .. Len(accounts) : j # i => accounts'[j] = accounts[j]
  BY <1>1, SameLength
<1>3. SUFFICES ASSUME NEW j \in 1 .. Len(accounts)
               PROVE  FairAfter(accounts'[j])
  BY <1>2 DEF AccountsFair, Fair, FairAfter
<1>4. CASE j = i
  BY <1>2, <1>4
<1>5. CASE j # i
  <2>1. Fair(accounts[j])
    BY DEF BandwidthInv, CopiesFair, AccountsFair
  <2>2. QED
    BY <1>1, <1>2, <1>5, <2>1, StaysFair
<1>6. QED
  BY <1>4, <1>5

(* A session moves to a state that carries no copy. *)
LEMMA MoveFair ==
    ASSUME BandwidthInv, BandwidthTypeOK', Grows, NEW s \in Sessions, NEW st,
           Go(s, st), st.pc # "insert"
    PROVE  SessionsFair'
<1>1. /\ BandwidthTypeOK /\ session \in [Sessions -> Session]
      /\ \A t \in Sessions : At(t, "insert") => Fair(session[t].usage)
  BY DEF BandwidthInv, CopiesFair, SessionsFair, BandwidthTypeOK
<1>2. \A t \in Sessions : At(t, "insert") => FairAfter(session[t].usage)
  BY <1>1, StaysFair DEF At
<1>3. QED
  BY <1>1, <1>2 DEF SessionsFair, At, Go, Fair, FairAfter

LEMMA EntryFair ==
    ASSUME BandwidthInv, BandwidthTypeOK', Grows, NEW s \in Sessions,
           NEW size, NEW pc \in {"check", "record"}, Entry(s, pc, size)
    PROVE  AccountsFair' /\ SessionsFair'
<1>1. BandwidthTypeOK
  BY DEF BandwidthInv
<1>2. AccountsFair'
  BY <1>1, NewFair, AppendFair, RestFair DEF Entry, MemoryUnchanged
<1>3. PICK i : Go(s, [pc |-> pc, account |-> i, size |-> size])
  BY DEF Entry
<1>4. [pc |-> pc, account |-> i, size |-> size].pc # "insert"
  OBVIOUS
<1>5. SessionsFair'
  BY <1>3, <1>4, MoveFair
<1>6. QED
  BY <1>2, <1>5

LEMMA FairSessions ==
    ASSUME BandwidthInv, BandwidthTypeOK', NEW s \in Sessions,
           \/ LoadUser(s) \/ LoadFails(s) \/ InsertLoaded(s)
           \/ \E size \in Sizes : CheckBandwidth(s, size)
           \/ Checked(s) \/ RecordBandwidth(s) \/ Leave(s)
    PROVE  CopiesFair' /\ Antitone'
<1>0. /\ BandwidthTypeOK /\ Antitone /\ UNCHANGED <<clock, charged, row, saver>>
      /\ session \in [Sessions -> Session]
  BY DEF BandwidthInv, BandwidthTypeOK, LoadUser, LoadFails, InsertLoaded,
         CheckBandwidth, Checked, RecordBandwidth, Leave
<1>1. Grows /\ Antitone'
  BY <1>0, GrowsWhenSame
<1>2. SaverFair' /\ RowFair'
  BY <1>0, <1>1, RestFair
<1>3. Out.pc # "insert" /\ In.pc # "insert"
  BY DEF Out, In
<1>4. SUFFICES AccountsFair' /\ SessionsFair'
  BY <1>1, <1>2 DEF CopiesFair
<1>5. CASE LoadUser(s)
  <2>1. AccountsFair'
    BY <1>1, <1>5, RestFair DEF LoadUser, MemoryUnchanged
  <2>2. Fair(Loaded)
    BY <1>0, NewFair DEF Loaded, BandwidthInv, CopiesFair, RowFair
  <2>3. FairAfter(Loaded)
    BY <1>0, <1>1, <2>2, StaysFair
  <2>4. session' = [session EXCEPT ![s] = [pc |-> "insert", usage |-> Loaded]]
    BY <1>5 DEF LoadUser, Go
  <2>5. \A t \in Sessions : At(t, "insert") => FairAfter(session[t].usage)
    BY <1>0, <1>1, StaysFair DEF BandwidthInv, CopiesFair, SessionsFair
  <2>6. ASSUME NEW t \in Sessions, session'[t].pc = "insert"
        PROVE  FairAfter(session'[t].usage)
    BY <1>0, <2>3, <2>4, <2>5, <2>6 DEF At
  <2>7. QED
    BY <2>1, <2>6 DEF SessionsFair, At, Fair, FairAfter
<1>6. CASE LoadFails(s)
  BY <1>1, <1>3, <1>6, RestFair, MoveFair DEF LoadFails, MemoryUnchanged
<1>7. CASE InsertLoaded(s)
  <2>1. Fair(session[s].usage)
    BY <1>7 DEF InsertLoaded, BandwidthInv, CopiesFair, SessionsFair
  <2>2. AccountsFair'
    BY <1>1, <1>7, <2>1, AppendFair DEF InsertLoaded
  <2>3. SessionsFair'
    BY <1>1, <1>3, <1>7, MoveFair DEF InsertLoaded
  <2>4. QED
    BY <2>2, <2>3
<1>8. CASE \E size \in Sizes : CheckBandwidth(s, size)
  BY <1>1, <1>8, EntryFair DEF CheckBandwidth
<1>9. CASE Checked(s)
  <2> DEFINE i == session[s].account
             a == Renewed(accounts[i])
             st == [pc |-> "send", account |-> i, size |-> session[s].size]
  <2>1. i \in 1 .. Len(accounts) /\ a \in Account /\ (a = accounts[i] \/ a = New)
        /\ accounts' = [accounts EXCEPT ![i] = a]
    BY <1>0, <1>9, Referred, RenewedType DEF Checked
  <2>2. Fair(a)
    BY <1>0, <2>1, NewFair DEF BandwidthInv, CopiesFair, AccountsFair
  <2>3. AccountsFair'
    BY <1>0, <1>1, <2>1, <2>2, StaysFair, ReplaceFair
  <2>4. Go(s, st) \/ Go(s, In)
    BY <1>0, <1>9, Referred DEF Checked, Go
  <2>5. st.pc # "insert"
    OBVIOUS
  <2>6. SessionsFair'
    BY <1>1, <1>3, <2>4, <2>5, MoveFair
  <2>7. QED
    BY <2>3, <2>6
<1>10. CASE RecordBandwidth(s)
  BY <1>1, <1>10, EntryFair DEF RecordBandwidth
<1>11. CASE Leave(s)
  BY <1>1, <1>3, <1>11, RestFair, MoveFair DEF Leave, MemoryUnchanged
<1>12. QED
  BY <1>5, <1>6, <1>7, <1>8, <1>9, <1>10, <1>11

(* What is charged to an account is charged to every window that began.    *)
LEMMA FairCharge ==
    ASSUME BandwidthInv, BandwidthTypeOK', NEW s \in Sessions, Charge(s)
    PROVE  CopiesFair' /\ Antitone'
<1> DEFINE i == session[s].account
           a == [accounts[i] EXCEPT !.used = @ + session[s].size]
<1>0. /\ BandwidthTypeOK /\ accounts \in Seq(Account)
      /\ charged \in [0 .. MaxClock -> Nat] /\ clock \in Nat /\ MaxClock \in Nat
  <2>1. /\ BandwidthTypeOK /\ accounts \in Seq(Account)
        /\ charged \in [0 .. MaxClock -> Nat] /\ clock \in 0 .. MaxClock
    BY DEF BandwidthInv, BandwidthTypeOK
  <2>2. QED
    BY <2>1, BandwidthAssumption
<1>1. i \in 1 .. Len(accounts) /\ accounts[i] \in Account /\ session[s].size \in Nat
  BY <1>0, Referred DEF Charge
<1>2. \A w \in 0 .. MaxClock :
          /\ charged[w] \in Nat
          /\ w <= clock => charged'[w] = charged[w] + session[s].size
          /\ ~(w <= clock) => charged'[w] = charged[w]
  BY <1>0 DEF Charge
<1>3. Grows
  BY <1>0, <1>1, <1>2 DEF Grows, Charge
<1>4. Antitone'
  <2>1. SUFFICES ASSUME NEW v \in 0 .. MaxClock, NEW w \in 0 .. MaxClock, v <= w
                 PROVE  charged'[w] <= charged'[v]
    BY DEF Antitone
  <2>2. charged[w] <= charged[v] /\ charged[v] \in Nat /\ charged[w] \in Nat
    BY <1>2, <2>1 DEF BandwidthInv, Antitone
  <2> DEFINE z == session[s].size
  <2>3. z \in Nat
    BY <1>1
  <2> HIDE DEF z
  <2>4. CASE w <= clock
    <3>1. v <= clock /\ charged'[v] = charged[v] + z /\ charged'[w] = charged[w] + z
      BY <1>0, <1>2, <2>1, <2>4 DEF z
    <3>2. QED
      BY <2>2, <2>3, <3>1
  <2>5. CASE ~(w <= clock)
    <3>1. charged'[w] = charged[w]
          /\ (charged'[v] = charged[v] + z \/ charged'[v] = charged[v])
      BY <1>2, <2>5 DEF z
    <3>2. QED
      BY <2>2, <2>3, <3>1
  <2>6. QED
    BY <2>4, <2>5
<1>5. Fair(accounts[i])
  BY <1>1 DEF BandwidthInv, CopiesFair, AccountsFair
<1>6. a \in Account /\ a.used = accounts[i].used + session[s].size
      /\ a.window = accounts[i].window
  <2>0. accounts[i].used \in Nat
    BY <1>1 DEF Account
  <2>1. accounts[i].used + session[s].size \in Nat
    BY <1>1, <2>0
  <2>2. QED
    BY <1>1, <2>1 DEF Account
<1>7. FairAfter(a)
  <2>1. a.window \in 0 .. MaxClock /\ a.window <= clock /\ UNCHANGED clock
        /\ accounts[i].used <= charged[a.window] /\ accounts[i].used \in Nat
    BY <1>5, <1>6 DEF Fair, Account, Charge
  <2> DEFINE z == session[s].size
             n == accounts[i].used
             w == a.window
  <2>2. z \in Nat /\ charged[w] \in Nat /\ charged'[w] = charged[w] + z
    BY <1>1, <1>2, <2>1
  <2>3. a.used = n + z
    BY <1>6
  <2>4. a \in Account /\ w <= clock' /\ n <= charged[w] /\ n \in Nat
    BY <1>6, <2>1
  <2> HIDE DEF a, z, n
  <2>5. a.used <= charged'[w]
    BY <2>2, <2>3, <2>4
  <2>6. QED
    BY <2>4, <2>5 DEF FairAfter
<1>8. accounts' = [accounts EXCEPT ![i] = a]
  BY <1>0, <1>1 DEF Charge
<1>9. AccountsFair'
  BY <1>1, <1>3, <1>6, <1>7, <1>8, ReplaceFair
<1>10. SessionsFair'
  BY <1>3, MoveFair DEF Charge, In
<1>11. SaverFair' /\ RowFair'
  BY <1>3, RestFair DEF Charge
<1>12. QED
  BY <1>4, <1>9, <1>10, <1>11 DEF CopiesFair

LEMMA FairOthers ==
    ASSUME BandwidthInv, BandwidthTypeOK',
           Persist \/ PersistRead \/ PersistWrite \/ Restart \/ Tick
    PROVE  CopiesFair' /\ Antitone'
<1>0. BandwidthTypeOK /\ Antitone /\ UNCHANGED charged
  BY DEF BandwidthInv, Persist, PersistRead, PersistWrite, Restart, Tick
<1>1. Grows /\ Antitone'
  <2>1. CASE UNCHANGED clock
    BY <1>0, <2>1, GrowsWhenSame
  <2>2. CASE Tick
    BY <1>0, <2>2, BandwidthAssumption DEF Tick, Grows, Antitone, BandwidthTypeOK
  <2>3. QED
    BY <2>1, <2>2 DEF Persist, PersistRead, PersistWrite, Restart
<1>2. CASE Persist
  <2>1. SaverFair'
    BY <1>2 DEF Persist, SaverFair
  <2>2. QED
    BY <1>1, <1>2, <2>1, RestFair DEF Persist, MemoryUnchanged, CopiesFair
<1>3. CASE PersistRead
  <2>1. saver.account \in 1 .. Len(accounts)
    BY <1>0, <1>3 DEF PersistRead, BandwidthTypeOK
  <2>2. Fair(accounts[saver.account])
    BY <2>1 DEF BandwidthInv, CopiesFair, AccountsFair
  <2>3. FairAfter(accounts[saver.account])
    BY <1>0, <1>1, <2>2, StaysFair
  <2>4. SaverFair'
    BY <1>3, <2>3 DEF PersistRead, SaverFair, Fair, FairAfter
  <2>5. QED
    BY <1>1, <1>3, <2>4, RestFair DEF PersistRead, MemoryUnchanged, CopiesFair
<1>4. CASE PersistWrite
  <2> DEFINE u == saver.usage
             r == [u EXCEPT !.window = WholeSecond(@)]
  <2>1. Fair(u)
    BY <1>4 DEF PersistWrite, BandwidthInv, CopiesFair, SaverFair
  <2>2. r \in Account /\ r.used = u.used /\ r.window <= u.window
    BY <2>1, SavedAccount DEF Fair
  <2>3. Fair(r)
    <3>1. /\ r.window \in 0 .. MaxClock /\ u.window \in 0 .. MaxClock
          /\ u.used \in Nat /\ u.window <= clock /\ u.used <= charged[u.window]
      BY <2>1, <2>2 DEF Fair, Account
    <3> HIDE DEF r, u
    <3>a. charged \in [0 .. MaxClock -> Nat] /\ clock \in 0 .. MaxClock
      BY <1>0 DEF BandwidthTypeOK
    <3>2. /\ charged[u.window] <= charged[r.window]
          /\ charged[u.window] \in Nat /\ charged[r.window] \in Nat /\ clock \in Nat
      BY <1>0, <2>2, <3>1, <3>a, BandwidthAssumption DEF Antitone
    <3>3. r.window <= clock /\ r.used <= charged[r.window]
      BY <2>2, <3>1, <3>2, BandwidthAssumption
    <3>4. QED
      BY <2>2, <3>3 DEF Fair
  <2>4. RowFair'
    <3>1. FairAfter(r)
      BY <1>0, <1>1, <2>3, StaysFair
    <3>2. row' = row \/ row' = r
      BY <1>4 DEF PersistWrite
    <3> HIDE DEF r
    <3>3. CASE row' = r
      BY <3>1, <3>3 DEF RowFair, Fair, FairAfter
    <3>4. QED
      BY <1>1, <3>2, <3>3, RestFair
  <2>5. SaverFair'
    BY <1>4 DEF PersistWrite, SaverFair
  <2>6. QED
    BY <1>1, <1>4, <2>4, <2>5, RestFair DEF PersistWrite, MemoryUnchanged, CopiesFair
<1>5. CASE Restart
  <2>1. AccountsFair'
    BY <1>5 DEF Restart, AccountsFair
  <2>2. SessionsFair'
    BY <1>5 DEF Restart, SessionsFair, At, Out
  <2>3. SaverFair'
    BY <1>5 DEF Restart, SaverFair
  <2>4. QED
    BY <1>1, <1>5, <2>1, <2>2, <2>3, RestFair DEF Restart, CopiesFair
<1>6. CASE Tick
  BY <1>1, <1>6, RestFair DEF Tick, MemoryUnchanged, CopiesFair
<1>7. QED
  BY <1>2, <1>3, <1>4, <1>5, <1>6

LEMMA InvNext ==
    ASSUME BandwidthInv, [BandwidthNext]_bandwidthVars
    PROVE  BandwidthInv'
<1>1. BandwidthTypeOK'
  BY TypeNext DEF BandwidthInv
<1>2. CASE UNCHANGED bandwidthVars
  BY <1>1, <1>2, GrowsWhenSame, RestFair DEF bandwidthVars, BandwidthInv, CopiesFair
<1>3. QED
  BY <1>1, <1>2, FairSessions, FairCharge, FairOthers DEF BandwidthNext, BandwidthInv

LEMMA InvInit ==
    ASSUME BandwidthInit
    PROVE  BandwidthInv
<1>1. BandwidthTypeOK
  BY TypeInit
<1>2. Antitone
  BY DEF BandwidthInit, Antitone
<1>3. CopiesFair
  BY DEF BandwidthInit, CopiesFair, AccountsFair, SessionsFair, SaverFair,
         RowFair, At, Out
<1>4. QED
  BY <1>1, <1>2, <1>3 DEF BandwidthInv

LEMMA InvNeverOvercharged ==
    ASSUME BandwidthInv
    PROVE  NeverOvercharged
<1>1. SUFFICES ASSUME NEW a \in Copies
               PROVE  a.used <= charged[a.window]
  BY DEF NeverOvercharged
<1>2. DOMAIN accounts = 1 .. Len(accounts)
  BY DEF BandwidthInv, BandwidthTypeOK
<1>3. Fair(a)
  BY <1>2 DEF Copies, BandwidthInv, CopiesFair, AccountsFair, SessionsFair,
              SaverFair, RowFair
<1>4. QED
  BY <1>3 DEF Fair

(***************************************************************************)
(* No copy of an account ever counts more than was charged since its       *)
(* window began: logins that replace the account under a transfer, saves   *)
(* of an account that is out of the map and the rounding of the window in  *)
(* the database can lose charges and never invent one.                     *)
(***************************************************************************)
THEOREM NeverOverchargedAlways == BandwidthSpec => []NeverOvercharged
<1>1. BandwidthInv /\ [BandwidthNext]_bandwidthVars => BandwidthInv'
  BY InvNext
<1>2. QED
  BY <1>1, InvInit, InvNeverOvercharged, PTL DEF BandwidthSpec

-----------------------------------------------------------------------------
Justified ==
    \A s \in Sessions : At(s, "check") /\ session'[s] = In =>
        \E w \in 0 .. clock : /\ clock < w + Period
                              /\ charged[w] + session[s].size > Limit

(* Only the check itself takes a session from "check" back to "in". *)
LEMMA OnlyCheckedRefuses ==
    ASSUME BandwidthTypeOK, BandwidthNext, NEW s \in Sessions,
           At(s, "check"), session'[s] = In
    PROVE  Checked(s)
<1>0. session \in [Sessions -> Session] /\ session[s].pc = "check"
      /\ session'[s].pc = "in" /\ session'[s] # session[s]
  BY DEF BandwidthTypeOK, At, In
<1>1. ASSUME NEW t \in Sessions, NEW st, Go(t, st)
      PROVE  t = s
  BY <1>0, <1>1 DEF Go
<1>2. ASSUME NEW t \in Sessions,
             \/ LoadUser(t) \/ LoadFails(t) \/ InsertLoaded(t)
             \/ \E size \in Sizes : CheckBandwidth(t, size)
             \/ RecordBandwidth(t) \/ Charge(t) \/ Leave(t)
      PROVE  FALSE
  <2>1. t = s
    BY <1>1, <1>2 DEF LoadUser, LoadFails, InsertLoaded, CheckBandwidth,
                      RecordBandwidth, Charge, Leave, Entry
  <2>2. QED
    BY <1>0, <1>2, <2>1 DEF LoadUser, LoadFails, InsertLoaded, CheckBandwidth,
                            RecordBandwidth, Charge, Leave, At
<1>3. ASSUME NEW t \in Sessions, Checked(t)
      PROVE  t = s
  BY <1>0, <1>3 DEF Checked, Go
<1>4. ~(Persist \/ PersistRead \/ PersistWrite \/ Restart \/ Tick)
  BY <1>0 DEF Persist, PersistRead, PersistWrite, Restart, Tick, Out
<1>5. QED
  BY <1>2, <1>3, <1>4 DEF BandwidthNext

LEMMA RefusedBeyond ==
    ASSUME BandwidthInv, Period # 0, NEW s \in Sessions, Checked(s),
           session'[s] = In
    PROVE  \E w \in 0 .. clock : /\ clock < w + Period
                                 /\ charged[w] + session[s].size > Limit
<1> DEFINE old == accounts[session[s].account]
           size == session[s].size
<1>0. /\ BandwidthTypeOK /\ clock \in Nat /\ MaxClock \in Nat /\ clock <= MaxClock
      /\ charged \in [0 .. MaxClock -> Nat] /\ Period \in Nat /\ Limit \in Nat
      /\ session \in [Sessions -> Session]
  BY BandwidthAssumption DEF BandwidthInv, BandwidthTypeOK
<1>1. /\ session[s].account \in 1 .. Len(accounts) /\ old \in Account
      /\ size \in Nat /\ session[s] = [pc |-> session[s].pc,
                            account |-> session[s].account, size |-> size]
  BY <1>0, Referred DEF Checked
<1>2. Fair(old)
  BY <1>1 DEF BandwidthInv, CopiesFair, AccountsFair
<1>3. ~Allows(Renewed(old), size)
  <2>1. CASE session' = [session EXCEPT ![s].pc = "send"]
    <3>1. session'[s].pc = "send"
      BY <1>0, <1>1, <2>1
    <3>2. QED
      BY <3>1 DEF In
  <2>2. QED
    BY <2>1 DEF Checked
<1>4. /\ old.window \in Nat /\ old.window <= clock /\ old.used \in Nat
      /\ old.used <= charged[old.window] /\ charged[old.window] \in Nat
  BY <1>0, <1>1, <1>2 DEF Fair, Account
<1>5. CASE clock - old.window >= Period
  <2>1. Renewed(old) = New /\ New.used = 0
    BY <1>5 DEF Renewed, New
  <2>2. size > Limit
    BY <1>0, <1>1, <1>3, <2>1 DEF Allows
  <2>3. clock \in 0 .. clock /\ clock < clock + Period /\ charged[clock] \in Nat
    BY <1>0
  <2>4. charged[clock] + size > Limit
    BY <1>0, <1>1, <2>2, <2>3
  <2>5. QED
    BY <2>3, <2>4
<1>6. CASE ~(clock - old.window >= Period)
  <2>1. Renewed(old) = old
    BY <1>6 DEF Renewed
  <2>2. old.used + size > Limit
    BY <1>0, <1>1, <1>3, <1>4, <2>1 DEF Allows
  <2>3. old.window \in 0 .. clock /\ clock < old.window + Period
    BY <1>0, <1>4, <1>6
  <2>4. charged[old.window] + size > Limit
    BY <1>0, <1>1, <1>4, <2>2
  <2>5. QED
    BY <2>3, <2>4
<1>7. QED
  BY <1>5, <1>6

(***************************************************************************)
(* With a period that is not zero, a 403 is always deserved: what was      *)
(* charged in a window that has not expired, with the transfer that was    *)
(* refused, is beyond the limit.                                           *)
(***************************************************************************)
THEOREM RefusalsJustifiedAlways ==
    ASSUME Period # 0
    PROVE  BandwidthSpec => RefusalsJustified
<1>1. BandwidthInv /\ [BandwidthNext]_bandwidthVars => BandwidthInv'
  BY InvNext
<1>2. BandwidthInv /\ [BandwidthNext]_bandwidthVars => [Justified]_bandwidthVars
  BY OnlyCheckedRefuses, RefusedBeyond DEF Justified, BandwidthInv
<1>3. QED
  BY <1>1, <1>2, InvInit, PTL DEF BandwidthSpec, RefusalsJustified, Justified
=============================================================================
