----------------------------- MODULE Bandwidth ------------------------------
(***************************************************************************)
(* The bandwidth account of one user with a limit (users share nothing):   *)
(* sessions of the user check it before a transfer and charge it after,    *)
(* every login loads it from the database, and a task saves it once a      *)
(* minute.  Each account in memory is behind an Arc: a session clones the  *)
(* Arc out of the map and waits for the lock of its account afterwards, by *)
(* which time a login may have put another account into the map.           *)
(*                                                                         *)
(* Uploads and downloads are added up: only their sum is compared.         *)
(***************************************************************************)
EXTENDS Naturals, Sequences

CONSTANTS
    Sessions,
    Limit,        \* bandwidth_limit, in units of transfer
    Sizes,        \* sizes of transfers
    Second,       \* ticks of the clock in a second
    Period,       \* bandwidth_period, in ticks
    NoRow,        \* no row in user_usage
    MaxClock,     \* bound: ticks
    MaxLogins,    \* bound: logins
    MaxTransfers  \* bound: transfers

ASSUME BandwidthAssumption ==
    /\ Limit \in Nat /\ Sizes \subseteq Nat
    /\ Second \in Nat \ {0} /\ Period \in Nat
    /\ MaxClock \in Nat /\ MaxLogins \in Nat
    /\ MaxTransfers \in Nat
    /\ NoRow \notin [used : Nat, window : 0 .. MaxClock]

VARIABLES
    clock,
    accounts,  \* every BandwidthState of this run of the server
    current,   \* the one the map UsageTracker.bandwidth holds, 0 for none
    row,       \* table user_usage
    session,   \* per session: how far its command is
    saver,     \* the task that persists
    left,      \* what is left of the bounds
    charged    \* history: charged[w] bytes were charged at w or later

bandwidthVars == <<clock, accounts, current, row, session, saver, left, charged>>

Account == [used : Nat, window : 0 .. MaxClock]

Session ==
    [pc : {"out", "in"}]
      \cup [pc : {"insert"}, usage : Account]
      \cup [pc : {"check", "send", "record"}, account : Nat, size : Sizes]

Saver ==
    [pc : {"idle"}] \cup [pc : {"read"}, account : Nat]
      \cup [pc : {"write"}, usage : Account]

Out == [pc |-> "out"]
In  == [pc |-> "in"]

BandwidthInit ==
    /\ clock = 0
    /\ accounts = <<>> /\ current = 0
    /\ row = NoRow
    /\ session = [s \in Sessions |-> Out]
    /\ saver = [pc |-> "idle"]
    /\ left = [login |-> MaxLogins, transfer |-> MaxTransfers]
    /\ charged = [w \in 0 .. MaxClock |-> 0]

Spend(what) == left[what] > 0 /\ left' = [left EXCEPT ![what] = @ - 1]
At(s, pc)   == session[s].pc = pc
Go(s, st)   == session' = [session EXCEPT ![s] = st]
New         == [used |-> 0, window |-> clock]
MemoryUnchanged == UNCHANGED <<accounts, current>>

-----------------------------------------------------------------------------
(* load_user at AUTHINFO PASS: read the row, then replace what is in the map. *)

\* get_user_usage: without a row nothing is used, and the window starts now.
Loaded == IF row = NoRow THEN New ELSE row

LoadUser(s) ==
    /\ At(s, "out") /\ Spend("login")
    /\ Go(s, [pc |-> "insert", usage |-> Loaded])
    /\ MemoryUnchanged /\ UNCHANGED <<clock, row, saver, charged>>

\* get_user_usage fails: the login succeeds without it.
LoadFails(s) ==
    /\ At(s, "out") /\ Spend("login")
    /\ Go(s, In)
    /\ MemoryUnchanged /\ UNCHANGED <<clock, row, saver, charged>>

InsertLoaded(s) ==
    /\ At(s, "insert")
    /\ accounts' = Append(accounts, session[s].usage)
    /\ current' = Len(accounts) + 1
    /\ Go(s, In)
    /\ UNCHANGED <<clock, row, saver, left, charged>>

-----------------------------------------------------------------------------
(* A transfer: check_bandwidth, the transfer, record_bandwidth. *)

\* entry(username).or_insert_with(default).clone(), by session s.
Entry(s, pc, size) ==
    IF current = 0
    THEN /\ accounts' = Append(accounts, New)
         /\ current' = Len(accounts) + 1
         /\ Go(s, [pc |-> pc, account |-> Len(accounts) + 1, size |-> size])
    ELSE /\ MemoryUnchanged
         /\ Go(s, [pc |-> pc, account |-> current, size |-> size])

CheckBandwidth(s, size) ==
    /\ At(s, "in") /\ Spend("transfer")
    /\ Entry(s, "check", size)
    /\ UNCHANGED <<clock, row, saver, charged>>

\* Mutant: a new window starts with the use of the old one.
RenewedKeepsUse(a) ==
    IF clock - a.window >= Period THEN [a EXCEPT !.window = clock] ELSE a

\* An expired window is replaced by an empty one that starts now.
Renewed(a) == IF clock - a.window >= Period THEN New ELSE a

\* Mutant: the last unit of the limit cannot be used.
AllowsBelow(a, size) == a.used + size < Limit

Allows(a, size) == a.used + size <= Limit

\* 403 or go on.
Checked(s) ==
    /\ At(s, "check")
    /\ LET i == session[s].account
           a == Renewed(accounts[i])
       IN  /\ accounts' = [accounts EXCEPT ![i] = a]
           /\ \/ Allows(a, session[s].size)
                 /\ session' = [session EXCEPT ![s].pc = "send"]
              \/ ~Allows(a, session[s].size) /\ Go(s, In)
    /\ UNCHANGED <<clock, current, row, saver, left, charged>>

\* The transfer is done: record_bandwidth looks the account up again.
RecordBandwidth(s) ==
    /\ At(s, "send")
    /\ Entry(s, "record", session[s].size)
    /\ UNCHANGED <<clock, row, saver, left, charged>>

Charge(s) ==
    /\ At(s, "record")
    /\ accounts' = [accounts EXCEPT ![session[s].account].used = @ + session[s].size]
    /\ charged' = [w \in 0 .. MaxClock |->
                     IF w <= clock THEN charged[w] + session[s].size ELSE charged[w]]
    /\ Go(s, In)
    /\ UNCHANGED <<clock, current, row, saver, left>>

\* QUIT, or the connection breaks during the transfer: nothing is charged.
Leave(s) ==
    /\ At(s, "in") \/ At(s, "send")
    /\ Go(s, Out)
    /\ MemoryUnchanged /\ UNCHANGED <<clock, row, saver, left, charged>>

-----------------------------------------------------------------------------
(* persist: collect the Arcs, read under the lock, write to the database. *)

Persist ==
    /\ saver.pc = "idle" /\ current # 0
    /\ saver' = [pc |-> "read", account |-> current]
    /\ MemoryUnchanged /\ UNCHANGED <<clock, row, session, left, charged>>

PersistRead ==
    /\ saver.pc = "read"
    /\ saver' = [pc |-> "write", usage |-> accounts[saver.account]]
    /\ MemoryUnchanged /\ UNCHANGED <<clock, row, session, left, charged>>

\* Mutant: the saved window starts with the next second.
WholeSecondUp(w) == ((w + Second - 1) \div Second) * Second

\* format("%Y-%m-%d %H:%M:%S"): the database holds whole seconds.
WholeSecond(w) == (w \div Second) * Second

\* set_user_usage; an error is only logged.
PersistWrite ==
    /\ saver.pc = "write"
    /\ row' \in {row, [saver.usage EXCEPT !.window = WholeSecond(@)]}
    /\ saver' = [pc |-> "idle"]
    /\ MemoryUnchanged /\ UNCHANGED <<clock, session, left, charged>>

-----------------------------------------------------------------------------
\* The process ends and starts again: only the database is left.
Restart ==
    /\ accounts' = <<>> /\ current' = 0
    /\ session' = [s \in Sessions |-> Out]
    /\ saver' = [pc |-> "idle"]
    /\ UNCHANGED <<clock, row, left, charged>>

Tick ==
    /\ clock < MaxClock /\ clock' = clock + 1
    /\ MemoryUnchanged /\ UNCHANGED <<row, session, saver, left, charged>>

BandwidthNext ==
    \/ \E s \in Sessions :
          \/ LoadUser(s) \/ LoadFails(s) \/ InsertLoaded(s)
          \/ \E size \in Sizes : CheckBandwidth(s, size)
          \/ Checked(s) \/ RecordBandwidth(s) \/ Charge(s) \/ Leave(s)
    \/ Persist \/ PersistRead \/ PersistWrite
    \/ Restart \/ Tick

BandwidthSpec == BandwidthInit /\ [][BandwidthNext]_bandwidthVars

-----------------------------------------------------------------------------
(***************************************************************************)
(* Accounts, sessions and the saver have their types, and every reference  *)
(* to an account is to one that exists.                                    *)
(***************************************************************************)
BandwidthTypeOK ==
    /\ clock \in 0 .. MaxClock
    /\ accounts \in Seq(Account)
    /\ current \in 0 .. Len(accounts)
    /\ row \in Account \cup {NoRow}
    /\ session \in [Sessions -> Session]
    /\ saver \in Saver
    /\ left \in [{"login", "transfer"} -> Nat]
    /\ charged \in [0 .. MaxClock -> Nat]
    /\ \A s \in Sessions :
          session[s].pc \in {"check", "send", "record"}
              => session[s].account \in 1 .. Len(accounts)
    /\ saver.pc = "read" => saver.account \in 1 .. Len(accounts)

\* Every copy of the user's account there is.
Copies ==
    {accounts[i] : i \in DOMAIN accounts}
      \cup {session[s].usage : s \in {x \in Sessions : At(x, "insert")}}
      \cup (IF saver.pc = "write" THEN {saver.usage} ELSE {})
      \cup (IF row = NoRow THEN {} ELSE {row})

(***************************************************************************)
(* No user is charged for what was transferred before the window of the    *)
(* account began, or twice: every copy of an account (in the map, held by  *)
(* a session, on its way to or from the database, in the database) counts  *)
(* at most what was charged since the start of the window it carries.      *)
(***************************************************************************)
NeverOvercharged == \A a \in Copies : a.used <= charged[a.window]

(***************************************************************************)
(* A transfer is refused only if the transfers charged since the start of  *)
(* a window that has not expired, with this one, are beyond the limit.     *)
(***************************************************************************)
RefusalsJustified ==
    [][\A s \in Sessions : At(s, "check") /\ session'[s] = In =>
          \E w \in 0 .. clock : /\ clock < w + Period
                                /\ charged[w] + session[s].size > Limit]_bandwidthVars
=============================================================================
