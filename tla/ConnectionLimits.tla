-------------------------- MODULE ConnectionLimits --------------------------
(***************************************************************************)
(* Client sessions and the connection slots of users.  A session reads     *)
(* commands and articles until its input ends or its idle timer fires; it  *)
(* may be reached through the WebSocket bridge.  AUTHINFO takes a slot,    *)
(* the end of the session gives it back.  Sessions run on several threads, *)
(* and the connections map of UsageTracker is a DashMap: a reference       *)
(* returned by get() holds the shard's read lock; entry(), remove() and    *)
(* insert() need the shard to themselves.  A step of the tracker is what   *)
(* happens under one such lock.                                            *)
(***************************************************************************)
EXTENDS Integers, FiniteSets

CONSTANTS
    Users,
    NoUser,
    Admins,      \* users with the admin flag, who are not counted
    Conns,       \* connections
    Bridged,     \* connections that come through the WebSocket bridge
    Limit,       \* max_connections of a user
    Modulus,     \* number of values of a usize
    NoEntry,     \* no counter in the map
    MaxLogins,   \* bound: AUTHINFO PASS with the right password
    MaxErrors    \* bound: connections that break

ASSUME LimitAssumption ==
    /\ NoUser \notin Users /\ Admins \subseteq Users
    /\ Modulus \in Nat \ {0} /\ Limit \in [Users -> 0 .. Modulus - 1]
    /\ NoEntry \notin Int
    /\ IsFiniteSet(Conns) /\ Bridged \subseteq Conns
    /\ MaxLogins \in Nat /\ MaxErrors \in Nat

VARIABLES
    count,    \* UsageTracker.connections
    readers,  \* connections that hold a reference into the map
    conn,     \* per connection: its session, and how far login or close is
    input,    \* per connection: what follows the bytes the session has read
    bridge,   \* per connection: whether a task of the bridge relays for it
    spent,    \* what is used up of the bounds
    slot,     \* history: the user whose slot the connection took last
    upset     \* history: users whose count may be off, see the end

limitVars == <<count, readers, conn, input, bridge, spent, slot, upset>>

\* More input may come; end of file; nothing, ever, and no end of file
\* either; a read or write fails.
Input == {"live", "eof", "silent", "error"}

Conn == [pc : {"closed", "greet", "open", "article", "connect", "close", "drop", "remove",
               "put"},
         name : Users \cup {NoUser}, authenticated : BOOLEAN, admin : BOOLEAN,
         value : 0 .. Modulus - 1]

Fresh == [pc |-> "closed", name |-> NoUser, authenticated |-> FALSE,
          admin |-> FALSE, value |-> 0]

LimitInit ==
    /\ count = [u \in Users |-> NoEntry]
    /\ readers = {}
    /\ conn = [s \in Conns |-> Fresh]
    /\ input = [s \in Conns |-> "live"]
    /\ bridge = [s \in Conns |-> "none"]
    /\ spent = [b \in {"logins", "errors"} |-> 0]
    /\ slot = [s \in Conns |-> NoUser]
    /\ upset = {}

Spend(what, bound) ==
    /\ spent[what] < bound
    /\ spent' = [spent EXCEPT ![what] = @ + 1]

At(s, pc)  == conn[s].pc = pc
Go(s, pc)  == conn' = [conn EXCEPT ![s].pc = pc]
Name(s)    == conn[s].name
Value(u)   == IF count[u] = NoEntry THEN 0 ELSE count[u]
Exclusive  == readers = {}
MapUnchanged == UNCHANGED <<count, readers>>
PeerUnchanged == UNCHANGED <<input, bridge>>

\* Some close has taken the counter of u out of the map to put it back.
Carried(u) == {s \in Conns : At(s, "put") /\ Name(s) = u}

-----------------------------------------------------------------------------
(* Arrival and departure of clients. *)

Accept(s) ==
    /\ At(s, "closed") /\ bridge[s] = "none"
    /\ conn' = [conn EXCEPT ![s] = [Fresh EXCEPT !.pc = "greet"]]
    /\ input' = [input EXCEPT ![s] = "live"]
    /\ bridge' = [bridge EXCEPT ![s] = IF s \in Bridged THEN "up" ELSE "none"]
    /\ MapUnchanged /\ UNCHANGED <<spent, slot, upset>>

\* The client closes its side; the bridge passes a Close frame or the end of
\* the WebSocket stream on by shutting its side down.
Hangup(s) ==
    /\ input[s] = "live" /\ (~At(s, "closed") \/ bridge[s] = "up")
    /\ input' = [input EXCEPT ![s] = "eof"]
    /\ MapUnchanged /\ UNCHANGED <<conn, bridge, spent, slot, upset>>

\* The connection breaks.  On a bridged one `msg?` ends the task that feeds
\* the session before nntp_write.shutdown(): the session is told nothing.
Lost(s) ==
    /\ input[s] = "live" /\ ~At(s, "closed")
    /\ Spend("errors", MaxErrors)
    /\ input' = [input EXCEPT ![s] = IF bridge[s] = "up" THEN "silent"
                                     ELSE "error"]
    /\ MapUnchanged /\ UNCHANGED <<conn, bridge, slot, upset>>

\* The session has closed its socket: the bridge closes the WebSocket and
\* waits for the task that reads it.
BridgeEnds(s) ==
    /\ At(s, "closed") /\ bridge[s] = "up" /\ input[s] # "live"
    /\ bridge' = [bridge EXCEPT ![s] = "none"]
    /\ MapUnchanged /\ UNCHANGED <<conn, input, spent, slot, upset>>

-----------------------------------------------------------------------------
(* The loop of handle_client. *)

Greet(s) ==
    /\ At(s, "greet") /\ input[s] # "error"
    /\ Go(s, "open")
    /\ MapUnchanged /\ PeerUnchanged /\ UNCHANGED <<spent, slot, upset>>

\* AUTHINFO USER: the pending name and the session's name are one field.
AuthUser(s, u) ==
    /\ At(s, "open") /\ input[s] = "live"
    /\ conn' = [conn EXCEPT ![s].name = u]
    /\ MapUnchanged /\ PeerUnchanged /\ UNCHANGED <<spent, slot, upset>>

Authenticate(s, admin) ==
    conn' = [conn EXCEPT ![s].pc = "open", ![s].authenticated = TRUE,
                         ![s].admin = admin]

\* AUTHINFO PASS with the right password.
AuthPass(s) ==
    /\ At(s, "open") /\ input[s] = "live" /\ Name(s) # NoUser
    /\ Spend("logins", MaxLogins)
    /\ \/ Name(s) \in Admins /\ Authenticate(s, TRUE)
       \/ Name(s) \notin Admins /\ Go(s, "connect")
    /\ MapUnchanged /\ PeerUnchanged /\ UNCHANGED <<slot, upset>>

\* Another login of this session has a slot that its close will not release.
Abandons(s) == IF slot[s] = NoUser THEN {} ELSE {slot[s]}

TryConnect(s) ==
    /\ At(s, "connect") /\ Exclusive
    /\ LET u == Name(s)
       IN  \/ /\ Value(u) >= Limit[u]
              /\ count' = [count EXCEPT ![u] = Value(u)]
              /\ Go(s, "open")
              /\ UNCHANGED <<slot, upset>>
           \/ /\ Value(u) < Limit[u]
              /\ count' = [count EXCEPT ![u] = Value(u) + 1]
              /\ Authenticate(s, FALSE)
              /\ slot' = [slot EXCEPT ![s] = u]
              /\ upset' = upset \cup Abandons(s)
                            \cup (IF Carried(u) # {} THEN {u} ELSE {})
    /\ PeerUnchanged /\ UNCHANGED <<readers, spent>>

\* POST, IHAVE or TAKETHIS: read_message, which knows neither a timeout nor
\* the end of the input.
BeginArticle(s) ==
    /\ At(s, "open") /\ input[s] = "live"
    /\ Go(s, "article")
    /\ MapUnchanged /\ PeerUnchanged /\ UNCHANGED <<spent, slot, upset>>

\* The terminating dot, or a failing read, which the loop only logs.
EndArticle(s) ==
    /\ At(s, "article") /\ input[s] \in {"live", "error"}
    /\ Go(s, "open")
    /\ MapUnchanged /\ PeerUnchanged /\ UNCHANGED <<spent, slot, upset>>

\* The loop ends: a slot is given back if the session thinks it has one.
Leave(s) ==
    /\ IF conn[s].authenticated /\ ~conn[s].admin
       THEN Go(s, "close") /\ UNCHANGED <<slot, upset>>
       ELSE /\ conn' = [conn EXCEPT ![s] = Fresh]
            /\ slot' = [slot EXCEPT ![s] = NoUser]
            /\ upset' = upset \cup Abandons(s)
    /\ MapUnchanged /\ PeerUnchanged /\ UNCHANGED spent

Quit(s) == At(s, "open") /\ input[s] = "live" /\ Leave(s)

\* Mutant: an empty line is a command like any other.
EndOfInputIgnored(s) ==
    /\ At(s, "open") /\ input[s] = "eof"
    /\ UNCHANGED limitVars

EndOfInput(s) == At(s, "open") /\ input[s] = "eof" /\ Leave(s)

IdleTimeout(s) ==
    At(s, "open") /\ input[s] \in {"live", "silent"} /\ Leave(s)

\* A read or write error returns from handle_client at once.
Break(s) ==
    /\ conn[s].pc \in {"greet", "open"} /\ input[s] = "error"
    /\ conn' = [conn EXCEPT ![s] = Fresh]
    /\ slot' = [slot EXCEPT ![s] = NoUser]
    /\ upset' = upset \cup Abandons(s)
    /\ MapUnchanged /\ PeerUnchanged /\ UNCHANGED spent

-----------------------------------------------------------------------------
(* disconnect *)

Closed(s) == conn' = [conn EXCEPT ![s] = Fresh]

\* Mutant: a counter that goes below zero.
DecrementedBelowZero(v) == v - 1

Decremented(v) == (v - 1) % Modulus

\* Mutant: the reference is still held when the entry is to be removed.
FetchSubNoDrop(s) ==
    /\ At(s, "close")
    /\ LET u == Name(s)
       IN  \/ /\ count[u] = NoEntry
              /\ Closed(s)
              /\ MapUnchanged
           \/ /\ count[u] # NoEntry
              /\ count' = [count EXCEPT ![u] = Decremented(@)]
              /\ readers' = readers \cup {s}
              /\ conn' = [conn EXCEPT ![s].pc = IF count[u] = 1 THEN "remove"
                                                ELSE "drop",
                                      ![s].value = count[u]]
    /\ slot' = [slot EXCEPT ![s] = NoUser]
    /\ PeerUnchanged /\ UNCHANGED <<spent, upset>>

FetchSub(s) ==
    /\ At(s, "close")
    /\ LET u == Name(s)
       IN  /\ \/ /\ count[u] = NoEntry
                 /\ Closed(s)
                 /\ MapUnchanged
              \/ /\ count[u] # NoEntry
                 /\ count' = [count EXCEPT ![u] = Decremented(@)]
                 /\ readers' = readers \cup {s}
                 /\ conn' = [conn EXCEPT ![s].pc = "drop", ![s].value = count[u]]
           /\ upset' = upset \cup (IF slot[s] # u THEN {u} \cup Abandons(s) ELSE {})
                             \cup (IF Carried(u) # {} THEN {u} ELSE {})
    /\ slot' = [slot EXCEPT ![s] = NoUser]
    /\ PeerUnchanged /\ UNCHANGED spent

\* The reference goes; only the close that counted down from 1 cleans up.
DropRef(s) ==
    /\ At(s, "drop")
    /\ readers' = readers \ {s}
    /\ IF conn[s].value = 1 THEN Go(s, "remove") ELSE Closed(s)
    /\ PeerUnchanged /\ UNCHANGED <<count, spent, slot, upset>>

\* Mutant: the entry is removed without a look at its value.
RemoveForgets(s) ==
    /\ At(s, "remove") /\ Exclusive
    /\ count' = [count EXCEPT ![Name(s)] = NoEntry]
    /\ Closed(s)
    /\ PeerUnchanged /\ UNCHANGED <<readers, spent, slot, upset>>

Remove(s) ==
    /\ At(s, "remove") /\ Exclusive
    /\ LET v == Value(Name(s))
       IN  IF v > 0 THEN conn' = [conn EXCEPT ![s].pc = "put", ![s].value = v]
           ELSE Closed(s)
    /\ count' = [count EXCEPT ![Name(s)] = NoEntry]
    /\ PeerUnchanged /\ UNCHANGED <<readers, spent, slot, upset>>

\* "Race: someone connected between our check and remove.  Put it back".
PutBack(s) ==
    /\ At(s, "put") /\ Exclusive
    /\ count' = [count EXCEPT ![Name(s)] = conn[s].value]
    /\ Closed(s)
    /\ PeerUnchanged /\ UNCHANGED <<readers, spent, slot, upset>>

-----------------------------------------------------------------------------
TrackerStep(s) ==
    TryConnect(s) \/ FetchSub(s) \/ DropRef(s) \/ Remove(s) \/ PutBack(s)

\* What happens without the client.
SessionStep(s) ==
    \/ Greet(s) \/ EndOfInput(s) \/ Break(s) \/ BridgeEnds(s)
    \/ input[s] = "error" /\ EndArticle(s)
    \/ input[s] = "silent" /\ IdleTimeout(s)

ClientStep(s) ==
    \/ Accept(s) \/ Hangup(s) \/ Lost(s)
    \/ AuthPass(s) \/ BeginArticle(s) \/ Quit(s)
    \/ input[s] = "live" /\ (EndArticle(s) \/ IdleTimeout(s))
    \/ \E u \in Users : AuthUser(s, u)

LimitNext ==
    \E s \in Conns : TrackerStep(s) \/ SessionStep(s) \/ ClientStep(s)

LimitSpec == LimitInit /\ [][LimitNext]_limitVars

\* A thread that waits for the shard gets it in the end: the lock's waiters
\* are served, and each holder is running code without a wait.  A session
\* whose input has ended is polled, and its idle timer fires.
FairLimitSpec ==
    /\ LimitSpec
    /\ \A s \in Conns : SF_limitVars(TrackerStep(s)) /\ WF_limitVars(SessionStep(s))

-----------------------------------------------------------------------------
LimitTypeOK ==
    /\ count \in [Users -> {NoEntry} \cup 0 .. Modulus - 1]
    /\ readers \subseteq Conns
    /\ conn \in [Conns -> Conn]
    /\ input \in [Conns -> Input]
    /\ bridge \in [Conns -> {"none", "up"}]
    /\ spent \in [{"logins", "errors"} -> Nat]
    /\ slot \in [Conns -> {NoUser} \cup Users]
    /\ upset \subseteq Users

Slots(u) == {s \in Conns : slot[s] = u}

\* What the map says of u, or will say once the counter is put back.
Counted(u) == IF Carried(u) = {} THEN Value(u)
              ELSE conn[CHOOSE s \in Carried(u) : TRUE].value

(* The number of slots in use is counted right, through any interleaving   *)
(* of logins and closes, until one of these happens to the user: a login   *)
(* or close while a counter is out of the map to be put back, a second     *)
(* login in a session, or a session that ends without disconnect or under  *)
(* another name than it logged in with.                                    *)
SlotsExact ==
    \A u \in Users \ upset : Counted(u) = Cardinality(Slots(u))

(* A client that leaves does not stay connected: its session ends, gives   *)
(* its slot back and lets the task of the bridge go, whether the client    *)
(* closed, the connection broke or the bridge lost it, and no thread waits *)
(* for a shard of the map whose lock it holds itself.  The exception is a  *)
(* client that leaves inside an article: read_message waits for ever.      *)
DeparturesNoticed ==
    \A s \in Conns :
        (input[s] # "live")
            ~> (\/ At(s, "closed") /\ bridge[s] = "none"
                \/ At(s, "article") /\ input[s] # "error")

-----------------------------------------------------------------------------
(* A claim of the repository that the code does not keep. *)

(* src/src/limits/tracker.rs:115-116: try_connect returns "Allowed if the  *)
(* connection is permitted, or ConnectionLimitExceeded if the user has     *)
(* reached their connection limit".                                        *)
LimitKept == \A u \in Users : Cardinality(Slots(u)) <= Limit[u]

=============================================================================
