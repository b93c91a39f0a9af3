------------------------------ MODULE TaskLocks -----------------------------
(***************************************************************************)
(* Who waits for whom: sessions, queue workers, the retention task and the *)
(* reload handler share the configuration behind a tokio RwLock and the    *)
(* connections of the database pool; sessions also wait for room in the    *)
(* article queue and for their clients to read, sessions and workers for a *)
(* key server to answer, and at the end the main task waits for the queue. *)
(* The lock is fair: a task that asks queues up, and a waiting writer      *)
(* holds up the readers behind it.  What a task does to the database is    *)
(* not modelled here, only the connections it needs for it and that it     *)
(* takes time while a guard is held.                                       *)
(***************************************************************************)
EXTENDS Integers, Sequences, FiniteSets

CONSTANTS
    Sessions,
    Workers,
    Sweeper,
    Reloader,
    Capacity,     \* of the article queue
    PoolSize,     \* connections of the pool
    MaxCommands,  \* bound: commands and connections
    MaxReloads,   \* bound: SIGHUPs
    MaxSilent     \* bound: clients and key servers that fall silent

Tasks == Sessions \cup Workers \cup {Sweeper, Reloader}

ASSUME LockAssumption ==
    /\ IsFiniteSet(Sessions) /\ IsFiniteSet(Workers)
    /\ Sessions \cap Workers = {} /\ Sweeper # Reloader
    /\ {Sweeper, Reloader} \cap (Sessions \cup Workers) = {}
    /\ Capacity \in Nat \ {0} /\ PoolSize \in Nat \ {0}
    /\ MaxCommands \in Nat /\ MaxReloads \in Nat /\ MaxSilent \in Nat

VARIABLES
    task,     \* per task: where it is and what it works on
    holders,  \* tasks that hold a guard of the configuration
    waiting,  \* tasks that asked for one, in this order
    queue,    \* queued articles, then those whose sender waits for room
    silent,   \* tasks that wait for an outsider who does nothing any more
    phase,    \* of the process: up, draining the queue, gone (by timeout)
    spent,    \* what is used up of the bounds
    owed      \* history: articles acknowledged, less those processed

lockVars == <<task, holders, waiting, queue, silent, phase, spent, owed>>
aside    == <<silent, phase, owed>>

\* What brings a task to the configuration.
Work == {"none", "article", "control", "post_control", "list", "sweep",
         "reload"}
Task == [pc : {"idle", "wait", "guard", "refuse", "submit", "sending", "store",
               "inner"},
         work : Work]

LockInit ==
    /\ task = [t \in Tasks |-> [pc |-> "idle", work |-> "none"]]
    /\ holders = {}
    /\ waiting = <<>>
    /\ queue = <<>>
    /\ silent = {}
    /\ phase = "up"
    /\ spent = [b \in {"commands", "reloads"} |-> 0]
    /\ owed = 0

At(t, pc) == task[t].pc = pc
Spend(what, bound) ==
    /\ spent[what] < bound
    /\ spent' = [spent EXCEPT ![what] = @ + 1]

\* config.read().await, config.write().await: get in line.
Ask(t, work) ==
    /\ task' = [task EXCEPT ![t] = [pc |-> "wait", work |-> work]]
    /\ waiting' = Append(waiting, t)
    /\ UNCHANGED holders

\* The end of a handler drops the guard if it is still held.
Finish(t) ==
    /\ task' = [task EXCEPT ![t] = [pc |-> "idle", work |-> "none"]]
    /\ holders' = holders \ {t}
    /\ UNCHANGED waiting

Go(t, pc) == task' = [task EXCEPT ![t].pc = pc]

\* A stream over the groups keeps its connection while the loop over it runs.
InUse == Cardinality({t \in Tasks : At(t, "inner")})
Free  == InUse < PoolSize

\* The process has ended.
Gone == phase \in {"exit", "forced"}

\* The client reads the reply; the key server answers.
Heard(t) == t \notin silent

Compatible(t) == IF t = Reloader THEN holders = {} ELSE Reloader \notin holders

Grant(t) ==
    /\ waiting # <<>> /\ Head(waiting) = t
    /\ Compatible(t)
    /\ waiting' = Tail(waiting)
    /\ holders' = holders \cup {t}
    /\ Go(t, "guard")
    /\ UNCHANGED <<queue, spent, aside>>

-----------------------------------------------------------------------------
(* Outsiders that a task waits for without a timeout *)

FallSilent(t) ==
    /\ ~Gone /\ Cardinality(silent) < MaxSilent /\ t \notin silent
    /\ silent' = silent \cup {t}
    /\ UNCHANGED <<task, holders, waiting, queue, phase, spent, owed>>

\* A reply is due, but the client reads nothing any more and the buffers of
\* the socket are full.
GoDeaf(s) == task[s].pc \in {"refuse", "submit", "sending", "inner"} /\ FallSilent(s)

\* Under the guard, an approval or a control message is verified with a key from
\* a key server, and no answer comes.
NoAnswer(t) == At(t, "guard") /\ FallSilent(t)

-----------------------------------------------------------------------------
(* Sessions *)

\* The article of a POST, IHAVE or TAKETHIS is in, or the client asks for
\* LIST ACTIVE or NEWNEWS, which need no guard and fail at once, as far as
\* anybody else can tell, if there is no connection.  A new session, which copies
\* settings under a guard, is like an article that is rejected.
Command(s) ==
    /\ At(s, "idle") /\ ~Gone /\ Heard(s)
    /\ Spend("commands", MaxCommands)
    /\ \/ \E w \in {"article", "post_control"} : Ask(s, w)
       \/ /\ Free
          /\ task' = [task EXCEPT ![s] = [pc |-> "inner", work |-> "list"]]
          /\ UNCHANGED <<holders, waiting>>
    /\ UNCHANGED <<queue, aside>>

\* The article is rejected, for what it is or because a database call failed,
\* or the control message of a peer is handled.
Refuse(s) ==
    /\ s \in Sessions /\ At(s, "guard") /\ Heard(s)
    /\ Go(s, "refuse")
    /\ UNCHANGED <<holders, waiting, queue, spent, aside>>

\* The reply to it is written under the guard.
EndUnderGuard(s) ==
    /\ At(s, "refuse") /\ Heard(s)
    /\ Finish(s)
    /\ UNCHANGED <<queue, spent, aside>>

\* queue.submit: in line for room, without a wait since the last step.
Enqueue(s) ==
    /\ queue' = Append(queue, [work |-> task[s].work, from |-> s])
    /\ Go(s, "sending")

\* Validation passed; a peer's article is stored before it is queued.
Pass(s) ==
    /\ s \in Sessions /\ At(s, "guard") /\ Heard(s) /\ Free
    /\ \/ task[s].work = "post_control" /\ Enqueue(s)
       \/ task[s].work = "article" /\ Go(s, "submit") /\ UNCHANGED queue
    /\ UNCHANGED <<waiting, spent, aside>>

\* Mutant: the guard lives to the end of the handler.
ValidatedKeepsGuard(s) == Pass(s) /\ UNCHANGED holders

\* drop(cfg_guard)
Validated(s) == Pass(s) /\ holders' = holders \ {s}

Submit(s) ==
    /\ At(s, "submit") /\ Free
    /\ Enqueue(s)
    /\ UNCHANGED <<holders, waiting, spent, aside>>

\* A peer's article that cannot be stored, for want of a connection too, is
\* not queued either.
StoreFails(s) ==
    /\ At(s, "submit") /\ Heard(s)
    /\ Finish(s)
    /\ UNCHANGED <<queue, spent, aside>>

\* There is room, the article is in the queue, and the client is told so.
Sent(s) ==
    /\ At(s, "sending") /\ Heard(s)
    /\ \A k \in DOMAIN queue : k > Capacity => queue[k].from # s
    /\ Finish(s)
    /\ owed' = owed + 1
    /\ UNCHANGED <<queue, silent, phase, spent>>

-----------------------------------------------------------------------------
(* Loops over a stream of the groups: LIST ACTIVE, NEWNEWS, the sweep.  *)

\* The sweep keeps its guard to the end.
OpenStream ==
    /\ At(Sweeper, "guard") /\ Free
    /\ Go(Sweeper, "inner")
    /\ UNCHANGED <<holders, waiting, queue, spent, aside>>

\* For each group a second connection for a moment, and for a client its line.
EndStream(t) ==
    /\ At(t, "inner") /\ Free
    /\ t \in Sessions => Heard(t)
    /\ Finish(t)
    /\ UNCHANGED <<queue, spent, aside>>

\* Mutant: the pool lets tasks wait for a connection for ever.
AcquireWaits(t) == FALSE /\ UNCHANGED lockVars

\* The pool gives up on the wait: a command ends with an error and no reply,
\* a sweep logs it and ends in its own time.
AcquireTimeout(t) ==
    /\ At(t, "inner") \/ (t = Sweeper /\ At(t, "guard"))
    /\ ~Free
    /\ Finish(t)
    /\ UNCHANGED <<queue, spent, aside>>

-----------------------------------------------------------------------------
(* Workers take a guard for control messages; other articles come validated. *)

Take(w) ==
    /\ At(w, "idle")
    /\ queue # <<>>
    /\ queue' = Tail(queue)
    /\ \/ Head(queue).work = "post_control" /\ Ask(w, "control")
       \/ /\ Head(queue).work = "article"
          /\ task' = [task EXCEPT ![w] = [pc |-> "store", work |-> "article"]]
          /\ UNCHANGED <<holders, waiting>>
    /\ UNCHANGED <<spent, aside>>

\* The article is processed, or processing failed, for want of a connection too.
Processed(w) ==
    /\ w \in Workers
    /\ (At(w, "guard") /\ Heard(w)) \/ At(w, "store")
    /\ Finish(w)
    /\ owed' = owed - 1
    /\ UNCHANGED <<queue, silent, phase, spent>>

-----------------------------------------------------------------------------
(* Maintenance *)

StartSweep ==
    /\ At(Sweeper, "idle") /\ ~Gone
    /\ Ask(Sweeper, "sweep")
    /\ UNCHANGED <<queue, spent, aside>>

Hangup ==
    /\ At(Reloader, "idle") /\ ~Gone
    /\ Spend("reloads", MaxReloads)
    /\ Ask(Reloader, "reload")
    /\ UNCHANGED <<queue, aside>>

UpdateRuntime ==
    /\ At(Reloader, "guard")
    /\ Finish(Reloader)
    /\ UNCHANGED <<queue, spent, aside>>

-----------------------------------------------------------------------------
(* Shutdown.  The tracker of connections and its signal reach no listener: *)
(* clients are served until the process is gone, and phase 2 waits for     *)
(* nobody.                                                                 *)

\* ctrl_c
Interrupt ==
    /\ phase = "up"
    /\ phase' = "drain"
    /\ UNCHANGED <<task, holders, waiting, queue, silent, spent, owed>>

Busy == {w \in Workers : ~At(w, "idle")}

\* The main task is through with the queue: run returns, and the runtime drops
\* every task where it is.  What they do in the moment before, an article they
\* acknowledge then included, is lost and left out.  From here on owed is what
\* the process loses besides the articles the workers are at.
Exit(how) ==
    /\ phase' = how
    /\ task' = [t \in Tasks |-> [pc |-> "idle", work |-> "none"]]
    /\ holders' = {} /\ waiting' = <<>> /\ queue' = <<>> /\ silent' = {}
    /\ owed' = owed - Cardinality(Busy)
    /\ UNCHANGED spent

\* Mutant: nothing waits for the queue.
DrainedNoLook == phase = "drain" /\ Exit("exit")

Drained == phase = "drain" /\ queue = <<>> /\ Exit("exit")

\* Mutant: the queue is waited for, however long it takes.
DrainForever == phase = "drain" /\ queue # <<>> /\ UNCHANGED lockVars

DrainTimeout == phase = "drain" /\ queue # <<>> /\ Exit("forced")

-----------------------------------------------------------------------------
TaskStep(t) ==
    /\ ~Gone
    /\ \/ Grant(t)
       \/ Refuse(t) \/ EndUnderGuard(t) \/ Validated(t) \/ Submit(t) \/ StoreFails(t)
       \/ Sent(t)
       \/ EndStream(t) \/ AcquireTimeout(t)
       \/ t = Sweeper /\ OpenStream
       \/ t \in Workers /\ Take(t)
       \/ Processed(t)
       \/ t = Reloader /\ UpdateRuntime

LockNext ==
    \/ \E t \in Tasks : TaskStep(t)
    \/ \E s \in Sessions : Command(s) \/ GoDeaf(s)
    \/ \E t \in Sessions \cup Workers : NoAnswer(t)
    \/ StartSweep
    \/ Hangup
    \/ Interrupt \/ Drained \/ DrainTimeout

\* Every task that can go on does: its database calls return, a wait for a
\* connection of the pool times out, and a client reads its replies and a key
\* server answers unless they have stopped for good.  The main task looks at the
\* queue again and again and at its clock.  Nobody has to send commands or
\* signals.
LockSpec ==
    /\ LockInit /\ [][LockNext]_lockVars
    /\ \A t \in Tasks : WF_lockVars(TaskStep(t))
    /\ WF_lockVars(Drained \/ DrainTimeout)

-----------------------------------------------------------------------------
\* Everybody who needs the configuration, or room in the queue, has to wait.
Stalled ==
    \/ silent \cap holders # {} /\ At(Reloader, "wait")
    \/ Workers \subseteq silent

(* Nobody waits for ever: every command, article, sweep and reload ends,   *)
(* although senders wait for workers, workers for the configuration behind *)
(* a reload, the reload for every task that holds a guard, and tasks that  *)
(* have a connection of the pool for another one.  A client that reads     *)
(* nothing and a key server that does not answer hold up their own session *)
(* or worker only, unless a reload waits for the guard under which they    *)
(* are waited for, or no worker is left (Stalled).                         *)
EveryoneFinishes ==
    \A t \in Tasks :
        ~At(t, "idle") ~> (At(t, "idle") \/ Gone \/ t \in silent \/ Stalled)

(* A shutdown comes to an end, whoever waits for whom by then.             *)
ShutdownEnds == phase = "drain" ~> Gone

(* A drain that found the queue empty in time loses no article that was    *)
(* acknowledged up to its last look, but those the workers are at: the     *)
(* look at the queue does not see them.                                    *)
DrainLosesFew == phase = "exit" => owed <= 0
=============================================================================
