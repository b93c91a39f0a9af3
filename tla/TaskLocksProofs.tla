--------------------------- MODULE TaskLocksProofs --------------------------
(***************************************************************************)
(* The account of acknowledged articles, for any number of sessions and    *)
(* workers, any capacity of the queue and any size of the pool.            *)
(***************************************************************************)
EXTENDS TaskLocks, FiniteSetTheorems, TLAPS

(* Sessions whose article is in line and not acknowledged yet. *)
Pending == {s \in Sessions : At(s, "sending")}

Types ==
    /\ task \in [Tasks -> Task]
    /\ waiting \in Seq(Tasks)
    /\ queue \in Seq([work : Work, from : Sessions])
    /\ owed \in Int

(* Only sessions submit, only workers store. *)
Kinds ==
    /\ \A s \in Sessions : task[s].pc # "store"
    /\ \A w \in Workers : task[w].pc \in {"idle", "wait", "guard", "store"}
    /\ \A t \in {Sweeper, Reloader} : task[t].pc \in {"idle", "wait", "guard", "inner"}

(* The line for the lock holds every task once, and only tasks that wait.  *)
InLine ==
    /\ \A k \in 1 .. Len(waiting) : At(waiting[k], "wait")
    /\ \A j, k \in 1 .. Len(waiting) : waiting[j] = waiting[k] => j = k

(* Every article acknowledged and not processed, or not acknowledged yet,  *)
(* is in the line of the queue or with a worker, and nothing else is.      *)
Balanced == owed + Cardinality(Pending) = Len(queue) + Cardinality(Busy)

Account == (~Gone => Balanced) /\ DrainLosesFew

LockInv == Types /\ Kinds /\ InLine /\ Account

-----------------------------------------------------------------------------
LEMMA Finite ==
    /\ IsFiniteSet(Pending) /\ Cardinality(Pending) \in Nat
    /\ IsFiniteSet(Busy) /\ Cardinality(Busy) \in Nat
<1>1. IsFiniteSet(Pending) /\ IsFiniteSet(Busy)
  BY LockAssumption, FS_Subset DEF Pending, Busy
<1>2. QED
  BY <1>1, FS_CardinalityType

LEMMA IdleTask ==
    LET c == [pc |-> "idle", work |-> "none"] IN c \in Task /\ c.pc = "idle"
  BY DEF Task, Work

(* One task moves: what becomes of the two sets. *)
LEMMA SetsMove ==
    ASSUME Types, NEW t \in Tasks, NEW c \in Task, task' = [task EXCEPT ![t] = c]
    PROVE  /\ Pending' = IF t \in Sessions /\ c.pc = "sending"
                         THEN Pending \cup {t} ELSE Pending \ {t}
           /\ Busy' = IF t \in Workers /\ c.pc # "idle"
                      THEN Busy \cup {t} ELSE Busy \ {t}
           /\ task' \in [Tasks -> Task]
           /\ t \in Pending <=> (t \in Sessions /\ At(t, "sending"))
           /\ t \in Busy <=> (t \in Workers /\ ~At(t, "idle"))
<1>1. Sessions \subseteq Tasks /\ Workers \subseteq Tasks
  BY DEF Tasks
<1>2. task' \in [Tasks -> Task]
  BY DEF Types
<1>3. \A u \in Tasks : task'[u].pc = IF u = t THEN c.pc ELSE task[u].pc
  BY DEF Types
<1>4. Pending' = IF t \in Sessions /\ c.pc = "sending"
                 THEN Pending \cup {t} ELSE Pending \ {t}
  BY <1>1, <1>3 DEF Pending, At
<1>5. Busy' = IF t \in Workers /\ c.pc # "idle" THEN Busy \cup {t} ELSE Busy \ {t}
  BY <1>1, <1>3 DEF Busy, At
<1>6. QED
  BY <1>2, <1>4, <1>5 DEF Pending, Busy

(* A task that neither starts nor ends to send, nor to be a busy worker. *)
LEMMA Quiet ==
    ASSUME Types, NEW t \in Tasks, NEW c \in Task, task' = [task EXCEPT ![t] = c],
           t \in Sessions => (At(t, "sending") <=> c.pc = "sending"),
           t \in Workers => (At(t, "idle") <=> c.pc = "idle")
    PROVE  Pending' = Pending /\ Busy' = Busy
<1>1. /\ Pending' = IF t \in Sessions /\ c.pc = "sending"
                    THEN Pending \cup {t} ELSE Pending \ {t}
      /\ Busy' = IF t \in Workers /\ c.pc # "idle"
                 THEN Busy \cup {t} ELSE Busy \ {t}
      /\ t \in Pending <=> (t \in Sessions /\ At(t, "sending"))
      /\ t \in Busy <=> (t \in Workers /\ ~At(t, "idle"))
  BY SetsMove
<1>2. QED
  BY <1>1

LEMMA Added ==
    ASSUME NEW S, IsFiniteSet(S), NEW x, x \notin S
    PROVE  Cardinality(S \cup {x}) = Cardinality(S) + 1
  BY FS_AddElement

LEMMA Removed ==
    ASSUME NEW S, IsFiniteSet(S), NEW x \in S
    PROVE  Cardinality(S \ {x}) = Cardinality(S) - 1
  BY FS_RemoveElement

(* Who may be where. *)
Fits(t, pc) ==
    /\ t \in Sessions => pc # "store"
    /\ t \in Workers => pc \in {"idle", "wait", "guard", "store"}
    /\ t \in {Sweeper, Reloader} => pc \in {"idle", "wait", "guard", "inner"}

LEMMA KindsMove ==
    ASSUME Types, Kinds, NEW t \in Tasks, NEW c \in Task,
           task' = [task EXCEPT ![t] = c], Fits(t, c.pc)
    PROVE  Kinds'
  BY LockAssumption DEF Types, Kinds, Fits, Tasks

LEMMA LineStays ==
    ASSUME Types, InLine, NEW t \in Tasks, NEW c, task' = [task EXCEPT ![t] = c],
           UNCHANGED waiting, ~At(t, "wait")
    PROVE  InLine'
<1>1. \A k \in 1 .. Len(waiting) : waiting[k] \in Tasks /\ waiting[k] # t
  BY DEF Types, InLine, At
<1>2. \A k \in 1 .. Len(waiting) : task'[waiting[k]] = task[waiting[k]]
  BY <1>1 DEF Types
<1>3. QED
  BY <1>2 DEF InLine, At

LEMMA LineAsks ==
    ASSUME Types, InLine, NEW t \in Tasks, NEW work \in Work, Ask(t, work),
           ~At(t, "wait")
    PROVE  InLine' /\ waiting' \in Seq(Tasks)
<1>1. /\ waiting \in Seq(Tasks) /\ Len(waiting) \in Nat
      /\ waiting' = Append(waiting, t)
      /\ task' = [task EXCEPT ![t] = [pc |-> "wait", work |-> work]]
  BY DEF Types, Ask
<1>2. /\ waiting' \in Seq(Tasks) /\ Len(waiting') = Len(waiting) + 1
      /\ waiting'[Len(waiting) + 1] = t
      /\ \A k \in 1 .. Len(waiting) : waiting'[k] = waiting[k]
  BY <1>1
<1>3. \A k \in 1 .. Len(waiting) : waiting[k] \in Tasks /\ waiting[k] # t
  BY <1>1 DEF InLine, At
<1>4. task'[t].pc = "wait"
      /\ \A k \in 1 .. Len(waiting) : task'[waiting[k]] = task[waiting[k]]
  BY <1>1, <1>3 DEF Types
<1>5. \A k \in 1 .. Len(waiting') : task'[waiting'[k]].pc = "wait"
  <2>1. SUFFICES ASSUME NEW k \in 1 .. Len(waiting) + 1
                 PROVE  task'[waiting'[k]].pc = "wait"
    BY <1>2
  <2>2. CASE k = Len(waiting) + 1
    BY <1>2, <1>4, <2>2
  <2>3. CASE k \in 1 .. Len(waiting)
    BY <1>2, <1>4, <2>3 DEF InLine, At
  <2>4. QED
    BY <1>1, <2>1, <2>2, <2>3
<1>6. \A j, k \in 1 .. Len(waiting') : waiting'[j] = waiting'[k] => j = k
  <2>1. SUFFICES ASSUME NEW j \in 1 .. Len(waiting) + 1,
                        NEW k \in 1 .. Len(waiting) + 1, waiting'[j] = waiting'[k]
                 PROVE  j = k
    BY <1>2
  <2>2. CASE j \in 1 .. Len(waiting) /\ k \in 1 .. Len(waiting)
    BY <1>2, <2>1, <2>2 DEF InLine
  <2>3. CASE j = Len(waiting) + 1 \/ k = Len(waiting) + 1
    BY <1>1, <1>2, <1>3, <2>1, <2>3
  <2>4. QED
    BY <1>1, <2>1, <2>2, <2>3
<1>7. QED
  BY <1>2, <1>5, <1>6 DEF InLine, At

LEMMA LineGrants ==
    ASSUME Types, InLine, NEW t, Grant(t)
    PROVE  InLine' /\ waiting' \in Seq(Tasks) /\ t \in Tasks /\ At(t, "wait")
<1>1. /\ waiting \in Seq(Tasks) /\ waiting # <<>> /\ t = waiting[1]
      /\ waiting' = Tail(waiting) /\ task' = [task EXCEPT ![t].pc = "guard"]
      /\ Len(waiting) \in Nat /\ Len(waiting) >= 1
  BY DEF Types, Grant, Go
<1>2. /\ waiting' \in Seq(Tasks) /\ Len(waiting') = Len(waiting) - 1
      /\ \A k \in 1 .. Len(waiting) - 1 : waiting'[k] = waiting[k + 1]
  BY <1>1
<1>3. t \in Tasks /\ At(t, "wait")
  BY <1>1 DEF InLine
<1>4. \A k \in 1 .. Len(waiting) - 1 :
          /\ k + 1 \in 1 .. Len(waiting) /\ waiting[k + 1] \in Tasks
          /\ waiting[k + 1] # t
  BY <1>1 DEF InLine
<1>5. \A k \in 1 .. Len(waiting) - 1 : task'[waiting[k + 1]] = task[waiting[k + 1]]
  BY <1>1, <1>4 DEF Types
<1>6. \A k \in 1 .. Len(waiting') : task'[waiting'[k]].pc = "wait"
  BY <1>2, <1>4, <1>5 DEF InLine, At
<1>7. \A j, k \in 1 .. Len(waiting') : waiting'[j] = waiting'[k] => j = k
  <2>1. SUFFICES ASSUME NEW j \in 1 .. Len(waiting) - 1,
                        NEW k \in 1 .. Len(waiting) - 1, waiting'[j] = waiting'[k]
                 PROVE  j = k
    BY <1>2
  <2>2. j + 1 = k + 1
    BY <1>2, <1>4, <2>1 DEF InLine
  <2>3. QED
    BY <1>1, <2>1, <2>2
<1>8. QED
  BY <1>2, <1>3, <1>6, <1>7 DEF InLine, At

-----------------------------------------------------------------------------
(* A step that touches no article. *)
LEMMA QuietStep ==
    ASSUME LockInv, NEW t \in Tasks, NEW c \in Task, task' = [task EXCEPT ![t] = c],
           Fits(t, c.pc), InLine', waiting' \in Seq(Tasks),
           t \in Sessions => (At(t, "sending") <=> c.pc = "sending"),
           t \in Workers => (At(t, "idle") <=> c.pc = "idle"),
           UNCHANGED <<queue, phase, owed>>
    PROVE  LockInv'
<1>1. Types /\ Kinds /\ Account
  BY DEF LockInv
<1>2. Pending' = Pending /\ Busy' = Busy
  BY <1>1, Quiet
<1>3. Types'
  BY <1>1, SetsMove DEF Types
<1>4. Kinds'
  BY <1>1, KindsMove
<1>5. Account'
  BY <1>1, <1>2 DEF Account, Balanced, Gone, DrainLosesFew
<1>6. QED
  BY <1>3, <1>4, <1>5 DEF LockInv

(* A task that is neither waiting nor sending, nor a worker, ends its work. *)
LEMMA FinishStep ==
    ASSUME LockInv, NEW t \in Tasks \ Workers, Finish(t), ~At(t, "wait"),
           ~At(t, "sending"), UNCHANGED <<queue, phase, owed>>
    PROVE  LockInv'
<1> DEFINE c == [pc |-> "idle", work |-> "none"]
<1>1. c \in Task /\ c.pc = "idle" /\ Fits(t, c.pc)
  BY IdleTask DEF Fits
<1>2. task' = [task EXCEPT ![t] = c] /\ UNCHANGED waiting /\ Types /\ InLine
  BY DEF Finish, LockInv
<1> HIDE DEF c
<1>3. InLine' /\ waiting' \in Seq(Tasks)
  BY <1>2, LineStays DEF Types
<1>4. QED
  BY <1>1, <1>2, <1>3, QuietStep

(* Or goes on to where no article is sent. *)
LEMMA GoStep ==
    ASSUME LockInv, NEW t \in Tasks,
           NEW pc \in {"guard", "refuse", "submit", "inner"},
           Go(t, pc), Fits(t, pc), ~At(t, "sending"), ~At(t, "idle"),
           InLine', waiting' \in Seq(Tasks), UNCHANGED <<queue, phase, owed>>
    PROVE  LockInv'
<1> DEFINE c == [task[t] EXCEPT !.pc = pc]
<1>1. task \in [Tasks -> Task] /\ task[t] \in Task
  BY DEF LockInv, Types
<1>2. c \in Task /\ c.pc = pc /\ task' = [task EXCEPT ![t] = c]
  BY <1>1 DEF Task, Go
<1> HIDE DEF c
<1>3. QED
  BY <1>2, QuietStep

LEMMA AskStep ==
    ASSUME LockInv, NEW t \in Tasks \ Workers, NEW work \in Work, Ask(t, work),
           At(t, "idle"), UNCHANGED <<queue, phase, owed>>
    PROVE  LockInv'
<1> DEFINE c == [pc |-> "wait", work |-> work]
<1>1. c \in Task /\ c.pc = "wait" /\ Fits(t, c.pc) /\ task' = [task EXCEPT ![t] = c]
  BY DEF Task, Fits, Ask
<1>2. InLine' /\ waiting' \in Seq(Tasks)
  BY LineAsks DEF LockInv, At
<1> HIDE DEF c
<1>3. QED
  BY <1>1, <1>2, QuietStep DEF At

LEMMA KindOf ==
    ASSUME LockInv, NEW t \in Tasks
    PROVE  /\ Fits(t, task[t].pc)
           /\ At(t, "refuse") \/ At(t, "submit") \/ At(t, "sending") => t \in Sessions
           /\ t \in Sessions => t \notin Workers /\ t \notin {Sweeper, Reloader}
           /\ At(t, "inner") => t \notin Workers
           /\ Sweeper \in Tasks \ Workers /\ Reloader \in Tasks \ Workers
           /\ Sweeper \notin Sessions /\ Reloader \notin Sessions
  BY LockAssumption DEF LockInv, Kinds, Fits, At, Tasks

LEMMA CommandStep ==
    ASSUME LockInv, NEW s \in Sessions, Command(s)
    PROVE  LockInv'
<1>1. s \in Tasks \ Workers /\ At(s, "idle") /\ UNCHANGED <<queue, phase, owed>>
  BY LockAssumption DEF Tasks, Command, aside
<1>2. CASE \E w \in {"article", "post_control"} : Ask(s, w)
  BY <1>1, <1>2, AskStep DEF Work
<1>3. CASE /\ task' = [task EXCEPT ![s] = [pc |-> "inner", work |-> "list"]]
           /\ UNCHANGED <<holders, waiting>>
  <2> DEFINE c == [pc |-> "inner", work |-> "list"]
  <2>1. c \in Task /\ c.pc = "inner" /\ Fits(s, c.pc) /\ s \notin Workers
    BY <1>1, LockAssumption DEF Task, Work, Fits
  <2>2. task' = [task EXCEPT ![s] = c]
    BY <1>3
  <2> HIDE DEF c
  <2>3. InLine' /\ waiting' \in Seq(Tasks)
    BY <1>1, <1>3, <2>2, LineStays DEF LockInv, Types, At
  <2>4. QED
    BY <1>1, <2>1, <2>2, <2>3, QuietStep DEF At
<1>4. QED
  BY <1>2, <1>3 DEF Command

(* The article of a session gets in line. *)
LEMMA EnqueueStep ==
    ASSUME LockInv, NEW s \in Sessions, Enqueue(s), ~At(s, "sending"),
           ~At(s, "wait"), UNCHANGED <<waiting, phase, owed>>
    PROVE  LockInv'
<1> DEFINE c == [task[s] EXCEPT !.pc = "sending"]
           e == [work |-> task[s].work, from |-> s]
<1>1. /\ Types /\ Kinds /\ InLine /\ Account /\ s \in Tasks /\ s \notin Workers
      /\ s \notin {Sweeper, Reloader}
  BY LockAssumption DEF LockInv, Tasks
<1>2. task[s] \in Task /\ task \in [Tasks -> Task]
  BY <1>1 DEF Types
<1>3. /\ c \in Task /\ c.pc = "sending" /\ task' = [task EXCEPT ![s] = c]
      /\ Fits(s, c.pc)
  BY <1>1, <1>2 DEF Task, Enqueue, Go, Fits
<1>4. /\ queue' \in Seq([work : Work, from : Sessions])
      /\ Len(queue') = Len(queue) + 1 /\ Len(queue) \in Nat
  <2>1. e \in [work : Work, from : Sessions] /\ queue' = Append(queue, e)
    BY <1>2 DEF Task, Enqueue
  <2> HIDE DEF e
  <2>2. QED
    BY <1>1, <2>1 DEF Types
<1> HIDE DEF c
<1>5. Pending' = Pending \cup {s} /\ Busy' = Busy \ {s} /\ s \notin Pending
      /\ s \notin Busy /\ task' \in [Tasks -> Task]
  BY <1>1, <1>3, SetsMove DEF Pending, Busy
<1>6. Busy' = Busy /\ Cardinality(Pending') = Cardinality(Pending) + 1
  BY <1>5, Finite, Added
<1>7. Types'
  BY <1>1, <1>4, <1>5 DEF Types
<1>8. Kinds' /\ InLine'
  BY <1>1, <1>3, KindsMove, LineStays
<1>9. Account'
  <2>1. Balanced => Balanced'
    <3>1. owed \in Int /\ owed' = owed
      BY <1>1 DEF Types
    <3>2. QED
      BY <1>4, <1>6, <3>1, Finite DEF Balanced
  <2>2. QED
    BY <1>1, <2>1 DEF Account, Gone, DrainLosesFew
<1>10. QED
  BY <1>7, <1>8, <1>9 DEF LockInv

(* The client is told. *)
LEMMA SentStep ==
    ASSUME LockInv, NEW s \in Tasks, ~Gone, Sent(s)
    PROVE  LockInv'
<1> DEFINE c == [pc |-> "idle", work |-> "none"]
<1>1. /\ Types /\ Kinds /\ InLine /\ Balanced /\ s \in Sessions /\ s \notin Workers
      /\ At(s, "sending") /\ phase' = phase /\ DrainLosesFew
  BY KindOf DEF LockInv, Account, Sent
<1>2. c \in Task /\ c.pc = "idle" /\ Fits(s, c.pc) /\ task' = [task EXCEPT ![s] = c]
  BY IdleTask DEF Fits, Sent, Finish
<1> HIDE DEF c
<1>3. Pending' = Pending \ {s} /\ Busy' = Busy \ {s} /\ s \in Pending
      /\ s \notin Busy /\ task' \in [Tasks -> Task]
  BY <1>1, <1>2, SetsMove
<1>4. Busy' = Busy /\ Cardinality(Pending') = Cardinality(Pending) - 1
  BY <1>3, Finite, Removed
<1>5. owed' = owed + 1 /\ UNCHANGED <<queue, waiting>> /\ owed \in Int
  BY <1>1 DEF Sent, Finish, Types
<1>6. Types'
  BY <1>1, <1>3, <1>5 DEF Types
<1>7. Kinds' /\ InLine'
  BY <1>1, <1>2, <1>5, KindsMove, LineStays DEF At
<1>8. Balanced'
  <2>1. Len(queue) \in Nat
    BY <1>1 DEF Types
  <2>2. QED
    BY <1>1, <1>4, <1>5, <2>1, Finite DEF Balanced
<1>9. phase' # "exit"
  BY <1>1 DEF Gone
<1>10. QED
  BY <1>6, <1>7, <1>8, <1>9 DEF LockInv, Account, DrainLosesFew

(* A worker takes an article off the queue. *)
LEMMA TakeStep ==
    ASSUME LockInv, NEW w \in Workers, ~Gone, Take(w)
    PROVE  LockInv'
<1>1. /\ Types /\ Kinds /\ InLine /\ Balanced /\ w \in Tasks /\ w \notin Sessions
      /\ At(w, "idle") /\ UNCHANGED <<phase, owed>> /\ w \notin {Sweeper, Reloader}
  BY LockAssumption DEF LockInv, Account, Take, aside, Tasks
<1>2. /\ queue' \in Seq([work : Work, from : Sessions])
      /\ Len(queue') = Len(queue) - 1 /\ Len(queue) \in Nat
  BY <1>1 DEF Types, Take
<1>3. PICK c \in Task : /\ task' = [task EXCEPT ![w] = c] /\ c.pc # "idle"
                        /\ c.pc \in {"wait", "store"}
  <2>1. [pc |-> "wait", work |-> "control"] \in Task
        /\ [pc |-> "store", work |-> "article"] \in Task
    BY DEF Task, Work
  <2>2. QED
    BY <2>1 DEF Take, Ask
<1>4. Fits(w, c.pc)
  BY <1>1, <1>3 DEF Fits
<1>5. Pending' = Pending \ {w} /\ Busy' = Busy \cup {w} /\ w \notin Pending
      /\ w \notin Busy /\ task' \in [Tasks -> Task]
  BY <1>1, <1>3, SetsMove
<1>6. Pending' = Pending /\ Cardinality(Busy') = Cardinality(Busy) + 1
  BY <1>5, Finite, Added
<1>7. InLine' /\ waiting' \in Seq(Tasks)
  <2>1. CASE Ask(w, "control")
    BY <1>1, <2>1, LineAsks DEF Work, At
  <2>2. CASE UNCHANGED waiting
    BY <1>1, <1>3, <2>2, LineStays DEF At, Types
  <2>3. QED
    BY <2>1, <2>2 DEF Take
<1>8. Types' /\ Kinds'
  BY <1>1, <1>2, <1>3, <1>4, <1>5, <1>7, KindsMove DEF Types
<1>9. Balanced'
  BY <1>1, <1>2, <1>6, Finite DEF Balanced, Types
<1>10. QED
  BY <1>1, <1>7, <1>8, <1>9 DEF LockInv, Account, Gone, DrainLosesFew

LEMMA ProcessedStep ==
    ASSUME LockInv, NEW w \in Workers, ~Gone, Processed(w)
    PROVE  LockInv'
<1> DEFINE c == [pc |-> "idle", work |-> "none"]
<1>1. /\ Types /\ Kinds /\ InLine /\ Balanced /\ w \in Tasks /\ w \notin Sessions
      /\ ~At(w, "idle") /\ ~At(w, "wait") /\ phase' = phase
  BY LockAssumption DEF LockInv, Account, Processed, Tasks, At
<1>2. c \in Task /\ c.pc = "idle" /\ Fits(w, c.pc) /\ task' = [task EXCEPT ![w] = c]
  BY IdleTask DEF Fits, Processed, Finish
<1> HIDE DEF c
<1>3. Pending' = Pending \ {w} /\ Busy' = Busy \ {w} /\ w \notin Pending
      /\ w \in Busy /\ task' \in [Tasks -> Task]
  BY <1>1, <1>2, SetsMove
<1>4. Pending' = Pending /\ Cardinality(Busy') = Cardinality(Busy) - 1
  BY <1>3, Finite, Removed
<1>5. owed' = owed - 1 /\ UNCHANGED <<queue, waiting>> /\ owed \in Int
  BY <1>1 DEF Processed, Finish, Types
<1>6. Types'
  BY <1>1, <1>3, <1>5 DEF Types
<1>7. Kinds' /\ InLine'
  BY <1>1, <1>2, <1>5, KindsMove, LineStays
<1>8. Balanced'
  <2>1. Len(queue) \in Nat
    BY <1>1 DEF Types
  <2>2. QED
    BY <1>1, <1>4, <1>5, <2>1, Finite DEF Balanced
<1>9. phase' # "exit"
  BY <1>1 DEF Gone
<1>10. QED
  BY <1>6, <1>7, <1>8, <1>9 DEF LockInv, Account, DrainLosesFew

(* The end: with the queue empty, what is owed is with the workers. *)
LEMMA ExitStep ==
    ASSUME LockInv, NEW how \in {"exit", "forced"}, Exit(how), ~Gone,
           how = "exit" => queue = <<>>
    PROVE  LockInv'
<1>1. Types' /\ Kinds' /\ InLine'
  <2>1. /\ task' = [t \in Tasks |-> [pc |-> "idle", work |-> "none"]]
        /\ waiting' = <<>> /\ queue' = <<>> /\ owed' = owed - Cardinality(Busy)
    BY DEF Exit
  <2>2. task' \in [Tasks -> Task] /\ \A t \in Tasks : task'[t].pc = "idle"
    BY <2>1, IdleTask
  <2>3. owed' \in Int
    BY <2>1, Finite DEF LockInv, Types
  <2>4. Kinds'
    BY <2>2 DEF Kinds, Tasks
  <2>5. QED
    BY <2>1, <2>2, <2>3, <2>4 DEF Types, InLine
<1>2. Gone' /\ phase' = how
  BY DEF Exit, Gone
<1>3. how = "exit" => owed' <= 0
  <2>1. Balanced /\ owed \in Int
    BY DEF LockInv, Account, Types
  <2>2. queue = <<>> => Len(queue) = 0
    OBVIOUS
  <2>3. QED
    BY <2>1, <2>2, Finite DEF Balanced, Exit
<1>4. QED
  BY <1>1, <1>2, <1>3 DEF LockInv, Account, DrainLosesFew

LEMMA TaskSteps ==
    ASSUME LockInv, NEW t \in Tasks, TaskStep(t)
    PROVE  LockInv'
<1>0. ~Gone
  BY DEF TaskStep
<1>1. CASE Grant(t)
  <2>1. InLine' /\ waiting' \in Seq(Tasks) /\ At(t, "wait")
    BY <1>1, LineGrants DEF LockInv
  <2>2. Fits(t, "guard") /\ ~At(t, "sending") /\ ~At(t, "idle")
    BY <2>1 DEF Fits, At
  <2>3. QED
    BY <1>1, <2>1, <2>2, GoStep DEF Grant, aside
<1>2. CASE Refuse(t)
  <2>1. /\ t \in Sessions /\ ~At(t, "sending") /\ ~At(t, "idle") /\ ~At(t, "wait")
        /\ Fits(t, "refuse") /\ Go(t, "refuse") /\ UNCHANGED <<waiting, queue, phase, owed>>
    BY <1>2, KindOf DEF Refuse, At, aside, Fits
  <2>2. InLine' /\ waiting' \in Seq(Tasks)
    <3>1. PICK c : task' = [task EXCEPT ![t] = c]
      BY <2>1 DEF Go
    <3>2. QED
      BY <2>1, <3>1, LineStays DEF LockInv, Types
  <2>3. QED
    BY <2>1, <2>2, GoStep
<1>3. CASE EndUnderGuard(t) \/ StoreFails(t)
  <2>1. t \in Sessions /\ ~At(t, "wait") /\ ~At(t, "sending") /\ t \notin Workers
    BY <1>3, KindOf DEF EndUnderGuard, StoreFails, At
  <2>2. QED
    BY <1>3, <2>1, FinishStep DEF EndUnderGuard, StoreFails, aside
<1>4. CASE Validated(t)
  <2>1. /\ t \in Sessions /\ ~At(t, "sending") /\ ~At(t, "idle") /\ ~At(t, "wait")
        /\ Fits(t, "submit") /\ UNCHANGED <<waiting, phase, owed>>
    BY <1>4, KindOf DEF Validated, Pass, At, aside, Fits
  <2>2. CASE Enqueue(t)
    BY <2>1, <2>2, EnqueueStep
  <2>3. CASE Go(t, "submit") /\ UNCHANGED queue
    <3>1. PICK c : task' = [task EXCEPT ![t] = c]
      BY <2>3 DEF Go
    <3>2. InLine' /\ waiting' \in Seq(Tasks)
      BY <2>1, <3>1, LineStays DEF LockInv, Types
    <3>3. QED
      BY <2>1, <2>3, <3>2, GoStep
  <2>4. QED
    BY <1>4, <2>2, <2>3 DEF Validated, Pass
<1>5. CASE Submit(t)
  <2>1. t \in Sessions /\ ~At(t, "sending") /\ ~At(t, "wait")
    BY <1>5, KindOf DEF Submit, At
  <2>2. QED
    BY <1>5, <2>1, EnqueueStep DEF Submit, aside
<1>6. CASE Sent(t)
  BY <1>0, <1>6, SentStep
<1>7. CASE EndStream(t)
  <2>1. t \notin Workers /\ ~At(t, "wait") /\ ~At(t, "sending")
    BY <1>7, KindOf DEF EndStream, At
  <2>2. QED
    BY <1>7, <2>1, FinishStep DEF EndStream, aside
<1>8. CASE AcquireTimeout(t)
  <2>1. t \notin Workers /\ ~At(t, "wait") /\ ~At(t, "sending")
    BY <1>8, KindOf DEF AcquireTimeout, At
  <2>2. QED
    BY <1>8, <2>1, FinishStep DEF AcquireTimeout, aside
<1>9. CASE t = Sweeper /\ OpenStream
  <2>1. /\ t \notin Workers /\ ~At(t, "sending") /\ ~At(t, "idle") /\ ~At(t, "wait")
        /\ Fits(t, "inner") /\ Go(t, "inner") /\ UNCHANGED <<waiting, queue, phase, owed>>
    BY <1>9, KindOf DEF OpenStream, At, aside, Fits
  <2>2. PICK c : task' = [task EXCEPT ![t] = c]
    BY <2>1 DEF Go
  <2>3. InLine' /\ waiting' \in Seq(Tasks)
    BY <2>1, <2>2, LineStays DEF LockInv, Types
  <2>4. QED
    BY <2>1, <2>3, GoStep
<1>10. CASE t \in Workers /\ Take(t)
  BY <1>0, <1>10, TakeStep
<1>11. CASE Processed(t)
  BY <1>0, <1>11, ProcessedStep DEF Processed
<1>12. CASE t = Reloader /\ UpdateRuntime
  <2>1. t \notin Workers /\ ~At(t, "wait") /\ ~At(t, "sending")
    BY <1>12, KindOf DEF UpdateRuntime, At
  <2>2. QED
    BY <1>12, <2>1, FinishStep DEF UpdateRuntime, aside
<1>13. QED
  BY <1>1, <1>2, <1>3, <1>4, <1>5, <1>6, <1>7, <1>8, <1>9, <1>10, <1>11, <1>12
     DEF TaskStep

(* Nothing the account depends on changes but the phase. *)
LEMMA AsideStep ==
    ASSUME LockInv, UNCHANGED <<task, waiting, queue, owed>>,
           phase' = phase \/ (phase = "up" /\ phase' = "drain")
    PROVE  LockInv'
<1>1. Types' /\ Kinds' /\ InLine'
  BY DEF LockInv, Types, Kinds, InLine, At
<1>2. Pending' = Pending /\ Busy' = Busy
  BY DEF Pending, Busy, At
<1>3. Account'
  BY <1>2 DEF LockInv, Account, Balanced, Gone, DrainLosesFew
<1>4. QED
  BY <1>1, <1>3 DEF LockInv

LEMMA LockInvNext ==
    ASSUME LockInv, [LockNext]_lockVars
    PROVE  LockInv'
<1>1. CASE UNCHANGED lockVars
  BY <1>1, AsideStep DEF lockVars
<1>2. CASE \E t \in Tasks : TaskStep(t)
  BY <1>2, TaskSteps
<1>3. CASE \E s \in Sessions : Command(s)
  BY <1>3, CommandStep
<1>4. CASE \/ \E s \in Sessions : GoDeaf(s)
           \/ \E t \in Sessions \cup Workers : NoAnswer(t)
  BY <1>4, AsideStep DEF GoDeaf, NoAnswer, FallSilent
<1>5. CASE StartSweep
  <2>1. Sweeper \in Tasks \ Workers
    BY LockAssumption DEF Tasks
  <2>2. QED
    BY <1>5, <2>1, AskStep DEF StartSweep, aside, Work
<1>6. CASE Hangup
  <2>1. Reloader \in Tasks \ Workers
    BY LockAssumption DEF Tasks
  <2>2. QED
    BY <1>6, <2>1, AskStep DEF Hangup, aside, Work
<1>7. CASE Interrupt
  BY <1>7, AsideStep DEF Interrupt
<1>8. CASE Drained \/ DrainTimeout
  BY <1>8, ExitStep DEF Drained, DrainTimeout, Gone
<1>9. QED
  BY <1>1, <1>2, <1>3, <1>4, <1>5, <1>6, <1>7, <1>8 DEF LockNext

LEMMA LockInvInit ==
    ASSUME LockInit
    PROVE  LockInv
<1>1. task \in [Tasks -> Task] /\ \A t \in Tasks : task[t].pc = "idle"
  BY IdleTask DEF LockInit
<1>2. Types /\ Kinds /\ InLine
  BY <1>1 DEF LockInit, Types, Kinds, InLine, Tasks
<1>3. Pending = {} /\ Busy = {}
  BY <1>1 DEF Pending, Busy, At, Tasks
<1>4. Account
  BY <1>3, FS_EmptySet DEF LockInit, Account, Balanced, DrainLosesFew
<1>5. QED
  BY <1>2, <1>4 DEF LockInv

(***************************************************************************)
(* A drain that ends with the queue empty loses no article acknowledged by *)
(* then but those the workers are at, however many sessions and workers    *)
(* there are: articles acknowledged and not processed are exactly those in *)
(* the queue or with a worker, less those whose sender is still to be told.*)
(***************************************************************************)
THEOREM DrainKeepsAcknowledged == LockSpec => []DrainLosesFew
<1>1. LockInv /\ [LockNext]_lockVars => LockInv'
  BY LockInvNext
<1>2. LockInv => DrainLosesFew
  BY DEF LockInv, Account
<1>3. QED
  BY <1>1, <1>2, LockInvInit, PTL DEF LockSpec
=============================================================================
