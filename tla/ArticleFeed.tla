---------------------------- MODULE ArticleFeed -----------------------------
(***************************************************************************)
(* How articles get into and out of the database: the POST, IHAVE and      *)
(* TAKETHIS handlers of the client sessions, the bounded article queue and *)
(* its worker pool, control messages, and the hourly retention sweep, all  *)
(* running as concurrent tasks over the one ArticleStore.                  *)
(*                                                                         *)
(* A step of a task is one storage statement or one queue operation; what  *)
(* a handler does between two of them is part of the step.  The state of a *)
(* handler between two steps is its job; while a multi-statement storage   *)
(* call is in progress the job waits for op[t] to return.                  *)
(***************************************************************************)
EXTENDS ArticleStore

CONSTANTS
    Sessions,     \* client connections
    Workers,      \* queue workers
    Sweeper,      \* the retention task
    InitialGroups,  \* the group list at start-up
    Capacity,     \* capacity of the article queue
    Offers,       \* what IHAVE may bring: pairs <<announced id, article>>
    Streams,      \* what TAKETHIS may bring, likewise
    Posts,        \* articles clients may POST
    Control,      \* the Control header of an article, parsed, or NoCommand
    NoCommand,
    Opens,        \* pairs <<c, a>>: the Cancel-Key of c opens the lock of a
    AdminSigned,  \* control articles with a valid admin signature
    WellFormed,   \* articles that pass the header and size filters
    Approved,     \* pairs <<a, g>>: a carries a moderator's approval for g
    FilteredOut,  \* articles the configured filter chain rejects
    Expires,      \* Expires header of an article; Never if it has none
    Never,
    Retention,    \* retention period of a group in seconds, 0 if none
    MaxCommands,  \* bound: article-bearing commands received
    MaxErrors,    \* bound: failing storage statements
    MaxCrashes    \* bound: crashes of the process

Command ==
    [verb : {"cancel"}, id : Ids, keyed : BOOLEAN]
      \cup [verb : {"newgroup"}, group : Groups, moderated : BOOLEAN]
      \cup [verb : {"rmgroup"}, group : Groups]
      \cup [verb : {"unknown"}]

ASSUME FeedAssumption ==
    /\ Tasks = Sessions \cup Workers \cup {Sweeper}
    /\ Sessions \cap Workers = {} /\ Sweeper \notin Sessions \cup Workers
    /\ Capacity \in Nat \ {0}
    /\ Offers \subseteq Ids \X Articles /\ Streams \subseteq Ids \X Articles
    /\ Posts \subseteq Articles
    /\ NoCommand \notin Command
    /\ Control \in [Articles -> Command \cup {NoCommand}]
    /\ AdminSigned \subseteq Articles /\ WellFormed \subseteq Articles
    /\ FilteredOut \subseteq Articles
    /\ Never \notin Nat /\ Expires \in [Articles -> Nat \cup {Never}]
    /\ Retention \in [Groups -> Nat]
    /\ MaxCommands \in Nat /\ MaxErrors \in Nat /\ MaxCrashes \in Nat

VARIABLES
    queue,     \* queued articles, then the ones whose sender waits for room
    job,       \* per session and worker: where its handler is
    sweep,     \* where the retention task is
    reply,     \* per session: the outcome of its last command
    spent,     \* what is used up of the bounds
    accepted,  \* history: <<command, article>> acknowledged to a client
    gone       \* history: <<id, group>> of the rows ever deleted

feedVars == <<storeVars, queue, job, sweep, reply, spent, accepted, gone>>
storeUnchanged == UNCHANGED storeVars

-----------------------------------------------------------------------------
How  == {"POST", "IHAVE", "TAKETHIS", "queue"}
Item == [art : Articles, is_control : BOOLEAN, already_validated : BOOLEAN,
         from : Sessions]
Job  == [pc : {"idle"}]
          \cup [pc : {"list_groups", "store", "storing", "submit", "sending",
                      "exists", "control", "cancel", "controlling"},
                how : How, art : Articles]
          \cup [pc : {"moderation"}, how : How, art : Articles, idx : Nat]
\* art: the article as the sweep read it, kept for SweepSparesCurrent.
Sweep == [pc : {"sleep"}]
           \cup [pc : {"groups"}, now : Nat, todo : SUBSET Groups]
           \cup [pc : {"ids"}, now : Nat, todo : SUBSET Groups, group : Groups]
           \cup [pc : {"expire"}, now : Nat, todo : SUBSET Groups,
                 ids : SUBSET Ids]
           \cup [pc : {"delete"}, now : Nat, todo : SUBSET Groups,
                 ids : SUBSET Ids, id : Ids, art : Articles]

Rest       == [pc |-> "idle"]
Doing(t, pc) == job[t].pc = pc
Enter(t, pc) ==
    job' = [job EXCEPT ![t] = [pc |-> pc, how |-> job[t].how, art |-> job[t].art]]
IsControl(a) == Control[a] # NoCommand

FeedInit ==
    /\ StoreInit
    /\ groups = InitialGroups
    /\ queue = <<>>
    /\ job = [t \in Sessions \cup Workers |-> Rest]
    /\ sweep = [pc |-> "sleep"]
    /\ reply = [s \in Sessions |-> "none"]
    /\ spent = [b \in {"commands", "errors", "crashes"} |-> 0]
    /\ accepted = {}
    /\ gone = {}

Spend(what, bound) ==
    /\ spent[what] < bound
    /\ spent' = [spent EXCEPT ![what] = @ + 1]

\* A handler ends: a session has written its reply, or none if the handler
\* returned an error; a worker only logs the outcome.
Finish(t, r) ==
    /\ job' = [job EXCEPT ![t] = Rest]
    /\ reply' = IF t \in Sessions THEN [reply EXCEPT ![t] = r] ELSE reply
    /\ accepted' = IF t \in Sessions /\ r = "accepted"
                   THEN accepted \cup {<<job[t].how, job[t].art>>}
                   ELSE accepted

StayBusy == UNCHANGED <<reply, accepted>>

\* The history of deleted rows, kept alongside every step.
Remember ==
    gone' = gone \cup {<<r.id, r.group>> : r \in groupArticles \ groupArticles'}

-----------------------------------------------------------------------------
(* Commands arriving.  The 340/335 exchange and the reading of the article *)
(* precede these steps and touch no shared state.                          *)

Post(s, a) ==
    /\ Doing(s, "idle")
    /\ Spend("commands", MaxCommands)
    /\ job' = [job EXCEPT ![s] = [pc |-> "list_groups", how |-> "POST",
                                  art |-> a]]
    /\ reply' = [reply EXCEPT ![s] = "none"]
    /\ UNCHANGED <<storeVars, queue, sweep, accepted>>
    /\ Remember

\* IHAVE and TAKETHIS differ only in when they read the article: both look
\* the announced id up, which need not be the article's own Message-ID.
Offer(s, verb, i, a) ==
    /\ Doing(s, "idle")
    /\ Spend("commands", MaxCommands)
    /\ \/ /\ messages[i] = NoArticle
          /\ job' = [job EXCEPT ![s] =
                        [pc |-> IF IsControl(a) THEN "control" ELSE "list_groups",
                         how |-> verb, art |-> a]]
          /\ reply' = [reply EXCEPT ![s] = "none"]
       \/ /\ messages[i] # NoArticle
          /\ reply' = [reply EXCEPT ![s] = "not_wanted"]
          /\ UNCHANGED job
    /\ UNCHANGED <<storeVars, queue, sweep, accepted>>
    /\ Remember

IHave(s)    == \E o \in Offers : Offer(s, "IHAVE", o[1], o[2])
TakeThis(s) == \E o \in Streams : Offer(s, "TAKETHIS", o[1], o[2])

\* Not allowed to post, unparsable article, or bandwidth exhausted.
Refuse(s) ==
    /\ Doing(s, "list_groups")
    /\ Finish(s, "rejected")
    /\ UNCHANGED <<storeVars, queue, sweep, spent>>
    /\ Remember

-----------------------------------------------------------------------------
(* The default filter chain: headers and size, group existence (one        *)
(* list_groups), then one is_group_moderated per newsgroup.                *)

InRange(q) == {q[k] : k \in DOMAIN q}

ListGroups(s) ==
    /\ Doing(s, "list_groups")
    /\ LET a  == job[s].art
           ok == /\ a \in WellFormed /\ Newsgroups[a] # <<>>
                 /\ \A g \in InRange(Newsgroups[a]) : groups[g] # "none"
       IN  \/ /\ ok
              /\ job' = [job EXCEPT ![s] = [pc |-> "moderation", how |-> @.how,
                                            art |-> a, idx |-> 1]]
              /\ StayBusy
           \/ ~ok /\ Finish(s, "rejected")
    /\ UNCHANGED <<storeVars, queue, sweep, spent>>
    /\ Remember

AfterValidation(how) == IF how = "POST" THEN "submit" ELSE "store"

CheckModeration(s) ==
    /\ Doing(s, "moderation")
    /\ LET a  == job[s].art
           g  == Newsgroups[a][job[s].idx]
           ok == groups[g] = "moderated" => <<a, g>> \in Approved
       IN  \/ /\ ok /\ job[s].idx < Len(Newsgroups[a])
              /\ job' = [job EXCEPT ![s].idx = @ + 1]
              /\ StayBusy
           \/ /\ ok /\ job[s].idx = Len(Newsgroups[a])
              /\ Enter(s, AfterValidation(job[s].how))
              /\ StayBusy
           \/ ~ok /\ Finish(s, "rejected")
    /\ UNCHANGED <<storeVars, queue, sweep, spent>>
    /\ Remember

-----------------------------------------------------------------------------
(* Storing, by an offering session or by a worker. *)

Store(t) ==
    /\ Doing(t, "store")
    /\ StoreArticle(t, job[t].art)
    /\ Enter(t, "storing")
    /\ StayBusy
    /\ UNCHANGED <<queue, sweep, spent>>
    /\ Remember

\* Mutant: the handler goes on to queue the article whatever store_article said.
StoredUnchecked(t) ==
    /\ Doing(t, "storing") /\ Idle(t)
    /\ \/ t \in Sessions /\ Enter(t, "submit") /\ StayBusy
       \/ t \notin Sessions /\ Finish(t, "rejected")
    /\ UNCHANGED <<storeVars, queue, sweep, spent>>
    /\ Remember

\* Mutant: the result of store_article is written to the client as it is.
StoredRaw(t) ==
    /\ Doing(t, "storing") /\ Idle(t)
    /\ \/ t \in Sessions /\ At(t, "ok") /\ Enter(t, "submit") /\ StayBusy
       \/ (t \in Sessions => At(t, "err")) /\ Finish(t, op[t].pc)
    /\ UNCHANGED <<storeVars, queue, sweep, spent>>
    /\ Remember

\* Mutant: a session whose store failed tries again, for ever if need be.
StoredRetries(t) ==
    /\ Doing(t, "storing") /\ Idle(t)
    /\ \/ /\ t \in Sessions
          /\ Enter(t, IF At(t, "ok") THEN "submit" ELSE "store")
          /\ StayBusy
       \/ t \notin Sessions /\ Finish(t, "rejected")
    /\ UNCHANGED <<storeVars, queue, sweep, spent>>
    /\ Remember

Stored(t) ==
    /\ Doing(t, "storing") /\ Idle(t)
    /\ \/ /\ t \in Sessions /\ At(t, "ok")
          /\ Enter(t, "submit")
          /\ StayBusy
       \/ /\ t \in Sessions => At(t, "err")
          /\ Finish(t, "rejected")
    /\ UNCHANGED <<storeVars, queue, sweep, spent>>
    /\ Remember

-----------------------------------------------------------------------------
(* The queue.  flume keeps the senders that found it full in a FIFO behind *)
(* it and lets each in as soon as there is room, so the whole is one       *)
(* sequence whose first Capacity items are in the channel.                 *)

Submit(s) ==
    /\ Doing(s, "submit")
    /\ queue' = Append(queue, [art |-> job[s].art,
                               is_control |-> IsControl(job[s].art),
                               already_validated |-> TRUE, from |-> s])
    /\ Enter(s, "sending")
    /\ StayBusy
    /\ UNCHANGED <<storeVars, sweep, spent>>
    /\ Remember

Sent(s) ==
    /\ Doing(s, "sending")
    /\ \A k \in DOMAIN queue : k > Capacity => queue[k].from # s
    /\ Finish(s, "accepted")
    /\ UNCHANGED <<storeVars, queue, sweep, spent>>
    /\ Remember

\* recv_async, then process_article up to its first storage statement.
Take(w) ==
    /\ Doing(w, "idle")
    /\ queue # <<>>
    /\ queue' = Tail(queue)
    /\ LET q == Head(queue)
           next(pc) == [pc |-> pc, how |-> "queue", art |-> q.art]
       IN  job' = [job EXCEPT ![w] =
                      CASE q.is_control -> next("control")
                        [] ~q.is_control /\ (q.already_validated
                                              \/ q.art \notin FilteredOut)
                             -> next("exists")
                        [] OTHER -> Rest]
    /\ StayBusy
    /\ UNCHANGED <<storeVars, sweep, spent>>
    /\ Remember

\* "check if it already exists to avoid duplicates"
Exists(w) ==
    /\ Doing(w, "exists")
    /\ \/ /\ messages[MessageId[job[w].art]] = NoArticle
          /\ Enter(w, "store")
          /\ StayBusy
       \/ /\ messages[MessageId[job[w].art]] # NoArticle
          /\ Finish(w, "rejected")
    /\ UNCHANGED <<storeVars, queue, sweep, spent>>
    /\ Remember

-----------------------------------------------------------------------------
(* handle_control, by an offering session or by a worker. *)

HasKey(c) == c.verb = "cancel" /\ c.keyed

Unlocks(a, i) == messages[i] # NoArticle /\ <<a, messages[i]>> \in Opens

\* Cancel-Key authentication: Ok(true) whether or not the key fits.
CheckKey(t) ==
    /\ Doing(t, "control")
    /\ LET a == job[t].art
           c == Control[a]
       IN  /\ HasKey(c)
           /\ \/ Unlocks(a, c.id) /\ Enter(t, "cancel") /\ StayBusy
              \/ ~Unlocks(a, c.id) /\ Finish(t, "accepted")
    /\ UNCHANGED <<storeVars, queue, sweep, spent>>
    /\ Remember

\* Mutant: the message goes first and the rows that list it stay.
CancelByKeyMessageOnly(t) ==
    /\ Doing(t, "cancel")
    /\ messages' = [messages EXCEPT ![Control[job[t].art].id] = NoArticle]
    /\ Go(t, Result("ok"))
    /\ Enter(t, "controlling")
    /\ StayBusy
    /\ UNCHANGED <<groupArticles, groups, overview, clock, queue, sweep, spent>>
    /\ Remember

CancelByKey(t) ==
    /\ Doing(t, "cancel")
    /\ DeleteArticleById(t, Control[job[t].art].id)
    /\ Enter(t, "controlling")
    /\ StayBusy
    /\ UNCHANGED <<queue, sweep, spent>>
    /\ Remember

\* Unknown command, missing or invalid signature, not an admin: Err.
ControlFails(t) ==
    /\ Doing(t, "control")
    /\ LET c == Control[job[t].art]
       IN  ~HasKey(c) /\ (c.verb = "unknown" \/ job[t].art \notin AdminSigned)
    /\ Finish(t, "silent")
    /\ UNCHANGED <<storeVars, queue, sweep, spent>>
    /\ Remember

ObeyAdmin(t) ==
    /\ Doing(t, "control")
    /\ job[t].art \in AdminSigned
    /\ LET c == Control[job[t].art]
       IN  /\ ~HasKey(c)
           /\ \/ c.verb = "cancel" /\ DeleteArticleById(t, c.id)
              \/ c.verb = "newgroup" /\ AddGroup(t, c.group, c.moderated)
              \/ c.verb = "rmgroup" /\ RemoveGroup(t, c.group)
    /\ Enter(t, "controlling")
    /\ StayBusy
    /\ UNCHANGED <<queue, sweep, spent>>
    /\ Remember

Obeyed(t) ==
    /\ Doing(t, "controlling") /\ Idle(t)
    /\ Finish(t, IF At(t, "ok") THEN "accepted" ELSE "silent")
    /\ UNCHANGED <<storeVars, queue, sweep, spent>>
    /\ Remember

-----------------------------------------------------------------------------
(* cleanup_expired_articles, once per hour. *)

SweepFrame == UNCHANGED <<queue, job, reply, spent, accepted>>

StartSweep ==
    /\ sweep.pc = "sleep"
    /\ sweep' = [pc |-> "groups", now |-> clock,
                 todo |-> {g \in Groups : groups[g] # "none"}]
    /\ storeUnchanged /\ SweepFrame
    /\ Remember

\* Mutant: articles exactly as old as the retention period go too.
CutoffInclusive(g) ==
    IF sweep.now >= Retention[g] THEN sweep.now - Retention[g] + 1 ELSE 0

\* inserted_at < now - retention; nothing is that old before `retention`.
Cutoff(g) == IF sweep.now > Retention[g] THEN sweep.now - Retention[g] ELSE 0

SweepGroup ==
    /\ sweep.pc = "groups"
    /\ \E g \in sweep.todo :
          /\ \/ Retention[g] > 0 /\ PurgeGroupBefore(Sweeper, g, Cutoff(g))
             \/ Retention[g] = 0 /\ storeUnchanged
          /\ sweep' = [pc |-> "ids", now |-> sweep.now, group |-> g,
                       todo |-> sweep.todo \ {g}]
    /\ SweepFrame
    /\ Remember

ListArticleIds ==
    /\ sweep.pc = "ids"
    /\ sweep' = [pc |-> "expire", now |-> sweep.now, todo |-> sweep.todo,
                 ids |-> {r.id : r \in {x \in groupArticles :
                                           x.group = sweep.group}}]
    /\ storeUnchanged /\ SweepFrame
    /\ Remember

Expired(i, now) ==
    /\ messages[i] # NoArticle
    /\ Expires[messages[i]] # Never
    /\ Expires[messages[i]] <= now

CheckExpires ==
    /\ sweep.pc = "expire" /\ Idle(Sweeper)
    /\ \E i \in sweep.ids :
          LET rest == [sweep EXCEPT !.ids = @ \ {i}]
          IN  \/ /\ Expired(i, sweep.now)
                 /\ sweep' = [pc |-> "delete", now |-> sweep.now, id |-> i,
                              todo |-> sweep.todo, ids |-> rest.ids,
                              art |-> messages[i]]
              \/ ~Expired(i, sweep.now) /\ sweep' = rest
    /\ storeUnchanged /\ SweepFrame
    /\ Remember

DeleteExpired ==
    /\ sweep.pc = "delete"
    /\ DeleteArticleById(Sweeper, sweep.id)
    /\ sweep' = [pc |-> "expire", now |-> sweep.now, todo |-> sweep.todo,
                 ids |-> sweep.ids]
    /\ SweepFrame
    /\ Remember

NextSweepGroup ==
    /\ sweep.pc = "expire" /\ Idle(Sweeper)
    /\ sweep.ids = {}
    /\ sweep' = [pc |-> "groups", now |-> sweep.now, todo |-> sweep.todo]
    /\ storeUnchanged /\ SweepFrame
    /\ Remember

\* Mutant: the sweep ends without purge_orphan_messages.
FinishSweepNoPurge ==
    /\ sweep.pc = "groups"
    /\ sweep.todo = {}
    /\ sweep' = [pc |-> "sleep"]
    /\ storeUnchanged /\ SweepFrame
    /\ Remember

FinishSweep ==
    /\ sweep.pc = "groups"
    /\ sweep.todo = {}
    /\ PurgeOrphanMessages(Sweeper)
    /\ sweep' = [pc |-> "sleep"]
    /\ SweepFrame
    /\ Remember

-----------------------------------------------------------------------------
(* Failures. *)

\* A statement of a storage call in progress fails.
CallFails(t) ==
    /\ Spend("errors", MaxErrors)
    /\ ~Idle(t)
    /\ DbError(t)
    /\ UNCHANGED <<queue, job, sweep, reply, accepted>>
    /\ Remember

\* A read of a handler, or the first statement of its storage call, fails.
\* During validation and storing this is a rejection; in control handling,
\* and when the announced id of an IHAVE or TAKETHIS is looked up, the error
\* leaves the handler, which then writes no reply at all.
StatementFails(t) ==
    /\ Spend("errors", MaxErrors)
    /\ \/ /\ job[t].pc \in {"list_groups", "moderation", "exists", "store"}
          /\ Finish(t, "rejected")
       \/ /\ job[t].pc \in {"control", "cancel"}
          /\ Finish(t, "silent")
       \/ /\ t \in Sessions /\ Doing(t, "idle")
          /\ Offers \cup Streams # {}
          /\ Finish(t, "silent")
    /\ UNCHANGED <<storeVars, queue, sweep>>
    /\ Remember

\* The sweep logs a failing statement and goes on with the next one; only
\* the group list and purge_orphan_messages end it, and an error while it
\* reads the ids of a group ends that group.
SweepFails ==
    /\ Spend("errors", MaxErrors)
    /\ \/ /\ sweep.pc = "groups"
          /\ sweep' = [pc |-> "sleep"]
       \/ /\ sweep.pc = "groups"
          /\ \E g \in sweep.todo :
                sweep' = [pc |-> "ids", now |-> sweep.now, group |-> g,
                          todo |-> sweep.todo \ {g}]
       \/ /\ sweep.pc \in {"ids", "expire"} /\ Idle(Sweeper)
          /\ sweep' = [pc |-> "groups", now |-> sweep.now, todo |-> sweep.todo]
       \/ /\ sweep.pc = "expire" /\ Idle(Sweeper)
          /\ \E i \in sweep.ids : sweep' = [sweep EXCEPT !.ids = @ \ {i}]
       \/ /\ sweep.pc = "delete"
          /\ sweep' = [pc |-> "expire", now |-> sweep.now,
                       todo |-> sweep.todo, ids |-> sweep.ids]
    /\ UNCHANGED <<storeVars, queue, job, reply, accepted>>
    /\ Remember

\* The process dies and restarts: tables stay, queue and tasks do not.
Crash ==
    /\ Spend("crashes", MaxCrashes)
    /\ Restart
    /\ queue' = <<>>
    /\ job' = [t \in Sessions \cup Workers |-> Rest]
    /\ sweep' = [pc |-> "sleep"]
    /\ reply' = [s \in Sessions |-> "none"]
    /\ UNCHANGED accepted
    /\ Remember

-----------------------------------------------------------------------------
Frame == UNCHANGED <<queue, job, sweep, reply, spent, accepted>>

StoreStep(t) == Continue(t) /\ Frame /\ Remember

\* What a session does by itself once a command has come in.
SessionStep(s) ==
    \/ ListGroups(s) \/ CheckModeration(s)
    \/ Store(s) \/ Stored(s) \/ Submit(s) \/ Sent(s)
    \/ CheckKey(s) \/ CancelByKey(s) \/ ControlFails(s)
    \/ ObeyAdmin(s) \/ Obeyed(s)
    \/ StoreStep(s)

WorkerStep(w) ==
    \/ Take(w) \/ Exists(w) \/ Store(w) \/ Stored(w)
    \/ CheckKey(w) \/ CancelByKey(w) \/ ControlFails(w)
    \/ ObeyAdmin(w) \/ Obeyed(w)
    \/ StoreStep(w)

SweepStep ==
    \/ StartSweep \/ SweepGroup \/ ListArticleIds \/ CheckExpires
    \/ DeleteExpired \/ NextSweepGroup \/ FinishSweep
    \/ StoreStep(Sweeper)

ClientStep(s) ==
    \/ \E a \in Posts : Post(s, a)
    \/ IHave(s) \/ TakeThis(s) \/ Refuse(s)

FaultStep ==
    \/ \E t \in Tasks : CallFails(t)
    \/ \E t \in Sessions \cup Workers : StatementFails(t)
    \/ SweepFails
    \/ Crash

Time == Tick /\ Frame /\ Remember

FeedNext ==
    \/ \E s \in Sessions : SessionStep(s) \/ ClientStep(s)
    \/ \E w \in Workers : WorkerStep(w)
    \/ SweepStep
    \/ FaultStep
    \/ Time

FeedSpec == FeedInit /\ [][FeedNext]_feedVars

\* Every task keeps running: tokio polls a ready task again and again, the
\* worker loop never ends while the queue exists, and the sweep repeats.
FeedFairness ==
    /\ \A s \in Sessions : WF_feedVars(SessionStep(s))
    /\ \A w \in Workers : WF_feedVars(WorkerStep(w))
    /\ WF_feedVars(SweepStep)

FairFeedSpec == FeedSpec /\ FeedFairness

-----------------------------------------------------------------------------
(* Types of the queue, the handlers and the sweep. *)
FeedTypeOK ==
    /\ queue \in Seq(Item)
    /\ job \in [Sessions \cup Workers -> Job]
    /\ sweep \in Sweep
    /\ reply \in [Sessions -> {"none", "accepted", "rejected", "not_wanted",
                              "silent"}]
    /\ spent \in [{"commands", "errors", "crashes"} -> Nat]
    /\ accepted \subseteq How \X Articles
    /\ gone \subseteq Ids \X Groups

\* The article with id i has been listed in g, and still is unless deleted.
FiledIn(i, g) ==
    \/ <<i, g>> \in gone
    \/ \E r \in groupArticles : r.id = i /\ r.group = g

Filed(a) == \A g \in InRange(Newsgroups[a]) : FiledIn(MessageId[a], g)

(* A 235 or 239 to a peer means the article is filed in every group it     *)
(* names, until something deletes it there: peers do not offer it again,   *)
(* so no race, failing statement or crash may lose it after the reply.     *)
TransfersKept ==
    \A x \in accepted :
        x[1] \in {"IHAVE", "TAKETHIS"} /\ ~IsControl(x[2]) => Filed(x[2])

\* Another article has got the Message-ID since the sweep found it expired.
Replaced(i) ==
    sweep.pc = "delete" /\ sweep.id = i /\ messages[i] \notin {sweep.art, NoArticle}

(* The sweep only deletes rows that are past the retention period of their *)
(* group, or whose article has expired, although it decides from reads     *)
(* that other tasks may have overtaken.  It deletes by Message-ID, so the  *)
(* one current article it may take is one that has replaced the expired    *)
(* one under its Message-ID between the read and the deletion.             *)
SweepSparesCurrent ==
    [][sweep' # sweep =>
         \A r \in groupArticles \ groupArticles' :
             \/ Retention[r.group] > 0 /\ r.at + Retention[r.group] < clock
             \/ Expired(r.id, clock)
             \/ Replaced(r.id)]_feedVars

(* Every command that brings an article ends, also when the queue is full  *)
(* and the session has to wait for room: the workers get through whatever  *)
(* is queued, whether processing it succeeds or fails.                     *)
CommandsEnd ==
    \A s \in Sessions : (job[s].pc # "idle") ~> (job[s].pc = "idle")

(* A message left behind by a store that failed half way, which makes the  *)
(* server refuse the article as already present, does not stay for ever:   *)
(* it ends up listed in a group or deleted by a sweep.                     *)
OrphansReclaimed ==
    \A i \in Ids : (messages[i] # NoArticle /\ ~Listed(i))
                      ~> (messages[i] = NoArticle \/ Listed(i))

-----------------------------------------------------------------------------
(* A claim of the repository that the code does not keep. *)

(* src/tests/integration/control.rs:90-95: a cancelled article is gone.    *)
(* In a run where cancels are all that deletes rows and each article comes *)
(* in once, a row that was deleted is not there again.                     *)
CancelsAreFinal == \A r \in groupArticles : <<r.id, r.group>> \notin gone

=============================================================================
