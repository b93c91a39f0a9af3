------------------------- MODULE ArticleFeedProofs --------------------------
(***************************************************************************)
(* Proofs about ArticleFeed, for any number of sessions and workers, any   *)
(* queue capacity and any articles: the handlers use the database only     *)
(* through its operations (FeedRefinesStore), so the theorems about        *)
(* ArticleStore hold of the running server, and a transfer acknowledged to *)
(* a peer is never lost (AcknowledgedTransfersKept).                       *)
(***************************************************************************)
EXTENDS ArticleFeed, StorageProofs, SequenceTheorems

Actors  == Sessions \cup Workers
Replies == {"none", "accepted", "rejected", "not_wanted", "silent"}

-----------------------------------------------------------------------------
(* The inductive strengthening of FeedTypeOK. *)

\* A queued item is flagged as a control message exactly when it is one.
FlaggedItem == {q \in Item : q.is_control => IsControl(q.art)}

\* Only control articles reach control handling, and only cancels with a
\* Cancel-Key reach the deletion by key.
ControlJobs ==
    \A t \in Actors :
        /\ job[t].pc \in {"control", "cancel", "controlling"} =>
              IsControl(job[t].art)
        /\ job[t].pc = "cancel" => HasKey(Control[job[t].art])

\* The sweep's "now" is a time that has been.
TimesBounded ==
    clock <= MaxClock /\ (sweep.pc # "sleep" => sweep.now <= MaxClock)

FeedTypeInv ==
    /\ StoreTypeInv
    /\ FeedTypeOK
    /\ queue \in Seq(FlaggedItem)
    /\ ControlJobs
    /\ TimesBounded

-----------------------------------------------------------------------------
LEMMA ActorTasks == Actors \subseteq Tasks /\ Sweeper \in Tasks
  BY FeedAssumption DEF Actors

LEMMA JobShape ==
    ASSUME NEW j \in Job, j.pc # "idle"
    PROVE  /\ j.how \in How /\ j.art \in Articles
           /\ j.pc = "moderation" => j.idx \in Nat
  BY DEF Job

LEMMA SweepShape ==
    ASSUME NEW w \in Sweep
    PROVE  /\ w.pc # "sleep" => w.now \in Nat /\ w.todo \in SUBSET Groups
           /\ w.pc = "ids" => w.group \in Groups
           /\ w.pc \in {"expire", "delete"} => w.ids \in SUBSET Ids
           /\ w.pc = "delete" => w.id \in Ids /\ w.art \in Articles
  BY DEF Sweep

(* A handler that moves on keeps its command and article. *)
LEMMA EnterShape ==
    ASSUME FeedTypeInv, NEW t \in Actors, job[t].pc # "idle",
           NEW pc \in {"list_groups", "store", "storing", "submit", "sending",
                       "exists", "control", "cancel", "controlling"},
           Enter(t, pc),
           pc \in {"control", "cancel", "controlling"} =>
               IsControl(job[t].art),
           pc = "cancel" => HasKey(Control[job[t].art])
    PROVE  job' \in [Actors -> Job] /\ ControlJobs'
<1> DEFINE j == [pc |-> pc, how |-> job[t].how, art |-> job[t].art]
<1>0. job \in [Actors -> Job]
  BY DEF FeedTypeInv, FeedTypeOK, Actors
<1>1. job[t].how \in How /\ job[t].art \in Articles
  BY <1>0, JobShape
<1>2. j \in Job
  BY <1>1 DEF Job
<1>3. /\ j.pc = pc
      /\ j.art = job[t].art
  OBVIOUS
<1>4. job' = [job EXCEPT ![t] = j]
  BY DEF Enter
<1> HIDE DEF j
<1>5. job' \in [Actors -> Job]
  BY <1>0, <1>2, <1>4
<1>6. ASSUME NEW u \in Actors
      PROVE  /\ job'[u].pc \in {"control", "cancel", "controlling"} =>
                   IsControl(job'[u].art)
             /\ job'[u].pc = "cancel" => HasKey(Control[job'[u].art])
  <2>1. CASE u = t
    BY <1>0, <1>3, <1>4, <2>1
  <2>2. CASE u # t
    BY <1>0, <1>4, <2>2 DEF FeedTypeInv, ControlJobs
  <2>3. QED
    BY <2>1, <2>2
<1>7. QED
  BY <1>5, <1>6 DEF ControlJobs, IsControl, HasKey

(* A handler that ends leaves well-typed replies and history. *)
LEMMA FinishShape ==
    ASSUME FeedTypeInv, NEW t \in Actors, NEW r \in Replies, Finish(t, r),
           job[t].pc # "idle" \/ r = "silent"
    PROVE  /\ job' \in [Actors -> Job] /\ ControlJobs'
           /\ reply' \in [Sessions -> Replies]
           /\ accepted' \subseteq How \X Articles
<1>0. job \in [Actors -> Job]
  BY DEF FeedTypeInv, FeedTypeOK, Actors
<1>1. job[t].pc # "idle" => job[t].how \in How /\ job[t].art \in Articles
  BY <1>0, JobShape
<1>2. Rest \in Job /\ Rest.pc = "idle"
  BY DEF Rest, Job
<1>3. job' = [job EXCEPT ![t] = Rest]
  BY DEF Finish
<1>4. job' \in [Actors -> Job]
  BY <1>0, <1>2, <1>3
<1>5. ControlJobs'
  BY <1>0, <1>2, <1>3 DEF FeedTypeInv, ControlJobs, IsControl, HasKey
<1>6. reply' \in [Sessions -> Replies]
  BY DEF Finish, FeedTypeInv, FeedTypeOK, Replies
<1>7. accepted' \subseteq How \X Articles
  BY <1>1 DEF Finish, FeedTypeInv, FeedTypeOK
<1>8. QED
  BY <1>4, <1>5, <1>6, <1>7

LEMMA RememberShape ==
    ASSUME FeedTypeInv, Remember
    PROVE  gone' \subseteq Ids \X Groups
<1>1. \A r \in groupArticles : r.id \in Ids /\ r.group \in Groups
  BY DEF FeedTypeInv, StoreTypeInv, StoreTypeOK, Row
<1>2. QED
  BY <1>1 DEF Remember, FeedTypeInv, FeedTypeOK

LEMMA SpendShape ==
    ASSUME FeedTypeInv, NEW what \in {"commands", "errors", "crashes"},
           NEW bound, Spend(what, bound)
    PROVE  spent' \in [{"commands", "errors", "crashes"} -> Nat]
  BY DEF Spend, FeedTypeInv, FeedTypeOK

-----------------------------------------------------------------------------
(* Every step of a handler, of the sweep or of the environment is one step *)
(* of the database, or none.                                               *)
LEMMA HandlerUsesStore ==
    ASSUME FeedTypeInv, NEW t \in Actors,
           \/ Store(t) \/ CancelByKey(t) \/ ObeyAdmin(t) \/ StoreStep(t)
    PROVE  StoreNext
<1>0. t \in Tasks /\ job[t] \in Job
  BY ActorTasks DEF FeedTypeInv, FeedTypeOK, Actors
<1>1. CASE Store(t)
  <2>1. job[t].art \in Articles
    BY <1>0, <1>1, JobShape DEF Store, Doing
  <2>2. StoreArticle(t, job[t].art)
    BY <1>1 DEF Store
  <2>3. QED
    BY <1>0, <2>1, <2>2 DEF StoreNext, Call
<1>2. CASE CancelByKey(t)
  <2>1. IsControl(job[t].art) /\ HasKey(Control[job[t].art])
    BY <1>2 DEF CancelByKey, Doing, FeedTypeInv, ControlJobs
  <2>2. job[t].art \in Articles
    BY <1>0, <1>2, JobShape DEF CancelByKey, Doing
  <2>3. Control[job[t].art].id \in Ids
    BY <2>1, <2>2, FeedAssumption DEF IsControl, HasKey, Command
  <2>4. DeleteArticleById(t, Control[job[t].art].id)
    BY <1>2 DEF CancelByKey
  <2>5. QED
    BY <1>0, <2>3, <2>4 DEF StoreNext, Call
<1>3. CASE ObeyAdmin(t)
  <2> DEFINE c == Control[job[t].art]
  <2>1. job[t].art \in Articles /\ IsControl(job[t].art)
    BY <1>0, <1>3, JobShape DEF ObeyAdmin, Doing, FeedTypeInv, ControlJobs
  <2>2. c \in Command
    BY <2>1, FeedAssumption DEF IsControl
  <2>3. \/ c.verb = "cancel" /\ DeleteArticleById(t, c.id)
        \/ c.verb = "newgroup" /\ AddGroup(t, c.group, c.moderated)
        \/ c.verb = "rmgroup" /\ RemoveGroup(t, c.group)
    BY <1>3 DEF ObeyAdmin
  <2> HIDE DEF c
  <2>4. CASE c.verb = "cancel" /\ DeleteArticleById(t, c.id)
    <3>1. c.id \in Ids
      BY <2>2, <2>4 DEF Command
    <3>2. QED
      BY <1>0, <2>4, <3>1 DEF StoreNext, Call
  <2>5. CASE c.verb = "newgroup" /\ AddGroup(t, c.group, c.moderated)
    <3>1. c.group \in Groups /\ c.moderated \in BOOLEAN
      BY <2>2, <2>5 DEF Command
    <3>2. QED
      BY <1>0, <2>5, <3>1 DEF StoreNext, Call
  <2>6. CASE c.verb = "rmgroup" /\ RemoveGroup(t, c.group)
    <3>1. c.group \in Groups
      BY <2>2, <2>6 DEF Command
    <3>2. QED
      BY <1>0, <2>6, <3>1 DEF StoreNext, Call
  <2>7. QED
    BY <2>3, <2>4, <2>5, <2>6
<1>4. CASE StoreStep(t)
  BY <1>0, <1>4 DEF StoreStep, StoreNext
<1>5. QED
  BY <1>1, <1>2, <1>3, <1>4

LEMMA SweepUsesStore ==
    ASSUME FeedTypeInv, SweepStep
    PROVE  StoreNext \/ storeUnchanged
<1>0. Sweeper \in Tasks /\ sweep \in Sweep
  BY ActorTasks DEF FeedTypeInv, FeedTypeOK
<1>1. CASE StartSweep \/ ListArticleIds \/ CheckExpires \/ NextSweepGroup
  BY <1>1 DEF StartSweep, ListArticleIds, CheckExpires, NextSweepGroup
<1>2. CASE SweepGroup
  <2>1. sweep.now \in Nat /\ sweep.todo \in SUBSET Groups
           /\ sweep.now <= MaxClock
    BY <1>0, <1>2, SweepShape DEF SweepGroup, FeedTypeInv, TimesBounded
  <2>2. PICK g \in sweep.todo :
            \/ PurgeGroupBefore(Sweeper, g, Cutoff(g))
            \/ storeUnchanged
    BY <1>2 DEF SweepGroup
  <2>3. g \in Groups /\ Retention[g] \in Nat
    BY <2>1, FeedAssumption
  <2>4. Cutoff(g) \in 0..MaxClock
    BY <2>1, <2>3, StoreAssumption DEF Cutoff
  <2>5. QED
    BY <1>0, <2>2, <2>3, <2>4 DEF StoreNext, Call
<1>3. CASE DeleteExpired
  <2>1. sweep.id \in Ids
    BY <1>0, <1>3, SweepShape DEF DeleteExpired
  <2>2. DeleteArticleById(Sweeper, sweep.id)
    BY <1>3 DEF DeleteExpired
  <2>3. QED
    BY <1>0, <2>1, <2>2 DEF StoreNext, Call
<1>4. CASE FinishSweep
  BY <1>0, <1>4 DEF FinishSweep, StoreNext, Call
<1>5. CASE StoreStep(Sweeper)
  BY <1>0, <1>5 DEF StoreStep, StoreNext
<1>6. QED
  BY <1>1, <1>2, <1>3, <1>4, <1>5 DEF SweepStep

LEMMA StepUsesStore ==
    ASSUME FeedTypeInv, [FeedNext]_feedVars
    PROVE  [StoreNext]_storeVars
<1>1. ASSUME NEW t \in Actors, SessionStep(t) \/ WorkerStep(t)
      PROVE  StoreNext \/ storeUnchanged
  <2>1. CASE Store(t) \/ CancelByKey(t) \/ ObeyAdmin(t) \/ StoreStep(t)
    BY <2>1, HandlerUsesStore
  <2>2. CASE ~(Store(t) \/ CancelByKey(t) \/ ObeyAdmin(t) \/ StoreStep(t))
    BY <1>1, <2>2
       DEF SessionStep, WorkerStep, ListGroups, CheckModeration, Stored,
           Submit, Sent, CheckKey, ControlFails, Obeyed, Take, Exists,
           storeUnchanged
  <2>3. QED
    BY <2>1, <2>2
<1>2. ASSUME NEW s \in Sessions, ClientStep(s)
      PROVE  storeUnchanged
  BY <1>2 DEF ClientStep, Post, IHave, TakeThis, Offer, Refuse, storeUnchanged
<1>3. ASSUME FaultStep
      PROVE  StoreNext \/ storeUnchanged
  BY <1>3 DEF FaultStep, CallFails, StatementFails, SweepFails, Crash,
              StoreNext, storeUnchanged
<1>4. CASE Time
  BY <1>4 DEF Time, StoreNext
<1>5. CASE UNCHANGED feedVars
  BY <1>5 DEF feedVars, storeUnchanged
<1>6. QED
  BY <1>1, <1>2, <1>3, <1>4, <1>5, SweepUsesStore
     DEF FeedNext, Actors, storeUnchanged

-----------------------------------------------------------------------------
(* Type correctness is preserved. *)
LEMMA FlaggedSeq ==
    ASSUME NEW q \in Seq(FlaggedItem)
    PROVE  q \in Seq(Item)
  BY DEF FlaggedItem

(* The parts that make up FeedTypeInv after a step. *)
LEMMA FeedTyped ==
    ASSUME FeedTypeInv, [FeedNext]_feedVars,
           job' \in [Actors -> Job], ControlJobs',
           reply' \in [Sessions -> Replies],
           accepted' \subseteq How \X Articles,
           queue' \in Seq(FlaggedItem),
           sweep' \in Sweep, TimesBounded',
           spent' \in [{"commands", "errors", "crashes"} -> Nat],
           gone' \subseteq Ids \X Groups
    PROVE  FeedTypeInv'
<1>1. StoreTypeInv'
  BY StepUsesStore, TypeNext DEF FeedTypeInv
<1>2. queue' \in Seq(Item)
  BY FlaggedSeq
<1>3. QED
  BY <1>1, <1>2 DEF FeedTypeInv, FeedTypeOK, Actors, Replies

(* The clock only moves by Tick. *)
LEMMA ClockStays ==
    ASSUME TimesBounded, UNCHANGED sweep, clock' = clock
    PROVE  TimesBounded'
  BY DEF TimesBounded

LEMMA OpKeepsClock ==
    ASSUME NEW t, Continue(t)
    PROVE  clock' = clock
  BY DEF Continue, SelectNumber, InsertRow, WriteOverview, DeleteMessage,
         RemoveName, RemoveOrphans, NextGroup, DeleteGroupRows, RemovalDone

LEMMA HandlerType ==
    ASSUME FeedTypeInv, [FeedNext]_feedVars, NEW t \in Actors,
           (t \in Sessions /\ SessionStep(t)) \/ WorkerStep(t)
    PROVE  FeedTypeInv'
<1>0. /\ job \in [Actors -> Job] /\ ControlJobs /\ TimesBounded
      /\ queue \in Seq(FlaggedItem) /\ sweep \in Sweep
      /\ reply \in [Sessions -> Replies]
      /\ accepted \subseteq How \X Articles
      /\ spent \in [{"commands", "errors", "crashes"} -> Nat]
  BY DEF FeedTypeInv, FeedTypeOK, Actors, Replies
<1>1. Remember /\ UNCHANGED <<sweep, spent>>
  BY DEF SessionStep, WorkerStep, ListGroups, CheckModeration, Store, Stored,
         Submit, Sent, CheckKey, CancelByKey, ControlFails, ObeyAdmin,
         Obeyed, Take, Exists, StoreStep, Frame
<1>2. clock' = clock
  <2>1. CASE StoreStep(t)
    BY <2>1, OpKeepsClock DEF StoreStep
  <2>2. CASE ~StoreStep(t)
    BY <2>2 DEF SessionStep, WorkerStep, ListGroups, CheckModeration, Store,
         Stored, Submit, Sent, CheckKey, CancelByKey, ControlFails,
         ObeyAdmin, Obeyed, Take, Exists, storeVars, StoreArticle,
         DeleteArticleById, AddGroup, RemoveGroup, DeleteGroupRows
  <2>3. QED
    BY <2>1, <2>2
<1>3. /\ sweep' \in Sweep /\ TimesBounded' /\ gone' \subseteq Ids \X Groups
      /\ spent' \in [{"commands", "errors", "crashes"} -> Nat]
  BY <1>0, <1>1, <1>2, ClockStays, RememberShape
<1> DEFINE Moved == /\ job' \in [Actors -> Job] /\ ControlJobs'
                    /\ reply' \in [Sessions -> Replies]
                    /\ accepted' \subseteq How \X Articles
<1>4. ASSUME NEW pc \in {"store", "storing", "submit", "sending", "exists",
                         "cancel", "controlling"},
             job[t].pc # "idle", Enter(t, pc), StayBusy,
             pc \in {"cancel", "controlling"} => IsControl(job[t].art),
             pc = "cancel" => HasKey(Control[job[t].art])
      PROVE  Moved
  BY <1>0, <1>4, EnterShape DEF StayBusy
<1>5. ASSUME NEW r \in Replies, job[t].pc # "idle", Finish(t, r)
      PROVE  Moved
  BY <1>5, FinishShape
<1>6. ASSUME Moved, queue' = queue
      PROVE  FeedTypeInv'
  BY <1>0, <1>3, <1>6, FeedTyped
<1> HIDE DEF Moved
<1>7. CASE ListGroups(t)
  <2>1. CASE Finish(t, "rejected")
    BY <1>5, <1>6, <1>7, <2>1 DEF ListGroups, Doing, Replies
  <2>2. CASE /\ job' = [job EXCEPT ![t] = [pc |-> "moderation", how |-> @.how,
                                           art |-> job[t].art, idx |-> 1]]
             /\ StayBusy
    <3>1. job[t].how \in How /\ job[t].art \in Articles
      BY <1>0, <1>7, JobShape DEF ListGroups, Doing
    <3> DEFINE j == [pc |-> "moderation", how |-> job[t].how,
                     art |-> job[t].art, idx |-> 1]
    <3>2. j \in Job /\ j.pc = "moderation"
      BY <3>1 DEF Job
    <3>3. job' = [job EXCEPT ![t] = j]
      BY <2>2
    <3> HIDE DEF j
    <3>4. job' \in [Actors -> Job] /\ ControlJobs'
      BY <1>0, <3>2, <3>3 DEF ControlJobs, IsControl, HasKey
    <3>5. QED
      BY <1>0, <1>6, <1>7, <2>2, <3>4 DEF Moved, ListGroups, StayBusy
  <2>3. QED
    BY <1>7, <2>1, <2>2 DEF ListGroups
<1>8. CASE CheckModeration(t)
  <2>1. CASE Finish(t, "rejected")
    BY <1>5, <1>6, <1>8, <2>1 DEF CheckModeration, Doing, Replies
  <2>2. CASE Enter(t, AfterValidation(job[t].how)) /\ StayBusy
    BY <1>4, <1>6, <1>8, <2>2 DEF CheckModeration, Doing, AfterValidation
  <2>3. CASE job' = [job EXCEPT ![t].idx = @ + 1] /\ StayBusy
    <3>1. /\ job[t].how \in How /\ job[t].art \in Articles
          /\ job[t].idx \in Nat /\ job[t].pc = "moderation"
      BY <1>0, <1>8, JobShape DEF CheckModeration, Doing
    <3>2. job[t] \in [pc : {"moderation"}, how : How, art : Articles, idx : Nat]
      BY <1>0, <3>1 DEF Job
    <3> DEFINE j == [job[t] EXCEPT !.idx = @ + 1]
    <3>3. j \in [pc : {"moderation"}, how : How, art : Articles, idx : Nat]
      BY <3>1, <3>2
    <3>4. j \in Job /\ j.pc = "moderation"
      BY <3>3 DEF Job
    <3>5. job' = [job EXCEPT ![t] = j]
      BY <2>3
    <3> HIDE DEF j
    <3>6. job' \in [Actors -> Job] /\ ControlJobs'
      BY <1>0, <3>4, <3>5 DEF ControlJobs, IsControl, HasKey
    <3>7. QED
      BY <1>0, <1>6, <1>8, <2>3, <3>6 DEF Moved, CheckModeration, StayBusy
  <2>4. QED
    BY <1>8, <2>1, <2>2, <2>3 DEF CheckModeration
<1>9. CASE Store(t)
  BY <1>4, <1>6, <1>9 DEF Store, Doing
<1>10. CASE Stored(t)
  BY <1>4, <1>5, <1>6, <1>10 DEF Stored, Doing, Replies
<1>11. CASE Sent(t)
  BY <1>5, <1>6, <1>11 DEF Sent, Doing, Replies
<1>12. CASE Exists(t)
  BY <1>4, <1>5, <1>6, <1>12 DEF Exists, Doing, Replies
<1>13. CASE CheckKey(t)
  <2>1. job[t].pc = "control" /\ IsControl(job[t].art)
    BY <1>0, <1>13 DEF CheckKey, Doing, ControlJobs
  <2>2. HasKey(Control[job[t].art])
    BY <1>13 DEF CheckKey
  <2>3. (Enter(t, "cancel") /\ StayBusy) \/ Finish(t, "accepted")
    BY <1>13 DEF CheckKey
  <2>4. QED
    BY <1>4, <1>5, <1>6, <1>13, <2>1, <2>2, <2>3 DEF CheckKey, Replies
<1>14. CASE CancelByKey(t) \/ ObeyAdmin(t)
  <2>1. job[t].pc # "idle" /\ IsControl(job[t].art)
    BY <1>0, <1>14 DEF CancelByKey, ObeyAdmin, Doing, ControlJobs
  <2>2. Enter(t, "controlling") /\ StayBusy /\ queue' = queue
    BY <1>14 DEF CancelByKey, ObeyAdmin
  <2>3. QED
    BY <1>4, <1>6, <2>1, <2>2
<1>15. CASE ControlFails(t) \/ Obeyed(t)
  <2>1. /\ job[t].pc # "idle" /\ queue' = queue
        /\ Finish(t, "accepted") \/ Finish(t, "silent")
    BY <1>15 DEF ControlFails, Obeyed, Doing
  <2>2. QED
    BY <1>5, <1>6, <2>1 DEF Replies
<1>16. CASE StoreStep(t)
  BY <1>0, <1>6, <1>16 DEF Moved, StoreStep, Frame, ControlJobs, IsControl,
                           HasKey
<1>17. CASE Submit(t) /\ t \in Sessions
  <2>1. job[t].art \in Articles
    BY <1>0, <1>17, JobShape DEF Submit, Doing
  <2> DEFINE q == [art |-> job[t].art, is_control |-> IsControl(job[t].art),
                   already_validated |-> TRUE, from |-> t]
  <2>2. q \in FlaggedItem
    BY <1>17, <2>1 DEF FlaggedItem, Item, IsControl
  <2>3. queue' = Append(queue, q)
    BY <1>17 DEF Submit
  <2> HIDE DEF q
  <2>4. queue' \in Seq(FlaggedItem)
    BY <1>0, <2>2, <2>3
  <2>5. Moved
    BY <1>4, <1>17 DEF Submit, Doing
  <2>6. QED
    BY <1>3, <2>4, <2>5, FeedTyped DEF Moved
<1>18. CASE Take(t)
  <2>1. queue # <<>> /\ queue' = Tail(queue)
    BY <1>18 DEF Take
  <2>2. Head(queue) \in FlaggedItem /\ queue' \in Seq(FlaggedItem)
    BY <1>0, <2>1, HeadTailProperties
  <2> DEFINE q == Head(queue)
             next(pc) == [pc |-> pc, how |-> "queue", art |-> q.art]
  <2>3. q.art \in Articles /\ (q.is_control => IsControl(q.art))
    BY <2>2 DEF FlaggedItem, Item
  <2>4. PICK j : /\ job' = [job EXCEPT ![t] = j]
                 /\ \/ j = next("control") /\ q.is_control
                    \/ j = next("exists") \/ j = Rest
    BY <1>18 DEF Take
  <2>5. /\ j \in Job
        /\ j.pc \in {"control", "exists", "idle"}
        /\ j.pc = "control" => IsControl(j.art)
    BY <2>3, <2>4 DEF Job, Rest, How
  <2>6. job' \in [Actors -> Job] /\ ControlJobs'
    BY <1>0, <2>4, <2>5 DEF ControlJobs, IsControl, HasKey
  <2>7. QED
    BY <1>0, <1>3, <1>18, <2>2, <2>6, FeedTyped DEF Take, StayBusy
<1>19. QED
  BY <1>7, <1>8, <1>9, <1>10, <1>11, <1>12, <1>13, <1>14, <1>15, <1>16,
     <1>17, <1>18 DEF SessionStep, WorkerStep

LEMMA SweepType ==
    ASSUME FeedTypeInv, [FeedNext]_feedVars, SweepStep
    PROVE  FeedTypeInv'
<1>0. /\ job \in [Actors -> Job] /\ ControlJobs /\ TimesBounded
      /\ queue \in Seq(FlaggedItem) /\ sweep \in Sweep
      /\ reply \in [Sessions -> Replies]
      /\ accepted \subseteq How \X Articles
      /\ spent \in [{"commands", "errors", "crashes"} -> Nat]
      /\ clock \in Nat
  BY DEF FeedTypeInv, FeedTypeOK, Actors, Replies, StoreTypeInv, StoreTypeOK
<1>1. Remember /\ UNCHANGED <<queue, job, reply, spent, accepted>>
  BY DEF SweepStep, StartSweep, SweepGroup, ListArticleIds, CheckExpires,
         DeleteExpired, NextSweepGroup, FinishSweep, StoreStep, Frame,
         SweepFrame
<1>2. clock' = clock
  <2>1. CASE StoreStep(Sweeper)
    BY <2>1, OpKeepsClock DEF StoreStep
  <2>2. CASE ~StoreStep(Sweeper)
    BY <2>2 DEF SweepStep, StartSweep, SweepGroup, ListArticleIds,
         CheckExpires, DeleteExpired, NextSweepGroup, FinishSweep,
         storeUnchanged, storeVars, PurgeGroupBefore, DeleteArticleById,
         PurgeOrphanMessages
  <2>3. QED
    BY <2>1, <2>2
<1>3. ASSUME sweep' \in Sweep, sweep'.pc # "sleep" => sweep'.now <= MaxClock
      PROVE  FeedTypeInv'
  <2>1. TimesBounded'
    BY <1>0, <1>2, <1>3 DEF TimesBounded
  <2>2. ControlJobs'
    BY <1>0, <1>1 DEF ControlJobs, IsControl, HasKey
  <2>3. gone' \subseteq Ids \X Groups
    BY <1>1, RememberShape
  <2>4. QED
    BY <1>0, <1>1, <1>3, <2>1, <2>2, <2>3, FeedTyped
<1>4. CASE StartSweep
  BY <1>0, <1>3, <1>4 DEF StartSweep, Sweep, TimesBounded
<1>5. CASE SweepGroup
  <2>1. /\ sweep.now \in Nat /\ sweep.todo \in SUBSET Groups
        /\ sweep.now <= MaxClock
    BY <1>0, <1>5, SweepShape DEF SweepGroup, TimesBounded
  <2>2. PICK g \in sweep.todo :
            sweep' = [pc |-> "ids", now |-> sweep.now, group |-> g,
                      todo |-> sweep.todo \ {g}]
    BY <1>5 DEF SweepGroup
  <2>3. QED
    BY <1>3, <2>1, <2>2 DEF Sweep
<1>6. CASE ListArticleIds
  <2>1. /\ sweep.now \in Nat /\ sweep.todo \in SUBSET Groups
        /\ sweep.now <= MaxClock
    BY <1>0, <1>6, SweepShape DEF ListArticleIds, TimesBounded
  <2>2. {r.id : r \in {x \in groupArticles : x.group = sweep.group}}
           \in SUBSET Ids
    BY DEF FeedTypeInv, StoreTypeInv, StoreTypeOK, Row
  <2>3. QED
    BY <1>3, <1>6, <2>1, <2>2 DEF ListArticleIds, Sweep
<1>7. CASE CheckExpires
  <2>1. /\ sweep.now \in Nat /\ sweep.todo \in SUBSET Groups
        /\ sweep.now <= MaxClock /\ sweep.ids \in SUBSET Ids
        /\ sweep.pc = "expire"
    BY <1>0, <1>7, SweepShape DEF CheckExpires, TimesBounded
  <2>2. sweep \in [pc : {"expire"}, now : Nat, todo : SUBSET Groups,
                   ids : SUBSET Ids]
    BY <1>0, <2>1 DEF Sweep
  <2>3. PICK i \in sweep.ids :
           \/ /\ Expired(i, sweep.now)
              /\ sweep' = [pc |-> "delete", now |-> sweep.now, id |-> i,
                           todo |-> sweep.todo, ids |-> sweep.ids \ {i},
                           art |-> messages[i]]
           \/ sweep' = [sweep EXCEPT !.ids = sweep.ids \ {i}]
    BY <1>7, <2>2 DEF CheckExpires
  <2>4. Expired(i, sweep.now) => messages[i] \in Articles
    BY <1>0, <2>1 DEF Expired, FeedTypeInv, StoreTypeInv, StoreTypeOK
  <2>5. QED
    BY <1>3, <2>1, <2>2, <2>3, <2>4 DEF Sweep
<1>8. CASE DeleteExpired
  <2>1. /\ sweep.now \in Nat /\ sweep.todo \in SUBSET Groups
        /\ sweep.now <= MaxClock /\ sweep.ids \in SUBSET Ids
    BY <1>0, <1>8, SweepShape DEF DeleteExpired, TimesBounded
  <2>2. QED
    BY <1>3, <1>8, <2>1 DEF DeleteExpired, Sweep
<1>9. CASE NextSweepGroup
  <2>1. /\ sweep.now \in Nat /\ sweep.todo \in SUBSET Groups
        /\ sweep.now <= MaxClock
    BY <1>0, <1>9, SweepShape DEF NextSweepGroup, TimesBounded
  <2>2. QED
    BY <1>3, <1>9, <2>1 DEF NextSweepGroup, Sweep
<1>10. CASE FinishSweep
  BY <1>3, <1>10 DEF FinishSweep, Sweep
<1>11. CASE StoreStep(Sweeper)
  BY <1>0, <1>3, <1>11 DEF StoreStep, Frame, TimesBounded
<1>12. QED
  BY <1>4, <1>5, <1>6, <1>7, <1>8, <1>9, <1>10, <1>11 DEF SweepStep

LEMMA ClientType ==
    ASSUME FeedTypeInv, [FeedNext]_feedVars, NEW s \in Sessions, ClientStep(s)
    PROVE  FeedTypeInv'
<1>0. /\ job \in [Actors -> Job] /\ ControlJobs /\ TimesBounded
      /\ queue \in Seq(FlaggedItem) /\ sweep \in Sweep
      /\ reply \in [Sessions -> Replies]
      /\ accepted \subseteq How \X Articles
      /\ spent \in [{"commands", "errors", "crashes"} -> Nat]
      /\ s \in Actors
  BY DEF FeedTypeInv, FeedTypeOK, Actors, Replies
<1>1. /\ Remember /\ UNCHANGED <<storeVars, queue, sweep>>
      /\ spent' = spent \/ Spend("commands", MaxCommands)
  BY DEF ClientStep, Post, IHave, TakeThis, Offer, Refuse
<1>2. ASSUME job' \in [Actors -> Job], ControlJobs',
             reply' \in [Sessions -> Replies],
             accepted' \subseteq How \X Articles
      PROVE  FeedTypeInv'
  <2>1. TimesBounded'
    BY <1>0, <1>1, ClockStays DEF storeVars
  <2>2. spent' \in [{"commands", "errors", "crashes"} -> Nat]
    BY <1>0, <1>1, SpendShape
  <2>3. gone' \subseteq Ids \X Groups
    BY <1>1, RememberShape
  <2>4. QED
    BY <1>0, <1>1, <1>2, <2>1, <2>2, <2>3, FeedTyped
<1>3. CASE Refuse(s)
  BY <1>0, <1>2, <1>3, FinishShape DEF Refuse, Doing, Replies
<1>4. ASSUME NEW a \in Articles, NEW how \in How,
             NEW pc \in {"list_groups", "control"},
             pc = "control" => IsControl(a),
             job' = [job EXCEPT ![s] = [pc |-> pc, how |-> how, art |-> a]]
      PROVE  job' \in [Actors -> Job] /\ ControlJobs'
  <2> DEFINE j == [pc |-> pc, how |-> how, art |-> a]
  <2>1. j \in Job /\ j.pc = pc /\ j.art = a
    BY DEF Job
  <2>2. job' = [job EXCEPT ![s] = j]
    BY <1>4
  <2> HIDE DEF j
  <2>3. QED
    BY <1>0, <1>4, <2>1, <2>2 DEF ControlJobs, IsControl, HasKey
<1>5. ASSUME NEW a \in Posts, Post(s, a)
      PROVE  FeedTypeInv'
  <2>1. a \in Articles
    BY FeedAssumption
  <2>2. job' \in [Actors -> Job] /\ ControlJobs'
    BY <1>4, <1>5, <2>1 DEF Post, How
  <2>3. QED
    BY <1>0, <1>2, <1>5, <2>2 DEF Post, Replies
<1>6. ASSUME NEW verb \in {"IHAVE", "TAKETHIS"}, NEW o \in Offers \cup Streams,
             Offer(s, verb, o[1], o[2])
      PROVE  FeedTypeInv'
  <2>1. o[2] \in Articles
    BY FeedAssumption
  <2>2. job' \in [Actors -> Job] /\ ControlJobs'
    <3>1. CASE UNCHANGED job
      BY <1>0, <3>1 DEF ControlJobs, IsControl, HasKey
    <3>2. CASE IsControl(o[2]) /\ ~UNCHANGED job
      <4>1. job' = [job EXCEPT ![s] = [pc |-> "control", how |-> verb,
                                       art |-> o[2]]]
        BY <1>6, <3>2 DEF Offer
      <4>2. QED
        BY <1>4, <2>1, <3>2, <4>1 DEF How
    <3>3. CASE ~IsControl(o[2]) /\ ~UNCHANGED job
      <4>1. job' = [job EXCEPT ![s] = [pc |-> "list_groups", how |-> verb,
                                       art |-> o[2]]]
        BY <1>6, <3>3 DEF Offer
      <4>2. QED
        BY <1>4, <2>1, <4>1 DEF How
    <3>4. QED
      BY <3>1, <3>2, <3>3
  <2>3. QED
    BY <1>0, <1>2, <1>6, <2>2 DEF Offer, Replies
<1>7. QED
  BY <1>3, <1>5, <1>6 DEF ClientStep, IHave, TakeThis

LEMMA FaultType ==
    ASSUME FeedTypeInv, [FeedNext]_feedVars, FaultStep
    PROVE  FeedTypeInv'
<1>0. /\ job \in [Actors -> Job] /\ ControlJobs /\ TimesBounded
      /\ queue \in Seq(FlaggedItem) /\ sweep \in Sweep
      /\ reply \in [Sessions -> Replies]
      /\ accepted \subseteq How \X Articles
      /\ spent \in [{"commands", "errors", "crashes"} -> Nat]
  BY DEF FeedTypeInv, FeedTypeOK, Actors, Replies
<1>1. /\ Remember
      /\ Spend("errors", MaxErrors) \/ Spend("crashes", MaxCrashes)
      /\ clock' = clock
  BY DEF FaultStep, CallFails, StatementFails, SweepFails, Crash, storeVars,
         DbError, Restart
<1>2. /\ gone' \subseteq Ids \X Groups
      /\ spent' \in [{"commands", "errors", "crashes"} -> Nat]
  BY <1>1, RememberShape, SpendShape
<1>3. ASSUME NEW t \in Tasks, CallFails(t)
      PROVE  FeedTypeInv'
  BY <1>0, <1>1, <1>2, <1>3, ClockStays, FeedTyped
     DEF CallFails, ControlJobs, IsControl, HasKey
<1>4. ASSUME NEW t \in Actors, StatementFails(t)
      PROVE  FeedTypeInv'
  <2>1. /\ job' \in [Actors -> Job] /\ ControlJobs'
        /\ reply' \in [Sessions -> Replies]
        /\ accepted' \subseteq How \X Articles
    BY <1>4, FinishShape DEF StatementFails, Replies
  <2>2. QED
    BY <1>0, <1>1, <1>2, <1>4, <2>1, ClockStays, FeedTyped DEF StatementFails
<1>5. ASSUME SweepFails
      PROVE  FeedTypeInv'
  <2>1. sweep' \in Sweep /\ (sweep'.pc # "sleep" => sweep'.now <= MaxClock)
    <3>1. CASE sweep' = [pc |-> "sleep"]
      BY <3>1 DEF Sweep
    <3>2. CASE sweep' # [pc |-> "sleep"]
      <4>1. /\ sweep.now \in Nat /\ sweep.todo \in SUBSET Groups
            /\ sweep.now <= MaxClock
            /\ sweep.pc \in {"expire", "delete"} => sweep.ids \in SUBSET Ids
        BY <1>0, <1>5, <3>2, SweepShape DEF SweepFails, TimesBounded
      <4>2. CASE sweep.pc = "expire"
        <5>1. sweep \in [pc : {"expire"}, now : Nat, todo : SUBSET Groups,
                         ids : SUBSET Ids]
          BY <1>0, <4>2 DEF Sweep
        <5>2. CASE sweep' = [pc |-> "groups", now |-> sweep.now,
                             todo |-> sweep.todo]
          BY <4>1, <5>2 DEF Sweep
        <5>3. CASE \E i \in sweep.ids :
                      sweep' = [sweep EXCEPT !.ids = @ \ {i}]
          BY <4>1, <5>1, <5>3 DEF Sweep
        <5>4. QED
          BY <1>5, <3>2, <4>2, <5>2, <5>3 DEF SweepFails
      <4>3. CASE sweep.pc = "groups"
        <5>1. PICK g \in sweep.todo :
                  sweep' = [pc |-> "ids", now |-> sweep.now, group |-> g,
                            todo |-> sweep.todo \ {g}]
          BY <1>5, <3>2, <4>3 DEF SweepFails
        <5>2. QED
          BY <4>1, <5>1 DEF Sweep
      <4>4. CASE sweep.pc \in {"ids", "delete"}
        BY <1>5, <4>1, <4>4 DEF SweepFails, Sweep
      <4>5. QED
        BY <1>5, <4>2, <4>3, <4>4 DEF SweepFails
    <3>3. QED
      BY <3>1, <3>2
  <2>2. TimesBounded'
    BY <1>0, <1>1, <2>1 DEF TimesBounded
  <2>3. UNCHANGED <<queue, job, reply, accepted>>
    BY <1>5 DEF SweepFails
  <2>4. ControlJobs'
    BY <1>0, <2>3 DEF ControlJobs, IsControl, HasKey
  <2>5. QED
    BY <1>0, <1>2, <2>1, <2>2, <2>3, <2>4, FeedTyped
<1>6. ASSUME Crash
      PROVE  FeedTypeInv'
  <2>1. Rest \in Job /\ Rest.pc = "idle"
    BY DEF Rest, Job
  <2>2. job' \in [Actors -> Job] /\ ControlJobs'
    BY <1>6, <2>1 DEF Crash, Actors, ControlJobs
  <2>3. sweep' \in Sweep /\ TimesBounded'
    BY <1>0, <1>1, <1>6 DEF Crash, Sweep, TimesBounded
  <2>4. queue' \in Seq(FlaggedItem) /\ reply' \in [Sessions -> Replies]
    BY <1>6 DEF Crash, Replies
  <2>5. QED
    BY <1>0, <1>2, <1>6, <2>2, <2>3, <2>4, FeedTyped DEF Crash
<1>7. QED
  BY <1>3, <1>4, <1>5, <1>6 DEF FaultStep, Actors

LEMMA FeedTypeInit == FeedInit => FeedTypeInv
<1> SUFFICES ASSUME FeedInit PROVE FeedTypeInv
  OBVIOUS
<1>1. StoreTypeInv
  BY TypeInit DEF FeedInit
<1>2. Rest \in Job /\ Rest.pc = "idle"
  BY DEF Rest, Job
<1>3. job \in [Actors -> Job] /\ ControlJobs
  BY <1>2 DEF FeedInit, Actors, ControlJobs
<1>4. sweep \in Sweep /\ TimesBounded
  BY StoreAssumption DEF FeedInit, StoreInit, Sweep, TimesBounded
<1>5. spent \in [{"commands", "errors", "crashes"} -> Nat]
  BY DEF FeedInit
<1>6. QED
  BY <1>1, <1>3, <1>4, <1>5 DEF FeedInit, FeedTypeInv, FeedTypeOK, Actors

LEMMA FeedTypeNext == FeedTypeInv /\ [FeedNext]_feedVars => FeedTypeInv'
<1> SUFFICES ASSUME FeedTypeInv, [FeedNext]_feedVars
             PROVE  FeedTypeInv'
  OBVIOUS
<1>1. CASE Time
  <2>1. /\ UNCHANGED <<queue, job, sweep, reply, spent, accepted>>
        /\ Remember /\ clock' <= MaxClock
    BY <1>1, StoreAssumption DEF Time, Frame, Tick, FeedTypeInv, StoreTypeInv,
                                 StoreTypeOK
  <2>2. gone' \subseteq Ids \X Groups
    BY <2>1, RememberShape
  <2>3. TimesBounded' /\ ControlJobs'
    BY <2>1 DEF FeedTypeInv, TimesBounded, ControlJobs, IsControl, HasKey
  <2>4. QED
    BY <2>1, <2>2, <2>3, FeedTyped DEF FeedTypeInv, FeedTypeOK, Actors, Replies
<1>2. CASE UNCHANGED feedVars
  <2>1. UNCHANGED <<queue, job, sweep, reply, spent, accepted, gone, clock>>
    BY <1>2 DEF feedVars, storeVars
  <2>2. TimesBounded' /\ ControlJobs'
    BY <2>1 DEF FeedTypeInv, TimesBounded, ControlJobs, IsControl, HasKey
  <2>3. QED
    BY <2>1, <2>2, FeedTyped DEF FeedTypeInv, FeedTypeOK, Actors, Replies
<1>3. QED
  BY <1>1, <1>2, HandlerType, SweepType, ClientType, FaultType
     DEF FeedNext, Actors

(* The queue, the handlers and the sweep always have their types; in       *)
(* particular every storage call they make has well-formed arguments.      *)
THEOREM FeedTypeCorrect == FeedSpec => []FeedTypeOK
<1>1. FeedSpec => []FeedTypeInv
  BY FeedTypeInit, FeedTypeNext, PTL DEF FeedSpec
<1>2. QED
  BY <1>1, PTL DEF FeedTypeInv

(* The running server implements the database specification: whatever the  *)
(* handlers, workers, control messages and the sweep do to the tables, they *)
(* do by its operations.                                                   *)
THEOREM FeedRefinesStore == FeedSpec => StoreSpec
<1>1. FeedInit => StoreInit
  BY DEF FeedInit
<1>2. FeedTypeInv /\ [FeedNext]_feedVars => [StoreNext]_storeVars
  BY StepUsesStore
<1>3. FeedSpec => []FeedTypeInv
  BY FeedTypeInit, FeedTypeNext, PTL DEF FeedSpec
<1>4. QED
  BY <1>1, <1>2, <1>3, PTL DEF FeedSpec, StoreSpec

(* In the running server every listed article exists and no number is      *)
(* given to two articles.                                                  *)
THEOREM ServerTablesConsistent ==
    FeedSpec => [](NumbersUnique /\ RowsHaveMessages)
  BY FeedRefinesStore, ArticleNumbersUnique, ListedArticlesExist, PTL

-----------------------------------------------------------------------------
(* Acknowledged transfers.  The invariant follows store_article through    *)
(* its loop: the newsgroups before the cursor have been filed.             *)

FiledUpTo(a, n) ==
    \A k \in DOMAIN Newsgroups[a] :
        k < n => FiledIn(MessageId[a], Newsgroups[a][k])

StoringPcs == {"select_number", "insert_row", "write_overview"}

Progress(s) ==
    /\ job[s].pc = "storing" =>
         /\ op[s].pc \in StoringPcs \cup {"ok", "err"}
         /\ op[s].pc \in StoringPcs => op[s].art = job[s].art
         /\ op[s].pc \in {"select_number", "insert_row"} =>
               FiledUpTo(job[s].art, op[s].idx)
         /\ op[s].pc = "write_overview" => FiledUpTo(job[s].art, op[s].idx + 1)
         /\ op[s].pc = "ok" => Filed(job[s].art)
    /\ job[s].pc \in {"submit", "sending"} =>
         job[s].how = "POST" \/ Filed(job[s].art)

TransfersInv ==
    FeedTypeInv /\ TransfersKept /\ \A s \in Sessions : Progress(s)

LEMMA StepRemembers ==
    ASSUME [FeedNext]_feedVars
    PROVE  Remember
<1>1. CASE UNCHANGED feedVars
  BY <1>1 DEF feedVars, storeVars, Remember
<1>2. ASSUME NEW t \in Actors, SessionStep(t) \/ WorkerStep(t)
      PROVE  Remember
  BY <1>2 DEF SessionStep, WorkerStep, ListGroups, CheckModeration, Store,
         Stored, Submit, Sent, CheckKey, CancelByKey, ControlFails,
         ObeyAdmin, Obeyed, Take, Exists, StoreStep
<1>3. CASE SweepStep
  BY <1>3 DEF SweepStep, StartSweep, SweepGroup, ListArticleIds,
         CheckExpires, DeleteExpired, NextSweepGroup, FinishSweep, StoreStep
<1>4. ASSUME NEW s \in Sessions, ClientStep(s)
      PROVE  Remember
  BY <1>4 DEF ClientStep, Post, IHave, TakeThis, Offer, Refuse
<1>5. CASE FaultStep \/ Time
  BY <1>5 DEF FaultStep, CallFails, StatementFails, SweepFails, Crash, Time
<1>6. QED
  BY <1>1, <1>2, <1>3, <1>4, <1>5 DEF FeedNext, Actors

(* Filing is stable: a row either stays or is remembered as gone. *)
LEMMA FiledInStable ==
    ASSUME Remember, NEW i, NEW g, FiledIn(i, g)
    PROVE  FiledIn(i, g)'
<1>1. CASE <<i, g>> \in gone
  BY <1>1 DEF Remember, FiledIn
<1>2. ASSUME NEW r \in groupArticles, r.id = i, r.group = g
      PROVE  FiledIn(i, g)'
  <2>1. CASE r \in groupArticles'
    BY <1>2, <2>1 DEF FiledIn
  <2>2. CASE r \notin groupArticles'
    <3>1. <<r.id, r.group>> \in gone'
      BY <1>2, <2>2 DEF Remember
    <3>2. QED
      BY <1>2, <3>1 DEF FiledIn
  <2>3. QED
    BY <2>1, <2>2
<1>3. QED
  BY <1>1, <1>2 DEF FiledIn

LEMMA FiledStable ==
    ASSUME Remember, NEW a
    PROVE  /\ Filed(a) => Filed(a)'
           /\ \A n : FiledUpTo(a, n) => FiledUpTo(a, n)'
  BY FiledInStable DEF Filed, FiledUpTo

(* A session that takes no step keeps its progress. *)
LEMMA ProgressStable ==
    ASSUME Remember, NEW s \in Sessions, Progress(s),
           op'[s] = op[s], job'[s] = job[s]
    PROVE  Progress(s)'
  BY FiledStable DEF Progress, StoringPcs

(* A session that is neither storing nor about to acknowledge has nothing  *)
(* to show.                                                                *)
LEMMA ProgressIdle ==
    ASSUME NEW s \in Sessions,
           job'[s].pc \notin {"storing", "submit", "sending"}
    PROVE  Progress(s)'
  BY DEF Progress

LEMMA LoopProgress ==
    ASSUME FeedTypeInv, NEW s \in Sessions, NEW a \in Articles,
           NEW n \in Nat \ {0}, NEW now,
           FiledUpTo(a, n)', op'[s] = Loop(a, n, now),
           job'[s].pc = "storing", job'[s].art = a
    PROVE  Progress(s)'
<1>0. Len(Newsgroups[a]) \in Nat
  BY StoreAssumption
<1>1. CASE n <= Len(Newsgroups[a])
  <2>1. op'[s] = [pc |-> "select_number", art |-> a, idx |-> n, at |-> now]
    BY <1>1 DEF Loop
  <2>2. QED
    BY <2>1 DEF Progress, StoringPcs
<1>2. CASE ~(n <= Len(Newsgroups[a]))
  <2>1. op'[s].pc = "ok"
    BY <1>2 DEF Loop, Result
  <2>2. FiledUpTo(a, n)' => Filed(a)'
    <3>1. DOMAIN Newsgroups[a] = 1..Len(Newsgroups[a])
      BY StoreAssumption
    <3>2. QED
      BY <1>0, <1>2, <3>1 DEF FiledUpTo, Filed, InRange
  <2>3. QED
    BY <2>1, <2>2 DEF Progress, StoringPcs
<1>3. QED
  BY <1>1, <1>2

(* A row for the n-th newsgroup files the article one newsgroup further. *)
LEMMA RowFiles ==
    ASSUME Remember, NEW a \in Articles, NEW n \in Nat, FiledUpTo(a, n),
           \E r \in groupArticles' :
               r.id = MessageId[a] /\ r.group = Newsgroups[a][n]
    PROVE  FiledUpTo(a, n + 1)'
<1>1. FiledIn(MessageId[a], Newsgroups[a][n])'
  BY DEF FiledIn
<1>2. FiledUpTo(a, n)'
  BY FiledStable
<1>3. DOMAIN Newsgroups[a] \subseteq Nat
  BY StoreAssumption
<1>4. QED
  BY <1>1, <1>2, <1>3 DEF FiledUpTo

(* The statements of store_article make progress. *)
LEMMA StoreStepProgress ==
    ASSUME FeedTypeInv, NEW s \in Sessions, Progress(s), StoreStep(s)
    PROVE  Progress(s)'
<1>0. /\ s \in Tasks /\ op \in [Tasks -> Op] /\ op[s] \in Op
      /\ CursorInRange /\ Remember /\ job'[s] = job[s]
  BY ActorTasks DEF Actors, FeedTypeInv, StoreTypeInv, StoreTypeOK, StoreStep,
                    Frame
<1>1. CASE job[s].pc # "storing"
  BY <1>0, <1>1, FiledStable DEF Progress
<1>2. CASE job[s].pc = "storing"
  <2>1. \/ SelectNumber(s) \/ InsertRow(s) \/ WriteOverview(s)
    BY <1>2 DEF StoreStep, Continue, Progress, StoringPcs, DeleteMessage,
                RemoveName, RemoveOrphans, NextGroup, RemovalDone, At
  <2>2. CASE SelectNumber(s)
    <3>1. PICK n \in 1..MaxNumber :
             op' = [op EXCEPT ![s] = [pc |-> "insert_row", art |-> op[s].art,
                                      idx |-> op[s].idx, at |-> op[s].at,
                                      num |-> n]]
      BY <2>2 DEF SelectNumber, Go
    <3>2. /\ op'[s].pc = "insert_row" /\ op'[s].art = op[s].art
          /\ op'[s].idx = op[s].idx
      BY <1>0, <3>1
    <3>3. op[s].pc = "select_number"
      BY <2>2 DEF SelectNumber, At
    <3>4. QED
      BY <1>0, <1>2, <3>2, <3>3, FiledStable DEF Progress, StoringPcs
  <2>3. CASE InsertRow(s)
    <3>1. op[s].pc = "insert_row" /\ op[s] \in Writing
      BY <1>0, <2>3, OpShape DEF InsertRow, At
    <3>2. CASE Go(s, Result("err"))
      <4>1. op'[s].pc = "err"
        BY <1>0, <3>2 DEF Go, Result
      <4>2. QED
        BY <1>0, <1>2, <4>1 DEF Progress, StoringPcs
    <3>3. CASE /\ groupArticles' = groupArticles \cup {NewRow(op[s])}
               /\ Go(s, [op[s] EXCEPT !.pc = "write_overview"])
      <4>1. op' = [op EXCEPT ![s] = [op[s] EXCEPT !.pc = "write_overview"]]
        BY <3>3 DEF Go
      <4>2. /\ op'[s].pc = "write_overview" /\ op'[s].art = op[s].art
            /\ op'[s].idx = op[s].idx /\ op[s].idx \in Nat
        BY <1>0, <3>1, <4>1 DEF Writing
      <4>3. op[s].art = job[s].art /\ FiledUpTo(job[s].art, op[s].idx)
        BY <1>2, <3>1 DEF Progress, StoringPcs
      <4>4. PICK a \in Articles, n \in Nat : a = op[s].art /\ n = op[s].idx
        BY <3>1 DEF Writing
      <4>5. \E r \in groupArticles' :
                r.id = MessageId[a] /\ r.group = Newsgroups[a][n]
        <5>1. NewRow(op[s]) \in groupArticles'
          BY <3>3
        <5>2. /\ NewRow(op[s]).id = MessageId[a]
              /\ NewRow(op[s]).group = Newsgroups[a][n]
          BY <4>4 DEF NewRow
        <5>3. QED
          BY <5>1, <5>2
      <4>6. FiledUpTo(a, n + 1)'
        BY <1>0, <4>3, <4>4, <4>5, RowFiles
      <4>7. job'[s].art = a /\ op'[s].idx = n
        BY <1>0, <4>2, <4>3, <4>4
      <4>8. FiledUpTo(job[s].art, op[s].idx + 1)'
        BY <4>6, <4>7
      <4>9. QED
        BY <1>0, <1>2, <4>2, <4>3, <4>8 DEF Progress, StoringPcs
    <3>4. QED
      BY <2>3, <3>2, <3>3 DEF InsertRow
  <2>4. CASE WriteOverview(s)
    <3>1. op[s].pc = "write_overview" /\ op[s] \in Writing
      BY <1>0, <2>4, OpShape DEF WriteOverview, At
    <3>2. op'[s] = Loop(op[s].art, op[s].idx + 1, op[s].at)
      BY <1>0, <2>4 DEF WriteOverview, Go
    <3>3. /\ op[s].art = job[s].art /\ op[s].art \in Articles
          /\ op[s].idx + 1 \in Nat \ {0}
          /\ FiledUpTo(op[s].art, op[s].idx + 1)
      BY <1>2, <3>1 DEF Progress, StoringPcs, Writing
    <3>4. PICK a \in Articles, n \in Nat \ {0}, now \in Nat :
              a = op[s].art /\ n = op[s].idx + 1 /\ now = op[s].at
      BY <3>1, <3>3 DEF Writing
    <3>5. FiledUpTo(a, n)'
      BY <1>0, <3>3, <3>4, FiledStable
    <3>6. /\ op'[s] = Loop(a, n, now)
          /\ job'[s].pc = "storing" /\ job'[s].art = a
      BY <1>0, <1>2, <3>2, <3>3, <3>4
    <3>7. QED
      BY <3>4, <3>5, <3>6, LoopProgress
  <2>5. QED
    BY <2>1, <2>2, <2>3, <2>4
<1>3. QED
  BY <1>1, <1>2

(* Only the session itself, or a crash, changes what a session is doing. *)
LEMMA StoreElsewhere ==
    ASSUME FeedTypeInv, NEW t \in Tasks, NEW u \in Tasks, u # t,
           \/ Continue(t) \/ DbError(t) \/ PurgeOrphanMessages(t)
           \/ \E a : StoreArticle(t, a)
           \/ \E i : DeleteArticleById(t, i)
           \/ \E g, m : AddGroup(t, g, m)
           \/ \E g : RemoveGroup(t, g)
           \/ \E g, b : PurgeGroupBefore(t, g, b)
    PROVE  op'[u] = op[u]
<1>1. \E o : op' = [op EXCEPT ![t] = o]
  BY DEF Continue, SelectNumber, InsertRow, WriteOverview, DeleteMessage,
         RemoveName, RemoveOrphans, NextGroup, DeleteGroupRows, RemovalDone,
         DbError, PurgeOrphanMessages, StoreArticle, DeleteArticleById,
         AddGroup, RemoveGroup, PurgeGroupBefore, Go
<1>2. QED
  BY <1>1 DEF FeedTypeInv, StoreTypeInv, StoreTypeOK

LEMMA HandlerElsewhere ==
    ASSUME FeedTypeInv, NEW t \in Actors, NEW u \in Actors, u # t,
           \/ SessionStep(t) \/ WorkerStep(t)
           \/ ClientStep(t) \/ StatementFails(t)
    PROVE  op'[u] = op[u] /\ job'[u] = job[u]
<1>0. t \in Tasks /\ u \in Tasks /\ job \in [Actors -> Job]
  BY ActorTasks DEF FeedTypeInv, FeedTypeOK, Actors
<1>1. op'[u] = op[u]
  <2>1. CASE Store(t)
    BY <1>0, <2>1, StoreElsewhere DEF Store
  <2>2. CASE CancelByKey(t)
    BY <1>0, <2>2, StoreElsewhere DEF CancelByKey
  <2>3. CASE ObeyAdmin(t)
    BY <1>0, <2>3, StoreElsewhere DEF ObeyAdmin
  <2>4. CASE StoreStep(t)
    BY <1>0, <2>4, StoreElsewhere DEF StoreStep
  <2>5. CASE ~(Store(t) \/ CancelByKey(t) \/ ObeyAdmin(t) \/ StoreStep(t))
    BY <2>5 DEF SessionStep, WorkerStep, ClientStep, StatementFails,
         ListGroups, CheckModeration, Stored, Submit, Sent, CheckKey,
         ControlFails, Obeyed, Take, Exists, Post, IHave, TakeThis, Offer,
         Refuse, storeVars
  <2>6. QED
    BY <2>1, <2>2, <2>3, <2>4, <2>5
<1>2. \/ UNCHANGED job
      \/ \E j : job' = [job EXCEPT ![t] = j]
  BY DEF SessionStep, WorkerStep, ClientStep, StatementFails, ListGroups,
         CheckModeration, Store, Stored, Submit, Sent, CheckKey,
         CancelByKey, ControlFails, ObeyAdmin, Obeyed, Take, Exists,
         StoreStep, Frame, Post, IHave, TakeThis, Offer, Refuse, Enter, Finish
<1>3. QED
  BY <1>0, <1>1, <1>2

(* A session's own step keeps its progress. *)
LEMMA OwnProgress ==
    ASSUME FeedTypeInv, Remember, NEW s \in Sessions, Progress(s),
           SessionStep(s) \/ ClientStep(s) \/ StatementFails(s)
    PROVE  Progress(s)'
<1>0. s \in Actors /\ s \in Tasks /\ job \in [Actors -> Job] /\ job[s] \in Job
        /\ op \in [Tasks -> Op]
  BY ActorTasks DEF Actors, FeedTypeInv, FeedTypeOK, StoreTypeInv, StoreTypeOK
<1>1. ASSUME NEW r, Finish(s, r)
      PROVE  Progress(s)'
  <2>1. job'[s].pc = "idle"
    BY <1>0, <1>1 DEF Finish, Rest
  <2>2. QED
    BY <2>1, ProgressIdle
<1>2. ASSUME NEW pc, Enter(s, pc)
      PROVE  job'[s].pc = pc /\ job'[s].how = job[s].how
               /\ job'[s].art = job[s].art
  BY <1>0, <1>2 DEF Enter
<1>3. CASE StoreStep(s)
  BY <1>3, StoreStepProgress
<1>4. CASE Store(s)
  <2>1. job'[s].pc = "storing" /\ job'[s].art = job[s].art
    BY <1>2, <1>4 DEF Store
  <2>2. job[s].art \in Articles
    BY <1>0, <1>4, JobShape DEF Store, Doing
  <2>3. op'[s] = Loop(job[s].art, 1, clock)
    BY <1>0, <1>4 DEF Store, StoreArticle, Go
  <2>4. PICK a \in Articles : a = job[s].art
    BY <2>2
  <2> PICK now : now = clock
    OBVIOUS
  <2>5. FiledUpTo(a, 1)'
    <3>1. \A k \in DOMAIN Newsgroups[a] : ~(k < 1)
      BY StoreAssumption
    <3>2. QED
      BY <3>1 DEF FiledUpTo
  <2>6. QED
    BY <2>1, <2>3, <2>4, <2>5, LoopProgress
<1>5. CASE Stored(s)
  <2>1. CASE At(s, "ok") /\ Enter(s, "submit")
    <3>1. Filed(job[s].art)
      BY <1>5, <2>1 DEF Stored, Doing, At, Progress
    <3>2. PICK a : a = job[s].art
      OBVIOUS
    <3>3. Filed(a)'
      BY <3>1, <3>2, FiledStable
    <3>4. job'[s].pc = "submit" /\ job'[s].art = a
      BY <1>2, <2>1, <3>2
    <3>5. QED
      BY <3>3, <3>4 DEF Progress
  <2>2. CASE Finish(s, "rejected")
    BY <1>1, <2>2
  <2>3. QED
    BY <1>5, <2>1, <2>2 DEF Stored
<1>6. CASE Submit(s)
  <2>1. job[s].pc = "submit" /\ Enter(s, "sending")
    BY <1>6 DEF Submit, Doing
  <2>2. job[s].how = "POST" \/ Filed(job[s].art)
    BY <2>1 DEF Progress
  <2>3. PICK a : a = job[s].art
    OBVIOUS
  <2>4. Filed(a) => Filed(a)'
    BY FiledStable
  <2>5. job'[s].pc = "sending" /\ job'[s].art = a /\ job'[s].how = job[s].how
    BY <1>2, <2>1, <2>3
  <2>6. QED
    BY <2>2, <2>3, <2>4, <2>5 DEF Progress
<1>7. CASE CheckModeration(s)
  <2>1. CASE Finish(s, "rejected")
    BY <1>1, <2>1
  <2>2. CASE Enter(s, AfterValidation(job[s].how))
    <3>1. CASE job[s].how = "POST"
      BY <1>2, <2>2, <3>1 DEF Progress, AfterValidation
    <3>2. CASE job[s].how # "POST"
      BY <1>2, <2>2, <3>2 DEF Progress, AfterValidation
    <3>3. QED
      BY <3>1, <3>2
  <2>3. CASE job' = [job EXCEPT ![s].idx = @ + 1]
    <3>1. job[s].pc = "moderation"
      BY <1>7 DEF CheckModeration, Doing
    <3>2. job[s] \in [pc : {"moderation"}, how : How, art : Articles, idx : Nat]
      BY <1>0, <3>1 DEF Job
    <3>3. job'[s].pc = "moderation"
      BY <1>0, <2>3, <3>2
    <3>4. QED
      BY <3>3, ProgressIdle
  <2>4. QED
    BY <1>7, <2>1, <2>2, <2>3 DEF CheckModeration
<1>8. CASE ListGroups(s)
  <2>1. CASE Finish(s, "rejected")
    BY <1>1, <2>1
  <2>2. CASE ~Finish(s, "rejected")
    <3>1. job'[s].pc = "moderation"
      BY <1>0, <1>8, <2>2 DEF ListGroups
    <3>2. QED
      BY <3>1, ProgressIdle
  <2>3. QED
    BY <2>1, <2>2
<1>9. CASE CheckKey(s) \/ CancelByKey(s) \/ ObeyAdmin(s)
  <2>1. \/ Finish(s, "accepted")
        \/ Enter(s, "cancel") \/ Enter(s, "controlling")
    BY <1>9 DEF CheckKey, CancelByKey, ObeyAdmin
  <2>2. QED
    BY <1>1, <1>2, <2>1, ProgressIdle
<1>10. CASE Sent(s) \/ ControlFails(s) \/ Obeyed(s) \/ Refuse(s)
              \/ StatementFails(s)
  <2>1. \E r : Finish(s, r)
    BY <1>10 DEF Sent, ControlFails, Obeyed, Refuse, StatementFails
  <2>2. QED
    BY <1>1, <2>1
<1>11. ASSUME NEW a, Post(s, a)
       PROVE  Progress(s)'
  <2>1. job'[s].pc = "list_groups"
    BY <1>0, <1>11 DEF Post
  <2>2. QED
    BY <2>1, ProgressIdle
<1>12. CASE IHave(s) \/ TakeThis(s)
  <2>1. PICK verb, i, a : Offer(s, verb, i, a)
    BY <1>12 DEF IHave, TakeThis
  <2>2. CASE UNCHANGED job
    BY <2>1, <2>2, ProgressStable DEF Offer, storeVars
  <2>3. CASE ~UNCHANGED job
    <3>1. job'[s].pc \in {"control", "list_groups"}
      BY <1>0, <2>1, <2>3 DEF Offer
    <3>2. QED
      BY <3>1, ProgressIdle
  <2>4. QED
    BY <2>2, <2>3
<1>13. QED
  BY <1>3, <1>4, <1>5, <1>6, <1>7, <1>8, <1>9, <1>10, <1>11, <1>12
     DEF SessionStep, ClientStep

LEMMA ProgressNext ==
    ASSUME TransfersInv, [FeedNext]_feedVars, NEW s \in Sessions
    PROVE  Progress(s)'
<1>0. /\ FeedTypeInv /\ Progress(s) /\ Remember /\ s \in Actors /\ s \in Tasks
      /\ Sweeper \in Tasks /\ s # Sweeper
  BY StepRemembers, ActorTasks, FeedAssumption DEF TransfersInv, Actors
<1>1. ASSUME NEW t \in Actors,
             \/ t \in Sessions /\ (SessionStep(t) \/ ClientStep(t))
             \/ t \in Workers /\ WorkerStep(t)
             \/ StatementFails(t)
      PROVE  Progress(s)'
  <2>1. CASE t = s
    <3>1. s \notin Workers
      BY FeedAssumption
    <3>2. QED
      BY <1>0, <1>1, <2>1, <3>1, OwnProgress
  <2>2. CASE t # s
    BY <1>0, <1>1, <2>2, HandlerElsewhere, ProgressStable
  <2>3. QED
    BY <2>1, <2>2
<1>2. CASE SweepStep
  <2>1. job' = job
    BY <1>2 DEF SweepStep, StartSweep, SweepGroup, ListArticleIds,
         CheckExpires, DeleteExpired, NextSweepGroup, FinishSweep, StoreStep,
         Frame, SweepFrame
  <2>2. op'[s] = op[s]
    <3>1. CASE storeUnchanged
      BY <3>1 DEF storeUnchanged, storeVars
    <3>2. CASE ~storeUnchanged
      <4>1. \/ Continue(Sweeper) \/ PurgeOrphanMessages(Sweeper)
            \/ \E i : DeleteArticleById(Sweeper, i)
            \/ \E g, b : PurgeGroupBefore(Sweeper, g, b)
        BY <1>2, <3>2 DEF SweepStep, StartSweep, SweepGroup, ListArticleIds,
           CheckExpires, DeleteExpired, NextSweepGroup, FinishSweep, StoreStep
      <4>2. QED
        BY <1>0, <4>1, StoreElsewhere
    <3>3. QED
      BY <3>1, <3>2
  <2>3. QED
    BY <1>0, <2>1, <2>2, ProgressStable
<1>3. ASSUME NEW t \in Tasks, CallFails(t)
      PROVE  Progress(s)'
  <2>1. job' = job /\ DbError(t)
    BY <1>3 DEF CallFails
  <2>2. CASE t # s
    BY <1>0, <2>1, <2>2, StoreElsewhere, ProgressStable
  <2>3. CASE t = s
    <3>1. op'[s].pc = "err"
      BY <1>0, <2>1, <2>3 DEF DbError, Go, Result, FeedTypeInv, StoreTypeInv,
                              StoreTypeOK
    <3>2. QED
      BY <1>0, <2>1, <3>1, FiledStable DEF Progress, StoringPcs
  <2>4. QED
    BY <2>2, <2>3
<1>4. CASE SweepFails
  BY <1>0, <1>4, ProgressStable DEF SweepFails, storeVars
<1>5. CASE Crash
  <2>1. job'[s].pc = "idle"
    BY <1>0, <1>5 DEF Crash, Rest, Actors
  <2>2. QED
    BY <2>1, ProgressIdle
<1>6. CASE Time
  BY <1>0, <1>6, ProgressStable DEF Time, Tick, Frame
<1>7. CASE UNCHANGED feedVars
  BY <1>0, <1>7, ProgressStable DEF feedVars, storeVars
<1>8. QED
  BY <1>1, <1>2, <1>3, <1>4, <1>5, <1>6, <1>7
     DEF FeedNext, FaultStep, Actors

(* What was acknowledged before the step is still filed after it. *)
LEMMA KeptStable ==
    ASSUME Remember, TransfersKept, accepted' = accepted
    PROVE  TransfersKept'
  BY FiledStable DEF TransfersKept, IsControl

LEMMA KeptNext ==
    ASSUME TransfersInv, [FeedNext]_feedVars
    PROVE  TransfersKept'
<1>0. FeedTypeInv /\ TransfersKept /\ Remember /\ ControlJobs
  BY StepRemembers DEF TransfersInv, FeedTypeInv
<1>1. CASE accepted' = accepted
  BY <1>0, <1>1, KeptStable
<1>2. CASE accepted' # accepted
  <2>1. PICK t \in Sessions : /\ Sent(t) \/ CheckKey(t) \/ Obeyed(t)
                              /\ Finish(t, "accepted")
    <3>1. ASSUME NEW t \in Actors, NEW r, Finish(t, r)
          PROVE  t \in Sessions /\ r = "accepted"
      BY <1>2, <3>1 DEF Finish
    <3>2. ASSUME NEW t \in Actors, SessionStep(t) \/ WorkerStep(t)
          PROVE  \E u \in Sessions : /\ Sent(u) \/ CheckKey(u) \/ Obeyed(u)
                                     /\ Finish(u, "accepted")
      <4>1. \/ Sent(t) \/ CheckKey(t) \/ Obeyed(t)
            \/ Finish(t, "rejected") \/ Finish(t, "silent")
        BY <1>2, <3>2 DEF SessionStep, WorkerStep, ListGroups,
           CheckModeration, Store, Stored, Submit, CancelByKey,
           ControlFails, ObeyAdmin, Take, Exists, StoreStep, Frame, StayBusy
      <4>2. Sent(t) \/ CheckKey(t) \/ Obeyed(t)
        BY <3>1, <4>1
      <4>3. \E r : Finish(t, r)
        BY <1>2, <4>2 DEF Sent, CheckKey, Obeyed, StayBusy
      <4>4. QED
        BY <3>1, <4>2, <4>3
    <3>3. ASSUME NEW s \in Sessions, ClientStep(s)
          PROVE  FALSE
      <4>1. Refuse(s)
        BY <1>2, <3>3 DEF ClientStep, Post, IHave, TakeThis, Offer
      <4>2. QED
        BY <3>1, <4>1 DEF Refuse, Actors
    <3>4. CASE SweepStep \/ Time \/ UNCHANGED feedVars
      BY <1>2, <3>4 DEF SweepStep, StartSweep, SweepGroup, ListArticleIds,
         CheckExpires, DeleteExpired, NextSweepGroup, FinishSweep, StoreStep,
         Frame, SweepFrame, Time, feedVars
    <3>5. CASE FaultStep
      BY <1>2, <3>1, <3>5 DEF FaultStep, CallFails, StatementFails,
         SweepFails, Crash, Actors
    <3>6. QED
      BY <3>2, <3>3, <3>4, <3>5 DEF FeedNext, Actors
  <2>2. accepted' = accepted \cup {<<job[t].how, job[t].art>>}
    BY <2>1 DEF Finish
  <2>3. PICK how, a : how = job[t].how /\ a = job[t].art
    OBVIOUS
  <2>4. how \in {"IHAVE", "TAKETHIS"} /\ ~IsControl(a) => Filed(a)'
    <3>1. CASE Sent(t)
      <4>1. job[t].pc = "sending" /\ Progress(t)
        BY <3>1 DEF Sent, Doing, TransfersInv
      <4>2. how = "POST" \/ Filed(a)
        BY <2>3, <4>1 DEF Progress
      <4>3. QED
        BY <1>0, <4>2, FiledStable
    <3>2. CASE CheckKey(t) \/ Obeyed(t)
      <4>1. IsControl(job[t].art)
        BY <1>0, <3>2 DEF CheckKey, Obeyed, Doing, ControlJobs, Actors
      <4>2. QED
        BY <2>3, <4>1
    <3>3. QED
      BY <2>1, <3>1, <3>2
  <2>5. ASSUME NEW x \in accepted', x[1] \in {"IHAVE", "TAKETHIS"},
               ~IsControl(x[2])
        PROVE  Filed(x[2])'
    <3>1. CASE x \in accepted
      <4>1. Filed(x[2])
        BY <1>0, <2>5, <3>1 DEF TransfersKept
      <4>2. QED
        BY <1>0, <4>1, FiledStable
    <3>2. CASE x = <<how, a>>
      <4>1. x[1] = how /\ x[2] = a
        BY <3>2
      <4>2. QED
        BY <2>4, <2>5, <4>1
    <3>3. QED
      BY <2>2, <2>3, <3>1, <3>2
  <2>6. QED
    BY <2>5 DEF TransfersKept, IsControl
<1>3. QED
  BY <1>1, <1>2

(* A transfer acknowledged with 235 or 239 is filed in every newsgroup of  *)
(* the article and stays so until it is deleted there, for any number of   *)
(* concurrent sessions and workers, failing statements and crashes.        *)
THEOREM AcknowledgedTransfersKept == FeedSpec => []TransfersKept
<1>1. FeedInit => TransfersInv
  <2> SUFFICES ASSUME FeedInit PROVE TransfersInv
    OBVIOUS
  <2>1. \A s \in Sessions : Progress(s)
    BY DEF FeedInit, Rest, Progress
  <2>2. QED
    BY <2>1, FeedTypeInit DEF FeedInit, TransfersInv, TransfersKept
<1>2. TransfersInv /\ [FeedNext]_feedVars => TransfersInv'
  <2> SUFFICES ASSUME TransfersInv, [FeedNext]_feedVars
               PROVE  TransfersInv'
    OBVIOUS
  <2>1. FeedTypeInv' /\ TransfersKept'
    BY FeedTypeNext, KeptNext DEF TransfersInv
  <2>2. \A s \in Sessions : Progress(s)'
    BY ProgressNext
  <2>3. QED
    BY <2>1, <2>2 DEF TransfersInv
<1>3. TransfersInv => TransfersKept
  BY DEF TransfersInv
<1>4. QED
  BY <1>1, <1>2, <1>3, PTL DEF FeedSpec

-----------------------------------------------------------------------------
(* The retention sweep.  It deletes by Message-ID what it decided from an  *)
(* earlier read.  The article it read had expired then, and the clock goes *)
(* forward; a row that goes has a message, and when this is not the        *)
(* article of the decision, it has replaced it.                            *)

SweepDecides ==
    /\ sweep.pc # "sleep" => sweep.now <= clock
    /\ sweep.pc = "delete" =>
          Expires[sweep.art] # Never /\ Expires[sweep.art] <= sweep.now

SweepInv == FeedTypeInv /\ RowsHaveMessages /\ SweepDecides

LEMMA ClockForward ==
    ASSUME FeedTypeInv, [FeedNext]_feedVars
    PROVE  clock \in Nat /\ clock' \in Nat /\ clock <= clock'
<1>1. clock \in Nat
  BY DEF FeedTypeInv, StoreTypeInv, StoreTypeOK
<1>2. [StoreNext]_storeVars
  BY StepUsesStore
<1>3. ASSUME NEW t \in Tasks, Call(t) \/ Continue(t) \/ DbError(t)
      PROVE  clock' = clock
  BY <1>3, OpKeepsClock DEF Call, DbError, StoreArticle, DeleteArticleById,
       RemoveGroup, DeleteGroupRows, RemoveGroupsByPattern, PurgeGroupBefore,
       PurgeOrphanMessages, AddGroup, SetGroupModerated,
       AddGroupWithDescription
<1>4. clock' = clock \/ clock' = clock + 1
  BY <1>2, <1>3 DEF StoreNext, Restart, Tick, storeVars
<1>5. QED
  BY <1>1, <1>4

(* The steps that move the sweep. *)
LEMMA SweepMoves ==
    ASSUME [FeedNext]_feedVars, sweep' # sweep
    PROVE  \/ StartSweep \/ SweepGroup \/ ListArticleIds \/ CheckExpires
           \/ DeleteExpired \/ NextSweepGroup \/ FinishSweep
           \/ SweepFails \/ Crash
<1>1. ASSUME NEW t \in Actors, SessionStep(t) \/ WorkerStep(t)
      PROVE  FALSE
  BY <1>1 DEF SessionStep, WorkerStep, ListGroups, CheckModeration, Store,
         Stored, Submit, Sent, CheckKey, CancelByKey, ControlFails,
         ObeyAdmin, Obeyed, Take, Exists, StoreStep, Frame
<1>2. ASSUME NEW s \in Sessions, ClientStep(s)
      PROVE  FALSE
  BY <1>2 DEF ClientStep, Post, IHave, TakeThis, Offer, Refuse
<1>3. ASSUME Time \/ UNCHANGED feedVars \/ StoreStep(Sweeper)
      PROVE  FALSE
  BY <1>3 DEF Time, Frame, feedVars, StoreStep
<1>4. ASSUME \/ \E t \in Tasks : CallFails(t)
             \/ \E t \in Actors : StatementFails(t)
      PROVE  FALSE
  BY <1>4 DEF CallFails, StatementFails
<1>5. QED
  BY <1>1, <1>2, <1>3, <1>4 DEF FeedNext, FaultStep, SweepStep, Actors

LEMMA DecidesNext ==
    ASSUME SweepInv, [FeedNext]_feedVars
    PROVE  SweepDecides'
<1>0. /\ clock \in Nat /\ clock' \in Nat /\ clock <= clock'
      /\ sweep \in Sweep /\ SweepDecides
  BY ClockForward DEF SweepInv, FeedTypeInv, FeedTypeOK
<1>1. sweep.pc # "sleep" => sweep.now \in Nat /\ sweep.now <= clock'
  BY <1>0, SweepShape DEF SweepDecides
<1>2. CASE sweep' = sweep
  BY <1>0, <1>1, <1>2 DEF SweepDecides
<1>3. CASE StartSweep
  BY <1>0, <1>3 DEF StartSweep, SweepDecides
<1>4. CASE SweepGroup \/ ListArticleIds \/ DeleteExpired \/ NextSweepGroup
  BY <1>1, <1>4 DEF SweepGroup, ListArticleIds, DeleteExpired,
                    NextSweepGroup, SweepDecides
<1>5. CASE FinishSweep \/ Crash
  BY <1>5 DEF FinishSweep, Crash, SweepDecides
<1>6. CASE SweepFails
  <2>1. CASE sweep' \in [pc : {"sleep"}]
    BY <2>1 DEF SweepDecides
  <2>2. CASE sweep.pc = "expire" /\ \E i \in sweep.ids :
                sweep' = [sweep EXCEPT !.ids = @ \ {i}]
    <3>1. sweep'.pc = "expire" /\ sweep'.now = sweep.now
      BY <1>0, <2>2 DEF Sweep
    <3>2. QED
      BY <1>1, <2>2, <3>1 DEF SweepDecides
  <2>3. CASE /\ sweep.pc # "sleep"
             /\ sweep'.pc \in {"groups", "ids", "expire"}
             /\ sweep'.now = sweep.now
    BY <1>1, <2>3 DEF SweepDecides
  <2>4. QED
    BY <1>6, <2>1, <2>2, <2>3 DEF SweepFails
<1>7. CASE CheckExpires
  <2>1. PICK i \in sweep.ids :
          \/ /\ Expired(i, sweep.now)
             /\ sweep' = [pc |-> "delete", now |-> sweep.now, id |-> i,
                          todo |-> sweep.todo,
                          ids |-> [sweep EXCEPT !.ids = @ \ {i}].ids,
                          art |-> messages[i]]
          \/ sweep' = [sweep EXCEPT !.ids = @ \ {i}]
    BY <1>7 DEF CheckExpires
  <2>2. sweep.pc = "expire" /\ i \in Ids
    BY <1>0, <1>7, <2>1, SweepShape DEF CheckExpires
  <2>3. CASE sweep' = [sweep EXCEPT !.ids = @ \ {i}]
    <3>1. sweep'.pc = "expire" /\ sweep'.now = sweep.now
      BY <1>0, <2>2, <2>3 DEF Sweep
    <3>2. QED
      BY <1>1, <2>2, <3>1 DEF SweepDecides
  <2>4. CASE /\ Expired(i, sweep.now)
             /\ sweep'.pc = "delete" /\ sweep'.art = messages[i]
             /\ sweep'.now = sweep.now
    BY <1>1, <2>2, <2>4 DEF SweepDecides, Expired
  <2>5. QED
    BY <2>1, <2>3, <2>4
<1>8. QED
  BY <1>2, <1>3, <1>4, <1>5, <1>6, <1>7, SweepMoves

(* The rows that a step of the sweep deletes. *)
LEMMA SweepDeletes ==
    ASSUME SweepInv, [FeedNext]_feedVars, sweep' # sweep,
           NEW r \in groupArticles \ groupArticles'
    PROVE  \/ Retention[r.group] > 0 /\ r.at + Retention[r.group] < clock
           \/ Expired(r.id, clock)
           \/ Replaced(r.id)
<1>0. /\ clock \in Nat /\ sweep \in Sweep /\ SweepDecides
      /\ r \in Row /\ r.at \in Nat /\ r.id \in Ids
  BY DEF SweepInv, FeedTypeInv, FeedTypeOK, StoreTypeInv, StoreTypeOK, Row
<1>1. CASE SweepGroup
  <2>1. PICK g \in sweep.todo :
            /\ Retention[g] > 0
            /\ PurgeGroupBefore(Sweeper, g, Cutoff(g))
    BY <1>1 DEF SweepGroup, storeUnchanged, storeVars
  <2>2. r.group = g /\ r.at < Cutoff(g)
    BY <2>1 DEF PurgeGroupBefore
  <2>3. sweep.now \in Nat /\ g \in Groups /\ sweep.now <= clock
    BY <1>0, <1>1, SweepShape DEF SweepGroup, SweepDecides
  <2>4. Retention[g] \in Nat
    BY <2>3, FeedAssumption
  <2>5. QED
    BY <1>0, <2>1, <2>2, <2>3, <2>4 DEF Cutoff
<1>2. CASE DeleteExpired
  <2>1. r.id = sweep.id
    BY <1>2 DEF DeleteExpired, DeleteArticleById
  <2>2. /\ sweep.now <= clock /\ sweep.now \in Nat /\ sweep.art \in Articles
        /\ Expires[sweep.art] # Never /\ Expires[sweep.art] <= sweep.now
        /\ sweep.pc = "delete"
    BY <1>0, <1>2, SweepShape DEF DeleteExpired, SweepDecides
  <2>3. messages[r.id] # NoArticle
    BY DEF SweepInv, RowsHaveMessages
  <2>4. Expires[sweep.art] \in Nat
    BY <2>2, FeedAssumption
  <2>5. CASE messages[r.id] = sweep.art
    BY <1>0, <2>2, <2>3, <2>4, <2>5 DEF Expired
  <2>6. CASE messages[r.id] # sweep.art
    BY <2>1, <2>2, <2>3, <2>6 DEF Replaced
  <2>7. QED
    BY <2>5, <2>6
<1>3. CASE StartSweep \/ ListArticleIds \/ CheckExpires \/ NextSweepGroup
             \/ SweepFails
  BY <1>3 DEF StartSweep, ListArticleIds, CheckExpires, NextSweepGroup,
              SweepFails, storeUnchanged, storeVars
<1>4. CASE FinishSweep \/ Crash
  BY <1>4 DEF FinishSweep, PurgeOrphanMessages, Crash, Restart
<1>5. QED
  BY <1>1, <1>2, <1>3, <1>4, SweepMoves

(* The sweep deletes nothing that is still current, whatever the other     *)
(* tasks store, cancel or repost between its reads and its deletions, but  *)
(* for an article that has replaced, under its Message-ID, the expired one *)
(* the sweep read.  Nothing is assumed about how Message-IDs are used.     *)
THEOREM SweepIsSafe == FeedSpec => SweepSparesCurrent
<1>1. FeedInit => SweepInv
  <2> SUFFICES ASSUME FeedInit
               PROVE  SweepInv
    OBVIOUS
  <2>1. SweepDecides /\ RowsHaveMessages
    BY DEF FeedInit, StoreInit, SweepDecides, RowsHaveMessages
  <2>2. QED
    BY <2>1, FeedTypeInit DEF SweepInv
<1>2. SweepInv /\ [FeedNext]_feedVars => SweepInv'
  <2> SUFFICES ASSUME SweepInv, [FeedNext]_feedVars
               PROVE  SweepInv'
    OBVIOUS
  <2>1. [StoreNext]_storeVars
    BY StepUsesStore DEF SweepInv
  <2>2. RowsHaveMessages'
    BY <2>1, RowsNext DEF SweepInv, FeedTypeInv, StoreTypeInv
  <2>3. QED
    BY <2>2, FeedTypeNext, DecidesNext DEF SweepInv
<1> DEFINE Spared == sweep' # sweep =>
             \A r \in groupArticles \ groupArticles' :
                 \/ Retention[r.group] > 0 /\ r.at + Retention[r.group] < clock
                 \/ Expired(r.id, clock)
                 \/ Replaced(r.id)
<1>3. SweepInv /\ [FeedNext]_feedVars => [Spared]_feedVars
  BY SweepDeletes
<1>4. QED
  BY <1>1, <1>2, <1>3, PTL DEF FeedSpec, SweepSparesCurrent
=============================================================================
