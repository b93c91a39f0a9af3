--------------------------- MODULE PeerSyncProofs ---------------------------
(***************************************************************************)
(* Proofs about PeerSync: which articles a peer can miss, and what a       *)
(* reload leaves behind.                                                   *)
(***************************************************************************)
EXTENDS PeerSync, TLAPS

\* What a sync of the present job has dealt with, by how far it has come.
Covers(x, r) ==
    /\ x.pc # "idle"
    /\ x.job = jobs[x.job.peer]
    /\ Owed(x.job.peer, r)
    => \/ Done(x.job.peer, r)
       \/ x.pc = "start" /\ (x.since = 0 \/ r.at > x.since)
       \/ /\ x.pc = "sync"
          /\ \/ r \in x.ids
             \/ r.group \in x.todo /\ (x.since = 0 \/ r.at > x.since)
RunsCover == \A k \in Runs : \A r \in rows : Covers(run[k], r)

\* A peer without a job: nobody offers it anything, but its last_sync may be set.
NoJobExcused ==
    \A p \in Peers : \A r \in rows :
        jobs[p] = NoJob /\ Since(p) # 0 /\ r.at <= Since(p)
            => <<p, r>> \in excused

\* A row without its group, which no sync lists.
NamelessExcused ==
    \A r \in rows : r.group \notin groups => \A p \in Peers : <<p, r>> \in excused

\* The jobs made so far, and the ones a reload is still to make, differ.
Known(j) == j \in scheduled \/ (\E k \in Runs : run[k].pc # "idle" /\ run[k].job = j)
JobsDistinct ==
    /\ \A p \in Peers : jobs[p] # NoJob => jobs[p].peer = p /\ jobs[p].gen <= Gen
    /\ \A j \in Job : Known(j) =>
          /\ j.gen <= Gen
          /\ reload.pc \in {"reload", "list", "insert", "delete"} => j.gen < Gen
          /\ reload.pc = "jobs" /\ j.peer \in reload.todo => j.gen < Gen

\* How far sync_config and update_tasks have come.
ReloadShape ==
    LET names == Names(reload.cfg)
        todo  == reload.todo
    IN  /\ reload.pc = "insert" =>
              /\ TablePeers = (reload.existing \cup names) \ todo
              /\ todo \subseteq names \ reload.existing
        /\ reload.pc = "delete" =>
              TablePeers = names \cup todo /\ todo \cap names = {}
        /\ reload.pc \in {"jobs", "obsolete"} => TablePeers = names
        /\ reload.pc = "jobs" =>
              /\ todo \subseteq names
              /\ reload.clean => \A p \in names \ todo : jobs[p] # NoJob
        /\ reload.pc = "obsolete" =>
              /\ todo \cap names = {} /\ JobPeers \subseteq names \cup todo
              /\ reload.clean => names \subseteq JobPeers

PeerInv ==
    /\ PeerTypeOK /\ LossesExplained /\ RunsCover /\ NoJobExcused
    /\ NamelessExcused /\ JobsDistinct /\ ReloadShape

-----------------------------------------------------------------------------
(* Types *)

\* What the type of a sync under way gives.
LEMMA RunFacts ==
    ASSUME PeerTypeOK, NEW k \in Runs
    PROVE  /\ run[k].pc \in {"idle", "start", "sync", "update"}
           /\ run[k].pc # "idle" => /\ run[k].job \in Job
                                    /\ run[k].job.peer \in Peers
                                    /\ run[k].job.rule \subseteq Groups
           /\ run[k].pc = "start" => run[k].since \in Nat
           /\ run[k].pc = "sync" => /\ run[k].since \in Nat
                                    /\ run[k].todo \subseteq Groups
                                    /\ run[k].ids \subseteq Row
           /\ run[k].pc = "update" => run[k].when \in Nat
<1>1. run[k] \in Run
    BY DEF PeerTypeOK
<1> QED
    BY <1>1 DEF Run, Job, Rule

\* What the type of a reload under way gives.
LEMMA ReloadFacts ==
    ASSUME PeerTypeOK
    PROVE  /\ reload.pc \in {"idle", "reload", "list", "insert", "delete",
                             "jobs", "obsolete"}
           /\ reload.pc # "idle" => /\ reload.cfg \in Config
                                    /\ reload.clean \in BOOLEAN
                                    /\ reload.existing \subseteq Peers
                                    /\ reload.todo \subseteq Peers
<1>1. reload \in Reload
    BY DEF PeerTypeOK
<1> QED
    BY <1>1 DEF Reload

LEMMA SpendType ==
    ASSUME PeerTypeOK, NEW b \in Bounded, NEW n, Spend(b, n)
    PROVE  spent' \in [Bounded -> Nat]
    BY DEF PeerTypeOK, Spend, Bounded

LEMMA GenType ==
    ASSUME PeerTypeOK
    PROVE  Gen \in Nat
<1>1. spent["reloads"] \in Nat /\ spent["restarts"] \in Nat
    BY DEF PeerTypeOK, Bounded
<1> QED
    BY <1>1 DEF Gen

\* The jobs made at start-up.
LEMMA NewJobsType ==
    ASSUME NEW c \in Config, NEW n \in Nat, NEW lost
    PROVE  /\ NewJobs(c, n, lost) \in [Peers -> Job \cup {NoJob}]
           /\ Scheduling(NewJobs(c, n, lost)) \subseteq Job
           /\ \A p \in Names(c) \ lost :
                 NewJobs(c, n, lost)[p] = [peer |-> p, rule |-> c.peers[p], gen |-> n]
           /\ \A p \in Peers \ (Names(c) \ lost) : NewJobs(c, n, lost)[p] = NoJob
<1>1. \A p \in Names(c) : c.peers[p] \in Rule /\ p \in Peers
    BY DEF Config, Names
<1>2. \A p \in Names(c) : [peer |-> p, rule |-> c.peers[p], gen |-> n] \in Job
    BY <1>1 DEF Job
<1>3. NewJobs(c, n, lost) \in [Peers -> Job \cup {NoJob}]
    BY <1>2 DEF NewJobs
<1>4. Scheduling(NewJobs(c, n, lost)) \subseteq Job
    BY <1>3 DEF Scheduling
<1> QED
    BY <1>3, <1>4 DEF NewJobs, Names

LEMMA InitType == PeerInit => PeerTypeOK
<1> SUFFICES ASSUME PeerInit PROVE PeerTypeOK
    OBVIOUS
<1>1. InitialConfig \in Config /\ InitialConfig \in Configs /\ InitialConfig.cert \in Certs
    BY PeerAssumption DEF Config
<1>2. /\ jobs \in [Peers -> Job \cup {NoJob}]
      /\ scheduled \subseteq Job
    BY <1>1, NewJobsType DEF PeerInit
<1>3. run \in [Runs -> Run] /\ reload \in Reload
    BY DEF PeerInit, Run, Reload
<1>4. spent \in [Bounded -> Nat]
    BY DEF PeerInit
<1>5. lastSync \in [Peers -> Nat \cup {NoRow}] /\ groups \subseteq Groups
    BY PeerAssumption DEF PeerInit
<1> QED
    BY <1>1, <1>2, <1>3, <1>4, <1>5 DEF PeerInit, PeerTypeOK

\* A sync under way keeps its type.
LEMMA SyncAtType ==
    ASSUME PeerTypeOK, NEW k \in Runs, NEW j \in Job, NEW n \in Nat,
           NEW todo \in SUBSET Groups, NEW ids \in SUBSET Row,
           SyncAt(k, j, n, todo, ids)
    PROVE  run' \in [Runs -> Run]
<1>1. [pc |-> "sync", job |-> j, since |-> n, todo |-> todo, ids |-> ids] \in Run
    BY DEF Run
<1> QED
    BY <1>1 DEF PeerTypeOK, SyncAt

\* So does a reload under way.
LEMMA StageType ==
    ASSUME PeerTypeOK, reload.pc # "idle",
           NEW pc \in {"reload", "list", "insert", "delete", "jobs", "obsolete"},
           NEW clean \in BOOLEAN, NEW existing \in SUBSET Peers,
           NEW todo \in SUBSET Peers, Stage(pc, clean, existing, todo)
    PROVE  reload' \in Reload
<1>1. reload.cfg \in Config
    BY ReloadFacts
<1>2. [pc |-> pc, cfg |-> reload.cfg, clean |-> clean,
       existing |-> existing, todo |-> todo] \in Reload
    BY <1>1 DEF Reload
<1> QED
    BY <1>2 DEF Stage

LEMMA SyncTypeStep ==
    ASSUME PeerTypeOK, NEW k \in Runs,
           \/ SyncStep(k) \/ TransferFails(k) \/ SyncFails(k) \/ UpdateFails(k)
    PROVE  PeerTypeOK'
<1> USE RunFacts DEF SyncFrame, fileVars, jobVars, history, Bounded
<1>0. [pc |-> "idle"] \in Run
    BY DEF Run
<1>1. ASSUME NEW j \in scheduled, StartSync(k, j) PROVE PeerTypeOK'
  <2>1. j \in Job /\ j.peer \in Peers /\ j.rule \in SUBSET Groups
      BY DEF PeerTypeOK, Job, Rule
  <2>2. Since(j.peer) \in Nat
      BY <2>1 DEF Since, PeerTypeOK
  <2>3. [pc |-> "start", job |-> j, since |-> Since(j.peer)] \in Run
      BY <2>1, <2>2 DEF Run
  <2>4. run' \in [Runs -> Run]
      BY <1>1, <2>3 DEF StartSync, PeerTypeOK
  <2> QED
      BY <1>1, <2>4 DEF StartSync, PeerTypeOK
<1>b. CASE ListGroups(k)
  <2>1. /\ run[k].job.rule \cap groups \in SUBSET Groups /\ run[k].since \in Nat
        /\ run[k].job \in Job
      BY <1>b DEF ListGroups
  <2>2. run' \in [Runs -> Run]
      BY <1>b, <2>1, SyncAtType DEF ListGroups, KeepOn
  <2> QED
      BY <1>b, <2>2 DEF ListGroups, PeerTypeOK
<1>2. CASE ListIds(k)
  <2>1. PICK g \in run[k].todo :
           KeepOn(k, run[k].todo \ {g}, ArticleIds(g, run[k].since))
      BY <1>2 DEF ListIds
  <2>2. ArticleIds(g, run[k].since) \in SUBSET Row
      BY DEF ArticleIds, PeerTypeOK
  <2>3. run[k].todo \ {g} \in SUBSET Groups /\ run[k].since \in Nat /\ run[k].job \in Job
      BY <1>2 DEF ListIds
  <2>4. run' \in [Runs -> Run]
      BY <2>1, <2>2, <2>3, SyncAtType DEF KeepOn
  <2> QED
      BY <1>2, <2>4 DEF ListIds, PeerTypeOK
<1>3. ASSUME NEW gone, run[k].pc = "sync",
             KeepOn(k, run[k].todo, run[k].ids \ gone)
      PROVE  run' \in [Runs -> Run]
  <2>1. /\ run[k].ids \ gone \in SUBSET Row /\ run[k].todo \in SUBSET Groups
        /\ run[k].since \in Nat /\ run[k].job \in Job
      BY <1>3
  <2> QED
      BY <1>3, <2>1, SyncAtType DEF KeepOn
<1>4. CASE SkipArticle(k)
    BY <1>3, <1>4 DEF SkipArticle, PeerTypeOK
<1>5. CASE SendArticle(k)
  <2>1. PICK r \in run[k].ids : /\ KeepOn(k, run[k].todo, run[k].ids \ {r})
                                /\ settled' = settled \cup {<<run[k].job.peer, r.art>>}
      BY <1>5 DEF SendArticle
  <2>2. r.art \in Articles /\ run[k].job.peer \in Peers
      BY <1>5 DEF SendArticle, Row
  <2>3. run' \in [Runs -> Run]
      BY <1>3, <1>5, <2>1 DEF SendArticle
  <2>4. settled' \subseteq Peers \X Articles
      BY <2>1, <2>2 DEF PeerTypeOK
  <2> QED
      BY <1>5, <2>3, <2>4 DEF SendArticle, PeerTypeOK
<1>6. CASE TransferFails(k)
  <2>1. PICK lost \in SUBSET run[k].ids :
           /\ KeepOn(k, run[k].todo, run[k].ids \ lost)
           /\ excused' = excused \cup {<<run[k].job.peer, r>> : r \in lost \cap rows}
      BY <1>6 DEF TransferFails
  <2>2. lost \cap rows \subseteq Row /\ run[k].job.peer \in Peers
      BY <1>6 DEF TransferFails
  <2>3. run' \in [Runs -> Run]
      BY <1>3, <1>6, <2>1 DEF TransferFails
  <2>4. excused' \subseteq Peers \X Row
      BY <2>1, <2>2 DEF PeerTypeOK
  <2> QED
      BY <1>6, <2>3, <2>4, SpendType DEF TransferFails, PeerTypeOK
<1>7. ASSUME run[k].pc \in {"start", "sync"} PROVE Ended(k) \in Run
    BY <1>7 DEF Ended, Run, PeerTypeOK
<1>8. CASE EndSync(k)
    BY <1>7, <1>8 DEF EndSync, PeerTypeOK
<1>9. CASE SyncFails(k)
  <2>1. excused' \subseteq Peers \X Row
      BY <1>9 DEF SyncFails, PeerTypeOK
  <2>2. run' \in [Runs -> Run]
      BY <1>7, <1>9 DEF SyncFails, PeerTypeOK
  <2> QED
      BY <1>9, <2>1, <2>2, SpendType DEF SyncFails, PeerTypeOK
<1>10. CASE UpdateLastSync(k)
  <2>1. excused' \subseteq Peers \X Row
      BY <1>10 DEF UpdateLastSync, PeerTypeOK
  <2>2. lastSync' \in [Peers -> Nat \cup {NoRow}]
      BY <1>10 DEF UpdateLastSync, PeerTypeOK
  <2>3. run' \in [Runs -> Run]
      BY <1>0, <1>10 DEF UpdateLastSync, PeerTypeOK
  <2> QED
      BY <1>10, <2>1, <2>2, <2>3 DEF UpdateLastSync, PeerTypeOK
<1>11. CASE UpdateFails(k)
    BY <1>0, <1>11, SpendType DEF UpdateFails, PeerTypeOK
<1> QED
    BY <1>1, <1>b, <1>2, <1>4, <1>5, <1>6, <1>8, <1>9, <1>10, <1>11 DEF SyncStep

LEMMA ReloadTypeStep ==
    ASSUME PeerTypeOK, ReloadShape,
           ReloadStep \/ Hangup \/ ReloadFails \/ CertFails \/ AddJobFails
             \/ RemoveJobFails
    PROVE  PeerTypeOK'
<1> USE ReloadFacts DEF ReloadFrame, At, Loop, NextPeer, fileVars, jobVars, history,
                        Bounded
<1>0. [pc |-> "idle"] \in Reload
    BY DEF Reload
<1>a. file \in Configs /\ file \in Config /\ file.cert \in Certs
    BY PeerAssumption DEF PeerTypeOK, Config
<1>b. \A c : Names(c) \subseteq Peers
    BY DEF Names
<1>c. TablePeers \subseteq Peers /\ JobPeers \subseteq Peers
    BY DEF TablePeers, JobPeers
<1>1. CASE Hangup
  <2>1. reload' \in Reload
      BY <1>1, <1>a DEF Hangup, Reload
  <2> QED
      BY <1>1, <2>1, SpendType DEF Hangup, PeerTypeOK
<1>2. CASE UpdateRuntime
  <2>1. reload' \in Reload
      BY <1>2, StageType DEF UpdateRuntime
  <2> QED
      BY <1>2, <1>a, <2>1 DEF UpdateRuntime, PeerTypeOK
<1>3. CASE ListPeers
  <2>1. reload' \in Reload
      BY <1>3, <1>b, <1>c, StageType DEF ListPeers
  <2> QED
      BY <1>3, <2>1 DEF ListPeers, PeerTypeOK
<1>4. ASSUME NEW p \in Peers, NEW ok \in BOOLEAN, NextPeer(p, ok), ~At("idle"),
             ~At("reload"), ~At("list")
      PROVE  reload' \in Reload
    BY <1>4, StageType
<1>5. CASE InsertPeer
  <2>1. PICK p \in reload.todo : NextPeer(p, TRUE) /\ lastSync' = [lastSync EXCEPT ![p] = 0]
      BY <1>5 DEF InsertPeer
  <2>2. reload' \in Reload
      BY <1>4, <1>5, <2>1 DEF InsertPeer
  <2>3. lastSync' \in [Peers -> Nat \cup {NoRow}]
      BY <2>1 DEF PeerTypeOK
  <2> QED
      BY <1>5, <2>2, <2>3 DEF InsertPeer, PeerTypeOK
<1>6. CASE DeletePeer
    BY <1>4, <1>6 DEF DeletePeer, PeerTypeOK
<1>7. CASE AddJob
  <2>1. PICK p \in reload.todo :
           LET j == [peer |-> p, rule |-> reload.cfg.peers[p], gen |-> Gen]
           IN  /\ \/ jobs[p] # NoJob /\ UNCHANGED jobVars
                  \/ /\ jobs[p] = NoJob
                     /\ jobs' = [jobs EXCEPT ![p] = j]
                     /\ scheduled' = scheduled \cup {j}
               /\ NextPeer(p, TRUE)
      BY <1>7 DEF AddJob
  <2> DEFINE j == [peer |-> p, rule |-> reload.cfg.peers[p], gen |-> Gen]
  <2>2. p \in Peers /\ reload.cfg.peers[p] \in Rule
      BY <1>7 DEF AddJob, ReloadShape, Names, Config
  <2>3. j \in Job
      BY <2>2, GenType DEF Job
  <2>4. reload' \in Reload
      BY <1>4, <1>7, <2>1, <2>2 DEF AddJob
  <2>5. jobs' \in [Peers -> Job \cup {NoJob}] /\ scheduled' \subseteq Job
      BY <2>1, <2>2, <2>3 DEF PeerTypeOK
  <2> QED
      BY <1>7, <2>4, <2>5 DEF AddJob, PeerTypeOK
<1>8. CASE RemoveJob
  <2>1. reload' \in Reload /\ jobs' \in [Peers -> Job \cup {NoJob}] /\ scheduled' \subseteq Job
      BY <1>4, <1>8 DEF RemoveJob, PeerTypeOK
  <2> QED
      BY <1>8, <2>1 DEF RemoveJob, PeerTypeOK
<1>9. CASE NextLoop
  <2>1. reload' \in Reload
      BY <1>9, <1>b, <1>c, StageType DEF NextLoop
  <2> QED
      BY <1>9, <2>1 DEF NextLoop, PeerTypeOK
<1>10. CASE EndReload
    BY <1>0, <1>10 DEF EndReload, PeerTypeOK
<1>11. CASE ReloadFails
    BY <1>0, <1>11, SpendType DEF ReloadFails, PeerTypeOK
<1>12. CASE CertFails
  <2>1. reload' \in Reload
      BY <1>12 DEF CertFails, Stage, Reload
  <2> QED
      BY <1>12, <1>a, <2>1, SpendType DEF CertFails, PeerTypeOK
<1>13. CASE AddJobFails
  <2>1. reload' \in Reload
      BY <1>4, <1>13 DEF AddJobFails
  <2> QED
      BY <1>13, <2>1, SpendType DEF AddJobFails, PeerTypeOK
<1>14. CASE RemoveJobFails
  <2>1. reload' \in Reload /\ jobs' \in [Peers -> Job \cup {NoJob}]
      BY <1>4, <1>14 DEF RemoveJobFails, PeerTypeOK
  <2> QED
      BY <1>14, <2>1, SpendType DEF RemoveJobFails, PeerTypeOK
<1> QED
    BY <1>1, <1>2, <1>3, <1>5, <1>6, <1>7, <1>8, <1>9, <1>10, <1>11, <1>12,
       <1>13, <1>14 DEF ReloadStep

LEMMA WorldTypeStep ==
    ASSUME PeerTypeOK,
           \/ Tick \/ EditFile \/ Restart
           \/ \E a \in Articles, g \in Groups, at \in 1 .. clock : Arrive(a, g, at)
           \/ \E a \in Articles : Delete(a)
           \/ \E g \in Groups : AddGroup(g) \/ RemoveGroup(g)
    PROVE  PeerTypeOK'
<1> USE DEF fileVars, jobVars, history, tableVars, Bounded
<1>1. CASE Tick
    BY <1>1 DEF Tick, PeerTypeOK
<1>2. CASE EditFile
    BY <1>2, SpendType DEF EditFile, PeerTypeOK
<1>3. CASE Restart
  <2>1. file \in Configs /\ file \in Config /\ file.cert \in Certs
      BY PeerAssumption DEF PeerTypeOK, Config
  <2>2. jobs' \in [Peers -> Job \cup {NoJob}] /\ scheduled' \subseteq Job
      BY <1>3, <2>1, GenType, NewJobsType DEF Restart
  <2>3. lastSync' \in [Peers -> Nat \cup {NoRow}]
      BY <1>3 DEF Restart, Since, PeerTypeOK
  <2>4. run' \in [Runs -> Run] /\ reload' \in Reload
      BY <1>3 DEF Restart, Run, Reload
  <2>5. \A lost : \A p \in Names(file) : Backlog(p, lost) \subseteq Peers \X Row
      BY DEF Names, Backlog, PeerTypeOK
  <2>6. excused' \subseteq Peers \X Row
      BY <1>3, <2>5 DEF Restart, PeerTypeOK
  <2> QED
      BY <1>3, <2>1, <2>2, <2>3, <2>4, <2>6, SpendType DEF Restart, PeerTypeOK
<1>4. ASSUME NEW a \in Articles, NEW g \in Groups, NEW at \in 1 .. clock,
             Arrive(a, g, at)
      PROVE  PeerTypeOK'
  <2> DEFINE new == [art |-> a, group |-> g, at |-> at]
  <2>1. new \in Row
      BY DEF Row, PeerTypeOK
  <2>2. excused' \subseteq Peers \X Row /\ rows' \subseteq Row
      BY <1>4, <2>1 DEF Arrive, PeerTypeOK
  <2> QED
      BY <1>4, <2>2 DEF Arrive, PeerTypeOK
<1>5. ASSUME NEW a \in Articles, Delete(a) PROVE PeerTypeOK'
    BY <1>5 DEF Delete, PeerTypeOK
<1>6. ASSUME NEW g \in Groups, AddGroup(g) PROVE PeerTypeOK'
    BY <1>6, SpendType DEF AddGroup, PeerTypeOK
<1>7. ASSUME NEW g \in Groups, RemoveGroup(g) PROVE PeerTypeOK'
    BY <1>7, SpendType DEF RemoveGroup, PeerTypeOK
<1> QED
    BY <1>1, <1>2, <1>3, <1>4, <1>5, <1>6, <1>7


-----------------------------------------------------------------------------
(* The reload *)

LEMMA ShapeKept ==
    ASSUME ReloadShape, UNCHANGED <<reload, jobs>>, TablePeers' = TablePeers
    PROVE  ReloadShape'
    BY DEF ReloadShape, JobPeers

\* Every way a step of the reload goes on.
LEMMA StageFields ==
    ASSUME NEW pc, NEW clean, NEW existing, NEW todo, Stage(pc, clean, existing, todo)
    PROVE  /\ reload'.pc = pc /\ reload'.cfg = reload.cfg /\ reload'.clean = clean
           /\ reload'.existing = existing /\ reload'.todo = todo
    BY DEF Stage

\* A call that failed stays on record to the end of the reload.
LEMMA CleanFalls ==
    ASSUME NEW p, NEW ok \in BOOLEAN, NextPeer(p, ok)
    PROVE  reload'.clean => reload.clean /\ ok
<1>1. reload'.clean = (reload.clean /\ ok)
    BY Zenon DEF NextPeer, Stage
<1> QED
    BY <1>1, Zenon

\* The steps of a sync leave the reload, the jobs and the rows of the table.
LEMMA SyncSparesReload ==
    ASSUME PeerTypeOK, NEW k \in Runs,
           \/ SyncStep(k) \/ TransferFails(k) \/ SyncFails(k) \/ UpdateFails(k)
    PROVE  /\ UNCHANGED <<reload, jobs, scheduled, groups, rows, clock>>
           /\ TablePeers' = TablePeers
<1> USE DEF SyncFrame, jobVars
<1>1. CASE UpdateLastSync(k)
  <2>1. run[k].when \in Nat /\ run[k].when # NoRow /\ run[k].job.peer \in Peers
      BY <1>1, RunFacts, PeerAssumption DEF UpdateLastSync
  <2>2. \A p \in Peers : lastSync'[p] = NoRow <=> lastSync[p] = NoRow
      BY <1>1, <2>1 DEF UpdateLastSync, PeerTypeOK
  <2> QED
      BY <1>1, <2>2 DEF UpdateLastSync, TablePeers
<1>2. CASE ~UpdateLastSync(k)
  <2>1. UNCHANGED <<reload, jobs, scheduled, groups, rows, clock, lastSync>>
      BY <1>2 DEF SyncStep, StartSync, ListGroups, ListIds, SkipArticle, SendArticle, EndSync,
                  TransferFails, SyncFails, UpdateFails
  <2> QED
      BY <2>1 DEF TablePeers
<1> QED
    BY <1>1, <1>2

LEMMA ShapeStep ==
    ASSUME PeerTypeOK, ReloadShape, PeerNext
    PROVE  ReloadShape'
<1> USE DEF ReloadFrame, At, Loop, fileVars, jobVars, tableVars, history
<1>a. \A c : Names(c) \subseteq Peers
    BY DEF Names
<1>1. ASSUME NEW k \in Runs,
             SyncStep(k) \/ TransferFails(k) \/ SyncFails(k) \/ UpdateFails(k)
      PROVE  ReloadShape'
    BY <1>1, SyncSparesReload, ShapeKept
<1>2. CASE \/ Tick \/ EditFile \/ (\E a \in Articles : Delete(a))
           \/ \E g \in Groups : AddGroup(g) \/ RemoveGroup(g)
           \/ \E a \in Articles, g \in Groups, at \in 1 .. clock : Arrive(a, g, at)
  <2>1. UNCHANGED <<reload, jobs, lastSync>>
      BY <1>2 DEF Tick, EditFile, Delete, AddGroup, RemoveGroup, Arrive
  <2> QED
      BY <2>1, ShapeKept DEF TablePeers
<1>3. CASE Restart \/ EndReload \/ ReloadFails \/ Hangup
  <2>1. reload'.pc \in {"idle", "reload"}
      BY <1>3 DEF Restart, EndReload, ReloadFails, Hangup
  <2> QED
      BY <2>1 DEF ReloadShape
<1>4. CASE UpdateRuntime \/ CertFails
  <2>1. reload'.pc = "list"
      BY <1>4 DEF UpdateRuntime, CertFails, Stage
  <2> QED
      BY <2>1 DEF ReloadShape
<1>5. CASE ListPeers
  <2>1. TablePeers' = TablePeers
      BY <1>5 DEF ListPeers, TablePeers
  <2>2. /\ reload'.pc = "insert" /\ reload'.cfg = reload.cfg
        /\ reload'.existing = TablePeers
        /\ reload'.todo = Names(reload.cfg) \ TablePeers
      BY <1>5 DEF ListPeers, Stage
  <2> QED
      BY <2>1, <2>2 DEF ReloadShape
<1>6. CASE InsertPeer
  <2>1. PICK p \in reload.todo : NextPeer(p, TRUE) /\ lastSync' = [lastSync EXCEPT ![p] = 0]
      BY <1>6 DEF InsertPeer
  <2>2. p \in Peers
      BY <1>6, ReloadFacts DEF InsertPeer
  <2>3. TablePeers' = TablePeers \cup {p}
      BY <2>1, <2>2, PeerAssumption DEF TablePeers, PeerTypeOK
  <2>4. /\ reload'.pc = "insert" /\ reload'.cfg = reload.cfg
        /\ reload'.existing = reload.existing /\ reload'.todo = reload.todo \ {p}
      BY <1>6, <2>1 DEF InsertPeer, NextPeer, Stage
  <2>5. /\ TablePeers = (reload.existing \cup Names(reload.cfg)) \ reload.todo
        /\ reload.todo \subseteq Names(reload.cfg) \ reload.existing
      BY <1>6 DEF InsertPeer, ReloadShape
  <2> QED
      BY <2>1, <2>3, <2>4, <2>5 DEF ReloadShape
<1>7. CASE DeletePeer
  <2>1. PICK p \in reload.todo :
           NextPeer(p, TRUE) /\ lastSync' = [lastSync EXCEPT ![p] = NoRow]
      BY <1>7 DEF DeletePeer
  <2>2. p \in Peers
      BY <1>7, ReloadFacts DEF DeletePeer
  <2>3. TablePeers' = TablePeers \ {p}
      BY <2>1, <2>2 DEF TablePeers, PeerTypeOK
  <2>4. /\ reload'.pc = "delete" /\ reload'.cfg = reload.cfg
        /\ reload'.todo = reload.todo \ {p}
      BY <1>7, <2>1 DEF DeletePeer, NextPeer, Stage
  <2>5. TablePeers = Names(reload.cfg) \cup reload.todo /\ reload.todo \cap Names(reload.cfg) = {}
      BY <1>7 DEF DeletePeer, ReloadShape
  <2> QED
      BY <2>1, <2>3, <2>4, <2>5 DEF ReloadShape
<1>8. CASE AddJob
  <2>1. PICK p \in reload.todo :
           /\ \/ jobs[p] # NoJob /\ UNCHANGED jobVars
              \/ jobs' = [jobs EXCEPT ![p] = [peer |-> p, rule |-> reload.cfg.peers[p],
                                              gen |-> Gen]]
           /\ NextPeer(p, TRUE)
      BY <1>8 DEF AddJob
  <2>2. p \in Peers /\ reload.cfg.peers[p] \in Rule
      BY <1>8, ReloadFacts DEF AddJob, ReloadShape, Names, Config
  <2>3. [peer |-> p, rule |-> reload.cfg.peers[p], gen |-> Gen] # NoJob
      BY <2>2, GenType, PeerAssumption DEF Job
  <2>4. jobs'[p] # NoJob /\ \A q \in Peers : q # p => jobs'[q] = jobs[q]
      BY <2>1, <2>2, <2>3 DEF PeerTypeOK
  <2>5. /\ reload'.pc = "jobs" /\ reload'.cfg = reload.cfg
        /\ reload'.todo = reload.todo \ {p} /\ (reload'.clean => reload.clean)
      BY <1>8, <2>1 DEF AddJob, NextPeer, Stage
  <2>6. TablePeers' = TablePeers
      BY <1>8 DEF AddJob, TablePeers
  <2> QED
      BY <1>8, <1>a, <2>4, <2>5, <2>6 DEF AddJob, ReloadShape
<1>9. CASE RemoveJob \/ RemoveJobFails
  <2>1. PICK p \in reload.todo : \E ok \in BOOLEAN :
           /\ jobs' = [jobs EXCEPT ![p] = NoJob]
           /\ NextPeer(p, ok)
      BY <1>9 DEF RemoveJob, RemoveJobFails
  <2>2. At("obsolete") /\ p \in Peers
      BY <1>9, ReloadFacts DEF RemoveJob, RemoveJobFails
  <2>3. JobPeers' = JobPeers \ {p}
      BY <2>1, <2>2 DEF JobPeers, PeerTypeOK
  <2>4. /\ reload'.pc = "obsolete" /\ reload'.cfg = reload.cfg
        /\ reload'.todo = reload.todo \ {p}
      BY <2>1, <2>2 DEF NextPeer, Stage
  <2>7. reload'.clean => reload.clean
      BY <2>1, CleanFalls
  <2>5. TablePeers' = TablePeers
      BY <1>9 DEF RemoveJob, RemoveJobFails, TablePeers
  <2>6. p \notin Names(reload.cfg)
      BY <2>2 DEF ReloadShape
  <2> QED
      BY <2>2, <2>3, <2>4, <2>5, <2>6, <2>7 DEF ReloadShape
<1>10. CASE AddJobFails
  <2>1. /\ reload'.pc = "jobs" /\ reload'.cfg = reload.cfg
        /\ reload'.todo \subseteq reload.todo
      BY <1>10 DEF AddJobFails, NextPeer, Stage
  <2>3. ~reload'.clean
      BY <1>10, CleanFalls DEF AddJobFails
  <2>2. TablePeers' = TablePeers
      BY <1>10 DEF AddJobFails, TablePeers
  <2> QED
      BY <1>10, <2>1, <2>2, <2>3 DEF AddJobFails, ReloadShape
<1>11. CASE NextLoop
  <2>1. TablePeers' = TablePeers /\ JobPeers' = JobPeers /\ jobs' = jobs /\ reload.todo = {}
      BY <1>11 DEF NextLoop, TablePeers, JobPeers
  <2>2. CASE At("insert") /\ Loop("delete", reload.existing \ Names(reload.cfg))
      BY <2>1, <2>2, StageFields DEF ReloadShape
  <2>3. CASE At("delete") /\ Loop("jobs", Names(reload.cfg))
      BY <2>1, <2>3, StageFields DEF ReloadShape
  <2>4. CASE At("jobs") /\ Loop("obsolete", JobPeers \ Names(reload.cfg))
    <3>1. reload.clean => Names(reload.cfg) \subseteq JobPeers
        BY <1>a, <2>1, <2>4 DEF ReloadShape, JobPeers
    <3> QED
        BY <2>1, <2>4, <3>1, StageFields DEF ReloadShape
  <2> QED
      BY <1>11, <2>2, <2>3, <2>4 DEF NextLoop
<1> QED
    BY <1>1, <1>2, <1>3, <1>4, <1>5, <1>6, <1>7, <1>8, <1>9, <1>10, <1>11
    DEF PeerNext, ReloadStep, FaultStep, WorldStep

LEMMA TypeStep ==
    ASSUME PeerTypeOK, ReloadShape, PeerNext
    PROVE  PeerTypeOK'
    BY SyncTypeStep, ReloadTypeStep, WorldTypeStep
    DEF PeerNext, ReloadStep, FaultStep, WorldStep

\* Nothing changes: the two invariants so far stay.
LEMMA StutterTypes ==
    ASSUME PeerTypeOK, ReloadShape, UNCHANGED peerVars
    PROVE  PeerTypeOK' /\ ReloadShape'
    BY DEF peerVars, tableVars, fileVars, jobVars, history, PeerTypeOK, ReloadShape,
           TablePeers, JobPeers

-----------------------------------------------------------------------------
(* Jobs *)

\* Steps that leave the jobs as they are and make none known.
LEMMA DistinctKept ==
    ASSUME JobsDistinct, Gen' = Gen, jobs' = jobs,
           \A j \in Job : Known(j)' => Known(j),
           \/ reload' = reload
           \/ reload'.pc \in {"idle", "obsolete"}
           \/ reload.pc \in {"reload", "list", "insert", "delete"}
    PROVE  JobsDistinct'
    BY DEF JobsDistinct

LEMMA SyncKeepsDistinct ==
    ASSUME PeerTypeOK, JobsDistinct, NEW k \in Runs,
           \/ SyncStep(k) \/ TransferFails(k) \/ SyncFails(k) \/ UpdateFails(k)
    PROVE  JobsDistinct'
<1>1. UNCHANGED <<reload, jobs, scheduled>>
    BY SyncSparesReload
<1>2. Gen' = Gen
  <2>1. spent' = spent \/ Spend("errors", MaxErrors)
      BY DEF SyncStep, StartSync, ListGroups, ListIds, SkipArticle, SendArticle,
             EndSync, UpdateLastSync, TransferFails, SyncFails, UpdateFails
  <2> QED
      BY <2>1 DEF Spend, Gen, PeerTypeOK, Bounded
<1>3. \A i \in Runs : run'[i].pc # "idle" =>
         run'[i].job \in scheduled \/ (run[i].pc # "idle" /\ run'[i].job = run[i].job)
  <2>1. ASSUME NEW j \in scheduled, StartSync(k, j) PROVE <1>3
      BY <2>1 DEF StartSync, PeerTypeOK
  <2>2. CASE ListGroups(k) \/ ListIds(k)
      BY <2>2 DEF ListGroups, ListIds, KeepOn, SyncAt, PeerTypeOK
  <2>3. CASE SkipArticle(k) \/ SendArticle(k) \/ TransferFails(k)
      BY <2>3 DEF SkipArticle, SendArticle, TransferFails, KeepOn, SyncAt, PeerTypeOK
  <2>4. CASE EndSync(k) \/ SyncFails(k)
      BY <2>4 DEF EndSync, SyncFails, Ended, PeerTypeOK
  <2>5. CASE UpdateLastSync(k) \/ UpdateFails(k)
      BY <2>5 DEF UpdateLastSync, UpdateFails, PeerTypeOK
  <2> QED
      BY <2>1, <2>2, <2>3, <2>4, <2>5 DEF SyncStep
<1>4. \A j \in Job : Known(j)' => Known(j)
    BY <1>1, <1>3 DEF Known
<1> QED
    BY <1>1, <1>2, <1>4, DistinctKept

LEMMA DistinctStep ==
    ASSUME PeerTypeOK, ReloadShape, JobsDistinct, PeerNext
    PROVE  JobsDistinct'
<1> USE DEF ReloadFrame, At, Loop, fileVars, jobVars, tableVars, history, Bounded
<1>1. ASSUME NEW k \in Runs,
             SyncStep(k) \/ TransferFails(k) \/ SyncFails(k) \/ UpdateFails(k)
      PROVE  JobsDistinct'
    BY <1>1, SyncKeepsDistinct
<1>2. CASE \/ Tick \/ EditFile \/ (\E a \in Articles : Delete(a))
           \/ \E g \in Groups : AddGroup(g) \/ RemoveGroup(g)
           \/ \E a \in Articles, g \in Groups, at \in 1 .. clock : Arrive(a, g, at)
  <2>1. UNCHANGED <<reload, jobs, scheduled, run>>
      BY <1>2 DEF Tick, EditFile, Delete, AddGroup, RemoveGroup, Arrive
  <2>2. Gen' = Gen
    <3>1. spent' = spent \/ Spend("edits", MaxEdits)
        BY <1>2 DEF Tick, EditFile, Delete, AddGroup, RemoveGroup, Arrive
    <3> QED
        BY <3>1 DEF Spend, Gen, PeerTypeOK, Bounded
  <2> QED
      BY <2>1, <2>2, DistinctKept DEF Known
<1>3. CASE \/ UpdateRuntime \/ ListPeers \/ InsertPeer \/ DeletePeer \/ EndReload
           \/ ReloadFails \/ CertFails
  <2>1. UNCHANGED <<jobs, scheduled, run>>
      BY <1>3 DEF UpdateRuntime, ListPeers, InsertPeer, DeletePeer, EndReload,
                  ReloadFails, CertFails
  <2>2. Gen' = Gen
    <3>1. spent' = spent \/ Spend("errors", MaxErrors)
        BY <1>3 DEF UpdateRuntime, ListPeers, InsertPeer, DeletePeer, EndReload,
                    ReloadFails, CertFails
    <3> QED
        BY <3>1 DEF Spend, Gen, PeerTypeOK
  <2>3. reload'.pc = "idle" \/ reload.pc \in {"reload", "list", "insert", "delete"}
    <3>1. CASE EndReload \/ ReloadFails
        BY <3>1 DEF EndReload, ReloadFails
    <3>2. CASE ~(EndReload \/ ReloadFails)
        BY <1>3, <3>2 DEF UpdateRuntime, ListPeers, InsertPeer, DeletePeer, CertFails
    <3> QED
        BY <3>1, <3>2
  <2> QED
      BY <2>1, <2>2, <2>3, DistinctKept DEF Known
<1>4. CASE NextLoop
  <2>1. UNCHANGED <<jobs, scheduled, run>> /\ Gen' = Gen
      BY <1>4 DEF NextLoop, Gen
  <2>2. reload'.pc = "obsolete" \/ reload.pc \in {"insert", "delete"}
      BY <1>4 DEF NextLoop, Stage
  <2> QED
      BY <2>1, <2>2, DistinctKept DEF Known
<1>5. CASE Hangup
  <2>1. UNCHANGED <<jobs, scheduled, run>> /\ reload'.pc = "reload"
      BY <1>5 DEF Hangup
  <2>2. Gen \in Nat /\ Gen' = Gen + 1
    <3>1. spent["reloads"] \in Nat /\ spent["restarts"] \in Nat
        BY DEF PeerTypeOK
    <3>2. spent'["reloads"] = spent["reloads"] + 1 /\ spent'["restarts"] = spent["restarts"]
        BY <1>5 DEF Hangup, Spend, PeerTypeOK
    <3> QED
        BY <3>1, <3>2 DEF Gen
  <2>3. \A j \in Job : j.gen \in Nat
      BY DEF Job
  <2>4. \A p \in Peers : jobs[p] # NoJob => jobs[p] \in Job
      BY DEF PeerTypeOK
  <2> QED
      BY <2>1, <2>2, <2>3, <2>4 DEF JobsDistinct, Known
<1>6. CASE AddJob
  <2>1. PICK p \in reload.todo :
           /\ \/ UNCHANGED jobVars
              \/ LET j == [peer |-> p, rule |-> reload.cfg.peers[p], gen |-> Gen]
                 IN  jobs' = [jobs EXCEPT ![p] = j] /\ scheduled' = scheduled \cup {j}
           /\ NextPeer(p, TRUE)
      BY <1>6 DEF AddJob
  <2> DEFINE new == [peer |-> p, rule |-> reload.cfg.peers[p], gen |-> Gen]
  <2>2. p \in Peers /\ Gen \in Nat
      BY <1>6, ReloadFacts, GenType DEF AddJob
  <2>3. \A q \in Peers : jobs'[q] = jobs[q] \/ (q = p /\ jobs'[q] = new)
    <3>1. jobs \in [Peers -> Job \cup {NoJob}]
        BY DEF PeerTypeOK
    <3>2. jobs' = jobs \/ jobs' = [jobs EXCEPT ![p] = new]
        BY <2>1
    <3> HIDE DEF new
    <3> QED
        BY <3>1, <3>2
  <2>4. \A j \in Job : Known(j)' => Known(j) \/ j = new
      BY <1>6, <2>1 DEF AddJob, Known
  <2>5. reload.pc = "jobs" /\ reload'.pc = "jobs" /\ reload'.todo = reload.todo \ {p}
      BY <1>6, <2>1 DEF AddJob, NextPeer, Stage
  <2>6. Gen' = Gen
      BY <1>6 DEF AddJob, Gen
  <2>7. new.peer = p /\ new.gen = Gen
      OBVIOUS
  <2> HIDE DEF new
  <2> QED
      BY <2>2, <2>3, <2>4, <2>5, <2>6, <2>7 DEF JobsDistinct
<1>7. CASE RemoveJob \/ RemoveJobFails \/ AddJobFails
  <2>1. PICK p \in reload.todo : \E ok \in BOOLEAN :
           (jobs' = jobs \/ jobs' = [jobs EXCEPT ![p] = NoJob]) /\ NextPeer(p, ok)
      BY <1>7 DEF RemoveJob, RemoveJobFails, AddJobFails
  <2>2. \A q \in Peers : jobs'[q] = jobs[q] \/ jobs'[q] = NoJob
      BY <2>1 DEF PeerTypeOK
  <2>3. \A j \in Job : Known(j)' => Known(j)
      BY <1>7 DEF RemoveJob, RemoveJobFails, AddJobFails, Known
  <2>4. reload'.pc = reload.pc /\ reload'.todo \subseteq reload.todo
      BY <2>1 DEF NextPeer, Stage
  <2>5. Gen' = Gen
    <3>1. spent' = spent \/ Spend("errors", MaxErrors)
        BY <1>7 DEF RemoveJob, RemoveJobFails, AddJobFails
    <3> QED
        BY <3>1 DEF Spend, Gen, PeerTypeOK
  <2> QED
      BY <2>2, <2>3, <2>4, <2>5 DEF JobsDistinct
<1>8. CASE Restart
  <2>1. file \in Config
      BY PeerAssumption DEF PeerTypeOK
  <2>2. Gen \in Nat /\ Gen' = Gen + 1
    <3>1. spent["reloads"] \in Nat /\ spent["restarts"] \in Nat
        BY DEF PeerTypeOK
    <3>2. spent'["restarts"] = spent["restarts"] + 1 /\ spent'["reloads"] = spent["reloads"]
        BY <1>8 DEF Restart, Spend, PeerTypeOK
    <3> QED
        BY <3>1, <3>2 DEF Gen
  <2>0. PICK lost : /\ jobs' = NewJobs(file, Gen + 1, lost)
                    /\ scheduled' = Scheduling(NewJobs(file, Gen + 1, lost))
      BY <1>8 DEF Restart
  <2>3. /\ jobs' = NewJobs(file, Gen + 1, lost) /\ reload'.pc = "idle"
        /\ scheduled' = {jobs'[p] : p \in {q \in Peers : jobs'[q] # NoJob}}
        /\ \A k \in Runs : run'[k].pc = "idle"
      BY <1>8, <2>0 DEF Restart, Scheduling
  <2>4. \A p \in Peers : jobs'[p] # NoJob => jobs'[p].peer = p /\ jobs'[p].gen = Gen + 1
    <3> SUFFICES ASSUME NEW p \in Peers, jobs'[p] # NoJob
                 PROVE  jobs'[p].peer = p /\ jobs'[p].gen = Gen + 1
        OBVIOUS
    <3>1. Gen + 1 \in Nat
        BY <2>2
    <3>2. p \in Names(file) \ lost
        BY <2>1, <2>3, <3>1, NewJobsType
    <3>3. jobs'[p] = [peer |-> p, rule |-> file.peers[p], gen |-> Gen + 1]
        BY <2>1, <2>3, <3>1, <3>2, NewJobsType
    <3> QED
        BY <3>3
  <2>5. \A j \in Job : Known(j)' => j.gen = Gen + 1
      BY <2>3, <2>4 DEF Known
  <2> QED
      BY <2>2, <2>3, <2>4, <2>5 DEF JobsDistinct
<1> QED
    BY <1>1, <1>2, <1>3, <1>4, <1>5, <1>6, <1>7, <1>8
    DEF PeerNext, ReloadStep, FaultStep, WorldStep

-----------------------------------------------------------------------------
(* What a peer can miss *)

Covered ==
    LossesExplained /\ RunsCover /\ NoJobExcused

\* Done and Covers with the histories as they are after a step.
DoneNow(p, r) == <<p, r.art>> \in settled' \/ <<p, r>> \in excused'
CoversNow(x, r) ==
    /\ x.pc # "idle"
    /\ x.job = jobs[x.job.peer]
    /\ Owed(x.job.peer, r)
    => \/ DoneNow(x.job.peer, r)
       \/ x.pc = "start" /\ (x.since = 0 \/ r.at > x.since)
       \/ /\ x.pc = "sync"
          /\ \/ r \in x.ids
             \/ r.group \in x.todo /\ (x.since = 0 \/ r.at > x.since)

LEMMA HistoryGrows ==
    ASSUME settled \subseteq settled', excused \subseteq excused'
    PROVE  /\ \A p, r : Done(p, r) => DoneNow(p, r)
           /\ \A x, r : Covers(x, r) => CoversNow(x, r)
<1>1. \A p, r : Done(p, r) => DoneNow(p, r)
    BY DEF Done, DoneNow
<1> QED
    BY <1>1 DEF Covers, CoversNow

LEMMA RunsCoverNext ==
    ASSUME jobs' = jobs, \A i \in Runs : \A r \in rows' : CoversNow(run'[i], r)
    PROVE  RunsCover'
    BY DEF RunsCover, Covers, CoversNow, DoneNow, Owed, Done

\* Jobs, times and syncs as they were; rows may go, the histories only grow.
LEMMA CoveredKept ==
    ASSUME Covered, rows' \subseteq rows, UNCHANGED <<jobs, lastSync, run>>,
           settled \subseteq settled', excused \subseteq excused'
    PROVE  Covered'
<1>1. LossesExplained' /\ NoJobExcused'
    BY DEF Covered, LossesExplained, NoJobExcused, Owed, Done, Since
<1>2. \A i \in Runs : \A r \in rows' : CoversNow(run'[i], r)
    BY HistoryGrows DEF Covered, RunsCover
<1> QED
    BY <1>1, <1>2, RunsCoverNext DEF Covered

\* Rows go, with what is recorded about them.
LEMMA CoveredFewer ==
    ASSUME Covered, rows' \subseteq rows, UNCHANGED <<jobs, lastSync, run, settled>>,
           \A p : \A r \in rows' : <<p, r>> \in excused => <<p, r>> \in excused'
    PROVE  Covered'
<1>1. \A p : \A r \in rows' : Done(p, r) => DoneNow(p, r)
    BY DEF Done, DoneNow
<1>2. LossesExplained'
    BY <1>1 DEF Covered, LossesExplained, Owed, Done, DoneNow, Since
<1>3. NoJobExcused'
    BY DEF Covered, NoJobExcused, Since
<1>4. \A i \in Runs : \A r \in rows' : CoversNow(run'[i], r)
    BY <1>1 DEF Covered, RunsCover, Covers, CoversNow
<1> QED
    BY <1>2, <1>3, <1>4, RunsCoverNext DEF Covered

\* One sync goes on, and no article it is to offer is forgotten.
LEMMA CoveredRun ==
    ASSUME PeerTypeOK, Covered, UNCHANGED <<rows, jobs, lastSync>>,
           settled \subseteq settled', excused \subseteq excused',
           NEW k \in Runs, NEW x, run' = [run EXCEPT ![k] = x],
           \A r \in rows : CoversNow(x, r)
    PROVE  Covered'
<1>1. LossesExplained' /\ NoJobExcused'
    BY DEF Covered, LossesExplained, NoJobExcused, Owed, Done, Since
<1>2. run'[k] = x /\ \A i \in Runs : i # k => run'[i] = run[i]
    BY DEF PeerTypeOK
<1>3. \A i \in Runs : \A r \in rows : CoversNow(run'[i], r)
    BY <1>2, HistoryGrows DEF Covered, RunsCover
<1> QED
    BY <1>1, <1>3, RunsCoverNext DEF Covered

LEMMA RowFacts ==
    ASSUME PeerTypeOK, NEW r \in rows
    PROVE  r.at \in Nat /\ r.art \in Articles /\ r.group \in Groups
    BY DEF PeerTypeOK, Row

LEMMA SinceType ==
    ASSUME PeerTypeOK, NEW p \in Peers
    PROVE  Since(p) \in Nat
    BY DEF PeerTypeOK, Since

LEMMA SyncCovered ==
    ASSUME PeerTypeOK, Covered, NamelessExcused, NEW k \in Runs,
           \/ SyncStep(k) \/ TransferFails(k) \/ SyncFails(k) \/ UpdateFails(k)
    PROVE  Covered'
<1> USE DEF SyncFrame, jobVars, history
<1>0. \A r \in rows : Covers(run[k], r)
    BY DEF Covered, RunsCover
<1>1. ASSUME NEW j \in scheduled, StartSync(k, j) PROVE Covered'
  <2> DEFINE x == [pc |-> "start", job |-> j, since |-> Since(j.peer)]
  <2>1. j.peer \in Peers
      BY DEF PeerTypeOK, Job
  <2>2. ASSUME NEW r \in rows, j = jobs[j.peer], Owed(j.peer, r)
        PROVE  Done(j.peer, r) \/ Since(j.peer) = 0 \/ r.at > Since(j.peer)
      BY <2>1, <2>2, RowFacts, SinceType DEF Covered, LossesExplained
  <2>3. run' = [run EXCEPT ![k] = x]
      BY <1>1 DEF StartSync
  <2>4. UNCHANGED <<rows, jobs, lastSync, settled, excused>>
      BY <1>1 DEF StartSync
  <2>6. x.pc = "start" /\ x.job = j /\ x.since = Since(j.peer)
      OBVIOUS
  <2> HIDE DEF x
  <2>7. \A r \in rows : CoversNow(x, r)
      BY <2>2, <2>4, <2>6, HistoryGrows DEF CoversNow
  <2> QED
      BY <2>3, <2>4, <2>7, CoveredRun
<1>b. CASE ListGroups(k)
  <2> DEFINE x == [pc |-> "sync", job |-> run[k].job, since |-> run[k].since,
                   todo |-> run[k].job.rule \cap groups, ids |-> {}]
  <2>1. run[k].pc = "start" /\ run' = [run EXCEPT ![k] = x]
      BY <1>b DEF ListGroups, KeepOn, SyncAt
  <2>2. UNCHANGED <<rows, jobs, lastSync, settled, excused>>
      BY <1>b DEF ListGroups
  <2>3. x.pc = "sync" /\ x.job = run[k].job /\ x.since = run[k].since
        /\ x.todo = run[k].job.rule \cap groups
      OBVIOUS
  <2>4. run[k].job.peer \in Peers
      BY <2>1, RunFacts
  <2> HIDE DEF x
  <2>5. ASSUME NEW r \in rows, x.job = jobs[x.job.peer], Owed(x.job.peer, r),
               ~DoneNow(x.job.peer, r)
        PROVE  r.group \in x.todo /\ (x.since = 0 \/ r.at > x.since)
    <3>1. ~Done(x.job.peer, r)
        BY <2>2, <2>5, HistoryGrows
    <3>2. r.group \in x.job.rule /\ r.group \in groups
        BY <2>3, <2>4, <2>5, <3>1 DEF Owed, Done, NamelessExcused
    <3>3. run[k].since = 0 \/ r.at > run[k].since
        BY <1>0, <2>1, <2>3, <2>5, <3>1 DEF Covers
    <3> QED
        BY <2>3, <3>2, <3>3
  <2>6. \A r \in rows : CoversNow(x, r)
      BY <2>3, <2>5 DEF CoversNow
  <2> QED
      BY <2>1, <2>2, <2>6, CoveredRun
<1>2. CASE ListIds(k)
  <2>1. PICK g \in run[k].todo :
           KeepOn(k, run[k].todo \ {g}, ArticleIds(g, run[k].since))
      BY <1>2 DEF ListIds
  <2> DEFINE x == [pc |-> "sync", job |-> run[k].job, since |-> run[k].since,
                   todo |-> run[k].todo \ {g}, ids |-> ArticleIds(g, run[k].since)]
  <2>2. run' = [run EXCEPT ![k] = x]
      BY <2>1 DEF KeepOn, SyncAt
  <2>3. UNCHANGED <<rows, jobs, lastSync, settled, excused>>
      BY <1>2 DEF ListIds
  <2>5. x.pc = "sync" /\ x.job = run[k].job /\ x.since = run[k].since
        /\ x.todo = run[k].todo \ {g} /\ x.ids = ArticleIds(g, run[k].since)
      OBVIOUS
  <2>6. \A r \in rows : /\ r.group = g
                        /\ run[k].since = 0 \/ r.at > run[k].since
                        => r \in ArticleIds(g, run[k].since)
      BY DEF ArticleIds
  <2>7. run[k].pc = "sync" /\ run[k].ids = {}
      BY <1>2 DEF ListIds
  <2> HIDE DEF x
  <2>8. \A r \in rows : CoversNow(x, r)
      BY <1>0, <2>3, <2>5, <2>6, <2>7, HistoryGrows DEF Covers, CoversNow
  <2> QED
      BY <2>2, <2>3, <2>8, CoveredRun
<1>3. ASSUME NEW gone, run[k].pc = "sync",
             KeepOn(k, run[k].todo, run[k].ids \ gone),
             UNCHANGED <<rows, jobs, lastSync>>,
             settled \subseteq settled', excused \subseteq excused',
             \A r \in gone : r \in rows /\ Owed(run[k].job.peer, r)
                               => DoneNow(run[k].job.peer, r)
      PROVE  Covered'
  <2> DEFINE x == [pc |-> "sync", job |-> run[k].job, since |-> run[k].since,
                   todo |-> run[k].todo, ids |-> run[k].ids \ gone]
  <2>1. run' = [run EXCEPT ![k] = x]
      BY <1>3 DEF KeepOn, SyncAt
  <2>3. x.pc = "sync" /\ x.job = run[k].job /\ x.since = run[k].since
        /\ x.todo = run[k].todo /\ x.ids = run[k].ids \ gone
      OBVIOUS
  <2> HIDE DEF x
  <2>4. \A r \in rows : CoversNow(x, r)
      BY <1>0, <1>3, <2>3, HistoryGrows DEF Covers, CoversNow
  <2> QED
      BY <1>3, <2>1, <2>4, CoveredRun
<1>4. CASE SkipArticle(k)
  <2>1. PICK r \in run[k].ids : /\ ~Stored(r.art) \/ run[k].job.peer \in Path[r.art]
                                /\ KeepOn(k, run[k].todo, run[k].ids \ {r})
      BY <1>4 DEF SkipArticle
  <2>2. ~(r \in rows /\ Owed(run[k].job.peer, r))
      BY <2>1 DEF Stored, Owed
  <2> DEFINE gone == {r}
  <2>3. /\ \A x \in gone : x \in rows /\ Owed(run[k].job.peer, x)
                              => DoneNow(run[k].job.peer, x)
        /\ KeepOn(k, run[k].todo, run[k].ids \ gone)
      BY <2>1, <2>2
  <2>4. run[k].pc = "sync" /\ UNCHANGED <<rows, jobs, lastSync, settled, excused>>
      BY <1>4 DEF SkipArticle
  <2>5. settled \subseteq settled' /\ excused \subseteq excused'
      BY <2>4
  <2> HIDE DEF gone
  <2> QED
      BY <1>3, <2>3, <2>4, <2>5
<1>5. CASE SendArticle(k)
  <2>1. PICK r \in run[k].ids : /\ KeepOn(k, run[k].todo, run[k].ids \ {r})
                                /\ settled' = settled \cup {<<run[k].job.peer, r.art>>}
      BY <1>5 DEF SendArticle
  <2>2. DoneNow(run[k].job.peer, r)
      BY <2>1 DEF DoneNow
  <2>3. /\ settled \subseteq settled'
        /\ \A x \in {r} : x \in rows /\ Owed(run[k].job.peer, x)
                            => DoneNow(run[k].job.peer, x)
      BY <2>1, <2>2
  <2> QED
      BY <1>3, <1>5, <2>1, <2>3 DEF SendArticle
<1>6. CASE TransferFails(k)
  <2>1. PICK lost \in SUBSET run[k].ids :
           /\ KeepOn(k, run[k].todo, run[k].ids \ lost)
           /\ excused' = excused \cup {<<run[k].job.peer, r>> : r \in lost \cap rows}
      BY <1>6 DEF TransferFails
  <2>2. excused \subseteq excused' /\ \A r \in lost \cap rows : DoneNow(run[k].job.peer, r)
      BY <2>1 DEF DoneNow
  <2> QED
      BY <1>3, <1>6, <2>1, <2>2 DEF TransferFails
<1>7. CASE EndSync(k) \/ SyncFails(k)
  <2>1. run' = [run EXCEPT ![k] = Ended(k)]
      BY <1>7 DEF EndSync, SyncFails
  <2>2. /\ UNCHANGED <<rows, jobs, lastSync, settled>> /\ excused \subseteq excused'
        /\ \/ run[k].pc = "start"
           \/ run[k].pc = "sync" /\ run[k].ids = {}
      BY <1>7 DEF EndSync, SyncFails
  <2>3. \A r \in rows :
           \/ run[k].pc = "start" /\ r.group \in run[k].job.rule
           \/ run[k].pc = "sync" /\ r.group \in run[k].todo
           => DoneNow(run[k].job.peer, r)
    <3>1. CASE EndSync(k)
        BY <3>1 DEF EndSync
    <3>2. CASE SyncFails(k)
        BY <3>2 DEF SyncFails, DoneNow
    <3> QED
        BY <1>7, <3>1, <3>2
  <2>4. Ended(k).pc = "update" /\ Ended(k).job = run[k].job
      BY DEF Ended
  <2>5. \A r \in rows : CoversNow(Ended(k), r)
    <3> SUFFICES ASSUME NEW r \in rows, run[k].job = jobs[run[k].job.peer],
                        Owed(run[k].job.peer, r), ~DoneNow(run[k].job.peer, r)
                 PROVE  FALSE
        BY <2>4 DEF CoversNow
    <3>1. run[k].pc = "sync" /\ r.group \in run[k].todo
        BY <1>0, <2>2, <2>3, HistoryGrows DEF Covers, Owed
    <3> QED
        BY <2>3, <3>1
  <2> QED
      BY <2>1, <2>2, <2>5, CoveredRun
<1>8. CASE UpdateFails(k)
  <2> DEFINE x == [pc |-> "idle"]
  <2>1. run' = [run EXCEPT ![k] = x]
        /\ UNCHANGED <<rows, jobs, lastSync, settled, excused>>
      BY <1>8 DEF UpdateFails
  <2>2. \A r \in rows : CoversNow(x, r)
      BY DEF CoversNow
  <2> HIDE DEF x
  <2> QED
      BY <2>1, <2>2, CoveredRun
<1>9. CASE UpdateLastSync(k)
  <2>0. PICK p : p = run[k].job.peer
      OBVIOUS
  <2>1. /\ run[k].pc = "update" /\ p \in Peers /\ run[k].job \in Job
        /\ run[k].when \in Nat
      BY <1>9, <2>0, RunFacts DEF UpdateLastSync
  <2>2. /\ UNCHANGED <<rows, jobs, settled>> /\ excused \subseteq excused'
        /\ run' = [run EXCEPT ![k] = [pc |-> "idle"]]
      BY <1>9 DEF UpdateLastSync
  <2>5. \A q \in Peers : q # p => Since(q)' = Since(q)
      BY <1>9, <2>0, <2>1 DEF UpdateLastSync, Since, PeerTypeOK
  <2>6. Since(p)' = 0 \/ Since(p)' = run[k].when
      BY <1>9, <2>0, <2>1 DEF UpdateLastSync, Since, PeerTypeOK
  <2>7. run[k].job # jobs[p] =>
           \A r \in rows : r.at <= run[k].when => <<p, r>> \in excused'
      BY <1>9, <2>0 DEF UpdateLastSync
  <2>8. run[k].job = jobs[p] => \A r \in rows : Owed(p, r) => Done(p, r)
      BY <1>0, <2>0, <2>1 DEF Covers
  <2>10. ASSUME NEW q \in Peers, NEW r \in rows, Owed(q, r), Since(q)' # 0,
                r.at <= Since(q)'
         PROVE  DoneNow(q, r)
    <3>1. CASE q # p
        BY <2>2, <2>5, <2>10, <3>1, HistoryGrows DEF Covered, LossesExplained
    <3>2. CASE q = p /\ run[k].job = jobs[p]
        BY <2>2, <2>8, <2>10, <3>2, HistoryGrows
    <3>3. CASE q = p /\ run[k].job # jobs[p]
        BY <2>6, <2>7, <2>10, <3>3 DEF DoneNow
    <3> QED
        BY <3>1, <3>2, <3>3
  <2>11. LossesExplained'
      BY <2>2, <2>10 DEF LossesExplained, Owed, Done, DoneNow
  <2>12. ASSUME NEW q \in Peers, NEW r \in rows, jobs[q] = NoJob, Since(q)' # 0,
                r.at <= Since(q)'
         PROVE  <<q, r>> \in excused'
    <3>1. CASE q # p
        BY <2>2, <2>5, <2>12, <3>1 DEF Covered, NoJobExcused
    <3>2. CASE q = p
      <4>1. run[k].job # jobs[p]
          BY <2>1, <2>12, <3>2, PeerAssumption
      <4> QED
          BY <2>6, <2>7, <2>12, <3>2, <4>1
    <3> QED
        BY <3>1, <3>2
  <2>13. NoJobExcused'
      BY <2>2, <2>12 DEF NoJobExcused
  <2>14. \A i \in Runs : run'[i].pc = "idle" \/ run'[i] = run[i]
      BY <2>2 DEF PeerTypeOK
  <2>15. \A i \in Runs : \A r \in rows : CoversNow(run'[i], r)
    <3> SUFFICES ASSUME NEW i \in Runs, NEW r \in rows PROVE CoversNow(run'[i], r)
        OBVIOUS
    <3>1. CASE run'[i].pc = "idle"
        BY <3>1 DEF CoversNow
    <3>2. CASE run'[i] = run[i]
        BY <2>2, <3>2, HistoryGrows DEF Covered, RunsCover
    <3> QED
        BY <2>14, <3>1, <3>2
  <2> QED
      BY <2>2, <2>11, <2>13, <2>15, RunsCoverNext DEF Covered
<1> QED
    BY <1>1, <1>b, <1>2, <1>4, <1>5, <1>6, <1>7, <1>8, <1>9 DEF SyncStep

LEMMA ArriveCovered ==
    ASSUME PeerTypeOK, Covered, NEW a \in Articles, NEW g \in Groups,
           NEW at \in 1 .. clock, Arrive(a, g, at)
    PROVE  Covered'
<1> DEFINE new == [art |-> a, group |-> g, at |-> at]
<1>1. /\ rows' = rows \cup {new} /\ UNCHANGED <<lastSync, jobs, run, settled>>
      /\ excused \subseteq excused'
      /\ \A p \in Peers : Overtaken(p, new) => <<p, new>> \in excused'
    BY DEF Arrive, fileVars, jobVars
<1>2. new.group = g /\ new.at = at /\ at \in Nat
    BY DEF PeerTypeOK
<1> HIDE DEF new
<1>3. \A p \in Peers : Since(p)' = Since(p)
    BY <1>1 DEF Since
<1>4. ASSUME NEW p \in Peers, Since(p) # 0, new.at <= Since(p)
      PROVE  <<p, new>> \in excused'
    BY <1>1, <1>2, <1>4 DEF Since, Overtaken
<1>5. LossesExplained'
  <2>1. ASSUME NEW p \in Peers, NEW r \in rows', Owed(p, r), Since(p) # 0, r.at <= Since(p)
        PROVE  DoneNow(p, r)
    <3>1. CASE r \in rows
        BY <1>1, <2>1, <3>1, HistoryGrows DEF Covered, LossesExplained
    <3>2. CASE r = new
        BY <1>4, <2>1, <3>2 DEF DoneNow
    <3> QED
        BY <1>1, <3>1, <3>2
  <2> QED
      BY <1>1, <1>3, <2>1 DEF LossesExplained, Owed, Done, DoneNow
<1>6. NoJobExcused'
    BY <1>1, <1>3, <1>4 DEF Covered, NoJobExcused
<1>7. ASSUME NEW i \in Runs, NEW r \in rows' PROVE CoversNow(run'[i], r)
  <2>1. CASE r \in rows
      BY <1>1, <2>1, HistoryGrows DEF Covered, RunsCover
  <2>2. CASE r = new
    <3>1. SUFFICES ASSUME run[i].pc # "idle", ~DoneNow(run[i].job.peer, new)
                   PROVE  /\ \/ run[i].pc = "start"
                             \/ run[i].pc = "sync" /\ new.group \in run[i].todo
                          /\ run[i].since = 0 \/ new.at > run[i].since
        BY <1>1, <2>2 DEF CoversNow
    <3>2. run[i].job.peer \in Peers
        BY <3>1, RunFacts
    <3>3. ~Overtaken(run[i].job.peer, new)
        BY <1>1, <3>1, <3>2 DEF DoneNow
    <3>4. run[i].pc \in {"start", "sync"}
        BY <3>1, <3>3, RunFacts DEF Overtaken
    <3>5. /\ run[i].pc = "sync" => new.group \in run[i].todo
          /\ ~(run[i].since # 0 /\ new.at <= run[i].since)
        BY <3>3, <3>4 DEF Overtaken
    <3>6. run[i].since \in Nat
        BY <3>4, RunFacts
    <3> QED
        BY <1>2, <3>4, <3>5, <3>6
  <2> QED
      BY <1>1, <2>1, <2>2
<1> QED
    BY <1>1, <1>5, <1>6, <1>7, RunsCoverNext DEF Covered

LEMMA RestartCovered ==
    ASSUME PeerTypeOK, Covered, Restart
    PROVE  Covered'
<1>0. file \in Config /\ Gen + 1 \in Nat
    BY GenType, PeerAssumption DEF PeerTypeOK
<1>1. /\ UNCHANGED <<rows, settled>> /\ excused \subseteq excused'
      /\ \A k \in Runs : run'[k].pc = "idle"
    BY DEF Restart
<1>a. PICK lost : /\ jobs' = NewJobs(file, Gen + 1, lost)
                  /\ \A p \in Names(file) : Backlog(p, lost) \subseteq excused'
    BY DEF Restart
<1>2. \A p \in Peers : Since(p)' = IF p \in Names(file) THEN Since(p) ELSE 0
  <2>1. \A p \in Peers : lastSync'[p] = IF p \in Names(file) THEN Since(p) ELSE NoRow
      BY DEF Restart
  <2>2. \A p \in Peers : Since(p) \in Nat /\ Since(p) # NoRow
      BY SinceType, PeerAssumption
  <2>3. \A p \in Peers : Since(p)' = IF lastSync'[p] = NoRow THEN 0 ELSE lastSync'[p]
      BY DEF Since
  <2> QED
      BY <2>1, <2>2, <2>3
<1>3. \A p \in Peers : p \notin Names(file) \ lost => jobs'[p] = NoJob
    BY <1>0, <1>a, NewJobsType
<1>4. ASSUME NEW p \in Peers, NEW r \in rows, jobs'[p] # NoJob, p \notin Path[r.art],
             Since(p)' # 0, r.at <= Since(p)'
      PROVE  DoneNow(p, r)
  <2>1. p \in Names(file) /\ Since(p) # 0 /\ r.at <= Since(p)
      BY <1>2, <1>3, <1>4
  <2>2. CASE Owed(p, r)
      BY <1>1, <2>1, <2>2, HistoryGrows DEF Covered, LossesExplained
  <2>3. CASE ~Owed(p, r)
    <3>1. <<p, r>> \in Backlog(p, lost)
        BY <1>4, <2>1, <2>3 DEF Backlog, Owed
    <3> QED
        BY <1>a, <2>1, <3>1 DEF DoneNow
  <2> QED
      BY <2>2, <2>3
<1>5. LossesExplained'
    BY <1>1, <1>4 DEF LossesExplained, Owed, Done, DoneNow
<1>6. ASSUME NEW p \in Peers, NEW r \in rows, jobs'[p] = NoJob, Since(p)' # 0,
             r.at <= Since(p)'
      PROVE  <<p, r>> \in excused'
  <2>1. p \in Names(file) /\ r.at <= Since(p)
      BY <1>2, <1>6
  <2>2. p \in lost
    <3> SUFFICES ASSUME p \notin lost PROVE FALSE
        OBVIOUS
    <3>1. jobs'[p] = [peer |-> p, rule |-> file.peers[p], gen |-> Gen + 1]
        BY <1>0, <1>a, <2>1, NewJobsType
    <3>2. file.peers[p] \in Rule
        BY <1>0, <2>1 DEF Config, Names
    <3>3. jobs'[p] \in Job
        BY <1>0, <3>1, <3>2 DEF Job
    <3> QED
        BY <1>6, <3>3, PeerAssumption
  <2>3. <<p, r>> \in Backlog(p, lost)
      BY <2>1, <2>2 DEF Backlog
  <2> QED
      BY <1>a, <2>1, <2>3
<1>7. NoJobExcused'
    BY <1>1, <1>6 DEF NoJobExcused
<1>8. RunsCover'
    BY <1>1 DEF RunsCover, Covers
<1> QED
    BY <1>5, <1>7, <1>8 DEF Covered

\* The jobs of one peer change.
LEMMA CoveredJob ==
    ASSUME PeerTypeOK, Covered, NEW p \in Peers, NEW j,
           jobs' = [jobs EXCEPT ![p] = j],
           UNCHANGED <<rows, lastSync, run, settled, excused>>,
           \A r \in rows : j # NoJob /\ Since(p) # 0 /\ r.at <= Since(p) => Done(p, r),
           \A r \in rows : j = NoJob /\ Since(p) # 0 /\ r.at <= Since(p)
                              => <<p, r>> \in excused,
           \A k \in Runs : run[k].pc # "idle" => run[k].job # j
    PROVE  Covered'
<1>1. jobs'[p] = j /\ \A q \in Peers : q # p => jobs'[q] = jobs[q]
    BY DEF PeerTypeOK
<1>2. \A q : Since(q)' = Since(q)
    BY DEF Since
<1>3. \A q, r : Done(q, r)' = Done(q, r)
    BY DEF Done
<1>4. \A q \in Peers : \A r : q # p => Owed(q, r)' = Owed(q, r)
    BY <1>1 DEF Owed
<1>5. \A r : Owed(p, r)' => j # NoJob
    BY <1>1 DEF Owed
<1>6. LossesExplained'
  <2> SUFFICES ASSUME NEW q \in Peers, NEW r \in rows, Owed(q, r)', Since(q) # 0,
                      r.at <= Since(q)
               PROVE  Done(q, r)
      BY <1>2, <1>3 DEF LossesExplained
  <2>1. CASE q = p
      BY <1>5, <2>1
  <2>2. CASE q # p
      BY <1>4, <2>2 DEF Covered, LossesExplained
  <2> QED
      BY <2>1, <2>2
<1>7. NoJobExcused'
    BY <1>1, <1>2 DEF Covered, NoJobExcused
<1>8. RunsCover'
  <2> SUFFICES ASSUME NEW k \in Runs, NEW r \in rows, NEW x, x = run[k],
                      x.pc # "idle", x.job = jobs'[x.job.peer], Owed(x.job.peer, r)'
               PROVE  \/ Done(x.job.peer, r)
                      \/ x.pc = "start" /\ (x.since = 0 \/ r.at > x.since)
                      \/ /\ x.pc = "sync"
                         /\ \/ r \in x.ids
                            \/ r.group \in x.todo /\ (x.since = 0 \/ r.at > x.since)
      BY <1>3 DEF RunsCover, Covers, Owed, Done
  <2>1. x.job.peer \in Peers
      BY RunFacts
  <2>2. x.job.peer # p
      BY <1>1
  <2>3. x.job = jobs[x.job.peer] /\ Owed(x.job.peer, r)
      BY <1>1, <1>4, <2>1, <2>2
  <2>4. Covers(x, r)
      BY DEF Covered, RunsCover
  <2> QED
      BY <2>3, <2>4 DEF Covers
<1> QED
    BY <1>6, <1>7, <1>8 DEF Covered

\* The rows of the peers table come and go with "never synced".
LEMMA CoveredTable ==
    ASSUME PeerTypeOK, Covered, NEW p \in Peers, NEW n \in {0, NoRow},
           lastSync' = [lastSync EXCEPT ![p] = n],
           UNCHANGED <<rows, jobs, run, settled, excused>>
    PROVE  Covered'
<1>1. Since(p)' = 0 /\ \A q \in Peers : q # p => Since(q)' = Since(q)
    BY DEF Since, PeerTypeOK
<1>2. \A q, r : Owed(q, r)' = Owed(q, r) /\ Done(q, r)' = Done(q, r)
    BY DEF Owed, Done
<1>3. LossesExplained'
    BY <1>1, <1>2 DEF Covered, LossesExplained
<1>4. NoJobExcused'
    BY <1>1 DEF Covered, NoJobExcused
<1>5. \A i \in Runs : \A r \in rows : CoversNow(run'[i], r)
    BY HistoryGrows DEF Covered, RunsCover
<1> QED
    BY <1>3, <1>4, <1>5, RunsCoverNext DEF Covered

LEMMA ReloadCovered ==
    ASSUME PeerTypeOK, ReloadShape, JobsDistinct, Covered,
           ReloadStep \/ Hangup \/ ReloadFails \/ CertFails \/ AddJobFails
             \/ RemoveJobFails
    PROVE  Covered'
<1> USE DEF ReloadFrame, At, jobVars
<1>1. CASE InsertPeer
  <2>1. PICK p \in reload.todo : lastSync' = [lastSync EXCEPT ![p] = 0]
      BY <1>1 DEF InsertPeer
  <2>2. p \in Peers
      BY <1>1, ReloadFacts DEF InsertPeer
  <2> QED
      BY <1>1, <2>1, <2>2, CoveredTable DEF InsertPeer
<1>2. CASE DeletePeer
  <2>1. PICK p \in reload.todo : lastSync' = [lastSync EXCEPT ![p] = NoRow]
      BY <1>2 DEF DeletePeer
  <2>2. p \in Peers
      BY <1>2, ReloadFacts DEF DeletePeer
  <2> QED
      BY <1>2, <2>1, <2>2, CoveredTable DEF DeletePeer
<1>3. CASE AddJob
  <2>1. PICK p \in reload.todo :
           \/ UNCHANGED jobVars
           \/ /\ jobs[p] = NoJob
              /\ jobs' = [jobs EXCEPT ![p] = [peer |-> p, rule |-> reload.cfg.peers[p],
                                              gen |-> Gen]]
      BY <1>3 DEF AddJob
  <2> DEFINE j == [peer |-> p, rule |-> reload.cfg.peers[p], gen |-> Gen]
  <2>2. p \in Peers /\ reload.cfg.peers[p] \in Rule /\ Gen \in Nat
      BY <1>3, ReloadFacts, GenType DEF AddJob, ReloadShape, Names, Config
  <2>3. j \in Job /\ j.peer = p /\ j.gen = Gen
      BY <2>2 DEF Job
  <2>4. UNCHANGED <<rows, lastSync, run, settled, excused>>
      BY <1>3 DEF AddJob
  <2>5. jobs' = jobs \/ (jobs[p] = NoJob /\ jobs' = [jobs EXCEPT ![p] = j])
      BY <2>1
  <2> HIDE DEF j
  <2>6. j # NoJob
      BY <2>3, PeerAssumption
  <2>7. CASE jobs' = jobs
      BY <2>4, <2>7, CoveredKept
  <2>8. CASE jobs[p] = NoJob /\ jobs' = [jobs EXCEPT ![p] = j]
    <3>1. \A r \in rows : Since(p) # 0 /\ r.at <= Since(p) => Done(p, r)
        BY <2>2, <2>8 DEF Covered, NoJobExcused, Done
    <3>2. ASSUME NEW k \in Runs, run[k].pc # "idle" PROVE run[k].job # j
      <4>1. run[k].job \in Job /\ Known(run[k].job)
          BY <3>2, RunFacts DEF Known
      <4>2. run[k].job.peer = p => run[k].job.gen < Gen
          BY <1>3, <4>1 DEF AddJob, JobsDistinct
      <4> QED
          BY <2>2, <2>3, <4>2
    <3> QED
        BY <2>2, <2>4, <2>6, <2>8, <3>1, <3>2, CoveredJob
  <2> QED
      BY <2>5, <2>7, <2>8
<1>4. CASE RemoveJob \/ RemoveJobFails
  <2>1. PICK p \in reload.todo : jobs' = [jobs EXCEPT ![p] = NoJob]
      BY <1>4 DEF RemoveJob, RemoveJobFails
  <2>2. reload.pc = "obsolete" /\ p \in Peers
      BY <1>4, ReloadFacts DEF RemoveJob, RemoveJobFails
  <2>3. p \notin TablePeers
      BY <2>2 DEF ReloadShape
  <2>4. Since(p) = 0
      BY <2>2, <2>3 DEF TablePeers, Since
  <2>5. \A k \in Runs : run[k].pc # "idle" => run[k].job # NoJob
      BY RunFacts, PeerAssumption
  <2>6. UNCHANGED <<rows, lastSync, run, settled, excused>>
      BY <1>4 DEF RemoveJob, RemoveJobFails
  <2> QED
      BY <2>1, <2>2, <2>4, <2>5, <2>6, CoveredJob
<1>5. CASE \/ UpdateRuntime \/ ListPeers \/ NextLoop \/ EndReload \/ Hangup
           \/ ReloadFails \/ CertFails \/ AddJobFails
  <2>1. UNCHANGED <<rows, jobs, lastSync, run, settled, excused>>
      BY <1>5 DEF UpdateRuntime, ListPeers, NextLoop, EndReload, Hangup, ReloadFails,
                  CertFails, AddJobFails
  <2> QED
      BY <2>1, CoveredKept
<1> QED
    BY <1>1, <1>2, <1>3, <1>4, <1>5 DEF ReloadStep

LEMMA CoveredStep ==
    ASSUME PeerTypeOK, ReloadShape, JobsDistinct, Covered, NamelessExcused, PeerNext
    PROVE  Covered'
<1>1. CASE Tick \/ EditFile \/ \E g \in Groups : AddGroup(g)
  <2>1. UNCHANGED <<rows, jobs, lastSync, run, settled, excused>>
      BY <1>1 DEF Tick, EditFile, AddGroup, tableVars, jobVars, history
  <2> QED
      BY <2>1, CoveredKept
<1>2. CASE (\E a \in Articles : Delete(a)) \/ (\E g \in Groups : RemoveGroup(g))
  <2>1. /\ rows' \subseteq rows /\ UNCHANGED <<jobs, lastSync, run, settled>>
        /\ \A p : \A r \in rows' : <<p, r>> \in excused => <<p, r>> \in excused'
      BY <1>2 DEF Delete, RemoveGroup, jobVars
  <2> QED
      BY <2>1, CoveredFewer
<1> QED
    BY <1>1, <1>2, SyncCovered, ReloadCovered, ArriveCovered, RestartCovered
    DEF PeerNext, FaultStep, WorldStep

LEMMA NamelessStep ==
    ASSUME PeerTypeOK, NamelessExcused, PeerNext
    PROVE  NamelessExcused'
<1>1. ASSUME NEW a \in Articles, NEW g \in Groups, NEW at \in 1 .. clock,
             Arrive(a, g, at)
      PROVE  NamelessExcused'
  <2> DEFINE new == [art |-> a, group |-> g, at |-> at]
  <2>1. /\ rows' = rows \cup {new} /\ groups' = groups /\ excused \subseteq excused'
        /\ \A p \in Peers : Overtaken(p, new) => <<p, new>> \in excused'
      BY <1>1 DEF Arrive
  <2> HIDE DEF new
  <2>2. new.group \notin groups => \A p \in Peers : Overtaken(p, new)
      BY DEF Overtaken
  <2> QED
      BY <2>1, <2>2 DEF NamelessExcused
<1>2. CASE (\E a \in Articles : Delete(a)) \/ (\E g \in Groups : RemoveGroup(g))
  <2>1. /\ rows' \subseteq rows
        /\ \A r \in rows' : r.group \in groups => r.group \in groups'
        /\ \A p : \A r \in rows' : <<p, r>> \in excused => <<p, r>> \in excused'
      BY <1>2 DEF Delete, RemoveGroup
  <2> QED
      BY <2>1 DEF NamelessExcused
<1>3. ASSUME rows' = rows, groups \subseteq groups', excused \subseteq excused'
      PROVE  NamelessExcused'
    BY <1>3 DEF NamelessExcused
<1>4. CASE Tick \/ EditFile \/ \E g \in Groups : AddGroup(g)
    BY <1>3, <1>4 DEF Tick, EditFile, AddGroup, tableVars, history
<1>5. ASSUME NEW k \in Runs,
             SyncStep(k) \/ TransferFails(k) \/ SyncFails(k) \/ UpdateFails(k)
      PROVE  NamelessExcused'
  <2>1. excused \subseteq excused'
      BY <1>5 DEF SyncStep, StartSync, ListGroups, ListIds, SkipArticle, SendArticle,
                  EndSync, UpdateLastSync, TransferFails, SyncFails, UpdateFails, history
  <2> QED
      BY <1>3, <1>5, <2>1, SyncSparesReload
<1>6. CASE Restart
    BY <1>3, <1>6 DEF Restart
<1>7. CASE ReloadStep \/ Hangup \/ ReloadFails \/ CertFails \/ AddJobFails
             \/ RemoveJobFails
  <2>1. UNCHANGED <<rows, groups, excused>>
      BY <1>7 DEF ReloadStep, UpdateRuntime, ListPeers, InsertPeer, DeletePeer, AddJob,
                  RemoveJob, NextLoop, EndReload, Hangup, ReloadFails, CertFails,
                  AddJobFails, RemoveJobFails, ReloadFrame
  <2> QED
      BY <1>3, <2>1
<1> QED
    BY <1>1, <1>2, <1>4, <1>5, <1>6, <1>7 DEF PeerNext, FaultStep, WorldStep

LEMMA PeerInvInit == PeerInit => PeerInv
<1> SUFFICES ASSUME PeerInit PROVE PeerInv
    OBVIOUS
<1>1. LossesExplained /\ RunsCover /\ NoJobExcused /\ NamelessExcused /\ ReloadShape
    BY DEF PeerInit, LossesExplained, RunsCover, NoJobExcused, NamelessExcused,
           ReloadShape
<1>2. JobsDistinct
  <2>1. InitialConfig \in Config
      BY PeerAssumption
  <2>a. PICK lost : jobs = NewJobs(InitialConfig, 0, lost)
      BY DEF PeerInit
  <2>2. Gen = 0
      BY DEF PeerInit, Gen, Bounded
  <2>3. \A p \in Peers : jobs[p] # NoJob => jobs[p].peer = p /\ jobs[p].gen = 0
    <3> SUFFICES ASSUME NEW p \in Peers, jobs[p] # NoJob
                 PROVE  jobs[p].peer = p /\ jobs[p].gen = 0
        OBVIOUS
    <3>1. p \in Names(InitialConfig) \ lost
        BY <2>1, <2>a, NewJobsType
    <3>2. jobs[p] = [peer |-> p, rule |-> InitialConfig.peers[p], gen |-> 0]
        BY <2>1, <2>a, <3>1, NewJobsType
    <3> QED
        BY <3>2
  <2>4. \A j \in Job : Known(j) => j.gen = 0
      BY <2>3 DEF Known, PeerInit, Scheduling
  <2> QED
      BY <2>2, <2>3, <2>4 DEF JobsDistinct, PeerInit
<1> QED
    BY <1>1, <1>2, InitType DEF PeerInv

LEMMA PeerInvStep == PeerInv /\ [PeerNext]_peerVars => PeerInv'
<1> SUFFICES ASSUME PeerInv, [PeerNext]_peerVars PROVE PeerInv'
    OBVIOUS
<1>1. CASE PeerNext
    BY <1>1, TypeStep, ShapeStep, DistinctStep, CoveredStep, NamelessStep
    DEF PeerInv, Covered
<1>2. CASE UNCHANGED peerVars
  <2>1. UNCHANGED <<groups, rows, jobs, lastSync, run, settled, excused, reload,
                    scheduled, spent>>
      BY <1>2 DEF peerVars, tableVars, jobVars, history
  <2>2. Covered'
      BY <2>1, CoveredKept DEF PeerInv, Covered
  <2>3. JobsDistinct'
      BY <2>1, DistinctKept DEF PeerInv, Known, Gen
  <2>4. NamelessExcused'
      BY <2>1 DEF PeerInv, NamelessExcused
  <2> QED
      BY <1>2, <2>2, <2>3, <2>4, StutterTypes DEF PeerInv, Covered
<1> QED
    BY <1>1, <1>2

(* Every article a peer can miss is one of the recorded cases, for any     *)
(* number of peers, groups, articles and overlapping syncs, and groups     *)
(* created and removed under them.  The invariant says what a sync of the  *)
(* present job has already dealt with (RunsCover), that a row without its  *)
(* group is one of the cases (NamelessExcused), since no sync lists it,    *)
(* that no job of an earlier configuration passes for the present one      *)
(* (JobsDistinct), and that a peer without a job has no last_sync of its   *)
(* own when a job is taken away (ReloadShape) or given (NoJobExcused).     *)
THEOREM LossesExplainedHolds == PeerSpec => []LossesExplained
<1>1. PeerInv => LossesExplained
    BY DEF PeerInv
<1> QED
    BY <1>1, PeerInvInit, PeerInvStep, PTL DEF PeerSpec

(* The state of the server with respect to its peers keeps its type.  The  *)
(* jobs added by a reload are jobs only because sync_config and            *)
(* update_tasks work through the peers of one configuration: ReloadShape.  *)
THEOREM PeerTypes == PeerSpec => []PeerTypeOK
<1>1. PeerInv => PeerTypeOK
    BY DEF PeerInv
<1> QED
    BY <1>1, PeerInvInit, PeerInvStep, PTL DEF PeerSpec

(* A reload in which no call failed leaves a job and a row for exactly the *)
(* peers of the configuration it read, whatever an earlier reload that     *)
(* gave up half-way or a failing scheduler call had left.                  *)
THEOREM ReloadSettlesHolds == PeerSpec => ReloadSettles
<1>1. ASSUME PeerInv, EndReload, reload.clean
      PROVE  JobPeers' = Names(reload.cfg) /\ TablePeers' = Names(reload.cfg)
  <2>1. JobPeers' = JobPeers /\ TablePeers' = TablePeers
      BY <1>1 DEF EndReload, ReloadFrame, jobVars, JobPeers, TablePeers
  <2> QED
      BY <1>1, <2>1 DEF EndReload, At, PeerInv, ReloadShape
<1>2. PeerInv =>
        [EndReload /\ reload.clean =>
           JobPeers' = Names(reload.cfg) /\ TablePeers' = Names(reload.cfg)]_peerVars
    BY <1>1
<1> QED
    BY <1>2, PeerInvInit, PeerInvStep, PTL DEF PeerSpec, ReloadSettles
=============================================================================
