------------------------------ MODULE PeerSync ------------------------------
(***************************************************************************)
(* Distribution of articles to peers: the peers table with its last_sync   *)
(* times, the sync jobs the cron scheduler runs (possibly several at a     *)
(* time), and the reload on SIGHUP that changes the configuration, the     *)
(* table and the jobs while syncs are under way.                           *)
(*                                                                         *)
(* The article database is what the sync reads of it: the names in groups  *)
(* and the rows of group_articles.  A step is one statement of a sync or a *)
(* reload on a database, one exchange with a peer about one article, or    *)
(* one scheduler call.                                                     *)
(***************************************************************************)
EXTENDS Naturals, FiniteSets

CONSTANTS
    Peers,        \* sitenames that may appear in the configuration
    Groups,
    Articles,
    Path,         \* the sites on the Path header of an article
    Runs,         \* bound: syncs under way at the same time
    Absent,       \* a peer that is not in a configuration
    NoJob,
    NoRow,
    Certs,        \* TLS certificates
    Configs,      \* contents the configuration file may have
    InitialConfig,
    InitialGroups,
    MaxClock,     \* bound: seconds of the wall clock
    MaxEdits,     \* bound: changes of the configuration file and of the groups
    MaxReloads,   \* bound: SIGHUPs
    MaxRestarts,  \* bound: restarts of the process
    MaxErrors     \* bound: failing statements, transfers and scheduler calls

\* A rule is the set of groups that the patterns of a peer match.
Rule   == SUBSET Groups
Config == [peers : [Peers -> {Absent} \cup Rule], cert : Certs]
Job    == [peer : Peers, rule : Rule, gen : Nat]
Row    == [art : Articles, group : Groups, at : Nat]

ASSUME PeerAssumption ==
    /\ Path \in [Articles -> SUBSET Peers]
    /\ (\A x \in Rule : x # Absent) /\ NoJob \notin Job /\ NoRow \notin Nat
    /\ Configs \subseteq Config /\ InitialConfig \in Configs
    /\ InitialGroups \subseteq Groups
    /\ MaxClock \in Nat /\ MaxEdits \in Nat /\ MaxReloads \in Nat
    /\ MaxRestarts \in Nat /\ MaxErrors \in Nat

VARIABLES
    clock,      \* chrono::Utc::now(), in seconds
    groups,     \* the names in the groups table
    rows,       \* group_articles
    file,       \* the configuration file
    config,     \* Arc<RwLock<Config>>, the reloadable part
    acceptor,   \* ConfigManager.tls_acceptor
    serving,    \* the acceptor the TLS listener uses
    lastSync,   \* the peers table
    jobs,       \* PeerManager.peer_jobs
    scheduled,  \* jobs in the scheduler
    run,        \* the syncs under way
    reload,     \* where the SIGHUP handler is
    spent,      \* what is used up of the bounds
    settled,    \* history: <<peer, article>> that the peer took or had
    excused     \* history: <<peer, row>> of rows the peer may not get, see Overtaken

fileVars  == <<file, config, acceptor, serving>>
jobVars   == <<jobs, scheduled>>
tableVars == <<groups, rows, lastSync>>
history   == <<settled, excused>>
peerVars  == <<clock, tableVars, fileVars, jobVars, run, reload, spent, history>>

-----------------------------------------------------------------------------
Run == [pc : {"idle"}]
         \cup [pc : {"start"}, job : Job, since : Nat]
         \cup [pc : {"sync"}, job : Job, since : Nat, todo : SUBSET Groups,
               ids : SUBSET Row]
         \cup [pc : {"update"}, job : Job, when : Nat]
\* clean: no call of this reload has failed so far.
Reload == [pc : {"idle"}]
            \cup [pc : {"reload", "list", "insert", "delete", "jobs", "obsolete"},
                  cfg : Config, clean : BOOLEAN, existing : SUBSET Peers,
                  todo : SUBSET Peers]

Bounded == {"edits", "reloads", "restarts", "errors"}

Names(c)    == {p \in Peers : c.peers[p] # Absent}
TablePeers  == {p \in Peers : lastSync[p] # NoRow}
JobPeers    == {p \in Peers : jobs[p] # NoJob}
Gen         == spent.reloads + spent.restarts

\* The scheduler does not take the jobs of the peers in lost, which is logged.
NewJobs(c, g, lost) ==
    [p \in Peers |-> IF p \in Names(c) \ lost
                     THEN [peer |-> p, rule |-> c.peers[p], gen |-> g]
                     ELSE NoJob]
Scheduling(js) == {js[p] : p \in {q \in Peers : js[q] # NoJob}}

PeerInit ==
    /\ clock = 1
    /\ groups = InitialGroups /\ rows = {}
    /\ file = InitialConfig /\ config = InitialConfig
    /\ acceptor = InitialConfig.cert /\ serving = InitialConfig.cert
    /\ lastSync = [p \in Peers |-> IF p \in Names(InitialConfig) THEN 0 ELSE NoRow]
    /\ \E lost \in SUBSET Peers : jobs = NewJobs(InitialConfig, 0, lost)
    /\ scheduled = Scheduling(jobs)
    /\ run = [k \in Runs |-> [pc |-> "idle"]]
    /\ reload = [pc |-> "idle"]
    /\ spent = [b \in Bounded |-> 0]
    /\ settled = {} /\ excused = {}

Spend(what, bound) ==
    /\ spent[what] < bound
    /\ spent' = [spent EXCEPT ![what] = @ + 1]

\* Mutant: the value is used as it is.
SinceRaw(p) == lastSync[p]

\* get_last_sync: no row and the value 0 both mean "never".
Since(p) == IF lastSync[p] = NoRow THEN 0 ELSE lastSync[p]

\* list_article_ids_since, or list_article_ids when there was no sync yet.
ArticleIds(g, since) ==
    {r \in rows : r.group = g /\ (since = 0 \/ r.at > since)}

-----------------------------------------------------------------------------
(* The world around the jobs: time, the article database, the operator. *)

Tick ==
    /\ clock < MaxClock
    /\ clock' = clock + 1
    /\ UNCHANGED <<tableVars, fileVars, jobVars, run, reload, spent, history>>

\* newgroup: add_group.
AddGroup(g) ==
    /\ Spend("edits", MaxEdits)
    /\ g \notin groups
    /\ groups' = groups \cup {g}
    /\ UNCHANGED <<clock, rows, lastSync, fileVars, jobVars, run, reload, history>>

\* rmgroup: remove_group deletes the rows, then the name.  A row stored between
\* the two statements is one stored after them.
RemoveGroup(g) ==
    /\ Spend("edits", MaxEdits)
    /\ g \in groups
    /\ groups' = groups \ {g}
    /\ rows' = {r \in rows : r.group # g}
    /\ excused' = {e \in excused : e[2].group # g}
    /\ UNCHANGED <<clock, lastSync, fileVars, jobVars, run, reload, settled>>

\* A row for p that no later sync looks for: its group is not there to be
\* listed, it is not after last_sync, or a sync under way looks only for later
\* ones, or has listed the group already, or had its list of the groups before
\* this one was created.
Overtaken(p, r) ==
    \/ r.group \notin groups
    \/ lastSync[p] # NoRow /\ lastSync[p] # 0 /\ r.at <= lastSync[p]
    \/ \E k \in Runs :
          /\ run[k].pc # "idle" /\ run[k].job.peer = p
          /\ \/ /\ run[k].pc \in {"start", "sync"}
                /\ run[k].since # 0 /\ r.at <= run[k].since
             \/ run[k].pc = "sync" /\ r.group \notin run[k].todo
             \/ run[k].pc = "update"

\* store_article read the clock at `at` and inserts the row now.  That the group
\* is there was found earlier, by the checks on the article.
Arrive(a, g, at) ==
    /\ \A r \in rows : ~(r.art = a /\ r.group = g)
    /\ LET new == [art |-> a, group |-> g, at |-> at]
       IN  /\ rows' = rows \cup {new}
           /\ excused' = excused
                \cup {<<p, new>> : p \in {q \in Peers : Overtaken(q, new)}}
    /\ UNCHANGED <<clock, groups, lastSync, fileVars, jobVars, run, reload, spent,
                   settled>>

\* A cancel or the retention sweep.
Delete(a) ==
    /\ \E r \in rows : r.art = a
    /\ rows' = {r \in rows : r.art # a}
    /\ excused' = {e \in excused : e[2].art # a}
    /\ UNCHANGED <<clock, groups, lastSync, fileVars, jobVars, run, reload, spent,
                   settled>>

EditFile ==
    /\ Spend("edits", MaxEdits)
    /\ file' \in Configs \ {file}
    /\ UNCHANGED <<clock, tableVars, config, acceptor, serving, jobVars, run,
                   reload, history>>

-----------------------------------------------------------------------------
(* A sync, from the scheduler's call to the update of last_sync. *)

SyncFrame == UNCHANGED <<clock, groups, rows, fileVars, jobVars, reload>>

\* Run k has these groups still to list and these articles to offer.
SyncAt(k, j, since, todo, ids) ==
    run' = [run EXCEPT ![k] = [pc |-> "sync", job |-> j, since |-> since,
                               todo |-> todo, ids |-> ids]]
KeepOn(k, todo, ids) == SyncAt(k, run[k].job, run[k].since, todo, ids)

\* The scheduler does not wait for the previous sync of the job.
StartSync(k, j) ==
    /\ run[k].pc = "idle"
    /\ j \in scheduled
    /\ run' = [run EXCEPT ![k] = [pc |-> "start", job |-> j, since |-> Since(j.peer)]]
    /\ UNCHANGED <<lastSync, spent, history>>
    /\ SyncFrame

\* list_groups is one SELECT: the groups there are when it runs.
ListGroups(k) ==
    /\ run[k].pc = "start"
    /\ KeepOn(k, run[k].job.rule \cap groups, {})
    /\ UNCHANGED <<lastSync, spent, history>>
    /\ SyncFrame

\* Mutant: the comparison with last_sync leaves one second out.
ListIdsSkipsSecond(k) ==
    /\ run[k].pc = "sync" /\ run[k].ids = {}
    /\ \E g \in run[k].todo :
          KeepOn(k, run[k].todo \ {g},
                 {r \in rows : /\ r.group = g
                               /\ run[k].since = 0 \/ r.at > run[k].since + 1})
    /\ UNCHANGED <<lastSync, spent, history>>
    /\ SyncFrame

ListIds(k) ==
    /\ run[k].pc = "sync" /\ run[k].ids = {}
    /\ \E g \in run[k].todo :
          KeepOn(k, run[k].todo \ {g}, ArticleIds(g, run[k].since))
    /\ UNCHANGED <<lastSync, spent, history>>
    /\ SyncFrame

Stored(a) == \E r \in rows : r.art = a

\* get_articles_by_ids does not return the article, or the peer is on its Path.
SkipArticle(k) ==
    /\ run[k].pc = "sync"
    /\ \E r \in run[k].ids :
          /\ ~Stored(r.art) \/ run[k].job.peer \in Path[r.art]
          /\ KeepOn(k, run[k].todo, run[k].ids \ {r})
    /\ UNCHANGED <<lastSync, spent, history>>
    /\ SyncFrame

\* IHAVE: the peer takes the article, or answers that it has it.
SendArticle(k) ==
    /\ run[k].pc = "sync"
    /\ \E r \in run[k].ids :
          /\ Stored(r.art) /\ run[k].job.peer \notin Path[r.art]
          /\ KeepOn(k, run[k].todo, run[k].ids \ {r})
          /\ settled' = settled \cup {<<run[k].job.peer, r.art>>}
    /\ UNCHANGED <<lastSync, spent, excused>>
    /\ SyncFrame

\* The query for the articles fails, for some or all of them, or there is no
\* connection, or a transfer fails, or any first answer but 335, which counts
\* as sent: the sync goes on with the next article.
TransferFails(k) ==
    /\ Spend("errors", MaxErrors)
    /\ run[k].pc = "sync"
    /\ \E lost \in SUBSET run[k].ids \ {{}} :
          /\ KeepOn(k, run[k].todo, run[k].ids \ lost)
          /\ excused' = excused \cup {<<run[k].job.peer, r>> : r \in lost \cap rows}
    /\ UNCHANGED <<lastSync, settled>>
    /\ SyncFrame

Ended(k) == [pc |-> "update", job |-> run[k].job, when |-> clock]

EndSync(k) ==
    /\ run[k].pc = "sync" /\ run[k].ids = {} /\ run[k].todo = {}
    /\ run' = [run EXCEPT ![k] = Ended(k)]
    /\ UNCHANGED <<lastSync, spent, history>>
    /\ SyncFrame

\* A statement of sync_peer_once fails: the groups not yet listed are dropped.
SyncFails(k) ==
    /\ Spend("errors", MaxErrors)
    /\ \E dropped \in SUBSET Groups :
          /\ \/ run[k].pc = "start" /\ dropped = run[k].job.rule
             \/ run[k].pc = "sync" /\ run[k].ids = {} /\ dropped = run[k].todo
          /\ excused' = excused \cup {<<run[k].job.peer, r>> :
                                         r \in {q \in rows : q.group \in dropped}}
    /\ run' = [run EXCEPT ![k] = Ended(k)]
    /\ UNCHANGED <<lastSync, settled>>
    /\ SyncFrame

\* "Update last sync time regardless of success/failure".  A job that has
\* been replaced meanwhile moves the time of its successor.
UpdateLastSync(k) ==
    /\ run[k].pc = "update"
    /\ LET p == run[k].job.peer
       IN  /\ lastSync' = IF lastSync[p] = NoRow THEN lastSync
                          ELSE [lastSync EXCEPT ![p] = run[k].when]
           /\ excused' = IF run[k].job = jobs[p] THEN excused
                         ELSE excused \cup {<<p, r>> :
                                    r \in {q \in rows : q.at <= run[k].when}}
    /\ run' = [run EXCEPT ![k] = [pc |-> "idle"]]
    /\ UNCHANGED <<spent, settled>>
    /\ SyncFrame

UpdateFails(k) ==
    /\ Spend("errors", MaxErrors)
    /\ run[k].pc = "update"
    /\ run' = [run EXCEPT ![k] = [pc |-> "idle"]]
    /\ UNCHANGED <<lastSync, history>>
    /\ SyncFrame

-----------------------------------------------------------------------------
(* The SIGHUP handler: handle_config_reload_with_managers. *)

ReloadFrame == UNCHANGED <<clock, groups, rows, file, serving, run, settled>>
At(pc) == reload.pc = pc
Stage(pc, clean, existing, todo) ==
    reload' = [pc |-> pc, cfg |-> reload.cfg, clean |-> clean,
               existing |-> existing, todo |-> todo]
Loop(pc, todo)  == Stage(pc, reload.clean, reload.existing, todo)
NextPeer(p, ok) ==
    Stage(reload.pc, reload.clean /\ ok, reload.existing, reload.todo \ {p})

Hangup ==
    /\ At("idle")
    /\ Spend("reloads", MaxReloads)
    /\ reload' = [pc |-> "reload", cfg |-> file, clean |-> TRUE,
                  existing |-> {}, todo |-> {}]
    /\ UNCHANGED <<config, acceptor, lastSync, jobVars, excused>>
    /\ ReloadFrame

\* ConfigManager::reload reads the file again.
UpdateRuntime ==
    /\ At("reload")
    /\ config' = file
    /\ acceptor' = file.cert
    /\ Loop("list", {})
    /\ UNCHANGED <<lastSync, jobVars, spent, excused>>
    /\ ReloadFrame

ListPeers ==
    /\ At("list")
    /\ Stage("insert", reload.clean, TablePeers, Names(reload.cfg) \ TablePeers)
    /\ UNCHANGED <<config, acceptor, lastSync, jobVars, spent, excused>>
    /\ ReloadFrame

InsertPeer ==
    /\ At("insert")
    /\ \E p \in reload.todo :
          /\ lastSync' = [lastSync EXCEPT ![p] = 0]
          /\ NextPeer(p, TRUE)
    /\ UNCHANGED <<config, acceptor, jobVars, spent, excused>>
    /\ ReloadFrame

DeletePeer ==
    /\ At("delete")
    /\ \E p \in reload.todo :
          /\ lastSync' = [lastSync EXCEPT ![p] = NoRow]
          /\ NextPeer(p, TRUE)
    /\ UNCHANGED <<config, acceptor, jobVars, spent, excused>>
    /\ ReloadFrame

\* Mutant: only peers whose row is new get a job.
AddJobForNewRow ==
    /\ At("jobs")
    /\ \E p \in reload.todo :
          /\ LET j == [peer |-> p, rule |-> reload.cfg.peers[p], gen |-> Gen]
             IN  \/ p \in reload.existing /\ UNCHANGED jobVars
                 \/ /\ p \notin reload.existing
                    /\ jobs' = [jobs EXCEPT ![p] = j]
                    /\ scheduled' = scheduled \cup {j}
          /\ NextPeer(p, TRUE)
    /\ UNCHANGED <<config, acceptor, lastSync, spent, excused>>
    /\ ReloadFrame

\* A peer that has a job keeps it as it is.
AddJob ==
    /\ At("jobs")
    /\ \E p \in reload.todo :
          /\ LET j == [peer |-> p, rule |-> reload.cfg.peers[p], gen |-> Gen]
             IN  \/ jobs[p] # NoJob /\ UNCHANGED jobVars
                 \/ /\ jobs[p] = NoJob
                    /\ jobs' = [jobs EXCEPT ![p] = j]
                    /\ scheduled' = scheduled \cup {j}
          /\ NextPeer(p, TRUE)
    /\ UNCHANGED <<config, acceptor, lastSync, spent, excused>>
    /\ ReloadFrame

RemoveJob ==
    /\ At("obsolete")
    /\ \E p \in reload.todo :
          /\ jobs' = [jobs EXCEPT ![p] = NoJob]
          /\ scheduled' = scheduled \ {jobs[p]}
          /\ NextPeer(p, TRUE)
    /\ UNCHANGED <<config, acceptor, lastSync, spent, excused>>
    /\ ReloadFrame

\* The loops of sync_config and update_tasks, one after the other.
NextLoop ==
    /\ ~At("idle") /\ reload.todo = {}
    /\ \/ At("insert") /\ Loop("delete", reload.existing \ Names(reload.cfg))
       \/ At("delete") /\ Loop("jobs", Names(reload.cfg))
       \/ At("jobs") /\ Loop("obsolete", JobPeers \ Names(reload.cfg))
    /\ UNCHANGED <<config, acceptor, lastSync, jobVars, spent, excused>>
    /\ ReloadFrame

EndReload ==
    /\ At("obsolete") /\ reload.todo = {}
    /\ reload' = [pc |-> "idle"]
    /\ UNCHANGED <<config, acceptor, lastSync, jobVars, spent, excused>>
    /\ ReloadFrame

\* The file does not parse, or a statement of sync_config fails: the rest of
\* the reload does not happen.
ReloadFails ==
    /\ Spend("errors", MaxErrors)
    /\ reload.pc \in {"reload", "list", "insert", "delete"}
    /\ reload' = [pc |-> "idle"]
    /\ UNCHANGED <<config, acceptor, lastSync, jobVars, excused>>
    /\ ReloadFrame

\* Errors the reload only logs: the certificate does not load, the scheduler
\* does not take a job, or does not remove one, which then goes on.
CertFails ==
    /\ Spend("errors", MaxErrors)
    /\ At("reload")
    /\ config' = file
    /\ Stage("list", FALSE, {}, {})
    /\ UNCHANGED <<acceptor, lastSync, jobVars, excused>>
    /\ ReloadFrame

AddJobFails ==
    /\ Spend("errors", MaxErrors)
    /\ At("jobs")
    /\ \E p \in reload.todo : jobs[p] = NoJob /\ NextPeer(p, FALSE)
    /\ UNCHANGED <<config, acceptor, lastSync, jobVars, excused>>
    /\ ReloadFrame

RemoveJobFails ==
    /\ Spend("errors", MaxErrors)
    /\ At("obsolete")
    /\ \E p \in reload.todo :
          /\ jobs' = [jobs EXCEPT ![p] = NoJob]
          /\ NextPeer(p, FALSE)
    /\ UNCHANGED <<config, acceptor, lastSync, scheduled, excused>>
    /\ ReloadFrame

-----------------------------------------------------------------------------
\* Rows that are not after the last_sync of p and in groups that its patterns
\* did not match before the restart; all of them if it has no job after it.
Backlog(p, lost) ==
    {<<p, r>> : r \in {q \in rows : /\ q.at <= Since(p)
                                    /\ \/ p \in lost \/ jobs[p] = NoJob
                                       \/ q.group \notin jobs[p].rule}}

\* The process ends and starts again: sync_config, then a job for every peer.
Restart ==
    /\ Spend("restarts", MaxRestarts)
    /\ config' = file /\ acceptor' = file.cert /\ serving' = file.cert
    /\ lastSync' = [p \in Peers |-> IF p \in Names(file) THEN Since(p) ELSE NoRow]
    /\ \E lost \in SUBSET Peers :
          /\ jobs' = NewJobs(file, Gen + 1, lost)
          /\ scheduled' = Scheduling(NewJobs(file, Gen + 1, lost))
          /\ excused' = excused \cup UNION {Backlog(p, lost) : p \in Names(file)}
    /\ run' = [k \in Runs |-> [pc |-> "idle"]]
    /\ reload' = [pc |-> "idle"]
    /\ UNCHANGED <<clock, groups, rows, file, settled>>

SyncStep(k) ==
    \/ \E j \in scheduled : StartSync(k, j)
    \/ ListGroups(k) \/ ListIds(k) \/ SkipArticle(k) \/ SendArticle(k)
    \/ EndSync(k) \/ UpdateLastSync(k)

ReloadStep ==
    \/ UpdateRuntime \/ ListPeers \/ InsertPeer \/ DeletePeer
    \/ AddJob \/ RemoveJob \/ NextLoop \/ EndReload

FaultStep ==
    \/ \E k \in Runs : TransferFails(k) \/ SyncFails(k) \/ UpdateFails(k)
    \/ ReloadFails \/ CertFails \/ AddJobFails \/ RemoveJobFails
    \/ Restart

WorldStep ==
    \/ Tick
    \/ \E a \in Articles, g \in Groups, at \in 1 .. clock : Arrive(a, g, at)
    \/ \E a \in Articles : Delete(a)
    \/ \E g \in Groups : AddGroup(g) \/ RemoveGroup(g)
    \/ EditFile
    \/ Hangup

PeerNext ==
    \/ \E k \in Runs : SyncStep(k)
    \/ ReloadStep
    \/ FaultStep
    \/ WorldStep

PeerSpec == PeerInit /\ [][PeerNext]_peerVars

\* The scheduler fires every job again and again (strong fairness, because
\* the bound on the syncs under way may stop it now and then), a peer answers
\* or the connection breaks, and the runtime polls the tasks; the world owes
\* nothing.
FairPeerSpec ==
    /\ PeerSpec
    /\ \A k \in Runs : WF_peerVars(SyncStep(k))
    /\ \A p \in Peers : SF_peerVars(\E k \in Runs : StartSync(k, jobs[p]))
    /\ WF_peerVars(ReloadStep)

-----------------------------------------------------------------------------
PeerTypeOK ==
    /\ clock \in Nat
    /\ groups \subseteq Groups /\ rows \subseteq Row
    /\ file \in Configs /\ config \in Configs
    /\ acceptor \in Certs /\ serving \in Certs
    /\ lastSync \in [Peers -> Nat \cup {NoRow}]
    /\ jobs \in [Peers -> Job \cup {NoJob}]
    /\ scheduled \subseteq Job
    /\ run \in [Runs -> Run]
    /\ reload \in Reload
    /\ spent \in [Bounded -> Nat]
    /\ settled \subseteq Peers \X Articles
    /\ excused \subseteq Peers \X Row

\* The job of p, as it is now, is there to offer the article of r to p.
Owed(p, r) ==
    /\ jobs[p] # NoJob /\ r.group \in jobs[p].rule
    /\ p \notin Path[r.art]

Done(p, r) == <<p, r.art>> \in settled \/ <<p, r>> \in excused

(* An article that a peer is to get and no later sync will look for, since *)
(* it is not after last_sync, was offered, unless it is one of the cases   *)
(* recorded in `excused`: it came while a sync was under way that had      *)
(* listed the group, or had listed the groups before this one was created; *)
(* it came with an older time than last_sync, or without its group; its    *)
(* transfer or its sync failed; last_sync was set by a job with other      *)
(* patterns; or the peer was without a job meanwhile.                      *)
LossesExplained ==
    \A p \in Peers : \A r \in rows :
        Owed(p, r) /\ Since(p) # 0 /\ r.at <= Since(p) => Done(p, r)

(* After a reload in which no call failed, whatever earlier reloads left   *)
(* half done, the peers with a job, the rows of the peers table and the    *)
(* peers of the configuration that was read are the same.                  *)
ReloadSettles ==
    [][EndReload /\ reload.clean =>
         JobPeers' = Names(reload.cfg) /\ TablePeers' = Names(reload.cfg)]_peerVars

(* An article that a peer is to get is offered, deleted or one of the      *)
(* recorded cases in the end, although groups come and go under a sync,    *)
(* statements fail and the process restarts.                               *)
ArticlesGoOut ==
    \A p \in Peers, a \in Articles, g \in Groups, at \in 1 .. MaxClock :
        LET r == [art |-> a, group |-> g, at |-> at]
        IN  (r \in rows /\ Owed(p, r))
               ~> (r \notin rows \/ ~Owed(p, r) \/ Done(p, r))
=============================================================================
