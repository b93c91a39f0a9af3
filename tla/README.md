# A TLA+ model of renews

renews is an NNTP server: clients read and post articles, peers offer and
receive them, and a handful of background tasks purge, distribute, save and
reload. It is one tokio process over SQL databases. Nearly everything that is
hard to get right in it comes from one design decision: *no storage call is a
transaction*. A handler issues one SQL statement after the other, and
statements of other sessions, queue workers, the retention task and peer syncs
come in between. The models therefore take the single statement (or the single
hold of a lock, or the single queue operation) as their step, and let the tasks
interleave freely.

Paths below are relative to the repository (`src/src/...` is the server's own
code). `PROJECT.json` maps every definition that models code to its lines.

## 1. The system

| part | state | operations | talks to |
|---|---|---|---|
| article storage (`storage/`) | tables messages, group_articles, groups, overview | store_article, delete_article_by_id, purge_group_before, purge_orphan_messages, add_group, set_group_moderated, remove_group(s) and reads | every task holds a handle |
| queue and workers (`queue.rs`) | bounded flume channel, N worker tasks | submit, recv, process_article | sessions send, workers store |
| POST, IHAVE, TAKETHIS (`handlers/post.rs`, `streaming.rs`) | local to the session | validate, store (transfers), submit, reply | storage, queue, filters, control |
| default filters (`filters/`, `validation`) | none | header, size, group and moderation checks | storage (reads) |
| control messages (`control.rs`) | none | cancel (by key or admin), newgroup, rmgroup | storage, auth |
| retention (`retention.rs`) | none between sweeps | cleanup_expired_articles once an hour | storage, configuration |
| session loop (`lib.rs`, `session.rs`) | current group and article, user, flags | greet, one command at a time, idle timeout, end | every handler |
| WebSocket bridge (`ws.rs`) | one task per direction | relay, close | session loop |
| reader commands (`handlers/group.rs`, `article.rs`, `utils.rs`) | position of the session | GROUP, NEXT, LAST, ARTICLE/HEAD/BODY/STAT, OVER, HDR, XPAT, LIST ACTIVE, NEWNEWS | storage (reads) |
| usage limits (`limits/`) | connection counters, bandwidth accounts, row user_usage | try_connect, disconnect, check/record_bandwidth, load_user, persist | sessions, persistence task, auth database |
| peer synchronisation (`peers.rs`) | peers table with last_sync, job map | cron job: list, offer by IHAVE, update last_sync | storage (reads), scheduler, peers |
| start, reload, shutdown (`server.rs`) | `Arc<RwLock<Config>>`, TLS acceptor | start tasks, SIGHUP reload, drain | all tasks |
| configuration (`config.rs`) | the file's values | rule look-ups, sizes and durations, update_runtime | all tasks |
| articles on the wire (`parse.rs`, `handlers/utils.rs`), patterns (`wildmat.rs`), milter (`filters/milter.rs`) | none | read, parse, send, match, exchange | handlers, peers, filters |
| authentication, PGP, command line | – | see section 7 | – |

The hard behaviours, each listed at its line under "hazards" in
`PROJECT.json`:

- *statements that interleave*: two stores pick the same MAX(number)+1; a purge
  runs between the message and its rows; a cancel runs before the queued copy;
- *reads that are stale when used*: the worker's existence check, the sweep's
  group and id lists, NEXT's list of numbers, the account a session cloned out
  of the map before a login replaced it;
- *failures half-way*: a failing statement in a crosspost, in a sync, in a
  reload, in a range; a crash with articles in the in-memory queue;
- *waiting*: senders wait for room in the queue, workers for the configuration
  lock behind a waiting reload, holders of one pool connection for a second one,
  everyone for a client that does not read or a key server that does not
  answer; a map's shard lock may be held by the waiter;
- *departures*: clients that close, break or vanish behind the bridge, inside a
  command, an article or a login; a shutdown in the middle of it all;
- *edges*: the exact second of a cut-off or of last_sync, whole seconds in the
  database, counters that wrap, number 0 of an empty group, sizes near 2^64;
- *texts*: dots at the start of a line, bare line ends, quoted Message-IDs,
  brackets and backslashes in patterns.

What makes each part correct, and the properties that say so, is in section 4.

## 2. Modules

```
ArticleStore  <--EXTENDS--  ArticleFeed          (implements ArticleStore!StoreSpec)
     ^
PostgresStore <--  Storage                       (implements Catalogue, by INSTANCE)
PeerSync    ConnectionLimits    TaskLocks    ReaderSession    Bandwidth
Scanning  <--  Wildmat  <--  GroupRules, GroupListing  <--  Texts
Scanning  <--  ArticleText  <--  Texts;   Milter  <--  Texts
<Module>Proofs: the theorems about it;  MC<Module>: its instances for TLC
*.cfg: one per run
```

**ArticleStore** is what the storage trait promises when nobody coordinates its
callers. `op[t]` is the call task `t` is in: which statement comes next and the
local variables that later statements still use. `StoreArticle` is the INSERT
OR IGNORE of the message; `Continue(t)` then selects the number, inserts the row
and writes the overview line, newsgroup by newsgroup. The keys of
the schema are part of the statements (sqlx turns SQLite's foreign keys on): a
row whose number is taken or whose message has gone is refused, and with it the
rest of the store. `DbError` is a failing statement of any call,
`Restart` the loss of all calls in progress. SQLite has one writer at a time,
so that a statement is a step.

**PostgresStore** is the same trait on PostgreSQL. Each statement is a
transaction at READ COMMITTED: a DELETE picks its rows from a snapshot
(`PickRows`, `PickUnlisted`) and applies the deletion later, to those of them
that are still there (`ApplyRows`, `ApplyMessages`), so that the subquery `NOT
EXISTS (SELECT 1 FROM group_articles ...)` may be stale by then. What is left
between a reader and a listed article without a message is the foreign key
(`ForeignKeyHolds`). Inserts, updates and one-row reads keep ArticleStore's
actions.

**Storage** is the handle that `storage::open` returns, on either backend, and
**Catalogue** what a reader may count on, without tables or statements: an
article is listed only while it can be fetched, a number designates one article
as long as it is listed, an article is listed only in groups that a header
names, and it is never replaced. Storage implements Catalogue, with the join of
group_articles and messages as the listing (`ReaderSpec`).

**ArticleFeed** puts the server's writers on top of it: sessions with POST,
IHAVE and TAKETHIS, the queue, the workers, `handle_control`, and the sweep.
`job[t]` is where the handler of `t` is; while a multi-statement storage call is
under way the job waits for `op[t]`. flume keeps senders that found the channel
full in a FIFO behind it, so channel and waiting senders are one sequence whose
first `Capacity` items are in the channel, and `Sent` is possible once the
session's item is among them. Header checks, signatures, Cancel-Lock
arithmetic, dates and configured filters are predicates on articles
(`WellFormed`, `AdminSigned`, `Opens`, `Expires`, `FilteredOut`); the reads they
make of the database are steps. Two histories are added: `accepted`
(acknowledged commands) and `gone` (rows that were deleted).

**PeerSync** has the peers table, the scheduler's jobs, up to `Runs` syncs at
once, the world that stores and deletes articles, creates and removes groups
and edits the configuration file, and the SIGHUP handler call by call. A sync
reads last_sync (`StartSync`), then the names of the groups in one SELECT
(`ListGroups`), then the articles of each group on that list: a group created in
between is not on it. `jobs` is the manager's map,
`scheduled` what the scheduler really runs: a removal the scheduler refuses
leaves the two apart. Histories: `settled` (offered pairs) and `excused` (pairs
the code gives up; each action that gives something up says so, and a pair goes
when its row is deleted, so that an article stored again owes an excuse of its
own).

**ConnectionLimits** is the loop of `handle_client` from the greeting to the
release of the slot. `input[s]` is what follows the bytes the session has read:
more, the end of file, an error, or nothing at all. A plain connection that
breaks gives an error; behind the WebSocket bridge the error ends the feeding
task at `msg?` before its `shutdown()`, and the session is told nothing
(`Lost`). `read_message` knows neither the idle timeout nor the end of file
(`BeginArticle`, `EndArticle`). `try_connect` and `disconnect` are at the level
of the DashMap shard lock: a reference from `get()` keeps `readers` non-empty,
and `entry`, `remove` and `insert` need the shard to themselves. Counters are
modulo `Modulus`. Histories: `slot` (whose slot a connection took) and `upset`
(users to whom one of the documented miscounts happened).

**TaskLocks** keeps only who waits for whom: the fair tokio RwLock around the
configuration (a FIFO in which a waiting writer holds up the readers behind
it), room in the article queue, the connections of the pool with the loops over
a stream that need a second one, the outsiders a task waits for without a
timeout, and the main task that drains the queue at a shutdown. Such an outsider
is a client that stops reading (`GoDeaf`) or a key server that does not answer
while a signature is verified under the guard (`NoAnswer`); `silent` has the
tasks that wait for one. History: `owed`, the articles
acknowledged less those processed. The tracker of connections
(`server.rs:53-90`) is left out: no listener calls it.

**ReaderSession** has one session (sessions share only the tables) with its
position, the commands that read or move it, statement by statement, and the
other tasks as arbitrary inserts and deletes. `StoreRow` may use any free
number, since the SELECT of the number may be long past. Histories: `view` (the
position the replies tell the client), `shown`, `start`, `late` (the walk with
NEXT) and `steady` (rows there all through a range).

**Bandwidth** has one limited user. Accounts are a sequence of objects behind
Arcs, `current` the one in the map; a session clones the Arc in one step and
uses it under the lock in a later one. `WholeSecond` is what formatting a time
for the database does. History: `charged[w]`, the transfers charged at `w` or
later.

**Texts** runs the pure algorithms on every input up to a length; a behaviour
puts an input together piece by piece. The code scans a text in a loop over its
characters, and so do the models: *Scanning* has the loop (`Loop(step, start,
s)`, the state after the last character), and each scanner is a record of what
the loop keeps and a step per character. *Wildmat* translates a pattern into a
regular expression the way `pattern_to_regex` and `parse_class` do, with what
the regex crate makes of an empty or nested class, and defines beside it what a
pattern means: the text can be cut into what its atoms stand for.
*GroupRules* has the look-ups of `group_settings` and the parsing of sizes and
durations, in `Word` instead of 2^64. *ArticleText* reads, parses and sends
articles and brings Message-IDs into their form. *Milter* finds the response
that decides an exchange. *GroupListing* is what LIST ACTIVE and NEWNEWS show.
None of them has a RECURSIVE operator, so that they can be proved about.

## 3. Runs and bounds

Run a configuration with `tlc -config <cfg> <module>`.

| run | configuration | instance | shows |
|---|---|---|---|
| store | `Storage.cfg` | both backends, 2 tasks, 1 group, 3 articles (two with one Message-ID, one of them naming the group twice), 2 numbers, failing statements, restarts | the tables stay consistent whatever the callers do, and a reader sees the catalogue |
| feed_control | `FeedControl.cfg` | 2 sessions, 1 worker, sweep, 2 groups (one moderated, one with a retention of 1 s), an expiring article, a crosspost and six kinds of control article, queue of 1, 2 commands, 3 instants | acknowledged transfers are filed; the sweep deletes nothing that is current |
| feed_live | `FeedLive.cfg` | one article by POST and by offer, the cancel of it, queue of 1, 1 failing statement, 1 crash, with fairness | commands end, orphaned messages are reclaimed; the server only uses the store as ArticleStore says |
| feed_cancel | `FeedCancel.cfg` | an article and the cancel of it offered by two sessions | **violation**: a cancelled article comes back |
| peer_reloads | `PeerReloads.cfg` | 1 peer, 1 sync at a time, 3 instants, 2 changes of the file or of the groups, 2 reloads, 1 restart, 1 error, with fairness | nothing is skipped beyond the recorded losses; a clean reload repairs what a failed one left; articles go out |
| limits | `Limits.cfg` | 2 users with limit 2, 1 admin, 1 plain and 1 bridged connection, 3 logins, 1 broken connection, 3-bit counters, with fairness | slots are counted right but for the recorded cases; clients that leave are let go |
| limit_kept | `LimitKept.cfg` | limit 1, 3 connections, 4 logins | **violation**: more connections than allowed |
| task_locks | `TaskLocks.cfg` | 2 sessions, 1 worker, sweep, 1 reload, 1 shutdown, queue of 1, pool of 2, 3 commands, 1 client or key server that falls silent, with fairness | everybody who waits is served but for the stated exceptions, the shutdown ends, the drain loses little |
| reader | `Reader.cfg` | 2 groups, numbers 1–3, no other bound | walks and ranges are complete, client and session agree |
| bandwidth | `Bandwidth.cfg` | 2 sessions, limit 2, transfers of 1 and 2, 2 ticks a second, window of 2 ticks, 4 instants, 3 logins, 2 transfers | no copy of an account counts too much; refusals have a cause |
| texts | `Texts.cfg` | patterns up to 5 characters, 3 rules, numbers up to 4, heads up to 8 and bodies up to 6 pieces, Message-IDs up to 5, milter exchanges up to 6, words of 2^16 | the pure algorithms do what they should on all of them |
| listing | `Listing.cfg` | patterns up to 5 characters against two group names | **violation**: LIST ACTIVE and NEWNEWS do not show the groups that match |

Why these are enough. The races of the server are between two parties: two
stores, a store and a deletion, a sync and a store, a close and a login. Two of
each kind of actor show every such pair; the run limit_kept has a third
connection because going over the limit takes three. A queue of one makes
sessions wait, a pool of two lets two streams wait for each other; two numbers (three for a reader) give a position something
behind, at and ahead of it; a clock of two or three instants separates "before",
"exactly at" and "after" a cut-off. In bandwidth a second has two ticks so that
saving a window start really loses something. Errors are bounded by one per
run because a second one only shortens what the first has left. Where a bound
could hide something (more tasks, groups, connections or crashes, and syncs that
overlap; longer texts), the theorems of section 6 cover every value. Bounds are constants named in the modules
(`MaxNumber`, `MaxClock`, `MaxCommands`, `MaxErrors`, `MaxCrashes`, `MaxEdits`,
`MaxReloads`, `MaxRestarts`, `MaxLogins`, `MaxTransfers`, `MaxSilent`, `MaxLength`,
`Runs`, `Modulus`, `Word`).

Symmetry is used over sessions, tasks and groups in runs without liveness.
`TaskLocks.cfg`, `Limits.cfg`, `LimitKept.cfg` and `Texts.cfg` switch the
deadlock check off: the process ends there, the clients may stay away or have
left every session inside an article, and an input is complete at its length. In the other models something can
always happen (a read, a sweep, a new connection), so TLC's deadlock check alone
would say little; that no one is blocked is what the liveness properties are
for.

## 4. Properties

Each module of a state machine has one type invariant (that of TaskLocks is
part of its proof). The others:

*Storage, ArticleStore.* `NumbersUnique`: no interleaving gives one number of a
group to two articles. `RowsHaveMessages`: what GROUP lists ARTICLE can fetch.
`NumberKeepsArticle` (action property): while a number is listed it designates
the same stored article, also when another article with the same Message-ID is
stored. `ReaderSpec`: refinement of Catalogue, on both backends.

*ArticleFeed.* `TransfersKept`: a 235 or 239 to a peer means the article is
filed in every group it names until it is deleted there; peers do not offer it
again. `SweepSparesCurrent` (action property): a sweep deletes a row only if it
is past retention or expired at that moment, although it decides from old reads.
The one exception is stated in it: the sweep deletes by Message-ID, and an
article that has replaced the expired one since it was read goes instead of it.
`StoreSpec`: refinement. `CommandsEnd`, `OrphansReclaimed`: liveness.

*PeerSync.* `LossesExplained`: an article that a job of a peer should offer and
that last_sync has passed was offered, or is one of the listed losses.
`ReloadSettles` (action property): after a reload without error the job map, the
table and the configuration name the same peers. `ArticlesGoOut`: liveness.

*ConnectionLimits.* `SlotsExact`: the counter equals the slots in use, unless
one of the documented events happened to the user. `DeparturesNoticed`
(liveness): the session of a client that has left ends, gives its slot back and
lets the bridge go. The one exception is stated in it: a client that leaves
inside an article.

*TaskLocks.* `EveryoneFinishes` (liveness): no cyclic wait between sessions,
workers, sweep and reload, over the lock, the queue and the pool together. A
client that does not read or a key server that does not answer holds up only the
task that waits for it, with two exceptions (`Stalled`): a reload waits for the
guard that this task holds, and with it everyone who needs the configuration; or
no worker is left to empty the queue. `ShutdownEnds` (liveness). `DrainLosesFew`: a
drain that found the queue empty loses no article acknowledged by then, except
those the workers are at.

*ReaderSession.* `WalkComplete`: NEXT skips no article, although numbers are
listed in one statement, fetched in another and reused in between.
`ClientAgrees`: between commands the position is where the replies say it is.
`RangeComplete`: an article of a range that was there throughout is sent.

*Bandwidth.* `NeverOvercharged`: no copy of an account, wherever it is, counts
more than was charged since its window began. `RefusalsJustified` (action
property): a refusal has a live window whose charges and this transfer exceed
the limit.

*Texts.* `WildmatMeans`: the regular expression matches what the pattern means,
for well-formed patterns. `OrderIrrelevant`: exchanging two rules changes no
group's retention or size limit unless they are equally specific.
`UnitsExact`: a number with a unit is that many times the number, or refused.
`RelaysFaithfully`: an article relayed from server to server is read exactly up
to where it ends, keeps its lines and headers, and changes no more after the
first hop. `IdsSettle`: the form of a Message-ID is a fixed point after one
server. `MilterFailsClosed`: only acceptance, or consent to every command, lets
an article pass.

Each property of a passing run is paired in `PROJECT.json` with a changed
definition (a dropped clause, an off-by-one, a missing check; marked `Mutant` in
the modules) under which TLC finds it violated.

## 5. Fairness

- ArticleFeed: weak fairness of each session once a command has come in, of each
  worker and of the sweep. tokio polls ready tasks, the worker loop
  (`queue.rs`) runs until the channel closes, and the retention task repeats.
  Clients owe no commands; failing statements and crashes are not fair. The
  calls a handler makes to the outside are assumed to return here; what happens
  when a key server or a client does not is the subject of TaskLocks.
- PeerSync: weak fairness of each sync under way and of a reload; strong
  fairness of "some run of the job of this peer starts", since cron fires a job
  again and again and only the bound `Runs` can be in the way now and then. This
  assumes that a peer answers or its connection breaks: the code has no timeout
  there.
- ConnectionLimits: strong fairness per connection of the steps inside the
  tracker: a waiter for a shard lock gets it if it is free again and again,
  since no holder waits for anything. Weak fairness of what a session does
  without its client: it greets, notices the end of its input, and its idle
  timer fires (`tokio::time::timeout` around the read). Clients owe nothing.
- TaskLocks: weak fairness per task. A granted lock is the head of a FIFO, so
  nothing stronger is needed. A wait for a connection of the pool ends by sqlx's
  acquire timeout, and the main task's loop looks at the queue and its clock
  again and again. Database calls return. A client reads and a key server
  answers unless it has fallen silent for good, which is an action that may
  happen whenever one is waited for: neither `write_simple` nor `discover_key`
  has a timeout. Commands and signals are not assumed.

## 6. Proofs

`tlapm <module>` checks them. The theorems hold for every value of the
constants that satisfies the named assumptions of the component's module
(`StoreAssumption`, `FeedAssumption`, `PeerAssumption`, `LimitAssumption`,
`LockAssumption` and the like: the shapes of the
headers and tables, disjoint task names, finite sets where something is counted, special values outside the sets they
are used with, bounds that are natural numbers). TLC evaluates those assumptions in every
run.

**StorageProofs**, ArticleStore. The induction is over `StoreTypeInv`: `StoreTypeOK` and
`CursorInRange` (a store in its loop points at a newsgroup the article has;
without it the new row would have no type).

- `StoreTypeCorrect`: `StoreTypeOK` always holds.
- `ArticleNumbersUnique`: `NumbersUnique`. Inductive given the types; the
  argument is the primary key in `Accepts`, not the SELECT.
- `ListedArticlesExist`: `RowsHaveMessages`. A row is inserted only while its
  message is there, and every statement that deletes messages leaves the listed
  ones (`DropUnlisted`).
- `ListedNumbersKeepArticle`: `NumberKeepsArticle`, from the two before it.

**ArticleFeedProofs.** `FeedTypeInv` is `StoreTypeInv`, `FeedTypeOK`, the flags
of queued items, `ControlJobs` (only control articles are in the control stages)
and `TimesBounded` (what the sweep remembers is not after the clock, so the
bound it passes to a purge is one ArticleStore allows).

- `FeedTypeCorrect`: `FeedTypeOK`.
- `FeedRefinesStore`: `FeedSpec` implements `StoreSpec`. Each action of the
  server is a call, a continuation, an error, a restart, a tick or a stutter of
  ArticleStore.
- `ServerTablesConsistent`: the three table properties therefore hold of the
  whole server.
- `AcknowledgedTransfersKept`: `TransfersKept`. The invariant adds
  `Progress(s)` for every session: how much of the transfer in hand is filed, at
  each stage of the store and of the queueing. It says that newsgroups before
  the cursor are filed while the store is in its loop, that all are filed once
  the call has returned `ok`, and that they stay so up to the reply. Without it,
  nothing ties the reply to the statements.

**PeerSyncProofs.** `PeerInv` is `PeerTypeOK`, `LossesExplained` and:
`RunsCover` (a sync of the current job has, for each row it owes, settled it,
excused it, listed it, or not yet listed its group with a bound that will
include it, the group being on its list or the list not yet made),
`NamelessExcused` (a row whose group is not in the table, so that a sync's list
of the groups will not have it, is excused), `NoJobExcused` (rows that last_sync has passed while a peer has no
job are excused, so that a later job owes nothing unexplained), `JobsDistinct`
(two jobs never have the same identity, so a sync of a removed job is not taken
for one of its successor) and `ReloadShape` (what the loops of a clean reload
have done so far).

- `PeerTypes`: `PeerTypeOK`.
- `LossesExplainedHolds`: `LossesExplained`, for any number of peers, groups,
  overlapping syncs, reloads and restarts, with groups created and removed
  between any two of their statements.
- `ReloadSettlesHolds`: `ReloadSettles`.

**StorageProofs**, both backends. What a statement of either backend does to the tables is one
of four effects (`Effect`: rows dropped, a row inserted, a message inserted,
messages dropped), and the table properties follow from these alone. The
invariant `TableInv` adds to the types and `RowsHaveMessages` that a message is
filed under its own Message-ID (`FiledById`), which ties what a reader is shown
to the header that names the group.

- `StorageTypeCorrect`, `StorageNumbersUnique`, `StorageListedExist`,
  `StorageNumbersKeep`: the properties of ArticleStore on both backends.
- `BackendsImplementCatalogue`: `StorageSpec` implements `CatalogueSpec`.

**ArticleFeedProofs**, further: `SweepIsSafe`: `SweepSparesCurrent`, from an
invariant about what the sweep has read: the article whose Expires it looked at
had expired then, and the clock does not go back. Nothing is assumed about
articles that share a Message-ID, which may expire at different times; whether
the article there at the deletion is still the one that was read is the third
case of the property.

**ConnectionLimitsProofs.** `LimitInv` is the types, `SlotsExact`, `Named` (a
session on its way through login or close has a name) and `CarriedOnce` (at most
one close carries a user's counter, unless the user is upset).

- `LimitTypeCorrect`: `LimitTypeOK`. `SlotsExactAlways`: `SlotsExact`.

**BandwidthProofs.** `BandwidthInv`: every copy of the account (in the map, held
by a session, being written, saved) is `Fair`, its window has begun and it
counts at most what was charged since; and `charged` is `Antitone`, the larger
the earlier the window, so that a copy whose window start was rounded down stays
fair.

- `BandwidthTypeCorrect`, `NeverOverchargedAlways`.
- `RefusalsJustifiedAlways`: `RefusalsJustified`, for a period other than zero.
  With a period of zero the window would have to be renewed at every check and
  the formula does not hold.

**ReaderSessionProofs.** `ReaderInv` adds `AheadLate` (between the statements of
NEXT only late articles lie between the position and the number in hand),
`FetchOrdered` (a range is read in ascending order and the position is at the
last article found) and `ViewCurrent`.

- `ReaderTypeCorrect`, `WalksComplete`, `ClientAlwaysAgrees`, `RangesComplete`.

**TaskLocksProofs.** `LockInv` has the types, who may be where, the line for the
lock, and `Balanced`: acknowledged articles not yet processed, plus those queued
but not acknowledged, are the queued ones plus those the workers are at.

- `DrainKeepsAcknowledged`: `DrainLosesFew`.

**TextsProofs.** The properties of Texts, and behind each of them a theorem that
does not know the bounds or the alphabet of the run: any text over any set of
characters that has the ones the code tells apart (`CharAssumption`).

*Induction over data.* The library's induction theorems take an operator, which
the provers cannot instantiate. The proofs take a set instead: a non-empty set
of naturals has a least member (`Least`, from the well-foundedness of the proper
subsets of finite sets), so a set of texts that has the empty one and is closed
under appending a character is all of them (`SeqInduction`). From this, `Loop`
has a run over every text (`LoopRuns`), a step at the end is a step of the state
(`LoopAppend`), and a loop over `s \o t` goes on over `t` where it stopped
(`LoopConcat`). Every theorem about a scanner is then an invariant of its loop.

- `WildmatExact` (and `PatternsMean` for `WildmatMeans`): for every well-formed
  pattern and every text on one line, `wildmat` is `Matches`. However
  the pattern is cut into parts, the loop of `pattern_to_regex` is done with an
  atom at every cut (`AllBetween`), that atom takes what the part stands for
  (`ScanPart`), and the positions that `IsMatch` reaches are the ends of the ways
  to cut the text so far (`EndsPath`). Texts with a line feed are left out, since a
  dot of the regex crate does not match one, and so are the characters that the
  crate takes for itself in a class (`ClassMeta`).
- `OrderNeverDecides` (`IrrelevantOrder`): any list of rules, any group. The
  rule that is chosen is the first in a total order, and the exchange of two
  neighbours moves no tied pair.
- `UnitsWorth` (`ExactUnits`): any text, any factor the code knows. What
  `parse_size` reads in front of the unit is what it reads without it, whatever
  blanks surround it, `checked_mul` is the product or nothing, and a bandwidth
  limit of zero is taken for no limit, never for zero bytes.
- `IdsFixed` (`SettledIds`): any text in angle brackets whose unescaped form has
  a domain. Unescaping undoes escaping of the two sides of the first `@`; the
  quotes are there whenever a character needs them (`AtomAssumption`: what is
  left bare is none of the characters the scanner treats specially).
- `RelayExact` (`FaithfulRelays`): any accepted article without a header name
  that begins with two dots, and anything behind it on the connection. The
  reader's loop gives the sent lines back one by one; no sent line is the dot
  alone before the last one; the parser finds the same names, and values it
  leaves alone from then on; lines that `str::lines` gives have no line feed.
  The Message-ID, which parse_message and escape_message_id_header rewrite at
  each hop, is the subject of `IdsFixed`.
- `ClosedMilter`: `MilterFailsClosed`, for any number of headers
  (`HeadersAssumption`) and any events.

The assumptions besides: `NotValues` (None and an error are no number and no
text) and `WordAssumption` (a word has a value).

All invariants, action properties and refinements that the passing runs check
are thereby proved. *Only model-checked* is what needs fairness: `CommandsEnd`,
`OrphansReclaimed`, `ArticlesGoOut`, `DeparturesNoticed`, `EveryoneFinishes` and
`ShutdownEnds`. Liveness and ENABLED are out of the prover's reach.

## 7. Not modelled

- PGP signatures, Cancel-Lock hashes, dates: predicates on articles or left out.
  Of key discovery only its silence is modelled (TaskLocks), not the request nor
  the key that is stored after it.
- The wire format of the milter's frames, and the factory of configured filter
  chains: the chain it builds runs in no handler (section 8).
- LISTGROUP, NEWGROUPS, the other LIST commands, CAPABILITIES and the like,
  which change no state.
- Command lines, dates, the generation of missing headers; TLS.
- Placeholders and defaults of the configuration file, the command line tool
  (`main.rs`), and the account-management functions of the auth databases, all
  single statements on rows that nothing else in the models reads.
- Character ranges and set operators inside a class of a pattern. TLC runs the
  algorithms on the few characters they tell apart; the theorems have any.
- Two edges that `RelaysFaithfully` and `IdsSettle` leave out, since the code
  does not handle them: a header name that begins with two dots (`send_headers`
  does not stuff), and a Message-ID without a domain or with quotes or comments
  in its domain, whose form changes with every server.

## 8. Where the code differs from what the repository says

With a run that shows it:

- *A cancelled article comes back* (feed_cancel). IHAVE and TAKETHIS store the
  article and also queue a copy (`handlers/streaming.rs:93`). If a cancel is
  processed before a worker takes the copy, the worker finds the article absent
  and stores it again. `tests/integration/control.rs:89-95` asserts that it is
  gone.
- *A user gets more connections than allowed* (limit_kept). `disconnect` removes
  the counter, sees that it is not zero and puts it back
  (`limits/tracker.rs:168`); a login in between starts from zero and is then
  overwritten. `tracker.rs:115-116` says try_connect refuses beyond the limit.
- *LIST ACTIVE and NEWNEWS match the wrong way round* (listing).
  `handlers/group.rs:228` and `:205` pass the group's name as the pattern and
  the client's pattern as the text of `wildmat(pattern, text)`
  (`wildmat.rs:4`): `LIST ACTIVE *` shows nothing, and only a pattern that is a
  group's whole name finds that group.

Met while modelling and visible in the models (an `excused`, an `upset`, an
"Unknown" or a comment marks the place), without a run of their own:

- Two workers with copies of one article both find it absent and file it twice
  (`queue.rs:216`: "to avoid duplicates").
- A POST answered 240 is only in memory: a crash, or an orphan purge between
  statements of the worker's store, loses it. `TransfersKept` is about peers
  only for this reason.
- An error in a control message leaves the handler without a reply.
- POST, IHAVE and TAKETHIS queue articles as already validated, so the
  configured filters of the worker never run (`docs/milter.md:59`).
- A full queue makes the sender wait; `queue.rs:46-47` documents an error.
- A peer sync skips for good what is stored while it runs, in a group created
  after its list of the groups too (`peers.rs:542`), what fails to transfer, and
  the groups after an error; an article filed in a group that has just been
  removed is listed by no sync (`docs/architecture.md:111`,
  `docs/task-interactions.md:202`); these are the excuses of `LossesExplained`.
- A reload leaves a peer's job with its old patterns
  (`docs/task-interactions.md:303`), reads the file twice (`:302`), and the TLS
  listener keeps its first acceptor (`docs/configuration.md:269`; `serving`).
- A close between the removal and the put-back of a counter is lost, and a
  broken connection keeps its slot (`lib.rs:135` returns before the release at
  `lib.rs:195`): the user may be refused below the limit.
- load_user at every login replaces the account in use by the one last saved:
  usage since then is forgotten. Check and charge are separate, so parallel
  sessions overshoot the limit. update_defaults, invalidate_limits_cache and
  reset_usage are called by nothing.
- LAST at the first article answers 223 with that article; NEXT answers 421
  once the current article has been deleted; OVER and HDR ":" move the position;
  a failing statement in a range is answered 423 although the position moved.
- LIST ACTIVE and NEWNEWS hold one pool connection while they take another: with
  as many of them as the pool has connections, each waits for the acquire
  timeout and ends without the rest of its reply.
- A client that leaves inside an article leaves its session in `read_message`
  for ever, where neither the idle timeout (`README.md:115`,
  `docs/configuration.md:34`) nor the end of file is seen; at the end of file the
  loop spins. A WebSocket error skips `nntp_write.shutdown()` (`ws.rs:91`), so
  that the session stays until its idle timer.
- The shutdown (`docs/architecture.md:17` "Graceful shutdown") does not see the
  articles the workers are at, nor those acknowledged after its last look; the
  ConnectionTracker (`server.rs:53-90`) reaches no listener, so that clients are
  served until the process ends and none is waited for.
- The sweep reads an article and then deletes by its Message-ID
  (`retention.rs:109`): if the expired article was cancelled and another one
  stored under its Message-ID in between, that one is deleted.
- Rejections are written under the configuration guard
  (`handlers/streaming.rs:72`), and so are keys requested from key servers
  (`control.rs:151`, called under the guards at `queue.rs:182`,
  `handlers/streaming.rs:45` and `:67` and `handlers/post.rs:89`), without a
  timeout: after a SIGHUP, one client that does not read or one key server that
  does not answer holds up the reload and every reader of the configuration
  behind it. Key servers that keep all workers waiting leave the queue full.
- Milter: the timeout covers only making the TCP or Unix connection
  (`docs/milter.md:97`), neither the TLS handshake (`filters/milter.rs:176-184`)
  nor the responses; a milter that closes right after accepting makes QUIT fail,
  and the article is refused.
- Configuration: an invalid duration silently becomes "no period", an invalid
  size is an error; "0s" is a period of zero seconds while "0" is none; of
  several rules for one group only the first is looked at.
  `docs/configuration.md:194` excludes groups from a peer with "!", which
  `peers.rs:546` does not know.
- `storage::open` takes `postgres:` URIs only; the error text in
  `storage/postgres.rs:30` says `postgresql://`.

## 9. What is left

Everything planned is modelled: the store on both backends with its abstract
specification, the feed, the peers, the sessions with their limits, the lock
order with the pool and the shutdown, the reader, the bandwidth accounts and the
pure algorithms; every safety property is proved. What could
be added:

1. Two overlapping syncs in a run with fairness (`ArticlesGoOut`); the safety
   side is proved for any number of them, the instance takes TLC too long.
2. A silent peer: `ArticlesGoOut` assumes that a peer answers or its connection
   breaks, since the code has no timeout there.
3. The configuration file changing between the two reads of one reload
   (`server.rs:840`).
4. The auth databases' account tables, once something besides the command line
   writes to them while the server runs.
