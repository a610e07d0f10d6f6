# TemporalDB in TLA+

TLA+ modules, TLC runs and TLAPS proofs for TemporalDB, a bitemporal document
database: an append-only event log in SQLite, a `live` table with the current
documents, a small query language (TQL) over HTTP, and a backup made of a
shipped event stream and periodic snapshots.

`PROJECT.json` maps every definition to the source lines it models, and lists
the runs, the mutants that show each property can fail, the hazards and the
theorems.

## 1. Inventory

| Component | State it keeps | Operations | Correct when |
|---|---|---|---|
| temporal rule (`internal/temporal`) | none | `Encode`, `Parse`, `Visible` | a query at a pair of instants picks one version, the same one from any order of the versions |
| event store (`internal/event`) | tables `events` and `live`, a mutex | `Append`, `Get`, `History`, `AsOf`, `ReplayAsOf`, `After`, `RestoreEvent` | `live` is each document's last commit; a seq names one event; commit times follow seq; past views do not change |
| storage (`internal/storage`) | the SQLite file, `sqlite_sequence` | open, migrate | transactions are atomic and survive a crash |
| shipper (`internal/backup/shipper.go`) | `lastSeq` | `Run`, `shipOnce` | every commit reaches the stream once and in order |
| snapshotter (`snapshot.go`) | a temporary file | `Snapshot` | a snapshot's name describes its contents |
| file sink (`sink.go`) | `events.ndjson`, `snapshots/`, a mutex | `WriteEvents`, `WriteSnapshot`, `Purge` | writers and the rewriting PURGE lose nothing of each other's |
| restore (`restore.go`) | none (reads files, writes a new database) | `Restore`, `LastShippedSeq` | the result is the original database at an earlier commit, and can take its place on the same backup |
| purge (`tql/executor.go`) | none | `execPurge` | old log rows go, current documents stay, here and in the backup |
| server process (`cmd/temporaldb-server`) | the goroutines | start, snapshots, shutdown | background work goes on as long as the server serves |
| retention sweep (same file) | a collection list and a cutoff | `runRetention` | what is old goes, what is young stays, in the log and in the stream |
| TQL text (`lexer.go`, `parser.go`) | none | `tokenize`, `Parse`, `ParseBatch` | every statement of the grammar is accepted as itself, nothing of an accepted text is ignored |
| TQL executor (`executor.go`, `compile.go`, `match.go`) | none | one method per verb, WHERE by SQL and by Go | the two evaluators agree |
| graph (`internal/graph`) | edges, as events of one collection | `Relate`, `Unrelate`, `Related`, `EdgeTypes` | traversal now and AS OF see the edges of that instant |
| vector search (`internal/vector`) | a Qdrant collection | `Upsert`, `Search` | hits that are stale are not returned as documents, pages miss nothing |
| HTTP server (`internal/server`), Go client (`client`) | the batch under way, its results | `handleQuery`; `Query`, `one`, the typed calls | a batch's committed prefix is reported as such; a key arrives as itself |
| CLI, MCP server | none | `execAndPrint`; the tools | no front end claims more than was done |
| configuration | none | `Load` | - |

How they interact. A client sends a batch of lines and waits 30 s;
an HTTP handler parses all of it, then runs the statements in turn, each in its own
transaction, concurrently with the other handlers; every write
goes through `Store.Append`, which holds `Store.mu` for the whole transaction.
Readers, `PURGE`, the shipper's `After` and the snapshotter's queries use other
connections of the pool and never take `Store.mu`. The shipper, the snapshotter
and `FileSink.Purge` share `FileSink.mu`; the shipper takes it after it has
read its batch, the snapshotter after `VACUUM INTO`, and `PURGE` after its
DELETE has committed. The retention sweep runs PURGE statements of its own beside the
clients'. Restore runs in another process on the sink's files.

What is hard. Writers that race for the clock and the mutex; two orders (seq
and valid_from) that must not be confused; the two-statement snapshot; the
rewrite of the stream under a running shipper; a crash between any two of
these steps; a stream that ends in half a line; `PURGE` removing the rows that
seqs and snapshot names are computed from; a client that gives up while its handler
goes on; a batch that stops half-way; an index that drifts from the documents. `PROJECT.json` lists each hazard at
its line.

## 2. Modules

    Temporal        the event record, Visible
      EventTables   the two tables and the SQL statements, as operators on sets of rows
        EventLog    the abstract log: atomic appends, purges, a clock
          EventLogProofs      its invariant, and the lemmas the other proofs share
          EventStore          internal/event as its goroutines run it; implements EventLog
            EventStoreProofs  theorems
            MCEventStore      instance for TLC
            Service           client, HTTP handlers and front ends around EventStore
              ServiceProofs   theorems
              MCService       instance for TLC
          Backup              shipper, snapshotter, sink, PURGE, sweep, crash and restart
            Restore           backup.Restore as an operator, and what a backup promises
              MCBackup        instances for TLC (the four findings about the backup)
              Recovery        a restored database becomes the primary
                RecoveryProofs theorems (over BackupProofs)
                MCRecovery    instance for TLC
              Retention       fairness, the sweep's promises; implements Replica
                BackupProofs  theorems about Backup, Restore and Retention
                MCRetention   instance for TLC
          Graph               internal/graph: edges as documents of the log
            GraphProofs       theorems
            MCGraph           instance for TLC
    Replica         the abstract copy of a log
    Induction       least numbers, induction and recursion, for EventLogProofs and FindProofs
    Find            WHERE, ORDER BY, LIMIT and OFFSET, by SQL and by Go
      Search        the vector index and SEARCH
        FindProofs  theorems about WHERE, ORDER BY, pages and SEARCH
        MCFind      instances for TLC
    Tql             lexer, parser, ParseBatch, the client's texts, the README's grammar
      MCTql         instance for TLC

**Temporal.** An instant is a natural number, 0 being Go's zero `Time`. The
encoding in `temporal.Encode` is fixed-width so that the order of the strings is
the order of the instants, and nothing else about an instant is used. A value
stands for the document and its `meta` column, which every statement writes
together. `Visible` returns the set of the last candidate, empty for `ok = false`.

**EventTables.** A row of `live` has the columns of its event (`deleted` is
`op = OpDelete`), so one record type serves both tables. `Row` is the row
`Append` inserts, `Upsert` and `UpsertIfNewer` are the two `ON CONFLICT`
clauses, `DeleteBefore` is `PURGE`, `History` is HISTORY ... BETWEEN.

**EventLog.** `events`, `live`, `autoinc` (`sqlite_sequence`), `now` (the wall
clock) and `committed`, a history variable with every row ever committed. It is
the promise of the event store and the database `Backup` runs on.

**EventStore.** Adds `mu`, and for every writer its place in `Append`, its
request and its `txTime`. `Call` enters `Append` after its argument checks;
`Lock` takes the mutex and reads the clock; `Commit` and `Fail` end the
transaction and run the deferred `Rollback` and `Unlock`. The insert and the
upsert are one step because no other connection sees an open transaction and a
failure or a crash undoes both; the rollback undoes the AUTOINCREMENT too.
`ExecPurge` needs no mutex, as in the code. `Crash` keeps the tables.

**Service.** `client` (requests so far, waiting or not), `net` (requests not yet
taken), and `handler`, the locals of `handleQuery` in each of EventStore's writers: the
request, the statements left, the response so far. `Send` is `Query`'s request,
`Timeout` its giving up (30 s, a cancelled context or a broken connection), after which
nothing stops it from sending again. `Accept` parses the whole text; `ExecWrite`,
`LockStore`, `CommitWrite` and `FailWrite` run a write through EventStore's own
actions; `ExecRead` and `FailRead` run a read; `Reply` is `writeJSON`, unseen by a
caller that has given up. `Die` loses handlers and untaken requests. A result stands
for the row it is about. `Query`, `One` and `TqlQuery` are what the client, its typed
calls and the MCP tool make of a response. `sent`, `answers` and `origin` are history.

**Backup.** `stream` is the set of lines of `events.ndjson`, each with its place
in the file; `torn` says the file ends in part of a line, which every reader
fails to decode. `shipOnce` is `ShipRead` (After), `ShipLock`, one `ShipWrite`
per line, `ShipDone`; any error is `ShipFail`, after which `Run` has returned for
good. `Snapshot` is `SnapCount` (MAX(seq)), `SnapName` (the current second),
`SnapVacuum`, `SnapCreate` (the destination exists and is incomplete),
`SnapDone`; `SnapFail` may happen at each of them. `PURGE` is `PurgeDelete`
(the DELETE), `PurgeFilter` (the lines not before the cutoff, of any
collection, to a temporary file), `PurgeRename`, or `PurgeFail`; a client and the
sweep may each be in one. The sweep is `SweepList` (the collections), `SweepCutoff`
(the clock, read after the list), one `SweepPurge` or failing `SweepSkip` per
collection, `SweepDone`. `Restart` resumes at `LastShippedSeq` and is impossible with a
torn stream, because `run` returns the decoding error.

**Restore.** `RestoreTo(target)` is the set of outcomes of `backup.Restore` on
the files as they are: it chooses the snapshot as `latestSnapshotBefore` does,
reads the lines above its seq, and folds `RestoreEvent` over them in file order.
A destination that `copyFile` has just created is an empty file, which SQLite
opens as an empty database; one that stops later does not open. Both outcomes
are in the set.

**Recovery.** Adds one action: after a crash the operator restores to a target and
starts the server on the result with the same backup directory. What was committed and
is not restored is lost (`committed` forgets it). `past.clean` remembers whether all
recoveries were `Faithful`: to the latest state, from sound snapshots, and with no
snapshot left in the sink that knows of higher seqs than the new primary.

**Retention.** The fairness of the background goroutines and what follows from it, and
the refinement of `Replica`: `log` is what was committed, `copy` the shipped lines,
`cutoffs` the instants PURGE statements named.

**Graph.** Edges are documents of the collection `__edges__`, written through
`EventLog`. A value is the row's `meta` and `value` together; the key is the
triple (from, type, to) itself, which is what a collision-free hash of the
length-prefixed parts gives. `Related` is the SQL over `live` in seq order,
`RelatedAsOf` the replay with the filters in Go, in the order of the hashed keys
(`KeyRank`, any order). `graph` and `past` are history variables: the edges that
`RELATE` and `UNRELATE` should leave now, and after each commit. `PutRaw` and
`DeleteRaw` are ordinary statements on the edge collection, under keys of the
client's own or the key of an edge, which they replace or remove. One commit is one step here, which is what
`ImplementsEventLog` justifies.

**Find.** A document is what one field path holds in it: nothing, null, a boolean, a
number, a string or an array. `compile.go` is `CompileTerm` and `ExecFind`, on what
`json_extract` yields (a storage class and a place in it); `match.go` is `MatchTerm`
and `ExecFindAsOf`. SQL may return rows that compare equal in any order, so
`ExecFind` is a set of answers; `sort.SliceStable` is an insertion sort on the up to
20 rows it takes as one block, and `Insert` is one step of it. (Beyond that it merges
sorted blocks; where the comparison is a strict weak order, as on uniform fields, a stable
sort has one result.) `Collect` is the loop that goes through rows and appends those it
keeps, as `execFindAsOf`, `execSearch` and `Index.Search` have it. `Float` is the
rounding of an operand to float64, with `Exact` standing for 2^53. That the two start from the
same documents is `LiveAgreesWithReplay`.

**Search.** `points` are the keys that have a point in the Qdrant collection, `Foreign`
a point without a key in its payload. Any order of the points may be the order of their
scores. Documents change without the index and the index without the documents.
`ExecSearch` is `execSearch` over `Index.Search`; `DefaultLimit` stands for its 10.

**Tql.** A text is a sequence of symbols: characters, except that a run of letters is
one word and a JSON object one symbol (`"{"` alone is a broken one). `Lex` is
`lexer.next`; a parser is the tokens left and the statement so far, and one operator
stands for each `parse...` function. `Init` writes every statement of the instance in
every way the grammar of the repository's README allows (`Grammar`, stated as sets of
token sequences and independent of the parser), and every text the client's typed calls
send for a key; the actions are slips of the keyboard. `Marshal` and `Unescape` are
`encoding/json` on strings.

Abstractions to know about. `Backup` uses a clock that only goes forward. A client has
one `PURGE` under way at a time there: two of them share nothing but the sink's
mutex, and their filters commute. Graceful shutdown has no action of its own; it stops
the same goroutines at a subset of the points where `Crash` stops them.

## 3. Runs

Bounds: `MaxSeq` commits, `MaxTime` clock values, `MaxSnapshots`, `MaxPurges`,
`MaxCrashes`, and `Faults`, the set of failures that may happen. Cutoffs reach
from before everything to after everything.

| Run | Checks | Bounds and why they are enough |
|---|---|---|
| `store_bitemporal` | `TypeOK`, `TxTimeFollowsSeq`, `LiveAgreesWithReplay`, `HistoryExplainsAsOf`, `AuditViewStable`, `ImplementsEventLog` | two writers (every race is between two), one document, 3 commits at 3 instants, so that a valid time can be before, between and after the others; puts AT any instant, deletes, every cutoff |
| `service` | `ServiceTypeOK`, `LiveIsLatest`, `SeqNamesOneEvent`, `BatchPrefix`, `AnswersTellTruth`, `ReadYourWrites`, `HandlersEnd` | two clients and two handlers, two requests in all (one caller can ask twice, or two at once), batches of one and two statements of every kind, 3 commits, a purge, a clock that may be set back, a server that may die |
| `recovery` | `TypeOK`, `StreamAscending`, `RecoveryFitsStream`, `RestoreIsPrefix`, `RestoreSucceeds` | 2 commits, 2 snapshots (Restore has to choose), a purge, a crash, all faults of shipper, snapshotter and purge; a recovery to any target, after which commits and shipping go on |
| `retention` | `RetentionKeepsYoung`, `EventuallyShipped`, `OldEventsGo`, `StreamIsReplica` | two collections (a statement for one prunes the lines of the other), 2 commits, 3 instants with a retention of 1 (an event can be young, at the edge and old), failing DELETEs, a crash |
| `graph` | `TypeOK`, `RelatedIsGraph`, `RelatedAsOfIsPast`, `PagesAddUp` | two nodes and two types (8 triples, self-loops and both directions among them), raw statements on an edge's key and on another, 3 commits at 2 instants, every cutoff: an edge can be made, removed and made again, and two commits can share an instant |
| `find` | `WhereAgrees`, `OrderAgrees`, `SearchAgreesWithFind`, `SearchPagesAddUp` | 3 documents (a page can have rows before and after it), every kind of JSON value against every operator and kind of operand, an integer float64 cannot hold; every set of indexed keys, a foreign point, every order of relevance |
| `tql` | `GrammarParses`, `NothingIgnored`, `BrokenLineRunsNothing`, `ClientKeysArrive` | every verb, its clauses alone and in pairs, names that are keywords, every place for an inserted, dropped or swapped symbol and for a line break; every key of up to 3 of 15 symbols |

The `Backup` runs do not check deadlock: a server whose stream is torn stays down, and
the bounds end the others; `service` ends when the clients have sent what they may, and
`tql` after one slip. The others do.

What the properties say:

- `TxTimeFollowsSeq`: no later commit has an earlier `tx_time` while the clock
  does not step back. Dropping the mutex breaks it.
- `LiveAgreesWithReplay`: in a collection written without AT and not purged, GET
  and FIND from `live` (decided by seq) and AS OF now by replay (decided by
  valid_from) give the same documents.
- `AuditViewStable`: what `Visible` answers with a `tx_time` cutoff at a settled
  instant, for any valid time, changes only by `PURGE`. An instant is settled
  when it is past and no writer that holds the mutex was stamped at or before it.
- `ImplementsEventLog`: `EventStore` implements `EventLog`; the variables of the
  log are the store's own, so the refinement mapping is the identity.
- `HistoryExplainsAsOf`: HISTORY ... BETWEEN lists the row of every GET ... AS OF answer,
  and a version or a delete for every instant at which the answer changes.
- `LiveIsLatest`, `SeqNamesOneEvent`: hold even when the clock is set back.
- `BatchPrefix`: whatever fails, times out or dies, a request leaves the first writes of
  its batch in the log, once each and in order.
- `AnswersTellTruth`: results name the rows that their statements committed; no error
  means all of them, and `Query`'s results with an error are all that ever commits of the
  request. A late commit after the answer, or a result for a statement that was rolled
  back, would break it.
- `ReadYourWrites`: after a caller was told of a put, its reads never return an older
  version.
- `HandlersEnd`: every handler returns, whatever error path it takes.
- `StreamAscending`: across crashes, partial batches, the rewriting `PURGE` and
  recoveries, the stream is in commit order and repeats nothing.
- `RecoveryFitsStream`: as long as recoveries were faithful, the stream has no
  gap below the point the shipper has reached or would resume from (`NothingSkipped`),
  and without a PURGE the database holds all that is committed.
- `RestoreIsPrefix`: without purges and partial copies, a restore that succeeds is
  exactly the first n commits and their live rows, and misses no shipped event up
  to the target. `RestoreSucceeds`: purges never make a restore fail.
- `RetentionKeepsYoung`: the sweep's cutoff, however old when it is used, takes nothing
  younger than the retention period, from the log or from the stream.
- `EventuallyShipped`: every commit reaches the stream unless a PURGE reaches its commit
  time first. `OldEventsGo`: no failing, dying or overtaken sweep leaves an old event for
  ever.
- `StreamIsReplica`: shipper, sink, PURGE, sweep, faults and crashes implement `Replica`:
  the stream changes only by the next event in commit order, passing over none that no
  PURGE reached, or by losing the lines before a named cutoff.
- `RelatedIsGraph`: RELATED, in each direction and for each list of types, gives the
  edges that RELATE and UNRELATE left, whatever else is written to the collection or
  purged from the log.
- `RelatedAsOfIsPast`: RELATED AS OF gives the edges of that instant, as long as the
  versions of that time are in the log (`KeptAt`).
- `PagesAddUp`: LIMIT and OFFSET cut both answers into full pages without gap or
  overlap.
- `WhereAgrees`: FIND and FIND AS OF now keep the same documents, for the
  comparisons in `Covered`. `OrderAgrees`: where the field is a number, or a string,
  in every document, each page that Go filters by such a comparison, sorts and cuts is
  one that SQL may return.
- `SearchAgreesWithFind`: whatever the index holds, SEARCH returns the documents that
  FIND returns, as far as they are indexed and the default limit reaches.
  `SearchPagesAddUp`: its pages together are all of them, in relevance order.
- `GrammarParses`: every statement, in every way the grammar allows, parses to itself.
  `NothingIgnored`: after any slip the text is refused, or its tokens are a way to write
  what was returned. `BrokenLineRunsNothing`: a statement broken over two lines runs
  whole or not at all.
- `ClientKeysArrive`: a key passed to the client reaches the server as that key or the
  call fails, and the keys for which it fails are known.

### Fairness

`Service`: a handler that can go on does (weak fairness of its steps: `busy_timeout`
bounds the wait for SQLite, and net/http runs every handler), and one that waits for the
store's mutex gets it (strong fairness of `LockStore`: Go's `sync.Mutex` hands over to a
waiter it has starved for a millisecond). Clients need not send, and requests need not be
taken. `Retention`: the tickers of shipper and sweep fire and file operations return
(weak fairness of their steps, of `SnapDone \/ SnapFail` and of
`PurgeRename \/ PurgeFail`), the sink's mutex is a `sync.Mutex` (strong fairness of
`ShipLock` and `PurgeFilter`), no collection's DELETE fails at every tick for ever
(strong fairness of `SweepPurge(c)`), and a supervisor restarts the server (weak fairness
of `Restart`). Nothing makes clients write, snapshots start or clients purge. In
`retention` the shipper meets no error; after one, only a restart ships again.

## 4. What the model shows

Five runs end in a violation: each states what a comment or the README says, and
the trace is what the code does.

| Run | The documentation | The code |
|---|---|---|
| `snapshot_race` | `snapshot.go:35` "one consistent snapshot, named by its high-water seq" | MAX(seq) and VACUUM INTO are two statements; a commit between them is in the file and above its name, and Restore then fails on that seq |
| `partial_snapshot` | `snapshot.go:29` "never mistaken for a finished backup" | `WriteSnapshot` copies to the final name; a crash leaves an empty file that Restore takes for a snapshot |
| `purge_others` | `sink.go:34` "mirroring PURGE's effect on the primary events table" | the sink gets only the cutoff and drops the lines of every collection |
| `purge_restore` | `README.md:175` "the current value is untouched" | after a PURGE the newest snapshot can have a lower seq in its name than an older one; Restore picks the older, and the stream that would bring it up to date is pruned |
| `order_desc` | `match.go:161` a value missing the field "sorts last regardless of direction" | DESC swaps the arguments of `lessField`, so the missing ones come first |

Other behaviours the properties had to be stated around, none with a run of its own:

- A put AT an earlier instant than the document's current version becomes the
  current version (`live` goes by seq), while AS OF now answers with the other one
  (`Visible` goes by valid_from). Hence `Undated` in `LiveAgreesWithReplay`.
  `temporal.go:69` calls the second "current".
- A wall clock that is set back breaks "Monotonic with seq" (ADR-001, D3). Hence
  `~ClockStepsBack` in `TxTimeFollowsSeq` and `AuditViewStable`.
- Rows that the shipper has read before a PURGE and writes after it are in the
  stream though they were purged. Hence `NothingSkipped` and `Replica` say what must be
  there, and not what must not.
- A snapshot's instant is truncated to the second and read before VACUUM INTO, so a
  restore to a target in that second may hold commits made after the target. Hence
  `RestoreIsPrefix` bounds the result from below by the target, and not from above.
- A torn last line makes Purge and Restore fail and keeps the server from starting.
- After a PURGE, `live` cannot be rebuilt by replaying what is left of the log. For the
  same reason RELATED and RELATED AS OF now can differ after a PURGE of `__edges__`.
- One error ends the shipper until the process restarts (`shipper.go:44`; the
  server logs it, `main.go:78`, and goes on serving).
- EDGETYPES fails while a row without meta is in `__edges__`, which a PUT leaves
  there. Hence `EdgeTypes.ok` in `RelatedIsGraph`.
- RELATED pages by seq, RELATED AS OF by the hash of the edge.
- A client's repeated request does not replace the first: the handler of a request that
  was given up may still commit, before or after the repetition, and overwrite what the
  caller wrote in between. Hence `ReadYourWrites` is about answers that were received.
- `tql_query` (`temporaldb-mcp`, `main.go:54`) drops the results of a batch that failed
  half-way, which `Query` and the CLI keep: its caller cannot tell how far the batch got.
- After a recovery to an earlier instant on the same backup directory, seqs up to
  `LastShippedSeq` are given out again and the new events with them are never shipped;
  the old stream then contradicts the new log. Hence `past.clean` in `RecoveryFitsStream`.
- A snapshot is named by MAX(seq), which a PURGE of the newest rows lowers, while the
  `sqlite_sequence` inside it stays. Two snapshots can then have the same seq in their
  names and different sequences inside; `latestSnapshotBefore` may take either, and two
  recoveries in a row that take one each give the same seqs to different events. It takes
  two crashes, and was met when `RecoveryFitsStream` resisted its proof. Hence the last
  conjunct of `Faithful`.
- A sweep's statement for one collection prunes the lines of all, which is harmless
  there because all have the same cutoff (`RetentionKeepsYoung`); a client's is not
  (`purge_others`).
- The client leaves keys such as `1a`, `1.`, `.a` and the empty key unquoted, which the
  parser refuses; hence the exception in `ClientKeysArrive`. A newline in a key is
  escaped by `json.Marshal` and arrives.
- `LIMIT -0` is accepted as `LIMIT 0`.
- SEARCH applies LIMIT and OFFSET before WHERE and before it drops deleted documents, so
  pages come out short, and an OFFSET of 10 or more without LIMIT returns nothing. A
  point that another program put into the collection takes a candidate's place, and rows
  behind it can fall between two pages; hence `Foreign \notin points` in
  `SearchPagesAddUp`.
- WHERE differs between SQL and Go for `!=` on a missing or null field, `<` on
  strings, booleans against numbers, null in lists, CONTAINS of a scalar, and integers
  beyond 2^53; a list after `=` fails to bind in SQL and matches nothing in Go. Hence
  `Covered`.

## 5. Proofs

Each theorem holds for any number of writers, clients, collections, keys, values,
requests, cutoffs, nodes and documents, any set of faults and every value of the bounds.

| Module | Theorem | States |
|---|---|---|
| `EventLogProofs` | `LogInductive` | `LogSpec => []LogInv` |
| `EventStoreProofs` | `TypeCorrect` | `Spec => []TypeOK` |
| | `LiveIsAlwaysLatest` | `Spec => []LiveIsLatest` |
| | `SeqNeverReused` | `Spec => []SeqNamesOneEvent` |
| | `CommitTimesFollowSeq` | `Spec => []TxTimeFollowsSeq` |
| | `AuditViewIsStable` | `Spec => AuditViewStable` |
| | `ReplayAgreesWithLive` | `Spec => []LiveAgreesWithReplay` |
| | `HistoryExplains` | `Spec => []HistoryExplainsAsOf` |
| | `Refinement` | `Spec => ImplementsEventLog` |
| `ServiceProofs` | `ServiceTypeCorrect` | `ServiceSpec => []ServiceTypeOK` |
| | `ServiceUsesStore` | `ServiceSpec => Spec` (of `EventStore`) |
| | `RequestsCommitPrefixes` | `ServiceSpec => []BatchPrefix` |
| | `AnswersAreTrue` | `ServiceSpec => []AnswersTellTruth` |
| | `CallersReadTheirWrites` | `ServiceSpec => []ReadYourWrites` |
| `BackupProofs` | `BackupTypeCorrect` | `Spec => []TypeOK` |
| | `StreamStaysAscending` | `Spec => []StreamAscending` |
| | `NothingIsSkipped` | `Spec => []NothingSkipped` |
| | `SweepKeepsYoung` | `Spec => []RetentionKeepsYoung` |
| | `StreamImplementsReplica` | `Spec => StreamIsReplica` |
| `RecoveryProofs` | `RecoveryTypeCorrect` | `RecoverySpec => []TypeOK` |
| | `RecoveredStreamAscends` | `RecoverySpec => []StreamAscending` |
| | `RestoresSucceed` | `RecoverySpec => []RestoreSucceeds` |
| | `RecoveriesFitStream` | `RecoverySpec => []RecoveryFitsStream` |
| | `RestoresArePrefixes` | `~ClockStepsBack => (RecoverySpec => []RestoreIsPrefix)` |
| `GraphProofs` | `GraphTypeCorrect` | `Spec => []TypeOK` |
| | `GraphUsesLog` | `Spec => LogSpec` |
| | `RelatedAnswersGraph` | `Spec => []RelatedIsGraph` |
| | `RelatedAsOfAnswersPast` | `~ClockStepsBack => (Spec => []RelatedAsOfIsPast)` |
| | `RelatedPagesAddUp` | `Spec => []PagesAddUp` |
| `FindProofs` | `EvaluatorsAgree` | `SearchSpec => []WhereAgrees` |
| | `OrdersAgree` | `SearchSpec => []OrderAgrees` |
| | `SearchFindsLive` | `SearchSpec => []SearchAgreesWithFind` |
| | `SearchPagesComplete` | `SearchSpec => []SearchPagesAddUp` |

Safety properties need no fairness, so the theorems are about the specifications without
it; what they state of `Spec` holds of the fair ones the runs use.

### The inductive invariants

Every one has a lemma per action or group of actions, and was checked by TLC on the
instance of its run before it was proved.

**`EventStoreProofs!IInv`**: `TypeOK`, `LiveIsLatest`, `SeqNamesOneEvent`,
`TxTimeFollowsSeq` and three strengthenings, without which they do not follow.

- `MutexInv`: a writer holds the mutex exactly when it is in its transaction, and it
  then has its stamp. Two holders could commit stamps in the wrong order.
- `HistoryInv`: `events` is part of `committed`, no committed seq is above
  `autoinc`, and every document ever written has a live row. A new seq is then
  greater than all, which makes the upsert keep `LiveIsLatest`.
- `StampInv`: while the clock does not step back, no committed `tx_time` is later
  than the clock or than the stamp of the writer that holds the mutex. It is what
  makes a stamp read under the mutex still the latest at the commit.

`AuditViewIsStable` uses that a commit at a settled instant is filtered out by the cutoff
(`LaterCommitInvisible`). `Refinement` maps `Commit` to `AppendEvent`, whose guard is
`StampInv`, `ExecPurge` to `Purge`, `PassTime` to the clock's steps, and everything else
to a stutter. `HistoryExplains` follows from what `Visible` picks among finitely many
versions.

**`ServiceProofs!SvcInv`** puts around `IInv`: `SentInv` (an id names one request),
`PlaceInv` (a request is on its way, in one handler, answered or lost, never in two of
these, and has committed nothing before a handler has it), `WorkInv` (a writer in `Append`
works for its handler's next statement), `ProgressInv` (results and statements left make
up the batch, and what the request has committed is what its results tell), `OriginInv`
(each recorded commit is that statement's row), `AnswerInv` (an answer's results tell all
that was and ever will be committed) and `ReadInv` (the reads in a response have seen the
caller's earlier puts, or a delete since). `AnswersTellTruth` needs `PlaceInv` most: once a
request is answered no handler has it, so nothing more can be committed for it.

**`BackupProofs!IInv`** has two halves. `SinkInv` holds whatever was restored and to
which instant: the sink's mutex is held by exactly the operation that is in the sink
(`SinkMutexInv`), a purge's temporary file is still the filtered stream when the rename
comes (`PurgerInv`), what is still to be written comes after all that is written
(`ShipperInv`), a snapshot's name is never ahead of its contents (`DatabaseInv`), no
cutoff of the sweep is ahead of the clock less the retention period (`CutoffInv`).
`LogSideInv` ties stream, snapshots and primary to the history, and holds as long as
recoveries are faithful: no event is passed over below `lastSeq`, below a shipped event or
by the batch under way (`SkipInv`), and the primary and every complete snapshot are images
of the history up to their last seq, less what a PURGE reached (`ImageInv`). Without
recoveries all are faithful, so `Spec` implies both halves. `StreamImplementsReplica` maps
`ShipWrite` to the replica's copying step, the purges to its pruning, and the rest to
stutters.

**`RecoveryProofs`** shows that `Recover` keeps the same `IInv`. `Restore` folds
`RestoreEvent` over the lines in file order. The library's induction theorems take an
operator and cannot be used here; as the stream is a finite set of numbered lines, what the
fold yields is proved by looking at the smallest set of lines for which the claim would
fail (`SmallestSet`, `ReplayStep`, `ReplayIsGood`): a replay fails only where the database
already has a line's seq, and otherwise adds exactly the lines and leaves each document's
last write in `live`, in whichever order seqs come. `RestoresArePrefixes` adds that commit
times follow seq.

**`GraphProofs!GraphInv`**: the log's `LogInv`, `committed` is finite, a row of the edge
collection with meta is under its triple's key and valid from its commit (`RowInv`),
`graph` is the edges of `live`, and `past[n]`, up to the last commit, the edges of the last
versions up to seq n. `RelatedPagesAddUp` counts: in an
order without ties the places of the rows are 0 .. Cardinality - 1, so page k of size m is
the rows at m*k .. m*k + m - 1; rows of the log have different seqs and so do their edges.
`ReplayKeysDiffer` gives RELATED AS OF an order without ties.

**`FindProofs`** needs of the state only that documents hold JSON values (`DocsOK`) and
that points are of keys or foreign (`PointsOK`); the rest is about the operators.
`EvaluatorsAgree` is a case analysis of `CompileTerm` and `MatchTerm`, operator by
operator, over `EqualAlike`. The other three are about loops over sequences. `Collect` and
`SliceStable` are functions defined by recursion on the rounds of the loop; `Induction`
shows that such a function exists (`RecursionExists`) and states induction over a set
instead of a predicate (`CountingUp`, `AllSequences`), which the provers can instantiate:
the set is that of the rounds, or sequences, for which the claim holds.

- `CollectFacts`, `CollectConcat`, `CollectKeepsOrder`: the loop keeps exactly the wanted
  elements, in their order, nothing twice, and goes through a concatenation piece by piece.
- `InsertRows`, `InsertAscends`, `SortFacts`: an insertion finds a place, adds its row and
  keeps the rows ascending wherever `Less` compares integer weights. On a uniform field it
  does (`UniformWeights`), and SQL sorts by the same weights; so Go's sorted rows are one
  of the permutations SQL may choose from, and both cut it alike (`SamePage`).
- `StatementsAgree` is the result behind `OrdersAgree`, for conjunctions of any number of
  covered comparisons and any LIMIT and OFFSET. `SearchRows` and `AllPagesRows` are those
  behind the two theorems about SEARCH, for any WHERE.
- `PageRows`: the first o hits followed by the page at offset o are the first o + size
  hits, filtered; hence what the first i pages hold is the filtered first i * size hits,
  and Len + 1 pages reach the end.

### Assumptions

`ValueAssumption` (the nil of a delete is not a value), `WriterAssumption` (the mutex's
free state is not a writer), `BoundAssumption` (requests are well-formed, there is one,
cutoffs are naturals, `MaxTime` is positive), the assumptions of `Backup`, `Recovery` and
`Service` on their own constants, `GraphAssumption` (an edge's key is its triple's, keys
have an order without ties), `EdgeRequestAssumption` (the graph's writes are among the
log's requests) and `FindAssumption` (fields and operands are JSON values, numbers within
the range in which `Float` describes float64, and no string spells out an array). TLC
evaluates each of them on the runs of its module.

### Only model-checked

- Liveness (`HandlersEnd`, `EventuallyShipped`, `OldEventsGo`), which the proof system
  does not handle.
- The four properties of `Tql`: lexer and parser are recursive operators over token
  sequences, which the proof system does not expand.

## 6. Not modelled

- Configuration (`internal/config`): environment variables read once at the start.
- The HTTP clients of TEI and Qdrant (`tei.go`, most of `qdrant.go`): I/O without state.
  `EnsureCollection` checks and then creates, but no program of the repository indexes,
  and a lost race is an error returned to the caller; `Rerank` has no caller.
- Argument handling of the CLI, and the MCP server's conversion of values for its JSON
  schemas: no state, and no decision beyond those in `Service`.
- Graceful shutdown as a step of its own (see Abstractions), goose migrations, pragmas
  and the connection pool.
- Keys that are not valid UTF-8, which `json.Marshal` replaces: the symbols of `Tql` have
  no counterpart.
- SQLite itself (WAL, locking, recovery) and the file system are external: transactions
  are atomic and durable, appends to a file are cut short at most in the last line,
  rename is atomic. Qdrant is external: its answers are any order of the points.

## 7. Plan

Done: the event store with its abstract specification, refinement and proofs; the
backup with its faults, its abstract specification and refinement; Restore and a
restored primary; the retention sweep; client, server and front ends; the graph store;
WHERE, ORDER BY and SEARCH; lexer, parser and the client's texts.

Proved: every safety property of the runs except those listed under "Only
model-checked", among them the two refinements.

Left: the properties of `Tql`, which would need lexer and parser written as functions on
positions; and liveness, which stays with TLC.
