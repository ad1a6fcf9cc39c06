----------------------------- MODULE SqliteNode -----------------------------
(***************************************************************************)
(* The SQLite adapter for Node: the statements of the one for Bun, but for *)
(* those that are written out here.  Prepared statements are wrapped, so   *)
(* that a row count that comes as a big integer is made a number.          *)
(***************************************************************************)
EXTENDS Integers, Sequences, TLC

CONSTANTS DayLength, None

Bun == INSTANCE SqliteBun

-----------------------------------------------------------------------------
(* Opening and transactions. *)
(* Tables are created when they are missing, three more than by the others *)
(* and used by nothing; one that is there is left without the new column.  *)
EnsureSqliteInternalTables(disk) == disk @@ Bun!Tables @@ [logs |-> {}, metrics |-> {}, traces |-> {}]
OpenSqliteDatabase(path, disk, cascade) ==
  [db |-> EnsureSqliteInternalTables(IF path = None THEN Bun!Nothing ELSE disk), saved |-> None, cascade |-> cascade]
BeginTransaction(c) == Bun!BeginTransaction(c)
PersistEvents(c, events) == Bun!PersistEvents(c, events)
CommitTransaction(c, events) == Bun!CommitTransaction(c, events)
RollbackTransaction(c) == Bun!RollbackTransaction(c)
Immediately(c, answer) == Bun!Immediately(c, answer)
-----------------------------------------------------------------------------
(* Queue jobs. *)
QueueNameFilter(queues, job) == Bun!QueueNameFilter(queues, job)
QueueEnqueue(c, queue, delay, now) == Bun!QueueEnqueue(c, queue, delay, now)
ClaimNextQueueJob(c, leaseMs, queues, now) ==
  Bun!ClaimNextQueueJob(c, leaseMs, queues, now)
CompleteQueueJob(c, id) == Bun!CompleteQueueJob(c, id)
MarkQueueJobFailure(c, id, status, at, error) ==
  Bun!MarkQueueJobFailure(c, id, status, at, error)
-----------------------------------------------------------------------------
(* Cron schedules. *)
UpsertCronSchedule(c, name, expr, next) ==
  Bun!UpsertCronSchedule(c, name, expr, next)
DeleteCronSchedule(c, name) == Bun!DeleteCronSchedule(c, name)
(* A bug: the SELECT lets a lease that has not ended pass. *)
ClaimIgnoringLeases(c, leaseMs, token, now) == Bun!Immediately(c,
  LET due == {n \in DOMAIN c.db.crons : c.db.crons[n].next <= now}
      name == Bun!Least(due)
      row == c.db.crons[name]
  IN IF due = {} THEN Bun!Ok(c, None)
     ELSE Bun!Ok(Bun!SetCron(c, name, [row EXCEPT !.token = token, !.lease = now + leaseMs]),
                 <<name, row.expr, row.next, token>>))

(* The UPDATE asks for the name only: the transaction holds the lock.      *)
ClaimNextCronSchedule(c, leaseMs, token, now) == Bun!Immediately(c,
  LET name == Bun!FirstDue(c, now)
      row == c.db.crons[name]
  IN IF Bun!DueCrons(c, now) = {} THEN Bun!Ok(c, None)
     ELSE Bun!Ok(Bun!SetCron(c, name, [row EXCEPT !.token = token, !.lease = now + leaseMs]),
                 <<name, row.expr, row.next, token>>))
(* When the lease was lost there is nothing to update, and no error.        *)
AdvanceCronSchedule(c, name, fireAt, next, token) ==
  Bun!Ok(IF Bun!Holds(c, name, token) /\ c.db.crons[name].next = fireAt
           THEN Bun!Advanced(c, name, next) ELSE c, None)
ReleaseCronScheduleLease(c, name, token) ==
  Bun!ReleaseCronScheduleLease(c, name, token)
InsertCronRun(c, name, fireAt) == Bun!InsertCronRun(c, name, fireAt)
-----------------------------------------------------------------------------
(* Keys and streams. *)
(* A statement that names a column which is not there throws. *)
HasColumn(c, done) == IF "expires_at" \in c.db.columns THEN done ELSE Bun!Throws(c)
KvSet(c, key, value, ttl, now) == HasColumn(c, Bun!KvSet(c, key, value, ttl, now))
KvGet(c, key, now) == HasColumn(c, Bun!KvGet(c, key, now))
KvList(c, prefix, now) == HasColumn(c, Bun!KvList(c, prefix, now))
KvDelete(c, key) == Bun!KvDelete(c, key)
KvCleanup(c, now) == HasColumn(c, Bun!KvCleanup(c, now))
StreamAppend(c, stream, event, now) == Bun!StreamAppend(c, stream, event, now)
StreamRead(c, stream, sinceId, limit) ==
  Bun!StreamRead(c, stream, sinceId, limit)
TelemetryCleanup(c, telemetry, cutoff) ==
  Bun!TelemetryCleanup(c, telemetry, cutoff)
-----------------------------------------------------------------------------
(* Objects and uploads. *)
BlobPutMetadata(c, bucket, key, content, now) ==
  Bun!BlobPutMetadata(c, bucket, key, content, now)
BlobDeleteMetadata(c, bucket, key) == Bun!BlobDeleteMetadata(c, bucket, key)
SliceBlobList(keys, prefix, delimiter, limit) ==
  Bun!SliceBlobList(keys, prefix, delimiter, limit)
BlobListMetadata(c, bucket, prefix, delimiter, cursor, limit) ==
  Bun!BlobListMetadata(c, bucket, prefix, delimiter, cursor, limit)
BlobInitUpload(c, id, bucket, key, expires) ==
  Bun!BlobInitUpload(c, id, bucket, key, expires)
BlobGetUpload(c, id) == Bun!BlobGetUpload(c, id)
BlobRecordPart(c, id, number, content) ==
  Bun!BlobRecordPart(c, id, number, content)
BlobFinalizeUpload(c, id, bucket, key, content, now) ==
  Bun!BlobFinalizeUpload(c, id, bucket, key, content, now)
BlobAbortUpload(c, id) == Bun!BlobAbortUpload(c, id)
BlobListUploads(c, bucket, prefix, cursor, limit) ==
  Bun!BlobListUploads(c, bucket, prefix, cursor, limit)
BlobGcExpiredUploads(c, now) == Bun!BlobGcExpiredUploads(c, now)
=============================================================================
