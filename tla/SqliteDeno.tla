----------------------------- MODULE SqliteDeno -----------------------------
(***************************************************************************)
(* The SQLite adapter for Deno, over node:sqlite: the statements of the    *)
(* one for Bun; what differs is how it tells that a statement gives rows.  *)
(***************************************************************************)
EXTENDS Integers, Sequences, TLC

CONSTANTS DayLength, None

Bun == INSTANCE SqliteBun

-----------------------------------------------------------------------------
(* Opening and transactions. *)
EnsureSqliteInternalTables(disk) == Bun!EnsureSqliteInternalTables(disk)
OpenSqliteDatabase(path, disk, cascade) ==
  Bun!OpenSqliteDatabase(path, disk, cascade)
BeginTransaction(c) == Bun!BeginTransaction(c)
PersistEvents(c, events) == Bun!PersistEvents(c, events)
CommitTransaction(c, events) == Bun!CommitTransaction(c, events)
RollbackTransaction(c) == Bun!RollbackTransaction(c)
Immediately(c, answer) == Bun!Immediately(c, answer)
-----------------------------------------------------------------------------
(* Queue jobs. *)
QueueNameFilter(queues, job) == Bun!QueueNameFilter(queues, job)
QueueEnqueue(c, queue, delay, now) == Bun!QueueEnqueue(c, queue, delay, now)
ClaimNextQueueJob(c, leaseMs, queues, now) ==
  Bun!ClaimNextQueueJob(c, leaseMs, queues, now)
CompleteQueueJob(c, id) == Bun!CompleteQueueJob(c, id)
MarkQueueJobFailure(c, id, status, at, error) ==
  Bun!MarkQueueJobFailure(c, id, status, at, error)
-----------------------------------------------------------------------------
(* Cron schedules. *)
UpsertCronSchedule(c, name, expr, next) ==
  Bun!UpsertCronSchedule(c, name, expr, next)
DeleteCronSchedule(c, name) == Bun!DeleteCronSchedule(c, name)
ClaimNextCronSchedule(c, leaseMs, token, now) ==
  Bun!ClaimNextCronSchedule(c, leaseMs, token, now)
AdvanceCronSchedule(c, name, fireAt, next, token) ==
  Bun!AdvanceCronSchedule(c, name, fireAt, next, token)
ReleaseCronScheduleLease(c, name, token) ==
  Bun!ReleaseCronScheduleLease(c, name, token)
InsertCronRun(c, name, fireAt) == Bun!InsertCronRun(c, name, fireAt)
-----------------------------------------------------------------------------
(* Keys and streams. *)
KvSet(c, key, value, ttl, now) == Bun!KvSet(c, key, value, ttl, now)
KvGet(c, key, now) == Bun!KvGet(c, key, now)
KvList(c, prefix, now) == Bun!KvList(c, prefix, now)
KvDelete(c, key) == Bun!KvDelete(c, key)
(* A statement gives rows when its columns or its text say so. *)
StatementProducesRows(text) == text \in {"select", "pragma", "values", "explain", "returning"}
Reader(columns, text) == columns # <<>> \/ StatementProducesRows(text)
RunQuery(c, text, columns, rows) == Bun!Ok(c, IF Reader(columns, text) THEN rows ELSE <<>>)

KvCleanup(c, now) == RunQuery(Bun!KvCleanup(c, now).conn, "delete", <<>>, <<>>)
StreamAppend(c, stream, event, now) == Bun!StreamAppend(c, stream, event, now)
StreamRead(c, stream, sinceId, limit) ==
  Bun!StreamRead(c, stream, sinceId, limit)
TelemetryCleanup(c, telemetry, cutoff) ==
  RunQuery(Bun!TelemetryCleanup(c, telemetry, cutoff).conn, "delete", <<>>, <<>>)
-----------------------------------------------------------------------------
(* Objects and uploads. *)
BlobPutMetadata(c, bucket, key, content, now) ==
  Bun!BlobPutMetadata(c, bucket, key, content, now)
BlobDeleteMetadata(c, bucket, key) == Bun!BlobDeleteMetadata(c, bucket, key)
SliceBlobList(keys, prefix, delimiter, limit) ==
  Bun!SliceBlobList(keys, prefix, delimiter, limit)
BlobListMetadata(c, bucket, prefix, delimiter, cursor, limit) ==
  Bun!BlobListMetadata(c, bucket, prefix, delimiter, cursor, limit)
BlobInitUpload(c, id, bucket, key, expires) ==
  Bun!BlobInitUpload(c, id, bucket, key, expires)
BlobGetUpload(c, id) == Bun!BlobGetUpload(c, id)
BlobRecordPart(c, id, number, content) ==
  Bun!BlobRecordPart(c, id, number, content)
BlobFinalizeUpload(c, id, bucket, key, content, now) ==
  Bun!BlobFinalizeUpload(c, id, bucket, key, content, now)
BlobAbortUpload(c, id) == Bun!BlobAbortUpload(c, id)
BlobListUploads(c, bucket, prefix, cursor, limit) ==
  Bun!BlobListUploads(c, bucket, prefix, cursor, limit)
BlobGcExpiredUploads(c, now) == Bun!BlobGcExpiredUploads(c, now)
=============================================================================
