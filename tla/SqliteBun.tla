----------------------------- MODULE SqliteBun -----------------------------
(***************************************************************************)
(* The SQLite adapter for Bun: what each of its calls does to the          *)
(* database and answers.  SQLite runs in the process, on one connection,   *)
(* and every call runs to its end without a pause; hence a call is a       *)
(* function from a connection to a connection and an answer.               *)
(*                                                                         *)
(* A connection holds the tables, what they were when its transaction      *)
(* began, and whether the database enforces foreign keys.                  *)
(***************************************************************************)
EXTENDS Integers, Sequences, FiniteSets, TLC
LOCAL INSTANCE SequencesExt

CONSTANTS
  DayLength,  \* length of a UTC day, on the clock of the model
  None        \* NULL, no transaction, an option that is left out

Nothing == [x \in {} |-> None]
Without(f, gone) == [x \in DOMAIN f \ gone |-> f[x]]
Day(t) == t \div DayLength
Least(S) == CHOOSE x \in S : \A y \in S : x <= y
Ascending(S) == SetToSortSeq(S, <)
AtMost(limit, seq) == IF limit # None /\ limit < Len(seq) THEN SubSeq(seq, 1, limit) ELSE seq

Ok(c, answer) == [conn |-> c, out |-> <<"ok", answer>>]
Throws(c) == [conn |-> c, out |-> <<"throws">>]
-----------------------------------------------------------------------------
(* Opening.  A database in memory begins without tables, a file with those *)
(* it has; the tables that are missing are created, and the table of keys  *)
(* gets the column that an older file does not have.                       *)
Tables ==
  [events |-> <<>>, kv |-> Nothing, columns |-> {"expires_at"}, stream |-> {}, jobs |-> <<>>,
   crons |-> Nothing, runs |-> {}, blobs |-> Nothing, uploads |-> Nothing, parts |-> Nothing]

AddColumns(db) == [db EXCEPT !.columns = {"expires_at"}]

EnsureSqliteInternalTables(disk) == AddColumns(disk @@ Tables)

OpenSqliteDatabase(path, disk, cascade) ==
  [db |-> EnsureSqliteInternalTables(IF path = None THEN Nothing ELSE disk), saved |-> None, cascade |-> cascade]

(* What the file holds: an open transaction is not in it. *)
Disk(c) == IF c.saved = None THEN c.db ELSE c.saved
-----------------------------------------------------------------------------
(* Transactions.  SQLite does not nest them. *)
BeginTransaction(c) == IF c.saved = None THEN Ok([c EXCEPT !.saved = c.db], None) ELSE Throws(c)

PersistEvents(c, events) == [c EXCEPT !.db.events = @ \o events]

(* The events are inserted before COMMIT: without a transaction they stay, *)
(* although COMMIT fails.                                                  *)
CommitTransaction(c, events) ==
  LET done == PersistEvents(c, events)
      ids == [i \in DOMAIN events |-> Len(c.db.events) + i]
  IN IF c.saved = None THEN Throws(done) ELSE Ok([done EXCEPT !.saved = None], ids)

RollbackTransaction(c) ==
  Ok(IF c.saved = None THEN c ELSE [c EXCEPT !.db = c.saved, !.saved = None], None)

(* BEGIN IMMEDIATE is outside of the try block of a claim. *)
Immediately(c, answer) == IF c.saved = None THEN answer ELSE Throws(c)
-----------------------------------------------------------------------------
(* Queue jobs; the payload of a job is the name of its queue. *)
QueueNameFilter(queues, job) == job.queue \in queues

QueueEnqueue(c, queue, delay, now) ==
  Ok([c EXCEPT !.db.jobs = Append(@, [queue |-> queue, status |-> "pending", count |-> 0,
       at |-> now + (IF delay = None \/ delay < 0 THEN 0 ELSE delay), lease |-> None, error |-> None])], None)

DueJobs(c, queues, now) ==
  {i \in DOMAIN c.db.jobs : LET job == c.db.jobs[i] IN
     /\ QueueNameFilter(queues, job)
     /\ \/ job.status = "pending" /\ job.at <= now
        \/ job.status = "processing" /\ job.lease # None /\ job.lease <= now}

ClaimNextQueueJob(c, leaseMs, queues, now) == Immediately(c,
  LET due == DueJobs(c, queues, now)
      id == Least(due)
      claimed == [c.db.jobs[id] EXCEPT !.status = "processing", !.count = @ + 1, !.lease = now + leaseMs]
  IN IF due = {} THEN Ok(c, None)
     ELSE Ok([c EXCEPT !.db.jobs[id] = claimed], <<id, claimed.queue, claimed.count>>))

CompleteQueueJob(c, id) == Ok([c EXCEPT !.db.jobs[id].status = "completed", !.db.jobs[id].lease = None], None)

MarkQueueJobFailure(c, id, status, at, error) ==
  Ok([c EXCEPT !.db.jobs[id] = [@ EXCEPT !.status = status, !.at = at, !.lease = None, !.error = error]], None)

-----------------------------------------------------------------------------
(* Cron schedules; a schedule's name is its rank among the names. *)
SetCron(c, name, row) == [c EXCEPT !.db.crons = (name :> row) @@ @]

UpsertCronSchedule(c, name, expr, next) ==
  Ok(SetCron(c, name, [expr |-> expr, next |-> next, token |-> None, lease |-> None]), None)

DeleteCronSchedule(c, name) == Ok([c EXCEPT !.db.crons = Without(@, {name})], None)

Free(row, now) == row.token = None \/ row.lease = None \/ row.lease <= now
DueCrons(c, now) == {n \in DOMAIN c.db.crons : c.db.crons[n].next <= now /\ Free(c.db.crons[n], now)}
FirstDue(c, now) == CHOOSE n \in DueCrons(c, now) : \A m \in DueCrons(c, now) \ {n} :
  \/ c.db.crons[n].next < c.db.crons[m].next
  \/ c.db.crons[n].next = c.db.crons[m].next /\ n < m

(* The UPDATE tests again what the SELECT found, in one transaction. *)
ClaimNextCronSchedule(c, leaseMs, token, now) == Immediately(c,
  LET name == FirstDue(c, now)
      row == c.db.crons[name]
  IN IF DueCrons(c, now) = {} \/ ~Free(row, now) THEN Ok(c, None)
     ELSE Ok(SetCron(c, name, [row EXCEPT !.token = token, !.lease = now + leaseMs]),
             <<name, row.expr, row.next, token>>))

Holds(c, name, token) == name \in DOMAIN c.db.crons /\ c.db.crons[name].token = token

Advanced(c, name, next) ==
  SetCron(c, name, [c.db.crons[name] EXCEPT !.next = next, !.token = None, !.lease = None])

AdvanceCronSchedule(c, name, fireAt, next, token) ==
  IF Holds(c, name, token) /\ c.db.crons[name].next = fireAt THEN Ok(Advanced(c, name, next), None)
  ELSE Throws(c)

ReleaseCronScheduleLease(c, name, token) ==
  Ok(IF Holds(c, name, token) THEN Advanced(c, name, c.db.crons[name].next) ELSE c, None)

InsertCronRun(c, name, fireAt) == Ok([c EXCEPT !.db.runs = @ \cup {<<name, fireAt>>}], <<name, fireAt>> \notin c.db.runs)
-----------------------------------------------------------------------------
(* Keys.  A key is a sequence of characters, here four of them, each its   *)
(* rank in ASCII: "/", "A", "_", "a".                                      *)
Slash == 0
Wildcard == 2
SameLetter(x, y) == x = y \/ {x, y} = {1, 3}

Before(a, b) ==
  \E i \in 0 .. Len(a) : /\ i < Len(b)
                         /\ \A j \in 1 .. i : a[j] = b[j]
                         /\ i = Len(a) \/ a[i + 1] < b[i + 1]

(* key LIKE prefix || '%': "_" stands for any character, and the case of a *)
(* letter is ignored.                                                      *)
Like(key, prefix) ==
  /\ Len(key) >= Len(prefix)
  /\ \A i \in DOMAIN prefix : prefix[i] = Wildcard \/ SameLetter(prefix[i], key[i])

(* expires_at > datetime('now') compares texts.  One has a "T" between     *)
(* date and time, the other a space, which is less: within a day the key   *)
(* has not expired, whatever the time.                                     *)
Visible(entry, now) == entry.expires = None \/ Day(entry.expires) >= Day(now)

(* A bug: ON CONFLICT leaves expires_at. *)
KvSetKeepsExpiry(c, key, value, ttl, now) ==
  LET old == IF key \in DOMAIN c.db.kv THEN c.db.kv[key].expires ELSE None
      expires == IF key \in DOMAIN c.db.kv THEN old ELSE IF ttl = None THEN None ELSE now + ttl
  IN Ok([c EXCEPT !.db.kv = (key :> [value |-> value, expires |-> expires]) @@ @], None)

KvSet(c, key, value, ttl, now) ==
  LET expires == IF ttl = None THEN None ELSE now + ttl
  IN Ok([c EXCEPT !.db.kv = (key :> [value |-> value, expires |-> expires]) @@ @], None)

KvGet(c, key, now) ==
  Ok(c, IF key \in DOMAIN c.db.kv /\ Visible(c.db.kv[key], now) THEN c.db.kv[key].value ELSE None)

KvList(c, prefix, now) ==
  Ok(c, SetToSortSeq({k \in DOMAIN c.db.kv : Like(k, prefix) /\ Visible(c.db.kv[k], now)}, Before))

KvDelete(c, key) == Ok([c EXCEPT !.db.kv = Without(@, {key})], None)

(* The host's clean-ups go through query, and answer no rows. *)
RunQuery(c, columns, rows) == Ok(c, IF columns = <<>> THEN <<>> ELSE rows)

KvCleanup(c, now) ==
  RunQuery([c EXCEPT !.db.kv = Without(@, {k \in DOMAIN @ : ~Visible(@[k], now)})], <<>>, <<>>)
-----------------------------------------------------------------------------
(* Streams.  A row id is one more than the largest there is. *)
NextRowId(rows) == IF rows = {} THEN 1 ELSE 1 - Least({-r.id : r \in rows})

StreamAppend(c, stream, event, now) ==
  LET id == NextRowId(c.db.stream)
  IN Ok([c EXCEPT !.db.stream = @ \cup {[id |-> id, stream |-> stream, event |-> event, created |-> now]}], id)

StreamRead(c, stream, sinceId, limit) ==
  AtMost(IF limit = None THEN 100 ELSE limit,
    SetToSortSeq({r \in c.db.stream : r.stream = stream /\ r.id > sinceId}, LAMBDA x, y : x.id < y.id))

(* created_at has a space where the cutoff has a "T": all of its day goes. *)
TelemetryCleanup(c, telemetry, cutoff) ==
  RunQuery([c EXCEPT !.db.stream = {r \in @ : r.stream \notin telemetry \/ Day(r.created) > Day(cutoff)}], <<>>, <<>>)
-----------------------------------------------------------------------------
(* Objects and uploads. *)
Clamp(limit, default) ==
  LET wanted == IF limit = None THEN default ELSE limit
  IN IF wanted < 1 THEN 1 ELSE IF wanted > 1000 THEN 1000 ELSE wanted

(* created_at is left as it was. *)
BlobPutMetadata(c, bucket, key, content, now) ==
  LET at == <<bucket, key>>
      created == IF at \in DOMAIN c.db.blobs THEN c.db.blobs[at].created ELSE now
  IN Ok([c EXCEPT !.db.blobs = (at :> [content |-> content, created |-> created, updated |-> now]) @@ @], None)

BlobDeleteMetadata(c, bucket, key) ==
  Ok([c EXCEPT !.db.blobs = Without(@, {<<bucket, key>>})], <<bucket, key>> \in DOMAIN c.db.blobs)

(* Where a key ends in a listing with the delimiter, which is "/" here. *)
CommonPrefix(key, prefix) ==
  LET ends == {i \in Len(prefix) + 1 .. Len(key) : key[i] = Slash}
  IN IF ends = {} THEN None ELSE prefix \o SubSeq(key, Len(prefix) + 1, Least(ends))

SliceBlobList(keys, prefix, delimiter, limit) ==
  LET Groups(key) == IF delimiter = None THEN None ELSE CommonPrefix(key, prefix)
      Entries(n) == SelectSeq(SubSeq(keys, 1, n), LAMBDA k : Groups(k) = None)
      Shared(n) == {Groups(keys[i]) : i \in 1 .. n} \ {None}
      Count(n) == Len(Entries(n)) + Cardinality(Shared(n))
      taken == Least({n \in 0 .. Len(keys) : Count(n) >= limit} \cup {Len(keys)})
      entries == Entries(taken)
      cursor == IF taken < Len(keys)
                  THEN IF entries = <<>> THEN keys[taken + 1] ELSE Last(entries)
                ELSE IF Len(keys) > limit THEN keys[limit] ELSE None
  IN [entries |-> entries, prefixes |-> SetToSortSeq(Shared(taken), Before), next |-> cursor]

(* A bug: a row less is asked for, none tells that there is more. *)
BlobListNoLookAhead(c, bucket, prefix, delimiter, cursor, limit) ==
  LET n == Clamp(limit, 1000)
      keys == {k \in {b[2] : b \in DOMAIN c.db.blobs} :
                 <<bucket, k>> \in DOMAIN c.db.blobs /\ Like(k, prefix) /\ Before(cursor, k)}
  IN SliceBlobList(AtMost(n, SetToSortSeq(keys, Before)), prefix, delimiter, n)

BlobListMetadata(c, bucket, prefix, delimiter, cursor, limit) ==
  LET n == Clamp(limit, 1000)
      keys == {k \in {b[2] : b \in DOMAIN c.db.blobs} :
                 <<bucket, k>> \in DOMAIN c.db.blobs /\ Like(k, prefix) /\ Before(cursor, k)}
  IN SliceBlobList(AtMost(n + 1, SetToSortSeq(keys, Before)), prefix, delimiter, n)

BlobInitUpload(c, id, bucket, key, expires) ==
  Ok([c EXCEPT !.db.uploads = (id :> [bucket |-> bucket, key |-> key, expires |-> expires]) @@ @], None)

BlobGetUpload(c, id) == IF id \in DOMAIN c.db.uploads THEN c.db.uploads[id] ELSE None

BlobRecordPart(c, id, number, content) ==
  IF c.cascade /\ id \notin DOMAIN c.db.uploads THEN Throws(c)
  ELSE Ok([c EXCEPT !.db.parts = (<<id, number>> :> content) @@ @], None)

(* ON DELETE CASCADE, where foreign keys are enforced. *)
DeleteUploads(c, ids) ==
  [c EXCEPT !.db.uploads = Without(@, ids),
            !.db.parts = IF c.cascade THEN Without(@, {p \in DOMAIN @ : p[1] \in ids}) ELSE @]

BlobFinalizeUpload(c, id, bucket, key, content, now) ==
  Ok(DeleteUploads(BlobPutMetadata(c, bucket, key, content, now).conn, {id}), None)

BlobAbortUpload(c, id) == Ok(DeleteUploads(c, {id}), None)

BlobListUploads(c, bucket, prefix, cursor, limit) ==
  LET n == Clamp(limit, 100)
      ids == AtMost(n + 1, Ascending({id \in DOMAIN c.db.uploads :
               /\ c.db.uploads[id].bucket = bucket /\ Like(c.db.uploads[id].key, prefix)
               /\ cursor = None \/ id > cursor}))
  IN [uploads |-> AtMost(n, ids), next |-> IF Len(ids) > n THEN ids[n] ELSE None]

BlobGcExpiredUploads(c, now) ==
  LET expired == {id \in DOMAIN c.db.uploads : c.db.uploads[id].expires <= now}
  IN Ok(DeleteUploads(c, expired), expired)
=============================================================================
