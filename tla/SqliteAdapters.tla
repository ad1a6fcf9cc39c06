--------------------------- MODULE SqliteAdapters ---------------------------
(***************************************************************************)
(* A database that is opened by one SQLite adapter after another: whenever *)
(* the process is started again it may run on Bun, on Node or on Deno, and *)
(* the file may be from before keys could expire.  Where the adapters      *)
(* differ, one finds what another has left: a table without a column,      *)
(* parts without their upload, a lease that was lost and not reported.     *)
(*                                                                         *)
(* Parts of the adapters that share no table are tried apart (area).       *)
(***************************************************************************)
EXTENDS Integers, Sequences, FiniteSets, TLC

CONSTANTS
  DayLength, None,
  Queues, Crons, KvKeys, Prefixes, Streams, Telemetry, Ids, Objects,
  Times,     \* of the clock: a range from 0
  MaxCalls   \* in each area

VARIABLES
  runtime,   \* that runs the process: "bun", "node" or "deno"
  conn,      \* its connection
  path,      \* of the database file; None is memory
  now,       \* the clock
  area,      \* the tables under test
  calls,     \* number of calls
  given,     \* history: the claims that were answered
  promised,  \* history: the last kvSet of a key that holds
  reader     \* a reader of streams: how far it is, what it has seen

vars == <<runtime, conn, path, now, area, calls, given, promised, reader>>

Bun == INSTANCE SqliteBun
Node == INSTANCE SqliteNode
Deno == INSTANCE SqliteDeno

Runtimes == {"bun", "node", "deno"}
By(b, n, d) == CASE runtime = "bun" -> b [] runtime = "node" -> n [] runtime = "deno" -> d

Unread == [s \in Streams |-> [at |-> 0, seen |-> {}]]
NoKeys == [k \in KvKeys |-> None]

(* A file from before keys could expire, with all of them set. *)
OlderFile == [kv |-> [k \in KvKeys |-> [value |-> 1, expires |-> None]], columns |-> {}]

(* node:sqlite enforces foreign keys, in Node and Deno; bun:sqlite is free to. *)
Opened(r, disk) ==
  CASE r = "bun" -> {Bun!OpenSqliteDatabase(path, disk, enforced) : enforced \in IF area = "uploads" THEN BOOLEAN ELSE {TRUE}}
    [] r = "node" -> {Node!OpenSqliteDatabase(path, disk, TRUE)}
    [] r = "deno" -> {Deno!OpenSqliteDatabase(path, disk, TRUE)}

Init ==
  /\ path \in {None, "file"} /\ area \in DOMAIN MaxCalls /\ runtime \in Runtimes
  /\ \E disk \in {Bun!Nothing} \cup IF area = "keys" /\ path # None THEN {OlderFile} ELSE {} :
       /\ conn \in Opened(runtime, disk)
       /\ promised = IF disk = OlderFile THEN OlderFile.kv ELSE NoKeys
  /\ now = 0 /\ calls = 0 /\ given = {} /\ reader = Unread

Called(what) == area = what /\ calls < MaxCalls[area] /\ calls' = calls + 1
Call(what, done) == Called(what) /\ conn' = done.conn /\ UNCHANGED <<runtime, path, now, area>>

Tick ==
  /\ now + 1 \in Times
  /\ now' = now + 1
  /\ UNCHANGED <<runtime, conn, path, area, calls, given, promised, reader>>

(* The process ends and is started again, its readers too.  In memory it   *)
(* begins anew, as in Init.                                                *)
Restart ==
  /\ path # None /\ Called(area)
  /\ runtime' \in Runtimes /\ conn' \in Opened(runtime', Bun!Disk(conn))
  /\ reader' = Unread
  /\ UNCHANGED <<path, now, area, given, promised>>
-----------------------------------------------------------------------------
Transaction ==
  \/ Call("queue", By(Bun!BeginTransaction(conn), Node!BeginTransaction(conn), Deno!BeginTransaction(conn)))
  \/ Call("queue", By(Bun!RollbackTransaction(conn), Node!RollbackTransaction(conn), Deno!RollbackTransaction(conn)))
  \/ \E e \in {<<>>, <<"e">>} :
       Call("queue", By(Bun!CommitTransaction(conn, e), Node!CommitTransaction(conn, e), Deno!CommitTransaction(conn, e)))

(* A claim is answered with what is claimed: a job and its attempt, or a   *)
(* schedule and the token.  It holds for one tick, or to the first word of *)
(* who has it.                                                             *)
Claim(what, done) ==
  /\ Call(what, done)
  /\ given' = IF done.out \in {<<"throws">>, <<"ok", None>>} THEN given
       ELSE LET row == done.out[2] IN
            given \cup {[of |-> row[1], mark |-> row[Len(row)], call |-> calls, from |-> now, to |-> now + 1, ended |-> FALSE]}

Ended(claims) == given' = (given \ claims) \cup {[g EXCEPT !.ended = TRUE] : g \in claims}
ClaimsOf(id) == {g \in given : g.of = id}
Claimed(id, mark) == {g \in ClaimsOf(id) : g.mark = mark}

JobCalls == UNCHANGED <<promised, reader>> /\
  \/ UNCHANGED given /\
     \/ Transaction
     \/ \E q \in Queues, t \in 0 .. 1 : Call("queue",
          By(Bun!QueueEnqueue(conn, q, t, now), Node!QueueEnqueue(conn, q, t, now), Deno!QueueEnqueue(conn, q, t, now)))
  \/ \E served \in {Queues} \cup {{q} : q \in Queues} : Claim("queue",
       By(Bun!ClaimNextQueueJob(conn, 1, served, now), Node!ClaimNextQueueJob(conn, 1, served, now), Deno!ClaimNextQueueJob(conn, 1, served, now)))
  \/ \E id \in DOMAIN conn.db.jobs : Ended(ClaimsOf(id)) /\
       \/ Call("queue", By(Bun!CompleteQueueJob(conn, id), Node!CompleteQueueJob(conn, id), Deno!CompleteQueueJob(conn, id)))
       \/ \E s \in {"pending", "dlq"} : Call("queue", By(Bun!MarkQueueJobFailure(conn, id, s, now + 1, "e"),
            Node!MarkQueueJobFailure(conn, id, s, now + 1, "e"), Deno!MarkQueueJobFailure(conn, id, s, now + 1, "e")))

(* A token is known by the call that claimed. *)
CronCalls == UNCHANGED <<promised, reader>> /\
  \/ Claim("cron", By(Bun!ClaimNextCronSchedule(conn, 1, calls, now), Node!ClaimNextCronSchedule(conn, 1, calls, now), Deno!ClaimNextCronSchedule(conn, 1, calls, now)))
  \/ \E n \in Crons :
       \/ Ended(ClaimsOf(n)) /\
          \/ Call("cron", By(Bun!DeleteCronSchedule(conn, n), Node!DeleteCronSchedule(conn, n), Deno!DeleteCronSchedule(conn, n)))
          \/ \E at \in Times : Call("cron", By(Bun!UpsertCronSchedule(conn, n, "x", at),
               Node!UpsertCronSchedule(conn, n, "x", at), Deno!UpsertCronSchedule(conn, n, "x", at)))
       \/ UNCHANGED given /\ \E at \in Times : at <= now /\
            Call("cron", By(Bun!InsertCronRun(conn, n, at), Node!InsertCronRun(conn, n, at), Deno!InsertCronRun(conn, n, at)))
       \/ \E token \in 0 .. calls - 1 : Ended(Claimed(n, token)) /\
            \/ \E at \in 0 .. now : Call("cron", By(Bun!AdvanceCronSchedule(conn, n, at, now + 1, token),
                 Node!AdvanceCronSchedule(conn, n, at, now + 1, token), Deno!AdvanceCronSchedule(conn, n, at, now + 1, token)))
            \/ Call("cron", By(Bun!ReleaseCronScheduleLease(conn, n, token),
                 Node!ReleaseCronScheduleLease(conn, n, token), Deno!ReleaseCronScheduleLease(conn, n, token)))

(* A call that throws promises nothing. *)
KeyCalls == UNCHANGED <<given, reader>> /\ \E k \in KvKeys, v \in 1 .. 2, ttl \in {None, 1, DayLength} :
  \/ LET done == By(Bun!KvSet(conn, k, v, ttl, now), Node!KvSet(conn, k, v, ttl, now), Deno!KvSet(conn, k, v, ttl, now)) IN
     /\ Call("keys", done)
     /\ promised' = IF done.out = <<"throws">> THEN promised
                    ELSE [promised EXCEPT ![k] = [value |-> v, expires |-> IF ttl = None THEN None ELSE now + ttl]]
  \/ /\ Call("keys", By(Bun!KvDelete(conn, k), Node!KvDelete(conn, k), Deno!KvDelete(conn, k)))
     /\ promised' = [promised EXCEPT ![k] = None]
  \/ /\ Call("keys", By(Bun!KvCleanup(conn, now), Node!KvCleanup(conn, now), Deno!KvCleanup(conn, now)))
     /\ UNCHANGED promised

Rows(s, limit) == By(Bun!StreamRead(conn, s, reader[s].at, limit),
  Node!StreamRead(conn, s, reader[s].at, limit), Deno!StreamRead(conn, s, reader[s].at, limit))

(* An event is known by the call that appended it. *)
StreamCalls == UNCHANGED <<given, promised>> /\ \E s \in Streams :
  \/ UNCHANGED reader /\
     \/ Call("streams", By(Bun!StreamAppend(conn, s, calls, now), Node!StreamAppend(conn, s, calls, now), Deno!StreamAppend(conn, s, calls, now)))
     \/ Call("streams", By(Bun!TelemetryCleanup(conn, Telemetry, now), Node!TelemetryCleanup(conn, Telemetry, now), Deno!TelemetryCleanup(conn, Telemetry, now)))
  \/ \E limit \in {None, 1} : LET rows == Rows(s, limit) IN
     /\ area = "streams" /\ rows # <<>>
     /\ reader' = [reader EXCEPT ![s] = [at |-> rows[Len(rows)].id, seen |-> @.seen \cup {rows[i].event : i \in DOMAIN rows}]]
     /\ UNCHANGED <<runtime, conn, path, now, area, calls>>

ObjectCalls == UNCHANGED <<given, promised, reader>> /\ \E k \in Objects, bucket \in {"b1", "b2"} :
  \/ Call("objects", By(Bun!BlobPutMetadata(conn, bucket, k, 1, now), Node!BlobPutMetadata(conn, bucket, k, 1, now), Deno!BlobPutMetadata(conn, bucket, k, 1, now)))
  \/ Call("objects", By(Bun!BlobDeleteMetadata(conn, bucket, k), Node!BlobDeleteMetadata(conn, bucket, k), Deno!BlobDeleteMetadata(conn, bucket, k)))

UploadCalls == UNCHANGED <<given, promised, reader>> /\ \E id \in Ids :
  \/ /\ id \notin DOMAIN conn.db.uploads /\ \A p \in DOMAIN conn.db.parts : p[1] # id
     /\ \E k \in {<<3>>, <<3, 0, 1>>} : Call("uploads", By(Bun!BlobInitUpload(conn, id, "b1", k, now + 1),
          Node!BlobInitUpload(conn, id, "b1", k, now + 1), Deno!BlobInitUpload(conn, id, "b1", k, now + 1)))
  \/ \E number \in 1 .. 2 : Call("uploads", By(Bun!BlobRecordPart(conn, id, number, number),
       Node!BlobRecordPart(conn, id, number, number), Deno!BlobRecordPart(conn, id, number, number)))
  \/ /\ id \in DOMAIN conn.db.uploads
     /\ LET key == By(Bun!BlobGetUpload(conn, id), Node!BlobGetUpload(conn, id), Deno!BlobGetUpload(conn, id)).key
        IN Call("uploads", By(Bun!BlobFinalizeUpload(conn, id, "b1", key, 1, now),
             Node!BlobFinalizeUpload(conn, id, "b1", key, 1, now), Deno!BlobFinalizeUpload(conn, id, "b1", key, 1, now)))
  \/ Call("uploads", By(Bun!BlobAbortUpload(conn, id), Node!BlobAbortUpload(conn, id), Deno!BlobAbortUpload(conn, id)))
  \/ Call("uploads", By(Bun!BlobGcExpiredUploads(conn, now), Node!BlobGcExpiredUploads(conn, now), Deno!BlobGcExpiredUploads(conn, now)))

Next == Tick \/ Restart \/ JobCalls \/ CronCalls \/ KeyCalls \/ StreamCalls \/ ObjectCalls \/ UploadCalls

Spec == Init /\ [][Next]_vars
-----------------------------------------------------------------------------
(* What a claim was answered with is nobody else's: an attempt of a job is *)
(* handed out once, and while a lease lasts, and its holder has not given  *)
(* it back, neither the job nor the schedule is handed out again; whatever *)
(* is begun, committed and rolled back around the claims, whoever opens    *)
(* the file next, although Node claims a schedule by its name alone and    *)
(* reports no lease that was lost (claimNextQueueJob,                      *)
(* claimNextCronSchedule, advanceCronSchedule).                            *)
ClaimsHold == \A g, h \in given : g.of = h.of /\ g.call < h.call =>
  /\ g.mark # h.mark
  /\ g.ended \/ g.to <= h.from

(* Key calls of Node throw on an older file until another has opened it. *)
Served == runtime # "node" \/ conn.db.columns # {}

(* A key is never hidden before its time, and not shown when the day of    *)
(* its time is over; in between SQLite still shows it; and it is listed    *)
(* when it is shown.  The keys of a file from before they could expire are *)
(* kept and shown, but by Node, which does not add the column (kvGet,      *)
(* kvList, kvSet, ensureSqliteInternalTables).                             *)
KvHonest == area = "keys" /\ Served =>
  LET listed == By(Bun!KvList(conn, <<>>, now), Node!KvList(conn, <<>>, now), Deno!KvList(conn, <<>>, now)).out IN
  \A k \in KvKeys :
    LET p == promised[k]
        got == By(Bun!KvGet(conn, k, now), Node!KvGet(conn, k, now), Deno!KvGet(conn, k, now)).out
        Shown == got = <<"ok", p.value>> /\ \E i \in DOMAIN listed[2] : listed[2][i] = k
        Hidden == got = <<"ok", None>> /\ \A i \in DOMAIN listed[2] : listed[2][i] # k
    IN IF p = None THEN Hidden
       ELSE IF p.expires = None THEN Shown
       ELSE /\ p.expires > now => Shown
            /\ Bun!Day(p.expires) < Bun!Day(now) => Hidden

ObjectsAt(prefix, cursor, limit) == By(Bun!BlobListMetadata(conn, "b1", prefix, None, cursor, limit),
  Node!BlobListMetadata(conn, "b1", prefix, None, cursor, limit), Deno!BlobListMetadata(conn, "b1", prefix, None, cursor, limit))
RECURSIVE Pages(_, _, _)
Pages(prefix, cursor, limit) ==
  LET page == ObjectsAt(prefix, cursor, limit)
  IN page.entries \o (IF page.next = None THEN <<>> ELSE Pages(prefix, page.next, limit))

UploadsAt(prefix, cursor, limit) == By(Bun!BlobListUploads(conn, "b1", prefix, cursor, limit),
  Node!BlobListUploads(conn, "b1", prefix, cursor, limit), Deno!BlobListUploads(conn, "b1", prefix, cursor, limit))
RECURSIVE UploadPages(_, _, _)
UploadPages(prefix, cursor, limit) ==
  LET page == UploadsAt(prefix, cursor, limit)
  IN page.uploads \o (IF page.next = None THEN <<>> ELSE UploadPages(prefix, page.next, limit))

(* A reader that goes on after the last row it got misses no row of a      *)
(* stream that is not telemetry, although row ids are used again when the  *)
(* clean-up removed the last rows (streamRead, cleanup in the host).  And  *)
(* one that goes on by the cursor, without a delimiter, is named every     *)
(* object and every upload once, whatever the size of the pages            *)
(* (blobListMetadata, sliceBlobList, blobListUploads).                     *)
ReadersMissNothing ==
  /\ \A s \in Streams \ Telemetry : \A r \in conn.db.stream :
       r.stream = s /\ r.id <= reader[s].at => r.event \in reader[s].seen
  /\ area \in {"objects", "uploads"} => \A p \in Prefixes, limit \in 1 .. 2 :
       /\ Pages(p, <<>>, limit) = ObjectsAt(p, <<>>, None).entries
       /\ UploadPages(p, None, limit) = UploadsAt(p, None, None).uploads
=============================================================================
