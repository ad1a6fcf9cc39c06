------------------------------- MODULE Blobs -------------------------------
(***************************************************************************)
(* Blobs: the tables _chimpbase_blobs, _chimpbase_blob_uploads and         *)
(* _chimpbase_blob_upload_parts of pg, the files of the filesystem driver, *)
(* and the engines that put, copy, delete, upload and collect.             *)
(*                                                                         *)
(* An operation reads what it needs, changes files, then writes its rows;  *)
(* they are committed with the transaction of the handler that called it.  *)
(* The files know no transactions: what a rollback or a crash finds done   *)
(* to them stays.  (A handler without one, a route, is the case in which   *)
(* the commit follows at once.)                                            *)
(*                                                                         *)
(* A file is a path and an inode: whoever has opened an inode keeps it     *)
(* when the path is removed or renamed over.  Bytes are a sequence of      *)
(* bodies, or torn, while somebody writes them or after two have.  A row   *)
(* tells of its bytes by their size and hash; here it holds what was       *)
(* hashed.                                                                 *)
(***************************************************************************)
EXTENDS Integers, FiniteSets, SequencesExt

CONSTANTS
  Clients,      \* engines at work
  Keys,         \* keys (of one bucket)
  Uploads,      \* ids of multipart uploads
  PartNumbers,
  Bodies,       \* what is put, or written as a part
  None,         \* NULL; no row
  Torn,         \* the bytes of a file that is being written, or that two have written
  Stores,       \* ways of using it, of which a behaviour picks one
  MaxFaults     \* bound: operations that fail for reasons of their own

Kinds == {"put", "copy", "delete", "create", "part", "complete", "abort", "gc"}

(* A way of using the store: the operations that there are, and whether    *)
(* two of them may start in the same millisecond; and a bound of them.     *)
BlobsAssumption ==
  /\ IsFiniteSet(Clients) /\ IsFiniteSet(Keys) /\ IsFiniteSet(Uploads)
  /\ Keys \cap Uploads = {} /\ Keys \cap (Uploads \X PartNumbers) = {} /\ None \notin Keys \cup Uploads \cup Kinds \cup {"open"}
  /\ \A body \in Bodies : <<body>> # Torn
  /\ Stores # {}
  /\ \A store \in Stores : store.kinds \subseteq Kinds /\ store.sameMs \in BOOLEAN /\ store.maxOps \in Nat
  /\ PartNumbers \subseteq Nat /\ IsFiniteSet(PartNumbers)
  /\ MaxFaults \in Nat

VARIABLES
  store,
  row,      \* _chimpbase_blobs: the hash of each key
  upload,   \* _chimpbase_blob_uploads
  part,     \* _chimpbase_blob_upload_parts: the hash of each part
  file,     \* the inode of each path
  data,     \* the bytes of each inode
  task,     \* what each client is doing
  clean,    \* history: nothing has gone wrong with a key or an upload
  ops, faults

vars == <<store, row, upload, part, file, data, task, clean, ops, faults>>
tables == <<row, upload, part>>
files == <<file, data>>

NoInode == 0
Paths == Keys \cup (Uploads \X PartNumbers)
Inodes == 1..(Cardinality(Paths) + 2 * Cardinality(Clients))
Staged(u) == {u} \X PartNumbers

Idle == [op |-> None, at |-> "idle", key |-> None, from |-> None, up |-> None, number |-> 0, parts |-> {},
         bytes |-> None, in |-> NoInode, out |-> NoInode, alone |-> TRUE, touched |-> {}]
Free == [bytes |-> None, mixed |-> FALSE]

Init ==
  /\ store \in Stores
  /\ row = [k \in Keys |-> None]
  /\ upload = [u \in Uploads |-> [state |-> None, key |-> None]]
  /\ part = [u \in Uploads |-> [n \in PartNumbers |-> None]]
  /\ file = [p \in Paths |-> NoInode]
  /\ data = [i \in Inodes |-> Free]
  /\ task = [c \in Clients |-> Idle]
  /\ clean = [t \in Keys \cup Uploads |-> TRUE]
  /\ ops = 0 /\ faults = 0
-----------------------------------------------------------------------------
(* What an operation changes in the end. *)
Targets(t) == {t.key, t.up} \ {None}

(* An operation starts; if it has a target in common with another one,     *)
(* neither of them is alone.                                               *)
Start(c, new) ==
  LET rivals == {d \in Clients : Targets(task[d]) \cap Targets(new) # {}} IN
  /\ task[c] = Idle
  /\ new.op \in store.kinds
  /\ ops < store.maxOps /\ ops' = ops + 1
  /\ task' = [d \in Clients |-> IF d = c THEN [new EXCEPT !.alone = (rivals = {})]
                                ELSE [task[d] EXCEPT !.alone = @ /\ d \notin rivals]]

Goes(c, new) == task' = [task EXCEPT ![c] = new]
At(c, op, at) == task[c].op = op /\ task[c].at = at

(* The operation throws: its transaction rolls back, its files stay. *)
Fails(c) ==
  /\ task' = [task EXCEPT ![c] = Idle]
  /\ clean' = [t \in DOMAIN clean |-> clean[t] /\ t \notin task[c].touched]

(* Inodes; one that has neither a path nor a handle is free again. *)
Writers(i) == {c \in Clients : task[c].out = i}
InUse(i) == (\E p \in Paths : file[p] = i) \/ \E c \in Clients : i \in {task[c].in, task[c].out}
Fresh == CHOOSE i \in Inodes : ~InUse(i)
Inode(p) == IF file[p] = NoInode THEN Fresh ELSE file[p]
Stored(d) == data' = [i \in Inodes |-> IF InUse(i)' THEN d[i] ELSE Free]

(* createWriteStream empties the file; then there are the bytes so far. *)
Opened(i) == [data EXCEPT ![i] = [bytes |-> Torn, mixed |-> Writers(i) # {}]]

(* The writer's end of the stream; two writers mix their bytes. *)
Written(i, bytes) == IF data[i].mixed THEN {bytes, Torn} ELSE {bytes}
Holding(i, bytes) == [data EXCEPT ![i].bytes = bytes]
-----------------------------------------------------------------------------
Streaming(k) == {task[c].out : c \in {d \in Clients : At(d, "put", "streaming") /\ task[d].key = k}}

(***************************************************************************)
(* put: the body is streamed into a temporary file, whose name is that of  *)
(* the object with the time, and which is then renamed.  A precondition    *)
(* that does not hold ends it before that.                                 *)
(***************************************************************************)
PutOpen(c, k, body) ==
  \E i \in {Fresh} \cup (IF store.sameMs THEN Streaming(k) ELSE {}) :
    /\ Start(c, [Idle EXCEPT !.op = "put", !.at = "streaming", !.key = k, !.bytes = <<body>>, !.out = i])
    /\ data' = Opened(i)
    /\ UNCHANGED <<store, tables, file, clean, faults>>

(* The path leads to the new bytes.  Another put that streams into the     *)
(* same temporary file does not find it any more.                          *)
PutRename(c) ==
  /\ At(c, "put", "streaming")
  /\ LET i == task[c].out IN
     /\ file' = [file EXCEPT ![task[c].key] = i]
     /\ task' = [d \in Clients |->
          IF d = c THEN [task[d] EXCEPT !.at = "stored", !.out = NoInode, !.touched = {task[c].key}]
          ELSE IF d \in Writers(i) THEN [task[d] EXCEPT !.at = "robbed", !.touched = {task[c].key}]
          ELSE task[d]]
     /\ \E bytes \in Written(i, task[c].bytes) : Stored(Holding(i, bytes))
  /\ UNCHANGED <<store, tables, clean, ops, faults>>

PutRobbed(c) ==
  /\ At(c, "put", "robbed")
  /\ UNCHANGED <<store, tables, file, ops, faults>>
  /\ Fails(c)
  /\ \E bytes \in Written(task[c].out, task[c].bytes) : Stored(Holding(task[c].out, bytes))

(* copy: the source's row is read, then its file goes into the target's,   *)
(* which is emptied first, also when there is no source or when it is the  *)
(* target.                                                                 *)
CopyLookup(c, from, k) ==
  /\ row[from] # None
  /\ Start(c, [Idle EXCEPT !.op = "copy", !.at = "found", !.key = k, !.from = from])
  /\ UNCHANGED <<store, tables, files, clean, faults>>

(* Opens path p for writing; k is what that puts at risk. *)
OpensPath(c, p, from, k) ==
  LET i == Inode(p) IN
  /\ file' = [file EXCEPT ![p] = i]
  /\ data' = Opened(i)
  /\ Goes(c, [task[c] EXCEPT !.at = "writing", !.out = i, !.in = from, !.touched = task[c].touched \cup {k}])

CopyOpen(c) ==
  /\ At(c, "copy", "found")
  /\ OpensPath(c, task[c].key, file[task[c].from], task[c].key)
  /\ UNCHANGED <<store, tables, clean, ops, faults>>

CopyEnd(c) ==
  /\ At(c, "copy", "writing") /\ task[c].in # NoInode
  /\ UNCHANGED <<store, tables, file, clean, ops, faults>>
  /\ LET i == task[c].out
         source == IF task[c].in = i THEN <<>> ELSE data[task[c].in].bytes IN
     /\ Goes(c, [task[c] EXCEPT !.at = "stored", !.in = NoInode, !.out = NoInode, !.bytes = source])
     /\ \E bytes \in Written(i, source) : Stored(Holding(i, bytes))

CopyFindsNothing(c) ==
  /\ At(c, "copy", "writing") /\ task[c].in = NoInode
  /\ UNCHANGED <<store, tables, file, ops, faults>>
  /\ Fails(c) /\ Stored(data)

(* delete, and each key of deleteMany: the file goes before the row. *)
DeleteLookup(c, k) ==
  /\ row[k] # None
  /\ Start(c, [Idle EXCEPT !.op = "delete", !.at = "found", !.key = k])
  /\ UNCHANGED <<store, tables, files, clean, faults>>

Rm(c) ==
  /\ At(c, "delete", "found")
  /\ file' = [file EXCEPT ![task[c].key] = NoInode]
  /\ Goes(c, [task[c] EXCEPT !.at = "stored", !.touched = {task[c].key}])
  /\ Stored(data)
  /\ UNCHANGED <<store, tables, clean, ops, faults>>
-----------------------------------------------------------------------------
(* createUpload.  Its id is new; the client keeps it, and may use it long  *)
(* after its row is gone.                                                  *)
CreateUpload(c, u, k) ==
  /\ upload[u].state = None /\ \A d \in Clients : task[d].up # u
  /\ Start(c, [Idle EXCEPT !.op = "create", !.at = "stored", !.key = k, !.up = u])
  /\ UNCHANGED <<store, tables, files, clean, faults>>

(* writePart: putPart writes the part's file in place. *)
PartLookup(c, u, n, body) ==
  /\ upload[u].state # None
  /\ Start(c, [Idle EXCEPT !.op = "part", !.at = "found", !.up = u, !.number = n, !.bytes = <<body>>])
  /\ UNCHANGED <<store, tables, files, clean, faults>>

PartOpen(c) ==
  /\ At(c, "part", "found")
  /\ OpensPath(c, <<task[c].up, task[c].number>>, NoInode, task[c].up)
  /\ UNCHANGED <<store, tables, clean, ops, faults>>

PartEnd(c) ==
  /\ At(c, "part", "writing")
  /\ UNCHANGED <<store, tables, file, clean, ops, faults>>
  /\ Goes(c, [task[c] EXCEPT !.at = "stored", !.out = NoInode])
  /\ \E bytes \in Written(task[c].out, task[c].bytes) : Stored(Holding(task[c].out, bytes))

(* The bytes of some parts, in the order of their numbers. *)
Joined(bytes) ==
  LET order == SetToSortSeq(DOMAIN bytes, <) IN
  IF \E n \in DOMAIN bytes : bytes[n] = Torn THEN Torn ELSE FlattenSeq([i \in 1..Len(order) |-> bytes[order[i]]])
RecordedParts(u) == {n \in PartNumbers : part[u][n] # None}

(* complete: the parts are listed; the files that their rows name are      *)
(* written one after the other into the object's, in place; the directory  *)
(* of the parts goes; at last the rows are written.                        *)
ListParts(c, u) ==
  /\ RecordedParts(u) # {}
  /\ Start(c, [Idle EXCEPT !.op = "complete", !.at = "found", !.key = upload[u].key, !.up = u,
                           !.parts = RecordedParts(u), !.bytes = Joined([n \in RecordedParts(u) |-> part[u][n]])])
  /\ UNCHANGED <<store, tables, files, clean, faults>>

AssembleOpen(c) ==
  /\ At(c, "complete", "found")
  /\ OpensPath(c, task[c].key, NoInode, task[c].key)
  /\ UNCHANGED <<store, tables, clean, ops, faults>>

PartFile(c, n) == file[<<task[c].up, n>>]
PartMissing(c) == \E n \in task[c].parts : PartFile(c, n) = NoInode

AssembleEnd(c) ==
  /\ At(c, "complete", "writing") /\ ~PartMissing(c)
  /\ UNCHANGED <<store, tables, file, clean, ops, faults>>
  /\ Goes(c, [task[c] EXCEPT !.at = "assembled", !.out = NoInode])
  /\ LET all == Joined([n \in task[c].parts |-> data[PartFile(c, n)].bytes]) IN
     \E bytes \in Written(task[c].out, all) : Stored(Holding(task[c].out, bytes))

AssembleFindsNothing(c) ==
  /\ At(c, "complete", "writing") /\ PartMissing(c)
  /\ UNCHANGED <<store, tables, file, ops, faults>>
  /\ Fails(c) /\ Stored(data)

AbortLookup(c, u) ==
  /\ upload[u].state # None
  /\ Start(c, [Idle EXCEPT !.op = "abort", !.at = "assembled", !.up = u])
  /\ UNCHANGED <<store, tables, files, clean, faults>>

(* abortUpload, and the end of assemble. *)
RmParts(c) ==
  /\ task[c].at = "assembled"
  /\ file' = [p \in Paths |-> IF p \in Staged(task[c].up) THEN NoInode ELSE file[p]]
  /\ Goes(c, [task[c] EXCEPT !.at = "stored", !.touched = Targets(task[c]), !.parts = {}])
  /\ Stored(data)
  /\ UNCHANGED <<store, tables, clean, ops, faults>>

(* rm fails, some files gone or none: assemble goes on and leaves the      *)
(* others, abortUpload throws.                                             *)
RmFails(c) ==
  /\ task[c].at = "assembled"
  /\ faults < MaxFaults /\ faults' = faults + 1
  /\ \E gone \in SUBSET Staged(task[c].up) :
       file' = [p \in Paths |-> IF p \in gone THEN NoInode ELSE file[p]]
  /\ IF task[c].op = "complete"
     THEN Goes(c, [task[c] EXCEPT !.at = "stored", !.touched = Targets(task[c])]) /\ UNCHANGED clean
     ELSE Goes(c, Idle) /\ clean' = [clean EXCEPT ![task[c].up] = FALSE]
  /\ Stored(data)
  /\ UNCHANGED <<store, tables, ops>>

(* The cron job that deletes the rows of expired uploads. *)
CollectExpired(c, u) ==
  /\ upload[u].state = "open"
  /\ Start(c, [Idle EXCEPT !.op = "gc", !.at = "stored", !.up = u])
  /\ UNCHANGED <<store, tables, files, clean, faults>>
-----------------------------------------------------------------------------
(***************************************************************************)
(* The last statement of an operation.  Rows that another transaction has  *)
(* written stay locked until it ends; a part's row needs its upload's.     *)
(***************************************************************************)
SameRow(t, u) ==
  /\ Targets(t) \cap Targets(u) # {}
  /\ ~(t.op = "part" /\ u.op = "part" /\ t.number # u.number)
Waits(c) == \E d \in Clients \ {c} : task[d].at = "written" /\ SameRow(task[c], task[d])

HasUpload(c) == task[c].op = "part" => upload[task[c].up].state = "open"

Write(c) ==
  /\ task[c].at = "stored" /\ ~Waits(c) /\ HasUpload(c)
  /\ Goes(c, [task[c] EXCEPT !.at = "written"])
  /\ UNCHANGED <<store, tables, files, clean, ops, faults>>

WriteRefused(c) ==
  /\ task[c].at = "stored" /\ ~Waits(c) /\ ~HasUpload(c)
  /\ Fails(c)
  /\ UNCHANGED <<store, tables, files, ops, faults>>

NoParts == [n \in PartNumbers |-> None]
Ends == {"complete", "abort", "gc"}

(* Mutant of NewRow: INSERT ... ON CONFLICT DO NOTHING. *)
NewRowOnce(t) ==
  CASE t.op \in {"put", "copy", "complete"} -> [row EXCEPT ![t.key] = IF @ = None THEN t.bytes ELSE @]
    [] t.op = "delete"                      -> [row EXCEPT ![t.key] = None]
    [] OTHER                                -> row

(* INSERT ... ON CONFLICT DO UPDATE, and DELETE. *)
NewRow(t) ==
  CASE t.op \in {"put", "copy", "complete"} -> [row EXCEPT ![t.key] = t.bytes]
    [] t.op = "delete"                      -> [row EXCEPT ![t.key] = None]
    [] OTHER                                -> row

NewUpload(t) ==
  CASE t.op = "create"                                 -> [upload EXCEPT ![t.up] = [state |-> "open", key |-> t.key]]
    [] t.op \in Ends /\ upload[t.up].state = "open"    -> [upload EXCEPT ![t.up].state = t.op]
    [] OTHER                                           -> upload

(* The rows of the parts go with the row of their upload. *)
NewPart(t) ==
  CASE t.op = "part"  -> [part EXCEPT ![t.up][t.number] = t.bytes]
    [] t.op \in Ends  -> [part EXCEPT ![t.up] = NoParts]
    [] OTHER          -> part

(***************************************************************************)
(* What is clean after it: the targets of an operation that was alone with *)
(* them.  A put or a copy makes up for all that was before; a part does    *)
(* not for the other parts, an object is as good as its parts, and the     *)
(* upload is not if some of their files may be left.                       *)
(***************************************************************************)
Sound(t, x) == t.alone /\ (t.op \in {"part", "complete"} => clean[t.up]) /\ (x = t.up => t.parts = {})

Commit(c) ==
  /\ task[c].at = "written"
  /\ LET t == task[c] IN
     /\ row' = NewRow(t) /\ upload' = NewUpload(t) /\ part' = NewPart(t)
     /\ clean' = [x \in DOMAIN clean |-> IF x \in Targets(t) /\ t.op \notin {"create", "gc"} THEN Sound(t, x) ELSE clean[x]]
  /\ task' = [task EXCEPT ![c] = Idle]
  /\ UNCHANGED <<store, files, ops, faults>>

(* A statement fails, a stream breaks, a later one of the handler's steps  *)
(* throws, or the process dies: rows and files are left in the same way.   *)
Fail(c) ==
  /\ task[c].at # "idle"
  /\ UNCHANGED <<store, tables, file, ops>>
  /\ faults < MaxFaults /\ faults' = faults + 1
  /\ Fails(c) /\ Stored(data)

Object(c) ==
  \/ \E k \in Keys : DeleteLookup(c, k) \/ (\E b \in Bodies : PutOpen(c, k, b)) \/ \E from \in Keys : CopyLookup(c, from, k)
  \/ PutRename(c) \/ PutRobbed(c) \/ CopyOpen(c) \/ CopyEnd(c) \/ CopyFindsNothing(c) \/ Rm(c)

Multipart(c) ==
  \/ \E u \in Uploads :
       \/ \E k \in Keys : CreateUpload(c, u, k)
       \/ \E n \in PartNumbers, b \in Bodies : PartLookup(c, u, n, b)
       \/ ListParts(c, u) \/ AbortLookup(c, u) \/ CollectExpired(c, u)
  \/ PartOpen(c) \/ PartEnd(c) \/ AssembleOpen(c) \/ AssembleEnd(c) \/ AssembleFindsNothing(c)
  \/ RmParts(c) \/ RmFails(c)

Next == \E c \in Clients : Object(c) \/ Multipart(c) \/ Write(c) \/ WriteRefused(c) \/ Commit(c) \/ Fail(c)

Spec == Init /\ [][Next]_vars
-----------------------------------------------------------------------------
Quiet(target) == clean[target] /\ \A c \in Clients : target \notin Targets(task[c])
Agrees(hash, p) == IF file[p] = NoInode THEN hash = None ELSE hash = data[file[p]].bytes

(***************************************************************************)
(* Metadata and bytes: after an operation that was alone with an object    *)
(* and has committed, the object has a row if and only if it has a file,   *)
(* with the bytes that the row tells of, whatever had failed before.       *)
(* Nothing but an operation that fails after it has touched the file, or   *)
(* two at one time, can part them.  The same holds for the parts of an     *)
(* upload; when it is aborted none of its files is left, nor when it is    *)
(* completed, unless they could not be removed: those stay, as the files   *)
(* of one that expires all do.  And where objects are only put             *)
(* and deleted, not two of them at the same millisecond, a path never      *)
(* leads to half an object, however many write it, fail or crash.          *)
(***************************************************************************)
ObjectsAgree ==
  /\ \A k \in Keys : Quiet(k) => Agrees(row[k], k)
  /\ \A u \in Uploads : Quiet(u) /\ upload[u].state # "gc" => \A n \in PartNumbers : Agrees(part[u][n], <<u, n>>)
  /\ store.kinds \subseteq {"put", "delete"} /\ ~store.sameMs =>
       \A k \in Keys : file[k] # NoInode => data[file[k]].bytes # Torn
=============================================================================
