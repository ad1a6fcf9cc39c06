-------------------------- MODULE RestCollections --------------------------
(***************************************************************************)
(* The REST plugin: routes over collections.  A document's content is in   *)
(* the format of some schema version; the version that is kept beside it,  *)
(* in a metadata document, is the one that its last writer was configured  *)
(* with.  An application's onWrite, if it has one, brings the content into *)
(* that format; without one, what the client sent is written as it is.     *)
(* Processes that are configured differently serve the same collection, as *)
(* in a deployment; each request is a transaction, statement by statement. *)
(***************************************************************************)
EXTENDS DocumentStore, Sequences

CONSTANTS
  Documents, Metadata,  \* ids of documents: random
  Legacy,               \* documents from before there was metadata
  Version,              \* schemaVersion, as a process is configured
  Rewriters,            \* processes that have an onWrite
  MaxRequests,          \* bound: requests
  MaxFaults             \* bound: crashes

VARIABLES
  task,     \* what a process is doing
  budget,   \* requests and faults that are left
  answered  \* history: a document's content, by the updates that were answered

restVars == <<task, budget, answered>>
vars == <<restVars, storeVars>>

(* What a process is doing: with which document, by which patch; what was  *)
(* found of it, its version and its metadata.                              *)
Task(op, at, d, patch) ==
  [op |-> op, at |-> at, id |-> d, patch |-> patch, seen |-> None, version |-> None, meta |-> None]
Idle == Task("idle", "idle", None, Nothing)
LegacyVersion == 1
Content(doc) == [f \in DOMAIN doc \ {"coll"} |-> doc[f]]
LegacyDocument == [coll |-> "doc", a |-> 0, b |-> 0, format |-> LegacyVersion, by |-> None]

(* The version that is told for a document, by its last writer. *)
Told(doc) == IF doc.by = None THEN LegacyVersion ELSE Version[doc.by]

(* What is stored: orders, with a history of who wrote them last, and      *)
(* their versions.  Nothing else is one of them.                           *)
Versions == {LegacyVersion} \cup {Version[p] : p \in Procs}
OrderDocs ==
  {doc \in [coll : {"doc"}, a : {0, 1}, b : {0, 1}, format : Versions, by : Procs \cup {None}] :
     doc.by \in Rewriters \cup {None} => doc.format = Told(doc)}
VersionDocs == [coll : {"meta"}, of : Documents, version : Versions]

RestConstants ==
  /\ Rewriters \subseteq Procs /\ None \notin Procs
  /\ Documents \cap Metadata = {} /\ Docs = Documents \cup Metadata /\ Legacy \subseteq Documents
  /\ Unused # Gone /\ \A doc \in OrderDocs \cup VersionDocs : Exists(doc) /\ doc # None
  /\ \A doc \in OrderDocs : Content(doc) # None

Init ==
  /\ StoreInit([d \in Docs |-> IF d \in Legacy THEN LegacyDocument ELSE Unused], Nothing)
  /\ task = [p \in Procs |-> Idle]
  /\ budget = [requests |-> MaxRequests, faults |-> MaxFaults]
  /\ answered = [d \in Documents |-> IF d \in Legacy THEN Content(LegacyDocument) ELSE None]

At(p, op, place) == task[p].op = op /\ task[p].at = place
Goto(p, place) == task' = [task EXCEPT ![p].at = place]
Rest(p) == task' = [task EXCEPT ![p] = Idle]
-----------------------------------------------------------------------------
(* Options.  A number is positive, or the plugin throws; a collection      *)
(* enables at least one method; no two have a path in common.              *)
RestMethods == {"list", "get", "create", "update", "delete"}
PositiveInteger(n) == n \in Nat /\ n > 0

ValidCollections(collections) ==
  /\ \A c \in collections :
       /\ c.methods # {} /\ c.methods \subseteq RestMethods
       /\ PositiveInteger(c.maxLimit) /\ PositiveInteger(c.defaultLimit)
       /\ c.defaultLimit <= c.maxLimit
       /\ c.schemaVersion = None \/ PositiveInteger(c.schemaVersion)
  /\ \A c, d \in collections : c # d => c.path # d.path

Orders == [path |-> <<"orders">>, methods |-> RestMethods, maxLimit |-> 100, defaultLimit |-> 50,
           filters |-> [status |-> "string", paid |-> "boolean", total |-> "number"],
           writable |-> {"a", "b"}, schemaVersion |-> LegacyVersion]

(* A text that a parser takes: any string, a boolean's name, a number.     *)
FilterValue(parser, kind) ==
  CASE parser = "string" -> TRUE
    [] parser = "boolean" -> kind = "boolean"
    [] parser = "number" -> kind = "number"

(* The parameters of a list: each a known filter with a value that parses, *)
(* or a limit, which is cut to the maximum.                                *)
ParsesListInput(c, params) ==
  /\ \A f \in DOMAIN params.filter : f \in DOMAIN c.filters /\ FilterValue(c.filters[f], params.filter[f])
  /\ params.limit = None \/ PositiveInteger(params.limit)
Limit(c, params) ==
  IF params.limit = None THEN c.defaultLimit
  ELSE IF params.limit < c.maxLimit THEN params.limit ELSE c.maxLimit

(* The id and the version are not the client's to write. *)
WritableDocument(c, fields) ==
  /\ "id" \notin fields
  /\ c.schemaVersion # None => "schemaVersion" \notin fields
  /\ c.writable # None => fields \subseteq c.writable

MatchesItem(path, prefix) == Len(path) = Len(prefix) + 1 /\ SubSeq(path, 1, Len(prefix)) = prefix

CollectionOperation(method) ==
  CASE method = "GET" -> "list" [] method = "POST" -> "create" [] OTHER -> "not allowed"
DocumentOperation(method) ==
  CASE method = "GET" -> "get" [] method = "PATCH" -> "update" [] method = "DELETE" -> "delete"
    [] OTHER -> "not allowed"
Allowed(c, ops) == {o \in ops : o \in c.methods}

Operation(c, method, path) ==
  IF path = c.path THEN Allowed(c, {CollectionOperation(method)})
  ELSE IF MatchesItem(path, c.path) THEN Allowed(c, {DocumentOperation(method)})
  ELSE {"next"}
-----------------------------------------------------------------------------
MetaOf(p, d) == {m \in Found(p, "meta") : Doc(p, m).of = d}

(* A bug: the version in the content goes before that of the metadata. *)
LegacyVersionFirst(p, d) ==
  LET metas == MetaOf(p, d)
  IN IF d \in Legacy THEN LegacyVersion
     ELSE IF metas # {} THEN Doc(p, CHOOSE m \in metas : TRUE).version ELSE None

(* What stands for a document without metadata: the version in its content.*)
ResolveSchemaVersion(p, d) ==
  LET metas == MetaOf(p, d)
  IN IF metas # {} THEN Doc(p, CHOOSE m \in metas : TRUE).version
     ELSE IF d \in Legacy THEN LegacyVersion ELSE None

(* onWrite is given the document as it is, and leaves the whole content in *)
(* the configured format; without one the input stays as it is.            *)
ApplyWriteTransform(p, input) == IF p \in Rewriters THEN Over([format |-> Version[p]], input) ELSE input

(* What is written, and by whom. *)
Written(p, input) == Over([by |-> p], ApplyWriteTransform(p, input))

Patches == {[a |-> 1], [b |-> 1]}

Request(p, d, method, path, fields, t) ==
  /\ task[p] = Idle /\ budget.requests > 0
  /\ t.op \in Operation(Orders, method, path)
  /\ WritableDocument(Orders, fields)
  /\ Begin(p, d)
  /\ task' = [task EXCEPT ![p] = t]
  /\ budget' = [budget EXCEPT !.requests = @ - 1]
  /\ UNCHANGED answered

Requests(p) ==
  \E d \in Documents :
    LET item == <<"orders", d>>
    IN \/ Request(p, d, "GET", item, {}, Task("get", "find", d, Nothing))
       \/ /\ ParsesListInput(Orders, [filter |-> [paid |-> "boolean"], limit |-> 500])
          /\ Limit(Orders, [filter |-> Nothing, limit |-> 500]) = 100
          /\ Request(p, d, "GET", <<"orders">>, {}, Task("list", "find", d, Nothing))
       \/ /\ rows[d] = Unused
          /\ Request(p, d, "POST", <<"orders">>, {"a", "b"}, Task("create", "insert", d, Nothing))
       \/ \E patch \in Patches :
            Request(p, d, "PATCH", item, DOMAIN patch, Task("update", "find", d, patch))
       \/ Request(p, d, "DELETE", item, {}, Task("delete", "find", d, Nothing))

(* get, list and update find the document, and then its version.           *)
Find(p) ==
  /\ task[p].op \in {"get", "list", "update"} /\ task[p].at = "find"
  /\ LET doc == Doc(p, task[p].id)
     IN task' = [task EXCEPT ![p] =
          IF Exists(doc) THEN [@ EXCEPT !.seen = doc, !.at = "resolve"] ELSE [@ EXCEPT !.at = "commit"]]
  /\ UNCHANGED <<budget, answered, storeVars>>

Resolve(p) ==
  /\ task[p].op \in {"get", "list", "update"} /\ task[p].at = "resolve"
  /\ LET t == task[p]
     IN task' = [task EXCEPT ![p] =
          [t EXCEPT !.version = ResolveSchemaVersion(p, t.id), !.at = IF t.op = "update" THEN "read" ELSE "commit"]]
  /\ UNCHANGED <<budget, answered, storeVars>>

(* The SELECT and the UPDATE of collectionUpdate. *)
ReadBack(p) ==
  /\ At(p, "update", "read")
  /\ LET doc == Doc(p, task[p].id)
     IN task' = [task EXCEPT ![p] = IF Exists(doc) THEN [@ EXCEPT !.seen = doc, !.at = "write"]
                                                  ELSE [@ EXCEPT !.at = "meta"]]
  /\ UNCHANGED <<budget, answered, storeVars>>

Update(p) ==
  /\ At(p, "update", "write")
  /\ UpdateRow(p, task[p].id, task[p].seen, Written(p, task[p].patch))
  /\ Goto(p, "meta")
  /\ UNCHANGED <<budget, answered>>

(* A client sends a document in any format. *)
Create(p) ==
  /\ At(p, "create", "insert")
  /\ \E f \in Versions :
       CollectionInsert(p, task[p].id, Merge([coll |-> "doc"], Written(p, [a |-> 0, b |-> 0, format |-> f])))
  /\ Goto(p, "meta")
  /\ UNCHANGED <<budget, answered>>

(* persistSchemaVersion: an update, and if it finds nothing, an insert.    *)
(* It does not ask whether the document is still there.  Nothing but the   *)
(* version of a metadata document ever changes.                            *)
PersistFind(p) ==
  /\ task[p].op \in {"create", "update"} /\ task[p].at = "meta"
  /\ LET metas == MetaOf(p, task[p].id)
     IN task' = [task EXCEPT ![p] =
          IF metas = {} THEN [@ EXCEPT !.at = "metaInsert"]
          ELSE [Task(@.op, "metaUpdate", @.id, @.patch) EXCEPT !.meta = CHOOSE m \in metas : TRUE]]
  /\ UNCHANGED <<budget, answered, storeVars>>

PersistUpdate(p) ==
  /\ task[p].op \in {"create", "update"} /\ task[p].at = "metaUpdate"
  /\ UpdateRow(p, task[p].meta, Doc(p, task[p].meta), [version |-> Version[p]])
  /\ Goto(p, "commit")
  /\ UNCHANGED <<budget, answered>>

PersistInsert(p) ==
  /\ task[p].op \in {"create", "update"} /\ task[p].at = "metaInsert"
  /\ \E m \in Metadata :
       CollectionInsert(p, m, [coll |-> "meta", of |-> task[p].id, version |-> Version[p]])
  /\ Goto(p, "commit")
  /\ UNCHANGED <<budget, answered>>

(* collectionDelete counts what its SELECT found, then deletes each.  The  *)
(* same of the metadata is one step: its document is locked or gone.       *)
FindDeleted(p) ==
  /\ At(p, "delete", "find")
  /\ Goto(p, IF Exists(Doc(p, task[p].id)) THEN "delete" ELSE "commit")
  /\ UNCHANGED <<budget, answered, storeVars>>

Delete(p) ==
  /\ At(p, "delete", "delete")
  /\ DeleteRow(p, task[p].id)
  /\ Goto(p, "metaDelete")
  /\ UNCHANGED <<budget, answered>>

DeleteMetadata(p) ==
  /\ At(p, "delete", "metaDelete")
  /\ LET metas == MetaOf(p, task[p].id)
     IN /\ \A m \in metas : ~Locked(p, m)
        /\ tx' = [tx EXCEPT ![p].docs = Over([m \in metas |-> Gone], @)]
  /\ Goto(p, "commit")
  /\ UNCHANGED <<budget, answered, rows, kv, met>>

(* What is stored is read again and answered; the history is what each     *)
(* answer said, one after the other.                                       *)
Answer(p) ==
  /\ task[p] # Idle /\ task[p].at = "commit"
  /\ Commit(p) /\ Rest(p)
  /\ LET t == task[p]  d == t.id
     IN answered' = [answered EXCEPT ![d] =
          CASE t.op = "create" -> Content(Doc(p, d))
            [] t.op = "update" /\ @ # None -> Over(Written(p, t.patch), @)
            [] t.op = "delete" -> None
            [] OTHER -> @]
  /\ UNCHANGED budget

(* onWrite throws or returns what applyWriteTransform refuses, or onRead   *)
(* throws; the answer of a list or get, a create or an update.             *)
TransformThrows(p) ==
  /\ LET t == task[p]
     IN \/ p \in Rewriters /\ (At(p, "create", "insert") \/ At(p, "update", "read"))
        \/ t.at = "commit" /\ t.op \in {"get", "list"} /\ t.seen # None
        \/ t.at = "commit" /\ t.op \in {"create", "update"} /\ t.id \in DOMAIN tx[p].docs
  /\ Rollback(p) /\ Rest(p)
  /\ UNCHANGED <<budget, answered>>

Crash(p) ==
  /\ task[p] # Idle /\ budget.faults > 0
  /\ budget' = [budget EXCEPT !.faults = @ - 1]
  /\ Rollback(p) /\ Rest(p)
  /\ UNCHANGED answered

Next ==
  \E p \in Procs :
    \/ Requests(p) \/ Find(p) \/ Resolve(p) \/ ReadBack(p) \/ Update(p) \/ Create(p)
    \/ PersistFind(p) \/ PersistUpdate(p) \/ PersistInsert(p)
    \/ FindDeleted(p) \/ Delete(p) \/ DeleteMetadata(p) \/ Answer(p) \/ TransformThrows(p) \/ Crash(p)

Spec == Init /\ [][Next]_vars
-----------------------------------------------------------------------------
(* A document has one version at most, the one that its last writer was    *)
(* configured with, even if updates by processes of different versions     *)
(* meet: the first to write the document is the first to write its         *)
(* metadata.  It is the format of the content if that writer has an        *)
(* onWrite; otherwise the content is as old as it was.  Metadata outlives  *)
(* its document only if requests met.  And onRead and onWrite are told the *)
(* version of the last writer of the content that they are given, unless   *)
(* requests on the document meet.                                          *)
VersionsAgree ==
  LET metas == {m \in Metadata : Exists(rows[m])}
  IN /\ \A d \in Documents : Exists(rows[d]) =>
          /\ \A m, n \in metas : rows[m].of = d /\ rows[n].of = d => m = n
          /\ \A m \in metas : rows[m].of = d =>
               /\ rows[m].version = Told(rows[d])
               /\ rows[d].by \in Rewriters => rows[m].version = rows[d].format
     /\ \A m \in metas : rows[m].of \notin met => Exists(rows[rows[m].of])
     /\ \A p \in Procs : task[p].id \notin met /\ task[p].seen # None /\ task[p].at # "resolve" =>
          task[p].version = Told(task[p].seen)

(* What an update was answered stays, field by field, until a later one    *)
(* writes the field, unless requests on the document meet.                 *)
UpdatesKept ==
  \A d \in Documents \ met :
    answered[d] = IF Exists(rows[d]) THEN Content(rows[d]) ELSE None
=============================================================================
