--------------------------- MODULE DocumentStore ---------------------------
(***************************************************************************)
(* Collections and keys in PostgreSQL, as the transactions of several      *)
(* processes meet in them: READ COMMITTED, a step for each statement.  An  *)
(* engine has one transaction at a time; a plugin's action is one.         *)
(*                                                                         *)
(* A row that a transaction has written is locked until its end.  A        *)
(* statement that must write it waits, and then sees what was committed.   *)
(* collectionUpdate writes back whole documents that it has read before,   *)
(* in a statement of its own: what another wrote in between is lost.       *)
(***************************************************************************)
EXTENDS Integers, TLC

CONSTANTS
  Procs,   \* processes, an engine each
  Docs,    \* document ids: random, hence never used twice
  Keys,    \* of the key-value table
  Unused,  \* no document yet
  Gone,    \* a document that was deleted
  None     \* no value, no transaction

VARIABLES
  rows,    \* _chimpbase_collections as committed
  kv,      \* _chimpbase_kv as committed: the value, and whether it is alive
  tx,      \* transactions: what each is about, what it has written
  met      \* history: subjects with two transactions at one time

storeVars == <<rows, kv, tx, met>>

Exists(doc) == doc \notin {Unused, Gone}
(* A bug: what the document has already wins. *)
MergeKeeps(doc, patch) == doc @@ patch

(* What is written over what was there. *)
Over(new, old) == [x \in DOMAIN new \cup DOMAIN old |-> IF x \in DOMAIN new THEN new[x] ELSE old[x]]
Merge(doc, patch) == Over(patch, doc)
Nothing == [k \in {} |-> None]

StoreInit(r, k) == rows = r /\ kv = k /\ tx = [p \in Procs |-> None] /\ met = {}

InTx(p) == tx[p] # None
Others(p) == {q \in Procs \ {p} : InTx(q)}

Locked(p, x) == \E q \in Others(p) : x \in DOMAIN tx[q].docs \cup DOMAIN tx[q].keys

(* A transaction about a subject: a document, a user, a key. *)
Begin(p, subject) ==
  /\ ~InTx(p)
  /\ tx' = [tx EXCEPT ![p] = [about |-> subject, docs |-> Nothing, keys |-> Nothing]]
  /\ met' = met \cup {x \in {subject} : \E q \in Others(p) : tx[q].about = subject}
  /\ UNCHANGED <<rows, kv>>

Commit(p) ==
  /\ InTx(p)
  /\ rows' = Over(tx[p].docs, rows)
  /\ kv' = Over(tx[p].keys, kv)
  /\ tx' = [tx EXCEPT ![p] = None]
  /\ UNCHANGED met

Rollback(p) ==
  /\ InTx(p)
  /\ tx' = [tx EXCEPT ![p] = None]
  /\ UNCHANGED <<rows, kv, met>>
-----------------------------------------------------------------------------
(* What a statement of p sees: what is committed, and its own writes. *)
Doc(p, d) == Over(tx[p].docs, rows)[d]
Found(p, coll) == {d \in Docs : Exists(Doc(p, d)) /\ Doc(p, d).coll = coll}

WriteDoc(p, d, doc) == tx' = [tx EXCEPT ![p].docs = Over([x \in {d} |-> doc], @)]

CollectionInsert(p, d, doc) ==
  /\ rows[d] = Unused /\ \A q \in Procs : InTx(q) => d \notin DOMAIN tx[q].docs
  /\ WriteDoc(p, d, doc)
  /\ UNCHANGED <<rows, kv, met>>

(* The UPDATE of collectionUpdate, with the document that its SELECT gave. *)
UpdateRow(p, d, read, patch) ==
  /\ ~Locked(p, d)
  /\ IF Exists(Doc(p, d)) THEN WriteDoc(p, d, Merge(read, patch)) ELSE UNCHANGED tx
  /\ UNCHANGED <<rows, kv, met>>

DeleteRow(p, d) ==
  /\ ~Locked(p, d)
  /\ IF Exists(Doc(p, d)) THEN WriteDoc(p, d, Gone) ELSE UNCHANGED tx
  /\ UNCHANGED <<rows, kv, met>>
-----------------------------------------------------------------------------
Entry(p, k) == Over(tx[p].keys, kv)[k]

(* An entry whose time is over is not seen, whether it has been swept or not. *)
KvGet(p, k) == IF Entry(p, k) # None /\ Entry(p, k).alive THEN Entry(p, k).value ELSE None

WriteKey(p, k, e) ==
  /\ tx' = [tx EXCEPT ![p].keys = Over([x \in {k} |-> e], @)]
  /\ UNCHANGED <<rows, kv, met>>

(* INSERT ... ON CONFLICT DO UPDATE: waits for another that inserts the key. *)
KvSet(p, k, v) == ~Locked(p, k) /\ WriteKey(p, k, [value |-> v, alive |-> TRUE])

(* DELETE finds no row to wait for if the other's is not committed yet. *)
KvDelete(p, k) ==
  \/ /\ Entry(p, k) # None /\ ~Locked(p, k)
     /\ WriteKey(p, k, None)
  \/ /\ Entry(p, k) = None
     /\ UNCHANGED storeVars

(* The time of a key runs out. *)
Expire(k) ==
  /\ kv[k] # None /\ kv[k].alive
  /\ kv' = [kv EXCEPT ![k].alive = FALSE]
  /\ UNCHANGED <<rows, tx, met>>
=============================================================================
