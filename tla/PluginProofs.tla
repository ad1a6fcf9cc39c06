---------------------------- MODULE PluginProofs ----------------------------
(***************************************************************************)
(* Theorems about the plugins that keep their documents in collections,    *)
(* for any processes, documents and limits.  Auth: a key that was revoked  *)
(* stays out, and failures in a row end in a block.  REST collections: a   *)
(* document's version is that of its last writer, and what an update was   *)
(* answered stays, unless requests on the document meet.  Webhooks: once   *)
(* per event and hook, a log that agrees with what was received, and no    *)
(* post to a hook that was turned off.                                     *)
(***************************************************************************)
EXTENDS Auth, FiniteSetTheorems, TLAPS

CONSTANTS Documents, Metadata, Legacy, Version, Rewriters, Sources, Verify, Events, Deliveries
VARIABLES answered, published, accepted, emitted, steady, job, received, log, skipped, off

Collections == INSTANCE RestCollections
Hook == INSTANCE Webhooks

Presented == ApiKeys \cup {Bootstrap, Unknown}
Judging == [op : {"guard"}, key : Presented, late : BOOLEAN, required : SUBSET ValidScopes,
            at : {"check", "validate", "fail", "count", "block", "clear", "blocked", "success", "forbidden", "passed", "cleared"}]
Counting == [op : {"guard"}, key : Presented, late : BOOLEAN, count : Nat \ {0}, at : {"set", "refused"}]
Creating == [op : {"createUser"}, id : Users, at : {"insert", "commit"}]
Leaving == [op : {"deleteUser"}, id : Users, at : {"find"}]
Deleting == [op : {"deleteUser"}, id : Users, keys : SUBSET ApiKeys, at : {"next", "commit"}]
Making == [op : {"createApiKey"}, id : ApiKeys, user : Users, scopes : SUBSET (ValidScopes \cup {"other"}),
           at : {"find", "insert", "commit", "throw"}]
Taking == [op : {"revokeApiKey"}, id : ApiKeys, at : {"find", "update", "commit"}]
Managing == Creating \cup Leaving \cup Deleting \cup Making \cup Taking
Tasks == {Idle} \cup Judging \cup Counting \cup Managing

(* A transaction has three parts. *)
Shaped(w) == w = [about |-> w.about, docs |-> w.docs, keys |-> w.keys]

(* What stands for no transaction is none. *)
AuthAssumption == AuthConstants /\ ~Shaped(None)

(* A guard that has not looked the key up yet is in no transaction. *)
Outside(t) == t.op = "idle" \/ (t.op = "guard" /\ t.at \in {"check", "validate"})

(* What the transaction of task t is about. *)
Subject(t) ==
  CASE t.op = "guard" -> Prefix[t.key]
    [] t.op \in {"createUser", "deleteUser"} -> t.id
    [] t.op = "createApiKey" -> t.user
    [] OTHER -> rows[t.id].user

(* The type invariant. *)
TypeOK ==
  /\ task \in [Procs -> Tasks]
  /\ DOMAIN tx = Procs /\ tx = [p \in Procs |-> tx[p]]
  /\ DOMAIN rows = Docs /\ rows = [d \in Docs |-> rows[d]]
  /\ \A u \in Users : rows[u] \in {Unused, User, Gone}
  /\ \A k \in ApiKeys : rows[k] \in {Unused} \cup KeyDocs
  /\ DOMAIN kv = Keys /\ kv = [k \in Keys |-> kv[k]]
  /\ \A x \in Prefixes : kv[CountKey(x)] \in Counts
  /\ streak \in [Prefixes -> Nat]
  /\ ended \subseteq ApiKeys
-----------------------------------------------------------------------------
(***************************************************************************)
(* A failure that is about to be counted knows what the count says, and is *)
(* alone with it unless two have met.  Only what is answered with a        *)
(* refusal leaves a count.                                                 *)
(***************************************************************************)
Counted(t, w) ==
  IF t.op # "guard" THEN DOMAIN w = {}
  ELSE LET x == Prefix[t.key]
       IN /\ DOMAIN w \subseteq {BlockKey(x), CountKey(x)}
          /\ t.at \in {"fail", "count", "set"} => DOMAIN w = {}
          /\ t.at \in {"set", "refused"} /\ x \notin met => streak[x] < t.count /\ t.count < MaxAttempts
          /\ t.at = "refused" => CountKey(x) \in DOMAIN w /\ w[CountKey(x)] = [value |-> t.count, alive |-> TRUE]
          /\ t.at # "refused" /\ CountKey(x) \in DOMAIN w => w[CountKey(x)] = None

(* The count in the table covers the streak. *)
Covered(x) ==
  LET e == kv[CountKey(x)]
  IN IF e # None /\ e.alive THEN streak[x] <= e.value /\ e.value < MaxAttempts ELSE streak[x] = 0
-----------------------------------------------------------------------------
(***************************************************************************)
(* A transaction about user a writes to the user and the user's keys, and  *)
(* to a key that is there already only that it is revoked.                 *)
(***************************************************************************)
Writes(w, a) ==
  /\ DOMAIN w \subseteq Users \cup ApiKeys
  /\ \A u \in DOMAIN w \cap Users : u = a /\ w[u] \in {User, Gone}
  /\ \A k \in DOMAIN w \cap ApiKeys :
       /\ w[k] \in KeyDocs /\ w[k].user = a
       /\ rows[k] # Unused => rows[k].user = a /\ w[k].revoked

(* What writer w sees of key k. *)
Sees(w, k) == Over(w, rows)[k]

(* No key of user u but those in keys is valid as writer w sees it. *)
Only(w, u, keys) == \A k \in ApiKeys \ keys : Exists(rows[k]) /\ rows[k].user = u => Sees(w, k).revoked

(* How far a transaction of each action has come. *)
CreatesUser(t, w) == ApiKeys \cap DOMAIN w = {} /\ \A u \in DOMAIN w : w[u] = User
CreatesKey(t, w) ==
  /\ t.at # "commit" => DOMAIN w = {}
  /\ DOMAIN w \cap Users = {}
  /\ t.at = "insert" => ValidateScopes(t.scopes)
  /\ t.at \in {"insert", "commit"} /\ t.user \notin met => Exists(rows[t.user])
RevokesKey(t, w) ==
  /\ Exists(rows[t.id]) /\ DOMAIN w \subseteq {t.id}
  /\ t.at = "commit" => Sees(w, t.id).revoked
DeletesUser(t, w) ==
  /\ \A k \in DOMAIN w \cap ApiKeys : Exists(rows[k])
  /\ t.at = "find" => DOMAIN w = {}
  /\ t.at = "next" => \A k \in t.keys : Exists(rows[k]) /\ rows[k].user = t.id
  /\ t.at = "next" /\ t.id \notin met => Only(w, t.id, t.keys)
  /\ t.at = "commit" /\ t.id \notin met => Only(w, t.id, {})

HowFar(t, w) ==
  /\ t.op = "guard" => DOMAIN w = {}
  /\ t.op = "createUser" => CreatesUser(t, w)
  /\ t.op = "createApiKey" => CreatesKey(t, w)
  /\ t.op = "revokeApiKey" => RevokesKey(t, w)
  /\ t.op = "deleteUser" => DeletesUser(t, w)

(* A request with a key that is out is refused. *)
Turned(t) ==
  t.op = "guard" /\ t.late =>
    /\ t.key \in ended
    /\ t.at \in {"success", "forbidden", "passed", "cleared"} => rows[t.key].user \in met

Good(t, w) ==
  /\ IF Outside(t) THEN w = None
     ELSE /\ Shaped(w) /\ w.about = Subject(t)
          /\ Counted(t, w.keys) /\ Writes(w.docs, w.about) /\ HowFar(t, w.docs)
  /\ Turned(t)
-----------------------------------------------------------------------------
(* Two transactions about one subject have met, and none write one document. *)
Beside(w, v) ==
  w # None /\ v # None =>
    /\ w.about = v.about => w.about \in met
    /\ DOMAIN w.docs \cap DOMAIN v.docs = {}

Tasked == \A p \in Procs : Good(task[p], tx[p])
Apart == \A p, q \in Procs : p # q => Beside(tx[p], tx[q])
CountsCover == \A x \in Prefixes \ met : Covered(x)
EndedStay == \A k \in ended : Exists(rows[k]) /\ (rows[k].user \notin met => rows[k].revoked)
UsersTake ==
  \A k \in ApiKeys : Exists(rows[k]) /\ rows[k].user \notin met /\ ~Exists(rows[rows[k].user]) => rows[k].revoked

AuthInv == TypeOK /\ Tasked /\ Apart /\ CountsCover /\ EndedStay /\ UsersTake
-----------------------------------------------------------------------------
LEMMA OverIs ==
  ASSUME NEW new, NEW old
  PROVE  /\ DOMAIN Over(new, old) = DOMAIN new \cup DOMAIN old
         /\ \A x \in DOMAIN new : Over(new, old)[x] = new[x]
         /\ \A x \in DOMAIN old \ DOMAIN new : Over(new, old)[x] = old[x]
BY DEF Over

LEMMA RevokedIs ==
  ASSUME NEW k \in KeyDocs
  PROVE  Merge(k, Revoking) \in KeyDocs /\ Merge(k, Revoking).revoked /\ Merge(k, Revoking).user = k.user
<1>1. DOMAIN Revoking = {"revoked"} /\ Revoking["revoked"] = TRUE
  BY DEF Revoking
<1>2. DOMAIN k = {"coll", "user", "scopes", "revoked"}
  BY DEF KeyDocs
<1>3. /\ DOMAIN Merge(k, Revoking) = DOMAIN Revoking \cup DOMAIN k
      /\ \A x \in DOMAIN Revoking : Merge(k, Revoking)[x] = Revoking[x]
      /\ \A x \in DOMAIN k \ DOMAIN Revoking : Merge(k, Revoking)[x] = k[x]
  BY OverIs, Zenon DEF Merge
<1>4. DOMAIN Merge(k, Revoking) = {"coll", "user", "scopes", "revoked"}
  BY <1>1, <1>2, <1>3
<1>5. Merge(k, Revoking) = [x \in DOMAIN Merge(k, Revoking) |-> Merge(k, Revoking)[x]]
  BY Zenon DEF Merge, Over
<1>6. /\ Merge(k, Revoking)["coll"] = k.coll
      /\ Merge(k, Revoking)["user"] = k.user
      /\ Merge(k, Revoking)["scopes"] = k.scopes
      /\ Merge(k, Revoking)["revoked"] = TRUE
  BY <1>1, <1>2, <1>3
<1> HIDE DEF Revoking
<1> DEFINE m == Merge(k, Revoking)
<1> HIDE DEF m
<1>7. m = [coll |-> k.coll, user |-> k.user, scopes |-> k.scopes, revoked |-> TRUE]
  BY <1>4, <1>5, <1>6 DEF m
<1> QED BY <1>7 DEF KeyDocs, m
-----------------------------------------------------------------------------
(* What a task says stays true if the tables stay and transactions meet.   *)
LEMMA GoodStays ==
  ASSUME NEW q \in Procs, NEW t, NEW w, task'[q] = t, tx'[q] = w,
         UNCHANGED <<rows, kv, streak, ended>>, met \subseteq met', Good(t, w)
  PROVE  Good(task[q], tx[q])'
<1>1. CASE Outside(t)
  BY <1>1 DEF Good, Outside, Turned
<1>2. CASE ~Outside(t)
  <2>1. Shaped(w) /\ w.about = Subject(t) /\ Counted(t, w.keys) /\ Writes(w.docs, w.about) /\ HowFar(t, w.docs)
    BY <1>2 DEF Good
  <2>2. (Shaped(tx[q]) /\ tx[q].about = Subject(task[q]))'
    BY <2>1 DEF Shaped, Subject
  <2>3. Counted(task[q], tx[q].keys)'
    BY <2>1 DEF Counted
  <2>4. Writes(tx[q].docs, tx[q].about)'
    BY <2>1 DEF Writes
  <2>5. (task[q].op = "createUser" => CreatesUser(task[q], tx[q].docs))'
    BY <2>1 DEF HowFar, CreatesUser
  <2>6. (task[q].op = "createApiKey" => CreatesKey(task[q], tx[q].docs))'
    BY <2>1 DEF HowFar, CreatesKey, Exists
  <2>7. (task[q].op = "revokeApiKey" => RevokesKey(task[q], tx[q].docs))'
    BY <2>1 DEF HowFar, RevokesKey, Exists, Sees, Over
  <2>8. (task[q].op = "deleteUser" => DeletesUser(task[q], tx[q].docs))'
    BY <2>1 DEF HowFar, DeletesUser, Only, Exists, Sees, Over
  <2>9. HowFar(task[q], tx[q].docs)'
    BY <2>1, <2>5, <2>6, <2>7, <2>8 DEF HowFar
  <2>10. Turned(task[q])'
    BY DEF Good, Turned
  <2>11. ~Outside(task[q])'
    BY <1>2 DEF Outside
  <2> QED BY <2>2, <2>3, <2>4, <2>9, <2>10, <2>11 DEF Good
<1> QED BY <1>1, <1>2

(* A step of a task that leaves the tables as they are. *)
LEMMA LocalStep ==
  ASSUME AuthInv, NEW p \in Procs, NEW t \in Tasks, NEW w,
         task' = [task EXCEPT ![p] = t], tx' = [tx EXCEPT ![p] = w],
         UNCHANGED <<rows, kv, streak, ended>>, met \subseteq met', Good(t, w),
         \A q \in Procs \ {p} : w # None /\ tx[q] # None =>
            /\ w.about = tx[q].about => w.about \in met'
            /\ DOMAIN w.docs \cap DOMAIN tx[q].docs = {}
  PROVE  AuthInv'
<1>1. TypeOK /\ DOMAIN tx = Procs
  BY DEF AuthInv, TypeOK
<1>2. task'[p] = t /\ tx'[p] = w
  BY <1>1 DEF TypeOK
<1>3. \A q \in Procs \ {p} : task'[q] = task[q] /\ tx'[q] = tx[q]
  BY <1>1 DEF TypeOK
<1>4. TypeOK'
  BY <1>1 DEF TypeOK, Counts
<1>5. Tasked'
  <2> SUFFICES ASSUME NEW q \in Procs PROVE Good(task[q], tx[q])'
    BY DEF Tasked
  <2>1. CASE q = p
    BY <1>2, <2>1, GoodStays
  <2>2. CASE q # p
    <3>1. Good(task[q], tx[q])
      BY DEF AuthInv, Tasked
    <3> QED BY <1>3, <2>2, <3>1, GoodStays
  <2> QED BY <2>1, <2>2
<1>6. Apart'
  <2> SUFFICES ASSUME NEW q \in Procs, NEW r \in Procs, q # r PROVE Beside(tx[q], tx[r])'
    BY DEF Apart
  <2>1. CASE q # p /\ r # p
    <3>1. Beside(tx[q], tx[r])
      BY DEF AuthInv, Apart
    <3> QED BY <1>3, <2>1, <3>1 DEF Beside
  <2>2. CASE q = p
    BY <1>2, <1>3, <2>2 DEF Beside
  <2>3. CASE r = p
    BY <1>2, <1>3, <2>3 DEF Beside
  <2> QED BY <2>1, <2>2, <2>3
<1>7. CountsCover'
  BY DEF AuthInv, CountsCover, Covered
<1>8. EndedStay'
  BY DEF AuthInv, EndedStay, Exists
<1>9. UsersTake'
  BY DEF AuthInv, UsersTake, Exists
<1> QED BY <1>4, <1>5, <1>6, <1>7, <1>8, <1>9 DEF AuthInv

(* A step that writes no document, of a task that stays in its transaction.*)
LEMMA SameStep ==
  ASSUME AuthInv, NEW p \in Procs, NEW t \in Tasks, NEW w,
         task' = [task EXCEPT ![p] = t], tx' = [tx EXCEPT ![p] = w],
         UNCHANGED <<rows, kv, streak, ended, met>>, Good(t, w),
         w # None => tx[p] # None /\ w.about = tx[p].about /\ w.docs = tx[p].docs
  PROVE  AuthInv'
<1>1. \A q \in Procs \ {p} : Beside(tx[p], tx[q])
  BY DEF AuthInv, Apart
<1>2. \A q \in Procs \ {p} : w # None /\ tx[q] # None =>
            /\ w.about = tx[q].about => w.about \in met'
            /\ DOMAIN w.docs \cap DOMAIN tx[q].docs = {}
  BY <1>1 DEF Beside
<1> QED BY <1>2, LocalStep

(* A step that changes what a process is doing and nothing else. *)
LEMMA TaskStep ==
  ASSUME AuthInv, NEW p \in Procs, NEW t \in Tasks,
         task' = [task EXCEPT ![p] = t], UNCHANGED <<rows, kv, tx, met, streak, ended>>, Good(t, tx[p])
  PROVE  AuthInv'
<1>1. tx' = [tx EXCEPT ![p] = tx[p]]
  BY DEF AuthInv, TypeOK
<1> QED BY <1>1, SameStep

LEMMA TaskOf ==
  ASSUME AuthInv, NEW p \in Procs
  PROVE  /\ task[p] \in Tasks /\ Good(task[p], tx[p])
         /\ task[p].op = "idle" => task[p] = Idle
         /\ task[p].op = "guard" => task[p] \in Judging \cup Counting /\ Prefix[task[p].key] \in Prefixes
         /\ task[p].op = "createUser" => task[p] \in Creating
         /\ task[p].op = "deleteUser" => task[p] \in Leaving \cup Deleting
         /\ task[p].op = "createApiKey" => task[p] \in Making
         /\ task[p].op = "revokeApiKey" => task[p] \in Taking
<1>1. task[p] \in Tasks /\ Good(task[p], tx[p])
  BY DEF AuthInv, TypeOK, Tasked
<1>2. task[p].op = "guard" => task[p] \in Judging \cup Counting
  BY <1>1 DEF Tasks, Managing, Idle, Creating, Leaving, Deleting, Making, Taking
<1>3. task[p].op = "guard" => task[p].key \in Presented
  BY <1>2 DEF Judging, Counting
<1>4. task[p].op = "guard" => Prefix[task[p].key] \in Prefixes
  BY <1>3 DEF Prefixes, Presented
<1>5. /\ task[p].op = "idle" => task[p] = Idle
      /\ task[p].op = "createUser" => task[p] \in Creating
      /\ task[p].op = "deleteUser" => task[p] \in Leaving \cup Deleting
      /\ task[p].op = "createApiKey" => task[p] \in Making
      /\ task[p].op = "revokeApiKey" => task[p] \in Taking
  BY <1>1 DEF Tasks, Managing, Idle, Judging, Counting, Creating, Leaving, Deleting, Making, Taking
<1> QED BY <1>1, <1>2, <1>4, <1>5
-----------------------------------------------------------------------------
(* The guard. *)
LEMMA GuardStep ==
  ASSUME AuthInv, NEW p \in Procs, NEW k \in Presented, NEW path, Guard(p, "POST", path, k, None)
  PROVE  AuthInv'
<1> DEFINE r == ResolveRequiredScopes("POST", path)
           t == [op |-> "guard", at |-> "check", key |-> k, late |-> k \in ended, required |-> r]
<1>1. r \in SUBSET ValidScopes
  BY DEF ResolveRequiredScopes, ValidScopes
<1>2. /\ task[p] = Idle /\ UNCHANGED <<rows, kv, tx, met, streak, ended>>
      /\ task' = [task EXCEPT ![p] = t]
  BY DEF Guard, ExtractApiKey, storeVars
<1>3. t \in Judging
  <2>1. (k \in ended) \in BOOLEAN
    OBVIOUS
  <2> HIDE DEF r
  <2> QED BY <1>1, <2>1 DEF Judging
<1>4. t \in Tasks
  BY <1>3 DEF Tasks
<1>5. Good(t, tx[p])
  <2>1. tx[p] = None
    BY <1>2, TaskOf DEF Good, Outside, Idle
  <2> QED BY <2>1 DEF Good, Outside, Turned
<1> HIDE DEF t
<1> QED BY <1>2, <1>4, <1>5, TaskStep

LEMMA CheckStep ==
  ASSUME AuthInv, NEW p \in Procs, Check(p) PROVE AuthInv'
<1> DEFINE t == IF Alive(BlockKey(Prefix[task[p].key])) THEN Idle ELSE [task[p] EXCEPT !.at = "validate"]
<1>1. /\ task[p].op = "guard" /\ task[p].at = "check" /\ UNCHANGED <<rows, kv, tx, met, streak, ended>>
      /\ task' = [task EXCEPT ![p] = t]
  BY DEF Check, At, storeVars
<1>2. task[p] \in Judging /\ tx[p] = None
  BY <1>1, TaskOf DEF Counting, Good, Outside
<1>3. t \in Tasks
  BY <1>2 DEF Tasks, Judging
<1>4. Good(t, tx[p])
  <2>1. Turned(task[p])
    BY TaskOf DEF Good
  <2>2. CASE t = Idle
    BY <1>2, <2>2 DEF Good, Outside, Turned, Idle
  <2>3. CASE t = [task[p] EXCEPT !.at = "validate"]
    BY <1>1, <1>2, <2>1, <2>3 DEF Good, Outside, Turned, Judging
  <2> QED BY <2>2, <2>3
<1> HIDE DEF t
<1> QED BY <1>1, <1>3, <1>4, TaskStep

(* A transaction begins, and meets those about the same subject. *)
LEMMA BeginStep ==
  ASSUME AuthInv, NEW p \in Procs, NEW t \in Tasks, NEW s, Begin(p, s),
         task' = [task EXCEPT ![p] = t], UNCHANGED <<streak, ended>>,
         ~Outside(t), s = Subject(t), Turned(t), HowFar(t, Nothing),
         t.op = "guard" => t.at \notin {"set", "refused"}
  PROVE  AuthInv'
<1> DEFINE w == [about |-> s, docs |-> Nothing, keys |-> Nothing]
<1>1. /\ tx' = [tx EXCEPT ![p] = w] /\ UNCHANGED <<rows, kv>>
      /\ met' = met \cup {x \in {s} : \E q \in Others(p) : tx[q].about = s}
  BY DEF Begin
<1>2. DOMAIN Nothing = {}
  BY DEF Nothing
<1>3. Good(t, w)
  <2>1. Shaped(w) /\ w.about = Subject(t)
    BY DEF Shaped
  <2>2. Counted(t, w.keys)
    BY <1>2 DEF Counted
  <2>3. Writes(w.docs, w.about)
    BY <1>2 DEF Writes
  <2>4. HowFar(t, w.docs)
    OBVIOUS
  <2> QED BY <2>1, <2>2, <2>3, <2>4 DEF Good
<1>4. \A q \in Procs \ {p} : w # None /\ tx[q] # None =>
            /\ w.about = tx[q].about => w.about \in met'
            /\ DOMAIN w.docs \cap DOMAIN tx[q].docs = {}
  BY <1>1, <1>2 DEF Others, InTx
<1> HIDE DEF w
<1> QED BY <1>1, <1>3, <1>4, LocalStep

(* A key whose revocation was answered is not valid unless requests met.   *)
LEMMA OutIsInvalid ==
  ASSUME AuthAssumption, AuthInv, NEW k \in ended, rows[k].user \notin met
  PROVE  ~ValidApiKey(k)
BY DEF AuthAssumption, AuthConstants, AuthInv, TypeOK, EndedStay, ValidApiKey

LEMMA ValidateStep ==
  ASSUME AuthAssumption, AuthInv, NEW p \in Procs, Validate(p) PROVE AuthInv'
<1> DEFINE k == task[p].key
           at == IF ValidApiKey(k)
                 THEN IF HasRequiredScope(ScopesOf(k), task[p].required) THEN "success" ELSE "forbidden"
                 ELSE "fail"
           t == [task[p] EXCEPT !.at = at]
<1>1. /\ task[p].op = "guard" /\ task[p].at = "validate" /\ UNCHANGED <<streak, ended>>
      /\ task' = [task EXCEPT ![p] = t] /\ Begin(p, Prefix[k])
  BY DEF Validate, At
<1>2. task[p] \in Judging /\ Turned(task[p])
  BY <1>1, TaskOf DEF Counting, Good
<1>3. at \in {"success", "forbidden", "fail"} /\ (at # "fail" => ValidApiKey(k))
  OBVIOUS
<1> HIDE DEF at
<1>4. t \in Judging /\ t.at = at /\ t.op = "guard" /\ t.key = k /\ t.late = task[p].late
  BY <1>2, <1>3 DEF Judging
<1>5. Turned(t)
  BY <1>1, <1>2, <1>3, <1>4, OutIsInvalid DEF Turned
<1>6. Prefix[k] = Subject(t) /\ ~Outside(t) /\ t \in Tasks
  BY <1>3, <1>4 DEF Subject, Outside, Tasks
<1>7. HowFar(t, Nothing)
  BY <1>4 DEF HowFar, Nothing
<1>8. t.at \notin {"set", "refused"}
  BY <1>3, <1>4
<1> HIDE DEF t, k
<1> QED BY <1>1, <1>5, <1>6, <1>7, <1>8, BeginStep

(* A step of a guard in its transaction.                                   *)
LEMMA InGuard ==
  ASSUME AuthAssumption, AuthInv, NEW p \in Procs, task[p].op = "guard", ~Outside(task[p])
  PROVE  LET t == task[p]  x == Prefix[t.key]
         IN /\ x \in Prefixes /\ tx[p] # None /\ Shaped(tx[p]) /\ tx[p].about = x
            /\ DOMAIN tx[p].docs = {} /\ Counted(t, tx[p].keys) /\ Turned(t) /\ t \in Judging \cup Counting
            /\ CountKey(x) # BlockKey(x)
<1>1. CountKey(Prefix[task[p].key]) # BlockKey(Prefix[task[p].key])
  BY DEF CountKey, BlockKey
<1>2. Good(task[p], tx[p]) /\ Prefix[task[p].key] \in Prefixes /\ task[p] \in Judging \cup Counting
  BY TaskOf
<1>3. Shaped(tx[p]) /\ tx[p].about = Subject(task[p]) /\ Counted(task[p], tx[p].keys)
      /\ HowFar(task[p], tx[p].docs) /\ Turned(task[p])
  BY <1>2 DEF Good
<1>4. tx[p].about = Prefix[task[p].key] /\ DOMAIN tx[p].docs = {}
  BY <1>3 DEF Subject, HowFar
<1>5. tx[p] # None
  BY <1>3 DEF AuthAssumption, AuthConstants
<1> QED BY <1>1, <1>2, <1>3, <1>4, <1>5

LEMMA GuardGood ==
  ASSUME NEW t, NEW w, t.op = "guard", ~Outside(t), Shaped(w), w.about = Prefix[t.key], DOMAIN w.docs = {},
         Counted(t, w.keys), Turned(t)
  PROVE  Good(t, w)
<1>1. w.about = Subject(t)
  BY DEF Subject
<1>2. Writes(w.docs, w.about)
  BY DEF Writes
<1>3. HowFar(t, w.docs)
  BY DEF HowFar
<1> QED BY <1>1, <1>2, <1>3 DEF Good

(* A statement that writes entry e to key k of a transaction.              *)
LEMMA WriteKeyIs ==
  ASSUME NEW p \in Procs, TypeOK, Shaped(tx[p]), NEW k, NEW e, WriteKey(p, k, e)
  PROVE  /\ UNCHANGED <<rows, kv, met>>
         /\ \E w : /\ tx' = [tx EXCEPT ![p] = w] /\ Shaped(w)
                   /\ w.about = tx[p].about /\ w.docs = tx[p].docs
                   /\ DOMAIN w.keys = DOMAIN tx[p].keys \cup {k} /\ w.keys[k] = e
                   /\ \A y \in DOMAIN tx[p].keys \ {k} : w.keys[y] = tx[p].keys[y]
<1> DEFINE new == Over([y \in {k} |-> e], tx[p].keys)
           w == [about |-> tx[p].about, docs |-> tx[p].docs, keys |-> new]
<1>1. UNCHANGED <<rows, kv, met>> /\ tx' = [tx EXCEPT ![p].keys = new]
  BY DEF WriteKey
<1>2. /\ DOMAIN new = DOMAIN tx[p].keys \cup {k} /\ new[k] = e
      /\ \A y \in DOMAIN tx[p].keys \ {k} : new[y] = tx[p].keys[y]
  BY DEF Over
<1> HIDE DEF new
<1>3. [tx[p] EXCEPT !.keys = new] = w
  BY DEF Shaped
<1>4. tx' = [tx EXCEPT ![p] = w]
  BY <1>1, <1>3 DEF TypeOK
<1>5. Shaped(w) /\ w.about = tx[p].about /\ w.docs = tx[p].docs /\ w.keys = new
  BY DEF Shaped
<1> HIDE DEF w
<1> QED BY <1>1, <1>2, <1>4, <1>5

(* What a transaction that has written no key reads as the count of x.     *)
LEMMA CountIs ==
  ASSUME AuthAssumption, TypeOK, NEW p \in Procs, NEW x \in Prefixes, DOMAIN tx[p].keys = {}
  PROVE  LET e == kv[CountKey(x)]
         IN Count(p, x) = (IF e # None /\ e.alive THEN e.value ELSE 0) /\ Count(p, x) \in Nat
<1> DEFINE e == kv[CountKey(x)]
<1>1. CountKey(x) \in DOMAIN kv
  BY DEF AuthAssumption, AuthConstants, TypeOK
<1>2. Entry(p, CountKey(x)) = e
  BY <1>1 DEF Entry, Over
<1>3. e \in Counts
  BY DEF TypeOK
<1> HIDE DEF e
<1>4. KvGet(p, CountKey(x)) = IF e # None /\ e.alive THEN e.value ELSE None
  BY <1>2 DEF KvGet
<1>5. e # None /\ e.alive => e.value \in Nat \ {0} /\ e.value # None
  BY <1>3 DEF Counts, AuthAssumption, AuthConstants
<1>6. Count(p, x) = IF e # None /\ e.alive THEN e.value ELSE 0
  BY <1>4, <1>5 DEF Count
<1>7. Count(p, x) \in Nat
  BY <1>5, <1>6
<1> QED BY <1>6, <1>7 DEF e

LEMMA FailBlockedStep ==
  ASSUME AuthAssumption, AuthInv, NEW p \in Procs, FailBlocked(p) PROVE AuthInv'
<1>1. PICK t \in {[task[p] EXCEPT !.at = "blocked"], [task[p] EXCEPT !.at = "count"]} :
        /\ task[p].op = "guard" /\ task[p].at = "fail" /\ UNCHANGED <<rows, kv, tx, met, streak, ended>>
        /\ task' = [task EXCEPT ![p] = t]
  BY DEF FailBlocked, Goto, At, storeVars, AuthInv, TypeOK
<1>2. ~Outside(task[p]) /\ task[p] \in Judging
  BY <1>1, TaskOf DEF Outside, Counting
<1>3. /\ Shaped(tx[p]) /\ tx[p].about = Prefix[task[p].key] /\ DOMAIN tx[p].docs = {}
      /\ DOMAIN tx[p].keys = {} /\ Turned(task[p])
  BY <1>1, <1>2, InGuard DEF Counted
<1>4. /\ t \in Judging /\ t.at \in {"blocked", "count"} /\ t.op = "guard"
      /\ t.key = task[p].key /\ t.late = task[p].late
  BY <1>1, <1>2 DEF Judging
<1>5. Counted(t, tx[p].keys)
  BY <1>3, <1>4 DEF Counted
<1>6. Turned(t) /\ ~Outside(t) /\ t \in Tasks
  BY <1>1, <1>3, <1>4 DEF Turned, Outside, Tasks
<1>7. Good(t, tx[p])
  BY <1>3, <1>4, <1>5, <1>6, GuardGood
<1> QED BY <1>1, <1>6, <1>7, TaskStep

LEMMA FailReadStep ==
  ASSUME AuthAssumption, AuthInv, NEW p \in Procs, FailRead(p) PROVE AuthInv'
<1> DEFINE k == task[p].key
           x == Prefix[k]
           n == Count(p, x)
           t2 == [task[p] EXCEPT !.at = "block"]
           t3 == [op |-> "guard", at |-> "set", key |-> k, late |-> task[p].late, count |-> n + 1]
<1>1. /\ task[p].op = "guard" /\ task[p].at = "count" /\ UNCHANGED <<rows, kv, tx, met, streak, ended>>
      /\ \/ task' = [task EXCEPT ![p] = t2]
         \/ ~(n + 1 >= MaxAttempts) /\ task' = [task EXCEPT ![p] = t3]
  BY DEF FailRead, At, storeVars
<1>2. ~Outside(task[p]) /\ task[p] \in Judging
  BY <1>1, TaskOf DEF Outside, Counting
<1>3. /\ x \in Prefixes /\ Shaped(tx[p]) /\ tx[p].about = x /\ DOMAIN tx[p].docs = {}
      /\ DOMAIN tx[p].keys = {} /\ Turned(task[p])
  BY <1>1, <1>2, InGuard DEF Counted
<1>4. n = (IF kv[CountKey(x)] # None /\ kv[CountKey(x)].alive THEN kv[CountKey(x)].value ELSE 0) /\ n \in Nat
  BY <1>3, CountIs DEF AuthInv
<1>5. x \notin met => streak[x] <= n
  BY <1>3, <1>4 DEF AuthInv, TypeOK, CountsCover, Covered
<1>6. task[p].key \in Presented /\ task[p].late \in BOOLEAN
  BY <1>2 DEF Judging
<1>7. streak[x] \in Nat
  BY <1>3 DEF AuthInv, TypeOK
<1> HIDE DEF n
<1>8. ASSUME NEW t \in {t2}, task' = [task EXCEPT ![p] = t] PROVE AuthInv'
  <2>1. /\ t \in Judging /\ t.at = "block" /\ t.op = "guard"
        /\ t.key = task[p].key /\ t.late = task[p].late
    BY <1>2, <1>8 DEF Judging
  <2>2. Counted(t, tx[p].keys)
    BY <1>3, <2>1 DEF Counted
  <2>3. Turned(t) /\ ~Outside(t) /\ t \in Tasks
    BY <1>1, <1>3, <2>1 DEF Turned, Outside, Tasks
  <2>4. Good(t, tx[p])
    BY <1>3, <2>1, <2>2, <2>3, GuardGood
  <2> HIDE DEF t2
  <2> QED BY <1>1, <1>8, <2>3, <2>4, TaskStep
<1>9. ASSUME ~(n + 1 >= MaxAttempts), task' = [task EXCEPT ![p] = t3] PROVE AuthInv'
  <2>1. t3 \in Counting /\ n + 1 < MaxAttempts
    <3>1. n + 1 \in Nat \ {0} /\ n + 1 < MaxAttempts
      BY <1>4, <1>9 DEF AuthAssumption, AuthConstants
    <3> QED BY <1>6, <3>1 DEF Counting
  <2>2. Counted(t3, tx[p].keys)
    BY <1>3, <1>4, <1>5, <1>7, <2>1 DEF Counted
  <2>3. Turned(t3) /\ ~Outside(t3) /\ t3 \in Tasks
    BY <1>1, <1>3, <2>1 DEF Turned, Outside, Tasks
  <2>4. Good(t3, tx[p])
    BY <1>3, <2>2, <2>3, GuardGood
  <2> HIDE DEF t3
  <2> QED BY <1>1, <1>9, <2>3, <2>4, TaskStep
<1> HIDE DEF t2, t3
<1> QED BY <1>1, <1>8, <1>9

(* A guard that writes a key, and goes on to place at. *)
LEMMA GuardWrites ==
  ASSUME AuthAssumption, AuthInv, NEW p \in Procs, task[p].op = "guard", ~Outside(task[p]),
         NEW k \in {BlockKey(Prefix[task[p].key]), CountKey(Prefix[task[p].key])}, NEW e,
         WriteKey(p, k, e), NEW at, task' = [task EXCEPT ![p].at = at], UNCHANGED <<streak, ended>>,
         \/ task[p] \in Judging /\ at \in {"blocked", "clear", "passed", "cleared"}
            /\ (k = CountKey(Prefix[task[p].key]) => e = None)
         \/ task[p] \in Counting /\ task[p].at = "set" /\ at = "refused"
            /\ k = CountKey(Prefix[task[p].key]) /\ e = [value |-> task[p].count, alive |-> TRUE],
         task[p].late /\ at \in {"passed", "cleared"} => rows[task[p].key].user \in met
  PROVE  AuthInv'
<1> DEFINE x == Prefix[task[p].key]
           t == [task[p] EXCEPT !.at = at]
<1>1. /\ Shaped(tx[p]) /\ tx[p].about = x /\ DOMAIN tx[p].docs = {} /\ tx[p] # None
      /\ Counted(task[p], tx[p].keys) /\ Turned(task[p]) /\ CountKey(x) # BlockKey(x)
  BY InGuard
<1>2. UNCHANGED <<rows, kv, met>>
  BY <1>1, WriteKeyIs DEF AuthInv
<1>3. PICK w : /\ tx' = [tx EXCEPT ![p] = w] /\ Shaped(w)
               /\ w.about = tx[p].about /\ w.docs = tx[p].docs
               /\ DOMAIN w.keys = DOMAIN tx[p].keys \cup {k} /\ w.keys[k] = e
               /\ \A y \in DOMAIN tx[p].keys \ {k} : w.keys[y] = tx[p].keys[y]
  BY <1>1, WriteKeyIs DEF AuthInv
<1>4. task' = [task EXCEPT ![p] = t]
  BY DEF AuthInv, TypeOK
<1>5. /\ t \in Judging \cup Counting /\ t.op = "guard" /\ t.at = at /\ t.key = task[p].key /\ t.late = task[p].late
      /\ task[p] \in Counting => t.count = task[p].count
  BY DEF Judging, Counting
<1>6. Turned(t) /\ ~Outside(t) /\ t \in Tasks
  BY <1>1, <1>5 DEF Turned, Outside, Tasks
<1>7. Counted(t, w.keys)
  <2>1. t.op = "guard" /\ x = Prefix[t.key]
    BY <1>5
  <2>2. DOMAIN tx[p].keys \subseteq {BlockKey(x), CountKey(x)}
    BY <1>1 DEF Counted
  <2>3. DOMAIN w.keys \subseteq {BlockKey(x), CountKey(x)}
    BY <1>3, <2>2
  <2>4. CASE /\ task[p] \in Judging /\ at \in {"blocked", "clear", "passed", "cleared"}
             /\ k = CountKey(x) => e = None
    <3>1. CountKey(x) \in DOMAIN tx[p].keys => tx[p].keys[CountKey(x)] = None
      BY <1>1, <2>4 DEF Counted, Judging
    <3>2. CountKey(x) \in DOMAIN w.keys => w.keys[CountKey(x)] = None
      BY <1>3, <2>4, <3>1
    <3> QED BY <1>5, <2>1, <2>3, <2>4, <3>2 DEF Counted
  <2>5. CASE /\ task[p] \in Counting /\ task[p].at = "set" /\ at = "refused"
             /\ k = CountKey(x) /\ e = [value |-> task[p].count, alive |-> TRUE]
    <3>1. x \notin met => streak[x] < t.count /\ t.count < MaxAttempts
      BY <1>1, <1>5, <2>5 DEF Counted
    <3>2. CountKey(x) \in DOMAIN w.keys /\ w.keys[CountKey(x)] = [value |-> t.count, alive |-> TRUE]
      BY <1>3, <1>5, <2>5
    <3> QED BY <1>5, <2>1, <2>3, <2>5, <3>1, <3>2 DEF Counted
  <2> QED BY <2>4, <2>5
<1>8. Good(t, w)
  <2>1. w.about = Prefix[t.key] /\ DOMAIN w.docs = {}
    BY <1>1, <1>3, <1>5
  <2> QED BY <1>3, <1>5, <1>6, <1>7, <2>1, GuardGood
<1> HIDE DEF t
<1> QED BY <1>1, <1>2, <1>3, <1>4, <1>6, <1>8, SameStep

LEMMA FailSetStep ==
  ASSUME AuthAssumption, AuthInv, NEW p \in Procs, FailSet(p) PROVE AuthInv'
<1> DEFINE k == CountKey(Prefix[task[p].key])
           e == [value |-> task[p].count, alive |-> TRUE]
<1>1. /\ task[p].op = "guard" /\ task[p].at = "set" /\ UNCHANGED <<streak, ended>>
      /\ WriteKey(p, k, e) /\ task' = [task EXCEPT ![p].at = "refused"]
  BY DEF FailSet, At, Goto, KvSet
<1>2. task[p] \in Counting /\ ~Outside(task[p])
  BY <1>1, TaskOf DEF Judging, Outside
<1> HIDE DEF e
<1>3. /\ task[p] \in Counting /\ task[p].at = "set" /\ "refused" = "refused"
      /\ k = CountKey(Prefix[task[p].key]) /\ e = [value |-> task[p].count, alive |-> TRUE]
  BY <1>1, <1>2 DEF e
<1> QED BY <1>1, <1>2, <1>3, GuardWrites

LEMMA FailBlockStep ==
  ASSUME AuthAssumption, AuthInv, NEW p \in Procs, FailBlock(p) PROVE AuthInv'
<1> DEFINE k == BlockKey(Prefix[task[p].key])
           e == [value |-> TRUE, alive |-> TRUE]
<1>1. /\ task[p].op = "guard" /\ task[p].at = "block" /\ UNCHANGED <<streak, ended>>
      /\ WriteKey(p, k, e) /\ task' = [task EXCEPT ![p].at = "clear"]
  BY DEF FailBlock, At, Goto, KvSet
<1>2. task[p] \in Judging /\ ~Outside(task[p])
  BY <1>1, TaskOf DEF Counting, Outside
<1>3. k # CountKey(Prefix[task[p].key])
  BY DEF CountKey, BlockKey
<1> HIDE DEF e
<1> QED BY <1>1, <1>2, <1>3, GuardWrites

(* A guard that deletes the count, and goes on to place at. *)
LEMMA GuardDeletes ==
  ASSUME AuthAssumption, AuthInv, NEW p \in Procs, task[p] \in Judging, ~Outside(task[p]),
         KvDelete(p, CountKey(Prefix[task[p].key])), UNCHANGED <<streak, ended>>,
         NEW at \in {"blocked", "passed", "cleared"}, task' = [task EXCEPT ![p].at = at],
         task[p].late /\ at \in {"passed", "cleared"} => rows[task[p].key].user \in met
  PROVE  AuthInv'
<1> DEFINE k == CountKey(Prefix[task[p].key])
           t == [task[p] EXCEPT !.at = at]
<1>1. task[p].op = "guard"
  BY DEF Judging
<1>2. CASE WriteKey(p, k, None)
  BY <1>1, <1>2, GuardWrites
<1>3. CASE UNCHANGED storeVars
  <2>1. /\ Shaped(tx[p]) /\ tx[p].about = Prefix[task[p].key] /\ DOMAIN tx[p].docs = {}
        /\ Counted(task[p], tx[p].keys) /\ Turned(task[p])
    BY <1>1, InGuard
  <2>2. task' = [task EXCEPT ![p] = t]
    BY DEF AuthInv, TypeOK
  <2>3. t \in Judging /\ t.op = "guard" /\ t.at = at /\ t.key = task[p].key /\ t.late = task[p].late
    BY DEF Judging
  <2>4. task[p].at \notin {"set", "refused"}
    BY DEF Judging
  <2>5. Turned(t) /\ ~Outside(t) /\ t \in Tasks
    BY <1>1, <2>1, <2>3 DEF Turned, Outside, Tasks
  <2>6. Counted(t, tx[p].keys)
    BY <1>1, <2>1, <2>3, <2>4 DEF Counted
  <2>7. Good(t, tx[p])
    BY <2>1, <2>3, <2>5, <2>6, GuardGood
  <2>8. UNCHANGED <<rows, kv, tx, met, streak, ended>>
    BY <1>3 DEF storeVars
  <2> HIDE DEF t
  <2> QED BY <2>2, <2>5, <2>7, <2>8, TaskStep
<1> QED BY <1>2, <1>3 DEF KvDelete

LEMMA FailClearStep ==
  ASSUME AuthAssumption, AuthInv, NEW p \in Procs, FailClear(p) PROVE AuthInv'
<1>1. /\ task[p].op = "guard" /\ task[p].at = "clear" /\ UNCHANGED <<streak, ended>>
      /\ KvDelete(p, CountKey(Prefix[task[p].key])) /\ task' = [task EXCEPT ![p].at = "blocked"]
  BY DEF FailClear, At, Goto
<1>2. task[p] \in Judging /\ ~Outside(task[p])
  BY <1>1, TaskOf DEF Counting, Outside
<1> QED BY <1>1, <1>2, GuardDeletes

LEMMA ClearCounterStep ==
  ASSUME AuthAssumption, AuthInv, NEW p \in Procs, ClearCounter(p) PROVE AuthInv'
<1> DEFINE at == IF task[p].at = "success" THEN "passed" ELSE "cleared"
<1>1. /\ task[p].op = "guard" /\ task[p].at \in {"success", "forbidden"} /\ UNCHANGED <<streak, ended>>
      /\ KvDelete(p, CountKey(Prefix[task[p].key])) /\ task' = [task EXCEPT ![p].at = at]
  BY DEF ClearCounter, At, Goto
<1>2. task[p] \in Judging /\ ~Outside(task[p]) /\ Turned(task[p])
  BY <1>1, TaskOf DEF Counting, Outside, Good
<1>3. task[p].late => rows[task[p].key].user \in met
  BY <1>1, <1>2 DEF Turned
<1>4. at \in {"blocked", "passed", "cleared"}
  OBVIOUS
<1> HIDE DEF at
<1> QED BY <1>1, <1>2, <1>3, <1>4, GuardDeletes

-----------------------------------------------------------------------------
(* The management of users and keys. *)
LEMMA RequestStep ==
  ASSUME AuthAssumption, AuthInv, NEW p \in Procs, Request(p) PROVE AuthInv'
<1>1. ASSUME NEW t \in Managing, NEW s, NEW method, NEW path, Manage(p, method, path, t, s),
             s = Subject(t), HowFar(t, Nothing)
      PROVE  AuthInv'
  <2>1. Begin(p, s) /\ task' = [task EXCEPT ![p] = t] /\ UNCHANGED <<streak, ended>>
    BY <1>1 DEF Manage, Start
  <2>2. t.op \notin {"guard", "idle"} /\ t \in Tasks
    BY DEF Managing, Creating, Leaving, Deleting, Making, Taking, Tasks
  <2>3. ~Outside(t) /\ Turned(t)
    BY <2>2 DEF Outside, Turned
  <2> QED BY <1>1, <2>1, <2>2, <2>3, BeginStep
<1>2. DOMAIN Nothing = {}
  BY DEF Nothing
<1>3. PICK u \in Users :
    \/ Manage(p, "POST", <<ManagementBase, "users">>, [op |-> "createUser", at |-> "insert", id |-> u], u)
    \/ Manage(p, "DELETE", <<ManagementBase, "users", u>>, [op |-> "deleteUser", at |-> "find", id |-> u], u)
    \/ \E k \in ApiKeys, scopes \in {{"other"}, {"admin"}, {}, None} :
         Manage(p, "POST", <<ManagementBase, "users", u, "keys">>,
                [op |-> "createApiKey", at |-> "find", id |-> k, user |-> u, scopes |-> ParseScopes(scopes)], u)
    \/ \E k \in ApiKeys :
         /\ Exists(rows[k]) /\ rows[k].user = u
         /\ Manage(p, "DELETE", <<ManagementBase, "keys", k>>, [op |-> "revokeApiKey", at |-> "find", id |-> k], u)
  BY DEF Request
<1>4. CASE Manage(p, "POST", <<ManagementBase, "users">>, [op |-> "createUser", at |-> "insert", id |-> u], u)
  <2> DEFINE t == [op |-> "createUser", at |-> "insert", id |-> u]
  <2>1. t \in Managing /\ u = Subject(t)
    BY DEF Managing, Creating, Subject
  <2>2. HowFar(t, Nothing)
    BY <1>2 DEF HowFar, CreatesUser
  <2> HIDE DEF t
  <2> QED BY <1>1, <1>4, <2>1, <2>2 DEF t
<1>5. CASE Manage(p, "DELETE", <<ManagementBase, "users", u>>, [op |-> "deleteUser", at |-> "find", id |-> u], u)
  <2> DEFINE t == [op |-> "deleteUser", at |-> "find", id |-> u]
  <2>1. t \in Managing /\ u = Subject(t)
    BY DEF Managing, Leaving, Subject
  <2>2. HowFar(t, Nothing)
    BY <1>2 DEF HowFar, DeletesUser
  <2> HIDE DEF t
  <2> QED BY <1>1, <1>5, <2>1, <2>2 DEF t
<1>6. ASSUME NEW k \in ApiKeys, NEW scopes \in {{"other"}, {"admin"}, {}, None},
             Manage(p, "POST", <<ManagementBase, "users", u, "keys">>,
                [op |-> "createApiKey", at |-> "find", id |-> k, user |-> u, scopes |-> ParseScopes(scopes)], u)
      PROVE  AuthInv'
  <2> DEFINE sc == ParseScopes(scopes)
             t == [op |-> "createApiKey", at |-> "find", id |-> k, user |-> u, scopes |-> sc]
  <2>1. sc \in SUBSET (ValidScopes \cup {"other"})
    BY DEF ParseScopes, ValidScopes, DefaultScopes
  <2> HIDE DEF sc
  <2>2. t \in Managing /\ u = Subject(t)
    BY <2>1 DEF Managing, Making, Subject
  <2>3. HowFar(t, Nothing)
    BY <1>2 DEF HowFar, CreatesKey
  <2> HIDE DEF t
  <2> QED BY <1>1, <1>6, <2>2, <2>3 DEF t, sc
<1>7. ASSUME NEW k \in ApiKeys, Exists(rows[k]), rows[k].user = u,
             Manage(p, "DELETE", <<ManagementBase, "keys", k>>, [op |-> "revokeApiKey", at |-> "find", id |-> k], u)
      PROVE  AuthInv'
  <2> DEFINE t == [op |-> "revokeApiKey", at |-> "find", id |-> k]
  <2>1. t \in Managing /\ u = Subject(t)
    BY <1>7 DEF Managing, Taking, Subject
  <2>2. HowFar(t, Nothing)
    BY <1>2, <1>7 DEF HowFar, RevokesKey
  <2> HIDE DEF t
  <2> QED BY <1>1, <1>7, <2>1, <2>2 DEF t
<1> QED BY <1>3, <1>4, <1>5, <1>6, <1>7

(* Key k as a writer w sees it, who writes what is about a.                *)
LEMMA SeesKey ==
  ASSUME AuthAssumption, TypeOK, NEW w, NEW a, Writes(w, a), NEW k \in ApiKeys
  PROVE  /\ Sees(w, k) \in {Unused} \cup KeyDocs
         /\ Exists(rows[k]) => /\ rows[k] \in KeyDocs /\ Exists(Sees(w, k))
                               /\ Sees(w, k) \in KeyDocs /\ Sees(w, k).user = rows[k].user
                               /\ rows[k].revoked => Sees(w, k).revoked
<1>1. k \in DOMAIN rows /\ rows[k] \in {Unused} \cup KeyDocs /\ (Exists(rows[k]) <=> rows[k] \in KeyDocs)
  BY DEF TypeOK, AuthAssumption, AuthConstants, Exists
<1>2. Sees(w, k) = IF k \in DOMAIN w THEN w[k] ELSE rows[k]
  BY <1>1 DEF Sees, Over
<1>3. k \in DOMAIN w => w[k] \in KeyDocs /\ w[k].user = a /\ (rows[k] # Unused => rows[k].user = a /\ w[k].revoked)
  BY DEF Writes
<1>4. Sees(w, k) \in {Unused} \cup KeyDocs
  BY <1>1, <1>2, <1>3
<1>5. ASSUME Exists(rows[k])
      PROVE  Sees(w, k) \in KeyDocs /\ Sees(w, k).user = rows[k].user /\ (rows[k].revoked => Sees(w, k).revoked)
  BY <1>1, <1>2, <1>3, <1>5 DEF Exists
<1>6. Exists(rows[k]) => Exists(Sees(w, k))
  BY <1>5 DEF AuthAssumption, AuthConstants
<1> QED BY <1>1, <1>4, <1>5, <1>6

LEMMA InManage ==
  ASSUME AuthAssumption, AuthInv, NEW p \in Procs, task[p].op \notin {"idle", "guard"}
  PROVE  /\ tx[p] # None /\ Shaped(tx[p]) /\ tx[p].about = Subject(task[p]) /\ DOMAIN tx[p].keys = {}
         /\ Writes(tx[p].docs, tx[p].about) /\ HowFar(task[p], tx[p].docs) /\ task[p] \in Managing
<1>1. task[p] \in Managing /\ Good(task[p], tx[p])
  BY TaskOf DEF Tasks, Idle, Judging, Counting
<1>2. ~Outside(task[p])
  BY DEF Outside
<1>3. Shaped(tx[p]) /\ tx[p].about = Subject(task[p]) /\ Counted(task[p], tx[p].keys)
      /\ Writes(tx[p].docs, tx[p].about) /\ HowFar(task[p], tx[p].docs)
  BY <1>1, <1>2 DEF Good
<1>4. tx[p] # None
  BY <1>3 DEF AuthAssumption, AuthConstants
<1>5. DOMAIN tx[p].keys = {}
  BY <1>3 DEF Counted
<1> QED BY <1>1, <1>3, <1>4, <1>5

(* What process p sees of a document. *)
LEMMA DocIs == ASSUME NEW p \in Procs, NEW k PROVE Doc(p, k) = Sees(tx[p].docs, k)
BY DEF Doc, Sees

LEMMA ManageGood ==
  ASSUME NEW t \in Managing, NEW w, Shaped(w), w.about = Subject(t), DOMAIN w.keys = {},
         Writes(w.docs, w.about), HowFar(t, w.docs)
  PROVE  Good(t, w) /\ t \in Tasks /\ ~Outside(t)
<1>1. t.op \notin {"guard", "idle"} /\ t \in Tasks
  BY DEF Managing, Creating, Leaving, Deleting, Making, Taking, Tasks
<1> QED BY <1>1 DEF Good, Outside, Turned, Counted

(* A step that writes nothing. *)
LEMMA ManageReads ==
  ASSUME AuthAssumption, AuthInv, NEW p \in Procs, task[p].op \notin {"idle", "guard"},
         NEW t \in Managing, task' = [task EXCEPT ![p] = t], Subject(t) = Subject(task[p]),
         UNCHANGED <<rows, kv, tx, met, streak, ended>>, HowFar(t, tx[p].docs)
  PROVE  AuthInv'
<1>1. Good(t, tx[p]) /\ t \in Tasks
  BY InManage, ManageGood
<1> QED BY <1>1, TaskStep

(* A step that writes document d. *)
LEMMA ManageWrites ==
  ASSUME AuthAssumption, AuthInv, NEW p \in Procs, task[p].op \notin {"idle", "guard"},
         NEW d \in Docs, NEW doc, WriteDoc(p, d, doc), \A q \in Others(p) : d \notin DOMAIN tx[q].docs,
         UNCHANGED <<rows, kv, met, streak, ended>>,
         NEW t \in Managing, task' = [task EXCEPT ![p] = t], Subject(t) = Subject(task[p]),
         d \in Users => d = Subject(t) /\ doc \in {User, Gone},
         d \in ApiKeys => /\ doc \in KeyDocs /\ doc.user = Subject(t)
                          /\ rows[d] # Unused => rows[d].user = Subject(t) /\ doc.revoked,
         \A w : /\ DOMAIN w = DOMAIN tx[p].docs \cup {d} /\ w[d] = doc
                /\ \A y \in DOMAIN tx[p].docs \ {d} : w[y] = tx[p].docs[y]
                => HowFar(t, w)
  PROVE  AuthInv'
<1> DEFINE new == Over([y \in {d} |-> doc], tx[p].docs)
           w == [about |-> tx[p].about, docs |-> new, keys |-> tx[p].keys]
<1>1. /\ tx[p] # None /\ Shaped(tx[p]) /\ tx[p].about = Subject(task[p]) /\ DOMAIN tx[p].keys = {}
      /\ Writes(tx[p].docs, tx[p].about)
  BY InManage
<1>2. /\ DOMAIN new = DOMAIN tx[p].docs \cup {d} /\ new[d] = doc
      /\ \A y \in DOMAIN tx[p].docs \ {d} : new[y] = tx[p].docs[y]
  BY DEF Over
<1>3. tx' = [tx EXCEPT ![p].docs = new]
  BY DEF WriteDoc
<1>4. HowFar(t, new)
  BY <1>2
<1> HIDE DEF new
<1>5. [tx[p] EXCEPT !.docs = new] = w
  BY <1>1 DEF Shaped
<1>6. tx' = [tx EXCEPT ![p] = w]
  BY <1>3, <1>5 DEF AuthInv, TypeOK
<1>7. Shaped(w) /\ w.about = tx[p].about /\ w.docs = new /\ w.keys = tx[p].keys
  BY DEF Shaped
<1>8. Writes(new, tx[p].about)
  <2>1. d \in Users \cup ApiKeys
    BY DEF AuthAssumption, AuthConstants
  <2> QED BY <1>1, <1>2, <2>1 DEF Writes, AuthAssumption, AuthConstants
<1> HIDE DEF w
<1>9. Good(t, w) /\ t \in Tasks
  BY <1>1, <1>4, <1>7, <1>8, ManageGood
<1>10. \A q \in Procs \ {p} : w # None /\ tx[q] # None =>
            /\ w.about = tx[q].about => w.about \in met'
            /\ DOMAIN w.docs \cap DOMAIN tx[q].docs = {}
  <2> SUFFICES ASSUME NEW q \in Procs \ {p}, tx[q] # None
               PROVE  /\ w.about = tx[q].about => w.about \in met'
                      /\ DOMAIN w.docs \cap DOMAIN tx[q].docs = {}
    OBVIOUS
  <2>1. Beside(tx[p], tx[q])
    BY DEF AuthInv, Apart
  <2>2. d \notin DOMAIN tx[q].docs
    BY DEF Others, InTx
  <2> QED BY <1>1, <1>2, <1>7, <2>1, <2>2 DEF Beside
<1> QED BY <1>6, <1>9, <1>10, LocalStep

LEMMA CreateUserStep ==
  ASSUME AuthAssumption, AuthInv, NEW p \in Procs, CreateUser(p) PROVE AuthInv'
<1> DEFINE d == task[p].id
           doc == User
           t == [task[p] EXCEPT !.at = "commit"]
<1>1. /\ task[p].op = "createUser" /\ task[p].at = "insert" /\ UNCHANGED <<rows, kv, met, streak, ended>>
      /\ task' = [task EXCEPT ![p].at = "commit"] /\ WriteDoc(p, d, doc)
      /\ \A q \in Others(p) : d \notin DOMAIN tx[q].docs
  BY DEF CreateUser, At, Goto, CollectionInsert, Others
<1>2. task[p] \in Creating /\ HowFar(task[p], tx[p].docs)
  BY <1>1, TaskOf, InManage
<1>3. t \in Managing /\ t.op = "createUser" /\ t.id = d /\ d \in Users
  BY <1>2 DEF Managing, Creating
<1>4. Subject(t) = d /\ Subject(task[p]) = d
  BY <1>1, <1>3 DEF Subject
<1>5. task' = [task EXCEPT ![p] = t]
  BY <1>1 DEF AuthInv, TypeOK
<1>6. d \in Docs /\ d \notin ApiKeys
  BY <1>3 DEF AuthAssumption, AuthConstants
<1>7. ASSUME NEW w, DOMAIN w = DOMAIN tx[p].docs \cup {d}, w[d] = doc,
             \A y \in DOMAIN tx[p].docs \ {d} : w[y] = tx[p].docs[y]
      PROVE  HowFar(t, w)
  <2>1. CreatesUser(task[p], tx[p].docs)
    BY <1>1, <1>2 DEF HowFar
  <2>2. CreatesUser(t, w)
    BY <1>6, <1>7, <2>1 DEF CreatesUser
  <2> QED BY <1>3, <2>2 DEF HowFar
<1> HIDE DEF t, d, doc
<1>8. task[p].op \notin {"idle", "guard"}
  BY <1>1
<1>9. /\ d \in Users => d = Subject(t) /\ doc \in {User, Gone}
      /\ d \in ApiKeys => /\ doc \in KeyDocs /\ doc.user = Subject(t)
                          /\ rows[d] # Unused => rows[d].user = Subject(t) /\ doc.revoked
      /\ Subject(t) = Subject(task[p])
  BY <1>4, <1>6 DEF doc
<1>10. \A w : /\ DOMAIN w = DOMAIN tx[p].docs \cup {d} /\ w[d] = doc
              /\ \A y \in DOMAIN tx[p].docs \ {d} : w[y] = tx[p].docs[y]
              => HowFar(t, w)
  BY <1>7
<1>11. /\ WriteDoc(p, d, doc) /\ UNCHANGED <<rows, kv, met, streak, ended>> /\ d \in Docs /\ t \in Managing
       /\ \A q \in Others(p) : d \notin DOMAIN tx[q].docs
  BY <1>1, <1>3, <1>6
<1> QED BY <1>5, <1>8, <1>9, <1>10, <1>11, ManageWrites

LEMMA FindUserStep ==
  ASSUME AuthAssumption, AuthInv, NEW p \in Procs, FindUser(p) PROVE AuthInv'
<1> DEFINE found == Exists(Doc(p, task[p].user)) /\ ValidateScopes(task[p].scopes)
           at == IF found THEN "insert" ELSE "throw"
           t == [task[p] EXCEPT !.at = at]
<1>1. /\ task[p].op = "createApiKey" /\ task[p].at = "find" /\ UNCHANGED <<rows, kv, tx, met, streak, ended>>
      /\ task' = [task EXCEPT ![p].at = at]
  BY DEF FindUser, At, Goto, storeVars
<1>2. task[p] \in Making /\ CreatesKey(task[p], tx[p].docs)
  BY <1>1, TaskOf, InManage DEF HowFar
<1>3. at \in {"insert", "throw"} /\ (at = "insert" => Exists(Doc(p, task[p].user)) /\ ValidateScopes(task[p].scopes))
  OBVIOUS
<1>4. DOMAIN tx[p].docs = {} /\ task[p].user \in DOMAIN rows
  BY <1>1, <1>2 DEF CreatesKey, Making, AuthInv, TypeOK, AuthAssumption, AuthConstants
<1>5. Doc(p, task[p].user) = rows[task[p].user]
  BY <1>4 DEF Doc, Over
<1> HIDE DEF at
<1>6. t \in Managing /\ t.op = "createApiKey" /\ t.user = task[p].user /\ t.scopes = task[p].scopes /\ t.at = at
      /\ Subject(t) = Subject(task[p])
  BY <1>1, <1>2, <1>3 DEF Managing, Making, Subject
<1>7. HowFar(t, tx[p].docs)
  <2>1. CreatesKey(t, tx[p].docs)
    BY <1>3, <1>4, <1>5, <1>6 DEF CreatesKey
  <2> QED BY <1>6, <2>1 DEF HowFar
<1>8. task' = [task EXCEPT ![p] = t]
  BY <1>1 DEF AuthInv, TypeOK
<1>9. task[p].op \notin {"idle", "guard"}
  BY <1>1
<1> HIDE DEF t
<1> QED BY <1>1, <1>6, <1>7, <1>8, <1>9, ManageReads

LEMMA CreateApiKeyStep ==
  ASSUME AuthAssumption, AuthInv, NEW p \in Procs, CreateApiKey(p) PROVE AuthInv'
<1> DEFINE d == task[p].id
           doc == Key(task[p].user, task[p].scopes)
           t == [task[p] EXCEPT !.at = "commit"]
<1>1. /\ task[p].op = "createApiKey" /\ task[p].at = "insert" /\ UNCHANGED <<rows, kv, met, streak, ended>>
      /\ task' = [task EXCEPT ![p].at = "commit"] /\ WriteDoc(p, d, doc) /\ rows[d] = Unused
      /\ \A q \in Others(p) : d \notin DOMAIN tx[q].docs
  BY DEF CreateApiKey, At, Goto, CollectionInsert, Others
<1>2. task[p] \in Making /\ CreatesKey(task[p], tx[p].docs)
  BY <1>1, TaskOf, InManage DEF HowFar
<1>3. /\ t \in Managing /\ t.op = "createApiKey" /\ t.user = task[p].user /\ t.at = "commit"
      /\ d \in ApiKeys /\ doc \in KeyDocs /\ doc.user = task[p].user
  BY <1>1, <1>2 DEF Managing, Making, Key, KeyDocs, CreatesKey, ValidateScopes
<1>4. Subject(t) = task[p].user /\ Subject(task[p]) = task[p].user
  BY <1>1, <1>3 DEF Subject
<1>5. task' = [task EXCEPT ![p] = t]
  BY <1>1 DEF AuthInv, TypeOK
<1>6. d \in Docs /\ d \notin Users
  BY <1>3 DEF AuthAssumption, AuthConstants
<1>7. ASSUME NEW w, DOMAIN w = DOMAIN tx[p].docs \cup {d}, w[d] = doc,
             \A y \in DOMAIN tx[p].docs \ {d} : w[y] = tx[p].docs[y]
      PROVE  HowFar(t, w)
  <2>1. CreatesKey(t, w)
    BY <1>1, <1>2, <1>3, <1>6, <1>7 DEF CreatesKey
  <2> QED BY <1>3, <2>1 DEF HowFar
<1> HIDE DEF t, d, doc
<1>8. task[p].op \notin {"idle", "guard"}
  BY <1>1
<1>9. /\ d \in Users => d = Subject(t) /\ doc \in {User, Gone}
      /\ d \in ApiKeys => /\ doc \in KeyDocs /\ doc.user = Subject(t)
                          /\ rows[d] # Unused => rows[d].user = Subject(t) /\ doc.revoked
      /\ Subject(t) = Subject(task[p])
  BY <1>1, <1>3, <1>4, <1>6
<1>10. \A w : /\ DOMAIN w = DOMAIN tx[p].docs \cup {d} /\ w[d] = doc
              /\ \A y \in DOMAIN tx[p].docs \ {d} : w[y] = tx[p].docs[y]
              => HowFar(t, w)
  BY <1>7
<1> QED BY <1>1, <1>3, <1>5, <1>6, <1>8, <1>9, <1>10, ManageWrites

LEMMA FindKeysStep ==
  ASSUME AuthAssumption, AuthInv, NEW p \in Procs, FindKeys(p) PROVE AuthInv'
<1> DEFINE u == task[p].id
           keys == {k \in KeysOf(p, u) : ~Doc(p, k).revoked}
           t == [op |-> "deleteUser", at |-> "next", id |-> u, keys |-> keys]
<1>1. /\ task[p].op = "deleteUser" /\ task[p].at = "find" /\ UNCHANGED <<rows, kv, tx, met, streak, ended>>
      /\ task' = [task EXCEPT ![p] = t]
  BY DEF FindKeys, At, storeVars
<1>2. task[p] \in Leaving /\ DOMAIN tx[p].docs = {}
  BY <1>1, TaskOf, InManage DEF HowFar, DeletesUser, Deleting
<1>3. \A d \in Docs : Doc(p, d) = rows[d]
  BY <1>2 DEF Doc, Over, AuthInv, TypeOK
<1>4. keys = {d \in Docs : Exists(rows[d]) /\ rows[d].coll = "key" /\ rows[d].user = u /\ ~rows[d].revoked}
  BY <1>3 DEF KeysOf, Found
<1>5. \A d \in Users : Exists(rows[d]) => rows[d].coll = "user"
  <2> SUFFICES ASSUME NEW d \in Users, Exists(rows[d]) PROVE rows[d].coll = "user"
    OBVIOUS
  <2>1. rows[d] = User
    BY DEF AuthInv, TypeOK, Exists
  <2> QED BY <2>1 DEF User
<1>6. keys \subseteq ApiKeys
  BY <1>4, <1>5 DEF AuthAssumption, AuthConstants
<1> HIDE DEF keys
<1>7. t \in Managing /\ t.op = "deleteUser" /\ t.at = "next" /\ t.id = u /\ t.keys = keys
  BY <1>2, <1>6 DEF Managing, Leaving, Deleting
<1>8. Subject(t) = Subject(task[p])
  BY <1>1, <1>7 DEF Subject
<1>9. Only(tx[p].docs, u, keys)
  <2> SUFFICES ASSUME NEW k \in ApiKeys \ keys, Exists(rows[k]), rows[k].user = u
               PROVE  Sees(tx[p].docs, k).revoked
    BY DEF Only
  <2>1. k \in Docs /\ rows[k] \in KeyDocs
    BY DEF AuthAssumption, AuthConstants, AuthInv, TypeOK, Exists
  <2>2. rows[k].revoked
    BY <1>4, <2>1 DEF KeyDocs
  <2> QED BY <1>3, <2>1, <2>2, DocIs
<1>10. HowFar(t, tx[p].docs)
  <2>1. \A k \in t.keys : Exists(rows[k]) /\ rows[k].user = t.id
    BY <1>4, <1>7
  <2>2. DeletesUser(t, tx[p].docs)
    BY <1>2, <1>7, <1>9, <2>1 DEF DeletesUser
  <2> QED BY <1>7, <2>2 DEF HowFar
<1>11. task[p].op \notin {"idle", "guard"}
  BY <1>1
<1> HIDE DEF t
<1> QED BY <1>1, <1>7, <1>8, <1>10, <1>11, ManageReads

(* The revocation of key k by a transaction about its user: the key is     *)
(* written, as Merge leaves it.                                            *)
LEMMA RevokeStep ==
  ASSUME AuthAssumption, AuthInv, NEW p \in Procs, task[p].op \notin {"idle", "guard"},
         NEW k \in ApiKeys, Exists(rows[k]), rows[k].user = Subject(task[p]),
         UpdateRow(p, k, Doc(p, k), Revoking), UNCHANGED <<streak, ended>>,
         NEW t \in Managing, task' = [task EXCEPT ![p] = t], Subject(t) = Subject(task[p]),
         \A w : /\ DOMAIN w = DOMAIN tx[p].docs \cup {k} /\ w[k].revoked
                /\ \A y \in DOMAIN tx[p].docs \ {k} : w[y] = tx[p].docs[y]
                => HowFar(t, w)
  PROVE  AuthInv'
<1> DEFINE old == Doc(p, k)
           doc == Merge(old, Revoking)
<1>1. Writes(tx[p].docs, tx[p].about)
  BY InManage
<1>2. Exists(old) /\ old \in KeyDocs /\ old.user = rows[k].user
  BY <1>1, SeesKey, DocIs DEF AuthInv
<1>3. /\ WriteDoc(p, k, doc) /\ UNCHANGED <<rows, kv, met, streak, ended>>
      /\ \A q \in Others(p) : k \notin DOMAIN tx[q].docs
  BY <1>2 DEF UpdateRow, Locked
<1> HIDE DEF old
<1>4. doc \in KeyDocs /\ doc.revoked /\ doc.user = rows[k].user
  BY <1>2, RevokedIs
<1> HIDE DEF doc
<1>5. k \in Docs /\ k \notin Users
  BY DEF AuthAssumption, AuthConstants
<1>6. /\ k \in Users => k = Subject(t) /\ doc \in {User, Gone}
      /\ k \in ApiKeys => /\ doc \in KeyDocs /\ doc.user = Subject(t)
                          /\ rows[k] # Unused => rows[k].user = Subject(t) /\ doc.revoked
  BY <1>4, <1>5
<1>7. \A w : /\ DOMAIN w = DOMAIN tx[p].docs \cup {k} /\ w[k] = doc
             /\ \A y \in DOMAIN tx[p].docs \ {k} : w[y] = tx[p].docs[y]
             => HowFar(t, w)
  BY <1>4
<1>8. k \in Docs
  BY <1>5
<1> QED BY <1>3, <1>6, <1>7, <1>8, ManageWrites

LEMMA RevokeNextStep ==
  ASSUME AuthAssumption, AuthInv, NEW p \in Procs, RevokeNext(p) PROVE AuthInv'
<1> DEFINE u == task[p].id
<1>1. task[p].op = "deleteUser" /\ task[p].at = "next" /\ UNCHANGED <<streak, ended>>
  BY DEF RevokeNext, At
<1>2. PICK k \in task[p].keys :
        UpdateRow(p, k, Doc(p, k), Revoking) /\ task' = [task EXCEPT ![p].keys = @ \ {k}]
  BY DEF RevokeNext
<1> DEFINE rest == task[p].keys \ {k}
           t == [task[p] EXCEPT !.keys = rest]
<1>3. task[p] \in Deleting /\ HowFar(task[p], tx[p].docs)
  BY <1>1, TaskOf, InManage DEF Leaving
<1>4. DeletesUser(task[p], tx[p].docs) /\ k \in ApiKeys /\ task[p].keys \subseteq ApiKeys
  BY <1>1, <1>3 DEF HowFar, Deleting
<1>5. Exists(rows[k]) /\ rows[k].user = u /\ \A j \in rest : Exists(rows[j]) /\ rows[j].user = u
  BY <1>1, <1>4 DEF DeletesUser
<1> HIDE DEF rest
<1>6. t \in Managing /\ t.op = "deleteUser" /\ t.id = u /\ t.at = "next" /\ t.keys = rest
  BY <1>1, <1>3, <1>4 DEF Managing, Deleting, rest
<1>7. Subject(t) = u /\ Subject(task[p]) = u
  BY <1>1, <1>6 DEF Subject
<1>8. task' = [task EXCEPT ![p] = t]
  BY <1>2 DEF AuthInv, TypeOK, rest
<1>9. ASSUME NEW w, DOMAIN w = DOMAIN tx[p].docs \cup {k}, w[k].revoked,
             \A y \in DOMAIN tx[p].docs \ {k} : w[y] = tx[p].docs[y]
      PROVE  HowFar(t, w)
  <2>1. u \notin met => Only(w, u, rest)
    <3> SUFFICES ASSUME u \notin met, NEW j \in ApiKeys \ rest, Exists(rows[j]), rows[j].user = u
                 PROVE  Sees(w, j).revoked
      BY DEF Only
    <3>1. CASE j = k
      BY <1>9, <3>1 DEF Sees, Over
    <3>2. CASE j # k
      <4>1. Sees(w, j) = Sees(tx[p].docs, j)
        BY <1>9, <3>2 DEF Sees, Over, AuthInv, TypeOK, AuthAssumption, AuthConstants
      <4>2. Only(tx[p].docs, u, task[p].keys)
        BY <1>1, <1>4 DEF DeletesUser
      <4> QED BY <3>2, <4>1, <4>2 DEF Only, rest
    <3> QED BY <3>1, <3>2
  <2>2. DeletesUser(t, w)
    BY <1>4, <1>5, <1>6, <1>9, <2>1 DEF DeletesUser
  <2> QED BY <1>6, <2>2 DEF HowFar
<1>10. \A w : /\ DOMAIN w = DOMAIN tx[p].docs \cup {k} /\ w[k].revoked
              /\ \A y \in DOMAIN tx[p].docs \ {k} : w[y] = tx[p].docs[y]
              => HowFar(t, w)
  BY <1>9
<1>11. task[p].op \notin {"idle", "guard"}
  BY <1>1
<1> HIDE DEF t, u
<1>12. /\ UpdateRow(p, k, Doc(p, k), Revoking) /\ UNCHANGED <<streak, ended>> /\ t \in Managing
       /\ k \in ApiKeys /\ Exists(rows[k]) /\ rows[k].user = Subject(task[p]) /\ Subject(t) = Subject(task[p])
  BY <1>1, <1>2, <1>4, <1>5, <1>6, <1>7
<1> QED BY <1>8, <1>10, <1>11, <1>12, RevokeStep

LEMMA RevokeApiKeyStep ==
  ASSUME AuthAssumption, AuthInv, NEW p \in Procs, RevokeApiKey(p) PROVE AuthInv'
<1> DEFINE k == task[p].id
           t == [task[p] EXCEPT !.at = "commit"]
<1>1. /\ task[p].op = "revokeApiKey" /\ task[p].at = "update" /\ UNCHANGED <<streak, ended>>
      /\ UpdateRow(p, k, Doc(p, k), Revoking) /\ task' = [task EXCEPT ![p].at = "commit"]
  BY DEF RevokeApiKey, At, Goto
<1>2. task[p] \in Taking /\ HowFar(task[p], tx[p].docs)
  BY <1>1, TaskOf, InManage
<1>3. RevokesKey(task[p], tx[p].docs) /\ k \in ApiKeys
  BY <1>1, <1>2 DEF HowFar, Taking
<1>4. t \in Managing /\ t.op = "revokeApiKey" /\ t.id = k /\ t.at = "commit"
  BY <1>2 DEF Managing, Taking
<1>5. Subject(t) = rows[k].user /\ Subject(task[p]) = rows[k].user
  BY <1>1, <1>4 DEF Subject
<1>6. task' = [task EXCEPT ![p] = t]
  BY <1>1 DEF AuthInv, TypeOK
<1>7. Exists(rows[k]) /\ k \notin Users
  BY <1>3 DEF RevokesKey, AuthAssumption, AuthConstants
<1>8. ASSUME NEW w, DOMAIN w = DOMAIN tx[p].docs \cup {k}, w[k].revoked,
             \A y \in DOMAIN tx[p].docs \ {k} : w[y] = tx[p].docs[y]
      PROVE  HowFar(t, w)
  <2>1. Sees(w, k).revoked
    BY <1>8 DEF Sees, Over
  <2>2. RevokesKey(t, w)
    BY <1>3, <1>4, <1>7, <1>8, <2>1 DEF RevokesKey
  <2> QED BY <1>4, <2>2 DEF HowFar
<1>9. \A w : /\ DOMAIN w = DOMAIN tx[p].docs \cup {k} /\ w[k].revoked
             /\ \A y \in DOMAIN tx[p].docs \ {k} : w[y] = tx[p].docs[y]
             => HowFar(t, w)
  BY <1>8
<1>10. task[p].op \notin {"idle", "guard"}
  BY <1>1
<1> HIDE DEF t, k
<1>11. /\ UpdateRow(p, k, Doc(p, k), Revoking) /\ UNCHANGED <<streak, ended>> /\ t \in Managing
       /\ k \in ApiKeys /\ Exists(rows[k]) /\ rows[k].user = Subject(task[p]) /\ Subject(t) = Subject(task[p])
  BY <1>1, <1>3, <1>4, <1>5, <1>7
<1> QED BY <1>6, <1>9, <1>10, <1>11, RevokeStep

LEMMA FindKeyStep ==
  ASSUME AuthAssumption, AuthInv, NEW p \in Procs, FindKey(p) PROVE AuthInv'
<1> DEFINE k == task[p].id
           valid == Exists(Doc(p, k)) /\ ~Doc(p, k).revoked
           at == IF valid THEN "update" ELSE "commit"
           t == [task[p] EXCEPT !.at = at]
<1>1. /\ task[p].op = "revokeApiKey" /\ task[p].at = "find" /\ UNCHANGED <<rows, kv, tx, met, streak, ended>>
      /\ task' = [task EXCEPT ![p].at = at]
  BY DEF FindKey, At, Goto, storeVars
<1>2. task[p] \in Taking /\ HowFar(task[p], tx[p].docs) /\ Writes(tx[p].docs, tx[p].about)
  BY <1>1, TaskOf, InManage
<1>3. RevokesKey(task[p], tx[p].docs) /\ k \in ApiKeys
  BY <1>1, <1>2 DEF HowFar, Taking
<1>4. Exists(Sees(tx[p].docs, k)) /\ Doc(p, k) = Sees(tx[p].docs, k)
  BY <1>2, <1>3, SeesKey, DocIs DEF RevokesKey, AuthInv
<1>5. at \in {"update", "commit"} /\ (at = "commit" => Sees(tx[p].docs, k).revoked)
  BY <1>4
<1> HIDE DEF at
<1>6. t \in Managing /\ t.op = "revokeApiKey" /\ t.id = k /\ t.at = at
  BY <1>1, <1>2, <1>5 DEF Managing, Taking
<1>7. Subject(t) = Subject(task[p]) /\ task' = [task EXCEPT ![p] = t]
  BY <1>1, <1>6 DEF Subject, AuthInv, TypeOK
<1>8. HowFar(t, tx[p].docs)
  <2>1. RevokesKey(t, tx[p].docs)
    BY <1>3, <1>5, <1>6 DEF RevokesKey
  <2> QED BY <1>6, <2>1 DEF HowFar
<1>9. task[p].op \notin {"idle", "guard"}
  BY <1>1
<1> HIDE DEF t
<1> QED BY <1>1, <1>6, <1>7, <1>8, <1>9, ManageReads

LEMMA DeleteUserStep ==
  ASSUME AuthAssumption, AuthInv, NEW p \in Procs, DeleteUser(p) PROVE AuthInv'
<1> DEFINE u == task[p].id
           t == [task[p] EXCEPT !.at = "commit"]
<1>1. /\ task[p].op = "deleteUser" /\ task[p].at = "next" /\ task[p].keys = {} /\ UNCHANGED <<streak, ended>>
      /\ DeleteRow(p, u) /\ task' = [task EXCEPT ![p].at = "commit"]
  BY DEF DeleteUser, At, Goto
<1>2. task[p] \in Deleting /\ HowFar(task[p], tx[p].docs)
  BY <1>1, TaskOf, InManage DEF Leaving
<1>3. DeletesUser(task[p], tx[p].docs) /\ u \in Users
  BY <1>1, <1>2 DEF HowFar, Deleting
<1>4. t \in Managing /\ t.op = "deleteUser" /\ t.id = u /\ t.at = "commit" /\ t.keys = {}
  BY <1>1, <1>2 DEF Managing, Deleting
<1>5. Subject(t) = u /\ Subject(task[p]) = u
  BY <1>1, <1>4 DEF Subject
<1>6. task' = [task EXCEPT ![p] = t]
  BY <1>1 DEF AuthInv, TypeOK
<1>7. u \in Docs /\ u \notin ApiKeys
  BY <1>3 DEF AuthAssumption, AuthConstants
<1>8. u \notin met => Only(tx[p].docs, u, {})
  BY <1>1, <1>3 DEF DeletesUser
<1>9. task[p].op \notin {"idle", "guard"}
  BY <1>1
<1> HIDE DEF t
<1>10. CASE Exists(Doc(p, u))
  <2> DEFINE doc == Gone
  <2>1. /\ WriteDoc(p, u, doc) /\ UNCHANGED <<rows, kv, met, streak, ended>>
        /\ \A q \in Others(p) : u \notin DOMAIN tx[q].docs
    BY <1>1, <1>10 DEF DeleteRow, Locked
  <2>2. /\ u \in Users => u = Subject(t) /\ doc \in {User, Gone}
        /\ u \in ApiKeys => /\ doc \in KeyDocs /\ doc.user = Subject(t)
                            /\ rows[u] # Unused => rows[u].user = Subject(t) /\ doc.revoked
    BY <1>5, <1>7
  <2>3. ASSUME NEW w, DOMAIN w = DOMAIN tx[p].docs \cup {u},
               \A y \in DOMAIN tx[p].docs \ {u} : w[y] = tx[p].docs[y]
        PROVE  HowFar(t, w)
    <3>1. \A k \in ApiKeys : Sees(w, k) = Sees(tx[p].docs, k)
      BY <1>7, <2>3 DEF Sees, Over, AuthInv, TypeOK, AuthAssumption, AuthConstants
    <3>2. u \notin met => Only(w, u, {})
      BY <1>8, <3>1 DEF Only
    <3>3. DeletesUser(t, w)
      BY <1>3, <1>4, <1>7, <2>3, <3>2 DEF DeletesUser
    <3> QED BY <1>4, <3>3 DEF HowFar
  <2> HIDE DEF doc
  <2>4. \A w : /\ DOMAIN w = DOMAIN tx[p].docs \cup {u} /\ w[u] = doc
               /\ \A y \in DOMAIN tx[p].docs \ {u} : w[y] = tx[p].docs[y]
               => HowFar(t, w)
    BY <2>3
  <2>5. u \in Docs /\ t \in Managing /\ Subject(t) = Subject(task[p])
    BY <1>4, <1>5, <1>7
  <2> HIDE DEF u
  <2> QED BY <1>6, <1>9, <2>1, <2>2, <2>4, <2>5, ManageWrites
<1>11. CASE ~Exists(Doc(p, u))
  <2>1. UNCHANGED <<rows, kv, tx, met, streak, ended>>
    BY <1>1, <1>11 DEF DeleteRow
  <2>2. HowFar(t, tx[p].docs)
    <3>1. DeletesUser(t, tx[p].docs)
      BY <1>3, <1>4, <1>8 DEF DeletesUser
    <3> QED BY <1>4, <3>1 DEF HowFar
  <2> QED BY <1>4, <1>5, <1>6, <1>9, <2>1, <2>2, ManageReads
<1> QED BY <1>10, <1>11

-----------------------------------------------------------------------------
(* A task that ends and leaves nothing. *)
LEMMA LeaveStep ==
  ASSUME AuthInv, NEW p \in Procs, UNCHANGED <<rows, kv, met, streak, ended>>,
         task' = [task EXCEPT ![p] = Idle], tx' = [tx EXCEPT ![p] = None]
  PROVE  AuthInv'
<1>1. Idle \in Tasks /\ Good(Idle, None)
  BY DEF Tasks, Good, Outside, Turned, Idle
<1> QED BY <1>1, LocalStep

LEMMA ThrowStep == ASSUME AuthInv, NEW p \in Procs, Throw(p) PROVE AuthInv'
<1>1. /\ UNCHANGED <<rows, kv, met, streak, ended>>
      /\ task' = [task EXCEPT ![p] = Idle] /\ tx' = [tx EXCEPT ![p] = None]
  BY DEF Throw, Rollback, Rest
<1> QED BY <1>1, LeaveStep

LEMMA CrashStep == ASSUME AuthInv, NEW p \in Procs, Crash(p) PROVE AuthInv'
<1>1. UNCHANGED <<rows, kv, met, streak, ended>> /\ task' = [task EXCEPT ![p] = Idle]
  BY DEF Crash, Rollback, Rest, storeVars
<1>2. tx' = [tx EXCEPT ![p] = None]
  <2>1. CASE InTx(p)
    BY <2>1 DEF Crash, Rollback
  <2>2. CASE ~InTx(p)
    BY <2>2 DEF Crash, InTx, storeVars, AuthInv, TypeOK
  <2> QED BY <2>1, <2>2
<1> QED BY <1>1, <1>2, LeaveStep

(* What the commit of a transaction about user a leaves of the documents.  *)
LEMMA CommitDocs ==
  ASSUME AuthAssumption, TypeOK, NEW w, NEW a, Writes(w, a), rows' = Over(w, rows)
  PROVE  /\ DOMAIN rows' = Docs /\ rows' = [d \in Docs |-> rows'[d]]
         /\ \A u \in Users : rows'[u] \in {Unused, User, Gone}
         /\ \A d \in Docs \ DOMAIN w : rows'[d] = rows[d]
         /\ \A u \in Users : u # a => rows'[u] = rows[u]
         /\ \A k \in ApiKeys :
              /\ rows'[k] \in {Unused} \cup KeyDocs /\ rows'[k] = Sees(w, k)
              /\ Exists(rows'[k]) /\ rows'[k].user # a => rows'[k] = rows[k]
              /\ Exists(rows[k]) => Exists(rows'[k]) /\ rows'[k].user = rows[k].user
                                    /\ (rows[k].revoked => rows'[k].revoked)
<1>1. DOMAIN rows = Docs /\ DOMAIN w \subseteq Docs
  BY DEF TypeOK, Writes, AuthAssumption, AuthConstants
<1>2. /\ DOMAIN rows' = Docs /\ rows' = [d \in Docs |-> rows'[d]]
      /\ \A d \in DOMAIN w : rows'[d] = w[d]
      /\ \A d \in Docs \ DOMAIN w : rows'[d] = rows[d]
  BY <1>1 DEF Over
<1>3. \A u \in Users : rows'[u] \in {Unused, User, Gone} /\ (u # a => rows'[u] = rows[u])
  BY <1>1, <1>2 DEF Writes, TypeOK, AuthAssumption, AuthConstants
<1>4. ASSUME NEW k \in ApiKeys
      PROVE  /\ rows'[k] \in {Unused} \cup KeyDocs /\ rows'[k] = Sees(w, k)
             /\ Exists(rows'[k]) /\ rows'[k].user # a => rows'[k] = rows[k]
             /\ Exists(rows[k]) => Exists(rows'[k]) /\ rows'[k].user = rows[k].user
                                   /\ (rows[k].revoked => rows'[k].revoked)
  <2>1. rows'[k] = Sees(w, k)
    BY DEF Sees
  <2>2. k \in DOMAIN w => rows'[k].user = a
    BY <1>2 DEF Writes
  <2>3. k \in Docs
    BY DEF AuthAssumption, AuthConstants
  <2> QED BY <1>2, <2>1, <2>2, <2>3, SeesKey
<1> QED BY <1>2, <1>3, <1>4

(* What another task has said stays true over such a commit. *)
LEMMA GoodOver ==
  ASSUME AuthAssumption, AuthInv, NEW p \in Procs, NEW q \in Procs \ {p}, task[p].op \notin {"idle", "guard"},
         rows' = Over(tx[p].docs, rows), UNCHANGED <<kv, met, streak>>, ended \subseteq ended',
         task'[q] = task[q], tx'[q] = tx[q]
  PROVE  Good(task[q], tx[q])'
<1> DEFINE t == task[q]
           v == tx[q]
           w == tx[p].docs
           a == tx[p].about
<1>1. Writes(w, a) /\ tx[p] # None
  BY InManage
<1>2. /\ \A d \in Docs \ DOMAIN w : rows'[d] = rows[d]
      /\ \A u \in Users : u # a => rows'[u] = rows[u]
  <2>1. rows' = Over(w, rows) /\ TypeOK
    BY DEF AuthInv
  <2> HIDE DEF w, a
  <2> QED BY <1>1, <2>1, CommitDocs
<1>3. \A k \in ApiKeys :
        /\ Exists(rows'[k]) /\ rows'[k].user # a => rows'[k] = rows[k]
        /\ Exists(rows[k]) => Exists(rows'[k]) /\ rows'[k].user = rows[k].user
                              /\ (rows[k].revoked => rows'[k].revoked)
  <2>1. rows' = Over(w, rows) /\ TypeOK
    BY DEF AuthInv
  <2> HIDE DEF w, a
  <2> QED BY <1>1, <2>1, CommitDocs
<1>4. Good(t, v) /\ Beside(tx[p], v) /\ t \in Tasks
  BY TaskOf DEF AuthInv, Apart
<1>5. Turned(t)'
  <2>1. Turned(t)
    BY <1>4 DEF Good
  <2>2. \A k \in ended : rows'[k].user = rows[k].user
    BY <1>3 DEF AuthInv, EndedStay, TypeOK
  <2> QED BY <2>1, <2>2 DEF Turned
<1>6. CASE Outside(t)
  BY <1>4, <1>5, <1>6 DEF Good, Outside
<1>7. CASE t.op = "guard" /\ ~Outside(t)
  <2>1. /\ Shaped(v) /\ v.about = Prefix[t.key] /\ DOMAIN v.docs = {} /\ Counted(t, v.keys)
    BY <1>7, InGuard
  <2>2. /\ Shaped(v)' /\ (v.about = Prefix[t.key])' /\ (DOMAIN v.docs = {})' /\ Counted(t, v.keys)'
        /\ (t.op = "guard" /\ ~Outside(t))'
    BY <1>7, <2>1 DEF Shaped, Counted, Outside
  <2>3. (v.about = Subject(t) /\ Writes(v.docs, v.about) /\ HowFar(t, v.docs))'
    BY <2>2 DEF Subject, Writes, HowFar
  <2> QED BY <1>5, <2>2, <2>3 DEF Good
<1>8. CASE t.op \notin {"idle", "guard"}
  <2>1. /\ v # None /\ Shaped(v) /\ v.about = Subject(t) /\ DOMAIN v.keys = {}
        /\ Writes(v.docs, v.about) /\ HowFar(t, v.docs) /\ t \in Managing
    BY <1>8, InManage
  <2>2. (a = v.about => a \in met) /\ DOMAIN w \cap DOMAIN v.docs = {}
    BY <1>1, <1>4, <2>1 DEF Beside
  <2>3. t.op = "revokeApiKey" => Exists(rows[t.id]) /\ t.id \in ApiKeys /\ RevokesKey(t, v.docs)
    BY <2>1, TaskOf DEF HowFar, RevokesKey, Taking
  <2>4. (v.about = Subject(t))'
    BY <1>3, <2>1, <2>3 DEF Subject, Managing, Creating, Leaving, Deleting, Making, Taking
  <2>5. Writes(v.docs, v.about)'
    <3>1. \A k \in DOMAIN v.docs \cap ApiKeys : rows'[k] = rows[k]
      BY <1>2, <2>2 DEF AuthAssumption, AuthConstants
    <3> QED BY <2>1, <3>1 DEF Writes
  <2>6. (t.op = "createUser" => CreatesUser(t, v.docs))'
    BY <2>1 DEF HowFar, CreatesUser
  <2>7. (t.op = "createApiKey" => CreatesKey(t, v.docs))'
    <3> SUFFICES ASSUME t.op = "createApiKey" PROVE CreatesKey(t, v.docs)'
      OBVIOUS
    <3>1. CreatesKey(t, v.docs) /\ v.about = t.user /\ t.user \in Users
      BY <2>1, TaskOf DEF HowFar, Subject, Making
    <3>2. t.user \notin met => rows'[t.user] = rows[t.user]
      BY <1>2, <2>2, <3>1
    <3> QED BY <3>1, <3>2 DEF CreatesKey, Exists
  <2>8. (t.op = "revokeApiKey" => RevokesKey(t, v.docs))'
    <3> SUFFICES ASSUME t.op = "revokeApiKey" PROVE RevokesKey(t, v.docs)'
      OBVIOUS
    <3>1. t.id \in ApiKeys /\ RevokesKey(t, v.docs) /\ t.id \in Docs /\ DOMAIN rows = Docs /\ DOMAIN rows' = Docs
      BY <1>1, <2>3, CommitDocs DEF AuthAssumption, AuthConstants, AuthInv, TypeOK
    <3>2. Exists(rows'[t.id]) /\ (rows[t.id].revoked => rows'[t.id].revoked)
      BY <1>3, <2>3
    <3>3. t.at = "commit" => (Over(v.docs, rows')[t.id]).revoked
      BY <3>1, <3>2 DEF RevokesKey, Sees, Over
    <3> QED BY <3>1, <3>2, <3>3 DEF RevokesKey, Sees, Exists
  <2>9. (t.op = "deleteUser" => DeletesUser(t, v.docs))'
    <3> SUFFICES ASSUME t.op = "deleteUser" PROVE DeletesUser(t, v.docs)'
      OBVIOUS
    <3>1. DeletesUser(t, v.docs) /\ v.about = t.id /\ (t.at = "next" => t.keys \subseteq ApiKeys)
      BY <2>1, TaskOf DEF HowFar, Subject, Leaving, Deleting
    <3>2. t.id \notin met => \A k \in ApiKeys : Exists(rows'[k]) /\ rows'[k].user = t.id => rows'[k] = rows[k]
      BY <1>3, <2>2, <3>1
    <3>3. ASSUME NEW keys, t.id \notin met, Only(v.docs, t.id, keys) PROVE Only(v.docs, t.id, keys)'
      <4> SUFFICES ASSUME NEW k \in ApiKeys \ keys, Exists(rows'[k]), rows'[k].user = t.id
                   PROVE  (Over(v.docs, rows')[k]).revoked
        BY DEF Only, Sees, Exists
      <4>1. rows'[k] = rows[k] /\ Sees(v.docs, k).revoked
        BY <3>2, <3>3 DEF Only
      <4>2. k \in DOMAIN rows /\ k \in DOMAIN rows'
        BY <1>1, CommitDocs DEF AuthAssumption, AuthConstants, AuthInv, TypeOK
      <4> QED BY <4>1, <4>2 DEF Sees, Over
    <3>4. \A k \in DOMAIN v.docs \cap ApiKeys : Exists(rows'[k])
      BY <1>3, <3>1 DEF DeletesUser
    <3>5. t.at = "next" => \A k \in t.keys : Exists(rows'[k]) /\ rows'[k].user = t.id
      BY <1>3, <3>1 DEF DeletesUser
    <3> QED BY <3>1, <3>3, <3>4, <3>5 DEF DeletesUser, Only, Sees, Exists
  <2>10. HowFar(t, v.docs)'
    BY <1>8, <2>6, <2>7, <2>8, <2>9 DEF HowFar
  <2>11. (Shaped(v) /\ Counted(t, v.keys) /\ ~Outside(t))'
    BY <1>8, <2>1 DEF Shaped, Counted, Outside
  <2> QED BY <1>5, <2>4, <2>5, <2>10, <2>11 DEF Good
<1> QED BY <1>6, <1>7, <1>8 DEF Outside

(* The answer to a request of the management.                              *)
LEMMA ManageCommitStep ==
  ASSUME AuthAssumption, AuthInv, NEW p \in Procs, ManageCommit(p) PROVE AuthInv'
<1> DEFINE t == task[p]
           w == tx[p].docs
           a == tx[p].about
<1>1. /\ t # Idle /\ t.op # "guard" /\ t.at = "commit" /\ UNCHANGED <<met, streak>>
      /\ rows' = Over(w, rows) /\ kv' = Over(tx[p].keys, kv) /\ ended' = ended \cup Revoked(t)
      /\ task' = [task EXCEPT ![p] = Idle] /\ tx' = [tx EXCEPT ![p] = None]
  BY DEF ManageCommit, Commit, Rest
<1>2. t.op \notin {"idle", "guard"}
  BY <1>1, TaskOf
<1>3. Writes(w, a) /\ a = Subject(t) /\ HowFar(t, w) /\ DOMAIN tx[p].keys = {} /\ t \in Managing
  BY <1>2, InManage
<1>4. kv' = kv
  BY <1>1, <1>3 DEF Over, AuthInv, TypeOK
<1>5. TypeOK
  BY DEF AuthInv
<1>6. Revoked(t) \subseteq ApiKeys
  BY <1>2, TaskOf DEF Revoked, Taking
<1> HIDE DEF w, a
<1>7. /\ DOMAIN rows' = Docs /\ rows' = [d \in Docs |-> rows'[d]]
      /\ \A u \in Users : rows'[u] \in {Unused, User, Gone}
      /\ \A d \in Docs \ DOMAIN w : rows'[d] = rows[d]
      /\ \A u \in Users : u # a => rows'[u] = rows[u]
  BY <1>1, <1>3, <1>5, CommitDocs
<1>8. \A k \in ApiKeys :
        /\ rows'[k] \in {Unused} \cup KeyDocs /\ rows'[k] = Sees(w, k)
        /\ Exists(rows'[k]) /\ rows'[k].user # a => rows'[k] = rows[k]
        /\ Exists(rows[k]) => Exists(rows'[k]) /\ rows'[k].user = rows[k].user
                              /\ (rows[k].revoked => rows'[k].revoked)
  BY <1>1, <1>3, <1>5, CommitDocs
<1>9. TypeOK'
  <2>1. Idle \in Tasks
    BY DEF Tasks
  <2>2. task' \in [Procs -> Tasks] /\ DOMAIN tx' = Procs /\ tx' = [q \in Procs |-> tx'[q]]
    BY <1>1, <1>5, <2>1 DEF TypeOK
  <2>3. /\ \A k \in ApiKeys : rows'[k] \in {Unused} \cup KeyDocs
        /\ ended' \subseteq ApiKeys /\ streak' \in [Prefixes -> Nat]
    BY <1>1, <1>5, <1>6, <1>8 DEF TypeOK
  <2>4. /\ DOMAIN kv' = Keys /\ kv' = [k \in Keys |-> kv'[k]]
        /\ \A x \in Prefixes : kv'[CountKey(x)] \in Counts
    BY <1>4, <1>5 DEF TypeOK
  <2> QED BY <1>7, <2>2, <2>3, <2>4 DEF TypeOK, Counts
<1>10. \A q \in Procs \ {p} : task'[q] = task[q] /\ tx'[q] = tx[q]
  BY <1>1, <1>5 DEF TypeOK
<1>11. task'[p] = Idle /\ tx'[p] = None
  BY <1>1, <1>5 DEF TypeOK
<1>12. Tasked'
  <2> SUFFICES ASSUME NEW q \in Procs PROVE Good(task[q], tx[q])'
    BY DEF Tasked
  <2>1. CASE q = p
    BY <1>11, <2>1 DEF Good, Outside, Turned, Idle
  <2>2. CASE q # p
    BY <1>1, <1>2, <1>4, <1>10, <2>2, GoodOver DEF w
  <2> QED BY <2>1, <2>2
<1>13. Apart'
  <2> SUFFICES ASSUME NEW q \in Procs, NEW r \in Procs, q # r PROVE Beside(tx[q], tx[r])'
    BY DEF Apart
  <2>1. CASE q = p \/ r = p
    BY <1>11, <2>1 DEF Beside
  <2>2. CASE q # p /\ r # p
    BY <1>1, <1>10, <2>2 DEF AuthInv, Apart, Beside
  <2> QED BY <2>1, <2>2
<1>14. CountsCover'
  BY <1>1, <1>4 DEF AuthInv, CountsCover, Covered
<1>15. t.op = "revokeApiKey" => t.id \in ApiKeys /\ Exists(rows[t.id]) /\ DOMAIN w \subseteq {t.id} /\ Sees(w, t.id).revoked
  BY <1>1, <1>3, TaskOf DEF HowFar, RevokesKey, Taking
<1>16. t.op = "deleteUser" =>
         /\ a = t.id /\ \A k \in DOMAIN w \cap ApiKeys : Exists(rows[k])
         /\ a \notin met => \A k \in ApiKeys : Exists(rows[k]) /\ rows[k].user = a => Sees(w, k).revoked
  BY <1>1, <1>3 DEF HowFar, DeletesUser, Subject, Only
<1>17. EndedStay'
  <2> SUFFICES ASSUME NEW k \in ended \cup Revoked(t)
               PROVE  Exists(rows'[k]) /\ (rows'[k].user \notin met => rows'[k].revoked)
    BY <1>1 DEF EndedStay, Exists
  <2>1. CASE k \in ended
    BY <1>5, <1>8, <2>1 DEF AuthInv, EndedStay, TypeOK
  <2>2. CASE k \in Revoked(t) /\ t.op = "revokeApiKey"
    BY <1>8, <1>15, <2>2 DEF Revoked
  <2>3. CASE k \in Revoked(t) /\ t.op = "deleteUser"
    <3>1. k \in ApiKeys /\ Exists(rows[k]) /\ rows[k].user = a
      BY <1>16, <2>3 DEF Revoked
    <3> QED BY <1>8, <1>16, <2>3, <3>1
  <2>4. CASE k \in Revoked(t) /\ t.op \notin {"revokeApiKey", "deleteUser"}
    BY <2>4 DEF Revoked
  <2> QED BY <2>1, <2>2, <2>3, <2>4
<1>18. UsersTake'
  <2> SUFFICES ASSUME NEW k \in ApiKeys, Exists(rows'[k]), rows'[k].user \notin met, ~Exists(rows'[rows'[k].user])
               PROVE  rows'[k].revoked
    BY <1>1 DEF UsersTake, Exists
  <2> DEFINE u == rows'[k].user
  <2>1. u \in Users /\ u \notin ApiKeys /\ u \in Docs
    BY <1>5, <1>8 DEF Exists, KeyDocs, AuthAssumption, AuthConstants
  <2>2. \A j \in ApiKeys : Exists(rows[j]) /\ rows[j].user = u /\ ~Exists(rows[u]) => rows[j].revoked
    BY DEF AuthInv, UsersTake
  <2>3. CASE u # a
    BY <1>7, <1>8, <2>1, <2>2, <2>3
  <2>4. CASE u = a /\ Exists(rows[k]) /\ rows'[u] = rows[u]
    BY <1>8, <2>2, <2>4
  <2>5. CASE u = a /\ t.op = "createUser"
    <3>1. CreatesUser(t, w)
      BY <1>3, <2>5 DEF HowFar
    <3>2. rows'[u] = rows[u]
      <4>1. u \in DOMAIN w => rows'[u] = User
        BY <1>1, <3>1 DEF Over, CreatesUser
      <4>2. u \notin DOMAIN w
        BY <4>1 DEF AuthAssumption, AuthConstants
      <4> QED BY <1>7, <2>1, <4>2
    <3>3. k \notin DOMAIN w /\ k \in Docs
      BY <3>1 DEF CreatesUser, AuthAssumption, AuthConstants
    <3>4. rows'[k] = rows[k]
      BY <1>7, <3>3
    <3> QED BY <2>4, <2>5, <3>2, <3>4
  <2>6. CASE u = a /\ t.op = "createApiKey"
    <3>1. CreatesKey(t, w) /\ a = t.user
      BY <1>3, <2>6 DEF HowFar, Subject
    <3>2. u \notin DOMAIN w
      BY <2>1, <3>1 DEF CreatesKey
    <3>3. Exists(rows[u])
      BY <1>1, <2>6, <3>1 DEF CreatesKey
    <3> QED BY <1>7, <2>1, <3>2, <3>3
  <2>7. CASE u = a /\ t.op = "revokeApiKey"
    <3>1. u \notin DOMAIN w
      BY <1>15, <2>1, <2>7
    <3>2. rows'[u] = rows[u]
      BY <1>7, <2>1, <3>1
    <3>3. k = t.id \/ (k \notin DOMAIN w /\ k \in Docs)
      BY <1>15, <2>7 DEF AuthAssumption, AuthConstants
    <3>4. Exists(rows[k])
      BY <1>7, <1>15, <2>7, <3>3
    <3> QED BY <2>4, <2>7, <3>2, <3>4
  <2>8. CASE u = a /\ t.op = "deleteUser"
    <3>1. Exists(rows[k])
      <4>1. k \in DOMAIN w \/ (k \notin DOMAIN w /\ k \in Docs)
        BY DEF AuthAssumption, AuthConstants
      <4> QED BY <1>7, <1>16, <2>8, <4>1
    <3> QED BY <1>8, <1>16, <2>8, <3>1
  <2>9. t.op \in {"createUser", "createApiKey", "revokeApiKey", "deleteUser"}
    BY <1>3 DEF Managing, Creating, Leaving, Deleting, Making, Taking
  <2> QED BY <2>3, <2>5, <2>6, <2>7, <2>8, <2>9
<1> QED BY <1>9, <1>12, <1>13, <1>14, <1>17, <1>18 DEF AuthInv

-----------------------------------------------------------------------------
(* What a task says stays true if streaks do not grow under it.            *)
LEMMA GoodCounts ==
  ASSUME AuthAssumption, AuthInv, NEW q \in Procs, task'[q] = task[q], tx'[q] = tx[q],
         UNCHANGED <<rows, met, ended>>, streak \in [Prefixes -> Nat], streak' \in [Prefixes -> Nat],
         task[q].op = "guard" /\ ~Outside(task[q]) /\ Prefix[task[q].key] \notin met =>
            streak'[Prefix[task[q].key]] <= streak[Prefix[task[q].key]]
  PROVE  Good(task[q], tx[q])'
<1> DEFINE t == task[q]
           v == tx[q]
<1>1. Good(t, v) /\ t \in Tasks
  BY TaskOf
<1>2. Turned(t)'
  BY <1>1 DEF Good, Turned
<1>3. CASE Outside(t)
  BY <1>1, <1>2, <1>3 DEF Good, Outside
<1>4. CASE ~Outside(t)
  <2>1. Shaped(v) /\ v.about = Subject(t) /\ Counted(t, v.keys) /\ Writes(v.docs, v.about) /\ HowFar(t, v.docs)
    BY <1>1, <1>4 DEF Good
  <2>2. (Shaped(v) /\ v.about = Subject(t) /\ ~Outside(t))'
    BY <1>4, <2>1 DEF Shaped, Subject, Outside
  <2>3. Counted(t, v.keys)'
    <3>1. CASE t.op # "guard"
      BY <2>1, <3>1 DEF Counted
    <3>2. CASE t.op = "guard"
      <4>1. Prefix[t.key] \in Prefixes /\ t \in Judging \cup Counting
        BY <1>4, <3>2, InGuard
      <4>2. t.at \in {"set", "refused"} => t.count \in Nat
        BY <4>1 DEF Judging, Counting
      <4>3. t.at \in {"set", "refused"} /\ Prefix[t.key] \notin met
              => streak'[Prefix[t.key]] < t.count /\ t.count < MaxAttempts
        BY <1>4, <2>1, <3>2, <4>1, <4>2 DEF Counted
      <4> QED BY <2>1, <3>2, <4>3 DEF Counted
    <3> QED BY <3>1, <3>2
  <2>4. Writes(v.docs, v.about)'
    BY <2>1 DEF Writes
  <2>5. HowFar(t, v.docs)'
    BY <2>1 DEF HowFar, CreatesUser, CreatesKey, RevokesKey, DeletesUser, Only, Sees, Over, Exists
  <2> QED BY <1>2, <2>2, <2>3, <2>4, <2>5 DEF Good
<1> QED BY <1>3, <1>4

(* The answer of a guard. *)
LEMMA GuardAnswerStep ==
  ASSUME AuthAssumption, AuthInv, NEW p \in Procs, GuardAnswer(p) PROVE AuthInv'
<1> DEFINE t == task[p]
           w == tx[p].keys
<1>0. PICK x : x = Prefix[task[p].key]
  OBVIOUS
<1>1. /\ t.op = "guard" /\ t.at \in {"refused", "blocked", "passed", "cleared"} /\ UNCHANGED <<met, ended>>
      /\ rows' = Over(tx[p].docs, rows) /\ kv' = Over(w, kv)
      /\ task' = [task EXCEPT ![p] = Idle] /\ tx' = [tx EXCEPT ![p] = None]
      /\ streak' = [streak EXCEPT ![x] = IF t.at = "refused" THEN @ + 1 ELSE 0]
  BY <1>0 DEF GuardAnswer, Commit, Rest
<1>2. TypeOK
  BY DEF AuthInv
<1>3. ~Outside(t)
  BY <1>1 DEF Outside
<1>4. /\ x \in Prefixes /\ tx[p] # None /\ tx[p].about = x /\ DOMAIN tx[p].docs = {}
      /\ Counted(t, w) /\ t \in Judging \cup Counting
  BY <1>0, <1>1, <1>3, InGuard
<1>5. rows' = rows
  BY <1>1, <1>2, <1>4 DEF Over, TypeOK
<1>6. \A y \in Prefixes : BlockKey(y) \in Keys /\ CountKey(y) \in Keys
  BY DEF AuthAssumption, AuthConstants
<1>7. DOMAIN w \subseteq {BlockKey(x), CountKey(x)} /\ DOMAIN kv = Keys
  BY <1>0, <1>1, <1>2, <1>4 DEF Counted, TypeOK
<1> HIDE DEF w
<1>8. /\ DOMAIN kv' = Keys /\ kv' = [k \in Keys |-> kv'[k]]
      /\ \A k \in Keys : kv'[k] = IF k \in DOMAIN w THEN w[k] ELSE kv[k]
  BY <1>1, <1>4, <1>6, <1>7 DEF Over
<1>9. \A y \in Prefixes : y # x => kv'[CountKey(y)] = kv[CountKey(y)] /\ streak'[y] = streak[y]
  <2> SUFFICES ASSUME NEW y \in Prefixes, y # x
               PROVE  kv'[CountKey(y)] = kv[CountKey(y)] /\ streak'[y] = streak[y]
    OBVIOUS
  <2>1. CountKey(y) # CountKey(x) /\ CountKey(y) # BlockKey(x)
    BY DEF CountKey, BlockKey
  <2>2. CountKey(y) \notin DOMAIN w /\ CountKey(y) \in Keys
    BY <1>6, <1>7, <2>1
  <2> QED BY <1>1, <1>2, <1>8, <2>2 DEF TypeOK
<1>10. /\ streak \in [Prefixes -> Nat] /\ streak' \in [Prefixes -> Nat]
       /\ streak'[x] = IF t.at = "refused" THEN streak[x] + 1 ELSE 0
  BY <1>1, <1>2, <1>4 DEF TypeOK
<1>11. kv'[CountKey(x)] \in Counts /\ (x \notin met => Covered(x)')
  <2>1. CASE t.at = "refused"
    <3>1. t.count \in Nat \ {0}
      BY <1>4, <2>1 DEF Judging, Counting
    <3>2. /\ kv'[CountKey(x)] = [value |-> t.count, alive |-> TRUE]
          /\ x \notin met => streak[x] < t.count /\ t.count < MaxAttempts
      BY <1>0, <1>1, <1>4, <1>6, <1>8, <2>1 DEF Counted
    <3>3. kv'[CountKey(x)] \in Counts /\ kv'[CountKey(x)] # None
      <4>1. [value |-> t.count, alive |-> TRUE] \in [value : Nat \ {0}, alive : BOOLEAN]
        BY <3>1
      <4> QED BY <3>2, <4>1 DEF Counts, AuthAssumption, AuthConstants
    <3>4. ASSUME x \notin met PROVE Covered(x)'
      <4>1. streak'[x] <= t.count /\ t.count < MaxAttempts
        BY <1>4, <1>10, <2>1, <3>1, <3>2, <3>4
      <4> QED BY <3>2, <3>3, <4>1 DEF Covered
    <3> QED BY <3>3, <3>4
  <2>2. CASE t.at # "refused"
    <3>1. CountKey(x) \in DOMAIN w => w[CountKey(x)] = None
      BY <1>0, <1>1, <1>4, <2>2 DEF Counted
    <3>2. kv'[CountKey(x)] = None \/ kv'[CountKey(x)] = kv[CountKey(x)]
      BY <1>4, <1>6, <1>8, <3>1
    <3>3. kv[CountKey(x)] \in Counts /\ (x \notin met => Covered(x))
      BY <1>2, <1>4 DEF TypeOK, AuthInv, CountsCover
    <3>4. kv'[CountKey(x)] \in Counts
      BY <3>2, <3>3 DEF Counts
    <3>5. ASSUME x \notin met PROVE Covered(x)'
      <4>1. streak'[x] = 0
        BY <1>10, <2>2
      <4> DEFINE e == kv[CountKey(x)]
      <4>2. e # None /\ e.alive => e.value \in Nat /\ e.value < MaxAttempts
        BY <3>3, <3>5 DEF Covered, Counts
      <4> QED BY <3>2, <4>1, <4>2 DEF Covered
    <3> QED BY <3>4, <3>5
  <2> QED BY <2>1, <2>2
<1>12. CountsCover'
  <2> SUFFICES ASSUME NEW y \in Prefixes \ met PROVE Covered(y)'
    BY <1>1 DEF CountsCover
  <2>1. CASE y = x
    BY <1>11, <2>1 DEF Covered
  <2>2. CASE y # x
    <3>1. kv'[CountKey(y)] = kv[CountKey(y)] /\ streak'[y] = streak[y] /\ Covered(y)
      BY <1>9, <2>2 DEF AuthInv, CountsCover
    <3> QED BY <3>1 DEF Covered
  <2> QED BY <2>1, <2>2
<1>13. TypeOK'
  <2>1. Idle \in Tasks
    BY DEF Tasks
  <2>2. task' \in [Procs -> Tasks] /\ DOMAIN tx' = Procs /\ tx' = [q \in Procs |-> tx'[q]]
    BY <1>1, <1>2, <2>1 DEF TypeOK
  <2>3. \A y \in Prefixes : kv'[CountKey(y)] \in Counts
    BY <1>2, <1>9, <1>11 DEF TypeOK
  <2>4. /\ DOMAIN rows' = Docs /\ rows' = [d \in Docs |-> rows'[d]]
        /\ \A u \in Users : rows'[u] \in {Unused, User, Gone}
        /\ \A k \in ApiKeys : rows'[k] \in {Unused} \cup KeyDocs
        /\ ended' \subseteq ApiKeys
    BY <1>1, <1>2, <1>5 DEF TypeOK
  <2> QED BY <1>8, <1>10, <2>2, <2>3, <2>4 DEF TypeOK, Counts
<1>14. \A q \in Procs \ {p} : task'[q] = task[q] /\ tx'[q] = tx[q]
  BY <1>1, <1>2 DEF TypeOK
<1>15. task'[p] = Idle /\ tx'[p] = None
  BY <1>1, <1>2 DEF TypeOK
<1>16. Tasked'
  <2> SUFFICES ASSUME NEW q \in Procs PROVE Good(task[q], tx[q])'
    BY DEF Tasked
  <2>1. CASE q = p
    BY <1>15, <2>1 DEF Good, Outside, Turned, Idle
  <2>2. CASE q # p
    <3> DEFINE y == Prefix[task[q].key]
    <3>1. ASSUME task[q].op = "guard", ~Outside(task[q]), y \notin met PROVE streak'[y] <= streak[y]
      <4>1. y \in Prefixes /\ tx[q] # None /\ tx[q].about = y
        BY <3>1, InGuard
      <4>2. y # x
        BY <1>4, <2>2, <3>1, <4>1 DEF AuthInv, Apart, Beside
      <4> QED BY <1>9, <1>10, <4>1, <4>2
    <3> QED BY <1>1, <1>5, <1>10, <1>14, <2>2, <3>1, GoodCounts
  <2> QED BY <2>1, <2>2
<1>17. Apart'
  <2> SUFFICES ASSUME NEW q \in Procs, NEW r \in Procs, q # r PROVE Beside(tx[q], tx[r])'
    BY DEF Apart
  <2>1. CASE q = p \/ r = p
    BY <1>15, <2>1 DEF Beside
  <2>2. CASE q # p /\ r # p
    BY <1>1, <1>14, <2>2 DEF AuthInv, Apart, Beside
  <2> QED BY <2>1, <2>2
<1>18. EndedStay' /\ UsersTake'
  BY <1>1, <1>5 DEF AuthInv, EndedStay, UsersTake, Exists
<1> QED BY <1>12, <1>13, <1>16, <1>17, <1>18 DEF AuthInv

(* Time: a window or a block ends, a key expires; or nothing happens. *)
LEMMA TimeStep ==
  ASSUME AuthAssumption, AuthInv, UNCHANGED <<task, tx, rows, met, ended>>,
         streak' \in [Prefixes -> Nat], \A x \in Prefixes : streak'[x] <= streak[x],
         DOMAIN kv' = Keys, kv' = [k \in Keys |-> kv'[k]],
         \A x \in Prefixes : kv'[CountKey(x)] \in Counts, CountsCover'
  PROVE  AuthInv'
<1>1. TypeOK'
  <2>1. TypeOK
    BY DEF AuthInv
  <2> QED BY <2>1 DEF TypeOK, Counts
<1>2. Tasked'
  <2> SUFFICES ASSUME NEW q \in Procs PROVE Good(task[q], tx[q])'
    BY DEF Tasked
  <2>1. task'[q] = task[q] /\ tx'[q] = tx[q] /\ streak \in [Prefixes -> Nat]
    BY DEF AuthInv, TypeOK
  <2>2. task[q].op = "guard" /\ ~Outside(task[q]) => Prefix[task[q].key] \in Prefixes
    BY InGuard
  <2> QED BY <2>1, <2>2, GoodCounts
<1>3. Apart' /\ EndedStay' /\ UsersTake'
  BY DEF AuthInv, Apart, Beside, EndedStay, UsersTake, Exists
<1> QED BY <1>1, <1>2, <1>3 DEF AuthInv

LEMMA WindowStep ==
  ASSUME AuthAssumption, AuthInv, NEW x \in Prefixes, WindowEnds(x) PROVE AuthInv'
<1> DEFINE e == kv[CountKey(x)]
           over == [e EXCEPT !.alive = FALSE]
<1>1. /\ e # None /\ kv' = [kv EXCEPT ![CountKey(x)].alive = FALSE]
      /\ streak' = [streak EXCEPT ![x] = 0] /\ UNCHANGED <<task, tx, rows, met, ended>>
  BY DEF WindowEnds, Expire
<1>2. TypeOK /\ streak \in [Prefixes -> Nat]
  BY DEF AuthInv, TypeOK
<1>3. kv' = [kv EXCEPT ![CountKey(x)] = over]
  BY <1>1
<1>4. over \in Counts /\ ~over.alive
  BY <1>1, <1>2 DEF TypeOK, Counts
<1> HIDE DEF over
<1>5. DOMAIN kv' = Keys /\ kv' = [k \in Keys |-> kv'[k]]
  BY <1>2, <1>3 DEF TypeOK
<1>6. kv'[CountKey(x)] = over
  BY <1>2, <1>3 DEF TypeOK, AuthAssumption, AuthConstants
<1>7. \A y \in Prefixes : y # x => kv'[CountKey(y)] = kv[CountKey(y)] /\ streak'[y] = streak[y]
  <2> SUFFICES ASSUME NEW y \in Prefixes, y # x
               PROVE  kv'[CountKey(y)] = kv[CountKey(y)] /\ streak'[y] = streak[y]
    OBVIOUS
  <2>1. CountKey(y) # CountKey(x) /\ CountKey(y) \in Keys
    BY DEF CountKey, AuthAssumption, AuthConstants
  <2> QED BY <1>1, <1>2, <1>3, <2>1 DEF TypeOK
<1>8. streak' \in [Prefixes -> Nat] /\ streak'[x] = 0
  BY <1>1, <1>2
<1>9. \A y \in Prefixes : streak'[y] <= streak[y]
  BY <1>2, <1>7, <1>8
<1>10. \A y \in Prefixes : kv'[CountKey(y)] \in Counts
  BY <1>2, <1>4, <1>6, <1>7 DEF TypeOK
<1>11. CountsCover'
  <2> SUFFICES ASSUME NEW y \in Prefixes \ met PROVE Covered(y)'
    BY <1>1 DEF CountsCover
  <2>1. CASE y = x
    BY <1>4, <1>6, <1>8, <2>1 DEF Covered
  <2>2. CASE y # x
    <3>1. Covered(y)
      BY DEF AuthInv, CountsCover
    <3> QED BY <1>7, <2>2, <3>1 DEF Covered
  <2> QED BY <2>1, <2>2
<1> QED BY <1>1, <1>5, <1>8, <1>9, <1>10, <1>11, TimeStep

LEMMA BlockStep ==
  ASSUME AuthAssumption, AuthInv, NEW x \in Prefixes, BlockEnds(x) PROVE AuthInv'
<1> DEFINE over == [kv[BlockKey(x)] EXCEPT !.alive = FALSE]
<1>1. kv' = [kv EXCEPT ![BlockKey(x)] = over] /\ UNCHANGED <<task, tx, rows, met, ended, streak>>
  BY DEF BlockEnds, Expire, authVars
<1>2. TypeOK /\ streak \in [Prefixes -> Nat]
  BY DEF AuthInv, TypeOK
<1> HIDE DEF over
<1>3. DOMAIN kv' = Keys /\ kv' = [k \in Keys |-> kv'[k]]
  BY <1>1, <1>2 DEF TypeOK
<1>4. \A y \in Prefixes : kv'[CountKey(y)] = kv[CountKey(y)]
  <2> SUFFICES ASSUME NEW y \in Prefixes PROVE kv'[CountKey(y)] = kv[CountKey(y)]
    OBVIOUS
  <2>1. CountKey(y) # BlockKey(x) /\ CountKey(y) \in Keys
    BY DEF CountKey, BlockKey, AuthAssumption, AuthConstants
  <2> QED BY <1>1, <1>2, <2>1 DEF TypeOK
<1>5. \A y \in Prefixes : kv'[CountKey(y)] \in Counts
  BY <1>2, <1>4 DEF TypeOK
<1>6. CountsCover'
  BY <1>1, <1>4 DEF AuthInv, CountsCover, Covered
<1>7. streak' \in [Prefixes -> Nat] /\ \A y \in Prefixes : streak'[y] <= streak[y]
  BY <1>1, <1>2
<1> QED BY <1>1, <1>3, <1>5, <1>6, <1>7, TimeStep

LEMMA StutterStep ==
  ASSUME AuthAssumption, AuthInv, UNCHANGED <<task, tx, rows, kv, met, streak, ended>> PROVE AuthInv'
<1>1. CountsCover'
  BY DEF AuthInv, CountsCover, Covered
<1>2. streak' \in [Prefixes -> Nat] /\ \A x \in Prefixes : streak'[x] <= streak[x]
  BY DEF AuthInv, TypeOK
<1>3. /\ DOMAIN kv' = Keys /\ kv' = [k \in Keys |-> kv'[k]]
      /\ \A x \in Prefixes : kv'[CountKey(x)] \in Counts
  BY DEF AuthInv, TypeOK
<1> QED BY <1>1, <1>2, <1>3, TimeStep

-----------------------------------------------------------------------------
LEMMA InitHolds == ASSUME AuthAssumption, Init PROVE AuthInv
<1>1. /\ rows = [d \in Docs |-> Unused] /\ kv = [k \in Keys |-> None] /\ tx = [p \in Procs |-> None] /\ met = {}
      /\ task = [p \in Procs |-> Idle] /\ ended = {} /\ streak = [x \in Prefixes |-> 0]
  BY DEF Init, StoreInit
<1>2. TypeOK
  <2>1. Idle \in Tasks
    BY DEF Tasks
  <2>2. task \in [Procs -> Tasks] /\ streak \in [Prefixes -> Nat] /\ ended \subseteq ApiKeys
    BY <1>1, <2>1
  <2>3. /\ \A u \in Users : rows[u] \in {Unused, User, Gone}
        /\ \A k \in ApiKeys : rows[k] \in {Unused} \cup KeyDocs
    BY <1>1 DEF AuthAssumption, AuthConstants
  <2>4. \A x \in Prefixes : kv[CountKey(x)] \in Counts
    BY <1>1 DEF AuthAssumption, AuthConstants, Counts
  <2>5. DOMAIN tx = Procs /\ tx = [p \in Procs |-> tx[p]]
    BY <1>1
  <2>6. DOMAIN rows = Docs /\ rows = [d \in Docs |-> rows[d]]
    BY <1>1
  <2>7. DOMAIN kv = Keys /\ kv = [k \in Keys |-> kv[k]]
    BY <1>1
  <2> QED BY <2>2, <2>3, <2>4, <2>5, <2>6, <2>7 DEF TypeOK
<1>3. Tasked
  BY <1>1 DEF Tasked, Good, Outside, Turned, Idle
<1>4. Apart
  BY <1>1 DEF Apart, Beside
<1>5. CountsCover
  BY <1>1 DEF CountsCover, Covered, AuthAssumption, AuthConstants
<1>6. EndedStay
  BY <1>1 DEF EndedStay
<1>7. UsersTake
  BY <1>1 DEF UsersTake, Exists, AuthAssumption, AuthConstants
<1> QED BY <1>2, <1>3, <1>4, <1>5, <1>6, <1>7 DEF AuthInv

LEMMA StepHolds == ASSUME AuthAssumption, AuthInv, [Next]_vars PROVE AuthInv'
<1>1. CASE UNCHANGED vars
  BY <1>1, StutterStep DEF vars, authVars, storeVars
<1>2. ASSUME NEW p \in Procs, Guarded(p) PROVE AuthInv'
  BY <1>2, CheckStep, ValidateStep, GuardAnswerStep, FailBlockedStep, FailReadStep, FailSetStep, FailBlockStep, FailClearStep,
     ClearCounterStep DEF Guarded
<1>3. ASSUME NEW p \in Procs, Managed(p) PROVE AuthInv'
  BY <1>3, CreateUserStep, FindUserStep, CreateApiKeyStep, FindKeysStep, RevokeNextStep, DeleteUserStep,
     FindKeyStep, RevokeApiKeyStep, ManageCommitStep, ThrowStep DEF Managed
<1>4. ASSUME NEW p \in Procs, NEW k \in ApiKeys \cup {Bootstrap, Unknown}, NEW path \in Paths,
             Guard(p, "POST", path, k, None)
      PROVE  AuthInv'
  BY <1>4, GuardStep DEF Presented
<1>5. ASSUME NEW p \in Procs, Request(p) \/ Crash(p) PROVE AuthInv'
  BY <1>5, RequestStep, CrashStep
<1>6. ASSUME NEW x \in Prefixes, WindowEnds(x) \/ BlockEnds(x) PROVE AuthInv'
  BY <1>6, WindowStep, BlockStep
<1>7. ASSUME NEW k \in ApiKeys, KeyExpires(k) PROVE AuthInv'
  BY <1>7, StutterStep DEF KeyExpires, storeVars
<1> QED BY <1>1, <1>2, <1>3, <1>4, <1>5, <1>6, <1>7 DEF Next

LEMMA AuthAlways == ASSUME AuthAssumption PROVE Spec => []AuthInv
<1>1. Init => AuthInv
  BY InitHolds
<1>2. AuthInv /\ [Next]_vars => AuthInv'
  BY StepHolds
<1> QED BY <1>1, <1>2, PTL DEF Spec

(***************************************************************************)
(* Whatever users, keys and requests there are, and whoever crashes: the   *)
(* keys of a deleted user are revoked, and a request that begins after the *)
(* revocation of its key was answered does not pass, unless two            *)
(* transactions about that user have met.                                  *)
(***************************************************************************)
THEOREM KeysStayOut == ASSUME AuthAssumption PROVE Spec => []DeadKeysStayOut
<1>1. AuthInv => DeadKeysStayOut
  <2> SUFFICES ASSUME AuthInv PROVE DeadKeysStayOut
    OBVIOUS
  <2>1. \A k \in ApiKeys : Exists(rows[k]) /\ rows[k].user \notin met /\ ~Exists(rows[rows[k].user]) => rows[k].revoked
    BY DEF AuthInv, UsersTake
  <2>2. \A p \in Procs : Turned(task[p])
    BY DEF AuthInv, Tasked, Good
  <2> QED BY <2>1, <2>2 DEF DeadKeysStayOut, Turned
<1> QED BY <1>1, AuthAlways, PTL

(***************************************************************************)
(* For any limit: failures in a row with one prefix, within the window of  *)
(* the last, are answered "invalid" less than maxAttempts times, unless    *)
(* two of them have met.                                                   *)
(***************************************************************************)
THEOREM FailuresEndInBlock == ASSUME AuthAssumption PROVE Spec => []FailuresBlock
<1>1. AuthInv => FailuresBlock
  <2> SUFFICES ASSUME AuthInv, NEW x \in Prefixes \ met PROVE streak[x] < MaxAttempts
    BY DEF FailuresBlock
  <2>1. Covered(x) /\ streak[x] \in Nat /\ kv[CountKey(x)] \in Counts
    BY DEF AuthInv, CountsCover, TypeOK
  <2> QED BY <2>1 DEF Covered, Counts, AuthAssumption, AuthConstants
<1> QED BY <1>1, AuthAlways, PTL
-----------------------------------------------------------------------------
(* What a process can be doing, by what it was asked. *)
TaskIn(ops, places, patches) ==
  [op : ops, at : places, id : Documents, patch : patches,
   seen : {None} \cup Collections!OrderDocs, version : {None} \cup Collections!Versions, meta : {None} \cup Metadata]
Finding == TaskIn({"get", "list"}, {"find", "resolve", "commit"}, {Collections!Nothing})
CreatingOrder == TaskIn({"create"}, {"insert", "meta", "metaInsert", "commit"}, {Collections!Nothing})
Updating == TaskIn({"update"}, {"find", "resolve", "read", "write", "meta", "metaInsert", "metaUpdate", "commit"}, Collections!Patches)
DeletingOrder == TaskIn({"delete"}, {"find", "delete", "metaDelete", "commit"}, {Collections!Nothing})
RestTasks == {Collections!Idle} \cup Finding \cup CreatingOrder \cup Updating \cup DeletingOrder

(* What stands for no transaction is none. *)
RestAssumption == Collections!RestConstants /\ ~Shaped(None)

(* The type invariant. *)
RestTypeOK ==
  /\ task \in [Procs -> RestTasks]
  /\ DOMAIN tx = Procs /\ tx = [p \in Procs |-> tx[p]]
  /\ DOMAIN rows = Docs /\ rows = [d \in Docs |-> rows[d]]
  /\ \A d \in Documents : rows[d] \in {Unused, Gone} \cup Collections!OrderDocs
  /\ \A m \in Metadata : rows[m] \in {Unused, Gone} \cup Collections!VersionDocs
  /\ DOMAIN answered = Documents /\ answered = [d \in Documents |-> answered[d]]
-----------------------------------------------------------------------------
(* What a transaction with writes w sees, and which metadata of document d *)
(* it would leave; what is stored of it; and that it would be one version. *)
RestSees(w, x) == Collections!Over(w, rows)[x]
Left(w, d) == {m \in Metadata : Collections!Exists(RestSees(w, m)) /\ RestSees(w, m).of = d}
Stored(d) == {m \in Metadata : Collections!Exists(rows[m]) /\ rows[m].of = d}
Tagged(w, d, v) == \E m \in Metadata : Left(w, d) = {m} /\ RestSees(w, m).version = v

Alone(t) == t.id \notin met
Wrote(t, w) == t.id \in DOMAIN w

(***************************************************************************)
(* A transaction about document d writes to it and its metadata, and to    *)
(* the metadata alone only when the document is gone.                      *)
(***************************************************************************)
RestWrites(t, w) ==
  /\ DOMAIN w \subseteq {t.id} \cup Metadata
  /\ \A m \in DOMAIN w \cap Metadata :
       /\ w[m] = Gone \/ (w[m] \in Collections!VersionDocs /\ w[m].of = t.id)
       /\ rows[m] = Unused \/ (rows[m] \in Collections!VersionDocs /\ rows[m].of = t.id)
  /\ Wrote(t, w) => rows[t.id] # Gone
  /\ ~Wrote(t, w) /\ DOMAIN w # {} => rows[t.id] = Gone

(* How far a transaction of each operation has come. *)
Reads(t) ==
  /\ t.at = "find" => t.seen = None
  /\ t.at \in {"resolve", "read", "write"} => t.seen # None
  /\ t.at \notin {"find", "commit"} => rows[t.id] # Unused
  /\ Alone(t) /\ t.at \in {"resolve", "read", "write"} => t.seen = rows[t.id]
  /\ Alone(t) /\ t.seen # None /\ t.at # "resolve" => t.version = Collections!Told(t.seen)

Updates(p, t, w) ==
  /\ t.at \in {"find", "resolve", "read", "write"} => DOMAIN w = {}
  /\ t.at \in {"meta", "metaInsert", "metaUpdate"} => DOMAIN w \subseteq {t.id} /\ (~Wrote(t, w) => rows[t.id] = Gone)
  /\ t.at = "metaInsert" /\ Wrote(t, w) => Stored(t.id) = {}
  /\ t.at = "metaUpdate" =>
       /\ t.meta \in Metadata
       /\ t.meta \in Stored(t.id) \/ (~Wrote(t, w) /\ rows[t.meta] = Gone)
  /\ Wrote(t, w) =>
       /\ w[t.id] \in Collections!OrderDocs /\ w[t.id].by = p /\ Collections!Exists(rows[t.id])
       /\ t.at = "commit" => Tagged(w, t.id, Version[p])
  /\ Alone(t) =>
       /\ t.at \in {"meta", "metaInsert", "metaUpdate"} => Wrote(t, w)
       /\ t.at = "commit" /\ ~Wrote(t, w) => DOMAIN w = {} /\ ~Collections!Exists(rows[t.id])
       /\ Wrote(t, w) => w[t.id] = Collections!Merge(rows[t.id], Collections!Written(p, t.patch))

Creates(p, t, w) ==
  /\ t.at = "insert" => DOMAIN w = {}
  /\ t.at # "insert" => Wrote(t, w) /\ w[t.id] \in Collections!OrderDocs /\ w[t.id].by = p /\ rows[t.id] = Unused
  /\ t.at \in {"meta", "metaInsert"} => DOMAIN w = {t.id}
  /\ t.at = "commit" => Tagged(w, t.id, Version[p])

Deletes(t, w) ==
  /\ t.at \in {"find", "delete"} => DOMAIN w = {}
  /\ t.at = "delete" => rows[t.id] # Unused
  /\ t.at = "metaDelete" => DOMAIN w \subseteq {t.id} /\ (~Wrote(t, w) => rows[t.id] = Gone)
  /\ \A x \in DOMAIN w : w[x] = Gone
  /\ Wrote(t, w) => Collections!Exists(rows[t.id]) /\ (t.at = "commit" => Stored(t.id) \subseteq DOMAIN w)
  /\ Alone(t) =>
       /\ t.at = "delete" => Collections!Exists(rows[t.id])
       /\ t.at = "metaDelete" => Wrote(t, w)
       /\ t.at = "commit" /\ ~Wrote(t, w) => DOMAIN w = {} /\ ~Collections!Exists(rows[t.id])

RestHowFar(p, t, w) ==
  /\ t.op \in {"get", "list"} => DOMAIN w = {}
  /\ t.op \in {"get", "list", "update"} => Reads(t)
  /\ t.op \in {"create", "delete"} => t.seen = None
  /\ t.op = "update" => Updates(p, t, w)
  /\ t.op = "create" => Creates(p, t, w)
  /\ t.op = "delete" => Deletes(t, w)

RestGood(p, t, w) ==
  IF t.op = "idle" THEN w = None
  ELSE Shaped(w) /\ w.about = t.id /\ RestWrites(t, w.docs) /\ RestHowFar(p, t, w.docs)
-----------------------------------------------------------------------------
(* Two transactions about one document have met, and none write one row.   *)
RestBeside(w, v) ==
  w # None /\ v # None =>
    /\ w.about = v.about => w.about \in met
    /\ DOMAIN w.docs \cap DOMAIN v.docs = {}

RestTasked == \A p \in Procs : RestGood(p, task[p], tx[p])
RestApart == \A p, q \in Procs : p # q => RestBeside(tx[p], tx[q])

(* A document has its version beside it, if it is not one from before.     *)
Paired(d) ==
  Collections!Exists(rows[d]) =>
    \/ \E m \in Metadata : Stored(d) = {m} /\ rows[m].version = Collections!Told(rows[d])
    \/ Stored(d) = {} /\ d \in Legacy /\ Collections!Told(rows[d]) = Collections!LegacyVersion
Pairs == \A d \in Documents : Paired(d)

(* Metadata is of a document that was there, and still is unless requests met. *)
Owned(m) == Collections!Exists(rows[m]) => LET d == rows[m].of IN rows[d] # Unused /\ (d \notin met => Collections!Exists(rows[d]))
Owners == \A m \in Metadata : Owned(m)

Kept(d) == d \notin met => answered[d] = IF Collections!Exists(rows[d]) THEN Collections!Content(rows[d]) ELSE None

RestInv == RestTypeOK /\ RestTasked /\ RestApart /\ Pairs /\ Owners /\ Collections!UpdatesKept
-----------------------------------------------------------------------------
LEMMA RestOverIs ==
  ASSUME NEW new, NEW old
  PROVE  /\ DOMAIN Collections!Over(new, old) = DOMAIN new \cup DOMAIN old
         /\ \A x \in DOMAIN new : Collections!Over(new, old)[x] = new[x]
         /\ \A x \in DOMAIN old \ DOMAIN new : Collections!Over(new, old)[x] = old[x]
BY DEF Collections!Over

(* What a task says stays true if the rows stay and transactions meet. *)
LEMMA RestGoodStays ==
  ASSUME NEW p \in Procs, NEW t, NEW w, task'[p] = t, tx'[p] = w, UNCHANGED rows, met \subseteq met', RestGood(p, t, w)
  PROVE  RestGood(p, task[p], tx[p])'
<1>1. CASE t.op = "idle"
  BY <1>1 DEF RestGood
<1>2. CASE t.op # "idle"
  <2>1. Shaped(w) /\ w.about = t.id /\ RestWrites(t, w.docs) /\ RestHowFar(p, t, w.docs)
    BY <1>2 DEF RestGood
  <2>2. (Shaped(tx[p]) /\ tx[p].about = task[p].id)'
    BY <2>1 DEF Shaped
  <2>3. RestWrites(task[p], tx[p].docs)'
    BY <2>1 DEF RestWrites, Wrote
  <2>4. (task[p].op \in {"get", "list", "update"} => Reads(task[p]))'
    BY <2>1 DEF RestHowFar, Reads, Alone
  <2>5. (task[p].op = "update" => Updates(p, task[p], tx[p].docs))'
    <3> SUFFICES ASSUME t.op = "update" PROVE Updates(p, task[p], tx[p].docs)'
      OBVIOUS
    <3>1. Updates(p, t, w.docs)
      BY <2>1 DEF RestHowFar
    <3>2. Tagged(tx[p].docs, task[p].id, Version[p])' <=> Tagged(w.docs, t.id, Version[p])
      BY DEF Tagged, Left, RestSees, Collections!Exists
    <3>3. Stored(task[p].id)' = Stored(t.id)
      BY DEF Stored, Collections!Exists
    <3> QED BY <3>1, <3>2, <3>3 DEF Updates, Wrote, Alone, Collections!Exists
  <2>6. (task[p].op = "create" => Creates(p, task[p], tx[p].docs))'
    <3> SUFFICES ASSUME t.op = "create" PROVE Creates(p, task[p], tx[p].docs)'
      OBVIOUS
    <3>1. Creates(p, t, w.docs)
      BY <2>1 DEF RestHowFar
    <3>2. Tagged(tx[p].docs, task[p].id, Version[p])' <=> Tagged(w.docs, t.id, Version[p])
      BY DEF Tagged, Left, RestSees, Collections!Exists
    <3> QED BY <3>1, <3>2 DEF Creates, Wrote
  <2>7. (task[p].op = "delete" => Deletes(task[p], tx[p].docs))'
    <3> SUFFICES ASSUME t.op = "delete" PROVE Deletes(task[p], tx[p].docs)'
      OBVIOUS
    <3>1. Deletes(t, w.docs)
      BY <2>1 DEF RestHowFar
    <3>2. Stored(task[p].id)' = Stored(t.id)
      BY DEF Stored, Collections!Exists
    <3> QED BY <3>1, <3>2 DEF Deletes, Wrote, Alone, Collections!Exists
  <2>8. RestHowFar(p, task[p], tx[p].docs)'
    BY <2>1, <2>4, <2>5, <2>6, <2>7 DEF RestHowFar
  <2> QED BY <1>2, <2>2, <2>3, <2>8 DEF RestGood
<1> QED BY <1>1, <1>2

(* A step of a task that leaves the rows as they are. *)
LEMMA RestLocalStep ==
  ASSUME RestInv, NEW p \in Procs, NEW t \in RestTasks, NEW w,
         task' = [task EXCEPT ![p] = t], tx' = [tx EXCEPT ![p] = w],
         UNCHANGED <<rows, answered>>, met \subseteq met', RestGood(p, t, w),
         \A q \in Procs \ {p} : w # None /\ tx[q] # None =>
            /\ w.about = tx[q].about => w.about \in met'
            /\ DOMAIN w.docs \cap DOMAIN tx[q].docs = {}
  PROVE  RestInv'
<1>1. RestTypeOK /\ DOMAIN tx = Procs
  BY DEF RestInv, RestTypeOK
<1>2. task'[p] = t /\ tx'[p] = w
  BY <1>1 DEF RestTypeOK
<1>3. \A q \in Procs \ {p} : task'[q] = task[q] /\ tx'[q] = tx[q]
  BY <1>1 DEF RestTypeOK
<1>4. RestTypeOK'
  BY <1>1 DEF RestTypeOK
<1>5. RestTasked'
  <2> SUFFICES ASSUME NEW q \in Procs PROVE RestGood(q, task[q], tx[q])'
    BY DEF RestTasked
  <2>1. CASE q = p
    BY <1>2, <2>1, RestGoodStays
  <2>2. CASE q # p
    <3>1. RestGood(q, task[q], tx[q])
      BY DEF RestInv, RestTasked
    <3> QED BY <1>3, <2>2, <3>1, RestGoodStays
  <2> QED BY <2>1, <2>2
<1>6. RestApart'
  <2> SUFFICES ASSUME NEW q \in Procs, NEW r \in Procs, q # r PROVE RestBeside(tx[q], tx[r])'
    BY DEF RestApart
  <2>1. CASE q # p /\ r # p
    <3>1. RestBeside(tx[q], tx[r])
      BY DEF RestInv, RestApart
    <3> QED BY <1>3, <2>1, <3>1 DEF RestBeside
  <2>2. CASE q = p
    BY <1>2, <1>3, <2>2 DEF RestBeside
  <2>3. CASE r = p
    BY <1>2, <1>3, <2>3 DEF RestBeside
  <2> QED BY <2>1, <2>2, <2>3
<1>7. Pairs'
  BY DEF RestInv, Pairs, Paired, Stored, Collections!Exists
<1>8. Owners'
  BY DEF RestInv, Owners, Owned, Collections!Exists
<1>9. Collections!UpdatesKept'
  BY DEF RestInv, Collections!UpdatesKept, Collections!Exists
<1> QED BY <1>4, <1>5, <1>6, <1>7, <1>8, <1>9 DEF RestInv

(* A step that writes nothing, of a task that stays in its transaction.    *)
LEMMA RestTaskStep ==
  ASSUME RestInv, NEW p \in Procs, NEW t \in RestTasks,
         task' = [task EXCEPT ![p] = t], UNCHANGED <<rows, tx, met, answered>>, RestGood(p, t, tx[p])
  PROVE  RestInv'
<1>1. tx' = [tx EXCEPT ![p] = tx[p]]
  BY DEF RestInv, RestTypeOK
<1>2. \A q \in Procs \ {p} : RestBeside(tx[p], tx[q])
  BY DEF RestInv, RestApart
<1>3. \A q \in Procs \ {p} : tx[p] # None /\ tx[q] # None =>
            /\ tx[p].about = tx[q].about => tx[p].about \in met'
            /\ DOMAIN tx[p].docs \cap DOMAIN tx[q].docs = {}
  BY <1>2 DEF RestBeside
<1> QED BY <1>1, <1>3, RestLocalStep

LEMMA RestTaskOf ==
  ASSUME RestInv, NEW p \in Procs
  PROVE  /\ task[p] \in RestTasks /\ RestGood(p, task[p], tx[p])
         /\ task[p].op = "idle" => task[p] = Collections!Idle
         /\ task[p].op \in {"get", "list"} => task[p] \in Finding
         /\ task[p].op = "create" => task[p] \in CreatingOrder
         /\ task[p].op = "update" => task[p] \in Updating
         /\ task[p].op = "delete" => task[p] \in DeletingOrder
<1>1. task[p] \in RestTasks /\ RestGood(p, task[p], tx[p])
  BY DEF RestInv, RestTypeOK, RestTasked
<1> QED BY <1>1 DEF RestTasks, Collections!Idle, Collections!Task, Finding, CreatingOrder, Updating, DeletingOrder, TaskIn

(* What is known of a process that has something to do. *)
LEMMA InTask ==
  ASSUME RestAssumption, RestInv, NEW p \in Procs, task[p].op # "idle"
  PROVE  /\ task[p] \in Finding \cup CreatingOrder \cup Updating \cup DeletingOrder
         /\ task[p].id \in Documents /\ task[p].id \notin Metadata
         /\ rows[task[p].id] \in {Unused, Gone} \cup Collections!OrderDocs
         /\ tx[p] # None /\ Shaped(tx[p]) /\ tx[p].about = task[p].id
         /\ RestWrites(task[p], tx[p].docs) /\ RestHowFar(p, task[p], tx[p].docs)
<1>1. task[p] \in Finding \cup CreatingOrder \cup Updating \cup DeletingOrder
  BY RestTaskOf DEF RestTasks, Collections!Idle, Collections!Task
<1>2. task[p].id \in Documents
  BY <1>1 DEF Finding, CreatingOrder, Updating, DeletingOrder, TaskIn
<1>3. task[p].id \notin Metadata
  BY <1>2 DEF RestAssumption, Collections!RestConstants
<1>4. rows[task[p].id] \in {Unused, Gone} \cup Collections!OrderDocs
  BY <1>2 DEF RestInv, RestTypeOK
<1>5. Shaped(tx[p]) /\ tx[p].about = task[p].id /\ RestWrites(task[p], tx[p].docs) /\ RestHowFar(p, task[p], tx[p].docs)
  BY RestTaskOf DEF RestGood
<1> QED BY <1>1, <1>2, <1>3, <1>4, <1>5 DEF RestAssumption

(* What its writer brings into its format is an order. *)
LEMMA OrderIs ==
  ASSUME RestAssumption, NEW p \in Procs, NEW doc,
         doc = [x \in {"coll", "a", "b", "format", "by"} |-> doc[x]], doc["coll"] = "doc",
         doc["a"] \in {0, 1}, doc["b"] \in {0, 1}, doc["format"] \in Collections!Versions, doc["by"] = p,
         p \in Rewriters => doc["format"] = Version[p]
  PROVE  doc \in Collections!OrderDocs /\ doc.by = p
<1>1. p # None
  BY DEF RestAssumption, Collections!RestConstants
<1>2. doc = [coll |-> doc["coll"], a |-> doc["a"], b |-> doc["b"], format |-> doc["format"], by |-> doc["by"]]
  OBVIOUS
<1>3. doc \in [coll : {"doc"}, a : {0, 1}, b : {0, 1}, format : Collections!Versions, by : Procs \cup {None}] /\ doc.by = p
  BY <1>2
<1>4. doc.by \in Rewriters \cup {None} => doc.format = Collections!Told(doc)
  BY <1>1, <1>2, <1>3 DEF Collections!Told
<1> QED BY <1>3, <1>4 DEF Collections!OrderDocs

(* What is written is the input, who writes it, and perhaps the format. *)
LEMMA WrittenIs ==
  ASSUME NEW p \in Procs, NEW input
  PROVE  Collections!Written(p, input) =
           [x \in DOMAIN input \cup {"by"} \cup (IF p \in Rewriters THEN {"format"} ELSE {}) |->
              IF x = "by" THEN p ELSE IF p \in Rewriters /\ x = "format" THEN Version[p] ELSE input[x]]
<1> DEFINE by == [by |-> p]
           format == [format |-> Version[p]]
<1>1. /\ DOMAIN by = {"by"} /\ by["by"] = p
      /\ DOMAIN format = {"format"} /\ format["format"] = Version[p]
  OBVIOUS
<1>2. Collections!Written(p, input) = Collections!Over(by, IF p \in Rewriters THEN Collections!Over(format, input) ELSE input)
  BY DEF Collections!Written, Collections!ApplyWriteTransform
<1> HIDE DEF by, format
<1>3. CASE p \in Rewriters
  <2> DEFINE over == Collections!Over(format, input)
  <2>1. over = [x \in DOMAIN input \cup {"format"} |-> IF x = "format" THEN Version[p] ELSE input[x]]
    BY <1>1 DEF Collections!Over
  <2> HIDE DEF over
  <2>2. Collections!Over(by, over) = [x \in {"by"} \cup DOMAIN over |-> IF x = "by" THEN p ELSE over[x]]
    BY <1>1 DEF Collections!Over
  <2> QED BY <1>2, <1>3, <2>1, <2>2 DEF over
<1>4. CASE p \notin Rewriters
  <2>1. Collections!Over(by, input) = [x \in {"by"} \cup DOMAIN input |-> IF x = "by" THEN p ELSE input[x]]
    BY <1>1 DEF Collections!Over
  <2> QED BY <1>2, <1>4, <2>1
<1> QED BY <1>3, <1>4

(* A client creates an order in any format. *)
LEMMA CreatedIs ==
  ASSUME RestAssumption, NEW p \in Procs, NEW f \in Collections!Versions
  PROVE  LET new == Collections!Merge([coll |-> "doc"], Collections!Written(p, [a |-> 0, b |-> 0, format |-> f]))
         IN new \in Collections!OrderDocs /\ new.by = p
<1> DEFINE fields == [a |-> 0, b |-> 0, format |-> f]
           old == [coll |-> "doc"]
           input == Collections!Written(p, fields)
           new == Collections!Over(input, old)
<1>1. /\ DOMAIN fields = {"a", "b", "format"} /\ fields["a"] = 0 /\ fields["b"] = 0 /\ fields["format"] = f
      /\ DOMAIN old = {"coll"} /\ old["coll"] = "doc"
  OBVIOUS
<1> HIDE DEF fields, old
<1>2. input = [x \in DOMAIN fields \cup {"by"} \cup (IF p \in Rewriters THEN {"format"} ELSE {}) |->
                IF x = "by" THEN p ELSE IF p \in Rewriters /\ x = "format" THEN Version[p] ELSE fields[x]]
  BY WrittenIs
<1> HIDE DEF input
<1>3. /\ DOMAIN input = {"a", "b", "format", "by"} /\ input["a"] = 0 /\ input["b"] = 0 /\ input["by"] = p
      /\ input["format"] = IF p \in Rewriters THEN Version[p] ELSE f
  BY <1>1, <1>2
<1>4. new = [x \in {"coll", "a", "b", "format", "by"} |-> IF x = "coll" THEN "doc" ELSE input[x]]
  BY <1>1, <1>3 DEF Collections!Over
<1>5. Collections!Merge([coll |-> "doc"], Collections!Written(p, [a |-> 0, b |-> 0, format |-> f])) = new
  BY DEF Collections!Merge, new, input, fields, old
<1> HIDE DEF new
<1>6. new["format"] \in Collections!Versions
  BY <1>3, <1>4 DEF Collections!Versions
<1>7. new \in Collections!OrderDocs /\ new.by = p
  BY <1>3, <1>4, <1>6, OrderIs
<1> QED BY <1>5, <1>7

(* An update leaves an order, written by the one who writes it. *)
LEMMA UpdatedIs ==
  ASSUME RestAssumption, NEW p \in Procs, NEW doc \in Collections!OrderDocs, NEW patch \in Collections!Patches
  PROVE  LET new == Collections!Merge(doc, Collections!Written(p, patch)) IN new \in Collections!OrderDocs /\ new.by = p
<1> DEFINE input == Collections!Written(p, patch)
           new == Collections!Over(input, doc)
<1>1. /\ DOMAIN patch \subseteq {"a", "b"} /\ \A x \in DOMAIN patch : patch[x] = 1
      /\ DOMAIN doc = {"coll", "a", "b", "format", "by"}
      /\ doc["coll"] = "doc" /\ doc["a"] \in {0, 1} /\ doc["b"] \in {0, 1} /\ doc["format"] \in Collections!Versions
  BY DEF Collections!Patches, Collections!OrderDocs
<1>2. input = [x \in DOMAIN patch \cup {"by"} \cup (IF p \in Rewriters THEN {"format"} ELSE {}) |->
                IF x = "by" THEN p ELSE IF p \in Rewriters /\ x = "format" THEN Version[p] ELSE patch[x]]
  BY WrittenIs
<1> HIDE DEF input
<1>3. /\ DOMAIN input = DOMAIN patch \cup {"by"} \cup (IF p \in Rewriters THEN {"format"} ELSE {}) /\ input["by"] = p
      /\ p \in Rewriters => input["format"] = Version[p]
      /\ \A x \in DOMAIN patch : input[x] = 1
  BY <1>1, <1>2
<1>4. new = [x \in {"coll", "a", "b", "format", "by"} |-> IF x \in DOMAIN input THEN input[x] ELSE doc[x]]
  BY <1>1, <1>3 DEF Collections!Over
<1>5. Collections!Merge(doc, Collections!Written(p, patch)) = new
  BY DEF Collections!Merge, new, input
<1> HIDE DEF new
<1>6. /\ new["coll"] = "doc" /\ new["a"] \in {0, 1} /\ new["b"] \in {0, 1} /\ new["by"] = p
      /\ p \in Rewriters => new["format"] = Version[p]
      /\ p \notin Rewriters => new["format"] \in Collections!Versions
  BY <1>1, <1>3, <1>4
<1>7. new["format"] \in Collections!Versions
  BY <1>6 DEF Collections!Versions
<1>8. new \in Collections!OrderDocs /\ new.by = p
  BY <1>4, <1>6, <1>7, OrderIs
<1> QED BY <1>5, <1>8

LEMMA VersionedIs ==
  ASSUME NEW p \in Procs, NEW doc \in Collections!VersionDocs
  PROVE  LET new == Collections!Merge(doc, [version |-> Version[p]])
         IN new \in Collections!VersionDocs /\ new.of = doc.of /\ new.version = Version[p]
<1> DEFINE patch == [version |-> Version[p]]
           new == Collections!Over(patch, doc)
<1>1. /\ DOMAIN patch = {"version"} /\ patch["version"] = Version[p]
      /\ DOMAIN doc = {"coll", "of", "version"} /\ doc["coll"] = "meta" /\ doc["of"] \in Documents
  BY DEF Collections!VersionDocs
<1> HIDE DEF patch
<1>2. new = [x \in {"coll", "of", "version"} |-> IF x = "version" THEN Version[p] ELSE doc[x]]
  BY <1>1 DEF Collections!Over
<1>3. new = [coll |-> "meta", of |-> doc.of, version |-> Version[p]]
  BY <1>1, <1>2
<1>4. Collections!Merge(doc, [version |-> Version[p]]) = new
  BY DEF Collections!Merge, patch
<1> HIDE DEF new
<1> QED BY <1>1, <1>3, <1>4 DEF Collections!VersionDocs, Collections!Versions

(* What p's transaction sees of orders and of metadata, and which metadata *)
(* of the document it finds.                                               *)
LEMMA SeesIs ==
  ASSUME RestAssumption, RestInv, NEW p \in Procs, task[p].op # "idle"
  PROVE  LET w == tx[p].docs
         IN /\ \A d \in Documents : RestSees(w, d) \in {Unused, Gone} \cup Collections!OrderDocs
            /\ \A m \in Metadata : RestSees(w, m) \in {Unused, Gone} \cup Collections!VersionDocs
            /\ \A d \in Docs : Collections!Doc(p, d) = RestSees(w, d)
            /\ \A d \in Docs \ DOMAIN w : Collections!Doc(p, d) = rows[d]
<1> DEFINE w == tx[p].docs
<1>1. RestWrites(task[p], w) /\ RestHowFar(p, task[p], w) /\ task[p].id \in Documents
  BY InTask
<1>2. task[p].id \in DOMAIN w => w[task[p].id] \in {Gone} \cup Collections!OrderDocs
  <2>1. CASE task[p].op \in {"get", "list"}
    BY <1>1, <2>1 DEF RestHowFar
  <2>2. CASE task[p].op = "create"
    BY <1>1, <2>2 DEF RestHowFar, Creates, Wrote
  <2>3. CASE task[p].op = "update"
    BY <1>1, <2>3 DEF RestHowFar, Updates, Wrote
  <2>4. CASE task[p].op = "delete"
    BY <1>1, <2>4 DEF RestHowFar, Deletes
  <2> QED BY <2>1, <2>2, <2>3, <2>4, InTask DEF Finding, CreatingOrder, Updating, DeletingOrder, TaskIn
<1>3. /\ DOMAIN rows = Docs /\ Docs = Documents \cup Metadata /\ Documents \cap Metadata = {}
      /\ \A d \in Documents : rows[d] \in {Unused, Gone} \cup Collections!OrderDocs
      /\ \A m \in Metadata : rows[m] \in {Unused, Gone} \cup Collections!VersionDocs
  BY DEF RestAssumption, Collections!RestConstants, RestInv, RestTypeOK
<1>5. \A d \in Docs : Collections!Doc(p, d) = RestSees(w, d)
  BY DEF Collections!Doc, RestSees
<1> HIDE DEF w
<1>4. \A x \in Docs : RestSees(w, x) = IF x \in DOMAIN w THEN w[x] ELSE rows[x]
  BY <1>3 DEF RestSees, Collections!Over
<1>6. \A d \in Documents : RestSees(w, d) \in {Unused, Gone} \cup Collections!OrderDocs
  BY <1>1, <1>2, <1>3, <1>4 DEF RestWrites
<1>7. \A m \in Metadata : RestSees(w, m) \in {Unused, Gone} \cup Collections!VersionDocs
  BY <1>1, <1>3, <1>4 DEF RestWrites
<1> QED BY <1>4, <1>5, <1>6, <1>7 DEF w

LEMMA MetaOfIs ==
  ASSUME RestAssumption, RestInv, NEW p \in Procs, task[p].op # "idle", DOMAIN tx[p].docs \cap Metadata = {}
  PROVE  LET d == task[p].id
         IN /\ Collections!MetaOf(p, d) = Stored(d) /\ \A m \in Metadata : Collections!Doc(p, m) = rows[m]
            /\ \A m \in Stored(d) : rows[m] \in Collections!VersionDocs /\ rows[m].of = d
<1> DEFINE d == task[p].id
<1>1. /\ Docs = Documents \cup Metadata /\ Documents \cap Metadata = {}
      /\ \A doc \in Collections!OrderDocs \cup Collections!VersionDocs : Collections!Exists(doc)
      /\ \A m \in Metadata : rows[m] \in {Unused, Gone} \cup Collections!VersionDocs
  BY DEF RestAssumption, Collections!RestConstants, RestInv, RestTypeOK
<1>2. \A m \in Metadata : Collections!Doc(p, m) = rows[m]
  BY <1>1, SeesIs
<1>3. \A x \in Documents : Collections!Doc(p, x) \in {Unused, Gone} \cup Collections!OrderDocs
  BY <1>1, SeesIs
<1>4. Collections!Found(p, "meta") = {m \in Metadata : Collections!Exists(rows[m])}
  BY <1>1, <1>2, <1>3 DEF Collections!Found, Collections!Exists, Collections!OrderDocs, Collections!VersionDocs
<1>5. Collections!MetaOf(p, d) = Stored(d)
  BY <1>2, <1>4 DEF Collections!MetaOf, Stored
<1> QED BY <1>1, <1>2, <1>5 DEF Stored, Collections!Exists
-----------------------------------------------------------------------------
(* A request begins a transaction, which meets those about the same document. *)
LEMMA RestRequestStep ==
  ASSUME RestInv, NEW p \in Procs, NEW d \in Documents, NEW t \in RestTasks, NEW method, NEW path, NEW fields,
         Collections!Request(p, d, method, path, fields, t), t.id = d, t.at \in {"find", "insert"}, t.op # "idle",
         t.seen = None
  PROVE  RestInv'
<1> DEFINE w == [about |-> d, docs |-> Collections!Nothing, keys |-> Collections!Nothing]
<1>1. /\ task' = [task EXCEPT ![p] = t] /\ tx' = [tx EXCEPT ![p] = w] /\ UNCHANGED <<rows, answered>>
      /\ met' = met \cup {x \in {d} : \E q \in Collections!Others(p) : tx[q].about = d}
  BY DEF Collections!Request, Collections!Begin
<1>2. DOMAIN w.docs = {}
  BY DEF Collections!Nothing
<1>3. w.about = d /\ Shaped(w)
  BY DEF Shaped
<1> HIDE DEF w
<1>4. RestWrites(t, w.docs)
  BY <1>2 DEF RestWrites, Wrote
<1>5. t.op \in {"get", "list", "update"} => t.at = "find"
  BY DEF RestTasks, Finding, CreatingOrder, Updating, DeletingOrder, TaskIn, Collections!Idle, Collections!Task
<1>6. RestHowFar(p, t, w.docs)
  <2>1. t.op \in {"get", "list", "update"} => Reads(t)
    BY <1>5 DEF Reads
  <2>2. t.op = "update" => Updates(p, t, w.docs)
    BY <1>2, <1>5 DEF Updates, Wrote
  <2>3. t.op = "create" => t.at = "insert"
    BY DEF RestTasks, Finding, CreatingOrder, Updating, DeletingOrder, TaskIn, Collections!Idle, Collections!Task
  <2>4. t.op = "create" => Creates(p, t, w.docs)
    BY <1>2, <2>3 DEF Creates
  <2>5. t.op = "delete" => t.at = "find"
    BY DEF RestTasks, Finding, CreatingOrder, Updating, DeletingOrder, TaskIn, Collections!Idle, Collections!Task
  <2>6. t.op = "delete" => Deletes(t, w.docs)
    BY <1>2, <2>5 DEF Deletes, Wrote
  <2> QED BY <1>2, <2>1, <2>2, <2>4, <2>6 DEF RestHowFar
<1>7. RestGood(p, t, w)
  BY <1>3, <1>4, <1>6 DEF RestGood
<1>8. \A q \in Procs \ {p} : w # None /\ tx[q] # None =>
            /\ w.about = tx[q].about => w.about \in met'
            /\ DOMAIN w.docs \cap DOMAIN tx[q].docs = {}
  BY <1>1, <1>2, <1>3 DEF Collections!Others, Collections!InTx
<1> QED BY <1>1, <1>7, <1>8, RestLocalStep

LEMMA RequestsStep ==
  ASSUME RestInv, NEW p \in Procs, Collections!Requests(p) PROVE RestInv'
<1>1. PICK d \in Documents : Collections!Requests(p)!(d)
  BY DEF Collections!Requests
<1>2. /\ Collections!Task("get", "find", d, Collections!Nothing) \in RestTasks /\ Collections!Task("list", "find", d, Collections!Nothing) \in RestTasks
      /\ Collections!Task("create", "insert", d, Collections!Nothing) \in RestTasks /\ Collections!Task("delete", "find", d, Collections!Nothing) \in RestTasks
      /\ \A patch \in Collections!Patches : Collections!Task("update", "find", d, patch) \in RestTasks
  BY DEF Collections!Task, RestTasks, Finding, CreatingOrder, Updating, DeletingOrder, TaskIn
<1>3. \A op, at, patch : LET t == Collections!Task(op, at, d, patch)
                         IN t.op = op /\ t.at = at /\ t.id = d /\ t.seen = None
  BY DEF Collections!Task
<1>4. ASSUME NEW op \in {"get", "list", "create", "delete", "update"}, NEW at \in {"find", "insert"},
             NEW patch, Collections!Task(op, at, d, patch) \in RestTasks,
             NEW method, NEW path, NEW fields, Collections!Request(p, d, method, path, fields, Collections!Task(op, at, d, patch))
      PROVE  RestInv'
  <2> DEFINE t == Collections!Task(op, at, d, patch)
  <2>1. t \in RestTasks /\ t.op = op /\ t.at = at /\ t.id = d /\ t.seen = None
    BY <1>3, <1>4
  <2>2. Collections!Request(p, d, method, path, fields, t)
    BY <1>4
  <2> HIDE DEF t
  <2> QED BY <2>1, <2>2, RestRequestStep
<1> QED BY <1>1, <1>2, <1>4
-----------------------------------------------------------------------------
(* The steps that read. *)
LEMMA FindStep ==
  ASSUME RestAssumption, RestInv, NEW p \in Procs, Collections!Find(p) PROVE RestInv'
<1> DEFINE d == task[p].id
           doc == Collections!Doc(p, d)
           t == IF Collections!Exists(doc) THEN [task[p] EXCEPT !.seen = doc, !.at = "resolve"] ELSE [task[p] EXCEPT !.at = "commit"]
<1>1. /\ task[p].op \in {"get", "list", "update"} /\ task[p].at = "find"
      /\ task' = [task EXCEPT ![p] = t] /\ UNCHANGED <<rows, tx, met, answered>>
  BY DEF Collections!Find, Collections!storeVars
<1>2. task[p].op # "idle"
  BY <1>1
<1>3. /\ task[p] \in Finding \cup Updating /\ task[p].seen = None
      /\ d \in Documents /\ tx[p] # None /\ Shaped(tx[p]) /\ tx[p].about = d
      /\ RestWrites(task[p], tx[p].docs) /\ RestHowFar(p, task[p], tx[p].docs) /\ Reads(task[p])
      /\ rows[d] \in {Unused, Gone} \cup Collections!OrderDocs
  BY <1>1, <1>2, InTask, RestTaskOf DEF RestHowFar, Reads
<1>4. DOMAIN tx[p].docs = {}
  BY <1>1, <1>3 DEF RestHowFar, Updates
<1>5. doc = rows[d] /\ d \in Docs
  BY <1>2, <1>3, <1>4, SeesIs DEF RestAssumption, Collections!RestConstants
<1>6. Collections!Exists(doc) => doc \in Collections!OrderDocs /\ doc # None /\ rows[d] # Unused
  BY <1>3, <1>5 DEF Collections!Exists, RestAssumption, Collections!RestConstants
<1> HIDE DEF doc, d
<1>7. /\ t \in RestTasks /\ t.id = task[p].id /\ t.op = task[p].op /\ t.patch = task[p].patch
      /\ t.at = IF Collections!Exists(doc) THEN "resolve" ELSE "commit"
      /\ t.seen = IF Collections!Exists(doc) THEN doc ELSE None
  <2>1. CASE task[p] \in Finding
    BY <1>1, <1>3, <1>6, <2>1 DEF RestTasks, Finding, TaskIn
  <2>2. CASE task[p] \in Updating
    BY <1>1, <1>3, <1>6, <2>2 DEF RestTasks, Updating, TaskIn
  <2> QED BY <1>3, <2>1, <2>2
<1> HIDE DEF t
<1>8. Reads(t)
  BY <1>5, <1>6, <1>7 DEF Reads, d
<1>9. t.op = "update" => Updates(p, t, tx[p].docs)
  BY <1>4, <1>5, <1>7 DEF Updates, Wrote, d
<1>10. RestGood(p, t, tx[p])
  BY <1>1, <1>3, <1>4, <1>7, <1>8, <1>9 DEF RestGood, RestWrites, Wrote, RestHowFar, d
<1> QED BY <1>1, <1>7, <1>10, RestTaskStep

LEMMA ResolveStep ==
  ASSUME RestAssumption, RestInv, NEW p \in Procs, Collections!Resolve(p) PROVE RestInv'
<1> DEFINE d == task[p].id
           version == Collections!ResolveSchemaVersion(p, d)
           at == IF task[p].op = "update" THEN "read" ELSE "commit"
           t == [task[p] EXCEPT !.version = version, !.at = at]
<1>1. /\ task[p].op \in {"get", "list", "update"} /\ task[p].at = "resolve"
      /\ task' = [task EXCEPT ![p] = t] /\ UNCHANGED <<rows, tx, met, answered>>
  BY DEF Collections!Resolve, Collections!storeVars
<1>2. task[p].op # "idle"
  BY <1>1
<1>3. /\ task[p] \in Finding \cup Updating
      /\ d \in Documents /\ tx[p] # None /\ Shaped(tx[p]) /\ tx[p].about = d
      /\ RestWrites(task[p], tx[p].docs) /\ RestHowFar(p, task[p], tx[p].docs) /\ Reads(task[p])
      /\ rows[d] \in {Unused, Gone} \cup Collections!OrderDocs
  BY <1>1, <1>2, InTask, RestTaskOf DEF RestHowFar
<1>4. DOMAIN tx[p].docs = {}
  BY <1>1, <1>3 DEF RestHowFar, Updates
<1>5. /\ Collections!MetaOf(p, d) = Stored(d) /\ \A m \in Metadata : Collections!Doc(p, m) = rows[m]
      /\ \A m \in Stored(d) : m \in Metadata /\ rows[m] \in Collections!VersionDocs
  BY <1>2, <1>4, MetaOfIs DEF Stored
<1>6. version = IF Stored(d) # {} THEN rows[CHOOSE m \in Stored(d) : TRUE].version
                ELSE IF d \in Legacy THEN Collections!LegacyVersion ELSE None
  BY <1>5 DEF Collections!ResolveSchemaVersion
<1>7. version \in {None} \cup Collections!Versions
  BY <1>5, <1>6 DEF Collections!VersionDocs, Collections!Versions
<1>8. task[p].seen \in {None} \cup Collections!OrderDocs /\ task[p].seen # None
  BY <1>1, <1>3 DEF Reads, Finding, Updating, TaskIn
<1>9. d \notin met => task[p].seen = rows[d] /\ Collections!Exists(rows[d])
  BY <1>1, <1>3, <1>8 DEF Reads, Alone, RestAssumption, Collections!RestConstants
<1>10. d \notin met => version = Collections!Told(rows[d])
  <2> SUFFICES ASSUME d \notin met PROVE version = Collections!Told(rows[d])
    OBVIOUS
  <2>1. Paired(d)
    BY <1>3 DEF RestInv, Pairs
  <2> HIDE DEF version, d
  <2> QED BY <1>6, <1>9, <2>1 DEF Paired
<1> HIDE DEF version, d
<1>11. /\ t \in RestTasks /\ t.id = task[p].id /\ t.op = task[p].op /\ t.patch = task[p].patch
       /\ t.at = at /\ t.seen = task[p].seen /\ t.version = version
  BY <1>1, <1>3, <1>7 DEF RestTasks, Finding, Updating, TaskIn
<1> HIDE DEF t
<1>12. Reads(t)
  BY <1>1, <1>3, <1>8, <1>9, <1>10, <1>11 DEF Reads, Alone, d
<1>13. t.op = "update" => Updates(p, t, tx[p].docs)
  BY <1>4, <1>11 DEF Updates, Wrote, d
<1>14. RestGood(p, t, tx[p])
  BY <1>1, <1>3, <1>4, <1>11, <1>12, <1>13 DEF RestGood, RestWrites, Wrote, RestHowFar, d
<1> QED BY <1>1, <1>11, <1>14, RestTaskStep

LEMMA ReadBackStep ==
  ASSUME RestAssumption, RestInv, NEW p \in Procs, Collections!ReadBack(p) PROVE RestInv'
<1> DEFINE d == task[p].id
           doc == Collections!Doc(p, d)
           t == IF Collections!Exists(doc) THEN [task[p] EXCEPT !.seen = doc, !.at = "write"] ELSE [task[p] EXCEPT !.at = "meta"]
<1>1. /\ task[p].op = "update" /\ task[p].at = "read"
      /\ task' = [task EXCEPT ![p] = t] /\ UNCHANGED <<rows, tx, met, answered>>
  BY DEF Collections!ReadBack, Collections!At, Collections!storeVars
<1>2. task[p].op # "idle"
  BY <1>1
<1>3. /\ task[p] \in Updating
      /\ d \in Documents /\ tx[p] # None /\ Shaped(tx[p]) /\ tx[p].about = d
      /\ RestWrites(task[p], tx[p].docs) /\ Reads(task[p]) /\ Updates(p, task[p], tx[p].docs)
      /\ rows[d] \in {Unused, Gone} \cup Collections!OrderDocs
  BY <1>1, <1>2, InTask, RestTaskOf DEF RestHowFar
<1>4. DOMAIN tx[p].docs = {} /\ rows[d] # Unused
  BY <1>1, <1>3 DEF Updates, Reads
<1>5. doc = rows[d] /\ d \in Docs
  BY <1>2, <1>3, <1>4, SeesIs DEF RestAssumption, Collections!RestConstants
<1>6. IF Collections!Exists(doc) THEN doc \in Collections!OrderDocs /\ doc # None ELSE rows[d] = Gone
  BY <1>3, <1>4, <1>5 DEF Collections!Exists, RestAssumption, Collections!RestConstants
<1>7. d \notin met => task[p].seen = rows[d] /\ Collections!Exists(rows[d]) /\ task[p].version = Collections!Told(rows[d])
  <2>1. task[p].seen \in {None} \cup Collections!OrderDocs /\ task[p].seen # None
    BY <1>1, <1>3 DEF Reads, Updating, TaskIn
  <2> QED BY <1>1, <1>3, <2>1 DEF Reads, Alone, RestAssumption, Collections!RestConstants
<1> HIDE DEF doc, d
<1>8. /\ t \in RestTasks /\ t.id = task[p].id /\ t.op = "update" /\ t.patch = task[p].patch
      /\ t.at = IF Collections!Exists(doc) THEN "write" ELSE "meta"
      /\ t.seen = IF Collections!Exists(doc) THEN doc ELSE task[p].seen
      /\ t.version = task[p].version
  BY <1>1, <1>3, <1>6 DEF RestTasks, Updating, TaskIn
<1> HIDE DEF t
<1>9. Reads(t)
  BY <1>4, <1>5, <1>6, <1>7, <1>8 DEF Reads, Alone, d
<1>10. Updates(p, t, tx[p].docs)
  BY <1>4, <1>5, <1>6, <1>7, <1>8 DEF Updates, Wrote, Alone, d
<1>11. RestGood(p, t, tx[p])
  BY <1>3, <1>4, <1>8, <1>9, <1>10 DEF RestGood, RestWrites, Wrote, RestHowFar, d
<1> QED BY <1>1, <1>8, <1>11, RestTaskStep

LEMMA FindDeletedStep ==
  ASSUME RestAssumption, RestInv, NEW p \in Procs, Collections!FindDeleted(p) PROVE RestInv'
<1> DEFINE d == task[p].id
           doc == Collections!Doc(p, d)
           at == IF Collections!Exists(doc) THEN "delete" ELSE "commit"
           t == [task[p] EXCEPT !.at = at]
<1>1. /\ task[p].op = "delete" /\ task[p].at = "find"
      /\ task' = [task EXCEPT ![p] = t] /\ UNCHANGED <<rows, tx, met, answered>>
  BY DEF Collections!FindDeleted, Collections!At, Collections!Goto, Collections!storeVars
<1>2. task[p].op # "idle"
  BY <1>1
<1>3. /\ task[p] \in DeletingOrder /\ task[p].seen = None
      /\ d \in Documents /\ tx[p] # None /\ Shaped(tx[p]) /\ tx[p].about = d
      /\ RestWrites(task[p], tx[p].docs) /\ Deletes(task[p], tx[p].docs)
  BY <1>1, <1>2, InTask, RestTaskOf DEF RestHowFar
<1>4. DOMAIN tx[p].docs = {}
  BY <1>1, <1>3 DEF Deletes
<1>5. doc = rows[d]
  BY <1>2, <1>3, <1>4, SeesIs DEF RestAssumption, Collections!RestConstants
<1> HIDE DEF doc, d
<1>6. t \in RestTasks /\ t.id = task[p].id /\ t.op = "delete" /\ t.at = at /\ t.seen = None
  BY <1>1, <1>3 DEF RestTasks, DeletingOrder, TaskIn
<1> HIDE DEF t
<1>7. Deletes(t, tx[p].docs)
  BY <1>4, <1>5, <1>6 DEF Deletes, Wrote, Collections!Exists, d
<1>8. RestGood(p, t, tx[p])
  BY <1>3, <1>4, <1>6, <1>7 DEF RestGood, RestWrites, Wrote, RestHowFar, d
<1> QED BY <1>1, <1>6, <1>8, RestTaskStep

(* When no metadata is written yet, what is left is what is stored. *)
LEMMA LeftIs ==
  ASSUME RestAssumption, RestInv, NEW w, DOMAIN w \cap Metadata = {}, NEW d
  PROVE  Left(w, d) = Stored(d)
<1>1. DOMAIN rows = Docs /\ Metadata \subseteq Docs
  BY DEF RestInv, RestTypeOK, RestAssumption, Collections!RestConstants
<1>2. \A m \in Metadata : RestSees(w, m) = rows[m]
  BY <1>1 DEF RestSees, Collections!Over
<1> QED BY <1>2 DEF Left, Stored

(* What has not been made has no metadata.                                 *)
LEMMA NothingStored ==
  ASSUME RestInv, NEW d \in Documents, rows[d] = Unused
  PROVE  Stored(d) = {}
BY DEF RestInv, Owners, Owned, Stored

(* One piece of metadata, if any, is stored of a document that is there.   *)
LEMMA OneStored ==
  ASSUME RestInv, NEW d \in Documents, Collections!Exists(rows[d]), NEW m \in Stored(d)
  PROVE  Stored(d) = {m}
BY DEF RestInv, Pairs, Paired

LEMMA PersistFindStep ==
  ASSUME RestAssumption, RestInv, NEW p \in Procs, Collections!PersistFind(p) PROVE RestInv'
<1> DEFINE d == task[p].id
           metas == Collections!MetaOf(p, d)
           t == IF metas = {} THEN [task[p] EXCEPT !.at = "metaInsert"]
                ELSE [Collections!Task(task[p].op, "metaUpdate", d, task[p].patch) EXCEPT !.meta = CHOOSE m \in metas : TRUE]
<1>1. /\ task[p].op \in {"create", "update"} /\ task[p].at = "meta"
      /\ task' = [task EXCEPT ![p] = t] /\ UNCHANGED <<rows, tx, met, answered>>
  BY DEF Collections!PersistFind, Collections!storeVars
<1>2. task[p].op # "idle"
  BY <1>1
<1>3. /\ task[p] \in CreatingOrder \cup Updating
      /\ d \in Documents /\ d \notin Metadata /\ tx[p] # None /\ Shaped(tx[p]) /\ tx[p].about = d
      /\ RestWrites(task[p], tx[p].docs) /\ RestHowFar(p, task[p], tx[p].docs)
  BY <1>1, <1>2, InTask, RestTaskOf
<1>4. DOMAIN tx[p].docs \subseteq {d}
  BY <1>1, <1>3 DEF RestHowFar, Updates, Creates
<1>5. metas = Stored(d)
  BY <1>2, <1>3, <1>4, MetaOfIs
<1> HIDE DEF metas, d
<1>6. CASE task[p].op = "create"
  <2>1. Creates(p, task[p], tx[p].docs) /\ task[p] \in CreatingOrder /\ task[p].seen = None
    BY <1>3, <1>6, RestTaskOf DEF RestHowFar
  <2>2. rows[d] = Unused
    BY <1>1, <2>1 DEF Creates, d
  <2>3. metas = {}
    BY <1>3, <1>5, <2>2, NothingStored
  <2>4. t = [task[p] EXCEPT !.at = "metaInsert"]
    BY <2>3
  <2> HIDE DEF t
  <2>5. t \in RestTasks /\ t.id = task[p].id /\ t.op = "create" /\ t.at = "metaInsert" /\ t.seen = None
    BY <2>1, <2>4 DEF RestTasks, CreatingOrder, TaskIn
  <2>6. Creates(p, t, tx[p].docs)
    BY <1>1, <2>1, <2>5 DEF Creates, Wrote
  <2>7. RestGood(p, t, tx[p])
    BY <1>3, <2>5, <2>6 DEF RestGood, RestWrites, Wrote, RestHowFar, d
  <2> QED BY <1>1, <2>5, <2>7, RestTaskStep
<1>7. CASE task[p].op = "update"
  <2>1. Updates(p, task[p], tx[p].docs) /\ Reads(task[p]) /\ task[p] \in Updating
    BY <1>3, <1>7, RestTaskOf DEF RestHowFar
  <2>2. \A m \in metas : m \in Metadata
    BY <1>5 DEF Stored
  <2>3. metas # {} => (CHOOSE m \in metas : TRUE) \in metas
    OBVIOUS
  <2>4. /\ t \in RestTasks /\ t.id = task[p].id /\ t.op = "update" /\ t.patch = task[p].patch
        /\ t.at = IF metas = {} THEN "metaInsert" ELSE "metaUpdate"
        /\ IF metas = {} THEN t.seen = task[p].seen /\ t.version = task[p].version
           ELSE t.seen = None /\ t.meta \in metas
    <3>1. CASE metas = {}
      BY <1>7, <2>1, <3>1 DEF RestTasks, Updating, TaskIn
    <3>2. CASE metas # {}
      BY <1>7, <2>1, <2>2, <2>3, <3>2 DEF RestTasks, Updating, TaskIn, Collections!Task, d
    <3> QED BY <3>1, <3>2
  <2> HIDE DEF t
  <2>5. Reads(t)
    BY <1>1, <2>1, <2>4 DEF Reads, Alone
  <2>6. Updates(p, t, tx[p].docs)
    BY <1>1, <1>5, <2>1, <2>2, <2>4 DEF Updates, Wrote, Alone, d
  <2>7. RestGood(p, t, tx[p])
    BY <1>3, <2>4, <2>5, <2>6 DEF RestGood, RestWrites, Wrote, RestHowFar, d
  <2> QED BY <1>1, <2>4, <2>7, RestTaskStep
<1> QED BY <1>1, <1>6, <1>7
-----------------------------------------------------------------------------
(* A step that writes what no other transaction has written. *)
LEMMA WriteStep ==
  ASSUME RestAssumption, RestInv, NEW p \in Procs, task[p].op # "idle", NEW new, NEW place,
         tx' = [tx EXCEPT ![p].docs = Collections!Over(new, tx[p].docs)], Collections!Goto(p, place), UNCHANGED <<rows, met, answered>>,
         [task[p] EXCEPT !.at = place] \in RestTasks,
         \A x \in DOMAIN new : \A q \in Collections!Others(p) : x \notin DOMAIN tx[q].docs,
         LET t == [task[p] EXCEPT !.at = place]  w == Collections!Over(new, tx[p].docs)
         IN RestWrites(t, w) /\ RestHowFar(p, t, w)
  PROVE  RestInv'
<1> DEFINE t == [task[p] EXCEPT !.at = place]
           docs == Collections!Over(new, tx[p].docs)
           w == [about |-> tx[p].about, docs |-> docs, keys |-> tx[p].keys]
<1>1. Shaped(tx[p]) /\ tx[p].about = task[p].id
  BY InTask
<1>2. tx' = [tx EXCEPT ![p] = w]
  <2> HIDE DEF docs
  <2>1. [tx[p] EXCEPT !.docs = docs] = w
    BY <1>1 DEF Shaped
  <2>2. tx' = [tx EXCEPT ![p] = [tx[p] EXCEPT !.docs = docs]]
    BY DEF docs
  <2> QED BY <2>1, <2>2
<1>3. task' = [task EXCEPT ![p] = t] /\ t \in RestTasks
  BY DEF Collections!Goto
<1>4. t.op = task[p].op /\ t.id = task[p].id
  BY InTask DEF Finding, CreatingOrder, Updating, DeletingOrder, TaskIn
<1>5. DOMAIN docs = DOMAIN new \cup DOMAIN tx[p].docs
  BY DEF Collections!Over
<1>6. RestWrites(t, docs) /\ RestHowFar(p, t, docs)
  OBVIOUS
<1> HIDE DEF t, docs
<1>7. w.about = tx[p].about /\ w.docs = docs /\ Shaped(w)
  BY DEF Shaped
<1> HIDE DEF w
<1>8. RestGood(p, t, w)
  BY <1>1, <1>4, <1>6, <1>7 DEF RestGood
<1>9. \A q \in Procs \ {p} : RestBeside(tx[p], tx[q])
  BY DEF RestInv, RestApart
<1>10. tx[p] # None
  BY InTask
<1>11. \A q \in Procs \ {p} : w # None /\ tx[q] # None =>
            /\ w.about = tx[q].about => w.about \in met'
            /\ DOMAIN w.docs \cap DOMAIN tx[q].docs = {}
  BY <1>5, <1>7, <1>9, <1>10 DEF RestBeside, Collections!Others, Collections!InTx
<1> QED BY <1>2, <1>3, <1>8, <1>11, RestLocalStep

LEMMA UpdateStep ==
  ASSUME RestAssumption, RestInv, NEW p \in Procs, Collections!Update(p) PROVE RestInv'
<1> DEFINE d == task[p].id
           input == Collections!Written(p, task[p].patch)
           doc == Collections!Merge(task[p].seen, input)
           new == [x \in {d} |-> doc]
           t == [task[p] EXCEPT !.at = "meta"]
<1>1. /\ task[p].op = "update" /\ task[p].at = "write" /\ Collections!Goto(p, "meta")
      /\ ~Collections!Locked(p, d) /\ UNCHANGED <<rows, met, answered>>
      /\ IF Collections!Exists(Collections!Doc(p, d)) THEN tx' = [tx EXCEPT ![p].docs = Collections!Over(new, tx[p].docs)] ELSE UNCHANGED tx
  BY DEF Collections!Update, Collections!At, Collections!UpdateRow, Collections!WriteDoc
<1>2. task[p].op # "idle"
  BY <1>1
<1>3. /\ task[p] \in Updating /\ d \in Documents /\ d \notin Metadata
      /\ tx[p] # None /\ Shaped(tx[p]) /\ tx[p].about = d
      /\ RestWrites(task[p], tx[p].docs) /\ Reads(task[p]) /\ Updates(p, task[p], tx[p].docs)
      /\ rows[d] \in {Unused, Gone} \cup Collections!OrderDocs
  BY <1>1, <1>2, InTask, RestTaskOf DEF RestHowFar
<1>4. DOMAIN tx[p].docs = {} /\ rows[d] # Unused
  BY <1>1, <1>3 DEF Updates, Reads
<1>5. Collections!Doc(p, d) = rows[d]
  BY <1>2, <1>3, <1>4, SeesIs DEF RestAssumption, Collections!RestConstants
<1>6. task[p].seen \in Collections!OrderDocs /\ (d \notin met => task[p].seen = rows[d] /\ Collections!Exists(rows[d]))
  <2>1. task[p].seen \in {None} \cup Collections!OrderDocs /\ task[p].seen # None
    BY <1>1, <1>3 DEF Reads, Updating, TaskIn
  <2> QED BY <1>1, <1>3, <2>1 DEF Reads, Alone, RestAssumption, Collections!RestConstants
<1>7. doc \in Collections!OrderDocs /\ doc.by = p
  BY <1>3, <1>6, UpdatedIs DEF Updating, TaskIn
<1>8. /\ t \in RestTasks /\ t.id = task[p].id /\ t.op = "update" /\ t.patch = task[p].patch
      /\ t.at = "meta" /\ t.seen = task[p].seen /\ t.version = task[p].version
  BY <1>1, <1>3 DEF RestTasks, Updating, TaskIn
<1>9. Reads(t)
  BY <1>1, <1>3, <1>8 DEF Reads, Alone
<1>10. CASE Collections!Exists(rows[d])
  <2> DEFINE w == Collections!Over(new, tx[p].docs)
  <2>1. DOMAIN w = {d} /\ w[d] = doc
    BY <1>4 DEF Collections!Over
  <2> HIDE DEF w, t
  <2>2. RestWrites(t, w)
    BY <1>3, <1>8, <1>10, <2>1 DEF RestWrites, Wrote, Collections!Exists
  <2> HIDE DEF doc
  <2>3. d \notin met => doc = Collections!Merge(rows[d], input)
    BY <1>6 DEF doc
  <2> HIDE DEF input
  <2>4. Updates(p, t, w)
    BY <1>7, <1>8, <1>10, <2>1, <2>3 DEF Updates, Wrote, Alone, input
  <2>5. RestHowFar(p, t, w)
    BY <1>8, <1>9, <2>4 DEF RestHowFar
  <2>6. \A x \in DOMAIN new : \A q \in Collections!Others(p) : x \notin DOMAIN tx[q].docs
    BY <1>1 DEF Collections!Locked
  <2>7. tx' = [tx EXCEPT ![p].docs = Collections!Over(new, tx[p].docs)]
    BY <1>1, <1>5, <1>10
  <2> QED BY <1>1, <1>2, <1>8, <2>2, <2>5, <2>6, <2>7, WriteStep DEF t, w
<1>11. CASE ~Collections!Exists(rows[d])
  <2>1. rows[d] = Gone /\ d \in met
    BY <1>4, <1>6, <1>11 DEF Collections!Exists
  <2> HIDE DEF t
  <2>2. Updates(p, t, tx[p].docs)
    BY <1>4, <1>8, <2>1 DEF Updates, Wrote, Alone
  <2>3. RestGood(p, t, tx[p])
    BY <1>3, <1>4, <1>8, <1>9, <2>2 DEF RestGood, RestWrites, Wrote, RestHowFar
  <2>4. UNCHANGED tx
    BY <1>1, <1>5, <1>11
  <2> QED BY <1>1, <1>8, <2>3, <2>4, RestTaskStep DEF t, Collections!Goto
<1> QED BY <1>10, <1>11

LEMMA CreateStep ==
  ASSUME RestAssumption, RestInv, NEW p \in Procs, Collections!Create(p) PROVE RestInv'
<1> DEFINE d == task[p].id
           t == [task[p] EXCEPT !.at = "meta"]
<1>0. PICK f \in Collections!Versions :
        Collections!CollectionInsert(p, d, Collections!Merge([coll |-> "doc"], Collections!Written(p, [a |-> 0, b |-> 0, format |-> f])))
  BY DEF Collections!Create
<1> DEFINE doc == Collections!Merge([coll |-> "doc"], Collections!Written(p, [a |-> 0, b |-> 0, format |-> f]))
           new == [x \in {d} |-> doc]
           w == Collections!Over(new, tx[p].docs)
<1>1. /\ task[p].op = "create" /\ task[p].at = "insert" /\ Collections!Goto(p, "meta")
      /\ rows[d] = Unused /\ \A q \in Procs : Collections!InTx(q) => d \notin DOMAIN tx[q].docs
      /\ UNCHANGED <<rows, met, answered>>
      /\ tx' = [tx EXCEPT ![p].docs = Collections!Over(new, tx[p].docs)]
  BY <1>0 DEF Collections!Create, Collections!At, Collections!CollectionInsert, Collections!WriteDoc
<1>2. task[p].op # "idle"
  BY <1>1
<1>3. /\ task[p] \in CreatingOrder /\ task[p].seen = None /\ d \in Documents /\ d \notin Metadata
      /\ RestWrites(task[p], tx[p].docs) /\ Creates(p, task[p], tx[p].docs)
  BY <1>1, <1>2, InTask, RestTaskOf DEF RestHowFar
<1>4. DOMAIN tx[p].docs = {}
  BY <1>1, <1>3 DEF Creates
<1>5. doc \in Collections!OrderDocs /\ doc.by = p
  BY CreatedIs
<1> HIDE DEF doc
<1>6. DOMAIN w = {d} /\ w[d] = doc
  BY <1>4 DEF Collections!Over
<1>7. t \in RestTasks /\ t.id = task[p].id /\ t.op = "create" /\ t.at = "meta" /\ t.seen = None
  BY <1>1, <1>3 DEF RestTasks, CreatingOrder, TaskIn
<1> HIDE DEF t, w
<1>8. RestWrites(t, w)
  BY <1>1, <1>3, <1>6, <1>7 DEF RestWrites, Wrote, RestAssumption, Collections!RestConstants
<1>9. RestHowFar(p, t, w)
  BY <1>1, <1>5, <1>6, <1>7 DEF RestHowFar, Creates, Wrote
<1>10. \A x \in DOMAIN new : \A q \in Collections!Others(p) : x \notin DOMAIN tx[q].docs
  BY <1>1 DEF Collections!Others
<1> QED BY <1>1, <1>2, <1>7, <1>8, <1>9, <1>10, WriteStep DEF t, w

LEMMA DeleteStep ==
  ASSUME RestAssumption, RestInv, NEW p \in Procs, Collections!Delete(p) PROVE RestInv'
<1> DEFINE d == task[p].id
           new == [x \in {d} |-> Gone]
           t == [task[p] EXCEPT !.at = "metaDelete"]
<1>1. /\ task[p].op = "delete" /\ task[p].at = "delete" /\ Collections!Goto(p, "metaDelete")
      /\ ~Collections!Locked(p, d) /\ UNCHANGED <<rows, met, answered>>
      /\ IF Collections!Exists(Collections!Doc(p, d)) THEN tx' = [tx EXCEPT ![p].docs = Collections!Over(new, tx[p].docs)] ELSE UNCHANGED tx
  BY DEF Collections!Delete, Collections!At, Collections!DeleteRow, Collections!WriteDoc
<1>2. task[p].op # "idle"
  BY <1>1
<1>3. /\ task[p] \in DeletingOrder /\ task[p].seen = None /\ d \in Documents /\ d \notin Metadata
      /\ tx[p] # None /\ Shaped(tx[p]) /\ tx[p].about = d
      /\ RestWrites(task[p], tx[p].docs) /\ Deletes(task[p], tx[p].docs)
  BY <1>1, <1>2, InTask, RestTaskOf DEF RestHowFar
<1>4. DOMAIN tx[p].docs = {} /\ rows[d] # Unused /\ (d \notin met => Collections!Exists(rows[d]))
  BY <1>1, <1>3 DEF Deletes, Alone
<1>5. Collections!Doc(p, d) = rows[d]
  BY <1>2, <1>3, <1>4, SeesIs DEF RestAssumption, Collections!RestConstants
<1>6. t \in RestTasks /\ t.id = task[p].id /\ t.op = "delete" /\ t.at = "metaDelete" /\ t.seen = None
  BY <1>1, <1>3 DEF RestTasks, DeletingOrder, TaskIn
<1>7. CASE Collections!Exists(rows[d])
  <2> DEFINE w == Collections!Over(new, tx[p].docs)
  <2>1. DOMAIN w = {d} /\ w[d] = Gone
    BY <1>4 DEF Collections!Over
  <2> HIDE DEF w, t
  <2>2. RestWrites(t, w)
    BY <1>3, <1>6, <1>7, <2>1 DEF RestWrites, Wrote, Collections!Exists
  <2>3. RestHowFar(p, t, w)
    BY <1>6, <1>7, <2>1 DEF RestHowFar, Deletes, Wrote, Alone
  <2>4. \A x \in DOMAIN new : \A q \in Collections!Others(p) : x \notin DOMAIN tx[q].docs
    BY <1>1 DEF Collections!Locked
  <2>5. tx' = [tx EXCEPT ![p].docs = Collections!Over(new, tx[p].docs)]
    BY <1>1, <1>5, <1>7
  <2> QED BY <1>1, <1>2, <1>6, <2>2, <2>3, <2>4, <2>5, WriteStep DEF t, w
<1>8. CASE ~Collections!Exists(rows[d])
  <2>1. rows[d] = Gone /\ d \in met
    BY <1>4, <1>8 DEF Collections!Exists
  <2> HIDE DEF t
  <2>2. Deletes(t, tx[p].docs)
    BY <1>4, <1>6, <2>1 DEF Deletes, Wrote, Alone
  <2>3. RestGood(p, t, tx[p])
    BY <1>3, <1>4, <1>6, <2>2 DEF RestGood, RestWrites, Wrote, RestHowFar
  <2>4. UNCHANGED tx
    BY <1>1, <1>5, <1>8
  <2> QED BY <1>1, <1>6, <2>3, <2>4, RestTaskStep DEF t, Collections!Goto
<1> QED BY <1>7, <1>8

(* What is left when one metadata document is written. *)
LEMMA LeftOne ==
  ASSUME RestAssumption, RestInv, NEW w, DOMAIN w \cap Metadata = {}, NEW m \in Metadata, NEW v \in Collections!VersionDocs,
         Stored(v.of) \subseteq {m}
  PROVE  Tagged(Collections!Over([x \in {m} |-> v], w), v.of, v.version)
<1> DEFINE new == [x \in {m} |-> v]
           u == Collections!Over(new, w)
<1>1. DOMAIN rows = Docs /\ Metadata \subseteq Docs /\ Collections!Exists(v)
  BY DEF RestInv, RestTypeOK, RestAssumption, Collections!RestConstants
<1>2. /\ DOMAIN u = DOMAIN w \cup {m} /\ u[m] = v
      /\ \A x \in DOMAIN w \ {m} : u[x] = w[x]
  BY DEF Collections!Over
<1> HIDE DEF u
<1>3. \A x \in Metadata : RestSees(u, x) = IF x = m THEN v ELSE rows[x]
  BY <1>1, <1>2 DEF RestSees, Collections!Over
<1>4. Left(u, v.of) = {m}
  BY <1>1, <1>3 DEF Left, Stored
<1> QED BY <1>3, <1>4 DEF Tagged, u

LEMMA PersistUpdateStep ==
  ASSUME RestAssumption, RestInv, NEW p \in Procs, Collections!PersistUpdate(p) PROVE RestInv'
<1> DEFINE d == task[p].id
           m == task[p].meta
           v == Collections!Merge(rows[m], [version |-> Version[p]])
           new == [x \in {m} |-> v]
           t == [task[p] EXCEPT !.at = "commit"]
<1>1. /\ task[p].op \in {"create", "update"} /\ task[p].at = "metaUpdate" /\ Collections!Goto(p, "commit")
      /\ ~Collections!Locked(p, m) /\ UNCHANGED <<rows, met, answered>>
      /\ IF Collections!Exists(Collections!Doc(p, m))
         THEN tx' = [tx EXCEPT ![p].docs = Collections!Over([x \in {m} |-> Collections!Merge(Collections!Doc(p, m), [version |-> Version[p]])], tx[p].docs)]
         ELSE UNCHANGED tx
  BY DEF Collections!PersistUpdate, Collections!UpdateRow, Collections!WriteDoc
<1>2. task[p].op # "idle"
  BY <1>1
<1>3. /\ task[p] \in Updating /\ task[p].op = "update" /\ d \in Documents /\ d \notin Metadata
      /\ tx[p] # None /\ Shaped(tx[p]) /\ tx[p].about = d
      /\ RestWrites(task[p], tx[p].docs) /\ Reads(task[p]) /\ Updates(p, task[p], tx[p].docs)
  <2>1. task[p] \notin CreatingOrder
    BY <1>1 DEF CreatingOrder, TaskIn
  <2>2. task[p].op = "update"
    BY <1>1, <2>1, RestTaskOf
  <2> QED BY <1>2, <2>2, InTask, RestTaskOf DEF RestHowFar
<1>4. /\ DOMAIN tx[p].docs \subseteq {d} /\ (d \notin DOMAIN tx[p].docs => rows[d] = Gone /\ d \in met)
      /\ m \in Metadata /\ (m \in Stored(d) \/ (d \notin DOMAIN tx[p].docs /\ rows[m] = Gone))
      /\ d \in DOMAIN tx[p].docs => Collections!Exists(rows[d])
  BY <1>1, <1>3 DEF Updates, Wrote, Alone
<1>5. Collections!Doc(p, m) = rows[m]
  BY <1>2, <1>3, <1>4, SeesIs DEF RestAssumption, Collections!RestConstants
<1>6. /\ t \in RestTasks /\ t.id = task[p].id /\ t.op = "update" /\ t.patch = task[p].patch
      /\ t.at = "commit" /\ t.seen = task[p].seen /\ t.version = task[p].version
  BY <1>1, <1>3 DEF RestTasks, Updating, TaskIn
<1>7. Reads(t)
  BY <1>1, <1>3, <1>6 DEF Reads, Alone
<1>8. CASE Collections!Exists(rows[m])
  <2> DEFINE w == Collections!Over(new, tx[p].docs)
  <2>1. m \in Stored(d)
    BY <1>4, <1>8 DEF Collections!Exists
  <2>2. rows[m] \in Collections!VersionDocs /\ rows[m].of = d
    BY <1>4, <1>8, <2>1 DEF Stored, Collections!Exists, RestInv, RestTypeOK
  <2>3. v \in Collections!VersionDocs /\ v.of = d /\ v.version = Version[p]
    BY <2>2, VersionedIs
  <2>4. /\ DOMAIN w = DOMAIN tx[p].docs \cup {m} /\ w[m] = v
        /\ \A x \in DOMAIN tx[p].docs \ {m} : w[x] = tx[p].docs[x]
    BY DEF Collections!Over
  <2>5. d \in DOMAIN tx[p].docs => Stored(d) \subseteq {m}
    BY <1>3, <1>4, <2>1, OneStored
  <2>6. d \in DOMAIN tx[p].docs => Tagged(w, d, Version[p])
    <3> HIDE DEF v, m, d
    <3>1. DOMAIN tx[p].docs \cap Metadata = {}
      BY <1>3, <1>4
    <3> QED BY <1>4, <2>3, <2>5, <3>1, LeftOne
  <2>7. tx' = [tx EXCEPT ![p].docs = Collections!Over(new, tx[p].docs)]
    BY <1>1, <1>5, <1>8
  <2>8. \A x \in DOMAIN new : \A q \in Collections!Others(p) : x \notin DOMAIN tx[q].docs
    BY <1>1 DEF Collections!Locked
  <2> HIDE DEF w, t, v, m
  <2>9. RestWrites(t, w)
    BY <1>3, <1>4, <1>6, <2>2, <2>3, <2>4 DEF RestWrites, Wrote
  <2>10. Updates(p, t, w)
    BY <1>1, <1>3, <1>4, <1>6, <2>4, <2>6 DEF Updates, Wrote, Alone
  <2>11. RestHowFar(p, t, w)
    BY <1>6, <1>7, <2>10 DEF RestHowFar
  <2> QED BY <1>1, <1>2, <1>6, <2>7, <2>8, <2>9, <2>11, WriteStep DEF t, w
<1>9. CASE ~Collections!Exists(rows[m])
  <2>1. d \notin DOMAIN tx[p].docs
    BY <1>4, <1>9 DEF Stored
  <2>2. DOMAIN tx[p].docs = {} /\ d \in met
    BY <1>4, <2>1
  <2> HIDE DEF t
  <2>3. Updates(p, t, tx[p].docs)
    BY <1>6, <2>2 DEF Updates, Wrote, Alone
  <2>4. RestGood(p, t, tx[p])
    BY <1>3, <1>6, <1>7, <2>2, <2>3 DEF RestGood, RestWrites, Wrote, RestHowFar
  <2>5. UNCHANGED tx
    BY <1>1, <1>5, <1>9
  <2> QED BY <1>1, <1>6, <2>4, <2>5, RestTaskStep DEF t, Collections!Goto
<1> QED BY <1>8, <1>9

LEMMA PersistInsertStep ==
  ASSUME RestAssumption, RestInv, NEW p \in Procs, Collections!PersistInsert(p) PROVE RestInv'
<1> DEFINE d == task[p].id
           v == [coll |-> "meta", of |-> d, version |-> Version[p]]
           t == [task[p] EXCEPT !.at = "commit"]
<1>1. PICK m \in Metadata : Collections!CollectionInsert(p, m, v)
  BY DEF Collections!PersistInsert
<1> DEFINE new == [x \in {m} |-> v]
           w == Collections!Over(new, tx[p].docs)
<1>2. /\ task[p].op \in {"create", "update"} /\ task[p].at = "metaInsert" /\ Collections!Goto(p, "commit")
      /\ rows[m] = Unused /\ \A q \in Procs : Collections!InTx(q) => m \notin DOMAIN tx[q].docs
      /\ UNCHANGED <<rows, met, answered>>
      /\ tx' = [tx EXCEPT ![p].docs = Collections!Over(new, tx[p].docs)]
  BY <1>1 DEF Collections!PersistInsert, Collections!CollectionInsert, Collections!WriteDoc
<1>3. task[p].op # "idle"
  BY <1>2
<1>4. /\ task[p] \in CreatingOrder \cup Updating /\ d \in Documents /\ d \notin Metadata
      /\ RestWrites(task[p], tx[p].docs) /\ RestHowFar(p, task[p], tx[p].docs)
  BY <1>2, <1>3, InTask, RestTaskOf
<1>5. v \in Collections!VersionDocs /\ v.of = d /\ v.version = Version[p]
  BY <1>4 DEF Collections!VersionDocs, Collections!Versions
<1>6. /\ DOMAIN tx[p].docs \subseteq {d}
      /\ d \in DOMAIN tx[p].docs => Stored(d) = {}
      /\ d \notin DOMAIN tx[p].docs => task[p].op = "update" /\ rows[d] = Gone /\ d \in met
  <2>1. CASE task[p].op = "create"
    <3>1. Creates(p, task[p], tx[p].docs)
      BY <1>4, <2>1 DEF RestHowFar
    <3> QED BY <1>2, <1>4, <3>1, NothingStored DEF Creates, Wrote
  <2>2. CASE task[p].op = "update"
    <3>1. Updates(p, task[p], tx[p].docs)
      BY <1>4, <2>2 DEF RestHowFar
    <3> QED BY <1>2, <2>2, <3>1 DEF Updates, Wrote, Alone
  <2> QED BY <1>2, <2>1, <2>2
<1> HIDE DEF v
<1>7. /\ DOMAIN w = DOMAIN tx[p].docs \cup {m} /\ w[m] = v
      /\ \A x \in DOMAIN tx[p].docs \ {m} : w[x] = tx[p].docs[x]
  BY DEF Collections!Over
<1>8. d \in DOMAIN tx[p].docs => Tagged(w, d, Version[p])
  <2>1. DOMAIN tx[p].docs \cap Metadata = {}
    BY <1>4, <1>6
  <2> HIDE DEF d
  <2> QED BY <1>5, <1>6, <2>1, LeftOne
<1>9. /\ t \in RestTasks /\ t.id = task[p].id /\ t.op = task[p].op /\ t.patch = task[p].patch
      /\ t.at = "commit" /\ t.seen = task[p].seen /\ t.version = task[p].version
  <2>1. CASE task[p] \in CreatingOrder
    BY <1>2, <2>1 DEF RestTasks, CreatingOrder, TaskIn
  <2>2. CASE task[p] \in Updating
    BY <1>2, <2>2 DEF RestTasks, Updating, TaskIn
  <2> QED BY <1>4, <2>1, <2>2
<1> HIDE DEF t, w
<1>10. RestWrites(t, w)
  BY <1>2, <1>4, <1>5, <1>6, <1>7, <1>9 DEF RestWrites, Wrote
<1>11. RestHowFar(p, t, w)
  <2>1. CASE task[p].op = "create"
    <3>1. Creates(p, task[p], tx[p].docs) /\ task[p].seen = None
      BY <1>4, <2>1 DEF RestHowFar
    <3>2. Creates(p, t, w)
      BY <1>2, <1>4, <1>7, <1>8, <1>9, <3>1 DEF Creates, Wrote
    <3> QED BY <1>9, <2>1, <3>1, <3>2 DEF RestHowFar
  <2>2. CASE task[p].op = "update"
    <3>1. Updates(p, task[p], tx[p].docs) /\ Reads(task[p])
      BY <1>4, <2>2 DEF RestHowFar
    <3>2. Reads(t)
      BY <1>2, <1>9, <3>1 DEF Reads, Alone
    <3>3. Updates(p, t, w)
      BY <1>2, <1>4, <1>6, <1>7, <1>8, <1>9, <3>1 DEF Updates, Wrote, Alone
    <3> QED BY <1>9, <2>2, <3>2, <3>3 DEF RestHowFar
  <2> QED BY <1>2, <2>1, <2>2
<1>12. \A x \in DOMAIN new : \A q \in Collections!Others(p) : x \notin DOMAIN tx[q].docs
  BY <1>2 DEF Collections!Others
<1> QED BY <1>2, <1>3, <1>9, <1>10, <1>11, <1>12, WriteStep DEF t, w

LEMMA DeleteMetadataStep ==
  ASSUME RestAssumption, RestInv, NEW p \in Procs, Collections!DeleteMetadata(p) PROVE RestInv'
<1> DEFINE d == task[p].id
           new == [m \in Collections!MetaOf(p, d) |-> Gone]
           t == [task[p] EXCEPT !.at = "commit"]
           w == Collections!Over(new, tx[p].docs)
<1>1. /\ task[p].op = "delete" /\ task[p].at = "metaDelete" /\ Collections!Goto(p, "commit")
      /\ \A m \in Collections!MetaOf(p, d) : ~Collections!Locked(p, m)
      /\ UNCHANGED <<rows, met, answered>>
      /\ tx' = [tx EXCEPT ![p].docs = Collections!Over(new, tx[p].docs)]
  BY DEF Collections!DeleteMetadata, Collections!At
<1>2. task[p].op # "idle"
  BY <1>1
<1>3. /\ task[p] \in DeletingOrder /\ task[p].seen = None /\ d \in Documents /\ d \notin Metadata
      /\ RestWrites(task[p], tx[p].docs) /\ Deletes(task[p], tx[p].docs)
  BY <1>1, <1>2, InTask, RestTaskOf DEF RestHowFar
<1>4. DOMAIN tx[p].docs \subseteq {d} /\ (d \notin DOMAIN tx[p].docs => rows[d] = Gone /\ d \in met)
  BY <1>1, <1>3 DEF Deletes, Wrote, Alone
<1>5. Collections!MetaOf(p, d) = Stored(d) /\ \A m \in Stored(d) : m \in Metadata /\ rows[m] \in Collections!VersionDocs /\ rows[m].of = d
  BY <1>2, <1>3, <1>4, MetaOfIs DEF Stored
<1>6. /\ DOMAIN w = DOMAIN tx[p].docs \cup Stored(d)
      /\ \A x \in Stored(d) : w[x] = Gone
      /\ \A x \in DOMAIN tx[p].docs \ Stored(d) : w[x] = tx[p].docs[x]
  BY <1>5 DEF Collections!Over
<1>7. t \in RestTasks /\ t.id = task[p].id /\ t.op = "delete" /\ t.at = "commit" /\ t.seen = None
  BY <1>1, <1>3 DEF RestTasks, DeletingOrder, TaskIn
<1>8. \A x \in DOMAIN new : \A q \in Collections!Others(p) : x \notin DOMAIN tx[q].docs
  BY <1>1 DEF Collections!Locked
<1> HIDE DEF t, w, new
<1>9. RestWrites(t, w)
  BY <1>3, <1>4, <1>5, <1>6, <1>7 DEF RestWrites, Wrote
<1>10. RestHowFar(p, t, w)
  <2>1. Deletes(t, w)
    BY <1>3, <1>4, <1>5, <1>6, <1>7 DEF Deletes, Wrote, Alone
  <2> QED BY <1>7, <2>1 DEF RestHowFar
<1> QED BY <1>1, <1>2, <1>7, <1>8, <1>9, <1>10, WriteStep DEF t, w
-----------------------------------------------------------------------------
LEMMA RestCrashStep ==
  ASSUME RestInv, NEW p \in Procs, Collections!Crash(p) PROVE RestInv'
<1>1. /\ task' = [task EXCEPT ![p] = Collections!Idle] /\ tx' = [tx EXCEPT ![p] = None]
      /\ UNCHANGED <<rows, met, answered>>
  BY DEF Collections!Crash, Collections!Rollback, Collections!Rest
<1>2. Collections!Idle \in RestTasks /\ RestGood(p, Collections!Idle, None)
  BY DEF RestTasks, Collections!Idle, Collections!Task, RestGood
<1> QED BY <1>1, <1>2, RestLocalStep

LEMMA TransformThrowsStep ==
  ASSUME RestInv, NEW p \in Procs, Collections!TransformThrows(p) PROVE RestInv'
<1>1. /\ task' = [task EXCEPT ![p] = Collections!Idle] /\ tx' = [tx EXCEPT ![p] = None]
      /\ UNCHANGED <<rows, met, answered>>
  BY DEF Collections!TransformThrows, Collections!Rollback, Collections!Rest
<1>2. Collections!Idle \in RestTasks /\ RestGood(p, Collections!Idle, None)
  BY DEF RestTasks, Collections!Idle, Collections!Task, RestGood
<1> QED BY <1>1, <1>2, RestLocalStep

(* Whatever a transaction leaves of a document and its metadata, the tasks *)
(* of others stay true: those on other documents see none of it.           *)
LEMMA OthersApart ==
  ASSUME RestAssumption, RestInv, NEW p \in Procs, NEW q \in Procs \ {p}, task[p].op # "idle", task[q].op # "idle",
         rows' = Collections!Over(tx[p].docs, rows), UNCHANGED met, task'[q] = task[q], tx'[q] = tx[q],
         task[q].id # task[p].id
  PROVE  RestGood(q, task[q], tx[q])'
<1> DEFINE w == tx[p].docs
           t == task[q]
           u == tx[q].docs
           e == t.id
<1>1. /\ RestWrites(task[p], w) /\ task[p].id \in Documents /\ tx[p] # None /\ tx[q] # None
      /\ Shaped(tx[q]) /\ tx[q].about = e /\ e \in Documents /\ RestWrites(t, u) /\ RestHowFar(q, t, u)
  BY InTask
<1>2. DOMAIN w \cap DOMAIN u = {}
  BY <1>1 DEF RestInv, RestApart, RestBeside
<1>3. /\ DOMAIN rows = Docs /\ Docs = Documents \cup Metadata /\ Documents \cap Metadata = {}
      /\ \A m \in Metadata : rows[m] \in {Unused, Gone} \cup Collections!VersionDocs
      /\ ~Collections!Exists(Unused) /\ ~Collections!Exists(Gone) /\ Unused # Gone /\ \A v \in Collections!VersionDocs : Collections!Exists(v)
  BY DEF RestAssumption, Collections!RestConstants, RestInv, RestTypeOK, Collections!Exists
<1> HIDE DEF w, u
<1>4. \A x \in Docs : rows'[x] = IF x \in DOMAIN w THEN w[x] ELSE rows[x]
  BY <1>3 DEF Collections!Over, w
<1>5. rows'[e] = rows[e]
  BY <1>1, <1>3, <1>4 DEF RestWrites
<1>6. \A m \in DOMAIN w \cap Metadata :
        /\ w[m] = Gone \/ (w[m] \in Collections!VersionDocs /\ w[m].of # e)
        /\ rows[m] = Unused \/ (rows[m] \in Collections!VersionDocs /\ rows[m].of # e)
  BY <1>1 DEF RestWrites
<1>7. Stored(e)' = Stored(e)
  <2>1. ASSUME NEW m \in Metadata
        PROVE  (Collections!Exists(rows'[m]) /\ rows'[m].of = e) <=> (Collections!Exists(rows[m]) /\ rows[m].of = e)
    BY <1>3, <1>4, <1>6
  <2> QED BY <2>1 DEF Stored, Collections!Exists
<1>8. \A m \in DOMAIN u : rows'[m] = rows[m] \/ m \notin Docs
  BY <1>2, <1>4
<1>9. \A m \in Metadata :
         /\ (Collections!Exists(RestSees(u, m)') /\ RestSees(u, m)'.of = e) <=> (Collections!Exists(RestSees(u, m)) /\ RestSees(u, m).of = e)
         /\ Collections!Exists(RestSees(u, m)) /\ RestSees(u, m).of = e => RestSees(u, m)' = RestSees(u, m)
  <2>1. DOMAIN rows' = Docs
    BY <1>1, <1>3 DEF Collections!Over, w, RestWrites
  <2>2. \A m \in Metadata : RestSees(u, m) = IF m \in DOMAIN u THEN u[m] ELSE rows[m]
    BY <1>3 DEF RestSees, Collections!Over
  <2>3. \A m \in Metadata : RestSees(u, m)' = IF m \in DOMAIN u THEN u[m] ELSE rows'[m]
    BY <1>3, <2>1 DEF RestSees, Collections!Over, u
  <2> QED BY <1>3, <1>4, <1>6, <2>2, <2>3
<1>10. Tagged(tx[q].docs, task[q].id, Version[q])' <=> Tagged(u, e, Version[q])
  <2>1. Left(u, e)' = Left(u, e)
    BY <1>9 DEF Left, Collections!Exists, u
  <2>2. \A m \in Metadata : Left(u, e) = {m} => RestSees(u, m)' = RestSees(u, m)
    BY <1>9 DEF Left
  <2> QED BY <2>1, <2>2 DEF Tagged, u
<1>11. \A m \in Metadata : rows[m] = Gone => rows'[m] = Gone
  BY <1>3, <1>4, <1>6
<1>12. RestWrites(task[q], tx[q].docs)'
  BY <1>1, <1>3, <1>5, <1>8 DEF RestWrites, Wrote, u
<1>13. t.op \in {"get", "list", "update"} => Reads(t)'
  BY <1>1, <1>5 DEF RestHowFar, Reads, Alone
<1>14. t.op = "update" => Updates(q, task[q], tx[q].docs)'
  <2> SUFFICES ASSUME Updates(q, t, u) PROVE Updates(q, task[q], tx[q].docs)'
    BY <1>1 DEF RestHowFar
  <2> QED BY <1>5, <1>7, <1>10, <1>11 DEF Updates, Wrote, Alone, Collections!Exists, u
<1>15. t.op = "create" => Creates(q, task[q], tx[q].docs)'
  BY <1>1, <1>5, <1>10 DEF RestHowFar, Creates, Wrote, u
<1>16. t.op = "delete" => Deletes(task[q], tx[q].docs)'
  <2> SUFFICES ASSUME Deletes(t, u) PROVE Deletes(task[q], tx[q].docs)'
    BY <1>1 DEF RestHowFar
  <2> QED BY <1>5, <1>7 DEF Deletes, Wrote, Alone, Collections!Exists, u
<1>17. RestHowFar(q, task[q], tx[q].docs)'
  BY <1>1, <1>13, <1>14, <1>15, <1>16 DEF RestHowFar, u
<1> QED BY <1>1, <1>12, <1>17 DEF RestGood, Shaped

(* Of two on one document, which have met, one at most has written it.     *)
LEMMA OthersMet ==
  ASSUME RestAssumption, RestInv, NEW p \in Procs, NEW q \in Procs \ {p}, task[p].op # "idle", task[q].op # "idle",
         rows' = Collections!Over(tx[p].docs, rows), UNCHANGED met, task'[q] = task[q], tx'[q] = tx[q],
         task[q].id = task[p].id
  PROVE  RestGood(q, task[q], tx[q])'
<1> DEFINE w == tx[p].docs
           t == task[q]
           u == tx[q].docs
           d == t.id
<1>1. /\ RestWrites(task[p], w) /\ d \in Documents /\ tx[p] # None /\ tx[q] # None
      /\ Shaped(tx[q]) /\ tx[q].about = d /\ RestWrites(t, u) /\ RestHowFar(q, t, u)
      /\ tx[p].about = d
  BY InTask
<1>2. DOMAIN w \cap DOMAIN u = {} /\ d \in met
  BY <1>1 DEF RestInv, RestApart, RestBeside
<1>3. /\ DOMAIN rows = Docs /\ Docs = Documents \cup Metadata /\ Documents \cap Metadata = {}
      /\ \A m \in Metadata : rows[m] \in {Unused, Gone} \cup Collections!VersionDocs
      /\ ~Collections!Exists(Unused) /\ ~Collections!Exists(Gone) /\ Unused # Gone
      /\ \A doc \in Collections!OrderDocs \cup Collections!VersionDocs : Collections!Exists(doc)
  BY DEF RestAssumption, Collections!RestConstants, RestInv, RestTypeOK, Collections!Exists
<1>4. rows'[d] = RestSees(w, d) /\ RestSees(w, d) \in {Unused, Gone} \cup Collections!OrderDocs
  BY <1>1, SeesIs DEF RestSees
<1> HIDE DEF w, u
<1>5. \A x \in Docs : rows'[x] = IF x \in DOMAIN w THEN w[x] ELSE rows[x]
  BY <1>3 DEF Collections!Over, w
<1>6. CASE d \in DOMAIN w
  <2>1. rows[d] # Gone /\ DOMAIN u = {}
    BY <1>1, <1>2, <1>6 DEF RestWrites, Wrote
  <2>2. rows'[d] # Unused
    <3>1. rows'[d] = w[d]
      BY <1>1, <1>3, <1>5, <1>6
    <3>2. w[d] # Unused
      <4>1. CASE task[p].op = "update"
        BY <1>1, <1>3, <1>6, <4>1, InTask DEF RestHowFar, Updates, Wrote, w
      <4>2. CASE task[p].op = "create"
        BY <1>1, <1>3, <1>6, <4>2, InTask DEF RestHowFar, Creates, Wrote, w
      <4>3. CASE task[p].op = "delete"
        BY <1>1, <1>3, <1>6, <4>3, InTask DEF RestHowFar, Deletes, w
      <4>4. CASE task[p].op \in {"get", "list"}
        BY <1>1, <1>6, <4>4, InTask DEF RestHowFar, w
      <4> QED BY <4>1, <4>2, <4>3, <4>4, InTask DEF Finding, CreatingOrder, Updating, DeletingOrder, TaskIn
    <3> QED BY <3>1, <3>2
  <2>3. RestWrites(task[q], tx[q].docs)'
    BY <2>1 DEF RestWrites, Wrote, u
  <2>4. t.op \in {"get", "list", "update"} => Reads(t)'
    BY <1>1, <1>2, <2>2 DEF RestHowFar, Reads, Alone
  <2>5. t.op = "update" => Updates(q, task[q], tx[q].docs)'
    <3> SUFFICES ASSUME Updates(q, t, u) PROVE Updates(q, task[q], tx[q].docs)'
      BY <1>1 DEF RestHowFar
    <3> QED BY <1>2, <2>1 DEF Updates, Wrote, Alone, u
  <2>6. t.op = "create" => Creates(q, task[q], tx[q].docs)'
    <3> SUFFICES ASSUME Creates(q, t, u) PROVE Creates(q, task[q], tx[q].docs)'
      BY <1>1 DEF RestHowFar
    <3>1. t.at = "insert"
      BY <2>1 DEF Creates, Wrote
    <3> QED BY <2>1, <3>1 DEF Creates, u
  <2>7. t.op = "delete" => Deletes(task[q], tx[q].docs)'
    <3> SUFFICES ASSUME Deletes(t, u) PROVE Deletes(task[q], tx[q].docs)'
      BY <1>1 DEF RestHowFar
    <3> QED BY <1>2, <2>1, <2>2 DEF Deletes, Wrote, Alone, u
  <2>8. RestHowFar(q, task[q], tx[q].docs)'
    BY <1>1, <2>4, <2>5, <2>6, <2>7 DEF RestHowFar, u
  <2> QED BY <1>1, <2>3, <2>8 DEF RestGood, Shaped
<1>7. CASE d \notin DOMAIN w /\ DOMAIN w # {}
  <2>1. rows[d] = Gone /\ rows'[d] = Gone
    BY <1>1, <1>3, <1>5, <1>7 DEF RestWrites, Wrote
  <2>2. d \notin DOMAIN u
    BY <1>1, <2>1 DEF RestWrites, Wrote
  <2>3. \A m \in DOMAIN w \cap Metadata : w[m] = Gone \/ (w[m] \in Collections!VersionDocs /\ w[m].of = d)
    BY <1>1 DEF RestWrites
  <2>4. RestWrites(task[q], tx[q].docs)'
    <3>1. \A m \in DOMAIN u \cap Metadata : rows'[m] = rows[m]
      BY <1>2, <1>3, <1>5
    <3> QED BY <1>1, <2>1, <2>2, <3>1 DEF RestWrites, Wrote, u
  <2>5. t.op \in {"get", "list", "update"} => Reads(t)'
    BY <1>1, <1>2, <1>3, <2>1 DEF RestHowFar, Reads, Alone
  <2>6. t.op = "update" => Updates(q, task[q], tx[q].docs)'
    <3> SUFFICES ASSUME Updates(q, t, u) PROVE Updates(q, task[q], tx[q].docs)'
      BY <1>1 DEF RestHowFar
    <3>1. t.at = "metaUpdate" => t.meta \in Metadata /\ (t.meta \in Stored(d)' \/ rows'[t.meta] = Gone)
      <4> SUFFICES ASSUME t.at = "metaUpdate" PROVE t.meta \in Metadata /\ (t.meta \in Stored(d)' \/ rows'[t.meta] = Gone)
        OBVIOUS
      <4>1. t.meta \in Metadata /\ (t.meta \in Stored(d) \/ rows[t.meta] = Gone)
        BY DEF Updates
      <4>2. rows'[t.meta] = IF t.meta \in DOMAIN w THEN w[t.meta] ELSE rows[t.meta]
        BY <1>3, <1>5, <4>1
      <4>3. t.meta \in Stored(d)' <=> rows'[t.meta] \notin {Unused, Gone} /\ rows'[t.meta].of = d
        BY <4>1 DEF Stored, Collections!Exists
      <4> QED BY <1>3, <2>3, <4>1, <4>2, <4>3 DEF Stored, Collections!Exists
    <3> QED BY <1>2, <2>1, <2>2, <3>1 DEF Updates, Wrote, Alone, u
  <2>7. t.op = "create" => Creates(q, task[q], tx[q].docs)'
    <3> SUFFICES ASSUME Creates(q, t, u) PROVE Creates(q, task[q], tx[q].docs)'
      BY <1>1 DEF RestHowFar
    <3>1. t.at = "insert" /\ DOMAIN u = {}
      BY <2>2 DEF Creates, Wrote
    <3> QED BY <3>1 DEF Creates, u
  <2>8. t.op = "delete" => Deletes(task[q], tx[q].docs)'
    <3> SUFFICES ASSUME Deletes(t, u) PROVE Deletes(task[q], tx[q].docs)'
      BY <1>1 DEF RestHowFar
    <3> QED BY <1>2, <1>3, <2>1, <2>2 DEF Deletes, Wrote, Alone, u
  <2>9. RestHowFar(q, task[q], tx[q].docs)'
    BY <1>1, <2>5, <2>6, <2>7, <2>8 DEF RestHowFar, u
  <2> QED BY <1>1, <2>4, <2>9 DEF RestGood, Shaped
<1>8. CASE DOMAIN w = {}
  <2>1. rows' = rows
    <3>1. rows = [x \in Docs |-> rows[x]]
      BY DEF RestInv, RestTypeOK
    <3> QED BY <1>3, <1>8, <3>1 DEF Collections!Over, w
  <2> QED BY <2>1, RestTaskOf, RestGoodStays
<1> QED BY <1>6, <1>7, <1>8

(* What a transaction that commits has done. *)
LEMMA CommitIs ==
  ASSUME RestAssumption, RestInv, NEW p \in Procs, task[p].op # "idle", task[p].at = "commit"
  PROVE  LET t == task[p]  w == tx[p].docs  d == t.id
         IN /\ d \notin DOMAIN w /\ DOMAIN w # {} => rows[d] = Gone
            /\ \A m \in DOMAIN w \cap Metadata : w[m] = Gone \/ (w[m] \in Collections!VersionDocs /\ w[m].of = d)
            /\ \A m \in DOMAIN w \cap Metadata : rows[m] = Unused \/ (rows[m] \in Collections!VersionDocs /\ rows[m].of = d)
            /\ DOMAIN w \subseteq {d} \cup Metadata
            /\ d \in DOMAIN w =>
                 \/ /\ w[d] = Gone /\ t.op = "delete" /\ Stored(d) \subseteq DOMAIN w
                    /\ \A x \in DOMAIN w : w[x] = Gone
                 \/ /\ w[d] \in Collections!OrderDocs /\ w[d].by = p /\ Tagged(w, d, Version[p])
                    /\ t.op \in {"create", "update"}
            /\ d \notin met /\ d \notin DOMAIN w => DOMAIN w = {}
            /\ d \notin met /\ t.op \in {"update", "delete"} /\ d \notin DOMAIN w => ~Collections!Exists(rows[d])
            /\ d \notin met /\ t.op = "update" /\ d \in DOMAIN w =>
                 Collections!Exists(rows[d]) /\ w[d] = Collections!Merge(rows[d], Collections!Written(p, t.patch))
            /\ t.op = "create" => d \in DOMAIN w
            /\ t.op \in {"get", "list"} => DOMAIN w = {}
<1> DEFINE t == task[p]
           w == tx[p].docs
           d == t.id
<1>1. RestWrites(t, w) /\ RestHowFar(p, t, w) /\ t \in Finding \cup CreatingOrder \cup Updating \cup DeletingOrder
  BY InTask
<1>2. /\ d \notin DOMAIN w /\ DOMAIN w # {} => rows[d] = Gone
      /\ \A m \in DOMAIN w \cap Metadata : w[m] = Gone \/ (w[m] \in Collections!VersionDocs /\ w[m].of = d)
      /\ \A m \in DOMAIN w \cap Metadata : rows[m] = Unused \/ (rows[m] \in Collections!VersionDocs /\ rows[m].of = d)
      /\ DOMAIN w \subseteq {d} \cup Metadata
  BY <1>1 DEF RestWrites, Wrote
<1>3. CASE t.op \in {"get", "list"}
  BY <1>1, <1>2, <1>3 DEF RestHowFar
<1>4. CASE t.op = "create"
  BY <1>1, <1>2, <1>4 DEF RestHowFar, Creates, Wrote
<1>5. CASE t.op = "update"
  BY <1>1, <1>2, <1>5 DEF RestHowFar, Updates, Wrote, Alone
<1>6. CASE t.op = "delete"
  BY <1>1, <1>2, <1>6 DEF RestHowFar, Deletes, Wrote, Alone
<1> QED BY <1>1, <1>3, <1>4, <1>5, <1>6 DEF Finding, CreatingOrder, Updating, DeletingOrder, TaskIn

(* What is stored then, of its document and of others. *)
LEMMA RowsAfter ==
  ASSUME RestAssumption, RestInv, NEW p \in Procs, task[p].op # "idle", task[p].at = "commit",
         rows' = Collections!Over(tx[p].docs, rows), NEW d, d = task[p].id
  PROVE  LET w == tx[p].docs
         IN /\ DOMAIN rows' = Docs /\ rows' = [x \in Docs |-> rows'[x]]
            /\ \A x \in Docs : rows'[x] = IF x \in DOMAIN w THEN w[x] ELSE rows[x]
            /\ \A x \in Documents : rows'[x] \in {Unused, Gone} \cup Collections!OrderDocs
            /\ \A m \in Metadata : rows'[m] \in {Unused, Gone} \cup Collections!VersionDocs
            /\ \A e \in Documents \ {d} : rows'[e] = rows[e] /\ Stored(e)' = Stored(e)
            /\ Stored(d)' = Left(w, d)
            /\ \A m \in Metadata : rows'[m] = RestSees(w, m)
<1> DEFINE w == tx[p].docs
<1>1. /\ DOMAIN rows = Docs /\ Docs = Documents \cup Metadata /\ Documents \cap Metadata = {} /\ d \in Documents
      /\ \A v \in Collections!VersionDocs : Collections!Exists(v)
  BY InTask DEF RestAssumption, Collections!RestConstants, RestInv, RestTypeOK
<1>2. /\ DOMAIN w \subseteq {d} \cup Metadata
      /\ \A m \in DOMAIN w \cap Metadata : w[m] = Gone \/ (w[m] \in Collections!VersionDocs /\ w[m].of = d)
      /\ \A m \in DOMAIN w \cap Metadata : rows[m] = Unused \/ (rows[m] \in Collections!VersionDocs /\ rows[m].of = d)
  BY CommitIs
<1>3. \A x \in Docs : rows'[x] = RestSees(w, x)
  BY DEF RestSees
<1>4. /\ \A x \in Documents : rows'[x] \in {Unused, Gone} \cup Collections!OrderDocs
      /\ \A m \in Metadata : rows'[m] \in {Unused, Gone} \cup Collections!VersionDocs
  BY <1>1, <1>3, SeesIs
<1> HIDE DEF w
<1>5. /\ DOMAIN rows' = Docs /\ rows' = [x \in Docs |-> rows'[x]]
      /\ \A x \in Docs : rows'[x] = IF x \in DOMAIN w THEN w[x] ELSE rows[x]
  BY <1>1, <1>2 DEF Collections!Over, w
<1>6. ASSUME NEW e \in Documents \ {d} PROVE rows'[e] = rows[e] /\ Stored(e)' = Stored(e)
  <2>1. rows'[e] = rows[e]
    BY <1>1, <1>2, <1>5
  <2>2. ASSUME NEW m \in Metadata
        PROVE  (Collections!Exists(rows'[m]) /\ rows'[m].of = e) <=> (Collections!Exists(rows[m]) /\ rows[m].of = e)
    <3>1. CASE m \in DOMAIN w
      BY <1>1, <1>2, <1>5, <3>1 DEF Collections!Exists
    <3>2. CASE m \notin DOMAIN w
      BY <1>1, <1>5, <3>2
    <3> QED BY <3>1, <3>2
  <2> QED BY <2>1, <2>2 DEF Stored, Collections!Exists
<1>7. Stored(d)' = Left(w, d)
  <2>1. Stored(d)' = {m \in Metadata : Collections!Exists(rows'[m]) /\ rows'[m].of = d}
    BY DEF Stored, Collections!Exists
  <2>2. Left(w, d) = {m \in Metadata : Collections!Exists(RestSees(w, m)) /\ RestSees(w, m).of = d}
    BY DEF Left
  <2> QED BY <1>1, <1>3, <2>1, <2>2
<1> QED BY <1>1, <1>3, <1>4, <1>5, <1>6, <1>7 DEF w

(* The content of an updated document is what the update says, over what   *)
(* was there.                                                              *)
LEMMA ContentIs ==
  ASSUME NEW p \in Procs, NEW doc \in Collections!OrderDocs, NEW patch \in Collections!Patches
  PROVE  LET input == Collections!Written(p, patch)
         IN Collections!Content(Collections!Merge(doc, input)) = Collections!Over(input, Collections!Content(doc))
<1> DEFINE input == Collections!Written(p, patch)
           new == Collections!Over(input, doc)
           old == Collections!Content(doc)
<1>1. "coll" \notin DOMAIN input
  <2>1. "coll" \notin DOMAIN patch
    BY DEF Collections!Patches
  <2>2. input = [x \in DOMAIN patch \cup {"by"} \cup (IF p \in Rewriters THEN {"format"} ELSE {}) |->
                  IF x = "by" THEN p ELSE IF p \in Rewriters /\ x = "format" THEN Version[p] ELSE patch[x]]
    BY WrittenIs
  <2> HIDE DEF input
  <2> QED BY <2>1, <2>2
<1> HIDE DEF input
<1>2. /\ DOMAIN new = DOMAIN input \cup DOMAIN doc
      /\ \A x \in DOMAIN new : new[x] = IF x \in DOMAIN input THEN input[x] ELSE doc[x]
  BY DEF Collections!Over
<1>3. DOMAIN old = DOMAIN doc \ {"coll"} /\ \A x \in DOMAIN old : old[x] = doc[x]
  BY DEF Collections!Content
<1>4. Collections!Content(new) = [x \in DOMAIN new \ {"coll"} |-> new[x]]
  BY DEF Collections!Content
<1>5. Collections!Over(input, old) = [x \in DOMAIN input \cup DOMAIN old |-> IF x \in DOMAIN input THEN input[x] ELSE old[x]]
  BY DEF Collections!Over
<1> HIDE DEF new, old
<1>6. DOMAIN new \ {"coll"} = DOMAIN input \cup DOMAIN old
  BY <1>1, <1>2, <1>3
<1>7. Collections!Content(new) = Collections!Over(input, old)
  BY <1>1, <1>2, <1>3, <1>4, <1>5, <1>6
<1> QED BY <1>7 DEF new, old, input, Collections!Merge

LEMMA AnswerStep ==
  ASSUME RestAssumption, RestInv, NEW p \in Procs, Collections!Answer(p) PROVE RestInv'
<1> DEFINE t == task[p]
           w == tx[p].docs
           d == t.id
           answer ==
             CASE t.op = "create" -> Collections!Content(Collections!Doc(p, d))
               [] t.op = "update" /\ answered[d] # None -> Collections!Over(Collections!Written(p, t.patch), answered[d])
               [] t.op = "delete" -> None
               [] OTHER -> answered[d]
<1>1. /\ t.op # "idle" /\ t.at = "commit" /\ UNCHANGED met
      /\ task' = [task EXCEPT ![p] = Collections!Idle] /\ tx' = [tx EXCEPT ![p] = None]
      /\ rows' = Collections!Over(w, rows) /\ answered' = [answered EXCEPT ![d] = answer]
  <2>1. t # Collections!Idle /\ t.at = "commit" /\ Collections!Commit(p) /\ Collections!Rest(p) /\ answered' = [answered EXCEPT ![d] = answer]
    BY DEF Collections!Answer
  <2> QED BY <2>1, RestTaskOf DEF Collections!Commit, Collections!Rest
<1>2. d \in Documents /\ t \in Finding \cup CreatingOrder \cup Updating \cup DeletingOrder
  BY <1>1, InTask
<1>3. /\ d \notin DOMAIN w /\ DOMAIN w # {} => rows[d] = Gone
      /\ \A m \in DOMAIN w \cap Metadata : w[m] = Gone \/ (w[m] \in Collections!VersionDocs /\ w[m].of = d)
      /\ DOMAIN w \subseteq {d} \cup Metadata
      /\ d \in DOMAIN w =>
           \/ /\ w[d] = Gone /\ t.op = "delete" /\ Stored(d) \subseteq DOMAIN w
              /\ \A x \in DOMAIN w : w[x] = Gone
           \/ /\ w[d] \in Collections!OrderDocs /\ w[d].by = p /\ Tagged(w, d, Version[p])
              /\ t.op \in {"create", "update"}
      /\ d \notin met /\ d \notin DOMAIN w => DOMAIN w = {}
      /\ d \notin met /\ t.op \in {"update", "delete"} /\ d \notin DOMAIN w => ~Collections!Exists(rows[d])
      /\ d \notin met /\ t.op = "update" /\ d \in DOMAIN w =>
           Collections!Exists(rows[d]) /\ w[d] = Collections!Merge(rows[d], Collections!Written(p, t.patch))
      /\ t.op = "create" => d \in DOMAIN w
      /\ t.op \in {"get", "list"} => DOMAIN w = {}
  BY <1>1, CommitIs
<1>4. /\ DOMAIN rows' = Docs /\ rows' = [x \in Docs |-> rows'[x]]
      /\ \A x \in Docs : rows'[x] = IF x \in DOMAIN w THEN w[x] ELSE rows[x]
      /\ \A x \in Documents : rows'[x] \in {Unused, Gone} \cup Collections!OrderDocs
      /\ \A m \in Metadata : rows'[m] \in {Unused, Gone} \cup Collections!VersionDocs
      /\ \A e \in Documents : e # d => rows'[e] = rows[e] /\ Stored(e)' = Stored(e)
      /\ \A e \in Documents : e = d => Stored(e)' = Left(w, e)
      /\ \A m \in Metadata : rows'[m] = RestSees(w, m)
  BY <1>1, <1>2, RowsAfter
<1>5. /\ Docs = Documents \cup Metadata /\ Documents \cap Metadata = {} /\ Unused # Gone
      /\ ~Collections!Exists(Unused) /\ ~Collections!Exists(Gone) /\ \A doc \in Collections!OrderDocs \cup Collections!VersionDocs : Collections!Exists(doc)
      /\ \A doc \in Collections!OrderDocs : Collections!Content(doc) # None
      /\ \A e \in Documents : rows[e] \in {Unused, Gone} \cup Collections!OrderDocs
      /\ \A m \in Metadata : rows[m] \in {Unused, Gone} \cup Collections!VersionDocs
  BY DEF RestAssumption, Collections!RestConstants, RestInv, RestTypeOK, Collections!Exists
<1>6. task'[p] = Collections!Idle /\ tx'[p] = None /\ \A q \in Procs \ {p} : task'[q] = task[q] /\ tx'[q] = tx[q]
  BY <1>1 DEF RestInv, RestTypeOK
<1>7. RestTypeOK'
  <2>1. Collections!Idle \in RestTasks
    BY DEF RestTasks
  <2>2. task' \in [Procs -> RestTasks] /\ DOMAIN tx' = Procs /\ tx' = [q \in Procs |-> tx'[q]]
    BY <1>1, <2>1 DEF RestInv, RestTypeOK
  <2>3. DOMAIN answered' = Documents /\ answered' = [e \in Documents |-> answered'[e]]
    <3> HIDE DEF answer, d
    <3> QED BY <1>1 DEF RestInv, RestTypeOK
  <2> QED BY <1>4, <2>2, <2>3 DEF RestTypeOK
<1>8. RestTasked'
  <2> SUFFICES ASSUME NEW q \in Procs PROVE RestGood(q, task[q], tx[q])'
    BY DEF RestTasked
  <2>1. CASE q = p
    BY <1>6, <2>1 DEF RestGood, Collections!Idle, Collections!Task
  <2>2. CASE q # p /\ task[q].op = "idle"
    BY <1>6, <2>2, RestTaskOf DEF RestGood
  <2>3. CASE q # p /\ task[q].op # "idle"
    BY <1>1, <1>6, <2>3, OthersApart, OthersMet
  <2> QED BY <2>1, <2>2, <2>3
<1>9. RestApart'
  <2> SUFFICES ASSUME NEW q \in Procs, NEW r \in Procs, q # r PROVE RestBeside(tx[q], tx[r])'
    BY DEF RestApart
  <2>1. CASE q # p /\ r # p
    <3>1. RestBeside(tx[q], tx[r])
      BY DEF RestInv, RestApart
    <3> QED BY <1>1, <1>6, <2>1, <3>1 DEF RestBeside
  <2>2. CASE q = p \/ r = p
    BY <1>6, <2>2 DEF RestBeside
  <2> QED BY <2>1, <2>2
<1> HIDE DEF w, answer
<1>10. Pairs'
  <2> SUFFICES ASSUME NEW e \in Documents, Collections!Exists(rows'[e])
               PROVE  \/ \E m \in Metadata : Stored(e)' = {m} /\ rows'[m].version = Collections!Told(rows'[e])
                      \/ Stored(e)' = {} /\ e \in Legacy /\ Collections!Told(rows'[e]) = Collections!LegacyVersion
    BY DEF Pairs, Paired, Collections!Exists, Collections!Told
  <2>1. CASE e # d \/ d \notin DOMAIN w
    <3>1. rows'[e] = rows[e]
      BY <1>2, <1>4, <1>5, <2>1
    <3>2. e = d => DOMAIN w = {}
      BY <1>3, <1>5, <2>1, <3>1
    <3>3. Stored(e)' = Stored(e)
      <4>1. CASE e # d
        BY <1>4, <4>1
      <4>2. CASE e = d
        <5>1. \A m \in Metadata : rows'[m] = rows[m]
          BY <1>4, <1>5, <3>2, <4>2
        <5> QED BY <5>1 DEF Stored, Collections!Exists
      <4> QED BY <4>1, <4>2
    <3>4. \A m \in Stored(e) : rows'[m] = rows[m]
      <4> SUFFICES ASSUME NEW m \in Stored(e) PROVE rows'[m] = rows[m]
        OBVIOUS
      <4>1. m \in Metadata /\ Collections!Exists(rows'[m]) /\ rows'[m].of = e
        BY <3>3 DEF Stored, Collections!Exists
      <4>2. m \in DOMAIN w => e = d
        BY <1>3, <1>4, <1>5, <4>1
      <4> QED BY <1>4, <1>5, <3>2, <4>1, <4>2
    <3>5. Paired(e)
      BY DEF RestInv, Pairs
    <3> QED BY <3>1, <3>3, <3>4, <3>5 DEF Paired
  <2>2. CASE e = d /\ d \in DOMAIN w
    <3>1. rows'[e] = w[d]
      BY <1>2, <1>4, <1>5, <2>2
    <3>2. Collections!Told(w[d]) = Version[p] /\ Tagged(w, d, Version[p])
      BY <1>3, <1>5, <2>2, <3>1 DEF Collections!Told, RestAssumption, Collections!RestConstants
    <3>3. PICK m \in Metadata : Left(w, d) = {m} /\ RestSees(w, m).version = Version[p]
      BY <3>2 DEF Tagged
    <3> QED BY <1>4, <2>2, <3>1, <3>2, <3>3
  <2> QED BY <2>1, <2>2
<1>11. Owners'
  <2> SUFFICES ASSUME NEW m \in Metadata, Collections!Exists(rows'[m])
               PROVE  LET e == rows'[m].of IN rows'[e] # Unused /\ (e \notin met => Collections!Exists(rows'[e]))
    BY <1>1 DEF Owners, Owned, Collections!Exists
  <2>1. rows'[m] \in Collections!VersionDocs
    BY <1>4 DEF Collections!Exists
  <2>2. PICK e \in Documents : e = rows'[m].of
    BY <2>1 DEF Collections!VersionDocs
  <2>3. CASE m \in DOMAIN w
    <3>1. rows'[m] = w[m] /\ e = d
      BY <1>3, <1>4, <1>5, <2>2, <2>3
    <3>2. CASE d \in DOMAIN w
      <4>1. rows'[d] = w[d] /\ w[m] # Gone
        BY <1>2, <1>4, <1>5, <3>1, <3>2
      <4> QED BY <1>3, <1>5, <2>2, <2>3, <3>1, <3>2, <4>1
    <3>3. CASE d \notin DOMAIN w
      <4>1. rows'[d] = rows[d]
        BY <1>2, <1>4, <1>5, <3>3
      <4> QED BY <1>3, <1>5, <2>2, <2>3, <3>1, <3>3, <4>1
    <3> QED BY <3>2, <3>3
  <2>4. CASE m \notin DOMAIN w
    <3>1. rows'[m] = rows[m]
      BY <1>4, <1>5, <2>4
    <3>2. rows[e] # Unused /\ (e \notin met => Collections!Exists(rows[e])) /\ m \in Stored(e)
      BY <2>2, <3>1 DEF RestInv, Owners, Owned, Stored
    <3>3. CASE e # d
      BY <1>4, <2>2, <3>2, <3>3
    <3>4. CASE e = d /\ d \in DOMAIN w
      <4>1. rows'[d] = w[d]
        BY <1>2, <1>4, <1>5, <3>4
      <4> QED BY <1>3, <1>5, <2>2, <2>4, <3>2, <3>4, <4>1
    <3>5. CASE e = d /\ d \notin DOMAIN w
      <4>1. rows'[d] = rows[d]
        BY <1>2, <1>4, <1>5, <3>5
      <4> QED BY <2>2, <3>2, <3>5, <4>1
    <3> QED BY <3>3, <3>4, <3>5
  <2> QED BY <2>3, <2>4
<1>12. Collections!UpdatesKept'
  <2> SUFFICES ASSUME NEW e \in Documents, e \notin met
               PROVE  answered'[e] = IF Collections!Exists(rows'[e]) THEN Collections!Content(rows'[e]) ELSE None
    BY <1>1 DEF Collections!UpdatesKept, Collections!Exists, Collections!Content
  <2>1. answered[e] = IF Collections!Exists(rows[e]) THEN Collections!Content(rows[e]) ELSE None
    BY DEF RestInv, Collections!UpdatesKept
  <2>2. CASE e # d
    BY <1>1, <1>4, <2>1, <2>2 DEF RestInv, RestTypeOK
  <2>3. CASE e = d
    <3>1. answered'[d] = answer
      BY <1>1, <1>2 DEF RestInv, RestTypeOK
    <3>2. rows'[d] = IF d \in DOMAIN w THEN w[d] ELSE rows[d]
      BY <1>2, <1>4, <1>5
    <3>3. CASE t.op \in {"get", "list"}
      BY <1>3, <2>1, <2>3, <3>1, <3>2, <3>3 DEF answer
    <3>4. CASE t.op = "create"
      <4>1. d \in DOMAIN w /\ w[d] \in Collections!OrderDocs
        BY <1>3, <3>4
      <4>2. answer = Collections!Content(Collections!Doc(p, d))
        BY <3>4 DEF answer
      <4>3. Collections!Doc(p, d) = w[d]
        <5>1. Collections!Doc(p, d) = Collections!Over(w, rows)[d]
          BY DEF Collections!Doc, w
        <5> QED BY <4>1, <5>1 DEF Collections!Over
      <4> QED BY <1>5, <2>3, <3>1, <3>2, <4>1, <4>2, <4>3
    <3>5. CASE t.op = "update"
      <4>1. answer = IF answered[d] # None THEN Collections!Over(Collections!Written(p, t.patch), answered[d]) ELSE answered[d]
        BY <3>5 DEF answer
      <4>2. CASE d \in DOMAIN w
        <5>1. w[d] = Collections!Merge(rows[d], Collections!Written(p, t.patch)) /\ w[d] \in Collections!OrderDocs /\ Collections!Exists(rows[d])
          BY <1>3, <2>3, <3>5, <4>2
        <5>2. rows[d] \in Collections!OrderDocs
          BY <1>2, <1>5, <5>1
        <5>3. t.patch \in Collections!Patches
          BY <3>5, RestTaskOf DEF Updating, TaskIn
        <5>4. Collections!Content(w[d]) = Collections!Over(Collections!Written(p, t.patch), Collections!Content(rows[d]))
          BY <5>1, <5>2, <5>3, ContentIs
        <5>5. answered[d] = Collections!Content(rows[d]) /\ answered[d] # None
          BY <1>5, <2>1, <2>3, <5>1, <5>2
        <5> QED BY <1>5, <2>3, <3>1, <3>2, <4>1, <4>2, <5>1, <5>4, <5>5
      <4>3. CASE d \notin DOMAIN w
        <5>1. ~Collections!Exists(rows[d])
          BY <1>3, <2>3, <3>5, <4>3
        <5> QED BY <2>1, <2>3, <3>1, <3>2, <4>1, <4>3, <5>1
      <4> QED BY <4>2, <4>3
    <3>6. CASE t.op = "delete"
      <4>1. answer = None
        BY <3>6 DEF answer
      <4>2. ~Collections!Exists(rows'[d])
        BY <1>3, <1>5, <2>3, <3>2, <3>6
      <4> QED BY <2>3, <3>1, <4>1, <4>2
    <3> QED BY <1>2, <3>3, <3>4, <3>5, <3>6 DEF Finding, CreatingOrder, Updating, DeletingOrder, TaskIn
  <2> QED BY <2>2, <2>3
<1> QED BY <1>7, <1>8, <1>9, <1>10, <1>11, <1>12 DEF RestInv
-----------------------------------------------------------------------------
LEMMA RestInit == ASSUME RestAssumption, Collections!Init PROVE RestInv
<1>1. /\ rows = [d \in Docs |-> IF d \in Legacy THEN Collections!LegacyDocument ELSE Unused]
      /\ tx = [p \in Procs |-> None] /\ met = {} /\ task = [p \in Procs |-> Collections!Idle]
      /\ answered = [d \in Documents |-> IF d \in Legacy THEN Collections!Content(Collections!LegacyDocument) ELSE None]
  BY DEF Collections!Init, Collections!StoreInit
<1>2. /\ Docs = Documents \cup Metadata /\ Documents \cap Metadata = {} /\ Legacy \subseteq Documents
      /\ ~Collections!Exists(Unused) /\ \A doc \in Collections!OrderDocs : Collections!Exists(doc)
  BY DEF RestAssumption, Collections!RestConstants, Collections!Exists
<1>3. Collections!LegacyDocument \in Collections!OrderDocs /\ Collections!Told(Collections!LegacyDocument) = Collections!LegacyVersion
  BY DEF Collections!LegacyDocument, Collections!OrderDocs, Collections!Versions, Collections!Told
<1> HIDE DEF Collections!LegacyDocument
<1>4. RestTypeOK
  BY <1>1, <1>2, <1>3 DEF RestTypeOK, RestTasks
<1>5. RestTasked
  BY <1>1 DEF RestTasked, RestGood, Collections!Idle, Collections!Task
<1>6. RestApart
  BY <1>1 DEF RestApart, RestBeside
<1>7. \A d \in Documents : Stored(d) = {}
  BY <1>1, <1>2 DEF Stored
<1>8. Pairs
  BY <1>1, <1>2, <1>3, <1>7 DEF Pairs, Paired
<1>9. Owners
  BY <1>1, <1>2 DEF Owners, Owned
<1>10. Collections!UpdatesKept
  BY <1>1, <1>2, <1>3 DEF Collections!UpdatesKept
<1> QED BY <1>4, <1>5, <1>6, <1>8, <1>9, <1>10 DEF RestInv

LEMMA RestNext == ASSUME RestAssumption, RestInv, [Collections!Next]_(Collections!vars) PROVE RestInv'
<1>1. CASE UNCHANGED Collections!vars
  <2>1. UNCHANGED <<rows, tx, met, task, answered>>
    BY <1>1 DEF Collections!vars, Collections!restVars, Collections!storeVars
  <2>2. RestTypeOK'
    BY <2>1 DEF RestInv, RestTypeOK
  <2>3. RestTasked'
    <3> SUFFICES ASSUME NEW q \in Procs PROVE RestGood(q, task[q], tx[q])'
      BY DEF RestTasked
    <3> QED BY <2>1, RestTaskOf, RestGoodStays
  <2>4. RestApart'
    BY <2>1 DEF RestInv, RestApart, RestBeside
  <2>5. Pairs'
    BY <2>1 DEF RestInv, Pairs, Paired, Stored, Collections!Exists
  <2>6. Owners'
    BY <2>1 DEF RestInv, Owners, Owned, Collections!Exists
  <2>7. Collections!UpdatesKept'
    BY <2>1 DEF RestInv, Collections!UpdatesKept, Collections!Exists
  <2> QED BY <2>2, <2>3, <2>4, <2>5, <2>6, <2>7 DEF RestInv
<1>2. ASSUME NEW p \in Procs, Collections!Requests(p) \/ Collections!Answer(p) \/ Collections!TransformThrows(p) \/ Collections!Crash(p) PROVE RestInv'
  BY <1>2, RequestsStep, AnswerStep, TransformThrowsStep, RestCrashStep
<1>3. ASSUME NEW p \in Procs, Collections!Find(p) \/ Collections!Resolve(p) \/ Collections!ReadBack(p) \/ Collections!FindDeleted(p) \/ Collections!PersistFind(p) PROVE RestInv'
  BY <1>3, FindStep, ResolveStep, ReadBackStep, FindDeletedStep, PersistFindStep
<1>4. ASSUME NEW p \in Procs, Collections!Update(p) \/ Collections!Create(p) \/ Collections!Delete(p) PROVE RestInv'
  BY <1>4, UpdateStep, CreateStep, DeleteStep
<1>5. ASSUME NEW p \in Procs, Collections!PersistUpdate(p) \/ Collections!PersistInsert(p) \/ Collections!DeleteMetadata(p) PROVE RestInv'
  BY <1>5, PersistUpdateStep, PersistInsertStep, DeleteMetadataStep
<1> QED BY <1>1, <1>2, <1>3, <1>4, <1>5 DEF Collections!Next

LEMMA RestAlways == ASSUME RestAssumption PROVE Collections!Spec => []RestInv
<1>1. Collections!Init => RestInv
  BY RestInit
<1>2. RestInv /\ [Collections!Next]_(Collections!vars) => RestInv'
  BY RestNext
<1> QED BY <1>1, <1>2, PTL DEF Collections!Spec

(***************************************************************************)
(* However many processes of whatever versions serve a collection, with or *)
(* without an onWrite, a document has one version at most, its last        *)
(* writer's, which is the format of its content if that writer has an      *)
(* onWrite; unless requests on it met, its metadata goes with it, and      *)
(* onRead and onWrite are told the last writer's version.                  *)
(***************************************************************************)
THEOREM VersionsGoWithContents == ASSUME RestAssumption PROVE Collections!Spec => []Collections!VersionsAgree
<1>1. ASSUME RestInv PROVE Collections!VersionsAgree
  <2> DEFINE metas == {m \in Metadata : Collections!Exists(rows[m])}
  <2>1. ASSUME NEW d \in Documents, Collections!Exists(rows[d])
        PROVE  /\ \A m, n \in metas : rows[m].of = d /\ rows[n].of = d => m = n
               /\ \A m \in metas : rows[m].of = d =>
                    /\ rows[m].version = Collections!Told(rows[d])
                    /\ rows[d].by \in Rewriters => rows[m].version = rows[d].format
    <3>1. \A m \in metas : rows[m].of = d => m \in Stored(d)
      BY DEF Stored
    <3>2. Paired(d)
      BY <1>1 DEF RestInv, Pairs
    <3>3. CASE Stored(d) = {}
      BY <3>1, <3>3
    <3>4. CASE Stored(d) # {}
      <4>1. PICK m \in Metadata : Stored(d) = {m} /\ rows[m].version = Collections!Told(rows[d])
        BY <2>1, <3>2, <3>4 DEF Paired
      <4>2. rows[d] \in Collections!OrderDocs
        BY <1>1, <2>1 DEF RestInv, RestTypeOK, Collections!Exists
      <4>3. rows[d].by \in Rewriters => rows[d].format = Collections!Told(rows[d])
        BY <4>2 DEF Collections!OrderDocs
      <4> HIDE DEF metas
      <4> QED BY <3>1, <4>1, <4>3
    <3> QED BY <3>3, <3>4
  <2>2. \A m \in metas : rows[m].of \notin met => Collections!Exists(rows[rows[m].of])
    BY <1>1 DEF RestInv, Owners, Owned
  <2>3. ASSUME NEW p \in Procs, task[p].id \notin met, task[p].seen # None, task[p].at # "resolve"
        PROVE  task[p].version = Collections!Told(task[p].seen)
    <3>1. task[p] \in RestTasks /\ RestGood(p, task[p], tx[p])
      BY <1>1, RestTaskOf
    <3>2. task[p].op # "idle"
      BY <1>1, <2>3, RestTaskOf DEF Collections!Idle, Collections!Task
    <3>3. RestHowFar(p, task[p], tx[p].docs) /\ task[p] \in Finding \cup CreatingOrder \cup Updating \cup DeletingOrder
      BY <1>1, <3>2, InTask
    <3>4. Reads(task[p])
      BY <2>3, <3>3 DEF RestHowFar, Finding, CreatingOrder, Updating, DeletingOrder, TaskIn
    <3> QED BY <2>3, <3>4 DEF Reads, Alone
  <2> QED BY <2>1, <2>2, <2>3 DEF Collections!VersionsAgree
<1> QED BY <1>1, RestAlways, PTL

(***************************************************************************)
(* What an update was answered stays, field by field, until a later one    *)
(* writes the field, unless requests on the document met.                  *)
(***************************************************************************)
THEOREM AnsweredUpdatesStay == ASSUME RestAssumption PROVE Collections!Spec => []Collections!UpdatesKept
<1>1. RestInv => Collections!UpdatesKept
  BY DEF RestInv
<1> QED BY <1>1, RestAlways, PTL
-----------------------------------------------------------------------------
(***************************************************************************)
(* Webhooks.  What is posted again is published once, an event makes one   *)
(* job for each hook that wants it, the log is honest, and a hook that was *)
(* turned off is left alone.                                               *)
(***************************************************************************)
Batches == UNION {[D -> Hook!Jobs] : D \in SUBSET Deliveries}
Accepting == [op : {"accept"}, at : {"lookup", "set", "publish", "duplicate"}, id : Sources, keyed : BOOLEAN]
Registering == [op : {"register"}, at : {"insert", "commit"}, id : Hook!Hooks]
HookUpdating == [op : {"update"}, at : {"find", "write", "commit", "nothing"}, id : Hook!Hooks, patch : Hook!Patches,
                 read : Hook!HookDocs \cup {None}]
HookDeleting == [op : {"delete"}, at : {"find", "write", "commit", "nothing"}, id : Hook!Hooks, read : Hook!HookDocs \cup {None}]
Dispatching == [op : {"dispatch"}, at : {"marker", "find", "mark", "commit"}, id : Events, jobs : Batches]
Delivering == [op : {"deliver"}, at : {"find", "post", "skip", "log", "logFailure", "complete"}, id : Deliveries, silent : BOOLEAN]
HookTasks == {Hook!Idle} \cup Accepting \cup Registering \cup HookUpdating \cup HookDeleting \cup Dispatching \cup Delivering

Seen == [value |-> TRUE, alive |-> TRUE]

(* The type invariant. *)
HooksTypeOK ==
  /\ task \in [Procs -> HookTasks] /\ tx = [p \in Procs |-> tx[p]]
  /\ rows \in [Hook!Hooks -> Hook!HookDocs \cup {Unused, Gone}]
  /\ kv = [k \in Keys |-> kv[k]]
  /\ \A s \in Sources : kv[s] \in {None} \cup [value : {TRUE}, alive : BOOLEAN]
  /\ \A e \in Events : kv[Hook!Marker(e)] \in {None, Seen}
  /\ published \in [Sources -> Nat] /\ accepted \subseteq Sources
  /\ emitted \subseteq Events /\ steady \in [Events -> SUBSET Hook!Hooks]
  /\ job \in [Deliveries -> Hook!Jobs \cup {None}]
  /\ received \in [Deliveries -> Nat] /\ log \in [Deliveries -> [delivered : Nat, failed : Nat]]
  /\ off \subseteq Hook!Hooks
-----------------------------------------------------------------------------
(***************************************************************************)
(* Transactions.  A task has one until it has committed, about its source, *)
(* hook, marker or job, and writes nothing else; two about the same have   *)
(* met.                                                                    *)
(***************************************************************************)
(* What stands for no transaction is none. *)
WebhookAssumption == Hook!WebhookConstants /\ ~Shaped(None)

HookOutside(t) == t.op = "idle" \/ (t.op = "deliver" /\ t.at = "complete")
HookSubject(t) == IF t.op = "dispatch" THEN Hook!Marker(t.id) ELSE t.id
Manages(t) == t.op \in {"register", "update", "delete"}

Sets(t, keys) ==
  /\ DOMAIN keys \subseteq {HookSubject(t)} /\ \A k \in DOMAIN keys : keys[k] = Seen
  /\ t.op = "accept" => (DOMAIN keys # {} <=> t.keyed /\ t.at = "publish")
  /\ DOMAIN keys # {} => t.op = "accept" \/ (t.op = "dispatch" /\ t.at = "commit")
HookWrites(t, docs) ==
  /\ DOMAIN docs \subseteq {t.id} /\ \A d \in DOMAIN docs : docs[d] \in Hook!HookDocs \cup {Gone}
  /\ DOMAIN docs # {} => Manages(t) /\ t.at = "commit"
Framed(t, w) ==
  IF HookOutside(t) THEN w = None ELSE Shaped(w) /\ w.about = HookSubject(t) /\ Sets(t, w.keys) /\ HookWrites(t, w.docs)

HookFrames == \A p \in Procs : Framed(task[p], tx[p])
HookMeetings == \A p, q \in Procs : p # q /\ tx[p] # None /\ tx[q] # None /\ tx[p].about = tx[q].about => tx[p].about \in met
-----------------------------------------------------------------------------
(***************************************************************************)
(* Accepting.  What is remembered has been published, and of what was      *)
(* published once the key is remembered.                                   *)
(***************************************************************************)
Live(s) == kv[s] # None /\ kv[s].alive
Told(s) == published[s] >= 1 \/ (kv[s] # None /\ ~kv[s].alive)
Remembers ==
  \A s \in Sources :
    /\ Live(s) => published[s] >= 1
    /\ s \notin met => published[s] <= 1 /\ (published[s] = 1 => Live(s))
    /\ s \in accepted => Told(s)
Accepts(t) ==
  t.op = "accept" =>
    /\ t.at \in {"set", "duplicate"} => t.keyed
    /\ t.keyed /\ t.at \in {"set", "publish"} /\ t.id \notin met => published[t.id] = 0
    /\ t.at = "duplicate" => Told(t.id)
AcceptOK == Remembers /\ \A p \in Procs : Accepts(task[p])
-----------------------------------------------------------------------------
(***************************************************************************)
(* Dispatching.  As long as an event has no marker it has no jobs; who is  *)
(* about to set it has a job for each hook that wanted the event and was   *)
(* left alone, no two for one, and none that is another's.                 *)
(***************************************************************************)
Has(d, e) == job[d] # None /\ job[d].event = e
Dispatched(e) ==
  /\ kv[Hook!Marker(e)] # None => e \in emitted
  /\ Hook!Marker(e) \notin met =>
       /\ kv[Hook!Marker(e)] = None => \A d \in Deliveries : ~Has(d, e)
       /\ \A c, d \in Deliveries : Has(c, e) /\ Has(d, e) /\ job[c].hook = job[d].hook => c = d
       /\ kv[Hook!Marker(e)] # None => \A h \in steady[e] : \E d \in Deliveries : Has(d, e) /\ job[d].hook = h
Batch(t) ==
  /\ \A d \in DOMAIN t.jobs : job[d] = None /\ t.jobs[d].event = t.id /\ t.jobs[d].status = "pending"
  /\ \A c, d \in DOMAIN t.jobs : t.jobs[c].hook = t.jobs[d].hook => c = d
Marks(t, w) == t.at = "commit" /\ DOMAIN w.keys # {}
Prepares(t, w) ==
  t.op = "dispatch" =>
    /\ t.id \in emitted /\ Batch(t)
    /\ t.at # "mark" /\ ~Marks(t, w) => DOMAIN t.jobs = {}
    /\ (t.at \in {"find", "mark"} \/ Marks(t, w)) /\ Hook!Marker(t.id) \notin met => kv[Hook!Marker(t.id)] = None
    /\ t.at = "mark" \/ Marks(t, w) => \A h \in steady[t.id] : \E d \in DOMAIN t.jobs : t.jobs[d].hook = h
OneBatch ==
  \A p, q \in Procs : p # q /\ task[p].op = "dispatch" /\ task[q].op = "dispatch" => DOMAIN task[p].jobs \cap DOMAIN task[q].jobs = {}
DispatchOK == (\A e \in Events : Dispatched(e)) /\ (\A p \in Procs : Prepares(task[p], tx[p])) /\ OneBatch
-----------------------------------------------------------------------------
(***************************************************************************)
(* Managing.  A hook that was left alone wants its events still.  One that *)
(* is dead cannot be delivered to, and nobody is about to change that.     *)
(***************************************************************************)
Wanting == \A e \in Events : \A h \in steady[e] : rows[h] \in Hook!HookDocs /\ rows[h].active /\ Hook!Wants(rows[h], e)
Dead(h) ==
  /\ rows[h] # Unused /\ ~Hook!Deliverable(rows[h])
  /\ \A p \in Procs :
       /\ task[p].op = "update" /\ task[p].at = "write" /\ task[p].id = h => ~task[p].read.active
       /\ tx[p] # None /\ h \in DOMAIN tx[p].docs => ~Hook!Deliverable(tx[p].docs[h])
Finds(t, w) ==
  t.op \in {"update", "delete"} =>
    /\ t.at \in {"write", "commit"} => rows[t.id] # Unused
    /\ t.op = "update" /\ t.at = "write" => t.read \in Hook!HookDocs
    /\ Hook!Silences(t) /\ t.at = "commit" /\ t.id \notin met => ~Hook!Deliverable(Hook!Over(w.docs, rows)[t.id])
Spared == \A p \in Procs : task[p].op = "deliver" /\ task[p].silent => Dead(job[task[p].id].hook)
ManageOK == Wanting /\ (\A p \in Procs : Finds(task[p], tx[p])) /\ (\A h \in off \ met : Dead(h)) /\ Spared
-----------------------------------------------------------------------------
(***************************************************************************)
(* Delivering.  A job that is processed has one process.                   *)
(***************************************************************************)
Logged(d) ==
  /\ log[d].delivered <= received[d]
  /\ job[d] # None /\ job[d].status = "completed" => log[d].delivered > 0 \/ d \in skipped
  /\ job[d] # None /\ job[d].status \in {"dead", "reported"} => job[d].attempts >= MaxAttempts
Delivers(t) ==
  t.op = "deliver" =>
    /\ job[t.id] # None /\ job[t.id].status = "processing"
    /\ t.at = "log" => log[t.id].delivered < received[t.id]
    /\ t.at = "complete" => log[t.id].delivered > 0 \/ t.id \in skipped
    /\ t.at \in {"post", "log", "logFailure"} => ~t.silent
OneLane == \A p, q \in Procs : p # q /\ task[p].op = "deliver" /\ task[q].op = "deliver" => task[p].id # task[q].id
DeliverOK == (\A d \in Deliveries : Logged(d)) /\ (\A p \in Procs : Delivers(task[p])) /\ OneLane

HooksInv == HooksTypeOK /\ HookFrames /\ HookMeetings /\ AcceptOK /\ DispatchOK /\ ManageOK /\ DeliverOK
-----------------------------------------------------------------------------
LEMMA HookOverIs ==
  ASSUME NEW new, NEW old
  PROVE  /\ DOMAIN Hook!Over(new, old) = DOMAIN new \cup DOMAIN old
         /\ Hook!Over(new, old) = [x \in DOMAIN new \cup DOMAIN old |-> Hook!Over(new, old)[x]]
         /\ \A x \in DOMAIN new : Hook!Over(new, old)[x] = new[x]
         /\ \A x \in DOMAIN old \ DOMAIN new : Hook!Over(new, old)[x] = old[x]
BY DEF Hook!Over

LEMMA NothingIs == DOMAIN Hook!Nothing = {}
BY DEF Hook!Nothing

LEMMA BatchIs ==
  ASSUME NEW b \in Batches
  PROVE  DOMAIN b \subseteq Deliveries /\ b = [d \in DOMAIN b |-> b[d]] /\ \A d \in DOMAIN b : b[d] \in Hook!Jobs
BY DEF Batches

LEMMA BatchMade ==
  ASSUME NEW D \in SUBSET Deliveries, NEW b \in [D -> Hook!Jobs]
  PROVE  b \in Batches
BY DEF Batches

(* A patched document is one. *)
LEMMA PatchedIs ==
  ASSUME NEW doc \in Hook!HookDocs, NEW patch \in Hook!Patches
  PROVE  /\ Hook!Merge(doc, patch) \in Hook!HookDocs
         /\ ~doc.active => ~Hook!Merge(doc, patch).active
         /\ "active" \in DOMAIN patch => ~Hook!Merge(doc, patch).active
<1> DEFINE m == Hook!Merge(doc, patch)
<1>1. doc = [coll |-> doc.coll, events |-> doc.events, active |-> doc.active, label |-> doc.label] /\ doc.active \in BOOLEAN
  BY DEF Hook!HookDocs
<1>2. DOMAIN doc = {"coll", "events", "active", "label"}
  BY <1>1
<1>3. /\ DOMAIN m = DOMAIN patch \cup DOMAIN doc /\ m = [x \in DOMAIN patch \cup DOMAIN doc |-> m[x]]
      /\ \A x \in DOMAIN patch : m[x] = patch[x]
      /\ \A x \in DOMAIN doc \ DOMAIN patch : m[x] = doc[x]
  BY DEF Hook!Merge, Hook!Over
<1>4. DOMAIN patch \subseteq DOMAIN doc
  BY <1>2 DEF Hook!Patches
<1>5. m = [x \in {"coll", "events", "active", "label"} |-> m[x]]
  BY <1>2, <1>3, <1>4
<1> HIDE DEF m
<1>6. m = [coll |-> m.coll, events |-> m.events, active |-> m.active, label |-> m.label]
  BY <1>5
<1>7. m.coll = doc.coll /\ m.events \in {doc.events, Events} /\ m.label \in {doc.label, 1}
  BY <1>2, <1>3 DEF Hook!Patches
<1>8. m.active = doc.active \/ m.active = FALSE
  BY <1>2, <1>3 DEF Hook!Patches
<1>9. "active" \in DOMAIN patch => m.active = FALSE
  BY <1>3 DEF Hook!Patches
<1>10. m.active \in BOOLEAN
  BY <1>1, <1>8
<1>11. m \in Hook!HookDocs
  <2>1. m.coll = "hook" /\ m.events \in SUBSET Events /\ m.label \in {0, 1}
    BY <1>7 DEF Hook!HookDocs
  <2> QED BY <1>6, <1>10, <2>1 DEF Hook!HookDocs
<1>12. ~doc.active => m.active = FALSE
  BY <1>1, <1>8
<1> QED BY <1>9, <1>11, <1>12 DEF m

LEMMA HookTaskOf ==
  ASSUME HooksTypeOK, HookFrames, NEW p \in Procs
  PROVE  /\ task[p] \in HookTasks /\ Framed(task[p], tx[p])
         /\ task[p].op = "idle" <=> task[p] = Hook!Idle
         /\ task[p].op = "accept" => task[p] \in Accepting
         /\ task[p].op = "register" => task[p] \in Registering
         /\ task[p].op = "update" => task[p] \in HookUpdating
         /\ task[p].op = "delete" => task[p] \in HookDeleting
         /\ task[p].op = "dispatch" => task[p] \in Dispatching
         /\ task[p].op = "deliver" => task[p] \in Delivering
<1>1. task[p] \in HookTasks /\ Framed(task[p], tx[p])
  BY DEF HooksTypeOK, HookFrames
<1>2. /\ task[p].op = "idle" <=> task[p] = Hook!Idle
      /\ task[p].op = "accept" => task[p] \in Accepting
      /\ task[p].op = "register" => task[p] \in Registering
      /\ task[p].op = "update" => task[p] \in HookUpdating
      /\ task[p].op = "delete" => task[p] \in HookDeleting
      /\ task[p].op = "dispatch" => task[p] \in Dispatching
      /\ task[p].op = "deliver" => task[p] \in Delivering
  BY <1>1 DEF HookTasks, Hook!Idle, Accepting, Registering, HookUpdating, HookDeleting, Dispatching, Delivering
<1> QED BY <1>1, <1>2
-----------------------------------------------------------------------------
(* What the other tasks know of a step. *)
Moves(p) == met \subseteq met' /\ \A q \in Procs \ {p} : task'[q] = task[q] /\ tx'[q] = tx[q]

LEMMA TxStep ==
  ASSUME HooksTypeOK, HookFrames, HookMeetings, NEW p \in Procs, NEW t \in HookTasks, NEW w,
         task' = [task EXCEPT ![p] = t], tx' = [tx EXCEPT ![p] = w], Framed(t, w), met \subseteq met',
         \A q \in Procs \ {p} : w # None /\ tx[q] # None /\ w.about = tx[q].about => w.about \in met'
  PROVE  /\ task' \in [Procs -> HookTasks] /\ tx' = [q \in Procs |-> tx'[q]] /\ HookFrames' /\ HookMeetings'
         /\ task'[p] = t /\ tx'[p] = w /\ Moves(p)
<1>1. task \in [Procs -> HookTasks] /\ DOMAIN tx = Procs
  BY DEF HooksTypeOK
<1>2. task'[p] = t /\ tx'[p] = w /\ task' \in [Procs -> HookTasks] /\ tx' = [q \in Procs |-> tx'[q]]
  BY <1>1
<1>3. \A q \in Procs \ {p} : task'[q] = task[q] /\ tx'[q] = tx[q]
  BY <1>1
<1>4. HookFrames'
  <2> SUFFICES ASSUME NEW q \in Procs PROVE Framed(task'[q], tx'[q])
    BY DEF HookFrames, Framed, HookOutside, HookSubject, Manages, Sets, HookWrites
  <2>1. CASE q = p
    BY <1>2, <2>1
  <2>2. CASE q # p
    BY <1>3, <2>2 DEF HookFrames
  <2> QED BY <2>1, <2>2
<1>5. HookMeetings'
  <2> SUFFICES ASSUME NEW q \in Procs, NEW r \in Procs, q # r, tx'[q] # None, tx'[r] # None, tx'[q].about = tx'[r].about
               PROVE  tx'[q].about \in met'
    BY DEF HookMeetings
  <2>1. CASE q = p
    BY <1>2, <1>3, <2>1
  <2>2. CASE r = p
    BY <1>2, <1>3, <2>2
  <2>3. CASE q # p /\ r # p
    BY <1>3, <2>3 DEF HookMeetings
  <2> QED BY <2>1, <2>2, <2>3
<1> QED BY <1>2, <1>3, <1>4, <1>5 DEF Moves

(* A step of a task in its transaction, or in none. *)
LEMMA SameTx ==
  ASSUME HooksTypeOK, HookFrames, HookMeetings, NEW p \in Procs, NEW t \in HookTasks, NEW w,
         task' = [task EXCEPT ![p] = t], tx' = [tx EXCEPT ![p] = w], Framed(t, w), met' = met,
         w # None => tx[p] # None /\ w.about = tx[p].about
  PROVE  /\ task' \in [Procs -> HookTasks] /\ tx' = [q \in Procs |-> tx'[q]] /\ HookFrames' /\ HookMeetings'
         /\ task'[p] = t /\ tx'[p] = w /\ Moves(p)
<1>1. \A q \in Procs \ {p} : w # None /\ tx[q] # None /\ w.about = tx[q].about => w.about \in met'
  BY DEF HookMeetings
<1> QED BY <1>1, TxStep

LEMMA NoTxStep ==
  ASSUME HooksTypeOK, HookFrames, HookMeetings, NEW p \in Procs, NEW t \in HookTasks,
         task' = [task EXCEPT ![p] = t], tx' = tx, Framed(t, tx[p]), met' = met
  PROVE  /\ task' \in [Procs -> HookTasks] /\ tx' = [q \in Procs |-> tx'[q]] /\ HookFrames' /\ HookMeetings'
         /\ task'[p] = t /\ tx'[p] = tx[p] /\ Moves(p)
<1>1. tx' = [tx EXCEPT ![p] = tx[p]]
  BY DEF HooksTypeOK
<1> QED BY <1>1, SameTx

Fresh(s) == [about |-> s, docs |-> Hook!Nothing, keys |-> Hook!Nothing]

LEMMA Begins ==
  ASSUME WebhookAssumption, HooksTypeOK, HookFrames, HookMeetings, NEW p \in Procs, NEW t \in HookTasks, NEW s, Hook!Start(p, t, s),
         ~HookOutside(t), s = HookSubject(t), ~(t.op = "accept" /\ t.at = "publish")
  PROVE  /\ task' \in [Procs -> HookTasks] /\ tx' = [q \in Procs |-> tx'[q]] /\ HookFrames' /\ HookMeetings'
         /\ task'[p] = t /\ tx'[p] = Fresh(s) /\ Moves(p) /\ task[p] = Hook!Idle /\ UNCHANGED <<rows, kv>>
         /\ \A q \in Procs \ {p} : tx[q] # None /\ tx[q].about = s => s \in met'
<1> DEFINE w == Fresh(s)
<1>1. /\ task[p] = Hook!Idle /\ task' = [task EXCEPT ![p] = t] /\ UNCHANGED <<rows, kv>>
      /\ tx' = [tx EXCEPT ![p] = w] /\ met' = met \cup {x \in {s} : \E q \in Hook!Others(p) : tx[q].about = s}
  BY DEF Hook!Start, Hook!Begin, Fresh
<1>2. Shaped(w) /\ w.about = s /\ DOMAIN w.docs = {} /\ DOMAIN w.keys = {}
  BY NothingIs DEF Fresh, Shaped
<1>3. \A q \in Procs \ {p} : tx[q] # None /\ tx[q].about = s => s \in met'
  BY <1>1 DEF Hook!Others, Hook!InTx
<1>4. met \subseteq met'
  BY <1>1
<1> HIDE DEF w
<1>5. Framed(t, w)
  BY <1>2 DEF Framed, Sets, HookWrites
<1>6. \A q \in Procs \ {p} : w # None /\ tx[q] # None /\ w.about = tx[q].about => w.about \in met'
  BY <1>2, <1>3
<1>7. /\ task' \in [Procs -> HookTasks] /\ tx' = [q \in Procs |-> tx'[q]] /\ HookFrames' /\ HookMeetings'
      /\ task'[p] = t /\ tx'[p] = w /\ Moves(p)
  BY <1>1, <1>4, <1>5, <1>6, TxStep
<1> QED BY <1>1, <1>3, <1>7 DEF w

(* What a commit does to the tables. *)
LEMMA Commits ==
  ASSUME WebhookAssumption, HooksTypeOK, HookFrames, HookMeetings, NEW p \in Procs, NEW t \in HookTasks, HookOutside(t),
         Hook!Commit(p), task' = [task EXCEPT ![p] = t]
  PROVE  /\ task' \in [Procs -> HookTasks] /\ tx' = [q \in Procs |-> tx'[q]] /\ HookFrames' /\ HookMeetings'
         /\ task'[p] = t /\ tx'[p] = None /\ Moves(p) /\ met' = met
         /\ tx[p] # None /\ ~HookOutside(task[p]) /\ Framed(task[p], tx[p])
         /\ rows' \in [Hook!Hooks -> Hook!HookDocs \cup {Unused, Gone}]
         /\ rows' = Hook!Over(tx[p].docs, rows)
         /\ \A h \in Hook!Hooks : rows'[h] = IF h \in DOMAIN tx[p].docs THEN tx[p].docs[h] ELSE rows[h]
         /\ kv' = [k \in Keys |-> kv'[k]]
         /\ \A k \in Keys : kv'[k] = IF k \in DOMAIN tx[p].keys THEN Seen ELSE kv[k]
<1>1. tx[p] # None /\ rows' = Hook!Over(tx[p].docs, rows) /\ kv' = Hook!Over(tx[p].keys, kv) /\ tx' = [tx EXCEPT ![p] = None] /\ met' = met
  BY DEF Hook!Commit, Hook!InTx
<1>2. Framed(task[p], tx[p]) /\ task[p] \in HookTasks
  BY HookTaskOf
<1>3. ~HookOutside(task[p]) /\ Sets(task[p], tx[p].keys) /\ HookWrites(task[p], tx[p].docs)
  BY <1>1, <1>2 DEF Framed
<1>4. Framed(t, None)
  BY DEF Framed
<1>5. /\ task' \in [Procs -> HookTasks] /\ tx' = [q \in Procs |-> tx'[q]] /\ HookFrames' /\ HookMeetings'
      /\ task'[p] = t /\ tx'[p] = None /\ Moves(p)
  BY <1>1, <1>4, SameTx
<1>6. DOMAIN tx[p].docs \subseteq Hook!Hooks
  <2>1. Manages(task[p]) => task[p].id \in Hook!Hooks
    BY HookTaskOf DEF Manages, Registering, HookUpdating, HookDeleting
  <2> QED BY <1>3, <2>1 DEF HookWrites
<1>7. \A h \in DOMAIN tx[p].docs : tx[p].docs[h] \in Hook!HookDocs \cup {Gone}
  BY <1>3 DEF HookWrites
<1>8. rows \in [Hook!Hooks -> Hook!HookDocs \cup {Unused, Gone}] /\ DOMAIN rows = Hook!Hooks
  BY DEF HooksTypeOK
<1>9. /\ DOMAIN rows' = Hook!Hooks /\ rows' = [h \in Hook!Hooks |-> rows'[h]]
      /\ \A h \in Hook!Hooks : rows'[h] = IF h \in DOMAIN tx[p].docs THEN tx[p].docs[h] ELSE rows[h]
  <2>1. DOMAIN tx[p].docs \cup DOMAIN rows = Hook!Hooks
    BY <1>6, <1>8
  <2> DEFINE g == Hook!Over(tx[p].docs, rows)
  <2>2. /\ g = [x \in DOMAIN tx[p].docs \cup DOMAIN rows |-> g[x]]
        /\ \A x \in DOMAIN tx[p].docs : g[x] = tx[p].docs[x]
        /\ \A x \in DOMAIN rows \ DOMAIN tx[p].docs : g[x] = rows[x]
    BY DEF Hook!Over
  <2>3. rows' = g
    BY <1>1
  <2> HIDE DEF g
  <2> QED BY <1>8, <2>1, <2>2, <2>3
<1>10. rows' \in [Hook!Hooks -> Hook!HookDocs \cup {Unused, Gone}]
  BY <1>7, <1>8, <1>9
<1>11. DOMAIN tx[p].keys \subseteq Keys /\ \A k \in DOMAIN tx[p].keys : tx[p].keys[k] = Seen
  <2>1. task[p].op = "accept" => task[p].id \in Keys
    BY HookTaskOf DEF WebhookAssumption, Hook!WebhookConstants, Accepting
  <2>2. task[p].op = "dispatch" => Hook!Marker(task[p].id) \in Keys
    BY HookTaskOf DEF WebhookAssumption, Hook!WebhookConstants, Dispatching
  <2> QED BY <1>3, <2>1, <2>2 DEF Sets, HookSubject
<1>12. DOMAIN kv = Keys
  BY DEF HooksTypeOK
<1>13. kv' = [k \in Keys |-> kv'[k]] /\ \A k \in Keys : kv'[k] = IF k \in DOMAIN tx[p].keys THEN Seen ELSE kv[k]
  <2>1. DOMAIN tx[p].keys \cup DOMAIN kv = Keys
    BY <1>11, <1>12
  <2> DEFINE g == Hook!Over(tx[p].keys, kv)
  <2>2. /\ g = [x \in DOMAIN tx[p].keys \cup DOMAIN kv |-> g[x]]
        /\ \A x \in DOMAIN tx[p].keys : g[x] = tx[p].keys[x]
        /\ \A x \in DOMAIN kv \ DOMAIN tx[p].keys : g[x] = kv[x]
    BY DEF Hook!Over
  <2>3. kv' = g
    BY <1>1
  <2> HIDE DEF g
  <2> QED BY <1>11, <1>12, <2>1, <2>2, <2>3
<1> QED BY <1>1, <1>2, <1>3, <1>5, <1>9, <1>10, <1>13
-----------------------------------------------------------------------------
(* Steps that one part does not see. *)
LEMMA AcceptElse ==
  ASSUME HooksInv, NEW p \in Procs, Moves(p), UNCHANGED <<published, accepted>>,
         \A s \in Sources : kv'[s] = kv[s], Accepts(task[p])'
  PROVE  AcceptOK'
<1>1. \A s \in Sources : (Live(s)' <=> Live(s)) /\ (Told(s)' <=> Told(s))
  BY DEF Live, Told
<1>2. Remembers'
  BY <1>1 DEF HooksInv, AcceptOK, Remembers, Moves
<1>3. ASSUME NEW q \in Procs \ {p} PROVE Accepts(task[q])'
  <2>1. Accepts(task[q]) /\ task'[q] = task[q] /\ met \subseteq met'
    BY DEF HooksInv, AcceptOK, Moves
  <2>2. task[q].op = "accept" => task[q].id \in Sources
    BY HookTaskOf DEF HooksInv, Accepting
  <2> QED BY <1>1, <2>1, <2>2 DEF Accepts
<1> QED BY <1>2, <1>3 DEF AcceptOK

(* A job keeps what it is for; and there are no others. *)
KeptJobs == \A d \in Deliveries : job[d] # None => job'[d] # None /\ job'[d].hook = job[d].hook /\ job'[d].event = job[d].event
SameJobs == KeptJobs /\ \A d \in Deliveries : job[d] = None => job'[d] = None

LEMMA DispatchedStays ==
  ASSUME \A e \in Events : Dispatched(e), SameJobs, met \subseteq met', emitted' = emitted,
         \A e \in Events : steady'[e] \subseteq steady[e] /\ kv'[Hook!Marker(e)] = kv[Hook!Marker(e)]
  PROVE  \A e \in Events : Dispatched(e)'
<1> SUFFICES ASSUME NEW e \in Events PROVE Dispatched(e)'
  OBVIOUS
<1>1. \A d \in Deliveries : (Has(d, e)' <=> Has(d, e)) /\ (Has(d, e) => job'[d].hook = job[d].hook)
  BY DEF SameJobs, KeptJobs, Has
<1>2. Dispatched(e) /\ kv'[Hook!Marker(e)] = kv[Hook!Marker(e)] /\ steady'[e] \subseteq steady[e]
  OBVIOUS
<1> QED BY <1>1, <1>2 DEF Dispatched

LEMMA PreparesStays ==
  ASSUME HooksTypeOK, HookFrames, NEW q \in Procs, NEW t, NEW w, t = task[q], Prepares(t, w),
         SameJobs, met \subseteq met', emitted' = emitted,
         \A e \in Events : steady'[e] \subseteq steady[e] /\ kv'[Hook!Marker(e)] = kv[Hook!Marker(e)]
  PROVE  Prepares(t, w)'
<1> SUFFICES ASSUME t.op = "dispatch" PROVE Prepares(t, w)'
  BY DEF Prepares
<1>1. t.id \in Events /\ DOMAIN t.jobs \subseteq Deliveries
  BY HookTaskOf, BatchIs DEF Dispatching
<1>2. Batch(t)'
  BY <1>1 DEF Prepares, Batch, SameJobs
<1>3. steady'[t.id] \subseteq steady[t.id] /\ kv'[Hook!Marker(t.id)] = kv[Hook!Marker(t.id)]
  BY <1>1
<1> QED BY <1>2, <1>3 DEF Prepares, Marks

LEMMA DispatchElse ==
  ASSUME HooksInv, NEW p \in Procs, Moves(p), SameJobs, emitted' = emitted, task'[p].op # "dispatch",
         \A e \in Events : steady'[e] \subseteq steady[e] /\ kv'[Hook!Marker(e)] = kv[Hook!Marker(e)]
  PROVE  DispatchOK'
<1>1. \A e \in Events : Dispatched(e)'
  BY DispatchedStays DEF HooksInv, DispatchOK, Moves
<1>2. ASSUME NEW q \in Procs \ {p} PROVE Prepares(task[q], tx[q])'
  <2>1. Prepares(task[q], tx[q]) /\ task'[q] = task[q] /\ tx'[q] = tx[q] /\ met \subseteq met' /\ HooksTypeOK /\ HookFrames
    BY DEF HooksInv, DispatchOK, Moves
  <2>2. PICK t, w : t = task[q] /\ w = tx[q]
    OBVIOUS
  <2>3. Prepares(t, w)'
    BY <2>1, <2>2, PreparesStays
  <2> QED BY <2>1, <2>2, <2>3 DEF Prepares, Batch, Marks
<1>3. OneBatch'
  BY DEF HooksInv, DispatchOK, OneBatch, Moves
<1>4. Prepares(task[p], tx[p])'
  BY DEF Prepares
<1> QED BY <1>1, <1>2, <1>3, <1>4 DEF DispatchOK

LEMMA DeadStays ==
  ASSUME NEW p \in Procs, Moves(p), NEW h, Dead(h), rows'[h] # Unused, ~Hook!Deliverable(rows'[h]),
         task'[p].op = "update" /\ task'[p].at = "write" /\ task'[p].id = h => ~task'[p].read.active,
         tx'[p] # None /\ h \in DOMAIN tx'[p].docs => ~Hook!Deliverable(tx'[p].docs[h])
  PROVE  Dead(h)'
<1>1. ASSUME NEW q \in Procs \ {p}
      PROVE  /\ task'[q].op = "update" /\ task'[q].at = "write" /\ task'[q].id = h => ~task'[q].read.active
             /\ tx'[q] # None /\ h \in DOMAIN tx'[q].docs => ~Hook!Deliverable(tx'[q].docs[h])
  <2>1. task'[q] = task[q] /\ tx'[q] = tx[q]
    BY DEF Moves
  <2> QED BY <2>1 DEF Dead
<1>2. ~Hook!Deliverable(rows[h])'
  BY DEF Hook!Deliverable, Hook!Exists
<1>3. ASSUME NEW q \in Procs
      PROVE  /\ task'[q].op = "update" /\ task'[q].at = "write" /\ task'[q].id = h => ~task'[q].read.active
             /\ tx'[q] # None /\ h \in DOMAIN tx'[q].docs => ~Hook!Deliverable(tx'[q].docs[h])
  BY <1>1
<1> QED BY <1>2, <1>3 DEF Dead, Hook!Deliverable, Hook!Exists

LEMMA SparedStays ==
  ASSUME HooksInv, NEW p \in Procs, Moves(p), KeptJobs, \A h \in Hook!Hooks : Dead(h) => Dead(h)',
         task'[p].op = "deliver" /\ task'[p].silent =>
           \/ task[p].op = "deliver" /\ task[p].silent /\ task'[p].id = task[p].id
           \/ \E h \in Hook!Hooks : Dead(h) /\ h = job'[task'[p].id].hook
  PROVE  Spared'
<1> SUFFICES ASSUME NEW q \in Procs, task'[q].op = "deliver", task'[q].silent PROVE Dead(job[task[q].id].hook)'
  BY DEF Spared
<1>1. CASE task[q].op = "deliver" /\ task[q].silent /\ task'[q].id = task[q].id
  <2>1. task[q].id \in Deliveries /\ job[task[q].id] # None
    BY <1>1, HookTaskOf DEF HooksInv, DeliverOK, Delivers, Delivering
  <2>2. PICK h \in Hook!Hooks : h = job[task[q].id].hook /\ h = job'[task'[q].id].hook
    BY <1>1, <2>1 DEF HooksInv, HooksTypeOK, Hook!Jobs, KeptJobs
  <2>3. Dead(h)
    BY <1>1, <2>2 DEF HooksInv, ManageOK, Spared, Dead
  <2>4. Dead(h)'
    BY <2>3
  <2> QED BY <2>2, <2>4 DEF Dead
<1>2. CASE \E h \in Hook!Hooks : Dead(h) /\ h = job'[task'[q].id].hook
  <2>1. PICK h \in Hook!Hooks : Dead(h) /\ h = job'[task'[q].id].hook
    BY <1>2
  <2>2. Dead(h)'
    BY <2>1
  <2> QED BY <2>1, <2>2 DEF Dead
<1> QED BY <1>1, <1>2 DEF Moves

LEMMA ManageElse ==
  ASSUME HooksInv, NEW p \in Procs, Moves(p), KeptJobs, UNCHANGED <<rows, off>>,
         \A e \in Events : steady'[e] \subseteq steady[e],
         ~Manages(task'[p]), tx'[p] # None => DOMAIN tx'[p].docs = {},
         task'[p].op = "deliver" /\ task'[p].silent =>
           \/ task[p].op = "deliver" /\ task[p].silent /\ task'[p].id = task[p].id
           \/ \E h \in Hook!Hooks : Dead(h) /\ h = job'[task'[p].id].hook
  PROVE  ManageOK'
<1>1. Wanting'
  BY DEF HooksInv, ManageOK, Wanting
<1>2. ASSUME NEW q \in Procs PROVE Finds(task[q], tx[q])'
  <2>1. CASE q = p
    BY <2>1 DEF Finds, Manages
  <2>2. CASE q # p
    <3>1. Finds(task[q], tx[q]) /\ task'[q] = task[q] /\ tx'[q] = tx[q] /\ met \subseteq met'
      BY <2>2 DEF HooksInv, ManageOK, Moves
    <3> QED BY <3>1 DEF Finds, Hook!Deliverable, Hook!Exists, Hook!Over
  <2> QED BY <2>1, <2>2
<1>3. ASSUME NEW h, Dead(h) PROVE Dead(h)'
  <2>1. rows'[h] # Unused /\ ~Hook!Deliverable(rows'[h])
    BY <1>3 DEF Dead
  <2>2. /\ ~(task'[p].op = "update" /\ task'[p].at = "write" /\ task'[p].id = h)
        /\ ~(tx'[p] # None /\ h \in DOMAIN tx'[p].docs)
    BY DEF Manages
  <2> QED BY <1>3, <2>1, <2>2, DeadStays
<1>4. (\A h \in off \ met : Dead(h))'
  BY <1>3 DEF HooksInv, ManageOK, Moves
<1>5. Spared'
  BY <1>3, SparedStays
<1> QED BY <1>1, <1>2, <1>4, <1>5 DEF ManageOK

(* Of the jobs that are there nothing changes. *)
LEMMA DeliverElse ==
  ASSUME HooksInv, NEW p \in Procs, Moves(p), UNCHANGED <<received, log>>, skipped \subseteq skipped',
         \A d \in Deliveries : IF job[d] # None THEN job'[d] = job[d] ELSE job'[d] = None \/ job'[d].status = "pending",
         task'[p].op # "deliver"
  PROVE  DeliverOK'
<1>1. ASSUME NEW d \in Deliveries PROVE Logged(d)'
  BY DEF HooksInv, DeliverOK, Logged
<1>2. ASSUME NEW q \in Procs \ {p} PROVE Delivers(task[q])'
  <2>1. Delivers(task[q]) /\ task'[q] = task[q]
    BY DEF HooksInv, DeliverOK, Moves
  <2>2. task[q].op = "deliver" => task[q].id \in Deliveries
    BY HookTaskOf DEF HooksInv, Delivering
  <2>3. task[q].op = "deliver" => job'[task[q].id] = job[task[q].id]
    BY <2>1, <2>2 DEF Delivers
  <2> QED BY <2>1, <2>3 DEF Delivers
<1>3. Delivers(task[p])'
  BY DEF Delivers
<1>4. OneLane'
  BY DEF HooksInv, DeliverOK, OneLane, Moves
<1> QED BY <1>1, <1>2, <1>3, <1>4 DEF DeliverOK

LEMMA ManageSame ==
  ASSUME ManageOK, UNCHANGED <<task, tx, rows, met, off, steady, job>>
  PROVE  ManageOK'
<1>1. Wanting'
  BY DEF ManageOK, Wanting
<1>2. (\A p \in Procs : Finds(task[p], tx[p]))'
  BY DEF ManageOK, Finds, Hook!Deliverable, Hook!Exists, Hook!Over
<1>3. (\A h \in off \ met : Dead(h))'
  BY DEF ManageOK, Dead, Hook!Deliverable, Hook!Exists
<1>4. Spared'
  BY DEF ManageOK, Spared, Dead, Hook!Deliverable, Hook!Exists
<1> QED BY <1>1, <1>2, <1>3, <1>4 DEF ManageOK

(* A step that only a source's request, or none of the parts, sees. *)
LEMMA OnlyAccepts ==
  ASSUME HooksInv, NEW p \in Procs, Moves(p), UNCHANGED <<emitted, steady, job, received, log, skipped, off, rows>>,
         \A e \in Events : kv'[Hook!Marker(e)] = kv[Hook!Marker(e)],
         task'[p].op \in {"idle", "accept"}, tx'[p] # None => DOMAIN tx'[p].docs = {}
  PROVE  DispatchOK' /\ ManageOK' /\ DeliverOK'
<1>1. KeptJobs /\ SameJobs
  BY DEF SameJobs, KeptJobs
<1>2. DispatchOK'
  BY <1>1, DispatchElse
<1>3. ManageOK'
  BY <1>1, ManageElse DEF Manages
<1>4. DeliverOK'
  BY DeliverElse DEF HooksInv, HooksTypeOK
<1> QED BY <1>2, <1>3, <1>4
-----------------------------------------------------------------------------
(* Requests of sources. *)
LEMMA InHookTask ==
  ASSUME WebhookAssumption, HooksInv, NEW p \in Procs, ~HookOutside(task[p])
  PROVE  /\ tx[p] # None /\ Shaped(tx[p]) /\ tx[p].about = HookSubject(task[p])
         /\ Sets(task[p], tx[p].keys) /\ HookWrites(task[p], tx[p].docs) /\ HooksTypeOK /\ HookFrames /\ HookMeetings
BY HookTaskOf DEF Framed, WebhookAssumption, HooksInv

LEMMA InboundStep ==
  ASSUME WebhookAssumption, HooksInv, NEW p \in Procs, NEW s \in Sources, NEW cred, NEW keyed \in BOOLEAN, Hook!Inbound(p, s, cred, keyed)
  PROVE  HooksInv'
<1> DEFINE t == [op |-> "accept", at |-> "lookup", id |-> s, keyed |-> keyed]
<1>1. Hook!Start(p, t, s) /\ UNCHANGED <<published, accepted, emitted, steady, job, received, log, skipped, off>>
  BY DEF Hook!Inbound
<1>2. t \in HookTasks /\ ~HookOutside(t) /\ s = HookSubject(t) /\ t.op = "accept" /\ t.at = "lookup"
  BY DEF HookTasks, Accepting, HookOutside, HookSubject
<1> HIDE DEF t
<1>3. /\ task' \in [Procs -> HookTasks] /\ tx' = [q \in Procs |-> tx'[q]] /\ HookFrames' /\ HookMeetings'
      /\ task'[p] = t /\ tx'[p] = Fresh(s) /\ Moves(p) /\ UNCHANGED <<rows, kv>>
  BY <1>1, <1>2, Begins DEF HooksInv
<1>4. HooksTypeOK'
  BY <1>1, <1>3 DEF HooksInv, HooksTypeOK
<1>5. AcceptOK'
  BY <1>1, <1>2, <1>3, AcceptElse DEF Accepts
<1>6. DOMAIN tx'[p].docs = {}
  BY <1>3, NothingIs DEF Fresh
<1>7. DispatchOK' /\ ManageOK' /\ DeliverOK'
  BY <1>1, <1>2, <1>3, <1>6, OnlyAccepts
<1> QED BY <1>3, <1>4, <1>5, <1>7 DEF HooksInv

LEMMA AcceptLookupStep ==
  ASSUME WebhookAssumption, HooksInv, NEW p \in Procs, Hook!AcceptLookup(p)
  PROVE  HooksInv'
<1> DEFINE s == task[p].id
           place == IF ~task[p].keyed THEN "publish" ELSE IF Hook!KvGet(p, s) = None THEN "set" ELSE "duplicate"
           t == [task[p] EXCEPT !.at = place]
<1>1. /\ task[p].op = "accept" /\ task[p].at = "lookup" /\ task' = [task EXCEPT ![p] = t] /\ tx' = tx /\ met' = met
      /\ UNCHANGED <<published, accepted, emitted, steady, job, received, log, skipped, off, rows, kv>>
  BY DEF Hook!AcceptLookup, Hook!At, Hook!Goto, Hook!storeVars, HooksInv, HooksTypeOK
<1>2. task[p] \in Accepting /\ HooksTypeOK /\ HookFrames /\ HookMeetings
  BY <1>1, HookTaskOf DEF HooksInv
<1>3. place \in {"set", "publish", "duplicate"} /\ (task[p].keyed <=> place # "publish")
  BY <1>2 DEF Accepting
<1>4. s \in Sources /\ DOMAIN tx[p].keys = {} /\ tx[p] # None /\ Shaped(tx[p]) /\ tx[p].about = s /\ HookWrites(task[p], tx[p].docs)
  BY <1>1, <1>2, InHookTask DEF HookOutside, Sets, HookSubject, Accepting
<1>5. task[p].keyed => IF place = "duplicate" THEN Live(s) ELSE ~Live(s)
  <2>1. Hook!Entry(p, s) = kv[s]
    BY <1>4, <1>2 DEF Hook!Entry, Hook!Over, HooksTypeOK, WebhookAssumption, Hook!WebhookConstants
  <2>2. kv[s] = None \/ (kv[s].value = TRUE /\ kv[s].alive \in BOOLEAN)
    BY <1>2, <1>4 DEF HooksTypeOK
  <2> QED BY <2>1, <2>2 DEF Hook!KvGet, Live, WebhookAssumption, Hook!WebhookConstants
<1> HIDE DEF place
<1>6. t \in Accepting /\ t.op = "accept" /\ t.at = place /\ t.id = s /\ t.keyed = task[p].keyed
  BY <1>2, <1>3 DEF Accepting
<1> HIDE DEF t, s
<1>7. t \in HookTasks /\ Framed(t, tx[p])
  <2>1. DOMAIN tx[p].docs = {}
    BY <1>1 , <1>4 DEF HookWrites, Manages
  <2> QED BY <1>3, <1>4, <1>6, <2>1 DEF HookTasks, Framed, HookOutside, Sets, HookWrites, HookSubject
<1>8. /\ task' \in [Procs -> HookTasks] /\ tx' = [q \in Procs |-> tx'[q]] /\ HookFrames' /\ HookMeetings'
      /\ task'[p] = t /\ tx'[p] = tx[p] /\ Moves(p)
  BY <1>1, <1>2, <1>7, NoTxStep
<1>9. HooksTypeOK'
  BY <1>1, <1>2, <1>8 DEF HooksTypeOK
<1>10. Accepts(task[p])'
  <2>1. Remembers /\ published[s] \in Nat
    BY <1>2, <1>4 DEF HooksInv, AcceptOK, HooksTypeOK
  <2>2. (t.keyed /\ t.at \in {"set", "publish"} /\ s \notin met' => published'[s] = 0)
    BY <1>1, <1>3, <1>4, <1>5, <1>6, <2>1 DEF Remembers
  <2>3. t.keyed /\ t.at = "duplicate" => published'[s] >= 1
    BY <1>1, <1>4, <1>5, <1>6, <2>1 DEF Remembers
  <2>4. t.at \in {"set", "duplicate"} => t.keyed
    BY <1>3, <1>6
  <2> QED BY <1>6, <1>8, <2>2, <2>3, <2>4 DEF Accepts, Told
<1>11. AcceptOK'
  BY <1>1, <1>8, <1>10, AcceptElse
<1>12. DispatchOK' /\ ManageOK' /\ DeliverOK'
  <2>1. DOMAIN tx'[p].docs = {}
    BY <1>1, <1>4, <1>8 DEF HookWrites, Manages
  <2> QED BY <1>1, <1>6, <1>8, <2>1, OnlyAccepts
<1> QED BY <1>8, <1>9, <1>11, <1>12 DEF HooksInv

(* A transaction sets its key. *)
LEMMA KeySet ==
  ASSUME NEW p \in Procs, HooksTypeOK, Shaped(tx[p]), DOMAIN tx[p].keys = {}, NEW k, Hook!KvSet(p, k, TRUE)
  PROVE  /\ UNCHANGED <<rows, kv, met>>
         /\ \E w : /\ tx' = [tx EXCEPT ![p] = w] /\ Shaped(w) /\ w.about = tx[p].about /\ w.docs = tx[p].docs
                   /\ DOMAIN w.keys = {k} /\ w.keys[k] = Seen
<1> DEFINE keys == Hook!Over([x \in {k} |-> Seen], tx[p].keys)
           w == [tx[p] EXCEPT !.keys = keys]
<1>1. UNCHANGED <<rows, kv, met>> /\ tx' = [tx EXCEPT ![p].keys = keys]
  BY DEF Hook!KvSet, Hook!WriteKey, Seen, HooksTypeOK
<1>2. DOMAIN keys = {k} /\ keys[k] = Seen
  BY DEF Hook!Over
<1> HIDE DEF keys
<1>3. Shaped(w) /\ w.about = tx[p].about /\ w.docs = tx[p].docs /\ w.keys = keys
  BY DEF Shaped
<1>4. tx' = [tx EXCEPT ![p] = w]
  BY <1>1 DEF HooksTypeOK
<1> QED BY <1>1, <1>2, <1>3, <1>4

LEMMA AcceptSetStep ==
  ASSUME WebhookAssumption, HooksInv, NEW p \in Procs, Hook!AcceptSet(p)
  PROVE  HooksInv'
<1> DEFINE s == task[p].id
           t == [task[p] EXCEPT !.at = "publish"]
<1>1. /\ task[p].op = "accept" /\ task[p].at = "set" /\ task' = [task EXCEPT ![p] = t] /\ Hook!KvSet(p, s, TRUE)
      /\ UNCHANGED <<published, accepted, emitted, steady, job, received, log, skipped, off>>
  BY DEF Hook!AcceptSet, Hook!At, Hook!Goto, HooksInv, HooksTypeOK
<1>2. task[p] \in Accepting /\ HooksTypeOK /\ HookFrames /\ HookMeetings
  BY <1>1, HookTaskOf DEF HooksInv
<1>3. s \in Sources /\ DOMAIN tx[p].keys = {} /\ tx[p] # None /\ Shaped(tx[p]) /\ tx[p].about = s /\ DOMAIN tx[p].docs = {}
  BY <1>1, <1>2, InHookTask DEF HookOutside, Sets, HookWrites, Manages, HookSubject, Accepting
<1>4. t \in Accepting /\ t.op = "accept" /\ t.at = "publish" /\ t.id = s /\ t.keyed = task[p].keyed
  BY <1>2 DEF Accepting
<1>5. UNCHANGED <<rows, kv, met>>
  BY <1>1, <1>2, <1>3, KeySet
<1>6. PICK w : /\ tx' = [tx EXCEPT ![p] = w] /\ Shaped(w) /\ w.about = tx[p].about /\ w.docs = tx[p].docs
               /\ DOMAIN w.keys = {s} /\ w.keys[s] = Seen
  BY <1>1, <1>2, <1>3, KeySet
<1> HIDE DEF t, s
<1>7. task[p].keyed
  BY <1>1 DEF HooksInv, AcceptOK, Accepts
<1>8. t \in HookTasks /\ Framed(t, w)
  BY <1>3, <1>4, <1>6, <1>7 DEF HookTasks, Framed, HookOutside, Sets, HookWrites, Manages, HookSubject
<1>9. /\ task' \in [Procs -> HookTasks] /\ tx' = [q \in Procs |-> tx'[q]] /\ HookFrames' /\ HookMeetings'
      /\ task'[p] = t /\ tx'[p] = w /\ Moves(p)
  BY <1>1, <1>2, <1>3, <1>5, <1>6, <1>8, SameTx
<1>10. HooksTypeOK'
  BY <1>1, <1>2, <1>5, <1>9 DEF HooksTypeOK
<1>11. Accepts(task[p])'
  <2>1. s \notin met' => published'[s] = 0
    BY <1>1, <1>5, <1>7 DEF HooksInv, AcceptOK, Accepts, s
  <2> QED BY <1>4, <1>9, <2>1 DEF Accepts
<1>12. AcceptOK'
  BY <1>1, <1>5, <1>9, <1>11, AcceptElse
<1>13. DispatchOK' /\ ManageOK' /\ DeliverOK'
  BY <1>1, <1>3, <1>4, <1>5, <1>6, <1>9, OnlyAccepts
<1> QED BY <1>9, <1>10, <1>12, <1>13 DEF HooksInv

LEMMA AcceptCommitStep ==
  ASSUME WebhookAssumption, HooksInv, NEW p \in Procs, Hook!AcceptCommit(p)
  PROVE  HooksInv'
<1>1. /\ task[p].op = "accept" /\ task[p].at \in {"publish", "duplicate"} /\ task' = [task EXCEPT ![p] = Hook!Idle] /\ Hook!Commit(p)
      /\ UNCHANGED <<emitted, steady, job, received, log, skipped, off>>
  BY DEF Hook!AcceptCommit, Hook!At, Hook!Rest
<1>2. task[p] \in Accepting /\ HooksTypeOK /\ HookFrames /\ HookMeetings
  BY <1>1, HookTaskOf DEF HooksInv
<1>3. PICK s \in Sources : s = task[p].id
  BY <1>2 DEF Accepting
<1>4. /\ tx[p] # None /\ tx[p].about = s /\ DOMAIN tx[p].docs = {} /\ DOMAIN tx[p].keys \subseteq {s}
      /\ DOMAIN tx[p].keys # {} <=> task[p].keyed /\ task[p].at = "publish"
  BY <1>1, <1>2, <1>3, InHookTask DEF HookOutside, Sets, HookWrites, Manages, HookSubject
<1>5. Hook!Idle \in HookTasks /\ HookOutside(Hook!Idle) /\ Hook!Idle.op = "idle"
  BY DEF HookTasks, HookOutside, Hook!Idle
<1>6. /\ task' \in [Procs -> HookTasks] /\ tx' = [q \in Procs |-> tx'[q]] /\ HookFrames' /\ HookMeetings'
      /\ task'[p] = Hook!Idle /\ tx'[p] = None /\ Moves(p) /\ met' = met
      /\ rows' \in [Hook!Hooks -> Hook!HookDocs \cup {Unused, Gone}]
      /\ \A h \in Hook!Hooks : rows'[h] = IF h \in DOMAIN tx[p].docs THEN tx[p].docs[h] ELSE rows[h]
      /\ kv' = [k \in Keys |-> kv'[k]]
      /\ \A k \in Keys : kv'[k] = IF k \in DOMAIN tx[p].keys THEN Seen ELSE kv[k]
  BY <1>1, <1>2, <1>5, Commits
<1>7. rows' = rows
  BY <1>2, <1>4, <1>6 DEF HooksTypeOK
<1>8. \A e \in Events : kv'[Hook!Marker(e)] = kv[Hook!Marker(e)]
  BY <1>3, <1>4, <1>6 DEF WebhookAssumption, Hook!WebhookConstants
<1>9. \A r \in Sources \ {s} : kv'[r] = kv[r]
  BY <1>4, <1>6 DEF WebhookAssumption, Hook!WebhookConstants
<1>10. kv'[s] = IF task[p].keyed /\ task[p].at = "publish" THEN Seen ELSE kv[s]
  BY <1>4, <1>6 DEF WebhookAssumption, Hook!WebhookConstants
<1>11. /\ task[p].keyed => published' = [published EXCEPT ![s] = @ + IF task[p].at = "publish" THEN 1 ELSE 0]
       /\ accepted' = IF task[p].keyed THEN accepted \cup {s} ELSE accepted
       /\ ~task[p].keyed => published' = published
  BY <1>3 DEF Hook!AcceptCommit
<1>12. /\ \A r \in Sources \ {s} : published'[r] = published[r]
       /\ published'[s] = IF task[p].keyed /\ task[p].at = "publish" THEN published[s] + 1 ELSE published[s]
       /\ published' \in [Sources -> Nat] /\ accepted' \subseteq Sources
  BY <1>1, <1>2, <1>3, <1>11 DEF HooksTypeOK
<1>13. HooksTypeOK'
  <2>1. \A r \in Sources : kv'[r] \in {None} \cup [value : {TRUE}, alive : BOOLEAN]
    <3>1. Seen \in [value : {TRUE}, alive : BOOLEAN] /\ kv[s] \in {None} \cup [value : {TRUE}, alive : BOOLEAN]
      BY <1>2 DEF HooksTypeOK, Seen
    <3>2. \A r \in Sources \ {s} : kv'[r] \in {None} \cup [value : {TRUE}, alive : BOOLEAN]
      BY <1>2, <1>9 DEF HooksTypeOK
    <3> QED BY <1>10, <3>1, <3>2
  <2> QED BY <1>1, <1>2, <1>6, <1>8, <1>12, <2>1 DEF HooksTypeOK
<1>14. AcceptOK'
  <2>1. Remembers /\ Accepts(task[p]) /\ published[s] \in Nat
    BY <1>2 DEF HooksInv, AcceptOK, HooksTypeOK
  <2>2. ASSUME NEW r \in Sources \ {s}
        PROVE  /\ Live(r)' => published'[r] >= 1
               /\ r \notin met' => published'[r] <= 1 /\ (published'[r] = 1 => Live(r)')
               /\ r \in accepted' => Told(r)'
    BY <1>6, <1>9, <1>11, <1>12, <2>1 DEF Remembers, Live, Told
  <2>3. /\ Live(s)' => published'[s] >= 1
        /\ s \notin met' => published'[s] <= 1 /\ (published'[s] = 1 => Live(s)')
        /\ s \in accepted' => Told(s)'
    <3>1. CASE task[p].keyed /\ task[p].at = "publish"
      <4>1. kv'[s] = Seen /\ published'[s] = published[s] + 1 /\ Seen.alive = TRUE
        BY <1>10, <1>12, <3>1 DEF Seen
      <4>2. s \notin met => published[s] = 0
        BY <1>1, <1>3, <2>1, <3>1 DEF Accepts
      <4>3. Seen # None
        BY DEF WebhookAssumption, Hook!WebhookConstants, Seen
      <4> QED BY <1>6, <2>1, <4>1, <4>2, <4>3 DEF Live, Told
    <3>2. CASE ~(task[p].keyed /\ task[p].at = "publish")
      <4>1. kv'[s] = kv[s] /\ published'[s] = published[s]
        BY <1>10, <1>12, <3>2
      <4>2. s \in accepted' => Told(s)
        BY <1>1, <1>3, <1>11, <2>1, <3>2 DEF Accepts, Remembers
      <4> QED BY <1>6, <2>1, <4>1, <4>2 DEF Live, Told, Remembers
    <3> QED BY <3>1, <3>2
  <2>4. Remembers'
    BY <2>2, <2>3 DEF Remembers
  <2>5. ASSUME NEW q \in Procs PROVE Accepts(task[q])'
    <3>1. CASE q = p
      BY <1>5, <1>6, <3>1 DEF Accepts
    <3>2. CASE q # p /\ task[q].op = "accept"
      <4>1. Accepts(task[q]) /\ task'[q] = task[q] /\ task[q] \in Accepting
        BY <1>2, <1>6, <3>2, HookTaskOf DEF HooksInv, AcceptOK, Moves
      <4>2. task[q].id # s => published'[task[q].id] = published[task[q].id] /\ kv'[task[q].id] = kv[task[q].id]
        BY <1>9, <1>12, <4>1 DEF Accepting
      <4>3. task[q].id = s => s \in met
        BY <1>2, <1>4, <3>2, InHookTask DEF HookMeetings, HookSubject, HookOutside
      <4>4. Told(s) => Told(s)'
        <5>1. kv'[s] = kv[s] \/ published'[s] = published[s] + 1
          BY <1>10, <1>12
        <5> QED BY <1>12, <2>1, <5>1 DEF Told
      <4>5. task[q].id = s /\ task[q].at = "duplicate" => Told(s)'
        BY <3>2, <4>1, <4>4 DEF Accepts
      <4>6. (task[q].at = "duplicate" => Told(task[q].id))'
        <5>1. CASE task[q].id = s
          BY <4>1, <4>5, <5>1 DEF Told
        <5>2. CASE task[q].id # s
          BY <3>2, <4>1, <4>2, <5>2 DEF Accepts, Told
        <5> QED BY <5>1, <5>2
      <4> QED BY <1>6, <3>2, <4>1, <4>2, <4>3, <4>6 DEF Accepts
    <3>3. CASE q # p /\ task[q].op # "accept"
      BY <1>6, <3>3 DEF Accepts, Moves
    <3> QED BY <3>1, <3>2, <3>3
  <2> QED BY <2>4, <2>5 DEF AcceptOK
<1>15. DispatchOK' /\ ManageOK' /\ DeliverOK'
  BY <1>1, <1>5, <1>6, <1>7, <1>8, OnlyAccepts
<1> QED BY <1>6, <1>13, <1>14, <1>15 DEF HooksInv
-----------------------------------------------------------------------------
(* The subscription. *)
LEMMA OnlyDispatches ==
  ASSUME HooksInv, NEW p \in Procs, Moves(p), UNCHANGED <<published, accepted, received, log, skipped, steady, off, rows>>,
         \A s \in Sources : kv'[s] = kv[s], KeptJobs,
         \A d \in Deliveries : IF job[d] # None THEN job'[d] = job[d] ELSE job'[d] = None \/ job'[d].status = "pending",
         task'[p].op \in {"idle", "dispatch"}, tx'[p] # None => DOMAIN tx'[p].docs = {}
  PROVE  AcceptOK' /\ ManageOK' /\ DeliverOK'
<1>1. AcceptOK'
  BY AcceptElse DEF Accepts
<1>2. ManageOK'
  BY ManageElse DEF Manages, HooksInv, HooksTypeOK
<1>3. DeliverOK'
  BY DeliverElse DEF HooksInv, HooksTypeOK
<1> QED BY <1>1, <1>2, <1>3

LEMMA SubscriptionStep ==
  ASSUME HooksInv, NEW p \in Procs, Moves(p), NEW t, task'[p] = t, NEW w, tx'[p] = w, t.op = "dispatch", DOMAIN w.docs = {},
         UNCHANGED <<published, accepted, received, log, skipped, steady, off, rows, kv, emitted, job>>, Prepares(t, w)',
         \A q \in Procs \ {p} : task[q].op = "dispatch" => t.jobs = Hook!Nothing \/ DOMAIN t.jobs \cap DOMAIN task[q].jobs = {}
  PROVE  AcceptOK' /\ DispatchOK' /\ ManageOK' /\ DeliverOK'
<1>1. KeptJobs /\ SameJobs
  BY DEF SameJobs, KeptJobs
<1>2. AcceptOK' /\ ManageOK' /\ DeliverOK'
  BY <1>1, OnlyDispatches
<1>3. \A e \in Events : Dispatched(e)'
  BY <1>1, DispatchedStays DEF HooksInv, DispatchOK, Moves
<1>4. ASSUME NEW q \in Procs PROVE Prepares(task[q], tx[q])'
  <2>1. CASE q = p
    BY <2>1 DEF Prepares, Batch, Marks
  <2>2. CASE q # p
    <3>1. Prepares(task[q], tx[q]) /\ task'[q] = task[q] /\ tx'[q] = tx[q] /\ met \subseteq met' /\ HooksTypeOK /\ HookFrames
      BY <2>2 DEF HooksInv, DispatchOK, Moves
    <3>2. PICK u, v : u = task[q] /\ v = tx[q]
      OBVIOUS
    <3>3. Prepares(u, v)'
      BY <1>1, <3>1, <3>2, PreparesStays DEF HooksInv, HooksTypeOK
    <3> QED BY <3>1, <3>2, <3>3 DEF Prepares, Batch, Marks
  <2> QED BY <2>1, <2>2
<1>5. OneBatch'
  <2>1. \A q \in Procs \ {p} : task'[q].op = "dispatch" => DOMAIN task'[p].jobs \cap DOMAIN task'[q].jobs = {}
    BY NothingIs DEF Moves
  <2> QED BY <2>1 DEF HooksInv, DispatchOK, OneBatch, Moves
<1> QED BY <1>2, <1>3, <1>4, <1>5 DEF DispatchOK

LEMMA DispatchStep ==
  ASSUME WebhookAssumption, HooksInv, NEW p \in Procs, NEW e \in Events, Hook!Dispatch(p, e)
  PROVE  HooksInv'
<1> DEFINE t == [op |-> "dispatch", at |-> "marker", id |-> e, jobs |-> Hook!Nothing]
<1>1. /\ Hook!Start(p, t, Hook!Marker(e)) /\ e \in emitted
      /\ UNCHANGED <<published, accepted, emitted, steady, job, received, log, skipped, off>>
  BY DEF Hook!Dispatch
<1>2. Hook!Nothing \in Batches
  <2>1. Hook!Nothing \in [{} -> Hook!Jobs]
    BY DEF Hook!Nothing
  <2> QED BY <2>1, BatchMade
<1>3. /\ t \in HookTasks /\ ~HookOutside(t) /\ Hook!Marker(e) = HookSubject(t)
      /\ t.op = "dispatch" /\ t.at = "marker" /\ t.id = e /\ t.jobs = Hook!Nothing
  BY <1>2 DEF HookTasks, Dispatching, HookOutside, HookSubject
<1> HIDE DEF t
<1>4. /\ task' \in [Procs -> HookTasks] /\ tx' = [q \in Procs |-> tx'[q]] /\ HookFrames' /\ HookMeetings'
      /\ task'[p] = t /\ tx'[p] = Fresh(Hook!Marker(e)) /\ Moves(p) /\ UNCHANGED <<rows, kv>>
  BY <1>1, <1>3, Begins DEF HooksInv
<1>5. HooksTypeOK'
  BY <1>1, <1>4 DEF HooksInv, HooksTypeOK
<1> DEFINE w == Fresh(Hook!Marker(e))
<1>6. DOMAIN w.docs = {} /\ DOMAIN w.keys = {}
  BY NothingIs DEF Fresh
<1> HIDE DEF w
<1>7. Prepares(t, w)'
  BY <1>1, <1>3, <1>6, NothingIs DEF Prepares, Batch, Marks
<1>8. AcceptOK' /\ DispatchOK' /\ ManageOK' /\ DeliverOK'
  BY <1>1, <1>3, <1>4, <1>6, <1>7, SubscriptionStep DEF w
<1> QED BY <1>4, <1>5, <1>8 DEF HooksInv

LEMMA DispatchMarkerStep ==
  ASSUME WebhookAssumption, HooksInv, NEW p \in Procs, Hook!DispatchMarker(p)
  PROVE  HooksInv'
<1> DEFINE m == Hook!Marker(task[p].id)
           place == IF Hook!KvGet(p, m) = None THEN "find" ELSE "commit"
<1> PICK t, w : t = [task[p] EXCEPT !.at = place] /\ w = tx[p]
  OBVIOUS
<1>1. /\ task[p].op = "dispatch" /\ task[p].at = "marker" /\ task' = [task EXCEPT ![p] = t] /\ tx' = tx /\ met' = met
      /\ UNCHANGED <<published, accepted, emitted, steady, job, received, log, skipped, off, rows, kv>>
  BY DEF Hook!DispatchMarker, Hook!At, Hook!Goto, Hook!storeVars, HooksInv, HooksTypeOK
<1>2. task[p] \in Dispatching /\ task[p].id \in Events /\ HooksTypeOK /\ HookFrames /\ HookMeetings
  BY <1>1, HookTaskOf DEF HooksInv, Dispatching
<1>3. place \in {"find", "commit"}
  OBVIOUS
<1>4. DOMAIN w.keys = {} /\ w # None /\ Shaped(w) /\ w.about = m /\ DOMAIN w.docs = {}
  BY <1>1, <1>2, InHookTask DEF HookOutside, Sets, HookWrites, Manages, HookSubject
<1>5. place = "find" => kv[m] = None
  <2>1. m \in Keys /\ kv[m] \in {None, Seen}
    BY <1>2 DEF HooksTypeOK, WebhookAssumption, Hook!WebhookConstants
  <2>2. Hook!Entry(p, m) = kv[m]
    BY <1>2, <1>4, <2>1 DEF Hook!Entry, Hook!Over, HooksTypeOK
  <2>3. Seen.value = TRUE /\ Seen.alive = TRUE
    BY DEF Seen
  <2> QED BY <2>1, <2>2, <2>3 DEF Hook!KvGet, WebhookAssumption, Hook!WebhookConstants
<1> HIDE DEF place
<1>6. t \in Dispatching /\ t.op = "dispatch" /\ t.at = place /\ t.id = task[p].id /\ t.jobs = task[p].jobs
  BY <1>1, <1>2, <1>3 DEF Dispatching
<1>7. t \in HookTasks /\ Framed(t, w)
  BY <1>3, <1>4, <1>6 DEF HookTasks, Framed, HookOutside, Sets, HookWrites, HookSubject
<1>8. /\ task' \in [Procs -> HookTasks] /\ tx' = [q \in Procs |-> tx'[q]] /\ HookFrames' /\ HookMeetings'
      /\ task'[p] = t /\ tx'[p] = w /\ Moves(p)
  BY <1>1, <1>2, <1>7, NoTxStep
<1>9. HooksTypeOK'
  BY <1>1, <1>2, <1>8 DEF HooksTypeOK
<1>10. Prepares(task[p], w)
  BY DEF HooksInv, DispatchOK
<1>11. DOMAIN t.jobs = {}
  BY <1>1, <1>4, <1>6, <1>10 DEF Prepares, Marks
<1>12. kv' = kv /\ emitted' = emitted /\ met' = met
  BY <1>1
<1>13. Prepares(t, w)'
  BY <1>1, <1>3, <1>4, <1>5, <1>6, <1>10, <1>11, <1>12 DEF Prepares, Batch, Marks
<1>14. AcceptOK' /\ DispatchOK' /\ ManageOK' /\ DeliverOK'
  <2>1. \A q \in Procs \ {p} : task[q].op = "dispatch" => t.jobs = Hook!Nothing \/ DOMAIN t.jobs \cap DOMAIN task[q].jobs = {}
    BY <1>11
  <2>2. UNCHANGED <<published, accepted, received, log, skipped, steady, off, rows, kv, emitted, job>>
    BY <1>1
  <2>3. t.op = "dispatch" /\ task'[p] = t /\ tx'[p] = w /\ DOMAIN w.docs = {} /\ Moves(p)
    BY <1>4, <1>6, <1>8
  <2> QED BY <1>13, <2>1, <2>2, <2>3, SubscriptionStep
<1> QED BY <1>8, <1>9, <1>14 DEF HooksInv

LEMMA EnqueueStep ==
  ASSUME WebhookAssumption, HooksInv, NEW p \in Procs, Hook!EnqueueDeliveries(p)
  PROVE  HooksInv'
<1>1. /\ task[p].op = "dispatch" /\ task[p].at = "find"
      /\ UNCHANGED <<published, accepted, emitted, steady, job, received, log, skipped, off, rows, kv, tx, met>>
  BY DEF Hook!EnqueueDeliveries, Hook!At, Hook!storeVars
<1>2. task[p] \in Dispatching /\ HooksTypeOK /\ HookFrames /\ HookMeetings
  BY <1>1, HookTaskOf DEF HooksInv
<1>3. PICK e \in Events : e = task[p].id
  BY <1>2 DEF Dispatching
<1> DEFINE chosen == {h \in Hook!Found(p, "hook") : Hook!Doc(p, h).active /\ Hook!Wants(Hook!Doc(p, h), task[p].id)}
           makes(ids) == [task EXCEPT ![p].at = "mark",
             ![p].jobs = [d \in {ids[h] : h \in chosen} |-> Hook!NewJob(CHOOSE h \in chosen : ids[h] = d, task[p].id)]]
           apart == {f \in [chosen -> Hook!FreshDeliveries] : \A g, h \in chosen : g # h => f[g] # f[h]}
<1>30. \E ids \in apart : task' = makes(ids)
  BY DEF Hook!EnqueueDeliveries
<1>4. PICK ids \in apart : task' = makes(ids)
  <2> HIDE DEF apart, makes
  <2> QED BY <1>30
<1>31. task' = [task EXCEPT ![p].at = "mark",
         ![p].jobs = [d \in {ids[h] : h \in chosen} |-> Hook!NewJob(CHOOSE h \in chosen : ids[h] = d, e)]]
  BY <1>3, <1>4
<1>32. ids \in [chosen -> Hook!FreshDeliveries] /\ \A g, h \in chosen : g # h => ids[g] # ids[h]
  BY <1>4
<1> HIDE DEF makes, apart
<1>5. PICK w : w = tx[p]
  OBVIOUS
<1>6. DOMAIN w.keys = {} /\ w # None /\ Shaped(w) /\ w.about = Hook!Marker(e) /\ DOMAIN w.docs = {}
  BY <1>1, <1>2, <1>3, <1>5, InHookTask DEF HookOutside, Sets, HookWrites, Manages, HookSubject
<1>7. \A h \in Hook!Hooks : Hook!Doc(p, h) = rows[h]
  BY <1>2, <1>5, <1>6 DEF Hook!Doc, Hook!Over, HooksTypeOK
<1>8. chosen \subseteq Hook!Hooks
  BY DEF Hook!Found, Hook!Hooks
<1>9. \A h \in steady[e] : h \in chosen
  <2> SUFFICES ASSUME NEW h \in steady[e] PROVE h \in chosen
    OBVIOUS
  <2>1. h \in Hook!Hooks /\ rows[h] \in Hook!HookDocs /\ rows[h].active /\ Hook!Wants(rows[h], e)
    BY <1>2 DEF HooksInv, ManageOK, Wanting, HooksTypeOK
  <2>2. Hook!Exists(rows[h]) /\ rows[h].coll = "hook"
    BY <2>1 DEF WebhookAssumption, Hook!WebhookConstants, Hook!HookDocs
  <2> QED BY <1>3, <1>7, <2>1, <2>2 DEF Hook!Found, Hook!Hooks
<1> HIDE DEF chosen
<1>10. PICK jobs : jobs = [d \in {ids[h] : h \in chosen} |-> Hook!NewJob(CHOOSE h \in chosen : ids[h] = d, e)]
  OBVIOUS
<1>11. DOMAIN jobs = {ids[h] : h \in chosen} /\ DOMAIN jobs \subseteq Hook!FreshDeliveries
  BY <1>10, <1>32
<1>12. \A h \in chosen : ids[h] \in DOMAIN jobs /\ jobs[ids[h]] = Hook!NewJob(h, e)
  <2> SUFFICES ASSUME NEW h \in chosen PROVE ids[h] \in DOMAIN jobs /\ jobs[ids[h]] = Hook!NewJob(h, e)
    OBVIOUS
  <2>1. (CHOOSE g \in chosen : ids[g] = ids[h]) = h
    BY <1>32
  <2>2. ids[h] \in DOMAIN jobs
    BY <1>11
  <2> QED BY <1>10, <2>1, <2>2
<1>13. \A d \in DOMAIN jobs : \E h \in chosen : d = ids[h] /\ jobs[d] = Hook!NewJob(h, e)
  BY <1>11, <1>12
<1>14. \A h \in chosen : Hook!NewJob(h, e) \in Hook!Jobs /\ Hook!NewJob(h, e).hook = h /\ Hook!NewJob(h, e).event = e /\ Hook!NewJob(h, e).status = "pending"
  BY <1>8 DEF Hook!NewJob, Hook!Jobs
<1>15. jobs \in Batches
  <2>1. jobs \in [DOMAIN jobs -> Hook!Jobs]
    BY <1>10, <1>13, <1>14
  <2>2. DOMAIN jobs \in SUBSET Deliveries
    BY <1>11 DEF Hook!FreshDeliveries
  <2> QED BY <2>1, <2>2, BatchMade
<1>16. PICK t : t = [task[p] EXCEPT !.at = "mark", !.jobs = jobs]
  OBVIOUS
<1>17. task' = [task EXCEPT ![p] = t]
  BY <1>2, <1>10, <1>16, <1>31 DEF HooksTypeOK
<1>18. t \in Dispatching /\ t.op = "dispatch" /\ t.at = "mark" /\ t.id = e /\ t.jobs = jobs
  BY <1>2, <1>3, <1>15, <1>16 DEF Dispatching
<1>19. t \in HookTasks /\ Framed(t, w)
  BY <1>6, <1>18 DEF HookTasks, Framed, HookOutside, Sets, HookWrites, HookSubject
<1>20. /\ task' \in [Procs -> HookTasks] /\ tx' = [q \in Procs |-> tx'[q]] /\ HookFrames' /\ HookMeetings'
       /\ task'[p] = t /\ tx'[p] = w /\ Moves(p)
  BY <1>1, <1>2, <1>5, <1>17, <1>19, NoTxStep
<1>21. HooksTypeOK'
  BY <1>1, <1>2, <1>20 DEF HooksTypeOK
<1>22. Prepares(task[p], tx[p])
  BY DEF HooksInv, DispatchOK
<1>23. Batch(t)
  <2>1. ASSUME NEW d \in DOMAIN jobs PROVE job[d] = None /\ jobs[d].event = e /\ jobs[d].status = "pending"
    BY <1>11, <1>13, <1>14 DEF Hook!FreshDeliveries
  <2>2. ASSUME NEW c \in DOMAIN jobs, NEW d \in DOMAIN jobs, jobs[c].hook = jobs[d].hook PROVE c = d
    BY <1>13, <1>14, <2>2
  <2> QED BY <1>18, <2>1, <2>2 DEF Batch
<1>24. \A h \in steady[e] : \E d \in DOMAIN jobs : jobs[d].hook = h
  BY <1>9, <1>12, <1>14
<1>25. Prepares(t, w)
  BY <1>1, <1>3, <1>18, <1>22, <1>23, <1>24 DEF Prepares, Marks
<1>26. job' = job /\ emitted' = emitted /\ kv' = kv /\ met' = met /\ steady' = steady
  BY <1>1
<1>27. Prepares(t, w)'
  BY <1>25, <1>26 DEF Prepares, Batch, Marks
<1>28. \A q \in Procs \ {p} : task[q].op = "dispatch" => t.jobs = Hook!Nothing \/ DOMAIN t.jobs \cap DOMAIN task[q].jobs = {}
  BY <1>11, <1>18 DEF Hook!FreshDeliveries
<1>29. AcceptOK' /\ DispatchOK' /\ ManageOK' /\ DeliverOK'
  <2>1. UNCHANGED <<published, accepted, received, log, skipped, steady, off, rows, kv, emitted, job>>
    BY <1>1
  <2>2. t.op = "dispatch" /\ task'[p] = t /\ tx'[p] = w /\ DOMAIN w.docs = {} /\ Moves(p)
    BY <1>6, <1>18, <1>20
  <2> QED BY <1>27, <1>28, <2>1, <2>2, SubscriptionStep
<1> QED BY <1>20, <1>21, <1>29 DEF HooksInv

LEMMA DispatchMarkStep ==
  ASSUME WebhookAssumption, HooksInv, NEW p \in Procs, Hook!DispatchMark(p)
  PROVE  HooksInv'
<1>1. /\ task[p].op = "dispatch" /\ task[p].at = "mark" /\ Hook!KvSet(p, Hook!Marker(task[p].id), TRUE)
      /\ UNCHANGED <<published, accepted, emitted, steady, job, received, log, skipped, off>>
  BY DEF Hook!DispatchMark, Hook!At
<1>2. task[p] \in Dispatching /\ HooksTypeOK /\ HookFrames /\ HookMeetings
  BY <1>1, HookTaskOf DEF HooksInv
<1>3. PICK e \in Events : e = task[p].id
  BY <1>2 DEF Dispatching
<1>4. /\ DOMAIN tx[p].keys = {} /\ tx[p] # None /\ Shaped(tx[p]) /\ tx[p].about = Hook!Marker(e) /\ DOMAIN tx[p].docs = {}
  BY <1>1, <1>2, <1>3, InHookTask DEF HookOutside, Sets, HookWrites, Manages, HookSubject
<1>5. UNCHANGED <<rows, kv, met>>
  BY <1>1, <1>2, <1>4, KeySet
<1>6. PICK w : /\ tx' = [tx EXCEPT ![p] = w] /\ Shaped(w) /\ w.about = tx[p].about /\ w.docs = tx[p].docs
               /\ DOMAIN w.keys = {Hook!Marker(e)} /\ w.keys[Hook!Marker(e)] = Seen
  BY <1>1, <1>2, <1>3, <1>4, KeySet
<1>7. PICK t : t = [task[p] EXCEPT !.at = "commit"]
  OBVIOUS
<1>8. task' = [task EXCEPT ![p] = t]
  BY <1>2, <1>7 DEF Hook!DispatchMark, Hook!Goto, HooksTypeOK
<1>9. t \in Dispatching /\ t.op = "dispatch" /\ t.at = "commit" /\ t.id = e /\ t.jobs = task[p].jobs
  BY <1>2, <1>3, <1>7 DEF Dispatching
<1>10. t \in HookTasks /\ Framed(t, w)
  BY <1>4, <1>6, <1>9 DEF HookTasks, Framed, HookOutside, Sets, HookWrites, HookSubject
<1>11. w # None
  BY <1>6 DEF WebhookAssumption
<1>12. /\ task' \in [Procs -> HookTasks] /\ tx' = [q \in Procs |-> tx'[q]] /\ HookFrames' /\ HookMeetings'
       /\ task'[p] = t /\ tx'[p] = w /\ Moves(p)
  BY <1>2, <1>4, <1>5, <1>6, <1>8, <1>10, SameTx
<1>13. HooksTypeOK'
  BY <1>1, <1>2, <1>5, <1>12 DEF HooksTypeOK
<1>14. Prepares(task[p], tx[p])
  BY DEF HooksInv, DispatchOK
<1>15. Prepares(t, w)
  BY <1>1, <1>3, <1>6, <1>9, <1>14 DEF Prepares, Batch, Marks
<1>16. job' = job /\ emitted' = emitted /\ kv' = kv /\ met' = met /\ steady' = steady
  BY <1>1, <1>5
<1>17. Prepares(t, w)'
  BY <1>15, <1>16 DEF Prepares, Batch, Marks
<1>18. \A q \in Procs \ {p} : task[q].op = "dispatch" => t.jobs = Hook!Nothing \/ DOMAIN t.jobs \cap DOMAIN task[q].jobs = {}
  BY <1>1, <1>9 DEF HooksInv, DispatchOK, OneBatch
<1>19. AcceptOK' /\ DispatchOK' /\ ManageOK' /\ DeliverOK'
  <2>1. UNCHANGED <<published, accepted, received, log, skipped, steady, off, rows, kv, emitted, job>>
    BY <1>1, <1>5
  <2>2. t.op = "dispatch" /\ task'[p] = t /\ tx'[p] = w /\ DOMAIN w.docs = {} /\ Moves(p)
    BY <1>4, <1>6, <1>9, <1>12
  <2> QED BY <1>17, <1>18, <2>1, <2>2, SubscriptionStep
<1> QED BY <1>12, <1>13, <1>19 DEF HooksInv

LEMMA DispatchCommitStep ==
  ASSUME WebhookAssumption, HooksInv, NEW p \in Procs, Hook!DispatchCommit(p)
  PROVE  HooksInv'
<1>1. /\ task[p].op = "dispatch" /\ task[p].at = "commit" /\ task' = [task EXCEPT ![p] = Hook!Idle] /\ Hook!Commit(p)
      /\ job' = Hook!Over(task[p].jobs, job)
      /\ UNCHANGED <<published, accepted, emitted, steady, received, log, skipped, off>>
  BY DEF Hook!DispatchCommit, Hook!At, Hook!Rest
<1>2. task[p] \in Dispatching /\ HooksTypeOK /\ HookFrames /\ HookMeetings
  BY <1>1, HookTaskOf DEF HooksInv
<1>3. PICK e \in Events : e = task[p].id
  BY <1>2 DEF Dispatching
<1>4. PICK jobs \in Batches : jobs = task[p].jobs
  BY <1>2 DEF Dispatching
<1>5. PICK w : w = tx[p]
  OBVIOUS
<1>6. /\ w # None /\ w.about = Hook!Marker(e) /\ DOMAIN w.docs = {} /\ DOMAIN w.keys \subseteq {Hook!Marker(e)}
  BY <1>1, <1>2, <1>3, <1>5, InHookTask DEF HookOutside, Sets, HookWrites, Manages, HookSubject
<1>7. Hook!Idle \in HookTasks /\ HookOutside(Hook!Idle) /\ Hook!Idle.op = "idle"
  BY DEF HookTasks, HookOutside, Hook!Idle
<1>8. /\ task' \in [Procs -> HookTasks] /\ tx' = [q \in Procs |-> tx'[q]] /\ HookFrames' /\ HookMeetings'
      /\ task'[p] = Hook!Idle /\ tx'[p] = None /\ Moves(p) /\ met' = met
      /\ rows' \in [Hook!Hooks -> Hook!HookDocs \cup {Unused, Gone}]
      /\ \A h \in Hook!Hooks : rows'[h] = IF h \in DOMAIN w.docs THEN w.docs[h] ELSE rows[h]
      /\ kv' = [k \in Keys |-> kv'[k]]
      /\ \A k \in Keys : kv'[k] = IF k \in DOMAIN w.keys THEN Seen ELSE kv[k]
  BY <1>1, <1>2, <1>5, <1>7, Commits
<1>9. rows' = rows
  BY <1>2, <1>6, <1>8 DEF HooksTypeOK
<1>10. /\ Seen # None /\ \A f \in Events : Hook!Marker(f) \in Keys \ Sources /\ (f # e => Hook!Marker(f) # Hook!Marker(e))
       /\ Sources \subseteq Keys /\ None \notin Hook!Jobs
  BY DEF WebhookAssumption, Hook!WebhookConstants, Seen, Hook!Marker
<1>11. \A s \in Sources : kv'[s] = kv[s]
  BY <1>6, <1>8, <1>10
<1>12. \A f \in Events \ {e} : kv'[Hook!Marker(f)] = kv[Hook!Marker(f)]
  BY <1>6, <1>8, <1>10
<1>13. kv'[Hook!Marker(e)] = IF DOMAIN w.keys # {} THEN Seen ELSE kv[Hook!Marker(e)]
  BY <1>6, <1>8, <1>10
<1>14. /\ DOMAIN jobs \subseteq Deliveries /\ \A d \in DOMAIN jobs : jobs[d] \in Hook!Jobs
  BY BatchIs
<1>15. /\ job' \in [Deliveries -> Hook!Jobs \cup {None}]
       /\ \A d \in Deliveries : job'[d] = IF d \in DOMAIN jobs THEN jobs[d] ELSE job[d]
  <2> DEFINE g == Hook!Over(jobs, job)
  <2>1. /\ g = [x \in DOMAIN jobs \cup DOMAIN job |-> g[x]]
        /\ \A x \in DOMAIN jobs : g[x] = jobs[x]
        /\ \A x \in DOMAIN job \ DOMAIN jobs : g[x] = job[x]
    BY DEF Hook!Over
  <2>2. job' = g
    BY <1>1, <1>4
  <2>3. job \in [Deliveries -> Hook!Jobs \cup {None}]
    BY <1>2 DEF HooksTypeOK
  <2> HIDE DEF g
  <2>4. DOMAIN jobs \cup DOMAIN job = Deliveries
    BY <1>14, <2>3
  <2> QED BY <1>14, <2>1, <2>2, <2>3, <2>4
<1>16. Prepares(task[p], w)
  BY <1>5 DEF HooksInv, DispatchOK
<1>17. /\ e \in emitted /\ \A d \in DOMAIN jobs : job[d] = None /\ jobs[d].event = e /\ jobs[d].status = "pending"
       /\ \A c, d \in DOMAIN jobs : jobs[c].hook = jobs[d].hook => c = d
       /\ DOMAIN w.keys = {} => DOMAIN jobs = {}
       /\ DOMAIN w.keys # {} =>
            /\ Hook!Marker(e) \notin met => kv[Hook!Marker(e)] = None
            /\ \A h \in steady[e] : \E d \in DOMAIN jobs : jobs[d].hook = h
  BY <1>1, <1>3, <1>4, <1>16 DEF Prepares, Batch, Marks
<1>18. HooksTypeOK'
  <2>1. \A f \in Events : kv'[Hook!Marker(f)] \in {None, Seen}
    BY <1>2, <1>12, <1>13 DEF HooksTypeOK
  <2> QED BY <1>1, <1>2, <1>8, <1>9, <1>11, <1>15, <2>1 DEF HooksTypeOK
<1>19. KeptJobs /\ \A d \in Deliveries : IF job[d] # None THEN job'[d] = job[d] ELSE job'[d] = None \/ job'[d].status = "pending"
  BY <1>15, <1>17 DEF KeptJobs
<1>20. AcceptOK' /\ ManageOK' /\ DeliverOK'
  BY <1>1, <1>7, <1>8, <1>9, <1>11, <1>19, OnlyDispatches
<1>21. ASSUME NEW f \in Events \ {e} PROVE Dispatched(f)'
  <2>1. \A d \in Deliveries : (Has(d, f)' <=> Has(d, f)) /\ (Has(d, f) => job'[d].hook = job[d].hook)
    BY <1>15, <1>17 DEF Has
  <2>2. Dispatched(f) /\ kv'[Hook!Marker(f)] = kv[Hook!Marker(f)] /\ steady'[f] = steady[f] /\ emitted' = emitted /\ met' = met
    BY <1>1, <1>8, <1>12 DEF HooksInv, DispatchOK
  <2> QED BY <2>1, <2>2 DEF Dispatched
<1>22. Dispatched(e)'
  <2>1. Dispatched(e) /\ steady' = steady /\ emitted' = emitted /\ met' = met
    BY <1>1, <1>8 DEF HooksInv, DispatchOK
  <2>2. CASE DOMAIN w.keys = {}
    <3>1. \A d \in Deliveries : (Has(d, e)' <=> Has(d, e)) /\ (Has(d, e) => job'[d].hook = job[d].hook)
      BY <1>15, <1>17, <2>2 DEF Has
    <3>2. kv'[Hook!Marker(e)] = kv[Hook!Marker(e)]
      BY <1>13, <2>2
    <3> QED BY <2>1, <3>1, <3>2 DEF Dispatched
  <2>3. CASE DOMAIN w.keys # {} /\ Hook!Marker(e) \notin met
    <3>1. \A d \in Deliveries : ~Has(d, e)
      BY <1>17, <2>1, <2>3 DEF Dispatched
    <3>2. \A d \in Deliveries : Has(d, e)' => d \in DOMAIN jobs
      BY <1>15, <3>1 DEF Has
    <3>3. \A d \in DOMAIN jobs : Has(d, e)' /\ job'[d].hook = jobs[d].hook
      BY <1>10, <1>14, <1>15, <1>17 DEF Has
    <3>4. \A c, d \in Deliveries : Has(c, e)' /\ Has(d, e)' /\ job'[c].hook = job'[d].hook => c = d
      BY <1>17, <3>2, <3>3
    <3>5. \A h \in steady[e] : \E d \in Deliveries : Has(d, e)' /\ job'[d].hook = h
      BY <1>14, <1>17, <2>3, <3>3
    <3>6. kv'[Hook!Marker(e)] # None
      BY <1>10, <1>13, <2>3
    <3> QED BY <1>17, <2>1, <3>4, <3>5, <3>6 DEF Dispatched
  <2>4. CASE DOMAIN w.keys # {} /\ Hook!Marker(e) \in met
    BY <1>17, <2>1, <2>4 DEF Dispatched
  <2> QED BY <2>2, <2>3, <2>4
<1>23. ASSUME NEW q \in Procs PROVE Prepares(task[q], tx[q])'
  <2>1. CASE q = p \/ task[q].op # "dispatch"
    BY <1>7, <1>8, <2>1 DEF Prepares, Moves
  <2>2. CASE q # p /\ task[q].op = "dispatch"
    <3>1. PICK u, v : u = task[q] /\ v = tx[q]
      OBVIOUS
    <3>2. Prepares(u, v) /\ u.op = "dispatch" /\ u \in Dispatching /\ u.id \in Events /\ task'[q] = u /\ tx'[q] = v
      BY <1>2, <1>8, <2>2, <3>1, HookTaskOf DEF HooksInv, DispatchOK, Moves, Dispatching
    <3>3. u.id = e => Hook!Marker(e) \in met
      <4>1. v # None /\ v.about = Hook!Marker(u.id)
        BY <2>2, <3>1, InHookTask DEF HookOutside, HookSubject
      <4> QED BY <1>2, <1>5, <1>6, <2>2, <3>1, <4>1 DEF HookMeetings
    <3>4. DOMAIN u.jobs \subseteq Deliveries /\ DOMAIN u.jobs \cap DOMAIN jobs = {}
      <4>1. u.jobs \in Batches
        BY <3>2 DEF Dispatching
      <4>2. DOMAIN task[p].jobs \cap DOMAIN task[q].jobs = {}
        BY <1>1, <2>2 DEF HooksInv, DispatchOK, OneBatch
      <4> QED BY <1>4, <3>1, <4>1, <4>2, BatchIs
    <3>5. Batch(u)'
      <4>1. Batch(u)
        BY <3>2 DEF Prepares
      <4>2. \A d \in DOMAIN u.jobs : job'[d] = job[d]
        BY <1>15, <3>4
      <4> QED BY <4>1, <4>2 DEF Batch
    <3>6. Hook!Marker(u.id) \notin met => kv'[Hook!Marker(u.id)] = kv[Hook!Marker(u.id)]
      BY <1>12, <3>2, <3>3
    <3>7. steady' = steady /\ emitted' = emitted /\ met' = met
      BY <1>1, <1>8
    <3>8. Prepares(u, v)'
      BY <3>2, <3>5, <3>6, <3>7 DEF Prepares, Marks
    <3> QED BY <3>2, <3>8 DEF Prepares, Batch, Marks
  <2> QED BY <2>1, <2>2
<1>24. OneBatch'
  BY <1>7, <1>8 DEF HooksInv, DispatchOK, OneBatch, Moves
<1>25. DispatchOK'
  BY <1>21, <1>22, <1>23, <1>24 DEF DispatchOK
<1> QED BY <1>8, <1>18, <1>20, <1>25 DEF HooksInv
-----------------------------------------------------------------------------
(* Requests to change hooks. *)
LEMMA ManagingStep ==
  ASSUME HooksInv, NEW p \in Procs, Moves(p), NEW t, task'[p] = t, NEW w, tx'[p] = w, Manages(t),
         UNCHANGED <<published, accepted, received, log, skipped, steady, off, rows, kv, emitted, job>>, Finds(t, w)',
         \A h \in Hook!Hooks : Dead(h) =>
           /\ t.op = "update" /\ t.at = "write" /\ t.id = h => ~t.read.active
           /\ h \in DOMAIN w.docs => ~Hook!Deliverable(w.docs[h])
  PROVE  AcceptOK' /\ DispatchOK' /\ ManageOK' /\ DeliverOK'
<1>1. KeptJobs /\ SameJobs
  BY DEF SameJobs, KeptJobs
<1>2. t.op \notin {"accept", "dispatch", "deliver"}
  BY DEF Manages
<1>3. AcceptOK'
  BY <1>2, AcceptElse DEF Accepts
<1>4. DispatchOK'
  BY <1>1, <1>2, DispatchElse
<1>5. DeliverOK'
  BY <1>2, DeliverElse DEF HooksInv, HooksTypeOK
<1>6. Wanting'
  BY DEF HooksInv, ManageOK, Wanting
<1>7. ASSUME NEW q \in Procs PROVE Finds(task[q], tx[q])'
  <2>1. CASE q = p
    BY <2>1 DEF Finds, Hook!Deliverable, Hook!Exists, Hook!Over
  <2>2. CASE q # p
    <3>1. Finds(task[q], tx[q]) /\ task'[q] = task[q] /\ tx'[q] = tx[q] /\ met \subseteq met'
      BY <2>2 DEF HooksInv, ManageOK, Moves
    <3> QED BY <3>1 DEF Finds, Hook!Deliverable, Hook!Exists, Hook!Over
  <2> QED BY <2>1, <2>2
<1>8. ASSUME NEW h \in Hook!Hooks, Dead(h) PROVE Dead(h)'
  <2>1. rows'[h] # Unused /\ ~Hook!Deliverable(rows'[h])
    BY <1>8 DEF Dead
  <2> QED BY <1>8, <2>1, DeadStays
<1>9. (\A h \in off \ met : Dead(h))'
  <2>1. off \subseteq Hook!Hooks /\ off' = off /\ met \subseteq met'
    BY DEF HooksInv, HooksTypeOK, Moves
  <2> QED BY <1>8, <2>1 DEF HooksInv, ManageOK
<1>10. Spared'
  BY <1>1, <1>2, <1>8, SparedStays
<1> QED BY <1>3, <1>4, <1>5, <1>6, <1>7, <1>9, <1>10 DEF ManageOK

LEMMA HookRequestStep ==
  ASSUME WebhookAssumption, HooksInv, NEW p \in Procs, NEW h \in Hook!Hooks, Hook!Request(p, h)
  PROVE  HooksInv'
<1> DEFINE registers(t) == t = [op |-> "register", at |-> "insert", id |-> h]
           updates(t) == \E patch \in Hook!Patches : t = [op |-> "update", at |-> "find", id |-> h, patch |-> patch, read |-> None]
           deletes(t) == t = [op |-> "delete", at |-> "find", id |-> h, read |-> None]
           begins(t) == Hook!Start(p, t, h) /\ UNCHANGED <<published, accepted, emitted, steady, job, received, log, skipped, off>>
<1>10. ASSUME NEW t, NEW method, NEW segments, Hook!Manage(p, h, method, segments, t) PROVE begins(t)
  BY <1>10 DEF Hook!Manage
<1>11. \E t : (registers(t) \/ updates(t) \/ deletes(t)) /\ begins(t)
  <2> HIDE DEF begins
  <2>1. CASE Hook!Manage(p, h, "POST", <<>>, [op |-> "register", at |-> "insert", id |-> h])
    BY <1>10, <2>1
  <2>2. CASE \E patch \in Hook!Patches :
               Hook!Manage(p, h, "PATCH", <<h>>, [op |-> "update", at |-> "find", id |-> h, patch |-> patch, read |-> None])
    BY <1>10, <2>2
  <2>3. CASE Hook!Manage(p, h, "DELETE", <<h>>, [op |-> "delete", at |-> "find", id |-> h, read |-> None])
    BY <1>10, <2>3
  <2> QED BY <2>1, <2>2, <2>3 DEF Hook!Request
<1>12. PICK t : (registers(t) \/ updates(t) \/ deletes(t)) /\ begins(t)
  BY <1>11
<1>1. Hook!Start(p, t, h) /\ UNCHANGED <<published, accepted, emitted, steady, job, received, log, skipped, off>>
  BY <1>12
<1>2. t \in HookTasks /\ Manages(t) /\ t.at \in {"insert", "find"} /\ h = HookSubject(t) /\ t.id = h
  <2>1. CASE registers(t)
    BY <2>1 DEF HookTasks, Registering, Manages, HookSubject
  <2>2. CASE updates(t)
    BY <2>2 DEF HookTasks, HookUpdating, Manages, HookSubject
  <2>3. CASE deletes(t)
    BY <2>3 DEF HookTasks, HookDeleting, Manages, HookSubject
  <2> QED BY <1>12, <2>1, <2>2, <2>3
<1>3. ~HookOutside(t) /\ ~(t.op = "accept" /\ t.at = "publish")
  BY <1>2 DEF HookOutside, Manages
<1>4. /\ task' \in [Procs -> HookTasks] /\ tx' = [q \in Procs |-> tx'[q]] /\ HookFrames' /\ HookMeetings'
      /\ task'[p] = t /\ tx'[p] = Fresh(h) /\ Moves(p) /\ UNCHANGED <<rows, kv>>
  BY <1>1, <1>2, <1>3, Begins DEF HooksInv
<1>5. HooksTypeOK'
  BY <1>1, <1>4 DEF HooksInv, HooksTypeOK
<1>6. DOMAIN Fresh(h).docs = {}
  BY NothingIs DEF Fresh
<1>7. PICK w : w = Fresh(h)
  OBVIOUS
<1>8. Finds(t, w)'
  BY <1>2 DEF Finds
<1>9. AcceptOK' /\ DispatchOK' /\ ManageOK' /\ DeliverOK'
  <2>1. UNCHANGED <<published, accepted, received, log, skipped, steady, off, rows, kv, emitted, job>>
    BY <1>1, <1>4
  <2>2. t.at # "write" /\ DOMAIN w.docs = {} /\ tx'[p] = w
    BY <1>2, <1>4, <1>6, <1>7
  <2> QED BY <1>2, <1>4, <1>8, <2>1, <2>2, ManagingStep
<1> QED BY <1>4, <1>5, <1>9 DEF HooksInv

(* w is p's transaction with one document written, doc at d. *)
HookWrote(p, d, doc, w) ==
  /\ tx' = [tx EXCEPT ![p] = w] /\ Shaped(w) /\ w.about = tx[p].about /\ w.keys = tx[p].keys
  /\ DOMAIN w.docs = {d} /\ w.docs[d] = doc

(* A transaction writes its document. *)
LEMMA DocWritten ==
  ASSUME NEW p \in Procs, HooksTypeOK, Shaped(tx[p]), DOMAIN tx[p].docs = {}, NEW d, NEW doc, Hook!WriteDoc(p, d, doc)
  PROVE  \E w : HookWrote(p, d, doc, w)
<1> DEFINE docs == Hook!Over([x \in {d} |-> doc], tx[p].docs)
           w == [tx[p] EXCEPT !.docs = docs]
<1>1. tx' = [tx EXCEPT ![p].docs = docs]
  BY DEF Hook!WriteDoc, HooksTypeOK
<1>2. DOMAIN docs = {d} /\ docs[d] = doc
  BY DEF Hook!Over
<1> HIDE DEF docs
<1>3. Shaped(w) /\ w.about = tx[p].about /\ w.keys = tx[p].keys /\ w.docs = docs
  BY DEF Shaped
<1>4. tx' = [tx EXCEPT ![p] = w]
  BY <1>1 DEF HooksTypeOK
<1> QED BY <1>2, <1>3, <1>4 DEF HookWrote

(* What a request to change a hook has done before it writes. *)
LEMMA ManagedSoFar ==
  ASSUME WebhookAssumption, HooksInv, NEW p \in Procs, Manages(task[p])
  PROVE  /\ task[p] \in Registering \cup HookUpdating \cup HookDeleting /\ task[p].id \in Hook!Hooks
         /\ tx[p] # None /\ Shaped(tx[p]) /\ tx[p].about = task[p].id /\ DOMAIN tx[p].keys = {}
         /\ DOMAIN tx[p].docs \subseteq {task[p].id} /\ \A d \in DOMAIN tx[p].docs : tx[p].docs[d] \in Hook!HookDocs \cup {Gone}
         /\ task[p].at # "commit" => DOMAIN tx[p].docs = {} /\ \A h \in Hook!Hooks : Hook!Doc(p, h) = rows[h]
         /\ HooksTypeOK /\ HookFrames /\ HookMeetings
<1>1. ~HookOutside(task[p]) /\ HookSubject(task[p]) = task[p].id /\ task[p].op \notin {"accept", "dispatch"}
  BY DEF Manages, HookOutside, HookSubject
<1>2. task[p] \in Registering \cup HookUpdating \cup HookDeleting /\ task[p].id \in Hook!Hooks
  BY HookTaskOf DEF HooksInv, Manages, Registering, HookUpdating, HookDeleting
<1>3. /\ tx[p] # None /\ Shaped(tx[p]) /\ tx[p].about = task[p].id /\ DOMAIN tx[p].keys = {} /\ HooksTypeOK /\ HookFrames /\ HookMeetings
      /\ DOMAIN tx[p].docs \subseteq {task[p].id} /\ \A d \in DOMAIN tx[p].docs : tx[p].docs[d] \in Hook!HookDocs \cup {Gone}
      /\ task[p].at # "commit" => DOMAIN tx[p].docs = {}
  BY <1>1, InHookTask DEF Sets, HookWrites
<1>4. DOMAIN tx[p].docs = {} => \A h \in Hook!Hooks : Hook!Doc(p, h) = rows[h]
  BY <1>3 DEF Hook!Doc, Hook!Over, HooksTypeOK
<1> QED BY <1>2, <1>3, <1>4

(* A task that changes a hook goes on in its transaction. *)
LEMMA ManagedType ==
  ASSUME WebhookAssumption, HooksInv, NEW p \in Procs, Manages(task[p]), NEW t \in HookTasks, NEW w,
         task' = [task EXCEPT ![p] = t], tx' = [tx EXCEPT ![p] = w],
         t.op = task[p].op, t.id = task[p].id, Shaped(w), w.about = tx[p].about, DOMAIN w.keys = {},
         HookWrites(t, w.docs), UNCHANGED <<published, accepted, received, log, skipped, steady, off, rows, kv, met, emitted, job>>
  PROVE  /\ HooksTypeOK' /\ HookFrames' /\ HookMeetings' /\ task'[p] = t /\ tx'[p] = w /\ Moves(p) /\ Manages(t)
<1>1. /\ ~HookOutside(t) /\ HookSubject(t) = t.id /\ t.op \notin {"accept", "dispatch"} /\ Manages(t)
  BY DEF Manages, HookOutside, HookSubject
<1>2. tx[p] # None /\ tx[p].about = task[p].id /\ HooksTypeOK /\ HookFrames /\ HookMeetings
  BY ManagedSoFar
<1>3. Framed(t, w)
  BY <1>1, <1>2 DEF Framed, Sets
<1>4. /\ task' \in [Procs -> HookTasks] /\ tx' = [q \in Procs |-> tx'[q]] /\ HookFrames' /\ HookMeetings'
      /\ task'[p] = t /\ tx'[p] = w /\ Moves(p)
  BY <1>2, <1>3, SameTx
<1>5. HooksTypeOK'
  BY <1>2, <1>4 DEF HooksTypeOK
<1> QED BY <1>1, <1>4, <1>5

LEMMA RegisterStep ==
  ASSUME WebhookAssumption, HooksInv, NEW p \in Procs, Hook!Register(p)
  PROVE  HooksInv'
<1>1. /\ task[p].op = "register" /\ task[p].at = "insert" /\ task' = [task EXCEPT ![p].at = "commit"]
      /\ UNCHANGED <<published, accepted, emitted, steady, job, received, log, skipped, off>>
  BY DEF Hook!Register, Hook!At, Hook!Goto
<1>2. PICK wants \in SUBSET Events :
        Hook!CollectionInsert(p, task[p].id, [coll |-> "hook", events |-> wants, active |-> TRUE, label |-> 0])
  BY DEF Hook!Register
<1>3. PICK doc : doc = [coll |-> "hook", events |-> wants, active |-> TRUE, label |-> 0]
  OBVIOUS
<1>4. doc \in Hook!HookDocs
  BY <1>3 DEF Hook!HookDocs
<1>5. PICK h : h = task[p].id
  OBVIOUS
<1>6. Hook!WriteDoc(p, h, doc) /\ rows[h] = Unused /\ UNCHANGED <<rows, kv, met>>
  BY <1>2, <1>3, <1>5 DEF Hook!CollectionInsert
<1>7. /\ Manages(task[p]) /\ task[p] \in Registering /\ h \in Hook!Hooks /\ tx[p] # None /\ Shaped(tx[p])
      /\ DOMAIN tx[p].keys = {} /\ DOMAIN tx[p].docs = {} /\ HooksTypeOK
  BY <1>1, <1>5, ManagedSoFar, HookTaskOf DEF Manages, HooksInv
<1>8. PICK w : /\ tx' = [tx EXCEPT ![p] = w] /\ Shaped(w) /\ w.about = tx[p].about /\ w.keys = tx[p].keys
               /\ DOMAIN w.docs = {h} /\ w.docs[h] = doc
  <2>1. Hook!WriteDoc(p, h, doc) /\ HooksTypeOK /\ Shaped(tx[p]) /\ DOMAIN tx[p].docs = {}
    BY <1>6, <1>7
  <2>2. PICK w : HookWrote(p, h, doc, w)
    BY <2>1, DocWritten
  <2> QED BY <2>2 DEF HookWrote
<1>9. PICK t : t = [task[p] EXCEPT !.at = "commit"]
  OBVIOUS
<1>10. t \in Registering /\ t.op = "register" /\ t.at = "commit" /\ t.id = h
  BY <1>1, <1>5, <1>7, <1>9 DEF Registering
<1>11. task' = [task EXCEPT ![p] = t] /\ t \in HookTasks
  BY <1>1, <1>7, <1>9, <1>10 DEF HooksTypeOK, HookTasks
<1>12. HookWrites(t, w.docs)
  BY <1>4, <1>8, <1>10 DEF HookWrites, Manages
<1>13. UNCHANGED <<published, accepted, received, log, skipped, steady, off, rows, kv, met, emitted, job>>
  BY <1>1, <1>6
<1>14. HooksTypeOK' /\ HookFrames' /\ HookMeetings' /\ task'[p] = t /\ tx'[p] = w /\ Moves(p) /\ Manages(t)
  BY <1>1, <1>5, <1>7, <1>8, <1>10, <1>11, <1>12, <1>13, ManagedType
<1>15. \A g \in Hook!Hooks : Dead(g) =>
         /\ t.op = "update" /\ t.at = "write" /\ t.id = g => ~t.read.active
         /\ g \in DOMAIN w.docs => ~Hook!Deliverable(w.docs[g])
  BY <1>6, <1>8, <1>10 DEF Dead
<1>16. Finds(t, w)'
  BY <1>10 DEF Finds
<1>17. AcceptOK' /\ DispatchOK' /\ ManageOK' /\ DeliverOK'
  BY <1>13, <1>14, <1>15, <1>16, ManagingStep
<1> QED BY <1>14, <1>17 DEF HooksInv

LEMMA HookFindStep ==
  ASSUME WebhookAssumption, HooksInv, NEW p \in Procs, Hook!Find(p)
  PROVE  HooksInv'
<1>1. /\ task[p].op \in {"update", "delete"} /\ task[p].at = "find"
      /\ UNCHANGED <<published, accepted, emitted, steady, job, received, log, skipped, off, rows, kv, tx, met>>
      /\ task' = IF task[p].id \in Hook!Found(p, "hook")
                 THEN [task EXCEPT ![p].at = "write", ![p].read = Hook!Doc(p, task[p].id)]
                 ELSE [task EXCEPT ![p].at = "nothing"]
  BY DEF Hook!Find, Hook!At, Hook!Goto, Hook!storeVars
<1>2. PICK h \in Hook!Hooks : h = task[p].id
  BY <1>1, ManagedSoFar DEF Manages
<1>3. PICK w : w = tx[p]
  OBVIOUS
<1>4. /\ Manages(task[p]) /\ Shaped(w) /\ DOMAIN w.keys = {} /\ DOMAIN w.docs = {} /\ HooksTypeOK
      /\ Hook!Doc(p, h) = rows[h] /\ task[p] \in HookUpdating \cup HookDeleting
  BY <1>1, <1>2, <1>3, ManagedSoFar, HookTaskOf DEF Manages, HooksInv
<1>5. h \in Hook!Found(p, "hook") => rows[h] \in Hook!HookDocs /\ rows[h] # Unused /\ Hook!Exists(rows[h])
  BY <1>2, <1>4 DEF Hook!Found, HooksTypeOK, Hook!Exists
<1>6. PICK t : t = IF h \in Hook!Found(p, "hook") THEN [task[p] EXCEPT !.at = "write", !.read = rows[h]] ELSE [task[p] EXCEPT !.at = "nothing"]
  OBVIOUS
<1>7. task' = [task EXCEPT ![p] = t]
  BY <1>1, <1>2, <1>4, <1>6 DEF HooksTypeOK
<1>8. /\ t \in HookUpdating \cup HookDeleting /\ t.op = task[p].op /\ t.id = h /\ t.at \in {"write", "nothing"}
      /\ t.at = "write" => t.read = rows[h] /\ h \in Hook!Found(p, "hook")
  <2>1. CASE h \in Hook!Found(p, "hook")
    <3>1. t = [task[p] EXCEPT !.at = "write", !.read = rows[h]] /\ rows[h] \in Hook!HookDocs
      BY <1>5, <1>6, <2>1
    <3> QED BY <1>2, <1>4, <2>1, <3>1 DEF HookUpdating, HookDeleting
  <2>2. CASE h \notin Hook!Found(p, "hook")
    <3>1. t = [task[p] EXCEPT !.at = "nothing"]
      BY <1>6, <2>2
    <3> QED BY <1>2, <1>4, <3>1 DEF HookUpdating, HookDeleting
  <2> QED BY <2>1, <2>2
<1>9. t \in HookTasks /\ HookWrites(t, w.docs)
  BY <1>4, <1>8 DEF HookTasks, HookWrites
<1>10. tx' = [tx EXCEPT ![p] = w]
  BY <1>1, <1>3, <1>4 DEF HooksTypeOK
<1>11. UNCHANGED <<published, accepted, received, log, skipped, steady, off, rows, kv, met, emitted, job>>
  BY <1>1
<1>12. HooksTypeOK' /\ HookFrames' /\ HookMeetings' /\ task'[p] = t /\ tx'[p] = w /\ Moves(p) /\ Manages(t)
  <2>1. t.op = task[p].op /\ t.id = task[p].id /\ Shaped(w) /\ w.about = tx[p].about /\ DOMAIN w.keys = {}
    BY <1>2, <1>3, <1>4, <1>8
  <2> QED BY <1>4, <1>7, <1>9, <1>10, <1>11, <2>1, ManagedType
<1>13. \A g \in Hook!Hooks : Dead(g) =>
         /\ t.op = "update" /\ t.at = "write" /\ t.id = g => ~t.read.active
         /\ g \in DOMAIN w.docs => ~Hook!Deliverable(w.docs[g])
  BY <1>4, <1>5, <1>8 DEF Dead, Hook!Deliverable
<1>14. Finds(t, w)'
  <2>1. rows' = rows
    BY <1>1
  <2> QED BY <1>5, <1>8, <2>1 DEF Finds
<1>15. AcceptOK' /\ DispatchOK' /\ ManageOK' /\ DeliverOK'
  BY <1>11, <1>12, <1>13, <1>14, ManagingStep
<1> QED BY <1>12, <1>15 DEF HooksInv

(* What an update or a deletion writes: the document it has read with its *)
(* patch, or that the document is gone, if there is one still.            *)
LEMMA HookWriteStep ==
  ASSUME WebhookAssumption, HooksInv, NEW p \in Procs, Hook!Write(p)
  PROVE  HooksInv'
<1>1. /\ task[p].op \in {"update", "delete"} /\ task[p].at = "write" /\ task' = [task EXCEPT ![p].at = "commit"]
      /\ UNCHANGED <<published, accepted, emitted, steady, job, received, log, skipped, off, rows, kv, met>>
  BY DEF Hook!Write, Hook!At, Hook!Goto, Hook!UpdateRow, Hook!DeleteRow
<1>2. PICK h \in Hook!Hooks : h = task[p].id
  BY <1>1, ManagedSoFar DEF Manages
<1>3. /\ Manages(task[p]) /\ Shaped(tx[p]) /\ DOMAIN tx[p].keys = {} /\ DOMAIN tx[p].docs = {} /\ HooksTypeOK
      /\ Hook!Doc(p, h) = rows[h] /\ task[p] \in HookUpdating \cup HookDeleting
  BY <1>1, <1>2, ManagedSoFar, HookTaskOf DEF Manages, HooksInv
<1>4. PICK doc : doc = IF task[p].op = "delete" THEN Gone ELSE Hook!Merge(task[p].read, task[p].patch)
  OBVIOUS
<1>5. rows[h] # Unused /\ (task[p].op = "update" => task[p].read \in Hook!HookDocs /\ task[p].patch \in Hook!Patches)
  BY <1>1, <1>2, <1>3 DEF HooksInv, ManageOK, Finds, HookUpdating, HookDeleting
<1>6. /\ doc \in Hook!HookDocs \cup {Gone}
      /\ Hook!Silences(task[p]) => ~Hook!Deliverable(doc)
      /\ task[p].op = "update" /\ ~task[p].read.active => ~Hook!Deliverable(doc)
      /\ task[p].op = "delete" => ~Hook!Deliverable(doc)
  <2>1. CASE task[p].op = "delete"
    BY <1>4, <2>1 DEF Hook!Deliverable, Hook!Exists
  <2>2. CASE task[p].op = "update"
    <3>1. doc = Hook!Merge(task[p].read, task[p].patch)
      BY <1>4, <2>2
    <3> QED BY <1>5, <2>2, <3>1, PatchedIs DEF Hook!Silences, Hook!Deliverable
  <2> QED BY <1>1, <2>1, <2>2
<1>7. IF Hook!Exists(rows[h]) THEN Hook!WriteDoc(p, h, doc) ELSE tx' = tx
  <2>1. CASE task[p].op = "delete"
    <3>1. Hook!DeleteRow(p, h) /\ doc = Gone
      BY <1>2, <1>4, <2>1 DEF Hook!Write, Hook!At
    <3> QED BY <1>3, <3>1 DEF Hook!DeleteRow
  <2>2. CASE task[p].op = "update"
    <3>1. Hook!UpdateRow(p, h, task[p].read, task[p].patch) /\ doc = Hook!Merge(task[p].read, task[p].patch)
      BY <1>2, <1>4, <2>2 DEF Hook!Write, Hook!At
    <3> QED BY <1>3, <3>1 DEF Hook!UpdateRow
  <2> QED BY <1>1, <2>1, <2>2
<1>8. PICK w : /\ tx' = [tx EXCEPT ![p] = w] /\ Shaped(w) /\ w.about = tx[p].about /\ w.keys = tx[p].keys
               /\ IF Hook!Exists(rows[h]) THEN DOMAIN w.docs = {h} /\ w.docs[h] = doc ELSE DOMAIN w.docs = {}
  <2>1. CASE Hook!Exists(rows[h])
    <3>1. Hook!WriteDoc(p, h, doc) /\ HooksTypeOK /\ Shaped(tx[p]) /\ DOMAIN tx[p].docs = {}
      BY <1>3, <1>7, <2>1
    <3>2. PICK w : HookWrote(p, h, doc, w)
      BY <3>1, DocWritten
    <3> QED BY <2>1, <3>2 DEF HookWrote
  <2>2. CASE ~Hook!Exists(rows[h])
    <3>1. tx' = [tx EXCEPT ![p] = tx[p]]
      BY <1>3, <1>7, <2>2 DEF HooksTypeOK
    <3> QED BY <1>3, <2>2, <3>1
  <2> QED BY <2>1, <2>2
<1>9. PICK t : t = [task[p] EXCEPT !.at = "commit"]
  OBVIOUS
<1>10. /\ task' = [task EXCEPT ![p] = t] /\ t \in HookUpdating \cup HookDeleting /\ t.at = "commit" /\ t.id = h
       /\ t.op = task[p].op /\ (Hook!Silences(t) <=> Hook!Silences(task[p]))
  <2>1. task' = [task EXCEPT ![p] = t]
    BY <1>1, <1>3, <1>9 DEF HooksTypeOK
  <2>2. t \in HookUpdating \cup HookDeleting /\ t.at = "commit" /\ t.id = h /\ t.op = task[p].op /\ (t.op = "update" => t.patch = task[p].patch)
    BY <1>2, <1>3, <1>9 DEF HookUpdating, HookDeleting
  <2> QED BY <2>1, <2>2 DEF Hook!Silences
<1>11. t \in HookTasks /\ HookWrites(t, w.docs)
  <2>1. \A d \in DOMAIN w.docs : d = h /\ w.docs[d] = doc
    BY <1>8
  <2> QED BY <1>1, <1>6, <1>10, <2>1 DEF HookTasks, HookWrites, Manages
<1>12. UNCHANGED <<published, accepted, received, log, skipped, steady, off, rows, kv, met, emitted, job>>
  BY <1>1
<1>13. HooksTypeOK' /\ HookFrames' /\ HookMeetings' /\ task'[p] = t /\ tx'[p] = w /\ Moves(p) /\ Manages(t)
  BY <1>2, <1>3, <1>8, <1>10, <1>11, <1>12, ManagedType
<1>14. \A g \in Hook!Hooks : Dead(g) =>
         /\ t.op = "update" /\ t.at = "write" /\ t.id = g => ~t.read.active
         /\ g \in DOMAIN w.docs => ~Hook!Deliverable(w.docs[g])
  <2> SUFFICES ASSUME NEW g \in Hook!Hooks, Dead(g), g \in DOMAIN w.docs PROVE ~Hook!Deliverable(w.docs[g])
    BY <1>10
  <2>1. g = h /\ w.docs[g] = doc
    BY <1>8
  <2>2. task[p].op = "update" => ~task[p].read.active
    BY <1>1, <1>2, <2>1 DEF Dead
  <2> QED BY <1>1, <1>6, <2>1, <2>2
<1>15. Hook!Silences(t) => ~Hook!Deliverable(Hook!Over(w.docs, rows)[h])
  <2>1. h \in DOMAIN rows
    BY <1>3 DEF HooksTypeOK
  <2>2. Hook!Over(w.docs, rows)[h] = IF Hook!Exists(rows[h]) THEN doc ELSE rows[h]
    <3>1. CASE Hook!Exists(rows[h])
      <4>1. h \in DOMAIN w.docs /\ w.docs[h] = doc
        BY <1>8, <3>1
      <4>2. Hook!Over(w.docs, rows)[h] = w.docs[h]
        BY <4>1 DEF Hook!Over
      <4> QED BY <3>1, <4>1, <4>2
    <3>2. CASE ~Hook!Exists(rows[h])
      <4>1. h \in DOMAIN rows \ DOMAIN w.docs
        BY <1>8, <2>1, <3>2
      <4>2. Hook!Over(w.docs, rows)[h] = rows[h]
        BY <4>1 DEF Hook!Over
      <4> QED BY <3>2, <4>2
    <3> QED BY <3>1, <3>2
  <2> QED BY <1>6, <1>10, <2>2 DEF Hook!Deliverable
<1>16. Finds(t, w)'
  <2>1. Finds(t, w)
    BY <1>5, <1>10, <1>15 DEF Finds
  <2>2. rows' = rows /\ met' = met
    BY <1>1
  <2> QED BY <2>1, <2>2 DEF Finds, Hook!Deliverable, Hook!Exists, Hook!Over
<1>17. AcceptOK' /\ DispatchOK' /\ ManageOK' /\ DeliverOK'
  BY <1>12, <1>13, <1>14, <1>16, ManagingStep
<1> QED BY <1>13, <1>17 DEF HooksInv

LEMMA HookManageCommitStep ==
  ASSUME WebhookAssumption, HooksInv, NEW p \in Procs, Hook!ManageCommit(p)
  PROVE  HooksInv'
<1>1. /\ task[p].op \in {"register", "update", "delete"} /\ task[p].at \in {"commit", "nothing"}
      /\ Hook!Commit(p) /\ task' = [task EXCEPT ![p] = Hook!Idle]
      /\ UNCHANGED <<published, accepted, emitted, job, received, log, skipped>>
  BY DEF Hook!ManageCommit, Hook!Rest
<1>2. PICK h \in Hook!Hooks : h = task[p].id
  BY <1>1, ManagedSoFar DEF Manages
<1>3. PICK w : w = tx[p]
  OBVIOUS
<1>4. /\ w # None /\ w.about = h /\ DOMAIN w.keys = {} /\ DOMAIN w.docs \subseteq {h} /\ HooksTypeOK /\ HookFrames /\ HookMeetings
      /\ \A d \in DOMAIN w.docs : w.docs[d] \in Hook!HookDocs \cup {Gone}
      /\ task[p].at = "nothing" => DOMAIN w.docs = {}
  BY <1>1, <1>2, <1>3, ManagedSoFar DEF Manages
<1>5. Hook!Idle \in HookTasks /\ HookOutside(Hook!Idle) /\ Hook!Idle.op = "idle"
  BY DEF HookTasks, HookOutside, Hook!Idle
<1>6. /\ task' \in [Procs -> HookTasks] /\ tx' = [q \in Procs |-> tx'[q]] /\ HookFrames' /\ HookMeetings'
      /\ task'[p] = Hook!Idle /\ tx'[p] = None /\ Moves(p) /\ met' = met
      /\ rows' \in [Hook!Hooks -> Hook!HookDocs \cup {Unused, Gone}] /\ rows' = Hook!Over(w.docs, rows)
      /\ \A g \in Hook!Hooks : rows'[g] = IF g \in DOMAIN w.docs THEN w.docs[g] ELSE rows[g]
      /\ kv' = [k \in Keys |-> kv'[k]]
      /\ \A k \in Keys : kv'[k] = IF k \in DOMAIN w.keys THEN Seen ELSE kv[k]
  BY <1>1, <1>3, <1>4, <1>5, Commits
<1>7. kv' = kv
  BY <1>4, <1>6 DEF HooksTypeOK
<1>8. \A g \in Hook!Hooks \ {h} : rows'[g] = rows[g]
  BY <1>4, <1>6
<1>9. /\ task[p].at = "nothing" => steady' = steady /\ off' = off /\ rows' = rows
      /\ task[p].at = "commit" =>
           /\ steady' = [e \in Events |-> steady[e] \ {h}]
           /\ off' = IF Hook!Silences(task[p]) THEN off \cup {h} ELSE off
  <2>1. task[p].at = "nothing" => rows' = rows
    BY <1>4, <1>6 DEF HooksTypeOK
  <2>2. task[p].at = "nothing" => steady' = steady /\ off' = off
    BY DEF Hook!ManageCommit
  <2>3. task[p].at = "commit" =>
          /\ steady' = [e \in Events |-> steady[e] \ {h}]
          /\ off' = IF Hook!Silences(task[p]) THEN off \cup {h} ELSE off
    BY <1>2 DEF Hook!ManageCommit, Hook!Untouched
  <2> QED BY <2>1, <2>2, <2>3
<1>10. /\ steady' \in [Events -> SUBSET Hook!Hooks] /\ \A e \in Events : steady'[e] \subseteq steady[e]
       /\ off' \subseteq Hook!Hooks /\ (task[p].at = "commit" => \A e \in Events : h \notin steady'[e])
  BY <1>1, <1>4, <1>9 DEF HooksTypeOK
<1>11. HooksTypeOK'
  <2>1. /\ kv' = [k \in Keys |-> kv'[k]]
        /\ \A s \in Sources : kv'[s] \in {None} \cup [value : {TRUE}, alive : BOOLEAN]
        /\ \A e \in Events : kv'[Hook!Marker(e)] \in {None, Seen}
    BY <1>4, <1>7 DEF HooksTypeOK
  <2>2. /\ published' \in [Sources -> Nat] /\ accepted' \subseteq Sources /\ emitted' \subseteq Events
        /\ job' \in [Deliveries -> Hook!Jobs \cup {None}]
        /\ received' \in [Deliveries -> Nat] /\ log' \in [Deliveries -> [delivered : Nat, failed : Nat]]
    BY <1>1, <1>4 DEF HooksTypeOK
  <2>3. /\ task' \in [Procs -> HookTasks] /\ tx' = [q \in Procs |-> tx'[q]] /\ rows' \in [Hook!Hooks -> Hook!HookDocs \cup {Unused, Gone}]
        /\ steady' \in [Events -> SUBSET Hook!Hooks] /\ off' \subseteq Hook!Hooks
    BY <1>6, <1>10
  <2> QED BY <2>1, <2>2, <2>3 DEF HooksTypeOK
<1>12. KeptJobs /\ SameJobs
  BY <1>1 DEF SameJobs, KeptJobs
<1>13. AcceptOK'
  BY <1>1, <1>5, <1>6, <1>7, AcceptElse DEF Accepts
<1>14. DispatchOK'
  BY <1>1, <1>5, <1>6, <1>7, <1>10, <1>12, DispatchElse
<1>15. DeliverOK'
  BY <1>1, <1>4, <1>5, <1>6, DeliverElse DEF HooksTypeOK
<1>16. Wanting'
  <2> SUFFICES ASSUME NEW e \in Events, NEW g \in steady'[e] PROVE rows'[g] \in Hook!HookDocs /\ rows'[g].active /\ Hook!Wants(rows'[g], e)
    BY DEF Wanting, Hook!Wants
  <2>1. g \in steady[e] /\ g \in Hook!Hooks
    BY <1>10
  <2>2. rows'[g] = rows[g]
    BY <1>1, <1>8, <1>9, <1>10, <2>1
  <2> QED BY <2>1, <2>2 DEF HooksInv, ManageOK, Wanting
<1>17. Gone # Unused /\ Unused \notin Hook!HookDocs
  BY DEF WebhookAssumption, Hook!WebhookConstants, Hook!Exists
(* Others that are about the hook have met this one. *)
<1>18. ASSUME NEW q \in Procs \ {p}, Manages(task[q]), task[q].id = h PROVE h \in met
  <2>1. tx[q] # None /\ tx[q].about = h
    BY <1>18, ManagedSoFar
  <2> QED BY <1>3, <1>4, <2>1 DEF HookMeetings
<1>19. ASSUME NEW q \in Procs PROVE Finds(task[q], tx[q])'
  <2>1. CASE q = p
    BY <1>5, <1>6, <2>1 DEF Finds
  <2>2. CASE q # p /\ task[q].op \in {"update", "delete"}
    <3>1. PICK u, v : u = task[q] /\ v = tx[q]
      OBVIOUS
    <3>2. Finds(u, v) /\ u.id \in Hook!Hooks /\ task'[q] = u /\ tx'[q] = v /\ Manages(u)
      BY <1>6, <2>2, <3>1, ManagedSoFar DEF HooksInv, ManageOK, Moves, Manages
    <3>3. rows[u.id] # Unused => rows'[u.id] # Unused
      BY <1>4, <1>6, <1>17, <3>2
    <3>4. u.id \notin met => Hook!Over(v.docs, rows')[u.id] = Hook!Over(v.docs, rows)[u.id]
      <4> SUFFICES ASSUME u.id \notin met PROVE Hook!Over(v.docs, rows')[u.id] = Hook!Over(v.docs, rows)[u.id]
        OBVIOUS
      <4>1. u.id # h
        BY <1>18, <2>2, <3>1, <3>2
      <4>2. rows'[u.id] = rows[u.id] /\ u.id \in DOMAIN rows /\ u.id \in DOMAIN rows'
        BY <1>4, <1>6, <1>8, <3>2, <4>1 DEF HooksTypeOK
      <4> QED BY <4>2 DEF Hook!Over
    <3>5. Finds(u, v)'
      BY <1>6, <3>2, <3>3, <3>4 DEF Finds, Hook!Deliverable, Hook!Exists
    <3> QED BY <3>2, <3>5 DEF Finds, Hook!Deliverable, Hook!Exists, Hook!Over
  <2>3. CASE q # p /\ task[q].op \notin {"update", "delete"}
    BY <1>6, <2>3 DEF Finds, Moves
  <2> QED BY <2>1, <2>2, <2>3
<1>20. ASSUME NEW g \in Hook!Hooks, Dead(g) PROVE Dead(g)'
  <2>1. g \in DOMAIN w.docs => ~Hook!Deliverable(w.docs[g])
    BY <1>3, <1>4, <1>20 DEF Dead
  <2>2. rows'[g] # Unused /\ ~Hook!Deliverable(rows'[g])
    BY <1>4, <1>6, <1>17, <1>20, <2>1 DEF Dead
  <2> QED BY <1>5, <1>6, <1>20, <2>2, DeadStays
<1>21. (\A g \in off \ met : Dead(g))'
  <2>1. ASSUME NEW g \in off \ met PROVE Dead(g)'
    BY <1>4, <1>20, <2>1 DEF HooksInv, ManageOK, HooksTypeOK
  <2>2. ASSUME task[p].at = "commit", Hook!Silences(task[p]), h \notin met PROVE Dead(h)'
    <3>1. task[p].op \in {"update", "delete"}
      BY <2>2 DEF Hook!Silences
    <3>2. rows[h] # Unused /\ ~Hook!Deliverable(Hook!Over(w.docs, rows)[h])
      BY <1>2, <1>3, <2>2, <3>1 DEF HooksInv, ManageOK, Finds
    <3>3. rows'[h] # Unused /\ ~Hook!Deliverable(rows'[h])
      BY <1>4, <1>6, <1>17, <3>2
    <3>4. ASSUME NEW q \in Procs
          PROVE  /\ ~(task'[q].op = "update" /\ task'[q].at = "write" /\ task'[q].id = h)
                 /\ ~(tx'[q] # None /\ h \in DOMAIN tx'[q].docs)
      <4>1. CASE q = p
        BY <1>5, <1>6, <4>1
      <4>2. CASE q # p
        <5>1. task'[q] = task[q] /\ tx'[q] = tx[q] /\ Framed(task[q], tx[q])
          BY <1>4, <1>6, <4>2 DEF Moves, HookFrames
        <5>2. tx[q] # None /\ h \in DOMAIN tx[q].docs => Manages(task[q]) /\ task[q].id = h
          BY <5>1 DEF Framed, HookWrites
        <5>3. task[q].op = "update" => Manages(task[q])
          BY DEF Manages
        <5> QED BY <1>18, <2>2, <4>2, <5>1, <5>2, <5>3
      <4> QED BY <4>1, <4>2
    <3> QED BY <3>3, <3>4 DEF Dead, Hook!Deliverable, Hook!Exists
  <2>3. ASSUME NEW g \in off' \ met' PROVE Dead(g)'
    <3>1. g \in off \ met \/ (g = h /\ task[p].at = "commit" /\ Hook!Silences(task[p]) /\ h \notin met)
      BY <1>1, <1>6, <1>9, <2>3
    <3>2. CASE g \in off \ met
      BY <2>1, <3>2
    <3>3. CASE g = h /\ task[p].at = "commit" /\ Hook!Silences(task[p]) /\ h \notin met
      BY <2>2, <3>3
    <3> QED BY <3>1, <3>2, <3>3
  <2> QED BY <2>3
<1>22. Spared'
  BY <1>5, <1>6, <1>12, <1>20, SparedStays
<1>23. ManageOK'
  BY <1>16, <1>19, <1>21, <1>22 DEF ManageOK
<1> QED BY <1>6, <1>11, <1>13, <1>14, <1>15, <1>23 DEF HooksInv
-----------------------------------------------------------------------------
(* Events. *)
LEMMA EmitStep ==
  ASSUME WebhookAssumption, HooksInv, NEW e \in Events, Hook!Emit(e)
  PROVE  HooksInv'
<1>1. /\ e \notin emitted /\ emitted' = emitted \cup {e}
      /\ steady' = [steady EXCEPT ![e] = {h \in Hook!Hooks : Hook!Exists(rows[h]) /\ rows[h].active /\ Hook!Wants(rows[h], e)}]
      /\ UNCHANGED <<task, budget, published, accepted, job, received, log, skipped, off, rows, kv, tx, met>>
  BY DEF Hook!Emit, Hook!storeVars
<1>2. HooksTypeOK
  BY DEF HooksInv
<1>3. /\ \A f \in Events \ {e} : steady'[f] = steady[f]
      /\ steady'[e] = {h \in Hook!Hooks : Hook!Exists(rows[h]) /\ rows[h].active /\ Hook!Wants(rows[h], e)}
      /\ steady' \in [Events -> SUBSET Hook!Hooks]
  BY <1>1, <1>2 DEF HooksTypeOK
<1>4. HooksTypeOK'
  BY <1>1, <1>2, <1>3 DEF HooksTypeOK
<1>5. HookFrames' /\ HookMeetings'
  BY <1>1 DEF HooksInv, HookFrames, HookMeetings
<1>6. AcceptOK'
  <2>1. AcceptOK /\ UNCHANGED <<published, accepted, kv, met, task>>
    BY <1>1 DEF HooksInv
  <2> QED BY <2>1 DEF AcceptOK, Remembers, Accepts, Live, Told
<1>7. DeliverOK'
  <2>1. DeliverOK /\ UNCHANGED <<received, log, skipped, job, task>>
    BY <1>1 DEF HooksInv
  <2> QED BY <2>1 DEF DeliverOK, Logged, Delivers, OneLane
<1>8. ManageOK'
  <2>1. Wanting'
    <3> SUFFICES ASSUME NEW f \in Events, NEW h \in steady'[f] PROVE rows[h] \in Hook!HookDocs /\ rows[h].active /\ Hook!Wants(rows[h], f)
      BY <1>1 DEF Wanting
    <3>1. CASE f = e
      BY <1>2, <1>3, <3>1 DEF HooksTypeOK, Hook!Exists
    <3>2. CASE f # e
      BY <1>3, <3>2 DEF HooksInv, ManageOK, Wanting
    <3> QED BY <3>1, <3>2
  <2>2. UNCHANGED <<task, tx, rows, met, off, job>> /\ ManageOK
    BY <1>1 DEF HooksInv
  <2>3. (\A p \in Procs : Finds(task[p], tx[p]))'
    BY <2>2 DEF ManageOK, Finds, Hook!Deliverable, Hook!Exists, Hook!Over
  <2>4. (\A h \in off \ met : Dead(h))'
    BY <2>2 DEF ManageOK, Dead, Hook!Deliverable, Hook!Exists
  <2>5. Spared'
    BY <2>2 DEF ManageOK, Spared, Dead, Hook!Deliverable, Hook!Exists
  <2> QED BY <2>1, <2>3, <2>4, <2>5 DEF ManageOK
<1>9. DispatchOK'
  <2>1. UNCHANGED <<task, tx, kv, met, job>> /\ DispatchOK
    BY <1>1 DEF HooksInv
  <2>2. ASSUME NEW f \in Events PROVE Dispatched(f)'
    <3>1. Dispatched(f) /\ (f = e => kv[Hook!Marker(f)] = None)
      BY <1>1, <2>1 DEF DispatchOK, Dispatched
    <3>2. \A d \in Deliveries : (Has(d, f)' <=> Has(d, f)) /\ job'[d].hook = job[d].hook
      BY <2>1 DEF Has
    <3>3. f # e => steady'[f] = steady[f]
      BY <1>3
    <3> QED BY <1>1, <2>1, <3>1, <3>2, <3>3 DEF Dispatched
  <2>3. ASSUME NEW p \in Procs PROVE Prepares(task[p], tx[p])'
    <3>1. Prepares(task[p], tx[p]) /\ (task[p].op = "dispatch" => task[p].id \in Events)
      BY <2>1, HookTaskOf DEF DispatchOK, HooksInv, Dispatching
    <3>2. task[p].op = "dispatch" => task[p].id # e /\ steady'[task[p].id] = steady[task[p].id]
      BY <1>1, <1>3, <3>1 DEF Prepares
    <3> QED BY <1>1, <2>1, <3>1, <3>2 DEF Prepares, Batch, Marks
  <2>4. OneBatch'
    BY <2>1 DEF DispatchOK, OneBatch
  <2> QED BY <2>2, <2>3, <2>4 DEF DispatchOK
<1> QED BY <1>4, <1>5, <1>6, <1>7, <1>8, <1>9 DEF HooksInv
-----------------------------------------------------------------------------
(* Deliveries. *)
LEMMA LanesElse ==
  ASSUME HooksInv, NEW p \in Procs, Moves(p), NEW d \in Deliveries,
         task[p].op = "deliver" => task[p].id = d,
         task'[p].op = "deliver" => task'[p].id = d,
         \A q \in Procs \ {p} : task[q].op = "deliver" => task[q].id # d,
         \A c \in Deliveries \ {d} : job'[c] = job[c] /\ received'[c] = received[c] /\ log'[c] = log[c],
         skipped \subseteq skipped', Logged(d)', Delivers(task[p])'
  PROVE  DeliverOK'
<1>1. ASSUME NEW c \in Deliveries PROVE Logged(c)'
  <2>1. CASE c = d
    BY <2>1
  <2>2. CASE c # d
    BY <2>2 DEF HooksInv, DeliverOK, Logged
  <2> QED BY <2>1, <2>2
<1>2. ASSUME NEW q \in Procs PROVE Delivers(task[q])'
  <2>1. CASE q = p
    BY <2>1
  <2>2. CASE q # p /\ task[q].op = "deliver"
    <3>1. Delivers(task[q]) /\ task'[q] = task[q] /\ task[q].id \in Deliveries \ {d}
      BY <2>2, HookTaskOf DEF HooksInv, DeliverOK, Moves, Delivering
    <3>2. UNCHANGED <<job[task[q].id], received[task[q].id], log[task[q].id]>>
      BY <3>1
    <3> QED BY <3>1, <3>2 DEF Delivers
  <2>3. CASE q # p /\ task[q].op # "deliver"
    BY <2>3 DEF Delivers, Moves
  <2> QED BY <2>1, <2>2, <2>3
<1>3. OneLane'
  BY DEF HooksInv, DeliverOK, OneLane, Moves
<1> QED BY <1>1, <1>2, <1>3 DEF DeliverOK

LEMMA ClaimStep ==
  ASSUME WebhookAssumption, HooksInv, NEW p \in Procs, NEW d \in Deliveries, Hook!Claim(p, d)
  PROVE  HooksInv'
<1> DEFINE silent == job[d].hook \in off \ met
           new == [op |-> "deliver", at |-> "find", id |-> d, silent |-> silent]
<1>1. /\ job[d] # None /\ job[d].status = "pending"
      /\ job' = [job EXCEPT ![d].status = "processing", ![d].attempts = @ + 1] /\ Hook!Start(p, new, d)
      /\ UNCHANGED <<published, accepted, emitted, steady, received, log, skipped, off>>
  BY DEF Hook!Claim
<1>2. HooksTypeOK /\ HookFrames /\ HookMeetings /\ job[d] \in Hook!Jobs
  BY <1>1 DEF HooksInv, HooksTypeOK
<1>3. PICK j : j = [job[d] EXCEPT !.status = "processing", !.attempts = @ + 1]
  OBVIOUS
<1>4. job' = [job EXCEPT ![d] = j]
  BY <1>1, <1>2, <1>3 DEF HooksTypeOK
<1>5. j \in Hook!Jobs /\ j.status = "processing" /\ j.hook = job[d].hook /\ j.event = job[d].event
  <2>1. job[d] = [hook |-> job[d].hook, event |-> job[d].event, status |-> job[d].status, attempts |-> job[d].attempts]
    BY <1>2 DEF Hook!Jobs
  <2>2. job[d].hook \in Hook!Hooks /\ job[d].event \in Events /\ job[d].attempts \in Nat
    BY <1>2 DEF Hook!Jobs
  <2>3. j = [hook |-> job[d].hook, event |-> job[d].event, status |-> "processing", attempts |-> job[d].attempts + 1]
    BY <1>3, <2>1
  <2>4. job[d].attempts + 1 \in Nat
    BY <2>2
  <2> QED BY <2>2, <2>3, <2>4 DEF Hook!Jobs
<1>6. /\ job' \in [Deliveries -> Hook!Jobs \cup {None}] /\ job'[d] = j /\ \A c \in Deliveries \ {d} : job'[c] = job[c]
      /\ j # None
  BY <1>2, <1>4, <1>5 DEF HooksTypeOK, WebhookAssumption, Hook!WebhookConstants
<1>7. SameJobs
  BY <1>1, <1>5, <1>6 DEF SameJobs, KeptJobs
<1>8. silent \in BOOLEAN
  OBVIOUS
<1>9. silent => Dead(job[d].hook) /\ job[d].hook \in Hook!Hooks
  BY <1>2 DEF HooksInv, ManageOK, Hook!Jobs
<1> HIDE DEF silent
<1>10. PICK t : t = new
  OBVIOUS
<1>11. /\ t \in HookTasks /\ ~HookOutside(t) /\ d = HookSubject(t) /\ t.op = "deliver" /\ t.at = "find" /\ t.id = d
       /\ (t.silent = TRUE <=> silent)
  BY <1>8, <1>10 DEF HookTasks, Delivering, HookOutside, HookSubject
<1>12. /\ task' \in [Procs -> HookTasks] /\ tx' = [q \in Procs |-> tx'[q]] /\ HookFrames' /\ HookMeetings'
       /\ task'[p] = t /\ tx'[p] = Fresh(d) /\ Moves(p) /\ task[p] = Hook!Idle /\ UNCHANGED <<rows, kv>>
  BY <1>1, <1>2, <1>10, <1>11, Begins
<1>13. HooksTypeOK'
  BY <1>1, <1>2, <1>6, <1>12 DEF HooksTypeOK
<1>14. DOMAIN tx'[p].docs = {}
  BY <1>12, NothingIs DEF Fresh
<1>15. AcceptOK'
  BY <1>1, <1>11, <1>12, AcceptElse DEF Accepts
<1>16. DispatchOK'
  <2>1. \A e \in Events : steady'[e] \subseteq steady[e] /\ kv'[Hook!Marker(e)] = kv[Hook!Marker(e)]
    BY <1>1, <1>12
  <2> QED BY <1>1, <1>7, <1>11, <1>12, <2>1, DispatchElse
<1>17. ManageOK'
  <2>1. task'[p].silent => \E h \in Hook!Hooks : Dead(h) /\ h = job'[task'[p].id].hook
    BY <1>5, <1>6, <1>9, <1>11, <1>12
  <2>2. ~Manages(task'[p])
    BY <1>11, <1>12 DEF Manages
  <2>3. KeptJobs /\ UNCHANGED <<rows, off>> /\ \A e \in Events : steady'[e] \subseteq steady[e]
    BY <1>1, <1>7, <1>12 DEF SameJobs
  <2> QED BY <1>12, <1>14, <2>1, <2>2, <2>3, ManageElse
<1>18. DeliverOK'
  <2>1. \A q \in Procs : task[q].op = "deliver" => task[q].id # d
    BY <1>1 DEF HooksInv, DeliverOK, Delivers
  <2>2. Logged(d)'
    BY <1>1, <1>5, <1>6 DEF HooksInv, DeliverOK, Logged
  <2>3. Delivers(task[p])'
    BY <1>5, <1>6, <1>11, <1>12 DEF Delivers
  <2>4. task[p].op # "deliver"
    BY <1>12 DEF Hook!Idle
  <2> QED BY <1>1, <1>6, <1>11, <1>12, <2>1, <2>2, <2>3, <2>4, LanesElse
<1> QED BY <1>12, <1>13, <1>15, <1>16, <1>17, <1>18 DEF HooksInv

(* A deliver action goes on in its transaction, or has it behind it. *)
LEMMA LaneStep ==
  ASSUME WebhookAssumption, HooksInv, NEW p \in Procs, task[p].op = "deliver", NEW d \in Deliveries, task[p].id = d,
         NEW t \in HookTasks, NEW w, task' = [task EXCEPT ![p] = t], tx' = [tx EXCEPT ![p] = w],
         t.op \in {"idle", "deliver"}, t.op = "deliver" => t.id = d /\ t.silent = task[p].silent,
         HookOutside(t) => w = None, ~HookOutside(t) => w = tx[p] /\ ~HookOutside(task[p]),
         UNCHANGED <<rows, kv, met, published, accepted, emitted, steady, off>>, SameJobs, skipped \subseteq skipped',
         \A c \in Deliveries \ {d} : job'[c] = job[c] /\ received'[c] = received[c] /\ log'[c] = log[c],
         job' \in [Deliveries -> Hook!Jobs \cup {None}], received' \in [Deliveries -> Nat],
         log' \in [Deliveries -> [delivered : Nat, failed : Nat]],
         Logged(d)', Delivers(t)'
  PROVE  HooksInv'
<1>1. /\ HooksTypeOK /\ HookFrames /\ HookMeetings /\ task[p] \in Delivering /\ task[p].id \in Deliveries
      /\ Framed(task[p], tx[p])
  BY HookTaskOf DEF HooksInv, Delivering
<1>2. ~HookOutside(task[p]) => /\ tx[p] # None /\ Shaped(tx[p]) /\ tx[p].about = HookSubject(task[p])
                               /\ DOMAIN tx[p].docs = {} /\ DOMAIN tx[p].keys = {}
  BY <1>1, InHookTask DEF Sets, HookWrites, Manages
<1>3. Framed(t, w)
  <2>1. CASE HookOutside(t)
    BY <2>1 DEF Framed
  <2>2. CASE ~HookOutside(t)
    <3>1. t.op = "deliver" /\ t.id = task[p].id /\ w = tx[p] /\ ~HookOutside(task[p])
      BY <2>2 DEF HookOutside
    <3> QED BY <1>2, <2>2, <3>1 DEF Framed, Sets, HookWrites, HookSubject
  <2> QED BY <2>1, <2>2
<1>4. w # None => tx[p] # None /\ w.about = tx[p].about /\ DOMAIN w.docs = {}
  BY <1>2
<1>5. /\ task' \in [Procs -> HookTasks] /\ tx' = [q \in Procs |-> tx'[q]] /\ HookFrames' /\ HookMeetings'
      /\ task'[p] = t /\ tx'[p] = w /\ Moves(p)
  BY <1>1, <1>3, <1>4, SameTx
<1>6. HooksTypeOK'
  BY <1>1, <1>5 DEF HooksTypeOK
<1>7. AcceptOK'
  BY <1>5, AcceptElse DEF Accepts
<1>8. DispatchOK'
  BY <1>5, DispatchElse
<1>9. ManageOK'
  <2>1. ~Manages(t) /\ KeptJobs
    BY DEF Manages, SameJobs
  <2>2. \A e \in Events : steady'[e] \subseteq steady[e]
    OBVIOUS
  <2> QED BY <1>4, <1>5, <2>1, <2>2, ManageElse
<1>10. DeliverOK'
  <2>1. \A q \in Procs \ {p} : task[q].op = "deliver" => task[q].id # d
    BY DEF HooksInv, DeliverOK, OneLane
  <2>2. Delivers(task[p])'
    BY <1>5 DEF Delivers
  <2> QED BY <1>5, <2>1, <2>2, LanesElse
<1> QED BY <1>5, <1>6, <1>7, <1>8, <1>9, <1>10 DEF HooksInv

LEMMA DeliverFindStep ==
  ASSUME WebhookAssumption, HooksInv, NEW p \in Procs, Hook!DeliverFind(p)
  PROVE  HooksInv'
<1> DEFINE place == IF Hook!Deliverable(Hook!Doc(p, job[task[p].id].hook)) THEN "post" ELSE "skip"
<1>1. /\ task[p].op = "deliver" /\ task[p].at = "find" /\ task' = [task EXCEPT ![p].at = place]
      /\ UNCHANGED <<budget, published, accepted, emitted, steady, job, received, log, skipped, off, rows, kv, tx, met>>
  BY DEF Hook!DeliverFind, Hook!At, Hook!Goto, Hook!storeVars
<1>2. HooksTypeOK /\ task[p] \in Delivering
  BY <1>1, HookTaskOf DEF HooksInv
<1>3. PICK d \in Deliveries : d = task[p].id
  BY <1>2 DEF Delivering
<1>4. Delivers(task[p]) /\ Logged(d) /\ job[d] # None /\ job[d].status = "processing"
  BY <1>1, <1>3 DEF HooksInv, DeliverOK, Delivers
<1>5. PICK h \in Hook!Hooks : h = job[d].hook
  BY <1>2, <1>4 DEF HooksTypeOK, Hook!Jobs
<1>6. DOMAIN tx[p].docs = {} /\ ~HookOutside(task[p])
  BY <1>1, InHookTask DEF HookOutside, HookWrites, Manages
<1>7. Hook!Doc(p, h) = rows[h]
  BY <1>2, <1>6 DEF Hook!Doc, Hook!Over, HooksTypeOK
<1>8. place = "post" => ~task[p].silent
  <2>1. task[p].silent => Dead(h)
    BY <1>1, <1>3, <1>5 DEF HooksInv, ManageOK, Spared, Dead
  <2> QED BY <1>3, <1>5, <1>7, <2>1 DEF Dead
<1>9. place \in {"post", "skip"}
  OBVIOUS
<1> HIDE DEF place
<1>10. PICK t : t = [task[p] EXCEPT !.at = place]
  OBVIOUS
<1>11. t \in Delivering /\ t.op = "deliver" /\ t.at = place /\ t.id = d /\ t.silent = task[p].silent
  BY <1>2, <1>3, <1>9, <1>10 DEF Delivering
<1>12. t \in HookTasks /\ task' = [task EXCEPT ![p] = t] /\ tx' = [tx EXCEPT ![p] = tx[p]] /\ ~HookOutside(t)
  BY <1>1, <1>2, <1>9, <1>10, <1>11 DEF HookTasks, HooksTypeOK, HookOutside
<1>13. SameJobs
  BY <1>1 DEF SameJobs, KeptJobs
<1>14. Logged(d)'
  BY <1>1, <1>4 DEF Logged
<1>15. Delivers(t)'
  BY <1>1, <1>4, <1>8, <1>9, <1>11 DEF Delivers
<1>16. /\ job' \in [Deliveries -> Hook!Jobs \cup {None}] /\ received' \in [Deliveries -> Nat]
       /\ log' \in [Deliveries -> [delivered : Nat, failed : Nat]]
  BY <1>1, <1>2 DEF HooksTypeOK
<1>17. UNCHANGED <<rows, kv, met, published, accepted, emitted, steady, off, job, received, log, skipped>>
  BY <1>1
<1>18. task[p].op = "deliver" /\ task[p].id = d /\ t.op = "deliver" /\ t.id = d /\ t.silent = task[p].silent
  BY <1>1, <1>3, <1>11
<1>19. \A c \in Deliveries \ {d} : job'[c] = job[c] /\ received'[c] = received[c] /\ log'[c] = log[c]
  BY <1>17
<1> QED BY <1>6, <1>12, <1>13, <1>14, <1>15, <1>16, <1>17, <1>18, <1>19, LaneStep

LEMMA PostStep ==
  ASSUME WebhookAssumption, HooksInv, NEW p \in Procs, Hook!Post(p)
  PROVE  HooksInv'
<1>1. /\ task[p].op = "deliver" /\ task[p].at = "post"
      /\ UNCHANGED <<published, accepted, emitted, steady, job, log, skipped, off, rows, kv, tx, met>>
  BY DEF Hook!Post, Hook!At, Hook!storeVars
<1>2. HooksTypeOK /\ task[p] \in Delivering
  BY <1>1, HookTaskOf DEF HooksInv
<1>3. PICK d \in Deliveries : d = task[p].id
  BY <1>2 DEF Delivering
<1>4. PICK place, taken : /\ task' = [task EXCEPT ![p].at = place] /\ received' = [received EXCEPT ![d] = @ + taken]
                          /\ (place = "log" /\ taken = 1) \/ (place = "logFailure" /\ taken \in {0, 1})
  <2>1. CASE received' = [received EXCEPT ![task[p].id] = @ + 1] /\ Hook!Goto(p, "log")
    BY <1>3, <2>1 DEF Hook!Goto
  <2>2. CASE (\E taken \in {0, 1} : received' = [received EXCEPT ![task[p].id] = @ + taken]) /\ Hook!Goto(p, "logFailure")
    BY <1>3, <2>2 DEF Hook!Goto
  <2> QED BY <2>1, <2>2 DEF Hook!Post
<1>5. Delivers(task[p]) /\ Logged(d) /\ job[d] # None /\ job[d].status = "processing" /\ ~task[p].silent
  BY <1>1, <1>3 DEF HooksInv, DeliverOK, Delivers
<1>6. PICK t : t = [task[p] EXCEPT !.at = place]
  OBVIOUS
<1>7. t \in Delivering /\ t.op = "deliver" /\ t.at = place /\ t.id = d /\ t.silent = task[p].silent
  BY <1>2, <1>3, <1>4, <1>6 DEF Delivering
<1>8. task' = [task EXCEPT ![p] = t]
  BY <1>2, <1>4, <1>6 DEF HooksTypeOK
<1>9. t \in HookTasks /\ tx' = [tx EXCEPT ![p] = tx[p]] /\ ~HookOutside(t) /\ ~HookOutside(task[p])
  BY <1>1, <1>2, <1>4, <1>7 DEF HookTasks, HooksTypeOK, HookOutside
<1>10. /\ received[d] \in Nat /\ received' \in [Deliveries -> Nat] /\ received'[d] = received[d] + taken
       /\ \A c \in Deliveries \ {d} : received'[c] = received[c]
  BY <1>2, <1>4 DEF HooksTypeOK
<1>11. log[d].delivered \in Nat /\ job' \in [Deliveries -> Hook!Jobs \cup {None}] /\ log' \in [Deliveries -> [delivered : Nat, failed : Nat]]
  BY <1>1, <1>2 DEF HooksTypeOK
<1>12. SameJobs
  BY <1>1 DEF SameJobs, KeptJobs
<1>13. Logged(d)'
  BY <1>1, <1>4, <1>5, <1>10, <1>11 DEF Logged
<1>14. Delivers(t)'
  <2>1. place = "log" => log[d].delivered < received'[d]
    BY <1>4, <1>5, <1>10, <1>11 DEF Logged
  <2> QED BY <1>1, <1>4, <1>5, <1>7, <2>1 DEF Delivers
<1>15. UNCHANGED <<rows, kv, met, published, accepted, emitted, steady, off, job, log, skipped>>
  BY <1>1
<1>16. task[p].op = "deliver" /\ task[p].id = d /\ t.op = "deliver" /\ t.id = d /\ t.silent = task[p].silent
  BY <1>1, <1>3, <1>7
<1>17. \A c \in Deliveries \ {d} : job'[c] = job[c] /\ received'[c] = received[c] /\ log'[c] = log[c]
  BY <1>10, <1>15
<1>18. received' \in [Deliveries -> Nat]
  BY <1>10
<1> QED BY <1>8, <1>9, <1>11, <1>12, <1>13, <1>14, <1>15, <1>16, <1>17, <1>18, LaneStep

LEMMA DeliveredStep ==
  ASSUME WebhookAssumption, HooksInv, NEW p \in Procs, Hook!Delivered(p)
  PROVE  HooksInv'
<1>1. /\ task[p].op = "deliver" /\ task[p].at \in {"log", "skip"} /\ task' = [task EXCEPT ![p].at = "complete"]
      /\ Hook!Commit(p) /\ UNCHANGED <<published, accepted, emitted, steady, job, received, off>>
  BY DEF Hook!Delivered, Hook!At, Hook!Goto
<1>2. HooksTypeOK /\ HookFrames /\ HookMeetings /\ task[p] \in Delivering
  BY <1>1, HookTaskOf DEF HooksInv
<1>3. PICK d \in Deliveries : d = task[p].id
  BY <1>2 DEF Delivering
<1>4. /\ Delivers(task[p]) /\ Logged(d) /\ job[d] # None /\ job[d].status = "processing"
      /\ task[p].at = "log" => log[d].delivered < received[d] /\ ~task[p].silent
  BY <1>1, <1>3 DEF HooksInv, DeliverOK, Delivers
<1>5. PICK t : t = [task[p] EXCEPT !.at = "complete"]
  OBVIOUS
<1>6. t \in Delivering /\ t.op = "deliver" /\ t.at = "complete" /\ t.id = d /\ t.silent = task[p].silent
  BY <1>2, <1>3, <1>5 DEF Delivering
<1>7. task' = [task EXCEPT ![p] = t]
  BY <1>1, <1>2, <1>5 DEF HooksTypeOK
<1>8. t \in HookTasks /\ HookOutside(t) /\ ~HookOutside(task[p])
  BY <1>1, <1>6 DEF HookTasks, HookOutside
<1>9. DOMAIN tx[p].docs = {} /\ DOMAIN tx[p].keys = {}
  BY <1>1, <1>8, InHookTask DEF Sets, HookWrites, Manages
<1>10. /\ rows' \in [Hook!Hooks -> Hook!HookDocs \cup {Unused, Gone}] /\ met' = met
       /\ \A h \in Hook!Hooks : rows'[h] = IF h \in DOMAIN tx[p].docs THEN tx[p].docs[h] ELSE rows[h]
       /\ kv' = [k \in Keys |-> kv'[k]]
       /\ \A k \in Keys : kv'[k] = IF k \in DOMAIN tx[p].keys THEN Seen ELSE kv[k]
  BY <1>1, <1>2, <1>7, <1>8, Commits
<1>11. rows' = rows /\ kv' = kv /\ tx' = [tx EXCEPT ![p] = None]
  BY <1>1, <1>2, <1>9, <1>10 DEF HooksTypeOK, Hook!Commit
<1>12. /\ log' = Hook!LogAttempt(task[p], TRUE) /\ (task[p].at = "log" => skipped' = skipped)
       /\ task[p].at = "skip" => skipped' = skipped \cup {d}
  BY <1>3 DEF Hook!Delivered
<1>13. log[d] \in [delivered : Nat, failed : Nat] /\ log \in [Deliveries -> [delivered : Nat, failed : Nat]]
  BY <1>2 DEF HooksTypeOK
<1>14. log[d].delivered \in Nat /\ log[d].failed \in Nat /\ log[d] = [delivered |-> log[d].delivered, failed |-> log[d].failed]
  BY <1>13
<1>15. /\ log' \in [Deliveries -> [delivered : Nat, failed : Nat]]
       /\ \A c \in Deliveries \ {d} : log'[c] = log[c]
       /\ log'[d].failed = log[d].failed
       /\ log'[d].delivered = IF task[p].at = "log" THEN log[d].delivered + 1 ELSE log[d].delivered
  <2>1. CASE task[p].at = "log"
    <3>1. PICK r : r = [delivered |-> log[d].delivered + 1, failed |-> log[d].failed]
      OBVIOUS
    <3>2. [log[d] EXCEPT !.delivered = @ + 1] = r
      BY <1>14, <3>1
    <3>3. log' = [log EXCEPT ![d].delivered = @ + 1]
      BY <1>3, <1>12, <2>1 DEF Hook!LogAttempt
    <3>4. log' = [log EXCEPT ![d] = r]
      BY <1>13, <3>2, <3>3
    <3>5. r \in [delivered : Nat, failed : Nat] /\ r.delivered = log[d].delivered + 1 /\ r.failed = log[d].failed
      BY <1>14, <3>1
    <3> QED BY <1>13, <2>1, <3>4, <3>5
  <2>2. CASE task[p].at = "skip"
    <3>1. log' = log
      BY <1>12, <2>2 DEF Hook!LogAttempt
    <3> QED BY <1>13, <2>2, <3>1
  <2> QED BY <1>1, <2>1, <2>2
<1>16. job' \in [Deliveries -> Hook!Jobs \cup {None}] /\ received' \in [Deliveries -> Nat] /\ received[d] \in Nat
  BY <1>1, <1>2 DEF HooksTypeOK
<1>17. log'[d].delivered > 0 \/ d \in skipped'
  <2>1. CASE task[p].at = "log"
    BY <1>14, <1>15, <2>1
  <2>2. CASE task[p].at = "skip"
    BY <1>12, <2>2
  <2> QED BY <1>1, <2>1, <2>2
<1>18. Logged(d)'
  BY <1>1, <1>4, <1>14, <1>15, <1>16 DEF Logged
<1>19. Delivers(t)'
  BY <1>1, <1>4, <1>6, <1>17 DEF Delivers
<1>20. SameJobs
  BY <1>1 DEF SameJobs, KeptJobs
<1>21. UNCHANGED <<rows, kv, met, published, accepted, emitted, steady, off>> /\ skipped \subseteq skipped'
  BY <1>1, <1>10, <1>11, <1>12
<1>22. \A c \in Deliveries \ {d} : job'[c] = job[c] /\ received'[c] = received[c] /\ log'[c] = log[c]
  BY <1>1, <1>15
<1>23. /\ task[p].op = "deliver" /\ task[p].id = d /\ t.op = "deliver" /\ t.id = d /\ t.silent = task[p].silent
       /\ tx' = [tx EXCEPT ![p] = None]
  BY <1>1, <1>3, <1>6, <1>11
<1> QED BY <1>7, <1>8, <1>15, <1>16, <1>18, <1>19, <1>20, <1>21, <1>22, <1>23, LaneStep

LEMMA SettledIs ==
  ASSUME WebhookAssumption, HooksTypeOK, NEW d \in Deliveries, job[d] # None,
         NEW status \in {"pending", "processing", "completed", "dead", "reported"}, Hook!Settled(d, status)
  PROVE  /\ SameJobs /\ job' \in [Deliveries -> Hook!Jobs \cup {None}] /\ \A c \in Deliveries \ {d} : job'[c] = job[c]
         /\ job'[d] # None /\ job'[d].status = status /\ job'[d].attempts = job[d].attempts
<1>1. job \in [Deliveries -> Hook!Jobs \cup {None}] /\ job[d] \in Hook!Jobs
  BY DEF HooksTypeOK
<1>2. PICK j : j = [job[d] EXCEPT !.status = status]
  OBVIOUS
<1>3. /\ j \in Hook!Jobs /\ j.status = status /\ j.attempts = job[d].attempts /\ j.hook = job[d].hook /\ j.event = job[d].event
  BY <1>1, <1>2 DEF Hook!Jobs
<1>4. job' = [job EXCEPT ![d] = j]
  BY <1>1, <1>2 DEF Hook!Settled
<1>5. j # None
  BY <1>3 DEF WebhookAssumption, Hook!WebhookConstants
<1>6. job' \in [Deliveries -> Hook!Jobs \cup {None}] /\ job'[d] = j /\ \A c \in Deliveries \ {d} : job'[c] = job[c]
  BY <1>1, <1>3, <1>4
<1> QED BY <1>3, <1>5, <1>6 DEF SameJobs, KeptJobs

(* A delivery ends: with its job settled, and out of its transaction. *)
LEMMA LaneEnds ==
  ASSUME WebhookAssumption, HooksInv, NEW p \in Procs, task[p].op = "deliver", NEW d \in Deliveries, task[p].id = d,
         task' = [task EXCEPT ![p] = Hook!Idle], tx' = [tx EXCEPT ![p] = None],
         UNCHANGED <<rows, kv, met, published, accepted, emitted, steady, off, received, log, skipped>>,
         NEW status \in {"pending", "completed", "dead"}, Hook!Settled(d, status),
         status = "completed" => log[d].delivered > 0 \/ d \in skipped,
         status = "dead" => job[d].attempts >= MaxAttempts
  PROVE  HooksInv'
<1>1. HooksTypeOK /\ job[d] # None /\ Logged(d)
  BY DEF HooksInv, DeliverOK, Delivers
<1>2. /\ SameJobs /\ job' \in [Deliveries -> Hook!Jobs \cup {None}] /\ \A c \in Deliveries \ {d} : job'[c] = job[c]
      /\ job'[d] # None /\ job'[d].status = status /\ job'[d].attempts = job[d].attempts
  BY <1>1, SettledIs
<1>3. Hook!Idle \in HookTasks /\ HookOutside(Hook!Idle) /\ Hook!Idle.op = "idle"
  BY DEF HookTasks, HookOutside, Hook!Idle
<1>4. Logged(d)'
  BY <1>1, <1>2 DEF Logged
<1>5. Delivers(Hook!Idle)'
  BY <1>3 DEF Delivers
<1>6. received' \in [Deliveries -> Nat] /\ log' \in [Deliveries -> [delivered : Nat, failed : Nat]]
  BY <1>1 DEF HooksTypeOK
<1> QED BY <1>2, <1>3, <1>4, <1>5, <1>6, LaneStep

LEMMA CompleteStep ==
  ASSUME WebhookAssumption, HooksInv, NEW p \in Procs, Hook!Complete(p)
  PROVE  HooksInv'
<1>1. /\ task[p].op = "deliver" /\ task[p].at = "complete" /\ task' = [task EXCEPT ![p] = Hook!Idle] /\ Hook!Settled(task[p].id, "completed")
      /\ UNCHANGED <<published, accepted, emitted, steady, received, log, skipped, off, rows, kv, tx, met>>
  BY DEF Hook!Complete, Hook!At, Hook!Rest, Hook!storeVars
<1>2. HooksTypeOK /\ task[p] \in Delivering /\ Framed(task[p], tx[p])
  BY <1>1, HookTaskOf DEF HooksInv
<1>3. PICK d \in Deliveries : d = task[p].id
  BY <1>2 DEF Delivering
<1>4. tx[p] = None
  BY <1>1, <1>2 DEF Framed, HookOutside
<1>5. tx' = [tx EXCEPT ![p] = None]
  BY <1>1, <1>2, <1>4 DEF HooksTypeOK
<1>6. log[d].delivered > 0 \/ d \in skipped
  BY <1>1, <1>3 DEF HooksInv, DeliverOK, Delivers
<1>7. UNCHANGED <<rows, kv, met, published, accepted, emitted, steady, off, received, log, skipped>> /\ Hook!Settled(d, "completed")
  BY <1>1, <1>3
<1> QED BY <1>1, <1>3, <1>5, <1>6, <1>7, LaneEnds

LEMMA DeliveryFailsStep ==
  ASSUME WebhookAssumption, HooksInv, NEW p \in Procs, Hook!DeliveryFails(p)
  PROVE  HooksInv'
<1>1. /\ task[p].op = "deliver" /\ task[p].at = "logFailure" /\ task' = [task EXCEPT ![p] = Hook!Idle] /\ tx' = [tx EXCEPT ![p] = None]
      /\ UNCHANGED <<published, accepted, emitted, steady, received, log, skipped, off, rows, kv, met>>
  BY DEF Hook!DeliveryFails, Hook!At, Hook!Rest, Hook!Rollback, Hook!LogAttempt
<1>2. HooksTypeOK /\ task[p] \in Delivering
  BY <1>1, HookTaskOf DEF HooksInv
<1>3. PICK d \in Deliveries : d = task[p].id
  BY <1>2 DEF Delivering
<1>4. PICK status : status = IF job[d].attempts >= MaxAttempts THEN "dead" ELSE "pending"
  OBVIOUS
<1>5. Hook!Settled(d, status)
  BY <1>3, <1>4 DEF Hook!DeliveryFails
<1>6. UNCHANGED <<rows, kv, met, published, accepted, emitted, steady, off, received, log, skipped>>
  BY <1>1
<1>7. status \in {"pending", "completed", "dead"} /\ status # "completed" /\ (status = "dead" => job[d].attempts >= MaxAttempts)
  BY <1>4
<1> QED BY <1>1, <1>3, <1>5, <1>6, <1>7, LaneEnds

LEMMA ReportExhaustedStep ==
  ASSUME WebhookAssumption, HooksInv, NEW d \in Deliveries, Hook!ReportExhausted(d)
  PROVE  HooksInv'
<1>1. /\ job[d] # None /\ job[d].status = "dead" /\ Hook!Settled(d, "reported")
      /\ UNCHANGED <<task, published, accepted, emitted, steady, received, log, skipped, off, rows, kv, tx, met>>
  BY DEF Hook!ReportExhausted, Hook!storeVars
<1>2. HooksTypeOK
  BY DEF HooksInv
<1>3. /\ SameJobs /\ job' \in [Deliveries -> Hook!Jobs \cup {None}] /\ \A c \in Deliveries \ {d} : job'[c] = job[c]
      /\ job'[d] # None /\ job'[d].status = "reported" /\ job'[d].attempts = job[d].attempts
  BY <1>1, <1>2, SettledIs
<1>4. HooksTypeOK'
  BY <1>1, <1>2, <1>3 DEF HooksTypeOK
<1>5. HookFrames' /\ HookMeetings'
  BY <1>1 DEF HooksInv, HookFrames, HookMeetings
<1>6. AcceptOK'
  <2>1. AcceptOK /\ UNCHANGED <<published, accepted, kv, met, task>>
    BY <1>1 DEF HooksInv
  <2> QED BY <2>1 DEF AcceptOK, Remembers, Accepts, Live, Told
<1>7. DispatchOK'
  <2>1. UNCHANGED <<task, tx, kv, met, steady, emitted>> /\ DispatchOK
    BY <1>1 DEF HooksInv
  <2>2. \A e \in Events : Dispatched(e)'
    BY <1>3, <2>1, DispatchedStays DEF DispatchOK
  <2>3. ASSUME NEW q \in Procs PROVE Prepares(task[q], tx[q])'
    <3>1. PICK t, w : t = task[q] /\ w = tx[q]
      OBVIOUS
    <3>2. Prepares(t, w) /\ HooksTypeOK /\ HookFrames
      BY <2>1, <3>1 DEF DispatchOK, HooksInv
    <3>3. Prepares(t, w)'
      BY <1>3, <2>1, <3>1, <3>2, PreparesStays
    <3> QED BY <2>1, <3>1, <3>3 DEF Prepares, Batch, Marks
  <2>4. OneBatch'
    BY <2>1 DEF DispatchOK, OneBatch
  <2> QED BY <2>2, <2>3, <2>4 DEF DispatchOK
<1>8. ManageOK'
  <2>1. UNCHANGED <<task, tx, rows, met, off, steady>> /\ ManageOK
    BY <1>1 DEF HooksInv
  <2>2. Wanting'
    BY <2>1 DEF ManageOK, Wanting
  <2>3. (\A p \in Procs : Finds(task[p], tx[p]))'
    BY <2>1 DEF ManageOK, Finds, Hook!Deliverable, Hook!Exists, Hook!Over
  <2>4. (\A h \in off \ met : Dead(h))'
    BY <2>1 DEF ManageOK, Dead, Hook!Deliverable, Hook!Exists
  <2>5. ASSUME NEW q \in Procs, task'[q].op = "deliver", task'[q].silent PROVE Dead(job[task[q].id].hook)'
    <3>1. task[q].op = "deliver" /\ task[q].silent /\ task'[q].id = task[q].id
      BY <2>1, <2>5
    <3>2. task[q].id \in Deliveries /\ job[task[q].id] # None
      BY <3>1, HookTaskOf DEF HooksInv, DeliverOK, Delivers, Delivering
    <3>3. PICK h : h = job[task[q].id].hook /\ h = job'[task'[q].id].hook
      BY <1>3, <3>1, <3>2 DEF SameJobs, KeptJobs
    <3>4. Dead(h)
      BY <2>1, <3>1, <3>3 DEF ManageOK, Spared, Dead
    <3> QED BY <2>1, <3>3, <3>4 DEF Dead, Hook!Deliverable, Hook!Exists
  <2>6. Spared'
    BY <2>5 DEF Spared
  <2> QED BY <2>2, <2>3, <2>4, <2>6 DEF ManageOK
<1>9. DeliverOK'
  <2>1. UNCHANGED <<task, received, log, skipped>> /\ DeliverOK
    BY <1>1 DEF HooksInv
  <2>2. ASSUME NEW c \in Deliveries PROVE Logged(c)'
    <3>1. CASE c = d
      BY <1>1, <1>3, <2>1, <3>1 DEF DeliverOK, Logged
    <3>2. CASE c # d
      BY <1>3, <2>1, <3>2 DEF DeliverOK, Logged
    <3> QED BY <3>1, <3>2
  <2>3. ASSUME NEW q \in Procs PROVE Delivers(task[q])'
    <3>1. Delivers(task[q]) /\ (task[q].op = "deliver" => task[q].id \in Deliveries)
      BY <2>1, HookTaskOf DEF DeliverOK, HooksInv, Delivering
    <3>2. task[q].op = "deliver" => job'[task[q].id] = job[task[q].id]
      BY <1>1, <1>3, <3>1 DEF Delivers
    <3> QED BY <2>1, <3>1, <3>2 DEF Delivers
  <2>4. OneLane'
    BY <2>1 DEF DeliverOK, OneLane
  <2> QED BY <2>2, <2>3, <2>4 DEF DeliverOK
<1> QED BY <1>4, <1>5, <1>6, <1>7, <1>8, <1>9 DEF HooksInv
-----------------------------------------------------------------------------
(* What fails, and what is forgotten. *)
LEMMA HookCrashStep ==
  ASSUME WebhookAssumption, HooksInv, NEW p \in Procs, Hook!Crash(p)
  PROVE  HooksInv'
<1>1. /\ task' = [task EXCEPT ![p] = Hook!Idle] /\ UNCHANGED <<published, accepted, emitted, steady, received, log, skipped, off>>
      /\ IF task[p].op = "deliver" THEN Hook!Settled(task[p].id, "pending") ELSE job' = job
  BY DEF Hook!Crash, Hook!Rest
<1>2. HooksTypeOK /\ HookFrames /\ HookMeetings
  BY DEF HooksInv
<1>3. tx' = [tx EXCEPT ![p] = None] /\ UNCHANGED <<rows, kv, met>>
  <2>1. CASE Hook!InTx(p)
    BY <2>1 DEF Hook!Crash, Hook!Rollback
  <2>2. CASE ~Hook!InTx(p)
    <3>1. tx' = tx /\ UNCHANGED <<rows, kv, met>> /\ tx[p] = None
      BY <2>2 DEF Hook!Crash, Hook!storeVars, Hook!InTx
    <3> QED BY <1>2, <3>1 DEF HooksTypeOK
  <2> QED BY <2>1, <2>2
<1>4. CASE task[p].op = "deliver"
  <2>1. PICK d \in Deliveries : d = task[p].id
    BY <1>2, <1>4, HookTaskOf DEF Delivering
  <2>2. Hook!Settled(d, "pending")
    BY <1>1, <1>4, <2>1
  <2>3. UNCHANGED <<rows, kv, met, published, accepted, emitted, steady, off, received, log, skipped>>
    BY <1>1, <1>3
  <2>4. task'= [task EXCEPT ![p] = Hook!Idle] /\ tx' = [tx EXCEPT ![p] = None]
    BY <1>1, <1>3
  <2> QED BY <1>4, <2>1, <2>2, <2>3, <2>4, LaneEnds
<1>5. CASE task[p].op # "deliver"
  <2>1. Hook!Idle \in HookTasks /\ HookOutside(Hook!Idle) /\ Hook!Idle.op = "idle"
    BY DEF HookTasks, HookOutside, Hook!Idle
  <2>2. Framed(Hook!Idle, None)
    BY <2>1 DEF Framed
  <2>3. /\ task' \in [Procs -> HookTasks] /\ tx' = [q \in Procs |-> tx'[q]] /\ HookFrames' /\ HookMeetings'
        /\ task'[p] = Hook!Idle /\ tx'[p] = None /\ Moves(p)
    BY <1>1, <1>2, <1>3, <2>1, <2>2, SameTx
  <2>4. job' = job
    BY <1>1, <1>5
  <2>5. HooksTypeOK'
    BY <1>1, <1>2, <1>3, <2>3, <2>4 DEF HooksTypeOK
  <2>6. SameJobs /\ KeptJobs
    BY <2>4 DEF SameJobs, KeptJobs
  <2>7. AcceptOK'
    BY <1>1, <1>3, <2>1, <2>3, AcceptElse DEF Accepts
  <2>8. DispatchOK'
    BY <1>1, <1>3, <2>1, <2>3, <2>6, DispatchElse
  <2>9. ManageOK'
    BY <1>1, <1>3, <2>1, <2>3, <2>6, ManageElse DEF Manages
  <2>10. DeliverOK'
    BY <1>1, <1>2, <2>1, <2>3, <2>4, DeliverElse DEF HooksTypeOK
  <2> QED BY <2>3, <2>5, <2>7, <2>8, <2>9, <2>10 DEF HooksInv
<1> QED BY <1>4, <1>5

LEMMA ForgetStep ==
  ASSUME WebhookAssumption, HooksInv, NEW s \in Sources, Hook!Forget(s)
  PROVE  HooksInv'
<1>1. /\ kv[s] # None /\ kv' = [kv EXCEPT ![s].alive = FALSE] /\ published' = [published EXCEPT ![s] = 0]
      /\ UNCHANGED <<task, accepted, emitted, steady, job, received, log, skipped, off, rows, tx, met>>
  BY DEF Hook!Forget, Hook!Expire
<1>2. HooksTypeOK /\ s \in Keys /\ Sources \subseteq Keys /\ \A e \in Events : Hook!Marker(e) \in Keys \ Sources
  BY DEF HooksInv, WebhookAssumption, Hook!WebhookConstants
<1>3. PICK x : x = [kv[s] EXCEPT !.alive = FALSE]
  OBVIOUS
<1>4. x \in [value : {TRUE}, alive : BOOLEAN] /\ x.alive = FALSE /\ x # None
  <2>1. kv[s] \in [value : {TRUE}, alive : BOOLEAN]
    BY <1>1, <1>2 DEF HooksTypeOK
  <2>2. x = [value |-> TRUE, alive |-> FALSE]
    BY <1>3, <2>1
  <2> QED BY <2>2 DEF WebhookAssumption, Hook!WebhookConstants
<1>5. kv' = [k \in Keys |-> kv'[k]] /\ kv'[s] = x /\ \A k \in Keys \ {s} : kv'[k] = kv[k]
  <2>1. kv' = [kv EXCEPT ![s] = x]
    BY <1>1, <1>2, <1>3 DEF HooksTypeOK
  <2> QED BY <1>2, <2>1 DEF HooksTypeOK
<1>6. /\ published' \in [Sources -> Nat] /\ published'[s] = 0 /\ \A r \in Sources \ {s} : published'[r] = published[r]
  BY <1>1, <1>2 DEF HooksTypeOK
<1>7. \A e \in Events : kv'[Hook!Marker(e)] = kv[Hook!Marker(e)]
  BY <1>2, <1>5
<1>8. HooksTypeOK'
  <2>1. \A r \in Sources : kv'[r] \in {None} \cup [value : {TRUE}, alive : BOOLEAN]
    BY <1>2, <1>4, <1>5 DEF HooksTypeOK
  <2>2. \A e \in Events : kv'[Hook!Marker(e)] \in {None, Seen}
    BY <1>2, <1>7 DEF HooksTypeOK
  <2> QED BY <1>1, <1>2, <1>5, <1>6, <2>1, <2>2 DEF HooksTypeOK
<1>9. HookFrames' /\ HookMeetings'
  BY <1>1 DEF HooksInv, HookFrames, HookMeetings
<1>10. AcceptOK'
  <2>1. AcceptOK /\ UNCHANGED <<accepted, met, task>>
    BY <1>1 DEF HooksInv
  <2>2. ~Live(s)' /\ Told(s)'
    BY <1>4, <1>5, <1>6 DEF Live, Told
  <2>3. ASSUME NEW r \in Sources \ {s} PROVE (Live(r)' <=> Live(r)) /\ (Told(r)' <=> Told(r))
    BY <1>2, <1>5, <1>6 DEF Live, Told
  <2>4. Remembers'
    <3>1. ASSUME NEW r \in Sources
          PROVE  /\ Live(r)' => published'[r] >= 1
                 /\ r \notin met' => published'[r] <= 1 /\ (published'[r] = 1 => Live(r)')
                 /\ r \in accepted' => Told(r)'
      <4>1. CASE r = s
        BY <1>6, <2>2, <4>1
      <4>2. CASE r # s
        BY <1>6, <2>1, <2>3, <4>2 DEF AcceptOK, Remembers
      <4> QED BY <4>1, <4>2
    <3> QED BY <3>1 DEF Remembers
  <2>5. ASSUME NEW q \in Procs PROVE Accepts(task[q])'
    <3>1. Accepts(task[q]) /\ (task[q].op = "accept" => task[q].id \in Sources)
      BY <2>1, HookTaskOf DEF AcceptOK, HooksInv, Accepting
    <3>2. task[q].op = "accept" =>
            /\ published[task[q].id] = 0 => published'[task[q].id] = 0
            /\ Told(task[q].id) => Told(task[q].id)'
      <4>1. CASE task[q].op = "accept" /\ task[q].id = s
        BY <1>6, <2>1, <2>2, <4>1 DEF Told
      <4>2. CASE task[q].op = "accept" /\ task[q].id # s
        <5>1. kv'[task[q].id] = kv[task[q].id] /\ published'[task[q].id] = published[task[q].id]
          BY <1>2, <1>5, <1>6, <3>1, <4>2
        <5> QED BY <2>1, <5>1 DEF Told
      <4> QED BY <4>1, <4>2
    <3> QED BY <2>1, <3>1, <3>2 DEF Accepts, Told
  <2> QED BY <2>4, <2>5 DEF AcceptOK
<1>11. DispatchOK'
  <2>1. UNCHANGED <<task, tx, met, steady, emitted, job>> /\ DispatchOK
    BY <1>1 DEF HooksInv
  <2>2. SameJobs
    BY <2>1 DEF SameJobs, KeptJobs
  <2>3. \A e \in Events : Dispatched(e)'
    BY <1>7, <2>1, <2>2, DispatchedStays DEF DispatchOK
  <2>4. ASSUME NEW q \in Procs PROVE Prepares(task[q], tx[q])'
    <3>1. PICK t, w : t = task[q] /\ w = tx[q]
      OBVIOUS
    <3>2. Prepares(t, w) /\ HooksTypeOK /\ HookFrames
      BY <2>1, <3>1 DEF DispatchOK, HooksInv
    <3>3. Prepares(t, w)'
      BY <1>7, <2>1, <2>2, <3>1, <3>2, PreparesStays
    <3> QED BY <2>1, <3>1, <3>3 DEF Prepares, Batch, Marks
  <2>5. OneBatch'
    BY <2>1 DEF DispatchOK, OneBatch
  <2> QED BY <2>3, <2>4, <2>5 DEF DispatchOK
<1>12. ManageOK'
  BY <1>1, ManageSame DEF HooksInv
<1>13. DeliverOK'
  <2>1. UNCHANGED <<task, received, log, skipped, job>> /\ DeliverOK
    BY <1>1 DEF HooksInv
  <2> QED BY <2>1 DEF DeliverOK, Logged, Delivers, OneLane
<1> QED BY <1>8, <1>9, <1>10, <1>11, <1>12, <1>13 DEF HooksInv
-----------------------------------------------------------------------------
LEMMA HooksInit ==
  ASSUME WebhookAssumption, Hook!Init
  PROVE  HooksInv
<1>1. /\ task = [p \in Procs |-> Hook!Idle] /\ tx = [p \in Procs |-> None] /\ met = {}
      /\ rows = [h \in Hook!Hooks |-> Unused] /\ kv = [k \in Keys |-> None]
      /\ published = [k \in Sources |-> 0] /\ accepted = {} /\ emitted = {} /\ steady = [e \in Events |-> {}]
      /\ job = [d \in Deliveries |-> None] /\ received = [d \in Deliveries |-> 0]
      /\ log = [d \in Deliveries |-> [delivered |-> 0, failed |-> 0]] /\ skipped = {} /\ off = {}
  BY DEF Hook!Init, Hook!StoreInit
<1>2. Hook!Idle \in HookTasks /\ HookOutside(Hook!Idle) /\ Hook!Idle.op = "idle"
  BY DEF HookTasks, HookOutside, Hook!Idle
<1>3. /\ Sources \subseteq Keys /\ \A e \in Events : Hook!Marker(e) \in Keys
  BY DEF WebhookAssumption, Hook!WebhookConstants
<1>4. HooksTypeOK
  BY <1>1, <1>2, <1>3 DEF HooksTypeOK
<1>5. HookFrames /\ HookMeetings
  BY <1>1, <1>2 DEF HookFrames, HookMeetings, Framed
<1>6. AcceptOK
  BY <1>1, <1>2, <1>3 DEF AcceptOK, Remembers, Accepts, Live
<1>7. DispatchOK
  BY <1>1, <1>2, <1>3 DEF DispatchOK, Dispatched, Prepares, OneBatch, Has
<1>8. ManageOK
  BY <1>1, <1>2 DEF ManageOK, Wanting, Finds, Spared
<1>9. DeliverOK
  BY <1>1, <1>2 DEF DeliverOK, Logged, Delivers, OneLane
<1> QED BY <1>4, <1>5, <1>6, <1>7, <1>8, <1>9 DEF HooksInv

LEMMA HooksStutter ==
  ASSUME HooksInv, UNCHANGED Hook!vars
  PROVE  HooksInv'
<1>1. UNCHANGED <<task, budget, published, accepted, emitted, steady, job, received, log, skipped, off, rows, kv, tx, met>>
  BY DEF Hook!vars, Hook!hookVars, Hook!storeVars
<1>2. HooksTypeOK' /\ HookFrames' /\ HookMeetings'
  BY <1>1 DEF HooksInv, HooksTypeOK, HookFrames, HookMeetings
<1>3. AcceptOK'
  BY <1>1 DEF HooksInv, AcceptOK, Remembers, Accepts, Live, Told
<1>4. DispatchOK'
  <2>1. DispatchOK /\ UNCHANGED <<task, tx, kv, met, steady, emitted, job>>
    BY <1>1 DEF HooksInv
  <2>2. (\A e \in Events : Dispatched(e))'
    BY <2>1 DEF DispatchOK, Dispatched, Has
  <2>3. (\A p \in Procs : Prepares(task[p], tx[p]))' /\ OneBatch'
    BY <2>1 DEF DispatchOK, Prepares, OneBatch, Batch, Marks
  <2> QED BY <2>2, <2>3 DEF DispatchOK
<1>5. ManageOK'
  BY <1>1, ManageSame DEF HooksInv
<1>6. DeliverOK'
  BY <1>1 DEF HooksInv, DeliverOK, Logged, Delivers, OneLane
<1> QED BY <1>2, <1>3, <1>4, <1>5, <1>6 DEF HooksInv

LEMMA HooksNext ==
  ASSUME WebhookAssumption, HooksInv, [Hook!Next]_(Hook!vars)
  PROVE  HooksInv'
<1>1. CASE UNCHANGED Hook!vars
  BY <1>1, HooksStutter
<1>2. ASSUME NEW p \in Procs, Hook!Accept(p) \/ Hook!Management(p) \/ Hook!Subscription(p) \/ Hook!Deliver(p) \/ Hook!Crash(p) PROVE HooksInv'
  <2>1. CASE Hook!Accept(p)
    BY <2>1, AcceptLookupStep, AcceptSetStep, AcceptCommitStep DEF Hook!Accept
  <2>2. CASE Hook!Management(p)
    BY <2>2, RegisterStep, HookFindStep, HookWriteStep, HookManageCommitStep DEF Hook!Management
  <2>3. CASE Hook!Subscription(p)
    BY <2>3, DispatchMarkerStep, EnqueueStep, DispatchMarkStep, DispatchCommitStep DEF Hook!Subscription
  <2>4. CASE Hook!Deliver(p)
    BY <2>4, DeliverFindStep, PostStep, DeliveredStep, CompleteStep, DeliveryFailsStep DEF Hook!Deliver
  <2> QED BY <1>2, <2>1, <2>2, <2>3, <2>4, HookCrashStep
<1>3. ASSUME NEW p \in Procs, \E s \in Sources, cred \in Hook!Credentials, keyed \in BOOLEAN : Hook!Inbound(p, s, cred, keyed) PROVE HooksInv'
  BY <1>3, InboundStep
<1>4. ASSUME NEW p \in Procs,
             (\E h \in Hook!Hooks : Hook!Request(p, h)) \/ (\E e \in Events : Hook!Dispatch(p, e)) \/ (\E d \in Deliveries : Hook!Claim(p, d))
      PROVE  HooksInv'
  BY <1>4, HookRequestStep, DispatchStep, ClaimStep
<1>5. CASE \/ \E e \in Events : Hook!Emit(e)
           \/ \E d \in Deliveries : Hook!ReportExhausted(d)
           \/ \E s \in Sources : Hook!Forget(s)
  BY <1>5, EmitStep, ReportExhaustedStep, ForgetStep
<1> QED BY <1>1, <1>2, <1>3, <1>4, <1>5 DEF Hook!Next

LEMMA HooksHold ==
  ASSUME WebhookAssumption
  PROVE  Hook!Spec => []HooksInv
<1>1. Hook!Init => HooksInv
  BY HooksInit
<1>2. HooksInv /\ [Hook!Next]_(Hook!vars) => HooksInv'
  BY HooksNext
<1> QED BY <1>1, <1>2, PTL DEF Hook!Spec

(* Of an event there are, for a hook, at most one job. *)
LEMMA AtMostOne ==
  ASSUME NEW S, \A c, d \in S : c = d
  PROVE  Cardinality(S) <= 1
<1>1. CASE S = {}
  BY <1>1, FS_EmptySet
<1>2. CASE S # {}
  <2>1. PICK d : S = {d}
    BY <1>2
  <2>2. Cardinality({d}) = 1
    BY FS_Singleton
  <2> QED BY <2>1, <2>2
<1> QED BY <1>1, <1>2

LEMMA SameCardinality == ASSUME NEW S PROVE Hook!Cardinality(S) = Cardinality(S)
BY DEF Hook!Cardinality, Cardinality

LEMMA HooksImplyOnce ==
  ASSUME WebhookAssumption, HooksInv
  PROVE  Hook!OncePerEvent
<1>1. (\A s \in Sources \ met : published[s] <= 1) /\ \A s \in accepted : published[s] >= 1 \/ (kv[s] # None /\ ~kv[s].alive)
  BY DEF HooksInv, HooksTypeOK, AcceptOK, Remembers, Told
<1>2. ASSUME NEW e \in Events, NEW h \in Hook!Hooks, Hook!Marker(e) \notin met
      PROVE  LET jobs == {d \in Deliveries : job[d] # None /\ job[d].event = e /\ job[d].hook = h}
             IN Hook!Cardinality(jobs) <= 1 /\ (kv[Hook!Marker(e)] # None /\ h \in steady[e] => jobs # {})
  <2> DEFINE jobs == {d \in Deliveries : job[d] # None /\ job[d].event = e /\ job[d].hook = h}
  <2>1. Dispatched(e)
    BY DEF HooksInv, DispatchOK
  <2>2. \A c, d \in jobs : c = d
    BY <1>2, <2>1 DEF Dispatched, Has
  <2>3. Hook!Cardinality(jobs) <= 1
    <3> HIDE DEF jobs
    <3>1. Cardinality(jobs) <= 1
      BY <2>2, AtMostOne
    <3> QED BY <3>1, SameCardinality
  <2>4. kv[Hook!Marker(e)] # None /\ h \in steady[e] => jobs # {}
    BY <1>2, <2>1 DEF Dispatched, Has
  <2> HIDE DEF jobs
  <2> QED BY <2>3, <2>4 DEF jobs
<1> QED BY <1>1, <1>2 DEF Hook!OncePerEvent

LEMMA HooksImplyHonest ==
  ASSUME HooksInv
  PROVE  Hook!DeliveriesAgree
<1>1. \A d \in Deliveries : Logged(d)
  BY DEF HooksInv, DeliverOK
<1>2. \A p \in Procs : Delivers(task[p])
  BY DEF HooksInv, DeliverOK
<1> QED BY <1>1, <1>2 DEF Hook!DeliveriesAgree, Logged, Delivers

(* What a source posts again, because the answer was lost, is published once and, when it was accepted, was *)
(* published; an event makes one job for each hook that wanted it and was left alone, and none makes two.   *)
THEOREM HooksOncePerEvent ==
  ASSUME WebhookAssumption
  PROVE  Hook!Spec => []Hook!OncePerEvent
<1>1. HooksInv => Hook!OncePerEvent
  BY HooksImplyOnce
<1> QED BY <1>1, HooksHold, PTL

(* The log tells what the endpoints answered, a job ends for a reason, and who was turned off is not posted to. *)
THEOREM DeliveriesMatchAnswers ==
  ASSUME WebhookAssumption
  PROVE  Hook!Spec => []Hook!DeliveriesAgree
<1>1. HooksInv => Hook!DeliveriesAgree
  BY HooksImplyHonest
<1> QED BY <1>1, HooksHold, PTL
=============================================================================
