-------------------------------- MODULE Auth --------------------------------
(***************************************************************************)
(* The auth plugin: users, their API keys, and the guard that every        *)
(* request passes.  The guard runs up to three actions, a transaction      *)
(* each: is the key's prefix blocked, is the key valid, and the failure    *)
(* or success is counted.  Users and keys are managed meanwhile, here or   *)
(* on other processes; they meet in the database, statement by statement.  *)
(* A transaction of a single statement is one step.                        *)
(***************************************************************************)
EXTENDS DocumentStore, FiniteSets, Sequences

CONSTANTS
  Users, ApiKeys,  \* ids of documents: random
  Bootstrap,       \* the bootstrap key
  Unknown,         \* a key that was never made
  Prefix,          \* the first characters of a key
  MaxAttempts,     \* rateLimit.maxAttempts
  MaxRequests,     \* bound: requests
  MaxFaults        \* bound: crashes

VARIABLES
  task,     \* what a process is doing
  budget,   \* requests and faults that are left
  expired,  \* keys whose expiresAt has passed
  ended,    \* history: keys whose revocation was answered
  streak    \* history: failures of a prefix in a row that were not answered with a block

authVars == <<task, budget, expired, ended, streak>>
vars == <<authVars, storeVars>>

Idle == [op |-> "idle"]
Prefixes == {Prefix[k] : k \in ApiKeys \cup {Bootstrap, Unknown}}
BlockKey(x) == <<"block", x>>
CountKey(x) == <<"count", x>>
ValidScopes == {"admin", "read", "write", "auth:manage", "webhooks:manage"}
DefaultScopes == {"read", "write"}

Init ==
  /\ StoreInit([d \in Docs |-> Unused], [k \in Keys |-> None])
  /\ task = [p \in Procs |-> Idle]
  /\ budget = [requests |-> MaxRequests, faults |-> MaxFaults]
  /\ expired = {} /\ ended = {}
  /\ streak = [x \in Prefixes |-> 0]

At(p, op, place) == task[p].op = op /\ task[p].at = place
Goto(p, place) == task' = [task EXCEPT ![p].at = place]
Rest(p) == task' = [task EXCEPT ![p] = Idle]
Spend == budget.requests > 0 /\ budget' = [budget EXCEPT !.requests = @ - 1]
Start(p, t, subject) == task[p] = Idle /\ Begin(p, subject) /\ task' = [task EXCEPT ![p] = t]
-----------------------------------------------------------------------------
(* Paths are sequences of segments, so that a prefix is one of segments. *)
IsPrefixOf(prefix, path) == Len(prefix) <= Len(path) /\ SubSeq(path, 1, Len(prefix)) = prefix
PathStartsWith(path, prefixes) == \E prefix \in prefixes : IsPrefixOf(prefix, path)

ExcludePaths == {<<"health">>}
ManagementBase == "_auth"
WebhooksManagement == {<<"_webhooks">>}

IsExcludedPath(path) == PathStartsWith(path, ExcludePaths)

(* protectedPaths is a set of paths, or "all". *)
IsProtectedPath(path, protectedPaths) ==
  protectedPaths = {"all"} \/ PathStartsWith(path, protectedPaths)

(* Header fields: x-api-key, or a bearer token. *)
ExtractApiKey(xApiKey, bearer) == IF xApiKey # None THEN xApiKey ELSE bearer

ResolveRequiredScopes(method, path) ==
  IF PathStartsWith(path, {<<ManagementBase>>}) THEN {"admin", "auth:manage"}
  ELSE IF PathStartsWith(path, WebhooksManagement) THEN {"admin", "webhooks:manage"}
  ELSE IF method \in {"GET", "HEAD", "OPTIONS"} THEN {"admin", "read", "write"}
  ELSE {"admin", "write"}

HasRequiredScope(keyScopes, required) == keyScopes \cap required # {}

(* What is not a JSON array, or missing, stands for the default. *)
ParseScopes(raw) == IF raw = None THEN DefaultScopes ELSE raw

ValidateScopes(scopes) == scopes \subseteq ValidScopes
-----------------------------------------------------------------------------
(* Management: what follows the base path names an action.  Fields of a    *)
(* body are absent, of the wrong type, empty, or right.                    *)
MatchSegments(actual, expected) == actual = expected
MatchPrefixWithId(actual, prefix) == Len(actual) = Len(prefix) + 1 /\ IsPrefixOf(prefix, actual)
MatchPrefixWithIdAndSuffix(actual, prefix, suffix) ==
  Len(actual) = Len(prefix) + 2 /\ actual[Len(actual)] = suffix /\ IsPrefixOf(prefix, actual)

RequireString(field) == field = "right"
OptionalString(field) == field # "wrong"

ManagementRoute(method, path) ==
  LET base == <<ManagementBase, "users">>
  IN CASE MatchSegments(path, base) /\ method = "POST"           -> "createUser"
       [] MatchSegments(path, base) /\ method = "GET"            -> "listUsers"
       [] MatchPrefixWithId(path, base) /\ method = "DELETE"     -> "deleteUser"
       [] MatchPrefixWithIdAndSuffix(path, base, "keys") /\ method = "POST" -> "createApiKey"
       [] MatchPrefixWithIdAndSuffix(path, base, "keys") /\ method = "GET"  -> "listApiKeys"
       [] MatchPrefixWithId(path, <<ManagementBase, "keys">>) /\ method = "DELETE" -> "revokeApiKey"
       [] OTHER -> "next"

User == [coll |-> "user"]
Key(u, scopes) == [coll |-> "key", user |-> u, scopes |-> scopes, revoked |-> FALSE]
KeysOf(p, u) == {k \in Found(p, "key") : Doc(p, k).user = u}

KeyDocs == [coll : {"key"}, user : Users, scopes : SUBSET ValidScopes, revoked : BOOLEAN]
Counts == {None} \cup [value : Nat \ {0}, alive : BOOLEAN]

(* Users and keys are the documents, a prefix has two entries; what says that there is none is none. *)
AuthConstants ==
  /\ MaxAttempts \in Nat \ {0}
  /\ Users \cap ApiKeys = {} /\ Docs = Users \cup ApiKeys /\ Bootstrap \notin ApiKeys
  /\ \A x \in Prefixes : BlockKey(x) \in Keys /\ CountKey(x) \in Keys
  /\ Unused # Gone /\ \A doc \in KeyDocs \cup {User} : Exists(doc)
  /\ None \notin Nat /\ None \notin [value : Nat \ {0}, alive : BOOLEAN]

Manage(p, method, path, t, subject) ==
  /\ ManagementRoute(method, path) = t.op
  /\ Spend /\ Start(p, t, subject)
  /\ UNCHANGED <<expired, ended, streak>>

Request(p) ==
  \E u \in Users :
    \/ RequireString("right") /\ Manage(p, "POST", <<ManagementBase, "users">>, [op |-> "createUser", at |-> "insert", id |-> u], u)
    \/ Manage(p, "DELETE", <<ManagementBase, "users", u>>, [op |-> "deleteUser", at |-> "find", id |-> u], u)
    \/ /\ OptionalString("absent")
       /\ \E k \in ApiKeys, scopes \in {{"other"}, {"admin"}, {}, None} :
            Manage(p, "POST", <<ManagementBase, "users", u, "keys">>,
                   [op |-> "createApiKey", at |-> "find", id |-> k, user |-> u, scopes |-> ParseScopes(scopes)], u)
    \/ \E k \in ApiKeys :
         /\ Exists(rows[k]) /\ rows[k].user = u
         /\ Manage(p, "DELETE", <<ManagementBase, "keys", k>>, [op |-> "revokeApiKey", at |-> "find", id |-> k], u)

CreateUser(p) ==
  /\ At(p, "createUser", "insert")
  /\ CollectionInsert(p, task[p].id, User)
  /\ Goto(p, "commit")
  /\ UNCHANGED <<budget, expired, ended, streak>>

(* An unknown user or an unknown scope throws. *)
FindUser(p) ==
  /\ At(p, "createApiKey", "find")
  /\ Goto(p, IF Exists(Doc(p, task[p].user)) /\ ValidateScopes(task[p].scopes) THEN "insert" ELSE "throw")
  /\ UNCHANGED <<budget, expired, ended, streak, storeVars>>

CreateApiKey(p) ==
  /\ At(p, "createApiKey", "insert")
  /\ CollectionInsert(p, task[p].id, Key(task[p].user, task[p].scopes))
  /\ Goto(p, "commit")
  /\ UNCHANGED <<budget, expired, ended, streak>>

(* Finds the keys of the user, then updates one after the other.  Each     *)
(* update reads its key first; nothing but a revocation ever changes one.  *)
FindKeys(p) ==
  /\ At(p, "deleteUser", "find")
  /\ task' = [task EXCEPT ![p] = [op |-> "deleteUser", at |-> "next", id |-> @.id,
                                  keys |-> {k \in KeysOf(p, @.id) : ~Doc(p, k).revoked}]]
  /\ UNCHANGED <<budget, expired, ended, streak, storeVars>>

Revoking == [revoked |-> TRUE]

RevokeNext(p) ==
  /\ At(p, "deleteUser", "next") /\ task[p].keys # {}
  /\ \E k \in task[p].keys :
       UpdateRow(p, k, Doc(p, k), Revoking) /\ task' = [task EXCEPT ![p].keys = @ \ {k}]
  /\ UNCHANGED <<budget, expired, ended, streak>>

(* A bug: the user goes before all of the keys have. *)
DeleteUserEarly(p) ==
  /\ At(p, "deleteUser", "next")
  /\ DeleteRow(p, task[p].id)
  /\ Goto(p, "commit")
  /\ UNCHANGED <<budget, expired, ended, streak>>

DeleteUser(p) ==
  /\ At(p, "deleteUser", "next") /\ task[p].keys = {}
  /\ DeleteRow(p, task[p].id)
  /\ Goto(p, "commit")
  /\ UNCHANGED <<budget, expired, ended, streak>>

FindKey(p) ==
  /\ At(p, "revokeApiKey", "find")
  /\ Goto(p, IF Exists(Doc(p, task[p].id)) /\ ~Doc(p, task[p].id).revoked THEN "update" ELSE "commit")
  /\ UNCHANGED <<budget, expired, ended, streak, storeVars>>

RevokeApiKey(p) ==
  /\ At(p, "revokeApiKey", "update")
  /\ UpdateRow(p, task[p].id, Doc(p, task[p].id), Revoking)
  /\ Goto(p, "commit")
  /\ UNCHANGED <<budget, expired, ended, streak>>

(* The keys that an answer says are revoked. *)
Revoked(t) ==
  CASE t.op = "revokeApiKey" -> {t.id}
    [] t.op = "deleteUser"   -> {k \in ApiKeys : Exists(rows[k]) /\ rows[k].user = t.id}
    [] OTHER -> {}

ManageCommit(p) ==
  /\ task[p] # Idle /\ task[p].op # "guard" /\ task[p].at = "commit"
  /\ Commit(p) /\ Rest(p)
  /\ ended' = ended \cup Revoked(task[p])
  /\ UNCHANGED <<budget, expired, streak>>

Throw(p) ==
  /\ At(p, "createApiKey", "throw")
  /\ Rollback(p) /\ Rest(p)
  /\ UNCHANGED <<budget, expired, ended, streak>>
-----------------------------------------------------------------------------
(* The guard.  Its actions are transactions of their own; the check and    *)
(* the validation are a single statement.                                  *)
Alive(k) == kv[k] # None /\ kv[k].alive

Guard(p, method, path, xApiKey, bearer) ==
  LET key == ExtractApiKey(xApiKey, bearer)
  IN /\ ~IsExcludedPath(path) /\ IsProtectedPath(path, {"all"}) /\ key # None
     /\ task[p] = Idle /\ Spend
     /\ task' = [task EXCEPT ![p] = [op |-> "guard", at |-> "check", key |-> key, late |-> key \in ended,
                                     required |-> ResolveRequiredScopes(method, path)]]
     /\ UNCHANGED <<expired, ended, streak, storeVars>>

Check(p) ==
  /\ At(p, "guard", "check")
  /\ task' = [task EXCEPT ![p] = IF Alive(BlockKey(Prefix[@.key])) THEN Idle ELSE [@ EXCEPT !.at = "validate"]]
  /\ UNCHANGED <<budget, expired, ended, streak, storeVars>>

(* Looked up by its hash. *)
ValidApiKey(key) ==
  \/ key = Bootstrap
  \/ key \in ApiKeys /\ Exists(rows[key]) /\ ~rows[key].revoked /\ key \notin expired

ScopesOf(key) == IF key = Bootstrap THEN {"admin"} ELSE rows[key].scopes

(* The answer is kept while the failure, or the success, is counted.  A    *)
(* crash may come between the two.                                         *)
Validate(p) ==
  /\ At(p, "guard", "validate")
  /\ Begin(p, Prefix[task[p].key])
  /\ LET k == task[p].key
     IN task' = [task EXCEPT ![p] =
          IF ValidApiKey(k)
          THEN [@ EXCEPT !.at = IF HasRequiredScope(ScopesOf(k), task[p].required) THEN "success" ELSE "forbidden"]
          ELSE [@ EXCEPT !.at = "fail"]]
  /\ UNCHANGED <<budget, expired, ended, streak>>

Count(p, x) == IF KvGet(p, CountKey(x)) = None THEN 0 ELSE KvGet(p, CountKey(x))

(* The failure: is there a block, what is the count, and one of two writes.*)
FailBlocked(p) ==
  /\ At(p, "guard", "fail")
  /\ Goto(p, IF KvGet(p, BlockKey(Prefix[task[p].key])) # None THEN "blocked" ELSE "count")
  /\ UNCHANGED <<budget, expired, ended, streak, storeVars>>

FailRead(p) ==
  /\ At(p, "guard", "count")
  /\ LET x == Prefix[task[p].key]
     IN task' = [task EXCEPT ![p] =
          IF Count(p, x) + 1 >= MaxAttempts THEN [@ EXCEPT !.at = "block"]
          ELSE [op |-> "guard", at |-> "set", key |-> @.key, late |-> @.late, count |-> Count(p, x) + 1]]
  /\ UNCHANGED <<budget, expired, ended, streak, storeVars>>

(* A bug: the count that is written does not count this failure. *)
FailSetForgets(p) ==
  /\ At(p, "guard", "set")
  /\ KvSet(p, CountKey(Prefix[task[p].key]), task[p].count - 1)
  /\ Goto(p, "refused")
  /\ UNCHANGED <<budget, expired, ended, streak>>

FailSet(p) ==
  /\ At(p, "guard", "set")
  /\ KvSet(p, CountKey(Prefix[task[p].key]), task[p].count)
  /\ Goto(p, "refused")
  /\ UNCHANGED <<budget, expired, ended, streak>>

FailBlock(p) ==
  /\ At(p, "guard", "block")
  /\ KvSet(p, BlockKey(Prefix[task[p].key]), TRUE)
  /\ Goto(p, "clear")
  /\ UNCHANGED <<budget, expired, ended, streak>>

FailClear(p) ==
  /\ At(p, "guard", "clear")
  /\ KvDelete(p, CountKey(Prefix[task[p].key]))
  /\ Goto(p, "blocked")
  /\ UNCHANGED <<budget, expired, ended, streak>>

ClearCounter(p) ==
  /\ At(p, "guard", "success") \/ At(p, "guard", "forbidden")
  /\ KvDelete(p, CountKey(Prefix[task[p].key]))
  /\ Goto(p, IF task[p].at = "success" THEN "passed" ELSE "cleared")
  /\ UNCHANGED <<budget, expired, ended, streak>>

(* 401 for a failure that was counted, 429 for one that met or made a     *)
(* block, 403, or the next route.                                          *)
GuardAnswer(p) ==
  /\ task[p].op = "guard" /\ task[p].at \in {"refused", "blocked", "passed", "cleared"}
  /\ Commit(p) /\ Rest(p)
  /\ streak' = [streak EXCEPT ![Prefix[task[p].key]] = IF task[p].at = "refused" THEN @ + 1 ELSE 0]
  /\ UNCHANGED <<budget, expired, ended>>
-----------------------------------------------------------------------------
(* The window of a count ends, or a block does. *)
WindowEnds(x) ==
  /\ Expire(CountKey(x))
  /\ streak' = [streak EXCEPT ![x] = 0]
  /\ UNCHANGED <<task, budget, expired, ended>>

BlockEnds(x) ==
  /\ Expire(BlockKey(x))
  /\ UNCHANGED authVars

KeyExpires(k) ==
  /\ Exists(rows[k]) /\ k \notin expired
  /\ expired' = expired \cup {k}
  /\ UNCHANGED <<task, budget, ended, streak, storeVars>>

Crash(p) ==
  /\ task[p] # Idle /\ budget.faults > 0
  /\ budget' = [budget EXCEPT !.faults = @ - 1]
  /\ IF InTx(p) THEN Rollback(p) ELSE UNCHANGED storeVars
  /\ Rest(p)
  /\ UNCHANGED <<expired, ended, streak>>

Paths == {<<ManagementBase, "users">>, <<"_webhooks">>, <<"orders">>}

Guarded(p) ==
  \/ Check(p) \/ Validate(p) \/ GuardAnswer(p)
  \/ FailBlocked(p) \/ FailRead(p) \/ FailSet(p) \/ FailBlock(p) \/ FailClear(p) \/ ClearCounter(p)

Managed(p) ==
  \/ CreateUser(p) \/ FindUser(p) \/ CreateApiKey(p)
  \/ FindKeys(p) \/ RevokeNext(p) \/ DeleteUser(p) \/ FindKey(p) \/ RevokeApiKey(p)
  \/ ManageCommit(p) \/ Throw(p)

Next ==
  \/ \E p \in Procs :
       \/ \E k \in ApiKeys \cup {Bootstrap, Unknown}, path \in Paths : Guard(p, "POST", path, k, None)
       \/ Request(p) \/ Guarded(p) \/ Managed(p) \/ Crash(p)
  \/ \E x \in Prefixes : WindowEnds(x) \/ BlockEnds(x)
  \/ \E k \in ApiKeys : KeyExpires(k)

Spec == Init /\ [][Next]_vars
-----------------------------------------------------------------------------
(* A user is deleted together with the authority of all its keys, and a    *)
(* request that begins after the revocation of its key was answered, the   *)
(* key's own or with its user, does not pass, unless requests about that   *)
(* user meet.                                                              *)
DeadKeysStayOut ==
  /\ \A k \in ApiKeys : Exists(rows[k]) /\ rows[k].user \notin met /\ ~Exists(rows[rows[k].user])
       => rows[k].revoked
  /\ \A p \in Procs : task[p].op = "guard" /\ task[p].late /\ rows[task[p].key].user \notin met
       => task[p].at \notin {"success", "forbidden", "passed", "cleared"}

(* Failures in a row, within the window of the last, are answered "invalid"*)
(* less than maxAttempts times before a block, unless two of them meet.    *)
FailuresBlock == \A x \in Prefixes \ met : streak[x] < MaxAttempts
=============================================================================
