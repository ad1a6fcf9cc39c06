---------------------------- MODULE Registration ----------------------------
(***************************************************************************)
(* register(): plugins that depend on one another, by object or by name,   *)
(* and that nest one another, are put in an order, and their entries go to *)
(* the registry of the host.                                               *)
(*                                                                         *)
(* A plugin is a number, in the order in which the program makes them: an  *)
(* object can only refer to those made before it.  Each plugin has one     *)
(* action and, after it, one start hook of its own; the two stand for its  *)
(* entries.  The action may have no name; the host takes every kind of     *)
(* entry, so this is what makes it throw.                                  *)
(***************************************************************************)
EXTENDS Integers, Sequences, FiniteSets
LOCAL INSTANCE SequencesExt
LOCAL INSTANCE TLC

CONSTANTS
  Graphs,    \* functions from plugins to [name, unnamed, dependsOn, entries]
  Calls,     \* lists of items that a call of register() may be given
  MaxCalls,  \* bound: calls of register()
  None

VARIABLES
  graph,     \* the plugins, whose names and whose actions' names may be inferred
  actions,   \* registry.actions: a map, here the names in it
  hooks,     \* registry.onStartHooks: a list
  calls,
  result     \* what the last call was given, and how it ended

vars == <<graph, actions, hooks, calls, result>>

(* What stands in a list of entries: an entry or a plugin, which may stand *)
(* under a key of a map, or a value there that is neither; and what stands *)
(* in dependsOn.                                                           *)
Entry(p, key) == [kind |-> "entry", of |-> p, key |-> key]
Invalid == [kind |-> "invalid", of |-> None, key |-> None]
Plugin(p, key) == [kind |-> "plugin", of |-> p, key |-> key]
Named(n) == [kind |-> "name", of |-> n, key |-> None]
-----------------------------------------------------------------------------
(* inferRegistrationMapKeyName: the key names a plugin or an action that   *)
(* has no name.                                                            *)
InferName(g, item) ==
  CASE item.key # None /\ item.kind = "entry" -> [g EXCEPT ![item.of].unnamed = FALSE]
    [] item.key # None /\ item.kind = "plugin" -> [g EXCEPT ![item.of].name = IF @ = None THEN item.key ELSE @]
    [] OTHER -> g

RegisterName(state, p) ==
  LET name == state.graph[p].name
  IN IF name = None THEN state
     ELSE IF name \in DOMAIN state.pluginsByName /\ state.pluginsByName[name] # p
          THEN [state EXCEPT !.error = "duplicate"]
          ELSE [state EXCEPT !.pluginsByName = (name :> p) @@ @]

RECURSIVE Scan(_, _)
Scan(state, item) ==
  LET p == item.of
      inferred == [state EXCEPT !.graph = InferName(@, item)]
      named == RegisterName(inferred, p)
  IN IF state.error # None THEN state
     ELSE CASE item.kind = "name" -> state
            [] item.kind = "invalid" -> [state EXCEPT !.error = "invalid"]
            [] item.kind = "entry" -> inferred
            [] item.kind = "plugin" ->
                 IF named.error # None \/ p \in named.scannedPlugins THEN named
                 ELSE FoldLeft(LAMBDA s, i : Scan(s, i), [named EXCEPT !.scannedPlugins = @ \cup {p}],
                               named.graph[p].dependsOn \o named.graph[p].entries)

(* resolvePluginDependency *)
Resolve(state, dependency) ==
  IF dependency.kind = "name" THEN Plugin(state.pluginsByName[dependency.of], None) ELSE dependency
Missing(state, dependency) == dependency.kind = "name" /\ dependency.of \notin DOMAIN state.pluginsByName

(* A bug: a plugin counts as visited as soon as it is begun. *)
RECURSIVE ExpandVisitsFirst(_, _)
ExpandVisitsFirst(state, item) ==
  IF state.error # None THEN state
  ELSE CASE item.kind = "entry" -> [state EXCEPT !.expanded = Append(@, item.of)]
         [] Missing(state, item) -> [state EXCEPT !.error = "missing"]
         [] OTHER ->
              LET p == Resolve(state, item).of
              IN IF p \in state.visitedPlugins THEN state
                 ELSE FoldLeft(LAMBDA s, i : ExpandVisitsFirst(s, i), [state EXCEPT !.visitedPlugins = @ \cup {p}],
                               state.graph[p].dependsOn \o state.graph[p].entries)

RECURSIVE Expand(_, _)
Expand(state, item) ==
  IF state.error # None THEN state
  ELSE CASE item.kind = "entry" -> [state EXCEPT !.expanded = Append(@, item.of)]
         [] Missing(state, item) -> [state EXCEPT !.error = "missing"]
         [] OTHER ->
              LET p == Resolve(state, item).of
                  begun == [state EXCEPT !.pluginStack = Append(@, p)]
                  ended == FoldLeft(LAMBDA s, i : Expand(s, i), begun, state.graph[p].dependsOn \o state.graph[p].entries)
              IN IF p \in state.visitedPlugins THEN state
                 ELSE IF p \in ToSet(state.pluginStack) THEN [state EXCEPT !.error = "circular"]
                 ELSE IF ended.error # None THEN ended
                 ELSE [ended EXCEPT !.pluginStack = state.pluginStack, !.visitedPlugins = @ \cup {p}]

(* resolveChimpbaseEntries: all names first, then the order. *)
ResolveEntries(g, items) ==
  LET fresh == [graph |-> g, expanded |-> <<>>, pluginStack |-> <<>>, pluginsByName |-> <<>>,
                scannedPlugins |-> {}, visitedPlugins |-> {}, error |-> None]
      scanned == FoldLeft(Scan, fresh, items)
  IN FoldLeft(Expand, scanned, items)

(* The loop over the resolved plugins ends where an action has no name. *)
Registered(g, plugins) ==
  SubSeq(plugins, 1, SelectInSeq(plugins \o <<None>>, LAMBDA p : p = None \/ g[p].unnamed) - 1)
-----------------------------------------------------------------------------
Init ==
  /\ graph \in Graphs
  /\ actions = {} /\ hooks = <<>> /\ calls = 0
  /\ result = [items |-> <<>>, error |-> None, from |-> 1]

(* register: an error of the resolution comes before anything is put into  *)
(* the registry.  An action replaces one of its name, a hook is added; an  *)
(* action without a name throws, and what came before it stays.            *)
Register(items) ==
  LET state == ResolveEntries(graph, items)
      registered == IF state.error = None THEN Registered(state.graph, state.expanded) ELSE <<>>
      error == IF state.error = None /\ registered # state.expanded THEN "unnamed" ELSE state.error
  IN /\ calls < MaxCalls /\ calls' = calls + 1
     /\ graph' = state.graph
     /\ result' = [items |-> items, error |-> error, from |-> Len(hooks) + 1]
     /\ actions' = actions \cup ToSet(registered)
     /\ hooks' = hooks \o registered

Next == \E items \in Calls : Register(items)

Spec == Init /\ [][Next]_vars
-----------------------------------------------------------------------------
(* What the graph asks for, without walking it: who refers to whom, whom a *)
(* call is given, and who needs whom in it.                                *)
Refs(p) == ToSet(graph[p].dependsOn) \cup {i \in ToSet(graph[p].entries) : i.kind = "plugin"}
Objects == [p \in DOMAIN graph |-> {i.of : i \in {i \in Refs(p) : i.kind = "plugin"}}]
Reach(S, edges) == LET closed == {T \in SUBSET DOMAIN graph : S \subseteq T /\ \A p \in T : edges[p] \subseteq T}
                   IN {p \in DOMAIN graph : \A T \in closed : p \in T}
Given == LET objects == Objects IN Reach({i.of : i \in ToSet(result.items)}, objects)
Needs(given) == LET objects == Objects
                IN [p \in DOMAIN graph |-> {q \in given : q \in objects[p] \/ Named(graph[q].name) \in Refs(p)}]

HasDuplicate(given) == \E p, q \in given : p # q /\ graph[p].name # None /\ graph[p].name = graph[q].name
HasMissing(given) == \E p \in given : \E i \in Refs(p) : i.kind = "name" /\ \A q \in given : graph[q].name # i.of
HasCycle(given) == LET needs == Needs(given) IN \E p \in given : p \in Reach(needs[p], needs)
HasInvalid(given) == Invalid \in ToSet(result.items) \/ \E p \in given : Invalid \in ToSet(graph[p].entries)

Position(p) == {i \in result.from .. Len(hooks) : hooks[i] = p}
DependsOn(p, q) == Plugin(q, None) \in ToSet(graph[p].dependsOn) \/ Named(graph[q].name) \in ToSet(graph[p].dependsOn)

(* A call of register() whose plugins have two of one name, lack a name    *)
(* they depend on, need one another in a circle, or hold a value that is   *)
(* no entry, throws and leaves the registry alone.  Any other puts plugins *)
(* into the registry each once and after its dependencies - by object and  *)
(* by name, wherever in the call they stand: all that it is given, with    *)
(* all that these depend on or contain, unless an action among them has no *)
(* name; then it throws, and what it registered before stays: never this   *)
(* action, nor a plugin that depends on its own.                           *)
DependenciesFirst == calls > 0 =>
  LET given == Given
      registered == {p \in given : Position(p) # {}}
  IN IF HasDuplicate(given) \/ HasMissing(given) \/ HasCycle(given) \/ HasInvalid(given)
     THEN result.error # None /\ Len(hooks) < result.from
     ELSE /\ result.error = None <=> \A p \in given : ~graph[p].unnamed
          /\ result.error = None => registered = given
          /\ Len(hooks) + 1 - result.from = Cardinality(registered)
          /\ \A p \in registered : ~graph[p].unnamed /\ p \in actions
          /\ \A p \in registered, q \in given : DependsOn(p, q) =>
               \E i \in Position(p), j \in Position(q) : j < i
=============================================================================
