------------------------------ MODULE Registry ------------------------------
(***************************************************************************)
(* The catalog of an application: which features own its queues, workflows *)
(* and activities, which of them each feature may use, and whether the     *)
(* application is accepted. Features are discovered in an order the        *)
(* framework chooses. An application is a record:                          *)
(*   imports, forwards   of each host, a feature or a plain module: what   *)
(*                       it imports, and what of it its exports pass on    *)
(*   exports             of each feature: the tokens it exports by name    *)
(*   name, queues        of each feature: its name and the queues it owns  *)
(*   off, only           of the root and each feature: the kinds of work   *)
(*                       it switches off, and the only queues whose        *)
(*                       activities it runs, if it says so                 *)
(*   workflows, activities  the contracts it implements                    *)
(*   clients, declared   the workflow contracts it only calls, and the     *)
(*                       activity contracts it owns without a handler      *)
(*   rootQueues, overrides  the queues of the root, and its overrides in   *)
(*                       their order: [queue, perKey]                      *)
(*   perKey              what the defaults of the root and of a feature,   *)
(*                       and a queue itself, say of its limit per key:     *)
(*                       "on", "off" or nothing                            *)
(*   defaultQueue        of the root and each feature: where activities    *)
(*                       run that name no queue                            *)
(*   runsOn              of each activity contract: the queues its class   *)
(*                       and its method name                               *)
(*   keyed               the activities that have a key                    *)
(*   identity            of each contract: name and version                *)
(*   schedule            of some workflows: the name of its schedule       *)
(***************************************************************************)
EXTENDS Naturals, SequencesExt

CONSTANTS
  Root,  \* owner of the queues of the root options
  None   \* undefined

FeaturesOf(app) == DOMAIN app.exports
\* An application with its modules, features and layers of settings.
IsApplication(app) ==
  LET hosts == DOMAIN app.imports
      features == FeaturesOf(app)
      IsLayer(said) == said \in {None, "on", "off"}
  IN /\ IsFiniteSet(hosts) /\ features \subseteq hosts /\ Root \notin features
     /\ \A h \in hosts : app.imports[h] \subseteq hosts
     /\ DOMAIN app.name = features /\ DOMAIN app.queues = features /\ DOMAIN app.workflows = features
     /\ \A f \in features :
          /\ IsFiniteSet(app.activities[f]) /\ IsFiniteSet(app.workflows[f])
          /\ app.activities[f] \cup app.declared[f] \subseteq DOMAIN app.runsOn
          /\ None \notin app.queues[f] \cup app.rootQueues
          /\ \A q \in app.queues[f] \cup app.rootQueues \cup {f, Root} : IsLayer(app.perKey[q])
     /\ \A a \in DOMAIN app.runsOn : app.runsOn[a] = <<app.runsOn[a][1], app.runsOn[a][2]>>
     /\ DOMAIN app.overrides = 1..Len(app.overrides)
     /\ \A i \in DOMAIN app.overrides : IsLayer(app.overrides[i].perKey)
\* Its features in the order they are handed over.
IsOrder(order, app) ==
  /\ order \in Seq(FeaturesOf(app))
  /\ \A f \in FeaturesOf(app) : \E i \in DOMAIN order : order[i] = f
  /\ \A i, j \in DOMAIN order : i # j => order[i] # order[j]

(***************************************************************************)
(* Visibility. A feature passes a token on by a marker of its own, a plain *)
(* module by exporting the module it imports; markers must lead to the     *)
(* owner.                                                                  *)
(***************************************************************************)
Marked(app, token) == {g \in FeaturesOf(app) : token \in app.exports[g]}
\* The workflows a feature has a client of, and exports it.
Clients(app, host) ==
  IF host \in DOMAIN app.workflows THEN app.workflows[host] \cup app.clients[host] ELSE {}
PassedOn(app, h) == app.imports[h] \cap app.forwards[h]

\* Each traversal goes on from <<where it is, where it has been>>.
Walks(nodes) == (SUBSET nodes) \X (SUBSET nodes)
\* The hosts a traversal ends at.
FirstMet(app, hosts, ends) ==
  LET met[w \in Walks(DOMAIN app.imports)] ==
        LET fresh == w[1] \ w[2]
            passed == UNION {PassedOn(app, h) : h \in fresh \ ends}
        IN IF fresh = {} THEN {} ELSE (fresh \cap ends) \cup met[<<passed, w[2] \cup fresh>>]
  IN met[<<hosts, {}>>]

ExportedMarkers(app, host, token) == FirstMet(app, {host}, Marked(app, token))
ImportsExport(app, feature, token, owner) ==
  LET from[w \in Walks(FeaturesOf(app))] ==
        LET fresh == w[1] \ w[2]
            markers == UNION {ExportedMarkers(app, h, token) : h \in UNION {app.imports[f] : f \in fresh}}
        IN IF fresh = {} THEN FALSE ELSE owner \in markers \/ from[<<markers, w[2] \cup fresh>>]
  IN from[<<{feature}, {}>>]
\* Nest's own traversal, for the client of a workflow.
VisibleProviders(app, hosts, workflow) ==
  FirstMet(app, hosts, {h \in FeaturesOf(app) : workflow \in Clients(app, h)})

(***************************************************************************)
(* Discovery, over the features in the order they come. The catalog keeps  *)
(* the owner of every queue, workflow, schedule and activity contract,     *)
(* which queues limit per key, and the handlers and schedules that are     *)
(* enabled here; it stops at the first failure.                            *)
(***************************************************************************)
EmptyCatalog == [failure |-> "none", contracts |-> {}, names |-> {}, queue |-> <<>>, perKey |-> <<>>,
                 workflow |-> <<>>, schedules |-> {}, activity |-> <<>>, handled |-> {},
                 running |-> {}, timed |-> {}, working |-> <<>>]
Fail(catalog, code) == [catalog EXCEPT !.failure = code]
Added(old, new) == [k \in (DOMAIN old) \cup DOMAIN new |-> IF k \in DOMAIN new THEN new[k] ELSE old[k]]
Own(owner, keys, f) == Added(owner, [k \in keys |-> f])
Unless(before, after) == IF before.failure # "none" THEN before ELSE after

\* resolveQueue and mergeActivityDefaults: a layer that says something replaces
\* what those before it said.
Over(said, layer) == IF layer = None THEN said ELSE layer
QueueOf(app, f, a) ==
  LET default == Over(app.defaultQueue[Root], app.defaultQueue[f])
  IN Over(Over(default, app.runsOn[a][1]), app.runsOn[a][2])
QueueLimit(app, f, q) ==
  LET default == Over("off", app.perKey[Root])
  IN Over(IF f = Root THEN default ELSE Over(default, app.perKey[f]), app.perKey[q])
Enabled(app, f, kind) == kind \notin app.off[Root] \cup app.off[f]
Listed(queues) == IF queues = None THEN {} ELSE queues
Selected(queues, q) == queues = None \/ q \in queues

\* A client of a workflow registers the contract when Nest instantiates it.
RegisterContracts(app, c, f) ==
  LET contracts == c.contracts \cup Clients(app, f)
  IN IF \E v, w \in contracts : v # w /\ app.identity[v] = app.identity[w] THEN Fail(c, "DUPLICATE_WORKFLOW")
     ELSE [c EXCEPT !.contracts = contracts]
NameFeature(app, c, f) ==
  IF app.name[f] \in c.names THEN Fail(c, "DUPLICATE_FEATURE")
  ELSE [c EXCEPT !.names = @ \cup {app.name[f]}]
RegisterQueues(app, c, queues, f) ==
  IF queues \cap DOMAIN c.queue # {} THEN Fail(c, "DUPLICATE_QUEUE_OWNER")
  ELSE [c EXCEPT !.queue = Own(@, queues, f),
                 !.perKey = Added(@, [q \in queues |-> QueueLimit(app, f, q)])]
Override(app, c) ==
  LET Of(q) == {i \in DOMAIN app.overrides : app.overrides[i].queue = q}
      Overriding(q) == app.overrides[CHOOSE i \in Of(q) : TRUE].perKey
  IN IF \E i \in DOMAIN app.overrides : app.overrides[i].queue \notin DOMAIN c.queue
     THEN Fail(c, "UNKNOWN_QUEUE_OVERRIDE")
     ELSE IF \E i, j \in DOMAIN app.overrides : i # j /\ app.overrides[i].queue = app.overrides[j].queue
     THEN Fail(c, "DUPLICATE_QUEUE_OVERRIDE")
     ELSE [c EXCEPT !.perKey = [q \in DOMAIN @ |-> IF Of(q) = {} THEN @[q] ELSE Over(@[q], Overriding(q))]]
CheckRoot(app, c) ==
  IF Listed(app.only[Root]) \subseteq DOMAIN c.queue THEN c ELSE Fail(c, "UNKNOWN_QUEUE")

\* The failure of requireQueue for one of the queues, or "none".
RequireQueues(app, c, f, queues) ==
  LET Hidden(q) == /\ c.queue[q] \notin {Root, f}
                   /\ ~ImportsExport(app, f, q, c.queue[q])
  IN IF ~(queues \subseteq DOMAIN c.queue) THEN "UNKNOWN_QUEUE"
     ELSE IF \E q \in queues : Hidden(q) THEN "QUEUE_NOT_VISIBLE" ELSE "none"

RegisterSchedules(app, c, f) ==
  LET scheduled == app.workflows[f] \cap DOMAIN app.schedule
      names == {app.schedule[w] : w \in scheduled}
  IN IF names \cap c.schedules # {} \/ Cardinality(names) < Cardinality(scheduled) THEN Fail(c, "DUPLICATE_SCHEDULE")
     ELSE [c EXCEPT !.schedules = @ \cup names, !.timed = IF Enabled(app, f, "schedules") THEN @ \cup names ELSE @]
RegisterWorkflows(app, c, f) ==
  IF app.workflows[f] \cap DOMAIN c.workflow # {} THEN Fail(c, "DUPLICATE_WORKFLOW_HANDLER")
  ELSE [RegisterSchedules(app, c, f) EXCEPT
          !.workflow = Own(@, app.workflows[f], f),
          !.running = IF Enabled(app, f, "workflows") THEN @ \cup app.workflows[f] ELSE @]
\* The activities with a handler that are enabled, with their queues.
Working(app, f) ==
  LET chosen == {a \in app.activities[f] :
                   /\ Enabled(app, f, "activities")
                   /\ Selected(app.only[Root], QueueOf(app, f, a)) /\ Selected(app.only[f], QueueOf(app, f, a))}
  IN [a \in chosen |-> QueueOf(app, f, a)]
RegisterActivities(app, c, f) ==
  LET contracts == app.activities[f] \cup app.declared[f]
      queues == {QueueOf(app, f, a) : a \in contracts}
      required == RequireQueues(app, c, f, queues)
      identities == {app.identity[a] : a \in app.activities[f]}
  IN IF contracts \cap DOMAIN c.activity # {} \/ app.activities[f] \cap app.declared[f] # {}
     THEN Fail(c, "DUPLICATE_ACTIVITY_PROVIDER")
     ELSE IF None \in queues THEN Fail(c, "ACTIVITY_QUEUE_REQUIRED")
     ELSE IF required # "none" THEN Fail(c, required)
     ELSE IF \E a \in contracts : c.perKey[QueueOf(app, f, a)] = "on" /\ a \notin app.keyed
     THEN Fail(c, "ACTIVITY_KEY_REQUIRED")
     ELSE IF identities \cap c.handled # {} \/ Cardinality(identities) < Cardinality(app.activities[f])
     THEN Fail(c, "DUPLICATE_ACTIVITY")
     ELSE [c EXCEPT !.activity = Own(@, contracts, f), !.handled = @ \cup identities,
                    !.working = Added(@, Working(app, f))]
ResolveFeature(app, c, f) ==
  LET required == RequireQueues(app, c, f, Listed(app.only[f]) \cup ({app.defaultQueue[f]} \ {None}))
      workflows == RegisterWorkflows(app, c, f)
  IN IF required # "none" THEN Fail(c, required)
     ELSE IF workflows.failure # "none" THEN workflows
     ELSE RegisterActivities(app, workflows, f)
\* Contracts without a handler count, too.
CheckIdentities(app, c) ==
  IF \E a, b \in DOMAIN c.activity : a # b /\ app.identity[a] = app.identity[b]
  THEN Fail(c, "DUPLICATE_ACTIVITY") ELSE c

\* activitiesFor: a contract the feature owns or imports from its owner.
SeesActivity(app, c, f, a) ==
  c.activity[a] = f \/ ImportsExport(app, f, a, c.activity[a])
SeesWorkflow(app, f, w) ==
  w \in Clients(app, f) \/ VisibleProviders(app, app.imports[f], w) # {}
CheckExports(app, c, f) ==
  LET queues == RequireQueues(app, c, f, app.exports[f] \ DOMAIN app.runsOn)
      activities == app.exports[f] \cap DOMAIN app.runsOn
  IN IF queues # "none" THEN Fail(c, queues)
     ELSE IF \E a \in activities : a \notin DOMAIN c.activity \/ ~SeesActivity(app, c, f, a)
     THEN Fail(c, "INVALID_FEATURE_EXPORT") ELSE c

\* One stage of the discovery, for each feature in turn.
Visit(stage, app, c, f) ==
  CASE stage = "contracts" -> RegisterContracts(app, c, f)
    [] stage = "names" -> NameFeature(app, c, f)
    [] stage = "queues" -> RegisterQueues(app, c, app.queues[f], f)
    [] stage = "feature" -> ResolveFeature(app, c, f)
    [] stage = "exports" -> CheckExports(app, c, f)
    [] stage = "queues and feature" -> ResolveFeature(app, RegisterQueues(app, c, app.queues[f], f), f)
Step(stage, app, c, f) == Unless(c, Visit(stage, app, c, f))
Each(stage, app, c, order) ==
  LET after[n \in 0..Len(order)] ==
        IF n = 0 THEN c ELSE Step(stage, app, after[n - 1], order[n])
  IN after[Len(order)]
RegisterRoot(app, c) == Unless(c, RegisterQueues(app, c, app.rootQueues, Root))
Settle(app, c) ==
  LET overridden == Unless(c, Override(app, c)) IN Unless(overridden, CheckRoot(app, overridden))
Identify(app, c) == Unless(c, CheckIdentities(app, c))
Rooted(app, order) == RegisterRoot(app, Each("names", app, Each("contracts", app, EmptyCatalog, order), order))
\* mutant: one pass over the features.
OnePass(app, order) ==
  Each("exports", app, Settle(app, Each("queues and feature", app, Rooted(app, order), order)), order)
Discover(app, order) ==
  LET settled == Settle(app, Each("queues", app, Rooted(app, order), order))
      identified == Identify(app, Each("feature", app, settled, order))
  IN Each("exports", app, identified, order)

\* What a process then runs of it: the queues it forks workers for, whether its
\* dispatch loop serves runs, and whether it has a scheduler.
Workers(c) == {q \in DOMAIN c.queue : \E a \in DOMAIN c.working : c.working[a] = q}
Dispatches(app, c) == "workflows" \notin app.off[Root] /\ c.running # {}
HasScheduler(app, c) == "schedules" \notin app.off[Root] /\ c.timed # {}

(***************************************************************************)
(* What the catalog should be, whatever the order: a token reaches a       *)
(* feature if a chain of markers, each visible to the one before it, leads *)
(* from it to the owner.                                                   *)
(***************************************************************************)
\* What one gets to from the first: what lies in every set that holds them and
\* the successors of its own members.
Reachable(first, Successors(_), nodes) ==
  LET closed == {s \in SUBSET nodes : first \subseteq s /\ \A z \in s : Successors(z) \subseteq s}
  IN {y \in nodes : \A s \in closed : y \in s}
Imported(app, f) ==
  LET On(h) == PassedOn(app, h) IN Reachable(app.imports[f], On, DOMAIN app.imports)
Reached(app, token, f) ==
  LET Next(g) == Imported(app, g) \cap Marked(app, token) IN Reachable(Next(f), Next, FeaturesOf(app))
OwnersOf(owned, token) == {f \in DOMAIN owned : token \in owned[f]}
MayUse(app, owned, f, token) ==
  \E g \in OwnersOf(owned, token) : g \in {f, Root} \cup Reached(app, token, f)
OwnedQueues(app) == [f \in FeaturesOf(app) \cup {Root} |-> IF f = Root THEN app.rootQueues ELSE app.queues[f]]
Unique(owned) == \A f, g \in DOMAIN owned : f # g => owned[f] \cap owned[g] = {}
Distinct(F) == \A x, y \in DOMAIN F : x # y => F[x] # F[y]

\* The most specific of the layers that say something.
Said(layers, otherwise) ==
  LET saying == {i \in DOMAIN layers : layers[i] # None}
  IN IF saying = {} THEN otherwise ELSE layers[Max(saying)]
LimitsPerKey(app, q) ==
  LET f == CHOOSE g \in OwnersOf(OwnedQueues(app), q) : TRUE
  IN Said(<<app.perKey[Root], app.perKey[f], app.perKey[q]>>
            \o [i \in DOMAIN app.overrides |-> IF app.overrides[i].queue = q THEN app.overrides[i].perKey ELSE None],
          "off")

\* A kind of work is done by a process exactly if a handler for it exists where
\* neither the root nor its feature rules it out.
ServesWhatIsAllowed(app, c) ==
  LET Allowing(kind) == {f \in FeaturesOf(app) : \A level \in {Root, f} : kind \notin app.off[level]}
      On(f, a) == Said(<<app.defaultQueue[Root], app.defaultQueue[f]>> \o app.runsOn[a], None)
      Names(f) == {q \in DOMAIN c.queue : \A level \in {Root, f} : app.only[level] # None => q \in app.only[level]}
  IN /\ Workers(c) = UNION {{On(f, a) : a \in app.activities[f]} \cap Names(f) : f \in Allowing("activities")}
     /\ Dispatches(app, c) <=> \E f \in Allowing("workflows") : app.workflows[f] # {}
     /\ HasScheduler(app, c) <=> \E f \in Allowing("schedules") : app.workflows[f] \cap DOMAIN app.schedule # {}

Acceptable(app) ==
  LET features == FeaturesOf(app)
      Owned == [f \in features |-> app.activities[f] \cup app.declared[f]]
      owned == UNION Range(Owned)
      called == UNION {Clients(app, f) : f \in features}
      handled == UNION Range(app.workflows)
      On(f, a) == Said(<<app.defaultQueue[Root], app.defaultQueue[f]>> \o app.runsOn[a], None)
      Needs(f) == Listed(app.only[f]) \cup {On(f, a) : a \in Owned[f]} \cup ({app.defaultQueue[f]} \ {None})
                    \cup (app.exports[f] \ DOMAIN app.runsOn)
  IN /\ Distinct(app.name)
     /\ Unique(OwnedQueues(app)) /\ Unique(app.workflows) /\ Unique(Owned)
     /\ \A f \in features : app.activities[f] \cap app.declared[f] = {}
     /\ Distinct([a \in owned |-> app.identity[a]]) /\ Distinct([w \in called |-> app.identity[w]])
     /\ Distinct([w \in handled \cap DOMAIN app.schedule |-> app.schedule[w]])
     /\ Distinct([i \in DOMAIN app.overrides |-> app.overrides[i].queue])
     /\ \A o \in ToSet(app.overrides) : OwnersOf(OwnedQueues(app), o.queue) # {}
     /\ \A q \in Listed(app.only[Root]) : OwnersOf(OwnedQueues(app), q) # {}
     /\ \A f \in features : \A q \in Needs(f) : MayUse(app, OwnedQueues(app), f, q)
     /\ \A f \in features : \A a \in Owned[f] \ app.keyed : LimitsPerKey(app, On(f, a)) = "off"
     /\ \A f \in features : \A a \in app.exports[f] \cap DOMAIN app.runsOn : MayUse(app, Owned, f, a)
=============================================================================
