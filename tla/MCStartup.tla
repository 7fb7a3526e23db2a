----------------------------- MODULE MCStartup ------------------------------
EXTENDS Startup, TLC

CONSTANTS p1, p2, f1, f2, f3, module, q, other, act, act2, act3, wf, wf2, wf3, nightly

MCOrders(app) == {s \in [1..Cardinality(FeaturesOf(app)) -> FeaturesOf(app)] : IsInjective(s)}

\* f1 owns the queue, an activity on it and a workflow; f3 uses the queue; f2
\* and a plain module stand between them.
Standard ==
  [imports |-> f1 :> {} @@ f2 :> {f1} @@ f3 :> {module} @@ module :> {f2},
   forwards |-> f1 :> {} @@ f2 :> {} @@ f3 :> {} @@ module :> {f2},
   exports |-> f1 :> {q, act} @@ f2 :> {q} @@ f3 :> {},
   name |-> f1 :> "f1" @@ f2 :> "f2" @@ f3 :> "f3",
   queues |-> f1 :> {q} @@ f2 :> {} @@ f3 :> {},
   off |-> Root :> {} @@ f1 :> {} @@ f2 :> {} @@ f3 :> {},
   only |-> Root :> None @@ f1 :> None @@ f2 :> None @@ f3 :> {q},
   workflows |-> f1 :> {wf} @@ f2 :> {} @@ f3 :> {wf2},
   clients |-> f1 :> {} @@ f2 :> {wf3} @@ f3 :> {wf2},
   activities |-> f1 :> {act} @@ f2 :> {act2} @@ f3 :> {},
   declared |-> f1 :> {} @@ f2 :> {} @@ f3 :> {act3},
   rootQueues |-> {other}, overrides |-> <<[queue |-> q, perKey |-> "off"]>>,
   perKey |-> Root :> None @@ f1 :> None @@ f2 :> "on" @@ f3 :> None @@ q :> None @@ other :> "on",
   defaultQueue |-> Root :> other @@ f1 :> q @@ f2 :> None @@ f3 :> None,
   runsOn |-> act :> <<None, None>> @@ act2 :> <<q, other>> @@ act3 :> <<None, None>>,
   keyed |-> {act2, act3},
   identity |-> act :> "act" @@ act2 :> "act2" @@ act3 :> "act3" @@ wf :> "wf" @@ wf2 :> "wf2" @@ wf3 :> "wf3",
   schedule |-> wf :> nightly]

\* Every graph of imports and exports of the queue among them, cycles included.
Graphs ==
  {[Standard EXCEPT !.imports[f1] = i1, !.imports[f2] = i2, !.imports[f3] = i3,
                    !.exports[f1] = {act} \cup e1, !.exports[f2] = e2, !.forwards[module] = fw] :
     i1 \in {{}, {f3}}, i2 \in SUBSET {f1, f3, module}, i3 \in SUBSET {f1, f2, module},
     e1 \in {{}, {q}}, e2 \in {{}, {q}, {q, act}}, fw \in {{}, {f2}}}
\* And one defect of each other kind.
Defects ==
  { [Standard EXCEPT !.name[f2] = "f1"], [Standard EXCEPT !.queues[f2] = {q}],
    [Standard EXCEPT !.rootQueues = {q, other}], [Standard EXCEPT !.overrides = @ \o @],
    [Standard EXCEPT !.overrides[1].queue = wf], [Standard EXCEPT !.rootQueues = {}],
    [Standard EXCEPT !.workflows[f2] = {wf}],
    [Standard EXCEPT !.schedule = wf :> nightly @@ wf2 :> nightly],
    [Standard EXCEPT !.activities[f2] = {act, act2}], [Standard EXCEPT !.identity[act2] = "act"],
    [Standard EXCEPT !.exports[f3] = {act2}], [Standard EXCEPT !.declared[f3] = {act2}],
    [Standard EXCEPT !.declared[f2] = {act2}], [Standard EXCEPT !.identity[act3] = "act"],
    [Standard EXCEPT !.identity[wf3] = "wf"], [Standard EXCEPT !.defaultQueue[Root] = None],
    [Standard EXCEPT !.defaultQueue[f3] = nightly], [Standard EXCEPT !.only[Root] = {nightly}] }
\* What the layers of settings may say of the limits of the queue: its activity
\* has no key.
Settings ==
  {[Standard EXCEPT !.perKey[Root] = r, !.perKey[f1] = f, !.perKey[q] = o, !.overrides[1].perKey = v] :
     r, f, o, v \in {None, "off", "on"}}
\* The kinds of work and the queues a deployment may be restricted to.
Kinds == {"workflows", "activities", "schedules"}
Roles ==
  {[Standard EXCEPT !.off[Root] = r, !.off[f1] = f, !.only[Root] = o, !.only[f2] = u] :
     r \in {{}, Kinds} \cup {{k} : k \in Kinds}, f \in {{}} \cup {{k} : k \in Kinds},
     o \in {None, {}, {q}}, u \in {None, {}}}

\* The first feature by itself.
Alone ==
  [Standard EXCEPT !.imports = f1 :> {}, !.exports = f1 :> {q, act}, !.name = f1 :> "f1", !.queues = f1 :> {q},
                   !.workflows = f1 :> {wf}]

Healthy == {Released(v) : v \in Upgradable}
\* Databases the migrator refuses, those it does not know among them.
Damaged ==
  {Released(v) : v \in (0..JournalVersion) \ Upgradable}
  \cup {Without(Released(v), e) : v \in {8, JournalVersion},
     e \in {"schema", "claims", "schedule_inputs", "waits.wake_requested", "runs.chain_id", "queue"}}
  \cup {[Released(9) EXCEPT !.ledger["journal"] = @ \ {4}]}
\* Three starts race on a healthy database, two on a damaged one, whatever they
\* run; the catalog of one start does not depend on others.
MCSituations ==
  {[db |-> d, app |-> Alone, starts |-> 3] : d \in Healthy}
  \cup {[db |-> d, app |-> Alone, starts |-> 2] : d \in Damaged}
  \cup {[db |-> Released(JournalVersion), app |-> a, starts |-> 1] : a \in Graphs \cup Defects \cup Settings \cup Roles}
MCProcesses == Permutations({p1, p2})
=============================================================================
