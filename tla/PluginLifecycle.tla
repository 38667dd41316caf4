-------------------------- MODULE PluginLifecycle --------------------------
(***************************************************************************)
(* Plugins of a kiosk application: PluginManager and the extension registry *)
(* (plugin-system) driven by createKioskApplicationRuntime (kiosk-runtime): *)
(* install all, register all, activate all, bind the contributions, be      *)
(* ready; on any error, or at the end, dispose in reverse order.  The       *)
(* twenty-two registries are one, keyed by contribution id.                 *)
(***************************************************************************)
EXTENDS Naturals, Sequences

CONSTANTS
  Order,             \* the preset's plugins, in installation order
  Optional,          \* plugins whose manifest is optional
  ContributionIds,               \* contribution ids
  MaxDisposeFaults   \* bound: dispose calls of plugins or contributions that reject

Plugins == {Order[k] : k \in 1..Len(Order)}
Policies == {"reject", "ignore", "replace", "chain"}

\* selectPresetPlugins() refuses a preset that names a plugin twice.
ASSUME PluginAssumption ==
  /\ Order \in Seq(Plugins) /\ Order # <<>>
  /\ \A j, k \in 1..Len(Order) : Order[j] = Order[k] => j = k
  /\ MaxDisposeFaults \in Nat

VARIABLES
  manifest,   \* [Plugins -> [ids, hook, depsOk]]: chosen once
  pstate,     \* [Plugins -> state]
  reg,        \* [ContributionIds -> Seq([owner, prio])]
  app,        \* phase of the application runtime
  at,         \* position in Order of the current phase
  bound,      \* owners of the contributions bound to the application
  busOpen,    \* the event bus, prompt and flow engine are not disposed
  rejects     \* dispose calls that rejected

pluginVars == <<manifest, pstate, reg, app, at, bound, busOpen, rejects>>

PluginStates == {"absent", "installed", "registered", "activated", "deactivated", "disposed"}
AppPhases == {"created", "installing", "registering", "activating", "binding",
              "ready", "failing", "disposing", "failed", "disposed"}

NoHook == [id |-> "none", policy |-> "reject", prio |-> 0]
Hooks == {NoHook} \cup [id : ContributionIds, policy : Policies, prio : {0, 1}]

PluginInit ==
  /\ manifest \in [Plugins -> [ids : SUBSET ContributionIds, hook : Hooks, depsOk : BOOLEAN]]
  /\ pstate = [p \in Plugins |-> "absent"]
  /\ reg = [i \in ContributionIds |-> <<>>]
  /\ app = "created" /\ at = 1 /\ bound = {} /\ busOpen = TRUE /\ rejects = 0

\* Any error of the startup sequence: the catch block disposes from the end.
Fail == app' = "failing" /\ at' = Len(Order)
Advance(phase, next) ==
  IF at = Len(Order) THEN app' = next /\ at' = 1 ELSE app' = phase /\ at' = at + 1

\* core.app.initializing is published; a missing capability or an unknown
\* plugin of the preset fails before anything is installed.
Create ==
  /\ app = "created"
  /\ (app' = "installing" /\ at' = 1) \/ Fail
  /\ UNCHANGED <<manifest, pstate, reg, bound, busOpen, rejects>>

\* install(): recorded before its hook runs, which may reject.
Install ==
  /\ app = "installing"
  /\ pstate' = [pstate EXCEPT ![Order[at]] = "installed"]
  /\ Advance("installing", "registering") \/ Fail
  /\ UNCHANGED <<manifest, reg, bound, busOpen, rejects>>

\* The registrations of s that belong to T, in their order (a filter).
Only(s, T) ==
  LET kept[n \in 0..Len(s)] ==
        IF n = 0 THEN <<>>
        ELSE IF s[n] \in T THEN Append(kept[n - 1], s[n]) ELSE kept[n - 1]
  IN kept[Len(s)]

Registrations == [owner : Plugins, prio : {0, 1}]

\* GenericExtensionRegistry.register(): the duplicate policy, and the stable
\* sort by descending priority.
RegisterInto(s, r, policy) ==
  IF s = <<>> THEN <<r>>
  ELSE CASE policy = "replace" -> <<r>>
         [] policy = "chain" ->
              Only(s, {x \in Registrations : x.prio >= r.prio}) \o <<r>>
                \o Only(s, {x \in Registrations : x.prio < r.prio})
         [] OTHER -> s

\* registerManifestContributions(): in order, until a duplicate is rejected.
ManifestClash(p) == \E i \in manifest[p].ids : reg[i] # <<>>
AfterManifest(p, ids) ==
  [i \in ContributionIds |-> IF i \in ids THEN RegisterInto(reg[i], [owner |-> p, prio |-> 0], "reject")
                 ELSE reg[i]]

\* register(): dependencies, manifest contributions, then the plugin's hook,
\* which may register with any policy; an error leaves what was registered.
RegisterPlugin ==
  /\ app = "registering"
  /\ LET p == Order[at]
         h == manifest[p].hook
         m == AfterManifest(p, manifest[p].ids)
     IN \/ ~manifest[p].depsOk /\ Fail /\ UNCHANGED <<reg, pstate>>
        \/ /\ manifest[p].depsOk /\ ManifestClash(p)
           /\ \E done \in SUBSET {i \in manifest[p].ids : reg[i] = <<>>} :
                reg' = AfterManifest(p, done)
           /\ Fail /\ UNCHANGED pstate
        \/ /\ manifest[p].depsOk /\ ~ManifestClash(p)
           /\ IF h.id \in ContributionIds
              THEN /\ reg' = [m EXCEPT ![h.id] =
                                RegisterInto(@, [owner |-> p, prio |-> h.prio], h.policy)]
                   /\ IF h.policy = "reject" /\ m[h.id] # <<>> THEN Fail /\ UNCHANGED pstate
                      ELSE /\ pstate' = [pstate EXCEPT ![p] = "registered"]
                           /\ Advance("registering", "activating")
              ELSE /\ reg' = m /\ pstate' = [pstate EXCEPT ![p] = "registered"]
                   /\ Advance("registering", "activating")
  /\ UNCHANGED <<manifest, bound, busOpen, rejects>>

\* disposeOwner(): every registration of the owner leaves the registry.
Without(p, keep) ==
  [i \in ContributionIds |->
     IF i \in keep THEN reg[i] ELSE Only(reg[i], {x \in Registrations : x.owner # p})]

Owned(p) == {i \in ContributionIds : \E k \in 1..Len(reg[i]) : reg[i][k].owner = p}

\* activate(): an optional plugin that fails is deactivated and its
\* contributions are disposed; any other failure fails the application.
Activate ==
  /\ app = "activating"
  /\ LET p == Order[at]
     IN \/ /\ pstate' = [pstate EXCEPT ![p] = "activated"] /\ Advance("activating", "binding")
           /\ UNCHANGED <<reg, rejects>>
        \/ /\ p \in Optional /\ pstate' = [pstate EXCEPT ![p] = "deactivated"]
           /\ \/ reg' = Without(p, {}) /\ Advance("activating", "binding") /\ UNCHANGED rejects
              \/ /\ rejects < MaxDisposeFaults /\ rejects' = rejects + 1
                 /\ \E keep \in SUBSET Owned(p) : reg' = Without(p, keep)
                 /\ Fail
        \/ p \notin Optional /\ Fail /\ UNCHANGED <<reg, pstate, rejects>>
  /\ UNCHANGED <<manifest, bound, busOpen>>

\* bindApplicationContributions() and core.app.ready; an invalid contribution
\* fails after others were bound.
Bind ==
  /\ app = "binding"
  /\ bound' = UNION {{reg[i][k].owner : k \in 1..Len(reg[i])} : i \in ContributionIds}
  /\ (app' = "ready" /\ at' = Len(Order)) \/ Fail
  /\ UNCHANGED <<manifest, pstate, reg, busOpen, rejects>>

\* runtime.dispose(), once.
DisposeApp ==
  /\ app = "ready" /\ app' = "disposing" /\ at' = Len(Order)
  /\ UNCHANGED <<manifest, pstate, reg, bound, busOpen, rejects>>

\* Mutant: the first plugin that fails to dispose ends the disposal.
DisposePluginStop ==
  /\ app \in {"failing", "disposing"} /\ at > 0
  /\ IF pstate[Order[at]] = "absent" THEN UNCHANGED <<pstate, reg, rejects>> /\ at' = at - 1
     ELSE /\ pstate' = [pstate EXCEPT ![Order[at]] = "disposed"]
          /\ \/ reg' = Without(Order[at], {}) /\ at' = at - 1 /\ UNCHANGED rejects
             \/ /\ rejects < MaxDisposeFaults /\ rejects' = rejects + 1
                /\ UNCHANGED reg /\ at' = 0
  /\ UNCHANGED <<manifest, app, bound, busOpen>>

\* disposePlugin(), in reverse order: deactivate, the plugin's dispose and its
\* contributions; each error is collected and the next plugin still disposed.
DisposePlugin ==
  /\ app \in {"failing", "disposing"} /\ at > 0
  /\ IF pstate[Order[at]] = "absent" THEN UNCHANGED <<pstate, reg, rejects>>
     ELSE /\ pstate' = [pstate EXCEPT ![Order[at]] = "disposed"]
          /\ \/ reg' = Without(Order[at], {}) /\ UNCHANGED rejects
             \/ /\ rejects < MaxDisposeFaults /\ rejects' = rejects + 1
                /\ \E keep \in SUBSET Owned(Order[at]) : reg' = Without(Order[at], keep)
  /\ at' = at - 1
  /\ UNCHANGED <<manifest, app, bound, busOpen>>

\* The prompt presenter, the flow engine and the event bus are disposed last.
CloseRuntime ==
  /\ app \in {"failing", "disposing"} /\ at = 0
  /\ busOpen' = FALSE /\ app' = IF app = "failing" THEN "failed" ELSE "disposed"
  /\ UNCHANGED <<manifest, pstate, reg, at, bound, rejects>>

PluginStep ==
  \/ Install \/ RegisterPlugin \/ Activate \/ Bind \/ DisposePlugin \/ CloseRuntime
PluginNext == Create \/ PluginStep \/ DisposeApp

PluginSpec == PluginInit /\ [][PluginNext]_pluginVars

\* Plugin hooks return.
PluginFairness == WF_pluginVars(PluginStep)

-----------------------------------------------------------------------------
(* Properties *)

\* Plugins, phases and registrations have their types.
PluginTypeOK ==
  /\ \A p \in Plugins : pstate[p] \in PluginStates
  /\ app \in AppPhases /\ at \in 0..Len(Order)
  /\ \A i \in ContributionIds : \A k \in 1..Len(reg[i]) : reg[i][k].owner \in Plugins

\* register: get() answers with a registration of the highest priority.
HighestPriorityFirst ==
  \A i \in ContributionIds : \A k \in 1..Len(reg[i]) : reg[i][1].prio >= reg[i][k].prio

\* bindApplicationContributions: a ready application uses contributions of
\* activated plugins only; a failed optional plugin left none behind.
BoundAreActivated == app = "ready" => \A p \in bound : pstate[p] = "activated"

\* PluginManager.dispose: plugins are disposed in reverse order of installation,
\* so a plugin outlives those that were installed after it.
ReverseDisposal ==
  \A j, k \in 1..Len(Order) :
    (j < k /\ pstate[Order[j]] = "disposed") => pstate[Order[k]] \in {"absent", "disposed"}

\* createKioskApplicationRuntime, dispose: whatever failed, the end leaves no
\* plugin undisposed and, unless a dispose rejected, no contribution.
EndIsClean ==
  app \in {"failed", "disposed"} =>
    /\ ~busOpen
    /\ \A p \in Plugins : pstate[p] \in {"absent", "disposed"}
    /\ rejects = 0 => \A i \in ContributionIds : reg[i] = <<>>

\* The startup of an application ends: ready or failed.
StartupEnds ==
  <>[](app \in {"created", "ready", "failed", "disposed"})

\* PluginManager: contributions of failed plugins are not used, and whatever fails
\* the plugins are taken down in reverse order to the last one.
PluginsEndClean ==
  /\ PluginTypeOK /\ HighestPriorityFirst /\ BoundAreActivated
  /\ ReverseDisposal /\ EndIsClean
=============================================================================
