---------------------------- MODULE Configuration ----------------------------
(***************************************************************************)
(* ConfigurationManager over providers in precedence order: a read-only    *)
(* one (command line, environment, JSON file), one in memory and one of    *)
(* SQLite rows.  set() and remove() write a provider, await it, and then   *)
(* edit the merged view; reload() reads all providers and replaces the     *)
(* view.  They overlap freely.  The tree is one top-level key "a" that is  *)
(* a scalar or an object with one leaf "a.b".                              *)
(***************************************************************************)
EXTENDS Naturals

CONSTANTS
  Values,         \* scalars, numbers from 1
  FixedValues,    \* scalars of the read-only provider
  MaxConfigCalls  \* bound: calls of set, remove and reload

ASSUME ConfigAssumption ==
  /\ Values \subseteq Nat \ {0} /\ 1 \in Values /\ FixedValues \subseteq Values
  /\ MaxConfigCalls \in Nat

Paths == {"a", "a.b"}
Providers == {"fixed", "memory", "sqlite"}
ConfigCalls == 1..MaxConfigCalls

\* A tree; an object without its leaf has v = 0.
Missing == [kind |-> "missing", v |-> 0]
Scalar(v) == [kind |-> "scalar", v |-> v]
Object(v) == [kind |-> "object", v |-> v]
Trees == {Missing, Object(0)} \cup {Scalar(v) : v \in Values} \cup {Object(v) : v \in Values}

VARIABLES
  fixed,     \* what the read-only provider loads
  memory,    \* values of the in-memory provider
  rows,      \* rows of the SQLite provider: 0 for none
  view,      \* current, the merged configuration
  config,    \* the calls
  told,      \* for a watcher of each path, the value it last heard of
  untold,    \* history: watched paths changed without a call of the watcher
  everHeld,  \* history: every path and value a provider has held
  diverged   \* history: why view may differ from the providers

configVars == <<fixed, memory, rows, view, config, told, untold, everHeld, diverged>>

getAtPath(tree, p) ==
  IF p = "a" THEN tree ELSE IF tree.kind = "object" THEN Scalar(tree.v) ELSE Scalar(0)
setAtPath(tree, p, v) == IF p = "a" THEN Scalar(v) ELSE Object(v)
\* Only the leaf: the parent path of a top-level key is refused as empty.
removeAtPath(tree, p) == IF p = "a.b" /\ tree.kind = "object" THEN Object(0) ELSE tree

deepMerge(base, override) ==
  IF override = Missing THEN base
  ELSE IF base.kind = "object" /\ override.kind = "object"
       THEN Object(IF override.v = 0 THEN base.v ELSE override.v)
       ELSE override

\* The rows are applied in the order the store returns them.
LoadedRows ==
  {tree \in Trees :
     \/ tree = Missing /\ rows = [p \in Paths |-> 0]
     \/ tree = Scalar(rows["a"]) /\ rows["a"] # 0
     \/ tree = Object(rows["a.b"]) /\ rows["a.b"] # 0}
Loadable == [fixed |-> {fixed}, memory |-> {memory}, sqlite |-> LoadedRows]

\* Mutant: the last provider wins.
loadMergedProvidersReversed(loaded) ==
  deepMerge(deepMerge(loaded.fixed, loaded.memory), loaded.sqlite)
\* reduceRight: the first provider wins.
loadMergedProviders(loaded) ==
  deepMerge(deepMerge(loaded.sqlite, loaded.memory), loaded.fixed)

leaves(tree) == IF tree.kind = "scalar" THEN {<<"a", tree.v>>}
                ELSE IF tree.kind = "object" /\ tree.v # 0 THEN {<<"a.b", tree.v>>} ELSE {}

NoLoads == [p \in Providers |-> Missing]
Idle == [op |-> "none", step |-> "idle", path |-> "a", value |-> 0, provider |-> "memory",
         loaded |-> NoLoads, unread |-> {}, overlapped |-> FALSE]

\* The call settles; its locals go.
Settles(c, step) == config' = [config EXCEPT ![c] = [Idle EXCEPT !.step = step]]
inOrder(c) == config[c].step = "idle" /\ \A d \in 1..(c - 1) : config[d].step # "idle"

\* set() is validating, remove() is about to write.
StartWrite(c, op, p, v, q) ==
  /\ inOrder(c)
  /\ config' = [config EXCEPT ![c] = [Idle EXCEPT !.op = op, !.step = "checked", !.path = p,
                                                  !.value = v, !.provider = q]]
  /\ UNCHANGED <<fixed, memory, rows, view, told, untold, everHeld, diverged>>

\* validateValue, requireWritableProvider or the provider's write throws; the
\* in-memory provider refuses to remove a top-level key.
WriteRefused(c) ==
  /\ config[c].step = "checked" /\ Settles(c, "rejected")
  /\ UNCHANGED <<fixed, memory, rows, view, told, untold, everHeld, diverged>>

\* The provider applies the write; other calls under way overlap with it.
ProviderWrites(c) ==
  LET w == config[c] IN
  /\ w.step = "checked" /\ w.provider # "fixed"
  /\ ~(w.op = "remove" /\ w.path = "a" /\ w.provider = "memory")
  /\ memory' = IF w.provider # "memory" THEN memory
               ELSE IF w.op = "set" THEN setAtPath(memory, w.path, w.value)
               ELSE removeAtPath(memory, w.path)
  /\ rows' = IF w.provider # "sqlite" THEN rows
             ELSE [rows EXCEPT ![w.path] = IF w.op = "set" THEN w.value ELSE 0]
  /\ everHeld' = everHeld \cup (IF w.op = "set" THEN {<<w.path, w.value>>} ELSE {})
  /\ config' = [d \in ConfigCalls |->
       IF d = c THEN [w EXCEPT !.step = "saving"]
       ELSE IF config[d].step \in {"saving", "loading"} THEN [config[d] EXCEPT !.overlapped = TRUE]
       ELSE config[d]]
  /\ UNCHANGED <<fixed, view, told, untold, diverged>>

\* save() fails: the provider keeps what the view never shows.
SaveFails(c) ==
  /\ config[c].step = "saving" /\ Settles(c, "rejected")
  /\ diverged' = diverged \cup {"unsaved"}
  /\ UNCHANGED <<fixed, memory, rows, view, told, untold, everHeld>>

\* emitChange: watchers of the key and of its ancestors.
hears(watched, changed) == watched = changed \/ (watched = "a" /\ changed = "a.b")

\* The view is edited, then the watchers are called in the order they came in.  One
\* that throws rejects the call, and those behind it are not reached.
ApplyWrite(c) ==
  LET w == config[c]
      watchers == {p \in Paths : hears(p, w.path)}
  IN
  /\ w.step = "saving" /\ ~(w.op = "remove" /\ w.path = "a")
  /\ view' = IF w.op = "set" THEN setAtPath(view, w.path, w.value) ELSE removeAtPath(view, w.path)
  /\ \E reached \in SUBSET watchers :
       /\ \/ reached = watchers /\ Settles(c, "resolved")
          \/ reached # {} /\ Settles(c, "rejected")
       /\ told' = [p \in Paths |-> IF p \in reached THEN getAtPath(view', p) ELSE told[p]]
       /\ untold' = Paths \ reached
  /\ diverged' = diverged
       \cup (IF w.overlapped THEN {"overlapped"} ELSE {})
       \cup (IF \E q \in Providers \ {w.provider} : Loadable[q] # {Missing} THEN {"layered"} ELSE {})
       \cup (IF w.provider = "sqlite" /\ \E p \in Paths \ {w.path} : rows[p] # 0
               THEN {"nestedRows"} ELSE {})
  /\ UNCHANGED <<fixed, memory, rows, everHeld>>

\* The row of a top-level key is gone, the view refuses to forget it.
TopLevelRemoveThrows(c) ==
  /\ config[c].step = "saving" /\ config[c].op = "remove" /\ config[c].path = "a"
  /\ Settles(c, "rejected") /\ diverged' = diverged \cup {"halfRemoved"}
  /\ UNCHANGED <<fixed, memory, rows, view, told, untold, everHeld>>

StartReload(c) ==
  /\ inOrder(c)
  /\ config' = [config EXCEPT ![c] = [Idle EXCEPT !.op = "reload", !.step = "loading",
                                                  !.unread = Providers]]
  /\ UNCHANGED <<fixed, memory, rows, view, told, untold, everHeld, diverged>>

LoadProvider(c, q) ==
  /\ config[c].step = "loading" /\ q \in config[c].unread
  /\ \E tree \in Loadable[q] :
       config' = [config EXCEPT ![c].unread = @ \ {q}, ![c].loaded[q] = tree]
  /\ UNCHANGED <<fixed, memory, rows, view, told, untold, everHeld, diverged>>

\* A provider or validateConfiguration refuses: the old view stays.
ReloadFails(c) ==
  /\ config[c].step = "loading" /\ Settles(c, "rejected")
  /\ UNCHANGED <<fixed, memory, rows, view, told, untold, everHeld, diverged>>

\* The view is replaced; no watcher is called.
ReplaceView(c) ==
  /\ config[c].step = "loading" /\ config[c].unread = {}
  /\ Settles(c, "resolved")
  /\ view' = loadMergedProviders(config[c].loaded)
  /\ untold' = Paths
  /\ diverged' = IF config[c].overlapped THEN diverged \cup {"overlapped"} ELSE {}
  /\ UNCHANGED <<fixed, memory, rows, told, everHeld>>

\* A new manager, or one that has been loaded once.
ConfigInit ==
  /\ fixed \in {tree \in Trees : tree.v \in FixedValues \cup {0}}
  /\ memory \in {Missing, Object(1)} /\ rows \in [Paths -> {0, 1}]
  /\ config = [c \in ConfigCalls |-> Idle]
  /\ told = [p \in Paths |-> getAtPath(Missing, p)]
  /\ everHeld = leaves(fixed) \cup leaves(memory) \cup {<<p, rows[p]>> : p \in Paths}
  /\ \/ view = Missing /\ untold = {} /\ diverged = {"unloaded"}
     \/ /\ \E tree \in LoadedRows :
             view = loadMergedProviders([fixed |-> fixed, memory |-> memory, sqlite |-> tree])
        /\ untold = Paths /\ diverged = {}

ConfigNext ==
  \E c \in ConfigCalls :
    \/ \E p \in Paths, v \in Values, q \in Providers : StartWrite(c, "set", p, v, q)
    \/ \E p \in Paths, q \in Providers : StartWrite(c, "remove", p, 0, q)
    \/ WriteRefused(c) \/ ProviderWrites(c) \/ SaveFails(c) \/ ApplyWrite(c)
    \/ TopLevelRemoveThrows(c)
    \/ StartReload(c) \/ ReloadFails(c) \/ ReplaceView(c)
    \/ \E q \in Providers : LoadProvider(c, q)

ConfigSpec == ConfigInit /\ [][ConfigNext]_configVars
-----------------------------------------------------------------------------
\* Every part of the configuration has its type.
ConfigTypeOK ==
  /\ fixed \in Trees /\ memory \in Trees /\ view \in Trees
  /\ rows \in [Paths -> Values \cup {0}] /\ untold \subseteq Paths
  /\ \A c \in ConfigCalls :
       config[c].step \in {"idle", "checked", "saving", "loading", "resolved", "rejected"}

quiet == \A c \in ConfigCalls : config[c].step \in {"idle", "resolved", "rejected"}

(* Reference: the first provider in precedence order that says anything    *)
(* about a path decides, and a scalar hides the objects behind it.         *)
firstOf(trees, says(_)) ==
  IF says(trees.fixed) THEN trees.fixed ELSE IF says(trees.memory) THEN trees.memory
  ELSE trees.sqlite
Precedence(trees) ==
  LET top == firstOf(trees, LAMBDA t : t # Missing)
      leaf == firstOf(trees, LAMBDA t : t.kind = "scalar" \/ t.v # 0)
  IN IF top.kind = "object" THEN (IF leaf.kind = "object" THEN leaf ELSE top) ELSE top

(* With no call under way the view is what the providers say in order of   *)
(* precedence, but for the known ways to part: a write overlapped by a     *)
(* reload or another write, a write to one provider while another one has  *)
(* the key, a write to SQLite rows of which one lies below the other, a    *)
(* failed save, a top-level key removed from SQLite.  An undisturbed       *)
(* reload ends them all.  An object without its leaf counts as absent.     *)
ViewAgreesWithProviders ==
  quiet /\ diverged = {} =>
    \E tree \in LoadedRows :
      leaves(view) = leaves(Precedence([fixed |-> fixed, memory |-> memory, sqlite |-> tree]))

(* No value is served that no provider has ever held: of a set() that is   *)
(* refused before its provider takes the value nothing is ever seen.  (One *)
(* that fails in save() may show with the next reload, and one whose       *)
(* watcher throws rejects although the view has its value.)                *)
NoPhantomValue == leaves(view) \subseteq everHeld

(* A watcher of a key has been called with the value get() returns, for    *)
(* every write to the key or below it; only a reload, a write to an        *)
(* ancestor, or a watcher before it that throws, changes a watched value   *)
(* silently.                                                               *)
WatchersAreTold == \A p \in Paths \ untold : told[p] = getAtPath(view, p)

(* ConfigurationService: what get() returns is what the providers hold,    *)
(* also after calls that failed, and watchers hear of what they watch but  *)
(* for the exceptions named above.                                         *)
ConfigurationIsHonest ==
  ConfigTypeOK /\ ViewAgreesWithProviders /\ NoPhantomValue /\ WatchersAreTold
=============================================================================
