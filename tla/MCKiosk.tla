------------------------------ MODULE MCKiosk ------------------------------
(***************************************************************************)
(* The kiosk runtime, service availability and plugin lifecycle.  They      *)
(* share no state, so a behaviour drives one of them.                       *)
(***************************************************************************)
EXTENDS KioskRuntime, ServiceAvailability, PluginLifecycle

VARIABLE part   \* the module this behaviour drives

TheOrder == <<"p1", "p2">>
OneManifest == [p \in {"p1", "p2"} |-> [ids |-> {}, hook |-> NoHook, depsOk |-> TRUE]]

vars == <<kioskVars, availVars, pluginVars, part>>

Init ==
  /\ part \in {"kiosk", "availability", "plugins"}
  /\ KioskInit /\ AvailInit /\ PluginInit
  /\ part # "plugins" => manifest = OneManifest

Next ==
  /\ UNCHANGED part
  /\ \/ part = "kiosk" /\ KioskNext /\ UNCHANGED <<availVars, pluginVars>>
     \/ part = "availability" /\ AvailNext /\ UNCHANGED <<kioskVars, pluginVars>>
     \/ part = "plugins" /\ PluginNext /\ UNCHANGED <<kioskVars, availVars>>

\* No fair action of a module is enabled initially, so the fairness of the
\* modules that are not driven asks nothing.
Spec == Init /\ [][Next]_vars /\ KioskFairness /\ AvailFairness /\ PluginFairness

\* Nothing stays under way: a pending suspension takes effect, an interrupted
\* operation ends and a startup ends (service-availability.ts, coordinator.ts,
\* create-runtime.ts).
KioskSettles == SuspensionTakesEffect /\ InterruptedOperationEnds /\ StartupEnds
=============================================================================
