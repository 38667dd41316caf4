------------------------------ MODULE MCFlow ------------------------------
(***************************************************************************)
(* The flow engine with a parent flow (subflow, decision, action, and an    *)
(* asynchronous subflow the interrupt policy routes to) and its child (wait,*)
(* action), and two executions of a user input node.  The two modules share *)
(* no state, so a behaviour drives one of them.                             *)
(***************************************************************************)
EXTENDS FlowEngine, UserInput

CONSTANT First  \* an execution whose PIN source names the PIN pad

VARIABLE part   \* the module this behaviour drives

MCFlows == {"parent", "child"}
MCNodes == {"s", "p", "d", "a", "w"}
MCStart == [f \in MCFlows |-> IF f = "parent" THEN "s" ELSE "w"]
MCKind == [n \in MCNodes |->
  CASE n \in {"s", "p"} -> "subflow" [] n = "d" -> "decision" [] n = "a" -> "action"
    [] OTHER -> "waitEvent"]
MCNextOf == [n \in MCNodes |-> CASE n = "s" -> "d" [] n = "w" -> "a" [] OTHER -> "none"]
MCEdges == [n \in MCNodes |-> IF n = "d" THEN {"a"} ELSE {}]
MCChild == [n \in MCNodes |-> "child"]

vars == <<flowVars, inputVars, part>>

\* One PIN source names its device; in the behaviours that drive them, any other
\* may name it or not.
Init ==
  /\ part \in {"flow", "input"} /\ FlowInit /\ InputInit
  /\ \A e \in Execs : part = "flow" \/ e = First => ex[e].named

Next ==
  /\ UNCHANGED part
  /\ \/ part = "flow" /\ FlowNext /\ UNCHANGED inputVars
     \/ part = "input" /\ InputNext /\ UNCHANGED flowVars

\* No fair action of either module is enabled initially, so the fairness of
\* the module that is not driven asks nothing.
Spec == Init /\ [][Next]_vars /\ FlowFairness /\ InputFairness

\* A cancelled flow settles and an aborted input node ends, whatever they waited
\* for (instance-runtime.ts, user-input.ts).
FlowSettles == CancelTerminates /\ AbortedExecutionEnds
=============================================================================
