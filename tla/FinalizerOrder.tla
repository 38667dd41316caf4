--------------------------- MODULE FinalizerOrder ---------------------------
(***************************************************************************)
(* OperationFinalizerRegistry: finalizers are registered in some order,    *)
(* each naming the finalizers it must come after; freeze() turns them into *)
(* the plan that Finalization executes position by position, or throws     *)
(* when the dependencies name a stranger or form a cycle.                  *)
(***************************************************************************)
EXTENDS SequencesExt

CONSTANTS
  Ids,      \* finalizer ids
  Stranger, \* an id that nobody registers
  MaxAfter  \* how many dependencies one finalizer may list

ASSUME IdsAssumption == Stranger \notin Ids /\ MaxAfter \in Nat

VARIABLES
  registered,  \* registered ids, in registration order
  after,       \* the dependencies each id lists, in order
  plan         \* what freeze() returned, "none" before

orderVars == <<registered, after, plan>>

NotFrozen == [order |-> <<>>, status |-> "none"]
AfterLists == UNION {{s \in [1..n -> Ids \cup {Stranger}] : IsInjective(s)} : n \in 0..MaxAfter}

frozen == plan # NotFrozen

(* visit(id): depth first, dependencies in listed order; once an error is  *)
(* thrown the walk is over.                                                *)
RECURSIVE visit(_, _)
visit(st, id) ==
  IF st.status # "ok" \/ id \in ToSet(st.order) THEN st
  ELSE IF id \in st.visiting THEN [st EXCEPT !.status = "cycle"]
  ELSE IF id \notin ToSet(registered) THEN [st EXCEPT !.status = "unknown"]
  ELSE LET below == FoldLeft(visit, [st EXCEPT !.visiting = @ \cup {id}], after[id])
       IN IF below.status # "ok" THEN below
          ELSE [below EXCEPT !.visiting = @ \ {id}, !.order = Append(@, id)]

\* Mutant: registration order is taken as the plan.
topologicalSortUnordered == [order |-> registered, status |-> "ok"]
topologicalSort ==
  LET end == FoldLeft(visit, [order |-> <<>>, visiting |-> {}, status |-> "ok"], registered)
  IN [order |-> IF end.status = "ok" THEN end.order ELSE <<>>, status |-> end.status]

Register(id) ==
  /\ ~frozen /\ id \notin ToSet(registered)
  /\ registered' = Append(registered, id)
  /\ after' \in {[after EXCEPT ![id] = s] : s \in AfterLists}
  /\ UNCHANGED plan

\* Called by each runner of the registry: it freezes and sorts again.
Freeze ==
  /\ plan' = topologicalSort
  /\ UNCHANGED <<registered, after>>

OrderInit == registered = <<>> /\ after = [id \in Ids |-> <<>>] /\ plan = NotFrozen
OrderNext == Freeze \/ \E id \in Ids : Register(id)
-----------------------------------------------------------------------------
dependsOn == {<<a, b>> \in Ids \X (Ids \cup {Stranger}) :
                a \in ToSet(registered) /\ b \in ToSet(after[a])}

(* Reference: a set of finalizers can be ordered exactly when it has no    *)
(* nonempty part in which everyone waits for another of the part, and      *)
(* waits for nobody outside the registry.                                  *)
Orderable ==
  /\ \A d \in dependsOn : d[2] \in ToSet(registered)
  /\ \A S \in SUBSET ToSet(registered) \ {{}} :
       \E a \in S : \A b \in S : <<a, b>> \notin dependsOn

(* A frozen plan has each registered finalizer once, behind everything it  *)
(* must come after; freeze() throws exactly when there is no such order.   *)
PlanIsSound ==
  frozen =>
    /\ (plan.status = "ok") = Orderable
    /\ plan.status = "ok" =>
         /\ IsInjective(plan.order) /\ ToSet(plan.order) = ToSet(registered)
         /\ \A i, j \in DOMAIN plan.order :
              <<plan.order[i], plan.order[j]>> \in dependsOn => j < i

=============================================================================
