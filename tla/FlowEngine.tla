---------------------------- MODULE FlowEngine ----------------------------
(***************************************************************************)
(* The executable flow engine of packages/flow-engine: the engine's table   *)
(* of active and completed instances (engine.ts), the life of one instance  *)
(* from start to the resolution of its completion promise                   *)
(* (instance-runtime.ts), the race of a node against its timeout and the    *)
(* flow interrupt (node-runtime.ts) and the built-in executors, subflows    *)
(* included (builtin-nodes.ts).  One step is the code between two awaits;   *)
(* pause, resume, cancel, timers and aborts fall in between.  Hooks,        *)
(* projections, schemas and finally handlers are application code that may  *)
(* reject; MaxThrows bounds how often.                                      *)
(***************************************************************************)
EXTENDS Naturals, Sequences, FiniteSets

CONSTANTS
  Flows,         \* flow definitions
  Nodes,         \* node ids of all definitions
  NoNode,        \* `undefined` where a node id is expected
  StartNode,     \* [Flows -> Nodes]
  Kind,          \* [Nodes -> node kinds]
  NextOf,        \* [Nodes -> Nodes \cup {NoNode}], node.next
  Edges,         \* [Nodes -> SUBSET Nodes], targets of the branch edges
  ChildFlow,     \* [Nodes -> Flows], the flow a subflow node starts
  AsyncNodes,    \* subflow nodes of mode "async"
  InterruptNode, \* policy.action.nodeId of the interrupt policies
  TopFlows,      \* flows an application starts itself
  MaxInstances,  \* bound: instances started
  MaxVisits,     \* bound: node executions of one instance
  MaxThrows,     \* bound: rejections of application handlers
  MaxAttempts,   \* definition.retry.maxAttempts
  Retention      \* completedInstanceRetention.maxCount

ASSUME FlowAssumption ==
  /\ NoNode \notin Nodes
  /\ StartNode \in [Flows -> Nodes]
  /\ NextOf \in [Nodes -> Nodes \cup {NoNode}]
  /\ Edges \in [Nodes -> SUBSET Nodes]
  /\ ChildFlow \in [Nodes -> Flows] /\ TopFlows \subseteq Flows
  /\ InterruptNode \in Nodes \cup {NoNode}
  /\ MaxInstances \in Nat /\ MaxVisits \in Nat /\ MaxThrows \in Nat
  /\ MaxAttempts \in Nat /\ Retention \in Nat

VARIABLES
  inst,       \* [1..MaxInstances -> instance records]
  started,    \* ids handed out so far (engine.sequence - 1)
  active,     \* engine.active
  completed,  \* engine.completed, oldest first
  waitedBy,   \* instances dispose() awaits, {} when no dispose is running
  orphans,    \* history: ids dropped from active before they settled
  throws      \* rejections of application handlers so far

flowVars == <<inst, started, active, completed, waitedBy, orphans, throws>>

Ids == 1..MaxInstances
Live == {"running", "paused"}
Terminal == {"completed", "failed", "cancelled"}
FlowPcs == {"absent", "starting", "loop", "node", "backoff", "suspended",
        "resumed", "validating", "completing", "failing", "finally",
        "finallyFailing", "closing", "settled", "lost"}

Absent ==
  [pc |-> "absent", flow |-> "none", parent |-> 0, status |-> "running",
   node |-> NoNode, cancel |-> FALSE,
   pauseReq |-> FALSE, gate |-> "none", why |-> "none", intr |-> FALSE,
   tries |-> [n \in Nodes |-> 1], visits |-> 0, child |-> 0, stop |-> FALSE,
   hooks |-> {}, took |-> "none"]

\* Mutant: the constructor does not look at an already aborted signal.
NewInstanceBlind(f, parent, aborted, stop) ==
  [Absent EXCEPT !.pc = "starting", !.flow = f, !.parent = parent,
                 !.node = StartNode[f], !.stop = stop]

NewInstance(f, parent, aborted, stop) ==
  [Absent EXCEPT !.pc = "starting", !.flow = f, !.parent = parent,
                 !.node = StartNode[f], !.cancel = aborted, !.stop = stop]

\* Subflow nodes that were entered and have not started their child.
Starting == {i \in Ids : /\ inst[i].pc = "node"
                         /\ Kind[inst[i].node] = "subflow"
                         /\ inst[i].child = 0}

\* Ids handed out or about to be.
Reserved == started + Cardinality(Starting)

FlowInit ==
  /\ inst = [i \in Ids |-> Absent]
  /\ started = 0
  /\ active = {}
  /\ completed = <<>>
  /\ waitedBy = {}
  /\ orphans = {}
  /\ throws = 0

-----------------------------------------------------------------------------
(* Completion, cancellation and transitions as functions of one record *)

\* complete(): the status and the hooks of that status; `at` is the await the
\* hooks and the final publish run under.
Complete(r, s, at) ==
  [r EXCEPT !.status = s, !.hooks = @ \cup {s}, !.pc = at]

\* Children whose start signal is linked to the controller of instance i.
Under(f, i) == {c \in Ids : f[c].pc # "absent" /\ f[c].parent = i}

\* The instances an abort reaches when it is dispatched to S: a live one aborts
\* its controller, and with it the signals its own children were started with.
Reached(f, S) ==
  {c \in Ids : \A R \in SUBSET Ids :
     (S \subseteq R /\ \A p \in R : f[p].status \in Live => Under(f, p) \subseteq R)
       => c \in R}

\* requestCancellation of one instance: ignored once it is terminal, else the
\* reason is kept, the controller aborted and a waiting resume gate resolved.
RequestCancellation(r) ==
  IF r.pc # "absent" /\ r.status \in Live
  THEN [r EXCEPT !.cancel = TRUE,
                 !.gate = IF @ = "closed" THEN "open" ELSE @]
  ELSE r

\* An abort dispatches synchronously to every instance it reaches.
AbortFlows(f, S) ==
  [c \in Ids |-> IF c \in Reached(f, S) THEN RequestCancellation(f[c]) ELSE f[c]]

\* The abort of the signal of i's node, which the child of the node was started with.
AbortNode(f, i) == AbortFlows(f, {f[i].child} \ {0})

\* suspend(): status and gate change before the first await.
Suspend(r, why) ==
  [r EXCEPT !.status = "paused", !.gate = "closed", !.why = why,
            !.pc = "suspended"]

\* retry(): attempts are counted per node over the whole life of the instance.
Retry(r) ==
  IF r.tries[r.node] + 1 > MaxAttempts
  THEN Complete([r EXCEPT !.tries[r.node] = @ + 1], "failed", "completing")
  ELSE [r EXCEPT !.tries[r.node] = @ + 1, !.pc = "backoff"]

\* transition(): applied in the same step in which the node's result is known.
\* A branch without an edge throws to run()'s catch, and so does a definition.catch
\* that rejects ("throw").
Transition(r, type, target) ==
  CASE type \in {"next", "branch"} ->
         IF type = "branch" /\ target \notin Edges[r.node]
         THEN Complete(r, "failed", "failing")
         ELSE [r EXCEPT !.node = target, !.pc = "loop"]
    [] type = "stay" -> IF r.stop THEN [r EXCEPT !.pc = "finally"]
                        ELSE [r EXCEPT !.pc = "loop"]
    [] type = "retry" -> Retry(r)
    [] type \in {"wait", "pause"} -> Suspend(r, type)
    [] type = "end" -> [r EXCEPT !.pc = "validating"]
    [] type = "cancel" -> Complete(r, "cancelled", "completing")
    [] type = "fail" -> Complete(r, "failed", "completing")
    [] type = "throw" -> Complete(r, "failed", "failing")

\* What a node kind may return.  An action returns any result (effects are
\* resolved to one before the transition); nextOrEnd without node.next ends.
Results(n) ==
  CASE Kind[n] = "action" ->
         {<<t, n>> : t \in {"stay", "retry", "wait", "pause", "cancel",
                            "fail", "end"}}
         \cup (IF NextOf[n] = NoNode THEN {} ELSE {<<"next", NextOf[n]>>})
    [] Kind[n] = "decision" -> {<<"branch", t>> : t \in Edges[n] \cup {NoNode}}
    [] Kind[n] = "waitEvent" -> {<<"wait", n>>}
    [] Kind[n] = "terminal" -> {<<"end", n>>}
    [] OTHER -> {}

NextOrEnd(n) ==
  IF NextOf[n] = NoNode THEN <<"end", n>> ELSE <<"next", NextOf[n]>>

\* The parent's view of a finished synchronous child: only `failed` and
\* `cancelled` are preserved, every other status is a success.
SubflowResult(c, n) ==
  CASE c.status = "failed" -> <<"fail", n>>
    [] c.status = "cancelled" -> <<"cancel", n>>
    [] OTHER -> NextOrEnd(n)

-----------------------------------------------------------------------------
(* The engine *)

\* start() by the application.  (A child is started by SubflowStart.)
Start(f, stop) ==
  /\ Reserved < MaxInstances
  /\ f \in TopFlows
  /\ started' = started + 1
  /\ inst' = [inst EXCEPT ![started + 1] = NewInstance(f, 0, FALSE, stop)]
  /\ active' = active \cup {started + 1}
  /\ UNCHANGED <<completed, waitedBy, orphans, throws>>

\* pause(): only noted, and only while the instance runs.
Pause(i) ==
  /\ i \in active /\ inst[i].status = "running" /\ ~inst[i].pauseReq
  /\ inst' = [inst EXCEPT ![i].pauseReq = TRUE]
  /\ UNCHANGED <<started, active, completed, waitedBy, orphans, throws>>

\* resume(): rejected without a gate; resolving a gate twice changes nothing.
Resume(i) ==
  /\ i \in active /\ inst[i].gate = "closed"
  /\ inst' = [inst EXCEPT ![i].gate = "open"]
  /\ UNCHANGED <<started, active, completed, waitedBy, orphans, throws>>

\* cancel(), the flow timer and the abort of the caller's signal all end in
\* requestCancellation.
Cancel(i) ==
  /\ i \in active /\ inst[i].status \in Live /\ ~inst[i].cancel
  /\ inst' = AbortFlows(inst, {i})
  /\ UNCHANGED <<started, active, completed, waitedBy, orphans, throws>>

\* dispose() cancels what is active now and waits for those completions.
Dispose ==
  /\ waitedBy = {} /\ active # {}
  /\ waitedBy' = active
  /\ inst' = AbortFlows(inst, active)
  /\ UNCHANGED <<started, active, completed, orphans, throws>>

\* Then both tables are cleared, whatever was started in the meantime.
DisposeDone ==
  /\ waitedBy # {} /\ \A i \in waitedBy : inst[i].pc = "settled"
  /\ waitedBy' = {}
  /\ orphans' = orphans \cup active
  /\ active' = {}
  /\ completed' = <<>>
  /\ UNCHANGED <<inst, started, throws>>

\* trimCompletedInstances()
TrimCompleted(s) == IF Len(s) > Retention THEN Tail(s) ELSE s

-----------------------------------------------------------------------------
(* One instance *)

Idle == UNCHANGED <<started, active, completed, waitedBy, orphans, throws>>

\* beforeFlowStart and afterFlowStart hooks and the first publish went well.
Booted(i) ==
  /\ inst[i].pc = "starting"
  /\ inst' = [inst EXCEPT ![i].pc = "loop"]
  /\ Idle

\* Mutant: the loop looks at a pause request before a cancellation.
LoopPauseFirst(i) ==
  /\ inst[i].pc = "loop"
  /\ LET r == inst[i] IN
     inst' = [inst EXCEPT ![i] =
       CASE r.status # "running" -> [r EXCEPT !.pc = "finally"]
         [] r.status = "running" /\ r.pauseReq -> Suspend(r, "api")
         [] r.status = "running" /\ ~r.pauseReq /\ r.cancel -> Complete(r, "cancelled", "completing")
         [] r.status = "running" /\ ~r.cancel /\ ~r.pauseReq /\ r.node = NoNode ->
              Complete(r, "failed", "failing")
         [] OTHER -> [r EXCEPT !.pc = "node", !.visits = @ + 1, !.child = 0]]
  /\ inst'[i].pc = "node" =>
       /\ inst[i].visits < MaxVisits
       /\ Kind[inst[i].node] = "subflow" => Reserved < MaxInstances
  /\ Idle

\* The head of runNodes(): leave, cancel, pause or enter the current node.
Loop(i) ==
  /\ inst[i].pc = "loop"
  /\ LET r == inst[i] IN
     inst' = [inst EXCEPT ![i] =
       CASE r.status # "running" -> [r EXCEPT !.pc = "finally"]
         [] r.status = "running" /\ r.cancel -> Complete(r, "cancelled", "completing")
         [] r.status = "running" /\ ~r.cancel /\ r.pauseReq -> Suspend(r, "api")
         [] r.status = "running" /\ ~r.cancel /\ ~r.pauseReq /\ r.node = NoNode ->
              Complete(r, "failed", "failing")
         [] OTHER -> [r EXCEPT !.pc = "node", !.visits = @ + 1, !.child = 0]]
  /\ inst'[i].pc = "node" =>
       /\ inst[i].visits < MaxVisits
       /\ Kind[inst[i].node] = "subflow" => Reserved < MaxInstances
  /\ Idle

\* The executor resolves; a cancellation requested meanwhile replaces its result.
NodeResult(i) ==
  /\ inst[i].pc = "node"
  /\ \E res \in Results(inst[i].node) :
       inst' = [inst EXCEPT ![i] =
                  IF @.cancel THEN Transition(@, "cancel", @.node)
                  ELSE Transition(@, res[1], res[2])]
  /\ Idle

\* A synchronous subflow node awaits the completion of its child.
Awaiting(i) ==
  /\ inst[i].child # 0 /\ inst[i].node \notin AsyncNodes
  /\ inst[inst[i].child].pc # "settled"

\* The executor or a node hook rejects, or the node timer fires (which aborts
\* the node's signal; only it ends the wait for a synchronous child).
\* definition.catch chooses the result, `fail` without one, or rejects itself; a
\* cancellation is not looked at here.
NodeThrows(i) ==
  /\ inst[i].pc = "node"
  /\ \E timeout \in BOOLEAN, res \in {"fail", "end", "retry", "throw"} :
       /\ ~timeout => ~Awaiting(i)
       /\ inst' = [(IF timeout THEN AbortNode(inst, i) ELSE inst)
                   EXCEPT ![i] = Transition(@, res, @.node)]
  /\ Idle

\* The flow interrupt wins the race: consumed once, routed by the policy to
\* another node, to a pause or to a cancellation.  Children have no interrupt.
Interrupt(i) ==
  /\ inst[i].pc = "node" /\ ~inst[i].intr /\ inst[i].parent = 0
  /\ \E type \in {"next", "pause", "cancel"} :
       inst' = [AbortNode(inst, i) EXCEPT ![i] =
                  LET r == [@ EXCEPT !.intr = TRUE] IN
                  IF r.cancel THEN Transition(r, "cancel", r.node)
                  ELSE Transition(r, type, InterruptNode)]
  /\ Idle

\* SubflowNodeExecutor starts the child with the node's signal, ...
SubflowStart(i) ==
  /\ inst[i].pc = "node" /\ Kind[inst[i].node] = "subflow" /\ inst[i].child = 0
  /\ started' = started + 1
  /\ inst' = [inst EXCEPT
                ![i].child = started + 1,
                ![started + 1] = NewInstance(ChildFlow[inst[i].node], i,
                                             inst[i].cancel, FALSE)]
  /\ active' = active \cup {started + 1}
  /\ UNCHANGED <<completed, waitedBy, orphans, throws>>

\* ... does not wait for it in mode async, ...
SubflowLeft(i) ==
  /\ inst[i].pc = "node" /\ inst[i].child # 0 /\ inst[i].node \in AsyncNodes
  /\ LET res == IF inst[i].cancel THEN <<"cancel", inst[i].node>>
                ELSE NextOrEnd(inst[i].node)
     IN inst' = [inst EXCEPT ![i] = Transition(@, res[1], res[2])]
  /\ Idle

\* ... and else turns its snapshot into the parent's result.
SubflowDone(i) ==
  /\ inst[i].pc = "node" /\ inst[i].child # 0 /\ inst[i].node \notin AsyncNodes
  /\ inst[inst[i].child].pc = "settled"
  /\ LET r == inst[i]
         c == inst[r.child]
         res == IF r.cancel THEN <<"cancel", r.node>> ELSE SubflowResult(c, r.node)
     IN inst' = [inst EXCEPT ![i] =
                   [Transition(r, res[1], res[2]) EXCEPT
                      !.took = IF res[1] \in {"next", "end"} THEN c.status ELSE r.took]]
  /\ Idle

Backoff(i) ==
  /\ inst[i].pc = "backoff"
  /\ inst' = [inst EXCEPT ![i].pc = "loop"]
  /\ Idle

\* The gate is open: a cancelled instance leaves suspend() still paused.
Wake(i) ==
  /\ inst[i].pc = "suspended" /\ inst[i].gate = "open"
  /\ inst' = [inst EXCEPT ![i] =
       IF @.cancel THEN [@ EXCEPT !.gate = "none", !.pc = "resumed"]
       ELSE [@ EXCEPT !.gate = "none", !.status = "running", !.pc = "resumed"]]
  /\ Idle

\* After the publish that follows: an API pause forgets its request (also one
\* made in between), a wait node moves on.
Resumed(i) ==
  /\ inst[i].pc = "resumed"
  /\ LET r == inst[i] IN
     inst' = [inst EXCEPT ![i] =
       [r EXCEPT !.pc = "loop", !.why = "none",
                 !.pauseReq = IF r.why = "api" THEN FALSE ELSE r.pauseReq,
                 !.node = IF r.why = "wait" /\ NextOf[r.node] # NoNode
                          THEN NextOf[r.node] ELSE r.node]]
  /\ Idle

\* definition.outputSchema accepts the output of an `end`.
Validated(i) ==
  /\ inst[i].pc = "validating"
  /\ inst' = [inst EXCEPT ![i] = Complete(@, "completed", "completing")]
  /\ Idle

\* The terminal hooks and the last publish are through.
Completed(i) ==
  /\ inst[i].pc \in {"completing", "failing"}
  /\ inst' = [inst EXCEPT ![i].pc = "finally"]
  /\ Idle

\* definition.finally and the onFlowFinally hooks are through (or the failure
\* they caused is): the completion promise resolves and the engine moves the
\* instance from active to completed.
Settle(i) ==
  /\ inst[i].pc \in {"finally", "finallyFailing", "closing"}
  /\ inst' = [inst EXCEPT ![i].pc = "settled"]
  /\ active' = active \ {i}
  /\ completed' = TrimCompleted(Append(completed, i))
  /\ UNCHANGED <<started, waitedBy, orphans, throws>>

\* A hook, a projection, a schema or a finally handler rejects.  In the body
\* of run() this completes the instance as failed, also one that had already
\* completed; in the catch block it is dropped; in the finally block it fails
\* an instance that is still live, and if that fails too the completion
\* promise is never resolved.
HandlerThrows(i) ==
  /\ throws < MaxThrows
  /\ inst[i].pc \in {"starting", "loop", "suspended", "resumed", "validating",
                     "completing", "failing", "finally", "finallyFailing"}
  /\ inst[i].pc = "suspended" => inst[i].gate = "closed"
  /\ throws' = throws + 1
  /\ inst' = [inst EXCEPT ![i] =
       CASE @.pc = "failing" -> [@ EXCEPT !.pc = "finally"]
         [] @.pc = "finally" /\ @.status \in Live ->
              Complete(@, "failed", "finallyFailing")
         [] @.pc = "finally" /\ @.status \notin Live ->
              [@ EXCEPT !.pc = "closing"]
         [] @.pc = "finallyFailing" -> [@ EXCEPT !.pc = "lost"]
         [] OTHER -> Complete(@, "failed", "failing")]
  /\ UNCHANGED <<started, active, completed, waitedBy, orphans>>

InstanceStep(i) ==
  \/ Booted(i) \/ Loop(i) \/ NodeResult(i) \/ SubflowStart(i) \/ SubflowLeft(i)
  \/ SubflowDone(i) \/ Backoff(i) \/ Wake(i) \/ Resumed(i) \/ Validated(i) \/ Completed(i)
  \/ Settle(i)

FlowNext ==
  \/ \E f \in TopFlows, stop \in BOOLEAN : Start(f, stop)
  \/ \E i \in Ids : \/ Pause(i) \/ Resume(i) \/ Cancel(i)
                    \/ InstanceStep(i) \/ NodeThrows(i) \/ Interrupt(i)
                    \/ HandlerThrows(i)
  \/ Dispose \/ DisposeDone

FlowFairness == \A i \in Ids : WF_flowVars(InstanceStep(i))

FlowSpec == FlowInit /\ [][FlowNext]_flowVars /\ FlowFairness

-----------------------------------------------------------------------------
(* Properties *)

\* The engine's tables and the instance records have their types.
FlowTypeOK ==
  /\ started \in 0..MaxInstances /\ throws \in 0..MaxThrows
  /\ active \subseteq Ids /\ waitedBy \subseteq Ids /\ orphans \subseteq Ids
  /\ completed \in Seq(Ids)
  /\ \A i \in Ids :
       /\ inst[i].pc \in FlowPcs
       /\ inst[i].status \in Live \cup Terminal
       /\ inst[i].node \in Nodes \cup {NoNode}
       /\ inst[i].gate \in {"none", "closed", "open"}
       /\ inst[i].hooks \subseteq Terminal

\* ExecutableFlowEngine's two tables: an instance is listed as active exactly
\* while its completion promise is open (unless a dispose dropped it), and the
\* completed table holds settled instances only, never more than the retention.
TablesAgree ==
  /\ active = {i \in Ids : inst[i].pc \notin {"absent", "settled"}} \ orphans
  /\ Len(completed) <= Retention
  /\ \A k \in 1..Len(completed) : inst[completed[k]].pc = "settled"

\* A completion promise resolves with a live status only for a flow that was
\* cancelled while paused or one the test runner stops on `stay`; a flow that
\* nobody cancelled never ends half way.
SettledIsFinished ==
  \A i \in Ids : inst[i].pc = "settled" =>
    /\ inst[i].status = "paused" => inst[i].cancel
    /\ inst[i].status = "running" => inst[i].stop
    /\ inst[i].status \in Terminal => inst[i].status \in inst[i].hooks

\* retry(): once a node was retried beyond definition.retry.maxAttempts its
\* instance has ended for good; it never executes the node again.
RetryBudget ==
  \A i \in Ids, n \in Nodes :
    (inst[i].tries[n] > 1 /\ inst[i].tries[n] > MaxAttempts) =>
      inst[i].status \in Terminal /\ inst[i].pc \notin {"loop", "node"}

\* Cancellation propagation: no unsettled child of a cancelled parent is left
\* without a cancellation, whenever it was started.
CancelReachesChildren ==
  \A c \in Ids : LET p == inst[c].parent IN
    (/\ inst[c].pc \notin {"absent", "settled", "lost"} /\ p # 0
     /\ inst[p].cancel /\ inst[c].status \in Live) => inst[c].cancel

\* SubflowNodeExecutor: a parent never continues over a child that ended
\* failed or cancelled.
FailedChildIsNotAccepted ==
  \A i \in Ids : inst[i].took \notin {"failed", "cancelled"}

\* Every cancelled instance settles as long as executors and handlers return
\* (or its completion is lost to two rejecting handlers in the finally block).
CancelTerminates ==
  <>[](\A i \in Ids : inst[i].cancel =>
         \/ inst[i].pc \in {"settled", "lost"}
         \/ \E c \in Ids : inst[c].parent = i /\ inst[c].pc = "lost")

\* ExecutableFlowEngine, FlowInstanceRuntime: the engine's tables, an instance's
\* end, its retries and what parents and children know of each other agree.
FlowsAreAccountedFor ==
  /\ FlowTypeOK /\ TablesAgree /\ SettledIsFinished /\ RetryBudget
  /\ CancelReachesChildren /\ FailedChildIsNotAccepted
=============================================================================
