-------------------------- MODULE PersistentSession --------------------------
(***************************************************************************)
(* PersistentNativeTcpHostSession under its supervisor: one connection at a *)
(* time, numbered by generation; one exchange at a time, whose response is  *)
(* whatever response comes next on the connection; reconnection by timer.   *)
(*                                                                          *)
(* HostSessionSupervisor signs on over every new connection, sends          *)
(* heartbeats, signs on again when they fail, and tells transactions        *)
(* whether the host is available.  Its reactions are functions on its       *)
(* state, because the transport calls it synchronously.  The control        *)
(* operation and the timer are dropped whenever the generation changes, so  *)
(* they always belong to the snapshot's generation; a cancelled operation's *)
(* result meets another epoch and has no effect.                            *)
(***************************************************************************)
EXTENDS Sequences, SequencesExt, FiniteSets

CONSTANTS
  FailureThreshold,  \* policy.heartbeat.failureThreshold
  Requests,   \* business requests, each exchanged once
  Uses        \* bounds: the [requests, faults, supervised, inbound] a behaviour may have; a fault
              \* is a failed connection, a drop, a timeout or a refusal

\* A request is neither a control operation nor named like an outcome.
ASSUME SessionAssumption ==
  Requests \cap {"establish", "heartbeat", "shutdown", "new", "queued", "notSent", "unknown", "none"} = {}

-----------------------------------------------------------------------------
(* The supervisor.  *)

SupervisorStates == {"stopped", "connecting", "establishing", "ready", "degraded", "disconnected", "stopping"}

\* op: the control operation, "" for none; asked: its hook has called exchange();
\* timer: what is scheduled; activation: a promise, forgotten when it settles or, after a
\* retry, not; start: the call of start().
NewSupervisor ==
  [state |-> "stopped", gen |-> 0, failures |-> 0, running |-> FALSE, stopping |-> FALSE, disposed |-> FALSE,
   op |-> "", asked |-> FALSE, result |-> "none", timer |-> "none", activation |-> "none", start |-> "new"]

InvalidateWork(s) ==
  [s EXCEPT !.op = "", !.asked = FALSE, !.result = "none", !.timer = "none", !.activation = "none"]

\* runControl, up to its await; a scheduled task stays.
RunControl(s, operation) == [s EXCEPT !.op = operation, !.asked = FALSE, !.result = "none"]

ActivateGeneration(s, g) ==
  IF ~s.running \/ g = 0 \/ (s.gen = g /\ s.activation # "none") THEN s
  ELSE RunControl([InvalidateWork(s) EXCEPT !.state = "establishing", !.gen = g, !.failures = 0, !.activation = "clears"],
                  "establish")

\* handleTransportEvent
Listening(s) == s.running /\ ~s.disposed /\ ~s.stopping
OnConnected(s, g) == IF Listening(s) THEN ActivateGeneration(s, g) ELSE s
OnConnecting(s) == IF Listening(s) THEN [s EXCEPT !.state = "connecting"] ELSE s

OnDisconnected(s) == IF Listening(s) THEN [InvalidateWork(s) EXCEPT !.state = "disconnected"] ELSE s

\* establish() and heartbeat() after their await.
EstablishEnds(s) ==
  LET t == [s EXCEPT !.activation = IF @ = "clears" THEN "none" ELSE @]
  IN IF s.result = "accepted" THEN [t EXCEPT !.state = "ready", !.failures = 0, !.timer = "heartbeat"]
     ELSE [t EXCEPT !.state = "degraded", !.timer = "retry"]

\* Mutant: a session whose heartbeats failed waits for its next connection.
HeartbeatEndsQuietly(s) ==
  CASE s.result = "accepted" -> [s EXCEPT !.state = "ready", !.failures = 0, !.timer = "heartbeat"]
    [] s.result # "accepted" /\ s.failures + 1 < FailureThreshold -> [s EXCEPT !.failures = @ + 1, !.timer = "heartbeat"]
    [] OTHER -> [s EXCEPT !.state = "degraded", !.failures = @ + 1]

HeartbeatEnds(s) ==
  CASE s.result = "accepted" -> [s EXCEPT !.state = "ready", !.failures = 0, !.timer = "heartbeat"]
    [] s.result # "accepted" /\ s.failures + 1 < FailureThreshold ->
         [s EXCEPT !.state = "ready", !.failures = @ + 1, !.timer = "heartbeat"]
    [] OTHER -> [s EXCEPT !.state = "degraded", !.failures = @ + 1, !.timer = "retry"]

\* The control operation has settled, and its generation is still the transport's.
ControlEnds(s) ==
  LET over == [s EXCEPT !.op = "", !.asked = FALSE, !.result = "none"]
      then == CASE s.op = "establish" -> EstablishEnds(s)
                [] s.op = "heartbeat" -> HeartbeatEnds(s)
                [] OTHER -> s
  IN [then EXCEPT !.op = over.op, !.asked = over.asked, !.result = over.result]

\* A scheduled task runs.
TaskRuns(s) ==
  IF s.timer = "retry"
  THEN RunControl([s EXCEPT !.timer = "none", !.state = "establishing", !.activation = "stays"], "establish")
  ELSE RunControl([s EXCEPT !.timer = "none"], "heartbeat")

-----------------------------------------------------------------------------
(* The session.  *)

VARIABLES
  use, sup,
  tr,       \* [state, gen, socket, timer, connecting, started, disposed]
  retired, open, nextSocket,
  queue,    \* exchangeQueue: [who, gen], gen the one a control message is meant for
  ex,       \* the exchange at its head: [pc, sock, gen, res]
  wire,     \* requests the host has: [sock, who]
  results,  \* [request -> outcome]
  inbound,  \* generation of a host's message whose handler has yet to reply, 0 for none
  greeted,  \* history: generations whose sign-on the host accepted
  arrived,  \* history: what was ever written
  replies,  \* history: <<generation of the message, of the connection>> of replies
  tfaults

sessionVars == <<use, sup, tr, retired, open, nextSocket, queue, ex, wire, results, inbound, greeted, arrived, replies, tfaults>>

Controls == {"establish", "heartbeat", "shutdown"}
NoExchange == [pc |-> "idle", sock |-> 0, gen |-> 0, res |-> "none"]

SessionInit ==
  /\ use \in Uses
  /\ sup = NewSupervisor
  /\ tr = [state |-> "idle", gen |-> 0, socket |-> 0, timer |-> FALSE, connecting |-> FALSE, started |-> FALSE, disposed |-> FALSE]
  /\ retired = {} /\ open = {} /\ nextSocket = 1 /\ queue = <<>> /\ ex = NoExchange /\ wire = {}
  /\ results = [r \in Requests |-> "new"] /\ inbound = 0
  /\ greeted = {} /\ arrived = {} /\ replies = {} /\ tfaults = 0

TFault == tfaults < use.faults /\ tfaults' = tfaults + 1
IsCurrentGeneration == sup.running /\ ~sup.disposed /\ sup.gen = tr.gen /\ tr.state = "connected"
\* What the readiness condition and the health check read.
Available == sup.state = "ready"
Pending == ex.pc \in {"write", "await"} /\ ex.res = "none"

\* establishConnection: joined when one is under way.
Connecting(t, state) == IF t.socket # 0 \/ t.connecting THEN t ELSE [t EXCEPT !.state = state, !.connecting = TRUE]
\* scheduleReconnect
Reconnects(t) == IF t.started /\ ~t.disposed /\ t.socket = 0 THEN [t EXCEPT !.timer = TRUE] ELSE t

sessionHistory == <<greeted, arrived, replies>>

-----------------------------------------------------------------------------
(* The end of an exchange, and who learns of it.  *)

\* A control operation hears only of its own exchange: the last one asked for.
IsAnswer == sup.asked /\ sup.result = "none" /\ \A k \in 2..Len(queue) : queue[k].who \notin Controls

\* The hook accepts a response, or does not.
Told(s, who, res) ==
  IF who \in Controls /\ IsAnswer /\ s.asked
  THEN [s EXCEPT !.result = IF res = "refused" \/ res \notin Controls THEN "failed" ELSE "accepted"] ELSE s

Finish(res) ==
  /\ queue' = Tail(queue) /\ ex' = NoExchange
  /\ results' = IF Head(queue).who \in Requests THEN [results EXCEPT ![Head(queue).who] = res] ELSE results

\* Mutant: an exchange that timed out leaves the connection to the next one.
DropNot == UNCHANGED <<tr, retired, open>>

\* dropConnection
Drop ==
  IF tr.socket = 0 THEN UNCHANGED <<tr, retired, open>>
  ELSE /\ tr' = Reconnects([tr EXCEPT !.socket = 0, !.state = "idle"])
       /\ retired' = retired \cup {tr.socket} /\ open' = open \ {tr.socket}
Dropped(s) == IF tr.socket = 0 THEN s ELSE OnDisconnected(s)

-----------------------------------------------------------------------------
(* Connections *)

\* finishConnection, and what start() and an exchange wait for.
ConnectSucceeds ==
  /\ tr.connecting /\ ~tr.disposed /\ nextSocket' = nextSocket + 1
  /\ tr' = [tr EXCEPT !.connecting = FALSE, !.socket = nextSocket, !.gen = @ + 1, !.state = "connected"]
  /\ open' = open \cup {nextSocket}
  /\ LET s == OnConnected(sup, tr.gen + 1)
     IN sup' = IF s.start = "waiting" THEN [s EXCEPT !.start = "connected"] ELSE s
  /\ ex' = IF ex.pc = "connect" THEN [ex EXCEPT !.pc = "ready"] ELSE ex
  /\ UNCHANGED <<retired, queue, wire, results, inbound, sessionHistory, tfaults>>

\* Rejected, timed out, an id that was retired, or disposed meanwhile: the socket, if
\* there is one, is retired and closed.
ConnectFails ==
  /\ tr.connecting
  /\ IF tr.disposed THEN UNCHANGED tfaults ELSE TFault
  /\ LET t == [tr EXCEPT !.connecting = FALSE]
     IN tr' = IF tr.disposed THEN t ELSE Reconnects([t EXCEPT !.state = "idle"])
  /\ LET s == IF tr.disposed THEN sup ELSE OnDisconnected(sup)
         t == IF ex.pc = "connect" THEN Told(s, Head(queue).who, "notSent") ELSE s
     IN sup' = IF t.start = "waiting" THEN [t EXCEPT !.start = "done", !.state = "disconnected"] ELSE t
  /\ IF ex.pc = "connect" THEN Finish("notSent") ELSE UNCHANGED <<queue, ex, results>>
  /\ UNCHANGED <<retired, open, nextSocket, wire, inbound, sessionHistory>>

\* The remote end closes, the socket fails, or a frame is invalid.
ConnectionLost ==
  /\ tr.socket # 0 /\ TFault /\ Drop /\ sup' = Dropped(sup)
  /\ ex' = IF Pending THEN [ex EXCEPT !.res = "unknown"] ELSE ex
  /\ UNCHANGED <<nextSocket, queue, wire, results, inbound, sessionHistory>>

ReconnectTimer ==
  /\ tr.timer /\ tr' = Connecting([tr EXCEPT !.timer = FALSE], "reconnecting")
  /\ sup' = IF tr.socket # 0 \/ tr.connecting THEN sup ELSE OnConnecting(sup)
  /\ UNCHANGED <<retired, open, nextSocket, queue, ex, wire, results, inbound, sessionHistory, tfaults>>

-----------------------------------------------------------------------------
(* Exchanges *)

Submit(r) ==
  /\ r \in use.requests /\ results[r] = "new" /\ results' = [results EXCEPT ![r] = "queued"]
  /\ queue' = Append(queue, [who |-> r, gen |-> 0])
  /\ UNCHANGED <<sup, tr, retired, open, nextSocket, ex, wire, inbound, sessionHistory, tfaults>>

\* performExchange: start() when there is no connection.
Dequeue ==
  /\ queue # <<>> /\ ex.pc = "idle"
  /\ IF tr.disposed THEN Finish("notSent") /\ sup' = Told(sup, Head(queue).who, "notSent") /\ UNCHANGED tr
     ELSE /\ UNCHANGED <<queue, results>>
          /\ IF tr.socket # 0 THEN ex' = [ex EXCEPT !.pc = "ready"] /\ UNCHANGED <<sup, tr>>
             ELSE /\ ex' = [ex EXCEPT !.pc = "connect"]
                  /\ tr' = Connecting([tr EXCEPT !.started = TRUE], "connecting")
                  /\ sup' = IF tr.connecting THEN sup ELSE OnConnecting(sup)
  /\ UNCHANGED <<retired, open, nextSocket, wire, inbound, sessionHistory, tfaults>>

\* The connection may be gone again.
TakeConnection ==
  /\ ex.pc = "ready"
  /\ IF tr.socket = 0
     THEN Finish("notSent") /\ sup' = Told(sup, Head(queue).who, "notSent")
     ELSE /\ ex' = [pc |-> "write", sock |-> tr.socket, gen |-> tr.gen, res |-> "none"]
          /\ UNCHANGED <<queue, results, sup>>
  /\ UNCHANGED <<tr, retired, open, nextSocket, wire, inbound, sessionHistory, tfaults>>

Written ==
  /\ wire' = wire \cup {[sock |-> ex.sock, who |-> Head(queue).who]}
  /\ arrived' = arrived \cup {Head(queue).who}

WriteDone ==
  /\ ex.pc = "write" /\ Written /\ ex' = [ex EXCEPT !.pc = "await"]
  /\ UNCHANGED <<sup, tr, retired, open, nextSocket, queue, results, inbound, greeted, replies, tfaults>>

\* catch: the connection is dropped if it is still this exchange's.
GivesUp(res) ==
  /\ IF ex.gen = tr.gen THEN Drop ELSE UNCHANGED <<tr, retired, open>>
  /\ sup' = Told(IF ex.gen = tr.gen THEN Dropped(sup) ELSE sup, Head(queue).who, res)
  /\ Finish(res)
  /\ UNCHANGED <<nextSocket, inbound, greeted, replies>>

WriteOutcome == "unknown"

\* Rejected or timed out, with or without the bytes at the host; free on a lost connection.
WriteFails ==
  /\ ex.pc = "write"
  /\ IF ex.sock = tr.socket THEN TFault ELSE UNCHANGED tfaults
  /\ Written \/ UNCHANGED <<wire, arrived>>
  /\ GivesUp(WriteOutcome)

ResponseTimeout ==
  /\ ex.pc = "await" /\ ex.res = "none" /\ TFault /\ GivesUp("unknown")
  /\ UNCHANGED <<wire, arrived>>

\* handleEvent, routePayload: a response on this connection, for whoever waits.
Routes(w) == w.sock = tr.socket /\ Pending /\ ex.gen = tr.gen

ResponseArrives(w) ==
  /\ w \in wire /\ wire' = wire \ {w}
  /\ ex' = IF Routes(w) THEN [ex EXCEPT !.res = w.who] ELSE ex
  /\ UNCHANGED <<sup, tr, retired, open, nextSocket, queue, results, inbound, sessionHistory, tfaults>>

ExchangeEnds ==
  /\ ex.pc = "await" /\ ex.res # "none"
  /\ \/ /\ sup' = Told(sup, Head(queue).who, ex.res) /\ UNCHANGED tfaults
        /\ greeted' = IF Head(queue).who = "establish" /\ IsAnswer /\ ex.res = "establish"
                      THEN greeted \cup {ex.gen} ELSE greeted
     \/ /\ Head(queue).who \in Controls /\ IsAnswer /\ TFault
        /\ sup' = Told(sup, Head(queue).who, "refused") /\ UNCHANGED greeted
  /\ Finish(ex.res)
  /\ UNCHANGED <<tr, retired, open, nextSocket, wire, inbound, arrived, replies>>

\* inbound.dispatch: the host's own message, and its handler's reply.
InboundArrives ==
  /\ use.inbound /\ tr.socket # 0 /\ inbound = 0 /\ replies = {} /\ inbound' = tr.gen
  /\ UNCHANGED <<sup, tr, retired, open, nextSocket, queue, ex, wire, results, sessionHistory, tfaults>>

MayRespond == tr.socket # 0 /\ inbound = tr.gen

Respond ==
  /\ inbound # 0 /\ inbound' = 0
  /\ replies' = IF MayRespond THEN replies \cup {<<inbound, tr.gen>>} ELSE replies
  /\ UNCHANGED <<sup, tr, retired, open, nextSocket, queue, ex, wire, results, greeted, arrived, tfaults>>

-----------------------------------------------------------------------------
(* The supervisor's own steps *)

SupervisorOnly == UNCHANGED <<retired, open, nextSocket, ex, wire, results, inbound, sessionHistory>>

\* The runtime of a session without a supervisor.
TransportStart ==
  /\ ~use.supervised /\ ~tr.started /\ ~tr.disposed
  /\ tr' = Connecting([tr EXCEPT !.started = TRUE], "connecting")
  /\ SupervisorOnly /\ UNCHANGED <<sup, queue, tfaults>>

\* start(): the transport emits "connecting" before start() awaits it.
SupervisorStart ==
  /\ use.supervised /\ sup.start = "new" /\ ~sup.disposed /\ ~sup.stopping
  /\ sup' = [sup EXCEPT !.running = TRUE, !.state = "connecting",
                        !.start = IF tr.socket # 0 THEN "connected" ELSE "waiting"]
  /\ tr' = Connecting([tr EXCEPT !.started = TRUE], "connecting")
  /\ SupervisorOnly /\ UNCHANGED <<queue, tfaults>>

StartResumes ==
  /\ sup.start = "connected"
  /\ LET s == [sup EXCEPT !.start = "done"]
     IN sup' = IF tr.state = "connected" THEN ActivateGeneration(s, tr.gen) ELSE s
  /\ SupervisorOnly /\ UNCHANGED <<tr, queue, tfaults>>

\* The hook calls exchange(): fenced by generation when called, not when sent.
ControlAsks ==
  /\ sup.op # "" /\ ~sup.asked /\ sup.result = "none"
  /\ IF IsCurrentGeneration
     THEN queue' = Append(queue, [who |-> sup.op, gen |-> sup.gen]) /\ sup' = [sup EXCEPT !.asked = TRUE]
     ELSE sup' = [sup EXCEPT !.result = "failed"] /\ UNCHANGED queue
  /\ SupervisorOnly /\ UNCHANGED <<tr, tfaults>>

ControlTimeout ==
  /\ sup.op # "" /\ sup.result = "none" /\ TFault /\ sup' = [sup EXCEPT !.result = "failed"]
  /\ SupervisorOnly /\ UNCHANGED <<tr, queue>>

ControlContinues ==
  /\ sup.result # "none"
  /\ sup' = IF IsCurrentGeneration THEN ControlEnds(sup)
            ELSE [sup EXCEPT !.op = "", !.asked = FALSE, !.result = "none"]
  /\ SupervisorOnly /\ UNCHANGED <<tr, queue, tfaults>>

TaskFires ==
  /\ sup.timer # "none" /\ sup' = IF IsCurrentGeneration THEN TaskRuns(sup) ELSE [sup EXCEPT !.timer = "none"]
  /\ SupervisorOnly /\ UNCHANGED <<tr, queue, tfaults>>

\* dispose(): tryShutdown on a live connection.
SupervisorDispose ==
  /\ ~sup.disposed /\ ~sup.stopping
  /\ LET s == [InvalidateWork(sup) EXCEPT !.stopping = TRUE, !.state = "stopping"]
     IN sup' = IF sup.gen > 0 /\ tr.state = "connected" THEN RunControl(s, "shutdown") ELSE s
  /\ SupervisorOnly /\ UNCHANGED <<tr, queue, tfaults>>

DisposeDue == sup.stopping /\ ~sup.disposed /\ sup.op # "shutdown"

\* Then the transport is disposed.
DisposeContinues ==
  /\ DisposeDue
  /\ sup' = [InvalidateWork(sup) EXCEPT !.running = FALSE, !.disposed = TRUE, !.state = "stopped"]
  /\ tr' = [tr EXCEPT !.disposed = TRUE, !.started = FALSE, !.timer = FALSE, !.state = "disposed", !.socket = 0]
  /\ open' = open \ {tr.socket} /\ retired' = retired \cup ({tr.socket} \ {0})
  /\ ex' = IF Pending THEN [ex EXCEPT !.res = "unknown"] ELSE ex
  /\ UNCHANGED <<nextSocket, queue, wire, results, inbound, sessionHistory, tfaults>>

\* Continuations of promises: start() and dispose() take their next step before any event
\* or timer.
Resuming == DisposeDue \/ sup.start = "connected"

PromiseStep ==
  \/ Dequeue \/ TakeConnection \/ ExchangeEnds
  \/ StartResumes \/ ControlAsks \/ ControlContinues \/ DisposeContinues

NativeStep ==
  /\ ~Resuming
  /\ \/ ConnectSucceeds \/ ConnectFails \/ ReconnectTimer \/ WriteDone \/ WriteFails \/ TaskFires
     \/ \E w \in wire : ResponseArrives(w)

SessionStep == PromiseStep \/ NativeStep

EnvironmentStep ==
  \/ SupervisorDispose
  \/ /\ ~Resuming
     /\ \/ ConnectionLost \/ ResponseTimeout \/ ControlTimeout \/ SupervisorStart \/ TransportStart
        \/ InboundArrives \/ Respond
        \/ \E r \in Requests : Submit(r)

SessionNext == (SessionStep \/ EnvironmentStep) /\ UNCHANGED use

\* Timers fire, promises are continued, the native host and the remote host answer.
SessionFairness == WF_sessionVars(SessionStep /\ UNCHANGED use)

-----------------------------------------------------------------------------
(* Properties *)

\* The supervisor's and the transport's states have their types; a connected
\* transport has a socket, and no other socket is left open.
SessionTypeOK ==
  /\ sup.state \in SupervisorStates /\ sup.op \in Controls \cup {""}
  /\ (tr.state = "connected") <=> (tr.socket # 0)
  /\ open = {tr.socket} \ {0} /\ tr.socket \notin retired

\* supervisor: available means signed on over the connection there is now, whatever
\* late results, reconnections and retries came before.
ReadyIsSignedOn ==
  Available => tr.state = "connected" /\ tr.gen = sup.gen /\ sup.gen \in greeted

\* performExchange: a response is the response to this request, never a late one
\* to an exchange given up before.
ResponseIsOwn == \A r \in Requests : results[r] \in {"new", "queued", "notSent", "unknown", r}

\* performExchange: "notSent" allows the outbox to send again, so nothing was written.
NotSentIsTrue == \A r \in Requests : results[r] = "notSent" => r \notin arrived

\* respond: a reply goes out on the connection its message came in.
ReplyOnOwnConnection == \A p \in replies : p[1] = p[2]

\* Every exchange ends.
ExchangesEnd == <>[](\A r \in Requests : results[r] # "queued")

\* Once failures stop, a started session is available again for good, or disposed.
SessionRecovers == <>[](sup.start = "new" \/ Available \/ sup.disposed)
=============================================================================
