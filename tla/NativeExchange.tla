--------------------------- MODULE NativeExchange ---------------------------
(***************************************************************************)
(* The one-shot host channels, NativeTcpHostTransportAdapter and            *)
(* NativeWebSocketHostTransportAdapter: one exchange at a time, each over a *)
(* connection of its own.  The two differ in what they refuse to send and   *)
(* in which events answer; their control is the same.  Every wait has a     *)
(* timeout that leaves the native call behind, except the last one, close. *)
(***************************************************************************)
EXTENDS Naturals, FiniteSets

CONSTANTS
  Exchanges,    \* 1..n, in the order of their calls
  Unsendable,   \* exchanges whose payload cannot be framed, or is too large
  MaxNFaults    \* bound: timeouts and rejections

ASSUME ExchangesAssumption == Exchanges \subseteq Nat

VARIABLES
  channel,    \* "tcp" or "websocket"
  shut,       \* disposed
  xc,         \* [exchange -> [pc, response, out]]
  sockets,    \* exchanges whose native socket is open
  abandoned,  \* exchanges whose connect timed out and is still pending
  written,    \* history: exchanges whose bytes have reached the host
  nfaults

nativeVars == <<channel, shut, xc, sockets, abandoned, written, nfaults>>

NewExchange == [pc |-> "new", response |-> "none", out |-> "none"]

NativeInit ==
  /\ channel \in {"tcp", "websocket"} /\ shut = FALSE /\ xc = [x \in Exchanges |-> NewExchange]
  /\ sockets = {} /\ abandoned = {} /\ written = {} /\ nfaults = 0

NFault == nfaults < MaxNFaults /\ nfaults' = nfaults + 1
OnLine(x, l) == xc[x].pc = l
Moves(x, l) == xc' = [xc EXCEPT ![x].pc = l]
Settles(x, out) == xc' = [xc EXCEPT ![x] = [NewExchange EXCEPT !.pc = "done", !.out = out]]
\* finally: the socket is closed before the promise settles and the next task runs.
Closes(x, out) == xc' = [xc EXCEPT ![x].pc = "closing", ![x].out = out]

-----------------------------------------------------------------------------
Call(x) ==
  /\ OnLine(x, "new") /\ Moves(x, "queued") /\ \A y \in Exchanges : y < x => ~OnLine(y, "new")
  /\ UNCHANGED <<channel, shut, sockets, abandoned, written, nfaults>>

\* SerialTaskQueue.run
Turn(x) == OnLine(x, "queued") /\ \A y \in Exchanges : y < x => OnLine(y, "done")

\* performExchange, up to connect().
PerformExchange(x, refused) ==
  /\ Turn(x) /\ IF shut \/ refused THEN Settles(x, "notSent") ELSE Moves(x, "connecting")
  /\ UNCHANGED <<channel, shut, sockets, abandoned, written, nfaults>>

\* frame.encode throws, or not; a message over maxMessageBytes, or not.
TcpExchangeStarts(x) == channel = "tcp" /\ PerformExchange(x, x \in Unsendable)
WebSocketExchangeStarts(x) == channel = "websocket" /\ PerformExchange(x, x \in Unsendable)

AfterConnect(x) == IF shut THEN Closes(x, "notSent") ELSE Moves(x, "writing")

Connected(x) ==
  /\ OnLine(x, "connecting") /\ sockets' = sockets \cup {x} /\ AfterConnect(x)
  /\ UNCHANGED <<channel, shut, abandoned, written, nfaults>>

TcpConnected(x) == channel = "tcp" /\ Connected(x)
WebSocketConnected(x) == channel = "websocket" /\ Connected(x)

ConnectRejected(x) ==
  /\ OnLine(x, "connecting") /\ NFault /\ Settles(x, "notSent")
  /\ UNCHANGED <<channel, shut, sockets, abandoned, written>>

ConnectTimedOut(x) ==
  /\ OnLine(x, "connecting") /\ NFault /\ Settles(x, "notSent") /\ abandoned' = abandoned \cup {x}
  /\ UNCHANGED <<channel, shut, sockets, written>>

\* connect(): the late socket is closed, or there is none.
LateConnect(x) ==
  /\ x \in abandoned /\ abandoned' = abandoned \ {x}
  /\ UNCHANGED <<channel, shut, xc, sockets, written, nfaults>>

-----------------------------------------------------------------------------
(* On a connection.  The response may come before the write is confirmed.   *)

\* Also those of a write that has been given up.
BytesArrive(x) ==
  /\ OnLine(x, "writing") \/ (OnLine(x, "closing") /\ xc[x].out = "unknown")
  /\ x \notin written /\ written' = written \cup {x}
  /\ UNCHANGED <<channel, shut, xc, sockets, abandoned, nfaults>>

WriteConfirmed(x) ==
  /\ OnLine(x, "writing") /\ x \in written /\ Moves(x, "waiting")
  /\ UNCHANGED <<channel, shut, sockets, abandoned, written, nfaults>>

\* catch
Unconfirmed(x) == "unknown"

WriteGivenUp(x) ==
  /\ OnLine(x, "writing") /\ NFault /\ Closes(x, Unconfirmed(x))
  /\ UNCHANGED <<channel, shut, sockets, abandoned, written>>

\* deferred.resolve: the first one counts.
Resolved(x, res) == xc' = [xc EXCEPT ![x].response = IF @ = "none" THEN res ELSE @]
MayHear(x) == xc[x].pc \in {"writing", "waiting"} /\ xc[x].response = "none"

\* handleEvent: a frame that is whole, trailing bytes or an invalid frame, a remote end.
TcpEvent(x) ==
  /\ channel = "tcp" /\ MayHear(x)
  /\ \/ x \in written /\ Resolved(x, "response") /\ UNCHANGED nfaults
     \/ NFault /\ Resolved(x, "failed")
  /\ UNCHANGED <<channel, shut, sockets, abandoned, written>>

\* A message of the expected kind and size, or another one, a remote end.
WebSocketEvent(x) ==
  /\ channel = "websocket" /\ MayHear(x)
  /\ \/ x \in written /\ Resolved(x, "response") /\ UNCHANGED nfaults
     \/ NFault /\ Resolved(x, "failed")
  /\ UNCHANGED <<channel, shut, sockets, abandoned, written>>

ResponseRead(x) ==
  /\ OnLine(x, "waiting") /\ xc[x].response # "none"
  /\ Closes(x, IF xc[x].response = "response" THEN "response" ELSE "unknown")
  /\ UNCHANGED <<channel, shut, sockets, abandoned, written, nfaults>>

ResponseTimedOut(x) ==
  /\ OnLine(x, "waiting") /\ xc[x].response = "none" /\ NFault /\ Closes(x, "unknown")
  /\ UNCHANGED <<channel, shut, sockets, abandoned, written>>

\* tcp.close, fulfilled or rejected.
SocketClosed(x) ==
  /\ OnLine(x, "closing") /\ sockets' = sockets \ {x} /\ Settles(x, xc[x].out)
  /\ UNCHANGED <<channel, shut, abandoned, written, nfaults>>

\* dispose: cancelActive is there between the connection and the close.
CancelActive(x) ==
  IF xc[x].pc \in {"writing", "waiting"} /\ xc[x].response = "none" THEN [xc[x] EXCEPT !.response = "failed"] ELSE xc[x]

Shut ==
  /\ ~shut /\ shut' = TRUE /\ xc' = [x \in Exchanges |-> CancelActive(x)]
  /\ UNCHANGED <<channel, sockets, abandoned, written, nfaults>>

NativeProgress(x) ==
  \/ TcpExchangeStarts(x) \/ WebSocketExchangeStarts(x) \/ TcpConnected(x) \/ WebSocketConnected(x)
  \/ LateConnect(x) \/ BytesArrive(x) \/ WriteConfirmed(x) \/ ResponseRead(x) \/ SocketClosed(x)
  \/ TcpEvent(x) \/ WebSocketEvent(x)

NativeNext ==
  \/ \E x \in Exchanges :
       \/ Call(x) \/ NativeProgress(x) \/ ConnectRejected(x) \/ ConnectTimedOut(x)
       \/ WriteGivenUp(x) \/ ResponseTimedOut(x)
  \/ Shut

\* Native calls settle or their timers fire; close must settle, it has no timer.
NativeFairness == \A x \in Exchanges : WF_nativeVars(NativeProgress(x))

-----------------------------------------------------------------------------
(* Properties *)

\* performExchange: "notSent" lets the outbox send again, so the host has nothing.
NotSentMeansNothing == \A x \in Exchanges : xc[x].out = "notSent" => x \notin written

\* finally, connect: a socket is open only for the exchange under way, whatever
\* timed out, and none is once all have settled.
SocketsAreClosed ==
  /\ Cardinality(sockets) <= 1
  /\ \A x \in sockets : xc[x].pc \in {"writing", "waiting", "closing"}

\* SerialTaskQueue: one exchange's failure never keeps the next from its turn.
ExchangesSettle == <>[](\A x \in Exchanges : xc[x].pc \in {"new", "done"})
=============================================================================
