------------------------------- MODULE MCHost -------------------------------
(* Four parts of the way to the host, which share no state: the outbox knows  *)
(* of a channel only "response", "notSent" and "unknown", and what makes the  *)
(* last two true is a property of the channels.  A behaviour is about one.    *)
EXTENDS HostDelivery, PersistentSession, NativeExchange, HostFraming

CONSTANTS o1, o2, r1, r2

TheScopes ==
  {[ids |-> {o1}, calls |-> 3, restarts |-> 0, faults |-> 0],
   [ids |-> {o1}, calls |-> 2, restarts |-> 1, faults |-> 1],
   [ids |-> {o1, o2}, calls |-> 2, restarts |-> 0, faults |-> 1]}
ThePolicies ==
  {[strategy |-> "inquiry", notFound |-> n, maxAttempts |-> 2] : n \in {"retry", "manual"}}

TheUses ==
  {[requests |-> {r1, r2}, faults |-> 2, supervised |-> FALSE, inbound |-> FALSE],
   [requests |-> {r1}, faults |-> 1, supervised |-> FALSE, inbound |-> TRUE],
   [requests |-> {r1}, faults |-> 2, supervised |-> TRUE, inbound |-> FALSE],
   [requests |-> {}, faults |-> 2, supervised |-> TRUE, inbound |-> FALSE]}

TheOptions ==
  {[header |-> h, lengthBytes |-> n, encoding |-> e, countsHeader |-> ch, countsLength |-> cl, maxFrameBytes |-> 12] :
     h \in {<<>>, <<96, 1>>}, n \in {1, 2}, e \in {"ascii", "bcd"}, ch \in BOOLEAN, cl \in BOOLEAN}
ThePayloads == {<<>>, <<48>>, <<96, 1>>, <<1, 2, 3, 4, 5, 6, 7, 8, 9, 10>>}

VARIABLE part

hostVars == <<part, deliveryVars, sessionVars, nativeVars, frameVars>>

\* What a behaviour is not about starts in one way.
HostInit ==
  /\ part \in {"delivery", "session", "native", "framing"}
  /\ DeliveryInit /\ SessionInit /\ NativeInit /\ FrameInit
  /\ part # "delivery" => scope = CHOOSE s \in Scopes : TRUE
  /\ part # "delivery" => policy = CHOOSE p \in PolicyTerms : TRUE
  /\ part # "session" => use = CHOOSE u \in Uses : TRUE
  /\ part # "native" => channel = "tcp"
  /\ part # "framing" => options = CHOOSE f \in FrameOptions : TRUE

HostNext ==
  /\ UNCHANGED part
  /\ \/ part = "delivery" /\ DeliveryNext /\ UNCHANGED <<sessionVars, nativeVars, frameVars>>
     \/ part = "session" /\ SessionNext /\ UNCHANGED <<deliveryVars, nativeVars, frameVars>>
     \/ part = "native" /\ NativeNext /\ UNCHANGED <<deliveryVars, sessionVars, frameVars>>
     \/ part = "framing" /\ FrameNext /\ UNCHANGED <<deliveryVars, sessionVars, nativeVars>>

\* The steps of a part that a behaviour is not about are never enabled.
HostFairness == SessionFairness /\ NativeFairness

HostSpec == HostInit /\ [][HostNext]_hostVars /\ HostFairness

\* What the outbox and the terminal rely on in either channel: "notSent" means that
\* nothing was, a response belongs to its request, a reply and a sign-on to the
\* connection there is now, and no socket is left behind.
ChannelsAreHonest ==
  /\ SessionTypeOK /\ ReadyIsSignedOn /\ ResponseIsOwn /\ NotSentIsTrue
  /\ ReplyOnOwnConnection /\ NotSentMeansNothing /\ SocketsAreClosed

\* Every exchange ends, and once failures stop the session is available again
\* (persistent-session.ts, native-tcp.ts, supervisor.ts).
HostSettles == ExchangesEnd /\ SessionRecovers /\ ExchangesSettle
=============================================================================
