---------------------------- MODULE DeviceService ----------------------------
(***************************************************************************)
(* XfsDeviceService: connect() opens one native session per configured      *)
(* device and creates its contribution; dispose() ends contributions and    *)
(* sessions, and always the client.  A connect() that failed may be called  *)
(* again.                                                                   *)
(***************************************************************************)
EXTENDS Naturals, Sequences, SequencesExt, FiniteSets

CONSTANTS
  Devices,     \* config.logicalServices, as a sequence of device ids
  MaxConnects, \* bound: calls of connect()
  MaxSFaults   \* bound: rejected calls

\* validateConfig(): there is a device, and no device id occurs twice.
ASSUME DeviceAssumption ==
  /\ Devices \in Seq(ToSet(Devices)) /\ Len(Devices) > 0
  /\ \A i, j \in 1..Len(Devices) : Devices[i] = Devices[j] => i = j

VARIABLES
  svc,       \* [pc, k, connected]
  sessions,  \* [device -> session id, 0 for none]
  contribs,  \* devices with a contribution, in insertion order
  native,    \* sessions open at the native host
  nextSid, generation, attempts,
  rpc,       \* the client: "new", "open", "disposed"
  spoiled,   \* history: an open was refused late, a close was, or connect was repeated
  sfaults

serviceVars == <<svc, sessions, contribs, native, nextSid, generation, attempts, rpc, spoiled, sfaults>>

DeviceIds == ToSet(Devices)
ServicePcs == {"idle", "startup", "open", "create", "contributions", "sessions", "client", "disposed"}

ServiceInit ==
  /\ svc = [pc |-> "idle", k |-> 0, connected |-> FALSE]
  /\ sessions = [d \in DeviceIds |-> 0] /\ contribs = <<>> /\ native = {}
  /\ nextSid = 1
  /\ generation = 0 /\ attempts = 0 /\ rpc = "new" /\ spoiled = FALSE /\ sfaults = 0

SFault == sfaults < MaxSFaults /\ sfaults' = sfaults + 1
SvcTo(l) == svc' = [svc EXCEPT !.pc = l]
\* connect() rejects; what it opened stays in the maps.
ConnectFails == SFault /\ SvcTo("idle")

\* connect(): nothing to do when connected.
Connect ==
  /\ svc.pc = "idle" /\ ~svc.connected /\ rpc # "disposed" /\ attempts < MaxConnects
  /\ attempts' = attempts + 1 /\ spoiled' = (spoiled \/ attempts > 0)
  /\ \/ rpc' = "open" /\ SvcTo("startup") /\ UNCHANGED sfaults
     \/ ConnectFails /\ UNCHANGED rpc
  /\ UNCHANGED <<sessions, contribs, native, nextSid, generation>>

\* manager.startup
Startup ==
  /\ svc.pc = "startup"
  /\ \/ /\ svc' = [svc EXCEPT !.pc = "open", !.k = 1] /\ generation' = generation + 1
        /\ UNCHANGED sfaults
     \/ ConnectFails /\ UNCHANGED generation
  /\ UNCHANGED <<sessions, contribs, native, nextSid, attempts, rpc, spoiled>>

\* manager.open, and the session in the map; a refused answer may have opened it.
Open ==
  /\ svc.pc = "open" /\ nextSid' = nextSid + 1
  /\ \/ /\ native' = native \cup {nextSid} /\ sessions' = [sessions EXCEPT ![Devices[svc.k]] = nextSid]
        /\ SvcTo("create") /\ UNCHANGED <<spoiled, sfaults>>
     \/ /\ ConnectFails /\ UNCHANGED sessions
        /\ \/ native' = native \cup {nextSid} /\ spoiled' = TRUE
           \/ UNCHANGED <<native, spoiled>>
  /\ UNCHANGED <<contribs, generation, attempts, rpc>>

\* adapter.create, and the contribution in the map; then the next service.
Create ==
  /\ svc.pc = "create"
  /\ \/ /\ contribs' = IF Devices[svc.k] \in ToSet(contribs) THEN contribs
                       ELSE Append(contribs, Devices[svc.k])
        /\ svc' = IF svc.k < Len(Devices) THEN [svc EXCEPT !.pc = "open", !.k = @ + 1]
                  ELSE [svc EXCEPT !.pc = "idle", !.connected = TRUE]
        /\ UNCHANGED sfaults
     \/ ConnectFails /\ UNCHANGED contribs
  /\ UNCHANGED <<sessions, native, nextSid, generation, attempts, rpc, spoiled>>

\* Mutant: the sessions are closed before the contributions are disposed.
DisposeOrderSwapped == <<"sessions", "contributions">>

\* dispose(): contributions first.
DisposeOrder == <<"contributions", "sessions">>
AfterPart(p) == IF DisposeOrder[1] = p THEN DisposeOrder[2] ELSE "client"

Dispose ==
  /\ svc.pc = "idle" /\ rpc # "disposed" /\ attempts > 0 /\ SvcTo(DisposeOrder[1])
  /\ UNCHANGED <<sessions, contribs, native, nextSid, generation, attempts, rpc, spoiled, sfaults>>

\* Contributions in reverse order; one that rejects leaves the rest to nobody.
DisposeContribution ==
  /\ svc.pc = "contributions"
  /\ \/ /\ contribs # <<>> /\ contribs' = Front(contribs) /\ UNCHANGED <<svc, spoiled, sfaults>>
     \/ /\ contribs # <<>> /\ SFault /\ spoiled' = TRUE /\ SvcTo("client") /\ UNCHANGED contribs
     \/ contribs = <<>> /\ SvcTo(AfterPart("contributions")) /\ UNCHANGED <<contribs, spoiled, sfaults>>
  /\ UNCHANGED <<sessions, native, nextSid, generation, attempts, rpc>>

\* manager.close for each session; a rejection leaves the rest open.
CloseSession ==
  /\ svc.pc = "sessions"
  /\ \/ /\ \A d \in DeviceIds : sessions[d] = 0
        /\ SvcTo(AfterPart("sessions")) /\ UNCHANGED <<sessions, native, spoiled, sfaults>>
     \/ \E d \in DeviceIds :
          /\ sessions[d] # 0
          /\ \/ /\ native' = native \ {sessions[d]} /\ sessions' = [sessions EXCEPT ![d] = 0]
                /\ UNCHANGED <<svc, spoiled, sfaults>>
             \/ /\ SFault /\ spoiled' = TRUE /\ SvcTo("client") /\ UNCHANGED <<sessions, native>>
  /\ UNCHANGED <<contribs, nextSid, generation, attempts, rpc>>

\* finally: the client is disposed.
DisposeClient ==
  /\ svc.pc = "client" /\ rpc' = "disposed"
  /\ svc' = [svc EXCEPT !.pc = "disposed", !.connected = FALSE]
  /\ UNCHANGED <<sessions, contribs, native, nextSid, generation, attempts, spoiled, sfaults>>

ServiceStep ==
  \/ Startup \/ Open \/ Create \/ DisposeContribution \/ CloseSession \/ DisposeClient
ServiceNext == Connect \/ Dispose \/ ServiceStep

ServiceSpec == ServiceInit /\ [][ServiceNext]_serviceVars

\* Native calls answer or time out.
ServiceFairness == WF_serviceVars(ServiceStep)

-----------------------------------------------------------------------------
(* Properties *)

\* Maps and counters have their types; a connected service has a session and a
\* contribution for every device.
ServiceTypeOK ==
  /\ svc.pc \in ServicePcs /\ svc.k \in 0..Len(Devices) /\ native \subseteq 1..(nextSid - 1)
  /\ (svc.connected /\ svc.pc = "idle") =>
       ToSet(contribs) = DeviceIds /\ \A d \in DeviceIds : sessions[d] \in native

\* connect, dispose: a contribution that is not disposed has an open native
\* session, so that its port never speaks to a closed one.
ContributionHasSession == \A d \in ToSet(contribs) : sessions[d] \in native

\* dispose: after one connect(), successful or failed at any step, a dispose
\* without rejections leaves no native session open.
CleanDispose == (svc.pc = "disposed" /\ ~spoiled) => native = {}

\* Every connect() and every dispose() ends, and dispose() with the client.
ServiceSettles == []<>(svc.pc \in {"idle", "disposed"})

\* XfsDeviceService: a native session lives as long as the contribution that uses
\* it, and not after dispose().
SessionsAreOwned == ServiceTypeOK /\ ContributionHasSession /\ CleanDispose
=============================================================================
