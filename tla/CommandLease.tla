---------------------------- MODULE CommandLease ----------------------------
(***************************************************************************)
(* HostCommandLeaseExecutor (xfs-device-service): device commands of one    *)
(* logical service run one after the other under a lease of the native      *)
(* host, which is acquired for the command unless this process already      *)
(* holds one.  Other processes and the sessions of this process take leases *)
(* as well, and a lease expires.                                            *)
(***************************************************************************)
EXTENDS Naturals, Sequences, SequencesExt

CONSTANTS
  Commands,    \* calls of run()
  ServiceOf,   \* [Commands -> logical service]
  MaxLFaults   \* bound: rejected calls, expired leases and leases of others

VARIABLES
  cmd,       \* [Commands -> [pc, token, ret]]
  queue,     \* queues: per service, the calls that are chained
  asked,     \* history: per service, the order of the calls
  started,   \* history: per service, the order in which commands began
  lease,     \* the host: per service [owner, token]
  tokens,    \* the host's last fencing token
  client,    \* resolveClient() answers a client
  leaked,    \* history: services of which a lease may be left behind
  lfaults

leaseVars == <<cmd, queue, asked, started, lease, tokens, client, leaked, lfaults>>
hostLease == <<lease, tokens, leaked>>

LeaseServices == {ServiceOf[c] : c \in Commands}
NoLease == [owner |-> "none", token |-> 0]
Own(s) == lease[s].owner \in {"executor", "session"}
CommandPcs == {"new", "queued", "status", "acquire", "command", "release", "ended"}

LeaseInit ==
  /\ cmd = [c \in Commands |-> [pc |-> "new", token |-> 0, ret |-> "none"]]
  /\ queue = [s \in LeaseServices |-> <<>>] /\ asked = queue /\ started = queue
  /\ lease = [s \in LeaseServices |-> NoLease] /\ tokens = 0
  /\ client \in BOOLEAN /\ leaked = {} /\ lfaults = 0

LFault == lfaults < MaxLFaults /\ lfaults' = lfaults + 1
CmdAt(c, l) == cmd[c].pc = l
CmdTo(c, l) == cmd' = [cmd EXCEPT ![c].pc = l]

\* A call settles after the ones before it, and makes way for the next.
Unchain(q, c) == IF q # <<>> /\ Head(q) = c THEN Tail(q) ELSE q

\* Mutant: a rejected call keeps its place in the chain.
EndsStuck(c, r) ==
  /\ cmd' = [cmd EXCEPT ![c] = [pc |-> "ended", token |-> 0, ret |-> r]]
  /\ queue' = IF r = "error" THEN queue
              ELSE [queue EXCEPT ![ServiceOf[c]] = Unchain(@, c)]

\* The call settles; whatever its result, the next one of the chain may go on.
Ends(c, r) ==
  /\ cmd' = [cmd EXCEPT ![c] = [pc |-> "ended", token |-> 0, ret |-> r]]
  /\ queue' = [queue EXCEPT ![ServiceOf[c]] = Unchain(@, c)]

Starts(c) == started' = [started EXCEPT ![ServiceOf[c]] = Append(@, c)]

\* run(): without a client the command begins at once, otherwise it is chained.
RunCommand(c) ==
  /\ CmdAt(c, "new") /\ asked' = [asked EXCEPT ![ServiceOf[c]] = Append(@, c)]
  /\ IF client THEN CmdTo(c, "queued") /\ queue' = [queue EXCEPT ![ServiceOf[c]] = Append(@, c)]
                    /\ UNCHANGED started
     ELSE CmdTo(c, "command") /\ Starts(c) /\ UNCHANGED queue
  /\ UNCHANGED <<hostLease, client, lfaults>>

\* previous.then(): the calls before it in the chain have settled.
First(c) == Head(queue[ServiceOf[c]]) = c

ChainReaches(c) ==
  /\ CmdAt(c, "queued") /\ First(c) /\ CmdTo(c, "status")
  /\ UNCHANGED <<queue, asked, started, hostLease, client, lfaults>>

\* status(): a lease of this process serves the command.
ReadLease(c) ==
  /\ CmdAt(c, "status")
  /\ \/ /\ IF Own(ServiceOf[c]) THEN CmdTo(c, "command") /\ Starts(c)
           ELSE CmdTo(c, "acquire") /\ UNCHANGED started
        /\ UNCHANGED <<queue, lfaults>>
     \/ LFault /\ Ends(c, "error") /\ UNCHANGED started
  /\ UNCHANGED <<asked, hostLease, client>>

\* acquireNext(): refused while the lease is held; an answer may be lost.
AcquireLease(c) ==
  /\ CmdAt(c, "acquire")
  /\ LET s == ServiceOf[c]
         granted == /\ lease[s] = NoLease /\ tokens' = tokens + 1
                    /\ lease' = [lease EXCEPT ![s] = [owner |-> "executor", token |-> tokens + 1]]
     IN \/ /\ granted /\ cmd' = [cmd EXCEPT ![c].pc = "command", ![c].token = tokens + 1]
           /\ Starts(c) /\ UNCHANGED <<queue, leaked, lfaults>>
        \/ granted /\ LFault /\ leaked' = leaked \cup {s} /\ Ends(c, "error") /\ UNCHANGED started
        \/ lease[s] # NoLease /\ Ends(c, "error") /\ UNCHANGED <<started, hostLease, lfaults>>
  /\ UNCHANGED <<asked, client>>

\* Mutant: the lease is released only when the command succeeded.
AfterCommandHappy(c, r) == IF cmd[c].token > 0 /\ r = "ok" THEN "release" ELSE "end"

\* The finally block: a lease acquired for the command is released.
AfterCommand(c, r) == IF cmd[c].token > 0 THEN "release" ELSE "end"

\* The device answers or rejects, at the latest after its timeout.
CommandAnswers(c, r) ==
  /\ CmdAt(c, "command")
  /\ IF AfterCommand(c, r) = "release"
     THEN cmd' = [cmd EXCEPT ![c].pc = "release", ![c].ret = r] /\ UNCHANGED queue
     ELSE Ends(c, r)
  /\ UNCHANGED <<asked, started, hostLease, client, lfaults>>

\* release() names the fencing token: only that lease ends.
Released(c) ==
  IF lease[ServiceOf[c]].token = cmd[c].token THEN [lease EXCEPT ![ServiceOf[c]] = NoLease]
  ELSE lease

\* A release that rejects replaces the result of the command.
ReleaseLease(c) ==
  /\ CmdAt(c, "release")
  /\ \/ lease' = Released(c) /\ Ends(c, cmd[c].ret) /\ UNCHANGED <<leaked, lfaults>>
     \/ /\ LFault /\ lease' \in {lease, Released(c)} /\ Ends(c, "error")
        /\ leaked' = leaked \cup {ServiceOf[c]}
  /\ UNCHANGED <<asked, started, tokens, client>>

ExecutorStep(c) ==
  \/ ChainReaches(c) \/ ReadLease(c) \/ AcquireLease(c) \/ ReleaseLease(c)
  \/ \E r \in {"ok", "error"} : CommandAnswers(c, r)

\* A session of this process or another process takes or returns a lease, and
\* the host ends one that has expired.
OthersLease(s) ==
  /\ \/ /\ lease[s] = NoLease /\ LFault /\ tokens' = tokens + 1
        /\ \E o \in {"session", "other"} : lease' = [lease EXCEPT ![s] = [owner |-> o, token |-> tokens + 1]]
     \/ /\ lease[s].owner \in {"session", "other"}
        /\ lease' = [lease EXCEPT ![s] = NoLease] /\ UNCHANGED <<tokens, lfaults>>
     \/ /\ lease[s].owner = "executor" /\ LFault
        /\ lease' = [lease EXCEPT ![s] = NoLease] /\ UNCHANGED tokens
  /\ UNCHANGED <<cmd, queue, asked, started, client, leaked>>

LeaseNext ==
  \/ \E c \in Commands : RunCommand(c) \/ ExecutorStep(c)
  \/ \E s \in LeaseServices : OthersLease(s)

LeaseSpec == LeaseInit /\ [][LeaseNext]_leaseVars

\* Devices and host answer or time out.
LeaseFairness == \A c \in Commands : WF_leaseVars(ExecutorStep(c))

-----------------------------------------------------------------------------
(* Properties *)

\* Calls have their states, and exactly the calls that have not settled are
\* chained.
LeaseTypeOK ==
  /\ \A c \in Commands : cmd[c].pc \in CommandPcs /\ cmd[c].token \in 0..tokens
  /\ client => \A s \in LeaseServices :
       ToSet(queue[s]) = {c \in Commands : ServiceOf[c] = s /\ cmd[c].pc \notin {"new", "ended"}}

\* queues: with a client, no two commands are at a service at the same time, and
\* they reach it in the order of the calls, whatever failed before them.
SerialInOrder ==
  client => \A s \in LeaseServices :
    /\ \A c, d \in Commands :
         (ServiceOf[c] = s /\ ServiceOf[d] = s /\ CmdAt(c, "command") /\ CmdAt(d, "command")) => c = d
    /\ \A i, j \in 1..Len(started[s]) : i < j =>
         \E k, l \in 1..Len(asked[s]) : k < l /\ asked[s][k] = started[s][i] /\ asked[s][l] = started[s][j]

\* executeWithLease: when no call is left, no lease of the executor is, unless
\* the host's answer to acquire or release was lost.
LeaseIsReturned ==
  \A s \in LeaseServices : (queue[s] = <<>> /\ lease[s].owner = "executor") => s \in leaked

\* Every call settles: neither a failed command nor a refused lease blocks the
\* ones behind it.
EveryCallSettles == []<>(\A c \in Commands : cmd[c].pc \in {"new", "ended"})

\* CommandLeaseExecutor: a service executes one command after the other, in order,
\* and is given back.
LeaseIsSerial == LeaseTypeOK /\ SerialInOrder /\ LeaseIsReturned
=============================================================================
