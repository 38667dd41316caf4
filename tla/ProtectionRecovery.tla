------------------------- MODULE ProtectionRecovery -------------------------
(***************************************************************************)
(* ProtectionRecoveryStartupBarrier and its store (xfs-device-service): at  *)
(* startup the journal of what the native host did with the cash while its  *)
(* owner was away is imported, projected, reconciled and acknowledged, one  *)
(* resource group after the other.  The host protects and restarts on its   *)
(* own; a call may reject, with or without effect, and the process may      *)
(* crash at any await.  The optional policies that acknowledge without the  *)
(* host are off, which is their default.                                    *)
(***************************************************************************)
EXTENDS Naturals, Sequences, FiniteSets

CONSTANTS
  Groups,       \* resource groups, as a sequence
  Operations,   \* operations the host may protect
  NoOperation,  \* no operation id
  Projections,  \* projection ports
  MaxEpoch,     \* bound: host epochs
  MaxRuns,      \* bound: calls of recover()
  MaxPFaults    \* bound: rejected calls and crashes

\* The constructor refuses an empty list of groups.
ASSUME ProtectionAssumption ==
  /\ NoOperation \notin Operations /\ MaxEpoch \in Nat \ {0}
  /\ Len(Groups) \in Nat \ {0}

VARIABLES
  epoch,       \* the host's epoch
  prot,        \* [group -> [state, op, outcome]]: the host's protection status
  journal,     \* [Operations -> set of journal records]
  acked,       \* history: operations acknowledged at the host
  cases,       \* [<<epoch, group, op>> -> state], durable
  imported,    \* imported records, durable
  projected,   \* projected records, durable
  reconciled,  \* classifications the application has reconciled, durable
  run,         \* the running recover()
  result,      \* the last answer of recover()
  runs, pfaults

hostSide == <<epoch, prot, journal, acked>>
stored == <<cases, imported, projected, reconciled>>
protVars == <<hostSide, stored, run, result, runs, pfaults>>

GroupIds == {Groups[k] : k \in 1..Len(Groups)}
CaseIds == (1..MaxEpoch) \X GroupIds \X Operations
CaseStates == {"absent", "observed", "ackPending", "acknowledged", "intervention"}
IdleStatus == [state |-> "idle", op |-> NoOperation, outcome |-> "none"]
NoCase == <<0, "none", NoOperation>>
NoRun == [pc |-> "idle", epoch |-> 0, k |-> 0, st |-> IdleStatus, recs |-> {}, found |-> {},
          case |-> NoCase]

ProtInit ==
  /\ epoch = 1 /\ prot = [g \in GroupIds |-> IdleStatus]
  /\ journal = [o \in Operations |-> {}] /\ acked = {}
  /\ cases = [c \in CaseIds |-> "absent"]
  /\ imported = {} /\ projected = {} /\ reconciled = {}
  /\ run = NoRun /\ result = "none" /\ runs = 0 /\ pfaults = 0

PFault == pfaults < MaxPFaults /\ pfaults' = pfaults + 1

-----------------------------------------------------------------------------
(* The native host *)

\* The host takes over the cash of an operation whose owner was lost.
HostProtects(g, o) ==
  /\ prot[g].state = "idle" /\ journal[o] = {}
  /\ prot' = [prot EXCEPT ![g] = [state |-> "protecting", op |-> o, outcome |-> "none"]]
  /\ journal' = [journal EXCEPT ![o] = {"intent"}]
  /\ UNCHANGED <<epoch, acked, stored, run, result, runs, pfaults>>

\* Its protective action ends; the journal is complete.
HostResolves(g, v) ==
  /\ prot[g].state = "protecting" /\ prot[g].outcome = "none"
  /\ prot' = [prot EXCEPT ![g].outcome = v]
  /\ journal' = [journal EXCEPT ![prot[g].op] = @ \cup {"completed"}]
  /\ UNCHANGED <<epoch, acked, stored, run, result, runs, pfaults>>

\* A restart begins a new epoch; the status of a group may be lost.
HostRestarts(lost) ==
  /\ epoch < MaxEpoch /\ epoch' = epoch + 1
  /\ prot' = [g \in GroupIds |-> IF g \in lost THEN IdleStatus ELSE prot[g]]
  /\ UNCHANGED <<journal, acked, stored, run, result, runs, pfaults>>

-----------------------------------------------------------------------------
(* recover() *)

ThisGroup == Groups[run.k]
OpenCases(g) == {c \in CaseIds : c[2] = g /\ cases[c] \notin {"absent", "acknowledged"}}
RunAt(l) == run.pc = l
This == <<run.epoch, ThisGroup, run.st.op>>

\* classify()
Classify(st) ==
  IF st.outcome = "custodyUnknown" THEN "intervention"
  ELSE IF st.outcome = "none" THEN "recovering" ELSE "terminal"

\* The answer of recover() from what was found in the groups.
Summary(found) ==
  IF "intervention" \in found THEN "intervention"
  ELSE IF found \cap {"recovering", "failed"} # {} THEN "recovering" ELSE "ready"

\* The group is done; the next one follows.
GroupDone(c) ==
  LET found == run.found \cup {c}
  IN IF run.k < Len(Groups)
     THEN run' = [NoRun EXCEPT !.pc = "status", !.epoch = run.epoch, !.k = run.k + 1, !.found = found]
          /\ UNCHANGED result
     ELSE run' = NoRun /\ result' = Summary(found)
RunStep(l) == run' = [run EXCEPT !.pc = l] /\ UNCHANGED result

\* getHostEpoch(): a host that is not reached is recovering.
Recover ==
  /\ RunAt("idle") /\ runs < MaxRuns /\ runs' = runs + 1
  /\ \/ run' = [NoRun EXCEPT !.pc = "status", !.epoch = epoch, !.k = 1] /\ result' = "none"
        /\ UNCHANGED pfaults
     \/ PFault /\ result' = "recovering" /\ UNCHANGED run
  /\ UNCHANGED <<hostSide, stored>>

\* A case becomes an intervention; the application is told next.
MarkThenTell(c) ==
  /\ cases' = [cases EXCEPT ![c] = "intervention"]
  /\ run' = [run EXCEPT !.pc = "tell", !.case = c] /\ UNCHANGED result

\* Any call of recoverGroup() may reject: the group failed.
GroupFails ==
  /\ ~RunAt("idle") /\ PFault /\ GroupDone("failed")
  /\ UNCHANGED <<hostSide, stored, runs>>

\* reconcileIdle(): only a pending acknowledgement of this epoch is closed by
\* an idle host; any other open case becomes an intervention.
ReconcileIdle(open) ==
  \/ open = {} /\ GroupDone("ready") /\ UNCHANGED cases
  \/ \E c \in open :
       IF c[1] = run.epoch /\ cases[c] = "ackPending"
       THEN cases' = [cases EXCEPT ![c] = "acknowledged"] /\ GroupDone("ready")
       ELSE MarkThenTell(c)

\* protectionStatus() and getOpenCase(): an open case of another epoch or of
\* another operation stops the group, unless its acknowledgement was pending.
ReadStatus ==
  /\ RunAt("status")
  /\ LET st == prot[ThisGroup]
         open == OpenCases(ThisGroup)
     IN \/ st.state = "idle" /\ ReconcileIdle(open)
        \/ /\ st.state # "idle"
           /\ \/ /\ \A c \in open : c[1] = run.epoch /\ c[3] = st.op
                 /\ run' = [run EXCEPT !.pc = "journal", !.st = st]
                 /\ UNCHANGED <<result, cases>>
              \/ \E c \in open :
                   /\ c[1] # run.epoch \/ c[3] # st.op
                   /\ IF c[1] = run.epoch /\ cases[c] = "ackPending"
                      THEN /\ cases' = [cases EXCEPT ![c] = "acknowledged"]
                           /\ run' = [run EXCEPT !.pc = "journal", !.st = st]
                           /\ UNCHANGED result
                      ELSE /\ cases' = [cases EXCEPT ![c] = "intervention"]
                           /\ GroupDone("intervention")
  /\ UNCHANGED <<hostSide, imported, projected, reconciled, runs, pfaults>>

\* protectionJournal(): the records of the operation; missing or foreign ones
\* make it an intervention.
ReadJournal ==
  /\ RunAt("journal")
  /\ \/ run' = [run EXCEPT !.pc = "ingest", !.recs = journal[run.st.op]] /\ UNCHANGED pfaults
     \/ /\ PFault
        /\ \E recs \in SUBSET journal[run.st.op] :
             run' = [run EXCEPT !.pc = "ingest", !.recs = recs, !.st.outcome = "custodyUnknown"]
  /\ UNCHANGED <<hostSide, stored, result, runs>>

\* ingest(): the case and its records, in one transaction; a case that exists
\* keeps its state.
Ingest ==
  /\ RunAt("ingest")
  /\ imported' = imported \cup {<<This, r>> : r \in run.recs}
  /\ cases' = [cases EXCEPT ![This] = IF @ = "absent" THEN "observed" ELSE @]
  /\ RunStep(IF run.recs = {} THEN "missing" ELSE "project")
  /\ UNCHANGED <<hostSide, projected, reconciled, runs, pfaults>>

\* No record: markIntervention().
JournalMissing ==
  /\ RunAt("missing") /\ MarkThenTell(This)
  /\ UNCHANGED <<hostSide, imported, projected, reconciled, runs, pfaults>>

\* reconcileApplication("intervention")
TellIntervention ==
  /\ RunAt("tell") /\ reconciled' = reconciled \cup {<<run.case, "intervention">>}
  /\ GroupDone("intervention")
  /\ UNCHANGED <<hostSide, cases, imported, projected, runs, pfaults>>

\* Mutant: the first projection port speaks for all of them.
ToProjectOne ==
  {t \in {<<i, p>> : i \in {x \in imported : x[1] = This}, p \in Projections} :
     t \notin projected /\ \A q \in Projections : <<t[1], q>> \notin projected}

\* Imported records a projection has not seen.
ToProject ==
  {t \in {<<i, p>> : i \in {x \in imported : x[1] = This}, p \in Projections} : t \notin projected}

\* project(): every record goes to every projection and is marked.
ProjectRecord ==
  /\ RunAt("project")
  /\ \/ \E t \in ToProject : projected' = projected \cup {t} /\ UNCHANGED <<run, result>>
     \/ ToProject = {} /\ UNCHANGED projected /\ RunStep("reconcile")
  /\ UNCHANGED <<hostSide, cases, imported, reconciled, runs, pfaults>>

\* reconcileApplication()
Reconcile ==
  /\ RunAt("reconcile")
  /\ reconciled' = reconciled \cup {<<This, Classify(run.st)>>}
  /\ RunStep("mark")
  /\ UNCHANGED <<hostSide, cases, imported, projected, runs, pfaults>>

\* markIntervention() or markAckPending(), as the classification asks.
MarkCase ==
  /\ RunAt("mark")
  /\ LET cls == Classify(run.st)
     IN CASE cls = "intervention" ->
               cases' = [cases EXCEPT ![This] = "intervention"] /\ GroupDone(cls)
          [] cls = "recovering" -> UNCHANGED cases /\ GroupDone(cls)
          [] OTHER -> cases' = [cases EXCEPT ![This] = "ackPending"] /\ RunStep("acknowledge")
  /\ UNCHANGED <<hostSide, imported, projected, reconciled, runs, pfaults>>

\* acknowledgeProtection(): the host forgets the operation; a rejected call may
\* have reached it, and one of another epoch is refused.
Acknowledge ==
  /\ RunAt("acknowledge")
  /\ LET o == run.st.op
         done == /\ prot' = [prot EXCEPT ![ThisGroup] = IdleStatus]
                 /\ acked' = acked \cup {o} /\ UNCHANGED <<epoch, journal>>
     IN \/ epoch = run.epoch /\ prot[ThisGroup].op = o /\ done /\ RunStep("close") /\ UNCHANGED pfaults
        \/ epoch = run.epoch /\ prot[ThisGroup].op = o /\ PFault /\ done /\ GroupDone("failed")
        \/ /\ epoch # run.epoch \/ prot[ThisGroup].op # o
           /\ GroupDone("failed") /\ UNCHANGED <<hostSide, pfaults>>
  /\ UNCHANGED <<stored, runs>>

CloseCase ==
  /\ RunAt("close")
  /\ cases' = [cases EXCEPT ![This] = "acknowledged"] /\ GroupDone("ready")
  /\ UNCHANGED <<hostSide, imported, projected, reconciled, runs, pfaults>>

\* The process dies during recovery.
CrashRecovery ==
  /\ ~RunAt("idle") /\ PFault /\ run' = NoRun /\ result' = "none"
  /\ UNCHANGED <<hostSide, stored, runs>>

BarrierStep ==
  \/ ReadStatus \/ ReadJournal \/ Ingest \/ JournalMissing \/ TellIntervention
  \/ ProjectRecord \/ Reconcile \/ MarkCase \/ Acknowledge \/ CloseCase

ProtNext ==
  \/ Recover \/ BarrierStep \/ GroupFails \/ CrashRecovery
  \/ \E g \in GroupIds : \/ \E o \in Operations : HostProtects(g, o)
                         \/ \E v \in {"retracted", "custodyUnknown"} : HostResolves(g, v)
  \/ \E lost \in SUBSET GroupIds : HostRestarts(lost)

ProtSpec == ProtInit /\ [][ProtNext]_protVars

\* Host and store answer or reject; both have timeouts.
ProtFairness == WF_protVars(BarrierStep)

-----------------------------------------------------------------------------
(* Properties *)

\* Cases and the running recovery have their types; a group has at most one
\* open case, as the unique index of the store demands.
ProtTypeOK ==
  /\ \A c \in CaseIds : cases[c] \in CaseStates
  /\ run.k \in 0..Len(Groups) /\ result \in {"none", "ready", "recovering", "intervention"}
  /\ \A g \in GroupIds : Cardinality(OpenCases(g)) <= 1

\* recoverGroup: the host forgets an operation only after every record of its
\* complete journal was imported and seen by every projection, and the
\* application was told the terminal outcome.
AcknowledgedIsImported ==
  \A o \in acked : \E c \in CaseIds :
    /\ c[3] = o /\ <<c, "terminal">> \in reconciled
    /\ \A r \in journal[o], p \in Projections :
         <<c, r>> \in imported /\ <<<<c, r>>, p>> \in projected

\* recover: ready means that no group is left with an open case, whatever
\* rejected on the way.
ReadyIsClosed == result = "ready" => \A g \in GroupIds : OpenCases(g) = {}

\* A recovery ends, so that startup does.
RecoveryEnds == []<>(run.pc = "idle")

\* ProtectionRecoveryBarrier: nothing that the host protects is forgotten before
\* it was imported, and startup is not told otherwise.
ProtectionIsImported == ProtTypeOK /\ AcknowledgedIsImported /\ ReadyIsClosed
=============================================================================
