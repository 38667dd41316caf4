------------------------------ MODULE XfsProofs ------------------------------
(***************************************************************************)
(* Proofs about the XFS device service: the protection recovery barrier,    *)
(* the PIN pad, the sessions of the device service, and the executor of     *)
(* leased commands, for any number of resource groups, operations, inputs,  *)
(* devices and commands and any number of faults.                           *)
(***************************************************************************)
EXTENDS ProtectionRecovery, CommandLease, DeviceService, PinPad, FiniteSetTheorems, TLAPS

-----------------------------------------------------------------------------
(* Protection recovery.                                                    *)

Records == {"intent", "completed"}
Protections ==
  [state : {"idle", "protecting"}, op : Operations \cup {NoOperation},
   outcome : {"none", "retracted", "custodyUnknown"}]
RunPcs ==
  {"idle", "status", "journal", "ingest", "missing", "tell", "project", "reconcile", "mark",
   "acknowledge", "close"}
Found == {"ready", "recovering", "failed", "intervention"}
Runs ==
  [pc : RunPcs, epoch : 0..MaxEpoch, k : 0..Len(Groups), st : Protections, recs : SUBSET Records,
   found : SUBSET Found, case : CaseIds \cup {NoCase}]

ProtTypes ==
  /\ epoch \in 1..MaxEpoch /\ prot \in [GroupIds -> Protections]
  /\ journal \in [Operations -> SUBSET Records] /\ acked \subseteq Operations
  /\ cases \in [CaseIds -> CaseStates] /\ run \in Runs
  /\ result \in {"none", "ready", "recovering", "intervention"}

IsOpen(c) == cases[c] \notin {"absent", "acknowledged"}

\* What the host protects is in its journal, and completely once it is over.
HostInv ==
  \A g \in GroupIds : prot[g].state = "protecting" =>
    /\ prot[g].op \in Operations /\ "intent" \in journal[prot[g].op]
    /\ prot[g].outcome # "none" => "completed" \in journal[prot[g].op]

\* A group has one open case.
CaseInv == \A c, d \in CaseIds : IsOpen(c) /\ IsOpen(d) /\ c[2] = d[2] => c = d

Active == run.pc # "idle"
\* The run works on the operation that it read from the host.
Reading == run.pc \in {"journal", "ingest", "missing", "project", "reconcile", "mark",
                       "acknowledge", "close"}

RunInv ==
  /\ Active => run.k \in 1..Len(Groups) /\ run.epoch \in 1..MaxEpoch /\ result = "none"
  /\ run.pc = "tell" => run.case \in CaseIds
  /\ Reading => /\ run.st.op \in Operations
                /\ \A c \in CaseIds : IsOpen(c) /\ c[2] = ThisGroup => c = This
                /\ run.st.outcome = "retracted" => journal[run.st.op] = Records
  /\ (Reading /\ run.pc # "journal" /\ run.st.outcome = "retracted") => run.recs = Records
  /\ run.pc \in {"project", "reconcile", "mark", "acknowledge", "close"} =>
       \A r \in run.recs : <<This, r>> \in imported
  /\ run.pc \in {"reconcile", "mark", "acknowledge", "close"} =>
       \A r \in run.recs, p \in Projections : <<<<This, r>>, p>> \in projected
  /\ run.pc \in {"mark", "acknowledge", "close"} => <<This, Classify(run.st)>> \in reconciled
  /\ run.pc \in {"acknowledge", "close"} => run.st.outcome = "retracted"

\* What the host has forgotten was complete, imported and projected.
AckInv ==
  \A o \in acked :
    /\ journal[o] = Records
    /\ \E c \in CaseIds :
         /\ c[3] = o /\ <<c, "terminal">> \in reconciled
         /\ \A r \in Records, p \in Projections :
              <<c, r>> \in imported /\ <<<<c, r>>, p>> \in projected

\* The groups that a run has left behind as ready have no open case.
ReadyInv ==
  /\ (Active /\ run.found \subseteq {"ready"}) =>
       \A c \in CaseIds, j \in 1..(run.k - 1) :
         (IsOpen(c) /\ c[2] = Groups[j]) => c[2] = ThisGroup
  /\ result = "ready" => \A c \in CaseIds : ~IsOpen(c)

ProtInv == ProtTypes /\ HostInv /\ CaseInv /\ RunInv /\ AckInv /\ ReadyInv

\* No run and no protection.
LEMMA NoRunFacts ==
  /\ NoRun \in Runs /\ NoRun.pc = "idle" /\ IdleStatus \in Protections
  /\ IdleStatus.state = "idle"
BY ProtectionAssumption DEF NoRun, Runs, RunPcs, Protections, IdleStatus

\* The run goes on with the same group.
SameGroup == run' \in Runs /\ run'.epoch = run.epoch /\ run'.k = run.k /\ run'.found = run.found
SameRun == SameGroup /\ run'.st = run.st /\ run'.recs = run.recs

\* A step inside a group only moves the run to its next await.
LEMMA RunStepFacts ==
  ASSUME run \in Runs, NEW l \in RunPcs, RunStep(l)
  PROVE  SameRun /\ run'.pc = l /\ result' = result
BY DEF RunStep, Runs, SameRun, SameGroup

\* The group is done: the next one follows, or the answer.
LEMMA GroupDoneFacts ==
  ASSUME run \in Runs, run.k \in 1..Len(Groups), NEW c \in Found, GroupDone(c)
  PROVE  /\ run' \in Runs
         /\ \/ /\ run.k < Len(Groups) /\ run'.pc = "status" /\ run'.epoch = run.epoch
               /\ run'.k = run.k + 1 /\ run'.found = run.found \cup {c} /\ result' = result
            \/ /\ run.k = Len(Groups) /\ run'.pc = "idle"
               /\ result' = Summary(run.found \cup {c})
<1> DEFINE n == [NoRun EXCEPT !.pc = "status", !.epoch = run.epoch, !.k = run.k + 1,
                              !.found = run.found \cup {c}]
<1>1. CASE run.k < Len(Groups)
  <2>1. run' = n /\ result' = result
    BY <1>1 DEF GroupDone
  <2>2. run.epoch \in 0..MaxEpoch /\ run.k + 1 \in 0..Len(Groups) /\ run.found \cup {c} \in SUBSET Found
    BY <1>1, ProtectionAssumption DEF Runs
  <2>3. "status" \in RunPcs
    BY DEF RunPcs
  <2>4. n \in Runs
    BY <2>2, <2>3, NoRunFacts DEF Runs
  <2>5. n.pc = "status" /\ n.epoch = run.epoch /\ n.k = run.k + 1 /\ n.found = run.found \cup {c}
    BY DEF NoRun
  <2> QED
    BY <1>1, <2>1, <2>4, <2>5
<1>2. CASE run.k = Len(Groups)
  BY <1>2, NoRunFacts, ProtectionAssumption DEF GroupDone
<1> QED
  BY <1>1, <1>2, ProtectionAssumption

\* The barrier answers ready only when every group was ready.
LEMMA SummaryFacts ==
  ASSUME NEW f \in SUBSET Found
  PROVE  /\ Summary(f) \in {"ready", "recovering", "intervention"}
         /\ Summary(f) = "ready" => f \subseteq {"ready"}
BY DEF Summary, Found

\* A group that is done as ready has no open case left.
LEMMA DoneInv ==
  ASSUME ProtInv, Active, NEW c \in Found, GroupDone(c),
         \A d \in CaseIds : d[2] # ThisGroup => cases'[d] = cases[d],
         c = "ready" => \A d \in CaseIds : d[2] = ThisGroup => ~IsOpen(d)'
  PROVE  /\ run' \in Runs /\ result' \in {"none", "ready", "recovering", "intervention"}
         /\ RunInv' /\ ReadyInv'
<1>1. /\ run \in Runs /\ run.k \in 1..Len(Groups) /\ run.epoch \in 1..MaxEpoch /\ result = "none"
      /\ run.found \in SUBSET Found /\ run.found \cup {c} \in SUBSET Found
  BY DEF ProtInv, ProtTypes, RunInv, Runs
<1>2. ASSUME run.found \cup {c} \subseteq {"ready"}, NEW d \in CaseIds, NEW j \in 1..run.k,
             d[2] = Groups[j]
      PROVE  ~IsOpen(d)'
  <2>1. CASE d[2] = ThisGroup
    BY <1>2, <2>1
  <2>2. CASE d[2] # ThisGroup
    <3>1. j \in 1..(run.k - 1)
      BY <1>1, <1>2, <2>2, ProtectionAssumption DEF ThisGroup
    <3>2. ~IsOpen(d)
      BY <1>2, <2>2, <3>1 DEF ProtInv, ReadyInv
    <3> QED
      BY <2>2, <3>2 DEF IsOpen
  <2> QED
    BY <2>1, <2>2
<1>3. CASE /\ run.k < Len(Groups) /\ run'.pc = "status" /\ run'.epoch = run.epoch
           /\ run'.k = run.k + 1 /\ run'.found = run.found \cup {c} /\ result' = result /\ run' \in Runs
  <2>1. RunInv'
    BY <1>1, <1>3, ProtectionAssumption DEF RunInv, Active, Reading
  <2>2. run'.k - 1 = run.k
    BY <1>1, <1>3, ProtectionAssumption
  <2>3. ReadyInv'
    BY <1>1, <1>2, <1>3, <2>2 DEF ReadyInv
  <2> QED
    BY <1>1, <1>3, <2>1, <2>3
<1>4. CASE /\ run.k = Len(Groups) /\ run'.pc = "idle" /\ run' \in Runs
           /\ result' = Summary(run.found \cup {c})
  <2>1. RunInv'
    BY <1>4 DEF RunInv, Active, Reading
  <2>2. ASSUME NEW d \in CaseIds PROVE \E j \in 1..run.k : d[2] = Groups[j]
    BY <1>4 DEF CaseIds, GroupIds
  <2>3. ReadyInv'
    BY <1>1, <1>2, <1>4, <2>2, SummaryFacts DEF ReadyInv, Active
  <2> QED
    BY <1>1, <1>4, <2>1, <2>3, SummaryFacts
<1> QED
  BY <1>1, <1>3, <1>4, GroupDoneFacts

\* One case changes.
LEMMA OneCaseFacts ==
  ASSUME cases \in [CaseIds -> CaseStates], NEW c \in CaseIds, NEW v \in CaseStates,
         cases' = [cases EXCEPT ![c] = v]
  PROVE  /\ cases' \in [CaseIds -> CaseStates] /\ cases'[c] = v
         /\ \A d \in CaseIds : d # c => cases'[d] = cases[d]
OBVIOUS

\* A case that is closed, or that is its group's only one, may change.
LEMMA OneCaseInv ==
  ASSUME ProtTypes, CaseInv, NEW c \in CaseIds, NEW v \in CaseStates,
         cases' = [cases EXCEPT ![c] = v],
         v = "acknowledged" \/ \A d \in CaseIds : IsOpen(d) /\ d[2] = c[2] => d = c
  PROVE  CaseInv'
BY OneCaseFacts DEF ProtTypes, CaseInv, IsOpen

\* Nothing imported, projected or reconciled is lost.
LEMMA AckKept ==
  ASSUME AckInv, journal' = journal, acked' = acked, imported \subseteq imported',
         projected \subseteq projected', reconciled \subseteq reconciled'
  PROVE  AckInv'
<1> SUFFICES ASSUME NEW o \in acked
             PROVE  /\ journal[o] = Records
                    /\ \E c \in CaseIds :
                         /\ c[3] = o /\ <<c, "terminal">> \in reconciled'
                         /\ \A r \in Records, p \in Projections :
                              <<c, r>> \in imported' /\ <<<<c, r>>, p>> \in projected'
  BY DEF AckInv
<1>1. journal[o] = Records
  BY DEF AckInv
<1>2. PICK c \in CaseIds :
        /\ c[3] = o /\ <<c, "terminal">> \in reconciled
        /\ \A r \in Records, p \in Projections :
             <<c, r>> \in imported /\ <<<<c, r>>, p>> \in projected
  BY DEF AckInv
<1>3. /\ c[3] = o /\ <<c, "terminal">> \in reconciled'
      /\ \A r \in Records, p \in Projections :
           <<c, r>> \in imported' /\ <<<<c, r>>, p>> \in projected'
  BY <1>2
<1> QED
  BY <1>1, <1>3

\* The case of the run.
LEMMA ThisFacts ==
  ASSUME ProtInv, Reading
  PROVE  /\ This \in CaseIds /\ This[2] = ThisGroup /\ This[3] = run.st.op
         /\ ThisGroup \in GroupIds /\ run.st \in Protections /\ run.recs \in SUBSET Records
<1>1. run.k \in 1..Len(Groups) /\ run.epoch \in 1..MaxEpoch /\ run.st.op \in Operations
  BY DEF ProtInv, RunInv, Active, Reading
<1>2. ThisGroup \in GroupIds
  BY <1>1 DEF ThisGroup, GroupIds
<1> QED
  BY <1>1, <1>2 DEF This, CaseIds, ProtInv, ProtTypes, Runs

\* Steps of the host: neither cases nor the run change.
LEMMA HostStepInv ==
  ASSUME ProtInv, UNCHANGED <<cases, imported, projected, reconciled, run, result>>,
         acked' = acked, epoch' \in 1..MaxEpoch, prot' \in [GroupIds -> Protections],
         journal' \in [Operations -> SUBSET Records],
         \A o \in Operations : journal[o] = Records => journal'[o] = Records,
         HostInv'
  PROVE  ProtInv'
<1>1. ProtTypes' /\ CaseInv' /\ ReadyInv'
  BY DEF ProtInv, ProtTypes, CaseInv, ReadyInv, IsOpen, Active, ThisGroup
<1>2. RunInv'
  BY DEF ProtInv, RunInv, Active, Reading, IsOpen, This, ThisGroup, Classify
<1>3. AckInv'
  BY DEF ProtInv, ProtTypes, AckInv
<1> QED
  BY <1>1, <1>2, <1>3 DEF ProtInv

\* The host starts to protect a group: a new journal with its intent.
LEMMA HostProtectsInv ==
  ASSUME ProtInv, NEW g \in GroupIds, NEW o \in Operations, HostProtects(g, o)
  PROVE  ProtInv'
<1> DEFINE p == [state |-> "protecting", op |-> o, outcome |-> "none"]
<1>1. /\ prot' = [prot EXCEPT ![g] = p] /\ journal' = [journal EXCEPT ![o] = {"intent"}]
      /\ journal[o] = {} /\ epoch' = epoch
      /\ UNCHANGED <<cases, imported, projected, reconciled, run, result, acked>>
  BY DEF HostProtects, stored
<1>2. p \in Protections /\ p.state = "protecting" /\ p.op = o /\ p.outcome = "none"
  BY DEF Protections
<1> HIDE DEF p
<1>3. /\ prot' \in [GroupIds -> Protections] /\ journal' \in [Operations -> SUBSET Records]
      /\ prot'[g] = p /\ \A h \in GroupIds \ {g} : prot'[h] = prot[h]
      /\ journal'[o] = {"intent"} /\ \A x \in Operations \ {o} : journal'[x] = journal[x]
  BY <1>1, <1>2 DEF ProtInv, ProtTypes, Records
<1>4. HostInv'
  BY <1>1, <1>2, <1>3 DEF ProtInv, HostInv
<1>5. \A x \in Operations : journal[x] = Records => journal'[x] = Records
  BY <1>1, <1>3 DEF Records
<1> QED
  BY <1>1, <1>3, <1>4, <1>5, HostStepInv DEF ProtInv, ProtTypes

\* The host resolves a protection: its journal becomes complete.
LEMMA HostResolvesInv ==
  ASSUME ProtInv, NEW g \in GroupIds, NEW v \in {"retracted", "custodyUnknown"}, HostResolves(g, v)
  PROVE  ProtInv'
<1> DEFINE o == prot[g].op
           p == [prot[g] EXCEPT !.outcome = v]
<1>1. /\ prot' = [prot EXCEPT ![g] = p] /\ prot[g].state = "protecting"
      /\ journal' = [journal EXCEPT ![o] = @ \cup {"completed"}] /\ epoch' = epoch
      /\ UNCHANGED <<cases, imported, projected, reconciled, run, result, acked>>
  BY DEF HostResolves, stored
<1>2. prot[g] \in Protections /\ o \in Operations /\ "intent" \in journal[o]
  BY <1>1 DEF ProtInv, ProtTypes, HostInv
<1>3. p \in Protections /\ p.state = prot[g].state /\ p.op = o
  BY <1>2 DEF Protections
<1> HIDE DEF p, o
<1>4. /\ prot' \in [GroupIds -> Protections] /\ prot'[g] = p
      /\ \A h \in GroupIds \ {g} : prot'[h] = prot[h]
  BY <1>1, <1>3 DEF ProtInv, ProtTypes
<1>5. /\ journal' \in [Operations -> SUBSET Records]
      /\ journal'[o] = journal[o] \cup {"completed"}
      /\ \A x \in Operations \ {o} : journal'[x] = journal[x]
  BY <1>1, <1>2 DEF ProtInv, ProtTypes, Records
<1>6. \A x \in Operations : journal[x] \subseteq journal'[x]
  BY <1>5
<1>7. HostInv'
  BY <1>2, <1>3, <1>4, <1>5, <1>6 DEF ProtInv, HostInv
<1>8. \A x \in Operations : journal[x] = Records => journal'[x] = Records
  BY <1>5, <1>6
<1> QED
  BY <1>1, <1>4, <1>5, <1>7, <1>8, HostStepInv DEF ProtInv, ProtTypes

\* The host restarts in a new epoch, and may have lost the protections of groups.
LEMMA HostRestartsInv ==
  ASSUME ProtInv, NEW lost \in SUBSET GroupIds, HostRestarts(lost)
  PROVE  ProtInv'
<1>1. /\ epoch' \in 1..MaxEpoch /\ journal' = journal
      /\ UNCHANGED <<cases, imported, projected, reconciled, run, result, acked>>
  BY ProtectionAssumption DEF HostRestarts, stored, ProtInv, ProtTypes
<1>2. prot' \in [GroupIds -> Protections]
  BY NoRunFacts DEF HostRestarts, ProtInv, ProtTypes
<1>3. \A g \in GroupIds : prot'[g] = IdleStatus \/ prot'[g] = prot[g]
  BY DEF HostRestarts
<1>4. HostInv'
  BY <1>1, <1>3, NoRunFacts DEF ProtInv, HostInv
<1> QED
  BY <1>1, <1>2, <1>4, HostStepInv DEF ProtInv, ProtTypes

\* Steps of a run: the host does not move.
LEMMA ReadStepInv ==
  ASSUME ProtInv, UNCHANGED hostSide, imported \subseteq imported', projected \subseteq projected',
         reconciled \subseteq reconciled', cases' \in [CaseIds -> CaseStates], CaseInv',
         run' \in Runs, result' \in {"none", "ready", "recovering", "intervention"},
         RunInv', ReadyInv'
  PROVE  ProtInv'
<1>1. ProtTypes' /\ HostInv'
  BY DEF ProtInv, ProtTypes, HostInv, hostSide
<1>2. AckInv'
  BY AckKept DEF ProtInv, hostSide
<1> QED
  BY <1>1, <1>2 DEF ProtInv

\* recover(): a run starts at the first group, or another one is under way.
LEMMA RecoverInv == ASSUME ProtInv, Recover PROVE ProtInv'
<1> DEFINE n == [NoRun EXCEPT !.pc = "status", !.epoch = epoch, !.k = 1]
<1>1. UNCHANGED <<hostSide, stored>> /\ run.pc = "idle"
  BY DEF Recover, RunAt
<1>2. /\ imported' = imported /\ projected' = projected /\ reconciled' = reconciled
      /\ cases' = cases /\ cases' \in [CaseIds -> CaseStates] /\ CaseInv'
  BY <1>1 DEF stored, ProtInv, ProtTypes, CaseInv, IsOpen
<1>3. CASE run' = n /\ result' = "none"
  <2>1. /\ 1 \in 1..Len(Groups) /\ 1 \in 0..Len(Groups) /\ epoch \in 1..MaxEpoch
        /\ epoch \in 0..MaxEpoch /\ "status" \in RunPcs
    BY ProtectionAssumption DEF RunPcs, ProtInv, ProtTypes
  <2>2. n \in Runs
    BY <2>1, NoRunFacts DEF Runs
  <2>3. n.pc = "status" /\ n.epoch = epoch /\ n.k = 1
    BY DEF NoRun
  <2> HIDE DEF n
  <2>4. RunInv' /\ ReadyInv'
    BY <1>3, <2>1, <2>3, ProtectionAssumption DEF RunInv, ReadyInv, Active, Reading
  <2> QED
    BY <1>1, <1>2, <1>3, <2>2, <2>4, ReadStepInv
<1>4. CASE run' = run /\ result' = "recovering"
  <2>1. RunInv' /\ ReadyInv'
    BY <1>1, <1>4 DEF RunInv, ReadyInv, Active, Reading
  <2>2. run' \in Runs
    BY <1>4 DEF ProtInv, ProtTypes
  <2> QED
    BY <1>1, <1>2, <1>4, <2>1, <2>2, ReadStepInv
<1> QED
  BY <1>3, <1>4 DEF Recover

\* The process of the run is lost; what was stored stays.
LEMMA CrashRecoveryInv == ASSUME ProtInv, CrashRecovery PROVE ProtInv'
<1>1. UNCHANGED <<hostSide, stored>> /\ run' = NoRun /\ result' = "none"
  BY DEF CrashRecovery
<1>2. /\ imported' = imported /\ projected' = projected /\ reconciled' = reconciled
      /\ cases' = cases /\ cases' \in [CaseIds -> CaseStates] /\ CaseInv'
  BY <1>1 DEF stored, ProtInv, ProtTypes, CaseInv, IsOpen
<1>3. RunInv' /\ ReadyInv'
  BY <1>1, NoRunFacts DEF RunInv, ReadyInv, Active, Reading
<1> QED
  BY <1>1, <1>2, <1>3, NoRunFacts, ReadStepInv

\* A group's recovery throws: the group counts as failed and the next follows.
LEMMA GroupFailsInv == ASSUME ProtInv, GroupFails PROVE ProtInv'
<1>1. UNCHANGED <<hostSide, stored>> /\ Active /\ GroupDone("failed")
  BY DEF GroupFails, RunAt, Active
<1>2. /\ imported' = imported /\ projected' = projected /\ reconciled' = reconciled
      /\ cases' = cases /\ cases' \in [CaseIds -> CaseStates] /\ CaseInv'
  BY <1>1 DEF stored, ProtInv, ProtTypes, CaseInv, IsOpen
<1>3. "failed" \in Found
  BY DEF Found
<1>4. /\ run' \in Runs /\ result' \in {"none", "ready", "recovering", "intervention"}
      /\ RunInv' /\ ReadyInv'
  BY <1>1, <1>2, <1>3, DoneInv
<1> QED
  BY <1>1, <1>2, <1>4, ReadStepInv

\* A run that goes on with its group leaves the other groups as they are.
LEMMA SameGroupReady ==
  ASSUME ProtInv, Active, SameGroup, result' = result,
         \A d \in CaseIds : d[2] # ThisGroup => cases'[d] = cases[d]
  PROVE  ReadyInv' /\ result' = "none"
<1>1. result' = "none" /\ ThisGroup' = ThisGroup
  BY DEF ProtInv, RunInv, SameGroup, ThisGroup
<1>2. ASSUME run.found \subseteq {"ready"}, NEW c \in CaseIds, NEW j \in 1..(run.k - 1),
             IsOpen(c)', c[2] = Groups[j], c[2] # ThisGroup
      PROVE  FALSE
  BY <1>2 DEF ProtInv, ReadyInv, IsOpen
<1> QED
  BY <1>1, <1>2 DEF ReadyInv, SameGroup

\* The group's case may be marked as this run finds it.
LEMMA ThisCaseInv ==
  ASSUME ProtInv, Reading,
         \/ cases' = cases
         \/ \E v \in CaseStates : cases' = [cases EXCEPT ![This] = v]
  PROVE  /\ cases' \in [CaseIds -> CaseStates] /\ CaseInv'
         /\ \A d \in CaseIds : d[2] # ThisGroup => cases'[d] = cases[d]
         /\ \A d \in CaseIds : IsOpen(d)' /\ d[2] = ThisGroup => d = This
<1>0. ProtTypes /\ CaseInv /\ \A d \in CaseIds : IsOpen(d) /\ d[2] = ThisGroup => d = This
  BY DEF ProtInv, RunInv
<1>1. CASE cases' = cases
  BY <1>0, <1>1 DEF ProtTypes, CaseInv, IsOpen
<1>2. CASE \E v \in CaseStates : cases' = [cases EXCEPT ![This] = v]
  <2>1. PICK v \in CaseStates : cases' = [cases EXCEPT ![This] = v]
    BY <1>2
  <2>2. This \in CaseIds /\ This[2] = ThisGroup
    BY ThisFacts
  <2> HIDE DEF This
  <2>3. /\ cases' \in [CaseIds -> CaseStates]
        /\ \A d \in CaseIds : d # This => cases'[d] = cases[d]
    BY <1>0, <2>1, <2>2, OneCaseFacts DEF ProtTypes
  <2>4. CaseInv'
    BY <1>0, <2>1, <2>2, OneCaseInv
  <2> QED
    BY <1>0, <2>2, <2>3, <2>4 DEF IsOpen
<1> QED
  BY <1>1, <1>2

\* The only open case of a group becomes an intervention.
LEMMA MarkThenTellInv ==
  ASSUME ProtInv, Active, NEW c \in CaseIds, c[2] = ThisGroup, MarkThenTell(c),
         \A d \in CaseIds : IsOpen(d) /\ d[2] = ThisGroup => d = c
  PROVE  /\ cases' \in [CaseIds -> CaseStates] /\ CaseInv' /\ run' \in Runs
         /\ result' = "none" /\ RunInv' /\ ReadyInv'
<1>1. "intervention" \in CaseStates /\ "tell" \in RunPcs
  BY DEF CaseStates, RunPcs
<1>2. cases' = [cases EXCEPT ![c] = "intervention"] /\ result' = result
  BY DEF MarkThenTell
<1>3. /\ cases' \in [CaseIds -> CaseStates] /\ CaseInv'
      /\ \A d \in CaseIds : d # c => cases'[d] = cases[d]
  BY <1>1, <1>2, OneCaseFacts, OneCaseInv DEF ProtInv, ProtTypes
<1>4. SameGroup /\ run'.pc = "tell" /\ run'.case = c
  BY <1>1 DEF MarkThenTell, SameGroup, ProtInv, ProtTypes, Runs
<1>5. ReadyInv' /\ result' = "none"
  BY <1>2, <1>3, <1>4, SameGroupReady
<1>6. RunInv'
  BY <1>4, <1>5 DEF ProtInv, RunInv, Active, Reading, SameGroup
<1> QED
  BY <1>3, <1>4, <1>5, <1>6 DEF SameGroup

\* The status of the host is taken over when no other case is open.
LEMMA TakeStatusInv ==
  ASSUME ProtInv, run.pc = "status", prot[ThisGroup].state # "idle", journal' = journal,
         run' = [run EXCEPT !.pc = "journal", !.st = prot[ThisGroup]], result' = result,
         \A d \in CaseIds : d[2] # ThisGroup => cases'[d] = cases[d],
         \A d \in CaseIds :
           IsOpen(d)' /\ d[2] = ThisGroup => d[1] = run.epoch /\ d[3] = prot[ThisGroup].op
  PROVE  run' \in Runs /\ result' = "none" /\ RunInv' /\ ReadyInv'
<1> DEFINE s == prot[ThisGroup]
<1>1. Active /\ run.k \in 1..Len(Groups) /\ run.epoch \in 1..MaxEpoch
  BY DEF Active, ProtInv, RunInv
<1>2. ThisGroup \in GroupIds
  BY <1>1 DEF ThisGroup, GroupIds
<1>3. s \in Protections /\ s.state = "protecting"
  BY <1>2 DEF ProtInv, ProtTypes, Protections
<1>4. /\ s.op \in Operations /\ "intent" \in journal[s.op]
      /\ s.outcome # "none" => "completed" \in journal[s.op]
  BY <1>2, <1>3 DEF ProtInv, HostInv
<1>5. s.outcome = "retracted" => journal[s.op] = Records
  <2>1. journal[s.op] \in SUBSET Records
    BY <1>4 DEF ProtInv, ProtTypes
  <2> QED
    BY <1>4, <2>1 DEF Records
<1>6. run' = [run EXCEPT !.pc = "journal", !.st = s]
  OBVIOUS
<1>7. \A d \in CaseIds :
        IsOpen(d)' /\ d[2] = ThisGroup => d[1] = run.epoch /\ d[3] = s.op
  OBVIOUS
<1> HIDE DEF s
<1>8. SameGroup /\ run'.pc = "journal" /\ run'.st = s
  BY <1>3, <1>6 DEF SameGroup, ProtInv, ProtTypes, Runs, RunPcs
<1>9. ReadyInv' /\ result' = "none"
  BY <1>1, <1>8, SameGroupReady
<1>10. ThisGroup' = ThisGroup /\ This' = <<run.epoch, ThisGroup, s.op>>
  BY <1>8 DEF ThisGroup, This, SameGroup
<1>11. \A d \in CaseIds : IsOpen(d)' /\ d[2] = ThisGroup' => d = This'
  <2> SUFFICES ASSUME NEW d \in CaseIds, IsOpen(d)', d[2] = ThisGroup
               PROVE  d = <<run.epoch, ThisGroup, s.op>>
    BY <1>10
  <2>1. d[1] = run.epoch /\ d[3] = s.op
    BY <1>7
  <2>2. d = <<d[1], d[2], d[3]>>
    BY DEF CaseIds
  <2> QED
    BY <2>1, <2>2
<1>12. RunInv'
  BY <1>1, <1>4, <1>5, <1>8, <1>9, <1>11 DEF RunInv, Active, Reading, SameGroup
<1> QED
  BY <1>8, <1>9, <1>12 DEF SameGroup

\* ReadStatus: the group ends, its case is told, or its journal is read.
LEMMA ReadStatusInv == ASSUME ProtInv, ReadStatus PROVE ProtInv'
<1> DEFINE st == prot[ThisGroup]
           open == OpenCases(ThisGroup)
<1>1. /\ run.pc = "status" /\ Active /\ UNCHANGED hostSide /\ imported' = imported
      /\ projected' = projected /\ reconciled' = reconciled
  BY DEF ReadStatus, RunAt, Active
<1>2. journal' = journal
  BY <1>1 DEF hostSide
<1>3. "ready" \in Found /\ "intervention" \in Found
  BY DEF Found
<1>4. \A c \in CaseIds : c \in open <=> IsOpen(c) /\ c[2] = ThisGroup
  BY DEF OpenCases, IsOpen
<1>5. \A c \in open : c \in CaseIds /\ \A d \in CaseIds : IsOpen(d) /\ d[2] = ThisGroup => d = c
  BY DEF OpenCases, IsOpen, ProtInv, CaseInv
<1>6. cases \in [CaseIds -> CaseStates] /\ CaseInv /\ ProtTypes
  BY DEF ProtInv, ProtTypes
<1>7. "acknowledged" \in CaseStates /\ "intervention" \in CaseStates
  BY DEF CaseStates
<1> SUFFICES /\ cases' \in [CaseIds -> CaseStates] /\ CaseInv'
             /\ run' \in Runs /\ result' \in {"none", "ready", "recovering", "intervention"}
             /\ RunInv' /\ ReadyInv'
  BY <1>1, ReadStepInv
<1>8. ASSUME cases' = cases
      PROVE  /\ cases' \in [CaseIds -> CaseStates] /\ CaseInv'
             /\ \A d \in CaseIds : IsOpen(d)' <=> IsOpen(d)
  BY <1>6, <1>8 DEF CaseInv, IsOpen
<1>9. ASSUME NEW c \in open, NEW v \in {"acknowledged", "intervention"},
             cases' = [cases EXCEPT ![c] = v]
      PROVE  /\ cases' \in [CaseIds -> CaseStates] /\ CaseInv'
             /\ \A d \in CaseIds : d[2] # ThisGroup => cases'[d] = cases[d]
             /\ v = "acknowledged" => \A d \in CaseIds : d[2] = ThisGroup => ~IsOpen(d)'
  <2>1. c \in CaseIds /\ c[2] = ThisGroup /\ v \in CaseStates
    BY <1>4, <1>5, <1>7
  <2>2. /\ cases' \in [CaseIds -> CaseStates] /\ cases'[c] = v
        /\ \A d \in CaseIds : d # c => cases'[d] = cases[d]
    BY <1>6, <1>9, <2>1, OneCaseFacts
  <2>3. CaseInv'
    BY <1>5, <1>6, <1>9, <2>1, OneCaseInv
  <2>4. ASSUME v = "acknowledged", NEW d \in CaseIds, d[2] = ThisGroup PROVE ~IsOpen(d)'
    BY <1>5, <2>2, <2>4 DEF IsOpen
  <2> QED
    BY <2>1, <2>2, <2>3, <2>4
<1>10. CASE open = {} /\ GroupDone("ready") /\ cases' = cases
  <2>1. \A d \in CaseIds : d[2] = ThisGroup => ~IsOpen(d)'
    BY <1>4, <1>8, <1>10
  <2> QED
    BY <1>1, <1>3, <1>8, <1>10, <2>1, DoneInv
<1>11. CASE \E c \in open : cases' = [cases EXCEPT ![c] = "acknowledged"] /\ GroupDone("ready")
  <2>1. PICK c \in open : cases' = [cases EXCEPT ![c] = "acknowledged"] /\ GroupDone("ready")
    BY <1>11
  <2> QED
    BY <1>1, <1>3, <1>9, <2>1, DoneInv
<1>12. CASE \E c \in open : MarkThenTell(c)
  <2>1. PICK c \in open : MarkThenTell(c)
    BY <1>12
  <2>2. c \in CaseIds /\ c[2] = ThisGroup
    BY <1>4, <1>5
  <2> QED
    BY <1>1, <1>5, <2>1, <2>2, MarkThenTellInv
<1>13. CASE \E c \in open :
              cases' = [cases EXCEPT ![c] = "intervention"] /\ GroupDone("intervention")
  <2>1. PICK c \in open :
          cases' = [cases EXCEPT ![c] = "intervention"] /\ GroupDone("intervention")
    BY <1>13
  <2> QED
    BY <1>1, <1>3, <1>9, <2>1, DoneInv
<1>14. CASE /\ st.state # "idle" /\ \A c \in open : c[1] = run.epoch /\ c[3] = st.op
            /\ run' = [run EXCEPT !.pc = "journal", !.st = st] /\ result' = result /\ cases' = cases
  <2>1. \A d \in CaseIds : IsOpen(d)' /\ d[2] = ThisGroup => d[1] = run.epoch /\ d[3] = st.op
    BY <1>4, <1>8, <1>14
  <2> QED
    BY <1>1, <1>2, <1>8, <1>14, <2>1, TakeStatusInv
<1>15. CASE /\ st.state # "idle" /\ run' = [run EXCEPT !.pc = "journal", !.st = st]
            /\ result' = result
            /\ \E c \in open : cases' = [cases EXCEPT ![c] = "acknowledged"]
  <2>1. PICK c \in open : cases' = [cases EXCEPT ![c] = "acknowledged"]
    BY <1>15
  <2> QED
    BY <1>1, <1>2, <1>9, <1>15, <2>1, TakeStatusInv
<1> QED
  BY <1>10, <1>11, <1>12, <1>13, <1>14, <1>15 DEF ReadStatus, ReconcileIdle

\* ReadJournal: a complete journal is read completely.
LEMMA ReadJournalInv == ASSUME ProtInv, ReadJournal PROVE ProtInv'
<1>1. /\ run.pc = "journal" /\ Active /\ Reading /\ UNCHANGED hostSide /\ result' = result
      /\ cases' = cases /\ imported' = imported /\ projected' = projected /\ reconciled' = reconciled
  BY DEF ReadJournal, RunAt, Active, Reading, stored
<1>2. journal' = journal /\ run \in Runs /\ run.st \in Protections /\ run.st.op \in Operations
  BY <1>1, ThisFacts DEF hostSide, ProtInv, ProtTypes, RunInv
<1>3. journal[run.st.op] \in SUBSET Records
  BY SMTT(40), <1>2 DEF ProtInv, ProtTypes
<1>4. /\ SameGroup /\ run'.pc = "ingest" /\ run'.st.op = run.st.op
      /\ run'.st.outcome = "retracted" =>
           run.st.outcome = "retracted" /\ run'.recs = journal[run.st.op]
  <2>0. "ingest" \in RunPcs /\ "custodyUnknown" \in {"none", "retracted", "custodyUnknown"}
    BY DEF RunPcs
  <2>1. CASE run' = [run EXCEPT !.pc = "ingest", !.recs = journal[run.st.op]]
    BY <1>2, <1>3, <2>0, <2>1 DEF SameGroup, Runs
  <2>2. CASE \E recs \in SUBSET journal[run.st.op] :
               run' = [run EXCEPT !.pc = "ingest", !.recs = recs, !.st.outcome = "custodyUnknown"]
    <3> DEFINE s == [run.st EXCEPT !.outcome = "custodyUnknown"]
    <3>1. PICK recs \in SUBSET journal[run.st.op] :
            run' = [run EXCEPT !.pc = "ingest", !.recs = recs, !.st.outcome = "custodyUnknown"]
      BY <2>2
    <3>2. run' = [run EXCEPT !.pc = "ingest", !.recs = recs, !.st = s]
      BY <1>2, <3>1 DEF Runs
    <3>3. s \in Protections /\ s.op = run.st.op /\ s.outcome = "custodyUnknown"
      BY <1>2, <2>0 DEF Protections
    <3>4. recs \in SUBSET Records
      BY <1>3
    <3> HIDE DEF s
    <3> QED
      BY <1>2, <2>0, <3>2, <3>3, <3>4 DEF SameGroup, Runs
  <2> QED
    BY <2>1, <2>2 DEF ReadJournal
<1>5. /\ cases' \in [CaseIds -> CaseStates] /\ CaseInv'
      /\ \A d \in CaseIds : d[2] # ThisGroup => cases'[d] = cases[d]
      /\ \A d \in CaseIds : IsOpen(d)' /\ d[2] = ThisGroup => d = This
  BY <1>1, ThisCaseInv
<1>6. ReadyInv' /\ result' = "none"
  BY <1>1, <1>4, <1>5, SameGroupReady
<1>7. ThisGroup' = ThisGroup /\ This' = This
  BY <1>4 DEF ThisGroup, This, SameGroup
<1>8. /\ run.k \in 1..Len(Groups) /\ run.epoch \in 1..MaxEpoch
      /\ run.st.outcome = "retracted" => journal[run.st.op] = Records
  BY <1>1 DEF ProtInv, RunInv
<1>9. RunInv'
  BY <1>2, <1>4, <1>5, <1>6, <1>7, <1>8 DEF RunInv, Active, Reading, SameGroup
<1> QED
  BY <1>1, <1>4, <1>5, <1>6, <1>9, ReadStepInv DEF SameGroup

\* A run that goes on with its operation keeps what it knows about it.
LEMMA ReadingKept ==
  ASSUME ProtInv, Reading, SameRun, result' = result, journal' = journal,
         \/ cases' = cases
         \/ \E v \in CaseStates : cases' = [cases EXCEPT ![This] = v]
  PROVE  /\ cases' \in [CaseIds -> CaseStates] /\ CaseInv' /\ ReadyInv' /\ result' = "none"
         /\ run'.k \in 1..Len(Groups) /\ run'.epoch \in 1..MaxEpoch
         /\ This' = This /\ run'.st.op \in Operations
         /\ \A d \in CaseIds : IsOpen(d)' /\ d[2] = ThisGroup' => d = This'
         /\ run'.st.outcome = "retracted" => journal'[run'.st.op] = Records
<1>1. Active
  BY DEF Active, Reading
<1>2. /\ cases' \in [CaseIds -> CaseStates] /\ CaseInv'
      /\ \A d \in CaseIds : d[2] # ThisGroup => cases'[d] = cases[d]
      /\ \A d \in CaseIds : IsOpen(d)' /\ d[2] = ThisGroup => d = This
  BY ThisCaseInv
<1>3. ReadyInv' /\ result' = "none"
  BY <1>1, <1>2, SameGroupReady DEF SameRun
<1>4. ThisGroup' = ThisGroup /\ This' = This
  BY DEF SameRun, SameGroup, ThisGroup, This
<1>5. /\ run.k \in 1..Len(Groups) /\ run.epoch \in 1..MaxEpoch /\ run.st.op \in Operations
      /\ run.st.outcome = "retracted" => journal[run.st.op] = Records
  BY <1>1 DEF ProtInv, RunInv
<1> QED
  BY <1>2, <1>3, <1>4, <1>5 DEF SameRun, SameGroup

\* Ingest: the records that were read are imported.
LEMMA IngestInv == ASSUME ProtInv, Ingest PROVE ProtInv'
<1> DEFINE l == IF run.recs = {} THEN "missing" ELSE "project"
<1>1. /\ run.pc = "ingest" /\ Reading /\ UNCHANGED hostSide /\ RunStep(l)
      /\ imported' = imported \cup {<<This, r>> : r \in run.recs}
      /\ projected' = projected /\ reconciled' = reconciled
  BY DEF Ingest, RunAt, Reading
<1>2. l \in RunPcs /\ l \in {"missing", "project"} /\ run \in Runs /\ journal' = journal
  BY <1>1 DEF RunPcs, ProtInv, ProtTypes, hostSide
<1> HIDE DEF l
<1>3. SameRun /\ run'.pc = l /\ result' = result
  BY <1>1, <1>2, RunStepFacts
<1>4. \E v \in CaseStates : cases' = [cases EXCEPT ![This] = v]
  <2> DEFINE v == IF cases[This] = "absent" THEN "observed" ELSE cases[This]
  <2>1. cases[This] \in CaseStates
    BY <1>1, ThisFacts DEF ProtInv, ProtTypes
  <2>2. v \in CaseStates
    BY <2>1 DEF CaseStates
  <2>3. cases' = [cases EXCEPT ![This] = v]
    BY DEF Ingest
  <2> HIDE DEF v
  <2> QED
    BY <2>2, <2>3
<1>5. /\ cases' \in [CaseIds -> CaseStates] /\ CaseInv' /\ ReadyInv' /\ result' = "none"
      /\ run'.k \in 1..Len(Groups) /\ run'.epoch \in 1..MaxEpoch
      /\ This' = This /\ run'.st.op \in Operations
      /\ \A d \in CaseIds : IsOpen(d)' /\ d[2] = ThisGroup' => d = This'
      /\ run'.st.outcome = "retracted" => journal'[run'.st.op] = Records
  BY <1>1, <1>2, <1>3, <1>4, ReadingKept
<1>6. run.st.outcome = "retracted" => run.recs = Records
  BY <1>1 DEF ProtInv, RunInv
<1>7. \A r \in run'.recs : <<This', r>> \in imported'
  BY <1>1, <1>3, <1>5 DEF SameRun
<1>8. RunInv'
  BY <1>2, <1>3, <1>5, <1>6, <1>7 DEF RunInv, Reading, SameRun
<1> QED
  BY <1>1, <1>3, <1>5, <1>8, ReadStepInv DEF SameRun, SameGroup

\* JournalMissing: the case without records becomes an intervention.
LEMMA JournalMissingInv == ASSUME ProtInv, JournalMissing PROVE ProtInv'
<1>1. /\ Reading /\ Active /\ UNCHANGED hostSide /\ MarkThenTell(This)
      /\ imported' = imported /\ projected' = projected /\ reconciled' = reconciled
  BY DEF JournalMissing, RunAt, Reading, Active
<1>2. This \in CaseIds /\ This[2] = ThisGroup
  BY <1>1, ThisFacts
<1>3. \A d \in CaseIds : IsOpen(d) /\ d[2] = ThisGroup => d = This
  BY <1>1 DEF ProtInv, RunInv
<1>4. /\ cases' \in [CaseIds -> CaseStates] /\ CaseInv' /\ run' \in Runs
      /\ result' = "none" /\ RunInv' /\ ReadyInv'
  BY <1>1, <1>2, <1>3, MarkThenTellInv
<1> QED
  BY <1>1, <1>4, ReadStepInv

\* TellIntervention: the application is told; the group ends.
LEMMA TellInterventionInv == ASSUME ProtInv, TellIntervention PROVE ProtInv'
<1>1. /\ Active /\ UNCHANGED hostSide /\ GroupDone("intervention") /\ cases' = cases
      /\ imported' = imported /\ projected' = projected /\ reconciled \subseteq reconciled'
  BY DEF TellIntervention, RunAt, Active
<1>2. cases' \in [CaseIds -> CaseStates] /\ CaseInv'
  BY <1>1 DEF ProtInv, ProtTypes, CaseInv, IsOpen
<1>3. "intervention" \in Found /\ "intervention" # "ready"
  BY DEF Found
<1>4. /\ run' \in Runs /\ result' \in {"none", "ready", "recovering", "intervention"}
      /\ RunInv' /\ ReadyInv'
  BY <1>1, <1>3, DoneInv
<1> QED
  BY <1>1, <1>2, <1>4, ReadStepInv

\* ProjectRecord: when nothing is left to project, all that was read is projected.
LEMMA ProjectRecordInv == ASSUME ProtInv, ProjectRecord PROVE ProtInv'
<1>1. /\ run.pc = "project" /\ Reading /\ UNCHANGED hostSide /\ cases' = cases
      /\ imported' = imported /\ reconciled' = reconciled /\ run \in Runs /\ journal' = journal
  BY DEF ProjectRecord, RunAt, Reading, ProtInv, ProtTypes, hostSide
<1>2. /\ SameRun /\ result' = result /\ projected \subseteq projected'
      /\ \/ run'.pc = "project"
         \/ run'.pc = "reconcile" /\ ToProject = {} /\ projected' = projected
  <2>1. CASE run' = run /\ result' = result /\ \E t \in ToProject : projected' = projected \cup {t}
    BY <1>1, <2>1 DEF SameRun, SameGroup
  <2>2. CASE ToProject = {} /\ projected' = projected /\ RunStep("reconcile")
    <3>1. "reconcile" \in RunPcs
      BY DEF RunPcs
    <3> QED
      BY <1>1, <2>2, <3>1, RunStepFacts
  <2> QED
    BY <2>1, <2>2 DEF ProjectRecord
<1>3. /\ cases' \in [CaseIds -> CaseStates] /\ CaseInv' /\ ReadyInv' /\ result' = "none"
      /\ run'.k \in 1..Len(Groups) /\ run'.epoch \in 1..MaxEpoch
      /\ This' = This /\ run'.st.op \in Operations
      /\ \A d \in CaseIds : IsOpen(d)' /\ d[2] = ThisGroup' => d = This'
      /\ run'.st.outcome = "retracted" => journal'[run'.st.op] = Records
  BY <1>1, <1>2, ReadingKept
<1>4. /\ run.st.outcome = "retracted" => run.recs = Records
      /\ \A r \in run.recs : <<This, r>> \in imported
  BY <1>1 DEF ProtInv, RunInv
<1>5. ASSUME ToProject = {}, NEW r \in run.recs, NEW p \in Projections
      PROVE  <<<<This, r>>, p>> \in projected
  <2> DEFINE i == <<This, r>>
  <2>1. i \in imported /\ i[1] = This
    BY <1>4
  <2> HIDE DEF i
  <2>2. <<i, p>> \in projected
    BY <1>5, <2>1 DEF ToProject
  <2> QED
    BY <2>2 DEF i
<1>6. RunInv'
  BY <1>1, <1>2, <1>3, <1>4, <1>5 DEF RunInv, Reading, SameRun
<1> QED
  BY <1>1, <1>2, <1>3, <1>6, ReadStepInv DEF SameRun, SameGroup

\* Reconcile: the application has been told the classification.
LEMMA ReconcileInv == ASSUME ProtInv, Reconcile PROVE ProtInv'
<1>1. /\ run.pc = "reconcile" /\ Reading /\ UNCHANGED hostSide /\ cases' = cases
      /\ imported' = imported /\ projected' = projected /\ RunStep("mark")
      /\ reconciled' = reconciled \cup {<<This, Classify(run.st)>>}
      /\ run \in Runs /\ journal' = journal
  BY DEF Reconcile, RunAt, Reading, ProtInv, ProtTypes, hostSide
<1>2. "mark" \in RunPcs
  BY DEF RunPcs
<1>3. SameRun /\ run'.pc = "mark" /\ result' = result
  BY <1>1, <1>2, RunStepFacts
<1>4. /\ cases' \in [CaseIds -> CaseStates] /\ CaseInv' /\ ReadyInv' /\ result' = "none"
      /\ run'.k \in 1..Len(Groups) /\ run'.epoch \in 1..MaxEpoch
      /\ This' = This /\ run'.st.op \in Operations
      /\ \A d \in CaseIds : IsOpen(d)' /\ d[2] = ThisGroup' => d = This'
      /\ run'.st.outcome = "retracted" => journal'[run'.st.op] = Records
  BY <1>1, <1>3, ReadingKept
<1>5. /\ run.st.outcome = "retracted" => run.recs = Records
      /\ \A r \in run.recs : <<This, r>> \in imported
      /\ \A r \in run.recs, p \in Projections : <<<<This, r>>, p>> \in projected
  BY <1>1 DEF ProtInv, RunInv
<1>6. <<This', Classify(run'.st)>> \in reconciled'
  BY <1>1, <1>3, <1>4 DEF SameRun
<1>7. RunInv'
  BY <1>1, <1>3, <1>4, <1>5, <1>6 DEF RunInv, Reading, SameRun
<1> QED
  BY <1>1, <1>3, <1>4, <1>7, ReadStepInv DEF SameRun, SameGroup

\* A run that ends its group after marking the case.
LEMMA MarkDoneInv ==
  ASSUME ProtInv, Reading, UNCHANGED hostSide, imported' = imported, projected' = projected,
         reconciled' = reconciled, NEW c \in Found, GroupDone(c),
         \/ cases' = cases /\ c # "ready"
         \/ \E v \in CaseStates : /\ cases' = [cases EXCEPT ![This] = v]
                                  /\ c = "ready" => v = "acknowledged"
  PROVE  ProtInv'
<1>1. Active
  BY DEF Active, Reading
<1>2. /\ cases' \in [CaseIds -> CaseStates] /\ CaseInv'
      /\ \A d \in CaseIds : d[2] # ThisGroup => cases'[d] = cases[d]
      /\ \A d \in CaseIds : IsOpen(d)' /\ d[2] = ThisGroup => d = This
  BY ThisCaseInv
<1>3. c = "ready" => \A d \in CaseIds : d[2] = ThisGroup => ~IsOpen(d)'
  <2> SUFFICES ASSUME c = "ready" PROVE cases'[This] = "acknowledged"
    BY <1>2 DEF IsOpen
  <2>1. cases' = [cases EXCEPT ![This] = "acknowledged"]
    OBVIOUS
  <2>2. This \in CaseIds /\ cases \in [CaseIds -> CaseStates] /\ "acknowledged" \in CaseStates
    BY ThisFacts DEF ProtInv, ProtTypes, CaseStates
  <2> HIDE DEF This
  <2> QED
    BY <2>1, <2>2
<1>4. /\ run' \in Runs /\ result' \in {"none", "ready", "recovering", "intervention"}
      /\ RunInv' /\ ReadyInv'
  BY <1>1, <1>2, <1>3, DoneInv
<1> QED
  BY <1>2, <1>4, ReadStepInv

\* A run that goes on from a case it has told the application of.
LEMMA TerminalKept ==
  ASSUME ProtInv, run.pc \in {"mark", "acknowledge"}, Classify(run.st) = "terminal",
         run.st.outcome = "retracted", NEW l \in {"acknowledge", "close"}, RunStep(l),
         journal' = journal, imported' = imported, projected' = projected, reconciled' = reconciled,
         \/ cases' = cases
         \/ \E v \in CaseStates : cases' = [cases EXCEPT ![This] = v]
  PROVE  /\ cases' \in [CaseIds -> CaseStates] /\ CaseInv' /\ run' \in Runs
         /\ result' = "none" /\ RunInv' /\ ReadyInv'
<1>1. Reading /\ run \in Runs /\ l \in RunPcs
  BY DEF Reading, ProtInv, ProtTypes, RunPcs
<1>2. SameRun /\ run'.pc = l /\ result' = result
  BY <1>1, RunStepFacts
<1>3. /\ cases' \in [CaseIds -> CaseStates] /\ CaseInv' /\ ReadyInv' /\ result' = "none"
      /\ run'.k \in 1..Len(Groups) /\ run'.epoch \in 1..MaxEpoch
      /\ This' = This /\ run'.st.op \in Operations
      /\ \A d \in CaseIds : IsOpen(d)' /\ d[2] = ThisGroup' => d = This'
      /\ run'.st.outcome = "retracted" => journal'[run'.st.op] = Records
  BY <1>1, <1>2, ReadingKept
<1>4. /\ run.recs = Records
      /\ \A r \in run.recs : <<This, r>> \in imported
      /\ \A r \in run.recs, p \in Projections : <<<<This, r>>, p>> \in projected
      /\ <<This, Classify(run.st)>> \in reconciled
  BY <1>1 DEF ProtInv, RunInv
<1>5. RunInv'
  BY <1>2, <1>3, <1>4 DEF RunInv, Reading, SameRun
<1> QED
  BY <1>2, <1>3, <1>5 DEF SameRun, SameGroup

\* MarkCase: only a terminal operation goes on to its acknowledgement.
LEMMA MarkCaseInv == ASSUME ProtInv, MarkCase PROVE ProtInv'
<1> DEFINE cls == Classify(run.st)
<1>1. /\ run.pc = "mark" /\ Reading /\ UNCHANGED hostSide /\ journal' = journal
      /\ imported' = imported /\ projected' = projected /\ reconciled' = reconciled
  BY DEF MarkCase, RunAt, Reading, hostSide
<1>2. /\ cls \in {"intervention", "recovering", "terminal"}
      /\ cls = "terminal" => run.st.outcome = "retracted"
  BY <1>1, ThisFacts DEF Classify, Protections
<1>3. "intervention" \in CaseStates /\ "ackPending" \in CaseStates
  BY DEF CaseStates
<1>4. "intervention" \in Found /\ "recovering" \in Found
  BY DEF Found
<1>5. CASE cls = "intervention"
  <2>1. cases' = [cases EXCEPT ![This] = "intervention"] /\ GroupDone("intervention")
    BY <1>5 DEF MarkCase
  <2> QED
    BY <1>1, <1>3, <1>4, <2>1, MarkDoneInv
<1>6. CASE cls = "recovering"
  <2>1. cases' = cases /\ GroupDone("recovering")
    BY <1>6 DEF MarkCase
  <2> QED
    BY <1>1, <1>4, <2>1, MarkDoneInv
<1>7. CASE cls = "terminal"
  <2>1. cases' = [cases EXCEPT ![This] = "ackPending"] /\ RunStep("acknowledge")
    BY <1>7 DEF MarkCase
  <2>2. /\ cases' \in [CaseIds -> CaseStates] /\ CaseInv' /\ run' \in Runs
        /\ result' = "none" /\ RunInv' /\ ReadyInv'
    BY <1>1, <1>2, <1>3, <1>7, <2>1, TerminalKept
  <2> QED
    BY <1>1, <2>2, ReadStepInv
<1> QED
  BY <1>2, <1>5, <1>6, <1>7

\* The host forgets an operation whose journal is complete, imported and projected.
LEMMA ForgetInv ==
  ASSUME ProtInv, run.pc = "acknowledge",
         prot' = [prot EXCEPT ![ThisGroup] = IdleStatus], acked' = acked \cup {run.st.op},
         epoch' = epoch, journal' = journal, UNCHANGED stored,
         run' \in Runs, result' \in {"none", "ready", "recovering", "intervention"},
         RunInv', ReadyInv'
  PROVE  ProtInv'
<1>1. Reading /\ run.st.outcome = "retracted"
  BY DEF Reading, ProtInv, RunInv
<1>2. /\ This \in CaseIds /\ This[3] = run.st.op /\ ThisGroup \in GroupIds
      /\ run.st.op \in Operations /\ journal[run.st.op] = Records
  BY <1>1, ThisFacts DEF ProtInv, RunInv
<1>3. /\ run.recs = Records /\ Classify(run.st) = "terminal"
      /\ <<This, Classify(run.st)>> \in reconciled
      /\ \A r \in run.recs : <<This, r>> \in imported
      /\ \A r \in run.recs, p \in Projections : <<<<This, r>>, p>> \in projected
  BY <1>1 DEF ProtInv, RunInv, Classify
<1>4. /\ cases' = cases /\ imported' = imported /\ projected' = projected
      /\ reconciled' = reconciled
  BY DEF stored
<1>5. prot' \in [GroupIds -> Protections] /\ \A g \in GroupIds : prot'[g] \in {IdleStatus, prot[g]}
  BY <1>2, NoRunFacts DEF ProtInv, ProtTypes
<1>6. ProtTypes' /\ CaseInv'
  BY <1>2, <1>4, <1>5 DEF ProtInv, ProtTypes, CaseInv, IsOpen
<1>7. HostInv'
  BY <1>5, NoRunFacts DEF ProtInv, HostInv
<1>8. AckInv'
  <2> SUFFICES ASSUME NEW o \in acked'
               PROVE  /\ journal[o] = Records
                      /\ \E c \in CaseIds :
                           /\ c[3] = o /\ <<c, "terminal">> \in reconciled
                           /\ \A r \in Records, p \in Projections :
                                <<c, r>> \in imported /\ <<<<c, r>>, p>> \in projected
    BY <1>4 DEF AckInv
  <2>1. CASE o \in acked
    BY <2>1 DEF ProtInv, AckInv
  <2>2. CASE o = run.st.op
    <3> HIDE DEF This
    <3>1. \A r \in Records, p \in Projections :
            <<This, r>> \in imported /\ <<<<This, r>>, p>> \in projected
      BY <1>3
    <3>2. This \in CaseIds /\ This[3] = o /\ <<This, "terminal">> \in reconciled
      BY <1>2, <1>3, <2>2
    <3> QED
      BY <1>2, <2>2, <3>1, <3>2
  <2> QED
    BY <2>1, <2>2
<1> QED
  BY <1>6, <1>7, <1>8 DEF ProtInv

\* Acknowledge: the host forgets, with or without an answer, or refuses.
LEMMA AcknowledgeInv == ASSUME ProtInv, Acknowledge PROVE ProtInv'
<1> DEFINE done == /\ prot' = [prot EXCEPT ![ThisGroup] = IdleStatus]
                   /\ acked' = acked \cup {run.st.op} /\ epoch' = epoch /\ journal' = journal
<1>1. /\ run.pc = "acknowledge" /\ Reading /\ Active /\ UNCHANGED stored
      /\ cases' = cases /\ imported' = imported /\ projected' = projected
      /\ reconciled' = reconciled
  BY DEF Acknowledge, RunAt, Reading, Active, stored
<1>2. run.st.outcome = "retracted" /\ Classify(run.st) = "terminal"
  BY <1>1 DEF ProtInv, RunInv, Classify
<1>3. "failed" \in Found /\ "failed" # "ready"
  BY DEF Found
<1>4. CASE done /\ RunStep("close")
  <2>1. run' \in Runs /\ result' = "none" /\ RunInv' /\ ReadyInv'
    BY <1>1, <1>2, <1>4, TerminalKept
  <2> QED
    BY <1>1, <1>4, <2>1, ForgetInv
<1>5. CASE done /\ GroupDone("failed")
  <2>1. /\ run' \in Runs /\ result' \in {"none", "ready", "recovering", "intervention"}
        /\ RunInv' /\ ReadyInv'
    BY <1>1, <1>3, <1>5, DoneInv
  <2> QED
    BY <1>1, <1>5, <2>1, ForgetInv
<1>6. CASE UNCHANGED hostSide /\ GroupDone("failed")
  BY <1>1, <1>3, <1>6, MarkDoneInv
<1> QED
  BY <1>4, <1>5, <1>6 DEF Acknowledge

\* CloseCase: the acknowledged case is closed and its group is ready.
LEMMA CloseCaseInv == ASSUME ProtInv, CloseCase PROVE ProtInv'
<1>1. /\ Reading /\ UNCHANGED hostSide /\ GroupDone("ready")
      /\ cases' = [cases EXCEPT ![This] = "acknowledged"]
      /\ imported' = imported /\ projected' = projected /\ reconciled' = reconciled
  BY DEF CloseCase, RunAt, Reading
<1>2. "ready" \in Found /\ "acknowledged" \in CaseStates
  BY DEF Found, CaseStates
<1> QED
  BY <1>1, <1>2, MarkDoneInv

\* A fresh store and an idle host satisfy the invariant.
LEMMA ProtInitInv == ASSUME ProtInit PROVE ProtInv
<1>1. ProtTypes
  BY NoRunFacts, ProtectionAssumption DEF ProtInit, ProtTypes, Records, CaseStates
<1>2. HostInv
  BY NoRunFacts DEF ProtInit, HostInv
<1>3. CaseInv /\ ReadyInv
  BY NoRunFacts DEF ProtInit, CaseInv, ReadyInv, IsOpen, Active
<1>4. RunInv /\ AckInv
  BY NoRunFacts DEF ProtInit, RunInv, AckInv, Active, Reading
<1> QED
  BY <1>1, <1>2, <1>3, <1>4 DEF ProtInv

\* Every step of the host, of the barrier and of its failures keeps it.
LEMMA ProtStepInv == ASSUME ProtInv, [ProtNext]_protVars PROVE ProtInv'
<1>1. CASE UNCHANGED protVars
  <2>1. /\ UNCHANGED <<cases, imported, projected, reconciled, run, result>> /\ acked' = acked
        /\ epoch' = epoch /\ prot' = prot /\ journal' = journal
    BY <1>1 DEF protVars, hostSide, stored
  <2> QED
    BY <2>1, HostStepInv DEF ProtInv, ProtTypes, HostInv
<1>2. CASE BarrierStep
  BY <1>2, ReadStatusInv, ReadJournalInv, IngestInv, JournalMissingInv, TellInterventionInv,
     ProjectRecordInv, ReconcileInv, MarkCaseInv, AcknowledgeInv, CloseCaseInv DEF BarrierStep
<1>3. CASE Recover \/ GroupFails \/ CrashRecovery
  BY <1>3, RecoverInv, GroupFailsInv, CrashRecoveryInv
<1>4. CASE \E g \in GroupIds : \/ \E o \in Operations : HostProtects(g, o)
                              \/ \E v \in {"retracted", "custodyUnknown"} : HostResolves(g, v)
  BY <1>4, HostProtectsInv, HostResolvesInv
<1>5. CASE \E lost \in SUBSET GroupIds : HostRestarts(lost)
  BY <1>5, HostRestartsInv
<1> QED
  BY <1>1, <1>2, <1>3, <1>4, <1>5 DEF ProtNext

\* The invariant says what the barrier promises.
LEMMA ProtInvSuffices == ASSUME ProtInv PROVE ProtectionIsImported
<1>1. ASSUME NEW g \in GroupIds PROVE Cardinality(OpenCases(g)) <= 1
  <2>1. CASE OpenCases(g) = {}
    BY <2>1, FS_EmptySet
  <2>2. CASE OpenCases(g) # {}
    <3>1. PICK c \in OpenCases(g) : TRUE
      BY <2>2
    <3>2. OpenCases(g) = {c}
      BY <3>1 DEF OpenCases, IsOpen, ProtInv, CaseInv
    <3> QED
      BY <3>2, FS_Singleton
  <2> QED
    BY <2>1, <2>2
<1>2. ProtTypeOK
  BY <1>1 DEF ProtInv, ProtTypes, ProtTypeOK, Runs
<1>3. AcknowledgedIsImported
  BY DEF ProtInv, AckInv, AcknowledgedIsImported
<1>4. ReadyIsClosed
  BY DEF ProtInv, ReadyInv, ReadyIsClosed, OpenCases, IsOpen
<1> QED
  BY <1>2, <1>3, <1>4 DEF ProtectionIsImported

\* protection-recovery-barrier.ts: whatever the host does on its own, whichever
\* call rejects and wherever the process dies, the host forgets an operation
\* only when its complete journal was imported, projected everywhere and told as
\* terminal; a group has one open case; and ready is answered only when none is.
THEOREM ProtectionsAreImported == ProtSpec => []ProtectionIsImported
<1>1. ProtInit => ProtInv
  BY ProtInitInv
<1>2. ProtInv /\ [ProtNext]_protVars => ProtInv'
  BY ProtStepInv
<1>3. ProtInv => ProtectionIsImported
  BY ProtInvSuffices
<1> QED
  BY <1>1, <1>2, <1>3, PTL DEF ProtSpec

-----------------------------------------------------------------------------
(* The PIN pad.                                                            *)

Rets == {"none", "busy", "ok", "error", "unrecovered"}
Calls == [pc : InputPcs, ret : Rets]
Controls == [phase : {"entry", "result"}, digits : 0..MaxLength, confirmed : BOOLEAN]
Pads == [busy : BOOLEAN, keys : 0..MaxLength, answer : {"none", "ok", "failed", "canceled"}]

PinTypes ==
  /\ input \in [Inputs -> Calls] /\ activeInput \in Inputs \cup {NoInput}
  /\ control \in Controls /\ pad \in Pads /\ subscribed \in BOOLEAN
  /\ proof \in [Inputs -> {"none", "device", "confirmed"}]

AtDevice(i) == input[i].pc \in {"device", "block"}

\* One input has a command at the device; while the port is subscribed, the
\* running input is the active one.
OneInput ==
  /\ \A i \in Inputs : input[i].ret # "none" => input[i].pc = "ended"
  /\ \A i, j \in Inputs : AtDevice(i) /\ AtDevice(j) => i = j
  /\ subscribed => \A i \in Inputs : input[i].pc \notin {"new", "ended"} => activeInput = i

\* The digits that are counted are those of the active input.
DigitsInv ==
  /\ ~subscribed /\ activeInput # NoInput => control.digits = 0
  /\ \A i \in Inputs : (activeInput = i /\ subscribed /\ Recovered) =>
       /\ InputAt(i, "queued") => control.digits = 0
       /\ InputAt(i, "device") /\ pad.busy => control.digits = pad.keys

\* What lets a command succeed was proved for its input.
ProofInv ==
  /\ control.confirmed =>
       \A i \in Inputs : input[i].pc \in {"queued", "device"} => proof[i] # "none"
  /\ \A i \in Inputs :
       /\ InputAt(i, "device") /\ pad.answer = "ok" => proof[i] # "none"
       /\ InputAt(i, "block") \/ input[i].ret = "ok" => proof[i] # "none"

PinInv == PinTypes /\ OneInput /\ NoOrphanedEntry /\ DigitsInv /\ ProofInv

\* The values that the calls, the control and the device start with.
LEMMA PinConstants ==
  /\ NoControl \in Controls /\ NoControl.digits = 0 /\ NoControl.confirmed = FALSE
  /\ FreePad \in Pads /\ FreePad.busy = FALSE /\ FreePad.answer = "none"
  /\ \A r \in Rets : [pc |-> "ended", ret |-> r] \in Calls
BY PinAssumption DEF NoControl, Controls, FreePad, Pads, Calls, InputPcs

\* One call moves.
OneMoves(i) ==
  /\ input' \in [Inputs -> Calls] /\ input[i].pc # "ended"
  /\ \A j \in Inputs \ {i} : input'[j] = input[j]

\* InputTo() moves one call and keeps what it returned.
LEMMA InputToFacts ==
  ASSUME PinTypes, NEW i \in Inputs, NEW l \in InputPcs, input[i].pc # "ended", InputTo(i, l)
  PROVE  OneMoves(i) /\ input'[i].pc = l /\ input'[i].ret = input[i].ret
BY DEF PinTypes, InputTo, OneMoves, Calls

\* endInput() ends one call; the control is dropped if it is its own.
LEMMA InputEndsFacts ==
  ASSUME PinTypes, NEW i \in Inputs, NEW r \in Rets, input[i].pc # "ended", InputEnds(i, r)
  PROVE  /\ OneMoves(i) /\ input'[i].pc = "ended" /\ input'[i].ret = r
         /\ activeInput' \in Inputs \cup {NoInput}
         /\ \A j \in Inputs \ {i} : activeInput' = j <=> activeInput = j
         /\ activeInput' # i /\ (activeInput' # NoInput => activeInput' = activeInput)
<1> DEFINE e == [pc |-> "ended", ret |-> r]
<1>1. input' = [input EXCEPT ![i] = e]
  BY DEF InputEnds
<1>2. e \in Calls /\ e.pc = "ended" /\ e.ret = r
  BY PinConstants
<1> HIDE DEF e
<1>3. OneMoves(i) /\ input'[i] = e
  BY <1>1, <1>2 DEF OneMoves, PinTypes
<1> QED
  BY <1>2, <1>3, PinAssumption DEF InputEnds, PinTypes

\* A recovery that failed is never forgotten.
LEMMA RecoveredBefore ==
  ASSUME OneInput, NEW i \in Inputs, OneMoves(i)
  PROVE  Recovered' => Recovered
BY DEF OneInput, OneMoves, Recovered

\* The device waits for the keys of no input but a running one.
LEMMA QueuedIsFree ==
  ASSUME PinInv, NEW i \in Inputs, InputAt(i, "queued"), subscribed, Recovered
  PROVE  ~pad.busy
<1>1. activeInput = i
  BY DEF PinInv, OneInput, InputAt
<1>2. ~\E j \in Inputs : input[j].pc \in {"device", "recover"}
  BY <1>1 DEF PinInv, OneInput, InputAt
<1> QED
  BY <1>2 DEF PinInv, NoOrphanedEntry

\* Steps in which no call moves and the device keeps or loses its command.
LEMMA PadStepInv ==
  ASSUME PinInv, input' = input, activeInput' = activeInput, subscribed' = subscribed,
         pad' \in Pads, pad'.busy => pad.busy /\ pad'.keys = pad.keys,
         proof' \in [Inputs -> {"none", "device", "confirmed"}],
         \A i \in Inputs : proof[i] # "none" => proof'[i] # "none",
         pad'.answer = "ok" =>
           pad.answer = "ok" \/ \A i \in Inputs : InputAt(i, "device") => proof'[i] # "none",
         control' \in Controls, control'.digits = control.digits,
         control'.confirmed =>
           \/ control.confirmed
           \/ \A i \in Inputs : input[i].pc \in {"queued", "device"} => proof'[i] # "none"
  PROVE  PinInv'
<1>1. PinTypes' /\ OneInput'
  BY DEF PinInv, PinTypes, OneInput, AtDevice
<1>2. NoOrphanedEntry'
  BY DEF PinInv, NoOrphanedEntry, Recovered
<1>3. DigitsInv'
  BY DEF PinInv, DigitsInv, Recovered, InputAt
<1>4. ProofInv'
  BY DEF PinInv, ProofInv, InputAt
<1> QED
  BY <1>1, <1>2, <1>3, <1>4 DEF PinInv

\* BeginInput: a control of its own, or refused.
LEMMA BeginInputInv == ASSUME PinInv, NEW i \in Inputs, BeginInput(i) PROVE PinInv'
<1>1. /\ input[i].pc = "new" /\ input[i].pc # "ended" /\ pad' = pad /\ subscribed' = subscribed
      /\ proof' = proof /\ PinTypes /\ OneInput
  BY DEF BeginInput, InputAt, PinInv
<1>2. CASE activeInput # NoInput
  <2> DEFINE e == [pc |-> "ended", ret |-> "busy"]
  <2>1. input' = [input EXCEPT ![i] = e] /\ activeInput' = activeInput /\ control' = control
    BY <1>2 DEF BeginInput
  <2>2. e \in Calls /\ e.pc = "ended" /\ e.ret = "busy"
    BY PinConstants DEF Rets
  <2> HIDE DEF e
  <2>3. OneMoves(i) /\ input'[i].pc = "ended" /\ input'[i].ret = "busy"
    BY <1>1, <2>1, <2>2 DEF OneMoves, PinTypes
  <2>4. Recovered' => Recovered
    BY <1>1, <2>3, RecoveredBefore
  <2>5. PinTypes' /\ OneInput'
    BY <1>1, <2>1, <2>3 DEF PinTypes, OneInput, OneMoves, AtDevice
  <2>6. NoOrphanedEntry'
    BY <1>1, <2>3, <2>4 DEF PinInv, NoOrphanedEntry, OneMoves
  <2>7. DigitsInv' /\ ProofInv'
    BY <1>1, <2>1, <2>3, <2>4 DEF PinInv, DigitsInv, ProofInv, InputAt, OneMoves
  <2> QED
    BY <2>5, <2>6, <2>7 DEF PinInv
<1>3. CASE activeInput = NoInput
  <2>1. InputTo(i, "queued") /\ activeInput' = i /\ control' = NoControl
    BY <1>3 DEF BeginInput
  <2>2. "queued" \in InputPcs
    BY DEF InputPcs
  <2>3. OneMoves(i) /\ input'[i].pc = "queued" /\ input'[i].ret = input[i].ret
    BY <1>1, <2>1, <2>2, InputToFacts
  <2>4. Recovered' => Recovered
    BY <1>1, <2>3, RecoveredBefore
  <2>5. PinTypes'
    BY <1>1, <2>1, <2>3, PinConstants DEF PinTypes, OneMoves
  <2>6. OneInput'
    BY <1>1, <1>3, <2>1, <2>3, PinAssumption DEF OneInput, OneMoves, AtDevice
  <2>7. NoOrphanedEntry'
    BY <1>1, <2>3, <2>4 DEF PinInv, NoOrphanedEntry, OneMoves
  <2>8. DigitsInv'
    BY <2>1, <2>3, PinConstants DEF DigitsInv, InputAt
  <2>9. ProofInv'
    BY <1>1, <2>1, <2>3, PinConstants DEF PinInv, OneInput, ProofInv, InputAt, OneMoves
  <2> QED
    BY <2>5, <2>6, <2>7, <2>8, <2>9 DEF PinInv
<1> QED
  BY <1>2, <1>3

\* Steps in which a call leaves the device, fails or ends.
LEMMA LeavesInv ==
  ASSUME PinInv, NEW i \in Inputs, OneMoves(i), input'[i].pc \in {"recover", "block", "ended"},
         input'[i].ret # "none" => input'[i].pc = "ended",
         input'[i].pc = "block" => input[i].pc = "device" /\ proof[i] # "none",
         input'[i].ret = "ok" => proof[i] # "none", input[i].pc # "new",
         activeInput' \in Inputs \cup {NoInput},
         \A j \in Inputs \ {i} : activeInput' = j <=> activeInput = j,
         activeInput' # NoInput => activeInput' = activeInput,
         input'[i].pc # "ended" => activeInput' = activeInput,
         control' \in Controls, control'.digits = control.digits,
         control'.confirmed = control.confirmed, pad' \in {pad, FreePad},
         pad'.busy => \/ input'[i].pc = "recover" \/ input[i].pc = "block"
                      \/ input'[i].ret = "unrecovered",
         proof' = proof, subscribed' = subscribed
  PROVE  PinInv'
<1>1. /\ PinTypes /\ OneInput /\ NoOrphanedEntry /\ DigitsInv /\ ProofInv
      /\ pad' \in Pads /\ (pad'.busy => pad' = pad) /\ (pad'.answer = "ok" => pad' = pad)
  BY PinConstants DEF PinInv, PinTypes
<1>2. Recovered' => Recovered
  BY <1>1, RecoveredBefore
<1>3. PinTypes'
  BY <1>1 DEF PinTypes, OneMoves
<1>4. OneInput'
  BY <1>1 DEF OneInput, OneMoves, AtDevice
<1>5. NoOrphanedEntry'
  <2> SUFFICES ASSUME pad'.busy, Recovered'
               PROVE  \E j \in Inputs : input'[j].pc \in {"device", "recover"}
    BY DEF NoOrphanedEntry
  <2>1. input'[i].ret # "unrecovered"
    BY DEF Recovered
  <2>2. CASE input'[i].pc = "recover"
    BY <2>2
  <2>3. CASE input[i].pc = "block"
    <3>1. PICK j \in Inputs : input[j].pc \in {"device", "recover"}
      BY <1>1, <1>2 DEF NoOrphanedEntry
    <3> QED
      BY <2>3, <3>1 DEF OneMoves
  <2> QED
    BY <2>1, <2>2, <2>3
<1>6. DigitsInv'
  BY <1>1, <1>2 DEF DigitsInv, InputAt, OneMoves
<1>7. ProofInv'
  BY <1>1 DEF ProofInv, InputAt, OneMoves
<1> QED
  BY <1>3, <1>4, <1>5, <1>6, <1>7 DEF PinInv

\* A call that fails is left to its recovery.
LEMMA FailsInv ==
  ASSUME PinInv, NEW i \in Inputs, input[i].pc \in {"queued", "device", "block"},
         InputTo(i, "recover"), activeInput' = activeInput, control' = control,
         pad' \in {pad, FreePad}, proof' = proof, subscribed' = subscribed
  PROVE  PinInv'
<1>1. "recover" \in InputPcs /\ PinTypes /\ OneInput
  BY DEF InputPcs, PinInv
<1>2. OneMoves(i) /\ input'[i].pc = "recover" /\ input'[i].ret = input[i].ret
  BY <1>1, InputToFacts
<1>3. input[i].ret = "none"
  BY <1>1 DEF OneInput
<1> QED
  BY <1>1, <1>2, <1>3, LeavesInv DEF PinTypes

\* CommandBegins: the device holds no key of the input that begins.
LEMMA CommandBeginsInv == ASSUME PinInv, NEW i \in Inputs, CommandBegins(i) PROVE PinInv'
<1>1. /\ input[i].pc = "queued" /\ Turn(i) /\ activeInput' = activeInput /\ control' = control
      /\ subscribed' = subscribed /\ proof' = proof
      /\ PinTypes /\ OneInput /\ DigitsInv /\ ProofInv
  BY DEF CommandBegins, InputAt, PinInv
<1>2. CASE InputTo(i, "device") /\ pad' = [FreePad EXCEPT !.busy = TRUE]
  <2>1. pad' \in Pads /\ pad'.keys = 0 /\ pad'.answer = "none"
    <3>1. FreePad \in Pads /\ FreePad.keys = 0 /\ FreePad.answer = "none"
      BY PinConstants DEF FreePad
    <3>2. pad' \in Pads
      BY <1>2, <3>1 DEF Pads
    <3>3. pad'.keys = FreePad.keys /\ pad'.answer = FreePad.answer
      BY <1>2, <3>1 DEF Pads
    <3> QED
      BY <3>1, <3>2, <3>3
  <2>2. "device" \in InputPcs
    BY DEF InputPcs
  <2>3. OneMoves(i) /\ input'[i].pc = "device" /\ input'[i].ret = input[i].ret
    BY <1>1, <1>2, <2>2, InputToFacts
  <2>4. Recovered' => Recovered
    BY <1>1, <2>3, RecoveredBefore
  <2>5. PinTypes'
    BY <1>1, <2>1, <2>3 DEF PinTypes, OneMoves
  <2>6. OneInput'
    BY <1>1, <2>3 DEF OneInput, OneMoves, AtDevice, Turn
  <2>7. NoOrphanedEntry'
    BY <2>3 DEF NoOrphanedEntry
  <2>8. DigitsInv'
    <3>1. ASSUME NEW j \in Inputs, activeInput = j, subscribed, Recovered', j # i PROVE FALSE
      BY <1>1, <3>1 DEF OneInput
    <3>2. ASSUME activeInput = i, subscribed, Recovered' PROVE control.digits = 0
      BY <1>1, <2>4, <3>2 DEF DigitsInv, InputAt
    <3> QED
      BY <1>1, <2>1, <2>3, <3>1, <3>2 DEF DigitsInv, InputAt
  <2>9. ProofInv'
    BY <1>1, <2>1, <2>3 DEF ProofInv, InputAt, OneMoves
  <2> QED
    BY <2>5, <2>6, <2>7, <2>8, <2>9 DEF PinInv
<1>3. CASE InputTo(i, "recover") /\ pad' = pad
  BY <1>1, <1>3, FailsInv
<1> QED
  BY <1>2, <1>3 DEF CommandBegins

\* KeyPressed: the control follows the keys of its input.
LEMMA KeyPressedInv == ASSUME PinInv, KeyPressed PROVE PinInv'
<1>1. /\ pad.busy /\ input' = input /\ activeInput' = activeInput /\ subscribed' = subscribed
      /\ proof' = proof /\ PinTypes /\ OneInput /\ DigitsInv /\ ProofInv /\ NoOrphanedEntry
  BY DEF KeyPressed, PinInv
<1>2. pad.keys \in 0..MaxLength
  BY <1>1 DEF PinTypes, Pads
<1>3. PICK n \in {pad.keys + 1, IF pad.keys > 0 THEN pad.keys - 1 ELSE 0, 0} :
        /\ n <= MaxLength /\ n # pad.keys /\ pad' = [pad EXCEPT !.keys = n]
        /\ control' = IF subscribed /\ activeInput # NoInput
                      THEN [control EXCEPT !.digits = Handled(n)] ELSE control
  BY DEF KeyPressed
<1>4. n \in 0..MaxLength /\ Handled(n) = n
  BY <1>2, <1>3, PinAssumption DEF Handled
<1>5. pad' \in Pads /\ pad'.keys = n /\ pad'.answer = pad.answer
  BY <1>1, <1>3, <1>4 DEF PinTypes, Pads
<1>6. /\ control' \in Controls /\ control'.confirmed = control.confirmed
      /\ IF subscribed /\ activeInput # NoInput THEN control'.digits = n
         ELSE control'.digits = control.digits
  BY <1>1, <1>3, <1>4 DEF PinTypes, Controls
<1>7. PinTypes' /\ OneInput'
  BY <1>1, <1>5, <1>6 DEF PinTypes, OneInput, AtDevice
<1>8. NoOrphanedEntry'
  BY <1>1 DEF NoOrphanedEntry, Recovered
<1>9. DigitsInv'
  <2>1. Recovered' <=> Recovered
    BY <1>1 DEF Recovered
  <2>2. ASSUME NEW i \in Inputs, activeInput = i, subscribed, Recovered PROVE ~InputAt(i, "queued")
    BY <1>1, <2>2, QueuedIsFree
  <2> QED
    BY <1>1, <1>5, <1>6, <2>1, <2>2, PinAssumption DEF DigitsInv, InputAt
<1>10. ProofInv'
  BY <1>1, <1>5, <1>6 DEF ProofInv, InputAt
<1> QED
  BY <1>7, <1>8, <1>9, <1>10 DEF PinInv

\* DeviceEnds: the answer belongs to the one input at the device.
LEMMA DeviceEndsInv == ASSUME PinInv, NEW i \in Inputs, DeviceEnds(i) PROVE PinInv'
<1>1. /\ input[i].pc = "device" /\ input' = input /\ activeInput' = activeInput
      /\ control' = control /\ subscribed' = subscribed /\ PinTypes /\ OneInput
  BY DEF DeviceEnds, InputAt, PinInv
<1>2. PICK a \in {"ok", "failed"} :
        /\ pad' = [pad EXCEPT !.busy = FALSE, !.answer = a]
        /\ proof' = [proof EXCEPT ![i] = IF a = "ok" THEN "device" ELSE @]
  BY DEF DeviceEnds
<1>3. pad' \in Pads /\ pad'.busy = FALSE /\ pad'.answer = a
  BY <1>1, <1>2 DEF PinTypes, Pads
<1>4. /\ proof' \in [Inputs -> {"none", "device", "confirmed"}]
      /\ \A j \in Inputs : proof[j] # "none" => proof'[j] # "none"
      /\ a = "ok" => proof'[i] # "none"
  BY <1>1, <1>2 DEF PinTypes
<1>5. a = "ok" => \A j \in Inputs : InputAt(j, "device") => proof'[j] # "none"
  BY <1>1, <1>4 DEF OneInput, AtDevice, InputAt
<1> QED
  BY <1>1, <1>3, <1>4, <1>5, PadStepInv DEF PinTypes

\* Cancelling leaves the device without a command and without a success.
LEMMA CancelledFacts ==
  ASSUME PinTypes
  PROVE  /\ Cancelled \in Pads /\ ~Cancelled.busy
         /\ Cancelled.answer = "ok" => pad.answer = "ok"
BY DEF Cancelled, PinTypes, Pads

\* Complete: what is confirmed is the active input, and it is the one running.
LEMMA CompleteInv == ASSUME PinInv, Complete PROVE PinInv'
<1>1. /\ input' = input /\ activeInput' = activeInput /\ pad' = pad /\ subscribed' = subscribed
      /\ activeInput \in Inputs /\ control.digits >= MinLength
      /\ control' = [control EXCEPT !.confirmed = TRUE]
      /\ proof' = [proof EXCEPT ![activeInput] = "confirmed"]
      /\ PinTypes /\ OneInput /\ DigitsInv
  BY DEF Complete, PinInv, PinTypes
<1>2. control' \in Controls /\ control'.digits = control.digits
  BY <1>1 DEF PinTypes, Controls
<1>3. subscribed
  BY <1>1, PinAssumption DEF DigitsInv
<1>4. /\ proof' \in [Inputs -> {"none", "device", "confirmed"}] /\ proof'[activeInput] # "none"
      /\ \A j \in Inputs : proof[j] # "none" => proof'[j] # "none"
  BY <1>1 DEF PinTypes
<1>5. \A i \in Inputs : input[i].pc \in {"queued", "device"} => proof'[i] # "none"
  BY <1>1, <1>3, <1>4 DEF OneInput
<1> QED
  BY <1>1, <1>2, <1>4, <1>5, PadStepInv DEF PinTypes

\* CompleteAnswered: the command is cancelled, or the completion is taken back.
LEMMA CompleteAnsweredInv == ASSUME PinInv, CompleteAnswered PROVE PinInv'
<1>1. /\ input' = input /\ activeInput' = activeInput /\ subscribed' = subscribed
      /\ proof' = proof /\ PinTypes /\ pad' \in {pad, Cancelled}
  BY DEF CompleteAnswered, PinInv
<1>2. /\ control' \in Controls /\ control'.digits = control.digits
      /\ control'.confirmed => control.confirmed
  BY ZenonT(60), <1>1 DEF CompleteAnswered, PinTypes, Controls
<1>3. /\ pad' \in Pads /\ (pad'.busy => pad' = pad)
      /\ (pad'.answer = "ok" => pad.answer = "ok")
  BY <1>1, CancelledFacts DEF PinTypes
<1> QED
  BY <1>1, <1>2, <1>3, PadStepInv DEF PinTypes

\* CancelInput: the command ends as cancelled.
LEMMA CancelInputInv == ASSUME PinInv, CancelInput PROVE PinInv'
<1>1. /\ input' = input /\ activeInput' = activeInput /\ subscribed' = subscribed
      /\ control' = control /\ proof' = proof /\ PinTypes /\ pad' \in {pad, Cancelled}
  BY DEF CancelInput, PinInv
<1>2. /\ pad' \in Pads /\ (pad'.busy => pad' = pad)
      /\ (pad'.answer = "ok" => pad.answer = "ok")
  BY <1>1, CancelledFacts DEF PinTypes
<1> QED
  BY <1>1, <1>2, PadStepInv DEF PinTypes

\* CommandAnswered: an accepted answer was proved for this input.
LEMMA CommandAnsweredInv == ASSUME PinInv, NEW i \in Inputs, CommandAnswered(i) PROVE PinInv'
<1>1. /\ input[i].pc = "device" /\ subscribed' = subscribed /\ proof' = proof
      /\ PinTypes /\ OneInput /\ ProofInv /\ input[i].ret = "none"
  BY DEF CommandAnswered, InputAt, PinInv, OneInput
<1>2. CASE /\ pad' = FreePad /\ Accepted(pad.answer)
           /\ control' = [control EXCEPT !.phase = "result"]
           /\ \/ InputTo(i, "block") /\ activeInput' = activeInput
              \/ InputEnds(i, "ok")
  <2>1. proof[i] # "none"
    BY <1>1, <1>2 DEF Accepted, ProofInv, InputAt
  <2>2. /\ control' \in Controls /\ control'.digits = control.digits
        /\ control'.confirmed = control.confirmed
    BY <1>1, <1>2 DEF PinTypes, Controls
  <2>3. "block" \in InputPcs /\ "ok" \in Rets /\ ~FreePad.busy
    BY PinConstants DEF InputPcs, Rets
  <2>4. CASE InputTo(i, "block") /\ activeInput' = activeInput
    <3>1. OneMoves(i) /\ input'[i].pc = "block" /\ input'[i].ret = input[i].ret
      BY <1>1, <2>3, <2>4, InputToFacts
    <3> QED
      BY <1>1, <1>2, <2>1, <2>2, <2>3, <2>4, <3>1, LeavesInv DEF PinTypes
  <2>5. CASE InputEnds(i, "ok")
    BY <1>1, <1>2, <2>1, <2>2, <2>3, <2>5, InputEndsFacts, LeavesInv
  <2> QED
    BY <1>2, <2>4, <2>5
<1>3. CASE pad' \in {pad, FreePad} /\ InputTo(i, "recover") /\ UNCHANGED <<activeInput, control>>
  BY <1>1, <1>3, FailsInv
<1> QED
  BY <1>2, <1>3 DEF CommandAnswered

\* PinBlock: the success of the input was proved before.
LEMMA PinBlockInv == ASSUME PinInv, NEW i \in Inputs, PinBlock(i) PROVE PinInv'
<1>1. /\ input[i].pc = "block" /\ control' = control /\ pad' = pad /\ subscribed' = subscribed
      /\ proof' = proof /\ PinTypes /\ ProofInv /\ "ok" \in Rets
  BY DEF PinBlock, InputAt, PinInv, Rets
<1>2. CASE InputEnds(i, "ok")
  <2>1. proof[i] # "none" /\ control \in Controls
    BY <1>1 DEF ProofInv, InputAt, PinTypes
  <2> QED
    BY <1>1, <1>2, <2>1, InputEndsFacts, LeavesInv
<1>3. CASE InputTo(i, "recover") /\ activeInput' = activeInput
  BY <1>1, <1>3, FailsInv
<1> QED
  BY <1>2, <1>3 DEF PinBlock

\* RecoverInput: the device is free again, or the caller is told.
LEMMA RecoverInputInv == ASSUME PinInv, NEW i \in Inputs, RecoverInput(i) PROVE PinInv'
<1>1. /\ input[i].pc = "recover" /\ control' = control /\ subscribed' = subscribed
      /\ proof' = proof /\ PinTypes /\ control \in Controls /\ ~FreePad.busy
      /\ "error" \in Rets /\ "unrecovered" \in Rets
  BY PinConstants DEF RecoverInput, InputAt, PinInv, PinTypes, Rets
<1>2. CASE pad' = FreePad /\ InputEnds(i, "error")
  BY <1>1, <1>2, InputEndsFacts, LeavesInv
<1>3. CASE pad' \in {pad, FreePad} /\ InputEnds(i, "unrecovered")
  BY <1>1, <1>3, InputEndsFacts, LeavesInv
<1> QED
  BY <1>2, <1>3 DEF RecoverInput

\* DisposePort: no input is active, and none is followed any more.
LEMMA DisposePortInv == ASSUME PinInv, DisposePort PROVE PinInv'
<1>1. /\ input' = input /\ control' = control /\ pad' = pad /\ proof' = proof
      /\ subscribed' = FALSE /\ activeInput' = NoInput
  BY DEF DisposePort
<1> QED
  BY <1>1 DEF PinInv, PinTypes, OneInput, AtDevice, NoOrphanedEntry, Recovered, DigitsInv, InputAt,
              ProofInv

\* Before the first input nothing is at the device.
LEMMA PinInitInv == ASSUME PinInit PROVE PinInv
<1>1. PinTypes
  BY PinConstants DEF PinInit, PinTypes, Calls, InputPcs, Rets
<1>2. OneInput /\ NoOrphanedEntry /\ DigitsInv /\ ProofInv
  BY PinConstants DEF PinInit, OneInput, AtDevice, NoOrphanedEntry, DigitsInv, ProofInv, InputAt
<1> QED
  BY <1>1, <1>2 DEF PinInv

\* Every step of the customer, the screen, the device and the calls keeps it.
LEMMA PinStepInv == ASSUME PinInv, [PinNext]_pinVars PROVE PinInv'
<1>1. CASE UNCHANGED pinVars
  BY <1>1, PadStepInv DEF pinVars, PinInv, PinTypes
<1>2. CASE CompleteAnswered \/ KeyPressed \/ Complete \/ CancelInput \/ DisposePort
  BY <1>2, CompleteAnsweredInv, KeyPressedInv, CompleteInv, CancelInputInv, DisposePortInv
<1>3. CASE \E i \in Inputs : BeginInput(i) \/ InputStep(i)
  BY <1>3, BeginInputInv, CommandBeginsInv, DeviceEndsInv, CommandAnsweredInv, PinBlockInv,
     RecoverInputInv DEF InputStep
<1> QED
  BY <1>1, <1>2, <1>3 DEF PinNext

\* XfsPinpadDevicePort: for any inputs, keys, confirmations, cancellations and
\* failures, the digits counted are those of the running input, a success was
\* confirmed for that input, and no entry is left open at the device unless the
\* caller knows.
THEOREM PinEntriesAreOwn == PinSpec => []PinEntryIsOwn
<1>1. PinInit => PinInv
  BY PinInitInv
<1>2. PinInv /\ [PinNext]_pinVars => PinInv'
  BY PinStepInv
<1>3. PinInv => PinEntryIsOwn
  <2> SUFFICES ASSUME PinInv PROVE PinEntryIsOwn
    OBVIOUS
  <2>1. PinTypeOK
    BY DEF PinInv, PinTypes, DigitsInv, PinTypeOK, Calls, Controls
  <2>2. SuccessIsConfirmed
    BY DEF PinInv, ProofInv, SuccessIsConfirmed
  <2> QED
    BY <2>1, <2>2 DEF PinEntryIsOwn, PinInv
<1> QED
  BY <1>1, <1>2, <1>3, PTL DEF PinSpec

-----------------------------------------------------------------------------
(* The sessions of the device service.                                     *)

ServiceTypes ==
  /\ svc \in [pc : ServicePcs, k : 0..Len(Devices), connected : BOOLEAN]
  /\ sessions \in [DeviceIds -> Nat] /\ contribs \in Seq(DeviceIds) /\ nextSid \in Nat \ {0}
  /\ native \subseteq 1..(nextSid - 1) /\ attempts \in Nat /\ spoiled \in BOOLEAN

Opened(d) == sessions[d] # 0

\* A session in the map is open and its device's own.
MapInv ==
  /\ \A d \in DeviceIds : Opened(d) => sessions[d] \in native
  /\ \A d, e \in DeviceIds : Opened(d) /\ sessions[d] = sessions[e] => d = e
  /\ \A d \in ToSet(contribs) : Opened(d)
  /\ svc.pc = "sessions" => contribs = <<>>

\* How far connect() has come.
ConnectInv ==
  /\ svc.pc # "idle" => attempts > 0
  /\ svc.pc \in {"open", "create"} =>
       /\ svc.k \in 1..Len(Devices) /\ ~svc.connected
       /\ \A i \in 1..(svc.k - 1) : Devices[i] \in ToSet(contribs)
  /\ svc.pc = "startup" => ~svc.connected
  /\ svc.pc = "create" => Opened(Devices[svc.k])
  /\ svc.connected /\ svc.pc = "idle" => \A i \in 1..Len(Devices) : Devices[i] \in ToSet(contribs)

\* After one connect(), the map holds every session that is open.
CleanInv ==
  ~spoiled =>
    /\ \A n \in native : \E d \in DeviceIds : sessions[d] = n
    /\ (svc.pc = "startup" \/ (svc.pc = "idle" /\ attempts = 0)) => \A d \in DeviceIds : ~Opened(d)
    /\ svc.pc = "open" => \A i \in svc.k..Len(Devices) : ~Opened(Devices[i])
    /\ svc.pc = "create" => \A i \in (svc.k + 1)..Len(Devices) : ~Opened(Devices[i])
    /\ svc.pc \in {"client", "disposed"} => native = {}

ServiceInv == ServiceTypes /\ MapInv /\ ConnectInv /\ CleanInv

Services == [pc : ServicePcs, k : 0..Len(Devices), connected : BOOLEAN]

\* The devices and their indices.
LEMMA DeviceFacts ==
  /\ Len(Devices) \in Nat \ {0} /\ \A i \in 1..Len(Devices) : Devices[i] \in DeviceIds
  /\ \A d \in DeviceIds : \E i \in 1..Len(Devices) : Devices[i] = d
BY DeviceAssumption DEF DeviceIds, ToSet

\* SvcTo() moves the service and keeps the rest.
LEMMA SvcToFacts ==
  ASSUME ServiceTypes, NEW l \in ServicePcs, SvcTo(l)
  PROVE  svc' \in Services /\ svc'.pc = l /\ svc'.k = svc.k /\ svc'.connected = svc.connected
BY DEF ServiceTypes, SvcTo, Services

\* Steps that only move the service.
LEMMA MoveInv ==
  ASSUME ServiceInv, svc' \in Services, sessions' = sessions, contribs' = contribs,
         native' = native, nextSid' = nextSid, attempts' \in Nat, spoiled' \in BOOLEAN,
         ~spoiled' => ~spoiled, svc'.pc = "sessions" => contribs = <<>>, ConnectInv',
         ~spoiled' => /\ (svc'.pc = "startup" \/ (svc'.pc = "idle" /\ attempts' = 0)) =>
                           \A d \in DeviceIds : ~Opened(d)
                      /\ svc'.pc = "open" => \A i \in svc'.k..Len(Devices) : ~Opened(Devices[i])
                      /\ svc'.pc # "create"
                      /\ svc'.pc \in {"client", "disposed"} => native = {}
  PROVE  ServiceInv'
<1>1. ServiceTypes'
  BY DEF ServiceInv, ServiceTypes, Services
<1>2. MapInv'
  BY DEF ServiceInv, MapInv, Opened
<1>3. CleanInv'
  BY DEF ServiceInv, CleanInv, Opened
<1> QED
  BY <1>1, <1>2, <1>3 DEF ServiceInv

\* Connect: only the first one finds the maps empty.
LEMMA ConnectStepInv == ASSUME ServiceInv, Connect PROVE ServiceInv'
<1>1. /\ svc.pc = "idle" /\ ~svc.connected /\ attempts \in Nat /\ attempts' = attempts + 1
      /\ sessions' = sessions /\ contribs' = contribs /\ native' = native /\ nextSid' = nextSid
      /\ ServiceTypes /\ spoiled' = (spoiled \/ attempts > 0)
  BY DEF Connect, ServiceInv, ServiceTypes
<1>2. "startup" \in ServicePcs /\ "idle" \in ServicePcs
  BY DEF ServicePcs
<1>3. svc' \in Services /\ svc'.pc \in {"startup", "idle"} /\ svc'.connected = svc.connected
  BY <1>1, <1>2, SvcToFacts DEF Connect, ConnectFails
<1>4. spoiled' \in BOOLEAN /\ attempts' \in Nat /\ attempts' > 0
  BY <1>1
<1>5. ~spoiled' => ~spoiled /\ \A d \in DeviceIds : ~Opened(d)
  <2>1. ~spoiled' => ~spoiled /\ ~(attempts > 0)
    BY <1>1, Zenon
  <2>2. ~(attempts > 0) => attempts = 0
    BY <1>1
  <2> QED
    BY <1>1, <2>1, <2>2 DEF ServiceInv, CleanInv
<1>6. ConnectInv'
  BY <1>1, <1>3, <1>4 DEF ConnectInv
<1> QED
  BY <1>1, <1>3, <1>4, <1>5, <1>6, MoveInv

\* A connect() that rejects leaves the maps as they are.
LEMMA ConnectFailsInv ==
  ASSUME ServiceInv, svc.pc \in {"startup", "open", "create"}, ConnectFails, sessions' = sessions,
         contribs' = contribs, native' = native, nextSid' = nextSid, attempts' = attempts,
         spoiled' = spoiled
  PROVE  ServiceInv'
<1>1. "idle" \in ServicePcs /\ ServiceTypes /\ ConnectInv /\ CleanInv
  BY DEF ServicePcs, ServiceInv
<1>2. svc' \in Services /\ svc'.pc = "idle" /\ svc'.connected = svc.connected
  BY <1>1, SvcToFacts DEF ConnectFails
<1>3. attempts > 0 /\ attempts \in Nat /\ ~svc.connected /\ spoiled \in BOOLEAN
  BY <1>1 DEF ConnectInv, ServiceTypes
<1>4. ConnectInv'
  BY <1>2, <1>3 DEF ConnectInv
<1> QED
  BY <1>2, <1>3, <1>4, MoveInv

\* Startup: the first device is next.
LEMMA StartupInv == ASSUME ServiceInv, Startup PROVE ServiceInv'
<1>1. /\ svc.pc = "startup" /\ sessions' = sessions /\ contribs' = contribs /\ native' = native
      /\ nextSid' = nextSid /\ attempts' = attempts /\ spoiled' = spoiled
      /\ ServiceTypes /\ ConnectInv /\ CleanInv
  BY DEF Startup, ServiceInv
<1>2. CASE svc' = [svc EXCEPT !.pc = "open", !.k = 1]
  <2>1. "open" \in ServicePcs /\ 1 \in 0..Len(Devices) /\ 1 \in 1..Len(Devices)
    BY DeviceFacts DEF ServicePcs
  <2>2. svc' \in Services /\ svc'.pc = "open" /\ svc'.k = 1 /\ svc'.connected = svc.connected
    BY <1>1, <1>2, <2>1 DEF ServiceTypes, Services
  <2>3. ~svc.connected /\ attempts > 0 /\ attempts \in Nat /\ spoiled \in BOOLEAN
    BY <1>1 DEF ConnectInv, ServiceTypes
  <2>4. ConnectInv'
    BY <1>1, <2>1, <2>2, <2>3 DEF ConnectInv
  <2>5. ~spoiled => \A i \in 1..Len(Devices) : ~Opened(Devices[i])
    BY <1>1, DeviceFacts DEF CleanInv
  <2> QED
    BY <1>1, <2>2, <2>3, <2>4, <2>5, MoveInv
<1>3. CASE ConnectFails
  BY <1>1, <1>3, ConnectFailsInv
<1> QED
  BY <1>2, <1>3 DEF Startup

\* Open: the session is new, and nothing is lost from the map by it.
LEMMA OpenInv == ASSUME ServiceInv, Open PROVE ServiceInv'
<1> DEFINE d == Devices[svc.k]
<1>1. /\ svc.pc = "open" /\ contribs' = contribs /\ attempts' = attempts
      /\ nextSid' = nextSid + 1 /\ ServiceTypes /\ MapInv /\ ConnectInv /\ CleanInv
  BY DEF Open, ServiceInv
<1>2. /\ svc.k \in 1..Len(Devices) /\ ~svc.connected /\ attempts > 0
      /\ \A i \in 1..(svc.k - 1) : Devices[i] \in ToSet(contribs)
  BY <1>1 DEF ConnectInv
<1>3. /\ nextSid \in Nat \ {0} /\ native \subseteq 1..(nextSid - 1) /\ nextSid' \in Nat \ {0}
      /\ native \subseteq 1..(nextSid' - 1) /\ nextSid \in 1..(nextSid' - 1) /\ nextSid \notin native
  BY <1>1 DEF ServiceTypes
<1>4. CASE /\ native' = native \cup {nextSid} /\ sessions' = [sessions EXCEPT ![d] = nextSid]
           /\ SvcTo("create") /\ spoiled' = spoiled
  <2>1. "create" \in ServicePcs /\ d \in DeviceIds
    BY <1>2, DeviceFacts DEF ServicePcs
  <2>2. svc' \in Services /\ svc'.pc = "create" /\ svc'.k = svc.k /\ svc'.connected = svc.connected
    BY <1>1, <1>4, <2>1, SvcToFacts
  <2>3. ~spoiled => /\ sessions[d] = 0
                    /\ \A i \in (svc.k + 1)..Len(Devices) : ~Opened(Devices[i]) /\ Devices[i] # d
    BY <1>1, <1>2, DeviceFacts, DeviceAssumption DEF CleanInv, Opened
  <2> HIDE DEF d
  <2>4. /\ sessions' \in [DeviceIds -> Nat] /\ sessions'[d] = nextSid
        /\ \A e \in DeviceIds \ {d} : sessions'[e] = sessions[e]
    BY <1>1, <1>3, <1>4, <2>1 DEF ServiceTypes
  <2>5. ServiceTypes'
    BY <1>1, <1>3, <1>4, <2>2, <2>4 DEF ServiceTypes, Services
  <2>6. \A e \in DeviceIds : Opened(e) => Opened(e)'
    BY <1>3, <2>4 DEF Opened
  <2>7. \A e \in DeviceIds \ {d} : Opened(e)' => sessions[e] \in native /\ sessions'[e] # nextSid
    BY <1>1, <1>3, <2>4 DEF MapInv, Opened
  <2>8. ToSet(contribs) \subseteq DeviceIds
    BY <1>1 DEF ServiceTypes, ToSet
  <2>9. MapInv'
    <3>1. \A e \in DeviceIds : Opened(e)' => sessions'[e] \in native'
      BY <1>4, <2>4, <2>7
    <3>2. ASSUME NEW e \in DeviceIds, NEW f \in DeviceIds, Opened(e)', sessions'[e] = sessions'[f]
          PROVE  e = f
      BY <1>1, <1>3, <2>4, <2>7, <3>2 DEF MapInv, Opened
    <3>3. \A e \in ToSet(contribs') : Opened(e)'
      BY <1>1, <2>6, <2>8 DEF MapInv
    <3> QED
      BY <2>2, <3>1, <3>2, <3>3 DEF MapInv
  <2>10. ConnectInv'
    <3>1. sessions'[Devices[svc.k]] # 0
      BY <1>3, <2>4 DEF d
    <3> QED
      BY <1>1, <1>2, <2>2, <3>1 DEF ConnectInv, Opened
  <2>11. CleanInv'
    <3> SUFFICES ASSUME ~spoiled
                 PROVE  /\ \A n \in native' : \E e \in DeviceIds : sessions'[e] = n
                        /\ \A i \in (svc.k + 1)..Len(Devices) : sessions'[Devices[i]] = 0
      BY <1>4, <2>2 DEF CleanInv, Opened
    <3>1. ASSUME NEW n \in native PROVE \E e \in DeviceIds : sessions'[e] = n
      <4>1. PICK e \in DeviceIds : sessions[e] = n
        BY <1>1 DEF CleanInv
      <4>2. e # d
        BY <1>3, <2>3, <4>1
      <4> QED
        BY <2>4, <4>1, <4>2
    <3>2. ASSUME NEW i \in (svc.k + 1)..Len(Devices) PROVE sessions'[Devices[i]] = 0
      <4>1. Devices[i] \in DeviceIds \ {d} /\ sessions[Devices[i]] = 0
        BY <1>2, <2>3, DeviceFacts DEF Opened
      <4> QED
        BY <2>4, <4>1
    <3> QED
      BY <1>4, <2>1, <2>4, <3>1, <3>2
  <2> QED
    BY <2>5, <2>9, <2>10, <2>11 DEF ServiceInv
<1>5. CASE /\ ConnectFails /\ sessions' = sessions
           /\ \/ native' = native \cup {nextSid} /\ spoiled' = TRUE
              \/ native' = native /\ spoiled' = spoiled
  <2>1. "idle" \in ServicePcs
    BY DEF ServicePcs
  <2>2. svc' \in Services /\ svc'.pc = "idle" /\ svc'.connected = svc.connected
    BY <1>1, <1>5, <2>1, SvcToFacts DEF ConnectFails
  <2>3. ServiceTypes'
    BY <1>1, <1>3, <1>5, <2>2 DEF ServiceTypes, Services
  <2>4. MapInv'
    BY <1>1, <1>5, <2>2 DEF MapInv, Opened
  <2>5. ConnectInv'
    BY <1>1, <1>2, <2>2 DEF ConnectInv
  <2>6. CleanInv'
    BY <1>1, <1>2, <1>5, <2>2 DEF CleanInv, Opened
  <2> QED
    BY <2>3, <2>4, <2>5, <2>6 DEF ServiceInv
<1> QED
  BY <1>4, <1>5 DEF Open

\* Create: the device has its session and now its contribution.
LEMMA CreateInv == ASSUME ServiceInv, Create PROVE ServiceInv'
<1> DEFINE d == Devices[svc.k]
<1>1. /\ svc.pc = "create" /\ sessions' = sessions /\ native' = native /\ nextSid' = nextSid
      /\ attempts' = attempts /\ spoiled' = spoiled
      /\ ServiceTypes /\ MapInv /\ ConnectInv /\ CleanInv
  BY DEF Create, ServiceInv
<1>2. /\ svc.k \in 1..Len(Devices) /\ ~svc.connected /\ attempts > 0 /\ Opened(d)
      /\ \A i \in 1..(svc.k - 1) : Devices[i] \in ToSet(contribs)
  BY <1>1 DEF ConnectInv
<1>3. d \in DeviceIds
  BY <1>2, DeviceFacts
<1>4. CASE /\ contribs' = IF d \in ToSet(contribs) THEN contribs ELSE Append(contribs, d)
           /\ svc' = IF svc.k < Len(Devices) THEN [svc EXCEPT !.pc = "open", !.k = @ + 1]
                     ELSE [svc EXCEPT !.pc = "idle", !.connected = TRUE]
  <2>1. /\ contribs' \in Seq(DeviceIds) /\ d \in ToSet(contribs')
        /\ ToSet(contribs) \subseteq ToSet(contribs') /\ ToSet(contribs') \subseteq ToSet(contribs) \cup {d}
    <3> HIDE DEF d
    <3>1. contribs \in Seq(DeviceIds)
      BY <1>1 DEF ServiceTypes
    <3> QED
      BY <1>3, <1>4, <3>1 DEF ToSet
  <2>2. \A i \in 1..svc.k : Devices[i] \in ToSet(contribs')
    BY <1>2, <2>1, DeviceFacts
  <2>3. MapInv' \/ svc'.pc = "sessions"
    <3>1. \A e \in ToSet(contribs') : Opened(e)
      BY <1>1, <1>2, <2>1 DEF MapInv
    <3> QED
      BY <1>1, <3>1 DEF MapInv, Opened
  <2>4. CASE svc.k < Len(Devices)
    <3>1. svc' = [svc EXCEPT !.pc = "open", !.k = svc.k + 1]
      BY <1>4, <2>4
    <3>2. svc.k + 1 \in 0..Len(Devices) /\ svc.k + 1 \in 1..Len(Devices) /\ "open" \in ServicePcs
      BY <1>2, <2>4, DeviceFacts DEF ServicePcs
    <3>3. /\ svc' \in Services /\ svc'.pc = "open" /\ svc'.k = svc.k + 1
          /\ svc'.connected = svc.connected
      BY <1>1, <3>1, <3>2 DEF ServiceTypes, Services
    <3>4. ServiceTypes'
      BY <1>1, <2>1, <3>3 DEF ServiceTypes, Services
    <3>5. svc'.k - 1 = svc.k
      BY <1>2, <3>3, DeviceFacts
    <3>6. ConnectInv'
      BY <1>1, <1>2, <2>2, <3>2, <3>3, <3>5 DEF ConnectInv
    <3>7. CleanInv'
      BY <1>1, <3>3 DEF CleanInv, Opened
    <3> QED
      BY <2>3, <3>3, <3>4, <3>6, <3>7 DEF ServiceInv
  <2>5. CASE svc.k = Len(Devices)
    <3>1. svc' = [svc EXCEPT !.pc = "idle", !.connected = TRUE]
      BY <1>2, <1>4, <2>5, DeviceFacts
    <3>2. "idle" \in ServicePcs
      BY DEF ServicePcs
    <3>3. svc' \in Services /\ svc'.pc = "idle"
      BY <1>1, <3>1, <3>2 DEF ServiceTypes, Services
    <3>4. ServiceTypes'
      BY <1>1, <2>1, <3>3 DEF ServiceTypes, Services
    <3>5. ConnectInv'
      BY <1>1, <2>2, <2>5, <3>3 DEF ConnectInv
    <3>6. CleanInv'
      BY <1>1, <1>2, <3>3 DEF CleanInv, Opened
    <3> QED
      BY <2>3, <3>3, <3>4, <3>5, <3>6 DEF ServiceInv
  <2> QED
    BY <1>2, <2>4, <2>5, DeviceFacts
<1>5. CASE ConnectFails /\ contribs' = contribs
  BY <1>1, <1>5, ConnectFailsInv
<1> QED
  BY <1>4, <1>5 DEF Create

\* The order of dispose().
LEMMA OrderFacts ==
  /\ DisposeOrder[1] = "contributions" /\ AfterPart("contributions") = "sessions"
  /\ AfterPart("sessions") = "client"
BY DEF DisposeOrder, AfterPart

\* Steps of dispose() that change no map.
LEMMA DisposeMoveInv ==
  ASSUME ServiceInv, NEW l \in {"contributions", "sessions", "client"}, SvcTo(l),
         sessions' = sessions, contribs' = contribs, native' = native, nextSid' = nextSid,
         attempts' = attempts, attempts > 0, spoiled' = TRUE \/ spoiled' = spoiled,
         l = "sessions" => contribs = <<>>, l = "client" /\ ~spoiled' => native = {}
  PROVE  ServiceInv'
<1>1. l \in ServicePcs /\ ServiceTypes
  BY DEF ServicePcs, ServiceInv
<1>2. svc' \in Services /\ svc'.pc = l
  BY <1>1, SvcToFacts
<1>3. attempts \in Nat /\ spoiled' \in BOOLEAN /\ (~spoiled' => ~spoiled)
  BY <1>1 DEF ServiceTypes
<1>4. ConnectInv'
  BY <1>2 DEF ConnectInv
<1> QED
  BY <1>2, <1>3, <1>4, MoveInv

\* Dispose: contributions go first.
LEMMA DisposeInv == ASSUME ServiceInv, Dispose PROVE ServiceInv'
<1>1. /\ SvcTo("contributions") /\ attempts > 0 /\ sessions' = sessions /\ contribs' = contribs
      /\ native' = native /\ nextSid' = nextSid /\ attempts' = attempts /\ spoiled' = spoiled
  BY OrderFacts DEF Dispose
<1> QED
  BY <1>1, DisposeMoveInv

\* DisposeContribution: its session is still open.
LEMMA DisposeContributionInv == ASSUME ServiceInv, DisposeContribution PROVE ServiceInv'
<1>1. /\ svc.pc = "contributions" /\ sessions' = sessions /\ native' = native /\ nextSid' = nextSid
      /\ attempts' = attempts /\ attempts > 0
      /\ ServiceTypes /\ MapInv /\ ConnectInv /\ CleanInv
  BY DEF DisposeContribution, ServiceInv, ConnectInv
<1>2. CASE contribs # <<>> /\ contribs' = Front(contribs) /\ svc' = svc /\ spoiled' = spoiled
  <2>1. contribs \in Seq(DeviceIds) /\ Len(contribs) > 0
    BY <1>1, <1>2 DEF ServiceTypes
  <2>2. contribs' \in Seq(DeviceIds) /\ ToSet(contribs') \subseteq ToSet(contribs)
    BY <1>2, <2>1 DEF Front, ToSet
  <2>3. ServiceTypes'
    BY <1>1, <1>2, <2>2 DEF ServiceTypes
  <2>4. MapInv'
    BY <1>1, <1>2, <2>2 DEF MapInv, Opened
  <2>5. ConnectInv' /\ CleanInv'
    BY <1>1, <1>2 DEF ConnectInv, CleanInv, Opened
  <2> QED
    BY <2>3, <2>4, <2>5 DEF ServiceInv
<1>3. CASE spoiled' = TRUE /\ SvcTo("client") /\ contribs' = contribs
  BY <1>1, <1>3, DisposeMoveInv
<1>4. CASE contribs = <<>> /\ SvcTo("sessions") /\ contribs' = contribs /\ spoiled' = spoiled
  BY <1>1, <1>4, DisposeMoveInv
<1> QED
  BY <1>2, <1>3, <1>4, OrderFacts DEF DisposeContribution

\* CloseSession: only the device's own session is closed.
LEMMA CloseSessionInv == ASSUME ServiceInv, CloseSession PROVE ServiceInv'
<1>1. /\ svc.pc = "sessions" /\ contribs' = contribs /\ contribs = <<>> /\ nextSid' = nextSid
      /\ attempts' = attempts /\ attempts > 0
      /\ ServiceTypes /\ MapInv /\ ConnectInv /\ CleanInv
  BY DEF CloseSession, ServiceInv, ConnectInv, MapInv
<1>2. CASE /\ \A d \in DeviceIds : sessions[d] = 0
           /\ SvcTo("client") /\ UNCHANGED <<sessions, native, spoiled>>
  <2>1. ~spoiled => native = {}
    BY <1>1, <1>2 DEF CleanInv, ServiceTypes
  <2> QED
    BY <1>1, <1>2, <2>1, DisposeMoveInv
<1>3. CASE \E d \in DeviceIds :
             /\ sessions[d] # 0 /\ native' = native \ {sessions[d]}
             /\ sessions' = [sessions EXCEPT ![d] = 0] /\ UNCHANGED <<svc, spoiled>>
  <2>1. PICK d \in DeviceIds :
             /\ sessions[d] # 0 /\ native' = native \ {sessions[d]}
             /\ sessions' = [sessions EXCEPT ![d] = 0] /\ UNCHANGED <<svc, spoiled>>
    BY <1>3
  <2>2. /\ sessions' \in [DeviceIds -> Nat] /\ sessions'[d] = 0
        /\ \A e \in DeviceIds \ {d} : sessions'[e] = sessions[e]
    BY <1>1, <2>1 DEF ServiceTypes
  <2>3. ServiceTypes'
    BY <1>1, <2>1, <2>2 DEF ServiceTypes
  <2>4. MapInv'
    <3>1. ToSet(contribs) = {}
      BY <1>1 DEF ToSet
    <3>2. \A e \in DeviceIds : Opened(e)' =>
            e # d /\ sessions'[e] = sessions[e] /\ sessions[e] # sessions[d] /\ sessions[e] \in native
      BY <1>1, <2>1, <2>2 DEF MapInv, Opened
    <3> QED
      BY <1>1, <2>1, <2>2, <3>1, <3>2 DEF MapInv, Opened
  <2>5. ConnectInv'
    BY <1>1, <2>1 DEF ConnectInv
  <2>6. CleanInv'
    <3> SUFFICES ASSUME ~spoiled, NEW n \in native'
                 PROVE  \E e \in DeviceIds : sessions'[e] = n
      BY <1>1, <2>1 DEF CleanInv
    <3>1. PICK e \in DeviceIds : sessions[e] = n
      BY <1>1, <2>1 DEF CleanInv
    <3> QED
      BY <2>1, <2>2, <3>1
  <2> QED
    BY <2>3, <2>4, <2>5, <2>6 DEF ServiceInv
<1>4. CASE spoiled' = TRUE /\ SvcTo("client") /\ UNCHANGED <<sessions, native>>
  BY <1>1, <1>4, DisposeMoveInv
<1> QED
  BY <1>2, <1>3, <1>4, OrderFacts DEF CloseSession

\* DisposeClient: the end, whatever was left open.
LEMMA DisposeClientInv == ASSUME ServiceInv, DisposeClient PROVE ServiceInv'
<1>1. /\ svc.pc = "client" /\ svc' = [svc EXCEPT !.pc = "disposed", !.connected = FALSE]
      /\ sessions' = sessions /\ contribs' = contribs /\ native' = native /\ nextSid' = nextSid
      /\ attempts' = attempts /\ spoiled' = spoiled /\ ServiceTypes /\ ConnectInv /\ CleanInv
  BY DEF DisposeClient, ServiceInv
<1>2. "disposed" \in ServicePcs
  BY DEF ServicePcs
<1>3. svc' \in Services /\ svc'.pc = "disposed"
  BY <1>1, <1>2 DEF ServiceTypes, Services
<1>4. attempts > 0 /\ attempts \in Nat /\ spoiled \in BOOLEAN /\ (~spoiled => native = {})
  BY <1>1 DEF ConnectInv, CleanInv, ServiceTypes
<1>5. ConnectInv'
  BY <1>1, <1>3, <1>4 DEF ConnectInv
<1> QED
  BY <1>1, <1>3, <1>4, <1>5, MoveInv

\* Before connect() nothing is open.
LEMMA ServiceInitInv == ASSUME ServiceInit PROVE ServiceInv
<1>1. ServiceTypes
  <2>1. "idle" \in ServicePcs /\ 0 \in 0..Len(Devices)
    BY DeviceFacts DEF ServicePcs
  <2>2. svc \in [pc : ServicePcs, k : 0..Len(Devices), connected : BOOLEAN]
    BY <2>1 DEF ServiceInit
  <2>3. sessions \in [DeviceIds -> Nat] /\ contribs \in Seq(DeviceIds)
    BY DEF ServiceInit
  <2>4. spoiled \in BOOLEAN
    BY Zenon DEF ServiceInit
  <2>5. nextSid \in Nat \ {0} /\ native \subseteq 1..(nextSid - 1) /\ attempts \in Nat
    BY DEF ServiceInit
  <2> QED
    BY <2>2, <2>3, <2>4, <2>5 DEF ServiceTypes
<1>2. MapInv
  BY DEF ServiceInit, MapInv, Opened, ToSet
<1>3. ConnectInv /\ CleanInv
  BY DEF ServiceInit, ConnectInv, CleanInv, Opened
<1> QED
  BY <1>1, <1>2, <1>3 DEF ServiceInv

\* Every step of connect() and dispose() keeps it.
LEMMA ServiceStepInv == ASSUME ServiceInv, [ServiceNext]_serviceVars PROVE ServiceInv'
<1>1. CASE UNCHANGED serviceVars
  <2>1. /\ svc' = svc /\ sessions' = sessions /\ contribs' = contribs /\ native' = native
        /\ nextSid' = nextSid /\ attempts' = attempts /\ spoiled' = spoiled
    BY <1>1 DEF serviceVars
  <2> QED
    BY <2>1 DEF ServiceInv, ServiceTypes, MapInv, ConnectInv, CleanInv, Opened
<1>2. CASE Connect \/ Dispose
  BY <1>2, ConnectStepInv, DisposeInv
<1>3. CASE ServiceStep
  BY <1>3, StartupInv, OpenInv, CreateInv, DisposeContributionInv, CloseSessionInv, DisposeClientInv
     DEF ServiceStep
<1> QED
  BY <1>1, <1>2, <1>3 DEF ServiceNext

\* XfsDeviceService: for any devices and any number of rejected calls and
\* repeated connects, a contribution that is not disposed has an open native
\* session of its own, a connected service serves every device, and after one
\* connect() a dispose() without rejections leaves no session open.
THEOREM ServiceSessionsAreOwned == ServiceSpec => []SessionsAreOwned
<1>1. ServiceInit => ServiceInv
  BY ServiceInitInv
<1>2. ServiceInv /\ [ServiceNext]_serviceVars => ServiceInv'
  BY ServiceStepInv
<1>3. ServiceInv => SessionsAreOwned
  <2> SUFFICES ASSUME ServiceInv PROVE SessionsAreOwned
    OBVIOUS
  <2>1. ToSet(contribs) \subseteq DeviceIds
    BY DEF ServiceInv, ServiceTypes, ToSet
  <2>2. ContributionHasSession
    BY <2>1 DEF ServiceInv, MapInv, ContributionHasSession
  <2>3. ServiceTypeOK
    <3>1. svc.pc \in ServicePcs /\ svc.k \in 0..Len(Devices) /\ native \subseteq 1..(nextSid - 1)
      BY DEF ServiceInv, ServiceTypes
    <3>2. ASSUME svc.connected, svc.pc = "idle" PROVE DeviceIds \subseteq ToSet(contribs)
      BY <3>2, DeviceFacts DEF ServiceInv, ConnectInv
    <3> QED
      BY <2>1, <2>2, <3>1, <3>2 DEF ServiceTypeOK, ContributionHasSession
  <2>4. CleanDispose
    BY DEF ServiceInv, CleanInv, CleanDispose
  <2> QED
    BY <2>2, <2>3, <2>4 DEF SessionsAreOwned
<1> QED
  BY <1>1, <1>2, <1>3, PTL DEF ServiceSpec

-----------------------------------------------------------------------------
(* Leased commands.                                                        *)

Cmds == [pc : CommandPcs, token : Nat, ret : {"none", "ok", "error"}]
Leases == [owner : {"none", "executor", "session", "other"}, token : Nat]
LeaseTypes ==
  /\ cmd \in [Commands -> Cmds]
  /\ queue \in [LeaseServices -> Seq(Commands)] /\ asked \in [LeaseServices -> Seq(Commands)]
  /\ started \in [LeaseServices -> Seq(Commands)]
  /\ lease \in [LeaseServices -> Leases]
  /\ tokens \in Nat /\ client \in BOOLEAN
  /\ \A c \in Commands : cmd[c].token <= tokens

\* Without a client nothing is chained and no lease is taken.
NoClientInv ==
  ~client => /\ \A c \in Commands : cmd[c].pc \in {"new", "command", "ended"} /\ cmd[c].token = 0
             /\ \A s \in LeaseServices : queue[s] = <<>>

Pcs == [c \in Commands |-> cmd[c].pc]

\* The chain q of a service is the rest of its calls a, of which n have settled,
\* and only its head has begun.
ChainOK(s, q, a, n, pc) ==
  /\ n \in Nat /\ Len(a) = n + Len(q)
  /\ \A i \in 1..Len(q) : q[i] = a[n + i]
  /\ \A i \in 1..Len(q) : pc[q[i]] # "ended" /\ (i > 1 => pc[q[i]] = "queued")
  /\ \A i \in 1..Len(a) : ServiceOf[a[i]] = s /\ pc[a[i]] # "new"
  /\ \A i, j \in 1..Len(a) : a[i] = a[j] => i = j
  /\ \A c \in Commands : (ServiceOf[c] = s /\ pc[c] \notin {"new", "ended"}) =>
       \E i \in 1..Len(q) : q[i] = c

\* The commands that began, b, did so in the order of the calls.
OrderOK(a, b, n, pc) ==
  /\ \A i \in 1..Len(b) : \E k \in 1..Len(a) :
       /\ a[k] = b[i] /\ k <= n + 1
       /\ k = n + 1 => pc[a[k]] \in {"command", "release"}
  /\ \A i, j \in 1..Len(b) : i < j =>
       \E k, l \in 1..Len(a) : k < l /\ a[k] = b[i] /\ a[l] = b[j]

Settled(s) == Len(asked[s]) - Len(queue[s])
ChainInv(s) ==
  /\ ChainOK(s, queue[s], asked[s], Settled(s), Pcs)
  /\ OrderOK(asked[s], started[s], Settled(s), Pcs)

\* A lease of the executor is its running command's, or was lost with an answer.
TokenInv ==
  \A s \in LeaseServices : lease[s].owner = "executor" =>
    /\ lease[s].token > 0
    /\ \/ s \in leaked
       \/ /\ client
          /\ \E c \in Commands : /\ ServiceOf[c] = s /\ cmd[c].pc \in {"command", "release"}
                                /\ cmd[c].token = lease[s].token

LeaseInv ==
  /\ LeaseTypes /\ NoClientInv /\ TokenInv
  /\ client => \A s \in LeaseServices : ChainInv(s)

IsHead(c, q, a, n) ==
  /\ Len(q) \in Nat \ {0} /\ q # <<>> /\ q[1] = c /\ Head(q) = c
  /\ n \in Nat /\ Len(a) \in Nat /\ n + 1 \in 1..Len(a) /\ a[n + 1] = c
Owned(s, q, a, n) ==
  /\ n \in Nat /\ Len(q) \in Nat /\ Len(a) \in Nat /\ Len(a) = n + Len(q)
  /\ \A i \in 1..Len(a) : a[i] \in Commands /\ ServiceOf[a[i]] = s
  /\ \A i \in 1..Len(q) : n + i \in 1..Len(a) /\ q[i] = a[n + i]
  /\ \A i \in 1..Len(q) : q[i] \in Commands /\ ServiceOf[q[i]] = s

\* No call but c moves, and no call of s but the head, which goes on.
SameBut(c, pc, pd) == \A d \in Commands \ {c} : pd[d] = pc[d]
HeadMoves(s, q, pc, pd) ==
  \A d \in Commands : ServiceOf[d] = s =>
    \/ pd[d] = pc[d]
    \/ /\ q[1] = d /\ pc[d] \notin {"new", "ended"} /\ pd[d] \notin {"new", "ended"}
       /\ pc[d] \in {"command", "release"} => pd[d] \in {"command", "release"}

\* A call that has begun is the head of its chain.
LEMMA HeadFacts ==
  ASSUME NEW s, NEW q \in Seq(Commands), NEW a \in Seq(Commands), NEW n, NEW pc,
         ChainOK(s, q, a, n, pc), NEW c \in Commands, ServiceOf[c] = s,
         \/ pc[c] \in {"status", "acquire", "command", "release"}
         \/ pc[c] = "queued" /\ Head(q) = c
  PROVE  IsHead(c, q, a, n)
<1>1. PICK i \in 1..Len(q) : q[i] = c
  BY DEF ChainOK
<1>2. Len(q) \in Nat \ {0} /\ q # <<>> /\ Len(a) \in Nat /\ n \in Nat /\ Len(a) = n + Len(q)
  BY <1>1 DEF ChainOK
<1>3. q[1] = c /\ Head(q) = c
  BY <1>1, <1>2 DEF ChainOK
<1>4. 1 \in 1..Len(q) /\ n + 1 \in 1..Len(a)
  BY <1>2
<1>5. a[n + 1] = c
  BY <1>3, <1>4 DEF ChainOK
<1> QED
  BY <1>2, <1>3, <1>4, <1>5 DEF IsHead

\* Only the head is the head.
LEMMA HeadIsOne ==
  ASSUME NEW s, NEW q \in Seq(Commands), NEW a \in Seq(Commands), NEW n, NEW pc,
         ChainOK(s, q, a, n, pc), NEW i \in 1..Len(q), i > 1
  PROVE  q[i] # q[1]
<1>1. n \in Nat /\ Len(a) = n + Len(q) /\ Len(q) \in Nat /\ Len(a) \in Nat
  BY DEF ChainOK
<1>2. 1 \in 1..Len(q) /\ n + i \in 1..Len(a) /\ n + 1 \in 1..Len(a) /\ n + i # n + 1
  BY <1>1
<1>3. q[i] = a[n + i] /\ q[1] = a[n + 1]
  BY <1>2 DEF ChainOK
<1> QED
  BY <1>2, <1>3 DEF ChainOK

\* The chain and the calls of a service are the service's own.
LEMMA OwnFacts ==
  ASSUME NEW s, NEW q \in Seq(Commands), NEW a \in Seq(Commands), NEW n, NEW pc,
         ChainOK(s, q, a, n, pc)
  PROVE  Owned(s, q, a, n)
<1>1. n \in Nat /\ Len(q) \in Nat /\ Len(a) \in Nat /\ Len(a) = n + Len(q)
  BY DEF ChainOK
<1>2. \A i \in 1..Len(a) : a[i] \in Commands /\ ServiceOf[a[i]] = s
  BY DEF ChainOK
<1>3. \A i \in 1..Len(q) : n + i \in 1..Len(a)
  BY <1>1
<1>4. \A i \in 1..Len(q) : q[i] = a[n + i]
  BY DEF ChainOK
<1> QED
  BY <1>1, <1>2, <1>3, <1>4 DEF Owned

\* What happens to one service leaves the others alone, and the head of a chain
\* may go on.
LEMMA MoveChain ==
  ASSUME NEW s, NEW q \in Seq(Commands), NEW a \in Seq(Commands), NEW b \in Seq(Commands), NEW n,
         NEW pc, NEW pd, ChainOK(s, q, a, n, pc), OrderOK(a, b, n, pc),
         HeadMoves(s, q, pc, pd)
  PROVE  ChainOK(s, q, a, n, pd) /\ OrderOK(a, b, n, pd)
<1>1. /\ \A i \in 1..Len(a) : a[i] \in Commands /\ ServiceOf[a[i]] = s
      /\ \A i \in 1..Len(q) : q[i] \in Commands /\ ServiceOf[q[i]] = s
  <2>1. Owned(s, q, a, n)
    BY OwnFacts, Zenon
  <2> QED
    BY <2>1 DEF Owned
<1>2. \A i \in 1..Len(q) : pd[q[i]] # "ended" /\ (i > 1 => pd[q[i]] = "queued")
  <2>1. \A i \in 1..Len(q) : i > 1 => q[i] # q[1]
    BY HeadIsOne, Zenon
  <2> QED
    BY <1>1, <2>1 DEF ChainOK, HeadMoves
<1>3. \A i \in 1..Len(a) : ServiceOf[a[i]] = s /\ pd[a[i]] # "new"
  BY <1>1 DEF ChainOK, HeadMoves
<1>4. \A c \in Commands : (ServiceOf[c] = s /\ pd[c] \notin {"new", "ended"}) =>
        \E i \in 1..Len(q) : q[i] = c
  BY DEF ChainOK, HeadMoves
<1>5. ChainOK(s, q, a, n, pd)
  BY <1>2, <1>3, <1>4 DEF ChainOK
<1>6. \A k \in 1..Len(a) :
        pc[a[k]] \in {"command", "release"} => pd[a[k]] \in {"command", "release"}
  BY <1>1 DEF HeadMoves
<1>7. OrderOK(a, b, n, pd)
  BY <1>6 DEF OrderOK
<1> QED
  BY <1>5, <1>7

\* The command of the head begins.
LEMMA StartOrder ==
  ASSUME NEW s, NEW q \in Seq(Commands), NEW a \in Seq(Commands), NEW b \in Seq(Commands), NEW n,
         NEW pc, NEW pd, ChainOK(s, q, a, n, pc), OrderOK(a, b, n, pc), NEW c \in Commands,
         ServiceOf[c] = s, pc[c] \in {"status", "acquire"}, pd[c] = "command"
  PROVE  OrderOK(a, Append(b, c), n, pd)
<1> DEFINE m == Len(b)
           d == Append(b, c)
<1>1. n \in Nat /\ Len(a) \in Nat /\ n + 1 \in 1..Len(a) /\ a[n + 1] = c
  <2>1. pc[c] \in {"status", "acquire", "command", "release"}
    OBVIOUS
  <2>2. IsHead(c, q, a, n)
    BY <2>1, HeadFacts, Zenon
  <2> QED
    BY <2>2 DEF IsHead
<1>2. /\ m \in Nat /\ Len(d) = m + 1 /\ d[m + 1] = c
      /\ \A i \in 1..m : d[i] = b[i]
  OBVIOUS
\* What began before is before the head.
<1>3. ASSUME NEW i \in 1..m PROVE \E k \in 1..Len(a) : a[k] = b[i] /\ k <= n
  <2>1. PICK k \in 1..Len(a) :
          a[k] = b[i] /\ k <= n + 1 /\ (k = n + 1 => pc[a[k]] \in {"command", "release"})
    BY DEF OrderOK
  <2>2. k # n + 1
    BY <1>1, <2>1
  <2>3. k <= n
    BY <1>1, <2>1, <2>2
  <2> QED
    BY <2>1, <2>3
<1> HIDE DEF m, d
<1>4. \A i \in 1..(m + 1) : i \in 1..m \/ i = m + 1
  BY <1>2
<1>5. ASSUME NEW i \in 1..(m + 1)
      PROVE  \E k \in 1..Len(a) : /\ a[k] = d[i] /\ k <= n + 1
                                  /\ k = n + 1 => pd[a[k]] \in {"command", "release"}
  <2>1. CASE i \in 1..m
    <3>1. PICK k \in 1..Len(a) : a[k] = b[i] /\ k <= n
      BY <1>3, <2>1
    <3>2. k <= n + 1 /\ k # n + 1
      BY <1>1, <3>1
    <3>3. a[k] = d[i]
      BY <1>2, <2>1, <3>1
    <3> QED
      BY <3>2, <3>3
  <2>2. CASE i = m + 1
    <3>1. n + 1 <= n + 1
      BY <1>1
    <3> QED
      BY <1>1, <1>2, <2>2, <3>1
  <2> QED
    BY <1>4, <2>1, <2>2
<1>6. ASSUME NEW i \in 1..(m + 1), NEW j \in 1..(m + 1), i < j
      PROVE  \E k, l \in 1..Len(a) : k < l /\ a[k] = d[i] /\ a[l] = d[j]
  <2>1. i \in 1..m /\ d[i] = b[i]
    <3>1. i \in 1..m
      BY <1>2, <1>6
    <3> QED
      BY <1>2, <3>1
  <2>2. CASE j \in 1..m
    <3>1. PICK k \in 1..Len(a), l \in 1..Len(a) : k < l /\ a[k] = b[i] /\ a[l] = b[j]
      BY <1>6, <2>1, <2>2 DEF OrderOK, m
    <3>2. d[j] = b[j]
      BY <1>2, <2>2
    <3> QED
      BY <2>1, <3>1, <3>2
  <2>3. CASE j = m + 1
    <3>1. PICK k \in 1..Len(a) : a[k] = b[i] /\ k <= n
      BY <1>3, <2>1
    <3>2. k < n + 1
      BY <1>1, <3>1
    <3>3. d[j] = c
      BY <1>2, <2>3
    <3> QED
      BY <1>1, <2>1, <3>1, <3>2, <3>3
  <2> QED
    BY <1>4, <2>2, <2>3
<1>7. OrderOK(a, d, n, pd)
  BY <1>2, <1>5, <1>6 DEF OrderOK
<1> QED
  BY <1>7 DEF d

Shortened(s, q, a, b, n, pc, c) ==
  /\ Unchain(q, c) \in Seq(Commands) /\ Len(Unchain(q, c)) = Len(q) - 1
  /\ ChainOK(s, Unchain(q, c), a, n + 1, pc) /\ OrderOK(a, b, n + 1, pc)

\* The head settles: the next call is the head.
LEMMA EndChain ==
  ASSUME NEW s, NEW q \in Seq(Commands), NEW a \in Seq(Commands), NEW b \in Seq(Commands), NEW n,
         NEW pc, NEW pd, ChainOK(s, q, a, n, pc), OrderOK(a, b, n, pc), NEW c \in Commands,
         ServiceOf[c] = s, pc[c] \in {"status", "acquire", "command", "release"}, pd[c] = "ended",
         SameBut(c, pc, pd)
  PROVE  Shortened(s, q, a, b, n, pd, c)
<1> DEFINE t == Tail(q)
<1>1. IsHead(c, q, a, n) /\ Owned(s, q, a, n)
  BY HeadFacts, OwnFacts, Zenon
<1>2. /\ n \in Nat /\ Len(q) \in Nat \ {0} /\ Len(a) \in Nat /\ Len(a) = n + Len(q)
      /\ q # <<>> /\ q[1] = c /\ Head(q) = c /\ n + 1 \in 1..Len(a) /\ a[n + 1] = c
  BY <1>1 DEF IsHead, Owned
<1>3. Unchain(q, c) = t
  BY <1>2 DEF Unchain
<1>4. /\ t \in Seq(Commands) /\ Len(t) = Len(q) - 1
      /\ \A i \in 1..(Len(q) - 1) : t[i] = q[i + 1]
  BY <1>2
<1> HIDE DEF t
<1>5. \A i \in 1..(Len(q) - 1) :
        i + 1 \in 1..Len(q) /\ i + 1 > 1 /\ n + (i + 1) = (n + 1) + i /\ n + 1 \in Nat
  BY <1>2
<1>6. \A i \in 1..Len(t) : t[i] = a[(n + 1) + i]
  BY <1>1, <1>4, <1>5 DEF Owned
<1>7. \A i \in 1..Len(t) : pd[t[i]] # "ended" /\ pd[t[i]] = "queued"
  <2> SUFFICES ASSUME NEW i \in 1..(Len(q) - 1) PROVE pd[q[i + 1]] = "queued"
    BY <1>4
  <2>1. i + 1 \in 1..Len(q) /\ i + 1 > 1
    BY <1>5
  <2>2. pc[q[i + 1]] = "queued" /\ q[i + 1] \in Commands
    BY <1>1, <2>1 DEF ChainOK, Owned
  <2>3. q[i + 1] # c
    BY <2>2
  <2> QED
    BY <2>2, <2>3 DEF SameBut
<1>8. \A i \in 1..Len(a) : ServiceOf[a[i]] = s /\ pd[a[i]] # "new"
  BY <1>1 DEF ChainOK, Owned, SameBut
<1>9. ASSUME NEW d \in Commands, ServiceOf[d] = s, pd[d] \notin {"new", "ended"}
      PROVE  \E i \in 1..Len(t) : t[i] = d
  <2>1. d # c /\ pc[d] \notin {"new", "ended"}
    BY <1>9 DEF SameBut
  <2>2. PICK j \in 1..Len(q) : q[j] = d
    BY <1>9, <2>1 DEF ChainOK
  <2>3. j # 1
    BY <1>2, <2>1, <2>2
  <2>4. j - 1 \in 1..(Len(q) - 1) /\ (j - 1) + 1 = j
    BY <1>2, <2>3
  <2>5. t[j - 1] = d
    BY <1>4, <2>2, <2>4
  <2> QED
    BY <1>4, <2>4, <2>5
<1>10. n + 1 \in Nat /\ Len(a) = (n + 1) + Len(t)
  BY <1>2, <1>4
<1>11. ChainOK(s, t, a, n + 1, pd)
  <2>1. \A i, j \in 1..Len(a) : a[i] = a[j] => i = j
    BY DEF ChainOK
  <2> QED
    BY <1>6, <1>7, <1>8, <1>9, <1>10, <2>1 DEF ChainOK
<1>12. OrderOK(a, b, n + 1, pd)
  <2>1. \A k \in 1..Len(a) : k <= n + 1 => k <= (n + 1) + 1 /\ k # (n + 1) + 1
    BY <1>2
  <2>2. \A i \in 1..Len(b) : \E k \in 1..Len(a) : a[k] = b[i] /\ k <= n + 1
    BY DEF OrderOK
  <2>3. \A i \in 1..Len(b) : \E k \in 1..Len(a) :
          a[k] = b[i] /\ k <= (n + 1) + 1 /\ k # (n + 1) + 1
    BY <2>1, <2>2
  <2>4. \A i, j \in 1..Len(b) : i < j =>
          \E k, l \in 1..Len(a) : k < l /\ a[k] = b[i] /\ a[l] = b[j]
    BY DEF OrderOK
  <2> QED
    BY ZenonT(60), <2>3, <2>4, Zenon DEF OrderOK
<1> QED
  BY <1>3, <1>4, <1>11, <1>12 DEF Shortened

\* A new call joins the end of the chain.
LEMMA AskChain ==
  ASSUME NEW s, NEW q \in Seq(Commands), NEW a \in Seq(Commands), NEW b \in Seq(Commands), NEW n,
         NEW pc, NEW pd, ChainOK(s, q, a, n, pc), OrderOK(a, b, n, pc), NEW c \in Commands,
         ServiceOf[c] = s, pc[c] = "new", pd[c] = "queued",
         SameBut(c, pc, pd)
  PROVE  ChainOK(s, Append(q, c), Append(a, c), n, pd) /\ OrderOK(Append(a, c), b, n, pd)
<1> DEFINE x == Append(q, c)
           y == Append(a, c)
<1>1. Owned(s, q, a, n)
  BY OwnFacts, Zenon
<1>2. n \in Nat /\ Len(q) \in Nat /\ Len(a) \in Nat /\ Len(a) = n + Len(q)
  BY <1>1 DEF Owned
<1>3. /\ Len(x) = Len(q) + 1 /\ x[Len(q) + 1] = c /\ \A i \in 1..Len(q) : x[i] = q[i]
      /\ Len(y) = Len(a) + 1 /\ y[Len(a) + 1] = c /\ \A i \in 1..Len(a) : y[i] = a[i]
  OBVIOUS
<1> HIDE DEF x, y
<1>4. /\ \A i \in 1..(Len(q) + 1) : i \in 1..Len(q) \/ i = Len(q) + 1
      /\ \A i \in 1..(Len(a) + 1) : i \in 1..Len(a) \/ i = Len(a) + 1
      /\ \A i \in 1..Len(a) : i \in 1..(Len(a) + 1)
      /\ \A i \in 1..Len(q) : i \in 1..(Len(q) + 1)
      /\ Len(q) + 1 \in 1..(Len(q) + 1)
  BY SMTT(40), <1>2
<1>5. \A i \in 1..Len(a) : /\ a[i] \in Commands /\ ServiceOf[a[i]] = s /\ a[i] # c
                           /\ pd[a[i]] = pc[a[i]] /\ pc[a[i]] # "new"
  BY <1>1 DEF ChainOK, Owned, SameBut
<1>6. \A i \in 1..Len(q) :
        /\ n + i \in 1..Len(a) /\ q[i] = a[n + i] /\ pd[q[i]] = pc[q[i]]
        /\ pc[q[i]] # "ended" /\ (i > 1 => pc[q[i]] = "queued")
  BY <1>1, <1>5 DEF ChainOK, Owned
<1>7. ASSUME NEW i \in 1..(Len(q) + 1)
      PROVE  x[i] = y[n + i] /\ pd[x[i]] # "ended" /\ (i > 1 => pd[x[i]] = "queued")
  <2>1. CASE i \in 1..Len(q)
    <3>1. x[i] = q[i] /\ y[n + i] = a[n + i] /\ q[i] = a[n + i]
      BY <1>3, <1>6, <2>1
    <3> QED
      BY <1>6, <2>1, <3>1
  <2>2. CASE i = Len(q) + 1
    <3>1. n + i = Len(a) + 1
      BY <1>2, <2>2
    <3> QED
      BY <1>3, <2>2, <3>1
  <2> QED
    BY <1>4, <2>1, <2>2
<1>8. \A i \in 1..(Len(a) + 1) : ServiceOf[y[i]] = s /\ pd[y[i]] # "new"
  BY <1>3, <1>4, <1>5
<1>9. ASSUME NEW i \in 1..(Len(a) + 1), NEW j \in 1..(Len(a) + 1), y[i] = y[j] PROVE i = j
  <2>1. i \in 1..Len(a) => y[i] = a[i] /\ a[i] # c
    BY <1>3, <1>5
  <2>2. j \in 1..Len(a) => y[j] = a[j] /\ a[j] # c
    BY <1>3, <1>5
  <2>3. \A k, l \in 1..Len(a) : a[k] = a[l] => k = l
    BY DEF ChainOK
  <2> QED
    BY <1>3, <1>4, <1>9, <2>1, <2>2, <2>3
<1>10. ASSUME NEW d \in Commands, ServiceOf[d] = s, pd[d] \notin {"new", "ended"}
       PROVE  \E i \in 1..(Len(q) + 1) : x[i] = d
  <2>1. CASE d = c
    BY <1>3, <1>4, <2>1
  <2>2. CASE d # c
    <3>1. PICK i \in 1..Len(q) : q[i] = d
      BY <1>10, <2>2 DEF ChainOK, SameBut
    <3> QED
      BY <1>3, <1>4, <3>1
  <2> QED
    BY <2>1, <2>2
<1>11. ChainOK(s, x, y, n, pd)
  <2>1. n \in Nat /\ Len(y) = n + Len(x)
    BY <1>2, <1>3
  <2>2. \A i \in 1..Len(x) : x[i] = y[n + i]
    BY <1>3, <1>7
  <2>3. \A i \in 1..Len(x) : pd[x[i]] # "ended" /\ (i > 1 => pd[x[i]] = "queued")
    BY <1>3, <1>7
  <2>4. \A i \in 1..Len(y) : ServiceOf[y[i]] = s /\ pd[y[i]] # "new"
    BY <1>3, <1>8
  <2>5. \A i, j \in 1..Len(y) : y[i] = y[j] => i = j
    BY <1>3, <1>9
  <2>6. \A d \in Commands : (ServiceOf[d] = s /\ pd[d] \notin {"new", "ended"}) =>
          \E i \in 1..Len(x) : x[i] = d
    BY <1>3, <1>10
  <2> QED
    BY <2>1, <2>2, <2>3, <2>4, <2>5, <2>6, Zenon DEF ChainOK
<1>12. OrderOK(y, b, n, pd)
  <2>1. ASSUME NEW i \in 1..Len(b)
        PROVE  \E k \in 1..Len(y) :
                 y[k] = b[i] /\ k <= n + 1 /\ (k = n + 1 => pd[y[k]] \in {"command", "release"})
    <3>1. PICK k \in 1..Len(a) :
            a[k] = b[i] /\ k <= n + 1 /\ (k = n + 1 => pc[a[k]] \in {"command", "release"})
      BY DEF OrderOK
    <3>2. y[k] = a[k] /\ pd[a[k]] = pc[a[k]] /\ k \in 1..Len(y)
      BY <1>3, <1>4, <1>5
    <3> QED
      BY <3>1, <3>2
  <2>2. ASSUME NEW i \in 1..Len(b), NEW j \in 1..Len(b), i < j
        PROVE  \E k, l \in 1..Len(y) : k < l /\ y[k] = b[i] /\ y[l] = b[j]
    <3>1. PICK k \in 1..Len(a), l \in 1..Len(a) : k < l /\ a[k] = b[i] /\ a[l] = b[j]
      BY <2>2 DEF OrderOK
    <3>2. y[k] = a[k] /\ k \in 1..Len(y) /\ y[l] = a[l] /\ l \in 1..Len(y)
      BY <1>3, <1>4
    <3> QED
      BY <3>1, <3>2
  <2> QED
    BY <2>1, <2>2, Zenon DEF OrderOK
<1> QED
  BY <1>11, <1>12 DEF x, y

\* One call moves.
OneCall(c) ==
  /\ cmd' \in [Commands -> Cmds] /\ \A d \in Commands \ {c} : cmd'[d] = cmd[d]
  /\ cmd'[c].token <= tokens' /\ tokens' \in Nat /\ tokens <= tokens'

\* The other calls and services are left alone.
LEMMA OneServiceInv ==
  ASSUME LeaseInv, client, client' = client, NEW c \in Commands, OneCall(c),
         lease' \in [LeaseServices -> Leases],
         queue' \in [LeaseServices -> Seq(Commands)], asked' \in [LeaseServices -> Seq(Commands)],
         started' \in [LeaseServices -> Seq(Commands)],
         \A t \in LeaseServices \ {ServiceOf[c]} :
           queue'[t] = queue[t] /\ asked'[t] = asked[t] /\ started'[t] = started[t],
         ChainInv(ServiceOf[c])', TokenInv'
  PROVE  LeaseInv'
<1>1. LeaseTypes
  BY DEF LeaseInv
<1>2. LeaseTypes'
  <2>1. \A d \in Commands : cmd'[d].token <= tokens'
    <3>1. \A d \in Commands : cmd[d].token \in Nat /\ cmd[d].token <= tokens
      BY <1>1 DEF LeaseTypes, Cmds
    <3>2. tokens \in Nat
      BY <1>1 DEF LeaseTypes
    <3>3. \A d \in Commands \ {c} : cmd'[d] = cmd[d]
      BY DEF OneCall
    <3>4. tokens' \in Nat /\ tokens <= tokens' /\ cmd'[c].token <= tokens'
      BY DEF OneCall
    <3>5. ASSUME NEW d \in Commands, d # c PROVE cmd'[d].token <= tokens'
      BY <3>1, <3>2, <3>3, <3>4, <3>5
    <3> QED
      BY <3>4, <3>5
  <2> QED
    BY <1>1, <2>1 DEF LeaseTypes, OneCall
<1>3. ASSUME NEW t \in LeaseServices PROVE ChainInv(t)'
  <2>1. CASE t = ServiceOf[c]
    BY <2>1
  <2>2. CASE t # ServiceOf[c]
    <3>1. /\ queue[t] \in Seq(Commands) /\ asked[t] \in Seq(Commands)
          /\ started[t] \in Seq(Commands) /\ queue'[t] = queue[t] /\ asked'[t] = asked[t]
          /\ started'[t] = started[t] /\ Settled(t)' = Settled(t)
      BY <1>1, <2>2 DEF LeaseTypes, Settled
    <3>2. HeadMoves(t, queue[t], Pcs, Pcs')
      BY <2>2 DEF OneCall, Pcs, HeadMoves
    <3>3. ChainOK(t, queue[t], asked[t], Settled(t), Pcs) /\ OrderOK(asked[t], started[t], Settled(t), Pcs)
      BY DEF LeaseInv, ChainInv
    <3>4. /\ ChainOK(t, queue[t], asked[t], Settled(t), Pcs')
          /\ OrderOK(asked[t], started[t], Settled(t), Pcs')
      BY <3>1, <3>2, <3>3, MoveChain, Zenon
    <3> QED
      BY <3>1, <3>4 DEF ChainInv
  <2> QED
    BY <2>1, <2>2
<1>4. NoClientInv'
  BY DEF NoClientInv
<1> QED
  BY <1>2, <1>3, <1>4 DEF LeaseInv

\* The lease of the executor stays with its command.
LEMMA TokenKept ==
  ASSUME LeaseInv, NEW c \in Commands, OneCall(c), lease' = lease, client' = client,
         leaked \subseteq leaked',
         \/ cmd[c].pc \notin {"command", "release"} \/ cmd[c].token = 0 \/ ServiceOf[c] \in leaked'
         \/ cmd'[c].pc \in {"command", "release"} /\ cmd'[c].token = cmd[c].token
  PROVE  TokenInv'
<1> SUFFICES ASSUME NEW s \in LeaseServices, lease[s].owner = "executor"
             PROVE  /\ lease[s].token > 0
                    /\ \/ s \in leaked'
                       \/ /\ client
                          /\ \E d \in Commands :
                               /\ ServiceOf[d] = s /\ cmd'[d].pc \in {"command", "release"}
                               /\ cmd'[d].token = lease[s].token
  BY DEF TokenInv
<1>1. lease[s].token > 0
  BY DEF LeaseInv, TokenInv
<1>2. CASE s \in leaked
  BY <1>1, <1>2
<1>3. CASE s \notin leaked
  <2>1. client
    BY <1>3 DEF LeaseInv, TokenInv
  <2>2. PICK d \in Commands : /\ ServiceOf[d] = s /\ cmd[d].pc \in {"command", "release"}
                              /\ cmd[d].token = lease[s].token
    BY <1>3 DEF LeaseInv, TokenInv
  <2>3. CASE d # c
    BY <1>1, <2>1, <2>2, <2>3 DEF OneCall
  <2>4. CASE d = c
    <3>1. cmd[c].token # 0
      BY <1>1, <2>2, <2>4
    <3> QED
      BY <1>1, <2>1, <2>2, <2>4, <3>1
  <2> QED
    BY <2>3, <2>4
<1> QED
  BY <1>2, <1>3

\* The state of a service that a step with a client starts from.
LEMMA ServiceFacts ==
  ASSUME LeaseInv, NEW c \in Commands
  PROVE  /\ ServiceOf[c] \in LeaseServices /\ cmd[c] \in Cmds /\ Pcs[c] = cmd[c].pc
         /\ queue[ServiceOf[c]] \in Seq(Commands) /\ asked[ServiceOf[c]] \in Seq(Commands)
         /\ started[ServiceOf[c]] \in Seq(Commands) /\ tokens \in Nat /\ cmd[c].token <= tokens
         /\ client => LET s == ServiceOf[c] IN
              /\ ChainOK(s, queue[s], asked[s], Settled(s), Pcs)
              /\ OrderOK(asked[s], started[s], Settled(s), Pcs)
<1>1. ServiceOf[c] \in LeaseServices
  BY DEF LeaseServices
<1> QED
  BY <1>1 DEF LeaseInv, LeaseTypes, ChainInv, Pcs

\* The head of a chain goes on without starting its command.
LEMMA GoesOnInv ==
  ASSUME LeaseInv, client, client' = client, NEW c \in Commands, OneCall(c),
         \/ cmd[c].pc \in {"status", "acquire", "command", "release"}
         \/ cmd[c].pc = "queued" /\ First(c),
         cmd'[c].pc \notin {"new", "ended"},
         cmd[c].pc \in {"command", "release"} => cmd'[c].pc \in {"command", "release"},
         queue' = queue, asked' = asked, started' = started, lease' \in [LeaseServices -> Leases],
         TokenInv'
  PROVE  LeaseInv'
<1> DEFINE s == ServiceOf[c]
<1>1. /\ s \in LeaseServices /\ queue[s] \in Seq(Commands) /\ asked[s] \in Seq(Commands)
      /\ started[s] \in Seq(Commands) /\ Pcs[c] = cmd[c].pc
      /\ ChainOK(s, queue[s], asked[s], Settled(s), Pcs)
      /\ OrderOK(asked[s], started[s], Settled(s), Pcs)
  BY ServiceFacts
<1>2. IsHead(c, queue[s], asked[s], Settled(s))
  <2>1. \/ Pcs[c] \in {"status", "acquire", "command", "release"}
        \/ Pcs[c] = "queued" /\ Head(queue[s]) = c
    BY <1>1 DEF First
  <2> QED
    BY <1>1, <2>1, HeadFacts, Zenon
<1>3. queue[s][1] = c
  BY <1>2 DEF IsHead
<1>4. HeadMoves(s, queue[s], Pcs, Pcs')
  BY <1>3 DEF OneCall, Pcs, HeadMoves
<1>5. /\ ChainOK(s, queue[s], asked[s], Settled(s), Pcs')
      /\ OrderOK(asked[s], started[s], Settled(s), Pcs')
  BY <1>1, <1>4, MoveChain, Zenon
<1>6. ChainInv(s)'
  BY <1>5 DEF ChainInv, Settled
<1>7. LeaseTypes
  BY DEF LeaseInv
<1> QED
  BY <1>6, <1>7, OneServiceInv DEF LeaseTypes

\* The head of a chain starts its command.
LEMMA StartsInv ==
  ASSUME LeaseInv, client, client' = client, NEW c \in Commands, OneCall(c),
         cmd[c].pc \in {"status", "acquire"}, cmd'[c].pc = "command", Starts(c),
         queue' = queue, asked' = asked, lease' \in [LeaseServices -> Leases], TokenInv'
  PROVE  LeaseInv'
<1> DEFINE s == ServiceOf[c]
<1>1. /\ s \in LeaseServices /\ queue[s] \in Seq(Commands) /\ asked[s] \in Seq(Commands)
      /\ started[s] \in Seq(Commands) /\ Pcs[c] = cmd[c].pc
      /\ ChainOK(s, queue[s], asked[s], Settled(s), Pcs)
      /\ OrderOK(asked[s], started[s], Settled(s), Pcs)
  BY ServiceFacts
<1>2. LeaseTypes
  BY DEF LeaseInv
<1>3. /\ started' \in [LeaseServices -> Seq(Commands)] /\ started'[s] = Append(started[s], c)
      /\ \A t \in LeaseServices \ {s} : started'[t] = started[t]
  BY <1>1, <1>2 DEF Starts, LeaseTypes
<1>4. Pcs[c] \in {"status", "acquire"} /\ Pcs'[c] = "command"
  BY <1>1 DEF Pcs
<1>5. OrderOK(asked[s], Append(started[s], c), Settled(s), Pcs')
  BY <1>1, <1>4, StartOrder, Zenon
<1>6. IsHead(c, queue[s], asked[s], Settled(s))
  <2>1. Pcs[c] \in {"status", "acquire", "command", "release"}
    BY <1>4
  <2> QED
    BY <1>1, <2>1, HeadFacts, Zenon
<1>7. HeadMoves(s, queue[s], Pcs, Pcs')
  BY <1>4, <1>6 DEF OneCall, Pcs, IsHead, HeadMoves
<1>8. ChainOK(s, queue[s], asked[s], Settled(s), Pcs')
  BY <1>1, <1>7, MoveChain, Zenon
<1>9. ChainInv(s)'
  BY <1>3, <1>5, <1>8 DEF ChainInv, Settled
<1> QED
  BY <1>2, <1>3, <1>9, OneServiceInv DEF LeaseTypes

\* A call settles, and the chain goes on.
LEMMA EndsInv ==
  ASSUME LeaseInv, client' = client, NEW c \in Commands, NEW r \in {"none", "ok", "error"},
         cmd[c].pc \in {"status", "acquire", "command", "release"}, Ends(c, r),
         tokens' \in Nat, tokens <= tokens', asked' = asked, started' = started,
         lease' \in [LeaseServices -> Leases], OneCall(c) => TokenInv'
  PROVE  LeaseInv'
<1> DEFINE s == ServiceOf[c]
           e == [pc |-> "ended", token |-> 0, ret |-> r]
<1>1. /\ s \in LeaseServices /\ queue[s] \in Seq(Commands) /\ asked[s] \in Seq(Commands)
      /\ started[s] \in Seq(Commands) /\ Pcs[c] = cmd[c].pc
      /\ client => /\ ChainOK(s, queue[s], asked[s], Settled(s), Pcs)
                   /\ OrderOK(asked[s], started[s], Settled(s), Pcs)
  BY ServiceFacts
<1>2. LeaseTypes
  BY DEF LeaseInv
<1>3. e \in Cmds /\ e.pc = "ended" /\ e.token = 0
  BY DEF Cmds, CommandPcs
<1>4. cmd' = [cmd EXCEPT ![c] = e] /\ queue' = [queue EXCEPT ![s] = Unchain(queue[s], c)]
  BY <1>1, <1>2 DEF Ends, LeaseTypes
<1> HIDE DEF e
<1>5. OneCall(c) /\ cmd'[c] = e
  BY <1>2, <1>3, <1>4 DEF OneCall, LeaseTypes
<1>6. CASE client
  <2>1. Pcs[c] \in {"status", "acquire", "command", "release"} /\ Pcs'[c] = "ended"
    BY <1>1, <1>3, <1>5 DEF Pcs
  <2>2. SameBut(c, Pcs, Pcs')
    BY <1>5 DEF Pcs, OneCall, SameBut
  <2>3. /\ Unchain(queue[s], c) \in Seq(Commands)
        /\ Len(Unchain(queue[s], c)) = Len(queue[s]) - 1
        /\ ChainOK(s, Unchain(queue[s], c), asked[s], Settled(s) + 1, Pcs')
        /\ OrderOK(asked[s], started[s], Settled(s) + 1, Pcs')
    <3>1. /\ ChainOK(s, queue[s], asked[s], Settled(s), Pcs)
          /\ OrderOK(asked[s], started[s], Settled(s), Pcs)
      BY <1>1, <1>6
    <3>2. Shortened(s, queue[s], asked[s], started[s], Settled(s), Pcs', c)
      BY <1>1, <2>1, <2>2, <3>1, EndChain, Zenon
    <3> QED
      BY <3>2 DEF Shortened
  <2>4. /\ queue' \in [LeaseServices -> Seq(Commands)] /\ queue'[s] = Unchain(queue[s], c)
        /\ \A t \in LeaseServices \ {s} : queue'[t] = queue[t]
    BY <1>1, <1>2, <1>4, <2>3 DEF LeaseTypes
  <2>5. Settled(s)' = Settled(s) + 1
    <3>1. Len(asked[s]) \in Nat /\ Len(queue[s]) \in Nat
      BY <1>1
    <3>2. Len(queue'[s]) = Len(queue[s]) - 1 /\ asked'[s] = asked[s]
      BY <2>3, <2>4
    <3> QED
      BY <3>1, <3>2 DEF Settled
  <2>6. ChainInv(s)'
    BY <2>3, <2>4, <2>5 DEF ChainInv
  <2> QED
    BY <1>2, <1>5, <1>6, <2>4, <2>6, OneServiceInv DEF LeaseTypes
<1>7. CASE ~client
  <2>1. \A t \in LeaseServices : queue[t] = <<>>
    BY <1>7 DEF LeaseInv, NoClientInv
  <2>2. Unchain(queue[s], c) = <<>>
    BY <1>1, <2>1 DEF Unchain
  <2>3. \A t \in LeaseServices : queue'[t] = <<>>
    BY <1>1, <1>2, <1>4, <2>1, <2>2 DEF LeaseTypes
  <2>4. queue' \in [LeaseServices -> Seq(Commands)]
    BY <1>1, <1>2, <1>4, <2>2 DEF LeaseTypes
  <2>5. LeaseTypes'
    <3>1. \A d \in Commands : cmd'[d].token = 0
      BY <1>3, <1>5, <1>7 DEF LeaseInv, NoClientInv, OneCall
    <3> QED
      BY <1>2, <1>5, <2>4, <3>1 DEF LeaseTypes, OneCall
  <2>6. NoClientInv'
    BY <1>3, <1>5, <1>7, <2>3 DEF LeaseInv, NoClientInv, OneCall
  <2> QED
    BY <1>5, <1>7, <2>5, <2>6 DEF LeaseInv
<1> QED
  BY <1>6, <1>7

\* CmdTo() moves one call.
LEMMA CmdToFacts ==
  ASSUME LeaseInv, NEW c \in Commands, NEW l \in CommandPcs, CmdTo(c, l), tokens' = tokens
  PROVE  OneCall(c) /\ cmd'[c].pc = l /\ cmd'[c].token = cmd[c].token
<1> DEFINE e == [cmd[c] EXCEPT !.pc = l]
<1>1. LeaseTypes
  BY DEF LeaseInv
<1>2. cmd' = [cmd EXCEPT ![c] = e]
  BY DEF CmdTo
<1>3. cmd[c] \in Cmds /\ cmd[c].token <= tokens /\ tokens \in Nat
  BY ServiceFacts
<1>4. e \in Cmds /\ e.pc = l /\ e.token = cmd[c].token
  BY <1>3 DEF Cmds
<1> HIDE DEF e
<1>5. cmd' \in [Commands -> Cmds] /\ cmd'[c] = e /\ \A d \in Commands \ {c} : cmd'[d] = cmd[d]
  BY <1>1, <1>2, <1>4 DEF LeaseTypes
<1> QED
  BY <1>3, <1>4, <1>5 DEF OneCall

\* RunCommand: the call is chained, or its command begins without a client.
LEMMA RunCommandInv == ASSUME LeaseInv, NEW c \in Commands, RunCommand(c) PROVE LeaseInv'
<1> DEFINE s == ServiceOf[c]
<1>1. /\ cmd[c].pc = "new" /\ asked' = [asked EXCEPT ![s] = Append(@, c)]
      /\ lease' = lease /\ tokens' = tokens /\ leaked' = leaked /\ client' = client
      /\ "queued" \in CommandPcs /\ "command" \in CommandPcs /\ LeaseTypes
  BY DEF RunCommand, CmdAt, hostLease, CommandPcs, LeaseInv
<1>2. /\ s \in LeaseServices /\ queue[s] \in Seq(Commands) /\ asked[s] \in Seq(Commands)
      /\ started[s] \in Seq(Commands) /\ Pcs[c] = cmd[c].pc
      /\ client => /\ ChainOK(s, queue[s], asked[s], Settled(s), Pcs)
                   /\ OrderOK(asked[s], started[s], Settled(s), Pcs)
  BY ServiceFacts
<1>3. /\ asked' \in [LeaseServices -> Seq(Commands)] /\ asked'[s] = Append(asked[s], c)
      /\ \A t \in LeaseServices \ {s} : asked'[t] = asked[t]
  BY <1>1, <1>2 DEF LeaseTypes
<1>4. CASE client
  <2>1. CmdTo(c, "queued") /\ queue' = [queue EXCEPT ![s] = Append(@, c)] /\ started' = started
    BY <1>4 DEF RunCommand
  <2>2. OneCall(c) /\ cmd'[c].pc = "queued"
    BY <1>1, <2>1, CmdToFacts
  <2>3. /\ queue' \in [LeaseServices -> Seq(Commands)] /\ queue'[s] = Append(queue[s], c)
        /\ \A t \in LeaseServices \ {s} : queue'[t] = queue[t]
    BY <1>1, <1>2, <2>1 DEF LeaseTypes
  <2>4. Pcs[c] = "new" /\ Pcs'[c] = "queued" /\ SameBut(c, Pcs, Pcs')
    BY <1>1, <2>2 DEF Pcs, OneCall, SameBut
  <2>5. /\ ChainOK(s, queue[s], asked[s], Settled(s), Pcs)
        /\ OrderOK(asked[s], started[s], Settled(s), Pcs)
    BY <1>2, <1>4
  <2>6. /\ ChainOK(s, Append(queue[s], c), Append(asked[s], c), Settled(s), Pcs')
        /\ OrderOK(Append(asked[s], c), started[s], Settled(s), Pcs')
    BY <1>2, <2>4, <2>5, AskChain, Zenon
  <2>7. Settled(s)' = Settled(s)
    <3>1. /\ Len(asked[s]) \in Nat /\ Len(queue[s]) \in Nat
          /\ Len(asked'[s]) = Len(asked[s]) + 1 /\ Len(queue'[s]) = Len(queue[s]) + 1
      BY <1>2, <1>3, <2>3
    <3> QED
      BY <3>1 DEF Settled
  <2>8. ChainInv(s)'
    BY <1>3, <2>1, <2>3, <2>6, <2>7 DEF ChainInv
  <2>9. TokenInv'
    BY <1>1, <2>2, TokenKept
  <2> QED
    BY <1>1, <1>3, <1>4, <2>1, <2>2, <2>3, <2>8, <2>9, OneServiceInv DEF LeaseTypes
<1>5. CASE ~client
  <2>1. CmdTo(c, "command") /\ Starts(c) /\ queue' = queue
    BY <1>5 DEF RunCommand
  <2>2. OneCall(c) /\ cmd'[c].pc = "command" /\ cmd'[c].token = cmd[c].token
    BY <1>1, <2>1, CmdToFacts
  <2>3. TokenInv'
    BY <1>1, <2>2, TokenKept
  <2>4. NoClientInv'
    BY <1>1, <1>5, <2>1, <2>2 DEF LeaseInv, NoClientInv, OneCall
  <2>5. started' \in [LeaseServices -> Seq(Commands)]
    BY <1>1, <1>2, <2>1 DEF Starts, LeaseTypes
  <2>6. \A d \in Commands : cmd'[d].token = 0
    BY <1>1, <1>5, <2>4 DEF NoClientInv
  <2>7. LeaseTypes'
    BY <1>1, <1>3, <2>1, <2>2, <2>5, <2>6 DEF LeaseTypes, OneCall
  <2> QED
    BY <1>1, <1>5, <2>3, <2>4, <2>7 DEF LeaseInv
<1> QED
  BY <1>4, <1>5

\* A call beyond its command's start is not one without a client.
LEMMA HasClient ==
  ASSUME LeaseInv, NEW c \in Commands, cmd[c].pc \in {"queued", "status", "acquire", "release"}
  PROVE  client
BY DEF LeaseInv, NoClientInv

\* ChainReaches: the head goes on to read the lease.
LEMMA ChainReachesInv == ASSUME LeaseInv, NEW c \in Commands, ChainReaches(c) PROVE LeaseInv'
<1>1. /\ cmd[c].pc = "queued" /\ First(c) /\ CmdTo(c, "status") /\ queue' = queue /\ asked' = asked
      /\ started' = started /\ lease' = lease /\ tokens' = tokens /\ leaked' = leaked
      /\ client' = client /\ "status" \in CommandPcs /\ lease \in [LeaseServices -> Leases]
  BY DEF ChainReaches, CmdAt, hostLease, CommandPcs, LeaseInv, LeaseTypes
<1>2. client
  BY <1>1, HasClient
<1>3. OneCall(c) /\ cmd'[c].pc = "status"
  BY <1>1, CmdToFacts
<1>4. TokenInv'
  BY <1>1, <1>3, TokenKept
<1> QED
  BY <1>1, <1>2, <1>3, <1>4, GoesOnInv

\* ReadLease: the command begins under a lease that is there, or one is acquired.
LEMMA ReadLeaseInv == ASSUME LeaseInv, NEW c \in Commands, ReadLease(c) PROVE LeaseInv'
<1>1. /\ cmd[c].pc = "status" /\ asked' = asked /\ lease' = lease /\ tokens' = tokens
      /\ leaked' = leaked /\ client' = client /\ "command" \in CommandPcs /\ "acquire" \in CommandPcs
      /\ lease \in [LeaseServices -> Leases] /\ tokens \in Nat
  BY DEF ReadLease, CmdAt, hostLease, CommandPcs, LeaseInv, LeaseTypes
<1>2. client
  BY <1>1, HasClient
<1>3. OneCall(c) => TokenInv'
  BY <1>1, TokenKept
<1>4. CASE CmdTo(c, "command") /\ Starts(c) /\ queue' = queue
  BY <1>1, <1>2, <1>3, <1>4, CmdToFacts, StartsInv
<1>5. CASE CmdTo(c, "acquire") /\ started' = started /\ queue' = queue
  BY <1>1, <1>2, <1>3, <1>5, CmdToFacts, GoesOnInv
<1>6. CASE Ends(c, "error") /\ started' = started
  BY <1>1, <1>3, <1>6, EndsInv
<1> QED
  BY <1>4, <1>5, <1>6 DEF ReadLease

\* AcquireLease: a granted lease is the command's, or its answer is lost.
LEMMA AcquireLeaseInv == ASSUME LeaseInv, NEW c \in Commands, AcquireLease(c) PROVE LeaseInv'
<1> DEFINE s == ServiceOf[c]
           l == [owner |-> "executor", token |-> tokens + 1]
           granted == tokens' = tokens + 1 /\ lease' = [lease EXCEPT ![s] = l]
<1>1. /\ cmd[c].pc = "acquire" /\ asked' = asked /\ client' = client /\ s \in LeaseServices
      /\ LeaseTypes /\ lease \in [LeaseServices -> Leases] /\ tokens \in Nat /\ cmd[c] \in Cmds
  BY ServiceFacts DEF AcquireLease, CmdAt, LeaseInv, LeaseTypes
<1>2. client
  BY <1>1, HasClient
<1>3. l \in Leases /\ l.owner = "executor" /\ l.token = tokens + 1
  BY <1>1 DEF Leases
<1> HIDE DEF l
<1>4. ASSUME granted
      PROVE  /\ lease' \in [LeaseServices -> Leases] /\ lease'[s] = l /\ tokens' \in Nat
             /\ tokens <= tokens' /\ \A t \in LeaseServices \ {s} : lease'[t] = lease[t]
  BY <1>1, <1>3, <1>4
<1>5. ASSUME granted, OneCall(c), leaked \subseteq leaked',
             s \in leaked' \/ (cmd'[c].pc = "command" /\ cmd'[c].token = tokens + 1)
      PROVE  TokenInv'
  <2> SUFFICES ASSUME NEW t \in LeaseServices, lease'[t].owner = "executor"
               PROVE  /\ lease'[t].token > 0
                      /\ \/ t \in leaked'
                         \/ /\ client'
                            /\ \E d \in Commands :
                                 /\ ServiceOf[d] = t /\ cmd'[d].pc \in {"command", "release"}
                                 /\ cmd'[d].token = lease'[t].token
    BY DEF TokenInv
  <2>1. CASE t = s
    <3>1. lease'[t].token = tokens + 1 /\ tokens + 1 > 0
      BY <1>1, <1>3, <1>4, <1>5, <2>1
    <3> QED
      BY <1>1, <1>2, <1>5, <2>1, <3>1
  <2>2. CASE t # s
    <3>1. lease'[t] = lease[t]
      BY <1>4, <1>5, <2>2
    <3>2. CASE t \in leaked
      BY <1>5, <3>1, <3>2 DEF LeaseInv, TokenInv
    <3>3. CASE t \notin leaked
      <4>1. PICK d \in Commands : /\ ServiceOf[d] = t /\ cmd[d].pc \in {"command", "release"}
                                  /\ cmd[d].token = lease[t].token
        BY <3>1, <3>3 DEF LeaseInv, TokenInv
      <4>2. cmd'[d] = cmd[d]
        BY <1>5, <2>2, <4>1 DEF OneCall
      <4>3. lease[t].token > 0
        BY <3>1 DEF LeaseInv, TokenInv
      <4> QED
        BY <1>1, <1>2, <3>1, <4>1, <4>2, <4>3
    <3> QED
      BY <3>2, <3>3
  <2> QED
    BY <2>1, <2>2
<1>6. CASE /\ granted /\ cmd' = [cmd EXCEPT ![c].pc = "command", ![c].token = tokens + 1]
           /\ Starts(c) /\ queue' = queue /\ leaked' = leaked
  <2> DEFINE e == [cmd[c] EXCEPT !.pc = "command", !.token = tokens + 1]
  <2>1. cmd' = [cmd EXCEPT ![c] = e]
    BY <1>1, <1>6 DEF LeaseTypes
  <2>2. e \in Cmds /\ e.pc = "command" /\ e.token = tokens + 1
    <3>1. "command" \in CommandPcs /\ tokens + 1 \in Nat
      BY <1>1 DEF CommandPcs
    <3> QED
      BY <1>1, <3>1 DEF Cmds
  <2> HIDE DEF e
  <2>3. cmd' \in [Commands -> Cmds] /\ cmd'[c] = e /\ \A d \in Commands \ {c} : cmd'[d] = cmd[d]
    BY <1>1, <2>1, <2>2 DEF LeaseTypes
  <2>4. cmd'[c].token <= tokens' /\ tokens' \in Nat /\ tokens <= tokens'
    BY <1>1, <1>6, <2>2, <2>3
  <2>5. OneCall(c)
    BY <2>3, <2>4 DEF OneCall
  <2>6. TokenInv'
    BY <1>5, <1>6, <2>2, <2>3, <2>5
  <2> QED
    BY <1>1, <1>2, <1>4, <1>6, <2>2, <2>3, <2>5, <2>6, StartsInv
<1>7. CASE granted /\ leaked' = leaked \cup {s} /\ Ends(c, "error") /\ started' = started
  <2>1. OneCall(c) => TokenInv'
    BY <1>5, <1>7
  <2> QED
    BY <1>1, <1>4, <1>7, <2>1, EndsInv
<1>8. CASE Ends(c, "error") /\ started' = started /\ lease' = lease /\ tokens' = tokens /\ leaked' = leaked
  <2>1. OneCall(c) => TokenInv'
    BY <1>1, <1>8, TokenKept
  <2> QED
    BY <1>1, <1>8, <2>1, EndsInv
<1> QED
  BY <1>6, <1>7, <1>8 DEF AcquireLease, hostLease, l

\* CommandAnswers: a lease that was acquired is released before the call settles.
LEMMA CommandAnswersInv ==
  ASSUME LeaseInv, NEW c \in Commands, NEW r \in {"ok", "error"}, CommandAnswers(c, r)
  PROVE  LeaseInv'
<1>1. /\ cmd[c].pc = "command" /\ asked' = asked /\ started' = started /\ lease' = lease
      /\ tokens' = tokens /\ leaked' = leaked /\ client' = client /\ LeaseTypes
      /\ lease \in [LeaseServices -> Leases] /\ tokens \in Nat /\ cmd[c] \in Cmds
      /\ cmd[c].token <= tokens
  BY ServiceFacts DEF CommandAnswers, CmdAt, hostLease, LeaseInv, LeaseTypes
<1>2. cmd[c].token \in Nat
  BY <1>1 DEF Cmds
<1>3. CASE cmd[c].token > 0
  <2> DEFINE e == [cmd[c] EXCEPT !.pc = "release", !.ret = r]
  <2>1. cmd' = [cmd EXCEPT ![c].pc = "release", ![c].ret = r] /\ queue' = queue
    BY <1>3 DEF CommandAnswers, AfterCommand
  <2>2. cmd' = [cmd EXCEPT ![c] = e]
    BY <1>1, <2>1 DEF LeaseTypes
  <2>3. e \in Cmds /\ e.pc = "release" /\ e.token = cmd[c].token
    <3>1. "release" \in CommandPcs /\ r \in {"none", "ok", "error"}
      BY DEF CommandPcs
    <3> QED
      BY <1>1, <3>1 DEF Cmds
  <2> HIDE DEF e
  <2>4. cmd' \in [Commands -> Cmds] /\ cmd'[c] = e /\ \A d \in Commands \ {c} : cmd'[d] = cmd[d]
    BY <1>1, <2>2, <2>3 DEF LeaseTypes
  <2>5. OneCall(c)
    BY <1>1, <1>2, <2>3, <2>4 DEF OneCall
  <2>6. TokenInv'
    BY <1>1, <2>3, <2>4, <2>5, TokenKept
  <2>7. client
    BY <1>3 DEF LeaseInv, NoClientInv
  <2> QED
    BY <1>1, <2>1, <2>3, <2>4, <2>5, <2>6, <2>7, GoesOnInv
<1>4. CASE cmd[c].token = 0
  <2>1. Ends(c, r)
    BY <1>4 DEF CommandAnswers, AfterCommand
  <2>2. OneCall(c) => TokenInv'
    BY <1>1, <1>4, TokenKept
  <2> QED
    BY <1>1, <2>1, <2>2, EndsInv
<1> QED
  BY <1>2, <1>3, <1>4

\* The values of a free lease.
LEMMA NoLeaseFacts == NoLease \in Leases /\ NoLease.owner = "none"
BY DEF NoLease, Leases

\* ReleaseLease: the lease with this command's token ends, and no other.
LEMMA ReleaseLeaseInv == ASSUME LeaseInv, NEW c \in Commands, ReleaseLease(c) PROVE LeaseInv'
<1> DEFINE s == ServiceOf[c]
<1>1. /\ cmd[c].pc = "release" /\ asked' = asked /\ started' = started /\ tokens' = tokens
      /\ client' = client /\ LeaseTypes /\ lease \in [LeaseServices -> Leases] /\ tokens \in Nat
      /\ cmd[c] \in Cmds /\ s \in LeaseServices /\ lease' \in {lease, Released(c)}
      /\ leaked \subseteq leaked'
  BY ServiceFacts DEF ReleaseLease, CmdAt, LeaseInv, LeaseTypes
<1>2. cmd[c].ret \in {"none", "ok", "error"} /\ client
  BY <1>1, HasClient DEF Cmds
<1>3. /\ lease' \in [LeaseServices -> Leases]
      /\ \A t \in LeaseServices : lease'[t] = lease[t] \/ lease'[t] = NoLease
  BY <1>1, NoLeaseFacts DEF Released
<1>4. ASSUME OneCall(c), lease' = Released(c) \/ s \in leaked' PROVE TokenInv'
  <2> SUFFICES ASSUME NEW t \in LeaseServices, lease'[t].owner = "executor"
               PROVE  /\ lease'[t].token > 0
                      /\ \/ t \in leaked'
                         \/ /\ client'
                            /\ \E d \in Commands :
                                 /\ ServiceOf[d] = t /\ cmd'[d].pc \in {"command", "release"}
                                 /\ cmd'[d].token = lease'[t].token
    BY DEF TokenInv
  <2>1. lease'[t] = lease[t]
    BY <1>3, NoLeaseFacts
  <2>2. lease[t].token > 0
    BY <2>1 DEF LeaseInv, TokenInv
  <2>3. CASE t \in leaked'
    BY <2>1, <2>2, <2>3
  <2>4. CASE t \notin leaked'
    <3>1. PICK d \in Commands : /\ ServiceOf[d] = t /\ cmd[d].pc \in {"command", "release"}
                                /\ cmd[d].token = lease[t].token
      BY <1>1, <2>1, <2>4 DEF LeaseInv, TokenInv
    <3>2. d # c
      <4> SUFFICES ASSUME d = c PROVE FALSE
        OBVIOUS
      <4>1. lease' = Released(c) /\ t = s /\ lease[s].token = cmd[c].token
        BY <1>4, <2>4, <3>1
      <4>2. lease'[t] = NoLease
        BY <1>1, <4>1 DEF Released
      <4> QED
        BY <4>2, NoLeaseFacts
    <3>3. cmd'[d] = cmd[d]
      BY <1>4, <3>2 DEF OneCall
    <3> QED
      BY <1>1, <1>2, <2>1, <2>2, <3>1, <3>3
  <2> QED
    BY <2>3, <2>4
<1>5. CASE lease' = Released(c) /\ Ends(c, cmd[c].ret)
  BY <1>1, <1>2, <1>3, <1>4, <1>5, EndsInv
<1>6. CASE Ends(c, "error") /\ leaked' = leaked \cup {s}
  BY <1>1, <1>3, <1>4, <1>6, EndsInv
<1> QED
  BY <1>5, <1>6 DEF ReleaseLease

\* OthersLease: a lease is taken only when it is free, and none is the executor's.
LEMMA OthersLeaseInv == ASSUME LeaseInv, NEW s \in LeaseServices, OthersLease(s) PROVE LeaseInv'
<1>1. /\ cmd' = cmd /\ queue' = queue /\ asked' = asked /\ started' = started /\ client' = client
      /\ leaked' = leaked /\ LeaseTypes /\ tokens \in Nat /\ tokens' \in {tokens, tokens + 1}
  BY DEF OthersLease, LeaseInv, LeaseTypes
<1>2. \E l \in Leases : l.owner # "executor" /\ lease' = [lease EXCEPT ![s] = l]
  <2>1. CASE lease' = [lease EXCEPT ![s] = NoLease]
    BY <2>1, NoLeaseFacts
  <2>2. CASE \E o \in {"session", "other"} :
               lease' = [lease EXCEPT ![s] = [owner |-> o, token |-> tokens + 1]]
    <3>1. PICK o \in {"session", "other"} :
               lease' = [lease EXCEPT ![s] = [owner |-> o, token |-> tokens + 1]]
      BY <2>2
    <3> DEFINE l == [owner |-> o, token |-> tokens + 1]
    <3>2. l \in Leases /\ l.owner # "executor"
      BY <1>1 DEF Leases
    <3>3. lease' = [lease EXCEPT ![s] = l]
      BY <3>1
    <3> HIDE DEF l
    <3> QED
      BY <3>2, <3>3
  <2> QED
    BY <2>1, <2>2 DEF OthersLease
<1>3. /\ lease' \in [LeaseServices -> Leases] /\ lease'[s].owner # "executor"
      /\ \A t \in LeaseServices \ {s} : lease'[t] = lease[t]
  BY <1>1, <1>2 DEF LeaseTypes
<1>4. LeaseTypes'
  <2>1. \A c \in Commands : cmd[c].token \in Nat /\ cmd[c].token <= tokens
    BY <1>1 DEF LeaseTypes, Cmds
  <2>2. tokens' \in Nat /\ \A c \in Commands : cmd[c].token <= tokens'
    BY <1>1, <2>1
  <2> QED
    BY <1>1, <1>3, <2>2 DEF LeaseTypes
<1>5. NoClientInv' /\ TokenInv'
  BY <1>1, <1>3 DEF LeaseInv, NoClientInv, TokenInv
<1>6. ASSUME client, NEW t \in LeaseServices PROVE ChainInv(t)'
  BY <1>1, <1>6 DEF LeaseInv, ChainInv, Settled, Pcs
<1> QED
  BY <1>1, <1>4, <1>5, <1>6 DEF LeaseInv

\* Before the first call the chains are empty.
LEMMA LeaseInitInv == ASSUME LeaseInit PROVE LeaseInv
<1>1. LeaseTypes
  <2> DEFINE e == [pc |-> "new", token |-> 0, ret |-> "none"]
  <2>1. e \in Cmds /\ e.token = 0
    BY DEF Cmds, CommandPcs
  <2>2. cmd = [c \in Commands |-> e]
    BY DEF LeaseInit
  <2> HIDE DEF e
  <2>3. cmd \in [Commands -> Cmds] /\ \A c \in Commands : cmd[c].token = 0
    BY <2>1, <2>2
  <2>4. client \in BOOLEAN
    BY Zenon DEF LeaseInit
  <2>5. tokens = 0 /\ lease \in [LeaseServices -> Leases] /\ queue \in [LeaseServices -> Seq(Commands)]
    BY NoLeaseFacts DEF LeaseInit
  <2>6. asked = queue /\ started = queue
    BY DEF LeaseInit
  <2> QED
    BY <2>3, <2>4, <2>5, <2>6 DEF LeaseTypes
<1>2. NoClientInv /\ TokenInv
  BY NoLeaseFacts DEF LeaseInit, NoClientInv, TokenInv
<1>3. ASSUME NEW s \in LeaseServices PROVE ChainInv(s)
  <2>1. /\ queue[s] = <<>> /\ asked[s] = <<>> /\ started[s] = <<>> /\ Len(<<>>) = 0
        /\ \A c \in Commands : Pcs[c] = "new"
    BY DEF LeaseInit, Pcs
  <2>2. Settled(s) = 0
    BY <2>1 DEF Settled
  <2> QED
    BY <2>1, <2>2 DEF ChainInv, ChainOK, OrderOK
<1> QED
  BY <1>1, <1>2, <1>3 DEF LeaseInv

\* Every step of a call, of the host and of the others keeps it.
LEMMA LeaseStepInv == ASSUME LeaseInv, [LeaseNext]_leaseVars PROVE LeaseInv'
<1>1. CASE UNCHANGED leaseVars
  <2>1. /\ cmd' = cmd /\ queue' = queue /\ asked' = asked /\ started' = started /\ lease' = lease
        /\ tokens' = tokens /\ client' = client /\ leaked' = leaked
    BY <1>1 DEF leaseVars
  <2>2. LeaseTypes' /\ NoClientInv' /\ TokenInv'
    BY <2>1 DEF LeaseInv, LeaseTypes, NoClientInv, TokenInv
  <2>3. ASSUME client, NEW s \in LeaseServices PROVE ChainInv(s)'
    BY <2>1, <2>3 DEF LeaseInv, ChainInv, Settled, Pcs
  <2> QED
    BY <2>1, <2>2, <2>3 DEF LeaseInv
<1>2. CASE \E c \in Commands : RunCommand(c) \/ ExecutorStep(c)
  BY <1>2, RunCommandInv, ChainReachesInv, ReadLeaseInv, AcquireLeaseInv, ReleaseLeaseInv,
     CommandAnswersInv DEF ExecutorStep
<1>3. CASE \E s \in LeaseServices : OthersLease(s)
  BY <1>3, OthersLeaseInv
<1> QED
  BY <1>1, <1>2, <1>3 DEF LeaseNext

\* The invariant says what the executor promises.
LEMMA LeaseInvSuffices == ASSUME LeaseInv PROVE LeaseIsSerial
<1>1. ASSUME client, NEW s \in LeaseServices
      PROVE  /\ queue[s] \in Seq(Commands) /\ asked[s] \in Seq(Commands)
             /\ ChainOK(s, queue[s], asked[s], Settled(s), Pcs)
             /\ OrderOK(asked[s], started[s], Settled(s), Pcs)
  BY <1>1 DEF LeaseInv, LeaseTypes, ChainInv
<1>2. \A c \in Commands : Pcs[c] = cmd[c].pc
  BY DEF Pcs
<1>3. LeaseTypeOK
  <2>1. \A c \in Commands : cmd[c].pc \in CommandPcs /\ cmd[c].token \in 0..tokens
    BY DEF LeaseInv, LeaseTypes, Cmds
  <2>2. ASSUME client, NEW s \in LeaseServices
        PROVE  ToSet(queue[s]) =
                 {c \in Commands : ServiceOf[c] = s /\ cmd[c].pc \notin {"new", "ended"}}
    <3>1. Owned(s, queue[s], asked[s], Settled(s))
      BY <1>1, <2>2, OwnFacts, Zenon
    <3>2. \A i \in 1..Len(queue[s]) : Pcs[queue[s][i]] \notin {"new", "ended"}
      BY SMTT(40), <1>1, <2>2, <3>1 DEF ChainOK, Owned
    <3>3. \A c \in Commands : (ServiceOf[c] = s /\ Pcs[c] \notin {"new", "ended"}) =>
            \E i \in 1..Len(queue[s]) : queue[s][i] = c
      BY <1>1, <2>2 DEF ChainOK
    <3>4. DOMAIN queue[s] = 1..Len(queue[s])
      BY <1>1, <2>2
    <3>5. \A i \in 1..Len(queue[s]) : queue[s][i] \in Commands /\ ServiceOf[queue[s][i]] = s
      BY <3>1 DEF Owned
    <3> DEFINE pending == {c \in Commands : ServiceOf[c] = s /\ cmd[c].pc \notin {"new", "ended"}}
    <3>6. ToSet(queue[s]) = {queue[s][i] : i \in 1..Len(queue[s])}
      BY <3>4 DEF ToSet
    <3>7. \A i \in 1..Len(queue[s]) : queue[s][i] \in pending
      BY <1>2, <3>2, <3>5
    <3>8. \A c \in pending : \E i \in 1..Len(queue[s]) : queue[s][i] = c
      BY <1>2, <3>3
    <3> HIDE DEF pending
    <3>9. {queue[s][i] : i \in 1..Len(queue[s])} = pending
      BY <3>7, <3>8, Zenon
    <3> QED
      BY <3>6, <3>9 DEF pending
  <2> QED
    BY <2>1, <2>2 DEF LeaseTypeOK
<1>4. SerialInOrder
  <2> SUFFICES ASSUME client, NEW s \in LeaseServices
               PROVE  /\ \A c, d \in Commands :
                           (/\ ServiceOf[c] = s /\ ServiceOf[d] = s
                            /\ CmdAt(c, "command") /\ CmdAt(d, "command")) => c = d
                      /\ \A i, j \in 1..Len(started[s]) : i < j =>
                           \E k, l \in 1..Len(asked[s]) :
                             /\ k < l /\ asked[s][k] = started[s][i]
                             /\ asked[s][l] = started[s][j]
    BY DEF SerialInOrder
  <2>1. ASSUME NEW c \in Commands, ServiceOf[c] = s, cmd[c].pc = "command" PROVE queue[s][1] = c
    <3>1. Pcs[c] \in {"status", "acquire", "command", "release"}
      BY <1>2, <2>1
    <3>2. IsHead(c, queue[s], asked[s], Settled(s))
      BY <1>1, <2>1, <3>1, HeadFacts, Zenon
    <3> QED
      BY <3>2 DEF IsHead
  <2> QED
    BY <1>1, <2>1 DEF CmdAt, OrderOK
<1>5. LeaseIsReturned
  <2> SUFFICES ASSUME NEW s \in LeaseServices, queue[s] = <<>>, lease[s].owner = "executor",
                      s \notin leaked
               PROVE  FALSE
    BY DEF LeaseIsReturned
  <2>1. client
    BY DEF LeaseInv, TokenInv
  <2>2. PICK c \in Commands : ServiceOf[c] = s /\ cmd[c].pc \in {"command", "release"}
    BY DEF LeaseInv, TokenInv
  <2>3. Pcs[c] \notin {"new", "ended"}
    BY <1>2, <2>2
  <2>4. \E i \in 1..Len(queue[s]) : queue[s][i] = c
    BY <1>1, <2>1, <2>2, <2>3 DEF ChainOK
  <2> QED
    BY <2>4
<1> QED
  BY <1>3, <1>4, <1>5 DEF LeaseIsSerial

\* HostCommandLeaseExecutor: for any calls and services, with any leases of
\* others and any refused, expired or lost ones, a service executes one command
\* at a time, in the order of the calls, and a lease that was taken for a command
\* is given back unless an answer of the host was lost.
THEOREM CommandsAreSerial == LeaseSpec => []LeaseIsSerial
<1>1. LeaseInit => LeaseInv
  BY LeaseInitInv
<1>2. LeaseInv /\ [LeaseNext]_leaseVars => LeaseInv'
  BY LeaseStepInv
<1>3. LeaseInv => LeaseIsSerial
  BY LeaseInvSuffices
<1> QED
  BY <1>1, <1>2, <1>3, PTL DEF LeaseSpec
=============================================================================
