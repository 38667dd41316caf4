-------------------------- MODULE CashSystemProofs --------------------------
(***************************************************************************)
(* Proofs about CashSystem for any finite set of operations and any number *)
(* of faults: type correctness, and that notes move only after durable     *)
(* evidence (EvidenceBeforeMovement).  Then, each on the invariant of the  *)
(* one before it: who owns a row (OwnershipInv), the lock and the leases   *)
(* (LeasesInv), the notes in the transport (NotesInv), the outcomes on     *)
(* record (RecordsInv), and what a session that ends leaves behind.        *)
(***************************************************************************)
EXTENDS CashSystem, FiniteSetTheorems, TLAPS

USE OpsAssumption, BoundAssumption, VerdictsAssumption

(* The fencing tokens that the store offers are naturals.                  *)
LEMMA TokenType ==
  ASSUME lease \in [Ops -> LeaseRecord]
  PROVE  nextFencingToken \subseteq Nat
<1> DEFINE used == {o \in Ops : lease[o].state # "absent"}
<1>1. IsFiniteSet(used)
  BY FS_Subset
<1>2. Cardinality(used) \in Nat
  BY <1>1, FS_CardinalityType
<1>3. fencingTokenFloor \in Nat
  <2>1. fencingTokenFloor = FloorStep * (1 + Cardinality(used))
    BY DEF fencingTokenFloor
  <2> QED  BY <2>1, <1>2
<1>4. \A o \in Ops : lease[o].token + 1 \in Nat
  BY DEF LeaseRecord, Tokens
<1> QED  BY <1>3, <1>4 DEF nextFencingToken

(* A step that goes as intended or spends a fault keeps the budget in      *)
(* range.                                                                  *)
LEMMA FaultsType ==
  faults \in 0 .. MaxFaults /\ (Smooth \/ Fault) => faults' \in 0 .. MaxFaults
  BY DEF Smooth, Fault

(* The initial records have their types.                                   *)
LEMMA RecordTypes ==
  /\ NoLease \in LeaseRecord
  /\ NoSession \in Session
  /\ NoRun \in Worker
  /\ NoResolve \in Resolver
  BY DEF LeaseRecord, NoLease, Tokens, Phases, Outcomes, Authorities, LeaseStates,
         Session, NoSession, SessionSteps, Worker, NoRun, RunSteps, Observations,
         Resolver, NoResolve

(* Every patch of a row that the code writes yields a row.                 *)
LEMMA RowPatch ==
  ASSUME NEW r \in LeaseRecord, NEW state \in LeaseStates, NEW phase \in Phases,
         NEW outcome \in Outcomes, NEW n \in Nat
  PROVE  /\ [r EXCEPT !.rev = n] \in LeaseRecord
         /\ [r EXCEPT !.phase = phase] \in LeaseRecord
         /\ [r EXCEPT !.state = state] \in LeaseRecord
         /\ [r EXCEPT !.outcome = outcome] \in LeaseRecord
         /\ [r EXCEPT !.state = state, !.outcome = outcome] \in LeaseRecord
         /\ [r EXCEPT !.state = state, !.pending = n, !.phase = phase] \in LeaseRecord
         /\ bound(r, n) \in LeaseRecord
         /\ [r EXCEPT !.state = state, !.authority = "maintenance", !.token = n] \in LeaseRecord
  BY DEF LeaseRecord, Tokens, bound, LeaseStates, Authorities

(* compareAndSwap keeps the table a table.                                 *)
LEMMA CasType ==
  ASSUME lease \in [Ops -> LeaseRecord], NEW o, NEW r \in LeaseRecord,
         NEW p \in LeaseRecord, compareAndSwap(o, r, p)
  PROVE  lease' \in [Ops -> LeaseRecord]
<1>1. r.rev + 1 \in Nat
  BY DEF LeaseRecord
<1>2. [p EXCEPT !.rev = r.rev + 1] \in LeaseRecord
  BY <1>1, RowPatch DEF LeaseRecord
<1> QED  BY <1>2 DEF compareAndSwap

(* The initial state has its type.                                         *)
LEMMA InitType == Init => TypeOK
  BY RecordTypes DEF Init, TypeOK, SessionOK, WorkerOK, ResolverOK, DeviceOK, Places, Kinds,
         Device, NoCommand, Commands, Callers, HostLease, NoHostLease, Authorities, Tokens,
         NoSession, NoRun, NoResolve

-----------------------------------------------------------------------------
(* Issuing a command, receiving its answer and forgetting it keep the      *)
(* dispenser a dispenser.                                                  *)
LEMMA DeviceSteps ==
  ASSUME DeviceOK
  PROVE  /\ \A c \in Commands, o \in Ops, who \in Callers : issue(c, o, who) => DeviceOK'
         /\ \A who \in Callers : \A r : answered(who, r) => DeviceOK'
         /\ dev' = forgotten => DeviceOK'
         /\ \A r \in {"ok", "failed"} : dev' = Answer(r) => DeviceOK'
         /\ UNCHANGED dev => DeviceOK'
<1> USE DEF DeviceOK, Device
<1>1. ASSUME NEW c \in Commands, NEW o \in Ops, NEW who \in Callers, issue(c, o, who)
      PROVE  DeviceOK'
  BY <1>1 DEF issue
<1>2. ASSUME NEW who \in Callers, NEW r, answered(who, r)
      PROVE  DeviceOK'
  BY <1>2 DEF answered, Callers
<1>3. CASE dev' = forgotten
  BY <1>3 DEF forgotten, Callers
<1>4. ASSUME NEW r \in {"ok", "failed"}, dev' = Answer(r)
      PROVE  DeviceOK'
  BY <1>4 DEF Answer, Callers
<1> QED  BY <1>1, <1>2, <1>3, <1>4

(* The session's commands.                                                 *)
LEMMA SendType ==
  ASSUME DeviceOK, fg.op \in Ops, NEW c \in Commands, send(c)
  PROVE  DeviceOK'
  BY DeviceSteps DEF send, Callers

(* The patches that the session makes to its row, whatever it finds there. *)
LEMMA UpdateType ==
  ASSUME lease \in [Ops -> LeaseRecord], NEW o \in Ops, NEW phase \in Phases, update(o, phase)
  PROVE  lease' \in [Ops -> LeaseRecord]
<1>1. lease[o] \in LeaseRecord /\ [lease[o] EXCEPT !.phase = phase] \in LeaseRecord
  BY DEF LeaseRecord
<1> QED  BY <1>1, CasType DEF update

-----------------------------------------------------------------------------
LEMMA StartType ==
  ASSUME TypeOK, NEW o \in Ops, Start(o)
  PROVE  TypeOK'
<1>1. SessionOK'
  BY RecordTypes DEF Start, SessionOK, Session, SessionSteps, NoSession
<1> QED  BY <1>1 DEF TypeOK, Start, Smooth, keepStore, keepHost, keepWorld, WorkerOK,
         ResolverOK, DeviceOK

LEMMA CreateLeaseType ==
  ASSUME TypeOK, CreateLease
  PROVE  TypeOK'
<1>1. /\ lease \in [Ops -> LeaseRecord]
      /\ fg \in Session /\ fg.op \in Ops
      /\ faults \in 0 .. MaxFaults
  BY DEF TypeOK, SessionOK, CreateLease, at
<1>2. \A t \in Nat : [NoLease EXCEPT !.state = "transactionBound", !.token = t,
                                     !.rev = 1] \in LeaseRecord
  BY RecordTypes DEF LeaseRecord, LeaseStates, Tokens
<1>3. lease' \in [Ops -> LeaseRecord]
  <2>1. ASSUME create(fg.op)
        PROVE  lease' \in [Ops -> LeaseRecord]
    <3>1. PICK t \in nextFencingToken :
            lease' = [lease EXCEPT ![fg.op] = [NoLease EXCEPT !.state = "transactionBound",
                                                              !.token = t, !.rev = 1]]
      BY <2>1 DEF create
    <3>2. t \in Nat
      BY <1>1, TokenType
    <3> QED  BY <1>1, <1>2, <3>1, <3>2
  <2> QED  BY <1>1, <2>1 DEF CreateLease
<1>4. SessionOK'
  <2>1. lease'[fg.op].token \in Nat
    BY <1>1, <1>3 DEF LeaseRecord, Tokens
  <2>2. CASE fg' = [fg EXCEPT !.pc = "acquire", !.token = lease'[fg.op].token]
    BY <1>1, <2>1, <2>2 DEF SessionOK, Session, SessionSteps, Tokens
  <2>3. CASE fg' = NoSession
    BY <2>3, RecordTypes DEF SessionOK, NoSession
  <2> QED  BY <2>2, <2>3 DEF CreateLease
<1>5. faults' \in 0 .. MaxFaults
  BY <1>1, FaultsType DEF CreateLease
<1> QED  BY <1>3, <1>4, <1>5 DEF TypeOK, CreateLease, keepHost, keepWorld, WorkerOK,
         ResolverOK, DeviceOK

LEMMA AcquireHostLeaseType ==
  ASSUME TypeOK, AcquireHostLease
  PROVE  TypeOK'
<1>1. /\ host \in HostLease
      /\ fg \in Session /\ fg.op \in Ops
      /\ faults \in 0 .. MaxFaults
  BY DEF TypeOK, SessionOK, AcquireHostLease, at
<1>2. host' \in HostLease
  BY <1>1 DEF AcquireHostLease, hostGrant, keepHost, HostLease, Session, Authorities
<1>3. SessionOK'
  <2>1. CASE goto("before")
    BY <1>1, <2>1 DEF goto, SessionOK, Session, SessionSteps, Phases, Outcomes
  <2>2. CASE fg' = NoSession
    BY <2>2, RecordTypes DEF SessionOK, NoSession
  <2> QED  BY <2>1, <2>2 DEF AcquireHostLease
<1>4. faults' \in 0 .. MaxFaults
  BY <1>1, FaultsType DEF AcquireHostLease
<1> QED  BY <1>1, <1>2, <1>3, <1>4 DEF TypeOK, AcquireHostLease, WorkerOK, ResolverOK, DeviceOK, keepStore, keepHost, keepWorld

LEMMA PersistBeforeType ==
  ASSUME TypeOK, PersistBefore
  PROVE  TypeOK'
<1>1. /\ evid \in [Ops -> SUBSET Kinds]
      /\ fg \in Session /\ fg.op \in Ops
      /\ faults \in 0 .. MaxFaults
  BY DEF TypeOK, SessionOK, PersistBefore, at
<1>2. evid' \in [Ops -> SUBSET Kinds]
  BY <1>1 DEF PersistBefore, Kinds
<1>3. SessionOK'
  <2>1. CASE fg' = [fg EXCEPT !.pc = "ready", !.phase = "planned"]
    BY <1>1, <2>1 DEF SessionOK, Session, SessionSteps, Phases, Outcomes
  <2>2. CASE fg' = [fg EXCEPT !.pc = "close", !.out = "notDispensed"]
    BY <1>1, <2>2 DEF SessionOK, Session, SessionSteps, Phases, Outcomes
  <2> QED  BY <2>1, <2>2 DEF PersistBefore
<1>4. faults' \in 0 .. MaxFaults
  BY <1>1, FaultsType DEF PersistBefore
<1> QED  BY <1>1, <1>2, <1>3, <1>4 DEF TypeOK, PersistBefore, WorkerOK, ResolverOK, DeviceOK, keepStore, keepHost, keepWorld

LEMMA DispenseType ==
  ASSUME TypeOK, Dispense
  PROVE  TypeOK'
<1>1. /\ evid \in [Ops -> SUBSET Kinds]
      /\ DeviceOK
      /\ fg \in Session /\ fg.op \in Ops
      /\ faults \in 0 .. MaxFaults
  BY DEF TypeOK, SessionOK, Dispense, ready, at
<1>2. evid' \in [Ops -> SUBSET Kinds]
  BY <1>1 DEF Dispense, Kinds
<1>3. DeviceOK'
  BY <1>1, SendType, DeviceSteps DEF Dispense, Commands
<1>4. SessionOK'
  <2>1. CASE fg' = [fg EXCEPT !.pc = "dispense", !.phase = "dispensing", !.moved = TRUE]
    BY <1>1, <2>1 DEF SessionOK, Session, SessionSteps, Phases, Outcomes
  <2>2. CASE fg' = [fg EXCEPT !.phase = "dispensing"]
    BY <1>1, <2>2 DEF SessionOK, Session, SessionSteps, Phases, Outcomes
  <2> QED  BY <2>1, <2>2 DEF Dispense
<1>5. faults' \in 0 .. MaxFaults
  BY <1>1, FaultsType DEF Dispense
<1> QED  BY <1>1, <1>2, <1>3, <1>4, <1>5 DEF TypeOK, Dispense, WorkerOK, ResolverOK, keepStore, keepHost, keepWorld

LEMMA DispenseReturnsType ==
  ASSUME TypeOK, DispenseReturns
  PROVE  TypeOK'
<1>1. /\ DeviceOK
      /\ fg \in Session /\ fg.op \in Ops
      /\ faults \in 0 .. MaxFaults
  BY DEF TypeOK, SessionOK, DispenseReturns, at
<1>2. DeviceOK'
  BY <1>1, DeviceSteps DEF DispenseReturns, Callers
<1>3. SessionOK'
  <2>1. ASSUME NEW recon \in BOOLEAN,
               fg' = [fg EXCEPT !.pc = "dispensed", !.phase = "staged", !.recon = recon]
        PROVE  SessionOK'
    BY <1>1, <2>1 DEF SessionOK, Session, SessionSteps, Phases, Outcomes
  <2>2. ASSUME NEW recon \in BOOLEAN,
               fg' = [fg EXCEPT !.pc = "ready", !.phase = "reconciling",
                            !.moved = FALSE, !.recon = recon]
        PROVE  SessionOK'
    BY <1>1, <2>2 DEF SessionOK, Session, SessionSteps, Phases, Outcomes
  <2>3. CASE fg' = [fg EXCEPT !.pc = "ready", !.phase = "reconciling", !.recon = TRUE]
    BY <1>1, <2>3 DEF SessionOK, Session, SessionSteps, Phases, Outcomes
  <2> QED  BY <2>1, <2>2, <2>3 DEF DispenseReturns
<1>4. faults' \in 0 .. MaxFaults
  BY <1>1, FaultsType DEF DispenseReturns, recordSafely
<1> QED  BY <1>1, <1>2, <1>3, <1>4 DEF TypeOK, DispenseReturns, WorkerOK, ResolverOK, keepStore, keepHost, keepWorld

LEMMA UpdateAfterType ==
  ASSUME TypeOK, NEW step \in SessionSteps \ {"idle"}, NEW done \in SessionSteps,
         UpdateAfter(step, done)
  PROVE  TypeOK'
<1>1. /\ lease \in [Ops -> LeaseRecord]
      /\ fg \in Session /\ fg.op \in Ops /\ fg.phase \in Phases
      /\ faults \in 0 .. MaxFaults
  BY DEF TypeOK, SessionOK, UpdateAfter, at, Session
<1>2. lease' \in [Ops -> LeaseRecord]
  BY <1>1, UpdateType DEF UpdateAfter
<1>3. SessionOK'
  <2>1. CASE goto(done)
    BY <1>1, <2>1 DEF goto, SessionOK, Session
  <2>2. CASE fg' = [fg EXCEPT !.pc = "ready", !.phase = "reconciling", !.recon = TRUE]
    BY <1>1, <2>2 DEF SessionOK, Session, SessionSteps, Phases
  <2> QED  BY <2>1, <2>2 DEF UpdateAfter
<1>4. faults' \in 0 .. MaxFaults
  BY <1>1, FaultsType DEF UpdateAfter
<1> QED  BY <1>2, <1>3, <1>4 DEF TypeOK, UpdateAfter, keepHost, keepWorld, WorkerOK,
         ResolverOK, DeviceOK

LEMMA PresentType ==
  ASSUME TypeOK, Present
  PROVE  TypeOK'
<1>1. /\ DeviceOK
      /\ fg \in Session /\ fg.op \in Ops
      /\ faults \in 0 .. MaxFaults
  BY DEF TypeOK, SessionOK, Present, ready, at
<1>2. DeviceOK'
  BY <1>1, SendType DEF Present, Commands
<1>3. SessionOK'
  <2>1. ASSUME NEW recon \in BOOLEAN,
               fg' = [fg EXCEPT !.pc = "present", !.phase = "presenting", !.recon = recon]
        PROVE  SessionOK'
    BY <1>1, <2>1 DEF SessionOK, Session, SessionSteps, Phases, Outcomes
  <2> QED  BY <2>1 DEF Present
<1>4. faults' \in 0 .. MaxFaults
  BY <1>1, FaultsType DEF Present, recordSafely
<1> QED  BY <1>1, <1>2, <1>3, <1>4 DEF TypeOK, Present, WorkerOK, ResolverOK, keepStore, keepHost, keepWorld

LEMMA PresentReturnsType ==
  ASSUME TypeOK, PresentReturns
  PROVE  TypeOK'
<1>1. /\ DeviceOK
      /\ fg \in Session /\ fg.op \in Ops
      /\ faults \in 0 .. MaxFaults
  BY DEF TypeOK, SessionOK, PresentReturns, at
<1>2. DeviceOK'
  BY <1>1, DeviceSteps DEF PresentReturns, Callers
<1>3. SessionOK'
  <2>1. ASSUME NEW recon \in BOOLEAN,
               fg' = [fg EXCEPT !.pc = "presented", !.phase = "awaitingTake", !.recon = recon]
        PROVE  SessionOK'
    BY <1>1, <2>1 DEF SessionOK, Session, SessionSteps, Phases, Outcomes
  <2>2. CASE fg' = [fg EXCEPT !.pc = "ready", !.phase = "reconciling", !.recon = TRUE]
    BY <1>1, <2>2 DEF SessionOK, Session, SessionSteps, Phases, Outcomes
  <2> QED  BY <2>1, <2>2 DEF PresentReturns
<1>4. faults' \in 0 .. MaxFaults
  BY <1>1, FaultsType DEF PresentReturns, recordSafely
<1> QED  BY <1>1, <1>2, <1>3, <1>4 DEF TypeOK, PresentReturns, WorkerOK, ResolverOK, keepStore, keepHost, keepWorld

LEMMA TakeConfirmedType ==
  ASSUME TypeOK, TakeConfirmed
  PROVE  TypeOK'
<1>1. /\ fg \in Session /\ fg.op \in Ops
      /\ faults \in 0 .. MaxFaults
  BY DEF TypeOK, SessionOK, TakeConfirmed, ready, at
<1>2. SessionOK'
  <2>1. ASSUME NEW recon \in BOOLEAN,
               fg' = [fg EXCEPT !.pc = "finish", !.out = "taken", !.recon = recon]
        PROVE  SessionOK'
    BY <1>1, <2>1 DEF SessionOK, Session, SessionSteps, Phases, Outcomes
  <2> QED  BY <2>1 DEF TakeConfirmed
<1>3. faults' \in 0 .. MaxFaults
  BY <1>1, FaultsType DEF TakeConfirmed, recordSafely
<1> QED  BY <1>1, <1>2, <1>3 DEF TypeOK, TakeConfirmed, WorkerOK, ResolverOK, DeviceOK, keepStore, keepHost, keepWorld

(* retract, for either value of recon.                                     *)
LEMMA RetractType ==
  ASSUME evid \in [Ops -> SUBSET Kinds], DeviceOK, fg \in Session, fg.op \in Ops,
         NEW recon \in BOOLEAN, retract(recon)
  PROVE  evid' \in [Ops -> SUBSET Kinds] /\ DeviceOK' /\ SessionOK'
<1>1. CASE fg.retr
  <2>1. fg' = [fg EXCEPT !.pc = "finish", !.out = "custodyUnknown", !.recon = recon]
        /\ UNCHANGED <<dev, evid>>
    BY <1>1 DEF retract
  <2> QED  BY <2>1 DEF SessionOK, Session, SessionSteps, Outcomes, DeviceOK
<1>2. CASE ~fg.retr
  <2>1. /\ fg' = [fg EXCEPT !.pc = "retract", !.phase = "retracting", !.retr = TRUE,
                            !.recon = recon]
        /\ evid' = [evid EXCEPT ![fg.op] = IF faults' = faults THEN @ \cup {"retractIntent"}
                                                              ELSE @]
        /\ send("retract")
    BY <1>2 DEF retract
  <2>2. SessionOK'
    BY <2>1 DEF SessionOK, Session, SessionSteps, Phases
  <2>3. evid' \in [Ops -> SUBSET Kinds]
    BY <2>1 DEF Kinds
  <2> QED  BY <2>1, <2>2, <2>3, SendType DEF Commands
<1> QED  BY <1>1, <1>2

LEMMA TakeTimesOutType ==
  ASSUME TypeOK, TakeTimesOut
  PROVE  TypeOK'
<1>1. /\ evid \in [Ops -> SUBSET Kinds] /\ DeviceOK
      /\ fg \in Session /\ fg.op \in Ops
      /\ faults \in 0 .. MaxFaults
  BY DEF TypeOK, SessionOK, TakeTimesOut, ready, at
<1>2. evid' \in [Ops -> SUBSET Kinds] /\ DeviceOK' /\ SessionOK'
  BY <1>1, RetractType DEF TakeTimesOut
<1>3. faults' \in 0 .. MaxFaults
  BY <1>1, FaultsType DEF TakeTimesOut, recordSafely
<1> QED  BY <1>2, <1>3 DEF TypeOK, TakeTimesOut, keepHost, keepWorld, WorkerOK, ResolverOK

LEMMA AbortType ==
  ASSUME TypeOK, Abort
  PROVE  TypeOK'
<1>1. /\ evid \in [Ops -> SUBSET Kinds] /\ DeviceOK
      /\ fg \in Session /\ fg.op \in Ops
      /\ faults \in 0 .. MaxFaults
  BY DEF TypeOK, SessionOK, Abort, at
<1>2. evid' \in [Ops -> SUBSET Kinds] /\ DeviceOK' /\ SessionOK'
  <2>1. CASE \E recon \in BOOLEAN : retract(recon)
    BY <1>1, <2>1, RetractType
  <2>2. CASE fg' = [fg EXCEPT !.pc = "finish", !.out = "notDispensed"] /\ UNCHANGED <<dev, evid>>
    BY <1>1, <2>2 DEF SessionOK, Session, SessionSteps, Outcomes, DeviceOK
  <2>3. CASE (\E step \in {"ready", "left"} : goto(step)) /\ UNCHANGED <<dev, evid>>
    BY <1>1, <2>3 DEF goto, SessionOK, Session, SessionSteps, DeviceOK
  <2> QED  BY <2>1, <2>2, <2>3 DEF Abort
<1>3. faults' \in 0 .. MaxFaults
  BY <1>1, FaultsType DEF Abort, recordSafely
<1> QED  BY <1>2, <1>3 DEF TypeOK, Abort, keepHost, keepWorld, WorkerOK, ResolverOK

LEMMA RetractReturnsType ==
  ASSUME TypeOK, RetractReturns
  PROVE  TypeOK'
<1>1. /\ DeviceOK
      /\ fg \in Session /\ fg.op \in Ops
      /\ faults \in 0 .. MaxFaults
  BY DEF TypeOK, SessionOK, RetractReturns, at
<1>2. DeviceOK'
  BY <1>1, DeviceSteps DEF RetractReturns, Callers
<1>3. SessionOK'
  <2>1. ASSUME NEW recon \in BOOLEAN,
               fg' = [fg EXCEPT !.pc = "finish", !.out = "retracted", !.recon = recon]
        PROVE  SessionOK'
    BY <1>1, <2>1 DEF SessionOK, Session, SessionSteps, Phases, Outcomes
  <2>2. CASE fg' = [fg EXCEPT !.pc = "finish", !.out = "custodyUnknown", !.recon = TRUE]
    BY <1>1, <2>2 DEF SessionOK, Session, SessionSteps, Phases, Outcomes
  <2> QED  BY <2>1, <2>2 DEF RetractReturns
<1>4. faults' \in 0 .. MaxFaults
  BY <1>1, FaultsType DEF RetractReturns, recordSafely
<1> QED  BY <1>1, <1>2, <1>3, <1>4 DEF TypeOK, RetractReturns, WorkerOK, ResolverOK, keepStore, keepHost, keepWorld

LEMMA FinishType ==
  ASSUME TypeOK, Finish
  PROVE  TypeOK'
<1>1. /\ evid \in [Ops -> SUBSET Kinds]
      /\ fg \in Session /\ fg.op \in Ops
      /\ faults \in 0 .. MaxFaults
  BY DEF TypeOK, SessionOK, Finish, at
<1>2. evid' \in [Ops -> SUBSET Kinds]
  BY <1>1 DEF Finish, Kinds
<1>3. SessionOK'
  <2>1. CASE fg' = [fg EXCEPT !.pc = "close", !.phase = "terminal"]
    BY <1>1, <2>1 DEF SessionOK, Session, SessionSteps, Phases, Outcomes
  <2>2. CASE fg' = [fg EXCEPT !.pc = "close", !.phase = "terminal", !.recon = TRUE]
    BY <1>1, <2>2 DEF SessionOK, Session, SessionSteps, Phases, Outcomes
  <2> QED  BY <2>1, <2>2 DEF Finish
<1>4. faults' \in 0 .. MaxFaults
  BY <1>1, FaultsType DEF Finish
<1> QED  BY <1>1, <1>2, <1>3, <1>4 DEF TypeOK, Finish, WorkerOK, ResolverOK, DeviceOK, keepStore, keepHost, keepWorld

LEMMA CloseLeaseType ==
  ASSUME TypeOK, CloseLease
  PROVE  TypeOK'
<1>1. /\ lease \in [Ops -> LeaseRecord]
      /\ fg \in Session /\ fg.op \in Ops
      /\ faults \in 0 .. MaxFaults
  BY DEF TypeOK, SessionOK, CloseLease, at
<1>2. lease[fg.op] \in LeaseRecord /\ fg.out \in Outcomes \cup {"none"}
  BY <1>1 DEF Session
<1>3. [lease[fg.op] EXCEPT !.state = "closed", !.outcome = fg.out] \in LeaseRecord
  BY <1>2 DEF LeaseRecord, LeaseStates
<1>4. lease' \in [Ops -> LeaseRecord]
  BY <1>1, <1>2, <1>3, CasType DEF CloseLease
<1>5. SessionOK'
  <2>1. CASE goto("release")
    BY <1>1, <2>1 DEF goto, SessionOK, Session, SessionSteps, Phases, Outcomes
  <2>2. CASE fg' = [fg EXCEPT !.pc = "unlock", !.recon = TRUE]
    BY <1>1, <2>2 DEF SessionOK, Session, SessionSteps, Phases, Outcomes
  <2> QED  BY <2>1, <2>2 DEF CloseLease
<1>6. faults' \in 0 .. MaxFaults
  BY <1>1, FaultsType DEF CloseLease
<1> QED  BY <1>1, <1>2, <1>3, <1>4, <1>5, <1>6 DEF TypeOK, CloseLease, WorkerOK, ResolverOK, DeviceOK, keepStore, keepHost, keepWorld

LEMMA ReleaseHostLeaseType ==
  ASSUME TypeOK, ReleaseHostLease
  PROVE  TypeOK'
<1>1. /\ host \in HostLease
      /\ fg \in Session /\ fg.op \in Ops
      /\ faults \in 0 .. MaxFaults
  BY DEF TypeOK, SessionOK, ReleaseHostLease, at
<1>2. NoHostLease \in HostLease /\ fg.token + 1 \in Nat
  BY <1>1 DEF HostLease, NoHostLease, Authorities, Tokens, Session
<1>3. host' \in HostLease
  BY <1>1, <1>2 DEF ReleaseHostLease, hostGrant, HostLease, Authorities, Tokens
<1>4. SessionOK'
  <2>1. CASE goto("unlock")
    BY <1>1, <2>1 DEF goto, SessionOK, Session, SessionSteps, Phases, Outcomes
  <2>2. CASE fg' = [fg EXCEPT !.pc = "unlock", !.recon = TRUE]
    BY <1>1, <2>2 DEF SessionOK, Session, SessionSteps, Phases, Outcomes
  <2> QED  BY <2>1, <2>2 DEF ReleaseHostLease
<1>5. faults' \in 0 .. MaxFaults
  BY <1>1, FaultsType DEF ReleaseHostLease
<1> QED  BY <1>1, <1>2, <1>3, <1>4, <1>5 DEF TypeOK, ReleaseHostLease, WorkerOK, ResolverOK, DeviceOK, keepStore, keepHost, keepWorld

LEMMA ReleaseLockType ==
  ASSUME TypeOK, ReleaseLock
  PROVE  TypeOK'
<1>1. /\ fg \in Session /\ fg.op \in Ops
      /\ faults \in 0 .. MaxFaults
  BY DEF TypeOK, SessionOK, ReleaseLock, at
<1>2. SessionOK'
  <2>1. ASSUME NEW recon \in BOOLEAN,
               fg' = [fg EXCEPT !.pc = "left", !.recon = recon]
        PROVE  SessionOK'
    BY <1>1, <2>1 DEF SessionOK, Session, SessionSteps, Phases, Outcomes
  <2> QED  BY <2>1 DEF ReleaseLock
<1>3. faults' \in 0 .. MaxFaults
  BY <1>1, FaultsType DEF ReleaseLock, recordSafely
<1> QED  BY <1>1, <1>2, <1>3 DEF TypeOK, ReleaseLock, WorkerOK, ResolverOK, DeviceOK, keepStore, keepHost, keepWorld

LEMMA ExitType ==
  ASSUME TypeOK, Exit
  PROVE  TypeOK'
<1>1. /\ lease \in [Ops -> LeaseRecord]
      /\ fg \in Session /\ fg.op \in Ops
      /\ faults \in 0 .. MaxFaults
  BY DEF TypeOK, SessionOK, Exit, at
<1>2. lease' \in [Ops -> LeaseRecord]
  BY <1>1, UpdateType DEF Exit, Session
<1>3. SessionOK'
  <2>1. ASSUME NEW recon \in BOOLEAN,
               fg' = [fg EXCEPT !.pc = "transfer", !.recon = recon]
        PROVE  SessionOK'
    BY <1>1, <2>1 DEF SessionOK, Session, SessionSteps, Phases, Outcomes
  <2>2. CASE goto("left")
    BY <1>1, <2>2 DEF goto, SessionOK, Session, SessionSteps, Phases, Outcomes
  <2> QED  BY <2>1, <2>2 DEF Exit
<1>4. faults' \in 0 .. MaxFaults
  BY <1>1, FaultsType DEF Exit, recordSafely
<1> QED  BY <1>1, <1>2, <1>3, <1>4 DEF TypeOK, Exit, WorkerOK, ResolverOK, DeviceOK, keepStore, keepHost, keepWorld

LEMMA LeaveType ==
  ASSUME TypeOK, Leave
  PROVE  TypeOK'
  BY RecordTypes DEF TypeOK, Leave, Smooth, keepStore, keepHost, keepWorld, SessionOK,
         WorkerOK, ResolverOK, DeviceOK, NoSession

-----------------------------------------------------------------------------
(* The transfer to recovery.                                               *)

LEMMA AcceptTransferType ==
  ASSUME TypeOK, AcceptTransfer
  PROVE  TypeOK'
<1>1. /\ lease \in [Ops -> LeaseRecord]
      /\ fg \in Session /\ fg.op \in Ops /\ fg.phase \in Phases
      /\ held \in SUBSET Ops
      /\ faults \in 0 .. MaxFaults
  BY DEF TypeOK, SessionOK, AcceptTransfer, at, Session
<1> DEFINE row == lease[fg.op]
           pending == [row EXCEPT !.state = "transferPending", !.pending = row.token + 1,
                                  !.phase = fg.phase]
           stored == [pending EXCEPT !.rev = row.rev + 1]
<1>2. row \in LeaseRecord /\ row.token + 1 \in Nat /\ row.rev + 1 \in Nat
  BY <1>1 DEF LeaseRecord, Tokens
<1>3. pending \in LeaseRecord
  BY <1>1, <1>2 DEF LeaseRecord, LeaseStates, Tokens
<1>4. stored \in LeaseRecord
  BY <1>2, <1>3 DEF LeaseRecord
<1> HIDE DEF row, pending, stored
<1>5. /\ compareAndSwap(fg.op, row, pending) \/ UNCHANGED lease
      /\ held' = held \cup {fg.op} \/ UNCHANGED held
      /\ fg' = [fg EXCEPT !.pc = "transition", !.row = stored] \/ goto("left")
      /\ Smooth \/ Fault
  BY DEF AcceptTransfer, row, pending, stored
<1>6. lease' \in [Ops -> LeaseRecord]
  BY <1>1, <1>2, <1>3, <1>5, CasType
<1>7. SessionOK'
  <2>1. CASE fg' = [fg EXCEPT !.pc = "transition", !.row = stored]
    BY <1>1, <1>4, <2>1 DEF SessionOK, Session, SessionSteps
  <2>2. CASE goto("left")
    BY <1>1, <2>2 DEF goto, SessionOK, Session, SessionSteps
  <2> QED  BY <1>5, <2>1, <2>2
<1>8. faults' \in 0 .. MaxFaults
  BY <1>1, <1>5, FaultsType
<1> QED  BY <1>1, <1>5, <1>6, <1>7, <1>8 DEF TypeOK, AcceptTransfer, keepHost, keepWorld,
         WorkerOK, ResolverOK, DeviceOK

(* Scheduling a run changes nothing but the queue.                         *)
LEMMA ScheduleType ==
  ASSUME WorkerOK, schedule
  PROVE  WorkerOK'
  BY DEF schedule, WorkerOK, Worker

(* Granting a command lease.                                               *)
LEMMA GrantType ==
  ASSUME NEW o \in Ops, NEW a \in Authorities, NEW t \in Nat, hostGrant(o, a, t)
  PROVE  host' \in HostLease
  BY DEF hostGrant, HostLease, Tokens

LEMMA TransferTransitionType ==
  ASSUME TypeOK, TransferTransition
  PROVE  TypeOK'
<1>1. /\ fg \in Session /\ fg.op \in Ops /\ fg.row.pending \in Nat
      /\ host \in HostLease
      /\ WorkerOK
      /\ faults \in 0 .. MaxFaults
  BY DEF TypeOK, SessionOK, TransferTransition, at, Session, LeaseRecord, Tokens
<1>2. host' \in HostLease
  BY <1>1, GrantType DEF TransferTransition, keepHost, Authorities
<1>3. SessionOK'
  <2>1. ASSUME NEW step \in {"bind", "left"}, goto(step)
        PROVE  SessionOK'
    BY <1>1, <2>1 DEF goto, SessionOK, Session, SessionSteps
  <2> QED  BY <2>1 DEF TransferTransition
<1>4. WorkerOK'
  BY <1>1, ScheduleType DEF TransferTransition, WorkerOK
<1>5. faults' \in 0 .. MaxFaults
  BY <1>1, FaultsType DEF TransferTransition
<1> QED  BY <1>2, <1>3, <1>4, <1>5 DEF TypeOK, TransferTransition, keepStore, ResolverOK,
         DeviceOK

LEMMA TransferBindType ==
  ASSUME TypeOK, TransferBind
  PROVE  TypeOK'
<1>1. /\ lease \in [Ops -> LeaseRecord]
      /\ fg \in Session /\ fg.op \in Ops
      /\ fg.row \in LeaseRecord /\ fg.row.pending \in Nat
      /\ WorkerOK
      /\ faults \in 0 .. MaxFaults
  BY DEF TypeOK, SessionOK, TransferBind, at, Session, LeaseRecord, Tokens
<1>2. bound(fg.row, fg.row.pending) \in LeaseRecord
  BY <1>1 DEF bound, LeaseRecord, LeaseStates, Authorities, Tokens
<1>3. lease' \in [Ops -> LeaseRecord]
  BY <1>1, <1>2, CasType DEF TransferBind
<1>4. SessionOK'
  BY <1>1 DEF TransferBind, goto, SessionOK, Session, SessionSteps
<1>5. WorkerOK'
  BY <1>1, ScheduleType DEF TransferBind
<1>6. faults' \in 0 .. MaxFaults
  BY <1>1, FaultsType DEF TransferBind
<1> QED  BY <1>3, <1>4, <1>5, <1>6 DEF TypeOK, TransferBind, keepHost, ResolverOK, DeviceOK

-----------------------------------------------------------------------------
(* The recovery run.                                                       *)

(* A run that ends or throws, and one that goes on with a row.             *)
LEMMA WorkerSteps ==
  ASSUME WorkerOK
  PROVE  /\ \A result \in {"ready", "recovering", "intervention"} : finished(result) => WorkerOK'
         /\ threw => WorkerOK'
         /\ \A step \in RunSteps, row \in LeaseRecord :
              /\ rec.op \in Ops /\ stepTo(step, row)
              /\ step \notin {"snapshot", "release", "close"} \/ rec.obs \in Outcomes
              => WorkerOK'
<1>1. \A result : barrier(result) \in {"starting", "ready", "blocked"}
  BY DEF barrier, WorkerOK, Worker
<1>2. ASSUME NEW last \in {"none", "ready", "recovering", "intervention"}, NEW failed \in BOOLEAN,
             NEW boot \in {"starting", "ready", "blocked"},
             rec' = [NoRun EXCEPT !.queued = rec.queued, !.last = last, !.failed = failed,
                                  !.boot = boot]
      PROVE  WorkerOK'
  <2>1. NoRun \in Worker /\ NoRun.pc = "idle" /\ rec.queued \in BOOLEAN
    BY RecordTypes DEF WorkerOK, Worker, NoRun
  <2>2. rec' \in Worker /\ rec'.pc = "idle"
    BY <1>2, <2>1 DEF Worker
  <2> QED  BY <2>2 DEF WorkerOK
<1>3. ASSUME NEW result \in {"ready", "recovering", "intervention"}, finished(result)
      PROVE  WorkerOK'
  BY <1>1, <1>2, <1>3 DEF finished, WorkerOK, Worker
<1>4. CASE threw
  BY <1>1, <1>2, <1>4 DEF threw, WorkerOK, Worker
<1>5. ASSUME NEW step \in RunSteps, NEW row \in LeaseRecord, rec.op \in Ops, stepTo(step, row),
             step \notin {"snapshot", "release", "close"} \/ rec.obs \in Outcomes
      PROVE  WorkerOK'
  BY <1>5 DEF stepTo, WorkerOK, Worker
<1> QED  BY <1>3, <1>4, <1>5

(* A run at work has a row, and its next token is a token.                 *)
LEMMA RunFacts ==
  ASSUME WorkerOK, rec.pc # "idle"
  PROVE  /\ rec \in Worker /\ rec.op \in Ops /\ rec.row \in LeaseRecord
         /\ nextToken(rec.row) \in Nat
         /\ rec.row.rev + 1 \in Nat
         /\ rec.row.token \in Nat
  BY DEF WorkerOK, Worker, nextToken, LeaseRecord, Tokens

LEMMA RunStartsType ==
  ASSUME TypeOK, RunStarts
  PROVE  TypeOK'
<1>1. lease \in [Ops -> LeaseRecord] /\ rec \in Worker /\ rec.pc = "idle"
  BY DEF TypeOK, WorkerOK, RunStarts
<1>2. WorkerOK'
  <2>1. ASSUME NEW result \in {"ready", "intervention"},
               rec' = [rec EXCEPT !.queued = FALSE, !.last = result, !.boot = barrier(result)]
        PROVE  WorkerOK'
    BY <1>1, <2>1 DEF WorkerOK, Worker, barrier
  <2>2. ASSUME NEW o \in Ops, NEW step \in {"deadline", "bind"},
               rec' = [rec EXCEPT !.queued = FALSE, !.op = o, !.row = lease[o], !.pc = step]
        PROVE  WorkerOK'
    BY <1>1, <2>2 DEF WorkerOK, Worker, RunSteps
  <2> QED  BY <2>1, <2>2 DEF RunStarts, listUnresolved
<1> QED  BY <1>2 DEF TypeOK, RunStarts, keepStore, keepHost, keepSession, Smooth, SessionOK,
         ResolverOK, DeviceOK

LEMMA BindType ==
  ASSUME TypeOK, Bind
  PROVE  TypeOK'
<1>1. /\ WorkerOK /\ rec.op \in Ops /\ rec.row \in LeaseRecord /\ nextToken(rec.row) \in Nat
      /\ host \in HostLease
      /\ faults \in 0 .. MaxFaults
  BY RunFacts DEF TypeOK, Bind
<1>2. host' \in HostLease
  BY <1>1, GrantType DEF Bind, keepHost, Authorities
<1>3. WorkerOK'
  BY <1>1, WorkerSteps DEF Bind, RunSteps
<1>4. faults' \in 0 .. MaxFaults
  BY <1>1, FaultsType DEF Bind
<1> QED  BY <1>2, <1>3, <1>4 DEF TypeOK, Bind, keepStore, keepSession, SessionOK, ResolverOK,
         DeviceOK

LEMMA BindSwapType ==
  ASSUME TypeOK, BindSwap
  PROVE  TypeOK'
<1> DEFINE row == bound(rec.row, nextToken(rec.row))
<1>1. /\ WorkerOK /\ rec.op \in Ops /\ rec.row \in LeaseRecord
      /\ nextToken(rec.row) \in Nat /\ rec.row.rev + 1 \in Nat
      /\ lease \in [Ops -> LeaseRecord]
      /\ faults \in 0 .. MaxFaults
  BY RunFacts DEF TypeOK, BindSwap
<1>2. row \in LeaseRecord
  BY <1>1 DEF bound, LeaseRecord, LeaseStates, Authorities, Tokens
<1>3. [row EXCEPT !.rev = rec.row.rev + 1] \in LeaseRecord
  BY <1>1, <1>2 DEF LeaseRecord
<1> HIDE DEF row
<1>4. /\ compareAndSwap(rec.op, rec.row, row) \/ UNCHANGED lease
      /\ stepTo("deadline", [row EXCEPT !.rev = rec.row.rev + 1]) \/ threw
      /\ Smooth \/ Fault
  BY DEF BindSwap, swapOr, row
<1>5. lease' \in [Ops -> LeaseRecord]
  BY <1>1, <1>2, <1>4, CasType
<1>6. WorkerOK'
  BY <1>1, <1>3, <1>4, WorkerSteps DEF RunSteps
<1>7. faults' \in 0 .. MaxFaults
  BY <1>1, <1>4, FaultsType
<1> QED  BY <1>5, <1>6, <1>7 DEF TypeOK, BindSwap, keepHost, keepSession, SessionOK,
         ResolverOK, DeviceOK

LEMMA DeadlineType ==
  ASSUME TypeOK, Deadline
  PROVE  TypeOK'
<1> DEFINE row == [rec.row EXCEPT !.state = "intervention"]
           stored == [row EXCEPT !.rev = rec.row.rev + 1]
<1>1. /\ WorkerOK /\ rec \in Worker /\ rec.op \in Ops /\ rec.row \in LeaseRecord
      /\ rec.row.rev + 1 \in Nat
      /\ lease \in [Ops -> LeaseRecord]
      /\ faults \in 0 .. MaxFaults
  BY RunFacts DEF TypeOK, Deadline
<1>2. row \in LeaseRecord
  BY <1>1 DEF LeaseRecord, LeaseStates
<1>3. stored \in LeaseRecord
  BY <1>1, <1>2 DEF LeaseRecord
<1> HIDE DEF row, stored
<1>4. /\ compareAndSwap(rec.op, rec.row, row) \/ UNCHANGED lease
      /\ \/ stepTo("observe", rec.row)
         \/ rec' = [rec EXCEPT !.pc = "observe", !.retain = TRUE, !.row = stored]
         \/ threw
      /\ Smooth \/ Fault
  BY DEF Deadline, row, stored
<1>5. lease' \in [Ops -> LeaseRecord]
  BY <1>1, <1>2, <1>4, CasType
<1>6. WorkerOK'
  <2>1. CASE rec' = [rec EXCEPT !.pc = "observe", !.retain = TRUE, !.row = stored]
    BY <1>1, <1>3, <2>1 DEF WorkerOK, Worker, RunSteps
  <2> QED  BY <1>1, <1>4, <2>1, WorkerSteps DEF RunSteps
<1>7. faults' \in 0 .. MaxFaults
  BY <1>1, <1>4, FaultsType
<1> QED  BY <1>5, <1>6, <1>7 DEF TypeOK, Deadline, keepHost, keepSession, SessionOK,
         ResolverOK, DeviceOK

LEMMA ObserveType ==
  ASSUME TypeOK, Observe
  PROVE  TypeOK'
<1>1. /\ WorkerOK /\ rec \in Worker /\ rec.op \in Ops /\ rec.row \in LeaseRecord
      /\ faults \in 0 .. MaxFaults
  BY RunFacts DEF TypeOK, Observe
<1>2. observe(rec.row) \in Observations
  BY DEF observe, Observations
<1>3. /\ afterObserving(observe(rec.row)) \in {"retract", "intervene", "snapshot"}
      /\ afterObserving(observe(rec.row)) = "snapshot" => observe(rec.row) \in Outcomes
  BY DEF afterObserving, observe, Outcomes
<1>4. WorkerOK'
  <2>1. CASE rec' = [rec EXCEPT !.pc = afterObserving(observe(rec.row)),
                                !.obs = observe(rec.row)]
    BY <1>1, <1>2, <1>3, <2>1 DEF WorkerOK, Worker, RunSteps
  <2> QED  BY <1>1, <2>1, WorkerSteps DEF Observe, RunSteps
<1>5. faults' \in 0 .. MaxFaults
  BY <1>1, FaultsType DEF Observe
<1> QED  BY <1>4, <1>5 DEF TypeOK, Observe, keepStore, keepHost, keepSession, SessionOK,
         ResolverOK, DeviceOK

LEMMA RecoveryRetractType ==
  ASSUME TypeOK, RecoveryRetract
  PROVE  TypeOK'
<1>1. /\ WorkerOK /\ rec.op \in Ops /\ rec.row \in LeaseRecord
      /\ DeviceOK
  BY RunFacts DEF TypeOK, RecoveryRetract
<1>2. DeviceOK'
  BY <1>1, DeviceSteps DEF RecoveryRetract, Commands, Callers
<1>3. WorkerOK'
  BY <1>1, WorkerSteps DEF RecoveryRetract, RunSteps
<1> QED  BY <1>2, <1>3 DEF TypeOK, RecoveryRetract, Smooth, keepStore, keepHost, keepSession,
         SessionOK, ResolverOK

LEMMA RecoveryRetractReturnsType ==
  ASSUME TypeOK, RecoveryRetractReturns
  PROVE  TypeOK'
<1>1. /\ WorkerOK /\ rec \in Worker /\ rec.op \in Ops /\ rec.row \in LeaseRecord
      /\ DeviceOK
      /\ faults \in 0 .. MaxFaults
  BY RunFacts DEF TypeOK, RecoveryRetractReturns
<1>2. DeviceOK'
  BY <1>1, DeviceSteps DEF RecoveryRetractReturns, Callers
<1>3. WorkerOK'
  <2>1. CASE rec' = [rec EXCEPT !.pc = "snapshot", !.obs = "retracted"]
    BY <1>1, <2>1 DEF WorkerOK, Worker, RunSteps, Observations, Outcomes
  <2> QED  BY <1>1, <2>1, WorkerSteps DEF RecoveryRetractReturns, RunSteps
<1>4. faults' \in 0 .. MaxFaults
  BY <1>1, FaultsType DEF RecoveryRetractReturns
<1> QED  BY <1>2, <1>3, <1>4 DEF TypeOK, RecoveryRetractReturns, keepStore, keepHost,
         keepSession, SessionOK, ResolverOK

LEMMA CaptureAfterSnapshotType ==
  ASSUME TypeOK, CaptureAfterSnapshot
  PROVE  TypeOK'
<1> DEFINE row == [rec.row EXCEPT !.outcome = rec.obs]
<1>1. /\ WorkerOK /\ rec.op \in Ops /\ rec.row \in LeaseRecord /\ rec.obs \in Outcomes
      /\ lease \in [Ops -> LeaseRecord]
      /\ evid \in [Ops -> SUBSET Kinds]
      /\ faults \in 0 .. MaxFaults
  BY RunFacts DEF TypeOK, CaptureAfterSnapshot, WorkerOK
<1>2. row \in LeaseRecord
  BY <1>1 DEF LeaseRecord
<1> HIDE DEF row
<1>3. /\ compareAndSwap(rec.op, rec.row, row) \/ UNCHANGED lease
      /\ evid' = [evid EXCEPT ![rec.op] = @ \cup {"after"}] \/ UNCHANGED evid
      /\ \/ finished("intervention") \/ threw
         \/ \E step \in {"release", "intervene"} : stepTo(step, rec.row)
      /\ Smooth \/ Fault
  BY DEF CaptureAfterSnapshot, row, keepStore
<1>4. lease' \in [Ops -> LeaseRecord]
  BY <1>1, <1>2, <1>3, CasType
<1>5. evid' \in [Ops -> SUBSET Kinds]
  BY <1>1, <1>3 DEF Kinds
<1>6. WorkerOK'
  BY <1>1, <1>3, WorkerSteps DEF RunSteps
<1>7. faults' \in 0 .. MaxFaults
  BY <1>1, <1>3, FaultsType
<1> QED  BY <1>4, <1>5, <1>6, <1>7 DEF TypeOK, CaptureAfterSnapshot, keepHost, SessionOK,
         ResolverOK, DeviceOK

LEMMA ReleaseResourcesType ==
  ASSUME TypeOK, ReleaseResources
  PROVE  TypeOK'
<1>1. /\ WorkerOK /\ rec.op \in Ops /\ rec.row \in LeaseRecord /\ rec.obs \in Outcomes
      /\ host \in HostLease /\ NoHostLease \in HostLease
      /\ faults \in 0 .. MaxFaults
  BY RunFacts DEF TypeOK, ReleaseResources, WorkerOK, HostLease, NoHostLease, Authorities,
     Tokens
<1>2. host' \in HostLease
  BY <1>1 DEF ReleaseResources
<1>3. WorkerOK'
  BY <1>1, WorkerSteps DEF ReleaseResources, RunSteps
<1>4. faults' \in 0 .. MaxFaults
  BY <1>1, FaultsType DEF ReleaseResources
<1> QED  BY <1>2, <1>3, <1>4 DEF TypeOK, ReleaseResources, freeLock, keepStore, keepSession,
         SessionOK, ResolverOK, DeviceOK

LEMMA CloseRecoveredType ==
  ASSUME TypeOK, CloseRecovered
  PROVE  TypeOK'
<1> DEFINE row == [rec.row EXCEPT !.state = "closed", !.outcome = rec.obs]
<1>1. /\ WorkerOK /\ rec.op \in Ops /\ rec.row \in LeaseRecord /\ rec.obs \in Outcomes
      /\ lease \in [Ops -> LeaseRecord]
      /\ faults \in 0 .. MaxFaults
  BY RunFacts DEF TypeOK, CloseRecovered, WorkerOK
<1>2. row \in LeaseRecord
  BY <1>1 DEF LeaseRecord, LeaseStates
<1>3. lease' \in [Ops -> LeaseRecord]
  BY <1>1, <1>2, CasType DEF CloseRecovered
<1>4. WorkerOK'
  BY <1>1, WorkerSteps DEF CloseRecovered
<1>5. faults' \in 0 .. MaxFaults
  BY <1>1, FaultsType DEF CloseRecovered
<1> QED  BY <1>3, <1>4, <1>5 DEF TypeOK, CloseRecovered, keepHost, keepSession, SessionOK,
         ResolverOK, DeviceOK

LEMMA EnterInterventionType ==
  ASSUME TypeOK, EnterIntervention
  PROVE  TypeOK'
<1> DEFINE row == [rec.row EXCEPT !.state = "intervention"]
<1>1. /\ WorkerOK /\ rec.op \in Ops /\ rec.row \in LeaseRecord
      /\ lease \in [Ops -> LeaseRecord]
      /\ faults \in 0 .. MaxFaults
  BY RunFacts DEF TypeOK, EnterIntervention
<1>2. row \in LeaseRecord
  BY <1>1 DEF LeaseRecord, LeaseStates
<1>3. lease' \in [Ops -> LeaseRecord]
  BY <1>1, <1>2, CasType DEF EnterIntervention
<1>4. WorkerOK'
  BY <1>1, WorkerSteps DEF EnterIntervention
<1>5. faults' \in 0 .. MaxFaults
  BY <1>1, FaultsType DEF EnterIntervention
<1> QED  BY <1>3, <1>4, <1>5 DEF TypeOK, EnterIntervention, keepHost, keepSession, SessionOK,
         ResolverOK, DeviceOK

-----------------------------------------------------------------------------
(* The operator's resolution.                                              *)

(* A resolution at work has a row.                                         *)
LEMMA ResolverFacts ==
  ASSUME ResolverOK, mt.pc # "idle"
  PROVE  /\ mt \in Resolver /\ mt.op \in Ops /\ mt.row \in LeaseRecord
         /\ mt.row.rev + 1 \in Nat /\ mt.row.token + 1 \in Nat
         /\ mt.out \in Outcomes \cup {"none"}
  BY DEF ResolverOK, Resolver, LeaseRecord, Tokens

LEMMA ResolverStopsType ==
  ASSUME resolverStops
  PROVE  ResolverOK'
  BY RecordTypes DEF resolverStops, ResolverOK, NoResolve

LEMMA ResolveType ==
  ASSUME TypeOK, NEW o \in Ops, NEW out \in Verdicts, NEW back \in BOOLEAN, Resolve(o, out, back)
  PROVE  TypeOK'
<1>1. /\ lease[o] \in LeaseRecord /\ lease[o].token + 1 \in Nat
      /\ ResolverOK
      /\ faults \in 0 .. MaxFaults
  BY DEF TypeOK, LeaseRecord, Tokens
<1>2. host' \in HostLease
  BY <1>1, GrantType DEF Resolve, Authorities
<1>3. ResolverOK'
  <2>1. CASE mt' = [pc |-> "swap", op |-> o, row |-> lease[o], out |-> out, back |-> back]
    BY <1>1, <2>1 DEF ResolverOK, Resolver, Outcomes
  <2> QED  BY <1>1, <2>1 DEF Resolve, ResolverOK
<1>4. faults' \in 0 .. MaxFaults
  BY <1>1, FaultsType DEF Resolve
<1> QED  BY <1>2, <1>3, <1>4 DEF TypeOK, Resolve, keepStore, keepSession, SessionOK, WorkerOK,
         DeviceOK

LEMMA ResolverSwapType ==
  ASSUME TypeOK, ResolverSwap
  PROVE  TypeOK'
<1> DEFINE row == [mt.row EXCEPT !.state = "maintenanceBound", !.authority = "maintenance",
                                 !.token = mt.row.token + 1]
           stored == [row EXCEPT !.rev = mt.row.rev + 1]
<1>1. /\ mt \in Resolver /\ mt.op \in Ops /\ mt.row \in LeaseRecord
      /\ mt.row.rev + 1 \in Nat /\ mt.row.token + 1 \in Nat
      /\ lease \in [Ops -> LeaseRecord]
      /\ faults \in 0 .. MaxFaults
  BY ResolverFacts DEF TypeOK, ResolverSwap
<1>2. row \in LeaseRecord
  BY <1>1 DEF LeaseRecord, LeaseStates, Authorities, Tokens
<1>3. stored \in LeaseRecord
  BY <1>1, <1>2 DEF LeaseRecord
<1> HIDE DEF row, stored
<1>4. /\ compareAndSwap(mt.op, mt.row, row) \/ UNCHANGED lease
      /\ mt' = [mt EXCEPT !.pc = "evidence", !.row = stored] \/ resolverStops
      /\ Smooth \/ Fault
  BY DEF ResolverSwap, row, stored
<1>5. lease' \in [Ops -> LeaseRecord]
  BY <1>1, <1>2, <1>4, CasType
<1>6. ResolverOK'
  <2>1. CASE mt' = [mt EXCEPT !.pc = "evidence", !.row = stored]
    BY <1>1, <1>3, <2>1 DEF ResolverOK, Resolver
  <2> QED  BY <1>4, <2>1, ResolverStopsType
<1>7. faults' \in 0 .. MaxFaults
  BY <1>1, <1>4, FaultsType
<1> QED  BY <1>5, <1>6, <1>7 DEF TypeOK, ResolverSwap, keepHost, keepSession, SessionOK,
         WorkerOK, DeviceOK

LEMMA ResolverEvidenceType ==
  ASSUME TypeOK, ResolverEvidence
  PROVE  TypeOK'
<1> DEFINE row == [mt.row EXCEPT !.outcome = mt.out]
           stored == [row EXCEPT !.rev = mt.row.rev + 1]
<1>1. /\ mt \in Resolver /\ mt.op \in Ops /\ mt.row \in LeaseRecord
      /\ mt.row.rev + 1 \in Nat /\ mt.out \in Outcomes \cup {"none"}
      /\ lease \in [Ops -> LeaseRecord]
      /\ faults \in 0 .. MaxFaults
  BY ResolverFacts DEF TypeOK, ResolverEvidence
<1>2. row \in LeaseRecord
  BY <1>1 DEF LeaseRecord
<1>3. stored \in LeaseRecord
  BY <1>1, <1>2 DEF LeaseRecord
<1> HIDE DEF row, stored
<1>4. /\ compareAndSwap(mt.op, mt.row, row) \/ UNCHANGED lease
      /\ mt' = [mt EXCEPT !.pc = "release", !.row = stored] \/ resolverStops
      /\ Smooth
  BY DEF ResolverEvidence, row, stored
<1>5. lease' \in [Ops -> LeaseRecord]
  BY <1>1, <1>2, <1>4, CasType
<1>6. ResolverOK'
  <2>1. CASE mt' = [mt EXCEPT !.pc = "release", !.row = stored]
    BY <1>1, <1>3, <2>1 DEF ResolverOK, Resolver
  <2> QED  BY <1>4, <2>1, ResolverStopsType
<1>7. faults' \in 0 .. MaxFaults
  BY <1>1, <1>4, FaultsType
<1> QED  BY <1>5, <1>6, <1>7 DEF TypeOK, ResolverEvidence, keepHost, keepSession, SessionOK,
         WorkerOK, DeviceOK

LEMMA ResolverReleaseType ==
  ASSUME TypeOK, ResolverRelease
  PROVE  TypeOK'
<1>1. /\ mt \in Resolver /\ mt.op \in Ops
      /\ host \in HostLease /\ NoHostLease \in HostLease
      /\ faults \in 0 .. MaxFaults
  BY ResolverFacts DEF TypeOK, ResolverRelease, HostLease, NoHostLease, Authorities, Tokens
<1>2. host' \in HostLease
  BY <1>1 DEF ResolverRelease, keepHost
<1>3. ResolverOK'
  <2>1. CASE mt' = [mt EXCEPT !.pc = "close"]
    BY <1>1, <2>1 DEF ResolverOK, Resolver
  <2> QED  BY <2>1, ResolverStopsType DEF ResolverRelease
<1>4. faults' \in 0 .. MaxFaults
  BY <1>1, FaultsType DEF ResolverRelease
<1> QED  BY <1>2, <1>3, <1>4 DEF TypeOK, ResolverRelease, freeLock, keepStore, keepSession,
         SessionOK, WorkerOK, DeviceOK

LEMMA ResolverCloseType ==
  ASSUME TypeOK, ResolverClose
  PROVE  TypeOK'
<1>1. /\ mt \in Resolver /\ mt.op \in Ops /\ mt.row \in LeaseRecord
      /\ lease \in [Ops -> LeaseRecord]
  BY ResolverFacts DEF TypeOK, ResolverClose
<1>2. [mt.row EXCEPT !.state = "closed"] \in LeaseRecord
  BY <1>1 DEF LeaseRecord, LeaseStates
<1>3. lease' \in [Ops -> LeaseRecord]
  BY <1>1, <1>2, CasType DEF ResolverClose
<1> QED  BY <1>3, ResolverStopsType DEF TypeOK, ResolverClose, Smooth, keepHost, keepSession,
         SessionOK, WorkerOK, DeviceOK

-----------------------------------------------------------------------------
(* The dispenser, the host, the customer and the crash.                    *)

LEMMA DeviceExecutesType ==
  ASSUME TypeOK, DeviceExecutes
  PROVE  TypeOK'
<1>1. /\ cash \in [Ops -> Places]
      /\ dev \in Device /\ dev.op \in Ops /\ dev.cmd \in Commands
  BY DEF TypeOK, DeviceExecutes, DeviceOK, Device
<1>2. cash' \in [Ops -> Places]
  <2>1. CASE dev.cmd = "dispense"
    BY <1>1, <2>1 DEF DeviceExecutes, Moved, Places
  <2>2. CASE dev.cmd = "present"
    BY <1>1, <2>2 DEF DeviceExecutes, Moved, Places
  <2>3. CASE dev.cmd = "retract"
    BY <1>1, <2>3 DEF DeviceExecutes, Moved, Places
  <2> QED  BY <1>1, <2>1, <2>2, <2>3 DEF Commands
<1>3. DeviceOK'
  <2>1. Shown(dev.cmd) \in BOOLEAN
    BY <1>1 DEF Shown, Device
  <2>2. Answer("ok") \in Device /\ Answer("ok").cmd = "none"
    BY <1>1 DEF Answer, Device
  <2> QED  BY <2>1, <2>2 DEF DeviceExecutes, DeviceOK, Device
<1> QED  BY <1>2, <1>3 DEF TypeOK, DeviceExecutes, SessionOK, WorkerOK, ResolverOK

LEMMA EnvironmentType ==
  ASSUME TypeOK, DeviceRejects \/ CustomerTakes \/ HostLeaseExpires \/ CommandTimesOut
  PROVE  TypeOK'
<1> USE DEF TypeOK, SessionOK, WorkerOK, ResolverOK
<1>1. NoHostLease \in HostLease
  BY DEF HostLease, NoHostLease, Authorities, Tokens
<1>2. CASE DeviceRejects
  BY <1>2, DeviceSteps, FaultsType DEF DeviceRejects
<1>3. CASE CustomerTakes
  BY <1>3, DeviceSteps DEF CustomerTakes, Places
<1>4. CASE HostLeaseExpires
  BY <1>1, <1>4, DeviceSteps DEF HostLeaseExpires
<1>5. CASE CommandTimesOut
  BY <1>5, DeviceSteps, FaultsType DEF CommandTimesOut
<1> QED  BY <1>2, <1>3, <1>4, <1>5

LEMMA RestartType ==
  ASSUME TypeOK, HostRestarts \/ Crash
  PROVE  TypeOK'
<1>1. faults' \in 0 .. MaxFaults
  BY FaultsType DEF TypeOK, HostRestarts, Crash
<1>2. CASE HostRestarts
  <2>1. NoHostLease \in HostLease
    BY DEF HostLease, NoHostLease, Authorities, Tokens
  <2>2. DeviceOK'
    <3>1. NoCommand \in Device /\ NoCommand.cmd = "none" /\ dev.shown \in BOOLEAN
      BY DEF NoCommand, Device, Callers, TypeOK, DeviceOK
    <3>2. dev' = [NoCommand EXCEPT !.shown = dev.shown]
      BY <1>2 DEF HostRestarts
    <3> HIDE DEF NoCommand
    <3> QED  BY <3>1, <3>2 DEF DeviceOK, Device
  <2> QED  BY <1>1, <1>2, <2>1, <2>2 DEF HostRestarts, TypeOK, SessionOK, WorkerOK, ResolverOK
<1>3. CASE Crash
  <2>1. DeviceOK'
    BY <1>3, DeviceSteps DEF Crash, TypeOK
  <2>2. SessionOK' /\ ResolverOK'
    BY <1>3, RecordTypes DEF Crash, SessionOK, ResolverOK, NoSession, NoResolve
  <2>3. WorkerOK'
    <3>1. NoRun \in Worker /\ NoRun.pc = "idle"
      BY RecordTypes DEF NoRun
    <3>2. rec' = [NoRun EXCEPT !.queued = TRUE, !.boot = "starting"]
      BY <1>3 DEF Crash
    <3>3. rec' \in Worker /\ rec'.pc = "idle"
      BY <3>1, <3>2 DEF Worker
    <3> QED  BY <3>3 DEF WorkerOK
  <2> QED  BY <1>1, <1>3, <2>1, <2>2, <2>3 DEF Crash, TypeOK, keepStore, keepHost
<1> QED  BY <1>2, <1>3

-----------------------------------------------------------------------------
(* Every step keeps the types.                                             *)
LEMMA NextType == TypeOK /\ [Next]_vars => TypeOK'
<1> SUFFICES ASSUME TypeOK, [Next]_vars
             PROVE  TypeOK'
  OBVIOUS
<1>1. CASE SessionStep
  <2>1. CASE DispensePersisted \/ PresentPersisted
    BY <2>1, UpdateAfterType DEF DispensePersisted, PresentPersisted, SessionSteps
  <2> QED
    BY <1>1, <2>1, StartType, CreateLeaseType, AcquireHostLeaseType, PersistBeforeType,
       DispenseType, DispenseReturnsType, PresentType, PresentReturnsType, TakeConfirmedType,
       TakeTimesOutType, AbortType, RetractReturnsType, FinishType, CloseLeaseType,
       ReleaseHostLeaseType, ReleaseLockType, ExitType, AcceptTransferType,
       TransferTransitionType, TransferBindType, LeaveType DEF SessionStep
<1>2. CASE RecoveryStep
  BY <1>2, RunStartsType, BindType, BindSwapType, DeadlineType, ObserveType,
     RecoveryRetractType, RecoveryRetractReturnsType, CaptureAfterSnapshotType,
     ReleaseResourcesType, CloseRecoveredType, EnterInterventionType DEF RecoveryStep
<1>3. CASE ResolverStep
  BY <1>3, ResolveType, ResolverSwapType, ResolverEvidenceType, ResolverReleaseType,
     ResolverCloseType DEF ResolverStep
<1>4. CASE EnvironmentStep
  BY <1>4, DeviceExecutesType, EnvironmentType, RestartType DEF EnvironmentStep
<1>5. CASE UNCHANGED vars
  BY <1>5 DEF vars, TypeOK, SessionOK, WorkerOK, ResolverOK, DeviceOK
<1> QED  BY <1>1, <1>2, <1>3, <1>4, <1>5 DEF Next

(* Type correctness: rows, records, tokens and the operations the actors   *)
(* work on keep their types, and recovery closes a row only with an        *)
(* outcome, whatever happens.                                              *)
THEOREM TypeCorrect == Spec => []TypeOK
<1>1. Init => TypeOK
  BY InitType
<1>2. TypeOK /\ [Next]_vars => TypeOK'
  BY NextType
<1> QED  BY <1>1, <1>2, PTL DEF Spec

-----------------------------------------------------------------------------
(* EvidenceBeforeMovement needs two facts about what is under way: a       *)
(* dispense in flight has its evidence, and a session past its preparation *)
(* has its before snapshot.                                                *)
Prepared == {"ready", "dispense", "dispensed", "present", "presented", "retract", "finish",
             "transfer", "transition", "bind"}
SessionBacked ==
  fg.pc \in Prepared \/ fg.phase # "planning" => fg.op \in Ops /\ "before" \in evid[fg.op]
DispenseBacked ==
  dev.cmd = "dispense" => {"before", "intent"} \subseteq evid[dev.op]
EvidenceInv == TypeOK /\ EvidenceBeforeMovement /\ DispenseBacked /\ SessionBacked

(* Evidence is never lost: no step removes a kind.                         *)
Grows == \A o \in Ops : evid[o] \subseteq evid'[o]

LEMMA AddGrows ==
  ASSUME evid \in [Ops -> SUBSET Kinds], NEW o \in Ops, NEW S,
         evid' = [evid EXCEPT ![o] = @ \cup S]
  PROVE  Grows
  BY DEF Grows

LEMMA EvidenceGrows ==
  ASSUME TypeOK, [Next]_vars
  PROVE  Grows
<1>1. /\ evid \in [Ops -> SUBSET Kinds]
      /\ fg.pc # "idle" => fg.op \in Ops
      /\ rec.pc # "idle" => rec.op \in Ops
  BY DEF TypeOK, SessionOK, WorkerOK
<1>2. CASE UNCHANGED evid
  BY <1>2 DEF Grows
<1>3. ASSUME PersistBefore \/ Dispense \/ Finish
      PROVE  Grows
  BY <1>1, <1>2, <1>3, AddGrows DEF PersistBefore, Dispense, Finish, at, ready
<1>4. ASSUME TakeTimesOut \/ Abort
      PROVE  Grows
  <2>1. ASSUME NEW recon \in BOOLEAN, retract(recon), fg.op \in Ops
        PROVE  Grows
    BY <1>1, <1>2, <2>1 DEF retract, Grows
  <2> QED  BY <1>1, <1>2, <1>4, <2>1 DEF TakeTimesOut, Abort, at, ready
<1>5. ASSUME CaptureAfterSnapshot
      PROVE  Grows
  BY SMTT(40), <1>1, <1>2, <1>5, AddGrows DEF CaptureAfterSnapshot, keepStore
<1>6. CASE SessionStep
  BY <1>2, <1>3, <1>4, <1>6 DEF SessionStep, Start, CreateLease, AcquireHostLease,
     DispenseReturns, DispensePersisted, Present, PresentReturns, PresentPersisted, UpdateAfter,
     TakeConfirmed, RetractReturns, CloseLease, ReleaseHostLease, ReleaseLock, Exit,
     AcceptTransfer, TransferTransition, TransferBind, Leave, keepStore
<1>7. CASE RecoveryStep
  BY <1>2, <1>5, <1>7 DEF RecoveryStep, RunStarts, Bind, BindSwap, Deadline, Observe,
     RecoveryRetract, RecoveryRetractReturns, ReleaseResources, CloseRecovered,
     EnterIntervention, keepStore, keepSession
<1>8. CASE ResolverStep
  BY <1>2, <1>8 DEF ResolverStep, Resolve, ResolverSwap, ResolverEvidence, ResolverRelease,
     ResolverClose, keepSession
<1>9. CASE EnvironmentStep
  BY <1>2, <1>9 DEF EnvironmentStep, DeviceExecutes, DeviceRejects, CustomerTakes,
     CommandTimesOut, HostLeaseExpires, HostRestarts, Crash, keepStore
<1> QED  BY <1>2, <1>6, <1>7, <1>8, <1>9 DEF Next, vars

(* A session step keeps the operation, and a step of a prepared session or *)
(* one that keeps the phase leaves it backed.                              *)
LEMMA KeepsBacked ==
  ASSUME SessionBacked, Grows, fg'.op = fg.op,
         \/ fg.pc \in Prepared
         \/ fg'.pc \notin Prepared /\ fg'.phase = fg.phase
  PROVE  SessionBacked'
  BY DEF SessionBacked, Grows

(* Until it is dropped a session works on one operation.                   *)
LEMMA SessionKeepsOp ==
  ASSUME fg \in Session, fg.pc \in Prepared, SessionStep
  PROVE  fg'.op = fg.op
<1> USE DEF Session
<1>1. \A step : goto(step) => fg'.op = fg.op
  BY DEF goto
<1>2. \A recon : retract(recon) => fg'.op = fg.op
  BY DEF retract
<1>3. CASE Dispense
  BY <1>3 DEF Dispense
<1>4. CASE DispenseReturns
  BY <1>4 DEF DispenseReturns
<1>5. CASE DispensePersisted \/ PresentPersisted
  BY <1>1, <1>5 DEF DispensePersisted, PresentPersisted, UpdateAfter
<1>6. CASE Present \/ TakeConfirmed
  BY <1>6 DEF Present, TakeConfirmed
<1>7. CASE PresentReturns
  BY <1>7 DEF PresentReturns
<1>8. CASE TakeTimesOut
  BY <1>2, <1>8 DEF TakeTimesOut
<1>9. CASE Abort
  BY <1>1, <1>2, <1>9 DEF Abort
<1>10. CASE RetractReturns
  BY <1>10 DEF RetractReturns
<1>11. CASE Finish
  BY <1>11 DEF Finish
<1>12. CASE Exit
  BY <1>1, <1>12 DEF Exit
<1>13. CASE AcceptTransfer
  BY <1>1, <1>13 DEF AcceptTransfer
<1>14. CASE TransferTransition \/ TransferBind
  BY <1>1, <1>14 DEF TransferTransition, TransferBind
<1> QED  BY <1>3, <1>4, <1>5, <1>6, <1>7, <1>8, <1>9, <1>10, <1>11, <1>12, <1>13, <1>14
         DEF SessionStep, Start, CreateLease, AcquireHostLease, PersistBefore, CloseLease,
             ReleaseHostLease, ReleaseLock, Leave, at, Prepared

LEMMA SessionStepBacked ==
  ASSUME EvidenceInv, Grows, SessionStep
  PROVE  SessionBacked'
<1> USE DEF EvidenceInv
<1>1. fg \in Session /\ (fg.pc # "idle" => fg.op \in Ops) /\ evid \in [Ops -> SUBSET Kinds]
  BY DEF TypeOK, SessionOK
<1>2. CASE \E o \in Ops : Start(o)
  BY <1>2 DEF Start, NoSession, SessionBacked, Prepared
<1>3. CASE CreateLease \/ AcquireHostLease
  <2>1. CASE fg' = NoSession
    BY <2>1 DEF NoSession, SessionBacked, Prepared
  <2>2. CASE fg' = [fg EXCEPT !.pc = "acquire", !.token = lease'[fg.op].token]
    BY <1>1, <2>2, KeepsBacked DEF Prepared, Session
  <2>3. CASE goto("before")
    BY <1>1, <2>3, KeepsBacked DEF goto, Prepared, Session
  <2> QED  BY <1>3, <2>1, <2>2, <2>3 DEF CreateLease, AcquireHostLease
<1>4. CASE PersistBefore
  <2>1. CASE /\ evid' = [evid EXCEPT ![fg.op] = @ \cup {"before"}]
             /\ fg' = [fg EXCEPT !.pc = "ready", !.phase = "planned"]
    BY <1>1, <1>4, <2>1 DEF PersistBefore, at, SessionBacked, Session
  <2>2. CASE fg' = [fg EXCEPT !.pc = "close", !.out = "notDispensed"]
    BY <1>1, <2>2, KeepsBacked DEF Prepared, Session
  <2> QED  BY <1>4, <2>1, <2>2 DEF PersistBefore
<1>5. CASE fg.pc \in Prepared
  <2>1. fg'.op = fg.op
    BY <1>1, <1>5, SessionKeepsOp
  <2> QED  BY <1>5, <2>1, KeepsBacked
<1>6. CASE CloseLease \/ ReleaseHostLease \/ ReleaseLock
  BY ZenonT(80), <1>1, <1>6, KeepsBacked
     DEF CloseLease, ReleaseHostLease, ReleaseLock, goto, Prepared, Session
<1>7. CASE Leave
  BY <1>7 DEF Leave, NoSession, SessionBacked, Prepared
<1> QED  BY <1>2, <1>3, <1>4, <1>5, <1>6, <1>7 DEF SessionStep, Dispense, DispenseReturns,
         DispensePersisted, Present, PresentReturns, PresentPersisted, UpdateAfter,
         TakeConfirmed, TakeTimesOut, Abort, RetractReturns, Finish, Exit, AcceptTransfer,
         TransferTransition, TransferBind, at, ready, Prepared

(* Only Dispense puts a dispense in flight, and only after both kinds.     *)
LEMMA DispenseStepBacked ==
  ASSUME EvidenceInv, Grows, [Next]_vars
  PROVE  DispenseBacked'
<1>1. /\ dev \in Device /\ (dev.cmd # "none" => dev.op \in Ops)
      /\ fg \in Session /\ (fg.pc # "idle" => fg.op \in Ops)
      /\ evid \in [Ops -> SUBSET Kinds]
  BY DEF EvidenceInv, TypeOK, DeviceOK, SessionOK
<1>2. ASSUME dev'.cmd = "dispense" => dev.cmd = "dispense" /\ dev'.op = dev.op
      PROVE  DispenseBacked'
  BY <1>1, <1>2 DEF EvidenceInv, DispenseBacked, Grows
<1>3. ASSUME UNCHANGED dev PROVE DispenseBacked'
  BY <1>2, <1>3
<1>4. ASSUME NEW who, NEW r, answered(who, r) PROVE DispenseBacked'
  BY <1>1, <1>2, <1>4 DEF answered, Device
<1>5. ASSUME NEW c \in {"present", "retract"}, NEW o, NEW who, issue(c, o, who)
      PROVE  DispenseBacked'
  BY <1>1, <1>2, <1>5 DEF issue, Device
<1>6. ASSUME NEW c \in {"present", "retract"}, send(c) PROVE DispenseBacked'
  BY <1>3, <1>5, <1>6 DEF send
<1>7. CASE Dispense
  <2>1. CASE /\ evid' = [evid EXCEPT ![fg.op] = @ \cup {"intent"}]
             /\ issue("dispense", fg.op, "session")
    <3>1. fg.op \in Ops /\ "before" \in evid[fg.op]
      BY <1>7 DEF EvidenceInv, SessionBacked, Dispense, ready, at, Prepared
    <3>2. {"before", "intent"} \subseteq evid'[fg.op]
      BY <1>1, <2>1, <3>1
    <3>3. dev'.op = fg.op
      BY <1>1, <2>1 DEF issue, Device
    <3> QED  BY <3>2, <3>3 DEF DispenseBacked
  <2> QED  BY <1>3, <1>7, <2>1 DEF Dispense, send
<1>8. CASE SessionStep
  BY <1>3, <1>4, <1>6, <1>7, <1>8 DEF SessionStep, Start, CreateLease, AcquireHostLease,
     PersistBefore, DispenseReturns, DispensePersisted, Present, PresentReturns,
     PresentPersisted, UpdateAfter, TakeConfirmed, TakeTimesOut, Abort, retract,
     RetractReturns, Finish, CloseLease, ReleaseHostLease, ReleaseLock, Exit, AcceptTransfer,
     TransferTransition, TransferBind, Leave
<1>9. CASE RecoveryStep
  BY <1>3, <1>4, <1>5, <1>9 DEF RecoveryStep, RunStarts, Bind, BindSwap, Deadline, Observe,
     RecoveryRetract, RecoveryRetractReturns, CaptureAfterSnapshot, ReleaseResources,
     CloseRecovered, EnterIntervention
<1>10. CASE ResolverStep
  BY <1>3, <1>10 DEF ResolverStep, Resolve, ResolverSwap, ResolverEvidence, ResolverRelease,
     ResolverClose
<1>11. CASE EnvironmentStep
  <2>1. CASE DeviceExecutes \/ DeviceRejects \/ HostRestarts
    <3>1. dev'.cmd = "none"
      BY <1>1, <2>1 DEF DeviceExecutes, DeviceRejects, HostRestarts, Answer, NoCommand, Device
    <3> QED  BY <3>1 DEF DispenseBacked
  <2>2. CASE CommandTimesOut \/ Crash
    BY <1>1, <1>2, <2>2 DEF CommandTimesOut, Crash, forgotten, Device
  <2> QED  BY <1>3, <1>11, <2>1, <2>2 DEF EnvironmentStep, CustomerTakes, HostLeaseExpires
<1> QED  BY <1>3, <1>8, <1>9, <1>10, <1>11 DEF Next, vars

(* Notes leave the vault only when a dispense in flight is executed.       *)
LEMMA MovementBacked ==
  ASSUME EvidenceInv, Grows, [Next]_vars
  PROVE  EvidenceBeforeMovement'
<1>1. cash \in [Ops -> Places] /\ dev \in Device /\ evid \in [Ops -> SUBSET Kinds]
  BY DEF EvidenceInv, TypeOK, DeviceOK
<1>2. ASSUME \A o \in Ops : cash'[o] # "vault" =>
               cash[o] # "vault" \/ (dev.cmd = "dispense" /\ dev.op = o)
      PROVE  EvidenceBeforeMovement'
  BY <1>1, <1>2 DEF EvidenceInv, EvidenceBeforeMovement, DispenseBacked, Grows
<1>3. CASE UNCHANGED cash
  BY <1>2, <1>3
<1>4. CASE CustomerTakes
  BY <1>1, <1>2, <1>4 DEF CustomerTakes
<1>5. CASE DeviceExecutes
  <2>1. dev.cmd \in Commands
    BY <1>1, <1>5 DEF DeviceExecutes, Device
  <2> QED  BY <1>1, <1>2, <1>5, <2>1 DEF DeviceExecutes, Moved, InTransport, Commands
<1> QED
  BY <1>3, <1>4, <1>5 DEF Next, SessionStep, Start, CreateLease, AcquireHostLease,
     PersistBefore, Dispense, DispenseReturns, DispensePersisted, Present, PresentReturns,
     PresentPersisted, UpdateAfter, TakeConfirmed, TakeTimesOut, Abort, RetractReturns, Finish,
     CloseLease, ReleaseHostLease, ReleaseLock, Exit, AcceptTransfer, TransferTransition,
     TransferBind, Leave, RecoveryStep, RunStarts, Bind, BindSwap, Deadline, Observe,
     RecoveryRetract, RecoveryRetractReturns, CaptureAfterSnapshot, ReleaseResources,
     CloseRecovered, EnterIntervention, ResolverStep, Resolve, ResolverSwap, ResolverEvidence,
     ResolverRelease, ResolverClose, EnvironmentStep, DeviceRejects, CommandTimesOut,
     HostLeaseExpires, HostRestarts, Crash, keepWorld, vars

(* Outside the session's own steps fg is kept or dropped.                  *)
LEMMA OthersBacked ==
  ASSUME EvidenceInv, Grows, RecoveryStep \/ ResolverStep \/ EnvironmentStep \/ UNCHANGED vars
  PROVE  SessionBacked'
<1>1. CASE UNCHANGED fg
  BY <1>1 DEF EvidenceInv, SessionBacked, Grows
<1>2. CASE Crash
  BY <1>2 DEF Crash, NoSession, SessionBacked, Prepared
<1> QED
  BY <1>1, <1>2 DEF RecoveryStep, RunStarts, Bind, BindSwap, Deadline, Observe,
     RecoveryRetract, RecoveryRetractReturns, CaptureAfterSnapshot, ReleaseResources,
     CloseRecovered, EnterIntervention, ResolverStep, Resolve, ResolverSwap, ResolverEvidence,
     ResolverRelease, ResolverClose, EnvironmentStep, DeviceExecutes, DeviceRejects,
     CustomerTakes, CommandTimesOut, HostLeaseExpires, HostRestarts, keepSession, vars

LEMMA EvidenceInit == Init => EvidenceInv
BY InitType DEF Init, EvidenceInv, EvidenceBeforeMovement, DispenseBacked, SessionBacked,
   NoCommand, NoSession, Prepared

LEMMA EvidenceStep == EvidenceInv /\ [Next]_vars => EvidenceInv'
<1> SUFFICES ASSUME EvidenceInv, [Next]_vars
             PROVE  EvidenceInv'
  OBVIOUS
<1>1. TypeOK' /\ Grows
  BY NextType, EvidenceGrows DEF EvidenceInv
<1>2. SessionBacked'
  BY <1>1, SessionStepBacked, OthersBacked DEF Next
<1> QED  BY <1>1, <1>2, DispenseStepBacked, MovementBacked DEF EvidenceInv

(* Notes move only after their evidence is durable: the before snapshot    *)
(* and the dispense intent, for any number of operations, crashes, lost    *)
(* answers, host restarts and late commands.                               *)
THEOREM MovementHasEvidence == Spec => []EvidenceBeforeMovement
<1>1. EvidenceInv => EvidenceBeforeMovement
  BY DEF EvidenceInv
<1> QED  BY <1>1, EvidenceInit, EvidenceStep, PTL DEF Spec

-----------------------------------------------------------------------------
(* Who owns a row.  The foreground session owns its row until it has       *)
(* handed it over, the recovery run one that is bound to recovery, the     *)
(* operator one that is bound to maintenance: nobody else writes it        *)
(* meanwhile, so what the owner read is what the table still holds.        *)

(* At most one row is unresolved.                                          *)
OneUnresolved == \A p, q \in Ops : Unresolved(p) /\ Unresolved(q) => p = q

Owning == {"acquire", "before", "ready", "dispense", "dispensed", "present", "presented",
           "retract", "finish", "close", "transfer"}
Transferring == {"transition", "bind"}
Working == SessionSteps \ {"idle", "left"}

SessionOwns ==
  /\ fg.pc = "create" => lease[fg.op].state = "absent" /\ listUnresolved = {}
  /\ fg.pc \in Owning =>
       lease[fg.op].state = "transactionBound" /\ lease[fg.op].authority = "transaction"
  /\ fg.pc \in Transferring =>
       lease[fg.op].state = "transferPending" /\ lease[fg.op] = fg.row
  /\ fg.pc = "release" =>
       /\ lease[fg.op].state = "closed" /\ lease[fg.op].outcome = fg.out
       /\ lease[fg.op].authority = "transaction"
  /\ fg.pc = "unlock" => lease[fg.op].state \in {"transactionBound", "closed"}

(* No run and no operator works on the row of a session at work.           *)
SessionAlone ==
  fg.pc \in Working =>
    /\ ~rec.queued
    /\ rec.pc # "idle" => rec.op # fg.op
    /\ mt.pc # "idle" => mt.op # fg.op

(* A row that has not changed since it was read is the row that was read.  *)
Known(o, r) == r.rev <= lease[o].rev /\ (r.rev = lease[o].rev => r = lease[o])
Escalated(o) == lease[o].state \in {"intervention", "maintenanceBound", "closed"}

RunOwns ==
  /\ rec.pc = "idle" => ~rec.retain
  /\ rec.pc \in {"bind", "swap"} =>
       /\ rec.row = lease[rec.op] /\ ~rec.retain
       /\ rec.row.state \in {"transactionBound", "transferPending"}
  /\ rec.pc \notin {"idle", "bind", "swap"} /\ ~rec.retain =>
       rec.row = lease[rec.op] /\ rec.row.state = "recoveryBound"
  /\ rec.pc \notin {"idle", "bind", "swap"} /\ rec.retain =>
       /\ rec.pc \notin {"deadline", "release", "close"}
       /\ rec.row.state = "intervention" /\ Escalated(rec.op) /\ Known(rec.op, rec.row)

ResolverOwns ==
  /\ mt.pc = "swap" =>
       mt.row.state = "intervention" /\ Escalated(mt.op) /\ Known(mt.op, mt.row)
  /\ mt.pc \in {"evidence", "release", "close"} =>
       mt.row = lease[mt.op] /\ mt.row.state = "maintenanceBound"

RowAuthority ==
  \A o \in Ops :
    /\ lease[o].state = "recoveryBound" => lease[o].authority = "recovery"
    /\ lease[o].state = "maintenanceBound" => lease[o].authority = "maintenance"

(* A run that is asked for outside the start of the application finds the  *)
(* row that it was asked for, and no session starts before the start is    *)
(* over.                                                                   *)
RunWanted ==
  /\ rec.boot = "starting" => fg.pc = "idle" /\ (rec.pc # "idle" => ~rec.queued)
  /\ rec.queued /\ rec.boot # "starting" =>
       \E o \in Ops : /\ lease[o].state \in {"transferPending", "recoveryBound"}
                      /\ rec.pc # "idle" => rec.op # o

OwnershipInv ==
  /\ TypeOK /\ OneUnresolved /\ RowAuthority
  /\ SessionOwns /\ SessionAlone /\ RunOwns /\ ResolverOwns /\ RunWanted

(* A write of the row o leaves alone what is owned elsewhere.              *)
Wrote(o) == \A q \in Ops : q # o => lease'[q] = lease[q]
LEMMA WroteElsewhere ==
  ASSUME OwnershipInv, NEW o \in Ops, Wrote(o)
  PROVE  /\ UNCHANGED rec /\ (rec.pc # "idle" => rec.op # o) => RunOwns'
         /\ UNCHANGED mt /\ (mt.pc # "idle" => mt.op # o) => ResolverOwns'
         /\ fg' = fg /\ (fg.pc \in Working => fg.op # o) /\ Unresolved(o) => SessionOwns'
         /\ (Unresolved(o) \/ listUnresolved = {}) => OneUnresolved'
         /\ (lease'[o].state = "recoveryBound" => lease'[o].authority = "recovery") /\
            (lease'[o].state = "maintenanceBound" => lease'[o].authority = "maintenance") =>
              RowAuthority'
<1> USE DEF OwnershipInv, TypeOK, Wrote
<1>1. ASSUME UNCHANGED rec, rec.pc # "idle" => rec.op # o
      PROVE  RunOwns'
  BY <1>1 DEF RunOwns, WorkerOK, Worker, RunSteps, Known, Escalated
<1>2. ASSUME UNCHANGED mt, mt.pc # "idle" => mt.op # o
      PROVE  ResolverOwns'
  BY <1>2 DEF ResolverOwns, ResolverOK, Resolver, Known, Escalated
<1>3. ASSUME fg' = fg, fg.pc \in Working => fg.op # o, Unresolved(o)
      PROVE  SessionOwns'
  <2>1. fg.pc # "create"
    BY <1>3 DEF SessionOwns, listUnresolved, Unresolved
  <2>2. fg.pc # "idle" => fg.op \in Ops
    BY DEF SessionOK
  <2> QED  BY <1>3, <2>1, <2>2 DEF SessionOwns, Owning, Transferring, Working, SessionSteps
<1>4. ASSUME Unresolved(o) \/ listUnresolved = {}
      PROVE  OneUnresolved'
  BY <1>4 DEF OneUnresolved, Unresolved, listUnresolved
<1>5. ASSUME lease'[o].state = "recoveryBound" => lease'[o].authority = "recovery",
             lease'[o].state = "maintenanceBound" => lease'[o].authority = "maintenance"
      PROVE  RowAuthority'
  BY <1>5 DEF RowAuthority
<1> QED  BY <1>1, <1>2, <1>3, <1>4, <1>5

(* Steps that write no row.                                                *)
LEMMA RowsKept ==
  ASSUME OwnershipInv, UNCHANGED lease
  PROVE  /\ OneUnresolved' /\ RowAuthority'
         /\ UNCHANGED fg => SessionOwns'
         /\ UNCHANGED rec => RunOwns'
         /\ UNCHANGED mt => ResolverOwns'
         /\ UNCHANGED <<fg, rec, mt>> => SessionAlone'
         /\ UNCHANGED <<fg, rec>> => RunWanted'
  BY DEF OwnershipInv, OneUnresolved, RowAuthority, SessionOwns, RunOwns, ResolverOwns,
         SessionAlone, RunWanted, Unresolved, listUnresolved, Known, Escalated, Owning,
         Transferring, Working

(* The session moves on without writing its row.                           *)
Stays(from, to) ==
  \/ from \in Owning /\ to \in Owning
  \/ from \in Working /\ to = "left"
  \/ from \in Owning \cup {"release"} /\ to = "unlock"
  \/ from = "transition" /\ to = "bind"
LEMMA SessionStays ==
  ASSUME OwnershipInv, TypeOK', UNCHANGED <<lease, rec, mt>>, fg'.op = fg.op,
         fg'.row = fg.row, Stays(fg.pc, fg'.pc)
  PROVE  OwnershipInv'
<1>1. SessionOwns' /\ SessionAlone' /\ RunWanted'
  BY DEF OwnershipInv, SessionOwns, SessionAlone, RunWanted, Stays, Owning, Transferring,
         Working, SessionSteps
<1> QED  BY <1>1, RowsKept DEF OwnershipInv

LEMMA SessionDrops ==
  ASSUME OwnershipInv, TypeOK', UNCHANGED <<lease, rec, mt>>, fg' = NoSession
  PROVE  OwnershipInv'
<1>1. SessionOwns' /\ SessionAlone' /\ RunWanted'
  BY DEF OwnershipInv, SessionOwns, SessionAlone, RunWanted, NoSession, Owning, Transferring,
         Working
<1> QED  BY <1>1, RowsKept DEF OwnershipInv

LEMMA StartOwned ==
  ASSUME OwnershipInv, TypeOK', NEW o \in Ops, Start(o)
  PROVE  OwnershipInv'
<1> USE DEF OwnershipInv
<1>1. /\ lease[o].state = "absent" /\ listUnresolved = {} /\ rec.boot = "ready"
      /\ fg' = [NoSession EXCEPT !.pc = "create", !.op = o]
      /\ UNCHANGED <<lease, rec, mt>>
  BY DEF Start, keepStore, keepWorld
<1>2. fg'.pc = "create" /\ fg'.op = o
  BY <1>1 DEF NoSession
<1>3. SessionOwns'
  BY <1>1, <1>2 DEF SessionOwns, Owning, Transferring, listUnresolved, Unresolved
<1>4. SessionAlone'
  <2>1. ~rec.queued
    BY <1>1 DEF RunWanted, listUnresolved, Unresolved
  <2>2. rec.pc # "idle" => rec.op # o
    BY <1>1 DEF RunOwns, Escalated
  <2>3. mt.pc # "idle" => mt.op # o
    BY <1>1 DEF ResolverOwns, Escalated, TypeOK, ResolverOK, Resolver
  <2> QED  BY <1>1, <1>2, <2>1, <2>2, <2>3 DEF SessionAlone
<1>5. RunWanted'
  BY <1>1 DEF RunWanted
<1> QED  BY <1>1, <1>3, <1>4, <1>5, RowsKept

(* What a working session may take for granted.                            *)
LEMMA AtWork ==
  ASSUME OwnershipInv, fg.pc \in Working
  PROVE  /\ fg.op \in Ops /\ lease[fg.op] \in LeaseRecord /\ fg \in Session
         /\ lease \in [Ops -> LeaseRecord]
         /\ ~rec.queued /\ (rec.pc # "idle" => rec.op # fg.op)
         /\ (mt.pc # "idle" => mt.op # fg.op) /\ rec.boot # "starting"
  BY DEF OwnershipInv, TypeOK, SessionOK, SessionAlone, Working, RunWanted

(* A session that writes its row.                                          *)
LEMMA SessionWrites ==
  ASSUME OwnershipInv, TypeOK', fg.pc \in Working, Wrote(fg.op), UNCHANGED <<rec, mt>>,
         fg'.op = fg.op, fg'.pc # "idle", SessionOwns',
         Unresolved(fg.op) \/ listUnresolved = {},
         lease'[fg.op].state \notin {"recoveryBound", "maintenanceBound"}
  PROVE  OwnershipInv'
<1>1. SessionAlone' /\ RunWanted'
  BY AtWork DEF SessionAlone, RunWanted
<1> QED  BY <1>1, AtWork, WroteElsewhere DEF OwnershipInv

LEMMA CreateLeaseOwned ==
  ASSUME OwnershipInv, TypeOK', CreateLease
  PROVE  OwnershipInv'
<1>1. fg.pc = "create" /\ fg.pc \in Working /\ fg.op \in Ops /\ UNCHANGED <<rec, mt>>
  BY AtWork DEF CreateLease, at, keepWorld, Working, SessionSteps
<1>2. CASE create(fg.op) /\ fg' = [fg EXCEPT !.pc = "acquire", !.token = lease'[fg.op].token]
  <2>1. PICK t \in nextFencingToken :
          lease' = [lease EXCEPT ![fg.op] = [NoLease EXCEPT !.state = "transactionBound",
                                                            !.token = t, !.rev = 1]]
    BY <1>2 DEF create
  <2>2. /\ lease'[fg.op].state = "transactionBound"
        /\ lease'[fg.op].authority = "transaction"
        /\ Wrote(fg.op) /\ listUnresolved = {}
    BY <1>1, <1>2, <2>1, AtWork DEF Wrote, NoLease, create
  <2>3. fg'.op = fg.op /\ fg'.pc = "acquire"
    BY <1>1, <1>2, AtWork DEF Session
  <2>4. SessionOwns'
    BY <2>2, <2>3 DEF SessionOwns, Transferring
  <2> QED  BY <1>1, <2>2, <2>3, <2>4, SessionWrites
<1>3. CASE UNCHANGED lease /\ fg' = NoSession
  BY <1>1, <1>3, SessionDrops
<1> QED  BY <1>2, <1>3 DEF CreateLease

(* Steps of the session that write no row and ask for no run.              *)
LEMMA QuietSessionOwned ==
  ASSUME OwnershipInv, TypeOK',
         \/ AcquireHostLease \/ PersistBefore \/ Dispense \/ DispenseReturns \/ Present
         \/ PresentReturns \/ TakeConfirmed \/ TakeTimesOut \/ Abort \/ RetractReturns
         \/ Finish \/ ReleaseHostLease \/ ReleaseLock \/ Leave
  PROVE  OwnershipInv'
<1>1. UNCHANGED <<lease, rec, mt>>
  BY DEF AcquireHostLease, PersistBefore, Dispense, DispenseReturns, Present, PresentReturns,
         TakeConfirmed, TakeTimesOut, Abort, RetractReturns, Finish, ReleaseHostLease,
         ReleaseLock, Leave, keepStore, keepWorld
<1>2. fg \in Session
  BY DEF OwnershipInv, TypeOK, SessionOK
<1>3. ASSUME fg'.op = fg.op, fg'.row = fg.row, Stays(fg.pc, fg'.pc)
      PROVE  OwnershipInv'
  BY <1>1, <1>3, SessionStays
<1> USE DEF Session, Stays, Owning, Working, SessionSteps
<1>4. CASE AcquireHostLease
  BY <1>1, <1>2, <1>3, <1>4, SessionDrops DEF AcquireHostLease, at, goto
<1>5. CASE PersistBefore
  BY ZenonT(80), <1>2, <1>3, <1>5 DEF PersistBefore, at
<1>6. CASE Dispense
  BY ZenonT(60), <1>2, <1>3, <1>6 DEF Dispense, ready, at
<1>7. CASE DispenseReturns
  BY ZenonT(80), <1>2, <1>3, <1>7 DEF DispenseReturns, at
<1>8. CASE Present \/ TakeConfirmed
  BY ZenonT(80), <1>2, <1>3, <1>8 DEF Present, TakeConfirmed, ready, at
<1>9. CASE PresentReturns
  BY ZenonT(60), <1>2, <1>3, <1>9 DEF PresentReturns, at
<1>10. CASE TakeTimesOut
  BY ZenonT(80), <1>2, <1>3, <1>10 DEF TakeTimesOut, retract, ready, at
<1>11. CASE Abort
  BY ZenonT(80), <1>2, <1>3, <1>11 DEF Abort, retract, at, goto
<1>12. CASE RetractReturns
  BY ZenonT(80), <1>2, <1>3, <1>12 DEF RetractReturns, at
<1>13. CASE Finish
  BY <1>2, <1>3, <1>13 DEF Finish, at
<1>14. CASE ReleaseHostLease \/ ReleaseLock
  BY ZenonT(60), <1>2, <1>3, <1>14 DEF ReleaseHostLease, ReleaseLock, at, goto
<1>15. CASE Leave
  BY <1>1, <1>15, SessionDrops DEF Leave
<1> QED  BY SMTT(40), <1>4, <1>5, <1>6, <1>7, <1>8, <1>9, <1>10, <1>11, <1>12, <1>13, <1>14, <1>15

(* update: the row keeps its state, and only its phase changes.            *)
LEMMA UpdateRow ==
  ASSUME OwnershipInv, fg.pc \in Owning, update(fg.op, fg.phase)
  PROVE  /\ Wrote(fg.op)
         /\ lease'[fg.op].state = "transactionBound"
         /\ lease'[fg.op].authority = "transaction"
         /\ lease'[fg.op].phase = fg.phase
<1>1. fg.op \in Ops /\ lease \in [Ops -> LeaseRecord] /\ lease[fg.op] \in LeaseRecord
  BY AtWork DEF Owning, Working, SessionSteps
<1>2. lease' = [lease EXCEPT ![fg.op] = [[lease[fg.op] EXCEPT !.phase = fg.phase] EXCEPT
                                            !.rev = lease[fg.op].rev + 1]]
  BY DEF update, compareAndSwap
<1> QED  BY <1>1, <1>2 DEF OwnershipInv, SessionOwns, LeaseRecord, Wrote

LEMMA UpdateAfterOwned ==
  ASSUME OwnershipInv, TypeOK', DispensePersisted \/ PresentPersisted
  PROVE  OwnershipInv'
<1>1. fg.pc \in {"dispensed", "presented"} /\ fg.pc \in Owning /\ fg.pc \in Working
      /\ UNCHANGED <<rec, mt>>
  BY DEF DispensePersisted, PresentPersisted, UpdateAfter, at, keepWorld, Owning, Working, SessionSteps
<1>2. CASE update(fg.op, fg.phase) /\ goto("ready")
  <2>1. fg'.op = fg.op /\ fg'.pc = "ready"
    BY <1>1, <1>2, AtWork DEF goto, Session
  <2>2. SessionOwns'
    BY <1>1, <1>2, <2>1, UpdateRow DEF SessionOwns, Transferring
  <2>3. Unresolved(fg.op)
    BY <1>1 DEF OwnershipInv, SessionOwns, Unresolved
  <2> QED  BY <1>1, <1>2, <2>1, <2>2, <2>3, UpdateRow, SessionWrites
<1>3. CASE /\ UNCHANGED lease
           /\ fg' = [fg EXCEPT !.pc = "ready", !.phase = "reconciling", !.recon = TRUE]
  BY <1>1, <1>3, AtWork, SessionStays DEF Session, Stays, Owning
<1> QED  BY <1>2, <1>3 DEF DispensePersisted, PresentPersisted, UpdateAfter

LEMMA CloseLeaseOwned ==
  ASSUME OwnershipInv, TypeOK', CloseLease
  PROVE  OwnershipInv'
<1>1. /\ fg.pc = "close" /\ fg.pc \in Working /\ UNCHANGED <<rec, mt>>
      /\ lease[fg.op].state = "transactionBound" /\ lease[fg.op].authority = "transaction"
  BY DEF CloseLease, at, keepWorld, Working, SessionSteps, OwnershipInv, SessionOwns, Owning
<1>2. CASE /\ compareAndSwap(fg.op, lease[fg.op],
                [lease[fg.op] EXCEPT !.state = "closed", !.outcome = fg.out])
           /\ goto("release")
  <2> DEFINE row == [lease[fg.op] EXCEPT !.state = "closed", !.outcome = fg.out]
  <2>1. lease' = [lease EXCEPT ![fg.op] = [row EXCEPT !.rev = lease[fg.op].rev + 1]]
    BY <1>2 DEF compareAndSwap
  <2>2. /\ Wrote(fg.op) /\ lease'[fg.op].state = "closed" /\ lease'[fg.op].outcome = fg.out
        /\ lease'[fg.op].authority = "transaction"
    BY <1>1, <2>1, AtWork DEF Wrote, LeaseRecord
  <2>3. fg'.op = fg.op /\ fg'.pc = "release" /\ fg'.out = fg.out
    BY <1>1, <1>2, AtWork DEF goto, Session
  <2>4. SessionOwns'
    BY <2>2, <2>3 DEF SessionOwns, Owning, Transferring
  <2> QED  BY <1>1, <2>2, <2>3, <2>4, SessionWrites DEF Unresolved
<1>3. CASE UNCHANGED lease /\ fg' = [fg EXCEPT !.pc = "unlock", !.recon = TRUE]
  BY <1>1, <1>3, AtWork, SessionStays DEF Session, Stays, Owning
<1> QED  BY <1>2, <1>3 DEF CloseLease

(* Handing over: exit, acceptTransfer and the two steps of the transfer.   *)
LEMMA ExitOwned ==
  ASSUME OwnershipInv, TypeOK', Exit
  PROVE  OwnershipInv'
<1>1. fg.pc = "ready" /\ fg.pc \in Owning /\ fg.pc \in Working /\ UNCHANGED <<rec, mt>>
  BY DEF Exit, at, keepWorld, Owning, Working, SessionSteps
<1>2. ASSUME NEW recon \in BOOLEAN, fg' = [fg EXCEPT !.pc = "transfer", !.recon = recon],
             update(fg.op, fg.phase)
      PROVE  OwnershipInv'
  <2>1. fg'.op = fg.op /\ fg'.pc = "transfer"
    BY <1>1, <1>2, AtWork DEF Session
  <2>2. SessionOwns'
    BY <1>1, <1>2, <2>1, UpdateRow DEF SessionOwns, Transferring
  <2>3. Unresolved(fg.op)
    BY <1>1 DEF OwnershipInv, SessionOwns, Unresolved
  <2> QED  BY <1>1, <1>2, <2>1, <2>2, <2>3, UpdateRow, SessionWrites
<1>3. CASE UNCHANGED lease /\ goto("left")
  BY <1>1, <1>3, AtWork, SessionStays DEF goto, Session, Stays
<1> QED  BY <1>2, <1>3 DEF Exit

LEMMA AcceptTransferOwned ==
  ASSUME OwnershipInv, TypeOK', AcceptTransfer
  PROVE  OwnershipInv'
<1>1. fg.pc = "transfer" /\ fg.pc \in Working /\ UNCHANGED <<rec, mt>>
      /\ lease[fg.op].state = "transactionBound"
  BY DEF AcceptTransfer, at, keepWorld, Working, SessionSteps, OwnershipInv, SessionOwns, Owning
<1> DEFINE row == lease[fg.op]
           pending == [row EXCEPT !.state = "transferPending", !.pending = row.token + 1,
                                  !.phase = fg.phase]
<1>2. CASE /\ compareAndSwap(fg.op, row, pending)
           /\ \/ fg' = [fg EXCEPT !.pc = "transition", !.row = [pending EXCEPT !.rev = row.rev + 1]]
              \/ goto("left")
  <2>1. lease' = [lease EXCEPT ![fg.op] = [pending EXCEPT !.rev = row.rev + 1]]
    BY <1>2 DEF compareAndSwap
  <2>2. /\ Wrote(fg.op) /\ lease'[fg.op].state = "transferPending"
        /\ lease'[fg.op] = [pending EXCEPT !.rev = row.rev + 1]
    BY <1>1, <2>1, AtWork DEF Wrote, LeaseRecord
  <2>3. /\ fg'.op = fg.op /\ fg'.pc \in {"transition", "left"}
        /\ fg'.pc = "transition" => fg'.row = [pending EXCEPT !.rev = row.rev + 1]
    BY <1>1, <1>2, AtWork DEF goto, Session
  <2>4. SessionOwns'
    BY <2>2, <2>3 DEF SessionOwns, Owning, Transferring
  <2> QED  BY <1>1, <2>2, <2>3, <2>4, SessionWrites DEF Unresolved
<1>3. CASE UNCHANGED lease /\ goto("left")
  BY <1>1, <1>3, AtWork, SessionStays DEF goto, Session, Stays
<1> QED  BY <1>2, <1>3 DEF AcceptTransfer

(* A session that leaves for good with a run asked for.                    *)
LEMMA SessionSchedules ==
  ASSUME OwnershipInv, TypeOK', fg.pc \in Transferring, Wrote(fg.op), UNCHANGED mt, schedule,
         fg'.pc = "left", lease'[fg.op].state \in {"transferPending", "recoveryBound"},
         lease'[fg.op].state = "recoveryBound" => lease'[fg.op].authority = "recovery"
  PROVE  OwnershipInv'
<1>1. /\ fg.pc \in Working /\ lease[fg.op].state = "transferPending"
      /\ rec \in Worker /\ fg.op \in Ops
  BY AtWork DEF Transferring, Working, SessionSteps, OwnershipInv, SessionOwns, TypeOK, WorkerOK
<1>2. /\ rec'.pc = rec.pc /\ rec'.op = rec.op /\ rec'.row = rec.row /\ rec'.retain = rec.retain
      /\ rec'.boot = rec.boot
  BY <1>1 DEF schedule, Worker
<1>3. RunOwns'
  BY <1>1, <1>2, AtWork DEF RunOwns, OwnershipInv, TypeOK, WorkerOK, Wrote, Known, Escalated
<1>4. SessionOwns' /\ SessionAlone'
  BY DEF SessionOwns, SessionAlone, Owning, Transferring, Working
<1>5. RunWanted'
  BY <1>1, <1>2, AtWork DEF RunWanted
<1> QED  BY <1>1, <1>3, <1>4, <1>5, AtWork, WroteElsewhere DEF OwnershipInv, Unresolved

LEMMA TransferTransitionOwned ==
  ASSUME OwnershipInv, TypeOK', TransferTransition
  PROVE  OwnershipInv'
<1>1. fg.pc = "transition" /\ fg.pc \in Working /\ fg.pc \in Transferring
      /\ lease[fg.op].state = "transferPending" /\ UNCHANGED <<lease, mt>>
  BY DEF TransferTransition, at, keepStore, Working, SessionSteps, OwnershipInv, SessionOwns,
     Transferring
<1>2. CASE goto("bind") /\ UNCHANGED rec
  BY <1>1, <1>2, AtWork, SessionStays DEF goto, Session, Stays
<1>3. CASE goto("left") /\ schedule
  BY <1>1, <1>3, AtWork, SessionSchedules DEF goto, Session, Wrote
<1> QED  BY <1>2, <1>3 DEF TransferTransition

LEMMA TransferBindOwned ==
  ASSUME OwnershipInv, TypeOK', TransferBind
  PROVE  OwnershipInv'
<1>1. /\ fg.pc = "bind" /\ fg.pc \in Working /\ fg.pc \in Transferring
      /\ lease[fg.op].state = "transferPending" /\ fg.row = lease[fg.op]
      /\ UNCHANGED mt /\ goto("left") /\ schedule
  BY DEF TransferBind, at, Working, SessionSteps, OwnershipInv, SessionOwns, Transferring
<1>2. fg'.pc = "left"
  BY <1>1, AtWork DEF goto, Session
<1>3. CASE compareAndSwap(fg.op, fg.row, bound(fg.row, fg.row.pending))
  <2>1. lease' = [lease EXCEPT ![fg.op] = [bound(fg.row, fg.row.pending) EXCEPT
                                             !.rev = fg.row.rev + 1]]
    BY <1>3 DEF compareAndSwap
  <2>2. /\ Wrote(fg.op) /\ lease'[fg.op].state = "recoveryBound"
        /\ lease'[fg.op].authority = "recovery"
    BY <1>1, <2>1, AtWork DEF Wrote, LeaseRecord, bound
  <2> QED  BY <1>1, <1>2, <2>2, SessionSchedules
<1>4. CASE UNCHANGED lease
  BY <1>1, <1>2, <1>4, SessionSchedules DEF Wrote
<1> QED  BY <1>3, <1>4 DEF TransferBind

(* A run goes on with the same operation, or ends; either way the session  *)
(* at work stays alone with its row, and a run that was asked for is still *)
(* wanted.                                                                 *)
Continues == rec'.op = rec.op /\ rec'.queued = rec.queued /\ rec'.boot = rec.boot
Ends ==
  /\ rec'.pc = "idle" /\ rec'.retain = FALSE /\ rec'.queued = rec.queued
  /\ rec'.boot = IF rec.boot = "starting" THEN rec'.boot ELSE rec.boot

LEMMA RunEnds ==
  ASSUME NEW r, finished(r) \/ threw
  PROVE  Ends
  BY DEF finished, threw, barrier, NoRun, Ends

LEMMA RunGoesOn ==
  ASSUME OwnershipInv, rec.pc # "idle", UNCHANGED <<fg, mt>>, Wrote(rec.op), Continues \/ Ends
  PROVE  SessionAlone' /\ RunWanted'
<1>1. SessionAlone'
  BY DEF OwnershipInv, SessionAlone, Continues, Ends
<1>2. RunWanted'
  BY DEF OwnershipInv, RunWanted, Continues, Ends, Wrote
<1> QED  BY <1>1, <1>2

(* A run that writes no row.                                               *)
LEMMA RunMoves ==
  ASSUME OwnershipInv, TypeOK', rec.pc # "idle", UNCHANGED <<lease, fg, mt>>, RunOwns',
         Continues \/ Ends
  PROVE  OwnershipInv'
<1>1. SessionAlone' /\ RunWanted'
  BY RunGoesOn DEF Wrote
<1> QED  BY <1>1, RowsKept DEF OwnershipInv

(* A run whose row is current holds the row of the table.                  *)
LEMMA RunCurrent ==
  ASSUME OwnershipInv, rec.pc # "idle", rec.row.rev = lease[rec.op].rev
  PROVE  /\ rec.op \in Ops /\ rec.row = lease[rec.op] /\ lease[rec.op] \in LeaseRecord
         /\ Unresolved(rec.op) /\ rec.row.state # "maintenanceBound"
         /\ rec.pc \notin {"bind", "swap"} =>
              rec.row.state = IF rec.retain THEN "intervention" ELSE "recoveryBound"
  BY DEF OwnershipInv, TypeOK, WorkerOK, RunOwns, Known, Unresolved

(* A run that swaps its row: the session at work and the operator own      *)
(* other rows, or the operator's row is no longer current.                 *)
LEMMA RunSwaps ==
  ASSUME OwnershipInv, TypeOK', rec.pc # "idle", UNCHANGED <<fg, mt>>, Continues \/ Ends,
         NEW p \in LeaseRecord, compareAndSwap(rec.op, rec.row, p),
         p.state \in {"recoveryBound", "intervention", "closed"},
         p.state = "recoveryBound" => p.authority = "recovery",
         rec.row.state = "intervention" => p.state = "intervention",
         lease'[rec.op] = [p EXCEPT !.rev = rec.row.rev + 1] => RunOwns'
  PROVE  OwnershipInv'
<1>1. rec.row.rev = lease[rec.op].rev /\ lease \in [Ops -> LeaseRecord]
  BY DEF compareAndSwap, Current, OwnershipInv, TypeOK
<1>2. lease'[rec.op] = [p EXCEPT !.rev = rec.row.rev + 1] /\ Wrote(rec.op)
  BY <1>1, RunCurrent DEF compareAndSwap, Wrote
<1>3. lease'[rec.op].state = p.state /\ lease'[rec.op].authority = p.authority
      /\ lease'[rec.op].rev = lease[rec.op].rev + 1
  BY <1>1, <1>2, RunCurrent DEF LeaseRecord
<1>4. ResolverOwns'
  <2>1. lease[rec.op].rev \in Nat
    BY <1>1, RunCurrent DEF LeaseRecord
  <2>2. CASE mt.pc = "swap" /\ mt.op = rec.op
    <3>1. mt.row.state = "intervention" /\ mt.row.rev <= lease[rec.op].rev
          /\ mt.row.rev \in Nat /\ lease[rec.op].state = "intervention"
      BY <1>1, <2>2, RunCurrent DEF OwnershipInv, ResolverOwns, Known, Escalated, TypeOK,
         ResolverOK, Resolver, LeaseRecord, RunOwns
    <3> QED  BY <1>1, <1>3, <2>1, <2>2, <3>1, RunCurrent DEF ResolverOwns, Known, Escalated
  <2>3. CASE mt.pc \in {"evidence", "release", "close"} /\ mt.op = rec.op
    BY <1>1, <2>3, RunCurrent DEF OwnershipInv, ResolverOwns
  <2>4. CASE mt.pc # "idle" => mt.op # rec.op
    BY <1>1, <1>2, <2>4, RunCurrent, WroteElsewhere
  <2> QED  BY <2>2, <2>3, <2>4 DEF OwnershipInv, TypeOK, ResolverOK, Resolver
<1>5. SessionOwns'
  BY <1>1, <1>2, RunCurrent, WroteElsewhere DEF OwnershipInv, SessionAlone
<1>6. OneUnresolved' /\ RowAuthority'
  BY <1>1, <1>2, <1>3, RunCurrent, WroteElsewhere
<1> QED  BY <1>2, <1>4, <1>5, <1>6, RunGoesOn DEF OwnershipInv

LEMMA RunStartsOwned ==
  ASSUME OwnershipInv, TypeOK', RunStarts
  PROVE  OwnershipInv'
<1> USE DEF OwnershipInv
<1>1. /\ rec.pc = "idle" /\ rec.queued /\ UNCHANGED <<lease, fg, mt>> /\ ~rec.retain
      /\ rec \in Worker /\ fg.pc \notin Working
  BY DEF RunStarts, keepStore, keepSession, RunOwns, SessionAlone, TypeOK, WorkerOK
<1>2. SessionAlone'
  BY <1>1 DEF SessionAlone
<1>3. rec'.queued = FALSE /\ rec'.boot \in {rec.boot, "ready", "blocked"}
  BY ZenonT(60), <1>1 DEF RunStarts, barrier, Worker
<1>4. RunWanted'
  BY <1>1, <1>3 DEF RunWanted
<1>5. RunOwns'
  <2>1. CASE rec'.pc = "idle" /\ rec'.retain = rec.retain
    BY <1>1, <2>1 DEF RunOwns
  <2>2. ASSUME NEW o \in Ops,
               lease[o].state \in {"transactionBound", "transferPending", "recoveryBound"},
               rec' = [rec EXCEPT !.queued = FALSE, !.op = o, !.row = lease[o],
                         !.pc = IF lease[o].state = "recoveryBound" THEN "deadline" ELSE "bind"]
        PROVE  RunOwns'
    BY <1>1, <2>2 DEF RunOwns, Worker
  <2> QED  BY <1>1, <2>1, <2>2 DEF RunStarts, Worker, listUnresolved
<1> QED  BY <1>1, <1>2, <1>4, <1>5, RowsKept

(* Steps of a run that write no row.                                       *)
LEMMA QuietRunOwned ==
  ASSUME OwnershipInv, TypeOK',
         Bind \/ Observe \/ RecoveryRetract \/ RecoveryRetractReturns \/ ReleaseResources
  PROVE  OwnershipInv'
<1>1. rec.pc # "idle" /\ UNCHANGED <<lease, fg, mt>> /\ rec \in Worker
  BY DEF Bind, Observe, RecoveryRetract, RecoveryRetractReturns, ReleaseResources, keepStore,
         keepSession, OwnershipInv, TypeOK, WorkerOK
<1>2. CASE Ends
  BY <1>1, <1>2, RunMoves DEF Ends, RunOwns
<1>3. ASSUME NEW to, rec'.pc = to, rec'.row = rec.row, rec'.retain = rec.retain, Continues,
             \/ rec.pc = "bind" /\ to = "swap"
             \/ rec.pc \notin {"idle", "bind", "swap"} /\
                to \in {"observe", "retract", "retracting", "snapshot", "intervene"}
             \/ rec.pc = "release" /\ to = "close"
      PROVE  OwnershipInv'
  <2>1. RunOwns'
    BY <1>1, <1>3 DEF OwnershipInv, RunOwns, Continues, Known, Escalated
  <2> QED  BY <1>1, <1>3, <2>1, RunMoves
<1>4. CASE Bind
  BY <1>1, <1>2, <1>3, <1>4, RunEnds DEF Bind, stepTo, Worker, Continues
<1>5. CASE Observe
  BY ZenonT(60), <1>1, <1>3, <1>5 DEF Observe, stepTo, Worker, Continues, afterObserving
<1>6. CASE RecoveryRetract \/ RecoveryRetractReturns
  BY ZenonT(60), <1>1, <1>3, <1>6 DEF RecoveryRetract, RecoveryRetractReturns, stepTo, Worker, Continues
<1>7. CASE ReleaseResources
  BY <1>1, <1>3, <1>7 DEF ReleaseResources, stepTo, Worker, Continues
<1> QED  BY <1>4, <1>5, <1>6, <1>7

(* A run that gives up, or that leaves its row alone.                      *)
LEMMA RunStops ==
  ASSUME OwnershipInv, TypeOK', rec.pc # "idle", UNCHANGED <<lease, fg, mt>>, Ends
  PROVE  OwnershipInv'
<1>1. RunOwns'
  BY DEF Ends, RunOwns
<1> QED  BY <1>1, RunMoves

LEMMA BindSwapOwned ==
  ASSUME OwnershipInv, TypeOK', BindSwap
  PROVE  OwnershipInv'
<1>1. /\ rec.pc = "swap" /\ UNCHANGED <<fg, mt>> /\ rec \in Worker
      /\ rec.row \in LeaseRecord /\ rec.row.state # "intervention" /\ ~rec.retain
  BY DEF BindSwap, keepSession, OwnershipInv, TypeOK, WorkerOK, Worker, RunOwns
<1> DEFINE row == bound(rec.row, nextToken(rec.row))
<1>2. row \in LeaseRecord /\ row.state = "recoveryBound" /\ row.authority = "recovery"
  <2>1. nextToken(rec.row) \in Nat
    BY <1>1 DEF nextToken, LeaseRecord, Tokens
  <2>2. row \in LeaseRecord
    BY <1>1, <2>1 DEF bound, LeaseRecord, LeaseStates, Authorities, Tokens
  <2> QED  BY <1>1, <2>2 DEF bound, LeaseRecord
<1>3. CASE compareAndSwap(rec.op, rec.row, row) /\ stepTo("deadline", [row EXCEPT !.rev = rec.row.rev + 1])
  <2>1. /\ rec'.pc = "deadline" /\ rec'.row = [row EXCEPT !.rev = rec.row.rev + 1]
        /\ rec'.op = rec.op /\ ~rec'.retain /\ Continues
    BY <1>1, <1>3 DEF stepTo, Worker, Continues
  <2>2. lease'[rec.op] = [row EXCEPT !.rev = rec.row.rev + 1] => RunOwns'
    BY <1>2, <2>1 DEF RunOwns, LeaseRecord
  <2> QED  BY <1>1, <1>2, <1>3, <2>1, <2>2, RunSwaps
<1>4. CASE UNCHANGED lease /\ threw
  BY <1>1, <1>4, RunEnds, RunStops
<1> QED  BY <1>3, <1>4 DEF BindSwap, swapOr

LEMMA DeadlineOwned ==
  ASSUME OwnershipInv, TypeOK', Deadline
  PROVE  OwnershipInv'
<1> DEFINE row == [rec.row EXCEPT !.state = "intervention"]
<1>1. /\ rec.pc = "deadline" /\ UNCHANGED <<fg, mt>> /\ rec \in Worker
      /\ rec.row \in LeaseRecord /\ ~rec.retain
  BY DEF Deadline, keepSession, OwnershipInv, TypeOK, WorkerOK, Worker, RunOwns
<1>2. row \in LeaseRecord /\ row.state = "intervention"
  BY <1>1 DEF LeaseRecord, LeaseStates
<1>3. CASE stepTo("observe", rec.row) /\ UNCHANGED lease
  <2>1. rec'.pc = "observe" /\ rec'.row = rec.row /\ rec'.op = rec.op /\ ~rec'.retain /\ Continues
    BY <1>1, <1>3 DEF stepTo, Worker, Continues
  <2>2. RunOwns'
    BY <1>1, <1>3, <2>1 DEF OwnershipInv, RunOwns
  <2> QED  BY <1>1, <1>3, <2>1, <2>2, RunMoves
<1>4. CASE /\ compareAndSwap(rec.op, rec.row, row)
           /\ rec' = [rec EXCEPT !.pc = "observe", !.retain = TRUE,
                                 !.row = [row EXCEPT !.rev = rec.row.rev + 1]]
  <2>1. /\ rec'.pc = "observe" /\ rec'.row = [row EXCEPT !.rev = rec.row.rev + 1]
        /\ rec'.op = rec.op /\ rec'.retain /\ Continues
    BY <1>1, <1>4 DEF Worker, Continues
  <2>2. lease'[rec.op] = [row EXCEPT !.rev = rec.row.rev + 1] => RunOwns'
    <3>1. [row EXCEPT !.rev = rec.row.rev + 1].rev \in Nat
      BY <1>1, <1>2 DEF LeaseRecord
    <3> QED  BY <1>2, <2>1, <3>1 DEF RunOwns, LeaseRecord, Known, Escalated
  <2> QED  BY <1>1, <1>2, <1>4, <2>1, <2>2, RunSwaps
<1>5. CASE compareAndSwap(rec.op, rec.row, row) /\ threw
  <2>1. Ends /\ RunOwns'
    BY <1>5, RunEnds DEF Ends, RunOwns
  <2> QED  BY <1>1, <1>2, <1>5, <2>1, RunSwaps
<1>6. CASE UNCHANGED lease /\ threw
  BY <1>1, <1>6, RunEnds, RunStops
<1> QED  BY <1>3, <1>4, <1>5, <1>6 DEF Deadline

LEMMA CaptureAfterSnapshotOwned ==
  ASSUME OwnershipInv, TypeOK', CaptureAfterSnapshot
  PROVE  OwnershipInv'
<1> DEFINE row == [rec.row EXCEPT !.outcome = rec.obs]
<1>1. /\ rec.pc = "snapshot" /\ UNCHANGED <<fg, mt>> /\ rec \in Worker
      /\ rec.row \in LeaseRecord /\ rec.obs \in Outcomes /\ rec.retain \in BOOLEAN
  BY DEF CaptureAfterSnapshot, OwnershipInv, TypeOK, WorkerOK, Worker
<1>2. row \in LeaseRecord /\ row.state = rec.row.state
  BY <1>1 DEF LeaseRecord
<1>3. CASE rec.retain /\ compareAndSwap(rec.op, rec.row, row) /\ finished("intervention")
  <2>1. Ends /\ RunOwns' /\ rec.row.state = "intervention"
    BY <1>1, <1>3, RunEnds DEF Ends, RunOwns, OwnershipInv
  <2> QED  BY <1>1, <1>2, <1>3, <2>1, RunSwaps
<1>4. CASE UNCHANGED lease /\ threw
  BY <1>1, <1>4, RunEnds, RunStops
<1>5. ASSUME NEW to, stepTo(to, rec.row), UNCHANGED lease,
             to = "intervene" \/ (to = "release" /\ ~rec.retain)
      PROVE  OwnershipInv'
  <2>1. rec'.pc = to /\ rec'.row = rec.row /\ rec'.retain = rec.retain /\ Continues
    BY <1>1, <1>5 DEF stepTo, Worker, Continues
  <2>2. RunOwns'
    BY <1>1, <1>5, <2>1 DEF OwnershipInv, RunOwns, Continues, Known, Escalated
  <2> QED  BY <1>1, <1>5, <2>1, <2>2, RunMoves
<1>6. CASE stepTo("intervene", rec.row) /\ UNCHANGED lease
  BY <1>5, <1>6
<1>7. CASE ~rec.retain /\ stepTo("release", rec.row) /\ UNCHANGED lease
  BY <1>5, <1>7
<1> QED  BY <1>1, <1>3, <1>4, <1>6, <1>7 DEF CaptureAfterSnapshot, keepStore

LEMMA CloseRecoveredOwned ==
  ASSUME OwnershipInv, TypeOK', CloseRecovered
  PROVE  OwnershipInv'
<1> DEFINE row == [rec.row EXCEPT !.state = "closed", !.outcome = rec.obs]
<1>1. /\ rec.pc = "close" /\ UNCHANGED <<fg, mt>> /\ rec \in Worker
      /\ rec.row \in LeaseRecord /\ rec.obs \in Outcomes /\ rec.row.state = "recoveryBound"
  BY DEF CloseRecovered, keepSession, OwnershipInv, TypeOK, WorkerOK, Worker, RunOwns
<1>2. row \in LeaseRecord /\ row.state = "closed"
  BY <1>1 DEF LeaseRecord, LeaseStates
<1>3. CASE compareAndSwap(rec.op, rec.row, row) /\ finished("ready")
  <2>1. Ends /\ RunOwns'
    BY <1>3, RunEnds DEF Ends, RunOwns
  <2> QED  BY <1>1, <1>2, <1>3, <2>1, RunSwaps
<1>4. CASE UNCHANGED lease /\ threw
  BY <1>1, <1>4, RunEnds, RunStops
<1> QED  BY <1>3, <1>4 DEF CloseRecovered

LEMMA EnterInterventionOwned ==
  ASSUME OwnershipInv, TypeOK', EnterIntervention
  PROVE  OwnershipInv'
<1> DEFINE row == [rec.row EXCEPT !.state = "intervention"]
<1>1. /\ rec.pc = "intervene" /\ UNCHANGED <<fg, mt>> /\ rec.row \in LeaseRecord
  BY DEF EnterIntervention, keepSession, OwnershipInv, TypeOK, WorkerOK, Worker
<1>2. row \in LeaseRecord /\ row.state = "intervention"
  BY <1>1 DEF LeaseRecord, LeaseStates
<1>3. finished("intervention") \/ threw
  BY DEF EnterIntervention
<1>4. Ends /\ RunOwns'
  BY <1>3, RunEnds DEF Ends, RunOwns
<1>5. CASE UNCHANGED lease
  BY <1>1, <1>4, <1>5, RunStops
<1>6. CASE compareAndSwap(rec.op, rec.row, row)
  BY <1>1, <1>2, <1>4, <1>6, RunSwaps
<1> QED  BY <1>5, <1>6 DEF EnterIntervention

(* The operator's swaps: the operator's row is current, so no run and no   *)
(* session holds it, except a run that has handed it over.                 *)
LEMMA ResolverSwaps ==
  ASSUME OwnershipInv, TypeOK', mt.pc # "idle", UNCHANGED <<fg, rec>>,
         NEW p \in LeaseRecord, compareAndSwap(mt.op, mt.row, p),
         p.state \in {"maintenanceBound", "closed"},
         p.state = "maintenanceBound" => p.authority = "maintenance",
         mt'.pc = "idle" \/ mt'.op = mt.op,
         lease'[mt.op] = [p EXCEPT !.rev = mt.row.rev + 1] => ResolverOwns'
  PROVE  OwnershipInv'
<1>1. /\ mt.op \in Ops /\ mt.row.rev = lease[mt.op].rev /\ lease \in [Ops -> LeaseRecord]
      /\ mt \in Resolver
  BY DEF OwnershipInv, TypeOK, ResolverOK, compareAndSwap, Current
<1>2. /\ mt.row = lease[mt.op] /\ lease[mt.op] \in LeaseRecord
      /\ lease[mt.op].state \in {"intervention", "maintenanceBound"}
  BY <1>1 DEF OwnershipInv, ResolverOwns, Known, Resolver
<1>3. lease'[mt.op] = [p EXCEPT !.rev = mt.row.rev + 1] /\ Wrote(mt.op)
  BY <1>1 DEF compareAndSwap, Wrote
<1>4. /\ lease'[mt.op].state = p.state /\ lease'[mt.op].authority = p.authority
      /\ lease'[mt.op].rev = lease[mt.op].rev + 1 /\ lease[mt.op].rev \in Nat
  BY <1>1, <1>2, <1>3 DEF LeaseRecord
<1>5. RunOwns'
  <2>1. CASE rec.pc # "idle" /\ rec.op = mt.op
    <3>1. /\ rec.retain /\ rec.pc \notin {"bind", "swap"} /\ rec.row.state = "intervention"
          /\ rec.row.rev <= lease[mt.op].rev /\ rec.row.rev \in Nat
          /\ rec.pc \notin {"deadline", "release", "close"}
      BY <1>2, <2>1 DEF OwnershipInv, RunOwns, Known, TypeOK, WorkerOK, Worker, LeaseRecord
    <3>2. lease'[rec.op].state = p.state
      BY <1>4, <2>1
    <3>3. rec.row.rev < lease'[rec.op].rev
      BY <1>4, <2>1, <3>1
    <3> QED  BY <2>1, <3>1, <3>2, <3>3, <1>4 DEF RunOwns, Known, Escalated
  <2> QED  BY <1>1, <1>3, <2>1, WroteElsewhere
<1>6. SessionOwns'
  BY <1>1, <1>2, <1>3, WroteElsewhere DEF OwnershipInv, SessionAlone, Unresolved
<1>7. OneUnresolved' /\ RowAuthority'
  BY <1>1, <1>2, <1>3, <1>4, WroteElsewhere DEF Unresolved
<1>8. SessionAlone' /\ RunWanted'
  BY <1>1, <1>2, <1>3 DEF OwnershipInv, SessionAlone, RunWanted, Wrote
<1> QED  BY <1>3, <1>5, <1>6, <1>7, <1>8 DEF OwnershipInv

(* The operator's steps that write no row.                                 *)
LEMMA ResolverMoves ==
  ASSUME OwnershipInv, TypeOK', UNCHANGED <<lease, fg, rec>>, ResolverOwns',
         mt'.pc = "idle" \/ fg.pc \notin Working \/ mt'.op # fg.op
  PROVE  OwnershipInv'
<1>1. SessionAlone'
  BY DEF OwnershipInv, SessionAlone
<1> QED  BY <1>1, RowsKept DEF OwnershipInv

LEMMA ResolveOwned ==
  ASSUME OwnershipInv, TypeOK', NEW o \in Ops, NEW out \in Verdicts, NEW back \in BOOLEAN,
         Resolve(o, out, back)
  PROVE  OwnershipInv'
<1>1. UNCHANGED <<lease, fg, rec>> /\ lease[o].state = "intervention"
  BY DEF Resolve, keepStore, keepSession
<1>2. fg.pc \notin Working \/ o # fg.op
  BY <1>1 DEF OwnershipInv, SessionOwns, Working, Owning, Transferring, SessionSteps
<1>3. CASE mt' = [pc |-> "swap", op |-> o, row |-> lease[o], out |-> out, back |-> back]
  <2>1. lease[o].rev \in Nat
    BY DEF OwnershipInv, TypeOK, LeaseRecord
  <2>2. mt'.pc = "swap" /\ mt'.op = o /\ mt'.row = lease'[o]
    BY <1>1, <1>3
  <2>3. ResolverOwns'
    BY <1>1, <2>1, <2>2 DEF ResolverOwns, Escalated, Known
  <2> QED  BY <1>1, <1>2, <2>2, <2>3, ResolverMoves
<1>4. CASE UNCHANGED mt
  BY <1>1, <1>4, RowsKept DEF OwnershipInv
<1> QED  BY <1>3, <1>4 DEF Resolve

LEMMA ResolverStepOwned ==
  ASSUME OwnershipInv, TypeOK',
         ResolverSwap \/ ResolverEvidence \/ ResolverRelease \/ ResolverClose
  PROVE  OwnershipInv'
<1>1. /\ mt.pc # "idle" /\ UNCHANGED <<fg, rec>> /\ mt \in Resolver /\ mt.row \in LeaseRecord
      /\ mt.op \in Ops
  BY DEF ResolverSwap, ResolverEvidence, ResolverRelease, ResolverClose, keepSession,
         OwnershipInv, TypeOK, ResolverOK, Resolver
<1>2. resolverStops => mt'.pc = "idle" /\ ResolverOwns'
  BY DEF resolverStops, NoResolve, ResolverOwns
<1>3. CASE resolverStops /\ UNCHANGED lease
  BY <1>1, <1>2, <1>3, ResolverMoves
<1>4. CASE ResolverSwap
  <2> DEFINE row == [mt.row EXCEPT !.state = "maintenanceBound", !.authority = "maintenance",
                                   !.token = mt.row.token + 1]
  <2>1. mt.row.token + 1 \in Nat
    BY <1>1 DEF LeaseRecord, Tokens
  <2>2. row \in LeaseRecord /\ row.state = "maintenanceBound" /\ row.authority = "maintenance"
    BY <1>1, <2>1 DEF LeaseRecord, LeaseStates, Authorities, Tokens
  <2>3. CASE compareAndSwap(mt.op, mt.row, row) /\ resolverStops
    BY <1>1, <1>2, <2>2, <2>3, ResolverSwaps
  <2>4. CASE /\ compareAndSwap(mt.op, mt.row, row)
             /\ mt' = [mt EXCEPT !.pc = "evidence", !.row = [row EXCEPT !.rev = mt.row.rev + 1]]
    <3>1. mt'.pc = "evidence" /\ mt'.op = mt.op /\ mt'.row = [row EXCEPT !.rev = mt.row.rev + 1]
      BY <1>1, <2>4 DEF Resolver
    <3>2. lease'[mt.op] = [row EXCEPT !.rev = mt.row.rev + 1] => ResolverOwns'
      BY <2>2, <3>1 DEF ResolverOwns, LeaseRecord
    <3> QED  BY <1>1, <2>2, <2>4, <3>1, <3>2, ResolverSwaps
  <2> QED  BY <1>3, <1>4, <2>3, <2>4 DEF ResolverSwap
<1>5. CASE ResolverEvidence
  <2> DEFINE row == [mt.row EXCEPT !.outcome = mt.out]
  <2>1. /\ mt.out \in Outcomes \cup {"none"}
        /\ mt.row.state = "maintenanceBound" /\ mt.row.authority = "maintenance"
    BY <1>1, <1>5 DEF Resolver, ResolverEvidence, OwnershipInv, ResolverOwns, RowAuthority
  <2>2. row \in LeaseRecord /\ row.state = "maintenanceBound" /\ row.authority = "maintenance"
    BY <1>1, <2>1 DEF LeaseRecord
  <2>3. CASE compareAndSwap(mt.op, mt.row, row) /\ resolverStops
    BY <1>1, <1>2, <2>2, <2>3, ResolverSwaps
  <2>4. CASE /\ compareAndSwap(mt.op, mt.row, row)
             /\ mt' = [mt EXCEPT !.pc = "release", !.row = [row EXCEPT !.rev = mt.row.rev + 1]]
    <3>1. mt'.pc = "release" /\ mt'.op = mt.op /\ mt'.row = [row EXCEPT !.rev = mt.row.rev + 1]
      BY <1>1, <2>4 DEF Resolver
    <3>2. lease'[mt.op] = [row EXCEPT !.rev = mt.row.rev + 1] => ResolverOwns'
      BY <2>2, <3>1 DEF ResolverOwns, LeaseRecord
    <3> QED  BY <1>1, <2>2, <2>4, <3>1, <3>2, ResolverSwaps
  <2> QED  BY <1>3, <1>5, <2>3, <2>4 DEF ResolverEvidence
<1>6. CASE ResolverRelease
  <2>1. UNCHANGED lease
    BY <1>6 DEF ResolverRelease, keepStore
  <2>2. CASE mt' = [mt EXCEPT !.pc = "close"]
    <3>1. mt'.pc = "close" /\ mt'.op = mt.op /\ mt'.row = mt.row
      BY <1>1, <2>2 DEF Resolver
    <3>2. ResolverOwns'
      BY <1>6, <2>1, <3>1 DEF ResolverRelease, OwnershipInv, ResolverOwns
    <3>3. fg.pc \notin Working \/ mt.op # fg.op
      BY <1>1 DEF OwnershipInv, SessionAlone
    <3> QED  BY <1>1, <2>1, <3>1, <3>2, <3>3, ResolverMoves
  <2> QED  BY <1>3, <1>6, <2>1, <2>2 DEF ResolverRelease
<1>7. CASE ResolverClose
  <2> DEFINE row == [mt.row EXCEPT !.state = "closed"]
  <2>1. row \in LeaseRecord /\ row.state = "closed"
    BY <1>1 DEF LeaseRecord, LeaseStates
  <2> QED  BY <1>1, <1>2, <1>3, <1>7, <2>1, ResolverSwaps DEF ResolverClose
<1> QED  BY <1>4, <1>5, <1>6, <1>7

LEMMA EnvironmentOwned ==
  ASSUME OwnershipInv, TypeOK', EnvironmentStep \/ UNCHANGED vars
  PROVE  OwnershipInv'
<1>1. CASE UNCHANGED <<lease, fg, rec, mt>>
  BY <1>1, RowsKept DEF OwnershipInv
<1>2. CASE Crash
  <2>1. /\ UNCHANGED lease /\ fg' = NoSession /\ mt' = NoResolve
        /\ rec'.pc = "idle" /\ ~rec'.retain /\ rec'.boot = "starting"
    BY <1>2 DEF Crash, keepStore, NoRun
  <2>2. SessionOwns' /\ SessionAlone' /\ RunOwns' /\ ResolverOwns' /\ RunWanted'
    BY <2>1 DEF SessionOwns, SessionAlone, RunOwns, ResolverOwns, RunWanted, NoSession,
       NoResolve, Owning, Transferring, Working
  <2> QED  BY <2>1, <2>2, RowsKept DEF OwnershipInv
<1> QED
  BY <1>1, <1>2 DEF EnvironmentStep, DeviceExecutes, DeviceRejects, CustomerTakes,
     CommandTimesOut, HostLeaseExpires, HostRestarts, keepStore, vars

LEMMA OwnershipStep == OwnershipInv /\ [Next]_vars => OwnershipInv'
<1> SUFFICES ASSUME OwnershipInv, [Next]_vars
             PROVE  OwnershipInv'
  OBVIOUS
<1>1. TypeOK'
  BY NextType DEF OwnershipInv
<1>2. CASE SessionStep
  BY <1>1, <1>2, StartOwned, CreateLeaseOwned, QuietSessionOwned, UpdateAfterOwned,
     CloseLeaseOwned, ExitOwned, AcceptTransferOwned, TransferTransitionOwned,
     TransferBindOwned DEF SessionStep
<1>3. CASE RecoveryStep
  BY <1>1, <1>3, RunStartsOwned, QuietRunOwned, BindSwapOwned, DeadlineOwned,
     CaptureAfterSnapshotOwned, CloseRecoveredOwned, EnterInterventionOwned DEF RecoveryStep
<1>4. CASE ResolverStep
  BY <1>1, <1>4, ResolveOwned, ResolverStepOwned DEF ResolverStep
<1> QED  BY <1>1, <1>2, <1>3, <1>4, EnvironmentOwned DEF Next

LEMMA OwnershipInit == Init => OwnershipInv
  BY InitType DEF Init, OwnershipInv, OneUnresolved, RowAuthority, SessionOwns, SessionAlone,
     RunOwns, ResolverOwns, RunWanted, Unresolved, NoLease, NoSession, NoRun, NoResolve,
     Owning, Transferring, Working
-----------------------------------------------------------------------------
(* The device lock is held for a row that the session still has, or for    *)
(* one whose lock recovery is to free.                                     *)
LockKept ==
  lock # NoOp =>
    \/ lock \in held /\ Unresolved(lock)
    \/ /\ ~rec.queued /\ (rec.pc # "idle" => rec.op # lock)
       /\ \/ lease[lock].state = "transactionBound"
          \/ /\ lease[lock].state \in {"absent", "closed"}
             /\ fg.op = lock /\ fg.pc \in {"create", "release", "unlock"}

LockFreed ==
  /\ rec.pc = "close" => lock # rec.op
  /\ mt.pc = "close" => lock # mt.op

(* Between the grant of the host and the swap of the row, the host lease   *)
(* of the operation, if it still lives, has the token that the row gets.   *)
GrantKept ==
  /\ fg.pc = "bind" /\ host.op = fg.op =>
       host.authority = "recovery" /\ host.token = fg.row.pending
  /\ rec.pc = "swap" /\ host.op = rec.op =>
       host.authority = "recovery" /\ host.token = nextToken(rec.row)

(* A run that goes on after the operator has closed its row has no host    *)
(* lease: it can command nothing.                                          *)
HostGone ==
  /\ rec.pc # "idle" /\ lease[rec.op].state = "closed" => host.op # rec.op
  /\ mt.pc = "close" => host.op # mt.op

LeasesInv == OwnershipInv /\ LockKept /\ LockFreed /\ GrantKept /\ FencingAgrees /\ HostGone

(* The host lease stays or goes, and nobody comes to rely on it.           *)
LEMMA HostStays ==
  ASSUME LeasesInv, OwnershipInv', host' = host \/ host'.op = NoOp,
         fg'.pc = "bind" => fg.pc = "bind" /\ fg'.op = fg.op /\ fg'.row = fg.row,
         rec'.pc = "swap" => rec.pc = "swap" /\ rec'.op = rec.op /\ rec'.row = rec.row,
         \A o \in Ops : lease'[o].state = "recoveryBound" =>
           lease[o].state = "recoveryBound" /\ lease'[o].token = lease[o].token,
         rec'.pc # "idle" =>
           \/ lease'[rec'.op].state # "closed"
           \/ rec.pc # "idle" /\ rec'.op = rec.op /\ lease[rec.op].state = "closed"
           \/ host'.op # rec'.op,
         mt'.pc = "close" => (mt.pc = "close" /\ mt'.op = mt.op) \/ host'.op # mt'.op
  PROVE  GrantKept' /\ FencingAgrees' /\ HostGone'
<1>1. /\ fg'.pc # "idle" => fg'.op # NoOp
      /\ rec'.pc # "idle" => rec'.op # NoOp
      /\ mt'.pc # "idle" => mt'.op # NoOp
  BY DEF OwnershipInv, TypeOK, SessionOK, WorkerOK, ResolverOK
<1>2. GrantKept'
  BY <1>1 DEF LeasesInv, GrantKept, nextToken
<1>3. FencingAgrees'
  BY DEF LeasesInv, FencingAgrees
<1>4. HostGone'
  BY <1>1 DEF LeasesInv, HostGone
<1> QED  BY <1>2, <1>3, <1>4

(* A grant to an operation that nobody but its session works on.           *)
LEMMA SessionGrants ==
  ASSUME LeasesInv, OwnershipInv', fg.pc \in Working, UNCHANGED <<lease, mt>>,
         host'.op = fg.op, rec'.pc = rec.pc, rec'.op = rec.op, rec'.row = rec.row,
         fg'.pc = "bind" =>
           fg'.op = fg.op /\ host'.authority = "recovery" /\ host'.token = fg'.row.pending
  PROVE  GrantKept' /\ FencingAgrees' /\ HostGone'
<1>1. lease[fg.op].state # "recoveryBound"
  BY DEF LeasesInv, OwnershipInv, SessionOwns, Working, Owning, Transferring, SessionSteps,
     listUnresolved, Unresolved
<1>2. (rec.pc # "idle" => rec.op # fg.op) /\ (mt.pc # "idle" => mt.op # fg.op)
  BY DEF LeasesInv, OwnershipInv, SessionAlone
<1>3. GrantKept'
  BY <1>2 DEF GrantKept
<1>4. FencingAgrees'
  BY <1>1 DEF FencingAgrees
<1>5. HostGone'
  BY <1>2 DEF HostGone
<1> QED  BY <1>3, <1>4, <1>5

(* The session keeps, or loses, the device lock on its row.                *)
LEMMA SessionLock ==
  ASSUME LeasesInv, fg.pc \in Working, Wrote(fg.op), UNCHANGED <<lock, rec>>,
         held \subseteq held',
         lock = fg.op =>
           \/ lease'[fg.op].state = "transactionBound"
           \/ /\ lease'[fg.op].state \in {"absent", "closed"}
              /\ fg'.op = fg.op /\ fg'.pc \in {"create", "release", "unlock"}
           \/ fg.op \in held' /\ lease'[fg.op].state \notin {"absent", "closed"}
  PROVE  LockKept'
<1>1. ~rec.queued /\ (rec.pc # "idle" => rec.op # fg.op)
  BY DEF LeasesInv, OwnershipInv, SessionAlone
<1>2. lock \in Ops \cup {NoOp}
  BY DEF LeasesInv, OwnershipInv, TypeOK
<1>3. CASE lock = fg.op
  BY <1>1, <1>3 DEF LockKept, Unresolved
<1>4. CASE lock # fg.op /\ lock # NoOp
  BY <1>1, <1>2, <1>4 DEF LeasesInv, LockKept, Wrote, Unresolved
<1> QED  BY <1>3, <1>4 DEF LockKept

LEMMA LockLost ==
  ASSUME lock' = NoOp, LeasesInv, OwnershipInv'
  PROVE  LockKept' /\ LockFreed'
  BY DEF LockKept, LockFreed, OwnershipInv, TypeOK, WorkerOK, ResolverOK

LEMMA LockFreedStays ==
  ASSUME LeasesInv, UNCHANGED lock,
         rec'.pc = "close" => rec.pc = "close" /\ rec'.op = rec.op,
         mt'.pc = "close" => mt.pc = "close" /\ mt'.op = mt.op
  PROVE  LockFreed'
  BY DEF LeasesInv, LockFreed

LEMMA StartLeases ==
  ASSUME LeasesInv, OwnershipInv', NEW o \in Ops, Start(o)
  PROVE  LeasesInv'
<1>1. /\ lock' = o /\ lease[o].state = "absent" /\ fg.pc = "idle"
      /\ fg'.pc = "create" /\ fg'.op = o /\ UNCHANGED <<lease, rec, mt, host, held>>
  BY DEF Start, at, keepStore, keepWorld, keepHost, NoSession
<1>2. ~rec.queued /\ (rec.pc # "idle" => rec.op # o) /\ (mt.pc # "idle" => mt.op # o)
  BY <1>1 DEF OwnershipInv, SessionAlone, Working, SessionSteps
<1>3. LockKept' /\ LockFreed'
  BY <1>1, <1>2 DEF LockKept, LockFreed
<1>4. GrantKept' /\ FencingAgrees' /\ HostGone'
  BY <1>1, HostStays DEF LeasesInv, HostGone
<1> QED  BY <1>3, <1>4 DEF LeasesInv

(* Session steps that leave the host lease or let it go.                   *)
LEMMA SessionLeases ==
  ASSUME LeasesInv, OwnershipInv', fg.pc \in Working, Wrote(fg.op),
         UNCHANGED <<rec, mt, lock>>, held \subseteq held', host' = host \/ host'.op = NoOp,
         fg'.pc # "bind", lease'[fg.op].state # "recoveryBound",
         lock = fg.op =>
           \/ lease'[fg.op].state = "transactionBound"
           \/ /\ lease'[fg.op].state \in {"absent", "closed"}
              /\ fg'.op = fg.op /\ fg'.pc \in {"create", "release", "unlock"}
           \/ fg.op \in held' /\ lease'[fg.op].state \notin {"absent", "closed"}
  PROVE  LeasesInv'
<1>1. (rec.pc # "idle" => rec.op # fg.op) /\ (mt.pc # "idle" => mt.op # fg.op)
  BY DEF LeasesInv, OwnershipInv, SessionAlone
<1>2. \A o \in Ops : lease'[o].state = "recoveryBound" =>
        lease[o].state = "recoveryBound" /\ lease'[o].token = lease[o].token
  BY DEF Wrote
<1>3. rec'.pc # "idle" =>
        \/ lease'[rec'.op].state # "closed"
        \/ rec.pc # "idle" /\ rec'.op = rec.op /\ lease[rec.op].state = "closed"
  BY <1>1 DEF Wrote, LeasesInv, OwnershipInv, TypeOK, WorkerOK
<1>4. rec'.pc # "swap" \/ (rec.pc = "swap" /\ rec'.op = rec.op /\ rec'.row = rec.row)
  BY DEF Worker
<1>5. GrantKept' /\ FencingAgrees' /\ HostGone'
  BY <1>2, <1>3, <1>4, HostStays
<1>6. LockKept' /\ LockFreed'
  BY SessionLock, LockFreedStays
<1> QED  BY <1>5, <1>6 DEF LeasesInv

LEMMA SessionFails ==
  ASSUME LeasesInv, OwnershipInv', UNCHANGED <<lease, rec, mt>>, lock' = NoOp,
         fg' = NoSession, host' = host \/ host'.op = NoOp
  PROVE  LeasesInv'
<1>1. GrantKept' /\ FencingAgrees' /\ HostGone'
  BY HostStays DEF NoSession, LeasesInv, HostGone
<1> QED  BY <1>1, LockLost DEF LeasesInv

LEMMA CreateLeaseLeases ==
  ASSUME LeasesInv, OwnershipInv', CreateLease
  PROVE  LeasesInv'
<1>1. /\ fg.pc = "create" /\ fg.pc \in Working /\ fg \in Session
      /\ UNCHANGED <<rec, mt, host, held>>
  BY DEF CreateLease, at, keepWorld, keepHost, Working, SessionSteps, LeasesInv, OwnershipInv,
     TypeOK, SessionOK
<1>2. CASE UNCHANGED lock /\ create(fg.op)
           /\ fg' = [fg EXCEPT !.pc = "acquire", !.token = lease'[fg.op].token]
  <2>1. fg'.pc = "acquire" /\ fg'.op = fg.op
    BY <1>1, <1>2 DEF Session
  <2>2. Wrote(fg.op)
    BY <1>1, <1>2, AtWork DEF create, Wrote, LeasesInv
  <2>3. lease'[fg.op].state = "transactionBound"
    BY <2>1 DEF OwnershipInv, SessionOwns, Owning
  <2> QED  BY <1>1, <1>2, <2>1, <2>2, <2>3, SessionLeases
<1>3. CASE UNCHANGED lease /\ lock' = NoOp /\ fg' = NoSession
  BY <1>1, <1>3, SessionFails
<1> QED  BY <1>2, <1>3 DEF CreateLease

LEMMA AcquireLeases ==
  ASSUME LeasesInv, OwnershipInv', AcquireHostLease
  PROVE  LeasesInv'
<1>1. /\ fg.pc = "acquire" /\ fg.pc \in Working /\ fg \in Session
      /\ UNCHANGED <<lease, rec, mt, held>>
  BY DEF AcquireHostLease, at, keepWorld, keepStore, Working, SessionSteps, LeasesInv,
     OwnershipInv, TypeOK, SessionOK
<1>2. fg'.pc # "bind" /\ (fg' = NoSession \/ fg'.op = fg.op)
  BY <1>1 DEF AcquireHostLease, goto, Session, NoSession
<1>3. lease[fg.op].state = "transactionBound"
  BY <1>1 DEF LeasesInv, OwnershipInv, SessionOwns, Owning
<1>4. UNCHANGED lock \/ lock' = NoOp
  BY DEF AcquireHostLease
<1>5. LockKept' /\ LockFreed'
  <2>1. CASE UNCHANGED lock
    BY <1>1, <1>3, <2>1, SessionLock, LockFreedStays DEF Wrote
  <2> QED  BY <1>4, <2>1, LockLost
<1>6. CASE hostGrant(fg.op, "transaction", fg.token)
  <2>1. host'.op = fg.op
    BY <1>6 DEF hostGrant
  <2>2. GrantKept' /\ FencingAgrees' /\ HostGone'
    BY <1>1, <1>2, <2>1, SessionGrants
  <2> QED  BY <1>5, <2>2 DEF LeasesInv
<1>7. CASE keepHost
  <2>1. GrantKept' /\ FencingAgrees' /\ HostGone'
    BY <1>1, <1>2, <1>7, HostStays DEF keepHost, LeasesInv, HostGone
  <2> QED  BY <1>5, <2>1 DEF LeasesInv
<1> QED  BY <1>6, <1>7 DEF AcquireHostLease

(* Steps of the session that write no row and leave the host lease and the *)
(* device lock alone.                                                      *)
LEMMA QuietSessionLeases ==
  ASSUME LeasesInv, OwnershipInv',
         \/ PersistBefore \/ Dispense \/ DispenseReturns \/ Present
         \/ PresentReturns \/ TakeConfirmed \/ TakeTimesOut \/ Abort \/ RetractReturns \/ Finish
  PROVE  LeasesInv'
<1>1. UNCHANGED <<lease, rec, mt, host, lock, held>>
  BY DEF PersistBefore, Dispense, DispenseReturns, Present, PresentReturns, TakeConfirmed,
         TakeTimesOut, Abort, RetractReturns, Finish, keepStore, keepWorld, keepHost
<1>2. fg.pc \in Owning /\ fg.pc \in Working
  BY DEF PersistBefore, Dispense, DispenseReturns, Present, PresentReturns, TakeConfirmed,
         TakeTimesOut, Abort, RetractReturns, Finish, at, ready, Owning, Working, SessionSteps
<1>3. fg'.pc # "bind"
  <2>1. fg \in Session
    BY DEF LeasesInv, OwnershipInv, TypeOK, SessionOK
  <2>2. CASE PersistBefore \/ Dispense \/ DispenseReturns
    BY ZenonT(60), <1>2, <2>1, <2>2 DEF PersistBefore, Dispense, DispenseReturns, ready, at, Session, Owning
  <2>3. CASE Present \/ PresentReturns \/ TakeConfirmed
    BY ZenonT(60), <2>1, <2>3 DEF Present, PresentReturns, TakeConfirmed, Session
  <2>4. CASE TakeTimesOut \/ Abort
    BY <2>1, <2>4 DEF TakeTimesOut, Abort, retract, goto, Session
  <2>5. CASE RetractReturns \/ Finish
    BY <2>1, <2>5 DEF RetractReturns, Finish, Session
  <2> QED  BY <2>2, <2>3, <2>4, <2>5
<1>4. lease[fg.op].state = "transactionBound"
  BY <1>2 DEF LeasesInv, OwnershipInv, SessionOwns
<1> QED  BY SMTT(40), <1>1, <1>2, <1>3, <1>4, SessionLeases DEF Wrote

LEMMA UpdateLeases ==
  ASSUME LeasesInv, OwnershipInv', DispensePersisted \/ PresentPersisted \/ Exit
  PROVE  LeasesInv'
<1>1. /\ fg.pc \in {"dispensed", "presented", "ready"} /\ fg \in Session
      /\ fg.pc \in Owning /\ fg.pc \in Working /\ UNCHANGED <<rec, mt, host, lock, held>>
      /\ update(fg.op, fg.phase) \/ UNCHANGED lease
  BY DEF DispensePersisted, PresentPersisted, UpdateAfter, Exit, at, keepWorld, keepHost,
     Owning, Working, SessionSteps, LeasesInv, OwnershipInv, TypeOK, SessionOK
<1>2. fg'.pc # "bind"
  <2>1. \A step \in {"ready", "left"} : goto(step) => fg'.pc # "bind"
    BY <1>1 DEF goto, Session
  <2>2. CASE DispensePersisted \/ PresentPersisted
    BY <1>1, <2>1, <2>2 DEF DispensePersisted, PresentPersisted, UpdateAfter, Session
  <2>3. CASE Exit
    BY <1>1, <2>1, <2>3 DEF Exit, Session
  <2> QED  BY <2>2, <2>3
<1>3. Wrote(fg.op) /\ lease'[fg.op].state = "transactionBound"
  BY <1>1, UpdateRow DEF LeasesInv, OwnershipInv, SessionOwns, Wrote
<1> QED  BY <1>1, <1>2, <1>3, SessionLeases

LEMMA CloseLeaseLeases ==
  ASSUME LeasesInv, OwnershipInv', CloseLease
  PROVE  LeasesInv'
<1>1. /\ fg.pc = "close" /\ fg \in Session /\ fg.pc \in Working
      /\ lease[fg.op].state = "transactionBound" /\ UNCHANGED <<rec, mt, host, lock, held>>
  BY DEF CloseLease, at, keepWorld, keepHost, Owning, Working, SessionSteps, LeasesInv,
     OwnershipInv, TypeOK, SessionOK, SessionOwns
<1>2. fg'.op = fg.op /\ fg'.pc \in {"release", "unlock"}
  BY <1>1 DEF CloseLease, goto, Session
<1>3. /\ Wrote(fg.op)
      /\ lease'[fg.op].state = "transactionBound" \/ lease'[fg.op].state = "closed"
  <2>1. CASE UNCHANGED lease
    BY <1>1, <2>1 DEF Wrote
  <2>2. CASE fg'.pc = "release" /\ Wrote(fg.op)
    BY <1>2, <2>2 DEF OwnershipInv, SessionOwns
  <2>3. CASE compareAndSwap(fg.op, lease[fg.op],
             [lease[fg.op] EXCEPT !.state = "closed", !.outcome = fg.out]) /\ goto("release")
    BY <1>1, <2>2, <2>3, AtWork DEF compareAndSwap, Wrote, goto, Session, LeasesInv
  <2> QED  BY <2>1, <2>3 DEF CloseLease
<1> QED  BY <1>1, <1>2, <1>3, SessionLeases

LEMMA ReleaseHostLeaseLeases ==
  ASSUME LeasesInv, OwnershipInv', ReleaseHostLease
  PROVE  LeasesInv'
<1>1. /\ fg.pc = "release" /\ fg \in Session /\ fg.pc \in Working
      /\ lease[fg.op].state = "closed" /\ UNCHANGED <<lease, rec, mt, lock, held>>
  BY DEF ReleaseHostLease, at, keepWorld, Owning, Working, SessionSteps, LeasesInv,
     OwnershipInv, TypeOK, SessionOK, SessionOwns
<1>2. fg'.op = fg.op /\ fg'.pc = "unlock"
  BY <1>1 DEF ReleaseHostLease, goto, Session
<1>3. CASE host' = host \/ host'.op = NoOp
  BY <1>1, <1>2, <1>3, SessionLeases DEF Wrote
<1>4. CASE host'.op = fg.op
  <2>1. GrantKept' /\ FencingAgrees' /\ HostGone'
    BY <1>1, <1>2, <1>4, SessionGrants
  <2>2. LockKept' /\ LockFreed'
    BY <1>1, <1>2, SessionLock, LockFreedStays DEF Wrote
  <2> QED  BY <2>1, <2>2 DEF LeasesInv
<1> QED  BY <1>3, <1>4 DEF ReleaseHostLease, NoHostLease, hostGrant

LEMMA ReleaseLockLeases ==
  ASSUME LeasesInv, OwnershipInv', ReleaseLock
  PROVE  LeasesInv'
<1>1. /\ fg.pc = "unlock" /\ fg \in Session /\ fg.pc \in Working
      /\ UNCHANGED <<lease, rec, mt, host, held>> /\ fg'.pc = "left"
      /\ lock' = IF lock = fg.op THEN NoOp ELSE lock
      /\ lease[fg.op].state \in {"transactionBound", "closed"}
  BY DEF ReleaseLock, at, keepWorld, keepHost, Working, SessionSteps, LeasesInv, OwnershipInv,
     TypeOK, SessionOK, SessionOwns, Session
<1>2. CASE lock # fg.op
  BY <1>1, <1>2, SessionLeases DEF Wrote
<1>3. CASE lock = fg.op
  <2>1. GrantKept' /\ FencingAgrees' /\ HostGone'
    BY <1>1, HostStays DEF LeasesInv, HostGone
  <2> QED  BY <1>1, <1>3, <2>1, LockLost DEF LeasesInv
<1> QED  BY <1>2, <1>3

LEMMA AcceptTransferLeases ==
  ASSUME LeasesInv, OwnershipInv', AcceptTransfer
  PROVE  LeasesInv'
<1>1. /\ fg.pc = "transfer" /\ fg \in Session /\ fg.pc \in Working
      /\ lease[fg.op].state = "transactionBound" /\ UNCHANGED <<rec, mt, host, lock>>
      /\ lease[fg.op] \in LeaseRecord
  BY AtWork DEF AcceptTransfer, at, keepWorld, keepHost, Owning, Working, SessionSteps, LeasesInv,
     OwnershipInv, TypeOK, SessionOK, SessionOwns
<1>2. fg'.pc # "bind"
  BY <1>1 DEF AcceptTransfer, goto, Session
<1>3. CASE UNCHANGED <<lease, held>>
  BY <1>1, <1>2, <1>3, SessionLeases DEF Wrote
<1>4. CASE /\ compareAndSwap(fg.op, lease[fg.op],
                [lease[fg.op] EXCEPT !.state = "transferPending",
                                     !.pending = lease[fg.op].token + 1, !.phase = fg.phase])
           /\ held' = held \cup {fg.op}
  <2>1. Wrote(fg.op) /\ lease'[fg.op].state = "transferPending"
    BY <1>1, <1>4, AtWork DEF compareAndSwap, Wrote, LeasesInv, LeaseRecord
  <2> QED  BY <1>1, <1>2, <1>4, <2>1, SessionLeases
<1> QED  BY <1>3, <1>4 DEF AcceptTransfer

(* At the hand-over the device lock, if the session has it, is in the      *)
(* books of recovery, and a run may be asked for.                          *)
LEMMA ScheduleLock ==
  ASSUME LeasesInv, OwnershipInv', fg.pc \in Transferring, schedule, UNCHANGED <<lock, held, mt>>,
         Wrote(fg.op), lease'[fg.op].state \notin {"absent", "closed"}
  PROVE  LockKept' /\ LockFreed'
<1>1. /\ rec'.pc = rec.pc /\ rec'.op = rec.op /\ fg.op \in Ops /\ lock \in Ops \cup {NoOp}
      /\ lease[fg.op].state = "transferPending"
  BY DEF schedule, Worker, LeasesInv, OwnershipInv, TypeOK, WorkerOK, SessionOK, Transferring,
     SessionOwns
<1>2. lock # NoOp => lock \in held /\ Unresolved(lock)
  BY <1>1 DEF LeasesInv, LockKept, OwnershipInv, OneUnresolved, Unresolved, Transferring
<1>3. LockKept'
  BY <1>1, <1>2 DEF LockKept, Unresolved, Wrote
<1> QED  BY <1>1, <1>3, LockFreedStays

LEMMA TransferTransitionLeases ==
  ASSUME LeasesInv, OwnershipInv', TransferTransition
  PROVE  LeasesInv'
<1>1. /\ fg.pc = "transition" /\ fg \in Session /\ fg.pc \in Working /\ fg.pc \in Transferring
      /\ lease[fg.op].state = "transferPending" /\ UNCHANGED <<lease, mt, lock, held>>
      /\ rec \in Worker
  BY DEF TransferTransition, at, keepStore, Transferring, Working, SessionSteps, LeasesInv,
     OwnershipInv, TypeOK, SessionOK, WorkerOK, SessionOwns
<1>2. rec'.pc = rec.pc /\ rec'.op = rec.op /\ rec'.row = rec.row
  BY <1>1 DEF TransferTransition, schedule, Worker
<1>3. LockKept' /\ LockFreed'
  <2>1. CASE schedule
    BY <1>1, <2>1, ScheduleLock DEF Wrote
  <2>2. CASE UNCHANGED rec
    <3>1. lock = fg.op => fg.op \in held
      BY <1>1 DEF LeasesInv, LockKept, OwnershipInv, TypeOK, SessionOK
    <3> QED  BY <1>1, <2>2, <3>1, SessionLock, LockFreedStays DEF Wrote
  <2> QED  BY <2>1, <2>2 DEF TransferTransition
<1>4. CASE hostGrant(fg.op, "recovery", fg.row.pending)
  <2>1. /\ host'.op = fg.op /\ host'.authority = "recovery" /\ host'.token = fg.row.pending
        /\ fg'.op = fg.op /\ fg'.row = fg.row
    BY <1>1, <1>4 DEF hostGrant, TransferTransition, goto, Session
  <2>2. GrantKept' /\ FencingAgrees' /\ HostGone'
    BY <1>1, <1>2, <2>1, SessionGrants
  <2> QED  BY <1>3, <2>2 DEF LeasesInv
<1>5. CASE keepHost /\ goto("left")
  <2>1. fg'.pc = "left"
    BY <1>1, <1>5 DEF goto, Session
  <2>2. GrantKept' /\ FencingAgrees' /\ HostGone'
    BY <1>1, <1>2, <1>5, <2>1, HostStays DEF keepHost, LeasesInv, HostGone
  <2> QED  BY <1>3, <2>2 DEF LeasesInv
<1> QED  BY <1>4, <1>5 DEF TransferTransition

LEMMA TransferBindLeases ==
  ASSUME LeasesInv, OwnershipInv', TransferBind
  PROVE  LeasesInv'
<1>1. /\ fg.pc = "bind" /\ fg \in Session /\ fg.pc \in Working /\ fg.pc \in Transferring
      /\ lease[fg.op].state = "transferPending" /\ UNCHANGED <<mt, host, lock, held>>
      /\ rec \in Worker /\ fg.row \in LeaseRecord /\ schedule /\ fg'.pc = "left"
  BY DEF TransferBind, at, keepHost, Transferring, Working, SessionSteps, LeasesInv,
     OwnershipInv, TypeOK, SessionOK, WorkerOK, SessionOwns, goto, Session
<1>2. rec'.pc = rec.pc /\ rec'.op = rec.op /\ rec'.row = rec.row
  BY <1>1 DEF schedule, Worker
<1>3. rec.pc # "idle" => rec.op \in Ops /\ rec.op # fg.op
  BY <1>1 DEF LeasesInv, OwnershipInv, SessionAlone, TypeOK, WorkerOK
<1>4. CASE UNCHANGED lease
  <2>1. GrantKept' /\ FencingAgrees' /\ HostGone'
    BY <1>1, <1>2, <1>4, HostStays DEF LeasesInv, HostGone
  <2>2. LockKept' /\ LockFreed'
    BY <1>1, <1>4, ScheduleLock DEF Wrote
  <2> QED  BY <2>1, <2>2 DEF LeasesInv
<1>5. CASE compareAndSwap(fg.op, fg.row, bound(fg.row, fg.row.pending))
  <2>1. lease' = [lease EXCEPT ![fg.op] = [bound(fg.row, fg.row.pending) EXCEPT
                                             !.rev = fg.row.rev + 1]]
    BY <1>5 DEF compareAndSwap
  <2>2. /\ Wrote(fg.op) /\ lease'[fg.op].state = "recoveryBound"
        /\ lease'[fg.op].token = fg.row.pending
    BY <1>1, <2>1, AtWork DEF Wrote, LeaseRecord, bound, LeasesInv
  <2>3. LockKept' /\ LockFreed'
    BY <1>1, <2>2, ScheduleLock
  <2>4. FencingAgrees'
    BY <1>1, <2>2 DEF LeasesInv, FencingAgrees, GrantKept, Wrote
  <2>5. GrantKept'
    BY <1>1, <1>2 DEF LeasesInv, GrantKept
  <2>6. HostGone'
    BY <1>1, <1>2, <1>3, <2>2 DEF LeasesInv, HostGone, Wrote
  <2> QED  BY <2>3, <2>4, <2>5, <2>6 DEF LeasesInv
<1> QED  BY <1>4, <1>5 DEF TransferBind

LEMMA LeaveLeases ==
  ASSUME LeasesInv, OwnershipInv', Leave
  PROVE  LeasesInv'
<1>1. UNCHANGED <<lease, rec, mt, host, lock, held>> /\ fg.pc = "left" /\ fg'.pc = "idle"
  BY DEF Leave, at, keepStore, keepHost, keepWorld, NoSession
<1>2. LockKept'
  BY <1>1 DEF LeasesInv, LockKept, Unresolved
<1>3. LockFreed' /\ GrantKept' /\ FencingAgrees' /\ HostGone'
  BY <1>1, HostStays, LockFreedStays DEF LeasesInv, HostGone
<1> QED  BY <1>2, <1>3 DEF LeasesInv

-----------------------------------------------------------------------------
(* The recovery run and the leases.                                        *)

(* A run that goes on or ends keeps the device lock where it is.           *)
LEMMA RunLock ==
  ASSUME LeasesInv, OwnershipInv', rec.pc # "idle", UNCHANGED <<fg, mt, lock, held>>,
         Wrote(rec.op), Continues \/ Ends,
         lock = rec.op => lease'[rec.op].state \notin {"absent", "closed"}
  PROVE  LockKept'
<1>1. lock \in Ops \cup {NoOp}
  BY DEF LeasesInv, OwnershipInv, TypeOK
<1>2. CASE lock = rec.op
  BY <1>2 DEF LeasesInv, LockKept, Unresolved
<1>3. CASE lock # rec.op /\ lock # NoOp
  BY <1>1, <1>3 DEF LeasesInv, LockKept, Unresolved, Wrote, Continues, Ends
<1> QED  BY <1>2, <1>3 DEF LockKept

(* A run that neither grants nor binds and does not close an unlocked row. *)
LEMMA RunLeases ==
  ASSUME LeasesInv, OwnershipInv', rec.pc # "idle", UNCHANGED <<fg, mt, host, lock, held>>,
         Wrote(rec.op), Continues \/ Ends, rec'.pc \notin {"swap", "close"},
         \/ UNCHANGED lease
         \/ lease'[rec.op].state = "intervention"
         \/ lease'[rec.op].state = "closed" /\ rec'.pc = "idle" /\ lock # rec.op
  PROVE  LeasesInv'
<1>1. Unresolved(rec.op) \/ lock # rec.op
  BY DEF LeasesInv, LockKept, OwnershipInv, TypeOK, WorkerOK
<1>2. LockKept'
  BY <1>1, RunLock DEF Unresolved
<1>3. rec'.pc # "idle" => rec'.op = rec.op
  BY DEF Continues, Ends
<1>4. \A o \in Ops : lease'[o].state = "recoveryBound" =>
        lease[o].state = "recoveryBound" /\ lease'[o].token = lease[o].token
  BY DEF Wrote
<1>5. mt'.pc = "close" => mt.pc = "close" /\ mt'.op = mt.op
  OBVIOUS
<1>6. rec'.pc # "idle" =>
           \/ lease'[rec'.op].state # "closed"
           \/ rec.pc # "idle" /\ rec'.op = rec.op /\ lease[rec.op].state = "closed"
  BY <1>3
<1>7. GrantKept' /\ FencingAgrees' /\ HostGone'
  BY <1>4, <1>5, <1>6, HostStays
<1> QED  BY <1>2, <1>5, <1>7, LockFreedStays DEF LeasesInv

LEMMA RunStartsLeases ==
  ASSUME LeasesInv, OwnershipInv', RunStarts
  PROVE  LeasesInv'
<1>1. /\ rec.pc = "idle" /\ rec.queued /\ UNCHANGED <<lease, fg, mt, host, lock, held>>
      /\ rec \in Worker
  BY DEF RunStarts, keepStore, keepSession, keepHost, LeasesInv, OwnershipInv, TypeOK, WorkerOK
<1>2. rec'.pc \in {"idle", "bind", "deadline"} /\ (rec'.pc # "idle" => rec'.op \in listUnresolved)
  BY ZenonT(80), <1>1 DEF RunStarts, Worker
<1>3. LockKept'
  BY <1>1 DEF LeasesInv, LockKept, Unresolved
<1>4. rec'.pc # "idle" => lease'[rec'.op].state # "closed"
  BY <1>1, <1>2 DEF listUnresolved, Unresolved
<1>5. GrantKept' /\ FencingAgrees' /\ HostGone'
  BY <1>1, <1>2, <1>4, HostStays
<1> QED  BY <1>1, <1>2, <1>3, <1>5, LockFreedStays DEF LeasesInv

LEMMA BindLeases ==
  ASSUME LeasesInv, OwnershipInv', Bind
  PROVE  LeasesInv'
<1>1. /\ rec.pc = "bind" /\ UNCHANGED <<lease, fg, mt, lock, held>> /\ rec \in Worker
      /\ rec.row = lease[rec.op] /\ rec.op \in Ops
      /\ rec.row.state \in {"transactionBound", "transferPending"}
  BY DEF Bind, keepStore, keepSession, LeasesInv, OwnershipInv, TypeOK, WorkerOK, RunOwns
<1>2. CASE finished("recovering")
  <2>1. Ends
    BY <1>2, RunEnds
  <2>2. CASE keepHost
    BY <1>1, <2>1, <2>2, RunLeases DEF keepHost, Wrote, Ends
  <2>3. CASE hostFree /\ hostGrant(rec.op, "recovery", nextToken(rec.row))
    <3>1. host'.op = rec.op
      BY <2>3 DEF hostGrant
    <3>2. LockKept' /\ LockFreed'
      BY <1>1, <2>1, RunLock, LockFreedStays DEF Wrote, Ends
    <3>3. GrantKept' /\ FencingAgrees' /\ HostGone'
      <4>1. mt.pc = "close" => mt.op # rec.op
        BY <1>1 DEF LeasesInv, OwnershipInv, ResolverOwns
      <4>2. fg.pc = "bind" => fg.op # rec.op
        BY <1>1 DEF LeasesInv, OwnershipInv, SessionAlone, Working, SessionSteps
      <4> QED  BY <1>1, <2>1, <3>1, <4>1, <4>2 DEF GrantKept, FencingAgrees, HostGone, Ends
    <3> QED  BY <3>2, <3>3 DEF LeasesInv
  <2> QED  BY <1>2, <2>2, <2>3 DEF Bind
<1>3. CASE stepTo("swap", rec.row)
  <2>1. rec'.pc = "swap" /\ rec'.op = rec.op /\ rec'.row = rec.row /\ Continues
    BY <1>1, <1>3 DEF stepTo, Worker, Continues
  <2>2. rec'.pc # "idle"
    BY <2>1
  <2>3. /\ host'.op = rec.op /\ host'.authority = "recovery" /\ host'.token = nextToken(rec.row)
        /\ host' = [op |-> rec.op, authority |-> "recovery", token |-> nextToken(rec.row)]
    <3>1. ~finished("recovering") /\ ~threw
      BY <2>2 DEF finished, threw, NoRun
    <3> QED  BY <3>1 DEF Bind, hostGrant, hostHolds, keepHost
  <2>4. LockKept' /\ LockFreed'
    BY <1>1, <2>1, RunLock, LockFreedStays DEF Wrote
  <2>5. GrantKept' /\ FencingAgrees' /\ HostGone'
    <3>1. mt.pc = "close" => mt.op # rec.op
      BY <1>1 DEF LeasesInv, OwnershipInv, ResolverOwns
    <3>2. fg.pc = "bind" => fg.op # rec.op
      BY <1>1 DEF LeasesInv, OwnershipInv, SessionAlone, Working, SessionSteps
    <3> QED  BY <1>1, <2>1, <2>3, <3>1, <3>2 DEF GrantKept, FencingAgrees, HostGone, nextToken
  <2> QED  BY <2>4, <2>5 DEF LeasesInv
<1>4. CASE keepHost /\ threw
  BY <1>1, <1>4, RunEnds, RunLeases DEF keepHost, Wrote, Ends
<1> QED  BY <1>2, <1>3, <1>4 DEF Bind

LEMMA BindSwapLeases ==
  ASSUME LeasesInv, OwnershipInv', BindSwap
  PROVE  LeasesInv'
<1> DEFINE row == bound(rec.row, nextToken(rec.row))
<1>1. /\ rec.pc = "swap" /\ UNCHANGED <<fg, mt, host, lock, held>> /\ rec \in Worker
      /\ rec.op \in Ops /\ lease \in [Ops -> LeaseRecord] /\ rec.row = lease[rec.op]
  BY DEF BindSwap, keepSession, keepHost, LeasesInv, OwnershipInv, TypeOK, WorkerOK, RunOwns
<1>2. CASE UNCHANGED lease /\ threw
  BY <1>1, <1>2, RunEnds, RunLeases DEF Wrote, Ends
<1>3. CASE compareAndSwap(rec.op, rec.row, row) /\ stepTo("deadline", [row EXCEPT !.rev = rec.row.rev + 1])
  <2>1. lease' = [lease EXCEPT ![rec.op] = [row EXCEPT !.rev = rec.row.rev + 1]]
    BY <1>3 DEF compareAndSwap
  <2>2. /\ Wrote(rec.op) /\ lease'[rec.op].state = "recoveryBound"
        /\ lease'[rec.op].token = nextToken(rec.row)
    BY <1>1, <2>1 DEF Wrote, LeaseRecord, bound
  <2>3. rec'.pc = "deadline" /\ rec'.op = rec.op /\ Continues
    BY <1>1, <1>3 DEF stepTo, Worker, Continues
  <2>4. LockKept' /\ LockFreed'
    BY <1>1, <2>2, <2>3, RunLock, LockFreedStays
  <2>5. FencingAgrees'
    BY <1>1, <2>2 DEF LeasesInv, FencingAgrees, GrantKept, Wrote
  <2>6. GrantKept' /\ HostGone'
    BY <1>1, <2>2, <2>3 DEF LeasesInv, GrantKept, HostGone
  <2> QED  BY <2>4, <2>5, <2>6 DEF LeasesInv
<1> QED  BY <1>2, <1>3 DEF BindSwap, swapOr

(* Steps of a run that leave both leases alone.                            *)
LEMMA QuietRunLeases ==
  ASSUME LeasesInv, OwnershipInv',
         \/ Deadline \/ Observe \/ RecoveryRetract \/ RecoveryRetractReturns
         \/ CaptureAfterSnapshot \/ CloseRecovered \/ EnterIntervention
  PROVE  LeasesInv'
<1>1. /\ rec.pc # "idle" /\ UNCHANGED <<fg, mt, host, lock, held>> /\ rec \in Worker
      /\ lease \in [Ops -> LeaseRecord] /\ rec.row \in LeaseRecord /\ rec.op \in Ops
  BY DEF Deadline, Observe, RecoveryRetract, RecoveryRetractReturns, CaptureAfterSnapshot,
         CloseRecovered, EnterIntervention, keepSession, keepHost, LeasesInv, OwnershipInv,
         TypeOK, WorkerOK, Worker
<1>2. Continues \/ Ends
  <2>1. (\E r : finished(r)) \/ threw => Ends
    BY RunEnds
  <2>2. \A to, row : stepTo(to, row) => Continues
    BY <1>1 DEF stepTo, Continues, Worker
  <2>3. CASE Deadline
    BY <1>1, <2>1, <2>2, <2>3 DEF Deadline, Continues, Worker
  <2>4. CASE Observe \/ RecoveryRetract \/ RecoveryRetractReturns
    BY ZenonT(60), <1>1, <2>2, <2>4 DEF Observe, RecoveryRetract, RecoveryRetractReturns, Continues, Worker
  <2>5. CASE CaptureAfterSnapshot \/ CloseRecovered \/ EnterIntervention
    BY <1>1, <2>1, <2>2, <2>5 DEF CaptureAfterSnapshot, CloseRecovered, EnterIntervention
  <2> QED  BY <2>3, <2>4, <2>5
<1>3. rec'.pc \notin {"swap", "close"}
  <2>1. (\E r : finished(r)) \/ threw => rec'.pc = "idle"
    BY RunEnds DEF Ends
  <2>2. \A to, row : stepTo(to, row) => rec'.pc = to
    BY <1>1 DEF stepTo, Worker
  <2>3. CASE Deadline
    BY <1>1, <2>1, <2>2, <2>3 DEF Deadline, Worker
  <2>4. CASE Observe \/ RecoveryRetract \/ RecoveryRetractReturns
    BY <1>1, <2>2, <2>4 DEF Observe, RecoveryRetract, RecoveryRetractReturns, Worker,
       afterObserving
  <2>5. CASE CaptureAfterSnapshot \/ CloseRecovered \/ EnterIntervention
    BY <1>1, <2>1, <2>2, <2>5 DEF CaptureAfterSnapshot, CloseRecovered, EnterIntervention
  <2> QED  BY <2>3, <2>4, <2>5
<1>4. ASSUME NEW p \in LeaseRecord, compareAndSwap(rec.op, rec.row, p)
      PROVE  /\ Wrote(rec.op) /\ lease'[rec.op].state = p.state
             /\ rec.row.rev = lease[rec.op].rev
  BY <1>1, <1>4 DEF compareAndSwap, Current, Wrote, LeaseRecord
<1>5. CASE UNCHANGED lease
  BY <1>1, <1>2, <1>3, <1>5, RunLeases DEF Wrote
<1>6. CASE compareAndSwap(rec.op, rec.row, [rec.row EXCEPT !.state = "intervention"])
  <2>1. [rec.row EXCEPT !.state = "intervention"] \in LeaseRecord
    BY <1>1 DEF LeaseRecord, LeaseStates
  <2>2. Wrote(rec.op) /\ lease'[rec.op].state = "intervention"
    BY <1>1, <1>4, <1>6, <2>1 DEF LeaseRecord
  <2> QED  BY <1>1, <1>2, <1>3, <2>2, RunLeases
<1>7. CASE CaptureAfterSnapshot
  <2>1. CASE rec.retain /\ compareAndSwap(rec.op, rec.row, [rec.row EXCEPT !.outcome = rec.obs])
    <3>1. rec.obs \in Outcomes
      BY <1>7 DEF CaptureAfterSnapshot, LeasesInv, OwnershipInv, TypeOK, WorkerOK
    <3>2. [rec.row EXCEPT !.outcome = rec.obs] \in LeaseRecord
      BY <1>1, <3>1 DEF LeaseRecord
    <3>3. rec.row.state = "intervention"
      BY <1>7, <2>1 DEF CaptureAfterSnapshot, LeasesInv, OwnershipInv, RunOwns
    <3>4. Wrote(rec.op) /\ lease'[rec.op].state = "intervention"
      BY <1>1, <1>4, <2>1, <3>2, <3>3 DEF LeaseRecord
    <3> QED  BY <1>1, <1>2, <1>3, <3>4, RunLeases
  <2> QED  BY <1>1, <1>5, <1>7, <2>1 DEF CaptureAfterSnapshot, keepStore, Worker
<1>8. CASE CloseRecovered
  <2> DEFINE row == [rec.row EXCEPT !.state = "closed", !.outcome = rec.obs]
  <2>1. CASE compareAndSwap(rec.op, rec.row, row) /\ finished("ready")
    <3>1. rec.pc = "close" /\ rec.obs \in Outcomes
      BY <1>8 DEF CloseRecovered, LeasesInv, OwnershipInv, TypeOK, WorkerOK
    <3>2. row \in LeaseRecord /\ row.state = "closed"
      BY <1>1, <3>1 DEF LeaseRecord, LeaseStates
    <3>3. Wrote(rec.op) /\ lease'[rec.op].state = "closed" /\ lock # rec.op /\ rec'.pc = "idle"
      BY <1>1, <1>4, <2>1, <3>1, <3>2, RunEnds DEF Ends, LeasesInv, LockFreed
    <3> QED  BY <1>1, <1>2, <1>3, <3>3, RunLeases
  <2> QED  BY <1>5, <1>8, <2>1 DEF CloseRecovered
<1>9. CASE Deadline \/ EnterIntervention
  BY <1>5, <1>6, <1>9 DEF Deadline, EnterIntervention
<1> QED  BY <1>5, <1>7, <1>8, <1>9 DEF Observe, RecoveryRetract, RecoveryRetractReturns, keepStore

(* freeLock, by whoever works on the row: the lock of an unresolved row    *)
(* that is not the session's is in the books, so it is freed.              *)
LEMMA FreeLock ==
  ASSUME LeasesInv, OwnershipInv', NEW o \in Ops, freeLock(o), UNCHANGED <<lease, fg>>,
         lock = o => o \in held, rec'.queued = rec.queued,
         rec'.pc = "idle" \/ (rec.pc # "idle" /\ rec'.op = rec.op)
  PROVE  lock' # o /\ (lock' = lock \/ lock' = NoOp) /\ LockKept'
<1>1. lock' = IF lock = o THEN NoOp ELSE lock
  BY DEF freeLock
<1>2. o # NoOp
  OBVIOUS
<1>3. held' = held \ {o}
  BY DEF freeLock
<1>4. LockKept'
  BY <1>1, <1>2, <1>3 DEF LeasesInv, LockKept, Unresolved
<1> QED  BY <1>1, <1>2, <1>4

LEMMA ReleaseResourcesLeases ==
  ASSUME LeasesInv, OwnershipInv', ReleaseResources
  PROVE  LeasesInv'
<1>1. /\ rec.pc = "release" /\ UNCHANGED <<lease, fg, mt>> /\ rec \in Worker /\ rec.op \in Ops
      /\ freeLock(rec.op)
  BY DEF ReleaseResources, keepStore, keepSession, LeasesInv, OwnershipInv, TypeOK, WorkerOK
<1>2. rec'.op = rec.op /\ rec'.queued = rec.queued /\ rec'.pc \in {"close", "intervene"}
  BY <1>1 DEF ReleaseResources, stepTo, Worker
<1>3. host' = host \/ host'.op = NoOp
  BY DEF ReleaseResources, NoHostLease
<1>4. lock = rec.op => rec.op \in held
  BY <1>1 DEF LeasesInv, LockKept, OwnershipInv, TypeOK
<1>5. lock' # rec.op /\ (lock' = lock \/ lock' = NoOp) /\ LockKept'
  BY <1>1, <1>2, <1>4, FreeLock
<1>6. LockFreed'
  BY <1>1, <1>2, <1>5 DEF LeasesInv, LockFreed, OwnershipInv, TypeOK, ResolverOK
<1>7. GrantKept' /\ FencingAgrees' /\ HostGone'
  BY <1>1, <1>2, <1>3, HostStays DEF LeasesInv, HostGone
<1> QED  BY <1>5, <1>6, <1>7 DEF LeasesInv

-----------------------------------------------------------------------------
(* The operator and the environment.                                       *)
LEMMA ResolveLeases ==
  ASSUME LeasesInv, OwnershipInv', NEW o \in Ops, NEW out \in Verdicts, NEW back \in BOOLEAN,
         Resolve(o, out, back)
  PROVE  LeasesInv'
<1>1. /\ UNCHANGED <<lease, fg, rec, lock, held>> /\ lease[o].state = "intervention"
      /\ mt.pc = "idle" /\ host'.op = o /\ mt'.pc # "close"
  BY DEF Resolve, keepStore, keepSession, hostGrant
<1>2. LockKept' /\ LockFreed'
  BY <1>1, LockFreedStays DEF LeasesInv, LockKept, Unresolved
<1>3. (fg.pc = "bind" => fg.op # o) /\ (rec.pc = "swap" => rec.op # o)
  BY <1>1 DEF LeasesInv, OwnershipInv, SessionOwns, RunOwns, Transferring
<1>4. GrantKept' /\ FencingAgrees' /\ HostGone'
  BY <1>1, <1>3 DEF GrantKept, FencingAgrees, HostGone
<1> QED  BY <1>2, <1>4 DEF LeasesInv

LEMMA ResolverLeases ==
  ASSUME LeasesInv, OwnershipInv',
         ResolverSwap \/ ResolverEvidence \/ ResolverRelease \/ ResolverClose
  PROVE  LeasesInv'
<1>1. /\ mt.pc # "idle" /\ UNCHANGED <<fg, rec>> /\ mt \in Resolver /\ mt.op \in Ops
      /\ lease \in [Ops -> LeaseRecord] /\ mt.row \in LeaseRecord
      /\ lock \in Ops \cup {NoOp}
  BY DEF ResolverSwap, ResolverEvidence, ResolverRelease, ResolverClose, keepSession,
         LeasesInv, OwnershipInv, TypeOK, ResolverOK, Resolver
<1>2. resolverStops => mt'.pc = "idle"
  BY DEF resolverStops, NoResolve
<1>3. lock = mt.op => mt.op \in held \/ lease[mt.op].state = "closed"
  BY <1>1 DEF LeasesInv, LockKept, OwnershipInv, ResolverOwns, Escalated, Resolver
<1>4. CASE ResolverRelease
  <2>1. UNCHANGED lease /\ freeLock(mt.op) /\ (host' = host \/ host'.op = NoOp)
        /\ lease[mt.op].state = "maintenanceBound" /\ mt.pc = "release"
    BY <1>4 DEF ResolverRelease, keepStore, keepHost, NoHostLease, LeasesInv, OwnershipInv,
       ResolverOwns
  <2>2. mt'.pc = "close" => mt'.op = mt.op /\ host'.op = NoOp
    BY <1>1, <1>2, <1>4 DEF ResolverRelease, Resolver, NoHostLease
  <2>3. lock' # mt.op /\ (lock' = lock \/ lock' = NoOp) /\ LockKept'
    BY <1>1, <1>3, <2>1, FreeLock
  <2>4. LockFreed'
    BY <1>1, <2>2, <2>3 DEF LeasesInv, LockFreed, OwnershipInv, TypeOK, WorkerOK
  <2>5. GrantKept' /\ FencingAgrees' /\ HostGone'
    BY <1>1, <2>1, <2>2, HostStays DEF LeasesInv, HostGone
  <2> QED  BY <2>3, <2>4, <2>5 DEF LeasesInv
<1>5. CASE ~ResolverRelease
  <2>1. UNCHANGED <<host, lock, held>>
    BY <1>5 DEF ResolverSwap, ResolverEvidence, ResolverClose, keepHost
  <2>2. mt'.pc # "close"
    BY <1>1, <1>2, <1>5 DEF ResolverSwap, ResolverEvidence, ResolverClose, Resolver
  <2>3. CASE UNCHANGED lease
    <3>1. LockKept' /\ LockFreed'
      BY <1>1, <2>1, <2>2, <2>3, LockFreedStays DEF LeasesInv, LockKept, Unresolved
    <3>2. GrantKept' /\ FencingAgrees' /\ HostGone'
      BY <1>1, <2>1, <2>2, <2>3, HostStays DEF LeasesInv, HostGone
    <3> QED  BY <3>1, <3>2 DEF LeasesInv
  <2>4. ASSUME NEW p \in LeaseRecord, compareAndSwap(mt.op, mt.row, p),
               \/ p.state = "maintenanceBound"
               \/ p.state = "closed" /\ mt.pc = "close"
        PROVE  LeasesInv'
    <3>1. Wrote(mt.op) /\ lease'[mt.op].state = p.state /\ mt.row.rev = lease[mt.op].rev
      BY <1>1, <2>4 DEF compareAndSwap, Current, Wrote, LeaseRecord
    <3>2. lease[mt.op].state \in {"intervention", "maintenanceBound"}
      BY <1>1, <3>1 DEF LeasesInv, OwnershipInv, ResolverOwns, Known, Resolver
    <3>3. lock = mt.op => mt.op \in held /\ p.state # "closed"
      BY <1>3, <2>4, <3>2 DEF LeasesInv, LockFreed
    <3>4. LockKept'
      <4>1. CASE lock = mt.op
        BY <1>1, <2>1, <2>4, <3>1, <3>3, <4>1 DEF LockKept, Unresolved
      <4>2. CASE lock # mt.op
        BY <1>1, <2>1, <3>1, <4>2 DEF LeasesInv, LockKept, Unresolved, Wrote
      <4> QED  BY <4>1, <4>2
    <3>5. \A o \in Ops : lease'[o].state = "recoveryBound" =>
            lease[o].state = "recoveryBound" /\ lease'[o].token = lease[o].token
      BY <2>4, <3>1 DEF Wrote
    <3>6. rec'.pc # "idle" =>
           \/ lease'[rec'.op].state # "closed"
           \/ rec.pc # "idle" /\ rec'.op = rec.op /\ lease[rec.op].state = "closed"
           \/ host'.op # rec'.op
      <4>1. CASE rec.op = mt.op
        BY <1>1, <2>1, <2>4, <3>1, <4>1 DEF LeasesInv, HostGone
      <4>2. CASE rec.op # mt.op /\ rec.pc # "idle"
        BY <1>1, <3>1, <4>2 DEF Wrote, LeasesInv, OwnershipInv, TypeOK, WorkerOK
      <4> QED  BY <1>1, <4>1, <4>2
    <3>7. GrantKept' /\ FencingAgrees' /\ HostGone'
      BY <1>1, <2>1, <2>2, <3>5, <3>6, HostStays
    <3> QED  BY <1>1, <2>1, <2>2, <3>4, <3>7, LockFreedStays DEF LeasesInv
  <2>5. CASE ResolverSwap
    <3>0. mt.row.token + 1 \in Nat
      BY <1>1 DEF LeaseRecord, Tokens
    <3>1. [mt.row EXCEPT !.state = "maintenanceBound", !.authority = "maintenance",
                         !.token = mt.row.token + 1] \in LeaseRecord
      BY <1>1, <3>0 DEF LeaseRecord, LeaseStates, Authorities, Tokens
    <3> QED  BY <1>1, <2>3, <2>4, <2>5, <3>1 DEF ResolverSwap, LeaseRecord
  <2>6. CASE ResolverEvidence
    <3>1. /\ [mt.row EXCEPT !.outcome = mt.out] \in LeaseRecord
          /\ mt.row.state = "maintenanceBound"
      BY <1>1, <2>6 DEF LeaseRecord, Resolver, ResolverEvidence, LeasesInv, OwnershipInv,
         ResolverOwns
    <3> QED  BY <1>1, <2>3, <2>4, <2>6, <3>1 DEF ResolverEvidence, LeaseRecord
  <2>7. CASE ResolverClose
    <3>1. [mt.row EXCEPT !.state = "closed"] \in LeaseRecord
      BY <1>1 DEF LeaseRecord, LeaseStates
    <3> QED  BY <1>1, <2>3, <2>4, <2>7, <3>1 DEF ResolverClose, LeaseRecord
  <2> QED  BY <1>5, <2>5, <2>6, <2>7
<1> QED  BY <1>4, <1>5

LEMMA EnvironmentLeases ==
  ASSUME LeasesInv, OwnershipInv', EnvironmentStep \/ UNCHANGED vars
  PROVE  LeasesInv'
<1>1. CASE UNCHANGED <<lease, fg, rec, mt, lock, held>> /\ (host' = host \/ host'.op = NoOp)
  <2>1. LockKept' /\ LockFreed'
    BY <1>1, LockFreedStays DEF LeasesInv, LockKept, Unresolved
  <2>2. GrantKept' /\ FencingAgrees' /\ HostGone'
    BY <1>1, HostStays DEF LeasesInv, HostGone
  <2> QED  BY <2>1, <2>2 DEF LeasesInv
<1>2. CASE Crash
  <2>1. /\ UNCHANGED <<lease, host>> /\ fg'.pc = "idle" /\ rec'.pc = "idle" /\ mt'.pc = "idle"
        /\ lock' = NoOp
    BY <1>2 DEF Crash, keepStore, keepHost, NoSession, NoRun, NoResolve
  <2>2. GrantKept' /\ FencingAgrees' /\ HostGone'
    BY <2>1, HostStays
  <2> QED  BY <2>1, <2>2, LockLost DEF LeasesInv
<1> QED
  BY <1>1, <1>2 DEF EnvironmentStep, DeviceExecutes, DeviceRejects, CustomerTakes,
     CommandTimesOut, HostLeaseExpires, HostRestarts, NoHostLease, keepStore, keepHost, vars

LEMMA LeasesStep == LeasesInv /\ [Next]_vars => LeasesInv'
<1> SUFFICES ASSUME LeasesInv, [Next]_vars
             PROVE  LeasesInv'
  OBVIOUS
<1>1. OwnershipInv'
  BY OwnershipStep DEF LeasesInv
<1>2. CASE SessionStep
  BY <1>1, <1>2, StartLeases, CreateLeaseLeases, AcquireLeases, QuietSessionLeases,
     UpdateLeases, CloseLeaseLeases, ReleaseHostLeaseLeases, ReleaseLockLeases,
     AcceptTransferLeases, TransferTransitionLeases, TransferBindLeases, LeaveLeases
     DEF SessionStep
<1>3. CASE RecoveryStep
  BY <1>1, <1>3, RunStartsLeases, BindLeases, BindSwapLeases, QuietRunLeases,
     ReleaseResourcesLeases DEF RecoveryStep
<1>4. CASE ResolverStep
  BY <1>1, <1>4, ResolveLeases, ResolverLeases DEF ResolverStep
<1> QED  BY <1>1, <1>2, <1>3, <1>4, EnvironmentLeases DEF Next

LEMMA LeasesInit == Init => LeasesInv
  BY OwnershipInit DEF Init, LeasesInv, LockKept, LockFreed, GrantKept, FencingAgrees, HostGone,
     NoSession, NoRun, NoResolve, NoLease

(* The device lock, the rows and the host lease tell one story, for any    *)
(* number of operations, crashes, lost answers and host restarts: the lock *)
(* is held for an unresolved row only, and a row that is bound to recovery *)
(* is fenced by the host lease of its own token.                           *)
THEOREM LeasesAreConsistent == Spec => []LeasesAgree
<1>1. Init => LeasesInv
  BY LeasesInit
<1>2. LeasesInv /\ [Next]_vars => LeasesInv'
  BY LeasesStep
<1>3. LeasesInv => LeasesAgree
  BY DEF LeasesInv, LeasesAgree, OwnershipInv, LockKept, LockImpliesUnresolved, Unresolved
<1> QED  BY <1>1, <1>2, <1>3, PTL DEF Spec
-----------------------------------------------------------------------------
(* Where the notes are.                                                    *)
Dispensing(o) == dev.cmd = "dispense" /\ dev.op = o

(* Nothing moves for an operation that has no row yet.                     *)
Untouched == \A o \in Ops : lease[o].state = "absent" => cash[o] = "vault" /\ ~Dispensing(o)

(* The present status tells the slot from the stacker.                     *)
ShownOK == (~slotEmpty => dev.shown) /\ (~stackerEmpty => ~dev.shown)

(* A session past its preparation has left the phase planning, in its row  *)
(* too once it hands it over.                                              *)
Phased ==
  /\ fg.pc \in {"ready", "dispense", "dispensed", "present", "presented", "retract", "finish",
                "transfer"} => fg.phase # "planning"
  /\ fg.pc \in Transferring => fg.row.phase # "planning"
  /\ fg.pc = "dispensed" => fg.phase = "staged"
  /\ fg.pc = "presented" => fg.phase = "awaitingTake"
  /\ fg.pc = "retract" => fg.phase = "retracting"

(* A dispense that may still run keeps the host lease of its session, or   *)
(* its row says that notes may be on their way.                            *)
DispenseHeld ==
  \A o \in Ops : Dispensing(o) /\ Unresolved(o) =>
    (host.op = o /\ host.authority = "transaction") \/ lease[o].phase # "planning"

(* What the session concludes from the answers it got.                     *)
Waits(who) == dev.by = who
Executed == dev.cmd = "none" /\ dev.reply = "ok"
Settled(o) == ~InTransport(o) /\ ~Dispensing(o)
Unmoved ==
  /\ fg.pc \in {"create", "acquire", "before"} \/ fg.phase = "planned" => ~fg.moved
  /\ fg.pc # "idle" /\ ~fg.moved => cash[fg.op] = "vault" /\ ~Dispensing(fg.op)
Asked ==
  /\ Waits("session") =>
       /\ fg.pc \in {"dispense", "present", "retract"}
       /\ dev.cmd \in {"none", fg.pc}
       /\ dev.cmd # "none" => dev.op = fg.op
  /\ Waits("recovery") => rec.pc = "retracting" /\ dev.cmd \in {"none", "retract"}
DispenseKnown ==
  /\ fg.pc = "dispense" /\ Waits("session") =>
       cash[fg.op] = IF Executed THEN "stacker" ELSE "vault"
  /\ fg.phase = "staged" /\ fg.pc \in {"dispensed", "ready"} =>
       cash[fg.op] = "stacker" /\ dev.cmd = "none"
PresentKnown ==
  /\ fg.pc = "present" /\ Waits("session") =>
       IF Executed THEN cash[fg.op] \in {"slot", "customer"}
                   ELSE cash[fg.op] = "stacker"
  /\ fg.phase = "awaitingTake" /\ fg.pc \in {"presented", "ready"} =>
       cash[fg.op] \in {"slot", "customer"} /\ dev.cmd = "none"
RetractKnown ==
  fg.pc = "retract" /\ Waits("session") /\ Executed => ~InTransport(fg.op)
OutcomeKnown ==
  fg.pc \in {"finish", "close"} =>
    /\ fg.out # "none"
    /\ fg.out = "taken" => cash[fg.op] = "customer" /\ ~Dispensing(fg.op)
    /\ fg.out = "retracted" => Settled(fg.op)
    /\ fg.out = "notDispensed" => ~fg.moved

(* What a recovery run concludes.                                          *)
RunKnown ==
  /\ Waits("recovery") /\ Executed => ~InTransport(rec.op)
  /\ rec.pc \in {"snapshot", "release", "close"} /\ ~rec.retain /\ rec.obs # "taken" =>
       Settled(rec.op)

NotesInv ==
  /\ LeasesInv /\ Untouched /\ ShownOK /\ Phased /\ DispenseHeld
  /\ Unmoved /\ Asked /\ DispenseKnown /\ PresentKnown /\ RetractKnown /\ OutcomeKnown
  /\ RunKnown /\ CustodyIsOwned

(* What a step does with the row of o.                                     *)
Created(o) == fg.pc = "create" /\ fg.op = o /\ lease[o].state = "absent"
              /\ lease'[o].state = "transactionBound"
Patched(o) ==
  /\ Unresolved(o) /\ lease'[o].state \notin {"absent", "closed"}
  /\ lease'[o].phase = lease[o].phase \/ (o = fg.op /\ lease'[o].phase = fg.phase
         /\ fg.pc \in {"ready", "dispensed", "presented", "transfer"})
Closed(o) ==
  /\ Unresolved(o) /\ lease'[o].state = "closed"
  /\ \/ /\ o = fg.op /\ fg.pc = "close"
        /\ lease'[o].outcome = fg.out /\ lease'[o].authority = "transaction"
     \/ /\ o = rec.op /\ rec.pc = "close"
        /\ lease'[o].outcome = rec.obs /\ lease'[o].authority = "recovery"
     \/ lease'[o].authority = "maintenance"
RowStep(o) == lease'[o] = lease[o] \/ Created(o) \/ Patched(o) \/ Closed(o)

(* A step writes one row, and only a row that is absent or unresolved.     *)
LEMMA OneRowWritten ==
  ASSUME NEW o \in Ops, Wrote(o), RowStep(o), NEW q \in Ops
  PROVE  RowStep(q)
<1>1. CASE q = o
  BY <1>1
<1>2. CASE q # o
  BY SMTT(40), <1>2 DEF Wrote, RowStep
<1> QED  BY <1>1, <1>2

LEMMA SessionRow ==
  ASSUME OwnershipInv, SessionStep, NEW o \in Ops
  PROVE  RowStep(o)
<1>1. CASE UNCHANGED lease
  BY <1>1 DEF RowStep
<1>2. fg \in Session /\ (fg.pc \in Working => fg.op \in Ops /\ lease[fg.op] \in LeaseRecord)
      /\ lease \in [Ops -> LeaseRecord]
  BY AtWork DEF OwnershipInv, TypeOK, SessionOK
<1>3. CASE CreateLease /\ create(fg.op)
  <2>1. fg.pc = "create" /\ fg.op \in Ops /\ lease[fg.op].state = "absent"
    BY <1>2, <1>3 DEF CreateLease, at, Working, SessionSteps, OwnershipInv, SessionOwns
  <2>2. Wrote(fg.op) /\ lease'[fg.op].state = "transactionBound"
    BY <1>2, <1>3, <2>1 DEF create, Wrote, NoLease
  <2>3. RowStep(fg.op)
    BY <2>1, <2>2 DEF RowStep, Created
  <2> QED  BY <2>1, <2>2, <2>3, OneRowWritten
<1>4. ASSUME fg.pc \in {"ready", "dispensed", "presented"}, update(fg.op, fg.phase)
      PROVE  RowStep(o)
  <2>1. fg.pc \in Owning /\ fg.op \in Ops /\ lease[fg.op].state = "transactionBound"
    BY <1>2, <1>4 DEF Owning, Working, SessionSteps, OwnershipInv, SessionOwns
  <2>2. RowStep(fg.op) /\ Wrote(fg.op)
    BY <1>4, <2>1, UpdateRow DEF RowStep, Patched, Unresolved
  <2> QED  BY <2>1, <2>2, OneRowWritten
<1>5. CASE CloseLease
  <2>1. /\ fg.pc = "close" /\ fg.op \in Ops /\ lease[fg.op].state = "transactionBound"
        /\ lease[fg.op].authority = "transaction"
    BY <1>2, <1>5 DEF CloseLease, at, Working, SessionSteps, OwnershipInv, SessionOwns, Owning
  <2>2. CASE compareAndSwap(fg.op, lease[fg.op],
               [lease[fg.op] EXCEPT !.state = "closed", !.outcome = fg.out])
    <3>1. /\ Wrote(fg.op) /\ lease'[fg.op].state = "closed" /\ lease'[fg.op].outcome = fg.out
          /\ lease'[fg.op].authority = "transaction"
      BY <1>2, <2>1, <2>2 DEF compareAndSwap, Wrote, LeaseRecord, Working, SessionSteps
    <3>2. RowStep(fg.op)
      BY <2>1, <3>1 DEF RowStep, Closed, Unresolved
    <3> QED  BY <2>1, <3>1, <3>2, OneRowWritten
  <2> QED  BY <1>1, <1>5, <2>2 DEF CloseLease
<1>6. CASE AcceptTransfer
  <2>1. fg.pc = "transfer" /\ fg.op \in Ops /\ lease[fg.op].state = "transactionBound"
    BY <1>2, <1>6 DEF AcceptTransfer, at, Working, SessionSteps, OwnershipInv, SessionOwns, Owning
  <2>2. CASE compareAndSwap(fg.op, lease[fg.op],
                [lease[fg.op] EXCEPT !.state = "transferPending",
                                     !.pending = lease[fg.op].token + 1, !.phase = fg.phase])
    <3>1. /\ Wrote(fg.op) /\ lease'[fg.op].state = "transferPending"
          /\ lease'[fg.op].phase = fg.phase
      BY <1>2, <2>1, <2>2 DEF compareAndSwap, Wrote, LeaseRecord, Working, SessionSteps
    <3>2. RowStep(fg.op)
      BY <2>1, <3>1 DEF RowStep, Patched, Unresolved
    <3> QED  BY <2>1, <3>1, <3>2, OneRowWritten
  <2> QED  BY <1>1, <1>6, <2>2 DEF AcceptTransfer
<1>7. CASE TransferBind
  <2>1. fg.pc = "bind" /\ fg.op \in Ops /\ lease[fg.op].state = "transferPending"
        /\ fg.row = lease[fg.op] /\ lease[fg.op] \in LeaseRecord
    BY <1>2, <1>7 DEF TransferBind, at, Working, SessionSteps, OwnershipInv, SessionOwns,
       Transferring
  <2>2. CASE compareAndSwap(fg.op, fg.row, bound(fg.row, fg.row.pending))
    <3>1. /\ Wrote(fg.op) /\ lease'[fg.op].state = "recoveryBound"
          /\ lease'[fg.op].phase = lease[fg.op].phase
      BY <1>2, <2>1, <2>2 DEF compareAndSwap, Wrote, LeaseRecord, bound
    <3>2. RowStep(fg.op)
      BY <2>1, <3>1 DEF RowStep, Patched, Unresolved
    <3> QED  BY <2>1, <3>1, <3>2, OneRowWritten
  <2> QED  BY <1>1, <1>7, <2>2 DEF TransferBind
<1>8. CASE DispensePersisted \/ PresentPersisted
  BY <1>1, <1>4, <1>8 DEF DispensePersisted, PresentPersisted, UpdateAfter, at
<1>9. CASE Exit
  BY <1>1, <1>4, <1>9 DEF Exit, at
<1> QED
  BY <1>1, <1>3, <1>5, <1>6, <1>7, <1>8, <1>9 DEF SessionStep, Start, CreateLease,
     AcquireHostLease, PersistBefore, Dispense, DispenseReturns, Present, PresentReturns,
     TakeConfirmed, TakeTimesOut, Abort, RetractReturns, Finish, ReleaseHostLease, ReleaseLock,
     TransferTransition, Leave, keepStore

(* A swap by recovery or by the operator, of the row as it is.             *)
LEMMA SwapRow ==
  ASSUME lease \in [Ops -> LeaseRecord], NEW p \in Ops, lease[p].rev \in Nat,
         NEW r \in LeaseRecord, compareAndSwap(p, lease[p], r), Unresolved(p),
         NEW o \in Ops,
         \/ r.state \notin {"absent", "closed"} /\ r.phase = lease[p].phase
         \/ r.state = "closed" /\ r.authority = "maintenance"
         \/ /\ r.state = "closed" /\ r.authority = "recovery" /\ p = rec.op /\ rec.pc = "close"
            /\ r.outcome = rec.obs
  PROVE  RowStep(o)
<1>1. /\ Wrote(p) /\ lease'[p].state = r.state /\ lease'[p].authority = r.authority
      /\ lease'[p].phase = r.phase /\ lease'[p].outcome = r.outcome
  BY DEF compareAndSwap, Wrote, LeaseRecord
<1>2. RowStep(p)
  BY <1>1 DEF RowStep, Patched, Closed
<1> QED  BY <1>1, <1>2, OneRowWritten

LEMMA RecoveryRow ==
  ASSUME OwnershipInv, RecoveryStep, NEW o \in Ops
  PROVE  RowStep(o)
<1>1. CASE UNCHANGED lease
  BY <1>1 DEF RowStep
<1>2. /\ lease \in [Ops -> LeaseRecord] /\ rec \in Worker /\ rec.row \in LeaseRecord
      /\ rec.pc # "idle" => rec.op \in Ops
  BY DEF OwnershipInv, TypeOK, WorkerOK, Worker
<1>3. ASSUME NEW r \in LeaseRecord, compareAndSwap(rec.op, rec.row, r), rec.pc # "idle",
             \/ r.state \notin {"absent", "closed"} /\ r.phase = rec.row.phase
             \/ /\ r.state = "closed" /\ r.authority = "recovery" /\ rec.pc = "close"
                /\ r.outcome = rec.obs
      PROVE  RowStep(o)
  <2>1. rec.row.rev = lease[rec.op].rev
    BY <1>3 DEF compareAndSwap, Current
  <2>2. rec.row = lease[rec.op] /\ Unresolved(rec.op)
    BY <1>3, <2>1, RunCurrent
  <2>3. lease[rec.op].rev \in Nat /\ rec.op \in Ops
    BY <1>2, <1>3 DEF LeaseRecord
  <2> QED  BY <1>2, <1>3, <2>2, <2>3, SwapRow
<1>4. CASE BindSwap
  <2> DEFINE row == bound(rec.row, nextToken(rec.row))
  <2>1. nextToken(rec.row) \in Nat
    BY <1>2 DEF nextToken, LeaseRecord, Tokens
  <2>2. row \in LeaseRecord /\ row.state = "recoveryBound" /\ row.phase = rec.row.phase
    BY <1>2, <2>1 DEF bound, LeaseRecord, LeaseStates, Authorities, Tokens
  <2> QED  BY <1>1, <1>3, <1>4, <2>2 DEF BindSwap, swapOr
<1>5. [rec.row EXCEPT !.state = "intervention"] \in LeaseRecord
  BY <1>2 DEF LeaseRecord, LeaseStates
<1>6. CASE Deadline \/ EnterIntervention
  <2>1. CASE compareAndSwap(rec.op, rec.row, [rec.row EXCEPT !.state = "intervention"])
    <3>1. rec.pc # "idle"
      BY <1>6 DEF Deadline, EnterIntervention
    <3> QED  BY <1>2, <1>3, <1>5, <2>1, <3>1 DEF LeaseRecord
  <2> QED  BY <1>1, <1>6, <2>1 DEF Deadline, EnterIntervention
<1>7. CASE CaptureAfterSnapshot
  <2>1. CASE compareAndSwap(rec.op, rec.row, [rec.row EXCEPT !.outcome = rec.obs])
    <3>1. rec.pc = "snapshot" /\ rec.obs \in Outcomes
      BY <1>7 DEF CaptureAfterSnapshot, OwnershipInv, TypeOK, WorkerOK
    <3>2. [rec.row EXCEPT !.outcome = rec.obs] \in LeaseRecord
      BY <1>2, <3>1 DEF LeaseRecord
    <3>3. rec.row.state \in {"recoveryBound", "intervention"}
      BY <3>1 DEF OwnershipInv, RunOwns
    <3> QED  BY <1>2, <1>3, <2>1, <3>1, <3>2, <3>3 DEF LeaseRecord
  <2> QED  BY <1>1, <1>2, <1>7, <2>1 DEF CaptureAfterSnapshot, keepStore, Worker
<1>8. CASE CloseRecovered
  <2>1. /\ rec.pc = "close" /\ rec.obs \in Outcomes /\ rec.row.authority = "recovery"
    BY <1>8 DEF CloseRecovered, OwnershipInv, TypeOK, WorkerOK, RunOwns, RowAuthority
  <2>2. CASE compareAndSwap(rec.op, rec.row, [rec.row EXCEPT !.state = "closed", !.outcome = rec.obs])
    <3>1. [rec.row EXCEPT !.state = "closed", !.outcome = rec.obs] \in LeaseRecord
      BY <1>2, <2>1 DEF LeaseRecord, LeaseStates
    <3> QED  BY <1>2, <1>3, <2>1, <2>2, <3>1 DEF LeaseRecord
  <2> QED  BY <1>1, <1>8, <2>2 DEF CloseRecovered
<1> QED  BY <1>1, <1>4, <1>6, <1>7, <1>8 DEF RecoveryStep, RunStarts, Bind, Observe,
         RecoveryRetract, RecoveryRetractReturns, ReleaseResources, keepStore

LEMMA ResolverRow ==
  ASSUME OwnershipInv, ResolverStep, NEW o \in Ops
  PROVE  RowStep(o)
<1>1. CASE UNCHANGED lease
  BY <1>1 DEF RowStep
<1>2. /\ lease \in [Ops -> LeaseRecord] /\ mt \in Resolver /\ mt.row \in LeaseRecord
      /\ mt.pc # "idle" => mt.op \in Ops
  BY DEF OwnershipInv, TypeOK, ResolverOK, Resolver
<1>3. ASSUME NEW r \in LeaseRecord, compareAndSwap(mt.op, mt.row, r), mt.pc # "idle",
             \/ r.state = "maintenanceBound" /\ r.phase = mt.row.phase
             \/ r.state = "closed" /\ r.authority = "maintenance"
      PROVE  RowStep(o)
  <2>1. mt.row = lease[mt.op] /\ Unresolved(mt.op)
    BY <1>2, <1>3 DEF OwnershipInv, ResolverOwns, Known, Resolver, compareAndSwap, Current,
       Unresolved
  <2>2. lease[mt.op].rev \in Nat /\ mt.op \in Ops
    BY <1>2, <1>3 DEF LeaseRecord
  <2> QED  BY <1>2, <1>3, <2>1, <2>2, SwapRow
<1>4. CASE ResolverSwap
  <2>1. mt.row.token + 1 \in Nat
    BY <1>2 DEF LeaseRecord, Tokens
  <2>2. [mt.row EXCEPT !.state = "maintenanceBound", !.authority = "maintenance",
                       !.token = mt.row.token + 1] \in LeaseRecord
    BY <1>2, <2>1 DEF LeaseRecord, LeaseStates, Authorities, Tokens
  <2> QED  BY <1>1, <1>2, <1>3, <1>4, <2>2 DEF ResolverSwap, LeaseRecord
<1>5. CASE ResolverEvidence
  <2>1. [mt.row EXCEPT !.outcome = mt.out] \in LeaseRecord /\ mt.row.state = "maintenanceBound"
    BY <1>2, <1>5 DEF LeaseRecord, Resolver, ResolverEvidence, OwnershipInv, ResolverOwns
  <2> QED  BY <1>1, <1>2, <1>3, <1>5, <2>1 DEF ResolverEvidence, LeaseRecord
<1>6. CASE ResolverClose
  <2>1. [mt.row EXCEPT !.state = "closed"] \in LeaseRecord /\ mt.row.authority = "maintenance"
    BY <1>2, <1>6 DEF LeaseRecord, LeaseStates, ResolverClose, OwnershipInv, ResolverOwns,
       RowAuthority
  <2> QED  BY <1>1, <1>2, <1>3, <1>6, <2>1 DEF ResolverClose, LeaseRecord
<1> QED  BY <1>1, <1>4, <1>5, <1>6 DEF ResolverStep, Resolve, ResolverRelease, keepStore

(* A row is created by its session, patched while it is unresolved, closed *)
(* once, and never written again.                                          *)
LEMMA RowSteps ==
  ASSUME OwnershipInv, [Next]_vars, NEW o \in Ops
  PROVE  RowStep(o)
<1>1. CASE UNCHANGED lease
  BY <1>1 DEF RowStep
<1> QED  BY <1>1, SessionRow, RecoveryRow, ResolverRow DEF Next, EnvironmentStep,
         DeviceExecutes, DeviceRejects, CustomerTakes, CommandTimesOut, HostLeaseExpires,
         HostRestarts, Crash, keepStore, vars

(* What a step does with the notes of o: they leave the vault by a         *)
(* dispense for o, and only the session that holds the host lease orders   *)
(* one.                                                                    *)
Ordered ==
  /\ fg.pc = "ready" /\ fg.phase = "planned"
  /\ host.op = fg.op /\ host.authority = "transaction"
  /\ UNCHANGED <<lease, host>>
NoteStep(o) ==
  /\ cash'[o] = cash[o] \/ InTransport(o) \/ Dispensing(o)
  /\ cash'[o] \in {"stacker", "slot"} => InTransport(o) \/ Dispensing(o)
  /\ cash'[o] = "customer" => cash[o] \in {"slot", "customer"}
  /\ dev'.cmd = "dispense" /\ cash[o] = "vault" => cash'[o] = "vault"
  /\ dev'.cmd = "dispense" /\ dev'.op = o => Dispensing(o) \/ (o = fg.op /\ Ordered)

(* What a session step does with the dispenser.                            *)
Orders == \E c \in Commands : issue(c, fg.op, "session") /\ (c = "dispense" => Ordered)
Answered(who) == \E r \in {"ok", "failed", "error"} : answered(who, r)
LEMMA Sends ==
  ASSUME NEW c \in Commands, send(c), c = "dispense" => Ordered \/ ~authorized
  PROVE  UNCHANGED dev \/ Orders
  BY SMTT(40) DEF send, Orders

LEMMA SessionCommands ==
  ASSUME SessionStep
  PROVE  UNCHANGED cash /\ (UNCHANGED dev \/ Orders \/ Answered("session"))
<1>1. CASE Dispense
  <2>1. authorized => Ordered
    BY <1>1 DEF Dispense, ready, at, authorized, hostHolds, Ordered, keepHost
  <2> QED  BY <1>1, <2>1, Sends DEF Dispense, keepWorld, Commands
<1>2. CASE Present
  BY <1>2, Sends DEF Present, keepWorld, Commands
<1>3. ASSUME NEW recon, retract(recon)
      PROVE  UNCHANGED dev \/ Orders
  BY <1>3, Sends DEF retract, Commands
<1>4. CASE TakeTimesOut \/ Abort
  BY <1>3, <1>4 DEF TakeTimesOut, Abort, keepWorld
<1>5. CASE DispenseReturns \/ PresentReturns \/ RetractReturns
  BY <1>5 DEF DispenseReturns, PresentReturns, RetractReturns, keepWorld, Answered
<1> QED
  BY <1>1, <1>2, <1>4, <1>5 DEF SessionStep, Start, CreateLease,
     AcquireHostLease, PersistBefore, DispensePersisted, PresentPersisted, UpdateAfter,
     TakeConfirmed, Finish, CloseLease, ReleaseHostLease, ReleaseLock,
     Exit, AcceptTransfer, TransferTransition, TransferBind, Leave, keepWorld

LEMMA RecoveryCommands ==
  ASSUME RecoveryStep
  PROVE  /\ UNCHANGED <<cash, fg>>
         /\ UNCHANGED dev \/ issue("retract", rec.op, "recovery") \/ Answered("recovery")
  BY DEF RecoveryStep, RunStarts, Bind, BindSwap, Deadline, Observe, RecoveryRetract,
     RecoveryRetractReturns, CaptureAfterSnapshot, ReleaseResources, CloseRecovered,
     EnterIntervention, keepSession, Answered

LEMMA ResolverCommands == ResolverStep => UNCHANGED <<cash, dev, fg, rec>>
  BY DEF ResolverStep, Resolve, ResolverSwap, ResolverEvidence, ResolverRelease, ResolverClose,
     keepSession

LEMMA AnswerMoves ==
  ASSUME DeviceOK, NEW who \in {"session", "recovery"}, Answered(who)
  PROVE  /\ dev'.cmd = dev.cmd /\ dev'.shown = dev.shown
         /\ dev' = dev \/ (dev.cmd = "none" /\ dev'.by = "nobody" /\ dev'.reply = "none")
         /\ dev'.by # who
  BY DEF DeviceOK, Device, Answered, answered

LEMMA NotesMove ==
  ASSUME TypeOK, [Next]_vars, NEW o \in Ops
  PROVE  NoteStep(o)
<1>1. dev \in Device /\ cash \in [Ops -> Places]
  BY DEF TypeOK, DeviceOK
<1>2. CASE UNCHANGED <<cash, dev>>
  BY <1>2 DEF NoteStep, Dispensing, InTransport
<1>3. ASSUME UNCHANGED cash, NEW who \in {"session", "recovery"}, Answered(who)
      PROVE  NoteStep(o)
  BY <1>3, AnswerMoves DEF TypeOK, NoteStep, Dispensing, InTransport
<1>4. CASE UNCHANGED cash /\ Orders
  BY <1>1, <1>4 DEF Orders, issue, Device, NoteStep, InTransport
<1>5. CASE UNCHANGED cash /\ issue("retract", rec.op, "recovery")
  BY <1>1, <1>5 DEF issue, Device, NoteStep, InTransport
<1>6. CASE UNCHANGED cash /\ (DeviceRejects \/ CommandTimesOut \/ HostRestarts \/ Crash)
  BY ZenonT(60), <1>1, <1>6 DEF DeviceRejects, CommandTimesOut, HostRestarts, Crash, Answer, forgotten,
     NoCommand, Device, NoteStep, Dispensing, InTransport
<1>7. CASE DeviceExecutes
  <2>1. dev'.cmd = "none"
    BY <1>1, <1>7 DEF DeviceExecutes, Answer, Device
  <2>2. cash'[o] = cash[o] \/ InTransport(o) \/ Dispensing(o)
    BY <1>1, <1>7 DEF DeviceExecutes, Moved, Device, Commands, InTransport, Dispensing
  <2>3. cash'[o] \in {"stacker", "slot"} => InTransport(o) \/ Dispensing(o)
    BY <1>1, <2>2 DEF InTransport
  <2>4. cash'[o] = "customer" => cash[o] \in {"slot", "customer"}
    BY <1>1, <1>7 DEF DeviceExecutes, Moved, Device, Commands, InTransport
  <2> QED  BY <2>1, <2>2, <2>3, <2>4 DEF NoteStep
<1>8. CASE CustomerTakes
  BY <1>1, <1>8 DEF CustomerTakes, NoteStep, InTransport, Dispensing
<1>9. CASE SessionStep
  BY <1>2, <1>3, <1>4, <1>9, SessionCommands
<1>10. CASE RecoveryStep
  BY <1>2, <1>3, <1>5, <1>10, RecoveryCommands
<1>11. CASE EnvironmentStep
  BY <1>2, <1>6, <1>7, <1>8, <1>11 DEF EnvironmentStep, DeviceRejects, CommandTimesOut,
     HostRestarts, Crash, HostLeaseExpires
<1> QED  BY <1>2, <1>9, <1>10, <1>11, ResolverCommands DEF Next, vars

(* Notes at rest stay where they are, unless their session dispenses.      *)
LEMMA SettledStays ==
  ASSUME NEW o \in Ops, NoteStep(o), Settled(o), o = fg.op => ~Ordered
  PROVE  cash'[o] = cash[o] /\ ~(dev'.cmd = "dispense" /\ dev'.op = o)
  BY DEF NoteStep, Settled

LEMMA UntouchedStep ==
  ASSUME NotesInv, [Next]_vars
  PROVE  Untouched'
<1> SUFFICES ASSUME NEW o \in Ops, lease'[o].state = "absent"
             PROVE  cash'[o] = "vault" /\ ~(dev'.cmd = "dispense" /\ dev'.op = o)
  BY DEF Untouched, Dispensing
<1> USE DEF NotesInv, LeasesInv
<1>1. RowStep(o) /\ NoteStep(o)
  BY RowSteps, NotesMove DEF OwnershipInv
<1>2. lease[o].state = "absent"
  BY <1>1 DEF RowStep, Created, Patched, Closed
<1>3. cash[o] = "vault" /\ ~Dispensing(o)
  BY <1>2 DEF Untouched
<1>4. o = fg.op => ~Ordered
  BY <1>2 DEF Ordered, OwnershipInv, SessionOwns, Owning
<1> QED  BY <1>1, <1>3, <1>4, SettledStays DEF Settled, InTransport

(* A row is not closed over notes that are on their way, unless by the     *)
(* ways that CustodyIsOwned names.                                         *)
LEMMA ClosedOwned ==
  ASSUME NotesInv, [Next]_vars, NEW o \in Ops, Closed(o)
  PROVE  \/ Settled(o) /\ (o = fg.op => ~Ordered)
         \/ lease'[o].outcome = "custodyUnknown" \/ lease'[o].authority = "maintenance"
         \/ lease'[o].outcome = "taken" /\ lease'[o].authority = "recovery"
<1> USE DEF NotesInv, LeasesInv
<1>1. CASE o = fg.op /\ fg.pc = "close" /\ lease'[o].outcome = fg.out
  <2>1. fg.out \in Outcomes
    BY <1>1 DEF OutcomeKnown, OwnershipInv, TypeOK, SessionOK, Session
  <2>2. fg.out # "custodyUnknown" => Settled(o)
    BY <1>1, <2>1 DEF Outcomes, OutcomeKnown, Unmoved, Settled, InTransport
  <2> QED  BY <1>1, <2>2 DEF Ordered
<1>2. CASE /\ o = rec.op /\ rec.pc = "close"
           /\ lease'[o].outcome = rec.obs /\ lease'[o].authority = "recovery"
  <2>1. ~rec.retain
    BY <1>2 DEF OwnershipInv, RunOwns
  <2>2. rec.obs # "taken" => Settled(o)
    BY <1>2, <2>1 DEF RunKnown
  <2>3. o = fg.op => ~Ordered
    BY <1>2 DEF Ordered, OwnershipInv, SessionAlone, Working, SessionSteps
  <2> QED  BY <1>2, <2>2, <2>3
<1> QED  BY <1>1, <1>2 DEF Closed

LEMMA CustodyIsOwnedStep ==
  ASSUME NotesInv, [Next]_vars
  PROVE  CustodyIsOwned'
<1> SUFFICES ASSUME NEW o \in Ops,
                    cash'[o] \in {"stacker", "slot"} \/ (dev'.cmd = "dispense" /\ dev'.op = o)
             PROVE  (Unresolved(o) \/ Disowned(o) \/ InferredTaken(o))'
  BY DEF CustodyIsOwned, InTransport
<1> USE DEF NotesInv, LeasesInv
<1>1. RowStep(o) /\ NoteStep(o)
  BY RowSteps, NotesMove DEF OwnershipInv
<1>2. CASE ~Settled(o)
  <2>1. Unresolved(o) \/ Disowned(o) \/ InferredTaken(o)
    BY <1>2 DEF Settled, Dispensing, CustodyIsOwned
  <2>2. ~Created(o)
    BY <2>1 DEF Created, Unresolved, Disowned, InferredTaken
  <2>3. CASE Closed(o)
    BY <1>2, <2>3, ClosedOwned DEF Closed, Disowned, InferredTaken
  <2> QED  BY <1>1, <2>1, <2>2, <2>3 DEF RowStep, Patched, Unresolved, Disowned, InferredTaken
<1>3. CASE Settled(o)
  <2>1. o = fg.op /\ Ordered
    BY <1>1, <1>3 DEF NoteStep, Settled, Dispensing
  <2>2. lease'[o].state = "transactionBound"
    BY <2>1 DEF Ordered, OwnershipInv, SessionOwns, Owning
  <2> QED  BY <2>2 DEF Unresolved
<1> QED  BY <1>2, <1>3

(* When the host lease changes hands.                                      *)
HostMoves ==
  \/ UNCHANGED host \/ host.op = NoOp \/ host.authority # "transaction"
  \/ dev.cmd = "none" \/ dev'.cmd = "none"
  \/ fg.pc \in {"release", "transition"} /\ host.op = fg.op
LEMMA HostSteps ==
  ASSUME [Next]_vars
  PROVE  HostMoves
<1> USE DEF HostMoves
<1>1. CASE SessionStep
  <2>1. authorized => host.op = fg.op
    BY DEF authorized, hostHolds
  <2>2. CASE AcquireHostLease
    BY <2>2 DEF AcquireHostLease, keepHost, hostFree
  <2>3. CASE ReleaseHostLease
    BY <2>1, <2>3 DEF ReleaseHostLease, at
  <2>4. CASE TransferTransition
    BY <2>1, <2>4 DEF TransferTransition, at, keepHost
  <2> QED
    BY <1>1, <2>2, <2>3, <2>4 DEF SessionStep, Start, CreateLease, PersistBefore, Dispense,
       DispenseReturns, DispensePersisted, Present, PresentReturns, PresentPersisted, UpdateAfter,
       TakeConfirmed, TakeTimesOut, Abort, RetractReturns, Finish, CloseLease,
       ReleaseLock, Exit, AcceptTransfer, TransferBind, Leave, keepHost
<1>2. CASE RecoveryStep
  <2>1. CASE Bind
    BY <2>1 DEF Bind, keepHost, hostFree
  <2>2. CASE ReleaseResources
    <3>1. hostHolds(rec.op, "recovery", rec.row.token) => host.authority # "transaction"
      BY DEF hostHolds
    <3> QED  BY <2>2, <3>1 DEF ReleaseResources
  <2> QED
    BY <1>2, <2>1, <2>2 DEF RecoveryStep, RunStarts, BindSwap, Deadline, Observe, RecoveryRetract,
       RecoveryRetractReturns, CaptureAfterSnapshot, CloseRecovered, EnterIntervention, keepHost
<1>3. CASE ResolverStep
  BY <1>3 DEF ResolverStep, Resolve, ResolverSwap, ResolverEvidence, ResolverRelease,
     ResolverClose, keepHost, hostHolds
<1>4. CASE EnvironmentStep
  BY <1>4 DEF EnvironmentStep, DeviceExecutes, DeviceRejects, CustomerTakes, CommandTimesOut,
     HostLeaseExpires, HostRestarts, Crash, keepHost, NoCommand
<1> QED  BY SMTT(40), <1>1, <1>2, <1>3, <1>4 DEF Next, vars

LEMMA DispenseHeldStep ==
  ASSUME NotesInv, [Next]_vars
  PROVE  DispenseHeld'
<1> SUFFICES ASSUME NEW o \in Ops, dev'.cmd = "dispense", dev'.op = o,
                    lease'[o].state \notin {"absent", "closed"}, lease'[o].phase = "planning"
             PROVE  host'.op = o /\ host'.authority = "transaction"
  BY DEF DispenseHeld, Dispensing, Unresolved
<1> USE DEF NotesInv, LeasesInv
<1>1. RowStep(o) /\ NoteStep(o) /\ HostMoves
  BY RowSteps, NotesMove, HostSteps DEF OwnershipInv
<1>2. CASE o = fg.op /\ Ordered
  BY <1>2 DEF Ordered
<1>3. CASE Dispensing(o)
  <2>1. ~Created(o) /\ ~Closed(o)
    BY <1>3 DEF Created, Closed, Untouched
  <2>2. Unresolved(o) /\ lease[o].phase = "planning"
    BY <1>1, <2>1 DEF RowStep, Patched, Unresolved, Phased
  <2>3. host.op = o /\ host.authority = "transaction"
    BY <1>3, <2>2 DEF DispenseHeld
  <2>4. fg.pc \in {"release", "transition"} => fg.op # o
    BY <2>2 DEF OwnershipInv, SessionOwns, Transferring, Unresolved, Phased
  <2> QED  BY <1>1, <1>3, <2>3, <2>4, OpsAssumption DEF HostMoves, Dispensing
<1> QED  BY <1>1, <1>2, <1>3 DEF NoteStep

LEMMA ShownOKStep ==
  ASSUME TypeOK, ShownOK, [Next]_vars
  PROVE  ShownOK'
<1>1. dev \in Device /\ cash \in [Ops -> Places]
  BY DEF TypeOK, DeviceOK
<1>2. CASE UNCHANGED cash /\ dev'.shown = dev.shown
  BY <1>2 DEF ShownOK, slotEmpty, stackerEmpty
<1>3. CASE UNCHANGED cash /\ (Orders \/ issue("retract", rec.op, "recovery"))
  BY <1>1, <1>2, <1>3 DEF Orders, issue, Device
<1>4. CASE UNCHANGED cash /\ (DeviceRejects \/ CommandTimesOut \/ HostRestarts \/ Crash)
  BY <1>1, <1>2, <1>4 DEF DeviceRejects, CommandTimesOut, HostRestarts, Crash, Answer, forgotten,
     NoCommand, Device
<1>5. CASE DeviceExecutes
  <2>1. dev'.shown = Shown(dev.cmd) /\ cash' = Moved(dev.cmd, dev.op) /\ Possible(dev.cmd)
        /\ dev.cmd \in Commands
    BY <1>1, <1>5 DEF DeviceExecutes, Answer, Device
  <2>2. CASE dev.cmd = "dispense"
    BY <1>1, <2>1, <2>2 DEF Shown, Moved, Possible, ShownOK, slotEmpty, stackerEmpty
  <2>3. CASE dev.cmd = "present"
    BY <1>1, <2>1, <2>3 DEF Shown, Moved, Possible, ShownOK, slotEmpty, stackerEmpty
  <2>4. CASE dev.cmd = "retract"
    BY <1>1, <2>1, <2>4 DEF Shown, Moved, Possible, ShownOK, slotEmpty, stackerEmpty, InTransport
  <2> QED  BY <2>1, <2>2, <2>3, <2>4 DEF Commands
<1>6. CASE CustomerTakes
  BY <1>1, <1>6 DEF CustomerTakes, ShownOK, slotEmpty, stackerEmpty
<1>7. ASSUME UNCHANGED cash, NEW who \in {"session", "recovery"}, Answered(who)
      PROVE  ShownOK'
  BY <1>2, <1>7, AnswerMoves DEF TypeOK
<1>8. CASE SessionStep
  BY <1>2, <1>3, <1>7, <1>8, SessionCommands
<1>9. CASE RecoveryStep
  BY <1>2, <1>3, <1>7, <1>9, RecoveryCommands
<1>10. CASE EnvironmentStep
  BY <1>2, <1>4, <1>5, <1>6, <1>10 DEF EnvironmentStep, DeviceRejects, CommandTimesOut,
     HostRestarts, Crash, HostLeaseExpires
<1> QED  BY <1>2, <1>8, <1>9, <1>10, ResolverCommands DEF Next, vars

(* What the session knows, for as long as it is at work.                   *)
SessionKnown ==
  Phased /\ Unmoved /\ Asked /\ DispenseKnown /\ PresentKnown /\ RetractKnown /\ OutcomeKnown
Asking == {"dispense", "present", "retract"}

LEMMA SessionFacts ==
  ASSUME NotesInv
  PROVE  /\ fg \in Session /\ rec \in Worker /\ dev \in Device /\ cash \in [Ops -> Places]
         /\ fg.pc # "idle" => fg.op \in Ops
         /\ fg.pc \notin Asking => ~Waits("session")
         /\ rec.pc # "retracting" => ~Waits("recovery")
         /\ Waits("session") => dev.by # "nobody"
  BY DEF NotesInv, LeasesInv, OwnershipInv, TypeOK, SessionOK, WorkerOK, DeviceOK, Asked, Asking,
     Waits

(* Steps between two commands.                                             *)
LEMMA SessionGoesOn ==
  ASSUME NotesInv, UNCHANGED <<cash, dev>>, rec'.pc = rec.pc,
         fg.pc \notin Asking, fg.pc # "idle", fg'.pc \notin Asking,
         fg'.op = fg.op, fg'.moved = fg.moved, Phased',
         fg'.pc \in {"create", "acquire", "before"} \/ fg'.phase = "planned" => ~fg.moved,
         fg'.phase = "staged" /\ fg'.pc \in {"dispensed", "ready"} =>
           fg.phase = "staged" /\ fg.pc \in {"dispensed", "ready"},
         fg'.phase = "awaitingTake" /\ fg'.pc \in {"presented", "ready"} =>
           fg.phase = "awaitingTake" /\ fg.pc \in {"presented", "ready"},
         fg'.pc \in {"finish", "close"} =>
           \/ fg.pc \in {"finish", "close"} /\ fg'.out = fg.out
           \/ fg'.out = "notDispensed" /\ ~fg.moved
           \/ fg'.out = "custodyUnknown"
           \/ fg'.out = "taken" /\ cash[fg.op] = "customer" /\ dev.cmd = "none"
  PROVE  SessionKnown'
<1> USE DEF NotesInv
<1>1. ~Waits("session") /\ dev'.by = dev.by
  BY SessionFacts
<1>2. Unmoved' /\ Asked'
  BY <1>1 DEF Unmoved, Asked, Waits, Dispensing
<1>3. DispenseKnown' /\ PresentKnown' /\ RetractKnown'
  BY <1>1 DEF DispenseKnown, PresentKnown, RetractKnown, Waits, Asking
<1>4. OutcomeKnown'
  BY DEF OutcomeKnown, Settled, InTransport, Dispensing
<1> QED  BY <1>2, <1>3, <1>4 DEF SessionKnown

LEMMA StartKnown ==
  ASSUME NotesInv, NEW o \in Ops, Start(o)
  PROVE  SessionKnown'
<1>1. /\ fg.pc = "idle" /\ UNCHANGED <<cash, dev, rec>> /\ lease[o].state = "absent"
      /\ fg'.pc = "create" /\ fg'.op = o /\ ~fg'.moved /\ fg'.phase = "planning"
  BY DEF Start, at, keepWorld, NoSession
<1>2. cash[o] = "vault" /\ ~Dispensing(o) /\ ~Waits("session")
  BY <1>1, SessionFacts DEF NotesInv, Untouched, Asking
<1> QED
  BY <1>1, <1>2 DEF SessionKnown, Phased, Unmoved, Asked, DispenseKnown, PresentKnown,
     RetractKnown, OutcomeKnown, Waits, Dispensing, NotesInv, Transferring

LEMMA SessionGone ==
  ASSUME NotesInv, UNCHANGED cash, dev' = dev \/ dev'.by = "nobody", rec' = rec,
         fg' = NoSession, fg.pc \notin Asking
  PROVE  SessionKnown'
<1>1. ~Waits("session")
  BY SessionFacts
<1> QED
  BY <1>1 DEF SessionKnown, Phased, Unmoved, Asked, DispenseKnown, PresentKnown,
     RetractKnown, OutcomeKnown, Waits, NotesInv, Transferring, NoSession

LEMMA PreparingKnown ==
  ASSUME NotesInv, CreateLease \/ AcquireHostLease \/ PersistBefore
  PROVE  SessionKnown'
<1>1. /\ fg.pc \in {"create", "acquire", "before"} /\ fg \in Session
      /\ UNCHANGED <<cash, dev, rec>> /\ ~fg.moved
  BY SessionFacts DEF CreateLease, AcquireHostLease, PersistBefore, at, keepWorld, NotesInv, Unmoved
<1>2. CASE fg' = NoSession
  BY <1>1, <1>2, SessionGone DEF Asking
<1>3. \/ fg' = NoSession
      \/ fg' = [fg EXCEPT !.pc = "acquire", !.token = lease'[fg.op].token]
      \/ fg' = [fg EXCEPT !.pc = "before"]
      \/ fg' = [fg EXCEPT !.pc = "ready", !.phase = "planned"]
      \/ fg' = [fg EXCEPT !.pc = "close", !.out = "notDispensed"]
  BY DEF CreateLease, AcquireHostLease, PersistBefore, goto
<1>4. ASSUME fg' # NoSession
      PROVE  SessionKnown'
  <2>1. /\ fg'.pc \in {"acquire", "before", "ready", "close"} /\ fg'.op = fg.op
        /\ fg'.moved = fg.moved
        /\ fg'.pc = "ready" => fg'.phase = "planned"
        /\ fg'.pc = "close" => fg'.out = "notDispensed"
    BY ZenonT(80), <1>1, <1>3, <1>4 DEF Session
  <2>2. Phased'
    BY <2>1 DEF Phased, Transferring
  <2> QED  BY <1>1, <2>1, <2>2, SessionGoesOn DEF Asking
<1> QED  BY <1>2, <1>4

LEMMA PersistedKnown ==
  ASSUME NotesInv, DispensePersisted \/ PresentPersisted
  PROVE  SessionKnown'
<1>1. /\ fg.pc \in {"dispensed", "presented"} /\ fg \in Session
      /\ UNCHANGED <<cash, dev, rec>>
      /\ fg' \in {[fg EXCEPT !.pc = "ready"],
                  [fg EXCEPT !.pc = "ready", !.phase = "reconciling", !.recon = TRUE]}
  BY SessionFacts DEF DispensePersisted, PresentPersisted, UpdateAfter, at, keepWorld, goto
<1>2. /\ fg'.pc = "ready" /\ fg'.op = fg.op /\ fg'.moved = fg.moved
      /\ fg'.phase \in {fg.phase, "reconciling"}
  BY ZenonT(60), <1>1 DEF Session
<1>3. fg.phase = IF fg.pc = "dispensed" THEN "staged" ELSE "awaitingTake"
  BY <1>1 DEF NotesInv, Phased
<1>4. Phased'
  BY <1>2, <1>3 DEF Phased, Transferring
<1> QED  BY <1>1, <1>2, <1>3, <1>4, SessionGoesOn DEF Asking

LEMMA TakeConfirmedKnown ==
  ASSUME NotesInv, TakeConfirmed
  PROVE  SessionKnown'
<1>1. /\ fg.pc = "ready" /\ fg.phase = "awaitingTake" /\ slotEmpty /\ fg \in Session
      /\ UNCHANGED <<cash, dev, rec>> /\ fg.op \in Ops
      /\ \E recon : fg' = [fg EXCEPT !.pc = "finish", !.out = "taken", !.recon = recon]
  BY SessionFacts DEF TakeConfirmed, ready, at, keepWorld
<1>2. /\ fg'.pc = "finish" /\ fg'.op = fg.op /\ fg'.moved = fg.moved
      /\ fg'.phase = fg.phase /\ fg'.out = "taken"
  BY <1>1 DEF Session
<1>3. cash[fg.op] = "customer" /\ dev.cmd = "none"
  BY <1>1 DEF NotesInv, PresentKnown, slotEmpty
<1>4. Phased'
  BY <1>1, <1>2 DEF Phased, Transferring
<1> QED  BY <1>1, <1>2, <1>3, <1>4, SessionGoesOn DEF Asking

(* From the end of the session's work, or its handing over, on.            *)
LEMMA EndingKnown ==
  ASSUME NotesInv,
         \/ Finish \/ CloseLease \/ ReleaseHostLease \/ ReleaseLock \/ Exit \/ AcceptTransfer
         \/ TransferTransition \/ TransferBind \/ Leave
  PROVE  SessionKnown'
<1> DEFINE After == {"release", "unlock", "left", "transfer", "transition", "bind"}
<1>1. /\ fg \in Session /\ rec \in Worker /\ UNCHANGED <<cash, dev>> /\ rec'.pc = rec.pc
      /\ fg.pc \in {"finish", "close", "release", "unlock", "ready", "transfer", "transition",
                   "bind", "left"}
  BY SessionFacts DEF Finish, CloseLease, ReleaseHostLease, ReleaseLock, Exit, AcceptTransfer,
     TransferTransition, TransferBind, Leave, at, keepWorld, schedule, Worker
<1>2. CASE Leave
  BY <1>1, <1>2, SessionGone DEF Leave, Asking, keepWorld
<1>3. ASSUME fg'.pc \in After, fg'.op = fg.op, fg'.moved = fg.moved,
             fg'.phase = fg.phase,
             fg'.pc = "transfer" => fg.pc = "ready",
             fg'.pc = "transition" => fg'.row.phase # "planning",
             fg'.pc = "bind" => fg.pc = "transition" /\ fg'.row = fg.row
      PROVE  SessionKnown'
  <2>1. Phased'
    BY <1>3 DEF Phased, Transferring, NotesInv
  <2>2. fg'.phase = "planned" => ~fg.moved
    BY <1>3 DEF NotesInv, Unmoved
  <2> QED  BY <1>1, <1>3, <2>1, <2>2, SessionGoesOn DEF Asking
<1>4. CASE Finish
  <2>1. /\ fg.pc = "finish" /\ fg'.pc = "close" /\ fg'.op = fg.op /\ fg'.moved = fg.moved
        /\ fg'.phase = "terminal" /\ fg'.out = fg.out
    BY ZenonT(60), <1>1, <1>4 DEF Finish, at, Session
  <2>2. Phased'
    BY <2>1 DEF Phased, Transferring
  <2> QED  BY <1>1, <2>1, <2>2, SessionGoesOn DEF Asking
<1>5. CASE CloseLease \/ ReleaseHostLease \/ ReleaseLock
  <2>1. fg'.pc \in {"release", "unlock", "left"} /\ fg'.op = fg.op /\ fg'.moved = fg.moved
        /\ fg'.phase = fg.phase
    BY ZenonT(80), <1>1, <1>5 DEF CloseLease, ReleaseHostLease, ReleaseLock, goto, Session
  <2> QED  BY <1>3, <2>1
<1>6. CASE Exit
  <2>1. fg'.pc \in {"transfer", "left"} /\ fg'.op = fg.op /\ fg'.moved = fg.moved
        /\ fg'.phase = fg.phase /\ fg.pc = "ready"
    BY <1>1, <1>6 DEF Exit, goto, Session, at
  <2> QED  BY <1>3, <2>1
<1>7. CASE AcceptTransfer
  <2>1. fg'.pc \in {"transition", "left"} /\ fg'.op = fg.op /\ fg'.moved = fg.moved
        /\ fg'.phase = fg.phase
    BY <1>1, <1>7 DEF AcceptTransfer, goto, Session
  <2>2. fg'.pc = "transition" => fg'.row.phase # "planning"
    <3>1. fg.pc = "transfer" /\ fg.pc \in Working
      BY <1>7 DEF AcceptTransfer, at, Working, SessionSteps
    <3>2. lease[fg.op] \in LeaseRecord /\ fg.phase # "planning"
      BY <3>1, AtWork DEF NotesInv, LeasesInv, Phased
    <3> DEFINE row == lease[fg.op]
               handed == [[row EXCEPT !.state = "transferPending", !.pending = row.token + 1,
                                      !.phase = fg.phase] EXCEPT !.rev = row.rev + 1]
    <3>3. handed.phase = fg.phase
      BY <3>2 DEF LeaseRecord
    <3> HIDE DEF handed
    <3>4. fg' = [fg EXCEPT !.pc = "transition", !.row = handed] \/ fg' = [fg EXCEPT !.pc = "left"]
      BY <1>7 DEF AcceptTransfer, goto, handed
    <3> QED  BY <1>1, <3>2, <3>3, <3>4 DEF Session
  <2> QED  BY <1>3, <2>1, <2>2
<1>8. CASE TransferTransition \/ TransferBind
  <2>1. fg'.pc \in {"bind", "left"} /\ fg'.op = fg.op /\ fg'.moved = fg.moved
        /\ fg'.phase = fg.phase /\ fg'.row = fg.row
        /\ (fg'.pc = "bind" => fg.pc = "transition")
    BY <1>1, <1>8 DEF TransferTransition, TransferBind, goto, Session, at
  <2> QED  BY <1>3, <2>1
<1> QED  BY SMTT(40), <1>2, <1>4, <1>5, <1>6, <1>7, <1>8

(* Commands of the session and their answers.                              *)
LEMMA OrderKnown ==
  ASSUME NotesInv, NEW c \in Commands, UNCHANGED <<cash, rec>>, send(c),
         fg.pc \notin Asking, fg.pc # "idle", fg'.pc = c, fg'.op = fg.op, Phased',
         fg'.moved \in {TRUE, fg.moved},
         fg'.phase \notin {"planned", "staged", "awaitingTake"},
         c = "dispense" => cash[fg.op] = "vault" /\ fg'.moved,
         c = "present" => cash[fg.op] = "stacker"
  PROVE  SessionKnown'
<1> USE DEF NotesInv
<1>1. /\ dev \in Device /\ ~Waits("session")
      /\ rec.pc # "retracting" => ~Waits("recovery")
  BY SessionFacts
<1>2. \/ dev' = dev
      \/ /\ dev'.cmd = c /\ dev'.op = fg.op /\ dev'.by = "session" /\ dev.cmd = "none"
  BY <1>1 DEF send, issue, deviceFree, Device
<1>3. Unmoved'
  BY <1>2 DEF Unmoved, Dispensing, Commands
<1>4. Asked'
  BY <1>1, <1>2 DEF Asked, Waits, Commands
<1>5. DispenseKnown' /\ PresentKnown' /\ RetractKnown'
  BY <1>1, <1>2 DEF DispenseKnown, PresentKnown, RetractKnown, Waits, Executed, Commands
<1>6. OutcomeKnown'
  BY DEF OutcomeKnown, Commands
<1> QED  BY <1>3, <1>4, <1>5, <1>6 DEF SessionKnown

LEMMA DispenseSessionKnown ==
  ASSUME NotesInv, Dispense
  PROVE  SessionKnown'
<1>1. /\ fg.pc = "ready" /\ fg.phase = "planned" /\ fg \in Session /\ UNCHANGED <<cash, rec>>
  BY SessionFacts DEF Dispense, ready, at, keepWorld
<1>2. ~fg.moved /\ cash[fg.op] = "vault"
  BY <1>1 DEF NotesInv, Unmoved
<1>3. CASE fg' = [fg EXCEPT !.phase = "dispensing"] /\ UNCHANGED dev
  <2>1. fg'.pc = "ready" /\ fg'.op = fg.op /\ fg'.moved = fg.moved /\ fg'.phase = "dispensing"
    BY <1>1, <1>3 DEF Session
  <2>2. Phased'
    BY <2>1 DEF Phased, Transferring
  <2> QED  BY <1>1, <1>3, <2>1, <2>2, SessionGoesOn DEF Asking
<1>4. CASE /\ fg' = [fg EXCEPT !.pc = "dispense", !.phase = "dispensing", !.moved = TRUE]
           /\ send("dispense")
  <2>1. fg'.pc = "dispense" /\ fg'.op = fg.op /\ fg'.moved /\ fg'.phase = "dispensing"
    BY <1>1, <1>4 DEF Session
  <2>2. Phased'
    BY <2>1 DEF Phased, Transferring
  <2> QED  BY <1>1, <1>2, <1>4, <2>1, <2>2, OrderKnown DEF Asking, Commands
<1> QED  BY <1>3, <1>4 DEF Dispense

LEMMA PresentSessionKnown ==
  ASSUME NotesInv, Present
  PROVE  SessionKnown'
<1>1. /\ fg.pc = "ready" /\ fg.phase = "staged" /\ fg \in Session /\ UNCHANGED <<cash, rec>>
      /\ send("present")
      /\ \E recon : fg' = [fg EXCEPT !.pc = "present", !.phase = "presenting", !.recon = recon]
  BY SessionFacts DEF Present, ready, at, keepWorld
<1>2. cash[fg.op] = "stacker"
  BY <1>1 DEF NotesInv, DispenseKnown
<1>3. fg'.pc = "present" /\ fg'.op = fg.op /\ fg'.moved = fg.moved /\ fg'.phase = "presenting"
  BY <1>1 DEF Session
<1>4. Phased'
  BY <1>3 DEF Phased, Transferring
<1> QED  BY <1>1, <1>2, <1>3, <1>4, OrderKnown DEF Asking, Commands

LEMMA RetractSessionKnown ==
  ASSUME NotesInv, fg.pc = "ready", NEW recon, retract(recon), UNCHANGED <<cash, rec>>
  PROVE  SessionKnown'
<1>1. fg \in Session /\ fg.phase # "planning"
  BY SessionFacts DEF NotesInv, Phased
<1>2. CASE fg.retr
  <2>1. /\ fg'.pc = "finish" /\ fg'.op = fg.op /\ fg'.moved = fg.moved
        /\ fg'.phase = fg.phase /\ fg'.out = "custodyUnknown" /\ UNCHANGED dev
    BY ZenonT(60), <1>1, <1>2 DEF Session, retract
  <2>2. Phased'
    BY <1>1, <2>1 DEF Phased, Transferring
  <2>3. fg'.phase = "planned" => ~fg.moved
    BY <2>1 DEF NotesInv, Unmoved
  <2> QED  BY <2>1, <2>2, <2>3, SessionGoesOn DEF Asking
<1>3. CASE ~fg.retr
  <2>1. /\ fg'.pc = "retract" /\ fg'.op = fg.op /\ fg'.moved = fg.moved
        /\ fg'.phase = "retracting" /\ send("retract")
    BY ZenonT(60), <1>1, <1>3 DEF Session, retract
  <2>2. Phased'
    BY <2>1 DEF Phased, Transferring
  <2> QED  BY <2>1, <2>2, OrderKnown DEF Asking, Commands
<1> QED  BY <1>2, <1>3

LEMMA AbortKnown ==
  ASSUME NotesInv, TakeTimesOut \/ Abort
  PROVE  SessionKnown'
<1>1. fg.pc = "ready" /\ UNCHANGED <<cash, rec>> /\ fg \in Session
  BY SessionFacts DEF TakeTimesOut, Abort, ready, at, keepWorld
<1>2. CASE \E recon \in BOOLEAN : retract(recon)
  BY <1>1, <1>2, RetractSessionKnown
<1>3. fg.phase # "planning" /\ (fg.phase = "planned" => ~fg.moved)
  BY <1>1 DEF NotesInv, Phased, Unmoved
<1>4. CASE ~fg.moved /\ fg' = [fg EXCEPT !.pc = "finish", !.out = "notDispensed"] /\ UNCHANGED dev
  <2>1. fg'.pc = "finish" /\ fg'.op = fg.op /\ fg'.moved = fg.moved /\ fg'.phase = fg.phase
        /\ fg'.out = "notDispensed"
    BY <1>1, <1>4 DEF Session
  <2>2. Phased'
    BY <1>3, <2>1 DEF Phased, Transferring
  <2> QED  BY <1>1, <1>3, <1>4, <2>1, <2>2, SessionGoesOn DEF Asking
<1>5. CASE UNCHANGED dev /\ \E step \in {"ready", "left"} : goto(step)
  <2>1. fg'.pc \in {"ready", "left"} /\ fg'.op = fg.op /\ fg'.moved = fg.moved
        /\ fg'.phase = fg.phase
    BY <1>1, <1>5 DEF goto, Session
  <2>2. Phased'
    BY <1>3, <2>1 DEF Phased, Transferring
  <2> QED  BY <1>1, <1>3, <1>5, <2>1, <2>2, SessionGoesOn DEF Asking
<1> QED  BY <1>2, <1>4, <1>5 DEF TakeTimesOut, Abort

(* What follows from an answer.                                            *)
LEMMA AnswerKnown ==
  ASSUME NotesInv, UNCHANGED <<cash, rec>>, fg.pc \in Asking, Answered("session"),
         fg'.pc \notin Asking, fg'.op = fg.op, Phased', fg'.phase # "planned",
         fg'.pc \notin {"create", "acquire", "before"},
         fg'.moved \in {FALSE, fg.moved},
         ~fg'.moved => cash[fg.op] = "vault" /\ ~Dispensing(fg.op),
         fg'.phase = "staged" /\ fg'.pc \in {"dispensed", "ready"} =>
           cash[fg.op] = "stacker" /\ dev.cmd = "none",
         fg'.phase = "awaitingTake" /\ fg'.pc \in {"presented", "ready"} =>
           cash[fg.op] \in {"slot", "customer"} /\ dev.cmd = "none",
         fg'.pc \in {"finish", "close"} =>
           \/ fg'.out = "custodyUnknown"
           \/ fg'.out = "retracted" /\ Settled(fg.op)
  PROVE  SessionKnown'
<1> USE DEF NotesInv
<1>1. /\ dev'.cmd = dev.cmd /\ dev'.by # "session"
      /\ dev' = dev \/ (dev.cmd = "none" /\ dev'.by = "nobody" /\ dev'.reply = "none")
  BY AnswerMoves DEF LeasesInv, OwnershipInv, TypeOK
<1>2. Unmoved' /\ Asked'
  BY <1>1 DEF Unmoved, Dispensing, Asked, Waits
<1>3. DispenseKnown' /\ PresentKnown' /\ RetractKnown'
  BY <1>1 DEF DispenseKnown, PresentKnown, RetractKnown, Waits
<1>4. OutcomeKnown'
  BY <1>1 DEF OutcomeKnown, Settled, InTransport, Dispensing
<1> QED  BY <1>2, <1>3, <1>4 DEF SessionKnown

LEMMA ReturnsKnown ==
  ASSUME NotesInv, DispenseReturns \/ PresentReturns \/ RetractReturns
  PROVE  SessionKnown'
<1>1. /\ fg \in Session /\ UNCHANGED <<cash, rec>> /\ fg.pc \in Asking
      /\ Answered("session")
  BY SessionFacts DEF DispenseReturns, PresentReturns, RetractReturns, at, keepWorld, Asking, Answered
<1>2. ASSUME NEW r \in {"ok", "failed"}, answered("session", r)
      PROVE  Waits("session") /\ dev.cmd = "none" /\ (Executed <=> r = "ok")
  BY <1>2 DEF answered, Waits, Executed
<1>3. ~fg.moved => cash[fg.op] = "vault" /\ ~Dispensing(fg.op)
  BY <1>1 DEF NotesInv, Unmoved, Asking
<1>4. ASSUME fg'.op = fg.op, fg'.moved = fg.moved, fg'.pc = "ready", fg'.phase = "reconciling"
      PROVE  SessionKnown'
  <2>1. Phased'
    BY <1>4 DEF Phased, Transferring
  <2> QED  BY <1>1, <1>3, <1>4, <2>1, AnswerKnown DEF Asking
<1>5. CASE DispenseReturns
  <2>1. fg.pc = "dispense"
    BY <1>5 DEF DispenseReturns, at
  <2>2. ASSUME answered("session", "ok"), NEW recon,
               fg' = [fg EXCEPT !.pc = "dispensed", !.phase = "staged", !.recon = recon]
        PROVE  SessionKnown'
    <3>1. /\ fg'.op = fg.op /\ fg'.moved = fg.moved /\ fg'.pc = "dispensed"
          /\ fg'.phase = "staged"
      BY <1>1, <2>2 DEF Session
    <3>2. cash[fg.op] = "stacker" /\ dev.cmd = "none"
      BY <1>2, <2>1, <2>2 DEF NotesInv, DispenseKnown
    <3>3. Phased'
      BY <3>1 DEF Phased, Transferring
    <3> QED  BY <1>1, <1>3, <3>1, <3>2, <3>3, AnswerKnown DEF Asking
  <2>3. ASSUME answered("session", "failed"), NEW recon,
               fg' = [fg EXCEPT !.pc = "ready", !.phase = "reconciling", !.moved = FALSE,
                                !.recon = recon]
        PROVE  SessionKnown'
    <3>1. /\ fg'.op = fg.op /\ fg'.moved = FALSE /\ fg'.pc = "ready"
          /\ fg'.phase = "reconciling"
      BY <1>1, <2>3 DEF Session
    <3>2. cash[fg.op] = "vault" /\ dev.cmd = "none"
      BY <1>2, <2>1, <2>3 DEF NotesInv, DispenseKnown
    <3>3. Phased'
      BY <3>1 DEF Phased, Transferring
    <3> QED  BY <1>1, <3>1, <3>2, <3>3, AnswerKnown DEF Asking, Dispensing
  <2>4. CASE fg' = [fg EXCEPT !.pc = "ready", !.phase = "reconciling", !.recon = TRUE]
    <3>1. /\ fg'.op = fg.op /\ fg'.moved = fg.moved /\ fg'.pc = "ready"
          /\ fg'.phase = "reconciling"
      BY <1>1, <2>4 DEF Session
    <3> QED  BY <1>4, <3>1
  <2> QED  BY <1>5, <2>2, <2>3, <2>4 DEF DispenseReturns
<1>6. CASE PresentReturns
  <2>1. fg.pc = "present"
    BY <1>6 DEF PresentReturns, at
  <2>2. ASSUME answered("session", "ok"), NEW recon,
               fg' = [fg EXCEPT !.pc = "presented", !.phase = "awaitingTake", !.recon = recon]
        PROVE  SessionKnown'
    <3>1. /\ fg'.op = fg.op /\ fg'.moved = fg.moved /\ fg'.pc = "presented"
          /\ fg'.phase = "awaitingTake"
      BY <1>1, <2>2 DEF Session
    <3>2. cash[fg.op] \in {"slot", "customer"} /\ dev.cmd = "none"
      BY <1>2, <2>1, <2>2 DEF NotesInv, PresentKnown
    <3>3. Phased'
      BY <3>1 DEF Phased, Transferring
    <3> QED  BY <1>1, <1>3, <3>1, <3>2, <3>3, AnswerKnown DEF Asking
  <2>3. CASE fg' = [fg EXCEPT !.pc = "ready", !.phase = "reconciling", !.recon = TRUE]
    <3>1. /\ fg'.op = fg.op /\ fg'.moved = fg.moved /\ fg'.pc = "ready"
          /\ fg'.phase = "reconciling"
      BY <1>1, <2>3 DEF Session
    <3> QED  BY <1>4, <3>1
  <2> QED  BY <1>6, <2>2, <2>3 DEF PresentReturns
<1>7. CASE RetractReturns
  <2>1. fg.pc = "retract"
    BY <1>7 DEF RetractReturns, at
  <2>2. ASSUME NEW out \in {"retracted", "custodyUnknown"}, NEW recon,
               fg' = [fg EXCEPT !.pc = "finish", !.out = out, !.recon = recon],
               out = "retracted" => answered("session", "ok")
        PROVE  SessionKnown'
    <3>1. /\ fg'.op = fg.op /\ fg'.moved = fg.moved /\ fg'.pc = "finish"
          /\ fg'.phase = fg.phase /\ fg'.out = out
      BY <1>1, <2>2 DEF Session
    <3>2. out = "retracted" => Settled(fg.op)
      BY <1>2, <2>1, <2>2 DEF NotesInv, RetractKnown, Settled, Dispensing
    <3>3. fg.phase = "retracting"
      BY <2>1 DEF NotesInv, Phased
    <3>4. Phased'
      BY <3>1, <3>3 DEF Phased, Transferring
    <3> QED  BY <1>1, <1>3, <2>2, <3>1, <3>2, <3>3, <3>4, AnswerKnown DEF Asking
  <2> QED  BY <1>7, <2>2 DEF RetractReturns
<1> QED  BY <1>5, <1>6, <1>7

LEMMA SessionStepKnown ==
  ASSUME NotesInv, SessionStep
  PROVE  SessionKnown'
BY StartKnown, PreparingKnown, PersistedKnown, TakeConfirmedKnown, EndingKnown,
   DispenseSessionKnown, PresentSessionKnown, AbortKnown, ReturnsKnown DEF SessionStep

(* The session's side of what the dispenser and the host do.               *)
LEMMA EnvironmentKnown ==
  ASSUME NotesInv, EnvironmentStep
  PROVE  SessionKnown'
<1> USE DEF NotesInv
<1>1. /\ dev \in Device /\ cash \in [Ops -> Places] /\ (fg.pc # "idle" => fg.op \in Ops)
      /\ dev.cmd # "none" => dev.op \in Ops
  BY SessionFacts DEF LeasesInv, OwnershipInv, TypeOK, DeviceOK
<1>2. CASE Crash
  <2>1. fg'.pc = "idle" /\ dev'.by = "nobody" /\ fg'.phase = "planning" /\ ~fg'.moved
    BY <1>1, <1>2 DEF Crash, NoSession, forgotten, Device
  <2> QED
    BY <2>1 DEF SessionKnown, Phased, Unmoved, Asked, DispenseKnown, PresentKnown, RetractKnown,
       OutcomeKnown, Waits, Transferring
<1>3. CASE UNCHANGED fg
  <2>1. Phased'
    BY <1>3 DEF Phased
  <2>2. CASE CommandTimesOut \/ HostRestarts
    <3>1. /\ UNCHANGED cash /\ dev'.by = "nobody"
          /\ dev.cmd = "none" => dev'.cmd = "none"
          /\ dev'.cmd # "none" => dev'.cmd = dev.cmd /\ dev'.op = dev.op
      BY <1>1, <2>2 DEF CommandTimesOut, HostRestarts, forgotten, NoCommand, Device, Commands
    <3> QED
      BY <1>3, <2>1, <3>1 DEF SessionKnown, Unmoved, Asked, DispenseKnown, PresentKnown,
         RetractKnown, OutcomeKnown, Waits, Dispensing, Settled, InTransport
  <2>3. CASE HostLeaseExpires
    BY <1>3, <2>3 DEF HostLeaseExpires, SessionKnown, Phased, Unmoved, Asked, DispenseKnown,
       PresentKnown, RetractKnown, OutcomeKnown, Waits, Executed, Dispensing, Settled, InTransport
  <2>4. CASE CustomerTakes
    <3>1. /\ UNCHANGED <<dev, rec>>
          /\ fg.pc # "idle" => cash'[fg.op] = IF cash[fg.op] = "slot" THEN "customer"
                                                                   ELSE cash[fg.op]
      BY <1>1, <2>4 DEF CustomerTakes
    <3>2. Unmoved' /\ Asked'
      BY <1>3, <2>4, <3>1 DEF CustomerTakes, Unmoved, Asked, Waits, Dispensing
    <3>3. DispenseKnown' /\ PresentKnown' /\ RetractKnown'
      BY <1>3, <3>1 DEF DispenseKnown, PresentKnown, RetractKnown, Waits, Executed, InTransport
    <3>4. OutcomeKnown'
      BY <1>3, <3>1 DEF OutcomeKnown, Settled, Dispensing, InTransport
    <3> QED  BY <2>1, <3>2, <3>3, <3>4 DEF SessionKnown
  <2>5. CASE DeviceRejects
    <3>1. /\ UNCHANGED <<cash, rec>> /\ dev.cmd # "none" /\ dev'.cmd = "none" /\ dev'.by = dev.by
          /\ dev.by # "nobody" => dev'.reply = "failed"
      BY <1>1, <2>5 DEF DeviceRejects, Answer, Device
    <3> QED
      BY <1>3, <2>1, <3>1 DEF SessionKnown, Unmoved, Asked, DispenseKnown,
         PresentKnown, RetractKnown, OutcomeKnown, Waits, Executed, Dispensing, Settled, InTransport
  <2>6. CASE DeviceExecutes
    <3>1. /\ UNCHANGED rec /\ dev.cmd \in Commands /\ dev.op \in Ops /\ dev'.cmd = "none"
          /\ dev'.by = dev.by /\ (dev.by # "nobody" => dev'.reply = "ok")
      BY <1>1, <2>6 DEF DeviceExecutes, Answer, Device
    <3>2. cash' = Moved(dev.cmd, dev.op)
      BY <2>6 DEF DeviceExecutes
    <3>3. Asked' /\ ~(Dispensing(fg.op))'
      BY <1>3, <3>1 DEF Asked, Waits, Dispensing
    <3>4. CASE dev.cmd = "dispense"
      <4>1. fg.pc # "idle" => cash'[fg.op] = IF fg.op = dev.op THEN "stacker" ELSE cash[fg.op]
        BY <1>1, <3>1, <3>2, <3>4 DEF Moved
      <4>2. Unmoved' /\ OutcomeKnown'
        BY <1>3, <3>3, <3>4, <4>1 DEF Unmoved, OutcomeKnown, Settled, Dispensing, InTransport
      <4>3. DispenseKnown' /\ PresentKnown' /\ RetractKnown'
        BY <1>3, <3>1, <3>4, <4>1 DEF DispenseKnown, PresentKnown, RetractKnown, Asked, Waits, Executed
      <4> QED  BY <2>1, <3>3, <4>2, <4>3 DEF SessionKnown
    <3>5. CASE dev.cmd = "present"
      <4>1. fg.pc # "idle" => cash'[fg.op] = IF cash[fg.op] = "stacker" THEN "slot" ELSE cash[fg.op]
        BY <1>1, <3>1, <3>2, <3>5 DEF Moved
      <4>2. Unmoved' /\ OutcomeKnown'
        BY <1>3, <3>3, <3>5, <4>1 DEF Unmoved, OutcomeKnown, Settled, Dispensing, InTransport
      <4>3. DispenseKnown' /\ PresentKnown' /\ RetractKnown'
        BY <1>3, <3>1, <3>5, <4>1 DEF DispenseKnown, PresentKnown, RetractKnown, Asked, Waits, Executed
      <4> QED  BY <2>1, <3>3, <4>2, <4>3 DEF SessionKnown
    <3>6. CASE dev.cmd = "retract"
      <4>1. fg.pc # "idle" =>
              cash'[fg.op] = IF InTransport(fg.op) THEN "retracted" ELSE cash[fg.op]
        BY <1>1, <3>1, <3>2, <3>6 DEF Moved
      <4>2. Unmoved' /\ OutcomeKnown'
        BY <1>3, <3>3, <3>6, <4>1 DEF Unmoved, OutcomeKnown, Settled, Dispensing, InTransport
      <4>3. DispenseKnown' /\ PresentKnown' /\ RetractKnown'
        BY <1>3, <3>1, <3>6, <4>1 DEF DispenseKnown, PresentKnown, RetractKnown, Asked, Waits,
           Executed, InTransport
      <4> QED  BY <2>1, <3>3, <4>2, <4>3 DEF SessionKnown
    <3> QED  BY <3>1, <3>4, <3>5, <3>6 DEF Commands
  <2> QED
    BY <1>2, <2>2, <2>3, <2>4, <2>5, <2>6 DEF EnvironmentStep
<1> QED
  BY <1>2, <1>3 DEF EnvironmentStep, DeviceExecutes, DeviceRejects, CustomerTakes,
     CommandTimesOut, HostLeaseExpires, HostRestarts

(* A run that may still command the dispenser has the only unresolved row. *)
LEMMA RunCommandsAlone ==
  ASSUME NotesInv, rec.pc = "retract", host.op = rec.op
  PROVE  fg.pc \notin Owning
<1> USE DEF NotesInv, LeasesInv
<1>1. rec.op \in Ops /\ lease[rec.op].state # "closed"
  BY DEF HostGone, OwnershipInv, TypeOK, WorkerOK
<1>2. Unresolved(rec.op)
  BY <1>1 DEF OwnershipInv, RunOwns, Escalated, Unresolved
<1>3. ASSUME fg.pc \in Owning
      PROVE  FALSE
  <2>1. fg.pc \in Working
    BY <1>3 DEF Owning, Working, SessionSteps
  <2>2. fg.op \in Ops /\ rec.op # fg.op
    BY <2>1, AtWork
  <2>3. Unresolved(fg.op)
    BY <1>3 DEF OwnershipInv, SessionOwns, Unresolved
  <2> QED  BY <1>1, <1>2, <2>2, <2>3 DEF OwnershipInv, OneUnresolved
<1> QED  BY <1>3

(* What a run does with the dispenser: nothing that it would wait for, one *)
(* retract, or an answer.                                                  *)
RunCommands ==
  \/ UNCHANGED dev /\ ~Waits("recovery")
  \/ /\ issue("retract", rec.op, "recovery") /\ rec.pc = "retract" /\ host.op = rec.op
     /\ rec'.pc = "retracting"
  \/ Answered("recovery")
LEMMA RunCommandsOnly ==
  ASSUME NotesInv, RecoveryStep
  PROVE  RunCommands
<1>1. rec \in Worker /\ (rec.pc # "retracting" => ~Waits("recovery"))
  BY SessionFacts
<1>2. CASE RecoveryRetract
  BY <1>1, <1>2 DEF RecoveryRetract, RunCommands, stepTo, Worker
<1>3. CASE RecoveryRetractReturns
  BY <1>3 DEF RecoveryRetractReturns, RunCommands, Answered
<1>4. CASE UNCHANGED dev /\ rec.pc # "retracting"
  BY <1>1, <1>4 DEF RunCommands
<1> QED
  BY <1>2, <1>3, <1>4 DEF RecoveryStep, RunStarts, Bind, BindSwap, Deadline, Observe,
     CaptureAfterSnapshot, ReleaseResources, CloseRecovered, EnterIntervention

LEMMA RecoveryKnown ==
  ASSUME NotesInv, RecoveryStep
  PROVE  SessionKnown'
<1> USE DEF NotesInv
<1>1. UNCHANGED <<cash, fg>> /\ RunCommands /\ dev \in Device
  BY RecoveryCommands, RunCommandsOnly, SessionFacts
<1>2. Phased'
  BY <1>1 DEF Phased
<1>3. CASE UNCHANGED dev /\ ~Waits("recovery")
  BY <1>1, <1>2, <1>3 DEF SessionKnown, Unmoved, Asked, DispenseKnown,
     PresentKnown, RetractKnown, OutcomeKnown, Waits, Executed, Dispensing, Settled, InTransport
<1>4. CASE /\ issue("retract", rec.op, "recovery") /\ rec.pc = "retract" /\ host.op = rec.op
           /\ rec'.pc = "retracting"
  <2>1. dev'.cmd = "retract" /\ dev'.by = "recovery" /\ fg.pc \notin Owning
    BY <1>1, <1>4, RunCommandsAlone DEF issue, Device
  <2> QED
    BY <1>1, <1>2, <1>4, <2>1 DEF SessionKnown, Unmoved, Asked, DispenseKnown,
       PresentKnown, RetractKnown, OutcomeKnown, Waits, Dispensing, Owning
<1>5. CASE Answered("recovery")
  <2>1. /\ dev'.cmd = dev.cmd /\ dev'.by # "recovery"
        /\ dev' = dev \/ (dev.cmd = "none" /\ dev'.by = "nobody" /\ dev'.reply = "none")
    BY <1>5, AnswerMoves DEF LeasesInv, OwnershipInv, TypeOK
  <2> QED
    BY <1>1, <1>2, <2>1 DEF SessionKnown, Unmoved, Asked, DispenseKnown,
       PresentKnown, RetractKnown, OutcomeKnown, Waits, Executed, Dispensing, Settled, InTransport
<1> QED  BY <1>1, <1>3, <1>4, <1>5 DEF RunCommands

(* Notes that a run observes as not dispensed are not in the transport,    *)
(* and no dispense for them can be running any more.                       *)
LEMMA ObservedNotDispensed ==
  ASSUME NotesInv, rec.pc = "observe", ~rec.retain, observe(rec.row) = "notDispensed"
  PROVE  Settled(rec.op)
<1> USE DEF NotesInv, LeasesInv
<1>1. /\ rec.op \in Ops /\ rec.row = lease[rec.op] /\ rec.row.state = "recoveryBound"
  BY DEF OwnershipInv, RunOwns, TypeOK, WorkerOK
<1>2. ~dev.shown /\ stackerEmpty /\ rec.row.phase = "planning"
  BY DEF observe
<1>3. ~InTransport(rec.op)
  BY <1>1, <1>2 DEF ShownOK, slotEmpty, stackerEmpty, InTransport
<1>4. ~Dispensing(rec.op)
  <2>1. Unresolved(rec.op)
    BY <1>1 DEF Unresolved
  <2> QED  BY <1>1, <1>2, <2>1 DEF DispenseHeld, FencingAgrees
<1> QED  BY <1>3, <1>4 DEF Settled

(* How a run comes to an outcome, and that it keeps it.                    *)
Concluding == {"snapshot", "release", "close"}
RunConcludes ==
  \/ rec'.pc \notin Concluding
  \/ /\ rec'.op = rec.op /\ rec'.retain = rec.retain /\ rec.op \in Ops
     /\ \/ rec.pc \in Concluding /\ UNCHANGED dev /\ rec'.obs = rec.obs
        \/ /\ rec.pc = "observe" /\ UNCHANGED dev
           /\ rec'.obs = observe(rec.row) /\ rec'.obs \in {"taken", "notDispensed"}
        \/ /\ Waits("recovery") /\ Executed
           /\ rec'.obs = "retracted" /\ dev'.cmd = "none"
LEMMA RunConclusion ==
  ASSUME TypeOK, RecoveryStep
  PROVE  RunConcludes
<1> USE DEF Concluding
<1>1. rec \in Worker /\ dev \in Device /\ (rec.pc # "idle" => rec.op \in Ops)
  BY DEF TypeOK, WorkerOK, DeviceOK
<1>2. CASE rec'.pc \notin Concluding
  BY <1>2 DEF RunConcludes
<1>3. ASSUME NEW step, NEW row, stepTo(step, row)
      PROVE  /\ rec'.pc = step /\ rec'.op = rec.op /\ rec'.retain = rec.retain
             /\ rec'.obs = rec.obs
  BY <1>1, <1>3 DEF stepTo, Worker
<1>4. CASE Ends
  BY <1>2, <1>4 DEF Ends
<1>5. CASE Observe
  <2> DEFINE seen == observe(rec.row)
  <2>1. CASE rec' = [rec EXCEPT !.pc = afterObserving(seen), !.obs = seen]
    <3>1. /\ rec'.op = rec.op /\ rec'.retain = rec.retain /\ rec'.obs = seen
          /\ rec'.pc \in Concluding => seen \in {"taken", "notDispensed"}
      BY <1>1, <2>1 DEF Worker, afterObserving, observe
    <3> QED  BY <1>1, <1>2, <1>5, <3>1 DEF Observe, RunConcludes
  <2>2. CASE stepTo("intervene", rec.row)
    BY <1>2, <1>3, <2>2
  <2> QED  BY <1>5, <2>1, <2>2 DEF Observe
<1>6. CASE RecoveryRetractReturns
  <2>1. CASE answered("recovery", "ok") /\ rec' = [rec EXCEPT !.pc = "snapshot", !.obs = "retracted"]
    <3>1. /\ Waits("recovery") /\ Executed /\ dev'.cmd = "none"
          /\ rec'.op = rec.op /\ rec'.retain = rec.retain /\ rec'.obs = "retracted"
      BY <1>1, <2>1 DEF answered, Waits, Executed, Device, Worker
    <3> QED  BY <1>1, <1>6, <3>1 DEF RecoveryRetractReturns, RunConcludes
  <2>2. CASE stepTo("intervene", rec.row)
    BY <1>2, <1>3, <2>2
  <2> QED  BY <1>6, <2>1, <2>2 DEF RecoveryRetractReturns
<1>7. CASE CaptureAfterSnapshot \/ ReleaseResources
  <2>1. rec.pc \in {"snapshot", "release"} /\ UNCHANGED dev
    BY <1>7 DEF CaptureAfterSnapshot, ReleaseResources
  <2>2. CASE \E step, row : stepTo(step, row)
    BY <1>1, <1>3, <2>1, <2>2 DEF RunConcludes
  <2>3. Ends \/ \E step, row : stepTo(step, row)
    BY <1>7, RunEnds DEF CaptureAfterSnapshot, ReleaseResources
  <2> QED  BY <1>4, <2>2, <2>3
<1>8. CASE BindSwap \/ Bind \/ RecoveryRetract \/ CloseRecovered \/ EnterIntervention
  <2>1. ASSUME NEW step \in {"deadline", "swap", "retracting"}, NEW row, stepTo(step, row)
        PROVE  RunConcludes
    BY <1>2, <1>3, <2>1
  <2> QED  BY <1>4, <1>8, <2>1, RunEnds DEF BindSwap, Bind, swapOr, RecoveryRetract,
           CloseRecovered, EnterIntervention
<1>9. CASE RunStarts
  <2>1. rec'.pc \in {"idle", "deadline", "bind"}
    BY <1>1, <1>9 DEF RunStarts, Worker
  <2> QED  BY <1>2, <2>1
<1>10. CASE Deadline
  <2>1. CASE stepTo("observe", rec.row)
    BY <1>2, <1>3, <2>1
  <2>2. ASSUME NEW row, rec' = [rec EXCEPT !.pc = "observe", !.retain = TRUE, !.row = row]
        PROVE  RunConcludes
    <3>1. rec'.pc = "observe"
      BY <1>1, <2>2 DEF Worker
    <3> QED  BY <1>2, <3>1
  <2> QED  BY <1>4, <1>10, <2>1, <2>2, RunEnds DEF Deadline
<1> QED  BY <1>5, <1>6, <1>7, <1>8, <1>9, <1>10 DEF RecoveryStep

LEMMA RecoveryRunKnown ==
  ASSUME NotesInv, RecoveryStep
  PROVE  RunKnown'
<1> USE DEF NotesInv
<1>1. UNCHANGED <<cash, fg>> /\ RunCommands /\ dev \in Device /\ RunConcludes
  BY RecoveryCommands, RunCommandsOnly, SessionFacts, RunConclusion DEF LeasesInv, OwnershipInv
<1>2. ~(Waits("recovery") /\ Executed)'
  BY <1>1, AnswerMoves DEF RunCommands, Waits, Executed, issue, Device, LeasesInv, OwnershipInv, TypeOK
<1>3. CASE rec'.pc \in Concluding /\ ~rec'.retain /\ rec'.obs # "taken"
  <2>1. Settled(rec.op) /\ rec'.op = rec.op /\ (dev' = dev \/ dev'.cmd = "none")
    BY <1>1, <1>3, ObservedNotDispensed DEF RunConcludes, RunKnown, Concluding, Executed, Settled,
       Dispensing
  <2> QED  BY <1>1, <1>2, <2>1 DEF RunKnown, Settled, InTransport, Dispensing
<1> QED  BY <1>2, <1>3 DEF RunKnown, Concluding

(* A session at most asks for a run.                                       *)
LEMMA SessionKeepsRun ==
  ASSUME rec \in Worker, SessionStep
  PROVE  /\ rec'.pc = rec.pc /\ rec'.op = rec.op /\ rec'.retain = rec.retain
         /\ rec'.obs = rec.obs
  BY DEF SessionStep, Start, CreateLease, AcquireHostLease, PersistBefore, Dispense,
     DispenseReturns, DispensePersisted, Present, PresentReturns, PresentPersisted, UpdateAfter,
     TakeConfirmed, TakeTimesOut, Abort, RetractReturns, Finish, CloseLease, ReleaseHostLease,
     ReleaseLock, Exit, AcceptTransfer, TransferTransition, TransferBind, Leave, keepWorld,
     schedule, Worker

(* Steps of the others: the run stays where it is, or is gone.             *)
LEMMA OthersRunKnown ==
  ASSUME NotesInv, SessionStep \/ ResolverStep \/ EnvironmentStep
  PROVE  RunKnown'
<1> USE DEF NotesInv
<1>1. /\ dev \in Device /\ rec \in Worker /\ cash \in [Ops -> Places]
      /\ rec.pc # "idle" => rec.op \in Ops
      /\ dev.cmd # "none" => dev.op \in Ops
  BY SessionFacts DEF LeasesInv, OwnershipInv, TypeOK, WorkerOK, DeviceOK
<1>2. CASE SessionStep
  <2>1. /\ rec'.pc = rec.pc /\ rec'.op = rec.op /\ rec'.retain = rec.retain
        /\ rec'.obs = rec.obs
    BY <1>1, <1>2, SessionKeepsRun
  <2>2. UNCHANGED cash /\ (UNCHANGED dev \/ Orders \/ Answered("session"))
    BY <1>2, SessionCommands
  <2>3. CASE UNCHANGED dev
    BY <2>1, <2>2, <2>3 DEF RunKnown, Waits, Executed, Settled, InTransport, Dispensing
  <2>4. CASE Orders
    <3>1. /\ dev'.by = "session" /\ dev'.op = fg.op
          /\ dev'.cmd = "dispense" => fg.pc = "ready"
      BY <1>1, <2>4 DEF Orders, issue, Device, Ordered
    <3>2. fg.pc = "ready" /\ rec.pc # "idle" => rec.op # fg.op
      BY DEF LeasesInv, OwnershipInv, SessionAlone, Working, SessionSteps
    <3> QED
      BY <2>1, <2>2, <3>1, <3>2 DEF RunKnown, Waits, Settled, InTransport, Dispensing
  <2>5. CASE Answered("session")
    <3>1. /\ dev'.cmd = dev.cmd
          /\ dev' = dev \/ (dev.cmd = "none" /\ dev'.by = "nobody" /\ dev'.reply = "none")
      BY <2>5, AnswerMoves DEF LeasesInv, OwnershipInv, TypeOK
    <3> QED
      BY <2>1, <2>2, <3>1 DEF RunKnown, Waits, Executed, Settled, InTransport, Dispensing
  <2> QED  BY <2>2, <2>3, <2>4, <2>5
<1>3. CASE ResolverStep
  BY <1>3, ResolverCommands DEF RunKnown, Waits, Executed, Settled, InTransport, Dispensing
<1>4. CASE Crash
  <2>1. rec'.pc = "idle" /\ dev'.by = "nobody"
    BY <1>1, <1>4 DEF Crash, NoRun, forgotten, Device
  <2> QED  BY <2>1 DEF RunKnown, Waits
<1>5. CASE UNCHANGED <<dev, rec, cash>>
  BY <1>5 DEF RunKnown, Waits, Executed, Settled, InTransport, Dispensing
<1>6. CASE CustomerTakes
  <2>1. /\ UNCHANGED <<dev, rec>>
        /\ rec.pc # "idle" => cash'[rec.op] = IF cash[rec.op] = "slot" THEN "customer"
                                                                       ELSE cash[rec.op]
    BY <1>1, <1>6 DEF CustomerTakes
  <2>2. Waits("recovery") => rec.pc # "idle"
    BY SessionFacts
  <2> QED  BY <2>1, <2>2 DEF RunKnown, Waits, Executed, Settled, InTransport, Dispensing
<1>7. CASE CommandTimesOut \/ HostRestarts
  <2>1. /\ UNCHANGED <<cash, rec>> /\ dev'.by = "nobody"
        /\ dev'.cmd # "none" => dev'.cmd = dev.cmd /\ dev'.op = dev.op
    BY <1>1, <1>7 DEF CommandTimesOut, HostRestarts, forgotten, NoCommand, Device, Commands
  <2> QED  BY <2>1 DEF RunKnown, Waits, Settled, InTransport, Dispensing
<1>8. CASE DeviceRejects
  <2>1. /\ UNCHANGED <<cash, rec>> /\ dev'.cmd = "none" /\ dev'.by = dev.by
        /\ dev.by # "nobody" => dev'.reply = "failed"
    BY <1>1, <1>8 DEF DeviceRejects, Answer, Device
  <2> QED  BY <2>1 DEF RunKnown, Waits, Executed, Settled, InTransport, Dispensing
<1>9. CASE DeviceExecutes
  <2>1. /\ UNCHANGED rec /\ dev.cmd \in Commands /\ dev.op \in Ops /\ dev'.cmd = "none"
        /\ dev'.by = dev.by /\ cash' = Moved(dev.cmd, dev.op)
    BY <1>1, <1>9 DEF DeviceExecutes, Answer, Device
  <2>2. Waits("recovery") => rec.pc = "retracting" /\ dev.cmd = "retract"
    BY <2>1 DEF Asked, Commands
  <2>3. ASSUME rec.pc # "idle"
        PROVE  /\ dev.cmd = "retract" => cash'[rec.op] \notin {"stacker", "slot"}
               /\ Settled(rec.op) => cash'[rec.op] = cash[rec.op]
    BY <1>1, <2>1, <2>3 DEF Moved, Commands, InTransport, Settled, Dispensing
  <2> QED  BY <2>1, <2>2, <2>3 DEF RunKnown, Waits, Settled, InTransport, Dispensing
<1> QED
  BY <1>2, <1>3, <1>4, <1>5, <1>6, <1>7, <1>8, <1>9 DEF EnvironmentStep, HostLeaseExpires

LEMMA NotesStep == NotesInv /\ [Next]_vars => NotesInv'
<1> SUFFICES ASSUME NotesInv, [Next]_vars
             PROVE  NotesInv'
  OBVIOUS
<1>1. LeasesInv' /\ Untouched' /\ ShownOK' /\ DispenseHeld' /\ CustodyIsOwned'
  BY LeasesStep, UntouchedStep, ShownOKStep, DispenseHeldStep, CustodyIsOwnedStep
     DEF NotesInv, LeasesInv, OwnershipInv
<1>2. SessionKnown' /\ RunKnown'
  <2>1. CASE ResolverStep
    BY <2>1, ResolverCommands, OthersRunKnown DEF NotesInv, SessionKnown, Phased, Unmoved, Asked,
       DispenseKnown, PresentKnown, RetractKnown, OutcomeKnown, Waits, Executed, Settled,
       InTransport, Dispensing
  <2>2. CASE UNCHANGED vars
    BY <2>2 DEF vars, NotesInv, SessionKnown, Phased, Unmoved, Asked,
       DispenseKnown, PresentKnown, RetractKnown, OutcomeKnown, RunKnown, Waits, Executed, Settled,
       InTransport, Dispensing
  <2> QED
    BY <2>1, <2>2, SessionStepKnown, RecoveryKnown, RecoveryRunKnown, EnvironmentKnown,
       OthersRunKnown DEF Next
<1> QED  BY <1>1, <1>2 DEF NotesInv, SessionKnown

LEMMA NotesInit == Init => NotesInv
<1> SUFFICES ASSUME Init
             PROVE  NotesInv
  OBVIOUS
<1>1. LeasesInv
  BY LeasesInit
<1>2. /\ \A o \in Ops : cash[o] = "vault" /\ lease[o].state = "absent"
      /\ dev.cmd = "none" /\ dev.by = "nobody" /\ ~dev.shown
      /\ fg.pc = "idle" /\ fg.phase = "planning" /\ ~fg.moved /\ rec.pc = "idle"
  BY DEF Init, NoCommand, NoLease, NoSession, NoRun
<1> QED
  BY <1>1, <1>2 DEF NotesInv, Untouched, ShownOK, Phased, DispenseHeld, Unmoved, Asked,
     DispenseKnown, PresentKnown, RetractKnown, OutcomeKnown, RunKnown, CustodyIsOwned, Dispensing,
     InTransport, slotEmpty, stackerEmpty, Waits, Transferring

(* Whatever is lost, late or restarted, and however often: notes in the    *)
(* transport, or a dispense that may still run, belong to an unresolved    *)
(* row, to one that was closed knowingly without its notes, or to one that *)
(* was closed on the present status.                                       *)
THEOREM CustodyIsAlwaysOwned == Spec => []CustodyIsOwned
<1>1. Init => NotesInv
  BY NotesInit
<1>2. NotesInv /\ [Next]_vars => NotesInv'
  BY NotesStep
<1>3. NotesInv => CustodyIsOwned
  BY DEF NotesInv
<1> QED  BY <1>1, <1>2, <1>3, PTL DEF Spec
-----------------------------------------------------------------------------
(* What the records say of the notes.                                      *)
Foreign(o) == \E p \in Ops : p # o /\ Strayed(p)
Retracted(o) == cash[o] = "retracted" \/ Foreign(o)

(* A dispense is for notes in the vault, and while one is in flight no     *)
(* other unresolved operation has notes outside.                           *)
DispensesOnce ==
  \A o \in Ops : dev.cmd = "dispense" /\ (dev.op = o \/ Unresolved(o)) => cash[o] = "vault"

(* The notes of an unresolved operation that the customer has were shown.  *)
TakenWereShown == \A o \in Ops : Unresolved(o) /\ cash[o] = "customer" => dev.shown

RetractsTrue ==
  /\ fg.pc = "retract" /\ Waits("session") /\ Executed => Retracted(fg.op)
  /\ fg.pc \in {"finish", "close"} /\ fg.out = "retracted" => Retracted(fg.op)
  /\ Waits("recovery") /\ Executed /\ ~rec.retain => Retracted(rec.op)
  /\ rec.pc \in {"snapshot", "release", "close"} /\ ~rec.retain /\ rec.obs = "retracted" =>
       Retracted(rec.op)
  /\ rec.pc \in {"snapshot", "release", "close"} /\ ~rec.retain /\ rec.obs = "notDispensed" =>
       cash[rec.op] \in {"vault", "retracted"}
RecordsTrue ==
  \A o \in Ops : lease[o].state = "closed" =>
    /\ lease[o].outcome = "retracted" => Retracted(o) \/ Strayed(o)
    /\ lease[o].outcome = "notDispensed" =>
         CASE lease[o].authority = "transaction" -> cash[o] = "vault"
           [] lease[o].authority = "recovery" -> cash[o] \in {"vault", "retracted"}
           [] OTHER -> TRUE
RecordsInv == NotesInv /\ DispensesOnce /\ TakenWereShown /\ RetractsTrue /\ RecordsTrue

(* When a dispense is ordered, and when the present status is cleared.     *)
CommandStep ==
  /\ dev'.cmd = "dispense" =>
       (dev.cmd = "dispense" /\ dev'.op = dev.op) \/ (Ordered /\ dev'.op = fg.op)
  /\ dev.shown => dev'.shown \/ dev.cmd = "dispense"
LEMMA CommandSteps ==
  ASSUME TypeOK, [Next]_vars
  PROVE  CommandStep
<1>1. dev \in Device
  BY DEF TypeOK, DeviceOK
<1>2. CASE UNCHANGED dev
  BY <1>2 DEF CommandStep
<1>3. ASSUME NEW who \in {"session", "recovery"}, Answered(who)
      PROVE  CommandStep
  BY <1>3, AnswerMoves DEF TypeOK, CommandStep
<1>4. CASE Orders
  BY <1>1, <1>4 DEF Orders, issue, Device, CommandStep
<1>5. CASE issue("retract", rec.op, "recovery")
  BY <1>1, <1>5 DEF issue, Device, CommandStep
<1>6. CASE DeviceRejects \/ CommandTimesOut \/ HostRestarts \/ Crash
  BY ZenonT(80), <1>1, <1>6 DEF DeviceRejects, CommandTimesOut, HostRestarts, Crash, Answer, forgotten,
     NoCommand, Device, CommandStep
<1>7. CASE DeviceExecutes
  BY <1>1, <1>7 DEF DeviceExecutes, Answer, Shown, Device, Commands, CommandStep
<1>8. CASE SessionStep
  BY <1>2, <1>3, <1>4, <1>8, SessionCommands
<1>9. CASE RecoveryStep
  BY <1>2, <1>3, <1>5, <1>9, RecoveryCommands
<1>10. CASE EnvironmentStep
  BY <1>2, <1>6, <1>7, <1>10 DEF EnvironmentStep, CustomerTakes, HostLeaseExpires
<1> QED  BY <1>2, <1>8, <1>9, <1>10, ResolverCommands DEF Next, vars

LEMMA DispensesOnceStep ==
  ASSUME RecordsInv, [Next]_vars
  PROVE  DispensesOnce'
<1> SUFFICES ASSUME NEW o \in Ops, dev'.cmd = "dispense",
                    dev'.op = o \/ lease'[o].state \notin {"absent", "closed"}
             PROVE  cash'[o] = "vault"
  BY DEF DispensesOnce, Unresolved
<1> USE DEF RecordsInv, NotesInv, LeasesInv
<1>1. RowStep(o) /\ NoteStep(o) /\ CommandStep
  BY RowSteps, NotesMove, CommandSteps DEF OwnershipInv
<1>2. cash[o] = "vault" => cash'[o] = "vault"
  BY <1>1 DEF NoteStep
<1>3. CASE lease[o].state = "absent"
  BY <1>2, <1>3 DEF Untouched
<1>4. CASE Ordered /\ dev'.op = fg.op /\ lease[o].state # "absent"
  <2>1. /\ lease'[o] = lease[o] /\ fg.pc = "ready" /\ fg.phase = "planned"
    BY <1>4 DEF Ordered
  <2>2. /\ fg.op \in Ops /\ Unresolved(fg.op)
    BY <2>1 DEF OwnershipInv, SessionOwns, Owning, Unresolved, TypeOK, SessionOK
  <2>3. o = fg.op
    BY <1>4, <2>1, <2>2 DEF OwnershipInv, OneUnresolved, Unresolved
  <2> QED  BY <1>2, <2>1, <2>3 DEF Unmoved
<1>5. CASE dev.cmd = "dispense" /\ dev'.op = dev.op /\ lease[o].state # "absent"
  <2>1. dev.op = o \/ Unresolved(o)
    BY <1>1, <1>5 DEF RowStep, Created, Patched, Closed, Unresolved
  <2> QED  BY <1>2, <1>5, <2>1 DEF DispensesOnce
<1> QED  BY <1>1, <1>3, <1>4, <1>5 DEF CommandStep

LEMMA TakenWereShownStep ==
  ASSUME RecordsInv, [Next]_vars
  PROVE  TakenWereShown'
<1> SUFFICES ASSUME NEW o \in Ops, lease'[o].state \notin {"absent", "closed"},
                    cash'[o] = "customer"
             PROVE  dev'.shown
  BY DEF TakenWereShown, Unresolved
<1> USE DEF RecordsInv, NotesInv, LeasesInv
<1>1. RowStep(o) /\ NoteStep(o) /\ CommandStep
  BY RowSteps, NotesMove, CommandSteps DEF OwnershipInv
<1>2. cash[o] \in {"slot", "customer"}
  BY <1>1 DEF NoteStep
<1>3. Unresolved(o)
  BY <1>1, <1>2 DEF RowStep, Created, Patched, Closed, Unresolved, Untouched
<1>4. dev.shown
  BY <1>2, <1>3 DEF ShownOK, slotEmpty, TakenWereShown
<1>5. dev.cmd # "dispense"
  BY <1>2, <1>3 DEF DispensesOnce
<1> QED  BY <1>1, <1>4, <1>5 DEF CommandStep

(* Notes that were retracted, or went astray, stay so.                     *)
RetractedThen(o) == cash'[o] = "retracted" \/ \E p \in Ops : p # o /\ Strayed(p)'
LEMMA RetractedStays ==
  ASSUME RecordsInv, [Next]_vars
  PROVE  /\ \A p \in Ops : Strayed(p) => Strayed(p)'
         /\ \A o \in Ops : Retracted(o) => RetractedThen(o)
<1> USE DEF RecordsInv, NotesInv, LeasesInv
<1>1. ASSUME NEW o \in Ops, cash[o] = "retracted"
      PROVE  cash'[o] = "retracted"
  <2>1. NoteStep(o)
    BY NotesMove DEF OwnershipInv
  <2> QED  BY <1>1, <2>1 DEF NoteStep, DispensesOnce, Dispensing, InTransport
<1>2. ASSUME NEW p \in Ops, Strayed(p)
      PROVE  Strayed(p)'
  <2>1. lease[p].state = "closed" /\ RowStep(p)
    BY <1>2, RowSteps DEF Strayed, Disowned, InferredTaken
  <2>2. lease'[p] = lease[p]
    BY <2>1 DEF RowStep, Created, Patched, Closed, Unresolved
  <2> QED  BY <1>1, <1>2, <2>2 DEF Strayed, Disowned, InferredTaken
<1> QED  BY <1>1, <1>2 DEF Retracted, Foreign, RetractedThen

(* A retract for an unresolved operation takes its own notes, or those of  *)
(* an operation that nobody looks after any more.                          *)
LEMMA RetractTakes ==
  ASSUME NotesInv, DeviceExecutes, dev.cmd = "retract", NEW o \in Ops, Unresolved(o)
  PROVE  RetractedThen(o)
<1> USE DEF NotesInv, LeasesInv
<1>1. cash \in [Ops -> Places] /\ UNCHANGED lease
  BY DEF DeviceExecutes, OwnershipInv, TypeOK
<1>2. /\ \E q \in Ops : InTransport(q)
      /\ \A p \in Ops : InTransport(p) => cash'[p] = "retracted"
  BY <1>1 DEF DeviceExecutes, Possible, Moved, stackerEmpty, slotEmpty, InTransport
<1>3. PICK q \in Ops : InTransport(q)
  BY <1>2
<1>4. CASE q # o
  <2>1. Disowned(q) \/ InferredTaken(q)
    BY <1>3, <1>4 DEF CustodyIsOwned, OwnershipInv, OneUnresolved
  <2>2. Strayed(q)'
    BY <1>1, <1>2, <1>3, <2>1 DEF Strayed, Disowned, InferredTaken
  <2> QED  BY <1>4, <2>2 DEF RetractedThen
<1> QED  BY <1>2, <1>3, <1>4 DEF RetractedThen

(* How a session comes to retract, and to an outcome.                      *)
SessionConcludes ==
  /\ fg'.pc = "retract" => fg.pc = "ready"
  /\ fg'.pc \in {"finish", "close"} /\ fg'.out = "retracted" =>
       /\ fg'.op = fg.op
       /\ \/ fg.pc = "finish" /\ fg.out = "retracted"
          \/ fg.pc = "retract" /\ Waits("session") /\ Executed
LEMMA SessionConclusion ==
  ASSUME fg \in Session, SessionStep
  PROVE  SessionConcludes
<1> USE DEF SessionConcludes, Session
<1>1. ASSUME NEW step \in {"acquire", "before", "ready", "dispense", "dispensed", "present",
                          "presented", "release", "unlock", "left", "transfer", "transition", "bind"},
             fg'.pc = step
      PROVE  SessionConcludes
  BY <1>1
<1>2. ASSUME NEW step \in {"ready", "left", "release", "bind", "before"}, goto(step)
      PROVE  SessionConcludes
  BY <1>1, <1>2 DEF goto
<1>3. CASE fg' = NoSession
  BY <1>3 DEF NoSession
<1>4. CASE \E o \in Ops : Start(o)
  BY <1>4 DEF Start, NoSession
<1>5. CASE CreateLease \/ AcquireHostLease
  BY <1>2, <1>3, <1>5 DEF CreateLease, AcquireHostLease
<1>6. CASE PersistBefore
  BY <1>6 DEF PersistBefore
<1>7. CASE Dispense \/ Present
  BY <1>7 DEF Dispense, Present, ready, at
<1>8. CASE DispenseReturns \/ PresentReturns
  BY ZenonT(80), <1>8 DEF DispenseReturns, PresentReturns
<1>9. CASE DispensePersisted \/ PresentPersisted
  BY ZenonT(80), <1>2, <1>9 DEF DispensePersisted, PresentPersisted, UpdateAfter
<1>10. CASE TakeConfirmed
  BY <1>10 DEF TakeConfirmed
<1>11. CASE TakeTimesOut \/ Abort
  <2>1. fg.pc = "ready"
    BY <1>11 DEF TakeTimesOut, Abort, ready, at
  <2>2. ASSUME NEW recon, retract(recon)
        PROVE  SessionConcludes
    <3>1. \/ fg' = [fg EXCEPT !.pc = "finish", !.out = "custodyUnknown", !.recon = recon]
          \/ fg' = [fg EXCEPT !.pc = "retract", !.phase = "retracting", !.retr = TRUE,
                              !.recon = recon]
      BY <2>2 DEF retract
    <3>2. fg'.pc \in {"finish", "retract"} /\ (fg'.pc = "finish" => fg'.out = "custodyUnknown")
      BY <3>1
    <3> QED  BY <2>1, <3>2
  <2> QED  BY <1>2, <1>11, <2>2 DEF TakeTimesOut, Abort
<1>12. CASE RetractReturns
  <2>1. answered("session", "ok") => Waits("session") /\ Executed
    BY DEF answered, Waits, Executed
  <2> QED  BY ZenonT(60), <1>12, <2>1 DEF RetractReturns, at
<1>13. CASE Finish
  BY <1>13 DEF Finish, at
<1>14. CASE CloseLease \/ ReleaseHostLease \/ ReleaseLock
  BY ZenonT(60), <1>2, <1>14 DEF CloseLease, ReleaseHostLease, ReleaseLock, goto
<1>15. CASE Exit \/ AcceptTransfer
  BY <1>2, <1>15 DEF Exit, AcceptTransfer
<1>16. CASE TransferTransition \/ TransferBind \/ Leave
  BY <1>2, <1>3, <1>16 DEF TransferTransition, TransferBind, Leave
<1> QED
  BY <1>4, <1>5, <1>6, <1>7, <1>8, <1>9, <1>10, <1>11, <1>12, <1>13, <1>14, <1>15, <1>16
     DEF SessionStep

(* The answer to a retract was there already, or the dispenser gives it.   *)
ExecutedThen(who) == dev'.by = who /\ dev'.cmd = "none" /\ dev'.reply = "ok"
LEMMA SessionExecuted ==
  ASSUME NotesInv, [Next]_vars, ExecutedThen("session"), fg'.pc = "retract"
  PROVE  /\ fg' = fg /\ Waits("session")
         /\ Executed \/ (DeviceExecutes /\ dev.cmd = "retract")
<1> USE DEF NotesInv, LeasesInv, ExecutedThen
<1>1. dev \in Device /\ fg \in Session
  BY SessionFacts
<1>2. CASE UNCHANGED <<dev, fg>>
  BY <1>2 DEF Waits, Executed
<1>3. CASE SessionStep
  <2>1. UNCHANGED dev \/ Orders \/ Answered("session")
    BY <1>3, SessionCommands
  <2>2. ~Waits("session")
    BY <1>1, <1>3, SessionConclusion, SessionFacts DEF SessionConcludes, Asking
  <2>3. ~Orders /\ ~Answered("session")
    BY <1>1, AnswerMoves DEF Orders, issue, Device, Commands, OwnershipInv, TypeOK
  <2> QED  BY <2>1, <2>2, <2>3 DEF Waits
<1>4. CASE RecoveryStep
  <2>1. UNCHANGED fg /\ RunCommands
    BY <1>4, RecoveryCommands, RunCommandsOnly
  <2>2. ~issue("retract", rec.op, "recovery")
    BY <1>1 DEF issue, Device
  <2>3. Answered("recovery") => UNCHANGED dev
    BY AnswerMoves DEF OwnershipInv, TypeOK
  <2> QED  BY <1>2, <2>1, <2>2, <2>3 DEF RunCommands
<1>5. CASE DeviceRejects \/ CommandTimesOut \/ HostRestarts \/ Crash
  BY <1>1, <1>5 DEF DeviceRejects, CommandTimesOut, HostRestarts, Crash, Answer, forgotten,
     NoCommand, Device
<1>6. CASE DeviceExecutes
  <2>1. UNCHANGED fg /\ dev'.by = dev.by /\ dev.cmd # "none"
    BY <1>1, <1>6 DEF DeviceExecutes, Answer, Device
  <2> QED  BY <1>6, <2>1 DEF Waits, Asked
<1>7. CASE CustomerTakes \/ HostLeaseExpires
  BY <1>2, <1>7 DEF CustomerTakes, HostLeaseExpires
<1> QED
  BY <1>2, <1>3, <1>4, <1>5, <1>6, <1>7, ResolverCommands DEF Next, EnvironmentStep, vars

LEMMA RunExecuted ==
  ASSUME NotesInv, [Next]_vars, ExecutedThen("recovery")
  PROVE  /\ rec'.op = rec.op /\ rec'.retain = rec.retain /\ Waits("recovery")
         /\ Executed \/ (DeviceExecutes /\ dev.cmd = "retract")
<1> USE DEF NotesInv, LeasesInv, ExecutedThen
<1>1. dev \in Device /\ rec \in Worker
  BY SessionFacts
<1>2. CASE UNCHANGED dev /\ rec'.op = rec.op /\ rec'.retain = rec.retain
  BY <1>2 DEF Waits, Executed
<1>3. CASE SessionStep
  <2>1. UNCHANGED dev \/ Orders \/ Answered("session")
    BY <1>3, SessionCommands
  <2>2. ~Orders
    BY <1>1 DEF Orders, issue, Device
  <2>3. Answered("session") => UNCHANGED dev
    BY AnswerMoves DEF OwnershipInv, TypeOK
  <2> QED  BY <1>1, <1>2, <1>3, <2>1, <2>2, <2>3, SessionKeepsRun
<1>4. CASE RecoveryStep
  <2>1. RunCommands
    BY <1>4, RunCommandsOnly
  <2>2. ~issue("retract", rec.op, "recovery") /\ ~Answered("recovery")
    BY <1>1, AnswerMoves DEF issue, Device, OwnershipInv, TypeOK
  <2> QED  BY <2>1, <2>2 DEF RunCommands, Waits
<1>5. CASE DeviceRejects \/ CommandTimesOut \/ HostRestarts \/ Crash
  BY <1>1, <1>5 DEF DeviceRejects, CommandTimesOut, HostRestarts, Crash, Answer, forgotten,
     NoCommand, Device
<1>6. CASE DeviceExecutes
  <2>1. UNCHANGED rec /\ dev'.by = dev.by /\ dev.cmd # "none"
    BY <1>1, <1>6 DEF DeviceExecutes, Answer, Device
  <2> QED  BY <1>6, <2>1 DEF Waits, Asked
<1>7. CASE CustomerTakes \/ HostLeaseExpires
  BY <1>2, <1>7 DEF CustomerTakes, HostLeaseExpires
<1> QED
  BY <1>2, <1>3, <1>4, <1>5, <1>6, <1>7, ResolverCommands DEF Next, EnvironmentStep, vars

LEMMA RetractsTrueStep ==
  ASSUME RecordsInv, [Next]_vars
  PROVE  RetractsTrue'
<1> USE DEF RecordsInv
<1>1. /\ \A o \in Ops : Retracted(o) => RetractedThen(o)
      /\ fg \in Session /\ rec \in Worker /\ cash \in [Ops -> Places]
      /\ (fg.pc # "idle" => fg.op \in Ops) /\ (rec.pc # "idle" => rec.op \in Ops)
  BY RetractedStays, SessionFacts DEF NotesInv, LeasesInv, OwnershipInv, TypeOK, WorkerOK
<1>2. ASSUME ExecutedThen("session"), fg'.pc = "retract"
      PROVE  RetractedThen(fg.op) /\ fg' = fg
  <2>1. /\ fg' = fg /\ Waits("session")
        /\ Executed \/ (DeviceExecutes /\ dev.cmd = "retract")
    BY <1>2, SessionExecuted
  <2>2. Unresolved(fg.op) /\ fg.op \in Ops
    BY <1>1, <1>2, <2>1 DEF NotesInv, LeasesInv, OwnershipInv, SessionOwns, Owning, Unresolved
  <2>3. CASE Executed
    BY <1>1, <1>2, <2>1, <2>2, <2>3 DEF RetractsTrue
  <2> QED  BY <2>1, <2>2, <2>3, RetractTakes
<1>3. ASSUME ExecutedThen("recovery"), ~rec'.retain
      PROVE  RetractedThen(rec.op) /\ rec'.op = rec.op
  <2>1. /\ rec'.op = rec.op /\ rec'.retain = rec.retain /\ Waits("recovery")
        /\ Executed \/ (DeviceExecutes /\ dev.cmd = "retract")
    BY <1>3, RunExecuted
  <2>2. rec.pc = "retracting"
    BY <2>1, SessionFacts
  <2>3. Unresolved(rec.op) /\ rec.op \in Ops
    BY <1>1, <1>3, <2>1, <2>2 DEF NotesInv, LeasesInv, OwnershipInv, RunOwns, Unresolved
  <2>4. CASE Executed
    BY <1>1, <1>3, <2>1, <2>3, <2>4 DEF RetractsTrue
  <2> QED  BY <2>1, <2>3, <2>4, RetractTakes
<1>4. ASSUME fg'.pc \in {"finish", "close"}, fg'.out = "retracted"
      PROVE  RetractedThen(fg.op) /\ fg'.op = fg.op
  <2>1. CASE SessionStep
    <3>1. SessionConcludes
      BY <1>1, <2>1, SessionConclusion
    <3>2. Retracted(fg.op) /\ fg.op \in Ops
      BY <1>1, <1>4, <3>1 DEF SessionConcludes, RetractsTrue
    <3> QED  BY <1>1, <1>4, <3>1, <3>2 DEF SessionConcludes
  <2>2. CASE UNCHANGED fg
    BY <1>1, <1>4, <2>2 DEF RetractsTrue
  <2>3. ~Crash
    BY <1>4 DEF Crash, NoSession
  <2> QED
    BY <2>1, <2>2, <2>3, RecoveryCommands, ResolverCommands DEF Next, vars, EnvironmentStep,
       DeviceExecutes, DeviceRejects, CustomerTakes, CommandTimesOut, HostLeaseExpires, HostRestarts
<1>5. ASSUME rec'.pc \in Concluding, ~rec'.retain, rec'.obs \in {"retracted", "notDispensed"}
      PROVE  /\ rec'.op = rec.op
             /\ rec'.obs = "retracted" => RetractedThen(rec.op)
             /\ rec'.obs = "notDispensed" => cash'[rec.op] \in {"vault", "retracted"}
  <2> USE DEF NotesInv, LeasesInv
  <2>1. ASSUME rec.pc \in Concluding, ~rec.retain, rec'.op = rec.op, rec'.obs = rec.obs
        PROVE  /\ rec'.obs = "retracted" => RetractedThen(rec.op)
               /\ rec'.obs = "notDispensed" => cash'[rec.op] \in {"vault", "retracted"}
    <3>1. /\ rec.obs = "retracted" => Retracted(rec.op)
          /\ rec.obs = "notDispensed" => cash[rec.op] \in {"vault", "retracted"}
          /\ Settled(rec.op) /\ rec.op \in Ops
      BY <1>1, <1>5, <2>1 DEF Concluding, RetractsTrue, RunKnown
    <3>2. rec.op = fg.op => ~Ordered
      BY <2>1 DEF Concluding, Ordered, OwnershipInv, SessionAlone, Working, SessionSteps
    <3>3. cash'[rec.op] = cash[rec.op]
      <4>1. \A o \in Ops : NoteStep(o)
        BY NotesMove DEF OwnershipInv
      <4> QED  BY <3>1, <4>1 DEF NoteStep, Settled
    <3> QED  BY <1>1, <2>1, <3>1, <3>3
  <2>2. CASE RecoveryStep
    <3>1. RunConcludes /\ UNCHANGED cash
      BY <2>2, RunConclusion, RecoveryCommands DEF OwnershipInv
    <3>2. CASE rec.pc \in Concluding /\ rec'.obs = rec.obs
      BY <1>5, <2>1, <3>1, <3>2 DEF RunConcludes
    <3>3. CASE rec.pc = "observe" /\ rec'.obs = observe(rec.row) /\ rec'.obs = "notDispensed"
      <4>1. /\ rec'.op = rec.op /\ ~rec.retain /\ Settled(rec.op) /\ ~dev.shown
            /\ rec.op \in Ops
        BY <1>1, <1>5, <3>1, <3>3, ObservedNotDispensed DEF RunConcludes, observe
      <4>2. Unresolved(rec.op)
        BY <3>3, <4>1 DEF OwnershipInv, RunOwns, Unresolved
      <4>3. cash[rec.op] # "customer"
        BY <4>1, <4>2 DEF TakenWereShown
      <4> QED  BY <1>1, <3>1, <3>3, <4>1, <4>3 DEF Settled, InTransport, Places
    <3>4. CASE Waits("recovery") /\ Executed /\ rec'.obs = "retracted" /\ rec'.op = rec.op
               /\ rec'.retain = rec.retain /\ rec.op \in Ops
      BY <1>1, <1>5, <3>4 DEF RetractsTrue
    <3> QED  BY <1>5, <3>1, <3>2, <3>3, <3>4 DEF RunConcludes
  <2>3. CASE rec'.pc = rec.pc /\ rec'.op = rec.op /\ rec'.retain = rec.retain /\ rec'.obs = rec.obs
    BY <1>5, <2>1, <2>3
  <2>4. ~Crash
    BY <1>5 DEF Crash, NoRun, Concluding
  <2> QED
    BY <1>1, <2>2, <2>3, <2>4, SessionKeepsRun, ResolverCommands DEF Next, vars, EnvironmentStep,
       DeviceExecutes, DeviceRejects, CustomerTakes, CommandTimesOut, HostLeaseExpires, HostRestarts
<1> QED
  BY <1>2, <1>3, <1>4, <1>5 DEF RetractsTrue, Retracted, Foreign, RetractedThen, ExecutedThen,
     Waits, Executed, Concluding

LEMMA RecordsTrueStep ==
  ASSUME RecordsInv, [Next]_vars
  PROVE  RecordsTrue'
<1> SUFFICES ASSUME NEW o \in Ops, lease'[o].state = "closed"
             PROVE  /\ lease'[o].outcome = "retracted" => RetractedThen(o) \/ Strayed(o)'
                    /\ lease'[o].outcome = "notDispensed" =>
                         CASE lease'[o].authority = "transaction" -> cash'[o] = "vault"
                           [] lease'[o].authority = "recovery" -> cash'[o] \in {"vault", "retracted"}
                           [] OTHER -> TRUE
  BY DEF RecordsTrue, Retracted, Foreign, RetractedThen
<1> USE DEF RecordsInv, NotesInv, LeasesInv
<1>1. /\ RowStep(o) /\ NoteStep(o) /\ lease \in [Ops -> LeaseRecord]
      /\ Strayed(o) => Strayed(o)'
      /\ \A p \in Ops : Retracted(p) => RetractedThen(p)
  BY RowSteps, NotesMove, RetractedStays DEF OwnershipInv, TypeOK
<1>2. CASE lease'[o] = lease[o]
  <2>1. lease'[o].outcome = "retracted" => RetractedThen(o) \/ Strayed(o)'
    BY <1>1, <1>2 DEF RecordsTrue
  <2>2. ASSUME lease'[o].outcome = "notDispensed", lease'[o].authority \in {"transaction", "recovery"}
        PROVE  cash'[o] = cash[o]
    <3>1. Settled(o)
      BY <1>2, <2>2 DEF CustodyIsOwned, Settled, Dispensing, Unresolved, Disowned, InferredTaken
    <3>2. o = fg.op => ~Ordered
      BY <1>2 DEF Ordered, OwnershipInv, SessionOwns, Owning
    <3> QED  BY <1>1, <3>1, <3>2, SettledStays
  <2> QED  BY <1>1, <1>2, <2>1, <2>2 DEF RecordsTrue
<1>3. CASE Closed(o)
  <2>1. CASE /\ o = fg.op /\ fg.pc = "close"
             /\ lease'[o].outcome = fg.out /\ lease'[o].authority = "transaction"
    <3>1. fg.out = "retracted" => Retracted(o)
      BY <2>1 DEF RetractsTrue
    <3>2. fg.out = "notDispensed" => cash[o] = "vault" /\ ~Dispensing(o)
      BY <2>1 DEF OutcomeKnown, Unmoved
    <3>3. ~Ordered
      BY <2>1 DEF Ordered
    <3> QED  BY <1>1, <2>1, <3>1, <3>2, <3>3, SettledStays DEF Settled, InTransport
  <2>2. CASE /\ o = rec.op /\ rec.pc = "close"
             /\ lease'[o].outcome = rec.obs /\ lease'[o].authority = "recovery"
    <3>1. ~rec.retain
      BY <2>2 DEF OwnershipInv, RunOwns
    <3>2. rec.obs = "retracted" => Retracted(o)
      BY <2>2, <3>1 DEF RetractsTrue
    <3>3. rec.obs = "notDispensed" => cash[o] \in {"vault", "retracted"} /\ Settled(o)
      BY <2>2, <3>1 DEF RetractsTrue, RunKnown
    <3>4. o = fg.op => ~Ordered
      BY <2>2 DEF Ordered, OwnershipInv, SessionAlone, Working, SessionSteps
    <3> QED  BY <1>1, <2>2, <3>2, <3>3, <3>4, SettledStays
  <2>3. CASE lease'[o].authority = "maintenance"
    BY <2>3 DEF Strayed, Disowned
  <2> QED  BY <1>3, <2>1, <2>2, <2>3 DEF Closed
<1> QED  BY <1>1, <1>2, <1>3 DEF RowStep, Created, Patched

LEMMA RecordsStep == RecordsInv /\ [Next]_vars => RecordsInv'
  BY NotesStep, DispensesOnceStep, TakenWereShownStep, RetractsTrueStep, RecordsTrueStep
     DEF RecordsInv

LEMMA RecordsInit == Init => RecordsInv
<1> SUFFICES ASSUME Init
             PROVE  RecordsInv
  OBVIOUS
<1>1. NotesInv
  BY NotesInit
<1>2. /\ \A o \in Ops : cash[o] = "vault" /\ lease[o].state = "absent"
      /\ dev.cmd = "none" /\ dev.by = "nobody" /\ fg.pc = "idle" /\ rec.pc = "idle"
  BY DEF Init, NoCommand, NoLease, NoSession, NoRun
<1> QED
  BY <1>1, <1>2 DEF RecordsInv, DispensesOnce, TakenWereShown, RetractsTrue, RecordsTrue, Waits

(* As long as no notes went astray, a closed row that says retracted or    *)
(* not dispensed says where the notes are, whatever happens later.         *)
THEOREM RecordsAreTrue == Spec => []RecordedOutcomeIsTrue
<1>1. Init => RecordsInv
  BY RecordsInit
<1>2. RecordsInv /\ [Next]_vars => RecordsInv'
  BY RecordsStep
<1>3. RecordsInv => RecordedOutcomeIsTrue
  <2> SUFFICES ASSUME RecordsInv, NEW o \in Ops, lease[o].state = "closed",
                      \A p \in Ops : ~Strayed(p)
               PROVE  /\ lease[o].outcome = "notDispensed" =>
                           cash[o] \in IF lease[o].authority = "transaction"
                                       THEN {"vault"} ELSE {"vault", "retracted"}
                      /\ lease[o].outcome = "retracted" => cash[o] = "retracted"
    BY DEF RecordedOutcomeIsTrue
  <2>1. lease[o].authority \in {"transaction", "recovery"}
    BY DEF RecordsInv, NotesInv, LeasesInv, OwnershipInv, TypeOK, LeaseRecord, Authorities,
       Strayed, Disowned
  <2> QED  BY <2>1 DEF RecordsInv, RecordsTrue, Retracted, Foreign
<1> QED  BY <1>1, <1>2, <1>3, PTL DEF Spec
-----------------------------------------------------------------------------
(* What a session that ends has done.                                      *)
Ending == {"close", "release", "unlock", "left"}
EndKnown ==
  /\ fg.phase = "terminal" => fg.pc \in Ending /\ (fg.out = "taken" => cash[fg.op] = "customer")
  /\ fg.phase = "terminal" /\ ~fg.recon =>
       /\ {"after", "terminal"} \subseteq evid[fg.op]
       /\ fg.pc \in {"unlock", "left"} =>
            /\ lease[fg.op].state = "closed" /\ lease[fg.op].outcome = fg.out
            /\ lease[fg.op].authority = "transaction"
  /\ fg.phase = "terminal" /\ fg.pc = "left" => lock # fg.op

(* How a session ends.                                                     *)
EndsSo ==
  fg'.phase = "terminal" =>
    /\ fg'.op = fg.op /\ fg'.out = fg.out /\ (~fg'.recon => ~fg.recon)
    /\ \/ Finish /\ fg.pc = "finish" /\ fg'.pc = "close"
       \/ fg.phase = "terminal" /\ fg.pc = "close"
          /\ fg'.pc \in {"release", "unlock"} /\ (fg'.pc = "unlock" => fg'.recon)
       \/ fg.phase = "terminal" /\ fg.pc = "release" /\ fg'.pc = "unlock"
       \/ fg.phase = "terminal" /\ ReleaseLock /\ fg'.pc = "left"
LEMMA SessionEndsSo ==
  ASSUME fg \in Session, EndKnown, SessionStep
  PROVE  EndsSo
<1> USE DEF Session
<1>1. fg.phase = "terminal" => fg.pc \in Ending
  BY DEF EndKnown
<1>2. CASE fg'.phase # "terminal"
  BY <1>2 DEF EndsSo
<1>3. ASSUME fg.pc \notin Ending, fg'.phase = fg.phase
      PROVE  EndsSo
  BY <1>1, <1>2, <1>3
<1>4. CASE fg' = NoSession
  BY <1>2, <1>4 DEF NoSession
<1>5. ASSUME NEW step, fg.pc \notin Ending, goto(step)
      PROVE  EndsSo
  BY <1>3, <1>5 DEF goto
<1>6. CASE \E o \in Ops : Start(o)
  BY <1>2, <1>6 DEF Start, NoSession
<1>7. CASE CreateLease \/ AcquireHostLease
  <2>1. fg.pc \in {"create", "acquire"}
    BY <1>7 DEF CreateLease, AcquireHostLease, at
  <2>2. CASE fg' = [fg EXCEPT !.pc = "acquire", !.token = lease'[fg.op].token]
    BY <1>3, <2>1, <2>2 DEF Ending
  <2> QED  BY <1>4, <1>5, <1>7, <2>1, <2>2 DEF CreateLease, AcquireHostLease, Ending
<1>8. CASE PersistBefore
  <2>1. fg.pc = "before"
    BY <1>8 DEF PersistBefore, at
  <2>2. CASE fg' = [fg EXCEPT !.pc = "close", !.out = "notDispensed"]
    BY <1>3, <2>1, <2>2 DEF Ending
  <2> QED  BY <1>2, <1>8, <2>2 DEF PersistBefore
<1>9. CASE Dispense \/ Present
  BY <1>2, <1>9 DEF Dispense, Present
<1>10. CASE DispenseReturns \/ PresentReturns
  BY <1>2, <1>10 DEF DispenseReturns, PresentReturns
<1>11. CASE DispensePersisted \/ PresentPersisted
  BY <1>2, <1>5, <1>11 DEF DispensePersisted, PresentPersisted, UpdateAfter, at, Ending
<1>12. CASE TakeConfirmed
  BY <1>2, <1>12 DEF TakeConfirmed, ready
<1>13. CASE TakeTimesOut \/ Abort
  <2>1. fg.pc = "ready"
    BY <1>13 DEF TakeTimesOut, Abort, ready, at
  <2>2. ASSUME NEW recon, retract(recon)
        PROVE  EndsSo
    <3>1. \/ fg' = [fg EXCEPT !.pc = "finish", !.out = "custodyUnknown", !.recon = recon]
          \/ fg' = [fg EXCEPT !.pc = "retract", !.phase = "retracting", !.retr = TRUE,
                              !.recon = recon]
      BY <2>2 DEF retract
    <3>2. fg'.phase \in {fg.phase, "retracting"}
      BY <3>1
    <3> QED  BY <1>2, <1>3, <2>1, <3>2 DEF Ending
  <2>3. CASE fg' = [fg EXCEPT !.pc = "finish", !.out = "notDispensed"]
    BY <1>3, <2>1, <2>3 DEF Ending
  <2> QED  BY <1>5, <1>13, <2>1, <2>2, <2>3 DEF TakeTimesOut, Abort, Ending
<1>14. CASE RetractReturns
  <2>1. fg.pc = "retract" /\ fg'.phase = fg.phase
    BY <1>14 DEF RetractReturns, at
  <2> QED  BY <1>3, <2>1 DEF Ending
<1>15. CASE Finish
  BY ZenonT(60), <1>15 DEF Finish, at, EndsSo
<1>16. CASE CloseLease
  BY ZenonT(60), <1>1, <1>16 DEF CloseLease, at, goto, EndsSo
<1>17. CASE ReleaseHostLease
  BY <1>1, <1>17 DEF ReleaseHostLease, at, goto, EndsSo
<1>18. CASE ReleaseLock
  BY <1>1, <1>18 DEF ReleaseLock, recordSafely, at, EndsSo
<1>19. CASE Exit
  <2>1. fg.pc = "ready" /\ fg'.phase = fg.phase
    BY <1>19 DEF Exit, at, goto
  <2> QED  BY <1>3, <2>1 DEF Ending
<1>20. CASE AcceptTransfer
  <2>1. fg.pc = "transfer" /\ fg'.phase = fg.phase
    BY <1>20 DEF AcceptTransfer, at, goto
  <2> QED  BY <1>3, <2>1 DEF Ending
<1>21. CASE TransferTransition \/ TransferBind
  <2>1. fg.pc \in {"transition", "bind"} /\ fg'.phase = fg.phase
    BY <1>21 DEF TransferTransition, TransferBind, at, goto
  <2> QED  BY <1>3, <2>1 DEF Ending
<1>22. CASE Leave
  BY <1>4, <1>22 DEF Leave
<1> QED
  BY <1>6, <1>7, <1>8, <1>9, <1>10, <1>11, <1>12, <1>13, <1>14, <1>15, <1>16, <1>17, <1>18, <1>19,
     <1>20, <1>21, <1>22 DEF SessionStep

(* A lock that is free of o stays so while the session keeps o.            *)
LEMMA LockStaysFree ==
  ASSUME TypeOK, [Next]_vars, fg.pc = "left", lock # fg.op, fg' = fg
  PROVE  lock' # fg.op
<1>1. fg.op \in Ops /\ (lock' = lock \/ lock' = NoOp)
  BY DEF TypeOK, SessionOK, Next, vars, SessionStep, Start, CreateLease, AcquireHostLease,
     PersistBefore, Dispense, DispenseReturns, DispensePersisted, Present, PresentReturns,
     PresentPersisted, UpdateAfter, TakeConfirmed, TakeTimesOut, Abort, RetractReturns, Finish,
     CloseLease, ReleaseHostLease, ReleaseLock, Exit, AcceptTransfer, TransferTransition,
     TransferBind, Leave, at, ready, RecoveryStep, RunStarts, Bind, BindSwap, Deadline, Observe,
     RecoveryRetract, RecoveryRetractReturns, CaptureAfterSnapshot, ReleaseResources,
     CloseRecovered, EnterIntervention, freeLock, ResolverStep, Resolve, ResolverSwap,
     ResolverEvidence, ResolverRelease, ResolverClose, EnvironmentStep, DeviceExecutes,
     DeviceRejects, CustomerTakes, CommandTimesOut, HostLeaseExpires, HostRestarts, Crash
<1> QED  BY SMTT(40), <1>1

LEMMA EndKnownStep ==
  ASSUME RecordsInv, EndKnown, [Next]_vars
  PROVE  EndKnown'
<1> USE DEF RecordsInv, NotesInv, LeasesInv
<1>1. /\ fg \in Session /\ evid \in [Ops -> SUBSET Kinds] /\ Grows
      /\ \A o \in Ops : RowStep(o) /\ NoteStep(o)
      /\ (fg.pc # "idle" => fg.op \in Ops) /\ lock \in Ops \cup {NoOp}
  BY SessionFacts, EvidenceGrows, RowSteps, NotesMove DEF OwnershipInv, TypeOK
<1>2. CASE SessionStep
  <2> SUFFICES ASSUME fg'.phase = "terminal"
               PROVE  EndKnown'
    BY DEF EndKnown
  <2>1. EndsSo /\ fg.pc # "idle" /\ UNCHANGED cash
    BY <1>1, <1>2, SessionEndsSo, SessionCommands DEF EndsSo, EndKnown, Ending, ReleaseLock, at
  <2>2. fg'.pc \in Ending /\ (fg.pc = "unlock" \/ fg'.pc # "left")
    BY <2>1 DEF EndsSo, Ending, ReleaseLock, at
  <2>3. fg.out = "taken" => cash[fg.op] = "customer"
    BY <2>1 DEF EndsSo, EndKnown, OutcomeKnown
  <2>4. ~fg'.recon => {"after", "terminal"} \subseteq evid'[fg.op]
    <3>1. CASE Finish /\ ~fg'.recon
      <4>1. fg \in Session
        BY <1>1
      <4>2. evid' = [evid EXCEPT ![fg.op] = @ \cup {"after", "terminal"}]
        BY <3>1, <4>1 DEF Finish, Session
      <4> QED  BY <1>1, <2>1, <4>2
    <3>2. CASE fg.phase = "terminal" /\ ~fg.recon
      BY <1>1, <2>1, <3>2 DEF EndKnown, Grows
    <3> QED  BY <2>1, <3>1, <3>2 DEF EndsSo
  <2>5. ~fg'.recon /\ fg'.pc \in {"unlock", "left"} =>
          /\ lease'[fg.op].state = "closed" /\ lease'[fg.op].outcome = fg.out
          /\ lease'[fg.op].authority = "transaction"
    <3>1. ~fg'.recon /\ fg'.pc \in {"unlock", "left"} =>
            /\ lease[fg.op].state = "closed" /\ lease[fg.op].outcome = fg.out
            /\ lease[fg.op].authority = "transaction"
      BY <2>1 DEF EndsSo, EndKnown, OwnershipInv, SessionOwns, ReleaseLock, at
    <3> QED  BY <1>1, <2>1, <3>1 DEF RowStep, Created, Patched, Closed, Unresolved
  <2>6. fg'.pc = "left" => lock' # fg.op
    BY <1>1, <2>1 DEF EndsSo, ReleaseLock
  <2> QED  BY <2>1, <2>2, <2>3, <2>4, <2>5, <2>6 DEF EndKnown, EndsSo
<1>3. CASE UNCHANGED fg
  <2> SUFFICES ASSUME fg.phase = "terminal"
               PROVE  EndKnown'
    BY <1>3 DEF EndKnown
  <2>1. fg.pc \in Ending /\ fg.op \in Ops
    BY <1>1 DEF EndKnown, Ending
  <2>2. fg.out = "taken" => cash'[fg.op] = "customer"
    BY <1>1, <2>1 DEF EndKnown, NoteStep, DispensesOnce, Dispensing, InTransport
  <2>3. ~fg.recon => {"after", "terminal"} \subseteq evid'[fg.op]
    BY <1>1, <2>1 DEF EndKnown, Grows
  <2>4. ~fg.recon /\ fg.pc \in {"unlock", "left"} =>
          /\ lease'[fg.op].state = "closed" /\ lease'[fg.op].outcome = fg.out
          /\ lease'[fg.op].authority = "transaction"
    BY <1>1, <2>1 DEF EndKnown, RowStep, Created, Patched, Closed, Unresolved
  <2>5. fg.pc = "left" => lock' # fg.op
    BY <1>3, LockStaysFree DEF EndKnown, OwnershipInv
  <2> QED  BY <1>3, <2>1, <2>2, <2>3, <2>4, <2>5 DEF EndKnown
<1>4. CASE Crash
  BY <1>4 DEF Crash, NoSession, EndKnown
<1> QED
  BY <1>2, <1>3, <1>4, RecoveryCommands, ResolverCommands DEF Next, vars, EnvironmentStep,
     DeviceExecutes, DeviceRejects, CustomerTakes, CommandTimesOut, HostLeaseExpires, HostRestarts

(* A session that says it has nothing to reconcile has left a closed row,  *)
(* complete evidence and the notes where its outcome says, and does not    *)
(* hold the device lock, as long as no notes went astray.                  *)
THEOREM CleanEndsAreComplete == Spec => []CleanEndIsComplete
<1>1. Init => RecordsInv /\ EndKnown /\ EvidenceInv
  <2>1. Init => EndKnown
    BY DEF Init, NoSession, EndKnown
  <2> QED  BY <2>1, RecordsInit, EvidenceInit
<1>2. RecordsInv /\ EndKnown /\ EvidenceInv /\ [Next]_vars => (RecordsInv /\ EndKnown /\ EvidenceInv)'
  BY RecordsStep, EndKnownStep, EvidenceStep
<1>3. RecordsInv /\ EndKnown /\ EvidenceInv => CleanEndIsComplete
  <2> SUFFICES ASSUME RecordsInv, EndKnown, EvidenceInv, fg.pc = "left", fg.phase = "terminal",
                      ~fg.recon, \A o \in Ops : ~Strayed(o)
               PROVE  /\ lease[fg.op].state = "closed" /\ lease[fg.op].outcome = fg.out
                      /\ {"before", "after", "terminal"} \subseteq evid[fg.op]
                      /\ fg.out = "taken" => cash[fg.op] = "customer"
                      /\ fg.out = "retracted" => cash[fg.op] = "retracted"
                      /\ fg.out = "notDispensed" => cash[fg.op] = "vault"
                      /\ lock # fg.op
    BY DEF CleanEndIsComplete, at
  <2>1. /\ fg.op \in Ops /\ lease[fg.op].state = "closed" /\ lease[fg.op].outcome = fg.out
        /\ lease[fg.op].authority = "transaction"
    BY DEF EndKnown, EvidenceInv, TypeOK, SessionOK
  <2>2. {"before", "after", "terminal"} \subseteq evid[fg.op]
    BY DEF EndKnown, EvidenceInv, SessionBacked
  <2>3. /\ fg.out = "retracted" => cash[fg.op] = "retracted"
        /\ fg.out = "notDispensed" => cash[fg.op] = "vault"
    BY <2>1 DEF RecordsInv, RecordsTrue, Retracted, Foreign
  <2> QED  BY <2>1, <2>2, <2>3 DEF EndKnown
<1> QED  BY <1>1, <1>2, <1>3, PTL DEF Spec
=============================================================================
