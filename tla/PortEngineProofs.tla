-------------------------- MODULE PortEngineProofs --------------------------
(***************************************************************************)
(* Invariants of the mutation path, for every number of threads, ports,    *)
(* devices, publishers and requests, and what its commits guarantee: the   *)
(* compare of compare-and-commit is exact when no attempt identity is used *)
(* twice, because the six fields ExpectedState::matches compares then      *)
(* determine the whole record.                                             *)
(***************************************************************************)
EXTENDS PortEngine, PortRecordProofs

-----------------------------------------------------------------------------
(* Outcome codes. *)

\* rejection_for_fenced_state answers with an outcome code of the engine.
LEMMA RejectionCode ==
  ASSUME NEW lifecycle
  PROVE  RejectionForFencedState(lifecycle) \in OutcomeCodes
BY DEF RejectionForFencedState, OutcomeCodes

\* Every builder answers with an outcome code of the engine.
LEMMA BuildCode ==
  ASSUME NEW in, NEW r, r.kind \in MutationKinds
  PROVE  BuildFailure(in, r) \in OutcomeCodes
<1> USE RejectionCode
<1>1. ConfigureFailure(in, r) \in OutcomeCodes
  BY DEF ConfigureFailure, OutcomeCodes
<1>2. ReconfigureFailure(in, r) \in OutcomeCodes
  BY DEF ReconfigureFailure, OutcomeCodes
<1>3. AdministrativeFailure(in, r) \in OutcomeCodes
  BY DEF AdministrativeFailure, OutcomeCodes
<1>4. AssignProfileFailure(in, r) \in OutcomeCodes
  BY DEF AssignProfileFailure, OutcomeCodes
<1>5. BindCapabilitiesFailure(in, r) \in OutcomeCodes
  BY DEF BindCapabilitiesFailure, OutcomeCodes
<1>6. ReconcileFailure(in, r) \in OutcomeCodes
  BY DEF ReconcileFailure, OutcomeCodes
<1>7. FenceFailure(in, r) \in OutcomeCodes
  BY DEF FenceFailure, OutcomeCodes
<1>8. OwnershipFailure(in, r) \in OutcomeCodes
  BY DEF OwnershipFailure, OutcomeCodes
<1>9. AppliedEvidenceFailure(in, r) \in OutcomeCodes
  BY DEF AppliedEvidenceFailure, OutcomeCodes
<1>10. DriftFailure(in, r) \in OutcomeCodes
  BY DEF DriftFailure, OutcomeCodes
<1> HIDE RejectionCode
<1> QED
  BY <1>1, <1>2, <1>3, <1>4, <1>5, <1>6, <1>7, <1>8, <1>9, <1>10
  DEF BuildFailure, MutationKinds, ConfigurationKinds, OwnershipKinds, FenceKinds

\* Every gate of execute_mutation answers with an outcome code of the engine.
LEMMA PrepareCode ==
  ASSUME NEW in, NEW r, r.kind \in MutationKinds
  PROVE  PrepareOutcome(in, r) \in OutcomeCodes
<1>1. PlanFailure(in, r) \in OutcomeCodes
  BY BuildCode DEF PlanFailure, OutcomeCodes
<1>2. ExpectationOutcome(in.current, r) \in OutcomeCodes
  BY DEF ExpectationOutcome, OutcomeCodes
<1>3. OwnershipOutcome(in.current, r) \in OutcomeCodes
  BY DEF OwnershipOutcome, OutcomeCodes
<1>4. DeviceOutcome(in, r) \in OutcomeCodes
  BY DEF DeviceOutcome, OutcomeCodes
<1>5. "CAPABILITY_UNAVAILABLE" \in OutcomeCodes
  BY DEF OutcomeCodes
<1> QED
  BY <1>1, <1>2, <1>3, <1>4, <1>5 DEF PrepareOutcome

-----------------------------------------------------------------------------
(* Type correctness. *)

\* A thread that answers is left in a well-typed state.
LEMMA RespondType ==
  ASSUME ThreadsTypeOK, NEW t \in Threads, NEW code \in OutcomeCodes, Respond(t, code)
  PROVE  ThreadsTypeOK'
<1>1. /\ pc' \in [Threads -> Labels]
      /\ req' \in [Threads -> Requests \cup {NoRequest}]
      /\ snap' \in [Threads -> PortRecords \cup {NoRecord}]
      /\ plan' \in [Threads -> PortRecords \cup {NoRecord}]
      /\ outcome' \in [Threads -> OutcomeCodes]
  BY DEF ThreadsTypeOK, Respond, Goto, Labels
<1>2. ASSUME NEW u \in Threads PROVE ThreadTypeOK(u)'
  BY DEF ThreadsTypeOK, ThreadTypeOK, Respond, Goto
<1> QED
  BY <1>1, <1>2 DEF ThreadsTypeOK

\* A thread that goes on with the request, snapshot and plan it has.
LEMMA ProceedType ==
  ASSUME ThreadsTypeOK, NEW t \in Threads, NEW label \in Labels, Goto(t, label),
         req' = req, snap' \in [Threads -> PortRecords \cup {NoRecord}],
         plan' \in [Threads -> PortRecords \cup {NoRecord}],
         outcome' \in [Threads -> OutcomeCodes],
         \A u \in Threads \ {t} : snap'[u] = snap[u] /\ plan'[u] = plan[u],
         pc[t] # "idle",
         label \in {"topology", "prepare", "apply", "readback", "commit", "uncertain"}
           => snap'[t] \in PortRecords,
         label \in {"apply", "readback", "commit", "uncertain"} => plan'[t] \in PortRecords,
         label \in {"apply", "readback"} => plan'[t].configuration \in Configurations
  PROVE  ThreadsTypeOK'
<1>1. pc' \in [Threads -> Labels]
  BY DEF ThreadsTypeOK, Goto
<1>2. ASSUME NEW u \in Threads PROVE ThreadTypeOK(u)'
  BY DEF ThreadsTypeOK, ThreadTypeOK, Goto
<1> QED
  BY <1>1, <1>2 DEF ThreadsTypeOK

\* What a configuration puts on the device is a device view.
LEMMA DeviceViewType ==
  ASSUME NEW c \in Configurations
  PROVE  DeviceView(c) \in DeviceViews
BY DEF DeviceView, DeviceViews, Configurations

\* The type invariant holds initially.
LEMMA TypeInit == Init => TypeOK
<1> SUFFICES ASSUME Init PROVE TypeOK
  OBVIOUS
<1>1. AuthorityTypeOK
  BY AuthorityAssumption DEF Init, AuthorityInit, AuthorityTypeOK
<1>2. records \in [Ports -> PortRecords]
  BY AdmissionAssumption DEF Init
<1>3. hardware \in [Ports -> DeviceViews \cup {NoHardware}]
  <2>1. InitialRecord.configuration \in Configurations \cup {NoConfiguration}
    BY AdmissionAssumption DEF PortRecords
  <2>2. InitialHardware \in DeviceViews \cup {NoHardware}
    BY <2>1, DeviceViewType DEF InitialHardware
  <2> QED BY <2>2 DEF Init
<1>4. ThreadsTypeOK
  BY DEF Init, ThreadsTypeOK, ThreadTypeOK, Labels, OutcomeCodes
<1>5. delivered \in [Requests -> Nat] /\ commits \in [Requests -> Nat]
  BY DEF Init
<1> QED
  BY <1>1, <1>2, <1>3, <1>4, <1>5 DEF TypeOK

\* Delivering a request preserves the type invariant.
LEMMA DeliverType ==
  ASSUME TypeOK, NEW t \in Threads, NEW r \in Requests, Deliver(t, r)
  PROVE  TypeOK'
<1> USE DEF TypeOK, Deliver
<1>1. delivered' \in [Requests -> Nat]
  OBVIOUS
<1>2. ThreadsTypeOK'
  <2>1. /\ pc' \in [Threads -> Labels]
        /\ req' \in [Threads -> Requests \cup {NoRequest}]
        /\ outcome' \in [Threads -> OutcomeCodes]
    BY DEF ThreadsTypeOK, Goto, Labels, OutcomeCodes
  <2>2. ASSUME NEW u \in Threads PROVE ThreadTypeOK(u)'
    BY DEF ThreadsTypeOK, ThreadTypeOK, Goto
  <2> QED BY <2>1, <2>2 DEF ThreadsTypeOK
<1> QED
  BY <1>1, <1>2 DEF AuthorityTypeOK, authorityVars

\* What the reads and gates of a thread leave alone.
LEMMA CheckAuthorityType ==
  ASSUME TypeOK, NEW t \in Threads, CheckAuthority(t)
  PROVE  TypeOK'
<1>1. req[t] \in Requests
  BY DEF TypeOK, ThreadsTypeOK, ThreadTypeOK, CheckAuthority
<1>2. publishers' \in [Publishers -> PublisherRecords \cup {Unregistered}]
  BY <1>1, RequestTypes
  DEF TypeOK, AuthorityTypeOK, CheckAuthority, RegisterOnUse, Incarnation, PublisherRecords
<1>3. AuthorityOutcome(req[t]) \in OutcomeCodes
  BY DEF AuthorityOutcome, OutcomeCodes
<1>4. ThreadsTypeOK'
  <2>1. CASE AuthorityOutcome(req[t]) = "OK"
    BY <2>1, ProceedType DEF TypeOK, ThreadsTypeOK, CheckAuthority, Labels
  <2>2. CASE AuthorityOutcome(req[t]) # "OK"
    BY <2>2, <1>3, RespondType DEF TypeOK, CheckAuthority
  <2> QED BY <2>1, <2>2
<1> QED
  BY <1>2, <1>4 DEF TypeOK, AuthorityTypeOK, CheckAuthority, countVars

\* Reading the snapshot preserves the type invariant.
LEMMA ReadSnapshotType ==
  ASSUME TypeOK, NEW t \in Threads, ReadSnapshot(t)
  PROVE  TypeOK'
<1> DEFINE rec == records[req[t].port]
           code == SnapshotOutcome(rec, req[t])
<1>1. rec \in PortRecords
  BY RequestTypes DEF TypeOK, ThreadsTypeOK, ThreadTypeOK, ReadSnapshot
<1>2. code \in OutcomeCodes
  BY DEF SnapshotOutcome, OutcomeCodes
<1>3. ThreadsTypeOK'
  <2>1. CASE code = "OK"
    <3>1. snap' = [snap EXCEPT ![t] = rec] /\ req' = req /\ plan' = plan /\ outcome' = outcome
      BY <2>1 DEF ReadSnapshot
    <3>2. PICK label \in {"prepare", "topology"} : Goto(t, label)
      BY <2>1 DEF ReadSnapshot
    <3>3. snap' \in [Threads -> PortRecords \cup {NoRecord}] /\ snap'[t] \in PortRecords
      BY <3>1, <1>1 DEF TypeOK, ThreadsTypeOK
    <3>4. pc[t] # "idle" /\ label \in Labels
      BY <3>2 DEF ReadSnapshot, Labels
    <3> HIDE DEF rec, code
    <3> QED
      BY <3>1, <3>2, <3>3, <3>4, ProceedType DEF TypeOK, ThreadsTypeOK
  <2>2. CASE code # "OK"
    BY <2>2, <1>2, RespondType DEF TypeOK, ReadSnapshot
  <2> QED BY <2>1, <2>2
<1> QED
  BY <1>3 DEF TypeOK, AuthorityTypeOK, ReadSnapshot, authorityVars, countVars

\* The topology check preserves the type invariant.
LEMMA CheckTopologyType ==
  ASSUME TypeOK, NEW t \in Threads, CheckTopology(t)
  PROVE  TypeOK'
<1>1. ThreadsTypeOK'
  <2>1. CASE req[t].expTopology = topology
    <3>1. Goto(t, "prepare") /\ UNCHANGED <<req, snap, plan, outcome>> /\ pc[t] = "topology"
      BY <2>1 DEF CheckTopology
    <3>2. snap[t] \in PortRecords
      BY <3>1 DEF TypeOK, ThreadsTypeOK, ThreadTypeOK
    <3> QED
      BY <3>1, <3>2, ProceedType DEF TypeOK, ThreadsTypeOK, Labels
  <2>2. CASE req[t].expTopology # topology
    BY <2>2, RespondType DEF TypeOK, CheckTopology, OutcomeCodes
  <2> QED BY <2>1, <2>2
<1> QED
  BY <1>1 DEF TypeOK, AuthorityTypeOK, CheckTopology, authorityVars, countVars

\* What a thread builds its plan from.
LEMMA BuildInputType ==
  ASSUME TypeOK, NEW t \in Threads, pc[t] = "prepare",
         NEW capability \in ResolveCapabilities(snap[t], req[t])
  PROVE  /\ req[t] \in Requests /\ snap[t] \in PortRecords
         /\ BuildInput(t, capability) \in BuildInputs
<1>1. req[t] \in Requests /\ snap[t] \in PortRecords
  BY DEF TypeOK, ThreadsTypeOK, ThreadTypeOK
<1>2. capability \in Bindings
  <2>1. NoBinding \in Bindings
    BY DEF NoBinding, Bindings
  <2>2. snap[t].capability \in Bindings
    BY <1>1 DEF PortRecords
  <2> QED
    BY <2>1, <2>2, AdmissionAssumption DEF ResolveCapabilities
<1>3. devices[DeviceOf[req[t].port]] \in Nat /\ topology \in Nat
  BY <1>1, RequestTypes, PortEngineAssumption DEF TypeOK, AuthorityTypeOK
<1> QED
  BY <1>1, <1>2, <1>3 DEF BuildInput, BuildInputs

\* Preparing a plan preserves the type invariant.
LEMMA PrepareType ==
  ASSUME TypeOK, NEW t \in Threads, Prepare(t)
  PROVE  TypeOK'
<1>1. pc[t] = "prepare"
  BY DEF Prepare
<1>2. PICK capability \in ResolveCapabilities(snap[t], req[t]) :
        LET in   == BuildInput(t, capability)
            code == PrepareOutcome(in, req[t])
            next == Planned(in, req[t])
        IN  IF code # "OK" THEN Respond(t, code)
            ELSE /\ UNCHANGED <<req, snap, outcome>>
                 /\ IF ~RequiresApply(req[t])
                    THEN /\ plan' = [plan EXCEPT ![t] = next]
                         /\ Goto(t, "commit")
                    ELSE IF AdapterPolicy = "DesiredStateOnly"
                    THEN /\ plan' = [plan EXCEPT ![t] = Settled(next, "NOT_ATTEMPTED")]
                         /\ Goto(t, "commit")
                    ELSE /\ plan' = [plan EXCEPT ![t] = next]
                         /\ Goto(t, "apply")
  BY DEF Prepare
<1> DEFINE in == BuildInput(t, capability)
           code == PrepareOutcome(in, req[t])
           next == Planned(in, req[t])
<1>3. req[t] \in Requests /\ snap[t] \in PortRecords /\ in \in BuildInputs
  BY <1>1, BuildInputType
<1>4. code \in OutcomeCodes
  BY <1>3, RequestTypes, PrepareCode
<1>5. ThreadsTypeOK'
  <2>1. CASE code # "OK"
    BY <1>2, <2>1, <1>4, RespondType DEF TypeOK
  <2>2. CASE code = "OK"
    <3>1. PlanFailure(in, req[t]) = "OK"
      BY <2>2 DEF PrepareOutcome
    <3>2. /\ next \in PortRecords
          /\ RequiresApply(req[t]) => next.configuration \in Configurations
      BY <3>1, <1>3, PlannedType
    <3>3. Settled(next, "NOT_ATTEMPTED") \in PortRecords
      BY <3>2, SettledType DEF AppliedOutcomes
    <3>4. UNCHANGED <<req, snap, outcome>>
      BY <1>2, <2>2
    <3> HIDE DEF in, code, next
    <3>5. CASE ~RequiresApply(req[t])
      <4>1. plan' = [plan EXCEPT ![t] = next] /\ Goto(t, "commit")
        BY <1>2, <2>2, <3>5 DEF in, code, next
      <4>2. plan' \in [Threads -> PortRecords \cup {NoRecord}] /\ plan'[t] \in PortRecords
            /\ \A u \in Threads \ {t} : plan'[u] = plan[u]
        BY <4>1, <3>2 DEF TypeOK, ThreadsTypeOK
      <4> QED
        BY <4>1, <4>2, <3>4, <1>1, <1>3, ProceedType DEF TypeOK, ThreadsTypeOK, Labels
    <3>6. CASE RequiresApply(req[t]) /\ AdapterPolicy = "DesiredStateOnly"
      <4>1. plan' = [plan EXCEPT ![t] = Settled(next, "NOT_ATTEMPTED")] /\ Goto(t, "commit")
        BY <1>2, <2>2, <3>6 DEF in, code, next
      <4>2. plan' \in [Threads -> PortRecords \cup {NoRecord}] /\ plan'[t] \in PortRecords
            /\ \A u \in Threads \ {t} : plan'[u] = plan[u]
        BY <4>1, <3>3 DEF TypeOK, ThreadsTypeOK
      <4> QED
        BY <4>1, <4>2, <3>4, <1>1, <1>3, ProceedType DEF TypeOK, ThreadsTypeOK, Labels
    <3>7. CASE RequiresApply(req[t]) /\ AdapterPolicy # "DesiredStateOnly"
      <4>1. plan' = [plan EXCEPT ![t] = next] /\ Goto(t, "apply")
        BY <1>2, <2>2, <3>7 DEF in, code, next
      <4>2. plan' \in [Threads -> PortRecords \cup {NoRecord}] /\ plan'[t] = next
            /\ \A u \in Threads \ {t} : plan'[u] = plan[u]
        BY <4>1, <3>2 DEF TypeOK, ThreadsTypeOK
      <4> QED
        BY <4>1, <4>2, <3>2, <3>4, <3>7, <1>1, <1>3, ProceedType
        DEF TypeOK, ThreadsTypeOK, Labels
    <3> QED BY <3>5, <3>6, <3>7
  <2> QED BY <2>1, <2>2
<1> QED
  BY <1>5 DEF TypeOK, AuthorityTypeOK, Prepare, authorityVars, countVars

\* Settling an apply leaves the threads well typed.
LEMMA SettleType ==
  ASSUME ThreadsTypeOK, NEW t \in Threads, pc[t] \in {"apply", "readback"},
         NEW applied \in AppliedOutcomes, Settle(t, applied)
  PROVE  ThreadsTypeOK'
<1>1. plan[t] \in PortRecords /\ snap[t] \in PortRecords
  BY DEF ThreadsTypeOK, ThreadTypeOK
<1>2. plan' \in [Threads -> PortRecords \cup {NoRecord}] /\ plan'[t] \in PortRecords
      /\ \A u \in Threads \ {t} : plan'[u] = plan[u]
  BY <1>1, SettledType DEF Settle, ThreadsTypeOK
<1> QED
  BY <1>1, <1>2, ProceedType DEF Settle, ThreadsTypeOK, Labels

\* An apply in doubt leaves the threads well typed.
LEMMA DoubtType ==
  ASSUME ThreadsTypeOK, NEW t \in Threads, pc[t] \in {"apply", "readback"},
         NEW code \in OutcomeCodes, Doubt(t, code)
  PROVE  ThreadsTypeOK'
<1>1. plan[t] \in PortRecords /\ snap[t] \in PortRecords
  BY DEF ThreadsTypeOK, ThreadTypeOK
<1>2. outcome' \in [Threads -> OutcomeCodes]
  BY DEF Doubt, ThreadsTypeOK
<1> QED
  BY <1>1, <1>2, ProceedType DEF Doubt, ThreadsTypeOK, Labels

\* Every outcome of an adapter call preserves the type invariant.
LEMMA AdapterType ==
  ASSUME TypeOK, NEW t \in Threads,
         \/ ApplySucceeds(t) \/ ApplyUnsupported(t) \/ ApplyFails(t) \/ ApplyUnknown(t)
         \/ ReadbackVerified(t) \/ ReadbackUnsupported(t) \/ ReadbackInconclusive(t)
  PROVE  TypeOK'
<1>1. ThreadsTypeOK
  BY DEF TypeOK
<1>2. pc[t] \in {"apply", "readback"}
  BY DEF ApplySucceeds, ApplyUnsupported, ApplyFails, ApplyUnknown, ReadbackVerified,
         ReadbackUnsupported, ReadbackInconclusive
<1>3. /\ req[t].port \in Ports
      /\ plan[t] \in PortRecords /\ snap[t] \in PortRecords
      /\ plan[t].configuration \in Configurations
  BY <1>1, <1>2, RequestTypes DEF ThreadsTypeOK, ThreadTypeOK
<1>4. hardware' \in [Ports -> DeviceViews \cup {NoHardware}]
  BY <1>3, DeviceViewType
  DEF TypeOK, ApplySucceeds, ApplyUnsupported, ApplyFails, ApplyUnknown, ReadbackVerified,
      ReadbackUnsupported, ReadbackInconclusive
<1>5. ThreadsTypeOK'
  <2>1. CASE ApplySucceeds(t)
    <3>1. CASE AdapterPolicy = "ApplyAndVerify"
      BY <2>1, <3>1, <1>1, <1>2, <1>3, ProceedType DEF ApplySucceeds, ThreadsTypeOK, Labels
    <3>2. CASE AdapterPolicy # "ApplyAndVerify"
      BY <2>1, <3>2, <1>1, <1>2, SettleType DEF ApplySucceeds, AppliedOutcomes
    <3> QED BY <3>1, <3>2
  <2>2. CASE ApplyUnsupported(t)
    BY <2>2, <1>1, <1>2, SettleType DEF ApplyUnsupported, AppliedOutcomes
  <2>3. CASE ApplyFails(t)
    BY <2>3, <1>1, RespondType DEF ApplyFails, OutcomeCodes
  <2>4. CASE ApplyUnknown(t)
    BY <2>4, <1>1, <1>2, DoubtType DEF ApplyUnknown, OutcomeCodes
  <2>5. CASE ReadbackVerified(t)
    BY <2>5, <1>1, <1>2, SettleType DEF ReadbackVerified, AppliedOutcomes
  <2>6. CASE ReadbackUnsupported(t)
    BY <2>6, <1>1, <1>2, SettleType DEF ReadbackUnsupported, AppliedOutcomes
  <2>7. CASE ReadbackInconclusive(t)
    BY <2>7, <1>1, <1>2, DoubtType DEF ReadbackInconclusive, OutcomeCodes
  <2> QED
    BY <2>1, <2>2, <2>3, <2>4, <2>5, <2>6, <2>7
<1>6. UNCHANGED <<authorityVars, records, countVars>>
  BY DEF ApplySucceeds, ApplyUnsupported, ApplyFails, ApplyUnknown, ReadbackVerified,
         ReadbackUnsupported, ReadbackInconclusive
<1> QED
  BY <1>4, <1>5, <1>6 DEF TypeOK, AuthorityTypeOK, authorityVars, countVars

\* Recording an uncertain apply preserves the type invariant.
LEMMA RecordUncertaintyType ==
  ASSUME TypeOK, NEW t \in Threads, RecordUncertainty(t)
  PROVE  TypeOK'
<1>1. ThreadsTypeOK /\ req[t].port \in Ports /\ plan[t] \in PortRecords
  BY RequestTypes DEF TypeOK, ThreadsTypeOK, ThreadTypeOK, RecordUncertainty
<1>2. plan[t].generations.configuration \in Nat
  BY <1>1, GenerationTypes
<1>3. Uncertain(records[req[t].port], plan[t].generations.configuration) \in PortRecords
  BY <1>1, <1>2, UncertainType DEF TypeOK
<1>4. records' \in [Ports -> PortRecords]
  BY <1>1, <1>3 DEF TypeOK, RecordUncertainty
<1>5. ThreadsTypeOK'
  BY <1>1, RespondType DEF RecordUncertainty, ThreadsTypeOK
<1> QED
  BY <1>4, <1>5
  DEF TypeOK, AuthorityTypeOK, RecordUncertainty, authorityVars, countVars

\* A commit, admitted or refused, preserves the type invariant.
LEMMA CommitType ==
  ASSUME TypeOK, NEW t \in Threads, Commit(t)
  PROVE  TypeOK'
<1>1. ThreadsTypeOK /\ req[t] \in Requests /\ req[t].port \in Ports /\ plan[t] \in PortRecords
  BY RequestTypes DEF TypeOK, ThreadsTypeOK, ThreadTypeOK, Commit
<1>2. records' \in [Ports -> PortRecords] /\ commits' \in [Requests -> Nat]
  BY <1>1 DEF TypeOK, Commit
<1>3. CommitOutcome(records[req[t].port], snap[t], plan[t]) \in OutcomeCodes
  BY DEF CommitOutcome, OutcomeCodes
<1>4. ThreadsTypeOK'
  BY <1>1, <1>3, RespondType DEF Commit
<1> QED
  BY <1>2, <1>4 DEF TypeOK, AuthorityTypeOK, Commit, authorityVars

\* Epochs, fences, registrations and generations preserve the type invariant.
LEMMA AuthorityStepsType ==
  ASSUME TypeOK,
         \/ BeginEpoch
         \/ \E p \in Publishers, b \in Boots : FencePublisher(p, b)
         \/ AuthorityStep
  PROVE  TypeOK'
<1>1. UNCHANGED <<hardware, pc, req, snap, plan, outcome, delivered, commits>>
  BY DEF BeginEpoch, FencePublisher, AuthorityStep, threadVars, countVars
<1>2. records' \in [Ports -> PortRecords]
  <2>1. CASE BeginEpoch
    BY <2>1, ReleasedOwnershipType DEF TypeOK, BeginEpoch, ReleaseOwnership
  <2>2. CASE \E p \in Publishers, b \in Boots : FencePublisher(p, b)
    BY <2>2, ReleasedOwnershipType DEF TypeOK, FencePublisher, ReleaseOwnership
  <2>3. CASE AuthorityStep
    BY <2>3 DEF TypeOK, AuthorityStep
  <2> QED BY <2>1, <2>2, <2>3
<1>3. AuthorityTypeOK'
  <2> USE DEF TypeOK, AuthorityTypeOK, PublisherRecords
  <2>1. CASE BeginEpoch
    <3>1. epoch' \in Nat /\ UNCHANGED <<devices, topology>>
      BY <2>1 DEF BeginEpoch, AdvanceEpoch
    <3>2. publishers' \in [Publishers -> PublisherRecords \cup {Unregistered}]
      BY <2>1 DEF BeginEpoch, AdvanceEpoch, Registered
    <3> QED BY <3>1, <3>2
  <2>2. CASE \E p \in Publishers, b \in Boots : FencePublisher(p, b)
    BY <2>2 DEF FencePublisher, MarkFenced, Registered
  <2>3. CASE AuthorityStep
    <3>1. CASE \E p \in Publishers, b \in Boots : RegisterPublisher(p, b)
      BY <3>1 DEF RegisterPublisher, Incarnation
    <3>2. CASE (\E d \in Devices : RegisterDevice(d)) \/ SetTopologyGeneration
      BY <3>2 DEF RegisterDevice, SetTopologyGeneration
    <3> QED BY <2>3, <3>1, <3>2 DEF AuthorityStep
  <2> QED BY <2>1, <2>2, <2>3
<1>4. ThreadsTypeOK'
  BY <1>1 DEF TypeOK, ThreadsTypeOK, ThreadTypeOK
<1> QED
  BY <1>1, <1>2, <1>3, <1>4 DEF TypeOK

\* Every step preserves the type invariant.
LEMMA TypeStep ==
  ASSUME TypeOK, [Next]_vars
  PROVE  TypeOK'
<1>1. ASSUME NEW t \in Threads, NEW r \in Requests, Deliver(t, r) PROVE TypeOK'
  BY <1>1, DeliverType
<1>2. ASSUME NEW t \in Threads, ThreadStep(t) PROVE TypeOK'
  BY <1>2, CheckAuthorityType, ReadSnapshotType, CheckTopologyType, PrepareType,
     AdapterType, RecordUncertaintyType, CommitType DEF ThreadStep
<1>3. ASSUME \/ BeginEpoch
             \/ \E p \in Publishers, b \in Boots : FencePublisher(p, b)
             \/ AuthorityStep
      PROVE  TypeOK'
  BY <1>3, AuthorityStepsType
<1>4. CASE UNCHANGED vars
  BY <1>4 DEF vars, authorityVars, threadVars, countVars, TypeOK, AuthorityTypeOK,
              ThreadsTypeOK, ThreadTypeOK
<1> QED
  BY <1>1, <1>2, <1>3, <1>4 DEF Next

\* Every reachable state is well typed: whatever is interleaved, the engine
\* holds, proposes and remembers only complete port records, and a thread has
\* the request, snapshot and plan that its place in execute_mutation reads.
THEOREM TypeCorrect == Spec => []TypeOK
BY TypeInit, TypeStep, PTL DEF Spec

-----------------------------------------------------------------------------
(* Authority. *)

\* Every step leaves the unfenced incarnations in the current epoch.
LEMMA CurrentStep ==
  ASSUME TypeOK, LiveIncarnationsAreCurrent, [Next]_vars
  PROVE  LiveIncarnationsAreCurrent'
<1> USE DEF LiveIncarnationsAreCurrent, Registered
<1>1. epoch \in Nat /\ publishers \in [Publishers -> PublisherRecords \cup {Unregistered}]
  BY DEF TypeOK, AuthorityTypeOK
<1>2. ASSUME NEW t \in Threads, CheckAuthority(t) PROVE LiveIncarnationsAreCurrent'
  BY <1>1, <1>2 DEF CheckAuthority, RegisterOnUse, AuthorityOutcome, Incarnation
<1>3. CASE BeginEpoch
  <2>1. epoch' = epoch + 1
        /\ publishers' = [p \in Publishers |->
             IF publishers[p] # Unregistered /\ publishers[p].epoch < epoch'
             THEN [publishers[p] EXCEPT !.fenced = TRUE] ELSE publishers[p]]
    BY <1>3 DEF BeginEpoch, AdvanceEpoch
  <2> SUFFICES ASSUME NEW p \in Publishers, publishers'[p] # Unregistered,
                      ~publishers'[p].fenced
               PROVE  publishers'[p].epoch = epoch'
    OBVIOUS
  <2>2. CASE publishers[p] = Unregistered
    BY <2>1, <2>2
  <2>3. CASE publishers[p] \in PublisherRecords
    <3>1. publishers[p].epoch \in Nat /\ publishers[p].fenced \in BOOLEAN
      BY <2>3 DEF PublisherRecords
    <3>2. CASE publishers[p].epoch < epoch'
      BY <2>1, <2>3, <3>2, PortEngineAssumption DEF PublisherRecords
    <3>3. CASE ~(publishers[p].epoch < epoch')
      <4>1. publishers'[p] = publishers[p]
        BY <2>1, <3>3
      <4>2. publishers[p].epoch = epoch
        BY <4>1
      <4> QED BY <1>1, <2>1, <3>3, <4>2
    <3> QED BY <3>2, <3>3
  <2> QED BY <1>1, <2>2, <2>3
<1>4. ASSUME NEW p \in Publishers, NEW b \in Boots, FencePublisher(p, b)
      PROVE  LiveIncarnationsAreCurrent'
  BY <1>1, <1>4, PortEngineAssumption DEF FencePublisher, MarkFenced, PublisherRecords
<1>5. CASE AuthorityStep
  BY <1>1, <1>5
  DEF AuthorityStep, RegisterPublisher, RegisterDevice, SetTopologyGeneration, Incarnation
<1>6. ASSUME UNCHANGED authorityVars PROVE LiveIncarnationsAreCurrent'
  BY <1>6 DEF authorityVars
<1> QED
  BY <1>2, <1>3, <1>4, <1>5, <1>6
  DEF Next, ThreadStep, Deliver, ReadSnapshot, CheckTopology, Prepare, ApplySucceeds,
      ApplyUnsupported, ApplyFails, ApplyUnknown, ReadbackVerified, ReadbackUnsupported,
      ReadbackInconclusive, RecordUncertainty, Commit, vars

\* An incarnation that is not fenced was registered in the current epoch: a new
\* epoch leaves no survivor of an earlier one with the authority to mutate.
THEOREM SurvivorsAreFenced == Spec => []LiveIncarnationsAreCurrent
<1>1. Init => LiveIncarnationsAreCurrent
  BY AuthorityAssumption DEF Init, AuthorityInit, LiveIncarnationsAreCurrent, Registered
<1> QED
  BY <1>1, TypeInit, TypeStep, CurrentStep, PTL DEF Spec

-----------------------------------------------------------------------------
(* The shape of a step of execute_mutation. *)

Planning == {"apply", "readback", "commit", "uncertain"}

\* The plan is built from the snapshot for a request every gate admits.
Plans(t) ==
  \E capability \in ResolveCapabilities(snap[t], req[t]) :
    LET in == BuildInput(t, capability) IN
    /\ in \in BuildInputs /\ PrepareOutcome(in, req[t]) = "OK"
    /\ plan'[t] \in {Planned(in, req[t]), Settled(Planned(in, req[t]), "NOT_ATTEMPTED")}
    /\ IF pc'[t] = "commit" THEN plan'[t] \in SettledResults(Planned(in, req[t]), req[t])
       ELSE MayEndInDoubt(req[t]) /\ plan'[t] = Planned(in, req[t])

\* The plan goes to the device as it is, and settles when the adapter answers.
Applies(t) ==
  /\ pc[t] \in {"apply", "readback"}
  /\ IF pc'[t] = "commit"
     THEN plan'[t] \in {Settled(plan[t], a) : a \in {"APPLIED", "UNSUPPORTED", "VERIFIED"}}
     ELSE plan'[t] = plan[t]

\* What a step of thread t may do to the thread itself.
ThreadShape(t) ==
  \/ pc'[t] = "idle" /\ snap'[t] = NoRecord
  \/ /\ pc'[t] # "idle" /\ req'[t] = req[t]
     /\ \/ snap'[t] = snap[t]
        \/ /\ snap'[t] = records[req[t].port] /\ records' = records
           /\ SnapshotOutcome(records[req[t].port], req[t]) = "OK" /\ pc'[t] \notin Planning
     /\ pc'[t] \in Planning =>
          \/ pc[t] = "prepare" /\ Plans(t)
          \/ pc[t] \in Planning /\ Applies(t)

\* What a step of thread t may do to the records and the commit counts.
RecordShape(t) ==
  \/ records' = records /\ commits' = commits
  \/ /\ pc[t] = "uncertain" /\ pc'[t] = "idle" /\ commits' = commits
     /\ records' = [records EXCEPT ![req[t].port] =
                      Uncertain(@, plan[t].generations.configuration)]
  \/ /\ pc[t] = "commit" /\ pc'[t] = "idle"
     /\ CommitOutcome(records[req[t].port], snap[t], plan[t]) = "OK"
     /\ records' = [records EXCEPT ![req[t].port] = plan[t]]
     /\ commits' = [commits EXCEPT ![req[t]] = @ + 1]

Others(t) ==
  \A u \in Threads \ {t} :
    pc'[u] = pc[u] /\ req'[u] = req[u] /\ snap'[u] = snap[u] /\ plan'[u] = plan[u]

\* What a step of a thread may do to it, to the other threads and to the records.
LEMMA StepShape ==
  ASSUME TypeOK, NEW t \in Threads, ThreadStep(t)
  PROVE  pc[t] # "idle" /\ delivered' = delivered /\ Others(t) /\ ThreadShape(t) /\ RecordShape(t)
<1>0. /\ pc \in [Threads -> Labels]
      /\ req \in [Threads -> Requests \cup {NoRequest}]
      /\ snap \in [Threads -> PortRecords \cup {NoRecord}]
      /\ plan \in [Threads -> PortRecords \cup {NoRecord}]
  BY DEF TypeOK, ThreadsTypeOK
<1> USE DEF Others, ThreadShape, RecordShape, Planning, countVars
<1>1. CASE CheckAuthority(t)
  BY <1>0, <1>1 DEF CheckAuthority, Respond, Goto
<1>2. CASE ReadSnapshot(t)
  BY <1>0, <1>2 DEF ReadSnapshot, Respond, Goto
<1>3. CASE CheckTopology(t)
  BY <1>0, <1>3 DEF CheckTopology, Respond, Goto
<1>4. CASE Prepare(t)
  <2>1. PICK capability \in ResolveCapabilities(snap[t], req[t]) :
          LET in   == BuildInput(t, capability)
              code == PrepareOutcome(in, req[t])
              next == Planned(in, req[t])
          IN  IF code # "OK" THEN Respond(t, code)
              ELSE /\ UNCHANGED <<req, snap, outcome>>
                   /\ \E result \in {next, Settled(next, "NOT_ATTEMPTED")} :
                        /\ plan' = [plan EXCEPT ![t] = result]
                        /\ \/ Goto(t, "commit") /\ result \in SettledResults(next, req[t])
                           \/ Goto(t, "apply") /\ MayEndInDoubt(req[t]) /\ result = next
    BY <1>4 DEF Prepare, SettledResults, MayEndInDoubt
  <2> DEFINE in == BuildInput(t, capability)
             code == PrepareOutcome(in, req[t])
             next == Planned(in, req[t])
  <2>2. pc[t] = "prepare" /\ UNCHANGED <<records, delivered, commits>>
    BY <1>4 DEF Prepare
  <2>3. req[t] \in Requests /\ in \in BuildInputs
    BY <2>2, BuildInputType
  <2> HIDE DEF in, code, next
  <2>5. CASE code # "OK"
    BY <1>0, <2>1, <2>2, <2>5 DEF Respond, Goto, in, code
  <2>6. CASE code = "OK"
    <3>1. req' = req /\ snap' = snap
      BY <2>1, <2>6 DEF in, code
    <3>2. PICK result \in {next, Settled(next, "NOT_ATTEMPTED")} :
            /\ plan' = [plan EXCEPT ![t] = result]
            /\ \/ Goto(t, "commit") /\ result \in SettledResults(next, req[t])
               \/ Goto(t, "apply") /\ MayEndInDoubt(req[t]) /\ result = next
      BY <2>1, <2>6 DEF in, code, next
    <3>3. plan'[t] = result
      BY <1>0, <3>2
    <3>4. \/ pc'[t] = "commit" /\ result \in SettledResults(next, req[t])
          \/ pc'[t] = "apply" /\ MayEndInDoubt(req[t]) /\ result = next
      BY <1>0, <3>2 DEF Goto
    <3>5. Plans(t)
      BY <2>1, <2>3, <2>6, <3>2, <3>3, <3>4 DEF Plans, in, code, next
    <3> QED BY <1>0, <2>2, <3>1, <3>2, <3>4, <3>5 DEF Goto
  <2> QED BY <2>5, <2>6
<1>5. CASE ApplySucceeds(t) \/ ApplyUnsupported(t) \/ ApplyFails(t)
  BY <1>0, <1>5
  DEF Applies, ApplySucceeds, ApplyUnsupported, ApplyFails, Settle, Respond, Goto
<1>6. CASE ApplyUnknown(t)
  BY <1>0, <1>6 DEF Applies, ApplyUnknown, Doubt, Goto
<1>7. CASE ReadbackVerified(t) \/ ReadbackUnsupported(t) \/ ReadbackInconclusive(t)
  BY <1>0, <1>7
  DEF Applies, ReadbackVerified, ReadbackUnsupported, ReadbackInconclusive, Settle, Doubt, Goto
<1>8. CASE RecordUncertainty(t)
  BY <1>0, <1>8 DEF RecordUncertainty, Respond, Goto
<1>9. CASE Commit(t)
  BY <1>0, <1>9 DEF Commit, Respond, Goto
<1> QED
  BY <1>1, <1>2, <1>3, <1>4, <1>5, <1>6, <1>7, <1>8, <1>9 DEF ThreadStep

\* Settling an apply moves neither the attempt nor the lifecycle of a plan.
LEMMA SettledFields ==
  ASSUME NEW rec \in PortRecords, NEW applied
  PROVE  LET settled == Settled(rec, applied) IN
         /\ settled.attempt = rec.attempt /\ settled.lifecycle = rec.lifecycle
         /\ settled.generations.lifecycle = rec.generations.lifecycle
BY DEF Settled, PortRecords, GenerationVectors

\* A plan carries the attempt of the request it was built for.
LEMMA PlansAttempt ==
  ASSUME TypeOK, NEW t \in Threads, req[t] \in Requests, Plans(t)
  PROVE  plan'[t].attempt = req[t].attempt
<1>1. PICK in \in BuildInputs :
        /\ PrepareOutcome(in, req[t]) = "OK"
        /\ plan'[t] \in {Planned(in, req[t]), Settled(Planned(in, req[t]), "NOT_ATTEMPTED")}
  BY DEF Plans, BuildInput
<1>2. PlanFailure(in, req[t]) = "OK"
  BY <1>1 DEF PrepareOutcome
<1>3. Planned(in, req[t]) \in PortRecords /\ Planned(in, req[t]).attempt = req[t].attempt
  BY <1>2, PlannedType
<1> QED BY <1>1, <1>3, SettledFields

-----------------------------------------------------------------------------
(* The inductive invariant. *)

\* The attempts that a committed mutation has used up.
Spent == {InitialAttempt} \cup {r.attempt : r \in {q \in Requests : commits[q] # 0}}

\* Only a delivered request is executed, by one thread, and not yet committed.
Exclusive ==
  /\ \A r \in Requests : delivered[r] <= MaxDeliveries /\ (commits[r] # 0 => delivered[r] # 0)
  /\ \A t \in Threads : pc[t] # "idle" => delivered[req[t]] # 0 /\ commits[req[t]] = 0
  /\ \A t, u \in Threads : (t # u /\ pc[t] # "idle" /\ pc[u] # "idle") => req[t] # req[u]

\* Records and snapshots carry attempts of the past, plans one of the future.
AttemptsSpent ==
  /\ \A p \in Ports : records[p].attempt \in Spent
  /\ \A t \in Threads : snap[t] # NoRecord => pc[t] # "idle" /\ snap[t].attempt \in Spent
  /\ \A t \in Threads : pc[t] \in Planning => plan[t].attempt = req[t].attempt

\* cur is the record rec was copied from, or it is distinguishable from it: a
\* commit spends a new attempt, doubt advances the evidence generation and a
\* release the ownership generation.
Trail(rec, cur) ==
  \/ rec = cur
  \/ rec.attempt # cur.attempt
  \/ rec.generations.evidence < cur.generations.evidence
  \/ rec.generations.ownership < cur.generations.ownership

SnapshotsTrail ==
  \A t \in Threads : snap[t] # NoRecord => Trail(snap[t], records[req[t].port])

Inv == TypeOK /\ Exclusive /\ AttemptsSpent /\ SnapshotsTrail

\* The invariant of compare-and-commit holds initially.
LEMMA InvInit == Init => Inv
<1> SUFFICES ASSUME Init PROVE Inv
  OBVIOUS
<1>1. TypeOK
  BY TypeInit
<1>2. Exclusive
  BY PortEngineAssumption DEF Init, Exclusive
<1>3. AttemptsSpent
  BY AdmissionAssumption DEF Init, AttemptsSpent, Spent, Planning
<1>4. SnapshotsTrail
  BY DEF Init, SnapshotsTrail
<1> QED BY <1>1, <1>2, <1>3, <1>4 DEF Inv

\* Delivering a request with an unused attempt preserves the invariant.
LEMMA InvDeliver ==
  ASSUME UniqueAttempts, Inv, NEW t \in Threads, NEW r \in Requests, Deliver(t, r)
  PROVE  Exclusive' /\ AttemptsSpent' /\ SnapshotsTrail'
<1>1. /\ pc \in [Threads -> Labels] /\ req \in [Threads -> Requests \cup {NoRequest}]
      /\ delivered \in [Requests -> Nat] /\ commits \in [Requests -> Nat]
      /\ \A u \in Threads : pc[u] # "idle" => req[u] \in Requests
  BY DEF Inv, TypeOK, ThreadsTypeOK, ThreadTypeOK
<1>2. delivered[r] = 0 /\ commits[r] = 0 /\ MaxDeliveries = 1
  BY <1>1, PortEngineAssumption DEF UniqueAttempts, Deliver, Inv, Exclusive
<1>3. delivered' = [delivered EXCEPT ![r] = 1] /\ pc[t] = "idle"
  BY <1>1, <1>2 DEF Deliver
<1>4. /\ pc' = [pc EXCEPT ![t] = "authority"] /\ req' = [req EXCEPT ![t] = r]
      /\ UNCHANGED <<records, snap, plan, commits>>
  BY DEF Deliver, Goto
<1>5. Exclusive'
  BY <1>1, <1>2, <1>3, <1>4 DEF Inv, Exclusive
<1>6. AttemptsSpent'
  BY <1>1, <1>3, <1>4 DEF Inv, AttemptsSpent, Spent, Planning
<1>7. SnapshotsTrail'
  BY <1>1, <1>3, <1>4 DEF Inv, AttemptsSpent, SnapshotsTrail
<1> QED BY <1>5, <1>6, <1>7

\* The attempt a thread would commit is on no record and in no snapshot.
LEMMA PlanAttemptIsNew ==
  ASSUME UniqueAttempts, Inv, NEW t \in Threads, pc[t] = "commit"
  PROVE  plan[t].attempt \notin Spent
<1>1. plan[t].attempt = req[t].attempt /\ req[t] \in Requests /\ commits[req[t]] = 0
  BY DEF Inv, AttemptsSpent, Planning, Exclusive, TypeOK, ThreadsTypeOK, ThreadTypeOK
<1> QED
  BY <1>1, RequestTypes, IdentitiesAssumption DEF Spent, UniqueAttempts

\* An uncertain apply keeps the attempt and advances the evidence generation.
LEMMA UncertainTrail ==
  ASSUME NEW rec \in PortRecords, NEW generation \in Nat
  PROVE  /\ Uncertain(rec, generation).attempt = rec.attempt
         /\ Uncertain(rec, generation).generations.evidence = rec.generations.evidence + 1
         /\ Uncertain(rec, generation).generations.ownership = rec.generations.ownership
BY DEF Uncertain, WithLifecycle, PortRecords, GenerationVectors

\* A release keeps the attempt and advances the ownership generation.
LEMMA ReleaseTrail ==
  ASSUME NEW rec \in PortRecords
  PROVE  /\ ReleasedOwnership(rec).attempt = rec.attempt
         /\ ReleasedOwnership(rec).generations.evidence = rec.generations.evidence
         /\ ReleasedOwnership(rec).generations.ownership = rec.generations.ownership + 1
BY DEF ReleasedOwnership, PortRecords, GenerationVectors

\* A step of a thread preserves the invariant.
LEMMA InvThreadStep ==
  ASSUME UniqueAttempts, Inv, NEW t \in Threads, ThreadStep(t)
  PROVE  Exclusive' /\ AttemptsSpent' /\ SnapshotsTrail'
<1> DEFINE p == req[t].port
<1>1. /\ pc[t] # "idle" /\ delivered' = delivered
      /\ Others(t) /\ ThreadShape(t) /\ RecordShape(t)
  BY StepShape DEF Inv
<1>2. /\ records \in [Ports -> PortRecords]
      /\ delivered \in [Requests -> Nat] /\ commits \in [Requests -> Nat]
      /\ req[t] \in Requests /\ p \in Ports
      /\ \A u \in Threads : pc[u] # "idle" => req[u] \in Requests /\ req[u].port \in Ports
      /\ \A u \in Threads : snap[u] # NoRecord => snap[u] \in PortRecords
  BY <1>1, RequestTypes DEF Inv, TypeOK, ThreadsTypeOK, ThreadTypeOK
<1>3. CASE records' = records /\ commits' = commits
  <2>1. Exclusive'
    BY <1>1, <1>2, <1>3 DEF Inv, Exclusive, Others, ThreadShape
  <2>2. AttemptsSpent'
    <3>1. Spent' = Spent
      BY <1>3 DEF Spent
    <3>2. \A u \in Threads : snap'[u] # NoRecord => pc'[u] # "idle" /\ snap'[u].attempt \in Spent
      BY <1>1, <1>2 DEF Inv, AttemptsSpent, Others, ThreadShape
    <3>3. \A u \in Threads : pc'[u] \in Planning => plan'[u].attempt = req'[u].attempt
      <4> SUFFICES ASSUME NEW u \in Threads, pc'[u] \in Planning
                   PROVE  plan'[u].attempt = req'[u].attempt
        OBVIOUS
      <4>1. CASE u # t
        BY <4>1, <1>1 DEF Inv, AttemptsSpent, Others
      <4>2. CASE u = t /\ Plans(t)
        BY <4>2, <1>1, <1>2, PlansAttempt DEF Inv, ThreadShape, Planning
      <4>3. CASE u = t /\ pc[t] \in Planning /\ Applies(t)
        <5>1. plan[t] \in PortRecords /\ plan[t].attempt = req[t].attempt
          BY <4>3 DEF Inv, AttemptsSpent, TypeOK, ThreadsTypeOK, ThreadTypeOK, Planning
        <5>2. req'[t] = req[t]
          BY <4>3, <1>1 DEF ThreadShape, Planning
        <5> QED BY <4>3, <5>1, <5>2, SettledFields DEF Applies
      <4> QED BY <1>1, <4>1, <4>2, <4>3 DEF ThreadShape, Planning
    <3> QED BY <1>3, <3>1, <3>2, <3>3 DEF Inv, AttemptsSpent
  <2>3. SnapshotsTrail'
    BY <1>1, <1>2, <1>3 DEF Inv, AttemptsSpent, SnapshotsTrail, Trail, Others, ThreadShape
  <2> QED BY <2>1, <2>2, <2>3
<1>4. CASE /\ pc[t] = "uncertain" /\ pc'[t] = "idle" /\ commits' = commits
           /\ records' = [records EXCEPT ![p] =
                            Uncertain(@, plan[t].generations.configuration)]
  <2>1. plan[t].generations.configuration \in Nat
    BY <1>4, GenerationTypes DEF Inv, TypeOK, ThreadsTypeOK, ThreadTypeOK
  <2>2. /\ records'[p].attempt = records[p].attempt
        /\ records'[p].generations.evidence = records[p].generations.evidence + 1
        /\ records'[p].generations.ownership = records[p].generations.ownership
        /\ \A q \in Ports \ {p} : records'[q] = records[q]
    BY <1>2, <1>4, <2>1, UncertainTrail
  <2>3. snap'[t] = NoRecord
    BY <1>1, <1>4 DEF ThreadShape
  <2>4. Exclusive'
    BY <1>1, <1>2, <1>4 DEF Inv, Exclusive, Others
  <2>5. AttemptsSpent'
    BY <1>1, <1>2, <1>4, <2>2, <2>3 DEF Inv, AttemptsSpent, Spent, Others, Planning
  <2>6. SnapshotsTrail'
    <3> SUFFICES ASSUME NEW u \in Threads, snap'[u] # NoRecord
                 PROVE  Trail(snap'[u], records'[req'[u].port])
      BY DEF SnapshotsTrail
    <3>1. u # t /\ snap'[u] = snap[u] /\ req'[u] = req[u]
      BY <2>3, <1>1 DEF Others
    <3>2. snap[u] \in PortRecords /\ req[u].port \in Ports
          /\ Trail(snap[u], records[req[u].port])
      BY <3>1, <1>2 DEF Inv, AttemptsSpent, SnapshotsTrail
    <3>3. /\ records[p].generations.evidence \in Nat /\ snap[u].generations.evidence \in Nat
          /\ records[p].generations.ownership \in Nat /\ snap[u].generations.ownership \in Nat
      BY <1>2, <3>2, GenerationTypes
    <3> QED BY <2>2, <3>1, <3>2, <3>3 DEF Trail
  <2> QED BY <2>4, <2>5, <2>6
<1>5. CASE /\ pc[t] = "commit" /\ pc'[t] = "idle"
           /\ records' = [records EXCEPT ![p] = plan[t]]
           /\ commits' = [commits EXCEPT ![req[t]] = @ + 1]
  <2>1. plan[t].attempt = req[t].attempt
    BY <1>5 DEF Inv, AttemptsSpent, Planning
  <2>2. plan[t].attempt \notin Spent
    BY <1>5, PlanAttemptIsNew
  <2>3. /\ records'[p] = plan[t] /\ \A q \in Ports \ {p} : records'[q] = records[q]
        /\ commits'[req[t]] # 0 /\ \A r \in Requests \ {req[t]} : commits'[r] = commits[r]
    BY <1>2, <1>5
  <2>4. snap'[t] = NoRecord
    BY <1>1, <1>5 DEF ThreadShape
  <2>5. Exclusive'
    BY <1>1, <1>2, <1>5, <2>3 DEF Inv, Exclusive, Others
  <2>6. Spent \subseteq Spent' /\ req[t].attempt \in Spent'
    BY <1>2, <2>3 DEF Spent
  <2>7. AttemptsSpent'
    BY <1>1, <1>2, <1>5, <2>1, <2>3, <2>4, <2>6 DEF Inv, AttemptsSpent, Others, Planning
  <2>8. SnapshotsTrail'
    BY <1>1, <1>2, <2>2, <2>3, <2>4 DEF Inv, AttemptsSpent, SnapshotsTrail, Trail, Others
  <2> QED BY <2>5, <2>7, <2>8
<1> QED BY <1>1, <1>3, <1>4, <1>5 DEF RecordShape

\* What fencing an incarnation or an epoch does to the records.
ReleaseShape ==
  /\ UNCHANGED <<threadVars, countVars>>
  /\ \A p \in Ports : records'[p] \in {records[p], ReleasedOwnership(records[p])}

\* Authority operations change a record by releasing its ownership, if at all.
LEMMA AuthorityShape ==
  ASSUME TypeOK,
         \/ BeginEpoch
         \/ \E p \in Publishers, b \in Boots : FencePublisher(p, b)
         \/ AuthorityStep
         \/ UNCHANGED vars
  PROVE  ReleaseShape
BY DEF ReleaseShape, BeginEpoch, FencePublisher, AuthorityStep, ReleaseOwnership, vars

\* Releasing ownership preserves the invariant.
LEMMA InvRelease ==
  ASSUME Inv, ReleaseShape
  PROVE  Exclusive' /\ AttemptsSpent' /\ SnapshotsTrail'
<1>1. /\ UNCHANGED <<pc, req, snap, plan, delivered, commits>>
      /\ \A p \in Ports : records[p] \in PortRecords
      /\ \A u \in Threads : pc[u] # "idle" => req[u].port \in Ports
      /\ \A u \in Threads : snap[u] # NoRecord => snap[u] \in PortRecords
  BY RequestTypes DEF ReleaseShape, threadVars, countVars, Inv, TypeOK, ThreadsTypeOK, ThreadTypeOK
<1>2. Exclusive'
  BY <1>1 DEF Inv, Exclusive
<1>3. AttemptsSpent'
  <2>1. \A p \in Ports : records'[p].attempt = records[p].attempt
    BY <1>1, ReleaseTrail DEF ReleaseShape
  <2> QED BY <1>1, <2>1 DEF Inv, AttemptsSpent, Spent
<1>4. SnapshotsTrail'
  <2> SUFFICES ASSUME NEW u \in Threads, snap[u] # NoRecord
               PROVE  Trail(snap[u], records'[req[u].port])
    BY <1>1 DEF SnapshotsTrail
  <2> DEFINE rec == records[req[u].port]
  <2>1. snap[u] \in PortRecords /\ req[u].port \in Ports /\ rec \in PortRecords
        /\ Trail(snap[u], rec)
    BY <1>1 DEF Inv, AttemptsSpent, SnapshotsTrail
  <2>2. /\ rec.generations.ownership \in Nat /\ snap[u].generations.ownership \in Nat
        /\ rec.generations.evidence \in Nat /\ snap[u].generations.evidence \in Nat
    BY <2>1, GenerationTypes
  <2>3. records'[req[u].port] \in {rec, ReleasedOwnership(rec)}
    BY <2>1 DEF ReleaseShape
  <2> HIDE DEF rec
  <2>4. Trail(snap[u], ReleasedOwnership(rec))
    BY <2>1, <2>2, ReleaseTrail DEF Trail
  <2> QED BY <2>1, <2>3, <2>4
<1> QED BY <1>2, <1>3, <1>4

\* Every step preserves the invariant of compare-and-commit.
LEMMA InvStep ==
  ASSUME UniqueAttempts, Inv, [Next]_vars
  PROVE  Inv'
<1>1. TypeOK'
  BY TypeStep DEF Inv
<1>2. Exclusive' /\ AttemptsSpent' /\ SnapshotsTrail'
  <2>1. CASE \E t \in Threads, r \in Requests : Deliver(t, r)
    BY <2>1, InvDeliver
  <2>2. CASE \E t \in Threads : ThreadStep(t)
    BY <2>2, InvThreadStep
  <2>3. CASE \/ BeginEpoch
             \/ \E p \in Publishers, b \in Boots : FencePublisher(p, b)
             \/ AuthorityStep
             \/ UNCHANGED vars
    BY <2>3, AuthorityShape, InvRelease DEF Inv
  <2> QED BY <2>1, <2>2, <2>3 DEF Next
<1> QED BY <1>1, <1>2 DEF Inv

\* Under the invariant, the compared fields identify the whole record.
LEMMA InvExact == Inv => NoLostUpdate
<1> SUFFICES ASSUME Inv, NEW t \in Threads, snap[t] # NoRecord,
                    Matches(snap[t], records[req[t].port])
             PROVE  records[req[t].port] = snap[t]
  BY DEF NoLostUpdate
<1>1. snap[t] \in PortRecords /\ Trail(snap[t], records[req[t].port])
  BY DEF Inv, SnapshotsTrail, TypeOK, ThreadsTypeOK
<1>2. snap[t].generations.evidence \in Nat /\ snap[t].generations.ownership \in Nat
  BY <1>1, GenerationTypes
<1> QED BY <1>1, <1>2 DEF Trail, Matches

\* With one attempt identity per delivered request, a snapshot that passes
\* ExpectedState::matches is the current record in every field, compared or
\* not: a commit never overwrites a mutation made since the snapshot, for any
\* number of threads, ports and requests.  Without the assumption the
\* compared fields recur: rebinding evidence may move the evidence generation
\* back, and a replayed attempt becomes the last one again.
THEOREM CompareIsExact ==
  ASSUME UniqueAttempts
  PROVE  Spec => []NoLostUpdate
BY InvInit, InvStep, InvExact, PTL DEF Spec

-----------------------------------------------------------------------------
(* Ownership at the moment of the commit. *)

\* The ownership gate and the ownership builder between them.
LEMMA GateEntitles ==
  ASSUME NEW in, NEW r, RequireOwnership, r.kind # "ClaimOwnership",
         PrepareOutcome(in, r) = "OK"
  PROVE  Entitled(in.current, r)
<1>1. OwnershipOutcome(in.current, r) = "OK" /\ PlanFailure(in, r) = "OK"
  BY DEF PrepareOutcome
<1>2. CASE r.kind \in {"TransferOwnership", "ReleaseOwnership"}
  <2>1. OwnershipFailure(in, r) = "OK"
    BY <1>1, <1>2 DEF PlanFailure, BuildFailure, OwnershipKinds, FenceKinds
  <2> QED BY <2>1, <1>2 DEF OwnershipFailure, Entitled
<1>3. CASE r.kind \notin {"TransferOwnership", "ReleaseOwnership"}
  BY <1>1, <1>3 DEF OwnershipOutcome, Entitled
<1> QED BY <1>2, <1>3

PlansEntitled ==
  \A t \in Threads :
    (pc[t] \in Planning /\ RequireOwnership /\ req[t].kind # "ClaimOwnership")
      => Entitled(snap[t], req[t])

\* Every step leaves the prepared plans with senders their snapshots entitle.
LEMMA EntitledStep ==
  ASSUME TypeOK, PlansEntitled, [Next]_vars
  PROVE  PlansEntitled'
<1>1. ASSUME NEW t \in Threads, NEW r \in Requests, Deliver(t, r) PROVE PlansEntitled'
  BY <1>1 DEF PlansEntitled, Deliver, Goto, Planning, TypeOK, ThreadsTypeOK
<1>2. ASSUME NEW t \in Threads, ThreadStep(t) PROVE PlansEntitled'
  <2>1. Others(t) /\ ThreadShape(t)
    BY <1>2, StepShape
  <2>2. ASSUME pc'[t] \in Planning, RequireOwnership, req'[t].kind # "ClaimOwnership"
        PROVE  Entitled(snap'[t], req'[t])
    <3>1. req'[t] = req[t] /\ snap'[t] = snap[t]
      BY <2>1, <2>2 DEF ThreadShape, Planning
    <3>2. CASE pc[t] \in Planning
      BY <2>2, <3>1, <3>2 DEF PlansEntitled
    <3>3. CASE Plans(t)
      BY <2>2, <3>1, <3>3, GateEntitles DEF Plans, BuildInput
    <3> QED BY <2>1, <2>2, <3>2, <3>3 DEF ThreadShape, Planning
  <2> QED BY <2>1, <2>2 DEF PlansEntitled, Others
<1>3. ASSUME UNCHANGED threadVars PROVE PlansEntitled'
  BY <1>3 DEF PlansEntitled, threadVars
<1> QED
  BY <1>1, <1>2, <1>3 DEF Next, BeginEpoch, FencePublisher, AuthorityStep, vars

\* Only the compare-and-commit step answers a committing thread.
LEMMA CommittingCompares ==
  ASSUME TypeOK, [Next]_vars, NEW t \in Threads, Committing(t)
  PROVE  CommitOutcome(records[req[t].port], snap[t], plan[t]) = "OK"
<1>1. pc[t] = "commit" /\ pc'[t] = "idle" /\ outcome'[t] = "OK"
  BY DEF Committing
<1>2. ASSUME NEW u \in Threads, NEW r \in Requests, Deliver(u, r) PROVE FALSE
  BY <1>1, <1>2 DEF Deliver, Goto, TypeOK, ThreadsTypeOK
<1>3. CASE UNCHANGED threadVars
  BY <1>1, <1>3 DEF threadVars
<1>4. ASSUME NEW u \in Threads, ThreadStep(u) PROVE u = t
  BY <1>1, <1>4, StepShape DEF Others
<1>5. CASE ThreadStep(t)
  <2>1. Commit(t)
    BY <1>1, <1>5
    DEF ThreadStep, CheckAuthority, ReadSnapshot, CheckTopology, Prepare, ApplySucceeds,
        ApplyUnsupported, ApplyFails, ApplyUnknown, ReadbackVerified, ReadbackUnsupported,
        ReadbackInconclusive, RecordUncertainty
  <2> QED BY <1>1, <2>1 DEF Commit, Respond, TypeOK, ThreadsTypeOK
<1> QED
  BY <1>2, <1>3, <1>4, <1>5 DEF Next, BeginEpoch, FencePublisher, AuthorityStep, vars

\* With one attempt identity per delivered request, the ownership that was
\* checked on the snapshot still holds when the mutation is committed: no
\* interleaving of claims, transfers, releases, fences and epoch changes lets
\* another incarnation's mutation in.
THEOREM OnlyOwnersCommit ==
  ASSUME UniqueAttempts
  PROVE  Spec => OwnerCommits
<1>1. Init => Inv /\ PlansEntitled
  BY InvInit DEF Init, PlansEntitled, Planning
<1>2. Inv /\ PlansEntitled /\ [Next]_vars => Inv' /\ PlansEntitled'
  BY InvStep, EntitledStep DEF Inv
<1>3. Inv /\ PlansEntitled /\ [Next]_vars => [CommitsAreEntitled]_vars
  <2> SUFFICES ASSUME Inv, PlansEntitled, [Next]_vars, NEW t \in Threads, Committing(t),
                      RequireOwnership, req[t].kind # "ClaimOwnership"
               PROVE  Entitled(records[req[t].port], req[t])
    BY DEF CommitsAreEntitled
  <2>1. pc[t] = "commit" /\ TypeOK
    BY DEF Committing, Inv
  <2>2. Entitled(snap[t], req[t])
    BY <2>1 DEF PlansEntitled, Planning
  <2>3. Matches(snap[t], records[req[t].port])
    BY <2>1, CommittingCompares DEF CommitOutcome
  <2>4. snap[t] # NoRecord
    BY <2>1, PortEngineAssumption DEF TypeOK, ThreadsTypeOK, ThreadTypeOK
  <2> QED BY <2>2, <2>3, <2>4, InvExact DEF NoLostUpdate
<1> QED BY <1>1, <1>2, <1>3, PTL DEF Spec, OwnerCommits

=============================================================================
