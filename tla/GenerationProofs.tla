-------------------------- MODULE GenerationProofs --------------------------
(***************************************************************************)
(* What the generations of a record guarantee over time.                   *)
(*                                                                         *)
(* Retirement is final, also when attempt identities are reused: the       *)
(* lifecycle generation never goes back and advances with every change of  *)
(* the lifecycle state, so a plan built before a retirement fails to match *)
(* after it.                                                               *)
(*                                                                         *)
(* The other results rest on what the builders make of the record they     *)
(* were given (Develops), carried from the snapshot through the compare to *)
(* the record that is replaced.                                            *)
(***************************************************************************)
EXTENDS PortEngineProofs

\* The lifecycle state of next is that of rec, or has a later generation.
LifecycleFollows(rec, next) ==
  \/ rec.generations.lifecycle < next.generations.lifecycle
  \/ rec.generations.lifecycle = next.generations.lifecycle /\ rec.lifecycle = next.lifecycle

\* LifecycleFollows is transitive.
LEMMA FollowsTransitive ==
  ASSUME NEW a \in PortRecords, NEW b \in PortRecords, NEW c \in PortRecords,
         LifecycleFollows(a, b), LifecycleFollows(b, c)
  PROVE  LifecycleFollows(a, c)
<1>1. /\ a.generations.lifecycle \in Nat /\ b.generations.lifecycle \in Nat
      /\ c.generations.lifecycle \in Nat
  BY GenerationTypes
<1> QED BY <1>1 DEF LifecycleFollows

\* A new lifecycle state has a new generation; what else a builder changes
\* leaves both alone.
LEMMA WithLifecycleFollows ==
  ASSUME NEW rec \in PortRecords, NEW lifecycle \in PortLifecycles
  PROVE  LifecycleFollows(rec, WithLifecycle(rec, lifecycle))
BY GenerationTypes DEF LifecycleFollows, WithLifecycle, PortRecords, GenerationVectors

\* Installing a configuration leaves the lifecycle and its generation alone.
LEMMA WithConfigurationFollows ==
  ASSUME NEW rec \in PortRecords, NEW base \in PortRecords, NEW c \in Configurations,
         LifecycleFollows(rec, base)
  PROVE  LifecycleFollows(rec, WithConfiguration(base, c))
BY DEF LifecycleFollows, WithConfiguration, PortRecords, GenerationVectors

\* build_configure moves the lifecycle generation forward.
LEMMA ConfigureFollows ==
  ASSUME NEW in \in BuildInputs, NEW r \in Requests, r.kind = "Configure"
  PROVE  LifecycleFollows(in.current, ConfigureNext(in, r))
<1> DEFINE next == WithConfiguration(WithLifecycle(in.current, "CONFIGURED"), Proposed(in, r))
<1>1. WithLifecycle(in.current, "CONFIGURED") \in PortRecords
  BY InputTypes, WithLifecycleType DEF PortLifecycles
<1>2. next \in PortRecords /\ LifecycleFollows(in.current, next)
  BY <1>1, InputTypes, ProposedType, WithLifecycleFollows, WithConfigurationType,
     WithConfigurationFollows DEF PortLifecycles
<1> DEFINE result == [next EXCEPT !.generations.administrative = @ + 1, !.drift = "UNKNOWN"]
<1>3. LifecycleFollows(in.current, result)
  <2> HIDE DEF next
  <2> QED BY <1>2 DEF LifecycleFollows, PortRecords, GenerationVectors
<1> QED BY <1>3 DEF ConfigureNext

\* build_reconfigure moves the lifecycle generation forward.
LEMMA ReconfigureFollows ==
  ASSUME NEW in \in BuildInputs, NEW r \in Requests, r.kind = "Reconfigure"
  PROVE  LifecycleFollows(in.current, ReconfigureNext(in, r))
<1>1. in.current.lifecycle \in PortLifecycles
  BY InputTypes DEF PortRecords
<1> QED
  BY <1>1, InputTypes, ProposedType, WithLifecycleType, WithLifecycleFollows,
     WithConfigurationFollows DEF ReconfigureNext

\* build_administrative moves the lifecycle generation forward.
LEMMA AdministrativeFollows ==
  ASSUME NEW in \in BuildInputs, NEW r \in Requests, r.kind = "Administrative"
  PROVE  LifecycleFollows(in.current, AdministrativeNext(in, r))
<1> DEFINE target == AdministrativeTarget(r.arg.op)
           next == WithLifecycle(in.current, TransitionResult(LifecycleTransitionFor(r.arg.op)))
<1>1. r.arg.op \in AdministrativeOps
  BY RequestTypes DEF WellFormedArg, AdministrativeArgs
<1>2. LifecycleTransitionFor(r.arg.op) \in
        {"Activate", "AdminDisable", "BeginDrain", "EnterMaintenance", "RequireRevalidation"}
  BY <1>1 DEF AdministrativeOps, LifecycleTransitionFor
<1>3. TransitionResult(LifecycleTransitionFor(r.arg.op)) \in PortLifecycles
  BY <1>2 DEF TransitionResult, PortLifecycles
<1>4. next \in PortRecords /\ LifecycleFollows(in.current, next)
  BY <1>3, InputTypes, WithLifecycleType, WithLifecycleFollows
<1> DEFINE result == [next EXCEPT !.configuration.administrative = target,
                                  !.configuration.provenance = r.publisher,
                                  !.generations.administrative = @ + 1,
                                  !.drift = IF target = "REVALIDATION_REQUIRED" THEN target ELSE @]
<1>5. LifecycleFollows(in.current, result)
  <2> HIDE DEF next, target
  <2> QED BY <1>4 DEF LifecycleFollows, PortRecords, GenerationVectors
<1> QED BY <1>5 DEF AdministrativeNext

\* build_bind_capabilities changes the lifecycle with its generation only.
LEMMA BindCapabilitiesFollows ==
  ASSUME NEW in \in BuildInputs, NEW r \in Requests, r.kind = "BindCapabilities"
  PROVE  LifecycleFollows(in.current, BindCapabilitiesNext(in, r))
<1>1. r.arg \in Bindings
  BY RequestTypes DEF WellFormedArg
<1> DEFINE next == [in.current EXCEPT !.capability = r.arg,
                                      !.generations.capability = r.arg.generation,
                                      !.generations.evidence = r.arg.evidence]
           fenced == WithLifecycle(next, "REVALIDATION_REQUIRED")
<1>2. next \in PortRecords /\ fenced \in PortRecords
  BY <1>1, InputTypes, RebindType, WithLifecycleType DEF PortLifecycles
<1>3. LifecycleFollows(in.current, next)
  BY InputTypes DEF LifecycleFollows, PortRecords, GenerationVectors
<1>4. LifecycleFollows(in.current, fenced)
  <2> HIDE DEF next
  <2> QED BY <1>2, <1>3, InputTypes, WithLifecycleFollows, FollowsTransitive DEF PortLifecycles
<1>5. LifecycleFollows(in.current, [next EXCEPT !.drift = "UNKNOWN"])
  <2> HIDE DEF next
  <2> QED BY <1>2, <1>3 DEF LifecycleFollows, PortRecords
<1>6. LifecycleFollows(in.current, [fenced EXCEPT !.drift = "REVALIDATION_REQUIRED"])
  <2> HIDE DEF fenced
  <2> QED BY <1>2, <1>4 DEF LifecycleFollows, PortRecords
<1> QED BY <1>3, <1>5, <1>6 DEF BindCapabilitiesNext

\* build_fence moves the lifecycle generation forward.
LEMMA FenceFollows ==
  ASSUME NEW in \in BuildInputs, NEW r \in Requests, r.kind \in FenceKinds
  PROVE  LifecycleFollows(in.current, FenceNext(in, r))
<1>1. TransitionResult(r.kind) \in PortLifecycles
  BY DEF FenceKinds, TransitionResult, PortLifecycles
<1> DEFINE fenced == WithLifecycle(in.current, TransitionResult(r.kind))
           next == [fenced EXCEPT !.applied.verified = FALSE]
<1>2. fenced \in PortRecords /\ LifecycleFollows(in.current, fenced)
  BY <1>1, InputTypes, WithLifecycleType, WithLifecycleFollows
<1>3. LifecycleFollows(in.current, next) /\ LifecycleFollows(in.current, ReleasedOwnership(next))
  <2> HIDE DEF fenced
  <2> QED BY <1>2 DEF LifecycleFollows, ReleasedOwnership, PortRecords, GenerationVectors
<1> QED BY <1>3 DEF FenceNext

\* Every builder that changes the lifecycle state advances its generation.
LEMMA BuildFollows ==
  ASSUME NEW in \in BuildInputs, NEW r \in Requests, BuildFailure(in, r) = "OK"
  PROVE  LifecycleFollows(in.current, BuildNext(in, r))
<1>1. in.current \in PortRecords /\ in.current.lifecycle \in PortLifecycles
  BY InputTypes DEF PortRecords
<1>2. r.kind \in MutationKinds
  BY RequestTypes
<1> USE DEF BuildNext, OwnershipKinds, FenceKinds
<1>3. CASE r.kind \in {"Configure", "Reconfigure", "Administrative", "BindCapabilities"}
  BY <1>3, ConfigureFollows, ReconfigureFollows, AdministrativeFollows, BindCapabilitiesFollows
<1>4. CASE r.kind = "AssignProfile"
  <2>1. AssignProfileFailure(in, r) = "OK"
    BY <1>4 DEF BuildFailure
  <2>2. Reprofiled(in, r) \in Configurations
    BY <1>4, <2>1, ReprofiledType
  <2> QED
    BY <1>1, <1>4, <2>2, WithLifecycleType, WithLifecycleFollows, WithConfigurationFollows
    DEF AssignProfileNext
<1>5. CASE r.kind = "Reconcile"
  <2>1. in.current.configuration \in Configurations
    BY <1>5, InputTypes DEF BuildFailure, ReconcileFailure
  <2>2. Rebound(in, r) \in Configurations
    BY <2>1, InputTypes, RequestTypes DEF Rebound, Configurations
  <2> DEFINE next == WithConfiguration(WithLifecycle(in.current, "CONFIGURED"), Rebound(in, r))
  <2>3. next \in PortRecords /\ LifecycleFollows(in.current, next)
    BY <1>1, <2>2, WithLifecycleType, WithConfigurationType, WithLifecycleFollows,
       WithConfigurationFollows DEF PortLifecycles
  <2>4. LifecycleFollows(in.current, [next EXCEPT !.drift = "UNKNOWN"])
    <3> HIDE DEF next
    <3> QED BY <2>3 DEF LifecycleFollows, PortRecords
  <2> QED BY <1>5, <2>4 DEF ReconcileNext
<1>6. CASE r.kind \in FenceKinds
  BY <1>6, FenceFollows
<1>7. CASE r.kind \in OwnershipKinds
  BY <1>1, <1>7
  DEF LifecycleFollows, OwnershipNext, ReleasedOwnership, PortRecords, GenerationVectors
<1>8. CASE r.kind = "RecordAppliedEvidence"
  BY <1>1, <1>8
  DEF LifecycleFollows, AppliedEvidenceNext, WithLifecycle, PortRecords, GenerationVectors
<1>9. CASE r.kind = "ObserveExternalState"
  BY <1>1, <1>9 DEF LifecycleFollows, DriftNext, WithLifecycle, PortRecords, GenerationVectors
<1> QED
  BY <1>2, <1>3, <1>4, <1>5, <1>6, <1>7, <1>8, <1>9 DEF MutationKinds, ConfigurationKinds

-----------------------------------------------------------------------------
(* The inductive invariant. *)

SnapshotsFollowed ==
  \A t \in Threads : snap[t] # NoRecord =>
    /\ pc[t] # "idle" /\ snap[t].lifecycle # "RETIRED"
    /\ LifecycleFollows(snap[t], records[req[t].port])

PlansFollow == \A t \in Threads : pc[t] \in Planning => LifecycleFollows(snap[t], plan[t])

LifecycleInv == TypeOK /\ SnapshotsFollowed /\ PlansFollow

\* A record follows the one it replaces, whatever step replaces it.
RecordsFollow == \A p \in Ports : LifecycleFollows(records[p], records'[p])

\* Types of what the threads carry, in the form the steps below use.
LEMMA CarriedTypes ==
  ASSUME TypeOK
  PROVE  /\ \A p \in Ports : records[p] \in PortRecords
         /\ \A t \in Threads : pc[t] # "idle" => req[t] \in Requests /\ req[t].port \in Ports
         /\ \A t \in Threads : snap[t] # NoRecord => snap[t] \in PortRecords
         /\ \A t \in Threads :
              pc[t] \in Planning => snap[t] \in PortRecords /\ plan[t] \in PortRecords
                                    /\ snap[t] # NoRecord
BY RequestTypes, PortEngineAssumption DEF TypeOK, ThreadsTypeOK, ThreadTypeOK, Planning

\* An uncertain apply changes the lifecycle with its generation only.
LEMMA UncertainFollows ==
  ASSUME NEW rec \in PortRecords, NEW generation
  PROVE  LifecycleFollows(rec, Uncertain(rec, generation))
BY GenerationTypes DEF LifecycleFollows, Uncertain, WithLifecycle, PortRecords, GenerationVectors

\* A release of ownership leaves lifecycle and configuration alone.
LEMMA ReleasedFollows ==
  ASSUME NEW rec \in PortRecords
  PROVE  LifecycleFollows(rec, rec) /\ LifecycleFollows(rec, ReleasedOwnership(rec))
BY GenerationTypes DEF LifecycleFollows, ReleasedOwnership, PortRecords, GenerationVectors

\* A plan that passes the compare was built on the current lifecycle state.
LEMMA ComparedLifecycle ==
  ASSUME LifecycleInv, NEW t \in Threads, pc[t] = "commit",
         CommitOutcome(records[req[t].port], snap[t], plan[t]) = "OK"
  PROVE  /\ records[req[t].port].lifecycle # "RETIRED"
         /\ LifecycleFollows(records[req[t].port], plan[t])
<1>1. /\ records[req[t].port] \in PortRecords /\ snap[t] \in PortRecords
      /\ plan[t] \in PortRecords /\ snap[t] # NoRecord
  BY CarriedTypes DEF LifecycleInv, Planning
<1>2. records[req[t].port].generations.lifecycle = snap[t].generations.lifecycle
  BY DEF CommitOutcome, Matches
<1>3. /\ snap[t].lifecycle # "RETIRED" /\ LifecycleFollows(snap[t], records[req[t].port])
      /\ LifecycleFollows(snap[t], plan[t])
  BY <1>1 DEF LifecycleInv, SnapshotsFollowed, PlansFollow, Planning
<1>4. snap[t].generations.lifecycle \in Nat
  BY <1>1, GenerationTypes
<1> QED BY <1>2, <1>3, <1>4 DEF LifecycleFollows

\* In every step each record follows the one it replaces.
LEMMA StepFollows ==
  ASSUME LifecycleInv, [Next]_vars
  PROVE  RecordsFollow
<1>1. \A p \in Ports : records[p] \in PortRecords /\ LifecycleFollows(records[p], records[p])
  BY CarriedTypes, ReleasedFollows DEF LifecycleInv
<1>2. ASSUME NEW t \in Threads, ThreadStep(t) PROVE RecordsFollow
  <2>1. RecordShape(t) /\ req[t].port \in Ports /\ records \in [Ports -> PortRecords]
    BY <1>2, StepShape, CarriedTypes DEF LifecycleInv, TypeOK
  <2> QED
    BY <1>1, <2>1, UncertainFollows, ComparedLifecycle DEF RecordShape, RecordsFollow
<1>3. ASSUME ReleaseShape PROVE RecordsFollow
  BY <1>1, <1>3, ReleasedFollows DEF ReleaseShape, RecordsFollow
<1>4. ASSUME records' = records PROVE RecordsFollow
  BY <1>1, <1>4 DEF RecordsFollow
<1> QED
  BY <1>2, <1>3, <1>4, AuthorityShape DEF LifecycleInv, Next, Deliver

\* Settling an apply preserves what a plan follows.
LEMMA SettledFollows ==
  ASSUME NEW rec \in PortRecords, NEW next \in PortRecords, NEW applied,
         LifecycleFollows(rec, next)
  PROVE  LifecycleFollows(rec, Settled(next, applied))
BY SettledFields DEF LifecycleFollows

\* A prepared plan follows the snapshot it was built from.
LEMMA PlansFollowSnapshot ==
  ASSUME NEW t \in Threads, req[t] \in Requests, Plans(t)
  PROVE  LifecycleFollows(snap[t], plan'[t])
<1>1. PICK in \in BuildInputs :
        /\ in.current = snap[t] /\ PrepareOutcome(in, req[t]) = "OK"
        /\ plan'[t] \in {Planned(in, req[t]), Settled(Planned(in, req[t]), "NOT_ATTEMPTED")}
  BY DEF Plans, BuildInput
<1>2. PlanFailure(in, req[t]) = "OK" /\ BuildFailure(in, req[t]) = "OK"
  BY <1>1 DEF PrepareOutcome, PlanFailure
<1> DEFINE next == BuildNext(in, req[t])
<1>3. next \in PortRecords /\ LifecycleFollows(snap[t], next) /\ snap[t] \in PortRecords
  BY <1>1, <1>2, BuildType, BuildFollows, InputTypes
<1> DEFINE result == [next EXCEPT !.attempt = req[t].attempt, !.digest = PayloadDigest(req[t])]
<1>4. LifecycleFollows(snap[t], result)
  <2> HIDE DEF next
  <2> QED BY <1>3 DEF LifecycleFollows, PortRecords
<1>5. Planned(in, req[t]) \in PortRecords /\ LifecycleFollows(snap[t], Planned(in, req[t]))
  BY <1>2, <1>4, PlannedType DEF Planned
<1> QED BY <1>1, <1>3, <1>5, SettledFollows

\* Every step preserves the lifecycle invariant.
LEMMA LifecycleStep ==
  ASSUME LifecycleInv, [Next]_vars
  PROVE  LifecycleInv'
<1>1. TypeOK /\ TypeOK' /\ RecordsFollow
  BY TypeStep, StepFollows DEF LifecycleInv
<1>2. \A p \in Ports : records[p] \in PortRecords /\ records'[p] \in PortRecords
  BY <1>1 DEF TypeOK
<1>3. ASSUME NEW u \in Threads, snap[u] # NoRecord, snap'[u] = snap[u], req'[u] = req[u]
      PROVE  LifecycleFollows(snap'[u], records'[req'[u].port])
  <2>1. snap[u] \in PortRecords /\ req[u].port \in Ports
        /\ LifecycleFollows(snap[u], records[req[u].port])
    BY <1>1, <1>3, CarriedTypes DEF LifecycleInv, SnapshotsFollowed
  <2> QED BY <1>1, <1>2, <1>3, <2>1, FollowsTransitive DEF RecordsFollow
<1>4. ASSUME NEW t \in Threads, NEW r \in Requests, Deliver(t, r)
      PROVE  SnapshotsFollowed' /\ PlansFollow'
  <2>1. pc[t] = "idle" /\ snap[t] = NoRecord /\ snap' = snap /\ plan' = plan
    BY <1>4 DEF Deliver, LifecycleInv, SnapshotsFollowed
  <2>2. pc'[t] = "authority" /\ \A u \in Threads \ {t} : pc'[u] = pc[u] /\ req'[u] = req[u]
    BY <1>4, <1>1 DEF Deliver, Goto, TypeOK, ThreadsTypeOK
  <2> QED
    BY <1>3, <2>1, <2>2 DEF LifecycleInv, SnapshotsFollowed, PlansFollow, Planning
<1>5. ASSUME NEW t \in Threads, ThreadStep(t)
      PROVE  SnapshotsFollowed' /\ PlansFollow'
  <2>1. pc[t] # "idle" /\ Others(t) /\ ThreadShape(t) /\ req[t] \in Requests
        /\ req[t].port \in Ports
    BY <1>5, <1>1, StepShape, CarriedTypes
  <2>2. SnapshotsFollowed'
    <3> SUFFICES ASSUME NEW u \in Threads, snap'[u] # NoRecord
                 PROVE  /\ pc'[u] # "idle" /\ snap'[u].lifecycle # "RETIRED"
                        /\ LifecycleFollows(snap'[u], records'[req'[u].port])
      BY DEF SnapshotsFollowed
    <3>1. CASE u # t \/ snap'[t] = snap[t]
      BY <1>3, <2>1, <3>1 DEF Others, ThreadShape, LifecycleInv, SnapshotsFollowed
    <3>2. CASE u = t /\ snap'[t] # snap[t]
      BY <1>2, <2>1, <3>2, ReleasedFollows DEF ThreadShape, SnapshotOutcome
    <3> QED BY <3>1, <3>2
  <2>3. PlansFollow'
    <3> SUFFICES ASSUME NEW u \in Threads, pc'[u] \in Planning
                 PROVE  LifecycleFollows(snap'[u], plan'[u])
      BY DEF PlansFollow
    <3>1. CASE u # t
      BY <2>1, <3>1 DEF Others, LifecycleInv, PlansFollow
    <3>2. CASE u = t
      <4>1. snap'[t] = snap[t]
        BY <2>1, <3>2 DEF ThreadShape, Planning
      <4>2. CASE Plans(t)
        BY <2>1, <3>2, <4>1, <4>2, PlansFollowSnapshot
      <4>3. CASE pc[t] \in Planning /\ Applies(t)
        <5>1. snap[t] \in PortRecords /\ plan[t] \in PortRecords
              /\ LifecycleFollows(snap[t], plan[t])
          BY <1>1, <4>3, CarriedTypes DEF LifecycleInv, PlansFollow
        <5> QED BY <3>2, <4>1, <4>3, <5>1, SettledFollows DEF Applies
      <4> QED BY <2>1, <3>2, <4>2, <4>3 DEF ThreadShape, Planning
    <3> QED BY <3>1, <3>2
  <2> QED BY <2>2, <2>3
<1>6. ASSUME UNCHANGED threadVars PROVE SnapshotsFollowed' /\ PlansFollow'
  BY <1>3, <1>6 DEF threadVars, LifecycleInv, SnapshotsFollowed, PlansFollow
<1>7. SnapshotsFollowed' /\ PlansFollow'
  BY <1>4, <1>5, <1>6 DEF Next, BeginEpoch, FencePublisher, AuthorityStep, vars
<1> QED BY <1>1, <1>7 DEF LifecycleInv

\* No step changes the lifecycle or the configuration of a retired port.
LEMMA RetiredStep ==
  ASSUME LifecycleInv, [Next]_vars
  PROVE  [RetiredStays]_vars
<1> SUFFICES ASSUME NEW p \in Ports, records[p].lifecycle = "RETIRED"
             PROVE  /\ records'[p].lifecycle = "RETIRED"
                    /\ records'[p].configuration = records[p].configuration
  BY DEF RetiredStays
<1>1. records \in [Ports -> PortRecords] /\ records[p] \in PortRecords
  BY DEF LifecycleInv, TypeOK
<1>2. \A g : LET next == Uncertain(records[p], g) IN
        next.lifecycle = "RETIRED" /\ next.configuration = records[p].configuration
  BY <1>1 DEF Uncertain, PortRecords
<1>3. LET next == ReleasedOwnership(records[p]) IN
        next.lifecycle = "RETIRED" /\ next.configuration = records[p].configuration
  BY <1>1 DEF ReleasedOwnership, PortRecords
<1>4. ASSUME NEW t \in Threads, ThreadStep(t)
      PROVE  /\ records'[p].lifecycle = "RETIRED"
             /\ records'[p].configuration = records[p].configuration
  <2>1. RecordShape(t)
    BY <1>4, StepShape DEF LifecycleInv
  <2> QED
    BY <1>1, <1>2, <2>1, ComparedLifecycle DEF RecordShape
<1> QED
  BY <1>3, <1>4, AuthorityShape DEF LifecycleInv, Next, Deliver, ReleaseShape

\* A retired port stays retired with the configuration it had, under any reuse
\* of attempt identities: a mutation prepared before the retirement fails the
\* compare on the lifecycle generation, and recording an uncertain apply or
\* releasing ownership leaves lifecycle and configuration alone.
THEOREM RetirementIsFinal == Spec => RetiredForever
<1>1. Init => LifecycleInv
  BY TypeInit DEF Init, LifecycleInv, SnapshotsFollowed, PlansFollow, Planning
<1>2. LifecycleInv /\ [Next]_vars => LifecycleInv'
  BY LifecycleStep
<1>3. LifecycleInv /\ [Next]_vars => [RetiredStays]_vars
  BY RetiredStep
<1> QED BY <1>1, <1>2, <1>3, PTL DEF Spec, RetiredForever

-----------------------------------------------------------------------------
(* What every plan and every record of the engine is. *)

\* A plan develops its snapshot, validates, and carries its request's attempt;
\* a configuration mutation was admitted on the generation it expects.
PlanDevelops(t) ==
  pc[t] \in Planning =>
    /\ Develops(snap[t], req[t], plan[t]) /\ ValidRecord(plan[t])
    /\ plan[t].attempt = req[t].attempt
    /\ req[t].kind \in ConfigurationKinds =>
         req[t].expConfiguration = snap[t].generations.configuration

\* A snapshot is a supported record, no newer than the record of its port.
SnapshotBehind(t) ==
  snap[t] # NoRecord =>
    /\ SupportedRecord(snap[t])
    /\ snap[t].generations.configuration <= records[req[t].port].generations.configuration

DevelopInv ==
  /\ LifecycleInv
  /\ \A p \in Ports : SupportedRecord(records[p])
  /\ \A t \in Threads : SnapshotBehind(t) /\ PlanDevelops(t)

\* What doubt and a release do to a record: no part of it goes back, and neither
\* makes a port live.
LEMMA UncertainAdvances ==
  ASSUME NEW rec \in PortRecords, NEW generation, SupportedRecord(rec)
  PROVE  LET next == Uncertain(rec, generation) IN
         /\ Advances(rec, next) /\ SupportedRecord(next)
         /\ ~IsLive(next.lifecycle)
         /\ next.configuration = rec.configuration
         /\ next.generations.configuration = rec.generations.configuration
<1> DEFINE next == Uncertain(rec, generation)
<1>1. /\ rec.generations.configuration \in Nat /\ rec.generations.administrative \in Nat
      /\ rec.generations.ownership \in Nat /\ rec.generations.capability \in Nat
      /\ rec.generations.lifecycle \in Nat
  BY GenerationTypes
<1>2. /\ next.configuration = rec.configuration /\ next.capability = rec.capability
      /\ next.ownership = rec.ownership /\ ~IsLive(next.lifecycle)
      /\ next.generations.configuration = rec.generations.configuration
      /\ next.generations.administrative = rec.generations.administrative
      /\ next.generations.ownership = rec.generations.ownership
      /\ next.generations.capability = rec.generations.capability
  BY DEF Uncertain, WithLifecycle, PortRecords, GenerationVectors, IsLive, LiveStates
<1>3. \/ next.generations.lifecycle = rec.generations.lifecycle /\ next.lifecycle = rec.lifecycle
      \/ next.generations.lifecycle = rec.generations.lifecycle + 1
  BY DEF Uncertain, WithLifecycle, PortRecords, GenerationVectors
<1> HIDE DEF next
<1>4. Advances(rec, next)
  BY <1>1, <1>2, <1>3 DEF Advances
<1>5. SupportedRecord(next)
  BY <1>2 DEF SupportedRecord
<1> QED BY <1>2, <1>4, <1>5 DEF next

\* Releasing the ownership of a port takes nothing else back.
LEMMA ReleasedAdvances ==
  ASSUME NEW rec \in PortRecords, SupportedRecord(rec),
         NEW next \in {rec, ReleasedOwnership(rec)}
  PROVE  /\ Advances(rec, next) /\ SupportedRecord(next)
         /\ next.lifecycle = rec.lifecycle
         /\ next.configuration = rec.configuration
         /\ next.generations.configuration = rec.generations.configuration
<1>1. /\ rec.generations.configuration \in Nat /\ rec.generations.administrative \in Nat
      /\ rec.generations.ownership \in Nat /\ rec.generations.capability \in Nat
      /\ rec.generations.lifecycle \in Nat
  BY GenerationTypes
<1>2. /\ next.configuration = rec.configuration /\ next.capability = rec.capability
      /\ next.lifecycle = rec.lifecycle
      /\ next.generations.configuration = rec.generations.configuration
      /\ next.generations.administrative = rec.generations.administrative
      /\ next.generations.capability = rec.generations.capability
      /\ next.generations.lifecycle = rec.generations.lifecycle
  <2>1. CASE next = rec
    BY <2>1
  <2>2. CASE next = ReleasedOwnership(rec)
    BY <2>2 DEF ReleasedOwnership, PortRecords, GenerationVectors
  <2> QED BY <2>1, <2>2
<1>3. \/ next.generations.ownership = rec.generations.ownership /\ next.ownership = rec.ownership
      \/ next.generations.ownership = rec.generations.ownership + 1
  BY DEF ReleasedOwnership, PortRecords, GenerationVectors
<1>4. Advances(rec, next)
  BY <1>1, <1>2, <1>3 DEF Advances
<1>5. SupportedRecord(next)
  BY <1>2 DEF SupportedRecord
<1> QED BY <1>2, <1>4, <1>5

\* A plan that passes the compare replaces a record of its snapshot's
\* configuration generation and lifecycle state.
LEMMA ComparedSnapshot ==
  ASSUME DevelopInv, NEW t \in Threads, pc[t] = "commit",
         CommitOutcome(records[req[t].port], snap[t], plan[t]) = "OK"
  PROVE  LET rec == records[req[t].port] IN
         /\ rec.lifecycle = snap[t].lifecycle
         /\ rec.generations.configuration = snap[t].generations.configuration
         /\ Develops(snap[t], req[t], plan[t]) /\ ValidRecord(plan[t])
         /\ plan[t].attempt = req[t].attempt
         /\ req[t].kind \in ConfigurationKinds =>
              /\ req[t].expConfiguration = rec.generations.configuration
              /\ plan[t].generations.configuration = rec.generations.configuration + 1
         /\ rec.generations.configuration <= plan[t].generations.configuration
<1>1. /\ records[req[t].port] \in PortRecords /\ snap[t] \in PortRecords
      /\ plan[t] \in PortRecords /\ snap[t] # NoRecord
  BY CarriedTypes DEF DevelopInv, LifecycleInv, Planning
<1>2. Matches(snap[t], records[req[t].port])
  BY DEF CommitOutcome
<1>3. /\ snap[t].generations.configuration \in Nat /\ snap[t].generations.lifecycle \in Nat
      /\ plan[t].generations.configuration \in Nat
  BY <1>1, GenerationTypes
<1>4. LifecycleFollows(snap[t], records[req[t].port])
  BY <1>1 DEF DevelopInv, LifecycleInv, SnapshotsFollowed
<1>5. PlanDevelops(t) /\ pc[t] \in Planning
  BY DEF DevelopInv, Planning
<1>6. records[req[t].port].lifecycle = snap[t].lifecycle
  BY <1>2, <1>3, <1>4 DEF Matches, LifecycleFollows
<1> QED BY <1>2, <1>3, <1>5, <1>6 DEF Matches, PlanDevelops, Develops

\* In every step each record stays supported and keeps its configuration
\* generation or takes a later one.
RecordsDevelop ==
  \A p \in Ports :
    /\ SupportedRecord(records'[p])
    /\ records[p].generations.configuration <= records'[p].generations.configuration

\* Every step develops the records.
LEMMA StepDevelops ==
  ASSUME DevelopInv, [Next]_vars
  PROVE  RecordsDevelop
<1>1. \A p \in Ports : /\ records[p] \in PortRecords /\ SupportedRecord(records[p])
                       /\ records[p].generations.configuration \in Nat
  BY CarriedTypes, GenerationTypes DEF DevelopInv, LifecycleInv
<1>2. ASSUME NEW t \in Threads, ThreadStep(t) PROVE RecordsDevelop
  <2>1. /\ RecordShape(t) /\ req[t].port \in Ports /\ records \in [Ports -> PortRecords]
    BY <1>2, StepShape, CarriedTypes DEF DevelopInv, LifecycleInv, TypeOK
  <2>2. CASE records' = records
    BY <1>1, <2>2 DEF RecordsDevelop
  <2>3. CASE records' = [records EXCEPT ![req[t].port] =
                           Uncertain(@, plan[t].generations.configuration)]
    BY <1>1, <2>1, <2>3, UncertainAdvances DEF RecordsDevelop
  <2>4. CASE /\ pc[t] = "commit"
             /\ CommitOutcome(records[req[t].port], snap[t], plan[t]) = "OK"
             /\ records' = [records EXCEPT ![req[t].port] = plan[t]]
    <3>1. /\ records[req[t].port].generations.configuration <= plan[t].generations.configuration
          /\ SupportedRecord(plan[t])
      BY <2>4, ComparedSnapshot DEF Develops
    <3> QED BY <1>1, <2>1, <2>4, <3>1 DEF RecordsDevelop
  <2> QED BY <2>1, <2>2, <2>3, <2>4 DEF RecordShape
<1>3. ASSUME ReleaseShape PROVE RecordsDevelop
  <2> SUFFICES ASSUME NEW p \in Ports
               PROVE  /\ SupportedRecord(records'[p])
                      /\ records[p].generations.configuration <=
                           records'[p].generations.configuration
    BY DEF RecordsDevelop
  <2>1. records'[p] \in {records[p], ReleasedOwnership(records[p])}
    BY <1>3 DEF ReleaseShape
  <2> QED BY <1>1, <2>1, ReleasedAdvances
<1>4. ASSUME records' = records PROVE RecordsDevelop
  BY <1>1, <1>4 DEF RecordsDevelop
<1> QED
  BY <1>2, <1>3, <1>4, AuthorityShape DEF DevelopInv, LifecycleInv, Next, Deliver

\* A new plan develops its snapshot.
LEMMA PlansDevelop ==
  ASSUME NEW t \in Threads, req[t] \in Requests, SupportedRecord(snap[t]), Plans(t)
  PROVE  /\ Develops(snap[t], req[t], plan'[t]) /\ ValidRecord(plan'[t])
         /\ plan'[t].attempt = req[t].attempt
         /\ req[t].kind \in ConfigurationKinds =>
              req[t].expConfiguration = snap[t].generations.configuration
<1>1. PICK in \in BuildInputs :
        /\ in.current = snap[t] /\ in.capability \in ResolveCapabilities(snap[t], req[t])
        /\ PrepareOutcome(in, req[t]) = "OK"
        /\ plan'[t] \in {Planned(in, req[t]), Settled(Planned(in, req[t]), "NOT_ATTEMPTED")}
  BY DEF Plans, BuildInput
<1> DEFINE next == Planned(in, req[t])
<1>2. next \in PortRecords /\ next.attempt = req[t].attempt
  BY <1>1, PlannedType DEF PrepareOutcome
<1>3. Develops(snap[t], req[t], next) /\ ValidRecord(next)
  BY <1>1, PlannedDevelops
<1>4. req[t].kind \in ConfigurationKinds =>
        req[t].expConfiguration = snap[t].generations.configuration
  BY <1>1 DEF PrepareOutcome, ExpectationOutcome
<1> HIDE DEF next
<1>5. plan'[t] = next \/ plan'[t] = Settled(next, "NOT_ATTEMPTED")
  BY <1>1 DEF next
<1>6. LET settled == Settled(next, "NOT_ATTEMPTED") IN
        /\ Develops(snap[t], req[t], settled) /\ ValidRecord(settled)
        /\ settled.attempt = req[t].attempt
  BY <1>2, <1>3, SettledSame, SettledFields, DevelopsSame DEF ValidRecord, SameState
<1> QED BY <1>2, <1>3, <1>4, <1>5, <1>6

\* Every step preserves DevelopInv.
LEMMA DevelopStep ==
  ASSUME DevelopInv, [Next]_vars
  PROVE  DevelopInv'
<1>1. TypeOK /\ TypeOK' /\ LifecycleInv' /\ RecordsDevelop
  BY LifecycleStep, StepDevelops, TypeStep DEF DevelopInv, LifecycleInv
<1>2. \A p \in Ports : /\ records[p].generations.configuration \in Nat
                       /\ records'[p].generations.configuration \in Nat
  BY <1>1, GenerationTypes DEF TypeOK
<1>3. ASSUME NEW u \in Threads, snap[u] # NoRecord, snap'[u] = snap[u], req'[u] = req[u]
      PROVE  SnapshotBehind(u)'
  <2>1. /\ snap[u].generations.configuration \in Nat /\ req[u].port \in Ports
        /\ SnapshotBehind(u)
    BY <1>1, <1>3, CarriedTypes, GenerationTypes
    DEF DevelopInv, LifecycleInv, SnapshotsFollowed
  <2> QED BY <1>1, <1>2, <1>3, <2>1 DEF RecordsDevelop, SnapshotBehind
<1>4. ASSUME NEW t \in Threads, NEW r \in Requests, Deliver(t, r)
      PROVE  \A u \in Threads : SnapshotBehind(u)' /\ PlanDevelops(u)'
  <2>1. pc[t] = "idle" /\ snap[t] = NoRecord /\ snap' = snap /\ plan' = plan
    BY <1>4 DEF Deliver, DevelopInv, LifecycleInv, SnapshotsFollowed
  <2>2. pc'[t] = "authority" /\ \A u \in Threads \ {t} : pc'[u] = pc[u] /\ req'[u] = req[u]
    BY <1>4, <1>1 DEF Deliver, Goto, TypeOK, ThreadsTypeOK
  <2> QED
    BY <1>3, <2>1, <2>2 DEF DevelopInv, SnapshotBehind, PlanDevelops, Planning
<1>5. ASSUME NEW t \in Threads, ThreadStep(t)
      PROVE  \A u \in Threads : SnapshotBehind(u)' /\ PlanDevelops(u)'
  <2>1. pc[t] # "idle" /\ Others(t) /\ ThreadShape(t) /\ req[t] \in Requests
        /\ req[t].port \in Ports
    BY <1>5, <1>1, StepShape, CarriedTypes
  <2>2. ASSUME NEW u \in Threads PROVE SnapshotBehind(u)'
    <3>1. CASE u # t \/ snap'[t] = snap[t]
      BY <1>3, <2>1, <3>1 DEF Others, ThreadShape, SnapshotBehind
    <3>2. CASE u = t /\ snap'[t] # snap[t]
      BY <1>1, <1>2, <2>1, <3>2 DEF ThreadShape, SnapshotBehind, DevelopInv, RecordsDevelop
    <3> QED BY <3>1, <3>2
  <2>3. ASSUME NEW u \in Threads PROVE PlanDevelops(u)'
    <3> SUFFICES ASSUME pc'[u] \in Planning PROVE PlanDevelops(u)'
      BY DEF PlanDevelops
    <3>1. CASE u # t
      BY <2>1, <3>1 DEF Others, DevelopInv, PlanDevelops
    <3>2. CASE u = t
      <4>1. snap'[t] = snap[t] /\ req'[t] = req[t]
        BY <2>1, <3>2 DEF ThreadShape, Planning
      <4>2. CASE pc[t] = "prepare" /\ Plans(t)
        <5>1. snap[t] # NoRecord
          BY <1>1, <4>2, PortEngineAssumption DEF TypeOK, ThreadsTypeOK, ThreadTypeOK
        <5>2. SupportedRecord(snap[t])
          BY <5>1 DEF DevelopInv, SnapshotBehind
        <5> QED BY <2>1, <3>2, <4>1, <4>2, <5>2, PlansDevelop DEF PlanDevelops
      <4>3. CASE pc[t] \in Planning /\ Applies(t)
        <5>1. plan[t] \in PortRecords /\ PlanDevelops(t)
          BY <1>1, <4>3, CarriedTypes DEF DevelopInv
        <5>2. \A a : SameState(plan[t], Settled(plan[t], a))
                     /\ Settled(plan[t], a).attempt = plan[t].attempt
          BY <5>1, SettledSame, SettledFields
        <5>3. SameState(plan[t], plan'[t]) /\ plan'[t].attempt = plan[t].attempt
          BY <4>3, <5>2 DEF Applies, SameState
        <5>4. Develops(snap[t], req[t], plan'[t]) /\ ValidRecord(plan'[t])
          BY <4>3, <5>1, <5>3, DevelopsSame DEF PlanDevelops, ValidRecord, SameState
        <5> QED BY <3>2, <4>1, <4>3, <5>1, <5>3, <5>4 DEF PlanDevelops
      <4> QED BY <2>1, <3>2, <4>2, <4>3 DEF ThreadShape, Planning
    <3> QED BY <3>1, <3>2
  <2> QED BY <2>2, <2>3
<1>6. ASSUME UNCHANGED threadVars
      PROVE  \A u \in Threads : SnapshotBehind(u)' /\ PlanDevelops(u)'
  BY <1>3, <1>6 DEF threadVars, DevelopInv, SnapshotBehind, PlanDevelops
<1>7. \A u \in Threads : SnapshotBehind(u)' /\ PlanDevelops(u)'
  BY <1>4, <1>5, <1>6 DEF Next, BeginEpoch, FencePublisher, AuthorityStep, vars
<1> QED BY <1>1, <1>7 DEF DevelopInv, RecordsDevelop

\* DevelopInv holds initially.
LEMMA DevelopInit == Init => DevelopInv
<1> SUFFICES ASSUME Init PROVE DevelopInv
  OBVIOUS
<1>1. LifecycleInv
  BY TypeInit DEF Init, LifecycleInv, SnapshotsFollowed, PlansFollow, Planning
<1> QED
  BY <1>1, InitialRecordAssumption
  DEF Init, DevelopInv, SnapshotBehind, PlanDevelops, Planning

\* The fail-closed capability rule, for any reuse of attempt identities: a live
\* port is configured as its bound evidence supports.  Whatever evidence is bound
\* while a configuration is prepared, a plan is only ever installed together with
\* the evidence it was admitted on, because the plan is a whole record and carries
\* that evidence itself; and binding evidence that does not support the committed
\* configuration fences the port in the same step.
THEOREM LiveIsSupported == Spec => []SupportedWhileLive
<1>1. DevelopInv => SupportedWhileLive
  BY DEF DevelopInv, SupportedWhileLive, SupportedRecord
<1> QED BY <1>1, DevelopInit, DevelopStep, PTL DEF Spec

-----------------------------------------------------------------------------
(* What one step does to one record. *)

\* The record stays, loses its owner, is fenced in doubt, or is replaced by a
\* plan that passed the compare.
RecordStep(p) ==
  \/ records'[p] = records[p]
  \/ records'[p] = ReleasedOwnership(records[p])
  \/ \E t \in Threads :
       /\ pc[t] = "uncertain" /\ req[t].port = p
       /\ records'[p] = Uncertain(records[p], plan[t].generations.configuration)
  \/ \E t \in Threads :
       /\ pc[t] = "commit" /\ req[t].port = p
       /\ CommitOutcome(records[p], snap[t], plan[t]) = "OK"
       /\ records'[p] = plan[t]

\* Nothing else ever happens to a record.
LEMMA RecordSteps ==
  ASSUME TypeOK, [Next]_vars, NEW p \in Ports
  PROVE  RecordStep(p)
<1>1. records \in [Ports -> PortRecords]
  BY DEF TypeOK
<1>2. ASSUME NEW t \in Threads, ThreadStep(t) PROVE RecordStep(p)
  BY <1>1, <1>2, StepShape DEF RecordShape, RecordStep
<1>3. ASSUME ReleaseShape PROVE RecordStep(p)
  BY <1>3 DEF ReleaseShape, RecordStep
<1>4. ASSUME NEW t \in Threads, NEW r \in Requests, Deliver(t, r) PROVE RecordStep(p)
  BY <1>4 DEF Deliver, RecordStep
<1> QED BY <1>2, <1>3, <1>4, AuthorityShape DEF Next

\* A fenced port that becomes live was committed by a reconciliation which
\* expected the generation it revives.
RevivedByReconcile(p) ==
  (RequiresReconciliation(records[p].lifecycle) /\ IsLive(records'[p].lifecycle))
    => /\ records'[p].generations.configuration = records[p].generations.configuration + 1
       /\ \E r \in Requests :
            /\ r.kind = "Reconcile" /\ r.port = p
            /\ r.attempt = records'[p].attempt
            /\ r.expConfiguration = records[p].generations.configuration

\* The four ways a record changes, for a fenced record.
LEMMA RevivedStep ==
  ASSUME DevelopInv, [Next]_vars, NEW p \in Ports
  PROVE  RevivedByReconcile(p)
<1>1. TypeOK /\ records[p] \in PortRecords /\ SupportedRecord(records[p])
  BY DEF DevelopInv, LifecycleInv, TypeOK
<1> SUFFICES ASSUME RequiresReconciliation(records[p].lifecycle), IsLive(records'[p].lifecycle)
             PROVE  RevivedByReconcile(p)
  BY DEF RevivedByReconcile
<1>2. ~IsLive(records[p].lifecycle) /\ records[p].lifecycle # "UNCONFIGURED"
  BY DEF RequiresReconciliation, FencedStates, IsLive, LiveStates
<1>3. CASE \/ records'[p] = records[p]
           \/ records'[p] = ReleasedOwnership(records[p])
  BY <1>1, <1>2, <1>3, ReleasedAdvances
<1>4. ASSUME NEW g, records'[p] = Uncertain(records[p], g) PROVE FALSE
  BY <1>1, <1>4, UncertainAdvances
<1>5. ASSUME NEW t \in Threads, pc[t] = "commit", req[t].port = p,
             CommitOutcome(records[p], snap[t], plan[t]) = "OK", records'[p] = plan[t]
      PROVE  RevivedByReconcile(p)
  <2>1. /\ records[p].lifecycle = snap[t].lifecycle
        /\ Develops(snap[t], req[t], plan[t]) /\ plan[t].attempt = req[t].attempt
        /\ req[t].kind \in ConfigurationKinds =>
             /\ req[t].expConfiguration = records[p].generations.configuration
             /\ plan[t].generations.configuration =
                  records[p].generations.configuration + 1
    BY <1>5, ComparedSnapshot
  <2>2. req[t].kind = "Reconcile"
    BY <1>2, <1>5, <2>1 DEF Develops
  <2>3. req[t] \in Requests
    BY <1>1, <1>5, CarriedTypes
  <2> QED BY <1>5, <2>1, <2>2, <2>3 DEF RevivedByReconcile, ConfigurationKinds
<1> QED BY <1>1, <1>3, <1>4, <1>5, RecordSteps DEF RecordStep

\* Only a reconciliation revives a fenced port, for any reuse of attempt
\* identities: an apply that was started before the port was fenced cannot make
\* it live when it commits, because the compare finds a later lifecycle
\* generation, and no other builder leads out of a fenced state.
THEOREM OnlyReconcileRevives == Spec => RevivedByReconcileOnly
<1>1. DevelopInv /\ [Next]_vars => [\A p \in Ports : RevivedByReconcile(p)]_vars
  BY RevivedStep
<1>2. Spec => [][\A p \in Ports : RevivedByReconcile(p)]_vars
  BY <1>1, DevelopInit, DevelopStep, PTL DEF Spec
<1> QED BY <1>2 DEF RevivedByReconcileOnly, RevivedByReconcile

\* The four ways a record changes, when the compare is exact.
LEMMA AdvancesStep ==
  ASSUME Inv, DevelopInv, [Next]_vars, NEW p \in Ports
  PROVE  Advances(records[p], records'[p])
<1>1. TypeOK /\ records[p] \in PortRecords /\ SupportedRecord(records[p])
  BY DEF DevelopInv, LifecycleInv, TypeOK
<1>2. CASE \/ records'[p] = records[p]
           \/ records'[p] = ReleasedOwnership(records[p])
  BY <1>1, <1>2, ReleasedAdvances
<1>3. ASSUME NEW g, records'[p] = Uncertain(records[p], g) PROVE Advances(records[p], records'[p])
  BY <1>1, <1>3, UncertainAdvances
<1>4. ASSUME NEW t \in Threads, pc[t] = "commit", req[t].port = p,
             CommitOutcome(records[p], snap[t], plan[t]) = "OK", records'[p] = plan[t]
      PROVE  Advances(records[p], records'[p])
  <2>1. Matches(snap[t], records[p]) /\ snap[t] # NoRecord
    BY <1>1, <1>4, CarriedTypes DEF CommitOutcome, Planning
  <2>2. records[p] = snap[t]
    BY <1>4, <2>1, InvExact DEF NoLostUpdate
  <2>3. Develops(snap[t], req[t], plan[t])
    BY <1>4, ComparedSnapshot
  <2> QED BY <1>4, <2>2, <2>3 DEF Develops
<1> QED BY <1>1, <1>2, <1>3, <1>4, RecordSteps DEF RecordStep

\* With one attempt identity per delivered request no generation but the evidence
\* generation ever goes back, and the owner, the lifecycle state, the capability
\* evidence, the configuration and its administrative state never change without
\* their generation: what a builder guarantees against its snapshot holds
\* against the record it replaces, because the compare is exact.
THEOREM GenerationsNeverGoBack ==
  ASSUME UniqueAttempts
  PROVE  Spec => GenerationsAdvance
<1>1. Inv /\ DevelopInv /\ [Next]_vars
        => [\A p \in Ports : Advances(records[p], records'[p])]_vars
  BY AdvancesStep
<1>2. Init => Inv /\ DevelopInv
  BY InvInit, DevelopInit
<1>3. Inv /\ DevelopInv /\ [Next]_vars => Inv' /\ DevelopInv'
  BY InvStep, DevelopStep
<1> QED BY <1>1, <1>2, <1>3, PTL DEF Spec, GenerationsAdvance

-----------------------------------------------------------------------------
(* A configuration mutation is committed once. *)

\* A committed configuration mutation has left its expected generation behind.
Overtaken(r) ==
  r.kind \in ConfigurationKinds =>
    \/ commits[r] = 0
    \/ commits[r] = 1 /\ r.expConfiguration < records[r.port].generations.configuration

\* A mutation that is behind cannot pass the compare again.
LEMMA OvertakenStep ==
  ASSUME DevelopInv, [Next]_vars, NEW r \in Requests, Overtaken(r)
  PROVE  Overtaken(r)'
<1> SUFFICES ASSUME r.kind \in ConfigurationKinds PROVE Overtaken(r)'
  BY DEF Overtaken
<1>1. TypeOK /\ RecordsDevelop /\ r.port \in Ports /\ r.expConfiguration \in Nat
  BY StepDevelops, AdmissionAssumption DEF DevelopInv, LifecycleInv, WellFormedRequest
<1>2. /\ records[r.port].generations.configuration \in Nat
      /\ records'[r.port].generations.configuration \in Nat
      /\ commits \in [Requests -> Nat]
  BY <1>1, TypeStep, GenerationTypes DEF TypeOK
<1>3. CASE commits' = commits
  BY <1>1, <1>2, <1>3 DEF Overtaken, RecordsDevelop
<1>4. ASSUME NEW t \in Threads, ThreadStep(t) PROVE Overtaken(r)'
  <2>1. RecordShape(t) /\ records \in [Ports -> PortRecords]
    BY <1>1, <1>4, StepShape DEF TypeOK
  <2>2. CASE commits' # commits /\ req[t] # r
    BY <1>1, <1>2, <2>1, <2>2 DEF RecordShape, Overtaken, RecordsDevelop
  <2>3. CASE commits' # commits /\ req[t] = r
    <3>1. /\ pc[t] = "commit"
          /\ CommitOutcome(records[r.port], snap[t], plan[t]) = "OK"
          /\ records' = [records EXCEPT ![r.port] = plan[t]]
          /\ commits' = [commits EXCEPT ![r] = @ + 1]
      BY <2>1, <2>3 DEF RecordShape
    <3>2. /\ r.expConfiguration = records[r.port].generations.configuration
          /\ plan[t].generations.configuration =
               records[r.port].generations.configuration + 1
      BY <2>3, <3>1, ComparedSnapshot
    <3>3. commits[r] = 0
      BY <1>2, <3>2 DEF Overtaken
    <3>4. commits'[r] = 1 /\ records'[r.port] = plan[t]
      BY <1>1, <1>2, <2>1, <3>1, <3>3
    <3> QED BY <1>1, <1>2, <3>2, <3>4 DEF Overtaken
  <2> QED BY <1>3, <2>2, <2>3
<1> QED
  BY <1>3, <1>4 DEF Next, Deliver, BeginEpoch, FencePublisher, AuthorityStep, vars, countVars

\* However often a configuration mutation is delivered, and whether or not its
\* attempt identity is used for others, it is committed at most once: its commit
\* moves the configuration generation past the one it expects, and no step
\* takes that generation back.
THEOREM ConfigurationsCommitOnce == Spec => []ConfigurationCommitsOnce
<1> DEFINE CountInv == DevelopInv /\ \A r \in Requests : Overtaken(r)
<1>1. Init => CountInv
  BY DevelopInit DEF Init, Overtaken
<1>2. CountInv /\ [Next]_vars => CountInv'
  BY DevelopStep, OvertakenStep
<1>3. CountInv => ConfigurationCommitsOnce
  BY DEF Overtaken, ConfigurationCommitsOnce
<1> QED BY <1>1, <1>2, <1>3, PTL DEF Spec

-----------------------------------------------------------------------------
(* Every record can be saved. *)

\* No apply can end in doubt, or no port starts without a configuration.
DoubtNeedsConfiguration ==
  \/ AdapterPolicy = "DesiredStateOnly"
  \/ InitialRecord.configuration # NoConfiguration

\* Every port is configured, and was when a thread read it.
PortsConfigured ==
  /\ \A p \in Ports : records[p].configuration # NoConfiguration
  /\ \A t \in Threads : snap[t] # NoRecord => snap[t].configuration # NoConfiguration

\* No thread is with the adapter.
NobodyApplies == \A t \in Threads : pc[t] \notin {"apply", "readback", "uncertain"}

SavableInv ==
  /\ DevelopInv /\ ValidRecords
  /\ PortsConfigured \/ (AdapterPolicy = "DesiredStateOnly" /\ NobodyApplies)

\* Releasing a port and, if it is configured, doubting it leave it valid.
LEMMA StaysValid ==
  ASSUME NEW rec \in PortRecords, ValidRecord(rec)
  PROVE  /\ ValidRecord(ReleasedOwnership(rec))
         /\ ReleasedOwnership(rec).configuration = rec.configuration
         /\ rec.configuration # NoConfiguration => \A g : ValidRecord(Uncertain(rec, g))
<1>1. LET next == ReleasedOwnership(rec) IN
        /\ next.configuration = rec.configuration /\ next.lifecycle = rec.lifecycle
        /\ next.generations.configuration = rec.generations.configuration
  BY DEF ReleasedOwnership, PortRecords, GenerationVectors
<1>2. \A g : LET next == Uncertain(rec, g) IN
        /\ next.configuration = rec.configuration
        /\ next.generations.configuration = rec.generations.configuration
  BY DEF Uncertain, WithLifecycle, PortRecords, GenerationVectors
<1> QED BY <1>1, <1>2 DEF ValidRecord

\* With no doubt about an unconfigured port, every record stays valid.
LEMMA ValidStep ==
  ASSUME SavableInv, [Next]_vars, NEW p \in Ports
  PROVE  ValidRecord(records'[p])
<1>1. TypeOK /\ records[p] \in PortRecords /\ ValidRecord(records[p])
  BY DEF SavableInv, DevelopInv, LifecycleInv, TypeOK, ValidRecords
<1>2. CASE \/ records'[p] = records[p]
           \/ records'[p] = ReleasedOwnership(records[p])
  BY <1>1, <1>2, StaysValid
<1>3. ASSUME NEW t \in Threads, pc[t] = "uncertain", req[t].port = p,
             records'[p] = Uncertain(records[p], plan[t].generations.configuration)
      PROVE  ValidRecord(records'[p])
  <2>1. records[p].configuration # NoConfiguration
    BY <1>3 DEF SavableInv, PortsConfigured, NobodyApplies
  <2> QED BY <1>1, <1>3, <2>1, StaysValid
<1>4. ASSUME NEW t \in Threads, pc[t] = "commit", records'[p] = plan[t]
      PROVE  ValidRecord(records'[p])
  BY <1>4 DEF SavableInv, DevelopInv, PlanDevelops, Planning
<1> QED BY <1>1, <1>2, <1>3, <1>4, RecordSteps DEF RecordStep

\* A configured port stays configured.
LEMMA ConfiguredStep ==
  ASSUME DevelopInv, PortsConfigured, [Next]_vars
  PROVE  PortsConfigured'
<1>1. TypeOK /\ \A p \in Ports : records[p] \in PortRecords
  BY DEF DevelopInv, LifecycleInv, TypeOK
<1>2. ASSUME NEW p \in Ports PROVE records'[p].configuration # NoConfiguration
  <2>1. CASE \/ records'[p] = records[p]
             \/ records'[p] = ReleasedOwnership(records[p])
    BY <1>1, <2>1, ReleasedAdvances DEF PortsConfigured, DevelopInv
  <2>2. ASSUME NEW g, records'[p] = Uncertain(records[p], g)
        PROVE  records'[p].configuration # NoConfiguration
    BY <1>1, <2>2, UncertainAdvances DEF PortsConfigured, DevelopInv
  <2>3. ASSUME NEW t \in Threads, pc[t] = "commit", records'[p] = plan[t]
        PROVE  records'[p].configuration # NoConfiguration
    <3>1. snap[t].configuration # NoConfiguration
      BY <1>1, <2>3, CarriedTypes DEF PortsConfigured, Planning
    <3> QED
      BY <2>3, <3>1 DEF DevelopInv, PlanDevelops, Planning, Develops, Advances
  <2> QED BY <1>1, <2>1, <2>2, <2>3, RecordSteps DEF RecordStep
<1>3. ASSUME NEW u \in Threads, snap'[u] # NoRecord
      PROVE  snap'[u].configuration # NoConfiguration
  <2>1. CASE snap'[u] = snap[u]
    BY <1>3, <2>1 DEF PortsConfigured
  <2>2. ASSUME NEW t \in Threads, ThreadStep(t), snap'[u] # snap[u]
        PROVE  snap'[u].configuration # NoConfiguration
    <3>1. Others(t) /\ ThreadShape(t) /\ pc[t] # "idle"
      BY <1>1, <2>2, StepShape
    <3>2. u = t /\ snap'[t] = records[req[t].port] /\ req[t].port \in Ports
      BY <1>1, <1>3, <2>2, <3>1, CarriedTypes DEF Others, ThreadShape
    <3> QED BY <3>2 DEF PortsConfigured
  <2> QED
    BY <2>1, <2>2 DEF Next, Deliver, BeginEpoch, FencePublisher, AuthorityStep, vars, threadVars
<1> QED BY <1>2, <1>3 DEF PortsConfigured

\* Under the desired-state policy no plan goes to a device.
LEMMA NobodyAppliesStep ==
  ASSUME TypeOK, AdapterPolicy = "DesiredStateOnly", NobodyApplies, [Next]_vars
  PROVE  NobodyApplies'
<1>1. ASSUME NEW t \in Threads, ThreadStep(t) PROVE NobodyApplies'
  <2>1. Others(t) /\ ThreadShape(t)
    BY <1>1, StepShape
  <2>2. pc'[t] \notin {"apply", "readback", "uncertain"}
    BY <2>1 DEF ThreadShape, Plans, Applies, MayEndInDoubt, NobodyApplies, Planning
  <2> QED BY <2>1, <2>2 DEF Others, NobodyApplies
<1>2. ASSUME NEW t \in Threads, NEW r \in Requests, Deliver(t, r) PROVE NobodyApplies'
  BY <1>2 DEF Deliver, Goto, NobodyApplies, TypeOK, ThreadsTypeOK
<1>3. CASE UNCHANGED threadVars
  BY <1>3 DEF threadVars, NobodyApplies
<1> QED
  BY <1>1, <1>2, <1>3 DEF Next, BeginEpoch, FencePublisher, AuthorityStep, vars

\* Every record the engine holds passes PortRecord::validate, so the container
\* can be encoded after every commit.  The hypothesis is the one place where the
\* code breaks it: the first apply of an unconfigured port that ends in doubt
\* leaves a record fenced for revalidation that has no configuration.
THEOREM RecordsValidate ==
  ASSUME DoubtNeedsConfiguration
  PROVE  Spec => []ValidRecords
<1>1. Init => SavableInv
  BY DevelopInit, InitialRecordAssumption
  DEF Init, SavableInv, ValidRecords, PortsConfigured, NobodyApplies, DoubtNeedsConfiguration
<1>2. SavableInv /\ [Next]_vars => SavableInv'
  <2> SUFFICES ASSUME SavableInv, [Next]_vars PROVE SavableInv'
    OBVIOUS
  <2>1. DevelopInv' /\ ValidRecords' /\ DevelopInv /\ TypeOK
    BY DevelopStep, ValidStep DEF SavableInv, ValidRecords, DevelopInv, LifecycleInv
  <2>2. CASE PortsConfigured
    BY <2>1, <2>2, ConfiguredStep DEF SavableInv
  <2>3. CASE AdapterPolicy = "DesiredStateOnly" /\ NobodyApplies
    BY <2>1, <2>3, NobodyAppliesStep DEF SavableInv
  <2> QED BY <2>2, <2>3 DEF SavableInv
<1> QED BY <1>1, <1>2, PTL DEF Spec, SavableInv

-----------------------------------------------------------------------------
(* The mutation path implements the store of atomic mutations. *)

\* Why a plan is what it is: some generations that were current after delivery
\* admitted its request on the snapshot, and the adapter's answer settled it.
Admissible(t) ==
  pc[t] \in Planning =>
    \E top \in 1..MaxTopology, dev \in 1..MaxDeviceGeneration,
       capability \in ResolveCapabilities(snap[t], req[t]) :
      LET in == [current |-> snap[t], topology |-> top, device |-> dev,
                 capability |-> capability] IN
      /\ PrepareOutcome(in, req[t]) = "OK"
      /\ IF pc[t] = "commit" THEN plan[t] \in SettledResults(Planned(in, req[t]), req[t])
         ELSE MayEndInDoubt(req[t]) /\ plan[t] = Planned(in, req[t])

\* The snapshot did not answer the request by itself.
SnapshotOpen(t) == snap[t] # NoRecord => SnapshotOutcome(snap[t], req[t]) = "OK"

CountersBounded ==
  /\ topology \in 1..MaxTopology
  /\ \A d \in Devices : devices[d] \in 1..MaxDeviceGeneration

StoreInv ==
  /\ Inv /\ DevelopInv /\ CountersBounded
  /\ \A t \in Threads : SnapshotOpen(t) /\ Admissible(t)

\* The topology and device counters stay within their bounds.
LEMMA CountersStep ==
  ASSUME TypeOK, CountersBounded, [Next]_vars
  PROVE  CountersBounded'
<1>1. topology \in Nat /\ devices \in [Devices -> Nat] /\ MaxTopology \in Nat
      /\ MaxDeviceGeneration \in Nat
  BY AuthorityAssumption DEF TypeOK, AuthorityTypeOK
<1>2. CASE UNCHANGED <<devices, topology>>
  BY <1>2 DEF CountersBounded
<1>3. ASSUME NEW d \in Devices, RegisterDevice(d) PROVE CountersBounded'
  BY <1>1, <1>3 DEF RegisterDevice, CountersBounded
<1>4. CASE SetTopologyGeneration
  BY <1>1, <1>4 DEF SetTopologyGeneration, CountersBounded
<1>5. ASSUME NEW t \in Threads, ThreadStep(t) PROVE UNCHANGED <<devices, topology>>
  BY <1>5
  DEF ThreadStep, CheckAuthority, ReadSnapshot, CheckTopology, Prepare, ApplySucceeds,
      ApplyUnsupported, ApplyFails, ApplyUnknown, ReadbackVerified, ReadbackUnsupported,
      ReadbackInconclusive, RecordUncertainty, Commit, authorityVars
<1> QED
  BY <1>2, <1>3, <1>4, <1>5
  DEF Next, Deliver, BeginEpoch, AdvanceEpoch, FencePublisher, MarkFenced, AuthorityStep,
      RegisterPublisher, vars, authorityVars

\* A plan is admissible when it is made and stays so until it is committed.
LEMMA AdmissibleStep ==
  ASSUME StoreInv, [Next]_vars, NEW u \in Threads
  PROVE  SnapshotOpen(u)' /\ Admissible(u)'
<1>1. TypeOK /\ SnapshotOpen(u) /\ Admissible(u)
  BY DEF StoreInv, Inv
<1>2. ASSUME NEW t \in Threads, NEW r \in Requests, Deliver(t, r)
      PROVE  SnapshotOpen(u)' /\ Admissible(u)'
  <2>1. pc[t] = "idle" /\ snap[t] = NoRecord /\ snap' = snap /\ plan' = plan
    BY <1>2 DEF Deliver, StoreInv, DevelopInv, LifecycleInv, SnapshotsFollowed
  <2>2. pc'[t] = "authority" /\ (u # t => pc'[u] = pc[u] /\ req'[u] = req[u])
    BY <1>1, <1>2 DEF Deliver, Goto, TypeOK, ThreadsTypeOK
  <2> QED BY <1>1, <2>1, <2>2 DEF SnapshotOpen, Admissible, Planning
<1>3. ASSUME NEW t \in Threads, ThreadStep(t)
      PROVE  SnapshotOpen(u)' /\ Admissible(u)'
  <2>1. Others(t) /\ ThreadShape(t)
    BY <1>1, <1>3, StepShape
  <2>2. CASE u # t
    BY <1>1, <2>1, <2>2 DEF Others, SnapshotOpen, Admissible
  <2>3. CASE u = t
    <3>1. SnapshotOpen(t)'
      BY <1>1, <2>1, <2>3 DEF ThreadShape, SnapshotOpen
    <3>2. ASSUME pc'[t] \in Planning PROVE Admissible(t)'
      <4>1. snap'[t] = snap[t] /\ req'[t] = req[t]
        BY <2>1, <3>2 DEF ThreadShape, Planning
      <4>2. CASE pc[t] = "prepare" /\ Plans(t)
        <5>1. PICK capability \in ResolveCapabilities(snap[t], req[t]) :
                LET in == BuildInput(t, capability) IN
                /\ PrepareOutcome(in, req[t]) = "OK"
                /\ IF pc'[t] = "commit"
                   THEN plan'[t] \in SettledResults(Planned(in, req[t]), req[t])
                   ELSE MayEndInDoubt(req[t]) /\ plan'[t] = Planned(in, req[t])
          BY <4>2 DEF Plans
        <5>2. topology \in 1..MaxTopology
              /\ devices[DeviceOf[req[t].port]] \in 1..MaxDeviceGeneration
          <6>1. req[t] \in Requests /\ req[t].port \in Ports
            BY <1>1, <4>2, CarriedTypes
          <6> QED BY <6>1, PortEngineAssumption DEF StoreInv, CountersBounded
        <5> QED BY <4>1, <5>1, <5>2 DEF Admissible, BuildInput
      <4>3. CASE pc[t] \in Planning /\ Applies(t)
        <5>1. PICK top \in 1..MaxTopology, dev \in 1..MaxDeviceGeneration,
                   capability \in ResolveCapabilities(snap[t], req[t]) :
                LET in == [current |-> snap[t], topology |-> top, device |-> dev,
                           capability |-> capability] IN
                /\ PrepareOutcome(in, req[t]) = "OK"
                /\ MayEndInDoubt(req[t]) /\ plan[t] = Planned(in, req[t])
          BY <1>1, <2>3, <4>3 DEF Admissible, Applies
        <5>2. IF pc'[t] = "commit" THEN plan'[t] \in SettledResults(plan[t], req[t])
              ELSE plan'[t] = plan[t]
          BY <4>3, <5>1 DEF Applies, SettledResults, MayEndInDoubt
        <5> QED BY <4>1, <5>1, <5>2 DEF Admissible
      <4> QED BY <2>1, <3>2, <4>2, <4>3 DEF ThreadShape, Planning
    <3> QED BY <2>3, <3>1, <3>2 DEF Admissible
  <2> QED BY <2>2, <2>3
<1>4. CASE UNCHANGED threadVars
  BY <1>1, <1>4 DEF threadVars, SnapshotOpen, Admissible
<1> QED
  BY <1>2, <1>3, <1>4 DEF Next, BeginEpoch, FencePublisher, AuthorityStep, vars

\* What a request makes of a record when every gate admits it.
LEMMA ResultsContain ==
  ASSUME NEW rec, NEW r, NEW top, NEW dev, NEW capability \in ResolveCapabilities(rec, r),
         SnapshotOutcome(rec, r) = "OK",
         PrepareOutcome([current |-> rec, topology |-> top, device |-> dev,
                         capability |-> capability], r) = "OK",
         NEW next \in SettledResults(Planned([current |-> rec, topology |-> top,
                                              device |-> dev, capability |-> capability], r), r)
  PROVE  next \in Results(rec, r, top, dev)
BY DEF Results

\* A commit is the request taking effect on the record it replaces.
LEMMA CommitMutates ==
  ASSUME StoreInv, NEW t \in Threads, pc[t] = "commit",
         CommitOutcome(records[req[t].port], snap[t], plan[t]) = "OK",
         records' = [records EXCEPT ![req[t].port] = plan[t]]
  PROVE  Store!Mutate(req[t])
<1>1. Matches(snap[t], records[req[t].port]) /\ snap[t] # NoRecord
  BY CarriedTypes DEF CommitOutcome, Planning, StoreInv, Inv
<1>2. records[req[t].port] = snap[t] /\ SnapshotOutcome(snap[t], req[t]) = "OK"
  BY <1>1, InvExact DEF NoLostUpdate, StoreInv, SnapshotOpen
<1>3. PICK top \in 1..MaxTopology, dev \in 1..MaxDeviceGeneration,
           capability \in ResolveCapabilities(snap[t], req[t]) :
        LET in == [current |-> snap[t], topology |-> top, device |-> dev,
                   capability |-> capability] IN
        /\ PrepareOutcome(in, req[t]) = "OK"
        /\ plan[t] \in SettledResults(Planned(in, req[t]), req[t])
  BY DEF StoreInv, Admissible, Planning
<1>4. plan[t] \in Results(records[req[t].port], req[t], top, dev)
  BY <1>2, <1>3, ResultsContain
<1> QED BY <1>3, <1>4 DEF Store!Mutate

\* Recording an uncertain apply fences the port in doubt.
LEMMA DoubtFences ==
  ASSUME StoreInv, NEW t \in Threads, pc[t] = "uncertain",
         records' = [records EXCEPT ![req[t].port] =
                       Uncertain(@, plan[t].generations.configuration)]
  PROVE  Store!FenceInDoubt(req[t])
<1>1. /\ records[req[t].port] \in PortRecords /\ snap[t] \in PortRecords
      /\ plan[t] \in PortRecords /\ snap[t] # NoRecord
  BY CarriedTypes DEF StoreInv, Inv, Planning
<1>2. MayEndInDoubt(req[t])
  BY DEF StoreInv, Admissible, Planning
<1>3. /\ records[req[t].port].generations.configuration \in Nat
      /\ snap[t].generations.configuration \in Nat
      /\ plan[t].generations.configuration \in Nat
  BY <1>1, GenerationTypes
<1>4. /\ snap[t].generations.configuration <= records[req[t].port].generations.configuration
      /\ plan[t].generations.configuration <= snap[t].generations.configuration + 1
  BY <1>1, <1>3 DEF StoreInv, DevelopInv, SnapshotBehind, PlanDevelops, Planning, Develops
<1>5. plan[t].generations.configuration \in
        0..(records[req[t].port].generations.configuration + 1)
  BY <1>3, <1>4
<1> QED BY <1>2, <1>5 DEF Store!FenceInDoubt

\* Fencing takes ports from owners they have.
LEMMA FencingReleases ==
  ASSUME NEW owned \in SUBSET Ports, ReleaseOwnership(owned),
         \A p \in owned : records[p].ownership # NoOwner
  PROVE  Store!StoreNext
BY DEF ReleaseOwnership, Store!StoreNext, Store!ReleasePorts

\* Every step of the mutation path is a step of the store, or no step for it.
LEMMA StoreStep ==
  ASSUME StoreInv, [Next]_vars
  PROVE  [Store!StoreNext]_records
<1>1. TypeOK
  BY DEF StoreInv, Inv
<1>2. ASSUME NEW t \in Threads, ThreadStep(t) PROVE [Store!StoreNext]_records
  <2>1. RecordShape(t) /\ req[t] \in Requests
    BY <1>1, <1>2, StepShape, CarriedTypes
  <2> QED BY <2>1, CommitMutates, DoubtFences DEF RecordShape, Store!StoreNext
<1>3. CASE BeginEpoch
  BY <1>3, FencingReleases DEF BeginEpoch
<1>4. ASSUME NEW p \in Publishers, NEW b \in Boots, FencePublisher(p, b)
      PROVE  Store!StoreNext
  BY <1>4, FencingReleases DEF FencePublisher
<1> QED
  BY <1>2, <1>3, <1>4 DEF Next, Deliver, AuthorityStep, vars

\* The mutation path, with its threads, snapshots, device calls and compares,
\* implements a store in which every mutation is one indivisible step on the
\* record it replaces, admitted by every gate on that very record, and in which
\* nothing else happens but ports fenced in doubt and ports released by fencing:
\* for any number of threads, when every delivered request has an attempt
\* identity of its own.
THEOREM MutationsAreAtomic ==
  ASSUME UniqueAttempts
  PROVE  Spec => ImplementsStore
<1>1. Init => StoreInv
  BY InvInit, DevelopInit, AuthorityAssumption
  DEF Init, AuthorityInit, StoreInv, CountersBounded, SnapshotOpen, Admissible, Planning
<1>2. StoreInv /\ [Next]_vars => StoreInv'
  BY InvStep, DevelopStep, CountersStep, AdmissibleStep DEF StoreInv, Inv
<1>3. StoreInv /\ [Next]_vars => [Store!StoreNext]_records
  BY StoreStep
<1>4. Init => Store!StoreInit
  BY DEF Init, Store!StoreInit
<1> QED BY <1>1, <1>2, <1>3, <1>4, PTL DEF Spec, ImplementsStore, Store!StoreSpec

=============================================================================
