-------------------------- MODULE DurabilityProofs --------------------------
(***************************************************************************)
(* What persistence keeps across crashes, for any number of ports, writers *)
(* and requests, and for any of the process lives that MaxEpoch allows.    *)
(***************************************************************************)
EXTENDS Durability, PortRecordProofs

-----------------------------------------------------------------------------
(* What a request makes of a record in one step. *)

\* No builder makes up an owner: it keeps the one the record has, takes it away,
\* or puts one in place for the epoch of the request.
LEMMA BuildOwner ==
  ASSUME NEW in \in BuildInputs, NEW r \in Requests, BuildFailure(in, r) = "OK"
  PROVE  LET next == BuildNext(in, r) IN
         \/ next.ownership \in {NoOwner, in.current.ownership}
         \/ next.ownership.epoch = r.epoch
<1> DEFINE rec == in.current
<1>1. rec \in PortRecords /\ rec.lifecycle \in PortLifecycles /\ "CONFIGURED" \in PortLifecycles
  BY InputTypes DEF PortRecords, PortLifecycles
<1>2. r.kind \in MutationKinds
  BY RequestTypes
<1> USE DEF BuildNext, BuildFailure, FenceKinds, OwnershipKinds
<1>3. CASE r.kind = "Configure"
  <2> DEFINE next == WithConfiguration(WithLifecycle(rec, "CONFIGURED"), Proposed(in, r))
  <2>1. next \in PortRecords /\ next.ownership = rec.ownership
    BY <1>1, <1>3, ProposedType, ConfiguredFields
  <2> HIDE DEF next
  <2>2. [next EXCEPT !.generations.administrative = @ + 1, !.drift = "UNKNOWN"].ownership
          = rec.ownership
    BY <2>1 DEF PortRecords
  <2> QED BY <1>3, <2>2 DEF ConfigureNext, next
<1>4. CASE r.kind = "Reconfigure"
  BY <1>1, <1>4, ProposedType, ConfiguredFields DEF ReconfigureNext
<1>5. CASE r.kind = "AssignProfile"
  BY <1>1, <1>5, ReprofiledType, ConfiguredFields DEF AssignProfileNext
<1>6. CASE r.kind = "Reconcile"
  <2>1. in.current.configuration \in Configurations
    BY <1>6, InputTypes DEF ReconcileFailure
  <2>2. Rebound(in, r) \in Configurations
    BY <2>1, InputTypes, RequestTypes DEF Rebound, Configurations
  <2> QED BY <1>1, <1>6, <2>2, ConfiguredFields DEF ReconcileNext, PortRecords
<1>7. CASE r.kind = "Administrative"
  BY <1>1, <1>7 DEF AdministrativeNext, WithLifecycle, PortRecords
<1>8. CASE r.kind = "BindCapabilities"
  BY <1>1, <1>8 DEF BindCapabilitiesNext, WithLifecycle, PortRecords
<1>9. CASE r.kind \in FenceKinds
  BY <1>1, <1>9 DEF FenceNext, ReleasedOwnership, WithLifecycle, PortRecords
<1>10. CASE r.kind \in OwnershipKinds
  BY <1>1, <1>10 DEF OwnershipNext, ReleasedOwnership, PortRecords
<1>11. CASE r.kind = "RecordAppliedEvidence"
  BY <1>1, <1>11 DEF AppliedEvidenceNext, WithLifecycle, PortRecords
<1>12. CASE r.kind = "ObserveExternalState"
  BY <1>1, <1>12 DEF DriftNext, WithLifecycle, PortRecords
<1> QED
  BY <1>2, <1>3, <1>4, <1>5, <1>6, <1>7, <1>8, <1>9, <1>10, <1>11, <1>12
  DEF MutationKinds, ConfigurationKinds

\* What the mutations of a process life rely on: the result of a request is a
\* valid record that develops the one it replaces.
LEMMA ResultFacts ==
  ASSUME NEW rec \in PortRecords, SupportedRecord(rec), NEW r \in Requests,
         NEW top \in Nat, NEW dev \in Nat, NEW next \in Results(rec, r, top, dev)
  PROVE  /\ next \in PortRecords /\ Develops(rec, r, next) /\ ValidRecord(next)
         /\ next.attempt = r.attempt
         /\ \/ next.ownership \in {NoOwner, rec.ownership}
            \/ next.ownership.epoch = r.epoch
<1>1. PICK in \in BuildInputs :
        /\ in.current = rec /\ in.capability \in ResolveCapabilities(rec, r)
        /\ PrepareOutcome(in, r) = "OK"
        /\ \/ next = Planned(in, r)
           \/ \E applied \in AppliedOutcomes : next = Settled(Planned(in, r), applied)
  BY ResultsPlanned
<1>2. PlanFailure(in, r) = "OK" /\ BuildFailure(in, r) = "OK"
  BY <1>1 DEF PrepareOutcome, PlanFailure
<1> DEFINE plan == Planned(in, r)
<1>3. /\ plan \in PortRecords /\ Develops(rec, r, plan) /\ ValidRecord(plan)
      /\ plan.attempt = r.attempt
  BY <1>1, <1>2, PlannedType, PlannedDevelops
<1>4. \/ plan.ownership \in {NoOwner, rec.ownership}
      \/ plan.ownership.epoch = r.epoch
  <2>1. plan.ownership = BuildNext(in, r).ownership
    BY <1>2, BuildType DEF Planned, PortRecords
  <2> QED BY <1>1, <1>2, <2>1, BuildOwner
<1> HIDE DEF plan
<1>5. ASSUME NEW applied \in AppliedOutcomes, next = Settled(plan, applied)
      PROVE  /\ next \in PortRecords /\ Develops(rec, r, next) /\ ValidRecord(next)
             /\ next.attempt = r.attempt /\ next.ownership = plan.ownership
  <2>1. SameState(plan, next) /\ next \in PortRecords /\ next.attempt = r.attempt
    BY <1>3, <1>5, SettledSame, SettledType
  <2> QED BY <1>3, <2>1, DevelopsSame DEF SameState, ValidRecord
<1> QED BY <1>1, <1>3, <1>4, <1>5 DEF plan

-----------------------------------------------------------------------------
(* What a load makes of a record. *)

\* Recovery keeps a record well formed, valid and supported; nobody owns it and
\* it is not live.
LEMMA RecoveredFacts ==
  ASSUME NEW rec \in PortRecords
  PROVE  LET next == Recovered(rec) IN
         /\ next \in PortRecords /\ next.ownership = NoOwner
         /\ ValidRecord(rec) => ValidRecord(next) /\ ~IsLive(next.lifecycle)
         /\ SupportedRecord(rec) /\ ValidRecord(rec) => SupportedRecord(next)
<1> DEFINE unowned == IF rec.ownership # NoOwner THEN ReleasedOwnership(rec) ELSE rec
           unapplied == IF rec.applied.outcome \in {"APPLIED", "VERIFIED"}
                        THEN [unowned EXCEPT !.applied.outcome = "OUTCOME_UNKNOWN",
                                             !.applied.verified = FALSE,
                                             !.generations.evidence = @ + 1]
                        ELSE unowned
           fenced == WithLifecycle(unapplied, "REVALIDATION_REQUIRED")
           untrusted == IF rec.configuration # NoConfiguration /\ rec.lifecycle # "RETIRED"
                        THEN [fenced EXCEPT !.drift = "REVALIDATION_REQUIRED"]
                        ELSE unapplied
           Same(next) == /\ next.configuration = rec.configuration
                         /\ next.capability = rec.capability
                         /\ next.ownership = NoOwner
                         /\ next.generations.configuration = rec.generations.configuration
                         /\ next.generations.capability = rec.generations.capability
<1>1. unowned \in PortRecords /\ Same(unowned) /\ unowned.lifecycle = rec.lifecycle
  BY ReleasedOwnershipType DEF ReleasedOwnership, PortRecords, GenerationVectors
<1>2. unapplied \in PortRecords /\ Same(unapplied) /\ unapplied.lifecycle = rec.lifecycle
  <2> DEFINE changed == [unowned EXCEPT !.applied.outcome = "OUTCOME_UNKNOWN",
                                        !.applied.verified = FALSE,
                                        !.generations.evidence = @ + 1]
  <2>1. changed \in PortRecords
    <3> HIDE DEF unowned
    <3>1. [unowned.applied EXCEPT !.outcome = "OUTCOME_UNKNOWN", !.verified = FALSE]
            \in AppliedEvidences
      BY <1>1 DEF PortRecords, AppliedEvidences, AppliedOutcomes
    <3>2. [unowned.generations EXCEPT !.evidence = @ + 1] \in GenerationVectors
      BY <1>1 DEF PortRecords, GenerationVectors
    <3> QED BY <1>1, <3>1, <3>2 DEF PortRecords
  <2>2. Same(changed) /\ changed.lifecycle = rec.lifecycle
    <3> HIDE DEF unowned
    <3> QED BY <1>1 DEF PortRecords, GenerationVectors
  <2> HIDE DEF unowned, changed
  <2> QED BY <1>1, <2>1, <2>2 DEF changed
<1>3. fenced \in PortRecords /\ Same(fenced) /\ fenced.lifecycle = "REVALIDATION_REQUIRED"
  <2> HIDE DEF unapplied
  <2> QED BY <1>2, WithLifecycleType, WithLifecycleFields DEF PortLifecycles
<1>4. /\ untrusted \in PortRecords /\ Same(untrusted)
      /\ untrusted.lifecycle = IF rec.configuration # NoConfiguration /\ rec.lifecycle # "RETIRED"
                               THEN "REVALIDATION_REQUIRED" ELSE rec.lifecycle
  <2> HIDE DEF unapplied, fenced
  <2> QED BY <1>2, <1>3 DEF PortRecords, DriftStates
<1>5. Recovered(rec) = [untrusted EXCEPT !.attempt = InitialAttempt, !.digest = NoDigest]
  BY DEF Recovered
<1> HIDE DEF untrusted
<1>6. LET next == Recovered(rec) IN
        next \in PortRecords /\ Same(next) /\ next.lifecycle = untrusted.lifecycle
  BY <1>4, <1>5 DEF PortRecords
<1>7. ValidRecord(rec) => ValidRecord(Recovered(rec)) /\ ~IsLive(Recovered(rec).lifecycle)
  BY <1>4, <1>6 DEF ValidRecord, IsLive, LiveStates
<1> QED BY <1>6, <1>7 DEF SupportedRecord

-----------------------------------------------------------------------------
(* The invariant of a process life. *)

\* No incarnation and no owner is of an epoch after e, and every record is
\* supported.
TablesSound(tabs) ==
  \A p \in Publishers :
    tabs.publishers[p] # Unregistered => tabs.publishers[p].epoch <= tabs.epoch

RecordsSound(recs, e) ==
  \A p \in Ports : /\ SupportedRecord(recs[p])
                   /\ recs[p].ownership # NoOwner => recs[p].ownership.epoch <= e

\* What a writer gathered is of the epoch of the process life it runs in.
WriterSound(w) ==
  /\ pc[w] # "idle" => up
  /\ pc[w] = "records" => tables[w].epoch = epoch /\ TablesSound(tables[w])
  /\ pc[w] = "write" => /\ TablesSound(image[w].tables)
                        /\ RecordsSound(image[w].records, image[w].tables.epoch)

LifeInv ==
  /\ TypeOK
  /\ TablesSound(CurrentTables) /\ RecordsSound(records, epoch)
  /\ TablesSound(container.tables) /\ RecordsSound(container.records, container.tables.epoch)
  /\ \A p \in Ports : ValidRecord(container.records[p])
  /\ \A w \in Writers : WriterSound(w)

\* Types of what the invariant speaks of, in the form the steps below use.
LEMMA LifeTypes ==
  ASSUME LifeInv
  PROVE  /\ epoch \in Nat /\ topology \in Nat /\ devices \in [Devices -> Nat]
         /\ publishers \in [Publishers -> PublisherRecords \cup {Unregistered}]
         /\ generation \in Nat /\ up \in BOOLEAN /\ acked \in Nat
         /\ records \in [Ports -> PortRecords]
         /\ container.tables \in Tables /\ container.tables.epoch \in Nat
         /\ container.generation \in Nat /\ container.records \in [Ports -> PortRecords]
         /\ CurrentTables \in Tables
         /\ CurrentTables.epoch = epoch /\ CurrentTables.publishers = publishers
BY DEF LifeInv, TypeOK, AuthorityTypeOK, Images, Tables, CurrentTables

\* Registering on first use enters an incarnation of the current epoch.
LEMMA RegisterFacts ==
  ASSUME LifeInv, NEW r \in Requests, RegisterOnUse(r), AuthorityOutcome(r) = "OK"
  PROVE  /\ r.epoch = epoch
         /\ publishers' \in [Publishers -> PublisherRecords \cup {Unregistered}]
         /\ \A p \in Publishers : publishers'[p] # Unregistered => publishers'[p].epoch <= epoch
<1>1. /\ epoch \in Nat
      /\ publishers \in [Publishers -> PublisherRecords \cup {Unregistered}]
      /\ \A p \in Publishers : publishers[p] # Unregistered => publishers[p].epoch <= epoch
  BY LifeTypes DEF LifeInv, TablesSound, CurrentTables
<1>2. r.epoch = epoch
  BY DEF AuthorityOutcome
<1> DEFINE incarnation == Incarnation(r.boot, r.epoch)
<1>3. r.publisher \in Publishers /\ incarnation \in PublisherRecords /\ incarnation.epoch = epoch
  BY <1>1, <1>2, RequestTypes DEF Incarnation, PublisherRecords
<1>4. publishers' = publishers \/ publishers' = [publishers EXCEPT ![r.publisher] = incarnation]
  BY DEF RegisterOnUse
<1> HIDE DEF incarnation
<1> QED BY <1>1, <1>2, <1>3, <1>4

\* A change of one record in memory, and the writer that will write it through.
LEMMA ChangeStep ==
  ASSUME LifeInv, NEW w \in Writers, NEW r \in Requests, Admitted(w, r), RegisterOnUse(r),
         NEW next \in PortRecords, SupportedRecord(next),
         next.ownership # NoOwner => next.ownership.epoch <= epoch,
         records' = [records EXCEPT ![r.port] = next],
         NEW reported \in BOOLEAN, WriteThrough(w, reported)
  PROVE  LifeInv'
<1>1. /\ UNCHANGED <<epoch, devices, topology, up, container, tables, image, acked>>
      /\ pc' = [pc EXCEPT ![w] = "authority"] /\ up /\ generation' = generation + 1
      /\ made' = [made EXCEPT ![w] = IF reported THEN generation + 1 ELSE 0]
      /\ AuthorityOutcome(r) = "OK" /\ r.port \in Ports
  BY RequestTypes DEF WriteThrough, Admitted
<1>2. /\ publishers' \in [Publishers -> PublisherRecords \cup {Unregistered}]
      /\ \A p \in Publishers : publishers'[p] # Unregistered => publishers'[p].epoch <= epoch
  BY <1>1, RegisterFacts
<1>3. TypeOK'
  <2>1. records' \in [Ports -> PortRecords] /\ generation' \in Nat /\ made' \in [Writers -> Nat]
    BY <1>1, LifeTypes DEF LifeInv, TypeOK
  <2> QED BY <1>1, <1>2, <2>1 DEF LifeInv, TypeOK, AuthorityTypeOK
<1>4. TablesSound(CurrentTables')
  BY <1>1, <1>2 DEF TablesSound, CurrentTables
<1>5. RecordsSound(records', epoch)
  BY <1>1, LifeTypes DEF LifeInv, RecordsSound
<1>6. ASSUME NEW v \in Writers PROVE WriterSound(v)'
  BY <1>1 DEF LifeInv, TypeOK, WriterSound
<1> QED BY <1>1, <1>3, <1>4, <1>5, <1>6 DEF LifeInv

\* A mutation in memory preserves the invariant.
LEMMA MutateStep ==
  ASSUME LifeInv, NEW w \in Writers, NEW r \in Requests, Mutate(w, r) \/ LoseApply(w, r)
  PROVE  LifeInv'
<1> DEFINE rec == records[r.port]
<1>1. /\ rec \in PortRecords /\ SupportedRecord(rec) /\ r.epoch = epoch
      /\ rec.ownership # NoOwner => rec.ownership.epoch <= epoch
      /\ topology \in Nat /\ devices[DeviceOf[r.port]] \in Nat /\ epoch \in Nat
      /\ r.port \in Ports
  BY LifeTypes, RequestTypes, RegisterFacts, DurabilityAssumption
  DEF LifeInv, RecordsSound, Mutate, LoseApply, Admitted
<1>2. ASSUME NEW next \in ResultsNow(r)
      PROVE  /\ next \in PortRecords /\ SupportedRecord(next)
             /\ next.ownership # NoOwner => next.ownership.epoch <= epoch
  BY <1>1, <1>2, ResultFacts DEF ResultsNow, Develops
<1>3. CASE Mutate(w, r)
  <2>1. PICK next \in ResultsNow(r) : records' = [records EXCEPT ![r.port] = next]
    BY <1>3 DEF Mutate
  <2> QED BY <1>2, <1>3, <2>1, ChangeStep DEF Mutate
<1>4. CASE LoseApply(w, r)
  <2>1. PICK result \in ResultsNow(r) :
          records' = [records EXCEPT ![r.port] =
                        Uncertain(@, result.generations.configuration)]
    BY <1>4 DEF LoseApply
  <2> DEFINE next == Uncertain(rec, result.generations.configuration)
  <2>2. result.generations.configuration \in Nat
    BY <1>2, GenerationTypes
  <2>3. next \in PortRecords
    BY <1>1, <2>2, UncertainType
  <2>4. /\ ~IsLive(next.lifecycle) /\ next.ownership = rec.ownership
        /\ next.capability = rec.capability
        /\ next.generations.capability = rec.generations.capability
    BY <1>1 DEF Uncertain, WithLifecycle, PortRecords, GenerationVectors, IsLive, LiveStates
  <2>5. SupportedRecord(next)
    BY <1>1, <2>4 DEF SupportedRecord
  <2>6. records' = [records EXCEPT ![r.port] = next]
    BY <1>1, <2>1, LifeTypes
  <2> HIDE DEF next
  <2> QED BY <1>1, <1>4, <2>3, <2>4, <2>5, <2>6, ChangeStep DEF LoseApply
<1> QED BY <1>3, <1>4

\* A save and the gathering of the tables and of the records.
LEMMA GatherStep ==
  ASSUME LifeInv, NEW w \in Writers, Save(w) \/ GatherTables(w) \/ GatherRecords(w)
  PROVE  LifeInv'
<1>1. UNCHANGED <<authorityVars, records, generation, up, container, made, acked>>
  BY DEF Save, GatherTables, GatherRecords
<1>2. CASE Save(w)
  <2>1. TypeOK'
    BY <1>1, <1>2 DEF Save, LifeInv, TypeOK, AuthorityTypeOK, authorityVars
  <2>2. ASSUME NEW v \in Writers PROVE WriterSound(v)'
    BY <1>1, <1>2 DEF Save, LifeInv, TypeOK, WriterSound, authorityVars
  <2> QED BY <1>1, <2>1, <2>2 DEF LifeInv, CurrentTables, authorityVars
<1>3. CASE GatherTables(w)
  <2>1. /\ pc[w] = "authority" /\ pc' = [pc EXCEPT ![w] = "records"] /\ image' = image
        /\ tables' = [tables EXCEPT ![w] = CurrentTables] /\ CurrentTables \in Tables
        /\ CurrentTables # NoTables
    BY <1>3, LifeTypes, DurabilityAssumption DEF GatherTables
  <2>2. TypeOK'
    <3>1. tables' \in [Writers -> Tables \cup {NoTables}]
          /\ pc' \in [Writers -> {"idle", "authority", "records", "write"}]
      BY <2>1 DEF LifeInv, TypeOK
    <3> QED BY <1>1, <2>1, <3>1 DEF LifeInv, TypeOK, AuthorityTypeOK, authorityVars
  <2>3. ASSUME NEW v \in Writers PROVE WriterSound(v)'
    BY <1>1, <2>1, LifeTypes DEF LifeInv, TypeOK, WriterSound, authorityVars
  <2> QED BY <1>1, <2>2, <2>3 DEF LifeInv, CurrentTables, authorityVars
<1>4. CASE GatherRecords(w)
  <2> DEFINE state == [tables |-> tables[w], generation |-> generation, records |-> records]
  <2>1. /\ pc[w] = "records" /\ pc' = [pc EXCEPT ![w] = "write"] /\ tables' = tables
        /\ image' = [image EXCEPT ![w] = state]
    BY <1>4 DEF GatherRecords
  <2>2. tables[w] \in Tables /\ tables[w].epoch = epoch /\ TablesSound(tables[w])
    BY <2>1 DEF LifeInv, TypeOK, WriterSound
  <2>3. /\ state \in Images /\ state # NoImage
        /\ TablesSound(state.tables) /\ RecordsSound(state.records, state.tables.epoch)
    BY <2>2, LifeTypes, DurabilityAssumption DEF LifeInv, Images
  <2> HIDE DEF state
  <2>4. TypeOK'
    <3>1. image' \in [Writers -> Images \cup {NoImage}]
          /\ pc' \in [Writers -> {"idle", "authority", "records", "write"}]
      BY <2>1, <2>3 DEF LifeInv, TypeOK
    <3> QED BY <1>1, <2>1, <2>3, <3>1 DEF LifeInv, TypeOK, AuthorityTypeOK, authorityVars
  <2>5. ASSUME NEW v \in Writers PROVE WriterSound(v)'
    BY <1>1, <2>1, <2>3 DEF LifeInv, TypeOK, WriterSound, authorityVars
  <2> QED BY <1>1, <2>4, <2>5 DEF LifeInv, CurrentTables, authorityVars
<1> QED BY <1>2, <1>3, <1>4

\* The end of a write-through, with the container replaced or not.
LEMMA WriteStep ==
  ASSUME LifeInv, NEW w \in Writers, WriteSucceeds(w) \/ WriteFails(w)
  PROVE  LifeInv'
<1>1. /\ UNCHANGED <<authorityVars, records, generation, up>> /\ pc[w] = "write"
      /\ pc' = [pc EXCEPT ![w] = "idle"] /\ tables' = [tables EXCEPT ![w] = NoTables]
      /\ image' = [image EXCEPT ![w] = NoImage] /\ made' = [made EXCEPT ![w] = 0]
  BY DEF WriteSucceeds, WriteFails, Done
<1>2. /\ image[w] \in Images /\ TablesSound(image[w].tables)
      /\ RecordsSound(image[w].records, image[w].tables.epoch)
  BY <1>1 DEF LifeInv, TypeOK, WriterSound
<1>3. /\ container' \in Images /\ acked' \in Nat /\ TablesSound(container'.tables)
      /\ RecordsSound(container'.records, container'.tables.epoch)
      /\ \A p \in Ports : ValidRecord(container'.records[p])
  <2>1. CASE WriteSucceeds(w)
    BY <1>2, <2>1 DEF WriteSucceeds, Encodable, LifeInv, TypeOK
  <2>2. CASE WriteFails(w)
    BY <2>2 DEF WriteFails, LifeInv, TypeOK
  <2> QED BY <2>1, <2>2
<1>4. TypeOK'
  <2>1. /\ tables' \in [Writers -> Tables \cup {NoTables}]
        /\ image' \in [Writers -> Images \cup {NoImage}] /\ made' \in [Writers -> Nat]
        /\ pc' \in [Writers -> {"idle", "authority", "records", "write"}]
    BY <1>1 DEF LifeInv, TypeOK
  <2>2. /\ \A v \in Writers : pc'[v] = "records" => tables'[v] # NoTables
        /\ \A v \in Writers : pc'[v] = "write" => image'[v] # NoImage
    BY <1>1 DEF LifeInv, TypeOK
  <2> QED BY <1>1, <1>3, <2>1, <2>2 DEF LifeInv, TypeOK, AuthorityTypeOK, authorityVars
<1>5. ASSUME NEW v \in Writers PROVE WriterSound(v)'
  BY <1>1 DEF LifeInv, TypeOK, WriterSound, authorityVars
<1> QED BY <1>1, <1>3, <1>4, <1>5 DEF LifeInv, CurrentTables, authorityVars

\* Releasing ownership keeps the records of a life sound.
LEMMA ReleaseSound ==
  ASSUME records \in [Ports -> PortRecords], RecordsSound(records, epoch),
         NEW owned \in SUBSET Ports, ReleaseOwnership(owned)
  PROVE  records' \in [Ports -> PortRecords] /\ RecordsSound(records', epoch)
<1>1. ASSUME NEW rec \in PortRecords, SupportedRecord(rec)
      PROVE  LET next == ReleasedOwnership(rec) IN
             next \in PortRecords /\ SupportedRecord(next) /\ next.ownership = NoOwner
  <2>1. LET next == ReleasedOwnership(rec) IN
          /\ next.lifecycle = rec.lifecycle /\ next.configuration = rec.configuration
          /\ next.capability = rec.capability /\ next.ownership = NoOwner
          /\ next.generations.capability = rec.generations.capability
    BY DEF ReleasedOwnership, PortRecords, GenerationVectors
  <2> QED BY <1>1, <2>1, ReleasedOwnershipType DEF SupportedRecord
<1> QED BY <1>1 DEF ReleaseOwnership, RecordsSound

\* The authority operations preserve the invariant.
LEMMA AuthorityStepKeeps ==
  ASSUME LifeInv, AuthorityStep
  PROVE  LifeInv'
<1>1. /\ UNCHANGED <<up, container, writerVars, acked>>
  BY DEF AuthorityStep
<1> DEFINE Kept ==
             /\ epoch' = epoch /\ topology' \in Nat /\ devices' \in [Devices -> Nat]
             /\ publishers' \in [Publishers -> PublisherRecords \cup {Unregistered}]
             /\ \A p \in Publishers :
                  publishers'[p] # Unregistered => publishers'[p].epoch <= epoch
<1>2. Kept
  <2>1. \A p \in Publishers : publishers[p] # Unregistered => publishers[p].epoch <= epoch
    BY DEF LifeInv, TablesSound, CurrentTables
  <2>2. ASSUME NEW p \in Publishers, NEW b \in Boots, RegisterPublisher(p, b)
        PROVE  Kept
    <3>1. Incarnation(b, epoch) \in PublisherRecords /\ Incarnation(b, epoch).epoch = epoch
      BY LifeTypes DEF Incarnation, PublisherRecords
    <3> QED BY <2>1, <2>2, <3>1, LifeTypes DEF RegisterPublisher
  <2>3. ASSUME NEW p \in Publishers, NEW b \in Boots, MarkFenced(p, b)
        PROVE  Kept
    <3>1. publishers[p] \in PublisherRecords
      BY <2>3, LifeTypes DEF MarkFenced, Registered
    <3>2. LET next == [publishers[p] EXCEPT !.fenced = TRUE] IN
            next \in PublisherRecords /\ next.epoch = publishers[p].epoch
      BY <3>1 DEF PublisherRecords
    <3> QED BY <2>1, <2>3, <3>2, LifeTypes DEF MarkFenced, Registered
  <2>4. CASE (\E d \in Devices : RegisterDevice(d)) \/ SetTopologyGeneration
    BY <2>1, <2>4, LifeTypes DEF RegisterDevice, SetTopologyGeneration
  <2> QED BY <2>2, <2>3, <2>4 DEF AuthorityStep, FencePublisher
<1>3. /\ records' \in [Ports -> PortRecords] /\ RecordsSound(records', epoch)
      /\ generation' \in Nat
  <2>1. /\ records \in [Ports -> PortRecords] /\ RecordsSound(records, epoch)
        /\ generation \in Nat
    BY LifeTypes DEF LifeInv
  <2>2. ASSUME NEW p \in Publishers, NEW b \in Boots, FencePublisher(p, b)
        PROVE  /\ records' \in [Ports -> PortRecords] /\ RecordsSound(records', epoch)
               /\ generation' \in Nat
    BY <2>1, <2>2, ReleaseSound DEF FencePublisher
  <2> QED BY <2>1, <2>2 DEF AuthorityStep
<1>4. TypeOK'
  BY <1>1, <1>2, <1>3 DEF LifeInv, TypeOK, AuthorityTypeOK, writerVars
<1>5. TablesSound(CurrentTables')
  BY <1>2 DEF TablesSound, CurrentTables
<1>6. ASSUME NEW v \in Writers PROVE WriterSound(v)'
  BY <1>1, <1>2 DEF LifeInv, WriterSound, writerVars
<1> QED BY <1>1, <1>2, <1>3, <1>4, <1>5, <1>6 DEF LifeInv

\* A crash takes the writers with it and leaves memory to be forgotten.
LEMMA CrashStep ==
  ASSUME LifeInv, Crash
  PROVE  LifeInv'
<1>1. TypeOK'
  BY DEF Crash, LifeInv, TypeOK, AuthorityTypeOK, authorityVars
<1>2. ASSUME NEW v \in Writers PROVE WriterSound(v)'
  BY DEF Crash, WriterSound
<1> QED BY <1>1, <1>2 DEF Crash, LifeInv, CurrentTables, authorityVars

\* The epoch of the next process life is after every epoch of the container.
LEMMA NextEpochFacts ==
  ASSUME LifeInv
  PROVE  NextEpoch \in Nat /\ container.tables.epoch < NextEpoch
BY LifeTypes, DurabilityAssumption DEF NextEpoch

\* A restart begins a life in which nothing is live and nobody owns a port.
LEMMA StartStep ==
  ASSUME LifeInv, Start
  PROVE  LifeInv'
<1>1. /\ ~up /\ up' /\ epoch' = NextEpoch /\ UNCHANGED <<container, writerVars, acked>>
      /\ devices' = container.tables.devices /\ topology' = container.tables.topology
      /\ records' = [p \in Ports |-> Recovered(container.records[p])]
      /\ generation' = container.generation + 1
      /\ up' \in BOOLEAN
  BY DEF Start
<1>2. \A v \in Writers : pc[v] = "idle"
  BY <1>1 DEF LifeInv, WriterSound
<1>3. \A p \in Ports : LET rec == container.records[p] IN
        rec \in PortRecords /\ SupportedRecord(rec) /\ ValidRecord(rec)
  BY LifeTypes DEF LifeInv, RecordsSound
<1>4. \A p \in Ports : LET next == Recovered(container.records[p]) IN
        next \in PortRecords /\ SupportedRecord(next) /\ next.ownership = NoOwner
  BY <1>3, RecoveredFacts
<1>5. records' \in [Ports -> PortRecords] /\ RecordsSound(records', epoch')
  BY <1>1, <1>4 DEF RecordsSound
<1>6. /\ publishers' \in [Publishers -> PublisherRecords \cup {Unregistered}]
      /\ \A p \in Publishers : publishers'[p] # Unregistered => publishers'[p].epoch <= epoch'
  <2>1. container.tables.publishers \in [Publishers -> PublisherRecords \cup {Unregistered}]
    BY LifeTypes DEF Tables
  <2>2. ASSUME NEW i \in PublisherRecords
        PROVE  [i EXCEPT !.fenced = TRUE] \in PublisherRecords
               /\ [i EXCEPT !.fenced = TRUE].epoch = i.epoch /\ i.epoch \in Nat
    BY DEF PublisherRecords
  <2>3. \A p \in Publishers : container.tables.publishers[p] # Unregistered =>
          container.tables.publishers[p].epoch <= container.tables.epoch
    BY DEF LifeInv, TablesSound
  <2>4. publishers' = [p \in Publishers |->
          IF container.tables.publishers[p] = Unregistered THEN Unregistered
          ELSE [container.tables.publishers[p] EXCEPT !.fenced = TRUE]]
    BY DEF Start
  <2> QED BY <1>1, <2>1, <2>2, <2>3, <2>4, NextEpochFacts, LifeTypes
<1>7. TypeOK'
  <2>1. devices' \in [Devices -> Nat] /\ topology' \in Nat /\ epoch' \in Nat
        /\ generation' \in Nat
    BY <1>1, LifeTypes, NextEpochFacts DEF Tables
  <2> QED BY <1>1, <1>5, <1>6, <2>1 DEF LifeInv, TypeOK, AuthorityTypeOK, writerVars
<1>8. TablesSound(CurrentTables')
  BY <1>6 DEF TablesSound, CurrentTables
<1>9. ASSUME NEW v \in Writers PROVE WriterSound(v)'
  BY <1>1, <1>2 DEF WriterSound, writerVars
<1> QED BY <1>1, <1>5, <1>7, <1>8, <1>9 DEF LifeInv

\* The invariant holds when the first process life begins.
LEMMA LifeInit == Init => LifeInv
<1> SUFFICES ASSUME Init PROVE LifeInv
  OBVIOUS
<1>1. /\ epoch = ConfiguredEpoch + 1 /\ epoch \in Nat /\ 1 <= epoch
      /\ publishers = InitialPublishers /\ devices \in [Devices -> Nat] /\ topology \in Nat
  BY DurabilityAssumption DEF Init
<1>2. CurrentTables \in Tables /\ TablesSound(CurrentTables)
  BY <1>1, AuthorityAssumption DEF CurrentTables, Tables, TablesSound
<1>3. /\ records \in [Ports -> PortRecords] /\ RecordsSound(records, epoch)
      /\ \A p \in Ports : ValidRecord(records[p])
  BY AdmissionAssumption, InitialRecordAssumption, DurabilityAssumption DEF Init, RecordsSound
<1>4. /\ container = [tables |-> CurrentTables, generation |-> 1, records |-> records]
      /\ container \in Images /\ CurrentTables.epoch = epoch
  BY <1>2, <1>3 DEF Init, Images, CurrentTables
<1>5. TypeOK
  BY <1>1, <1>3, <1>4, AuthorityAssumption DEF Init, TypeOK, AuthorityTypeOK
<1>6. \A w \in Writers : WriterSound(w)
  BY DEF Init, WriterSound
<1> QED BY <1>1, <1>2, <1>3, <1>4, <1>5, <1>6 DEF LifeInv

\* Every step preserves the invariant.
LEMMA LifeStep ==
  ASSUME LifeInv, [Next]_vars
  PROVE  LifeInv'
<1>1. CASE UNCHANGED vars
  BY <1>1
  DEF LifeInv, TypeOK, AuthorityTypeOK, WriterSound, CurrentTables, vars, authorityVars,
      writerVars
<1> QED
  BY <1>1, MutateStep, GatherStep, WriteStep, AuthorityStepKeeps, CrashStep, StartStep DEF Next

\* Every writer, the memory of the process and its container hold what their
\* types say, through any number of crashes and restarts.
THEOREM DurableTypes == Spec => []TypeOK
<1>1. LifeInv => TypeOK
  BY DEF LifeInv
<1> QED BY <1>1, LifeInit, LifeStep, PTL DEF Spec

\* Whatever was written through, and in whatever state of the writers the process
\* dies, no record of the container stops load: the encoder refuses a record that
\* does not validate, and what load makes of one that does validates again.
THEOREM AlwaysRestartable == Spec => []RestartIsPossible
<1>1. LifeInv => RestartIsPossible
  BY RecoveredFacts, LifeTypes DEF LifeInv, RestartIsPossible, Loadable
<1> QED BY <1>1, LifeInit, LifeStep, PTL DEF Spec

-----------------------------------------------------------------------------
(* What a restart takes away. *)

\* A port that is live in the next state is live in this one, or was made live
\* by a request of this step.
Earned(p) ==
  IsLive(records'[p].lifecycle) =>
    \/ up /\ IsLive(records[p].lifecycle)
    \/ \E r \in Requests : /\ r.kind \in {"Configure", "Reconcile"} /\ r.port = p
                           /\ r.attempt = records'[p].attempt

\* Every step that leaves a port live earned it.
LEMMA EarnedStep ==
  ASSUME LifeInv, [Next]_vars, NEW p \in Ports, ~UNCHANGED vars
  PROVE  Earned(p)
<1>1. /\ records \in [Ports -> PortRecords] /\ records[p] \in PortRecords
      /\ SupportedRecord(records[p]) /\ topology \in Nat
      /\ \A d \in Devices : devices[d] \in Nat
  BY LifeTypes DEF LifeInv, RecordsSound
<1>2. CASE up /\ records' = records
  BY <1>2 DEF Earned
<1>3. ASSUME NEW w \in Writers, NEW r \in Requests, Mutate(w, r) PROVE Earned(p)
  <2>1. PICK next \in ResultsNow(r) : records' = [records EXCEPT ![r.port] = next]
    BY <1>3 DEF Mutate
  <2>2. up
    BY <1>3 DEF Mutate, Admitted
  <2>3. CASE r.port = p
    <3>1. Develops(records[p], r, next) /\ next.attempt = r.attempt
      <4>1. devices[DeviceOf[p]] \in Nat
        BY <1>1, DurabilityAssumption
      <4>2. next \in Results(records[p], r, topology, devices[DeviceOf[p]])
        BY <2>1, <2>3 DEF ResultsNow
      <4> QED BY <1>1, <4>1, <4>2, ResultFacts
    <3>2. records'[p] = next
      BY <1>1, <2>1, <2>3
    <3> QED BY <2>2, <2>3, <3>1, <3>2 DEF Develops, Earned
  <2>4. CASE r.port # p
    BY <1>1, <2>1, <2>2, <2>4 DEF Earned
  <2> QED BY <2>3, <2>4
<1>4. ASSUME NEW w \in Writers, NEW r \in Requests, LoseApply(w, r) PROVE Earned(p)
  <2>1. /\ up
        /\ \E g : records' = [records EXCEPT ![r.port] = Uncertain(@, g)]
    BY <1>4 DEF LoseApply, Admitted
  <2>2. \A g : ~IsLive(Uncertain(records[p], g).lifecycle)
    BY <1>1 DEF Uncertain, WithLifecycle, PortRecords, IsLive, LiveStates
  <2> QED BY <1>1, <2>1, <2>2 DEF Earned
<1>5. CASE AuthorityStep
  <2>1. \/ records'[p] = records[p]
        \/ records'[p] = ReleasedOwnership(records[p])
    BY <1>5 DEF AuthorityStep, FencePublisher, ReleaseOwnership
  <2>2. ReleasedOwnership(records[p]).lifecycle = records[p].lifecycle
    BY <1>1 DEF ReleasedOwnership, PortRecords
  <2> QED BY <1>5, <2>1, <2>2 DEF AuthorityStep, Earned
<1>6. CASE Start
  <2>1. /\ container.records[p] \in PortRecords /\ ValidRecord(container.records[p])
        /\ records'[p] = Recovered(container.records[p])
    BY <1>6, LifeTypes DEF Start, LifeInv
  <2> QED BY <2>1, RecoveredFacts DEF Earned
<1>7. ASSUME NEW w \in Writers,
             \/ Save(w) \/ GatherTables(w) \/ GatherRecords(w)
             \/ WriteSucceeds(w) \/ WriteFails(w)
      PROVE  up /\ records' = records
  BY <1>7
  DEF Save, GatherTables, GatherRecords, WriteSucceeds, WriteFails, Done, LifeInv, WriterSound
<1>8. CASE Crash
  BY <1>8 DEF Crash, Earned
<1> QED BY <1>2, <1>3, <1>4, <1>5, <1>6, <1>7, <1>8 DEF Next

\* A restart never restores the trust in a configuration, and no other step
\* makes a port live but a first configuration or a reconciliation.
THEOREM TrustMustBeEarned == Spec => TrustIsEarned
<1>1. LifeInv /\ [Next]_vars => [\A p \in Ports : Earned(p)]_vars
  BY EarnedStep
<1>2. Spec => [][\A p \in Ports : Earned(p)]_vars
  BY <1>1, LifeInit, LifeStep, PTL DEF Spec
<1> QED BY <1>2 DEF TrustIsEarned, Earned

\* Only a start makes a process live again, in an epoch after those it left.
LEMMA EpochsEndStep ==
  ASSUME LifeInv, [Next]_vars, ~up, up', NEW e \in EpochsIn(container)
  PROVE  e < epoch'
<1>1. Start
  BY DEF Next, Mutate, LoseApply, Admitted, Save, GatherTables, GatherRecords, WriteSucceeds,
         WriteFails, Done, AuthorityStep, Crash, LifeInv, WriterSound, vars
<1>2. /\ epoch' = NextEpoch /\ NextEpoch \in Nat
      /\ container.tables.epoch \in Nat /\ container.tables.epoch < NextEpoch
  BY <1>1, NextEpochFacts, LifeTypes DEF Start
<1>3. \A p \in Publishers : container.tables.publishers[p] # Unregistered =>
        /\ container.tables.publishers[p].epoch \in Nat
        /\ container.tables.publishers[p].epoch <= container.tables.epoch
  BY LifeTypes DEF LifeInv, TablesSound, Tables, PublisherRecords
<1>4. \A p \in Ports : container.records[p].ownership # NoOwner =>
        /\ container.records[p].ownership.epoch \in Nat
        /\ container.records[p].ownership.epoch <= container.tables.epoch
  BY LifeTypes DEF LifeInv, RecordsSound, PortRecords, Ownerships
<1> QED BY <1>2, <1>3, <1>4 DEF EpochsIn

\* A process life that left anything in the container is never repeated: the
\* next one has an epoch after every epoch the container names.  The tables and
\* the records of an image are gathered at different moments, but within one
\* process life, so that its owners are of no later epoch than its tables.
THEOREM EpochsNeverRepeat == Spec => LastingEpochsEnd
<1>1. LifeInv /\ [Next]_vars
        => [(~up /\ up') => \A e \in EpochsIn(container) : e < epoch']_vars
  BY EpochsEndStep
<1> QED BY <1>1, LifeInit, LifeStep, PTL DEF Spec, LastingEpochsEnd

-----------------------------------------------------------------------------
(* What one writer reports stays. *)

OneWriter == \A v, w \in Writers : v = w

\* A writer reports the change it made, and what it writes is as new as that and
\* as what is on disk.
WriterInOrder(w) ==
  /\ made[w] <= generation
  /\ pc[w] = "idle" => made[w] = 0
  /\ pc[w] = "write" => /\ made[w] <= image[w].generation
                        /\ container.generation <= image[w].generation
                        /\ image[w].generation <= generation

AckInv ==
  /\ LifeInv
  /\ acked <= container.generation /\ container.generation <= generation
  /\ \A w \in Writers : WriterInOrder(w)

\* Writes happen in the order of the changes when there is one writer.
LEMMA AckStep ==
  ASSUME OneWriter, AckInv, [Next]_vars
  PROVE  AckInv'
<1>1. /\ LifeInv' /\ generation \in Nat /\ acked \in Nat /\ container.generation \in Nat
      /\ made \in [Writers -> Nat] /\ image \in [Writers -> Images \cup {NoImage}]
      /\ pc \in [Writers -> {"idle", "authority", "records", "write"}]
      /\ \A w \in Writers : pc[w] = "write" => image[w].generation \in Nat
      /\ acked <= container.generation /\ container.generation <= generation
      /\ \A w \in Writers : WriterInOrder(w)
  BY LifeStep, LifeTypes DEF AckInv, LifeInv, TypeOK, Images
<1> DEFINE Ordered == /\ acked' <= container'.generation
                      /\ container'.generation <= generation'
                      /\ \A w \in Writers : WriterInOrder(w)'
<1>2. ASSUME NEW w \in Writers, NEW r \in Requests, Mutate(w, r) \/ LoseApply(w, r)
      PROVE  Ordered
  <2>1. /\ WriteThrough(w, TRUE) \/ WriteThrough(w, FALSE)
        /\ pc[w] = "idle"
    BY <1>2 DEF Mutate, LoseApply, Admitted
  <2> QED BY <1>1, <2>1 DEF WriteThrough, WriterInOrder
<1>3. ASSUME NEW w \in Writers, Save(w) \/ GatherTables(w) PROVE Ordered
  BY <1>1, <1>3 DEF Save, GatherTables, WriterInOrder
<1>4. ASSUME NEW w \in Writers, GatherRecords(w) PROVE Ordered
  <2>1. /\ UNCHANGED <<generation, container, made, acked>> /\ pc[w] = "records"
        /\ pc' = [pc EXCEPT ![w] = "write"]
        /\ image'[w].generation = generation
        /\ \A v \in Writers \ {w} : image'[v] = image[v]
    BY <1>1, <1>4 DEF GatherRecords
  <2> QED BY <1>1, <2>1 DEF WriterInOrder
<1>5. ASSUME NEW w \in Writers, WriteSucceeds(w) \/ WriteFails(w) PROVE Ordered
  <2>1. /\ generation' = generation /\ pc[w] = "write"
        /\ pc'[w] = "idle" /\ made'[w] = 0
        /\ \A v \in Writers : v = w
        /\ \/ container' = container /\ acked' = acked
           \/ container' = image[w] /\ acked' = IF made[w] > acked THEN made[w] ELSE acked
    BY <1>1, <1>5 DEF WriteSucceeds, WriteFails, Done, OneWriter
  <2> QED BY <1>1, <2>1 DEF WriterInOrder
<1>6. ASSUME AuthorityStep PROVE Ordered
  <2>1. /\ UNCHANGED <<container, writerVars, acked>>
        /\ generation' = generation \/ generation' = generation + 1
    BY <1>6 DEF AuthorityStep, FencePublisher
  <2> QED BY <1>1, <2>1 DEF WriterInOrder, writerVars
<1>7. ASSUME Crash PROVE Ordered
  BY <1>1, <1>7 DEF Crash, WriterInOrder
<1>8. ASSUME Start PROVE Ordered
  <2>1. \A w \in Writers : pc[w] = "idle" /\ made[w] = 0
    BY <1>1, <1>8 DEF AckInv, LifeInv, WriterSound, WriterInOrder, Start
  <2> QED BY <1>1, <1>8, <2>1 DEF Start, WriterInOrder, writerVars
<1>9. ASSUME UNCHANGED vars PROVE Ordered
  BY <1>1, <1>9 DEF vars, writerVars, WriterInOrder
<1> QED
  BY <1>1, <1>2, <1>3, <1>4, <1>5, <1>6, <1>7, <1>8, <1>9 DEF Next, AckInv

\* With one writer a mutation that was reported as committed survives every
\* crash.  The hypothesis is the place where the code breaks it: two writers
\* gather their images in one order and may write them in the other.
THEOREM AcknowledgedSurvives ==
  ASSUME OneWriter
  PROVE  Spec => []AcknowledgedIsDurable
<1>1. Init => AckInv
  BY LifeInit DEF Init, AckInv, WriterInOrder
<1>2. AckInv /\ [Next]_vars => AckInv'
  BY AckStep
<1>3. AckInv => AcknowledgedIsDurable
  BY DEF AckInv, AcknowledgedIsDurable
<1> QED BY <1>1, <1>2, <1>3, PTL DEF Spec

=============================================================================
