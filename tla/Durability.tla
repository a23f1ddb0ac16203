----------------------------- MODULE Durability -----------------------------
(***************************************************************************)
(* Automatic persistence, crashes and restarts of a coordinator.  After a  *)
(* change of the records a thread gathers the authority tables and then    *)
(* the records under their own locks (persist_locked_state), and writes    *)
(* what it gathered under persistence_mutex.  PersistenceStore::save       *)
(* replaces the container atomically, so a crash leaves the old or the new *)
(* one, and pf_coordinator starts from it with a conservative recovery.    *)
(*                                                                         *)
(* A mutation is one step here, as in PortStore: what happens before its   *)
(* commit is the subject of PortEngine.                                    *)
(***************************************************************************)
EXTENDS Admission, Authority

CONSTANTS
  Writers,          \* the threads that change records and write them through
  DeviceOf,         \* DeviceOf[p]: the parent device of port p
  ConfiguredEpoch,  \* the epoch a coordinator is started with (--epoch)
  MaxGeneration,    \* the last engine generation
  NoTables, NoImage \* absent values

Tables == [epoch: Nat, publishers: [Publishers -> PublisherRecords \cup {Unregistered}],
           devices: [Devices -> Nat], topology: Nat]
\* PersistedState
Images == [tables: Tables, generation: Nat, records: [Ports -> PortRecords]]

\* The ports are bound when the behaviour starts, and bind_port gives no owner.
ASSUME DurabilityAssumption ==
  /\ DeviceOf \in [Ports -> Devices]
  /\ ConfiguredEpoch \in Nat \ {0} /\ MaxGeneration \in Nat \ {0}
  /\ InitialRecord.ownership = NoOwner
  /\ NoTables \notin Tables /\ NoImage \notin Images

VARIABLES
  records,     \* impl.records
  generation,  \* impl.generation, the engine generation
  up,          \* the coordinator process is running
  container,   \* the persistence container on disk
  pc,          \* where each writer is in persist_locked_state
  tables,      \* the authority tables it gathered
  image,       \* the state it gathered
  made,        \* the engine generation of the change it will report, 0 if none
  acked        \* the latest engine generation reported as committed

writerVars == <<pc, tables, image, made>>
vars == <<authorityVars, records, generation, up, container, writerVars, acked>>

CurrentTables ==
  [epoch |-> epoch, publishers |-> publishers, devices |-> devices, topology |-> topology]

\* pf_coordinator found no container and began its first epoch; the ports are
\* bound, and bind_port has written them through.
Init ==
  /\ epoch = ConfiguredEpoch + 1
  /\ publishers = InitialPublishers
  /\ devices = [d \in Devices |-> 1]
  /\ topology = 1
  /\ records = [p \in Ports |-> InitialRecord]
  /\ generation = 1
  /\ up = TRUE
  /\ container = [tables |-> CurrentTables, generation |-> 1, records |-> records]
  /\ pc = [w \in Writers |-> "idle"]
  /\ tables = [w \in Writers |-> NoTables]
  /\ image = [w \in Writers |-> NoImage]
  /\ made = [w \in Writers |-> 0]
  /\ acked = 0

-----------------------------------------------------------------------------
(* Changes of the records and their write-through. *)

\* A change is made under records_mutex and advances the engine generation.
WriteThrough(w, reported) ==
  /\ generation' = generation + 1
  /\ made' = [made EXCEPT ![w] = IF reported THEN generation + 1 ELSE 0]
  /\ pc' = [pc EXCEPT ![w] = "authority"]
  /\ UNCHANGED <<epoch, devices, topology, up, container, tables, image, acked>>

Admitted(w, r) ==
  /\ up /\ pc[w] = "idle"
  /\ AuthorityOutcome(r) = "OK"
  /\ generation < MaxGeneration

ResultsNow(r) == Results(records[r.port], r, topology, devices[DeviceOf[r.port]])

\* A mutation is committed in memory.
Mutate(w, r) ==
  /\ Admitted(w, r)
  /\ RegisterOnUse(r)
  /\ \E next \in ResultsNow(r) : records' = [records EXCEPT ![r.port] = next]
  /\ WriteThrough(w, TRUE)

\* The device apply of a mutation ends in doubt; the write-through is tried but
\* its outcome is not reported.
LoseApply(w, r) ==
  /\ Admitted(w, r)
  /\ MayEndInDoubt(r)
  /\ RegisterOnUse(r)
  /\ \E next \in ResultsNow(r) :
       records' = [records EXCEPT ![r.port] =
                     Uncertain(@, next.generations.configuration)]
  /\ WriteThrough(w, FALSE)

\* PortFabricEngine::save writes without a change.
Save(w) ==
  /\ up /\ pc[w] = "idle"
  /\ pc' = [pc EXCEPT ![w] = "authority"]
  /\ UNCHANGED <<authorityVars, records, generation, up, container, tables, image, made, acked>>

GatherTables(w) ==
  /\ pc[w] = "authority"
  /\ tables' = [tables EXCEPT ![w] = CurrentTables]
  /\ pc' = [pc EXCEPT ![w] = "records"]
  /\ UNCHANGED <<authorityVars, records, generation, up, container, image, made, acked>>

GatherRecords(w) ==
  /\ pc[w] = "records"
  /\ image' = [image EXCEPT ![w] =
                 [tables |-> tables[w], generation |-> generation, records |-> records]]
  /\ pc' = [pc EXCEPT ![w] = "write"]
  /\ UNCHANGED <<authorityVars, records, generation, up, container, tables, made, acked>>

\* Mutant of Encodable: records are encoded without being validated.
EncodableAsIs(state) == state \in Images

\* encode_persisted_state refuses a state with a record that does not validate.
Encodable(state) == \A p \in Ports : ValidRecord(state.records[p])

Done(w) ==
  /\ pc' = [pc EXCEPT ![w] = "idle"]
  /\ tables' = [tables EXCEPT ![w] = NoTables]
  /\ image' = [image EXCEPT ![w] = NoImage]
  /\ made' = [made EXCEPT ![w] = 0]
  /\ UNCHANGED <<authorityVars, records, generation, up>>

\* The container is replaced and the mutation is reported as committed.
WriteSucceeds(w) ==
  /\ pc[w] = "write" /\ Encodable(image[w])
  /\ container' = image[w]
  /\ acked' = IF made[w] > acked THEN made[w] ELSE acked
  /\ Done(w)

\* Mutant of WriteFails: commit ignores what persist_locked_state returned.
WriteFailureIgnored(w) ==
  /\ pc[w] = "write"
  /\ acked' = IF made[w] > acked THEN made[w] ELSE acked
  /\ UNCHANGED container
  /\ Done(w)

\* Refused by the encoder, or an input-output failure: the old container stays
\* and the mutation is reported as failed although it is committed in memory.
WriteFails(w) ==
  /\ pc[w] = "write"
  /\ UNCHANGED <<container, acked>>
  /\ Done(w)

-----------------------------------------------------------------------------
(* Authority operations, which write nothing through. *)

\* release_ownership_of
ReleaseOwnership(owned) ==
  records' = [p \in Ports |-> IF p \in owned THEN ReleasedOwnership(records[p]) ELSE records[p]]

FencePublisher(p, b) ==
  LET owned == {q \in Ports : /\ records[q].ownership # NoOwner
                              /\ records[q].ownership.publisher = p
                              /\ records[q].ownership.boot = b}
  IN  /\ MarkFenced(p, b)
      /\ ReleaseOwnership(owned)
      /\ generation < MaxGeneration
      /\ generation' = IF owned = {} THEN generation ELSE generation + 1

AuthorityStep ==
  /\ up
  /\ \/ \E p \in Publishers, b \in Boots : FencePublisher(p, b)
     \/ /\ \/ \E p \in Publishers, b \in Boots : RegisterPublisher(p, b)
           \/ \E d \in Devices : RegisterDevice(d)
           \/ SetTopologyGeneration
        /\ UNCHANGED <<records, generation>>
  /\ UNCHANGED <<up, container, writerVars, acked>>

-----------------------------------------------------------------------------
(* Crash and restart. *)

\* The process dies; what it had in memory is not read again.
Crash ==
  /\ up
  /\ up' = FALSE
  /\ pc' = [w \in Writers |-> "idle"]
  /\ tables' = [w \in Writers |-> NoTables]
  /\ image' = [w \in Writers |-> NoImage]
  /\ made' = [w \in Writers |-> 0]
  /\ UNCHANGED <<authorityVars, records, generation, container, acked>>

\* Mutant of Recovered: the lifecycle is restored as it was.
RecoveredAsIs(rec) == [rec EXCEPT !.attempt = InitialAttempt, !.digest = NoDigest]

\* What load makes of a record: the configuration survives; its owner, the trust
\* in it and in the device, and the attempt identity do not.
Recovered(rec) ==
  LET unowned    == IF rec.ownership # NoOwner THEN ReleasedOwnership(rec) ELSE rec
      unapplied  == IF rec.applied.outcome \in {"APPLIED", "VERIFIED"}
                    THEN [unowned EXCEPT !.applied.outcome = "OUTCOME_UNKNOWN",
                                         !.applied.verified = FALSE,
                                         !.generations.evidence = @ + 1]
                    ELSE unowned
      untrusted  == IF rec.configuration # NoConfiguration /\ rec.lifecycle # "RETIRED"
                    THEN [WithLifecycle(unapplied, "REVALIDATION_REQUIRED") EXCEPT
                            !.drift = "REVALIDATION_REQUIRED"]
                    ELSE unapplied
  IN  [untrusted EXCEPT !.attempt = InitialAttempt, !.digest = NoDigest]

\* A record must validate as it is read and as it is recovered.
Loadable ==
  \A p \in Ports : LET rec == container.records[p] IN
                   ValidRecord(rec) /\ ValidRecord(Recovered(rec))

\* Mutant of NextEpoch: the epoch of the container is not continued.
NextEpochAnew == ConfiguredEpoch + 1

\* load continues after the epoch of the container, begin_epoch advances again.
NextEpoch ==
  IF container.tables.epoch >= ConfiguredEpoch THEN container.tables.epoch + 2
  ELSE ConfiguredEpoch + 1

\* pf_coordinator: load, then begin_epoch, before the server listens.
Start ==
  /\ ~up /\ Loadable
  /\ NextEpoch <= MaxEpoch /\ container.generation < MaxGeneration
  /\ up' = TRUE
  /\ epoch' = NextEpoch
  /\ publishers' =
       [p \in Publishers |->
          IF container.tables.publishers[p] = Unregistered THEN Unregistered
          ELSE [container.tables.publishers[p] EXCEPT !.fenced = TRUE]]
  /\ devices' = container.tables.devices
  /\ topology' = container.tables.topology
  /\ records' = [p \in Ports |-> Recovered(container.records[p])]
  /\ generation' = container.generation + 1
  /\ UNCHANGED <<container, writerVars, acked>>

Next ==
  \/ \E w \in Writers :
       \/ \E r \in Requests : Mutate(w, r) \/ LoseApply(w, r)
       \/ Save(w) \/ GatherTables(w) \/ GatherRecords(w) \/ WriteSucceeds(w) \/ WriteFails(w)
  \/ AuthorityStep
  \/ Crash
  \/ Start

Spec == Init /\ [][Next]_vars

-----------------------------------------------------------------------------
(* Properties. *)

\* The process, the writers and the container hold values of their types.
TypeOK ==
  /\ AuthorityTypeOK
  /\ records \in [Ports -> PortRecords] /\ generation \in Nat /\ up \in BOOLEAN
  /\ container \in Images
  /\ pc \in [Writers -> {"idle", "authority", "records", "write"}]
  /\ tables \in [Writers -> Tables \cup {NoTables}]
  /\ image \in [Writers -> Images \cup {NoImage}]
  /\ made \in [Writers -> Nat] /\ acked \in Nat
  /\ \A w \in Writers : pc[w] = "records" => tables[w] # NoTables
  /\ \A w \in Writers : pc[w] = "write" => image[w] # NoImage

\* A mutation that was reported as committed survives a crash: the container
\* holds the records of its engine generation or of a later one.
AcknowledgedIsDurable == acked <= container.generation

\* Whatever was written and whenever the process dies, no record stops the
\* coordinator from starting again: every record validates as it is read from
\* the container, and so does what load makes of it.  This is about records: a
\* profile with an MTU it does not specify is written and then refused by the
\* reader, and that container is not loaded again (RoundTrip of Documents
\* states the exception).
RestartIsPossible == Loadable

\* A port is live because it was live in this process life, or because of a
\* first configuration or a reconciliation in this very step: a restart never
\* restores the trust in a configuration.
TrustIsEarned ==
  [][\A p \in Ports :
       IsLive(records'[p].lifecycle) =>
         \/ up /\ IsLive(records[p].lifecycle)
         \/ \E r \in Requests : /\ r.kind \in {"Configure", "Reconcile"} /\ r.port = p
                                /\ r.attempt = records'[p].attempt]_vars

\* The epochs a container names: of its tables, its publishers and its owners.
EpochsIn(state) ==
  {state.tables.epoch}
    \cup {state.tables.publishers[p].epoch :
            p \in {q \in Publishers : state.tables.publishers[q] # Unregistered}}
    \cup {state.records[p].ownership.epoch :
            p \in {q \in Ports : state.records[q].ownership # NoOwner}}

\* A process life that left anything behind is never repeated: the next one has
\* an epoch after every epoch the container names, although its tables and its
\* records were gathered at different moments, so that what was sent to the
\* earlier life is rejected (load, begin_epoch).
LastingEpochsEnd == [][(~up /\ up') => \A e \in EpochsIn(container) : e < epoch']_vars

=============================================================================
