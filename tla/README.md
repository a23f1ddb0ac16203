# Port Fabric: a TLA+ model of the port configuration authority

Port Fabric is a coordinator that owns the desired configuration of network
ports. Clients send mutations (configure, drain, claim ownership, retire, ...)
over a local protocol; the engine checks each one against authority, ownership
and generation expectations, may apply it to a device through an adapter,
commits it with compare-and-commit, and writes it through to a container it
restarts from. This directory models the mutation path and its durability, the
binding of ports and their indexes, the engine's locks, the server and its
clients, the documents they exchange and the container holds, and the values of
configurations, evidence and profiles. It checks them with TLC on small
instances, and proves the safety of the mutation path, of its durability, of
binding, of the locks and of the server with TLAPS for every instance.

Paths below are relative to the repository.

## 1. The system

| Component | State | Operations | Met by |
| --- | --- | --- | --- |
| mutation path (`src/engine_mutation.cpp`, `src/engine_support.cpp`) | `records` | 13 kinds of mutation, `record_apply_uncertainty`, `commit` | client threads, concurrently |
| authority (`src/engine.cpp`) | epoch, publishers, devices, topology | `begin_epoch`, `register_publisher`, `fence_publisher`, `register_device`, `set_topology_generation`, `check_authority` | clients and operators, concurrently |
| lifecycle and administrative machines (`src/lifecycle.cpp`, `src/administrative.cpp`) | none | `evaluate_transition`, `administrative_target`, ... | the builders of mutations |
| device adapter (`include/portfabric/adapter.hpp`) | the device | `apply`, `readback` | the mutation path, with no lock held |
| capability provider | evidence | `resolve` | the mutation path, `bind_port` |
| port binding and indexes (`bind_port`) | `records`, eight index containers, the device table | `bind_port`, `index_add`, `index_remove`, `index_update`, the indexed queries | clients, and every change of a record |
| engine locks (`src/engine_internal.hpp`) | four mutexes | every public operation | all threads |
| persistence (`src/persistence.cpp`, `src/engine_persistence.cpp`) | the container file | `save`, `load`, write-through after a commit | every commit, restart |
| configurations and evidence (`src/configuration.cpp`, `src/characteristics.cpp`, `src/capability.cpp`) | none | validation alone and against evidence, arithmetic of rates and lanes, rendering | the builders of mutations |
| profile registry (`src/profile.cpp`) | generations of each profile | `define`, `find`, `list`, overlay | operators, the builders, `load` |
| server, client (`src/server.cpp`, `src/client.cpp`) | sessions, sockets | accept, serve, dispatch, stop, join; connect, request, close | the network |
| wire (`src/wire.cpp`, `src/protocol.cpp`, `src/codec.cpp`) | none | a writer and a reader for every message, and for the container | server, client, `save`, `load` |
| diffs, explanations, digests, text, platform inventory | none | read-only or pure | operators |

A mutation holds no lock from beginning to end. It takes `authority_mutex` to
check the sender, `records_mutex` shared to copy the record, `authority_mutex`
again to read the device and topology generations, calls the adapter without a
lock, and takes `records_mutex` exclusive to compare and commit. Whatever was
checked before may have changed by then; the compare of `ExpectedState` (five
generations and the last attempt identity) is what stands between a stale plan
and the record. The hard behaviours are therefore interleavings of prepared
mutations, device writes that happen before the compare, outcomes of an apply
that nobody knows, retries under the same attempt identity, and incarnations
that are fenced while their mutations are in flight; and, after the commit, a
write-through that gathers its state under two more locks and writes it under a
third, with a crash possible between any two. `PROJECT.json` lists them
as hazards with the line where each one bites.

What makes a component correct:

* mutation path: no lost update; only the owner commits; generations never go
  back; a live port's configuration is supported by its evidence; a retired
  port stays retired; a retried configuration takes effect once; every record
  can be saved;
* authority: only incarnations of the current epoch may mutate, and fencing one
  releases what it holds;
* persistence: what was acknowledged survives a crash, the records of every
  container can be loaded, a recovered port is not trusted, no restart returns to an epoch the
  container knows of;
* binding: an acknowledged binding stays, the bounds hold under competition, the
  indexes agree with the records whatever was rolled back, mutated or released;
* locks: the operations never wait for each other in a circle;
* configurations and profiles: what a live port is told can be realised by its
  evidence, evidence that is missing is never taken for support, a profile generation
  keeps its content, equal texts mean equal configurations;
* server and client: `join` returns and leaves nothing behind, no call hangs, no
  stranger's socket is shut down, a client that keeps trying is served;
* wire: what is written is read back, what is damaged, cut off or foreign is
  refused, and no two documents mean the same.

## 2. Modules

| Module | Models |
| --- | --- |
| `Identities` | the constants shared by records and authority |
| `PortLifecycle` | both state machines, as operators |
| `PortRecord` | the record, its validation, the compare, every builder |
| `Admission` | the request envelope, the gates of `execute_mutation`, and what an admitted request may make of a record (`Results`) |
| `Authority` | the tables under `authority_mutex` and their operations |
| `PortEngine` | threads that execute mutations step by step; composes the above; the properties |
| `PortStore` | the abstract specification: each mutation is one step; what a request makes of a record is a parameter, which `PortEngine` instantiates with `Results` of `Admission` |
| `Durability` | write-through, save, crash, load and restart; a mutation is one step, as in `PortStore`; composes `Admission` and `Authority` |
| `PortBinding` | `bind_port` in its critical sections, and the indexes under every change of a record; composes `Admission` and `Authority` |
| `LockOrder` | the critical sections of every operation and the mutexes they nest |
| `Server` | accept thread, session threads, owner and clients |
| `Configuration` | configurations, evidence and profiles with all their fields; arithmetic, validation, overlay, rendering of rates |
| `Catalogue` | the profile registry, one port and the container, over the values of `Configuration` |
| `Wire` | for every structure the fields its writer puts out and its reader takes in, and the readers' validation |
| `Documents` | a document on its way from a writer to a reader; composes `Wire` with headers and checksums |
| `MCRequests` | values, requests and initial records the instances share |
| `MCPortEngine`, `MCDurability`, `MCPortBinding`, `MCLockOrder`, `MCServer`, `MCDocuments`, `MCCatalogue` | instances and workloads for TLC |
| `PortRecordProofs` | lemmas about the builders: types, validity, support, `Develops` |
| `PortEngineProofs`, `GenerationProofs` | theorems of `PortEngine`; the second extends the first |
| `CatalogueProofs` | theorems of `Configuration` and `Catalogue` |
| `DurabilityProofs`, `PortBindingProofs`, `LockOrderProofs`, `ServerProofs` | theorems of the module they are named for |

`PortEngine` gives each thread a program counter. Its labels are the critical
sections and adapter calls of `execute_mutation`:

| Label | Action | Code |
| --- | --- | --- |
| `idle` | `Deliver` | a request arrives, again if it is retried |
| `authority` | `CheckAuthority` | `check_authority`, registering an unknown publisher when registration is automatic |
| `snapshot` | `ReadSnapshot` | copy of the record; retired ports and repeated attempts answer here |
| `topology` | `CheckTopology` | a stated topology expectation |
| `prepare` | `Prepare` | expectations, ownership, device generation, capability evidence, builder, validation |
| `apply` | `ApplySucceeds`, `ApplyUnsupported`, `ApplyFails`, `ApplyUnknown` | `PortAdapter::apply` |
| `readback` | `ReadbackVerified`, `ReadbackUnsupported`, `ReadbackInconclusive` | `PortAdapter::readback` |
| `uncertain` | `RecordUncertainty` | `record_apply_uncertainty` |
| `commit` | `Commit` | `EngineImpl::commit` |

The checks between two lock acquisitions read thread-local data only, so they
belong to the step before or after them. `BeginEpoch` and `FencePublisher` hold
`authority_mutex` and take `records_mutex` inside it: one step each.
`hardware` is what the device holds; it belongs to the adapter (external) and
is changed by an apply that succeeds, or that ends in doubt and did change it.
`delivered` and `commits` count deliveries and commits of each request: the
first bounds retries, both serve properties.

`Durability` has writers instead of threads. `Mutate` is a commit and `LoseApply`
an apply that ended in doubt; both advance the engine generation and enter
`persist_locked_state`, as `Save` does without a change. Its labels are the
critical sections: `authority` (`GatherTables`), `records` (`GatherRecords`) and
`write` (`WriteSucceeds` or `WriteFails`, under `persistence_mutex`). `made` is
the engine generation a writer will report as committed, `acked` the latest one
it did report. `Crash` ends the process at any point. `Start` is the start of
`pf_coordinator`: `load`, which makes of each record what `Recovered` says and
refuses the container when one does not validate, and `begin_epoch`, so the
epoch advances twice. Authority operations write nothing through: what they
changed reaches the container with the next mutation, or never.

`PortBinding` gives each thread in `bind_port` a place too: `CheckEpoch` under
`authority_mutex`, `Probe` (which asks the provider) under `records_mutex`
shared, `Insert` under it exclusive, and `EnterDevice`, `RefuseDevice` or
`RollBack` under `authority_mutex` again. A record's `parent_device`, which no
mutation changes, is the variable `parents`. The record is visible to every other
thread between the last two. `index` is one set of pairs of a key and a port for
the eight containers. `acknowledged` remembers which bindings were answered OK.

`LockOrder` writes every operation as a sequence of critical sections, each the
list of the locks it nests. Any section may be the operation's last, because an
early return follows each. A reader may wait for a waiting writer, as a
`shared_mutex` may make it.

`Server` has one program counter for the thread that starts, stops and joins the
server (`owner`), one for the accept thread (`acceptor`), one for each session
thread (`thread`: register, loop, receive, handle, send, unregister, close) and
one for each client. `sessions` are the threads that have not been joined,
finished or not; `registered` is `session_sockets`; `conn` is what the sockets
(external) keep for each open handle. A `FabricClient` sends a request and waits;
another peer sends what it likes and reads when it likes; both may die.

`Wire` holds two field lists for each structure, one from its writer and one from
its reader, which the code keeps apart by hand. `Written` makes a sequence of
units of a value, `Decoded` reads one. In `Documents` a value is written or refused,
the document of a template is tampered with (damaged on the medium, or sealed in
a consistent envelope by a build that writes something else), and is received.

`Catalogue` takes each operation as one step, except that a save gathers the
profiles before the port. The registry is the set of the profile generations it
holds, because the order the code keeps them in is that of their numbers.
`Restart` gives the container's profiles to the registry's own `define`: `load`
does so sorted by identifier and generation, so each one meets exactly the older
generations of its identifier (`Earlier`). `port.configured` says whether the
record's optional configuration has a value.

### Abstractions

* Outside `Configuration`, `Catalogue` and `Wire` the dimensions of a
  configuration (speed, lanes, MTU, FEC, breakout, ...) are one value of `Payloads`; capability evidence is the set of payloads it
  supports; a profile is a function on payloads. Which payloads are valid and
  supported is a parameter.
* A payload digest is the value that is digested: two texts collide in the
  model when they are equal in the code (a transfer's text names neither the
  delegate nor exclusivity) and never otherwise.
* Generations are naturals. The code saturates at 2^64-1.
* Requests are well formed: the rejections of malformed envelopes, illegal enum
  values and unknown ports happen before any state is read and change nothing.
* Left out of a record: labels and texts (status, provenance source, owner kind,
  entity class), which no decision reads. Left out of `PortEngine`: shutdown, the
  bound of the publisher table, the engine generation, indexes (`PortBinding`), and the
  write-through of a commit (`Durability`).
* `Durability` checks authority, ownership and generations in the step that
  commits: that the mutation path may be seen so is what `ImplementsStore`
  shows, as far as the records go. Ports are bound and written when a behaviour
  starts, the profile registry is fixed (it is the subject of `Catalogue`), and no
  epoch is begun except by a restart.
* The temporary file of `PersistenceStore::save` is left out, because `load`
  never reads it: a save replaces the container or leaves it alone. The
  container's content and checksums are the subject of `Documents`. The flag
  `durability_dirty` is left out because nothing reads it, `mark_revalidation`
  because nothing calls it.
* `register_device` and `set_topology_generation` advance by one; the code
  takes any newer generation, and only equality is ever tested.
* Except in `PortBinding` every port's device is registered: `bind_port` sees to it.
* `PortBinding`: the owner index has the publisher for a key where the code has
  the owner identity, which the model leaves out of a record. The write-through
  of a binding is left out, and `reindex_all` with it, which `load` calls on a
  fresh engine. `IndexesAgree` excepts ports in `overtaken`, whose binding was rolled
  back after another thread had changed the record: the code then removes the
  entries of the record it inserted and not those of the one it erases.
* `Server`: every answer can be encoded (for one that cannot, nothing is sent,
  `src/server.cpp:215`, `237`, `265`, `302`, so `CallsReturn` holds only as far as
  that; what triggers it is an adapter's overlong detail, section 3), closing a socket and setting the done
  flag are one step, and a server is started again only after it was joined. The
  service returns for every request; what it does is the subject of the engine's
  modules.
* `Wire`: units stand for bytes, checksums are ideal, one `ListBound` stands for the
  bounds of all lists, and texts are labels: empty, ordinary, malformed or
  overlong, without line breaks.
* `Catalogue`: an apply is taken to succeed, since one that fails commits
  nothing; evidence is bound with a newer generation only; the other states of
  the lifecycle are left to `PortEngine`. Rates are whole kbit/s: the plain
  bit/s that `to_string` falls back to for other rates is not modelled. What the
  decoder refuses in a container is the subject of `Documents`; `Restorable` is
  about what the registry refuses. `max_profiles` bounds the identifiers in the
  registry and the generations in the container, and is one constant for both.

## 3. Runs

In the runs of `PortEngine` and `Durability` there is one port: records of different
ports are independent except for `BeginEpoch` and `FencePublisher`, which treat them
alike, and the theorems hold for any set of ports. `CHECK_DEADLOCK FALSE` because
clients may stop sending, a server may stay down, a document that was read is done
with, and bounded counters run out.

Only `Server` states fairness; everything else is safety. Its fairness is weak
fairness of the accept thread, of every session thread and of the owner's steps
inside `stop` and `join` (threads are scheduled), of `join` once the server was
stopped (the destructor joins), and of a `FabricClient` taking the answer or the
end of the stream it is blocked on. Nothing is assumed of who starts or stops the
server, of other peers, or of a client's next request.

| Run | Instance | Shows |
| --- | --- | --- |
| `races` | 2 threads, 2 publishers, 6 requests once each, 2 epochs, desired state only | `NoLostUpdate`, `OwnerCommits`, `GenerationsAdvance`, `SupportedWhileLive` |
| `lifecycle` | 1 thread, 11 requests in any order, port as `bind_port` leaves it, no evidence bound yet | `TypeOK`, `ValidRecords`, `RevivedByReconcileOnly` |
| `device` | 2 threads, apply and verify, every adapter outcome | `RetiredForever`, `ImplementsStore` |
| `retries` | 2 threads, 2 requests that state expectations delivered twice each, apply, 2 boots, 2 epochs, device and topology replaced, automatic registration | `ConfigurationCommitsOnce`, `LiveIncarnationsAreCurrent` |
| `restart` | 1 writer, 4 requests in 2 process lives, engine generation up to 5, device and topology replaced | `TypeOK`, `AcknowledgedIsDurable`, `RestartIsPossible`, `TrustIsEarned`, `LastingEpochsEnd` |
| `binding` | 2 threads, 4 bindings of 2 ports on 2 devices, room for one of each, 3 mutations, 2 epochs, 2 device generations | `QueriesMissNothing`, `IndexesAgree`, `AcknowledgedBindingsHold`, `BoundsHold` |
| `locks` | 3 threads, 2 calls each, of 11 operations | `DeadlockFree` |
| `server` | a `FabricClient` and another peer, room for 1 session, 2 handles, buffers of 1 message | `RegisteredSocketsAreOwn`, `JoinedIsQuiet`, `JoinReturns`, `CallsReturn`, `RetryIsServed` |
| `wire` | the container and 8 messages, each field varied alone, lists of 0 to 3 with a bound of 2; every cut, every unit and every header field of a template tampered with | `RoundTrip`, `Canonical`, `PartsAreRefused`, `DamageIsRefused` |
| `catalogue` | 1 port, 2 profiles with 2 generations, 8 configurations, 4 bodies of evidence, 1 restart | `LiveIsRealisable`, `AlreadyCurrentIsTrue`, `ContainersLoad`, `BoundProfilesAreDefined`, `LessEvidenceLiftsOnlyLimits`, `GenerationsAreImmutable` |

Two threads are enough for a race between a snapshot and a commit, and a third
party acts through the authority operations; a request delivered twice covers a
retry before, during and after the first execution (other mutations have no
expected generation to stop a second execution once another mutation was
committed, since a record remembers its last attempt only). Two epochs, device and
topology generations distinguish current from replaced. One thread is enough
where a property is about sequences of requests and not about races.
`ThreadSymmetry` permutes the threads, which are interchangeable.

`restart` has one writer because with two `AcknowledgedIsDurable` fails
(`stale_write`). Its first life may claim and configure the port, its second may
claim and reconcile it; `MaxGeneration` = 5 leaves room for a configuration, a
restart, a claim and a reconciliation, or for a claimed configuration that is
recovered and claimed again. `MaxEpoch` = 4 is the second life: the first has
epoch 2, because `pf_coordinator` begins an epoch before it listens.

`binding` has room for one port and one device, so that a binding can find either
table full and both can be lost to another thread; a device generation of 2 can
overtake a binding with generation 1 between its insertion and its device. In
`locks` a circle of two locks needs two threads, and a reader that queues behind a
waiting writer a third. In `server` one session is the smallest bound that can be
full, two handles let one be reused while another is open, and a buffer of one
message can block a send to a peer that does not read. `LargeQuery` stands for a
response that exceeds the frame; `RejectedHello` and `Malformed` are what the other
peer may send. In `wire` each field takes another value while its neighbours keep
theirs, so that two fields of equal width that change places are told apart. In
`catalogue` the requests include rates whose decimal fractions differ
in a leading zero, lanes that a breakout does not divide, and a configuration
bound to a profile; the profiles include two contents for one generation and a
speed that no lanes go with. Of the bodies of evidence one has a bound on lanes
below its lane mode, one has a single lane mode and no bound, and one requires a
transceiver it does not know; two of the requests have a duplex and an MTU that
all of them exclude. So each of the five limits whose absence accepts more refuses
a request by itself.

### Disagreements between the repository and its code

Two runs check one sentence of the repository each; TLC finds a behaviour of the
code that breaks it. `PROJECT.json` quotes the sentence.

| Run | What happens |
| --- | --- |
| `first_apply_in_doubt` | an unknown outcome of a port's first apply leaves `REVALIDATION_REQUIRED` without a configuration: the record does not validate, cannot be saved, and neither configure nor reconcile admits it |
| `stale_write` | two writers: the one that gathered first writes last, and a mutation that was reported as committed is no longer in the container |

Others were met while modelling. The models contain these behaviours unless it is
said otherwise, and the properties are stated so that they hold beside them:

* An apply that succeeds and then loses compare-and-commit leaves the port live
  with the evidence of its old generation, although the device holds something
  else; `README.md:148-149` promises the conservative state.
* A claim that passed the authority check commits after its incarnation was
  fenced, which then owns a port, against the comment at `src/engine.cpp:327-329`.
* Reconciliation after a device replacement leaves `generations.device`, and the
  port accepts only reconcile, supersede and retire from then on
  (`include/portfabric/engine.hpp:152` says that it rebinds the device generation).
* A process life that ends before its first write leaves nothing of its epoch,
  and the next life has the same one (`README.md:244`); `LastingEpochsEnd` is about
  lives that left something.
* An in-sync observation marks evidence verified whatever was applied, and `load`
  clears the mark only of applied or verified outcomes
  (`src/engine_mutation.cpp:775`, `src/engine_persistence.cpp:150`), although
  `include/portfabric/record.hpp:54-56` says that persisted evidence is never
  current after a restart.
* A binding that is retried is confirmed as `IDEMPOTENT` while the first delivery is
  still before the device table, and may be rolled back after that;
  `AcknowledgedBindingsHold` is about bindings answered OK.
* The capability provider is called with `records_mutex` held shared
  (`src/engine_mutation.cpp:1338`), although `README.md:403` says that no lock is
  held. `LockOrder` takes the provider to return.
* A profile may carry an MTU it does not specify. It is defined and written, and
  the reader refuses it (`src/wire.cpp:741`): that container is not loaded again.
  `RoundTrip` states the exception.
* `include/portfabric/capability.hpp:26-27` says that a dimension that is not in the
  evidence is treated as unknown, never as supported. That is so for rates, modes,
  protocols, breakouts, logical interfaces and the upper MTU. It is not so for
  limits: an absent bound on lanes, an absent lower MTU, an unknown duplex and a
  transceiver that is not marked as required limit nothing, and evidence with
  neither lane modes nor a bound accepts one lane. `LimitIsGone` lists these five,
  and `LessEvidenceLiftsOnlyLimits` says that there are no others.
* With automatic speed any advertised rate that equals the lanes' total is
  accepted (`src/configuration.cpp:365`), not the highest one
  (`include/portfabric/characteristics.hpp:223`).
* The readers of fence, registration, hello acknowledgement, query and outcome
  accept trailing bytes, the others do not. `PartsAreRefused` names those that do not.
* `start()` after `stop()` without `join()` passes its check and assigns to a thread
  that was not joined. The model starts a server only after `join`.
* An adapter's detail for an apply in doubt is not bounded: beyond the bound the
  answer cannot be encoded, so the client waits, and the record cannot be
  written (`src/engine_support.cpp:223`). `Server` takes answers to be encodable.

## 4. Theorems

All for arbitrary sets of ports, threads, writers, publishers, boots, sessions,
handles, requests and payloads, and for any bounds, under the named assumptions of
the modules: requests are well formed, absent values are not members of the types
they are absent from, and the record a behaviour starts from is one `bind_port` or
a mutation leaves behind (it validates, and its configuration is supported if it is
live: `InitialRecordAssumption`; after a restart it has no owner:
`DurabilityAssumption`). In `Catalogue` the requests, the evidence and the profiles
have the types their constructors enforce, which includes rates and MTUs in range
(`CatalogueAssumption`); whether they are valid or realisable is left open.

Six theorems have a hypothesis of their own, where the code breaks the property
without it:

| Hypothesis | Says | Without it |
| --- | --- | --- |
| `UniqueAttempts` | no attempt identity is delivered twice or shared by two requests | the compared fields can recur: rebinding evidence may move the evidence generation back, and a replayed attempt becomes the last one again |
| `DoubtNeedsConfiguration` | no apply can end in doubt, or no port starts unconfigured | `first_apply_in_doubt` |
| `OneWriter` | write-throughs do not overlap | `stale_write` |

### The mutation path

* `TypeCorrect` (`PortEngineProofs`): `Spec => []TypeOK`. One lemma per builder
  (`PortRecordProofs`) and one per action. `TypeOK` is inductive because it ties
  what a thread carries to its label: `Commit` needs a plan that is a record,
  the adapter steps a plan with a configuration.
* `SurvivorsAreFenced` (`PortEngineProofs`): `Spec => []LiveIncarnationsAreCurrent`.
* `CompareIsExact` (`PortEngineProofs`): with `UniqueAttempts`,
  `Spec => []NoLostUpdate`. `Matches` compares six fields, and `NoLostUpdate`
  says that they determine the whole record. It is not inductive. The invariant
  adds that threads carry distinct requests (`Exclusive`); that the attempt of
  every record is spent, so that no later commit can produce it again
  (`AttemptsSpent`); and that a snapshot with the attempt of the current record
  either equals it or is behind it in the evidence or the ownership generation
  (`SnapshotsTrail`), because what changes a record without changing its attempt
  is an uncertain apply or a release, and each advances one of the two.
* `OnlyOwnersCommit` (`PortEngineProofs`): with `UniqueAttempts`,
  `Spec => OwnerCommits`. `PlansEntitled` says that a thread past the ownership
  gate is entitled by its snapshot; `CompareIsExact` carries that over to the
  record it replaces.
* `RetirementIsFinal` (`GenerationProofs`): `Spec => RetiredForever`, with no
  hypothesis on attempts. `LifecycleFollows` orders the records of a port by
  lifecycle generation; every builder, uncertain apply and release follows the
  record it starts from, so a plan made before a retirement no longer matches.
* `LiveIsSupported`, `OnlyReconcileRevives`, `ConfigurationsCommitOnce`
  (`GenerationProofs`): `SupportedWhileLive`, `RevivedByReconcileOnly` and
  `ConfigurationCommitsOnce`, again with no hypothesis. They share `DevelopInv`:
  a record is supported by the evidence it carries (`SupportedRecord`), a
  snapshot is such a record and no newer than the current one in its
  configuration generation, and a plan is what its request's builder may make of
  its snapshot (`Develops`, proved builder by builder in `PortRecordProofs`). A
  race between rebinding evidence and a configuration is harmless because a plan
  is a whole record that carries the evidence it was admitted on. For the third,
  a request that has committed once is behind the configuration generation it
  expects for good.
* `GenerationsNeverGoBack` (`GenerationProofs`): with `UniqueAttempts`,
  `Spec => GenerationsAdvance`. What `Develops` guarantees against the snapshot
  holds against the replaced record, because the compare is exact.
* `RecordsValidate` (`GenerationProofs`): with `DoubtNeedsConfiguration`,
  `Spec => []ValidRecords`: every commit leaves something that can be saved.
* `MutationsAreAtomic` (`GenerationProofs`): with `UniqueAttempts`,
  `Spec => ImplementsStore`, the refinement of `PortStore` under
  `store <- records`. The invariant `StoreInv` remembers why a plan exists:
  `Admissible` names a topology generation, a device generation and evidence
  with which every gate admits the request on the snapshot and from which the
  builder and the adapter's answers make the plan. At the commit the snapshot is
  the record, by `CompareIsExact`, so the commit is one `PortStore!Mutate`; an
  uncertain apply maps to `FenceInDoubt`, `BeginEpoch` and `FencePublisher` to
  `ReleasePorts`, everything else to a stutter. The two generations in the
  abstract step are any that were current between delivery and commit, since the
  code does not compare them again (the second disagreement on devices above).

### Durability, binding, locks, server

* `DurableTypes`, `AlwaysRestartable`, `TrustMustBeEarned`, `EpochsNeverRepeat`
  (`DurabilityProofs`): `TypeOK`, `RestartIsPossible`, `TrustIsEarned`,
  `LastingEpochsEnd`. `RestartIsPossible` is about the records of the container;
  the one way known to write a container that is not loaded again is a profile
  with a stray MTU (the disagreement above, `RoundTrip`). `LifeInv` says of memory, of the container and of what
  every writer has gathered that owners and publishers are of no later epoch
  than the tables they go with, that supported records stay supported, and that
  the container's records validate. The tables are gathered before the records,
  both in one process life and so in one epoch, which is why a container made of
  two moments is still sound.
* `AcknowledgedSurvives` (`DurabilityProofs`): with `OneWriter`,
  `Spec => []AcknowledgedIsDurable`. `WriterInOrder`: what a writer will write
  is as new as the change it will report and as what is on disk.
* `AcknowledgedBindingsStay`, `IndexesFollowRecords`, `QueriesAreComplete`,
  `BoundsAreKept` (`PortBindingProofs`): the four properties of `PortBinding`,
  for any number of competing bindings. A thread between the insertion and the
  device table is alone with its port (`PendingBindings`): a second binding of
  the same port finds it bound and leaves. So a rollback erases the port of its
  own binding only, and no thread is left that could roll back an acknowledged
  one (`SettledBindings`). `IndexFollows` has two halves: the entries of a port
  always cover its record, and are no more than that unless its rolled back
  record was overtaken. The bounds are about cardinalities of finite sets and
  have an invariant of their own.
* `NoDeadlock` (`LockOrderProofs`): `Spec => []DeadlockFree` for any number of
  threads. Every operation is a sequence of eight shapes of section
  (`ProgramShapes`), and a section that takes two locks takes `records_mutex`
  second; so a thread that waits never holds `records_mutex`
  (`WaitingShape`), and whoever waits for it, or for the lock of a thread that
  does not wait, can go on.
* `SocketsAreOwn`, `JoinLeavesNothing` (`ServerProofs`): `RegisteredSocketsAreOwn`
  and `JoinedIsQuiet` for any number of clients, sessions and handles.
  `SocketsHeld`: an open handle is in the hands of the accept thread or of exactly
  one session thread, and a registered one in those of a session thread that has
  not unregistered it; that a session unregisters before it closes is what makes
  this inductive. `ThreadsKnown`: whoever runs is in `sessions` or `joining`.
  `CallsPending`: a client that waits has a connection that is open or in the
  backlog, an answer, or the end of its stream; together with the empty backlog
  this leaves nobody waiting when `join` has returned.

### Configurations and profiles

All in `CatalogueProofs`, for any sets of requests, evidence and profiles.

* `RatesAreReadBack`: `Parse(Render(rate)) = rate` for every rate, by cases on the
  unit `to_string` chooses and on the digits of a fraction.
* `AcceptsExactly`: `validate_against_capabilities` evaluates a sequence of checks and
  reports the first that fails. It accepts exactly if all pass
  (`FirstFailureAccepts`, which rests on a smallest index that fails), and a
  sequence of checks is put together from parts that pass (`PassesBoth`); so
  acceptance is one condition, dimension by dimension. What follows argues about that.
* `CatalogueInvariant`: `Spec => []CatalogueInv`, whose parts carry the next four:
  * `LivePortsAreRealisable`: `LiveIsRealisable`. `LiveIsValid` says that a live
    port passes both validations with the evidence it is bound to now: evidence
    that no longer supports it ends that, and a restart does. `AcceptedIsRealisable`
    is the arithmetic: what passes both has lanes that add up to an advertised
    rate and that a breakout divides. A configuration laid over by a profile
    stays of its type (`IsConfiguration`), so this holds for profiles too.
  * `AlreadyCurrentAnswersAreTrue`: `AlreadyCurrentIsTrue`. `AnswerIsCurrent` is what
    was compared; equal texts are equal rates by `RatesAreReadBack`.
  * `WrittenContainersLoad`: `ContainersLoad`. `RegistryIsSound`: what the registry
    holds it would accept again (`DefinedIsRestorable`). `SavesArePast`: what was
    gathered, and what the container has, is a registry of some moment before,
    hence closed under older generations and accepted for the same reason.
  * `LiveProfilesAreDefined`: `BoundProfilesAreDefined`. The invariant says nothing
    of the profile of a recovered port, because its container may be older than
    that; it is live again only after `Reconcile` has looked the profile up.
* `ProfileGenerationsAreImmutable`: `GenerationsAreImmutable`, from `SavesArePast` for
  a restart and from the guards of `DefineOutcome` for the rest.
* `LessEvidenceIsNoSupport`: what is accepted on evidence that says less, in any
  number of fields (`SaysLess`), is accepted on all of the evidence or refused there
  by a limit that is gone (`LimitIsGone`). It compares the condition of
  `AcceptsExactly` on both bodies of evidence, dimension by dimension; only the
  lanes need a case distinction (`LessSupportsLanes`).
  `WeakerEvidenceOnlyLiftsLimits` is `LessEvidenceLiftsOnlyLimits`: whatever
  `Weakened` takes away says less (`WeakenedSaysLess`).

### Only model-checked

* Liveness: `JoinReturns`, `CallsReturn`, `RetryIsServed`. They rest on
  fairness, and so on `ENABLED`, which the prover does not reason about.
* `RoundTrip`, `Canonical`, `PartsAreRefused`, `DamageIsRefused`: the writers and
  readers of `Wire` are recursive, and what they compute is proved by induction
  over values, which the provers cannot instantiate.

## 5. Not modelled, and the plan

What is left are proofs, in this order:

1. `PortBinding` and `Durability` with the steps of a mutation instead of one atomic
   step, through `MutationsAreAtomic`.
2. Bounded generations in place of naturals.

Not modelled: digests and SHA-256 (a digest is the value it digests), texts and
explanations, snapshots and diffs (copies that change nothing), argument parsing
and output of the applications, the calls of the operating system behind sockets
and files, the enumeration of Windows interfaces, and the synthetic inventory of
the tests. They keep no state that outlives a call, or are input and output only.
