----------------------------- MODULE PortEngine -----------------------------
(***************************************************************************)
(* The mutation path of PortFabricEngine: threads that each execute one    *)
(* request at a time against the shared records and authority tables.      *)
(* execute_mutation holds no lock across its whole run.  It takes          *)
(* authority_mutex, then records_mutex shared, then authority_mutex again, *)
(* calls the adapter with no lock held, and takes records_mutex exclusive  *)
(* to commit.  Each critical section and each adapter call is one step of  *)
(* the thread here, so every interleaving the locks permit is a behaviour. *)
(***************************************************************************)
EXTENDS Admission, Authority

CONSTANTS
  Threads,           \* the threads that call the engine
  DeviceOf,          \* DeviceOf[p]: the parent device of port p
  MaxDeliveries,     \* how often one request may be delivered (retries)
  NoRequest, NoRecord, NoHardware   \* absent values

\* What a device holds for a port, as far as the engine can tell it apart.
DeviceViews == [payload: Payloads, administrative: AdministrativeStates]
DeviceView(c) == [payload |-> c.payload, administrative |-> c.administrative]

ASSUME PortEngineAssumption ==
  /\ DeviceOf \in [Ports -> Devices]
  /\ MaxDeliveries \in Nat
  /\ NoRequest \notin Requests
  /\ NoRecord \notin PortRecords
  /\ Unregistered \notin PublisherRecords

VARIABLES
  records,    \* impl.records
  hardware,   \* what the device of each port holds (the adapter's side)
  pc,         \* where each thread is in execute_mutation
  req,        \* the request it executes
  snap,       \* the record it was validated against
  plan,       \* the record it proposes (MutationPlan.next)
  outcome,    \* the outcome code of its last request
  delivered,  \* how often each request was delivered
  commits     \* how often each request was committed

threadVars == <<pc, req, snap, plan, outcome>>
countVars == <<delivered, commits>>
vars == <<authorityVars, records, hardware, threadVars, countVars>>

InitialHardware ==
  IF InitialRecord.configuration # NoConfiguration /\ InitialRecord.applied.outcome = "VERIFIED"
  THEN DeviceView(InitialRecord.configuration) ELSE NoHardware

Init ==
  /\ AuthorityInit
  /\ records = [p \in Ports |-> InitialRecord]
  /\ hardware = [p \in Ports |-> InitialHardware]
  /\ pc = [t \in Threads |-> "idle"]
  /\ req = [t \in Threads |-> NoRequest]
  /\ snap = [t \in Threads |-> NoRecord]
  /\ plan = [t \in Threads |-> NoRecord]
  /\ outcome = [t \in Threads |-> "NONE"]
  /\ delivered = [r \in Requests |-> 0]
  /\ commits = [r \in Requests |-> 0]

-----------------------------------------------------------------------------
(* Steps of a thread. *)

Goto(t, label) == pc' = [pc EXCEPT ![t] = label]

\* The thread answers with a code and forgets the request.
Respond(t, code) ==
  /\ Goto(t, "idle")
  /\ req' = [req EXCEPT ![t] = NoRequest]
  /\ snap' = [snap EXCEPT ![t] = NoRecord]
  /\ plan' = [plan EXCEPT ![t] = NoRecord]
  /\ outcome' = [outcome EXCEPT ![t] = code]

Deliver(t, r) ==
  /\ pc[t] = "idle"
  /\ delivered[r] < MaxDeliveries
  /\ delivered' = [delivered EXCEPT ![r] = @ + 1]
  /\ req' = [req EXCEPT ![t] = r]
  /\ outcome' = [outcome EXCEPT ![t] = "NONE"]
  /\ Goto(t, "authority")
  /\ UNCHANGED <<authorityVars, records, hardware, snap, plan, commits>>

\* check_authority, under authority_mutex.
CheckAuthority(t) ==
  /\ pc[t] = "authority"
  /\ RegisterOnUse(req[t])
  /\ IF AuthorityOutcome(req[t]) = "OK"
     THEN Goto(t, "snapshot") /\ UNCHANGED <<req, snap, plan, outcome>>
     ELSE Respond(t, AuthorityOutcome(req[t]))
  /\ UNCHANGED <<epoch, devices, topology, records, hardware, countVars>>

\* The record is copied under records_mutex shared and never read again
\* before the commit.
ReadSnapshot(t) ==
  LET rec == records[req[t].port]
      code == SnapshotOutcome(rec, req[t])
  IN  /\ pc[t] = "snapshot"
      /\ IF code = "OK"
         THEN /\ snap' = [snap EXCEPT ![t] = rec]
              /\ Goto(t, IF req[t].expTopology = 0 THEN "prepare" ELSE "topology")
              /\ UNCHANGED <<req, plan, outcome>>
         ELSE Respond(t, code)
      /\ UNCHANGED <<authorityVars, records, hardware, countVars>>

\* A stated topology expectation is compared under a lock of its own.
CheckTopology(t) ==
  /\ pc[t] = "topology"
  /\ IF req[t].expTopology = topology
     THEN Goto(t, "prepare") /\ UNCHANGED <<req, snap, plan, outcome>>
     ELSE Respond(t, "STALE_TOPOLOGY_GENERATION")
  /\ UNCHANGED <<authorityVars, records, hardware, countVars>>

BuildInput(t, capability) ==
  [current |-> snap[t], topology |-> topology,
   device |-> devices[DeviceOf[req[t].port]], capability |-> capability]

\* The gates, the read of the device and topology generations under
\* authority_mutex, and the plan, built from the snapshot.
Prepare(t) ==
  /\ pc[t] = "prepare"
  /\ \E capability \in ResolveCapabilities(snap[t], req[t]) :
       LET in   == BuildInput(t, capability)
           code == PrepareOutcome(in, req[t])
           next == Planned(in, req[t])
       IN  IF code # "OK" THEN Respond(t, code)
           ELSE /\ UNCHANGED <<req, snap, outcome>>
                /\ IF ~RequiresApply(req[t])
                   THEN /\ plan' = [plan EXCEPT ![t] = next]
                        /\ Goto(t, "commit")
                   ELSE IF AdapterPolicy = "DesiredStateOnly"
                   THEN /\ plan' = [plan EXCEPT ![t] = Settled(next, "NOT_ATTEMPTED")]
                        /\ Goto(t, "commit")
                   ELSE /\ plan' = [plan EXCEPT ![t] = next]
                        /\ Goto(t, "apply")
  /\ UNCHANGED <<authorityVars, records, hardware, countVars>>

-----------------------------------------------------------------------------
(* The adapter (external): its calls run with no engine lock held.         *)

Settle(t, applied) ==
  /\ plan' = [plan EXCEPT ![t] = Settled(@, applied)]
  /\ Goto(t, "commit")
  /\ UNCHANGED <<req, snap, outcome>>

ApplySucceeds(t) ==
  /\ pc[t] = "apply"
  /\ hardware' = [hardware EXCEPT ![req[t].port] = DeviceView(plan[t].configuration)]
  /\ IF AdapterPolicy = "ApplyAndVerify"
     THEN Goto(t, "readback") /\ UNCHANGED <<req, snap, plan, outcome>>
     ELSE Settle(t, "APPLIED")
  /\ UNCHANGED <<authorityVars, records, countVars>>

\* The adapter does not implement apply, or there is no adapter.
ApplyUnsupported(t) ==
  /\ pc[t] = "apply"
  /\ Settle(t, "UNSUPPORTED")
  /\ UNCHANGED <<authorityVars, records, hardware, countVars>>

\* A definite failure: the device did not change and nothing is committed.
ApplyFails(t) ==
  /\ pc[t] = "apply"
  /\ Respond(t, "APPLY_FAILED")
  /\ UNCHANGED <<authorityVars, records, hardware, countVars>>

Doubt(t, code) ==
  /\ outcome' = [outcome EXCEPT ![t] = code]
  /\ Goto(t, "uncertain")
  /\ UNCHANGED <<req, snap, plan>>

\* The acknowledgement was lost: the device changed or it did not.
ApplyUnknown(t) ==
  /\ pc[t] = "apply"
  /\ \E changed \in BOOLEAN :
       hardware' = IF changed
                   THEN [hardware EXCEPT ![req[t].port] = DeviceView(plan[t].configuration)]
                   ELSE hardware
  /\ Doubt(t, "APPLY_OUTCOME_UNKNOWN")
  /\ UNCHANGED <<authorityVars, records, countVars>>

\* readback takes the port and not the request: it reports VERIFIED for the
\* configuration the device was last given, whoever gave it.
ReadbackVerified(t) ==
  /\ pc[t] = "readback"
  /\ Settle(t, "VERIFIED")
  /\ UNCHANGED <<authorityVars, records, hardware, countVars>>

ReadbackUnsupported(t) ==
  /\ pc[t] = "readback"
  /\ Settle(t, "APPLIED")
  /\ UNCHANGED <<authorityVars, records, hardware, countVars>>

ReadbackInconclusive(t) ==
  /\ pc[t] = "readback"
  /\ \E code \in {"READBACK_MISMATCH", "APPLY_OUTCOME_UNKNOWN"} : Doubt(t, code)
  /\ UNCHANGED <<authorityVars, records, hardware, countVars>>

\* record_apply_uncertainty rewrites whatever record is current by now.
RecordUncertainty(t) ==
  LET p == req[t].port IN
  /\ pc[t] = "uncertain"
  /\ records' = [records EXCEPT ![p] =
                   Uncertain(@, plan[t].generations.configuration)]
  /\ Respond(t, outcome[t])
  /\ UNCHANGED <<authorityVars, hardware, countVars>>

-----------------------------------------------------------------------------
(* Compare-and-commit, under records_mutex exclusive. *)

\* Mutant of CommitOutcome: commit without compare.
CommitUncompared(current, snapshot, next) ==
  IF current.attempt = next.attempt THEN "IDEMPOTENT"
  ELSE IF current.lifecycle = "RETIRED" /\ next.lifecycle # "RETIRED" THEN "PORT_RETIRED"
  ELSE "OK"

CommitOutcome(current, snapshot, next) ==
  IF current.attempt = next.attempt THEN "IDEMPOTENT"
  ELSE IF ~Matches(snapshot, current) THEN "STALE_CONFIGURATION_GENERATION"
  ELSE IF current.lifecycle = "RETIRED" /\ next.lifecycle # "RETIRED" THEN "PORT_RETIRED"
  ELSE "OK"

Commit(t) ==
  LET p    == req[t].port
      code == CommitOutcome(records[p], snap[t], plan[t])
  IN  /\ pc[t] = "commit"
      /\ IF code = "OK"
         THEN /\ records' = [records EXCEPT ![p] = plan[t]]
              /\ commits' = [commits EXCEPT ![req[t]] = @ + 1]
         ELSE UNCHANGED <<records, commits>>
      /\ Respond(t, code)
      /\ UNCHANGED <<authorityVars, hardware, delivered>>

-----------------------------------------------------------------------------
(* Authority operations that also touch the records, under both locks.     *)

\* release_ownership_before_epoch and release_ownership_of.
ReleaseOwnership(owned) ==
  records' = [p \in Ports |-> IF p \in owned THEN ReleasedOwnership(records[p]) ELSE records[p]]

BeginEpoch ==
  /\ AdvanceEpoch
  /\ ReleaseOwnership({q \in Ports : /\ records[q].ownership # NoOwner
                                    /\ records[q].ownership.epoch < epoch'})
  /\ UNCHANGED <<hardware, threadVars, countVars>>

FencePublisher(p, b) ==
  /\ MarkFenced(p, b)
  /\ ReleaseOwnership({q \in Ports : /\ records[q].ownership # NoOwner
                                    /\ records[q].ownership.publisher = p
                                    /\ records[q].ownership.boot = b})
  /\ UNCHANGED <<hardware, threadVars, countVars>>

AuthorityStep ==
  /\ \/ \E p \in Publishers, b \in Boots : RegisterPublisher(p, b)
     \/ \E d \in Devices : RegisterDevice(d)
     \/ SetTopologyGeneration
  /\ UNCHANGED <<records, hardware, threadVars, countVars>>

ThreadStep(t) ==
  \/ CheckAuthority(t) \/ ReadSnapshot(t) \/ CheckTopology(t) \/ Prepare(t)
  \/ ApplySucceeds(t) \/ ApplyUnsupported(t) \/ ApplyFails(t) \/ ApplyUnknown(t)
  \/ ReadbackVerified(t) \/ ReadbackUnsupported(t) \/ ReadbackInconclusive(t)
  \/ RecordUncertainty(t) \/ Commit(t)

Next ==
  \/ \E t \in Threads, r \in Requests : Deliver(t, r)
  \/ \E t \in Threads : ThreadStep(t)
  \/ BeginEpoch
  \/ \E p \in Publishers, b \in Boots : FencePublisher(p, b)
  \/ AuthorityStep

Spec == Init /\ [][Next]_vars

-----------------------------------------------------------------------------
(* Properties. *)

Labels == {"idle", "authority", "snapshot", "topology", "prepare", "apply",
           "readback", "commit", "uncertain"}

OutcomeCodes ==
  {"NONE", "OK", "IDEMPOTENT", "ALREADY_CURRENT", "STALE_COORDINATOR_EPOCH",
   "UNKNOWN_PUBLISHER", "STALE_WORKER_BOOT", "PUBLISHER_FENCED", "PORT_RETIRED",
   "PORT_SUPERSEDED", "REVALIDATION_REQUIRED", "CONFLICT_DETECTED",
   "INVALID_LIFECYCLE_TRANSITION", "STALE_TOPOLOGY_GENERATION",
   "STALE_CAPABILITY_GENERATION", "STALE_CONFIGURATION_GENERATION",
   "STALE_OWNERSHIP_GENERATION", "STALE_DEVICE_GENERATION", "UNAUTHORIZED_OWNER",
   "CAPABILITY_UNAVAILABLE", "UNKNOWN_DEVICE", "INVALID_CONFIGURATION",
   "UNKNOWN_PROFILE", "INVALID_PROFILE", "UNSUPPORTED_CONFIGURATION",
   "MALFORMED_REQUEST", "OWNERSHIP_CONFLICT", "UNKNOWN_OWNERSHIP", "APPLY_FAILED",
   "APPLY_OUTCOME_UNKNOWN", "READBACK_MISMATCH"}

\* A thread carries exactly what its place in execute_mutation needs.
ThreadTypeOK(t) ==
  /\ pc[t] # "idle" => req[t] \in Requests
  /\ pc[t] \in {"topology", "prepare", "apply", "readback", "commit", "uncertain"}
       => snap[t] \in PortRecords
  /\ pc[t] \in {"apply", "readback", "commit", "uncertain"} => plan[t] \in PortRecords
  /\ pc[t] \in {"apply", "readback"} => plan[t].configuration \in Configurations

ThreadsTypeOK ==
  /\ pc \in [Threads -> Labels]
  /\ req \in [Threads -> Requests \cup {NoRequest}]
  /\ snap \in [Threads -> PortRecords \cup {NoRecord}]
  /\ plan \in [Threads -> PortRecords \cup {NoRecord}]
  /\ outcome \in [Threads -> OutcomeCodes]
  /\ \A t \in Threads : ThreadTypeOK(t)

\* Every record the engine holds, proposes or remembers is a PortRecord, and a
\* thread carries a request from delivery on, a snapshot after the read and a
\* plan after Prepare, with a configuration when the plan goes to the device.
TypeOK ==
  /\ AuthorityTypeOK
  /\ records \in [Ports -> PortRecords]
  /\ hardware \in [Ports -> DeviceViews \cup {NoHardware}]
  /\ delivered \in [Requests -> Nat]
  /\ commits \in [Requests -> Nat]
  /\ ThreadsTypeOK

\* Attempt identities are used for one request, delivered once.
UniqueAttempts ==
  /\ MaxDeliveries <= 1
  /\ \A r1, r2 \in Requests : r1.attempt = r2.attempt => r1 = r2

\* The compare of compare-and-commit is exact: a snapshot whose compared fields
\* match the current record is the current record, so a commit never discards a
\* mutation that happened since the snapshot (ExpectedState::matches compares
\* six fields, none of them drift, capability, ownership or configuration).
NoLostUpdate ==
  \A t \in Threads :
    (snap[t] # NoRecord /\ Matches(snap[t], records[req[t].port]))
      => records[req[t].port] = snap[t]

\* The thread commits in this step.
Committing(t) == pc[t] = "commit" /\ pc'[t] = "idle" /\ outcome'[t] = "OK"

\* The incarnation that sent r owns the port, or nobody owns or uses it.
Entitled(rec, r) ==
  \/ HeldBy(rec.ownership, r)
  \/ rec.ownership = NoOwner /\ rec.configuration = NoConfiguration

CommitsAreEntitled ==
  \A t \in Threads :
    (Committing(t) /\ RequireOwnership /\ req[t].kind # "ClaimOwnership")
      => Entitled(records[req[t].port], req[t])

\* The holder check of execute_mutation is made on a snapshot; whatever was
\* claimed, transferred, released or fenced since, a mutation is committed only
\* by the incarnation that owns the port at that moment, or on a port that has
\* neither owner nor configuration.
OwnerCommits == [][CommitsAreEntitled]_vars

RetiredStays ==
  \A p \in Ports :
    records[p].lifecycle = "RETIRED" =>
      /\ records'[p].lifecycle = "RETIRED"
      /\ records'[p].configuration = records[p].configuration

\* A retired port is never resurrected, not by a commit prepared before the
\* retirement nor by an apply whose uncertain outcome is recorded after it, and
\* its committed configuration never changes again.
RetiredForever == [][RetiredStays]_vars

\* The table of README section 9, for every step: see Advances.
GenerationsAdvance == [][\A p \in Ports : Advances(records[p], records'[p])]_vars

\* However often a configuration mutation is delivered, and whatever else is
\* committed in between, the generation it expects admits it at most once.
ConfigurationCommitsOnce ==
  \A r \in Requests : r.kind \in ConfigurationKinds => commits[r] <= 1

\* Fail-closed capability rule: a live port's committed configuration is one
\* its bound capability evidence supports, also when evidence is rebound while
\* a configuration is being prepared.
SupportedWhileLive ==
  \A p \in Ports :
    (IsLive(records[p].lifecycle) /\ Present(records[p].capability))
      => records[p].configuration.payload \in records[p].capability.supports

\* A fenced port becomes live again only through a reconciliation that expected
\* the very generation it revives, and that advances it.
RevivedByReconcileOnly ==
  [][\A p \in Ports :
       (RequiresReconciliation(records[p].lifecycle) /\ IsLive(records'[p].lifecycle))
         => /\ records'[p].generations.configuration =
                 records[p].generations.configuration + 1
            /\ \E r \in Requests :
                 /\ r.kind = "Reconcile" /\ r.port = p
                 /\ r.attempt = records'[p].attempt
                 /\ r.expConfiguration = records[p].generations.configuration]_vars

\* Every record the engine holds passes PortRecord::validate, which the
\* container encoder demands of every record it writes: one record that fails
\* makes every later save fail.
ValidRecords == \A p \in Ports : ValidRecord(records[p])

\* Only incarnations of the current epoch may mutate.
LiveIncarnationsAreCurrent ==
  \A p \in Publishers :
    (Registered(p) /\ ~publishers[p].fenced) => publishers[p].epoch = epoch

Store == INSTANCE PortStore WITH store <- records

\* The mutation path implements PortStore: each change of the records is one
\* request taking effect on the record it replaces, a port fenced in doubt, or
\* ownership released by fencing.
ImplementsStore == Store!StoreSpec

=============================================================================
