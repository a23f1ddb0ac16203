-------------------------- MODULE PortBindingProofs --------------------------
(***************************************************************************)
(* What concurrent bindings keep, for any number of ports, devices and     *)
(* threads: the bounds, the indexes, and the bindings that were answered   *)
(* OK.  A rollback removes the port of its own binding only, because no    *)
(* second thread passes the insertion while the first one is at the device *)
(* table.                                                                  *)
(***************************************************************************)
EXTENDS PortBinding, PortRecordProofs, FiniteSetTheorems

-----------------------------------------------------------------------------
(* What a request leaves alone. *)

\* No builder moves a port to another device generation.
LEMMA BuildDevice ==
  ASSUME NEW in \in BuildInputs, NEW r \in Requests, BuildFailure(in, r) = "OK"
  PROVE  BuildNext(in, r).generations.device = in.current.generations.device
<1> DEFINE rec == in.current
           Same(next) == next.generations.device = rec.generations.device
<1>1. rec \in PortRecords /\ rec.lifecycle \in PortLifecycles /\ "CONFIGURED" \in PortLifecycles
  BY InputTypes DEF PortRecords, PortLifecycles
<1>2. r.kind \in MutationKinds
  BY RequestTypes
<1>3. ASSUME NEW lifecycle \in PortLifecycles, NEW c \in Configurations
      PROVE  LET next == WithConfiguration(WithLifecycle(rec, lifecycle), c) IN
             next \in PortRecords /\ Same(next)
  <2>1. WithLifecycle(rec, lifecycle) \in PortRecords /\ Same(WithLifecycle(rec, lifecycle))
    BY <1>1, WithLifecycleType DEF WithLifecycle, PortRecords, GenerationVectors
  <2> DEFINE turned == WithLifecycle(rec, lifecycle)
  <2>2. turned \in PortRecords /\ Same(turned)
    BY <2>1
  <2> HIDE DEF turned
  <2>3. WithConfiguration(turned, c) \in PortRecords /\ Same(WithConfiguration(turned, c))
    BY <2>2, WithConfigurationType DEF WithConfiguration, PortRecords, GenerationVectors
  <2> QED BY <2>3 DEF turned
<1> USE DEF BuildNext, BuildFailure, FenceKinds, OwnershipKinds
<1>4. CASE r.kind = "Configure"
  <2> DEFINE next == WithConfiguration(WithLifecycle(rec, "CONFIGURED"), Proposed(in, r))
  <2>1. next \in PortRecords /\ Same(next)
    BY <1>1, <1>3, <1>4, ProposedType
  <2> HIDE DEF next
  <2>2. Same([next EXCEPT !.generations.administrative = @ + 1, !.drift = "UNKNOWN"])
    BY <2>1 DEF PortRecords, GenerationVectors
  <2> QED BY <1>4, <2>2 DEF ConfigureNext, next
<1>5. CASE r.kind = "Reconfigure"
  BY <1>1, <1>3, <1>5, ProposedType DEF ReconfigureNext
<1>6. CASE r.kind = "AssignProfile"
  BY <1>1, <1>3, <1>6, ReprofiledType DEF AssignProfileNext
<1>7. CASE r.kind = "Reconcile"
  <2>1. in.current.configuration \in Configurations
    BY <1>7, InputTypes DEF ReconcileFailure
  <2>2. Rebound(in, r) \in Configurations
    BY <2>1, InputTypes, RequestTypes DEF Rebound, Configurations
  <2> DEFINE next == WithConfiguration(WithLifecycle(rec, "CONFIGURED"), Rebound(in, r))
  <2>3. next \in PortRecords /\ Same(next)
    BY <1>1, <1>3, <2>2
  <2> HIDE DEF next
  <2>4. Same([next EXCEPT !.drift = "UNKNOWN"])
    BY <2>3 DEF PortRecords, GenerationVectors
  <2> QED BY <1>7, <2>4 DEF ReconcileNext, next
<1>8. CASE r.kind = "Administrative"
  BY <1>1, <1>8 DEF AdministrativeNext, WithLifecycle, PortRecords, GenerationVectors
<1>9. CASE r.kind = "BindCapabilities"
  BY <1>1, <1>9 DEF BindCapabilitiesNext, WithLifecycle, PortRecords, GenerationVectors
<1>10. CASE r.kind \in FenceKinds
  BY <1>1, <1>10 DEF FenceNext, ReleasedOwnership, WithLifecycle, PortRecords, GenerationVectors
<1>11. CASE r.kind \in OwnershipKinds
  BY <1>1, <1>11 DEF OwnershipNext, ReleasedOwnership, PortRecords, GenerationVectors
<1>12. CASE r.kind = "RecordAppliedEvidence"
  BY <1>1, <1>12 DEF AppliedEvidenceNext, WithLifecycle, PortRecords, GenerationVectors
<1>13. CASE r.kind = "ObserveExternalState"
  BY <1>1, <1>13 DEF DriftNext, WithLifecycle, PortRecords, GenerationVectors
<1> QED
  BY <1>2, <1>4, <1>5, <1>6, <1>7, <1>8, <1>9, <1>10, <1>11, <1>12, <1>13
  DEF MutationKinds, ConfigurationKinds

\* The result of a request is a record on the same device generation.
LEMMA ResultKeeps ==
  ASSUME NEW rec \in PortRecords, NEW r \in Requests, NEW top \in Nat, NEW dev \in Nat,
         NEW next \in Results(rec, r, top, dev)
  PROVE  next \in PortRecords /\ next.generations.device = rec.generations.device
<1>1. PICK in \in BuildInputs :
        /\ in.current = rec /\ in.capability \in ResolveCapabilities(rec, r)
        /\ PrepareOutcome(in, r) = "OK"
        /\ \/ next = Planned(in, r)
           \/ \E applied \in AppliedOutcomes : next = Settled(Planned(in, r), applied)
  BY ResultsPlanned
<1>2. PlanFailure(in, r) = "OK" /\ BuildFailure(in, r) = "OK"
  BY <1>1 DEF PrepareOutcome, PlanFailure
<1> DEFINE plan == Planned(in, r)
<1>3. plan \in PortRecords
  BY <1>1, <1>2, PlannedType
<1>4. plan.generations.device = rec.generations.device
  BY <1>1, <1>2, BuildType, BuildDevice DEF Planned, PortRecords
<1> HIDE DEF plan
<1>5. ASSUME NEW applied \in AppliedOutcomes, next = Settled(plan, applied)
      PROVE  next \in PortRecords /\ next.generations.device = plan.generations.device
  BY <1>3, <1>5, SettledType DEF Settled, PortRecords, GenerationVectors
<1> QED BY <1>1, <1>3, <1>4, <1>5 DEF plan

\* An apply in doubt and a release keep the device generation too.
LEMMA UpdateKeeps ==
  ASSUME NEW rec \in PortRecords, NEW generation \in Nat
  PROVE  /\ Uncertain(rec, generation) \in PortRecords
         /\ Uncertain(rec, generation).generations.device = rec.generations.device
         /\ ReleasedOwnership(rec) \in PortRecords
         /\ ReleasedOwnership(rec).generations.device = rec.generations.device
<1>1. Uncertain(rec, generation).generations.device = rec.generations.device
  BY DEF Uncertain, WithLifecycle, PortRecords, GenerationVectors
<1>2. ReleasedOwnership(rec).generations.device = rec.generations.device
  BY DEF ReleasedOwnership, PortRecords, GenerationVectors
<1> QED BY <1>1, <1>2, UncertainType, ReleasedOwnershipType

\* bind_port makes a record of the request and the evidence.
LEMMA BoundRecordType ==
  ASSUME NEW b \in BindRequests, NEW binding \in Bindings
  PROVE  /\ BoundRecord(b, binding) \in PortRecords
         /\ BoundRecord(b, binding).generations.device = b.device
<1>1. b.device \in Nat /\ b.attempt \in Attempts
  BY PortBindingAssumption
<1>2. binding.generation \in Nat /\ binding.evidence \in Nat
  BY DEF Bindings
<1>3. NotAttempted(0) \in AppliedEvidences
  BY DEF NotAttempted, AppliedEvidences, AppliedOutcomes
<1> QED
  BY <1>1, <1>2, <1>3 DEF BoundRecord, PortRecords, GenerationVectors, PortLifecycles, DriftStates

-----------------------------------------------------------------------------
(* The indexes, port by port. *)

OfPort(entries, p) == {entry \in entries : entry[2] = p}

\* What index_remove erases.
Erased(p, parent, rec) == Entries(p, IndexKeys(parent, rec) \cup {<<"revalidation">>})

\* index_add, index_remove and index_update leave the entries of other ports alone.
LEMMA OfPortOthers ==
  ASSUME NEW entries, NEW p, NEW parent, NEW rec, NEW next, NEW q, q # p
  PROVE  /\ OfPort(IndexAdd(entries, p, parent, rec), q) = OfPort(entries, q)
         /\ OfPort(IndexRemove(entries, p, parent, rec), q) = OfPort(entries, q)
         /\ OfPort(IndexUpdate(entries, p, parent, rec, next), q) = OfPort(entries, q)
<1>1. ASSUME NEW keys, NEW some
      PROVE  /\ OfPort(some \cup Entries(p, keys), q) = OfPort(some, q)
             /\ OfPort(some \ Entries(p, keys), q) = OfPort(some, q)
  BY DEF OfPort, Entries
<1> QED BY <1>1 DEF IndexAdd, IndexRemove, IndexUpdate

\* index_add puts a port into the containers of its record.
LEMMA OfPortAdded ==
  ASSUME NEW entries, NEW p, NEW parent, NEW rec
  PROVE  OfPort(IndexAdd(entries, p, parent, rec), p) =
           OfPort(entries, p) \cup Entries(p, IndexKeys(parent, rec))
<1>1. ASSUME NEW keys
      PROVE  OfPort(entries \cup Entries(p, keys), p) = OfPort(entries, p) \cup Entries(p, keys)
  BY DEF OfPort, Entries
<1> QED BY <1>1 DEF IndexAdd

\* index_remove takes it out of them, and of the revalidation set.
LEMMA OfPortRemoved ==
  ASSUME NEW entries, NEW p, NEW parent, NEW rec
  PROVE  OfPort(IndexRemove(entries, p, parent, rec), p) =
           OfPort(entries, p) \ Erased(p, parent, rec)
<1>1. ASSUME NEW keys
      PROVE  OfPort(entries \ Entries(p, keys), p) = OfPort(entries, p) \ Entries(p, keys)
  BY DEF OfPort, Entries
<1> QED BY <1>1 DEF IndexRemove, Erased

\* index_update does one after the other.
LEMMA OfPortUpdated ==
  ASSUME NEW entries, NEW p, NEW parent, NEW rec, NEW next
  PROVE  OfPort(IndexUpdate(entries, p, parent, rec, next), p) =
           (OfPort(entries, p) \ Erased(p, parent, rec))
             \cup Entries(p, IndexKeys(parent, next))
<1>1. OfPort(IndexRemove(entries, p, parent, rec), p) =
        OfPort(entries, p) \ Erased(p, parent, rec)
  BY OfPortRemoved
<1>2. ASSUME NEW kept
      PROVE  OfPort(IndexAdd(kept, p, parent, next), p) =
               OfPort(kept, p) \cup Entries(p, IndexKeys(parent, next))
  BY OfPortAdded
<1> QED BY <1>1, <1>2 DEF IndexUpdate

\* A port is taken out of the containers of its record and put into those of the next.
Reindexed(p) ==
  OfPort(index', p) =
    (OfPort(index, p) \ Erased(p, parents[p], records[p]))
      \cup Entries(p, IndexKeys(parents'[p], records'[p]))

\* The record of a port is replaced by one on the same device generation.
Rewritten(p) ==
  /\ records[p] # NoRecord /\ records'[p] \in PortRecords
  /\ records'[p].generations.device = records[p].generations.device
  /\ parents'[p] = parents[p]
  /\ Reindexed(p)

Untouched(p) ==
  /\ records'[p] = records[p] /\ parents'[p] = parents[p]
  /\ OfPort(index', p) = OfPort(index, p)

-----------------------------------------------------------------------------
(* The inductive invariant. *)

\* What the variables may hold.
BindingTypes ==
  /\ topology \in Nat /\ devices \in [Devices -> Nat]
  /\ records \in [Ports -> PortRecords \cup {NoRecord}]
  /\ parents \in [Ports -> Devices \cup {NoDevice}]
  /\ \A p \in Ports : records[p] # NoRecord => parents[p] \in Devices
  /\ pc \in [Threads -> {"idle", "probe", "insert", "device"}]
  /\ req \in [Threads -> BindRequests \cup {NoRequest}]
  /\ evidence \in [Threads -> Bindings]
  /\ inserted \in [Threads -> PortRecords \cup {NoRecord}]
  /\ \A t \in Threads : /\ pc[t] # "idle" => req[t] \in BindRequests
                        /\ pc[t] = "device" => inserted[t] \in PortRecords

\* A thread at the device table is alone with its port, which is bound as it asked.
PendingBindings ==
  \A t \in Threads : pc[t] = "device" =>
    LET b == req[t] IN
    /\ records[b.port] # NoRecord /\ parents[b.port] = b.parent
    /\ records[b.port].generations.device = b.device
    /\ \A u \in Threads : pc[u] = "device" /\ req[u].port = b.port => u = t

\* An acknowledged binding holds, and no thread is left that could roll it back.
SettledBindings ==
  \A binding \in acknowledged :
    /\ binding[1] \in Ports /\ binding[2] \in Devices
    /\ records[binding[1]] # NoRecord /\ parents[binding[1]] = binding[2]
    /\ records[binding[1]].generations.device <= devices[binding[2]]
    /\ \A t \in Threads : pc[t] = "device" => req[t].port # binding[1]

\* The entries of a bound port cover its record, and are no more than that
\* unless its record was overtaken.
IndexFollows ==
  \A p \in Ports :
    /\ records[p] # NoRecord =>
         Entries(p, IndexKeys(parents[p], records[p])) \subseteq OfPort(index, p)
    /\ p \notin overtaken =>
         OfPort(index, p) = IF records[p] = NoRecord THEN {}
                            ELSE Entries(p, IndexKeys(parents[p], records[p]))

BindingInv == BindingTypes /\ PendingBindings /\ SettledBindings /\ IndexFollows

\* bind_port starts with nothing bound.
LEMMA BindingInit == Init => BindingInv
<1> SUFFICES ASSUME Init PROVE BindingInv
  OBVIOUS
<1>1. NoBinding \in Bindings
  BY DEF NoBinding, Bindings
<1>2. BindingTypes
  BY <1>1 DEF Init, BindingTypes
<1>3. PendingBindings /\ SettledBindings
  BY DEF Init, PendingBindings, SettledBindings
<1>4. IndexFollows
  BY DEF Init, IndexFollows, OfPort
<1> QED BY <1>2, <1>3, <1>4 DEF BindingInv

\* The index follows a port that is left alone or whose record is replaced.
LEMMA IndexStep ==
  ASSUME IndexFollows, overtaken \subseteq overtaken', NEW p \in Ports,
         Untouched(p) \/ Rewritten(p), NoRecord \notin PortRecords
  PROVE  /\ records'[p] # NoRecord =>
              Entries(p, IndexKeys(parents'[p], records'[p])) \subseteq OfPort(index', p)
         /\ p \notin overtaken' =>
              OfPort(index', p) = IF records'[p] = NoRecord THEN {}
                                  ELSE Entries(p, IndexKeys(parents'[p], records'[p]))
<1>1. CASE Untouched(p)
  BY <1>1 DEF Untouched, IndexFollows
<1>2. CASE Rewritten(p)
  <2> DEFINE before == IndexKeys(parents[p], records[p])
             after == Entries(p, IndexKeys(parents'[p], records'[p]))
             removed == Erased(p, parents[p], records[p])
  <2>1. OfPort(index', p) = (OfPort(index, p) \ removed) \cup after
    BY <1>2 DEF Rewritten, Reindexed
  <2>2. p \notin overtaken => OfPort(index, p) = Entries(p, before)
    BY <1>2 DEF IndexFollows, Rewritten
  <2>3. Entries(p, before) \ removed = {}
    BY DEF Entries, Erased
  <2>4. records'[p] # NoRecord
    BY <1>2 DEF Rewritten
  <2> HIDE DEF before, after, removed
  <2>5. p \notin overtaken' => OfPort(index', p) = after
    BY <2>1, <2>2, <2>3
  <2>6. after \subseteq OfPort(index', p)
    BY <2>1
  <2> QED BY <2>4, <2>5, <2>6 DEF after
<1> QED BY <1>1, <1>2

\* What happens to bound ports besides bind_port keeps the invariant.
LEMMA ChangeStep ==
  ASSUME BindingInv, UNCHANGED <<bindVars, historyVars>>,
         topology' \in Nat, devices' \in [Devices -> Nat],
         \A d \in Devices : devices[d] <= devices'[d],
         records' \in [Ports -> PortRecords \cup {NoRecord}], parents' = parents,
         \A p \in Ports : Untouched(p) \/ Rewritten(p)
  PROVE  BindingInv'
<1>1. NoRecord \notin PortRecords
  BY PortBindingAssumption
<1>2. \A p \in Ports : /\ records'[p] # NoRecord <=> records[p] # NoRecord
                       /\ records[p] # NoRecord =>
                            records'[p].generations.device = records[p].generations.device
  BY <1>1 DEF Untouched, Rewritten
<1>3. BindingTypes'
  BY <1>2 DEF BindingInv, BindingTypes, bindVars
<1>4. PendingBindings'
  <2> SUFFICES ASSUME NEW t \in Threads, pc[t] = "device"
               PROVE  LET b == req[t] IN
                      /\ records'[b.port] # NoRecord /\ parents'[b.port] = b.parent
                      /\ records'[b.port].generations.device = b.device
                      /\ \A u \in Threads : pc[u] = "device" /\ req[u].port = b.port => u = t
    BY DEF PendingBindings, bindVars
  <2>1. req[t] \in BindRequests /\ req[t].port \in Ports
    BY PortBindingAssumption DEF BindingInv, BindingTypes
  <2> QED BY <1>2, <2>1 DEF BindingInv, PendingBindings
<1>5. SettledBindings'
  <2> SUFFICES ASSUME NEW binding \in acknowledged
               PROVE  /\ binding[1] \in Ports /\ binding[2] \in Devices
                      /\ records'[binding[1]] # NoRecord /\ parents'[binding[1]] = binding[2]
                      /\ records'[binding[1]].generations.device <= devices'[binding[2]]
                      /\ \A t \in Threads : pc[t] = "device" => req[t].port # binding[1]
    BY DEF SettledBindings, bindVars, historyVars
  <2> DEFINE rec == records[binding[1]]
  <2>1. /\ binding[1] \in Ports /\ binding[2] \in Devices
        /\ rec # NoRecord /\ parents[binding[1]] = binding[2]
        /\ rec.generations.device <= devices[binding[2]]
        /\ \A t \in Threads : pc[t] = "device" => req[t].port # binding[1]
    BY DEF BindingInv, SettledBindings
  <2>2. rec.generations.device \in Nat
    BY <2>1 DEF BindingInv, BindingTypes, PortRecords, GenerationVectors
  <2>3. devices[binding[2]] \in Nat /\ devices'[binding[2]] \in Nat
    BY <2>1 DEF BindingInv, BindingTypes
  <2>4. records'[binding[1]].generations.device = rec.generations.device
    BY <1>2, <2>1
  <2>5. rec.generations.device <= devices'[binding[2]]
    BY <2>1, <2>2, <2>3
  <2> QED BY <1>2, <2>1, <2>4, <2>5
<1>6. IndexFollows'
  <2>1. overtaken \subseteq overtaken'
    BY DEF historyVars
  <2> QED BY <1>1, <2>1, IndexStep DEF BindingInv, IndexFollows
<1> QED BY <1>3, <1>4, <1>5, <1>6 DEF BindingInv

-----------------------------------------------------------------------------
(* The steps of bind_port. *)

ThreadTypes ==
  /\ pc \in [Threads -> {"idle", "probe", "insert", "device"}]
  /\ req \in [Threads -> BindRequests \cup {NoRequest}]
  /\ evidence \in [Threads -> Bindings]
  /\ inserted \in [Threads -> PortRecords \cup {NoRecord}]
  /\ \A t \in Threads : /\ pc[t] # "idle" => req[t] \in BindRequests
                        /\ pc[t] = "device" => inserted[t] \in PortRecords

\* A step that touches no port and sends no thread to the device table.
LEMMA BindKeeps ==
  ASSUME BindingInv, ThreadTypes',
         UNCHANGED <<topology, devices, portVars, index, historyVars>>,
         \A u \in Threads : pc'[u] = "device" => pc[u] = "device" /\ req'[u] = req[u]
  PROVE  BindingInv'
<1>1. BindingTypes'
  BY DEF BindingInv, BindingTypes, ThreadTypes, portVars
<1>2. PendingBindings'
  <2> SUFFICES ASSUME NEW t \in Threads, pc'[t] = "device"
               PROVE  LET b == req'[t] IN
                      /\ records[b.port] # NoRecord /\ parents[b.port] = b.parent
                      /\ records[b.port].generations.device = b.device
                      /\ \A u \in Threads : pc'[u] = "device" /\ req'[u].port = b.port => u = t
    BY DEF PendingBindings, portVars
  <2> QED BY DEF BindingInv, PendingBindings
<1>3. SettledBindings'
  BY DEF BindingInv, SettledBindings, portVars, historyVars
<1>4. IndexFollows'
  BY DEF BindingInv, IndexFollows, portVars, historyVars
<1> QED BY <1>1, <1>2, <1>3, <1>4 DEF BindingInv

\* A thread that answers is idle, and the others are where they were.
LEMMA AnswerFacts ==
  ASSUME BindingInv, NEW t \in Threads, NEW b, NEW code, Answer(t, b, code)
  PROVE  /\ ThreadTypes' /\ pc'[t] = "idle"
         /\ \A u \in Threads : u # t => pc'[u] = pc[u] /\ req'[u] = req[u]
         /\ acknowledged' = IF code = "OK" THEN acknowledged \cup {<<b.port, b.parent>>}
                            ELSE acknowledged
<1>1. NoBinding \in Bindings
  BY DEF NoBinding, Bindings
<1> QED BY <1>1 DEF BindingInv, BindingTypes, ThreadTypes, Answer, Goto

\* A request of another epoch is answered, any other starts.
LEMMA CheckEpochStep ==
  ASSUME BindingInv, NEW t \in Threads, NEW b \in BindRequests, CheckEpoch(t, b)
  PROVE  BindingInv'
<1>1. UNCHANGED <<topology, devices, portVars, index, overtaken>> /\ pc[t] = "idle"
  BY DEF CheckEpoch, authorityVars
<1>2. CASE b.epoch # epoch
  <2>1. Answer(t, b, "STALE_COORDINATOR_EPOCH")
    BY <1>2 DEF CheckEpoch
  <2> QED BY <1>1, <2>1, AnswerFacts, BindKeeps DEF historyVars
<1>3. CASE b.epoch = epoch
  <2>1. /\ req' = [req EXCEPT ![t] = b] /\ pc' = [pc EXCEPT ![t] = "probe"]
        /\ UNCHANGED <<evidence, inserted, acknowledged>>
    BY <1>3 DEF CheckEpoch, Goto
  <2>2. ThreadTypes'
    BY <2>1 DEF BindingInv, BindingTypes, ThreadTypes
  <2>3. \A u \in Threads : pc'[u] = "device" => pc[u] = "device" /\ req'[u] = req[u]
    BY <1>1, <2>1 DEF BindingInv, BindingTypes
  <2> QED BY <1>1, <2>1, <2>2, <2>3, BindKeeps DEF historyVars
<1> QED BY <1>2, <1>3

\* The provider is asked about a port that may be bound by now.
LEMMA ProbeStep ==
  ASSUME BindingInv, NEW t \in Threads, Probe(t)
  PROVE  BindingInv'
<1>1. NoBinding \in Bindings
  BY DEF NoBinding, Bindings
<1>2. PICK binding \in Bindings : evidence' = [evidence EXCEPT ![t] = binding]
  BY <1>1, AdmissionAssumption DEF Probe
<1>3. /\ pc[t] = "probe" /\ pc' = [pc EXCEPT ![t] = "insert"]
      /\ UNCHANGED <<topology, devices, portVars, index, req, inserted, historyVars>>
  BY DEF Probe, Goto, authorityVars
<1>4. ThreadTypes'
  BY <1>2, <1>3 DEF BindingInv, BindingTypes, ThreadTypes
<1>5. \A u \in Threads : pc'[u] = "device" => pc[u] = "device" /\ req'[u] = req[u]
  BY <1>3 DEF BindingInv, BindingTypes
<1> QED BY <1>3, <1>4, <1>5, BindKeeps

\* A port is inserted only while it is not bound, so nobody else is pending on it.
LEMMA InsertStep ==
  ASSUME BindingInv, NEW t \in Threads, Insert(t)
  PROVE  BindingInv'
<1> DEFINE b == req[t]
           rec == BoundRecord(b, evidence[t])
<1>1. pc[t] = "insert" /\ b \in BindRequests /\ evidence[t] \in Bindings
  BY DEF Insert, BindingInv, BindingTypes
<1>2. b.port \in Ports /\ b.parent \in Devices /\ b.device \in Nat
  BY <1>1, PortBindingAssumption
<1>3. rec \in PortRecords /\ rec.generations.device = b.device
  BY <1>1, BoundRecordType
<1>4. UNCHANGED <<topology, devices, overtaken>>
  BY DEF Insert, authorityVars
<1>5. NoRecord \notin PortRecords
  BY PortBindingAssumption
<1>6. CASE InsertOutcome(b) # "OK"
  <2>1. Answer(t, b, InsertOutcome(b)) /\ UNCHANGED <<portVars, index>>
    BY <1>6 DEF Insert, portVars
  <2>2. acknowledged' = acknowledged
    BY <1>6, <2>1, AnswerFacts
  <2>3. \A u \in Threads : pc'[u] = "device" => pc[u] = "device" /\ req'[u] = req[u]
    BY <2>1, AnswerFacts
  <2>4. ThreadTypes'
    BY <2>1, AnswerFacts
  <2> QED BY <1>4, <2>1, <2>2, <2>3, <2>4, BindKeeps DEF historyVars
<1>7. CASE InsertOutcome(b) = "OK"
  <2>1. /\ records' = [records EXCEPT ![b.port] = rec]
        /\ parents' = [parents EXCEPT ![b.port] = b.parent]
        /\ index' = IndexAdd(index, b.port, b.parent, rec)
        /\ inserted' = [inserted EXCEPT ![t] = rec] /\ pc' = [pc EXCEPT ![t] = "device"]
        /\ UNCHANGED <<req, evidence, acknowledged>>
    BY <1>7 DEF Insert, Goto
  <2>2. records[b.port] = NoRecord
    BY <1>7 DEF InsertOutcome
  <2> HIDE DEF rec
  <2>3. BindingTypes'
    BY <1>1, <1>2, <1>3, <1>4, <2>1 DEF BindingInv, BindingTypes
  <2>4. PendingBindings'
    <3> SUFFICES ASSUME NEW v \in Threads, pc'[v] = "device"
                 PROVE  LET c == req[v] IN
                        /\ records'[c.port] # NoRecord /\ parents'[c.port] = c.parent
                        /\ records'[c.port].generations.device = c.device
                        /\ \A u \in Threads : pc'[u] = "device" /\ req[u].port = c.port => u = v
      BY <2>1 DEF PendingBindings
    <3>1. ASSUME NEW u \in Threads, u # t, pc'[u] = "device"
          PROVE  /\ pc[u] = "device" /\ req[u].port \in Ports /\ req[u].port # b.port
                 /\ records[req[u].port] # NoRecord
      BY <2>1, <2>2, <3>1, PortBindingAssumption DEF BindingInv, BindingTypes, PendingBindings
    <3>2. CASE v = t
      BY <1>2, <1>3, <1>5, <2>1, <3>1, <3>2 DEF BindingInv, BindingTypes
    <3>3. CASE v # t
      BY <2>1, <3>1, <3>3 DEF BindingInv, BindingTypes, PendingBindings
    <3> QED BY <3>2, <3>3
  <2>5. SettledBindings'
    <3> SUFFICES ASSUME NEW binding \in acknowledged
                 PROVE  /\ binding[1] \in Ports /\ binding[2] \in Devices
                        /\ records'[binding[1]] # NoRecord /\ parents'[binding[1]] = binding[2]
                        /\ records'[binding[1]].generations.device <= devices[binding[2]]
                        /\ \A u \in Threads : pc'[u] = "device" => req[u].port # binding[1]
      BY <1>4, <2>1 DEF SettledBindings
    <3>1. binding[1] # b.port
      BY <2>2 DEF BindingInv, SettledBindings
    <3> QED BY <2>1, <3>1 DEF BindingInv, BindingTypes, SettledBindings
  <2>6. IndexFollows'
    <3> SUFFICES ASSUME NEW p \in Ports
                 PROVE  /\ records'[p] # NoRecord =>
                             Entries(p, IndexKeys(parents'[p], records'[p])) \subseteq OfPort(index', p)
                        /\ p \notin overtaken =>
                             OfPort(index', p) = IF records'[p] = NoRecord THEN {}
                               ELSE Entries(p, IndexKeys(parents'[p], records'[p]))
      BY <1>4 DEF IndexFollows
    <3>1. /\ p = b.port => OfPort(index', p) =
                              OfPort(index, p) \cup Entries(p, IndexKeys(b.parent, rec))
          /\ p # b.port => OfPort(index', p) = OfPort(index, p)
      BY <2>1, OfPortAdded, OfPortOthers
    <3>2. CASE p = b.port
      <4>1. records'[p] = rec /\ parents'[p] = b.parent /\ rec # NoRecord
        BY <1>3, <1>5, <2>1, <3>2 DEF BindingInv, BindingTypes
      <4>2. p \notin overtaken => OfPort(index, p) = {}
        BY <2>2, <3>2 DEF BindingInv, IndexFollows
      <4> QED BY <3>1, <3>2, <4>1, <4>2
    <3>3. CASE p # b.port
      <4>1. records'[p] = records[p] /\ parents'[p] = parents[p]
        BY <2>1, <3>3 DEF BindingInv, BindingTypes
      <4> QED BY <3>1, <3>3, <4>1 DEF BindingInv, IndexFollows
    <3> QED BY <3>2, <3>3
  <2> QED BY <2>3, <2>4, <2>5, <2>6 DEF BindingInv
<1> QED BY <1>6, <1>7

\* A binding is acknowledged once the device table knows its generation.
LEMMA EnterDeviceStep ==
  ASSUME BindingInv, NEW t \in Threads, EnterDevice(t)
  PROVE  BindingInv'
<1> DEFINE b == req[t]
<1>1. pc[t] = "device" /\ b \in BindRequests
  BY DEF EnterDevice, BindingInv, BindingTypes
<1>2. b.port \in Ports /\ b.parent \in Devices /\ b.device \in Nat
  BY <1>1, PortBindingAssumption
<1>3. /\ devices[b.parent] <= b.device /\ devices' = [devices EXCEPT ![b.parent] = b.device]
      /\ UNCHANGED <<topology, portVars, index, overtaken>>
  BY DEF EnterDevice
<1>4. Answer(t, b, "OK")
  BY DEF EnterDevice
<1>5. /\ ThreadTypes' /\ pc'[t] = "idle"
      /\ \A u \in Threads : u # t => pc'[u] = pc[u] /\ req'[u] = req[u]
      /\ acknowledged' = acknowledged \cup {<<b.port, b.parent>>}
  BY <1>4, AnswerFacts
<1>6. devices' \in [Devices -> Nat] /\ \A d \in Devices : devices[d] <= devices'[d]
  BY <1>2, <1>3 DEF BindingInv, BindingTypes
<1>7. BindingTypes'
  BY <1>3, <1>5, <1>6 DEF BindingInv, BindingTypes, ThreadTypes, portVars
<1>8. PendingBindings'
  <2> SUFFICES ASSUME NEW v \in Threads, pc'[v] = "device"
               PROVE  LET c == req'[v] IN
                      /\ records[c.port] # NoRecord /\ parents[c.port] = c.parent
                      /\ records[c.port].generations.device = c.device
                      /\ \A u \in Threads : pc'[u] = "device" /\ req'[u].port = c.port => u = v
    BY <1>3 DEF PendingBindings, portVars
  <2> QED BY <1>5 DEF BindingInv, PendingBindings
<1>9. SettledBindings'
  <2> SUFFICES ASSUME NEW binding \in acknowledged'
               PROVE  /\ binding[1] \in Ports /\ binding[2] \in Devices
                      /\ records[binding[1]] # NoRecord /\ parents[binding[1]] = binding[2]
                      /\ records[binding[1]].generations.device <= devices'[binding[2]]
                      /\ \A u \in Threads : pc'[u] = "device" => req'[u].port # binding[1]
    BY <1>3 DEF SettledBindings, portVars
  <2>1. CASE binding \in acknowledged
    <3> DEFINE rec == records[binding[1]]
    <3>1. /\ binding[1] \in Ports /\ binding[2] \in Devices
          /\ rec # NoRecord /\ parents[binding[1]] = binding[2]
          /\ rec.generations.device <= devices[binding[2]]
          /\ \A u \in Threads : pc[u] = "device" => req[u].port # binding[1]
      BY <2>1 DEF BindingInv, SettledBindings
    <3>2. rec.generations.device \in Nat
      BY <3>1 DEF BindingInv, BindingTypes, PortRecords, GenerationVectors
    <3>3. devices[binding[2]] \in Nat /\ devices'[binding[2]] \in Nat
      BY <1>6, <3>1 DEF BindingInv, BindingTypes
    <3>4. rec.generations.device <= devices'[binding[2]]
      BY <1>6, <3>1, <3>2, <3>3
    <3> QED BY <1>5, <3>1, <3>4
  <2>2. CASE binding = <<b.port, b.parent>>
    <3>1. /\ records[b.port] # NoRecord /\ parents[b.port] = b.parent
          /\ records[b.port].generations.device = b.device
          /\ \A u \in Threads : pc[u] = "device" /\ req[u].port = b.port => u = t
      BY <1>1 DEF BindingInv, PendingBindings
    <3>2. devices'[b.parent] = b.device
      BY <1>2, <1>3 DEF BindingInv, BindingTypes
    <3>3. \A u \in Threads : pc'[u] = "device" => req'[u].port # b.port
      BY <1>5, <3>1
    <3> QED BY <1>2, <2>2, <3>1, <3>2, <3>3
  <2> QED BY <1>5, <2>1, <2>2
<1>10. IndexFollows'
  BY <1>3 DEF BindingInv, IndexFollows, portVars
<1> QED BY <1>7, <1>8, <1>9, <1>10 DEF BindingInv

\* A binding that finds the device table full promises nothing.
LEMMA RefuseDeviceStep ==
  ASSUME BindingInv, NEW t \in Threads, RefuseDevice(t)
  PROVE  BindingInv'
<1>1. /\ Answer(t, req[t], "RESOURCE_BOUND_EXCEEDED")
      /\ UNCHANGED <<topology, devices, portVars, index, overtaken>>
  BY DEF RefuseDevice, authorityVars
<1>2. /\ ThreadTypes' /\ pc'[t] = "idle" /\ acknowledged' = acknowledged
      /\ \A u \in Threads : u # t => pc'[u] = pc[u] /\ req'[u] = req[u]
  BY <1>1, AnswerFacts
<1> QED BY <1>1, <1>2, BindKeeps DEF historyVars

\* A rollback erases the port of its own binding, which nobody was promised.
LEMMA RollBackStep ==
  ASSUME BindingInv, NEW t \in Threads, RollBack(t)
  PROVE  BindingInv'
<1> DEFINE b == req[t]
<1>1. pc[t] = "device" /\ b \in BindRequests /\ inserted[t] \in PortRecords
  BY DEF RollBack, BindingInv, BindingTypes
<1>2. b.port \in Ports /\ b.parent \in Devices
  BY <1>1, PortBindingAssumption
<1>3. /\ records' = [records EXCEPT ![b.port] = NoRecord]
      /\ parents' = [parents EXCEPT ![b.port] = NoDevice]
      /\ index' = IndexRemove(index, b.port, b.parent, inserted[t])
      /\ overtaken' = IF records[b.port] # inserted[t] THEN overtaken \cup {b.port} ELSE overtaken
      /\ UNCHANGED <<topology, devices>>
  BY DEF RollBack, authorityVars
<1>4. Answer(t, b, "STALE_DEVICE_GENERATION")
  BY DEF RollBack
<1>5. /\ ThreadTypes' /\ pc'[t] = "idle" /\ acknowledged' = acknowledged
      /\ \A u \in Threads : u # t => pc'[u] = pc[u] /\ req'[u] = req[u]
  BY <1>4, AnswerFacts
<1>6. /\ records[b.port] # NoRecord /\ parents[b.port] = b.parent
      /\ \A u \in Threads : pc[u] = "device" /\ req[u].port = b.port => u = t
  BY <1>1 DEF BindingInv, PendingBindings
<1>7. records'[b.port] = NoRecord /\ \A p \in Ports \ {b.port} :
        records'[p] = records[p] /\ parents'[p] = parents[p]
  BY <1>2, <1>3 DEF BindingInv, BindingTypes
<1>8. BindingTypes'
  BY <1>2, <1>3, <1>5, <1>7 DEF BindingInv, BindingTypes, ThreadTypes
<1>9. PendingBindings'
  <2> SUFFICES ASSUME NEW v \in Threads, pc'[v] = "device"
               PROVE  LET c == req'[v] IN
                      /\ records'[c.port] # NoRecord /\ parents'[c.port] = c.parent
                      /\ records'[c.port].generations.device = c.device
                      /\ \A u \in Threads : pc'[u] = "device" /\ req'[u].port = c.port => u = v
    BY DEF PendingBindings
  <2>1. v # t /\ pc[v] = "device" /\ req'[v] = req[v]
    BY <1>5
  <2>2. req[v].port \in Ports \ {b.port}
    BY <1>6, <2>1, PortBindingAssumption DEF BindingInv, BindingTypes
  <2> QED BY <1>5, <1>7, <2>1, <2>2 DEF BindingInv, PendingBindings
<1>10. SettledBindings'
  <2> SUFFICES ASSUME NEW binding \in acknowledged
               PROVE  /\ binding[1] \in Ports /\ binding[2] \in Devices
                      /\ records'[binding[1]] # NoRecord /\ parents'[binding[1]] = binding[2]
                      /\ records'[binding[1]].generations.device <= devices[binding[2]]
                      /\ \A u \in Threads : pc'[u] = "device" => req'[u].port # binding[1]
    BY <1>3, <1>5 DEF SettledBindings
  <2>1. binding[1] \in Ports \ {b.port}
    BY <1>1 DEF BindingInv, SettledBindings
  <2> QED BY <1>5, <1>7, <2>1 DEF BindingInv, SettledBindings
<1>11. IndexFollows'
  <2> SUFFICES ASSUME NEW p \in Ports
               PROVE  /\ records'[p] # NoRecord =>
                           Entries(p, IndexKeys(parents'[p], records'[p])) \subseteq OfPort(index', p)
                      /\ p \notin overtaken' =>
                           OfPort(index', p) = IF records'[p] = NoRecord THEN {}
                             ELSE Entries(p, IndexKeys(parents'[p], records'[p]))
    BY DEF IndexFollows
  <2>1. ASSUME p = b.port, p \notin overtaken'
        PROVE  OfPort(index', p) = {}
    <3>1. records[p] = inserted[t] /\ p \notin overtaken
      BY <1>3, <2>1
    <3>2. OfPort(index, p) = Entries(p, IndexKeys(b.parent, inserted[t]))
      BY <1>2, <1>6, <2>1, <3>1 DEF BindingInv, IndexFollows
    <3>3. OfPort(index', p) = OfPort(index, p) \ Erased(p, b.parent, inserted[t])
      BY <1>3, <2>1, OfPortRemoved
    <3> QED BY <3>2, <3>3 DEF Entries, Erased
  <2>2. CASE p = b.port
    BY <1>7, <2>1, <2>2
  <2>3. CASE p # b.port
    <3>1. OfPort(index', p) = OfPort(index, p) /\ (p \notin overtaken' => p \notin overtaken)
      BY <1>3, <2>3, OfPortOthers
    <3> QED BY <1>7, <2>3, <3>1 DEF BindingInv, IndexFollows
  <2> QED BY <2>2, <2>3
<1> QED BY <1>8, <1>9, <1>10, <1>11 DEF BindingInv

-----------------------------------------------------------------------------
(* What other threads do to bound ports. *)

\* Replacing a record reindexes its port and leaves the others alone.
LEMMA ReplaceStep ==
  ASSUME BindingInv, NEW p \in Ports, records[p] # NoRecord,
         NEW next \in PortRecords, next.generations.device = records[p].generations.device,
         Replace(p, next), UNCHANGED <<devices, topology, bindVars, historyVars>>
  PROVE  BindingInv'
<1>1. /\ records' = [records EXCEPT ![p] = next] /\ parents' = parents
      /\ index' = IndexUpdate(index, p, parents[p], records[p], next)
  BY DEF Replace
<1>2. /\ records' \in [Ports -> PortRecords \cup {NoRecord}] /\ records'[p] = next
      /\ \A q \in Ports \ {p} : records'[q] = records[q]
  BY <1>1 DEF BindingInv, BindingTypes
<1>3. ASSUME NEW q \in Ports
      PROVE  Untouched(q) \/ Rewritten(q)
  <2>1. CASE q = p
    <3>1. OfPort(index', p) =
            (OfPort(index, p) \ Erased(p, parents[p], records[p]))
              \cup Entries(p, IndexKeys(parents[p], next))
      BY <1>1, OfPortUpdated
    <3>2. Reindexed(p)
      BY <1>1, <1>2, <3>1 DEF Reindexed
    <3> QED BY <1>1, <1>2, <2>1, <3>2 DEF Rewritten
  <2>2. CASE q # p
    BY <1>1, <1>2, <2>2, OfPortOthers DEF Untouched
  <2> QED BY <2>1, <2>2
<1>4. /\ topology' \in Nat /\ devices' \in [Devices -> Nat]
      /\ \A d \in Devices : devices[d] <= devices'[d]
  BY DEF BindingInv, BindingTypes
<1> QED BY <1>1, <1>2, <1>3, <1>4, ChangeStep

\* A committed mutation and an apply in doubt replace the record of a bound port.
LEMMA MutateStep ==
  ASSUME BindingInv, NEW r \in Requests, Mutate(r) \/ LoseApply(r)
  PROVE  BindingInv'
<1> DEFINE rec == records[r.port]
           dev == devices[parents[r.port]]
<1>1. rec # NoRecord /\ UNCHANGED <<devices, topology, bindVars, historyVars>>
  BY DEF Mutate, LoseApply
<1>2. r.port \in Ports
  BY RequestTypes
<1>3. rec \in PortRecords /\ topology \in Nat /\ dev \in Nat
  BY <1>1, <1>2 DEF BindingInv, BindingTypes
<1>4. PICK next \in Results(rec, r, topology, dev) :
        \/ Replace(r.port, next)
        \/ Replace(r.port, Uncertain(rec, next.generations.configuration))
  BY DEF Mutate, LoseApply
<1>5. next \in PortRecords /\ next.generations.device = rec.generations.device
  <2> HIDE DEF rec, dev
  <2> QED BY <1>3, ResultKeeps
<1>6. CASE Replace(r.port, next)
  BY <1>1, <1>2, <1>5, <1>6, ReplaceStep
<1>7. CASE Replace(r.port, Uncertain(rec, next.generations.configuration))
  <2> DEFINE lost == Uncertain(rec, next.generations.configuration)
  <2>1. next.generations.configuration \in Nat
    BY <1>5, GenerationTypes
  <2>2. lost \in PortRecords /\ lost.generations.device = rec.generations.device
    BY <1>3, <2>1, UpdateKeeps
  <2> HIDE DEF lost
  <2> QED BY <1>1, <1>2, <1>7, <2>2, ReplaceStep DEF lost
<1> QED BY <1>4, <1>6, <1>7

\* A sweep over owned ports reindexes each of them.
LEMMA ReleaseStep ==
  ASSUME BindingInv, NEW owned, owned \subseteq BoundPorts, ReleasePorts(owned),
         UNCHANGED <<devices, topology, bindVars, historyVars>>
  PROVE  BindingInv'
<1>1. /\ records' = [p \in Ports |-> IF p \in owned THEN ReleasedOwnership(records[p])
                                     ELSE records[p]]
      /\ parents' = parents
  BY DEF ReleasePorts
<1>2. \A p \in owned : p \in Ports /\ records[p] # NoRecord /\ records[p] \in PortRecords
  BY DEF BoundPorts, BindingInv, BindingTypes
<1>3. ASSUME NEW p \in owned
      PROVE  /\ records'[p] \in PortRecords
             /\ records'[p].generations.device = records[p].generations.device
  <2>1. records'[p] = ReleasedOwnership(records[p])
    BY <1>1, <1>2
  <2> QED BY <1>2, <2>1, UpdateKeeps
<1>4. records' \in [Ports -> PortRecords \cup {NoRecord}]
  BY <1>1, <1>3 DEF BindingInv, BindingTypes
<1> DEFINE kept == {entry \in index : entry[2] \in owned =>
             entry \in IndexRemove(index, entry[2], parents[entry[2]], records[entry[2]])}
           added == UNION {IndexAdd({}, p, parents[p], records'[p]) : p \in owned}
<1>5. index' = kept \cup added
  BY DEF ReleasePorts
<1>6. ASSUME NEW q \in Ports
      PROVE  OfPort(kept, q) = IF q \in owned
                               THEN OfPort(IndexRemove(index, q, parents[q], records[q]), q)
                               ELSE OfPort(index, q)
  BY DEF OfPort, IndexRemove
<1>7. ASSUME NEW q \in Ports
      PROVE  OfPort(added, q) = IF q \in owned
                                THEN Entries(q, IndexKeys(parents[q], records'[q])) ELSE {}
  <2>1. \A p \in owned : IndexAdd({}, p, parents[p], records'[p]) =
                           Entries(p, IndexKeys(parents[p], records'[p]))
    BY DEF IndexAdd
  <2>2. ASSUME NEW keys PROVE \A p, e : e \in Entries(p, keys) => e[2] = p
    BY DEF Entries
  <2>3. \A p \in owned : \A e \in Entries(p, IndexKeys(parents[p], records'[p])) : e[2] = p
    BY <2>2
  <2>4. added = UNION {Entries(p, IndexKeys(parents[p], records'[p])) : p \in owned}
    BY <2>1
  <2> QED BY <2>3, <2>4 DEF OfPort
<1>8. ASSUME NEW q \in Ports
      PROVE  OfPort(index', q) = OfPort(kept, q) \cup OfPort(added, q)
  <2> HIDE DEF kept, added
  <2> QED BY <1>5 DEF OfPort
<1> HIDE DEF kept, added
<1>9. ASSUME NEW q \in Ports
      PROVE  Untouched(q) \/ Rewritten(q)
  <2>1. CASE q \in owned
    <3>1. OfPort(IndexRemove(index, q, parents[q], records[q]), q) =
            OfPort(index, q) \ Erased(q, parents[q], records[q])
      BY OfPortRemoved
    <3>2. Reindexed(q)
      BY <1>1, <1>6, <1>7, <1>8, <2>1, <3>1 DEF Reindexed
    <3> QED BY <1>1, <1>2, <1>3, <2>1, <3>2 DEF Rewritten
  <2>2. CASE q \notin owned
    <3>1. records'[q] = records[q] /\ OfPort(index', q) = OfPort(index, q)
      BY <1>1, <1>6, <1>7, <1>8, <2>2
    <3> QED BY <1>1, <3>1 DEF Untouched
  <2> QED BY <2>1, <2>2
<1>10. /\ topology' \in Nat /\ devices' \in [Devices -> Nat]
       /\ \A d \in Devices : devices[d] <= devices'[d]
  BY DEF BindingInv, BindingTypes
<1> QED BY <1>1, <1>4, <1>9, <1>10, ChangeStep

\* A new epoch and a fence release ports.
LEMMA FenceStep ==
  ASSUME BindingInv, BeginEpoch \/ \E p \in Publishers, b \in Boots : FencePublisher(p, b)
  PROVE  BindingInv'
<1>1. PICK owned \in SUBSET OwnedPorts : ReleasePorts(owned)
  BY DEF BeginEpoch, FencePublisher
<1>2. UNCHANGED <<devices, topology, bindVars, historyVars>>
  BY DEF BeginEpoch, FencePublisher, AdvanceEpoch, MarkFenced
<1> QED BY <1>1, <1>2, ReleaseStep DEF OwnedPorts

\* The table entry of a device goes forward only.
LEMMA RegisterDeviceStep ==
  ASSUME BindingInv, NEW d \in Devices, RegisterDeviceBounded(d)
  PROVE  BindingInv'
<1>1. /\ devices' = [devices EXCEPT ![d] = @ + 1]
      /\ UNCHANGED <<topology, portVars, index, bindVars, historyVars>>
  BY DEF RegisterDeviceBounded, RegisterDevice
<1>2. /\ topology' \in Nat /\ devices' \in [Devices -> Nat]
      /\ \A e \in Devices : devices[e] <= devices'[e]
  BY <1>1 DEF BindingInv, BindingTypes
<1>3. /\ records' \in [Ports -> PortRecords \cup {NoRecord}] /\ parents' = parents
      /\ \A p \in Ports : Untouched(p)
  BY <1>1 DEF BindingInv, BindingTypes, Untouched, portVars
<1> QED BY <1>1, <1>2, <1>3, ChangeStep

\* Every step preserves the invariant.
LEMMA BindingStep == BindingInv /\ [Next]_vars => BindingInv'
<1> SUFFICES ASSUME BindingInv, [Next]_vars PROVE BindingInv'
  OBVIOUS
<1>1. CASE UNCHANGED vars
  BY <1>1 DEF BindingInv, BindingTypes, PendingBindings, SettledBindings, IndexFollows,
    vars, authorityVars, portVars, bindVars, historyVars
<1>2. ASSUME NEW t \in Threads, NEW b \in BindRequests, CheckEpoch(t, b)
      PROVE  BindingInv'
  BY <1>2, CheckEpochStep
<1>3. ASSUME NEW t \in Threads,
             Probe(t) \/ Insert(t) \/ EnterDevice(t) \/ RefuseDevice(t) \/ RollBack(t)
      PROVE  BindingInv'
  BY <1>3, ProbeStep, InsertStep, EnterDeviceStep, RefuseDeviceStep, RollBackStep
<1>4. ASSUME NEW r \in Requests, Mutate(r) \/ LoseApply(r)
      PROVE  BindingInv'
  BY <1>4, MutateStep
<1>5. ASSUME BeginEpoch \/ \E p \in Publishers, b \in Boots : FencePublisher(p, b)
      PROVE  BindingInv'
  BY <1>5, FenceStep
<1>6. ASSUME NEW d \in Devices, RegisterDeviceBounded(d)
      PROVE  BindingInv'
  BY <1>6, RegisterDeviceStep
<1> QED BY <1>1, <1>2, <1>3, <1>4, <1>5, <1>6 DEF Next

\* The invariant of concurrent bindings holds in every behaviour.
LEMMA BindingInvariant == Spec => []BindingInv
BY BindingInit, BindingStep, PTL DEF Spec

\* A binding that was answered OK holds for good (bind_port): whatever other
\* bindings of the port are rolled back, released or mutated around it.
THEOREM AcknowledgedBindingsStay == Spec => []AcknowledgedBindingsHold
<1>1. BindingInv => AcknowledgedBindingsHold
  BY DEF BindingInv, SettledBindings, AcknowledgedBindingsHold
<1> QED BY <1>1, BindingInvariant, PTL

\* The index containers say of a port what its record says (index_add,
\* index_remove, index_update), unless its binding was rolled back over a change.
THEOREM IndexesFollowRecords == Spec => []IndexesAgree
<1>1. BindingInv => IndexesAgree
  <2> SUFFICES ASSUME BindingInv, NEW p \in Ports \ overtaken
               PROVE  {entry \in index : entry[2] = p} =
                        IF p \in BoundPorts THEN IndexAdd({}, p, parents[p], records[p]) ELSE {}
    BY DEF IndexesAgree
  <2>1. OfPort(index, p) = IF records[p] = NoRecord THEN {}
                           ELSE Entries(p, IndexKeys(parents[p], records[p]))
    BY DEF BindingInv, IndexFollows
  <2>2. IndexAdd({}, p, parents[p], records[p]) = Entries(p, IndexKeys(parents[p], records[p]))
    BY DEF IndexAdd
  <2>3. p \in BoundPorts <=> records[p] # NoRecord
    BY DEF BoundPorts
  <2> QED BY <2>1, <2>2, <2>3 DEF OfPort
<1> QED BY <1>1, BindingInvariant, PTL

\* An indexed query finds every port whose record it is about, after any sequence
\* of bindings, rollbacks, mutations and releases.
THEOREM QueriesAreComplete == Spec => []QueriesMissNothing
<1>1. BindingInv => QueriesMissNothing
  <2> SUFFICES ASSUME BindingInv, NEW p \in BoundPorts
               PROVE  LET rec == records[p]
                          c   == rec.configuration
                      IN  /\ p \in Collect(<<"device", parents[p]>>)
                          /\ p \in Collect(<<"lifecycle", rec.lifecycle>>)
                          /\ rec.ownership # NoOwner =>
                               p \in Collect(<<"owner", rec.ownership.publisher>>)
                          /\ "REVALIDATION_REQUIRED" \in {rec.lifecycle, rec.drift} =>
                               p \in PortsRequiringRevalidation
                          /\ c # NoConfiguration =>
                               /\ p \in Collect(<<"administrative", c.administrative>>)
                               /\ c.profile # NoProfile =>
                                    p \in Collect(<<"profile", ProfileId[c.profile]>>)
                               /\ AggregateOf[c.payload] # NoAggregate =>
                                    p \in Collect(<<"aggregate", AggregateOf[c.payload]>>)
                               /\ DerivedFrom[c.payload] # NoParent =>
                                    p \in Collect(<<"derived", DerivedFrom[c.payload]>>)
    BY DEF QueriesMissNothing
  <2> DEFINE rec == records[p]
             c == rec.configuration
             keys == IndexKeys(parents[p], rec)
  <2>1. p \in Ports /\ Entries(p, keys) \subseteq index
    BY DEF BoundPorts, BindingInv, IndexFollows, OfPort
  <2>2. ASSUME NEW key \in keys PROVE p \in Collect(key)
    BY <2>1, <2>2 DEF Collect, Entries
  <2>3. <<"device", parents[p]>> \in keys /\ <<"lifecycle", rec.lifecycle>> \in keys
    BY DEF IndexKeys
  <2>4. rec.ownership # NoOwner => <<"owner", rec.ownership.publisher>> \in keys
    BY DEF IndexKeys
  <2>5. rec.lifecycle = "REVALIDATION_REQUIRED" => <<"revalidation">> \in keys
    BY DEF IndexKeys
  <2>6. c # NoConfiguration => ConfigurationKeys(c) \subseteq keys
    BY DEF IndexKeys
  <2>7. /\ <<"administrative", c.administrative>> \in ConfigurationKeys(c)
        /\ c.profile # NoProfile => <<"profile", ProfileId[c.profile]>> \in ConfigurationKeys(c)
        /\ AggregateOf[c.payload] # NoAggregate =>
             <<"aggregate", AggregateOf[c.payload]>> \in ConfigurationKeys(c)
        /\ DerivedFrom[c.payload] # NoParent =>
             <<"derived", DerivedFrom[c.payload]>> \in ConfigurationKeys(c)
    BY DEF ConfigurationKeys
  <2> HIDE DEF keys
  <2>8. "REVALIDATION_REQUIRED" \in {rec.lifecycle, rec.drift} => p \in PortsRequiringRevalidation
    BY <2>2, <2>5 DEF PortsRequiringRevalidation
  <2>9. c # NoConfiguration =>
          /\ p \in Collect(<<"administrative", c.administrative>>)
          /\ c.profile # NoProfile => p \in Collect(<<"profile", ProfileId[c.profile]>>)
          /\ AggregateOf[c.payload] # NoAggregate =>
               p \in Collect(<<"aggregate", AggregateOf[c.payload]>>)
          /\ DerivedFrom[c.payload] # NoParent =>
               p \in Collect(<<"derived", DerivedFrom[c.payload]>>)
    BY <2>2, <2>6, <2>7
  <2> QED BY <2>2, <2>3, <2>4, <2>8, <2>9
<1> QED BY <1>1, BindingInvariant, PTL

-----------------------------------------------------------------------------
(* The bounds: every port and every device beyond the first counts once.   *)

\* The tables are finite because they grow by one entry at a time.
BoundsInv ==
  /\ IsFiniteSet(BoundPorts) /\ Cardinality(BoundPorts) <= PortBound
  /\ IsFiniteSet(KnownDevices) /\ Cardinality(KnownDevices) <= DeviceBound

\* Nothing is bound and no device known when the behaviour starts.
LEMMA BoundsInit == Init => BoundsInv
<1> SUFFICES ASSUME Init PROVE BoundsInv
  OBVIOUS
<1>1. BoundPorts = {} /\ KnownDevices = {}
  BY DEF Init, BoundPorts, KnownDevices
<1>2. IsFiniteSet({}) /\ Cardinality({}) = 0
  BY FS_EmptySet
<1>3. 0 <= PortBound /\ 0 <= DeviceBound
  BY PortBindingAssumption
<1> QED BY <1>1, <1>2, <1>3 DEF BoundsInv

\* A set that loses elements, or gains one while there is room, stays within its bound.
LEMMA WithinBound ==
  ASSUME NEW bound \in Nat, NEW S, IsFiniteSet(S), Cardinality(S) <= bound, NEW T,
         \/ T \subseteq S
         \/ \E x : T \subseteq S \cup {x} /\ Cardinality(S) < bound
  PROVE  IsFiniteSet(T) /\ Cardinality(T) <= bound
<1>1. Cardinality(S) \in Nat
  BY FS_CardinalityType
<1>2. CASE T \subseteq S
  <2>1. IsFiniteSet(T) /\ Cardinality(T) <= Cardinality(S)
    BY <1>2, FS_Subset
  <2>2. Cardinality(T) \in Nat
    BY <2>1, FS_CardinalityType
  <2> QED BY <1>1, <2>1, <2>2
<1>3. ASSUME NEW x, T \subseteq S \cup {x}, Cardinality(S) < bound
      PROVE  IsFiniteSet(T) /\ Cardinality(T) <= bound
  <2>1. IsFiniteSet(S \cup {x}) /\ Cardinality(S \cup {x}) <= Cardinality(S) + 1
    BY <1>1, FS_AddElement
  <2>2. IsFiniteSet(T) /\ Cardinality(T) <= Cardinality(S \cup {x})
    BY <1>3, <2>1, FS_Subset
  <2>3. Cardinality(T) \in Nat /\ Cardinality(S \cup {x}) \in Nat
    BY <2>1, <2>2, FS_CardinalityType
  <2> QED BY <1>1, <1>3, <2>1, <2>2, <2>3
<1> QED BY <1>2, <1>3

\* Only an insertion below the port bound adds a bound port.
LEMMA BoundPortsStep ==
  ASSUME BindingInv, IsFiniteSet(BoundPorts), [Next]_vars
  PROVE  \/ BoundPorts' \subseteq BoundPorts
         \/ \E p : BoundPorts' \subseteq BoundPorts \cup {p} /\ Cardinality(BoundPorts) < PortBound
<1> DEFINE Kept == BoundPorts' \subseteq BoundPorts
<1>0. records \in [Ports -> PortRecords \cup {NoRecord}]
  BY DEF BindingInv, BindingTypes
<1>1. ASSUME UNCHANGED records PROVE Kept
  BY <1>1 DEF BoundPorts
<1>2. ASSUME NEW t \in Threads, Insert(t), ~Kept
      PROVE  \E p : BoundPorts' \subseteq BoundPorts \cup {p} /\ Cardinality(BoundPorts) < PortBound
  <2> DEFINE b == req[t]
  <2>1. InsertOutcome(b) = "OK" /\ records' = [records EXCEPT ![b.port] = BoundRecord(b, evidence[t])]
    BY <1>1, <1>2 DEF Insert, portVars
  <2>2. ~(Cardinality(BoundPorts) >= PortBound)
    BY <2>1 DEF InsertOutcome
  <2>3. Cardinality(BoundPorts) < PortBound
    BY <2>2, FS_CardinalityType, PortBindingAssumption
  <2>4. BoundPorts' \subseteq BoundPorts \cup {b.port}
    BY <1>0, <2>1 DEF BoundPorts
  <2> QED BY <2>3, <2>4
<1>3. ASSUME NEW t \in Threads, RollBack(t) PROVE Kept
  BY <1>0, <1>3 DEF RollBack, BoundPorts
<1>4. ASSUME NEW r \in Requests, Mutate(r) \/ LoseApply(r) PROVE Kept
  BY <1>0, <1>4 DEF Mutate, LoseApply, Replace, BoundPorts
<1>5. ASSUME NEW owned, owned \subseteq BoundPorts, ReleasePorts(owned) PROVE Kept
  BY <1>0, <1>5 DEF ReleasePorts, BoundPorts
<1>6. ASSUME BeginEpoch \/ \E p \in Publishers, b \in Boots : FencePublisher(p, b) PROVE Kept
  <2>1. \E owned : owned \subseteq BoundPorts /\ ReleasePorts(owned)
    BY <1>6 DEF BeginEpoch, FencePublisher, OwnedPorts
  <2> QED BY <1>5, <2>1
<1>7. ASSUME \/ \E t \in Threads, b \in BindRequests : CheckEpoch(t, b)
             \/ \E t \in Threads : Probe(t) \/ EnterDevice(t) \/ RefuseDevice(t)
             \/ \E d \in Devices : RegisterDeviceBounded(d)
             \/ UNCHANGED vars
      PROVE  Kept
  BY <1>1, <1>7 DEF CheckEpoch, Probe, EnterDevice, RefuseDevice, RegisterDeviceBounded,
    portVars, vars
<1> QED BY <1>2, <1>3, <1>4, <1>6, <1>7 DEF Next

\* Only a thread at the device table and register_device add a device, below the bound.
LEMMA KnownDevicesStep ==
  ASSUME BindingInv, [Next]_vars
  PROVE  \/ KnownDevices' \subseteq KnownDevices
         \/ \E d : KnownDevices' \subseteq KnownDevices \cup {d}
                   /\ Cardinality(KnownDevices) < DeviceBound
<1> DEFINE Kept == KnownDevices' \subseteq KnownDevices
           Grown == \E d : KnownDevices' \subseteq KnownDevices \cup {d}
                           /\ Cardinality(KnownDevices) < DeviceBound
<1>0. devices \in [Devices -> Nat]
  BY DEF BindingInv, BindingTypes
<1>1. ASSUME UNCHANGED devices PROVE Kept
  BY <1>1 DEF KnownDevices
<1>2. ASSUME NEW d, NEW generation, devices' = [devices EXCEPT ![d] = generation],
             devices[d] = 0 => Cardinality(KnownDevices) < DeviceBound
      PROVE  Kept \/ Grown
  <2>1. KnownDevices' \subseteq KnownDevices \cup {d}
    BY <1>0, <1>2 DEF KnownDevices
  <2>2. CASE devices[d] = 0
    BY <1>2, <2>1, <2>2
  <2>3. CASE devices[d] # 0
    <3>1. d \in Devices => d \in KnownDevices
      BY <2>3 DEF KnownDevices
    <3> QED BY <2>1, <3>1 DEF KnownDevices
  <2> QED BY <2>2, <2>3
<1>3. ASSUME NEW t \in Threads, EnterDevice(t) PROVE Kept \/ Grown
  BY <1>2, <1>3 DEF EnterDevice
<1>4. ASSUME NEW d \in Devices, RegisterDeviceBounded(d) PROVE Kept \/ Grown
  BY <1>2, <1>4 DEF RegisterDeviceBounded, RegisterDevice
<1>5. ASSUME \/ \E t \in Threads, b \in BindRequests : CheckEpoch(t, b)
             \/ \E t \in Threads : Probe(t) \/ Insert(t) \/ RefuseDevice(t) \/ RollBack(t)
             \/ \E r \in Requests : Mutate(r) \/ LoseApply(r)
             \/ BeginEpoch
             \/ \E p \in Publishers, b \in Boots : FencePublisher(p, b)
             \/ UNCHANGED vars
      PROVE  Kept
  BY <1>1, <1>5 DEF CheckEpoch, Probe, Insert, RefuseDevice, RollBack, Mutate, LoseApply,
    BeginEpoch, FencePublisher, AdvanceEpoch, MarkFenced, authorityVars, vars
<1> QED BY <1>3, <1>4, <1>5 DEF Next

\* Concurrent bindings never take the runtime past port_bound and device_bound
\* (bind_port, register_device), although a binding checks one under
\* records_mutex and the other under authority_mutex, at different times.
THEOREM BoundsAreKept == Spec => []BoundsHold
<1>1. ASSUME BindingInv, BoundsInv, [Next]_vars
      PROVE  BoundsInv'
  <2>1. PortBound \in Nat /\ DeviceBound \in Nat
    BY PortBindingAssumption
  <2>2. (IsFiniteSet(BoundPorts) /\ Cardinality(BoundPorts) <= PortBound)'
    <3> DEFINE S == BoundPorts
               T == BoundPorts'
    <3>1. IsFiniteSet(S) /\ Cardinality(S) <= PortBound
      BY <1>1 DEF BoundsInv
    <3>2. T \subseteq S \/ \E p : T \subseteq S \cup {p} /\ Cardinality(S) < PortBound
      BY <1>1, <3>1, BoundPortsStep
    <3> HIDE DEF S, T
    <3>3. IsFiniteSet(T) /\ Cardinality(T) <= PortBound
      BY <2>1, <3>1, <3>2, WithinBound
    <3> QED BY <3>3 DEF T
  <2>3. (IsFiniteSet(KnownDevices) /\ Cardinality(KnownDevices) <= DeviceBound)'
    <3> DEFINE S == KnownDevices
               T == KnownDevices'
    <3>1. IsFiniteSet(S) /\ Cardinality(S) <= DeviceBound
      BY <1>1 DEF BoundsInv
    <3>2. T \subseteq S \/ \E d : T \subseteq S \cup {d} /\ Cardinality(S) < DeviceBound
      BY <1>1, KnownDevicesStep
    <3> HIDE DEF S, T
    <3>3. IsFiniteSet(T) /\ Cardinality(T) <= DeviceBound
      BY <2>1, <3>1, <3>2, WithinBound
    <3> QED BY <3>3 DEF T
  <2> QED BY <2>2, <2>3 DEF BoundsInv
<1>2. BoundsInv => BoundsHold
  BY DEF BoundsInv, BoundsHold
<1> QED BY <1>1, <1>2, BoundsInit, BindingInvariant, PTL DEF Spec

=============================================================================
