----------------------------- MODULE PortBinding -----------------------------
(***************************************************************************)
(* bind_port, which adds ports to the runtime, and the secondary indexes   *)
(* every change of a record maintains.  bind_port takes authority_mutex,   *)
(* records_mutex shared, records_mutex exclusive and authority_mutex again *)
(* one after the other; the record it inserts is visible to every other    *)
(* thread before the device table has been consulted.                      *)
(*                                                                         *)
(* A mutation of a bound port is one step here, as in PortStore.           *)
(***************************************************************************)
EXTENDS Admission, Authority, FiniteSets

CONSTANTS
  Threads,        \* the threads that call bind_port
  BindRequests,   \* the binding requests clients may send
  MaxDeliveries,  \* how often one binding request may be delivered
  PortBound, DeviceBound,      \* config.port_bound, config.device_bound
  ProfileId,                   \* the identity of a profile generation
  AggregateOf, DerivedFrom,    \* memberships the dimensions of a payload state
  NoAggregate, NoParent, NoDevice, NoRecord, NoRequest   \* absent values

ASSUME PortBindingAssumption ==
  /\ MaxDeliveries \in Nat /\ PortBound \in Nat /\ DeviceBound \in Nat
  /\ BindRequests \subseteq
       [port: Ports, parent: Devices, device: Nat \ {0}, epoch: Nat, attempt: Attempts]
  /\ NoRequest \notin BindRequests
  /\ NoRecord \notin PortRecords /\ NoDevice \notin Devices

VARIABLES
  records,       \* impl.records: the record of each bound port
  parents,       \* its parent_device, which no mutation changes
  index,         \* the eight index containers, as pairs of a key and a port
  pc,            \* where each thread is in bind_port
  req,           \* the binding request it executes
  evidence,      \* the provider evidence it resolved
  inserted,      \* the record it inserted
  delivered,     \* how often each request was delivered
  acknowledged,  \* the bindings that were answered OK
  overtaken      \* ports that were changed between their insertion and its rollback

bindVars == <<pc, req, evidence, inserted, delivered>>
historyVars == <<acknowledged, overtaken>>
portVars == <<records, parents>>
vars == <<authorityVars, portVars, index, bindVars, historyVars>>

BoundPorts == {p \in Ports : records[p] # NoRecord}
KnownDevices == {d \in Devices : devices[d] # 0}

Init ==
  /\ epoch = 1 /\ publishers = InitialPublishers /\ topology = 1
  /\ devices = [d \in Devices |-> 0]
  /\ records = [p \in Ports |-> NoRecord]
  /\ parents = [p \in Ports |-> NoDevice]
  /\ index = {}
  /\ pc = [t \in Threads |-> "idle"]
  /\ req = [t \in Threads |-> NoRequest]
  /\ evidence = [t \in Threads |-> NoBinding]
  /\ inserted = [t \in Threads |-> NoRecord]
  /\ delivered = [b \in BindRequests |-> 0]
  /\ acknowledged = {} /\ overtaken = {}

-----------------------------------------------------------------------------
(* The indexes. *)

ConfigurationKeys(c) ==
  {<<"administrative", c.administrative>>}
    \cup (IF c.profile = NoProfile THEN {} ELSE {<<"profile", ProfileId[c.profile]>>})
    \cup ({<<"aggregate", AggregateOf[c.payload]>>} \ {<<"aggregate", NoAggregate>>})
    \cup ({<<"derived", DerivedFrom[c.payload]>>} \ {<<"derived", NoParent>>})

\* The containers index_add puts a port into, each with its key.
IndexKeys(parent, rec) ==
  {<<"device", parent>>, <<"lifecycle", rec.lifecycle>>}
    \cup (IF rec.configuration = NoConfiguration THEN {} ELSE ConfigurationKeys(rec.configuration))
    \cup (IF rec.ownership = NoOwner THEN {} ELSE {<<"owner", rec.ownership.publisher>>})
    \cup (IF rec.lifecycle = "REVALIDATION_REQUIRED" THEN {<<"revalidation">>} ELSE {})

Entries(p, keys) == {<<key, p>> : key \in keys}

IndexAdd(entries, p, parent, rec) == entries \cup Entries(p, IndexKeys(parent, rec))

\* Mutant of IndexRemove: the keys of the configuration are not erased.
IndexRemovePartly(entries, p, parent, rec) ==
  entries \ Entries(p, IndexKeys(parent, [rec EXCEPT !.configuration = NoConfiguration]))

\* The revalidation set is erased from whatever the lifecycle.
IndexRemove(entries, p, parent, rec) ==
  entries \ Entries(p, IndexKeys(parent, rec) \cup {<<"revalidation">>})

\* Mutant of IndexUpdate: the old entries are removed after the new ones are added.
IndexUpdateSwapped(entries, p, parent, before, after) ==
  IndexRemove(IndexAdd(entries, p, parent, after), p, parent, before)

IndexUpdate(entries, p, parent, before, after) ==
  IndexAdd(IndexRemove(entries, p, parent, before), p, parent, after)

\* ports_of_device, ports_with_lifecycle, ports_with_administrative_state,
\* ports_of_owner, ports_by_profile, ports_of_aggregate, derived_ports.
Collect(key) == {p \in Ports : <<key, p>> \in index}

\* ports_requiring_revalidation: the index, and the drift of every record.
PortsRequiringRevalidation ==
  Collect(<<"revalidation">>)
    \cup {p \in BoundPorts : records[p].drift = "REVALIDATION_REQUIRED"}

-----------------------------------------------------------------------------
(* bind_port. *)

Goto(t, label) == pc' = [pc EXCEPT ![t] = label]

\* The thread answers; what the answer promises is remembered.
Answer(t, b, code) ==
  /\ Goto(t, "idle")
  /\ req' = [req EXCEPT ![t] = NoRequest]
  /\ evidence' = [evidence EXCEPT ![t] = NoBinding]
  /\ inserted' = [inserted EXCEPT ![t] = NoRecord]
  /\ acknowledged' = IF code = "OK" THEN acknowledged \cup {<<b.port, b.parent>>}
                     ELSE acknowledged

\* The epoch is compared under authority_mutex, and not again.
CheckEpoch(t, b) ==
  /\ pc[t] = "idle" /\ delivered[b] < MaxDeliveries
  /\ delivered' = [delivered EXCEPT ![b] = @ + 1]
  /\ IF b.epoch # epoch
     THEN Answer(t, b, "STALE_COORDINATOR_EPOCH")
     ELSE /\ req' = [req EXCEPT ![t] = b]
          /\ Goto(t, "probe")
          /\ UNCHANGED <<evidence, inserted, acknowledged>>
  /\ UNCHANGED <<authorityVars, portVars, index, overtaken>>

\* The provider is asked for the evidence of a port that is not bound, with
\* records_mutex held shared; an answer without evidence is no obstacle.
Probe(t) ==
  /\ pc[t] = "probe"
  /\ \E binding \in IF records[req[t].port] = NoRecord THEN ProviderBindings ELSE {NoBinding} :
       evidence' = [evidence EXCEPT ![t] = binding]
  /\ Goto(t, "insert")
  /\ UNCHANGED <<authorityVars, portVars, index, req, inserted, delivered, historyVars>>

\* Its digest is no mutation's.
BoundRecord(b, binding) ==
  [lifecycle |-> "UNCONFIGURED", configuration |-> NoConfiguration,
   generations |-> [configuration |-> 0, administrative |-> 0, ownership |-> 0,
                    capability |-> binding.generation, device |-> b.device,
                    lifecycle |-> 1, evidence |-> binding.evidence],
   capability |-> binding, ownership |-> NoOwner, applied |-> NotAttempted(0),
   drift |-> "UNKNOWN", attempt |-> b.attempt, digest |-> NoDigest]

\* Mutant of InsertOutcome: the port bound is not checked again.
InsertOutcomeUnbounded(b) ==
  IF records[b.port] # NoRecord
  THEN IF parents[b.port] # b.parent THEN "CONFLICT_DETECTED"
       ELSE IF records[b.port].attempt = b.attempt THEN "IDEMPOTENT" ELSE "ALREADY_CURRENT"
  ELSE "OK"

\* Mutant of InsertOutcome: a bound port is inserted again.
InsertOutcomeAgain(b) ==
  IF records[b.port] # NoRecord /\ parents[b.port] # b.parent THEN "CONFLICT_DETECTED"
  ELSE IF Cardinality(BoundPorts \ {b.port}) >= PortBound THEN "RESOURCE_BOUND_EXCEEDED"
  ELSE "OK"

InsertOutcome(b) ==
  IF records[b.port] # NoRecord
  THEN IF parents[b.port] # b.parent THEN "CONFLICT_DETECTED"
       ELSE IF records[b.port].attempt = b.attempt THEN "IDEMPOTENT"
       ELSE "ALREADY_CURRENT"
  ELSE IF Cardinality(BoundPorts) >= PortBound THEN "RESOURCE_BOUND_EXCEEDED"
  ELSE "OK"

\* Under records_mutex exclusive.  The new record validates: it is
\* UNCONFIGURED and has no configuration.
Insert(t) ==
  LET b   == req[t]
      rec == BoundRecord(b, evidence[t])
  IN  /\ pc[t] = "insert"
      /\ IF InsertOutcome(b) = "OK"
         THEN /\ records' = [records EXCEPT ![b.port] = rec]
              /\ parents' = [parents EXCEPT ![b.port] = b.parent]
              /\ index' = IndexAdd(index, b.port, b.parent, rec)
              /\ inserted' = [inserted EXCEPT ![t] = rec]
              /\ Goto(t, "device")
              /\ UNCHANGED <<req, evidence, acknowledged>>
         ELSE Answer(t, b, InsertOutcome(b)) /\ UNCHANGED <<portVars, index>>
      /\ UNCHANGED <<authorityVars, delivered, overtaken>>

\* The device table already has this generation, an older one or none.
EnterDevice(t) ==
  LET b == req[t] IN
  /\ pc[t] = "device"
  /\ devices[b.parent] <= b.device
  /\ devices[b.parent] = 0 => Cardinality(KnownDevices) < DeviceBound
  /\ devices' = [devices EXCEPT ![b.parent] = b.device]
  /\ Answer(t, b, "OK")
  /\ UNCHANGED <<epoch, publishers, topology, portVars, index, delivered, overtaken>>

\* The device table is full: the binding is refused and the record stays.
RefuseDevice(t) ==
  LET b == req[t] IN
  /\ pc[t] = "device"
  /\ devices[b.parent] = 0 /\ Cardinality(KnownDevices) >= DeviceBound
  /\ Answer(t, b, "RESOURCE_BOUND_EXCEEDED")
  /\ UNCHANGED <<authorityVars, portVars, index, delivered, overtaken>>

\* A newer generation is recorded: the record, whatever it is by now, is
\* erased, and the entries of the record that was inserted are removed.
RollBack(t) ==
  LET b == req[t] IN
  /\ pc[t] = "device"
  /\ devices[b.parent] > b.device
  /\ records' = [records EXCEPT ![b.port] = NoRecord]
  /\ parents' = [parents EXCEPT ![b.port] = NoDevice]
  /\ index' = IndexRemove(index, b.port, b.parent, inserted[t])
  /\ overtaken' = IF records[b.port] # inserted[t] THEN overtaken \cup {b.port} ELSE overtaken
  /\ Answer(t, b, "STALE_DEVICE_GENERATION")
  /\ UNCHANGED <<authorityVars, delivered>>

-----------------------------------------------------------------------------
(* What other threads do to bound ports. *)

Replace(p, next) ==
  /\ records' = [records EXCEPT ![p] = next]
  /\ index' = IndexUpdate(index, p, parents[p], records[p], next)
  /\ UNCHANGED parents

\* A mutation of a bound port is committed.
Mutate(r) ==
  LET rec == records[r.port] IN
  /\ AuthorityOutcome(r) = "OK"
  /\ rec # NoRecord
  /\ RegisterOnUse(r)
  /\ \E next \in Results(rec, r, topology, devices[parents[r.port]]) : Replace(r.port, next)
  /\ UNCHANGED <<epoch, devices, topology, bindVars, historyVars>>

\* An apply of the mutation ends in doubt (record_apply_uncertainty).
LoseApply(r) ==
  LET rec == records[r.port] IN
  /\ AuthorityOutcome(r) = "OK"
  /\ rec # NoRecord
  /\ MayEndInDoubt(r)
  /\ RegisterOnUse(r)
  /\ \E next \in Results(rec, r, topology, devices[parents[r.port]]) :
       Replace(r.port, Uncertain(rec, next.generations.configuration))
  /\ UNCHANGED <<epoch, devices, topology, bindVars, historyVars>>

\* release_ownership_of and release_ownership_before_epoch.
ReleasePorts(owned) ==
  /\ records' = [p \in Ports |-> IF p \in owned THEN ReleasedOwnership(records[p])
                                 ELSE records[p]]
  /\ index' = {entry \in index : entry[2] \in owned =>
                  entry \in IndexRemove(index, entry[2], parents[entry[2]], records[entry[2]])}
                \cup UNION {IndexAdd({}, p, parents[p], records'[p]) : p \in owned}
  /\ UNCHANGED parents

OwnedPorts == {p \in BoundPorts : records[p].ownership # NoOwner}

BeginEpoch ==
  /\ AdvanceEpoch
  /\ ReleasePorts({p \in OwnedPorts : records[p].ownership.epoch < epoch'})
  /\ UNCHANGED <<bindVars, historyVars>>

FencePublisher(p, b) ==
  /\ MarkFenced(p, b)
  /\ ReleasePorts({q \in OwnedPorts : /\ records[q].ownership.publisher = p
                                      /\ records[q].ownership.boot = b})
  /\ UNCHANGED <<bindVars, historyVars>>

\* register_device: a device that is not in the table counts against the bound.
RegisterDeviceBounded(d) ==
  /\ devices[d] = 0 => Cardinality(KnownDevices) < DeviceBound
  /\ RegisterDevice(d)
  /\ UNCHANGED <<portVars, index, bindVars, historyVars>>

Next ==
  \/ \E t \in Threads, b \in BindRequests : CheckEpoch(t, b)
  \/ \E t \in Threads : Probe(t) \/ Insert(t) \/ EnterDevice(t) \/ RefuseDevice(t) \/ RollBack(t)
  \/ \E r \in Requests : Mutate(r) \/ LoseApply(r)
  \/ BeginEpoch
  \/ \E p \in Publishers, b \in Boots : FencePublisher(p, b)
  \/ \E d \in Devices : RegisterDeviceBounded(d)

Spec == Init /\ [][Next]_vars

-----------------------------------------------------------------------------
(* Properties. *)

\* No query misses a port: every bound port is in each container that its
\* record belongs to, whatever was bound, rolled back, mutated or released
\* before (index_add, index_remove, index_update).
QueriesMissNothing ==
  \A p \in BoundPorts :
    LET rec == records[p]
        c   == rec.configuration
    IN  /\ p \in Collect(<<"device", parents[p]>>)
        /\ p \in Collect(<<"lifecycle", rec.lifecycle>>)
        /\ rec.ownership # NoOwner => p \in Collect(<<"owner", rec.ownership.publisher>>)
        /\ "REVALIDATION_REQUIRED" \in {rec.lifecycle, rec.drift} => p \in PortsRequiringRevalidation
        /\ c # NoConfiguration =>
             /\ p \in Collect(<<"administrative", c.administrative>>)
             /\ c.profile # NoProfile => p \in Collect(<<"profile", ProfileId[c.profile]>>)
             /\ AggregateOf[c.payload] # NoAggregate =>
                  p \in Collect(<<"aggregate", AggregateOf[c.payload]>>)
             /\ DerivedFrom[c.payload] # NoParent =>
                  p \in Collect(<<"derived", DerivedFrom[c.payload]>>)

\* The indexes say of a port exactly what its record says, and nothing of a
\* port that is not bound, unless a binding was rolled back after another
\* thread had changed the record it inserted.
IndexesAgree ==
  \A p \in Ports \ overtaken :
    {entry \in index : entry[2] = p} =
      IF p \in BoundPorts THEN IndexAdd({}, p, parents[p], records[p]) ELSE {}

\* A binding that was answered OK holds for good: the port stays bound to that
\* device, which the table knows at the generation of the record or a newer
\* one, although another thread's binding of the same port may be rolled back.
AcknowledgedBindingsHold ==
  \A binding \in acknowledged :
    LET p == binding[1]
        d == binding[2]
    IN  /\ records[p] # NoRecord
        /\ parents[p] = d
        /\ records[p].generations.device <= devices[d]

\* Concurrent bindings never take the runtime past its configured bounds.
BoundsHold == Cardinality(BoundPorts) <= PortBound /\ Cardinality(KnownDevices) <= DeviceBound

=============================================================================
