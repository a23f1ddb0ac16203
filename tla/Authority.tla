------------------------------ MODULE Authority ------------------------------
(***************************************************************************)
(* The authority tables of the coordinator, guarded by authority_mutex:    *)
(* the coordinator epoch, the publisher incarnations, and the device and   *)
(* topology generations (engine.cpp, engine_support.cpp).                  *)
(*                                                                         *)
(* A publisher's table entry keeps only its latest worker boot: nothing    *)
(* remembers the boots it replaced.                                        *)
(***************************************************************************)
EXTENDS Naturals, Identities

CONSTANTS
  Devices,
  Unregistered,          \* a publisher with no table entry
  ExplicitRegistration,  \* config.publisher_registration is Explicit
  InitialPublishers,     \* the table when the behaviour starts
  MaxEpoch, MaxDeviceGeneration, MaxTopology   \* bounds of the counters

PublisherRecords == [boot: Boots, epoch: Nat, fenced: BOOLEAN]

ASSUME AuthorityAssumption ==
  /\ ExplicitRegistration \in BOOLEAN
  /\ MaxEpoch \in Nat \ {0}
  /\ MaxDeviceGeneration \in Nat \ {0}
  /\ MaxTopology \in Nat \ {0}
  /\ InitialPublishers \in [Publishers -> PublisherRecords \cup {Unregistered}]
  /\ \A p \in Publishers :
       InitialPublishers[p] # Unregistered => InitialPublishers[p].epoch = 1

VARIABLES
  epoch,        \* impl.epoch
  publishers,   \* impl.publishers
  devices,      \* impl.devices: the recorded generation of each device
  topology      \* impl.topology

authorityVars == <<epoch, publishers, devices, topology>>

AuthorityTypeOK ==
  /\ epoch \in Nat
  /\ publishers \in [Publishers -> PublisherRecords \cup {Unregistered}]
  /\ devices \in [Devices -> Nat]
  /\ topology \in Nat

AuthorityInit ==
  /\ epoch = 1
  /\ publishers = InitialPublishers
  /\ devices = [d \in Devices |-> 1]
  /\ topology = 1

Registered(p) == publishers[p] # Unregistered

Incarnation(b, e) == [boot |-> b, epoch |-> e, fenced |-> FALSE]

\* check_authority: epoch, then publisher, then boot, then fence.
AuthorityOutcome(r) ==
  IF r.epoch # epoch THEN "STALE_COORDINATOR_EPOCH"
  ELSE IF ~Registered(r.publisher)
    THEN IF ExplicitRegistration THEN "UNKNOWN_PUBLISHER" ELSE "OK"
  ELSE IF publishers[r.publisher].boot # r.boot THEN "STALE_WORKER_BOOT"
  ELSE IF publishers[r.publisher].fenced THEN "PUBLISHER_FENCED"
  ELSE "OK"

\* Automatic registration: an unknown publisher is registered on first use.
RegisterOnUse(r) ==
  publishers' = IF AuthorityOutcome(r) = "OK" /\ ~Registered(r.publisher)
                THEN [publishers EXCEPT ![r.publisher] = Incarnation(r.boot, r.epoch)]
                ELSE publishers

\* Mutant of AdvanceEpoch: surviving incarnations are not fenced.
AdvanceEpochUnfenced ==
  /\ epoch < MaxEpoch
  /\ epoch' = epoch + 1
  /\ UNCHANGED <<publishers, devices, topology>>

\* begin_epoch: a new epoch fences every incarnation of an earlier one.
AdvanceEpoch ==
  /\ epoch < MaxEpoch
  /\ epoch' = epoch + 1
  /\ publishers' =
       [p \in Publishers |->
          IF Registered(p) /\ publishers[p].epoch < epoch'
          THEN [publishers[p] EXCEPT !.fenced = TRUE] ELSE publishers[p]]
  /\ UNCHANGED <<devices, topology>>

\* register_publisher under the current epoch: the incarnation in the table is
\* confirmed, and any other boot replaces it, fenced or not.
RegisterPublisher(p, b) ==
  /\ Registered(p) => publishers[p].boot # b
  /\ publishers' = [publishers EXCEPT ![p] = Incarnation(b, epoch)]
  /\ UNCHANGED <<epoch, devices, topology>>

\* The table half of fence_publisher.
MarkFenced(p, b) ==
  /\ Registered(p) /\ publishers[p].boot = b /\ ~publishers[p].fenced
  /\ publishers' = [publishers EXCEPT ![p].fenced = TRUE]
  /\ UNCHANGED <<epoch, devices, topology>>

\* register_device with a newer generation; no record is touched.
RegisterDevice(d) ==
  /\ devices[d] < MaxDeviceGeneration
  /\ devices' = [devices EXCEPT ![d] = @ + 1]
  /\ UNCHANGED <<epoch, publishers, topology>>

\* set_topology_generation with a newer generation; no record is touched.
SetTopologyGeneration ==
  /\ topology < MaxTopology
  /\ topology' = topology + 1
  /\ UNCHANGED <<epoch, publishers, devices>>

=============================================================================
