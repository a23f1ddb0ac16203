----------------------------- MODULE MCRequests -----------------------------
(***************************************************************************)
(* Small values of the parameters that PortEngine and Durability share:    *)
(* one port, two publishers with two worker boots each, three payloads of  *)
(* which one is malformed, one defined profile, the requests the workloads *)
(* are made of, and the records a behaviour starts from.                   *)
(***************************************************************************)
EXTENDS Admission

CONSTANT NoArg   \* requests of some kinds carry nothing but their envelope

OnePublisher == {"A"}
TwoPublishers == {"A", "B"}
OneBoot == {"b1"}
TwoBoots == {"b1", "b2"}
MCAttempts == {"a1", "a2", "a3", "a4", "a5", "a6", "a7", "a8", "a9", "a10", "a11"}
MCPayloads == {"x", "y", "malformed"}
MCValidPayloads == {"x", "y"}
MCProfiles == {"f", "undefined"}
MCDefinedProfiles == {"f"}
MCOverlay == [f \in MCDefinedProfiles |-> [d \in MCPayloads |-> "y"]]
MCPorts == {"p1"}

Evidence(generation, evidence, supports) ==
  [generation |-> generation, evidence |-> evidence, supports |-> supports]

ProviderAnswers == {NoBinding, Evidence(1, 1, {"x", "y"})}

-----------------------------------------------------------------------------
(* Requests. *)

Request(attempt, publisher, kind, expected, arg) ==
  [port |-> "p1", kind |-> kind, publisher |-> publisher, boot |-> "b1", epoch |-> 1,
   attempt |-> attempt, expConfiguration |-> expected, expCapability |-> 0,
   expOwnership |-> 0, expTopology |-> 0, expDevice |-> 0, arg |-> arg]

Dimensioned(payload, profile) ==
  [payload |-> payload, administrative |-> "UNKNOWN", profile |-> profile]
Claim(a, p, exclusive) ==
  Request(a, p, "ClaimOwnership", 0, [exclusive |-> exclusive, delegate |-> NoDelegate])
Transfer(a, p, receiver) ==
  Request(a, p, "TransferOwnership", 0,
          [exclusive |-> TRUE, delegate |-> [publisher |-> receiver, boot |-> "b1"]])
Release(a, p) ==
  Request(a, p, "ReleaseOwnership", 0, [exclusive |-> FALSE, delegate |-> NoDelegate])
Configure(a, p, payload) ==
  Request(a, p, "Configure", 0, Dimensioned(payload, NoProfile))
Reconfigure(a, p, expected, payload) ==
  Request(a, p, "Reconfigure", expected, Dimensioned(payload, NoProfile))
Administer(a, p, op) == Request(a, p, "Administrative", 0, [op |-> op])
Assign(a, p, expected, profile) == Request(a, p, "AssignProfile", expected, [profile |-> profile])
Bind(a, p, evidence) == Request(a, p, "BindCapabilities", 0, evidence)
Reconcile(a, p, expected) == Request(a, p, "Reconcile", expected, NoArg)
Report(a, p, applied, generation, verified) ==
  Request(a, p, "RecordAppliedEvidence", 0,
          [outcome |-> applied, generation |-> generation, verified |-> verified])
Observe(a, p, drift) == Request(a, p, "ObserveExternalState", 0, [observed |-> drift])
Fence(a, p, kind) == Request(a, p, kind, 0, NoArg)

-----------------------------------------------------------------------------
(* Records a behaviour starts from: as bind_port leaves it, and after a    *)
(* claim by A and a first configuration, settled one way or another.       *)

Bound ==
  [lifecycle |-> "UNCONFIGURED", configuration |-> NoConfiguration,
   generations |-> [configuration |-> 0, administrative |-> 0, ownership |-> 0,
                    capability |-> 1, device |-> 1, lifecycle |-> 1, evidence |-> 1],
   capability |-> Evidence(1, 1, {"x", "y"}), ownership |-> NoOwner,
   applied |-> NotAttempted(0), drift |-> "UNKNOWN",
   attempt |-> InitialAttempt, digest |-> NoDigest]

BoundWithoutEvidence ==
  [Bound EXCEPT !.capability = NoBinding, !.generations.capability = 0,
                !.generations.evidence = 0]

After(rec, r) ==
  [Planned([current |-> rec, topology |-> 1, device |-> 1, capability |-> rec.capability], r)
     EXCEPT !.attempt = InitialAttempt, !.digest = NoDigest]

Established(exclusive, applied) ==
  Settled(After(After(Bound, Claim("a1", "A", exclusive)), Configure("a1", "A", "x")), applied)

DesiredOnly == Established(TRUE, "NOT_ATTEMPTED")
Shareable == Established(FALSE, "NOT_ATTEMPTED")
Verified == Established(TRUE, "VERIFIED")

=============================================================================
