---------------------------- MODULE MCPortBinding ----------------------------
(***************************************************************************)
(* Small instances of PortBinding: two ports, two devices with room for    *)
(* one, and bindings that compete for a port, name two parents for it, or  *)
(* name a device generation that is replaced meanwhile.                    *)
(***************************************************************************)
EXTENDS PortBinding, MCRequests, TLC

TwoPorts == {"p1", "p2"}
TwoDevices == {"d1", "d2"}
AllRegistered == [p \in Publishers |-> Incarnation("b1", 1)]
ThreadSymmetry == Permutations(Threads)

MCProfileId == [f \in MCProfiles |-> f]
MCAggregateOf == [x |-> "g", y |-> NoAggregate, malformed |-> NoAggregate]
MCDerivedFrom == [x |-> NoParent, y |-> "p2", malformed |-> NoParent]

Binding(p, parent, generation, attempt) ==
  [port |-> p, parent |-> parent, device |-> generation, epoch |-> 1, attempt |-> attempt]

\* One port is bound twice on one device and once on another.
MCBindRequests ==
  {Binding("p1", "d1", 1, "a1"), Binding("p1", "d1", 2, "a2"), Binding("p1", "d2", 1, "a3"),
   Binding("p2", "d1", 1, "a4")}

\* The port is claimed, configured and moved to a profile.
MCBoundRequests ==
  {Claim("a5", "A", TRUE), Configure("a6", "A", "x"), Assign("a7", "A", 1, "f")}

=============================================================================
