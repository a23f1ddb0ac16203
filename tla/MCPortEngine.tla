---------------------------- MODULE MCPortEngine ----------------------------
(***************************************************************************)
(* Small instances of PortEngine, with one device.  Each set of requests   *)
(* is the workload of one run.                                             *)
(***************************************************************************)
EXTENDS PortEngine, MCRequests, TLC

MCDevices == {"d1"}
MCDeviceOf == [p \in MCPorts |-> "d1"]
AllRegistered == [p \in Publishers |-> [boot |-> "b1", epoch |-> 1, fenced |-> FALSE]]
NoneRegistered == [p \in Publishers |-> Unregistered]
ThreadSymmetry == Permutations(Threads)

-----------------------------------------------------------------------------
(* Workloads. *)

\* Everything that changes a configured port under its owner, and a change of
\* owner, prepared concurrently.
RaceRequests ==
  {Reconfigure("a1", "A", 1, "y"), Observe("a2", "A", "DRIFTED"),
   Bind("a3", "A", Evidence(2, 2, {"y"})), Release("a4", "A"),
   Claim("a5", "B", TRUE), Transfer("a6", "B", "A")}

\* The life of a port from its binding on, one request at a time, in any order.
LifecycleRequests ==
  {Claim("a1", "A", TRUE), Configure("a2", "A", "x"), Administer("a3", "A", "Drain"),
   Administer("a4", "A", "RequireRevalidation"), Assign("a5", "A", 1, "f"),
   Bind("a6", "A", Evidence(2, 2, {"y"})), Reconcile("a7", "A", 1),
   Reconcile("a8", "A", 2), Report("a9", "A", "OUTCOME_UNKNOWN", 1, FALSE),
   Observe("a10", "A", "CONFLICTED"), Fence("a11", "A", "Supersede")}

\* Requests that race for the device as well as for the record.
DeviceRequests ==
  {Reconfigure("a1", "A", 1, "y"), Administer("a2", "A", "Disable"),
   Reconcile("a3", "A", 1), Fence("a4", "A", "Retire")}

\* Requests that state what they believe, each delivered twice, while publishers
\* restart and the device and the topology are replaced.
RetriedRequests ==
  {[Reconfigure("a1", "A", 1, "y") EXCEPT !.expTopology = 1],
   [Administer("a2", "A", "Disable") EXCEPT !.expDevice = 1, !.expCapability = 1,
                                            !.expOwnership = 1]}

\* The first requests of a bound port.
FirstConfiguration == {Configure("a1", "A", "x"), Claim("a2", "A", TRUE)}

=============================================================================
