---------------------------- MODULE MCDurability ----------------------------
(***************************************************************************)
(* Small instances of Durability.  Requests carry the epoch of the process *)
(* life they are sent in: 2 in the first one, 4 in the next one after a    *)
(* crash, because load and begin_epoch each advance it.                    *)
(***************************************************************************)
EXTENDS Durability, MCRequests, TLC

MCDevices == {"d1"}
MCDeviceOf == [p \in MCPorts |-> "d1"]
NoneRegistered == [p \in Publishers |-> Unregistered]
WriterSymmetry == Permutations(Writers)

\* Worker boots are as many as process lives.
InEpoch(e, r) == [r EXCEPT !.epoch = e, !.boot = IF e = 2 THEN "b1" ELSE "b2"]

\* A port is claimed and configured, survives a crash, and is claimed and
\* reconciled afterwards.
RestartRequests ==
  {InEpoch(2, Claim("a1", "A", TRUE)), InEpoch(2, Configure("a2", "A", "x")),
   InEpoch(4, Claim("a3", "A", TRUE)), InEpoch(4, Reconcile("a4", "A", 1))}

\* Two writers commit at the same time.
ConcurrentRequests ==
  {InEpoch(2, Claim("a1", "A", TRUE)), InEpoch(2, Fence("a2", "A", "Retire"))}

=============================================================================
