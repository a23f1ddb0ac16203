------------------------------ MODULE PortStore ------------------------------
(***************************************************************************)
(* What the mutation path promises, without threads, snapshots or commits: *)
(* a store of port records in which every mutation is one indivisible      *)
(* step on the record it replaces.  PortEngine implements it when no       *)
(* attempt identity is used twice.                                         *)
(*                                                                         *)
(* What a request does to a record is a parameter: Admission and           *)
(* PortRecord define it.                                                   *)
(***************************************************************************)
EXTENDS Naturals

CONSTANTS
  Ports, Requests, InitialRecord, NoOwner,
  Results(_, _, _, _),     \* the records a request may turn a record into
  MayEndInDoubt(_),        \* the requests whose device apply may end in doubt
  Uncertain(_, _),         \* the record of a port whose apply ended in doubt
  ReleasedOwnership(_),    \* the record of a port taken from its owner
  MaxDeviceGeneration, MaxTopology

VARIABLE store

StoreInit == store = [p \in Ports |-> InitialRecord]

\* A request that every gate admits on the current record takes effect on it.
Mutate(r) ==
  \E topology \in 1..MaxTopology, device \in 1..MaxDeviceGeneration :
    \E next \in Results(store[r.port], r, topology, device) :
      store' = [store EXCEPT ![r.port] = next]

\* An apply nobody can vouch for fences the port, whatever its record is.
FenceInDoubt(r) ==
  /\ MayEndInDoubt(r)
  /\ \E generation \in 0..(store[r.port].generations.configuration + 1) :
       store' = [store EXCEPT ![r.port] = Uncertain(@, generation)]

\* Fencing an incarnation or an epoch takes ports from their owners.
ReleasePorts(released) ==
  /\ \A p \in released : store[p].ownership # NoOwner
  /\ store' = [p \in Ports |-> IF p \in released THEN ReleasedOwnership(store[p])
                               ELSE store[p]]

StoreNext ==
  \/ \E r \in Requests : Mutate(r) \/ FenceInDoubt(r)
  \/ \E released \in SUBSET Ports : ReleasePorts(released)

StoreSpec == StoreInit /\ [][StoreNext]_store

=============================================================================
