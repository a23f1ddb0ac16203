----------------------------- MODULE LockOrder -----------------------------
(***************************************************************************)
(* The four mutexes of the engine and the order in which its public        *)
(* operations take them.  An operation is a sequence of critical sections; *)
(* a section names the locks it takes, one inside the other, and gives all *)
(* of them up when it ends.  Between two sections no lock is held, and any *)
(* section may be the operation's last: each is followed by an early       *)
(* return for a check that failed.                                         *)
(*                                                                         *)
(* What the sections compute is modelled elsewhere; here only the waiting  *)
(* of threads for each other counts.                                       *)
(***************************************************************************)
EXTENDS Naturals, Sequences

CONSTANTS
  Threads,     \* the threads that call the engine
  MaxCalls,    \* how many calls a thread makes
  Idle         \* the operation of a thread outside the engine

ASSUME LockAssumption == MaxCalls \in Nat \ {0} /\ Threads # {}

\* A lock and how it is taken; only records_mutex is a shared_mutex.
Profiles == [lock |-> "profiles", shared |-> FALSE]
AuthorityLock == [lock |-> "authority", shared |-> FALSE]
ReadRecords == [lock |-> "records", shared |-> TRUE]
WriteRecords == [lock |-> "records", shared |-> FALSE]
Persistence == [lock |-> "persistence", shared |-> FALSE]

\* persist_locked_state: the configuration, then the parts of the image, each
\* under its own lock, then the file.
PersistLockedState ==
  <<<<AuthorityLock>>, <<AuthorityLock>>, <<Profiles>>, <<ReadRecords>>, <<Persistence>>>>

\* execute_mutation: the authority check, the snapshot, the fence of the
\* caller, the generations, the builder, and commit, which writes through.
\* The provider and the adapter are called between sections.
ExecuteMutation ==
  <<<<AuthorityLock>>, <<Profiles, ReadRecords>>, <<AuthorityLock>>, <<AuthorityLock>>,
    << >>, <<Profiles>>, << >>, <<WriteRecords>>>> \o PersistLockedState

\* bind_port: the epoch, the probe (which calls the provider), the insertion,
\* and the device table, with the record erased when that holds a newer
\* generation.
BindPort ==
  <<<<AuthorityLock>>, <<ReadRecords>>, <<WriteRecords>>, <<AuthorityLock, WriteRecords>>>>
  \o PersistLockedState

\* begin_epoch and fence_publisher release records under the authority lock.
BeginEpoch == <<<<AuthorityLock, WriteRecords>>>>
\* Mutant: fence_publisher takes the records before the authority.
FenceRecordsFirst == <<<<WriteRecords, AuthorityLock>>>>
FencePublisher == <<<<AuthorityLock, WriteRecords>>>>
\* The other operations on one table, and the queries, have the shape of one of
\* these; snapshots are taken as explanations are.
RegisterPublisher == <<<<AuthorityLock>>>>
DefineProfile == <<<<Profiles>>>>
Query == <<<<ReadRecords>>>>
StaleProfiles == <<<<Profiles, ReadRecords>>>>
Explain == <<<<ReadRecords>>, <<AuthorityLock>>>>
Save == <<<<AuthorityLock>>, <<Profiles>>, <<ReadRecords>>, <<Persistence>>>>
Load == <<<<Persistence>>, <<Profiles>>, <<AuthorityLock>>, <<WriteRecords>>>>

Program ==
  [execute_mutation |-> ExecuteMutation, bind_port |-> BindPort, begin_epoch |-> BeginEpoch,
   fence_publisher |-> FencePublisher, register_publisher |-> RegisterPublisher,
   define_profile |-> DefineProfile, find_record |-> Query,
   ports_with_stale_profile_binding |-> StaleProfiles, explain |-> Explain,
   save |-> Save, load |-> Load]

VARIABLES
  operation,   \* what each thread executes
  section,     \* the section it is in
  depth,       \* how many of the section's locks it holds
  calls        \* how many calls it has made

vars == <<operation, section, depth, calls>>

Inside(t) == operation[t] # Idle
Section(t) == Program[operation[t]][section[t]]
Held(t) == IF Inside(t) THEN {Section(t)[i] : i \in 1..depth[t]} ELSE {}
\* The thread has asked for its next lock and waits for it.
Waits(t) == Inside(t) /\ depth[t] < Len(Section(t))
Wanted(t) == Section(t)[depth[t] + 1]

Conflict(a, b) == a.lock = b.lock /\ ~(a.shared /\ b.shared)
\* Nobody, the thread itself included, holds what it would conflict with.
Grantable(t) == Waits(t) /\ \A u \in Threads : \A h \in Held(u) : ~Conflict(Wanted(t), h)
\* The shared_mutex may also make a reader wait for a waiting writer.
GrantedAtOnce(t) ==
  Grantable(t) /\ \A u \in Threads \ {t} : Wanted(t).shared /\ Waits(u) => ~Conflict(Wanted(t), Wanted(u))

Init ==
  /\ operation = [t \in Threads |-> Idle]
  /\ section = [t \in Threads |-> 1] /\ depth = [t \in Threads |-> 0]
  /\ calls = [t \in Threads |-> 0]

Call(t, op) ==
  /\ ~Inside(t) /\ calls[t] < MaxCalls
  /\ operation' = [operation EXCEPT ![t] = op]
  /\ section' = [section EXCEPT ![t] = 1]
  /\ calls' = [calls EXCEPT ![t] = @ + 1]
  /\ UNCHANGED depth

Acquire(t) ==
  /\ Grantable(t)
  /\ depth' = [depth EXCEPT ![t] = @ + 1]
  /\ UNCHANGED <<operation, section, calls>>

\* The section has all its locks: it does its work and its guards go out of
\* scope.
Leave(t) ==
  /\ Inside(t) /\ ~Waits(t) /\ section[t] < Len(Program[operation[t]])
  /\ section' = [section EXCEPT ![t] = @ + 1]
  /\ depth' = [depth EXCEPT ![t] = 0]
  /\ UNCHANGED <<operation, calls>>

Return(t) ==
  /\ Inside(t) /\ ~Waits(t)
  /\ operation' = [operation EXCEPT ![t] = Idle]
  /\ section' = [section EXCEPT ![t] = 1]
  /\ depth' = [depth EXCEPT ![t] = 0]
  /\ UNCHANGED calls

Next ==
  \E t \in Threads :
    \/ \E op \in DOMAIN Program : Call(t, op)
    \/ Acquire(t) \/ Leave(t) \/ Return(t)

Spec == Init /\ [][Next]_vars

\* The engine's operations never wait for each other in a circle: whenever
\* some thread is inside the engine, some thread inside it gets the lock it
\* waits for or needs none, even if readers queue behind waiting writers.
\* The sections that nest two locks take them in the order that
\* engine_persistence.cpp:107 and README.md:405 document.
DeadlockFree ==
  (\E t \in Threads : Inside(t)) =>
    \E t \in Threads : Inside(t) /\ (~Waits(t) \/ GrantedAtOnce(t))
=============================================================================
