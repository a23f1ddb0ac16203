-------------------------- MODULE LockOrderProofs --------------------------
(***************************************************************************)
(* No number of threads, calling the engine's operations as often as they  *)
(* like, ends up waiting in a circle.  The argument is the lock order: a   *)
(* section that takes two locks takes records_mutex second, so a thread    *)
(* that waits never holds records_mutex.                                   *)
(***************************************************************************)
EXTENDS LockOrder, TLAPS

\* The sections the operations are made of.
Shapes ==
  {<< >>, <<AuthorityLock>>, <<Profiles>>, <<ReadRecords>>, <<WriteRecords>>, <<Persistence>>,
   <<Profiles, ReadRecords>>, <<AuthorityLock, WriteRecords>>}

Programs == {s \in Seq(Shapes) : Len(s) >= 1}

\* Writing the state through after an operation's own sections adds sections of
\* the same shapes.
LEMMA Concatenated ==
  ASSUME NEW a \in Programs, NEW b \in Programs
  PROVE  a \o b \in Programs
BY DEF Programs

\* Every operation is a nonempty sequence of those sections.
LEMMA ProgramShapes == \A op \in DOMAIN Program : Program[op] \in Programs
<1>1. PersistLockedState \in Programs
  BY DEF PersistLockedState, Programs, Shapes
<1>2. ExecuteMutation \in Programs
  <2>1. <<<<AuthorityLock>>, <<Profiles, ReadRecords>>, <<AuthorityLock>>, <<AuthorityLock>>,
          << >>, <<Profiles>>, << >>, <<WriteRecords>>>> \in Programs
    BY DEF Programs, Shapes
  <2> QED BY <1>1, <2>1, Concatenated DEF ExecuteMutation
<1>3. BindPort \in Programs
  <2>1. <<<<AuthorityLock>>, <<ReadRecords>>, <<WriteRecords>>, <<AuthorityLock, WriteRecords>>>>
          \in Programs
    BY DEF Programs, Shapes
  <2> QED BY <1>1, <2>1, Concatenated DEF BindPort
<1>4. /\ BeginEpoch \in Programs /\ FencePublisher \in Programs
      /\ RegisterPublisher \in Programs /\ DefineProfile \in Programs
      /\ Query \in Programs /\ StaleProfiles \in Programs
  BY DEF BeginEpoch, FencePublisher, RegisterPublisher, DefineProfile, Query, StaleProfiles,
         Programs, Shapes
<1>5. Explain \in Programs /\ Save \in Programs /\ Load \in Programs
  BY DEF Explain, Save, Load, Programs, Shapes
<1> QED BY <1>2, <1>3, <1>4, <1>5 DEF Program

-----------------------------------------------------------------------------
\* Where a thread can be: in a section of its operation, holding no more locks
\* than the section takes, and none outside the engine.
ThreadInv(t) ==
  /\ Inside(t) => /\ section[t] \in 1..Len(Program[operation[t]])
                  /\ depth[t] \in 0..Len(Section(t))
  /\ ~Inside(t) => depth[t] = 0

LockInv ==
  /\ operation \in [Threads -> DOMAIN Program \cup {Idle}]
  /\ section \in [Threads -> Nat]
  /\ depth \in [Threads -> Nat]
  /\ \A t \in Threads : ThreadInv(t)

\* The section a thread is in is one of the eight shapes.
LEMMA SectionShape ==
  ASSUME LockInv, NEW t \in Threads, Inside(t)
  PROVE  Section(t) \in Shapes
<1>1. operation[t] \in DOMAIN Program
  BY DEF LockInv, Inside
<1>2. Program[operation[t]] \in Seq(Shapes)
  BY <1>1, ProgramShapes DEF Programs
<1>3. section[t] \in 1..Len(Program[operation[t]])
  BY DEF LockInv, ThreadInv
<1> QED BY <1>2, <1>3 DEF Section

\* A waiting thread wants its first lock and holds nothing, or holds the first
\* lock of a section that takes records_mutex second.
LEMMA WaitingShape ==
  ASSUME LockInv, NEW t \in Threads, Waits(t)
  PROVE  /\ Wanted(t) \in {AuthorityLock, Profiles, ReadRecords, WriteRecords, Persistence}
         /\ Wanted(t).lock # "records" => Held(t) = {}
         /\ \A h \in Held(t) : h.lock # "records"
<1>1. Section(t) \in Shapes
  BY SectionShape DEF Waits
<1>2. depth[t] \in 0..Len(Section(t)) /\ depth[t] < Len(Section(t)) /\ Inside(t)
  BY DEF LockInv, ThreadInv, Waits
<1> DEFINE s == Section(t)
<1>3. CASE s \in {<<Profiles, ReadRecords>>, <<AuthorityLock, WriteRecords>>} /\ depth[t] = 1
  <2>1. Held(t) = {s[1]} /\ Wanted(t) = s[2]
    BY <1>2, <1>3 DEF Held, Wanted
  <2> QED
    BY <2>1, <1>3 DEF Profiles, AuthorityLock, ReadRecords, WriteRecords
<1>4. CASE depth[t] = 0
  <2>1. Held(t) = {} /\ Wanted(t) = s[1] /\ Len(s) > 0
    BY <1>2, <1>4 DEF Held, Wanted
  <2>2. s[1] \in {AuthorityLock, Profiles, ReadRecords, WriteRecords, Persistence}
    BY <2>1, <1>1 DEF Shapes
  <2> QED BY <2>1, <2>2
<1>5. depth[t] = 0 \/ (s \in {<<Profiles, ReadRecords>>, <<AuthorityLock, WriteRecords>>} /\ depth[t] = 1)
  <2>1. CASE s \in {<<Profiles, ReadRecords>>, <<AuthorityLock, WriteRecords>>}
    <3>1. Len(s) = 2
      BY <2>1
    <3> QED BY <1>2, <2>1, <3>1
  <2>2. CASE s \in {<< >>, <<AuthorityLock>>, <<Profiles>>, <<ReadRecords>>, <<WriteRecords>>,
                    <<Persistence>>}
    <3>1. PICK n \in {0, 1} : Len(s) = n
      BY <2>2
    <3>2. depth[t] \in Nat /\ depth[t] < n
      BY <1>2, <3>1 DEF LockInv
    <3>3. depth[t] = 0
      BY <3>2
    <3> QED BY <3>3
  <2> QED BY <1>1, <2>1, <2>2 DEF Shapes
<1> QED BY <1>3, <1>4, <1>5

\* LockInv is inductive.
LEMMA LockStep == LockInv /\ [Next]_vars => LockInv'
<1> SUFFICES ASSUME LockInv, [Next]_vars PROVE LockInv'
  OBVIOUS
<1>1. CASE UNCHANGED vars
  BY <1>1 DEF LockInv, ThreadInv, Inside, Section, vars
<1>2. ASSUME NEW t \in Threads, NEW op \in DOMAIN Program, Call(t, op) PROVE LockInv'
  <2>1. Program[op] \in Seq(Shapes) /\ Len(Program[op]) >= 1
    BY ProgramShapes DEF Programs
  <2>2. \A s \in Shapes : Len(s) \in Nat
    BY DEF Shapes
  <2>3. Program[op][1] \in Shapes
    BY <2>1
  <2> HIDE DEF Program, Shapes
  <2> QED BY <1>2, <2>1, <2>2, <2>3 DEF LockInv, ThreadInv, Call, Inside, Section
<1>3. ASSUME NEW t \in Threads, Acquire(t) PROVE LockInv'
  <2>1. Section(t) \in Shapes
    BY <1>3, SectionShape DEF Acquire, Grantable, Waits
  <2>2. Len(Section(t)) \in Nat
    BY <2>1 DEF Shapes
  <2> QED BY <1>3, <2>2 DEF LockInv, ThreadInv, Acquire, Grantable, Waits, Inside, Section
<1>4. ASSUME NEW t \in Threads, Leave(t) PROVE LockInv'
  <2>1. operation[t] \in DOMAIN Program
    BY <1>4 DEF LockInv, Leave, Inside
  <2>2. Program[operation[t]] \in Seq(Shapes)
    BY <2>1, ProgramShapes DEF Programs
  <2>3. section[t] + 1 \in 1..Len(Program[operation[t]])
    BY <1>4, <2>2 DEF LockInv, ThreadInv, Leave
  <2>4. Len(Program[operation[t]][section[t] + 1]) \in Nat
    BY <2>2, <2>3 DEF Shapes
  <2> QED BY <1>4, <2>3, <2>4 DEF LockInv, ThreadInv, Leave, Inside, Section
<1>5. ASSUME NEW t \in Threads, Return(t) PROVE LockInv'
  BY <1>5 DEF LockInv, ThreadInv, Return, Inside, Section
<1> QED BY <1>1, <1>2, <1>3, <1>4, <1>5 DEF Next

\* Threads that all wait hold no records_mutex: a writer of the records is
\* granted it, without a writer a reader is, and where nobody wants the records
\* nobody holds anything.
LEMMA InvDeadlockFree == LockInv => DeadlockFree
<1> SUFFICES ASSUME LockInv, NEW w \in Threads, Inside(w),
                    \A t \in Threads : Inside(t) => Waits(t)
             PROVE  \E t \in Threads : GrantedAtOnce(t)
  BY DEF DeadlockFree, GrantedAtOnce, Grantable, Waits
<1>1. \A u \in Threads : Held(u) # {} => Waits(u)
  BY DEF Held
<1>2. \A u \in Threads : \A h \in Held(u) : Wanted(u).lock = "records" /\ h.lock # "records"
  BY <1>1, WaitingShape
<1>3. CASE \E t \in Threads : Waits(t) /\ Wanted(t) = WriteRecords
  BY <1>2, <1>3 DEF GrantedAtOnce, Grantable, Conflict, WriteRecords
<1>4. CASE /\ \E t \in Threads : Waits(t) /\ Wanted(t) = ReadRecords
           /\ \A t \in Threads : Waits(t) => Wanted(t) # WriteRecords
  <2>1. PICK t \in Threads : Waits(t) /\ Wanted(t) = ReadRecords
    BY <1>4
  <2>2. \A u \in Threads : Waits(u) => ~Conflict(Wanted(t), Wanted(u))
    BY <1>4, <2>1, WaitingShape
    DEF Conflict, AuthorityLock, Profiles, ReadRecords, WriteRecords, Persistence
  <2> QED BY <1>2, <2>1, <2>2 DEF GrantedAtOnce, Grantable, Conflict, ReadRecords
<1>5. CASE \A t \in Threads : Waits(t) => Wanted(t) \notin {ReadRecords, WriteRecords}
  <2>1. \A u \in Threads : Waits(u) => Wanted(u).lock # "records" /\ ~Wanted(u).shared
    BY <1>5, WaitingShape DEF AuthorityLock, Profiles, ReadRecords, WriteRecords, Persistence
  <2>2. \A u \in Threads : Held(u) = {}
    BY <1>1, <1>2, <2>1
  <2> QED BY <2>1, <2>2 DEF GrantedAtOnce, Grantable
<1> QED BY <1>3, <1>4, <1>5

\* The engine cannot deadlock: whatever the number of threads and of calls,
\* some thread inside the engine can always go on, even if the shared_mutex
\* makes readers queue behind a waiting writer.
THEOREM NoDeadlock == Spec => []DeadlockFree
<1>1. Init => LockInv
  BY DEF Init, LockInv, ThreadInv, Inside
<1> QED BY <1>1, LockStep, InvDeadlockFree, PTL DEF Spec
=============================================================================
