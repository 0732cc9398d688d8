-------------------------- MODULE PtxLifecycleProofs --------------------------
(***************************************************************************)
(* The lifetimes of PtxLifecycle for any number of opening threads and     *)
(* receivers.  The argument is that the reference counts of the group, of  *)
(* the unit and of the cdev are exact: each is the number of threads that  *)
(* stand where they still refer to the object.                             *)
(***************************************************************************)
EXTENDS PtxLifecycle, FiniteSetTheorems, TLAPS

Count(A) == Cardinality({t \in Threads : pc[t] \in A})

(* The reference the group holds on the unit is dropped by the disconnect. *)
GroupsOwn == IF pc[Disconnect] \in UsesDevice \ {"put_self"} THEN 1 ELSE 0

(* The registration of the cdev ends with cdev_del(), before the           *)
(* disconnect comes to the places it shares with close.                    *)
HoldsCdev == RefersToCdev \cup {"running", "list_del", "unavailable"}
Deleted == IF pc[Disconnect] \in {"put_group", "free_minors", "put_device"} THEN 1 ELSE 0

PcOK ==
    /\ pc \in [Threads -> OpenerPcs \cup DisconnectPcs]
    /\ \A t \in Openers : pc[t] \in OpenerPcs
    /\ pc[Disconnect] \in DisconnectPcs

GroupRefsExact == group_refs = Count(UsesGroup)
DeviceRefsExact == device_refs = Count(UsesDevice) + Count({"opened"}) + GroupsOwn
CdevRefsExact == cdev_refs = Count(HoldsCdev) - Deleted

(* A group is found only while the disconnect has not dropped it, and its  *)
(* minor numbers go back only when nobody refers to it.                    *)
Dead ==
    /\ listed => pc[Disconnect] \in {"running", "list_del"}
    /\ (\E t \in Threads : pc[t] = "free_minors") \/ ~minors_used => group_refs = 0

IInv ==
    /\ TypeOK
    /\ PcOK
    /\ GroupRefsExact
    /\ DeviceRefsExact
    /\ CdevRefsExact
    /\ group_alive <=> group_refs > 0
    /\ device_alive <=> device_refs > 0
    /\ Dead

-----------------------------------------------------------------------------
(* The threads of a unit are finitely many, the disconnect is one of them. *)
LEMMA ThreadFacts ==
    /\ IsFiniteSet(Threads)
    /\ Disconnect \in Threads
    /\ Openers \subseteq Threads
    /\ \A t \in Threads : t \in Openers <=> t # Disconnect
BY OpenersAssumption, FS_AddElement DEF Threads

(* Counting threads by where they stand: a count is a natural number, and  *)
(* positive when somebody is counted.                                      *)
LEMMA CountFacts ==
    ASSUME NEW A
    PROVE  /\ Count(A) \in Nat
           /\ \A t \in Threads : pc[t] \in A => Count(A) > 0
<1> DEFINE H == {t \in Threads : pc[t] \in A}
<1>1. IsFiniteSet(H)
  BY ThreadFacts, FS_Subset
<1>2. Cardinality(H) \in Nat
  BY <1>1, FS_CardinalityType
<1>3. Cardinality(H) = 0 <=> H = {}
  BY <1>1, FS_EmptySet
<1> QED
  BY <1>2, <1>3 DEF Count

(* Two threads that are counted are counted as two.                        *)
LEMMA CountTwo ==
    ASSUME NEW A, NEW t \in Threads, NEW u \in Threads, t # u, pc[t] \in A, pc[u] \in A
    PROVE  Count(A) > 1
<1> DEFINE H == {x \in Threads : pc[x] \in A}
<1>1. IsFiniteSet(H) /\ IsFiniteSet(H \ {u}) /\ Cardinality(H) \in Nat
  BY ThreadFacts, FS_Subset, FS_CardinalityType
<1>2. Cardinality(H \ {u}) = Cardinality(H) - 1
  BY <1>1, FS_RemoveElement
<1>3. Cardinality(H \ {u}) # 0
  <2>1. t \in H \ {u}
    OBVIOUS
  <2> QED
    BY <1>1, <2>1, FS_EmptySet
<1>4. Cardinality(H \ {u}) \in Nat
  BY <1>1, FS_CardinalityType
<1> HIDE DEF H
<1>5. Cardinality(H) > 1
  BY <1>1, <1>2, <1>3, <1>4
<1> QED
  BY <1>5 DEF Count, H

(* One thread moves: the count changes by whether it is counted.           *)
LEMMA CountMove ==
    ASSUME NEW A, NEW t \in Threads, NEW to, PcOK, pc' = [pc EXCEPT ![t] = to]
    PROVE  Count(A)' = Count(A) + (IF to \in A THEN 1 ELSE 0)
                                - (IF pc[t] \in A THEN 1 ELSE 0)
<1> DEFINE H == {x \in Threads : pc[x] \in A}
           K == {x \in Threads : pc'[x] \in A}
<1>1. IsFiniteSet(H) /\ Cardinality(H) \in Nat
  BY ThreadFacts, FS_Subset, FS_CardinalityType
<1>2. \A x \in Threads : pc'[x] = IF x = t THEN to ELSE pc[x]
  BY DEF PcOK
<1>3. Count(A) = Cardinality(H) /\ Count(A)' = Cardinality(K)
  BY DEF Count
<1>4. (to \in A <=> pc[t] \in A) => Cardinality(K) = Cardinality(H)
  <2>1. (to \in A <=> pc[t] \in A) => K = H
    BY <1>2
  <2> QED
    BY <2>1
<1>5. to \in A /\ pc[t] \notin A => Cardinality(K) = Cardinality(H) + 1
  <2>1. to \in A /\ pc[t] \notin A => K = H \cup {t} /\ t \notin H
    BY <1>2
  <2>2. t \notin H => Cardinality(H \cup {t}) = Cardinality(H) + 1
    BY <1>1, FS_AddElement
  <2> QED
    BY <2>1, <2>2
<1>6. to \notin A /\ pc[t] \in A => Cardinality(K) = Cardinality(H) - 1
  <2>1. to \notin A /\ pc[t] \in A => K = H \ {t} /\ t \in H
    BY <1>2
  <2>2. t \in H => Cardinality(H \ {t}) = Cardinality(H) - 1
    BY <1>1, FS_RemoveElement
  <2> QED
    BY <2>1, <2>2
<1> HIDE DEF H, K
<1> QED
  BY <1>1, <1>3, <1>4, <1>5, <1>6

-----------------------------------------------------------------------------
(* What the step of a thread t that moves to pc to does to the counts.     *)
One(P) == IF P THEN 1 ELSE 0
Counted(t, to) ==
    /\ Count(UsesGroup)' = group_refs + One(to \in UsesGroup) - One(pc[t] \in UsesGroup)
    /\ Count(UsesDevice)' = Count(UsesDevice) + One(to \in UsesDevice)
                                              - One(pc[t] \in UsesDevice)
    /\ Count({"opened"})' = Count({"opened"}) + One(to = "opened") - One(pc[t] = "opened")
    /\ Count(HoldsCdev)' = Count(HoldsCdev) + One(to \in HoldsCdev)
                                            - One(pc[t] \in HoldsCdev)
    /\ Count(UsesDevice) \in Nat /\ Count({"opened"}) \in Nat /\ Count(HoldsCdev) \in Nat
    /\ pc[t] \in UsesDevice => Count(UsesDevice) > 0
    /\ pc[t] = "opened" => Count({"opened"}) > 0
    /\ pc[t] \in HoldsCdev => Count(HoldsCdev) > 0
    /\ pc[t] \in UsesGroup => group_refs > 0
    /\ pc[Disconnect] \in UsesGroup => group_refs > 0
    /\ pc'[t] = to
    /\ \A x \in Threads : x # t => pc'[x] = pc[x]

(* Every step of a thread is counted.                                      *)
LEMMA Counts ==
    ASSUME IInv, NEW t \in Threads, NEW to, pc' = [pc EXCEPT ![t] = to]
    PROVE  Counted(t, to)
<1>1. PcOK /\ GroupRefsExact
  BY DEF IInv
<1>2. Count(UsesGroup)' = Count(UsesGroup) + (IF to \in UsesGroup THEN 1 ELSE 0)
                                   - (IF pc[t] \in UsesGroup THEN 1 ELSE 0)
  BY <1>1, CountMove
<1>3. Count(UsesDevice)' = Count(UsesDevice) + (IF to \in UsesDevice THEN 1 ELSE 0)
                                   - (IF pc[t] \in UsesDevice THEN 1 ELSE 0)
  BY <1>1, CountMove
<1>4. Count({"opened"})' = Count({"opened"}) + (IF to \in {"opened"} THEN 1 ELSE 0)
                                   - (IF pc[t] \in {"opened"} THEN 1 ELSE 0)
  BY <1>1, CountMove
<1>5. Count(HoldsCdev)' = Count(HoldsCdev) + (IF to \in HoldsCdev THEN 1 ELSE 0)
                                   - (IF pc[t] \in HoldsCdev THEN 1 ELSE 0)
  BY <1>1, CountMove
<1>6. /\ pc'[t] = to
      /\ \A x \in Threads : x # t => pc'[x] = pc[x]
  BY <1>1 DEF PcOK
<1>7. /\ Count(UsesGroup) \in Nat /\ \A x \in Threads : pc[x] \in UsesGroup => Count(UsesGroup) > 0
      /\ Count(UsesDevice) \in Nat /\ \A x \in Threads : pc[x] \in UsesDevice => Count(UsesDevice) > 0
      /\ Count({"opened"}) \in Nat /\ \A x \in Threads : pc[x] \in {"opened"} => Count({"opened"}) > 0
      /\ Count(HoldsCdev) \in Nat /\ \A x \in Threads : pc[x] \in HoldsCdev => Count(HoldsCdev) > 0
  BY CountFacts
<1> QED
  BY <1>1, <1>2, <1>3, <1>4, <1>5, <1>6, <1>7, ThreadFacts DEF GroupRefsExact, Counted, One

(* Where a thread may stand.                                               *)
Pcs(t) == IF t = Disconnect THEN DisconnectPcs ELSE OpenerPcs

(* What a step of thread t to pc to may do to the rest of the state.       *)
DataOK ==
    /\ rx \in [Openers -> Receivers]
    /\ {ctx_lock, group_lock} \subseteq Threads \cup {Nobody}
    /\ {listed, available, device_alive, group_alive, minors_used} \subseteq BOOLEAN
    /\ open_flag \subseteq Receivers
GroupCount(t, to) ==
    /\ group_refs' = group_refs + One(to \in UsesGroup) - One(pc[t] \in UsesGroup)
    /\ group_alive' <=> group_alive /\ group_refs' > 0
    /\ group_refs = 0 => group_refs' = 0
DeviceCount(t, to) ==
    /\ device_refs' = device_refs + One(to \in UsesDevice) - One(pc[t] \in UsesDevice)
                       + One(to = "opened") - One(pc[t] = "opened")
                       + GroupsOwn' - GroupsOwn
    /\ device_alive' <=> device_alive /\ device_refs' > 0
    /\ device_refs = 0 => device_refs' = 0
CdevCount(t, to) ==
    cdev_refs' = cdev_refs + One(to \in HoldsCdev) - One(pc[t] \in HoldsCdev)
                           - Deleted' + Deleted
MinorStep(t, to) ==
    /\ listed' => listed /\ (t = Disconnect => to = "list_del")
    /\ to = "free_minors" => group_refs' = 0
    /\ ~minors_used' => ~minors_used \/ pc[t] = "free_minors"

(* A step of thread t that changes the counts by what t holds before and   *)
(* after it, releases an object with its last reference and gives minor    *)
(* numbers back after the group's release only, keeps the invariant.       *)
LEMMA StepKeeps ==
    ASSUME IInv, NEW t \in Threads, NEW to \in Pcs(t), pc' = [pc EXCEPT ![t] = to],
           GroupCount(t, to), DeviceCount(t, to), CdevCount(t, to), MinorStep(t, to),
           DataOK'
    PROVE  IInv'
<1>0. Counted(t, to) /\ GroupsOwn \in {0, 1} /\ GroupsOwn' \in {0, 1}
  BY Counts DEF GroupsOwn
<1>1. PcOK'
  BY <1>0, ThreadFacts DEF IInv, PcOK, Pcs, Counted
<1>2. GroupRefsExact' /\ group_refs' \in Nat
  <2>1. group_refs \in Nat
    BY DEF IInv, TypeOK
  <2> QED
    BY <1>0, <2>1 DEF GroupRefsExact, Counted, One, GroupCount
<1>3. DeviceRefsExact' /\ device_refs' \in Nat
  <2>1. device_refs = Count(UsesDevice) + Count({"opened"}) + GroupsOwn
    BY DEF IInv, DeviceRefsExact
  <2>2. Count(UsesDevice)' \in Nat /\ Count({"opened"})' \in Nat
    BY <1>0 DEF Counted, One
  <2>3. device_refs' = Count(UsesDevice)' + Count({"opened"})' + GroupsOwn'
    BY <1>0, <2>1 DEF Counted, One, DeviceCount
  <2>4. device_refs' \in Nat
    BY <1>0, <2>2, <2>3
  <2> QED
    BY <2>3, <2>4 DEF DeviceRefsExact
<1>4. group_alive' <=> group_refs' > 0
  BY <1>2 DEF IInv, TypeOK, GroupCount
<1>5. device_alive' <=> device_refs' > 0
  BY <1>3 DEF IInv, TypeOK, DeviceCount
<1>6. Dead'
  <2>1. listed' => pc'[Disconnect] \in {"running", "list_del"}
    BY <1>0, ThreadFacts DEF IInv, Dead, Counted, MinorStep
  <2>2. ASSUME NEW x \in Threads, pc'[x] = "free_minors"
        PROVE  group_refs' = 0
    BY <1>0, <2>2 DEF IInv, Dead, Counted, MinorStep, GroupCount
  <2>3. ~minors_used' => group_refs' = 0
    BY DEF IInv, Dead, MinorStep, GroupCount
  <2> QED
    BY <2>1, <2>2, <2>3 DEF Dead
<1>7. CdevRefsExact' /\ cdev_refs' \in Nat
  <2>1. Deleted \in {0, 1} /\ Deleted' \in {0, 1}
    BY DEF Deleted
  <2>2. cdev_refs' = Count(HoldsCdev)' - Deleted' /\ Count(HoldsCdev)' \in Nat
    <3>1. cdev_refs = Count(HoldsCdev) - Deleted /\ Count(HoldsCdev) \in Nat
      BY <1>0 DEF IInv, CdevRefsExact, Counted
    <3>2. Count(HoldsCdev)' \in Nat
      BY <1>0, <3>1 DEF Counted, One
    <3> QED
      BY <1>0, <2>1, <3>1, <3>2 DEF CdevCount, Counted, One
  <2>3. Deleted' = 1 => Count(HoldsCdev)' > 0
    <3> DEFINE K == {x \in Threads : pc'[x] \in HoldsCdev}
    <3>1. IsFiniteSet(K)
      BY ThreadFacts, FS_Subset
    <3>2. Deleted' = 1 => Disconnect \in K
      BY ThreadFacts DEF Deleted, HoldsCdev, RefersToCdev, OpenerPcs
    <3>3. Deleted' = 1 => Cardinality(K) # 0
      BY <3>1, <3>2, FS_EmptySet
    <3>4. Count(HoldsCdev)' = Cardinality(K)
      BY DEF Count
    <3> HIDE DEF K
    <3> QED
      BY <2>2, <3>3, <3>4
  <2> QED
    BY <2>1, <2>2, <2>3 DEF CdevRefsExact
<1>8. TypeOK'
  BY <1>1, <1>2, <1>3, <1>7 DEF TypeOK, PcOK, DataOK
<1> QED
  BY <1>1, <1>2, <1>3, <1>4, <1>5, <1>6, <1>7, <1>8 DEF IInv

(* open(), close() and a failed open of a thread t.                        *)
LEMMA OpenerStep ==
    ASSUME IInv, NEW t \in Openers,
           \/ OpenLookup(t) \/ OpenNoEntry(t) \/ OpenLockGroup(t) \/ OpenClaim(t)
           \/ OpenDone(t) \/ OpenFail(t) \/ Close(t)
    PROVE  IInv'
<1> USE ThreadFacts
<1>0. /\ group_refs \in Nat /\ device_refs \in Nat /\ cdev_refs \in Nat
      /\ pc \in [Threads -> OpenerPcs \cup DisconnectPcs]
      /\ t \in Threads /\ t # Disconnect /\ pc[t] \in OpenerPcs
  BY DEF IInv, TypeOK, PcOK
<1>1. PICK to \in OpenerPcs : pc' = [pc EXCEPT ![t] = to]
  BY DEF OpenLookup, OpenNoEntry, OpenLockGroup, OpenClaim, OpenDone, OpenFail, Close,
     Goto, OpenerPcs
<1>2. /\ Counted(t, to) /\ GroupsOwn' = GroupsOwn /\ GroupsOwn \in {0, 1} /\ to \in Pcs(t)
      /\ Deleted' = Deleted /\ Deleted \in {0, 1}
  <2>1. Counted(t, to)
    BY <1>0, <1>1, Counts
  <2> QED
    BY <1>0, <2>1 DEF Counted, GroupsOwn, Deleted, Pcs
<1>9. CdevCount(t, to)
  <2>1. pc[t] # "closed" /\ to # "closed" /\ cdev_refs' = cdev_refs
    BY <1>0, <1>2 DEF Counted, OpenLookup, OpenNoEntry, OpenLockGroup, OpenClaim, OpenDone,
       OpenFail, Close, PutDevice, Goto, refs
  <2>2. pc[t] \in HoldsCdev /\ to \in HoldsCdev
    BY <1>0, <1>1, <2>1 DEF HoldsCdev, RefersToCdev
  <2> QED
    BY <1>0, <1>2, <2>1, <2>2 DEF CdevCount, One
<1>3. CASE OpenLookup(t)
  <2>1. to = "lock_group" /\ pc[t] = "vfs_open"
    BY <1>0, <1>2, <1>3 DEF OpenLookup, Goto, Counted
  <2>2. pc[Disconnect] \in {"running", "list_del"}
    BY <1>3 DEF OpenLookup, IInv, Dead
  <2>3. group_refs > 0 /\ device_refs > 0
    <3>1. group_refs > 0
      BY <1>2, <2>2 DEF Counted, UsesGroup
    <3>2. GroupsOwn = 1
      BY <2>2 DEF GroupsOwn, UsesDevice, UsesGroup
    <3> QED
      BY <1>2, <3>1, <3>2 DEF Counted, IInv, DeviceRefsExact
  <2>4. GroupCount(t, to)
    BY <1>0, <1>3, <2>1, <2>3 DEF OpenLookup, GroupCount, One, UsesGroup, IInv
  <2>5. DeviceCount(t, to)
    BY <1>0, <1>2, <1>3, <2>1, <2>3 DEF OpenLookup, DeviceCount, One, UsesGroup,
       UsesDevice, IInv
  <2>6. MinorStep(t, to) /\ DataOK'
    BY <1>0, <1>3, <2>1 DEF OpenLookup, MinorStep, DataOK, IInv, TypeOK
  <2> QED
    BY <1>0, <1>1, <1>2, <1>9, <2>4, <2>5, <2>6, StepKeeps
<1>4. CASE OpenNoEntry(t) \/ OpenLockGroup(t) \/ OpenClaim(t) \/ OpenFail(t)
  <2>1. /\ \/ pc[t] = "vfs_open" /\ to = "cdev_put"
           \/ pc[t] = "lock_group" /\ to = "claim"
           \/ pc[t] = "claim" /\ to \in {"open_ops", "put_group"}
           \/ pc[t] = "open_ops" /\ to = "put_group"
        /\ UNCHANGED <<rx, listed, available, refs, minors_used>>
    BY <1>0, <1>2, <1>4 DEF OpenNoEntry, OpenLockGroup, OpenClaim, OpenFail, Goto, Counted
  <2>2. GroupCount(t, to)
    BY <1>0, <2>1 DEF refs, GroupCount, One, UsesGroup, IInv
  <2>3. DeviceCount(t, to)
    BY <1>0, <1>2, <2>1 DEF refs, DeviceCount, One, UsesGroup, UsesDevice, IInv
  <2>4. MinorStep(t, to)
    BY <1>0, <2>1 DEF MinorStep
  <2>5. DataOK'
    <3>1. {ctx_lock', group_lock'} \subseteq Threads \cup {Nobody}
      BY <1>0, <1>4 DEF OpenNoEntry, OpenLockGroup, OpenClaim, OpenFail, locks, IInv, TypeOK
    <3>2. open_flag' \subseteq open_flag \cup {rx[t]} /\ rx[t] \in Receivers
      BY <1>4 DEF OpenNoEntry, OpenLockGroup, OpenClaim, OpenFail, IInv, TypeOK
    <3> QED
      BY <2>1, <3>1, <3>2 DEF refs, DataOK, IInv, TypeOK
  <2> QED
    BY <1>0, <1>1, <1>2, <1>9, <2>2, <2>3, <2>4, <2>5,
       StepKeeps
<1>5. CASE OpenDone(t)
  <2>1. to = "opened" /\ pc[t] = "open_ops"
    BY <1>0, <1>2, <1>5 DEF OpenDone, Goto, Counted
  <2>2. device_refs > 0
    BY <1>2, <2>1 DEF Counted, UsesDevice, UsesGroup, IInv, DeviceRefsExact
  <2>3. GroupCount(t, to)
    BY <1>0, <1>5, <2>1 DEF OpenDone, GroupCount, One, UsesGroup, IInv
  <2>4. DeviceCount(t, to)
    BY <1>0, <1>2, <1>5, <2>1, <2>2 DEF OpenDone, DeviceCount, One, UsesGroup,
       UsesDevice, IInv
  <2>5. MinorStep(t, to) /\ DataOK'
    BY <1>0, <1>5, <2>1 DEF OpenDone, locks, MinorStep, DataOK, IInv, TypeOK
  <2> QED
    BY <1>0, <1>1, <1>2, <1>9, <2>3, <2>4, <2>5, StepKeeps
<1>6. CASE Close(t)
  <2>1. to = "clear_flag" /\ pc[t] = "opened"
    BY <1>0, <1>2, <1>6 DEF Close, Goto, Counted
  <2>2. device_refs > 1
    BY <1>2, <2>1 DEF Counted, UsesDevice, UsesGroup, IInv, DeviceRefsExact
  <2>3. GroupCount(t, to)
    BY <1>0, <1>6, <2>1 DEF Close, PutDevice, GroupCount, One, UsesGroup, IInv
  <2>4. DeviceCount(t, to)
    <3>1. device_refs' = device_refs - 1 /\ (device_alive' <=> device_alive)
      BY <1>6, <2>2 DEF Close, PutDevice, IInv
    <3> QED
      BY <1>0, <1>2, <2>1, <2>2, <3>1 DEF DeviceCount, One, UsesGroup, UsesDevice
  <2>5. MinorStep(t, to) /\ DataOK'
    BY <1>0, <1>6, <2>1 DEF Close, PutDevice, locks, MinorStep, DataOK, IInv, TypeOK
  <2> QED
    BY <1>0, <1>1, <1>2, <1>9, <2>3, <2>4, <2>5, StepKeeps
<1> QED
  BY <1>3, <1>4, <1>5, <1>6

(* What the VFS does before ptx_chrdev_open() and after release.           *)
LEMMA VfsKeeps ==
    ASSUME IInv, NEW t \in Openers, VfsOpen(t) \/ CdevPut(t)
    PROVE  IInv'
<1> USE ThreadFacts
<1>0. /\ group_refs \in Nat /\ device_refs \in Nat /\ cdev_refs \in Nat
      /\ pc \in [Threads -> OpenerPcs \cup DisconnectPcs]
      /\ t \in Threads /\ t # Disconnect
      /\ DataOK
  BY DEF IInv, TypeOK, PcOK, DataOK
<1>1. PICK to : /\ pc' = [pc EXCEPT ![t] = to]
               /\ \/ pc[t] = "closed" /\ to = "vfs_open" /\ cdev_refs' = cdev_refs + 1
                  \/ pc[t] = "cdev_put" /\ to = "closed" /\ cdev_refs' = cdev_refs - 1
  BY DEF VfsOpen, CdevPut, Goto
<1>2. /\ Counted(t, to) /\ GroupsOwn' = GroupsOwn /\ GroupsOwn \in {0, 1}
      /\ Deleted' = Deleted /\ Deleted \in {0, 1}
  <2>1. Counted(t, to)
    BY <1>0, <1>1, Counts
  <2> QED
    BY <1>0, <2>1 DEF Counted, GroupsOwn, Deleted
<1>3. to \in Pcs(t)
  BY <1>0, <1>1 DEF Pcs, OpenerPcs
<1>4. UNCHANGED <<locks, listed, available, open_flag, device_refs, group_refs,
                  device_alive, group_alive, minors_used>>
  BY DEF VfsOpen, CdevPut
<1>5. DataOK'
  <2>1. rx' \in [Openers -> Receivers]
    BY <1>0 DEF VfsOpen, CdevPut, DataOK
  <2> QED
    BY <1>0, <1>4, <2>1 DEF DataOK, locks
<1>6. GroupCount(t, to)
  BY <1>0, <1>1, <1>4 DEF GroupCount, One, UsesGroup, IInv
<1>7. DeviceCount(t, to)
  BY <1>0, <1>1, <1>2, <1>4 DEF DeviceCount, One, UsesGroup, UsesDevice, IInv
<1>8. CdevCount(t, to)
  BY <1>0, <1>1, <1>2 DEF CdevCount, One, HoldsCdev, RefersToCdev, OpenerPcs
<1>9. MinorStep(t, to)
  BY <1>0, <1>1, <1>4 DEF MinorStep
<1> QED
  BY <1>0, <1>1, <1>3, <1>5, <1>6, <1>7, <1>8, <1>9, StepKeeps

(* The tail of ptx_chrdev_release() and of a failed open, which the        *)
(* disconnect shares: the group's reference, then the unit's.              *)
LEMMA TailKeeps ==
    ASSUME IInv, NEW t \in Threads, TailStep(t)
    PROVE  IInv'
<1> USE ThreadFacts
<1>0. /\ group_refs \in Nat /\ device_refs \in Nat /\ cdev_refs \in Nat
      /\ pc \in [Threads -> OpenerPcs \cup DisconnectPcs]
      /\ pc[t] \in Pcs(t)
      /\ DataOK
  BY DEF IInv, TypeOK, PcOK, Pcs, DataOK
<1>1. PICK to : /\ pc' = [pc EXCEPT ![t] = to]
               /\ \/ pc[t] = "clear_flag" /\ to = "put_group" /\ ClearFlag(t)
                  \/ pc[t] = "put_group" /\ to = "free_minors" /\ group_refs = 1
                     /\ DropGroup(t)
                  \/ pc[t] = "put_group" /\ to = "put_device" /\ group_refs # 1
                     /\ DropGroup(t)
                  \/ pc[t] = "free_minors" /\ to = "put_device" /\ FreeMinors(t)
                  \/ pc[t] = "put_device" /\ t = Disconnect /\ to = "put_self"
                     /\ DropDevice(t)
                  \/ pc[t] = "put_device" /\ t # Disconnect /\ to = "cdev_put"
                     /\ DropDevice(t)
  BY DEF TailStep, ClearFlag, DropGroup, PutGroup, FreeMinors, DropDevice, Goto
<1>2. Counted(t, to) /\ GroupsOwn \in {0, 1}
  BY <1>0, <1>1, Counts DEF GroupsOwn
<1>3. to \in Pcs(t)
  BY <1>0, <1>1 DEF Pcs, OpenerPcs, DisconnectPcs
<1>4. GroupsOwn' = IF t = Disconnect /\ to = "put_self" THEN GroupsOwn - 1 ELSE GroupsOwn
  BY <1>1, <1>2 DEF Counted, GroupsOwn, UsesDevice, UsesGroup
<1>10. CdevCount(t, to)
  <2>1. cdev_refs' = cdev_refs
    BY <1>1 DEF ClearFlag, DropGroup, PutGroup, PutDevice, FreeMinors, DropDevice, refs
  <2>2. t # Disconnect => Deleted' = Deleted
    BY <1>2 DEF Counted, Deleted
  <2>3. pc[t] \in HoldsCdev
    BY <1>1 DEF HoldsCdev, RefersToCdev, OpenerPcs
  <2>4. t # Disconnect => to \in HoldsCdev
    BY <1>1 DEF HoldsCdev, RefersToCdev, OpenerPcs
  <2>5. Deleted \in {0, 1}
    BY DEF Deleted
  <2>6. CASE t # Disconnect
    BY <1>0, <2>1, <2>2, <2>3, <2>4, <2>5, <2>6 DEF CdevCount, One
  <2>7. CASE t = Disconnect
    <3>1. pc[t] # "clear_flag"
      BY <1>0, <2>7 DEF Pcs, DisconnectPcs
    <3>2. Deleted = 1 /\ Deleted' = One(to \in HoldsCdev)
      BY <1>1, <1>2, <2>7, <3>1 DEF Counted, Deleted, One, HoldsCdev, RefersToCdev, OpenerPcs
    <3>3. One(to \in HoldsCdev) \in {0, 1}
      BY DEF One
    <3>4. One(pc[t] \in HoldsCdev) = 1
      BY <2>3 DEF One
    <3> QED
      BY <1>0, <2>1, <3>2, <3>3, <3>4 DEF CdevCount
  <2> QED
    BY <2>6, <2>7
<1>5. MinorStep(t, to)
  BY <1>0, <1>1 DEF MinorStep, ClearFlag, DropGroup, PutGroup, FreeMinors, DropDevice,
     IInv, Dead
<1>6. DataOK'
  <2>1. /\ UNCHANGED <<rx, locks, listed, available>>
        /\ open_flag' \subseteq open_flag
        /\ minors_used' \in {minors_used, FALSE}
    BY <1>1 DEF ClearFlag, DropGroup, FreeMinors, DropDevice
  <2>2. {device_alive', group_alive'} \subseteq BOOLEAN
    BY <1>0, <1>1 DEF ClearFlag, DropGroup, PutGroup, PutDevice, FreeMinors, DropDevice,
       refs, DataOK
  <2> QED
    BY <1>0, <2>1, <2>2 DEF DataOK, locks
<1>7. CASE pc[t] \in {"clear_flag", "free_minors"}
  <2>1. UNCHANGED refs
    BY <1>1, <1>7 DEF ClearFlag, FreeMinors
  <2>2. GroupCount(t, to)
    BY <1>0, <1>1, <1>7, <2>1 DEF refs, GroupCount, One, UsesGroup, IInv
  <2>3. DeviceCount(t, to)
    BY <1>0, <1>1, <1>2, <1>4, <1>7, <2>1 DEF refs, DeviceCount, One, UsesGroup,
       UsesDevice, IInv
  <2> QED
    BY <1>1, <1>3, <1>5, <1>6, <1>10, <2>2, <2>3, StepKeeps
<1>8. CASE pc[t] = "put_group"
  <2>1. /\ group_refs' = group_refs - 1
        /\ group_alive' <=> group_alive /\ group_refs > 1
        /\ UNCHANGED <<device_refs, device_alive>>
    BY <1>1, <1>8 DEF DropGroup, PutGroup
  <2>2. GroupCount(t, to)
    BY <1>0, <1>1, <1>2, <1>8, <2>1 DEF GroupCount, Counted, One, UsesGroup, IInv
  <2>3. DeviceCount(t, to)
    BY <1>0, <1>1, <1>2, <1>4, <1>8, <2>1 DEF DeviceCount, One, UsesGroup,
       UsesDevice, IInv
  <2> QED
    BY <1>1, <1>3, <1>5, <1>6, <1>10, <2>2, <2>3, StepKeeps
<1>9. CASE pc[t] = "put_device"
  <2>1. /\ device_refs' = device_refs - 1
        /\ device_alive' <=> device_alive /\ device_refs > 1
        /\ UNCHANGED <<group_refs, group_alive>>
    BY <1>1, <1>9 DEF DropDevice, PutDevice
  <2>2. GroupCount(t, to)
    BY <1>0, <1>1, <1>9, <2>1 DEF GroupCount, One, UsesGroup, IInv
  <2>3. device_refs > 0
    BY <1>2, <1>9 DEF Counted, UsesDevice, IInv, DeviceRefsExact
  <2>4. DeviceCount(t, to)
    BY <1>0, <1>1, <1>2, <1>4, <1>9, <2>1, <2>3 DEF DeviceCount, One, UsesGroup,
       UsesDevice, IInv
  <2> QED
    BY <1>1, <1>3, <1>5, <1>6, <1>10, <2>2, <2>4, StepKeeps
<1> QED
  BY <1>1, <1>7, <1>8, <1>9

(* The steps of px4_usb_disconnect() of its own.                           *)
LEMMA DisconnectKeeps ==
    ASSUME IInv, Unplug \/ Unlist \/ MakeUnavailable \/ DropSelf \/ FreeUnit
    PROVE  IInv'
<1> DEFINE t == Disconnect
<1> USE ThreadFacts
<1>0. /\ group_refs \in Nat /\ device_refs \in Nat /\ cdev_refs \in Nat
      /\ pc \in [Threads -> OpenerPcs \cup DisconnectPcs]
      /\ DataOK
  BY DEF IInv, TypeOK, DataOK
<1>1. PICK to : /\ pc' = [pc EXCEPT ![t] = to]
               /\ \/ pc[t] = "running" /\ to = "list_del" /\ Unplug
                  \/ pc[t] = "list_del" /\ to = "unavailable" /\ Unlist
                  \/ pc[t] = "unavailable" /\ to = "put_group" /\ MakeUnavailable
                  \/ pc[t] = "put_self" /\ to = "wait" /\ DropSelf
                  \/ pc[t] = "wait" /\ to = "freed" /\ FreeUnit
  BY DEF Unplug, Unlist, MakeUnavailable, DropSelf, FreeUnit, Goto
<1>2. Counted(t, to) /\ GroupsOwn \in {0, 1}
  BY <1>0, <1>1, Counts DEF GroupsOwn
<1>3. to \in Pcs(t)
  BY <1>1 DEF Pcs, DisconnectPcs
<1>4. GroupsOwn' = GroupsOwn
  BY <1>1, <1>2 DEF Counted, GroupsOwn, UsesDevice, UsesGroup
<1>9. CdevCount(t, to)
  <2>1. Deleted \in {0, 1}
    BY DEF Deleted
  <2>2. CASE MakeUnavailable
    <3>1. pc[t] = "unavailable" /\ to = "put_group" /\ cdev_refs' = cdev_refs - 1
      BY <1>1, <1>2, <2>2 DEF MakeUnavailable, Goto, Counted
    <3>2. Deleted = 0 /\ Deleted' = 1
      BY <1>2, <3>1 DEF Counted, Deleted
    <3> QED
      BY <1>0, <3>1, <3>2 DEF CdevCount, One, HoldsCdev, RefersToCdev, OpenerPcs
  <2>3. CASE ~MakeUnavailable
    <3>1. cdev_refs' = cdev_refs
      BY <1>1, <2>3 DEF Unplug, Unlist, DropSelf, FreeUnit, PutDevice, refs
    <3>2. Deleted = 0 /\ Deleted' = 0
      BY <1>1, <1>2, <2>3 DEF Counted, Deleted
    <3>3. to \in HoldsCdev <=> pc[t] \in HoldsCdev
      BY <1>1, <2>3 DEF HoldsCdev, RefersToCdev, OpenerPcs
    <3> QED
      BY <1>0, <3>1, <3>2, <3>3 DEF CdevCount, One
  <2> QED
    BY <2>2, <2>3
<1>5. MinorStep(t, to)
  BY <1>1 DEF MinorStep, Unplug, Unlist, MakeUnavailable, DropSelf, FreeUnit, IInv, Dead
<1>6. DataOK'
  <2>1. /\ UNCHANGED <<rx, locks, open_flag, minors_used>>
        /\ listed' \in {listed, FALSE} /\ available' \in {available, FALSE}
    BY <1>1 DEF Unplug, Unlist, MakeUnavailable, DropSelf, FreeUnit
  <2>2. {device_alive', group_alive'} \subseteq BOOLEAN
    BY <1>0, <1>1 DEF Unplug, Unlist, MakeUnavailable, DropSelf, FreeUnit, PutDevice,
       refs, DataOK
  <2> QED
    BY <1>0, <2>1, <2>2 DEF DataOK, locks
<1>7. CASE pc[t] # "put_self"
  <2>1. UNCHANGED <<device_refs, group_refs, device_alive, group_alive>>
    BY <1>1, <1>7 DEF Unplug, Unlist, MakeUnavailable, FreeUnit, refs
  <2>2. GroupCount(t, to)
    BY <1>0, <1>1, <1>7, <2>1 DEF GroupCount, One, UsesGroup, IInv
  <2>3. DeviceCount(t, to)
    BY <1>0, <1>1, <1>2, <1>4, <1>7, <2>1 DEF DeviceCount, One, UsesGroup,
       UsesDevice, IInv
  <2> QED
    BY <1>1, <1>3, <1>5, <1>6, <1>9, <2>2, <2>3, StepKeeps
<1>8. CASE pc[t] = "put_self"
  <2>1. /\ device_refs' = device_refs - 1
        /\ device_alive' <=> device_alive /\ device_refs > 1
        /\ UNCHANGED <<group_refs, group_alive>>
    BY <1>1, <1>8 DEF DropSelf, PutDevice
  <2>2. GroupCount(t, to)
    BY <1>0, <1>1, <1>8, <2>1 DEF GroupCount, One, UsesGroup, IInv
  <2>3. device_refs > 0
    BY <1>2, <1>8 DEF Counted, UsesDevice, IInv, DeviceRefsExact
  <2>4. DeviceCount(t, to)
    BY <1>0, <1>1, <1>2, <1>4, <1>8, <2>1, <2>3 DEF DeviceCount, One, UsesGroup,
       UsesDevice, IInv
  <2> QED
    BY <1>1, <1>3, <1>5, <1>6, <1>9, <2>2, <2>4, StepKeeps
<1> QED
  BY <1>7, <1>8

-----------------------------------------------------------------------------
(* After probe the two references on the unit and the one on the group are *)
(* those of the USB side and of the group itself, and the cdev is counted  *)
(* once for its registration.                                              *)
LEMMA InitInvariant == Init => IInv
<1> SUFFICES ASSUME Init PROVE IInv
  OBVIOUS
<1> USE ThreadFacts
<1>1. PcOK
  BY DEF Init, PcOK, OpenerPcs, DisconnectPcs
<1>2. TypeOK
  BY <1>1 DEF Init, TypeOK, PcOK
<1>3. /\ {x \in Threads : pc[x] \in UsesGroup} = {Disconnect}
      /\ {x \in Threads : pc[x] \in UsesDevice} = {Disconnect}
      /\ {x \in Threads : pc[x] \in {"opened"}} = {}
      /\ {x \in Threads : pc[x] \in HoldsCdev} = {Disconnect}
  BY DEF Init, UsesGroup, UsesDevice, HoldsCdev, RefersToCdev
<1>4. /\ Count(UsesGroup) = 1 /\ Count(UsesDevice) = 1 /\ Count({"opened"}) = 0
      /\ Count(HoldsCdev) = 1
  BY <1>3, FS_Singleton, FS_EmptySet DEF Count
<1>5. GroupsOwn = 1 /\ Deleted = 0
  BY DEF Init, GroupsOwn, Deleted, UsesDevice, UsesGroup
<1>6. GroupRefsExact /\ DeviceRefsExact /\ CdevRefsExact
  BY <1>4, <1>5 DEF Init, GroupRefsExact, DeviceRefsExact, CdevRefsExact
<1>7. Dead
  BY DEF Init, Dead
<1> QED
  BY <1>1, <1>2, <1>6, <1>7 DEF Init, IInv

(* Every step of every thread keeps the counts exact.                      *)
LEMMA NextInvariant == IInv /\ [Next]_vars => IInv'
<1> SUFFICES ASSUME IInv, [Next]_vars PROVE IInv'
  OBVIOUS
<1>1. CASE UNCHANGED vars
  BY <1>1 DEF vars, locks, refs, IInv, TypeOK, PcOK, GroupRefsExact, DeviceRefsExact,
     CdevRefsExact, Count, GroupsOwn, Deleted, Dead
<1>2. ASSUME NEW t \in Openers, OpenStep(t) \/ Close(t) PROVE IInv'
  BY <1>2, OpenerStep DEF OpenStep
<1>5. ASSUME NEW t \in Openers, VfsOpen(t) \/ CdevPut(t) PROVE IInv'
  BY <1>5, VfsKeeps
<1>3. ASSUME NEW t \in Threads, TailStep(t) PROVE IInv'
  BY <1>3, TailKeeps
<1>4. CASE Unplug \/ Unlist \/ MakeUnavailable \/ DropSelf \/ FreeUnit
  BY <1>4, DisconnectKeeps
<1> QED
  BY <1>1, <1>2, <1>3, <1>4, <1>5, ThreadFacts DEF Next, DisconnectStep

(* The three reference counts are exact in every reachable state.          *)
THEOREM Invariance == Spec => []IInv
BY InitInvariant, NextInvariant, PTL DEF Spec

(* Every reachable state of open, close and disconnect is well typed; in   *)
(* particular no reference count goes below zero.                          *)
THEOREM TypeCorrect == Spec => []TypeOK
<1>1. IInv => TypeOK
  BY DEF IInv
<1> QED
  BY <1>1, Invariance, PTL

(* However many threads open and close files while the unit is pulled out, *)
(* the driver's own code is never about to use a group or a unit whose     *)
(* release function has run, the unit outlives its group, and the cdev's   *)
(* own count stays above 0 while a file refers to it.  What the VFS does   *)
(* with the cdev is left out because it is not so: the memory of the cdev  *)
(* goes with the group's count and not with its own (CdevOutlivesFiles).   *)
THEOREM DriverUsesNothingFreed == Spec => []DriverUsesAlive
<1>1. ASSUME IInv PROVE DriverUsesAlive
  <2>1. /\ group_refs = Count(UsesGroup) /\ Count(UsesGroup) \in Nat
        /\ \A x \in Threads : pc[x] \in UsesGroup => Count(UsesGroup) > 0
    BY <1>1, CountFacts DEF IInv, GroupRefsExact
  <2>2. /\ device_refs = Count(UsesDevice) + Count({"opened"}) + GroupsOwn
        /\ Count(UsesDevice) \in Nat /\ Count({"opened"}) \in Nat
        /\ GroupsOwn \in {0, 1}
        /\ \A x \in Threads : pc[x] \in UsesDevice => Count(UsesDevice) > 0
    BY <1>1, CountFacts DEF IInv, DeviceRefsExact, GroupsOwn
  <2>3. \A x \in Threads : /\ pc[x] \in UsesGroup => group_alive
                           /\ pc[x] \in UsesDevice => device_alive
    BY <1>1, <2>1, <2>2 DEF IInv
  <2>4. ASSUME group_alive PROVE device_alive
    <3>1. Count(UsesGroup) # 0
      BY <1>1, <2>1, <2>4 DEF IInv
    <3>2. {x \in Threads : pc[x] \in UsesGroup} # {}
      BY <3>1, FS_EmptySet DEF Count
    <3>3. PICK x \in Threads : pc[x] \in UsesGroup
      BY <3>2
    <3> QED
      BY <2>3, <3>3 DEF UsesDevice
  <2>5. ASSUME NEW t \in Openers, pc[t] \in RefersToCdev PROVE cdev_refs > 0
    <3>1. /\ t \in Threads /\ Disconnect \in Threads /\ t # Disconnect
          /\ pc[t] \in HoldsCdev
      BY <2>5, ThreadFacts DEF HoldsCdev
    <3>2. Count(HoldsCdev) \in Nat /\ Count(HoldsCdev) > 0
      BY <3>1, CountFacts
    <3>3. Deleted = 1 => Count(HoldsCdev) > 1
      <4>1. Deleted = 1 => pc[Disconnect] \in HoldsCdev
        BY DEF Deleted, HoldsCdev, RefersToCdev, OpenerPcs
      <4> QED
        BY <3>1, <4>1, CountTwo
    <3>4. Deleted \in {0, 1} /\ cdev_refs = Count(HoldsCdev) - Deleted
      BY <1>1 DEF Deleted, IInv, CdevRefsExact
    <3> QED
      BY <3>2, <3>3, <3>4
  <2> QED
    BY <2>3, <2>4, <2>5 DEF DriverUsesAlive
<1> QED
  BY <1>1, Invariance, PTL

(* The minor numbers of a unit are not free for another one while a file   *)
(* on them is open or being opened.                                        *)
THEOREM MinorsHeld == Spec => []MinorsHeldWhileOpen
<1>1. ASSUME IInv PROVE MinorsHeldWhileOpen
  <2>1. ASSUME NEW t \in Openers, pc[t] \in {"open_ops", "opened"}
        PROVE  minors_used
    <3>1. pc[t] \in UsesGroup /\ t \in Threads
      BY <2>1, ThreadFacts DEF UsesGroup
    <3>2. group_refs > 0
      BY <1>1, <3>1, CountFacts DEF IInv, GroupRefsExact
    <3> QED
      BY <1>1, <3>2 DEF IInv, Dead
  <2> QED
    BY <2>1 DEF MinorsHeldWhileOpen
<1> QED
  BY <1>1, Invariance, PTL
=============================================================================
