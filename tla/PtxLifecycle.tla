----------------------------- MODULE PtxLifecycle -----------------------------
(***************************************************************************)
(* Lifetimes in the Linux driver: a unit (struct px4_device, freed by the  *)
(* USB disconnect once px4_device_release() has completed), its group of   *)
(* character devices (struct ptx_chrdev_group) and the files opened on its *)
(* receivers, while open(), close() and the USB disconnect race.           *)
(*                                                                         *)
(* Every section between two lock operations and every kref_put() is a     *)
(* step.  ctx_lock and group_lock name the holder of ctx->lock and of      *)
(* group->lock; the hand-over of open (ctx->lock kept until group->lock is *)
(* held) is modelled.                                                      *)
(*                                                                         *)
(* The group embeds its struct cdev.  The VFS (external, from how          *)
(* cdev_init(), cdev_add() and cdev_del() are used) refers to the cdev     *)
(* before it calls ptx_chrdev_open() and drops that reference after a      *)
(* failed open or after ptx_chrdev_release() has returned.  cdev_refs is   *)
(* the cdev's own count; its memory goes with the group all the same, and  *)
(* what becomes of the count in freed memory is not followed: it counts    *)
(* on, as if the memory had not been given to somebody else.               *)
(***************************************************************************)
EXTENDS Naturals, FiniteSets

CONSTANTS
    Openers,    \* threads that open and close files
    Receivers,  \* receivers of the unit
    Nobody      \* no holder

Disconnect == "disconnect"    \* the thread in px4_usb_disconnect()

ASSUME OpenersAssumption == /\ IsFiniteSet(Openers)
                            /\ Disconnect \notin Openers
                            /\ Nobody \notin Openers \cup {Disconnect}

VARIABLES
    pc,            \* where each thread stands
    rx,            \* the receiver an opener addresses
    ctx_lock, group_lock,
    listed,        \* the group is on ctx->group_list
    available,     \* group->available
    open_flag,     \* receivers with chrdev->open = 1
    device_refs,   \* px4->kref
    group_refs,    \* group->kref
    cdev_refs,     \* group->cdev.kobj's count
    device_alive,  \* px4_device_release() has not run
    group_alive,   \* ptx_chrdev_group_release() has not freed the group
    minors_used    \* the group's minor numbers are not free for another unit

locks == <<ctx_lock, group_lock>>
refs == <<device_refs, group_refs, cdev_refs, device_alive, group_alive>>
vars == <<pc, rx, locks, listed, available, open_flag, refs, minors_used>>

Threads == Openers \cup {Disconnect}

OpenerPcs == {"closed", "vfs_open", "lock_group", "claim", "open_ops", "opened",
              "clear_flag", "put_group", "free_minors", "put_device", "cdev_put"}
DisconnectPcs == {"running", "list_del", "unavailable", "put_group", "free_minors",
                  "put_device", "put_self", "wait", "freed"}

(* After probe: px4->kref counts the USB side and the group, group->kref   *)
(* the USB side, the cdev's count its registration.                        *)
Init ==
    /\ pc = [t \in Threads |-> IF t = Disconnect THEN "running" ELSE "closed"]
    /\ rx \in [Openers -> Receivers]
    /\ ctx_lock = Nobody /\ group_lock = Nobody
    /\ listed = TRUE /\ available = TRUE
    /\ open_flag = {}
    /\ device_refs = 2 /\ group_refs = 1 /\ cdev_refs = 1
    /\ device_alive = TRUE /\ group_alive = TRUE
    /\ minors_used = TRUE

Goto(t, to) == pc' = [pc EXCEPT ![t] = to]

(* kref_put() on the unit; the last one runs px4_device_release().         *)
PutDevice ==
    /\ device_refs' = device_refs - 1
    /\ device_alive' = (device_alive /\ device_refs > 1)
    /\ UNCHANGED <<group_refs, cdev_refs, group_alive>>

(* kref_put() on the group; the last one runs ptx_chrdev_group_release(),  *)
(* which frees the group, the cdev in it included, whatever the cdev's     *)
(* count, and then takes ctx->lock to give the minor numbers back.         *)
PutGroup(t, next) ==
    /\ group_refs' = group_refs - 1
    /\ group_alive' = (group_alive /\ group_refs > 1)
    /\ Goto(t, IF group_refs = 1 THEN "free_minors" ELSE next)
    /\ UNCHANGED <<device_refs, cdev_refs, device_alive>>

-----------------------------------------------------------------------------
(* The VFS, around ptx_chrdev_open() and ptx_chrdev_release()              *)

(* The cdev is found by its number, or by an inode that was opened before; *)
(* the latter also after cdev_del(), while others refer to the cdev.       *)
VfsOpen(t) ==
    /\ pc[t] = "closed"
    /\ cdev_refs > 0
    /\ cdev_refs' = cdev_refs + 1
    /\ \E c \in Receivers : rx' = [rx EXCEPT ![t] = c]
    /\ Goto(t, "vfs_open")
    /\ UNCHANGED <<locks, listed, available, open_flag, device_refs, group_refs,
                   device_alive, group_alive, minors_used>>

(* cdev_put() after release or a failed open.                              *)
CdevPut(t) ==
    /\ pc[t] = "cdev_put"
    /\ cdev_refs' = cdev_refs - 1
    /\ Goto(t, "closed")
    /\ UNCHANGED <<rx, locks, listed, available, open_flag, device_refs, group_refs,
                   device_alive, group_alive, minors_used>>

-----------------------------------------------------------------------------
(* ptx_chrdev_open()                                                       *)

(* Mutant: the group is not referenced.                                    *)
OpenLookupNoGroupGet(t) ==
    /\ pc[t] = "vfs_open"
    /\ ctx_lock = Nobody
    /\ listed
    /\ device_refs' = device_refs + 1
    /\ ctx_lock' = t
    /\ Goto(t, "lock_group")
    /\ UNCHANGED <<rx, group_lock, listed, available, open_flag, device_alive,
                   group_refs, cdev_refs, group_alive, minors_used>>

(* The group is found and referenced under ctx->lock.                      *)
OpenLookup(t) ==
    /\ pc[t] = "vfs_open"
    /\ ctx_lock = Nobody
    /\ listed
    /\ device_refs' = device_refs + 1
    /\ group_refs' = group_refs + 1
    /\ ctx_lock' = t
    /\ Goto(t, "lock_group")
    /\ UNCHANGED <<rx, group_lock, listed, available, open_flag, device_alive,
                   cdev_refs, group_alive, minors_used>>

(* -ENOENT                                                                 *)
OpenNoEntry(t) ==
    /\ pc[t] = "vfs_open"
    /\ ctx_lock = Nobody
    /\ ~listed
    /\ Goto(t, "cdev_put")
    /\ UNCHANGED <<rx, locks, listed, available, open_flag, refs, minors_used>>

OpenLockGroup(t) ==
    /\ pc[t] = "lock_group"
    /\ group_lock = Nobody
    /\ group_lock' = t
    /\ ctx_lock' = Nobody
    /\ Goto(t, "claim")
    /\ UNCHANGED <<rx, listed, available, open_flag, refs, minors_used>>

(* Mutant: the refused open leaves with group->lock held.                  *)
OpenClaimKeepsLock(t) ==
    /\ pc[t] = "claim"
    /\ IF available /\ rx[t] \notin open_flag
       THEN /\ open_flag' = open_flag \cup {rx[t]}
            /\ group_lock' = Nobody
            /\ Goto(t, "open_ops")
       ELSE UNCHANGED <<open_flag, group_lock>> /\ Goto(t, "put_group")
    /\ UNCHANGED <<rx, ctx_lock, listed, available, refs, minors_used>>

(* group->available and chrdev->open are tested under group->lock.         *)
OpenClaim(t) ==
    /\ pc[t] = "claim"
    /\ group_lock' = Nobody
    /\ IF available /\ rx[t] \notin open_flag
       THEN open_flag' = open_flag \cup {rx[t]} /\ Goto(t, "open_ops")
       ELSE UNCHANGED open_flag /\ Goto(t, "put_group")
    /\ UNCHANGED <<rx, ctx_lock, listed, available, refs, minors_used>>

(* px4_chrdev_open() succeeds and takes a reference on the unit.           *)
OpenDone(t) ==
    /\ pc[t] = "open_ops"
    /\ device_refs' = device_refs + 1
    /\ Goto(t, "opened")
    /\ UNCHANGED <<rx, locks, listed, available, open_flag, group_refs, cdev_refs,
                   device_alive, group_alive, minors_used>>

(* px4_chrdev_open() fails: fail_chrdev.                                   *)
OpenFail(t) ==
    /\ pc[t] = "open_ops"
    /\ open_flag' = open_flag \ {rx[t]}
    /\ Goto(t, "put_group")
    /\ UNCHANGED <<rx, locks, listed, available, refs, minors_used>>

-----------------------------------------------------------------------------
(* ptx_chrdev_release(), and the tail it shares with a failed open         *)

(* px4_chrdev_release() drops the reference px4_chrdev_open() took.        *)
Close(t) ==
    /\ pc[t] = "opened"
    /\ PutDevice
    /\ Goto(t, "clear_flag")
    /\ UNCHANGED <<rx, locks, listed, available, open_flag, minors_used>>

ClearFlag(t) ==
    /\ pc[t] = "clear_flag"
    /\ open_flag' = open_flag \ {rx[t]}
    /\ Goto(t, "put_group")
    /\ UNCHANGED <<rx, locks, listed, available, refs, minors_used>>

DropGroup(t) ==
    /\ pc[t] = "put_group"
    /\ PutGroup(t, "put_device")
    /\ UNCHANGED <<rx, locks, listed, available, open_flag, minors_used>>

FreeMinors(t) ==
    /\ pc[t] = "free_minors"
    /\ ctx_lock = Nobody
    /\ minors_used' = FALSE
    /\ Goto(t, "put_device")
    /\ UNCHANGED <<rx, locks, listed, available, open_flag, refs>>

DropDevice(t) ==
    /\ pc[t] = "put_device"
    /\ PutDevice
    /\ Goto(t, IF t = Disconnect THEN "put_self" ELSE "cdev_put")
    /\ UNCHANGED <<rx, locks, listed, available, open_flag, minors_used>>

-----------------------------------------------------------------------------
(* px4_usb_disconnect(): px4_device_term(), ptx_chrdev_group_destroy()     *)

(* px4->available = 0 and the card reader unregistered.                    *)
Unplug ==
    /\ pc[Disconnect] = "running"
    /\ Goto(Disconnect, "list_del")
    /\ UNCHANGED <<rx, locks, listed, available, open_flag, refs, minors_used>>

(* Mutant: the minor numbers go back as soon as the group is unlisted.     *)
UnlistFreesMinors ==
    /\ pc[Disconnect] = "list_del"
    /\ ctx_lock = Nobody
    /\ listed' = FALSE
    /\ minors_used' = FALSE
    /\ Goto(Disconnect, "unavailable")
    /\ UNCHANGED <<rx, locks, available, open_flag, refs>>

(* list_del() under ctx->lock                                              *)
Unlist ==
    /\ pc[Disconnect] = "list_del"
    /\ ctx_lock = Nobody
    /\ listed' = FALSE
    /\ Goto(Disconnect, "unavailable")
    /\ UNCHANGED <<rx, locks, available, open_flag, refs, minors_used>>

(* atomic_xchg(&group->available, 0) and cdev_del() under group->lock      *)
MakeUnavailable ==
    /\ pc[Disconnect] = "unavailable"
    /\ group_lock = Nobody
    /\ available' = FALSE
    /\ cdev_refs' = cdev_refs - 1
    /\ Goto(Disconnect, "put_group")
    /\ UNCHANGED <<rx, locks, listed, open_flag, device_refs, group_refs, device_alive,
                   group_alive, minors_used>>

(* Mutant: one reference too many is dropped.                              *)
DropSelfTwice ==
    /\ pc[Disconnect] = "put_self"
    /\ device_refs' = device_refs - 2
    /\ device_alive' = (device_alive /\ device_refs > 2)
    /\ Goto(Disconnect, "wait")
    /\ UNCHANGED <<rx, locks, listed, available, open_flag, group_refs, cdev_refs,
                   group_alive, minors_used>>

(* The reference px4_device_init() started with.                           *)
DropSelf ==
    /\ pc[Disconnect] = "put_self"
    /\ PutDevice
    /\ Goto(Disconnect, "wait")
    /\ UNCHANGED <<rx, locks, listed, available, open_flag, minors_used>>

(* wait_for_completion(), then the unit's memory is freed.                 *)
FreeUnit ==
    /\ pc[Disconnect] = "wait"
    /\ ~device_alive
    /\ Goto(Disconnect, "freed")
    /\ UNCHANGED <<rx, locks, listed, available, open_flag, refs, minors_used>>

-----------------------------------------------------------------------------
OpenStep(t) == \/ OpenLookup(t) \/ OpenNoEntry(t) \/ OpenLockGroup(t) \/ OpenClaim(t)
               \/ OpenDone(t) \/ OpenFail(t)
TailStep(t) == ClearFlag(t) \/ DropGroup(t) \/ FreeMinors(t) \/ DropDevice(t)
DisconnectStep == \/ Unlist \/ MakeUnavailable \/ TailStep(Disconnect)
                  \/ DropSelf \/ FreeUnit

Next == \/ \E t \in Openers : \/ VfsOpen(t) \/ OpenStep(t) \/ Close(t) \/ TailStep(t)
                             \/ CdevPut(t)
        \/ Unplug
        \/ DisconnectStep

(* Threads in the kernel run on, mutexes are fair, and a program that      *)
(* holds a file of a unit that went away (its calls return -EIO) closes    *)
(* it.                                                                     *)
Fairness ==
    /\ \A t \in Openers :
          /\ SF_vars(OpenStep(t)) /\ SF_vars(TailStep(t)) /\ WF_vars(CdevPut(t))
          /\ WF_vars(~available /\ Close(t))
    /\ SF_vars(DisconnectStep)

Spec == Init /\ [][Next]_vars /\ Fairness

-----------------------------------------------------------------------------
TypeOK ==
    /\ pc \in [Threads -> OpenerPcs \cup DisconnectPcs]
    /\ rx \in [Openers -> Receivers]
    /\ {ctx_lock, group_lock} \subseteq Threads \cup {Nobody}
    /\ {listed, available, device_alive, group_alive, minors_used} \subseteq BOOLEAN
    /\ open_flag \subseteq Receivers
    /\ device_refs \in Nat /\ group_refs \in Nat /\ cdev_refs \in Nat

(* Where the driver uses the group and the unit, and where a thread is in  *)
(* the VFS with a reference on the cdev.                                   *)
UsesGroup == {"lock_group", "claim", "open_ops", "opened", "clear_flag", "put_group",
              "running", "list_del", "unavailable"}
UsesDevice == UsesGroup \cup {"free_minors", "put_device", "put_self"}
UsesCdev == {"vfs_open", "cdev_put"}
RefersToCdev == OpenerPcs \ {"closed"}

(* The driver's own code is never about to use a group or a unit whose     *)
(* release function has run, however open, close and disconnect            *)
(* interleave; the unit outlives its group, whose release calls the        *)
(* receivers' term operations; and the cdev's count does not reach 0 while *)
(* a file or an open refers to it.  Of the VFS, which uses the cdev in the *)
(* group's memory, this says only that its count is right: see             *)
(* CdevOutlivesFiles.                                                      *)
DriverUsesAlive ==
    /\ group_alive => device_alive
    /\ \A t \in Threads :
          /\ pc[t] \in UsesGroup => group_alive
          /\ pc[t] \in UsesDevice => device_alive
    /\ \A t \in Openers : pc[t] \in RefersToCdev => cdev_refs > 0

(* The comment at px4_card.c:28 says of a cdev that it is used until open  *)
(* files are closed for good, and must not be embedded in a structure that *)
(* goes before.  The cdev of the receivers is embedded in the group, which *)
(* the last kref_put() in release or in a failed open frees, as may the    *)
(* disconnect under an open that the VFS has not handed over: the VFS then *)
(* uses freed memory.  VIOLATED.                                           *)
CdevOutlivesFiles == \A t \in Openers : pc[t] \in UsesCdev => group_alive

(* Minor numbers go back to the pool only when no file on them is left.    *)
MinorsHeldWhileOpen ==
    (\E t \in Openers : pc[t] \in {"open_ops", "opened"}) => minors_used

(* A disconnect ends once the programs have closed their files: no         *)
(* reference is leaked and no lock order blocks it.                        *)
DisconnectCompletes == (pc[Disconnect] # "running") ~> (pc[Disconnect] = "freed")
=============================================================================
