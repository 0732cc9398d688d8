-------------------------------- MODULE Px4Card --------------------------------
(***************************************************************************)
(* The built-in card readers, px4_card.c: registration of a reader with    *)
(* its name and device number, the one session a reader has, its power,    *)
(* and the removal of the reader while files are open.                     *)
(*                                                                         *)
(* Registration and the first half of unregistration run under             *)
(* px4_card_names_lock, as one step each.  card->lock is held over an      *)
(* ioctl, so its holder is recorded.  A reader object is identified with   *)
(* the number of its registration, and so is its cdev, which is allocated  *)
(* with it and stays allocated while a file refers to it.                  *)
(***************************************************************************)
EXTENDS Integers, FiniteSets, FiniteSetsExt

CONSTANTS
    Units,       \* USB units with a card slot
    Base,        \* the ID of a unit's reader: px4_card_reader_id()
    Files,       \* open(2) calls, and the files they give
    MaxCards,    \* bound on registrations followed
    MaxDevices,  \* PX4_CARD_MAX_DEVICES
    Nobody       \* no holder of a lock, no name

Cards == 1..MaxCards

ASSUME BaseAssumption == \A u \in Units : Base[u] \in Units
ASSUME BoundAssumption == MaxCards \in Nat \ {0} /\ MaxDevices \in Nat \ {0}
ASSUME NobodyAssumption == Nobody \notin Units \cup Files
ASSUME FilesAssumption == IsFiniteSet(Files)

VARIABLES
    unit,          \* life of a unit
    reader,        \* the reader a unit has registered, 0 when none
    made,          \* registrations so far
    listed,        \* px4_cards
    minors,        \* px4_card_minors
    owner,         \* the unit card->backend points to
    name, minor,   \* card->name, MINOR(card->devt)
    refs,          \* card->refs; the object is freed when it is 0
    opened, powered, disconnected,
    lock,          \* holder of card->lock
    pc, at         \* where a file stands, and the reader it refers to

fields == <<owner, name, minor>>
vars == <<unit, reader, made, listed, minors, fields, refs, opened, powered,
          disconnected, lock, pc, at>>

Suffixes == 0..MaxCards
Names == Units \X Suffixes

Init ==
    /\ unit = [u \in Units |-> "absent"]
    /\ reader = [u \in Units |-> 0]
    /\ made = 0 /\ listed = {} /\ minors = {}
    /\ owner = [k \in Cards |-> Nobody]
    /\ name = [k \in Cards |-> Nobody]
    /\ minor = [k \in Cards |-> 0]
    /\ refs = [k \in Cards |-> 0]
    /\ opened = [k \in Cards |-> FALSE]
    /\ powered = [k \in Cards |-> FALSE]
    /\ disconnected = [k \in Cards |-> FALSE]
    /\ lock = [k \in Cards |-> Nobody]
    /\ pc = [f \in Files |-> "closed"]
    /\ at = [f \in Files |-> 0]

(* kref_get() and kref_put()                                               *)
Get(k) == refs' = [refs EXCEPT ![k] = @ + 1]
Put(k) == refs' = [refs EXCEPT ![k] = @ - 1]

-----------------------------------------------------------------------------
(* px4_card_register(); a unit without a reader works all the same         *)

(* px4_card_set_name(): the ID, with the first suffix no reader uses.      *)
FreeName(u) ==
    <<Base[u], Min({s \in Suffixes : \A k \in listed : name[k] # <<Base[u], s>>})>>

FreeMinors == (0..(MaxDevices - 1)) \ minors

Register(u) ==
    /\ unit[u] = "absent"
    /\ made < MaxCards
    /\ FreeMinors # {}
    /\ LET k == made + 1
       IN  /\ made' = k
           /\ name' = [name EXCEPT ![k] = FreeName(u)]
           /\ minor' = [minor EXCEPT ![k] = Min(FreeMinors)]
           /\ minors' = minors \cup {Min(FreeMinors)}
           /\ owner' = [owner EXCEPT ![k] = u]
           /\ listed' = listed \cup {k}
           /\ Get(k)
           /\ reader' = [reader EXCEPT ![u] = k]
    /\ unit' = [unit EXCEPT ![u] = "running"]
    /\ UNCHANGED <<opened, powered, disconnected, lock, pc, at>>

(* No device number is left, or cdev_add(), device_create() or an          *)
(* allocation fails.                                                       *)
RegisterFails(u) ==
    /\ unit[u] = "absent"
    /\ unit' = [unit EXCEPT ![u] = "running"]
    /\ UNCHANGED <<reader, made, listed, minors, fields, refs, opened, powered,
                   disconnected, lock, pc, at>>

-----------------------------------------------------------------------------
(* px4_device_term(): available is cleared under the lock of the unit,     *)
(* then px4_card_unregister()                                              *)

Unplug(u) ==
    /\ unit[u] = "running"
    /\ \A f \in Files : pc[f] = "request" => owner[at[f]] # u
    /\ unit' = [unit EXCEPT ![u] = "closing"]
    /\ UNCHANGED <<reader, made, listed, minors, fields, refs, opened, powered,
                   disconnected, lock, pc, at>>

Unlist(u) ==
    LET k == reader[u]
    IN  /\ unit[u] = "closing"
        /\ k # 0
        /\ listed' = listed \ {k}
        /\ minors' = minors \ {minor[k]}
        /\ unit' = [unit EXCEPT ![u] = "unlisted"]
        /\ UNCHANGED <<reader, made, fields, refs, opened, powered, disconnected,
                       lock, pc, at>>

(* Mutant: the reader is not marked.                                       *)
DisconnectSilently(u) ==
    LET k == reader[u]
    IN  /\ unit[u] = "unlisted"
        /\ lock[k] = Nobody
        /\ powered' = [powered EXCEPT ![k] = FALSE]
        /\ unit' = [unit EXCEPT ![u] = "dropped"]
        /\ UNCHANGED <<reader, made, listed, minors, fields, refs, opened,
                       disconnected, lock, pc, at>>

(* px4_card_power_off(), which counts as off whether it succeeds or not.   *)
Disconnect(u) ==
    LET k == reader[u]
    IN  /\ unit[u] = "unlisted"
        /\ lock[k] = Nobody
        /\ powered' = [powered EXCEPT ![k] = FALSE]
        /\ disconnected' = [disconnected EXCEPT ![k] = TRUE]
        /\ unit' = [unit EXCEPT ![u] = "dropped"]
        /\ UNCHANGED <<reader, made, listed, minors, fields, refs, opened, lock, pc, at>>

(* The reference of the registration; then the unit itself is released.    *)
Drop(u) ==
    /\ \/ unit[u] = "dropped" /\ Put(reader[u])
       \/ unit[u] = "closing" /\ reader[u] = 0 /\ UNCHANGED refs
    /\ reader' = [reader EXCEPT ![u] = 0]
    /\ unit' = [unit EXCEPT ![u] = "absent"]
    /\ UNCHANGED <<made, listed, minors, fields, opened, powered, disconnected,
                   lock, pc, at>>

-----------------------------------------------------------------------------
(* px4_card_open()                                                         *)

(* The VFS resolves the device number to the cdev before it calls open.    *)
VfsOpen(f) ==
    /\ pc[f] = "closed"
    /\ \E k \in listed : at' = [at EXCEPT ![f] = k]
    /\ pc' = [pc EXCEPT ![f] = "vfs"]
    /\ UNCHANGED <<unit, reader, made, listed, minors, fields, refs, opened,
                   powered, disconnected, lock>>

(* Mutant: the device number alone tells the reader.                       *)
EntryByNumber(f, k) == k \in listed /\ minor[k] = minor[at[f]]

(* The entry of px4_cards with the device number and the cdev of the inode *)
Entry(f, k) == k \in listed /\ minor[k] = minor[at[f]] /\ k = at[f]

OpenLookup(f) ==
    /\ pc[f] = "vfs"
    /\ \/ \E k \in Cards :
             /\ Entry(f, k)
             /\ Get(k)
             /\ at' = [at EXCEPT ![f] = k]
             /\ pc' = [pc EXCEPT ![f] = "found"]
       \/ /\ \A k \in Cards : ~Entry(f, k)                        \* -ENODEV
          /\ pc' = [pc EXCEPT ![f] = "closed"]
          /\ at' = [at EXCEPT ![f] = 0]
          /\ UNCHANGED refs
    /\ UNCHANGED <<unit, reader, made, listed, minors, fields, opened, powered,
                   disconnected, lock>>

OpenClaim(f) ==
    LET k == at[f]
    IN  /\ pc[f] = "found"
        /\ lock[k] = Nobody
        /\ ~disconnected[k] /\ ~opened[k]
        /\ opened' = [opened EXCEPT ![k] = TRUE]
        /\ pc' = [pc EXCEPT ![f] = "open"]
        /\ UNCHANGED <<unit, reader, made, listed, minors, fields, refs, powered,
                       disconnected, lock, at>>

(* -ENODEV, -EBUSY, or -ERESTARTSYS while waiting for the lock.            *)
OpenFail(f) ==
    /\ pc[f] = "found"
    /\ pc' = [pc EXCEPT ![f] = "put"]
    /\ UNCHANGED <<unit, reader, made, listed, minors, fields, refs, opened, powered,
                   disconnected, lock, at>>

PutCard(f) ==
    /\ pc[f] = "put"
    /\ Put(at[f])
    /\ pc' = [pc EXCEPT ![f] = "closed"]
    /\ at' = [at EXCEPT ![f] = 0]
    /\ UNCHANGED <<unit, reader, made, listed, minors, fields, opened, powered,
                   disconnected, lock>>

-----------------------------------------------------------------------------
(* px4_card_ioctl(): both locks are held over px4_card_request()           *)

IoctlBegin(f) ==
    LET k == at[f]
    IN  /\ pc[f] = "open"
        /\ lock[k] = Nobody
        /\ ~disconnected[k]
        /\ lock' = [lock EXCEPT ![k] = f]
        /\ pc' = [pc EXCEPT ![f] = "request"]
        /\ UNCHANGED <<unit, reader, made, listed, minors, fields, refs, opened,
                       powered, disconnected, at>>

(* Mutant: card->lock is not released when the request fails.              *)
IoctlEndKeepsLock(f, on) ==
    LET k == at[f]
    IN  /\ pc[f] = "request"
        /\ powered' = [powered EXCEPT ![k] = on]
        /\ pc' = [pc EXCEPT ![f] = "open"]
        /\ \/ UNCHANGED lock
           \/ lock' = [lock EXCEPT ![k] = Nobody]
        /\ UNCHANGED <<unit, reader, made, listed, minors, fields, refs, opened,
                       disconnected, at>>

IoctlEnd(f, on) ==
    LET k == at[f]
    IN  /\ pc[f] = "request"
        /\ powered' = [powered EXCEPT ![k] = on]
        /\ lock' = [lock EXCEPT ![k] = Nobody]
        /\ pc' = [pc EXCEPT ![f] = "open"]
        /\ UNCHANGED <<unit, reader, made, listed, minors, fields, refs, opened,
                       disconnected, at>>

Available(k) == unit[owner[k]] = "running"

(* PX4_CARD_POWER_ON: set_power(true) and it930x_bcas_init() succeed.      *)
PowerOn(f) == IoctlEnd(f, TRUE) /\ Available(at[f])
PowerOff(f) == IoctlEnd(f, FALSE) /\ Available(at[f])
(* Every other request, and every failure, leaves the power as it is.      *)
OtherRequest(f) == IoctlEnd(f, powered[at[f]])

-----------------------------------------------------------------------------
(* Mutant: the session ends with the card powered.                         *)
ReleaseKeepsPower(f) ==
    LET k == at[f]
    IN  /\ pc[f] = "open"
        /\ lock[k] = Nobody
        /\ opened' = [opened EXCEPT ![k] = FALSE]
        /\ pc' = [pc EXCEPT ![f] = "put"]
        /\ UNCHANGED <<unit, reader, made, listed, minors, fields, refs, powered,
                       disconnected, lock, at>>

(* Mutant: the reference is dropped under the lock, and again after it.    *)
ReleasePutsTwice(f) ==
    LET k == at[f]
    IN  /\ pc[f] = "open"
        /\ lock[k] = Nobody
        /\ powered' = [powered EXCEPT ![k] = IF disconnected[k] THEN @ ELSE FALSE]
        /\ opened' = [opened EXCEPT ![k] = FALSE]
        /\ Put(k)
        /\ pc' = [pc EXCEPT ![f] = "put"]
        /\ UNCHANGED <<unit, reader, made, listed, minors, fields, disconnected, lock, at>>

(* px4_card_release()                                                      *)
Release(f) ==
    LET k == at[f]
    IN  /\ pc[f] = "open"
        /\ lock[k] = Nobody
        /\ powered' = [powered EXCEPT ![k] = IF disconnected[k] THEN @ ELSE FALSE]
        /\ opened' = [opened EXCEPT ![k] = FALSE]
        /\ pc' = [pc EXCEPT ![f] = "put"]
        /\ UNCHANGED <<unit, reader, made, listed, minors, fields, refs, disconnected,
                       lock, at>>

-----------------------------------------------------------------------------
Request(f) == PowerOn(f) \/ PowerOff(f) \/ OtherRequest(f)
Removal(u) == Unlist(u) \/ Disconnect(u) \/ Drop(u)
UnitStep(u) == Register(u) \/ RegisterFails(u) \/ Unplug(u) \/ Removal(u)
FileStep(f) == \/ VfsOpen(f) \/ OpenLookup(f) \/ OpenClaim(f) \/ OpenFail(f) \/ PutCard(f)
               \/ IoctlBegin(f) \/ Request(f) \/ Release(f)

Next == (\E u \in Units : UnitStep(u)) \/ (\E f \in Files : FileStep(f))

(* USB requests time out, so a request ends; the thread of disconnect()    *)
(* goes on, and card->lock does not keep it out for ever.                  *)
Fairness == /\ \A f \in Files : WF_vars(Request(f))
            /\ \A u \in Units : SF_vars(Removal(u))

Spec == Init /\ [][Next]_vars /\ Fairness

-----------------------------------------------------------------------------
Referring(k) == {f \in Files : at[f] = k /\ pc[f] \in {"found", "open", "request", "put"}}

(* The reader object is freed with its last user and not before: its       *)
(* reference count is the registration and the files that refer to it.     *)
CardRefsExact ==
    \A k \in Cards : refs[k] = Cardinality(Referring(k))
                               + (IF \E u \in Units : reader[u] = k THEN 1 ELSE 0)

(* A request works on the unit that registered the reader, and that unit   *)
(* is still there: an open file never reaches a unit that was released, or *)
(* one plugged in later under the same device number.                      *)
BackendAlive ==
    \A f \in Files : pc[f] = "request" => reader[owner[at[f]]] = at[f]

(* The power a session took is given back when it ends, by the release or  *)
(* by the removal of the reader, whichever comes first: no reader without  *)
(* an open file is powered, and none that was removed.                     *)
PowerEndsWithSession ==
    \A k \in Cards : powered[k] => opened[k] /\ ~disconnected[k]

(* An open() that the VFS resolved to one reader does not end up at        *)
(* another one that took over its device number.                           *)
OpensTheReaderAskedFor == [][\A f \in Files : pc[f] = "vfs" => at'[f] \in {at[f], 0}]_vars

(* A unit that was unplugged is released although files of its reader stay *)
(* open.                                                                   *)
RemovalCompletes == \A u \in Units : (unit[u] = "closing") ~> (unit[u] = "absent")
=============================================================================
