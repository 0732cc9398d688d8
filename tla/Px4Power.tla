------------------------------- MODULE Px4Power -------------------------------
(***************************************************************************)
(* Board power of the tuners that are built from two USB units (PX-Q3U4,   *)
(* PX-Q3PE4, PX-Q3PE5): the shared power manager px4_mldev.c, the users of *)
(* the power in px4_device.c (receivers being opened and released) and in  *)
(* px4_card.c (the built-in card reader), and the life of a unit from its  *)
(* probe to its release.                                                   *)
(*                                                                         *)
(* Every section under mldev->lock is one step.  A receiver's open and     *)
(* release hold px4->lock across several such sections, so op[d] records   *)
(* where the holder of unit d's px4->lock stands; steps of the other unit  *)
(* interleave between its sections.  A unit is identified with its dev_id, *)
(* so px4_mldev_add()'s -EALREADY (a second unit with the same id) and the *)
(* -EINVAL returns for foreign ids do not arise.                           *)
(***************************************************************************)
EXTENDS Naturals, FiniteSets

CONSTANTS
    Receivers,    \* receivers in use on each unit, out of 0..3 (0, 1: ISDB-S)
    Mode,         \* multi_device_power_control_mode
    CardUnits     \* units with a card slot registered (dev_id 1, here 0)

Modes == {"ALL", "S_ONLY", "S0_ONLY", "S1_ONLY"}
Units == {0, 1}

ASSUME ReceiversAssumption == Receivers \subseteq 0..3
ASSUME ModeAssumption == Mode \in Modes
ASSUME CardUnitsAssumption == CardUnits \subseteq Units

VARIABLES
    phase,         \* life of the unit: probe, running, termination
    refs,          \* kref of the px4_mldev object, 0 when there is none
    attached,      \* units d with mldev->dev[d] set
    power_state,   \* mldev->power_state[d]
    chrdev_state,  \* mldev->chrdev_state[d], as the set of receivers in use
    card_state,    \* mldev->card_state[d]
    board,         \* levels of GPIO 7 and GPIO 2 of the unit's bridge
    inited,        \* px4_backend_init() done since the board was last powered
    opened,        \* receivers open; its size is px4->open_count
    card,          \* card->powered
    op,            \* where the holder of px4->lock stands
    gpioFails      \* GPIO writes over USB may fail; fixed for a behaviour

table == <<attached, power_state, chrdev_state, card_state>>
vars == <<phase, refs, table, board, inited, opened, card, op, gpioFails>>

Other(d) == 1 - d

(* absent -> off -> found -> added -> running -> closing -> unregistered   *)
(* -> gone -> absent; px4->available is set in "running" only.             *)
Phases == {"absent", "off", "found", "added", "running", "closing",
           "unregistered", "gone"}
Probing == {"off", "found", "added"}
Openable == {"running", "closing", "unregistered"}

Pins == [g7 : BOOLEAN, g2 : BOOLEAN]
PinsOn == [g7 |-> FALSE, g2 |-> TRUE]
PinsOff == [g7 |-> TRUE, g2 |-> FALSE]

Idle == [step |-> "idle"]
Ops == {Idle}
       \cup [step : {"open"}, rx : Receivers, first : BOOLEAN]
       \cup [step : {"release"}, rx : Receivers]
       \cup [step : {"card"}]

Init ==
    /\ phase = [d \in Units |-> "absent"]
    /\ refs = 0
    /\ attached = {}
    /\ power_state = [d \in Units |-> FALSE]
    /\ chrdev_state = [d \in Units |-> {}]
    /\ card_state = [d \in Units |-> FALSE]
    /\ board = [d \in Units |-> PinsOn]      \* as it930x_init_warm() leaves it
    /\ inited = [d \in Units |-> FALSE]
    /\ opened = [d \in Units |-> {}]
    /\ card = [d \in Units |-> FALSE]
    /\ op = [d \in Units |-> Idle]
    /\ gpioFails \in BOOLEAN

-----------------------------------------------------------------------------
(* px4_backend_set_power(): what the two GPIO writes may leave behind.     *)

(* Power on stops at the first write that fails.                           *)
TurnOnFailures(b) ==
    IF gpioFails THEN {b, [b EXCEPT !.g7 = FALSE]} ELSE {}

(* Power off is skipped unless the unit is available; errors are ignored.  *)
TurnOff(d) ==
    IF phase[d] # "running" THEN {board[d]}
    ELSE IF gpioFails
         THEN [g7 : {board[d].g7, TRUE}, g2 : {board[d].g2, FALSE}]
         ELSE {PinsOff}

(* A board that loses power forgets its initialisation.                    *)
LosesInit == inited' = [d \in Units |-> inited[d] /\ board'[d] = PinsOn]

(* px4_mldev_is_power_interlocking_required() for a unit with users S.     *)
InterlockingReceivers ==
    CASE Mode = "S_ONLY" -> {0, 1}
      [] Mode = "S0_ONLY" -> {0}
      [] Mode = "S1_ONLY" -> {1}
      [] OTHER -> 0..3
Interlocks(S) == S \cap InterlockingReceivers # {}

(* px4_mldev_has_power_user()                                              *)
HasPowerUser(d) == chrdev_state[d] # {} \/ card_state[d]

-----------------------------------------------------------------------------
(* px4_mldev.c: the sections under mldev->lock.                            *)

(* px4_mldev_set_power(true).  res is the outcome the caller sees: the     *)
(* return value and *first.                                                *)
MldevPowerOn(d, c, res) ==
    LET o == Other(d)
        first == chrdev_state[d] = {}
        needOwn == first /\ ~power_state[d]
        users == chrdev_state[d] \cup {c}
        needOther == o \in attached /\ Interlocks(users) /\ ~power_state[o]
    IN  \/ /\ c \in chrdev_state[d]
           /\ res = [ok |-> TRUE, first |-> FALSE]
           /\ UNCHANGED <<table, board, inited>>
        \/ /\ c \notin chrdev_state[d]
           /\ needOwn
           /\ \E p \in TurnOnFailures(board[d]) :
                 board' = [board EXCEPT ![d] = p]
           /\ res = [ok |-> FALSE, first |-> FALSE]
           /\ LosesInit
           /\ UNCHANGED table
        \/ /\ c \notin chrdev_state[d]
           /\ chrdev_state' = [chrdev_state EXCEPT ![d] = users]
           /\ \E okOther \in IF needOther /\ gpioFails THEN BOOLEAN ELSE {TRUE} :
                 /\ \E p \in IF ~needOther THEN {board[o]}
                             ELSE IF okOther THEN {PinsOn}
                             ELSE TurnOnFailures(board[o]) :
                       board' = [x \in Units |->
                                   IF x = o THEN p
                                   ELSE IF needOwn THEN PinsOn ELSE board[x]]
                 /\ power_state' = [x \in Units |->
                                      IF x = o
                                      THEN power_state[o] \/ (needOther /\ okOther)
                                      ELSE power_state[d] \/ needOwn]
                 /\ res = [ok |-> okOther, first |-> first]
           /\ LosesInit
           /\ UNCHANGED <<attached, card_state>>

(* px4_mldev_set_power(false)                                              *)
MldevPowerOff(d, c) ==
    LET o == Other(d)
        users == chrdev_state[d] \ {c}
        offOwn == /\ users = {}
                  /\ power_state[d]
                  /\ ~card_state[d]
                  /\ ~Interlocks(chrdev_state[o])
        offOther == /\ o \in attached
                    /\ ~Interlocks(users)
                    /\ power_state[o]
                    /\ ~HasPowerUser(o)
    IN  \/ /\ c \notin chrdev_state[d]
           /\ UNCHANGED <<table, board, inited>>
        \/ /\ c \in chrdev_state[d]
           /\ chrdev_state' = [chrdev_state EXCEPT ![d] = users]
           /\ power_state' = [x \in Units |->
                 power_state[x] /\ IF x = d THEN ~offOwn ELSE ~offOther]
           /\ \E p \in IF offOwn THEN TurnOff(d) ELSE {board[d]},
                 q \in IF offOther THEN TurnOff(o) ELSE {board[o]} :
                 board' = [x \in Units |-> IF x = d THEN p ELSE q]
           /\ LosesInit
           /\ UNCHANGED <<attached, card_state>>

(* px4_mldev_set_card_power(true)                                          *)
MldevCardOn(d, ok) ==
    LET need == /\ ~card_state[d]
                /\ chrdev_state[d] = {}
                /\ ~power_state[d]
    IN  \/ /\ need
           /\ ~ok
           /\ \E p \in TurnOnFailures(board[d]) :
                 board' = [board EXCEPT ![d] = p]
           /\ LosesInit
           /\ UNCHANGED table
        \/ /\ ok
           /\ card_state' = [card_state EXCEPT ![d] = TRUE]
           /\ power_state' = [power_state EXCEPT ![d] = @ \/ need]
           /\ board' = [board EXCEPT ![d] = IF need THEN PinsOn ELSE @]
           /\ LosesInit
           /\ UNCHANGED <<attached, chrdev_state>>

(* Mutant: the card's power is cut whoever else uses the board.            *)
MldevCardOffAlways(d) ==
    LET off == card_state[d] /\ power_state[d]
    IN  /\ card_state' = [card_state EXCEPT ![d] = FALSE]
        /\ power_state' = [power_state EXCEPT ![d] = @ /\ ~off]
        /\ \E p \in IF off THEN TurnOff(d) ELSE {board[d]} :
              board' = [board EXCEPT ![d] = p]
        /\ LosesInit
        /\ UNCHANGED <<attached, chrdev_state>>

(* px4_mldev_set_card_power(false).  The card held the power, so the       *)
(* branch that would switch a board on here cannot be taken.               *)
MldevCardOff(d) ==
    LET off == /\ card_state[d]
               /\ chrdev_state[d] = {}
               /\ ~Interlocks(chrdev_state[Other(d)])
               /\ power_state[d]
    IN  /\ card_state' = [card_state EXCEPT ![d] = FALSE]
        /\ power_state' = [power_state EXCEPT ![d] = @ /\ ~off]
        /\ \E p \in IF off THEN TurnOff(d) ELSE {board[d]} :
              board' = [board EXCEPT ![d] = p]
        /\ LosesInit
        /\ UNCHANGED <<attached, chrdev_state>>

(* Mutant: the partner's power is left as it is.                           *)
MldevRemoveOneSided(d) ==
    /\ attached' = attached \ {d}
    /\ chrdev_state' = [chrdev_state EXCEPT ![d] = {}]
    /\ card_state' = [card_state EXCEPT ![d] = FALSE]
    /\ power_state' = [power_state EXCEPT ![d] = FALSE]
    /\ \E p \in IF power_state[d] THEN TurnOff(d) ELSE {board[d]} :
          board' = [board EXCEPT ![d] = p]
    /\ LosesInit
    /\ refs' = refs - 1

(* px4_mldev_remove(): also switches off a partner nobody uses.            *)
MldevRemove(d) ==
    LET o == Other(d)
        offOther == /\ o \in attached
                    /\ ~HasPowerUser(o)
                    /\ power_state[o]
    IN  /\ attached' = attached \ {d}
        /\ chrdev_state' = [chrdev_state EXCEPT ![d] = {}]
        /\ card_state' = [card_state EXCEPT ![d] = FALSE]
        /\ power_state' = [x \in Units |->
              IF x = d THEN FALSE ELSE power_state[x] /\ ~offOther]
        /\ \E p \in IF power_state[d] THEN TurnOff(d) ELSE {board[d]},
              q \in IF offOther THEN TurnOff(o) ELSE {board[o]} :
              board' = [x \in Units |-> IF x = d THEN p ELSE q]
        /\ LosesInit
        /\ refs' = refs - 1

-----------------------------------------------------------------------------
(* px4_device_init(): the probe of a unit.  The USB core probes the two    *)
(* units of an enclosure one after the other.                              *)

(* Up to the GPIO writes that switch the board off before registration.    *)
Probe(d) ==
    /\ phase[d] = "absent"
    /\ phase[Other(d)] \notin Probing
    /\ \/ /\ phase' = [phase EXCEPT ![d] = "off"]
          /\ board' = [board EXCEPT ![d] = PinsOff]
       \/ /\ gpioFails
          /\ \E p \in {board[d], [board[d] EXCEPT !.g2 = FALSE]} :
                board' = [board EXCEPT ![d] = p]
          /\ UNCHANGED phase
    /\ LosesInit
    /\ UNCHANGED <<refs, table, opened, card, op>>

(* Mutant: px4_mldev_search() without kref_get().                          *)
SearchFoundNoGet(d) ==
    /\ phase[d] = "off"
    /\ refs > 0
    /\ phase' = [phase EXCEPT ![d] = "found"]
    /\ UNCHANGED <<refs, table, board, inited, opened, card, op>>

(* px4_mldev_search() takes a reference on the manager of this serial      *)
(* number, kept until px4_mldev_add() consumes it.                         *)
SearchFound(d) ==
    /\ phase[d] = "off"
    /\ refs > 0
    /\ refs' = refs + 1
    /\ phase' = [phase EXCEPT ![d] = "found"]
    /\ UNCHANGED <<table, board, inited, opened, card, op>>

(* px4_mldev_alloc() starts a manager with this unit attached.             *)
Alloc(d) ==
    /\ phase[d] = "off"
    /\ refs = 0
    /\ refs' = 1
    /\ attached' = {d}
    /\ power_state' = [x \in Units |-> FALSE]
    /\ chrdev_state' = [x \in Units |-> {}]
    /\ card_state' = [x \in Units |-> FALSE]
    /\ phase' = [phase EXCEPT ![d] = "added"]
    /\ UNCHANGED <<board, inited, opened, card, op>>

(* Mutant: joins without looking at the partner's users.                   *)
AddUnpowered(d) ==
    /\ phase[d] = "found"
    /\ phase' = [phase EXCEPT ![d] = "added"]
    /\ attached' = attached \cup {d}
    /\ chrdev_state' = [chrdev_state EXCEPT ![d] = {}]
    /\ card_state' = [card_state EXCEPT ![d] = FALSE]
    /\ power_state' = [power_state EXCEPT ![d] = FALSE]
    /\ UNCHANGED <<refs, board, inited, opened, card, op>>

(* px4_mldev_add(): joins, powered when the partner requires it.           *)
Add(d) ==
    LET need == Interlocks(chrdev_state[Other(d)])
        cleared == /\ chrdev_state' = [chrdev_state EXCEPT ![d] = {}]
                   /\ card_state' = [card_state EXCEPT ![d] = FALSE]
    IN  /\ phase[d] = "found"
        /\ cleared
        /\ \/ /\ phase' = [phase EXCEPT ![d] = "added"]
              /\ attached' = attached \cup {d}
              /\ power_state' = [power_state EXCEPT ![d] = need]
              /\ board' = [board EXCEPT ![d] = IF need THEN PinsOn ELSE @]
              /\ UNCHANGED refs
           \/ /\ need
              /\ phase' = [phase EXCEPT ![d] = "absent"]
              /\ power_state' = [power_state EXCEPT ![d] = FALSE]
              /\ \E p \in TurnOnFailures(board[d]) :
                    board' = [board EXCEPT ![d] = p]
              /\ refs' = refs - 1
              /\ UNCHANGED attached
        /\ LosesInit
        /\ UNCHANGED <<opened, card, op>>

(* The rest of px4_device_init() succeeds: px4->available = 1.             *)
ProbeDone(d) ==
    /\ phase[d] = "added"
    /\ phase' = [phase EXCEPT ![d] = "running"]
    /\ UNCHANGED <<refs, table, board, inited, opened, card, op>>

(* A later step of px4_device_init() fails: fail_device.                   *)
ProbeFail(d) ==
    /\ phase[d] = "added"
    /\ MldevRemove(d)
    /\ phase' = [phase EXCEPT ![d] = "absent"]
    /\ UNCHANGED <<opened, card, op>>

-----------------------------------------------------------------------------
(* px4_chrdev_open() and px4_chrdev_release(), under px4->lock.            *)

(* The power section of open; a failure returns with px4->lock dropped and *)
(* without giving the receiver's record back (fail_backend_power).         *)
OpenPower(d, c) ==
    /\ phase[d] \in Openable
    /\ op[d] = Idle
    /\ c \notin opened[d]
    /\ \E res \in [ok : BOOLEAN, first : BOOLEAN] :
          /\ MldevPowerOn(d, c, res)
          /\ op' = [op EXCEPT ![d] =
                      IF res.ok
                      THEN [step |-> "open", rx |-> c, first |-> res.first]
                      ELSE Idle]
    /\ UNCHANGED <<phase, refs, opened, card>>

(* px4_backend_init() when first, wake-up, open_count++.                   *)
OpenDone(d) ==
    /\ op[d].step = "open"
    /\ inited' = [inited EXCEPT ![d] = @ \/ op[d].first]
    /\ opened' = [opened EXCEPT ![d] = @ \cup {op[d].rx}]
    /\ op' = [op EXCEPT ![d] = Idle]
    /\ UNCHANGED <<phase, refs, table, board, card>>

(* fail_backend and fail_backend_init: the tuners are terminated when no   *)
(* receiver is open, and the receiver's power is given back.               *)
OpenFail(d) ==
    /\ op[d].step = "open"
    /\ MldevPowerOff(d, op[d].rx)
    /\ op' = [op EXCEPT ![d] = Idle]
    /\ UNCHANGED <<phase, refs, opened, card>>

(* Mutant: every release terminates the tuners.                            *)
ReleaseTunerAlways(d, c) ==
    /\ op[d] = Idle
    /\ c \in opened[d]
    /\ opened' = [opened EXCEPT ![d] = @ \ {c}]
    /\ inited' = [inited EXCEPT ![d] = FALSE]
    /\ op' = [op EXCEPT ![d] = [step |-> "release", rx |-> c]]
    /\ UNCHANGED <<phase, refs, table, board, card>>

(* open_count--; the last receiver terminates the tuners.                  *)
ReleaseTuner(d, c) ==
    /\ op[d] = Idle
    /\ c \in opened[d]
    /\ opened' = [opened EXCEPT ![d] = @ \ {c}]
    /\ inited' = [inited EXCEPT ![d] = @ /\ opened'[d] # {}]
    /\ op' = [op EXCEPT ![d] = [step |-> "release", rx |-> c]]
    /\ UNCHANGED <<phase, refs, table, board, card>>

ReleasePower(d) ==
    /\ op[d].step = "release"
    /\ MldevPowerOff(d, op[d].rx)
    /\ op' = [op EXCEPT ![d] = Idle]
    /\ UNCHANGED <<phase, refs, opened, card>>

-----------------------------------------------------------------------------
(* px4_card_set_power() through px4_device_set_card_power().               *)

CardOnPower(d) ==
    /\ phase[d] = "running"       \* px4_card_request() checks available
    /\ d \in CardUnits
    /\ op[d] = Idle
    /\ ~card[d]
    /\ \E ok \in BOOLEAN :
          /\ MldevCardOn(d, ok)
          /\ op' = [op EXCEPT ![d] = IF ok THEN [step |-> "card"] ELSE Idle]
    /\ UNCHANGED <<phase, refs, opened, card>>

(* it930x_bcas_init() succeeds.                                            *)
CardOnDone(d) ==
    /\ op[d].step = "card"
    /\ card' = [card EXCEPT ![d] = TRUE]
    /\ op' = [op EXCEPT ![d] = Idle]
    /\ UNCHANGED <<phase, refs, table, board, inited, opened>>

(* it930x_bcas_init() fails: the power is given back.                      *)
CardOnFail(d) ==
    /\ op[d].step = "card"
    /\ MldevCardOff(d)
    /\ op' = [op EXCEPT ![d] = Idle]
    /\ UNCHANGED <<phase, refs, opened, card>>

(* PX4_CARD_POWER_OFF, or the close of the card's file.                    *)
CardOff(d) ==
    /\ phase[d] \in {"running", "closing"}
    /\ op[d] = Idle
    /\ card[d]
    /\ MldevCardOff(d)
    /\ card' = [card EXCEPT ![d] = FALSE]
    /\ UNCHANGED <<phase, refs, opened, op>>

-----------------------------------------------------------------------------
(* px4_device_term() and px4_device_release().                             *)

Term(d) ==
    /\ phase[d] = "running"
    /\ op[d] = Idle
    /\ phase' = [phase EXCEPT ![d] = "closing"]
    /\ UNCHANGED <<refs, table, board, inited, opened, card, op>>

CardUnregister(d) ==
    /\ phase[d] = "closing"
    /\ op[d] = Idle
    /\ phase' = [phase EXCEPT ![d] = "unregistered"]
    /\ card' = [card EXCEPT ![d] = FALSE]
    /\ IF card[d] THEN MldevCardOff(d) ELSE UNCHANGED <<table, board, inited>>
    /\ UNCHANGED <<refs, opened, op>>

(* ptx_chrdev_group_destroy(): no further open finds the unit.             *)
GroupDestroy(d) ==
    /\ phase[d] = "unregistered"
    /\ phase' = [phase EXCEPT ![d] = "gone"]
    /\ UNCHANGED <<refs, table, board, inited, opened, card, op>>

(* Mutant: the manager is released twice.                                  *)
DeviceReleaseTwice(d) ==
    /\ phase[d] = "gone"
    /\ op[d] = Idle
    /\ opened[d] = {}
    /\ phase' = [phase EXCEPT ![d] = "absent"]
    /\ attached' = attached \ {d}
    /\ refs' = refs - 2
    /\ UNCHANGED <<power_state, chrdev_state, card_state, board, inited, opened, card, op>>

(* The last reference to the unit is dropped.                              *)
DeviceRelease(d) ==
    /\ phase[d] = "gone"
    /\ op[d] = Idle
    /\ opened[d] = {}
    /\ MldevRemove(d)
    /\ phase' = [phase EXCEPT ![d] = "absent"]
    /\ UNCHANGED <<opened, card, op>>

Step ==
    \E d \in Units :
        \/ Probe(d) \/ SearchFound(d) \/ Alloc(d) \/ Add(d)
        \/ ProbeDone(d) \/ ProbeFail(d)
        \/ \E c \in Receivers : OpenPower(d, c) \/ ReleaseTuner(d, c)
        \/ OpenDone(d) \/ OpenFail(d) \/ ReleasePower(d)
        \/ CardOnPower(d) \/ CardOnDone(d) \/ CardOnFail(d) \/ CardOff(d)
        \/ Term(d) \/ CardUnregister(d) \/ GroupDestroy(d) \/ DeviceRelease(d)

Next == Step /\ UNCHANGED gpioFails

Spec == Init /\ [][Next]_vars

-----------------------------------------------------------------------------
TypeOK ==
    /\ phase \in [Units -> Phases]
    /\ refs \in Nat
    /\ attached \subseteq Units
    /\ power_state \in [Units -> BOOLEAN]
    /\ chrdev_state \in [Units -> SUBSET Receivers]
    /\ card_state \in [Units -> BOOLEAN]
    /\ board \in [Units -> Pins]
    /\ inited \in [Units -> BOOLEAN]
    /\ opened \in [Units -> SUBSET Receivers]
    /\ card \in [Units -> BOOLEAN]
    /\ op \in [Units -> Ops]

Using(d) == opened[d] # {} \/ card[d] \/ op[d].step \in {"open", "card"}

(* While a receiver of the unit is open or being initialised, or its card  *)
(* is powered or being initialised, the GPIO lines of its board are at the *)
(* powered level, whatever the partner does and whichever GPIO write fails *)
(* (px4_mldev_set_power(), px4_mldev_set_card_power()).                    *)
KeepsPower == \A d \in Units : Using(d) => board[d] = PinsOn

(* A unit the manager records as powered has a user of its own, or a       *)
(* partner that requires interlocking: the manager never keeps a board on  *)
(* its books for nobody.                                                   *)
PowerJustified ==
    \A d \in Units :
        power_state[d] =>
            /\ d \in attached
            /\ \/ HasPowerUser(d)
               \/ Other(d) \in attached /\ Interlocks(chrdev_state[Other(d)])

(* The px4_mldev object is alive exactly as long as a unit is attached to  *)
(* it or holds the reference px4_mldev_search() took.                      *)
Holds(d) == IF d \in attached \/ phase[d] = "found" THEN 1 ELSE 0
RefsExact == refs = Holds(0) + Holds(1)

(* The receivers px4_chrdev_open() let in run on tuners initialised since  *)
(* the board was last powered, as long as the GPIO writes work.            *)
Initialised ==
    ~gpioFails => \A d \in Units : opened[d] # {} => inited[d]

(* While a unit requires interlocking, its attached partner is recorded as *)
(* powered (px4_mldev_is_power_interlocking_required()).                   *)
InterlockHeld ==
    ~gpioFails =>
        \A d \in Units :
            d \in attached /\ Interlocks(chrdev_state[d]) /\ Other(d) \in attached
                => power_state[Other(d)]
=============================================================================
