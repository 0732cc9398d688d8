---------------------------- MODULE Px4PowerProofs ----------------------------
(***************************************************************************)
(* The board-power invariants of Px4Power for every power control mode,    *)
(* every set of receivers, with or without failing GPIO writes.            *)
(***************************************************************************)
EXTENDS Px4Power, TLAPS

TableType ==
    /\ attached \subseteq Units
    /\ power_state \in [Units -> BOOLEAN]
    /\ chrdev_state \in [Units -> SUBSET Receivers]
    /\ card_state \in [Units -> BOOLEAN]
    /\ board \in [Units -> Pins]
    /\ inited \in [Units -> BOOLEAN]

(* A slot without a unit is blank.                                         *)
DetachedBlank ==
    \A d \in Units \ attached :
        ~power_state[d] /\ chrdev_state[d] = {} /\ ~card_state[d]

(* A unit recorded as powered really is, and every user is recorded as     *)
(* powered: together they keep the board on under a user.                  *)
RecordedOn == \A d \in Units : power_state[d] => board[d] = PinsOn
UsersPowered == \A d \in Units : HasPowerUser(d) => power_state[d]

TableInv ==
    /\ TableType
    /\ DetachedBlank
    /\ RecordedOn
    /\ UsersPowered
    /\ PowerJustified

(* Which units are attached, in terms of their life.                       *)
AttachedPhases == {"added", "running", "closing", "unregistered", "gone"}
PhaseInv ==
    /\ phase \in [Units -> Phases]
    /\ \A d \in Units : d \in attached <=> phase[d] \in AttachedPhases

(* What px4->lock's holder and the open files rely on is in the table.     *)
UserInv ==
    /\ opened \in [Units -> SUBSET Receivers]
    /\ card \in [Units -> BOOLEAN]
    /\ op \in [Units -> Ops]
    /\ \A d \in Units :
          /\ opened[d] \subseteq chrdev_state[d]
          /\ card[d] => card_state[d]
          /\ op[d].step = "open" => op[d].rx \in chrdev_state[d] \ opened[d]
          /\ op[d].step = "release" => op[d].rx \notin opened[d]
          /\ op[d].step = "card" => card_state[d] /\ ~card[d]
          /\ op[d] # Idle \/ opened[d] # {}
                => phase[d] \in AttachedPhases \ {"added"}
          /\ card[d] \/ op[d].step = "card" => phase[d] \in {"running", "closing"}

IInv == TableInv /\ PhaseInv /\ UserInv /\ RefsExact

-----------------------------------------------------------------------------
(* The two units: each is the other's partner.                             *)
LEMMA OtherUnit ==
    ASSUME NEW d \in Units
    PROVE  /\ Other(d) \in Units
           /\ Other(d) # d
           /\ Other(Other(d)) = d
           /\ \A x \in Units : x = d \/ x = Other(d)
BY DEF Units, Other

(* px4_mldev_is_power_interlocking_required() never asks for a partner's   *)
(* power on behalf of a unit without receivers in use, and opening one     *)
(* more receiver never withdraws a request.                                *)
LEMMA InterlocksFacts ==
    /\ ~Interlocks({})
    /\ \A S : Interlocks(S) \in BOOLEAN
    /\ \A S, T : S \subseteq T /\ Interlocks(S) => Interlocks(T)
BY DEF Interlocks

(* Whatever the GPIO writes of px4_backend_set_power() do, the lines stay  *)
(* lines.                                                                  *)
LEMMA PinOutcomes ==
    /\ PinsOn \in Pins
    /\ PinsOff \in Pins
    /\ \A b \in Pins : TurnOnFailures(b) \subseteq Pins
    /\ \A b \in Pins : [b EXCEPT !.g2 = FALSE] \in Pins
    /\ board \in [Units -> Pins] => \A d \in Units : TurnOff(d) \subseteq Pins
<1>1. PinsOn \in Pins /\ PinsOff \in Pins
  BY DEF PinsOn, PinsOff, Pins
<1>2. \A b \in Pins : TurnOnFailures(b) \subseteq Pins
  BY DEF TurnOnFailures, Pins
<1>3. ASSUME board \in [Units -> Pins], NEW d \in Units
      PROVE  TurnOff(d) \subseteq Pins
  <2>1. board[d] \in Pins
    BY <1>3
  <2> QED
    BY <1>1, <2>1 DEF TurnOff, Pins
<1>4. \A b \in Pins : [b EXCEPT !.g2 = FALSE] \in Pins
  BY DEF Pins
<1> QED
  BY <1>1, <1>2, <1>3, <1>4

-----------------------------------------------------------------------------
(* Each section under mldev->lock keeps TableInv.                          *)

(* Powering a board off may cost the tuners their initialisation, nothing  *)
(* else.                                                                   *)
LEMMA LosesInitType ==
    ASSUME board' \in [Units -> Pins], inited \in [Units -> BOOLEAN], LosesInit
    PROVE  inited' \in [Units -> BOOLEAN]
BY DEF LosesInit

(* px4_mldev_set_power(true) for a receiver of unit d keeps TableInv,      *)
(* whichever GPIO writes fail.                                             *)
LEMMA PowerOnKeepsTable ==
    ASSUME TableInv, NEW d \in Units, NEW c \in Receivers, NEW res,
           d \in attached, MldevPowerOn(d, c, res)
    PROVE  TableInv'
<1> DEFINE o == Other(d)
           first == chrdev_state[d] = {}
           needOwn == first /\ ~power_state[d]
           users == chrdev_state[d] \cup {c}
           needOther == o \in attached /\ Interlocks(users) /\ ~power_state[o]
<1> USE OtherUnit DEF TableInv
<1>1. CASE c \in chrdev_state[d] /\ UNCHANGED <<table, board, inited>>
  BY <1>1 DEF table, TableType, DetachedBlank, RecordedOn, UsersPowered,
              PowerJustified, HasPowerUser
<1>2. CASE /\ c \notin chrdev_state[d]
           /\ needOwn
           /\ \E p \in TurnOnFailures(board[d]) :
                 board' = [board EXCEPT ![d] = p]
           /\ LosesInit
           /\ UNCHANGED table
  <2>1. board' \in [Units -> Pins] /\ \A x \in Units : x # d => board'[x] = board[x]
    BY <1>2, PinOutcomes DEF TableType
  <2>2. inited' \in [Units -> BOOLEAN]
    BY <2>1, <1>2, LosesInitType DEF TableType
  <2> QED
    BY <1>2, <2>1, <2>2 DEF table, TableType, DetachedBlank, RecordedOn,
       UsersPowered, PowerJustified, HasPowerUser
<1>3. CASE /\ c \notin chrdev_state[d]
           /\ chrdev_state' = [chrdev_state EXCEPT ![d] = users]
           /\ \E okOther \in IF needOther /\ gpioFails THEN BOOLEAN ELSE {TRUE} :
                 /\ \E p \in IF ~needOther THEN {board[o]}
                             ELSE IF okOther THEN {PinsOn}
                             ELSE TurnOnFailures(board[o]) :
                       board' = [x \in Units |->
                                   IF x = o THEN p
                                   ELSE IF needOwn THEN PinsOn ELSE board[x]]
                 /\ power_state' = [x \in Units |->
                                      IF x = o
                                      THEN power_state[o] \/ (needOther /\ okOther)
                                      ELSE power_state[d] \/ needOwn]
           /\ LosesInit
           /\ UNCHANGED <<attached, card_state>>
  <2>1. PICK okOther \in BOOLEAN, p \in Pins :
           /\ ~needOther => p = board[o]
           /\ needOther /\ okOther => p = PinsOn
           /\ board' = [x \in Units |->
                          IF x = o THEN p
                          ELSE IF needOwn THEN PinsOn ELSE board[x]]
           /\ power_state' = [x \in Units |->
                                 IF x = o
                                 THEN power_state[o] \/ (needOther /\ okOther)
                                 ELSE power_state[d] \/ needOwn]
    <3>1. PICK ok1 \in IF needOther /\ gpioFails THEN BOOLEAN ELSE {TRUE} :
                 /\ \E p \in IF ~needOther THEN {board[o]}
                             ELSE IF ok1 THEN {PinsOn}
                             ELSE TurnOnFailures(board[o]) :
                       board' = [x \in Units |->
                                   IF x = o THEN p
                                   ELSE IF needOwn THEN PinsOn ELSE board[x]]
                 /\ power_state' = [x \in Units |->
                                      IF x = o
                                      THEN power_state[o] \/ (needOther /\ ok1)
                                      ELSE power_state[d] \/ needOwn]
      BY <1>3
    <3>2. ok1 \in BOOLEAN
      OBVIOUS
    <3>3. PICK p \in IF ~needOther THEN {board[o]}
                    ELSE IF ok1 THEN {PinsOn}
                    ELSE TurnOnFailures(board[o]) :
                       board' = [x \in Units |->
                                   IF x = o THEN p
                                   ELSE IF needOwn THEN PinsOn ELSE board[x]]
      BY <3>1
    <3>4. board[o] \in Pins
      BY DEF TableType
    <3>5. p \in Pins
      BY <3>3, <3>4, PinOutcomes
    <3> QED
      BY <3>1, <3>2, <3>3, <3>5
  <2>2. board' \in [Units -> Pins]
    BY <2>1, PinOutcomes DEF TableType
  <2>3. inited' \in [Units -> BOOLEAN]
    BY <2>2, <1>3, LosesInitType DEF TableType
  <2>4. TableType'
    BY <2>1, <2>2, <2>3, <1>3 DEF TableType
  <2>5. DetachedBlank'
    BY <2>1, <1>3 DEF TableType, DetachedBlank
  <2>6. RecordedOn'
    BY <2>1, <1>3 DEF TableType, RecordedOn
  <2>8. /\ chrdev_state'[d] = users
        /\ chrdev_state'[o] = chrdev_state[o]
        /\ power_state'[o] = (power_state[o] \/ (needOther /\ okOther))
        /\ power_state'[d] = (power_state[d] \/ needOwn)
    BY <2>1, <1>3 DEF TableType
  <2>7. UsersPowered'
    BY <2>8, <1>3 DEF TableType, UsersPowered, HasPowerUser
  <2>9. PowerJustified'
    <3>1. power_state'[d] => HasPowerUser(d)'
      BY <2>8 DEF HasPowerUser
    <3>2. power_state'[o] =>
             /\ o \in attached
             /\ HasPowerUser(o)' \/ Interlocks(users)
      BY <2>8, <1>3, InterlocksFacts DEF PowerJustified, HasPowerUser
    <3> QED
      BY <3>1, <3>2, <2>8, <1>3 DEF PowerJustified
  <2> QED
    BY <2>4, <2>5, <2>6, <2>7, <2>9
<1> QED
  BY <1>1, <1>2, <1>3 DEF MldevPowerOn

(* px4_mldev_set_power(false) for a receiver of unit d keeps TableInv.     *)
LEMMA PowerOffKeepsTable ==
    ASSUME TableInv, NEW d \in Units, NEW c,
           d \in attached, MldevPowerOff(d, c)
    PROVE  TableInv'
<1> DEFINE o == Other(d)
           users == chrdev_state[d] \ {c}
           offOwn == /\ users = {}
                     /\ power_state[d]
                     /\ ~card_state[d]
                     /\ ~Interlocks(chrdev_state[o])
           offOther == /\ o \in attached
                       /\ ~Interlocks(users)
                       /\ power_state[o]
                       /\ ~HasPowerUser(o)
<1> USE OtherUnit DEF TableInv
<1>1. CASE c \notin chrdev_state[d] /\ UNCHANGED <<table, board, inited>>
  BY <1>1 DEF table, TableType, DetachedBlank, RecordedOn, UsersPowered,
              PowerJustified, HasPowerUser
<1>2. CASE /\ c \in chrdev_state[d]
           /\ chrdev_state' = [chrdev_state EXCEPT ![d] = users]
           /\ power_state' = [x \in Units |->
                 power_state[x] /\ IF x = d THEN ~offOwn ELSE ~offOther]
           /\ \E p \in IF offOwn THEN TurnOff(d) ELSE {board[d]},
                 q \in IF offOther THEN TurnOff(o) ELSE {board[o]} :
                 board' = [x \in Units |-> IF x = d THEN p ELSE q]
           /\ LosesInit
           /\ UNCHANGED <<attached, card_state>>
  <2>1. PICK p \in IF offOwn THEN TurnOff(d) ELSE {board[d]},
             q \in IF offOther THEN TurnOff(o) ELSE {board[o]} :
             board' = [x \in Units |-> IF x = d THEN p ELSE q]
    BY <1>2
  <2>2. p \in Pins /\ q \in Pins
    BY <2>1, PinOutcomes DEF TableType
  <2>3. board' \in [Units -> Pins]
    BY <2>1, <2>2
  <2>4. inited' \in [Units -> BOOLEAN]
    BY <2>3, <1>2, LosesInitType DEF TableType
  <2>5. /\ chrdev_state'[d] = users
        /\ chrdev_state'[o] = chrdev_state[o]
        /\ power_state'[d] = (power_state[d] /\ ~offOwn)
        /\ power_state'[o] = (power_state[o] /\ ~offOther)
    BY <1>2 DEF TableType
  <2>6. TableType'
    BY <1>2, <2>3, <2>4 DEF TableType
  <2>7. DetachedBlank'
    BY <1>2, <2>5 DEF TableType, DetachedBlank
  <2>8. RecordedOn'
    BY <2>1, <2>5, <1>2 DEF TableType, RecordedOn
  <2>9. UsersPowered'
    BY <2>5, <1>2 DEF TableType, UsersPowered, HasPowerUser
  <2>10. PowerJustified'
    <3>1. power_state'[d] =>
             /\ d \in attached
             /\ \/ HasPowerUser(d)'
                \/ o \in attached /\ Interlocks(chrdev_state[o])
      BY <2>5, <1>2, InterlocksFacts DEF DetachedBlank, HasPowerUser
    <3>2. power_state'[o] =>
             /\ o \in attached
             /\ HasPowerUser(o)' \/ Interlocks(users)
      BY <2>5, <1>2 DEF PowerJustified, HasPowerUser
    <3> QED
      BY <3>1, <3>2, <2>5, <1>2 DEF PowerJustified
  <2> QED
    BY <2>6, <2>7, <2>8, <2>9, <2>10
<1> QED
  BY <1>1, <1>2 DEF MldevPowerOff

(* px4_mldev_set_card_power(true) keeps TableInv, whichever GPIO write     *)
(* fails.                                                                  *)
LEMMA CardOnKeepsTable ==
    ASSUME TableInv, NEW d \in Units, NEW ok,
           d \in attached, MldevCardOn(d, ok)
    PROVE  TableInv'
<1> DEFINE need == ~card_state[d] /\ chrdev_state[d] = {} /\ ~power_state[d]
<1> USE OtherUnit DEF TableInv
<1>1. CASE /\ need
           /\ \E p \in TurnOnFailures(board[d]) :
                 board' = [board EXCEPT ![d] = p]
           /\ LosesInit
           /\ UNCHANGED table
  <2>1. board' \in [Units -> Pins] /\ \A x \in Units : x # d => board'[x] = board[x]
    BY <1>1, PinOutcomes DEF TableType
  <2>2. inited' \in [Units -> BOOLEAN]
    BY <2>1, <1>1, LosesInitType DEF TableType
  <2> QED
    BY <1>1, <2>1, <2>2 DEF table, TableType, DetachedBlank, RecordedOn,
       UsersPowered, PowerJustified, HasPowerUser
<1>2. CASE /\ card_state' = [card_state EXCEPT ![d] = TRUE]
           /\ power_state' = [power_state EXCEPT ![d] = @ \/ need]
           /\ board' = [board EXCEPT ![d] = IF need THEN PinsOn ELSE @]
           /\ LosesInit
           /\ UNCHANGED <<attached, chrdev_state>>
  <2>1. board' \in [Units -> Pins]
    BY <1>2, PinOutcomes DEF TableType
  <2>2. inited' \in [Units -> BOOLEAN]
    BY <2>1, <1>2, LosesInitType DEF TableType
  <2>3. TableType'
    BY <1>2, <2>1, <2>2 DEF TableType
  <2>4. DetachedBlank' /\ RecordedOn' /\ UsersPowered'
    BY <1>2 DEF TableType, DetachedBlank, RecordedOn, UsersPowered, HasPowerUser
  <2>5. PowerJustified'
    BY <1>2 DEF TableType, PowerJustified, HasPowerUser
  <2> QED
    BY <2>3, <2>4, <2>5
<1> QED
  BY <1>1, <1>2 DEF MldevCardOn

(* px4_mldev_set_card_power(false) keeps TableInv: it turns a board off    *)
(* only when no receiver of it is in use and no partner needs it.          *)
LEMMA CardOffKeepsTable ==
    ASSUME TableInv, NEW d \in Units, d \in attached, MldevCardOff(d)
    PROVE  TableInv'
<1> DEFINE off == /\ card_state[d]
                  /\ chrdev_state[d] = {}
                  /\ ~Interlocks(chrdev_state[Other(d)])
                  /\ power_state[d]
<1> USE OtherUnit DEF TableInv
<1>1. PICK p \in IF off THEN TurnOff(d) ELSE {board[d]} :
         board' = [board EXCEPT ![d] = p]
  BY DEF MldevCardOff
<1>2. p \in Pins
  BY <1>1, PinOutcomes DEF TableType
<1>3. board' \in [Units -> Pins]
  BY <1>1, <1>2 DEF TableType
<1>4. inited' \in [Units -> BOOLEAN]
  BY <1>3, LosesInitType DEF TableType, MldevCardOff
<1>5. /\ card_state' = [card_state EXCEPT ![d] = FALSE]
      /\ power_state' = [power_state EXCEPT ![d] = @ /\ ~off]
      /\ UNCHANGED <<attached, chrdev_state>>
  BY DEF MldevCardOff
<1>6. TableType'
  BY <1>3, <1>4, <1>5 DEF TableType
<1>7. DetachedBlank' /\ RecordedOn' /\ UsersPowered'
  BY <1>1, <1>5 DEF TableType, DetachedBlank, RecordedOn, UsersPowered, HasPowerUser
<1>8. PowerJustified'
  <2>1. power_state'[d] => HasPowerUser(d)' \/ Interlocks(chrdev_state[Other(d)])
    BY <1>5 DEF TableType, PowerJustified, HasPowerUser
  <2>2. Interlocks(chrdev_state[Other(d)]) => Other(d) \in attached
    BY InterlocksFacts DEF DetachedBlank
  <2>3. power_state'[Other(d)] = power_state[Other(d)]
        /\ HasPowerUser(Other(d))' = HasPowerUser(Other(d))
    BY <1>5 DEF TableType, HasPowerUser
  <2> QED
    BY <1>5, <2>1, <2>2, <2>3 DEF TableType, PowerJustified
<1> QED
  BY <1>6, <1>7, <1>8

(* px4_mldev_remove() keeps TableInv: the table of the unit that leaves is *)
(* cleared and the partner's board stays powered only for the partner.     *)
LEMMA RemoveKeepsTable ==
    ASSUME TableInv, NEW d \in Units, MldevRemove(d)
    PROVE  TableInv'
<1> DEFINE o == Other(d)
           offOther == o \in attached /\ ~HasPowerUser(o) /\ power_state[o]
<1> USE OtherUnit DEF TableInv
<1>1. PICK p \in IF power_state[d] THEN TurnOff(d) ELSE {board[d]},
           q \in IF offOther THEN TurnOff(o) ELSE {board[o]} :
         board' = [x \in Units |-> IF x = d THEN p ELSE q]
  BY DEF MldevRemove
<1>2. p \in Pins /\ q \in Pins
  BY <1>1, PinOutcomes DEF TableType
<1>3. board' \in [Units -> Pins]
  BY <1>1, <1>2
<1>4. inited' \in [Units -> BOOLEAN]
  BY <1>3, LosesInitType DEF TableType, MldevRemove
<1>5. /\ attached' = attached \ {d}
      /\ chrdev_state' = [chrdev_state EXCEPT ![d] = {}]
      /\ card_state' = [card_state EXCEPT ![d] = FALSE]
      /\ power_state' = [x \in Units |->
            IF x = d THEN FALSE ELSE power_state[x] /\ ~offOther]
  BY DEF MldevRemove
<1>6. TableType'
  BY <1>3, <1>4, <1>5 DEF TableType
<1>7. DetachedBlank'
  BY <1>5 DEF TableType, DetachedBlank
<1>8. RecordedOn'
  BY <1>1, <1>5 DEF TableType, RecordedOn
<1>9. /\ power_state'[o] = (power_state[o] /\ ~offOther)
      /\ power_state'[d] = FALSE
  BY <1>5
<1>10. /\ chrdev_state'[o] = chrdev_state[o]
       /\ chrdev_state'[d] = {}
  BY <1>5 DEF TableType
<1>11. /\ card_state'[o] = card_state[o]
       /\ card_state'[d] = FALSE
  BY <1>5 DEF TableType
<1>12. UsersPowered'
  BY <1>9, <1>10, <1>11 DEF TableType, UsersPowered, HasPowerUser
<1>13. PowerJustified'
  BY <1>5, <1>9, <1>10, <1>11 DEF TableType, PowerJustified, HasPowerUser
<1> QED
  BY <1>6, <1>7, <1>8, <1>12, <1>13

-----------------------------------------------------------------------------
(* The steps of the units, grouped by what they do to the table.           *)

(* px4_mldev_set_power(true) leaves membership, the cards and the partner's *)
(* receivers alone; when it succeeds the receiver is recorded.             *)
LEMMA PowerOnFrame ==
    ASSUME TableType, NEW d \in Units, NEW c \in Receivers,
           NEW res \in [ok : BOOLEAN, first : BOOLEAN], MldevPowerOn(d, c, res)
    PROVE  /\ UNCHANGED <<attached, card_state>>
           /\ chrdev_state[d] \subseteq chrdev_state'[d]
           /\ chrdev_state'[Other(d)] = chrdev_state[Other(d)]
           /\ res.ok => c \in chrdev_state'[d]
<1> USE OtherUnit DEF TableType
<1>1. CASE c \in chrdev_state[d] /\ UNCHANGED table
  BY <1>1 DEF table
<1>2. CASE res = [ok |-> FALSE, first |-> FALSE] /\ UNCHANGED table
  BY <1>2 DEF table
<1>3. CASE /\ chrdev_state' = [chrdev_state EXCEPT ![d] = chrdev_state[d] \cup {c}]
           /\ UNCHANGED <<attached, card_state>>
  BY <1>3
<1> QED
  BY <1>1, <1>2, <1>3 DEF MldevPowerOn

(* px4_mldev_set_power(false) takes the receiver out of the table and      *)
(* leaves membership, the cards and the partner's receivers alone.         *)
LEMMA PowerOffFrame ==
    ASSUME TableType, NEW d \in Units, NEW c, MldevPowerOff(d, c)
    PROVE  /\ UNCHANGED <<attached, card_state>>
           /\ chrdev_state'[d] = chrdev_state[d] \ {c}
           /\ chrdev_state'[Other(d)] = chrdev_state[Other(d)]
<1> USE OtherUnit DEF TableType
<1>1. CASE c \notin chrdev_state[d] /\ UNCHANGED table
  BY <1>1 DEF table
<1>2. CASE /\ chrdev_state' = [chrdev_state EXCEPT ![d] = chrdev_state[d] \ {c}]
           /\ UNCHANGED <<attached, card_state>>
  BY <1>2
<1> QED
  BY <1>1, <1>2 DEF MldevPowerOff

(* OpenPower of unit d, px4_mldev_set_power(true) inside an open, keeps    *)
(* IInv.                                                                   *)
LEMMA OpenPowerStep ==
    ASSUME IInv, NEW d \in Units, NEW c \in Receivers, OpenPower(d, c)
    PROVE  IInv'
<1>1. PICK res \in [ok : BOOLEAN, first : BOOLEAN] :
         /\ MldevPowerOn(d, c, res)
         /\ op' = [op EXCEPT ![d] =
                      IF res.ok
                      THEN [step |-> "open", rx |-> c, first |-> res.first]
                      ELSE Idle]
  BY DEF OpenPower
<1>2. d \in attached
  BY DEF OpenPower, Openable, IInv, PhaseInv, AttachedPhases
<1>3. TableInv'
  BY <1>1, <1>2, PowerOnKeepsTable DEF IInv
<1>4. /\ UNCHANGED <<attached, card_state, phase, refs, opened, card>>
      /\ chrdev_state[d] \subseteq chrdev_state'[d]
      /\ chrdev_state'[Other(d)] = chrdev_state[Other(d)]
      /\ res.ok => c \in chrdev_state'[d]
  BY <1>1, PowerOnFrame DEF OpenPower, IInv, TableInv
<1>5. PhaseInv'
  BY <1>4 DEF IInv, PhaseInv
<1>6. UserInv'
  <2>1. op' \in [Units -> Ops]
    BY <1>1 DEF IInv, UserInv, Ops, Idle
  <2>2. ASSUME NEW x \in Units, x # d
        PROVE  op'[x] = op[x] /\ chrdev_state'[x] = chrdev_state[x]
    BY <1>1, <1>4, <2>2, OtherUnit DEF IInv, UserInv
  <2>3. /\ op'[d] # Idle => /\ op'[d].step = "open"
                            /\ op'[d].rx \in chrdev_state'[d] \ opened[d]
        /\ phase[d] \in AttachedPhases \ {"added"}
    BY <1>1, <1>4 DEF IInv, UserInv, Idle, OpenPower, Openable, AttachedPhases
  <2> QED
    BY <1>4, <2>1, <2>2, <2>3 DEF IInv, UserInv, Idle
<1>7. RefsExact'
  BY <1>4 DEF IInv, RefsExact, Holds
<1> QED
  BY <1>3, <1>5, <1>6, <1>7 DEF IInv

(* A step that gives a receiver's power back and frees px4->lock.          *)
LEMMA PowerOffStep ==
    ASSUME IInv, NEW d \in Units, op[d].step \in {"open", "release"},
           MldevPowerOff(d, op[d].rx), op' = [op EXCEPT ![d] = Idle],
           UNCHANGED <<phase, refs, opened, card>>
    PROVE  IInv'
<1> DEFINE c == op[d].rx
<1>1. d \in attached
  BY DEF IInv, UserInv, PhaseInv, Idle
<1>2. TableInv'
  BY <1>1, PowerOffKeepsTable DEF IInv
<1>3. /\ UNCHANGED <<attached, card_state>>
      /\ chrdev_state'[d] = chrdev_state[d] \ {c}
      /\ chrdev_state'[Other(d)] = chrdev_state[Other(d)]
  BY PowerOffFrame DEF IInv, TableInv
<1>4. PhaseInv' /\ RefsExact'
  BY <1>3 DEF IInv, PhaseInv, RefsExact, Holds
<1>5. UserInv'
  <2>1. op' \in [Units -> Ops]
    BY DEF IInv, UserInv, Ops
  <2>2. ASSUME NEW x \in Units, x # d
        PROVE  op'[x] = op[x] /\ chrdev_state'[x] = chrdev_state[x]
    BY <1>3, <2>2, OtherUnit DEF IInv, UserInv
  <2>3. op'[d] = Idle /\ opened[d] \subseteq chrdev_state'[d]
    BY <1>3 DEF IInv, UserInv
  <2> QED
    BY <1>3, <2>1, <2>2, <2>3 DEF IInv, UserInv, Idle
<1> QED
  BY <1>2, <1>4, <1>5 DEF IInv

(* A step that leaves the manager's table and the boards alone keeps       *)
(* TableInv when it can only change inited.                                *)
LEMMA SameTable ==
    ASSUME TableInv, UNCHANGED <<table, board>>, inited' \in [Units -> BOOLEAN]
    PROVE  TableInv'
BY DEF table, TableInv, TableType, DetachedBlank, RecordedOn, UsersPowered,
       PowerJustified, HasPowerUser

(* Every step of px4_chrdev_open() and px4_chrdev_release() keeps IInv.    *)
LEMMA ReceiverStep ==
    ASSUME IInv, NEW d \in Units, NEW c \in Receivers,
           OpenDone(d) \/ ReleaseTuner(d, c)
    PROVE  IInv'
<1>1. CASE OpenDone(d)
  <2>1. inited' \in [Units -> BOOLEAN]
    <3>1. op[d].first \in BOOLEAN
      BY <1>1 DEF OpenDone, IInv, UserInv, Ops, Idle
    <3> QED
      BY <1>1, <3>1 DEF OpenDone, IInv, TableInv, TableType
  <2>2. TableInv'
    BY <1>1, <2>1, SameTable DEF OpenDone, IInv
  <2>3. PhaseInv' /\ RefsExact'
    BY <1>1 DEF OpenDone, table, IInv, PhaseInv, RefsExact, Holds
  <2>4. UserInv'
    <3>1. op[d].rx \in Receivers
      BY <1>1 DEF OpenDone, IInv, UserInv, Ops, Idle
    <3>2. op' \in [Units -> Ops] /\ opened' \in [Units -> SUBSET Receivers]
      BY <1>1, <3>1 DEF OpenDone, IInv, UserInv, Ops
    <3> QED
      BY <1>1, <3>1, <3>2 DEF OpenDone, table, IInv, UserInv, Idle, AttachedPhases
  <2> QED
    BY <2>2, <2>3, <2>4 DEF IInv
<1>2. CASE ReleaseTuner(d, c)
  <2>1. inited' \in [Units -> BOOLEAN]
    BY <1>2 DEF ReleaseTuner, IInv, TableInv, TableType
  <2>2. TableInv'
    BY <1>2, <2>1, SameTable DEF ReleaseTuner, IInv
  <2>3. PhaseInv' /\ RefsExact'
    BY <1>2 DEF ReleaseTuner, table, IInv, PhaseInv, RefsExact, Holds
  <2>4. UserInv'
    <3>1. op' \in [Units -> Ops] /\ opened' \in [Units -> SUBSET Receivers]
      BY <1>2 DEF ReleaseTuner, IInv, UserInv, Ops
    <3> QED
      BY <1>2, <3>1 DEF ReleaseTuner, table, IInv, UserInv, Idle
  <2> QED
    BY <2>2, <2>3, <2>4 DEF IInv
<1> QED
  BY <1>1, <1>2

(* Every step of px4_card_set_power(true) before it fails keeps IInv.      *)
LEMMA CardOnStep ==
    ASSUME IInv, NEW d \in Units, CardOnPower(d) \/ CardOnDone(d)
    PROVE  IInv'
<1>1. CASE CardOnPower(d)
  <2>1. PICK ok \in BOOLEAN :
           /\ MldevCardOn(d, ok)
           /\ op' = [op EXCEPT ![d] = IF ok THEN [step |-> "card"] ELSE Idle]
    BY <1>1 DEF CardOnPower
  <2>2. d \in attached
    BY <1>1 DEF CardOnPower, IInv, PhaseInv, AttachedPhases
  <2>3. TableInv'
    BY <2>1, <2>2, CardOnKeepsTable DEF IInv
  <2>4. /\ UNCHANGED <<attached, chrdev_state, phase, refs, opened, card>>
        /\ \/ card_state' = [card_state EXCEPT ![d] = TRUE]
           \/ ~ok /\ card_state' = card_state
    BY <2>1, <1>1 DEF CardOnPower, MldevCardOn, table
  <2>5. PhaseInv' /\ RefsExact'
    BY <2>4 DEF IInv, PhaseInv, RefsExact, Holds
  <2>6. UserInv'
    <3>1. op' \in [Units -> Ops]
      BY <2>1 DEF IInv, UserInv, Ops
    <3>2. ASSUME NEW x \in Units, card_state[x]
          PROVE  card_state'[x]
      BY <2>4, <3>2 DEF IInv, TableInv, TableType
    <3>3. ok => card_state'[d]
      BY <2>4 DEF IInv, TableInv, TableType
    <3>4. op'[d].step = "card" => ok
      BY <2>1 DEF Idle, IInv, UserInv
    <3> QED
      BY <1>1, <2>1, <2>4, <3>1, <3>2, <3>3, <3>4
         DEF CardOnPower, IInv, UserInv, Idle, AttachedPhases
  <2> QED
    BY <2>3, <2>5, <2>6 DEF IInv
<1>2. CASE CardOnDone(d)
  <2>1. TableInv'
    BY <1>2, SameTable DEF CardOnDone, IInv, TableInv, TableType
  <2>2. PhaseInv' /\ RefsExact'
    BY <1>2 DEF CardOnDone, table, IInv, PhaseInv, RefsExact, Holds
  <2>3. UserInv'
    <3>1. op' \in [Units -> Ops]
      BY <1>2 DEF CardOnDone, IInv, UserInv, Ops
    <3>2. card' \in [Units -> BOOLEAN] /\ \A x \in Units : card'[x] => card[x] \/ x = d
      BY <1>2 DEF CardOnDone, IInv, UserInv
    <3> QED
      BY <1>2, <3>1, <3>2 DEF CardOnDone, table, IInv, UserInv, Idle
  <2> QED
    BY <2>1, <2>2, <2>3 DEF IInv
<1> QED
  BY <1>1, <1>2

(* The card's power is given back: CardOnFail, CardOff and CardUnregister. *)
LEMMA CardOffStep ==
    ASSUME IInv, NEW d \in Units, MldevCardOff(d), d \in attached,
           op' = [op EXCEPT ![d] = Idle], card' = [card EXCEPT ![d] = FALSE],
           op[d] = Idle \/ op[d].step = "card",
           \/ phase' = phase
           \/ phase[d] = "closing" /\ phase' = [phase EXCEPT ![d] = "unregistered"],
           UNCHANGED <<refs, opened>>
    PROVE  IInv'
<1>1. TableInv'
  BY CardOffKeepsTable DEF IInv
<1>2. /\ UNCHANGED <<attached, chrdev_state>>
      /\ card_state' = [card_state EXCEPT ![d] = FALSE]
  BY DEF MldevCardOff
<1>5. /\ phase' \in [Units -> Phases]
      /\ \A x \in Units :
            /\ phase'[x] \in AttachedPhases <=> phase[x] \in AttachedPhases
            /\ phase'[x] = "found" <=> phase[x] = "found"
            /\ phase'[x] = "added" <=> phase[x] = "added"
            /\ x # d => phase'[x] = phase[x]
  BY DEF IInv, PhaseInv, Phases, AttachedPhases
<1>3. PhaseInv' /\ RefsExact'
  BY <1>2, <1>5 DEF IInv, PhaseInv, RefsExact, Holds, Units
<1>4. UserInv'
  <2>1. op' \in [Units -> Ops] /\ card' \in [Units -> BOOLEAN]
    BY DEF IInv, UserInv, Ops
  <2>2. op'[d] = Idle /\ ~card'[d]
    BY DEF IInv, UserInv
  <2>3. ASSUME NEW x \in Units, x # d
        PROVE  op'[x] = op[x] /\ card'[x] = card[x] /\ card_state'[x] = card_state[x]
    BY <1>2, <2>3 DEF IInv, UserInv, TableInv, TableType
  <2> QED
    BY <1>2, <1>5, <2>1, <2>2, <2>3 DEF IInv, UserInv, Idle
<1> QED
  BY <1>1, <1>3, <1>4 DEF IInv

(* A unit leaves the manager: a failed probe or the last reference dropped *)
LEMMA RemoveStep ==
    ASSUME IInv, NEW d \in Units, d \in attached, MldevRemove(d),
           opened[d] = {}, op[d] = Idle, ~card[d],
           phase' = [phase EXCEPT ![d] = "absent"],
           UNCHANGED <<opened, card, op>>
    PROVE  IInv'
<1> USE OtherUnit
<1>1. TableInv'
  BY RemoveKeepsTable DEF IInv
<1>2. /\ attached' = attached \ {d}
      /\ chrdev_state' = [chrdev_state EXCEPT ![d] = {}]
      /\ card_state' = [card_state EXCEPT ![d] = FALSE]
      /\ refs' = refs - 1
  BY DEF MldevRemove
<1>3. PhaseInv'
  BY <1>2 DEF IInv, PhaseInv, Phases, AttachedPhases
<1>4. UserInv'
  <2>1. ASSUME NEW x \in Units, x # d
        PROVE  /\ chrdev_state'[x] = chrdev_state[x]
               /\ card_state'[x] <=> card_state[x]
               /\ phase'[x] = phase[x]
    BY <1>2, <2>1 DEF IInv, TableInv, TableType, PhaseInv
  <2> QED
    BY <1>2, <2>1 DEF IInv, UserInv, Idle
<1>5. RefsExact'
  BY <1>2 DEF IInv, PhaseInv, RefsExact, Holds, Units
<1> QED
  BY <1>1, <1>3, <1>4, <1>5 DEF IInv

(* The probe of a unit up to its registration with the manager.            *)
LEMMA ProbeStep ==
    ASSUME IInv, NEW d \in Units,
           Probe(d) \/ SearchFound(d) \/ Alloc(d) \/ Add(d)
    PROVE  IInv'
<1> USE OtherUnit
<1>1. CASE Probe(d)
  <2>1. d \notin attached
    BY <1>1 DEF Probe, IInv, PhaseInv, AttachedPhases
  <2>2. board' \in [Units -> Pins] /\ \A x \in Units : x # d => board'[x] = board[x]
    <3>1. board[d] \in Pins
      BY DEF IInv, TableInv, TableType
    <3>2. \E p \in Pins : board' = [board EXCEPT ![d] = p]
      BY <1>1, <3>1, PinOutcomes DEF Probe
    <3> QED
      BY <3>2 DEF IInv, TableInv, TableType
  <2>3. inited' \in [Units -> BOOLEAN]
    BY <1>1, <2>2, LosesInitType DEF Probe, IInv, TableInv, TableType
  <2>4. TableInv'
    BY <1>1, <2>1, <2>2, <2>3 DEF Probe, table, IInv, TableInv, TableType,
       DetachedBlank, RecordedOn, UsersPowered, PowerJustified, HasPowerUser
  <2>5. /\ phase' \in [Units -> Phases]
        /\ \A x \in Units :
             /\ phase'[x] \in AttachedPhases <=> phase[x] \in AttachedPhases
             /\ phase'[x] = "found" <=> phase[x] = "found"
             /\ phase[x] \in AttachedPhases => phase'[x] = phase[x]
    BY <1>1 DEF Probe, IInv, PhaseInv, Phases, AttachedPhases
  <2>6. PhaseInv' /\ RefsExact'
    BY <1>1, <2>5 DEF Probe, table, IInv, PhaseInv, RefsExact, Holds, Units
  <2>7. UserInv'
    BY <1>1, <2>5 DEF Probe, table, IInv, UserInv, AttachedPhases
  <2> QED
    BY <2>4, <2>6, <2>7 DEF IInv
<1>2. CASE SearchFound(d)
  <2>1. TableInv'
    BY <1>2, SameTable DEF SearchFound, IInv, TableInv, TableType
  <2>2. PhaseInv'
    BY <1>2 DEF SearchFound, table, IInv, PhaseInv, Phases, AttachedPhases
  <2>3. RefsExact'
    BY <1>2 DEF SearchFound, table, IInv, PhaseInv, AttachedPhases, RefsExact,
       Holds, Units
  <2>4. UserInv'
    BY <1>2 DEF SearchFound, table, IInv, PhaseInv, UserInv, AttachedPhases
  <2> QED
    BY <2>1, <2>2, <2>3, <2>4 DEF IInv
<1>3. CASE Alloc(d)
  <2>1. attached = {} /\ \A x \in Units : phase[x] # "found"
    BY <1>3 DEF Alloc, IInv, TableInv, TableType, RefsExact, Holds, Units
  <2>2. TableInv'
    BY <1>3 DEF Alloc, IInv, TableInv, TableType, DetachedBlank, RecordedOn,
       UsersPowered, PowerJustified, HasPowerUser
  <2>3. PhaseInv'
    BY <1>3, <2>1 DEF Alloc, IInv, PhaseInv, Phases, AttachedPhases
  <2>4. RefsExact'
    BY <1>3, <2>1 DEF Alloc, IInv, PhaseInv, RefsExact, Holds, Units
  <2>5. UserInv'
    BY <1>3, <2>1 DEF Alloc, IInv, PhaseInv, UserInv, TableInv, DetachedBlank,
       AttachedPhases
  <2> QED
    BY <2>2, <2>3, <2>4, <2>5 DEF IInv
<1>4. CASE Add(d)
  <2> DEFINE need == Interlocks(chrdev_state[Other(d)])
  <2>1. d \notin attached
    BY <1>4 DEF Add, IInv, PhaseInv, AttachedPhases
  <2>2. need \in BOOLEAN /\ (need => Other(d) \in attached)
    BY InterlocksFacts DEF IInv, TableInv, DetachedBlank
  <2>3. /\ chrdev_state' = [chrdev_state EXCEPT ![d] = {}]
        /\ card_state' = [card_state EXCEPT ![d] = FALSE]
        /\ UNCHANGED <<opened, card, op>>
        /\ phase[d] = "found"
        /\ LosesInit
    BY <1>4 DEF Add
  <2>4. /\ opened[d] = {} /\ op[d] = Idle /\ ~card[d]
        /\ chrdev_state' = chrdev_state
    BY <2>1, <2>3 DEF IInv, UserInv, TableInv, TableType, DetachedBlank, AttachedPhases
  <2>5. card_state' = card_state
    BY <2>1, <2>3 DEF IInv, TableInv, TableType, DetachedBlank
  <2>6. CASE /\ phase' = [phase EXCEPT ![d] = "added"]
             /\ attached' = attached \cup {d}
             /\ power_state' = [power_state EXCEPT ![d] = need]
             /\ board' = [board EXCEPT ![d] = IF need THEN PinsOn ELSE @]
             /\ UNCHANGED refs
    <3>1. board' \in [Units -> Pins]
      BY <2>6, PinOutcomes DEF IInv, TableInv, TableType
    <3>2. inited' \in [Units -> BOOLEAN]
      BY <3>1, <2>3, LosesInitType DEF IInv, TableInv, TableType
    <3>3. TableType'
      BY <3>1, <3>2, <2>2, <2>4, <2>5, <2>6 DEF IInv, TableInv, TableType
    <3>4. DetachedBlank' /\ RecordedOn'
      BY <2>1, <2>2, <2>4, <2>5, <2>6
         DEF IInv, TableInv, TableType, DetachedBlank, RecordedOn
    <3>5. UsersPowered'
      BY <2>1, <2>2, <2>4, <2>5, <2>6
         DEF IInv, TableInv, TableType, DetachedBlank, UsersPowered, HasPowerUser
    <3>6. PowerJustified'
      BY <2>1, <2>2, <2>4, <2>5, <2>6
         DEF IInv, TableInv, TableType, PowerJustified, HasPowerUser
    <3>7. PhaseInv'
      BY <2>6 DEF IInv, PhaseInv, Phases, AttachedPhases
    <3>8. RefsExact'
      BY <2>1, <2>3, <2>6 DEF IInv, PhaseInv, RefsExact, Holds, Units
    <3>9. UserInv'
      BY <2>3, <2>4, <2>5, <2>6 DEF IInv, PhaseInv, UserInv, Idle
    <3> QED
      BY <3>3, <3>4, <3>5, <3>6, <3>7, <3>8, <3>9 DEF IInv, TableInv
  <2>7. CASE /\ phase' = [phase EXCEPT ![d] = "absent"]
             /\ power_state' = [power_state EXCEPT ![d] = FALSE]
             /\ \E p \in TurnOnFailures(board[d]) :
                    board' = [board EXCEPT ![d] = p]
             /\ refs' = refs - 1
             /\ UNCHANGED attached
    <3>1. /\ board' \in [Units -> Pins]
          /\ \A x \in Units : x # d => board'[x] = board[x]
      BY <2>7, PinOutcomes DEF IInv, TableInv, TableType
    <3>2. inited' \in [Units -> BOOLEAN]
      BY <3>1, <2>3, LosesInitType DEF IInv, TableInv, TableType
    <3>3. power_state' = power_state
      BY <2>1, <2>7 DEF IInv, TableInv, TableType, DetachedBlank
    <3>4. TableInv'
      BY <3>1, <3>2, <3>3, <2>1, <2>4, <2>5, <2>7 DEF IInv, TableInv, TableType,
         DetachedBlank, RecordedOn, UsersPowered, PowerJustified, HasPowerUser
    <3>5. PhaseInv'
      BY <2>1, <2>7 DEF IInv, PhaseInv, Phases, AttachedPhases
    <3>6. RefsExact'
      BY <2>1, <2>3, <2>7 DEF IInv, PhaseInv, RefsExact, Holds, Units
    <3>7. UserInv'
      BY <2>3, <2>4, <2>5, <2>7 DEF IInv, PhaseInv, UserInv, Idle
    <3> QED
      BY <3>4, <3>5, <3>6, <3>7 DEF IInv
  <2> QED
    BY <1>4, <2>6, <2>7 DEF Add
<1> QED
  BY <1>1, <1>2, <1>3, <1>4

(* The steps that only advance a unit's life.                              *)
LEMMA LifeStep ==
    ASSUME IInv, NEW d \in Units, ProbeDone(d) \/ Term(d) \/ GroupDestroy(d)
    PROVE  IInv'
<1>1. /\ UNCHANGED <<refs, table, board, inited, opened, card, op>>
      /\ phase[d] \in {"added", "running", "unregistered"}
      /\ \E q \in {"running", "closing", "gone"} : phase' = [phase EXCEPT ![d] = q]
      /\ phase[d] = "unregistered" \/ phase'[d] # "gone"
  BY DEF ProbeDone, Term, GroupDestroy, IInv, PhaseInv
<1>2. TableInv'
  BY <1>1, SameTable DEF IInv, TableInv, TableType
<1>3. /\ phase' \in [Units -> Phases]
      /\ \A x \in Units :
            /\ phase'[x] \in AttachedPhases <=> phase[x] \in AttachedPhases
            /\ phase'[x] = "found" <=> phase[x] = "found"
            /\ phase'[x] = "added" => phase[x] = "added"
            /\ phase[x] \in {"running", "closing"} => phase'[x] \in {"running", "closing"}
  BY <1>1 DEF IInv, PhaseInv, Phases, AttachedPhases
<1>4. PhaseInv' /\ RefsExact'
  BY <1>1, <1>3 DEF table, IInv, PhaseInv, RefsExact, Holds, Units
<1>5. UserInv'
  BY <1>1, <1>3 DEF table, IInv, UserInv
<1> QED
  BY <1>2, <1>4, <1>5 DEF IInv

(* The rest of a unit's steps, each an instance of one of the above.       *)
LEMMA CardAndRemoveSteps ==
    ASSUME IInv, NEW d \in Units,
           \/ CardOnFail(d) \/ CardOff(d) \/ CardUnregister(d)
           \/ ProbeFail(d) \/ DeviceRelease(d)
    PROVE  IInv'
<1>1. CASE CardOnFail(d) \/ CardOff(d)
  <2>1. /\ MldevCardOff(d)
        /\ op[d] = Idle \/ op[d].step = "card"
        /\ UNCHANGED <<phase, refs, opened>>
    BY <1>1 DEF CardOnFail, CardOff
  <2>2. d \in attached
    BY <1>1 DEF CardOnFail, CardOff, IInv, UserInv, PhaseInv, AttachedPhases, Idle
  <2>3. op' = [op EXCEPT ![d] = Idle]
    BY <1>1 DEF CardOnFail, CardOff, IInv, UserInv
  <2>4. card' = [card EXCEPT ![d] = FALSE]
    BY <1>1 DEF CardOnFail, CardOff, IInv, UserInv
  <2> QED
    BY <2>1, <2>2, <2>3, <2>4, CardOffStep
<1>2. CASE CardUnregister(d) /\ card[d]
  <2>1. d \in attached
    BY <1>2 DEF CardUnregister, IInv, PhaseInv, AttachedPhases
  <2>2. op' = [op EXCEPT ![d] = Idle]
    BY <1>2 DEF CardUnregister, IInv, UserInv
  <2> QED
    BY <1>2, <2>1, <2>2, CardOffStep DEF CardUnregister
<1>3. CASE CardUnregister(d) /\ ~card[d]
  <2>1. TableInv'
    BY <1>3, SameTable DEF CardUnregister, IInv, TableInv, TableType
  <2>2. card' = card
    BY <1>3 DEF CardUnregister, IInv, UserInv
  <2>3. PhaseInv'
    BY <1>3 DEF CardUnregister, table, IInv, PhaseInv, Phases, AttachedPhases
  <2>4. RefsExact'
    BY <1>3 DEF CardUnregister, table, IInv, PhaseInv, RefsExact, Holds, Units
  <2>5. UserInv'
    BY <1>3, <2>2 DEF CardUnregister, table, IInv, PhaseInv, UserInv, AttachedPhases,
       Idle
  <2> QED
    BY <2>1, <2>3, <2>4, <2>5 DEF IInv
<1>4. CASE ProbeFail(d) \/ DeviceRelease(d)
  <2>1. /\ d \in attached
        /\ opened[d] = {} /\ op[d] = Idle /\ ~card[d]
    BY <1>4 DEF ProbeFail, DeviceRelease, IInv, PhaseInv, UserInv, AttachedPhases
  <2> QED
    BY <1>4, <2>1, RemoveStep DEF ProbeFail, DeviceRelease
<1> QED
  BY <1>1, <1>2, <1>3, <1>4

-----------------------------------------------------------------------------
(* IInv holds when the module is loaded: no unit, no manager object.       *)
LEMMA InitInvariant == Init => IInv
<1> SUFFICES ASSUME Init PROVE IInv
  OBVIOUS
<1>1. TableInv
  BY PinOutcomes DEF Init, TableInv, TableType, DetachedBlank, RecordedOn,
     UsersPowered, PowerJustified, HasPowerUser
<1>2. PhaseInv /\ RefsExact
  BY DEF Init, PhaseInv, Phases, AttachedPhases, RefsExact, Holds, Units
<1>3. UserInv
  BY DEF Init, UserInv, Ops, Idle
<1> QED
  BY <1>1, <1>2, <1>3 DEF IInv

(* Every step of either unit keeps IInv.                                   *)
LEMMA NextInvariant == IInv /\ [Next]_vars => IInv'
<1> SUFFICES ASSUME IInv, [Next]_vars PROVE IInv'
  OBVIOUS
<1>1. CASE UNCHANGED vars
  BY <1>1 DEF vars, table, IInv, TableInv, TableType, DetachedBlank, RecordedOn,
     UsersPowered, PowerJustified, HasPowerUser, PhaseInv, UserInv, RefsExact, Holds
<1>2. ASSUME NEW d \in Units, NEW c \in Receivers, OpenPower(d, c) PROVE IInv'
  BY <1>2, OpenPowerStep
<1>3. ASSUME NEW d \in Units, NEW c \in Receivers, ReleaseTuner(d, c) PROVE IInv'
  BY <1>3, ReceiverStep
<1>4. ASSUME NEW d \in Units, OpenDone(d) PROVE IInv'
  <2>1. op[d].rx \in Receivers
    BY <1>4 DEF OpenDone, IInv, UserInv, Ops, Idle
  <2> QED
    BY <1>4, <2>1, ReceiverStep
<1>5. ASSUME NEW d \in Units, OpenFail(d) \/ ReleasePower(d) PROVE IInv'
  BY <1>5, PowerOffStep DEF OpenFail, ReleasePower
<1>6. ASSUME NEW d \in Units, CardOnPower(d) \/ CardOnDone(d) PROVE IInv'
  BY <1>6, CardOnStep
<1>7. ASSUME NEW d \in Units,
             Probe(d) \/ SearchFound(d) \/ Alloc(d) \/ Add(d)
      PROVE  IInv'
  BY <1>7, ProbeStep
<1>8. ASSUME NEW d \in Units, ProbeDone(d) \/ Term(d) \/ GroupDestroy(d)
      PROVE  IInv'
  BY <1>8, LifeStep
<1>9. ASSUME NEW d \in Units,
             \/ CardOnFail(d) \/ CardOff(d) \/ CardUnregister(d)
             \/ ProbeFail(d) \/ DeviceRelease(d)
      PROVE  IInv'
  BY <1>9, CardAndRemoveSteps
<1> QED
  BY <1>1, <1>2, <1>3, <1>4, <1>5, <1>6, <1>7, <1>8, <1>9 DEF Next, Step

(* IInv is an invariant of the power management of two interlocked units.  *)
THEOREM Invariance == Spec => []IInv
BY InitInvariant, NextInvariant, PTL DEF Spec

(* Every reachable state is well typed.                                    *)
THEOREM TypeCorrect == Spec => []TypeOK
<1>1. IInv => TypeOK
  BY DEF IInv, TableInv, TableType, PhaseInv, UserInv, RefsExact, Holds, TypeOK
<1> QED
  BY <1>1, Invariance, PTL

(* Under any mode, any failure of a GPIO write and any interleaving of the *)
(* two units, a board with an open or opening receiver or a powered card   *)
(* stays powered.                                                          *)
THEOREM PowerKept == Spec => []KeepsPower
<1>1. IInv => KeepsPower
  BY DEF IInv, TableInv, UserInv, UsersPowered, RecordedOn, HasPowerUser,
     KeepsPower, Using
<1> QED
  BY <1>1, Invariance, PTL

(* px4_mldev never records a board as powered that nobody needs.           *)
THEOREM PowerNotKeptForNobody == Spec => []PowerJustified
<1>1. IInv => PowerJustified
  BY DEF IInv, TableInv
<1> QED
  BY <1>1, Invariance, PTL

(* The px4_mldev object lives exactly as long as it is referenced: neither *)
(* freed under a unit nor leaked.                                          *)
THEOREM ManagerReferences == Spec => []RefsExact
<1>1. IInv => RefsExact
  BY DEF IInv
<1> QED
  BY <1>1, Invariance, PTL

-----------------------------------------------------------------------------
(* What holds as long as the GPIO writes work: no receiver's record is     *)
(* left behind by a failed open, so the first receiver of a unit is told   *)
(* apart from the others and initialises the tuners, and the partner of an *)
(* interlocking unit is on.                                                *)

InHand(d) == IF op[d].step \in {"open", "release"} THEN {op[d].rx} ELSE {}
UsersRecorded == \A d \in Units : chrdev_state[d] = opened[d] \cup InHand(d)
FirstExact ==
    \A d \in Units : op[d].step = "open" => op[d].first = (opened[d] = {})
InitKept == \A d \in Units : opened[d] # {} => inited[d]
Interlocked ==
    \A d \in Units :
        d \in attached /\ Interlocks(chrdev_state[d]) /\ Other(d) \in attached
            => power_state[Other(d)]

WorkingInv == UsersRecorded /\ FirstExact /\ InitKept /\ Interlocked
GInv == IInv /\ (~gpioFails => WorkingInv)

(* A section that may cost a board its initialisation does not cost it to  *)
(* a board in use.                                                         *)
LEMMA UsedBoardKeepsInit ==
    ASSUME IInv', InitKept, LosesInit, opened' = opened
    PROVE  InitKept'
<1>1. KeepsPower'
  BY DEF IInv, TableInv, UserInv, UsersPowered, RecordedOn, HasPowerUser,
     KeepsPower, Using
<1> QED
  BY <1>1 DEF KeepsPower, Using, InitKept, LosesInit

(* px4_chrdev_open()'s power section: without failing writes it always     *)
(* succeeds, and powers the partner when the receiver asks for it.         *)
LEMMA OpenPowerWorks ==
    ASSUME IInv, IInv', WorkingInv, ~gpioFails, NEW d \in Units,
           NEW c \in Receivers, OpenPower(d, c)
    PROVE  WorkingInv'
<1> DEFINE o == Other(d)
           first == chrdev_state[d] = {}
           users == chrdev_state[d] \cup {c}
           needOther == o \in attached /\ Interlocks(users) /\ ~power_state[o]
<1> USE OtherUnit
<1>1. op[d] = Idle /\ c \notin opened[d] /\ opened' = opened
  BY DEF OpenPower
<1>2. chrdev_state[d] = opened[d]
  <2>1. op[d].step = "idle"
    BY <1>1 DEF Idle
  <2>2. InHand(d) = {}
    BY <2>1 DEF InHand
  <2> QED
    BY <2>2 DEF WorkingInv, UsersRecorded
<1>3. PICK res \in [ok : BOOLEAN, first : BOOLEAN] :
         /\ MldevPowerOn(d, c, res)
         /\ op' = [op EXCEPT ![d] =
                      IF res.ok
                      THEN [step |-> "open", rx |-> c, first |-> res.first]
                      ELSE Idle]
  BY DEF OpenPower
<1>4. /\ chrdev_state' = [chrdev_state EXCEPT ![d] = users]
      /\ power_state'[o] = (power_state[o] \/ needOther)
      /\ power_state[d] => power_state'[d]
      /\ res = [ok |-> TRUE, first |-> first]
      /\ LosesInit
      /\ attached' = attached
  <2>1. c \notin chrdev_state[d] /\ TurnOnFailures(board[d]) = {}
    BY <1>1, <1>2 DEF TurnOnFailures
  <2>2. PICK okOther \in {TRUE} :
           /\ chrdev_state' = [chrdev_state EXCEPT ![d] = users]
           /\ power_state' = [x \in Units |->
                                 IF x = o
                                 THEN power_state[o] \/ (needOther /\ okOther)
                                 ELSE power_state[d] \/ (first /\ ~power_state[d])]
           /\ res = [ok |-> okOther, first |-> first]
           /\ LosesInit
           /\ attached' = attached
    BY <1>3, <2>1 DEF MldevPowerOn
  <2> QED
    BY <2>2
<1>5. op' = [op EXCEPT ![d] = [step |-> "open", rx |-> c, first |-> first]]
  BY <1>3, <1>4
<1>6. /\ op'[d] = [step |-> "open", rx |-> c, first |-> first]
      /\ op'[o] = op[o]
      /\ chrdev_state'[d] = users
      /\ chrdev_state'[o] = chrdev_state[o]
  BY <1>4, <1>5 DEF IInv, UserInv, TableInv, TableType
<1>7. UsersRecorded'
  <2>1. chrdev_state'[d] = (opened[d] \cup InHand(d))'
    BY <1>1, <1>2, <1>6 DEF InHand
  <2>2. chrdev_state'[o] = (opened[o] \cup InHand(o))'
    BY <1>1, <1>6 DEF WorkingInv, UsersRecorded, InHand
  <2> QED
    BY <2>1, <2>2 DEF UsersRecorded
<1>8. FirstExact'
  BY <1>1, <1>2, <1>6 DEF WorkingInv, FirstExact
<1>9. InitKept'
  BY <1>1, <1>4, UsedBoardKeepsInit DEF WorkingInv
<1>10. Interlocked'
  <2>1. power_state[o] => power_state'[o]
    BY <1>4
  <2>2. Interlocks(users) /\ o \in attached => power_state'[o]
    BY <1>4
  <2> QED
    BY <1>4, <1>6, <2>1, <2>2 DEF WorkingInv, Interlocked
<1> QED
  BY <1>7, <1>8, <1>9, <1>10 DEF WorkingInv

(* Giving a receiver's power back takes its record away with it, and the   *)
(* partner's power only when nobody interlocks it any more.                *)
LEMMA PowerOffWorks ==
    ASSUME IInv, IInv', WorkingInv, NEW d \in Units, OpenFail(d) \/ ReleasePower(d)
    PROVE  WorkingInv'
<1> DEFINE o == Other(d)
           c == op[d].rx
           users == chrdev_state[d] \ {c}
<1> USE OtherUnit
<1>1. /\ op[d].step \in {"open", "release"}
      /\ MldevPowerOff(d, c)
      /\ op' = [op EXCEPT ![d] = Idle]
      /\ opened' = opened
  BY DEF OpenFail, ReleasePower
<1>2. chrdev_state[d] = opened[d] \cup {c} /\ c \notin opened[d]
  BY <1>1 DEF WorkingInv, UsersRecorded, InHand, IInv, UserInv
<1>3. /\ chrdev_state' = [chrdev_state EXCEPT ![d] = users]
      /\ Interlocks(chrdev_state[o]) /\ power_state[d] => power_state'[d]
      /\ Interlocks(users) /\ power_state[o] => power_state'[o]
      /\ LosesInit
      /\ attached' = attached
  <2>1. /\ chrdev_state' = [chrdev_state EXCEPT ![d] = users]
        /\ power_state' = [x \in Units |->
                 power_state[x] /\
                 IF x = d
                 THEN ~ /\ users = {}
                        /\ power_state[d]
                        /\ ~card_state[d]
                        /\ ~Interlocks(chrdev_state[o])
                 ELSE ~ /\ o \in attached
                        /\ ~Interlocks(users)
                        /\ power_state[o]
                        /\ ~HasPowerUser(o)]
        /\ LosesInit
        /\ attached' = attached
    BY <1>1, <1>2 DEF MldevPowerOff
  <2> QED
    BY <2>1
<1>4. /\ op'[d] = Idle /\ op'[o] = op[o]
      /\ chrdev_state'[d] = opened[d]
      /\ chrdev_state'[o] = chrdev_state[o]
  BY <1>1, <1>2, <1>3 DEF IInv, UserInv, TableInv, TableType
<1>5. UsersRecorded'
  <2>1. op'[d].step = "idle"
    BY <1>4 DEF Idle
  <2>2. InHand(d)' = {} /\ InHand(o)' = InHand(o)
    BY <1>4, <2>1 DEF InHand
  <2>3. chrdev_state[o] = opened[o] \cup InHand(o)
    BY DEF WorkingInv, UsersRecorded
  <2> QED
    BY <1>1, <1>4, <2>2, <2>3 DEF UsersRecorded
<1>6. FirstExact'
  BY <1>1, <1>4 DEF WorkingInv, FirstExact, Idle
<1>7. InitKept'
  BY <1>1, <1>3, UsedBoardKeepsInit DEF WorkingInv
<1>8. Interlocked'
  BY <1>2, <1>3, <1>4, InterlocksFacts DEF WorkingInv, Interlocked
<1> QED
  BY <1>5, <1>6, <1>7, <1>8 DEF WorkingInv

(* The end of an open initialises the tuners for the first receiver, and   *)
(* only the last release terminates them.                                  *)
LEMMA ReceiverWorks ==
    ASSUME IInv, IInv', WorkingInv, NEW d \in Units,
           OpenDone(d) \/ \E c \in Receivers : ReleaseTuner(d, c)
    PROVE  WorkingInv'
<1> USE OtherUnit
<1>1. UNCHANGED <<table, board>>
  BY DEF OpenDone, ReleaseTuner
<1>2. Interlocked'
  BY <1>1 DEF table, WorkingInv, Interlocked
<1>3. CASE OpenDone(d)
  <2>1. /\ op[d].step = "open"
        /\ op'[d] = Idle /\ opened'[d] = opened[d] \cup {op[d].rx}
        /\ inited'[d] = (inited[d] \/ op[d].first)
        /\ \A x \in Units : x # d =>
              op'[x] = op[x] /\ opened'[x] = opened[x] /\ inited'[x] = inited[x]
    BY <1>3 DEF OpenDone, IInv, UserInv, TableInv, TableType
  <2>2. op'[d].step = "idle"
    BY <2>1 DEF Idle
  <2>3. InHand(d) = {op[d].rx} /\ InHand(d)' = {}
    BY <2>1, <2>2 DEF InHand
  <2>4. \A x \in Units : x # d => InHand(x)' = InHand(x)
    BY <2>1 DEF InHand
  <2>5. UsersRecorded'
    BY <1>1, <2>1, <2>3, <2>4 DEF table, WorkingInv, UsersRecorded
  <2>6. FirstExact'
    BY <2>1, <2>2 DEF WorkingInv, FirstExact
  <2>7. InitKept'
    BY <2>1 DEF WorkingInv, InitKept, FirstExact
  <2> QED
    BY <1>2, <2>5, <2>6, <2>7 DEF WorkingInv
<1>4. ASSUME NEW c \in Receivers, ReleaseTuner(d, c)
      PROVE  WorkingInv'
  <2>1. /\ op[d] = Idle
        /\ c \in opened[d]
        /\ op'[d] = [step |-> "release", rx |-> c]
        /\ opened'[d] = opened[d] \ {c}
        /\ inited'[d] = (inited[d] /\ opened'[d] # {})
        /\ \A x \in Units : x # d =>
              op'[x] = op[x] /\ opened'[x] = opened[x] /\ inited'[x] = inited[x]
    BY <1>4 DEF ReleaseTuner, IInv, UserInv, TableInv, TableType
  <2>2. op[d].step = "idle"
    BY <2>1 DEF Idle
  <2>3. InHand(d) = {} /\ InHand(d)' = {c}
    BY <2>1, <2>2 DEF InHand
  <2>4. \A x \in Units : x # d => InHand(x)' = InHand(x)
    BY <2>1 DEF InHand
  <2>5. UsersRecorded'
    BY <1>1, <2>1, <2>3, <2>4 DEF table, WorkingInv, UsersRecorded
  <2>6. FirstExact'
    BY <2>1 DEF WorkingInv, FirstExact
  <2>7. InitKept'
    BY <2>1 DEF WorkingInv, InitKept
  <2> QED
    BY <1>2, <2>5, <2>6, <2>7 DEF WorkingInv
<1> QED
  BY <1>3, <1>4

(* Every other step leaves the receivers and their records alone; what it  *)
(* may disturb is the interlock.                                           *)
LEMMA OthersWork ==
    ASSUME IInv', WorkingInv, opened' = opened, chrdev_state' = chrdev_state,
           \A x \in Units : \/ op'[x] = op[x]
                            \/ /\ op[x].step \notin {"open", "release"}
                               /\ op'[x].step \notin {"open", "release"},
           LosesInit \/ inited' = inited,
           Interlocked'
    PROVE  WorkingInv'
<1>1. \A x \in Units : InHand(x)' = InHand(x)
  BY DEF InHand
<1>2. UsersRecorded'
  BY <1>1 DEF WorkingInv, UsersRecorded
<1>3. FirstExact'
  BY DEF WorkingInv, FirstExact
<1>4. InitKept'
  BY UsedBoardKeepsInit DEF WorkingInv, InitKept
<1> QED
  BY <1>2, <1>3, <1>4 DEF WorkingInv

(* The card's power and the interlock: the card never takes the power from *)
(* a board its partner interlocks.                                         *)
LEMMA CardWorks ==
    ASSUME IInv, IInv', WorkingInv, NEW d \in Units,
           \/ CardOnPower(d) \/ CardOnDone(d) \/ CardOnFail(d) \/ CardOff(d)
           \/ CardUnregister(d)
    PROVE  WorkingInv'
<1> USE OtherUnit
<1>1. opened' = opened /\ chrdev_state' = chrdev_state /\ attached' = attached
  BY DEF CardOnPower, CardOnDone, CardOnFail, CardOff, CardUnregister, MldevCardOn,
     MldevCardOff, table
<1>2. LosesInit \/ inited' = inited
  BY DEF CardOnPower, CardOnDone, CardOnFail, CardOff, CardUnregister, MldevCardOn,
     MldevCardOff
<1>3. \A x \in Units : \/ op'[x] = op[x]
                       \/ /\ op[x].step \notin {"open", "release"}
                          /\ op'[x].step \notin {"open", "release"}
  <2>1. \/ op' = op
        \/ /\ op[d] = Idle \/ op[d].step = "card"
           /\ op' = [op EXCEPT ![d] = Idle] \/ op' = [op EXCEPT ![d] = [step |-> "card"]]
    BY DEF CardOnPower, CardOnDone, CardOnFail, CardOff, CardUnregister
  <2>2. \A x \in Units : x # d => op'[x] = op[x]
    BY <2>1 DEF IInv, UserInv
  <2>3. \/ op'[d] = op[d]
        \/ /\ op[d].step \in {"idle", "card"}
           /\ op'[d].step \in {"idle", "card"}
    BY <2>1 DEF IInv, UserInv, Idle
  <2> QED
    BY <2>2, <2>3
<1>4. \A x \in Units : Interlocks(chrdev_state[Other(x)]) /\ power_state[x]
                          => power_state'[x]
  <2>1. CASE CardOnPower(d) \/ CardOnDone(d)
    BY <2>1 DEF CardOnPower, CardOnDone, MldevCardOn, table, IInv, TableInv, TableType
  <2>2. CASE MldevCardOff(d)
    BY <2>2 DEF MldevCardOff, IInv, TableInv, TableType
  <2>3. CASE UNCHANGED table
    BY <2>3 DEF table
  <2> QED
    BY <2>1, <2>2, <2>3 DEF CardOnFail, CardOff, CardUnregister, table
<1>5. Interlocked'
  BY <1>1, <1>4 DEF WorkingInv, Interlocked
<1> QED
  BY <1>1, <1>2, <1>3, <1>5, OthersWork

(* A unit that joins is powered when its partner asks for it, and a unit   *)
(* that leaves ends the interlock.                                         *)
LEMMA LifeWorks ==
    ASSUME IInv, IInv', WorkingInv, NEW d \in Units,
           \/ Probe(d) \/ SearchFound(d) \/ Alloc(d) \/ Add(d)
           \/ ProbeDone(d) \/ ProbeFail(d)
           \/ Term(d) \/ GroupDestroy(d) \/ DeviceRelease(d)
    PROVE  WorkingInv'
<1> USE OtherUnit
<1>1. opened' = opened /\ op' = op /\ (LosesInit \/ inited' = inited)
  BY DEF Probe, SearchFound, Alloc, Add, ProbeDone, ProbeFail, Term, GroupDestroy,
     DeviceRelease, MldevRemove
<1>2. ASSUME op[d] = Idle, opened[d] = {}
      PROVE  chrdev_state[d] = {}
  <2>1. op[d].step = "idle"
    BY <1>2 DEF Idle
  <2>2. InHand(d) = {}
    BY <2>1 DEF InHand
  <2> QED
    BY <1>2, <2>2 DEF WorkingInv, UsersRecorded
<1>3. CASE UNCHANGED table
  <2>1. Interlocked'
    BY <1>3 DEF table, WorkingInv, Interlocked
  <2> QED
    BY <1>1, <1>3, <2>1, OthersWork DEF table
<1>4. CASE Alloc(d)
  <2>1. attached = {}
    BY <1>4 DEF Alloc, IInv, TableInv, TableType, RefsExact, Holds, Units
  <2>2. chrdev_state' = chrdev_state
    BY <1>4, <2>1 DEF Alloc, IInv, TableInv, TableType, DetachedBlank
  <2>3. Interlocked'
    BY <1>4, InterlocksFacts DEF Alloc, Interlocked
  <2> QED
    BY <1>1, <2>2, <2>3, OthersWork
<1>5. CASE Add(d)
  <2>1. d \notin attached
    BY <1>5 DEF Add, IInv, PhaseInv, AttachedPhases
  <2>2. chrdev_state' = chrdev_state
    BY <1>5, <2>1 DEF Add, IInv, TableInv, TableType, DetachedBlank
  <2>3. ~Interlocks(chrdev_state[d])
    BY <2>1, InterlocksFacts DEF IInv, TableInv, DetachedBlank
  <2>4. \/ /\ attached' = attached \cup {d}
           /\ power_state'[d] = Interlocks(chrdev_state[Other(d)])
        \/ attached' = attached
    BY <1>5 DEF Add, IInv, TableInv, TableType
  <2>5. Interlocked'
    BY <2>1, <2>2, <2>3, <2>4 DEF Interlocked
  <2> QED
    BY <1>1, <2>2, <2>5, OthersWork
<1>6. CASE ProbeFail(d) \/ DeviceRelease(d)
  <2>1. opened[d] = {} /\ op[d] = Idle
    BY <1>6 DEF ProbeFail, DeviceRelease, IInv, UserInv, AttachedPhases
  <2>2. chrdev_state' = chrdev_state
    <3>1. chrdev_state' = [chrdev_state EXCEPT ![d] = {}]
      BY <1>6 DEF ProbeFail, DeviceRelease, MldevRemove
    <3> QED
      BY <1>2, <2>1, <3>1 DEF IInv, TableInv, TableType
  <2>3. attached' = attached \ {d}
    BY <1>6 DEF ProbeFail, DeviceRelease, MldevRemove
  <2>4. Interlocked'
    BY <2>3 DEF Interlocked
  <2> QED
    BY <1>1, <2>2, <2>4, OthersWork
<1> QED
  BY <1>3, <1>4, <1>5, <1>6 DEF Probe, SearchFound, ProbeDone, Term, GroupDestroy

(* GInv is an invariant: a behaviour's GPIO writes all work, or may fail.  *)
LEMMA WorkingInvariance == Spec => []GInv
<1>1. Init => GInv
  <2>1. Init => WorkingInv
    BY InterlocksFacts DEF Init, WorkingInv, UsersRecorded, InHand, FirstExact,
       InitKept, Interlocked, Idle
  <2> QED
    BY <2>1, InitInvariant DEF GInv
<1>2. ASSUME GInv, [Next]_vars PROVE GInv'
  <2>1. IInv'
    BY <1>2, NextInvariant DEF GInv
  <2>2. gpioFails' = gpioFails
    BY <1>2 DEF Next, vars
  <2>3. ASSUME ~gpioFails PROVE WorkingInv'
    <3>1. IInv /\ WorkingInv
      BY <1>2, <2>3 DEF GInv
    <3>2. CASE UNCHANGED vars
      BY <3>1, <3>2 DEF vars, table, WorkingInv, UsersRecorded, InHand, FirstExact,
         InitKept, Interlocked
    <3>3. ASSUME NEW d \in Units, NEW c \in Receivers, OpenPower(d, c)
          PROVE  WorkingInv'
      BY <2>1, <2>3, <3>1, <3>3, OpenPowerWorks
    <3>4. ASSUME NEW d \in Units, OpenFail(d) \/ ReleasePower(d)
          PROVE  WorkingInv'
      BY <2>1, <3>1, <3>4, PowerOffWorks
    <3>5. ASSUME NEW d \in Units,
                 OpenDone(d) \/ \E c \in Receivers : ReleaseTuner(d, c)
          PROVE  WorkingInv'
      BY <2>1, <3>1, <3>5, ReceiverWorks
    <3>6. ASSUME NEW d \in Units,
                 \/ CardOnPower(d) \/ CardOnDone(d) \/ CardOnFail(d)
                 \/ CardOff(d) \/ CardUnregister(d)
          PROVE  WorkingInv'
      BY <2>1, <3>1, <3>6, CardWorks
    <3>7. ASSUME NEW d \in Units,
                 \/ Probe(d) \/ SearchFound(d) \/ Alloc(d) \/ Add(d)
                 \/ ProbeDone(d) \/ ProbeFail(d)
                 \/ Term(d) \/ GroupDestroy(d) \/ DeviceRelease(d)
          PROVE  WorkingInv'
      BY <2>1, <3>1, <3>7, LifeWorks
    <3> QED
      BY <1>2, <3>2, <3>3, <3>4, <3>5, <3>6, <3>7 DEF Next, Step
  <2> QED
    BY <2>1, <2>2, <2>3 DEF GInv
<1> QED
  BY <1>1, <1>2, PTL DEF Spec

(* While the GPIO writes work, the receivers px4_chrdev_open() let in run  *)
(* on tuners initialised since the board was last powered.                 *)
THEOREM TunersInitialised == Spec => []Initialised
<1>1. GInv => Initialised
  BY DEF GInv, WorkingInv, InitKept, Initialised
<1> QED
  BY <1>1, WorkingInvariance, PTL

(* While the GPIO writes work, the partner of a unit that requires         *)
(* interlocking is powered, however the two units are opened, closed,      *)
(* plugged in and pulled out.                                              *)
THEOREM InterlockKept == Spec => []InterlockHeld
<1>1. GInv => InterlockHeld
  BY DEF GInv, WorkingInv, Interlocked, InterlockHeld
<1> QED
  BY <1>1, WorkingInvariance, PTL
=============================================================================
