---------------------------- MODULE PtxTuneProofs ----------------------------
(***************************************************************************)
(* Tuning, for every workload, number of accesses that fail and loss of    *)
(* the board (PtxTune): what the boards, bridges, demodulators and tuners  *)
(* of the four families do to the reception, the LNB supply and the null   *)
(* packet filters that the receivers of a board share, and what the cable  *)
(* systems leave in a PX-MLT demodulator.                                  *)
(*                                                                         *)
(* Each call of a driver is a set of outcomes; what the calls may do to    *)
(* the board is stated as relations between the board before and after     *)
(* (Aside, Tunes, Started, Stopped, Boots), which compose, and the actions *)
(* are shown to keep the invariant Inv from those alone; likewise CableInv *)
(* from what a call does to the demodulators (Spares, Keeps, Retunes).     *)
(***************************************************************************)
EXTENDS PtxTune, FiniteSetTheorems, TLAPS

(* The record of a board, with the types the arguments below need.         *)
DeviceFields ==
    {"faults", "gone", "available", "bridge", "gpio", "level", "filter", "bus", "reg",
     "demod", "tuner", "r850", "rt710", "open_count", "card_powered", "lnb_power_count",
     "lnb", "streaming_count", "nullOff"}

Device(s) ==
    /\ DOMAIN s = DeviceFields
    /\ s.faults \in Nat
    /\ DOMAIN s.level = Gpios /\ DOMAIN s.gpio = Gpios
    /\ s.lnb \in [Rx(family) -> BOOLEAN]
    /\ s.nullOff \in [Rx(family) -> BOOLEAN]
    /\ DOMAIN s.filter = Rx(family)
    /\ DOMAIN s.reg = Rx(family) /\ DOMAIN s.demod = Rx(family) /\ DOMAIN s.tuner = Rx(family)

(* Three parts of a board that its receivers share: the reception of the   *)
(* bridge, the LNB supply and the null packet filters.                     *)
SameCapture(s, t) == t.bus = s.bus /\ t.streaming_count = s.streaming_count
SameLnb(s, t) ==
    /\ t.lnb = s.lnb /\ t.lnb_power_count = s.lnb_power_count
    /\ t.level[LnbGpio] = s.level[LnbGpio] /\ t.gpio = s.gpio
SameFilter(s, t) == t.filter = s.filter /\ t.nullOff = s.nullOff

(* What no driver of a chip, and no switching of the supply, does to the   *)
(* board: it leaves reception, LNB supply and null packet filters alone.   *)
Aside(s, t) ==
    Device(s) =>
        /\ Device(t) /\ t.faults <= s.faults
        /\ t.gone = s.gone /\ t.available = s.available
        /\ SameCapture(s, t) /\ SameLnb(s, t) /\ SameFilter(s, t)

(* What a tune does: it may switch the null packet filter of the receiver, *)
(* and unless an access fails the driver knows what the filter does.       *)
FilterKnown(s, i) == s.filter[i] = IF s.nullOff[i] THEN "pass" ELSE "block"
FilterOnlyAt(s, t, i) ==
    \A j \in Rx(family) : j # i => t.filter[j] = s.filter[j] /\ t.nullOff[j] = s.nullOff[j]
Tunes(s, t, i) ==
    Device(s) =>
        /\ Device(t) /\ t.faults <= s.faults
        /\ t.gone = s.gone /\ t.available = s.available
        /\ SameCapture(s, t) /\ SameLnb(s, t) /\ FilterOnlyAt(s, t, i)
        /\ t.faults = s.faults /\ ~s.gone /\ FilterKnown(s, i) => FilterKnown(t, i)

(* A start or a stop of the reception, shared by the receivers of a board  *)
(* or not.                                                                 *)
Beside(s, t) ==
    /\ Device(t) /\ t.faults <= s.faults
    /\ t.gone = s.gone /\ t.available = s.available
    /\ SameLnb(s, t) /\ SameFilter(s, t)
Started(s, o, shared) ==
    Device(s) /\ s.streaming_count \in Nat =>
        /\ Beside(s, o.s)
        /\ o.ret # "OK" => SameCapture(s, o.s)
        /\ o.ret = "OK" =>
              /\ o.s.streaming_count = IF shared THEN s.streaming_count + 1 ELSE s.streaming_count
              /\ shared /\ s.streaming_count # 0 => o.s.bus = s.bus
              /\ ~shared \/ s.streaming_count = 0 => o.s.bus = TRUE
Stopped(s, o, shared) ==
    Device(s) /\ s.streaming_count \in Nat /\ (shared => s.streaming_count # 0) =>
        /\ Beside(s, o.s)
        /\ o.ret = "OK"
        /\ o.s.streaming_count = IF shared THEN s.streaming_count - 1 ELSE s.streaming_count
        /\ shared /\ s.streaming_count # 1 => o.s.bus = s.bus
        /\ ~shared \/ s.streaming_count = 1 => o.s.bus = FALSE

(* Calls that leave the shared parts alone, one after the other.           *)
LEMMA AsideTrans ==
    ASSUME NEW s, NEW t, NEW u, Aside(s, t), Aside(t, u)
    PROVE  Aside(s, u)
BY DEF Aside, Device, SameCapture, SameLnb, SameFilter

LEMMA AsideRefl ==
    ASSUME NEW s PROVE Aside(s, s)
BY DEF Aside, Device, SameCapture, SameLnb, SameFilter

(* Writing down the state of a demodulator or of a tuner.                  *)
LEMMA SetDemodAside ==
    ASSUME NEW s, NEW i, NEW d PROVE Aside(s, SetDemod(s, i, d))
BY DEF Aside, Device, SameCapture, SameLnb, SameFilter, DeviceFields, SetDemod

LEMMA SetSystemAside ==
    ASSUME NEW s, NEW i, NEW system PROVE Aside(s, SetSystem(s, i, system))
BY DEF Aside, Device, SameCapture, SameLnb, SameFilter, DeviceFields, SetSystem

(* A control message to the bridge, and an access to a chip behind it,     *)
(* take faults away and otherwise do what the answered message does.       *)
LEMMA CtrlAside ==
    ASSUME NEW s, NEW ok, \A t \in ok : Aside(s, t) /\ (Device(s) => t.faults = s.faults)
    PROVE  \A o \in it930x_ctrl_msg(s, ok) : Aside(s, o.s)
<1> SUFFICES ASSUME NEW o \in it930x_ctrl_msg(s, ok), Device(s) PROVE Aside(s, o.s)
    BY DEF Aside
<1>1. CASE s.gone
  BY <1>1, AsideRefl DEF it930x_ctrl_msg, Out
<1>2. CASE ~s.gone
  <2>1. PICK t \in ok : o = Out("EIO", [t EXCEPT !.faults = @ - 1]) /\ s.faults # 0
    BY <1>2 DEF it930x_ctrl_msg
  <2>2. o.s = [t EXCEPT !.faults = @ - 1]
    BY <2>1 DEF Out
  <2>3. Aside(t, o.s)
    BY <2>1, <2>2 DEF Aside, Device, SameCapture, SameLnb, SameFilter, DeviceFields
  <2> QED BY <2>1, <2>3, AsideTrans
<1> QED BY <1>1, <1>2

LEMMA AccessAside ==
    ASSUME NEW s PROVE \A o \in Access(s) \cup Poll(s) : Aside(s, o.s)
<1>1. \A o \in it930x_ctrl_msg(s, {s}) : Aside(s, o.s)
  BY AsideRefl, CtrlAside
<1> QED BY <1>1, AsideRefl DEF Access, Poll, Out

LEMMA SetAside ==
    ASSUME NEW s, NEW t, Aside(s, t), Device(s) => t.faults = s.faults
    PROVE  \A o \in Set(s, t) : Aside(s, o.s)
<1>1. \A o \in it930x_ctrl_msg(s, {s, t}) : Aside(s, o.s)
  BY AsideRefl, CtrlAside
<1> QED BY <1>1 DEF Set, Out

(* Registers of demodulator and tuner are no shared part of the board.     *)
LEMMA ProgramAside ==
    ASSUME NEW s, NEW i, NEW P PROVE \A o \in Program(s, i, P) : Aside(s, o.s)
<1> DEFINE At(k) == [s EXCEPT !.reg[i] = Applied(@, P, k)]
           Tear(t, k) == [t EXCEPT !.reg[i][P[k + 1][1]] = Mixed]
           ok == {At(k) : k \in 0..Len(P)} \cup {Tear(At(k), k) : k \in 0..(Len(P) - 1)}
<1>1. ASSUME NEW k PROVE Aside(s, At(k)) /\ (Device(s) => At(k).faults = s.faults)
  BY DEF Aside, Device, SameCapture, SameLnb, SameFilter, DeviceFields
<1>2. ASSUME NEW t, NEW k PROVE Aside(t, Tear(t, k)) /\ (Device(t) => Tear(t, k).faults = t.faults)
  BY DEF Aside, Device, SameCapture, SameLnb, SameFilter, DeviceFields
<1>3. \A o \in it930x_ctrl_msg(s, ok) : Aside(s, o.s)
  <2> HIDE DEF At, Tear
  <2>1. ASSUME NEW t \in ok PROVE Aside(s, t) /\ (Device(s) => t.faults = s.faults)
    BY <1>1, <1>2, AsideTrans DEF Aside
  <2> QED BY <2>1, CtrlAside
<1>4. Program(s, i, P) = (IF s.gone THEN {} ELSE {Out("OK", At(Len(P)))}) \cup it930x_ctrl_msg(s, ok)
  BY DEF Program
<1> HIDE DEF At, Tear, ok
<1> QED BY <1>1, <1>3, <1>4 DEF Out

-----------------------------------------------------------------------------
(* The drivers of the chips.                                               *)

(* The demodulator and tuner of the PX-MLT boards, call by call.           *)
LEMMA DemodSleepAside ==
    ASSUME NEW s, NEW i PROVE \A o \in cxd2856er_sleep(s, i) \cup cxd2856er_term(s, i) : Aside(s, o.s)
BY ProgramAside, AsideTrans, AsideRefl, SetDemodAside, SetSystemAside
   DEF cxd2856er_sleep, cxd2856er_term, Then, Anyway, Finally, Return, Out

LEMMA DemodInitAside ==
    ASSUME NEW s, NEW i PROVE \A o \in cxd2856er_init(s, i) : Aside(s, o.s)
<1>1. ASSUME NEW t, NEW r
      PROVE  LET u == [t EXCEPT !.reg[i] = r] IN Aside(t, u) /\ (Device(t) => u.faults = t.faults)
  BY DEF Aside, Device, SameCapture, SameLnb, SameFilter, DeviceFields
<1>2. ASSUME NEW t PROVE \A o \in SwReset(t, i) : Aside(t, o.s)
  <2> DEFINE r == [x \in DOMAIN t.reg[i] |-> IF SwResetClears /\ x \in DOMAIN DemodDefaults
                                            THEN DemodDefaults[x] ELSE t.reg[i][x]]
             u == [t EXCEPT !.reg[i] = r]
  <2>1. SwReset(t, i) = Set(t, u)
    BY DEF SwReset
  <2>2. Aside(t, u) /\ (Device(t) => u.faults = t.faults)
    BY <1>1
  <2> HIDE DEF u
  <2> QED BY <2>1, <2>2, SetAside
<1> QED BY <1>2, AccessAside, AsideTrans, SetDemodAside, SetSystemAside DEF cxd2856er_init, Then

LEMMA DemodWakeupAside ==
    ASSUME NEW s, NEW i, NEW system PROVE \A o \in cxd2856er_wakeup(s, i, system) : Aside(s, o.s)
<1>1. ASSUME NEW t PROVE \A o \in Wake(t, i, system) : Aside(t, o.s)
  BY ProgramAside, AsideTrans, AsideRefl, SetDemodAside, SetSystemAside DEF Wake, Then, Return, Out
<1> QED BY <1>1, DemodSleepAside, ProgramAside, AsideTrans, AsideRefl
        DEF cxd2856er_wakeup, Then, Anyway, Return, Out

LEMMA DemodStatusAside ==
    ASSUME NEW s, NEW i, NEW id
    PROVE  \A o \in UNION {cxd2856er_post_tune(s, i), cxd2856er_set_slot_isdbs(s, i, id),
                           cxd2856er_set_tsid_isdbs(s, i, id), cxd2856er_is_ts_locked_isdbt(s),
                           cxd2856er_is_ts_locked_isdbs(s), cxd2856er_is_ts_locked_isdbc(s),
                           cxd2856er_read_cnr_raw_isdbt(s, i), cxd2856er_read_cnr_raw_isdbs(s),
                           cxd2856er_read_cnr_raw_isdbc(s, i)} : Aside(s, o.s)
<1>1. \A o \in cxd2856er_post_tune(s, i) \cup cxd2856er_set_slot_isdbs(s, i, id) \cup
              cxd2856er_set_tsid_isdbs(s, i, id) : Aside(s, o.s)
  BY ProgramAside, AsideRefl
     DEF cxd2856er_post_tune, cxd2856er_set_slot_isdbs, cxd2856er_set_tsid_isdbs, Return, Out
<1>2. \A o \in cxd2856er_is_ts_locked_isdbt(s) \cup cxd2856er_is_ts_locked_isdbs(s)
              \cup cxd2856er_is_ts_locked_isdbc(s) \cup cxd2856er_read_cnr_raw_isdbs(s) : Aside(s, o.s)
  BY AccessAside, AsideRefl
     DEF cxd2856er_is_ts_locked_isdbt, cxd2856er_is_ts_locked_isdbs,
         cxd2856er_is_ts_locked_isdbc, cxd2856er_read_cnr_raw_isdbs, Out
<1>3. \A o \in cxd2856er_read_cnr_raw_isdbt(s, i) : Aside(s, o.s)
  BY AccessAside, ProgramAside, AsideTrans DEF cxd2856er_read_cnr_raw_isdbt, Freeze, Unfreeze, Then
<1>4. \A o \in cxd2856er_read_cnr_raw_isdbc(s, i) : Aside(s, o.s)
  BY AccessAside, ProgramAside, AsideTrans
     DEF cxd2856er_read_cnr_raw_isdbc, Freeze, Unfreeze, Then, Out
<1> QED BY <1>1, <1>2, <1>3, <1>4

LEMMA TunerStopAside ==
    ASSUME NEW s, NEW i
    PROVE  \A o \in cxd2858er_stop_t(s, i) \cup cxd2858er_stop_s(s, i) : Aside(s, o.s)
BY ProgramAside, AsideTrans, SetDemodAside, SetSystemAside
   DEF cxd2858er_stop_t, cxd2858er_stop_s, cxd2858er_write_regs, Then, Return, Out

LEMMA TunerInitAside ==
    ASSUME NEW s, NEW i PROVE \A o \in cxd2858er_init(s, i) : Aside(s, o.s)
<1>1. ASSUME NEW t PROVE \A o \in cxd2858er_power_on(t, i) : Aside(t, o.s)
  BY ProgramAside, AccessAside, AsideTrans DEF cxd2858er_power_on, cxd2858er_write_regs, Then
<1> QED BY <1>1, ProgramAside, AsideTrans, SetSystemAside
        DEF cxd2858er_init, Gated, cxd2856er_i2c_master_gate_ctrl, Then, Finally, Out

LEMMA TunerTermAside ==
    ASSUME NEW s, NEW i PROVE \A o \in cxd2858er_term(s, i) : Aside(s, o.s)
<1>1. ASSUME NEW t PROVE \A o \in StopRunning(t, i) : Aside(t, o.s)
  BY TunerStopAside DEF StopRunning
<1> QED BY <1>1, ProgramAside, AsideTrans, AsideRefl, SetSystemAside
        DEF cxd2858er_term, cxd2856er_i2c_master_gate_ctrl, Anyway, Finally, Return, Out

LEMMA TunerParamsAside ==
    ASSUME NEW s, NEW i, NEW p PROVE \A o \in SetTuner(s, i, p) : Aside(s, o.s)
<1>1. ASSUME NEW t PROVE \A o \in LeaveSatellite(t, i) \cup LeaveTerrestrial(t, i) : Aside(t, o.s)
  BY TunerStopAside, AsideRefl DEF LeaveSatellite, LeaveTerrestrial, Return, Out
<1>2. \A o \in cxd2858er_set_params_t(s, i, p.freq) : Aside(s, o.s)
  BY <1>1, ProgramAside, AsideTrans, SetSystemAside
     DEF cxd2858er_set_params_t, cxd2858er_write_regs, Gated, cxd2856er_i2c_master_gate_ctrl,
         Then, Finally, Return, Out
<1>3. \A o \in cxd2858er_set_params_s(s, i, p.freq) : Aside(s, o.s)
  BY <1>1, ProgramAside, AsideTrans, SetSystemAside
     DEF cxd2858er_set_params_s, cxd2858er_write_regs, Gated, cxd2856er_i2c_master_gate_ctrl,
         Then, Finally, Return, Out
<1>4. \A o \in cxd2858er_set_params_c(s, i, p.freq, p.system = "J") : Aside(s, o.s)
  BY <1>1, ProgramAside, AsideTrans, SetSystemAside, AsideRefl
     DEF cxd2858er_set_params_c, cxd2858er_write_regs, Gated, cxd2856er_i2c_master_gate_ctrl,
         Then, Finally, Return, Out
<1> QED BY <1>2, <1>3, <1>4 DEF SetTuner

-----------------------------------------------------------------------------
(* The supply, and the boards.                                             *)

(* Switching the supply of the chips moves other pins than the one of the  *)
(* LNB, and what a chip loses with it is its own.                          *)
LEMMA WriteGpioAside ==
    ASSUME NEW s, NEW g \in Gpios \ {LnbGpio}, NEW high
    PROVE  \A o \in it930x_write_gpio(s, g, high) : Aside(s, o.s)
<1> DEFINE t == [s EXCEPT !.level[g] = high]
<1>1. Aside(s, t) /\ (Device(s) => t.faults = s.faults)
  BY DEF Aside, Device, SameCapture, SameLnb, SameFilter, DeviceFields
<1>2. \A o \in Set(s, t) : Aside(s, o.s)
  <2> HIDE DEF t
  <2> QED BY <1>1, SetAside
<1> QED BY <1>2, AsideRefl DEF it930x_write_gpio, Return, Out

LEMMA SupplyAside ==
    ASSUME NEW s, NEW high, NEW D, DOMAIN D = DOMAIN s.reg
    PROVE  \A o \in Supply(s, high, D) : Aside(s, o.s)
<1> DEFINE W == it930x_write_gpio(s, PowerGpio, high)
           Cut(u) == [u EXCEPT !.reg = D]
<1>1. Supply(s, high, D) = {Out(p.ret, IF p.s.level[PowerGpio] = s.level[PowerGpio]
                                     THEN p.s ELSE Cut(p.s)) : p \in W}
  BY DEF Supply
<1>2. \A p \in W : Aside(s, p.s)
  BY WriteGpioAside DEF Gpios, PowerGpio, LnbGpio
<1>3. ASSUME NEW u, DOMAIN u.reg = DOMAIN D PROVE Aside(u, Cut(u))
  BY <1>3 DEF Aside, Device, SameCapture, SameLnb, SameFilter, DeviceFields
<1>4. ASSUME NEW u, Device(s), Aside(s, u) PROVE Aside(s, Cut(u))
  <2>1. DOMAIN u.reg = DOMAIN D
    BY <1>4 DEF Aside, Device
  <2> HIDE DEF Cut
  <2> QED BY <2>1, <1>3, <1>4, AsideTrans
<1> HIDE DEF W, Cut
<1> SUFFICES ASSUME NEW p \in W, Device(s)
             PROVE  Aside(s, IF p.s.level[PowerGpio] = s.level[PowerGpio] THEN p.s ELSE Cut(p.s))
    BY <1>1 DEF Out, Aside
<1> QED BY <1>2, <1>4

LEMMA SetPowerAside ==
    ASSUME NEW s, NEW reset \in {3, 7}, NEW on \in BOOLEAN, NEW D, DOMAIN D = Rx(family)
    PROVE  \A o \in SetPower(s, reset, on, D) : Aside(s, o.s)
<1> SUFFICES ASSUME NEW o \in SetPower(s, reset, on, D), Device(s) PROVE Aside(s, o.s)
    BY DEF Aside
<1> DEFINE Low(t) == it930x_write_gpio(t, reset, FALSE)
           High(t) == it930x_write_gpio(t, reset, TRUE)
           On(t) == Supply(t, TRUE, D)
           Off(t) == Supply(t, FALSE, D)
<1>1. SetPower(s, reset, on, D) =
         IF on THEN Then(Low(s), LAMBDA t : On(t))
         ELSE IF ~s.available THEN Return("OK", s)
         ELSE Anyway(Off(s), LAMBDA t : Ignoring(High(t)))
  BY DEF SetPower
<1>2. ASSUME NEW t PROVE \A p \in Low(t) \cup High(t) : Aside(t, p.s)
  <2>1. \A h : \A p \in it930x_write_gpio(t, reset, h) : Aside(t, p.s)
    BY WriteGpioAside DEF Gpios, LnbGpio
  <2> QED BY <2>1
<1>3. ASSUME NEW t, Aside(s, t) PROVE \A p \in On(t) \cup Off(t) : Aside(s, p.s)
  <2>1. DOMAIN D = DOMAIN t.reg
    BY <1>3 DEF Aside, Device
  <2> QED BY <2>1, <1>3, SupplyAside, AsideTrans
<1> HIDE DEF Low, High, On, Off
<1> QED BY <1>1, <1>2, <1>3, AsideTrans, AsideRefl DEF Then, Anyway, Ignoring, Return, Out

LEMMA MltPowerAside ==
    ASSUME NEW s, NEW on \in BOOLEAN PROVE \A o \in pxmlt_backend_set_power(s, on) : Aside(s, o.s)
<1> SUFFICES ASSUME NEW o \in pxmlt_backend_set_power(s, on), Device(s) PROVE Aside(s, o.s)
    BY DEF Aside
<1> DEFINE D == [j \in DOMAIN s.reg |-> MltRegs]
           Unmatched(t) == [t EXCEPT !.tuner = [j \in DOMAIN @ |-> [@[j] EXCEPT !.rfin = FALSE]]]
           On == SetPower(s, 7, TRUE, D)
           Off == SetPower(s, 7, FALSE, D)
<1>1. pxmlt_backend_set_power(s, on) =
         IF on THEN Then(On, LAMBDA t : {Out("OK", Unmatched(t))}) ELSE Off
  BY DEF pxmlt_backend_set_power, Return
<1>2. \A p \in On \cup Off : Aside(s, p.s)
  BY SetPowerAside DEF Device
<1>3. ASSUME NEW t PROVE Aside(t, Unmatched(t))
  BY DEF Aside, Device, SameCapture, SameLnb, SameFilter, DeviceFields
<1> HIDE DEF Unmatched, On, Off
<1> QED BY <1>1, <1>2, <1>3, AsideTrans DEF Then, Out

LEMMA MltSwitchAside ==
    ASSUME NEW s
    PROVE  /\ \A o \in pxmlt_backend_set_power(s, TRUE) : Aside(s, o.s)
           /\ \A o \in pxmlt_backend_set_power(s, FALSE) : Aside(s, o.s)
BY MltPowerAside

(* Open of a PX-MLT receiver leaves the shared parts alone; release does   *)
(* so after it has taken its claim on the LNB back.                        *)
LEMMA MltOpenAside ==
    ASSUME NEW s, NEW i PROVE \A o \in pxmlt_chrdev_open(s, i) : Aside(s, o.s)
<1> DEFINE first == s.open_count = 0 /\ ~s.card_powered
           High == pxmlt_backend_set_power(s, TRUE)
           Low(t) == pxmlt_backend_set_power(t, FALSE)
           On == IF first THEN High ELSE Return("OK", s)
           Off(t) == IF first THEN Low(t) ELSE Return("OK", t)
           Setup(t) == OnError(Access(t), LAMBDA u : cxd2858er_term(u, i))
           Tuner(t) == OnError(Then(cxd2858er_init(t, i), LAMBDA u : Setup(u)),
                               LAMBDA u : cxd2856er_term(u, i))
           Demod(t) == OnError(Then(cxd2856er_init(t, i), LAMBDA u : Tuner(u)), LAMBDA u : Off(u))
           Count(t) == [t EXCEPT !.open_count = @ + 1]
<1>1. pxmlt_chrdev_open(s, i) =
         Then(On, LAMBDA t : Then(Demod(t), LAMBDA v : {Out("OK", Count(v))}))
  BY DEF pxmlt_chrdev_open, Return
<1>3. ASSUME NEW t PROVE \A o \in Setup(t) : Aside(t, o.s)
  BY AccessAside, TunerTermAside, AsideTrans DEF OnError, Finally, Out
<1>4. ASSUME NEW t PROVE \A o \in Tuner(t) : Aside(t, o.s)
  <2> HIDE DEF Setup
  <2> QED BY <1>3, TunerInitAside, DemodSleepAside, AsideTrans DEF OnError, Finally, Then, Out
<1>5. \A o \in On : Aside(s, o.s)
  <2>1. \A o \in High : Aside(s, o.s)
    BY MltSwitchAside
  <2> HIDE DEF High
  <2> QED BY <2>1, AsideRefl DEF Return, Out
<1>6. ASSUME NEW t PROVE \A o \in Off(t) : Aside(t, o.s)
  <2>1. \A o \in Low(t) : Aside(t, o.s)
    BY MltSwitchAside
  <2> HIDE DEF Low
  <2> QED BY <2>1, AsideRefl DEF Return, Out
<1>7. ASSUME NEW t PROVE \A o \in Demod(t) : Aside(t, o.s)
  <2> HIDE DEF Tuner, Off
  <2> QED BY <1>4, <1>6, DemodInitAside, AsideTrans DEF OnError, Finally, Then, Out
<1>8. ASSUME NEW t PROVE Aside(t, Count(t))
  BY DEF Aside, Device, SameCapture, SameLnb, SameFilter, DeviceFields
<1> HIDE DEF On, Demod, Count
<1> QED BY <1>1, <1>5, <1>7, <1>8, AsideTrans DEF Then, Out

LEMMA MltReleaseAside ==
    ASSUME NEW s, NEW i
    PROVE  \A o \in pxmlt_chrdev_release(s, i) : \E p \in SetLnb(s, i, 0) : Aside(p.s, o.s)
<1> DEFINE Low(t) == pxmlt_backend_set_power(t, FALSE)
           Less(t) == [t EXCEPT !.open_count = @ - 1]
           End(w) == IF w.open_count = 0 /\ ~w.card_powered THEN Low(w) ELSE Return("OK", w)
           Leave(t) == Anyway(cxd2858er_term(t, i), LAMBDA u :
                         Anyway(cxd2856er_term(u, i), LAMBDA v : End(Less(v))))
<1>1. pxmlt_chrdev_release(s, i) =
         Anyway(SetLnb(s, i, 0), LAMBDA t :
            IF t.open_count = 0 THEN Return("EALREADY", t) ELSE Leave(t))
  BY DEF pxmlt_chrdev_release, pxmlt_chrdev_set_lnb_voltage
<1>2. ASSUME NEW t PROVE Aside(t, Less(t))
  BY DEF Aside, Device, SameCapture, SameLnb, SameFilter, DeviceFields
<1>3. ASSUME NEW t PROVE \A o \in End(t) : Aside(t, o.s)
  <2>1. \A o \in Low(t) : Aside(t, o.s)
    BY MltSwitchAside
  <2> HIDE DEF Low
  <2> QED BY <2>1, AsideRefl DEF Return, Out
<1>4. ASSUME NEW t PROVE \A o \in Leave(t) : Aside(t, o.s)
  <2> HIDE DEF Less, End
  <2> QED BY <1>2, <1>3, TunerTermAside, DemodSleepAside, AsideTrans DEF Anyway
<1> HIDE DEF Leave
<1> QED BY <1>1, <1>4, AsideRefl DEF Anyway, Return, Out

(* Input matching of the tuners writes only their registers.               *)
LEMMA MatchInputAside ==
    ASSUME NEW s, NEW C, NEW j PROVE \A t \in MatchInput(s, C, j) : Aside(s, t)
<1> DEFINE Told == [s EXCEPT !.tuner[j].rfin = TRUE]
           Result(o) == [o.s EXCEPT !.tuner[j].rfin = o.ret = "OK"]
           again(t) == Finally(Then(cxd2856er_init(t, j), LAMBDA u : cxd2858er_init(u, j)),
                               LAMBDA u : cxd2856er_term(u, j))
<1>1. Aside(s, Told) /\ \A o : Aside(o.s, Result(o))
  BY DEF Aside, Device, SameCapture, SameLnb, SameFilter, DeviceFields
<1>2. ASSUME NEW t PROVE \A o \in again(t) : Aside(t, o.s)
  BY DemodInitAside, TunerInitAside, DemodSleepAside, AsideTrans DEF Finally, Then, Out
<1>3. \A t \in MatchInput(s, C, j) : t = s \/ t = Told \/ \E o \in again(Told) : t = Result(o)
  BY DEF MatchInput
<1> HIDE DEF Told, Result, again
<1> QED BY <1>1, <1>2, <1>3, AsideTrans, AsideRefl

LEMMA MatchInputsAside ==
    ASSUME NEW s, NEW C PROVE \A t \in MatchInputs(s, C) : Aside(s, t)
BY MatchInputAside, AsideTrans DEF MatchInputs

(* A tune, in parts.                                                       *)
LEMMA TunesTrans ==
    ASSUME NEW s, NEW t, NEW u, NEW i, Tunes(s, t, i), Tunes(t, u, i)
    PROVE  Tunes(s, u, i)
BY DEF Tunes, Device, SameCapture, SameLnb, FilterOnlyAt

LEMMA AsideTunes ==
    ASSUME NEW s, NEW t, NEW i, Aside(s, t) PROVE Tunes(s, t, i)
BY DEF Aside, Tunes, SameFilter, FilterOnlyAt, FilterKnown

(* The null packet filter: an answered write and the driver's note of it   *)
(* change together, so only a failed access can part them; success leaves  *)
(* the note at what was asked for.                                         *)
LEMMA NullFilterTunes ==
    ASSUME NEW s, NEW i \in Rx(family), NEW enable \in BOOLEAN
    PROVE  \A o \in pxmlt_chrdev_set_null_packet_filter(s, i, enable) :
              /\ Tunes(s, o.s, i)
              /\ Device(s) /\ o.ret = "OK" => o.s.nullOff[i] = ~enable
<1> SUFFICES ASSUME NEW o \in pxmlt_chrdev_set_null_packet_filter(s, i, enable), Device(s)
             PROVE  Tunes(s, o.s, i) /\ (o.ret = "OK" => o.s.nullOff[i] = ~enable)
    BY DEF Tunes
<1> DEFINE v == IF enable THEN "block" ELSE "pass"
           believed == s.nullOff[i] = ~enable
           F(t) == [t EXCEPT !.filter[i] = v]
           N(t) == [t EXCEPT !.nullOff[i] = ~enable]
           L(t) == [t EXCEPT !.faults = @ - 1]
<1>1. pxmlt_chrdev_set_null_packet_filter(s, i, enable) =
         IF believed THEN Return("OK", s) ELSE Then(Set(s, F(s)), LAMBDA t : {Out("OK", N(t))})
  BY DEF pxmlt_chrdev_set_null_packet_filter, it930x_set_pid_filter, Return
<1>2. Set(s, F(s)) = (IF s.gone THEN {} ELSE {Out("OK", F(s))})
                     \cup (IF s.gone THEN {Out("EIO", s)}
                           ELSE IF s.faults = 0 THEN {} ELSE {Out("EIO", L(t)) : t \in {s, F(s)}})
  BY DEF Set, it930x_ctrl_msg
<1>3. \/ believed /\ o = Out("OK", s)
      \/ o = Out("OK", N(F(s)))
      \/ s.gone /\ o = Out("EIO", s)
      \/ s.faults # 0 /\ o.ret = "EIO" /\ o.s = L(s)
      \/ s.faults # 0 /\ o.ret = "EIO" /\ o.s = L(F(s))
  <2> HIDE DEF F, N, L, believed
  <2> QED BY <1>1, <1>2 DEF Then, Return, Out
<1>4. CASE believed /\ o = Out("OK", s)
  BY <1>4, AsideRefl, AsideTunes DEF Out
<1>5. CASE o = Out("OK", N(F(s)))
  <2>1. o.s = [[s EXCEPT !.filter[i] = v] EXCEPT !.nullOff[i] = ~enable]
    BY <1>5 DEF Out
  <2>2. Device(o.s) /\ o.s.faults = s.faults /\ o.s.faults <= s.faults /\ o.s.gone = s.gone /\ o.s.available = s.available
    BY <2>1 DEF Device, DeviceFields
  <2>3. SameCapture(s, o.s) /\ SameLnb(s, o.s)
    BY <2>1 DEF SameCapture, SameLnb, Device, DeviceFields
  <2>4. FilterOnlyAt(s, o.s, i) /\ o.s.nullOff[i] = ~enable /\ o.s.filter[i] = v
    BY <2>1 DEF FilterOnlyAt, Device, DeviceFields
  <2>5. FilterKnown(o.s, i)
    <3>1. CASE enable
      BY <2>4, <3>1 DEF FilterKnown
    <3>2. CASE ~enable
      BY <2>4, <3>2 DEF FilterKnown
    <3> QED BY <3>1, <3>2
  <2> QED BY <2>2, <2>3, <2>4, <2>5 DEF Tunes
<1>6. CASE s.gone /\ o = Out("EIO", s)
  BY <1>6, AsideRefl, AsideTunes DEF Out
<1>7. CASE s.faults # 0 /\ o.ret = "EIO" /\ o.s = L(s)
  BY <1>7 DEF Tunes, Device, SameCapture, SameLnb, FilterOnlyAt, DeviceFields
<1>8. CASE s.faults # 0 /\ o.ret = "EIO" /\ o.s = L(F(s))
  BY <1>8 DEF Tunes, Device, SameCapture, SameLnb, FilterOnlyAt, DeviceFields
<1> QED BY <1>3, <1>4, <1>5, <1>6, <1>7, <1>8

(* The tune of a PX-MLT receiver has null packets pass exactly for ISDB-C. *)
LEMMA PrepareDemodTunes ==
    ASSUME NEW s, NEW C, NEW i \in Rx(family), NEW p
    PROVE  \A o \in PrepareDemod(s, C, i, p) :
              /\ Tunes(s, o.s, i)
              /\ Device(s) /\ o.ret = "OK" => o.s.nullOff[i] = (p.system = "C")
<1> DEFINE Wakeup(t) == cxd2856er_wakeup(t, i, p.system)
           Discard(t) == pxmlt_chrdev_set_null_packet_filter(t, i, TRUE)
           Filter(t) == pxmlt_chrdev_set_null_packet_filter(t, i, p.system = "J")
           Cable(t) == UNION {Then(Filter(u), LAMBDA v : Wakeup(v)) : u \in MatchInputs(t, C)}
           First == IF s.nullOff[i] /\ p.system # "C" THEN Discard(s) ELSE Return("OK", s)
           Rest(t) == CASE p.system \in {"T", "S"} -> Wakeup(t)
                        [] p.system \in CableSystems -> Cable(t)
                        [] OTHER -> Return("EINVAL", t)
<1>1. PrepareDemod(s, C, i, p) = Then(First, LAMBDA t : Rest(t))
  BY DEF PrepareDemod
<1>2. ASSUME NEW t PROVE \A o \in Discard(t) : Tunes(t, o.s, i) /\ (Device(t) /\ o.ret = "OK" => o.s.nullOff[i] = FALSE)
  BY NullFilterTunes
<1>3. ASSUME NEW t PROVE \A o \in Filter(t) : Tunes(t, o.s, i)
                            /\ (Device(t) /\ o.ret = "OK" => o.s.nullOff[i] = (p.system # "J"))
  BY NullFilterTunes
<1>4. ASSUME NEW t PROVE \A o \in Wakeup(t) : Aside(t, o.s) /\ Tunes(t, o.s, i)
  BY DemodWakeupAside, AsideTunes
<1>5. ASSUME NEW t, p.system \in CableSystems, NEW o \in Cable(t), Device(t)
      PROVE  Tunes(t, o.s, i) /\ (o.ret = "OK" => o.s.nullOff[i] = (p.system = "C"))
  <2> HIDE DEF Wakeup, Filter
  <2>1. PICK u \in MatchInputs(t, C) : o \in Then(Filter(u), LAMBDA v : Wakeup(v))
    BY <1>5
  <2>2. Aside(t, u) /\ Tunes(t, u, i)
    BY <2>1, MatchInputsAside, AsideTunes
  <2>3. PICK a \in Filter(u) : (o = a /\ a.ret # "OK") \/ (a.ret = "OK" /\ o \in Wakeup(a.s))
    BY <2>1 DEF Then
  <2>4. Device(u) /\ Tunes(u, a.s, i) /\ (a.ret = "OK" => a.s.nullOff[i] = (p.system # "J"))
    BY <2>2, <1>3, <1>5 DEF Aside
  <2>5. Tunes(a.s, o.s, i) /\ (a.ret = "OK" => o.s.nullOff = a.s.nullOff)
    BY <2>3, <2>4, <1>4, AsideRefl, AsideTunes DEF Aside, Tunes, SameFilter
  <2>6. p.system # "J" <=> p.system = "C"
    BY <1>5 DEF CableSystems
  <2> QED BY <2>2, <2>3, <2>4, <2>5, <2>6, TunesTrans
<1>6. ASSUME NEW t, NEW o \in Rest(t), Device(t), t.nullOff[i] = FALSE \/ p.system = "C"
      PROVE  Tunes(t, o.s, i) /\ (o.ret = "OK" => o.s.nullOff[i] = (p.system = "C"))
  <2> HIDE DEF Wakeup, Cable
  <2>1. CASE p.system \in {"T", "S"}
    <3>1. p.system \notin CableSystems /\ p.system # "C"
      BY <2>1 DEF CableSystems
    <3>2. Rest(t) = Wakeup(t)
      BY <2>1, <3>1
    <3> HIDE DEF Rest
    <3> QED BY <3>1, <3>2, <1>4, <1>6 DEF Aside, SameFilter
  <2>2. CASE p.system \in CableSystems
    BY <1>5, <1>6, <2>2 DEF CableSystems
  <2>3. CASE p.system \notin {"T", "S"} \cup CableSystems
    BY <1>6, <2>3, AsideRefl, AsideTunes DEF Return, Out
  <2> QED BY <2>1, <2>2, <2>3
<1>7. ASSUME NEW o \in First, Device(s)
      PROVE  Tunes(s, o.s, i) /\ (o.ret = "OK" => o.s.nullOff[i] = FALSE \/ p.system = "C")
  <2> HIDE DEF Discard
  <2>1. s.nullOff[i] \in BOOLEAN
    BY <1>7 DEF Device
  <2>2. o \in Discard(s) \/ (o = Out("OK", s) /\ (~s.nullOff[i] \/ p.system = "C"))
    BY <1>7 DEF Return
  <2>3. CASE o \in Discard(s)
    BY <2>3, <1>2, <1>7
  <2>4. CASE o = Out("OK", s) /\ (~s.nullOff[i] \/ p.system = "C")
    BY <2>1, <2>4, AsideRefl, AsideTunes DEF Out
  <2> QED BY <2>2, <2>3, <2>4
<1>8. ASSUME NEW o \in PrepareDemod(s, C, i, p), Device(s)
      PROVE  Tunes(s, o.s, i) /\ (o.ret = "OK" => o.s.nullOff[i] = (p.system = "C"))
  <2> HIDE DEF First, Rest
  <2>1. PICK a \in First : (o = a /\ a.ret # "OK") \/ (a.ret = "OK" /\ o \in Rest(a.s))
    BY <1>1, <1>8 DEF Then
  <2>2. Tunes(s, a.s, i) /\ Device(a.s)
    BY <1>7, <1>8 DEF Tunes
  <2>3. CASE a.ret = "OK" /\ o \in Rest(a.s)
    BY <2>2, <2>3, <1>6, <1>7, <1>8, TunesTrans
  <2> QED BY <2>1, <2>2, <2>3
<1> QED BY <1>8 DEF Tunes

LEMMA MltTuneTunes ==
    ASSUME NEW s, NEW C, NEW i \in Rx(family), NEW p
    PROVE  \A o \in pxmlt_chrdev_tune(s, C, i, p) :
              /\ Tunes(s, o.s, i)
              /\ Device(s) /\ o.ret = "OK" => o.s.nullOff[i] = (p.system = "C")
<1> SUFFICES ASSUME NEW o \in pxmlt_chrdev_tune(s, C, i, p), Device(s)
             PROVE  Tunes(s, o.s, i) /\ (o.ret = "OK" => o.s.nullOff[i] = (p.system = "C"))
    BY DEF Tunes
<1>1. PICK a \in PrepareDemod(s, C, i, p) :
         \/ o = a /\ a.ret # "OK"
         \/ a.ret = "OK" /\ o \in Then(SetTuner(a.s, i, p), LAMBDA u : cxd2856er_post_tune(u, i))
  BY DEF pxmlt_chrdev_tune, Then
<1>2. Tunes(s, a.s, i) /\ (a.ret = "OK" => a.s.nullOff[i] = (p.system = "C")) /\ Device(a.s)
  BY PrepareDemodTunes DEF Tunes
<1>3. CASE a.ret = "OK" /\ o \in Then(SetTuner(a.s, i, p), LAMBDA u : cxd2856er_post_tune(u, i))
  <2>1. \A t : \A q \in cxd2856er_post_tune(t, i) : Aside(t, q.s)
    BY ProgramAside DEF cxd2856er_post_tune
  <2>2. Aside(a.s, o.s)
    BY <1>3, <2>1, TunerParamsAside, AsideTrans DEF Then
  <2> QED BY <1>2, <1>3, <2>2, AsideTunes, TunesTrans DEF Aside, SameFilter
<1> QED BY <1>1, <1>2, <1>3

-----------------------------------------------------------------------------
(* The chips of the other boards.                                          *)

(* The demodulator and the tuners of the PX4 boards and of the boards with *)
(* one receiver, call by call.                                             *)
LEMMA TcStatusAside ==
    ASSUME NEW s, NEW i, NEW id, NEW tsids
    PROVE  /\ \A o \in tc90522_is_signal_locked_t(s) \cup tc90522_is_signal_locked_s(s)
                        \cup tc90522_get_cndat_t(s) \cup tc90522_get_cn_s(s) : Aside(s, o.s)
           /\ \A o \in tc90522_get_tmcc_partial_reception_t(s) : Aside(s, o.s)
           /\ \A o \in TsidList(s, tsids) : Aside(s, o.s)
           /\ \A o \in SetStreamId(s, i, id, tsids) : Aside(s, o.s)
<1>1. ASSUME NEW t
      PROVE  \A o \in tc90522_is_signal_locked_t(t) \cup tc90522_is_signal_locked_s(t)
                        \cup tc90522_get_cndat_t(t) \cup tc90522_get_cn_s(t) : Aside(t, o.s)
  BY AccessAside DEF tc90522_is_signal_locked_t, tc90522_is_signal_locked_s,
     tc90522_get_cndat_t, tc90522_get_cn_s, Out
<1>2. \A o \in tc90522_get_tmcc_partial_reception_t(s) : Aside(s, o.s)
  BY AccessAside, AsideTrans DEF tc90522_get_tmcc_partial_reception_t, Then
<1>3. ASSUME NEW t, NEW idx, NEW o \in tc90522_tmcc_get_tsid_s(t, idx, tsids) PROVE Aside(t, o.s)
  BY <1>3, AccessAside, AsideRefl DEF tc90522_tmcc_get_tsid_s
<1>4. \A o \in TsidList(s, tsids) : Aside(s, o.s)
  BY <1>1, <1>3, AsideTrans, AsideRefl DEF TsidList, Then, Return, Out
<1>5. ASSUME NEW t, NEW tsid, NEW o \in Then(Program(t, i, tc90522_set_tsid_s(tsid)), LAMBDA u : Poll(u))
      PROVE  Aside(t, o.s)
  BY <1>5, ProgramAside, AccessAside, AsideTrans DEF Then
<1>6. ASSUME NEW o \in SetStreamId(s, i, id, tsids) PROVE Aside(s, o.s)
  <2> DEFINE Sel(t, tsid) == Then(Program(t, i, tc90522_set_tsid_s(tsid)), LAMBDA u : Poll(u))
             Found == tc90522_tmcc_get_tsid_s(s, id, tsids)
             Use(p) == IF p.ret # "OK" THEN Return(p.ret, p.s)
                       ELSE IF p.tsid = NoTsid THEN Return("EAGAIN", p.s) ELSE Sel(p.s, p.tsid)
  <2>1. SetStreamId(s, i, id, tsids) = IF id >= 12 THEN Sel(s, id) ELSE UNION {Use(p) : p \in Found}
    BY DEF SetStreamId, tc90522_write_multiple_regs, tc90522_get_tsid_s
  <2>2. ASSUME NEW t, NEW tsid PROVE \A q \in Sel(t, tsid) : Aside(t, q.s)
    BY <1>5
  <2> HIDE DEF Sel
  <2>3. ASSUME NEW p PROVE \A q \in Use(p) : Aside(p.s, q.s)
    BY <2>2, AsideRefl DEF Return, Out
  <2>4. \A p \in Found : Aside(s, p.s)
    BY <1>3
  <2> HIDE DEF Use, Found
  <2> QED BY <2>1, <2>2, <2>3, <2>4, <1>6, AsideTrans
<1> QED BY <1>1, <1>2, <1>4, <1>6

LEMMA TcProgramAside ==
    ASSUME NEW s, NEW i, NEW P
    PROVE  /\ \A o \in tc90522_write_multiple_regs(s, i, P) : Aside(s, o.s)
           /\ \A o \in r850_write_regs(s, i, P) : Aside(s, o.s)
           /\ \A o \in rt710_write_regs(s, i, P) : Aside(s, o.s)
BY ProgramAside DEF tc90522_write_multiple_regs, r850_write_regs, rt710_write_regs,
   tc90522_i2c_master_request

LEMMA R850Aside ==
    ASSUME NEW s, NEW i
    PROVE  /\ \A o \in r850_init(s, i) : Aside(s, o.s)
           /\ Aside(s, r850_term(s, i))
           /\ \A o \in r850_sleep(s, i) : Aside(s, o.s)
           /\ \A o \in r850_wakeup(s, i) : Aside(s, o.s)
           /\ \A o \in r850_set_system(s, i) : Aside(s, o.s)
           /\ \A freq : \A o \in r850_set_frequency(s, i, freq) : Aside(s, o.s)
           /\ \A o \in r850_is_pll_locked(s, i) : Aside(s, o.s)
<1> DEFINE Off(t) == [t EXCEPT !.r850[i] = R850Off]
           On(t) == [t EXCEPT !.r850[i].init = TRUE]
           Sys(t) == [t EXCEPT !.r850[i].sys = "T", !.r850[i].curr = "UNDEFINED"]
           Cur(t) == [t EXCEPT !.r850[i].curr = t.r850[i].sys]
           Chk(t) == r850_check_xtal_power(t, i)
           Nop(t) == r850_write_regs(t, i, << >>)
           Last(t) == Then(Nop(t), LAMBDA x : {Out("OK", On(x))})
           Mid(t) == Then(Chk(t), LAMBDA w : Last(w))
<1>1. ASSUME NEW t PROVE Aside(t, Off(t)) /\ Aside(t, On(t)) /\ Aside(t, Sys(t)) /\ Aside(t, Cur(t))
  <2>1. Aside(t, Off(t)) /\ Aside(t, On(t))
    BY DEF Aside, Device, SameCapture, SameLnb, SameFilter, DeviceFields
  <2>2. Aside(t, Sys(t)) /\ Aside(t, Cur(t))
    BY DEF Aside, Device, SameCapture, SameLnb, SameFilter, DeviceFields
  <2> QED BY <2>1, <2>2
<1> HIDE DEF Off, On, Sys, Cur, Chk, Nop, Last, Mid
<1>2. \A o \in r850_init(s, i) : Aside(s, o.s)
  <2>1. r850_init(s, i) =
          Then(ReadChip(Off(s)), LAMBDA u : Then(Access(u), LAMBDA v : Mid(v)))
    BY DEF r850_init, r850_read_regs, Return, Off, On, Chk, Nop, Last, Mid
  <2>2. ASSUME NEW t PROVE \A o \in ReadChip(t) \cup Chk(t) \cup Nop(t) : Aside(t, o.s)
    BY AccessAside, TcProgramAside, AsideTrans
       DEF ReadChip, r850_check_xtal_power, r850_read_regs, Then, Ignoring, Out, Chk, Nop
  <2>3. ASSUME NEW t PROVE \A o \in Last(t) : Aside(t, o.s)
    BY <2>2, <1>1, AsideTrans DEF Then, Out, Last
  <2>4. ASSUME NEW t PROVE \A o \in Mid(t) : Aside(t, o.s)
    BY <2>2, <2>3, AsideTrans DEF Then, Out, Mid
  <2> QED BY <2>1, <2>2, <2>4, <1>1, AccessAside, AsideTrans DEF Then
<1>3. Aside(s, r850_term(s, i)) /\ (\A o \in r850_sleep(s, i) : Aside(s, o.s))
      /\ (\A o \in r850_wakeup(s, i) : Aside(s, o.s))
  <2>1. r850_term(s, i) = Off(s)
    BY DEF r850_term, Off
  <2> QED BY <2>1, <1>1, AsideRefl DEF r850_sleep, r850_wakeup, Return, Out
<1>4. \A o \in r850_set_system(s, i) : Aside(s, o.s)
  <2>1. r850_set_system(s, i) = IF ~s.r850[i].init THEN Return("EINVAL", s) ELSE Return("OK", Sys(s))
    BY DEF r850_set_system, Sys
  <2> QED BY <2>1, <1>1, AsideRefl DEF Return, Out
<1>5. \A o \in r850_is_pll_locked(s, i) : Aside(s, o.s)
  BY AccessAside, AsideRefl DEF r850_is_pll_locked, Return, Out
<1>6. ASSUME NEW t PROVE \A o \in r850_set_system_params(t, i) : Aside(t, o.s)
  <2>1. r850_set_system_params(t, i) = IF t.r850[i].sys = "UNDEFINED" THEN Return("EINVAL", t) ELSE Return("OK", Cur(t))
    BY DEF r850_set_system_params, Cur
  <2> QED BY <2>1, <1>1, AsideRefl DEF Return, Out
<1>7. ASSUME NEW t, NEW freq PROVE \A o \in r850_set_system_frequency(t, i, freq) : Aside(t, o.s)
  BY TcProgramAside, AsideTrans DEF r850_set_system_frequency, Then
<1>8. ASSUME NEW freq PROVE \A o \in r850_set_frequency(s, i, freq) : Aside(s, o.s)
  BY <1>6, <1>7, AsideTrans, AsideRefl DEF r850_set_frequency, Then, Return, Out
<1> QED BY <1>2, <1>3, <1>4, <1>5, <1>8

LEMMA Rt710Aside ==
    ASSUME NEW s, NEW i
    PROVE  /\ \A o \in rt710_init(s, i) : Aside(s, o.s)
           /\ Aside(s, rt710_term(s, i))
           /\ \A o \in rt710_sleep(s, i) : Aside(s, o.s)
           /\ \A freq, rate, rolloff : \A o \in rt710_set_params(s, i, freq, rate, rolloff) : Aside(s, o.s)
           /\ \A o \in rt710_is_pll_locked(s, i) : Aside(s, o.s)
           /\ \A o \in rt710_get_rf_signal_strength(s, i) : Aside(s, o.s)
<1> DEFINE Off(t) == [t EXCEPT !.rt710[i] = Rt710Off]
           On(t) == [t EXCEPT !.rt710[i].init = TRUE]
           Forgot(t) == [t EXCEPT !.rt710[i].freq = 0]
           Freq(t, freq) == [t EXCEPT !.rt710[i].freq = freq]
           P(freq) == << <<"s_pll", Pll(freq * MixDiv(freq), MixDiv(freq), Rt710Xtal)>> >>
<1>1. ASSUME NEW t
      PROVE  Aside(t, Off(t)) /\ Aside(t, On(t)) /\ Aside(t, Forgot(t)) /\ Aside(t, rt710_term(t, i))
             /\ \A freq : Aside(t, Freq(t, freq))
  BY DEF Aside, Device, SameCapture, SameLnb, SameFilter, DeviceFields, rt710_term
<1> HIDE DEF Off, On, Forgot, Freq, P
<1>2. \A o \in rt710_init(s, i) : Aside(s, o.s)
  <2>1. rt710_init(s, i) = Then(Access(Off(s)), LAMBDA t : {Out("OK", On(t))})
    BY DEF rt710_init, rt710_read_regs, Return, Off, On
  <2> QED BY <2>1, <1>1, AccessAside, AsideTrans DEF Then, Out
<1>3. \A o \in rt710_sleep(s, i) : Aside(s, o.s)
  BY TcProgramAside, AsideRefl DEF rt710_sleep, Return, Out
<1>4. (\A o \in rt710_is_pll_locked(s, i) : Aside(s, o.s))
      /\ (\A o \in rt710_get_rf_signal_strength(s, i) : Aside(s, o.s))
  BY AccessAside, AsideRefl
     DEF rt710_is_pll_locked, rt710_get_rf_signal_strength, rt710_get_rf_gain, rt710_read_regs, Return, Out
<1>5. ASSUME NEW t, NEW freq PROVE \A o \in rt710_set_pll(t, i, freq) : Aside(t, o.s)
  <2>1. rt710_set_pll(t, i, freq) = Then(rt710_write_regs(Forgot(t), i, P(freq)), LAMBDA u : {Out("OK", Freq(u, freq))})
    BY DEF rt710_set_pll, Return, Forgot, Freq, P
  <2> QED BY <2>1, <1>1, TcProgramAside, AsideTrans DEF Then, Out
<1>6. ASSUME NEW freq, NEW rate, NEW rolloff PROVE \A o \in rt710_set_params(s, i, freq, rate, rolloff) : Aside(s, o.s)
  BY <1>5, TcProgramAside, AsideTrans, AsideRefl DEF rt710_set_params, Then, Return, Out
<1> QED BY <1>1, <1>2, <1>3, <1>4, <1>6

(* Their supply.                                                           *)
LEMMA TcPowerAside ==
    ASSUME NEW s, NEW on \in BOOLEAN
    PROVE  /\ \A o \in px4_backend_set_power(s, on) : Aside(s, o.s)
           /\ \A o \in isdb2056_backend_set_power(s, on) : Aside(s, o.s)
           /\ \A o \in isdbt2071_backend_set_power(s, on) : Aside(s, o.s)
<1> SUFFICES ASSUME Device(s)
             PROVE  /\ \A o \in px4_backend_set_power(s, on) : Aside(s, o.s)
                    /\ \A o \in isdb2056_backend_set_power(s, on) : Aside(s, o.s)
                    /\ \A o \in isdbt2071_backend_set_power(s, on) : Aside(s, o.s)
    BY DEF Aside
<1>1. ASSUME NEW v PROVE DOMAIN [j \in DOMAIN s.reg |-> v] = Rx(family)
  BY DEF Device
<1> QED BY <1>1, SetPowerAside
        DEF px4_backend_set_power, isdb2056_backend_set_power, isdbt2071_backend_set_power

LEMMA TcSwitchAside ==
    ASSUME NEW s
    PROVE  /\ \A o \in px4_backend_set_power(s, TRUE) : Aside(s, o.s)
           /\ \A o \in px4_backend_set_power(s, FALSE) : Aside(s, o.s)
           /\ \A o \in isdb2056_backend_set_power(s, TRUE) : Aside(s, o.s)
           /\ \A o \in isdb2056_backend_set_power(s, FALSE) : Aside(s, o.s)
           /\ \A o \in isdbt2071_backend_set_power(s, TRUE) : Aside(s, o.s)
           /\ \A o \in isdbt2071_backend_set_power(s, FALSE) : Aside(s, o.s)
BY TcPowerAside

(* Open, release and tune of a PX4 receiver.                               *)
LEMMA Px4BackendAside ==
    ASSUME NEW s
    PROVE  /\ \A o \in px4_backend_init(s) : Aside(s, o.s)
           /\ Aside(s, px4_backend_term(s))
<1> DEFINE I(t, k) == IF Cap(k) = "T" THEN r850_init(t, k) ELSE rt710_init(t, k)
<1>1. px4_backend_init(s) = Then(Then(I(s, 0), LAMBDA t : I(t, 1)), LAMBDA t : I(t, 2))
  BY DEF px4_backend_init, Each
<1>2. ASSUME NEW t, NEW k PROVE \A o \in I(t, k) : Aside(t, o.s)
  BY R850Aside, Rt710Aside
<1>3. Aside(s, px4_backend_term(s))
  BY DEF Aside, Device, SameCapture, SameLnb, SameFilter, DeviceFields, px4_backend_term
<1> HIDE DEF I
<1> QED BY <1>1, <1>2, <1>3, AsideTrans DEF Then

LEMMA Px4SleepAside ==
    ASSUME NEW s, NEW i
    PROVE  /\ \A o \in SleepReceiver(s, i) : Aside(s, o.s)
           /\ \A o \in WakeReceiver(s, i) : Aside(s, o.s)
<1> DEFINE PT == tc90522_sleep_t(TRUE)
           PS == tc90522_sleep_s(TRUE)
           WT == tc90522_write_reg("t_init", "px4") \o tc90522_enable_ts_pins_t(FALSE) \o tc90522_sleep_t(FALSE)
           WS == tc90522_write_reg("s_init", "px4") \o tc90522_enable_ts_pins_s(FALSE) \o tc90522_sleep_s(FALSE)
           Up(t) == Then(r850_wakeup(t, i), LAMBDA u : r850_set_system(u, i))
<1>1. SleepReceiver(s, i) =
        IF Cap(i) = "T"
        THEN Then(r850_sleep(s, i), LAMBDA t : tc90522_write_multiple_regs(t, i, PT))
        ELSE Then(rt710_sleep(s, i), LAMBDA t : tc90522_write_multiple_regs(t, i, PS))
  BY DEF SleepReceiver
<1>2. WakeReceiver(s, i) =
        IF Cap(i) = "T" THEN Then(tc90522_write_multiple_regs(s, i, WT), LAMBDA t : Up(t))
        ELSE tc90522_write_multiple_regs(s, i, WS)
  BY DEF WakeReceiver
<1>3. ASSUME NEW t PROVE \A o \in Up(t) : Aside(t, o.s)
  BY R850Aside, AsideTrans DEF Then
<1> HIDE DEF PT, PS, WT, WS, Up
<1>4. \A o \in SleepReceiver(s, i) : Aside(s, o.s)
  BY <1>1, R850Aside, Rt710Aside, TcProgramAside, AsideTrans DEF Then
<1> QED BY <1>2, <1>3, <1>4, TcProgramAside, AsideTrans DEF Then

LEMMA Px4OpenAside ==
    ASSUME NEW s, NEW C, NEW i PROVE \A o \in px4_chrdev_open(s, C, i) : Aside(s, o.s)
<1> DEFINE first == s.open_count = 0
           High == px4_backend_set_power(s, TRUE)
           Low(t) == px4_backend_set_power(t, FALSE)
           On == IF first /\ ~s.card_powered THEN High ELSE Return("OK", s)
           Off(t) == IF first /\ ~t.card_powered THEN Low(t) ELSE Return("OK", t)
           Backend(t) == OnError(px4_backend_init(t), LAMBDA u : Off(u))
           Begin(t) == IF first THEN Backend(t) ELSE Return("OK", t)
           Other(u, j) == IF j = i \/ C[j].open THEN Return("OK", u) ELSE SleepReceiver(u, j)
           Sleep(t) == Then(Then(Other(t, 0), LAMBDA u : Other(u, 1)), LAMBDA u : Other(u, 2))
           A == tc90522_write_reg("s_out", "px4")
           B == tc90522_write_reg("t_out", "px4")
           Shared(t) == Then(tc90522_write_multiple_regs(t, 0, A),
                             LAMBDA u : tc90522_write_multiple_regs(u, 2, B))
           Others(t) == IF first THEN Sleep(t) ELSE Return("OK", t)
           Final(t) == IF first THEN Shared(t) ELSE Return("OK", t)
           Woken(t) == Then(WakeReceiver(t, i), LAMBDA v : Final(v))
           Setup(t) == Then(Others(t), LAMBDA u : Woken(u))
           Unwind(t) == Off(IF first THEN px4_backend_term(t) ELSE t)
           Count(t) == [t EXCEPT !.open_count = @ + 1]
           Last(t) == Then(OnError(Setup(t), LAMBDA u : Unwind(u)), LAMBDA v : {Out("OK", Count(v))})
<1>1. px4_chrdev_open(s, C, i) = Then(On, LAMBDA t : Then(Begin(t), LAMBDA u : Last(u)))
  BY DEF px4_chrdev_open, Each, Return
<1>2. ASSUME NEW t PROVE Aside(t, Count(t))
  BY DEF Aside, Device, SameCapture, SameLnb, SameFilter, DeviceFields
<1>3. (\A o \in High : Aside(s, o.s)) /\ (\A t : \A o \in Low(t) : Aside(t, o.s))
  BY TcSwitchAside
<1>4. ASSUME NEW t PROVE \A o \in Shared(t) : Aside(t, o.s)
  <2> HIDE DEF A, B
  <2> QED BY TcProgramAside, AsideTrans DEF Then
<1>5. ASSUME NEW t, NEW j PROVE \A o \in Other(t, j) : Aside(t, o.s)
  BY Px4SleepAside, AsideRefl DEF Return, Out
<1>6. ASSUME NEW t PROVE \A o \in Sleep(t) : Aside(t, o.s)
  <2> HIDE DEF Other
  <2> QED BY <1>5, AsideTrans DEF Then
<1> HIDE DEF High, Low, Shared, Other, Sleep, Count
<1>7. (\A o \in On : Aside(s, o.s)) /\ (\A t : \A o \in Off(t) : Aside(t, o.s))
  BY <1>3, AsideRefl DEF Return, Out
<1> HIDE DEF On, Off
<1>8. ASSUME NEW t PROVE \A o \in Backend(t) : Aside(t, o.s)
  BY <1>7, Px4BackendAside, AsideTrans DEF OnError, Finally, Out
<1> HIDE DEF Backend
<1>9. ASSUME NEW t
      PROVE  /\ \A o \in Begin(t) : Aside(t, o.s)
             /\ \A o \in Others(t) : Aside(t, o.s)
             /\ \A o \in Final(t) : Aside(t, o.s)
             /\ \A o \in Unwind(t) : Aside(t, o.s)
  BY <1>4, <1>6, <1>7, <1>8, Px4BackendAside, AsideTrans, AsideRefl DEF Return, Out
<1> HIDE DEF Begin, Others, Final, Unwind
<1>10. ASSUME NEW t PROVE \A o \in Woken(t) : Aside(t, o.s)
  BY <1>9, Px4SleepAside, AsideTrans DEF Then
<1> HIDE DEF Woken
<1>11. ASSUME NEW t PROVE \A o \in Setup(t) : Aside(t, o.s)
  BY <1>9, <1>10, AsideTrans DEF Then
<1> HIDE DEF Setup
<1>12. ASSUME NEW t PROVE \A o \in Last(t) : Aside(t, o.s)
  BY <1>2, <1>9, <1>11, AsideTrans DEF Then, OnError, Finally, Out
<1> HIDE DEF Last
<1> QED BY <1>1, <1>7, <1>9, <1>12, AsideTrans DEF Then

LEMMA Px4ReleaseAside ==
    ASSUME NEW s, NEW i
    PROVE  \A o \in px4_chrdev_release(s, i) : \E p \in SetLnb(s, i, 0) : Aside(p.s, o.s)
<1> DEFINE PT == tc90522_sleep_t(TRUE)
           PS == tc90522_sleep_s(TRUE)
           Low(t) == px4_backend_set_power(t, FALSE)
           ST(t) == Ignoring(tc90522_write_multiple_regs(t, i, PT))
           SS(t) == Ignoring(tc90522_write_multiple_regs(t, i, PS))
           Sleep(t) == IF Cap(i) = "T" THEN Anyway(r850_sleep(t, i), LAMBDA u : ST(u))
                       ELSE Anyway(rt710_sleep(t, i), LAMBDA u : SS(u))
           Last(u) == IF u.card_powered THEN Return("OK", u) ELSE Low(u)
           More(t) == IF t.available THEN Sleep(t) ELSE Return("OK", t)
           Leave(t) == IF t.open_count = 0 THEN Last(px4_backend_term(t)) ELSE More(t)
           Less(t) == [t EXCEPT !.open_count = @ - 1]
           Rest(t) == IF t.open_count = 0 THEN Return("EALREADY", t) ELSE Leave(Less(t))
<1>1. px4_chrdev_release(s, i) = Anyway(SetLnb(s, i, 0), LAMBDA t : Rest(t))
  BY DEF px4_chrdev_release, px4_chrdev_set_lnb_voltage_s
<1>2. ASSUME NEW t PROVE Aside(t, Less(t))
  BY DEF Aside, Device, SameCapture, SameLnb, SameFilter, DeviceFields
<1>3. ASSUME NEW t PROVE \A o \in Low(t) : Aside(t, o.s)
  BY TcSwitchAside
<1> HIDE DEF PT, PS, Low, Less
<1>4. ASSUME NEW t PROVE \A o \in ST(t) \cup SS(t) : Aside(t, o.s)
  BY TcProgramAside DEF Ignoring, Out
<1> HIDE DEF ST, SS
<1>5. ASSUME NEW t PROVE \A o \in Sleep(t) : Aside(t, o.s)
  BY <1>4, R850Aside, Rt710Aside, AsideTrans DEF Anyway
<1> HIDE DEF Sleep
<1>6. ASSUME NEW t PROVE (\A o \in Last(t) : Aside(t, o.s)) /\ (\A o \in More(t) : Aside(t, o.s))
  BY <1>3, <1>5, AsideRefl DEF Return, Out
<1> HIDE DEF Last, More
<1>7. ASSUME NEW t PROVE \A o \in Leave(t) : Aside(t, o.s)
  BY <1>6, Px4BackendAside, AsideTrans
<1> HIDE DEF Leave
<1>8. ASSUME NEW t PROVE \A o \in Rest(t) : Aside(t, o.s)
  BY <1>2, <1>7, AsideTrans, AsideRefl DEF Return, Out
<1> HIDE DEF Rest
<1> QED BY <1>1, <1>8 DEF Anyway

LEMMA Px4TuneAside ==
    ASSUME NEW s, NEW i, NEW p
    PROVE  /\ \A o \in px4_chrdev_tune_t(s, i, p) : Aside(s, o.s)
           /\ \A o \in px4_chrdev_tune_s(s, i, p) : Aside(s, o.s)
<1> DEFINE T1 == tc90522_write_reg("t_mode", "tuning") \o tc90522_set_agc_t(FALSE)
           T2 == tc90522_set_agc_t(TRUE) \o tc90522_write_reg("t_mode", "tuned")
           S1 == tc90522_set_agc_s(FALSE) \o tc90522_write_reg("s_mode", "tuned")
           S2 == tc90522_set_agc_s(TRUE)
           W(t, P) == tc90522_write_multiple_regs(t, i, P)
           RF(t) == r850_set_frequency(t, i, p.freq)
           RP(t) == rt710_set_params(t, i, p.freq, 28860, 4)
           A1(t) == Then(r850_is_pll_locked(t, i), LAMBDA v : W(v, T2))
           A2(t) == Then(RF(t), LAMBDA u : A1(u))
           B1(t) == Anyway(rt710_get_rf_signal_strength(t, i), LAMBDA w : W(w, S2))
           B2(t) == Then(rt710_is_pll_locked(t, i), LAMBDA v : B1(v))
           B3(t) == Then(RP(t), LAMBDA u : B2(u))
<1>1. px4_chrdev_tune_t(s, i, p) =
        IF p.system # "T" THEN Return("EINVAL", s) ELSE Then(W(s, T1), LAMBDA t : A2(t))
  BY DEF px4_chrdev_tune_t
<1>2. px4_chrdev_tune_s(s, i, p) =
        IF p.system # "S" THEN Return("EINVAL", s) ELSE Then(W(s, S1), LAMBDA t : B3(t))
  BY DEF px4_chrdev_tune_s
<1> HIDE DEF T1, T2, S1, S2
<1>3. ASSUME NEW t, NEW P PROVE \A o \in W(t, P) : Aside(t, o.s)
  BY TcProgramAside
<1>4. ASSUME NEW t PROVE (\A o \in RF(t) : Aside(t, o.s)) /\ (\A o \in RP(t) : Aside(t, o.s))
  <2>1. \A o \in RF(t) : Aside(t, o.s)
    BY R850Aside
  <2>2. \A freq, rate, rolloff : \A o \in rt710_set_params(t, i, freq, rate, rolloff) : Aside(t, o.s)
    BY Rt710Aside
  <2> QED BY <2>1, <2>2
<1> HIDE DEF W, RF, RP
<1>5. ASSUME NEW t PROVE (\A o \in A1(t) : Aside(t, o.s)) /\ (\A o \in B1(t) : Aside(t, o.s))
  <2>1. \A o \in A1(t) : Aside(t, o.s)
    BY <1>3, R850Aside, AsideTrans DEF Then
  <2>2. \A o \in B1(t) : Aside(t, o.s)
    BY <1>3, Rt710Aside, AsideTrans DEF Anyway
  <2> QED BY <2>1, <2>2
<1> HIDE DEF A1, B1
<1>6. ASSUME NEW t PROVE (\A o \in A2(t) : Aside(t, o.s)) /\ (\A o \in B2(t) : Aside(t, o.s))
  <2>1. \A o \in A2(t) : Aside(t, o.s)
    BY <1>4, <1>5, AsideTrans DEF Then
  <2>2. \A o \in B2(t) : Aside(t, o.s)
    BY <1>5, Rt710Aside, AsideTrans DEF Then
  <2> QED BY <2>1, <2>2
<1> HIDE DEF A2, B2
<1>7. ASSUME NEW t PROVE \A o \in B3(t) : Aside(t, o.s)
  BY <1>4, <1>6, AsideTrans DEF Then
<1> HIDE DEF B3
<1>8. ASSUME NEW o \in px4_chrdev_tune_t(s, i, p) PROVE Aside(s, o.s)
  BY <1>1, <1>3, <1>6, <1>8, AsideTrans, AsideRefl DEF Then, Return, Out
<1>9. ASSUME NEW o \in px4_chrdev_tune_s(s, i, p) PROVE Aside(s, o.s)
  BY <1>2, <1>3, <1>7, <1>9, AsideTrans, AsideRefl DEF Then, Return, Out
<1> QED BY <1>8, <1>9

(* Open, release and tune of the boards with one receiver.                 *)
LEMMA OneOpenAside ==
    ASSUME NEW s, NEW i, NEW sat
    PROVE  /\ \A o \in isdb2056_chrdev_open(s, i, sat) : Aside(s, o.s)
           /\ \A o \in isdbt2071_chrdev_open(s, i) : Aside(s, o.s)
           /\ \A o \in isdb2056_chrdev_release(s, i) : Aside(s, o.s)
           /\ \A o \in isdbt2071_chrdev_release(s, i) : Aside(s, o.s)
<1> DEFINE W(t, P) == tc90522_write_multiple_regs(t, i, P)
           PT == tc90522_write_reg("t_init", "isdb2056") \o tc90522_enable_ts_pins_t(FALSE) \o tc90522_sleep_t(TRUE)
           PS == tc90522_write_reg("s_init", "isdb2056") \o tc90522_enable_ts_pins_s(FALSE) \o tc90522_sleep_s(TRUE)
           P1 == tc90522_write_reg("t_init", "isdbt2071") \o tc90522_enable_ts_pins_t(FALSE) \o tc90522_sleep_t(FALSE)
           Sys(t) == r850_set_system(t, i)
           A1(t) == Then(Sys(t), LAMBDA v : W(v, PS))
           A2(t) == Then(W(t, PT), LAMBDA u : A1(u))
           ATerm(t) == {Out("OK", isdb2056_backend_term(t, i))}
           A3(t) == OnError(A2(t), LAMBDA v : ATerm(v))
           Sat1(t) == IF sat THEN rt710_init(t, i) ELSE Return("OK", t)
           AInit(t) == Then(r850_init(t, i), LAMBDA u : Sat1(u))
           A4(t) == Then(AInit(t), LAMBDA u : A3(u))
           AOff(t) == isdb2056_backend_set_power(t, FALSE)
           AOn == isdb2056_backend_set_power(s, TRUE)
           A5(t) == OnError(A4(t), LAMBDA u : AOff(u))
           B1(t) == Then(r850_wakeup(t, i), LAMBDA v : Sys(v))
           B2(t) == Then(W(t, P1), LAMBDA u : B1(u))
           BTerm(t) == {Out("OK", isdbt2071_backend_term(t, i))}
           B3(t) == OnError(B2(t), LAMBDA v : BTerm(v))
           B4(t) == Then(r850_init(t, i), LAMBDA u : B3(u))
           BOff(t) == isdbt2071_backend_set_power(t, FALSE)
           BOn == isdbt2071_backend_set_power(s, TRUE)
           B5(t) == OnError(B4(t), LAMBDA u : BOff(u))
<1>1. isdb2056_chrdev_open(s, i, sat) = Then(AOn, LAMBDA t : A5(t))
  BY DEF isdb2056_chrdev_open, isdb2056_backend_init, Return
<1>2. isdbt2071_chrdev_open(s, i) = Then(BOn, LAMBDA t : B5(t))
  BY DEF isdbt2071_chrdev_open, isdbt2071_backend_init, Return
<1>3. isdb2056_chrdev_release(s, i) = AOff(isdb2056_backend_term(s, i))
      /\ isdbt2071_chrdev_release(s, i) = BOff(isdbt2071_backend_term(s, i))
  BY DEF isdb2056_chrdev_release, isdbt2071_chrdev_release
<1>4. (\A o \in AOn : Aside(s, o.s)) /\ (\A o \in BOn : Aside(s, o.s))
      /\ (\A t : \A o \in AOff(t) \cup BOff(t) : Aside(t, o.s))
  BY TcSwitchAside
<1> HIDE DEF AOn, BOn, AOff, BOff, PT, PS, P1
<1>5. ASSUME NEW t PROVE Aside(t, isdb2056_backend_term(t, i)) /\ Aside(t, isdbt2071_backend_term(t, i))
  BY R850Aside, Rt710Aside, AsideTrans DEF isdb2056_backend_term, isdbt2071_backend_term
<1>6. ASSUME NEW t PROVE (\A P : \A o \in W(t, P) : Aside(t, o.s))
                         /\ (\A o \in Sys(t) \cup r850_wakeup(t, i) \cup r850_init(t, i) : Aside(t, o.s))
                         /\ (\A o \in ATerm(t) \cup BTerm(t) : Aside(t, o.s))
                         /\ (\A o \in Sat1(t) : Aside(t, o.s))
  BY <1>5, TcProgramAside, R850Aside, Rt710Aside, AsideRefl DEF Return, Out
<1> HIDE DEF W, Sys, ATerm, BTerm, Sat1
<1>7. ASSUME NEW t
      PROVE  (\A o \in A1(t) : Aside(t, o.s)) /\ (\A o \in B1(t) : Aside(t, o.s)) /\ (\A o \in AInit(t) : Aside(t, o.s))
  <2>1. \A o \in A1(t) : Aside(t, o.s)
    BY <1>6, AsideTrans DEF Then
  <2>2. \A o \in B1(t) : Aside(t, o.s)
    BY <1>6, AsideTrans DEF Then
  <2>3. \A o \in AInit(t) : Aside(t, o.s)
    BY <1>6, AsideTrans DEF Then
  <2> QED BY <2>1, <2>2, <2>3
<1> HIDE DEF A1, B1, AInit
<1>8. ASSUME NEW t PROVE (\A o \in A2(t) : Aside(t, o.s)) /\ (\A o \in B2(t) : Aside(t, o.s))
  BY <1>6, <1>7, AsideTrans DEF Then
<1> HIDE DEF A2, B2
<1>9. ASSUME NEW t PROVE (\A o \in A3(t) : Aside(t, o.s)) /\ (\A o \in B3(t) : Aside(t, o.s))
  BY <1>6, <1>8, AsideTrans DEF OnError, Finally, Out
<1> HIDE DEF A3, B3
<1>10. ASSUME NEW t PROVE (\A o \in A4(t) : Aside(t, o.s)) /\ (\A o \in B4(t) : Aside(t, o.s))
  BY <1>6, <1>7, <1>9, AsideTrans DEF Then
<1> HIDE DEF A4, B4
<1>11. ASSUME NEW t PROVE (\A o \in A5(t) : Aside(t, o.s)) /\ (\A o \in B5(t) : Aside(t, o.s))
  BY <1>4, <1>10, AsideTrans DEF OnError, Finally, Out
<1> HIDE DEF A5, B5
<1> QED BY <1>1, <1>2, <1>3, <1>4, <1>5, <1>11, AsideTrans DEF Then

LEMMA OneTuneAside ==
    ASSUME NEW s, NEW i, NEW p, NEW sat
    PROVE  /\ \A o \in isdb2056_chrdev_tune(s, i, p, sat) : Aside(s, o.s)
           /\ \A o \in isdbt2071_chrdev_tune(s, i, p) : Aside(s, o.s)
<1> DEFINE T1 == tc90522_write_reg("t_mode", "tuning")
                 \o tc90522_set_agc_t(FALSE) \o tc90522_sleep_s(TRUE)
                 \o tc90522_write_reg("t_out", "T") \o tc90522_sleep_t(FALSE)
                 \o tc90522_write_reg("route", "T")
           T2 == tc90522_set_agc_t(TRUE) \o tc90522_write_reg("t_mode", "tuned")
           S1 == LeaveT2056
                 \o tc90522_write_reg("s_out", "S") \o tc90522_sleep_s(FALSE)
                 \o tc90522_write_reg("s_mode", "tuned") \o tc90522_write_reg("route", "S")
           S2 == tc90522_set_agc_s(TRUE)
           U1 == tc90522_write_reg("t_mode", "tuning")
                 \o tc90522_set_agc_t(FALSE) \o tc90522_write_reg("t_mode", "tuned")
           U2 == tc90522_set_agc_t(TRUE)
           W(t, P) == tc90522_write_multiple_regs(t, i, P)
           RF(t) == r850_set_frequency(t, i, p.freq)
           RP(t) == rt710_set_params(t, i, p.freq, 28860, 4)
           A1(t) == Then(r850_is_pll_locked(t, i), LAMBDA v : W(v, T2))
           A2(t) == Then(RF(t), LAMBDA u : A1(u))
           A3(t) == Then(r850_wakeup(t, i), LAMBDA u : A2(u))
           B1(t) == Anyway(rt710_get_rf_signal_strength(t, i), LAMBDA w : W(w, S2))
           B2(t) == Then(rt710_is_pll_locked(t, i), LAMBDA v : B1(v))
           B3(t) == Then(RP(t), LAMBDA u : B2(u))
           C1(t) == Then(r850_is_pll_locked(t, i), LAMBDA v : W(v, U2))
           C2(t) == Then(RF(t), LAMBDA u : C1(u))
           TT == Then(W(s, T1), LAMBDA t : A3(t))
           TS == Then(W(s, S1), LAMBDA t : B3(t))
           TU == Then(W(s, U1), LAMBDA t : C2(t))
           TL == Then(W(s, LeaveT2056), LAMBDA t : Return("EINVAL", t))
<1>1. isdb2056_chrdev_tune(s, i, p, sat) =
        CASE p.system = "T" -> TT [] p.system = "S" /\ sat -> TS
          [] p.system = "S" /\ ~sat -> TL [] OTHER -> Return("EINVAL", s)
  BY DEF isdb2056_chrdev_tune, TuneT2056, TuneS2056
<1>2. isdbt2071_chrdev_tune(s, i, p) = IF p.system # "T" THEN Return("EINVAL", s) ELSE TU
  BY DEF isdbt2071_chrdev_tune
<1> HIDE DEF T1, T2, S1, S2, U1, U2
<1>3. ASSUME NEW t, NEW P PROVE \A o \in W(t, P) : Aside(t, o.s)
  BY TcProgramAside
<1>4. ASSUME NEW t PROVE (\A o \in RF(t) : Aside(t, o.s)) /\ (\A o \in RP(t) : Aside(t, o.s))
  <2>1. \A o \in RF(t) : Aside(t, o.s)
    BY R850Aside
  <2>2. \A freq, rate, rolloff : \A o \in rt710_set_params(t, i, freq, rate, rolloff) : Aside(t, o.s)
    BY Rt710Aside
  <2> QED BY <2>1, <2>2
<1> HIDE DEF W, RF, RP
<1>5. ASSUME NEW t
      PROVE  (\A o \in A1(t) : Aside(t, o.s)) /\ (\A o \in B1(t) : Aside(t, o.s)) /\ (\A o \in C1(t) : Aside(t, o.s))
  <2>1. (\A o \in A1(t) : Aside(t, o.s)) /\ (\A o \in C1(t) : Aside(t, o.s))
    BY <1>3, R850Aside, AsideTrans DEF Then
  <2>2. \A o \in B1(t) : Aside(t, o.s)
    BY <1>3, Rt710Aside, AsideTrans DEF Anyway
  <2> QED BY <2>1, <2>2
<1> HIDE DEF A1, B1, C1
<1>6. ASSUME NEW t
      PROVE  (\A o \in A2(t) : Aside(t, o.s)) /\ (\A o \in B2(t) : Aside(t, o.s)) /\ (\A o \in C2(t) : Aside(t, o.s))
  <2>1. \A o \in A2(t) : Aside(t, o.s)
    BY <1>4, <1>5, AsideTrans DEF Then
  <2>2. \A o \in B2(t) : Aside(t, o.s)
    BY <1>5, Rt710Aside, AsideTrans DEF Then
  <2>3. \A o \in C2(t) : Aside(t, o.s)
    BY <1>4, <1>5, AsideTrans DEF Then
  <2> QED BY <2>1, <2>2, <2>3
<1> HIDE DEF A2, B2, C2
<1>7. ASSUME NEW t PROVE (\A o \in A3(t) : Aside(t, o.s)) /\ (\A o \in B3(t) : Aside(t, o.s))
  <2>1. \A o \in A3(t) : Aside(t, o.s)
    BY <1>6, R850Aside, AsideTrans DEF Then
  <2>2. \A o \in B3(t) : Aside(t, o.s)
    BY <1>4, <1>6, AsideTrans DEF Then
  <2> QED BY <2>1, <2>2
<1> HIDE DEF A3, B3
<1>8. (\A o \in TT : Aside(s, o.s)) /\ (\A o \in TS : Aside(s, o.s))
      /\ (\A o \in TU : Aside(s, o.s)) /\ (\A o \in TL : Aside(s, o.s))
  <2>1. \A o \in TT : Aside(s, o.s)
    BY <1>3, <1>7, AsideTrans DEF Then
  <2>2. \A o \in TS : Aside(s, o.s)
    BY <1>3, <1>7, AsideTrans DEF Then
  <2>3. \A o \in TU : Aside(s, o.s)
    BY <1>3, <1>6, AsideTrans DEF Then
  <2>4. \A o \in TL : Aside(s, o.s)
    BY <1>3, AsideTrans, AsideRefl DEF Then, Return, Out
  <2> QED BY <2>1, <2>2, <2>3, <2>4
<1> HIDE DEF TT, TS, TU, TL
<1>9. ASSUME NEW o \in isdb2056_chrdev_tune(s, i, p, sat) PROVE Aside(s, o.s)
  <2>1. o \in TT \/ o \in TS \/ o \in TL \/ o = Out("EINVAL", s)
    BY <1>1, <1>9 DEF Return
  <2> QED BY <2>1, <1>8, AsideRefl DEF Out
<1> QED BY <1>2, <1>8, <1>9, AsideRefl DEF Return, Out

(* The supply of the card reader, which is the one of the chips.           *)
LEMMA CardPowerAside ==
    ASSUME NEW s, NEW on \in BOOLEAN
    PROVE  /\ \A o \in px4_device_set_card_power(s, on) : Aside(s, o.s)
           /\ \A o \in pxmlt_card_set_power(s, on) : Aside(s, o.s)
<1> DEFINE Card(t) == [t EXCEPT !.card_powered = on]
           P == IF s.open_count = 0 THEN px4_backend_set_power(s, on) ELSE Return("OK", s)
           M == IF s.open_count = 0 THEN pxmlt_backend_set_power(s, on) ELSE Return("OK", s)
<1>1. px4_device_set_card_power(s, on) = {IF on /\ o.ret # "OK" THEN o ELSE Out(o.ret, Card(o.s)) : o \in P}
      /\ pxmlt_card_set_power(s, on) = {IF on /\ o.ret # "OK" THEN o ELSE Out(o.ret, Card(o.s)) : o \in M}
  BY DEF px4_device_set_card_power, pxmlt_card_set_power, SetCardPower
<1>2. ASSUME NEW t PROVE Aside(t, Card(t))
  BY DEF Aside, Device, SameCapture, SameLnb, SameFilter, DeviceFields
<1>3. (\A o \in P : Aside(s, o.s)) /\ (\A o \in M : Aside(s, o.s))
  BY TcPowerAside, MltPowerAside, AsideRefl DEF Return, Out
<1> HIDE DEF Card, P, M
<1> QED BY <1>1, <1>2, <1>3, AsideTrans DEF Out

-----------------------------------------------------------------------------
(* Reception, LNB supply and bring-up.                                     *)

(* The bridge's reception starts or nothing happens.                       *)
LEMMA BusStarts ==
    ASSUME NEW s, Device(s)
    PROVE  \A o \in itedtv_bus_start_streaming(s) :
              /\ o.ret # "OK" => Aside(s, o.s)
              /\ o.ret = "OK" => /\ Beside(s, o.s) /\ o.s.bus = TRUE
                                 /\ o.s.streaming_count = s.streaming_count
<1> DEFINE On(t) == [t EXCEPT !.bus = TRUE]
<1>1. itedtv_bus_start_streaming(s) = Then(Access(s), LAMBDA t : {Out("OK", On(t))})
  BY DEF itedtv_bus_start_streaming, Return
<1>2. ASSUME NEW t, Device(t)
      PROVE  Beside(t, On(t)) /\ On(t).bus = TRUE /\ On(t).streaming_count = t.streaming_count
  BY <1>2 DEF Beside, Device, SameLnb, SameFilter, DeviceFields
<1>3. ASSUME NEW t, NEW u, Aside(s, t), Beside(t, u), u.streaming_count = t.streaming_count
      PROVE  Beside(s, u) /\ u.streaming_count = s.streaming_count
  BY <1>3 DEF Aside, Beside, Device, SameLnb, SameFilter, SameCapture
<1>4. \A o \in Access(s) : Aside(s, o.s) /\ Device(o.s)
  BY AccessAside DEF Aside
<1> HIDE DEF On
<1> SUFFICES ASSUME NEW o \in itedtv_bus_start_streaming(s)
             PROVE  /\ o.ret # "OK" => Aside(s, o.s)
                    /\ o.ret = "OK" => /\ Beside(s, o.s) /\ o.s.bus = TRUE
                                       /\ o.s.streaming_count = s.streaming_count
    OBVIOUS
<1>5. CASE o \in Access(s) /\ o.ret # "OK"
  BY <1>4, <1>5
<1>6. ASSUME NEW t, o = Out("OK", On(t)), Aside(s, t), Device(t)
      PROVE  /\ o.ret = "OK" /\ Beside(s, o.s) /\ o.s.bus = TRUE
             /\ o.s.streaming_count = s.streaming_count
  <2>1. o.ret = "OK" /\ o.s = On(t)
    BY <1>6 DEF Out
  <2>2. Beside(t, On(t)) /\ On(t).streaming_count = t.streaming_count /\ On(t).bus = TRUE
    BY <1>2, <1>6
  <2>3. Beside(s, On(t)) /\ On(t).streaming_count = s.streaming_count
    BY <2>2, <1>3, <1>6
  <2>4. o.s.bus = TRUE
    BY <2>1, <2>2
  <2> QED BY <2>1, <2>3, <2>4
<1> QED BY <1>1, <1>4, <1>5, <1>6 DEF Then

LEMMA AsideBeside ==
    ASSUME NEW s, NEW t, Device(s), Aside(s, t)
    PROVE  Beside(s, t) /\ SameCapture(s, t) /\ Device(t)
BY DEF Aside, Beside

LEMMA BesideTrans ==
    ASSUME NEW s, NEW t, NEW u, Beside(s, t), Beside(t, u), Device(s)
    PROVE  Beside(s, u)
BY DEF Beside, Device, SameLnb, SameFilter

LEMMA PurgeAside ==
    ASSUME NEW s PROVE \A o \in it930x_purge_psb(s) : Aside(s, o.s)
<1> DEFINE F(t) == Finally(Access(t), LAMBDA u : Access(u))
<1>1. ASSUME NEW t PROVE \A o \in F(t) : Aside(t, o.s)
  BY AccessAside, AsideTrans DEF Finally, Out
<1>2. it930x_purge_psb(s) = Then(Access(s), LAMBDA t : F(t))
  BY DEF it930x_purge_psb
<1> HIDE DEF F
<1> QED BY <1>1, <1>2, AccessAside, AsideTrans DEF Then

(* The last two steps of a start, Bus: reception is started, Count: counted*)
LEMMA SharedStarted ==
    ASSUME NEW s, NEW u, NEW v, Device(s), s.streaming_count \in Nat, Aside(s, u), Beside(u, v),
           s.streaming_count = 0 => v.bus = TRUE, s.streaming_count # 0 => v.bus = u.bus,
           v.streaming_count = u.streaming_count
    PROVE  Started(s, Out("OK", [v EXCEPT !.streaming_count = @ + 1]), TRUE)
<1> DEFINE w == [v EXCEPT !.streaming_count = @ + 1]
<1>1. Device(u) /\ Beside(s, u) /\ SameCapture(s, u)
  BY AsideBeside
<1>2. Beside(s, v)
  BY <1>1, BesideTrans
<1>3. Beside(v, w) /\ w.bus = v.bus /\ w.streaming_count = v.streaming_count + 1
  <2>1. Device(v)
    BY <1>2 DEF Beside
  <2>2. Device(w) /\ w.bus = v.bus /\ w.streaming_count = v.streaming_count + 1
    BY <2>1 DEF Device, DeviceFields
  <2>3. SameLnb(v, w) /\ SameFilter(v, w) /\ w.faults = v.faults /\ w.gone = v.gone /\ w.available = v.available
    BY <2>1 DEF Device, SameLnb, SameFilter, DeviceFields
  <2>4. w.faults <= v.faults
    BY <2>1, <2>3 DEF Device
  <2> HIDE DEF w
  <2> QED BY <2>2, <2>3, <2>4 DEF Beside
<1> HIDE DEF w
<1>4. Beside(s, w)
  BY <1>2, <1>3, BesideTrans
<1> QED BY <1>1, <1>3, <1>4 DEF Started, Out, SameCapture, w

(* Starting a capture: the first receiver starts reception, and a start    *)
(* that fails undoes what it did.                                          *)
LEMMA MltStarts ==
    ASSUME NEW s PROVE \A o \in pxmlt_chrdev_start_capture(s) : Started(s, o, TRUE)
<1> DEFINE first == s.streaming_count = 0
           Purge == IF first THEN it930x_purge_psb(s) ELSE Return("OK", s)
           Bus(t) == IF first THEN itedtv_bus_start_streaming(t) ELSE Return("OK", t)
           Nop(t) == Return("OK", t)
           Count(t) == [t EXCEPT !.streaming_count = @ + 1]
           Rest(t) == Then(OnError(Bus(t), LAMBDA x : Nop(x)), LAMBDA v : {Out("OK", Count(v))})
           Mid(t) == Then(Nop(t), LAMBDA u : Rest(u))
<1>1. pxmlt_chrdev_start_capture(s) = Then(Purge, LAMBDA t : Mid(t))
  BY DEF pxmlt_chrdev_start_capture, StartShared, Return
<1> SUFFICES ASSUME Device(s), s.streaming_count \in Nat,
                    NEW o \in pxmlt_chrdev_start_capture(s)
             PROVE  Started(s, o, TRUE)
    BY DEF Started
<1>2. \A p \in Purge : Aside(s, p.s)
  BY PurgeAside, AsideRefl DEF Return, Out
<1>3. ASSUME NEW u, Device(u)
      PROVE  \A p \in Bus(u) :
                /\ p.ret # "OK" => Aside(u, p.s)
                /\ p.ret = "OK" => /\ Beside(u, p.s)
                                   /\ first => p.s.bus = TRUE
                                   /\ ~first => p.s.bus = u.bus
                                   /\ p.s.streaming_count = u.streaming_count
  <2>1. Beside(u, u)
    BY <1>3, AsideRefl, AsideBeside
  <2>2. CASE first
    BY <2>2, <1>3, BusStarts
  <2>3. CASE ~first
    BY <2>1, <2>3 DEF Return, Out
  <2> QED BY <2>2, <2>3
<1>4. ASSUME NEW t PROVE \A p \in Nop(t) : Aside(t, p.s)
  BY AsideRefl DEF Return, Out
<1> HIDE DEF Purge, Bus, Nop, Count
<1>5. ASSUME NEW u, Aside(s, u), NEW p \in Rest(u)
      PROVE  (p.ret # "OK" /\ Aside(s, p.s)) \/ \E v : /\ p = Out("OK", Count(v)) /\ Beside(u, v)
                                                       /\ first => v.bus = TRUE
                                                       /\ ~first => v.bus = u.bus
                                                       /\ v.streaming_count = u.streaming_count
  <2>1. Device(u)
    BY <1>5 DEF Aside
  <2>2. \/ \E x \in Bus(u) : x.ret # "OK" /\ \E y \in Nop(x.s) : p = Out(x.ret, y.s)
        \/ \E x \in Bus(u) : x.ret = "OK" /\ p = Out("OK", Count(x.s))
    BY <1>5 DEF Then, OnError, Finally, Out
  <2>3. CASE \E x \in Bus(u) : x.ret # "OK" /\ \E y \in Nop(x.s) : p = Out(x.ret, y.s)
    <3>1. PICK x \in Bus(u) : x.ret # "OK" /\ \E y \in Nop(x.s) : p = Out(x.ret, y.s)
      BY <2>3
    <3>2. PICK y \in Nop(x.s) : p = Out(x.ret, y.s)
      BY <3>1
    <3>3. Aside(u, x.s) /\ Aside(x.s, y.s)
      BY <2>1, <3>1, <1>3, <1>4
    <3>4. p.ret # "OK" /\ p.s = y.s
      BY <3>1, <3>2 DEF Out
    <3> QED BY <3>3, <3>4, <1>5, AsideTrans
  <2>4. CASE \E x \in Bus(u) : x.ret = "OK" /\ p = Out("OK", Count(x.s))
    BY <2>1, <2>4, <1>3
  <2> QED BY <2>2, <2>3, <2>4
<1> HIDE DEF Rest
<1>6. (o.ret # "OK" /\ Aside(s, o.s)) \/ \E u, v : /\ Aside(s, u) /\ o = Out("OK", Count(v)) /\ Beside(u, v)
                                                   /\ first => v.bus = TRUE
                                                   /\ ~first => v.bus = u.bus
                                                   /\ v.streaming_count = u.streaming_count
  <2>1. \/ \E x \in Purge : o = x /\ x.ret # "OK"
        \/ \E x \in Purge : o \in Mid(x.s)
    BY <1>1 DEF Then
  <2>2. ASSUME NEW x \in Purge, o \in Mid(x.s)
        PROVE  (\E y \in Nop(x.s) : o = y /\ y.ret # "OK") \/ \E y \in Nop(x.s) : o \in Rest(y.s)
    BY <2>2 DEF Then
  <2>3. ASSUME NEW x \in Purge, NEW y \in Nop(x.s) PROVE Aside(s, y.s)
    BY <1>2, <1>4, AsideTrans
  <2> HIDE DEF Mid
  <2>4. CASE \E x \in Purge : o = x /\ x.ret # "OK"
    BY <2>4, <1>2
  <2>5. CASE \E x \in Purge : o \in Mid(x.s)
    <3>1. PICK x \in Purge : o \in Mid(x.s)
      BY <2>5
    <3>2. PICK y \in Nop(x.s) : (o = y /\ y.ret # "OK") \/ o \in Rest(y.s)
      BY <3>1, <2>2
    <3>3. Aside(s, y.s)
      BY <2>3
    <3> QED BY <3>2, <3>3, <1>5
  <2> QED BY <2>1, <2>4, <2>5
<1>7. CASE o.ret # "OK" /\ Aside(s, o.s)
  BY <1>7, AsideBeside DEF Started
<1>8. ASSUME NEW u, NEW v, Aside(s, u), o = Out("OK", Count(v)), Beside(u, v),
             first => v.bus = TRUE, ~first => v.bus = u.bus, v.streaming_count = u.streaming_count
      PROVE  Started(s, o, TRUE)
  BY <1>8, SharedStarted DEF Count
<1> QED BY <1>6, <1>7, <1>8

LEMMA Px4Starts ==
    ASSUME NEW s, NEW i PROVE \A o \in px4_chrdev_start_capture(s, i) : Started(s, o, TRUE)
<1> DEFINE first == s.streaming_count = 0
           Purge == IF first THEN it930x_purge_psb(s) ELSE Return("OK", s)
           Bus(t) == IF first THEN itedtv_bus_start_streaming(t) ELSE Return("OK", t)
           Pins(t) == Px4Pins(t, i, TRUE)
           NoPins(t) == Px4Pins(t, i, FALSE)
           Count(t) == [t EXCEPT !.streaming_count = @ + 1]
           Rest(t) == Then(OnError(Bus(t), LAMBDA x : NoPins(x)), LAMBDA v : {Out("OK", Count(v))})
           Mid(t) == Then(Pins(t), LAMBDA u : Rest(u))
<1>1. px4_chrdev_start_capture(s, i) = Then(Purge, LAMBDA t : Mid(t))
  BY DEF px4_chrdev_start_capture, StartShared, Return
<1> SUFFICES ASSUME Device(s), s.streaming_count \in Nat,
                    NEW o \in px4_chrdev_start_capture(s, i)
             PROVE  Started(s, o, TRUE)
    BY DEF Started
<1>2. \A p \in Purge : Aside(s, p.s)
  BY PurgeAside, AsideRefl DEF Return, Out
<1>3. ASSUME NEW u, Device(u)
      PROVE  \A p \in Bus(u) :
                /\ p.ret # "OK" => Aside(u, p.s)
                /\ p.ret = "OK" => /\ Beside(u, p.s)
                                   /\ first => p.s.bus = TRUE
                                   /\ ~first => p.s.bus = u.bus
                                   /\ p.s.streaming_count = u.streaming_count
  <2>1. Beside(u, u)
    BY <1>3, AsideRefl, AsideBeside
  <2>2. CASE first
    BY <2>2, <1>3, BusStarts
  <2>3. CASE ~first
    BY <2>1, <2>3 DEF Return, Out
  <2> QED BY <2>2, <2>3
<1>4. ASSUME NEW t PROVE (\A p \in Pins(t) : Aside(t, p.s)) /\ (\A p \in NoPins(t) : Aside(t, p.s))
  <2>1. \A on : \A p \in Px4Pins(t, i, on) : Aside(t, p.s)
    BY TcProgramAside DEF Px4Pins
  <2> QED BY <2>1
<1> HIDE DEF Purge, Bus, Pins, NoPins, Count
<1>5. ASSUME NEW u, Aside(s, u), NEW p \in Rest(u)
      PROVE  (p.ret # "OK" /\ Aside(s, p.s)) \/ \E v : /\ p = Out("OK", Count(v)) /\ Beside(u, v)
                                                       /\ first => v.bus = TRUE
                                                       /\ ~first => v.bus = u.bus
                                                       /\ v.streaming_count = u.streaming_count
  <2>1. Device(u)
    BY <1>5 DEF Aside
  <2>2. \/ \E x \in Bus(u) : x.ret # "OK" /\ \E y \in NoPins(x.s) : p = Out(x.ret, y.s)
        \/ \E x \in Bus(u) : x.ret = "OK" /\ p = Out("OK", Count(x.s))
    BY <1>5 DEF Then, OnError, Finally, Out
  <2>3. CASE \E x \in Bus(u) : x.ret # "OK" /\ \E y \in NoPins(x.s) : p = Out(x.ret, y.s)
    <3>1. PICK x \in Bus(u) : x.ret # "OK" /\ \E y \in NoPins(x.s) : p = Out(x.ret, y.s)
      BY <2>3
    <3>2. PICK y \in NoPins(x.s) : p = Out(x.ret, y.s)
      BY <3>1
    <3>3. Aside(u, x.s) /\ Aside(x.s, y.s)
      BY <2>1, <3>1, <1>3, <1>4
    <3>4. p.ret # "OK" /\ p.s = y.s
      BY <3>1, <3>2 DEF Out
    <3> QED BY <3>3, <3>4, <1>5, AsideTrans
  <2>4. CASE \E x \in Bus(u) : x.ret = "OK" /\ p = Out("OK", Count(x.s))
    BY <2>1, <2>4, <1>3
  <2> QED BY <2>2, <2>3, <2>4
<1> HIDE DEF Rest
<1>6. (o.ret # "OK" /\ Aside(s, o.s)) \/ \E u, v : /\ Aside(s, u) /\ o = Out("OK", Count(v)) /\ Beside(u, v)
                                                   /\ first => v.bus = TRUE
                                                   /\ ~first => v.bus = u.bus
                                                   /\ v.streaming_count = u.streaming_count
  <2>1. \/ \E x \in Purge : o = x /\ x.ret # "OK"
        \/ \E x \in Purge : o \in Mid(x.s)
    BY <1>1 DEF Then
  <2>2. ASSUME NEW x \in Purge, o \in Mid(x.s)
        PROVE  (\E y \in Pins(x.s) : o = y /\ y.ret # "OK") \/ \E y \in Pins(x.s) : o \in Rest(y.s)
    BY <2>2 DEF Then
  <2>3. ASSUME NEW x \in Purge, NEW y \in Pins(x.s) PROVE Aside(s, y.s)
    BY <1>2, <1>4, AsideTrans
  <2> HIDE DEF Mid
  <2>4. CASE \E x \in Purge : o = x /\ x.ret # "OK"
    BY <2>4, <1>2
  <2>5. CASE \E x \in Purge : o \in Mid(x.s)
    <3>1. PICK x \in Purge : o \in Mid(x.s)
      BY <2>5
    <3>2. PICK y \in Pins(x.s) : (o = y /\ y.ret # "OK") \/ o \in Rest(y.s)
      BY <3>1, <2>2
    <3>3. Aside(s, y.s)
      BY <2>3
    <3> QED BY <3>2, <3>3, <1>5
  <2> QED BY <2>1, <2>4, <2>5
<1>7. CASE o.ret # "OK" /\ Aside(s, o.s)
  BY <1>7, AsideBeside DEF Started
<1>8. ASSUME NEW u, NEW v, Aside(s, u), o = Out("OK", Count(v)), Beside(u, v),
             first => v.bus = TRUE, ~first => v.bus = u.bus, v.streaming_count = u.streaming_count
      PROVE  Started(s, o, TRUE)
  BY <1>8, SharedStarted DEF Count
<1> QED BY <1>6, <1>7, <1>8

(* Stopping one: the last receiver stops reception, and no access that     *)
(* fails on the way keeps it from being counted out.                       *)
LEMMA SharedStops ==
    ASSUME NEW s, NEW i
    PROVE  /\ \A o \in pxmlt_chrdev_stop_capture(s) : Stopped(s, o, TRUE)
           /\ \A o \in px4_chrdev_stop_capture(s, i) : Stopped(s, o, TRUE)
<1> SUFFICES ASSUME Device(s), s.streaming_count \in Nat, s.streaming_count # 0
             PROVE  /\ \A o \in pxmlt_chrdev_stop_capture(s) : Stopped(s, o, TRUE)
                    /\ \A o \in px4_chrdev_stop_capture(s, i) : Stopped(s, o, TRUE)
    BY DEF Stopped
<1> DEFINE t == [s EXCEPT !.streaming_count = @ - 1]
           u == IF t.streaming_count = 0 THEN itedtv_bus_stop_streaming(t) ELSE t
           Nop == Return("OK", u)
           Pins == Px4Pins(u, i, FALSE)
<1>1. pxmlt_chrdev_stop_capture(s) = (IF u.available THEN Ignoring(Nop) ELSE Return("OK", u))
      /\ px4_chrdev_stop_capture(s, i) = (IF u.available THEN Ignoring(Pins) ELSE Return("OK", u))
  BY DEF pxmlt_chrdev_stop_capture, px4_chrdev_stop_capture, StopShared
<1>2. /\ Beside(s, u) /\ Device(u) /\ u.streaming_count = s.streaming_count - 1
      /\ s.streaming_count # 1 => u.bus = s.bus
      /\ s.streaming_count = 1 => u.bus = FALSE
  <2>1. t.streaming_count = s.streaming_count - 1 /\ t.bus = s.bus
    BY DEF Device, DeviceFields
  <2>2. CASE s.streaming_count = 1
    <3>1. u = [[s EXCEPT !.streaming_count = @ - 1] EXCEPT !.bus = FALSE]
      BY <2>1, <2>2 DEF itedtv_bus_stop_streaming
    <3>2. Device(u) /\ u.streaming_count = s.streaming_count - 1 /\ u.bus = FALSE
      BY <3>1 DEF Device, DeviceFields
    <3>3. SameLnb(s, u) /\ SameFilter(s, u) /\ u.faults = s.faults /\ u.gone = s.gone /\ u.available = s.available
      BY <3>1 DEF Device, SameLnb, SameFilter, DeviceFields
    <3> HIDE DEF u
    <3> QED BY <2>2, <3>2, <3>3 DEF Beside, Device
  <2>3. CASE s.streaming_count # 1
    <3>1. u = [s EXCEPT !.streaming_count = @ - 1]
      BY <2>1, <2>3
    <3>2. Device(u) /\ u.streaming_count = s.streaming_count - 1 /\ u.bus = s.bus
      BY <3>1 DEF Device, DeviceFields
    <3>3. SameLnb(s, u) /\ SameFilter(s, u) /\ u.faults = s.faults /\ u.gone = s.gone /\ u.available = s.available
      BY <3>1 DEF Device, SameLnb, SameFilter, DeviceFields
    <3> HIDE DEF u
    <3> QED BY <2>3, <3>2, <3>3 DEF Beside, Device
  <2> QED BY <2>2, <2>3
<1> HIDE DEF u
<1>3. (\A p \in Nop : Aside(u, p.s)) /\ (\A p \in Pins : Aside(u, p.s))
  <2>1. \A on : \A p \in Px4Pins(u, i, on) : Aside(u, p.s)
    BY TcProgramAside DEF Px4Pins
  <2>2. \A p \in Nop : Aside(u, p.s)
    BY AsideRefl DEF Return, Out
  <2> QED BY <2>1, <2>2
<1> HIDE DEF Nop, Pins
<1> DEFINE Good(o) == Stopped(s, o, TRUE)
<1>4. ASSUME NEW p, Aside(u, p) PROVE Good(Out("OK", p))
  <2>1. Beside(u, p) /\ SameCapture(u, p)
    BY <1>2, <1>4, AsideBeside
  <2>2. Beside(s, p) /\ SameCapture(u, p)
    BY <1>2, <2>1, BesideTrans
  <2> QED BY <1>2, <2>2 DEF Stopped, SameCapture, Out
<1> HIDE DEF Good
<1>5. (\A o \in pxmlt_chrdev_stop_capture(s) : Good(o)) /\ (\A o \in px4_chrdev_stop_capture(s, i) : Good(o))
  BY <1>1, <1>3, <1>4, AsideRefl DEF Ignoring, Return, Out
<1> QED BY <1>5 DEF Good

(* The same for the boards with one receiver, which count nobody.          *)
LEMMA PinsOfAside ==
    ASSUME NEW s, NEW i, NEW system, NEW on
    PROVE  \A o \in PinsOf(s, i, system, on) : Aside(s, o.s)
<1> DEFINE T == tc90522_write_multiple_regs(s, i, tc90522_enable_ts_pins_t(on))
           S == tc90522_write_multiple_regs(s, i, tc90522_enable_ts_pins_s(on))
<1>1. PinsOf(s, i, system, on) \in {T, S, Return("OK", s)}
  BY DEF PinsOf
<1>2. (\A o \in T : Aside(s, o.s)) /\ (\A o \in S : Aside(s, o.s))
  BY TcProgramAside
<1> HIDE DEF T, S
<1> QED BY <1>1, <1>2, AsideRefl DEF Return, Out

LEMMA OneStarts ==
    ASSUME NEW s, NEW i, NEW system, NEW sat
    PROVE  /\ \A o \in isdb2056_chrdev_start_capture(s, i, system, sat) : Started(s, o, FALSE)
           /\ \A o \in isdbt2071_chrdev_start_capture(s, i, system) : Started(s, o, FALSE)
<1> DEFINE Bus(t) == itedtv_bus_start_streaming(t)
           PinsT(t) == PinsOf(t, i, "T", TRUE)
           PinsOn(t) == PinsOf(t, i, system, TRUE)
           NoPins(t) == PinsOf(t, i, system, FALSE)
           Pins1(t) == IF system = "UNSPECIFIED" /\ ~sat THEN Return("EINVAL", t) ELSE PinsOn(t)
           Pins2(t) == IF system # "T" THEN Return("EINVAL", t) ELSE PinsT(t)
           Both1(t) == Then(Pins1(t), LAMBDA u : Bus(u))
           Both2(t) == Then(Pins2(t), LAMBDA u : Bus(u))
           Tail1(t) == OnError(Both1(t), LAMBDA u : NoPins(u))
           Tail2(t) == OnError(Both2(t), LAMBDA u : NoPins(u))
<1>1. isdb2056_chrdev_start_capture(s, i, system, sat) = Then(it930x_purge_psb(s), LAMBDA t : Tail1(t))
      /\ isdbt2071_chrdev_start_capture(s, i, system) = Then(it930x_purge_psb(s), LAMBDA t : Tail2(t))
  <2>1. isdb2056_chrdev_start_capture(s, i, system, sat) = Then(it930x_purge_psb(s), LAMBDA t : Tail1(t))
    BY DEF isdb2056_chrdev_start_capture, StartOne, Then, OnError
  <2>2. isdbt2071_chrdev_start_capture(s, i, system) = Then(it930x_purge_psb(s), LAMBDA t : Tail2(t))
    BY DEF isdbt2071_chrdev_start_capture, StartOne, Then, OnError
  <2> QED BY <2>1, <2>2
<1>2. ASSUME NEW t PROVE (\A o \in PinsT(t) : Aside(t, o.s)) /\ (\A o \in PinsOn(t) : Aside(t, o.s))
                         /\ (\A o \in NoPins(t) : Aside(t, o.s))
  <2>1. \A sys, on : \A o \in PinsOf(t, i, sys, on) : Aside(t, o.s)
    BY PinsOfAside
  <2> QED BY <2>1
<1> HIDE DEF PinsT, PinsOn, NoPins
<1>3. ASSUME NEW t PROVE (\A o \in Pins1(t) : Aside(t, o.s)) /\ (\A o \in Pins2(t) : Aside(t, o.s))
  BY <1>2, AsideRefl DEF Return, Out
<1> HIDE DEF Pins1, Pins2
<1> DEFINE Up(t, o) == /\ o.ret # "OK" => Aside(t, o.s)
                       /\ o.ret = "OK" => /\ Beside(t, o.s) /\ o.s.bus = TRUE
                                          /\ o.s.streaming_count = t.streaming_count
<1>4. ASSUME NEW t, NEW u, NEW o, Device(t), Aside(t, u), Up(u, o) PROVE Up(t, o)
  <2>1. Beside(t, u) /\ SameCapture(t, u)
    BY <1>4, AsideBeside
  <2>2. CASE o.ret # "OK"
    BY <2>2, <1>4, AsideTrans
  <2>3. CASE o.ret = "OK"
    BY <2>1, <2>3, <1>4, BesideTrans DEF SameCapture
  <2> QED BY <2>2, <2>3
<1>5. ASSUME NEW t, Device(t) PROVE \A o \in Bus(t) : Up(t, o)
  BY <1>5, BusStarts
<1> HIDE DEF Bus
<1>6. ASSUME NEW t, NEW o, Device(t), o.ret # "OK", Aside(t, o.s) PROVE Up(t, o)
  BY <1>6
<1> HIDE DEF Up
<1>7. ASSUME NEW t, Device(t) PROVE (\A o \in Both1(t) : Up(t, o)) /\ (\A o \in Both2(t) : Up(t, o))
  <2>1. \A p \in Pins1(t) \cup Pins2(t) : Aside(t, p.s) /\ Device(p.s)
    BY <1>3, <1>7 DEF Aside
  <2>2. \A p \in Pins1(t) \cup Pins2(t) : \A o \in Bus(p.s) : Up(t, o)
    BY <2>1, <1>4, <1>5, <1>7
  <2> QED BY <2>1, <2>2, <1>6, <1>7 DEF Then
<1> HIDE DEF Both1, Both2
<1>8. ASSUME NEW t, Device(t) PROVE (\A o \in Tail1(t) : Up(t, o)) /\ (\A o \in Tail2(t) : Up(t, o))
  <2>1. ASSUME NEW p, Up(t, p), p.ret # "OK", NEW q \in NoPins(p.s) PROVE Up(t, Out(p.ret, q.s))
    <3>1. Aside(t, q.s)
      BY <2>1, <1>2, AsideTrans DEF Up
    <3> QED BY <3>1, <2>1, <1>6, <1>8 DEF Out
  <2> QED BY <2>1, <1>7, <1>8 DEF OnError, Finally
<1> HIDE DEF Tail1, Tail2
<1>9. ASSUME Device(s)
      PROVE  (\A o \in isdb2056_chrdev_start_capture(s, i, system, sat) : Up(s, o))
             /\ (\A o \in isdbt2071_chrdev_start_capture(s, i, system) : Up(s, o))
  <2>1. \A p \in it930x_purge_psb(s) : Aside(s, p.s) /\ Device(p.s)
    BY PurgeAside, <1>9 DEF Aside
  <2>2. \A p \in it930x_purge_psb(s) : (\A o \in Tail1(p.s) : Up(s, o)) /\ (\A o \in Tail2(p.s) : Up(s, o))
    BY <2>1, <1>4, <1>8, <1>9
  <2> QED BY <1>1, <2>1, <2>2, <1>6, <1>9 DEF Then
<1>10. ASSUME NEW o, Device(s), Up(s, o) PROVE Started(s, o, FALSE)
  BY <1>10, AsideBeside DEF Up, Started
<1> QED BY <1>9, <1>10 DEF Started

LEMMA OneStops ==
    ASSUME NEW s, NEW i, NEW system PROVE \A o \in StopOne(s, i, system) : Stopped(s, o, FALSE)
<1> SUFFICES ASSUME Device(s), s.streaming_count \in Nat
             PROVE  \A o \in StopOne(s, i, system) : Stopped(s, o, FALSE)
    BY DEF Stopped
<1> DEFINE u == itedtv_bus_stop_streaming(s)
           Pins == PinsOf(u, i, system, FALSE)
<1>1. StopOne(s, i, system) = IF u.available THEN Ignoring(Pins) ELSE Return("OK", u)
  BY DEF StopOne
<1>2. Beside(s, u) /\ Device(u) /\ u.streaming_count = s.streaming_count /\ u.bus = FALSE
  <2>1. u = [s EXCEPT !.bus = FALSE]
    BY DEF itedtv_bus_stop_streaming
  <2>2. Device(u) /\ u.streaming_count = s.streaming_count /\ u.bus = FALSE
    BY <2>1 DEF Device, DeviceFields
  <2>3. SameLnb(s, u) /\ SameFilter(s, u) /\ u.faults = s.faults /\ u.gone = s.gone /\ u.available = s.available
    BY <2>1 DEF Device, SameLnb, SameFilter, DeviceFields
  <2> QED BY <2>2, <2>3 DEF Beside, Device
<1>3. \A p \in Pins : Aside(u, p.s)
  <2>1. \A on : \A p \in PinsOf(u, i, system, on) : Aside(u, p.s)
    BY PinsOfAside
  <2> QED BY <2>1
<1> HIDE DEF u, Pins
<1> DEFINE Good(o) == Stopped(s, o, FALSE)
<1>4. ASSUME NEW p, Aside(u, p) PROVE Good(Out("OK", p))
  <2>1. Beside(u, p) /\ SameCapture(u, p)
    BY <1>2, <1>4, AsideBeside
  <2>2. Beside(s, p) /\ SameCapture(u, p)
    BY <1>2, <2>1, BesideTrans
  <2> QED BY <1>2, <2>2 DEF Stopped, SameCapture, Out
<1> HIDE DEF Good
<1>5. \A o \in StopOne(s, i, system) : Good(o)
  BY <1>1, <1>3, <1>4, AsideRefl DEF Ignoring, Return, Out
<1> QED BY <1>5 DEF Good

(* The LNB: the count is the number of receivers that want it, and it is   *)
(* on while somebody does.                                                 *)
Wanted(s) == {i \in Rx(family) : s.lnb[i]}
LnbRight(s) ==
    /\ s.lnb_power_count = Cardinality(Wanted(s))
    /\ Wanted(s) # {} => s.level[LnbGpio]
(* What switching the LNB leaves alone.                                    *)
AroundLnb(s, t) ==
    /\ Device(t) /\ t.faults <= s.faults
    /\ t.gone = s.gone /\ t.available = s.available /\ t.gpio = s.gpio
    /\ SameCapture(s, t) /\ SameFilter(s, t)

LEMMA AroundLnbTrans ==
    ASSUME NEW s, NEW t, NEW u, Device(s), AroundLnb(s, t), AroundLnb(t, u) PROVE AroundLnb(s, u)
BY DEF AroundLnb, Device, SameCapture, SameFilter

(* A write of the pin that fails may have moved it.                        *)
LEMMA LnbPinWritten ==
    ASSUME NEW s, Device(s), NEW on \in BOOLEAN
    PROVE  \A o \in it930x_write_gpio(s, LnbGpio, on) :
              /\ AroundLnb(s, o.s) /\ o.s.lnb = s.lnb /\ o.s.lnb_power_count = s.lnb_power_count
              /\ s.gpio[LnbGpio].mode = "OUT" =>
                    \/ o.ret = "OK" /\ o.s.level[LnbGpio] = on
                    \/ o.ret = "EIO" /\ o.s.level[LnbGpio] \in {s.level[LnbGpio], on}
<1> DEFINE L(t) == [t EXCEPT !.level[LnbGpio] = on]
           F(t) == [t EXCEPT !.faults = @ - 1]
           Keeps(t, u) == AroundLnb(t, u) /\ u.lnb = t.lnb /\ u.lnb_power_count = t.lnb_power_count
<1>1. it930x_write_gpio(s, LnbGpio, on) =
        IF s.gpio[LnbGpio].mode # "OUT" THEN {Out("EINVAL", s)} ELSE Set(s, L(s))
  BY DEF it930x_write_gpio, Return
<1>2. Set(s, L(s)) = (IF s.gone THEN {} ELSE {Out("OK", L(s))})
                     \cup (IF s.gone THEN {Out("EIO", s)}
                           ELSE IF s.faults = 0 THEN {} ELSE {Out("EIO", F(t)) : t \in {s, L(s)}})
  BY DEF Set, it930x_ctrl_msg
<1>3. Keeps(s, s)
  BY DEF AroundLnb, Device, SameCapture, SameFilter
<1>4. Keeps(s, L(s)) /\ L(s).level[LnbGpio] = on /\ L(s).faults = s.faults
  <2>1. Device(L(s)) /\ L(s).level[LnbGpio] = on /\ L(s).faults = s.faults
    BY DEF Device, DeviceFields, Gpios, LnbGpio
  <2>2. L(s).gone = s.gone /\ L(s).available = s.available /\ L(s).gpio = s.gpio /\ SameCapture(s, L(s))
        /\ SameFilter(s, L(s)) /\ L(s).lnb = s.lnb /\ L(s).lnb_power_count = s.lnb_power_count
    BY DEF Device, DeviceFields, SameCapture, SameFilter
  <2> HIDE DEF L
  <2> QED BY <2>1, <2>2 DEF AroundLnb, Device
<1>5. ASSUME NEW t, Device(t), t.faults # 0
      PROVE  Keeps(t, F(t)) /\ F(t).level[LnbGpio] = t.level[LnbGpio]
  BY <1>5 DEF AroundLnb, Device, DeviceFields, SameCapture, SameFilter
<1> HIDE DEF L, F
<1> DEFINE Fine(o) == Keeps(s, o.s) /\ (s.gpio[LnbGpio].mode = "OUT" =>
                          (o.ret = "OK" /\ o.s.level[LnbGpio] = on)
                          \/ (o.ret = "EIO" /\ o.s.level[LnbGpio] \in {s.level[LnbGpio], on}))
<1>6. Fine(Out("OK", L(s))) /\ Fine(Out("EIO", s)) /\ (s.gpio[LnbGpio].mode # "OUT" => Fine(Out("EINVAL", s)))
  BY <1>3, <1>4 DEF Out
<1>7. ASSUME NEW t \in {s, L(s)}, s.faults # 0 PROVE Fine(Out("EIO", F(t)))
  <2>1. Device(t) /\ t.faults # 0 /\ Keeps(s, t) /\ t.level[LnbGpio] \in {s.level[LnbGpio], on}
    BY <1>3, <1>4, <1>7 DEF AroundLnb
  <2>2. Keeps(t, F(t)) /\ F(t).level[LnbGpio] = t.level[LnbGpio]
    BY <2>1, <1>5
  <2>3. Keeps(s, F(t)) /\ F(t).level[LnbGpio] \in {s.level[LnbGpio], on}
    BY <2>1, <2>2, AroundLnbTrans
  <2> QED BY <2>3 DEF Out
<1> HIDE DEF Fine
<1>8. \A o \in it930x_write_gpio(s, LnbGpio, on) : Fine(o)
  BY <1>1, <1>2, <1>6, <1>7
<1> QED BY <1>8 DEF Fine

(* A board has finitely many receivers.                                    *)
LEMMA RxFinite == IsFiniteSet(Rx(family))
<1>1. IsFiniteSet({0})
  BY FS_Singleton
<1>2. IsFiniteSet({0} \cup {1})
  BY <1>1, FS_AddElement
<1>3. IsFiniteSet(({0} \cup {1}) \cup {2})
  BY <1>2, FS_AddElement
<1>4. Rx(family) \in {({0} \cup {1}) \cup {2}, {0} \cup {1}, {0}}
  <2>1. 0..2 = ({0} \cup {1}) \cup {2}
    OBVIOUS
  <2>2. {0, 1} = {0} \cup {1}
    OBVIOUS
  <2> QED BY <2>1, <2>2 DEF Rx, Px4Receivers
<1> QED BY <1>1, <1>2, <1>3, <1>4

LEMMA WantedFinite ==
    ASSUME NEW s
    PROVE  /\ IsFiniteSet(Wanted(s)) /\ Cardinality(Wanted(s)) \in Nat
           /\ Cardinality(Wanted(s)) = 0 <=> Wanted(s) = {}
<1>1. Wanted(s) \subseteq Rx(family)
  BY DEF Wanted
<1>2. IsFiniteSet(Wanted(s))
  BY <1>1, RxFinite, FS_Subset
<1> QED BY <1>2, FS_CardinalityType, FS_EmptySet

(* Every order in which receivers ask for the LNB and give it up keeps the *)
(* count right, also when a write fails; only a failed write leaves it on  *)
(* with nobody wanting it.                                                 *)
LEMMA SetLnbRight ==
    ASSUME NEW s, Device(s), NEW i \in Rx(family), NEW v \in {0, 11, 15}, NEW o \in SetLnb(s, i, v)
    PROVE  /\ AroundLnb(s, o.s)
           /\ s.available /\ s.gpio[LnbGpio].mode = "OUT" /\ LnbRight(s) =>
                 /\ LnbRight(o.s)
                 /\ Wanted(o.s) \subseteq Wanted(s) \cup {i}
                 /\ v = 0 => i \notin Wanted(o.s)
                 /\ v = 0 /\ Wanted(s) = {} => o.s = s
                 /\ Wanted(o.s) = {} /\ o.s.level[LnbGpio] =>
                       o.ret = "EIO" \/ (Wanted(s) = {} /\ s.level[LnbGpio])
<1> DEFINE on == v # 0
           left == IF on THEN s.lnb_power_count ELSE s.lnb_power_count - 1
           t == [s EXCEPT !.lnb_power_count = left]
           W == it930x_write_gpio(t, LnbGpio, on)
           written == IF left = 0 THEN W ELSE {Out("OK", t)}
           R(u) == [u EXCEPT !.lnb_power_count = IF on THEN @ + 1 ELSE @, !.lnb[i] = on]
           Same == o.s = s /\ o.ret \in {"OK", "EINVAL"}
<1>1. SetLnb(s, i, v) = IF v \notin {0, 15} THEN {Out("EINVAL", s)}
                        ELSE IF s.lnb[i] = on \/ (~on /\ ~s.available) THEN {Out("OK", s)}
                        ELSE {IF p.ret # "OK" /\ on THEN p ELSE Out(p.ret, R(p.s)) : p \in written}
  BY DEF SetLnb, Return
<1>2. on \in BOOLEAN /\ s.lnb[i] \in BOOLEAN /\ (on <=> v # 0)
  BY DEF Device
<1>3. /\ AroundLnb(s, t) /\ Device(t) /\ t.lnb = s.lnb /\ t.lnb_power_count = left
      /\ t.level = s.level /\ t.gpio = s.gpio
  <2> HIDE DEF left
  <2> QED BY DEF AroundLnb, Device, DeviceFields, SameCapture, SameFilter
<1>4. ASSUME NEW u, Device(u)
      PROVE  /\ AroundLnb(u, R(u)) /\ R(u).level = u.level
             /\ R(u).lnb_power_count = IF on THEN u.lnb_power_count + 1 ELSE u.lnb_power_count
             /\ R(u).lnb = [u.lnb EXCEPT ![i] = on]
  <2> HIDE DEF on
  <2>1. Device(R(u)) /\ R(u).level = u.level /\ R(u).lnb = [u.lnb EXCEPT ![i] = on]
    BY <1>2, <1>4 DEF Device, DeviceFields
  <2>2. R(u).lnb_power_count = IF on THEN u.lnb_power_count + 1 ELSE u.lnb_power_count
    BY <1>4 DEF Device, DeviceFields
  <2>3. R(u).faults = u.faults /\ R(u).gone = u.gone /\ R(u).available = u.available /\ R(u).gpio = u.gpio
        /\ SameCapture(u, R(u)) /\ SameFilter(u, R(u))
    BY <1>4 DEF Device, DeviceFields, SameCapture, SameFilter
  <2> HIDE DEF R
  <2> QED BY <2>1, <2>2, <2>3, <1>4 DEF AroundLnb, Device
<1> HIDE DEF on
<1>5. \A p \in W : /\ AroundLnb(t, p.s) /\ p.s.lnb = t.lnb /\ p.s.lnb_power_count = t.lnb_power_count
                   /\ t.gpio[LnbGpio].mode = "OUT" =>
                         \/ p.ret = "OK" /\ p.s.level[LnbGpio] = on
                         \/ p.ret = "EIO" /\ p.s.level[LnbGpio] \in {t.level[LnbGpio], on}
  <2> HIDE DEF t
  <2> QED BY <1>2, <1>3, LnbPinWritten
<1> HIDE DEF t, R, W
<1>6. \A p \in written : /\ AroundLnb(s, p.s) /\ p.s.lnb = s.lnb /\ p.s.lnb_power_count = left
                         /\ s.gpio[LnbGpio].mode = "OUT" =>
                               \/ p.ret = "OK" /\ (left = 0 => p.s.level[LnbGpio] = on)
                               \/ p.ret = "EIO" /\ left = 0
                         /\ left # 0 => p.s.level = s.level /\ p.ret = "OK"
  <2> HIDE DEF left
  <2>1. CASE left = 0
    BY <2>1, <1>3, <1>5, AroundLnbTrans
  <2>2. CASE left # 0
    BY <2>2, <1>3 DEF Out
  <2> QED BY <2>1, <2>2
<1> HIDE DEF left, written
<1>7. \/ Same /\ (v = 0 => ~s.lnb[i] \/ ~s.available)
      \/ /\ v = 15 /\ on /\ ~s.lnb[i] /\ o \in written /\ o.ret # "OK"
      \/ /\ v # 11 /\ (s.lnb[i] <=> ~on) /\ (on \/ s.available)
         /\ \E p \in written : o = Out(p.ret, R(p.s)) /\ (on => p.ret = "OK")
  BY <1>1, <1>2 DEF Out
<1>8. CASE Same /\ (v = 0 => ~s.lnb[i] \/ ~s.available)
  <2>1. AroundLnb(s, s)
    BY DEF AroundLnb, Device, SameCapture, SameFilter
  <2> QED BY <2>1, <1>8 DEF Wanted
<1>9. CASE v = 15 /\ on /\ ~s.lnb[i] /\ o \in written /\ o.ret # "OK"
  <2>1. AroundLnb(s, o.s)
    BY <1>6, <1>9
  <2>2. ASSUME s.gpio[LnbGpio].mode = "OUT", LnbRight(s)
        PROVE  Wanted(s) = {} /\ Wanted(o.s) = {} /\ LnbRight(o.s) /\ o.ret = "EIO"
    <3>1. left = s.lnb_power_count /\ left = 0 /\ o.ret = "EIO"
      BY <1>6, <1>9, <2>2 DEF left
    <3>2. o.s.lnb = s.lnb /\ o.s.lnb_power_count = s.lnb_power_count
      BY <3>1, <1>6, <1>9
    <3>3. Wanted(s) = {} /\ Wanted(o.s) = Wanted(s)
      BY <3>1, <3>2, <2>2, WantedFinite DEF LnbRight, Wanted
    <3> QED BY <3>1, <3>2, <3>3, <2>2 DEF LnbRight
  <2> QED BY <2>1, <2>2, <1>9
<1>10. CASE /\ v # 11 /\ (s.lnb[i] <=> ~on) /\ (on \/ s.available)
            /\ \E p \in written : o = Out(p.ret, R(p.s)) /\ (on => p.ret = "OK")
  <2>1. PICK p \in written : o = Out(p.ret, R(p.s)) /\ (on => p.ret = "OK")
    BY <1>10
  <2>2. o.ret = p.ret /\ o.s = R(p.s) /\ Device(p.s)
    BY <2>1, <1>6 DEF Out, AroundLnb
  <2>3. AroundLnb(p.s, o.s) /\ AroundLnb(s, p.s)
    BY <2>2, <1>4, <1>6
  <2>4. AroundLnb(s, o.s)
    BY <2>3, AroundLnbTrans
  <2>5. /\ o.s.lnb = [s.lnb EXCEPT ![i] = on] /\ o.s.level = p.s.level
        /\ o.s.lnb_power_count = IF on THEN left + 1 ELSE left
    BY <2>2, <1>4, <1>6
  <2>6. ASSUME s.gpio[LnbGpio].mode = "OUT", LnbRight(s), on
        PROVE  /\ LnbRight(o.s) /\ Wanted(o.s) = Wanted(s) \cup {i}
    <3>1. Wanted(o.s) = Wanted(s) \cup {i} /\ i \notin Wanted(s)
      BY <2>5, <2>6, <1>10 DEF Wanted, Device
    <3>2. Cardinality(Wanted(o.s)) = Cardinality(Wanted(s)) + 1
      BY <3>1, WantedFinite, FS_AddElement
    <3>3. left = Cardinality(Wanted(s))
      BY <2>6 DEF left, LnbRight
    <3>4. o.s.lnb_power_count = Cardinality(Wanted(o.s))
      BY <3>2, <3>3, <2>5, <2>6
    <3>5. o.s.level[LnbGpio]
      <4>1. CASE left = 0
        BY <4>1, <2>1, <2>5, <2>6, <1>6
      <4>2. CASE left # 0
        BY <4>2, <3>3, <2>5, <2>6, <1>6, WantedFinite DEF LnbRight
      <4> QED BY <4>1, <4>2
    <3> QED BY <3>1, <3>4, <3>5 DEF LnbRight
  <2>7. ASSUME s.gpio[LnbGpio].mode = "OUT", LnbRight(s), ~on
        PROVE  /\ LnbRight(o.s) /\ Wanted(o.s) = Wanted(s) \ {i} /\ Wanted(s) # {}
               /\ Wanted(o.s) = {} /\ o.s.level[LnbGpio] => o.ret = "EIO"
    <3>1. Wanted(o.s) = Wanted(s) \ {i} /\ i \in Wanted(s)
      BY <2>5, <2>7, <1>10 DEF Wanted, Device
    <3>2. Cardinality(Wanted(o.s)) = Cardinality(Wanted(s)) - 1
      BY <3>1, WantedFinite, FS_RemoveElement
    <3>3. left = Cardinality(Wanted(s)) - 1
      BY <2>7 DEF left, LnbRight
    <3>4. o.s.lnb_power_count = Cardinality(Wanted(o.s)) /\ left = Cardinality(Wanted(o.s))
      BY <3>2, <3>3, <2>5, <2>7
    <3>5. CASE left = 0
      <4>1. Wanted(o.s) = {}
        BY <3>4, <3>5, WantedFinite
      <4>2. o.s.level[LnbGpio] => o.ret = "EIO"
        BY <3>5, <2>1, <2>2, <2>5, <2>7, <1>6
      <4> QED BY <3>1, <3>4, <4>1, <4>2 DEF LnbRight
    <3>6. CASE left # 0
      <4>1. Wanted(o.s) # {}
        BY <3>4, <3>6, WantedFinite
      <4>2. o.s.level[LnbGpio]
        BY <3>1, <3>6, <2>5, <2>7, <1>6 DEF LnbRight
      <4> QED BY <3>1, <3>4, <4>1, <4>2 DEF LnbRight
    <3> QED BY <3>5, <3>6
  <2> QED BY <2>4, <2>6, <2>7, <1>2, <1>10
<1> QED BY <1>7, <1>8, <1>9, <1>10

(* What a bring-up leaves alone, and what it leaves alone until it sets    *)
(* the LNB's pin.                                                          *)
Boots(s, t) ==
    Device(s) =>
        /\ Device(t) /\ SameCapture(s, t) /\ t.nullOff = s.nullOff
        /\ t.lnb = s.lnb /\ t.lnb_power_count = s.lnb_power_count
Quiet(s, t) == Boots(s, t) /\ (Device(s) => t.level[LnbGpio] = s.level[LnbGpio])

LEMMA BootsTrans ==
    ASSUME NEW s, NEW t, NEW u
    PROVE  /\ Boots(s, t) /\ Boots(t, u) => Boots(s, u)
           /\ Quiet(s, t) /\ Quiet(t, u) => Quiet(s, u)
BY DEF Boots, Quiet, SameCapture

LEMMA AsideQuiet ==
    ASSUME NEW s, NEW t, Aside(s, t) PROVE Quiet(s, t) /\ Boots(s, t)
BY DEF Aside, Quiet, Boots, SameLnb, SameFilter

(* The bring-up of the bridge.                                             *)
LEMMA SetQuiet ==
    ASSUME NEW s, NEW t, Quiet(s, t), Device(s) => t.faults = s.faults
    PROVE  \A o \in Set(s, t) : Quiet(s, o.s)
<1> SUFFICES ASSUME NEW o \in Set(s, t), Device(s) PROVE Quiet(s, o.s)
    BY DEF Quiet, Boots
<1> DEFINE F(u) == [u EXCEPT !.faults = @ - 1]
<1>1. Set(s, t) = (IF s.gone THEN {} ELSE {Out("OK", t)})
                  \cup (IF s.gone THEN {Out("EIO", s)}
                        ELSE IF s.faults = 0 THEN {} ELSE {Out("EIO", F(u)) : u \in {s, t}})
  BY DEF Set, it930x_ctrl_msg
<1>2. ASSUME NEW u, Device(u), u.faults # 0 PROVE Quiet(u, F(u))
  BY <1>2 DEF Quiet, Boots, Device, DeviceFields, SameCapture
<1>3. Quiet(s, s)
  BY AsideRefl, AsideQuiet
<1> HIDE DEF F
<1>4. ASSUME NEW u \in {s, t}, s.faults # 0 PROVE Quiet(s, F(u))
  BY <1>2, <1>3, <1>4, BootsTrans DEF Quiet, Boots
<1> QED BY <1>1, <1>3, <1>4 DEF Out

LEMMA RaiseQuiet ==
    ASSUME NEW s PROVE \A o \in it930x_raise(it930x_init(s)) : Quiet(s, o.s)
<1> DEFINE t == it930x_init(s)
           F(n) == [t EXCEPT !.faults = @ - n]
<1>1. it930x_raise(t) = IF t.gone THEN {Out("EIO", t)}
                        ELSE {Out(IF n < 5 THEN "OK" ELSE "EIO", F(n)) :
                                 n \in 0..(IF t.faults < 5 THEN t.faults ELSE 5)}
  BY DEF it930x_raise
<1>2. Quiet(s, t) /\ (Device(s) => Device(t))
  BY DEF it930x_init, Quiet, Boots, Device, DeviceFields, SameCapture
<1> HIDE DEF t
<1>3. ASSUME Device(t), NEW n \in 0..(IF t.faults < 5 THEN t.faults ELSE 5) PROVE Quiet(t, F(n))
  BY <1>3 DEF Quiet, Boots, Device, DeviceFields, SameCapture
<1> HIDE DEF F
<1> SUFFICES ASSUME Device(s), NEW o \in it930x_raise(t) PROVE Quiet(s, o.s)
    BY DEF t, Quiet, Boots
<1> QED BY <1>1, <1>2, <1>3, BootsTrans DEF Out

LEMMA FirmwareQuiet ==
    ASSUME NEW s PROVE \A o \in it930x_load_firmware(s) : Quiet(s, o.s)
<1> DEFINE B(u) == [u EXCEPT !.bridge = "booted"]
           Boot(u) == Then(Set(u, B(u)), LAMBDA v : Access(v))
           Load(t) == Then(Access(t), LAMBDA u : Boot(u))
           Need(t) == IF t.bridge # "cold" THEN {Out("OK", t)} ELSE Load(t)
<1>1. it930x_load_firmware(s) = Then(Access(s), LAMBDA t : Need(t))
  BY DEF it930x_load_firmware, Return
<1>2. ASSUME NEW u PROVE Quiet(u, B(u)) /\ (Device(u) => B(u).faults = u.faults)
  BY DEF Quiet, Boots, Device, DeviceFields, SameCapture
<1>3. ASSUME NEW u PROVE \A o \in Access(u) : Quiet(u, o.s)
  BY AccessAside, AsideQuiet
<1> HIDE DEF B
<1>4. ASSUME NEW u PROVE \A o \in Set(u, B(u)) : Quiet(u, o.s)
  BY <1>2, SetQuiet
<1>5. ASSUME NEW u PROVE \A o \in Boot(u) : Quiet(u, o.s)
  BY <1>3, <1>4, BootsTrans DEF Then
<1> HIDE DEF Boot
<1>6. ASSUME NEW u PROVE \A o \in Load(u) : Quiet(u, o.s)
  BY <1>3, <1>5, BootsTrans DEF Then
<1> HIDE DEF Load
<1>7. ASSUME NEW u PROVE \A o \in Need(u) : Quiet(u, o.s)
  BY <1>6, AsideRefl, AsideQuiet DEF Out
<1> HIDE DEF Need
<1> QED BY <1>1, <1>3, <1>7, BootsTrans DEF Then

LEMMA WarmQuiet ==
    ASSUME NEW s PROVE \A o \in it930x_init_warm(s) : Quiet(s, o.s)
<1> DEFINE P(u) == [u EXCEPT !.level[PowerGpio] = TRUE]
           Warm(u) == [u EXCEPT !.bridge = "warm"]
           W1(u) == Then(Access(u), LAMBDA w : {Out("OK", Warm(w))})
           W2(u) == Then(Access(u), LAMBDA w : W1(w))
           W3(u) == Then(Access(u), LAMBDA w : W2(w))
<1>1. it930x_init_warm(s) = Then(Set(s, P(s)), LAMBDA t : W3(t))
  BY DEF it930x_init_warm, it930x_config_stream_output, it930x_config_i2c, it930x_config_stream_input, Return
<1>2. ASSUME NEW u PROVE Quiet(u, P(u)) /\ Quiet(u, Warm(u)) /\ (Device(u) => P(u).faults = u.faults)
  BY DEF Quiet, Boots, Device, DeviceFields, SameCapture, PowerGpio, LnbGpio
<1>3. ASSUME NEW u PROVE \A o \in Access(u) : Quiet(u, o.s)
  BY AccessAside, AsideQuiet
<1> HIDE DEF P, Warm
<1>4. ASSUME NEW u PROVE \A o \in Set(u, P(u)) : Quiet(u, o.s)
  BY <1>2, SetQuiet
<1>5. ASSUME NEW u PROVE \A o \in W1(u) : Quiet(u, o.s)
  BY <1>2, <1>3, BootsTrans DEF Then, Out
<1> HIDE DEF W1
<1>6. ASSUME NEW u PROVE \A o \in W2(u) : Quiet(u, o.s)
  BY <1>3, <1>5, BootsTrans DEF Then
<1> HIDE DEF W2
<1>7. ASSUME NEW u PROVE \A o \in W3(u) : Quiet(u, o.s)
  BY <1>3, <1>6, BootsTrans DEF Then
<1> HIDE DEF W3
<1> QED BY <1>1, <1>4, <1>7, BootsTrans DEF Then

LEMMA GpioModeQuiet ==
    ASSUME NEW s, NEW g \in Gpios, NEW enable
    PROVE  \A o \in it930x_set_gpio_mode(s, g, "OUT", enable) :
              Quiet(s, o.s) /\ (Device(s) /\ o.ret = "OK" => o.s.gpio[g].mode = "OUT")
<1> DEFINE M(t) == [t EXCEPT !.gpio[g].mode = "OUT"]
           E(t) == [t EXCEPT !.gpio[g].enable = TRUE]
           First == IF s.gpio[g].mode = "OUT" THEN {Out("OK", s)} ELSE Then(Access(s), LAMBDA t : {Out("OK", M(t))})
           En(t) == Then(Access(t), LAMBDA u : {Out("OK", E(u))})
           Second(t) == IF ~enable \/ t.gpio[g].enable THEN {Out("OK", t)} ELSE En(t)
<1>1. it930x_set_gpio_mode(s, g, "OUT", enable) = Then(First, LAMBDA t : Second(t))
  BY DEF it930x_set_gpio_mode, Return
<1>2. ASSUME NEW t PROVE Quiet(t, M(t)) /\ (Device(t) => M(t).gpio[g].mode = "OUT")
  BY DEF Quiet, Boots, Device, DeviceFields, SameCapture
<1>3. ASSUME NEW t PROVE Quiet(t, E(t)) /\ (Device(t) => E(t).gpio[g].mode = t.gpio[g].mode)
  BY DEF Quiet, Boots, Device, DeviceFields, SameCapture
<1>4. ASSUME NEW u PROVE \A o \in Access(u) : Quiet(u, o.s) /\ (Device(u) => o.s.gpio = u.gpio)
  BY AccessAside, AsideQuiet DEF Aside, SameLnb
<1> HIDE DEF M, E
<1>5. \A o \in First : Quiet(s, o.s) /\ (Device(s) /\ o.ret = "OK" => o.s.gpio[g].mode = "OUT")
  BY <1>2, <1>4, BootsTrans, AsideRefl, AsideQuiet DEF Then, Out, Quiet, Boots
<1>6. ASSUME NEW t PROVE \A o \in En(t) : Quiet(t, o.s) /\ (Device(t) => o.s.gpio[g].mode = t.gpio[g].mode)
  BY <1>3, <1>4, BootsTrans DEF Then, Out, Quiet, Boots
<1> HIDE DEF En, First
<1>7. ASSUME NEW t PROVE \A o \in Second(t) : Quiet(t, o.s) /\ (Device(t) => o.s.gpio[g].mode = t.gpio[g].mode)
  BY <1>6, AsideRefl, AsideQuiet DEF Out
<1> HIDE DEF Second
<1> QED BY <1>1, <1>5, <1>7, BootsTrans DEF Then, Quiet, Boots

LEMMA OutPinQuiet ==
    ASSUME NEW s, NEW g \in Gpios \ {LnbGpio}, NEW high
    PROVE  \A o \in OutPin(s, g, high) : Quiet(s, o.s)
<1> DEFINE Mode == it930x_set_gpio_mode(s, g, "OUT", TRUE)
<1>1. OutPin(s, g, high) = Then(Mode, LAMBDA t : it930x_write_gpio(t, g, high))
  BY DEF OutPin
<1>2. \A o \in Mode : Quiet(s, o.s)
  <2>1. \A e : \A o \in it930x_set_gpio_mode(s, g, "OUT", e) : Quiet(s, o.s)
    BY GpioModeQuiet
  <2> QED BY <2>1
<1>3. ASSUME NEW t PROVE \A o \in it930x_write_gpio(t, g, high) : Quiet(t, o.s)
  BY WriteGpioAside, AsideQuiet
<1> HIDE DEF Mode
<1> QED BY <1>1, <1>2, <1>3, BootsTrans DEF Then

(* The LNB's pin is driven, and low.                                       *)
LnbOff(s) == s.gpio[LnbGpio].mode = "OUT" /\ ~s.level[LnbGpio]
LEMMA OutPinLnb ==
    ASSUME NEW s
    PROVE  \A o \in OutPin(s, LnbGpio, FALSE) : Boots(s, o.s) /\ (Device(s) /\ o.ret = "OK" => LnbOff(o.s))
<1> DEFINE Mode == it930x_set_gpio_mode(s, LnbGpio, "OUT", TRUE)
           Low(t) == it930x_write_gpio(t, LnbGpio, FALSE)
<1>1. OutPin(s, LnbGpio, FALSE) = Then(Mode, LAMBDA t : Low(t))
  BY DEF OutPin
<1>2. \A o \in Mode : Boots(s, o.s) /\ (Device(s) /\ o.ret = "OK" => o.s.gpio[LnbGpio].mode = "OUT")
  <2>1. \A e : \A o \in it930x_set_gpio_mode(s, LnbGpio, "OUT", e) :
                  Quiet(s, o.s) /\ (Device(s) /\ o.ret = "OK" => o.s.gpio[LnbGpio].mode = "OUT")
    BY GpioModeQuiet DEF Gpios, LnbGpio
  <2> QED BY <2>1 DEF Quiet
<1>3. ASSUME NEW t, Device(t), NEW o \in Low(t)
      PROVE  Boots(t, o.s) /\ (t.gpio[LnbGpio].mode = "OUT" /\ o.ret = "OK" => LnbOff(o.s))
  <2> DEFINE off == FALSE
  <2>1. off \in BOOLEAN /\ ~off /\ o \in it930x_write_gpio(t, LnbGpio, off)
    BY <1>3
  <2> HIDE DEF off
  <2>2. /\ AroundLnb(t, o.s) /\ o.s.lnb = t.lnb /\ o.s.lnb_power_count = t.lnb_power_count
        /\ t.gpio[LnbGpio].mode = "OUT" => \/ o.ret = "OK" /\ o.s.level[LnbGpio] = off
                                           \/ o.ret = "EIO"
    BY <2>1, <1>3, LnbPinWritten
  <2> QED BY <2>1, <2>2 DEF AroundLnb, Boots, LnbOff, SameFilter
<1> HIDE DEF Mode, Low
<1> SUFFICES ASSUME NEW o \in OutPin(s, LnbGpio, FALSE), Device(s)
             PROVE  Boots(s, o.s) /\ (o.ret = "OK" => LnbOff(o.s))
    BY DEF Boots
<1>4. PICK p \in Mode : (o = p /\ o.ret # "OK") \/ (p.ret = "OK" /\ o \in Low(p.s))
  BY <1>1 DEF Then
<1>5. CASE p.ret = "OK" /\ o \in Low(p.s)
  <2>1. Device(p.s) /\ Boots(s, p.s) /\ p.s.gpio[LnbGpio].mode = "OUT"
    BY <1>2, <1>5 DEF Boots
  <2> QED BY <2>1, <1>3, <1>5, BootsTrans
<1> QED BY <1>2, <1>4, <1>5

(* The end of every bring-up: null packets are dropped on every input and  *)
(* the device is there.                                                    *)
Blocked(e) == [e EXCEPT !.filter = [i \in DOMAIN @ |-> "block"]]
Ready(e) == Then(Set(e, Blocked(e)), LAMBDA f : {Out("OK", [f EXCEPT !.available = TRUE])})
IsReady(s) == s.available = TRUE /\ \A i \in Rx(family) : s.filter[i] = "block"

(* Probing of each family ends with every filter blocking null packets     *)
(* and, on boards that have one, the LNB off.                              *)
LEMMA ReadyRight ==
    ASSUME NEW s
    PROVE  \A o \in Ready(s) : /\ Quiet(s, o.s)
                               /\ Device(s) /\ o.ret = "OK" => IsReady(o.s) /\ o.s.gpio = s.gpio
<1> DEFINE Av(t) == [t EXCEPT !.available = TRUE]
<1>1. Ready(s) = Then(Set(s, Blocked(s)), LAMBDA f : {Out("OK", Av(f))})
  BY DEF Ready
<1>2. /\ Quiet(s, Blocked(s))
      /\ Device(s) => /\ Blocked(s).faults = s.faults /\ Blocked(s).gpio = s.gpio
                      /\ \A i \in Rx(family) : Blocked(s).filter[i] = "block"
  BY DEF Blocked, Quiet, Boots, Device, DeviceFields, SameCapture
<1>3. ASSUME NEW t PROVE Quiet(t, Av(t)) /\ (Device(t) => Av(t).available = TRUE /\ Av(t).filter = t.filter /\ Av(t).gpio = t.gpio)
  BY DEF Quiet, Boots, Device, DeviceFields, SameCapture
<1>4. \A o \in Set(s, Blocked(s)) : Quiet(s, o.s) /\ (o.ret = "OK" => o.s = Blocked(s))
  <2>1. \A o \in Set(s, Blocked(s)) : Quiet(s, o.s)
    BY <1>2, SetQuiet
  <2>2. \A o \in Set(s, Blocked(s)) : o.ret = "OK" => o.s = Blocked(s)
    BY DEF Set, it930x_ctrl_msg, Out
  <2> QED BY <2>1, <2>2
<1> HIDE DEF Av
<1> SUFFICES ASSUME NEW o \in Ready(s), Device(s)
             PROVE  Quiet(s, o.s) /\ (o.ret = "OK" => IsReady(o.s) /\ o.s.gpio = s.gpio)
    BY DEF Quiet, Boots
<1>5. CASE o \in Set(s, Blocked(s)) /\ o.ret # "OK"
  BY <1>4, <1>5
<1>6. CASE \E p \in Set(s, Blocked(s)) : p.ret = "OK" /\ o = Out("OK", Av(p.s))
  <2>1. o.s = Av(Blocked(s)) /\ Device(Blocked(s))
    BY <1>2, <1>4, <1>6 DEF Out, Quiet, Boots
  <2> QED BY <2>1, <1>2, <1>3, BootsTrans DEF IsReady
<1> QED BY <1>1, <1>5, <1>6 DEF Then

LEMMA OneInit ==
    ASSUME NEW s
    PROVE  /\ \A o \in isdb2056_device_init(s) :
                 Quiet(s, o.s) /\ (Device(s) /\ o.ret = "OK" => IsReady(o.s))
           /\ isdbt2071_device_init(s) = isdb2056_device_init(s)
<1> DEFINE Pins(d) == OnePins(d)
<1> DEFINE B4(d) == Then(Pins(d), LAMBDA e : Ready(e))
           B3(c) == Then(it930x_init_warm(c), LAMBDA d : B4(d))
           B2(b) == Then(it930x_load_firmware(b), LAMBDA c : B3(c))
           B1(a) == Then(Access(a), LAMBDA b : B2(b))
<1>1. isdb2056_device_init(s) = Then(it930x_raise(it930x_init(s)), LAMBDA a : B1(a))
  BY DEF isdb2056_device_init, BringUp, Ready, Blocked, Return
<1>2. isdbt2071_device_init(s) = isdb2056_device_init(s)
  BY DEF isdb2056_device_init, isdbt2071_device_init
<1> DEFINE High(t) == OutPin(t, 3, TRUE)
           Low(t) == OutPin(t, PowerGpio, FALSE)
<1>3. ASSUME NEW t PROVE \A o \in Pins(t) : Quiet(t, o.s)
  <2>1. Pins(t) = Then(High(t), LAMBDA u : Low(u))
    BY DEF OnePins
  <2>2. ASSUME NEW u PROVE (\A o \in High(u) : Quiet(u, o.s)) /\ (\A o \in Low(u) : Quiet(u, o.s))
    <3>1. \A g \in {2, 3} : \A high : \A o \in OutPin(u, g, high) : Quiet(u, o.s)
      BY OutPinQuiet DEF Gpios, LnbGpio
    <3> QED BY <3>1 DEF PowerGpio
  <2> HIDE DEF High, Low
  <2> QED BY <2>1, <2>2, BootsTrans DEF Then
<1> HIDE DEF Pins
<1> DEFINE Good(t, o) == Quiet(t, o.s) /\ (Device(t) /\ o.ret = "OK" => IsReady(o.s))
<1>4. ASSUME NEW t, NEW u, NEW o, Quiet(t, u), Good(u, o) PROVE Good(t, o)
  BY <1>4, BootsTrans DEF Quiet, Boots
<1>5. ASSUME NEW t, NEW o, Quiet(t, o.s), o.ret # "OK" PROVE Good(t, o)
  BY <1>5
<1>6. ASSUME NEW t PROVE \A o \in Ready(t) : Good(t, o)
  BY ReadyRight
<1> HIDE DEF Good
<1>7. ASSUME NEW t PROVE \A o \in B4(t) : Good(t, o)
  BY <1>3, <1>4, <1>5, <1>6 DEF Then
<1> HIDE DEF B4
<1>8. ASSUME NEW t PROVE \A o \in B3(t) : Good(t, o)
  BY <1>4, <1>5, <1>7, WarmQuiet DEF Then
<1> HIDE DEF B3
<1>9. ASSUME NEW t PROVE \A o \in B2(t) : Good(t, o)
  BY <1>4, <1>5, <1>8, FirmwareQuiet DEF Then
<1> HIDE DEF B2
<1>10. ASSUME NEW t PROVE \A o \in B1(t) : Good(t, o)
  <2>1. \A o \in Access(t) : Quiet(t, o.s)
    BY AccessAside, AsideQuiet
  <2> QED BY <2>1, <1>4, <1>5, <1>9 DEF Then
<1> HIDE DEF B1
<1>11. \A o \in isdb2056_device_init(s) : Good(s, o)
  BY <1>1, <1>4, <1>5, <1>10, RaiseQuiet DEF Then
<1> QED BY <1>2, <1>11 DEF Good

LEMMA MltInit ==
    ASSUME NEW s
    PROVE  \A o \in pxmlt_device_init(s) :
              Boots(s, o.s) /\ (Device(s) /\ o.ret = "OK" => IsReady(o.s) /\ LnbOff(o.s))
<1> DEFINE High(t) == OutPin(t, 7, TRUE)
           Low(t) == OutPin(t, PowerGpio, FALSE)
           Lnb(t) == OutPin(t, LnbGpio, FALSE)
           Pins1(t) == Then(Low(t), LAMBDA u : Lnb(u))
           Pins(t) == Then(High(t), LAMBDA u : Pins1(u))
<1> DEFINE B4(d) == Then(Pins(d), LAMBDA e : Ready(e))
           B3(c) == Then(it930x_init_warm(c), LAMBDA d : B4(d))
           B2(b) == Then(it930x_load_firmware(b), LAMBDA c : B3(c))
           B1(a) == Then(Access(a), LAMBDA b : B2(b))
<1>1. pxmlt_device_init(s) = Then(it930x_raise(it930x_init(s)), LAMBDA a : B1(a))
  BY DEF pxmlt_device_init, BringUp, Ready, Blocked, Return
<1>2. ASSUME NEW t
      PROVE  /\ \A o \in High(t) : Quiet(t, o.s)
             /\ \A o \in Low(t) : Quiet(t, o.s)
             /\ \A o \in Lnb(t) : Boots(t, o.s) /\ (Device(t) /\ o.ret = "OK" => LnbOff(o.s))
  <2>1. ASSUME NEW u PROVE \A g \in {2, 7} : \A high : \A o \in OutPin(u, g, high) : Quiet(u, o.s)
    BY OutPinQuiet DEF Gpios, LnbGpio
  <2> QED BY <2>1, OutPinLnb DEF PowerGpio
<1> HIDE DEF High, Low, Lnb
<1>3. ASSUME NEW t PROVE \A o \in Pins(t) : Boots(t, o.s) /\ (Device(t) /\ o.ret = "OK" => LnbOff(o.s))
  <2>1. ASSUME NEW u PROVE \A o \in Pins1(u) : Boots(u, o.s) /\ (Device(u) /\ o.ret = "OK" => LnbOff(o.s))
    BY <1>2, BootsTrans DEF Then, Quiet, Boots
  <2> HIDE DEF Pins1
  <2> QED BY <2>1, <1>2, BootsTrans DEF Then, Quiet, Boots
<1> HIDE DEF Pins
<1> DEFINE Good(t, o) == Boots(t, o.s) /\ (Device(t) /\ o.ret = "OK" => IsReady(o.s) /\ LnbOff(o.s))
<1>4. ASSUME NEW t, NEW u, NEW o, Quiet(t, u), Good(u, o) PROVE Good(t, o)
  BY <1>4, BootsTrans DEF Quiet, Boots
<1>5. ASSUME NEW t, NEW o, Boots(t, o.s), o.ret # "OK" PROVE Good(t, o)
  BY <1>5
<1>6. ASSUME NEW t, NEW p \in Pins(t), p.ret = "OK", NEW o \in Ready(p.s) PROVE Good(t, o)
  <2> SUFFICES ASSUME Device(t) PROVE Good(t, o)
      BY DEF Boots
  <2>1. Device(p.s) /\ LnbOff(p.s) /\ Boots(t, p.s)
    BY <1>3, <1>6 DEF Boots
  <2>2. Quiet(p.s, o.s) /\ (o.ret = "OK" => IsReady(o.s) /\ o.s.gpio = p.s.gpio)
    BY <2>1, <1>6, ReadyRight
  <2>3. Boots(t, o.s) /\ o.s.level[LnbGpio] = p.s.level[LnbGpio]
    BY <2>1, <2>2, BootsTrans DEF Quiet
  <2> QED BY <2>1, <2>2, <2>3 DEF LnbOff
<1> HIDE DEF Good
<1>7. ASSUME NEW t PROVE \A o \in B4(t) : Good(t, o)
  BY <1>3, <1>5, <1>6 DEF Then
<1> HIDE DEF B4
<1>8. ASSUME NEW t PROVE \A o \in B3(t) : Good(t, o)
  BY <1>4, <1>5, <1>7, WarmQuiet DEF Then, Quiet
<1> HIDE DEF B3
<1>9. ASSUME NEW t PROVE \A o \in B2(t) : Good(t, o)
  BY <1>4, <1>5, <1>8, FirmwareQuiet DEF Then, Quiet
<1> HIDE DEF B2
<1>10. ASSUME NEW t PROVE \A o \in B1(t) : Good(t, o)
  <2>1. \A o \in Access(t) : Quiet(t, o.s)
    BY AccessAside, AsideQuiet
  <2> QED BY <2>1, <1>4, <1>5, <1>9 DEF Then, Quiet
<1> HIDE DEF B1
<1>11. \A o \in pxmlt_device_init(s) : Good(s, o)
  BY <1>1, <1>4, <1>5, <1>10, RaiseQuiet DEF Then, Quiet
<1> QED BY <1>11 DEF Good

LEMMA Px4Init ==
    ASSUME NEW s
    PROVE  \A o \in px4_device_init(s) :
              Boots(s, o.s) /\ (Device(s) /\ o.ret = "OK" => IsReady(o.s) /\ LnbOff(o.s))
<1> DEFINE Mode(t) == it930x_set_gpio_mode(t, 7, "OUT", TRUE)
           Low(t) == OutPin(t, PowerGpio, FALSE)
           High(t) == it930x_write_gpio(t, 7, TRUE)
           Lnb(t) == OutPin(t, LnbGpio, FALSE)
           Pins1(t) == Then(High(t), LAMBDA u : Lnb(u))
           Pins2(t) == Then(Low(t), LAMBDA u : Pins1(u))
           Pins(t) == Then(Mode(t), LAMBDA u : Pins2(u))
<1> DEFINE B4(d) == Then(Pins(d), LAMBDA e : Ready(e))
           B3(c) == Then(it930x_init_warm(c), LAMBDA d : B4(d))
           B2(b) == Then(it930x_load_firmware(b), LAMBDA c : B3(c))
           B1(a) == Then(Access(a), LAMBDA b : B2(b))
<1>1. px4_device_init(s) = Then(it930x_raise(it930x_init(s)), LAMBDA a : B1(a))
  BY DEF px4_device_init, BringUp, Ready, Blocked, Return
<1>2. ASSUME NEW t
      PROVE  /\ \A o \in Mode(t) : Quiet(t, o.s)
             /\ \A o \in High(t) : Quiet(t, o.s)
             /\ \A o \in Low(t) : Quiet(t, o.s)
             /\ \A o \in Lnb(t) : Boots(t, o.s) /\ (Device(t) /\ o.ret = "OK" => LnbOff(o.s))
  <2>1. ASSUME NEW u PROVE \A g \in {2, 7} : \A high : \A o \in OutPin(u, g, high) : Quiet(u, o.s)
    BY OutPinQuiet DEF Gpios, LnbGpio
  <2>2. \A e : \A o \in it930x_set_gpio_mode(t, 7, "OUT", e) : Quiet(t, o.s)
    BY GpioModeQuiet DEF Gpios
  <2>3. \A high : \A o \in it930x_write_gpio(t, 7, high) : Quiet(t, o.s)
    BY WriteGpioAside, AsideQuiet DEF Gpios, LnbGpio
  <2>4. \A o \in Low(t) : Quiet(t, o.s)
    BY <2>1 DEF PowerGpio
  <2> QED BY <2>2, <2>3, <2>4, OutPinLnb
<1> HIDE DEF Mode, High, Low, Lnb
<1>3. ASSUME NEW t PROVE \A o \in Pins(t) : Boots(t, o.s) /\ (Device(t) /\ o.ret = "OK" => LnbOff(o.s))
  <2>1. ASSUME NEW u PROVE \A o \in Pins1(u) : Boots(u, o.s) /\ (Device(u) /\ o.ret = "OK" => LnbOff(o.s))
    BY <1>2, BootsTrans DEF Then, Quiet, Boots
  <2> HIDE DEF Pins1
  <2>2. ASSUME NEW u PROVE \A o \in Pins2(u) : Boots(u, o.s) /\ (Device(u) /\ o.ret = "OK" => LnbOff(o.s))
    BY <2>1, <1>2, BootsTrans DEF Then, Quiet, Boots
  <2> HIDE DEF Pins2
  <2> QED BY <2>2, <1>2, BootsTrans DEF Then, Quiet, Boots
<1> HIDE DEF Pins
<1> DEFINE Good(t, o) == Boots(t, o.s) /\ (Device(t) /\ o.ret = "OK" => IsReady(o.s) /\ LnbOff(o.s))
<1>4. ASSUME NEW t, NEW u, NEW o, Quiet(t, u), Good(u, o) PROVE Good(t, o)
  BY <1>4, BootsTrans DEF Quiet, Boots
<1>5. ASSUME NEW t, NEW o, Boots(t, o.s), o.ret # "OK" PROVE Good(t, o)
  BY <1>5
<1>6. ASSUME NEW t, NEW p \in Pins(t), p.ret = "OK", NEW o \in Ready(p.s) PROVE Good(t, o)
  <2> SUFFICES ASSUME Device(t) PROVE Good(t, o)
      BY DEF Boots
  <2>1. Device(p.s) /\ LnbOff(p.s) /\ Boots(t, p.s)
    BY <1>3, <1>6 DEF Boots
  <2>2. Quiet(p.s, o.s) /\ (o.ret = "OK" => IsReady(o.s) /\ o.s.gpio = p.s.gpio)
    BY <2>1, <1>6, ReadyRight
  <2>3. Boots(t, o.s) /\ o.s.level[LnbGpio] = p.s.level[LnbGpio]
    BY <2>1, <2>2, BootsTrans DEF Quiet
  <2> QED BY <2>1, <2>2, <2>3 DEF LnbOff
<1> HIDE DEF Good
<1>7. ASSUME NEW t PROVE \A o \in B4(t) : Good(t, o)
  BY <1>3, <1>5, <1>6 DEF Then
<1> HIDE DEF B4
<1>8. ASSUME NEW t PROVE \A o \in B3(t) : Good(t, o)
  BY <1>4, <1>5, <1>7, WarmQuiet DEF Then, Quiet
<1> HIDE DEF B3
<1>9. ASSUME NEW t PROVE \A o \in B2(t) : Good(t, o)
  BY <1>4, <1>5, <1>8, FirmwareQuiet DEF Then, Quiet
<1> HIDE DEF B2
<1>10. ASSUME NEW t PROVE \A o \in B1(t) : Good(t, o)
  <2>1. \A o \in Access(t) : Quiet(t, o.s)
    BY AccessAside, AsideQuiet
  <2> QED BY <2>1, <1>4, <1>5, <1>9 DEF Then, Quiet
<1> HIDE DEF B1
<1>11. \A o \in px4_device_init(s) : Good(s, o)
  BY <1>1, <1>4, <1>5, <1>10, RaiseQuiet DEF Then, Quiet
<1> QED BY <1>11 DEF Good

-----------------------------------------------------------------------------
(* The operations of whatever board there is.                              *)

(* The families whose receivers share one bridge and one LNB; from here on *)
(* the calls are those of the family at hand.                              *)
Shared == family \in {"px4", "mlt"}

LEMMA OpOpenAside ==
    ASSUME NEW s, NEW i PROVE \A o \in OpOpen(s, i) : Aside(s, o.s)
<1>1. OpOpen(s, i) \in {px4_chrdev_open(s, chr, i), pxmlt_chrdev_open(s, i),
                        isdb2056_chrdev_open(s, i, Sat), isdbt2071_chrdev_open(s, i)}
  BY DEF OpOpen
<1>2. (\A o \in px4_chrdev_open(s, chr, i) : Aside(s, o.s)) /\ (\A o \in pxmlt_chrdev_open(s, i) : Aside(s, o.s))
  BY Px4OpenAside, MltOpenAside
<1>3. (\A o \in isdb2056_chrdev_open(s, i, Sat) : Aside(s, o.s)) /\ (\A o \in isdbt2071_chrdev_open(s, i) : Aside(s, o.s))
  BY OneOpenAside
<1> QED BY <1>1, <1>2, <1>3

LEMMA OpReleaseAside ==
    ASSUME NEW s, NEW i, NEW o \in OpRelease(s, i)
    PROVE  IF Shared THEN \E p \in SetLnb(s, i, 0) : Aside(p.s, o.s) ELSE Aside(s, o.s)
<1>1. CASE family = "px4"
  BY <1>1, Px4ReleaseAside DEF OpRelease, Shared
<1>2. CASE family = "mlt"
  BY <1>2, MltReleaseAside DEF OpRelease, Shared
<1>3. CASE family \notin {"px4", "mlt"}
  <2>1. o \in isdb2056_chrdev_release(s, i) \/ o \in isdbt2071_chrdev_release(s, i)
    BY <1>3 DEF OpRelease
  <2> QED BY <1>3, <2>1, OneOpenAside DEF Shared
<1> QED BY <1>1, <1>2, <1>3

LEMMA OpTuneTunes ==
    ASSUME NEW s, NEW i \in Rx(family), NEW p
    PROVE  \A o \in OpTune(s, i, p) :
              /\ Tunes(s, o.s, i)
              /\ family = "mlt" /\ Device(s) /\ o.ret = "OK" => o.s.nullOff[i] = (p.system = "C")
<1>1. CASE family = "mlt"
  BY <1>1, MltTuneTunes DEF OpTune
<1>2. CASE family # "mlt"
  <2>1. OpTune(s, i, p) \in {px4_chrdev_tune_t(s, i, p), px4_chrdev_tune_s(s, i, p),
                             isdb2056_chrdev_tune(s, i, p, Sat), isdbt2071_chrdev_tune(s, i, p)}
    BY <1>2 DEF OpTune
  <2>2. (\A o \in px4_chrdev_tune_t(s, i, p) : Aside(s, o.s)) /\ (\A o \in px4_chrdev_tune_s(s, i, p) : Aside(s, o.s))
    BY Px4TuneAside
  <2>3. (\A o \in isdb2056_chrdev_tune(s, i, p, Sat) : Aside(s, o.s)) /\ (\A o \in isdbt2071_chrdev_tune(s, i, p) : Aside(s, o.s))
    BY OneTuneAside
  <2>4. \A o \in OpTune(s, i, p) : Aside(s, o.s)
    BY <2>1, <2>2, <2>3
  <2> QED BY <1>2, <2>4, AsideTunes
<1> QED BY <1>1, <1>2

LEMMA StatusAside ==
    ASSUME NEW s
    PROVE  /\ \A o \in cxd2856er_is_ts_locked_isdbt(s) : Aside(s, o.s)
           /\ \A o \in cxd2856er_is_ts_locked_isdbs(s) : Aside(s, o.s)
           /\ \A o \in cxd2856er_is_ts_locked_isdbc(s) : Aside(s, o.s)
           /\ \A i : \A o \in cxd2856er_read_cnr_raw_isdbt(s, i) : Aside(s, o.s)
           /\ \A o \in cxd2856er_read_cnr_raw_isdbs(s) : Aside(s, o.s)
           /\ \A i : \A o \in cxd2856er_read_cnr_raw_isdbc(s, i) : Aside(s, o.s)
           /\ \A i, id : \A o \in cxd2856er_set_slot_isdbs(s, i, id) : Aside(s, o.s)
           /\ \A i, id : \A o \in cxd2856er_set_tsid_isdbs(s, i, id) : Aside(s, o.s)
           /\ \A o \in tc90522_is_signal_locked_t(s) : Aside(s, o.s)
           /\ \A o \in tc90522_is_signal_locked_s(s) : Aside(s, o.s)
           /\ \A o \in tc90522_get_cndat_t(s) : Aside(s, o.s)
           /\ \A o \in tc90522_get_cn_s(s) : Aside(s, o.s)
           /\ \A v : \A o \in Return(v, s) : Aside(s, o.s)
<1>1. \A v : \A o \in Return(v, s) : Aside(s, o.s)
  BY AsideRefl DEF Return, Out
<1>2. \A o \in UNION {tc90522_is_signal_locked_t(s), tc90522_is_signal_locked_s(s),
                      tc90522_get_cndat_t(s), tc90522_get_cn_s(s)} : Aside(s, o.s)
  BY TcStatusAside
<1>3. ASSUME NEW i, NEW id PROVE \A o \in UNION {cxd2856er_set_slot_isdbs(s, i, id), cxd2856er_set_tsid_isdbs(s, i, id),
                      cxd2856er_is_ts_locked_isdbt(s), cxd2856er_is_ts_locked_isdbs(s),
                      cxd2856er_is_ts_locked_isdbc(s), cxd2856er_read_cnr_raw_isdbt(s, i),
                      cxd2856er_read_cnr_raw_isdbs(s), cxd2856er_read_cnr_raw_isdbc(s, i)} : Aside(s, o.s)
  BY DemodStatusAside
<1> QED BY <1>1, <1>2, <1>3

LEMMA OpCheckLockAside ==
    ASSUME NEW s, NEW i, NEW system PROVE \A o \in OpCheckLock(s, i, system) : Aside(s, o.s)
<1>1. OpCheckLock(s, i, system) \in
        {tc90522_is_signal_locked_t(s), tc90522_is_signal_locked_s(s), cxd2856er_is_ts_locked_isdbt(s),
         cxd2856er_is_ts_locked_isdbs(s), cxd2856er_is_ts_locked_isdbc(s), Return("EINVAL", s)}
  BY DEF OpCheckLock, Cap, px4_chrdev_check_lock_t, px4_chrdev_check_lock_s, pxmlt_chrdev_check_lock,
         isdb2056_chrdev_check_lock, isdbt2071_chrdev_check_lock
<1> QED BY <1>1, StatusAside

LEMMA OpReadCnrAside ==
    ASSUME NEW s, NEW i PROVE \A o \in OpReadCnr(s, i) : Aside(s, o.s)
<1>1. OpReadCnr(s, i) \in
        {tc90522_get_cndat_t(s), tc90522_get_cn_s(s), cxd2856er_read_cnr_raw_isdbt(s, i),
         cxd2856er_read_cnr_raw_isdbs(s), cxd2856er_read_cnr_raw_isdbc(s, i), Return("EINVAL", s)}
  BY DEF OpReadCnr, Cap, px4_chrdev_read_cnr_raw_t, px4_chrdev_read_cnr_raw_s, pxmlt_chrdev_read_cnr_raw,
         isdb2056_chrdev_read_cnr_raw, isdbt2071_chrdev_read_cnr_raw
<1> QED BY <1>1, StatusAside

LEMMA OpSetStreamIdAside ==
    ASSUME NEW s, NEW i, NEW system, NEW id
    PROVE  \A o \in OpSetStreamId(s, i, system, id) : Aside(s, o.s)
<1>1. OpSetStreamId(s, i, system, id) \in
        {SetStreamId(s, i, id, Tsids), cxd2856er_set_slot_isdbs(s, i, id), cxd2856er_set_tsid_isdbs(s, i, id),
         Return("EINVAL", s), Return("OK", s)}
  BY DEF OpSetStreamId, px4_chrdev_set_stream_id_s, pxmlt_chrdev_set_stream_id, isdb2056_chrdev_set_stream_id
<1>2. \A o \in SetStreamId(s, i, id, Tsids) : Aside(s, o.s)
  BY TcStatusAside
<1> QED BY <1>1, <1>2, StatusAside

LEMMA OpStarts ==
    ASSUME NEW s, NEW i PROVE \A o \in OpSetCapture(s, i, TRUE) : Started(s, o, Shared)
<1> DEFINE sys == chr[i].current_system
           On == OpSetCapture(s, i, TRUE)
           Good(o) == Started(s, o, Shared)
           GoodT(o) == Started(s, o, TRUE)
           GoodF(o) == Started(s, o, FALSE)
<1>1. On = CASE family = "px4" -> px4_chrdev_start_capture(s, i)
             [] family = "mlt" -> pxmlt_chrdev_start_capture(s)
             [] family \in {"isdb2056", "s1ur"} -> isdb2056_chrdev_start_capture(s, i, sys, Sat)
             [] OTHER -> isdbt2071_chrdev_start_capture(s, i, sys)
  BY DEF OpSetCapture, px4_chrdev_set_capture, pxmlt_chrdev_set_capture,
         isdb2056_chrdev_set_capture, isdbt2071_chrdev_set_capture
<1>2. ASSUME NEW o PROVE /\ Shared /\ GoodT(o) => Good(o)
                         /\ ~Shared /\ GoodF(o) => Good(o)
  BY DEF Started
<1>3. /\ \A o \in px4_chrdev_start_capture(s, i) : GoodT(o)
      /\ \A o \in pxmlt_chrdev_start_capture(s) : GoodT(o)
  BY Px4Starts, MltStarts
<1>4. /\ \A o \in isdb2056_chrdev_start_capture(s, i, sys, Sat) : GoodF(o)
      /\ \A o \in isdbt2071_chrdev_start_capture(s, i, sys) : GoodF(o)
  <2>1. \A sat : \A o \in isdb2056_chrdev_start_capture(s, i, sys, sat) : GoodF(o)
    BY OneStarts
  <2>2. \A o \in isdbt2071_chrdev_start_capture(s, i, sys) : GoodF(o)
    BY OneStarts
  <2> QED BY <2>1, <2>2
<1> HIDE DEF sys, On, Good, GoodT, GoodF
<1>5. CASE Shared
  <2>1. \A o \in On : GoodT(o)
    BY <1>1, <1>3, <1>5 DEF Shared
  <2>2. \A o \in On : Good(o)
    BY <2>1, <1>2, <1>5
  <2> QED BY <2>2 DEF On, Good
<1>6. CASE ~Shared
  <2>1. \A o \in On : GoodF(o)
    BY <1>1, <1>4, <1>6 DEF Shared
  <2>2. \A o \in On : Good(o)
    BY <2>1, <1>2, <1>6
  <2> QED BY <2>2 DEF On, Good
<1> QED BY <1>5, <1>6

LEMMA OpStops ==
    ASSUME NEW s, NEW i PROVE \A o \in OpSetCapture(s, i, FALSE) : Stopped(s, o, Shared)
<1> DEFINE sys == chr[i].current_system
           Off == OpSetCapture(s, i, FALSE)
           Good(o) == Stopped(s, o, Shared)
           GoodT(o) == Stopped(s, o, TRUE)
           GoodF(o) == Stopped(s, o, FALSE)
<1>1. Off = CASE family = "px4" -> px4_chrdev_stop_capture(s, i)
              [] family = "mlt" -> pxmlt_chrdev_stop_capture(s)
              [] OTHER -> StopOne(s, i, sys)
  BY DEF OpSetCapture, px4_chrdev_set_capture, pxmlt_chrdev_set_capture,
         isdb2056_chrdev_set_capture, isdbt2071_chrdev_set_capture,
         isdb2056_chrdev_stop_capture, isdbt2071_chrdev_stop_capture
<1>2. ASSUME NEW o PROVE /\ Shared /\ GoodT(o) => Good(o)
                         /\ ~Shared /\ GoodF(o) => Good(o)
  BY DEF Stopped
<1>3. /\ \A o \in px4_chrdev_stop_capture(s, i) : GoodT(o)
      /\ \A o \in pxmlt_chrdev_stop_capture(s) : GoodT(o)
  BY SharedStops
<1>4. \A o \in StopOne(s, i, sys) : GoodF(o)
  BY OneStops
<1> HIDE DEF sys, Off, Good, GoodT, GoodF
<1>5. CASE Shared
  <2>1. \A o \in Off : GoodT(o)
    BY <1>1, <1>3, <1>5 DEF Shared
  <2>2. \A o \in Off : Good(o)
    BY <2>1, <1>2, <1>5
  <2> QED BY <2>2 DEF Off, Good
<1>6. CASE ~Shared
  <2>1. \A o \in Off : GoodF(o)
    BY <1>1, <1>4, <1>6 DEF Shared
  <2>2. \A o \in Off : Good(o)
    BY <2>1, <1>2, <1>6
  <2> QED BY <2>2 DEF Off, Good
<1> QED BY <1>5, <1>6

LEMMA OpInitRight ==
    ASSUME NEW s
    PROVE  \A o \in OpInit(s) :
              /\ Boots(s, o.s)
              /\ Device(s) /\ o.ret = "OK" => IsReady(o.s)
              /\ Device(s) => IF Shared THEN o.ret = "OK" => LnbOff(o.s)
                              ELSE o.s.level[LnbGpio] = s.level[LnbGpio]
<1>1. CASE family = "px4"
  BY <1>1, Px4Init DEF OpInit, Shared
<1>2. CASE family = "mlt"
  BY <1>2, MltInit DEF OpInit, Shared
<1>3. CASE family \notin {"px4", "mlt"}
  <2>1. OpInit(s) = isdb2056_device_init(s)
    BY <1>3, OneInit DEF OpInit
  <2> QED BY <1>3, <2>1, OneInit DEF Quiet, Shared
<1> QED BY <1>1, <1>2, <1>3
-----------------------------------------------------------------------------
(* The inductive invariant, of the values of the variables: at is the      *)
(* attachment, d the board, c the receivers, a what they were asked for, u *)
(* the suspicions and l whether a write of the LNB's pin was lost.         *)

ChrdevFields == {"open", "pc", "params", "current_system", "streaming", "tsmf_active"}
(* The receivers whose capture is on: those that stream, and those that    *)
(* look for a TSMF header while they tune.                                 *)
Capturers(c) == {i \in Rx(family) : c[i].streaming \/ c[i].pc = "tsmf"}

(* A receiver that is not open captures nothing.                           *)
ReceiverRight(at, r) ==
    /\ DOMAIN r = ChrdevFields
    /\ r.streaming \in BOOLEAN
    /\ r.open <=> r.pc # "closed"
    /\ r.pc \in {"closed", "opening", "leaving"} => ~r.streaming
    /\ at = "absent" => r.pc = "closed"
ReceiversRight(at, c) ==
    /\ DOMAIN c = Rx(family)
    /\ \A i \in Rx(family) : ReceiverRight(at, c[i])

(* Reception runs exactly while somebody captures.                         *)
CaptureRight(d, c) ==
    /\ d.streaming_count \in Nat
    /\ d.bus <=> Capturers(c) # {}
    /\ Shared => d.streaming_count = Cardinality(Capturers(c))

(* A board without LNB supply never has the pin up.                        *)
LnbUnused(d) == d.lnb_power_count = 0 /\ Wanted(d) = {}
LnbKept(at, d, c, l) ==
    /\ at = "absent" \/ ~Shared => LnbUnused(d)
    /\ ~Shared => ~d.level[LnbGpio]
    /\ Shared /\ at = "probed" =>
          /\ d.gpio[LnbGpio].mode = "OUT"
          /\ LnbRight(d)
          /\ Wanted(d) = {} /\ d.level[LnbGpio] => l
          /\ \A i \in Wanted(d) : c[i].pc \in {"open", "tsmf"}

(* The driver knows what the null packet filter of a receiver does unless  *)
(* a tune failed on an access, and has it pass null packets for ISDB-C.    *)
FilterRight(at, d, a, u) ==
    /\ DOMAIN a = Rx(family) /\ DOMAIN u = Rx(family)
    /\ \A i \in Rx(family) :
          /\ at = "absent" => ~d.nullOff[i] /\ a[i].system = U
          /\ at # "absent" /\ u[i] = "no" /\ family = "mlt" => FilterKnown(d, i)
          /\ a[i].system # U /\ family = "mlt" => (d.nullOff[i] <=> a[i].system = "C")

Right(at, d, c, a, u, l) ==
    /\ Device(d)
    /\ at = "probed" => d.available
    /\ ReceiversRight(at, c)
    /\ CaptureRight(d, c)
    /\ LnbKept(at, d, c, l)
    /\ FilterRight(at, d, a, u)

(* The inductive invariant.                                                *)
Inv == load \in Workloads /\ Right(attached, dev, chr, asked, suspect, lnbLost)

LEMMA CapturersFinite ==
    ASSUME NEW c
    PROVE  /\ IsFiniteSet(Capturers(c)) /\ Cardinality(Capturers(c)) \in Nat
           /\ Cardinality(Capturers(c)) = 0 <=> Capturers(c) = {}
<1>1. Capturers(c) \subseteq Rx(family)
  BY DEF Capturers
<1>2. IsFiniteSet(Capturers(c))
  BY <1>1, RxFinite, FS_Subset
<1> QED BY <1>2, FS_CardinalityType, FS_EmptySet

(* A board of its own has one receiver.                                    *)
LEMMA OneReceiver ==
    ASSUME ~Shared PROVE Rx(family) = {0}
BY DEF Shared, Rx

(* How the parts of the invariant survive the relations above.             *)
LEMMA CaptureKept ==
    ASSUME NEW d, NEW e, NEW c, NEW k, CaptureRight(d, c), SameCapture(d, e), Capturers(k) = Capturers(c)
    PROVE  CaptureRight(e, k)
BY DEF CaptureRight, SameCapture

LEMMA CaptureAdded ==
    ASSUME NEW d, NEW o, NEW c, NEW k, NEW i \in Rx(family),
           CaptureRight(d, c), Device(d), Started(d, o, Shared), o.ret = "OK",
           i \notin Capturers(c), Capturers(k) = Capturers(c) \cup {i}
    PROVE  CaptureRight(o.s, k)
<1>1. Cardinality(Capturers(k)) = Cardinality(Capturers(c)) + 1
  BY CapturersFinite, FS_AddElement
<1>2. d.streaming_count \in Nat /\ (d.bus <=> Capturers(c) # {})
      /\ (Shared => d.streaming_count = Cardinality(Capturers(c)))
  BY DEF CaptureRight
<1>3. /\ o.s.streaming_count = IF Shared THEN d.streaming_count + 1 ELSE d.streaming_count
      /\ Shared /\ d.streaming_count # 0 => o.s.bus = d.bus
      /\ ~Shared \/ d.streaming_count = 0 => o.s.bus = TRUE
  BY <1>2 DEF Started
<1>4. o.s.streaming_count \in Nat /\ (Shared => o.s.streaming_count = Cardinality(Capturers(k)))
  BY <1>1, <1>2, <1>3
<1>5. o.s.bus
  BY <1>2, <1>3, CapturersFinite
<1> QED BY <1>4, <1>5 DEF CaptureRight

LEMMA CaptureRemoved ==
    ASSUME NEW d, NEW o, NEW c, NEW k, NEW i \in Rx(family),
           CaptureRight(d, c), Device(d), Stopped(d, o, Shared),
           i \in Capturers(c), Capturers(k) = Capturers(c) \ {i}
    PROVE  CaptureRight(o.s, k) /\ o.ret = "OK" /\ Beside(d, o.s)
<1>1. Cardinality(Capturers(k)) = Cardinality(Capturers(c)) - 1 /\ Cardinality(Capturers(c)) # 0
  BY CapturersFinite, FS_RemoveElement
<1>2. d.streaming_count \in Nat /\ (d.bus <=> Capturers(c) # {})
      /\ (Shared => d.streaming_count = Cardinality(Capturers(c)))
  BY DEF CaptureRight
<1>3. /\ o.ret = "OK" /\ Beside(d, o.s)
      /\ o.s.streaming_count = IF Shared THEN d.streaming_count - 1 ELSE d.streaming_count
      /\ Shared /\ d.streaming_count # 1 => o.s.bus = d.bus
      /\ ~Shared \/ d.streaming_count = 1 => o.s.bus = FALSE
  BY <1>1, <1>2 DEF Stopped
<1>4. o.s.streaming_count \in Nat /\ (Shared => o.s.streaming_count = Cardinality(Capturers(k)))
  BY <1>1, <1>2, <1>3, CapturersFinite
<1>5. o.s.bus <=> Capturers(k) # {}
  <2>1. CASE ~Shared
    <3>1. Capturers(k) = {}
      BY <2>1, OneReceiver DEF Capturers
    <3> QED BY <3>1, <2>1, <1>3
  <2>2. CASE Shared /\ d.streaming_count = 1
    <3>1. Cardinality(Capturers(k)) = 0
      BY <2>2, <1>1, <1>2
    <3>2. Capturers(k) = {}
      BY <3>1, CapturersFinite
    <3> QED BY <2>2, <3>2, <1>3
  <2>3. CASE Shared /\ d.streaming_count # 1
    BY <2>3, <1>1, <1>2, <1>3, CapturersFinite
  <2> QED BY <2>1, <2>2, <2>3
<1> QED BY <1>3, <1>4, <1>5 DEF CaptureRight

LEMMA LnbKeptSame ==
    ASSUME NEW at, NEW d, NEW e, NEW c, NEW k, NEW l, LnbKept(at, d, c, l), SameLnb(d, e),
           \A i \in Rx(family) : c[i].pc \in {"open", "tsmf"} => k[i].pc \in {"open", "tsmf"}
    PROVE  LnbKept(at, e, k, l)
<1>1. Wanted(e) = Wanted(d) /\ (LnbUnused(d) => LnbUnused(e)) /\ (LnbRight(d) => LnbRight(e))
  BY DEF Wanted, LnbUnused, LnbRight, SameLnb
<1>2. Wanted(d) \subseteq Rx(family)
  BY DEF Wanted
<1> QED BY <1>1, <1>2 DEF LnbKept, SameLnb

LEMMA FilterRightSame ==
    ASSUME NEW at, NEW d, NEW e, NEW a, NEW u, FilterRight(at, d, a, u), SameFilter(d, e)
    PROVE  FilterRight(at, e, a, u)
BY DEF FilterRight, SameFilter, FilterKnown

LEMMA RightAside ==
    ASSUME NEW at, NEW d, NEW e, NEW c, NEW a, NEW u, NEW l, Right(at, d, c, a, u, l), Aside(d, e)
    PROVE  Right(at, e, c, a, u, l)
<1>1. Device(e) /\ SameCapture(d, e) /\ SameLnb(d, e) /\ SameFilter(d, e) /\ e.available = d.available
  BY DEF Right, Aside
<1>2. CaptureRight(e, c)
  BY <1>1, CaptureKept DEF Right
<1>3. LnbKept(at, e, c, l)
  BY <1>1, LnbKeptSame DEF Right
<1> QED BY <1>1, <1>2, <1>3, FilterRightSame DEF Right

(* The driver's view of a device it has not seen.                          *)
LEMMA NewDeviceRight ==
    ASSUME NEW faults \in Nat, NEW bridge, NEW level, DOMAIN level = Gpios,
           NEW c, ReceiversRight("absent", c), NEW a, NEW u, DOMAIN a = Rx(family), DOMAIN u = Rx(family),
           \A i \in Rx(family) : a[i].system = U, ~Shared => ~level[LnbGpio], NEW l
    PROVE  Right("absent", NewDevice(family, faults, bridge, level), c, a, u, l)
<1> DEFINE d == NewDevice(family, faults, bridge, level)
<1>1. /\ DOMAIN d = DeviceFields /\ d.faults = faults /\ d.level = level
      /\ d.gpio = [g \in Gpios |-> NoGpio]
  BY DEF NewDevice, DeviceFields
<1>2. /\ d.lnb = [i \in Rx(family) |-> FALSE] /\ d.nullOff = [i \in Rx(family) |-> FALSE]
      /\ d.lnb_power_count = 0 /\ d.streaming_count = 0 /\ ~d.bus
  BY DEF NewDevice
<1>3. /\ DOMAIN d.filter = Rx(family) /\ DOMAIN d.reg = Rx(family)
      /\ DOMAIN d.demod = Rx(family) /\ DOMAIN d.tuner = Rx(family)
  BY DEF NewDevice
<1> HIDE DEF d
<1>4. Device(d)
  BY <1>1, <1>2, <1>3 DEF Device
<1>5. CaptureRight(d, c)
  <2>1. Capturers(c) = {}
    BY DEF Capturers, ReceiversRight, ReceiverRight
  <2> QED BY <2>1, <1>2, CapturersFinite DEF CaptureRight
<1>6. LnbKept("absent", d, c, l)
  BY <1>1, <1>2 DEF LnbKept, LnbUnused, Wanted
<1>7. FilterRight("absent", d, a, u)
  BY <1>2 DEF FilterRight
<1> QED BY <1>4, <1>5, <1>6, <1>7 DEF Right, d

LEMMA NewReceivers ==
    ReceiversRight("absent", [i \in Rx(family) |-> NewChrdev(family, i)])
BY DEF ReceiversRight, ReceiverRight, NewChrdev, ChrdevFields

(* Before the first probe.                                                 *)
LEMMA InitRight == Init => Inv
<1> SUFFICES ASSUME Init PROVE Inv
    OBVIOUS
<1> DEFINE c == [i \in Rx(family) |-> NewChrdev(family, i)]
           a == [i \in Rx(family) |-> Nothing]
           u == [i \in Rx(family) |-> "no"]
           level == [g \in Gpios |-> FALSE]
<1>1. load.faults \in Nat /\ load \in Workloads
  BY WorkloadsAssumption DEF Init, WorkloadsAssumption
<1>2. ReceiversRight("absent", c)
  BY NewReceivers
<1>3. DOMAIN a = Rx(family) /\ DOMAIN u = Rx(family) /\ (\A i \in Rx(family) : a[i].system = U)
      /\ DOMAIN level = Gpios /\ ~level[LnbGpio]
  BY DEF Nothing, Gpios, LnbGpio
<1>4. attached = "absent" /\ dev = NewDevice(family, load.faults, "cold", level) /\ chr = c
      /\ asked = a /\ suspect = u
  BY DEF Init
<1> HIDE DEF c, a, u, level
<1>5. Right("absent", NewDevice(family, load.faults, "cold", level), c, a, u, lnbLost)
  BY <1>1, <1>2, <1>3, NewDeviceRight
<1> QED BY <1>1, <1>4, <1>5 DEF Inv

(* The next values of the variables, with the workload as it was.          *)
RightNext == Right(attached', dev', chr', asked', suspect', lnbLost')

(* The actions of the bus and of the card reader.                          *)
LEMMA ProbeRight == Inv /\ Probe => RightNext
<1> SUFFICES ASSUME Inv, Probe PROVE RightNext
    OBVIOUS
<1> USE DEF RightNext
<1>1. /\ Right("absent", dev, chr, asked, suspect, lnbLost) /\ attached = "absent"
      /\ chr' = chr /\ asked' = asked /\ suspect' = suspect /\ lnbLost' = lnbLost
  BY DEF Inv, Probe, ghosts
<1>2. PICK o \in OpInit(dev) :
         /\ attached' = IF o.ret = "OK" THEN "probed" ELSE "absent"
         /\ dev' = IF o.ret = "OK" THEN o.s ELSE NewDevice(family, o.s.faults, o.s.bridge, o.s.level)
  BY DEF Probe
<1>3. Device(dev)
  BY <1>1 DEF Right
<1>4. /\ Device(o.s) /\ SameCapture(dev, o.s) /\ o.s.nullOff = dev.nullOff
      /\ o.s.lnb = dev.lnb /\ o.s.lnb_power_count = dev.lnb_power_count
  BY <1>3, OpInitRight DEF Boots
<1>5. /\ o.ret = "OK" => IsReady(o.s)
      /\ Shared /\ o.ret = "OK" => LnbOff(o.s)
      /\ ~Shared => o.s.level[LnbGpio] = dev.level[LnbGpio]
  BY <1>3, OpInitRight
<1>6. ~Shared => ~o.s.level[LnbGpio]
  BY <1>1, <1>5 DEF Right, LnbKept
<1>7. CASE o.ret # "OK"
  <2>1. /\ ReceiversRight("absent", chr) /\ DOMAIN asked = Rx(family) /\ DOMAIN suspect = Rx(family)
        /\ \A i \in Rx(family) : asked[i].system = U
    BY <1>1 DEF Right, FilterRight
  <2>2. o.s.faults \in Nat /\ DOMAIN o.s.level = Gpios
    BY <1>4 DEF Device
  <2> QED BY <1>1, <1>2, <1>6, <1>7, <2>1, <2>2, NewDeviceRight
<1>8. CASE o.ret = "OK"
  <2>1. attached' = "probed" /\ dev' = o.s
    BY <1>2, <1>8
  <2>2. ReceiversRight("probed", chr)
    BY <1>1 DEF Right, ReceiversRight, ReceiverRight
  <2>3. CaptureRight(o.s, chr)
    BY <1>1, <1>4, CaptureKept DEF Right
  <2>4. LnbKept("probed", o.s, chr, lnbLost)
    <3>1. LnbUnused(o.s)
      BY <1>1, <1>4 DEF Right, LnbKept, LnbUnused, Wanted
    <3>2. Wanted(o.s) = {} /\ LnbRight(o.s)
      BY <3>1, WantedFinite DEF LnbUnused, LnbRight
    <3> QED BY <3>1, <3>2, <1>5, <1>6, <1>8 DEF LnbKept, LnbOff
  <2>5. FilterRight("probed", o.s, asked, suspect)
    BY <1>1, <1>4, <1>5, <1>8 DEF Right, FilterRight, FilterKnown, IsReady
  <2> QED BY <2>1, <2>2, <2>3, <2>4, <2>5, <1>1, <1>4, <1>5, <1>8 DEF Right, IsReady
<1> QED BY <1>7, <1>8

LEMMA UnplugRight == Inv /\ (Unplug \/ Disconnect) => RightNext
<1> SUFFICES ASSUME Inv, Unplug \/ Disconnect PROVE RightNext
    OBVIOUS
<1> USE DEF RightNext
<1>1. /\ Right("probed", dev, chr, asked, suspect, lnbLost) /\ attached = "probed"
      /\ chr' = chr /\ asked' = asked /\ suspect' = suspect /\ lnbLost' = lnbLost
  BY DEF Inv, Unplug, Disconnect, ghosts
<1>2. Device(dev)
  BY <1>1 DEF Right
<1>3. /\ Device(dev') /\ SameCapture(dev, dev') /\ SameLnb(dev, dev') /\ SameFilter(dev, dev')
      /\ (attached' = "probed" /\ dev'.available = dev.available) \/ attached' = "leaving"
  <2>1. CASE Unplug
    BY <1>2, <2>1 DEF Unplug, Device, DeviceFields, SameCapture, SameLnb, SameFilter
  <2>2. CASE Disconnect
    BY <1>2, <2>2 DEF Disconnect, Device, DeviceFields, SameCapture, SameLnb, SameFilter
  <2> QED BY <2>1, <2>2
<1>4. ReceiversRight(attached', chr)
  BY <1>1, <1>3 DEF Right, ReceiversRight, ReceiverRight
<1>5. CaptureRight(dev', chr)
  BY <1>1, <1>3, CaptureKept DEF Right
<1>6. LnbKept(attached', dev', chr, lnbLost)
  <2>1. LnbKept("probed", dev', chr, lnbLost)
    BY <1>1, <1>3, LnbKeptSame DEF Right
  <2> QED BY <2>1, <1>3 DEF LnbKept
<1>7. FilterRight(attached', dev', asked, suspect)
  <2>1. FilterRight("probed", dev', asked, suspect)
    BY <1>1, <1>3, FilterRightSame DEF Right
  <2> QED BY <2>1, <1>3 DEF FilterRight
<1> QED BY <1>1, <1>3, <1>4, <1>5, <1>6, <1>7 DEF Right

LEMMA ReattachRight == Inv /\ Reattach => RightNext
<1> SUFFICES ASSUME Inv, Reattach PROVE RightNext
    OBVIOUS
<1> USE DEF RightNext
<1> DEFINE c == [i \in Rx(family) |-> NewChrdev(family, i)]
           a == [i \in Rx(family) |-> Nothing]
           u == [i \in Rx(family) |-> "no"]
           level == IF dev.gone THEN [g \in Gpios |-> FALSE] ELSE dev.level
           bridge == IF dev.gone THEN "cold" ELSE dev.bridge
<1>1. attached' = "absent" /\ dev' = NewDevice(family, dev.faults, bridge, level) /\ chr' = c
      /\ asked' = a /\ suspect' = u
  BY DEF Reattach
<1>2. ReceiversRight("absent", c)
  BY NewReceivers
<1>3. DOMAIN a = Rx(family) /\ DOMAIN u = Rx(family) /\ (\A i \in Rx(family) : a[i].system = U)
  BY DEF Nothing
<1>4. dev.faults \in Nat /\ DOMAIN level = Gpios /\ (~Shared => ~level[LnbGpio])
  BY DEF Inv, Right, Device, LnbKept, Gpios, LnbGpio
<1> HIDE DEF c, a, u, level, bridge
<1> QED BY <1>1, <1>2, <1>3, <1>4, NewDeviceRight

LEMMA CardPowerRight == Inv /\ CardPower => RightNext
<1> SUFFICES ASSUME Inv, CardPower PROVE RightNext
    OBVIOUS
<1> DEFINE on == ~dev.card_powered
<1>1. PICK o \in OpCardPower(dev, on) : dev' = o.s
  BY DEF CardPower
<1>2. on \in BOOLEAN
  OBVIOUS
<1>3. Aside(dev, o.s)
  <2>1. o \in px4_device_set_card_power(dev, on) \/ o \in pxmlt_card_set_power(dev, on)
    BY DEF OpCardPower
  <2> HIDE DEF on
  <2> QED BY <2>1, <1>2, CardPowerAside
<1> QED BY <1>1, <1>3, RightAside DEF Inv, CardPower, ghosts, RightNext

(* A user's receiver is one of the board's.                                *)
LEMMA UserReceiver ==
    ASSUME Inv, NEW i \in DOMAIN load.uses PROVE i \in Rx(family)
BY WorkloadsAssumption DEF WorkloadsAssumption, Inv, family

(* One receiver's state changes.                                           *)
Captures(r) == r.streaming \/ r.pc = "tsmf"
Put(c, i, r) == [c EXCEPT ![i] = r]
(* A step of one receiver leaves the others as they were.                  *)
LEMMA ReceiverChanged ==
    ASSUME NEW c, DOMAIN c = Rx(family), NEW i \in Rx(family), NEW r, NEW k, k = Put(c, i, r)
    PROVE  /\ DOMAIN k = Rx(family) /\ k[i] = r /\ \A j \in Rx(family) \ {i} : k[j] = c[j]
           /\ Captures(r) => Capturers(k) = Capturers(c) \cup {i}
           /\ ~Captures(r) => Capturers(k) = Capturers(c) \ {i}
           /\ i \in Capturers(c) <=> Captures(c[i])
<1>1. DOMAIN k = Rx(family) /\ k[i] = r /\ \A j \in Rx(family) \ {i} : k[j] = c[j]
  BY DEF Put
<1>2. /\ Captures(r) => Capturers(k) = Capturers(c) \cup {i}
      /\ ~Captures(r) => Capturers(k) = Capturers(c) \ {i}
      /\ i \in Capturers(c) <=> Captures(c[i])
  BY <1>1 DEF Capturers, Captures
<1> QED BY <1>1, <1>2

LEMMA ReceiversKept ==
    ASSUME NEW at, NEW c, ReceiversRight(at, c), NEW i \in Rx(family), NEW r, ReceiverRight(at, r),
           NEW k, k = Put(c, i, r)
    PROVE  ReceiversRight(at, k)
BY DEF ReceiversRight, Put

(* The board is left alone in what the invariant is about, the receiver    *)
(* captures as before and stays open when it was.                          *)
LEMMA ReceiverMoved ==
    ASSUME NEW at, NEW d, NEW e, NEW c, NEW a, NEW u, NEW l, Right(at, d, c, a, u, l), Aside(d, e),
           NEW i \in Rx(family), NEW r, ReceiverRight(at, r), Captures(r) <=> Captures(c[i]),
           c[i].pc \in {"open", "tsmf"} => r.pc \in {"open", "tsmf"},
           NEW k, k = Put(c, i, r)
    PROVE  Right(at, e, k, a, u, l)
<1>1. Device(e) /\ SameCapture(d, e) /\ SameLnb(d, e) /\ SameFilter(d, e) /\ e.available = d.available
  BY DEF Right, Aside
<1>2. /\ ReceiversRight(at, k)
      /\ k[i] = r /\ (\A j \in Rx(family) \ {i} : k[j] = c[j])
      /\ Capturers(k) = Capturers(c)
  <2>1. ReceiversRight(at, c)
    BY DEF Right
  <2>2. /\ k[i] = r /\ (\A j \in Rx(family) \ {i} : k[j] = c[j])
        /\ Captures(r) => Capturers(k) = Capturers(c) \cup {i}
        /\ ~Captures(r) => Capturers(k) = Capturers(c) \ {i}
        /\ i \in Capturers(c) <=> Captures(c[i])
    BY <2>1, ReceiverChanged DEF ReceiversRight
  <2> QED BY <2>1, <2>2, ReceiversKept
<1>3. CaptureRight(e, k)
  BY <1>1, <1>2, CaptureKept DEF Right
<1>4. LnbKept(at, e, k, l)
  <2>1. \A j \in Rx(family) : c[j].pc \in {"open", "tsmf"} => k[j].pc \in {"open", "tsmf"}
    BY <1>2
  <2> QED BY <2>1, <1>1, LnbKeptSame DEF Right
<1> QED BY <1>1, <1>2, <1>3, <1>4, FilterRightSame DEF Right

(* The actions of a receiver's users.                                      *)
LEMMA OpenBeginRight ==
    ASSUME Inv, NEW i \in Rx(family), OpenBegin(i) PROVE RightNext
<1> DEFINE r == [chr[i] EXCEPT !.open = TRUE, !.pc = "opening", !.current_system = U]
<1>1. Right(attached, dev, chr, asked, suspect, lnbLost) /\ ReceiverRight(attached, chr[i]) /\ attached = "probed"
  BY DEF Inv, Right, ReceiversRight, OpenBegin
<1>2. /\ attached' = attached /\ dev' = dev /\ asked' = asked /\ suspect' = suspect /\ lnbLost' = lnbLost
      /\ chr' = Put(chr, i, r) /\ chr[i].pc = "closed"
  BY <1>1 DEF OpenBegin, ghosts, ReceiverRight, Put
<1>3. ReceiverRight(attached, r) /\ (Captures(r) <=> Captures(chr[i]))
  BY <1>1, <1>2 DEF ReceiverRight, ChrdevFields, Captures
<1> HIDE DEF r
<1>4. Right(attached, dev, chr', asked, suspect, lnbLost)
  BY <1>1, <1>2, <1>3, AsideRefl, ReceiverMoved
<1> QED BY <1>2, <1>4 DEF RightNext

LEMMA OpenBoardRight ==
    ASSUME Inv, NEW i \in Rx(family), OpenBoard(i) PROVE RightNext
<1>1. Right(attached, dev, chr, asked, suspect, lnbLost) /\ ReceiverRight(attached, chr[i])
  BY DEF Inv, Right, ReceiversRight
<1>2. PICK o \in OpOpen(dev, i) :
         /\ dev' = o.s
         /\ chr' = [chr EXCEPT ![i].pc = IF o.ret = "OK" THEN "open" ELSE "leaving"]
         /\ suspect' = [suspect EXCEPT ![i] = IF o.ret = "OK" /\ @ = "yes" THEN "reopened" ELSE @]
  BY DEF OpenBoard
<1> DEFINE r == [chr[i] EXCEPT !.pc = IF o.ret = "OK" THEN "open" ELSE "leaving"]
<1>3. /\ attached' = attached /\ asked' = asked /\ lnbLost' = lnbLost
      /\ chr' = Put(chr, i, r) /\ chr[i].pc = "opening"
  BY <1>2 DEF OpenBoard, Put
<1>4. ReceiverRight(attached, r) /\ (Captures(r) <=> Captures(chr[i]))
  BY <1>1, <1>3 DEF ReceiverRight, ChrdevFields, Captures
<1>5. Aside(dev, o.s)
  BY OpOpenAside
<1> HIDE DEF r
<1>6. Right(attached, dev', chr', asked, suspect, lnbLost)
  BY <1>1, <1>2, <1>3, <1>4, <1>5, ReceiverMoved
<1>7. FilterRight(attached, dev', asked, suspect')
  <2>1. DOMAIN suspect' = Rx(family) /\ (\A j \in Rx(family) : suspect'[j] = "no" => suspect[j] = "no")
    BY <1>1, <1>2 DEF Right, FilterRight
  <2> QED BY <1>6, <2>1 DEF Right, FilterRight
<1> QED BY <1>3, <1>6, <1>7 DEF RightNext, Right

LEMMA ReleaseEndRight ==
    ASSUME Inv, NEW i \in Rx(family), ReleaseEnd(i) PROVE RightNext
<1> DEFINE r == [chr[i] EXCEPT !.pc = "closed", !.open = FALSE]
<1>1. Right(attached, dev, chr, asked, suspect, lnbLost) /\ ReceiverRight(attached, chr[i])
  BY DEF Inv, Right, ReceiversRight
<1>2. /\ attached' = attached /\ dev' = dev /\ asked' = asked /\ suspect' = suspect /\ lnbLost' = lnbLost
      /\ chr' = Put(chr, i, r) /\ chr[i].pc = "leaving"
  BY DEF ReleaseEnd, ghosts, Put
<1>3. ReceiverRight(attached, r) /\ (Captures(r) <=> Captures(chr[i]))
  BY <1>1, <1>2 DEF ReceiverRight, ChrdevFields, Captures
<1> HIDE DEF r
<1>4. Right(attached, dev, chr', asked, suspect, lnbLost)
  BY <1>1, <1>2, <1>3, AsideRefl, ReceiverMoved
<1> QED BY <1>2, <1>4 DEF RightNext

LEMMA ParamsRight ==
    ASSUME Inv, NEW i \in Rx(family), SetSystemMode(i) \/ SetParams(i) PROVE RightNext
<1>1. Right(attached, dev, chr, asked, suspect, lnbLost) /\ ReceiverRight(attached, chr[i])
  BY DEF Inv, Right, ReceiversRight
<1>2. /\ attached' = attached /\ dev' = dev /\ asked' = asked /\ suspect' = suspect /\ lnbLost' = lnbLost
      /\ \E p : chr' = [chr EXCEPT ![i] = [chr[i] EXCEPT !.params = p]]
  <2>1. CASE SetSystemMode(i)
    <3>1. PICK m : chr' = [chr EXCEPT ![i].params.system = m]
      BY <2>1 DEF SetSystemMode
    <3>2. chr' = [chr EXCEPT ![i] = [chr[i] EXCEPT !.params = [chr[i].params EXCEPT !.system = m]]]
      BY <3>1
    <3> QED BY <2>1, <3>2 DEF SetSystemMode, ghosts
  <2>2. CASE SetParams(i)
    <3>1. PICK p : chr' = [chr EXCEPT ![i].params = p]
      BY <2>2 DEF SetParams
    <3> QED BY <2>2, <3>1 DEF SetParams, ghosts
  <2> QED BY <2>1, <2>2
<1>3. PICK p : chr' = [chr EXCEPT ![i] = [chr[i] EXCEPT !.params = p]]
  BY <1>2
<1> DEFINE r == [chr[i] EXCEPT !.params = p]
<1>4. ReceiverRight(attached, r) /\ (Captures(r) <=> Captures(chr[i])) /\ r.pc = chr[i].pc
  BY <1>1 DEF ReceiverRight, ChrdevFields, Captures
<1>5. chr' = Put(chr, i, r)
  BY <1>3 DEF Put
<1> HIDE DEF r
<1>6. Right(attached, dev, chr', asked, suspect, lnbLost)
  BY <1>1, <1>4, <1>5, AsideRefl, ReceiverMoved
<1> QED BY <1>2, <1>6 DEF RightNext

LEMMA StatusRight ==
    ASSUME Inv, NEW i \in Rx(family), GetCnr(i) \/ GetStatus(i) PROVE RightNext
<1>1. /\ attached' = attached /\ chr' = chr /\ asked' = asked /\ suspect' = suspect /\ lnbLost' = lnbLost
  BY DEF GetCnr, GetStatus, ghosts
<1>2. Aside(dev, dev')
  <2>1. CASE GetCnr(i)
    BY <2>1, OpReadCnrAside DEF GetCnr
  <2>2. CASE GetStatus(i)
    <3> DEFINE sys == chr[i].current_system
    <3>1. \A o \in OpCheckLock(dev, i, sys) : Aside(dev, o.s)
      BY OpCheckLockAside
    <3>2. \A o \in px4_chrdev_read_tmcc_partial_reception_t(dev) : Aside(dev, o.s)
      BY TcStatusAside DEF px4_chrdev_read_tmcc_partial_reception_t
    <3>3. \A o \in px4_chrdev_read_tmcc_tsid_list_s(dev, Tsids) : Aside(dev, o.s)
      BY TcStatusAside DEF px4_chrdev_read_tmcc_tsid_list_s
    <3> QED BY <2>2, <3>1, <3>2, <3>3 DEF GetStatus
  <2> QED BY <2>1, <2>2
<1> QED BY <1>1, <1>2, RightAside DEF Inv, RightNext

(* Capture of a receiver stops, or need not be stopped.                    *)
LEMMA CaptureEnds ==
    ASSUME NEW at, NEW d, NEW c, ReceiversRight(at, c), CaptureRight(d, c), Device(d),
           NEW i \in Rx(family), Captures(c[i]), NEW o \in OpSetCapture(d, i, FALSE),
           NEW r, ReceiverRight(at, r), ~Captures(r), NEW k, k = Put(c, i, r)
    PROVE  CaptureRight(o.s, k) /\ o.ret = "OK" /\ Beside(d, o.s)
<1>1. i \in Capturers(c) /\ Capturers(k) = Capturers(c) \ {i}
  BY ReceiverChanged DEF ReceiversRight
<1>2. Stopped(d, o, Shared)
  BY OpStops
<1> QED BY <1>1, <1>2, CaptureRemoved

LEMMA CaptureBegins ==
    ASSUME NEW at, NEW d, NEW c, ReceiversRight(at, c), CaptureRight(d, c), Device(d),
           NEW i \in Rx(family), ~Captures(c[i]), NEW o \in OpSetCapture(d, i, TRUE),
           NEW r, ReceiverRight(at, r), Captures(r) <=> o.ret = "OK", NEW k, k = Put(c, i, r)
    PROVE  CaptureRight(o.s, k) /\ Beside(d, o.s)
<1>1. i \notin Capturers(c) /\ (Captures(r) => Capturers(k) = Capturers(c) \cup {i})
      /\ (~Captures(r) => Capturers(k) = Capturers(c))
  <2>1. /\ Captures(r) => Capturers(k) = Capturers(c) \cup {i}
        /\ ~Captures(r) => Capturers(k) = Capturers(c) \ {i}
        /\ i \in Capturers(c) <=> Captures(c[i])
    BY ReceiverChanged DEF ReceiversRight
  <2> QED BY <2>1
<1>2. Started(d, o, Shared)
  BY OpStarts
<1>3. Beside(d, o.s) /\ (o.ret # "OK" => SameCapture(d, o.s))
  BY <1>2 DEF Started, CaptureRight
<1>4. CASE o.ret = "OK"
  BY <1>1, <1>2, <1>3, <1>4, CaptureAdded
<1>5. CASE o.ret # "OK"
  BY <1>1, <1>3, <1>5, CaptureKept
<1> QED BY <1>3, <1>4, <1>5

(* A step that switches a receiver's capture and leaves it open.           *)
LEMMA SwitchedRight ==
    ASSUME NEW at, NEW d, NEW e, NEW c, NEW a, NEW u, NEW l, Right(at, d, c, a, u, l), Beside(d, e),
           NEW i \in Rx(family), NEW r, ReceiverRight(at, r), r.pc \in {"open", "tsmf"},
           NEW k, k = Put(c, i, r), CaptureRight(e, k)
    PROVE  Right(at, e, k, a, u, l)
<1>1. Device(e) /\ SameLnb(d, e) /\ SameFilter(d, e) /\ e.available = d.available
  BY DEF Beside
<1>2. ReceiversRight(at, k) /\ (\A j \in Rx(family) : c[j].pc \in {"open", "tsmf"} => k[j].pc \in {"open", "tsmf"})
  <2>1. ReceiversRight(at, c)
    BY DEF Right
  <2>2. ReceiversRight(at, k) /\ k[i] = r /\ (\A j \in Rx(family) \ {i} : k[j] = c[j])
    <3>1. k[i] = r /\ (\A j \in Rx(family) \ {i} : k[j] = c[j])
      BY <2>1, ReceiverChanged DEF ReceiversRight
    <3> QED BY <2>1, <3>1, ReceiversKept
  <2> QED BY <2>2
<1>3. LnbKept(at, e, k, l)
  BY <1>1, <1>2, LnbKeptSame DEF Right
<1> QED BY <1>1, <1>2, <1>3, FilterRightSame DEF Right

LEMMA StartStreamingRight ==
    ASSUME Inv, NEW i \in Rx(family), StartStreaming(i) PROVE RightNext
<1>1. /\ Right(attached, dev, chr, asked, suspect, lnbLost) /\ ReceiverRight(attached, chr[i])
      /\ ReceiversRight(attached, chr) /\ CaptureRight(dev, chr) /\ Device(dev)
  BY DEF Inv, Right, ReceiversRight
<1>2. PICK o \in OpSetCapture(dev, i, TRUE) :
         dev' = o.s /\ chr' = [chr EXCEPT ![i].streaming = o.ret = "OK"]
  BY DEF StartStreaming
<1> DEFINE r == [chr[i] EXCEPT !.streaming = o.ret = "OK"]
<1>3. /\ attached' = attached /\ asked' = asked /\ suspect' = suspect /\ lnbLost' = lnbLost
      /\ chr' = Put(chr, i, r) /\ chr[i].pc = "open" /\ ~chr[i].streaming
  BY <1>2 DEF StartStreaming, Ioctl, ghosts, Put
<1>4. ReceiverRight(attached, r) /\ r.pc = "open" /\ (Captures(r) <=> o.ret = "OK") /\ ~Captures(chr[i])
  BY <1>1, <1>3 DEF ReceiverRight, ChrdevFields, Captures
<1> HIDE DEF r
<1>5. CaptureRight(o.s, chr') /\ Beside(dev, o.s)
  BY <1>1, <1>3, <1>4, CaptureBegins
<1>6. Right(attached, o.s, chr', asked, suspect, lnbLost)
  BY <1>1, <1>3, <1>4, <1>5, SwitchedRight
<1> QED BY <1>2, <1>3, <1>6 DEF RightNext

LEMMA StopStreamingRight ==
    ASSUME Inv, NEW i \in Rx(family), StopStreaming(i) PROVE RightNext
<1>1. /\ Right(attached, dev, chr, asked, suspect, lnbLost) /\ ReceiverRight(attached, chr[i])
      /\ ReceiversRight(attached, chr) /\ CaptureRight(dev, chr) /\ Device(dev)
  BY DEF Inv, Right, ReceiversRight
<1>2. PICK o \in OpSetCapture(dev, i, FALSE) :
         dev' = o.s /\ chr' = [chr EXCEPT ![i].streaming = o.ret # "OK"]
  BY DEF StopStreaming
<1> DEFINE r == [chr[i] EXCEPT !.streaming = FALSE]
<1>3. /\ attached' = attached /\ asked' = asked /\ suspect' = suspect /\ lnbLost' = lnbLost
      /\ chr[i].pc = "open" /\ chr[i].streaming
  BY DEF StopStreaming, Ioctl, ghosts
<1>4. ReceiverRight(attached, r) /\ r.pc = "open" /\ ~Captures(r) /\ Captures(chr[i])
  BY <1>1, <1>3 DEF ReceiverRight, ChrdevFields, Captures
<1>5. o.ret = "OK" => chr' = Put(chr, i, r)
  BY <1>2 DEF Put
<1> HIDE DEF r
<1>6. CaptureRight(o.s, Put(chr, i, r)) /\ o.ret = "OK" /\ Beside(dev, o.s)
  BY <1>1, <1>3, <1>4, CaptureEnds
<1>7. Right(attached, o.s, chr', asked, suspect, lnbLost)
  BY <1>1, <1>4, <1>5, <1>6, SwitchedRight
<1> QED BY <1>2, <1>3, <1>7 DEF RightNext

LEMMA WaitTsmfEndRight ==
    ASSUME Inv, NEW i \in Rx(family), WaitTsmfEnd(i) PROVE RightNext
<1>1. /\ Right(attached, dev, chr, asked, suspect, lnbLost) /\ ReceiverRight(attached, chr[i])
      /\ ReceiversRight(attached, chr) /\ CaptureRight(dev, chr) /\ Device(dev)
  BY DEF Inv, Right, ReceiversRight
<1> DEFINE r == [chr[i] EXCEPT !.pc = "open"]
<1>2. /\ attached' = attached /\ asked' = asked /\ suspect' = suspect /\ lnbLost' = lnbLost
      /\ chr' = Put(chr, i, r) /\ chr[i].pc = "tsmf"
  BY DEF WaitTsmfEnd, ghosts, Put
<1>3. ReceiverRight(attached, r) /\ r.pc = "open" /\ Captures(chr[i]) /\ (Captures(r) <=> chr[i].streaming)
  BY <1>1, <1>2 DEF ReceiverRight, ChrdevFields, Captures
<1> HIDE DEF r
<1>4. CASE chr[i].streaming
  <2>1. dev' = dev
    BY <1>4 DEF WaitTsmfEnd
  <2>2. Right(attached, dev, chr', asked, suspect, lnbLost)
    BY <1>1, <1>2, <1>3, <1>4, AsideRefl, ReceiverMoved
  <2> QED BY <1>2, <2>1, <2>2 DEF RightNext
<1>5. CASE ~chr[i].streaming
  <2>1. PICK o \in OpSetCapture(dev, i, FALSE) : dev' = o.s
    BY <1>5 DEF WaitTsmfEnd
  <2>2. CaptureRight(o.s, chr') /\ Beside(dev, o.s)
    BY <1>1, <1>2, <1>3, <1>5, CaptureEnds
  <2>3. Right(attached, o.s, chr', asked, suspect, lnbLost)
    BY <1>1, <1>2, <1>3, <2>2, SwitchedRight
  <2> QED BY <1>2, <2>1, <2>3 DEF RightNext
<1> QED BY <1>4, <1>5

LEMMA LnbPowerRight ==
    ASSUME Inv, NEW i \in Rx(family), LnbPower(i) PROVE RightNext
<1>1. /\ Right(attached, dev, chr, asked, suspect, lnbLost) /\ Device(dev)
      /\ attached = "probed" /\ dev.available /\ chr[i].pc = "open" /\ Shared
  BY DEF Inv, Right, LnbPower, Ioctl, HasLnb, Shared
<1>2. PICK v \in {0, 11, 15} : \E o \in SetLnb(dev, i, v) :
         dev' = o.s /\ lnbLost' = (lnbLost \/ o.ret = "EIO")
  BY DEF LnbPower
<1>3. PICK o \in SetLnb(dev, i, v) : dev' = o.s /\ lnbLost' = (lnbLost \/ o.ret = "EIO")
  BY <1>2
<1>4. attached' = attached /\ chr' = chr /\ asked' = asked /\ suspect' = suspect
  BY DEF LnbPower, ghosts
<1>5. /\ dev.gpio[LnbGpio].mode = "OUT" /\ LnbRight(dev)
      /\ Wanted(dev) = {} /\ dev.level[LnbGpio] => lnbLost
      /\ \A j \in Wanted(dev) : chr[j].pc \in {"open", "tsmf"}
  BY <1>1 DEF Right, LnbKept
<1>6. AroundLnb(dev, o.s)
  BY <1>1, SetLnbRight
<1>7. /\ LnbRight(o.s) /\ Wanted(o.s) \subseteq Wanted(dev) \cup {i}
      /\ Wanted(o.s) = {} /\ o.s.level[LnbGpio] =>
            o.ret = "EIO" \/ (Wanted(dev) = {} /\ dev.level[LnbGpio])
  BY <1>1, <1>5, SetLnbRight
<1>8. LnbKept("probed", o.s, chr, lnbLost')
  BY <1>1, <1>3, <1>5, <1>6, <1>7 DEF LnbKept, AroundLnb
<1>9. CaptureRight(o.s, chr) /\ FilterRight("probed", o.s, asked, suspect)
  BY <1>1, <1>6, CaptureKept, FilterRightSame DEF Right, AroundLnb
<1> QED BY <1>1, <1>3, <1>4, <1>6, <1>8, <1>9 DEF RightNext, Right, AroundLnb

-----------------------------------------------------------------------------
(* Tuning.                                                                 *)

(* The receiver's own record keeps what the invariant reads of it.         *)
SameReceiver(r, q) ==
    /\ DOMAIN q = ChrdevFields
    /\ q.pc = r.pc /\ q.open = r.open /\ q.streaming = r.streaming

(* The board's part of a tune, its stream id included.                     *)
LEMMA TuningTunes ==
    ASSUME NEW i \in Rx(family), NEW p, NEW system, DOMAIN chr[i] = ChrdevFields,
           NEW b \in Tuning(i, p, system)
    PROVE  /\ DOMAIN b = {"ret", "s", "c", "tuned"}
           /\ Tunes(dev, b.s, i)
           /\ SameReceiver(chr[i], b.c)
           /\ b.tuned /\ family = "mlt" /\ Device(dev) => b.s.nullOff[i] = (p.system = "C")
<1> DEFINE c0 == PrepareTsmf(chr[i], p)
           Before == IF SetStreamIdBeforeTune /\ p.system = "S"
                     THEN OpSetStreamId(dev, i, p.system, p.stream_id) ELSE Return("OK", dev)
           Board == UNION {OpTune(o.s, i, p) : o \in {x \in Before : x.ret = "OK"}}
           restored == [c0 EXCEPT !.params.system = system]
           done == [restored EXCEPT !.current_system = p.system]
           Id(u) == IF p.system = "S" /\ ~SetStreamIdBeforeTune
                    THEN OpSetStreamId(u, i, p.system, p.stream_id) ELSE Return("OK", u)
           After(t) == Then(WaitLock(t, i, p.system), LAMBDA u : Id(u))
           NotTuned(o, c) == [ret |-> o.ret, s |-> o.s, c |-> c, tuned |-> FALSE]
           Tuned(o, c) == [ret |-> o.ret, s |-> o.s, c |-> c, tuned |-> TRUE]
<1>1. Tuning(i, p, system) =
        {NotTuned(o, c0) : o \in {x \in Before : x.ret # "OK"}}
        \cup {NotTuned(o, restored) : o \in {x \in Board : x.ret # "OK"}}
        \cup UNION {{Tuned(o, done) : o \in After(b0.s)} : b0 \in {x \in Board : x.ret = "OK"}}
  BY DEF Tuning, Outcome
<1>2. SameReceiver(chr[i], c0) /\ SameReceiver(chr[i], restored) /\ SameReceiver(chr[i], done)
  BY DEF SameReceiver, PrepareTsmf, ChrdevFields
<1>3. \A o \in Before : Aside(dev, o.s)
  BY OpSetStreamIdAside, AsideRefl DEF Return, Out
<1>4. ASSUME NEW u PROVE \A o \in Id(u) : Aside(u, o.s)
  BY OpSetStreamIdAside, AsideRefl DEF Return, Out
<1>5. ASSUME NEW t PROVE \A o \in After(t) : Aside(t, o.s)
  <2> HIDE DEF Id
  <2>1. \A o \in WaitLock(t, i, p.system) : Aside(t, o.s)
    BY OpCheckLockAside DEF WaitLock, Out
  <2> QED BY <2>1, <1>4, AsideTrans DEF Then
<1>6. ASSUME NEW x \in Board
      PROVE  /\ Tunes(dev, x.s, i)
             /\ x.ret = "OK" /\ family = "mlt" /\ Device(dev) => x.s.nullOff[i] = (p.system = "C")
  <2> HIDE DEF Before
  <2>1. PICK o \in Before : x \in OpTune(o.s, i, p)
    OBVIOUS
  <2>2. Aside(dev, o.s) /\ (Device(dev) => Device(o.s))
    BY <1>3 DEF Aside
  <2>3. Tunes(o.s, x.s, i) /\ (family = "mlt" /\ Device(o.s) /\ x.ret = "OK" => x.s.nullOff[i] = (p.system = "C"))
    BY <2>1, OpTuneTunes
  <2>4. Tunes(dev, x.s, i)
    BY <2>2, <2>3, AsideTunes, TunesTrans
  <2> QED BY <2>2, <2>3, <2>4
<1> HIDE DEF Before, Board, After, c0, restored, done
<1>7. CASE b \in {NotTuned(o, c0) : o \in {x \in Before : x.ret # "OK"}}
  <2>1. PICK o \in Before : b.s = o.s /\ b.c = c0 /\ ~b.tuned /\ DOMAIN b = {"ret", "s", "c", "tuned"}
    BY <1>7
  <2> QED BY <2>1, <1>2, <1>3, AsideTunes
<1>8. CASE b \in {NotTuned(o, restored) : o \in {x \in Board : x.ret # "OK"}}
  <2>1. PICK o \in Board : b.s = o.s /\ b.c = restored /\ ~b.tuned /\ DOMAIN b = {"ret", "s", "c", "tuned"}
    BY <1>8
  <2> QED BY <2>1, <1>2, <1>6
<1>9. CASE b \in UNION {{Tuned(o, done) : o \in After(b0.s)} : b0 \in {x \in Board : x.ret = "OK"}}
  <2>1. PICK x \in Board : x.ret = "OK" /\ b \in {Tuned(o, done) : o \in After(x.s)}
    BY <1>9
  <2>2. PICK o \in After(x.s) : b.s = o.s /\ b.c = done /\ DOMAIN b = {"ret", "s", "c", "tuned"}
    BY <2>1
  <2>3. Aside(x.s, b.s)
    BY <1>5, <2>2
  <2>4. Tunes(dev, b.s, i)
    BY <2>3, <1>6, AsideTunes, TunesTrans
  <2>5. family = "mlt" /\ Device(dev) => b.s.nullOff[i] = (p.system = "C")
    BY <2>1, <2>3, <1>6 DEF Tunes, Aside, SameFilter
  <2> QED BY <2>2, <2>4, <2>5, <1>2
<1> QED BY <1>1, <1>7, <1>8, <1>9

(* What a tune leaves of the invariant, before the wait for a TSMF header. *)
LEMMA TunedRight ==
    ASSUME NEW d, NEW e, NEW c, NEW a, NEW u, NEW l, Right("probed", d, c, a, u, l),
           NEW i \in Rx(family), Tunes(d, e, i),
           NEW q, SameReceiver(c[i], q), NEW k, k = Put(c, i, q),
           NEW x, x.system # U /\ family = "mlt" => (e.nullOff[i] <=> x.system = "C"),
           NEW w, w = "no" => u[i] = "no" /\ e.faults = d.faults /\ ~d.gone
    PROVE  Right("probed", e, k, [a EXCEPT ![i] = x], [u EXCEPT ![i] = w], l)
<1>1. /\ Device(d) /\ Device(e) /\ SameCapture(d, e) /\ SameLnb(d, e) /\ e.available = d.available
      /\ FilterOnlyAt(d, e, i)
      /\ e.faults = d.faults /\ ~d.gone /\ FilterKnown(d, i) => FilterKnown(e, i)
  BY DEF Right, Tunes
<1>2. ReceiverRight("probed", q) /\ (Captures(q) <=> Captures(c[i])) /\ q.pc = c[i].pc
  BY DEF Right, ReceiversRight, ReceiverRight, SameReceiver, Captures
<1>3. ReceiversRight("probed", c) /\ DOMAIN c = Rx(family)
  BY DEF Right, ReceiversRight
<1>4. ReceiversRight("probed", k)
  BY <1>2, <1>3, ReceiversKept
<1>5. /\ k[i] = q /\ (\A j \in Rx(family) \ {i} : k[j] = c[j])
      /\ Capturers(k) = Capturers(c)
  <2>1. /\ k[i] = q /\ (\A j \in Rx(family) \ {i} : k[j] = c[j])
        /\ Captures(q) => Capturers(k) = Capturers(c) \cup {i}
        /\ ~Captures(q) => Capturers(k) = Capturers(c) \ {i}
        /\ i \in Capturers(c) <=> Captures(c[i])
    BY <1>3, ReceiverChanged
  <2> QED BY <2>1, <1>2
<1>6. CaptureRight(e, k)
  BY <1>1, <1>5, CaptureKept DEF Right
<1>7. LnbKept("probed", e, k, l)
  BY <1>1, <1>2, <1>5, LnbKeptSame DEF Right
<1>8. FilterRight("probed", e, [a EXCEPT ![i] = x], [u EXCEPT ![i] = w])
  <2>1. FilterRight("probed", d, a, u)
    BY DEF Right
  <2>2. ASSUME NEW j \in Rx(family), j # i PROVE FilterKnown(d, j) => FilterKnown(e, j)
    BY <1>1, <2>2 DEF FilterOnlyAt, FilterKnown
  <2>3. \A j \in Rx(family) : j # i => e.nullOff[j] = d.nullOff[j]
    BY <1>1 DEF FilterOnlyAt
  <2> QED BY <1>1, <2>1, <2>2, <2>3 DEF FilterRight
<1> QED BY <1>1, <1>4, <1>6, <1>7, <1>8 DEF Right

(* A tune, up to where it returns or begins to look for a TSMF header.     *)
LEMMA TuneRight ==
    ASSUME Inv, NEW i \in Rx(family), attached = "probed", chr[i].pc = "open",
           NEW p, NEW system, NEW khz, ptx_chrdev_tune(i, p, system, khz)
    PROVE  RightNext
<1> DEFINE X(b) == IF b.tuned THEN [system |-> p.system, khz |-> khz,
                                    id |-> IF b.ret = "OK" THEN p.stream_id ELSE NoId]
                   ELSE Nothing
           W(b) == IF b.s.faults < dev.faults \/ dev.gone THEN "yes" ELSE suspect[i]
<1>1. PICK b \in Tuning(i, p, system) : \E o \in BeginWaitTsmf(i, b) :
         /\ dev' = o.s /\ chr' = [chr EXCEPT ![i] = o.c]
         /\ asked' = [asked EXCEPT ![i] = X(b)]
         /\ suspect' = [suspect EXCEPT ![i] = W(b)]
  BY DEF ptx_chrdev_tune
<1>2. PICK o \in BeginWaitTsmf(i, b) :
         /\ dev' = o.s /\ chr' = Put(chr, i, o.c)
         /\ asked' = [asked EXCEPT ![i] = X(b)]
         /\ suspect' = [suspect EXCEPT ![i] = W(b)]
  BY <1>1 DEF Put
<1>3. attached' = "probed" /\ lnbLost' = lnbLost
  BY DEF ptx_chrdev_tune
<1>4. /\ Right("probed", dev, chr, asked, suspect, lnbLost) /\ Device(dev)
      /\ ReceiverRight("probed", chr[i]) /\ DOMAIN chr = Rx(family) /\ DOMAIN chr[i] = ChrdevFields
  BY DEF Inv, Right, ReceiversRight, ReceiverRight
<1>5. /\ Tunes(dev, b.s, i) /\ SameReceiver(chr[i], b.c)
      /\ b.tuned /\ family = "mlt" => b.s.nullOff[i] = (p.system = "C")
  BY <1>4, TuningTunes
<1> DEFINE x == X(b)
           w == W(b)
           k == Put(chr, i, b.c)
           a == [asked EXCEPT ![i] = x]
           u == [suspect EXCEPT ![i] = w]
<1>6. x.system # U /\ family = "mlt" => (b.s.nullOff[i] <=> x.system = "C")
  BY <1>5 DEF Nothing
<1>7. w = "no" => suspect[i] = "no" /\ b.s.faults = dev.faults /\ ~dev.gone
  <2>1. b.s.faults \in Nat /\ dev.faults \in Nat /\ b.s.faults <= dev.faults
    BY <1>4, <1>5 DEF Tunes, Device
  <2> QED BY <2>1
<1> HIDE DEF x, w
<1>8. Right("probed", b.s, k, a, u, lnbLost)
  BY <1>4, <1>5, <1>6, <1>7, TunedRight
<1>9. asked' = a /\ suspect' = u
  BY <1>2 DEF x, w
<1> HIDE DEF a, u, X, W
<1>10. /\ ReceiverRight("probed", b.c) /\ k[i] = b.c /\ b.c.pc = "open"
       /\ ReceiversRight("probed", k) /\ CaptureRight(b.s, k) /\ Device(b.s)
  <2>1. ReceiversRight("probed", k) /\ CaptureRight(b.s, k) /\ Device(b.s)
    BY <1>8 DEF Right
  <2>2. k[i] = b.c
    BY <1>4 DEF Put
  <2> QED BY <2>1, <2>2, <1>5 DEF ReceiversRight, SameReceiver
<1> DEFINE waiting == [b.c EXCEPT !.pc = "tsmf"]
<1>11. /\ ReceiverRight("probed", waiting) /\ Captures(waiting) /\ waiting.pc = "tsmf"
  BY <1>10 DEF ReceiverRight, Captures, ChrdevFields
<1>12. ASSUME NEW q PROVE Put(chr, i, q) = Put(k, i, q)
  BY <1>4 DEF Put
<1>13. BeginWaitTsmf(i, b) =
          IF b.ret # "OK" \/ ~b.c.tsmf_active THEN {b}
          ELSE IF b.c.streaming THEN {[b EXCEPT !.c = waiting]}
          ELSE {Outcome(y, IF y.ret = "OK" THEN waiting ELSE b.c, TRUE) : y \in OpSetCapture(b.s, i, TRUE)}
  BY DEF BeginWaitTsmf
<1>14. DOMAIN b = {"ret", "s", "c", "tuned"}
  BY <1>4, TuningTunes
<1> HIDE DEF waiting, k
<1>15. CASE o = b
  BY <1>2, <1>3, <1>8, <1>9, <1>15 DEF RightNext, k
<1>16. CASE b.c.streaming /\ o = [b EXCEPT !.c = waiting]
  <2>1. o.s = b.s /\ o.c = waiting
    BY <1>14, <1>16
  <2>2. Captures(k[i]) /\ Captures(waiting)
    BY <1>10, <1>11, <1>16 DEF Captures
  <2>3. chr' = Put(k, i, waiting)
    BY <1>2, <2>1, <1>12
  <2>4. Right("probed", b.s, chr', a, u, lnbLost)
    BY <1>8, <1>11, <2>2, <2>3, AsideRefl, ReceiverMoved
  <2> QED BY <1>2, <1>3, <1>9, <2>1, <2>4 DEF RightNext
<1>17. CASE /\ ~b.c.streaming
            /\ o \in {Outcome(y, IF y.ret = "OK" THEN waiting ELSE b.c, TRUE) : y \in OpSetCapture(b.s, i, TRUE)}
  <2>1. PICK y \in OpSetCapture(b.s, i, TRUE) : o = Outcome(y, IF y.ret = "OK" THEN waiting ELSE b.c, TRUE)
    BY <1>17
  <2> DEFINE q == IF y.ret = "OK" THEN waiting ELSE b.c
  <2>2. o.s = y.s /\ o.c = q
    BY <2>1 DEF Outcome
  <2>3. ReceiverRight("probed", q) /\ (Captures(q) <=> y.ret = "OK") /\ q.pc \in {"open", "tsmf"} /\ ~Captures(k[i])
    BY <1>10, <1>11, <1>17 DEF Captures
  <2>4. chr' = Put(k, i, q)
    BY <1>2, <2>2, <1>12
  <2> HIDE DEF q
  <2>5. CaptureRight(y.s, chr') /\ Beside(b.s, y.s)
    BY <1>10, <2>3, <2>4, CaptureBegins
  <2>6. Right("probed", y.s, chr', a, u, lnbLost)
    BY <1>8, <2>3, <2>4, <2>5, SwitchedRight
  <2> QED BY <1>2, <1>3, <1>9, <2>2, <2>6 DEF RightNext
<1> QED BY <1>13, <1>15, <1>16, <1>17

LEMMA TuneIoctlsRight ==
    ASSUME Inv, NEW i \in Rx(family), SetChannel(i) \/ TuneParams(i) PROVE RightNext
<1>1. attached = "probed" /\ chr[i].pc = "open"
  BY DEF SetChannel, TuneParams, Ioctl
<1>2. \E p, system, khz : ptx_chrdev_tune(i, p, system, khz)
  BY DEF SetChannel, TuneParams
<1> QED BY <1>1, <1>2, TuneRight

-----------------------------------------------------------------------------
(* Release.                                                                *)

(* The last close stops what still captures and then releases the          *)
(* receiver.                                                               *)
LEMMA ReleaseBoardRight ==
    ASSUME Inv, NEW i \in Rx(family), ReleaseBoard(i) PROVE RightNext
<1>1. PICK s \in IF chr[i].streaming THEN {o.s : o \in OpSetCapture(dev, i, FALSE)} ELSE {dev} :
         \E o \in OpRelease(s, i) : dev' = o.s /\ lnbLost' = (lnbLost \/ LnbWriteFailed(dev, o.s))
  BY DEF ReleaseBoard
<1>2. PICK o \in OpRelease(s, i) : dev' = o.s /\ lnbLost' = (lnbLost \/ LnbWriteFailed(dev, o.s))
  BY <1>1
<1> DEFINE q == [chr[i].params EXCEPT !.system = IF @ \in CableSystems THEN U ELSE @]
           r == [chr[i] EXCEPT !.pc = "leaving", !.streaming = FALSE, !.params = q]
<1>3. /\ attached' = attached /\ suspect' = suspect /\ asked' = [asked EXCEPT ![i] = Nothing]
      /\ chr' = Put(chr, i, r) /\ chr[i].pc = "open"
  BY DEF ReleaseBoard, Put
<1>4. /\ Right(attached, dev, chr, asked, suspect, lnbLost) /\ Device(dev)
      /\ ReceiversRight(attached, chr) /\ ReceiverRight(attached, chr[i]) /\ CaptureRight(dev, chr)
      /\ LnbKept(attached, dev, chr, lnbLost) /\ FilterRight(attached, dev, asked, suspect)
  BY DEF Inv, Right, ReceiversRight
<1>5. /\ ReceiverRight(attached, r) /\ ~Captures(r) /\ r.pc = "leaving" /\ attached # "absent"
      /\ Captures(chr[i]) <=> chr[i].streaming
  BY <1>3, <1>4 DEF ReceiverRight, ChrdevFields, Captures
<1> HIDE DEF q, r
<1>6. ReceiversRight(attached, chr') /\ (\A j \in Rx(family) \ {i} : chr'[j] = chr[j])
  <2>1. \A j \in Rx(family) \ {i} : chr'[j] = chr[j]
    BY <1>3, <1>4, ReceiverChanged DEF ReceiversRight
  <2> QED BY <2>1, <1>3, <1>4, <1>5, ReceiversKept
<1>7. CaptureRight(s, chr') /\ Beside(dev, s)
  <2>1. CASE chr[i].streaming
    <3>1. PICK y \in OpSetCapture(dev, i, FALSE) : s = y.s
      BY <1>1, <2>1
    <3> QED BY <3>1, <2>1, <1>3, <1>4, <1>5, CaptureEnds
  <2>2. CASE ~chr[i].streaming
    <3>1. s = dev
      BY <1>1, <2>2
    <3>2. Capturers(chr') = Capturers(chr)
      <4>1. /\ ~Captures(r) => Capturers(chr') = Capturers(chr) \ {i}
            /\ i \in Capturers(chr) <=> Captures(chr[i])
        BY <1>3, <1>4, ReceiverChanged DEF ReceiversRight
      <4> QED BY <4>1, <1>5, <2>2
    <3>3. Aside(dev, s) /\ SameCapture(dev, s)
      BY <3>1, AsideRefl DEF SameCapture
    <3> QED BY <3>2, <3>3, <1>4, CaptureKept, AsideBeside
  <2> QED BY <2>1, <2>2
<1>8. Device(s) /\ SameLnb(dev, s) /\ SameFilter(dev, s) /\ s.available = dev.available
  BY <1>7 DEF Beside
<1>9. CASE ~Shared
  <2>1. Aside(s, o.s)
    BY <1>9, OpReleaseAside
  <2>2. Device(o.s) /\ SameCapture(s, o.s) /\ SameLnb(s, o.s) /\ SameFilter(s, o.s) /\ o.s.available = s.available
    BY <1>8, <2>1 DEF Aside
  <2>3. CaptureRight(o.s, chr')
    BY <1>7, <2>2, CaptureKept
  <2>4. LnbKept(attached, o.s, chr', lnbLost')
    <3>1. LnbUnused(dev) /\ ~dev.level[LnbGpio]
      BY <1>4, <1>9 DEF LnbKept
    <3>2. LnbUnused(o.s) /\ ~o.s.level[LnbGpio]
      BY <3>1, <1>8, <2>2 DEF LnbUnused, Wanted, SameLnb
    <3> QED BY <3>2, <1>9 DEF LnbKept
  <2>5. FilterRight(attached, o.s, asked', suspect)
    <3>1. FilterRight(attached, o.s, asked, suspect)
      BY <1>4, <1>8, <2>2, FilterRightSame
    <3> QED BY <3>1, <1>3, <1>5 DEF FilterRight, Nothing
  <2> QED BY <1>2, <1>3, <1>4, <1>6, <1>8, <2>2, <2>3, <2>4, <2>5 DEF RightNext, Right
<1>10. CASE Shared
  <2>1. PICK p \in SetLnb(s, i, 0) : Aside(p.s, o.s)
    BY <1>10, OpReleaseAside
  <2> DEFINE zero == 0
  <2>2. zero \in {0, 11, 15} /\ p \in SetLnb(s, i, zero) /\ zero = 0
    OBVIOUS
  <2> HIDE DEF zero
  <2>3. AroundLnb(s, p.s)
    BY <1>8, <2>2, SetLnbRight
  <2>4. /\ Device(p.s) /\ Device(o.s) /\ SameCapture(s, o.s) /\ SameFilter(s, o.s)
        /\ SameLnb(p.s, o.s) /\ o.s.available = s.available /\ o.s.gpio = s.gpio
    BY <2>1, <2>3 DEF AroundLnb, Aside, SameCapture, SameFilter, SameLnb
  <2>5. CaptureRight(o.s, chr')
    BY <1>7, <2>4, CaptureKept
  <2>6. FilterRight(attached, o.s, asked', suspect)
    <3>1. FilterRight(attached, o.s, asked, suspect)
      BY <1>4, <1>8, <2>4, FilterRightSame
    <3> QED BY <3>1, <1>3, <1>5 DEF FilterRight, Nothing
  <2>7. LnbKept(attached, o.s, chr', lnbLost')
    <3> SUFFICES ASSUME attached = "probed" PROVE LnbKept(attached, o.s, chr', lnbLost')
        BY <1>5, <1>10 DEF LnbKept
    <3>1. /\ dev.gpio[LnbGpio].mode = "OUT" /\ LnbRight(dev) /\ dev.available
          /\ Wanted(dev) = {} /\ dev.level[LnbGpio] => lnbLost
          /\ \A j \in Wanted(dev) : chr[j].pc \in {"open", "tsmf"}
      BY <1>4, <1>10 DEF Right, LnbKept
    <3>2. Wanted(s) = Wanted(dev) /\ LnbRight(s) /\ s.gpio[LnbGpio].mode = "OUT" /\ s.available
      BY <3>1, <1>8 DEF Wanted, LnbRight, SameLnb
    <3>3. /\ LnbRight(p.s) /\ Wanted(p.s) \subseteq Wanted(s) \cup {i} /\ i \notin Wanted(p.s)
          /\ Wanted(s) = {} => p.s = s
      BY <2>2, <3>2, <1>8, SetLnbRight
    <3>4. Wanted(o.s) = Wanted(p.s) /\ LnbRight(o.s)
      BY <2>4, <3>3 DEF Wanted, LnbRight, SameLnb
    <3>5. \A j \in Wanted(o.s) : chr'[j].pc \in {"open", "tsmf"}
      <4>1. \A j \in Wanted(o.s) : j \in Wanted(dev) /\ j # i /\ j \in Rx(family)
        BY <3>2, <3>3, <3>4 DEF Wanted
      <4> QED BY <4>1, <3>1, <1>6
    <3>6. ASSUME Wanted(o.s) = {}, o.s.level[LnbGpio] PROVE lnbLost'
      <4>1. CASE Wanted(dev) = {}
        <5>1. dev.level[LnbGpio]
          BY <3>2, <3>3, <3>6, <4>1, <2>4, <1>8 DEF SameLnb
        <5> QED BY <5>1, <4>1, <3>1, <1>2
      <4>2. CASE Wanted(dev) # {}
        <5>1. dev.lnb_power_count > 0
          BY <4>2, <3>1, WantedFinite DEF LnbRight
        <5>2. o.s.lnb_power_count = 0
          BY <3>4, <3>6, WantedFinite DEF LnbRight
        <5> QED BY <5>1, <5>2, <3>6, <1>2 DEF LnbWriteFailed
      <4> QED BY <4>1, <4>2
    <3>7. o.s.gpio[LnbGpio].mode = "OUT"
      BY <2>4, <3>2
    <3> QED BY <3>4, <3>5, <3>6, <3>7, <1>10 DEF LnbKept
  <2> QED BY <1>2, <1>3, <1>4, <1>6, <1>8, <2>4, <2>5, <2>6, <2>7 DEF RightNext, Right
<1> QED BY <1>9, <1>10

-----------------------------------------------------------------------------
(* The invariant, and what it says.                                        *)

(* Every step keeps the invariant.                                         *)
LEMMA NextRight == Inv /\ Next => RightNext
<1> SUFFICES ASSUME Inv, Next PROVE RightNext
    OBVIOUS
<1>1. CASE Probe \/ Unplug \/ Disconnect \/ Reattach \/ CardPower
  BY <1>1, ProbeRight, UnplugRight, ReattachRight, CardPowerRight
<1>2. ASSUME NEW i \in DOMAIN load.uses,
             \/ OpenBegin(i) \/ OpenBoard(i) \/ ReleaseBoard(i) \/ ReleaseEnd(i)
             \/ SetChannel(i) \/ SetSystemMode(i) \/ SetParams(i) \/ TuneParams(i)
             \/ WaitTsmfEnd(i) \/ StartStreaming(i) \/ StopStreaming(i)
             \/ LnbPower(i) \/ GetCnr(i) \/ GetStatus(i)
      PROVE  RightNext
  <2>1. i \in Rx(family)
    BY UserReceiver
  <2> QED BY <2>1, <1>2, OpenBeginRight, OpenBoardRight, ReleaseBoardRight, ReleaseEndRight,
             TuneIoctlsRight, ParamsRight, WaitTsmfEndRight, StartStreamingRight, StopStreamingRight,
             LnbPowerRight, StatusRight
<1> QED BY <1>1, <1>2 DEF Next

(* The workload is what it was.                                            *)
LEMMA LoadKept == Next => load' = load
<1> SUFFICES ASSUME Next PROVE load' = load
    OBVIOUS
<1>1. CASE Probe \/ Unplug \/ Disconnect \/ Reattach \/ CardPower
  BY <1>1 DEF Probe, Unplug, Disconnect, Reattach, CardPower
<1>2. ASSUME NEW i, SetChannel(i) \/ TuneParams(i) PROVE load' = load
  BY <1>2 DEF SetChannel, TuneParams, ptx_chrdev_tune
<1>3. ASSUME NEW i, OpenBegin(i) \/ OpenBoard(i) \/ ReleaseBoard(i) \/ ReleaseEnd(i) PROVE load' = load
  BY <1>3 DEF OpenBegin, OpenBoard, ReleaseBoard, ReleaseEnd
<1>4. ASSUME NEW i, \/ SetSystemMode(i) \/ SetParams(i) \/ WaitTsmfEnd(i) \/ StartStreaming(i)
                    \/ StopStreaming(i) \/ LnbPower(i) \/ GetCnr(i) \/ GetStatus(i)
      PROVE  load' = load
  BY <1>4 DEF SetSystemMode, SetParams, WaitTsmfEnd, StartStreaming, StopStreaming, LnbPower,
              GetCnr, GetStatus
<1> QED BY <1>1, <1>2, <1>3, <1>4 DEF Next

LEMMA InvInductive == Inv /\ [Next]_vars => Inv'
<1> SUFFICES ASSUME Inv, [Next]_vars PROVE Inv'
    OBVIOUS
<1>1. CASE Next
  <2>1. load' = load
    BY <1>1, LoadKept
  <2>2. RightNext
    BY <1>1, NextRight
  <2>3. family' = family /\ (Shared' <=> Shared)
    BY <2>1 DEF family, Shared
  <2>4. Right(attached, dev, chr, asked, suspect, lnbLost)'
    BY <2>2, <2>3 DEF RightNext, Right, Device, ReceiversRight, CaptureRight, Capturers, LnbKept,
       LnbUnused, Wanted, LnbRight, FilterRight
  <2> QED BY <2>1, <2>4 DEF Inv
<1>2. CASE UNCHANGED vars
  <2>1. family' = family /\ (Shared' <=> Shared)
    BY <1>2 DEF family, Shared, vars
  <2> QED BY <1>2, <2>1 DEF vars, Inv, Right, Device, ReceiversRight, CaptureRight, Capturers, LnbKept,
       LnbUnused, Wanted, LnbRight, FilterRight
<1> QED BY <1>1, <1>2

(* The inductive invariant holds in every state of every behaviour.        *)
THEOREM InvHolds == Spec => []Inv
BY InitRight, InvInductive, PTL DEF Spec

(* Reception of the bridge (itedtv_bus_start_streaming,                    *)
(* itedtv_bus_stop_streaming) runs exactly while a receiver captures, and  *)
(* the streaming_count of a board with several receivers is the number of  *)
(* those that do: over failed starts, stops on a board that has gone, the  *)
(* capture that a TSMF tune starts and ends itself, and a close that comes *)
(* in between.                                                             *)
THEOREM CaptureIsExact == Spec => []CaptureExact
<1>1. Inv => CaptureExact
  <2> SUFFICES ASSUME Inv PROVE CaptureExact
      OBVIOUS
  <2>1. Capturers(chr) = {i \in Rx(family) : Capturing(i)}
    BY DEF Capturers, Capturing
  <2> QED BY <2>1 DEF Inv, Right, CaptureRight, Shared, CaptureExact
<1> QED BY <1>1, InvHolds, PTL

(* The lnb_power_count of a board is the number of open receivers that     *)
(* asked for the LNB, the pin is up while there is one, and it is down     *)
(* when there is none unless a write of the pin failed, whichever order    *)
(* the receivers ask, give up, close and fail in.                          *)
THEOREM LnbIsExact == Spec => []LnbExact
<1>1. Inv => LnbExact
  <2> SUFFICES ASSUME Inv, attached = "probed"
               PROVE  /\ dev.lnb_power_count = Cardinality(Wanted(dev))
                      /\ Wanted(dev) # {} => dev.level[LnbGpio]
                      /\ Wanted(dev) = {} /\ dev.level[LnbGpio] => lnbLost
                      /\ \A i \in Wanted(dev) : chr[i].pc \in {"open", "tsmf"}
      BY DEF LnbExact, Wanted
  <2>1. CASE Shared
    BY <2>1 DEF Inv, Right, LnbKept, LnbRight
  <2>2. CASE ~Shared
    BY <2>2, WantedFinite DEF Inv, Right, LnbKept, LnbUnused
  <2> QED BY <2>1, <2>2
<1> QED BY <1>1, InvHolds, PTL

(* After a tune of a PX-MLT receiver that met no failure, the bridge lets  *)
(* null packets through for ISDB-C and for nothing else: the note the      *)
(* driver keeps of the filter (and the write it saves by it) is never      *)
(* wrong for a receiver whose tunes were not cut short.                    *)
THEOREM NullFilterIsRight == Spec => []NullFilterRight
<1>1. Inv => NullFilterRight
  <2> SUFFICES ASSUME Inv, family = "mlt", NEW i \in Rx(family), asked[i].system # U, suspect[i] = "no"
               PROVE  dev.filter[i] = IF asked[i].system = "C" THEN "pass" ELSE "block"
      BY DEF NullFilterRight
  <2>1. attached # "absent" /\ FilterKnown(dev, i) /\ (dev.nullOff[i] <=> asked[i].system = "C")
    BY DEF Inv, Right, FilterRight
  <2> QED BY <2>1 DEF FilterKnown
<1> QED BY <1>1, InvHolds, PTL

-----------------------------------------------------------------------------
(* What the cable systems leave in a demodulator.                          *)

(* A board whose chips have the registers that the cable systems set.      *)
ChipBoard(s) == Device(s) /\ \A j \in Rx(family) : CableRegs \subseteq DOMAIN s.reg[j]

(* Calls that leave the demodulators of J, their cable settings and the    *)
(* number of open receivers alone.                                         *)
SameChip(s, t, j) ==
    t.demod[j] = s.demod[j] /\ \A x \in CableRegs : t.reg[j][x] = s.reg[j][x]
Spares(s, t, J) ==
    ChipBoard(s) =>
        /\ ChipBoard(t) /\ t.faults <= s.faults
        /\ t.gone = s.gone /\ t.available = s.available /\ t.open_count = s.open_count
        /\ \A j \in J : SameChip(s, t, j)

LEMMA SparesTrans ==
    ASSUME NEW s, NEW t, NEW u, NEW J, Spares(s, t, J), Spares(t, u, J)
    PROVE  Spares(s, u, J)
BY DEF Spares, SameChip, ChipBoard, Device

LEMMA SparesRefl ==
    ASSUME NEW s, NEW J PROVE Spares(s, s, J)
BY DEF Spares, SameChip, ChipBoard, Device

LEMMA SparesFewer ==
    ASSUME NEW s, NEW t, NEW J, NEW K \in SUBSET J, Spares(s, t, J)
    PROVE  Spares(s, t, K)
BY DEF Spares

(* Writing down the state of a demodulator concerns that one only; of a    *)
(* tuner, none.                                                            *)
LEMMA SetDemodSpares ==
    ASSUME NEW s, NEW i, NEW d
    PROVE  /\ Spares(s, SetDemod(s, i, d), Rx(family) \ {i})
           /\ ChipBoard(s) /\ i \in Rx(family) =>
                /\ SetDemod(s, i, d).demod[i] = d
                /\ SetDemod(s, i, d).reg = s.reg /\ SetDemod(s, i, d).faults = s.faults
BY DEF Spares, SameChip, ChipBoard, Device, DeviceFields, SetDemod

LEMMA SetSystemSpares ==
    ASSUME NEW s, NEW i, NEW system PROVE Spares(s, SetSystem(s, i, system), Rx(family))
BY DEF Spares, SameChip, ChipBoard, Device, DeviceFields, SetSystem

(* A control message that fails does at most what an answered one does.    *)
LEMMA CtrlSpares ==
    ASSUME NEW s, NEW J \in SUBSET Rx(family), NEW ok,
           \A t \in ok : Spares(s, t, J) /\ (ChipBoard(s) => t.faults = s.faults)
    PROVE  \A o \in it930x_ctrl_msg(s, ok) :
              /\ Spares(s, o.s, J) /\ o.ret = "EIO"
              /\ ChipBoard(s) => s.gone \/ o.s.faults < s.faults
<1> SUFFICES ASSUME NEW o \in it930x_ctrl_msg(s, ok)
             PROVE  /\ Spares(s, o.s, J) /\ o.ret = "EIO"
                    /\ ChipBoard(s) => s.gone \/ o.s.faults < s.faults
    OBVIOUS
<1>1. CASE s.gone
  BY <1>1, SparesRefl DEF it930x_ctrl_msg, Out
<1>2. CASE ~s.gone
  <2>1. PICK t \in ok : o = Out("EIO", [t EXCEPT !.faults = @ - 1]) /\ s.faults # 0
    BY <1>2 DEF it930x_ctrl_msg
  <2>2. o.s = [t EXCEPT !.faults = @ - 1] /\ o.ret = "EIO"
    BY <2>1 DEF Out
  <2> SUFFICES ASSUME ChipBoard(s) PROVE Spares(s, o.s, J) /\ o.s.faults < s.faults
      BY <2>2 DEF Spares
  <2>3. ChipBoard(t) /\ t.faults = s.faults /\ s.faults # 0 /\ s.faults \in Nat
    BY <2>1 DEF Spares, ChipBoard, Device
  <2>4. Spares(t, o.s, J) /\ o.s.faults < s.faults
    BY <2>2, <2>3 DEF Spares, ChipBoard, Device, SameChip, DeviceFields
  <2> QED BY <2>1, <2>4, SparesTrans
<1> QED BY <1>1, <1>2

LEMMA AccessSpares ==
    ASSUME NEW s PROVE \A o \in Access(s) \cup Poll(s) : Spares(s, o.s, Rx(family))
<1>1. \A o \in it930x_ctrl_msg(s, {s}) : Spares(s, o.s, Rx(family))
  BY SparesRefl, CtrlSpares
<1> QED BY <1>1, SparesRefl DEF Access, Poll, Out

LEMMA SetSpares ==
    ASSUME NEW s, NEW t, NEW J \in SUBSET Rx(family), Spares(s, t, J), ChipBoard(s) => t.faults = s.faults
    PROVE  \A o \in Set(s, t) :
              Spares(s, o.s, J) /\ (o.ret = "OK" => o.s = t)
<1>1. \A o \in it930x_ctrl_msg(s, {s, t}) : Spares(s, o.s, J) /\ o.ret = "EIO"
  BY SparesRefl, CtrlSpares
<1> QED BY <1>1 DEF Set, Out

(* A program writes the registers it names and no others; one that meets   *)
(* no failure leaves each at the last value written.                       *)
Avoids(P, x) == \A n \in 1..Len(P) : P[n][1] # x
Leaves(P, x, v) ==
    \E n \in 1..Len(P) : P[n] = <<x, v>> /\ \A m \in (n + 1)..Len(P) : P[m][1] # x
LEMMA AppliedValue ==
    ASSUME NEW r, NEW P, Len(P) \in Nat
    PROVE  /\ \A k \in 0..Len(P) : DOMAIN Applied(r, P, k) = DOMAIN r
           /\ \A k \in 0..Len(P), x \in DOMAIN r : Avoids(P, x) => Applied(r, P, k)[x] = r[x]
           /\ \A x \in DOMAIN r : \A v : Leaves(P, x, v) => Applied(r, P, Len(P))[x] = v
<1> DEFINE L(k, x) == P[CHOOSE n \in 1..k : P[n][1] = x /\ \A m \in n + 1..k : P[m][1] # x][2]
           W(k) == {P[n][1] : n \in 1..k}
<1>1. \A k : Applied(r, P, k) = [x \in DOMAIN r |-> IF x \in W(k) THEN L(k, x) ELSE r[x]]
  BY DEF Applied
<1>2. ASSUME NEW k \in 0..Len(P), NEW x, Avoids(P, x) PROVE x \notin W(k)
  BY <1>2 DEF Avoids
<1>3. ASSUME NEW x \in DOMAIN r, NEW v, Leaves(P, x, v)
      PROVE  x \in W(Len(P)) /\ L(Len(P), x) = v
  <2> DEFINE Q(n) == P[n][1] = x /\ \A m \in n + 1..Len(P) : P[m][1] # x
  <2>1. PICK n \in 1..Len(P) : P[n] = <<x, v>> /\ \A m \in n + 1..Len(P) : P[m][1] # x
    BY <1>3 DEF Leaves
  <2>2. Q(n) /\ P[n][2] = v
    BY <2>1
  <2>3. ASSUME NEW m \in 1..Len(P), Q(m) PROVE m = n
    <3>1. ~(m < n)
      BY <2>2, <2>3
    <3>2. ~(n < m)
      BY <2>2, <2>3
    <3> QED BY <3>1, <3>2
  <2> DEFINE c == CHOOSE m \in 1..Len(P) : Q(m)
  <2>4. c \in 1..Len(P) /\ Q(c)
    BY <2>2
  <2>5. c = n
    BY <2>3, <2>4
  <2>6. L(Len(P), x) = P[c][2]
    OBVIOUS
  <2> QED BY <2>2, <2>5, <2>6
<1> HIDE DEF L, W
<1> QED BY <1>1, <1>2, <1>3

(* The registers of one chip are no matter of the others.                  *)
PutRegs(s, i, r) == [s EXCEPT !.reg[i] = r]
LEMMA PutRegsSpares ==
    ASSUME NEW s, ChipBoard(s), NEW i \in Rx(family), NEW r, CableRegs \subseteq DOMAIN r
    PROVE  /\ Spares(s, PutRegs(s, i, r), Rx(family) \ {i})
           /\ PutRegs(s, i, r).reg[i] = r /\ PutRegs(s, i, r).demod = s.demod
           /\ PutRegs(s, i, r).faults = s.faults
BY DEF Spares, SameChip, ChipBoard, Device, DeviceFields, PutRegs

(* What a program leaves of the receiver's own chip.                       *)
Programs(s, o, i, P) ==
    /\ o.s.demod[i] = s.demod[i]
    /\ \A x \in CableRegs : Avoids(P, x) => o.s.reg[i][x] = s.reg[i][x]
    /\ o.ret # "OK" => s.gone \/ o.s.faults < s.faults
    /\ o.ret = "OK" =>
          /\ o.s.faults = s.faults
          /\ \A x \in CableRegs : \A v : Leaves(P, x, v) => o.s.reg[i][x] = v
LEMMA ProgramWrites ==
    ASSUME NEW s, ChipBoard(s), NEW i \in Rx(family), NEW P, Len(P) \in Nat
    PROVE  \A o \in Program(s, i, P) : Spares(s, o.s, Rx(family) \ {i}) /\ Programs(s, o, i, P)
<1> DEFINE r == s.reg[i]
           A(k) == Applied(r, P, k)
           B(k) == [A(k) EXCEPT ![P[k + 1][1]] = Mixed]
           At(k) == [s EXCEPT !.reg[i] = Applied(@, P, k)]
           Tear(k) == [At(k) EXCEPT !.reg[i][P[k + 1][1]] = Mixed]
           ok == {At(k) : k \in 0..Len(P)} \cup {Tear(k) : k \in 0..(Len(P) - 1)}
           Good(t) == /\ Spares(s, t, Rx(family) \ {i}) /\ t.faults = s.faults
                      /\ t.demod = s.demod
                      /\ \A x \in CableRegs : Avoids(P, x) => t.reg[i][x] = s.reg[i][x]
<1>1. DOMAIN s = DeviceFields /\ DOMAIN s.reg = Rx(family) /\ CableRegs \subseteq DOMAIN r
  BY DEF ChipBoard, Device
<1>2. \A k : At(k) = PutRegs(s, i, A(k))
  BY DEF PutRegs
<1>3. \A k : Tear(k) = PutRegs(s, i, B(k))
  BY <1>1 DEF PutRegs, DeviceFields
<1>4. ASSUME NEW k \in 0..Len(P)
      PROVE  /\ DOMAIN A(k) = DOMAIN r
             /\ \A x \in CableRegs : Avoids(P, x) => A(k)[x] = r[x]
  BY <1>1, AppliedValue
<1>5. ASSUME NEW k \in 0..(Len(P) - 1)
      PROVE  /\ DOMAIN B(k) = DOMAIN r
             /\ \A x \in CableRegs : Avoids(P, x) => B(k)[x] = r[x]
  <2>1. k \in 0..Len(P) /\ k + 1 \in 1..Len(P)
    OBVIOUS
  <2>2. \A x \in CableRegs : Avoids(P, x) => P[k + 1][1] # x
    BY <2>1 DEF Avoids
  <2> HIDE DEF A
  <2> QED BY <1>1, <1>4, <2>1, <2>2
<1> HIDE DEF A, B, At, Tear
<1>6. ASSUME NEW k \in 0..Len(P) PROVE Good(At(k)) /\ At(k).reg[i] = A(k)
  <2>1. CableRegs \subseteq DOMAIN A(k)
    BY <1>1, <1>4
  <2>2. At(k) = PutRegs(s, i, A(k))
    BY <1>2
  <2>3. /\ Spares(s, At(k), Rx(family) \ {i}) /\ At(k).reg[i] = A(k)
        /\ At(k).demod = s.demod /\ At(k).faults = s.faults
    BY <2>1, <2>2, PutRegsSpares
  <2> QED BY <2>3, <1>4
<1>7. ASSUME NEW k \in 0..(Len(P) - 1) PROVE Good(Tear(k))
  <2>1. CableRegs \subseteq DOMAIN B(k)
    BY <1>1, <1>5
  <2>2. Tear(k) = PutRegs(s, i, B(k))
    BY <1>3
  <2>3. /\ Spares(s, Tear(k), Rx(family) \ {i}) /\ Tear(k).reg[i] = B(k)
        /\ Tear(k).demod = s.demod /\ Tear(k).faults = s.faults
    BY <2>1, <2>2, PutRegsSpares
  <2> QED BY <2>3, <1>5
<1>8. \A t \in ok : Good(t)
  <2> HIDE DEF Good
  <2> QED BY <1>6, <1>7
<1>9. \A t \in ok : Spares(s, t, Rx(family) \ {i}) /\ t.faults = s.faults
  BY <1>8
<1>10. Program(s, i, P) = (IF s.gone THEN {} ELSE {Out("OK", At(Len(P)))}) \cup it930x_ctrl_msg(s, ok)
  BY DEF Program, At, Tear
<1>11. ASSUME NEW o, o = Out("OK", At(Len(P)))
       PROVE  Spares(s, o.s, Rx(family) \ {i}) /\ Programs(s, o, i, P)
  <2>1. o.s = At(Len(P)) /\ o.ret = "OK" /\ Len(P) \in 0..Len(P)
    BY <1>11 DEF Out
  <2>2. Good(o.s) /\ o.s.reg[i] = A(Len(P))
    BY <2>1, <1>6
  <2>3. \A x \in CableRegs : \A v : Leaves(P, x, v) => A(Len(P))[x] = v
    BY <1>1, AppliedValue DEF A
  <2> HIDE DEF A
  <2> QED BY <2>1, <2>2, <2>3 DEF Programs
<1> HIDE DEF ok
<1>12. ASSUME NEW o \in it930x_ctrl_msg(s, ok)
       PROVE  Spares(s, o.s, Rx(family) \ {i}) /\ Programs(s, o, i, P)
  <2>1. Spares(s, o.s, Rx(family) \ {i}) /\ o.ret = "EIO" /\ (s.gone \/ o.s.faults < s.faults)
    <3> DEFINE J == Rx(family) \ {i}
    <3>1. J \in SUBSET Rx(family) /\ \A t \in ok : Spares(s, t, J) /\ (ChipBoard(s) => t.faults = s.faults)
      BY <1>9
    <3> HIDE DEF J
    <3>2. Spares(s, o.s, J) /\ o.ret = "EIO" /\ (s.gone \/ o.s.faults < s.faults)
      BY <3>1, CtrlSpares
    <3> QED BY <3>2 DEF J
  <2>2. o.s = s \/ \E t \in ok : o.s = [t EXCEPT !.faults = @ - 1]
    BY DEF it930x_ctrl_msg, Out
  <2>3. CASE o.s = s
    BY <2>1, <2>3 DEF Programs
  <2>4. ASSUME NEW t \in ok, o.s = [t EXCEPT !.faults = @ - 1]
        PROVE  Programs(s, o, i, P)
    <3>1. Good(t) /\ DOMAIN t = DeviceFields
      BY <1>8 DEF Spares, ChipBoard, Device
    <3>2. o.s.demod = t.demod /\ o.s.reg = t.reg
      BY <3>1, <2>4 DEF DeviceFields
    <3> QED BY <3>1, <3>2, <2>1 DEF Programs
  <2> QED BY <2>1, <2>2, <2>3, <2>4
<1> QED BY <1>10, <1>11, <1>12

(* Programs written out, and one after the other.                          *)
IsProgram(P) == \E S : P \in Seq(S)
LEMMA Listed1 ==
    ASSUME NEW a PROVE IsProgram(<<a>>)
<1>1. <<a>> \in Seq({a})
  OBVIOUS
<1> QED BY <1>1 DEF IsProgram

LEMMA Listed2 ==
    ASSUME NEW a, NEW b PROVE IsProgram(<<a, b>>)
<1>1. <<a, b>> \in Seq({a, b})
  OBVIOUS
<1> QED BY <1>1 DEF IsProgram

LEMMA Listed3 ==
    ASSUME NEW a, NEW b, NEW c PROVE IsProgram(<<a, b, c>>)
<1>1. <<a, b, c>> \in Seq({a, b, c})
  OBVIOUS
<1> QED BY <1>1 DEF IsProgram

LEMMA Listed4 ==
    ASSUME NEW a, NEW b, NEW c, NEW d PROVE IsProgram(<<a, b, c, d>>)
<1>1. <<a, b, c, d>> \in Seq({a, b, c, d})
  OBVIOUS
<1> QED BY <1>1 DEF IsProgram

LEMMA Listed5 ==
    ASSUME NEW a, NEW b, NEW c, NEW d, NEW e PROVE IsProgram(<<a, b, c, d, e>>)
<1>1. <<a, b, c, d, e>> \in Seq({a, b, c, d, e})
  OBVIOUS
<1> QED BY <1>1 DEF IsProgram

LEMMA Listed8 ==
    ASSUME NEW a, NEW b, NEW c, NEW d, NEW e, NEW f, NEW g, NEW h PROVE IsProgram(<<a, b, c, d, e, f, g, h>>)
<1>1. <<a, b, c, d, e, f, g, h>> \in Seq({a, b, c, d, e, f, g, h})
  OBVIOUS
<1> QED BY <1>1 DEF IsProgram

LEMMA Joined ==
    ASSUME NEW P, NEW Q, IsProgram(P), IsProgram(Q)
    PROVE  /\ IsProgram(P \o Q)
           /\ \A x : Avoids(P, x) /\ Avoids(Q, x) => Avoids(P \o Q, x)
           /\ \A x, v : Leaves(Q, x, v) => Leaves(P \o Q, x, v)
           /\ \A x, v : Leaves(P, x, v) /\ Avoids(Q, x) => Leaves(P \o Q, x, v)
<1> DEFINE R == P \o Q
<1>1. /\ IsProgram(R) /\ Len(P) \in Nat /\ Len(Q) \in Nat /\ Len(R) = Len(P) + Len(Q)
      /\ \A n \in 1..Len(R) : R[n] = IF n <= Len(P) THEN P[n] ELSE Q[n - Len(P)]
  <2>1. PICK S, T : P \in Seq(S) /\ Q \in Seq(T)
    BY DEF IsProgram
  <2>2. P \in Seq(S \cup T) /\ Q \in Seq(S \cup T)
    BY <2>1
  <2>3. R \in Seq(S \cup T)
    BY <2>2
  <2> QED BY <2>2, <2>3 DEF IsProgram
<1> HIDE DEF R
<1>2. ASSUME NEW x, Avoids(P, x), Avoids(Q, x) PROVE Avoids(R, x)
  <2> SUFFICES ASSUME NEW n \in 1..Len(R) PROVE R[n][1] # x
      BY DEF Avoids
  <2>1. CASE n <= Len(P)
    BY <2>1, <1>1, <1>2 DEF Avoids
  <2>2. CASE ~(n <= Len(P))
    <3>1. n - Len(P) \in 1..Len(Q)
      BY <2>2, <1>1
    <3> QED BY <3>1, <2>2, <1>1, <1>2 DEF Avoids
  <2> QED BY <2>1, <2>2
<1>3. ASSUME NEW x, NEW v, Leaves(Q, x, v) PROVE Leaves(R, x, v)
  <2>1. PICK n \in 1..Len(Q) : Q[n] = <<x, v>> /\ \A m \in (n + 1)..Len(Q) : Q[m][1] # x
    BY <1>3 DEF Leaves
  <2>2. Len(P) + n \in 1..Len(R) /\ R[Len(P) + n] = <<x, v>>
    BY <2>1, <1>1
  <2>3. ASSUME NEW m \in (Len(P) + n + 1)..Len(R) PROVE R[m][1] # x
    <3>1. m - Len(P) \in (n + 1)..Len(Q) /\ m \in 1..Len(R) /\ ~(m <= Len(P))
      BY <1>1
    <3> QED BY <3>1, <2>1, <1>1
  <2> QED BY <2>2, <2>3 DEF Leaves
<1>4. ASSUME NEW x, NEW v, Leaves(P, x, v), Avoids(Q, x) PROVE Leaves(R, x, v)
  <2>1. PICK n \in 1..Len(P) : P[n] = <<x, v>> /\ \A m \in (n + 1)..Len(P) : P[m][1] # x
    BY <1>4 DEF Leaves
  <2>2. n \in 1..Len(R) /\ R[n] = <<x, v>>
    BY <2>1, <1>1
  <2>3. ASSUME NEW m \in (n + 1)..Len(R) PROVE R[m][1] # x
    <3>1. CASE m <= Len(P)
      BY <3>1, <2>1, <1>1
    <3>2. CASE ~(m <= Len(P))
      <4>1. m - Len(P) \in 1..Len(Q) /\ m \in 1..Len(R)
        BY <3>2, <1>1
      <4> QED BY <4>1, <3>2, <1>1, <1>4 DEF Avoids
    <3> QED BY <3>1, <3>2
  <2> QED BY <2>2, <2>3 DEF Leaves
<1> QED BY <1>1, <1>2, <1>3, <1>4 DEF R

(* What the programs of the demodulator do to the cable registers.         *)
Untouched(P) == IsProgram(P) /\ \A x \in CableRegs : Avoids(P, x)
LEMMA UntouchedJoined ==
    ASSUME NEW P, NEW Q, Untouched(P), Untouched(Q) PROVE Untouched(P \o Q)
BY Joined DEF Untouched

LEMMA CommonPrograms ==
    /\ Untouched(StopOutput) /\ Untouched(StartOutput)
    /\ Untouched(cxd2856er_sleep_cable_common) /\ Untouched(cxd2856er_set_bandwidth_isdbt)
    /\ \A on : Untouched(cxd2856er_set_ts_pin_state(on))
    /\ \A system : Untouched(cxd2856er_set_ts_clock(system))
    /\ Untouched(<< <<"mute", "on">> >>)
<1>1. Untouched(StopOutput)
  <2>1. IsProgram(StopOutput)
    BY Listed2 DEF StopOutput
  <2>2. \A x \in CableRegs : Avoids(StopOutput, x)
    BY DEF Avoids, CableRegs, StopOutput
  <2> QED BY <2>1, <2>2 DEF Untouched
<1>2. Untouched(cxd2856er_sleep_cable_common)
  <2>1. IsProgram(cxd2856er_sleep_cable_common)
    BY Listed2 DEF cxd2856er_sleep_cable_common
  <2>2. \A x \in CableRegs : Avoids(cxd2856er_sleep_cable_common, x)
    BY DEF Avoids, CableRegs, cxd2856er_sleep_cable_common
  <2> QED BY <2>1, <2>2 DEF Untouched
<1>3. ASSUME NEW x, x \notin CableRegs PROVE \A v : Untouched(<< <<x, v>> >>)
  <2>1. \A v : IsProgram(<< <<x, v>> >>)
    BY Listed1
  <2>2. \A v : \A y \in CableRegs : Avoids(<< <<x, v>> >>, y)
    BY <1>3 DEF Avoids
  <2> QED BY <2>1, <2>2 DEF Untouched
<1>4. /\ \A v : Untouched(<< <<"pins", v>> >>) /\ Untouched(<< <<"tsclk", v>> >>) /\ Untouched(<< <<"out", v>> >>)
      /\ Untouched(<< <<"mute", "on">> >>) /\ Untouched(cxd2856er_set_bandwidth_isdbt)
  <2>1. {"pins", "tsclk", "out", "mute", "band"} \cap CableRegs = {}
    BY DEF CableRegs
  <2> QED BY <1>3, <2>1 DEF cxd2856er_set_bandwidth_isdbt
<1>5. \A on : Untouched(cxd2856er_set_ts_pin_state(on))
  BY <1>4 DEF cxd2856er_set_ts_pin_state
<1>6. \A system : Untouched(cxd2856er_set_ts_clock(system))
  BY <1>4 DEF cxd2856er_set_ts_clock
<1>7. Untouched(StartOutput)
  BY <1>4, <1>5, UntouchedJoined DEF StartOutput
<1> QED BY <1>1, <1>2, <1>4, <1>5, <1>6, <1>7

(* The programs of ISDB-T and ISDB-S leave them alone.                     *)
LEMMA BroadcastPrograms ==
    /\ Untouched(cxd2856er_sleep_isdbt) /\ Untouched(cxd2856er_sleep_isdbs)
    /\ Untouched(cxd2856er_wakeup_isdbt) /\ Untouched(cxd2856er_wakeup_isdbs)
    /\ Untouched(cxd2856er_reset_isdbt) /\ Untouched(cxd2856er_reset_isdbs)
    /\ Untouched(cxd2856er_reset_isdbc)
<1>1. Untouched(<< <<"terr", "default">>, <<"analog", "off">>, <<"clock", "off">> >>)
  <2>1. IsProgram(<< <<"terr", "default">>, <<"analog", "off">>, <<"clock", "off">> >>)
    BY Listed3
  <2>2. \A x \in CableRegs : Avoids(<< <<"terr", "default">>, <<"analog", "off">>, <<"clock", "off">> >>, x)
    BY DEF Avoids, CableRegs
  <2> QED BY <2>1, <2>2 DEF Untouched
<1>2. Untouched(<< <<"analog", "off">>, <<"clock", "off">> >>)
  <2>1. IsProgram(<< <<"analog", "off">>, <<"clock", "off">> >>)
    BY Listed2
  <2>2. \A x \in CableRegs : Avoids(<< <<"analog", "off">>, <<"clock", "off">> >>, x)
    BY DEF Avoids, CableRegs
  <2> QED BY <2>1, <2>2 DEF Untouched
<1>3. Untouched(<< <<"clock", "T">>, <<"analog", "terr">>, <<"bank", "bcast">>, <<"terr", "T">> >>)
  <2>1. IsProgram(<< <<"clock", "T">>, <<"analog", "terr">>, <<"bank", "bcast">>, <<"terr", "T">> >>)
    BY Listed4
  <2>2. \A x \in CableRegs : Avoids(<< <<"clock", "T">>, <<"analog", "terr">>, <<"bank", "bcast">>, <<"terr", "T">> >>, x)
    BY DEF Avoids, CableRegs
  <2> QED BY <2>1, <2>2 DEF Untouched
<1>4. Untouched(<< <<"clock", "S">>, <<"analog", "sat">>, <<"bank", "bcast">> >>)
  <2>1. IsProgram(<< <<"clock", "S">>, <<"analog", "sat">>, <<"bank", "bcast">> >>)
    BY Listed3
  <2>2. \A x \in CableRegs : Avoids(<< <<"clock", "S">>, <<"analog", "sat">>, <<"bank", "bcast">> >>, x)
    BY DEF Avoids, CableRegs
  <2> QED BY <2>1, <2>2 DEF Untouched
<1>5. Untouched(cxd2856er_sleep_isdbt) /\ Untouched(cxd2856er_sleep_isdbs)
  BY <1>1, <1>2, CommonPrograms, UntouchedJoined DEF cxd2856er_sleep_isdbt, cxd2856er_sleep_isdbs
<1>6. Untouched(cxd2856er_wakeup_isdbt)
  BY <1>3, CommonPrograms, UntouchedJoined DEF cxd2856er_wakeup_isdbt
<1>7. Untouched(cxd2856er_wakeup_isdbs)
  BY <1>4, CommonPrograms, UntouchedJoined DEF cxd2856er_wakeup_isdbs
<1>8. Untouched(cxd2856er_reset_isdbt) /\ Untouched(cxd2856er_reset_isdbs) /\ Untouched(cxd2856er_reset_isdbc)
  BY CommonPrograms, UntouchedJoined
     DEF cxd2856er_reset_isdbt, cxd2856er_reset_isdbs, cxd2856er_reset_isdbc
<1> QED BY <1>5, <1>6, <1>7, <1>8

(* Those of the cable systems set them, and put them back.                 *)
LEMMA CablePrograms ==
    /\ IsProgram(cxd2856er_sleep_isdbc) /\ Avoids(cxd2856er_sleep_isdbc, "j83b")
    /\ \A x \in {"a3", "fec", "qam"} : Leaves(cxd2856er_sleep_isdbc, x, "default")
    /\ IsProgram(cxd2856er_sleep_j83b) /\ Avoids(cxd2856er_sleep_j83b, "fec")
    /\ \A x \in {"a3", "j83b", "qam"} : Leaves(cxd2856er_sleep_j83b, x, "default")
    /\ IsProgram(cxd2856er_wakeup_isdbc) /\ Avoids(cxd2856er_wakeup_isdbc, "j83b")
    /\ Leaves(cxd2856er_wakeup_isdbc, "a3", "cable") /\ Leaves(cxd2856er_wakeup_isdbc, "qam", "C")
    /\ Leaves(cxd2856er_wakeup_isdbc, "fec", "C")
    /\ IsProgram(cxd2856er_wakeup_j83b) /\ Avoids(cxd2856er_wakeup_j83b, "fec")
    /\ Leaves(cxd2856er_wakeup_j83b, "a3", "cable") /\ Leaves(cxd2856er_wakeup_j83b, "qam", "J")
    /\ Leaves(cxd2856er_wakeup_j83b, "j83b", "J")
    /\ IsProgram(cxd2856er_reset_j83b) /\ Leaves(cxd2856er_reset_j83b, "qam", "J")
    /\ \A x \in {"a3", "fec", "j83b"} : Avoids(cxd2856er_reset_j83b, x)
<1> DEFINE Off == StopOutput \o cxd2856er_set_ts_pin_state(FALSE)
           SleepC == << <<"a3", "default">>, <<"fec", "default">>, <<"qam", "default">> >>
           SleepJ == << <<"a3", "default">>, <<"j83b", "default">>, <<"qam", "default">>,
                        <<"srate", "default">> >>
           Tsmf == << <<"tsmf", "single">> >>
           WakeC == << <<"clock", "C">>, <<"analog", "terr">>, <<"fec", "C">>,
                       <<"bank", "cable">>, <<"band", "C">>, <<"a3", "cable">>,
                       <<"qam", "C">>, <<"srate", "C">> >>
           WakeJ == << <<"clock", "J">>, <<"analog", "terr">>, <<"j83b", "J">>,
                       <<"a3", "cable">>, <<"bank", "cable">> >>
<1>1. Untouched(Off) /\ Untouched(Tsmf)
  <2>1. Untouched(Off)
    BY CommonPrograms, UntouchedJoined
  <2>2. Untouched(Tsmf)
    <3>1. IsProgram(Tsmf)
      BY Listed1
    <3>2. \A x \in CableRegs : Avoids(Tsmf, x)
      BY DEF Avoids, CableRegs
    <3> QED BY <3>1, <3>2 DEF Untouched
  <2> QED BY <2>1, <2>2
<1>2. /\ IsProgram(SleepC) /\ Avoids(SleepC, "j83b")
      /\ \A x \in {"a3", "fec", "qam"} : Leaves(SleepC, x, "default")
  <2>1. IsProgram(SleepC)
    BY Listed3
  <2> QED BY <2>1 DEF Avoids, Leaves
<1>3. /\ IsProgram(SleepJ) /\ Avoids(SleepJ, "fec")
      /\ \A x \in {"a3", "j83b", "qam"} : Leaves(SleepJ, x, "default")
  <2>1. IsProgram(SleepJ)
    BY Listed4
  <2> QED BY <2>1 DEF Avoids, Leaves
<1>4. /\ IsProgram(WakeC) /\ Avoids(WakeC, "j83b")
      /\ Leaves(WakeC, "a3", "cable") /\ Leaves(WakeC, "qam", "C") /\ Leaves(WakeC, "fec", "C")
  <2>1. IsProgram(WakeC)
    BY Listed8
  <2> QED BY <2>1 DEF Avoids, Leaves
<1>5. /\ IsProgram(WakeJ) /\ Avoids(WakeJ, "fec") /\ Avoids(WakeJ, "qam")
      /\ Leaves(WakeJ, "a3", "cable") /\ Leaves(WakeJ, "j83b", "J")
  <2>1. IsProgram(WakeJ)
    BY Listed5
  <2> QED BY <2>1 DEF Avoids, Leaves
<1>6. /\ IsProgram(cxd2856er_set_band_j83b) /\ Leaves(cxd2856er_set_band_j83b, "qam", "J")
      /\ \A x \in {"a3", "fec", "j83b"} : Avoids(cxd2856er_set_band_j83b, x)
  <2>1. IsProgram(cxd2856er_set_band_j83b)
    BY Listed3 DEF cxd2856er_set_band_j83b
  <2> QED BY <2>1 DEF Avoids, Leaves, cxd2856er_set_band_j83b
<1>7. /\ cxd2856er_sleep_isdbc = (Off \o SleepC) \o cxd2856er_sleep_cable_common
      /\ cxd2856er_sleep_j83b = (Off \o SleepJ) \o cxd2856er_sleep_cable_common
      /\ cxd2856er_wakeup_isdbc = ((Tsmf \o cxd2856er_set_ts_clock("C")) \o WakeC) \o StartOutput
      /\ cxd2856er_wakeup_j83b =
            ((cxd2856er_set_ts_clock("J") \o WakeJ) \o cxd2856er_set_band_j83b) \o StartOutput
      /\ cxd2856er_reset_j83b = << <<"mute", "on">> >> \o cxd2856er_set_band_j83b
  BY DEF cxd2856er_sleep_isdbc, cxd2856er_sleep_j83b, cxd2856er_wakeup_isdbc, cxd2856er_wakeup_j83b,
         cxd2856er_reset_j83b
<1> HIDE DEF Off, SleepC, SleepJ, Tsmf, WakeC, WakeJ
<1>8. ASSUME NEW P, NEW Q, NEW R, Untouched(P), IsProgram(Q), Untouched(R)
      PROVE  /\ IsProgram((P \o Q) \o R)
             /\ \A x \in CableRegs : Avoids(Q, x) => Avoids((P \o Q) \o R, x)
             /\ \A x \in CableRegs : \A v : Leaves(Q, x, v) => Leaves((P \o Q) \o R, x, v)
  BY <1>8, Joined DEF Untouched
<1>9. Untouched(Tsmf \o cxd2856er_set_ts_clock("C")) /\ Untouched(cxd2856er_sleep_cable_common)
      /\ Untouched(StartOutput) /\ Untouched(cxd2856er_set_ts_clock("J")) /\ Untouched(<< <<"mute", "on">> >>)
  BY <1>1, CommonPrograms, UntouchedJoined
<1>10. {"a3", "fec", "qam", "j83b"} = CableRegs
  BY DEF CableRegs
<1>11. /\ IsProgram(cxd2856er_sleep_isdbc) /\ Avoids(cxd2856er_sleep_isdbc, "j83b")
       /\ \A x \in {"a3", "fec", "qam"} : Leaves(cxd2856er_sleep_isdbc, x, "default")
  BY <1>1, <1>2, <1>7, <1>8, <1>9, <1>10
<1>12. /\ IsProgram(cxd2856er_sleep_j83b) /\ Avoids(cxd2856er_sleep_j83b, "fec")
       /\ \A x \in {"a3", "j83b", "qam"} : Leaves(cxd2856er_sleep_j83b, x, "default")
  BY <1>1, <1>3, <1>7, <1>8, <1>9, <1>10
<1>13. /\ IsProgram(cxd2856er_wakeup_isdbc) /\ Avoids(cxd2856er_wakeup_isdbc, "j83b")
       /\ Leaves(cxd2856er_wakeup_isdbc, "a3", "cable") /\ Leaves(cxd2856er_wakeup_isdbc, "qam", "C")
       /\ Leaves(cxd2856er_wakeup_isdbc, "fec", "C")
  BY <1>4, <1>7, <1>8, <1>9, <1>10
<1>14. /\ IsProgram(cxd2856er_wakeup_j83b) /\ Avoids(cxd2856er_wakeup_j83b, "fec")
       /\ Leaves(cxd2856er_wakeup_j83b, "a3", "cable") /\ Leaves(cxd2856er_wakeup_j83b, "qam", "J")
       /\ Leaves(cxd2856er_wakeup_j83b, "j83b", "J")
  <2> DEFINE A == cxd2856er_set_ts_clock("J") \o WakeJ
             B == A \o cxd2856er_set_band_j83b
  <2>1. /\ IsProgram(A) /\ Avoids(A, "fec") /\ Leaves(A, "a3", "cable") /\ Leaves(A, "j83b", "J")
    BY <1>5, <1>9, <1>10, Joined DEF Untouched
  <2> HIDE DEF A
  <2>2. /\ IsProgram(B) /\ Avoids(B, "fec") /\ Leaves(B, "a3", "cable") /\ Leaves(B, "j83b", "J")
        /\ Leaves(B, "qam", "J")
    BY <2>1, <1>6, Joined
  <2>3. cxd2856er_wakeup_j83b = B \o StartOutput
    BY <1>7 DEF A
  <2> HIDE DEF B
  <2> QED BY <2>2, <2>3, <1>9, <1>10, Joined DEF Untouched
<1>15. /\ IsProgram(cxd2856er_reset_j83b) /\ Leaves(cxd2856er_reset_j83b, "qam", "J")
       /\ \A x \in {"a3", "fec", "j83b"} : Avoids(cxd2856er_reset_j83b, x)
  BY <1>6, <1>7, <1>9, <1>10, Joined DEF Untouched
<1> QED BY <1>11, <1>12, <1>13, <1>14, <1>15

-----------------------------------------------------------------------------
(* The demodulator.                                                        *)

(* A demodulator that is asleep has nothing of a cable system; one that    *)
(* is active for a cable system has at most what that system's own sleep   *)
(* restores, and all that it sets once the wake-up is complete.            *)
Cleared(s, i) == \A x \in CableRegs : s.reg[i][x] = "default"
Fresh(s, i) == s.demod[i] = DemodAsleep /\ Cleared(s, i)
Active(system, b) == [state |-> "ACTIVE", system |-> system, incomplete |-> b]
Restorable(s, i) ==
    \/ Fresh(s, i)
    \/ \E y \in Systems, b \in BOOLEAN :
          /\ s.demod[i] = Active(y, b)
          /\ y \notin CableSystems => Cleared(s, i)
          /\ y = "C" => s.reg[i]["j83b"] = "default"
          /\ y = "J" => s.reg[i]["fec"] = "default"
Settled(s, i) ==
    LET d == s.demod[i]
    IN  d.state = "ACTIVE" /\ ~d.incomplete /\ d.system \in CableSystems =>
            \A x \in CableRegs : s.reg[i][x] = CableConfig(d.system)[x]

(* A call on one's own demodulator, which may fail.                        *)
Keeps(s, t, i) ==
    ChipBoard(s) /\ Restorable(s, i) =>
        /\ Restorable(t, i)
        /\ Settled(s, i) /\ ~s.gone /\ t.faults = s.faults => Settled(t, i)

LEMMA SparesKeeps ==
    ASSUME NEW s, NEW t, NEW J, Spares(s, t, J), NEW i \in J
    PROVE  /\ Keeps(s, t, i)
           /\ ChipBoard(s) /\ Fresh(s, i) => Fresh(t, i)
           /\ ChipBoard(s) /\ Settled(s, i) => Settled(t, i)
           /\ ChipBoard(s) /\ Restorable(s, i) => Restorable(t, i)
<1> SUFFICES ASSUME ChipBoard(s)
             PROVE  /\ Fresh(s, i) => Fresh(t, i)
                    /\ Settled(s, i) => Settled(t, i)
                    /\ Restorable(s, i) => Restorable(t, i)
    BY DEF Keeps
<1>1. t.demod[i] = s.demod[i] /\ \A x \in CableRegs : t.reg[i][x] = s.reg[i][x]
  BY DEF Spares, SameChip
<1>2. "j83b" \in CableRegs /\ "fec" \in CableRegs
  BY DEF CableRegs
<1>3. Cleared(s, i) => Cleared(t, i)
  BY <1>1 DEF Cleared
<1>4. Fresh(s, i) => Fresh(t, i)
  BY <1>1, <1>3 DEF Fresh
<1>5. Settled(s, i) => Settled(t, i)
  BY <1>1 DEF Settled
<1>6. Restorable(s, i) => Restorable(t, i)
  BY <1>1, <1>2, <1>3, <1>4 DEF Restorable
<1> QED BY <1>4, <1>5, <1>6

(* Only a cable system that is active is not plain.                        *)
LEMMA FreshPlain ==
    ASSUME NEW s, NEW i, Fresh(s, i) PROVE Restorable(s, i) /\ Settled(s, i)
BY DEF Fresh, Restorable, Settled, DemodAsleep, DemodUnknown

(* The software reset, provided that it restores the registers.            *)
LEMMA DemodInitFresh ==
    ASSUME NEW s, NEW i \in Rx(family)
    PROVE  \A o \in cxd2856er_init(s, i) :
              /\ Spares(s, o.s, Rx(family) \ {i})
              /\ SwResetClears /\ ChipBoard(s) /\ o.ret = "OK" => Fresh(o.s, i)
<1> DEFINE J == Rx(family) \ {i}
           R(t) == [x \in DOMAIN t.reg[i] |-> IF SwResetClears /\ x \in DOMAIN DemodDefaults
                                              THEN DemodDefaults[x] ELSE t.reg[i][x]]
           Asleep(t) == SetDemod(t, i, DemodAsleep)
           s1 == SetDemod(s, i, DemodUnknown)
<1>1. \A t : SwReset(t, i) = Set(t, PutRegs(t, i, R(t)))
  BY DEF SwReset, PutRegs
<1>2. cxd2856er_init(s, i) = Then(SwReset(s1, i), LAMBDA t : Access(Asleep(t)))
  BY DEF cxd2856er_init
<1> SUFFICES ASSUME ChipBoard(s), NEW o \in cxd2856er_init(s, i)
             PROVE  Spares(s, o.s, J) /\ (SwResetClears /\ o.ret = "OK" => Fresh(o.s, i))
    BY DEF Spares
<1>3. Spares(s, s1, J) /\ ChipBoard(s1)
  BY SetDemodSpares DEF Spares
<1>4. CableRegs \subseteq DOMAIN R(s1) /\ (SwResetClears => \A x \in CableRegs : R(s1)[x] = "default")
  BY <1>3 DEF ChipBoard, CableRegs, DemodDefaults
<1> HIDE DEF R, s1
<1>5. /\ Spares(s1, PutRegs(s1, i, R(s1)), J) /\ PutRegs(s1, i, R(s1)).reg[i] = R(s1)
      /\ PutRegs(s1, i, R(s1)).faults = s1.faults
  BY <1>3, <1>4, PutRegsSpares
<1>6. ASSUME NEW a \in SwReset(s1, i)
      PROVE  /\ Spares(s, a.s, J) /\ ChipBoard(a.s)
             /\ SwResetClears /\ a.ret = "OK" => Cleared(a.s, i)
  <2> DEFINE t == PutRegs(s1, i, R(s1))
  <2>1. J \in SUBSET Rx(family) /\ Spares(s1, t, J) /\ t.faults = s1.faults /\ a \in Set(s1, t)
    BY <1>1, <1>5
  <2> HIDE DEF t, J
  <2>2. Spares(s1, a.s, J) /\ (a.ret = "OK" => a.s = t)
    BY <2>1, SetSpares
  <2>3. Spares(s, a.s, J) /\ ChipBoard(a.s)
    BY <2>2, <1>3, SparesTrans DEF Spares
  <2> QED BY <2>2, <2>3, <1>4, <1>5 DEF Cleared, t
<1>7. ASSUME NEW t, ChipBoard(t)
      PROVE  Spares(t, Asleep(t), J) /\ ChipBoard(Asleep(t)) /\ (Cleared(t, i) => Fresh(Asleep(t), i))
  BY <1>7, SetDemodSpares DEF Spares, Fresh, Cleared
<1>8. ASSUME NEW t, NEW a \in Access(t), ChipBoard(t)
      PROVE  Spares(t, a.s, J) /\ (Fresh(t, i) => Fresh(a.s, i))
  <2>1. Spares(t, a.s, Rx(family))
    BY AccessSpares
  <2>2. J \in SUBSET Rx(family)
    OBVIOUS
  <2> QED BY <2>1, <2>2, <1>8, SparesKeeps, SparesFewer
<1> HIDE DEF J, Asleep
<1>9. \/ o \in SwReset(s1, i) /\ o.ret # "OK"
      \/ \E a \in SwReset(s1, i) : a.ret = "OK" /\ o \in Access(Asleep(a.s))
  BY <1>2 DEF Then
<1>10. CASE o \in SwReset(s1, i) /\ o.ret # "OK"
  BY <1>10, <1>6
<1>11. ASSUME NEW a \in SwReset(s1, i), a.ret = "OK", o \in Access(Asleep(a.s))
       PROVE  Spares(s, o.s, J) /\ (SwResetClears => Fresh(o.s, i))
  <2>1. /\ Spares(s, a.s, J) /\ ChipBoard(a.s) /\ (SwResetClears => Cleared(a.s, i))
    BY <1>6, <1>11
  <2>2. /\ Spares(a.s, Asleep(a.s), J) /\ ChipBoard(Asleep(a.s)) /\ (SwResetClears => Fresh(Asleep(a.s), i))
    BY <2>1, <1>7
  <2>3. Spares(Asleep(a.s), o.s, J) /\ (SwResetClears => Fresh(o.s, i))
    BY <2>2, <1>8, <1>11
  <2> QED BY <2>1, <2>2, <2>3, SparesTrans
<1> QED BY <1>9, <1>10, <1>11

LEMMA RestorableForm ==
    ASSUME NEW s, NEW i, Restorable(s, i)
    PROVE  LET d == s.demod[i]
           IN  \/ Fresh(s, i) /\ d.state = "SLEEP" /\ d.system \notin Systems
               \/ /\ d.state = "ACTIVE" /\ d.system \in Systems
                  /\ d.incomplete \in BOOLEAN /\ d = Active(d.system, d.incomplete)
                  /\ d.system \notin CableSystems => Cleared(s, i)
                  /\ d.system = "C" => s.reg[i]["j83b"] = "default"
                  /\ d.system = "J" => s.reg[i]["fec"] = "default"
<1>1. CASE Fresh(s, i)
  BY <1>1 DEF Fresh, DemodAsleep, DemodUnknown, Systems
<1>2. ASSUME NEW y \in Systems, NEW b \in BOOLEAN, s.demod[i] = Active(y, b)
      PROVE  s.demod[i].state = "ACTIVE" /\ s.demod[i].system = y /\ s.demod[i].incomplete = b
  BY <1>2 DEF Active
<1> QED BY <1>1, <1>2 DEF Restorable

(* Going to sleep.  ISDB-T and ISDB-S always get there; a cable system     *)
(* that does not can still be restored.                                    *)
Sleeps(s, o, i) ==
    ChipBoard(s) /\ Restorable(s, i) =>
        /\ Restorable(o.s, i)
        /\ o.ret = "OK" \/ s.demod[i].system \notin CableSystems => Fresh(o.s, i)
        /\ o.ret \notin {"OK", "EALREADY"} => s.gone \/ o.s.faults < s.faults
LEMMA DemodSleeps ==
    ASSUME NEW s, NEW i \in Rx(family)
    PROVE  \A o \in cxd2856er_sleep(s, i) :
              Spares(s, o.s, Rx(family) \ {i}) /\ Sleeps(s, o, i)
<1> DEFINE J == Rx(family) \ {i}
           d == s.demod[i]
           Asleep(t) == SetDemod(t, i, DemodAsleep)
           PC == Program(s, i, cxd2856er_sleep_isdbc)
           PJ == Program(s, i, cxd2856er_sleep_j83b)
           PT == Program(s, i, cxd2856er_sleep_isdbt)
           PS == Program(s, i, cxd2856er_sleep_isdbs)
<1> SUFFICES ASSUME ChipBoard(s), NEW o \in cxd2856er_sleep(s, i)
             PROVE  Spares(s, o.s, J) /\ Sleeps(s, o, i)
    BY DEF Spares, Sleeps
<1>1. /\ d.state = "SLEEP" => cxd2856er_sleep(s, i) = {Out("EALREADY", s)}
      /\ d.state # "SLEEP" /\ d.system = "C" =>
            cxd2856er_sleep(s, i) = Then(PC, LAMBDA t : {Out("OK", Asleep(t))})
      /\ d.state # "SLEEP" /\ d.system = "J" =>
            cxd2856er_sleep(s, i) = Then(PJ, LAMBDA t : {Out("OK", Asleep(t))})
      /\ d.state # "SLEEP" /\ d.system = "T" =>
            cxd2856er_sleep(s, i) = Anyway(PT, LAMBDA t : {Out("OK", Asleep(t))})
      /\ d.state # "SLEEP" /\ d.system = "S" =>
            cxd2856er_sleep(s, i) = Anyway(PS, LAMBDA t : {Out("OK", Asleep(t))})
      /\ d.state # "SLEEP" /\ d.system \notin {"C", "J", "T", "S"} =>
            cxd2856er_sleep(s, i) = {Out("OK", Asleep(s))}
  BY DEF cxd2856er_sleep, Return
<1>2. ASSUME NEW t, ChipBoard(t)
      PROVE  Spares(t, Asleep(t), J) /\ (Cleared(t, i) => Fresh(Asleep(t), i))
  BY <1>2, SetDemodSpares DEF Spares, Fresh, Cleared
<1> HIDE DEF Asleep
<1>3. ASSUME NEW P, IsProgram(P), NEW a \in Program(s, i, P)
      PROVE  Spares(s, a.s, J) /\ ChipBoard(a.s) /\ Programs(s, a, i, P)
  <2>1. Len(P) \in Nat
    BY <1>3 DEF IsProgram
  <2> QED BY <2>1, <1>3, ProgramWrites DEF Spares
<1>4. CASE d.state # "SLEEP" /\ d.system \in {"C", "J"}
  <2> DEFINE P == IF d.system = "C" THEN cxd2856er_sleep_isdbc ELSE cxd2856er_sleep_j83b
             y == IF d.system = "C" THEN "j83b" ELSE "fec"
  <2>1. /\ IsProgram(P) /\ y \in CableRegs /\ Avoids(P, y)
        /\ \A x \in CableRegs \ {y} : Leaves(P, x, "default")
    BY CablePrograms, <1>4 DEF CableRegs
  <2>2. cxd2856er_sleep(s, i) = Then(Program(s, i, P), LAMBDA t : {Out("OK", Asleep(t))})
    BY <1>1, <1>4
  <2>3. Restorable(s, i) => s.reg[i][y] = "default" /\ \E b \in BOOLEAN : d = Active(d.system, b)
    BY <1>4, RestorableForm
  <2> HIDE DEF P
  <2>4. ASSUME NEW a \in Program(s, i, P)
        PROVE  /\ Spares(s, a.s, J) /\ ChipBoard(a.s)
               /\ a.ret # "OK" => s.gone \/ a.s.faults < s.faults
               /\ a.ret = "OK" /\ Restorable(s, i) => Cleared(a.s, i)
               /\ Restorable(s, i) => Restorable(a.s, i)
    <3>1. Spares(s, a.s, J) /\ ChipBoard(a.s) /\ Programs(s, a, i, P)
      BY <2>1, <1>3
    <3>2. /\ a.s.demod[i] = d /\ a.s.reg[i][y] = s.reg[i][y]
          /\ a.ret # "OK" => s.gone \/ a.s.faults < s.faults
          /\ a.ret = "OK" => \A x \in CableRegs \ {y} : a.s.reg[i][x] = "default"
      BY <2>1, <3>1 DEF Programs
    <3>3. a.ret = "OK" /\ Restorable(s, i) => Cleared(a.s, i)
      BY <2>3, <3>2 DEF Cleared
    <3>4. Restorable(s, i) => Restorable(a.s, i)
      <4> SUFFICES ASSUME Restorable(s, i) PROVE Restorable(a.s, i)
          OBVIOUS
      <4>1. PICK b \in BOOLEAN : d = Active(d.system, b)
        BY <2>3
      <4>2. d.system \in Systems /\ d.system \in CableSystems
        BY <1>4 DEF Systems, CableSystems
      <4>3. a.s.demod[i] = Active(d.system, b)
        BY <4>1, <3>2
      <4>4. /\ d.system = "C" => a.s.reg[i]["j83b"] = "default"
            /\ d.system = "J" => a.s.reg[i]["fec"] = "default"
        BY <2>3, <3>2
      <4> HIDE DEF d
      <4> QED BY <4>2, <4>3, <4>4 DEF Restorable
    <3> QED BY <3>1, <3>2, <3>3, <3>4
  <2>5. \/ o \in Program(s, i, P) /\ o.ret # "OK"
        \/ \E a \in Program(s, i, P) : a.ret = "OK" /\ o = Out("OK", Asleep(a.s))
    BY <2>2 DEF Then
  <2>6. CASE o \in Program(s, i, P) /\ o.ret # "OK"
    <3>1. d.system \in CableSystems
      BY <1>4 DEF CableSystems
    <3> QED BY <2>4, <2>6, <3>1 DEF Sleeps
  <2>7. ASSUME NEW a \in Program(s, i, P), a.ret = "OK", o = Out("OK", Asleep(a.s))
        PROVE  Spares(s, o.s, J) /\ Sleeps(s, o, i)
    <3>1. /\ Spares(s, a.s, J) /\ ChipBoard(a.s) /\ (Restorable(s, i) => Cleared(a.s, i))
      BY <2>4, <2>7
    <3>2. o.s = Asleep(a.s) /\ o.ret = "OK"
      BY <2>7 DEF Out
    <3>3. Spares(s, o.s, J) /\ (Restorable(s, i) => Fresh(o.s, i))
      BY <3>1, <3>2, <1>2, SparesTrans
    <3> QED BY <3>2, <3>3, FreshPlain DEF Sleeps
  <2> QED BY <2>5, <2>6, <2>7
<1>5. CASE d.state # "SLEEP" /\ d.system \in {"T", "S"}
  <2> DEFINE P == IF d.system = "T" THEN cxd2856er_sleep_isdbt ELSE cxd2856er_sleep_isdbs
  <2>1. Untouched(P)
    BY BroadcastPrograms
  <2>2. cxd2856er_sleep(s, i) = Anyway(Program(s, i, P), LAMBDA t : {Out("OK", Asleep(t))})
    BY <1>1, <1>5
  <2>3. Restorable(s, i) => Cleared(s, i)
    BY <1>5, RestorableForm DEF CableSystems, Fresh
  <2> HIDE DEF P
  <2>4. PICK a \in Program(s, i, P) : o = Out("OK", Asleep(a.s))
    BY <2>2 DEF Anyway
  <2>5. Spares(s, a.s, J) /\ ChipBoard(a.s) /\ (Restorable(s, i) => Cleared(a.s, i))
    BY <2>1, <2>3, <1>3 DEF Untouched, Programs, Cleared
  <2>6. o.s = Asleep(a.s) /\ o.ret = "OK"
    BY <2>4 DEF Out
  <2>7. Spares(s, o.s, J) /\ (Restorable(s, i) => Fresh(o.s, i))
    BY <2>5, <2>6, <1>2, SparesTrans
  <2> QED BY <2>6, <2>7, FreshPlain DEF Sleeps
<1>6. CASE d.state = "SLEEP"
  <2>1. o = Out("EALREADY", s)
    BY <1>1, <1>6
  <2>2. o.s = s /\ o.ret = "EALREADY"
    BY <2>1 DEF Out
  <2>3. Restorable(s, i) => Fresh(s, i)
    BY <1>6, RestorableForm
  <2> QED BY <2>2, <2>3, SparesRefl DEF Sleeps
<1>7. CASE d.state # "SLEEP" /\ d.system \notin {"C", "J", "T", "S"}
  <2>1. o.s = Asleep(s) /\ o.ret = "OK"
    <3>1. cxd2856er_sleep(s, i) = {Out("OK", Asleep(s))}
      BY <1>1, <1>7
    <3> QED BY <3>1 DEF Out
  <2>2. ~Restorable(s, i)
    BY <1>7, RestorableForm DEF Systems
  <2> QED BY <2>1, <2>2, <1>2 DEF Sleeps
<1> QED BY <1>4, <1>5, <1>6, <1>7

LEMMA DemodTermSpares ==
    ASSUME NEW s, NEW i \in Rx(family)
    PROVE  \A o \in cxd2856er_term(s, i) : Spares(s, o.s, Rx(family) \ {i})
<1>1. cxd2856er_term(s, i) = Finally({Out("OK", s)}, LAMBDA t : cxd2856er_sleep(t, i))
  BY DEF cxd2856er_term, Return
<1>2. Out("OK", s).s = s
  BY DEF Out
<1>3. \A o \in cxd2856er_term(s, i) : \E p \in cxd2856er_sleep(s, i) : o.s = p.s
  BY <1>1, <1>2 DEF Finally, Out
<1> QED BY <1>3, DemodSleeps

(* The wake-up proper, of a demodulator that is asleep.                    *)
LEMMA WakeRight ==
    ASSUME NEW s, NEW i \in Rx(family), NEW system \in Systems
    PROVE  \A o \in Wake(s, i, system) :
              /\ Spares(s, o.s, Rx(family) \ {i})
              /\ ChipBoard(s) /\ Fresh(s, i) => Restorable(o.s, i) /\ Settled(o.s, i)
<1> DEFINE J == Rx(family) \ {i}
           P == WakeupProgram(system)
           begun == IF system \in CableSystems THEN SetDemod(s, i, Active(system, TRUE)) ELSE s
           Done(t) == SetDemod(t, i, Active(system, FALSE))
<1> SUFFICES ASSUME ChipBoard(s), NEW o \in Wake(s, i, system)
             PROVE  Spares(s, o.s, J) /\ (Fresh(s, i) => Restorable(o.s, i) /\ Settled(o.s, i))
    BY DEF Spares
<1>1. Wake(s, i, system) = Then(Program(begun, i, P), LAMBDA t : {Out("OK", Done(t))})
  BY DEF Wake, Return, Active
<1>2. /\ IsProgram(P)
      /\ system \in CableSystems \/ Untouched(P)
      /\ system = "C" => /\ Avoids(P, "j83b") /\ Leaves(P, "a3", "cable")
                         /\ Leaves(P, "qam", "C") /\ Leaves(P, "fec", "C")
      /\ system = "J" => /\ Avoids(P, "fec") /\ Leaves(P, "a3", "cable")
                         /\ Leaves(P, "qam", "J") /\ Leaves(P, "j83b", "J")
  <2>1. P = CASE system = "T" -> cxd2856er_wakeup_isdbt [] system = "S" -> cxd2856er_wakeup_isdbs
              [] system = "C" -> cxd2856er_wakeup_isdbc [] system = "J" -> cxd2856er_wakeup_j83b
    BY DEF WakeupProgram, Systems
  <2> HIDE DEF P
  <2> QED BY <2>1, CablePrograms, BroadcastPrograms DEF Systems, CableSystems, Untouched
<1>3. /\ Spares(s, begun, J) /\ ChipBoard(begun) /\ begun.reg = s.reg
      /\ begun.demod[i] = IF system \in CableSystems THEN Active(system, TRUE) ELSE s.demod[i]
  <2> DEFINE e == Active(system, TRUE)
  <2>1. Spares(s, SetDemod(s, i, e), J) /\ SetDemod(s, i, e).demod[i] = e /\ SetDemod(s, i, e).reg = s.reg
    <3> HIDE DEF e
    <3> QED BY SetDemodSpares
  <2>2. Spares(s, s, J)
    BY SparesRefl
  <2> HIDE DEF e
  <2>3. begun = IF system \in CableSystems THEN SetDemod(s, i, e) ELSE s
    BY DEF e
  <2> HIDE DEF begun
  <2> QED BY <2>1, <2>2, <2>3 DEF Spares, e
<1>4. ASSUME NEW t, ChipBoard(t)
      PROVE  Spares(t, Done(t), J) /\ Done(t).demod[i] = Active(system, FALSE) /\ Done(t).reg = t.reg
  <2> DEFINE e == Active(system, FALSE)
  <2> HIDE DEF e
  <2>1. Spares(t, SetDemod(t, i, e), J) /\ SetDemod(t, i, e).demod[i] = e /\ SetDemod(t, i, e).reg = t.reg
    BY <1>4, SetDemodSpares
  <2> QED BY <2>1 DEF e
<1> HIDE DEF begun, Done, P
<1>5. ASSUME NEW a \in Program(begun, i, P)
      PROVE  /\ Spares(s, a.s, J) /\ ChipBoard(a.s) /\ Programs(begun, a, i, P)
  <2>1. Len(P) \in Nat
    BY <1>2 DEF IsProgram
  <2>2. Spares(begun, a.s, J) /\ Programs(begun, a, i, P)
    BY <1>3, <2>1, ProgramWrites
  <2> QED BY <1>3, <2>2, SparesTrans DEF Spares
<1>6. \/ o \in Program(begun, i, P) /\ o.ret # "OK"
      \/ \E a \in Program(begun, i, P) : a.ret = "OK" /\ o = Out("OK", Done(a.s))
  BY <1>1 DEF Then
<1>7. "a3" \in CableRegs /\ "qam" \in CableRegs /\ "fec" \in CableRegs /\ "j83b" \in CableRegs
  BY DEF CableRegs
<1>8. CASE o \in Program(begun, i, P) /\ o.ret # "OK"
  <2>1. Spares(s, o.s, J) /\ Programs(begun, o, i, P)
    BY <1>5, <1>8
  <2> SUFFICES ASSUME Fresh(s, i) PROVE Restorable(o.s, i) /\ Settled(o.s, i)
      BY <2>1
  <2>2. CASE system \in CableSystems
    <3>1. o.s.demod[i] = Active(system, TRUE)
      BY <2>1, <2>2, <1>3 DEF Programs
    <3>2. /\ system = "C" => o.s.reg[i]["j83b"] = "default"
          /\ system = "J" => o.s.reg[i]["fec"] = "default"
      BY <2>1, <1>2, <1>3, <1>7 DEF Programs, Fresh, Cleared
    <3>3. Restorable(o.s, i)
      BY <3>1, <3>2, <2>2 DEF Restorable
    <3> QED BY <3>1, <3>3 DEF Settled, Active
  <2>3. CASE system \notin CableSystems
    <3>1. Fresh(o.s, i)
      BY <2>1, <2>3, <1>2, <1>3 DEF Programs, Fresh, Cleared, Untouched
    <3> QED BY <3>1, FreshPlain
  <2> QED BY <2>2, <2>3
<1>9. ASSUME NEW a \in Program(begun, i, P), a.ret = "OK", o = Out("OK", Done(a.s))
      PROVE  Spares(s, o.s, J) /\ (Fresh(s, i) => Restorable(o.s, i) /\ Settled(o.s, i))
  <2>1. Spares(s, a.s, J) /\ ChipBoard(a.s) /\ Programs(begun, a, i, P) /\ o.s = Done(a.s)
    BY <1>5, <1>9 DEF Out
  <2>2. Spares(s, o.s, J) /\ o.s.demod[i] = Active(system, FALSE) /\ o.s.reg = a.s.reg
    BY <2>1, <1>4, SparesTrans
  <2> SUFFICES ASSUME Fresh(s, i) PROVE Restorable(o.s, i) /\ Settled(o.s, i)
      BY <2>2
  <2>3. \A x \in CableRegs : s.reg[i][x] = "default"
    BY DEF Fresh, Cleared
  <2>4. CASE system = "C"
    <3>1. /\ o.s.reg[i]["j83b"] = "default" /\ o.s.reg[i]["a3"] = "cable"
          /\ o.s.reg[i]["qam"] = "C" /\ o.s.reg[i]["fec"] = "C"
      BY <2>1, <2>2, <2>3, <2>4, <1>2, <1>3, <1>7, <1>9 DEF Programs
    <3>2. Restorable(o.s, i)
      BY <2>2, <2>4, <3>1 DEF Restorable, CableSystems
    <3>3. Settled(o.s, i)
      BY <2>2, <2>4, <3>1 DEF Settled, CableConfig, CableRegs, CableSystems, Active
    <3> QED BY <3>2, <3>3
  <2>5. CASE system = "J"
    <3>1. /\ o.s.reg[i]["fec"] = "default" /\ o.s.reg[i]["a3"] = "cable"
          /\ o.s.reg[i]["qam"] = "J" /\ o.s.reg[i]["j83b"] = "J"
      BY <2>1, <2>2, <2>3, <2>5, <1>2, <1>3, <1>7, <1>9 DEF Programs
    <3>2. Restorable(o.s, i)
      BY <2>2, <2>5, <3>1 DEF Restorable, CableSystems
    <3>3. Settled(o.s, i)
      BY <2>2, <2>5, <3>1 DEF Settled, CableConfig, CableRegs, CableSystems, Active
    <3> QED BY <3>2, <3>3
  <2>6. CASE system \notin CableSystems
    <3>1. Cleared(o.s, i)
      BY <2>1, <2>2, <2>3, <2>6, <1>2, <1>3 DEF Programs, Untouched, Cleared
    <3>2. system # "C" /\ system # "J"
      BY <2>6 DEF CableSystems
    <3>3. Restorable(o.s, i)
      BY <2>2, <3>1, <3>2 DEF Restorable
    <3>4. Settled(o.s, i)
      BY <2>2, <2>6 DEF Settled, Active
    <3> QED BY <3>3, <3>4
  <2> QED BY <2>4, <2>5, <2>6 DEF CableSystems
<1> QED BY <1>6, <1>8, <1>9

LEMMA SleepOfActive ==
    ASSUME NEW s, NEW i, s.demod[i].state = "ACTIVE", s.demod[i].system \in CableSystems
    PROVE  \A o \in cxd2856er_sleep(s, i) : o.ret # "EALREADY"
<1> DEFINE P == IF s.demod[i].system = "C" THEN cxd2856er_sleep_isdbc ELSE cxd2856er_sleep_j83b
           Asleep(t) == SetDemod(t, i, DemodAsleep)
<1>1. cxd2856er_sleep(s, i) = Then(Program(s, i, P), LAMBDA t : {Out("OK", Asleep(t))})
  BY DEF cxd2856er_sleep, Return, CableSystems
<1>2. \A o \in Program(s, i, P) : o.ret \in {"OK", "EIO"}
  <2>1. \A ok : \A o \in it930x_ctrl_msg(s, ok) : o.ret = "EIO"
    BY DEF it930x_ctrl_msg, Out
  <2> HIDE DEF P
  <2> DEFINE At(k) == [s EXCEPT !.reg[i] = Applied(@, P, k)]
             Tear(k) == [At(k) EXCEPT !.reg[i][P[k + 1][1]] = Mixed]
             ok == {At(k) : k \in 0..Len(P)} \cup {Tear(k) : k \in 0..(Len(P) - 1)}
             done == At(Len(P))
  <2>2. Program(s, i, P) = (IF s.gone THEN {} ELSE {Out("OK", done)}) \cup it930x_ctrl_msg(s, ok)
    BY DEF Program
  <2> HIDE DEF ok, done
  <2> QED BY <2>1, <2>2 DEF Out
<1> HIDE DEF P, Asleep
<1> QED BY <1>1, <1>2 DEF Then, Out

(* Tuning again within a system.                                           *)
LEMMA ResetKeeps ==
    ASSUME NEW s, NEW i \in Rx(family), NEW system \in Systems, s.demod[i].system = system
    PROVE  \A o \in Program(s, i, ResetProgram(system)) :
              Spares(s, o.s, Rx(family) \ {i}) /\ Keeps(s, o.s, i)
<1> DEFINE J == Rx(family) \ {i}
           P == ResetProgram(system)
<1> SUFFICES ASSUME ChipBoard(s), NEW o \in Program(s, i, P)
             PROVE  Spares(s, o.s, J) /\ Keeps(s, o.s, i)
    BY DEF Spares, Keeps
<1>1. /\ IsProgram(P)
      /\ system # "J" => Untouched(P)
      /\ system = "J" => /\ Leaves(P, "qam", "J")
                         /\ \A x \in {"a3", "fec", "j83b"} : Avoids(P, x)
  <2>1. P = CASE system = "T" -> cxd2856er_reset_isdbt [] system = "S" -> cxd2856er_reset_isdbs
              [] system = "C" -> cxd2856er_reset_isdbc [] system = "J" -> cxd2856er_reset_j83b
    BY DEF ResetProgram, Systems
  <2> HIDE DEF P
  <2> QED BY <2>1, CablePrograms, BroadcastPrograms DEF Systems, Untouched
<1> HIDE DEF P
<1>2. Len(P) \in Nat
  BY <1>1 DEF IsProgram
<1>3. Spares(s, o.s, J) /\ Programs(s, o, i, P)
  BY <1>2, ProgramWrites
<1>4. CASE system # "J"
  <2>1. Spares(s, o.s, J \cup {i})
    BY <1>1, <1>3, <1>4 DEF Spares, SameChip, Programs, Untouched
  <2> QED BY <2>1, <1>3, SparesKeeps
<1>5. CASE system = "J"
  <2> SUFFICES ASSUME Restorable(s, i)
               PROVE  Restorable(o.s, i) /\ (Settled(s, i) /\ ~s.gone /\ o.s.faults = s.faults => Settled(o.s, i))
      BY <1>3 DEF Keeps
  <2>1. /\ o.s.demod[i] = s.demod[i]
        /\ \A x \in {"a3", "fec", "j83b"} : o.s.reg[i][x] = s.reg[i][x]
        /\ o.ret = "OK" => o.s.reg[i]["qam"] = "J"
        /\ o.ret # "OK" => s.gone \/ o.s.faults < s.faults
    BY <1>1, <1>3, <1>5 DEF Programs, CableRegs
  <2>2. PICK b \in BOOLEAN : s.demod[i] = Active("J", b) /\ s.reg[i]["fec"] = "default"
    BY <1>5, RestorableForm
  <2>3. Restorable(o.s, i)
    BY <2>1, <2>2 DEF Restorable, Systems, CableSystems
  <2>4. ASSUME Settled(s, i), ~s.gone, o.s.faults = s.faults PROVE Settled(o.s, i)
    <3>1. o.ret = "OK"
      BY <2>1, <2>4, <1>3 DEF Spares, ChipBoard, Device
    <3> QED BY <2>1, <2>2, <2>4, <3>1, <1>5 DEF Settled, CableConfig, CableRegs, CableSystems, Active
  <2> QED BY <2>3, <2>4
<1> QED BY <1>4, <1>5

(* The wake-up: it restores what another cable system, or an attempt that  *)
(* failed, left behind, before it sets anything itself.                    *)
LEMMA WakeupKeeps ==
    ASSUME NEW s, NEW i \in Rx(family), NEW system \in Systems
    PROVE  \A o \in cxd2856er_wakeup(s, i, system) :
              Spares(s, o.s, Rx(family) \ {i}) /\ Keeps(s, o.s, i)
<1> DEFINE J == Rx(family) \ {i}
           First == IF MustRestore(s.demod[i], system) THEN cxd2856er_sleep(s, i) ELSE {Out("OK", s)}
           Again(t) == Program(t, i, ResetProgram(system))
           Change(t) == Anyway(cxd2856er_sleep(t, i), LAMBDA u : Wake(u, i, system))
           Rest(t) == CASE t.demod[i].state = "ACTIVE" /\ t.demod[i].system = system -> Again(t)
                        [] t.demod[i].state = "ACTIVE" /\ t.demod[i].system # system -> Change(t)
                        [] OTHER -> Wake(t, i, system)
           Good(t, o) == Spares(t, o.s, J) /\ Keeps(t, o.s, i)
<1>1. cxd2856er_wakeup(s, i, system) = Then(First, LAMBDA t : Rest(t))
  BY DEF cxd2856er_wakeup, Return
<1>2. ASSUME NEW t, NEW o \in Wake(t, i, system)
      PROVE  /\ Spares(t, o.s, J)
             /\ ChipBoard(t) /\ Fresh(t, i) => Restorable(o.s, i) /\ Settled(o.s, i)
  BY WakeRight
<1>3. ASSUME NEW t, t.demod[i].system = system, NEW o \in Again(t) PROVE Good(t, o)
  BY <1>3, ResetKeeps
<1>4. ASSUME NEW t, NEW o \in Change(t)
      PROVE  /\ Spares(t, o.s, J)
             /\ ChipBoard(t) /\ Restorable(t, i) /\ t.demod[i].system \notin CableSystems =>
                   Restorable(o.s, i) /\ Settled(o.s, i)
  <2>1. PICK a \in cxd2856er_sleep(t, i) : o \in Wake(a.s, i, system)
    BY <1>4 DEF Anyway
  <2>2. Spares(t, a.s, J) /\ Sleeps(t, a, i)
    BY DemodSleeps
  <2>3. Spares(t, o.s, J)
    BY <2>1, <2>2, <1>2, SparesTrans
  <2> QED BY <2>1, <2>2, <2>3, <1>2 DEF Sleeps, Spares
<1> SUFFICES ASSUME ChipBoard(s), NEW o \in cxd2856er_wakeup(s, i, system) PROVE Good(s, o)
    BY DEF Spares, Keeps
<1> HIDE DEF Again, Change
<1>5. CASE MustRestore(s.demod[i], system)
  <2>1. First = cxd2856er_sleep(s, i)
    BY <1>5
  <2> HIDE DEF First
  <2>2. PICK a \in cxd2856er_sleep(s, i) : (o = a /\ a.ret # "OK") \/ (a.ret = "OK" /\ o \in Rest(a.s))
    BY <1>1, <2>1 DEF Then
  <2>3. Spares(s, a.s, J) /\ Sleeps(s, a, i) /\ ChipBoard(a.s)
    BY DemodSleeps DEF Spares
  <2>4. s.demod[i].state = "ACTIVE" /\ s.demod[i].system \in CableSystems
    BY <1>5 DEF MustRestore
  <2>5. CASE o = a /\ a.ret # "OK"
    <3>1. Restorable(s, i) => Restorable(a.s, i) /\ (a.ret # "EALREADY" => s.gone \/ a.s.faults < s.faults)
      BY <2>3, <2>5 DEF Sleeps
    <3>2. a.ret # "EALREADY"
      BY <2>4, SleepOfActive
    <3>3. a.s.faults = s.faults => ~(a.s.faults < s.faults)
      BY <2>3 DEF ChipBoard, Device
    <3> QED BY <3>1, <3>2, <3>3, <2>3, <2>5 DEF Keeps
  <2>6. CASE a.ret = "OK" /\ o \in Rest(a.s)
    <3>1. CASE Restorable(s, i)
      <4>1. Fresh(a.s, i)
        BY <3>1, <2>3, <2>6 DEF Sleeps
      <4>2. a.s.demod[i].state # "ACTIVE"
        BY <4>1 DEF Fresh, DemodAsleep, DemodUnknown
      <4>3. o \in Wake(a.s, i, system)
        BY <4>2, <2>6
      <4>4. Spares(a.s, o.s, J) /\ Restorable(o.s, i) /\ Settled(o.s, i)
        BY <4>1, <4>3, <2>3, <1>2
      <4> QED BY <4>4, <2>3, SparesTrans DEF Keeps
    <3>2. CASE ~Restorable(s, i)
      <4>1. Spares(a.s, o.s, J)
        BY <2>6, <1>2, <1>3, <1>4
      <4> QED BY <4>1, <3>2, <2>3, SparesTrans DEF Keeps
    <3> QED BY <3>1, <3>2
  <2> QED BY <2>2, <2>5, <2>6
<1>6. CASE ~MustRestore(s.demod[i], system)
  <2>1. First = {Out("OK", s)}
    BY <1>6
  <2> HIDE DEF First
  <2>2. o \in Rest(s)
    BY <1>1, <2>1 DEF Then, Out
  <2>3. CASE s.demod[i].state = "ACTIVE" /\ s.demod[i].system = system
    BY <2>2, <2>3, <1>3
  <2>4. CASE s.demod[i].state = "ACTIVE" /\ s.demod[i].system # system
    <3>1. s.demod[i].system \notin CableSystems
      BY <2>4, <1>6 DEF MustRestore
    <3> QED BY <2>2, <2>4, <3>1, <1>4 DEF Keeps
  <2>5. CASE s.demod[i].state # "ACTIVE"
    <3>1. o \in Wake(s, i, system)
      BY <2>2, <2>5
    <3>2. Restorable(s, i) => Fresh(s, i)
      BY <2>5, RestorableForm
    <3> QED BY <3>1, <3>2, <1>2 DEF Keeps
  <2> QED BY <2>3, <2>4, <2>5
<1> QED BY <1>5, <1>6

-----------------------------------------------------------------------------
(* The tuner, and the rest of the board.                                   *)

LEMMA UntouchedSpares ==
    ASSUME NEW s, NEW i \in Rx(family), NEW P, Untouched(P)
    PROVE  \A o \in Program(s, i, P) : Spares(s, o.s, Rx(family))
<1> SUFFICES ASSUME ChipBoard(s), NEW o \in Program(s, i, P) PROVE Spares(s, o.s, Rx(family))
    BY DEF Spares
<1>1. Len(P) \in Nat
  BY DEF Untouched, IsProgram
<1>2. Spares(s, o.s, Rx(family) \ {i}) /\ Programs(s, o, i, P)
  BY <1>1, ProgramWrites
<1> QED BY <1>2 DEF Spares, SameChip, Programs, Untouched

(* No program of the tuner, and none of the demodulator's gate, monitor,   *)
(* stream and output registers, touches the cable registers.               *)
LEMMA TunerPrograms ==
    ASSUME NEW v, NEW w
    PROVE  /\ Untouched(<< <<"gate", v>> >>) /\ Untouched(<< <<"slot", v>> >>)
           /\ Untouched(<< <<"freeze", v>> >>) /\ Untouched(<< <<"mute", v>> >>)
           /\ Untouched(<< <<"mode", "T">>, <<"rfin", v>>, <<"lna", "ter">>, <<"ter", "standby">>,
                           <<"sat", Unset>> >>)
           /\ Untouched(<< <<"rfin", v>>, <<"ter", "standby">> >>)
           /\ Untouched(<< <<"lna", "ter">>, <<"sat", Unset>>, <<"mode", "T">> >>
                          \o IF v THEN << <<"rfin", TRUE>> >> ELSE << >>)
           /\ Untouched(TerrestrialProgram(v, w))
           /\ Untouched(<< <<"lna", "sat">>, <<"mode", "S">>, <<"sat", v>> >>)
<1>1. ASSUME NEW x, x \notin CableRegs PROVE Untouched(<< <<x, v>> >>) /\ Untouched(<< <<x, TRUE>> >>)
  <2>1. IsProgram(<< <<x, v>> >>) /\ IsProgram(<< <<x, TRUE>> >>)
    BY Listed1
  <2>2. \A y \in CableRegs : Avoids(<< <<x, v>> >>, y) /\ Avoids(<< <<x, TRUE>> >>, y)
    BY <1>1 DEF Avoids
  <2> QED BY <2>1, <2>2 DEF Untouched
<1>2. {"gate", "slot", "freeze", "mute", "rfin"} \cap CableRegs = {}
  BY DEF CableRegs
<1>3. Untouched(<< <<"mode", "T">>, <<"rfin", v>>, <<"lna", "ter">>, <<"ter", "standby">>, <<"sat", Unset>> >>)
  <2> DEFINE P == << <<"mode", "T">>, <<"rfin", v>>, <<"lna", "ter">>, <<"ter", "standby">>, <<"sat", Unset>> >>
  <2>1. IsProgram(P)
    BY Listed5
  <2>2. \A y \in CableRegs : Avoids(P, y)
    BY DEF Avoids, CableRegs
  <2> QED BY <2>1, <2>2 DEF Untouched
<1>4. Untouched(<< <<"rfin", v>>, <<"ter", "standby">> >>)
  <2> DEFINE P == << <<"rfin", v>>, <<"ter", "standby">> >>
  <2>1. IsProgram(P)
    BY Listed2
  <2>2. \A y \in CableRegs : Avoids(P, y)
    BY DEF Avoids, CableRegs
  <2> QED BY <2>1, <2>2 DEF Untouched
<1>5. Untouched(<< <<"lna", "ter">>, <<"sat", Unset>>, <<"mode", "T">> >>)
  <2> DEFINE P == << <<"lna", "ter">>, <<"sat", Unset>>, <<"mode", "T">> >>
  <2>1. IsProgram(P)
    BY Listed3
  <2>2. \A y \in CableRegs : Avoids(P, y)
    BY DEF Avoids, CableRegs
  <2> QED BY <2>1, <2>2 DEF Untouched
<1>6. Untouched(<< <<"lna", "sat">>, <<"mode", "S">>, <<"sat", v>> >>)
  <2> DEFINE P == << <<"lna", "sat">>, <<"mode", "S">>, <<"sat", v>> >>
  <2>1. IsProgram(P)
    BY Listed3
  <2>2. \A y \in CableRegs : Avoids(P, y)
    BY DEF Avoids, CableRegs
  <2> QED BY <2>1, <2>2 DEF Untouched
<1>7. Untouched(TerrestrialProgram(v, w))
  <2> DEFINE P == << <<"mode", "T">>, <<"ter", "on">>, <<"rfin", FALSE>>, <<"tune", <<v, w>> >> >>
  <2>1. IsProgram(P)
    BY Listed4
  <2>2. \A y \in CableRegs : Avoids(P, y)
    BY DEF Avoids, CableRegs
  <2> QED BY <2>1, <2>2 DEF Untouched, TerrestrialProgram
<1>8. Untouched(<< >>)
  <2>1. << >> \in Seq({})
    OBVIOUS
  <2> QED BY <2>1 DEF Untouched, IsProgram, Avoids
<1> DEFINE A == << <<"lna", "ter">>, <<"sat", Unset>>, <<"mode", "T">> >>
           B == << <<"rfin", TRUE>> >>
           E == << >>
<1>9. Untouched(A \o IF v THEN B ELSE E)
  <2>1. Untouched(A) /\ Untouched(B) /\ Untouched(E)
    BY <1>1, <1>2, <1>5, <1>8
  <2> HIDE DEF A, B, E
  <2> QED BY <2>1, UntouchedJoined
<1> QED BY <1>1, <1>2, <1>3, <1>4, <1>6, <1>7, <1>9

(* Programs of the tuner and what follows them.                            *)
LEMMA TunerStopSpares ==
    ASSUME NEW s, NEW i \in Rx(family)
    PROVE  \A o \in cxd2858er_stop_t(s, i) \cup cxd2858er_stop_s(s, i) : Spares(s, o.s, Rx(family))
<1> DEFINE v == s.tuner[i].rfin
           P == << <<"rfin", v>>, <<"ter", "standby">> >>
           Q == << <<"lna", "ter">>, <<"sat", Unset>>, <<"mode", "T">> >>
                \o IF v THEN << <<"rfin", TRUE>> >> ELSE << >>
<1>1. Untouched(P) /\ Untouched(Q)
  BY TunerPrograms
<1>2. /\ cxd2858er_stop_t(s, i) = Then(Program(s, i, P), LAMBDA t : {Out("OK", SetSystem(t, i, "UNSPECIFIED"))})
      /\ cxd2858er_stop_s(s, i) = Then(Program(s, i, Q), LAMBDA t : {Out("OK", SetSystem(t, i, "UNSPECIFIED"))})
  BY DEF cxd2858er_stop_t, cxd2858er_stop_s, cxd2858er_write_regs, Return
<1> HIDE DEF P, Q
<1>3. \A a \in Program(s, i, P) \cup Program(s, i, Q) : Spares(s, a.s, Rx(family))
  BY <1>1, UntouchedSpares
<1> QED BY <1>2, <1>3, SetSystemSpares, SparesTrans DEF Then, Out

LEMMA GateSpares ==
    ASSUME NEW s, NEW i \in Rx(family), NEW open
    PROVE  \A o \in cxd2856er_i2c_master_gate_ctrl(s, i, open) : Spares(s, o.s, Rx(family))
BY TunerPrograms, UntouchedSpares DEF cxd2856er_i2c_master_gate_ctrl

LEMMA TunerInitSpares ==
    ASSUME NEW s, NEW i \in Rx(family)
    PROVE  \A o \in cxd2858er_init(s, i) : Spares(s, o.s, Rx(family))
<1> DEFINE Open(t) == cxd2856er_i2c_master_gate_ctrl(t, i, TRUE)
           Close(t) == cxd2856er_i2c_master_gate_ctrl(t, i, FALSE)
           On(t) == cxd2858er_power_on(t, i)
           Inside(t) == Finally(On(t), LAMBDA u : Close(u))
           s1 == SetSystem(s, i, "UNSPECIFIED")
<1>1. ASSUME NEW t PROVE \A o \in On(t) : Spares(t, o.s, Rx(family))
  <2> DEFINE P == << <<"mode", "T">>, <<"rfin", t.tuner[i].rfin>>, <<"lna", "ter">>, <<"ter", "standby">>,
                     <<"sat", Unset>> >>
  <2>1. Untouched(P)
    BY TunerPrograms
  <2>2. On(t) = Then(Program(t, i, P), LAMBDA u : Access(u))
    BY DEF cxd2858er_power_on, cxd2858er_write_regs
  <2> HIDE DEF P
  <2> QED BY <2>1, <2>2, UntouchedSpares, AccessSpares, SparesTrans DEF Then
<1>2. ASSUME NEW t PROVE \A o \in Open(t) \cup Close(t) : Spares(t, o.s, Rx(family))
  BY GateSpares
<1>3. Spares(s, s1, Rx(family))
  BY SetSystemSpares
<1>4. cxd2858er_init(s, i) = Then(Open(s1), LAMBDA t : Inside(t))
  BY DEF cxd2858er_init, Gated
<1> HIDE DEF Open, Close, On, s1
<1>5. ASSUME NEW t PROVE \A o \in Inside(t) : Spares(t, o.s, Rx(family))
  BY <1>1, <1>2, SparesTrans DEF Finally, Out
<1> HIDE DEF Inside
<1> QED BY <1>2, <1>3, <1>4, <1>5, SparesTrans DEF Then

LEMMA TunerTermSpares ==
    ASSUME NEW s, NEW i \in Rx(family)
    PROVE  \A o \in cxd2858er_term(s, i) : Spares(s, o.s, Rx(family))
<1> DEFINE Open(t) == cxd2856er_i2c_master_gate_ctrl(t, i, TRUE)
           Close(t) == cxd2856er_i2c_master_gate_ctrl(t, i, FALSE)
           Stop(t) == Anyway(StopRunning(t, i), LAMBDA u : {Out("OK", u)})
           Inside(t) == Finally(Stop(t), LAMBDA u : Close(u))
           Forget(t) == SetSystem(t, i, "UNSPECIFIED")
<1>1. ASSUME NEW t PROVE \A o \in Stop(t) : Spares(t, o.s, Rx(family))
  <2>1. \A o \in StopRunning(t, i) : Spares(t, o.s, Rx(family))
    BY TunerStopSpares DEF StopRunning
  <2> QED BY <2>1 DEF Anyway, Out
<1>2. ASSUME NEW t PROVE \A o \in Open(t) \cup Close(t) : Spares(t, o.s, Rx(family))
  BY GateSpares
<1>3. \A t : Spares(t, Forget(t), Rx(family))
  BY SetSystemSpares
<1>4. \/ cxd2858er_term(s, i) = {Out("OK", s)}
      \/ cxd2858er_term(s, i) = UNION {IF o.ret = "OK" THEN Inside(o.s) ELSE {Out("OK", Forget(o.s))} : o \in Open(s)}
  BY DEF cxd2858er_term, Return
<1> HIDE DEF Open, Close, Stop, Forget
<1>5. ASSUME NEW t PROVE \A o \in Inside(t) : Spares(t, o.s, Rx(family))
  BY <1>1, <1>2, SparesTrans DEF Finally, Out
<1> HIDE DEF Inside
<1> QED BY <1>2, <1>3, <1>4, <1>5, SparesTrans, SparesRefl DEF Out

(* Tuning, to a terrestrial or cable channel or to a satellite one.        *)
Writing(s, i, P, system) == Then(cxd2858er_write_regs(s, i, P), LAMBDA v : Return("OK", SetSystem(v, i, system)))
Terrestrial(s, i, P, system) ==
    Gated(s, i, LAMBDA t : Then(LeaveSatellite(t, i), LAMBDA u : Writing(u, i, P, system)))
Satellite(s, i, P, system) ==
    Gated(s, i, LAMBDA t : Then(LeaveTerrestrial(t, i), LAMBDA u : Writing(u, i, P, system)))
LEMMA TunedSpares ==
    ASSUME NEW s, NEW i \in Rx(family), NEW P, Untouched(P), NEW system
    PROVE  /\ \A o \in Terrestrial(s, i, P, system) : Spares(s, o.s, Rx(family))
           /\ \A o \in Satellite(s, i, P, system) : Spares(s, o.s, Rx(family))
<1> DEFINE Open(t) == cxd2856er_i2c_master_gate_ctrl(t, i, TRUE)
           Close(t) == cxd2856er_i2c_master_gate_ctrl(t, i, FALSE)
           W(u) == Writing(u, i, P, system)
           T(t) == Then(LeaveSatellite(t, i), LAMBDA u : W(u))
           S(t) == Then(LeaveTerrestrial(t, i), LAMBDA u : W(u))
           InT(t) == Finally(T(t), LAMBDA u : Close(u))
           InS(t) == Finally(S(t), LAMBDA u : Close(u))
<1>1. ASSUME NEW t PROVE \A o \in LeaveSatellite(t, i) \cup LeaveTerrestrial(t, i) : Spares(t, o.s, Rx(family))
  BY TunerStopSpares, SparesRefl DEF LeaveSatellite, LeaveTerrestrial, Return, Out
<1>2. ASSUME NEW u PROVE \A o \in W(u) : Spares(u, o.s, Rx(family))
  BY UntouchedSpares, SetSystemSpares, SparesTrans DEF Writing, Then, cxd2858er_write_regs, Return, Out
<1>3. ASSUME NEW t PROVE \A o \in Open(t) \cup Close(t) : Spares(t, o.s, Rx(family))
  BY GateSpares
<1>4. /\ Terrestrial(s, i, P, system) = Then(Open(s), LAMBDA t : InT(t))
      /\ Satellite(s, i, P, system) = Then(Open(s), LAMBDA t : InS(t))
  BY DEF Terrestrial, Satellite, Gated
<1> HIDE DEF W, Open, Close
<1>5. ASSUME NEW t PROVE \A o \in T(t) \cup S(t) : Spares(t, o.s, Rx(family))
  BY <1>1, <1>2, SparesTrans DEF Then
<1> HIDE DEF T, S
<1>6. ASSUME NEW t PROVE \A o \in InT(t) \cup InS(t) : Spares(t, o.s, Rx(family))
  BY <1>3, <1>5, SparesTrans DEF Finally, Out
<1> HIDE DEF InT, InS
<1> QED BY <1>3, <1>4, <1>6, SparesTrans DEF Then

LEMMA TunerParamsSpares ==
    ASSUME NEW s, NEW i \in Rx(family), NEW p
    PROVE  \A o \in SetTuner(s, i, p) : Spares(s, o.s, Rx(family))
<1> DEFINE P == TerrestrialProgram("T", p.freq % 2^20)
           Q == << <<"lna", "sat">>, <<"mode", "S">>, <<"sat", ((p.freq + 2) \div 4) % 2^20>> >>
           R == TerrestrialProgram(IF p.system = "J" THEN "J" ELSE "C", p.freq)
<1>1. Untouched(P) /\ Untouched(Q) /\ Untouched(R)
  BY TunerPrograms
<1>2. cxd2858er_set_params_t(s, i, p.freq) = Terrestrial(s, i, P, "T")
  BY DEF cxd2858er_set_params_t, Terrestrial, Writing
<1>3. cxd2858er_set_params_s(s, i, p.freq) = Satellite(s, i, Q, "S")
  BY DEF cxd2858er_set_params_s, Satellite, Writing
<1>4. cxd2858er_set_params_c(s, i, p.freq, p.system = "J") =
         IF p.freq > 1048575 THEN {Out("EINVAL", s)} ELSE Terrestrial(s, i, R, "C")
  BY SMT DEF cxd2858er_set_params_c, Terrestrial, Writing, Return, Gated, Then, Finally
<1> HIDE DEF P, Q, R
<1>5. /\ \A o \in Terrestrial(s, i, P, "T") : Spares(s, o.s, Rx(family))
      /\ \A o \in Satellite(s, i, Q, "S") : Spares(s, o.s, Rx(family))
      /\ \A o \in Terrestrial(s, i, R, "C") : Spares(s, o.s, Rx(family))
  BY <1>1, TunedSpares
<1>6. Out("EINVAL", s).s = s
  BY DEF Out
<1> QED BY <1>2, <1>3, <1>4, <1>5, <1>6, SparesRefl, SMT DEF SetTuner

-----------------------------------------------------------------------------
(* What a board does besides tuning.                                       *)

LEMMA FieldsSpare ==
    ASSUME NEW s, NEW v, NEW g
    PROVE  /\ Spares(s, [s EXCEPT !.level[g] = v], Rx(family))
           /\ Spares(s, [s EXCEPT !.filter[g] = v], Rx(family))
           /\ v \in BOOLEAN => Spares(s, [s EXCEPT !.nullOff[g] = v], Rx(family))
           /\ Spares(s, [s EXCEPT !.bus = v], Rx(family))
           /\ Spares(s, [s EXCEPT !.streaming_count = v], Rx(family))
           /\ Spares(s, [s EXCEPT !.lnb_power_count = v], Rx(family))
           /\ v \in BOOLEAN => Spares(s, [s EXCEPT !.lnb[g] = v], Rx(family))
           /\ Spares(s, [s EXCEPT !.card_powered = v], Rx(family))
           /\ Spares(s, [s EXCEPT !.tuner[g].rfin = v], Rx(family))
<1> SUFFICES ASSUME ChipBoard(s)
             PROVE  /\ Spares(s, [s EXCEPT !.level[g] = v], Rx(family))
                    /\ Spares(s, [s EXCEPT !.filter[g] = v], Rx(family))
                    /\ v \in BOOLEAN => Spares(s, [s EXCEPT !.nullOff[g] = v], Rx(family))
                    /\ Spares(s, [s EXCEPT !.bus = v], Rx(family))
                    /\ Spares(s, [s EXCEPT !.streaming_count = v], Rx(family))
                    /\ Spares(s, [s EXCEPT !.lnb_power_count = v], Rx(family))
                    /\ v \in BOOLEAN => Spares(s, [s EXCEPT !.lnb[g] = v], Rx(family))
                    /\ Spares(s, [s EXCEPT !.card_powered = v], Rx(family))
                    /\ Spares(s, [s EXCEPT !.tuner[g].rfin = v], Rx(family))
    BY DEF Spares
<1>1. Spares(s, [s EXCEPT !.level[g] = v], Rx(family))
  BY DEF Spares, SameChip, ChipBoard, Device, DeviceFields
<1>2. Spares(s, [s EXCEPT !.filter[g] = v], Rx(family))
  BY DEF Spares, SameChip, ChipBoard, Device, DeviceFields
<1>3. ASSUME v \in BOOLEAN PROVE Spares(s, [s EXCEPT !.nullOff[g] = v], Rx(family))
  <2>1. [s.nullOff EXCEPT ![g] = v] \in [Rx(family) -> BOOLEAN]
    BY <1>3 DEF ChipBoard, Device
  <2> QED BY <2>1 DEF Spares, SameChip, ChipBoard, Device, DeviceFields
<1>4. Spares(s, [s EXCEPT !.bus = v], Rx(family))
  BY DEF Spares, SameChip, ChipBoard, Device, DeviceFields
<1>5. Spares(s, [s EXCEPT !.streaming_count = v], Rx(family))
  BY DEF Spares, SameChip, ChipBoard, Device, DeviceFields
<1>6. Spares(s, [s EXCEPT !.lnb_power_count = v], Rx(family))
  BY DEF Spares, SameChip, ChipBoard, Device, DeviceFields
<1>7. ASSUME v \in BOOLEAN PROVE Spares(s, [s EXCEPT !.lnb[g] = v], Rx(family))
  <2>1. [s.lnb EXCEPT ![g] = v] \in [Rx(family) -> BOOLEAN]
    BY <1>7 DEF ChipBoard, Device
  <2> QED BY <2>1 DEF Spares, SameChip, ChipBoard, Device, DeviceFields
<1>8. Spares(s, [s EXCEPT !.card_powered = v], Rx(family))
  BY DEF Spares, SameChip, ChipBoard, Device, DeviceFields
<1>9. Spares(s, [s EXCEPT !.tuner[g].rfin = v], Rx(family))
  BY DEF Spares, SameChip, ChipBoard, Device, DeviceFields
<1> QED BY <1>1, <1>2, <1>3, <1>4, <1>5, <1>6, <1>7, <1>8, <1>9

(* The status ioctls, the slot and the unmuting write other registers.     *)
LEMMA DemodStatusSpares ==
    ASSUME NEW s, NEW i \in Rx(family), NEW id
    PROVE  \A o \in UNION {cxd2856er_post_tune(s, i), cxd2856er_set_slot_isdbs(s, i, id),
                           cxd2856er_set_tsid_isdbs(s, i, id), cxd2856er_is_ts_locked_isdbt(s),
                           cxd2856er_is_ts_locked_isdbs(s), cxd2856er_is_ts_locked_isdbc(s),
                           cxd2856er_read_cnr_raw_isdbt(s, i), cxd2856er_read_cnr_raw_isdbs(s),
                           cxd2856er_read_cnr_raw_isdbc(s, i)} : Spares(s, o.s, Rx(family))
<1> DEFINE Hold(t) == Freeze(t, i)
           Let(t) == Unfreeze(t, i)
<1>1. \A o \in cxd2856er_post_tune(s, i) : Spares(s, o.s, Rx(family))
  BY TunerPrograms, UntouchedSpares DEF cxd2856er_post_tune
<1>2. \A o \in cxd2856er_set_tsid_isdbs(s, i, id) : Spares(s, o.s, Rx(family))
  BY TunerPrograms, UntouchedSpares DEF cxd2856er_set_tsid_isdbs
<1>3. \A o \in cxd2856er_set_slot_isdbs(s, i, id) : Spares(s, o.s, Rx(family))
  BY <1>2, SparesRefl DEF cxd2856er_set_slot_isdbs, cxd2856er_set_tsid_isdbs, Return, Out
<1>4. \A o \in cxd2856er_is_ts_locked_isdbt(s) \cup cxd2856er_is_ts_locked_isdbs(s)
              \cup cxd2856er_is_ts_locked_isdbc(s) \cup cxd2856er_read_cnr_raw_isdbs(s) : Spares(s, o.s, Rx(family))
  BY AccessSpares, SparesRefl
     DEF cxd2856er_is_ts_locked_isdbt, cxd2856er_is_ts_locked_isdbs,
         cxd2856er_is_ts_locked_isdbc, cxd2856er_read_cnr_raw_isdbs, Out
<1>5. ASSUME NEW t PROVE \A o \in Hold(t) \cup Let(t) : Spares(t, o.s, Rx(family))
  BY TunerPrograms, UntouchedSpares DEF Freeze, Unfreeze
<1>6. /\ cxd2856er_read_cnr_raw_isdbt(s, i) = Then(Hold(s), LAMBDA t : Then(Access(t), LAMBDA u : Let(u)))
      /\ cxd2856er_read_cnr_raw_isdbc(s, i) = Then(Hold(s), LAMBDA t :
              UNION {{Out(IF o.ret # "OK" THEN o.ret ELSE p.ret, p.s) : p \in Let(o.s)} : o \in Access(t)})
  BY DEF cxd2856er_read_cnr_raw_isdbt, cxd2856er_read_cnr_raw_isdbc
<1> HIDE DEF Hold, Let
<1>7. \A o \in cxd2856er_read_cnr_raw_isdbt(s, i) : Spares(s, o.s, Rx(family))
  BY <1>5, <1>6, AccessSpares, SparesTrans DEF Then
<1>8. \A o \in cxd2856er_read_cnr_raw_isdbc(s, i) : Spares(s, o.s, Rx(family))
  BY <1>5, <1>6, AccessSpares, SparesTrans DEF Then, Out
<1> QED BY <1>1, <1>2, <1>3, <1>4, <1>7, <1>8

LEMMA WriteGpioSpares ==
    ASSUME NEW s, NEW g, NEW high
    PROVE  \A o \in it930x_write_gpio(s, g, high) : Spares(s, o.s, Rx(family))
<1> DEFINE t == [s EXCEPT !.level[g] = high]
<1>1. Spares(s, t, Rx(family)) /\ (ChipBoard(s) => t.faults = s.faults)
  BY FieldsSpare DEF ChipBoard, Device, DeviceFields
<1>2. \A o \in Set(s, t) : Spares(s, o.s, Rx(family))
  <2> HIDE DEF t
  <2> QED BY <1>1, SetSpares
<1> QED BY <1>2, SparesRefl DEF it930x_write_gpio, Return, Out

LEMMA NullFilterSpares ==
    ASSUME NEW s, NEW i \in Rx(family), NEW enable \in BOOLEAN
    PROVE  \A o \in pxmlt_chrdev_set_null_packet_filter(s, i, enable) : Spares(s, o.s, Rx(family))
<1> DEFINE t == [s EXCEPT !.filter[i] = IF enable THEN "block" ELSE "pass"]
           N(u) == [u EXCEPT !.nullOff[i] = ~enable]
<1>1. Spares(s, t, Rx(family)) /\ (ChipBoard(s) => t.faults = s.faults)
  BY FieldsSpare DEF ChipBoard, Device, DeviceFields
<1>2. \A u : Spares(u, N(u), Rx(family))
  BY FieldsSpare
<1>3. pxmlt_chrdev_set_null_packet_filter(s, i, enable) =
         IF s.nullOff[i] = ~enable THEN {Out("OK", s)} ELSE Then(Set(s, t), LAMBDA u : {Out("OK", N(u))})
  BY DEF pxmlt_chrdev_set_null_packet_filter, it930x_set_pid_filter, Return
<1> HIDE DEF t, N
<1>4. \A o \in Set(s, t) : Spares(s, o.s, Rx(family))
  BY <1>1, SetSpares
<1> QED BY <1>2, <1>3, <1>4, SparesRefl, SparesTrans DEF Then, Out

LEMMA SetLnbSpares ==
    ASSUME NEW s, NEW i \in Rx(family), NEW v
    PROVE  \A o \in SetLnb(s, i, v) : Spares(s, o.s, Rx(family))
<1> DEFINE on == v # 0
           left == IF on THEN s.lnb_power_count ELSE s.lnb_power_count - 1
           t == [s EXCEPT !.lnb_power_count = left]
           W == it930x_write_gpio(t, LnbGpio, on)
           written == IF left = 0 THEN W ELSE {Out("OK", t)}
           R(u) == [u EXCEPT !.lnb_power_count = IF on THEN @ + 1 ELSE @, !.lnb[i] = on]
<1>1. SetLnb(s, i, v) = IF v \notin {0, 15} THEN {Out("EINVAL", s)}
                        ELSE IF s.lnb[i] = on \/ (~on /\ ~s.available) THEN {Out("OK", s)}
                        ELSE {IF p.ret # "OK" /\ on THEN p ELSE Out(p.ret, R(p.s)) : p \in written}
  BY DEF SetLnb, Return
<1>2. Spares(s, t, Rx(family))
  BY FieldsSpare
<1>3. ASSUME NEW u PROVE Spares(u, R(u), Rx(family))
  <2>1. on \in BOOLEAN
    OBVIOUS
  <2> HIDE DEF on
  <2> QED BY <2>1 DEF Spares, SameChip, ChipBoard, Device, DeviceFields
<1> HIDE DEF t, R, on
<1>4. \A o \in W : Spares(s, o.s, Rx(family))
  BY <1>2, WriteGpioSpares, SparesTrans
<1> HIDE DEF W
<1>5. \A o \in written : Spares(s, o.s, Rx(family))
  BY <1>2, <1>4 DEF Out
<1> HIDE DEF written
<1> QED BY <1>1, <1>3, <1>5, SparesRefl, SparesTrans DEF Out

LEMMA MltCaptureSpares ==
    ASSUME NEW s, NEW on
    PROVE  \A o \in pxmlt_chrdev_set_capture(s, on) : Spares(s, o.s, Rx(family))
<1> DEFINE first == s.streaming_count = 0
           Purge == IF first THEN it930x_purge_psb(s) ELSE {Out("OK", s)}
           Bus(t) == IF first THEN itedtv_bus_start_streaming(t) ELSE {Out("OK", t)}
           Nop(t) == {Out("OK", t)}
           Count(t) == [t EXCEPT !.streaming_count = @ + 1]
           Rest(t) == Then(OnError(Bus(t), LAMBDA x : Nop(x)), LAMBDA v : {Out("OK", Count(v))})
           Mid(t) == Then(Nop(t), LAMBDA u : Rest(u))
           less == [s EXCEPT !.streaming_count = @ - 1]
           quiet == IF less.streaming_count = 0 THEN itedtv_bus_stop_streaming(less) ELSE less
<1>1. pxmlt_chrdev_start_capture(s) = Then(Purge, LAMBDA t : Mid(t))
  BY DEF pxmlt_chrdev_start_capture, StartShared, Return
<1>2. pxmlt_chrdev_stop_capture(s) =
         IF first THEN {Out("EALREADY", s)}
         ELSE IF quiet.available THEN Ignoring(Nop(quiet)) ELSE {Out("OK", quiet)}
  BY DEF pxmlt_chrdev_stop_capture, StopShared, Return
<1>3. \A o \in Purge : Spares(s, o.s, Rx(family))
  <2> DEFINE F(t) == Finally(Access(t), LAMBDA u : Access(u))
  <2>1. ASSUME NEW t PROVE \A o \in F(t) : Spares(t, o.s, Rx(family))
    BY AccessSpares, SparesTrans DEF Finally, Out
  <2>2. it930x_purge_psb(s) = Then(Access(s), LAMBDA t : F(t))
    BY DEF it930x_purge_psb
  <2> HIDE DEF F
  <2>3. \A o \in it930x_purge_psb(s) : Spares(s, o.s, Rx(family))
    BY <2>1, <2>2, AccessSpares, SparesTrans DEF Then
  <2> QED BY <2>3, SparesRefl DEF Out
<1>4. ASSUME NEW t PROVE \A o \in Bus(t) : Spares(t, o.s, Rx(family))
  <2> DEFINE On(u) == [u EXCEPT !.bus = TRUE]
  <2>1. \A u : Spares(u, On(u), Rx(family))
    BY FieldsSpare
  <2>2. itedtv_bus_start_streaming(t) = Then(Access(t), LAMBDA u : {Out("OK", On(u))})
    BY DEF itedtv_bus_start_streaming, Return
  <2> HIDE DEF On
  <2>3. \A o \in itedtv_bus_start_streaming(t) : Spares(t, o.s, Rx(family))
    BY <2>1, <2>2, AccessSpares, SparesTrans DEF Then, Out
  <2> QED BY <2>3, SparesRefl DEF Out
<1>5. /\ \A t : Spares(t, Count(t), Rx(family))
      /\ Spares(s, less, Rx(family)) /\ Spares(s, quiet, Rx(family))
  <2>1. (\A t : Spares(t, Count(t), Rx(family))) /\ Spares(s, less, Rx(family))
    BY FieldsSpare
  <2> HIDE DEF less
  <2>2. Spares(less, itedtv_bus_stop_streaming(less), Rx(family))
    BY FieldsSpare DEF itedtv_bus_stop_streaming
  <2> QED BY <2>1, <2>2, SparesTrans
<1> HIDE DEF first, Purge, Bus, Count, less, quiet
<1>6. ASSUME NEW t PROVE \A o \in Rest(t) : Spares(t, o.s, Rx(family))
  <2> DEFINE B == OnError(Bus(t), LAMBDA x : Nop(x))
  <2>1. \A u : \A o \in Nop(u) : Spares(u, o.s, Rx(family))
    BY SparesRefl DEF Out
  <2>2. Rest(t) = Then(B, LAMBDA v : {Out("OK", Count(v))})
    OBVIOUS
  <2> HIDE DEF Nop, Rest
  <2>3. \A o \in B : Spares(t, o.s, Rx(family))
    BY <1>4, <2>1, SparesTrans DEF OnError, Finally, Out
  <2> HIDE DEF B
  <2> QED BY <1>5, <2>2, <2>3, SparesTrans DEF Then, Out
<1> HIDE DEF Rest
<1>7. \A o \in pxmlt_chrdev_start_capture(s) : Spares(s, o.s, Rx(family))
  BY <1>1, <1>3, <1>6, SparesTrans DEF Then, Out
<1>8. \A o \in pxmlt_chrdev_stop_capture(s) : Spares(s, o.s, Rx(family))
  BY <1>2, <1>5, SparesRefl DEF Ignoring, Out
<1> QED BY <1>7, <1>8 DEF pxmlt_chrdev_set_capture

(* The supply: nothing is promised of the chips, but the board is whole.   *)
LEMMA SupplySpares ==
    ASSUME NEW s, NEW high, NEW D, DOMAIN D = Rx(family), \A j \in Rx(family) : CableRegs \subseteq DOMAIN D[j]
    PROVE  \A o \in Supply(s, high, D) : Spares(s, o.s, {})
<1> DEFINE W == it930x_write_gpio(s, PowerGpio, high)
           Cut(u) == [u EXCEPT !.reg = D]
<1>1. Supply(s, high, D) = {Out(p.ret, IF p.s.level[PowerGpio] = s.level[PowerGpio]
                                     THEN p.s ELSE Cut(p.s)) : p \in W}
  BY DEF Supply
<1>2. \A p \in W : Spares(s, p.s, {})
  BY WriteGpioSpares, SparesFewer
<1>3. ASSUME NEW u PROVE Spares(u, Cut(u), {})
  BY DEF Spares, ChipBoard, Device, DeviceFields
<1> HIDE DEF W, Cut
<1> QED BY <1>1, <1>2, <1>3, SparesTrans DEF Out

LEMMA MltPowerSpares ==
    ASSUME NEW s, NEW on \in BOOLEAN
    PROVE  \A o \in pxmlt_backend_set_power(s, on) : Spares(s, o.s, {})
<1> SUFFICES ASSUME NEW o \in pxmlt_backend_set_power(s, on), ChipBoard(s) PROVE Spares(s, o.s, {})
    BY DEF Spares
<1> DEFINE D == [j \in DOMAIN s.reg |-> MltRegs]
           Unmatched(t) == [t EXCEPT !.tuner = [j \in DOMAIN @ |-> [@[j] EXCEPT !.rfin = FALSE]]]
           Low(t) == it930x_write_gpio(t, 7, FALSE)
           High(t) == it930x_write_gpio(t, 7, TRUE)
           On(t) == Supply(t, TRUE, D)
           Off(t) == Supply(t, FALSE, D)
           Up == Then(Low(s), LAMBDA t : On(t))
           Down == IF ~s.available THEN {Out("OK", s)} ELSE Anyway(Off(s), LAMBDA t : Ignoring(High(t)))
<1>1. pxmlt_backend_set_power(s, on) = IF on THEN Then(Up, LAMBDA t : {Out("OK", Unmatched(t))}) ELSE Down
  BY DEF pxmlt_backend_set_power, SetPower, Return
<1>2. DOMAIN D = Rx(family) /\ \A j \in Rx(family) : CableRegs \subseteq DOMAIN D[j]
  <2>1. CableRegs \subseteq DOMAIN MltRegs
    BY DEF CableRegs, MltRegs, DemodDefaults
  <2> QED BY <2>1 DEF ChipBoard, Device
<1> HIDE DEF D
<1>3. ASSUME NEW t PROVE \A p \in UNION {Low(t), High(t), On(t), Off(t)} : Spares(t, p.s, {})
  <2>1. \A h : \A p \in it930x_write_gpio(t, 7, h) : Spares(t, p.s, {})
    BY WriteGpioSpares, SparesFewer
  <2>2. \A h : \A p \in Supply(t, h, D) : Spares(t, p.s, {})
    BY <1>2, SupplySpares
  <2> QED BY <2>1, <2>2
<1>4. ASSUME NEW t PROVE Spares(t, Unmatched(t), {})
  BY DEF Spares, ChipBoard, Device, DeviceFields
<1> HIDE DEF Low, High, On, Off, Unmatched
<1>5. \A p \in Up : Spares(s, p.s, {})
  BY <1>3, SparesTrans DEF Then
<1>6. \A p \in Down : Spares(s, p.s, {})
  BY <1>3, SparesTrans, SparesRefl DEF Anyway, Ignoring, Out
<1> HIDE DEF Up, Down
<1> QED BY <1>1, <1>4, <1>5, <1>6, SparesTrans DEF Then, Out

(* Opening a receiver: it finds its demodulator as after a reset, and the  *)
(* receivers that are open keep theirs.                                    *)
Opens(s, o, i) ==
    ChipBoard(s) /\ s.open_count \in Nat =>
        /\ ChipBoard(o.s)
        /\ s.open_count # 0 => \A j \in Rx(family) \ {i} : SameChip(s, o.s, j)
        /\ o.ret # "OK" => o.s.open_count = s.open_count
        /\ o.ret = "OK" => /\ o.s.open_count = s.open_count + 1
                           /\ SwResetClears => Fresh(o.s, i)
LEMMA MltOpens ==
    ASSUME NEW s, NEW i \in Rx(family) PROVE \A o \in pxmlt_chrdev_open(s, i) : Opens(s, o, i)
<1> SUFFICES ASSUME ChipBoard(s), s.open_count \in Nat, NEW o \in pxmlt_chrdev_open(s, i)
             PROVE  Opens(s, o, i)
    BY DEF Opens
<1> DEFINE J == Rx(family) \ {i}
           first == s.open_count = 0 /\ ~s.card_powered
           K == IF first THEN {} ELSE J
           High == pxmlt_backend_set_power(s, TRUE)
           Low(t) == pxmlt_backend_set_power(t, FALSE)
           On == IF first THEN High ELSE {Out("OK", s)}
           Off(t) == IF first THEN Low(t) ELSE {Out("OK", t)}
           Setup(t) == OnError(Access(t), LAMBDA u : cxd2858er_term(u, i))
           Ready1(t) == Then(cxd2858er_init(t, i), LAMBDA u : Setup(u))
           Tuner(t) == OnError(Ready1(t), LAMBDA u : cxd2856er_term(u, i))
           Ready2(t) == Then(cxd2856er_init(t, i), LAMBDA u : Tuner(u))
           Demod(t) == OnError(Ready2(t), LAMBDA u : Off(u))
           Count(t) == [t EXCEPT !.open_count = @ + 1]
<1>1. pxmlt_chrdev_open(s, i) =
         Then(On, LAMBDA t : Then(Demod(t), LAMBDA v : {Out("OK", Count(v))}))
  BY DEF pxmlt_chrdev_open, Return
<1>2. K \in SUBSET J /\ J \in SUBSET Rx(family)
  OBVIOUS
<1>3. ASSUME NEW t PROVE \A a \in Setup(t) : Spares(t, a.s, Rx(family))
  BY AccessSpares, TunerTermSpares, SparesTrans DEF OnError, Finally, Out
<1>4. ASSUME NEW t PROVE \A a \in Ready1(t) : Spares(t, a.s, Rx(family))
  <2> HIDE DEF Setup
  <2> QED BY <1>3, TunerInitSpares, SparesTrans DEF Then
<1>5. ASSUME NEW t
      PROVE  \A a \in Tuner(t) : Spares(t, a.s, J) /\ (a.ret = "OK" => Spares(t, a.s, Rx(family)))
  <2>1. \A a \in Ready1(t) : Spares(t, a.s, J)
    BY <1>2, <1>4, SparesFewer
  <2>2. \A u : \A a \in cxd2856er_term(u, i) : Spares(u, a.s, J)
    BY DemodTermSpares
  <2> HIDE DEF Ready1, J
  <2> QED BY <1>4, <2>1, <2>2, SparesTrans DEF OnError, Finally, Out
<1>6. \A a \in On : Spares(s, a.s, K)
  <2>1. \A a \in High : Spares(s, a.s, {})
    BY MltPowerSpares
  <2> HIDE DEF High
  <2> QED BY <2>1, SparesRefl DEF Out
<1>7. ASSUME NEW t PROVE \A a \in Off(t) : Spares(t, a.s, K)
  <2>1. \A a \in Low(t) : Spares(t, a.s, {})
    BY MltPowerSpares
  <2> HIDE DEF Low
  <2> QED BY <2>1, SparesRefl DEF Out
<1> HIDE DEF Tuner, On, Off, first
<1>8. ASSUME NEW t, NEW a \in Ready2(t)
      PROVE  Spares(t, a.s, J) /\ (SwResetClears /\ ChipBoard(t) /\ a.ret = "OK" => Fresh(a.s, i))
  <2>1. PICK b \in cxd2856er_init(t, i) : (a = b /\ b.ret # "OK") \/ (b.ret = "OK" /\ a \in Tuner(b.s))
    BY <1>8 DEF Then
  <2>2. Spares(t, b.s, J) /\ (SwResetClears /\ ChipBoard(t) /\ b.ret = "OK" => Fresh(b.s, i))
    BY DemodInitFresh
  <2>3. CASE b.ret = "OK" /\ a \in Tuner(b.s)
    <3>1. Spares(b.s, a.s, J) /\ (a.ret = "OK" => Spares(b.s, a.s, Rx(family)))
      BY <2>3, <1>5
    <3>2. Spares(t, a.s, J)
      BY <2>2, <3>1, SparesTrans
    <3>3. ChipBoard(t) => ChipBoard(b.s)
      BY <2>2 DEF Spares
    <3> HIDE DEF J
    <3> QED BY <2>2, <2>3, <3>1, <3>2, <3>3, SparesKeeps
  <2> QED BY <2>1, <2>2, <2>3
<1>9. ASSUME NEW t, NEW a \in Demod(t)
      PROVE  Spares(t, a.s, K) /\ (SwResetClears /\ ChipBoard(t) /\ a.ret = "OK" => Fresh(a.s, i))
  <2>1. \A b \in Ready2(t) : Spares(t, b.s, K)
    BY <1>2, <1>8, SparesFewer
  <2> HIDE DEF Ready2, K
  <2>2. \/ a \in Ready2(t)
        \/ \E b \in Ready2(t) : b.ret # "OK" /\ \E c \in Off(b.s) : a.s = c.s /\ a.ret = b.ret
    BY <1>9 DEF OnError, Finally, Out
  <2> QED BY <1>7, <1>8, <2>1, <2>2, SparesTrans
<1> HIDE DEF Demod, K
<1>10. \/ o \in On /\ o.ret # "OK"
       \/ \E a \in On : \E b \in Demod(a.s) : o = b /\ b.ret # "OK"
       \/ \E a \in On : \E b \in Demod(a.s) : b.ret = "OK" /\ o = Out("OK", Count(b.s))
  <2> DEFINE Rest(t) == Then(Demod(t), LAMBDA v : {Out("OK", Count(v))})
  <2>1. pxmlt_chrdev_open(s, i) = Then(On, LAMBDA t : Rest(t))
    BY <1>1
  <2> HIDE DEF Count
  <2>2. ASSUME NEW a \in On, o \in Rest(a.s)
        PROVE  \E b \in Demod(a.s) : (o = b /\ b.ret # "OK") \/ (b.ret = "OK" /\ o = Out("OK", Count(b.s)))
    BY <2>2 DEF Then
  <2> HIDE DEF Rest
  <2>3. (o \in On /\ o.ret # "OK") \/ \E a \in On : o \in Rest(a.s)
    BY <2>1 DEF Then
  <2> QED BY <2>2, <2>3
<1>11. s.open_count # 0 => K = J
  BY DEF K, first
<1>12. ASSUME NEW t, Spares(s, t, K)
       PROVE  /\ ChipBoard(t) /\ t.open_count = s.open_count
              /\ s.open_count # 0 => \A j \in J : SameChip(s, t, j)
  BY <1>11, <1>12 DEF Spares
<1>13. CASE o \in On /\ o.ret # "OK"
  BY <1>6, <1>12, <1>13 DEF Opens
<1>14. ASSUME NEW a \in On, NEW b \in Demod(a.s)
       PROVE  /\ Spares(s, b.s, K) /\ (SwResetClears /\ b.ret = "OK" => Fresh(b.s, i))
  <2>1. Spares(s, a.s, K) /\ ChipBoard(a.s)
    BY <1>6 DEF Spares
  <2> QED BY <2>1, <1>9, SparesTrans
<1>15. ASSUME NEW a \in On, NEW b \in Demod(a.s), b.ret = "OK", o = Out("OK", Count(b.s))
       PROVE  Opens(s, o, i)
  <2>1. Spares(s, b.s, K) /\ (SwResetClears => Fresh(b.s, i))
    BY <1>14, <1>15
  <2>2. ChipBoard(b.s) /\ b.s.open_count = s.open_count /\ (s.open_count # 0 => \A j \in J : SameChip(s, b.s, j))
    BY <2>1, <1>12
  <2>3. /\ o.ret = "OK" /\ ChipBoard(o.s) /\ o.s.open_count = b.s.open_count + 1
        /\ o.s.demod = b.s.demod /\ o.s.reg = b.s.reg
    BY <2>2, <1>15 DEF Out, ChipBoard, Device, DeviceFields
  <2> QED BY <2>1, <2>2, <2>3 DEF Opens, SameChip, Fresh, Cleared
<1> QED BY <1>10, <1>12, <1>13, <1>14, <1>15 DEF Opens

(* Closing it.                                                             *)
LEMMA MltReleases ==
    ASSUME NEW s, ChipBoard(s), s.open_count \in Nat, s.open_count # 0, NEW i \in Rx(family),
           NEW o \in pxmlt_chrdev_release(s, i)
    PROVE  /\ ChipBoard(o.s) /\ o.s.open_count = s.open_count - 1
           /\ s.open_count # 1 => \A j \in Rx(family) \ {i} : SameChip(s, o.s, j)
<1> DEFINE J == Rx(family) \ {i}
           Low(t) == pxmlt_backend_set_power(t, FALSE)
           Less(t) == [t EXCEPT !.open_count = @ - 1]
           End(w) == IF w.open_count = 0 /\ ~w.card_powered THEN Low(w) ELSE {Out("OK", w)}
           Leave(t) == Anyway(cxd2858er_term(t, i), LAMBDA u :
                         Anyway(cxd2856er_term(u, i), LAMBDA v : End(Less(v))))
<1>1. pxmlt_chrdev_release(s, i) =
         Anyway(SetLnb(s, i, 0), LAMBDA t :
            IF t.open_count = 0 THEN {Out("EALREADY", t)} ELSE Leave(t))
  BY DEF pxmlt_chrdev_release, pxmlt_chrdev_set_lnb_voltage, Return
<1>2. PICK a \in SetLnb(s, i, 0) : o \in IF a.s.open_count = 0 THEN {Out("EALREADY", a.s)} ELSE Leave(a.s)
  <2> HIDE DEF Leave
  <2> QED BY <1>1 DEF Anyway
<1>3. Spares(s, a.s, Rx(family)) /\ a.s.open_count = s.open_count
  BY SetLnbSpares DEF Spares
<1>4. o \in Leave(a.s)
  BY <1>2, <1>3
<1> HIDE DEF End, Less
<1>5. PICK u \in cxd2858er_term(a.s, i) : \E v \in cxd2856er_term(u.s, i) : o \in End(Less(v.s))
  BY <1>4 DEF Anyway
<1>6. PICK v \in cxd2856er_term(u.s, i) : o \in End(Less(v.s))
  BY <1>5
<1>7. Spares(s, v.s, J)
  <2>1. Spares(a.s, u.s, Rx(family)) /\ Spares(u.s, v.s, J)
    BY <1>5, <1>6, TunerTermSpares, DemodTermSpares
  <2>2. J \in SUBSET Rx(family)
    OBVIOUS
  <2>3. Spares(s, a.s, J) /\ Spares(a.s, u.s, J)
    BY <1>3, <2>1, <2>2, SparesFewer
  <2> HIDE DEF J
  <2> QED BY <2>1, <2>3, SparesTrans
<1>8. ChipBoard(v.s) /\ v.s.open_count = s.open_count /\ \A j \in J : SameChip(s, v.s, j)
  BY <1>7 DEF Spares
<1> DEFINE w == Less(v.s)
<1>9. ChipBoard(w) /\ w.open_count = s.open_count - 1 /\ w.demod = v.s.demod /\ w.reg = v.s.reg
  BY <1>8 DEF Less, ChipBoard, Device, DeviceFields
<1>10. \A j \in J : SameChip(s, w, j)
  BY <1>8, <1>9 DEF SameChip
<1> HIDE DEF w
<1>11. CASE w.open_count = 0 /\ ~w.card_powered
  <2>1. o \in pxmlt_backend_set_power(w, FALSE)
    BY <1>6, <1>11 DEF End, w
  <2>2. Spares(w, o.s, {})
    BY <2>1, MltPowerSpares
  <2> QED BY <2>2, <1>9, <1>11 DEF Spares
<1>12. CASE ~(w.open_count = 0 /\ ~w.card_powered)
  <2>1. o = Out("OK", w)
    BY <1>6, <1>12 DEF End, w
  <2> QED BY <2>1, <1>9, <1>10 DEF Out
<1> QED BY <1>11, <1>12

-----------------------------------------------------------------------------
(* A tune: it keeps the receiver's own demodulator in order and does not   *)
(* touch those of the other receivers that are open.                       *)
Opened(C) == {k \in Rx(family) : C[k].open}
Retunes(s, t, C, i) == Spares(s, t, Opened(C) \ {i}) /\ Keeps(s, t, i)

LEMMA RetunesTrans ==
    ASSUME NEW s, NEW t, NEW u, NEW C, NEW i, Retunes(s, t, C, i), Retunes(t, u, C, i)
    PROVE  Retunes(s, u, C, i)
<1> DEFINE J == Opened(C) \ {i}
<1>1. Spares(s, t, J) /\ Spares(t, u, J) /\ Keeps(s, t, i) /\ Keeps(t, u, i)
  BY DEF Retunes
<1> HIDE DEF J
<1>2. Spares(s, u, J)
  BY <1>1, SparesTrans
<1>3. ASSUME ChipBoard(s), Restorable(s, i)
      PROVE  /\ Restorable(u, i)
             /\ Settled(s, i) /\ ~s.gone /\ u.faults = s.faults => Settled(u, i)
  <2>1. /\ ChipBoard(t) /\ t.gone = s.gone /\ t.faults <= s.faults /\ u.faults <= t.faults
        /\ s.faults \in Nat /\ t.faults \in Nat /\ u.faults \in Nat
    BY <1>1, <1>2, <1>3 DEF Spares, ChipBoard, Device
  <2>2. u.faults = s.faults => t.faults = s.faults /\ u.faults = t.faults
    BY <2>1
  <2>3. Restorable(t, i) /\ (Settled(s, i) /\ ~s.gone /\ t.faults = s.faults => Settled(t, i))
    BY <1>1, <1>3 DEF Keeps
  <2>4. Restorable(u, i) /\ (Settled(t, i) /\ ~t.gone /\ u.faults = t.faults => Settled(u, i))
    BY <1>1, <2>1, <2>3 DEF Keeps
  <2> QED BY <2>1, <2>2, <2>3, <2>4
<1> QED BY <1>2, <1>3 DEF Retunes, Keeps, J

LEMMA SparesRetunes ==
    ASSUME NEW s, NEW t, NEW C, NEW i \in Rx(family),
           Spares(s, t, Rx(family)) \/ (C[i].open /\ Spares(s, t, Opened(C)))
    PROVE  Retunes(s, t, C, i)
<1>1. Opened(C) \ {i} \in SUBSET Rx(family) /\ Opened(C) \ {i} \in SUBSET Opened(C) /\ (C[i].open => i \in Opened(C))
  BY DEF Opened
<1> QED BY <1>1, SparesFewer, SparesKeeps DEF Retunes

LEMMA MatchInputSpares ==
    ASSUME NEW s, NEW C, NEW j \in Rx(family)
    PROVE  \A t \in MatchInput(s, C, j) : Spares(s, t, Opened(C))
<1> DEFINE Told == [s EXCEPT !.tuner[j].rfin = TRUE]
           Result(o) == [o.s EXCEPT !.tuner[j].rfin = o.ret = "OK"]
           Start(t) == Then(cxd2856er_init(t, j), LAMBDA u : cxd2858er_init(u, j))
           again(t) == Finally(Start(t), LAMBDA u : cxd2856er_term(u, j))
           J == Rx(family) \ {j}
<1>1. Spares(s, Told, Rx(family)) /\ \A o : Spares(o.s, Result(o), Rx(family))
  BY FieldsSpare
<1>2. J \in SUBSET Rx(family) /\ Opened(C) \in SUBSET Rx(family) /\ (~C[j].open => Opened(C) \in SUBSET J)
  BY DEF Opened
<1>3. ASSUME NEW t PROVE \A o \in Start(t) : Spares(t, o.s, J)
  <2>1. \A u : \A o \in cxd2856er_init(u, j) : Spares(u, o.s, J)
    BY DemodInitFresh
  <2>2. \A u : \A o \in cxd2858er_init(u, j) : Spares(u, o.s, J)
    BY <1>2, TunerInitSpares, SparesFewer
  <2> HIDE DEF J
  <2> QED BY <2>1, <2>2, SparesTrans DEF Then
<1>4. ASSUME NEW t PROVE \A o \in again(t) : Spares(t, o.s, J)
  <2>1. \A u : \A o \in cxd2856er_term(u, j) : Spares(u, o.s, J)
    BY DemodTermSpares
  <2> HIDE DEF J, Start
  <2> QED BY <1>3, <2>1, SparesTrans DEF Finally, Out
<1>5. \A t \in MatchInput(s, C, j) : t = s \/ t = Told \/ (~C[j].open /\ \E o \in again(Told) : t = Result(o))
  BY DEF MatchInput
<1> HIDE DEF Told, Result, again, J
<1> SUFFICES ASSUME NEW t \in MatchInput(s, C, j) PROVE Spares(s, t, Opened(C))
    OBVIOUS
<1>6. CASE t = s \/ t = Told
  BY <1>1, <1>2, <1>6, SparesRefl, SparesFewer
<1>7. ASSUME NEW o \in again(Told), t = Result(o), ~C[j].open PROVE Spares(s, t, Opened(C))
  <2>1. Spares(s, Told, J) /\ Spares(Told, o.s, J) /\ Spares(o.s, t, J)
    BY <1>1, <1>2, <1>4, <1>7, SparesFewer
  <2>2. Spares(s, t, J)
    BY <2>1, SparesTrans
  <2> QED BY <2>2, <1>2, <1>7, SparesFewer
<1> QED BY <1>5, <1>6, <1>7

LEMMA MatchInputsSpares ==
    ASSUME family = "mlt", NEW s, NEW C PROVE \A t \in MatchInputs(s, C) : Spares(s, t, Opened(C))
<1>1. 0 \in Rx(family) /\ 1 \in Rx(family)
  BY DEF Rx
<1> QED BY <1>1, MatchInputSpares, SparesTrans DEF MatchInputs

LEMMA PrepareDemodRetunes ==
    ASSUME family = "mlt", NEW s, NEW C, NEW i \in Rx(family), C[i].open, NEW p
    PROVE  \A o \in PrepareDemod(s, C, i, p) : Retunes(s, o.s, C, i)
<1> DEFINE Wakeup(t) == cxd2856er_wakeup(t, i, p.system)
           Discard(t) == pxmlt_chrdev_set_null_packet_filter(t, i, TRUE)
           Filter(t) == pxmlt_chrdev_set_null_packet_filter(t, i, p.system = "J")
           Woken(t) == Then(Filter(t), LAMBDA v : Wakeup(v))
           Cable(t) == UNION {Woken(u) : u \in MatchInputs(t, C)}
           First == IF s.nullOff[i] /\ p.system # "C" THEN Discard(s) ELSE {Out("OK", s)}
           Rest(t) == CASE p.system \in {"T", "S"} -> Wakeup(t)
                        [] p.system \in CableSystems -> Cable(t)
                        [] OTHER -> {Out("EINVAL", t)}
<1>1. PrepareDemod(s, C, i, p) = Then(First, LAMBDA t : Rest(t))
  BY DEF PrepareDemod, Return
<1>2. ASSUME NEW t PROVE (\A o \in Discard(t) : Retunes(t, o.s, C, i)) /\ (\A o \in Filter(t) : Retunes(t, o.s, C, i))
  BY NullFilterSpares, SparesRetunes
<1>3. ASSUME NEW t, p.system \in Systems PROVE \A o \in Wakeup(t) : Retunes(t, o.s, C, i)
  <2>1. Opened(C) \ {i} \in SUBSET (Rx(family) \ {i})
    BY DEF Opened
  <2> QED BY <2>1, <1>3, WakeupKeeps, SparesFewer DEF Retunes
<1>4. ASSUME NEW t PROVE Retunes(t, t, C, i)
  BY SparesRefl, SparesRetunes
<1> HIDE DEF Wakeup, Discard, Filter
<1>5. ASSUME NEW t, p.system \in Systems PROVE \A o \in Woken(t) : Retunes(t, o.s, C, i)
  BY <1>2, <1>3, <1>5, RetunesTrans DEF Then
<1> HIDE DEF Woken
<1>6. ASSUME NEW t, p.system \in CableSystems PROVE \A o \in Cable(t) : Retunes(t, o.s, C, i)
  <2>1. p.system \in Systems
    BY <1>6 DEF CableSystems, Systems
  <2>2. \A u \in MatchInputs(t, C) : Retunes(t, u, C, i)
    BY MatchInputsSpares, SparesRetunes
  <2> QED BY <1>5, <2>1, <2>2, RetunesTrans
<1> HIDE DEF Cable
<1>7. ASSUME NEW t PROVE \A o \in Rest(t) : Retunes(t, o.s, C, i)
  <2>1. CASE p.system \in {"T", "S"}
    <3>1. p.system \notin CableSystems /\ p.system \in Systems
      BY <2>1 DEF CableSystems, Systems
    <3>2. Rest(t) = Wakeup(t)
      BY <2>1, <3>1
    <3> HIDE DEF Rest
    <3> QED BY <3>1, <3>2, <1>3
  <2>2. CASE p.system \in CableSystems
    <3>1. p.system \notin {"T", "S"}
      BY <2>2 DEF CableSystems
    <3>2. Rest(t) = Cable(t)
      BY <2>2, <3>1
    <3> HIDE DEF Rest
    <3> QED BY <3>2, <2>2, <1>6
  <2>3. CASE p.system \notin {"T", "S"} \cup CableSystems
    BY <2>3, <1>4 DEF Out
  <2> QED BY <2>1, <2>2, <2>3
<1> HIDE DEF Rest
<1>8. \A o \in First : Retunes(s, o.s, C, i)
  BY <1>2, <1>4 DEF Out
<1> HIDE DEF First
<1> QED BY <1>1, <1>7, <1>8, RetunesTrans DEF Then

LEMMA MltTuneRetunes ==
    ASSUME family = "mlt", NEW s, NEW C, NEW i \in Rx(family), C[i].open, NEW p
    PROVE  \A o \in pxmlt_chrdev_tune(s, C, i, p) : Retunes(s, o.s, C, i)
<1> DEFINE Tuned(t) == Then(SetTuner(t, i, p), LAMBDA u : cxd2856er_post_tune(u, i))
<1>1. pxmlt_chrdev_tune(s, C, i, p) = Then(PrepareDemod(s, C, i, p), LAMBDA t : Tuned(t))
  BY DEF pxmlt_chrdev_tune
<1>2. ASSUME NEW t PROVE \A o \in Tuned(t) : Spares(t, o.s, Rx(family))
  <2>1. \A u : \A o \in cxd2856er_post_tune(u, i) : Spares(u, o.s, Rx(family))
    BY DemodStatusSpares
  <2> QED BY <2>1, TunerParamsSpares, SparesTrans DEF Then
<1>3. ASSUME NEW t PROVE \A o \in Tuned(t) : Retunes(t, o.s, C, i)
  BY <1>2, SparesRetunes
<1> HIDE DEF Tuned
<1> QED BY <1>1, <1>3, PrepareDemodRetunes, RetunesTrans DEF Then

-----------------------------------------------------------------------------
(* Bring-up: whatever it writes and wherever it fails, it leaves a board   *)
(* with its chips and opens no receiver.                                   *)
Whole(s, t) == ChipBoard(s) => ChipBoard(t) /\ t.open_count = s.open_count

LEMMA WholeTrans ==
    ASSUME NEW s, NEW t, NEW u, Whole(s, t), Whole(t, u) PROVE Whole(s, u)
BY DEF Whole

LEMMA SparesWhole ==
    ASSUME NEW s, NEW t, NEW J, Spares(s, t, J) PROVE Whole(s, t)
BY DEF Spares, Whole

LEMMA WholeFaults ==
    ASSUME NEW s, NEW n \in Nat, ChipBoard(s) => n <= s.faults
    PROVE  Whole(s, [s EXCEPT !.faults = @ - n])
BY DEF Whole, ChipBoard, Device, DeviceFields

LEMMA SetWhole ==
    ASSUME NEW s, NEW t, Whole(s, t), ChipBoard(s) => t.faults = s.faults
    PROVE  \A o \in Set(s, t) : Whole(s, o.s)
<1> SUFFICES ASSUME NEW o \in Set(s, t), ChipBoard(s) PROVE Whole(s, o.s)
    BY DEF Whole
<1> DEFINE F(u) == [u EXCEPT !.faults = @ - 1]
<1>1. Set(s, t) = (IF s.gone THEN {} ELSE {Out("OK", t)})
                  \cup (IF s.gone THEN {Out("EIO", s)}
                        ELSE IF s.faults = 0 THEN {} ELSE {Out("EIO", F(u)) : u \in {s, t}})
  BY DEF Set, it930x_ctrl_msg
<1>2. ASSUME NEW u, ChipBoard(u), u.faults # 0 PROVE Whole(u, F(u))
  <2>1. u.faults \in Nat
    BY <1>2 DEF ChipBoard, Device
  <2> QED BY <1>2, <2>1, WholeFaults
<1>3. Whole(s, s)
  BY DEF Whole
<1> HIDE DEF F
<1>4. ASSUME NEW u \in {s, t}, s.faults # 0 PROVE Whole(s, F(u))
  <2>1. ChipBoard(u) /\ Whole(s, u) /\ u.faults # 0
    BY <1>3, <1>4 DEF Whole
  <2> QED BY <2>1, <1>2, WholeTrans
<1> QED BY <1>1, <1>3, <1>4 DEF Out

LEMMA RaiseWhole ==
    ASSUME NEW s PROVE \A o \in it930x_raise(it930x_init(s)) : Whole(s, o.s)
<1> DEFINE t == it930x_init(s)
           F(n) == [t EXCEPT !.faults = @ - n]
<1>1. it930x_raise(t) = IF t.gone THEN {Out("EIO", t)}
                        ELSE {Out(IF n < 5 THEN "OK" ELSE "EIO", F(n)) :
                                 n \in 0..(IF t.faults < 5 THEN t.faults ELSE 5)}
  BY DEF it930x_raise
<1>2. Whole(s, t)
  BY DEF it930x_init, Whole, ChipBoard, Device, DeviceFields
<1> HIDE DEF t
<1>3. ASSUME ChipBoard(t), NEW n \in 0..(IF t.faults < 5 THEN t.faults ELSE 5) PROVE Whole(t, F(n))
  <2>1. t.faults \in Nat
    BY <1>3 DEF ChipBoard, Device
  <2>2. n \in Nat /\ n <= t.faults
    BY <1>3, <2>1
  <2> QED BY <2>2, WholeFaults
<1> HIDE DEF F
<1> SUFFICES ASSUME ChipBoard(s), NEW o \in it930x_raise(t) PROVE Whole(s, o.s)
    BY DEF t, Whole
<1>4. ChipBoard(t)
  BY <1>2 DEF Whole
<1> QED BY <1>1, <1>2, <1>3, <1>4, WholeTrans DEF Out

LEMMA FirmwareWhole ==
    ASSUME NEW s PROVE \A o \in it930x_load_firmware(s) : Whole(s, o.s)
<1> DEFINE B(u) == [u EXCEPT !.bridge = "booted"]
           Boot(u) == Then(Set(u, B(u)), LAMBDA v : Access(v))
           Load(t) == Then(Access(t), LAMBDA u : Boot(u))
           Need(t) == IF t.bridge # "cold" THEN {Out("OK", t)} ELSE Load(t)
<1>1. it930x_load_firmware(s) = Then(Access(s), LAMBDA t : Need(t))
  BY DEF it930x_load_firmware, Return
<1>2. ASSUME NEW u PROVE Whole(u, B(u)) /\ (ChipBoard(u) => B(u).faults = u.faults)
  BY DEF Whole, ChipBoard, Device, DeviceFields
<1>3. ASSUME NEW u PROVE \A o \in Access(u) : Whole(u, o.s)
  BY AccessSpares, SparesWhole
<1> HIDE DEF B
<1>4. ASSUME NEW u PROVE \A o \in Set(u, B(u)) : Whole(u, o.s)
  BY <1>2, SetWhole
<1>5. ASSUME NEW u PROVE \A o \in Boot(u) : Whole(u, o.s)
  BY <1>3, <1>4, WholeTrans DEF Then
<1> HIDE DEF Boot
<1>6. ASSUME NEW u PROVE \A o \in Load(u) : Whole(u, o.s)
  BY <1>3, <1>5, WholeTrans DEF Then
<1> HIDE DEF Load
<1>7. ASSUME NEW u PROVE \A o \in Need(u) : Whole(u, o.s)
  BY <1>6 DEF Out, Whole
<1> HIDE DEF Need
<1> QED BY <1>1, <1>3, <1>7, WholeTrans DEF Then

LEMMA WarmWhole ==
    ASSUME NEW s PROVE \A o \in it930x_init_warm(s) : Whole(s, o.s)
<1> DEFINE P(u) == [u EXCEPT !.level[PowerGpio] = TRUE]
           Warm(u) == [u EXCEPT !.bridge = "warm"]
           W1(u) == Then(Access(u), LAMBDA w : {Out("OK", Warm(w))})
           W2(u) == Then(Access(u), LAMBDA w : W1(w))
           W3(u) == Then(Access(u), LAMBDA w : W2(w))
<1>1. it930x_init_warm(s) = Then(Set(s, P(s)), LAMBDA t : W3(t))
  BY DEF it930x_init_warm, it930x_config_stream_output, it930x_config_i2c, it930x_config_stream_input, Return
<1>2. ASSUME NEW u PROVE Whole(u, P(u)) /\ Whole(u, Warm(u)) /\ (ChipBoard(u) => P(u).faults = u.faults)
  BY DEF Whole, ChipBoard, Device, DeviceFields, PowerGpio
<1>3. ASSUME NEW u PROVE \A o \in Access(u) : Whole(u, o.s)
  BY AccessSpares, SparesWhole
<1> HIDE DEF P, Warm
<1>4. ASSUME NEW u PROVE \A o \in Set(u, P(u)) : Whole(u, o.s)
  BY <1>2, SetWhole
<1>5. ASSUME NEW u PROVE \A o \in W1(u) : Whole(u, o.s)
  BY <1>2, <1>3, WholeTrans DEF Then, Out
<1> HIDE DEF W1
<1>6. ASSUME NEW u PROVE \A o \in W2(u) : Whole(u, o.s)
  BY <1>3, <1>5, WholeTrans DEF Then
<1> HIDE DEF W2
<1>7. ASSUME NEW u PROVE \A o \in W3(u) : Whole(u, o.s)
  BY <1>3, <1>6, WholeTrans DEF Then
<1> HIDE DEF W3
<1> QED BY <1>1, <1>4, <1>7, WholeTrans DEF Then

LEMMA GpioModeWhole ==
    ASSUME NEW s, NEW g \in Gpios, NEW enable
    PROVE  \A o \in it930x_set_gpio_mode(s, g, "OUT", enable) : Whole(s, o.s)
<1> DEFINE M(t) == [t EXCEPT !.gpio[g].mode = "OUT"]
           E(t) == [t EXCEPT !.gpio[g].enable = TRUE]
           First == IF s.gpio[g].mode = "OUT" THEN {Out("OK", s)} ELSE Then(Access(s), LAMBDA t : {Out("OK", M(t))})
           En(t) == Then(Access(t), LAMBDA u : {Out("OK", E(u))})
           Second(t) == IF ~enable \/ t.gpio[g].enable THEN {Out("OK", t)} ELSE En(t)
<1>1. it930x_set_gpio_mode(s, g, "OUT", enable) = Then(First, LAMBDA t : Second(t))
  BY DEF it930x_set_gpio_mode, Return
<1>2. ASSUME NEW t PROVE Whole(t, M(t)) /\ Whole(t, E(t)) /\ Whole(t, t)
  BY DEF Whole, ChipBoard, Device, DeviceFields
<1>3. ASSUME NEW t PROVE \A o \in Access(t) : Whole(t, o.s)
  BY AccessSpares, SparesWhole
<1> HIDE DEF M, E
<1>4. \A o \in First : Whole(s, o.s)
  BY <1>2, <1>3, WholeTrans DEF Then, Out
<1>5. ASSUME NEW t PROVE \A o \in En(t) : Whole(t, o.s)
  BY <1>2, <1>3, WholeTrans DEF Then, Out
<1> HIDE DEF En, First
<1>6. ASSUME NEW t PROVE \A o \in Second(t) : Whole(t, o.s)
  BY <1>2, <1>5 DEF Out
<1> HIDE DEF Second
<1> QED BY <1>1, <1>4, <1>6, WholeTrans DEF Then

LEMMA OutPinWhole ==
    ASSUME NEW s, NEW g \in Gpios, NEW high PROVE \A o \in OutPin(s, g, high) : Whole(s, o.s)
<1> DEFINE Mode == it930x_set_gpio_mode(s, g, "OUT", TRUE)
           Write(t) == it930x_write_gpio(t, g, high)
<1>1. OutPin(s, g, high) = Then(Mode, LAMBDA t : Write(t))
  BY DEF OutPin
<1>2. \A e : \A o \in it930x_set_gpio_mode(s, g, "OUT", e) : Whole(s, o.s)
  BY GpioModeWhole
<1>3. ASSUME NEW t PROVE \A o \in Write(t) : Whole(t, o.s)
  BY WriteGpioSpares, SparesWhole
<1>4. \A o \in Mode : Whole(s, o.s)
  BY <1>2
<1> HIDE DEF Mode, Write
<1> QED BY <1>1, <1>3, <1>4, WholeTrans DEF Then

LEMMA MltInitWhole ==
    ASSUME NEW s PROVE \A o \in pxmlt_device_init(s) : Whole(s, o.s)
<1> DEFINE High(t) == OutPin(t, 7, TRUE)
           Low(t) == OutPin(t, PowerGpio, FALSE)
           Lnb(t) == OutPin(t, LnbGpio, FALSE)
           Pins1(t) == Then(Low(t), LAMBDA u : Lnb(u))
           Pins(t) == Then(High(t), LAMBDA u : Pins1(u))
           Av(t) == [t EXCEPT !.available = TRUE]
           B5(e) == Then(Set(e, Blocked(e)), LAMBDA f : {Out("OK", Av(f))})
           B4(d) == Then(Pins(d), LAMBDA e : B5(e))
           B3(c) == Then(it930x_init_warm(c), LAMBDA d : B4(d))
           B2(b) == Then(it930x_load_firmware(b), LAMBDA c : B3(c))
           B1(a) == Then(Access(a), LAMBDA b : B2(b))
<1>1. pxmlt_device_init(s) = Then(it930x_raise(it930x_init(s)), LAMBDA a : B1(a))
  BY DEF pxmlt_device_init, BringUp, Blocked, Return
<1>2. ASSUME NEW t
      PROVE  /\ \A o \in High(t) : Whole(t, o.s)
             /\ \A o \in Low(t) : Whole(t, o.s)
             /\ \A o \in Lnb(t) : Whole(t, o.s)
  <2>1. \A g \in Gpios : \A high : \A o \in OutPin(t, g, high) : Whole(t, o.s)
    BY OutPinWhole
  <2> QED BY <2>1 DEF Gpios, PowerGpio, LnbGpio
<1>3. ASSUME NEW t PROVE Whole(t, Av(t)) /\ Whole(t, Blocked(t)) /\ (ChipBoard(t) => Blocked(t).faults = t.faults)
  BY DEF Whole, ChipBoard, Device, DeviceFields, Blocked
<1> HIDE DEF High, Low, Lnb, Av
<1>4. ASSUME NEW t PROVE \A o \in Pins1(t) : Whole(t, o.s)
  BY <1>2, WholeTrans DEF Then
<1> HIDE DEF Pins1
<1>5. ASSUME NEW t PROVE \A o \in Pins(t) : Whole(t, o.s)
  BY <1>2, <1>4, WholeTrans DEF Then
<1>6. ASSUME NEW t PROVE \A o \in Set(t, Blocked(t)) : Whole(t, o.s)
  BY <1>3, SetWhole
<1>7. ASSUME NEW t PROVE \A o \in B5(t) : Whole(t, o.s)
  BY <1>3, <1>6, WholeTrans DEF Then, Out
<1> HIDE DEF Pins, B5
<1>8. ASSUME NEW t PROVE \A o \in B4(t) : Whole(t, o.s)
  BY <1>5, <1>7, WholeTrans DEF Then
<1> HIDE DEF B4
<1>9. ASSUME NEW t PROVE \A o \in B3(t) : Whole(t, o.s)
  BY <1>8, WarmWhole, WholeTrans DEF Then
<1> HIDE DEF B3
<1>10. ASSUME NEW t PROVE \A o \in B2(t) : Whole(t, o.s)
  BY <1>9, FirmwareWhole, WholeTrans DEF Then
<1> HIDE DEF B2
<1>11. ASSUME NEW t PROVE \A o \in B1(t) : Whole(t, o.s)
  <2>1. \A o \in Access(t) : Whole(t, o.s)
    BY AccessSpares, SparesWhole
  <2> QED BY <2>1, <1>10, WholeTrans DEF Then
<1> HIDE DEF B1
<1> QED BY <1>1, <1>11, RaiseWhole, WholeTrans DEF Then

-----------------------------------------------------------------------------
(* The receivers of a board and their demodulators.                        *)

(* A receiver is in use from the end of its open to its release: its       *)
(* demodulator can be restored, and is set as its system wants unless a    *)
(* tune failed.  The board counts the receivers in use.                    *)
Using(r) == r.pc \in {"open", "tsmf"}
Held(r) == IF Using(r) THEN 1 ELSE 0
InOrder(d, u, i) == Restorable(d, i) /\ (u[i] # "yes" => Settled(d, i))
CableRight(d, c, u) ==
    /\ ChipBoard(d)
    /\ d.open_count = Held(c[0]) + Held(c[1])
    /\ \A i \in Rx(family) : Using(c[i]) => InOrder(d, u, i)
CableNext == CableRight(dev', chr', suspect')

LEMMA MltReceivers == family = "mlt" => Rx(family) = {0, 1}
BY DEF Rx

LEMMA SameInOrder ==
    ASSUME NEW d, NEW e, NEW u, NEW i \in Rx(family), ChipBoard(d), ChipBoard(e), SameChip(d, e, i), InOrder(d, u, i)
    PROVE  InOrder(e, u, i)
<1>1. "j83b" \in CableRegs /\ "fec" \in CableRegs
  BY DEF CableRegs
<1>2. e.demod[i] = d.demod[i] /\ \A x \in CableRegs : e.reg[i][x] = d.reg[i][x]
  BY DEF SameChip
<1>3. Cleared(d, i) => Cleared(e, i)
  BY <1>2 DEF Cleared
<1>4. Settled(d, i) => Settled(e, i)
  BY <1>2 DEF Settled
<1>5. Restorable(d, i) => Restorable(e, i)
  BY <1>1, <1>2, <1>3 DEF Restorable, Fresh
<1> QED BY <1>4, <1>5 DEF InOrder

(* A call that leaves every demodulator alone, of a receiver that stays in *)
(* use if it was.                                                          *)
LEMMA CableSpared ==
    ASSUME family = "mlt", NEW d, NEW c, NEW u, CableRight(d, c, u), NEW e, Spares(d, e, Rx(family)),
           NEW k, \A j \in Rx(family) : Using(k[j]) <=> Using(c[j])
    PROVE  CableRight(e, k, u)
<1>1. /\ ChipBoard(d) /\ ChipBoard(e) /\ e.open_count = d.open_count
      /\ \A j \in Rx(family) : SameChip(d, e, j)
  BY DEF CableRight, Spares
<1>2. Held(k[0]) = Held(c[0]) /\ Held(k[1]) = Held(c[1])
  BY MltReceivers DEF Held
<1>3. ASSUME NEW j \in Rx(family), Using(k[j]) PROVE InOrder(e, u, j)
  BY <1>1, <1>3, SameInOrder DEF CableRight
<1> QED BY <1>1, <1>2, <1>3 DEF CableRight

LEMMA CableRetuned ==
    ASSUME family = "mlt", NEW d, NEW c, NEW u, CableRight(d, c, u), DOMAIN u = Rx(family),
           NEW i \in Rx(family), Using(c[i]), \A j \in Rx(family) : Using(c[j]) => c[j].open,
           NEW e, Retunes(d, e, c, i), NEW w, w # "yes" => u[i] # "yes" /\ e.faults = d.faults /\ ~d.gone,
           NEW k, \A j \in Rx(family) : Using(k[j]) <=> Using(c[j])
    PROVE  CableRight(e, k, [u EXCEPT ![i] = w])
<1> DEFINE v == [u EXCEPT ![i] = w]
<1>1. v[i] = w /\ \A j \in Rx(family) : j # i => v[j] = u[j]
  OBVIOUS
<1>2. /\ ChipBoard(d) /\ ChipBoard(e) /\ e.open_count = d.open_count
      /\ \A j \in Opened(c) \ {i} : SameChip(d, e, j)
  BY DEF CableRight, Retunes, Spares
<1>3. Held(k[0]) = Held(c[0]) /\ Held(k[1]) = Held(c[1])
  BY MltReceivers DEF Held
<1> HIDE DEF v
<1>4. ASSUME NEW j \in Rx(family), j # i, Using(k[j]) PROVE InOrder(e, v, j)
  <2>1. Using(c[j]) /\ j \in Opened(c) \ {i} /\ InOrder(d, u, j)
    BY <1>4 DEF Opened, CableRight
  <2>2. InOrder(e, u, j)
    BY <1>2, <2>1, SameInOrder
  <2> QED BY <1>1, <1>4, <2>2 DEF InOrder
<1>5. InOrder(e, v, i)
  <2>1. InOrder(d, u, i)
    BY DEF CableRight
  <2>2. Restorable(e, i) /\ (Settled(d, i) /\ ~d.gone /\ e.faults = d.faults => Settled(e, i))
    BY <1>2, <2>1 DEF Retunes, Keeps, InOrder
  <2> QED BY <1>1, <2>1, <2>2 DEF InOrder
<1>6. CableRight(e, k, v)
  BY <1>2, <1>3, <1>4, <1>5 DEF CableRight
<1> QED BY <1>6 DEF v

(* A board that nobody has open.                                           *)
LEMMA CableUnused ==
    ASSUME family = "mlt", NEW d, ChipBoard(d), d.open_count = 0,
           NEW c, \A j \in Rx(family) : ~Using(c[j]), NEW u
    PROVE  CableRight(d, c, u)
BY MltReceivers DEF CableRight, Held

LEMMA NewChips ==
    ASSUME family = "mlt", NEW n \in Nat, NEW bridge, NEW level, DOMAIN level = Gpios
    PROVE  ChipBoard(NewDevice(family, n, bridge, level)) /\ NewDevice(family, n, bridge, level).open_count = 0
<1>1. CableRegs \subseteq DOMAIN MltRegs
  BY DEF CableRegs, MltRegs, DemodDefaults
<1> DEFINE d == NewDevice(family, n, bridge, level)
<1>2. DOMAIN d = DeviceFields /\ d.faults = n /\ d.level = level /\ DOMAIN d.gpio = Gpios /\ d.open_count = 0
  BY DEF NewDevice, DeviceFields
<1>3. DOMAIN d.filter = Rx(family) /\ DOMAIN d.reg = Rx(family) /\ DOMAIN d.demod = Rx(family) /\ DOMAIN d.tuner = Rx(family)
  BY DEF NewDevice
<1>4. d.lnb \in [Rx(family) -> BOOLEAN] /\ d.nullOff \in [Rx(family) -> BOOLEAN]
  BY DEF NewDevice
<1>5. \A j \in Rx(family) : d.reg[j] = MltRegs
  BY DEF NewDevice, PowerOnRegs
<1> HIDE DEF d
<1>6. ChipBoard(d) /\ d.open_count = 0
  BY <1>1, <1>2, <1>3, <1>4, <1>5 DEF ChipBoard, Device
<1> QED BY <1>6 DEF d

(* Nobody uses a device that is not there.                                 *)
LEMMA AbsentUnused ==
    ASSUME NEW c, ReceiversRight("absent", c) PROVE \A j \in Rx(family) : ~Using(c[j])
BY DEF ReceiversRight, ReceiverRight, Using

LEMMA CableProbe ==
    ASSUME family = "mlt", Inv, CableRight(dev, chr, suspect), Probe \/ Reattach PROVE CableNext
<1>1. CASE Probe
  <2>1. PICK o \in pxmlt_device_init(dev) :
           dev' = IF o.ret = "OK" THEN o.s ELSE NewDevice(family, o.s.faults, o.s.bridge, o.s.level)
    BY <1>1 DEF Probe, OpInit
  <2>2. chr' = chr /\ attached = "absent"
    BY <1>1 DEF Probe
  <2>3. \A j \in Rx(family) : ~Using(chr[j])
    BY <2>2, AbsentUnused DEF Inv, Right
  <2>4. ChipBoard(dev) /\ dev.open_count = 0
    BY <2>3, MltReceivers DEF CableRight, Held
  <2>5. ChipBoard(o.s) /\ o.s.open_count = 0 /\ o.s.faults \in Nat /\ DOMAIN o.s.level = Gpios
    BY <2>4, MltInitWhole DEF Whole, ChipBoard, Device
  <2>6. ChipBoard(dev') /\ dev'.open_count = 0
    BY <2>1, <2>5, NewChips
  <2> QED BY <2>2, <2>3, <2>6, CableUnused DEF CableNext
<1>2. CASE Reattach
  <2> DEFINE level == IF dev.gone THEN [g \in Gpios |-> FALSE] ELSE dev.level
             bridge == IF dev.gone THEN "cold" ELSE dev.bridge
  <2>1. dev' = NewDevice(family, dev.faults, bridge, level) /\ chr' = [i \in Rx(family) |-> NewChrdev(family, i)]
    BY <1>2 DEF Reattach
  <2>2. dev.faults \in Nat /\ DOMAIN level = Gpios
    BY DEF CableRight, ChipBoard, Device
  <2>3. \A j \in Rx(family) : ~Using(chr'[j])
    BY <2>1, NewReceivers, AbsentUnused
  <2> HIDE DEF level, bridge
  <2> QED BY <2>1, <2>2, <2>3, NewChips, CableUnused DEF CableNext
<1> QED BY <1>1, <1>2

LEMMA CableUnplug ==
    ASSUME family = "mlt", Inv, CableRight(dev, chr, suspect), Unplug \/ Disconnect PROVE CableNext
<1>1. chr' = chr /\ suspect' = suspect
  BY DEF Unplug, Disconnect, ghosts
<1>2. ChipBoard(dev)
  BY DEF CableRight
<1>3. /\ ChipBoard(dev') /\ dev'.open_count = dev.open_count
      /\ dev'.demod = dev.demod /\ dev'.reg = dev.reg
  BY <1>2 DEF Unplug, Disconnect, ChipBoard, Device, DeviceFields
<1>4. ASSUME NEW j \in Rx(family), Using(chr[j]) PROVE InOrder(dev', suspect, j)
  BY <1>2, <1>3, <1>4, SameInOrder DEF CableRight, SameChip
<1> QED BY <1>1, <1>3, <1>4 DEF CableNext, CableRight

(* The card reader switches the supply only of a board that no receiver    *)
(* uses.                                                                   *)
LEMMA CableCardPower ==
    ASSUME family = "mlt", Inv, CableRight(dev, chr, suspect), CardPower PROVE CableNext
<1> DEFINE on == ~dev.card_powered
           Supplied == IF dev.open_count = 0 THEN pxmlt_backend_set_power(dev, on) ELSE {Out("OK", dev)}
           Noted(o) == [o.s EXCEPT !.card_powered = on]
<1>1. chr' = chr /\ suspect' = suspect
  BY DEF CardPower, ghosts
<1>2. PICK p \in OpCardPower(dev, on) : dev' = p.s
  BY DEF CardPower
<1>3. OpCardPower(dev, on) = {IF on /\ o.ret # "OK" THEN o ELSE Out(o.ret, Noted(o)) : o \in Supplied}
  BY DEF OpCardPower, pxmlt_card_set_power, SetCardPower, Return
<1>4. PICK o \in Supplied : dev' = o.s \/ dev' = Noted(o)
  <2> HIDE DEF Supplied, Noted
  <2>1. PICK o \in Supplied : p = IF on /\ o.ret # "OK" THEN o ELSE Out(o.ret, Noted(o))
    BY <1>2, <1>3
  <2> QED BY <1>2, <2>1 DEF Out
<1>5. ChipBoard(dev) /\ on \in BOOLEAN
  BY DEF CableRight
<1>6. ASSUME ChipBoard(o.s)
      PROVE  ChipBoard(dev') /\ dev'.open_count = o.s.open_count /\ dev'.demod = o.s.demod /\ dev'.reg = o.s.reg
  BY <1>4, <1>6 DEF ChipBoard, Device, DeviceFields
<1>7. CASE dev.open_count = 0
  <2>1. o \in pxmlt_backend_set_power(dev, on)
    BY <1>7
  <2>2. Spares(dev, o.s, {})
    <3> HIDE DEF on
    <3> QED BY <2>1, <1>5, MltPowerSpares
  <2>3. ChipBoard(o.s) /\ o.s.open_count = 0
    BY <1>5, <1>7, <2>2 DEF Spares
  <2>4. \A j \in Rx(family) : ~Using(chr[j])
    <3>1. Held(chr[0]) + Held(chr[1]) = 0
      BY <1>7 DEF CableRight
    <3> QED BY <3>1, MltReceivers DEF Held
  <2> QED BY <1>1, <1>6, <2>3, <2>4, CableUnused DEF CableNext
<1>8. CASE dev.open_count # 0
  <2>1. o.s = dev
    BY <1>8 DEF Out
  <2>2. /\ ChipBoard(dev') /\ dev'.open_count = dev.open_count
        /\ \A j \in Rx(family) : SameChip(dev, dev', j)
    BY <1>5, <1>6, <2>1 DEF SameChip
  <2>3. ASSUME NEW j \in Rx(family), Using(chr[j]) PROVE InOrder(dev', suspect, j)
    BY <1>5, <2>2, <2>3, SameInOrder DEF CableRight
  <2> QED BY <1>1, <2>2, <2>3 DEF CableNext, CableRight
<1> QED BY <1>7, <1>8

(* The steps of a receiver that leave the chips alone.                     *)
LEMMA CableParams ==
    ASSUME family = "mlt", Inv, CableRight(dev, chr, suspect), NEW i \in Rx(family),
           OpenBegin(i) \/ ReleaseEnd(i) \/ SetSystemMode(i) \/ SetParams(i)
    PROVE  CableNext
<1>1. dev' = dev /\ suspect' = suspect
  BY DEF OpenBegin, ReleaseEnd, SetSystemMode, SetParams, ghosts
<1>2. DOMAIN chr = Rx(family) /\ DOMAIN chr[i] = ChrdevFields /\ (chr[i].open <=> chr[i].pc # "closed")
  BY DEF Inv, Right, ReceiversRight, ReceiverRight
<1>3. \A j \in Rx(family) : Using(chr'[j]) <=> Using(chr[j])
  <2>1. CASE OpenBegin(i)
    BY <2>1, <1>2 DEF OpenBegin, Using, ChrdevFields
  <2>2. CASE ReleaseEnd(i)
    BY <2>2, <1>2 DEF ReleaseEnd, Using, ChrdevFields
  <2>3. CASE SetSystemMode(i)
    BY <2>3, <1>2 DEF SetSystemMode, Using, ChrdevFields
  <2>4. CASE SetParams(i)
    <3>1. PICK p : chr' = [chr EXCEPT ![i].params = p]
      BY <2>4 DEF SetParams
    <3> QED BY <3>1, <1>2 DEF Using, ChrdevFields
  <2> QED BY <2>1, <2>2, <2>3, <2>4
<1> QED BY <1>1, <1>3, SparesRefl, CableSpared DEF CableNext

LEMMA MltCallsSpare ==
    ASSUME family = "mlt", NEW s, NEW i \in Rx(family)
    PROVE  /\ \A on : \A o \in OpSetCapture(s, i, on) : Spares(s, o.s, Rx(family))
           /\ \A system : \A o \in OpCheckLock(s, i, system) : Spares(s, o.s, Rx(family))
           /\ \A system, id : \A o \in OpSetStreamId(s, i, system, id) : Spares(s, o.s, Rx(family))
           /\ \A o \in OpReadCnr(s, i) : Spares(s, o.s, Rx(family))
<1>1. ASSUME NEW on, NEW o \in OpSetCapture(s, i, on) PROVE Spares(s, o.s, Rx(family))
  <2>1. o \in pxmlt_chrdev_set_capture(s, on)
    BY <1>1 DEF OpSetCapture
  <2> QED BY <2>1, MltCaptureSpares
<1>2. \A o \in {Out("EINVAL", s)} : Spares(s, o.s, Rx(family))
  BY SparesRefl DEF Out
<1>3. ASSUME NEW system, NEW o \in OpCheckLock(s, i, system) PROVE Spares(s, o.s, Rx(family))
  <2>1. OpCheckLock(s, i, system) \in {cxd2856er_is_ts_locked_isdbt(s), cxd2856er_is_ts_locked_isdbs(s),
                                       cxd2856er_is_ts_locked_isdbc(s), {Out("EINVAL", s)}}
    BY DEF OpCheckLock, pxmlt_chrdev_check_lock, Return
  <2> QED BY <2>1, <1>2, <1>3, DemodStatusSpares
<1>4. ASSUME NEW system, NEW id, NEW o \in OpSetStreamId(s, i, system, id) PROVE Spares(s, o.s, Rx(family))
  <2>1. OpSetStreamId(s, i, system, id) \in {cxd2856er_set_slot_isdbs(s, i, id), cxd2856er_set_tsid_isdbs(s, i, id)}
    BY DEF OpSetStreamId, pxmlt_chrdev_set_stream_id
  <2> QED BY <2>1, <1>4, DemodStatusSpares
<1>5. ASSUME NEW o \in OpReadCnr(s, i) PROVE Spares(s, o.s, Rx(family))
  <2>1. OpReadCnr(s, i) \in {cxd2856er_read_cnr_raw_isdbt(s, i), cxd2856er_read_cnr_raw_isdbs(s),
                             cxd2856er_read_cnr_raw_isdbc(s, i), {Out("EINVAL", s)}}
    BY DEF OpReadCnr, pxmlt_chrdev_read_cnr_raw, Return
  <2> QED BY <2>1, <1>2, <1>5, DemodStatusSpares
<1> QED BY <1>1, <1>3, <1>4, <1>5

LEMMA CableIoctls ==
    ASSUME family = "mlt", Inv, CableRight(dev, chr, suspect), NEW i \in Rx(family),
           \/ WaitTsmfEnd(i) \/ StartStreaming(i) \/ StopStreaming(i)
           \/ LnbPower(i) \/ GetCnr(i) \/ GetStatus(i)
    PROVE  CableNext
<1>1. suspect' = suspect
  BY DEF WaitTsmfEnd, StartStreaming, StopStreaming, LnbPower, GetCnr, GetStatus, ghosts
<1>2. DOMAIN chr = Rx(family) /\ DOMAIN chr[i] = ChrdevFields
  BY DEF Inv, Right, ReceiversRight, ReceiverRight
<1>3. \A j \in Rx(family) : Using(chr'[j]) <=> Using(chr[j])
  <2>1. CASE WaitTsmfEnd(i)
    BY <2>1, <1>2 DEF WaitTsmfEnd, Using, ChrdevFields
  <2>2. CASE StartStreaming(i) \/ StopStreaming(i)
    <3>1. PICK b : chr' = [chr EXCEPT ![i].streaming = b]
      BY <2>2 DEF StartStreaming, StopStreaming
    <3> QED BY <3>1, <1>2 DEF Using, ChrdevFields
  <2>3. CASE LnbPower(i) \/ GetCnr(i) \/ GetStatus(i)
    BY <2>3 DEF LnbPower, GetCnr, GetStatus
  <2> QED BY <2>1, <2>2, <2>3
<1>4. Spares(dev, dev', Rx(family))
  <2>1. CASE WaitTsmfEnd(i) \/ StartStreaming(i) \/ StopStreaming(i)
    <3>1. dev' = dev \/ \E on : \E o \in OpSetCapture(dev, i, on) : dev' = o.s
      BY <2>1 DEF WaitTsmfEnd, StartStreaming, StopStreaming
    <3> QED BY <3>1, SparesRefl, MltCallsSpare
  <2>2. CASE LnbPower(i)
    <3>1. \E v : \E o \in SetLnb(dev, i, v) : dev' = o.s
      BY <2>2 DEF LnbPower
    <3> QED BY <3>1, SetLnbSpares
  <2>3. CASE GetCnr(i)
    BY <2>3, MltCallsSpare DEF GetCnr
  <2>4. CASE GetStatus(i)
    <3>1. \E o \in OpCheckLock(dev, i, chr[i].current_system) : dev' = o.s
      BY <2>4 DEF GetStatus
    <3> QED BY <3>1, MltCallsSpare
  <2> QED BY <2>1, <2>2, <2>3, <2>4
<1> QED BY <1>1, <1>3, <1>4, CableSpared DEF CableNext

(* Opening and closing.                                                    *)
LEMMA CableOpenBoard ==
    ASSUME family = "mlt", SwResetClears, Inv, CableRight(dev, chr, suspect), NEW i \in Rx(family), OpenBoard(i)
    PROVE  CableNext
<1>1. PICK o \in OpOpen(dev, i) :
         /\ dev' = o.s
         /\ chr' = [chr EXCEPT ![i].pc = IF o.ret = "OK" THEN "open" ELSE "leaving"]
         /\ suspect' = [suspect EXCEPT ![i] = IF o.ret = "OK" /\ @ = "yes" THEN "reopened" ELSE @]
  BY DEF OpenBoard
<1>2. /\ DOMAIN chr = Rx(family) /\ DOMAIN chr[i] = ChrdevFields /\ chr[i].pc = "opening"
      /\ DOMAIN suspect = Rx(family)
  BY DEF Inv, Right, ReceiversRight, ReceiverRight, FilterRight, OpenBoard
<1>3. /\ \A j \in Rx(family) : j # i => chr'[j] = chr[j] /\ suspect'[j] = suspect[j]
      /\ ~Using(chr[i]) /\ (Using(chr'[i]) <=> o.ret = "OK")
  BY <1>1, <1>2 DEF Using, ChrdevFields
<1>4. ChipBoard(dev) /\ dev.open_count \in Nat
  BY DEF CableRight, Held
<1>5. Opens(dev, o, i)
  <2>1. o \in pxmlt_chrdev_open(dev, i)
    BY DEF OpOpen
  <2> QED BY <2>1, MltOpens
<1>6. /\ ChipBoard(dev')
      /\ dev.open_count # 0 => \A j \in Rx(family) \ {i} : SameChip(dev, dev', j)
      /\ o.ret # "OK" => dev'.open_count = dev.open_count
      /\ o.ret = "OK" => dev'.open_count = dev.open_count + 1 /\ Fresh(dev', i)
  BY <1>1, <1>4, <1>5 DEF Opens
<1>7. dev'.open_count = Held(chr'[0]) + Held(chr'[1])
  <2>1. dev.open_count = Held(chr[0]) + Held(chr[1])
    BY DEF CableRight
  <2>2. CASE i = 0
    BY <1>3, <1>6, <2>1, <2>2, MltReceivers DEF Held
  <2>3. CASE i = 1
    BY <1>3, <1>6, <2>1, <2>3, MltReceivers DEF Held
  <2> QED BY <2>2, <2>3, MltReceivers
<1>8. ASSUME NEW j \in Rx(family), Using(chr'[j]) PROVE InOrder(dev', suspect', j)
  <2>1. CASE j = i
    BY <1>3, <1>6, <1>8, <2>1, FreshPlain DEF InOrder
  <2>2. CASE j # i
    <3>1. Using(chr[j]) /\ InOrder(dev, suspect, j)
      BY <1>3, <1>8, <2>2 DEF CableRight
    <3>2. dev.open_count # 0
      BY <3>1, MltReceivers DEF CableRight, Held
    <3>3. InOrder(dev', suspect, j)
      BY <1>4, <1>6, <2>2, <3>1, <3>2, SameInOrder
    <3> QED BY <1>3, <2>2, <3>3 DEF InOrder
  <2> QED BY <2>1, <2>2
<1> QED BY <1>6, <1>7, <1>8 DEF CableNext, CableRight

LEMMA CableReleaseBoard ==
    ASSUME family = "mlt", Inv, CableRight(dev, chr, suspect), NEW i \in Rx(family), ReleaseBoard(i)
    PROVE  CableNext
<1>1. PICK s \in IF chr[i].streaming THEN {o.s : o \in OpSetCapture(dev, i, FALSE)} ELSE {dev} :
         \E o \in OpRelease(s, i) : dev' = o.s
  BY DEF ReleaseBoard
<1>2. PICK o \in OpRelease(s, i) : dev' = o.s
  BY <1>1
<1>3. /\ DOMAIN chr = Rx(family) /\ DOMAIN chr[i] = ChrdevFields /\ chr[i].pc = "open"
      /\ suspect' = suspect
  BY DEF Inv, Right, ReceiversRight, ReceiverRight, ReleaseBoard
<1>4. /\ \A j \in Rx(family) : j # i => chr'[j] = chr[j]
      /\ Using(chr[i]) /\ ~Using(chr'[i])
  BY <1>3 DEF ReleaseBoard, Using, ChrdevFields
<1>5. Spares(dev, s, Rx(family))
  BY <1>1, SparesRefl, MltCallsSpare
<1>6. CableRight(s, chr, suspect)
  BY <1>5, CableSpared
<1>7. ChipBoard(s) /\ s.open_count \in Nat /\ s.open_count # 0
  BY <1>4, <1>6, MltReceivers DEF CableRight, Held
<1>8. /\ ChipBoard(dev') /\ dev'.open_count = s.open_count - 1
      /\ s.open_count # 1 => \A j \in Rx(family) \ {i} : SameChip(s, dev', j)
  <2>1. o \in pxmlt_chrdev_release(s, i)
    BY DEF OpRelease
  <2> QED BY <1>2, <1>7, <2>1, MltReleases
<1>9. s.open_count = Held(chr[0]) + Held(chr[1])
  BY <1>6 DEF CableRight
<1>10. dev'.open_count = Held(chr'[0]) + Held(chr'[1])
  <2>1. CASE i = 0
    BY <1>4, <1>8, <1>9, <2>1, MltReceivers DEF Held
  <2>2. CASE i = 1
    BY <1>4, <1>8, <1>9, <2>2, MltReceivers DEF Held
  <2> QED BY <2>1, <2>2, MltReceivers
<1>11. ASSUME NEW j \in Rx(family), Using(chr'[j]) PROVE InOrder(dev', suspect, j)
  <2>1. j # i /\ Using(chr[j]) /\ InOrder(s, suspect, j)
    BY <1>4, <1>6, <1>11 DEF CableRight
  <2>2. s.open_count # 1
    BY <1>4, <1>9, <2>1, MltReceivers DEF Held
  <2> QED BY <1>7, <1>8, <2>1, <2>2, SameInOrder
<1> QED BY <1>3, <1>8, <1>10, <1>11 DEF CableNext, CableRight

(* The board's part of a tune, the stream id before it and the wait for    *)
(* the lock after it included.                                             *)
LEMMA TuningRetunes ==
    ASSUME family = "mlt", NEW i \in Rx(family), chr[i].open, NEW p, NEW system, NEW b \in Tuning(i, p, system)
    PROVE  Retunes(dev, b.s, chr, i)
<1> DEFINE c0 == PrepareTsmf(chr[i], p)
           Before == IF SetStreamIdBeforeTune /\ p.system = "S"
                     THEN OpSetStreamId(dev, i, p.system, p.stream_id) ELSE Return("OK", dev)
           Board == UNION {OpTune(o.s, i, p) : o \in {x \in Before : x.ret = "OK"}}
           restored == [c0 EXCEPT !.params.system = system]
           done == [restored EXCEPT !.current_system = p.system]
           Id(u) == IF p.system = "S" /\ ~SetStreamIdBeforeTune
                    THEN OpSetStreamId(u, i, p.system, p.stream_id) ELSE Return("OK", u)
           After(t) == Then(WaitLock(t, i, p.system), LAMBDA u : Id(u))
           NotTuned(o, c) == [ret |-> o.ret, s |-> o.s, c |-> c, tuned |-> FALSE]
           Tuned(o, c) == [ret |-> o.ret, s |-> o.s, c |-> c, tuned |-> TRUE]
<1>1. Tuning(i, p, system) =
        {NotTuned(o, c0) : o \in {x \in Before : x.ret # "OK"}}
        \cup {NotTuned(o, restored) : o \in {x \in Board : x.ret # "OK"}}
        \cup UNION {{Tuned(o, done) : o \in After(b0.s)} : b0 \in {x \in Board : x.ret = "OK"}}
  BY DEF Tuning, Outcome
<1>2. \A o \in Before : Retunes(dev, o.s, chr, i)
  <2>1. \A o \in Before : Spares(dev, o.s, Rx(family))
    BY MltCallsSpare, SparesRefl DEF Return, Out
  <2> QED BY <2>1, SparesRetunes
<1>3. ASSUME NEW u PROVE \A o \in Id(u) : Spares(u, o.s, Rx(family))
  BY MltCallsSpare, SparesRefl DEF Return, Out
<1>4. ASSUME NEW t PROVE \A o \in After(t) : Retunes(t, o.s, chr, i)
  <2> HIDE DEF Id
  <2>1. \A o \in WaitLock(t, i, p.system) : Spares(t, o.s, Rx(family))
    BY MltCallsSpare DEF WaitLock, Out
  <2>2. \A o \in After(t) : Spares(t, o.s, Rx(family))
    BY <2>1, <1>3, SparesTrans DEF Then
  <2> QED BY <2>2, SparesRetunes
<1>5. ASSUME NEW x \in Board PROVE Retunes(dev, x.s, chr, i)
  <2> HIDE DEF Before
  <2>1. PICK o \in Before : x \in OpTune(o.s, i, p)
    OBVIOUS
  <2>2. x \in pxmlt_chrdev_tune(o.s, chr, i, p)
    BY <2>1 DEF OpTune
  <2>3. Retunes(o.s, x.s, chr, i)
    BY <2>2, MltTuneRetunes
  <2> QED BY <2>1, <2>3, <1>2, RetunesTrans
<1> HIDE DEF Before, Board, After, c0, restored, done
<1>6. CASE b \in {NotTuned(o, c0) : o \in {x \in Before : x.ret # "OK"}}
  BY <1>2, <1>6
<1>7. CASE b \in {NotTuned(o, restored) : o \in {x \in Board : x.ret # "OK"}}
  BY <1>5, <1>7
<1>8. CASE b \in UNION {{Tuned(o, done) : o \in After(b0.s)} : b0 \in {x \in Board : x.ret = "OK"}}
  <2>1. PICK x \in Board : b \in {Tuned(o, done) : o \in After(x.s)}
    BY <1>8
  <2>2. PICK o \in After(x.s) : b.s = o.s
    BY <2>1
  <2>3. Retunes(x.s, b.s, chr, i)
    BY <1>4, <2>2
  <2> QED BY <2>3, <1>5, RetunesTrans
<1> QED BY <1>1, <1>6, <1>7, <1>8

LEMMA CableTune ==
    ASSUME family = "mlt", Inv, CableRight(dev, chr, suspect), NEW i \in Rx(family), chr[i].pc = "open",
           NEW p, NEW system, NEW khz, ptx_chrdev_tune(i, p, system, khz)
    PROVE  CableNext
<1> DEFINE W(b) == IF b.s.faults < dev.faults \/ dev.gone THEN "yes" ELSE suspect[i]
<1>1. PICK b \in Tuning(i, p, system) : \E o \in BeginWaitTsmf(i, b) :
         /\ dev' = o.s /\ chr' = [chr EXCEPT ![i] = o.c]
         /\ suspect' = [suspect EXCEPT ![i] = W(b)]
  BY DEF ptx_chrdev_tune
<1>2. PICK o \in BeginWaitTsmf(i, b) :
         /\ dev' = o.s /\ chr' = [chr EXCEPT ![i] = o.c]
         /\ suspect' = [suspect EXCEPT ![i] = W(b)]
  BY <1>1
<1>3. /\ DOMAIN chr = Rx(family) /\ DOMAIN chr[i] = ChrdevFields /\ DOMAIN suspect = Rx(family)
      /\ chr[i].open /\ \A j \in Rx(family) : Using(chr[j]) => chr[j].open
  BY DEF Inv, Right, ReceiversRight, ReceiverRight, FilterRight, Using
<1>4. Retunes(dev, b.s, chr, i)
  BY <1>3, TuningRetunes
<1>5. SameReceiver(chr[i], b.c) /\ DOMAIN b = {"ret", "s", "c", "tuned"}
  BY <1>3, TuningTunes
<1> DEFINE w == W(b)
<1>6. w # "yes" => suspect[i] # "yes" /\ b.s.faults = dev.faults /\ ~dev.gone
  <2>1. b.s.faults \in Nat /\ dev.faults \in Nat /\ b.s.faults <= dev.faults
    BY <1>4 DEF Retunes, Spares, CableRight, ChipBoard, Device
  <2> QED BY <2>1
<1> HIDE DEF W, w
<1>7. CableRight(b.s, chr, [suspect EXCEPT ![i] = w])
  <2>1. Using(chr[i])
    BY DEF Using
  <2> QED BY <1>3, <1>4, <1>6, <2>1, CableRetuned
<1>8. CableRight(b.s, chr, suspect')
  BY <1>2, <1>7 DEF w
<1> DEFINE waiting == [b.c EXCEPT !.pc = "tsmf"]
<1>9. BeginWaitTsmf(i, b) =
          IF b.ret # "OK" \/ ~b.c.tsmf_active THEN {b}
          ELSE IF b.c.streaming THEN {[b EXCEPT !.c = waiting]}
          ELSE {Outcome(y, IF y.ret = "OK" THEN waiting ELSE b.c, TRUE) : y \in OpSetCapture(b.s, i, TRUE)}
  BY DEF BeginWaitTsmf
<1>10. Using(b.c) /\ Using(waiting)
  BY <1>5 DEF SameReceiver, ChrdevFields, Using
<1> HIDE DEF waiting
<1>11. Spares(b.s, o.s, Rx(family)) /\ Using(o.c)
  <2>1. CASE o = b
    BY <2>1, <1>10, SparesRefl
  <2>2. CASE o = [b EXCEPT !.c = waiting]
    BY <2>2, <1>5, <1>10, SparesRefl
  <2>3. ASSUME NEW y \in OpSetCapture(b.s, i, TRUE),
               o = Outcome(y, IF y.ret = "OK" THEN waiting ELSE b.c, TRUE)
        PROVE  Spares(b.s, o.s, Rx(family)) /\ Using(o.c)
    <3>1. o.s = y.s /\ (o.c = waiting \/ o.c = b.c)
      BY <2>3 DEF Outcome
    <3> QED BY <2>3, <3>1, <1>10, MltCallsSpare
  <2> QED BY <1>9, <2>1, <2>2, <2>3
<1>12. \A j \in Rx(family) : Using(chr'[j]) <=> Using(chr[j])
  BY <1>2, <1>3, <1>11 DEF Using
<1> QED BY <1>2, <1>8, <1>11, <1>12, CableSpared DEF CableNext

LEMMA CableTuneIoctls ==
    ASSUME family = "mlt", Inv, CableRight(dev, chr, suspect), NEW i \in Rx(family), SetChannel(i) \/ TuneParams(i)
    PROVE  CableNext
<1>1. chr[i].pc = "open"
  BY DEF SetChannel, TuneParams, Ioctl
<1>2. \E p, system, khz : ptx_chrdev_tune(i, p, system, khz)
  BY DEF SetChannel, TuneParams
<1> QED BY <1>1, <1>2, CableTune

(* The inductive invariant.                                                *)
CableInv == Inv /\ (family = "mlt" => CableRight(dev, chr, suspect))

LEMMA CableInit == Init => CableInv
<1> SUFFICES ASSUME Init PROVE CableInv
    OBVIOUS
<1>1. Inv
  BY InitRight
<1> SUFFICES ASSUME family = "mlt" PROVE CableRight(dev, chr, suspect)
    BY <1>1 DEF CableInv
<1> DEFINE level == [g \in Gpios |-> FALSE]
<1>2. load.faults \in Nat
  BY WorkloadsAssumption DEF Init, WorkloadsAssumption
<1>3. dev = NewDevice(family, load.faults, "cold", level) /\ attached = "absent" /\ DOMAIN level = Gpios
  BY DEF Init
<1>4. \A j \in Rx(family) : ~Using(chr[j])
  BY <1>1, <1>3, AbsentUnused DEF Inv, Right
<1> HIDE DEF level
<1> QED BY <1>2, <1>3, <1>4, NewChips, CableUnused

LEMMA CableStep ==
    ASSUME SwResetClears, family = "mlt", Inv, CableRight(dev, chr, suspect), Next PROVE CableNext
<1>1. CASE Probe \/ Unplug \/ Disconnect \/ Reattach \/ CardPower
  BY <1>1, CableProbe, CableUnplug, CableCardPower
<1>2. ASSUME NEW i \in DOMAIN load.uses,
             \/ OpenBegin(i) \/ OpenBoard(i) \/ ReleaseBoard(i) \/ ReleaseEnd(i)
             \/ SetChannel(i) \/ SetSystemMode(i) \/ SetParams(i) \/ TuneParams(i)
             \/ WaitTsmfEnd(i) \/ StartStreaming(i) \/ StopStreaming(i)
             \/ LnbPower(i) \/ GetCnr(i) \/ GetStatus(i)
      PROVE  CableNext
  <2>1. i \in Rx(family)
    BY UserReceiver
  <2> QED BY <2>1, <1>2, CableOpenBoard, CableReleaseBoard, CableParams, CableTuneIoctls, CableIoctls
<1> QED BY <1>1, <1>2 DEF Next

LEMMA CableInductive ==
    ASSUME SwResetClears PROVE CableInv /\ [Next]_vars => CableInv'
<1> SUFFICES ASSUME CableInv, [Next]_vars PROVE CableInv'
    OBVIOUS
<1>1. Inv /\ Inv' /\ (family = "mlt" => CableRight(dev, chr, suspect))
  BY InvInductive DEF CableInv
<1>2. family' = family
  <2>1. CASE Next
    BY <2>1, LoadKept DEF family
  <2>2. CASE UNCHANGED vars
    BY <2>2 DEF family, vars
  <2> QED BY <2>1, <2>2
<1> SUFFICES ASSUME family = "mlt" PROVE CableRight(dev, chr, suspect)'
    BY <1>1, <1>2 DEF CableInv
<1>3. CableNext
  <2>1. CASE Next
    BY <2>1, <1>1, CableStep
  <2>2. CASE UNCHANGED vars
    BY <2>2, <1>1 DEF CableNext, vars
  <2> QED BY <2>1, <2>2
<1> QED BY <1>2, <1>3 DEF CableNext, CableRight, ChipBoard, Device

(* Provided that the software reset of a CXD2856ER restores its registers  *)
(* (SwResetClears; the driver's open relies on it), a demodulator of a     *)
(* PX-MLT board that a receiver has open and that is active, with its last *)
(* wake-up complete, has the cable registers of its own system: nothing    *)
(* that ISDB-C or J.83B set survives into ISDB-T or ISDB-S, whichever      *)
(* accesses failed in the tunes, sleeps, opens and releases before         *)
(* (cable_wakeup_incomplete, the error path of cxd2856er_sleep), and no    *)
(* other receiver's open, tune or close reaches into it.                   *)
THEOREM CableLeavesNothing == ASSUME SwResetClears PROVE Spec => []NoCableResidue
<1>1. CableInv => NoCableResidue
  <2> SUFFICES ASSUME CableInv, family = "mlt", NEW i \in Rx(family), Using(chr[i]),
                      dev.demod[i].state = "ACTIVE", ~dev.demod[i].incomplete,
                      dev.demod[i].system \in CableSystems => suspect[i] # "yes",
                      NEW x \in CableRegs
               PROVE  dev.reg[i][x] = CableConfig(dev.demod[i].system)[x]
      BY DEF NoCableResidue, Using
  <2>1. Restorable(dev, i) /\ (suspect[i] # "yes" => Settled(dev, i))
    BY DEF CableInv, CableRight, InOrder
  <2>2. CASE dev.demod[i].system \in CableSystems
    BY <2>1, <2>2 DEF Settled
  <2>3. CASE dev.demod[i].system \notin CableSystems
    <3>1. Cleared(dev, i)
      BY <2>1, <2>3, RestorableForm
    <3>2. CableConfig(dev.demod[i].system)[x] = "default"
      BY <2>3 DEF CableConfig, CableRegs, CableSystems
    <3> QED BY <3>1, <3>2 DEF Cleared
  <2> QED BY <2>2, <2>3
<1>2. CableInv /\ [Next]_vars => CableInv'
  BY CableInductive
<1> QED BY <1>1, <1>2, CableInit, PTL DEF Spec

=============================================================================
