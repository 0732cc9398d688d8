------------------------------ MODULE Cxd2856er ------------------------------
(***************************************************************************)
(* The Sony CXD2856ER demodulator driver (cxd2856er.c), used by the PX-MLT *)
(* boards.  s.demod[i] is the driver's struct: state, system and           *)
(* cable_wakeup_incomplete.  The registers are kept as the groups that     *)
(* tell a reception system from another:                                   *)
(*   tsclk   transport stream clock            clock   demodulator clock   *)
(*   analog  converters and their clocks       terr    ISDB-T demodulator  *)
(*   band    intermediate frequency            bank    0xce/0xcf           *)
(*   a3 qam srate fec tsmf j83b   what only ISDB-C and J.83B set           *)
(*   mute    TS output stopped (0xc3)          out     TS output drivers   *)
(*   pins    TS pins                           slot    ISDB-S stream       *)
(*   freeze  the monitor registers are held for reading (0x01)             *)
(***************************************************************************)
EXTENDS I2cBus

CONSTANT SwResetClears   \* whether the software reset restores the registers
ASSUME SwResetClearsAssumption == SwResetClears \in BOOLEAN

CableSystems == {"C", "J"}

DemodDefaults ==
    [tsclk |-> Unset, clock |-> "off", analog |-> "off", terr |-> "default",
     band |-> Unset, bank |-> Unset, a3 |-> "default", qam |-> "default",
     srate |-> "default", fec |-> "default", tsmf |-> "default",
     j83b |-> "default", mute |-> "on", out |-> "off", pins |-> "off",
     slot |-> Unset, freeze |-> "off"]

(* What only the cable systems set and cxd2856er_sleep() restores.         *)
CableRegs == {"a3", "qam", "fec", "j83b"}

DemodUnknown == [state |-> "UNKNOWN", system |-> "UNSPECIFIED", incomplete |-> FALSE]
DemodAsleep == [DemodUnknown EXCEPT !.state = "SLEEP"]

SetDemod(s, i, d) == [s EXCEPT !.demod[i] = d]

(* The reset sequence on the system registers.                             *)
SwReset(s, i) ==
    LET t == [s EXCEPT !.reg[i] = [x \in DOMAIN @ |->
                  IF SwResetClears /\ x \in DOMAIN DemodDefaults
                  THEN DemodDefaults[x] ELSE @[x]]]
    IN  Set(s, t)

cxd2856er_init(s, i) ==
    Then(SwReset(SetDemod(s, i, DemodUnknown), i),
         LAMBDA t : Access(SetDemod(t, i, DemodAsleep)))

cxd2856er_set_ts_clock(system) ==
    << <<"tsclk", IF system \in {"S", "C"} THEN "SC" ELSE system>> >>

cxd2856er_set_ts_pin_state(on) == << <<"pins", IF on THEN "on" ELSE "off">> >>

StopOutput == << <<"mute", "on">>, <<"out", "off">> >>
StartOutput == << <<"out", "on">> >> \o cxd2856er_set_ts_pin_state(TRUE)

cxd2856er_sleep_isdbt ==
    StopOutput \o cxd2856er_set_ts_pin_state(FALSE)
    \o << <<"terr", "default">>, <<"analog", "off">>, <<"clock", "off">> >>

cxd2856er_sleep_isdbs ==
    StopOutput \o cxd2856er_set_ts_pin_state(FALSE)
    \o << <<"analog", "off">>, <<"clock", "off">> >>

cxd2856er_sleep_cable_common == << <<"analog", "off">>, <<"clock", "off">> >>

cxd2856er_sleep_isdbc ==
    StopOutput \o cxd2856er_set_ts_pin_state(FALSE)
    \o << <<"a3", "default">>, <<"fec", "default">>, <<"qam", "default">> >>
    \o cxd2856er_sleep_cable_common

cxd2856er_sleep_j83b ==
    StopOutput \o cxd2856er_set_ts_pin_state(FALSE)
    \o << <<"a3", "default">>, <<"j83b", "default">>, <<"qam", "default">>,
          <<"srate", "default">> >>
    \o cxd2856er_sleep_cable_common

(* The cable systems stay "active" when their settings could not be        *)
(* restored, so that the next stop restores them; ISDB-T and ISDB-S do not.*)
cxd2856er_sleep(s, i) ==
    LET d == s.demod[i]
        asleep(t) == Return("OK", SetDemod(t, i, DemodAsleep))
    IN  CASE d.state = "SLEEP"      -> Return("EALREADY", s)
          [] d.state # "SLEEP" /\ d.system = "C" ->
                Then(Program(s, i, cxd2856er_sleep_isdbc), asleep)
          [] d.state # "SLEEP" /\ d.system = "J" ->
                Then(Program(s, i, cxd2856er_sleep_j83b), asleep)
          [] d.state # "SLEEP" /\ d.system = "T" ->
                Anyway(Program(s, i, cxd2856er_sleep_isdbt), asleep)
          [] d.state # "SLEEP" /\ d.system = "S" ->
                Anyway(Program(s, i, cxd2856er_sleep_isdbs), asleep)
          [] OTHER                  -> asleep(s)

cxd2856er_term(s, i) == Finally(Return("OK", s), LAMBDA t : cxd2856er_sleep(t, i))

cxd2856er_set_bandwidth_isdbt == << <<"band", "T">> >>

cxd2856er_wakeup_isdbt ==
    cxd2856er_set_ts_clock("T")
    \o << <<"clock", "T">>, <<"analog", "terr">>, <<"bank", "bcast">>,
          <<"terr", "T">> >>
    \o cxd2856er_set_bandwidth_isdbt \o StartOutput

cxd2856er_wakeup_isdbs ==
    cxd2856er_set_ts_clock("S")
    \o << <<"clock", "S">>, <<"analog", "sat">>, <<"bank", "bcast">> >>
    \o StartOutput

cxd2856er_set_band_j83b ==
    << <<"band", "J">>, <<"qam", "J">>, <<"srate", "J">> >>

cxd2856er_wakeup_j83b ==
    cxd2856er_set_ts_clock("J")
    \o << <<"clock", "J">>, <<"analog", "terr">>, <<"j83b", "J">>,
          <<"a3", "cable">>, <<"bank", "cable">> >>
    \o cxd2856er_set_band_j83b \o StartOutput

cxd2856er_wakeup_isdbc ==
    << <<"tsmf", "single">> >> \o cxd2856er_set_ts_clock("C")
    \o << <<"clock", "C">>, <<"analog", "terr">>, <<"fec", "C">>,
          <<"bank", "cable">>, <<"band", "C">>, <<"a3", "cable">>,
          <<"qam", "C">>, <<"srate", "C">> >>
    \o StartOutput

(* Tuning again within a system: the output stops, the band is rewritten.  *)
cxd2856er_reset_isdbt == << <<"mute", "on">> >> \o cxd2856er_set_bandwidth_isdbt
cxd2856er_reset_isdbs == << <<"mute", "on">> >>
cxd2856er_reset_isdbc == << <<"mute", "on">> >>
cxd2856er_reset_j83b == << <<"mute", "on">> >> \o cxd2856er_set_band_j83b

ResetProgram(system) ==
    [T |-> cxd2856er_reset_isdbt, S |-> cxd2856er_reset_isdbs,
     C |-> cxd2856er_reset_isdbc, J |-> cxd2856er_reset_j83b][system]

WakeupProgram(system) ==
    [T |-> cxd2856er_wakeup_isdbt, S |-> cxd2856er_wakeup_isdbs,
     C |-> cxd2856er_wakeup_isdbc, J |-> cxd2856er_wakeup_j83b][system]

(* The wake-up proper.  A cable system is marked active before its first   *)
(* write, and incomplete until the last.                                   *)
Wake(s, i, system) ==
    LET begun == IF system \in CableSystems
                 THEN SetDemod(s, i, [state |-> "ACTIVE", system |-> system,
                                      incomplete |-> TRUE])
                 ELSE s
        active(t) == Return("OK", SetDemod(t, i, [state |-> "ACTIVE",
                                 system |-> system, incomplete |-> FALSE]))
    IN  Then(Program(begun, i, WakeupProgram(system)), active)

(* Mutants of MustRestore: a wake-up that failed half-way is taken for a   *)
(* reception; a cable reception is left like any other.                    *)
RestoreOnlyOnSwitch(d, system) ==
    d.state = "ACTIVE" /\ d.system \in CableSystems /\ system # d.system
RestoreNever(d, system) == FALSE

(* A cable reception that is left, or was never completed, is first undone.*)
MustRestore(d, system) ==
    /\ d.state = "ACTIVE"
    /\ d.system \in CableSystems
    /\ system # d.system \/ d.incomplete

cxd2856er_wakeup(s, i, system) ==
    Then(IF MustRestore(s.demod[i], system)
         THEN cxd2856er_sleep(s, i) ELSE Return("OK", s),
         LAMBDA t :
            CASE t.demod[i].state = "ACTIVE" /\ t.demod[i].system = system ->
                    Program(t, i, ResetProgram(system))
              [] t.demod[i].state = "ACTIVE" /\ t.demod[i].system # system ->
                    Anyway(cxd2856er_sleep(t, i), LAMBDA u : Wake(u, i, system))
              [] OTHER -> Wake(t, i, system))

cxd2856er_post_tune(s, i) == Program(s, i, << <<"mute", "off">> >>)

(* Slots 0-7 of the TMCC, or a TS id; only slots can be out of range.      *)
cxd2856er_set_slot_isdbs(s, i, idx) ==
    IF idx >= 8 THEN Return("EINVAL", s)
    ELSE Program(s, i, << <<"slot", idx>> >>)
cxd2856er_set_tsid_isdbs(s, i, tsid) == Program(s, i, << <<"slot", tsid>> >>)

(* Lock status and C/N are read from the chip; what it reports is its own  *)
(* choice.  ISDB-T's lock check also tells that there is nothing to lock.  *)
cxd2856er_is_ts_locked_isdbt(s) ==
    Poll(s) \cup IF s.gone THEN {} ELSE {Out("ECANCELED", s)}
cxd2856er_is_ts_locked_isdbs(s) == Poll(s)
cxd2856er_is_ts_locked_isdbc(s) == Poll(s)

(* The monitor is held while it is read.  A failed ISDB-T read leaves it   *)
(* held, a failed ISDB-C read does not.                                    *)
Freeze(s, i) == Program(s, i, << <<"freeze", "on">> >>)
Unfreeze(s, i) == Program(s, i, << <<"freeze", "off">> >>)
cxd2856er_read_cnr_raw_isdbt(s, i) ==
    Then(Freeze(s, i), LAMBDA t : Then(Access(t), LAMBDA u : Unfreeze(u, i)))
cxd2856er_read_cnr_raw_isdbs(s) == Access(s)
cxd2856er_read_cnr_raw_isdbc(s, i) ==
    Then(Freeze(s, i), LAMBDA t :
        UNION {{Out(IF o.ret # "OK" THEN o.ret ELSE p.ret, p.s) : p \in Unfreeze(o.s, i)} :
                  o \in Access(t)})

=============================================================================
