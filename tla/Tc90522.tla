------------------------------- MODULE Tc90522 -------------------------------
(***************************************************************************)
(* The Toshiba TC90522 demodulator driver (tc90522.c), used by every board *)
(* but the PX-MLTs.  It has an ISDB-T and an ISDB-S half; registers:       *)
(*   t_init s_init     the board's table of initial values is written      *)
(*   t_sleep s_sleep   power saving            t_agc s_agc   gain control  *)
(*   t_pins s_pins     transport stream pins   t_mode s_mode the board's   *)
(*   s_tsid            selected stream                settings for a tune  *)
(*   t_out s_out       output drivers (0x0e, 0x0f and 0x07, 0x08)          *)
(*   route             which half gets the antenna (0x1f, ISDB2056 only)   *)
(* The tuners are behind the demodulator's I2C port.                       *)
(***************************************************************************)
EXTENDS I2cBus

TcDefaults ==
    [r \in {"t_init", "t_sleep", "t_agc", "t_pins", "t_mode", "t_out", "route",
            "s_init", "s_sleep", "s_agc", "s_pins", "s_mode", "s_out", "s_tsid"} |-> Unset]

tc90522_write_reg(r, v) == << <<r, v>> >>
tc90522_write_multiple_regs(s, i, P) == Program(s, i, P)

(* A tuner's registers are written through the demodulator: one request    *)
(* that carries the tuner's, under the demodulator's lock.                 *)
tc90522_i2c_master_request(s, i, P) == Program(s, i, P)

OnOff(on) == IF on THEN "on" ELSE "off"

tc90522_sleep_s(sleep) == tc90522_write_reg("s_sleep", OnOff(sleep))
tc90522_set_agc_s(on) == tc90522_write_reg("s_agc", OnOff(on))
tc90522_enable_ts_pins_s(e) == tc90522_write_reg("s_pins", OnOff(e))
tc90522_set_tsid_s(tsid) == tc90522_write_reg("s_tsid", tsid)

tc90522_sleep_t(sleep) == tc90522_write_reg("t_sleep", OnOff(sleep))
tc90522_set_agc_t(on) == tc90522_write_reg("t_agc", OnOff(on))
tc90522_enable_ts_pins_t(e) == tc90522_write_reg("t_pins", OnOff(e))

(* The TS ids of the transponder come from the received TMCC: a slot has   *)
(* one of them or none.  There is none below 12.                           *)
NoTsid == 0
tc90522_tmcc_get_tsid_s(s, idx, tsids) ==
    IF idx >= 12 THEN {[ret |-> "EINVAL", s |-> s, tsid |-> NoTsid]}
    ELSE {[ret |-> o.ret, s |-> o.s, tsid |-> t] :
             o \in Access(s), t \in tsids \cup {NoTsid}}

(* Status reads.  ISDB-T's lock check hides a failed read: not locked.     *)
tc90522_get_tsid_s(s) == Poll(s)
tc90522_get_cn_s(s) == Access(s)
tc90522_get_cndat_t(s) == Access(s)
tc90522_is_signal_locked_s(s) == Poll(s)
tc90522_is_signal_locked_t(s) ==
    {Out(IF o.ret = "OK" THEN "OK" ELSE "EAGAIN", o.s) : o \in Poll(s)}
tc90522_get_tmcc_partial_reception_t(s) ==
    Then(Poll(s), LAMBDA t : Then(Poll(t), LAMBDA u : Access(u)))

(* set_stream_id of the boards: the slot is resolved to a TS id, which is  *)
(* written and read back until the chip has switched.                      *)
SetStreamId(s, i, id, tsids) ==
    LET Select(t, tsid) ==
            Then(tc90522_write_multiple_regs(t, i, tc90522_set_tsid_s(tsid)),
                 LAMBDA u : tc90522_get_tsid_s(u))
    IN  IF id >= 12 THEN Select(s, id)
        ELSE UNION {IF o.ret # "OK" THEN Return(o.ret, o.s)
                    ELSE IF o.tsid = NoTsid THEN Return("EAGAIN", o.s)
                    ELSE Select(o.s, o.tsid) :
                       o \in tc90522_tmcc_get_tsid_s(s, id, tsids)}

(* The TMCC's list of TS ids is only read between two lock checks.         *)
TsidList(s, tsids) ==
    Then(tc90522_is_signal_locked_s(s), LAMBDA t :
        UNION {IF o.ret # "OK" THEN Return(o.ret, o.s)
               ELSE IF o.tsid = NoTsid THEN Return("EAGAIN", o.s)
               ELSE tc90522_is_signal_locked_s(o.s) :
                  o \in tc90522_tmcc_get_tsid_s(t, 0, tsids)})

=============================================================================
