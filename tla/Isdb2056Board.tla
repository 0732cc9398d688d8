---------------------------- MODULE Isdb2056Board ----------------------------
(***************************************************************************)
(* The ISDB2056 boards (isdb2056_device.c: also PX-M1UR and PX-S1UR) and   *)
(* the ISDBT2071 boards (isdbt2071_device.c): one receiver, whose TC90522  *)
(* halves and tuners are switched over by the system that is tuned.        *)
(***************************************************************************)
EXTENDS TunerBoard, Tc90522, R850, Rt710
LOCAL INSTANCE TLC

OneRegs == TcDefaults @@ [r \in {"t_pll", "s_tuner", "s_pll", "s_band"} |-> Unset]

isdb2056_backend_set_power(s, on) == SetPower(s, 3, on, [i \in DOMAIN s.reg |-> OneRegs])
isdbt2071_backend_set_power(s, on) == SetPower(s, 3, on, [i \in DOMAIN s.reg |-> OneRegs])

(* PX-S1UR (sat = FALSE) has no satellite tuner.                           *)
isdb2056_backend_init(s, i, sat) ==
    Then(r850_init(s, i), LAMBDA t : IF sat THEN rt710_init(t, i) ELSE Return("OK", t))
isdb2056_backend_term(s, i) == rt710_term(r850_term(s, i), i)
isdbt2071_backend_init(s, i) == r850_init(s, i)
isdbt2071_backend_term(s, i) == r850_term(s, i)

(* Both halves are left asleep, without TS pins.                           *)
isdb2056_chrdev_open(s, i, sat) ==
    LET Setup(t) ==
            Then(tc90522_write_multiple_regs(t, i, tc90522_write_reg("t_init", "isdb2056")
                    \o tc90522_enable_ts_pins_t(FALSE) \o tc90522_sleep_t(TRUE)), LAMBDA u :
             Then(r850_set_system(u, i), LAMBDA v :
              tc90522_write_multiple_regs(v, i, tc90522_write_reg("s_init", "isdb2056")
                    \o tc90522_enable_ts_pins_s(FALSE) \o tc90522_sleep_s(TRUE))))
        Init(t) == Then(isdb2056_backend_init(t, i, sat), LAMBDA u :
                     OnError(Setup(u), LAMBDA v : Return("OK", isdb2056_backend_term(v, i))))
    IN  Then(isdb2056_backend_set_power(s, TRUE), LAMBDA t :
            OnError(Init(t), LAMBDA u : isdb2056_backend_set_power(u, FALSE)))

isdb2056_chrdev_release(s, i) == isdb2056_backend_set_power(isdb2056_backend_term(s, i), FALSE)

TuneT2056(s, i, freq) ==
    Then(tc90522_write_multiple_regs(s, i, tc90522_write_reg("t_mode", "tuning")
            \o tc90522_set_agc_t(FALSE) \o tc90522_sleep_s(TRUE)
            \o tc90522_write_reg("t_out", "T") \o tc90522_sleep_t(FALSE)
            \o tc90522_write_reg("route", "T")), LAMBDA t :
     Then(r850_wakeup(t, i), LAMBDA u :
      Then(r850_set_frequency(u, i, freq), LAMBDA v :
       Then(r850_is_pll_locked(v, i), LAMBDA w :
        tc90522_write_multiple_regs(w, i,
            tc90522_set_agc_t(TRUE) \o tc90522_write_reg("t_mode", "tuned"))))))

LeaveT2056 == tc90522_set_agc_s(FALSE) \o tc90522_write_reg("t_out", "S")
              \o tc90522_sleep_t(TRUE)

TuneS2056(s, i, freq) ==
    Then(tc90522_write_multiple_regs(s, i, LeaveT2056
            \o tc90522_write_reg("s_out", "S") \o tc90522_sleep_s(FALSE)
            \o tc90522_write_reg("s_mode", "tuned") \o tc90522_write_reg("route", "S")), LAMBDA t :
     Then(rt710_set_params(t, i, freq, 28860, 4), LAMBDA u :
      Then(rt710_is_pll_locked(u, i), LAMBDA v :
       Anyway(rt710_get_rf_signal_strength(v, i), LAMBDA w :
        tc90522_write_multiple_regs(w, i, tc90522_set_agc_s(TRUE))))))

(* PX-S1UR is an undefined model once the ISDB-T half sleeps; its          *)
(* system_cap keeps ISDB-S tunes away.                                     *)
isdb2056_chrdev_tune(s, i, p, sat) ==
    CASE p.system = "T" -> TuneT2056(s, i, p.freq)
      [] p.system = "S" /\ sat -> TuneS2056(s, i, p.freq)
      [] p.system = "S" /\ ~sat -> Then(tc90522_write_multiple_regs(s, i, LeaveT2056),
                                       LAMBDA t : Return("EINVAL", t))
      [] OTHER -> Return("EINVAL", s)

isdb2056_chrdev_check_lock(s, system) ==
    CASE system = "T" -> tc90522_is_signal_locked_t(s)
      [] system = "S" -> tc90522_is_signal_locked_s(s)
      [] OTHER -> Return("EINVAL", s)

isdb2056_chrdev_set_stream_id(s, i, system, id, tsids) ==
    IF system # "S" THEN Return("EINVAL", s) ELSE SetStreamId(s, i, id, tsids)

(* The TS pins of the system that was tuned last.                          *)
PinsOf(s, i, system, on) ==
    CASE system = "T" -> tc90522_write_multiple_regs(s, i, tc90522_enable_ts_pins_t(on))
      [] system = "S" -> tc90522_write_multiple_regs(s, i, tc90522_enable_ts_pins_s(on))
      [] OTHER -> Return("OK", s)

StartOne(s, i, system, Pins(_)) ==
    Then(it930x_purge_psb(s), LAMBDA t :
        OnError(Then(Pins(t), itedtv_bus_start_streaming),
                LAMBDA u : PinsOf(u, i, system, FALSE)))

StopOne(s, i, system) ==
    LET t == itedtv_bus_stop_streaming(s)
    IN  IF t.available THEN Ignoring(PinsOf(t, i, system, FALSE)) ELSE Return("OK", t)

isdb2056_chrdev_start_capture(s, i, system, sat) ==
    StartOne(s, i, system, LAMBDA t :
        IF system = "UNSPECIFIED" /\ ~sat THEN Return("EINVAL", t) ELSE PinsOf(t, i, system, TRUE))
isdb2056_chrdev_stop_capture(s, i, system) == StopOne(s, i, system)
isdb2056_chrdev_set_capture(s, i, system, sat, on) ==
    IF on THEN isdb2056_chrdev_start_capture(s, i, system, sat)
    ELSE isdb2056_chrdev_stop_capture(s, i, system)

isdb2056_chrdev_read_cnr_raw(s, system) ==
    CASE system = "T" -> tc90522_get_cndat_t(s)
      [] system = "S" -> tc90522_get_cn_s(s)
      [] OTHER -> Return("EINVAL", s)

OnePins(s) == Then(OutPin(s, 3, TRUE), LAMBDA t : OutPin(t, PowerGpio, FALSE))
isdb2056_device_init(s) == BringUp(s, OnePins)

-----------------------------------------------------------------------------
(* isdbt2071_device.c: ISDB-T only, awake from open to release.            *)

isdbt2071_chrdev_open(s, i) ==
    LET Setup(t) ==
            Then(tc90522_write_multiple_regs(t, i, tc90522_write_reg("t_init", "isdbt2071")
                    \o tc90522_enable_ts_pins_t(FALSE) \o tc90522_sleep_t(FALSE)), LAMBDA u :
             Then(r850_wakeup(u, i), LAMBDA v : r850_set_system(v, i)))
        Init(t) == Then(isdbt2071_backend_init(t, i), LAMBDA u :
                     OnError(Setup(u), LAMBDA v : Return("OK", isdbt2071_backend_term(v, i))))
    IN  Then(isdbt2071_backend_set_power(s, TRUE), LAMBDA t :
            OnError(Init(t), LAMBDA u : isdbt2071_backend_set_power(u, FALSE)))

isdbt2071_chrdev_release(s, i) == isdbt2071_backend_set_power(isdbt2071_backend_term(s, i), FALSE)

isdbt2071_chrdev_tune(s, i, p) ==
    IF p.system # "T" THEN Return("EINVAL", s)
    ELSE Then(tc90522_write_multiple_regs(s, i, tc90522_write_reg("t_mode", "tuning")
                 \o tc90522_set_agc_t(FALSE) \o tc90522_write_reg("t_mode", "tuned")), LAMBDA t :
          Then(r850_set_frequency(t, i, p.freq), LAMBDA u :
           Then(r850_is_pll_locked(u, i), LAMBDA v :
            tc90522_write_multiple_regs(v, i, tc90522_set_agc_t(TRUE)))))

isdbt2071_chrdev_check_lock(s, system) ==
    IF system = "T" THEN tc90522_is_signal_locked_t(s) ELSE Return("EINVAL", s)

isdbt2071_chrdev_start_capture(s, i, system) ==
    StartOne(s, i, system, LAMBDA t :
        IF system # "T" THEN Return("EINVAL", t) ELSE PinsOf(t, i, "T", TRUE))
isdbt2071_chrdev_stop_capture(s, i, system) == StopOne(s, i, system)
isdbt2071_chrdev_set_capture(s, i, system, on) ==
    IF on THEN isdbt2071_chrdev_start_capture(s, i, system)
    ELSE isdbt2071_chrdev_stop_capture(s, i, system)

isdbt2071_chrdev_read_cnr_raw(s, system) ==
    IF system = "T" THEN tc90522_get_cndat_t(s) ELSE Return("EINVAL", s)

isdbt2071_device_init(s) == BringUp(s, OnePins)

=============================================================================
