------------------------------ MODULE Px4Board ------------------------------
(***************************************************************************)
(* The PX4 boards (px4_device.c) without a partner unit: receivers of one  *)
(* TC90522 half and an R850 (ISDB-T) or RT710 (ISDB-S) each.  Cap is the   *)
(* system of each receiver.  The boards with two units share their power;  *)
(* Px4Power models that.                                                   *)
(***************************************************************************)
EXTENDS TunerBoard, Tc90522, R850, Rt710
LOCAL INSTANCE TLC

TcRegs == TcDefaults @@ [r \in {"t_pll", "s_tuner", "s_pll", "s_band"} |-> Unset]

Px4Receivers == 0..2            \* S0, S1 and T0; T1 is used as T0 is
Cap(i) == IF i < 2 THEN "S" ELSE "T"

px4_backend_set_power(s, on) == SetPower(s, 7, on, [i \in DOMAIN s.reg |-> TcRegs])

Each(s, Op(_, _)) ==
    Then(Then(Op(s, 0), LAMBDA t : Op(t, 1)), LAMBDA t : Op(t, 2))

px4_backend_init(s) ==
    Each(s, LAMBDA t, i : IF Cap(i) = "T" THEN r850_init(t, i) ELSE rt710_init(t, i))
px4_backend_term(s) ==
    [s EXCEPT !.r850 = [i \in DOMAIN @ |-> IF Cap(i) = "T" THEN R850Off ELSE @[i]],
              !.rt710 = [i \in DOMAIN @ |-> IF Cap(i) = "S" THEN [@[i] EXCEPT !.init = FALSE] ELSE @[i]]]

(* s_tuner_no_sleep is not set.                                            *)
SleepReceiver(s, i) ==
    IF Cap(i) = "T"
    THEN Then(r850_sleep(s, i), LAMBDA t : tc90522_write_multiple_regs(t, i, tc90522_sleep_t(TRUE)))
    ELSE Then(rt710_sleep(s, i), LAMBDA t : tc90522_write_multiple_regs(t, i, tc90522_sleep_s(TRUE)))

WakeReceiver(s, i) ==
    IF Cap(i) = "T"
    THEN Then(tc90522_write_multiple_regs(s, i, tc90522_write_reg("t_init", "px4")
                 \o tc90522_enable_ts_pins_t(FALSE) \o tc90522_sleep_t(FALSE)), LAMBDA t :
            Then(r850_wakeup(t, i), LAMBDA u : r850_set_system(u, i)))
    ELSE tc90522_write_multiple_regs(s, i, tc90522_write_reg("s_init", "px4")
            \o tc90522_enable_ts_pins_s(FALSE) \o tc90522_sleep_s(FALSE))

(* The first receiver initialises all; those nobody has open are put to    *)
(* sleep.  The two first receivers get additional settings.                *)
px4_chrdev_open(s, chr, i) ==
    LET first == s.open_count = 0
        Off(t) == IF first /\ ~t.card_powered THEN px4_backend_set_power(t, FALSE) ELSE Return("OK", t)
        Backend(t) == OnError(px4_backend_init(t), Off)
        Sleep(t) == Each(t, LAMBDA u, j : IF j = i \/ chr[j].open THEN Return("OK", u)
                                          ELSE SleepReceiver(u, j))
        Shared(t) == Then(tc90522_write_multiple_regs(t, 0, tc90522_write_reg("s_out", "px4")),
                          LAMBDA u : tc90522_write_multiple_regs(u, 2, tc90522_write_reg("t_out", "px4")))
        Setup(t) == Then(IF first THEN Sleep(t) ELSE Return("OK", t), LAMBDA u :
                     Then(WakeReceiver(u, i), LAMBDA v :
                      IF first THEN Shared(v) ELSE Return("OK", v)))
        Unwind(t) == Off(IF first THEN px4_backend_term(t) ELSE t)
    IN  Then(IF first /\ ~s.card_powered THEN px4_backend_set_power(s, TRUE) ELSE Return("OK", s), LAMBDA t :
         Then(IF first THEN Backend(t) ELSE Return("OK", t), LAMBDA u :
          Then(OnError(Setup(u), Unwind), LAMBDA v :
            Return("OK", [v EXCEPT !.open_count = @ + 1]))))

px4_chrdev_set_lnb_voltage_s(s, i, voltage) == SetLnb(s, i, voltage)

(* Errors while going to sleep are ignored, each one of the two.           *)
px4_chrdev_release(s, i) ==
    LET Sleep(t) ==
            IF Cap(i) = "T"
            THEN Anyway(r850_sleep(t, i), LAMBDA u :
                    Ignoring(tc90522_write_multiple_regs(u, i, tc90522_sleep_t(TRUE))))
            ELSE Anyway(rt710_sleep(t, i), LAMBDA u :
                    Ignoring(tc90522_write_multiple_regs(u, i, tc90522_sleep_s(TRUE))))
        Leave(t) ==
            IF t.open_count = 0
            THEN LET u == px4_backend_term(t)
                 IN  IF u.card_powered THEN Return("OK", u) ELSE px4_backend_set_power(u, FALSE)
            ELSE IF t.available THEN Sleep(t) ELSE Return("OK", t)
    IN  Anyway(px4_chrdev_set_lnb_voltage_s(s, i, 0), LAMBDA t :
            IF t.open_count = 0 THEN Return("EALREADY", t)
            ELSE Leave([t EXCEPT !.open_count = @ - 1]))

px4_chrdev_tune_t(s, i, p) ==
    IF p.system # "T" THEN Return("EINVAL", s)
    ELSE Then(tc90522_write_multiple_regs(s, i, tc90522_write_reg("t_mode", "tuning")
                 \o tc90522_set_agc_t(FALSE)), LAMBDA t :
          Then(r850_set_frequency(t, i, p.freq), LAMBDA u :
           Then(r850_is_pll_locked(u, i), LAMBDA v :
             tc90522_write_multiple_regs(v, i, tc90522_set_agc_t(TRUE)
                 \o tc90522_write_reg("t_mode", "tuned")))))

px4_chrdev_tune_s(s, i, p) ==
    IF p.system # "S" THEN Return("EINVAL", s)
    ELSE Then(tc90522_write_multiple_regs(s, i, tc90522_set_agc_s(FALSE)
                 \o tc90522_write_reg("s_mode", "tuned")), LAMBDA t :
          Then(rt710_set_params(t, i, p.freq, 28860, 4), LAMBDA u :
           Then(rt710_is_pll_locked(u, i), LAMBDA v :
            Anyway(rt710_get_rf_signal_strength(v, i), LAMBDA w :
             tc90522_write_multiple_regs(w, i, tc90522_set_agc_s(TRUE))))))

px4_chrdev_check_lock_t(s) == tc90522_is_signal_locked_t(s)
px4_chrdev_check_lock_s(s) == tc90522_is_signal_locked_s(s)
px4_chrdev_read_tmcc_partial_reception_t(s) == tc90522_get_tmcc_partial_reception_t(s)
px4_chrdev_read_tmcc_tsid_list_s(s, tsids) == TsidList(s, tsids)
px4_chrdev_set_stream_id_s(s, i, id, tsids) == SetStreamId(s, i, id, tsids)
px4_chrdev_read_cnr_raw_t(s) == tc90522_get_cndat_t(s)
px4_chrdev_read_cnr_raw_s(s) == tc90522_get_cn_s(s)

Px4Pins(s, i, on) ==
    tc90522_write_multiple_regs(s, i,
        IF Cap(i) = "T" THEN tc90522_enable_ts_pins_t(on) ELSE tc90522_enable_ts_pins_s(on))
px4_chrdev_start_capture(s, i) ==
    StartShared(s, LAMBDA t : Px4Pins(t, i, TRUE), LAMBDA t : Px4Pins(t, i, FALSE))
px4_chrdev_stop_capture(s, i) == StopShared(s, LAMBDA t : Px4Pins(t, i, FALSE))
px4_chrdev_set_capture(s, i, on) ==
    IF on THEN px4_chrdev_start_capture(s, i) ELSE px4_chrdev_stop_capture(s, i)

px4_device_set_card_power(s, on) == SetCardPower(s, on, px4_backend_set_power)

px4_device_init(s) ==
    BringUp(s, LAMBDA t :
        Then(it930x_set_gpio_mode(t, 7, "OUT", TRUE), LAMBDA u :
            Then(OutPin(u, PowerGpio, FALSE), LAMBDA v :
                Then(it930x_write_gpio(v, 7, TRUE), LAMBDA w : OutPin(w, LnbGpio, FALSE)))))

=============================================================================
