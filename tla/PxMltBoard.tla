----------------------------- MODULE PxMltBoard -----------------------------
(***************************************************************************)
(* The PX-MLT boards (pxmlt_device.c): receivers of one CXD2856ER and one  *)
(* CXD2858ER each, for ISDB-T, ISDB-S, ISDB-C and J.83B.                   *)
(* s.nullOff[i] is null_packet_filter_disabled; discard_null_packets is    *)
(* set.  chr[i] is the receiver's ptx_chrdev.                              *)
(***************************************************************************)
EXTENDS TunerBoard, Cxd2856er, Cxd2858er

MltRegs ==
    [r \in DOMAIN DemodDefaults \cup DOMAIN TunerDefaults |->
        IF r \in DOMAIN DemodDefaults THEN DemodDefaults[r] ELSE TunerDefaults[r]]

pxmlt_backend_set_power(s, on) ==
    LET D == [i \in DOMAIN s.reg |-> MltRegs]
        unmatched(t) == Return("OK", [t EXCEPT !.tuner = [i \in DOMAIN @ |-> [@[i] EXCEPT !.rfin = FALSE]]])
    IN  IF on THEN Then(SetPower(s, 7, TRUE, D), unmatched) ELSE SetPower(s, 7, FALSE, D)

(* The TS drivers are set up last; what fails is unwound in reverse.       *)
pxmlt_chrdev_open(s, i) ==
    LET first == s.open_count = 0 /\ ~s.card_powered
        Setup(t) == OnError(Access(t), LAMBDA u : cxd2858er_term(u, i))
        Tuner(t) == OnError(Then(cxd2858er_init(t, i), Setup),
                            LAMBDA u : cxd2856er_term(u, i))
    IN  Then(IF first THEN pxmlt_backend_set_power(s, TRUE) ELSE Return("OK", s), LAMBDA t :
         Then(OnError(Then(cxd2856er_init(t, i), Tuner), LAMBDA u :
                 IF first THEN pxmlt_backend_set_power(u, FALSE) ELSE Return("OK", u)),
              LAMBDA v : Return("OK", [v EXCEPT !.open_count = @ + 1])))

pxmlt_chrdev_set_lnb_voltage(s, i, voltage) == SetLnb(s, i, voltage)

pxmlt_chrdev_release(s, i) ==
    Anyway(pxmlt_chrdev_set_lnb_voltage(s, i, 0), LAMBDA t :
        IF t.open_count = 0 THEN Return("EALREADY", t)
        ELSE Anyway(cxd2858er_term(t, i), LAMBDA u :
              Anyway(cxd2856er_term(u, i), LAMBDA v :
                LET w == [v EXCEPT !.open_count = @ - 1]
                IN  IF w.open_count = 0 /\ ~w.card_powered
                    THEN pxmlt_backend_set_power(w, FALSE) ELSE Return("OK", w))))

(* Nothing is written when the filter is believed to be set already.       *)
pxmlt_chrdev_set_null_packet_filter(s, i, enable) ==
    IF s.nullOff[i] = ~enable THEN Return("OK", s)
    ELSE Then(it930x_set_pid_filter(s, i, enable),
              LAMBDA t : Return("OK", [t EXCEPT !.nullOff[i] = ~enable]))

(* Mutant of MatchInput: a closed tuner is only told.                      *)
MatchInputLater(s, chr, j) == {[s EXCEPT !.tuner[j].rfin = TRUE]}

(* The first cable reception since power-on makes every tuner keep its RF  *)
(* input matched in standby: a closed one is put into that standby now, an *)
(* open one when it next goes there.                                       *)
MatchInput(s, chr, j) ==
    LET t == [s EXCEPT !.tuner[j].rfin = TRUE]
        again == Finally(Then(cxd2856er_init(t, j), LAMBDA u : cxd2858er_init(u, j)),
                         LAMBDA u : cxd2856er_term(u, j))
    IN  IF s.tuner[j].rfin THEN {s}
        ELSE IF chr[j].open THEN {t}
        ELSE {[o.s EXCEPT !.tuner[j].rfin = o.ret = "OK"] : o \in again}

MatchInputs(s, chr) == UNION {MatchInput(t, chr, 1) : t \in MatchInput(s, chr, 0)}

(* Mutant of PrepareDemod: the filter is left as ISDB-C had it.            *)
PrepareDemodKeepsFilter(s, chr, i, p) ==
    LET Wakeup(t) == cxd2856er_wakeup(t, i, p.system)
    IN  IF p.system = "UNSPECIFIED" THEN Return("EINVAL", s)
        ELSE IF p.system \notin CableSystems THEN Wakeup(s)
        ELSE UNION {Then(pxmlt_chrdev_set_null_packet_filter(u, i, p.system = "J"), Wakeup) :
                       u \in MatchInputs(s, chr)}

(* Before the tuner: bridge filter, the other tuners, demodulator.         *)
PrepareDemod(s, chr, i, p) ==
    LET Wakeup(t) == cxd2856er_wakeup(t, i, p.system)
        Cable(t) == UNION {Then(pxmlt_chrdev_set_null_packet_filter(u, i, p.system = "J"), Wakeup) :
                              u \in MatchInputs(t, chr)}
    IN  Then(IF s.nullOff[i] /\ p.system # "C"
             THEN pxmlt_chrdev_set_null_packet_filter(s, i, TRUE) ELSE Return("OK", s),
             LAMBDA t : CASE p.system \in {"T", "S"} -> Wakeup(t)
                          [] p.system \in CableSystems -> Cable(t)
                          [] OTHER -> Return("EINVAL", t))

SetTuner(s, i, p) ==
    CASE p.system = "T" -> cxd2858er_set_params_t(s, i, p.freq)
      [] p.system = "S" -> cxd2858er_set_params_s(s, i, p.freq)
      [] OTHER -> cxd2858er_set_params_c(s, i, p.freq, p.system = "J")

pxmlt_chrdev_tune(s, chr, i, p) ==
    Then(PrepareDemod(s, chr, i, p), LAMBDA t :
        Then(SetTuner(t, i, p), LAMBDA u : cxd2856er_post_tune(u, i)))

pxmlt_chrdev_check_lock(s, system) ==
    CASE system = "T" -> cxd2856er_is_ts_locked_isdbt(s)
      [] system = "S" -> cxd2856er_is_ts_locked_isdbs(s)
      [] system \in CableSystems -> cxd2856er_is_ts_locked_isdbc(s)
      [] OTHER -> Return("EINVAL", s)

pxmlt_chrdev_set_stream_id(s, i, id) ==
    IF id < 12 THEN cxd2856er_set_slot_isdbs(s, i, id) ELSE cxd2856er_set_tsid_isdbs(s, i, id)

(* The TS pins belong to the demodulator's wake-up.                        *)
pxmlt_chrdev_start_capture(s) ==
    StartShared(s, LAMBDA t : Return("OK", t), LAMBDA t : Return("OK", t))

(* Mutant of pxmlt_chrdev_stop_capture: a device that is gone is let alone. *)
StopCaptureUnlessGone(s) ==
    IF ~s.available THEN Return("OK", s) ELSE StopShared(s, LAMBDA t : Return("OK", t))

pxmlt_chrdev_stop_capture(s) == StopShared(s, LAMBDA t : Return("OK", t))
pxmlt_chrdev_set_capture(s, on) ==
    IF on THEN pxmlt_chrdev_start_capture(s) ELSE pxmlt_chrdev_stop_capture(s)

pxmlt_chrdev_read_cnr_raw(s, i, system) ==
    CASE system = "T" -> cxd2856er_read_cnr_raw_isdbt(s, i)
      [] system = "S" -> cxd2856er_read_cnr_raw_isdbs(s)
      [] system \in CableSystems -> cxd2856er_read_cnr_raw_isdbc(s, i)
      [] OTHER -> Return("EINVAL", s)

pxmlt_card_set_power(s, on) == SetCardPower(s, on, pxmlt_backend_set_power)

pxmlt_device_init(s) ==
    BringUp(s, LAMBDA t :
        Then(OutPin(t, 7, TRUE), LAMBDA u :
            Then(OutPin(u, PowerGpio, FALSE), LAMBDA v : OutPin(v, LnbGpio, FALSE))))

=============================================================================
