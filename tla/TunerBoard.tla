----------------------------- MODULE TunerBoard -----------------------------
(***************************************************************************)
(* What the boards share: the supply of the tuner section, the LNB supply, *)
(* and the reception over USB that the receivers of a board have in common.*)
(* Fields of the board state:                                              *)
(*   available        the driver still owns the device                     *)
(*   open_count       receivers opened      card_powered   card in use     *)
(*   lnb_power_count  receivers that want the LNB; lnb[i] is one's wish    *)
(*   streaming_count  receivers that capture                               *)
(***************************************************************************)
EXTENDS It930x

(* A board that loses or gets its supply has its registers at their        *)
(* power-on values D.                                                      *)
Supply(s, high, D) ==
    {Out(o.ret, IF o.s.level[PowerGpio] = s.level[PowerGpio] THEN o.s
                ELSE [o.s EXCEPT !.reg = D]) :
       o \in it930x_write_gpio(s, PowerGpio, high)}

(* The reset pin and the supply, and their undoing, which ignores errors   *)
(* and leaves a device alone that the driver no longer owns.               *)
SetPower(s, reset, on, D) ==
    IF on THEN Then(it930x_write_gpio(s, reset, FALSE), LAMBDA t : Supply(t, TRUE, D))
    ELSE IF ~s.available THEN Return("OK", s)
    ELSE Anyway(Supply(s, FALSE, D), LAMBDA t : Ignoring(it930x_write_gpio(t, reset, TRUE)))

(* Mutant of SetLnb: a switch-off that fails leaves the receiver's wish.   *)
SetLnbKeepsWish(s, i, voltage) ==
    LET on == voltage # 0
        left == IF on THEN s.lnb_power_count ELSE s.lnb_power_count - 1
        t == [s EXCEPT !.lnb_power_count = left]
        written == IF left = 0 THEN it930x_write_gpio(t, LnbGpio, on) ELSE Return("OK", t)
        Recorded(u) == [u EXCEPT !.lnb_power_count = IF on THEN @ + 1 ELSE @, !.lnb[i] = on]
    IN  IF voltage \notin {0, 15} THEN Return("EINVAL", s)
        ELSE IF s.lnb[i] = on \/ (~on /\ ~s.available) THEN Return("OK", s)
        ELSE {IF o.ret # "OK" THEN o ELSE Out(o.ret, Recorded(o.s)) : o \in written}

(* The LNB supply is on while some receiver wants it.  A receiver that no  *)
(* longer wants it is recorded so even when the pin could not be written.  *)
SetLnb(s, i, voltage) ==
    LET on == voltage # 0
        left == IF on THEN s.lnb_power_count ELSE s.lnb_power_count - 1
        t == [s EXCEPT !.lnb_power_count = left]
        written == IF left = 0 THEN it930x_write_gpio(t, LnbGpio, on) ELSE Return("OK", t)
        Recorded(u) == [u EXCEPT !.lnb_power_count = IF on THEN @ + 1 ELSE @, !.lnb[i] = on]
    IN  IF voltage \notin {0, 15} THEN Return("EINVAL", s)
        ELSE IF s.lnb[i] = on \/ (~on /\ ~s.available) THEN Return("OK", s)
        ELSE {IF o.ret # "OK" /\ on THEN o ELSE Out(o.ret, Recorded(o.s)) : o \in written}

(* The first receiver purges the bridge's buffer and starts the reception. *)
(* Pins(t) enables the receiver's TS pins, NoPins(t) undoes it.            *)
StartShared(s, Pins(_), NoPins(_)) ==
    LET first == s.streaming_count = 0
        Bus(t) == IF first THEN itedtv_bus_start_streaming(t) ELSE Return("OK", t)
    IN  Then(IF first THEN it930x_purge_psb(s) ELSE Return("OK", s), LAMBDA t :
         Then(Pins(t), LAMBDA u :
          Then(OnError(Bus(u), NoPins), LAMBDA v :
            Return("OK", [v EXCEPT !.streaming_count = @ + 1]))))

(* The last receiver stops it.                                             *)
StopShared(s, NoPins(_)) ==
    IF s.streaming_count = 0 THEN Return("EALREADY", s)
    ELSE LET t == [s EXCEPT !.streaming_count = @ - 1]
             u == IF t.streaming_count = 0 THEN itedtv_bus_stop_streaming(t) ELSE t
         IN  IF u.available THEN Ignoring(NoPins(u)) ELSE Return("OK", u)

(* The card reader's share of the supply: a failed switch-off still counts *)
(* as off.                                                                 *)
SetCardPower(s, on, Power(_, _)) ==
    {IF on /\ o.ret # "OK" THEN o ELSE Out(o.ret, [o.s EXCEPT !.card_powered = on]) :
        o \in IF s.open_count = 0 THEN Power(s, on) ELSE Return("OK", s)}

=============================================================================
