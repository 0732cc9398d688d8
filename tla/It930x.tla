------------------------------- MODULE It930x -------------------------------
(***************************************************************************)
(* The ITE IT930x USB bridge (it930x.c): bring-up, GPIO, PID filters and   *)
(* the purge of the stream buffer.  Fields of the board state:             *)
(*   bridge   cold, booted (firmware runs) or warm (configured)            *)
(*   gpio     the driver's record of each pin: mode, enable                *)
(*   level    what each pin drives                                         *)
(*   filter   what the bridge does with null packets of each input         *)
(*   bus      TS data is received over USB (itedtv_bus.c)                  *)
(***************************************************************************)
EXTENDS I2cBus

PowerGpio == 2
LnbGpio == 11
Gpios == {2, 3, 7, 11}

NoGpio == [mode |-> "none", enable |-> FALSE]

(* A new driver instance knows nothing of the pins.                        *)
it930x_init(s) == [s EXCEPT !.gpio = [g \in Gpios |-> NoGpio]]

(* Five tries.                                                             *)
it930x_raise(s) ==
    IF s.gone THEN {Out("EIO", s)}
    ELSE {Out(IF n < 5 THEN "OK" ELSE "EIO", [s EXCEPT !.faults = @ - n]) :
             n \in 0..(IF s.faults < 5 THEN s.faults ELSE 5)}

(* Loaded once per power cycle: a bridge that reports a version keeps it.  *)
it930x_load_firmware(s) ==
    Then(Access(s), LAMBDA t :
        IF t.bridge # "cold" THEN Return("OK", t)
        ELSE Then(Access(t), LAMBDA u :
                Then(Set(u, [u EXCEPT !.bridge = "booted"]), LAMBDA v : Access(v))))

it930x_config_stream_output(s) == Access(s)
it930x_config_i2c(s) == Access(s)
it930x_config_stream_input(s) == Access(s)

(* Leaves the board's tuner supply switched on.                            *)
it930x_init_warm(s) ==
    Then(Set(s, [s EXCEPT !.level[PowerGpio] = TRUE]), LAMBDA t :
        Then(it930x_config_stream_output(t), LAMBDA u :
            Then(it930x_config_i2c(u), LAMBDA v :
                Then(it930x_config_stream_input(v), LAMBDA w :
                    Return("OK", [w EXCEPT !.bridge = "warm"])))))

(* The records of mode and enable follow the register only on success.     *)
it930x_set_gpio_mode(s, g, mode, enable) ==
    Then(IF s.gpio[g].mode = mode THEN Return("OK", s)
         ELSE Then(Access(s), LAMBDA t : Return("OK", [t EXCEPT !.gpio[g].mode = mode])),
         LAMBDA t :
            IF ~enable \/ t.gpio[g].enable THEN Return("OK", t)
            ELSE Then(Access(t), LAMBDA u : Return("OK", [u EXCEPT !.gpio[g].enable = TRUE])))

it930x_write_gpio(s, g, high) ==
    IF s.gpio[g].mode # "OUT" THEN Return("EINVAL", s)
    ELSE Set(s, [s EXCEPT !.level[g] = high])

(* Several writes, but one of them (0xda73) switches the filter.           *)
it930x_set_pid_filter(s, i, block) ==
    Set(s, [s EXCEPT !.filter[i] = IF block THEN "block" ELSE "pass"])

it930x_purge_psb(s) ==
    Then(Access(s), LAMBDA t : Finally(Access(t), LAMBDA u : Access(u)))

(* ItedtvBus models these in detail.                                       *)
itedtv_bus_start_streaming(s) ==
    Then(Access(s), LAMBDA t : Return("OK", [t EXCEPT !.bus = TRUE]))
itedtv_bus_stop_streaming(s) == [s EXCEPT !.bus = FALSE]

OutPin(s, g, high) ==
    Then(it930x_set_gpio_mode(s, g, "OUT", TRUE), LAMBDA t : it930x_write_gpio(t, g, high))

(* What the bring-up of every board has in common: the bridge, the board's *)
(* pins, and null packets dropped.                                         *)
BringUp(s, Pins(_)) ==
    LET Filters(t) == Set(t, [t EXCEPT !.filter = [i \in DOMAIN @ |-> "block"]])
    IN  Then(it930x_raise(it930x_init(s)), LAMBDA a :
         Then(Access(a), LAMBDA b :                         \* load_config
          Then(it930x_load_firmware(b), LAMBDA c :
           Then(it930x_init_warm(c), LAMBDA d :
            Then(Pins(d), LAMBDA e :
             Then(Filters(e), LAMBDA f :
                Return("OK", [f EXCEPT !.available = TRUE])))))))

=============================================================================
