------------------------------ MODULE Cxd2858er ------------------------------
(***************************************************************************)
(* The Sony CXD2858ER tuner driver (cxd2858er.c), behind the demodulator's *)
(* I2C gate.  s.tuner[i] is the driver's struct: the system it is tuned    *)
(* for and config.ter.rfin_matching.  Registers:                           *)
(*   mode   T or S (0x01)          lna    0x43, RF input of the low-noise  *)
(*   ter    terrestrial path: on or standby (0x5e)             amplifier   *)
(*   rfin   0x67 bit 1: RF input matching kept in standby                  *)
(*   tune   what the terrestrial path is tuned to (0x68-0x78)              *)
(*   sat    satellite path: its frequency or Unset (0x0c-0x15)             *)
(*   gate   the demodulator passes I2C through to the tuner                *)
(***************************************************************************)
EXTENDS I2cBus

TunerDefaults == [mode |-> "T", lna |-> Unset, ter |-> Unset, rfin |-> FALSE,
                  tune |-> Unset, sat |-> Unset, gate |-> "closed"]

SetSystem(s, i, system) == [s EXCEPT !.tuner[i].system = system]

cxd2856er_i2c_master_gate_ctrl(s, i, open) ==
    Program(s, i, << <<"gate", IF open THEN "open" ELSE "closed">> >>)

(* gate open; body; exit: gate closed; return ret                          *)
Gated(s, i, Body(_)) ==
    Then(cxd2856er_i2c_master_gate_ctrl(s, i, TRUE),
         LAMBDA t : Finally(Body(t),
                       LAMBDA u : cxd2856er_i2c_master_gate_ctrl(u, i, FALSE)))

(* cxd2858er_write_regs() and _write_reg_mask(), one after the other.      *)
cxd2858er_write_regs(s, i, P) == Program(s, i, P)

cxd2858er_power_on(s, i) ==
    Then(cxd2858er_write_regs(s, i, << <<"mode", "T">>, <<"rfin", s.tuner[i].rfin>>,
                          <<"lna", "ter">>, <<"ter", "standby">>,
                          <<"sat", Unset>> >>),
         LAMBDA t : Access(t))

cxd2858er_init(s, i) ==
    Gated(SetSystem(s, i, "UNSPECIFIED"), i, LAMBDA t : cxd2858er_power_on(t, i))

cxd2858er_stop_t(s, i) ==
    Then(cxd2858er_write_regs(s, i, << <<"rfin", s.tuner[i].rfin>>, <<"ter", "standby">> >>),
         LAMBDA t : Return("OK", SetSystem(t, i, "UNSPECIFIED")))

cxd2858er_stop_s(s, i) ==
    Then(cxd2858er_write_regs(s, i, << <<"lna", "ter">>, <<"sat", Unset>>, <<"mode", "T">> >>
                       \o IF s.tuner[i].rfin THEN << <<"rfin", TRUE>> >> ELSE << >>),
         LAMBDA t : Return("OK", SetSystem(t, i, "UNSPECIFIED")))

StopRunning(s, i) ==
    IF s.tuner[i].system = "S" THEN cxd2858er_stop_s(s, i) ELSE cxd2858er_stop_t(s, i)

(* The stop's own failure is not looked at; when even the gate does not    *)
(* open the driver forgets what the tuner was doing.                       *)
cxd2858er_term(s, i) ==
    IF s.tuner[i].system = "UNSPECIFIED" THEN Return("OK", s)
    ELSE UNION {IF o.ret = "OK"
                THEN Finally(Anyway(StopRunning(o.s, i), LAMBDA t : Return("OK", t)),
                             LAMBDA t : cxd2856er_i2c_master_gate_ctrl(t, i, FALSE))
                ELSE Return("OK", SetSystem(o.s, i, "UNSPECIFIED")) :
                o \in cxd2856er_i2c_master_gate_ctrl(s, i, TRUE)}

(* Only the other path's reception is stopped first.                       *)
LeaveSatellite(s, i) ==
    IF s.tuner[i].system = "S" THEN cxd2858er_stop_s(s, i) ELSE Return("OK", s)
LeaveTerrestrial(s, i) ==
    IF s.tuner[i].system \in {"T", "C"} THEN cxd2858er_stop_t(s, i) ELSE Return("OK", s)

TerrestrialProgram(system, freq) ==
    << <<"mode", "T">>, <<"ter", "on">>, <<"rfin", FALSE>>,
       <<"tune", <<system, freq>> >> >>

(* The frequency register holds 20 bits of kHz; only cable tunes test it.  *)
cxd2858er_set_params_t(s, i, freq) ==
    Gated(s, i, LAMBDA t :
        Then(LeaveSatellite(t, i), LAMBDA u :
            Then(cxd2858er_write_regs(u, i, TerrestrialProgram("T", freq % 2^20)),
                 LAMBDA v : Return("OK", SetSystem(v, i, "T")))))

cxd2858er_set_params_c(s, i, freq, j83b) ==
    IF freq > 1048575 THEN Return("EINVAL", s)
    ELSE Gated(s, i, LAMBDA t :
        Then(LeaveSatellite(t, i), LAMBDA u :
            Then(cxd2858er_write_regs(u, i, TerrestrialProgram(IF j83b THEN "J" ELSE "C", freq)),
                 LAMBDA v : Return("OK", SetSystem(v, i, "C")))))

cxd2858er_set_params_s(s, i, freq) ==
    Gated(s, i, LAMBDA t :
        Then(LeaveTerrestrial(t, i), LAMBDA u :
            Then(cxd2858er_write_regs(u, i, << <<"lna", "sat">>, <<"mode", "S">>,
                                  <<"sat", ((freq + 2) \div 4) % 2^20>> >>),
                 LAMBDA v : Return("OK", SetSystem(v, i, "S")))))

=============================================================================
