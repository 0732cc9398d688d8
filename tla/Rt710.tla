-------------------------------- MODULE Rt710 --------------------------------
(***************************************************************************)
(* The Rafael RT710 satellite tuner driver (rt710.c).  s.rt710[i] is the   *)
(* driver's struct: init and the frequency set (0 while it is being set).  *)
(* Register s_tuner: "sleep", or the values of a reception; s_pll: the     *)
(* synthesiser; s_band: the band and the channel filter.  The RT720, which *)
(* the driver also knows, is not modelled.                                 *)
(***************************************************************************)
EXTENDS Tc90522, TunerPll

Rt710Off == [init |-> FALSE, freq |-> 0]
Rt710Xtal == 24000
Rt710VcoMin == 2350000

rt710_read_regs(s) == Access(s)
rt710_write_regs(s, i, P) == tc90522_i2c_master_request(s, i, P)

rt710_init(s, i) ==
    Then(rt710_read_regs([s EXCEPT !.rt710[i] = Rt710Off]),
         LAMBDA t : Return("OK", [t EXCEPT !.rt710[i].init = TRUE]))
rt710_term(s, i) == [s EXCEPT !.rt710[i].init = FALSE]

rt710_sleep(s, i) ==
    IF ~s.rt710[i].init THEN Return("EINVAL", s)
    ELSE rt710_write_regs(s, i, << <<"s_tuner", "sleep">> >>)

MixFits(freq, m) == Rt710VcoMin <= freq * m /\ freq * m <= 2 * Rt710VcoMin
MixDiv(freq) ==
    IF \E m \in {2, 4, 8, 16} : MixFits(freq, m)
    THEN CHOOSE m \in {2, 4, 8, 16} : MixFits(freq, m) /\ \A n \in {2, 4, 8, 16} : n < m => ~MixFits(freq, n)
    ELSE 32

(* The frequency is forgotten first and remembered when all is written.    *)
rt710_set_pll(s, i, freq) ==
    LET mix_div == MixDiv(freq)
    IN  Then(rt710_write_regs([s EXCEPT !.rt710[i].freq = 0], i,
                     << <<"s_pll", Pll(freq * mix_div, mix_div, Rt710Xtal)>> >>),
             LAMBDA t : Return("OK", [t EXCEPT !.rt710[i].freq = freq]))

(* The coarse and fine filter setting for a bandwidth in 100 Hz, from the  *)
(* table or, from 38 MHz on, computed.                                     *)
bandwidth_params ==
    <<50000, 73000, 96000, 104000, 116000, 126000, 134000, 146000, 158000,
      170000, 178000, 190000, 202000, 212000, 218000, 234000, 244000, 246000,
      262000, 266000, 282000, 298000, 318000, 340000, 358000, 379999>>
BandwidthRow(symbol_rate, rolloff) ==
    LET bandwidth == (symbol_rate * (115 + rolloff * 5)) \div 10
    IN  IF bandwidth >= 380000
        THEN Len(bandwidth_params) + 1 + (bandwidth - 380000 + 17399) \div 17400
        ELSE CHOOSE n \in DOMAIN bandwidth_params :
                /\ bandwidth <= bandwidth_params[n]
                /\ \A m \in 1..(n - 1) : bandwidth > bandwidth_params[m]

(* Band switches and regulators chosen by the frequency.                   *)
FreqBand(freq) == <<freq \in 1600000..1949999, freq >= 1950000, freq >= 2000000>>

(* All registers (the tuner wakes up), synthesiser, band and filter.       *)
rt710_set_params(s, i, freq, symbol_rate, rolloff) ==
    IF ~s.rt710[i].init \/ rolloff > 5 THEN Return("EINVAL", s)
    ELSE Then(rt710_write_regs(s, i, << <<"s_tuner", "on">> >>), LAMBDA t :
            Then(rt710_set_pll(t, i, freq), LAMBDA u :
                rt710_write_regs(u, i, << <<"s_band", <<FreqBand(freq), BandwidthRow(symbol_rate, rolloff)>> >> >>)))

rt710_is_pll_locked(s, i) == IF s.rt710[i].init THEN Poll(s) ELSE Return("EINVAL", s)
rt710_get_rf_gain(s, i) == IF s.rt710[i].init THEN rt710_read_regs(s) ELSE Return("EINVAL", s)
rt710_get_rf_signal_strength(s, i) == rt710_get_rf_gain(s, i)

=============================================================================
