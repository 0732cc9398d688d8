-------------------------------- MODULE R850 --------------------------------
(***************************************************************************)
(* The Rafael R850 terrestrial tuner driver (r850.c).  s.r850[i] is the    *)
(* driver's struct: init, sys (what is to be received) and curr (what the  *)
(* registers' copy is prepared for).  No board calibrates, and sleep and   *)
(* wake-up are compiled out.  Register t_pll holds what the tuner is set   *)
(* to: synthesiser and input filters.                                      *)
(***************************************************************************)
EXTENDS Tc90522, TunerPll

CONSTANT Chip        \* the chip's revision, 0 or 1
ASSUME ChipAssumption == Chip \in {0, 1}

R850Off == [init |-> FALSE, sys |-> "UNDEFINED", curr |-> "UNDEFINED"]
R850Xtal == 24000
IfFreq == 4063

r850_read_regs(s) == Access(s)
r850_write_regs(s, i, P) == tc90522_i2c_master_request(s, i, P)

(* The board is read, tried with its crystal drive and put back.           *)
r850_check_xtal_power(s, i) ==
    Then(r850_write_regs(s, i, << >>), LAMBDA t : r850_read_regs(t))

(* Read up to four times; only the last result counts.                     *)
ReadChip(s) == r850_read_regs(s) \cup IF s.gone THEN {} ELSE Ignoring(r850_read_regs(s))
r850_init(s, i) ==
    LET t == [s EXCEPT !.r850[i] = R850Off]
    IN  Then(ReadChip(t), LAMBDA u :
         Then(r850_read_regs(u), LAMBDA v :
          Then(r850_check_xtal_power(v, i), LAMBDA w :
           Then(r850_write_regs(w, i, << >>), LAMBDA x :
             Return("OK", [x EXCEPT !.r850[i].init = TRUE])))))

r850_term(s, i) == [s EXCEPT !.r850[i] = R850Off]

r850_sleep(s, i) == Return(IF s.r850[i].init THEN "OK" ELSE "EINVAL", s)
r850_wakeup(s, i) == Return(IF s.r850[i].init THEN "OK" ELSE "EINVAL", s)

r850_set_system(s, i) ==
    IF ~s.r850[i].init THEN Return("EINVAL", s)
    ELSE Return("OK", [s EXCEPT !.r850[i].sys = "T", !.r850[i].curr = "UNDEFINED"])

(* A table row for the system and intermediate frequency must exist.       *)
r850_set_system_params(s, i) ==
    IF s.r850[i].sys = "UNDEFINED" THEN Return("EINVAL", s)
    ELSE Return("OK", [s EXCEPT !.r850[i].curr = s.r850[i].sys])

(* How many of the thresholds ts are at or below f.                        *)
Band(f, ts) == IF \A n \in DOMAIN ts : ts[n] > f THEN 0
               ELSE CHOOSE n \in DOMAIN ts : ts[n] <= f /\ \A m \in DOMAIN ts : m > n => ts[m] > f

(* Input filters by local oscillator frequency.                            *)
r850_set_mux(lo) ==
    [poly |-> Band(lo, <<133000, 221000, 760000>>),
     bpf |-> Band(lo, <<580000, 660000, 780000, 900000>>),
     corner |-> Band(lo, <<480000, 550000, 700000>>),
     lpf |-> Band(lo, <<73000, 81000, 89000, 121000, 145000, 153000, 177000, 201000>>),
     diplexer |-> Band(lo, <<330000>>)]

(* The rows of isdb_t_freq_params: the first that admits the frequency.    *)
isdb_t_freq_params ==
    << <<0, 340000>>, <<470000, 487999>>, <<680000, 691999>>, <<692000, 697999>>, <<0, 0>> >>
FreqRow(rf) ==
    CHOOSE n \in 1..5 :
        /\ isdb_t_freq_params[n][1] <= rf
        /\ isdb_t_freq_params[n][2] = 0 \/ rf <= isdb_t_freq_params[n][2]
        /\ \A m \in 1..(n - 1) : rf < isdb_t_freq_params[m][1] \/ rf > isdb_t_freq_params[m][2]

VcoMin == 2200000 + IF Chip = 0 THEN 70000 ELSE 0
DivFits(lo, d) == VcoMin <= lo * 2^(d + 1) /\ lo * 2^(d + 1) < 2 * VcoMin
Div(lo) ==
    IF \E d \in 0..5 : DivFits(lo, d)
    THEN CHOOSE d \in 0..5 : DivFits(lo, d) /\ \A e \in 0..(d - 1) : ~DivFits(lo, e)
    ELSE 6

(* The crystal is divided where its harmonics would fall into the channel. *)
Crystal(lo, rf) ==
    IF lo < 380500 THEN IF ((rf \div 1000) \div 12) % 2 = 0 THEN R850Xtal \div 2 ELSE R850Xtal
    ELSE IF rf \in 478000..481999 THEN R850Xtal \div 4 ELSE R850Xtal

r850_set_pll(lo, rf) ==
    LET mix_div == 2^(Div(lo) + 1)
    IN  Pll(lo * mix_div, mix_div, Crystal(lo, rf))

(* One block write carries synthesiser and filters; the second releases it.*)
r850_set_system_frequency(s, i, rf) ==
    LET lo == rf - IfFreq
        setting == [pll |-> r850_set_pll(lo, rf), mux |-> r850_set_mux(lo), row |-> FreqRow(rf)]
    IN  Then(r850_write_regs(s, i, << <<"t_pll", setting>> >>),
             LAMBDA t : r850_write_regs(t, i, << >>))

r850_set_frequency(s, i, freq) ==
    IF ~s.r850[i].init \/ freq < 40000 \/ freq > 1002000 THEN Return("EINVAL", s)
    ELSE Then(r850_set_system_params(s, i),
              LAMBDA t : r850_set_system_frequency(t, i, freq))

r850_is_pll_locked(s, i) == IF s.r850[i].init THEN Poll(s) ELSE Return("EINVAL", s)

=============================================================================
