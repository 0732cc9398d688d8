------------------------------ MODULE TunerPll ------------------------------
(***************************************************************************)
(* The fractional-N synthesiser arithmetic that r850_set_pll() and         *)
(* rt710_set_pll() share, in kHz.  The oscillator runs at                  *)
(*     2 * xtal * (nint + sdm / 65536),                                    *)
(* a power-of-two divider brings it down to the wanted frequency.          *)
(***************************************************************************)
EXTENDS Integers

(* Fractions too near to 0, 1/2 or 1 of the comparison frequency are moved *)
(* away; the whole part may go up by one.                                  *)
Snap(fra, xtal) ==
    CASE fra < xtal \div 64                                 -> [fra |-> 0, up |-> 0]
      [] fra > (xtal * 127) \div 64                         -> [fra |-> 0, up |-> 1]
      [] fra > (xtal * 127) \div 128 /\ fra < xtal          -> [fra |-> (xtal * 127) \div 128, up |-> 0]
      [] fra > xtal /\ fra < (xtal * 129) \div 128          -> [fra |-> (xtal * 129) \div 128, up |-> 0]
      [] OTHER                                              -> [fra |-> fra, up |-> 0]

(* The sigma-delta word, one bit per round; nsdm, a 16-bit word, doubles   *)
(* every round and is 2^n in round n.                                      *)
SdmRounds(fra, xtal) ==
    LET round[n \in 0..15] ==
            IF n = 0 THEN [fra |-> fra, sdm |-> 0]
            ELSE LET p == round[n - 1]
                     t == (xtal * 2) \div 2^n
                 IN  IF p.fra > 1 /\ p.fra > t
                     THEN [fra |-> p.fra - t, sdm |-> p.sdm + 2^(16 - n)]
                     ELSE p
    IN  round

Sdm(fra, xtal) == SdmRounds(fra, xtal)[15].sdm

(* A sixteenth round would divide by nsdm = 0: it is not entered when      *)
(* nothing is left, or when round 15 subtracted and left the loop.         *)
SdmEnds(fra, xtal) ==
    LET before == SdmRounds(fra, xtal)[14]
    IN  before.fra > 1 => before.fra > (xtal * 2) \div 2^15

Pll(vco, div, xtal) ==
    LET whole == (vco \div 2) \div xtal
        snap == Snap(vco - xtal * 2 * whole, xtal)
    IN  [div |-> div, xtal |-> xtal, nint |-> whole + snap.up,
         sdm |-> Sdm(snap.fra, xtal), ends |-> SdmEnds(snap.fra, xtal)]

(* The frequency a setting stands for, before the divider.                 *)
Oscillator(pll) == 2 * pll.xtal * pll.nint + (pll.xtal * pll.sdm) \div 32768

=============================================================================
