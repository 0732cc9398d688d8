------------------------------- MODULE I2cBus -------------------------------
(***************************************************************************)
(* How the drivers of the chips are written down.  A chip driver is C code *)
(* that performs one register access after another and returns at the     *)
(* first that fails.  Here it is an operator from a state of the board to  *)
(* the set of its outcomes [ret, s]: the value returned and the state left.*)
(*                                                                         *)
(* A board state s has at least the fields                                 *)
(*   faults   accesses that may still fail, the bound on the fault model   *)
(*   gone     the USB device is unplugged: every access fails              *)
(*   reg      reg[i] is the register file of the chips of receiver i       *)
(* Registers that the code always writes together are one register here;   *)
(* an access that fails may have reached the chip, or left such a group    *)
(* half written (Mixed).                                                   *)
(***************************************************************************)
EXTENDS Integers, Sequences

CONSTANTS
    Mixed,   \* the value of a register group that is half written
    Unset    \* the value of a register that was not written since power-on

Out(ret, s) == [ret |-> ret, s |-> s]
Return(ret, s) == {Out(ret, s)}

(* ret = a(); if (ret) return ret; b();                                    *)
Then(S, Op(_)) ==
    {o \in S : o.ret # "OK"} \cup UNION {Op(o.s) : o \in {p \in S : p.ret = "OK"}}

(* a(); b();   with the result of a() not looked at                        *)
Anyway(S, Op(_)) == UNION {Op(o.s) : o \in S}

(* ret = a(); b(); return ret;   b() cleans up, its result is not used     *)
Finally(S, Op(_)) == UNION {{Out(o.ret, p.s) : p \in Op(o.s)} : o \in S}

(* (void)a();                                                              *)
Ignoring(S) == {Out("OK", o.s) : o \in S}

(* ret = a(); if (ret) b(); return ret;   b() unwinds what was done        *)
OnError(S, Op(_)) ==
    {o \in S : o.ret = "OK"} \cup Finally({o \in S : o.ret # "OK"}, Op)

(* A control message is sent and its reply read under the bridge's lock.   *)
(* It fails as a whole: nothing sent, no reply in time, a reply with a bad *)
(* checksum or sequence number, or a bad result.  "ok" are the states that *)
(* the device may then be in.                                              *)
it930x_ctrl_msg(s, ok) ==
    IF s.gone THEN {Out("EIO", s)}
    ELSE IF s.faults = 0 THEN {}
    ELSE {Out("EIO", [t EXCEPT !.faults = @ - 1]) : t \in ok}

(* An access that reads, or writes nothing the model keeps.                *)
Access(s) == (IF s.gone THEN {} ELSE {Out("OK", s)}) \cup it930x_ctrl_msg(s, {s})

(* One access that changes the board state from s to t.                    *)
Set(s, t) == (IF s.gone THEN {} ELSE {Out("OK", t)}) \cup it930x_ctrl_msg(s, {s, t})

(* A status that is read in a loop until it is reached or time is up.      *)
Poll(s) == Access(s) \cup IF s.gone THEN {} ELSE {Out("EAGAIN", s)}

(* The first k writes of program P, a sequence of <<register, value>>.     *)
Applied(r, P, k) ==
    LET Last(x) == P[CHOOSE n \in 1..k : P[n][1] = x /\ \A m \in n + 1..k : P[m][1] # x][2]
        W == {P[n][1] : n \in 1..k}
    IN  [x \in DOMAIN r |-> IF x \in W THEN Last(x) ELSE r[x]]

(* A sequence of register writes to the chips of receiver i, up to the     *)
(* first one that fails.                                                   *)
Program(s, i, P) ==
    LET At(k) == [s EXCEPT !.reg[i] = Applied(@, P, k)]
        Torn(k) == [At(k) EXCEPT !.reg[i][P[k + 1][1]] = Mixed]
    IN  (IF s.gone THEN {} ELSE {Out("OK", At(Len(P)))})
        \cup it930x_ctrl_msg(s, {At(k) : k \in 0..Len(P)}
                                \cup {Torn(k) : k \in 0..(Len(P) - 1)})

=============================================================================
