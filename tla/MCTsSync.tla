------------------------------- MODULE MCTsSync -------------------------------
(* Instances of TsSync for TLC.                                            *)
EXTENDS TsSync

Scenario(f, n, st, tr) == [family |-> f, len |-> n, stream |-> st, transfers |-> tr]

(* Every stream of n bytes over B.                                         *)
AllStreams(n, B) == [0..(n - 1) -> B]

(* Noise of up to k bytes, then packets that begin with tag t and hold no  *)
(* other sync byte.                                                        *)
NoisyStreams(n, t, k) ==
    {[p \in 0..(n - 1) |->
        IF p >= q /\ (p - q) % PacketLen = 0 THEN t ELSE NoSync] : q \in 0..k}

Short == {1, 2, 4, 7}

MCScenarios ==
    {Scenario(Px4Family, 9, st, Short) : st \in AllStreams(9, {0, 1, NoSync})}
    \cup {Scenario(Isdb2056Family, 11, st, Short) : st \in AllStreams(11, {PlainTag, NoSync})}
    \cup {Scenario(PxmltFamily, 40, st, 6..9) : st \in NoisyStreams(40, 5, 14)}
    \cup {Scenario(Isdbt2071Family, 50, st, 12..16) : st \in NoisyStreams(50, PlainTag, 16)}
=============================================================================
