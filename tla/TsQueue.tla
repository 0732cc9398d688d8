-------------------------------- MODULE TsQueue --------------------------------
(***************************************************************************)
(* What a receiver's ring buffer promises its reader: a bounded first-in   *)
(* first-out queue of stream data that is empty when reception starts.     *)
(* Each chunk offered is accepted up to some point and the rest dropped;   *)
(* nothing that was accepted is lost, repeated, reordered or altered.      *)
(***************************************************************************)
EXTENDS Naturals, Sequences

CONSTANTS Data, Size

VARIABLES
    q,      \* accepted and not yet read
    offer,  \* the chunk being offered, <<>> when there is none
    got,    \* what a read takes, until it returns
    on      \* the buffer is started

qvars == <<q, offer, got, on>>

QInit == q = <<>> /\ offer = <<>> /\ got = <<>> /\ ~on

Clear == ~on /\ q' = <<>> /\ UNCHANGED <<offer, got, on>>

Begin == ~on /\ q = <<>> /\ on' /\ UNCHANGED <<q, offer, got>>

End == on /\ ~on' /\ UNCHANGED <<q, offer, got>>

Offer == /\ on
         /\ offer = <<>>
         /\ offer' \in Seq(Data) \ {<<>>}
         /\ UNCHANGED <<q, got, on>>

(* The first n packets of the chunk are accepted, the rest is dropped.     *)
Put == /\ offer # <<>>
       /\ \E n \in 0..Len(offer) : q' = q \o SubSeq(offer, 1, n)
       /\ Len(q') <= Size
       /\ offer' = <<>>
       /\ UNCHANGED <<got, on>>

(* Hand the oldest data to the reader.  What was accepted before the       *)
(* reception stopped may still be read.                                    *)
Get == /\ got = <<>>
       /\ \E n \in 1..Len(q) :
             /\ got' = SubSeq(q, 1, n)
             /\ q' = SubSeq(q, n + 1, Len(q))
       /\ UNCHANGED <<offer, on>>

Return == got # <<>> /\ got' = <<>> /\ UNCHANGED <<q, offer, on>>

QNext == Clear \/ Begin \/ End \/ Offer \/ Put \/ Get \/ Return

QSpec == QInit /\ [][QNext]_qvars
=============================================================================
