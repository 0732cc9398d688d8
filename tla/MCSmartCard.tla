------------------------------ MODULE MCSmartCard ------------------------------
(* Instances of SmartCard for TLC.                                         *)
EXTENDS SmartCard

(* Commands and responses of several blocks, one longer than the caller's  *)
(* buffer.                                                                 *)
Chained == [retries |-> 2, discard |-> 1, commands |-> {2}, responses |-> {2, 3},
            capacity |-> 2, acas |-> FALSE, wtx |-> FALSE,
            apdus |-> 2, faults |-> 1, swaps |-> 0]

(* Three commands, late answers, requests for more time, a swapped card.   *)
Recovery == [retries |-> 2, discard |-> 4, commands |-> {1}, responses |-> {1},
             capacity |-> 1, acas |-> FALSE, wtx |-> TRUE,
             apdus |-> 3, faults |-> 1, swaps |-> 1]

(* The start-up of an ACAS card, with the limits of the code.              *)
Acas == [retries |-> 3, discard |-> 4, commands |-> {1}, responses |-> {1},
         capacity |-> 1, acas |-> TRUE, wtx |-> TRUE,
         apdus |-> 1, faults |-> 1, swaps |-> 1]

MCScenarios == {Chained, Recovery, Acas}
=============================================================================
