------------------------------ MODULE MCEpoch ------------------------------
EXTENDS Epoch

(* Two casts of the same three threads.  In the first, thread 1 updates,   *)
(* and thread 2 advances the epoch with it.  In the second, thread 2       *)
(* updates and thread 1 ejects it; nobody else advances, so that the       *)
(* ejector never lags behind.                                              *)
VARIABLE ejectsUpdater
Ejecting == INSTANCE Epoch WITH Readers <- Threads, Updaters <- {2}, Advancers <- {1}

MCInit == Init /\ ejectsUpdater \in BOOLEAN
MCNext == /\ UNCHANGED ejectsUpdater
          /\ \/ ~ejectsUpdater /\ Next
             \/ ejectsUpdater /\ Ejecting!Next
MCSpec == MCInit /\ [][MCNext]_<<vars, ejectsUpdater>>
=============================================================================
