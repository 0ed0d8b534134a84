---------------------------- MODULE MCWalSegment ----------------------------
(* Model-checking instances of WalSegment.                                 *)
EXTENDS WalSegment

PayloadSymmetry == Permutations(Payload)

\* The same file opened with the right epoch and with another one.
TwoEpochs ==
    {[stream_id |-> 1, epoch |-> e, first_sequence |-> 1] : e \in {1, 2}}

OneEpoch == {[stream_id |-> 1, epoch |-> 1, first_sequence |-> 1]}
=============================================================================
