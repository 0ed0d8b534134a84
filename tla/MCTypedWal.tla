------------------------------ MODULE MCTypedWal ------------------------------
(* Model-checking instances of TypedWal.                                   *)
EXTENDS TypedWal

\* A segment that does not start at sequence 1.
LateSegment == {[stream_id |-> 1, epoch |-> 1, first_sequence |-> 5]}
=============================================================================
