---------------------------- MODULE MCSubprocess ----------------------------
(***************************************************************************)
(* Instances of Subprocess for TLC.                                        *)
(***************************************************************************)
EXTENDS Subprocess, TLC

CONSTANTS r1, r2, r3, c1

AllOfOne == [r \in Requests |-> c1]

=============================================================================
