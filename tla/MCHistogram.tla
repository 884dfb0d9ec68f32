---------------------------- MODULE MCHistogram ----------------------------
(* Instances of Histogram for TLC.  The recorders are model values.        *)
EXTENDS Histogram, TLC

(* Recorders are interchangeable: sound for the safety runs.               *)
RecorderSymmetry == Permutations(Recorders)
=============================================================================
