-------------------------- MODULE MCTelemetrySink --------------------------
(* TelemetrySink with interchangeable tasks. *)
EXTENDS TelemetrySink, TLC

MCSymmetry == Permutations(Writers)
=============================================================================
