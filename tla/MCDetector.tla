----------------------------- MODULE MCDetector -----------------------------
(* Small instances of Detector for TLC, with the inductive invariant of    *)
(* the proofs.                                                             *)
EXTENDS DetectorProofs
=============================================================================
