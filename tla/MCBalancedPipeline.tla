------------------------- MODULE MCBalancedPipeline -------------------------
(* A small instance of BalancedPipeline for TLC.                           *)
EXTENDS BalancedPipeline

\* Both threads report every picture when the next one comes.
BatchSizes == <<1, 1>>
=============================================================================
