----------------------------- MODULE MCPipeline -----------------------------
(* Small instances of Pipeline for TLC: how far startup may get before the *)
(* scheduler is created.                                                   *)
EXTENDS Pipeline

\* One buffer of one pipe is still idle: some post comes after sem_init.
OneBufferLeft == FLAGS_c * NumBuffers - 1

\* Every buffer of every pipe is stored: all posts may come before sem_init.
NoBufferLeft == FLAGS_c * NumBuffers
=============================================================================
