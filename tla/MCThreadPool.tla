---------------------------- MODULE MCThreadPool -----------------------------
(***************************************************************************)
(* Model checking ThreadPool: two workers, a few tasks.                    *)
(***************************************************************************)
EXTENDS ThreadPool
=============================================================================
