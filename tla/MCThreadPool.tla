---------------------------- MODULE MCThreadPool ----------------------------
(***************************************************************************)
(* The instance of ThreadPool for TLC: its constants are model values,     *)
(* given in ThreadPool.cfg.                                                *)
(***************************************************************************)
EXTENDS ThreadPool
=============================================================================
