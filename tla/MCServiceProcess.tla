--------------------------- MODULE MCServiceProcess ---------------------------
(***************************************************************************)
(* One request that fits in the shutdown budget and one that does not, as  *)
(* the defaults have it: 10 and 25 seconds for API and webhook requests,   *)
(* 15 for the shutdown.  Either may go on past its deadline, and past the  *)
(* budget.                                                                 *)
(***************************************************************************)
EXTENDS ServiceProcess, TLC

CONSTANTS r1, r2

MCDeadline == (r1 :> 1) @@ (r2 :> 3)

=============================================================================
