--------------------------- MODULE MCStructuredAwait ---------------------------
(***************************************************************************)
(* Every plan of up to three tasks with the four completion policies and   *)
(* every concurrency limit, a deadline at 2 and a clock up to 3: before,   *)
(* at and after the deadline.                                              *)
(***************************************************************************)
EXTENDS StructuredAwait

MCPlans ==
    {p \in [size : 1 .. 3, timeoutMs : {2}, maxInFlight : 1 .. 3,
            completion : Completion] : Admitted(p)}
=============================================================================
