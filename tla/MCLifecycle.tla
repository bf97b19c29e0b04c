----------------------------- MODULE MCLifecycle -----------------------------
(* Small instances of Lifecycle for TLC. *)
EXTENDS Lifecycle, TLC

CONSTANTS s0, s1, s2

\* One service name on rank 0; or one on each of ranks 0 and 1.
PriorOne == (s0 :> <<0, 1>>)
PriorTwo == (s0 :> <<0, 1>> @@ s1 :> <<1, 1>>)
=============================================================================
