--------------------------- MODULE RecoveryRegister ---------------------------
(***************************************************************************)
(* What a resumable training run promises, without watchers, uploads or    *)
(* restarts: the step a new attempt resumes from never goes back, the      *)
(* model is sealed once and only from the final step, and the recovery     *)
(* state is given up only after that.                                      *)
(***************************************************************************)
EXTENDS Naturals

CONSTANT FinalStep      \* as in CheckpointTransport

VARIABLES point, sealed
registerVars == <<point, sealed>>

RegisterInit == point = 0 /\ sealed = FALSE

Advance ==
    /\ ~sealed
    /\ point' \in (point + 1)..FinalStep
    /\ UNCHANGED sealed

Seal ==
    /\ ~sealed /\ point = FinalStep
    /\ sealed' = TRUE
    /\ UNCHANGED point

Forget ==
    /\ sealed
    /\ point' = 0
    /\ UNCHANGED sealed

RegisterNext == Advance \/ Seal \/ Forget
RegisterSpec == RegisterInit /\ [][RegisterNext]_registerVars
=============================================================================
