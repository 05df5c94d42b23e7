--------------------------- MODULE TrainingCellProps ---------------------------
(***************************************************************************)
(* What a resumable training cell must do, over TrainingCell.              *)
(***************************************************************************)
EXTENDS TrainingCell

\* Every variable stays in its type: trees, receipts and pointers name steps and
\* trainings of this cell.
CellTypeOK ==
    /\ TransportTypeOK
    /\ sup \in SupPhases /\ trainer \in {"off", "running", "done", "failed"}
    /\ training \in 0..MaxTrainings /\ exit \in Exits
    /\ todo \subseteq DeploySteps
    /\ deploy \in [Steps -> [DeployParts -> 0..MaxTrainings]]
    /\ deployed \in [Steps -> 0..MaxTrainings]
    /\ claimed \in BOOLEAN

\* Until the model is sealed, LATEST names a step that is whole and agrees with
\* its receipt, at every moment at which the node may be lost ("restore never
\* selects an in-flight tree", checkpoint_transport.py).
PointerIsRestorable ==
    latest /= 0 /\ ~claimed =>
        Whole(remote[latest]) /\ receipt[latest] = Summary(remote[latest])

\* A required milestone that was passed is on S3, whole, until it is deployed:
\* finalize_success never misses one and no prune takes one.
MilestonesSurvive ==
    ~claimed => \A s \in Success :
        s < latest => Whole(remote[s]) /\ receipt[s] = Summary(remote[s])

\* A deploy receipt stands over the whole tree of the training it names, and
\* completion is claimed over the receipts of every step the claim lists.
DeployIsSealed ==
    /\ \A s \in Steps : deployed[s] /= 0 =>
          \A p \in DeployParts : deploy[s][p] = deployed[s]
    /\ claimed => \A s \in DeploySteps : deployed[s] /= 0

\* A preempted retry can finish sealing what an earlier attempt began: it never
\* restores a tree that differs from the deploy receipt (deploy_receipt_identity's
\* docstring: "A preempted retry may finish sealing a checkpoint").
RetryCanSeal == exit /= "collision"

\* Every started attempt ends.
AttemptEnds == (sup /= "idle") ~> (sup = "idle")

\* The cell implements the recovery register.
Register == INSTANCE RecoveryRegister WITH point <- latest, sealed <- claimed
ImplementsRegister == Register!RegisterSpec
=============================================================================
