----------------------------- MODULE TrainingCell -----------------------------
(***************************************************************************)
(* One training cell, attempt after attempt: restore what LATEST names,    *)
(* train beside the watcher, synchronise and finalize                      *)
(* (robomme_integration/gpu/run_resumable.py), then deploy the sealed      *)
(* steps, claim completion and drop the recovery state                     *)
(* (robomme_integration/gpu_train_entry.sh).  A campaign starts no attempt *)
(* of a cell whose completion is claimed.                                  *)
(*                                                                         *)
(* An attempt may end anywhere: a call fails for good, the platform signals *)
(* or kills the node.  Success /= {} selects the recipe path of the entry,  *)
(* which deploys every required milestone and checks each against its      *)
(* upload receipt; otherwise the final step alone is deployed, from the    *)
(* node's own tree.                                                        *)
(***************************************************************************)
EXTENDS CheckpointTransport

CONSTANTS
    Prompt,         \* an upload ends before the trainer saves again
    LocalSurvives,  \* an attempt may find the local tree of the one before
    ReadsFail       \* the read of a deploy receipt that is there may fail

ASSUME EnvironmentAssumption ==
    Prompt \in BOOLEAN /\ LocalSurvives \in BOOLEAN /\ ReadsFail \in BOOLEAN

VARIABLES
    sup,            \* phase of the attempt
    trainer,        \* "off", "running", "done" or "failed"
    training,       \* number of attempts that were started
    exit,           \* how the last attempt ended
    todo,           \* steps that this attempt has still to deploy
    deploy,         \* which training each deployed part of a step is of
    deployed,       \* the training in _DEPLOY_COMPLETE.json of a step, or 0
    claimed         \* the completion claim is stored

cellVars == <<sup, trainer, training, exit, todo>>
deployVars == <<deploy, deployed, claimed>>
vars == <<transportVars, cellVars, deployVars>>

SupPhases == {"idle", "restore", "verify", "train", "stop", "final", "finalize",
              "deploy", "seal", "clean"}
Exits == {"none", "complete", "failed", "mismatch", "collision"}

DeployParts == {"params", "assets"}
DeploySteps == Success \cup {FinalStep}
NoDeploy == [p \in DeployParts |-> 0]

Init ==
    /\ TransportInit
    /\ sup = "idle" /\ trainer = "off" /\ training = 0 /\ exit = "none" /\ todo = {}
    /\ deploy = [s \in Steps |-> NoDeploy]
    /\ deployed = [s \in Steps |-> 0]
    /\ claimed = FALSE

\* The attempt is over and its processes are gone.  The work tree is wiped, or
\* the node is another one, unless the same node retries after a kill.
Ends(status) ==
    /\ sup' = "idle" /\ trainer' = "off" /\ todo' = {} /\ exit' = status
    /\ watcher' = NoWatcher
    /\ local' \in {[s \in Steps |-> NoTree]} \cup IF LocalSurvives THEN {local} ELSE {}
    /\ UNCHANGED training

Start ==
    /\ sup = "idle" /\ ~claimed /\ training < MaxTrainings
    /\ sup' = "restore" /\ training' = training + 1 /\ exit' = "none"
    /\ UNCHANGED <<transportVars, trainer, todo, deployVars>>

-----------------------------------------------------------------------------
(* restore_latest                                                          *)

\* Without a pointer the trainer starts afresh, and refuses a directory that is
\* already there.
RestoreNothing ==
    /\ sup = "restore" /\ latest = 0
    /\ sup' = "train"
    /\ trainer' = IF \A s \in Steps : local[s] = NoTree THEN "running" ELSE "failed"
    /\ watcher' = Process("watch")
    /\ UNCHANGED <<local, remoteVars, training, exit, todo, deployVars>>

\* A local tree with Orbax's marker is taken as it is, any other is replaced.
RestoreCopy ==
    /\ sup = "restore" /\ latest \in Uploaded
    /\ local' = IF latest \in CompleteSteps THEN local
                ELSE [local EXCEPT ![latest] = remote[latest]]
    /\ sup' = "verify"
    /\ UNCHANGED <<remoteVars, watcher, trainer, training, exit, todo, deployVars>>

RestoreCut ==
    /\ sup = "restore" /\ latest \in Uploaded \ CompleteSteps /\ LocalSurvives
    /\ \E t \in Cut(NoTree, remote[latest]) : local' = [local EXCEPT ![latest] = t]
    /\ sup' = "idle" /\ exit' = "failed"
    /\ UNCHANGED <<remoteVars, watcher, trainer, training, todo, deployVars>>

RestoreVerified ==
    /\ sup = "verify" /\ latest \in CompleteSteps
    /\ Summary(local[latest]) = receipt[latest]
    /\ sup' = "train" /\ trainer' = "running" /\ watcher' = Process("watch")
    /\ UNCHANGED <<local, remoteVars, training, exit, todo, deployVars>>

RestoreMismatch ==
    /\ sup = "verify"
    /\ latest \in CompleteSteps => Summary(local[latest]) /= receipt[latest]
    /\ Ends("mismatch")
    /\ UNCHANGED <<remoteVars, deployVars>>

-----------------------------------------------------------------------------
(* The trainer (OpenPI with Orbax): it resumes from the newest complete    *)
(* step, saves atomically and keeps the newest generation only.            *)
NextSave(s) ==
    \/ s = 1 /\ CompleteSteps = {}
    \/ \E r \in Steps : Newest(r) /\ s = r + 1
TrainerSaves == \E s \in Steps :
    /\ trainer = "running" /\ NextSave(s)
    /\ Prompt => \A r \in Steps : Newest(r) => r \in Uploaded
    /\ local' = [local EXCEPT ![s] = WholeTree(training)]
    /\ UNCHANGED <<remoteVars, watcher, cellVars, deployVars>>

TrainerRemoves ==
    /\ trainer = "running"
    /\ \E s \in Steps, p \in Parts :
          /\ \E r \in CompleteSteps : s < r
          /\ local[s][p] /= 0
          /\ local' = [local EXCEPT ![s][p] = 0]
    /\ UNCHANGED <<remoteVars, watcher, cellVars, deployVars>>

TrainerEnds ==
    /\ trainer = "running"
    /\ \/ Newest(FinalStep) /\ trainer' = "done"
       \/ trainer' = "failed"
    /\ UNCHANGED <<transportVars, sup, training, exit, todo, deployVars>>

-----------------------------------------------------------------------------
(* run_resumable                                                           *)
WatcherGone == Doing("done") \/ Doing("dead")

\* The watcher has died while the trainer runs: the trainer is terminated.
WatcherLost ==
    /\ sup = "train" /\ trainer = "running" /\ Doing("dead")
    /\ Ends("failed")
    /\ UNCHANGED <<remoteVars, deployVars>>

\* SIGTERM makes the watcher finish the pass it is in, or one more.
StopWatcher ==
    /\ sup = "train" /\ trainer \in {"done", "failed"}
    /\ sup' = "stop"
    /\ watcher' = [watcher EXCEPT !.mode = "once"]
    /\ UNCHANGED <<local, remoteVars, trainer, training, exit, todo, deployVars>>

\* (mutant) A watcher that was killed is waited for.
FinalSyncWaits ==
    /\ sup = "stop" /\ Doing("done")
    /\ sup' = "final"
    /\ watcher' = Process("once")
    /\ UNCHANGED <<local, remoteVars, trainer, training, exit, todo, deployVars>>

\* --once in a new process, whether the watcher ended or was killed.
FinalSync ==
    /\ sup = "stop" /\ WatcherGone
    /\ sup' = "final"
    /\ watcher' = Process("once")
    /\ UNCHANGED <<local, remoteVars, trainer, training, exit, todo, deployVars>>

\* --finalize-success only after a successful trainer and a successful sync.
Finalize ==
    /\ sup = "final" /\ trainer = "done" /\ Doing("done")
    /\ sup' = "finalize"
    /\ watcher' = Process("finalize")
    /\ UNCHANGED <<local, remoteVars, trainer, training, exit, todo, deployVars>>

TrainingFailed ==
    /\ \/ sup = "final" /\ WatcherGone /\ (trainer = "failed" \/ Doing("dead"))
       \/ sup = "finalize" /\ Doing("dead")
    /\ Ends("failed")
    /\ UNCHANGED <<remoteVars, deployVars>>

Finalized ==
    /\ sup = "finalize" /\ Doing("done")
    /\ sup' = "deploy" /\ todo' = DeploySteps
    /\ UNCHANGED <<transportVars, trainer, training, exit, deployVars>>

-----------------------------------------------------------------------------
(* gpu_train_entry.sh after the training.                                  *)
Turn(s) == sup = "deploy" /\ s \in todo /\ \A r \in todo : s <= r
Exported(t) == t["marker"] /= 0 /\ t["data"] /= 0

\* The recipe path exports the local tree when it is there and the remote one
\* otherwise, and compares it with its upload receipt; the single-task path
\* exports the local tree.
Source(s) == IF Success = {} \/ Exported(local[s]) THEN local[s] ELSE remote[s]
\* (mutant) The exported tree is not compared with its upload receipt.
DeployableUnchecked(s) == s \in Uploaded /\ Exported(Source(s))
Deployable(s) ==
    /\ s \in Uploaded /\ Exported(Source(s))
    /\ Success /= {} => Summary(Source(s)) = receipt[s]

DeployRefused == \E s \in Steps :
    /\ Turn(s) /\ ~Deployable(s)
    /\ Ends("failed")
    /\ UNCHANGED <<remoteVars, deployVars>>

DeployAgain == \E s \in Steps :
    /\ Turn(s) /\ Deployable(s)
    /\ deployed[s] = Source(s)["data"]
    /\ todo' = todo \ {s}
    /\ UNCHANGED <<transportVars, sup, trainer, training, exit, deployVars>>

\* The deploy receipt of an earlier attempt names another tree.
DeployCollides == \E s \in Steps :
    /\ Turn(s) /\ Deployable(s)
    /\ deployed[s] \notin {0, Source(s)["data"]}
    /\ Ends("collision")
    /\ UNCHANGED <<remoteVars, deployVars>>

\* A read that fails is taken for an absent receipt.
NotSealed(s) == Turn(s) /\ Deployable(s) /\ (deployed[s] = 0 \/ ReadsFail)

\* (mutant) The receipt is put after the first of the two syncs.
DeploySyncHalf == \E s \in Steps :
    /\ NotSealed(s)
    /\ deploy' = [deploy EXCEPT ![s]["params"] = Source(s)["data"]]
    /\ sup' = "seal"
    /\ UNCHANGED <<transportVars, trainer, training, exit, todo, deployed, claimed>>

DeploySync == \E s \in Steps :
    /\ NotSealed(s)
    /\ deploy' = [deploy EXCEPT ![s] = [p \in DeployParts |-> Source(s)["data"]]]
    /\ sup' = "seal"
    /\ UNCHANGED <<transportVars, trainer, training, exit, todo, deployed, claimed>>

\* The two syncs are cut short.
DeployCut == \E s \in Steps, p \in DeployParts :
    /\ NotSealed(s)
    /\ deploy' = [deploy EXCEPT ![s][p] = Source(s)["data"]]
    /\ Ends("failed")
    /\ UNCHANGED <<remoteVars, deployed, claimed>>

\* publish_attempt_receipt_once: create the receipt, or agree with the stored one.
Sealing(s) == sup = "seal" /\ s \in todo /\ \A r \in todo : s <= r
DeploySeal == \E s \in Steps :
    /\ Sealing(s) /\ deployed[s] \in {0, Source(s)["data"]}
    /\ deployed' = [deployed EXCEPT ![s] = Source(s)["data"]]
    /\ todo' = todo \ {s}
    /\ sup' = "deploy"
    /\ UNCHANGED <<transportVars, trainer, training, exit, deploy, claimed>>

SealCollides == \E s \in Steps :
    /\ Sealing(s) /\ deployed[s] \notin {0, Source(s)["data"]}
    /\ Ends("collision")
    /\ UNCHANGED <<remoteVars, deployVars>>

Claim ==
    /\ sup = "deploy" /\ todo = {}
    /\ claimed' = TRUE
    /\ sup' = "clean"
    /\ UNCHANGED <<transportVars, trainer, training, exit, todo, deploy, deployed>>

\* The recovery state is dropped, as far as the deletes go.
Clean ==
    /\ sup = "clean"
    /\ \E S \in SUBSET Steps :
          /\ remote' = [s \in Steps |-> IF s \in S THEN NoTree ELSE remote[s]]
          /\ receipt' = [s \in Steps |-> IF s \in S THEN NoReceipt ELSE receipt[s]]
    /\ latest' \in {0, latest}
    /\ Ends("complete")
    /\ UNCHANGED deployVars

-----------------------------------------------------------------------------
\* Any other end of an attempt: a call fails for good, an object is not there, a
\* signal, a kill.
Dies ==
    /\ sup /= "idle"
    /\ Ends("failed")
    /\ UNCHANGED <<remoteVars, deployVars>>

WatcherStep ==
    /\ WatcherWorks \/ WatcherDies
    /\ UNCHANGED <<cellVars, deployVars>>
TrainerStep == TrainerSaves \/ TrainerRemoves \/ TrainerEnds
SupervisorStep ==
    \/ RestoreNothing \/ RestoreCopy \/ RestoreCut \/ RestoreVerified \/ RestoreMismatch
    \/ WatcherLost \/ StopWatcher \/ FinalSync \/ Finalize \/ TrainingFailed \/ Finalized
    \/ DeployRefused \/ DeployAgain \/ DeployCollides \/ DeploySync \/ DeployCut
    \/ DeploySeal \/ SealCollides
    \/ Claim \/ Clean

Next == Start \/ SupervisorStep \/ TrainerStep \/ WatcherStep \/ Dies
\* The processes run, S3 calls return or raise, and training is finite.
Fairness == WF_vars(SupervisorStep) /\ WF_vars(WatcherWorks /\ WatcherStep)
            /\ WF_vars(TrainerStep)
Spec == Init /\ [][Next]_vars
FairSpec == Spec /\ Fairness
=============================================================================
