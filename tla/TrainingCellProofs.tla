-------------------------- MODULE TrainingCellProofs --------------------------
(***************************************************************************)
(* Proofs about TrainingCell for every number of steps, every retention    *)
(* and every number of attempts.                                           *)
(***************************************************************************)
EXTENDS TrainingCellProps, TLAPS

-----------------------------------------------------------------------------
(* The inductive invariants                                                *)

Before == {"idle", "restore", "verify"}
Running == {"train", "stop", "final", "finalize"}
After == {"deploy", "seal", "clean"}
Sending == {"list", "sync", "mark", "point"}

\* Which of the processes is in which phase of an attempt.
PhaseInv ==
    /\ sup \in Before => watcher.pc = "off" /\ trainer = "off"
    /\ sup \in After => watcher.pc = "done"
    /\ sup \in After \cup {"finalize"} => trainer = "done" /\ watcher.mode \in {"finalize", "last"}
    /\ sup \in {"train", "stop", "final"} => watcher.mode \in {"watch", "once"}
    /\ trainer = "running" => sup = "train"
    /\ watcher.pc = "check" => watcher.mode = "finalize"
    /\ watcher.mode = "finalize" => watcher.pc /= "done"
    /\ watcher.mode = "last" => watcher.pc \in {"point", "prune", "done", "dead"}
    /\ claimed => sup \in {"idle", "clean"}
    /\ sup = "clean" => claimed
    /\ sup /= "idle" => training /= 0

\* While an attempt runs, its node holds a step as far as the pointer or further,
\* and so is the step the watcher is about to point to.
Held(s) == \E r \in CompleteSteps : s <= r
PointInv ==
    /\ trainer = "done" => FinalStep \in CompleteSteps
    /\ sup \in Running => latest = 0 \/ Held(latest)
    /\ watcher.pc \in Sending => latest <= watcher.step /\ Held(watcher.step)
    /\ watcher.mode = "last" =>
          /\ watcher.pc = "point" => watcher.step = FinalStep
          /\ watcher.pc \in {"prune", "done"} => latest = FinalStep

\* A step that is about to be sealed has been copied whole, and was never sealed over
\* another training; the steps this attempt is through with are sealed.
SealInv ==
    /\ DeployIsSealed
    /\ sup = "seal" => \E s \in todo :
          /\ Sealing(s) /\ Source(s)["data"] /= 0
          /\ \A p \in DeployParts : deploy[s][p] = Source(s)["data"]
    /\ sup \in After => \A s \in DeploySteps \ todo : deployed[s] /= 0
    /\ sup = "clean" => todo = {}

\* What is uploaded is whole, and so is what the watcher is about to upload:
\* nobody takes the newest local step away before it has its receipt.
Good(s) == Whole(remote[s]) /\ receipt[s] = Summary(remote[s])
UploadInv ==
    /\ ~claimed => latest \in Uploaded \cup {0} /\ \A s \in Uploaded : Good(s)
    /\ watcher.pc \in {"list", "sync"} /\ watcher.step \notin Uploaded =>
          Newest(watcher.step) /\ Whole(local[watcher.step])
    /\ watcher.pc = "sync" =>
          watcher.step \notin Uploaded /\ watcher.tree = Summary(local[watcher.step])
    /\ watcher.pc = "mark" =>
          /\ watcher.step \notin Uploaded
          /\ Whole(remote[watcher.step]) /\ watcher.tree = Summary(remote[watcher.step])
    /\ watcher.pc = "point" => watcher.step \in Uploaded
    /\ watcher.pc = "prune" => latest \notin watcher.doomed

\* A local tree is of one training, and the newest is whole unless a restore of it
\* is not yet verified.
LocalInv ==
    /\ \A s \in Steps : local[s]["marker"] /= 0 => local[s]["data"] \in {0, local[s]["marker"]}
    /\ \A s \in Steps : Newest(s) /\ (sup \in Before => s /= latest) => Whole(local[s])

\* No prune takes a step that is deployed later, and a required milestone that the
\* pointer or a local step is past was uploaded before the trainer went on.
RetainInv ==
    /\ watcher.pc = "prune" => watcher.doomed \cap DeploySteps = {}
    /\ ~claimed => \A s \in Success :
          s < latest \/ (\E r \in CompleteSteps : s < r) => s \in Uploaded

\* The recipe path: what is sealed is the training that the upload receipt names.
AgreeInv ==
    /\ RetryCanSeal
    /\ todo \subseteq DeploySteps
    /\ \A s \in Steps \ DeploySteps : deployed[s] = 0
    /\ sup = "seal" => \A s \in Steps : Sealing(s) => Deployable(s)
    /\ ~claimed => \A s \in Steps : deployed[s] /= 0 =>
          s \in Uploaded /\ deployed[s] = receipt[s].marker

-----------------------------------------------------------------------------
(* Types                                                                   *)

LEMMA StepsFacts ==
  /\ Steps \subseteq 0..FinalStep /\ Steps \subseteq Nat /\ FinalStep \in Steps
  /\ DeploySteps \subseteq Steps /\ Milestones \subseteq Steps
  /\ 0 \in 0..MaxTrainings /\ 0 \in 0..FinalStep
  /\ \A s \in Steps : s /= 0
  /\ \A s \in 0..FinalStep : s /= 0 => s \in Steps
BY StepsAssumption, MilestonesAssumption DEF Steps, DeploySteps

LEMMA TreeFacts ==
  /\ NoTree \in TreeType
  /\ NoReceipt \in ReceiptType
  /\ NoDeploy \in [DeployParts -> 0..MaxTrainings]
  /\ \A g \in 0..MaxTrainings : WholeTree(g) \in TreeType
  /\ \A t \in TreeType : Summary(t) \in ReceiptType
  /\ \A from, to : Cut(from, to) \subseteq TreeType
BY StepsFacts DEF NoTree, TreeType, NoReceipt, ReceiptType, NoDeploy, WholeTree, Summary, Cut, Parts

LEMMA WatcherFacts ==
  /\ NoWatcher \in WatcherType /\ NoWatcher.pc = "off"
  /\ \A m \in Modes : Process(m) \in WatcherType /\ Process(m).mode = m /\ Process(m).pc = "poll"
BY StepsFacts, TreeFacts DEF NoWatcher, Process, WatcherType, Modes, Pcs

\* A step of the transport process keeps the types of what it touches.
LEMMA WatcherTyped ==
  ASSUME TransportTypeOK, WatcherWorks \/ WatcherDies
  PROVE  TransportTypeOK'
<1> USE StepsFacts, TreeFacts DEF TransportTypeOK, Doing, remoteVars
<1>1. CASE Poll
  <2>1. PICK s \in Steps : watcher' = [watcher EXCEPT !.step = s, !.pc = "list"]
    BY <1>1 DEF Poll
  <2>2. watcher' \in WatcherType /\ watcher'.step /= 0
    BY <2>1 DEF WatcherType, Pcs
  <2> QED BY <1>1, <2>2 DEF Poll
<1>2. CASE PollNothing
  BY <1>2 DEF PollNothing, WatcherType, Pcs, AfterSync
<1>3. CASE List
  <2>1. Summary(local[watcher.step]) \in ReceiptType
    <3>1. watcher.step \in Steps
      BY <1>3 DEF List, WatcherType
    <3> QED BY <3>1
  <2>2. Uploaded \subseteq Steps
    BY DEF Uploaded
  <2>3. watcher' \in WatcherType /\ watcher'.step = watcher.step
    BY <1>3, <2>1, <2>2 DEF List, WatcherType, Pcs
  <2> QED BY <1>3, <2>3 DEF List
<1>4. CASE Sync
  BY <1>4 DEF Sync, WatcherType, Pcs
<1>5. CASE Mark
  <2>1. watcher.step \in Steps /\ watcher.tree \in ReceiptType
    BY <1>5 DEF Mark, WatcherType
  <2>2. watcher' \in WatcherType /\ watcher'.step = watcher.step
    BY <1>5, <2>1 DEF Mark, WatcherType, Pcs
  <2>3. receipt' \in [Steps -> ReceiptType]
    BY <1>5, <2>1 DEF Mark
  <2> QED BY <1>5, <2>1, <2>2, <2>3 DEF Mark
<1>6. CASE Point
  <2>1. watcher' \in WatcherType /\ watcher'.pc = "prune"
    BY <1>6 DEF Point, WatcherType, Pcs
  <2> QED BY <1>6, <2>1 DEF Point, WatcherType
<1>7. CASE Prune
  BY <1>7 DEF Prune, WatcherType, Pcs
<1>8. CASE PruneEnds
  BY <1>8 DEF PruneEnds, WatcherType, Pcs, AfterSync
<1>9. CASE Check
  <2>1. Uploaded \subseteq Steps
    BY DEF Uploaded
  <2>2. watcher' \in WatcherType /\ watcher'.step = FinalStep
    BY <1>9, <2>1 DEF Check, WatcherType, Pcs, Modes
  <2> QED BY <1>9, <2>2 DEF Check
<1>10. CASE Refuse
  BY <1>10 DEF Refuse, WatcherType, Pcs
<1>11. CASE WatcherDies
  BY <1>11 DEF WatcherDies, WatcherType, Pcs
<1> QED BY <1>1, <1>2, <1>3, <1>4, <1>5, <1>6, <1>7, <1>8, <1>9, <1>10, <1>11 DEF WatcherWorks

LEMMA EndsTyped ==
  ASSUME CellTypeOK, NEW status \in Exits, Ends(status)
  PROVE  /\ local' \in [Steps -> TreeType] /\ watcher' = NoWatcher
         /\ sup' = "idle" /\ trainer' = "off" /\ todo' = {} /\ exit' = status
         /\ training' = training
BY TreeFacts DEF Ends, CellTypeOK, TransportTypeOK

\* What ends an attempt keeps the types if what it does to S3 does.
LEMMA EndsKeepsTypes ==
  ASSUME CellTypeOK, NEW status \in Exits, Ends(status),
         remote' \in [Steps -> TreeType], receipt' \in [Steps -> ReceiptType],
         latest' \in 0..FinalStep, claimed' \in BOOLEAN,
         deploy' \in [Steps -> [DeployParts -> 0..MaxTrainings]],
         deployed' \in [Steps -> 0..MaxTrainings]
  PROVE  CellTypeOK'
<1>1. TransportTypeOK'
  BY EndsTyped, WatcherFacts DEF TransportTypeOK
<1>2. sup' \in SupPhases /\ trainer' \in {"off", "running", "done", "failed"}
      /\ training' \in 0..MaxTrainings /\ exit' \in Exits /\ todo' \subseteq DeploySteps
  BY EndsTyped DEF CellTypeOK, SupPhases
<1> QED BY <1>1, <1>2 DEF CellTypeOK

LEMMA EndsAlone ==
  ASSUME CellTypeOK, NEW status \in Exits, Ends(status), UNCHANGED <<remoteVars, deployVars>>
  PROVE  CellTypeOK'
BY EndsKeepsTypes DEF CellTypeOK, TransportTypeOK, remoteVars, deployVars

LEMMA SourceTyped ==
  ASSUME CellTypeOK, NEW s \in Steps
  PROVE  Source(s) \in TreeType /\ Source(s)["data"] \in 0..MaxTrainings
<1>1. Source(s) \in TreeType
  BY DEF Source, CellTypeOK, TransportTypeOK
<1> QED BY <1>1 DEF TreeType, Parts

LEMMA SupervisorTyped ==
  ASSUME CellTypeOK, SupervisorStep
  PROVE  CellTypeOK'
<1> USE StepsFacts, TreeFacts, WatcherFacts
        DEF remoteVars, deployVars, transportVars, SupPhases, Exits
<1>1. CASE RestoreNothing
  <2>1. Process("watch") \in WatcherType /\ Process("watch").pc = "poll"
    BY DEF Modes
  <2>2. trainer' \in {"running", "failed"}
    BY <1>1 DEF RestoreNothing
  <2> QED BY <1>1, <2>1, <2>2 DEF RestoreNothing, CellTypeOK, TransportTypeOK
<1>2. CASE RestoreCopy
  <2>1. local' \in [Steps -> TreeType]
    BY <1>2 DEF RestoreCopy, CellTypeOK, TransportTypeOK
  <2> QED BY <1>2, <2>1 DEF RestoreCopy, CellTypeOK, TransportTypeOK
<1>3. CASE RestoreCut
  <2>1. PICK t \in Cut(NoTree, remote[latest]) : local' = [local EXCEPT ![latest] = t]
    BY <1>3 DEF RestoreCut
  <2>2. t \in TreeType
    BY <2>1
  <2>3. local' \in [Steps -> TreeType]
    BY <2>1, <2>2 DEF CellTypeOK, TransportTypeOK
  <2> QED BY <1>3, <2>3 DEF RestoreCut, CellTypeOK, TransportTypeOK
<1>4. CASE RestoreVerified
  <2>1. Process("watch") \in WatcherType /\ Process("watch").pc = "poll"
    BY DEF Modes
  <2> QED BY <1>4, <2>1 DEF RestoreVerified, CellTypeOK, TransportTypeOK
<1>5. CASE RestoreMismatch
  BY <1>5, EndsAlone DEF RestoreMismatch
<1>6. CASE WatcherLost
  BY <1>6, EndsAlone DEF WatcherLost
<1>7. CASE StopWatcher
  <2>1. watcher' = [watcher EXCEPT !.mode = "once"] /\ watcher \in WatcherType
    BY <1>7 DEF StopWatcher, CellTypeOK, TransportTypeOK
  <2>2. watcher' \in WatcherType /\ watcher'.pc = watcher.pc /\ watcher'.step = watcher.step
    BY <2>1 DEF WatcherType, Modes
  <2> QED BY <1>7, <2>2 DEF StopWatcher, CellTypeOK, TransportTypeOK
<1>8. CASE FinalSync
  <2>1. Process("once") \in WatcherType /\ Process("once").pc = "poll"
    BY DEF Modes
  <2> QED BY <1>8, <2>1 DEF FinalSync, CellTypeOK, TransportTypeOK
<1>9. CASE Finalize
  <2>1. Process("finalize") \in WatcherType /\ Process("finalize").pc = "poll"
    BY DEF Modes
  <2> QED BY <1>9, <2>1 DEF Finalize, CellTypeOK, TransportTypeOK
<1>10. CASE TrainingFailed
  BY <1>10, EndsAlone DEF TrainingFailed
<1>11. CASE Finalized
  BY <1>11 DEF Finalized, CellTypeOK, TransportTypeOK
<1>12. CASE DeployRefused
  BY <1>12, EndsAlone DEF DeployRefused
<1>13. CASE DeployAgain
  BY <1>13 DEF DeployAgain, CellTypeOK, TransportTypeOK
<1>14. CASE DeployCollides
  BY <1>14, EndsAlone DEF DeployCollides
<1>15. CASE DeploySync
  <2>1. PICK s \in Steps : deploy' = [deploy EXCEPT ![s] = [p \in DeployParts |-> Source(s)["data"]]]
    BY <1>15 DEF DeploySync
  <2>2. deploy' \in [Steps -> [DeployParts -> 0..MaxTrainings]]
    BY <2>1, SourceTyped DEF CellTypeOK
  <2> QED BY <1>15, <2>2 DEF DeploySync, CellTypeOK, TransportTypeOK
<1>16. CASE DeployCut
  <2>1. PICK s \in Steps, p \in DeployParts : deploy' = [deploy EXCEPT ![s][p] = Source(s)["data"]]
    BY <1>16 DEF DeployCut
  <2>2. deploy' \in [Steps -> [DeployParts -> 0..MaxTrainings]]
    BY <2>1, SourceTyped DEF CellTypeOK
  <2>3. Ends("failed") /\ UNCHANGED <<remote, receipt, latest, deployed, claimed>>
    BY <1>16 DEF DeployCut
  <2> QED BY <2>2, <2>3, EndsKeepsTypes DEF CellTypeOK, TransportTypeOK
<1>17. CASE DeploySeal
  <2>1. PICK s \in Steps : deployed' = [deployed EXCEPT ![s] = Source(s)["data"]]
    BY <1>17 DEF DeploySeal
  <2>2. deployed' \in [Steps -> 0..MaxTrainings]
    BY <2>1, SourceTyped DEF CellTypeOK
  <2> QED BY <1>17, <2>2 DEF DeploySeal, CellTypeOK, TransportTypeOK
<1>18. CASE SealCollides
  BY <1>18, EndsAlone DEF SealCollides
<1>19. CASE Claim
  BY <1>19 DEF Claim, CellTypeOK, TransportTypeOK
<1>20. CASE Clean
  <2>1. remote' \in [Steps -> TreeType] /\ receipt' \in [Steps -> ReceiptType]
    BY <1>20 DEF Clean, CellTypeOK, TransportTypeOK
  <2>2. latest' \in 0..FinalStep
    BY <1>20 DEF Clean, CellTypeOK, TransportTypeOK
  <2>3. Ends("complete") /\ UNCHANGED deployVars
    BY <1>20 DEF Clean
  <2> QED BY <2>1, <2>2, <2>3, EndsKeepsTypes DEF CellTypeOK
<1> QED
  BY <1>1, <1>2, <1>3, <1>4, <1>5, <1>6, <1>7, <1>8, <1>9, <1>10, <1>11, <1>12, <1>13,
     <1>14, <1>15, <1>16, <1>17, <1>18, <1>19, <1>20 DEF SupervisorStep

LEMMA TrainerTyped ==
  ASSUME CellTypeOK, TrainerStep
  PROVE  CellTypeOK'
<1> USE DEF remoteVars, deployVars, cellVars, transportVars
<1>1. CASE TrainerSaves
  <2>1. PICK s \in Steps : local' = [local EXCEPT ![s] = WholeTree(training)]
    BY <1>1 DEF TrainerSaves
  <2>2. local' \in [Steps -> TreeType]
    BY <2>1, TreeFacts DEF CellTypeOK, TransportTypeOK
  <2> QED BY <1>1, <2>2 DEF TrainerSaves, CellTypeOK, TransportTypeOK
<1>2. CASE TrainerRemoves
  <2>1. PICK s \in Steps, p \in Parts : local' = [local EXCEPT ![s][p] = 0]
    BY <1>2 DEF TrainerRemoves
  <2>2. local' \in [Steps -> TreeType]
    BY <2>1, StepsFacts DEF CellTypeOK, TransportTypeOK, TreeType
  <2> QED BY <1>2, <2>2 DEF TrainerRemoves, CellTypeOK, TransportTypeOK
<1>3. CASE TrainerEnds
  <2>1. trainer' \in {"done", "failed"}
    BY <1>3 DEF TrainerEnds
  <2> QED BY <1>3, <2>1 DEF TrainerEnds, CellTypeOK, TransportTypeOK
<1> QED BY <1>1, <1>2, <1>3 DEF TrainerStep

\* Every variable of the cell stays in its type.
THEOREM CellTypeTheorem == Spec => []CellTypeOK
<1>1. Init => CellTypeOK
  <2> SUFFICES ASSUME Init PROVE CellTypeOK
    OBVIOUS
  <2>1. TransportTypeOK
    BY StepsFacts, TreeFacts, WatcherFacts DEF Init, TransportInit, TransportTypeOK, NoWatcher
  <2>2. deploy \in [Steps -> [DeployParts -> 0..MaxTrainings]]
    BY TreeFacts DEF Init
  <2>3. deployed \in [Steps -> 0..MaxTrainings] /\ training \in 0..MaxTrainings
    BY StepsFacts DEF Init
  <2> QED BY <2>1, <2>2, <2>3 DEF Init, CellTypeOK, SupPhases, Exits
<1>2. CellTypeOK /\ [Next]_vars => CellTypeOK'
  <2> SUFFICES ASSUME CellTypeOK, [Next]_vars PROVE CellTypeOK'
    OBVIOUS
  <2>1. CASE Start
    <3>1. training' \in 0..MaxTrainings
      BY <2>1, StepsAssumption DEF Start, CellTypeOK
    <3> QED BY <2>1, <3>1 DEF Start, CellTypeOK, TransportTypeOK, transportVars, deployVars,
                              SupPhases, Exits
  <2>2. CASE WatcherStep
    BY <2>2, WatcherTyped DEF WatcherStep, CellTypeOK, cellVars, deployVars
  <2>3. CASE Dies
    BY <2>3, EndsAlone DEF Dies, Exits
  <2>4. CASE UNCHANGED vars
    BY <2>4 DEF vars, transportVars, cellVars, deployVars, remoteVars, CellTypeOK, TransportTypeOK
  <2> QED BY <2>1, <2>2, <2>3, <2>4, SupervisorTyped, TrainerTyped DEF Next
<1> QED BY <1>1, <1>2, PTL DEF Spec

-----------------------------------------------------------------------------
(* Phases                                                                  *)

LEMMA PhaseFacts ==
  /\ SupPhases = {"idle"} \cup Before \cup Running \cup After
  /\ Process("watch").mode = "watch" /\ Process("once").mode = "once"
  /\ Process("finalize").mode = "finalize"
  /\ Process("watch").pc = "poll" /\ Process("once").pc = "poll" /\ Process("finalize").pc = "poll"
  /\ NoWatcher.pc = "off" /\ NoWatcher.mode = "watch"
BY DEF SupPhases, Before, Running, After, Process, NoWatcher

\* The watcher only works while the attempt runs.
LEMMA WatcherRuns ==
  ASSUME CellTypeOK, PhaseInv, watcher.pc \notin {"off", "done"}
  PROVE  sup \in Running /\ ~claimed
BY PhaseFacts DEF CellTypeOK, PhaseInv, Before, Running, After

LEMMA WatcherPhase ==
  ASSUME CellTypeOK, PhaseInv, WatcherStep
  PROVE  PhaseInv'
<1>1. watcher.pc \notin {"off", "done"}
  BY DEF WatcherStep, WatcherWorks, WatcherDies, Doing, Poll, PollNothing, List, Sync, Mark,
         Point, Prune, PruneEnds, Check, Refuse
<1>2. sup \in Running /\ ~claimed
  BY <1>1, WatcherRuns
<1>3. watcher \in WatcherType /\ UNCHANGED <<sup, trainer, training, claimed>>
  BY DEF CellTypeOK, TransportTypeOK, WatcherStep, cellVars, deployVars
<1>4. ASSUME watcher'.mode = watcher.mode, watcher'.pc /= "check",
             watcher.mode = "finalize" => watcher'.pc /= "done",
             watcher.mode = "last" => watcher'.pc \in {"point", "prune", "done", "dead"}
      PROVE  PhaseInv'
  BY <1>2, <1>3, <1>4 DEF PhaseInv, Before, Running, After
<1>5. CASE Poll
  <2>1. watcher'.mode = watcher.mode /\ watcher'.pc = "list" /\ watcher.mode /= "last"
    BY <1>3, <1>5 DEF Poll, WatcherType, PhaseInv, Doing
  <2> QED BY <1>4, <2>1
<1>6. CASE PollNothing \/ PruneEnds
  <2>1. watcher'.mode = watcher.mode /\ watcher'.pc = AfterSync
    BY <1>3, <1>6 DEF PollNothing, PruneEnds, WatcherType
  <2>2. CASE watcher.mode = "finalize"
    BY <1>2, <1>3, <2>1, <2>2 DEF AfterSync, PhaseInv, Before, Running, After
  <2>3. CASE watcher.mode /= "finalize"
    <3>1. watcher.mode = "last" => watcher'.pc = "done"
      BY <2>1 DEF AfterSync
    <3>2. watcher'.pc \in {"poll", "done"}
      BY <2>1, <2>3 DEF AfterSync
    <3> QED BY <1>4, <2>1, <2>3, <3>1, <3>2
  <2> QED BY <2>2, <2>3
<1>7. CASE List
  <2>1. watcher'.mode = watcher.mode /\ watcher'.pc \in {"point", "sync"}
    BY <1>3, <1>7 DEF List, WatcherType
  <2>2. watcher.mode /= "last"
    BY <1>7 DEF List, Doing, PhaseInv
  <2> QED BY <1>4, <2>1, <2>2
<1>8. CASE Sync
  <2>1. watcher'.mode = watcher.mode /\ watcher'.pc = "mark" /\ watcher.mode /= "last"
    BY <1>3, <1>8 DEF Sync, WatcherType, PhaseInv, Doing
  <2> QED BY <1>4, <2>1
<1>9. CASE Mark
  <2>1. watcher'.mode = watcher.mode /\ watcher'.pc = "point"
    BY <1>3, <1>9 DEF Mark, WatcherType
  <2> QED BY <1>4, <2>1
<1>10. CASE Point \/ Prune
  <2>1. watcher'.mode = watcher.mode /\ watcher'.pc = "prune"
    BY <1>3, <1>10 DEF Point, Prune, WatcherType, Doing
  <2> QED BY <1>4, <2>1
<1>11. CASE Check
  <2>1. watcher'.mode = "last" /\ watcher'.pc = "point"
    BY <1>3, <1>11 DEF Check, WatcherType
  <2>2. watcher.mode = "finalize"
    BY <1>11 DEF Check, Doing, PhaseInv
  <2> QED BY <1>2, <1>3, <2>1, <2>2 DEF PhaseInv, Before, Running, After
<1>12. CASE Refuse \/ WatcherDies
  <2>1. watcher'.mode = watcher.mode /\ watcher'.pc = "dead"
    BY <1>3, <1>12 DEF Refuse, WatcherDies, WatcherType
  <2> QED BY <1>4, <2>1
<1> QED
  BY <1>5, <1>6, <1>7, <1>8, <1>9, <1>10, <1>11, <1>12 DEF WatcherStep, WatcherWorks

LEMMA EndsPhase ==
  ASSUME CellTypeOK, NEW status \in Exits, Ends(status)
  PROVE  PhaseInv'
BY EndsTyped, PhaseFacts DEF PhaseInv, Before, Running, After

LEMMA PhaseStep ==
  ASSUME CellTypeOK, PhaseInv, [Next]_vars
  PROVE  PhaseInv'
<1> USE PhaseFacts DEF Exits, transportVars, deployVars, remoteVars
<1>1. CASE Start
  BY <1>1, StepsAssumption DEF Start, PhaseInv, Before, Running, After, CellTypeOK
<1>2. CASE RestoreNothing
  BY <1>2 DEF RestoreNothing, PhaseInv, Before, Running, After
<1>3. CASE RestoreCopy
  BY <1>3 DEF RestoreCopy, PhaseInv, Before, Running, After
<1>4. CASE RestoreCut
  BY <1>4 DEF RestoreCut, PhaseInv, Before, Running, After
<1>5. CASE RestoreVerified
  BY <1>5 DEF RestoreVerified, PhaseInv, Before, Running, After
<1>6. CASE RestoreMismatch \/ WatcherLost \/ TrainingFailed \/ DeployRefused \/ DeployCollides
           \/ DeployCut \/ SealCollides \/ Clean \/ Dies
  BY <1>6, EndsPhase DEF RestoreMismatch, WatcherLost, TrainingFailed, DeployRefused,
     DeployCollides, DeployCut, SealCollides, Clean, Dies
<1>7. CASE StopWatcher
  <2>1. watcher'.mode = "once" /\ watcher'.pc = watcher.pc /\ watcher.pc /= "check"
    BY <1>7 DEF StopWatcher, CellTypeOK, TransportTypeOK, WatcherType, PhaseInv
  <2> QED BY <1>7, <2>1 DEF StopWatcher, PhaseInv, Before, Running, After
<1>8. CASE FinalSync
  BY <1>8 DEF FinalSync, PhaseInv, Before, Running, After
<1>9. CASE Finalize
  BY <1>9 DEF Finalize, PhaseInv, Before, Running, After
<1>10. CASE Finalized
  BY <1>10 DEF Finalized, PhaseInv, Before, Running, After, Doing
<1>11. CASE DeployAgain
  BY <1>11 DEF DeployAgain, PhaseInv
<1>12. CASE DeploySync
  BY <1>12 DEF DeploySync, NotSealed, Turn, PhaseInv, Before, Running, After
<1>13. CASE DeploySeal
  BY <1>13 DEF DeploySeal, Sealing, PhaseInv, Before, Running, After
<1>14. CASE Claim
  BY <1>14 DEF Claim, PhaseInv, Before, Running, After
<1>15. CASE TrainerStep
  BY <1>15 DEF TrainerStep, TrainerSaves, TrainerRemoves, TrainerEnds, PhaseInv, cellVars,
               Before, Running, After
<1>16. CASE WatcherStep
  BY <1>16, WatcherPhase
<1>17. CASE UNCHANGED vars
  BY <1>17 DEF vars, cellVars, PhaseInv
<1> QED
  BY <1>1, <1>2, <1>3, <1>4, <1>5, <1>6, <1>7, <1>8, <1>9, <1>10, <1>11, <1>12, <1>13, <1>14,
     <1>15, <1>16, <1>17 DEF Next, SupervisorStep

-----------------------------------------------------------------------------
(* The pointer                                                             *)

LEMMA PointByEnd ==
  ASSUME CellTypeOK, NEW status \in Exits, Ends(status)
  PROVE  PointInv'
BY EndsTyped, PhaseFacts DEF PointInv, Running, Sending

LEMMA CompleteFacts ==
  /\ CompleteSteps \subseteq Steps
  /\ \A s \in Steps : s \in CompleteSteps <=> local[s]["marker"] /= 0
BY DEF CompleteSteps

\* A save adds a step, and what the trainer removes is not the newest.
LEMMA SavesHeld ==
  ASSUME CellTypeOK, PhaseInv, TrainerSaves
  PROVE  CompleteSteps \subseteq CompleteSteps'
<1>1. PICK s \in Steps : NextSave(s) /\ local' = [local EXCEPT ![s] = WholeTree(training)]
  BY DEF TrainerSaves
<1>2. s \notin CompleteSteps
  BY <1>1, CompleteFacts, StepsFacts DEF NextSave, Newest
<1>3. \A r \in Steps \ {s} : local'[r] = local[r]
  BY <1>1 DEF CellTypeOK, TransportTypeOK
<1> QED BY <1>2, <1>3 DEF CompleteSteps

LEMMA RemovesHeld ==
  ASSUME CellTypeOK, TrainerRemoves, NEW x \in Nat, Held(x)
  PROVE  Held(x)'
<1>1. PICK s \in Steps, p \in Parts : /\ \E r \in CompleteSteps : s < r
                                    /\ local' = [local EXCEPT ![s][p] = 0]
  BY DEF TrainerRemoves
<1>2. \A r \in Steps \ {s} : local'[r] = local[r]
  BY <1>1 DEF CellTypeOK, TransportTypeOK
<1>3. \A r \in CompleteSteps : r /= s => r \in CompleteSteps'
  BY <1>2 DEF CompleteSteps
<1>4. PICK q \in CompleteSteps : x <= q
  BY DEF Held
<1>5. CASE q /= s
  BY <1>3, <1>4, <1>5 DEF Held
<1>6. CASE q = s
  <2>1. PICK r \in CompleteSteps : s < r
    BY <1>1
  <2>2. r /= s /\ x <= r
    BY <1>4, <1>6, <2>1, StepsFacts, CompleteFacts
  <2> QED BY <1>3, <2>1, <2>2 DEF Held
<1> QED BY <1>5, <1>6

LEMMA WatcherPoint ==
  ASSUME CellTypeOK, PhaseInv, PointInv, WatcherStep
  PROVE  PointInv'
<1>1. watcher.pc \notin {"off", "done"}
  BY DEF WatcherStep, WatcherWorks, WatcherDies, Doing, Poll, PollNothing, List, Sync, Mark,
         Point, Prune, PruneEnds, Check, Refuse
<1>2. sup \in Running
  BY <1>1, WatcherRuns
<1>3. watcher \in WatcherType /\ latest \in 0..FinalStep
      /\ UNCHANGED <<sup, trainer, local>> /\ CompleteSteps' = CompleteSteps
  BY DEF CellTypeOK, TransportTypeOK, WatcherStep, WatcherWorks, WatcherDies, cellVars, deployVars,
         Poll, PollNothing, List, Sync, Mark, Point, Prune, PruneEnds, Check, Refuse, CompleteSteps
<1>4. ASSUME latest' = latest, watcher'.pc \notin Sending,
             watcher'.mode = "last" /\ watcher'.pc \in {"prune", "done"} =>
                watcher.mode = "last" /\ watcher.pc \in {"prune", "done"}
      PROVE  PointInv'
  BY <1>3, <1>4 DEF PointInv, Held, Sending
<1>5. ASSUME latest' = latest, watcher'.mode = watcher.mode, watcher'.step = watcher.step,
             watcher.pc \in Sending, watcher'.pc \in Sending, watcher.pc /= "point",
             watcher.mode /= "last"
      PROVE  PointInv'
  BY <1>3, <1>5 DEF PointInv, Held, Sending
<1>6. CASE Poll
  <2>1. PICK s \in Steps : Newest(s) /\ watcher' = [watcher EXCEPT !.step = s, !.pc = "list"]
    BY <1>6 DEF Poll
  <2>2. watcher'.step = s /\ watcher'.pc = "list" /\ watcher'.mode = watcher.mode
    BY <1>3, <2>1 DEF WatcherType
  <2>3. latest <= s /\ Held(s)
    BY <1>2, <1>3, <2>1, StepsFacts, CompleteFacts DEF PointInv, Newest, Held
  <2>4. watcher.mode /= "last"
    BY <1>6 DEF Poll, Doing, PhaseInv
  <2>5. latest' = latest
    BY <1>6 DEF Poll, remoteVars
  <2> QED BY <1>3, <2>2, <2>3, <2>4, <2>5 DEF PointInv, Held
<1>7. CASE PollNothing
  <2>1. watcher'.pc \in {"check", "done"} /\ watcher'.mode = watcher.mode
    BY <1>3, <1>7 DEF PollNothing, WatcherType, AfterSync
  <2>2. watcher.mode /= "last"
    BY <1>7 DEF PollNothing, Doing, PhaseInv
  <2> QED BY <1>4, <1>7, <2>1, <2>2 DEF PollNothing, remoteVars, Sending
<1>8. CASE List
  <2>1. watcher'.pc \in {"sync", "point"} /\ watcher'.mode = watcher.mode
        /\ watcher'.step = watcher.step
    BY <1>3, <1>8 DEF List, WatcherType
  <2>2. watcher.mode /= "last"
    BY <1>8 DEF List, Doing, PhaseInv
  <2> QED BY <1>5, <1>8, <2>1, <2>2 DEF List, remoteVars, Sending, Doing
<1>9. CASE Sync \/ Mark
  <2>1. watcher'.pc \in {"mark", "point"} /\ watcher'.mode = watcher.mode
        /\ watcher'.step = watcher.step
    BY <1>3, <1>9 DEF Sync, Mark, WatcherType
  <2>2. watcher.mode /= "last"
    BY <1>9 DEF Sync, Mark, Doing, PhaseInv
  <2> QED BY <1>5, <1>9, <2>1, <2>2 DEF Sync, Mark, Sending, Doing
<1>10. CASE Point
  <2>1. watcher'.pc = "prune" /\ watcher'.mode = watcher.mode /\ latest' = watcher.step
    BY <1>3, <1>10 DEF Point, WatcherType
  <2>2. Held(watcher.step) /\ (watcher.mode = "last" => watcher.step = FinalStep)
    BY <1>10 DEF Point, Doing, PointInv, Sending
  <2> QED BY <1>3, <2>1, <2>2 DEF PointInv, Held, Sending
<1>11. CASE Prune
  <2>1. watcher'.pc = "prune" /\ watcher'.mode = watcher.mode /\ watcher.pc = "prune"
    BY <1>3, <1>11 DEF Prune, WatcherType, Doing
  <2> QED BY <1>4, <1>11, <2>1 DEF Prune, Sending
<1>12. CASE PruneEnds
  <2>1. watcher'.pc \in {"poll", "check", "done"} /\ watcher'.mode = watcher.mode
        /\ watcher.pc = "prune"
    BY <1>3, <1>12 DEF PruneEnds, WatcherType, Doing, AfterSync
  <2> QED BY <1>4, <1>12, <2>1 DEF PruneEnds, remoteVars, Sending
<1>13. CASE Check
  <2>1. watcher'.pc = "point" /\ watcher'.mode = "last" /\ watcher'.step = FinalStep
        /\ latest' = latest
    BY <1>3, <1>13 DEF Check, WatcherType, remoteVars
  <2>2. trainer = "done"
    BY <1>2, <1>13 DEF Check, Doing, PhaseInv, Running, After
  <2>3. latest <= FinalStep /\ Held(FinalStep)
    BY <1>3, <2>2, StepsFacts, StepsAssumption DEF PointInv, Held
  <2> QED BY <1>3, <2>1, <2>3 DEF PointInv, Held
<1>14. CASE Refuse \/ WatcherDies
  <2>1. watcher'.pc = "dead" /\ latest' = latest
    BY <1>3, <1>14 DEF Refuse, WatcherDies, WatcherType, remoteVars
  <2> QED BY <1>4, <2>1 DEF Sending
<1> QED
  BY <1>6, <1>7, <1>8, <1>9, <1>10, <1>11, <1>12, <1>13, <1>14 DEF WatcherStep, WatcherWorks

LEMMA PointStep ==
  ASSUME CellTypeOK, PhaseInv, PointInv, [Next]_vars
  PROVE  PointInv'
<1> USE PhaseFacts DEF Exits, transportVars, deployVars, remoteVars
<1>1. ASSUME UNCHANGED <<local, latest, trainer, watcher>>, sup' \in Running => sup \in Running
      PROVE  PointInv'
  BY <1>1 DEF PointInv, Held, CompleteSteps
<1>3. CASE Start
  BY <1>1, <1>3 DEF Start, Running
<1>4. CASE RestoreNothing
  BY <1>4 DEF RestoreNothing, PointInv, Sending
<1>5. CASE RestoreCopy \/ RestoreCut
  BY <1>5 DEF RestoreCopy, RestoreCut, PointInv, PhaseInv, Before, Running, Sending
<1>6. CASE RestoreVerified
  <2>1. Held(latest)
    BY <1>6, StepsFacts, CompleteFacts DEF RestoreVerified, Held
  <2>2. Held(latest)'
    BY <1>6, <2>1 DEF RestoreVerified, Held, CompleteSteps
  <2> QED BY <1>6, <2>2 DEF RestoreVerified, PointInv, Sending
<1>7. CASE RestoreMismatch \/ WatcherLost \/ TrainingFailed \/ DeployRefused \/ DeployCollides
           \/ DeployCut \/ SealCollides \/ Clean \/ Dies
  BY <1>7, PointByEnd DEF RestoreMismatch, WatcherLost, TrainingFailed, DeployRefused,
     DeployCollides, DeployCut, SealCollides, Clean, Dies
<1>8. CASE StopWatcher
  <2>1. watcher'.mode = "once" /\ watcher'.pc = watcher.pc /\ watcher'.step = watcher.step
    BY <1>8 DEF StopWatcher, CellTypeOK, TransportTypeOK, WatcherType
  <2>2. CompleteSteps' = CompleteSteps
    BY <1>8 DEF StopWatcher, CompleteSteps
  <2> QED BY <1>8, <2>1, <2>2 DEF StopWatcher, PointInv, Held, Running
<1>9. CASE FinalSync \/ Finalize
  <2>1. CompleteSteps' = CompleteSteps
    BY <1>9 DEF FinalSync, Finalize, CompleteSteps
  <2> QED BY <1>9, <2>1 DEF FinalSync, Finalize, PointInv, Held, Running, Sending
<1>10. CASE Finalized \/ DeployAgain \/ DeploySync \/ DeploySeal \/ Claim
  BY <1>1, <1>10 DEF Finalized, DeployAgain, DeploySync, DeploySeal, Claim, Running
<1>11. CASE TrainerSaves
  <2>1. CompleteSteps \subseteq CompleteSteps'
    BY <1>11, SavesHeld
  <2> QED BY <1>11, <2>1 DEF TrainerSaves, cellVars, PointInv, Held
<1>12. CASE TrainerRemoves
  <2>1. latest \in Nat /\ (watcher.pc \in Sending => watcher.step \in Nat)
    BY StepsAssumption DEF CellTypeOK, TransportTypeOK, WatcherType
  <2> QED BY <1>12, <2>1, RemovesHeld DEF TrainerRemoves, cellVars, PointInv
<1>13. CASE TrainerEnds
  <2>1. CompleteSteps' = CompleteSteps
    BY <1>13 DEF TrainerEnds, CompleteSteps
  <2> QED BY <1>13, <2>1 DEF TrainerEnds, PointInv, Held, Newest
<1>14. CASE WatcherStep
  BY <1>14, WatcherPoint
<1>15. CASE UNCHANGED vars
  BY <1>1, <1>15 DEF vars, cellVars
<1> QED
  BY <1>3, <1>4, <1>5, <1>6, <1>7, <1>8, <1>9, <1>10, <1>11, <1>12, <1>13, <1>14, <1>15
  DEF Next, SupervisorStep, TrainerStep

\* The cell implements the recovery register: the step a new attempt resumes from
\* never goes back and completion is claimed once, at the final step.
THEOREM RegisterTheorem == Spec => ImplementsRegister
<1> DEFINE IInv == CellTypeOK /\ PhaseInv /\ PointInv
<1>1. Init => PhaseInv /\ PointInv
  BY PhaseFacts DEF Init, TransportInit, PhaseInv, PointInv, Before, Running, After, Sending
<1>2. IInv /\ [Next]_vars => (PhaseInv /\ PointInv)'
  BY PhaseStep, PointStep
<1>3. Init => Register!RegisterInit
  BY DEF Init, TransportInit, Register!RegisterInit
<1>4. IInv /\ [Next]_vars => [Register!RegisterNext]_<<latest, claimed>>
  <2> SUFFICES ASSUME IInv, [Next]_vars PROVE [Register!RegisterNext]_<<latest, claimed>>
    OBVIOUS
  <2>1. CASE WatcherStep
    <3>1. CASE Point
      <4>1. latest' = watcher.step /\ claimed' = claimed /\ watcher.pc = "point"
        BY <2>1, <3>1 DEF Point, Doing, WatcherStep, deployVars
      <4>2. ~claimed
        BY <4>1, WatcherRuns
      <4>3. latest \in 0..FinalStep /\ watcher.step \in 0..FinalStep /\ latest <= watcher.step
        BY <4>1 DEF CellTypeOK, TransportTypeOK, WatcherType, PointInv, Sending
      <4>4. latest' = latest \/ latest' \in (latest + 1)..FinalStep
        BY <4>1, <4>3, StepsAssumption
      <4> QED BY <4>1, <4>2, <4>4 DEF Register!RegisterNext, Register!Advance
    <3>2. CASE ~Point
      BY <2>1, <3>2 DEF WatcherStep, WatcherWorks, WatcherDies, deployVars, remoteVars, Poll,
         PollNothing, List, Sync, Mark, Prune, PruneEnds, Check, Refuse
    <3> QED BY <3>1, <3>2
  <2>2. CASE Claim
    <3>1. ~claimed /\ latest = FinalStep
      BY <2>2 DEF Claim, PhaseInv, PointInv, After
    <3> QED BY <2>2, <3>1 DEF Claim, transportVars, Register!RegisterNext, Register!Seal
  <2>3. CASE Clean
    <3>1. claimed
      BY <2>3 DEF Clean, PhaseInv
    <3> QED BY <2>3, <3>1 DEF Clean, deployVars, Register!RegisterNext, Register!Forget
  <2>4. CASE Start
    BY <2>4 DEF Start, transportVars, deployVars
  <2>5. CASE SupervisorStep /\ ~Claim /\ ~Clean
    BY <2>5 DEF SupervisorStep, transportVars, deployVars, remoteVars, RestoreNothing, RestoreCopy,
       RestoreCut, RestoreVerified, RestoreMismatch, WatcherLost, StopWatcher, FinalSync, Finalize,
       TrainingFailed, Finalized, DeployRefused, DeployAgain, DeployCollides, DeploySync,
       DeployCut, DeploySeal, SealCollides
  <2>6. CASE TrainerStep
    BY <2>6 DEF TrainerStep, TrainerSaves, TrainerRemoves, TrainerEnds, transportVars, deployVars,
       remoteVars
  <2>7. CASE Dies
    BY <2>7 DEF Dies, remoteVars, deployVars
  <2>8. CASE UNCHANGED vars
    BY <2>8 DEF vars, transportVars, deployVars
  <2> QED BY <2>1, <2>2, <2>3, <2>4, <2>5, <2>6, <2>7, <2>8 DEF Next
<1>5. Spec => []CellTypeOK
  BY CellTypeTheorem
<1>6. Spec => [](PhaseInv /\ PointInv)
  BY <1>1, <1>2, <1>5, PTL DEF Spec
<1> QED
  BY <1>3, <1>4, <1>5, <1>6, PTL DEF Spec, ImplementsRegister, Register!RegisterSpec,
     Register!registerVars

-----------------------------------------------------------------------------
(* The deployed model                                                      *)

LEMMA SealByEnd ==
  ASSUME CellTypeOK, SealInv, NEW status \in Exits, Ends(status), UNCHANGED <<deployed, claimed>>,
         \A s \in Steps : deployed[s] /= 0 => deploy'[s] = deploy[s]
  PROVE  SealInv'
BY EndsTyped, StepsFacts DEF SealInv, DeployIsSealed, After

\* A phase of the training, and the restore before it, deploys nothing.
LEMMA SealByTraining ==
  ASSUME SealInv, UNCHANGED deployVars, sup' \notin After
  PROVE  SealInv'
BY DEF SealInv, DeployIsSealed, After, deployVars

LEMMA LeastOne ==
  ASSUME CellTypeOK, NEW s \in Steps, NEW r \in Steps,
         s \in todo, r \in todo, \A q \in todo : s <= q, \A q \in todo : r <= q
  PROVE  s = r
BY StepsFacts

\* An attempt that syncs a deploy tree has the training that is sealed there, if one is.
SealsAlike == \A s \in Steps : NotSealed(s) => deployed[s] \in {0, Source(s)["data"]}

LEMMA SealStep ==
  ASSUME CellTypeOK, PhaseInv, SealInv, SealsAlike, [Next]_vars
  PROVE  SealInv'
<1> USE PhaseFacts DEF Exits, deployVars
<1>1. CASE Start \/ RestoreNothing \/ RestoreCopy \/ RestoreCut \/ RestoreVerified
           \/ StopWatcher \/ FinalSync \/ Finalize
  BY <1>1, SealByTraining DEF Start, RestoreNothing, RestoreCopy, RestoreCut, RestoreVerified,
     StopWatcher, FinalSync, Finalize, After
<1>2. CASE RestoreMismatch \/ WatcherLost \/ TrainingFailed \/ DeployRefused \/ DeployCollides
           \/ SealCollides \/ Clean \/ Dies
  BY <1>2, SealByEnd DEF RestoreMismatch, WatcherLost, TrainingFailed, DeployRefused,
     DeployCollides, SealCollides, Clean, Dies
<1>3. CASE Finalized
  BY <1>3 DEF Finalized, SealInv, DeployIsSealed, After
<1>4. CASE DeployAgain
  <2>1. PICK s \in Steps : Turn(s) /\ Deployable(s) /\ deployed[s] = Source(s)["data"]
                           /\ todo' = todo \ {s}
    BY <1>4 DEF DeployAgain
  <2>2. deployed[s] /= 0
    BY <2>1 DEF Deployable, Exported
  <2> QED BY <1>4, <2>1, <2>2 DEF DeployAgain, Turn, SealInv, DeployIsSealed, After
<1>5. CASE DeploySync
  <2>1. PICK s \in Steps :
          /\ NotSealed(s) /\ sup' = "seal"
          /\ deploy' = [deploy EXCEPT ![s] = [p \in DeployParts |-> Source(s)["data"]]]
          /\ UNCHANGED <<local, remote, todo, deployed, claimed>>
    BY <1>5 DEF DeploySync, transportVars
  <2>2. deployed[s] \in {0, Source(s)["data"]} /\ Source(s)["data"] /= 0 /\ sup = "deploy"
        /\ s \in todo /\ \A r \in todo : s <= r
    BY <2>1 DEF SealsAlike, NotSealed, Turn, Deployable, Exported
  <2>3. \A r \in Steps \ {s} : deploy'[r] = deploy[r]
    BY <2>1 DEF CellTypeOK
  <2>4. \A p \in DeployParts : deploy'[s][p] = Source(s)["data"]
    BY <2>1 DEF CellTypeOK
  <2>5. Source(s)' = Source(s)
    BY <2>1 DEF Source, Exported
  <2>6. DeployIsSealed'
    BY <2>1, <2>2, <2>3, <2>4, StepsFacts DEF SealInv, DeployIsSealed
  <2>7. Sealing(s)'
    BY <2>1, <2>2 DEF Sealing
  <2> QED BY <2>1, <2>2, <2>4, <2>5, <2>6, <2>7 DEF SealInv, After
<1>6. CASE DeployCut
  <2>1. PICK s \in Steps, p \in DeployParts :
          NotSealed(s) /\ deploy' = [deploy EXCEPT ![s][p] = Source(s)["data"]]
    BY <1>6 DEF DeployCut
  <2>2. \A r \in Steps \ {s} : deploy'[r] = deploy[r]
    BY <2>1 DEF CellTypeOK
  <2>3. deployed[s] /= 0 => deploy'[s] = deploy[s]
    <3>1. SUFFICES ASSUME deployed[s] /= 0 PROVE deploy'[s] = deploy[s]
      OBVIOUS
    <3>2. deploy[s][p] = Source(s)["data"]
      BY <2>1, <3>1 DEF SealsAlike, SealInv, DeployIsSealed
    <3> QED BY <2>1, <3>2 DEF CellTypeOK
  <2> QED BY <1>6, <2>2, <2>3, SealByEnd DEF DeployCut
<1>7. CASE DeploySeal
  <2>1. PICK s \in Steps :
          /\ Sealing(s) /\ deployed' = [deployed EXCEPT ![s] = Source(s)["data"]]
          /\ todo' = todo \ {s} /\ sup' = "deploy" /\ UNCHANGED <<deploy, claimed>>
    BY <1>7 DEF DeploySeal
  <2>2. PICK r \in todo : /\ Sealing(r) /\ Source(r)["data"] /= 0
                          /\ \A p \in DeployParts : deploy[r][p] = Source(r)["data"]
    BY <2>1 DEF SealInv, Sealing
  <2>3. r = s
    BY <2>1, <2>2, LeastOne, StepsFacts DEF Sealing, CellTypeOK
  <2>4. deployed'[s] = Source(s)["data"] /\ \A q \in Steps \ {s} : deployed'[q] = deployed[q]
    BY <2>1 DEF CellTypeOK
  <2>5. ~claimed
    BY <2>1 DEF PhaseInv, Sealing
  <2> QED BY <2>1, <2>2, <2>3, <2>4, <2>5, StepsFacts DEF SealInv, DeployIsSealed, After, Sealing
<1>8. CASE Claim
  BY <1>8 DEF Claim, SealInv, DeployIsSealed, After
<1>9. CASE TrainerStep
  <2>1. sup = "train" /\ sup' = sup /\ UNCHANGED deployVars
    BY <1>9 DEF TrainerStep, TrainerSaves, TrainerRemoves, TrainerEnds, cellVars, PhaseInv
  <2> QED BY <2>1, SealByTraining DEF After
<1>10. CASE WatcherStep
  <2>1. watcher.pc \notin {"off", "done"}
    BY <1>10 DEF WatcherStep, WatcherWorks, WatcherDies, Doing, Poll, PollNothing, List, Sync,
           Mark, Point, Prune, PruneEnds, Check, Refuse
  <2>2. sup' \in Running /\ UNCHANGED deployVars
    BY <1>10, <2>1, WatcherRuns DEF WatcherStep, cellVars
  <2> QED BY <2>2, SealByTraining DEF After, Running
<1>11. CASE UNCHANGED vars
  BY <1>11 DEF vars, transportVars, cellVars, SealInv, DeployIsSealed, Sealing, Source, Exported
<1> QED
  BY <1>1, <1>2, <1>3, <1>4, <1>5, <1>6, <1>7, <1>8, <1>9, <1>10, <1>11 DEF Next, SupervisorStep

LEMMA SealInit == Init => PhaseInv /\ SealInv
<1> SUFFICES ASSUME Init PROVE PhaseInv /\ SealInv
  OBVIOUS
<1>1. PhaseInv
  BY PhaseFacts DEF Init, TransportInit, PhaseInv, Before, Running, After
<1>2. \A s \in Steps : deployed[s] = 0
  BY DEF Init
<1> QED BY <1>1, <1>2 DEF Init, SealInv, DeployIsSealed, After

\* When the entry can read the receipts that are there, a deploy receipt stands
\* over the whole tree it names and completion over the receipts of every step.
THEOREM SealedTheorem == ~ReadsFail => (Spec => []DeployIsSealed)
<1> SUFFICES ASSUME ~ReadsFail PROVE Spec => []DeployIsSealed
  OBVIOUS
<1>1. SealsAlike
  BY DEF SealsAlike, NotSealed
<1>2. CellTypeOK /\ PhaseInv /\ SealInv /\ [Next]_vars => (PhaseInv /\ SealInv)'
  BY <1>1, PhaseStep, SealStep
<1>3. SealInv => DeployIsSealed
  BY DEF SealInv
<1> QED BY <1>2, <1>3, SealInit, CellTypeTheorem, PTL DEF Spec

-----------------------------------------------------------------------------
(* The restorable pointer                                                  *)

LEMMA UploadedFacts ==
  /\ Uploaded \subseteq Steps
  /\ \A s \in Steps : s \in Uploaded <=> receipt[s] /= NoReceipt
  /\ \A t \in TreeType : Whole(t) => Summary(t) /= NoReceipt
BY DEF Uploaded, Whole, Summary, NoReceipt

\* A step that leaves S3 and the watcher's plans alone keeps them.
LEMMA UploadAlone ==
  ASSUME UploadInv, UNCHANGED <<remote, receipt, latest, claimed>>,
         watcher'.pc \notin {"list", "sync", "mark", "point", "prune"}
  PROVE  UploadInv'
BY DEF UploadInv, Good, Uploaded

LEMMA UploadByEnd ==
  ASSUME CellTypeOK, UploadInv, NEW status \in Exits, Ends(status),
         claimed' \/ UNCHANGED <<remote, receipt, latest, claimed>>
  PROVE  UploadInv'
BY EndsTyped, PhaseFacts DEF UploadInv, Good, Uploaded

LEMMA LocalByEnd ==
  ASSUME CellTypeOK, LocalInv, NEW status \in Exits, Ends(status),
         latest' = latest \/ sup \notin Before
  PROVE  LocalInv'
<1>1. local' = [s \in Steps |-> NoTree] \/ local' = local
  BY DEF Ends
<1>2. CASE local' = local
  BY <1>2, EndsTyped DEF LocalInv, Newest, CompleteSteps, Before
<1>3. CASE local' = [s \in Steps |-> NoTree]
  <2>1. \A s \in Steps : local'[s]["marker"] = 0
    BY <1>3 DEF NoTree, Parts
  <2>2. \A s \in Steps : ~Newest(s)'
    BY <2>1 DEF Newest, CompleteSteps
  <2> QED BY <2>1, <2>2 DEF LocalInv
<1> QED BY <1>1, <1>2, <1>3

LEMMA WatcherUpload ==
  ASSUME CellTypeOK, PhaseInv, PointInv, UploadInv, LocalInv, WholeDeletes, WatcherStep
  PROVE  UploadInv' /\ LocalInv'
<1>1. watcher.pc \notin {"off", "done"}
  BY DEF WatcherStep, WatcherWorks, WatcherDies, Doing, Poll, PollNothing, List, Sync, Mark,
         Point, Prune, PruneEnds, Check, Refuse
<1>2. sup \in Running /\ sup \notin Before /\ ~claimed
  BY <1>1, WatcherRuns DEF Running, Before
<1>3. watcher \in WatcherType
      /\ UNCHANGED <<sup, claimed, local>> /\ CompleteSteps' = CompleteSteps
  BY DEF CellTypeOK, TransportTypeOK, WatcherStep, WatcherWorks, WatcherDies, cellVars, deployVars,
         Poll, PollNothing, List, Sync, Mark, Point, Prune, PruneEnds, Check, Refuse, CompleteSteps
<1>4. LocalInv'
  BY <1>2, <1>3 DEF LocalInv, Newest, Before
<1>5. latest \in Uploaded \cup {0} /\ \A s \in Uploaded : Good(s)
  BY <1>2 DEF UploadInv
<1>6. \A s : Newest(s)' <=> Newest(s)
  BY <1>3 DEF Newest
<1>7. CASE Poll
  <2>1. PICK s \in Steps : Newest(s) /\ watcher' = [watcher EXCEPT !.step = s, !.pc = "list"]
    BY <1>7 DEF Poll
  <2>2. watcher'.step = s /\ watcher'.pc = "list" /\ Whole(local[s])
    BY <1>2, <1>3, <2>1 DEF WatcherType, LocalInv
  <2>3. UNCHANGED <<remote, receipt, latest>>
    BY <1>7 DEF Poll, remoteVars
  <2>4. Uploaded' = Uploaded /\ \A r \in Uploaded : Good(r)'
    BY <1>5, <2>3 DEF Uploaded, Good
  <2>5. Newest(watcher.step)' /\ Whole(local'[watcher'.step])
    BY <1>3, <1>6, <2>1, <2>2
  <2> QED BY <1>3, <1>4, <1>5, <2>2, <2>3, <2>4, <2>5 DEF UploadInv
<1>8. CASE PollNothing \/ PruneEnds \/ Refuse
  <2>1. watcher'.pc \in {"poll", "check", "done", "dead"}
    BY <1>3, <1>8 DEF PollNothing, PruneEnds, Refuse, WatcherType, AfterSync
  <2> QED BY <1>3, <1>4, <1>8, <2>1, UploadAlone DEF PollNothing, PruneEnds, Refuse, remoteVars
<1>9. CASE List
  <2>1. UNCHANGED <<remote, receipt, latest>> /\ watcher.pc = "list"
    BY <1>9 DEF List, remoteVars, Doing
  <2>2. watcher'.step = watcher.step
    BY <1>3, <1>9 DEF List, WatcherType
  <2>3. CASE watcher.step \in Uploaded
    <3>1. watcher'.pc = "point"
      BY <1>3, <1>9, <2>3 DEF List, WatcherType
    <3> QED BY <1>3, <1>4, <1>5, <2>1, <2>2, <2>3, <3>1 DEF UploadInv, Good, Uploaded
  <2>4. CASE watcher.step \notin Uploaded
    <3>1. watcher'.pc = "sync" /\ watcher'.tree = Summary(local[watcher.step])
      BY <1>3, <1>9, <2>4 DEF List, WatcherType
    <3>2. Newest(watcher.step) /\ Whole(local[watcher.step])
      BY <2>1, <2>4 DEF UploadInv
    <3>3. Uploaded' = Uploaded
      BY <2>1 DEF Uploaded
    <3>4. \A s \in Uploaded : Good(s)'
      BY <1>5, <2>1 DEF Good
    <3>5. Newest(watcher.step)' /\ Whole(local'[watcher'.step])
      BY <1>3, <1>6, <2>2, <3>2
    <3> QED BY <1>3, <1>4, <1>5, <2>1, <2>2, <2>4, <3>1, <3>3, <3>4, <3>5 DEF UploadInv
  <2> QED BY <2>3, <2>4
<1>10. CASE Sync
  <2> DEFINE w == watcher.step
  <2>1. watcher.pc = "sync" /\ UNCHANGED <<receipt, latest>>
        /\ remote' = [remote EXCEPT ![w] = local[w]]
    BY <1>10 DEF Sync, Doing
  <2>2. watcher'.pc = "mark" /\ watcher'.step = w /\ watcher'.tree = watcher.tree
    BY <1>3, <1>10 DEF Sync, WatcherType
  <2>3. w \in Steps
    BY <2>1, <1>3, StepsFacts DEF CellTypeOK, TransportTypeOK, WatcherType
  <2>4. w \notin Uploaded /\ Whole(local[w]) /\ watcher.tree = Summary(local[w])
    BY <2>1 DEF UploadInv
  <2>5. remote'[w] = local[w] /\ \A s \in Steps \ {w} : remote'[s] = remote[s]
    BY <2>1, <2>3 DEF CellTypeOK, TransportTypeOK
  <2>6. Uploaded' = Uploaded
    BY <2>1 DEF Uploaded
  <2>7. \A s \in Uploaded : Good(s)'
    BY <1>5, <2>1, <2>4, <2>5, UploadedFacts DEF Good
  <2> QED BY <1>4, <1>5, <2>1, <2>2, <2>4, <2>5, <2>6, <2>7 DEF UploadInv
<1>11. CASE Mark
  <2> DEFINE w == watcher.step
  <2>1. watcher.pc = "mark" /\ UNCHANGED <<remote, latest>>
        /\ receipt' = [receipt EXCEPT ![w] = watcher.tree]
    BY <1>11 DEF Mark, Doing
  <2>2. watcher'.pc = "point" /\ watcher'.step = w
    BY <1>3, <1>11 DEF Mark, WatcherType
  <2>3. w \in Steps /\ remote[w] \in TreeType
    BY <2>1, <1>3, StepsFacts DEF CellTypeOK, TransportTypeOK, WatcherType
  <2>4. Whole(remote[w]) /\ watcher.tree = Summary(remote[w])
    BY <2>1 DEF UploadInv
  <2>5. receipt'[w] = Summary(remote[w]) /\ \A s \in Steps \ {w} : receipt'[s] = receipt[s]
    BY <2>1, <2>3, <2>4 DEF CellTypeOK, TransportTypeOK
  <2>6. Uploaded' = Uploaded \cup {w}
    BY <2>3, <2>4, <2>5, UploadedFacts DEF Uploaded
  <2>7. \A s \in Uploaded' : Good(s)'
    BY <1>5, <2>1, <2>4, <2>5, <2>6, UploadedFacts DEF Good
  <2> QED BY <1>4, <1>5, <2>1, <2>2, <2>6, <2>7 DEF UploadInv
<1>12. CASE Point
  <2>1. watcher.pc = "point" /\ UNCHANGED <<remote, receipt>> /\ latest' = watcher.step
    BY <1>12 DEF Point, Doing
  <2>2. watcher'.pc = "prune" /\ watcher'.doomed = watcher.listed \ Keep
    BY <1>3, <1>12 DEF Point, WatcherType
  <2>3. watcher.step \in Uploaded /\ watcher.step \in Keep
    BY <2>1 DEF UploadInv, Keep, PointInv
  <2> QED BY <1>3, <1>4, <1>5, <2>1, <2>2, <2>3 DEF UploadInv, Good, Uploaded
<1>13. CASE Prune
  <2>1. PICK s \in watcher.doomed :
          /\ remote' = [remote EXCEPT ![s] = NoTree]
          /\ receipt' = [receipt EXCEPT ![s] = NoReceipt]
          /\ watcher' = [watcher EXCEPT !.doomed = @ \ {s}]
    BY <1>13 DEF Prune
  <2>2. s \in Steps /\ latest /= s /\ latest' = latest /\ watcher.pc = "prune"
    BY <1>3, <1>13, <2>1 DEF Prune, Doing, WatcherType, UploadInv
  <2>3. watcher'.pc = "prune" /\ watcher'.doomed = watcher.doomed \ {s}
    BY <1>3, <2>1, <2>2 DEF WatcherType
  <2>4. \A r \in Steps \ {s} : remote'[r] = remote[r] /\ receipt'[r] = receipt[r]
    BY <2>1 DEF CellTypeOK, TransportTypeOK
  <2>5. receipt'[s] = NoReceipt
    BY <2>1, <2>2 DEF CellTypeOK, TransportTypeOK
  <2>6. Uploaded' = Uploaded \ {s}
    BY <2>4, <2>5 DEF Uploaded
  <2>7. \A r \in Uploaded' : Good(r)'
    BY <1>5, <2>4, <2>6, UploadedFacts DEF Good
  <2>8. latest \notin watcher.doomed
    BY <2>2 DEF UploadInv
  <2> QED BY <1>4, <1>5, <2>2, <2>3, <2>6, <2>7, <2>8 DEF UploadInv
<1>14. CASE Check
  <2>1. watcher'.pc = "point" /\ watcher'.step = FinalStep /\ UNCHANGED <<remote, receipt, latest>>
    BY <1>3, <1>14 DEF Check, WatcherType, remoteVars
  <2>2. FinalStep \in Uploaded
    BY <1>14 DEF Check
  <2> QED BY <1>3, <1>4, <1>5, <2>1, <2>2 DEF UploadInv, Good, Uploaded
<1>15. CASE WatcherDies
  <2>1. watcher'.pc = "dead" /\ UNCHANGED <<receipt, latest>>
    BY <1>3, <1>15 DEF WatcherDies, WatcherType
  <2>2. CASE remote' = remote
    BY <1>3, <1>4, <2>1, <2>2, UploadAlone
  <2>3. CASE remote' /= remote
    <3>1. PICK t \in TreeType : remote' = [remote EXCEPT ![watcher.step] = t]
      BY <1>15, <2>3, TreeFacts DEF WatcherDies
    <3>2. watcher.step \notin Uploaded
      BY <1>15, <2>3 DEF WatcherDies, Doing, UploadInv
    <3>3. \A r \in Steps \ {watcher.step} : remote'[r] = remote[r]
      BY <3>1 DEF CellTypeOK, TransportTypeOK
    <3>4. Uploaded' = Uploaded
      BY <2>1 DEF Uploaded
    <3>5. \A r \in Uploaded : Good(r)'
      BY <1>5, <2>1, <3>2, <3>3, UploadedFacts DEF Good
    <3> QED BY <1>4, <1>5, <2>1, <3>4, <3>5 DEF UploadInv
  <2> QED BY <2>2, <2>3
<1> QED
  BY <1>4, <1>7, <1>8, <1>9, <1>10, <1>11, <1>12, <1>13, <1>14, <1>15 DEF WatcherStep, WatcherWorks

LEMMA TrainerUpload ==
  ASSUME CellTypeOK, PhaseInv, UploadInv, LocalInv, Prompt, TrainerStep
  PROVE  UploadInv' /\ LocalInv'
<1>1. sup = "train" /\ ~claimed /\ UNCHANGED <<sup, remote, receipt, latest, claimed, watcher>>
  BY DEF TrainerStep, TrainerSaves, TrainerRemoves, TrainerEnds, PhaseInv, cellVars, deployVars,
         transportVars, remoteVars
<1>2. Uploaded' = Uploaded /\ \A s \in Uploaded : Good(s) <=> Good(s)'
  BY <1>1 DEF Uploaded, Good
<1>3. \A s \in Steps : local[s]["marker"] /= 0 => local[s]["data"] \in {0, local[s]["marker"]}
  BY DEF LocalInv
<1>4. \A s \in Steps : Newest(s) => Whole(local[s])
  BY <1>1 DEF LocalInv, Before
<1>5. ASSUME watcher.pc \in {"list", "sync"}, watcher.step \notin Uploaded
      PROVE  watcher.step \in Steps /\ Newest(watcher.step)
  <2>1. watcher.step \in Steps
    BY <1>5, StepsFacts DEF CellTypeOK, TransportTypeOK, WatcherType
  <2> QED BY <1>5, <2>1 DEF UploadInv
<1>6. CASE TrainerSaves
  <2>1. PICK s \in Steps : /\ NextSave(s)
                           /\ \A r \in Steps : Newest(r) => r \in Uploaded
                           /\ local' = [local EXCEPT ![s] = WholeTree(training)]
    BY <1>6 DEF TrainerSaves
  <2>2. watcher.pc \in {"list", "sync"} => watcher.step \in Uploaded
    BY <1>5, <2>1
  <2>3. UploadInv'
    BY <1>1, <1>2, <2>2 DEF UploadInv
  <2>4. local'[s] = WholeTree(training) /\ \A r \in Steps \ {s} : local'[r] = local[r]
    BY <2>1 DEF CellTypeOK, TransportTypeOK
  <2>5. training /= 0
    BY <1>1 DEF PhaseInv
  <2>6. Whole(local'[s]) /\ local'[s]["data"] = local'[s]["marker"]
    BY <2>4, <2>5 DEF WholeTree, Whole, Parts
  <2>7. \A r \in CompleteSteps : r < s
    BY <2>1, CompleteFacts, StepsFacts DEF NextSave, Newest
  <2>8. \A r \in Steps : Newest(r)' => r = s
    <3>1. s \in CompleteSteps'
      BY <2>6 DEF CompleteSteps, Whole
    <3>2. \A r \in CompleteSteps' : r = s \/ r \in CompleteSteps
      BY <2>4 DEF CompleteSteps
    <3> QED BY <2>7, <3>1, <3>2, StepsFacts DEF Newest
  <2> QED BY <1>3, <2>3, <2>4, <2>6, <2>8 DEF LocalInv
<1>7. CASE TrainerRemoves
  <2>1. PICK s \in Steps, p \in Parts, q \in CompleteSteps :
           s < q /\ local' = [local EXCEPT ![s][p] = 0]
    BY <1>7 DEF TrainerRemoves
  <2>2. \A r \in Steps \ {s} : local'[r] = local[r]
    BY <2>1 DEF CellTypeOK, TransportTypeOK
  <2>3. \A x \in Parts : local'[s][x] \in {0, local[s][x]}
    BY <2>1 DEF CellTypeOK, TransportTypeOK, TreeType
  <2>4. CompleteSteps' \subseteq CompleteSteps /\ \A r \in CompleteSteps : r /= s => r \in CompleteSteps'
    BY <2>2, <2>3 DEF CompleteSteps, Parts
  <2>5. q \in Steps /\ q /= s
    BY <2>1, CompleteFacts, StepsFacts
  <2>6. ASSUME NEW r \in Steps, Newest(r)' PROVE r /= s /\ Newest(r)
    <3>1. q \in CompleteSteps' /\ q <= r /\ r \in CompleteSteps
      BY <2>4, <2>5, <2>6 DEF Newest
    <3>2. s < r
      BY <2>1, <2>5, <3>1, StepsFacts
    <3>3. \A x \in CompleteSteps : x <= r
      BY <2>4, <2>6, <3>2, CompleteFacts, StepsFacts DEF Newest
    <3> QED BY <3>1, <3>2, <3>3, StepsFacts DEF Newest
  <2>7. ASSUME NEW r \in Steps, Newest(r) PROVE r /= s /\ Newest(r)'
    <3>1. s < r
      BY <2>1, <2>5, <2>7, StepsFacts DEF Newest
    <3> QED BY <2>4, <2>7, <3>1, StepsFacts DEF Newest
  <2>8. \A r \in Steps : local'[r]["marker"] /= 0 => local'[r]["data"] \in {0, local'[r]["marker"]}
    BY <1>3, <2>2, <2>3 DEF Parts
  <2>9. \A r \in Steps : Newest(r)' => Whole(local'[r])
    BY <1>4, <2>2, <2>6
  <2>10. ASSUME watcher.pc \in {"list", "sync"}, watcher.step \notin Uploaded
         PROVE  Newest(watcher.step)' /\ local'[watcher.step] = local[watcher.step]
    BY <1>1, <1>5, <2>2, <2>7, <2>10
  <2>11. UploadInv'
    BY <1>1, <1>2, <2>10 DEF UploadInv
  <2> QED BY <2>8, <2>9, <2>11 DEF LocalInv
<1>8. CASE TrainerEnds
  <2>1. local' = local
    BY <1>8 DEF TrainerEnds, transportVars
  <2> QED BY <1>1, <2>1 DEF UploadInv, Good, Uploaded, LocalInv, Newest, CompleteSteps
<1> QED BY <1>6, <1>7, <1>8 DEF TrainerStep

LEMMA RestoreUpload ==
  ASSUME CellTypeOK, PhaseInv, UploadInv, LocalInv,
         RestoreNothing \/ RestoreCopy \/ RestoreCut \/ RestoreVerified
  PROVE  UploadInv' /\ LocalInv'
<1> USE PhaseFacts DEF remoteVars, deployVars
<1>1. watcher.pc = "off" /\ ~claimed /\ sup \in Before
  BY DEF RestoreNothing, RestoreCopy, RestoreCut, RestoreVerified, PhaseInv, Before
<1>2. watcher'.pc \in {"off", "poll"} /\ UNCHANGED <<remote, receipt, latest, claimed>>
  BY <1>1 DEF RestoreNothing, RestoreCopy, RestoreCut, RestoreVerified
<1>3. UploadInv'
  BY <1>2, UploadAlone
<1>4. \A s \in Uploaded : Good(s)
  BY <1>1 DEF UploadInv
<1>5. CASE RestoreNothing
  <2>1. UNCHANGED local /\ sup' = "train" /\ latest = 0
    BY <1>5 DEF RestoreNothing
  <2> QED BY <1>3, <2>1, StepsFacts DEF LocalInv, Newest, CompleteSteps, Before
<1>6. ASSUME sup' \in Before, latest \in Uploaded \ CompleteSteps, NEW t \in TreeType,
             t["marker"] /= 0 => t["data"] \in {0, t["marker"]},
             local' = [local EXCEPT ![latest] = t]
      PROVE  LocalInv'
  <2>1. latest \in Steps
    BY <1>6, UploadedFacts
  <2>2. local'[latest] = t /\ \A s \in Steps \ {latest} : local'[s] = local[s]
    BY <1>6, <2>1 DEF CellTypeOK, TransportTypeOK
  <2>3. ASSUME NEW s \in Steps, Newest(s)', s /= latest PROVE Newest(s)
    <3>1. s \in CompleteSteps /\ CompleteSteps \subseteq CompleteSteps'
      BY <1>6, <2>2, <2>3 DEF Newest, CompleteSteps
    <3> QED BY <2>3, <3>1 DEF Newest
  <2> QED BY <1>1, <1>2, <1>6, <2>2, <2>3 DEF LocalInv
<1>7. CASE RestoreCopy
  <2>1. CASE latest \in CompleteSteps
    BY <1>1, <1>2, <1>3, <1>7, <2>1 DEF RestoreCopy, LocalInv, Newest, CompleteSteps, Before
  <2>2. CASE latest \notin CompleteSteps
    <3>1. remote[latest] \in TreeType /\ Whole(remote[latest])
      BY <1>4, <1>7, UploadedFacts DEF RestoreCopy, Good, CellTypeOK, TransportTypeOK
    <3> QED BY <1>3, <1>6, <1>7, <2>2, <3>1 DEF RestoreCopy, Whole, Before
  <2> QED BY <2>1, <2>2
<1>8. CASE RestoreCut
  <2>1. PICK t \in Cut(NoTree, remote[latest]) : local' = [local EXCEPT ![latest] = t]
    BY <1>8 DEF RestoreCut
  <2>2. Whole(remote[latest]) /\ latest \in Uploaded \ CompleteSteps /\ sup' = "idle"
    BY <1>4, <1>8 DEF RestoreCut, Good
  <2>3. t \in TreeType /\ \A p \in Parts : t[p] \in {0, remote[latest][p]}
    BY <2>1 DEF Cut, NoTree
  <2>4. t["marker"] /= 0 => t["data"] \in {0, t["marker"]}
    BY <2>2, <2>3 DEF Whole, Parts
  <2> QED BY <1>3, <1>6, <2>1, <2>2, <2>3, <2>4 DEF Before
<1>9. CASE RestoreVerified
  <2>1. UNCHANGED local /\ latest \in CompleteSteps /\ Summary(local[latest]) = receipt[latest]
    BY <1>9 DEF RestoreVerified
  <2>2. latest \in Steps /\ latest \in Uploaded
    BY <1>1, <2>1, CompleteFacts, StepsFacts DEF UploadInv
  <2>3. Summary(local[latest]) = Summary(remote[latest]) /\ Whole(remote[latest])
    BY <1>4, <2>1, <2>2 DEF Good
  <2>4. local[latest]["marker"] /= 0 /\ local[latest]["data"] /= 0
    BY <2>3 DEF Summary, Whole
  <2>5. Whole(local[latest])
    BY <2>2, <2>4 DEF LocalInv, Whole
  <2> QED BY <1>3, <2>1, <2>5 DEF LocalInv, Newest, CompleteSteps
<1> QED BY <1>5, <1>7, <1>8, <1>9

LEMMA UploadStep ==
  ASSUME CellTypeOK, PhaseInv, PointInv, UploadInv, LocalInv, Prompt, WholeDeletes, [Next]_vars
  PROVE  UploadInv' /\ LocalInv'
<1> USE PhaseFacts DEF Exits, transportVars, deployVars, remoteVars
<1>1. ASSUME UNCHANGED <<local, remote, receipt, latest, claimed>>,
             watcher'.pc \notin {"list", "sync", "mark", "point", "prune"},
             sup \in Before => sup' \in Before
      PROVE  UploadInv' /\ LocalInv'
  <2>1. UploadInv'
    BY <1>1, UploadAlone
  <2>2. CompleteSteps' = CompleteSteps
    BY <1>1 DEF CompleteSteps
  <2> QED BY <1>1, <2>1, <2>2 DEF LocalInv, Newest
<1>2. CASE Start
  BY <1>1, <1>2 DEF Start, PhaseInv, Before
<1>3. CASE RestoreMismatch \/ WatcherLost \/ TrainingFailed \/ DeployRefused \/ DeployCollides
           \/ DeployCut \/ SealCollides \/ Dies
  BY <1>3, UploadByEnd, LocalByEnd DEF RestoreMismatch, WatcherLost, TrainingFailed, DeployRefused,
     DeployCollides, DeployCut, SealCollides, Dies
<1>4. CASE Clean
  BY <1>4, UploadByEnd, LocalByEnd DEF Clean, PhaseInv, Before
<1>5. CASE StopWatcher
  <2>1. watcher'.pc = watcher.pc /\ watcher'.step = watcher.step /\ watcher'.tree = watcher.tree
        /\ watcher'.doomed = watcher.doomed
    BY <1>5 DEF StopWatcher, CellTypeOK, TransportTypeOK, WatcherType
  <2>2. UNCHANGED <<local, remote, receipt, latest, claimed>> /\ sup \notin Before /\ sup' \notin Before
    BY <1>5 DEF StopWatcher, Before
  <2>3. Uploaded' = Uploaded /\ CompleteSteps' = CompleteSteps
    BY <2>2 DEF Uploaded, CompleteSteps
  <2>4. UploadInv'
    BY <2>1, <2>2, <2>3 DEF UploadInv, Good, Newest
  <2> QED BY <2>2, <2>3, <2>4 DEF LocalInv, Newest
<1>6. CASE FinalSync \/ Finalize
  BY <1>1, <1>6 DEF FinalSync, Finalize, Before
<1>7. CASE Finalized \/ DeployAgain \/ DeploySync \/ DeploySeal \/ Claim
  <2>1. watcher.pc = "done" /\ UNCHANGED <<local, remote, receipt, latest, watcher>>
        /\ sup \notin Before /\ sup' \notin Before
    BY <1>7 DEF Finalized, DeployAgain, DeploySync, DeploySeal, Claim, Doing, Turn, Sealing,
       NotSealed, PhaseInv, After, Before
  <2>2. LocalInv'
    BY <2>1 DEF LocalInv, Newest, CompleteSteps
  <2> QED BY <1>7, <2>1, <2>2 DEF UploadInv, Good, Uploaded, Finalized, DeployAgain, DeploySync,
       DeploySeal, Claim
<1>8. CASE UNCHANGED vars
  <2>1. UNCHANGED <<local, remote, receipt, latest, claimed, watcher, sup>>
    BY <1>8 DEF vars, cellVars
  <2>2. Uploaded' = Uploaded /\ CompleteSteps' = CompleteSteps
    BY <2>1 DEF Uploaded, CompleteSteps
  <2>3. UploadInv'
    BY <2>1, <2>2 DEF UploadInv, Good, Newest
  <2> QED BY <2>1, <2>2, <2>3 DEF LocalInv, Newest
<1> QED
  BY <1>2, <1>3, <1>4, <1>5, <1>6, <1>7, <1>8, RestoreUpload, TrainerUpload, WatcherUpload
  DEF Next, SupervisorStep

\* What holds of every upload, in every reachable state.
LEMMA UploadInvariant ==
  ASSUME Prompt, WholeDeletes
  PROVE  Spec => [](CellTypeOK /\ PhaseInv /\ PointInv /\ UploadInv /\ LocalInv)
<1> DEFINE PInv == PhaseInv /\ PointInv /\ UploadInv /\ LocalInv
<1>1. Init => PInv
  <2> SUFFICES ASSUME Init PROVE PInv
    OBVIOUS
  <2>1. PhaseInv /\ PointInv
    BY PhaseFacts DEF Init, TransportInit, PhaseInv, PointInv, Before, Running, After, Sending
  <2>2. UploadInv
    BY PhaseFacts DEF Init, TransportInit, UploadInv, Uploaded
  <2>3. \A s \in Steps : local[s]["marker"] = 0
    BY DEF Init, TransportInit, NoTree, Parts
  <2>4. LocalInv
    BY <2>3 DEF LocalInv, Newest, CompleteSteps
  <2> QED BY <2>1, <2>2, <2>4
<1>2. CellTypeOK /\ PInv /\ [Next]_vars => PInv'
  BY PhaseStep, PointStep, UploadStep
<1> HIDE DEF PInv
<1>3. Spec => [](CellTypeOK /\ PInv)
  BY <1>1, <1>2, CellTypeTheorem, PTL DEF Spec
<1> QED BY <1>3 DEF PInv

\* When an upload ends before the next save and a cut delete takes all or nothing,
\* the pointer names a whole step that agrees with its receipt.
THEOREM PointerTheorem == Prompt /\ WholeDeletes => (Spec => []PointerIsRestorable)
<1> SUFFICES ASSUME Prompt, WholeDeletes PROVE Spec => []PointerIsRestorable
  OBVIOUS
<1>1. UploadInv => PointerIsRestorable
  BY DEF UploadInv, Good, PointerIsRestorable
<1> QED BY <1>1, UploadInvariant, PTL

-----------------------------------------------------------------------------
(* Milestones, and retries that seal                                       *)

LEMMA EndsKeeps ==
  ASSUME NEW status, Ends(status), UNCHANGED <<remote, receipt, latest, claimed>>, RetainInv
  PROVE  RetainInv'
<1>1. CompleteSteps' \subseteq CompleteSteps /\ Uploaded' = Uploaded /\ watcher'.pc = "off"
  BY DEF Ends, CompleteSteps, Uploaded, NoTree, Parts, NoWatcher
<1> QED BY <1>1 DEF RetainInv

\* A step of the watcher takes no receipt of a step that is deployed later.
LEMMA WatcherRetains ==
  ASSUME CellTypeOK, PhaseInv, PointInv, RetainInv, WatcherStep
  PROVE  /\ RetainInv'
         /\ \A s \in DeploySteps : s \in Uploaded => s \in Uploaded' /\ receipt'[s] = receipt[s]
<1>1. watcher.pc \notin {"off", "done"} /\ watcher \in WatcherType
  BY DEF CellTypeOK, TransportTypeOK, WatcherStep, WatcherWorks, WatcherDies, Doing, Poll,
         PollNothing, List, Sync, Mark, Point, Prune, PruneEnds, Check, Refuse
<1>2. ~claimed /\ UNCHANGED <<claimed, local>> /\ CompleteSteps' = CompleteSteps
  BY <1>1, WatcherRuns DEF WatcherStep, WatcherWorks, WatcherDies, cellVars, deployVars,
     Poll, PollNothing, List, Sync, Mark, Point, Prune, PruneEnds, Check, Refuse, CompleteSteps
<1>3. \A s \in Success : s < latest \/ (\E r \in CompleteSteps : s < r) => s \in Uploaded
  BY <1>2 DEF RetainInv
<1>4. Success \subseteq DeploySteps /\ DeploySteps \subseteq Steps
  BY StepsFacts DEF DeploySteps
<1>5. SUFFICES
        /\ watcher'.pc = "prune" => watcher'.doomed \cap DeploySteps = {}
        /\ \A s \in DeploySteps : s \in Uploaded => receipt'[s] = receipt[s]
        /\ \A s \in Success : s < latest' => s \in Uploaded
  BY <1>2, <1>3, <1>4, UploadedFacts DEF RetainInv, Uploaded
<1>6. CASE Poll \/ PollNothing \/ List \/ Sync \/ Check \/ Refuse
  <2>1. UNCHANGED <<receipt, latest>>
    BY <1>6 DEF Poll, PollNothing, List, Sync, Check, Refuse, remoteVars
  <2>2. watcher'.pc /= "prune"
    BY <1>1, <1>6 DEF Poll, PollNothing, List, Sync, Check, Refuse, WatcherType, AfterSync
  <2> QED BY <1>3, <2>1, <2>2
<1>7. CASE Mark
  <2>1. watcher'.pc = "point" /\ latest' = latest /\ receipt[watcher.step] = NoReceipt
        /\ receipt' = [receipt EXCEPT ![watcher.step] = watcher.tree]
    BY <1>1, <1>7 DEF Mark, WatcherType
  <2>2. \A s \in Uploaded : receipt'[s] = receipt[s]
    BY <2>1, UploadedFacts DEF CellTypeOK, TransportTypeOK
  <2> QED BY <1>3, <2>1, <2>2
<1>8. CASE Point
  <2>1. watcher.pc = "point" /\ latest' = watcher.step /\ UNCHANGED receipt
        /\ watcher'.doomed = watcher.listed \ Keep
    BY <1>1, <1>8 DEF Point, Doing, WatcherType
  <2>2. DeploySteps \subseteq Keep
    BY MilestonesAssumption DEF DeploySteps, Keep
  <2>3. PICK r \in CompleteSteps : watcher.step <= r
    BY <2>1 DEF PointInv, Sending, Held
  <2>4. \A s \in Success : s < watcher.step => s < r
    BY <1>1, <1>4, <2>3, CompleteFacts, StepsFacts DEF WatcherType
  <2> QED BY <1>3, <2>1, <2>2, <2>3, <2>4
<1>9. CASE Prune
  <2>1. PICK d \in watcher.doomed :
          /\ receipt' = [receipt EXCEPT ![d] = NoReceipt]
          /\ watcher' = [watcher EXCEPT !.doomed = @ \ {d}]
    BY <1>9 DEF Prune
  <2>2. latest' = latest /\ watcher.doomed \cap DeploySteps = {}
    BY <1>9 DEF Prune, Doing, RetainInv
  <2>3. watcher'.doomed = watcher.doomed \ {d}
    BY <1>1, <2>1 DEF WatcherType
  <2>4. \A s \in DeploySteps : receipt'[s] = receipt[s]
    BY <1>4, <2>1, <2>2 DEF CellTypeOK, TransportTypeOK
  <2> QED BY <1>3, <2>2, <2>3, <2>4
<1>10. CASE PruneEnds
  <2>1. UNCHANGED <<receipt, latest>> /\ watcher'.pc /= "prune"
    BY <1>1, <1>10 DEF PruneEnds, remoteVars, WatcherType, AfterSync
  <2> QED BY <1>3, <2>1
<1>11. CASE WatcherDies
  <2>1. watcher'.pc = "dead" /\ latest' = latest
    BY <1>1, <1>11 DEF WatcherDies, WatcherType
  <2>2. CASE UNCHANGED receipt
    BY <1>3, <2>1, <2>2
  <2>3. CASE ~UNCHANGED receipt
    <3>1. PICK d \in watcher.doomed : \E m \in {receipt[d], NoReceipt} :
            receipt' = [receipt EXCEPT ![d] = m]
      BY <1>11, <2>3 DEF WatcherDies
    <3>2. d \notin DeploySteps
      BY <1>11, <2>3 DEF WatcherDies, Doing, RetainInv
    <3> QED BY <1>3, <1>4, <2>1, <3>1, <3>2 DEF CellTypeOK, TransportTypeOK
  <2> QED BY <2>2, <2>3
<1> QED BY <1>6, <1>7, <1>8, <1>9, <1>10, <1>11 DEF WatcherStep, WatcherWorks

LEMMA RetainStep ==
  ASSUME CellTypeOK, PhaseInv, PointInv, RetainInv, Prompt, [Next]_vars
  PROVE  RetainInv'
<1> USE PhaseFacts DEF transportVars, deployVars, remoteVars
<1>1. ASSUME UNCHANGED <<receipt, latest, claimed>>, CompleteSteps' \subseteq CompleteSteps,
             watcher'.pc = "prune" => watcher.pc = "prune" /\ watcher'.doomed = watcher.doomed
      PROVE  RetainInv'
  BY <1>1 DEF RetainInv, Uploaded
<1>2. CASE Start \/ RestoreNothing \/ RestoreVerified \/ StopWatcher \/ FinalSync \/ Finalize
           \/ Finalized \/ DeployAgain \/ DeploySync \/ DeploySeal \/ UNCHANGED vars
  <2>1. UNCHANGED <<local, receipt, latest, claimed>>
    BY <1>2 DEF Start, RestoreNothing, RestoreVerified, StopWatcher, FinalSync, Finalize,
       Finalized, DeployAgain, DeploySync, DeploySeal, vars
  <2>2. watcher'.pc = "prune" => watcher.pc = "prune" /\ watcher'.doomed = watcher.doomed
    BY <1>2 DEF Start, RestoreNothing, RestoreVerified, StopWatcher, FinalSync, Finalize,
       Finalized, DeployAgain, DeploySync, DeploySeal, vars, CellTypeOK, TransportTypeOK, WatcherType
  <2> QED BY <1>1, <2>1, <2>2 DEF CompleteSteps
<1>3. CASE RestoreMismatch \/ WatcherLost \/ TrainingFailed \/ DeployRefused \/ DeployCollides
           \/ DeployCut \/ SealCollides \/ Dies
  BY <1>3, EndsKeeps DEF RestoreMismatch, WatcherLost, TrainingFailed, DeployRefused,
     DeployCollides, DeployCut, SealCollides, Dies
<1>4. CASE Claim \/ Clean
  <2>1. claimed' /\ watcher'.pc /= "prune"
    BY <1>4 DEF Claim, Clean, Ends, PhaseInv, After
  <2> QED BY <2>1 DEF RetainInv
<1>5. CASE RestoreCopy \/ RestoreCut
  <2>1. UNCHANGED <<receipt, latest, claimed, watcher>> /\ latest \in Uploaded
    BY <1>5 DEF RestoreCopy, RestoreCut
  <2>2. CompleteSteps' \subseteq CompleteSteps \cup {latest}
    BY <1>5 DEF RestoreCopy, RestoreCut, CompleteSteps, CellTypeOK, TransportTypeOK
  <2> QED BY <2>1, <2>2 DEF RetainInv, Uploaded
<1>6. CASE TrainerSaves
  <2>1. PICK s \in Steps : NextSave(s) /\ local' = [local EXCEPT ![s] = WholeTree(training)]
    BY <1>6 DEF TrainerSaves
  <2>2. UNCHANGED <<receipt, latest, claimed, watcher>>
    BY <1>6 DEF TrainerSaves
  <2>3. CompleteSteps' \subseteq CompleteSteps \cup {s}
    BY <2>1 DEF CompleteSteps, CellTypeOK, TransportTypeOK
  <2>4. ~claimed => \A q \in Success : q < s => q \in Uploaded
    <3>1. SUFFICES ASSUME ~claimed, NEW q \in Success, q < s PROVE q \in Uploaded
      OBVIOUS
    <3>2. q \in Steps
      BY StepsFacts DEF DeploySteps
    <3>3. PICK r \in Steps : Newest(r) /\ s = r + 1
      BY <2>1, <3>1, <3>2, StepsFacts DEF NextSave, Steps
    <3>4. CASE q = r
      BY <1>6, <3>3, <3>4 DEF TrainerSaves
    <3>5. CASE q < r
      BY <3>1, <3>3, <3>5 DEF RetainInv, Newest
    <3> QED BY <3>1, <3>2, <3>3, <3>4, <3>5, StepsFacts
  <2> QED BY <2>2, <2>3, <2>4 DEF RetainInv, Uploaded
<1>7. CASE TrainerRemoves \/ TrainerEnds
  <2>1. UNCHANGED <<receipt, latest, claimed, watcher>>
    BY <1>7 DEF TrainerRemoves, TrainerEnds
  <2>2. CompleteSteps' \subseteq CompleteSteps
    <3>1. CASE TrainerRemoves
      <4>1. PICK s \in Steps, p \in Parts : local' = [local EXCEPT ![s][p] = 0]
        BY <3>1 DEF TrainerRemoves
      <4>2. \A r \in Steps : local'[r]["marker"] \in {0, local[r]["marker"]}
        BY <4>1 DEF CellTypeOK, TransportTypeOK, TreeType, Parts
      <4> QED BY <4>2, CompleteFacts DEF CompleteSteps
    <3>2. CASE TrainerEnds
      BY <3>2 DEF TrainerEnds, CompleteSteps
    <3> QED BY <1>7, <3>1, <3>2
  <2> QED BY <1>1, <2>1, <2>2
<1> QED
  BY <1>2, <1>3, <1>4, <1>5, <1>6, <1>7, WatcherRetains DEF Next, SupervisorStep, TrainerStep

LEMMA RetainInvariant ==
  ASSUME Prompt, WholeDeletes
  PROVE  Spec => []RetainInv
<1>1. Init => RetainInv
  <2> SUFFICES ASSUME Init PROVE RetainInv
    OBVIOUS
  <2>1. CompleteSteps = {} /\ latest = 0 /\ watcher.pc = "off"
    BY DEF Init, TransportInit, CompleteSteps, NoTree, Parts, NoWatcher
  <2>2. \A s \in Success : ~(s < 0)
    BY StepsFacts DEF DeploySteps, Steps
  <2> QED BY <2>1, <2>2 DEF RetainInv
<1>2. CellTypeOK /\ PhaseInv /\ PointInv /\ RetainInv /\ [Next]_vars => RetainInv'
  BY RetainStep
<1> QED BY <1>1, <1>2, UploadInvariant, PTL DEF Spec

\* Under the hypotheses of PointerTheorem: a required milestone that was passed is on
\* S3, whole and under its receipt, until completion is claimed.
THEOREM MilestoneTheorem == Prompt /\ WholeDeletes => (Spec => []MilestonesSurvive)
<1> SUFFICES ASSUME Prompt, WholeDeletes PROVE Spec => []MilestonesSurvive
  OBVIOUS
<1>1. UploadInv /\ RetainInv => MilestonesSurvive
  BY DEF UploadInv, RetainInv, MilestonesSurvive, Good
<1> QED BY <1>1, UploadInvariant, RetainInvariant, PTL

LEMMA AgreeByEnd ==
  ASSUME AgreeInv, NEW status \in Exits \ {"collision"}, Ends(status),
         UNCHANGED <<receipt, deployed, claimed>>
  PROVE  AgreeInv'
BY PhaseFacts DEF AgreeInv, Ends, RetryCanSeal, Uploaded

\* What the recipe path deploys is the training that the upload receipt names.
LEMMA SourceAgrees ==
  ASSUME CellTypeOK, UploadInv, LocalInv, ~claimed, Success /= {}, NEW s \in Steps, Deployable(s)
  PROVE  s \in Uploaded /\ Source(s)["data"] = receipt[s].marker
<1>1. s \in Uploaded /\ Exported(Source(s)) /\ Summary(Source(s)) = receipt[s] /\ Good(s)
  BY DEF Deployable, UploadInv
<1>2. Source(s)["marker"] = receipt[s].marker /\ Source(s)["data"] /= 0
  BY <1>1 DEF Summary, Exported
<1>3. CASE Source(s) = local[s]
  BY <1>1, <1>2, <1>3 DEF LocalInv, Exported
<1>4. CASE Source(s) = remote[s]
  BY <1>1, <1>2, <1>4 DEF Good, Whole
<1> QED BY <1>1, <1>3, <1>4 DEF Source

LEMMA AgreeStep ==
  ASSUME CellTypeOK, PhaseInv, PointInv, UploadInv, LocalInv, RetainInv, AgreeInv,
         Success /= {}, [Next]_vars
  PROVE  AgreeInv'
<1> USE PhaseFacts DEF transportVars, deployVars, remoteVars
<1>1. CASE Start \/ RestoreNothing \/ RestoreCopy \/ RestoreCut \/ RestoreVerified
           \/ StopWatcher \/ FinalSync \/ Finalize
  <2>1. sup' /= "seal" /\ exit' /= "collision" /\ UNCHANGED <<receipt, todo, deployed, claimed>>
    BY <1>1 DEF Start, RestoreNothing, RestoreCopy, RestoreCut, RestoreVerified, StopWatcher,
       FinalSync, Finalize, AgreeInv, RetryCanSeal
  <2> QED BY <2>1 DEF AgreeInv, RetryCanSeal, Uploaded
<1>2. CASE RestoreMismatch \/ WatcherLost \/ TrainingFailed \/ DeployRefused \/ DeployCut \/ Dies
  BY <1>2, AgreeByEnd DEF RestoreMismatch, WatcherLost, TrainingFailed, DeployRefused, DeployCut,
     Dies, Exits
<1>3. CASE Finalized
  BY <1>3 DEF Finalized, AgreeInv, RetryCanSeal, Uploaded
<1>4. CASE UNCHANGED vars
  BY <1>4 DEF vars, cellVars, AgreeInv, RetryCanSeal, Uploaded, Sealing, Deployable, Exported,
     Source, Summary
<1>5. CASE TrainerStep
  <2>1. sup = "train" /\ UNCHANGED <<sup, exit, todo, receipt, deployed, claimed>>
    BY <1>5 DEF TrainerStep, TrainerSaves, TrainerRemoves, TrainerEnds, PhaseInv, cellVars
  <2> QED BY <2>1 DEF AgreeInv, RetryCanSeal, Uploaded
<1>6. CASE WatcherStep
  <2>1. UNCHANGED <<sup, exit, todo, deployed, claimed>>
    BY <1>6 DEF WatcherStep, cellVars
  <2>2. sup /= "seal"
    BY <1>6, WatcherRuns DEF Running, WatcherStep, WatcherWorks, WatcherDies, Doing, Poll,
       PollNothing, List, Sync, Mark, Point, Prune, PruneEnds, Check, Refuse
  <2>3. \A s \in DeploySteps : s \in Uploaded => s \in Uploaded' /\ receipt'[s] = receipt[s]
    BY <1>6, WatcherRetains
  <2> QED BY <2>1, <2>2, <2>3, StepsFacts DEF AgreeInv, RetryCanSeal
<1>7. ASSUME NEW s \in Steps, Deployable(s), sup \in After \ {"clean"}
      PROVE  /\ s \in Uploaded /\ Source(s)["data"] = receipt[s].marker
             /\ deployed[s] \in {0, Source(s)["data"]}
  <2>1. ~claimed
    BY <1>7 DEF PhaseInv, After
  <2> QED BY <1>7, <2>1, SourceAgrees DEF AgreeInv
<1>8. CASE DeployCollides
  BY <1>7, <1>8 DEF DeployCollides, Turn, After
<1>9. CASE SealCollides
  <2>1. PICK s \in Steps : Sealing(s) /\ deployed[s] \notin {0, Source(s)["data"]}
    BY <1>9 DEF SealCollides
  <2>2. Deployable(s) /\ sup = "seal"
    BY <2>1 DEF AgreeInv, Sealing
  <2> QED BY <1>7, <2>1, <2>2 DEF After
<1>10. CASE DeployAgain
  BY <1>10 DEF DeployAgain, Turn, AgreeInv, RetryCanSeal, Uploaded
<1>11. CASE DeploySync
  <2>1. PICK s \in Steps : Turn(s) /\ Deployable(s)
    BY <1>11 DEF DeploySync, NotSealed
  <2>2. sup' = "seal" /\ UNCHANGED <<local, remote, receipt, exit, todo, deployed, claimed>>
    BY <1>11 DEF DeploySync
  <2>3. \A r \in Steps : Sealing(r)' => r = s
    BY <2>1, <2>2, LeastOne DEF Sealing, Turn
  <2>4. Deployable(s)'
    BY <2>1, <2>2 DEF Deployable, Exported, Source, Summary, Uploaded
  <2> QED BY <2>2, <2>3, <2>4 DEF AgreeInv, RetryCanSeal, Uploaded
<1>12. CASE DeploySeal
  <2>1. PICK s \in Steps : /\ Sealing(s) /\ deployed' = [deployed EXCEPT ![s] = Source(s)["data"]]
                           /\ todo' = todo \ {s} /\ sup' = "deploy"
                           /\ UNCHANGED <<receipt, exit, claimed>>
    BY <1>12 DEF DeploySeal
  <2>2. s \in DeploySteps /\ Deployable(s) /\ sup = "seal"
    BY <2>1 DEF AgreeInv, Sealing
  <2>3. s \in Uploaded /\ Source(s)["data"] = receipt[s].marker
    BY <1>7, <2>2 DEF After
  <2>4. deployed'[s] = receipt[s].marker /\ \A r \in Steps \ {s} : deployed'[r] = deployed[r]
    BY <2>1, <2>3 DEF CellTypeOK
  <2> QED BY <2>1, <2>2, <2>3, <2>4, StepsFacts DEF AgreeInv, RetryCanSeal, Uploaded
<1>13. CASE Claim \/ Clean
  <2>1. claimed' /\ sup' /= "seal" /\ exit' /= "collision" /\ UNCHANGED deployed
        /\ todo' \subseteq todo
    BY <1>13 DEF Claim, Clean, Ends, AgreeInv, RetryCanSeal, PhaseInv
  <2> QED BY <2>1 DEF AgreeInv, RetryCanSeal
<1> QED
  BY <1>1, <1>2, <1>3, <1>4, <1>5, <1>6, <1>8, <1>9, <1>10, <1>11, <1>12, <1>13
  DEF Next, SupervisorStep

LEMMA AgreeInvariant ==
  ASSUME Prompt, WholeDeletes, Success /= {}
  PROVE  Spec => []AgreeInv
<1>1. Init => AgreeInv
  BY DEF Init, AgreeInv, RetryCanSeal
<1>2. CellTypeOK /\ PhaseInv /\ PointInv /\ UploadInv /\ LocalInv /\ RetainInv /\ AgreeInv
      /\ [Next]_vars => AgreeInv'
  BY AgreeStep
<1> QED BY <1>1, <1>2, UploadInvariant, RetainInvariant, PTL DEF Spec

\* Under the same hypotheses, on the recipe path and even when reads of deploy
\* receipts fail: no retry finds a deploy receipt of another training.
THEOREM RetryTheorem == Prompt /\ WholeDeletes /\ Success /= {} => (Spec => []RetryCanSeal)
<1> SUFFICES ASSUME Prompt, WholeDeletes, Success /= {} PROVE Spec => []RetryCanSeal
  OBVIOUS
<1>1. AgreeInv => RetryCanSeal
  BY DEF AgreeInv
<1> QED BY <1>1, AgreeInvariant, PTL

\* Under the hypotheses of RetryTheorem a deploy receipt stands over the whole tree it
\* names also when an entry that cannot read it syncs once more.
THEOREM ResealTheorem == Prompt /\ WholeDeletes /\ Success /= {} => (Spec => []DeployIsSealed)
<1> SUFFICES ASSUME Prompt, WholeDeletes, Success /= {} PROVE Spec => []DeployIsSealed
  OBVIOUS
<1>1. PhaseInv /\ CellTypeOK /\ UploadInv /\ LocalInv /\ AgreeInv => SealsAlike
  <2> SUFFICES ASSUME CellTypeOK, PhaseInv, UploadInv, LocalInv, AgreeInv,
                      NEW s \in Steps, NotSealed(s)
               PROVE  deployed[s] \in {0, Source(s)["data"]}
    BY DEF SealsAlike
  <2>1. ~claimed /\ Deployable(s)
    BY DEF NotSealed, Turn, PhaseInv
  <2> QED BY <2>1, SourceAgrees DEF AgreeInv
<1>2. CellTypeOK /\ PhaseInv /\ UploadInv /\ LocalInv /\ AgreeInv /\ SealInv /\ [Next]_vars => SealInv'
  BY <1>1, SealStep
<1>3. SealInv => DeployIsSealed
  BY DEF SealInv
<1> QED BY <1>2, <1>3, SealInit, UploadInvariant, AgreeInvariant, PTL DEF Spec
=============================================================================
