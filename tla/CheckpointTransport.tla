-------------------------- MODULE CheckpointTransport --------------------------
(***************************************************************************)
(* Checkpoints on their way from a training node to S3 and back            *)
(* (robomme_integration/gpu/checkpoint_transport.py): step generations     *)
(* with a completion receipt each, the LATEST pointer, and the watcher     *)
(* that uploads, points and prunes.                                        *)
(*                                                                         *)
(* A step stands for one save of the trainer.  A tree is its two kinds of  *)
(* object, Orbax's completion marker and the data, each with the training  *)
(* that wrote it (0: absent): a step trained again has other bytes.  The   *)
(* watcher process is the only writer of the S3 run root, so a call of it  *)
(* is one step; a call that is cut short leaves any part of its work.      *)
(***************************************************************************)
EXTENDS Naturals

CONSTANTS
    FinalStep,      \* --final-step, as the ordinal of the last save
    Milestones,     \* --milestones, kept while training
    Success,        \* --success-milestones, required and kept after success
    MaxTrainings,   \* bound: attempts that may train
    WholeDeletes    \* a delete that is cut short took all of a step or nothing

ASSUME StepsAssumption == FinalStep \in Nat \ {0} /\ MaxTrainings \in Nat \ {0}
ASSUME MilestonesAssumption ==
    Milestones \subseteq 1..FinalStep /\ Success \subseteq Milestones
ASSUME DeletesAssumption == WholeDeletes \in BOOLEAN

VARIABLES
    local,          \* tree of each step on the node
    remote,         \* tree of each step under s3 steps/
    receipt,        \* _UPLOAD_COMPLETE.json of each step
    latest,         \* the step LATEST.json names, or 0
    watcher         \* the transport process: mode, pc and the locals of sync_once

remoteVars == <<remote, receipt, latest>>
transportVars == <<local, remote, receipt, latest, watcher>>

Steps == 1..FinalStep
Parts == {"marker", "data"}
TreeType == [Parts -> 0..MaxTrainings]
NoTree == [p \in Parts |-> 0]
WholeTree(g) == [p \in Parts |-> g]
Whole(t) == t["marker"] /= 0 /\ t["data"] = t["marker"]

\* complete_steps: only Orbax's marker is looked at.
CompleteSteps == {s \in Steps : local[s]["marker"] /= 0}
Newest(s) == s \in CompleteSteps /\ \A r \in CompleteSteps : r <= s

\* tree_summary: the files by name and size, and the bytes of the marker only.
ReceiptType == [marker : 0..MaxTrainings, data : BOOLEAN]
NoReceipt == [marker |-> 0, data |-> FALSE]
Summary(t) == [marker |-> t["marker"], data |-> t["data"] /= 0]
\* (mutant) A step counts as uploaded as soon as something is under its prefix.
UploadedByPrefix == {s \in Steps : remote[s] /= NoTree}
Uploaded == {s \in Steps : receipt[s] /= NoReceipt}

Modes == {"watch", "once", "finalize", "last"}
Pcs == {"off", "poll", "list", "sync", "mark", "point", "prune", "check", "done", "dead"}
WatcherType == [mode : Modes, pc : Pcs, step : 0..FinalStep, listed : SUBSET Steps,
                tree : ReceiptType, doomed : SUBSET Steps]
NoWatcher == [mode |-> "watch", pc |-> "off", step |-> 0, listed |-> {},
              tree |-> NoReceipt, doomed |-> {}]
Process(mode) == [NoWatcher EXCEPT !.mode = mode, !.pc = "poll"]

TransportInit ==
    /\ local = [s \in Steps |-> NoTree]
    /\ remote = [s \in Steps |-> NoTree]
    /\ receipt = [s \in Steps |-> NoReceipt]
    /\ latest = 0
    /\ watcher = NoWatcher

-----------------------------------------------------------------------------
Doing(pc) == watcher.pc = pc

\* Where sync_once returns to: --watch polls again, --once ends, and
\* finalize_success checks what is there.
AfterSync == CASE watcher.mode = "watch" -> "poll"
               [] watcher.mode = "finalize" -> "check"
               [] OTHER -> "done"

\* (mutant) Any complete step is taken for the newest.
PollAny ==
    /\ Doing("poll")
    /\ \E s \in CompleteSteps : watcher' = [watcher EXCEPT !.step = s, !.pc = "list"]
    /\ UNCHANGED <<local, remoteVars>>

Poll ==
    /\ Doing("poll")
    /\ \E s \in Steps : Newest(s) /\ watcher' = [watcher EXCEPT !.step = s, !.pc = "list"]
    /\ UNCHANGED <<local, remoteVars>>

PollNothing ==
    /\ Doing("poll") /\ CompleteSteps = {} /\ AfterSync /= "poll"
    /\ watcher' = [watcher EXCEPT !.pc = AfterSync]
    /\ UNCHANGED <<local, remoteVars>>

\* A step that has a receipt is taken as uploaded, whatever the node holds.  The
\* receipt of a new upload is computed before its bytes are sent, and is refused
\* without Orbax's marker.
List ==
    /\ Doing("list")
    /\ IF watcher.step \in Uploaded
       THEN watcher' = [watcher EXCEPT !.listed = Uploaded, !.pc = "point"]
       ELSE /\ watcher.step \in CompleteSteps
            /\ watcher' = [watcher EXCEPT !.listed = Uploaded, !.pc = "sync",
                                          !.tree = Summary(local[watcher.step])]
    /\ UNCHANGED <<local, remoteVars>>

Sync ==
    /\ Doing("sync") /\ local[watcher.step] /= NoTree
    /\ remote' = [remote EXCEPT ![watcher.step] = local[watcher.step]]
    /\ watcher' = [watcher EXCEPT !.pc = "mark"]
    /\ UNCHANGED <<local, receipt, latest>>

\* The receipt is create-once, and a put that answered too late is read back.
Mark ==
    /\ Doing("mark") /\ receipt[watcher.step] = NoReceipt
    /\ receipt' = [receipt EXCEPT ![watcher.step] = watcher.tree]
    /\ watcher' = [watcher EXCEPT !.pc = "point", !.listed = @ \cup {watcher.step}]
    /\ UNCHANGED <<local, remote, latest>>

\* (mutant) Milestones are not kept while training.
KeepNewest == IF watcher.mode = "last" THEN {FinalStep} \cup Success
              ELSE {watcher.step} \cup {FinalStep}
\* retention_set, and the stricter set of finalize_success.
Keep == IF watcher.mode = "last" THEN {FinalStep} \cup Success
        ELSE {watcher.step} \cup Milestones \cup {FinalStep}

Point ==
    /\ Doing("point")
    /\ latest' = watcher.step
    /\ watcher' = [watcher EXCEPT !.pc = "prune", !.doomed = watcher.listed \ Keep]
    /\ UNCHANGED <<local, remote, receipt>>

\* The generations that are not kept go one by one, oldest first.
Prune ==
    /\ Doing("prune")
    /\ \E s \in watcher.doomed :
          /\ \A r \in watcher.doomed : s <= r
          /\ remote' = [remote EXCEPT ![s] = NoTree]
          /\ receipt' = [receipt EXCEPT ![s] = NoReceipt]
          /\ watcher' = [watcher EXCEPT !.doomed = @ \ {s}]
    /\ UNCHANGED <<local, latest>>

PruneEnds ==
    /\ Doing("prune") /\ watcher.doomed = {}
    /\ watcher' = [watcher EXCEPT !.pc = AfterSync]
    /\ UNCHANGED <<local, remoteVars>>

\* finalize_success after its sync: the final step and every required milestone
\* must be there.
Check ==
    /\ Doing("check") /\ {FinalStep} \cup Success \subseteq Uploaded
    /\ watcher' = [watcher EXCEPT !.mode = "last", !.pc = "point",
                                  !.step = FinalStep, !.listed = Uploaded]
    /\ UNCHANGED <<local, remoteVars>>

\* A call fails for good or the process is killed: the sync or the delete it was
\* in has copied or removed any of its objects.
Cut(from, to) == {t \in TreeType : \A p \in Parts : t[p] \in {from[p], to[p]}}
WatcherDies ==
    /\ watcher.pc \notin {"off", "done", "dead"}
    /\ watcher' = [watcher EXCEPT !.pc = "dead"]
    /\ \/ UNCHANGED <<remote, receipt>>
       \/ /\ Doing("sync")
          /\ \E t \in Cut(remote[watcher.step], local[watcher.step]) :
                remote' = [remote EXCEPT ![watcher.step] = t]
          /\ UNCHANGED receipt
       \/ /\ Doing("prune") /\ ~WholeDeletes
          /\ \E s \in watcher.doomed :
                /\ \A r \in watcher.doomed : s <= r
                /\ \E t \in Cut(remote[s], NoTree) : remote' = [remote EXCEPT ![s] = t]
                /\ \E m \in {receipt[s], NoReceipt} : receipt' = [receipt EXCEPT ![s] = m]
    /\ UNCHANGED <<local, latest>>

\* There is nothing to send, or finalize_success misses a step.
Refuse ==
    /\ \/ Doing("list") /\ watcher.step \notin Uploaded \cup CompleteSteps
       \/ Doing("sync") /\ local[watcher.step] = NoTree
       \/ Doing("check") /\ ~({FinalStep} \cup Success \subseteq Uploaded)
    /\ watcher' = [watcher EXCEPT !.pc = "dead"]
    /\ UNCHANGED <<local, remoteVars>>

WatcherWorks ==
    \/ Poll \/ PollNothing \/ List \/ Sync \/ Mark \/ Point \/ Prune \/ PruneEnds
    \/ Check \/ Refuse

TransportTypeOK ==
    /\ local \in [Steps -> TreeType]
    /\ remote \in [Steps -> TreeType]
    /\ receipt \in [Steps -> ReceiptType]
    /\ latest \in 0..FinalStep
    /\ watcher \in WatcherType
    /\ watcher.pc \in {"list", "sync", "mark", "point"} => watcher.step /= 0
=============================================================================
