----------------------------- MODULE TrainCampaign -----------------------------
(***************************************************************************)
(* The training campaign (robomme_integration/campaign.py): one supervisor *)
(* on one node runs the sealed cells serially, each as a process group of  *)
(* its own (gpu_train_entry.sh), over the shared artifact cache of         *)
(* SharedArtifacts.  A later attempt starts on a fresh node.               *)
(***************************************************************************)
EXTENDS SharedArtifacts, Sequences

CONSTANTS
    Order,          \* the manifest's cells, in order
    Script,         \* the artifacts in the order the entry prepares them
    FailurePolicy,  \* "stop" or "continue"
    MaxAttempts,    \* bound: attempts submitted
    MaxMishaps      \* bound: faults of the environment, over all attempts

ASSUME CampaignAssumption ==
    /\ Order \in Seq(Cells) /\ \A c \in Cells : \E i \in DOMAIN Order : Order[i] = c
    /\ \A i, j \in DOMAIN Order : Order[i] = Order[j] => i = j
    /\ Script \in Seq(Artifacts)
    /\ FailurePolicy \in {"stop", "continue"}
    /\ MaxAttempts \in Nat /\ MaxMishaps \in Nat

VARIABLES
    group,          \* per cell: the entry script's progress and exit code
    tails,          \* cells whose trainer drains after the entry was killed
    work,           \* cells whose work tree is on the node
    sup,            \* the supervisor
    store,          \* the durable claims
    mishaps

campaignVars == <<group, tails, work, sup, store, mishaps>>
vars == <<cacheVars, campaignVars>>

Statuses == {"none", "skipped", "completed", "failed", "deferred"}
NoGroup == [phase |-> "none", at |-> 1, rc |-> 0]

CampaignInit ==
    /\ group = [c \in Cells |-> NoGroup] /\ tails = {} /\ work = {}
    /\ sup = [pc |-> "idle", attempt |-> 0, i |-> 1, signal |-> FALSE, overall |-> 0,
              status |-> [c \in Cells |-> "none"], exit |-> "none"]
    /\ store = [done |-> {}, results |-> {}, complete |-> 0]
    /\ mishaps = 0

Init == CacheInit /\ CampaignInit

CampaignTypeOK ==
    /\ CacheTypeOK
    /\ group \in [Cells -> [phase : {"none", "script", "training", "exited"},
                            at : 1..(Len(Script) + 1), rc : {0, 1}]]
    /\ tails \subseteq Cells /\ work \subseteq Cells
    /\ sup \in [pc : {"idle", "loop", "spawned", "waiting", "draining", "sealing", "completing"},
                attempt : 0..MaxAttempts, i : 1..(Len(Order) + 1), signal : BOOLEAN,
                overall : {0, 1}, status : [Cells -> Statuses],
                exit : {"none", "zero", "nonzero", "raised", "lost"}]
    /\ store \in [done : SUBSET Cells, results : SUBSET (1..MaxAttempts),
                  complete : 0..MaxAttempts]
    /\ mishaps \in 0..MaxMishaps

----------------------------------------------------------------------------
\* The cell's process group: the entry script, its background jobs, its trainer.
Running == {"script", "training"}
LeaderAlive(c) == group[c].phase \in Running
Alive(c) ==
    LeaderAlive(c) \/ c \in tails \/ \E a \in Artifacts : prep[c][a] \in Active

IsTree(a) == KindOf[a] = "tree"
Lost == {"failed", "spoiled", "blocked", "killed"}
Exit(c, rc) == [group EXCEPT ![c] = [@ EXCEPT !.phase = "exited", !.rc = rc]]

\* Directories are prepared in the background, blobs and the environment awaited.
ScriptStep(c) ==
    LET a == Script[group[c].at]
        next == [group EXCEPT ![c].at = @ + 1]
    IN  /\ group[c].phase = "script" /\ group[c].at <= Len(Script)
        /\ \/ /\ At(c, a, "idle")
              /\ Moves(c, a, "looking")
              /\ group' = IF IsTree(a) THEN next ELSE group
           \/ /\ At(c, a, "ready") /\ ~IsTree(a)
              /\ group' = next /\ UNCHANGED prep
           \/ /\ prep[c][a] \in Lost /\ ~IsTree(a)
              /\ group' = Exit(c, 1) /\ UNCHANGED prep
        /\ UNCHANGED <<body, mark, temps, tails, work, sup, store, mishaps>>

\* The entry waits for its background jobs in the order it started them.
Joins(c) ==
    /\ group[c].phase = "script" /\ group[c].at = Len(Script) + 1
    /\ LET trees == {i \in DOMAIN Script : IsTree(Script[i])}
           phase(i) == prep[c][Script[i]]
       IN  \/ /\ \A i \in trees : phase(i) = "ready"
              /\ group' = [group EXCEPT ![c].phase = "training"]
           \/ \E i \in trees :
              /\ phase(i) \in Lost /\ \A j \in trees : j < i => phase(j) = "ready"
              /\ group' = Exit(c, 1)
    /\ UNCHANGED <<cacheVars, tails, work, sup, store, mishaps>>

\* The trainer ends; the entry publishes or not, and reports or not.
TrainingEnds(c) ==
    /\ group[c].phase = "training"
    /\ \E published \in BOOLEAN, rc \in {0, 1} :
       /\ store' = IF published THEN [store EXCEPT !.done = @ \union {c}] ELSE store
       /\ group' = Exit(c, rc)
    /\ UNCHANGED <<cacheVars, tails, work, sup, mishaps>>

TailDrains(c) ==
    /\ c \in tails /\ tails' = tails \ {c}
    /\ UNCHANGED <<cacheVars, group, work, sup, store, mishaps>>

PrepareArtifact(c) ==
    /\ \E a \in Artifacts : Prepare(c, a)
    /\ UNCHANGED campaignVars

PreparerKilled(c) ==
    /\ mishaps < MaxMishaps /\ mishaps' = mishaps + 1
    /\ \E a \in Artifacts : Kill(c, a)
    /\ UNCHANGED <<group, tails, work, sup, store>>

GroupStep(c) ==
    \/ ScriptStep(c)
    \/ Joins(c)
    \/ TrainingEnds(c)
    \/ TailDrains(c)
    \/ PrepareArtifact(c)
    \/ PreparerKilled(c)

----------------------------------------------------------------------------
\* killpg: the script and the preparers die, the trainer's supervisor drains.
KillGroup(c) ==
    /\ prep' = [prep EXCEPT ![c] =
                  [a \in Artifacts |-> IF @[a] \in Active THEN "killed" ELSE @[a]]]
    /\ tails' = IF group[c].phase = "training" THEN tails \union {c} ELSE tails
    /\ group' = Exit(c, 1)
    /\ UNCHANGED <<body, mark, temps>>

SpareGroup == UNCHANGED <<cacheVars, group, tails>>

Current == Order[sup.i]
InLoop == sup.pc = "loop" /\ sup.i <= Len(Order)
Recorded(status) == [sup EXCEPT !.status[Current] = status]
Raise == [sup EXCEPT !.pc = "idle", !.exit = "raised"]

Launch ==
    /\ sup.pc = "idle" /\ sup.attempt < MaxAttempts
    /\ sup' = [pc |-> "loop", attempt |-> sup.attempt + 1, i |-> 1, signal |-> FALSE,
               overall |-> 0, status |-> [c \in Cells |-> "none"], exit |-> "none"]
    /\ body' = [a \in Artifacts |-> "absent"] /\ mark' = {} /\ temps' = {}
    /\ prep' = [c \in Cells |-> [a \in Artifacts |-> "idle"]]
    /\ group' = [c \in Cells |-> NoGroup] /\ tails' = {} /\ work' = {}
    /\ UNCHANGED <<store, mishaps>>

HeedSignal ==
    /\ InLoop /\ sup.signal
    /\ sup' = [sup EXCEPT !.overall = 1, !.pc = "sealing"]
    /\ UNCHANGED <<cacheVars, group, tails, work, store, mishaps>>

SkipExact ==
    /\ InLoop /\ ~sup.signal /\ Current \in store.done
    /\ sup' = [Recorded("skipped") EXCEPT !.i = @ + 1]
    /\ UNCHANGED <<cacheVars, group, tails, work, store, mishaps>>

Defer ==
    /\ InLoop /\ ~sup.signal /\ Current \notin store.done
    /\ sup' = [Recorded("deferred") EXCEPT !.pc = "sealing"]
    /\ UNCHANGED <<cacheVars, group, tails, work, store, mishaps>>

\* Low disk: the artifact cache goes too when the dependency cache is not enough.
Evicts ==
    /\ mishaps < MaxMishaps /\ mishaps' = mishaps + 1
    /\ EvictArtifacts

StartCell ==
    /\ InLoop /\ ~sup.signal /\ Current \notin store.done
    /\ \/ Evicts
       \/ UNCHANGED <<body, mark, temps, mishaps>>
    /\ sup' = [sup EXCEPT !.pc = "spawned"]
    /\ work' = work \union {Current}
    /\ group' = [group EXCEPT ![Current] = [NoGroup EXCEPT !.phase = "script"]]
    /\ UNCHANGED <<prep, tails, store>>

\* (mutant) The handle is published, a signal that came before it is not replayed.
PublishesHandleOnly ==
    /\ sup.pc = "spawned"
    /\ sup' = [sup EXCEPT !.pc = "waiting"]
    /\ SpareGroup
    /\ UNCHANGED <<work, store, mishaps>>

\* A signal received before the handle was published is replayed.
PublishesHandle ==
    /\ sup.pc = "spawned"
    /\ sup' = [sup EXCEPT !.pc = "waiting"]
    /\ IF sup.signal /\ LeaderAlive(Current) THEN KillGroup(Current) ELSE SpareGroup
    /\ UNCHANGED <<work, store, mishaps>>

\* The handler forwards to the group only while its leader runs; it is gone when
\* the loop is over.
Signal ==
    /\ sup.pc \in {"loop", "spawned", "waiting", "draining"} /\ ~sup.signal
    /\ sup' = [sup EXCEPT !.signal = TRUE]
    /\ IF sup.pc = "waiting" /\ LeaderAlive(Current) THEN KillGroup(Current) ELSE SpareGroup
    /\ UNCHANGED <<work, store, mishaps>>

LeaderReturns ==
    /\ sup.pc = "waiting" /\ ~LeaderAlive(Current)
    /\ sup' = [sup EXCEPT !.pc = "draining"]
    /\ UNCHANGED <<cacheVars, group, tails, work, store, mishaps>>

Failed ==
    [Recorded("failed") EXCEPT
        !.overall = 1,
        !.i = IF FailurePolicy = "stop" \/ sup.signal THEN @ ELSE @ + 1,
        !.pc = IF FailurePolicy = "stop" \/ sup.signal THEN "sealing" ELSE "loop"]

\* (mutant) The cell's exit code is believed without its durable claim.
DrainedUnverified ==
    /\ sup.pc = "draining" /\ ~Alive(Current)
    /\ sup' = IF group[Current].rc = 0
              THEN [Recorded("completed") EXCEPT !.i = @ + 1, !.pc = "loop"] ELSE Failed
    /\ work' = work \ {Current}
    /\ UNCHANGED <<cacheVars, group, tails, store, mishaps>>

\* (mutant) The work tree goes as soon as the leader has returned.
DrainedUnawaited ==
    /\ sup.pc = "draining"
    /\ sup' = IF group[Current].rc = 0 /\ Current \in store.done
              THEN [Recorded("completed") EXCEPT !.i = @ + 1, !.pc = "loop"] ELSE Failed
    /\ work' = work \ {Current}
    /\ UNCHANGED <<cacheVars, group, tails, store, mishaps>>

Drained ==
    /\ sup.pc = "draining" /\ ~Alive(Current)
    /\ sup' = IF group[Current].rc = 0 /\ Current \in store.done
              THEN [Recorded("completed") EXCEPT !.i = @ + 1, !.pc = "loop"] ELSE Failed
    /\ work' = work \ {Current}
    /\ UNCHANGED <<cacheVars, group, tails, store, mishaps>>

\* Reading back the claim fails: the cell counts as failed.
ClaimUnread ==
    /\ sup.pc = "draining" /\ ~Alive(Current) /\ group[Current].rc = 0
    /\ mishaps < MaxMishaps /\ mishaps' = mishaps + 1
    /\ sup' = Failed
    /\ work' = work \ {Current}
    /\ UNCHANGED <<cacheVars, group, tails, store>>

\* ChildProcessGroupNotDrained: the work tree is preserved.
DrainTimesOut ==
    /\ sup.pc = "draining" /\ Alive(Current)
    /\ sup' = Failed
    /\ UNCHANGED <<cacheVars, group, tails, work, store, mishaps>>

LoopEnds ==
    /\ sup.pc = "loop" /\ sup.i > Len(Order)
    /\ sup' = [sup EXCEPT !.pc = "sealing"]
    /\ UNCHANGED <<cacheVars, group, tails, work, store, mishaps>>

AllComplete == \A c \in Cells : sup.status[c] \in {"skipped", "completed"}
AnyDeferred == \E c \in Cells : sup.status[c] = "deferred"

\* (mutant) A deferred attempt is a success whatever failed before.
SealForgiving ==
    /\ sup.pc = "sealing"
    /\ store' = [store EXCEPT !.results = @ \union {sup.attempt}]
    /\ sup' = IF AllComplete THEN [sup EXCEPT !.pc = "completing"]
              ELSE [sup EXCEPT !.pc = "idle",
                      !.exit = IF AnyDeferred THEN "zero" ELSE "nonzero"]
    /\ UNCHANGED <<cacheVars, group, tails, work, mishaps>>

\* The attempt's result is published; a complete campaign goes on to its claim.
Seal ==
    /\ sup.pc = "sealing"
    /\ store' = [store EXCEPT !.results = @ \union {sup.attempt}]
    /\ sup' = IF AllComplete THEN [sup EXCEPT !.pc = "completing"]
              ELSE [sup EXCEPT !.pc = "idle",
                      !.exit = IF AnyDeferred /\ sup.overall = 0 THEN "zero" ELSE "nonzero"]
    /\ UNCHANGED <<cacheVars, group, tails, work, mishaps>>

\* The claim names the attempt's manifest: another attempt's claim collides.
Complete ==
    /\ sup.pc = "completing"
    /\ IF store.complete \in {0, sup.attempt}
       THEN store' = [store EXCEPT !.complete = sup.attempt]
            /\ sup' = [sup EXCEPT !.pc = "idle", !.exit = "zero"]
       ELSE sup' = Raise /\ UNCHANGED store
    /\ UNCHANGED <<cacheVars, group, tails, work, mishaps>>

\* A read or a put fails outside a cell; a put may have been applied.
StoreFails ==
    /\ mishaps < MaxMishaps /\ mishaps' = mishaps + 1
    /\ InLoop \/ sup.pc \in {"sealing", "completing"}
    /\ \/ UNCHANGED store
       \/ /\ sup.pc = "completing" /\ store.complete = 0
          /\ store' = [store EXCEPT !.complete = sup.attempt]
    /\ sup' = Raise
    /\ UNCHANGED <<cacheVars, group, tails, work>>

NodeLost ==
    /\ sup.pc # "idle" /\ mishaps < MaxMishaps /\ mishaps' = mishaps + 1
    /\ sup' = [sup EXCEPT !.pc = "idle", !.exit = "lost"]
    /\ group' = [c \in Cells |-> NoGroup] /\ tails' = {} /\ work' = {}
    /\ prep' = [c \in Cells |-> [a \in Artifacts |-> "idle"]]
    /\ UNCHANGED <<body, mark, temps, store>>

SupervisorStep ==
    \/ HeedSignal
    \/ SkipExact
    \/ Defer
    \/ StartCell
    \/ PublishesHandle
    \/ LeaderReturns
    \/ Drained
    \/ DrainTimesOut
    \/ LoopEnds
    \/ Seal
    \/ Complete

Next ==
    \/ Launch
    \/ SupervisorStep
    \/ Signal
    \/ ClaimUnread
    \/ StoreFails
    \/ NodeLost
    \/ \E c \in Cells : GroupStep(c)

Spec == Init /\ [][Next]_vars

\* The supervisor runs on; nothing is assumed of the cells.
FairSpec == Spec /\ WF_vars(SupervisorStep)
================================================================================
