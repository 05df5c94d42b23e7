--------------------------- MODULE ParallelCampaign ---------------------------
(***************************************************************************)
(* The parallel supervisor of one evaluation queue                         *)
(* (robomme_integration/eval/parallel_campaign.py, ParallelCampaignRunner):*)
(* scan the immutable claims, admit the host, run one worker thread per    *)
(* lane over every LaneCount-th cell, and turn what the lanes recorded     *)
(* into an exit status and, when everything is claimed, a completion claim.*)
(*                                                                         *)
(* The supervisor can be signalled (SIGTERM), killed and started again any *)
(* number of times; only the object store survives.  The put subprocess of *)
(* a killed supervisor runs in a session of its own: it may outlive the    *)
(* supervisor and land later.  At most MaxOrphans such puts are pending.   *)
(***************************************************************************)
EXTENDS CellTransaction, FiniteSets

CONSTANT MaxOrphans
ASSUME OrphanAssumption == MaxOrphans \in Nat
ASSUME ParallelAssumption == Parallel

VARIABLES
    manifest, completion,   \* queue-level claims in the store
    inflight,               \* <<cell, class>> claim puts of killed supervisors
    sup,                    \* phase of the supervisor's main thread
    exit,                   \* how the last supervisor run ended
    resume,                 \* the scan: "none", "complete" or a failure class
    lane, todo,             \* phase of each lane worker and its cells to go
    record,                 \* what the lanes recorded of each cell
    flags,                  \* resource, disk and deadline flags that are set
    clock                   \* run budget: ample, too low for a cell, expired

laneVars == <<lane, todo, record, flags>>
mainVars == <<manifest, completion, inflight, sup, exit, resume>>
vars == <<txVars, laneVars, mainVars, clock>>

LaneOf(c) == ((c - 1) % LaneCount) + 1
LaneCells(l) == {c \in Cells : LaneOf(c) = l}

SupPhases == {"idle", "running", "draining"}
Exits == {"none", "complete", "deferred", "halted", "blocked", "raised", "killed"}
LanePhases == {"off", "loop", "admitting", "done", "raised"}
Records == {"none", "complete", "failed", "deferred", "disk", "resource"}

\* (mutant) The scan does not look for a second claim.
ConflictUnchecked(c) == FALSE
Conflict(c) == c \in results /\ failures[c] /= "none"
\* (mutant) The scan reads result claims only.
ExistingResult(c) == IF c \in results THEN "complete" ELSE "none"
ExistingRecord(c) == IF c \in results THEN "complete" ELSE failures[c]
KnownSystemic(s) == {c \in Cells : s[c] \in SystemicClasses}

\* A lane that still has to evaluate: an unclaimed cell comes before any
\* terminal failure of its lane.
Active(l, s) ==
    \E c \in LaneCells(l) :
        /\ s[c] = "none"
        /\ \A d \in LaneCells(l) : d < c => s[d] = "complete"

\* What dies with the process: everything but the store.
Reset ==
    /\ tx' = [l \in Lanes |-> NoTx]
    /\ cancel' = FALSE
    /\ systemicCell' = NoCell
    /\ lane' = [l \in Lanes |-> "off"]
    /\ todo' = [l \in Lanes |-> LaneCells(l)]
    /\ record' = [c \in Cells |-> "none"]
    /\ flags' = {}
    /\ resume' = [c \in Cells |-> "none"]
    /\ clock' = "ample"
    /\ sup' = "idle"

Init ==
    /\ TxInit
    /\ manifest = FALSE /\ completion = FALSE /\ inflight = {}
    /\ sup = "idle" /\ exit = "none" /\ clock = "ample" /\ flags = {}
    /\ resume = [c \in Cells |-> "none"]
    /\ record = [c \in Cells |-> "none"]
    /\ lane = [l \in Lanes |-> "off"]
    /\ todo = [l \in Lanes |-> LaneCells(l)]

\* The run is over.  An archive that no stored or pending claim names can be
\* reached by nobody (its address is its content), so the model forgets it.
Named(a) == IF a[2] = "none" THEN a[1] \in results ELSE failures[a[1]] = a[2]
Return(status) ==
    /\ Reset
    /\ exit' = status
    /\ archives' = {a \in archives : Named(a) \/ a \in inflight'}
    /\ UNCHANGED <<results, failures>>

-----------------------------------------------------------------------------
(* The main thread before the lanes start.                                 *)

\* The completion fast path re-verifies every claim it names.
StartComplete ==
    /\ sup = "idle" /\ completion
    /\ UNCHANGED <<manifest, completion, inflight>>
    /\ Return(IF manifest /\ results = Cells THEN "complete" ELSE "raised")

\* A cell with both claims, a read that fails, or a manifest put that fails.
StartRaises ==
    /\ sup = "idle" /\ ~completion
    /\ manifest' \in {manifest, manifest \/ AmbiguousPuts}
    /\ UNCHANGED <<completion, inflight>>
    /\ Return("raised")

\* Leases or GPU admission are refused; needed only by an active lane.
StartBlocked ==
    /\ sup = "idle" /\ ~completion
    /\ \A c \in Cells : ~Conflict(c)
    /\ LET scan == [c \in Cells |-> ExistingRecord(c)]
       IN KnownSystemic(scan) = {} /\ \E l \in Lanes : Active(l, scan)
    /\ UNCHANGED <<manifest, completion, inflight>>
    /\ Return("blocked")

\* (mutant) The run is not cancelled before its lanes start.
StartLanesUncancelled ==
    /\ sup = "idle" /\ ~completion
    /\ \A c \in Cells : ~Conflict(c)
    /\ resume' = [c \in Cells |-> ExistingRecord(c)]
    /\ manifest' = TRUE
    /\ sup' = "running"
    /\ exit' = "none"
    /\ lane' = [l \in Lanes |-> "loop"]
    /\ UNCHANGED <<storeVars, signalVars, tx, todo, record, flags, completion,
                   inflight, clock>>

\* A known systemic failure cancels the run before its lanes start.
StartLanes ==
    /\ sup = "idle" /\ ~completion
    /\ \A c \in Cells : ~Conflict(c)
    /\ resume' = [c \in Cells |-> ExistingRecord(c)]
    /\ IF KnownSystemic(resume') = {}
       THEN UNCHANGED signalVars
       ELSE /\ cancel' = TRUE
            /\ \E c \in KnownSystemic(resume') :
                  /\ \A d \in KnownSystemic(resume') : c <= d
                  /\ systemicCell' = c
    /\ manifest' = TRUE
    /\ sup' = "running"
    /\ exit' = "none"
    /\ lane' = [l \in Lanes |-> "loop"]
    /\ UNCHANGED <<storeVars, tx, todo, record, flags, completion, inflight, clock>>

-----------------------------------------------------------------------------
(* A lane worker.                                                          *)
Looping(l) == sup \in {"running", "draining"} /\ lane[l] = "loop" /\ At(l, {"off"})
Admitting(l) == sup \in {"running", "draining"} /\ lane[l] = "admitting"
\* (mutant) A lane takes its cells in any order.
FirstInAnyOrder(l, c) == c \in todo[l]
First(l, c) == c \in todo[l] /\ \A d \in todo[l] : c <= d
Enter(l, phase) == lane' = [lane EXCEPT ![l] = phase]
Record(c, status) == record' = [record EXCEPT ![c] = status]

LaneStops(l) ==
    /\ Looping(l)
    /\ cancel \/ todo[l] = {}
    /\ Enter(l, "done")
    /\ UNCHANGED <<txVars, todo, record, flags, mainVars, clock>>

\* (mutant) A terminal failure is skipped like a result.
LaneResumesPast(l) == \E c \in Cells :
    /\ Looping(l) /\ ~cancel /\ First(l, c) /\ resume[c] /= "none"
    /\ Record(c, IF resume[c] = "complete" THEN "complete" ELSE "failed")
    /\ todo' = [todo EXCEPT ![l] = @ \ {c}]
    /\ UNCHANGED <<txVars, lane, flags, mainVars, clock>>

\* A claimed cell is recorded; a terminal failure ends the lane.
LaneResumes(l) == \E c \in Cells :
    /\ Looping(l) /\ ~cancel /\ First(l, c) /\ resume[c] /= "none"
    /\ IF resume[c] = "complete"
       THEN /\ Record(c, "complete")
            /\ todo' = [todo EXCEPT ![l] = @ \ {c}]
            /\ UNCHANGED <<lane, signalVars>>
       ELSE /\ Record(c, "failed")
            /\ Enter(l, "done")
            /\ IF resume[c] \in SystemicClasses THEN Signal(c)
                                                ELSE UNCHANGED signalVars
            /\ UNCHANGED todo
    /\ UNCHANGED <<storeVars, tx, flags, mainVars, clock>>

\* The cancel event was clear at the top of the loop; the disk, port-release
\* and GPU probes that follow take time, and it may be set meanwhile.
LaneProceeds(l) == \E c \in Cells :
    /\ Looping(l) /\ ~cancel /\ First(l, c) /\ resume[c] = "none"
    /\ IF clock = "ample"
       THEN Enter(l, "admitting") /\ UNCHANGED record
       ELSE Enter(l, "done") /\ Record(c, "deferred")
    /\ UNCHANGED <<txVars, todo, flags, mainVars, clock>>

LaneBlockedByDisk(l) == \E c \in Cells :
    /\ Admitting(l) /\ First(l, c)
    /\ Record(c, "disk")
    /\ Enter(l, "done")
    /\ flags' = flags \cup {"disk"}
    /\ cancel' = TRUE
    /\ UNCHANGED <<storeVars, tx, systemicCell, todo, mainVars, clock>>

\* The lane's cell takes systemicCell over whoever held it.
LaneNotAdmitted(l) == \E c \in Cells :
    /\ Admitting(l) /\ First(l, c)
    /\ Record(c, "resource")
    /\ Enter(l, "done")
    /\ flags' = flags \cup {"resource"}
    /\ systemicCell' = c
    /\ cancel' = TRUE
    /\ UNCHANGED <<storeVars, tx, todo, mainVars, clock>>

\* Any other error of the worker itself: a state file that cannot be written, a
\* GPU query that fails.  The main thread will see the exception.
LaneBreaks(l) ==
    /\ Looping(l) \/ Admitting(l)
    /\ Enter(l, "raised")
    /\ UNCHANGED <<txVars, todo, record, flags, mainVars, clock>>

LaneBegins(l) == \E c \in Cells :
    /\ Admitting(l) /\ First(l, c)
    /\ Begin(l, c)
    /\ Enter(l, "loop")
    /\ UNCHANGED <<todo, record, flags, mainVars, clock>>

LaneTxStep(l) ==
    /\ TxStep(l) \/ (clock = "expired" /\ ExceedDeadline(l))
    /\ UNCHANGED <<laneVars, mainVars, clock>>

\* How a lane leaves its transaction.
Leaves(l, outcome) ==
    /\ At(l, {outcome})
    /\ tx' = [tx EXCEPT ![l] = NoTx]
    /\ UNCHANGED <<storeVars, mainVars, clock>>

LaneCompletes(l) ==
    /\ Leaves(l, "complete")
    /\ Record(tx[l].cell, "complete")
    /\ todo' = [todo EXCEPT ![l] = @ \ {tx[l].cell}]
    /\ UNCHANGED <<signalVars, lane, flags>>

LaneFails(l) ==
    /\ Leaves(l, "failed")
    /\ Record(tx[l].cell, "failed")
    /\ Enter(l, "done")
    /\ IF tx[l].class \in SystemicClasses THEN Signal(tx[l].cell)
                                          ELSE UNCHANGED signalVars
    /\ UNCHANGED <<todo, flags>>

LaneMissesDeadline(l) ==
    /\ Leaves(l, "deadline")
    /\ Record(tx[l].cell, "deferred")
    /\ Enter(l, "done")
    /\ flags' = flags \cup {"deadline"}
    /\ cancel' = TRUE
    /\ UNCHANGED <<systemicCell, todo>>

\* Cancelled without a claim, or an exception that the main thread will see.
LaneLeaves(l) ==
    /\ \/ Leaves(l, "cancelled") /\ Enter(l, "done")
       \/ Leaves(l, "raised") /\ Enter(l, "raised")
    /\ UNCHANGED <<signalVars, todo, record, flags>>

LaneStep(l) ==
    \/ LaneStops(l) \/ LaneResumes(l) \/ LaneProceeds(l)
    \/ LaneBlockedByDisk(l) \/ LaneNotAdmitted(l) \/ LaneBreaks(l) \/ LaneBegins(l)
    \/ LaneTxStep(l)
    \/ LaneCompletes(l) \/ LaneFails(l) \/ LaneMissesDeadline(l) \/ LaneLeaves(l)

-----------------------------------------------------------------------------
(* The main thread while and after the lanes run.                          *)

\* A lane's exception, or SIGTERM in the main thread, cancels every lane.
Interrupt ==
    /\ sup = "running"
    /\ cancel' = TRUE
    /\ sup' = "draining"
    /\ UNCHANGED <<storeVars, tx, systemicCell, laneVars, manifest, completion,
                   inflight, exit, resume, clock>>
LaneRaised == (\E l \in Lanes : lane[l] = "raised") /\ Interrupt

\* (mutant) The drain waits for lanes that ended normally only.
DrainedWhenDone ==
    /\ sup = "draining"
    /\ \A l \in Lanes : lane[l] = "done"
    /\ UNCHANGED <<manifest, completion, inflight>>
    /\ Return("raised")

Drained ==
    /\ sup = "draining"
    /\ \A l \in Lanes : lane[l] \in {"done", "raised"}
    /\ UNCHANGED <<manifest, completion, inflight>>
    /\ Return("raised")

\* (mutant) The deadline is tested before the failures.
VerdictDeadlineFirst ==
    IF flags \cap {"resource", "disk"} /= {} THEN "blocked"
    ELSE IF "deadline" \in flags \/ \E c \in Cells : record[c] = "deferred"
    THEN "deferred"
    ELSE IF systemicCell /= NoCell \/ \E c \in Cells : record[c] = "failed"
    THEN "halted"
    ELSE IF \E c \in Cells : record[c] /= "complete" THEN "deferred"
    ELSE "complete"

\* The verdict over the flags and records, in the order the code tests them.
Verdict ==
    IF flags \cap {"resource", "disk"} /= {} THEN "blocked"
    ELSE IF systemicCell /= NoCell \/ \E c \in Cells : record[c] = "failed"
    THEN "halted"
    ELSE IF "deadline" \in flags \/ \E c \in Cells : record[c] /= "complete"
    THEN "deferred"
    ELSE "complete"

Joined == sup = "running" /\ \A l \in Lanes : lane[l] = "done"

Conclude ==
    /\ Joined /\ Verdict /= "complete"
    /\ UNCHANGED <<manifest, completion, inflight>>
    /\ Return(Verdict)

CompletionPut ==
    /\ Joined /\ Verdict = "complete"
    /\ completion' = TRUE
    /\ UNCHANGED <<manifest, inflight>>
    /\ Return("complete")

CompletionRaises ==
    /\ Joined /\ Verdict = "complete"
    /\ completion' \in {completion, AmbiguousPuts}
    /\ UNCHANGED <<manifest, inflight>>
    /\ Return("raised")

MainStep == LaneRaised \/ Drained \/ Conclude \/ CompletionPut \/ CompletionRaises
Start == StartComplete \/ StartRaises \/ StartBlocked \/ StartLanes

-----------------------------------------------------------------------------
(* The environment.                                                        *)

\* The budget is hours and a bookkeeping pass over claimed cells milliseconds:
\* time passes only while every lane is past its resumed cells.
Tick ==
    /\ sup \in {"running", "draining"} /\ clock /= "expired"
    /\ \A l \in Lanes : ~Looping(l)
    /\ clock' = IF clock = "ample" THEN "low" ELSE "expired"
    /\ UNCHANGED <<txVars, laneVars, mainVars>>

\* SIGKILL, or node loss or preemption, which leave no orphan.
Crash ==
    /\ sup /= "idle"
    /\ \E S \in SUBSET {<<tx[l].cell, tx[l].class>> :
                            l \in {m \in Lanes : At(m, {"claiming"})}} :
          /\ S /= {} => Cardinality(inflight \cup S) <= MaxOrphans
          /\ inflight' = inflight \cup S
    /\ Return("killed")
    /\ UNCHANGED <<manifest, completion>>

\* A pending put lands, or fails unseen.
OrphanEnds ==
    /\ \E p \in inflight :
          /\ StoreClaim(p[1], p[2]) \/ UNCHANGED storeVars
          /\ inflight' = inflight \ {p}
    /\ UNCHANGED <<tx, signalVars, laneVars, clock, manifest, completion, sup,
                   exit, resume>>

Next ==
    \/ Start \/ MainStep \/ Interrupt \/ Tick \/ Crash \/ OrphanEnds
    \/ \E l \in Lanes : LaneStep(l)

\* Threads run, S3 calls return, and an evaluator ends because its lane polls
\* the cancel event and the deadline.
Fairness == WF_vars(MainStep) /\ \A l \in Lanes : WF_vars(LaneStep(l))
Spec == Init /\ [][Next]_vars
FairSpec == Spec /\ Fairness
=============================================================================
