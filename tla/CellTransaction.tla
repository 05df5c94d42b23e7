---------------------------- MODULE CellTransaction ----------------------------
(***************************************************************************)
(* One cell of an evaluation queue: stage the checkpoint, run the          *)
(* evaluator, retry the allowlisted transients, publish evidence and then  *)
(* exactly one immutable claim (robomme_integration/eval/campaign.py,      *)
(* CampaignRunner.run_cell_transaction and Fixed50Artifacts).              *)
(*                                                                         *)
(* The sequential and the parallel supervisor share this transaction; a    *)
(* lane is whoever runs it.  Parallel says that a cancel event and a       *)
(* systemic callback were handed in.  The object store is S3 behind        *)
(* conditional puts: a put can fail, and with AmbiguousPuts it can fail    *)
(* after the object was stored.                                            *)
(***************************************************************************)
EXTENDS Naturals

CONSTANTS
    CellCount,      \* cells of the queue, by ordinal
    LaneCount,      \* lanes of the topology; 1 for the sequential runner
    MaxAttempts,    \* queue["retry"]["max_attempts"]
    Parallel,       \* a cancel event and a systemic callback are given
    AmbiguousPuts   \* a put may store its object and still raise

ASSUME CountsAssumption ==
    CellCount \in Nat \ {0} /\ LaneCount \in Nat \ {0} /\ MaxAttempts \in Nat \ {0}
ASSUME ModesAssumption == Parallel \in BOOLEAN /\ AmbiguousPuts \in BOOLEAN

VARIABLES
    results,        \* cells whose result claim is stored
    failures,       \* class in the stored failure claim of each cell, or "none"
    archives,       \* evidence archives stored, as <<cell, class>>
    tx,             \* the transaction each lane is in
    cancel,         \* the campaign-wide cancel event
    systemicCell    \* the cell that owns the systemic claim, or NoCell

storeVars == <<results, failures, archives>>
signalVars == <<cancel, systemicCell>>
txVars == <<results, failures, archives, tx, cancel, systemicCell>>

Cells == 1..CellCount
Lanes == 1..LaneCount
NoCell == 0

\* Failure classes; "transient" stands for every allowlisted retry class.
SystemicClasses == {"gpu_resource_exhausted", "control_plane_or_identity"}
Classes == {"transient", "unclassified"} \cup SystemicClasses
Kinds == {"none"} \cup Classes      \* "none" is the class of a success

Outcomes == {"complete", "failed", "cancelled", "deadline", "raised"}
Phases == {"off", "staging", "evaluating", "archiving", "claiming", "erring"}
            \cup Outcomes

NoTx == [pc |-> "off", cell |-> NoCell, attempt |-> 0, class |-> "none"]
NewTx(c) == [pc |-> "staging", cell |-> c, attempt |-> 0, class |-> "none"]
TxType == [pc : Phases, cell : Cells \cup {NoCell}, attempt : 0..MaxAttempts,
           class : Kinds]

TxInit ==
    /\ results = {}
    /\ failures = [c \in Cells |-> "none"]
    /\ archives = {}
    /\ tx = [l \in Lanes |-> NoTx]
    /\ cancel = FALSE
    /\ systemicCell = NoCell

Cancelled == Parallel /\ cancel

At(l, phases) == tx[l].pc \in phases
Goto(l, phase) == tx' = [tx EXCEPT ![l].pc = phase]
Publish(l, class) ==
    tx' = [tx EXCEPT ![l] = [@ EXCEPT !.pc = "archiving", !.class = class]]

\* The systemic callback, atomic under the supervisor's lock: the first
\* caller owns the claim, and every call cancels the peers.
\* (mutant) A lane does not ask whether another one owns the systemic claim.
OwnsAlways == TRUE
Owns == ~Parallel \/ systemicCell = NoCell
Signal(c) ==
    IF Parallel
    THEN /\ cancel' = TRUE
         /\ systemicCell' = IF systemicCell = NoCell THEN c ELSE systemicCell
    ELSE UNCHANGED signalVars

-----------------------------------------------------------------------------
Begin(l, c) ==
    /\ At(l, {"off"})
    /\ tx' = [tx EXCEPT ![l] = NewTx(c)]
    /\ UNCHANGED <<storeVars, signalVars>>

\* Checkpoint and workspace are staged and the cancel event is still clear.
Stage(l) ==
    /\ At(l, {"staging"}) /\ ~Cancelled
    /\ tx' = [tx EXCEPT ![l] = [@ EXCEPT !.pc = "evaluating", !.attempt = 1]]
    /\ UNCHANGED <<storeVars, signalVars>>

\* A staging error, or an unreadable output of an evaluator that returned 0:
\* neither is an EvaluationFailure, so both reach the outer handler.
PreparationRaises(l) ==
    /\ At(l, {"staging", "evaluating"})
    /\ Goto(l, "erring")
    /\ UNCHANGED <<storeVars, signalVars>>

\* Cooperative cancellation drains the lane's processes and claims nothing;
\* when the drain cannot be proved, the exception leaves the transaction.
Withdraw(l) ==
    /\ At(l, {"staging", "evaluating"}) /\ Cancelled
    /\ Goto(l, "cancelled") \/ Goto(l, "raised")
    /\ UNCHANGED <<storeVars, signalVars>>

\* The node deadline passed while the evaluator ran; cancellation is polled first.
ExceedDeadline(l) ==
    /\ At(l, {"evaluating"}) /\ Parallel /\ ~Cancelled
    /\ Goto(l, "deadline") \/ Goto(l, "raised")
    /\ UNCHANGED <<storeVars, signalVars>>

EvaluationPasses(l) ==
    /\ At(l, {"evaluating"}) /\ ~Cancelled
    /\ Publish(l, "none")
    /\ UNCHANGED <<storeVars, signalVars>>

\* (mutant) Off by one at the retry limit.
RetryableOnceMore(l, class) == class = "transient" /\ tx[l].attempt <= MaxAttempts
Retryable(l, class) == class = "transient" /\ tx[l].attempt < MaxAttempts

\* (mutant) A failure is published without looking at the cancel event.
EvaluationFailsUncancelled(l, class) ==
    /\ At(l, {"evaluating"})
    /\ class \in {"transient", "unclassified"}
    /\ \/ Retryable(l, class) /\ tx' = [tx EXCEPT ![l].attempt = @ + 1]
       \/ ~Retryable(l, class) /\ Publish(l, class)
    /\ UNCHANGED <<storeVars, signalVars>>

\* A failed evaluation or audit that no systemic marker names: cancelled peers
\* claim nothing, a transient is retried while attempts are left, anything else
\* is terminal.
EvaluationFails(l, class) ==
    /\ At(l, {"evaluating"})
    /\ class \in {"transient", "unclassified"}
    /\ \/ Cancelled /\ Goto(l, "cancelled")
       \/ ~Cancelled /\ Retryable(l, class) /\ tx' = [tx EXCEPT ![l].attempt = @ + 1]
       \/ ~Cancelled /\ ~Retryable(l, class) /\ Publish(l, class)
    /\ UNCHANGED <<storeVars, signalVars>>

\* A failure that is unsafe for every lane is never retried, and its lane
\* claims it only when no other lane already owns the systemic claim.  Between
\* the callback and the publication a local file may fail to be written.
EvaluationFailsSystemically(l) ==
    /\ At(l, {"evaluating"})
    /\ \/ Owns /\ Publish(l, "gpu_resource_exhausted")
       \/ Owns /\ Goto(l, "erring")
       \/ ~Owns /\ Goto(l, "cancelled")
    /\ Signal(tx[l].cell)
    /\ UNCHANGED storeVars

-----------------------------------------------------------------------------
\* What a put of this lane stores.  A claim key takes its first object only.
StoreArchive(l) ==
    /\ archives' = archives \cup {<<tx[l].cell, tx[l].class>>}
    /\ UNCHANGED <<results, failures>>
StoreClaim(c, class) ==
    /\ IF class = "none"
       THEN /\ c \notin results
            /\ results' = results \cup {c}
            /\ UNCHANGED failures
       ELSE /\ failures[c] = "none"
            /\ failures' = [failures EXCEPT ![c] = class]
            /\ UNCHANGED results
    /\ UNCHANGED archives
Store(l) ==
    IF At(l, {"archiving"}) THEN StoreArchive(l)
                            ELSE StoreClaim(tx[l].cell, tx[l].class)

\* (mutant) The claim is put without waiting for its archive.
PutArchiveUnconfirmed(l) ==
    /\ At(l, {"archiving"})
    /\ Goto(l, "claiming")
    /\ UNCHANGED <<storeVars, signalVars>>

PutArchive(l) ==
    /\ At(l, {"archiving"})
    /\ StoreArchive(l)
    /\ Goto(l, "claiming")
    /\ UNCHANGED signalVars

\* (mutant) The lane goes on without knowing whether the put succeeded.
PutClaimUnconfirmed(l) ==
    /\ At(l, {"claiming"})
    /\ StoreClaim(tx[l].cell, tx[l].class) \/ UNCHANGED storeVars
    /\ Goto(l, IF tx[l].class = "none" THEN "complete" ELSE "failed")
    /\ UNCHANGED signalVars

PutClaim(l) ==
    /\ At(l, {"claiming"})
    /\ StoreClaim(tx[l].cell, tx[l].class)
    /\ Goto(l, IF tx[l].class = "none" THEN "complete" ELSE "failed")
    /\ UNCHANGED signalVars

\* The put or its read-back fails, or the key holds other bytes.  The failure
\* publication of the outer handler is the last one: its error escapes.
PutRaises(l) ==
    /\ At(l, {"archiving", "claiming"})
    /\ UNCHANGED storeVars \/ (AmbiguousPuts /\ Store(l))
    /\ Goto(l, IF tx[l].class = "control_plane_or_identity" THEN "raised"
                                                            ELSE "erring")
    /\ UNCHANGED signalVars

\* (mutant) Any other error stages the cell again.
HandleErrorRestages(l) ==
    /\ At(l, {"erring"})
    /\ Goto(l, "staging")
    /\ UNCHANGED <<storeVars, signalVars>>

\* The outer handler turns any other error into a control-plane failure, unless
\* the campaign is already cancelled or another lane owns the claim.  A second
\* failure publication in the same work tree stops at its existing evidence
\* directory (mkdir) before it reaches the store.
HandleError(l) ==
    /\ At(l, {"erring"})
    /\ \/ Cancelled /\ Goto(l, "cancelled") /\ UNCHANGED signalVars
       \/ ~Cancelled /\ ~Owns /\ Goto(l, "cancelled") /\ Signal(tx[l].cell)
       \/ /\ ~Cancelled /\ Owns /\ Signal(tx[l].cell)
          /\ IF tx[l].class = "none" THEN Publish(l, "control_plane_or_identity")
                                     ELSE Goto(l, "raised")
    /\ UNCHANGED storeVars

\* The cell's work tree cannot be wiped or created: before the transaction, or
\* in its finally clause, where the error replaces the outcome.
WorkTreeFails(l) ==
    /\ At(l, {"staging"} \cup Outcomes) /\ ~At(l, {"raised"})
    /\ Goto(l, "raised")
    /\ UNCHANGED <<storeVars, signalVars>>

TxStep(l) ==
    \/ WorkTreeFails(l)
    \/ Stage(l) \/ PreparationRaises(l) \/ Withdraw(l)
    \/ EvaluationPasses(l) \/ EvaluationFailsSystemically(l)
    \/ \E class \in Classes : EvaluationFails(l, class)
    \/ PutArchive(l) \/ PutClaim(l) \/ PutRaises(l) \/ HandleError(l)

TxTypeOK ==
    /\ results \subseteq Cells
    /\ failures \in [Cells -> Kinds]
    /\ archives \subseteq Cells \X Kinds
    /\ tx \in [Lanes -> TxType]
    /\ \A l \in Lanes : tx[l].pc /= "off" => tx[l].cell \in Cells
    /\ cancel \in BOOLEAN
    /\ systemicCell \in Cells \cup {NoCell}
=============================================================================
