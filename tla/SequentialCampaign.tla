-------------------------- MODULE SequentialCampaign --------------------------
(***************************************************************************)
(* The sequential evaluation runner (robomme_integration/eval/campaign.py, *)
(* CampaignRunner.run): one cell at a time, in queue order, through the    *)
(* same transaction as a parallel lane but with no cancel event and no     *)
(* systemic callback.  A signal kills it; it is started again any number   *)
(* of times.  A put subprocess runs in a session of its own: it may        *)
(* outlive the SIGKILL of its runner and land in a later run.  At most     *)
(* MaxOrphans such puts are pending.                                       *)
(***************************************************************************)
EXTENDS CellTransaction, FiniteSets

CONSTANT MaxOrphans
ASSUME SequentialAssumption == ~Parallel /\ LaneCount = 1 /\ MaxOrphans \in Nat

VARIABLES
    manifest, completion,   \* queue-level claims in the store
    inflight,               \* <<cell, class>> claim puts of killed runs
    late,                   \* (history) cells whose claim such a put stored
    sup,                    \* "idle", "running" or in a cell's "transaction"
    exit,                   \* how the last run ended
    next                    \* the cell the loop is at

orphanVars == <<inflight, late>>
vars == <<txVars, manifest, completion, orphanVars, sup, exit, next>>
me == 1

Exits == {"none", "complete", "deferred", "halted", "blocked", "raised", "killed"}

Init ==
    /\ TxInit
    /\ manifest = FALSE /\ completion = FALSE /\ inflight = {} /\ late = {}
    /\ sup = "idle" /\ exit = "none" /\ next = 1

\* The process ends; only the store survives, and in it the archives that a
\* stored or pending claim names (the others have an address nobody knows).
Return(status) ==
    /\ tx' = [l \in Lanes |-> NoTx]
    /\ sup' = "idle" /\ next' = 1 /\ exit' = status
    /\ archives' = {a \in archives :
                      a \in inflight' \/ IF a[2] = "none" THEN a[1] \in results
                                                          ELSE failures[a[1]] = a[2]}
    /\ UNCHANGED <<results, failures, signalVars, late>>

\* The manifest is put once; an existing completion is verified claim by claim.
Start ==
    /\ sup = "idle"
    /\ manifest' = TRUE
    /\ UNCHANGED <<completion, inflight>>
    /\ IF completion
       THEN Return(IF results = Cells THEN "complete" ELSE "raised")
       ELSE /\ sup' = "running" /\ exit' = "none"
            /\ UNCHANGED <<txVars, next, late>>

StartRaises ==
    /\ sup = "idle"
    /\ manifest' \in {manifest, manifest \/ AmbiguousPuts}
    /\ UNCHANGED <<completion, inflight>>
    /\ Return("raised")

\* Too little budget for the next cell, or the disk floor, ends the run before
\* the cell's claims are read.
Defer ==
    /\ sup = "running" /\ next <= CellCount
    /\ UNCHANGED <<manifest, completion, inflight>>
    /\ Return("deferred") \/ Return("blocked")

\* The result claim is looked up first, and it alone decides to skip the cell.
SkipResult ==
    /\ sup = "running" /\ next <= CellCount /\ next \in results
    /\ next' = next + 1
    /\ UNCHANGED <<txVars, manifest, completion, orphanVars, sup, exit>>

\* (mutant) The loop goes on after a terminal failure.
PassFailure ==
    /\ sup = "running" /\ next <= CellCount /\ next \notin results
    /\ failures[next] /= "none"
    /\ next' = next + 1
    /\ UNCHANGED <<txVars, manifest, completion, orphanVars, sup, exit>>

HaltAtFailure ==
    /\ sup = "running" /\ next <= CellCount /\ next \notin results
    /\ failures[next] /= "none"
    /\ UNCHANGED <<manifest, completion, inflight>>
    /\ Return("halted")

\* (mutant) The failure claim is not looked up.
BeginCellUnchecked ==
    /\ sup = "running" /\ next <= CellCount /\ next \notin results
    /\ Begin(me, next)
    /\ sup' = "transaction"
    /\ UNCHANGED <<manifest, completion, orphanVars, exit, next>>

BeginCell ==
    /\ sup = "running" /\ next <= CellCount /\ next \notin results
    /\ failures[next] = "none"
    /\ Begin(me, next)
    /\ sup' = "transaction"
    /\ UNCHANGED <<manifest, completion, orphanVars, exit, next>>

CellStep ==
    /\ TxStep(me)
    /\ UNCHANGED <<manifest, completion, orphanVars, sup, exit, next>>

CellReturns ==
    /\ At(me, {"complete"})
    /\ tx' = [tx EXCEPT ![me] = NoTx]
    /\ sup' = "running" /\ next' = next + 1
    /\ UNCHANGED <<storeVars, signalVars, manifest, completion, orphanVars, exit>>

\* (mutant) An exception is reported like a terminal failure.
CellEndsRunHalted ==
    /\ At(me, {"failed", "raised"})
    /\ UNCHANGED <<manifest, completion, inflight>>
    /\ Return("halted")

CellEndsRun ==
    /\ UNCHANGED <<manifest, completion, inflight>>
    /\ \/ At(me, {"failed"}) /\ Return("halted")
       \/ At(me, {"raised"}) /\ Return("raised")

\* Every cell was skipped as complete or completed.
Complete ==
    /\ sup = "running" /\ next > CellCount
    /\ completion' = TRUE
    /\ UNCHANGED <<manifest, inflight>>
    /\ Return("complete")

CompleteRaises ==
    /\ sup = "running" /\ next > CellCount
    /\ completion' \in {completion, AmbiguousPuts}
    /\ UNCHANGED <<manifest, inflight>>
    /\ Return("raised")

\* A read fails in the loop, which ends its subprocess, or the process is
\* killed anywhere, which leaves the claim put under way to itself.
Dies ==
    /\ sup /= "idle"
    /\ UNCHANGED <<manifest, completion>>
    /\ \/ UNCHANGED inflight /\ (Return("raised") \/ Return("killed"))
       \/ /\ At(me, {"claiming"})
          /\ inflight' = inflight \cup {<<tx[me].cell, tx[me].class>>}
          /\ Cardinality(inflight') <= MaxOrphans
          /\ Return("killed")

\* The put of a killed run lands, or fails unseen.
OrphanEnds ==
    /\ \E p \in inflight :
          /\ inflight' = inflight \ {p}
          /\ \/ StoreClaim(p[1], p[2]) /\ late' = late \cup {p[1]}
             \/ UNCHANGED <<storeVars, late>>
    /\ UNCHANGED <<tx, signalVars, manifest, completion, sup, exit, next>>

RunStep ==
    \/ Defer \/ SkipResult \/ HaltAtFailure \/ BeginCell
    \/ CellStep \/ CellReturns \/ CellEndsRun \/ Complete \/ CompleteRaises
Next == Start \/ StartRaises \/ RunStep \/ Dies \/ OrphanEnds

Spec == Init /\ [][Next]_vars
\* S3 calls return and an evaluator ends (it bounds its own episodes).
FairSpec == Spec /\ WF_vars(RunStep)

-----------------------------------------------------------------------------
\* Every variable stays in its type.
SeqTypeOK ==
    /\ TxTypeOK
    /\ manifest \in BOOLEAN /\ completion \in BOOLEAN
    /\ inflight \subseteq Cells \X Kinds /\ late \subseteq Cells
    /\ sup \in {"idle", "running", "transaction"} /\ exit \in Exits
    /\ next \in 1..CellCount + 1

\* The claims are a prefix of the queue: results up to some cell, then at most
\* one terminal failure, then nothing ("halt the queue after any terminal
\* failure", EVAL_CAMPAIGN.md).  A claim that the put of a killed run stored late
\* can give its own cell a second claim and does nothing else: a cell that is
\* followed by a claim has its result, and a failure only if one of its claims
\* came late.
ClaimsArePrefix ==
    \A c, d \in Cells :
        d < c /\ (c \in results \/ failures[c] /= "none")
            => d \in results /\ (failures[d] = "none" \/ d \in late)

\* The exit status tells the truth about the store: 0 with "complete" only over
\* a full set of results and a stored completion claim, 2 only over a stored
\* failure claim.
ExitMatchesStore ==
    /\ exit = "complete" => completion /\ results = Cells
    /\ exit = "halted" => \E c \in Cells : failures[c] /= "none"

\* Every run ends.
SeqRunEnds == (sup /= "idle") ~> (sup = "idle")

\* The sequential runner implements the same claim ledger, with one lane, as long
\* as no put of a killed run has stored a claim late.  After one the ledger's
\* promises do not hold: a late result beside a failure lets the next run pass it.
Ledger == INSTANCE ClaimLedger WITH
    ledger <- [c \in Cells |->
                 CASE failures[c] \in SystemicClasses -> "systemic"
                   [] failures[c] \in {"transient", "unclassified"} -> "failure"
                   [] failures[c] = "none" /\ c \in results -> "result"
                   [] OTHER -> "open"],
    closed <- completion
SeqImplementsLedger ==
    Ledger!LedgerInit /\ [][late' = {} => Ledger!LedgerNext]_(Ledger!ledgerVars)
=============================================================================
