------------------------- MODULE ParallelCampaignProps -------------------------
(***************************************************************************)
(* What the parallel evaluation campaign must do, over ParallelCampaign.   *)
(***************************************************************************)
EXTENDS ParallelCampaign

\* Every variable stays in its type: claims name queue cells, an open
\* transaction has a cell, and it never counts past max_attempts.
TypeOK ==
    /\ TxTypeOK
    /\ manifest \in BOOLEAN /\ completion \in BOOLEAN
    /\ inflight \subseteq Cells \X Kinds
    /\ sup \in SupPhases /\ exit \in Exits
    /\ resume \in [Cells -> {"complete"} \cup Kinds]
    /\ lane \in [Lanes -> LanePhases]
    /\ todo \in [Lanes -> SUBSET Cells]
    /\ record \in [Cells -> Records]
    /\ flags \subseteq {"resource", "disk", "deadline"}
    /\ clock \in {"ample", "low", "expired"}

\* A cell never holds a result claim and a failure claim at once, whatever
\* crashes, signals and restarts happen (run_cell_transaction's docstring: one
\* "content-addressed result or failure claim per original queue cell").
ExclusiveClaims == \A c \in Cells : ~Conflict(c)

\* However many lanes meet a systemic failure at the same time, and however
\* often the supervisor restarts, one cell at most carries a systemic claim.
OneSystemicClaim ==
    \A c, d \in Cells :
        failures[c] \in SystemicClasses /\ failures[d] \in SystemicClasses => c = d

\* A lane claims its cells in queue order: a claimed cell has only results
\* before it in its lane, so nothing is evaluated past a terminal failure.
LaneOrder ==
    \A c, d \in Cells :
        /\ LaneOf(c) = LaneOf(d) /\ d < c
        /\ c \in results \/ failures[c] /= "none"
        => d \in results /\ failures[d] = "none"

\* Evidence is durable before the claim that names it, at every crash point.
EvidenceBacksClaims ==
    /\ \A c \in results : <<c, "none">> \in archives
    /\ \A c \in Cells : failures[c] /= "none" => <<c, failures[c]>> \in archives

\* The completion fast path accepts a stored completion in every later run: the
\* manifest, every result and the evidence of each are stored, even while the
\* puts of killed supervisors still land.
CompletionReverifies ==
    completion => /\ manifest
                  /\ results = Cells
                  /\ \A c \in Cells : <<c, "none">> \in archives

\* No completion claim over a queue with a terminal failure (EVAL_CAMPAIGN.md:
\* "No queue completion receipt is published for that partial campaign").
NoCompletionOverFailure ==
    completion => \A c \in Cells : failures[c] = "none"

\* Exit status 0 is never returned over a terminal failure, and "complete"
\* only with the completion claim stored.
ExitZeroIsHonest ==
    /\ exit = "complete" => completion
    /\ exit = "deferred" => \A c \in Cells : failures[c] = "none"

\* Once the campaign is cancelled a lane starts to publish a failure only as
\* the owner of the systemic claim (EvaluatorCancelled "must never mint a
\* failure claim").
OnlyTheOwnerPublishesAfterCancel ==
    [][\A l \in Lanes :
         /\ cancel /\ tx[l].pc /= "archiving"
         /\ tx[l]'.pc = "archiving" /\ tx[l]'.class /= "none"
         => tx[l]'.class \in SystemicClasses /\ systemicCell' = tx[l].cell]_vars

\* A run whose scan saw a systemic failure claims nothing more.
KnownSystemicHaltsQueue ==
    [][sup /= "idle" /\ KnownSystemic(resume) /= {}
         => UNCHANGED <<results, failures, completion>>]_vars

\* Every started run ends: lanes drain after a cancel, a deadline or a lane's
\* exception, and the main thread never waits for a lane that is gone.
RunEnds == (sup /= "idle") ~> (sup = "idle")

\* The campaign implements the claim ledger.
Ledger == INSTANCE ClaimLedger WITH
    ledger <- [c \in Cells |->
                 CASE failures[c] \in SystemicClasses -> "systemic"
                   [] failures[c] \in {"transient", "unclassified"} -> "failure"
                   [] failures[c] = "none" /\ c \in results -> "result"
                   [] OTHER -> "open"],
    closed <- completion
ImplementsLedger == Ledger!LedgerSpec
=============================================================================
