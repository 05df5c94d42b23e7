------------------------------ MODULE ClaimLedger ------------------------------
(***************************************************************************)
(* What an evaluation queue promises, without supervisors, threads, puts   *)
(* or restarts: each cell is claimed at most once, as a result or as a     *)
(* failure; a lane claims its cells in queue order and stops at a failure; *)
(* one systemic failure at most is ever claimed; and the queue is closed   *)
(* only over results.                                                      *)
(***************************************************************************)
EXTENDS Naturals

CONSTANTS CellCount, LaneCount      \* as in CellTransaction

VARIABLES ledger, closed
ledgerVars == <<ledger, closed>>

LedgerCells == 1..CellCount
SameLane(c, d) == (c - 1) % LaneCount = (d - 1) % LaneCount

LedgerInit ==
    /\ ledger = [c \in LedgerCells |-> "open"]
    /\ closed = FALSE

Claimable(c) ==
    /\ ledger[c] = "open"
    /\ \A d \in LedgerCells : d < c /\ SameLane(c, d) => ledger[d] = "result"

ClaimResult(c) ==
    /\ Claimable(c)
    /\ ledger' = [ledger EXCEPT ![c] = "result"]
    /\ UNCHANGED closed

ClaimFailure(c) ==
    /\ Claimable(c)
    /\ ledger' = [ledger EXCEPT ![c] = "failure"]
    /\ UNCHANGED closed

ClaimSystemic(c) ==
    /\ Claimable(c)
    /\ \A d \in LedgerCells : ledger[d] /= "systemic"
    /\ ledger' = [ledger EXCEPT ![c] = "systemic"]
    /\ UNCHANGED closed

Close ==
    /\ ~closed
    /\ \A c \in LedgerCells : ledger[c] = "result"
    /\ closed' = TRUE
    /\ UNCHANGED ledger

LedgerNext ==
    \/ Close
    \/ \E c \in LedgerCells : ClaimResult(c) \/ ClaimFailure(c) \/ ClaimSystemic(c)

LedgerSpec == LedgerInit /\ [][LedgerNext]_ledgerVars
=============================================================================
