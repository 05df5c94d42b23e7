----------------------- MODULE SequentialCampaignProofs -----------------------
(***************************************************************************)
(* Proofs about SequentialCampaign for every queue size and retry limit:   *)
(* its types, its exit status, the order of its claims, that it implements *)
(* ClaimLedger, and that no run goes on for ever; also for any number of   *)
(* puts that outlive their run.                                            *)
(***************************************************************************)
EXTENDS SequentialCampaign, CellTransactionProofs

-----------------------------------------------------------------------------
(* The inductive invariants.                                               *)

\* The types, and that the one open transaction is on the cell the loop
\* is at.
TypeInv ==
    /\ SeqTypeOK
    /\ InTx(me) <=> sup = "transaction"
    /\ InTx(me) => tx[me].cell = next

\* Where the loop stands: every cell before it has its result, and so has every
\* cell before one whose claim a killed run may still put; a transaction that
\* ended has its claim.
LoopInv ==
    /\ sup = "idle" => next = 1
    /\ sup /= "idle" => /\ ~completion /\ exit = "none"
                        /\ \A c \in Cells : c < next => c \in results
    /\ \A p \in inflight : \A c \in Cells : c < p[1] => c \in results
    /\ tx[me].pc = "complete" => tx[me].cell \in results
    /\ tx[me].pc = "failed" => failures[tx[me].cell] /= "none"

\* With puts that answer what they did a cell holds one claim at most, and the
\* cell of an open transaction none before its own put, unless a claim came late.
ClaimInv ==
    /\ ClaimsArePrefix
    /\ \A c \in Cells : c \in results => failures[c] = "none" \/ c \in late
    /\ tx[me].pc \in BeforeClaim => Unclaimed(tx[me].cell) \/ tx[me].cell \in late

-----------------------------------------------------------------------------
USE DEF Cells, NoCell, Kinds, Classes, SystemicClasses, Outcomes, Phases

LEMMA OneLane == Lanes = {me} /\ me \in Lanes /\ CellCount \in Nat \ {0}
BY SequentialAssumption, CountsAssumption DEF Lanes, me

-----------------------------------------------------------------------------
(* Types.                                                                  *)

LEMMA ReturnTyped ==
  ASSUME SeqTypeOK, NEW st \in Exits, Return(st)
  PROVE  /\ TxTypeOK' /\ ~InTx(me)'
         /\ sup' = "idle" /\ exit' = st /\ next' = 1 /\ late' = late
<1>1. tx' \in [Lanes -> TxType] /\ \A l \in Lanes : tx'[l].pc = "off"
  BY NoTxTyped DEF Return, NoTx
<1>2. archives' \subseteq Cells \X Kinds
  BY DEF Return, SeqTypeOK, TxTypeOK
<1> QED BY <1>1, <1>2, OneLane DEF Return, SeqTypeOK, TxTypeOK, signalVars, InTx

\* A pending put is of a cell and a class, and only a kill adds one.
LEMMA PendingTyped ==
  ASSUME SeqTypeOK, Next
  PROVE  /\ inflight' \subseteq Cells \X Kinds
         /\ \/ inflight' \subseteq inflight
            \/ /\ Dies /\ At(me, {"claiming"})
               /\ inflight' = inflight \cup {<<tx[me].cell, tx[me].class>>}
<1>1. At(me, {"claiming"}) => <<tx[me].cell, tx[me].class>> \in Cells \X Kinds
  BY OneLane DEF SeqTypeOK, TxTypeOK, TxType, At
<1>2. CASE Dies
  BY <1>1, <1>2 DEF Dies, SeqTypeOK
<1>3. CASE ~Dies
  <2>1. inflight' \subseteq inflight
    BY <1>3 DEF Next, RunStep, Start, StartRaises, Defer, SkipResult, HaltAtFailure,
       BeginCell, CellStep, CellReturns, CellEndsRun, Complete, CompleteRaises,
       OrphanEnds, orphanVars
  <2> QED BY <2>1 DEF SeqTypeOK
<1> QED BY <1>2, <1>3

\* The put of a killed run lands: a claim is stored late, and nothing else changes.
Lands == \E p \in inflight : StoreClaim(p[1], p[2]) /\ late' = late \cup {p[1]}

\* Every way a run ends.
Ended == \E st \in Exits : Return(st)

LEMMA EndingSteps ==
  ASSUME StartRaises \/ Defer \/ HaltAtFailure \/ CellEndsRun \/ Complete
         \/ CompleteRaises \/ Dies
  PROVE  Ended
BY DEF StartRaises, Defer, HaltAtFailure, CellEndsRun, Complete, CompleteRaises, Dies,
       Ended, Exits

LEMMA ReturnKeeps ==
  ASSUME TypeInv, Ended, manifest' \in BOOLEAN, completion' \in BOOLEAN,
         inflight' \subseteq Cells \X Kinds
  PROVE  TypeInv'
<1>1. PICK st \in Exits : Return(st)
  BY DEF Ended
<1>2. SeqTypeOK
  BY DEF TypeInv
<1>3. /\ TxTypeOK' /\ ~InTx(me)'
      /\ sup' = "idle" /\ exit' = st /\ next' = 1 /\ late' = late
  BY <1>1, <1>2, ReturnTyped
<1>4. late' \subseteq Cells /\ next' \in 1..CellCount + 1
  BY <1>2, <1>3, OneLane DEF SeqTypeOK
<1> QED BY <1>3, <1>4 DEF TypeInv, SeqTypeOK

LEMMA BeginTyped ==
  ASSUME SeqTypeOK, BeginCell
  PROVE  TxTypeOK'
<1>1. next \in Cells
  BY OneLane DEF BeginCell, SeqTypeOK
<1>2. NewTx(next) \in TxType
  BY <1>1, CountsAssumption DEF NewTx, TxType
<1> QED BY <1>1, <1>2 DEF BeginCell, Begin, SeqTypeOK, TxTypeOK, NewTx, storeVars, signalVars

LEMMA TypeInvariant == Spec => []TypeInv
<1>1. Init => TypeInv
  <2> SUFFICES ASSUME Init PROVE TypeInv
    OBVIOUS
  <2>1. TxTypeOK
    BY NoTxTyped DEF Init, TxInit, TxTypeOK, NoTx
  <2>2. 1 \in 1..CellCount + 1
    BY OneLane
  <2>3. ~InTx(me)
    BY OneLane DEF Init, TxInit, NoTx, InTx
  <2> QED BY <2>1, <2>2, <2>3 DEF Init, TypeInv, SeqTypeOK, Exits
<1>2. TypeInv /\ [Next]_vars => TypeInv'
  <2> SUFFICES ASSUME TypeInv, [Next]_vars PROVE TypeInv'
    OBVIOUS
  <2>0. /\ SeqTypeOK
        /\ InTx(me) <=> sup = "transaction"
        /\ InTx(me) => tx[me].cell = next
    BY DEF TypeInv
  <2> USE OneLane, <2>0 DEF TypeInv
  <2>1. CASE Start
    <3>1. CASE ~completion
      BY <2>1, <3>1 DEF Start, SeqTypeOK, TxTypeOK, txVars, Exits, InTx
    <3>2. CASE completion
      <4>1. Ended
        BY <2>1, <3>2 DEF Start, Exits, Ended
      <4>2. manifest' \in BOOLEAN /\ completion' \in BOOLEAN /\ inflight' \subseteq Cells \X Kinds
        BY <2>1 DEF Start, SeqTypeOK
      <4> QED BY <4>1, <4>2, ReturnKeeps
    <3> QED BY <3>1, <3>2
  <2>2. CASE StartRaises \/ Defer \/ HaltAtFailure \/ CellEndsRun \/ Complete
             \/ CompleteRaises \/ Dies
    <3>0. inflight' \subseteq Cells \X Kinds
      BY <2>2, PendingTyped DEF Next, RunStep
    <3>1. manifest' \in BOOLEAN /\ completion' \in BOOLEAN
      BY <2>2, ModesAssumption
         DEF StartRaises, Defer, HaltAtFailure, CellEndsRun, Complete, CompleteRaises,
             Dies, SeqTypeOK
    <3> QED BY <2>2, <3>0, <3>1, EndingSteps, ReturnKeeps DEF Ended
  <2>3. CASE SkipResult
    BY <2>3 DEF SkipResult, SeqTypeOK, TxTypeOK, txVars, orphanVars, InTx
  <2>4. CASE BeginCell
    <3>1. tx'[me].cell = next /\ InTx(me)'
      BY <2>4 DEF BeginCell, Begin, SeqTypeOK, TxTypeOK, NewTx, InTx
    <3> QED BY <2>4, <3>1, BeginTyped DEF BeginCell, SeqTypeOK, orphanVars
  <2>5. CASE CellStep
    <3>1. TxTypeOK /\ TxStep(me) /\ UNCHANGED <<manifest, completion, inflight, late, sup, exit, next>>
      BY <2>5 DEF CellStep, SeqTypeOK, orphanVars
    <3>2. TxTypeOK'
      BY <3>1, TxStepTyped
    <3>3. InTx(me) /\ tx'[me].pc /= "off" /\ tx'[me].cell = tx[me].cell
      BY <3>1, TxFrame
    <3> QED BY <3>1, <3>2, <3>3 DEF SeqTypeOK, InTx
  <2>6. CASE CellReturns
    <3>1. TxTypeOK'
      BY <2>6, NoTxTyped DEF CellReturns, SeqTypeOK, TxTypeOK, NoTx, storeVars, signalVars
    <3>2. tx[me].cell = next /\ tx[me].cell \in Cells
      BY <2>6 DEF CellReturns, At, InTx, SeqTypeOK, TxTypeOK
    <3>3. next + 1 \in 1..CellCount + 1
      BY <3>2
    <3>4. ~InTx(me)'
      BY <2>6 DEF CellReturns, NoTx, InTx, SeqTypeOK, TxTypeOK
    <3> QED BY <2>6, <3>1, <3>3, <3>4 DEF CellReturns, SeqTypeOK, orphanVars
  <2>7. CASE UNCHANGED vars
    BY <2>7 DEF vars, SeqTypeOK, TxTypeOK, txVars, orphanVars, InTx
  <2>8. CASE OrphanEnds
    <3>1. PICK p \in inflight : /\ inflight' = inflight \ {p}
                                /\ \/ StoreClaim(p[1], p[2]) /\ late' = late \cup {p[1]}
                                   \/ UNCHANGED <<storeVars, late>>
      BY <2>8 DEF OrphanEnds
    <3>2. p[1] \in Cells /\ p[2] \in Kinds
      BY DEF SeqTypeOK
    <3>3. /\ results' \subseteq Cells /\ failures' \in [Cells -> Kinds]
          /\ archives' \subseteq Cells \X Kinds
      BY <3>1, <3>2, StoreClaimTyped DEF SeqTypeOK, TxTypeOK, storeVars
    <3> QED BY <2>8, <3>1, <3>2, <3>3 DEF OrphanEnds, SeqTypeOK, TxTypeOK, signalVars, InTx
  <2> QED BY <2>1, <2>2, <2>3, <2>4, <2>5, <2>6, <2>7, <2>8 DEF Next, RunStep
<1> QED BY <1>1, <1>2, PTL DEF Spec

\* Every variable stays in its type, whatever fails and however often the
\* runner is killed and started again.
THEOREM SeqTypeTheorem == Spec => []SeqTypeOK
BY TypeInvariant, PTL DEF TypeInv

-----------------------------------------------------------------------------
(* The exit status.                                                        *)

\* A transaction's step stores no more than the claim it puts, and ends on it.
LEMMA StepStores ==
  ASSUME TypeInv, CellStep
  PROVE  /\ results \subseteq results' /\ tx'[me].cell = tx[me].cell
         /\ \A c \in Cells : failures[c] /= "none" => failures'[c] /= "none"
         /\ tx'[me].pc = "complete" => tx'[me].cell \in results'
         /\ tx'[me].pc = "failed" => failures'[tx'[me].cell] /= "none"
<1>1. /\ TxTypeOK /\ TxStep(me) /\ me \in Lanes /\ InTx(me)
      /\ tx'[me].cell = tx[me].cell
  BY OneLane, TxFrame DEF TypeInv, SeqTypeOK, CellStep
<1>2. tx[me].cell \in Cells /\ tx[me].class \in Kinds
  BY <1>1 DEF TxTypeOK, TxType, InTx
<1>3. CASE StoreClaim(tx[me].cell, tx[me].class)
  <2>1. /\ results \subseteq results'
        /\ \A c \in Cells : failures[c] /= "none" => failures'[c] /= "none"
        /\ tx[me].class = "none" => tx[me].cell \in results'
        /\ tx[me].class /= "none" => failures'[tx[me].cell] /= "none"
    BY <1>1, <1>2, <1>3, StoreClaimEffect
  <2>2. tx'[me].pc = "complete" => tx[me].class = "none"
    BY <1>1, TxStore
  <2>3. tx'[me].pc = "failed" => tx[me].class /= "none"
    BY <1>1, TxFails
  <2> QED BY <1>1, <2>1, <2>2, <2>3
<1>4. CASE ~StoreClaim(tx[me].cell, tx[me].class)
  <2>1. results' = results /\ failures' = failures
    BY <1>1, <1>4, TxStore DEF storeVars, StoreArchive
  <2>2. tx'[me].pc \notin {"complete", "failed"}
    BY <1>1, <1>4, TxStore, TxFails
  <2> QED BY <1>1, <2>1, <2>2
<1> QED BY <1>3, <1>4

\* The put of a killed run takes nothing away.
LEMMA OrphanStores ==
  ASSUME TypeInv, OrphanEnds
  PROVE  /\ results \subseteq results' /\ inflight' \subseteq inflight
         /\ \A c \in Cells : failures[c] /= "none" => failures'[c] /= "none"
         /\ UNCHANGED <<tx, completion, sup, exit, next>>
         /\ Lands \/ UNCHANGED <<results, failures, late>>
<1>1. PICK p \in inflight : /\ inflight' = inflight \ {p}
                            /\ \/ StoreClaim(p[1], p[2]) /\ late' = late \cup {p[1]}
                               \/ UNCHANGED <<storeVars, late>>
  BY DEF OrphanEnds
<1>2. p[1] \in Cells /\ p[2] \in Kinds /\ TxTypeOK
  BY DEF TypeInv, SeqTypeOK
<1>3. /\ results \subseteq results'
      /\ \A c \in Cells : failures[c] /= "none" => failures'[c] /= "none"
  BY <1>1, <1>2, StoreClaimEffect DEF storeVars, TxTypeOK
<1> QED BY <1>1, <1>3 DEF OrphanEnds, Lands, storeVars

LEMMA EndedLoop ==
  ASSUME TypeInv, LoopInv, Ended, Next
  PROVE  LoopInv' /\ results' = results /\ failures' = failures /\ late' = late
<1>1. PICK st \in Exits : Return(st)
  BY DEF Ended
<1>2. /\ sup' = "idle" /\ tx'[me].pc = "off" /\ results' = results /\ failures' = failures
      /\ next' = 1 /\ late' = late
  BY <1>1, OneLane DEF Return, NoTx
<1>3. \A p \in inflight' : \A c \in Cells : c < p[1] => c \in results
  <2>1. CASE inflight' \subseteq inflight
    BY <2>1 DEF LoopInv
  <2>2. CASE Dies /\ At(me, {"claiming"})
             /\ inflight' = inflight \cup {<<tx[me].cell, tx[me].class>>}
    <3>1. tx[me].cell = next /\ sup /= "idle"
      BY <2>2 DEF At, TypeInv, InTx
    <3> QED BY <2>2, <3>1 DEF LoopInv
  <2> QED BY <2>1, <2>2, PendingTyped DEF TypeInv
<1> QED BY <1>2, <1>3 DEF LoopInv

LEMMA LoopInvariant == Spec => []LoopInv
<1>1. Init => LoopInv
  BY OneLane DEF Init, TxInit, NoTx, LoopInv
<1>2. TypeInv /\ LoopInv /\ [Next]_vars => LoopInv'
  <2> SUFFICES ASSUME TypeInv, LoopInv, [Next]_vars PROVE LoopInv'
    OBVIOUS
  <2>1. CASE Start
    <3>1. CASE ~completion
      <4>1. /\ next = 1 /\ UNCHANGED <<tx, results, failures, next, completion, inflight>>
            /\ sup' = "running" /\ exit' = "none"
        BY <2>1, <3>1 DEF Start, LoopInv, txVars
      <4> QED BY <4>1, <3>1 DEF LoopInv
    <3>2. CASE completion
      BY <2>1, <3>2, EndedLoop DEF Start, Ended, Exits, Next
    <3> QED BY <3>1, <3>2
  <2>2. CASE StartRaises \/ Defer \/ HaltAtFailure \/ CellEndsRun \/ Complete
             \/ CompleteRaises \/ Dies
    BY <2>2, EndingSteps, EndedLoop DEF Next, RunStep
  <2>3. CASE SkipResult
    BY <2>3 DEF SkipResult, LoopInv, TypeInv, SeqTypeOK, txVars, orphanVars
  <2>4. CASE BeginCell
    <3>1. /\ tx'[me].pc = "staging" /\ sup = "running" /\ sup' = "transaction"
          /\ UNCHANGED <<results, failures, next, completion, inflight, exit>>
      BY <2>4, OneLane DEF BeginCell, Begin, NewTx, TypeInv, SeqTypeOK, TxTypeOK, storeVars,
         orphanVars
    <3> QED BY <3>1 DEF LoopInv
  <2>5. CASE CellStep
    <3>1. UNCHANGED <<completion, inflight, sup, exit, next>>
      BY <2>5 DEF CellStep, orphanVars
    <3> QED BY <2>5, <3>1, StepStores DEF LoopInv
  <2>6. CASE CellReturns
    <3>1. /\ tx'[me].pc = "off" /\ next' = next + 1 /\ sup' = "running"
          /\ UNCHANGED <<results, failures, completion, inflight, exit>>
      BY <2>6, OneLane DEF CellReturns, NoTx, TypeInv, SeqTypeOK, TxTypeOK, storeVars,
         orphanVars
    <3>2. tx[me].pc = "complete" /\ sup = "transaction" /\ next \in results
      BY <2>6 DEF CellReturns, At, InTx, TypeInv, LoopInv
    <3>3. next \in Nat
      BY DEF TypeInv, SeqTypeOK
    <3> QED BY <3>1, <3>2, <3>3 DEF LoopInv
  <2>7. CASE UNCHANGED vars
    BY <2>7 DEF vars, txVars, orphanVars, LoopInv
  <2>8. CASE OrphanEnds
    BY <2>8, OneLane, OrphanStores DEF LoopInv, TypeInv, SeqTypeOK, TxTypeOK, InTx
  <2> QED BY <2>1, <2>2, <2>3, <2>4, <2>5, <2>6, <2>7, <2>8 DEF Next, RunStep
<1> QED BY <1>1, <1>2, TypeInvariant, PTL DEF Spec

\* The exit status tells the truth about the store: "complete" only over a full
\* set of results and a stored completion claim, "halted" only over a stored
\* failure claim.  No put has to be reliable for it.
THEOREM ExitTheorem == Spec => []ExitMatchesStore
<1>1. Init => ExitMatchesStore
  BY DEF Init, ExitMatchesStore
<1>2. TypeInv /\ TypeInv' /\ LoopInv /\ LoopInv' /\ ExitMatchesStore /\ [Next]_vars => ExitMatchesStore'
  <2> SUFFICES ASSUME TypeInv, TypeInv', LoopInv, LoopInv', ExitMatchesStore, [Next]_vars
               PROVE  ExitMatchesStore'
    OBVIOUS
  <2>1. CASE Start
    <3>1. CASE completion /\ results = Cells
      BY <2>1, <3>1 DEF Start, Return, ExitMatchesStore
    <3>2. CASE ~(completion /\ results = Cells)
      <4>1. exit' \in {"none", "raised"}
        BY <2>1, <3>2 DEF Start, Return
      <4> QED BY <4>1 DEF ExitMatchesStore
    <3> QED BY <3>1, <3>2
  <2>2. CASE Complete
    <3>1. results' = results /\ completion' = TRUE /\ exit' = "complete"
      BY <2>2 DEF Complete, Return
    <3>2. Cells \subseteq results
      BY <2>2, OneLane DEF Complete, LoopInv, TypeInv, SeqTypeOK
    <3> QED BY <3>1, <3>2 DEF ExitMatchesStore, TypeInv, SeqTypeOK, TxTypeOK
  <2>3. CASE HaltAtFailure
    <3>1. next \in Cells /\ failures' = failures /\ exit' = "halted"
      BY <2>3, OneLane DEF HaltAtFailure, Return, TypeInv, SeqTypeOK
    <3> QED BY <2>3, <3>1 DEF HaltAtFailure, ExitMatchesStore
  <2>4. CASE CellEndsRun
    <3>1. CASE At(me, {"failed"}) /\ Return("halted")
      <4>1. tx[me].cell \in Cells /\ failures' = failures /\ exit' = "halted"
        BY <3>1, OneLane DEF At, Return, TypeInv, SeqTypeOK, TxTypeOK
      <4> QED BY <3>1, <4>1 DEF At, LoopInv, ExitMatchesStore
    <3>2. CASE Return("raised")
      BY <3>2 DEF Return, ExitMatchesStore
    <3> QED BY <2>4, <3>1, <3>2 DEF CellEndsRun
  <2>5. CASE StartRaises \/ Defer \/ CompleteRaises \/ Dies
    <3>1. exit' \in {"raised", "deferred", "blocked", "killed"}
      BY <2>5 DEF StartRaises, Defer, CompleteRaises, Dies, Return
    <3> QED BY <3>1 DEF ExitMatchesStore
  <2>6. CASE SkipResult \/ BeginCell \/ CellStep \/ CellReturns
    <3>1. CASE SkipResult \/ BeginCell \/ CellReturns
      BY <3>1 DEF SkipResult, BeginCell, CellReturns, LoopInv, ExitMatchesStore
    <3>2. CASE CellStep
      <4>1. InTx(me) /\ sup' = sup
        BY <3>2, OneLane, TxFrame DEF CellStep, TypeInv, SeqTypeOK
      <4> QED BY <4>1 DEF TypeInv, LoopInv, ExitMatchesStore
    <3> QED BY <2>6, <3>1, <3>2
  <2>7. CASE UNCHANGED vars
    BY <2>7 DEF vars, txVars, ExitMatchesStore
  <2>8. CASE OrphanEnds
    BY <2>8, OrphanStores DEF ExitMatchesStore, TypeInv, SeqTypeOK, TxTypeOK
  <2> QED BY <2>1, <2>2, <2>3, <2>4, <2>5, <2>6, <2>7, <2>8 DEF Next, RunStep
<1> QED BY <1>1, <1>2, TypeInvariant, LoopInvariant, PTL DEF Spec

-----------------------------------------------------------------------------
(* The claims, when a put answers what it did.                             *)

\* The cell is unclaimed, or a killed run's put claimed it.
Free(c) == Unclaimed(c) \/ c \in late

\* What a step of the loop does to the claims: nothing, or one claim of the cell
\* it is at.
LoopClaims ==
    /\ sup = "transaction" /\ next \in Cells /\ tx[me].cell = next
    /\ tx[me].class \in Kinds /\ Free(next)
    /\ StoreClaim(next, tx[me].class)
    /\ UNCHANGED <<completion, inflight, late>> /\ tx'[me].pc \notin BeforeClaim

LEMMA StepClaims ==
  ASSUME TypeInv, LoopInv, ClaimInv, ~AmbiguousPuts, [Next]_vars
  PROVE  \/ UNCHANGED <<results, failures, late>>
         \/ LoopClaims
         \/ OrphanEnds /\ Lands
<1>1. CASE CellStep
  <2>1. TxTypeOK /\ TxStep(me) /\ me \in Lanes /\ InTx(me)
    BY <1>1, OneLane, TxFrame DEF TypeInv, SeqTypeOK, CellStep
  <2>2. /\ tx[me].cell \in Cells /\ tx[me].class \in Kinds
        /\ sup = "transaction" /\ tx[me].cell = next
    BY <2>1 DEF TxTypeOK, TxType, InTx, TypeInv
  <2>3. UNCHANGED <<completion, inflight, late>>
    BY <1>1 DEF CellStep, orphanVars
  <2>4. tx[me].pc = "claiming" => Free(next)
    BY <2>2 DEF ClaimInv, BeforeClaim, Free
  <2> QED BY <2>1, <2>2, <2>3, <2>4, TxClaims DEF LoopClaims
<1>2. CASE StartRaises \/ Defer \/ HaltAtFailure \/ CellEndsRun \/ Complete
           \/ CompleteRaises \/ Dies
  BY <1>2, EndingSteps, EndedLoop DEF Next, RunStep
<1>3. CASE Start
  BY <1>3 DEF Start, Return, txVars
<1>4. CASE SkipResult \/ BeginCell \/ CellReturns \/ UNCHANGED vars
  BY <1>4 DEF SkipResult, BeginCell, Begin, CellReturns, vars, txVars, storeVars, orphanVars
<1>5. CASE OrphanEnds
  BY <1>5, OrphanStores
<1> QED BY <1>1, <1>2, <1>3, <1>4, <1>5 DEF Next, RunStep

\* A transaction that has still to put its claim is on a free cell.
LEMMA FreeUntilPut ==
  ASSUME TypeInv, LoopInv, ClaimInv, ~AmbiguousPuts, [Next]_vars,
         UNCHANGED <<results, failures, late>>, tx'[me].pc \in BeforeClaim
  PROVE  Free(tx'[me].cell)
<1>1. CASE CellStep
  <2>1. /\ TxTypeOK /\ TxStep(me) /\ me \in Lanes
        /\ tx'[me].cell = tx[me].cell
    BY <1>1, OneLane, TxFrame DEF TypeInv, SeqTypeOK, CellStep
  <2>2. tx[me].pc \in BeforeClaim
    BY <2>1, TxClaims
  <2> QED BY <2>1, <2>2 DEF ClaimInv, Free
<1>2. CASE BeginCell
  <2>1. tx'[me] = NewTx(next) /\ next \notin results /\ failures[next] = "none"
    BY <1>2, OneLane DEF BeginCell, Begin, TypeInv, SeqTypeOK, TxTypeOK
  <2> QED BY <2>1 DEF NewTx, Unclaimed, Free
<1>3. CASE Ended \/ CellReturns
  <2>1. tx'[me].pc = "off"
    BY <1>3, OneLane DEF Ended, Return, CellReturns, NoTx, TypeInv, SeqTypeOK, TxTypeOK
  <2> QED BY <2>1 DEF BeforeClaim
<1>4. CASE tx' = tx
  BY <1>4 DEF ClaimInv, Free
<1>5. Start => tx' = tx \/ Ended
  BY DEF Start, Ended, Exits, txVars
<1>6. SkipResult \/ OrphanEnds \/ UNCHANGED vars => tx' = tx
  BY DEF SkipResult, OrphanEnds, vars, txVars
<1> QED BY <1>1, <1>2, <1>3, <1>4, <1>5, <1>6, EndingSteps DEF Next, RunStep

\* A claim of cell n behind results only keeps the claims a prefix.
LEMMA ClaimKeepsPrefix ==
  ASSUME TypeInv, ClaimInv, NEW n \in Cells, NEW k \in Kinds, StoreClaim(n, k),
         \A c \in Cells : c < n => c \in results,
         late' = late \cup {n} \/ (late' = late /\ Free(n))
  PROVE  /\ ClaimsArePrefix'
         /\ \A c \in Cells : c \in results' => failures'[c] = "none" \/ c \in late'
<1>1. /\ \A d \in Cells : d /= n => (d \in results' <=> d \in results)
                                     /\ failures'[d] = failures[d]
      /\ k = "none" => results' = results \cup {n} /\ failures' = failures
      /\ k /= "none" => results' = results /\ failures'[n] = k
  BY StoreClaimEffect DEF TypeInv, SeqTypeOK
<1>2. \A c \in Cells : c \in results' => failures'[c] = "none" \/ c \in late'
  <2>1. SUFFICES ASSUME n \in results', n \notin late' PROVE failures'[n] = "none"
    BY <1>1 DEF ClaimInv
  <2>2. Unclaimed(n)
    BY <2>1 DEF Free
  <2> QED BY <1>1, <2>1, <2>2 DEF Unclaimed
<1>3. results \subseteq results'
  BY <1>1
<1>4. ASSUME NEW c \in Cells, NEW d \in Cells, d < c,
             c \in results' \/ failures'[c] /= "none"
      PROVE  d \in results'
  <2>1. CASE c = n
    BY <1>3, <1>4, <2>1
  <2>2. CASE c /= n
    BY <1>1, <1>3, <1>4, <2>2 DEF ClaimInv, ClaimsArePrefix
  <2> QED BY <2>1, <2>2
<1> QED BY <1>2, <1>4 DEF ClaimsArePrefix

LEMMA ClaimInvariant == ~AmbiguousPuts => (Spec => []ClaimInv)
<1> SUFFICES ASSUME ~AmbiguousPuts PROVE Spec => []ClaimInv
  OBVIOUS
<1>1. Init => ClaimInv
  BY OneLane DEF Init, TxInit, NoTx, ClaimInv, ClaimsArePrefix, BeforeClaim
<1>2. TypeInv /\ LoopInv /\ ClaimInv /\ [Next]_vars => ClaimInv'
  <2> SUFFICES ASSUME TypeInv, LoopInv, ClaimInv, [Next]_vars PROVE ClaimInv'
    OBVIOUS
  <2>1. CASE UNCHANGED <<results, failures, late>>
    <3>1. /\ ClaimsArePrefix'
          /\ \A c \in Cells : c \in results' => failures'[c] = "none" \/ c \in late'
      BY <2>1 DEF ClaimInv, ClaimsArePrefix
    <3>2. tx'[me].pc \in BeforeClaim => Free(tx'[me].cell)
      BY <2>1, FreeUntilPut
    <3> QED BY <2>1, <3>1, <3>2 DEF ClaimInv, Free, Unclaimed
  <2>2. CASE LoopClaims
    <3>1. \A c \in Cells : c < next => c \in results
      BY <2>2 DEF LoopInv, LoopClaims
    <3>2. /\ next \in Cells /\ tx[me].class \in Kinds
          /\ StoreClaim(next, tx[me].class) /\ late' = late /\ Free(next)
      BY <2>2 DEF LoopClaims
    <3>3. /\ ClaimsArePrefix'
          /\ \A c \in Cells : c \in results' => failures'[c] = "none" \/ c \in late'
      BY <3>1, <3>2, ClaimKeepsPrefix
    <3> QED BY <2>2, <3>3 DEF LoopClaims, ClaimInv
  <2>3. CASE OrphanEnds /\ Lands
    <3>1. PICK p \in inflight : StoreClaim(p[1], p[2]) /\ late' = late \cup {p[1]}
      BY <2>3 DEF Lands
    <3>2. /\ p[1] \in Cells /\ p[2] \in Kinds
          /\ \A c \in Cells : c < p[1] => c \in results
      BY DEF TypeInv, SeqTypeOK, LoopInv
    <3>3. /\ ClaimsArePrefix'
          /\ \A c \in Cells : c \in results' => failures'[c] = "none" \/ c \in late'
      BY <3>1, <3>2, ClaimKeepsPrefix
    <3>4. ASSUME tx[me].pc \in BeforeClaim
          PROVE  (Unclaimed(tx[me].cell) \/ tx[me].cell \in late)'
      <4>1. tx' = tx /\ tx[me].cell \in Cells /\ Free(tx[me].cell)
        BY <2>3, <3>4, OneLane, OrphanStores
           DEF ClaimInv, Free, BeforeClaim, TypeInv, SeqTypeOK, TxTypeOK
      <4>2. CASE tx[me].cell \in late \/ tx[me].cell = p[1]
        BY <3>1, <4>1, <4>2
      <4>3. CASE Unclaimed(tx[me].cell) /\ tx[me].cell /= p[1]
        <5>1. TxTypeOK
          BY DEF TypeInv, SeqTypeOK
        <5> QED BY <3>1, <3>2, <4>1, <4>3, <5>1, StoreClaimEffect DEF Unclaimed
      <4> QED BY <4>1, <4>2, <4>3 DEF Free
    <3>5. tx' = tx
      BY <2>3, OrphanStores
    <3> QED BY <3>3, <3>4, <3>5 DEF ClaimInv
  <2> QED BY <2>1, <2>2, <2>3, StepClaims
<1> QED BY <1>1, <1>2, TypeInvariant, LoopInvariant, PTL DEF Spec

\* The claims of a sequential queue are a prefix of it: results up to some cell,
\* then at most one terminal failure, then nothing; however many puts outlive
\* their run, all they can do is give their own cell a second claim.
THEOREM PrefixTheorem == ~AmbiguousPuts => (Spec => []ClaimsArePrefix)
BY ClaimInvariant, PTL DEF ClaimInv

-----------------------------------------------------------------------------
(* The claim ledger.                                                       *)

\* A put that stores a claim is a claim of the ledger: the cells before it hold
\* results and the cells after it nothing.
LEMMA ClaimStep ==
  ASSUME TypeInv, TypeInv', LoopInv, ClaimInv, late = {},
         sup = "transaction", NEW n \in Cells, n = next, NEW k \in Kinds, Unclaimed(n),
         StoreClaim(n, k), UNCHANGED completion
  PROVE  Ledger!LedgerNext
<1>1. TxTypeOK /\ failures \in [Cells -> Kinds] /\ failures' \in [Cells -> Kinds]
  BY DEF TypeInv, SeqTypeOK, TxTypeOK
<1>2. /\ \A d \in Cells : d /= n => (d \in results' <=> d \in results)
                                     /\ failures'[d] = failures[d]
      /\ k = "none" => results' = results \cup {n} /\ failures' = failures
      /\ k /= "none" => results' = results /\ failures'[n] = k
  BY <1>1, StoreClaimEffect
<1>3. \A d \in Cells : d < n => Entry(d) = "result"
  BY <1>1, EntryCases DEF LoopInv, ClaimInv
<1>4. \A d \in Cells : n < d => Entry(d) = "open"
  <2>1. \A d \in Cells : n < d => Unclaimed(d)
    BY DEF ClaimInv, ClaimsArePrefix, Unclaimed
  <2> QED BY <1>1, <2>1, EntryCases
<1>5. Entry(n) = "open"
  BY <1>1, EntryCases
<1>6. \A d \in Cells : d /= n => Entry(d)' = Entry(d)
  BY <1>2 DEF Entry
<1>7. Ledger!Claimable(n)
  BY <1>3, <1>5 DEF Ledger!Claimable, Ledger!LedgerCells, Entry
<1>8. CASE k = "none"
  <2>1. Entry(n)' = "result"
    BY <1>2, <1>8 DEF Entry, Unclaimed
  <2>2. Entries' = [Entries EXCEPT ![n] = "result"]
    BY <1>6, <2>1 DEF Entries
  <2> QED BY <1>7, <2>2 DEF Ledger!ClaimResult, Ledger!LedgerNext, Ledger!LedgerCells, Entries, Entry
<1>9. CASE k \in {"transient", "unclassified"}
  <2>1. Entry(n)' = "failure"
    BY <1>2, <1>9 DEF Entry
  <2>2. Entries' = [Entries EXCEPT ![n] = "failure"]
    BY <1>6, <2>1 DEF Entries
  <2> QED BY <1>7, <2>2 DEF Ledger!ClaimFailure, Ledger!LedgerNext, Ledger!LedgerCells, Entries, Entry
<1>10. CASE k \in SystemicClasses
  <2>1. Entry(n)' = "systemic"
    BY <1>2, <1>10 DEF Entry
  <2>2. Entries' = [Entries EXCEPT ![n] = "systemic"]
    BY <1>6, <2>1 DEF Entries
  <2>3. \A d \in Cells : Entry(d) /= "systemic"
    BY <1>3, <1>4, <1>5, OneLane DEF TypeInv, SeqTypeOK
  <2> QED BY <1>7, <2>2, <2>3 DEF Ledger!ClaimSystemic, Ledger!LedgerNext, Ledger!LedgerCells, Entries, Entry
<1> QED BY <1>8, <1>9, <1>10

\* Until the put of a killed run has stored a claim late, every step of the
\* sequential runner is a step of the claim ledger or changes nothing in it: it
\* claims in queue order, at most once a cell, at most one systemic failure, and
\* closes the queue over results only.
THEOREM LedgerTheorem == ~AmbiguousPuts => (Spec => SeqImplementsLedger)
<1> SUFFICES ASSUME ~AmbiguousPuts PROVE Spec => SeqImplementsLedger
  OBVIOUS
<1>1. Init => Ledger!LedgerInit
  BY DEF Init, TxInit, Ledger!LedgerInit, Ledger!LedgerCells
<1>2. TypeInv /\ TypeInv' /\ LoopInv /\ ClaimInv /\ [Next]_vars
        => [late' = {} => Ledger!LedgerNext]_(Ledger!ledgerVars)
  <2> SUFFICES ASSUME TypeInv, TypeInv', LoopInv, ClaimInv, [Next]_vars, late' = {}
               PROVE  Ledger!LedgerNext \/ UNCHANGED <<Entries, completion>>
    BY DEF Ledger!ledgerVars, Entries, Entry
  <2>0. late = {} /\ ~(OrphanEnds /\ Lands)
    BY StepClaims DEF Lands, LoopClaims
  <2>1. CASE Complete
    <3>1. ~completion /\ completion' = TRUE /\ UNCHANGED <<results, failures>>
      BY <2>1 DEF Complete, Return, LoopInv
    <3>2. \A c \in Cells : c \in results /\ failures[c] = "none"
      BY <2>0, <2>1, OneLane DEF Complete, LoopInv, ClaimInv, TypeInv, SeqTypeOK
    <3>3. \A c \in Cells : Entry(c) = "result"
      BY <3>2 DEF Entry
    <3>4. UNCHANGED Entries
      BY <3>1 DEF Entries, Entry
    <3> QED BY <3>1, <3>3, <3>4
            DEF Ledger!Close, Ledger!LedgerNext, Ledger!LedgerCells, Entries, Entry
  <2>2. CASE ~Complete
    <3>0. CompleteRaises => UNCHANGED completion
      BY ModesAssumption DEF CompleteRaises, LoopInv, TypeInv, SeqTypeOK
    <3>1. UNCHANGED completion
      BY <2>2, <3>0 DEF Next, RunStep, Start, StartRaises, Defer, SkipResult, HaltAtFailure,
         BeginCell, CellStep, CellReturns, CellEndsRun, Dies, OrphanEnds, vars
    <3>2. CASE UNCHANGED <<results, failures>>
      BY <3>1, <3>2 DEF Entries, Entry
    <3>3. CASE LoopClaims
      <4>1. /\ sup = "transaction" /\ next \in Cells /\ tx[me].class \in Kinds
            /\ Unclaimed(next) /\ StoreClaim(next, tx[me].class)
        BY <2>0, <3>3 DEF LoopClaims, Free
      <4> QED BY <2>0, <3>1, <4>1, ClaimStep
    <3> QED BY <2>0, <3>2, <3>3, StepClaims
  <2> QED BY <2>1, <2>2
<1> QED BY <1>1, <1>2, TypeInvariant, LoopInvariant, ClaimInvariant, PTL
        DEF Spec, SeqImplementsLedger, Ledger!LedgerSpec

-----------------------------------------------------------------------------
(* How long a run can be.                                                  *)

\* What is left to do at the present cell.
Left == IF sup = "running" THEN 10 + MaxAttempts ELSE TxLeft(tx[me])

\* A step of a run goes on to the next cell or nearer to the end of this one, or it
\* is a killed run's: then nothing moves but one put of those still pending.
NearsEnd ==
    \/ next' = next + 1
    \/ next' = next /\ Left' < Left
    \/ UNCHANGED <<next, Left>> /\ \E p \in inflight : inflight' = inflight \ {p}

\* No run goes on for ever: whatever fails and whatever is retried, every step
\* that does not end the run goes on to the next cell or nearer to the end of
\* this one, and both are bounded, or it ends a put that an earlier run left.
\* A run of any queue has at most (CellCount + 1) * (11 + MaxAttempts) steps of
\* its own.
THEOREM ShortRunTheorem ==
  Spec => /\ [](sup /= "idle" => next \in 1..CellCount + 1 /\ Left \in 0..10 + MaxAttempts)
          /\ [][sup /= "idle" /\ sup' /= "idle" => NearsEnd]_vars
<1>1. TypeInv /\ sup /= "idle" => next \in 1..CellCount + 1 /\ Left \in 0..10 + MaxAttempts
  <2> SUFFICES ASSUME TypeInv PROVE Left \in 0..10 + MaxAttempts
    BY DEF TypeInv, SeqTypeOK
  <2>1. tx[me] \in TxType /\ MaxAttempts \in Nat
    BY OneLane, CountsAssumption DEF TypeInv, SeqTypeOK, TxTypeOK
  <2>2. TxLeft(tx[me]) \in 0..9 + MaxAttempts
    BY <2>1, TxLeftBounds
  <2> QED BY <2>1, <2>2 DEF Left
<1>2. TypeInv /\ [Next]_vars => [sup /= "idle" /\ sup' /= "idle" => NearsEnd]_vars
  <2> SUFFICES ASSUME TypeInv, Next, sup /= "idle", sup' /= "idle" PROVE NearsEnd
    OBVIOUS
  <2>0. /\ TxTypeOK /\ tx[me] \in TxType /\ MaxAttempts \in Nat /\ me \in Lanes
        /\ sup \in {"idle", "running", "transaction"}
        /\ InTx(me) <=> sup = "transaction"
    BY OneLane, CountsAssumption DEF TypeInv, SeqTypeOK, TxTypeOK
  <2>1. CASE SkipResult \/ CellReturns
    BY <2>1 DEF SkipResult, CellReturns, NearsEnd
  <2>2. CASE BeginCell
    <3>1. tx'[me].pc = "staging" /\ next' = next /\ sup = "running" /\ sup' = "transaction"
      BY <2>0, <2>2 DEF BeginCell, Begin, NewTx, TxTypeOK
    <3>2. TxLeft(tx'[me]) = 9 + MaxAttempts
      BY <3>1 DEF TxLeft
    <3> QED BY <2>0, <3>1, <3>2 DEF NearsEnd, Left
  <2>3. CASE CellStep
    <3>1. TxStep(me) /\ UNCHANGED <<sup, next>>
      BY <2>3 DEF CellStep
    <3>2. InTx(me) /\ TxLeft(tx'[me]) < TxLeft(tx[me])
      BY <2>0, <3>1, TxFrame, TxNearer
    <3> QED BY <2>0, <3>1, <3>2 DEF NearsEnd, Left
  <2>4. CASE Start \/ StartRaises \/ Defer \/ HaltAtFailure \/ CellEndsRun \/ Complete
             \/ CompleteRaises \/ Dies
    BY <2>4, EndingSteps DEF Start, StartRaises, Ended, Return
  <2>5. CASE OrphanEnds
    <3>1. UNCHANGED <<tx, sup, next>> /\ \E p \in inflight : inflight' = inflight \ {p}
      BY <2>5 DEF OrphanEnds
    <3>2. UNCHANGED Left
      BY <3>1 DEF Left
    <3> QED BY <3>1, <3>2 DEF NearsEnd
  <2> QED BY <2>1, <2>2, <2>3, <2>4, <2>5 DEF Next, RunStep
<1> QED BY <1>1, <1>2, TypeInvariant, PTL DEF Spec
=============================================================================
