------------------------- MODULE CellTransactionProofs -------------------------
(***************************************************************************)
(* What one step of a cell's transaction does, whoever runs it: the types  *)
(* it keeps, the records it leaves alone, the claims it can store, and     *)
(* that it brings the transaction nearer to its end.                       *)
(***************************************************************************)
EXTENDS CellTransaction, TLAPS

InTx(l) == tx[l].pc /= "off"
Unclaimed(c) == c \notin results /\ failures[c] = "none"
BeforeClaim == {"staging", "evaluating", "archiving", "claiming", "erring"}

USE DEF Cells, NoCell, Kinds, Classes, SystemicClasses, Outcomes, Phases

-----------------------------------------------------------------------------
(* Types.                                                                  *)

LEMMA NoTxTyped == NoTx \in TxType
BY CountsAssumption DEF NoTx, TxType

\* A field of a lane's transaction may be set to any value of its type.
LEMMA GotoTyped ==
  ASSUME TxTypeOK, NEW l \in Lanes, NEW p \in Phases, Goto(l, p), tx[l].pc /= "off"
  PROVE  /\ tx' \in [Lanes -> TxType]
         /\ \A m \in Lanes : tx'[m].pc /= "off" => tx'[m].cell \in Cells
BY DEF TxTypeOK, Goto, TxType

LEMMA PublishTyped ==
  ASSUME TxTypeOK, NEW l \in Lanes, NEW k \in Kinds, Publish(l, k), tx[l].pc /= "off"
  PROVE  /\ tx' \in [Lanes -> TxType]
         /\ \A m \in Lanes : tx'[m].pc /= "off" => tx'[m].cell \in Cells
BY DEF TxTypeOK, Publish, TxType

LEMMA SignalTyped ==
  ASSUME TxTypeOK, NEW c \in Cells, Signal(c)
  PROVE  cancel' \in BOOLEAN /\ systemicCell' \in Cells \cup {NoCell}
BY DEF TxTypeOK, Signal, signalVars

LEMMA StoreClaimTyped ==
  ASSUME TxTypeOK, NEW c \in Cells, NEW k \in Kinds, StoreClaim(c, k)
  PROVE  /\ results' \subseteq Cells
         /\ failures' \in [Cells -> Kinds]
         /\ archives' \subseteq Cells \X Kinds
BY DEF TxTypeOK, StoreClaim

\* A step of a transaction keeps the types of the store and of the signals.
LEMMA TxStepTyped ==
  ASSUME TxTypeOK, NEW l \in Lanes, TxStep(l) \/ ExceedDeadline(l)
  PROVE  TxTypeOK'
<1> USE CountsAssumption
<1>0. tx[l] \in TxType  BY DEF TxTypeOK
<1>1. CASE WorkTreeFails(l)
  BY <1>1, GotoTyped DEF WorkTreeFails, At, TxTypeOK, storeVars, signalVars
<1>2. CASE Stage(l)
  <2>1. 1 \in 0..MaxAttempts
    OBVIOUS
  <2>2. [tx[l] EXCEPT !.pc = "evaluating", !.attempt = 1] \in TxType
    BY <1>0, <2>1 DEF TxType
  <2> QED BY <1>2, <2>2 DEF Stage, At, TxTypeOK, storeVars, signalVars
<1>3. CASE PreparationRaises(l)
  BY <1>3, GotoTyped DEF PreparationRaises, At, TxTypeOK, storeVars, signalVars
<1>4. CASE Withdraw(l)
  BY <1>4, GotoTyped DEF Withdraw, At, TxTypeOK, storeVars, signalVars
<1>5. CASE EvaluationPasses(l)
  BY <1>5, PublishTyped DEF EvaluationPasses, At, TxTypeOK, storeVars, signalVars
<1>6. CASE EvaluationFailsSystemically(l)
  <2>1. tx[l].cell \in Cells
    BY <1>6 DEF EvaluationFailsSystemically, At, TxTypeOK
  <2>2. cancel' \in BOOLEAN /\ systemicCell' \in Cells \cup {NoCell}
    BY <1>6, <2>1, SignalTyped DEF EvaluationFailsSystemically
  <2> QED BY <1>6, <2>2, PublishTyped, GotoTyped
          DEF EvaluationFailsSystemically, At, TxTypeOK, storeVars
<1>7. ASSUME NEW k \in Classes, EvaluationFails(l, k)
      PROVE  TxTypeOK'
  <2>1. CASE tx' = [tx EXCEPT ![l].attempt = @ + 1] /\ Retryable(l, k)
    <3>1. tx[l].attempt + 1 \in 0..MaxAttempts
      BY <1>0, <2>1 DEF TxType, Retryable
    <3>2. [tx[l] EXCEPT !.attempt = @ + 1] \in TxType
      BY <1>0, <3>1 DEF TxType
    <3> QED BY <1>7, <2>1, <3>2 DEF EvaluationFails, At, TxTypeOK, storeVars, signalVars
  <2>2. CASE Goto(l, "cancelled")
    BY <1>7, <2>2, GotoTyped DEF EvaluationFails, At, TxTypeOK, storeVars, signalVars
  <2>3. CASE Publish(l, k)
    BY <1>7, <2>3, PublishTyped DEF EvaluationFails, At, TxTypeOK, storeVars, signalVars
  <2> QED BY <1>7, <2>1, <2>2, <2>3 DEF EvaluationFails
<1>8. CASE PutArchive(l)
  BY <1>0, <1>8, GotoTyped DEF PutArchive, StoreArchive, At, TxTypeOK, TxType, signalVars
<1>9. CASE PutClaim(l)
  BY <1>0, <1>9, GotoTyped, StoreClaimTyped DEF PutClaim, At, TxTypeOK, TxType, signalVars
<1>10. CASE PutRaises(l)
  <2>1. tx[l].cell \in Cells /\ tx[l].class \in Kinds
    BY <1>0, <1>10 DEF PutRaises, At, TxTypeOK, TxType
  <2>2. /\ results' \subseteq Cells
        /\ failures' \in [Cells -> Kinds]
        /\ archives' \subseteq Cells \X Kinds
    BY <1>10, <2>1, StoreClaimTyped DEF PutRaises, Store, StoreArchive, TxTypeOK, storeVars
  <2> QED BY <1>10, <2>2, GotoTyped DEF PutRaises, At, TxTypeOK, signalVars
<1>11. CASE HandleError(l)
  <2>1. tx[l].cell \in Cells
    BY <1>11 DEF HandleError, At, TxTypeOK
  <2>2. cancel' \in BOOLEAN /\ systemicCell' \in Cells \cup {NoCell}
    BY <1>11, <2>1, SignalTyped DEF HandleError, TxTypeOK, signalVars
  <2> QED BY <1>11, <2>2, PublishTyped, GotoTyped DEF HandleError, At, TxTypeOK, storeVars
<1>12. CASE ExceedDeadline(l)
  BY <1>12, GotoTyped DEF ExceedDeadline, At, TxTypeOK, storeVars, signalVars
<1> QED BY <1>1, <1>2, <1>3, <1>4, <1>5, <1>6, <1>7, <1>8, <1>9, <1>10, <1>11, <1>12
        DEF TxStep

-----------------------------------------------------------------------------
(* What a step touches, and what it stores.                                *)

\* A transaction's step touches its own lane's record only, and neither opens
\* nor closes the transaction nor moves it to another cell.
LEMMA TxFrame ==
  ASSUME TxTypeOK, NEW l \in Lanes, TxStep(l) \/ ExceedDeadline(l)
  PROVE  /\ \A m \in Lanes : m /= l => tx'[m] = tx[m]
         /\ InTx(l) /\ tx'[l].pc /= "off"
         /\ tx'[l].cell = tx[l].cell
<1>0. tx[l] \in TxType /\ DOMAIN tx = Lanes
  BY DEF TxTypeOK
<1> USE <1>0 DEF InTx, At, Goto, Publish, TxType
<1>1. CASE WorkTreeFails(l)
  BY <1>1 DEF WorkTreeFails
<1>2. CASE Stage(l)
  BY <1>2 DEF Stage
<1>3. CASE PreparationRaises(l)
  BY <1>3 DEF PreparationRaises
<1>4. CASE Withdraw(l)
  BY <1>4 DEF Withdraw
<1>5. CASE EvaluationPasses(l)
  BY <1>5 DEF EvaluationPasses
<1>6. CASE EvaluationFailsSystemically(l)
  BY <1>6 DEF EvaluationFailsSystemically
<1>7. ASSUME NEW k \in Classes, EvaluationFails(l, k)
      PROVE  /\ \A m \in Lanes : m /= l => tx'[m] = tx[m]
             /\ InTx(l) /\ tx'[l].pc /= "off"
             /\ tx'[l].cell = tx[l].cell
  BY <1>7 DEF EvaluationFails
<1>8. CASE PutArchive(l)
  BY <1>8 DEF PutArchive
<1>9. CASE PutClaim(l)
  BY <1>9 DEF PutClaim
<1>10. CASE PutRaises(l)
  BY <1>10 DEF PutRaises
<1>11. CASE HandleError(l)
  BY <1>11 DEF HandleError
<1>12. CASE ExceedDeadline(l)
  BY <1>12 DEF ExceedDeadline
<1> QED BY <1>1, <1>2, <1>3, <1>4, <1>5, <1>6, <1>7, <1>8, <1>9, <1>10, <1>11, <1>12
        DEF TxStep

\* What one step of a transaction can do to the store.
LEMMA TxStore ==
  ASSUME TxTypeOK, NEW l \in Lanes, TxStep(l) \/ ExceedDeadline(l)
  PROVE  \/ UNCHANGED storeVars /\ tx'[l].pc \notin {"claiming", "complete"}
         \/ /\ tx[l].pc = "archiving" /\ StoreArchive(l)
            /\ tx'[l].pc /= "complete" /\ tx'[l].class = tx[l].class
         \/ /\ tx[l].pc = "claiming" /\ StoreClaim(tx[l].cell, tx[l].class)
            /\ tx'[l].pc /= "claiming"
            /\ tx'[l].pc = "complete" => tx[l].class = "none"
<1>0. tx[l] \in TxType /\ DOMAIN tx = Lanes
  BY DEF TxTypeOK
<1> USE <1>0 DEF At, Goto, Publish, TxType
<1>1. CASE WorkTreeFails(l)
  BY <1>1 DEF WorkTreeFails
<1>2. CASE Stage(l)
  BY <1>2 DEF Stage
<1>3. CASE PreparationRaises(l) \/ Withdraw(l) \/ ExceedDeadline(l)
  BY <1>3 DEF PreparationRaises, Withdraw, ExceedDeadline
<1>4. CASE EvaluationPasses(l)
  BY <1>4 DEF EvaluationPasses
<1>5. CASE EvaluationFailsSystemically(l)
  BY <1>5 DEF EvaluationFailsSystemically
<1>6. CASE \E k \in Classes : EvaluationFails(l, k)
  BY <1>6 DEF EvaluationFails
<1>7. CASE PutArchive(l)
  BY <1>7 DEF PutArchive
<1>8. CASE PutClaim(l)
  BY <1>8 DEF PutClaim
<1>9. CASE PutRaises(l)
  BY <1>9 DEF PutRaises, Store
<1>10. CASE HandleError(l)
  BY <1>10 DEF HandleError
<1> QED BY <1>1, <1>2, <1>3, <1>4, <1>5, <1>6, <1>7, <1>8, <1>9, <1>10 DEF TxStep

\* With reliable puts the claims change only by a put of the cell's own lane,
\* which ends the lane's chance to claim it again.
LEMMA TxClaims ==
  ASSUME TxTypeOK, ~AmbiguousPuts, NEW l \in Lanes, TxStep(l) \/ ExceedDeadline(l)
  PROVE  \/ /\ UNCHANGED <<results, failures>>
            /\ tx'[l].pc \in BeforeClaim => tx[l].pc \in BeforeClaim
         \/ /\ tx[l].pc = "claiming" /\ StoreClaim(tx[l].cell, tx[l].class)
            /\ tx'[l].pc \notin BeforeClaim
<1>0. tx[l] \in TxType /\ DOMAIN tx = Lanes
  BY DEF TxTypeOK
<1> USE <1>0 DEF At, Goto, Publish, TxType, BeforeClaim, storeVars
<1>1. CASE WorkTreeFails(l)
  BY <1>1 DEF WorkTreeFails
<1>2. CASE Stage(l)
  BY <1>2 DEF Stage
<1>3. CASE PreparationRaises(l) \/ Withdraw(l) \/ ExceedDeadline(l)
  BY <1>3 DEF PreparationRaises, Withdraw, ExceedDeadline
<1>4. CASE EvaluationPasses(l)
  BY <1>4 DEF EvaluationPasses
<1>5. CASE EvaluationFailsSystemically(l)
  BY <1>5 DEF EvaluationFailsSystemically
<1>6. CASE \E k \in Classes : EvaluationFails(l, k)
  BY <1>6 DEF EvaluationFails
<1>7. CASE PutArchive(l)
  BY <1>7 DEF PutArchive, StoreArchive
<1>8. CASE PutClaim(l)
  BY <1>8 DEF PutClaim
<1>9. CASE PutRaises(l)
  BY <1>9 DEF PutRaises
<1>10. CASE HandleError(l)
  BY <1>10 DEF HandleError
<1> QED BY <1>1, <1>2, <1>3, <1>4, <1>5, <1>6, <1>7, <1>8, <1>9, <1>10 DEF TxStep

\* A transaction ends failed only by the put of its failure claim.
LEMMA TxFails ==
  ASSUME TxTypeOK, NEW l \in Lanes, TxStep(l), tx'[l].pc = "failed"
  PROVE  /\ tx[l].pc = "claiming" /\ tx[l].class /= "none"
         /\ StoreClaim(tx[l].cell, tx[l].class)
<1>0. tx[l] \in TxType /\ DOMAIN tx = Lanes
  BY DEF TxTypeOK
<1> USE <1>0 DEF At, Goto, Publish, TxType
<1>1. ~(WorkTreeFails(l) \/ Stage(l) \/ PreparationRaises(l) \/ Withdraw(l))
  BY DEF WorkTreeFails, Stage, PreparationRaises, Withdraw
<1>2. ~(EvaluationPasses(l) \/ EvaluationFailsSystemically(l))
  BY DEF EvaluationPasses, EvaluationFailsSystemically
<1>3. ~\E k \in Classes : EvaluationFails(l, k)
  BY DEF EvaluationFails
<1>4. ~(PutArchive(l) \/ PutRaises(l) \/ HandleError(l))
  BY DEF PutArchive, PutRaises, HandleError
<1> QED BY <1>1, <1>2, <1>3, <1>4 DEF TxStep, PutClaim

\* A transaction that has not published is a success so far, and only such a one
\* can end complete.
Unpublished(l) == tx[l].pc \in {"staging", "evaluating"} => tx[l].class = "none"

LEMMA TxSuccess ==
  ASSUME TxTypeOK, NEW l \in Lanes, TxStep(l) \/ ExceedDeadline(l), Unpublished(l)
  PROVE  /\ Unpublished(l)'
         /\ tx'[l].class = "none" \/ tx'[l].pc = "complete" => tx[l].class = "none"
<1>0. tx[l] \in TxType /\ DOMAIN tx = Lanes
  BY DEF TxTypeOK
<1> USE <1>0 DEF At, Goto, Publish, TxType, Unpublished
<1>1. CASE WorkTreeFails(l)
  BY <1>1 DEF WorkTreeFails
<1>2. CASE Stage(l)
  BY <1>2 DEF Stage
<1>3. CASE PreparationRaises(l) \/ Withdraw(l) \/ ExceedDeadline(l)
  <2>1. tx'[l].class = tx[l].class /\ tx'[l].pc \notin {"complete", "staging", "evaluating"}
    BY <1>3 DEF PreparationRaises, Withdraw, ExceedDeadline
  <2> QED BY <2>1
<1>4. CASE EvaluationPasses(l)
  BY <1>4 DEF EvaluationPasses
<1>5. CASE EvaluationFailsSystemically(l)
  BY <1>5 DEF EvaluationFailsSystemically
<1>6. CASE \E k \in Classes : EvaluationFails(l, k)
  BY <1>6 DEF EvaluationFails
<1>7. CASE PutArchive(l)
  BY <1>7 DEF PutArchive
<1>8. CASE PutClaim(l)
  BY <1>8 DEF PutClaim
<1>9. CASE PutRaises(l)
  BY <1>9 DEF PutRaises
<1>10. CASE HandleError(l)
  BY <1>10 DEF HandleError
<1> QED BY <1>1, <1>2, <1>3, <1>4, <1>5, <1>6, <1>7, <1>8, <1>9, <1>10 DEF TxStep

\* What a claim's put does to a typed store.
LEMMA StoreClaimEffect ==
  ASSUME TxTypeOK, NEW c \in Cells, NEW k \in Kinds, StoreClaim(c, k)
  PROVE  /\ \A d \in Cells : d /= c => (d \in results' <=> d \in results)
                                     /\ failures'[d] = failures[d]
         /\ k = "none" => results' = results \cup {c} /\ failures' = failures
         /\ k /= "none" => results' = results /\ failures'[c] = k
BY DEF StoreClaim, TxTypeOK

\* With reliable puts a failure is stored by the step that ends the transaction
\* failed, and only a broken work tree turns that end into another one.
LEMMA TxFailure ==
  ASSUME TxTypeOK, ~AmbiguousPuts, NEW l \in Lanes, TxStep(l) \/ ExceedDeadline(l)
  PROVE  /\ failures' /= failures => /\ StoreClaim(tx[l].cell, tx[l].class)
                                    /\ tx'[l].pc = "failed"
         /\ tx[l].pc \in {"failed", "raised"} => tx'[l].pc = "raised" /\ failures' = failures
<1>0. tx[l] \in TxType /\ DOMAIN tx = Lanes
  BY DEF TxTypeOK
<1> USE <1>0 DEF At, Goto, Publish, TxType, storeVars
<1>1. CASE WorkTreeFails(l)
  BY <1>1 DEF WorkTreeFails
<1>2. CASE Stage(l)
  BY <1>2 DEF Stage
<1>3. CASE PreparationRaises(l) \/ Withdraw(l) \/ ExceedDeadline(l)
  BY <1>3 DEF PreparationRaises, Withdraw, ExceedDeadline
<1>4. CASE EvaluationPasses(l)
  BY <1>4 DEF EvaluationPasses
<1>5. CASE EvaluationFailsSystemically(l)
  BY <1>5 DEF EvaluationFailsSystemically
<1>6. CASE \E k \in Classes : EvaluationFails(l, k)
  BY <1>6 DEF EvaluationFails
<1>7. CASE PutArchive(l)
  BY <1>7 DEF PutArchive, StoreArchive
<1>8. CASE PutClaim(l)
  <2>1. tx[l].class = "none" => failures' = failures
    BY <1>8 DEF PutClaim, StoreClaim
  <2> QED BY <1>8, <2>1 DEF PutClaim
<1>9. CASE PutRaises(l)
  BY <1>9 DEF PutRaises
<1>10. CASE HandleError(l)
  BY <1>10 DEF HandleError
<1> QED BY <1>1, <1>2, <1>3, <1>4, <1>5, <1>6, <1>7, <1>8, <1>9, <1>10 DEF TxStep

\* A transaction cancels the campaign only together with a systemic owner.
LEMMA TxSignals ==
  ASSUME TxTypeOK, Parallel, NEW l \in Lanes, TxStep(l) \/ ExceedDeadline(l)
  PROVE  UNCHANGED signalVars \/ systemicCell' /= NoCell
<1>1. tx[l].pc /= "off" => tx[l].cell \in Cells /\ tx[l].cell /= NoCell
  BY CountsAssumption DEF TxTypeOK
<1>2. CASE WorkTreeFails(l) \/ Stage(l) \/ PreparationRaises(l) \/ Withdraw(l)
  BY <1>2 DEF WorkTreeFails, Stage, PreparationRaises, Withdraw
<1>3. CASE EvaluationPasses(l) \/ ExceedDeadline(l) \/ \E k \in Classes : EvaluationFails(l, k)
  BY <1>3 DEF EvaluationPasses, ExceedDeadline, EvaluationFails
<1>4. CASE EvaluationFailsSystemically(l)
  BY <1>1, <1>4 DEF EvaluationFailsSystemically, Signal, At
<1>5. CASE PutArchive(l) \/ PutClaim(l) \/ PutRaises(l)
  BY <1>5 DEF PutArchive, PutClaim, PutRaises
<1>6. CASE HandleError(l)
  BY <1>1, <1>6 DEF HandleError, Signal, At
<1> QED BY <1>2, <1>3, <1>4, <1>5, <1>6 DEF TxStep

\* Only the deadline ends a transaction at the deadline.
LEMMA TxInTime ==
  ASSUME TxTypeOK, NEW l \in Lanes, TxStep(l)
  PROVE  tx'[l].pc /= "deadline"
<1>0. tx[l] \in TxType /\ DOMAIN tx = Lanes
  BY DEF TxTypeOK
<1> USE <1>0 DEF At, Goto, Publish, TxType
<1>1. CASE WorkTreeFails(l) \/ Stage(l) \/ PreparationRaises(l) \/ Withdraw(l)
  BY <1>1 DEF WorkTreeFails, Stage, PreparationRaises, Withdraw
<1>2. CASE EvaluationPasses(l) \/ EvaluationFailsSystemically(l)
  BY <1>2 DEF EvaluationPasses, EvaluationFailsSystemically
<1>3. CASE \E k \in Classes : EvaluationFails(l, k)
  BY <1>3 DEF EvaluationFails
<1>4. CASE PutArchive(l) \/ PutClaim(l) \/ PutRaises(l) \/ HandleError(l)
  BY <1>4 DEF PutArchive, PutClaim, PutRaises, HandleError
<1> QED BY <1>1, <1>2, <1>3, <1>4 DEF TxStep

-----------------------------------------------------------------------------
(* The claims as the ledger shows them.                                    *)

\* What the ledger shows of a cell.
Entry(c) ==
    CASE failures[c] \in SystemicClasses -> "systemic"
      [] failures[c] \in {"transient", "unclassified"} -> "failure"
      [] failures[c] = "none" /\ c \in results -> "result"
      [] OTHER -> "open"
Entries == [c \in Cells |-> Entry(c)]

LEMMA EntryCases ==
  ASSUME NEW c \in Cells, failures[c] \in Kinds
  PROVE  /\ Unclaimed(c) => Entry(c) = "open"
         /\ c \in results /\ failures[c] = "none" => Entry(c) = "result"
         /\ failures[c] \in SystemicClasses => Entry(c) = "systemic"
         /\ failures[c] \in {"transient", "unclassified"} => Entry(c) = "failure"
BY DEF Entry, Unclaimed

\* What a step of a cancelled transaction may publish: its own systemic failure.
LEMMA TxOwner ==
  ASSUME Parallel, TxTypeOK, NEW l \in Lanes, TxStep(l) \/ ExceedDeadline(l), cancel,
         tx[l].pc /= "archiving", tx'[l].pc = "archiving", tx'[l].class /= "none"
  PROVE  tx'[l].class \in SystemicClasses /\ systemicCell' = tx[l].cell
<1>0. tx[l] \in TxType /\ DOMAIN tx = Lanes
  BY DEF TxTypeOK
<1> USE <1>0 DEF At, Goto, Publish, TxType, Cancelled
<1>1. ~WorkTreeFails(l) /\ ~Stage(l) /\ ~PreparationRaises(l) /\ ~Withdraw(l) /\ ~ExceedDeadline(l)
  BY DEF WorkTreeFails, Stage, PreparationRaises, Withdraw, ExceedDeadline, Outcomes
<1>2. ~EvaluationPasses(l) /\ ~HandleError(l) /\ \A class \in Classes : ~EvaluationFails(l, class)
  BY DEF EvaluationPasses, HandleError, EvaluationFails
<1>3. ~PutArchive(l) /\ ~PutClaim(l) /\ ~PutRaises(l)
  BY DEF PutArchive, PutClaim, PutRaises, Outcomes
<1>4. EvaluationFailsSystemically(l)
  BY <1>1, <1>2, <1>3 DEF TxStep
<1> QED BY <1>4 DEF EvaluationFailsSystemically, Owns, Signal, SystemicClasses

-----------------------------------------------------------------------------
(* Every step of a transaction brings it nearer to its end.                *)

Final == "control_plane_or_identity"

\* How far a transaction x is from its end.  A retry uses up an attempt, and an
\* error is published once, as the final class.
TxLeft(x) ==
    CASE x.pc = "off" -> 0
      [] x.pc = "raised" -> 1
      [] x.pc \in Outcomes \ {"raised"} -> 2
      [] x.pc = "claiming" /\ x.class = Final -> 3
      [] x.pc = "archiving" /\ x.class = Final -> 4
      [] x.pc = "erring" -> 5
      [] x.pc = "claiming" /\ x.class /= Final -> 6
      [] x.pc = "archiving" /\ x.class /= Final -> 7
      [] x.pc = "evaluating" -> 8 + MaxAttempts - x.attempt
      [] x.pc = "staging" -> 9 + MaxAttempts

LEMMA TxLeftBounds ==
  ASSUME NEW x \in TxType
  PROVE  TxLeft(x) \in 0..9 + MaxAttempts /\ (x.pc /= "off" => TxLeft(x) >= 1)
<1>1. x.pc \in Phases /\ x.attempt \in 0..MaxAttempts /\ MaxAttempts \in Nat \ {0}
  BY CountsAssumption DEF TxType
<1>2. CASE x.pc = "off"
  <2>1. TxLeft(x) = 0
    BY <1>2 DEF TxLeft
  <2> QED BY <1>1, <1>2, <2>1
<1>3. CASE x.pc \in {"archiving", "claiming", "erring"} \cup Outcomes
  <2>1. TxLeft(x) \in 1..7
    BY <1>3 DEF TxLeft
  <2> QED BY <1>1, <2>1
<1>4. CASE x.pc = "evaluating"
  <2>1. TxLeft(x) = 8 + MaxAttempts - x.attempt
    BY <1>4 DEF TxLeft
  <2> QED BY <1>1, <2>1
<1>5. CASE x.pc = "staging"
  <2>1. TxLeft(x) = 9 + MaxAttempts
    BY <1>5 DEF TxLeft
  <2> QED BY <1>1, <2>1
<1> QED BY <1>1, <1>2, <1>3, <1>4, <1>5

LEMMA TxNearer ==
  ASSUME TxTypeOK, NEW l \in Lanes, TxStep(l) \/ ExceedDeadline(l)
  PROVE  TxLeft(tx'[l]) < TxLeft(tx[l])
<1>0. /\ tx[l] \in TxType /\ tx[l].attempt \in 0..MaxAttempts /\ MaxAttempts \in Nat \ {0}
      /\ l \in DOMAIN tx
  BY CountsAssumption DEF TxTypeOK, TxType
<1> USE <1>0 DEF At
<1>1. ASSUME NEW p \in Phases, Goto(l, p)
      PROVE  tx'[l].pc = p /\ tx'[l].class = tx[l].class
  BY <1>1 DEF Goto, TxType
<1>2. ASSUME NEW k \in Kinds, Publish(l, k)
      PROVE  tx'[l].pc = "archiving" /\ tx'[l].class = k
  BY <1>2 DEF Publish, TxType
<1>3. CASE WorkTreeFails(l)
  BY <1>1, <1>3 DEF WorkTreeFails, TxLeft
<1>4. CASE Stage(l)
  <2>1. tx[l].pc = "staging" /\ tx'[l].pc = "evaluating" /\ tx'[l].attempt = 1
    BY <1>4 DEF Stage, TxType
  <2> QED BY <2>1 DEF TxLeft
<1>5. CASE PreparationRaises(l) \/ Withdraw(l) \/ ExceedDeadline(l)
  BY <1>1, <1>5 DEF PreparationRaises, Withdraw, ExceedDeadline, TxLeft
<1>6. CASE EvaluationPasses(l)
  BY <1>2, <1>6 DEF EvaluationPasses, TxLeft
<1>7. CASE EvaluationFailsSystemically(l)
  BY <1>1, <1>2, <1>7 DEF EvaluationFailsSystemically, TxLeft
<1>8. ASSUME NEW class \in Classes, EvaluationFails(l, class) PROVE TxLeft(tx'[l]) < TxLeft(tx[l])
  <2>1. tx[l].pc = "evaluating"
    BY <1>8 DEF EvaluationFails
  <2>2. CASE Goto(l, "cancelled") \/ Publish(l, class)
    BY <1>1, <1>2, <2>1, <2>2 DEF TxLeft
  <2>3. CASE Retryable(l, class) /\ tx' = [tx EXCEPT ![l].attempt = @ + 1]
    <3>1. tx'[l].pc = "evaluating" /\ tx'[l].attempt = tx[l].attempt + 1
      BY <2>1, <2>3 DEF TxType
    <3> QED BY <2>1, <3>1 DEF TxLeft
  <2> QED BY <1>8, <2>2, <2>3 DEF EvaluationFails
<1>9. CASE PutArchive(l)
  BY <1>1, <1>9 DEF PutArchive, TxLeft
<1>10. CASE PutClaim(l)
  <2>1. tx[l].pc = "claiming" /\ tx'[l].pc \in {"complete", "failed"}
    BY <1>1, <1>10 DEF PutClaim
  <2> QED BY <2>1 DEF TxLeft
<1>11. CASE PutRaises(l)
  <2>1. CASE tx[l].class = Final
    BY <1>1, <1>11, <2>1 DEF PutRaises, TxLeft, Final
  <2>2. CASE tx[l].class /= Final
    BY <1>1, <1>11, <2>2 DEF PutRaises, TxLeft, Final
  <2> QED BY <2>1, <2>2
<1>12. CASE HandleError(l)
  <2>1. tx[l].pc = "erring"
    BY <1>12 DEF HandleError
  <2>2. CASE Goto(l, "cancelled") \/ Goto(l, "raised")
    BY <1>1, <2>1, <2>2 DEF TxLeft
  <2>3. CASE Publish(l, Final)
    BY <1>2, <2>1, <2>3 DEF TxLeft, Final
  <2> QED BY <1>12, <2>2, <2>3 DEF HandleError, Final
<1> QED BY <1>3, <1>4, <1>5, <1>6, <1>7, <1>8, <1>9, <1>10, <1>11, <1>12 DEF TxStep
=============================================================================
