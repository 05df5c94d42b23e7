------------------------ MODULE ParallelCampaignProofs ------------------------
(***************************************************************************)
(* Proofs about ParallelCampaign for every queue size, lane count and      *)
(* retry limit.                                                            *)
(***************************************************************************)
EXTENDS ParallelCampaignProps, CellTransactionProofs, FiniteSetTheorems

-----------------------------------------------------------------------------
(* The inductive invariants.                                               *)

Serving(l) == lane[l] \in {"loop", "admitting"}

\* An open transaction is on the cell its lane is at, and only a run has one.
LaneShape ==
    \A l \in Lanes :
        /\ todo[l] \subseteq LaneCells(l)
        /\ InTx(l) => /\ lane[l] = "loop" /\ tx[l].cell \in todo[l]
                      /\ sup /= "idle"
        /\ lane[l] /= "off" => sup /= "idle"

\* What a stored claim, a claim about to be put and an orphaned one rest on.
EvidenceInv ==
    /\ EvidenceBacksClaims
    /\ \A l \in Lanes : tx[l].pc = "claiming" => <<tx[l].cell, tx[l].class>> \in archives
    /\ inflight \subseteq archives

\* What is recorded complete has its result claim.
RecordInv ==
    /\ \A c \in Cells : resume[c] = "complete" \/ record[c] = "complete" => c \in results
    /\ \A l \in Lanes : tx[l].pc = "complete" => tx[l].cell \in results
    /\ sup /= "idle" => manifest
    /\ completion => manifest /\ results = Cells

\* Without orphans nothing claims behind a lane's back: the cells it has still
\* to evaluate are unclaimed until its own put.
FreshInv ==
    /\ inflight = {}
    /\ \A l \in Lanes : InTx(l) => resume[tx[l].cell] = "none"
    /\ \A l \in Lanes : lane[l] = "admitting" =>
          \A c \in Cells : First(l, c) => resume[c] = "none"
    /\ \A l \in Lanes : Serving(l) =>
          \A c \in todo[l] :
             /\ resume[c] = "none"
             /\ InTx(l) /\ tx[l].cell = c => tx[l].pc \in BeforeClaim
             => Unclaimed(c)

\* Before anybody signals, no claim and no lane is systemic; afterwards at most
\* one lane is, and no claim but its own.
SystemicLane(l) == InTx(l) /\ tx[l].class \in SystemicClasses
SystemicInv ==
    /\ OneSystemicClaim
    /\ sup /= "idle" /\ systemicCell = NoCell =>
          /\ \A c \in Cells : failures[c] \notin SystemicClasses
          /\ \A l \in Lanes : ~SystemicLane(l)
    /\ \A l, m \in Lanes : SystemicLane(l) /\ SystemicLane(m) => l = m
    /\ \A l \in Lanes : SystemicLane(l) =>
          \A c \in Cells : failures[c] \in SystemicClasses => c = tx[l].cell

\* A run that knows of a systemic failure from its scan is cancelled and opens
\* no transaction.
HaltInv ==
    sup /= "idle" /\ KnownSystemic(resume) /= {} =>
        /\ cancel /\ systemicCell /= NoCell
        /\ \A l \in Lanes : lane[l] /= "admitting" /\ ~InTx(l)

\* A cell with a result and no failure, which is what a lane may go past.
Clean(c) == c \in results /\ failures[c] = "none"

\* A lane has clean cells behind it and unclaimed ones ahead, and so does the
\* cell of its transaction.
LaneOrderInv(l) ==
    /\ \A c \in LaneCells(l) \ todo[l] : Clean(c) /\ \A d \in todo[l] : c < d
    /\ lane[l] = "admitting" => \A c \in Cells : First(l, c) => resume[c] = "none"
    /\ InTx(l) => First(l, tx[l].cell) /\ resume[tx[l].cell] = "none"
    /\ Unpublished(l)
    /\ InTx(l) /\ (tx[l].class = "none" \/ tx[l].pc = "complete")
          => failures[tx[l].cell] = "none"
    /\ tx[l].pc = "complete" => tx[l].cell \in results
    /\ Serving(l) => \A c \in todo[l] :
          resume[c] = "none" /\ ~(InTx(l) /\ tx[l].cell = c) => Unclaimed(c)

OrderInv ==
    /\ inflight = {}
    /\ LaneOrder
    /\ \A c \in Cells : resume[c] = "complete" => Clean(c)
    /\ \A c, d \in Cells :
          LaneOf(c) = LaneOf(d) /\ d < c /\ resume[c] /= "none" => resume[d] = "complete"
    /\ \A c \in Cells : record[c] = "complete" => Clean(c) /\ \A l \in Lanes : c \notin todo[l]
    /\ completion => \A c \in Cells : Clean(c)
    /\ sup /= "idle" => ~completion
    /\ \A l \in Lanes : LaneOrderInv(l)

\* What keeps a stored failure in a lane's account: the lane has recorded it, has
\* still to come to it, is at it, or has broken.
Coming(l, c) == lane[l] = "loop" /\ ~InTx(l) /\ c \in todo[l] /\ resume[c] /= "none"
Ending(l, c) == InTx(l) /\ tx[l].cell = c /\ tx[l].pc \in {"failed", "raised"}
Accounted(l, c) ==
    \/ lane[l] = "done" /\ record[c] = "failed"
    \/ lane[l] = "raised"
    \/ Coming(l, c)
    \/ Ending(l, c)
AllNew(l) == \A c \in todo[l] : resume[c] = "none"

\* A run that nobody stopped for the whole queue accounts for every failure.
Quiet == sup = "running" /\ systemicCell = NoCell /\ flags \cap {"resource", "disk"} = {}
AccountInv ==
    /\ ExitZeroIsHonest
    /\ sup /= "idle" => exit = "none"
    /\ sup = "idle" => /\ flags = {} /\ clock = "ample" /\ ~cancel
                       /\ \A l \in Lanes : todo[l] = LaneCells(l)
    /\ \A l \in Lanes : lane[l] = "admitting" \/ InTx(l) => AllNew(l)
    /\ clock /= "ample" => \A l \in Lanes : Serving(l) => AllNew(l)
    /\ "deadline" \in flags \/ (\E l \in Lanes : tx[l].pc = "deadline") => clock = "expired"
    /\ Quiet => /\ cancel => "deadline" \in flags
               /\ \A l \in Lanes : \A c \in LaneCells(l) :
                     failures[c] /= "none" => Accounted(l, c)

-----------------------------------------------------------------------------
USE DEF Cells, NoCell, Kinds, Classes, SystemicClasses, Outcomes, Phases

LEMMA ReturnTyped ==
  ASSUME TypeOK, NEW st \in Exits, Return(st)
  PROVE  /\ TxTypeOK'
         /\ sup' \in SupPhases /\ exit' \in Exits
         /\ resume' \in [Cells -> {"complete"} \cup Kinds]
         /\ lane' \in [Lanes -> LanePhases]
         /\ todo' \in [Lanes -> SUBSET Cells]
         /\ record' \in [Cells -> Records]
         /\ flags' \subseteq {"resource", "disk", "deadline"}
         /\ clock' \in {"ample", "low", "expired"}
<1>1. TxTypeOK'
  BY NoTxTyped DEF TypeOK, TxTypeOK, Return, Reset, NoTx
<1> QED BY <1>1 DEF Return, Reset, SupPhases, LanePhases, Records, LaneCells

LEMMA StartTyped == TypeOK /\ Start => TypeOK'
<1> SUFFICES ASSUME TypeOK, Start PROVE TypeOK'
  OBVIOUS
<1>1. CASE StartComplete
  BY <1>1, ReturnTyped DEF StartComplete, TypeOK, Exits
<1>2. CASE StartRaises
  BY <1>2, ReturnTyped, ModesAssumption DEF StartRaises, TypeOK, Exits
<1>3. CASE StartBlocked
  BY <1>3, ReturnTyped DEF StartBlocked, TypeOK, Exits
<1>4. CASE StartLanes
  <2>1. resume' \in [Cells -> {"complete"} \cup Kinds]
    BY <1>4 DEF StartLanes, ExistingRecord, TypeOK, TxTypeOK
  <2>2. cancel' \in BOOLEAN /\ systemicCell' \in Cells \cup {NoCell}
    BY <1>4 DEF StartLanes, KnownSystemic, TypeOK, TxTypeOK, signalVars
  <2> QED BY <1>4, <2>1, <2>2
          DEF StartLanes, TypeOK, TxTypeOK, storeVars, SupPhases, Exits, LanePhases
<1> QED BY <1>1, <1>2, <1>3, <1>4 DEF Start

LEMMA LaneTyped ==
  ASSUME TypeOK, NEW l \in Lanes, LaneStep(l)
  PROVE  TypeOK'
<1> USE DEF laneVars, mainVars, txVars, storeVars, signalVars, Enter, Record,
            LanePhases, Records
<1>1. CASE LaneStops(l) \/ LaneBreaks(l)
  BY <1>1 DEF LaneStops, LaneBreaks, TypeOK, TxTypeOK
<1>2. CASE LaneResumes(l)
  <2>1. PICK c \in Cells : LaneResumes(l)!(c)
    BY <1>2 DEF LaneResumes
  <2>2. cancel' \in BOOLEAN /\ systemicCell' \in Cells \cup {NoCell}
    BY <2>1, SignalTyped DEF TypeOK, TxTypeOK
  <2> QED BY <2>1, <2>2 DEF TypeOK, TxTypeOK
<1>3. CASE LaneProceeds(l)
  BY <1>3 DEF LaneProceeds, TypeOK, TxTypeOK
<1>4. CASE LaneBlockedByDisk(l)
  BY <1>4 DEF LaneBlockedByDisk, TypeOK, TxTypeOK
<1>5. CASE LaneNotAdmitted(l)
  BY <1>5 DEF LaneNotAdmitted, TypeOK, TxTypeOK
<1>6. CASE LaneBegins(l)
  <2>1. PICK c \in Cells : Begin(l, c)
    BY <1>6 DEF LaneBegins
  <2>2. NewTx(c) \in TxType
    BY <2>1, CountsAssumption DEF NewTx, TxType
  <2>3. NewTx(c).cell = c
    BY DEF NewTx
  <2> QED BY <1>6, <2>1, <2>2, <2>3 DEF LaneBegins, Begin, TypeOK, TxTypeOK
<1>7. CASE LaneTxStep(l)
  BY <1>7, TxStepTyped DEF LaneTxStep, TypeOK
<1>8. ASSUME NEW o \in Outcomes, Leaves(l, o)
      PROVE  /\ tx' \in [Lanes -> TxType]
             /\ \A m \in Lanes : tx'[m].pc /= "off" => tx'[m].cell \in Cells
             /\ tx[l].cell \in Cells
  BY <1>8, NoTxTyped DEF Leaves, At, TypeOK, TxTypeOK, NoTx
<1>9. CASE LaneCompletes(l)
  BY <1>8, <1>9 DEF LaneCompletes, Leaves, TypeOK, TxTypeOK
<1>10. CASE LaneFails(l)
  <2>1. cancel' \in BOOLEAN /\ systemicCell' \in Cells \cup {NoCell}
    BY <1>8, <1>10, SignalTyped DEF LaneFails, TypeOK, TxTypeOK
  <2> QED BY <1>8, <1>10, <2>1 DEF LaneFails, Leaves, TypeOK, TxTypeOK
<1>11. CASE LaneMissesDeadline(l)
  BY <1>8, <1>11 DEF LaneMissesDeadline, Leaves, TypeOK, TxTypeOK
<1>12. CASE LaneLeaves(l)
  BY <1>8, <1>12 DEF LaneLeaves, Leaves, TypeOK, TxTypeOK
<1> QED BY <1>1, <1>2, <1>3, <1>4, <1>5, <1>6, <1>7, <1>9, <1>10, <1>11, <1>12 DEF LaneStep

LEMMA MainTyped == TypeOK /\ (MainStep \/ Interrupt) => TypeOK'
<1> SUFFICES ASSUME TypeOK, MainStep \/ Interrupt PROVE TypeOK'
  OBVIOUS
<1>1. CASE Interrupt
  BY <1>1 DEF Interrupt, TypeOK, TxTypeOK, storeVars, laneVars, SupPhases
<1>2. CASE Drained
  BY <1>2, ReturnTyped DEF Drained, TypeOK, Exits
<1>3. CASE Conclude
  BY <1>3, ReturnTyped DEF Conclude, Verdict, TypeOK, Exits
<1>4. CASE CompletionPut
  BY <1>4, ReturnTyped DEF CompletionPut, TypeOK, Exits
<1>5. CASE CompletionRaises
  BY <1>5, ReturnTyped, ModesAssumption DEF CompletionRaises, TypeOK, Exits
<1> QED BY <1>1, <1>2, <1>3, <1>4, <1>5 DEF MainStep, LaneRaised

\* Orphans are claims of open transactions, so they are typed as those are.
LEMMA CrashTyped == TypeOK /\ Crash => TypeOK'
<1> SUFFICES ASSUME TypeOK, Crash PROVE TypeOK'
  OBVIOUS
<1>1. \A l \in Lanes : At(l, {"claiming"}) => <<tx[l].cell, tx[l].class>> \in Cells \X Kinds
  BY DEF At, TypeOK, TxTypeOK, TxType
<1>2. inflight' \subseteq Cells \X Kinds
  BY <1>1 DEF Crash, TypeOK
<1> QED BY <1>2, ReturnTyped DEF Crash, TypeOK, Exits

LEMMA OrphanTyped == TypeOK /\ OrphanEnds => TypeOK'
<1> SUFFICES ASSUME TypeOK, OrphanEnds PROVE TypeOK'
  OBVIOUS
<1>1. PICK p \in inflight : /\ StoreClaim(p[1], p[2]) \/ UNCHANGED storeVars
                            /\ inflight' = inflight \ {p}
  BY DEF OrphanEnds
<1>2. p[1] \in Cells /\ p[2] \in Kinds
  BY DEF TypeOK
<1>3. /\ results' \subseteq Cells
      /\ failures' \in [Cells -> Kinds]
      /\ archives' \subseteq Cells \X Kinds
  BY <1>1, <1>2, StoreClaimTyped DEF TypeOK, TxTypeOK, storeVars
<1> QED BY <1>1, <1>3 DEF OrphanEnds, TypeOK, TxTypeOK, signalVars, laneVars

\* Type correctness: every reachable state of a campaign of any size, under any
\* crashes, signals, ambiguous and orphaned puts, has the declared types.
THEOREM TypeCorrect == Spec => []TypeOK
<1>1. Init => TypeOK
  <2> SUFFICES ASSUME Init PROVE TypeOK
    OBVIOUS
  <2>1. TxTypeOK
    BY NoTxTyped DEF Init, TxInit, TxTypeOK, NoTx
  <2> QED BY <2>1 DEF Init, TypeOK, SupPhases, Exits, LanePhases, Records, LaneCells
<1>2. TypeOK /\ [Next]_vars => TypeOK'
  <2> SUFFICES ASSUME TypeOK, [Next]_vars PROVE TypeOK'
    OBVIOUS
  <2>1. CASE Tick
    BY <2>1 DEF Tick, TypeOK, TxTypeOK, txVars, laneVars, mainVars
  <2>2. CASE UNCHANGED vars
    BY <2>2 DEF vars, TypeOK, TxTypeOK, txVars, laneVars, mainVars
  <2> QED BY <2>1, <2>2, StartTyped, LaneTyped, MainTyped, CrashTyped, OrphanTyped DEF Next
<1> QED BY <1>1, <1>2, PTL DEF Spec

-----------------------------------------------------------------------------
(* The shape of lanes and transactions.                                    *)

\* Every way a run ends leaves no lane and no transaction behind.
Ended == \E st \in Exits : Return(st)

LEMMA EndingSteps ==
  Start \/ MainStep \/ Interrupt \/ Crash => Ended \/ StartLanes \/ Interrupt
BY DEF Start, MainStep, LaneRaised, Ended, StartComplete, StartRaises, StartBlocked,
       Drained, Conclude, Verdict, CompletionPut, CompletionRaises, Crash, Exits

LEMMA ReturnShape == Ended => LaneShape'
BY DEF Ended, Return, Reset, LaneShape, InTx, NoTx

LEMMA LaneStepShape ==
  ASSUME TypeOK, LaneShape, NEW l \in Lanes, LaneStep(l)
  PROVE  LaneShape'
<1>0. /\ sup' = sup
      /\ tx \in [Lanes -> TxType] /\ lane \in [Lanes -> LanePhases]
      /\ todo \in [Lanes -> SUBSET Cells]
  BY DEF LaneStep, LaneStops, LaneBreaks, LaneResumes, LaneProceeds, LaneBlockedByDisk,
         LaneNotAdmitted, LaneBegins, LaneTxStep, LaneCompletes, LaneFails,
         LaneMissesDeadline, LaneLeaves, Leaves, mainVars, TypeOK, TxTypeOK
<1> USE <1>0 DEF Enter
<1>1. CASE LaneStops(l) \/ LaneBreaks(l)
  BY <1>1 DEF LaneStops, LaneBreaks, Looping, Admitting, At, LaneShape, InTx, txVars
<1>2. CASE LaneResumes(l)
  <2>1. tx' = tx /\ tx[l].pc = "off" /\ sup /= "idle"
    BY <1>2 DEF LaneResumes, Looping, At
  <2>2. \A m \in Lanes : todo'[m] \subseteq todo[m] /\ (m /= l => todo'[m] = todo[m])
    BY <1>2 DEF LaneResumes
  <2>3. \A m \in Lanes : m /= l => lane'[m] = lane[m]
    BY <1>2 DEF LaneResumes
  <2> QED BY <2>1, <2>2, <2>3 DEF LaneShape, InTx
<1>3. CASE LaneProceeds(l)
  BY <1>3 DEF LaneProceeds, Looping, At, LaneShape, InTx, txVars
<1>4. CASE LaneBlockedByDisk(l)
  BY <1>4 DEF LaneBlockedByDisk, Admitting, LaneShape, InTx
<1>5. CASE LaneNotAdmitted(l)
  BY <1>5 DEF LaneNotAdmitted, Admitting, LaneShape, InTx
<1>6. CASE LaneBegins(l)
  <2>1. PICK c \in Cells : First(l, c) /\ Begin(l, c)
    BY <1>6 DEF LaneBegins
  <2>2. tx'[l].cell = c /\ \A m \in Lanes : m /= l => tx'[m] = tx[m]
    BY <2>1 DEF Begin, NewTx
  <2> QED BY <1>6, <2>1, <2>2 DEF LaneBegins, Admitting, First, LaneShape, InTx
<1>7. CASE LaneTxStep(l)
  BY <1>7, TxFrame DEF LaneTxStep, laneVars, LaneShape, InTx, TypeOK
<1>8. CASE LaneCompletes(l)
  <2>1. \A m \in Lanes : m /= l => tx'[m] = tx[m] /\ todo'[m] = todo[m]
    BY <1>8 DEF LaneCompletes, Leaves
  <2>2. tx'[l].pc = "off" /\ todo'[l] \subseteq todo[l] /\ lane' = lane
    BY <1>8 DEF LaneCompletes, Leaves, NoTx
  <2> QED BY <2>1, <2>2 DEF LaneShape, InTx
<1>9. CASE LaneFails(l) \/ LaneMissesDeadline(l) \/ LaneLeaves(l)
  <2>1. /\ \A m \in Lanes : m /= l => tx'[m] = tx[m] /\ lane'[m] = lane[m]
        /\ tx'[l].pc = "off" /\ todo' = todo /\ sup /= "idle"
    BY <1>9 DEF LaneFails, LaneMissesDeadline, LaneLeaves, Leaves, At, NoTx, LaneShape, InTx
  <2> QED BY <2>1 DEF LaneShape, InTx
<1> QED BY <1>1, <1>2, <1>3, <1>4, <1>5, <1>6, <1>7, <1>8, <1>9 DEF LaneStep

LEMMA ShapeInvariant == Spec => []LaneShape
<1>1. Init => LaneShape
  BY DEF Init, TxInit, LaneShape, InTx, NoTx
<1>2. TypeOK /\ LaneShape /\ [Next]_vars => LaneShape'
  <2> SUFFICES ASSUME TypeOK, LaneShape, [Next]_vars PROVE LaneShape'
    OBVIOUS
  <2>1. CASE StartLanes
    BY <2>1 DEF StartLanes, LaneShape, InTx, TypeOK
  <2>2. CASE Interrupt
    BY <2>2 DEF Interrupt, LaneShape, InTx, laneVars
  <2>3. CASE Tick \/ OrphanEnds \/ UNCHANGED vars
    BY <2>3 DEF Tick, OrphanEnds, vars, txVars, laneVars, mainVars, LaneShape, InTx
  <2> QED BY <2>1, <2>2, <2>3, EndingSteps, ReturnShape, LaneStepShape DEF Next
<1> QED BY <1>1, <1>2, TypeCorrect, PTL DEF Spec

-----------------------------------------------------------------------------
(* Evidence.                                                               *)

\* Outside its transaction a lane leaves the store alone.
LEMMA LaneFrame ==
  ASSUME NEW l \in Lanes, LaneStep(l)
  PROVE  /\ UNCHANGED mainVars
         /\ LaneTxStep(l) \/ UNCHANGED storeVars
<1> USE DEF storeVars, txVars
<1>1. CASE LaneStops(l) \/ LaneBreaks(l) \/ LaneResumes(l) \/ LaneProceeds(l)
  BY <1>1 DEF LaneStops, LaneBreaks, LaneResumes, LaneProceeds
<1>2. CASE LaneBlockedByDisk(l) \/ LaneNotAdmitted(l) \/ LaneBegins(l)
  BY <1>2 DEF LaneBlockedByDisk, LaneNotAdmitted, LaneBegins, Begin
<1>3. CASE LaneTxStep(l)
  BY <1>3 DEF LaneTxStep
<1>4. CASE LaneCompletes(l) \/ LaneFails(l) \/ LaneMissesDeadline(l) \/ LaneLeaves(l)
  BY <1>4 DEF LaneCompletes, LaneFails, LaneMissesDeadline, LaneLeaves, Leaves
<1> QED BY <1>1, <1>2, <1>3, <1>4 DEF LaneStep

\* Outside its transaction's own steps a lane opens one, closes one or keeps all.
LEMMA LaneTxFrame ==
  ASSUME TxTypeOK, NEW l \in Lanes, LaneStep(l), ~LaneTxStep(l)
  PROVE  /\ \A m \in Lanes : m /= l => tx'[m] = tx[m]
         /\ \/ tx'[l] = tx[l]
            \/ tx'[l] = NoTx
            \/ \E c \in Cells : tx'[l] = NewTx(c)
<1> USE DEF TxTypeOK
<1>1. CASE LaneStops(l) \/ LaneBreaks(l) \/ LaneResumes(l) \/ LaneProceeds(l)
  BY <1>1 DEF LaneStops, LaneBreaks, LaneResumes, LaneProceeds, txVars
<1>2. CASE LaneBlockedByDisk(l) \/ LaneNotAdmitted(l) \/ LaneBegins(l)
  BY <1>2 DEF LaneBlockedByDisk, LaneNotAdmitted, LaneBegins, Begin
<1>3. CASE LaneCompletes(l) \/ LaneFails(l) \/ LaneMissesDeadline(l) \/ LaneLeaves(l)
  BY <1>3 DEF LaneCompletes, LaneFails, LaneMissesDeadline, LaneLeaves, Leaves
<1> QED BY <1>1, <1>2, <1>3 DEF LaneStep

LEMMA LaneEvidence ==
  ASSUME TypeOK, EvidenceInv, NEW l \in Lanes, LaneStep(l)
  PROVE  EvidenceInv'
<1>0. inflight' = inflight /\ tx \in [Lanes -> TxType]
  BY LaneFrame DEF mainVars, TypeOK, TxTypeOK
<1>1. CASE LaneTxStep(l)
  <2>0. TxTypeOK /\ (TxStep(l) \/ ExceedDeadline(l))
    BY <1>1 DEF LaneTxStep, TypeOK
  <2>1. \A m \in Lanes : m /= l => tx'[m] = tx[m]
    BY <2>0, TxFrame
  <2>2. tx'[l].cell = tx[l].cell /\ tx[l].cell \in Cells /\ tx[l].class \in Kinds
    BY <1>0, <2>0, TxFrame DEF TxTypeOK, InTx, TxType
  <2>3. CASE UNCHANGED storeVars /\ tx'[l].pc \notin {"claiming", "complete"}
    BY <1>0, <2>1, <2>3 DEF EvidenceInv, EvidenceBacksClaims, storeVars
  <2>4. CASE tx[l].pc = "archiving" /\ StoreArchive(l) /\ tx'[l].class = tx[l].class
    BY <1>0, <2>1, <2>2, <2>4 DEF EvidenceInv, EvidenceBacksClaims, StoreArchive
  <2>5. CASE /\ tx[l].pc = "claiming" /\ StoreClaim(tx[l].cell, tx[l].class)
             /\ tx'[l].pc /= "claiming"
    <3>1. <<tx[l].cell, tx[l].class>> \in archives /\ failures \in [Cells -> Kinds]
      BY <2>5 DEF EvidenceInv, TypeOK, TxTypeOK
    <3>2. /\ archives' = archives
          /\ \A c \in results' : c \in results \/ (c = tx[l].cell /\ tx[l].class = "none")
          /\ \A c \in Cells : failures'[c] = failures[c]
                               \/ (c = tx[l].cell /\ failures'[c] = tx[l].class)
      BY <2>2, <2>5, <3>1 DEF StoreClaim
    <3>3. EvidenceBacksClaims'
      BY <3>1, <3>2 DEF EvidenceInv, EvidenceBacksClaims
    <3>4. \A m \in Lanes : tx'[m].pc = "claiming" => <<tx'[m].cell, tx'[m].class>> \in archives
      BY <2>1, <2>5 DEF EvidenceInv
    <3> QED BY <1>0, <3>2, <3>3, <3>4 DEF EvidenceInv
  <2> QED BY <2>0, <2>3, <2>4, <2>5, TxStore
<1>2. CASE UNCHANGED storeVars /\ ~LaneTxStep(l)
  <2>1. \A m \in Lanes : tx'[m].pc = "claiming" => tx'[m] = tx[m]
    <3>1. \A m \in Lanes : m /= l => tx'[m] = tx[m]
      BY <1>2, LaneTxFrame DEF TypeOK
    <3>2. tx'[l] = tx[l] \/ tx'[l] = NoTx \/ \E c \in Cells : tx'[l] = NewTx(c)
      BY <1>2, LaneTxFrame DEF TypeOK
    <3>3. NoTx.pc /= "claiming" /\ \A c \in Cells : NewTx(c).pc /= "claiming"
      BY DEF NoTx, NewTx
    <3> QED BY <3>1, <3>2, <3>3
  <2> QED BY <1>0, <1>2, <2>1 DEF EvidenceInv, EvidenceBacksClaims, storeVars
<1> QED BY <1>1, <1>2, LaneFrame

\* An ended run forgets only archives that nothing names.
LEMMA ReturnEvidence ==
  ASSUME TypeOK, EvidenceInv, Ended, inflight' \subseteq archives
  PROVE  EvidenceInv'
<1>1. PICK st \in Exits : Return(st)
  BY DEF Ended
<1>2. /\ results' = results /\ failures' = failures
      /\ archives' = {a \in archives : Named(a) \/ a \in inflight'}
      /\ \A l \in Lanes : tx'[l].pc = "off"
  BY <1>1 DEF Return, Reset, NoTx
<1>3. \A c \in results : <<c, "none">> \in archives'
  BY <1>2 DEF EvidenceInv, EvidenceBacksClaims, Named
<1>4. \A c \in Cells : failures[c] /= "none" => <<c, failures[c]>> \in archives'
  BY <1>2 DEF EvidenceInv, EvidenceBacksClaims, Named
<1>5. inflight' \subseteq archives'
  BY <1>2
<1> QED BY <1>2, <1>3, <1>4, <1>5 DEF EvidenceInv, EvidenceBacksClaims

\* For every campaign, with ambiguous puts and any number of orphaned ones: the
\* evidence archive of every stored claim is stored.
THEOREM EvidenceTheorem == Spec => []EvidenceBacksClaims
<1>1. Init => EvidenceInv
  BY DEF Init, TxInit, NoTx, EvidenceInv, EvidenceBacksClaims
<1>2. TypeOK /\ EvidenceInv /\ [Next]_vars => EvidenceInv'
  <2> SUFFICES ASSUME TypeOK, EvidenceInv, [Next]_vars PROVE EvidenceInv'
    OBVIOUS
  <2>1. CASE StartLanes
    BY <2>1 DEF StartLanes, EvidenceInv, EvidenceBacksClaims, storeVars
  <2>2. CASE Interrupt
    BY <2>2 DEF Interrupt, EvidenceInv, EvidenceBacksClaims, storeVars
  <2>3. CASE Tick \/ UNCHANGED vars
    BY <2>3 DEF Tick, vars, txVars, laneVars, mainVars, EvidenceInv, EvidenceBacksClaims
  <2>4. CASE OrphanEnds
    <3>1. PICK p \in inflight : /\ StoreClaim(p[1], p[2]) \/ UNCHANGED storeVars
                                /\ inflight' = inflight \ {p}
      BY <2>4 DEF OrphanEnds
    <3>2. /\ p[1] \in Cells /\ p[2] \in Kinds /\ p = <<p[1], p[2]>> /\ p \in archives
          /\ failures \in [Cells -> Kinds] /\ tx' = tx
      BY <2>4 DEF TypeOK, TxTypeOK, EvidenceInv, OrphanEnds
    <3> QED BY <3>1, <3>2 DEF StoreClaim, EvidenceInv, EvidenceBacksClaims, storeVars
  <2>5. CASE Crash
    <3>1. inflight' \subseteq archives
      BY <2>5 DEF Crash, EvidenceInv, At
    <3> QED BY <2>5, <3>1, ReturnEvidence DEF Crash, Ended, Exits
  <2>6. CASE (Start \/ MainStep) /\ Ended
    <3>1. inflight' = inflight
      BY <2>6 DEF Start, StartComplete, StartRaises, StartBlocked, StartLanes, MainStep,
         LaneRaised, Interrupt, Drained, Conclude, CompletionPut, CompletionRaises
    <3> QED BY <2>6, <3>1, ReturnEvidence DEF EvidenceInv
  <2> QED BY <2>1, <2>2, <2>3, <2>4, <2>5, <2>6, EndingSteps, LaneEvidence DEF Next
<1>3. EvidenceInv => EvidenceBacksClaims
  BY DEF EvidenceInv
<1> QED BY <1>1, <1>2, <1>3, TypeCorrect, PTL DEF Spec

-----------------------------------------------------------------------------
(* Completion.                                                             *)

LEMMA LaneRecords ==
  ASSUME TypeOK, RecordInv, NEW l \in Lanes, LaneStep(l)
  PROVE  RecordInv'
<1>0. /\ UNCHANGED mainVars
      /\ tx \in [Lanes -> TxType] /\ record \in [Cells -> Records]
      /\ results \subseteq Cells
  BY LaneFrame DEF TypeOK, TxTypeOK
<1> USE <1>0 DEF mainVars, storeVars, Record
<1>1. CASE LaneTxStep(l)
  <2>0. TxTypeOK /\ (TxStep(l) \/ ExceedDeadline(l)) /\ record' = record
    BY <1>1 DEF LaneTxStep, TypeOK, laneVars
  <2>1. \A m \in Lanes : m /= l => tx'[m] = tx[m]
    BY <2>0, TxFrame
  <2>2. tx'[l].cell = tx[l].cell /\ tx[l].cell \in Cells
    BY <2>0, TxFrame DEF TxTypeOK, InTx
  <2>3. /\ results \subseteq results' /\ results' \subseteq Cells
        /\ tx'[l].pc = "complete" => tx[l].cell \in results'
    BY <2>0, <2>2, TxStore DEF StoreArchive, StoreClaim
  <2> QED BY <2>0, <2>1, <2>2, <2>3 DEF RecordInv
<1>2. CASE UNCHANGED storeVars /\ ~LaneTxStep(l)
  <2>1. \A m \in Lanes : tx'[m].pc = "complete" => tx'[m] = tx[m]
    <3>1. \A m \in Lanes : m /= l => tx'[m] = tx[m]
      BY <1>2, LaneTxFrame DEF TypeOK
    <3>2. tx'[l] = tx[l] \/ tx'[l] = NoTx \/ \E c \in Cells : tx'[l] = NewTx(c)
      BY <1>2, LaneTxFrame DEF TypeOK
    <3>3. NoTx.pc /= "complete" /\ \A c \in Cells : NewTx(c).pc /= "complete"
      BY DEF NoTx, NewTx
    <3> QED BY <3>1, <3>2, <3>3
  <2>2. \A c \in Cells : record'[c] = "complete" => c \in results
    <3>1. CASE LaneStops(l) \/ LaneBreaks(l) \/ LaneBegins(l) \/ LaneLeaves(l)
      BY <3>1 DEF LaneStops, LaneBreaks, LaneBegins, LaneLeaves, RecordInv
    <3>2. CASE LaneResumes(l)
      BY <3>2 DEF LaneResumes, RecordInv
    <3>3. CASE LaneProceeds(l) \/ LaneBlockedByDisk(l) \/ LaneNotAdmitted(l)
      BY <3>3 DEF LaneProceeds, LaneBlockedByDisk, LaneNotAdmitted, RecordInv
    <3>4. CASE LaneCompletes(l) \/ LaneFails(l) \/ LaneMissesDeadline(l)
      BY <3>4 DEF LaneCompletes, LaneFails, LaneMissesDeadline, Leaves, At, RecordInv
    <3> QED BY <1>2, <3>1, <3>2, <3>3, <3>4 DEF LaneStep
  <2> QED BY <1>2, <2>1, <2>2 DEF RecordInv
<1> QED BY <1>1, <1>2, LaneFrame

\* For every campaign, with ambiguous puts and any number of orphaned ones: once
\* a completion claim is stored, the fast path of every later run verifies it.
THEOREM CompletionTheorem == Spec => []CompletionReverifies
<1>1. Init => RecordInv
  BY DEF Init, TxInit, NoTx, RecordInv
<1>2. TypeOK /\ RecordInv /\ [Next]_vars => RecordInv'
  <2> SUFFICES ASSUME TypeOK, RecordInv, [Next]_vars PROVE RecordInv'
    OBVIOUS
  <2>1. CASE StartLanes
    BY <2>1 DEF StartLanes, ExistingRecord, RecordInv, storeVars, TypeOK, TxTypeOK
  <2>2. CASE Interrupt
    BY <2>2 DEF Interrupt, RecordInv, storeVars, laneVars
  <2>3. CASE Tick \/ UNCHANGED vars
    BY <2>3 DEF Tick, vars, txVars, laneVars, mainVars, RecordInv
  <2>4. CASE OrphanEnds
    BY <2>4 DEF OrphanEnds, StoreClaim, RecordInv, storeVars, laneVars, TypeOK, TxTypeOK
  <2>5. CASE Ended /\ (Start \/ MainStep \/ Crash)
    <3>1. /\ results' = results
          /\ \A l \in Lanes : tx'[l].pc = "off"
          /\ \A c \in Cells : resume'[c] = "none" /\ record'[c] = "none"
          /\ sup' = "idle"
      BY <2>5 DEF Ended, Return, Reset, NoTx
    <3>2. completion' => manifest' /\ results = Cells
      <4>1. CASE StartComplete \/ StartBlocked \/ Drained \/ Conclude \/ Crash
        BY <4>1 DEF StartComplete, StartBlocked, Drained, Conclude, Crash, RecordInv
      <4>2. CASE StartRaises
        BY <4>2 DEF StartRaises, RecordInv
      <4>3. CASE (CompletionPut \/ CompletionRaises)
        <5>1. manifest' = manifest /\ sup = "running" /\ Verdict = "complete"
          BY <4>3 DEF CompletionPut, CompletionRaises, Joined
        <5>2. \A c \in Cells : record[c] = "complete"
          BY <5>1 DEF Verdict
        <5> QED BY <5>1, <5>2 DEF RecordInv, TypeOK, TxTypeOK
      <4>4. CASE StartLanes \/ LaneRaised
        BY <2>5, <4>4, <3>1 DEF StartLanes, LaneRaised, Interrupt
      <4> QED BY <2>5, <4>1, <4>2, <4>3, <4>4 DEF Start, MainStep
    <3> QED BY <3>1, <3>2 DEF RecordInv
  <2> QED BY <2>1, <2>2, <2>3, <2>4, <2>5, EndingSteps, LaneRecords DEF Next
<1>3. RecordInv /\ EvidenceBacksClaims => CompletionReverifies
  BY DEF RecordInv, EvidenceBacksClaims, CompletionReverifies
<1> QED BY <1>1, <1>2, <1>3, TypeCorrect, EvidenceTheorem, PTL DEF Spec

-----------------------------------------------------------------------------
(* Exclusive claims.                                                       *)

\* A put that answers what it did, and no put that outlives its supervisor.
ReliablePuts == ~AmbiguousPuts /\ MaxOrphans = 0

\* Lanes share no cell.
LEMMA DisjointLanes ==
  ASSUME LaneShape, NEW l \in Lanes, NEW m \in Lanes, l /= m, NEW c \in todo[l]
  PROVE  c \notin todo[m]
BY DEF LaneShape, LaneCells

LEMMA TxFresh ==
  ASSUME TypeOK, LaneShape, FreshInv, ExclusiveClaims, ~AmbiguousPuts,
         NEW l \in Lanes, LaneTxStep(l)
  PROVE  FreshInv' /\ ExclusiveClaims'
<1>0. /\ TxTypeOK /\ (TxStep(l) \/ ExceedDeadline(l))
      /\ UNCHANGED <<lane, todo, inflight, resume>>
      /\ failures \in [Cells -> Kinds]
  BY DEF LaneTxStep, TypeOK, TxTypeOK, laneVars, mainVars
<1>1. \A m \in Lanes : m /= l => tx'[m] = tx[m]
  BY <1>0, TxFrame
<1>2. /\ tx'[l].cell = tx[l].cell /\ tx[l].cell \in Cells
      /\ InTx(l) /\ tx'[l].pc /= "off"
  BY <1>0, TxFrame DEF TxTypeOK, InTx
<1>3. lane[l] = "loop" /\ tx[l].cell \in todo[l] /\ resume[tx[l].cell] = "none"
  BY <1>2 DEF LaneShape, FreshInv
<1>4. /\ inflight' = {}
      /\ \A m \in Lanes : InTx(m)' => resume'[tx'[m].cell] = "none"
      /\ \A m \in Lanes : lane'[m] = "admitting" =>
            \A c \in Cells : First(m, c)' => resume'[c] = "none"
  BY <1>0, <1>1, <1>2, <1>3 DEF FreshInv, InTx, First
<1>5. CASE /\ UNCHANGED <<results, failures>>
           /\ tx'[l].pc \in BeforeClaim => tx[l].pc \in BeforeClaim
  <2>1. ASSUME NEW m \in Lanes, Serving(m)', NEW c \in todo'[m], resume'[c] = "none",
               InTx(m)' /\ tx'[m].cell = c => tx'[m].pc \in BeforeClaim
        PROVE  Unclaimed(c)'
    BY <1>0, <1>1, <1>2, <1>5, <2>1 DEF FreshInv, Serving, InTx, Unclaimed
  <2> QED BY <1>4, <1>5, <2>1 DEF FreshInv, ExclusiveClaims, Conflict
<1>6. CASE /\ tx[l].pc = "claiming" /\ StoreClaim(tx[l].cell, tx[l].class)
           /\ tx'[l].pc \notin BeforeClaim
  <2>1. Unclaimed(tx[l].cell)
    BY <1>3, <1>6 DEF FreshInv, Serving, BeforeClaim
  <2>2. \A c \in Cells : c /= tx[l].cell =>
           (c \in results' <=> c \in results) /\ failures'[c] = failures[c]
    BY <1>0, <1>2, <1>6 DEF StoreClaim
  <2>3. ExclusiveClaims'
    <3>1. tx[l].cell \notin results' \/ failures'[tx[l].cell] = "none"
      BY <1>0, <1>2, <1>6, <2>1 DEF Unclaimed, StoreClaim
    <3>2. \A c \in Cells : c /= tx[l].cell => c \notin results' \/ failures'[c] = "none"
      BY <2>2 DEF ExclusiveClaims, Conflict
    <3> QED BY <3>1, <3>2 DEF ExclusiveClaims, Conflict
  <2>4. ASSUME NEW m \in Lanes, Serving(m)', NEW c \in todo'[m], resume'[c] = "none",
               InTx(m)' /\ tx'[m].cell = c => tx'[m].pc \in BeforeClaim
        PROVE  Unclaimed(c)'
    <3>1. c /= tx[l].cell
      BY <1>0, <1>2, <1>3, <1>6, <2>4, DisjointLanes DEF InTx
    <3>2. c \in Cells
      BY <1>0, <2>4 DEF TypeOK
    <3>3. InTx(m) /\ tx[m].cell = c => tx[m].pc \in BeforeClaim
      BY <1>1, <1>2, <2>4, <3>1 DEF InTx
    <3>4. Unclaimed(c)
      BY <1>0, <2>4, <3>3 DEF FreshInv, Serving
    <3> QED BY <2>2, <3>1, <3>2, <3>4 DEF Unclaimed
  <2> QED BY <1>4, <2>3, <2>4 DEF FreshInv
<1> QED BY <1>0, <1>5, <1>6, TxClaims

\* Outside its transaction a lane claims nothing: it drops a cell it has
\* claimed or found claimed, or opens a transaction on an unclaimed one.
LEMMA LaneFresh ==
  ASSUME TypeOK, LaneShape, FreshInv, NEW l \in Lanes, LaneStep(l), ~LaneTxStep(l)
  PROVE  FreshInv' /\ UNCHANGED <<results, failures>>
<1>0. /\ UNCHANGED <<results, failures, inflight, resume>>
      /\ tx \in [Lanes -> TxType] /\ lane \in [Lanes -> LanePhases]
      /\ todo \in [Lanes -> SUBSET Cells]
      /\ CellCount \in Nat
  BY LaneFrame, CountsAssumption DEF mainVars, storeVars, TypeOK, TxTypeOK
<1> USE <1>0 DEF Enter
<1>1. CASE LaneStops(l) \/ LaneBreaks(l)
  BY <1>1 DEF LaneStops, LaneBreaks, txVars, FreshInv, InTx, Serving, Unclaimed, First
<1>2. CASE LaneResumes(l)
  <2>1. /\ tx' = tx /\ lane[l] = "loop"
        /\ \A m \in Lanes : m /= l => todo'[m] = todo[m] /\ lane'[m] = lane[m]
        /\ todo'[l] \subseteq todo[l] /\ lane'[l] \in {"loop", "done"}
    BY <1>2 DEF LaneResumes, Looping
  <2> QED BY <2>1 DEF FreshInv, InTx, Serving, Unclaimed, First
<1>3. CASE LaneProceeds(l)
  <2>1. PICK c \in Cells : First(l, c) /\ resume[c] = "none"
    BY <1>3 DEF LaneProceeds
  <2>2. \A d \in Cells : First(l, d) => d = c
    BY <2>1 DEF First
  <2>3. /\ tx' = tx /\ todo' = todo /\ lane[l] = "loop"
        /\ \A m \in Lanes : m /= l => lane'[m] = lane[m]
        /\ lane'[l] \in {"admitting", "done"}
    BY <1>3 DEF LaneProceeds, Looping, txVars
  <2> QED BY <2>1, <2>2, <2>3 DEF FreshInv, InTx, Serving, Unclaimed, First
<1>4. CASE LaneBlockedByDisk(l) \/ LaneNotAdmitted(l)
  BY <1>4 DEF LaneBlockedByDisk, LaneNotAdmitted, FreshInv, InTx, Serving, Unclaimed, First
<1>5. CASE LaneBegins(l)
  <2>1. PICK c \in Cells : Admitting(l) /\ First(l, c) /\ Begin(l, c)
    BY <1>5 DEF LaneBegins
  <2>2. resume[c] = "none" /\ c \in todo[l] /\ lane[l] = "admitting" /\ tx[l].pc = "off"
    BY <2>1 DEF FreshInv, Admitting, First, Begin, At
  <2>3. /\ \A m \in Lanes : m /= l => tx'[m] = tx[m] /\ lane'[m] = lane[m]
        /\ tx'[l].cell = c /\ tx'[l].pc = "staging" /\ lane'[l] = "loop" /\ todo' = todo
    BY <1>5, <2>1 DEF LaneBegins, Begin, NewTx
  <2> QED BY <2>2, <2>3 DEF FreshInv, InTx, Serving, Unclaimed, First
<1>6. CASE LaneCompletes(l)
  <2>1. /\ \A m \in Lanes : m /= l => tx'[m] = tx[m] /\ todo'[m] = todo[m]
        /\ tx'[l].pc = "off" /\ todo'[l] = todo[l] \ {tx[l].cell} /\ lane' = lane
        /\ tx[l].pc = "complete"
    BY <1>6 DEF LaneCompletes, Leaves, At, NoTx
  <2>2. lane[l] = "loop"
    BY <2>1 DEF LaneShape, InTx
  <2> QED BY <2>1, <2>2 DEF FreshInv, InTx, Serving, Unclaimed, First
<1>7. CASE LaneFails(l) \/ LaneMissesDeadline(l) \/ LaneLeaves(l)
  <2>1. /\ \A m \in Lanes : m /= l => tx'[m] = tx[m] /\ lane'[m] = lane[m]
        /\ tx'[l].pc = "off" /\ todo' = todo /\ lane'[l] \in {"done", "raised"}
    BY <1>7 DEF LaneFails, LaneMissesDeadline, LaneLeaves, Leaves, NoTx
  <2> QED BY <2>1 DEF FreshInv, InTx, Serving, Unclaimed, First
<1> QED BY <1>1, <1>2, <1>3, <1>4, <1>5, <1>6, <1>7 DEF LaneStep

\* When no orphan is allowed, a crash leaves none.
LEMMA NoOrphan ==
  ASSUME TypeOK, inflight = {}, MaxOrphans = 0, Crash
  PROVE  inflight' = {}
<1> DEFINE L == {m \in Lanes : At(m, {"claiming"})}
           T == {<<tx[l].cell, tx[l].class>> : l \in L}
           f == [m \in L |-> <<tx[m].cell, tx[m].class>>]
<1>1. IsFiniteSet(Lanes)
  BY FS_Interval, CountsAssumption DEF Lanes
<1>2. IsFiniteSet(L)
  BY <1>1, FS_Subset
<1>3. f \in Surjection(L, T)
  BY DEF Surjection
<1>4. IsFiniteSet(T)
  BY <1>2, <1>3, FS_Surjection
<1>5. PICK S \in SUBSET T : /\ S /= {} => Cardinality(inflight \cup S) <= MaxOrphans
                            /\ inflight' = inflight \cup S
  BY DEF Crash
<1>6. IsFiniteSet(S) /\ inflight \cup S = S
  BY <1>4, <1>5, FS_Subset
<1>7. Cardinality(S) \in Nat
  BY <1>6, FS_CardinalityType
<1> QED BY <1>5, <1>6, <1>7, FS_EmptySet

\* Between runs and at a run's start the scan decides what a lane may claim.
LEMMA MainFresh ==
  ASSUME TypeOK, LaneShape, FreshInv, Ended \/ StartLanes \/ Interrupt,
         inflight' = {}
  PROVE  FreshInv' /\ UNCHANGED <<results, failures>>
<1>1. CASE Ended
  BY <1>1 DEF Ended, Return, Reset, NoTx, FreshInv, InTx, Serving
<1>2. CASE StartLanes
  <2>1. \A l \in Lanes : tx'[l].pc = "off" /\ lane'[l] = "loop"
    BY <1>2 DEF StartLanes, LaneShape, InTx
  <2>2. UNCHANGED <<results, failures, todo>> /\ todo \in [Lanes -> SUBSET Cells]
    BY <1>2 DEF StartLanes, storeVars, TypeOK
  <2>3. \A c \in Cells : resume'[c] = "none" => Unclaimed(c)
    BY <1>2 DEF StartLanes, ExistingRecord, Unclaimed
  <2> QED BY <2>1, <2>2, <2>3 DEF FreshInv, InTx, Serving, Unclaimed
<1>3. CASE Interrupt
  BY <1>3 DEF Interrupt, storeVars, laneVars, FreshInv, InTx, Serving, Unclaimed, First
<1> QED BY <1>1, <1>2, <1>3

LEMMA FreshInvariant == ReliablePuts => (Spec => [](FreshInv /\ ExclusiveClaims))
<1> SUFFICES ASSUME ReliablePuts PROVE Spec => [](FreshInv /\ ExclusiveClaims)
  OBVIOUS
<1> DEFINE Safe == FreshInv /\ ExclusiveClaims
<1>1. Init => Safe
  BY DEF Init, TxInit, NoTx, FreshInv, InTx, Serving, ExclusiveClaims, Conflict
<1>2. TypeOK /\ LaneShape /\ Safe /\ [Next]_vars => Safe'
  <2> SUFFICES ASSUME TypeOK, LaneShape, FreshInv, ExclusiveClaims, [Next]_vars
               PROVE  FreshInv' /\ ExclusiveClaims'
    OBVIOUS
  <2>1. CASE Tick \/ UNCHANGED vars
    BY <2>1 DEF Tick, vars, txVars, laneVars, mainVars, FreshInv, InTx, Serving,
       Unclaimed, First, ExclusiveClaims, Conflict
  <2>2. CASE OrphanEnds
    BY <2>2 DEF OrphanEnds, FreshInv
  <2>3. ASSUME NEW l \in Lanes, LaneStep(l)
        PROVE  FreshInv' /\ ExclusiveClaims'
    BY <2>3, TxFresh, LaneFresh DEF ReliablePuts, ExclusiveClaims, Conflict
  <2>4. CASE Start \/ MainStep \/ Interrupt \/ Crash
    <3>1. inflight' = {}
      <4>1. CASE Crash
        BY <4>1, NoOrphan DEF ReliablePuts, FreshInv
      <4>2. CASE Start \/ MainStep \/ Interrupt
        BY <4>2 DEF FreshInv, Start, StartComplete, StartRaises, StartBlocked, StartLanes,
           MainStep, LaneRaised, Interrupt, Drained, Conclude, CompletionPut,
           CompletionRaises
      <4> QED BY <2>4, <4>1, <4>2
    <3> QED BY <2>4, <3>1, EndingSteps, MainFresh DEF ExclusiveClaims, Conflict
  <2> QED BY <2>1, <2>2, <2>3, <2>4 DEF Next
<1>3. Safe => FreshInv /\ ExclusiveClaims
  OBVIOUS
<1> HIDE DEF Safe
<1> QED BY <1>1, <1>2, <1>3, TypeCorrect, ShapeInvariant, PTL DEF Spec

\* For every campaign whose puts answer what they did and die with their
\* supervisor: no cell ever holds both claims, through crashes, signals,
\* restarts and every interleaving of the lanes.
THEOREM ExclusiveTheorem == ReliablePuts => (Spec => []ExclusiveClaims)
BY FreshInvariant, PTL

-----------------------------------------------------------------------------
(* One systemic claim.                                                     *)

\* A transaction turns systemic only by taking the free ownership, and puts a
\* systemic claim only while it is systemic.
LEMMA TxSystemic ==
  ASSUME Parallel, TxTypeOK, NEW l \in Lanes, TxStep(l) \/ ExceedDeadline(l)
  PROVE  /\ systemicCell /= NoCell => systemicCell' /= NoCell
         /\ tx'[l].class \in SystemicClasses =>
              \/ tx[l].class \in SystemicClasses
              \/ systemicCell = NoCell /\ systemicCell' /= NoCell /\ failures' = failures
         /\ \A c \in Cells : failures'[c] \in SystemicClasses =>
              \/ failures[c] \in SystemicClasses
              \/ c = tx[l].cell /\ tx[l].class \in SystemicClasses
<1>0. /\ tx[l] \in TxType /\ DOMAIN tx = Lanes /\ failures \in [Cells -> Kinds]
      /\ tx[l].pc /= "off" => tx[l].cell \in Cells
  BY DEF TxTypeOK
<1> USE <1>0 DEF At, Goto, Publish, TxType, storeVars, signalVars
<1>1. CASE WorkTreeFails(l)
  BY <1>1 DEF WorkTreeFails
<1>2. CASE Stage(l)
  BY <1>2 DEF Stage
<1>3. CASE PreparationRaises(l) \/ Withdraw(l) \/ ExceedDeadline(l)
  <2>1. /\ UNCHANGED <<failures, systemicCell>> /\ tx'[l].class = tx[l].class
    BY <1>3 DEF PreparationRaises, Withdraw, ExceedDeadline
  <2> QED BY <2>1
<1>4. CASE EvaluationPasses(l)
  BY <1>4 DEF EvaluationPasses
<1>5. CASE EvaluationFailsSystemically(l)
  BY <1>5 DEF EvaluationFailsSystemically, Signal, Owns
<1>6. CASE \E k \in Classes : EvaluationFails(l, k)
  <2>1. PICK k \in {"transient", "unclassified"} : EvaluationFails(l, k)
    BY <1>6 DEF EvaluationFails
  <2>2. UNCHANGED <<failures, systemicCell>>
    BY <2>1 DEF EvaluationFails
  <2>3. tx'[l].class = tx[l].class \/ tx'[l].class = k
    <3>1. CASE Goto(l, "cancelled")
      BY <3>1
    <3>2. CASE tx' = [tx EXCEPT ![l].attempt = @ + 1]
      BY <3>2
    <3>3. CASE Publish(l, k)
      BY <3>3
    <3> QED BY <2>1, <3>1, <3>2, <3>3 DEF EvaluationFails
  <2> QED BY <2>1, <2>2, <2>3
<1>7. CASE PutArchive(l)
  BY <1>7 DEF PutArchive, StoreArchive
<1>8. CASE PutClaim(l)
  BY <1>8 DEF PutClaim, StoreClaim
<1>9. CASE PutRaises(l)
  <2>1. systemicCell' = systemicCell /\ tx'[l].class = tx[l].class
    BY <1>9 DEF PutRaises
  <2>2. \/ failures' = failures
        \/ failures' = [failures EXCEPT ![tx[l].cell] = tx[l].class]
    BY <1>9 DEF PutRaises, Store, StoreArchive, StoreClaim
  <2>3. \A c \in Cells :
           \/ failures'[c] = failures[c]
           \/ c = tx[l].cell /\ failures'[c] = tx[l].class
    BY <2>2
  <2> QED BY <2>1, <2>3
<1>10. CASE HandleError(l)
  BY <1>10 DEF HandleError, Signal, Owns
<1> QED BY <1>1, <1>2, <1>3, <1>4, <1>5, <1>6, <1>7, <1>8, <1>9, <1>10 DEF TxStep

LEMMA LaneSystemic ==
  ASSUME TypeOK, LaneShape, SystemicInv, NEW l \in Lanes, LaneStep(l)
  PROVE  SystemicInv'
<1>1. CASE LaneTxStep(l)
  <2>0. TxTypeOK /\ (TxStep(l) \/ ExceedDeadline(l)) /\ sup' = sup
    BY <1>1 DEF LaneTxStep, TypeOK, mainVars
  <2>1. /\ \A m \in Lanes : m /= l => tx'[m] = tx[m]
        /\ InTx(l) /\ tx'[l].cell = tx[l].cell /\ sup /= "idle"
    BY <2>0, TxFrame DEF LaneShape
  <2>2. /\ systemicCell /= NoCell => systemicCell' /= NoCell
        /\ tx'[l].class \in SystemicClasses =>
             \/ SystemicLane(l)
             \/ systemicCell = NoCell /\ systemicCell' /= NoCell /\ failures' = failures
        /\ \A c \in Cells : failures'[c] \in SystemicClasses =>
             \/ failures[c] \in SystemicClasses
             \/ c = tx[l].cell /\ SystemicLane(l)
    BY <2>0, <2>1, TxSystemic, ParallelAssumption DEF SystemicLane
  <2>3. \A m \in Lanes : m /= l => (SystemicLane(m)' <=> SystemicLane(m))
    BY <2>1 DEF SystemicLane, InTx
  <2>4. OneSystemicClaim'
    BY <2>2 DEF SystemicInv, OneSystemicClaim
  <2>5. sup' /= "idle" /\ systemicCell' = NoCell =>
          /\ \A c \in Cells : failures'[c] \notin SystemicClasses
          /\ \A m \in Lanes : ~SystemicLane(m)'
    <3>1. SystemicLane(l)' => tx'[l].class \in SystemicClasses
      BY DEF SystemicLane
    <3> QED BY <2>1, <2>2, <2>3, <3>1 DEF SystemicInv
  <2>6. ASSUME NEW m \in Lanes, SystemicLane(m)'
        PROVE  /\ \A n \in Lanes : SystemicLane(n)' => m = n
               /\ \A c \in Cells : failures'[c] \in SystemicClasses => c = tx'[m].cell
    <3>1. SystemicLane(l)' => tx'[l].class \in SystemicClasses
      BY DEF SystemicLane
    <3>2. CASE systemicCell = NoCell
      <4>1. \A n \in Lanes : ~SystemicLane(n)
        BY <2>1, <3>2 DEF SystemicInv
      <4>2. \A c \in Cells : failures[c] \notin SystemicClasses
        BY <2>1, <3>2 DEF SystemicInv
      <4> QED BY <2>2, <2>3, <2>6, <4>1, <4>2
    <3>3. CASE systemicCell /= NoCell
      <4>1. \A n \in Lanes : SystemicLane(n)' => SystemicLane(n)
        BY <2>2, <2>3, <3>1, <3>3
      <4> QED BY <2>1, <2>2, <2>6, <4>1 DEF SystemicInv
    <3> QED BY <3>2, <3>3
  <2> QED BY <2>4, <2>5, <2>6 DEF SystemicInv
<1>2. CASE UNCHANGED storeVars /\ ~LaneTxStep(l)
  <2>1. \A m \in Lanes : SystemicLane(m)' => SystemicLane(m) /\ tx'[m] = tx[m]
    <3>1. \A m \in Lanes : m /= l => tx'[m] = tx[m]
      BY <1>2, LaneTxFrame DEF TypeOK
    <3>2. tx'[l] = tx[l] \/ tx'[l] = NoTx \/ \E c \in Cells : tx'[l] = NewTx(c)
      BY <1>2, LaneTxFrame DEF TypeOK
    <3>3. /\ NoTx.class \notin SystemicClasses
          /\ \A c \in Cells : NewTx(c).class \notin SystemicClasses
      BY DEF NoTx, NewTx
    <3> QED BY <3>1, <3>2, <3>3 DEF SystemicLane, InTx
  <2>2. systemicCell /= NoCell => systemicCell' /= NoCell
    <3>1. CASE LaneStops(l) \/ LaneBreaks(l) \/ LaneResumes(l) \/ LaneProceeds(l)
      BY <3>1 DEF LaneStops, LaneBreaks, LaneResumes, LaneProceeds, Signal, txVars, signalVars
    <3>2. CASE LaneBlockedByDisk(l) \/ LaneNotAdmitted(l) \/ LaneBegins(l)
      BY <3>2 DEF LaneBlockedByDisk, LaneNotAdmitted, LaneBegins, Begin, signalVars
    <3>3. CASE LaneCompletes(l) \/ LaneFails(l) \/ LaneMissesDeadline(l) \/ LaneLeaves(l)
      BY <3>3 DEF LaneCompletes, LaneFails, LaneMissesDeadline, LaneLeaves, Signal, signalVars
    <3> QED BY <1>2, <3>1, <3>2, <3>3 DEF LaneStep
  <2>3. sup' = sup /\ failures' = failures
    BY <1>2, LaneFrame DEF mainVars, storeVars
  <2> QED BY <2>1, <2>2, <2>3 DEF SystemicInv, OneSystemicClaim
<1> QED BY <1>1, <1>2, LaneFrame

LEMMA SystemicInvariant == MaxOrphans = 0 => (Spec => []SystemicInv)
<1> SUFFICES ASSUME MaxOrphans = 0 PROVE Spec => []SystemicInv
  OBVIOUS
<1> DEFINE Safe == inflight = {} /\ SystemicInv
<1>1. Init => Safe
  BY DEF Init, TxInit, NoTx, SystemicInv, SystemicLane, InTx, OneSystemicClaim
<1>2. TypeOK /\ LaneShape /\ Safe /\ [Next]_vars => Safe'
  <2> SUFFICES ASSUME TypeOK, LaneShape, inflight = {}, SystemicInv, [Next]_vars
               PROVE  inflight' = {} /\ SystemicInv'
    OBVIOUS
  <2>1. CASE Tick \/ UNCHANGED vars
    BY <2>1 DEF Tick, vars, txVars, laneVars, mainVars, SystemicInv, SystemicLane, InTx,
       OneSystemicClaim
  <2>2. CASE OrphanEnds
    BY <2>2 DEF OrphanEnds
  <2>3. ASSUME NEW l \in Lanes, LaneStep(l)
        PROVE  inflight' = {} /\ SystemicInv'
    BY <2>3, LaneSystemic, LaneFrame DEF mainVars
  <2>4. CASE Start \/ MainStep \/ Interrupt \/ Crash
    <3>1. inflight' = {}
      <4>1. CASE Crash
        BY <4>1, NoOrphan
      <4>2. CASE Start \/ MainStep \/ Interrupt
        BY <4>2 DEF Start, StartComplete, StartRaises, StartBlocked, StartLanes,
           MainStep, LaneRaised, Interrupt, Drained, Conclude, CompletionPut,
           CompletionRaises
      <4> QED BY <2>4, <4>1, <4>2
    <3>2. CASE Ended
      <4>1. failures' = failures /\ sup' = "idle" /\ \A l \in Lanes : tx'[l].pc = "off"
        BY <3>2 DEF Ended, Return, Reset, NoTx
      <4>2. \A l \in Lanes : ~SystemicLane(l)'
        BY <4>1 DEF SystemicLane, InTx
      <4>3. OneSystemicClaim'
        BY <4>1 DEF SystemicInv, OneSystemicClaim
      <4> QED BY <3>1, <4>1, <4>2, <4>3 DEF SystemicInv
    <3>3. CASE Interrupt
      BY <3>1, <3>3 DEF Interrupt, storeVars, SystemicInv, SystemicLane, InTx, OneSystemicClaim
    <3>4. CASE StartLanes
      <4>1. UNCHANGED <<failures, tx>> /\ \A l \in Lanes : ~InTx(l)
        BY <3>4 DEF StartLanes, storeVars, LaneShape
      <4>2. systemicCell' = NoCell => \A c \in Cells : failures[c] \notin SystemicClasses
        <5>1. KnownSystemic(resume') /= {} => systemicCell' \in Cells
          BY <3>4 DEF StartLanes, KnownSystemic
        <5>2. \A c \in Cells : failures[c] \in SystemicClasses => c \in KnownSystemic(resume')
          BY <3>4 DEF StartLanes, KnownSystemic, ExistingRecord, Conflict
        <5> QED BY <5>1, <5>2
      <4>3. \A l \in Lanes : ~SystemicLane(l)'
        BY <4>1 DEF SystemicLane, InTx
      <4>4. OneSystemicClaim'
        BY <4>1 DEF SystemicInv, OneSystemicClaim
      <4> QED BY <3>1, <4>1, <4>2, <4>3, <4>4 DEF SystemicInv
    <3> QED BY <2>4, <3>1, <3>2, <3>3, <3>4, EndingSteps
  <2> QED BY <2>1, <2>2, <2>3, <2>4 DEF Next
<1>3. Safe => SystemicInv
  OBVIOUS
<1> HIDE DEF Safe
<1> QED BY <1>1, <1>2, <1>3, TypeCorrect, ShapeInvariant, PTL DEF Spec

\* For every campaign without orphaned puts, even when the puts it waits for are
\* ambiguous: lanes that fail systemically together leave one systemic claim.
THEOREM OneSystemicTheorem == MaxOrphans = 0 => (Spec => []OneSystemicClaim)
BY SystemicInvariant, PTL DEF SystemicInv

-----------------------------------------------------------------------------
(* A known systemic failure.                                               *)

KnowsSystemic == sup /= "idle" /\ KnownSystemic(resume) /= {}

\* In a cancelled run without transactions a lane can only stop or break.
LEMMA HaltedLane ==
  ASSUME HaltInv, KnowsSystemic, NEW l \in Lanes, LaneStep(l)
  PROVE  LaneStops(l) \/ LaneBreaks(l)
<1>1. cancel /\ lane[l] /= "admitting" /\ ~InTx(l)
  BY DEF HaltInv, KnowsSystemic
<1>2. ~LaneResumes(l) /\ ~LaneProceeds(l)
  BY <1>1 DEF LaneResumes, LaneProceeds
<1>3. ~LaneBlockedByDisk(l) /\ ~LaneNotAdmitted(l) /\ ~LaneBegins(l)
  BY <1>1 DEF LaneBlockedByDisk, LaneNotAdmitted, LaneBegins, Admitting
<1>4. ~TxStep(l) /\ ~ExceedDeadline(l)
  BY <1>1 DEF TxStep, WorkTreeFails, Stage, PreparationRaises, Withdraw, EvaluationPasses,
     EvaluationFailsSystemically, EvaluationFails, PutArchive, PutClaim, PutRaises,
     HandleError, ExceedDeadline, At, InTx
<1>5. ~LaneTxStep(l)
  BY <1>4 DEF LaneTxStep
<1>6. ~LaneCompletes(l) /\ ~LaneFails(l) /\ ~LaneMissesDeadline(l) /\ ~LaneLeaves(l)
  BY <1>1 DEF LaneCompletes, LaneFails, LaneMissesDeadline, LaneLeaves, Leaves, At, InTx
<1> QED BY <1>2, <1>3, <1>5, <1>6 DEF LaneStep

\* For every campaign without orphaned puts: a run whose scan found a systemic
\* failure puts neither a claim nor a completion.
THEOREM HaltTheorem == MaxOrphans = 0 => (Spec => KnownSystemicHaltsQueue)
<1> SUFFICES ASSUME MaxOrphans = 0 PROVE Spec => KnownSystemicHaltsQueue
  OBVIOUS
<1> DEFINE Safe == inflight = {} /\ HaltInv
           Unmoved == sup /= "idle" /\ KnownSystemic(resume) /= {}
                        => UNCHANGED <<results, failures, completion>>
<1>1. Init => Safe
  BY DEF Init, HaltInv
<1>2. TypeOK /\ LaneShape /\ Safe /\ [Next]_vars => Safe' /\ [Unmoved]_vars
  <2> SUFFICES ASSUME TypeOK, LaneShape, inflight = {}, HaltInv, [Next]_vars
               PROVE  inflight' = {} /\ HaltInv' /\ [Unmoved]_vars
    OBVIOUS
  <2>1. CASE Tick \/ UNCHANGED vars
    BY <2>1 DEF Tick, vars, txVars, laneVars, mainVars, HaltInv, InTx, KnownSystemic
  <2>2. CASE OrphanEnds
    BY <2>2 DEF OrphanEnds
  <2>3. ASSUME NEW l \in Lanes, LaneStep(l)
        PROVE  inflight' = {} /\ HaltInv' /\ [Unmoved]_vars
    <3>1. UNCHANGED mainVars
      BY <2>3, LaneFrame
    <3>2. CASE KnowsSystemic
      <4>1. LaneStops(l) \/ LaneBreaks(l)
        BY <2>3, <3>2, HaltedLane
      <4> QED BY <3>1, <3>2, <4>1
              DEF LaneStops, LaneBreaks, Enter, txVars, mainVars, HaltInv, KnowsSystemic, InTx, TypeOK
    <3>3. CASE ~KnowsSystemic
      BY <3>1, <3>3 DEF mainVars, HaltInv, KnowsSystemic, KnownSystemic
    <3> QED BY <3>2, <3>3
  <2>4. CASE Start \/ MainStep \/ Interrupt \/ Crash
    <3>1. inflight' = {}
      <4>1. CASE Crash
        BY <4>1, NoOrphan
      <4>2. CASE Start \/ MainStep \/ Interrupt
        BY <4>2 DEF Start, StartComplete, StartRaises, StartBlocked, StartLanes,
           MainStep, LaneRaised, Interrupt, Drained, Conclude, CompletionPut,
           CompletionRaises
      <4> QED BY <2>4, <4>1, <4>2
    <3>2. HaltInv'
      <4>1. CASE Ended
        BY <4>1 DEF Ended, Return, Reset, HaltInv
      <4>2. CASE Interrupt
        BY <4>2 DEF Interrupt, laneVars, HaltInv, InTx
      <4>3. CASE StartLanes
        <5>1. \A l \in Lanes : lane'[l] = "loop" /\ ~InTx(l)'
          BY <4>3 DEF StartLanes, LaneShape, InTx
        <5>2. KnownSystemic(resume') /= {} => cancel' /\ systemicCell' \in Cells
          BY <4>3 DEF StartLanes, KnownSystemic
        <5> QED BY <5>1, <5>2 DEF HaltInv
      <4> QED BY <2>4, <4>1, <4>2, <4>3, EndingSteps
    <3>3. Unmoved
      <4>1. CASE Ended /\ (Start \/ Drained \/ Conclude \/ Crash)
        BY <4>1 DEF Ended, Return, Start, StartComplete, StartRaises, StartBlocked,
           StartLanes, Drained, Conclude, Crash
      <4>2. CASE StartLanes \/ Interrupt
        BY <4>2 DEF StartLanes, Interrupt, storeVars
      <4>3. CASE CompletionPut \/ CompletionRaises
        <5>1. systemicCell = NoCell
          BY <4>3 DEF CompletionPut, CompletionRaises, Verdict
        <5> QED BY <5>1 DEF HaltInv
      <4> QED BY <2>4, <4>1, <4>2, <4>3, EndingSteps DEF MainStep, LaneRaised
    <3> QED BY <3>1, <3>2, <3>3
  <2> QED BY <2>1, <2>2, <2>3, <2>4 DEF Next
<1> HIDE DEF Safe
<1> QED BY <1>1, <1>2, TypeCorrect, ShapeInvariant, PTL DEF Spec, KnownSystemicHaltsQueue

-----------------------------------------------------------------------------
(* The order of the claims.                                                *)

\* A transaction's step claims its own cell at most.
LEMMA TxClaim ==
  ASSUME TypeOK, LaneShape, OrderInv, NEW l \in Lanes, LaneTxStep(l)
  PROVE  /\ \A m \in Lanes : m /= l => tx'[m] = tx[m]
         /\ InTx(l) /\ tx'[l].pc /= "off" /\ tx'[l].cell = tx[l].cell
         /\ tx[l].cell \in Cells /\ tx[l].cell \in todo[l] /\ lane[l] = "loop"
         /\ \A c \in Cells : c /= tx[l].cell =>
               (c \in results' <=> c \in results) /\ failures'[c] = failures[c]
         /\ results \subseteq results'
         /\ Unpublished(l)'
         /\ tx'[l].class = "none" \/ tx'[l].pc = "complete"
               => failures'[tx[l].cell] = "none"
         /\ tx'[l].pc = "complete" => tx[l].cell \in results'
         /\ UNCHANGED <<laneVars, mainVars>>
<1>1. /\ TxTypeOK /\ (TxStep(l) \/ ExceedDeadline(l))
      /\ UNCHANGED <<laneVars, mainVars>>
  BY DEF LaneTxStep, TypeOK
<1>2. /\ \A m \in Lanes : m /= l => tx'[m] = tx[m]
      /\ InTx(l) /\ tx'[l].pc /= "off" /\ tx'[l].cell = tx[l].cell
  BY <1>1, TxFrame
<1>3. /\ tx[l].cell \in Cells /\ tx[l].class \in Kinds
      /\ tx[l].cell \in todo[l] /\ lane[l] = "loop"
  BY <1>1, <1>2 DEF TxTypeOK, TxType, InTx, LaneShape
<1>4. LaneOrderInv(l)
  BY DEF OrderInv
<1>5. Unpublished(l)' /\ (tx'[l].class = "none" \/ tx'[l].pc = "complete" => tx[l].class = "none")
  BY <1>1, <1>4, TxSuccess DEF LaneOrderInv
<1>6. tx[l].class = "none" => failures[tx[l].cell] = "none"
  BY <1>2, <1>4 DEF LaneOrderInv
<1>7. CASE StoreClaim(tx[l].cell, tx[l].class)
  <2>1. /\ \A c \in Cells : c /= tx[l].cell =>
               (c \in results' <=> c \in results) /\ failures'[c] = failures[c]
        /\ tx[l].class = "none" => results' = results \cup {tx[l].cell} /\ failures' = failures
        /\ tx[l].class /= "none" => results' = results
    BY <1>1, <1>3, <1>7, StoreClaimEffect
  <2>2. results \subseteq results'
    BY <2>1
  <2>3. tx'[l].class = "none" \/ tx'[l].pc = "complete"
           => failures'[tx[l].cell] = "none" /\ tx[l].cell \in results'
    BY <1>5, <1>6, <2>1
  <2> QED BY <1>1, <1>2, <1>3, <1>5, <2>1, <2>2, <2>3
<1>8. CASE ~StoreClaim(tx[l].cell, tx[l].class)
  <2>1. results' = results /\ failures' = failures /\ tx'[l].pc /= "complete"
    BY <1>1, <1>8, TxStore DEF storeVars, StoreArchive
  <2> QED BY <1>1, <1>2, <1>3, <1>5, <1>6, <2>1
<1> QED BY <1>7, <1>8

LEMMA TxOrder ==
  ASSUME TypeOK, LaneShape, OrderInv, NEW l \in Lanes, LaneTxStep(l)
  PROVE  OrderInv'
<1> DEFINE n == tx[l].cell
<1>0. /\ \A m \in Lanes : m /= l => tx'[m] = tx[m]
      /\ InTx(l) /\ tx'[l].pc /= "off" /\ tx'[l].cell = n
      /\ n \in Cells /\ n \in todo[l] /\ lane[l] = "loop"
      /\ \A c \in Cells : c /= n =>
            (c \in results' <=> c \in results) /\ failures'[c] = failures[c]
      /\ UNCHANGED <<lane, todo, record, inflight, resume, sup, completion>>
  BY TxClaim DEF laneVars, mainVars
<1>1. /\ Unpublished(l)'
      /\ tx'[l].class = "none" \/ tx'[l].pc = "complete" => failures'[n] = "none"
      /\ tx'[l].pc = "complete" => n \in results'
  BY TxClaim
<1>2. /\ First(l, n) /\ resume[n] = "none" /\ n \in LaneCells(l) /\ Serving(l)
      /\ \A c \in LaneCells(l) \ todo[l] : Clean(c) /\ c < n
      /\ \A c \in todo[l] : resume[c] = "none" /\ c /= n => Unclaimed(c)
  BY <1>0 DEF OrderInv, LaneOrderInv, LaneShape, Serving
<1>3. \A c \in Cells : c /= n => (Clean(c)' <=> Clean(c)) /\ (Unclaimed(c)' <=> Unclaimed(c))
  BY <1>0 DEF Clean, Unclaimed
<1> HIDE DEF n
<1>4. ASSUME NEW c \in Cells, NEW d \in Cells, LaneOf(c) = LaneOf(d), d < c, ~Unclaimed(c)'
      PROVE  Clean(d)'
  <2>1. CASE c = n
    <3>1. d \in LaneCells(l) /\ d \notin todo[l]
      BY <1>0, <1>2, <1>4, <2>1 DEF LaneCells, First
    <3> QED BY <1>2, <1>3, <1>4, <2>1, <3>1
  <2>2. CASE d = n
    <3>1. c \in LaneCells(l) /\ c \in todo[l]
      BY <1>0, <1>2, <1>4, <2>2 DEF LaneCells
    <3>2. resume[c] = "none"
      BY <1>2, <1>4, <2>2 DEF OrderInv
    <3> QED BY <1>2, <1>3, <1>4, <2>2, <3>1, <3>2
  <2>3. CASE c /= n /\ d /= n
    BY <1>3, <1>4, <2>3 DEF OrderInv, LaneOrder, Unclaimed, Clean
  <2> QED BY <2>1, <2>2, <2>3
<1>5. LaneOrder'
  BY <1>4 DEF LaneOrder, Unclaimed, Clean
<1>6. /\ \A c \in Cells : resume'[c] = "complete" => Clean(c)'
      /\ \A c \in Cells : record'[c] = "complete"
            => Clean(c)' /\ \A m \in Lanes : c \notin todo'[m]
  BY <1>0, <1>2, <1>3 DEF OrderInv
<1>7. sup /= "idle" /\ ~completion
  BY <1>0 DEF LaneShape, OrderInv
<1>8. ASSUME NEW m \in Lanes, m /= l
      PROVE  LaneOrderInv(m)'
  <2>1. n \notin LaneCells(m) /\ n \notin todo[m] /\ todo[m] \subseteq LaneCells(m)
    BY <1>2, <1>8 DEF LaneCells, LaneShape
  <2>2. tx'[m] = tx[m] /\ (InTx(m) => tx[m].cell \in todo[m])
    BY <1>0, <1>8 DEF LaneShape
  <2>3. LaneOrderInv(m) /\ todo[m] \subseteq Cells /\ LaneCells(m) \subseteq Cells
    BY DEF OrderInv, TypeOK, LaneCells
  <2>4. \A c \in LaneCells(m) \ todo'[m] : Clean(c)' /\ \A d \in todo'[m] : c < d
    BY <1>0, <1>3, <2>1, <2>3 DEF LaneOrderInv
  <2>5. InTx(m) => tx[m].cell \in Cells /\ tx[m].cell /= n
    BY <2>1, <2>2, <2>3
  <2>6. tx[m].pc = "complete" => InTx(m)
    BY DEF InTx
  <2>7. InTx(m) /\ (tx[m].class = "none" \/ tx[m].pc = "complete")
           => failures'[tx[m].cell] = "none"
    BY <1>0, <2>3, <2>5 DEF LaneOrderInv
  <2>8. tx[m].pc = "complete" => tx[m].cell \in results'
    BY <1>0, <2>3, <2>5, <2>6 DEF LaneOrderInv
  <2>9. Serving(m) => \A c \in todo[m] :
           resume[c] = "none" /\ ~(InTx(m) /\ tx[m].cell = c) => Unclaimed(c)'
    BY <1>3, <2>1, <2>3 DEF LaneOrderInv
  <2> QED BY <1>0, <2>2, <2>3, <2>4, <2>7, <2>8, <2>9
          DEF LaneOrderInv, Serving, InTx, First, Unpublished
<1>9. LaneOrderInv(l)'
  <2>1. todo[l] \subseteq Cells /\ LaneCells(l) \subseteq Cells
    BY DEF TypeOK, LaneCells
  <2>2. \A c \in LaneCells(l) \ todo'[l] : Clean(c)' /\ \A d \in todo'[l] : c < d
    BY <1>0, <1>2, <1>3, <2>1 DEF OrderInv, LaneOrderInv
  <2>3. \A c \in todo[l] : resume[c] = "none" /\ c /= n => Unclaimed(c)'
    BY <1>2, <1>3, <2>1
  <2> QED BY <1>0, <1>1, <1>2, <2>2, <2>3 DEF LaneOrderInv, Serving, InTx, First
<1> QED BY <1>0, <1>5, <1>6, <1>7, <1>8, <1>9 DEF OrderInv

\* Outside its transaction a lane moves on over a cell with a result only.
LEMMA LaneOrderStep ==
  ASSUME TypeOK, LaneShape, OrderInv, NEW l \in Lanes, LaneStep(l), ~LaneTxStep(l)
  PROVE  OrderInv'
<1>0. /\ UNCHANGED <<results, failures, inflight, resume, sup, completion>>
      /\ tx \in [Lanes -> TxType] /\ lane \in [Lanes -> LanePhases]
      /\ todo \in [Lanes -> SUBSET Cells] /\ record \in [Cells -> Records]
      /\ LaneOrderInv(l)
  BY LaneFrame DEF mainVars, storeVars, TypeOK, TxTypeOK, OrderInv
<1>1. \A c : (Clean(c)' <=> Clean(c)) /\ (Unclaimed(c)' <=> Unclaimed(c))
  BY <1>0 DEF Clean, Unclaimed
<1>2. /\ LaneOrder'
      /\ \A c \in Cells : resume'[c] = "complete" => Clean(c)'
      /\ completion' => \A c \in Cells : Clean(c)'
  BY <1>0, <1>1 DEF OrderInv, LaneOrder
<1>3. ASSUME NEW m \in Lanes, m /= l PROVE LaneOrderInv(m)'
  <2>1. tx'[m] = tx[m]
    BY <1>0, <1>3, LaneTxFrame DEF TypeOK
  <2>2. lane'[m] = lane[m] /\ todo'[m] = todo[m]
    <3>1. CASE LaneStops(l) \/ LaneBreaks(l) \/ LaneResumes(l) \/ LaneProceeds(l)
      BY <1>0, <1>3, <3>1 DEF LaneStops, LaneBreaks, LaneResumes, LaneProceeds, Enter
    <3>2. CASE LaneBlockedByDisk(l) \/ LaneNotAdmitted(l) \/ LaneBegins(l)
      BY <1>0, <1>3, <3>2 DEF LaneBlockedByDisk, LaneNotAdmitted, LaneBegins, Enter
    <3>3. CASE LaneCompletes(l) \/ LaneFails(l) \/ LaneMissesDeadline(l) \/ LaneLeaves(l)
      BY <1>0, <1>3, <3>3 DEF LaneCompletes, LaneFails, LaneMissesDeadline, LaneLeaves, Enter
    <3> QED BY <3>1, <3>2, <3>3 DEF LaneStep
  <2> QED BY <1>0, <1>1, <2>1, <2>2
          DEF OrderInv, LaneOrderInv, Serving, InTx, First, Unpublished, Clean, Unclaimed
<1> DEFINE Recorded == \A c \in Cells : record'[c] = "complete"
                          => Clean(c)' /\ \A m \in Lanes : c \notin todo'[m]
<1> SUFFICES Recorded /\ LaneOrderInv(l)'
  BY <1>0, <1>1, <1>2, <1>3 DEF OrderInv
<1> USE <1>0 DEF Enter, Record
<1>4. CASE LaneStops(l) \/ LaneBreaks(l)
  <2>1. /\ UNCHANGED <<tx, todo, record>> /\ lane'[l] \in {"done", "raised"}
        /\ ~InTx(l)
    BY <1>4 DEF LaneStops, LaneBreaks, Looping, Admitting, At, txVars, LaneShape, InTx
  <2> QED BY <1>1, <2>1 DEF OrderInv, LaneOrderInv, Serving, InTx, Unpublished
<1>5. CASE LaneResumes(l)
  <2>1. PICK c \in Cells :
          /\ First(l, c) /\ resume[c] /= "none" /\ ~InTx(l) /\ tx' = tx /\ lane[l] = "loop"
          /\ IF resume[c] = "complete"
             THEN /\ record' = [record EXCEPT ![c] = "complete"] /\ lane' = lane
                  /\ todo' = [todo EXCEPT ![l] = @ \ {c}]
             ELSE /\ record' = [record EXCEPT ![c] = "failed"]
                  /\ lane' = [lane EXCEPT ![l] = "done"] /\ todo' = todo
    BY <1>5 DEF LaneResumes, Looping, At, InTx
  <2>2. CASE resume[c] = "complete"
    <3>1. Clean(c) /\ todo'[l] = todo[l] \ {c} /\ c \in todo[l] /\ c \in LaneCells(l)
      BY <2>1, <2>2 DEF OrderInv, First, LaneShape
    <3>2. \A m \in Lanes : c \notin todo'[m] /\ todo'[m] \subseteq todo[m]
      BY <2>1, <2>2, <3>1, DisjointLanes
    <3>3. Recorded
      <4>1. record' = [record EXCEPT ![c] = "complete"]
        BY <2>1, <2>2
      <4>2. \A d \in Cells : record'[d] = "complete" => d = c \/ record[d] = "complete"
        BY <4>1
      <4> QED BY <1>1, <3>1, <3>2, <4>2 DEF OrderInv
    <3>4. \A d \in LaneCells(l) \ todo'[l] : Clean(d)' /\ \A e \in todo'[l] : d < e
      BY <1>1, <2>1, <3>1 DEF LaneOrderInv, First, LaneCells
    <3> QED BY <1>1, <2>1, <2>2, <3>1, <3>3, <3>4
            DEF LaneOrderInv, Serving, InTx, Unpublished
  <2>3. CASE resume[c] /= "complete"
    <3>1. record' = [record EXCEPT ![c] = "failed"] /\ lane'[l] = "done" /\ todo' = todo
      BY <2>1, <2>3
    <3>2. \A d \in Cells : record'[d] = "complete" => record[d] = "complete"
      BY <3>1
    <3>3. Recorded
      BY <1>1, <3>1, <3>2 DEF OrderInv
    <3> QED BY <1>1, <2>1, <3>1, <3>3 DEF LaneOrderInv, Serving, InTx, Unpublished
  <2> QED BY <2>2, <2>3
<1>6. CASE LaneProceeds(l) \/ LaneBlockedByDisk(l) \/ LaneNotAdmitted(l)
  <2>1. PICK c \in Cells :
          /\ First(l, c) /\ ~InTx(l) /\ tx' = tx /\ todo' = todo
          /\ lane[l] \in {"loop", "admitting"}
          /\ \/ lane'[l] = "admitting" /\ resume[c] = "none"
             \/ lane'[l] = "done"
          /\ \A d \in Cells : record'[d] = "complete" => record[d] = "complete"
    BY <1>6 DEF LaneProceeds, LaneBlockedByDisk, LaneNotAdmitted, Looping, Admitting, At,
       txVars, InTx, LaneShape
  <2>2. \A d \in Cells : First(l, d) => d = c
    BY <2>1 DEF First
  <2>3. Recorded
    BY <1>1, <2>1 DEF OrderInv
  <2> QED BY <1>1, <2>1, <2>2, <2>3 DEF LaneOrderInv, Serving, InTx, Unpublished, First
<1>7. CASE LaneBegins(l)
  <2>1. PICK c \in Cells :
          /\ First(l, c) /\ ~InTx(l) /\ tx'[l] = NewTx(c) /\ lane[l] = "admitting"
          /\ lane'[l] = "loop" /\ UNCHANGED <<todo, record>>
    BY <1>7 DEF LaneBegins, Begin, Admitting, At, InTx
  <2>2. resume[c] = "none" /\ c \in todo[l]
    BY <2>1 DEF LaneOrderInv, First
  <2>3. Unclaimed(c)
    BY <2>1, <2>2 DEF LaneOrderInv, Serving
  <2>4. Recorded
    BY <1>1, <2>1 DEF OrderInv
  <2> QED BY <1>1, <2>1, <2>2, <2>3, <2>4
          DEF LaneOrderInv, Serving, InTx, Unpublished, First, NewTx, Unclaimed
<1>8. CASE LaneCompletes(l)
  <2> DEFINE c == tx[l].cell
  <2>1. /\ tx[l].pc = "complete" /\ InTx(l) /\ tx'[l] = NoTx /\ lane' = lane
        /\ record' = [record EXCEPT ![c] = "complete"]
        /\ todo' = [todo EXCEPT ![l] = @ \ {c}]
    BY <1>8 DEF LaneCompletes, Leaves, At, InTx
  <2>2. First(l, c) /\ Clean(c) /\ c \in Cells /\ c \in todo[l] /\ c \in LaneCells(l)
    BY <2>1 DEF LaneOrderInv, First, Clean, LaneShape
  <2> HIDE DEF c
  <2>3. todo'[l] = todo[l] \ {c}
    BY <2>1
  <2>4. \A m \in Lanes : c \notin todo'[m] /\ todo'[m] \subseteq todo[m]
    BY <2>1, <2>2, DisjointLanes
  <2>5. Recorded
    BY <1>1, <2>1, <2>2, <2>4 DEF OrderInv
  <2>6. \A d \in LaneCells(l) \ todo'[l] : Clean(d)' /\ \A e \in todo'[l] : d < e
    BY <1>1, <2>2, <2>3 DEF LaneOrderInv, First, LaneCells
  <2>7. \A d \in todo'[l] : resume[d] = "none" => Unclaimed(d)'
    BY <1>1, <2>1, <2>2, <2>3 DEF LaneOrderInv, Serving, LaneShape, c
  <2>8. lane'[l] = "loop"
    BY <2>1 DEF LaneShape
  <2> QED BY <2>1, <2>5, <2>6, <2>7, <2>8 DEF LaneOrderInv, Serving, InTx, Unpublished, NoTx
<1>9. CASE LaneFails(l) \/ LaneMissesDeadline(l) \/ LaneLeaves(l)
  <2>1. /\ tx'[l] = NoTx /\ lane'[l] \in {"done", "raised"} /\ todo' = todo
        /\ \A d \in Cells : record'[d] = "complete" => record[d] = "complete"
    BY <1>9 DEF LaneFails, LaneMissesDeadline, LaneLeaves, Leaves
  <2>2. Recorded
    BY <1>1, <2>1 DEF OrderInv
  <2> QED BY <1>1, <2>1, <2>2 DEF LaneOrderInv, Serving, InTx, Unpublished, NoTx
<1> QED BY <1>4, <1>5, <1>6, <1>7, <1>8, <1>9 DEF LaneStep

\* The scan of a new run sees the order the last one left.
LEMMA StartOrder ==
  ASSUME TypeOK, LaneShape, OrderInv, StartLanes
  PROVE  OrderInv'
<1>1. /\ UNCHANGED <<results, failures, completion, inflight, tx, todo, record>>
      /\ resume' = [c \in Cells |-> ExistingRecord(c)] /\ lane' = [l \in Lanes |-> "loop"]
      /\ ~completion /\ \A c \in Cells : ~Conflict(c)
  BY DEF StartLanes, storeVars
<1>2. \A c : (Clean(c)' <=> Clean(c)) /\ (Unclaimed(c)' <=> Unclaimed(c))
  BY <1>1 DEF Clean, Unclaimed
<1>3. \A c \in Cells : /\ resume'[c] = "complete" => Clean(c)
                       /\ resume'[c] = "none" => Unclaimed(c)
                       /\ Clean(c) => resume'[c] = "complete"
                       /\ resume'[c] /= "none" => ~Unclaimed(c)
  BY <1>1 DEF ExistingRecord, Conflict, Clean, Unclaimed, TypeOK, TxTypeOK
<1>4. \A l \in Lanes : ~InTx(l) /\ todo[l] \subseteq Cells /\ LaneOrderInv(l)
  BY DEF StartLanes, LaneShape, TypeOK, OrderInv
<1>5. LaneOrder'
  BY <1>1 DEF OrderInv, LaneOrder
<1>6. \A c, d \in Cells :
         LaneOf(c) = LaneOf(d) /\ d < c /\ resume'[c] /= "none" => resume'[d] = "complete"
  BY <1>3 DEF OrderInv, LaneOrder, Clean, Unclaimed
<1>7. ASSUME NEW l \in Lanes PROVE LaneOrderInv(l)'
  BY <1>1, <1>2, <1>3, <1>4 DEF LaneOrderInv, InTx, Unpublished
<1> QED BY <1>1, <1>2, <1>3, <1>5, <1>6, <1>7 DEF OrderInv

\* An ended run leaves the claims and forgets the rest.
LEMMA EndOrder ==
  ASSUME TypeOK, LaneShape, OrderInv, Ended, inflight' = {},
         Start \/ MainStep \/ Interrupt \/ Crash
  PROVE  OrderInv'
<1>1. /\ UNCHANGED <<results, failures>> /\ sup' = "idle"
      /\ lane' = [l \in Lanes |-> "off"] /\ todo' = [l \in Lanes |-> LaneCells(l)]
      /\ tx' = [l \in Lanes |-> NoTx]
      /\ record' = [c \in Cells |-> "none"] /\ resume' = [c \in Cells |-> "none"]
  BY DEF Ended, Return, Reset
<1>2. \A c : Clean(c)' <=> Clean(c)
  BY <1>1 DEF Clean
<1>3. completion' => \A c \in Cells : Clean(c)
  <2>1. CASE CompletionPut \/ CompletionRaises
    <3>1. \A c \in Cells : record[c] = "complete"
      BY <2>1 DEF CompletionPut, CompletionRaises, Verdict
    <3> QED BY <3>1 DEF OrderInv
  <2>2. CASE ~(CompletionPut \/ CompletionRaises)
    <3>1. completion' = completion
      BY <2>2 DEF Start, StartComplete, StartRaises, StartBlocked, StartLanes, MainStep,
         LaneRaised, Interrupt, Drained, Conclude, Crash
    <3> QED BY <3>1 DEF OrderInv
  <2> QED BY <2>1, <2>2
<1>4. LaneOrder'
  BY <1>1 DEF OrderInv, LaneOrder
<1>5. ASSUME NEW l \in Lanes PROVE LaneOrderInv(l)'
  BY <1>1 DEF LaneOrderInv, InTx, Unpublished, NoTx, Serving
<1> QED BY <1>1, <1>2, <1>3, <1>4, <1>5 DEF OrderInv

LEMMA OrderInvariant == MaxOrphans = 0 => (Spec => []OrderInv)
<1> SUFFICES ASSUME MaxOrphans = 0 PROVE Spec => []OrderInv
  OBVIOUS
<1>1. Init => OrderInv
  BY DEF Init, TxInit, NoTx, OrderInv, LaneOrder, LaneOrderInv, InTx, Unpublished, Serving
<1>2. TypeOK /\ LaneShape /\ OrderInv /\ [Next]_vars => OrderInv'
  <2> SUFFICES ASSUME TypeOK, LaneShape, OrderInv, [Next]_vars PROVE OrderInv'
    OBVIOUS
  <2>1. CASE Tick \/ Interrupt \/ UNCHANGED vars
    <3>1. /\ UNCHANGED <<results, failures, completion, inflight, resume, tx, lane, todo,
                         record>>
          /\ sup' = sup \/ (sup = "running" /\ sup' = "draining")
      BY <2>1 DEF Tick, Interrupt, vars, txVars, storeVars, laneVars, mainVars
    <3>2. \A c : (Clean(c)' <=> Clean(c)) /\ (Unclaimed(c)' <=> Unclaimed(c))
      BY <3>1 DEF Clean, Unclaimed
    <3>3. LaneOrder' /\ \A l \in Lanes : LaneOrderInv(l)'
      BY <3>1, <3>2 DEF OrderInv, LaneOrder, LaneOrderInv, InTx, Unpublished, Serving, First
    <3> QED BY <3>1, <3>2, <3>3 DEF OrderInv
  <2>2. CASE OrphanEnds
    BY <2>2 DEF OrphanEnds, OrderInv
  <2>3. ASSUME NEW l \in Lanes, LaneStep(l)
        PROVE  OrderInv'
    BY <2>3, TxOrder, LaneOrderStep
  <2>4. CASE Start \/ MainStep \/ Interrupt \/ Crash
    <3>1. inflight' = {}
      <4>1. CASE Crash
        BY <4>1, NoOrphan DEF OrderInv
      <4>2. CASE Start \/ MainStep \/ Interrupt
        BY <4>2 DEF OrderInv, Start, StartComplete, StartRaises, StartBlocked, StartLanes,
           MainStep, LaneRaised, Interrupt, Drained, Conclude, CompletionPut,
           CompletionRaises
      <4> QED BY <2>4, <4>1, <4>2
    <3> QED BY <2>1, <2>4, <3>1, EndingSteps, StartOrder, EndOrder
  <2> QED BY <2>1, <2>2, <2>3, <2>4 DEF Next
<1> QED BY <1>1, <1>2, TypeCorrect, ShapeInvariant, PTL DEF Spec

\* For every campaign without orphaned puts, even when the puts it waits for are
\* ambiguous: a claimed cell has only results before it in its lane.
THEOREM LaneOrderTheorem == MaxOrphans = 0 => (Spec => []LaneOrder)
BY OrderInvariant, PTL DEF OrderInv

\* For every campaign without orphaned puts, even when the puts it waits for are
\* ambiguous: no completion claim stands over a terminal failure.
THEOREM NoFailureTheorem == MaxOrphans = 0 => (Spec => []NoCompletionOverFailure)
<1>1. OrderInv => NoCompletionOverFailure
  BY DEF OrderInv, NoCompletionOverFailure, Clean
<1> QED BY <1>1, OrderInvariant, PTL

-----------------------------------------------------------------------------
(* The claim ledger.                                                       *)

\* What a step does to the claims: nothing, or one claim of the unclaimed cell
\* of a lane's transaction, first of the cells the lane has to go.
LEMMA StepClaims ==
  ASSUME ReliablePuts, TypeOK, LaneShape, FreshInv, ExclusiveClaims, OrderInv, [Next]_vars
  PROVE  \/ UNCHANGED <<results, failures>>
         \/ \E l \in Lanes : /\ LaneTxStep(l) /\ InTx(l) /\ First(l, tx[l].cell)
                            /\ Unclaimed(tx[l].cell)
                            /\ StoreClaim(tx[l].cell, tx[l].class)
<1>1. ASSUME NEW l \in Lanes, LaneTxStep(l), ~UNCHANGED <<results, failures>>
      PROVE  /\ InTx(l) /\ First(l, tx[l].cell) /\ Unclaimed(tx[l].cell)
             /\ StoreClaim(tx[l].cell, tx[l].class)
  <2>1. TxTypeOK /\ (TxStep(l) \/ ExceedDeadline(l))
    BY <1>1 DEF LaneTxStep, TypeOK
  <2>2. tx[l].pc = "claiming" /\ StoreClaim(tx[l].cell, tx[l].class)
    BY <1>1, <2>1, TxClaims DEF ReliablePuts
  <2>3. InTx(l) /\ lane[l] = "loop" /\ tx[l].cell \in todo[l]
    BY <2>2 DEF InTx, LaneShape
  <2>4. Unclaimed(tx[l].cell)
    BY <2>2, <2>3 DEF FreshInv, Serving, BeforeClaim
  <2>5. First(l, tx[l].cell)
    BY <2>3 DEF OrderInv, LaneOrderInv
  <2> QED BY <2>2, <2>3, <2>4, <2>5
<1>2. ASSUME NEW l \in Lanes, LaneStep(l), ~LaneTxStep(l)
      PROVE  UNCHANGED <<results, failures>>
  BY <1>2, LaneFrame DEF storeVars
<1>3. CASE Start \/ MainStep \/ Interrupt \/ Crash
  BY <1>3, EndingSteps DEF Ended, Return, StartLanes, Interrupt, storeVars
<1>4. CASE Tick \/ UNCHANGED vars
  BY <1>4 DEF Tick, vars, txVars
<1>5. ~OrphanEnds
  BY DEF OrphanEnds, OrderInv
<1> QED BY <1>1, <1>2, <1>3, <1>4, <1>5 DEF Next

\* Such a claim is a claim of the ledger.
LEMMA ClaimStep ==
  ASSUME TypeOK, LaneShape, SystemicInv, OrderInv,
         NEW l \in Lanes, LaneTxStep(l), InTx(l), NEW n \in Cells, n = tx[l].cell,
         First(l, n), Unclaimed(n), NEW k \in Kinds, k = tx[l].class, StoreClaim(n, k)
  PROVE  Ledger!LedgerNext
<1>1. TxTypeOK /\ failures \in [Cells -> Kinds] /\ completion' = completion
  BY DEF TypeOK, TxTypeOK, LaneTxStep, mainVars
<1>2. /\ \A d \in Cells : d /= n => (d \in results' <=> d \in results)
                                  /\ failures'[d] = failures[d]
      /\ k = "none" => results' = results \cup {n} /\ failures' = failures
      /\ k /= "none" => results' = results /\ failures'[n] = k
  BY <1>1, StoreClaimEffect
<1>3. n \in LaneCells(l)
  BY DEF First, LaneShape
<1>4. ASSUME NEW d \in Cells, d < n, LaneOf(d) = LaneOf(n) PROVE Entry(d) = "result"
  <2>1. d \in LaneCells(l) \ todo[l]
    BY <1>3, <1>4 DEF LaneCells, First
  <2>2. Clean(d)
    BY <2>1 DEF OrderInv, LaneOrderInv
  <2> QED BY <1>1, <2>2, EntryCases DEF Clean
<1>5. Entry(n) = "open"
  BY <1>1, EntryCases
<1>6. \A d \in Cells : d /= n => Entry(d)' = Entry(d)
  BY <1>2 DEF Entry
<1>7. Ledger!Claimable(n)
  BY <1>4, <1>5 DEF Ledger!Claimable, Ledger!LedgerCells, Ledger!SameLane, LaneOf, Entry
<1>8. CASE k = "none"
  <2>1. Entry(n)' = "result"
    BY <1>2, <1>8 DEF Entry, Unclaimed
  <2>2. Entries' = [Entries EXCEPT ![n] = "result"]
    BY <1>6, <2>1 DEF Entries
  <2> QED BY <1>1, <1>7, <2>2 DEF Ledger!ClaimResult, Ledger!LedgerNext, Ledger!LedgerCells,
                                  Entries, Entry
<1>9. CASE k \in {"transient", "unclassified"}
  <2>1. Entry(n)' = "failure"
    BY <1>2, <1>9 DEF Entry
  <2>2. Entries' = [Entries EXCEPT ![n] = "failure"]
    BY <1>6, <2>1 DEF Entries
  <2> QED BY <1>1, <1>7, <2>2 DEF Ledger!ClaimFailure, Ledger!LedgerNext, Ledger!LedgerCells,
                                  Entries, Entry
<1>10. CASE k \in SystemicClasses
  <2>1. Entry(n)' = "systemic"
    BY <1>2, <1>10 DEF Entry
  <2>2. Entries' = [Entries EXCEPT ![n] = "systemic"]
    BY <1>6, <2>1 DEF Entries
  <2>3. \A d \in Cells : failures[d] \notin SystemicClasses
    BY <1>10 DEF SystemicInv, SystemicLane, Unclaimed
  <2>4. \A d \in Cells : Entry(d) /= "systemic"
    BY <2>3 DEF Entry
  <2> QED BY <1>1, <1>7, <2>2, <2>4 DEF Ledger!ClaimSystemic, Ledger!LedgerNext,
                                        Ledger!LedgerCells, Entries, Entry
<1> QED BY <1>8, <1>9, <1>10

\* For every campaign whose puts answer what they did and die with their
\* supervisor: every step of the supervisor, of its lanes and of the faults around
\* them is a step of the claim ledger or leaves it alone.
THEOREM LedgerTheorem == ReliablePuts => (Spec => ImplementsLedger)
<1> SUFFICES ASSUME ReliablePuts PROVE Spec => ImplementsLedger
  OBVIOUS
<1>0. MaxOrphans = 0
  BY DEF ReliablePuts
<1>1. Init => Ledger!LedgerInit
  BY DEF Init, TxInit, Ledger!LedgerInit, Ledger!LedgerCells
<1>2. /\ TypeOK /\ LaneShape /\ FreshInv /\ ExclusiveClaims /\ SystemicInv /\ OrderInv
      /\ [Next]_vars
      => [Ledger!LedgerNext]_(Ledger!ledgerVars)
  <2> SUFFICES ASSUME TypeOK, LaneShape, FreshInv, ExclusiveClaims, SystemicInv, OrderInv,
                      [Next]_vars
               PROVE  Ledger!LedgerNext \/ UNCHANGED <<Entries, completion>>
    BY DEF Ledger!ledgerVars, Entries, Entry
  <2>1. CASE CompletionPut
    <3>1. ~completion /\ completion' = TRUE /\ UNCHANGED <<results, failures>>
      BY <2>1 DEF CompletionPut, Joined, Return, OrderInv
    <3>2. \A c \in Cells : record[c] = "complete"
      BY <2>1 DEF CompletionPut, Verdict
    <3>3. \A c \in Cells : Entry(c) = "result"
      BY <3>2 DEF OrderInv, Clean, Entry
    <3>4. UNCHANGED Entries
      BY <3>1 DEF Entries, Entry
    <3> QED BY <3>1, <3>3, <3>4
            DEF Ledger!Close, Ledger!LedgerNext, Ledger!LedgerCells, Entries, Entry
  <2>2. CASE UNCHANGED <<results, failures, completion>>
    BY <2>2 DEF Entries, Entry
  <2>3. ASSUME NEW l \in Lanes, LaneTxStep(l), InTx(l), First(l, tx[l].cell),
               Unclaimed(tx[l].cell), StoreClaim(tx[l].cell, tx[l].class)
        PROVE  Ledger!LedgerNext
    <3>1. tx[l].cell \in Cells /\ tx[l].class \in Kinds
      BY <2>3 DEF TypeOK, TxTypeOK, TxType, InTx
    <3> QED BY <2>3, <3>1, ClaimStep
  <2>4. ASSUME ~CompletionPut PROVE UNCHANGED completion
    <3>1. CompletionRaises => UNCHANGED completion
      BY ModesAssumption DEF CompletionRaises, Joined, ReliablePuts, OrderInv, TypeOK
    <3>2. \A l \in Lanes : LaneStep(l) => UNCHANGED completion
      BY LaneFrame DEF mainVars
    <3> QED BY <2>4, <3>1, <3>2
            DEF Next, Start, StartComplete, StartRaises, StartBlocked, StartLanes, MainStep,
                LaneRaised, Interrupt, Drained, Conclude, Tick, Crash, OrphanEnds, vars,
                mainVars
  <2> QED BY <2>1, <2>2, <2>3, <2>4, StepClaims
<1> QED BY <1>0, <1>1, <1>2, TypeCorrect, ShapeInvariant, FreshInvariant, SystemicInvariant,
           OrderInvariant, PTL
        DEF Spec, ImplementsLedger, Ledger!LedgerSpec

-----------------------------------------------------------------------------
(* The exit status.                                                        *)

LEMMA LaneOfTyped ==
  ASSUME NEW c \in Cells
  PROVE  LaneOf(c) \in Lanes /\ c \in LaneCells(LaneOf(c))
BY CountsAssumption DEF LaneOf, Lanes, LaneCells

LEMMA TxAccount ==
  ASSUME TypeOK, LaneShape, ReliablePuts, AccountInv, NEW l \in Lanes, LaneTxStep(l)
  PROVE  AccountInv'
<1>1. /\ TxTypeOK /\ (TxStep(l) \/ ExceedDeadline(l)) /\ ~AmbiguousPuts
      /\ UNCHANGED <<lane, todo, record, flags, sup, exit, resume, completion, clock>>
  BY DEF LaneTxStep, TypeOK, laneVars, mainVars, ReliablePuts
<1>2. /\ \A m \in Lanes : m /= l => tx'[m] = tx[m]
      /\ InTx(l) /\ tx'[l].pc /= "off" /\ tx'[l].cell = tx[l].cell
  BY <1>1, TxFrame
<1>3. /\ tx[l].cell \in Cells /\ tx[l].class \in Kinds /\ sup /= "idle"
      /\ tx[l].cell \in LaneCells(l)
  BY <1>1, <1>2 DEF TxTypeOK, TxType, InTx, LaneShape
<1>4. exit' = "none"
  BY <1>1, <1>3 DEF AccountInv
<1>5. Quiet' => Quiet /\ cancel' = cancel
  BY <1>1, TxSignals, ParallelAssumption, TxSystemic DEF Quiet, signalVars
<1>6. ASSUME Quiet, NEW m \in Lanes, NEW c \in LaneCells(m), failures'[c] /= "none"
      PROVE  Accounted(m, c)'
  <2>1. CASE m = l /\ c = tx[l].cell /\ failures' /= failures
    BY <1>1, <1>2, <2>1, TxFailure DEF Accounted, Ending, InTx
  <2>2. CASE ~(m = l /\ c = tx[l].cell /\ failures' /= failures)
    <3>1. failures[c] /= "none"
      <4>1. CASE failures' = failures
        BY <1>6, <4>1
      <4>2. CASE failures' /= failures
        <5>1. c /= tx[l].cell /\ c \in Cells
          BY <1>3, <1>6, <2>2, <4>2 DEF LaneCells
        <5> QED BY <1>1, <1>3, <1>6, <4>2, <5>1, TxFailure, StoreClaimEffect
      <4> QED BY <4>1, <4>2
    <3>2. Accounted(m, c)
      BY <1>6, <3>1 DEF AccountInv
    <3>3. CASE m /= l
      BY <1>1, <1>2, <3>2, <3>3 DEF Accounted, Coming, Ending, InTx
    <3>4. CASE m = l
      <4>1. lane[l] = "loop" /\ Ending(l, c)
        BY <1>2, <3>2, <3>4 DEF Accounted, Coming, LaneShape
      <4> QED BY <1>1, <1>2, <3>4, <4>1, TxFailure DEF Accounted, Ending, InTx
    <3> QED BY <3>3, <3>4
  <2> QED BY <2>1, <2>2
<1>7. \A m \in Lanes : InTx(m)' => InTx(m)
  BY <1>2 DEF InTx
<1>8. (\E m \in Lanes : tx'[m].pc = "deadline") => clock = "expired"
  BY <1>1, <1>2, TxInTime DEF LaneTxStep, AccountInv
<1>9. "deadline" \in flags' => clock' = "expired"
  BY <1>1 DEF AccountInv
<1> QED BY <1>1, <1>3, <1>4, <1>5, <1>6, <1>7, <1>8, <1>9
        DEF AccountInv, ExitZeroIsHonest, AllNew, Serving

\* A lane that is about to evaluate has no claimed cell left to come to.
LEMMA FirstNew ==
  ASSUME LaneShape, OrderInv, NEW l \in Lanes, NEW c \in Cells, First(l, c), resume[c] = "none"
  PROVE  AllNew(l)
<1>1. SUFFICES ASSUME NEW d \in todo[l] PROVE resume[d] = "none"
  BY DEF AllNew
<1>2. LaneOf(d) = LaneOf(c) /\ d \in Cells /\ c <= d
  BY <1>1 DEF LaneShape, LaneCells, First
<1>3. c < d => resume[d] = "none"
  BY <1>2 DEF OrderInv
<1> QED BY <1>2, <1>3

LEMMA LaneAccount ==
  ASSUME TypeOK, LaneShape, OrderInv, AccountInv, NEW l \in Lanes, LaneStep(l), ~LaneTxStep(l)
  PROVE  AccountInv'
<1>0. /\ UNCHANGED <<results, failures, sup, exit, resume, completion>>
      /\ \A m \in Lanes : m /= l => tx'[m] = tx[m]
      /\ tx \in [Lanes -> TxType] /\ lane \in [Lanes -> LanePhases]
      /\ todo \in [Lanes -> SUBSET Cells] /\ record \in [Cells -> Records]
  BY LaneFrame, LaneTxFrame DEF mainVars, storeVars, TypeOK, TxTypeOK
<1>1. clock' = clock
  BY DEF LaneStep, LaneStops, LaneResumes, LaneProceeds, LaneBlockedByDisk, LaneNotAdmitted,
         LaneBreaks, LaneBegins, LaneCompletes, LaneFails, LaneMissesDeadline, LaneLeaves, Leaves
<1>2. sup /= "idle"
  BY DEF LaneStep, LaneStops, LaneResumes, LaneProceeds, LaneBlockedByDisk, LaneNotAdmitted,
         LaneBreaks, LaneBegins, LaneCompletes, LaneFails, LaneMissesDeadline, LaneLeaves, Leaves,
         Looping, Admitting, At, LaneShape, InTx
<1>3. exit = "none" /\ ExitZeroIsHonest'
  BY <1>0, <1>2 DEF AccountInv, ExitZeroIsHonest
\* The part of the lane itself, and the part of the others.
<1> DEFINE Own == /\ lane'[l] = "admitting" \/ tx'[l].pc /= "off" => AllNew(l)'
                  /\ clock /= "ample" /\ Serving(l)' => AllNew(l)'
                  /\ "deadline" \in flags' \/ tx'[l].pc = "deadline" => clock = "expired"
                  /\ Quiet' => /\ Quiet /\ (cancel' => "deadline" \in flags')
                              /\ \A c \in LaneCells(l) : failures[c] /= "none" => Accounted(l, c)'
           Others == \A m \in Lanes : m /= l =>
                        /\ lane'[m] = lane[m] /\ todo'[m] = todo[m]
                        /\ \A c \in LaneCells(m) : record'[c] = record[c]
<1>4. ASSUME Own, Others PROVE AccountInv'
  <2>1. \A m \in Lanes : m /= l => (AllNew(m)' <=> AllNew(m)) /\ (Serving(m)' <=> Serving(m))
    BY <1>0, <1>4 DEF AllNew, Serving
  <2>2. ASSUME NEW m \in Lanes, m /= l, NEW c \in LaneCells(m), Accounted(m, c)
        PROVE  Accounted(m, c)'
    BY <1>0, <1>4, <2>2 DEF Accounted, Coming, Ending, InTx
  <2>3. Quiet' => \A m \in Lanes : \A c \in LaneCells(m) :
                     failures'[c] /= "none" => Accounted(m, c)'
    BY <1>0, <1>4, <2>2 DEF AccountInv
  <2>4. \A m \in Lanes : lane'[m] = "admitting" \/ tx'[m].pc /= "off" => AllNew(m)'
    BY <1>0, <1>4, <2>1 DEF AccountInv, InTx
  <2>5. clock' /= "ample" => \A m \in Lanes : Serving(m)' => AllNew(m)'
    BY <1>1, <1>4, <2>1 DEF AccountInv
  <2>6. "deadline" \in flags' \/ (\E m \in Lanes : tx'[m].pc = "deadline") => clock' = "expired"
    BY <1>0, <1>1, <1>4 DEF AccountInv
  <2> QED BY <1>0, <1>2, <1>3, <1>4, <2>3, <2>4, <2>5, <2>6 DEF AccountInv, InTx
<1>5. \A c \in Cells : First(l, c) \/ (InTx(l) /\ tx[l].cell = c) => c \in LaneCells(l)
  BY DEF First, LaneShape
<1>6. Others
  <2>1. \A m \in Lanes : m /= l => \A c \in LaneCells(m) : c \notin LaneCells(l) /\ c \in Cells
    BY DEF LaneCells
  <2>2. CASE LaneStops(l) \/ LaneBreaks(l) \/ LaneResumes(l) \/ LaneProceeds(l)
    BY <1>0, <1>5, <2>1, <2>2 DEF LaneStops, LaneBreaks, LaneResumes, LaneProceeds, Enter, Record
  <2>3. CASE LaneBlockedByDisk(l) \/ LaneNotAdmitted(l) \/ LaneBegins(l)
    BY <1>0, <1>5, <2>1, <2>3 DEF LaneBlockedByDisk, LaneNotAdmitted, LaneBegins, Enter, Record
  <2>4. CASE LaneCompletes(l) \/ LaneFails(l) \/ LaneMissesDeadline(l) \/ LaneLeaves(l)
    <3>1. InTx(l) /\ tx[l].cell \in Cells
      BY <1>0, <2>4 DEF LaneCompletes, LaneFails, LaneMissesDeadline, LaneLeaves, Leaves, At, InTx,
         TypeOK, TxTypeOK
    <3> QED BY <1>0, <1>5, <2>1, <2>4, <3>1
            DEF LaneCompletes, LaneFails, LaneMissesDeadline, LaneLeaves, Enter, Record
  <2> QED BY <2>2, <2>3, <2>4 DEF LaneStep
<1> SUFFICES Own
  BY <1>4, <1>6
<1>7. /\ lane[l] = "admitting" \/ InTx(l) => AllNew(l)
      /\ clock /= "ample" /\ Serving(l) => AllNew(l)
      /\ "deadline" \in flags \/ tx[l].pc = "deadline" => clock = "expired"
      /\ Quiet => (cancel => "deadline" \in flags)
  BY DEF AccountInv
<1> USE DEF Enter, Record
<1>8. CASE LaneStops(l)
  <2>1. /\ lane[l] = "loop" /\ ~InTx(l) /\ lane'[l] = "done"
        /\ UNCHANGED <<tx, todo, flags, cancel, systemicCell>>
        /\ cancel \/ todo[l] = {}
    BY <1>0, <1>8 DEF LaneStops, Looping, At, txVars, InTx
  <2>2. Quiet /\ cancel => AllNew(l)
    BY <2>1 DEF AccountInv, Serving
  <2>3. Quiet => \A c \in LaneCells(l) : failures[c] /= "none" => Coming(l, c)
    BY <2>1 DEF AccountInv, Accounted, Ending
  <2>4. Quiet => \A c \in LaneCells(l) : failures[c] = "none"
    BY <2>1, <2>2, <2>3 DEF AllNew, Coming
  <2> QED BY <1>0, <1>7, <2>1, <2>4 DEF Quiet, Serving, InTx
<1>9. CASE LaneBreaks(l)
  <2>1. /\ ~InTx(l) /\ lane'[l] = "raised"
        /\ UNCHANGED <<tx, todo, flags, cancel, systemicCell>>
    BY <1>0, <1>9 DEF LaneBreaks, Looping, Admitting, At, txVars, InTx, LaneShape
  <2> QED BY <1>0, <1>7, <2>1 DEF Quiet, Serving, InTx, Accounted
<1>10. CASE LaneResumes(l)
  <2>1. PICK c \in Cells :
          /\ First(l, c) /\ resume[c] /= "none" /\ ~InTx(l) /\ tx' = tx /\ lane[l] = "loop"
          /\ flags' = flags
          /\ IF resume[c] = "complete"
             THEN /\ record' = [record EXCEPT ![c] = "complete"] /\ UNCHANGED <<lane, signalVars>>
                  /\ todo' = [todo EXCEPT ![l] = @ \ {c}]
             ELSE /\ record' = [record EXCEPT ![c] = "failed"]
                  /\ lane' = [lane EXCEPT ![l] = "done"] /\ todo' = todo
                  /\ IF resume[c] \in SystemicClasses THEN Signal(c) ELSE UNCHANGED signalVars
    BY <1>10 DEF LaneResumes, Looping, At, InTx
  <2>2. Quiet => \A d \in LaneCells(l) : failures[d] /= "none" => Coming(l, d)
    BY <2>1 DEF AccountInv, Accounted, Ending
  <2>3. CASE resume[c] = "complete"
    <3>1. todo'[l] = todo[l] \ {c} /\ UNCHANGED <<lane, cancel, systemicCell>>
      BY <1>0, <2>1, <2>3 DEF signalVars
    <3>2. failures[c] = "none"
      BY <2>3 DEF OrderInv, Clean
    <3>3. AllNew(l) => AllNew(l)'
      BY <1>0, <3>1 DEF AllNew
    <3>4. Quiet => \A d \in LaneCells(l) : failures[d] /= "none" => Coming(l, d)'
      BY <1>0, <2>1, <2>2, <3>1, <3>2 DEF Coming, InTx
    <3> QED BY <1>0, <1>7, <2>1, <3>1, <3>3, <3>4
            DEF Quiet, Serving, InTx, Accounted
  <2>4. CASE resume[c] /= "complete"
    <3>1. lane'[l] = "done" /\ record'[c] = "failed" /\ todo' = todo
      BY <1>0, <2>1, <2>4
    <3>2. UNCHANGED signalVars \/ systemicCell' /= NoCell
      BY <2>1, <2>4, ParallelAssumption DEF Signal
    <3>3. systemicCell /= NoCell => systemicCell' /= NoCell
      BY <2>1, <2>4 DEF Signal, signalVars
    <3>4. \A d \in LaneCells(l) : Coming(l, d) => d = c
      <4>1. SUFFICES ASSUME NEW d \in LaneCells(l), Coming(l, d) PROVE ~(c < d)
        BY <2>1 DEF Coming, First, LaneCells
      <4>2. LaneOf(c) = LaneOf(d) /\ d \in Cells
        BY <2>1, <1>5 DEF LaneCells
      <4> QED BY <2>4, <4>1, <4>2 DEF OrderInv, Coming
    <3>5. Quiet' => Quiet /\ UNCHANGED cancel
      BY <1>0, <2>1, <3>2, <3>3 DEF Quiet, signalVars
    <3>6. Quiet => \A d \in LaneCells(l) : failures[d] /= "none" => Accounted(l, d)'
      BY <2>2, <3>1, <3>4 DEF Accounted
    <3> QED BY <1>0, <1>7, <2>1, <3>1, <3>5, <3>6 DEF Serving, InTx
  <2> QED BY <2>3, <2>4
<1>11. CASE LaneProceeds(l)
  <2>1. PICK c \in Cells :
          /\ First(l, c) /\ resume[c] = "none" /\ ~InTx(l) /\ lane[l] = "loop"
          /\ lane'[l] \in {"admitting", "done"}
          /\ UNCHANGED <<tx, todo, flags, cancel, systemicCell>>
    BY <1>0, <1>11 DEF LaneProceeds, Looping, At, InTx, txVars
  <2>2. AllNew(l)
    BY <2>1, FirstNew
  <2>3. AllNew(l)'
    BY <1>0, <2>1, <2>2 DEF AllNew
  <2>4. Quiet => \A d \in LaneCells(l) : failures[d] = "none"
    BY <2>1, <2>2 DEF AccountInv, Accounted, Coming, Ending, AllNew
  <2> QED BY <1>0, <1>7, <2>1, <2>3, <2>4 DEF Quiet, Serving, InTx
<1>12. CASE LaneBlockedByDisk(l) \/ LaneNotAdmitted(l)
  <2>1. /\ lane'[l] = "done" /\ tx' = tx /\ ~InTx(l)
        /\ \/ flags' = flags \cup {"disk"}
           \/ flags' = flags \cup {"resource"}
    BY <1>0, <1>12 DEF LaneBlockedByDisk, LaneNotAdmitted, Admitting, InTx, LaneShape
  <2> QED BY <1>0, <1>7, <2>1 DEF Quiet, Serving, InTx
<1>13. CASE LaneBegins(l)
  <2>1. /\ lane[l] = "admitting" /\ ~InTx(l) /\ lane'[l] = "loop"
        /\ tx'[l].pc = "staging" /\ UNCHANGED <<todo, flags, cancel, systemicCell>>
    BY <1>0, <1>13 DEF LaneBegins, Begin, NewTx, Admitting, At, InTx, signalVars
  <2>2. AllNew(l)'
    BY <1>0, <2>1 DEF AccountInv, AllNew
  <2>3. Quiet => \A d \in LaneCells(l) : failures[d] = "none"
    BY <2>1 DEF AccountInv, Accounted, Coming, Ending
  <2> QED BY <1>0, <1>7, <2>1, <2>2, <2>3 DEF Quiet
<1>14. ASSUME NEW p \in {"complete", "failed", "deadline", "cancelled", "raised"},
               At(l, {p}), tx' = [tx EXCEPT ![l] = NoTx]
       PROVE  /\ InTx(l) /\ tx[l].pc = p /\ tx'[l].pc = "off" /\ lane[l] = "loop" /\ AllNew(l)
              /\ Quiet /\ p \notin {"failed", "raised"}
                    => \A d \in LaneCells(l) : failures[d] = "none"
              /\ Quiet => \A d \in LaneCells(l) : failures[d] /= "none" => d = tx[l].cell
  <2>1. InTx(l) /\ tx[l].pc = p /\ tx'[l].pc = "off" /\ lane[l] = "loop" /\ AllNew(l)
    BY <1>0, <1>14 DEF At, InTx, NoTx, LaneShape, AccountInv
  <2>2. Quiet => \A d \in LaneCells(l) : failures[d] /= "none" => Ending(l, d)
    BY <2>1 DEF AccountInv, Accounted, Coming
  <2> QED BY <2>1, <2>2 DEF Ending
<1>15. CASE LaneCompletes(l)
  <2>1. /\ InTx(l) /\ tx'[l].pc = "off" /\ lane'[l] = "loop" /\ AllNew(l)
        /\ Quiet => \A d \in LaneCells(l) : failures[d] = "none"
        /\ todo'[l] \subseteq todo[l] /\ UNCHANGED <<flags, cancel, systemicCell>>
    BY <1>0, <1>14, <1>15 DEF LaneCompletes, Leaves, signalVars
  <2>2. AllNew(l)'
    BY <1>0, <2>1 DEF AllNew
  <2> QED BY <1>0, <1>7, <2>1, <2>2 DEF Quiet
<1>16. CASE LaneFails(l)
  <2>1. /\ tx'[l].pc = "off" /\ lane'[l] = "done" /\ record'[tx[l].cell] = "failed"
        /\ Quiet => \A d \in LaneCells(l) : failures[d] /= "none" => d = tx[l].cell
        /\ tx[l].cell \in Cells /\ tx[l].cell /= NoCell /\ UNCHANGED <<todo, flags>>
        /\ IF tx[l].class \in SystemicClasses THEN Signal(tx[l].cell) ELSE UNCHANGED signalVars
    BY <1>0, <1>14, <1>16, CountsAssumption DEF LaneFails, Leaves, At, TypeOK, TxTypeOK
  <2>2. Quiet' => Quiet /\ UNCHANGED cancel
    BY <1>0, <2>1, ParallelAssumption DEF Quiet, Signal, signalVars
  <2>3. Quiet => \A d \in LaneCells(l) : failures[d] /= "none" => Accounted(l, d)'
    BY <2>1 DEF Accounted
  <2> QED BY <1>0, <1>7, <2>1, <2>2, <2>3 DEF Serving
<1>17. CASE LaneMissesDeadline(l)
  <2>1. /\ tx[l].pc = "deadline" /\ tx'[l].pc = "off" /\ lane'[l] = "done"
        /\ Quiet => \A d \in LaneCells(l) : failures[d] = "none"
        /\ flags' = flags \cup {"deadline"} /\ UNCHANGED <<todo, systemicCell>>
    BY <1>0, <1>14, <1>17 DEF LaneMissesDeadline, Leaves
  <2> QED BY <1>0, <1>7, <2>1 DEF Quiet, Serving
<1>18. CASE LaneLeaves(l)
  <2>1. CASE At(l, {"cancelled"}) /\ lane' = [lane EXCEPT ![l] = "done"]
    <3>1. /\ tx'[l].pc = "off" /\ lane'[l] = "done"
          /\ Quiet => \A d \in LaneCells(l) : failures[d] = "none"
          /\ UNCHANGED <<todo, flags, cancel, systemicCell>>
      BY <1>0, <1>14, <1>18, <2>1 DEF LaneLeaves, Leaves, signalVars
    <3> QED BY <1>0, <1>7, <3>1 DEF Quiet, Serving
  <2>2. CASE At(l, {"raised"}) /\ lane' = [lane EXCEPT ![l] = "raised"]
    <3>1. /\ tx'[l].pc = "off" /\ lane'[l] = "raised"
          /\ UNCHANGED <<todo, flags, cancel, systemicCell>>
      BY <1>0, <1>14, <1>18, <2>2 DEF LaneLeaves, Leaves, signalVars
    <3> QED BY <1>0, <1>7, <3>1 DEF Quiet, Serving, Accounted
  <2> QED BY <1>18, <2>1, <2>2 DEF LaneLeaves, Leaves
<1> QED BY <1>8, <1>9, <1>10, <1>11, <1>12, <1>13, <1>15, <1>16, <1>17, <1>18
        DEF LaneStep

\* A run starts with every stored failure to come to, unless one is systemic.
LEMMA StartAccount ==
  ASSUME TypeOK, LaneShape, OrderInv, AccountInv, StartLanes
  PROVE  AccountInv'
<1>1. /\ UNCHANGED <<results, failures, completion, tx, todo, record, flags, clock>>
      /\ resume' = [c \in Cells |-> ExistingRecord(c)] /\ lane' = [l \in Lanes |-> "loop"]
      /\ sup = "idle" /\ sup' = "running" /\ exit' = "none"
  BY DEF StartLanes, storeVars
<1>2. /\ flags = {} /\ clock = "ample" /\ \A l \in Lanes : todo[l] = LaneCells(l) /\ ~InTx(l)
      /\ \A l \in Lanes : LaneCells(l) \subseteq Cells
  BY <1>1 DEF AccountInv, LaneShape, LaneCells
<1>3. systemicCell' = NoCell => KnownSystemic(resume') = {}
  BY DEF StartLanes, KnownSystemic
<1>4. Quiet' => ~cancel'
  <2>1. CASE UNCHANGED signalVars
    <3>1. ~cancel
      BY <1>1 DEF AccountInv
    <3> QED BY <2>1, <3>1 DEF signalVars
  <2>2. CASE ~UNCHANGED signalVars
    BY <1>3, <2>2 DEF StartLanes, Quiet
  <2> QED BY <2>1, <2>2
<1>5. ASSUME NEW l \in Lanes, NEW c \in LaneCells(l), failures'[c] /= "none"
      PROVE  Accounted(l, c)'
  <2>1. resume'[c] /= "none"
    BY <1>1, <1>2, <1>5 DEF ExistingRecord
  <2> QED BY <1>1, <1>2, <2>1 DEF Accounted, Coming, InTx
<1>6. \A l \in Lanes : lane'[l] /= "admitting" /\ tx'[l].pc = "off"
  BY <1>1, <1>2 DEF InTx
<1> QED BY <1>1, <1>2, <1>4, <1>5, <1>6 DEF AccountInv, ExitZeroIsHonest, InTx

\* A run that ends "deferred" had no failure left to account for.
LEMMA EndAccount ==
  ASSUME TypeOK, LaneShape, OrderInv, AccountInv, Ended, inflight' = {},
         Start \/ MainStep \/ Interrupt \/ Crash
  PROVE  AccountInv'
<1>1. /\ UNCHANGED <<results, failures>> /\ sup' = "idle" /\ flags' = {} /\ clock' = "ample"
      /\ lane' = [l \in Lanes |-> "off"] /\ todo' = [l \in Lanes |-> LaneCells(l)]
      /\ tx' = [l \in Lanes |-> NoTx] /\ cancel' = FALSE
  BY DEF Ended, Return, Reset
<1>2. \A l \in Lanes : lane'[l] = "off" /\ tx'[l].pc = "off" /\ todo'[l] = LaneCells(l)
  BY <1>1 DEF NoTx
<1>3. ExitZeroIsHonest'
  <2>1. CASE StartComplete
    BY <2>1 DEF StartComplete, Return, ExitZeroIsHonest
  <2>2. CASE StartRaises \/ StartBlocked \/ Drained \/ Crash \/ CompletionRaises
    BY <2>2 DEF StartRaises, StartBlocked, Drained, Crash, CompletionRaises, Return,
       ExitZeroIsHonest
  <2>3. CASE CompletionPut
    BY <2>3 DEF CompletionPut, Return, ExitZeroIsHonest
  <2>4. CASE Conclude
    <3>1. exit' = Verdict /\ Verdict /= "complete" /\ Joined
      BY <2>4 DEF Conclude, Return
    <3>2. ASSUME Verdict = "deferred" PROVE \A c \in Cells : failures[c] = "none"
      <4>1. Quiet /\ \A c \in Cells : record[c] /= "failed"
        BY <3>1, <3>2 DEF Verdict, Quiet, Joined
      <4>2. SUFFICES ASSUME NEW c \in Cells, failures[c] /= "none" PROVE FALSE
        OBVIOUS
      <4>3. LaneOf(c) \in Lanes /\ c \in LaneCells(LaneOf(c))
        BY LaneOfTyped
      <4>4. lane[LaneOf(c)] = "done" /\ Accounted(LaneOf(c), c)
        BY <3>1, <4>1, <4>2, <4>3 DEF Joined, AccountInv
      <4>5. ~InTx(LaneOf(c))
        BY <4>3, <4>4 DEF LaneShape
      <4> QED BY <4>1, <4>4, <4>5 DEF Accounted, Coming, Ending
    <3> QED BY <1>1, <3>1, <3>2 DEF ExitZeroIsHonest
  <2>5. CASE StartLanes \/ Interrupt
    BY <1>1, <2>5 DEF StartLanes, Interrupt
  <2> QED BY <2>1, <2>2, <2>3, <2>4, <2>5 DEF Start, MainStep, LaneRaised
<1> QED BY <1>1, <1>2, <1>3 DEF AccountInv, InTx, Quiet, Serving

\* Time passes only over lanes that are past their claimed cells.
LEMMA QuietStep ==
  ASSUME TypeOK, LaneShape, AccountInv, Tick \/ Interrupt \/ UNCHANGED vars
  PROVE  AccountInv'
<1>1. /\ UNCHANGED <<results, failures, completion, exit, resume, tx, lane, todo, record, flags,
                     systemicCell>>
      /\ sup' /= "idle" <=> sup /= "idle"
  BY DEF Tick, Interrupt, vars, txVars, storeVars, laneVars, mainVars
<1>2. /\ ExitZeroIsHonest' /\ (sup' /= "idle" => exit' = "none")
      /\ \A l \in Lanes : (AllNew(l)' <=> AllNew(l)) /\ (InTx(l)' <=> InTx(l))
                         /\ (Serving(l)' <=> Serving(l))
  BY <1>1 DEF AccountInv, ExitZeroIsHonest, AllNew, InTx, Serving
<1>4. CASE Tick
  <2>1. \A l \in Lanes : Serving(l) => AllNew(l)
    BY <1>4 DEF Tick, Looping, At, Serving, InTx, AccountInv
  <2>2. clock /= "expired" /\ UNCHANGED <<cancel, sup>> /\ sup /= "idle"
    BY <1>4 DEF Tick, txVars, mainVars
  <2>3. Quiet' => Quiet
    BY <1>1, <2>2 DEF Quiet
  <2>4. \A l \in Lanes : \A c \in LaneCells(l) : Accounted(l, c) => Accounted(l, c)'
    BY <1>1 DEF Accounted, Coming, Ending, InTx
  <2> QED BY <1>1, <1>2, <2>1, <2>2, <2>3, <2>4 DEF AccountInv
<1>5. CASE Interrupt
  <2>1. clock' = clock /\ sup' = "draining"
    BY <1>5 DEF Interrupt
  <2> QED BY <1>1, <1>2, <2>1 DEF AccountInv, Quiet
<1>6. CASE UNCHANGED vars
  <2>1. UNCHANGED <<clock, sup, cancel>>
    BY <1>6 DEF vars, txVars, mainVars
  <2>2. \A l \in Lanes : \A c \in LaneCells(l) : Accounted(l, c) => Accounted(l, c)'
    BY <1>1 DEF Accounted, Coming, Ending, InTx
  <2> QED BY <1>1, <1>2, <2>1, <2>2 DEF AccountInv, Quiet
<1> QED BY <1>4, <1>5, <1>6

\* For every campaign whose puts answer what they did and die with their
\* supervisor: exit status 0 is "complete" with the completion claim stored, or
\* "deferred" with no terminal failure anywhere in the queue.
THEOREM ExitZeroTheorem == ReliablePuts => (Spec => []ExitZeroIsHonest)
<1> SUFFICES ASSUME ReliablePuts PROVE Spec => []ExitZeroIsHonest
  OBVIOUS
<1>0. MaxOrphans = 0
  BY DEF ReliablePuts
<1>1. Init => AccountInv
  BY DEF Init, TxInit, NoTx, AccountInv, ExitZeroIsHonest, InTx, Quiet
<1>2. TypeOK /\ LaneShape /\ OrderInv /\ OrderInv' /\ AccountInv /\ [Next]_vars => AccountInv'
  <2> SUFFICES ASSUME TypeOK, LaneShape, OrderInv, OrderInv', AccountInv, [Next]_vars
               PROVE  AccountInv'
    OBVIOUS
  <2>1. CASE Tick \/ Interrupt \/ UNCHANGED vars
    BY <2>1, QuietStep
  <2>2. CASE OrphanEnds
    BY <2>2 DEF OrphanEnds, OrderInv
  <2>3. ASSUME NEW l \in Lanes, LaneStep(l)
        PROVE  AccountInv'
    BY <2>3, TxAccount, LaneAccount
  <2>4. CASE Start \/ MainStep \/ Crash
    <3>1. inflight' = {}
      BY DEF OrderInv
    <3> QED BY <2>1, <2>4, <3>1, EndingSteps, StartAccount, EndAccount
  <2> QED BY <2>1, <2>2, <2>3, <2>4 DEF Next
<1>3. AccountInv => ExitZeroIsHonest
  BY DEF AccountInv
<1> QED BY <1>0, <1>1, <1>2, <1>3, TypeCorrect, ShapeInvariant, OrderInvariant, PTL DEF Spec

-----------------------------------------------------------------------------
(* Publication after a cancel.                                             *)

\* For every campaign: a lane that starts to publish a failure although the
\* campaign is cancelled owns the systemic claim.
THEOREM OwnerTheorem == Spec => OnlyTheOwnerPublishesAfterCancel
<1>1. TypeOK /\ [Next]_vars =>
        [\A l \in Lanes :
           /\ cancel /\ tx[l].pc /= "archiving"
           /\ tx[l]'.pc = "archiving" /\ tx[l]'.class /= "none"
           => tx[l]'.class \in SystemicClasses /\ systemicCell' = tx[l].cell]_vars
  <2> SUFFICES ASSUME TypeOK, [Next]_vars, NEW l \in Lanes, cancel, tx[l].pc /= "archiving",
                      tx[l]'.pc = "archiving", tx[l]'.class /= "none"
               PROVE  tx[l]'.class \in SystemicClasses /\ systemicCell' = tx[l].cell
    OBVIOUS
  <2>0. TxTypeOK /\ tx \in [Lanes -> TxType] /\ tx'[l] /= tx[l]
    BY DEF TypeOK, TxTypeOK
  <2>1. CASE Start \/ MainStep \/ Interrupt \/ Crash
    <3>1. tx' = [m \in Lanes |-> NoTx] \/ tx' = tx
      BY <2>1, EndingSteps DEF Ended, Return, Reset, StartLanes, Interrupt, txVars
    <3> QED BY <2>0, <3>1 DEF NoTx
  <2>2. CASE Tick \/ OrphanEnds \/ UNCHANGED vars
    BY <2>0, <2>2 DEF Tick, OrphanEnds, vars, txVars
  <2>3. ASSUME NEW m \in Lanes, LaneStep(m)
        PROVE  LaneTxStep(m) /\ m = l
    <3>1. CASE LaneTxStep(m)
      BY <2>0, <3>1, TxFrame DEF LaneTxStep
    <3>2. CASE ~LaneTxStep(m)
      <4>1. tx' = tx \/ tx' = [tx EXCEPT ![m] = NoTx] \/ \E c \in Cells : tx' = [tx EXCEPT ![m] = NewTx(c)]
        BY <2>3, <3>2 DEF LaneStep, LaneStops, LaneBreaks, LaneResumes, LaneProceeds,
           LaneBlockedByDisk, LaneNotAdmitted, LaneBegins, LaneCompletes, LaneFails,
           LaneMissesDeadline, LaneLeaves, Leaves, Begin, txVars
      <4> QED BY <2>0, <4>1 DEF NoTx, NewTx
    <3> QED BY <3>1, <3>2
  <2>4. CASE \E m \in Lanes : LaneStep(m)
    BY <2>0, <2>3, <2>4, TxOwner, ParallelAssumption DEF LaneTxStep
  <2> QED BY <2>1, <2>2, <2>4 DEF Next
<1> QED BY <1>1, TypeCorrect, PTL DEF Spec, OnlyTheOwnerPublishesAfterCancel

-----------------------------------------------------------------------------
(* How long a run can be.                                                  *)

\* What a lane has left to do at its present cell.
LaneLeft(l) ==
    IF lane[l] \in {"off", "done", "raised"} THEN 0
    ELSE IF lane[l] = "admitting" THEN 10 + MaxAttempts
    ELSE IF ~InTx(l) THEN 11 + MaxAttempts
    ELSE TxLeft(tx[l])

\* A lane has a cell less to go, or less of its present cell.
LaneNears(l) ==
    \/ \E c \in todo[l] : todo'[l] = todo[l] \ {c}
    \/ todo'[l] = todo[l] /\ LaneLeft(l)' < LaneLeft(l)
LaneRests(l) == todo'[l] = todo[l] /\ LaneLeft(l)' = LaneLeft(l)

\* A step is one lane's and brings that lane nearer to its end, or it leaves every
\* lane where it is and cancels the run, lets time pass, or ends an orphaned put.
ParallelNears ==
    \/ /\ \E l \in Lanes : LaneNears(l) /\ \A m \in Lanes \ {l} : LaneRests(m)
       /\ UNCHANGED <<sup, clock, inflight>>
    \/ /\ \A l \in Lanes : LaneRests(l)
       /\ \/ sup = "running" /\ sup' = "draining" /\ UNCHANGED <<clock, inflight>>
          \/ UNCHANGED <<sup, inflight>> /\ <<clock, clock'>> \in
                {<<"ample", "low">>, <<"low", "expired">>}
          \/ UNCHANGED <<sup, clock>> /\ \E p \in inflight : inflight' = inflight \ {p}

LEMMA LaneStepNears ==
  ASSUME TypeOK, LaneShape, NEW l \in Lanes, LaneStep(l)
  PROVE  LaneNears(l)
<1>0. /\ tx \in [Lanes -> TxType] /\ lane \in [Lanes -> LanePhases] /\ TxTypeOK
      /\ todo \in [Lanes -> SUBSET Cells] /\ MaxAttempts \in Nat /\ tx[l] \in TxType
      /\ InTx(l) => lane[l] = "loop" /\ tx[l].cell \in todo[l]
  BY CountsAssumption DEF TypeOK, TxTypeOK, LaneShape
<1>1. InTx(l) => LaneLeft(l) = TxLeft(tx[l]) /\ LaneLeft(l) \in 1..9 + MaxAttempts
  BY <1>0, TxLeftBounds DEF LaneLeft, InTx
<1>2. ASSUME tx[l].pc = "off", lane[l] = "loop", todo' = todo,
             lane'[l] \in {"done", "raised", "admitting"}
      PROVE  LaneNears(l)
  BY <1>0, <1>2 DEF LaneNears, LaneLeft, InTx
<1>3. CASE LaneStops(l) \/ (LaneBreaks(l) /\ Looping(l)) \/ LaneProceeds(l)
  <2>1. /\ tx[l].pc = "off" /\ lane[l] = "loop" /\ todo' = todo
        /\ lane'[l] \in {"done", "raised", "admitting"}
    BY <1>0, <1>3 DEF LaneStops, LaneBreaks, LaneProceeds, Looping, At, Enter
  <2> QED BY <1>2, <2>1
<1>4. CASE LaneResumes(l)
  <2>1. PICK c \in Cells : First(l, c) /\ Looping(l)
                /\ \/ todo' = [todo EXCEPT ![l] = @ \ {c}]
                   \/ Enter(l, "done") /\ UNCHANGED todo
    BY <1>4 DEF LaneResumes
  <2>2. CASE todo' = [todo EXCEPT ![l] = @ \ {c}]
    BY <1>0, <2>1, <2>2 DEF First, LaneNears
  <2>3. CASE Enter(l, "done") /\ UNCHANGED todo
    BY <1>0, <1>2, <2>1, <2>3 DEF Looping, At, Enter
  <2> QED BY <2>1, <2>2, <2>3
<1>5. ASSUME lane[l] = "admitting", lane'[l] \in {"done", "raised"}, todo' = todo
      PROVE  LaneNears(l)
  BY <1>0, <1>5 DEF LaneNears, LaneLeft
<1>6. CASE LaneBlockedByDisk(l) \/ LaneNotAdmitted(l) \/ (LaneBreaks(l) /\ Admitting(l))
  BY <1>0, <1>5, <1>6 DEF LaneBlockedByDisk, LaneNotAdmitted, LaneBreaks, Admitting, Enter
<1>7. CASE LaneBegins(l)
  <2>1. PICK c \in Cells : Begin(l, c)
    BY <1>7 DEF LaneBegins
  <2>2. /\ tx'[l].pc = "staging" /\ lane'[l] = "loop" /\ todo' = todo
        /\ lane[l] = "admitting"
    BY <1>0, <1>7, <2>1 DEF LaneBegins, Admitting, Begin, NewTx, Enter
  <2>3. LaneLeft(l)' = 9 + MaxAttempts
    BY <2>2 DEF LaneLeft, InTx, TxLeft
  <2>4. LaneLeft(l) = 10 + MaxAttempts
    BY <2>2 DEF LaneLeft
  <2> QED BY <1>0, <2>2, <2>3, <2>4 DEF LaneNears
<1>8. CASE LaneTxStep(l)
  <2>1. /\ InTx(l) /\ tx'[l].pc /= "off" /\ TxLeft(tx'[l]) < TxLeft(tx[l])
        /\ lane' = lane /\ todo' = todo
    BY <1>0, <1>8, TxFrame, TxNearer DEF LaneTxStep, laneVars
  <2>2. LaneLeft(l)' = TxLeft(tx'[l])
    BY <1>0, <2>1 DEF LaneLeft, InTx
  <2> QED BY <1>1, <2>1, <2>2 DEF LaneNears
<1>9. CASE LaneCompletes(l)
  <2>1. InTx(l) /\ todo'[l] = todo[l] \ {tx[l].cell}
    BY <1>0, <1>9 DEF LaneCompletes, Leaves, At, InTx
  <2> QED BY <1>0, <2>1 DEF LaneNears
<1>10. CASE LaneFails(l) \/ LaneMissesDeadline(l) \/ LaneLeaves(l)
  <2>1. InTx(l) /\ lane'[l] \in {"done", "raised"} /\ todo' = todo
    BY <1>0, <1>10 DEF LaneFails, LaneMissesDeadline, LaneLeaves, Leaves, At, InTx, Enter
  <2>2. LaneLeft(l)' = 0
    BY <2>1 DEF LaneLeft
  <2> QED BY <1>0, <1>1, <2>1, <2>2 DEF LaneNears
<1> QED BY <1>3, <1>4, <1>6, <1>7, <1>8, <1>9, <1>10 DEF LaneStep, LaneBreaks

LEMMA OtherLanesRest ==
  ASSUME TypeOK, NEW l \in Lanes, LaneStep(l), NEW m \in Lanes \ {l}
  PROVE  LaneRests(m)
<1>0. /\ TxTypeOK /\ lane \in [Lanes -> LanePhases] /\ todo \in [Lanes -> SUBSET Cells]
  BY DEF TypeOK
<1>1. tx'[m] = tx[m]
  BY <1>0, LaneTxFrame, TxFrame DEF LaneTxStep
<1>2. lane'[m] = lane[m] /\ todo'[m] = todo[m]
  <2>1. CASE LaneStops(l) \/ LaneBreaks(l) \/ LaneProceeds(l) \/ LaneBlockedByDisk(l)
             \/ LaneNotAdmitted(l) \/ LaneBegins(l)
    BY <1>0, <2>1 DEF LaneStops, LaneBreaks, LaneProceeds, LaneBlockedByDisk,
         LaneNotAdmitted, LaneBegins, Enter
  <2>2. CASE LaneResumes(l) \/ LaneCompletes(l)
    BY <1>0, <2>2 DEF LaneResumes, LaneCompletes, Enter
  <2>3. CASE LaneTxStep(l) \/ LaneFails(l) \/ LaneMissesDeadline(l) \/ LaneLeaves(l)
    BY <1>0, <2>3 DEF LaneTxStep, laneVars, LaneFails, LaneMissesDeadline, LaneLeaves, Enter
  <2> QED BY <2>1, <2>2, <2>3 DEF LaneStep
<1> QED BY <1>1, <1>2 DEF LaneRests, LaneLeft, InTx

\* No run goes on for ever, for any queue, topology and retry limit: every step
\* that does not end the run brings one lane nearer to its end and sets no other
\* back, cancels the run once, passes one of two limits of the budget, or ends an
\* orphaned put.  What each lane has left is bounded, so the run is.
THEOREM ShortParallelTheorem ==
  Spec => /\ [](\A l \in Lanes : LaneLeft(l) \in 0..11 + MaxAttempts /\ todo[l] \subseteq LaneCells(l))
          /\ [][sup /= "idle" /\ sup' /= "idle" => ParallelNears]_vars
<1>1. TypeOK /\ LaneShape =>
        \A l \in Lanes : LaneLeft(l) \in 0..11 + MaxAttempts /\ todo[l] \subseteq LaneCells(l)
  <2> SUFFICES ASSUME TypeOK, LaneShape, NEW l \in Lanes PROVE LaneLeft(l) \in 0..11 + MaxAttempts
    BY DEF LaneShape
  <2>1. tx[l] \in TxType /\ MaxAttempts \in Nat
    BY CountsAssumption DEF TypeOK, TxTypeOK
  <2>2. TxLeft(tx[l]) \in 0..9 + MaxAttempts
    BY <2>1, TxLeftBounds
  <2> QED BY <2>1, <2>2 DEF LaneLeft
<1>2. TypeOK /\ LaneShape /\ [Next]_vars => [sup /= "idle" /\ sup' /= "idle" => ParallelNears]_vars
  <2> SUFFICES ASSUME TypeOK, LaneShape, Next, sup /= "idle", sup' /= "idle" PROVE ParallelNears
    OBVIOUS
  <2>1. ASSUME NEW l \in Lanes, LaneStep(l) PROVE ParallelNears
    <3>1. UNCHANGED <<sup, inflight>>
      BY <2>1, LaneFrame DEF mainVars
    <3>2. UNCHANGED clock
      BY <2>1 DEF LaneStep, LaneStops, LaneBreaks, LaneResumes, LaneProceeds, LaneBlockedByDisk,
         LaneNotAdmitted, LaneBegins, LaneTxStep, LaneCompletes, LaneFails,
         LaneMissesDeadline, LaneLeaves, Leaves
    <3> QED BY <2>1, <3>1, <3>2, LaneStepNears, OtherLanesRest DEF ParallelNears
  <2>2. ASSUME UNCHANGED <<tx, lane, todo>> PROVE \A l \in Lanes : LaneRests(l)
    BY <2>2 DEF LaneRests, LaneLeft, InTx
  <2>3. CASE Interrupt
    <3>1. UNCHANGED <<tx, lane, todo, clock, inflight>> /\ sup = "running" /\ sup' = "draining"
      BY <2>3 DEF Interrupt, laneVars
    <3> QED BY <2>2, <3>1 DEF ParallelNears
  <2>4. CASE Tick
    <3>1. UNCHANGED <<tx, lane, todo, sup, inflight>>
      BY <2>4 DEF Tick, txVars, laneVars, mainVars
    <3>2. <<clock, clock'>> \in {<<"ample", "low">>, <<"low", "expired">>}
      BY <2>4 DEF Tick, TypeOK
    <3> QED BY <2>2, <3>1, <3>2 DEF ParallelNears
  <2>5. CASE OrphanEnds
    <3>1. UNCHANGED <<tx, lane, todo, sup, clock>> /\ \E p \in inflight : inflight' = inflight \ {p}
      BY <2>5 DEF OrphanEnds, laneVars
    <3> QED BY <2>2, <3>1 DEF ParallelNears
  <2>6. CASE Start \/ MainStep \/ Crash
    <3>1. sup = "idle" \/ Ended \/ Interrupt
      BY <2>6, EndingSteps DEF StartLanes
    <3>2. ~Ended
      BY DEF Ended, Return, Reset
    <3> QED BY <2>3, <3>1, <3>2
  <2> QED BY <2>1, <2>3, <2>4, <2>5, <2>6 DEF Next
<1> QED BY <1>1, <1>2, TypeCorrect, ShapeInvariant, PTL DEF Spec
=============================================================================
