--------------------------- MODULE TrainCampaignProofs ---------------------------
(***************************************************************************)
(* Proofs about TrainCampaign for every number of cells, artifacts and     *)
(* attempts, any order of preparation and any number of faults.            *)
(***************************************************************************)
EXTENDS TrainCampaignProps, TLAPS

-----------------------------------------------------------------------------
(* The inductive invariants                                                *)

\* An attempt that runs has not ended, and is at a cell of the manifest while a
\* cell's group is its business.
AtCell == {"spawned", "waiting", "draining"}
SupInv ==
    /\ sup.pc # "idle" => sup.attempt # 0 /\ sup.exit = "none"
    /\ sup.pc \in AtCell => sup.i \in DOMAIN Order
TypeInv == CampaignTypeOK /\ SupInv

\* What an attempt counts as complete has its durable claim, and it remembers
\* that a cell failed.
LedgerInv ==
    /\ \A c \in Cells : sup.status[c] \in {"skipped", "completed"} => c \in store.done
    /\ sup.overall = 0 => \A c \in Cells : sup.status[c] # "failed"
    /\ sup.pc = "completing" => AllComplete /\ sup.attempt \in store.results
    /\ CompletionSound /\ ExitZeroEarned

\* Only the cell the supervisor waits for has a leader, a trainer drains only
\* after a signal, and the cells still to come have prepared nothing.
GroupInv ==
    /\ \A c \in Cells : LeaderAlive(c) => sup.pc \in {"spawned", "waiting"} /\ c = Current
    /\ tails # {} => sup.signal
    /\ sup.pc # "idle" => \A j \in DOMAIN Order :
          j > sup.i \/ (j = sup.i /\ sup.pc = "loop") =>
             \A a \in Artifacts : prep[Order[j]][a] = "idle"

\* What a live cell has prepared is complete, and its script has passed only what
\* is prepared.
ReadyInv ==
    /\ \A c \in Cells, a \in Artifacts :
          LeaderAlive(c) /\ prep[c][a] = "ready" => body[a] = "full"
    /\ \A c \in Cells : group[c].phase = "script" =>
          \A i \in DOMAIN Script :
             i < group[c].at /\ ~IsTree(Script[i]) => prep[c][Script[i]] = "ready"
    /\ UseIsExact

\* Whoever left an artifact that is neither usable nor free is at work, was killed,
\* or failed without undoing its work; a lost node runs nothing any more.
Behind(a) ==
    {"marking", "killed", "spoiled"} \union (IF KindOf[a] = "env" THEN {"staging"} ELSE {})
Taken(a) == body[a] # "absent" \/ a \in mark
Holding == {"staging", "installing", "killed", "spoiled"}
BlockInv ==
    /\ \A a \in mark : KindOf[a] # "blob"
    /\ \A a \in Artifacts : KindOf[a] # "env" => body[a] # "partial"
    /\ \A c \in Cells, a \in Artifacts : prep[c][a] = "marking" => KindOf[a] # "blob"
    /\ sup.exit = "lost" => prep = [c \in Cells |-> [a \in Artifacts |-> "idle"]]
    /\ sup.exit # "lost" =>
          /\ \A a \in Artifacts : Taken(a) /\ ~Usable(a) =>
                \E d \in Cells : prep[d][a] \in Behind(a)
          /\ \A c \in Cells, a \in Artifacts :
                <<c, a>> \in temps =>
                   KindOf[a] # "env" /\ prep[c][a] \in Holding

-----------------------------------------------------------------------------
(* Types                                                                   *)

\* Cells and artifacts by their place in the order, and their types.
LEMMA OrderFacts ==
  /\ Len(Order) \in Nat /\ DOMAIN Order = 1..Len(Order)
  /\ \A i \in DOMAIN Order : Order[i] \in Cells
  /\ Len(Script) \in Nat /\ DOMAIN Script = 1..Len(Script)
  /\ \A i \in DOMAIN Script : Script[i] \in Artifacts
BY CampaignAssumption DEF CampaignAssumption

\* The initial state is well typed.
LEMMA InitTypes == Init => TypeInv
<1> SUFFICES ASSUME Init PROVE TypeInv
    OBVIOUS
<1> USE DEF Init, CacheInit, CampaignInit, NoGroup
<1>1. CacheTypeOK
    BY DEF CacheTypeOK, Phases
<1>2. CampaignTypeOK
    BY <1>1, OrderFacts, CampaignAssumption DEF CampaignAssumption, CampaignTypeOK, Statuses
<1>3. SupInv
    BY DEF SupInv, AtCell
<1> QED
    BY <1>2, <1>3 DEF TypeInv

\* A preparing process keeps the cache well typed.
LEMMA PrepareTypes ==
  ASSUME CacheTypeOK, NEW c \in Cells, NEW a \in Artifacts, Prepare(c, a) \/ Kill(c, a)
  PROVE  CacheTypeOK'
<1> USE DEF CacheTypeOK, Phases, Active, Moves, At
<1>1. CASE Reuse(c, a)
    BY <1>1 DEF Reuse
<1>2. CASE FindPartial(c, a)
    BY <1>2 DEF FindPartial
<1>3. CASE Begin(c, a)
    BY <1>3 DEF Begin
<1>4. CASE Staged(c, a)
    BY <1>4 DEF Staged
<1>5. CASE StagingFails(c, a)
    BY <1>5 DEF StagingFails
<1>6. CASE Install(c, a)
    BY <1>6 DEF Install
<1>7. CASE Mark(c, a)
    BY <1>7 DEF Mark
<1>8. CASE Kill(c, a)
    BY <1>8 DEF Kill
<1> QED
    BY <1>1, <1>2, <1>3, <1>4, <1>5, <1>6, <1>7, <1>8 DEF Prepare

\* The groups keep their type when a cell's script moves on or a cell exits.
GroupType == [Cells -> [phase : {"none", "script", "training", "exited"},
                        at : 1..(Len(Script) + 1), rc : {0, 1}]]
LEMMA ExitType ==
  ASSUME group \in GroupType, NEW c \in Cells, NEW rc \in {0, 1}
  PROVE  /\ Exit(c, rc) \in GroupType
         /\ [group EXCEPT ![c].phase = "training"] \in GroupType
         /\ group[c].at \in DOMAIN Script => [group EXCEPT ![c].at = @ + 1] \in GroupType
<1> DEFINE G == [phase : {"none", "script", "training", "exited"},
                 at : 1..(Len(Script) + 1), rc : {0, 1}]
<1>1. group[c] \in G
    BY DEF GroupType
<1>2. ASSUME NEW g \in G
      PROVE  /\ [g EXCEPT !.phase = "exited", !.rc = rc] \in G
             /\ [g EXCEPT !.phase = "training"] \in G
             /\ g.at \in DOMAIN Script => [g EXCEPT !.at = @ + 1] \in G
    <2>1. g.at \in DOMAIN Script => g.at + 1 \in 1..(Len(Script) + 1)
        BY OrderFacts
    <2> QED
        BY <2>1
<1>3. \A g \in G : [group EXCEPT ![c] = g] \in GroupType
    BY DEF GroupType
<1>4. Exit(c, rc) = [group EXCEPT ![c] = [group[c] EXCEPT !.phase = "exited", !.rc = rc]]
    BY Zenon DEF Exit
<1>5. [group EXCEPT ![c].phase = "training"]
        = [group EXCEPT ![c] = [group[c] EXCEPT !.phase = "training"]]
    BY Zenon
<1>6. [group EXCEPT ![c].at = @ + 1] = [group EXCEPT ![c] = [group[c] EXCEPT !.at = @ + 1]]
    BY Zenon
<1> HIDE DEF G
<1>7. /\ [group[c] EXCEPT !.phase = "exited", !.rc = rc] \in G
      /\ [group[c] EXCEPT !.phase = "training"] \in G
      /\ group[c].at \in DOMAIN Script => [group[c] EXCEPT !.at = @ + 1] \in G
    BY <1>1, <1>2, Zenon
<1> QED
    BY <1>3, <1>4, <1>5, <1>6, <1>7, Zenon

\* Killing a cell's group keeps cache and groups well typed.
LEMMA KillTypes ==
  ASSUME CampaignTypeOK, NEW c \in Cells, KillGroup(c)
  PROVE  /\ CacheTypeOK'
         /\ group' \in GroupType
         /\ tails' \subseteq Cells
<1>1. CacheTypeOK'
    BY DEF CampaignTypeOK, KillGroup, CacheTypeOK, Phases, Active
<1>2. group' \in GroupType
    BY ExitType DEF CampaignTypeOK, KillGroup, GroupType
<1>3. tails' \subseteq Cells
    BY DEF CampaignTypeOK, KillGroup
<1> QED
    BY <1>1, <1>2, <1>3

\* A step of a cell's group keeps the types and leaves the supervisor alone.
LEMMA GroupTypes ==
  ASSUME TypeInv, NEW c \in Cells, GroupStep(c)
  PROVE  TypeInv'
<1>0. /\ CampaignTypeOK /\ CacheTypeOK /\ group \in GroupType
      /\ sup' = sup /\ (SupInv => SupInv')
    BY DEF GroupStep, ScriptStep, Joins, TrainingEnds, TailDrains, PrepareArtifact,
           PreparerKilled, campaignVars, SupInv, TypeInv, CampaignTypeOK, GroupType
<1>1. CASE ScriptStep(c)
    <2>1. CacheTypeOK'
        BY <1>0, <1>1 DEF ScriptStep, CacheTypeOK, Moves, Phases, Active
    <2>2. group[c].at \in DOMAIN Script
        BY <1>0, <1>1, OrderFacts DEF ScriptStep, GroupType
    <2>3. group' \in GroupType
        BY <1>0, <1>1, <2>2, ExitType DEF ScriptStep
    <2> QED
        BY <1>0, <1>1, <2>1, <2>3 DEF ScriptStep, TypeInv, CampaignTypeOK, GroupType
<1>2. CASE Joins(c)
    <2>1. group' \in GroupType
        BY <1>0, <1>2, ExitType DEF Joins
    <2> QED
        BY <1>0, <1>2, <2>1 DEF Joins, TypeInv, CampaignTypeOK, GroupType, cacheVars, CacheTypeOK
<1>3. CASE TrainingEnds(c)
    <2>1. group' \in GroupType
        BY <1>0, <1>3, ExitType DEF TrainingEnds
    <2>2. store' \in [done : SUBSET Cells, results : SUBSET (1..MaxAttempts),
                       complete : 0..MaxAttempts]
        BY <1>0, <1>3 DEF TrainingEnds, CampaignTypeOK
    <2> QED
        BY <1>0, <1>3, <2>1, <2>2
        DEF TrainingEnds, TypeInv, CampaignTypeOK, GroupType, cacheVars, CacheTypeOK
<1>4. CASE TailDrains(c)
    BY <1>0, <1>4 DEF TailDrains, TypeInv, CampaignTypeOK, cacheVars, CacheTypeOK
<1>5. CASE PrepareArtifact(c)
    BY <1>0, <1>5, PrepareTypes DEF PrepareArtifact, TypeInv, CampaignTypeOK, campaignVars
<1>6. CASE PreparerKilled(c)
    BY <1>0, <1>6, PrepareTypes, CampaignAssumption
    DEF PreparerKilled, TypeInv, CampaignTypeOK, CampaignAssumption
<1> QED
    BY <1>1, <1>2, <1>3, <1>4, <1>5, <1>6 DEF GroupStep

\* A record of the supervisor that changes as the program changes it is one.
SupType == [pc : {"idle", "loop", "spawned", "waiting", "draining", "sealing", "completing"},
            attempt : 0..MaxAttempts, i : 1..(Len(Order) + 1), signal : BOOLEAN,
            overall : {0, 1}, status : [Cells -> Statuses],
            exit : {"none", "zero", "nonzero", "raised", "lost"}]
LEMMA RecordedType ==
  ASSUME sup \in SupType, sup.i \in DOMAIN Order
  PROVE  /\ Current \in Cells
         /\ Recorded("skipped") \in SupType /\ Recorded("deferred") \in SupType
         /\ [Recorded("skipped") EXCEPT !.i = @ + 1] \in SupType
         /\ [Recorded("deferred") EXCEPT !.pc = "sealing"] \in SupType
         /\ [Recorded("completed") EXCEPT !.i = @ + 1, !.pc = "loop"] \in SupType
         /\ Failed \in SupType
<1>1. Current \in Cells
    BY OrderFacts DEF Current
<1>2. \A status \in Statuses : Recorded(status) \in SupType /\ Recorded(status).i = sup.i
    BY <1>1 DEF Recorded, SupType
<1>3. sup.i + 1 \in 1..(Len(Order) + 1)
    BY OrderFacts DEF SupType
<1>4. Failed \in SupType
    BY <1>2, <1>3 DEF Failed, SupType, Statuses
<1> QED
    BY <1>1, <1>2, <1>3, <1>4 DEF SupType, Statuses

\* A step of the supervisor, of its node or of its store keeps the types.
LEMMA SupervisorTypes ==
  ASSUME TypeInv, Launch \/ SupervisorStep \/ Signal \/ ClaimUnread \/ StoreFails \/ NodeLost
  PROVE  TypeInv'
<1>0. /\ CampaignTypeOK /\ CacheTypeOK /\ group \in GroupType /\ sup \in SupType /\ SupInv
      /\ MaxAttempts \in Nat /\ MaxMishaps \in Nat
    BY CampaignAssumption DEF CampaignAssumption, TypeInv, CampaignTypeOK, GroupType, SupType
<1> USE DEF TypeInv, SupInv, AtCell
<1>1. CASE Launch
    <2>1. sup' \in SupType
        BY <1>0, <1>1, OrderFacts DEF Launch, SupType, Statuses
    <2>2. group' \in GroupType
        BY <1>1, OrderFacts DEF Launch, NoGroup, GroupType
    <2>3. CacheTypeOK'
        BY <1>1 DEF Launch, CacheTypeOK, Phases
    <2> QED
        BY <1>0, <1>1, <2>1, <2>2, <2>3 DEF Launch, CampaignTypeOK, GroupType, SupType
<1>2. CASE HeedSignal \/ LoopEnds \/ LeaderReturns
    <2>1. sup' \in SupType
        BY <1>0, <1>2 DEF HeedSignal, LoopEnds, LeaderReturns, SupType
    <2>2. SupInv'
        BY <1>0, <1>2 DEF HeedSignal, LoopEnds, LeaderReturns, InLoop, SupType
    <2> QED
        BY <1>0, <1>2, <2>1, <2>2
        DEF HeedSignal, LoopEnds, LeaderReturns, CampaignTypeOK, SupType, cacheVars, CacheTypeOK
<1>3. CASE SkipExact \/ Defer
    <2>0. sup.i \in DOMAIN Order
        BY <1>0, <1>3, OrderFacts DEF SkipExact, Defer, InLoop, SupType
    <2>1. sup' \in SupType
        BY <1>0, <1>3, <2>0, RecordedType DEF SkipExact, Defer
    <2>2. SupInv'
        BY <1>0, <1>3 DEF SkipExact, Defer, InLoop, SupType, Recorded
    <2> QED
        BY <1>0, <1>3, <2>1, <2>2
        DEF SkipExact, Defer, CampaignTypeOK, SupType, cacheVars, CacheTypeOK
<1>4. CASE StartCell
    <2>0. sup.i \in DOMAIN Order /\ Current \in Cells
        BY <1>0, <1>4, OrderFacts DEF StartCell, InLoop, SupType, Current
    <2>1. sup' \in SupType
        BY <1>0, <1>4 DEF StartCell, SupType
    <2>2. SupInv'
        BY <1>0, <1>4, <2>0 DEF StartCell, InLoop, SupType
    <2>3. CacheTypeOK'
        BY <1>0, <1>4 DEF StartCell, Evicts, EvictArtifacts, CacheTypeOK
    <2>4. mishaps' \in 0..MaxMishaps
        BY <1>0, <1>4 DEF StartCell, Evicts, CampaignTypeOK
    <2>5. [NoGroup EXCEPT !.phase = "script"]
             \in [phase : {"none", "script", "training", "exited"},
                  at : 1..(Len(Script) + 1), rc : {0, 1}]
        BY OrderFacts DEF NoGroup
    <2>6. group' \in GroupType
        BY <1>0, <1>4, <2>5 DEF StartCell, GroupType
    <2> QED
        BY <1>0, <1>4, <2>0, <2>1, <2>2, <2>3, <2>4, <2>6
        DEF StartCell, CampaignTypeOK, GroupType, SupType
<1>5. CASE PublishesHandle \/ Signal
    <2>0. Current \in Cells \/ SpareGroup
        BY <1>0, <1>5, OrderFacts DEF PublishesHandle, Signal, Current
    <2>1. sup' \in SupType /\ SupInv'
        BY <1>0, <1>5 DEF PublishesHandle, Signal, SupType
    <2>2. CacheTypeOK' /\ group' \in GroupType /\ tails' \subseteq Cells
        <3>1. CASE SpareGroup
            BY <1>0, <3>1 DEF SpareGroup, CampaignTypeOK, cacheVars, CacheTypeOK
        <3>2. CASE ~SpareGroup
            BY <1>0, <1>5, <2>0, <3>2, KillTypes DEF PublishesHandle, Signal
        <3> QED
            BY <3>1, <3>2
    <2> QED
        BY <1>0, <1>5, <2>1, <2>2 DEF PublishesHandle, Signal, CampaignTypeOK, GroupType, SupType
<1>6. CASE Drained \/ ClaimUnread \/ DrainTimesOut
    <2>1. sup.i \in DOMAIN Order
        BY <1>0, <1>6 DEF Drained, ClaimUnread, DrainTimesOut
    <2>2. sup' \in SupType
        BY <1>0, <1>6, <2>1, RecordedType DEF Drained, ClaimUnread, DrainTimesOut
    <2>3. SupInv'
        BY <1>0, <1>6 DEF Drained, ClaimUnread, DrainTimesOut, Failed, Recorded, SupType
    <2> QED
        BY <1>0, <1>6, <2>2, <2>3
        DEF Drained, ClaimUnread, DrainTimesOut, CampaignTypeOK, SupType, cacheVars, CacheTypeOK
<1>7. CASE Seal
    <2>1. sup' \in SupType /\ SupInv'
        BY <1>0, <1>7 DEF Seal, SupType
    <2>2. sup.attempt \in 1..MaxAttempts
        BY <1>0, <1>7 DEF Seal, SupType
    <2> QED
        BY <1>0, <1>7, <2>1, <2>2 DEF Seal, CampaignTypeOK, SupType, cacheVars, CacheTypeOK
<1>8. CASE Complete \/ StoreFails
    <2>1. sup' \in SupType /\ SupInv'
        BY <1>0, <1>8 DEF Complete, StoreFails, Raise, SupType
    <2>2. /\ store' \in [done : SUBSET Cells, results : SUBSET (1..MaxAttempts),
                         complete : 0..MaxAttempts]
          /\ mishaps' \in 0..MaxMishaps
        BY <1>0, <1>8 DEF Complete, StoreFails, CampaignTypeOK, SupType
    <2> QED
        BY <1>0, <1>8, <2>1, <2>2
        DEF Complete, StoreFails, CampaignTypeOK, SupType, cacheVars, CacheTypeOK
<1>9. CASE NodeLost
    <2>1. sup' \in SupType /\ SupInv'
        BY <1>0, <1>9 DEF NodeLost, SupType
    <2>2. group' \in GroupType
        BY <1>9, OrderFacts DEF NodeLost, NoGroup, GroupType
    <2>3. CacheTypeOK'
        BY <1>0, <1>9 DEF NodeLost, CacheTypeOK, Phases
    <2> QED
        BY <1>0, <1>9, <2>1, <2>2, <2>3 DEF NodeLost, CampaignTypeOK, GroupType, SupType
<1> QED
    BY <1>1, <1>2, <1>3, <1>4, <1>5, <1>6, <1>7, <1>8, <1>9 DEF SupervisorStep

LEMMA StepTypes == TypeInv /\ [Next]_vars => TypeInv'
<1> SUFFICES ASSUME TypeInv, [Next]_vars PROVE TypeInv'
    OBVIOUS
<1>1. CASE UNCHANGED vars
    BY <1>1 DEF vars, cacheVars, campaignVars, TypeInv, CampaignTypeOK, CacheTypeOK, SupInv
<1>2. CASE Next
    BY <1>2, GroupTypes, SupervisorTypes DEF Next
<1> QED
    BY <1>1, <1>2

\* Every variable of the campaign, of the cells' groups and of the cache stays in
\* its type (CampaignRunner, gpu_train_entry.sh, shared_artifacts.py).
THEOREM CampaignTypeTheorem == Spec => []CampaignTypeOK
<1>1. TypeInv => CampaignTypeOK
    BY DEF TypeInv
<1> QED
    BY InitTypes, StepTypes, <1>1, PTL DEF Spec

-----------------------------------------------------------------------------
(* What the campaign claims                                                *)

LEMMA InitLedger == Init => LedgerInv
BY DEF Init, CampaignInit, LedgerInv, CompletionSound, ExitZeroEarned

LEMMA StepLedger == TypeInv /\ LedgerInv /\ [Next]_vars => LedgerInv'
<1> SUFFICES ASSUME TypeInv, LedgerInv, [Next]_vars PROVE LedgerInv'
    OBVIOUS
<1>0. sup \in SupType /\ SupInv
    BY DEF TypeInv, CampaignTypeOK, SupType
<1> USE DEF LedgerInv, CompletionSound, ExitZeroEarned, AllComplete, AnyDeferred
<1>1. CASE UNCHANGED <<sup, store>>
    BY <1>1
<1>2. CASE Launch
    BY <1>0, <1>2 DEF Launch, SupType
<1>3. CASE HeedSignal \/ LoopEnds \/ LeaderReturns \/ Signal \/ PublishesHandle \/ StartCell
    BY <1>0, <1>3 DEF HeedSignal, LoopEnds, LeaderReturns, Signal, PublishesHandle, StartCell,
                      InLoop, SupType, SupInv
<1>4. CASE SkipExact
    BY <1>0, <1>4 DEF SkipExact, Recorded, InLoop, SupType, SupInv
<1>5. CASE Defer
    BY <1>0, <1>5 DEF Defer, Recorded, InLoop, SupType, SupInv
<1>6. CASE Drained \/ ClaimUnread \/ DrainTimesOut
    <2>1. CASE sup' = Failed /\ UNCHANGED store
        BY <1>0, <1>6, <2>1 DEF Drained, ClaimUnread, DrainTimesOut, Failed, Recorded, SupType, SupInv
    <2>2. CASE sup' # Failed
        <3>1. /\ sup' = [Recorded("completed") EXCEPT !.i = @ + 1, !.pc = "loop"]
              /\ Current \in store.done /\ store' = store /\ sup.pc = "draining"
            BY <1>6, <2>2 DEF Drained, ClaimUnread, DrainTimesOut
        <3>2. sup' = [sup EXCEPT !.status = [@ EXCEPT ![Current] = "completed"],
                                 !.i = @ + 1, !.pc = "loop"]
            BY <1>0, <3>1 DEF Recorded, SupType
        <3>3. /\ sup'.status = [sup.status EXCEPT ![Current] = "completed"]
              /\ sup'.overall = sup.overall /\ sup'.pc = "loop" /\ sup'.exit = sup.exit
            BY <1>0, <3>2 DEF SupType
        <3> QED
            BY <1>0, <3>1, <3>3 DEF SupType, SupInv
    <2> QED
        BY <1>6, <2>1, <2>2 DEF Drained, ClaimUnread, DrainTimesOut
<1>7. CASE Seal
    BY <1>0, <1>7 DEF Seal, TypeInv, CampaignTypeOK, SupType, SupInv
<1>8. CASE Complete
    BY <1>0, <1>8 DEF Complete, Raise, TypeInv, CampaignTypeOK, SupType, SupInv
<1>9. CASE StoreFails
    BY <1>0, <1>9 DEF StoreFails, Raise, TypeInv, CampaignTypeOK, SupType, SupInv
<1>10. CASE NodeLost
    BY <1>0, <1>10 DEF NodeLost, SupType, SupInv
<1>11. ASSUME NEW c \in Cells, GroupStep(c) PROVE LedgerInv'
    <2>1. CASE TrainingEnds(c)
        BY <2>1 DEF TrainingEnds, TypeInv, CampaignTypeOK
    <2>2. CASE ~TrainingEnds(c)
        BY <1>1, <1>11, <2>2
        DEF GroupStep, ScriptStep, Joins, TailDrains, PrepareArtifact, PreparerKilled, campaignVars
    <2> QED
        BY <2>1, <2>2
<1> QED
    BY <1>1, <1>2, <1>3, <1>4, <1>5, <1>6, <1>7, <1>8, <1>9, <1>10, <1>11
    DEF Next, SupervisorStep, vars, campaignVars

\* The campaign's claim stands only over durable claims of every cell, whatever
\* fails or is killed between a cell's exit and the claim (CampaignRunner.run).
THEOREM CompletionTheorem == Spec => []CompletionSound
<1>1. LedgerInv => CompletionSound
    BY DEF LedgerInv
<1> QED
    BY InitTypes, StepTypes, InitLedger, StepLedger, <1>1, PTL DEF Spec

\* Exit code zero is earned: by the claim, or by a deferral with no failed cell.
THEOREM ExitZeroTheorem == Spec => []ExitZeroEarned
<1>1. LedgerInv => ExitZeroEarned
    BY DEF LedgerInv
<1> QED
    BY InitTypes, StepTypes, InitLedger, StepLedger, <1>1, PTL DEF Spec

-----------------------------------------------------------------------------
(* What a cell's processes stand on                                        *)

LEMMA InitWork == Init => WorkOutlivesGroup
BY DEF Init, CacheInit, CampaignInit, NoGroup, WorkOutlivesGroup, Alive, LeaderAlive, Running, Active

LEMMA StepWork == TypeInv /\ WorkOutlivesGroup /\ [Next]_vars => WorkOutlivesGroup'
<1> SUFFICES ASSUME TypeInv, WorkOutlivesGroup, [Next]_vars, NEW c \in Cells, Alive(c)'
             PROVE  c \in work'
    BY DEF WorkOutlivesGroup
<1>0. /\ group \in GroupType /\ prep \in [Cells -> [Artifacts -> Phases]] /\ sup \in SupType /\ SupInv
      /\ Alive(c) => c \in work
    BY DEF TypeInv, CampaignTypeOK, CacheTypeOK, GroupType, SupType, WorkOutlivesGroup
<1> USE DEF Alive, LeaderAlive, Running
<1>1. CASE UNCHANGED <<prep, group, tails, work>>
    BY <1>0, <1>1
<1>2. CASE Launch \/ NodeLost
    BY <1>2 DEF Launch, NodeLost, NoGroup, Active
<1>3. CASE StartCell
    <2>1. Current \in Cells
        BY <1>0, <1>3, OrderFacts DEF StartCell, InLoop, SupType, Current
    <2> QED
        BY <1>0, <1>3, <2>1 DEF StartCell, GroupType
<1>4. CASE Signal \/ PublishesHandle
    <2>1. Current \in Cells \/ SpareGroup
        BY <1>0, <1>4, OrderFacts DEF PublishesHandle, Signal, Current, SupInv, AtCell
    <2>2. CASE SpareGroup
        BY <1>0, <1>4, <2>2 DEF Signal, PublishesHandle, SpareGroup, cacheVars
    <2>3. CASE ~SpareGroup
        BY <1>0, <1>4, <2>1, <2>3 DEF Signal, PublishesHandle, KillGroup, Exit, GroupType, Active
    <2> QED
        BY <2>2, <2>3
<1>5. CASE Drained \/ ClaimUnread \/ DrainTimesOut
    BY <1>0, <1>5 DEF Drained, ClaimUnread, DrainTimesOut, cacheVars
<1>6. ASSUME NEW d \in Cells, GroupStep(d) PROVE c \in work'
    <2>0. work' = work
        BY <1>6 DEF GroupStep, ScriptStep, Joins, TrainingEnds, TailDrains, PrepareArtifact,
                    PreparerKilled, campaignVars
    <2>1. CASE ScriptStep(d)
        BY <1>0, <2>0, <2>1 DEF ScriptStep, GroupType, Moves, Exit
    <2>2. CASE Joins(d) \/ TrainingEnds(d)
        BY <1>0, <2>0, <2>2 DEF Joins, TrainingEnds, GroupType, Exit, cacheVars
    <2>3. CASE TailDrains(d)
        BY <1>0, <2>0, <2>3 DEF TailDrains, cacheVars
    <2>4. CASE PrepareArtifact(d) \/ PreparerKilled(d)
        <3>1. PICK a \in Artifacts : Prepare(d, a) \/ Kill(d, a)
            BY <2>4 DEF PrepareArtifact, PreparerKilled
        <3>2. /\ prep[d][a] \in Active
              /\ \A e \in Cells, b \in Artifacts : prep'[e][b] # prep[e][b] => e = d /\ b = a
            BY <1>0, <3>1 DEF Prepare, Kill, Reuse, FindPartial, Begin, Staged, StagingFails,
                              Install, Mark, Moves, At, Active
        <3> QED
            BY <1>0, <2>0, <2>4, <3>2 DEF PrepareArtifact, PreparerKilled, campaignVars
    <2> QED
        BY <1>6, <2>1, <2>2, <2>3, <2>4 DEF GroupStep
<1> QED
    BY <1>1, <1>2, <1>3, <1>4, <1>5, <1>6
    DEF Next, SupervisorStep, HeedSignal, SkipExact, Defer, LeaderReturns, LoopEnds, Seal, Complete,
        StoreFails, vars, campaignVars, cacheVars

\* No process of a cell's group, its preparers and its draining trainer included,
\* outlives the cell's work tree (_run_cell's wait for the group).
THEOREM WorkTheorem == Spec => []WorkOutlivesGroup
BY InitTypes, StepTypes, InitWork, StepWork, PTL DEF Spec

-----------------------------------------------------------------------------
(* What a cell trains on                                                   *)

\* What a step of a preparing process does, as far as the other cells can tell.
LEMMA PrepareEffects ==
  ASSUME CacheTypeOK, NEW c \in Cells, NEW a \in Artifacts, Prepare(c, a) \/ Kill(c, a)
  PROVE  /\ prep[c][a] \in Active /\ prep'[c][a] # "idle"
         /\ \A e \in Cells, b \in Artifacts : prep'[e][b] # prep[e][b] => e = c /\ b = a
         /\ \A b \in Artifacts : body[b] = "full" => body'[b] = "full"
         /\ prep'[c][a] = "ready" => body'[a] = "full"
<1>0. prep \in [Cells -> [Artifacts -> Phases]] /\ body \in [Artifacts -> {"absent", "partial", "full"}]
    BY DEF CacheTypeOK
<1> USE <1>0 DEF Moves, At, Active
<1>1. CASE Reuse(c, a) \/ FindPartial(c, a) \/ StagingFails(c, a) \/ Kill(c, a)
    BY <1>1 DEF Reuse, FindPartial, StagingFails, Kill
<1>2. CASE Begin(c, a)
    BY <1>2 DEF Begin, Free
<1>3. CASE Staged(c, a)
    BY <1>3 DEF Staged
<1>4. CASE Install(c, a)
    BY <1>4 DEF Install
<1>5. CASE Mark(c, a)
    BY <1>5 DEF Mark
<1> QED
    BY <1>1, <1>2, <1>3, <1>4, <1>5 DEF Prepare

LEMMA InitGroups == Init => GroupInv /\ ReadyInv
BY DEF Init, CacheInit, CampaignInit, NoGroup, GroupInv, ReadyInv, UseIsExact, LeaderAlive, Running

\* A step of a cell's group.
LEMMA GroupStepGroups ==
  ASSUME TypeInv, GroupInv, NEW d \in Cells, GroupStep(d)
  PROVE  GroupInv'
<1>0. /\ group \in GroupType /\ prep \in [Cells -> [Artifacts -> Phases]] /\ sup \in SupType
      /\ SupInv /\ CacheTypeOK
    BY DEF TypeInv, CampaignTypeOK, CacheTypeOK, GroupType, SupType
<1>1. sup' = sup
    BY DEF GroupStep, ScriptStep, Joins, TrainingEnds, TailDrains, PrepareArtifact,
           PreparerKilled, campaignVars
<1>2. \A c \in Cells : LeaderAlive(c)' => LeaderAlive(c)
    BY <1>0 DEF GroupStep, ScriptStep, Joins, TrainingEnds, TailDrains, PrepareArtifact,
                PreparerKilled, campaignVars, LeaderAlive, Running, Exit, GroupType
<1>3. tails' \subseteq tails
    BY DEF GroupStep, ScriptStep, Joins, TrainingEnds, TailDrains, PrepareArtifact,
           PreparerKilled, campaignVars
<1>4. ASSUME sup.pc # "idle", NEW j \in DOMAIN Order, j > sup.i \/ (j = sup.i /\ sup.pc = "loop"),
             NEW a \in Artifacts
      PROVE  prep'[Order[j]][a] = "idle"
    <2>0. Order[j] \in Cells /\ prep[Order[j]][a] = "idle"
        BY <1>4, OrderFacts DEF GroupInv
    <2>1. CASE ScriptStep(d)
        <3>1. Order[j] # d
            BY <1>0, <1>4, <2>1, OrderFacts, CampaignAssumption
            DEF CampaignAssumption, ScriptStep, GroupInv, LeaderAlive, Running, Current, SupInv,
                AtCell, SupType
        <3> QED
            BY <1>0, <2>0, <2>1, <3>1 DEF ScriptStep, Moves
    <2>2. CASE UNCHANGED prep
        BY <2>0, <2>2
    <2>3. CASE PrepareArtifact(d) \/ PreparerKilled(d)
        <3>1. PICK b \in Artifacts : Prepare(d, b) \/ Kill(d, b)
            BY <2>3 DEF PrepareArtifact, PreparerKilled
        <3> QED
            BY <1>0, <2>0, <3>1, PrepareEffects DEF Active
    <2> QED
        BY <2>1, <2>2, <2>3 DEF GroupStep, Joins, TrainingEnds, TailDrains, cacheVars
<1> QED
    BY <1>1, <1>2, <1>3, <1>4 DEF GroupInv, Current

LEMMA StepGroups == TypeInv /\ GroupInv /\ [Next]_vars => GroupInv'
<1> SUFFICES ASSUME TypeInv, GroupInv, [Next]_vars PROVE GroupInv'
    OBVIOUS
<1>0. /\ group \in GroupType /\ prep \in [Cells -> [Artifacts -> Phases]] /\ sup \in SupType
      /\ SupInv /\ CacheTypeOK
    BY DEF TypeInv, CampaignTypeOK, CacheTypeOK, GroupType, SupType
<1> USE DEF GroupInv, LeaderAlive, Running
<1>1. CASE UNCHANGED vars
    BY <1>1 DEF vars, cacheVars, campaignVars, Current
<1>2. CASE Launch
    BY <1>0, <1>2, OrderFacts DEF Launch, NoGroup, SupType
<1>3. CASE NodeLost
    BY <1>0, <1>3, OrderFacts DEF NodeLost, NoGroup, SupType
<1>4. CASE HeedSignal \/ LoopEnds \/ LeaderReturns
    <2>1. LeaderReturns => \A c \in Cells : ~LeaderAlive(c)
        BY DEF LeaderReturns
    <2>2. /\ UNCHANGED <<prep, group, tails>> /\ sup'.i = sup.i /\ sup'.signal = sup.signal
          /\ sup.pc # "idle" /\ sup'.pc \in {"sealing", "draining"}
          /\ sup.pc \in {"spawned", "waiting"} => LeaderReturns
        BY <1>0, <1>4 DEF HeedSignal, LoopEnds, LeaderReturns, InLoop, SupType, cacheVars
    <2> QED
        BY <1>0, <2>1, <2>2
<1>5. CASE SkipExact \/ Defer
    <2>1. /\ UNCHANGED <<prep, group, tails>> /\ sup.pc = "loop" /\ sup'.signal = sup.signal
          /\ sup'.i \in {sup.i, sup.i + 1} /\ sup'.pc \in {"loop", "sealing"}
          /\ sup'.pc = "loop" => sup'.i = sup.i + 1
        BY <1>0, <1>5 DEF SkipExact, Defer, InLoop, Recorded, SupType, cacheVars
    <2> QED
        BY <1>0, <2>1, OrderFacts DEF SupType
<1>6. CASE StartCell
    <2>1. /\ sup.pc = "loop" /\ sup'.pc = "spawned" /\ sup'.i = sup.i /\ sup'.signal = sup.signal
          /\ UNCHANGED <<prep, tails>> /\ sup.i \in DOMAIN Order /\ Current \in Cells
          /\ Current' = Current
        BY <1>0, <1>6, OrderFacts DEF StartCell, InLoop, SupType, Current
    <2>2. \A c \in Cells : LeaderAlive(c)' => c = Current
        BY <1>0, <1>6, <2>1 DEF StartCell, GroupType
    <2> QED
        BY <2>1, <2>2, OrderFacts
<1>7. CASE PublishesHandle \/ Signal
    <2>1. /\ sup.pc # "idle" /\ sup'.pc # "idle" /\ sup'.i = sup.i
          /\ sup'.pc = "loop" => sup.pc = "loop"
          /\ sup.pc \in {"spawned", "waiting"} => sup'.pc \in {"spawned", "waiting"}
          /\ Current' = Current /\ (sup.signal => sup'.signal)
        BY <1>0, <1>7 DEF PublishesHandle, Signal, SupType, Current
    <2>2. CASE SpareGroup
        BY <1>0, <1>7, <2>1, <2>2 DEF SpareGroup, cacheVars, SupType
    <2>3. CASE KillGroup(Current) /\ sup'.signal /\ sup.pc \in {"spawned", "waiting"}
        <3>1. sup.i \in DOMAIN Order /\ Current \in Cells
            BY <1>0, <2>3, OrderFacts DEF SupInv, AtCell, Current
        <3>2. \A c \in Cells : LeaderAlive(c)' => LeaderAlive(c)
            BY <1>0, <2>3, <3>1 DEF KillGroup, Exit, GroupType
        <3>3. \A j \in DOMAIN Order : j > sup.i =>
                 \A a \in Artifacts : prep'[Order[j]][a] = prep[Order[j]][a]
            BY <1>0, <2>3, <3>1, OrderFacts, CampaignAssumption
            DEF CampaignAssumption, KillGroup, Current
        <3> QED
            BY <1>0, <2>1, <2>3, <3>2, <3>3
    <2> QED
        BY <1>0, <1>7, <2>2, <2>3 DEF PublishesHandle, Signal, SupType
<1>8. CASE Drained \/ ClaimUnread \/ DrainTimesOut
    <2>1. /\ UNCHANGED <<prep, group, tails>> /\ sup.pc = "draining" /\ sup'.signal = sup.signal
          /\ sup'.i \in {sup.i, sup.i + 1} /\ sup'.pc \in {"loop", "sealing"}
          /\ sup'.pc = "loop" => sup'.i = sup.i + 1
        BY <1>0, <1>8 DEF Drained, ClaimUnread, DrainTimesOut, Failed, Recorded, SupType, cacheVars
    <2> QED
        BY <1>0, <2>1, OrderFacts DEF SupType
<1>9. CASE Seal \/ Complete \/ StoreFails
    <2>1. /\ UNCHANGED <<prep, group, tails>> /\ sup'.signal = sup.signal /\ sup'.i = sup.i
          /\ sup.pc \in {"loop", "sealing", "completing"} /\ sup'.pc \in {"idle", "completing"}
        BY <1>0, <1>9 DEF Seal, Complete, StoreFails, Raise, InLoop, SupType, cacheVars
    <2> QED
        BY <1>0, <2>1
<1>10. ASSUME NEW d \in Cells, GroupStep(d) PROVE GroupInv'
    BY <1>10, GroupStepGroups
<1> QED
    BY <1>1, <1>2, <1>3, <1>4, <1>5, <1>6, <1>7, <1>8, <1>9, <1>10 DEF Next, SupervisorStep

\* A step of a cell's group keeps what is prepared, and trains only on it.
LEMMA GroupStepReady ==
  ASSUME TypeInv, ReadyInv, NEW d \in Cells, GroupStep(d)
  PROVE  ReadyInv'
<1>0. /\ group \in GroupType /\ prep \in [Cells -> [Artifacts -> Phases]] /\ CacheTypeOK
      /\ \A i \in DOMAIN Script : Script[i] \in Artifacts
    BY OrderFacts DEF TypeInv, CampaignTypeOK, CacheTypeOK, GroupType
<1> USE DEF ReadyInv, UseIsExact, LeaderAlive, Running, IsTree
<1>1. CASE ScriptStep(d)
    <2> DEFINE k == group[d].at
    <2>0. /\ group' = group \/ group' = [group EXCEPT ![d].at = @ + 1] \/ group' = Exit(d, 1)
          /\ group[d].phase = "script" /\ k <= Len(Script) /\ UNCHANGED <<body, tails>>
        BY <1>1 DEF ScriptStep
    <2>1. /\ group[d].phase = "script" /\ k \in DOMAIN Script
          /\ UNCHANGED <<body, tails>>
          /\ \A e \in Cells : group'[e].phase \in {group[e].phase, "exited"}
        <3>1. k \in DOMAIN Script
            BY <1>0, <2>0, OrderFacts DEF GroupType
        <3>2. \A e \in Cells : group'[e].phase \in {group[e].phase, "exited"}
            BY <1>0, <2>0 DEF GroupType, Exit
        <3> QED
            BY <2>0, <3>1, <3>2
    <2>2. /\ \A e \in Cells : e # d => group'[e] = group[e]
          /\ group'[d].at # k => group'[d].at = k + 1 /\ (IsTree(Script[k]) \/ prep[d][Script[k]] = "ready")
        BY <1>0, <1>1 DEF ScriptStep, GroupType, Exit, At
    <2>3. \A e \in Cells, b \in Artifacts : prep'[e][b] = "ready" <=> prep[e][b] = "ready"
        BY <1>0, <1>1, <2>1 DEF ScriptStep, Moves, At
    <2> HIDE DEF k
    <2>4. ASSUME NEW e \in Cells, group'[e].phase = "script", NEW i \in DOMAIN Script,
                 i < group'[e].at, ~IsTree(Script[i])
          PROVE  prep'[e][Script[i]] = "ready"
        <3>1. group[e].phase = "script"
            BY <2>1, <2>4
        <3>2. CASE i < group[e].at
            BY <1>0, <2>3, <2>4, <3>1, <3>2
        <3>3. CASE ~(i < group[e].at)
            BY <1>0, <2>1, <2>2, <2>3, <2>4, <3>3, OrderFacts DEF k, GroupType
        <3> QED
            BY <3>2, <3>3
    <2>5. \A e \in Cells, b \in Artifacts : LeaderAlive(e)' /\ prep'[e][b] = "ready" => body'[b] = "full"
        BY <2>1, <2>3
    <2>6. UseIsExact'
        BY <2>1
    <2> QED
        BY <2>4, <2>5, <2>6
<1>2. CASE Joins(d)
    <2>1. /\ UNCHANGED <<body, prep, tails>> /\ group[d].phase = "script" /\ group[d].at = Len(Script) + 1
          /\ \A e \in Cells : e # d => group'[e] = group[e]
          /\ group'[d].phase \in {"training", "exited"}
          /\ group'[d].phase = "training" =>
                \A i \in DOMAIN Script : IsTree(Script[i]) => prep[d][Script[i]] = "ready"
        BY <1>0, <1>2 DEF Joins, GroupType, Exit, cacheVars
    <2>2. group'[d].phase = "training" => \A i \in DOMAIN Script : body[Script[i]] = "full"
        <3> SUFFICES ASSUME group'[d].phase = "training", NEW i \in DOMAIN Script
                     PROVE  body[Script[i]] = "full"
            OBVIOUS
        <3>1. i < group[d].at
            BY <2>1, OrderFacts
        <3> QED
            BY <1>0, <2>1, <3>1
    <2> QED
        BY <1>0, <2>1, <2>2
<1>3. CASE TrainingEnds(d) \/ TailDrains(d)
    <2>1. /\ UNCHANGED <<body, prep>> /\ tails' \subseteq tails
          /\ \A e \in Cells : group'[e] = group[e] \/ group'[e].phase = "exited"
        <3>1. CASE TrainingEnds(d)
            <4>1. PICK rc \in {0, 1} : group' = Exit(d, rc)
                BY <3>1 DEF TrainingEnds
            <4>2. \A e \in Cells : group'[e] = group[e] \/ group'[e].phase = "exited"
                BY <1>0, <4>1 DEF GroupType, Exit
            <4> QED
                BY <3>1, <4>2 DEF TrainingEnds, cacheVars
        <3>2. CASE TailDrains(d)
            BY <3>2 DEF TailDrains, cacheVars
        <3> QED
            BY <1>3, <3>1, <3>2
    <2> QED
        BY <2>1
<1>4. CASE PrepareArtifact(d) \/ PreparerKilled(d)
    <2>0. PICK b \in Artifacts : Prepare(d, b) \/ Kill(d, b)
        BY <1>4 DEF PrepareArtifact, PreparerKilled
    <2>1. UNCHANGED <<group, tails>>
        BY <1>4 DEF PrepareArtifact, PreparerKilled, campaignVars
    <2>2. \A e \in Cells, a \in Artifacts : prep[e][a] = "ready" => prep'[e][a] = "ready"
        BY <1>0, <2>0, PrepareEffects DEF Active
    <2>3. \A e \in Cells, a \in Artifacts :
             prep'[e][a] = "ready" => prep[e][a] = "ready" \/ body'[a] = "full"
        BY <1>0, <2>0, PrepareEffects
    <2>4. \A a \in Artifacts : body[a] = "full" => body'[a] = "full"
        BY <1>0, <2>0, PrepareEffects
    <2> QED
        BY <1>0, <2>1, <2>2, <2>3, <2>4
<1> QED
    BY <1>1, <1>2, <1>3, <1>4 DEF GroupStep

LEMMA StepReady == TypeInv /\ GroupInv /\ ReadyInv /\ [Next]_vars => ReadyInv'
<1> SUFFICES ASSUME TypeInv, GroupInv, ReadyInv, [Next]_vars PROVE ReadyInv'
    OBVIOUS
<1>0. /\ group \in GroupType /\ prep \in [Cells -> [Artifacts -> Phases]] /\ sup \in SupType /\ SupInv
      /\ \A i \in DOMAIN Script : Script[i] \in Artifacts
    BY OrderFacts DEF TypeInv, CampaignTypeOK, CacheTypeOK, GroupType, SupType
<1> USE DEF ReadyInv, UseIsExact, LeaderAlive, Running
<1>1. CASE UNCHANGED <<body, prep, group, tails>>
    BY <1>1
<1>2. CASE Launch \/ NodeLost
    BY <1>2 DEF Launch, NodeLost, NoGroup
<1>3. CASE StartCell
    <2>1. /\ tails' = {} /\ prep' = prep /\ Current \in Cells
          /\ \A a \in Artifacts : prep[Current][a] = "idle"
        BY <1>0, <1>3, OrderFacts DEF StartCell, InLoop, SupType, Current, GroupInv
    <2>2. /\ \A c \in Cells : c # Current => group'[c] = group[c] /\ ~LeaderAlive(c)
          /\ group'[Current] = [NoGroup EXCEPT !.phase = "script"]
        BY <1>0, <1>3, <2>1 DEF StartCell, InLoop, GroupInv, GroupType
    <2>3. group'[Current].phase = "script" /\ group'[Current].at = 1
        BY <2>2 DEF NoGroup
    <2>4. \A c \in Cells : LeaderAlive(c)' => c = Current /\ group'[c].phase # "training"
        BY <2>2, <2>3
    <2>5. \A i \in DOMAIN Script : ~(i < group'[Current].at)
        BY <2>3, OrderFacts
    <2> QED
        BY <2>1, <2>4, <2>5
<1>4. CASE PublishesHandle \/ Signal
    <2>1. CASE SpareGroup
        BY <1>1, <2>1 DEF SpareGroup, cacheVars
    <2>2. CASE KillGroup(Current) /\ Current \in Cells /\ LeaderAlive(Current)
        <3>1. /\ body' = body
              /\ \A c \in Cells : c # Current => group'[c] = group[c] /\ prep'[c] = prep[c]
              /\ group'[Current].phase = "exited"
              /\ tails' \subseteq tails \union {Current}
              /\ Current \in tails' => Current \in tails \/ group[Current].phase = "training"
            BY <1>0, <2>2 DEF KillGroup, Exit, GroupType
        <3> QED
            BY <2>2, <3>1
    <2> QED
        BY <1>0, <1>4, <2>1, <2>2, OrderFacts DEF PublishesHandle, Signal, SupInv, AtCell, Current
<1>5. ASSUME NEW d \in Cells, GroupStep(d) PROVE ReadyInv'
    BY <1>5, GroupStepReady
<1> QED
    BY <1>1, <1>2, <1>3, <1>4, <1>5
    DEF Next, SupervisorStep, HeedSignal, SkipExact, Defer, LeaderReturns, Drained, DrainTimesOut,
        ClaimUnread, LoopEnds, Seal, Complete, StoreFails, vars, campaignVars, cacheVars

\* A cell trains, and its killed trainer drains, only over complete artifacts: no
\* killed, failed or evicted preparation of its own or of another cell, and no
\* clearing of the cache, takes one away (shared_artifacts.py, _maybe_clear_cache).
THEOREM UseTheorem == Spec => []UseIsExact
<1>1. ReadyInv => UseIsExact
    BY DEF ReadyInv
<1> QED
    BY InitTypes, StepTypes, InitGroups, StepGroups, StepReady, <1>1, PTL DEF Spec

-----------------------------------------------------------------------------
(* Who is turned away                                                      *)

LEMMA InitBlock == Init => BlockInv
BY DEF Init, CacheInit, CampaignInit, BlockInv, Taken, Usable

LEMMA PrepareBlock ==
  ASSUME TypeInv, BlockInv, NEW c \in Cells, NEW a \in Artifacts, Prepare(c, a) \/ Kill(c, a),
         sup' = sup
  PROVE  BlockInv'
<1>0. /\ prep \in [Cells -> [Artifacts -> Phases]] /\ body \in [Artifacts -> {"absent", "partial", "full"}]
      /\ mark \subseteq Artifacts /\ temps \subseteq Cells \X Artifacts /\ CacheTypeOK
      /\ KindOf[a] \in {"tree", "blob", "env"}
    BY ArtifactsAssumption DEF TypeInv, CampaignTypeOK, CacheTypeOK, ArtifactsAssumption
<1>1. \A d \in Cells, b \in Artifacts : (d # c \/ b # a) => prep'[d][b] = prep[d][b]
    BY <1>0, PrepareEffects
<1>2. prep[c][a] \in Active /\ sup.exit # "lost"
    BY <1>0, PrepareEffects DEF BlockInv, Active
<1>3. /\ \A b \in Artifacts \ {a} : body'[b] = body[b] /\ (b \in mark' <=> b \in mark)
      /\ mark' \subseteq Artifacts
      /\ \A d \in Cells, b \in Artifacts : (d # c \/ b # a) => (<<d, b>> \in temps' => <<d, b>> \in temps)
    BY <1>0 DEF Prepare, Reuse, FindPartial, Begin, Staged, StagingFails, Install, Mark, Kill
<1> DEFINE Other == \E d \in Cells \ {c} : prep[d][a] \in Behind(a)
<1>4. /\ a \in mark => KindOf[a] # "blob"
      /\ KindOf[a] # "env" => body[a] # "partial"
      /\ prep[c][a] = "marking" => KindOf[a] # "blob"
      /\ Taken(a) /\ ~Usable(a) => Other \/ prep[c][a] \in Behind(a)
      /\ <<c, a>> \in temps =>
            KindOf[a] # "env" /\ prep[c][a] \in Holding
    BY <1>0, <1>2 DEF BlockInv
<1>5. Other => \E d \in Cells : prep'[d][a] \in Behind(a)
    BY <1>1
<1> HIDE DEF Other
<1>6. /\ a \in mark' => KindOf[a] # "blob"
      /\ KindOf[a] # "env" => body'[a] # "partial"
      /\ prep'[c][a] = "marking" => KindOf[a] # "blob"
      /\ Taken(a)' /\ ~Usable(a)' => Other \/ prep'[c][a] \in Behind(a)
      /\ <<c, a>> \in temps' =>
            KindOf[a] # "env" /\ prep'[c][a] \in Holding
    <2> USE <1>0, <1>4 DEF Behind, Holding, Taken, Usable, At, Moves
    <2>1. CASE Reuse(c, a)
        BY <2>1 DEF Reuse
    <2>2. CASE FindPartial(c, a)
        BY <2>2 DEF FindPartial
    <2>3. CASE Begin(c, a)
        BY <2>3 DEF Begin, Free
    <2>4. CASE Staged(c, a)
        <3>1. CASE KindOf[a] = "env"
            BY <2>4, <3>1 DEF Staged
        <3>2. CASE KindOf[a] # "env"
            BY <2>4, <3>2 DEF Staged
        <3> QED
            BY <3>1, <3>2
    <2>5. CASE StagingFails(c, a)
        BY <2>5 DEF StagingFails
    <2>6. CASE Install(c, a)
        <3>1. CASE prep'[c][a] = "ready"
            BY <2>6, <3>1 DEF Install
        <3>2. CASE prep'[c][a] = "marking"
            BY <2>6, <3>2 DEF Install
        <3>3. CASE prep'[c][a] = "failed"
            BY <2>6, <3>3 DEF Install
        <3>4. CASE prep'[c][a] = "spoiled"
            BY <2>6, <3>4 DEF Install
        <3> QED
            BY <2>6, <3>1, <3>2, <3>3, <3>4 DEF Install
    <2>7. CASE Mark(c, a)
        <3>1. CASE prep'[c][a] = "ready"
            BY <2>7, <3>1 DEF Mark
        <3>2. CASE prep'[c][a] = "spoiled"
            BY <2>7, <3>2 DEF Mark
        <3> QED
            BY <2>7, <3>1, <3>2 DEF Mark
    <2>8. CASE Kill(c, a)
        BY <2>8 DEF Kill, Active
    <2> QED
        BY <2>1, <2>2, <2>3, <2>4, <2>5, <2>6, <2>7, <2>8 DEF Prepare
<1>7. \A b \in Artifacts : Taken(b)' /\ ~Usable(b)' => \E d \in Cells : prep'[d][b] \in Behind(b)
    <2> SUFFICES ASSUME NEW b \in Artifacts, Taken(b)', ~Usable(b)'
                 PROVE  \E d \in Cells : prep'[d][b] \in Behind(b)
        OBVIOUS
    <2>1. CASE b = a
        BY <1>5, <1>6, <2>1
    <2>2. CASE b # a
        <3>1. Taken(b) /\ ~Usable(b)
            BY <1>3, <2>2, ArtifactsAssumption DEF Taken, Usable, ArtifactsAssumption
        <3> QED
            BY <1>1, <1>2, <2>2, <3>1 DEF BlockInv
    <2> QED
        BY <2>1, <2>2
<1>8. /\ \A b \in mark' : KindOf[b] # "blob"
      /\ \A b \in Artifacts : KindOf[b] # "env" => body'[b] # "partial"
    BY <1>3, <1>6 DEF BlockInv
<1>9. /\ \A d \in Cells, b \in Artifacts : prep'[d][b] = "marking" => KindOf[b] # "blob"
      /\ \A d \in Cells, b \in Artifacts :
            <<d, b>> \in temps' =>
               KindOf[b] # "env" /\ prep'[d][b] \in Holding
    BY <1>1, <1>2, <1>3, <1>6 DEF BlockInv
<1> QED
    BY <1>2, <1>7, <1>8, <1>9 DEF BlockInv

LEMMA StepBlock == TypeInv /\ GroupInv /\ BlockInv /\ [Next]_vars => BlockInv'
<1> SUFFICES ASSUME TypeInv, GroupInv, BlockInv, [Next]_vars PROVE BlockInv'
    OBVIOUS
<1>0. /\ group \in GroupType /\ prep \in [Cells -> [Artifacts -> Phases]] /\ sup \in SupType /\ SupInv
      /\ body \in [Artifacts -> {"absent", "partial", "full"}]
    BY DEF TypeInv, CampaignTypeOK, CacheTypeOK, GroupType, SupType
<1>1. CASE UNCHANGED cacheVars /\ sup'.exit # "lost" /\ sup.exit # "lost"
    BY <1>1 DEF BlockInv, Taken, Usable, cacheVars
<1>2. CASE UNCHANGED <<cacheVars, sup>>
    BY <1>2 DEF BlockInv, Taken, Usable, cacheVars
<1>3. CASE Launch
    BY <1>3 DEF Launch, Taken, BlockInv
<1>4. CASE NodeLost
    BY <1>0, <1>4 DEF NodeLost, BlockInv, SupType
<1>5. CASE StartCell
    <2>1. prep' = prep /\ sup'.exit = sup.exit /\ sup.exit = "none"
        BY <1>0, <1>5 DEF StartCell, InLoop, SupInv, SupType
    <2>2. CASE UNCHANGED <<body, mark, temps>>
        BY <2>1, <2>2 DEF BlockInv, Taken, Usable
    <2>3. CASE EvictArtifacts
        BY <2>1, <2>3 DEF BlockInv, Taken, EvictArtifacts
    <2> QED
        BY <1>5, <2>2, <2>3 DEF StartCell, Evicts
<1>6. CASE PublishesHandle \/ Signal
    <2>1. sup'.exit = sup.exit /\ sup.exit = "none"
        BY <1>0, <1>6 DEF PublishesHandle, Signal, SupInv, SupType
    <2>2. CASE SpareGroup
        BY <1>1, <2>1, <2>2 DEF SpareGroup
    <2>3. CASE KillGroup(Current)
        <3>1. /\ UNCHANGED <<body, mark, temps>>
              /\ \A c \in Cells, a \in Artifacts :
                    \/ prep'[c][a] = prep[c][a]
                    \/ prep[c][a] \in Active /\ prep'[c][a] = "killed"
            BY <1>0, <2>3 DEF KillGroup
        <3>2. \A c \in Cells, a \in Artifacts : prep[c][a] \in Behind(a) => prep'[c][a] \in Behind(a)
            BY <3>1 DEF Behind
        <3>3. \A c \in Cells, a \in Artifacts :
                 /\ prep'[c][a] = "marking" => prep[c][a] = "marking"
                 /\ prep[c][a] \in Holding => prep'[c][a] \in Holding
            BY <3>1 DEF Holding
        <3> QED
            BY <2>1, <3>1, <3>2, <3>3 DEF BlockInv, Taken, Usable
    <2> QED
        BY <1>6, <2>2, <2>3 DEF PublishesHandle, Signal
<1>7. ASSUME NEW d \in Cells, GroupStep(d) PROVE BlockInv'
    <2>1. CASE ScriptStep(d)
        <3>1. sup.exit # "lost"
            BY <1>0, <2>1 DEF ScriptStep, GroupInv, LeaderAlive, Running, SupInv
        <3>2. /\ UNCHANGED <<body, mark, temps, sup>>
              /\ \A c \in Cells, a \in Artifacts :
                    \/ prep'[c][a] = prep[c][a]
                    \/ prep[c][a] = "idle" /\ prep'[c][a] = "looking"
            BY <1>0, <2>1 DEF ScriptStep, At, Moves
        <3>3. \A c \in Cells, a \in Artifacts : prep[c][a] \in Behind(a) => prep'[c][a] \in Behind(a)
            BY <3>2 DEF Behind
        <3> QED
            BY <3>1, <3>2, <3>3 DEF BlockInv, Holding, Taken, Usable
    <2>2. CASE PrepareArtifact(d) \/ PreparerKilled(d)
        <3>1. PICK a \in Artifacts : Prepare(d, a) \/ Kill(d, a)
            BY <2>2 DEF PrepareArtifact, PreparerKilled
        <3> QED
            BY <2>2, <3>1, PrepareBlock DEF PrepareArtifact, PreparerKilled, campaignVars
    <2> QED
        BY <1>2, <1>7, <2>1, <2>2 DEF GroupStep, Joins, TrainingEnds, TailDrains
<1>8. CASE HeedSignal \/ SkipExact \/ Defer \/ LeaderReturns \/ Drained \/ DrainTimesOut \/ ClaimUnread
           \/ LoopEnds \/ Seal \/ Complete \/ StoreFails
    BY <1>0, <1>1, <1>8
    DEF HeedSignal, SkipExact, Defer, LeaderReturns, Drained, DrainTimesOut, ClaimUnread, LoopEnds, Seal,
        Complete, StoreFails, InLoop, Failed, Recorded, Raise, SupInv, SupType
<1> QED
    BY <1>2, <1>3, <1>4, <1>5, <1>6, <1>7, <1>8 DEF Next, SupervisorStep, vars, campaignVars

\* A cell is turned away by an artifact only if another cell's process has begun
\* on it and not ended, was killed at it, or failed with its work in place: a
\* transfer that failed and cleaned up blocks nobody (prepare_directory,
\* prepare_blob).
THEOREM BlockTheorem == Spec => OnlyMishapsBlock
<1> DEFINE Midway == {"staging", "installing", "marking", "killed", "spoiled"}
<1>1. TypeInv /\ BlockInv /\ [Next]_vars =>
         [\A c \in Cells, a \in Artifacts :
            prep'[c][a] = "blocked" /\ prep[c][a] # "blocked" =>
              \E d \in Cells \ {c} : prep[d][a] \in Midway]_vars
    <2> SUFFICES ASSUME TypeInv, BlockInv, Next, NEW c \in Cells, NEW a \in Artifacts,
                        prep'[c][a] = "blocked", prep[c][a] # "blocked"
                 PROVE  \E d \in Cells \ {c} : prep[d][a] \in Midway
        BY DEF vars
    <2>0. /\ prep \in [Cells -> [Artifacts -> Phases]] /\ body \in [Artifacts -> {"absent", "partial", "full"}]
          /\ CacheTypeOK /\ KindOf[a] \in {"tree", "blob", "env"} /\ mark \subseteq Artifacts
        BY ArtifactsAssumption DEF TypeInv, CampaignTypeOK, CacheTypeOK, ArtifactsAssumption
    <2>1. FindPartial(c, a)
        <3>1. PICK e \in Cells : GroupStep(e)
            BY <2>0 DEF Next, Launch, SupervisorStep, HeedSignal, SkipExact, Defer, StartCell,
                        PublishesHandle, LeaderReturns, Drained, DrainTimesOut, LoopEnds, Seal, Complete,
                        Signal, ClaimUnread, StoreFails, NodeLost, KillGroup, SpareGroup, cacheVars, Active
        <3>2. PICK b \in Artifacts : Prepare(e, b)
            BY <2>0, <3>1 DEF GroupStep, ScriptStep, Joins, TrainingEnds, TailDrains, PrepareArtifact,
                              PreparerKilled, Kill, Moves, cacheVars
        <3>3. e = c /\ b = a
            BY <2>0, <3>2, PrepareEffects
        <3> QED
            BY <2>0, <3>2, <3>3 DEF Prepare, Reuse, Begin, Staged, StagingFails, Install, Mark, Moves
    <2>2. prep[c][a] = "looking" /\ sup.exit # "lost"
        BY <2>1 DEF FindPartial, At, BlockInv
    <2>3. CASE Taken(a)
        <3>1. PICK d \in Cells : prep[d][a] \in Behind(a)
            BY <2>1, <2>2, <2>3 DEF FindPartial, BlockInv
        <3> QED
            BY <2>2, <3>1 DEF Behind
    <2>4. CASE ~Taken(a)
        <3>1. PICK d \in Cells : <<d, a>> \in temps
            BY <2>0, <2>1, <2>4 DEF FindPartial, Free, Taken
        <3> QED
            BY <2>2, <3>1 DEF BlockInv, Holding
    <2> QED
        BY <2>3, <2>4
<1> QED
    BY InitTypes, StepTypes, InitGroups, StepGroups, InitBlock, StepBlock, <1>1, PTL
    DEF Spec, OnlyMishapsBlock

-----------------------------------------------------------------------------
(* How long an attempt can be                                              *)

\* Whoever waits for a signalled cell waits for one that is killed: a signal that
\* came before the handle is replayed, a later one is forwarded.
SignalReaches == sup.signal /\ sup.pc = "waiting" => ~LeaderAlive(Current)

\* How far the supervisor is from the end of its attempt, at a cell ...
CellLeft(pc) ==
    CASE pc = "loop" -> 6 [] pc = "spawned" -> 5 [] pc = "waiting" -> 4 [] pc = "draining" -> 3
      [] pc = "sealing" -> 2 [] pc = "completing" -> 1

\* ... and once it has its signal, when no further cell is started.
StopLeft(pc) ==
    CASE pc = "spawned" -> 6 [] pc = "waiting" -> 5 [] pc = "draining" -> 4 [] pc = "loop" -> 3
      [] pc = "sealing" -> 2 [] pc = "completing" -> 1

AttemptNears ==
    IF sup.signal
    THEN sup'.signal /\ StopLeft(sup'.pc) < StopLeft(sup.pc)
    ELSE \/ sup' = [sup EXCEPT !.signal = TRUE]
         \/ sup'.i = sup.i + 1
         \/ sup'.i = sup.i /\ CellLeft(sup'.pc) < CellLeft(sup.pc)

LEMMA StepReaches == TypeInv /\ SignalReaches /\ [Next]_vars => SignalReaches'
<1> SUFFICES ASSUME TypeInv, SignalReaches, [Next]_vars PROVE SignalReaches'
    OBVIOUS
<1>0. group \in GroupType /\ sup \in SupType
    BY DEF TypeInv, CampaignTypeOK, GroupType, SupType
<1>1. CASE UNCHANGED <<group, sup>>
    BY <1>1 DEF SignalReaches, LeaderAlive, Current
<1>2. CASE Launch \/ StartCell \/ NodeLost
    <2>1. CASE Launch \/ NodeLost
        <3>1. CASE Launch
            BY <3>1 DEF Launch, SignalReaches
        <3>2. CASE NodeLost
            <4>1. sup' = [sup EXCEPT !.pc = "idle", !.exit = "lost"]
                BY <3>2 DEF NodeLost
            <4>2. sup'.pc = "idle"
                BY <1>0, <4>1 DEF SupType
            <4> QED
                BY <4>2 DEF SignalReaches
        <3> QED
            BY <2>1, <3>1, <3>2
    <2>2. CASE StartCell
        <3>1. sup' = [sup EXCEPT !.pc = "spawned"]
            BY <2>2 DEF StartCell
        <3>2. sup'.pc # "waiting"
            BY <1>0, <3>1 DEF SupType
        <3> QED
            BY <3>2 DEF SignalReaches
    <2> QED
        BY <1>2, <2>1, <2>2
<1>3. CASE PublishesHandle \/ Signal
    <2>1. sup' = [sup EXCEPT !.pc = "waiting"] \/ sup' = [sup EXCEPT !.signal = TRUE]
        BY <1>3 DEF PublishesHandle, Signal
    <2>2. Current' = Current
        BY <1>0, <2>1 DEF Current, SupType
    <2>3. CASE KillGroup(Current)
        <3>1. Current \in Cells => ~LeaderAlive(Current)'
            BY <1>0, <2>2, <2>3 DEF KillGroup, Exit, GroupType, LeaderAlive, Running
        <3>2. sup'.pc = "waiting" => Current \in Cells
            BY <1>0, <1>3, OrderFacts DEF PublishesHandle, Signal, TypeInv, SupInv, AtCell, Current, SupType
        <3> QED
            BY <2>2, <3>1, <3>2 DEF SignalReaches
    <2>4. CASE ~KillGroup(Current)
        <3>1. LeaderAlive(Current)' = LeaderAlive(Current)
            BY <1>3, <2>2, <2>4 DEF PublishesHandle, Signal, SpareGroup, LeaderAlive
        <3>2. CASE PublishesHandle
            <4>1. ~(sup.signal /\ LeaderAlive(Current)) /\ sup'.signal = sup.signal
                BY <1>0, <2>4, <3>2 DEF PublishesHandle, SupType
            <4> QED
                BY <3>1, <4>1 DEF SignalReaches
        <3>3. CASE Signal
            <4>1. ~(sup.pc = "waiting" /\ LeaderAlive(Current)) /\ sup'.pc = sup.pc
                BY <1>0, <2>4, <3>3 DEF Signal, SupType
            <4> QED
                BY <3>1, <4>1 DEF SignalReaches
        <3> QED
            BY <1>3, <3>2, <3>3
    <2> QED
        BY <2>3, <2>4
<1>4. ASSUME NEW d \in Cells, GroupStep(d) PROVE SignalReaches'
    <2>1. /\ sup' = sup
          /\ \A c \in Cells : LeaderAlive(c)' => LeaderAlive(c)
        BY <1>0, <1>4
        DEF GroupStep, ScriptStep, Joins, TrainingEnds, TailDrains, PrepareArtifact, PreparerKilled,
            campaignVars, Exit, LeaderAlive, Running, GroupType
    <2>2. sup.pc = "waiting" => Current \in Cells
        BY OrderFacts DEF TypeInv, SupInv, AtCell, Current
    <2> QED
        BY <2>1, <2>2 DEF SignalReaches, Current
<1>5. CASE HeedSignal \/ SkipExact \/ Defer \/ LeaderReturns \/ Drained \/ DrainTimesOut \/ ClaimUnread
           \/ LoopEnds \/ Seal \/ Complete \/ StoreFails
    <2>1. sup'.pc # "waiting"
        BY <1>0, <1>5
        DEF HeedSignal, SkipExact, Defer, LeaderReturns, Drained, DrainTimesOut, ClaimUnread, LoopEnds, Seal,
            Complete, StoreFails, InLoop, Failed, Recorded, Raise, SupType
    <2> QED
        BY <2>1 DEF SignalReaches
<1> QED
    BY <1>1, <1>2, <1>3, <1>4, <1>5 DEF Next, SupervisorStep, vars, campaignVars

LEMMA SupervisorNears ==
  ASSUME TypeInv, Next, sup' # sup, sup.pc # "idle", sup'.pc # "idle"
  PROVE  AttemptNears
<1>0. sup \in SupType /\ sup.i \in Nat /\ Len(Order) \in Nat
    BY CampaignAssumption DEF TypeInv, CampaignTypeOK, SupType, CampaignAssumption
<1>1. ASSUME NEW d \in Cells, GroupStep(d) PROVE FALSE
    BY <1>1 DEF GroupStep, ScriptStep, Joins, TrainingEnds, TailDrains, PrepareArtifact, PreparerKilled,
                campaignVars
<1> DEFINE Goes(from, to) == /\ sup.pc = from /\ sup'.pc = to
                             /\ sup'.i = sup.i /\ sup'.signal = sup.signal
<1>2. ASSUME \/ Goes("loop", "sealing") \/ Goes("spawned", "waiting") \/ Goes("waiting", "draining")
             \/ Goes("draining", "sealing") \/ Goes("sealing", "completing")
             \/ Goes("loop", "spawned") /\ ~sup.signal
      PROVE  AttemptNears
    <2>1. StopLeft(sup'.pc) < StopLeft(sup.pc) \/ ~sup.signal
        BY <1>2 DEF StopLeft
    <2>2. CellLeft(sup'.pc) < CellLeft(sup.pc)
        BY <1>2 DEF CellLeft
    <2> QED
        BY <1>0, <1>2, <2>1, <2>2 DEF AttemptNears, SupType
<1>3. ASSUME sup'.signal = sup.signal, sup'.i = sup.i + 1,
             (sup.pc = "draining" /\ sup'.pc = "loop") \/ ~sup.signal
      PROVE  AttemptNears
    BY <1>0, <1>3 DEF AttemptNears, StopLeft, SupType
<1>4. CASE HeedSignal \/ LoopEnds \/ Defer \/ StartCell \/ PublishesHandle \/ LeaderReturns
    <2>1. CASE HeedSignal
        <3>1. Goes("loop", "sealing")
            BY <1>0, <2>1 DEF HeedSignal, InLoop, SupType
        <3> QED
            BY <1>2, <3>1
    <2>2. CASE LoopEnds
        <3>1. Goes("loop", "sealing")
            BY <1>0, <2>2 DEF LoopEnds, SupType
        <3> QED
            BY <1>2, <3>1
    <2>3. CASE Defer
        <3>1. Goes("loop", "sealing")
            BY <1>0, <2>3 DEF Defer, InLoop, Recorded, SupType
        <3> QED
            BY <1>2, <3>1
    <2>4. CASE StartCell
        <3>1. Goes("loop", "spawned") /\ ~sup.signal
            BY <1>0, <2>4 DEF StartCell, InLoop, SupType
        <3> QED
            BY <1>2, <3>1
    <2>5. CASE PublishesHandle
        <3>1. Goes("spawned", "waiting")
            BY <1>0, <2>5 DEF PublishesHandle, SupType
        <3> QED
            BY <1>2, <3>1
    <2>6. CASE LeaderReturns
        <3>1. Goes("waiting", "draining")
            BY <1>0, <2>6 DEF LeaderReturns, SupType
        <3> QED
            BY <1>2, <3>1
    <2> QED
        BY <1>4, <2>1, <2>2, <2>3, <2>4, <2>5, <2>6
<1>5. CASE SkipExact
    <2>1. sup'.i = sup.i + 1 /\ sup'.signal = sup.signal /\ ~sup.signal
        BY <1>0, <1>5 DEF SkipExact, InLoop, Recorded, SupType
    <2> QED
        BY <1>3, <2>1
<1>6. CASE Signal
    BY <1>0, <1>6 DEF Signal, AttemptNears
<1>7. CASE Seal
    <2>1. Goes("sealing", "completing")
        <3>1. sup' = [sup EXCEPT !.pc = "completing"]
            <4>1. \A status \in {"zero", "nonzero"} :
                     [sup EXCEPT !.pc = "idle", !.exit = status].pc = "idle"
                BY <1>0 DEF SupType
            <4> QED
                BY <1>7, <4>1 DEF Seal
        <3> QED
            BY <1>0, <1>7, <3>1 DEF Seal, SupType
    <2> QED
        BY <1>2, <2>1
<1>8. CASE Drained \/ DrainTimesOut \/ ClaimUnread
    <2>1. sup.pc = "draining"
        BY <1>8 DEF Drained, DrainTimesOut, ClaimUnread
    <2>2. CASE sup' = Failed
        <3>1. CASE FailurePolicy = "stop" \/ sup.signal
            <4>1. Goes("draining", "sealing")
                BY <1>0, <2>1, <2>2, <3>1 DEF Failed, Recorded, SupType
            <4> QED
                BY <1>2, <4>1
        <3>2. CASE ~(FailurePolicy = "stop" \/ sup.signal)
            <4>1. sup'.i = sup.i + 1 /\ sup'.signal = sup.signal
                BY <1>0, <2>2, <3>2 DEF Failed, Recorded, SupType
            <4> QED
                BY <1>3, <3>2, <4>1
        <3> QED
            BY <3>1, <3>2
    <2>3. CASE sup' = [Recorded("completed") EXCEPT !.i = @ + 1, !.pc = "loop"]
        BY <1>0, <1>3, <2>1, <2>3 DEF Recorded, SupType
    <2> QED
        BY <1>8, <2>2, <2>3 DEF Drained, DrainTimesOut, ClaimUnread
<1>9. CASE Launch \/ Complete \/ StoreFails \/ NodeLost
    BY <1>0, <1>9 DEF Launch, Complete, StoreFails, NodeLost, Raise, SupType
<1> QED
    BY <1>1, <1>4, <1>5, <1>6, <1>7, <1>8, <1>9 DEF Next, SupervisorStep

\* No attempt goes on for ever, for any manifest and policy: a step of the
\* supervisor goes on to the next cell or nearer to the end of this one, and after
\* a signal straight to the end.  There it is held up by no cell that hangs: the
\* leader it waits for is dead, and the wait for the rest of the group is timed
\* (the handler and its replay, DrainTimesOut).
THEOREM ShortAttemptTheorem ==
  Spec => /\ [](sup.pc # "idle" => sup.i \in 1..(Len(Order) + 1) /\ CellLeft(sup.pc) \in 1..6
                                   /\ StopLeft(sup.pc) \in 1..6)
          /\ []SignalReaches
          /\ [][sup.pc # "idle" /\ sup'.pc # "idle" /\ sup' # sup => AttemptNears]_vars
<1>1. TypeInv => (sup.pc # "idle" => sup.i \in 1..(Len(Order) + 1) /\ CellLeft(sup.pc) \in 1..6
                                     /\ StopLeft(sup.pc) \in 1..6)
    BY DEF TypeInv, CampaignTypeOK, CellLeft, StopLeft
<1>2. Init => SignalReaches
    BY DEF Init, CampaignInit, SignalReaches
<1>3. TypeInv /\ [Next]_vars => [sup.pc # "idle" /\ sup'.pc # "idle" /\ sup' # sup => AttemptNears]_vars
    BY SupervisorNears
<1> QED
    BY <1>1, <1>2, <1>3, InitTypes, StepTypes, StepReaches, PTL DEF Spec
=============================================================================
