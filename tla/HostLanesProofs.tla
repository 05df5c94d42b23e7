----------------------------- MODULE HostLanesProofs -----------------------------
(***************************************************************************)
(* Proofs about HostLanes for every number of campaigns and evaluations,   *)
(* any locks that overlap pairwise, and any number of signals and kills.   *)
(***************************************************************************)
EXTENDS HostLanesProps, TLAPS

-----------------------------------------------------------------------------
(* The inductive invariants                                                *)

\* A lock has one holder, is taken in order, and lasts while lanes may run.
LockInv ==
    /\ \A c, d \in Campaigns : \A k \in Nat : <<c, k>> \in locks /\ <<d, k>> \in locks => c = d
    /\ \A c \in Campaigns : \A k \in Nat : <<c, k>> \in locks => k \in Keys[c]
    /\ \A c \in Campaigns : \A k \in Nat, j \in Keys[c] :
          <<c, k>> \in locks /\ j < k => <<c, j>> \in locks
    /\ \A c \in Campaigns : main[c] \in {"probing", "running", "shutting"} =>
          \A k \in Keys[c] : <<c, k>> \in locks
    /\ \A c \in Campaigns : main[c] \in {"down", "leaving"} => \A k \in Nat : <<c, k>> \notin locks

\* A campaign that was refused has only locks before the one it was refused, and
\* who held that one has it still or is on its way out.
RefusalInv ==
    \A c, d \in Campaigns : <<c, d>> \in refusals =>
        /\ main[c] \in {"refused", "down"} /\ <<d, c>> \notin refusals
        /\ main[c] = "refused" => \E k \in Nat :
              /\ \A i \in Nat : <<c, i>> \in locks => i < k
              /\ <<d, k>> \in locks \/ main[d] \in {"down", "leaving"}

\* Whose evaluation is whose.
Owning == {"running", "snapped", "termed"}
LaneInv ==
    /\ \A c \in Campaigns : lane[c].pc # "none" => main[c] \in {"running", "shutting", "leaving"}
    /\ \A c \in Campaigns : lane[c].eval # NoEval <=> lane[c].pc \in Owning
    /\ \A c, d \in Campaigns : lane[c].eval = lane[d].eval /\ lane[c].eval # NoEval => c = d
    /\ \A c \in Campaigns : main[c] = "leaving" /\ lane[c].eval # NoEval => lane[c].eval \in abandoned
    /\ \A e \in Evals : tree[e].fleet = "none" =>
          /\ tree[e].server = "none" /\ ~tree[e].shards
          /\ \A c \in Campaigns : lane[c].eval # e

\* What is known of the processes of an evaluation that nobody took from its
\* campaign, at every stage of its being stopped.
Stage(c, t) ==
    /\ lane[c].pc = "running" =>
          /\ t.fleet \in {"waiting", "running", "cleaning"} => t.known
          /\ t.fleet = "gone" => t.server \notin {"loading", "resident"}
    /\ lane[c].pc \in {"snapped", "termed"} /\ t.server \in {"loading", "resident"} =>
          lane[c].snapshot
    /\ lane[c].pc = "termed" => t.fleet \in {"cleaning", "gone"}

EvalInv(e) ==
    /\ tree[e].fleet = "starting" => tree[e].server = "none"
    /\ e \notin abandoned =>
          /\ tree[e].shards => tree[e].fleet = "running"
          /\ FleetLives(e) \/ ServerLives(e) => \E c \in Campaigns : lane[c].eval = e
          /\ \A c \in Campaigns : lane[c].eval = e => Stage(c, tree[e])

TreeInv == \A e \in Evals : EvalInv(e)

\* What has come up behind a probe is known, for as long as a lane goes by it.
ProbeInv ==
    \A c \in Campaigns, d \in Evals :
        lane[c].pc \in {"probed", "running"} /\ tree[d].server = "resident" => <<c, d>> \in unseen

-----------------------------------------------------------------------------
(* Types                                                                   *)

LaneType == [pc : {"none", "top", "probed", "running", "snapped", "termed"},
             eval : Evals \union {NoEval}, snapshot : BOOLEAN]

LEMMA NoLaneType ==
  /\ NoLane \in LaneType
  /\ \A pc \in {"top", "probed"} : [NoLane EXCEPT !.pc = pc] \in LaneType
BY DEF NoLane, LaneType

LEMMA InitTypes == Init => HostTypeOK
BY HostAssumption
DEF HostAssumption, Init, TreeInit, NoTree, NoLane, HostTypeOK, TreeTypeOK, Fleets, Servers

\* Each step of an evaluation's processes keeps their type.
LEMMA TreeStepTypes ==
  ASSUME TreeTypeOK, NEW e \in Evals, TreeStep(e) \/ Spawn(e) \/ FleetKilled(e)
  PROVE  TreeTypeOK'
BY DEF TreeTypeOK, TreeStep, Spawn, FleetKilled, FleetForks, FleetRemembers, ServerComesUp, FleetLaunches,
       FleetGivesUp, LauncherEnds, FleetCleans, Fleets, Servers

LEMMA TreeStopTypes ==
  ASSUME TreeTypeOK, NEW e, NEW b, Terminated(e) \/ Swept(e, b)
  PROVE  TreeTypeOK'
BY DEF TreeTypeOK, Terminated, Swept, FleetLives, ServerLives, Fleets, Servers

\* The main thread's steps.
LEMMA MainTypes ==
  ASSUME HostTypeOK, NEW c \in Campaigns, Start(c) \/ MainStep(c) \/ Term(c) \/ Kill(c)
  PROVE  HostTypeOK'
<1> USE HostAssumption DEF HostAssumption
<1>1. CASE Start(c)
    BY <1>1 DEF Start, HostTypeOK, TreeTypeOK
<1>2. CASE Lock(c)
    <2> PICK k \in NextKey(c) :
            IF HolderOf(k) = {}
            THEN locks' = locks \union {<<c, k>>} /\ UNCHANGED <<main, refusals>>
            ELSE /\ main' = [main EXCEPT ![c] = "refused"]
                 /\ refusals' = refusals \union ({c} \X HolderOf(k))
                 /\ UNCHANGED locks
        BY <1>2 DEF Lock
    <2>1. k \in Keys[c]
        BY DEF NextKey
    <2>2. /\ locks' \subseteq Campaigns \X UNION {Keys[d] : d \in Campaigns}
          /\ refusals' \subseteq Campaigns \X Campaigns
        <3>1. CASE HolderOf(k) = {}
            BY <2>1, <3>1 DEF HostTypeOK
        <3>2. CASE HolderOf(k) # {}
            <4>1. {c} \X HolderOf(k) \subseteq Campaigns \X Campaigns
                BY DEF HolderOf
            <4> QED
                BY <3>2, <4>1 DEF HostTypeOK
        <3> QED
            BY <3>1, <3>2
    <2>3. main' \in [Campaigns -> {"down", "locking", "refused", "probing", "running",
                                   "shutting", "leaving"}]
        BY DEF HostTypeOK
    <2> QED
        BY <1>2, <2>2, <2>3 DEF Lock, HostTypeOK, TreeTypeOK
<1>3. CASE AllLocked(c)
    BY <1>3 DEF AllLocked, HostTypeOK, TreeTypeOK
<1>4. CASE Refused(c)
    BY <1>4 DEF Refused, Release, HostTypeOK, TreeTypeOK
<1>5. CASE Admit(c)
    <2>1. CASE HostIdle
        <3>1. lane' \in [Campaigns -> LaneType]
            BY <1>5, <2>1, NoLaneType DEF Admit, HostTypeOK, LaneType
        <3> QED
            BY <1>5, <2>1, <3>1 DEF Admit, HostTypeOK, TreeTypeOK, LaneType
    <2>2. CASE ~HostIdle
        BY <1>5, <2>2 DEF Admit, HostTypeOK, TreeTypeOK
    <2> QED
        BY <2>1, <2>2
<1>6. CASE Close(c)
    BY <1>6 DEF Close, Release, HostTypeOK, TreeTypeOK
<1>7. CASE Leave(c)
    BY <1>7 DEF Leave, HostTypeOK, TreeTypeOK
<1>8. CASE Term(c)
    <2>1. /\ spent' \in [starts : 0..MaxStarts, terms : 0..MaxTerms, kills : 0..MaxKills]
          /\ main' \in [Campaigns -> {"down", "locking", "refused", "probing", "running",
                                      "shutting", "leaving"}]
        BY <1>8 DEF Term, HostTypeOK
    <2>2. /\ locks' \subseteq Campaigns \X UNION {Keys[d] : d \in Campaigns}
          /\ abandoned' \subseteq Evals
        BY <1>8 DEF Term, HostTypeOK, Release, Owned
    <2> QED
        BY <1>8, <2>1, <2>2 DEF Term, HostTypeOK, TreeTypeOK
<1>9. CASE Kill(c)
    BY <1>9 DEF Kill, LaneEnds, Forgets, NoLane, Release, Owned, HostTypeOK, TreeTypeOK
<1> QED
    BY <1>1, <1>2, <1>3, <1>4, <1>5, <1>6, <1>7, <1>8, <1>9 DEF MainStep

LEMMA LaneTypes ==
  ASSUME HostTypeOK, NEW c \in Campaigns, LaneStep(c)
  PROVE  HostTypeOK'
<1> USE DEF HostTypeOK
<1>1. CASE LaneProbes(c)
    <2>1. CASE HostIdle
        <3>1. lane' \in [Campaigns -> LaneType]
            BY <1>1, <2>1 DEF LaneProbes, LaneType
        <3> QED
            BY <1>1, <2>1, <3>1 DEF LaneProbes, TreeTypeOK, LaneType
    <2>2. CASE ~HostIdle
        <3>1. lane' \in [Campaigns -> LaneType]
            BY <1>1, <2>2, NoLaneType DEF LaneProbes, LaneEnds, LaneType
        <3> QED
            BY <1>1, <2>2, <3>1 DEF LaneProbes, TreeTypeOK, LaneType
    <2> QED
        BY <2>1, <2>2
<1>2. CASE LaneSpawns(c)
    <2> PICK e \in Evals : Spawn(e) /\ lane' = [lane EXCEPT ![c].pc = "running", ![c].eval = e]
        BY <1>2 DEF LaneSpawns
    <2>1. TreeTypeOK'
        BY TreeStepTypes
    <2>2. lane' \in [Campaigns -> [pc : {"none", "top", "probed", "running", "snapped", "termed"},
                                   eval : Evals \union {NoEval}, snapshot : BOOLEAN]]
        OBVIOUS
    <2> QED
        BY <1>2, <2>1, <2>2 DEF LaneSpawns
<1>3. CASE LaneStops(c)
    BY <1>3 DEF LaneStops, LaneEnds, Forgets, NoLane, TreeTypeOK
<1>4. CASE LaneReturns(c) \/ LaneRetries(c)
    <2>1. lane' \in [Campaigns -> LaneType] /\ unseen' \subseteq Campaigns \X Evals
        BY <1>4, NoLaneType DEF LaneReturns, LaneRetries, Forgets, LaneType
    <2> QED
        BY <1>4, <2>1 DEF LaneReturns, LaneRetries, TreeTypeOK, LaneType
<1>5. CASE LaneSnapshots(c)
    BY <1>5 DEF LaneSnapshots, Forgets, InSight, FleetLives, ServerLives, TreeTypeOK
<1>6. CASE LaneTerminates(c)
    <2>1. TreeTypeOK'
        BY <1>6, TreeStopTypes DEF LaneTerminates
    <2> QED
        BY <1>6, <2>1 DEF LaneTerminates
<1>7. CASE LaneSweeps(c)
    <2>1. TreeTypeOK'
        BY <1>7, TreeStopTypes DEF LaneSweeps
    <2> QED
        BY <1>7, <2>1 DEF LaneSweeps, LaneEnds, Forgets, NoLane
<1> QED
    BY <1>1, <1>2, <1>3, <1>4, <1>5, <1>6, <1>7 DEF LaneStep

LEMMA TreeTypes ==
  ASSUME HostTypeOK, NEW e \in Evals, TreeRuns(e) \/ KillFleet(e)
  PROVE  HostTypeOK'
<1>1. TreeTypeOK'
    BY TreeStepTypes DEF TreeRuns, KillFleet, HostTypeOK
<1>2. CASE TreeRuns(e)
    BY <1>1, <1>2 DEF TreeRuns, HostTypeOK
<1>3. CASE KillFleet(e)
    BY <1>1, <1>3, HostAssumption DEF KillFleet, HostTypeOK, HostAssumption
<1> QED
    BY <1>2, <1>3

LEMMA StepTypes == HostTypeOK /\ [Next]_vars => HostTypeOK'
<1> SUFFICES ASSUME HostTypeOK, [Next]_vars PROVE HostTypeOK'
    OBVIOUS
<1>1. CASE Next
    BY <1>1, MainTypes, LaneTypes, TreeTypes DEF Next
<1>2. CASE UNCHANGED vars
    BY <1>2 DEF vars, hostVars, HostTypeOK, TreeTypeOK
<1> QED
    BY <1>1, <1>2

\* Every variable stays in its type, for any locks, evaluations and signals.
THEOREM HostTypeTheorem == Spec => []HostTypeOK
<1> QED
    BY InitTypes, StepTypes, PTL DEF Spec

-----------------------------------------------------------------------------
(* Locks and refusals                                                      *)

\* Only the main thread's steps concern the locks.
LEMMA OthersKeepLocks ==
  ASSUME Next, ~ \E c \in Campaigns : Start(c) \/ MainStep(c) \/ Term(c) \/ Kill(c)
  PROVE  UNCHANGED <<main, locks, refusals>>
<1>1. CASE \E c \in Campaigns : LaneStep(c)
    BY <1>1 DEF LaneStep, LaneProbes, LaneSpawns, LaneStops, LaneReturns, LaneRetries, LaneSnapshots,
                LaneTerminates, LaneSweeps
<1>2. CASE \E e \in Evals : TreeRuns(e) \/ KillFleet(e)
    BY <1>2 DEF TreeRuns, KillFleet
<1> QED
    BY <1>1, <1>2 DEF Next

\* A campaign's locks are released all at once, for the campaign is ending.
LEMMA ReleaseKeepsLockInv ==
  ASSUME HostTypeOK, LockInv, NEW c \in Campaigns, locks' = Release(c),
         NEW status, main' = [main EXCEPT ![c] = status], status \in {"down", "leaving"}
  PROVE  /\ LockInv'
         /\ \A d \in Campaigns, k \in Nat : <<d, k>> \in locks' <=> d # c /\ <<d, k>> \in locks
<1>1. \A d \in Campaigns, k \in Nat : <<d, k>> \in locks' <=> d # c /\ <<d, k>> \in locks
    BY DEF Release, LockInv
<1>2. \A k \in Nat : <<c, k>> \notin locks'
    BY <1>1
<1>3. \A d \in Campaigns : d # c => main'[d] = main[d]
    BY DEF HostTypeOK
<1>4. main'[c] \in {"down", "leaving"}
    BY DEF HostTypeOK
<1>5. \A d \in Campaigns : Keys[d] \subseteq Nat
    BY HostAssumption DEF HostAssumption
<1> QED
    BY <1>1, <1>2, <1>3, <1>4, <1>5 DEF LockInv

LEMMA LockKeepsLockInv ==
  ASSUME HostTypeOK, LockInv, NEW c \in Campaigns, Lock(c)
  PROVE  LockInv'
<1> PICK k \in NextKey(c) :
        IF HolderOf(k) = {}
        THEN locks' = locks \union {<<c, k>>} /\ UNCHANGED <<main, refusals>>
        ELSE /\ main' = [main EXCEPT ![c] = "refused"]
             /\ refusals' = refusals \union ({c} \X HolderOf(k))
             /\ UNCHANGED locks
    BY DEF Lock
<1>1. /\ k \in Keys[c] /\ k \in Nat
      /\ \A j \in Keys[c] : j < k => <<c, j>> \in locks
    BY HostAssumption DEF NextKey, Held, HostAssumption
<1>2. CASE HolderOf(k) = {}
    <2>1. \A d \in Campaigns : <<d, k>> \notin locks
        BY <1>2 DEF HolderOf
    <2>2. \A d \in Campaigns, i \in Nat :
            <<d, i>> \in locks' <=> (<<d, i>> \in locks \/ (d = c /\ i = k))
        BY <1>2
    <2>3. main[c] = "locking" /\ main' = main
        BY <1>2 DEF Lock
    <2>4. \A d, b \in Campaigns : \A i \in Nat : <<d, i>> \in locks' /\ <<b, i>> \in locks' => d = b
        BY <2>1, <2>2 DEF LockInv
    <2>5. \A d \in Campaigns : \A i \in Nat : <<d, i>> \in locks' => i \in Keys[d]
        BY <1>1, <2>2 DEF LockInv
    <2>6. \A d \in Campaigns : \A i \in Nat, j \in Keys[d] :
            <<d, i>> \in locks' /\ j < i => <<d, j>> \in locks'
        BY <1>1, <2>2, HostAssumption DEF LockInv, HostAssumption
    <2>7. \A d \in Campaigns : main[d] \in {"down", "leaving", "probing", "running", "shutting"} =>
            d # c
        BY <2>3
    <2> QED
        BY <1>1, <2>2, <2>3, <2>4, <2>5, <2>6, <2>7, HostAssumption DEF LockInv, HostAssumption
<1>3. CASE HolderOf(k) # {}
    <2>1. main'[c] = "refused" /\ \A d \in Campaigns : d # c => main'[d] = main[d]
        BY <1>3 DEF HostTypeOK
    <2> QED
        BY <1>3, <2>1 DEF LockInv
<1> QED
    BY <1>2, <1>3

LEMMA StepLocks == HostTypeOK /\ LockInv /\ [Next]_vars => LockInv'
<1> SUFFICES ASSUME HostTypeOK, LockInv, [Next]_vars PROVE LockInv'
    OBVIOUS
<1>1. CASE UNCHANGED <<main, locks>>
    BY <1>1 DEF LockInv
<1>2. ASSUME NEW c \in Campaigns, Start(c) \/ MainStep(c) \/ Term(c) \/ Kill(c)
      PROVE  LockInv'
    <2>1. CASE Start(c)
        BY <2>1 DEF Start, LockInv, HostTypeOK
    <2>2. CASE Lock(c)
        BY <2>2, LockKeepsLockInv
    <2>3. CASE AllLocked(c)
        BY <2>3 DEF AllLocked, Held, LockInv, HostTypeOK
    <2>4. CASE Refused(c) \/ Close(c) \/ Kill(c)
        BY <2>4, ReleaseKeepsLockInv DEF Refused, Close, Kill
    <2>5. CASE Admit(c)
        <3>1. /\ main[c] = "probing" /\ main'[c] \in {"running", "refused"} /\ locks' = locks
              /\ \A d \in Campaigns : d # c => main'[d] = main[d]
            BY <2>5 DEF Admit, HostTypeOK
        <3> QED
            BY <3>1 DEF LockInv
    <2>6. CASE Leave(c)
        BY <2>6 DEF Leave, LockInv, HostTypeOK
    <2>7. CASE Term(c)
        <3>1. CASE main[c] = "running"
            BY <2>7, <3>1 DEF Term, LockInv, HostTypeOK
        <3>2. CASE main[c] # "running"
            BY <2>7, <3>2, ReleaseKeepsLockInv DEF Term
        <3> QED
            BY <3>1, <3>2
    <2> QED
        BY <1>2, <2>1, <2>2, <2>3, <2>4, <2>5, <2>6, <2>7 DEF MainStep
<1> QED
    BY <1>1, <1>2, OthersKeepLocks DEF vars, hostVars

LEMMA LockKeepsRefusalInv ==
  ASSUME HostTypeOK, LockInv, RefusalInv, NEW c \in Campaigns, Lock(c)
  PROVE  RefusalInv'
<1> PICK k \in NextKey(c) :
        IF HolderOf(k) = {}
        THEN locks' = locks \union {<<c, k>>} /\ UNCHANGED <<main, refusals>>
        ELSE /\ main' = [main EXCEPT ![c] = "refused"]
             /\ refusals' = refusals \union ({c} \X HolderOf(k))
             /\ UNCHANGED locks
    BY DEF Lock
<1>1. /\ k \in Keys[c] /\ k \in Nat /\ <<c, k>> \notin locks
      /\ \A j \in Keys[c] : j < k => <<c, j>> \in locks
    BY HostAssumption DEF NextKey, Held, HostAssumption
<1>2. main[c] = "locking" /\ \A d \in Campaigns : <<c, d>> \notin refusals
    BY DEF Lock, RefusalInv
<1>3. CASE HolderOf(k) = {}
    <2>1. \A d \in Campaigns : d # c => \A i \in Nat : <<d, i>> \in locks' <=> <<d, i>> \in locks
        BY <1>3
    <2>2. \A i \in Nat : <<c, i>> \in locks => <<c, i>> \in locks'
        BY <1>3
    <2>3. \A a, d \in Campaigns : <<a, d>> \in refusals => a # c
        BY <1>2
    <2> QED
        BY <1>3, <2>1, <2>2, <2>3 DEF RefusalInv
<1>4. CASE HolderOf(k) # {}
    <2>1. /\ main' = [main EXCEPT ![c] = "refused"] /\ locks' = locks
          /\ refusals' = refusals \union ({c} \X HolderOf(k))
        BY <1>4
    \* Everything c holds comes before the lock it was refused.
    <2>2. \A i \in Nat : <<c, i>> \in locks => i < k
        <3> SUFFICES ASSUME NEW i \in Nat, <<c, i>> \in locks, ~(i < k) PROVE FALSE
            OBVIOUS
        <3>1. i # k
            BY <1>1
        <3>2. k < i
            BY <1>1, <3>1
        <3> QED
            BY <1>1, <3>2 DEF LockInv
    \* A holder of that lock was not refused because of c.
    <2>3. ASSUME NEW d \in HolderOf(k) PROVE d \in Campaigns /\ d # c /\ <<d, c>> \notin refusals
        <3>1. d \in Campaigns /\ <<d, k>> \in locks /\ d # c
            BY <1>1 DEF HolderOf
        <3>2. ASSUME <<d, c>> \in refusals PROVE FALSE
            <4>1. main[d] = "refused"
                BY <1>1, <3>1, <3>2 DEF RefusalInv, LockInv
            <4>2. PICK i \in Nat :
                        /\ \A j \in Nat : <<d, j>> \in locks => j < i
                        /\ <<c, i>> \in locks \/ main[c] \in {"down", "leaving"}
                BY <3>1, <3>2, <4>1 DEF RefusalInv
            <4>3. <<c, i>> \in locks /\ k < i
                BY <1>1, <1>2, <3>1, <4>2
            <4> QED
                BY <1>1, <2>2, <4>3
        <3> QED
            BY <3>1, <3>2
    <2>4. ASSUME NEW a \in Campaigns, NEW d \in Campaigns, <<a, d>> \in refusals'
          PROVE  /\ main'[a] \in {"refused", "down"} /\ <<d, a>> \notin refusals'
                 /\ main'[a] = "refused" => \E i \in Nat :
                       /\ \A j \in Nat : <<a, j>> \in locks' => j < i
                       /\ <<d, i>> \in locks' \/ main'[d] \in {"down", "leaving"}
        <3>1. CASE a = c
            <4>1. d \in HolderOf(k)
                BY <1>2, <2>1, <2>4, <3>1
            <4>2. <<d, k>> \in locks /\ d # c /\ <<d, c>> \notin refusals
                BY <2>3, <4>1 DEF HolderOf
            <4>3. main'[c] = "refused"
                BY <2>1 DEF HostTypeOK
            <4>4. <<d, c>> \notin refusals'
                BY <2>1, <4>2
            <4> QED
                BY <1>1, <2>1, <2>2, <3>1, <4>2, <4>3, <4>4
        <3>2. CASE a # c
            <4>1. <<a, d>> \in refusals
                BY <2>1, <2>4, <3>2
            <4>2. main'[a] = main[a] /\ (main[d] \in {"down", "leaving"} => main'[d] = main[d])
                BY <1>2, <2>1, <3>2 DEF HostTypeOK
            <4>3. <<d, a>> \notin refusals'
                BY <2>1, <2>3, <4>1 DEF RefusalInv
            <4> QED
                BY <2>1, <4>1, <4>2, <4>3 DEF RefusalInv
        <3> QED
            BY <3>1, <3>2
    <2> QED
        BY <2>4 DEF RefusalInv
<1> QED
    BY <1>3, <1>4

LEMMA StepRefusals == HostTypeOK /\ LockInv /\ RefusalInv /\ [Next]_vars => RefusalInv'
<1> SUFFICES ASSUME HostTypeOK, LockInv, RefusalInv, [Next]_vars PROVE RefusalInv'
    OBVIOUS
<1>1. CASE UNCHANGED <<main, locks, refusals>>
    BY <1>1 DEF RefusalInv
<1>2. ASSUME NEW c \in Campaigns, Start(c) \/ MainStep(c) \/ Term(c) \/ Kill(c)
      PROVE  RefusalInv'
    <2>1. CASE Start(c)
        BY <2>1 DEF Start, RefusalInv, HostTypeOK
    <2>2. CASE Lock(c)
        BY <2>2, LockKeepsRefusalInv
    <2>3. CASE AllLocked(c) \/ Admit(c)
        BY <2>3 DEF AllLocked, Admit, RefusalInv, HostTypeOK
    <2>4. ASSUME locks' = Release(c), UNCHANGED refusals,
                 NEW status, main' = [main EXCEPT ![c] = status], status \in {"down", "leaving"},
                 main[c] = "down" => status = "down", main[c] = "refused" => status = "down"
          PROVE  RefusalInv'
        <3>1. \A d \in Campaigns, k \in Nat : <<d, k>> \in locks' <=> d # c /\ <<d, k>> \in locks
            BY <2>4, ReleaseKeepsLockInv
        <3>2. main'[c] = status /\ \A d \in Campaigns : d # c => main'[d] = main[d]
            BY <2>4 DEF HostTypeOK
        <3> SUFFICES ASSUME NEW a \in Campaigns, NEW d \in Campaigns, <<a, d>> \in refusals
                     PROVE  /\ main'[a] \in {"refused", "down"} /\ <<d, a>> \notin refusals
                            /\ main'[a] = "refused" => \E k \in Nat :
                                  /\ \A i \in Nat : <<a, i>> \in locks' => i < k
                                  /\ <<d, k>> \in locks' \/ main'[d] \in {"down", "leaving"}
            BY <2>4 DEF RefusalInv
        <3>3. main[a] \in {"refused", "down"} /\ <<d, a>> \notin refusals
            BY DEF RefusalInv
        <3>4. main'[a] \in {"refused", "down"}
            BY <2>4, <3>2, <3>3
        <3>5. ASSUME main'[a] = "refused"
              PROVE  \E k \in Nat :
                        /\ \A i \in Nat : <<a, i>> \in locks' => i < k
                        /\ <<d, k>> \in locks' \/ main'[d] \in {"down", "leaving"}
            <4>1. a # c /\ main[a] = "refused"
                BY <2>4, <3>2, <3>5
            <4>2. PICK k \in Nat :
                        /\ \A i \in Nat : <<a, i>> \in locks => i < k
                        /\ <<d, k>> \in locks \/ main[d] \in {"down", "leaving"}
                BY <4>1 DEF RefusalInv
            <4>3. <<d, k>> \in locks' \/ main'[d] \in {"down", "leaving"}
                BY <2>4, <3>1, <3>2, <4>2
            <4> QED
                BY <3>1, <4>2, <4>3
        <3> QED
            BY <3>3, <3>4, <3>5
    <2>5. CASE Leave(c)
        BY <2>5 DEF Leave, RefusalInv, HostTypeOK
    <2>6. CASE Term(c) /\ main[c] = "running"
        BY <2>6 DEF Term, RefusalInv, HostTypeOK
    <2>7. CASE Refused(c) \/ Close(c) \/ Kill(c) \/ (Term(c) /\ main[c] # "running")
        BY <2>4, <2>7 DEF Refused, Close, Kill, Term
    <2> QED
        BY <1>2, <2>1, <2>2, <2>3, <2>5, <2>6, <2>7 DEF MainStep
<1> QED
    BY <1>1, <1>2, OthersKeepLocks DEF vars, hostVars

-----------------------------------------------------------------------------
(* Lanes and their evaluations                                             *)

\* A step of one evaluation's processes leaves those of the others alone, and
\* an evaluation that was started stays one that was started.
LEMMA TreeStepLocal ==
  ASSUME HostTypeOK, LaneInv, NEW e \in Evals,
         NEW b,
         TreeStep(e) \/ FleetKilled(e) \/ (Terminated(e) /\ tree[e].fleet # "none") \/ Swept(e, b)
  PROVE  /\ \A d \in Evals : d # e => tree'[d] = tree[d]
         /\ tree'[e].fleet # "none"
<1>1. tree[e] \in [fleet : Fleets, server : Servers, known : BOOLEAN, shards : BOOLEAN]
    BY DEF HostTypeOK, TreeTypeOK
<1>2. tree[e].fleet = "none" => tree[e].server = "none"
    BY DEF LaneInv
<1>3. CASE TreeStep(e)
    BY <1>1, <1>2, <1>3 DEF TreeStep, FleetForks, FleetRemembers, ServerComesUp, FleetLaunches,
       FleetGivesUp, LauncherEnds, FleetCleans, HostTypeOK, TreeTypeOK
<1>4. CASE FleetKilled(e) \/ (Terminated(e) /\ tree[e].fleet # "none")
    BY <1>4 DEF FleetKilled, FleetLives, Terminated, HostTypeOK, TreeTypeOK
<1>5. CASE Swept(e, b)
    BY <1>5 DEF Swept, HostTypeOK, TreeTypeOK
<1> QED
    BY <1>3, <1>4, <1>5

\* LaneInv speaks of a started evaluation through its lane alone.
LEMMA TreeStepKeepsLaneInv ==
  ASSUME HostTypeOK, LaneInv, NEW e \in Evals, tree'[e].fleet # "none",
         \A d \in Evals : d # e => tree'[d] = tree[d],
         UNCHANGED <<main, lane>>, abandoned \subseteq abandoned'
  PROVE  LaneInv'
BY DEF LaneInv, Owning

\* A lane that ends its evaluation, or never had one.
LEMMA LaneEndKeepsLaneInv ==
  ASSUME HostTypeOK, LaneInv, NEW c \in Campaigns, UNCHANGED tree, abandoned \subseteq abandoned',
         LaneEnds(c), UNCHANGED main \/ main' = [main EXCEPT ![c] = "down"]
  PROVE  LaneInv'
<1>1. lane'[c] = NoLane /\ \A d \in Campaigns : d # c => lane'[d] = lane[d] /\ main'[d] = main[d]
    BY DEF LaneEnds, HostTypeOK
<1>2. NoLane.pc = "none" /\ NoLane.eval = NoEval
    BY DEF NoLane
<1> QED
    BY <1>1, <1>2, HostAssumption DEF LaneInv, Owning, HostAssumption

LEMMA StepLanes == HostTypeOK /\ LaneInv /\ [Next]_vars => LaneInv'
<1> SUFFICES ASSUME HostTypeOK, LaneInv, [Next]_vars PROVE LaneInv'
    OBVIOUS
<1>1. CASE UNCHANGED vars
    BY <1>1 DEF LaneInv, vars, hostVars, Owning
<1>2. ASSUME NEW c \in Campaigns, Start(c) \/ MainStep(c) \/ Term(c) \/ Kill(c)
      PROVE  LaneInv'
    <2>1. CASE Start(c) \/ Lock(c) \/ AllLocked(c) \/ Refused(c)
        BY <2>1 DEF Start, Lock, AllLocked, Refused, LaneInv, HostTypeOK
    <2>2. CASE Admit(c)
        <3>1. CASE HostIdle
            <4>1. /\ lane'[c].pc = "top" /\ lane'[c].eval = NoEval /\ main'[c] = "running"
                  /\ \A d \in Campaigns : d # c => lane'[d] = lane[d] /\ main'[d] = main[d]
                  /\ UNCHANGED <<tree, abandoned>>
                BY <2>2, <3>1 DEF Admit, NoLane, HostTypeOK
            <4>2. \A e \in Evals : e # NoEval
                BY HostAssumption DEF HostAssumption
            <4> QED
                BY <4>1, <4>2 DEF LaneInv, Owning
        <3>2. CASE ~HostIdle
            <4>1. /\ main'[c] = "refused" /\ main[c] = "probing"
                  /\ \A d \in Campaigns : d # c => main'[d] = main[d]
                  /\ UNCHANGED <<tree, abandoned, lane>>
                BY <2>2, <3>2 DEF Admit, HostTypeOK
            <4> QED
                BY <4>1 DEF LaneInv, Owning
        <3> QED
            BY <3>1, <3>2
    <2>3. CASE Close(c) \/ Leave(c)
        BY <2>3 DEF Close, Leave, LaneInv, HostTypeOK
    <2>4. CASE Term(c)
        <3>1. /\ \A d \in Campaigns : d # c => main'[d] = main[d]
              /\ main'[c] = "leaving" => lane[c].eval \in abandoned' \union {NoEval}
              /\ lane[c].pc # "none" => main'[c] \in {"shutting", "leaving"}
              /\ abandoned \subseteq abandoned' /\ UNCHANGED <<tree, lane>>
            BY <2>4 DEF Term, Owned, LaneInv, HostTypeOK
        <3> QED
            BY <3>1 DEF LaneInv, Owning
    <2>5. CASE Kill(c)
        BY <2>5, LaneEndKeepsLaneInv DEF Kill
    <2> QED
        BY <1>2, <2>1, <2>2, <2>3, <2>4, <2>5 DEF MainStep
<1>3. ASSUME NEW c \in Campaigns, LaneStep(c)
      PROVE  LaneInv'
    <2>0. lane[c].eval \in Evals \/ lane[c].pc \notin Owning
        BY DEF LaneInv, HostTypeOK
    <2>1. CASE LaneProbes(c)
        <3>1. CASE HostIdle
            <4>1. /\ lane[c].pc = "top" /\ lane'[c].pc = "probed" /\ lane'[c].eval = lane[c].eval
                  /\ \A d \in Campaigns : d # c => lane'[d] = lane[d]
                  /\ UNCHANGED <<tree, main, abandoned>>
                BY <2>1, <3>1 DEF LaneProbes, HostTypeOK
            <4> QED
                BY <4>1 DEF LaneInv, Owning
        <3>2. CASE ~HostIdle
            BY <2>1, <3>2, LaneEndKeepsLaneInv DEF LaneProbes
        <3> QED
            BY <3>1, <3>2
    <2>2. CASE LaneSpawns(c)
        <3> PICK e \in Evals :
                /\ tree[e].fleet = "none" /\ Spawn(e)
                /\ lane' = [lane EXCEPT ![c].pc = "running", ![c].eval = e]
            BY <2>2 DEF LaneSpawns
        <3>1. /\ lane'[c].pc = "running" /\ lane'[c].eval = e /\ e # NoEval
              /\ \A d \in Campaigns : d # c => lane'[d] = lane[d]
            BY HostAssumption DEF HostTypeOK, HostAssumption
        <3>2. \A d \in Campaigns : lane[d].eval # e
            BY DEF LaneInv
        <3>3. tree'[e].fleet = "starting" /\ \A d \in Evals : d # e => tree'[d] = tree[d]
            BY DEF Spawn, HostTypeOK, TreeTypeOK
        <3>4. main[c] = "running" /\ UNCHANGED <<main, abandoned>>
            BY <2>2 DEF LaneSpawns, LaneInv, Cancelled
        <3>5. \A d \in Campaigns : main[d] = "leaving" /\ lane'[d].eval # NoEval =>
                  lane'[d].eval \in abandoned
            BY <3>1, <3>4 DEF LaneInv, HostTypeOK
        <3>6. \A a, d \in Campaigns : lane'[a].eval = lane'[d].eval /\ lane'[a].eval # NoEval => a = d
            <4>1. ASSUME NEW a \in Campaigns, NEW d \in Campaigns, lane'[a].eval = lane'[d].eval,
                         lane'[a].eval # NoEval
                  PROVE  a = d
                <5>1. CASE a # c /\ d # c
                    BY <3>1, <4>1, <5>1 DEF LaneInv
                <5>2. CASE a = c \/ d = c
                    BY <3>1, <3>2, <4>1, <5>2
                <5> QED
                    BY <5>1, <5>2
            <4> QED
                BY <4>1
        <3>7. ASSUME NEW d \in Evals, tree'[d].fleet = "none", NEW a \in Campaigns
              PROVE  lane'[a].eval # d
            <4>1. d # e /\ tree[d].fleet = "none"
                BY <3>3, <3>7
            <4>2. lane[a].eval # d
                BY <4>1 DEF LaneInv
            <4> QED
                BY <3>1, <4>1, <4>2
        <3>8. \A d \in Evals : tree'[d].fleet = "none" => tree'[d].server = "none" /\ ~tree'[d].shards
            BY <3>3 DEF LaneInv
        <3>9. /\ \A d \in Campaigns : lane'[d].pc # "none" => main[d] \in {"running", "shutting", "leaving"}
              /\ \A d \in Campaigns : lane'[d].eval # NoEval <=> lane'[d].pc \in Owning
            BY <3>1, <3>4 DEF LaneInv, Owning
        <3> QED
            BY <3>4, <3>5, <3>6, <3>7, <3>8, <3>9 DEF LaneInv
    <2>3. CASE LaneStops(c)
        BY <2>3, LaneEndKeepsLaneInv DEF LaneStops
    <2>4. CASE LaneReturns(c) \/ LaneRetries(c)
        <3>1. /\ lane'[c].pc \in {"top", "probed"} /\ lane'[c].eval = NoEval /\ lane[c].pc = "running"
              /\ \A d \in Campaigns : d # c => lane'[d] = lane[d]
              /\ UNCHANGED <<tree, main, abandoned>>
            BY <2>4 DEF LaneReturns, LaneRetries, NoLane, HostTypeOK
        <3>2. \A e \in Evals : e # NoEval
            BY HostAssumption DEF HostAssumption
        <3> QED
            BY <3>1, <3>2 DEF LaneInv, Owning
    <2>5. CASE LaneSnapshots(c)
        <3>1. /\ lane'[c].pc = "snapped" /\ lane'[c].eval = lane[c].eval
              /\ \A d \in Campaigns : d # c => lane'[d] = lane[d]
              /\ lane[c].pc = "running" /\ UNCHANGED <<tree, main, abandoned>>
            BY <2>5 DEF LaneSnapshots, HostTypeOK
        <3> QED
            BY <3>1 DEF LaneInv, Owning
    <2>6. CASE LaneTerminates(c)
        <3> DEFINE e == lane[c].eval
        <3>1. e \in Evals /\ tree[e].fleet # "none" /\ Terminated(e)
            BY <2>0, <2>6 DEF LaneTerminates, LaneInv, Owning
        <3>2. tree'[e].fleet # "none" /\ \A d \in Evals : d # e => tree'[d] = tree[d]
            BY <3>1, TreeStepLocal
        <3>3. /\ lane'[c].pc = "termed" /\ lane'[c].eval = lane[c].eval
              /\ \A d \in Campaigns : d # c => lane'[d] = lane[d]
              /\ lane[c].pc = "snapped" /\ UNCHANGED <<main, abandoned>>
            BY <2>6 DEF LaneTerminates, HostTypeOK
        <3> QED
            BY <3>1, <3>2, <3>3 DEF LaneInv, Owning
    <2>7. CASE LaneSweeps(c)
        <3> DEFINE e == lane[c].eval
        <3>1. e \in Evals /\ Swept(e, lane[c].snapshot \/ InSight(c))
            BY <2>0, <2>7 DEF LaneSweeps, Owning
        <3>2. tree'[e].fleet # "none" /\ \A d \in Evals : d # e => tree'[d] = tree[d]
            BY <3>1, TreeStepLocal
        <3>3. /\ lane'[c] = NoLane
              /\ \A d \in Campaigns : d # c => lane'[d] = lane[d]
              /\ UNCHANGED <<main, abandoned>>
            BY <2>7 DEF LaneSweeps, LaneEnds, HostTypeOK
        <3>4. NoLane.pc = "none" /\ NoLane.eval = NoEval /\ NoEval \notin Evals
            BY HostAssumption DEF NoLane, HostAssumption
        <3> QED
            BY <3>1, <3>2, <3>3, <3>4 DEF LaneInv, Owning
    <2> QED
        BY <1>3, <2>1, <2>2, <2>3, <2>4, <2>5, <2>6, <2>7 DEF LaneStep
<1>4. ASSUME NEW e \in Evals, TreeRuns(e) \/ KillFleet(e)
      PROVE  LaneInv'
    <2>1. /\ TreeStep(e) \/ FleetKilled(e)
          /\ UNCHANGED <<main, lane>> /\ abandoned \subseteq abandoned'
        BY <1>4 DEF TreeRuns, KillFleet
    <2> QED
        BY <2>1, TreeStepLocal, TreeStepKeepsLaneInv
<1> QED
    BY <1>1, <1>2, <1>3, <1>4 DEF Next

-----------------------------------------------------------------------------
(* Processes                                                               *)

\* An evaluation that a step does not concern, nor its lane.
LEMMA EvalUntouched ==
  ASSUME NEW e \in Evals, EvalInv(e), tree'[e] = tree[e], abandoned \subseteq abandoned',
         \A c \in Campaigns : lane[c].eval = e \/ lane'[c].eval = e => lane'[c] = lane[c]
  PROVE  EvalInv(e)'
BY DEF EvalInv, Stage, FleetLives, ServerLives

\* A step of the processes of an evaluation that its lane still has.
LEMMA TreeStepKeepsEvalInv ==
  ASSUME HostTypeOK, LaneInv, NEW e \in Evals, EvalInv(e), TreeRuns(e)
  PROVE  EvalInv(e)'
<1>1. /\ tree[e] \in [fleet : Fleets, server : Servers, known : BOOLEAN, shards : BOOLEAN]
      /\ tree[e].fleet = "none" => tree[e].server = "none"
    BY DEF HostTypeOK, TreeTypeOK, LaneInv
<1>2. UNCHANGED lane /\ abandoned \subseteq abandoned'
    BY DEF TreeRuns
<1>3. \A c \in Campaigns : lane[c].eval = e => lane[c].pc \in {"running", "snapped", "termed"}
    BY HostAssumption DEF LaneInv, Owning, HostAssumption
<1>4. CASE FleetForks(e)
    <2>1. tree'[e] = [tree[e] EXCEPT !.fleet = "forked", !.server = "loading"]
        BY <1>4 DEF FleetForks, HostTypeOK, TreeTypeOK
    <2>2. ASSUME NEW c \in Campaigns, lane[c].eval = e, e \notin abandoned'
          PROVE  lane[c].pc = "running"
        <3>1. lane[c].pc # "snapped"
            BY <1>4, <2>2, HostAssumption DEF TreeRuns, Owned, HostAssumption
        <3>2. lane[c].pc # "termed"
            BY <1>2, <1>4, <2>2 DEF EvalInv, Stage, FleetForks
        <3> QED
            BY <1>3, <2>2, <3>1, <3>2
    <2>3. tree[e].fleet = "starting" /\ tree'[e].fleet = "forked" /\ tree'[e].shards = tree[e].shards
        BY <1>1, <1>4, <2>1 DEF FleetForks
    <2>4. \A c \in Campaigns : lane[c].eval = e /\ e \notin abandoned' => Stage(c, tree[e])'
        BY <1>2, <2>2, <2>3 DEF Stage
    <2>5. e \notin abandoned' => ~tree'[e].shards /\ \E c \in Campaigns : lane[c].eval = e
        BY <1>2, <2>3 DEF EvalInv, FleetLives
    <2> QED
        BY <1>2, <2>3, <2>4, <2>5 DEF EvalInv
<1>5. CASE FleetRemembers(e)
    <2>1. /\ tree'[e].fleet = "waiting" /\ tree'[e].server = tree[e].server
          /\ tree'[e].known = TRUE /\ tree'[e].shards = tree[e].shards
        BY <1>5 DEF FleetRemembers, HostTypeOK, TreeTypeOK
    <2>2. ASSUME NEW c \in Campaigns, lane[c].eval = e, e \notin abandoned PROVE Stage(c, tree[e])'
        <3>1. Stage(c, tree[e]) /\ (tree[e].shards => tree[e].fleet = "running")
            BY <2>2 DEF EvalInv
        <3> QED
            BY <1>1, <1>2, <1>5, <2>1, <3>1 DEF Stage, FleetRemembers
    <2>3. ASSUME e \notin abandoned'
          PROVE  /\ tree'[e].shards => tree'[e].fleet = "running"
                 /\ (FleetLives(e) \/ ServerLives(e))' => \E c \in Campaigns : lane'[c].eval = e
        BY <1>1, <1>2, <1>5, <2>1, <2>3 DEF EvalInv, FleetRemembers, FleetLives, ServerLives
    <2>4. tree'[e].fleet = "starting" => tree'[e].server = "none"
        BY <1>1, <1>5, <2>1 DEF EvalInv, FleetRemembers
    <2> QED
        BY <1>2, <2>2, <2>3, <2>4 DEF EvalInv
<1>6. CASE ServerComesUp(e)
    <2> PICK state \in {"resident", "dead"} : tree' = [tree EXCEPT ![e].server = state]
        BY <1>6 DEF ServerComesUp
    <2>1. /\ tree'[e].fleet = tree[e].fleet /\ tree'[e].server = state
          /\ tree'[e].known = tree[e].known /\ tree'[e].shards = tree[e].shards
        BY <1>6 DEF ServerComesUp, HostTypeOK, TreeTypeOK
    <2>2. ASSUME NEW c \in Campaigns, lane[c].eval = e, e \notin abandoned PROVE Stage(c, tree[e])'
        <3>1. Stage(c, tree[e]) /\ (tree[e].shards => tree[e].fleet = "running")
            BY <2>2 DEF EvalInv
        <3> QED
            BY <1>1, <1>2, <1>6, <2>1, <3>1 DEF Stage, ServerComesUp
    <2>3. ASSUME e \notin abandoned'
          PROVE  /\ tree'[e].shards => tree'[e].fleet = "running"
                 /\ (FleetLives(e) \/ ServerLives(e))' => \E c \in Campaigns : lane'[c].eval = e
        BY <1>1, <1>2, <1>6, <2>1, <2>3 DEF EvalInv, ServerComesUp, FleetLives, ServerLives
    <2>4. tree'[e].fleet = "starting" => tree'[e].server = "none"
        BY <1>1, <1>6, <2>1 DEF EvalInv, ServerComesUp
    <2> QED
        BY <1>2, <2>2, <2>3, <2>4 DEF EvalInv
<1>7. CASE FleetLaunches(e)
    <2>1. /\ tree'[e].fleet = "running" /\ tree'[e].server = tree[e].server
          /\ tree'[e].known = tree[e].known /\ tree'[e].shards = TRUE
        BY <1>7 DEF FleetLaunches, HostTypeOK, TreeTypeOK
    <2>2. ASSUME NEW c \in Campaigns, lane[c].eval = e, e \notin abandoned PROVE Stage(c, tree[e])'
        <3>1. Stage(c, tree[e]) /\ (tree[e].shards => tree[e].fleet = "running")
            BY <2>2 DEF EvalInv
        <3> QED
            BY <1>1, <1>2, <1>7, <2>1, <3>1 DEF Stage, FleetLaunches
    <2>3. ASSUME e \notin abandoned'
          PROVE  /\ tree'[e].shards => tree'[e].fleet = "running"
                 /\ (FleetLives(e) \/ ServerLives(e))' => \E c \in Campaigns : lane'[c].eval = e
        BY <1>1, <1>2, <1>7, <2>1, <2>3 DEF EvalInv, FleetLaunches, FleetLives, ServerLives
    <2>4. tree'[e].fleet = "starting" => tree'[e].server = "none"
        BY <1>1, <1>7, <2>1 DEF EvalInv, FleetLaunches
    <2> QED
        BY <1>2, <2>2, <2>3, <2>4 DEF EvalInv
<1>8. CASE FleetGivesUp(e)
    <2>1. /\ tree'[e].fleet = "cleaning" /\ tree'[e].server = tree[e].server
          /\ tree'[e].known = tree[e].known /\ tree'[e].shards = tree[e].shards
        BY <1>8 DEF FleetGivesUp, HostTypeOK, TreeTypeOK
    <2>2. ASSUME NEW c \in Campaigns, lane[c].eval = e, e \notin abandoned PROVE Stage(c, tree[e])'
        <3>1. Stage(c, tree[e]) /\ (tree[e].shards => tree[e].fleet = "running")
            BY <2>2 DEF EvalInv
        <3> QED
            BY <1>1, <1>2, <1>8, <2>1, <3>1 DEF Stage, FleetGivesUp
    <2>3. ASSUME e \notin abandoned'
          PROVE  /\ tree'[e].shards => tree'[e].fleet = "running"
                 /\ (FleetLives(e) \/ ServerLives(e))' => \E c \in Campaigns : lane'[c].eval = e
        BY <1>1, <1>2, <1>8, <2>1, <2>3 DEF EvalInv, FleetGivesUp, FleetLives, ServerLives
    <2>4. tree'[e].fleet = "starting" => tree'[e].server = "none"
        BY <1>1, <1>8, <2>1 DEF EvalInv, FleetGivesUp
    <2> QED
        BY <1>2, <2>2, <2>3, <2>4 DEF EvalInv
<1>9. CASE LauncherEnds(e)
    <2>1. /\ tree'[e].fleet = "cleaning" /\ tree'[e].server = tree[e].server
          /\ tree'[e].known = tree[e].known /\ tree'[e].shards = FALSE
        BY <1>9 DEF LauncherEnds, HostTypeOK, TreeTypeOK
    <2>2. ASSUME NEW c \in Campaigns, lane[c].eval = e, e \notin abandoned PROVE Stage(c, tree[e])'
        <3>1. Stage(c, tree[e]) /\ (tree[e].shards => tree[e].fleet = "running")
            BY <2>2 DEF EvalInv
        <3> QED
            BY <1>1, <1>2, <1>9, <2>1, <3>1 DEF Stage, LauncherEnds
    <2>3. ASSUME e \notin abandoned'
          PROVE  /\ tree'[e].shards => tree'[e].fleet = "running"
                 /\ (FleetLives(e) \/ ServerLives(e))' => \E c \in Campaigns : lane'[c].eval = e
        BY <1>1, <1>2, <1>9, <2>1, <2>3 DEF EvalInv, LauncherEnds, FleetLives, ServerLives
    <2>4. tree'[e].fleet = "starting" => tree'[e].server = "none"
        BY <1>1, <1>9, <2>1 DEF EvalInv, LauncherEnds
    <2> QED
        BY <1>2, <2>2, <2>3, <2>4 DEF EvalInv
<1>10. CASE FleetCleans(e)
    <2>1. /\ tree'[e].fleet = "gone" /\ tree'[e].server = IF tree[e].known THEN "dead" ELSE tree[e].server
          /\ tree'[e].known = tree[e].known /\ tree'[e].shards = tree[e].shards
        BY <1>10 DEF FleetCleans, HostTypeOK, TreeTypeOK
    <2>2. ASSUME NEW c \in Campaigns, lane[c].eval = e, e \notin abandoned PROVE Stage(c, tree[e])'
        <3>1. Stage(c, tree[e]) /\ (tree[e].shards => tree[e].fleet = "running")
            BY <2>2 DEF EvalInv
        <3> QED
            BY <1>1, <1>2, <1>10, <2>1, <3>1 DEF Stage, FleetCleans
    <2>3. ASSUME e \notin abandoned'
          PROVE  /\ tree'[e].shards => tree'[e].fleet = "running"
                 /\ (FleetLives(e) \/ ServerLives(e))' => \E c \in Campaigns : lane'[c].eval = e
        BY <1>1, <1>2, <1>10, <2>1, <2>3 DEF EvalInv, FleetCleans, FleetLives, ServerLives
    <2>4. tree'[e].fleet = "starting" => tree'[e].server = "none"
        BY <1>1, <1>10, <2>1 DEF EvalInv, FleetCleans
    <2> QED
        BY <1>2, <2>2, <2>3, <2>4 DEF EvalInv
<1> QED
    BY <1>4, <1>5, <1>6, <1>7, <1>8, <1>9, <1>10 DEF TreeRuns, TreeStep

\* A step of a lane, seen from its evaluation, or from the one it starts.
LEMMA LaneStepKeepsEvalInv ==
  ASSUME HostTypeOK, LaneInv, LaneInv', TreeInv, NEW c \in Campaigns, LaneStep(c), NEW e \in Evals,
         lane[c].eval = e \/ lane'[c].eval = e
  PROVE  EvalInv(e)'
<1>0. EvalInv(e)
    BY DEF TreeInv
<1>1. /\ tree[e] \in [fleet : Fleets, server : Servers, known : BOOLEAN, shards : BOOLEAN]
      /\ tree[e].fleet = "none" => tree[e].server = "none" /\ ~tree[e].shards
    BY DEF HostTypeOK, TreeTypeOK, LaneInv
<1>2. UNCHANGED abandoned
    BY DEF LaneStep, LaneProbes, LaneSpawns, LaneStops, LaneReturns, LaneRetries,
           LaneSnapshots, LaneTerminates, LaneSweeps
<1>3. e # NoEval /\ NoEval \notin Evals
    BY HostAssumption DEF HostAssumption
<1>4. /\ lane[c].eval = e => lane[c].pc \in {"running", "snapped", "termed"} /\ tree[e].fleet # "none"
    BY <1>3 DEF LaneInv, Owning
<1>11. \A d \in Campaigns : d # c => lane'[d] = lane[d]
    BY DEF LaneStep, LaneProbes, LaneSpawns, LaneStops, LaneReturns, LaneRetries, LaneSnapshots,
           LaneTerminates,
           LaneSweeps, LaneEnds, HostTypeOK
<1>12. \A d \in Campaigns : d # c => lane'[d].eval # e
    BY <1>3, <1>11 DEF LaneInv
\* It is enough to look at what the processes are, and at this lane's stage.
<1>13. ASSUME tree'[e].fleet = "starting" => tree'[e].server = "none",
              e \notin abandoned =>
                 /\ tree'[e].shards => tree'[e].fleet = "running"
                 /\ (FleetLives(e) \/ ServerLives(e))' => lane'[c].eval = e
                 /\ lane'[c].eval = e => Stage(c, tree[e])'
       PROVE  EvalInv(e)'
    BY <1>2, <1>12, <1>13 DEF EvalInv
<1>5. CASE LaneProbes(c) \/ LaneStops(c)
    <2>1. lane[c].pc \in {"top", "probed"} /\ lane'[c].pc \in {"none", "probed"}
        BY <1>5 DEF LaneProbes, LaneStops, LaneEnds, Forgets, NoLane, HostTypeOK
    <2>2. lane[c].eval = NoEval /\ lane'[c].eval = NoEval
        BY <2>1 DEF LaneInv, Owning
    <2> QED
        BY <1>3, <2>2
<1>6. CASE LaneSpawns(c)
    <2> PICK d \in Evals :
            /\ tree[d].fleet = "none" /\ Spawn(d)
            /\ lane' = [lane EXCEPT ![c].pc = "running", ![c].eval = d]
        BY <1>6 DEF LaneSpawns
    <2>1. lane[c].pc = "probed" /\ lane'[c].pc = "running" /\ lane'[c].eval = d
        BY <1>6 DEF LaneSpawns, HostTypeOK
    <2>2. lane[c].eval = NoEval
        BY <2>1 DEF LaneInv, Owning
    <2>3. d = e
        BY <1>3, <2>1, <2>2
    <2>4. tree'[e].fleet = "starting" /\ tree'[e].server = "none" /\ ~tree'[e].shards
        BY <1>1, <2>3 DEF Spawn, HostTypeOK, TreeTypeOK
    <2>5. Stage(c, tree[e])'
        BY <2>1, <2>4 DEF Stage
    <2> QED
        BY <1>13, <2>1, <2>3, <2>4, <2>5
<1>7. CASE LaneReturns(c) \/ LaneRetries(c)
    <2>1. lane[c].pc = "running" /\ lane'[c].eval = NoEval /\ tree' = tree
        BY <1>7 DEF LaneReturns, LaneRetries, NoLane, HostTypeOK
    <2>2. lane[c].eval = e
        BY <1>3, <2>1
    <2>3. tree[e].fleet = "gone"
        BY <1>4, <1>7, <2>2 DEF LaneReturns, LaneRetries, FleetLives
    <2>4. e \notin abandoned => tree[e].server \notin {"loading", "resident"} /\ ~tree[e].shards
        BY <1>0, <1>1, <2>1, <2>2, <2>3 DEF EvalInv, Stage
    <2> QED
        BY <1>3, <1>13, <2>1, <2>3, <2>4 DEF FleetLives, ServerLives
<1>8. CASE LaneSnapshots(c)
    <2>1. /\ lane[c].pc = "running" /\ lane'[c].pc = "snapped" /\ tree' = tree
          /\ lane'[c].eval = lane[c].eval /\ lane'[c].snapshot = InSight(c)
        BY <1>8 DEF LaneSnapshots, HostTypeOK
    <2>2. e \notin abandoned /\ tree[e].server \in {"loading", "resident"} => FleetLives(e)
        BY <1>0, <1>4, <2>1 DEF EvalInv, Stage, FleetLives
    <2>3. e \notin abandoned => Stage(c, tree[e])'
        BY <2>1, <2>2 DEF Stage, InSight, ServerLives
    <2> QED
        BY <1>0, <1>13, <2>1, <2>3 DEF EvalInv, FleetLives, ServerLives
<1>9. CASE LaneTerminates(c)
    <2>1. /\ lane[c].pc = "snapped" /\ lane'[c].pc = "termed" /\ lane[c].eval = e
          /\ lane'[c].eval = e /\ lane'[c].snapshot = lane[c].snapshot
        BY <1>9 DEF LaneTerminates, HostTypeOK
    <2>2. /\ tree'[e].fleet \in {"cleaning", "gone"}
          /\ tree'[e].shards => tree[e].shards /\ tree[e].fleet \in {"gone", "cleaning", "starting"}
          /\ tree'[e].server \in {tree[e].server, "dead"}
        BY <1>1, <1>4, <1>9, <2>1 DEF LaneTerminates, Terminated, FleetLives, HostTypeOK, TreeTypeOK, Fleets
    <2>3. e \notin abandoned => Stage(c, tree[e])'
        BY <1>0, <2>1, <2>2 DEF EvalInv, Stage
    <2> QED
        BY <1>0, <1>13, <2>1, <2>2, <2>3 DEF EvalInv
<1>10. CASE LaneSweeps(c)
    <2>1. lane[c].pc = "termed" /\ lane'[c].eval = NoEval
        BY <1>10 DEF LaneSweeps, LaneEnds, Forgets, NoLane, HostTypeOK
    <2>2. lane[c].eval = e
        BY <1>3, <2>1
    <2>3. /\ tree'[e].fleet = "gone" /\ ~tree'[e].shards
          /\ lane[c].snapshot /\ ServerLives(e) => tree'[e].server = "dead"
          /\ ~ServerLives(e) => tree'[e].server = tree[e].server
        BY <1>10, <2>2 DEF LaneSweeps, Swept, HostTypeOK, TreeTypeOK
    <2>4. e \notin abandoned => ~ServerLives(e)'
        BY <1>0, <2>1, <2>2, <2>3 DEF EvalInv, Stage, ServerLives
    <2> QED
        BY <1>3, <1>13, <2>1, <2>3, <2>4 DEF FleetLives
<1> QED
    BY <1>5, <1>6, <1>7, <1>8, <1>9, <1>10 DEF LaneStep

LEMMA StepTrees == HostTypeOK /\ LaneInv /\ LaneInv' /\ TreeInv /\ [Next]_vars => TreeInv'
<1> SUFFICES ASSUME HostTypeOK, LaneInv, LaneInv', TreeInv, [Next]_vars, NEW e \in Evals
             PROVE  EvalInv(e)'
    BY DEF TreeInv
<1>0. EvalInv(e) /\ e # NoEval
    BY HostAssumption DEF TreeInv, HostAssumption
<1>1. CASE UNCHANGED vars
    BY <1>0, <1>1, EvalUntouched DEF vars, hostVars
<1>2. ASSUME NEW c \in Campaigns, Start(c) \/ MainStep(c) \/ Term(c)
      PROVE  EvalInv(e)'
    <2>1. CASE Admit(c) /\ HostIdle
        <3>1. /\ lane[c].pc = "none" /\ UNCHANGED <<tree, abandoned>>
              /\ \A d \in Campaigns : d # c => lane'[d] = lane[d]
              /\ lane'[c].eval = NoEval
            BY <2>1 DEF Admit, LaneInv, NoLane, HostTypeOK
        <3>2. lane[c].eval = NoEval
            BY <3>1 DEF LaneInv, Owning
        <3> QED
            BY <1>0, <3>1, <3>2, EvalUntouched
    <2>2. CASE ~ (Admit(c) /\ HostIdle)
        <3>1. UNCHANGED <<tree, lane>> /\ abandoned \subseteq abandoned'
            BY <1>2, <2>2 DEF Start, MainStep, Lock, AllLocked, Refused, Admit, Close, Leave, Term
        <3> QED
            BY <1>0, <3>1, EvalUntouched
    <2> QED
        BY <2>1, <2>2
<1>3. ASSUME NEW c \in Campaigns, Kill(c) PROVE EvalInv(e)'
    <2>1. /\ UNCHANGED tree /\ abandoned' = abandoned \union Owned(c)
          /\ lane'[c].eval = NoEval /\ \A d \in Campaigns : d # c => lane'[d] = lane[d]
        BY <1>3 DEF Kill, LaneEnds, Forgets, NoLane, HostTypeOK
    <2>2. CASE lane[c].eval = e
        BY <1>0, <2>1, <2>2 DEF EvalInv, Owned
    <2>3. CASE lane[c].eval # e
        BY <1>0, <2>1, <2>3, EvalUntouched
    <2> QED
        BY <2>2, <2>3
<1>4. ASSUME NEW c \in Campaigns, LaneStep(c) PROVE EvalInv(e)'
    <2>1. CASE lane[c].eval = e \/ lane'[c].eval = e
        BY <1>4, <2>1, LaneStepKeepsEvalInv
    <2>2. CASE lane[c].eval # e /\ lane'[c].eval # e
        <3>1. UNCHANGED abandoned /\ \A d \in Campaigns : d # c => lane'[d] = lane[d]
            BY <1>4 DEF LaneStep, LaneProbes, LaneSpawns, LaneStops, LaneReturns, LaneRetries, LaneSnapshots,
                        LaneTerminates, LaneSweeps, LaneEnds, HostTypeOK
        <3>2. tree'[e] = tree[e]
            <4>1. CASE LaneSpawns(c)
                BY <2>2, <4>1 DEF LaneSpawns, Spawn, HostTypeOK, TreeTypeOK
            <4>2. CASE LaneTerminates(c) \/ LaneSweeps(c)
                BY <2>2, <4>2 DEF LaneTerminates, LaneSweeps, Terminated, Swept, HostTypeOK, TreeTypeOK
            <4> QED
                BY <1>4, <4>1, <4>2 DEF LaneStep, LaneProbes, LaneStops, LaneReturns, LaneRetries, LaneSnapshots
        <3> QED
            BY <1>0, <2>2, <3>1, <3>2, EvalUntouched
    <2> QED
        BY <2>1, <2>2
<1>5. ASSUME NEW d \in Evals, TreeRuns(d) \/ KillFleet(d) PROVE EvalInv(e)'
    <2>1. UNCHANGED lane /\ abandoned \subseteq abandoned' /\ (TreeStep(d) \/ FleetKilled(d))
        BY <1>5 DEF TreeRuns, KillFleet
    <2>2. CASE d # e
        <3>1. tree'[e] = tree[e]
            BY <2>1, <2>2, TreeStepLocal
        <3> QED
            BY <1>0, <2>1, <3>1, EvalUntouched
    <2>3. CASE d = e /\ TreeRuns(e)
        BY <1>0, <2>3, TreeStepKeepsEvalInv
    <2>4. CASE d = e /\ KillFleet(e)
        <3>1. e \in abandoned' /\ tree'[e].fleet = "gone"
            BY <2>4 DEF KillFleet, FleetKilled, HostTypeOK, TreeTypeOK
        <3> QED
            BY <3>1 DEF EvalInv
    <2> QED
        BY <1>5, <2>2, <2>3, <2>4
<1> QED
    BY <1>1, <1>2, <1>3, <1>4, <1>5 DEF Next

-----------------------------------------------------------------------------
(* Probes                                                                  *)

\* A server is up after a step only if it was up before or comes up in it.
LEMMA ComesUp ==
  ASSUME HostTypeOK, Next, NEW d \in Evals, tree'[d].server = "resident"
  PROVE  tree[d].server = "resident" \/ (TreeRuns(d) /\ ServerComesUp(d))
<1> SUFFICES ASSUME tree[d].server # "resident"
             PROVE  TreeRuns(d) /\ ServerComesUp(d)
    OBVIOUS
<1>1. tree[d] \in [fleet : Fleets, server : Servers, known : BOOLEAN, shards : BOOLEAN]
    BY DEF HostTypeOK, TreeTypeOK
<1>2. tree' # tree
    OBVIOUS
<1>3. ASSUME NEW c \in Campaigns, Start(c) \/ MainStep(c) \/ Term(c) \/ Kill(c) PROVE FALSE
    BY <1>2, <1>3 DEF Start, MainStep, Lock, AllLocked, Refused, Admit, Close, Leave, Term, Kill
<1>4. ASSUME NEW c \in Campaigns, LaneStep(c) PROVE FALSE
    <2>1. CASE LaneSpawns(c)
        BY <2>1 DEF LaneSpawns, Spawn, HostTypeOK, TreeTypeOK
    <2>2. CASE LaneTerminates(c)
        BY <2>2 DEF LaneTerminates, Terminated, HostTypeOK, TreeTypeOK
    <2>3. CASE LaneSweeps(c)
        BY <2>3 DEF LaneSweeps, Swept, ServerLives, HostTypeOK, TreeTypeOK
    <2> QED
        BY <1>2, <1>4, <2>1, <2>2, <2>3 DEF LaneStep, LaneProbes, LaneStops, LaneReturns, LaneRetries, LaneSnapshots
<1>5. ASSUME NEW e \in Evals, KillFleet(e) PROVE FALSE
    BY <1>5 DEF KillFleet, FleetKilled, HostTypeOK, TreeTypeOK
<1>6. ASSUME NEW e \in Evals, TreeRuns(e) PROVE TreeRuns(d) /\ ServerComesUp(d)
    <2>1. ServerComesUp(e)
        <3>1. ASSUME FleetForks(e) \/ FleetCleans(e) PROVE FALSE
            BY <3>1 DEF FleetForks, FleetCleans, HostTypeOK, TreeTypeOK
        <3>2. ASSUME FleetRemembers(e) \/ FleetLaunches(e) \/ FleetGivesUp(e) \/ LauncherEnds(e) PROVE FALSE
            BY <3>2 DEF FleetRemembers, FleetLaunches, FleetGivesUp, LauncherEnds, HostTypeOK, TreeTypeOK
        <3> QED
            BY <1>6, <3>1, <3>2 DEF TreeRuns, TreeStep
    <2>2. d = e
        BY <2>1 DEF ServerComesUp, HostTypeOK, TreeTypeOK
    <2> QED
        BY <1>6, <2>1, <2>2
<1> QED
    BY <1>3, <1>4, <1>5, <1>6 DEF Next

LEMMA StepProbes == HostTypeOK /\ ProbeInv /\ [Next]_vars => ProbeInv'
<1> SUFFICES ASSUME HostTypeOK, ProbeInv, [Next]_vars,
                    NEW c \in Campaigns, NEW d \in Evals, lane'[c].pc \in {"probed", "running"},
                    tree'[d].server = "resident"
             PROVE  <<c, d>> \in unseen'
    BY DEF ProbeInv
<1>1. CASE UNCHANGED vars
    BY <1>1 DEF ProbeInv, vars, hostVars
<1>2. CASE Next /\ TreeRuns(d) /\ ServerComesUp(d)
    BY <1>2 DEF TreeRuns
<1>3. CASE Next /\ tree[d].server = "resident"
    <2>0. ~HostIdle
        BY <1>3 DEF HostIdle
    <2>1. ASSUME NEW b \in Campaigns, Start(b) \/ MainStep(b) \/ Term(b) \/ Kill(b)
          PROVE  /\ lane[c].pc = lane'[c].pc
                 /\ <<c, d>> \in unseen => <<c, d>> \in unseen'
        <3>1. CASE Kill(b)
            BY <3>1 DEF Kill, LaneEnds, Forgets, NoLane, HostTypeOK
        <3>2. CASE ~Kill(b)
            BY <2>0, <2>1, <3>2
            DEF Start, MainStep, Lock, AllLocked, Refused, Admit, Close, Leave, Term
        <3> QED
            BY <3>1, <3>2
    <2>2. ASSUME NEW b \in Campaigns, LaneStep(b)
          PROVE  /\ lane[c].pc \in {"probed", "running"}
                 /\ <<c, d>> \in unseen => <<c, d>> \in unseen'
        <3>1. CASE LaneProbes(b) \/ LaneStops(b) \/ LaneSweeps(b)
            BY <2>0, <3>1 DEF LaneProbes, LaneStops, LaneSweeps, LaneEnds, Forgets, NoLane, HostTypeOK
        <3>2. CASE LaneReturns(b) \/ LaneSnapshots(b) \/ LaneTerminates(b)
            BY <3>2 DEF LaneReturns, LaneSnapshots, LaneTerminates, Forgets, NoLane, HostTypeOK
        <3>3. CASE LaneSpawns(b) \/ LaneRetries(b)
            BY <3>3 DEF LaneSpawns, LaneRetries, NoLane, HostTypeOK
        <3> QED
            BY <2>2, <3>1, <3>2, <3>3 DEF LaneStep
    <2>3. ASSUME NEW e \in Evals, TreeRuns(e) \/ KillFleet(e)
          PROVE  lane' = lane /\ unseen \subseteq unseen'
        BY <2>3 DEF TreeRuns, KillFleet
    <2>4. lane[c].pc \in {"probed", "running"} /\ (<<c, d>> \in unseen => <<c, d>> \in unseen')
        BY <1>3, <2>1, <2>2, <2>3 DEF Next
    <2> QED
        BY <1>3, <2>4 DEF ProbeInv
<1> QED
    BY <1>1, <1>2, <1>3, ComesUp

-----------------------------------------------------------------------------
(* The theorems                                                            *)

HostInv == HostTypeOK /\ LockInv /\ RefusalInv /\ LaneInv /\ TreeInv /\ ProbeInv

LEMMA HostInvHolds == Spec => []HostInv
<1>1. Init => HostInv
    <2>1. Init => HostTypeOK
        BY InitTypes
    <2>2. Init => LockInv /\ RefusalInv /\ ProbeInv
        BY DEF Init, LockInv, RefusalInv, ProbeInv, NoLane
    <2>3. Init => LaneInv /\ TreeInv
        BY HostAssumption DEF Init, TreeInit, NoTree, NoLane, LaneInv, Owning, TreeInv, EvalInv, Stage,
                              FleetLives, ServerLives, HostAssumption
    <2> QED
        BY <2>1, <2>2, <2>3 DEF HostInv
<1>2. HostInv /\ [Next]_vars => HostInv'
    <2> SUFFICES ASSUME HostInv, [Next]_vars PROVE HostInv'
        OBVIOUS
    <2>1. HostTypeOK' /\ LockInv' /\ RefusalInv' /\ LaneInv' /\ ProbeInv'
        BY StepTypes, StepLocks, StepRefusals, StepLanes, StepProbes DEF HostInv
    <2>2. TreeInv'
        BY <2>1, StepTrees DEF HostInv
    <2> QED
        BY <2>1, <2>2 DEF HostInv
<1> QED
    BY <1>1, <1>2, PTL DEF Spec

\* What holds an evaluation in use: a lane, and behind it every lock.
LEMMA InUse ==
  ASSUME HostInv, NEW e \in Evals, e \notin abandoned,
         FleetLives(e) \/ ServerLives(e) \/ tree[e].shards
  PROVE  \E c \in Campaigns : lane[c].eval = e /\ \A k \in Keys[c] : <<c, k>> \in locks
<1>1. FleetLives(e) \/ ServerLives(e)
    BY DEF HostInv, TreeInv, EvalInv, FleetLives
<1>2. PICK c \in Campaigns : lane[c].eval = e
    BY <1>1 DEF HostInv, TreeInv, EvalInv
<1>3. e # NoEval
    BY HostAssumption DEF HostAssumption
<1>4. main[c] \in {"running", "shutting"}
    BY <1>2, <1>3 DEF HostInv, LaneInv, Owning
<1>5. \A k \in Keys[c] : <<c, k>> \in locks
    BY <1>4 DEF HostInv, LockInv
<1> QED
    BY <1>2, <1>5

\* An evaluation lives under all the leases of the campaign that runs it, for
\* any number of campaigns, through any signals and kills
\* (HostResourceLeases in eval/parallel_campaign.py).
THEOREM LeaseTheorem == Spec => []UseIsLeased
<1>1. HostInv => UseIsLeased
    BY InUse DEF UseIsLeased, Held
<1> QED
    BY <1>1, HostInvHolds, PTL

\* Two policy servers are never alive together unless a fault took one of them
\* from its campaign (_terminate_evaluator_process and the leases together).
THEOREM ExclusiveServersTheorem == Spec => []Exclusive
<1>1. HostInv => Exclusive
    <2> SUFFICES ASSUME HostInv, NEW e \in Evals \ abandoned, NEW d \in Evals \ abandoned,
                        ServerLives(e), ServerLives(d)
                 PROVE  e = d
        BY DEF Exclusive
    <2>1. PICK a \in Campaigns : lane[a].eval = e /\ \A k \in Keys[a] : <<a, k>> \in locks
        BY InUse
    <2>2. PICK b \in Campaigns : lane[b].eval = d /\ \A k \in Keys[b] : <<b, k>> \in locks
        BY InUse
    <2>3. PICK k \in Keys[a] \intersect Keys[b] : k \in Nat
        BY HostAssumption DEF HostAssumption
    <2>4. a = b
        BY <2>1, <2>2, <2>3 DEF HostInv, LockInv
    <2> QED
        BY <2>1, <2>2, <2>4
<1> QED
    BY <1>1, HostInvHolds, PTL

\* An evaluation that ended, or that its lane stopped, leaves no server and no
\* shard behind (launch_gpu_fleet's cleanup, the lane's sweep), unless a fault or
\* the blind spot before the SIGTERM made it an abandoned one.
THEOREM StopTheorem == Spec => []StoppedMeansStopped
<1>1. HostInv => StoppedMeansStopped
    BY DEF HostInv, TreeInv, EvalInv, StoppedMeansStopped, Leftover
<1> QED
    BY <1>1, HostInvHolds, PTL

\* Two campaigns that start together are never both refused because of each
\* other, for any overlapping sets of locks (acquire_host_resource_leases).
THEOREM RefusalTheorem == Spec => []NotBothRefused
<1>1. HostInv => NotBothRefused
    BY DEF HostInv, RefusalInv, NotBothRefused
<1> QED
    BY <1>1, HostInvHolds, PTL

\* A lane launches an evaluation, the first one of a cell and each retry, beside
\* a resident server only if that server came up after the probe that admitted the
\* cell (admit_lane_resources, run_cell_transaction).
THEOREM NewcomerTheorem == Spec => NewcomersSee
<1>1. HostInv /\ [Next]_vars =>
        [\A c \in Campaigns, d \in Evals :
           /\ lane[c].pc = "probed" /\ lane'[c].pc = "running"
           /\ tree[d].server = "resident"
           => <<c, d>> \in unseen]_vars
    BY DEF HostInv, ProbeInv
<1> QED
    BY <1>1, HostInvHolds, PTL DEF Spec, NewcomersSee

-----------------------------------------------------------------------------
(* How long stopping can take                                              *)

\* How far a lane that is cancelled is from its end, and its campaign.
LaneRest(l) ==
    CASE l.pc = "running" -> 4 [] l.pc = "snapped" -> 3 [] l.pc \in {"termed", "top", "probed"} -> 2
      [] l.pc = "none" -> 1
StopLeft(c) == LaneRest(lane[c]) + IF main[c] = "shutting" THEN 1 ELSE 0

\* A campaign that stops goes on stopping, and each step of it is nearer to the
\* end: no lane starts another evaluation or waits for one that hangs.
StopNears(c) ==
    /\ Cancelled(c)'
    /\ UNCHANGED <<main[c], lane[c]>> \/ StopLeft(c)' < StopLeft(c)

LEMMA StopLeftBounds == HostTypeOK => \A c \in Campaigns : StopLeft(c) \in 1..5
<1> SUFFICES ASSUME HostTypeOK, NEW c \in Campaigns PROVE StopLeft(c) \in 1..5
    OBVIOUS
<1>1. lane[c] \in LaneType
    BY DEF HostTypeOK, LaneType
<1>2. LaneRest(lane[c]) \in 1..4
    BY <1>1 DEF LaneRest, LaneType
<1> QED
    BY <1>2 DEF StopLeft

\* What a campaign does by itself leaves the others alone.
LEMMA OthersStay ==
  ASSUME HostTypeOK, NEW c \in Campaigns, NEW d \in Campaigns, c # d,
         Start(d) \/ MainStep(d) \/ LaneStep(d) \/ Term(d) \/ Kill(d)
  PROVE  UNCHANGED <<main[c], lane[c]>>
BY DEF HostTypeOK, Start, MainStep, Lock, AllLocked, Refused, Admit, Close, Leave, LaneStep, LaneProbes,
       LaneSpawns, LaneStops, LaneReturns, LaneRetries,
           LaneSnapshots, LaneTerminates, LaneSweeps, LaneEnds, Term, Kill

LEMMA StepStops ==
  ASSUME HostTypeOK, Next, NEW c \in Campaigns, Cancelled(c), main'[c] # "down"
  PROVE  StopNears(c)
<1>0. /\ lane \in [Campaigns -> LaneType] /\ c \in DOMAIN main /\ c \in DOMAIN lane
      /\ lane' \in [Campaigns -> LaneType] /\ main[c] \in {"shutting", "leaving"}
    BY StepTypes DEF HostTypeOK, LaneType, Cancelled
<1>1. CASE UNCHANGED <<main[c], lane[c]>>
    BY <1>0, <1>1 DEF StopNears, Cancelled
<1>2. ASSUME main'[c] = main[c], LaneRest(lane'[c]) < LaneRest(lane[c]) PROVE StopNears(c)
    <2>1. LaneRest(lane[c]) \in 1..4 /\ LaneRest(lane'[c]) \in 1..4
        <3>1. lane[c] \in LaneType /\ lane'[c] \in LaneType
            BY <1>0
        <3> QED
            BY <3>1 DEF LaneRest, LaneType
    <2> QED
        BY <1>0, <1>2, <2>1 DEF StopNears, StopLeft, Cancelled
<1>3. CASE Start(c) \/ MainStep(c) \/ Kill(c)
    BY <1>0, <1>3 DEF Start, MainStep, Lock, AllLocked, Refused, Admit, Close, Leave, Kill, HostTypeOK
<1>4. CASE Term(c)
    <2>1. main[c] = "shutting" /\ main'[c] = "leaving" /\ lane'[c] = lane[c]
        BY <1>0, <1>4 DEF Term, HostTypeOK
    <2>2. LaneRest(lane[c]) \in 1..4
        BY <1>0 DEF LaneRest, LaneType
    <2> QED
        BY <2>1, <2>2 DEF StopNears, StopLeft, Cancelled
<1>5. CASE LaneStep(c)
    <2>1. main'[c] = main[c]
        BY <1>5 DEF LaneStep, LaneProbes, LaneSpawns, LaneStops, LaneReturns, LaneRetries, LaneSnapshots, LaneTerminates,
                    LaneSweeps
    <2>2. CASE LaneProbes(c) \/ LaneSpawns(c)
        BY <1>0, <2>2 DEF LaneProbes, LaneSpawns, Cancelled
    <2>3. CASE LaneStops(c) \/ LaneSweeps(c)
        <3>1. lane[c].pc \in {"top", "probed", "termed"} /\ lane'[c].pc = "none"
            BY <1>0, <2>3 DEF LaneStops, LaneSweeps, LaneEnds, Forgets, NoLane
        <3> QED
            BY <1>2, <2>1, <3>1 DEF LaneRest
    <2>4. CASE LaneReturns(c) \/ LaneRetries(c)
        <3>1. lane[c].pc = "running" /\ lane'[c].pc \in {"top", "probed"}
            BY <1>0, <2>4 DEF LaneReturns, LaneRetries, NoLane
        <3> QED
            BY <1>2, <2>1, <3>1 DEF LaneRest
    <2>5. CASE LaneSnapshots(c)
        <3>1. lane[c].pc = "running" /\ lane'[c].pc = "snapped"
            BY <1>0, <2>5 DEF LaneSnapshots, LaneType
        <3> QED
            BY <1>2, <2>1, <3>1 DEF LaneRest
    <2>6. CASE LaneTerminates(c)
        <3>1. lane[c].pc = "snapped" /\ lane'[c].pc = "termed"
            BY <1>0, <2>6 DEF LaneTerminates, LaneType
        <3> QED
            BY <1>2, <2>1, <3>1 DEF LaneRest
    <2> QED
        BY <1>5, <2>2, <2>3, <2>4, <2>5, <2>6 DEF LaneStep
<1>6. ASSUME NEW e \in Evals, TreeRuns(e) \/ KillFleet(e) PROVE StopNears(c)
    BY <1>1, <1>6 DEF TreeRuns, KillFleet
<1> QED
    BY <1>1, <1>3, <1>4, <1>5, <1>6, OthersStay DEF Next

\* A campaign that was told to stop is five of its own steps from its exit at most,
\* whatever its evaluation does and whoever else runs on the host: the lane starts
\* no further evaluation, and neither waits nor comes back to an earlier phase of
\* stopping the one it has (_terminate_evaluator_process, the cancel event).
THEOREM ShortStopTheorem ==
  Spec => /\ [](\A c \in Campaigns : StopLeft(c) \in 1..5)
          /\ [][\A c \in Campaigns : Cancelled(c) /\ main'[c] # "down" => StopNears(c)]_vars
<1>1. HostTypeOK /\ [Next]_vars =>
         [\A c \in Campaigns : Cancelled(c) /\ main'[c] # "down" => StopNears(c)]_vars
    BY StepStops
<1> QED
    BY <1>1, InitTypes, StepTypes, StopLeftBounds, PTL DEF Spec
=============================================================================
