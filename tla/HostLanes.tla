------------------------------ MODULE HostLanes ------------------------------
(***************************************************************************)
(* Parallel campaigns on one host (eval/parallel_campaign.py): each takes  *)
(* advisory locks on its GPUs and ports, probes them under the locks, and  *)
(* runs evaluations (EvaluatorTree) until it is done or told to stop.  The *)
(* main thread holds the locks; the lane's worker thread runs and cancels  *)
(* the evaluations.  All campaigns here want the same GPU.                 *)
(***************************************************************************)
EXTENDS EvaluatorTree

CONSTANTS
    Campaigns,
    Keys,           \* per campaign: the lock files it needs, as sorted
    NoEval,         \* a lane without an evaluation
    MaxStarts,      \* bound: campaign processes started
    MaxTerms,       \* bound: SIGTERMs sent
    MaxKills        \* bound: SIGKILLs of a campaign or of a fleet

ASSUME HostAssumption ==
    /\ Keys \in [Campaigns -> SUBSET Nat] /\ Evals \subseteq Nat /\ NoEval \notin Evals
    /\ \A c, d \in Campaigns : Keys[c] \intersect Keys[d] # {}
    /\ MaxStarts \in Nat /\ MaxTerms \in Nat /\ MaxKills \in Nat

VARIABLES
    main,           \* per campaign: the main thread
    lane,           \* per campaign: the worker thread and its evaluation
    locks,          \* <<campaign, key>>: the locks held
    refusals,       \* <<campaign, holder>>: who was refused because of whom
    abandoned,      \* evaluations that a fault took from their campaign
    unseen,         \* <<campaign, evaluation>>: the server came up after the probe
                    \* that the campaign's lane still goes by
    spent           \* starts, SIGTERMs and SIGKILLs so far

hostVars == <<main, lane, locks, refusals, abandoned, unseen, spent>>
vars == <<tree, hostVars>>

NoLane == [pc |-> "none", eval |-> NoEval, snapshot |-> FALSE]

Init ==
    /\ TreeInit
    /\ main = [c \in Campaigns |-> "down"]
    /\ lane = [c \in Campaigns |-> NoLane]
    /\ locks = {} /\ refusals = {} /\ abandoned = {} /\ unseen = {}
    /\ spent = [starts |-> 0, terms |-> 0, kills |-> 0]

HostTypeOK ==
    /\ TreeTypeOK
    /\ main \in [Campaigns -> {"down", "locking", "refused", "probing", "running",
                               "shutting", "leaving"}]
    /\ lane \in [Campaigns -> [pc : {"none", "top", "probed", "running", "snapped", "termed"},
                               eval : Evals \union {NoEval}, snapshot : BOOLEAN]]
    /\ locks \subseteq Campaigns \X UNION {Keys[c] : c \in Campaigns}
    /\ refusals \subseteq Campaigns \X Campaigns
    /\ abandoned \subseteq Evals /\ unseen \subseteq Campaigns \X Evals
    /\ spent \in [starts : 0..MaxStarts, terms : 0..MaxTerms, kills : 0..MaxKills]

----------------------------------------------------------------------------
\* Leases and admission.
Held(c) == {k \in Keys[c] : <<c, k>> \in locks}
Release(c) == locks \ ({c} \X Keys[c])
HolderOf(k) == {d \in Campaigns : <<d, k>> \in locks}

\* nvidia-smi and the port probe see a server that has come up.
HostIdle == \A e \in Evals : tree[e].server # "resident"

Start(c) ==
    /\ main[c] = "down" /\ spent.starts < MaxStarts
    /\ spent' = [spent EXCEPT !.starts = @ + 1]
    /\ main' = [main EXCEPT ![c] = "locking"]
    /\ refusals' = {r \in refusals : c \notin {r[1], r[2]}}
    /\ UNCHANGED <<tree, lane, locks, abandoned, unseen>>

\* (mutant) The locks are taken in no particular order.
AnyKey(c) == Keys[c] \ Held(c)

\* The next lock in sorted order.
NextKey(c) == {k \in Keys[c] \ Held(c) : \A j \in Keys[c] \ Held(c) : k <= j}

Lock(c) ==
    /\ main[c] = "locking"
    /\ \E k \in NextKey(c) :
       IF HolderOf(k) = {}
       THEN /\ locks' = locks \union {<<c, k>>}
            /\ UNCHANGED <<main, refusals>>
       ELSE /\ main' = [main EXCEPT ![c] = "refused"]
            /\ refusals' = refusals \union ({c} \X HolderOf(k))
            /\ UNCHANGED locks
    /\ UNCHANGED <<tree, lane, abandoned, unseen, spent>>

AllLocked(c) ==
    /\ main[c] = "locking" /\ Held(c) = Keys[c]
    /\ main' = [main EXCEPT ![c] = "probing"]
    /\ UNCHANGED <<tree, lane, locks, refusals, abandoned, unseen, spent>>

\* Exit status 3: the locks taken so far are released.
Refused(c) ==
    /\ main[c] = "refused"
    /\ main' = [main EXCEPT ![c] = "down"]
    /\ locks' = Release(c)
    /\ UNCHANGED <<tree, lane, refusals, abandoned, unseen, spent>>

Admit(c) ==
    /\ main[c] = "probing"
    /\ IF HostIdle
       THEN /\ main' = [main EXCEPT ![c] = "running"]
            /\ lane' = [lane EXCEPT ![c] = [NoLane EXCEPT !.pc = "top"]]
       ELSE main' = [main EXCEPT ![c] = "refused"] /\ UNCHANGED lane
    /\ UNCHANGED <<tree, locks, refusals, abandoned, unseen, spent>>

----------------------------------------------------------------------------
\* The lane's worker thread.
Cancelled(c) == main[c] \in {"shutting", "leaving"}
LaneEnds(c) == lane' = [lane EXCEPT ![c] = NoLane]
Forgets(c) == unseen' = unseen \ ({c} \X Evals)

\* (mutant) Only the campaign as a whole is admitted.
LaneUnprobed(c) ==
    /\ lane[c].pc = "top" /\ ~Cancelled(c)
    /\ lane' = [lane EXCEPT ![c].pc = "probed"]
    /\ UNCHANGED <<tree, main, locks, refusals, abandoned, unseen, spent>>

\* Every cell is admitted anew before it is staged.
LaneProbes(c) ==
    /\ lane[c].pc = "top" /\ ~Cancelled(c)
    /\ IF HostIdle THEN lane' = [lane EXCEPT ![c].pc = "probed"] ELSE LaneEnds(c)
    /\ UNCHANGED <<tree, main, locks, refusals, abandoned, unseen, spent>>

LaneSpawns(c) ==
    /\ lane[c].pc = "probed" /\ ~Cancelled(c)
    /\ \E e \in Evals :
       /\ tree[e].fleet = "none" /\ \A d \in Evals : d < e => tree[d].fleet # "none"
       /\ Spawn(e)
       /\ lane' = [lane EXCEPT ![c].pc = "running", ![c].eval = e]
    /\ UNCHANGED <<main, locks, refusals, abandoned, unseen, spent>>

\* Out of cells, or ended before the launch: cancelled, past the lane's deadline,
\* or with an error.
LaneStops(c) ==
    /\ lane[c].pc \in {"top", "probed"}
    /\ LaneEnds(c) /\ Forgets(c)
    /\ UNCHANGED <<tree, main, locks, refusals, abandoned, spent>>

LaneReturns(c) ==
    /\ lane[c].pc = "running" /\ ~FleetLives(lane[c].eval)
    /\ lane' = [lane EXCEPT ![c] = [NoLane EXCEPT !.pc = "top"]]
    /\ Forgets(c)
    /\ UNCHANGED <<tree, main, locks, refusals, abandoned, spent>>

\* A transient failure is retried within the cell, on the cell's one probe.
LaneRetries(c) ==
    /\ lane[c].pc = "running" /\ ~FleetLives(lane[c].eval)
    /\ lane' = [lane EXCEPT ![c] = [NoLane EXCEPT !.pc = "probed"]]
    /\ UNCHANGED <<tree, main, locks, refusals, abandoned, unseen, spent>>

\* The process groups below the fleet, while they hang below it.
InSight(c) == FleetLives(lane[c].eval) /\ ServerLives(lane[c].eval)

\* (mutant) The groups are not noted before the signal is sent.
LaneForgets(c) ==
    /\ lane[c].pc = "running"
    /\ lane' = [lane EXCEPT ![c].pc = "snapped"]
    /\ Forgets(c)
    /\ UNCHANGED <<tree, main, locks, refusals, abandoned, spent>>

\* Cancelled, or past the lane's deadline.
LaneSnapshots(c) ==
    /\ lane[c].pc = "running"
    /\ lane' = [lane EXCEPT ![c].pc = "snapped", ![c].snapshot = InSight(c)]
    /\ Forgets(c)
    /\ UNCHANGED <<tree, main, locks, refusals, abandoned, spent>>

LaneTerminates(c) ==
    /\ lane[c].pc = "snapped"
    /\ Terminated(lane[c].eval)
    /\ lane' = [lane EXCEPT ![c].pc = "termed"]
    /\ UNCHANGED <<main, locks, refusals, abandoned, unseen, spent>>

\* (mutant) The lane waits for the fleet however long it takes.
LaneWaits(c) ==
    /\ lane[c].pc = "termed" /\ ~FleetLives(lane[c].eval)
    /\ Swept(lane[c].eval, lane[c].snapshot)
    /\ LaneEnds(c)
    /\ UNCHANGED <<main, locks, refusals, abandoned, unseen, spent>>

\* The fleet has exited, or 60 seconds have passed and the groups are noted again.
LaneSweeps(c) ==
    /\ lane[c].pc = "termed"
    /\ Swept(lane[c].eval, lane[c].snapshot \/ InSight(c))
    /\ LaneEnds(c)
    /\ UNCHANGED <<main, locks, refusals, abandoned, unseen, spent>>

LaneStep(c) ==
    \/ LaneProbes(c)
    \/ LaneSpawns(c)
    \/ LaneStops(c)
    \/ LaneReturns(c)
    \/ LaneRetries(c)
    \/ LaneSnapshots(c)
    \/ LaneTerminates(c)
    \/ LaneSweeps(c)

----------------------------------------------------------------------------
\* (mutant) The locks go while the lane still stops its evaluation.
CloseEarly(c) ==
    /\ main[c] \in {"running", "shutting"}
    /\ main[c] = "running" => lane[c].pc = "none"
    /\ main' = [main EXCEPT ![c] = IF lane[c].pc = "none" THEN "down" ELSE "leaving"]
    /\ locks' = Release(c)
    /\ UNCHANGED <<tree, lane, refusals, abandoned, unseen, spent>>

\* The lane has ended: the locks are closed and the process exits.
Close(c) ==
    /\ main[c] \in {"running", "shutting"} /\ lane[c].pc = "none"
    /\ main' = [main EXCEPT ![c] = "down"]
    /\ locks' = Release(c)
    /\ UNCHANGED <<tree, lane, refusals, abandoned, unseen, spent>>

\* At exit the interpreter joins its worker threads.
Leave(c) ==
    /\ main[c] = "leaving" /\ lane[c].pc = "none"
    /\ main' = [main EXCEPT ![c] = "down"]
    /\ UNCHANGED <<tree, lane, locks, refusals, abandoned, unseen, spent>>

Owned(c) == {e \in Evals : lane[c].eval = e}

\* SIGTERM raises in the main thread: before the lanes run it unwinds at once,
\* then it sets the cancel event and waits, and a second one ends that wait.
Term(c) ==
    /\ main[c] \notin {"down", "leaving"} /\ spent.terms < MaxTerms
    /\ spent' = [spent EXCEPT !.terms = @ + 1]
    /\ \/ /\ main[c] = "running"
          /\ main' = [main EXCEPT ![c] = "shutting"]
          /\ UNCHANGED <<locks, abandoned>>
       \/ /\ main[c] = "shutting"
          /\ main' = [main EXCEPT ![c] = "leaving"]
          /\ locks' = Release(c)
          /\ abandoned' = abandoned \union Owned(c)
       \/ /\ main[c] \in {"locking", "refused", "probing"}
          /\ main' = [main EXCEPT ![c] = "down"]
          /\ locks' = Release(c)
          /\ UNCHANGED abandoned
    /\ UNCHANGED <<tree, lane, refusals, unseen>>

\* SIGKILL: the kernel drops the locks, the evaluation lives on.
Kill(c) ==
    /\ main[c] # "down" /\ spent.kills < MaxKills
    /\ spent' = [spent EXCEPT !.kills = @ + 1]
    /\ main' = [main EXCEPT ![c] = "down"]
    /\ LaneEnds(c) /\ Forgets(c)
    /\ locks' = Release(c)
    /\ abandoned' = abandoned \union Owned(c)
    /\ UNCHANGED <<tree, refusals>>

KillFleet(e) ==
    /\ spent.kills < MaxKills
    /\ spent' = [spent EXCEPT !.kills = @ + 1]
    /\ FleetKilled(e)
    /\ abandoned' = abandoned \union {e}
    /\ UNCHANGED <<main, lane, locks, refusals, unseen>>

MainStep(c) ==
    \/ Lock(c)
    \/ AllLocked(c)
    \/ Refused(c)
    \/ Admit(c)
    \/ Close(c)
    \/ Leave(c)

\* The evaluations run on their own; two blind spots of the campaigns are noted:
\* a server forked after its groups were, and one that comes up after a probe.
TreeRuns(e) ==
    /\ TreeStep(e)
    /\ abandoned' = IF FleetForks(e) /\ \E c \in Campaigns : e \in Owned(c) /\ lane[c].pc = "snapped"
                    THEN abandoned \union {e} ELSE abandoned
    /\ unseen' = IF ServerComesUp(e)
                 THEN unseen \union ({c \in Campaigns : lane[c].pc \in {"probed", "running"}} \X {e})
                 ELSE unseen
    /\ UNCHANGED <<main, lane, locks, refusals, spent>>

Next ==
    \/ \E c \in Campaigns :
          Start(c) \/ MainStep(c) \/ LaneStep(c) \/ Term(c) \/ Kill(c)
    \/ \E e \in Evals : TreeRuns(e) \/ KillFleet(e)

Spec == Init /\ [][Next]_vars

\* A cancelled lane's way out.
LaneHalts(c) ==
    /\ Cancelled(c)
    /\ LaneStops(c) \/ LaneSnapshots(c) \/ LaneTerminates(c) \/ LaneSweeps(c)

\* The campaigns' own threads run on, with no deadline expected to help; nothing
\* is assumed of the evaluations.
FairSpec == Spec /\ \A c \in Campaigns : WF_vars(MainStep(c)) /\ WF_vars(LaneHalts(c))
================================================================================
