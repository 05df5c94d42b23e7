----------------------------- MODULE EvaluatorTree -----------------------------
(***************************************************************************)
(* The process tree of one evaluation: the fleet supervisor                *)
(* (eval/launch_gpu_fleet.py) starts a policy server in a session of its   *)
(* own, then runs the sharded launcher in its own group and stops the      *)
(* server when it ends.  The campaign that started it cancels it from      *)
(* outside (_terminate_evaluator_process in eval/campaign.py).             *)
(***************************************************************************)
EXTENDS Integers, FiniteSets

CONSTANTS Evals         \* bound: the evaluations started on the host, by number

VARIABLES tree          \* per evaluation: its processes

Fleets == {"none", "starting", "forked", "waiting", "running", "cleaning", "gone"}
Servers == {"none", "loading", "resident", "dead"}
NoTree == [fleet |-> "none", server |-> "none", known |-> FALSE, shards |-> FALSE]

TreeInit == tree = [e \in Evals |-> NoTree]

TreeTypeOK ==
    tree \in [Evals -> [fleet : Fleets, server : Servers, known : BOOLEAN, shards : BOOLEAN]]

ServerLives(e) == tree[e].server \in {"loading", "resident"}
FleetLives(e) == tree[e].fleet \notin {"none", "gone"}
Leftover(e) == tree[e].fleet = "gone" /\ (ServerLives(e) \/ tree[e].shards)

Spawn(e) == tree' = [tree EXCEPT ![e].fleet = "starting"]

\* The server is forked first and remembered after.
FleetForks(e) ==
    /\ tree[e].fleet = "starting"
    /\ tree' = [tree EXCEPT ![e].fleet = "forked", ![e].server = "loading"]

FleetRemembers(e) ==
    /\ tree[e].fleet = "forked"
    /\ tree' = [tree EXCEPT ![e].fleet = "waiting", ![e].known = TRUE]

ServerComesUp(e) ==
    /\ tree[e].server = "loading"
    /\ \E state \in {"resident", "dead"} : tree' = [tree EXCEPT ![e].server = state]

\* /config answers: the launcher starts its shards.
FleetLaunches(e) ==
    /\ tree[e].fleet = "waiting" /\ tree[e].server = "resident"
    /\ tree' = [tree EXCEPT ![e].fleet = "running", ![e].shards = TRUE]

\* The server died or was not ready in time.
FleetGivesUp(e) ==
    /\ tree[e].fleet = "waiting" /\ tree[e].server # "resident"
    /\ tree' = [tree EXCEPT ![e].fleet = "cleaning"]

\* The launcher waits for its shards, or terminates them when one failed.
LauncherEnds(e) ==
    /\ tree[e].fleet = "running"
    /\ tree' = [tree EXCEPT ![e].fleet = "cleaning", ![e].shards = FALSE]

\* (mutant) The fleet leaves without stopping its server.
FleetLeaves(e) ==
    /\ tree[e].fleet = "cleaning"
    /\ tree' = [tree EXCEPT ![e].fleet = "gone"]

\* The remembered server's group gets SIGTERM, and SIGKILL after 30 seconds.
FleetCleans(e) ==
    /\ tree[e].fleet = "cleaning"
    /\ tree' = [tree EXCEPT ![e].fleet = "gone",
                            ![e].server = IF tree[e].known THEN "dead" ELSE @]

TreeStep(e) ==
    \/ FleetForks(e)
    \/ FleetRemembers(e)
    \/ ServerComesUp(e)
    \/ FleetLaunches(e)
    \/ FleetGivesUp(e)
    \/ LauncherEnds(e)
    \/ FleetCleans(e)

----------------------------------------------------------------------------
\* SIGTERM to the fleet's group: the launcher and its shards end; the fleet,
\* once it has its handler, goes to its cleanup with what it remembers, and a
\* cleanup that is interrupted may or may not have stopped the server.
Terminated(e) ==
    \/ /\ ~FleetLives(e)
       /\ UNCHANGED tree
    \/ /\ tree[e].fleet = "starting"
       /\ tree' = [tree EXCEPT ![e].fleet = "gone"]
    \/ /\ tree[e].fleet \in {"forked", "waiting", "running"}
       /\ tree' = [tree EXCEPT ![e].fleet = "cleaning", ![e].shards = FALSE]
    \/ /\ tree[e].fleet = "cleaning"
       /\ \E state \in {tree[e].server, "dead"} :
             tree' = [tree EXCEPT ![e].fleet = "gone", ![e].server = state]

\* SIGKILL to the fleet's group, and to the server's group if it is known.
Swept(e, withServer) ==
    tree' = [tree EXCEPT
        ![e].fleet = "gone",
        ![e].shards = FALSE,
        ![e].server = IF withServer /\ ServerLives(e) THEN "dead" ELSE @]

\* The fleet alone is killed; what it started lives on.
FleetKilled(e) ==
    /\ FleetLives(e)
    /\ tree' = [tree EXCEPT ![e].fleet = "gone"]
================================================================================
