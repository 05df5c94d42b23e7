---------------------------- MODULE HostLanesProps ----------------------------
(***************************************************************************)
(* What the leases, the admission probes and the stopping of evaluations   *)
(* promise about one host.                                                 *)
(***************************************************************************)
EXTENDS HostLanes

\* Two policy servers are never alive together on the GPU, loading ones that no
\* probe can see included, unless a fault took one of them from its campaign.
Exclusive ==
    \A e, d \in Evals \ abandoned :
        e # d => ~(ServerLives(e) /\ ServerLives(d))

\* An evaluation lives under all the leases of the campaign that runs it, until
\* its last process is gone (HostResourceLeases, _run's closing of the leases).
UseIsLeased ==
    \A e \in Evals \ abandoned :
        FleetLives(e) \/ ServerLives(e) \/ tree[e].shards =>
            \E c \in Campaigns : lane[c].eval = e /\ Held(c) = Keys[c]

\* A fleet that ended by itself, and one that its lane stopped, however slowly it
\* stopped, leaves no server and no shard behind (_terminate_evaluator_process,
\* launch_gpu_fleet's cleanup).  A server forked between the lane's look at the
\* groups and its SIGTERM is not covered: it is among the abandoned.
StoppedMeansStopped ==
    \A e \in Evals \ abandoned :
        Leftover(e) => \E c \in Campaigns : lane[c].eval = e

\* Two campaigns that start together are never both refused because of each other.
NotBothRefused ==
    \A c, d \in Campaigns : <<c, d>> \in refusals => <<d, c>> \notin refusals

\* A lane launches an evaluation, also when it retries one, beside a resident
\* server only if that server came up after the probe that admitted its cell
\* (admit_lane_resources, the retries of run_cell_transaction).
NewcomersSee ==
    [][\A c \in Campaigns, d \in Evals :
         /\ lane[c].pc = "probed" /\ lane'[c].pc = "running"
         /\ tree[d].server = "resident"
         => <<c, d>> \in unseen]_vars

\* A campaign that was told to stop does stop, though its evaluation hangs.
StopEnds ==
    \A c \in Campaigns : main[c] \in {"shutting", "leaving"} ~> main[c] = "down"
================================================================================
