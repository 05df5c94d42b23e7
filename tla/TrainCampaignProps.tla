--------------------------- MODULE TrainCampaignProps ---------------------------
(***************************************************************************)
(* What the training campaign and its shared cache promise.                *)
(***************************************************************************)
EXTENDS TrainCampaign

\* The campaign's claim stands only over durable claims of every cell and
\* behind the result of the attempt that published it (run, verify_completion).
CompletionSound ==
    store.complete # 0 => Cells \subseteq store.done /\ store.complete \in store.results

\* Exit code zero means the campaign's claim stands, or a cell was put off for
\* lack of time and none of this attempt's cells failed.
ExitZeroEarned ==
    sup.exit = "zero" =>
        \/ store.complete # 0
        \/ AnyDeferred /\ \A c \in Cells : sup.status[c] # "failed"

\* The work tree of a cell outlives every process of the cell's group
\* (_wait_for_process_group_drain, ChildProcessGroupNotDrained).
WorkOutlivesGroup == \A c \in Cells : Alive(c) => c \in work

\* A cell trains, and its killed trainer drains, over complete artifacts,
\* whatever leftovers of other cells are still preparing.
UseIsExact ==
    \A c \in Cells : group[c].phase = "training" \/ c \in tails =>
        \A i \in DOMAIN Script : body[Script[i]] = "full"

\* A cell is turned away by a partial artifact only behind a preparer of another
\* cell that has begun and not ended, was killed, or failed when its work was in
\* place already or could not be undone (_prepare_directory, _install,
\* prepare_blob): a transfer that failed and cleaned up turns nobody away.
OnlyMishapsBlock ==
    [][\A c \in Cells, a \in Artifacts :
         prep'[c][a] = "blocked" /\ prep[c][a] # "blocked" =>
           \E d \in Cells \ {c} :
             prep[d][a] \in {"staging", "installing", "marking", "killed", "spoiled"}]_vars

\* A signal ends the attempt, also when it comes before the handle of the cell
\* that is being started is published, and though no cell ever ends by itself.
SignalEndsRun == sup.signal /\ sup.pc # "idle" ~> sup.pc = "idle"
================================================================================
