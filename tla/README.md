# Verification of the evaluation and training campaigns

This directory holds a TLA+ development of the control logic in this repository: the programs that
run long queues of robot-policy evaluations and trainings on machines that can be preempted, and
that must never lose, duplicate or contradict a scientific result. Paths below are relative to the
repository; `C` is `src/robomme_integration/eval/campaign.py`, `P` is
`src/robomme_integration/eval/parallel_campaign.py`, `T` is
`src/robomme_integration/gpu/checkpoint_transport.py`.

## 1. The system

### Inventory

| Component | State it keeps | Operations | What is hard |
|---|---|---|---|
| Evaluation cell transaction (`C` `run_cell_transaction`, `Fixed50Artifacts`, `SubprocessEvaluator`) | attempt number, work tree, S3 evidence and claims | stage, evaluate, retry, audit, publish success, publish failure, clean up | errors while publishing; cancellation and deadline racing an evaluator; which errors may be claimed |
| Parallel campaign (`P` `ParallelCampaignRunner`) | cancel event, systemic cell, records and flags under one lock; claims in S3 | scan, admit, one worker thread per lane, drain, verdict, completion | threads; SIGTERM; SIGKILL and restart; stale scan |
| Sequential runner (`C` `CampaignRunner.run`) | records; claims in S3 | per-cell skip, halt, evaluate; completion | restart; order in which claims are read; a put that outlives its killed runner |
| Evaluation S3 client (`C` `AwsCliStore`) | none | create-once put with read-back, read, tree copy | a put that stores and still fails; a put subprocess that outlives its parent |
| Host leases and GPU admission (`P` `acquire_host_resource_leases`, `admit_lane_resources`) | flock files of one host, what `nvidia-smi` and the port probe see | acquire in sorted order, probe, release | overlapping lock sets; release by SIGKILL, or by a second SIGTERM, while an evaluation still uses the GPU |
| GPU fleet launcher (`eval/launch_gpu_fleet.py`, `launch_sharded.py`) and its stopping (`C` `_terminate_evaluator_process`) | fleet, policy server, launcher and shards as process groups | fork, wait for readiness, launch, clean up; snapshot, SIGTERM, grace, sweep | a server exists before anybody remembers it; two processes clean up at once |
| Checkpoint transport (`T`) | S3 step generations and receipts, `LATEST.json`, local tree | watch, upload, prune, finalize, restore | every upload and delete is several calls; kill between any two |
| Resumable training supervisor (`gpu/run_resumable.py`) | trainer, watcher, received signal | restore, start, poll, final sync, finalize | early exit of a child; signals in the startup window |
| Training cell entry (`gpu_train_entry.sh`, `fleet/checkpoint.py`) | recipe prefix, attempt receipt, claim | deploy, publish, clean up | partial deployment |
| Training campaign (`campaign.py`) | attempt results, completion; the cell that runs, a received signal | per-cell skip, defer, evict, run, drain, record; the attempt's result, the campaign's claim | process groups that do not drain; a signal in the startup window; failure policy; node loss |
| Shared artifact store (`fleet/shared_artifacts.py`, the preparations in `gpu_train_entry.sh`) | directories, blobs, markers and staged leftovers on the node | reuse, stage, install, mark, evict | kill between move and marker; two cells on one artifact; eviction under a preparer |
| Batching servers (`vla_training/eval/pi_batch_gather.py`, `scripts/robocerebra/serve_batching.py`, `serve_groot_batched.py`) | request queue, futures, worker thread, closed event | infer, gather, dispatch, close | infer racing close; the worker and the closers drain one queue; chunks, padding and routing of rows |
| Omega serving (`scripts/robocerebra/serve_pi05_libero_wsm.py`, `eval_robocerebra_openpi.py`) | per environment: episode, step, window, encoder prefix | validate, reset, re-pin, encode, push, answer; split a malformed window | clients that die and start again; duplicated environments; errors between encoding and pushing |
| Launch, admission, watchers, local campaigns, deliberation scripts | job descriptions, files | submit, validate, poll | mostly validation and I/O |
| Networks, features, analysis | arrays | numerical code | not discrete control |

### How the parts interact

A *queue* is a sealed list of cells. A runner walks it; for each cell it calls the cell
transaction, which runs an evaluator subprocess and then publishes, through the S3 client, first an
evidence archive under its content address and then exactly one claim (a result or a failure) under
a key fixed by the queue. Claims are create-once (`If-None-Match: *`). All other state is lost when
a process dies, so a restarted runner rebuilds what it knows from the claims. The parallel runner
slices the queue over lanes (`cells[lane::lanes]`), hands a cancel event and a systemic callback to
every transaction, and decides the exit status and the completion claim when all lanes ended. The
training side has the same shape: a campaign runs cells, a cell restores the checkpoint that
`LATEST.json` names, trains, and a watcher process uploads generations while it trains. The three
processes share no memory: the watcher sees the trainer through the checkpoint directory, which
the trainer writes and prunes at the same time, and the supervisor sees both through their exit
codes. A later attempt sees the earlier ones through S3 and, on the same node, through what they
left in that directory. After a successful finalize the entry script deploys the sealed steps,
claims completion and drops the recovery state.

Around both stand the host and the node. Parallel campaigns of one host meet at lock files and at the
GPU: the main thread of a campaign holds the locks, its lanes run evaluations as trees of processes in
sessions of their own, and a campaign that dies leaves its tree behind. The cells of a training
campaign run one after the other on one node, share its artifact cache, and can leave processes behind
that still work in it. An evaluation of RoboCerebra is served by one process: client threads meet in the
gather, which forms batches, and the omega layer keeps one window per simulated environment.

### What makes it correct

* one claim per cell, in queue order within a lane, nothing after a terminal failure;
* one systemic claim per campaign however many lanes fail at once;
* evidence is durable before the claim that names it;
* a completion claim exists only over results, and every later run accepts it;
* the exit status agrees with the store;
* every run ends, whatever its lanes meet;
* the step that `LATEST.json` names is whole and agrees with its receipt whenever a node can be lost,
  and never goes back;
* a required milestone, once passed, stays on S3 until it is deployed;
* a deploy receipt stands over the whole tree of the training it names, and completion is claimed
  only over such receipts;
* a retry can always restore, and can always finish sealing what an earlier attempt began;
* two policy servers never share the GPU, an evaluation lives under its leases, and what was stopped
  leaves nothing behind;
* a campaign's claim and its exit status 0 are earned by durable claims of its cells, and no work tree
  or artifact goes while a process uses it;
* a client gets its own row, or an exception, and gets it although batches are formed, split, padded
  and drained by several threads; gathering changes no answer.

## 2. Modules

| Module | Models | State and actions against the code |
|---|---|---|
| `CellTransaction` | `run_cell_transaction`, publication, puts | `tx[l]` is the local state of the call made by lane `l`; `results`, `failures`, `archives` are the S3 objects; `cancel` and `systemicCell` are the arguments the parallel runner passes. One action per blocking step or branch. |
| `ParallelCampaign` | `ParallelCampaignRunner` | `sup` is the main thread, `lane`, `todo`, `record`, `flags` what the worker threads share under the lock, `resume` the scan, `clock` the three-valued run budget, `inflight` the puts of killed supervisors. `LaneStep` is one iteration step of `_lane_worker`, `MainStep` what follows `as_completed`. |
| `SequentialCampaign` | `CampaignRunner.run` | the loop index, the exit status and the same transaction with `Parallel = FALSE`; `inflight` are the claim puts of killed runs and `late` (history) the cells whose claim such a put stored. |
| `ClaimLedger` | the promise | a ledger of open, result, failure and systemic cells, and a closed flag. |
| `ParallelCampaignProps` | the properties of the parallel campaign, and its refinement mapping to the ledger. | |
| `CellTransactionProofs` | lemmas about one step of a transaction: its types, its frame, what it may store or signal. | Both runners' proofs cite them. |
| `ParallelCampaignProofs`, `SequentialCampaignProofs` | theorems and proofs. | |
| `CheckpointTransport` | `T`: `S3Transport`, `CheckpointWatcher`, `main` | `local` is the checkpoint directory, `remote`, `receipt`, `latest` are the S3 run root, `watcher` is the transport process: its mode (`--watch`, one pass after SIGTERM or `--once`, `--finalize-success`), its place in `sync_once` or `finalize_success`, and their local variables. One action per S3 call. |
| `TrainingCell` | `gpu/run_resumable.py`, the deployment in `gpu_train_entry.sh` | `sup` is the phase of the attempt from restore to clean-up, `trainer` the OpenPI process, `training` the attempt's number, `todo` the steps still to deploy, `deploy` and `deployed` the deploy trees and their receipts, `claimed` the completion claim. `Start`, `Dies` and `Ends` are the attempt boundaries. |
| `RecoveryRegister` | the promise of a training cell | a resume point that only advances, sealed once and from the final step, forgotten only after that. |
| `TrainingCellProps` | the properties of the training cell, and its refinement mapping to the register. | |
| `TrainingCellProofs` | theorems and proofs. | |
| `EvaluatorTree` | `launch_gpu_fleet.py`, `launch_sharded.py`, the stopping in `C` | `tree[e]`: where the fleet of evaluation `e` is, whether its server loads, is resident or dead, whether the fleet remembers it, whether shards run. The actions are the fleet's own steps and what is done to it from outside: SIGTERM, the sweep, a SIGKILL. |
| `HostLanes` | leases, admission, one lane of each campaign on one host | `main[c]` is the main thread, `lane[c]` the worker thread and the evaluation it runs, `locks` the flocks. `refusals`, `abandoned` and `unseen` are history: who was refused because of whom, which evaluation a named fault took from its campaign, which server came up behind the probe that a lane goes by. `LaneRetries` is the retry inside a cell, which probes no more; `LaneStops`, `LaneSnapshots` and what follows are the ways out by a cancel, a deadline or an error. |
| `HostLanesProps`, `HostLanesProofs`, `MCHostLanes` | properties; theorems; the lock sets of the checked instance. | |
| `SharedArtifacts` | `fleet/shared_artifacts.py` and its callers | `body[a]` is what is at an artifact's place, `mark` the markers, `temps` what is staged, `prep[c][a]` the preparation of artifact `a` by the group of cell `c`. One action per step that a kill can separate from the next. A preparation that ends without success is `failed` when it has undone its work and `spoiled` when it has not (a marker that cannot be written or verified, a blob that cannot be hashed or renamed, the environment). |
| `TrainCampaign` | `campaign.py` `CampaignRunner`, the control of `gpu_train_entry.sh` | `sup` is the supervisor, `group[c]` the entry script of cell `c`, `tails` the trainers that drain after it was killed, `work` the work trees, `store` the durable claims. |
| `TrainCampaignProps`, `TrainCampaignProofs`, `MCTrainCampaign` | properties; theorems; the artifacts and the order of the checked instance. | |
| `BatchGather` | `pi_batch_gather.py`, `infer_batch` of `serve_batching.py` | `call[c]` is a caller thread and its future, `queue` the `SimpleQueue`, `worker` and `closer[k]` the threads. `Rows` is the chunking, padding and cutting of a batch. |
| `BatchGatherProofs` | theorems and proofs. | |
| `OmegaServing` | the omega layer of `serve_pi05_libero_wsm.py` behind the gather, and its clients | `slots[e]` is `_states` and the encoder's prefix of environment `e`, `runner[r]` a client, `reoffer` the rest of a window that is served one by one. |
| `OmegaServingProofs`, `MCOmegaServing` | theorems; the runners, environments and plans of the checked instance. | |

`ParallelCampaign` and `SequentialCampaign` both EXTEND `CellTransaction`: the code shares it too.
`TrainingCell` EXTENDS `CheckpointTransport`: the supervisor starts it as a process. `HostLanes` EXTENDS
`EvaluatorTree`, and `TrainCampaign` EXTENDS `SharedArtifacts`, in the same way: the inner module has the
steps of the processes that run by themselves, the outer one starts, stops and outlives them.

Abstractions of the evaluation side. A failure class keeps what the code branches on: `transient` is any retryable class,
`unclassified` any other terminal class, and the two systemic classes stay apart because the outer
handler's own failure (`control_plane_or_identity`) is treated differently from a failed audit. An
archive is its cell and class: its address is its content, so two archives of one claim are the
same object, and an archive that nothing names is forgotten when a run ends. A SIGKILL is possible
in every state; an exception is possible wherever the code calls S3, the file system or a
subprocess. The clock has three values because the code compares the budget twice: before a cell
(enough for a cell?) and while an evaluator runs (deadline passed?). Local state files and receipts
are written and never read by a decision, so they are left out.

Abstractions of the training side. A step is the ordinal of a save, not its optimizer step. A tree is
two kinds of object, Orbax's completion marker and the data, each with the number of the training
that wrote it: what `tree_summary` compares (names and sizes of every file, bytes of the marker only)
is then expressible, and so is a tree whose parts come from different trainings. The watcher is the
only writer of the run root, so a call of it is one step; a call that is cut short leaves any part of
its work (`Cut`). The processes of an attempt that ended are gone: the node is lost, or the supervisor
has killed the process group. The retry loop of `S3Transport.run` is inside a call. The local state
file of the watcher is a cache that a decision never needs (the remote listing decides), the size and
time rule by which `aws s3 sync` skips a file is left out, and a campaign starts no attempt of a cell
that is claimed, as `campaign.py` does.

Abstractions of the host. All campaigns want one GPU, so the lock sets intersect pairwise; that is
what makes exclusion a question. A probe is one step, as the code takes one snapshot. A campaign has one
lane with one evaluation at a time, and evaluations are numbered in the order they start. Four things
the code does not protect are faults that the history variable `abandoned` names: SIGKILL of a
campaign, of a fleet, a second SIGTERM while the main thread waits for its lanes, and a server forked
between the lane's look at the process groups and its SIGTERM. A lane probes once for a cell; a transient failure is
retried on that probe, as `run_cell_transaction` does, and its deadline can end an evaluation at any
time. The properties say that nothing else goes wrong.

Abstractions of the training campaign. A content hash is a complete or a partial body. A directory is
staged beside its place, moved, then marked; a blob is staged under a name of its own and renamed; the
OpenPI environment is extracted in place. The training itself is one step with four outcomes: it
published or not and exited 0 or not, for `TrainingCell` is about what happens inside. `MaxMishaps`
bounds the faults (kills of a preparer, store errors, evictions, a lost node), each of which can come at any
step; signals are bounded by one per attempt. An attempt starts on an empty node.

Abstractions of the serving side. A row of a batch is the request it answers: whether it was routed
right is then visible. A frame is its client, life, episode and step, so that a window shows whose
frames it has and in what order. The gather in front of the omega layer is a FIFO there (`queue`), its
threads are the subject of `BatchGather`. Steps count requests (one per replan). The capacity of the
encoder (`MaxT`) is left out. A re-pin of the simulator comes at the requests in `Boundaries`.

Operators whose comment starts with `(mutant)` are wrong variants of the definition that follows
them; no module uses them. Replacing the definition by the variant must violate the property that
`PROJECT.json` pairs it with, which shows that the property depends on that line of the code.

## 3. What is model-checked

| Run | Bounds | Question |
|---|---|---|
| `MCParallelClaims` | 4 cells, 2 lanes, 2 attempts, honest puts | claims are exclusive, exit 0 is honest, and the campaign implements `ClaimLedger` |
| `MCParallelAmbiguous` | 3 cells, 2 lanes, 2 attempts, ambiguous puts, fairness | types, one systemic claim, lane order, no completion over a failure, only the owner publishes after a cancel, a known systemic failure halts the queue, every run ends |
| `MCParallelOrphans` | 2 cells, 2 lanes, ambiguous puts, one orphan put | evidence behind every claim; a completion is accepted by later runs |
| `MCParallelBothClaims` | 2 cells, ambiguous puts | **violated**: a cell with both claims (finding 1) |
| `MCSequential` | 4 cells, 3 attempts, honest puts, one orphan put, fairness | the claims are a prefix but for late ones, honest exit status, the ledger until a claim comes late, termination |
| `MCTrainingCell` | recipe path, 3 saves, a required milestone, 3 attempts; `Prompt`, `WholeDeletes`, `LocalSurvives`, `ReadsFail` | types, `LATEST.json` names a whole step that agrees with its receipt, required milestones stay on S3, deploy receipts stand over whole trees, a retry can seal |
| `MCTrainingSlow` | single-task path, 2 saves, 3 attempts, fairness; nothing assumed of the environment | the cell implements `RecoveryRegister`; every attempt ends, whichever process dies |
| `MCTrainingCollides` | 2 saves, 3 attempts, single-task path | **violated**: every retry collides with the deploy receipt (finding 2) |
| `MCHostLanes` | 2 campaigns, 3 evaluations, 2 starts, 2 SIGTERMs, 2 SIGKILLs, fairness | two servers never share the GPU, an evaluation lives under its leases, what was stopped leaves nothing, nobody is refused in a circle, no launch or retry meets a server that its probe could have seen, stopping ends |
| `MCTrainCampaign` | 2 cells, a directory, a blob and the environment, 3 attempts, 3 mishaps, policy `continue`, fairness | the campaign's claim and exit 0 are earned, work trees outlive their processes, training stands on complete artifacts, only an unfinished, killed or spoiled preparation turns a cell away, a signal ends the attempt |
| `MCBatchGather` | 3 callers with 2 calls each, 2 closers, windows of 3, chunks of 2, fairness | everyone gets its own row, a request is in one place until settled, whoever waits while the gather is open is answered |
| `MCOmegaServing` | 3 runners with 2 lives, 2 environments, 3 episodes of 6 requests with a re-pin, window 2, stride 2, 1 mishap | gathering is invisible, one slot per episode, only a runner's own conflicts refuse it |

Why the bounds are enough. Two lanes are what an interleaving of the systemic callback needs: a
third lane meets the same lock. Four cells give each lane a successor, so lane order and "nothing
after a failure" can be violated; in the sequential run they are a skipped cell, one with a late claim, its
successor and one that must not be reached. Two attempts contain both sides of the retry limit. One orphan put
can land before, between or after the steps of a later run. Restarts are unbounded in every run.
For a training cell three saves are a milestone, a step that is pruned and the final step; three
attempts are one that is killed with something half done, one that goes on and seals, and a retry
that meets what both left. `MaxTrainings` bounds the attempts and nothing else. The theorems below
remove the bounds altogether for the properties they name.

On the host two campaigns are what a refusal, a race of probes and an abandoned server take; the third
evaluation is a retry, or the next cell. Two starts are two rival campaigns, or one that is killed and started
again beside its own orphan. A rival and a restart together would be a third start, which with three evaluations
is beyond a run of minutes; the theorems of section 4 have no such bound. Two training cells are one that leaves something behind and one that
finds it; the third attempt sees claims of two earlier ones. For the gather the third caller makes a
second chunk in one window, and two closers are needed for two threads that drain beside the worker; one bucket of 2 makes both a full and a padded
chunk. For omega two runners share an environment by mistake, two plan a common episode, five steps
pass the stride three times, and the re-pin after the first request empties a window that is not empty.

The environment of a training cell. Four constants say what is assumed of it, so that each property
is checked under no more than it needs, and each finding shows the assumption the code lacks.
`Prompt`: an upload ends before the trainer saves again; nothing in the code enforces it.
`WholeDeletes`: a recursive delete that is cut short took all of a step or nothing; S3 deletes object
by object, so this is an assumption and not a fact. `LocalSurvives`: an attempt may find the
checkpoint directory of the one before (the same node retries) and not only an empty one.
`ReadsFail`: the read of a deploy receipt may fail although the receipt is there.

Two kinds of put. With `AmbiguousPuts = FALSE` a put that raises stored nothing. With `TRUE` it may
have stored its object: the request succeeded and the response or the read-back was lost. `MaxOrphans`
bounds the puts whose supervisor was killed (`AwsCliStore._run` starts a session of its own) and that
land later; both runners have them. An orphan is a put of a cell's claim: one of an archive stores bytes
that nothing names yet. A manifest or completion put that lands late is left out: the killed run was entitled
to it, and a run that starts before it lands finds the same cells, claimed as they are, and makes the same put.

Fairness. `FairSpec` assumes weak fairness of the main thread's step and of each lane's step: they
are OS threads, no lock is held across a blocking call, S3 calls return or raise after a bounded
number of retries, and an evaluator either ends or is killed by its lane when the cancel event or
the deadline is polled. Nothing is assumed of signals, crashes, restarts, the clock or the landing
of an orphan. For the sequential runner fairness of `RunStep` says that S3 calls return and that the
evaluator, which bounds its episodes, ends. For the training cell it is weak fairness of the
supervisor's step, of the watcher's work and of the trainer's step: three operating system processes,
bounded retries in `S3Transport.run`, and a finite number of training steps. Nothing is assumed of
kills or of starting an attempt; the watcher may die at any time without the supervisor. On the host
only the campaigns' own threads are fair, and of a lane only its way out once it is cancelled (`LaneHalts`); no
deadline is expected to help, and an evaluation may hang, since that is what stopping is for. In the training campaign only the supervisor is fair: a cell may
run for ever, and a signal ends it. In the gather every thread that has something to do runs and
`infer_batch` returns or raises; nobody has to call or close. The omega run has no liveness.

Deadlock is checked for the evaluation side, where a supervisor can always be started again. It is
not for the other runs (`CHECK_DEADLOCK FALSE`): no attempt of a training cell follows a completion
claim, or the last of `MaxTrainings`; campaigns, evaluations, calls and lives are bounded, and when they
are spent and everything is at rest the system has nothing left to do.

### Findings

1. *Both claims for one cell* (`MCParallelBothClaims`). When the result put of `publish_success` stores
   its object but raises (lost response and failed read-back), the outer handler of
   `run_cell_transaction` publishes a `control_plane_or_identity` failure for the same cell. The
   docstring promises one claim per cell. The parallel runner then refuses the queue on every restart.
2. *A deploy collision for ever* (`MCTrainingCollides`). `sync_once` takes any step with a receipt for
   uploaded and does not compare it with the local tree (`T`:329). An attempt killed between the
   receipt of the final step and the `LATEST.json` put leaves the step marked; the retry trains it
   again, points to the old generation, and seals the deploy receipt over its own. If it is killed
   before the claim, every later retry restores the old generation and ends in "immutable
   deploy-checkpoint collision", although `deploy_receipt_identity` says that a preempted retry may
   finish sealing.

### Counterexamples met while modelling

These are why some properties are stated as they are. Each can be had from a configuration above by
the change named; no run of its own is kept for them.

* *Past a failure* (`MCSequential` with `AmbiguousPuts = TRUE`: `ClaimsArePrefix` fails). From the state of
  finding 1 the sequential runner reads the result first, skips the cell and completes the queue,
  although `EVAL_CAMPAIGN.md` says that a terminal claim halts it again.
* *A late claim in the sequential queue* (`MCSequential` with `LedgerNext` required of every step: it fails). A
  runner is killed while its result put is under way, the next run evaluates the cell again and stores a
  failure, and then the put lands: the cell has both claims, the next run reads the result first and passes
  the failure. The other way round a late failure stands beside a result. So `ClaimsArePrefix` allows a
  second claim for a cell of `late` and nothing else, and `SeqImplementsLedger` holds up to the first late claim.
  The parallel runner refuses a queue with both claims, which is why its properties of order need no such
  exception but the hypothesis that there are no orphans.
* *A deferral over a failure* (`MCParallelClaims` with `AmbiguousPuts = TRUE`: `ExitZeroIsHonest` fails). A
  failure claim is stored, its put raises, and another lane's deadline cancels the campaign before the
  handler runs: exit 0 over a stored failure. The next run sees the claim and halts, so it is a late
  answer and not a lost one.
* *A killed restore is kept* (the training cell with `LocalSurvives`). `restore_latest` replaces a local
  tree only when Orbax's marker is missing (`T`:281). A restore killed after the marker arrived is
  refused by `tree_summary` on every retry on that node; the comment there says that starting from an
  empty generation keeps resume safe.
* *Overtaken by the next save* (`MCTrainingCell` with `Prompt = FALSE`: `PointerIsRestorable` fails). The
  receipt is computed before the sync, and Orbax (`max_to_keep=1`) removes the step once a newer one is
  saved; what is left is marked with the receipt of the whole, and the pointer names it until the next
  pass. The docstring of `T` says that "restore never selects an in-flight tree".
* *A receipt that could not be read* (`MCTrainingCollides` with `ReadsFail = TRUE`: `DeployIsSealed`
  fails). The entry script takes any failure of the read of `_DEPLOY_COMPLETE.json` for its absence and
  syncs over a sealed tree with `--delete`; the collision is noticed only when the receipt is put. The
  recipe path compares what it exports with the upload receipt and is safe from it.
* *A delete cut short* (`MCTrainingCell` with `WholeDeletes = FALSE`: `PointerIsRestorable` fails).
  `delete_step` is one recursive delete that does not take the receipt first, so it can leave the receipt
  over missing data; an attempt that trains this step again skips its upload and points to it.
* *Nobody at the queue* (`BatchGather` without the "while the gather is open" of `AnsweredIfOpen`).
  `close` joins the worker with a timeout and then drains the queue itself, so it can take the sentinel
  from a worker that is still in a batch, which then waits at the queue for ever; and a caller that saw
  the event clear can enqueue after the last drain and wait for ever. The docstring of `close` says that
  pending and unrouted requests get a `RuntimeError`.
* *A second SIGTERM* (`HostLanes`, the third disjunct of `Term` without `abandoned`: `UseIsLeased` fails).
  It is raised inside `executor.shutdown` (`P`:1040) and leaves the `with` block of the leases while lanes
  still drain. *A server between two looks*: one that is forked after the lane noted the groups and
  before the fleet remembers it survives both clean-ups (`C`:1749, `launch_gpu_fleet.py`:438). *A fleet killed
  alone* (by the kernel, for memory) leaves its server, which the lane does not sweep.
* *The claim of a later attempt* (`TrainCampaign`, `Complete`). The campaign's claim names the manifest of
  the attempt that made it. A later attempt that finds every cell complete puts other bytes under the same
  key, and raises over a campaign that is complete.
* *Leftovers that block* (`OnlyMishapsBlock` says by whom). A preparer killed between move and marker, one
  whose marker could not be written or verified (`_install` undoes nothing after `directory.replace`), a
  blob download killed, or failing to be hashed or renamed, with its `.incomplete-` file, and a failed build of
  the OpenPI environment make every later cell of the node stop at "requires manual diagnosis" until the
  cache is evicted. An orphan that did not drain can install a tree while the next cell stages it; the loser fails cleanly. Under
  `continue`, a cell that did not drain can still prepare when the next one evicts the cache, although the
  comment at `campaign.py`:476 says that no cell is live then; `UseIsExact` shows that nothing worse
  follows than a failed cell.
* *Errors after the push* (`OmegaServing`, `PolicyFails`). When the policy fails after the windows were
  pushed, the clients of the batch must die: a retry of the same request is refused by the step check. Two
  clients on one environment never share a window, as `_duplicated_env_ids` says, but in successive windows
  they interleave or refuse each other, which is why `OnlyConflictsReject` excepts them. A client that
  ended keeps its slot, and its episode id, until another client of that environment resets it.
* *One environment and one episode* (`MCOmegaServing` with a plan that gives two runners of one environment the
  same episode: `BatchingIsInvisible` fails). The second runner's reset, in a later window, is taken for the first
  one's slot, for the episode is the same, and each goes on over the other's frames. With different episodes
  they can only refuse each other. `run_eval_sharded.sh`:71 gives each runner an environment of its own;
  `PlansApart` states what the property needs, and the checked instance assumes it.

## 4. What is proved

### The parallel campaign

`ParallelCampaignProofs` proves, for every `CellCount`, `LaneCount` and `MaxAttempts`:

| Theorem | Under | States |
|---|---|---|
| `TypeCorrect` | - | `Spec => []TypeOK` |
| `EvidenceTheorem` | - | `Spec => []EvidenceBacksClaims` |
| `CompletionTheorem` | - | `Spec => []CompletionReverifies` |
| `ExclusiveTheorem` | honest puts, no orphans | `Spec => []ExclusiveClaims` |
| `OneSystemicTheorem` | no orphans | `Spec => []OneSystemicClaim` |
| `HaltTheorem` | no orphans | `Spec => KnownSystemicHaltsQueue` |
| `LaneOrderTheorem` | no orphans | `Spec => []LaneOrder` |
| `NoFailureTheorem` | no orphans | `Spec => []NoCompletionOverFailure` |
| `ExitZeroTheorem` | honest puts, no orphans | `Spec => []ExitZeroIsHonest` |
| `LedgerTheorem` | honest puts, no orphans | `Spec => ImplementsLedger` |
| `OwnerTheorem` | - | `Spec => OnlyTheOwnerPublishesAfterCancel` |
| `ShortParallelTheorem` | - | every step of a run that does not end it satisfies `ParallelNears` |

The assumptions are the named ones of the modules (`CountsAssumption`, `ModesAssumption`,
`OrphanAssumption`, `ParallelAssumption`) and the hypotheses in the table. TLC evaluates the former
in every run.

The argument. None of the properties is inductive alone.

* `LaneShape` ties a lane to its transaction: a transaction of lane `l` is at a cell of `todo[l]`, only
  while the lane loops, and `todo[l]` stays within the lane's cells.
* `EvidenceInv` adds the claims that are on their way, in a transaction at `claiming` or in
  `inflight`: each has its archive already.
* `RecordInv` says what a record means: `complete` is recorded only over a stored result, and while
  a supervisor runs the manifest is stored. A completion claim then re-verifies.
* `FreshInv` says that what the scan saw is still so: a cell scanned as open and not yet left by its
  lane has no claim except the one its own transaction put. It needs the absence of orphans.
* `SystemicInv` says that a systemic claim in the store, or on its way, belongs to the cell that owns
  `systemicCell` (or is known to the scan), so a second owner cannot appear.
* `HaltInv` says that after a scan that saw a systemic failure the cancel event stays set and every
  transaction stays off.
* `OrderInv` says that a lane has clean cells (a result, no failure) behind it and unclaimed ones ahead,
  apart from those the scan saw claimed and its own transaction's, and that a completion claim stands over clean cells only. It holds with
  ambiguous puts too: the handler that meets the wrong error stops the lane.
* `AccountInv` says where every stored failure is in a run that nobody stopped for the whole queue (no
  systemic cell, no resource or disk flag, not draining): its lane has recorded it, has still to come to
  it, is at it, or has raised. It also says that such a run is cancelled only for the deadline, and that
  once the clock is short no lane has a claimed cell ahead. A run that ends `deferred` has joined lanes and
  no failed record, so nothing is left to account for.

The refinement needs no invariant of its own. A step that stores a claim stores it for the unclaimed
cell of a transaction (`FreshInv`), first of the cells its lane has left (`OrderInv`), and a systemic claim only
if there is none (`SystemicInv`): it is `ClaimResult`, `ClaimFailure` or `ClaimSystemic`. The put of the completion is
`Close`, over clean cells (`OrderInv`). Every other step stutters.

Each invariant is preserved action by action; the temporal step combines initialisation, preservation and
implication with PTL.

`ShortParallelTheorem` is the part of `RunEnds` that can be proved: a run cannot go on for ever. `TxLeft`
(in `CellTransactionProofs`) is how far a transaction is from its end: a retry uses up an attempt and an error is
published once, so `TxNearer` shows that every step of it, and the deadline, makes it smaller. `LaneLeft` adds
the lane's own phases. A step of a lane lowers it or leaves a cell of `todo` behind, and no step sets
another lane back; what else can happen (the cancel, two limits of the budget, the end of an orphaned put)
happens once each, or once per put.

### The sequential runner

`SequentialCampaignProofs` proves, for every `CellCount`, `MaxAttempts` and `MaxOrphans`:

| Theorem | Under | States |
|---|---|---|
| `SeqTypeTheorem` | - | `Spec => []SeqTypeOK` |
| `ExitTheorem` | - | `Spec => []ExitMatchesStore` |
| `PrefixTheorem` | honest puts, any `MaxOrphans` | `Spec => []ClaimsArePrefix` |
| `LedgerTheorem` | honest puts, any `MaxOrphans` | `Spec => SeqImplementsLedger`, the ledger until the first late claim |
| `ShortRunTheorem` | - | every step of a run that does not end it satisfies `NearsEnd` |

`TypeInv` adds to the types that the one open transaction is on the cell of the loop. `LoopInv` says that every
cell before that one has its result, that the same holds of the cell of a put left by a killed run, and that a
transaction that ended has its claim. The first and the last give the exit status; the second keeps a late claim
from opening a gap. `ClaimInv` adds that a cell holds two claims only if one came late, and that an open
transaction has none before its own put, with the same exception, which gives the order and the refinement.
`ShortRunTheorem` bounds a run by `(CellCount + 1) * (11 + MaxAttempts)` steps of its own: each goes on to the
next cell or lowers `Left`, which is `TxLeft` of the open transaction; what else can happen ends a pending put.

### The training cell

`TrainingCellProofs` proves, for every `FinalStep`, `Milestones`, `Success` and `MaxTrainings`:

| Theorem | Under | States |
|---|---|---|
| `CellTypeTheorem` | - | `Spec => []CellTypeOK` |
| `RegisterTheorem` | - | `Spec => ImplementsRegister` |
| `SealedTheorem` | `~ReadsFail` | `Spec => []DeployIsSealed` |
| `PointerTheorem` | `Prompt`, `WholeDeletes` | `Spec => []PointerIsRestorable` |
| `MilestoneTheorem` | `Prompt`, `WholeDeletes` | `Spec => []MilestonesSurvive` |
| `RetryTheorem` | `Prompt`, `WholeDeletes`, `Success /= {}` | `Spec => []RetryCanSeal` |
| `ResealTheorem` | `Prompt`, `WholeDeletes`, `Success /= {}` | `Spec => []DeployIsSealed` |

The assumptions are `StepsAssumption`, `MilestonesAssumption`, `DeletesAssumption` and
`EnvironmentAssumption`. The hypotheses in the table are needed: the counterexamples
above break the theorems without them. The argument:

* `PhaseInv` says which processes exist in each phase of the attempt: no watcher before the restore
  ended, a finished one while the entry deploys, `last` mode only during finalize.
* `PointInv` says that a running attempt holds locally a complete step as far as `latest` or further
  (the restored step is one, and the trainer removes only what has a newer one), that the step the
  watcher is about to name is not older than `latest`, and that `latest` is the final step when
  finalize ends. With `PhaseInv` it gives the refinement: `Point` is an `Advance` or a stutter, `Claim`
  a `Seal`, `Clean` a `Forget` or a stutter.
* `SealInv` says that at `seal` the step being sealed has been copied whole from its source, and that the steps
  the attempt is through with are sealed. It is kept when an attempt that syncs has the training that is sealed
  already, if one is (`SealsAlike`): because an entry that can read a receipt syncs only without one
  (`SealedTheorem`), or because of `AgreeInv` (`ResealTheorem`).
* `UploadInv` says that every receipt stands over a whole remote tree that agrees with it, that what
  the watcher is sending is the newest local step and still what it summarised, and that the step
  `latest` names is not doomed. It needs both hypotheses.
* `LocalInv` says that a local tree is of one training, and that the newest one is whole unless a
  restore of it is not yet verified.
* `RetainInv` says that nothing that is deployed later is doomed, and that a required milestone that `latest` or
  a local step is past has its receipt: the trainer went on only after the upload.
* `AgreeInv` says that on the recipe path what is sealed is the training that the upload receipt names. A
  receipt of a deployed step stays until completion is claimed, and what is exported agrees with it, so a
  retry has the same training again.

Each is preserved action by action, as above.

### The host

`HostLanesProofs` proves, for any campaigns with pairwise intersecting lock sets, any number of evaluations
and any bounds on starts and signals (`HostAssumption`):

| Theorem | States |
|---|---|
| `HostTypeTheorem` | `Spec => []HostTypeOK` |
| `LeaseTheorem` | `Spec => []UseIsLeased` |
| `ExclusiveServersTheorem` | `Spec => []Exclusive` |
| `StopTheorem` | `Spec => []StoppedMeansStopped` |
| `RefusalTheorem` | `Spec => []NotBothRefused` |
| `NewcomerTheorem` | `Spec => NewcomersSee` |
| `ShortStopTheorem` | every step of a campaign that stops, but the last, satisfies `StopNears` |

`LockInv` says that a key has one holder and that a campaign's locks fit its main thread: a prefix of its
sorted keys while it locks, all of them from the probe until its lanes have ended. `LaneInv` ties lanes to evaluations: two lanes
never run one evaluation, and all evaluations that live and were not abandoned are some lane's. As all lock
sets intersect, two such lanes cannot exist together, which gives `Exclusive`. `TreeInv` says what can be
alive in each phase of a fleet and of its stopping: the snapshot, or the fleet's memory, covers the server
unless the evaluation is abandoned. `RefusalInv` says that whoever was refused because of `d` holds only
keys before the one at which it stopped, which `d` holds unless it is leaving, so that `d`, in
sorted order, cannot be stopped by it in turn. `ProbeInv` says
that, as long as a lane goes by a probe, the first evaluation and every retry included, every resident server
that came up since is in `unseen` for that lane; a lane that moves on to another cell forgets its pairs and
probes again. `ShortStopTheorem` needs the types
alone: `StopLeft`, five at most, falls with every step of a campaign that stops, and no step of another one, of an
evaluation or of a fault raises it.

### The training campaign

`TrainCampaignProofs` proves, for any cells, artifacts, script, failure policy and bounds
(`ArtifactsAssumption`, `CampaignAssumption`; the order of the cells is injective, as run ids are unique):

| Theorem | States |
|---|---|
| `CampaignTypeTheorem` | `Spec => []CampaignTypeOK` |
| `CompletionTheorem` | `Spec => []CompletionSound` |
| `ExitZeroTheorem` | `Spec => []ExitZeroEarned` |
| `WorkTheorem` | `Spec => []WorkOutlivesGroup` |
| `UseTheorem` | `Spec => []UseIsExact` |
| `BlockTheorem` | `Spec => OnlyMishapsBlock` |
| `ShortAttemptTheorem` | `Spec => []SignalReaches`, and every supervisor step but the last satisfies `AttemptNears` |

`LedgerInv` says that the statuses of the running attempt agree with the store, and that when the
campaign's claim is being made they are all complete. `GroupInv` says that only the cell the supervisor waits for
has a live leader, that trainers drain only after a signal, and that cells still to come have prepared
nothing: a work tree is removed behind the whole group, and an eviction, which comes between
cells, hits no leader. `ReadyInv` says that what a live cell counts as ready is complete, and that its script
has passed only what is prepared. `BlockInv` says who can have left each kind of
partial state: behind a place that is taken and not usable is a preparer between move and marker, a killed one or
a spoiled one, and what is staged belongs to one that is at work, killed or spoiled.
`SignalReaches` is inductive with the types: a signalled supervisor waits for a dead leader, since a signal
before the handle is replayed when it is published and a later one is forwarded. So after a signal `LeaderReturns`
is possible wherever the supervisor waits, and `AttemptNears` says that each step goes straight to the end.

### The gather

`BatchGatherProofs` proves, for any callers and closers, any batch size and any set of buckets
(`GatherAssumption`):

| Theorem | States |
|---|---|
| `GatherTypeTheorem` | `Spec => []GatherTypeOK` |
| `OwnRowTheorem` | `Spec => []OwnRow` |
| `HeldOnceTheorem` | `Spec => []HeldOnce` |
| `TurnTheorem` | the worker runs while the gather is open, stops only when nobody waits, and serves in turn |

`RowsAreOwn` is a lemma about the pure part: chunking, padding to a bucket and cutting give every request
of any batch its own row. `PlacesInv` says that what is in the queue or in the batch belongs to a caller
that waits for it, no request is twice in them, and every caller that waits unanswered has its request in one of
them. `RestInv` says that the batch is empty outside gathering and dispatching. `OpenInv` says that while the gather
is open there is no sentinel, in the queue or taken. `TurnTheorem` is what `AnsweredIfOpen` comes from: whoever began
to wait while the gather was open finds the worker running; as long as it waits the worker does not stop (it
stops over an empty queue and batch, and by `PlacesInv` nobody waits then), nobody gets in front of it, and each
step of the worker moves it up in the queue or lowers `WindowLeft`.

### Omega serving

`OmegaServingProofs` proves, for any runners, finite set of environments, plans, boundaries and window
(`ServingAssumption`, and `NoSlotAssumption`: the marker of an unused environment is not a slot):

* `ServingTypeTheorem`, `Spec => []ServingTypeOK`.
* `OneSlotTheorem`, `Spec => []OneSlotPerEpisode`. It follows from what `Valid` says of resets: a reset
  takes no episode that another slot keeps or another reset takes, and a step without reset keeps the
  slot's episode.
* `RefusalTheorem`, `Spec => []OnlyConflictsReject`, from `RefusalInv`. The requests set aside and the queue
  are one line (`Line`) from whose front every batch is taken; setting a window aside does not change it
  (`ServerLine`). A runner in its first life has at most one request there, the one it waits for
  (`OneAsked`), and, if it shares its environment with nobody, a slot that follows it (`SlotFollows`) and no
  doubled environment. So its request is valid on its own, unless it is a reset that finds its episode in
  a slot of another runner's environment or too many environments in use; `PlannedInv` traces both back to
  the plans and to the environments of the runners.

* `InvisibleTheorem`, `PlansApart => (Spec => []BatchingIsInvisible)`, for any window, stride and boundaries. Two
  invariants are needed. `LivesInv` says that the requests of a client in the line are of increasing lives,
  that of its present life last, once and only while it waits. `SoloInv` adds that a slot that keeps a client's
  present episode holds exactly the frames, the last step and the encoder's prefix that the client would have
  had alone (`SoloSlots`, `Follows`): with `PlansApart` nobody else can move such a slot. The window and the prefix behind an
  answer are then those of `PreparedFollows`, whatever batch it came in. The reference is defined by recursion
  over the steps (a recursive function); its equation is proved from the least step at which it could fail
  (`LeastMember`, from the well-foundedness of `<`), so no induction theorem with an operator parameter is
  used. `PlansApart` is the hypothesis whose failure is described in section 3; `MCOmegaServing` assumes it of the
  instance, and TLC evaluates it there.

### Not proved

Every safety invariant, action property and refinement that a run checks is stated by a theorem. What is
model-checked only is liveness: `RunEnds`, `SeqRunEnds`, `AttemptEnds`, `StopEnds`, `SignalEndsRun`, `AnsweredIfOpen`.
Fairness and `ENABLED` are out of the prover's reach. For all but `AttemptEnds` the part that needs neither is proved:
`ShortParallelTheorem`, `ShortRunTheorem`, `ShortStopTheorem`, `ShortAttemptTheorem` and `TurnTheorem` give a measure
that every step lowers. What TLC adds is that such a step is possible in each state and, by fairness, taken.
`AttemptEnds` has no such measure, for the watcher of a training cell polls as long as the trainer runs.

## 5. Plan

Done, in the order of importance: the cell transaction, both campaign runners and their ledger; the
checkpoint transport, the training cell and its register; the host's leases and process trees; the training
campaign over the shared artifacts; the gather and the omega serving behind it.

What would come next:

1. The single-host campaigns (`run_local_fixed50_queue.py`, `local_rtx5090_campaign.py`) as an instance of the
   queue loop with one lane and local claims.
2. `watch_p5_action_canary.py`: a poller over job states that come late or twice.
3. `serve_groot_batched.py`, whose server has a loop of its own beside the gather.
4. `TrainCampaign` over `TrainingCell` in one model: two supervisors on one run root after a drain that timed
   out.

## 6. Not modelled

Everything listed as `not_modelled` in `PROJECT.json` that the plan does not name: numerical code,
networks, feature caches, analysis and submission scripts. They have no control worth checking or
only validate and call once. Within the modelled components: content hashes and identity checks of
claims (a claim that fails them raises, which every read may do in the model), local receipts, logs,
the transfer of directory trees file by file, the launch waves and the merging of shard files, the
websocket and HTTP layers around the servers, and the content of rows, frames and actions.

How much of the repository that is. The repository has about 127,000 lines in 408 implementation files,
and nearly all of them are numerical training and evaluation scripts, array caches, labelling
pipelines, argument parsing and offline analysis: straight-line code over tensors, files and prompts with
no state that outlives a call and no second actor. The lines this project maps are the control of the
programs that do have both. Mapping a third of the repository would mean transcribing validation and
array code into formulas that say nothing a test does not; the map therefore stays at the lines the
definitions translate.
