------------------------------ MODULE BatchGather ------------------------------
(***************************************************************************)
(* The request gather of vla_training/eval/pi_batch_gather.py: caller      *)
(* threads put their request and a future on one queue, a worker thread    *)
(* collects a batch, calls infer_batch once and routes each row to its     *)
(* caller.  close() may be called by several threads; it puts a sentinel,  *)
(* joins the worker with a timeout and drains what is left.                *)
(***************************************************************************)
EXTENDS Integers, Sequences

CONSTANTS
    Callers, Closers,   \* the threads that call infer, and those that call close
    MaxCalls,           \* bound: calls of infer by each caller
    MaxBatch,           \* max_batch
    Buckets,            \* the row counts infer_batch pads to
    Sentinel, None, Error, Pad

Requests == Callers \X (1..MaxCalls)

ASSUME GatherAssumption ==
    /\ MaxCalls \in Nat /\ MaxBatch \in Nat \ {0}
    /\ Buckets \subseteq Nat \ {0}
    /\ \E widest \in Buckets : \A k \in Buckets : k <= widest
    /\ {Sentinel, None, Error} \intersect (Callers \X (0..MaxCalls)) = {}
    /\ Error /= None

VARIABLES
    call,       \* per caller: where it is, its call's number, its future
    queue,      \* the SimpleQueue
    worker,     \* the worker: where it is, its batch, whether it met the sentinel
    closed,     \* the closed event
    closer      \* where each closing thread is

vars == <<call, queue, worker, closed, closer>>

Init ==
    /\ call = [c \in Callers |-> [pc |-> "idle", n |-> 0, future |-> None]]
    /\ queue = <<>>
    /\ worker = [pc |-> "take", batch |-> <<>>, stop |-> FALSE]
    /\ closed = FALSE
    /\ closer = [k \in Closers |-> "idle"]

----------------------------------------------------------------------------
\* infer_batch: greedy chunks of the widest bucket, each padded to the smallest
\* bucket that fits, the model run row by row, the padding rows cut off.

Widest == CHOOSE k \in Buckets : \A j \in Buckets : j <= k

BucketSize(n) == CHOOSE k \in Buckets : k >= n /\ \A j \in Buckets : j >= n => k <= j

ChunkStart(i) == i - ((i - 1) % Widest)

ChunkAt(batch, start) ==
    SubSeq(batch, start, IF start + Widest - 1 < Len(batch) THEN start + Widest - 1
                                                            ELSE Len(batch))

\* (mutant) The chunk is padded in front.
PaddedInFront(chunk) ==
    [i \in 1..BucketSize(Len(chunk)) |->
        LET gap == BucketSize(Len(chunk)) - Len(chunk)
        IN  IF i > gap THEN chunk[i - gap] ELSE Pad]

Padded(chunk) ==
    [i \in 1..BucketSize(Len(chunk)) |-> IF i <= Len(chunk) THEN chunk[i] ELSE Pad]

Rows(batch) ==
    [i \in DOMAIN batch |-> Padded(ChunkAt(batch, ChunkStart(i)))[i - ChunkStart(i) + 1]]

----------------------------------------------------------------------------
(* Callers: infer checks the event and the worker, then enqueues, then waits. *)

Request(c) == <<c, call[c].n>>

CheckOpen(c) ==
    /\ call[c].pc = "idle" /\ call[c].n < MaxCalls
    /\ call' = [call EXCEPT ![c] =
                  [pc |-> IF closed \/ worker.pc = "stopped" THEN "idle" ELSE "checked",
                   n |-> @.n + 1, future |-> None]]
    /\ UNCHANGED <<queue, worker, closed, closer>>

Enqueue(c) ==
    /\ call[c].pc = "checked"
    /\ call' = [call EXCEPT ![c].pc = "waiting"]
    /\ queue' = Append(queue, Request(c))
    /\ UNCHANGED <<worker, closed, closer>>

Wake(c) ==
    /\ call[c].pc = "waiting" /\ call[c].future /= None
    /\ call' = [call EXCEPT ![c].pc = "idle", ![c].future = None]
    /\ UNCHANGED <<queue, worker, closed, closer>>

----------------------------------------------------------------------------
(* Futures are set by the worker, and by whoever drains the queue. *)

Settle(value) ==
    call' = [c \in Callers |-> IF Request(c) \in DOMAIN value /\ call[c].pc = "waiting"
                               THEN [call[c] EXCEPT !.future = value[Request(c)]]
                               ELSE call[c]]

Failed(items) == [request \in items |-> Error]

\* One get_nowait of _drain_closed.
Pop ==
    /\ queue /= <<>>
    /\ queue' = Tail(queue)
    /\ Settle(Failed({Head(queue)} \ {Sentinel}))

----------------------------------------------------------------------------
(* The worker thread. *)

Take ==
    /\ worker.pc = "take" /\ queue /= <<>>
    /\ queue' = Tail(queue)
    /\ worker' = IF Head(queue) = Sentinel
                 THEN [worker EXCEPT !.pc = "drain"]
                 ELSE [worker EXCEPT !.pc = "gather", !.batch = <<Head(queue)>>]
    /\ UNCHANGED <<call, closed, closer>>

\* (mutant) The gather loop loses the item it took when the sentinel follows.
CollectLoses ==
    /\ worker.pc = "gather" /\ Len(worker.batch) < MaxBatch /\ queue /= <<>>
    /\ queue' = Tail(queue)
    /\ worker' = IF Head(queue) = Sentinel
                 THEN [pc |-> "drain", batch |-> <<>>, stop |-> TRUE]
                 ELSE [worker EXCEPT !.batch = Append(@, Head(queue))]
    /\ UNCHANGED <<call, closed, closer>>

Collect ==
    /\ worker.pc = "gather" /\ Len(worker.batch) < MaxBatch /\ queue /= <<>>
    /\ queue' = Tail(queue)
    /\ worker' = IF Head(queue) = Sentinel
                 THEN [worker EXCEPT !.pc = "dispatch", !.stop = TRUE]
                 ELSE [worker EXCEPT !.batch = Append(@, Head(queue))]
    /\ UNCHANGED <<call, closed, closer>>

\* The batch is full, or max_wait_ms has passed.
WindowEnds ==
    /\ worker.pc = "gather"
    /\ worker' = [worker EXCEPT !.pc = "dispatch"]
    /\ UNCHANGED <<call, queue, closed, closer>>

AfterDispatch == [pc |-> IF worker.stop THEN "drain" ELSE "take",
                  batch |-> <<>>, stop |-> worker.stop]

Members(batch) == {batch[i] : i \in DOMAIN batch}

Dispatch ==
    /\ worker.pc = "dispatch"
    /\ LET batch == worker.batch
       IN  Settle([request \in Members(batch) |->
                      Rows(batch)[CHOOSE i \in DOMAIN batch : batch[i] = request]])
    /\ worker' = AfterDispatch
    /\ UNCHANGED <<queue, closed, closer>>

\* (mutant) An exception of infer_batch ends the worker thread.
DispatchKillsWorker ==
    /\ worker.pc = "dispatch"
    /\ worker' = [pc |-> "stopped", batch |-> <<>>, stop |-> worker.stop]
    /\ Settle(Failed(Members(worker.batch)))
    /\ UNCHANGED <<queue, closed, closer>>

\* infer_batch raises, or returns another number of rows.
DispatchRaises ==
    /\ worker.pc = "dispatch"
    /\ Settle(Failed(Members(worker.batch)))
    /\ worker' = AfterDispatch
    /\ UNCHANGED <<queue, closed, closer>>

WorkerDrains ==
    /\ worker.pc = "drain"
    /\ \/ Pop /\ UNCHANGED worker
       \/ /\ queue = <<>>
          /\ worker' = [worker EXCEPT !.pc = "stopped"]
          /\ UNCHANGED <<call, queue>>
    /\ UNCHANGED <<closed, closer>>

WorkerStep ==
    \/ Take
    \/ Collect
    \/ WindowEnds
    \/ Dispatch
    \/ DispatchRaises
    \/ WorkerDrains

----------------------------------------------------------------------------
(* close: the event is checked and set in two steps. *)

CloseChecks(k) ==
    /\ closer[k] = "idle"
    /\ closer' = [closer EXCEPT ![k] = IF closed THEN "done" ELSE "closing"]
    /\ UNCHANGED <<call, queue, worker, closed>>

CloseSets(k) ==
    /\ closer[k] = "closing"
    /\ closed' = TRUE
    /\ closer' = [closer EXCEPT ![k] = "putting"]
    /\ UNCHANGED <<call, queue, worker>>

ClosePuts(k) ==
    /\ closer[k] = "putting"
    /\ queue' = Append(queue, Sentinel)
    /\ closer' = [closer EXCEPT ![k] = "joining"]
    /\ UNCHANGED <<call, worker, closed>>

\* join returns when the worker has stopped, or after timeout_s whatever it does.
CloseJoins(k) ==
    /\ closer[k] = "joining"
    /\ closer' = [closer EXCEPT ![k] = "draining"]
    /\ UNCHANGED <<call, queue, worker, closed>>

CloseDrains(k) ==
    /\ closer[k] = "draining"
    /\ \/ Pop /\ UNCHANGED closer
       \/ /\ queue = <<>>
          /\ closer' = [closer EXCEPT ![k] = "done"]
          /\ UNCHANGED <<call, queue>>
    /\ UNCHANGED <<worker, closed>>

CloseStep(k) ==
    \/ CloseSets(k)
    \/ ClosePuts(k)
    \/ CloseJoins(k)
    \/ CloseDrains(k)

----------------------------------------------------------------------------
Next ==
    \/ \E c \in Callers : CheckOpen(c) \/ Enqueue(c) \/ Wake(c)
    \/ WorkerStep
    \/ \E k \in Closers : CloseChecks(k) \/ CloseStep(k)

Spec == Init /\ [][Next]_vars

\* Every thread that has something to do runs, and infer_batch returns or raises.
\* Nobody has to call infer or close.
FairSpec ==
    /\ Spec
    /\ \A c \in Callers : WF_vars(Enqueue(c)) /\ WF_vars(Wake(c))
    /\ WF_vars(WorkerStep)
    /\ \A k \in Closers : WF_vars(CloseStep(k))

----------------------------------------------------------------------------
Futures == Requests \union {None, Error}

GatherTypeOK ==
    /\ call \in [Callers -> [pc : {"idle", "checked", "waiting"}, n : 0..MaxCalls,
                             future : Futures]]
    /\ queue \in Seq(Requests \union {Sentinel})
    /\ worker \in [pc : {"take", "gather", "dispatch", "drain", "stopped"},
                   batch : Seq(Requests), stop : BOOLEAN]
    /\ closed \in BOOLEAN
    /\ closer \in [Closers -> {"idle", "closing", "putting", "joining", "draining", "done"}]

\* A future is only ever resolved with the caller's own row, however the batch
\* was chunked and padded, or with an exception (routing in _dispatch).
OwnRow ==
    \A c \in Callers : call[c].future \in {None, Error, Request(c)}

\* Two threads may pop the queue while the worker holds a batch, and yet every
\* waiting caller's request is in exactly one place until its future is set,
\* and then in none: no request is lost, none is resolved twice (set_result
\* on a resolved future would raise in the worker).
Held(s, request) == {i \in DOMAIN s : s[i] = request}

HeldOnce ==
    \A c \in Callers :
        LET places == (Held(queue, Request(c)) \X {"queue"})
                        \union (Held(worker.batch, Request(c)) \X {"batch"})
        IN  IF call[c].pc = "waiting" /\ call[c].future = None
            THEN \E p \in places : places = {p}
            ELSE places = {}

\* A caller that waits while the gather is open gets its row or an exception,
\* also when close begins, its join times out and both threads drain.
AnsweredIfOpen ==
    \A c \in Callers :
        call[c].pc = "waiting" /\ ~closed ~> call[c].pc /= "waiting"
================================================================================
