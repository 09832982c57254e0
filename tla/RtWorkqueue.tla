---------------------------- MODULE RtWorkqueue ----------------------------
(***************************************************************************)
(* The single-threaded real-time work queue of shannon_workqueue.c: the    *)
(* worker rt_thread_fn, the callers of shannon_rt_queue_work, callers of   *)
(* shannon_flush_rt_workqueue, and the one caller of                       *)
(* shannon_destroy_rt_workqueue.  A section under rtwq->lock is one step;  *)
(* an unlocked read, a change of task state and a wake-up are steps of     *)
(* their own.  schedule() blocks while the task state is not RUNNING, and  *)
(* wake_up_process makes it RUNNING wherever the task is (kernel).         *)
(***************************************************************************)
EXTENDS Naturals, Sequences

CONSTANTS Works,      \* the work items
          Procs,      \* contexts that call shannon_rt_queue_work
          Flushers,   \* contexts that call shannon_flush_rt_workqueue
          Destroyer,  \* the context that calls shannon_destroy_rt_workqueue
          MaxLoop     \* RT_MAX_LOOP_COUNT

ASSUME RtAssumption ==
  /\ MaxLoop \in Nat \ {0}
  /\ Destroyer \notin Flushers

Waiters == Flushers \cup {Destroyer}

VARIABLES
  list,        \* rtwq->list, oldest first
  pending,     \* the works whose RT_WORK_STRUCT_PENDING_BIT is set
  tpc,         \* where the worker is in rt_thread_fn
  tstate,      \* its task state
  cur,         \* rtw while its function runs
  loop,        \* loop_count
  isRt,        \* is_rt
  policy,      \* the scheduling class the worker really has
  shouldStop,  \* what kthread_should_stop returns to the worker
  qpc,         \* per caller of shannon_rt_queue_work: "wake" from unlock to wake-up
  fpc,         \* per waiter: where it is in flush (and then in destroy)
  onEvent      \* waiters on rtwq->flush_event: queued and UNINTERRUPTIBLE

queue  == <<list, pending>>
worker == <<tpc, tstate, cur, loop, isRt, policy>>
rtvars == <<queue, worker, shouldStop, qpc, fpc, onEvent>>

TPCs == {"start", "outer", "inner", "take", "run", "count", "yield", "yielding",
         "drained", "wakeflush", "stopcheck", "park", "sleep", "exited"}
FPCs == {"idle", "test", "prepare", "recheck", "sleep", "flushed",
         "stopwake", "join", "freed"}

RtInit ==
  /\ list = <<>> /\ pending = {}
  /\ tpc = "start" /\ tstate = "RUNNING" /\ cur \in Works
  /\ loop = 0 /\ isRt = FALSE /\ policy = "NORMAL"
  /\ shouldStop = FALSE
  /\ qpc = [p \in Procs |-> "idle"]
  /\ fpc = [f \in Waiters |-> "idle"]
  /\ onEvent = {}
-----------------------------------------------------------------------------
(* shannon_rt_queue_work *)

\* The locked section for a work whose PENDING bit was clear; a work whose bit
\* is set is left alone, and its caller wakes nobody.
Enqueue(w) ==
  /\ w \notin pending
  /\ pending' = pending \cup {w}
  /\ list' = Append(list, w)

\* Callers stop queueing before the owner destroys the queue.
shannon_rt_queue_work(p, w) ==
  /\ qpc[p] = "idle"
  /\ fpc[Destroyer] = "idle"
  /\ Enqueue(w)
  /\ qpc' = [qpc EXCEPT ![p] = "wake"]
  /\ UNCHANGED <<worker, shouldStop, fpc, onEvent>>

\* wake_up_process after the unlock.
QueueWake(p) ==
  /\ qpc[p] = "wake"
  /\ qpc' = [qpc EXCEPT ![p] = "idle"]
  /\ tstate' = "RUNNING"
  /\ UNCHANGED <<queue, tpc, cur, loop, isRt, policy, shouldStop, fpc, onEvent>>
-----------------------------------------------------------------------------
(* rt_thread_fn *)

TStart ==
  /\ tpc = "start"
  /\ policy' = "RT"
  /\ tpc' = "outer"
  /\ UNCHANGED <<queue, tstate, cur, loop, isRt, shouldStop, qpc, fpc, onEvent>>

TOuter ==
  /\ tpc = "outer"
  /\ loop' = 0
  /\ isRt' = TRUE
  /\ tpc' = "inner"
  /\ UNCHANGED <<queue, tstate, cur, policy, shouldStop, qpc, fpc, onEvent>>

\* Mutant: the inner loop also ends when the worker is told to stop.
TInnerStop ==
  /\ tpc = "inner"
  /\ tpc' = IF list = <<>> \/ shouldStop THEN "drained" ELSE "take"
  /\ UNCHANGED <<queue, tstate, cur, loop, isRt, policy, shouldStop, qpc, fpc, onEvent>>

\* The unlocked test of the inner while.
TInner ==
  /\ tpc = "inner"
  /\ tpc' = IF list = <<>> THEN "drained" ELSE "take"
  /\ UNCHANGED <<queue, tstate, cur, loop, isRt, policy, shouldStop, qpc, fpc, onEvent>>

\* Mutant: the PENDING bit is not cleared when the work is taken.
TTakeNoClear ==
  /\ tpc = "take"
  /\ cur' = Head(list)
  /\ list' = Tail(list)
  /\ tpc' = "run"
  /\ UNCHANGED <<pending, tstate, loop, isRt, policy, shouldStop, qpc, fpc, onEvent>>

\* The locked section: unlink the first entry and clear its PENDING bit.
TTake ==
  /\ tpc = "take"
  /\ cur' = Head(list)
  /\ list' = Tail(list)
  /\ pending' = pending \ {Head(list)}
  /\ tpc' = "run"
  /\ UNCHANGED <<tstate, loop, isRt, policy, shouldStop, qpc, fpc, onEvent>>

\* While it runs, the function may queue works itself; the wake-up that
\* follows is of the running worker and changes nothing.
TRequeue(w) ==
  /\ tpc = "run"
  /\ Enqueue(w)
  /\ UNCHANGED <<worker, shouldStop, qpc, fpc, onEvent>>

TRun ==
  /\ tpc = "run"
  /\ tpc' = "count"
  /\ UNCHANGED <<queue, tstate, cur, loop, isRt, policy, shouldStop, qpc, fpc, onEvent>>

TCount ==
  /\ tpc = "count"
  /\ IF loop + 1 < MaxLoop
     THEN loop' = loop + 1 /\ tpc' = "inner" /\ UNCHANGED <<isRt, policy>>
     ELSE /\ loop' = 0
          /\ IF isRt
             THEN policy' = "NORMAL" /\ isRt' = FALSE /\ tpc' = "inner"
             ELSE tpc' = "yield" /\ UNCHANGED <<isRt, policy>>
  /\ UNCHANGED <<queue, tstate, cur, shouldStop, qpc, fpc, onEvent>>

TYield ==
  /\ tpc = "yield"
  /\ tstate' = "INTERRUPTIBLE"
  /\ tpc' = "yielding"
  /\ UNCHANGED <<queue, cur, loop, isRt, policy, shouldStop, qpc, fpc, onEvent>>

\* Mutant: schedule() without a timeout.
TTimerNever == FALSE

\* The jiffy of schedule_timeout(1) is over.
TTimer ==
  /\ tpc = "yielding"
  /\ tstate = "INTERRUPTIBLE"
  /\ tstate' = "RUNNING"
  /\ UNCHANGED <<queue, tpc, cur, loop, isRt, policy, shouldStop, qpc, fpc, onEvent>>

TYielded ==
  /\ tpc = "yielding"
  /\ tstate = "RUNNING"
  /\ tpc' = "inner"
  /\ UNCHANGED <<queue, tstate, cur, loop, isRt, policy, shouldStop, qpc, fpc, onEvent>>

TDrained ==
  /\ tpc = "drained"
  /\ policy' = IF isRt THEN policy ELSE "RT"
  /\ tpc' = "wakeflush"
  /\ UNCHANGED <<queue, tstate, cur, loop, isRt, shouldStop, qpc, fpc, onEvent>>

\* Mutant: the flushers are not woken.
TWakeNobody ==
  /\ tpc = "wakeflush"
  /\ tpc' = "stopcheck"
  /\ UNCHANGED <<queue, tstate, cur, loop, isRt, policy, shouldStop, qpc, fpc, onEvent>>

\* shannon_wake_up of flush_event: its waiters are not exclusive, so all of
\* them are woken and taken off the event.
TWakeFlush ==
  /\ tpc = "wakeflush"
  /\ onEvent' = {}
  /\ tpc' = "stopcheck"
  /\ UNCHANGED <<queue, tstate, cur, loop, isRt, policy, shouldStop, qpc, fpc>>

TStopCheck ==
  /\ tpc = "stopcheck"
  /\ tpc' = IF shouldStop THEN "exited" ELSE "park"
  /\ UNCHANGED <<queue, tstate, cur, loop, isRt, policy, shouldStop, qpc, fpc, onEvent>>

\* Mutant: the worker does not test the list again before it sleeps.
TParkBlind ==
  /\ tpc = "park"
  /\ tstate' = "INTERRUPTIBLE"
  /\ tpc' = "sleep"
  /\ UNCHANGED <<queue, cur, loop, isRt, policy, shouldStop, qpc, fpc, onEvent>>

\* The locked section that decides to sleep and sets the task state.
TPark ==
  /\ tpc = "park"
  /\ IF list = <<>>
     THEN tstate' = "INTERRUPTIBLE" /\ tpc' = "sleep"
     ELSE tpc' = "outer" /\ UNCHANGED tstate
  /\ UNCHANGED <<queue, cur, loop, isRt, policy, shouldStop, qpc, fpc, onEvent>>

\* schedule() returns.
TSleep ==
  /\ tpc = "sleep"
  /\ tstate = "RUNNING"
  /\ tpc' = "outer"
  /\ UNCHANGED <<queue, tstate, cur, loop, isRt, policy, shouldStop, qpc, fpc, onEvent>>

TStep == \/ TStart \/ TOuter \/ TInner \/ TTake \/ TRun \/ TCount \/ TYield
         \/ TTimer \/ TYielded \/ TDrained \/ TWakeFlush \/ TStopCheck
         \/ TPark \/ TSleep
-----------------------------------------------------------------------------
(* shannon_flush_rt_workqueue: wake the worker, then wait on flush_event   *)
(* until the list is empty (shannon_wait_event).                           *)

\* A flush is called by contexts that are not using the queue otherwise;
\* the destroyer calls its own when everyone else is done.
shannon_flush_rt_workqueue(f) ==
  /\ fpc[f] = "idle"
  /\ fpc[Destroyer] = "idle"
  /\ f = Destroyer => /\ \A p \in Procs : qpc[p] = "idle"
                      /\ \A g \in Flushers : fpc[g] \in {"idle", "flushed"}
  /\ tstate' = "RUNNING"
  /\ fpc' = [fpc EXCEPT ![f] = "test"]
  /\ UNCHANGED <<queue, tpc, cur, loop, isRt, policy, shouldStop, qpc, onEvent>>

FlushTest(f) ==
  /\ fpc[f] = "test"
  /\ fpc' = [fpc EXCEPT ![f] = IF list = <<>> THEN "flushed" ELSE "prepare"]
  /\ UNCHANGED <<queue, worker, shouldStop, qpc, onEvent>>

FlushPrepare(f) ==
  /\ fpc[f] = "prepare"
  /\ onEvent' = onEvent \cup {f}
  /\ fpc' = [fpc EXCEPT ![f] = "recheck"]
  /\ UNCHANGED <<queue, worker, shouldStop, qpc>>

\* The condition again, then schedule() or finish_wait.
FlushRecheck(f) ==
  /\ fpc[f] = "recheck"
  /\ IF list = <<>>
     THEN fpc' = [fpc EXCEPT ![f] = "flushed"] /\ onEvent' = onEvent \ {f}
     ELSE fpc' = [fpc EXCEPT ![f] = "sleep"] /\ UNCHANGED onEvent
  /\ UNCHANGED <<queue, worker, shouldStop, qpc>>

FlushAwake(f) ==
  /\ fpc[f] = "sleep"
  /\ f \notin onEvent
  /\ fpc' = [fpc EXCEPT ![f] = "prepare"]
  /\ UNCHANGED <<queue, worker, shouldStop, qpc, onEvent>>

FlushStep(f) == FlushTest(f) \/ FlushPrepare(f) \/ FlushRecheck(f) \/ FlushAwake(f)
-----------------------------------------------------------------------------
(* shannon_destroy_rt_workqueue after its flush: kthread_stop sets the     *)
(* flag, wakes the worker and waits for it to exit; then the queue is      *)
(* freed.                                                                  *)

StopSet ==
  /\ fpc[Destroyer] = "flushed"
  /\ shouldStop' = TRUE
  /\ fpc' = [fpc EXCEPT ![Destroyer] = "stopwake"]
  /\ UNCHANGED <<queue, worker, qpc, onEvent>>

StopWake ==
  /\ fpc[Destroyer] = "stopwake"
  /\ tstate' = "RUNNING"
  /\ fpc' = [fpc EXCEPT ![Destroyer] = "join"]
  /\ UNCHANGED <<queue, tpc, cur, loop, isRt, policy, shouldStop, qpc, onEvent>>

StopJoin ==
  /\ fpc[Destroyer] = "join"
  /\ tpc = "exited"
  /\ fpc' = [fpc EXCEPT ![Destroyer] = "freed"]
  /\ UNCHANGED <<queue, worker, shouldStop, qpc, onEvent>>

DestroyStep == StopSet \/ StopWake \/ StopJoin

RtNext ==
  \/ TStep
  \/ \E w \in Works : TRequeue(w)
  \/ \E p \in Procs : QueueWake(p) \/ \E w \in Works : shannon_rt_queue_work(p, w)
  \/ \E f \in Waiters : shannon_flush_rt_workqueue(f) \/ FlushStep(f)
  \/ DestroyStep

RtSpec == RtInit /\ [][RtNext]_rtvars

\* The kernel keeps running every runnable task and expires timers; nobody
\* is obliged to queue, to flush or to destroy.
RtFairness ==
  /\ WF_rtvars(TStep)
  /\ \A p \in Procs : WF_rtvars(QueueWake(p))
  /\ \A f \in Waiters : WF_rtvars(FlushStep(f))
  /\ WF_rtvars(DestroyStep)

RtFairSpec == RtSpec /\ RtFairness
-----------------------------------------------------------------------------
Listed == {list[i] : i \in 1 .. Len(list)}

\* Type correctness.
RtTypeOK ==
  /\ list \in Seq(Works) /\ pending \subseteq Works
  /\ tpc \in TPCs /\ tstate \in {"RUNNING", "INTERRUPTIBLE"} /\ cur \in Works
  /\ loop \in 0 .. MaxLoop - 1 /\ isRt \in BOOLEAN /\ policy \in {"RT", "NORMAL"}
  /\ shouldStop \in BOOLEAN
  /\ qpc \in [Procs -> {"idle", "wake"}]
  /\ fpc \in [Waiters -> FPCs]
  /\ onEvent \subseteq Waiters

\* A work is on rtwq->list, once, exactly while its PENDING bit is set, so
\* the SHN_BUG_ON(!shannon_list_empty(&work->list)) of shannon_rt_queue_work
\* never fires however queueing and the worker interleave.
PendingIsListed ==
  /\ pending = Listed
  /\ \A i, j \in 1 .. Len(list) : list[i] = list[j] => i = j

\* The worker tests the list without the lock and takes its first entry
\* later under the lock: the entry is still there.
TakeFindsWork == tpc = "take" => list # <<>>

\* The worker never sleeps in schedule() on a non-empty list unless the
\* caller that filled it has yet to wake it: rt_thread_fn sets its state
\* under the lock and shannon_rt_queue_work wakes it after its unlock.
NoLostWakeup ==
  tpc = "sleep" /\ tstate = "INTERRUPTIBLE" /\ list # <<>>
    => \E p \in Procs : qpc[p] = "wake"

\* Whenever the worker is idle, or tells the flushers that it is, it is back
\* in the real-time class, however often it was demoted by long bursts.
IdleWorkerIsRt ==
  tpc \in {"wakeflush", "stopcheck", "park", "sleep", "exited"} => policy = "RT"

\* A worker told to stop exits with no work left on the list, works queued
\* by the last function it ran included, so destroy frees an empty queue.
ExitDrained == tpc = "exited" => list = <<>>

\* Every accepted work is eventually taken by the worker, however many are
\* queued after it: the list is served in order, and the worker's jiffy of
\* sleep ends.
WorkRuns == \A w \in Works : w \in pending ~> w \notin pending

\* Every flush returns, the one of the destroyer included, provided queueing
\* dies out.  shannon_flush_rt_workqueue waits for an empty list and not for
\* the works that were on it: a list that is filled as fast as the worker
\* empties it, by callers or by a function that queues itself, keeps the
\* worker from its wake-up of flush_event, and the flusher waits for ever.
FlushReturns ==
  <>[][pending' \subseteq pending]_rtvars =>
    \A f \in Waiters : fpc[f] = "test" ~> fpc[f] = "flushed"

\* Destroying the queue returns: kthread_stop's wake-up reaches the worker.
DestroyReturns == fpc[Destroyer] = "stopwake" ~> fpc[Destroyer] = "freed"
=============================================================================
