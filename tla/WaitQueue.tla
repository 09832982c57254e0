----------------------------- MODULE WaitQueue -----------------------------
(***************************************************************************)
(* The wait queues of shannon_waitqueue.[ch] on the lists of               *)
(* shannon_list.h, pointer by pointer: waiters in shannon_wait_event or    *)
(* shannon_wait_event_interruptible, each with a descriptor on its stack,  *)
(* and wakers that set the condition and call shannon_wake_up.  A section  *)
(* under q->lock is one step where it writes at most one pointer that is   *)
(* read without the lock; the removal of a descriptor by a waker writes    *)
(* two such pointers and is cut between them.                              *)
(***************************************************************************)
EXTENDS Naturals

CONSTANTS Waiters, Interruptible,  \* the waiters, and those that take signals
          Wakers, Testers,         \* the wakers, and those that ask
                                   \* shannon_waitqueue_active first
          Head                     \* q->task_list

ASSUME WaitAssumption ==
  /\ Interruptible \subseteq Waiters /\ Testers \subseteq Wakers
  /\ Head \notin Waiters \cup Wakers

Nodes == Waiters \cup {Head}

VARIABLES
  next, prev,  \* the list pointers of the head and of each descriptor
  lock,        \* who holds q->lock between its steps: wakers, or nobody
  cond,        \* the condition waited for
  wpc,         \* where each waiter is
  asleep,      \* the waiters whose task state is not TASK_RUNNING
  signalled,   \* the waiters with a signal pending
  kpc,         \* where each waker is
  curr, ahead  \* curr and next of __shannon_wake_up_common

list   == <<next, prev>>
waiter == <<wpc, asleep, signalled>>
waker  == <<kpc, curr, ahead>>
vars   == <<list, lock, cond, waiter, waker>>

Nobody == Head

\* A descriptor exists while its waiter is inside __shannon_wait_event.
Frames == {w \in Waiters : wpc[w] \notin {"out", "first"}}

Init ==
  /\ next = [x \in Nodes |-> x] /\ prev = [x \in Nodes |-> x]
  /\ lock = Nobody /\ cond = FALSE
  /\ wpc = [w \in Waiters |-> "out"] /\ asleep = {} /\ signalled = {}
  /\ kpc = [k \in Wakers |-> "idle"]
  /\ curr = [k \in Wakers |-> Head] /\ ahead = [k \in Wakers |-> Head]

WGoto(w, l) == wpc' = [wpc EXCEPT ![w] = l]
KGoto(k, l) == kpc' = [kpc EXCEPT ![k] = l]
-----------------------------------------------------------------------------
(* The list: pointers after adding x behind the head, and after removing x *)

AddedNext(x) == [next EXCEPT ![x] = next[Head], ![Head] = x]
AddedPrev(x) == [[prev EXCEPT ![next[Head]] = x] EXCEPT ![x] = Head]

shannon_list_add(x) == next' = AddedNext(x) /\ prev' = AddedPrev(x)

\* Written one after the other, so a descriptor that is its own neighbour
\* stays so.
shannon_list_del_init(x) ==
  /\ next' = [[next EXCEPT ![prev[x]] = next[x]] EXCEPT ![x] = x]
  /\ prev' = [[prev EXCEPT ![next[x]] = prev[x]] EXCEPT ![x] = x]
-----------------------------------------------------------------------------
(* Waiters *)

shannon_wait_event(w) ==
  /\ wpc[w] = "out"
  /\ WGoto(w, "first")
  /\ UNCHANGED <<list, lock, cond, asleep, signalled, waker>>

\* The test before any queueing; a fresh descriptor is its own neighbour.
FirstTest(w) ==
  /\ wpc[w] = "first"
  /\ WGoto(w, IF cond THEN "out" ELSE "prepare")
  /\ next' = [next EXCEPT ![w] = w] /\ prev' = [prev EXCEPT ![w] = w]
  /\ UNCHANGED <<lock, cond, asleep, signalled, waker>>

\* Mutant: the descriptor is queued again without a look at it.
PrepareAlwaysAdds(w) ==
  /\ wpc[w] = "prepare"
  /\ lock = Nobody
  /\ shannon_list_add(w)
  /\ asleep' = asleep \cup {w}
  /\ WGoto(w, "test")
  /\ UNCHANGED <<lock, cond, signalled, waker>>

shannon_prepare_to_wait(w) ==
  /\ wpc[w] = "prepare"
  /\ lock = Nobody
  /\ IF next[w] = w THEN shannon_list_add(w) ELSE UNCHANGED list
  /\ asleep' = asleep \cup {w}
  /\ WGoto(w, "test")
  /\ UNCHANGED <<lock, cond, signalled, waker>>

\* The test in the loop; a signal ends an interruptible wait.
Test(w) ==
  /\ wpc[w] = "test"
  /\ WGoto(w, IF cond \/ w \in signalled THEN "finish" ELSE "schedule")
  /\ UNCHANGED <<list, lock, cond, asleep, signalled, waker>>

shannon_schedule(w) ==
  /\ wpc[w] = "schedule"
  /\ w \notin asleep
  /\ WGoto(w, "prepare")
  /\ UNCHANGED <<list, lock, cond, asleep, signalled, waker>>

\* shannon_finish_wait up to the first read of shannon_list_empty_careful;
\* && reads prev only if next is the descriptor itself.
ReadNext(w) ==
  /\ wpc[w] = "finish"
  /\ asleep' = asleep \ {w}
  /\ WGoto(w, IF next[w] = w THEN "careful" ELSE "remove")
  /\ UNCHANGED <<list, lock, cond, signalled, waker>>

\* Mutant: shannon_list_empty instead of shannon_list_empty_careful.
ReadPrevNot(w) ==
  /\ wpc[w] = "careful"
  /\ WGoto(w, "out")
  /\ signalled' = signalled \ {w}
  /\ UNCHANGED <<list, lock, cond, asleep, waker>>

\* The second read.  On return a signal is taken by the caller.
ReadPrev(w) ==
  /\ wpc[w] = "careful"
  /\ IF prev[w] = w THEN WGoto(w, "out") /\ signalled' = signalled \ {w}
                    ELSE WGoto(w, "remove") /\ UNCHANGED signalled
  /\ UNCHANGED <<list, lock, cond, asleep, waker>>

Remove(w) ==
  /\ wpc[w] = "remove"
  /\ lock = Nobody
  /\ shannon_list_del_init(w)
  /\ WGoto(w, "out")
  /\ signalled' = signalled \ {w}
  /\ UNCHANGED <<lock, cond, asleep, waker>>

\* The kernel delivers a signal and wakes an interruptible sleeper.
Signal(w) ==
  /\ w \in Interruptible /\ w \notin signalled
  /\ signalled' = signalled \cup {w}
  /\ asleep' = asleep \ {w}
  /\ UNCHANGED <<list, lock, cond, wpc, waker>>
-----------------------------------------------------------------------------
(* Wakers *)

SetCond(k) ==
  /\ kpc[k] = "idle"
  /\ cond' = TRUE
  /\ KGoto(k, IF k \in Testers THEN "active" ELSE "lock")
  /\ UNCHANGED <<list, lock, waiter, curr, ahead>>

shannon_waitqueue_active(k) ==
  /\ kpc[k] = "active"
  /\ KGoto(k, IF next[Head] # Head THEN "lock" ELSE "idle")
  /\ UNCHANGED <<list, lock, cond, waiter, curr, ahead>>

\* shannon_wake_up: the lock, and the start of the safe traversal.
shannon_wake_up(k) ==
  /\ kpc[k] = "lock"
  /\ lock = Nobody
  /\ lock' = k
  /\ curr' = [curr EXCEPT ![k] = next[Head]]
  /\ ahead' = [ahead EXCEPT ![k] = next[next[Head]]]
  /\ KGoto(k, "wake")
  /\ UNCHANGED <<list, cond, waiter>>

Advance(k) ==
  /\ curr' = [curr EXCEPT ![k] = ahead[k]]
  /\ ahead' = [ahead EXCEPT ![k] = next[ahead[k]]]
  /\ KGoto(k, "wake")

\* Mutant: the traversal stops at the first waiter that was woken already.
WakeStopsEarly(k) ==
  /\ kpc[k] = "wake" /\ curr[k] # Head
  /\ IF curr[k] \in asleep
       THEN asleep' = asleep \ {curr[k]} /\ KGoto(k, "unlink") /\ UNCHANGED <<lock, curr, ahead>>
       ELSE lock' = Nobody /\ KGoto(k, "idle") /\ UNCHANGED <<asleep, curr, ahead>>
  /\ UNCHANGED <<list, cond, wpc, signalled>>

\* shannon_autoremove_wake_function: a task that runs already is not woken
\* (default_wake_function returns 0) and stays on the list.  Nobody waits
\* exclusively, so the traversal goes on.
Wake(k) ==
  /\ kpc[k] = "wake" /\ curr[k] # Head
  /\ IF curr[k] \in asleep
       THEN asleep' = asleep \ {curr[k]} /\ KGoto(k, "unlink") /\ UNCHANGED <<curr, ahead>>
       ELSE Advance(k) /\ UNCHANGED asleep
  /\ UNCHANGED <<list, lock, cond, wpc, signalled>>

\* shannon_list_del_init in three parts: the neighbours, which nobody reads
\* unlocked unless they stay linked ...
Unlink(k) ==
  /\ kpc[k] = "unlink"
  /\ LET x == curr[k]
     IN  next' = [next EXCEPT ![prev[x]] = next[x]] /\ prev' = [prev EXCEPT ![next[x]] = prev[x]]
  /\ KGoto(k, "selfnext")
  /\ UNCHANGED <<lock, cond, waiter, curr, ahead>>

\* ... the descriptor's next ...
SelfNext(k) ==
  /\ kpc[k] = "selfnext"
  /\ next' = [next EXCEPT ![curr[k]] = curr[k]]
  /\ KGoto(k, "selfprev")
  /\ UNCHANGED <<prev, lock, cond, waiter, curr, ahead>>

\* ... and its prev, the last access to it.
SelfPrev(k) ==
  /\ kpc[k] = "selfprev"
  /\ prev' = [prev EXCEPT ![curr[k]] = curr[k]]
  /\ Advance(k)
  /\ UNCHANGED <<next, lock, cond, waiter>>

Unlock(k) ==
  /\ kpc[k] = "wake" /\ curr[k] = Head
  /\ lock' = Nobody
  /\ KGoto(k, "idle")
  /\ UNCHANGED <<list, cond, waiter, curr, ahead>>

\* Whatever the condition is about may become false again.
ResetCond ==
  /\ cond /\ cond' = FALSE
  /\ UNCHANGED <<list, lock, waiter, waker>>
-----------------------------------------------------------------------------
WaiterStep(w) == \/ FirstTest(w) \/ shannon_prepare_to_wait(w) \/ Test(w) \/ shannon_schedule(w)
                 \/ ReadNext(w) \/ ReadPrev(w) \/ Remove(w)

WakerStep(k) == \/ shannon_waitqueue_active(k) \/ shannon_wake_up(k) \/ Wake(k)
                \/ Unlink(k) \/ SelfNext(k) \/ SelfPrev(k) \/ Unlock(k)

Next == \/ \E w \in Waiters : shannon_wait_event(w) \/ WaiterStep(w) \/ Signal(w)
        \/ \E k \in Wakers : SetCond(k) \/ WakerStep(k)
        \/ ResetCond

Spec == Init /\ [][Next]_vars

-----------------------------------------------------------------------------
\* The descriptors from x to the head, by next.
From(x) ==
  {w \in Waiters : \A S \in SUBSET Nodes :
                    x \in S /\ (\A y \in S \ {Head} : next[y] \in S) => w \in S}

\* While nobody is inside the lock, next and prev are each other's inverse and
\* every descriptor that is linked at all is on the queue's list.
ListSound ==
  lock = Nobody =>
    /\ \A x \in Nodes : prev[next[x]] = x /\ next[prev[x]] = x
    /\ From(next[Head]) = {w \in Waiters : next[w] # w}

\* A waker reads and writes descriptors on other tasks' stacks: the one at
\* hand and the one ahead exist until it is done with them, although waiters
\* that see themselves removed return without taking the lock; nor does any
\* waiter return while its descriptor is linked.
DescriptorsAlive ==
  /\ \A k \in Wakers : kpc[k] \in {"wake", "unlink", "selfnext", "selfprev"} =>
       {curr[k], ahead[k]} \subseteq Frames \cup {Head}
  /\ \A w \in Waiters \ Frames : next[w] = w /\ prev[w] = w

\* A waiter sleeps on a true condition only while a waker that has yet to
\* come to it is under way, also if that waker looks at the list without the
\* lock first: one that has not begun, or whose traversal still has the
\* waiter's descriptor before it.
WokenInTime ==
  \A w \in Waiters : wpc[w] = "schedule" /\ w \in asleep /\ cond =>
    \E k \in Wakers :
      \/ kpc[k] \in {"active", "lock"}
      \/ kpc[k] \in {"wake", "unlink"} /\ w \in From(curr[k])
      \/ kpc[k] \in {"selfnext", "selfprev"} /\ w \in From(ahead[k])
=============================================================================
