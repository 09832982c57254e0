-------------------------- MODULE WaitQueueProofs --------------------------
(***************************************************************************)
(* For any number of waiters and wakers the list of a wait queue stays     *)
(* sound, no waker touches a descriptor that is gone and no wake-up is     *)
(* missed.  The invariant names the list: q[1] to q[n] are the descriptors *)
(* on it in order, q[0] and q[n + 1] are its head.                         *)
(***************************************************************************)
EXTENDS WaitQueue, TLAPS

WaiterPts == {"out", "first", "prepare", "test", "schedule", "finish", "careful", "remove"}
WakerPts  == {"idle", "active", "lock", "wake", "unlink", "selfnext", "selfprev"}
Walking   == {"wake", "unlink", "selfnext", "selfprev"}

TypeOK ==
  /\ next \in [Nodes -> Nodes] /\ prev \in [Nodes -> Nodes]
  /\ lock \in Wakers \cup {Nobody} /\ cond \in BOOLEAN
  /\ wpc \in [Waiters -> WaiterPts]
  /\ asleep \subseteq Waiters /\ signalled \subseteq Waiters
  /\ kpc \in [Wakers -> WakerPts]
  /\ curr \in [Wakers -> Nodes] /\ ahead \in [Wakers -> Nodes]

\* The pointers nx and pv link the head and the descriptors q[1] .. q[n].
RingOf(nx, pv, n, q) ==
  /\ q[0] = Head /\ q[n + 1] = Head
  /\ \A i \in 1 .. n : q[i] \in Waiters
  /\ \A i, j \in 0 .. n : q[i] = q[j] => i = j
  /\ \A i \in 0 .. n : nx[q[i]] = q[i + 1] /\ pv[q[i + 1]] = q[i]

On(n, q, x) == \E i \in 1 .. n : q[i] = x
OnOrHead(n, q, x) == \E i \in 1 .. n + 1 : q[i] = x

\* x is off the list, but a waker is still writing its pointers.
Leaving(x) == \E k \in Wakers : kpc[k] \in {"selfnext", "selfprev"} /\ curr[k] = x

WaiterInv(n, q, w) ==
  /\ On(n, q, w) => wpc[w] \notin {"out", "first", "careful"}
  /\ ~On(n, q, w) /\ ~Leaving(w) => next[w] = w /\ prev[w] = w
  /\ w \in asleep => On(n, q, w) /\ wpc[w] \in {"test", "schedule", "finish"}
  /\ wpc[w] = "careful" => next[w] = w

WakerInv(n, q, k) ==
  /\ kpc[k] \in Walking <=> lock = k
  /\ kpc[k] \in {"wake", "unlink"} => OnOrHead(n, q, curr[k]) /\ ahead[k] = next[curr[k]]
  /\ kpc[k] = "unlink" => curr[k] # Head /\ curr[k] \notin asleep
  /\ kpc[k] \in {"selfnext", "selfprev"} =>
       /\ curr[k] \in Frames /\ ~On(n, q, curr[k]) /\ prev[curr[k]] # curr[k]
       /\ OnOrHead(n, q, ahead[k])
  /\ kpc[k] = "selfnext" => next[curr[k]] # curr[k]
  /\ kpc[k] = "selfprev" => next[curr[k]] = curr[k]

\* w is on the list at x or behind it.
Before(n, q, x, w) == \E i, j \in 1 .. n + 1 : i <= j /\ q[i] = x /\ q[j] = w

\* Waker k has yet to come to w.
Coming(n, q, k, w) ==
  \/ kpc[k] \in {"active", "lock"}
  \/ kpc[k] \in {"wake", "unlink"} /\ Before(n, q, curr[k], w)
  \/ kpc[k] \in {"selfnext", "selfprev"} /\ Before(n, q, ahead[k], w)

Missed(w) == wpc[w] = "schedule" /\ w \in asleep /\ cond

WakeInv(n, q) == \A w \in Waiters : Missed(w) => \E k \in Wakers : Coming(n, q, k, w)

QueueInv(n, q) ==
  /\ RingOf(next, prev, n, q) /\ WakeInv(n, q)
  /\ \A w \in Waiters : WaiterInv(n, q, w)
  /\ \A k \in Wakers : WakerInv(n, q, k)

Orders(n) == [0 .. n + 1 -> Nodes]

IInv == TypeOK /\ \E n \in Nat : \E q \in Orders(n) : QueueInv(n, q)
-----------------------------------------------------------------------------
(* Types *)

\* The head is no descriptor and no waker.
LEMMA HeadApart == Head \notin Waiters /\ Head \notin Wakers /\ Nobody = Head
  BY WaitAssumption DEF Nobody

\* The types hold at first.
LEMMA InitType == Init => TypeOK
  BY Zenon DEF Init, TypeOK, Nodes, WaiterPts, WakerPts

\* The waiters keep the types.
LEMMA WaiterType ==
  ASSUME TypeOK, NEW w \in Waiters, shannon_wait_event(w) \/ WaiterStep(w) \/ Signal(w)
  PROVE  TypeOK'
  <1>1. w \in Nodes /\ Head \in Nodes  BY DEF Nodes
  <1>2. CASE shannon_wait_event(w)
    BY <1>2 DEF TypeOK, shannon_wait_event, WGoto, WaiterPts, list, waker
  <1>3. CASE FirstTest(w)
    BY <1>1, <1>3 DEF TypeOK, FirstTest, WGoto, WaiterPts, waker
  <1>4. CASE shannon_prepare_to_wait(w)
    BY <1>1, <1>4 DEF TypeOK, shannon_prepare_to_wait, shannon_list_add, AddedNext, AddedPrev,
                      WGoto, WaiterPts, list, waker
  <1>5. CASE Test(w)
    BY <1>5 DEF TypeOK, Test, WGoto, WaiterPts, list, waker
  <1>6. CASE shannon_schedule(w)
    BY <1>6 DEF TypeOK, shannon_schedule, WGoto, WaiterPts, list, waker
  <1>7. CASE ReadNext(w)
    BY <1>7 DEF TypeOK, ReadNext, WGoto, WaiterPts, list, waker
  <1>8. CASE ReadPrev(w)
    BY <1>8 DEF TypeOK, ReadPrev, WGoto, WaiterPts, list, waker
  <1>9. CASE Remove(w)
    BY <1>1, <1>9, Zenon DEF TypeOK, Remove, shannon_list_del_init, WGoto, WaiterPts, waker
  <1>10. CASE Signal(w)
    BY <1>10 DEF TypeOK, Signal, list, waker
  <1> QED
    BY <1>2, <1>3, <1>4, <1>5, <1>6, <1>7, <1>8, <1>9, <1>10 DEF WaiterStep

\* The wakers keep the types.
LEMMA WakerType ==
  ASSUME TypeOK, NEW k \in Wakers, SetCond(k) \/ WakerStep(k)
  PROVE  TypeOK'
  <1>1. Head \in Nodes  BY DEF Nodes
  <1>2. CASE SetCond(k)
    BY <1>2 DEF TypeOK, SetCond, KGoto, WakerPts, list, waiter
  <1>3. CASE shannon_waitqueue_active(k)
    BY <1>3 DEF TypeOK, shannon_waitqueue_active, KGoto, WakerPts, list, waiter
  <1>4. CASE shannon_wake_up(k)
    BY <1>1, <1>4 DEF TypeOK, shannon_wake_up, KGoto, WakerPts, list, waiter
  <1>5. CASE Wake(k)
    BY <1>5 DEF TypeOK, Wake, Advance, KGoto, WakerPts, list
  <1>6. CASE Unlink(k)
    BY <1>6 DEF TypeOK, Unlink, KGoto, WakerPts, waiter
  <1>7. CASE SelfNext(k)
    BY <1>7 DEF TypeOK, SelfNext, KGoto, WakerPts, waiter
  <1>8. CASE SelfPrev(k)
    BY <1>8 DEF TypeOK, SelfPrev, Advance, KGoto, WakerPts, waiter
  <1>9. CASE Unlock(k)
    BY <1>9 DEF TypeOK, Unlock, KGoto, WakerPts, list, waiter
  <1> QED
    BY <1>2, <1>3, <1>4, <1>5, <1>6, <1>7, <1>8, <1>9 DEF WakerStep
-----------------------------------------------------------------------------
(* The list *)

\* The head's neighbours are the first and the last.
LEMMA RingEnds ==
  ASSUME NEW nx, NEW pv, NEW n \in Nat, NEW q \in Orders(n), RingOf(nx, pv, n, q)
  PROVE  nx[Head] = q[1] /\ pv[Head] = q[n]
  <1>1. 0 \in 0 .. n /\ n \in 0 .. n  OBVIOUS
  <1> QED  BY <1>1 DEF RingOf

\* A descriptor on the list is not the head, nor its own neighbour.
LEMMA RingNode ==
  ASSUME NEW nx, NEW pv, NEW n \in Nat, NEW q \in Orders(n), RingOf(nx, pv, n, q),
         NEW x, On(n, q, x)
  PROVE  x # Head /\ nx[x] # x /\ pv[x] # x
  <1>1. PICK i \in 1 .. n : q[i] = x  BY DEF On
  <1>2. i \in 0 .. n /\ i # 0 /\ i - 1 \in 0 .. n /\ (i - 1) + 1 = i  OBVIOUS
  <1>3. 0 \in 0 .. n /\ q[i] # Head  BY <1>2 DEF RingOf
  <1>4. nx[q[i]] # q[i]
    <2>1. nx[q[i]] = q[i + 1]  BY <1>2 DEF RingOf
    <2>2. CASE i = n  BY <2>1, <2>2, <1>3 DEF RingOf
    <2>3. CASE i # n
      <3>1. i + 1 \in 0 .. n /\ i + 1 # i  BY <2>3
      <3> QED  BY <1>2, <2>1, <3>1 DEF RingOf
    <2> QED  BY <2>2, <2>3
  <1>5. pv[q[i]] = q[i - 1]  BY <1>2 DEF RingOf
  <1>6. q[i - 1] # q[i]  BY <1>2 DEF RingOf
  <1> QED  BY <1>1, <1>3, <1>4, <1>5, <1>6

\* What is in the ring is on the list or is its head.
LEMMA RingOrHead ==
  ASSUME NEW nx, NEW pv, NEW n \in Nat, NEW q \in Orders(n), RingOf(nx, pv, n, q), NEW x
  PROVE  OnOrHead(n, q, x) <=> On(n, q, x) \/ x = Head
  <1>1. n + 1 \in 1 .. n + 1  OBVIOUS
  <1> QED  BY <1>1 DEF RingOf, OnOrHead, On

\* The walk along next stays on the list.
LEMMA RingNext ==
  ASSUME NEW nx, NEW pv, NEW n \in Nat, NEW q \in Orders(n), RingOf(nx, pv, n, q),
         NEW x, OnOrHead(n, q, x)
  PROVE  OnOrHead(n, q, nx[x])
  <1>1. CASE x = Head
    <2>1. 1 \in 1 .. n + 1  OBVIOUS
    <2> QED  BY <1>1, <2>1, RingEnds, Zenon DEF OnOrHead
  <1>2. CASE On(n, q, x)
    <2>1. PICK i \in 1 .. n : q[i] = x  BY <1>2 DEF On
    <2>2. nx[x] = q[i + 1] /\ i + 1 \in 1 .. n + 1  BY <2>1 DEF RingOf
    <2> QED  BY <2>2 DEF OnOrHead
  <1> QED  BY <1>1, <1>2, RingOrHead

-----------------------------------------------------------------------------
(* Waiters that leave the list alone *)

\* The invariant after waiter w went to l, the list and the wakers as they were.
LEMMA WaiterMoves ==
  ASSUME TypeOK, NEW n \in Nat, NEW q \in Orders(n), QueueInv(n, q), NEW w \in Waiters,
         NEW l \in WaiterPts, wpc' = [wpc EXCEPT ![w] = l],
         \A v \in Waiters \ {w} : v \in asleep' <=> v \in asleep,
         UNCHANGED <<next, prev, lock, cond, kpc, curr, ahead>>,
         On(n, q, w) => l \notin {"out", "first", "careful"},
         w \in asleep' => On(n, q, w) /\ l \in {"test", "schedule", "finish"},
         w \in asleep' => w \in asleep \/ lock = Nobody,
         l = "careful" => next[w] = w,
         Leaving(w) => l \notin {"out", "first"},
         l = "schedule" /\ w \in asleep' => ~cond \/ Missed(w)
  PROVE  QueueInv(n, q)'
  <1>1. RingOf(next, prev, n, q)'
    BY DEF QueueInv, RingOf
  <1>2. \A v \in Waiters \ {w} : wpc'[v] = wpc[v]  BY DEF TypeOK
  <1>3. wpc'[w] = l  BY DEF TypeOK
  <1>4. ASSUME NEW v \in Waiters PROVE WaiterInv(n, q, v)'
    <2>1. WaiterInv(n, q, v) /\ (Leaving(v)' <=> Leaving(v)) /\ (On(n, q, v)' <=> On(n, q, v))
      BY DEF QueueInv, Leaving, On
    <2>2. CASE v = w
      BY <1>3, <2>1, <2>2 DEF WaiterInv
    <2>3. CASE v # w
      <3>1. wpc'[v] = wpc[v] /\ (v \in asleep' <=> v \in asleep)  BY <1>2, <2>3
      <3> QED  BY <2>1, <3>1 DEF WaiterInv
    <2> QED  BY <2>2, <2>3
  <1>5. ASSUME NEW k \in Wakers PROVE WakerInv(n, q, k)'
    <2>1. WakerInv(n, q, k)  BY DEF QueueInv
    <2>2. \A x : On(n, q, x)' = On(n, q, x) /\ OnOrHead(n, q, x)' = OnOrHead(n, q, x)
      BY DEF On, OnOrHead
    <2>3. kpc[k] = "unlink" => curr[k] \notin asleep'
      <3> SUFFICES ASSUME kpc[k] = "unlink" PROVE curr[k] \notin asleep'
        OBVIOUS
      <3>1. lock = k /\ lock # Nobody
        BY <2>1, HeadApart DEF WakerInv, Walking
      <3>2. curr[k] \notin asleep /\ curr[k] # Head /\ curr[k] \in Waiters
        BY <2>1 DEF WakerInv, TypeOK, Nodes
      <3> QED  BY <3>1, <3>2
    <2>4. kpc[k] \in {"selfnext", "selfprev"} => curr[k] \in Frames'
      <3> SUFFICES ASSUME kpc[k] \in {"selfnext", "selfprev"} PROVE curr[k] \in Frames'
        OBVIOUS
      <3>1. curr[k] \in Waiters /\ wpc[curr[k]] \notin {"out", "first"}
        BY <2>1 DEF WakerInv, Frames
      <3>2. Leaving(curr[k])  BY DEF Leaving
      <3>3. wpc'[curr[k]] \notin {"out", "first"}  BY <1>2, <1>3, <3>1, <3>2
      <3> QED  BY <3>1, <3>3 DEF Frames
    <2> QED  BY <2>1, <2>2, <2>3, <2>4 DEF WakerInv
  <1>6. WakeInv(n, q)'
    <2> SUFFICES ASSUME NEW v \in Waiters, Missed(v)'
                 PROVE  \E k \in Wakers : Coming(n, q, k, v)'
      BY DEF WakeInv
    <2>1. Missed(v)
      <3>1. CASE v = w  BY <1>3, <3>1 DEF Missed
      <3>2. CASE v # w  BY <1>2, <3>2 DEF Missed
      <3> QED  BY <3>1, <3>2
    <2>2. PICK k \in Wakers : Coming(n, q, k, v)  BY <2>1 DEF QueueInv, WakeInv
    <2>3. Coming(n, q, k, v)'  BY <2>2 DEF Coming, Before
    <2> QED  BY <2>3
  <1> QED  BY <1>1, <1>4, <1>5, <1>6 DEF QueueInv

\* A descriptor that a waker is about to free is its waiter's as long as it
\* is linked or half unlinked.
LEMMA LeavingFacts ==
  ASSUME TypeOK, NEW n \in Nat, NEW q \in Orders(n), QueueInv(n, q), NEW w \in Waiters, Leaving(w)
  PROVE  /\ wpc[w] \notin {"out", "first"} /\ prev[w] # w /\ lock # Nobody /\ ~On(n, q, w)
  <1>1. PICK k \in Wakers : kpc[k] \in {"selfnext", "selfprev"} /\ curr[k] = w  BY DEF Leaving
  <1>2. WakerInv(n, q, k)  BY DEF QueueInv
  <1> QED  BY <1>1, <1>2, HeadApart DEF WakerInv, Walking, Frames

\* A wait begins.
LEMMA WaitBegins ==
  ASSUME TypeOK, NEW n \in Nat, NEW q \in Orders(n), QueueInv(n, q), NEW w \in Waiters,
         shannon_wait_event(w)
  PROVE  QueueInv(n, q)'
  <1>1. WaiterInv(n, q, w)  BY DEF QueueInv
  <1>2. ~Leaving(w)  BY LeavingFacts DEF shannon_wait_event
  <1> QED
    BY <1>1, <1>2, WaiterMoves, Zenon DEF shannon_wait_event, WGoto, WaiterInv, WaiterPts, list, waker

\* The test before a descriptor exists.
LEMMA FirstTestInv ==
  ASSUME TypeOK, NEW n \in Nat, NEW q \in Orders(n), QueueInv(n, q), NEW w \in Waiters,
         FirstTest(w)
  PROVE  QueueInv(n, q)'
  <1>1. WaiterInv(n, q, w) /\ w \in Nodes  BY DEF QueueInv, Nodes
  <1>2. ~Leaving(w)  BY LeavingFacts DEF FirstTest
  <1>3. next[w] = w /\ prev[w] = w /\ ~On(n, q, w)  BY <1>1, <1>2 DEF WaiterInv, FirstTest
  <1>4. next' = next /\ prev' = prev  BY <1>1, <1>3 DEF FirstTest, TypeOK
  <1> QED
    BY <1>1, <1>2, <1>3, <1>4, WaiterMoves, Zenon DEF FirstTest, WGoto, WaiterInv, WaiterPts, waker

\* The test after shannon_prepare_to_wait.
LEMMA TestInv ==
  ASSUME TypeOK, NEW n \in Nat, NEW q \in Orders(n), QueueInv(n, q), NEW w \in Waiters, Test(w)
  PROVE  QueueInv(n, q)'
  <1>1. WaiterInv(n, q, w)  BY DEF QueueInv
  <1>2. UNCHANGED <<next, prev, lock, cond, kpc, curr, ahead, asleep>>
    BY DEF Test, list, waker
  <1>3. CASE cond \/ w \in signalled
    BY <1>1, <1>2, <1>3, WaiterMoves, Zenon DEF Test, WGoto, WaiterInv, WaiterPts
  <1>4. CASE ~(cond \/ w \in signalled)
    BY <1>1, <1>2, <1>4, WaiterMoves, Zenon DEF Test, WGoto, WaiterInv, WaiterPts
  <1> QED  BY <1>3, <1>4

\* shannon_schedule returns to a waiter that is awake.
LEMMA ScheduleInv ==
  ASSUME TypeOK, NEW n \in Nat, NEW q \in Orders(n), QueueInv(n, q), NEW w \in Waiters,
         shannon_schedule(w)
  PROVE  QueueInv(n, q)'
  <1>1. WaiterInv(n, q, w)  BY DEF QueueInv
  <1> QED
    BY <1>1, WaiterMoves, Zenon DEF shannon_schedule, WGoto, WaiterInv, WaiterPts, list, waker

\* The first half of list_empty_careful.
LEMMA ReadNextInv ==
  ASSUME TypeOK, NEW n \in Nat, NEW q \in Orders(n), QueueInv(n, q), NEW w \in Waiters,
         ReadNext(w)
  PROVE  QueueInv(n, q)'
  <1>1. WaiterInv(n, q, w)  BY DEF QueueInv
  <1>2. next[w] = w => ~On(n, q, w)  BY RingNode DEF QueueInv
  <1>3. UNCHANGED <<next, prev, lock, cond, kpc, curr, ahead>> /\ asleep' = asleep \ {w}
    BY DEF ReadNext, list, waker
  <1>4. CASE next[w] = w
    BY <1>1, <1>2, <1>3, <1>4, WaiterMoves, Zenon DEF ReadNext, WGoto, WaiterPts
  <1>5. CASE next[w] # w
    BY <1>1, <1>3, <1>5, WaiterMoves, Zenon DEF ReadNext, WGoto, WaiterPts
  <1> QED  BY <1>4, <1>5

\* The second half of list_empty_careful.
LEMMA ReadPrevInv ==
  ASSUME TypeOK, NEW n \in Nat, NEW q \in Orders(n), QueueInv(n, q), NEW w \in Waiters,
         ReadPrev(w)
  PROVE  QueueInv(n, q)'
  <1>1. WaiterInv(n, q, w)  BY DEF QueueInv
  <1>2. UNCHANGED <<next, prev, lock, cond, kpc, curr, ahead, asleep>>
    BY DEF ReadPrev, list, waker
  <1>3. w \notin asleep /\ ~On(n, q, w)  BY <1>1 DEF WaiterInv, ReadPrev
  <1>4. CASE prev[w] = w
    <2>1. ~Leaving(w)  BY <1>4, LeavingFacts
    <2> QED  BY <1>2, <1>3, <1>4, <2>1, WaiterMoves DEF ReadPrev, WGoto, WaiterPts
  <1>5. CASE prev[w] # w
    BY <1>2, <1>3, <1>5, WaiterMoves DEF ReadPrev, WGoto, WaiterPts
  <1> QED  BY <1>4, <1>5

\* A signal wakes an interruptible waiter.
LEMMA SignalInv ==
  ASSUME TypeOK, NEW n \in Nat, NEW q \in Orders(n), QueueInv(n, q), NEW w \in Waiters, Signal(w)
  PROVE  QueueInv(n, q)'
  <1>1. WaiterInv(n, q, w) /\ (Leaving(w) => wpc[w] \notin {"out", "first"})
    BY LeavingFacts DEF QueueInv
  <1>2. wpc' = [wpc EXCEPT ![w] = wpc[w]] /\ wpc[w] \in WaiterPts  BY DEF Signal, TypeOK
  <1>3. UNCHANGED <<next, prev, lock, cond, kpc, curr, ahead>> /\ asleep' = asleep \ {w}
    BY DEF Signal, list, waker
  <1> QED  BY <1>1, <1>2, <1>3, WaiterMoves, Zenon DEF WaiterInv
-----------------------------------------------------------------------------
(* Wakers that leave the list alone *)

\* Whoever is not k is not walking the list when nobody else has the lock.
LEMMA OthersOutside ==
  ASSUME TypeOK, NEW n \in Nat, NEW q \in Orders(n), QueueInv(n, q), NEW k, lock \in {k, Nobody}
  PROVE  \A j \in Wakers \ {k} : kpc[j] \notin Walking
  BY HeadApart DEF QueueInv, WakerInv

\* A walk that has w before it and is not at w has it before it at the next node.
LEMMA BeforeNext ==
  ASSUME NEW nx, NEW pv, NEW n \in Nat, NEW q \in Orders(n), RingOf(nx, pv, n, q),
         NEW x, NEW w, Before(n, q, x, w), x # w
  PROVE  Before(n, q, nx[x], w)
  <1>1. PICK i \in 1 .. n + 1, j \in 1 .. n + 1 : i <= j /\ q[i] = x /\ q[j] = w  BY DEF Before
  <1>2. i # j  BY <1>1
  <1>3. i \in 0 .. n /\ i + 1 \in 1 .. n + 1 /\ i + 1 <= j  BY <1>1, <1>2
  <1>4. nx[x] = q[i + 1]  BY <1>1, <1>3 DEF RingOf
  <1> QED  BY <1>1, <1>3, <1>4 DEF Before

\* What is on the list is at the head's next or behind it.
LEMMA BeforeFirst ==
  ASSUME NEW nx, NEW pv, NEW n \in Nat, NEW q \in Orders(n), RingOf(nx, pv, n, q),
         NEW w, On(n, q, w)
  PROVE  nx[Head] # Head /\ Before(n, q, nx[Head], w)
  <1>1. PICK j \in 1 .. n : q[j] = w  BY DEF On
  <1>2. 1 \in 1 .. n /\ 1 \in 1 .. n + 1 /\ j \in 1 .. n + 1 /\ 1 <= j  OBVIOUS
  <1>3. q[1] # Head  BY <1>2, RingNode, Zenon DEF On
  <1>4. nx[Head] = q[1]  BY RingEnds, Zenon
  <1> QED  BY <1>1, <1>2, <1>3, <1>4 DEF Before

\* The invariant after waker k went to l, the list as it was.
LEMMA WakerMoves ==
  ASSUME TypeOK, NEW n \in Nat, NEW q \in Orders(n), QueueInv(n, q), NEW k \in Wakers,
         NEW l \in WakerPts \ {"selfnext", "selfprev"}, kpc[k] \notin {"selfnext", "selfprev"},
         kpc' = [kpc EXCEPT ![k] = l],
         \A j \in Wakers \ {k} : curr'[j] = curr[j] /\ ahead'[j] = ahead[j],
         UNCHANGED <<next, prev, wpc>>, asleep' \subseteq asleep,
         asleep' = asleep \/ lock = k,
         lock' = lock \/ {lock, lock'} \subseteq {k, Nobody},
         WakerInv(n, q, k)',
         \A w \in Waiters : Missed(w)' =>
           \/ Coming(n, q, k, w)'
           \/ Missed(w) /\ ~Coming(n, q, k, w)
  PROVE  QueueInv(n, q)'
  <1>1. RingOf(next, prev, n, q)'
    BY DEF QueueInv, RingOf
  <1>2. kpc'[k] = l /\ \A j \in Wakers \ {k} : kpc'[j] = kpc[j]  BY DEF TypeOK
  <1>3. \A x : /\ Leaving(x)' <=> Leaving(x)
               /\ On(n, q, x)' <=> On(n, q, x)
               /\ OnOrHead(n, q, x)' <=> OnOrHead(n, q, x)
    BY <1>2 DEF Leaving, On, OnOrHead
  <1>4. ASSUME NEW v \in Waiters PROVE WaiterInv(n, q, v)'
    <2>1. WaiterInv(n, q, v)  BY DEF QueueInv
    <2> QED  BY <1>3, <2>1 DEF WaiterInv
  <1>5. ASSUME NEW j \in Wakers PROVE WakerInv(n, q, j)'
    <2>1. CASE j = k  BY <2>1
    <2>2. CASE j # k /\ kpc[j] \in Walking
      <3>1. WakerInv(n, q, j)  BY Zenon DEF QueueInv
      <3>2. lock = j  BY <2>2, <3>1 DEF WakerInv
      <3>3. lock' = lock /\ asleep' = asleep  BY <2>2, <3>2, HeadApart
      <3>4. kpc'[j] = kpc[j] /\ curr'[j] = curr[j] /\ ahead'[j] = ahead[j]  BY <1>2, <2>2
      <3>5. Frames' = Frames  BY DEF Frames
      <3> QED  BY <1>3, <3>1, <3>3, <3>4, <3>5 DEF WakerInv
    <2>3. CASE j # k /\ kpc[j] \notin Walking
      <3>1. WakerInv(n, q, j)  BY DEF QueueInv
      <3>2. lock # j  BY <2>3, <3>1 DEF WakerInv
      <3>3. lock' # j  BY <2>3, <3>2, HeadApart
      <3>4. kpc'[j] \notin Walking  BY <1>2, <2>3
      <3> QED  BY <3>3, <3>4 DEF WakerInv, Walking
    <2> QED  BY <2>1, <2>2, <2>3
  <1>6. WakeInv(n, q)'
    <2> SUFFICES ASSUME NEW v \in Waiters, Missed(v)'
                 PROVE  \E j \in Wakers : Coming(n, q, j, v)'
      BY DEF WakeInv
    <2>1. CASE Coming(n, q, k, v)'  BY <2>1
    <2>2. CASE Missed(v) /\ ~Coming(n, q, k, v)
      <3>1. PICK j \in Wakers : Coming(n, q, j, v)  BY <2>2 DEF QueueInv, WakeInv
      <3>2. j # k  BY <2>2, <3>1
      <3>3. kpc'[j] = kpc[j] /\ curr'[j] = curr[j] /\ ahead'[j] = ahead[j]  BY <1>2, <3>2
      <3>4. Coming(n, q, j, v)'  BY <3>1, <3>3 DEF Coming, Before
      <3> QED  BY <3>4
    <2> QED  BY <2>1, <2>2
  <1> QED  BY <1>1, <1>4, <1>5, <1>6 DEF QueueInv

\* A waker makes the condition true.
LEMMA SetCondInv ==
  ASSUME TypeOK, NEW n \in Nat, NEW q \in Orders(n), QueueInv(n, q), NEW k \in Wakers, SetCond(k)
  PROVE  QueueInv(n, q)'
  <1>1. PICK l \in {"active", "lock"} : kpc' = [kpc EXCEPT ![k] = l]  BY Zenon DEF SetCond, KGoto
  <1>2. kpc'[k] = l  BY <1>1 DEF TypeOK
  <1>3. UNCHANGED <<next, prev, wpc, asleep, lock, curr, ahead>> /\ kpc[k] = "idle"
    BY DEF SetCond, list, waiter
  <1>4. lock # k  BY <1>3 DEF QueueInv, WakerInv, Walking
  <1>5. WakerInv(n, q, k)'  BY <1>2, <1>3, <1>4 DEF WakerInv, Walking
  <1>6. \A w : Coming(n, q, k, w)'  BY <1>2 DEF Coming
  <1> QED  BY <1>1, <1>3, <1>5, <1>6, WakerMoves, Zenon DEF WakerPts

\* A waker looks at the list without the lock.
LEMMA ActiveInv ==
  ASSUME TypeOK, NEW n \in Nat, NEW q \in Orders(n), QueueInv(n, q), NEW k \in Wakers,
         shannon_waitqueue_active(k)
  PROVE  QueueInv(n, q)'
  <1>1. PICK l \in {"idle", "lock"} : /\ kpc' = [kpc EXCEPT ![k] = l]
                                      /\ l = "idle" => next[Head] = Head
    BY Zenon DEF shannon_waitqueue_active, KGoto
  <1>2. kpc'[k] = l  BY <1>1 DEF TypeOK
  <1>3. UNCHANGED <<next, prev, wpc, asleep, lock, cond, curr, ahead>> /\ kpc[k] = "active"
    BY DEF shannon_waitqueue_active, list, waiter
  <1>4. lock # k  BY <1>3 DEF QueueInv, WakerInv, Walking
  <1>5. WakerInv(n, q, k)'  BY <1>2, <1>3, <1>4 DEF WakerInv, Walking
  <1>6. ASSUME NEW w \in Waiters, Missed(w)' PROVE Coming(n, q, k, w)'
    <2>1. On(n, q, w)  BY <1>3, <1>6 DEF Missed, QueueInv, WaiterInv
    <2>2. l = "lock"  BY <1>1, <2>1, BeforeFirst DEF QueueInv
    <2> QED  BY <1>2, <2>2 DEF Coming
  <1> QED  BY <1>1, <1>3, <1>5, <1>6, WakerMoves, Zenon DEF WakerPts

\* A waker takes the lock.
LEMMA WakeUpInv ==
  ASSUME TypeOK, NEW n \in Nat, NEW q \in Orders(n), QueueInv(n, q), NEW k \in Wakers,
         shannon_wake_up(k)
  PROVE  QueueInv(n, q)'
  <1>1. kpc' = [kpc EXCEPT ![k] = "wake"] /\ kpc'[k] = "wake"
    BY DEF shannon_wake_up, KGoto, TypeOK
  <1>2. UNCHANGED <<next, prev, wpc, asleep, cond>> /\ kpc[k] = "lock" /\ lock = Nobody /\ lock' = k
    BY DEF shannon_wake_up, list, waiter
  <1>3. /\ curr'[k] = next[Head] /\ ahead'[k] = next[next[Head]]
        /\ \A j \in Wakers \ {k} : curr'[j] = curr[j] /\ ahead'[j] = ahead[j]
    BY DEF shannon_wake_up, TypeOK
  <1>4. OnOrHead(n, q, next[Head])  BY RingOrHead, RingNext DEF QueueInv
  <1>5. WakerInv(n, q, k)'  BY <1>1, <1>2, <1>3, <1>4 DEF WakerInv, Walking, OnOrHead
  <1>6. ASSUME NEW w \in Waiters, Missed(w)' PROVE Coming(n, q, k, w)'
    <2>1. On(n, q, w)  BY <1>2, <1>6 DEF Missed, QueueInv, WaiterInv
    <2>2. Before(n, q, next[Head], w)  BY <2>1, BeforeFirst DEF QueueInv
    <2> QED  BY <1>1, <1>3, <2>2 DEF Coming, Before
  <1> QED  BY <1>1, <1>2, <1>3, <1>5, <1>6, WakerMoves, Zenon DEF WakerPts

\* A waker looks at the descriptor at hand.
LEMMA WakeInvs ==
  ASSUME TypeOK, NEW n \in Nat, NEW q \in Orders(n), QueueInv(n, q), NEW k \in Wakers, Wake(k)
  PROVE  QueueInv(n, q)'
  <1>1. WakerInv(n, q, k) /\ RingOf(next, prev, n, q)  BY DEF QueueInv
  <1>2. /\ kpc[k] = "wake" /\ curr[k] # Head /\ UNCHANGED <<next, prev, lock, cond, wpc>>
        /\ lock = k /\ OnOrHead(n, q, curr[k]) /\ ahead[k] = next[curr[k]]
    BY <1>1 DEF Wake, list, WakerInv, Walking
  <1>3. CASE curr[k] \in asleep
    <2>1. /\ asleep' = asleep \ {curr[k]} /\ UNCHANGED <<curr, ahead>>
          /\ kpc' = [kpc EXCEPT ![k] = "unlink"] /\ kpc'[k] = "unlink"
      BY <1>3 DEF Wake, KGoto, TypeOK
    <2>2. WakerInv(n, q, k)'
      BY <1>2, <2>1 DEF WakerInv, Walking, OnOrHead
    <2>3. ASSUME NEW w \in Waiters, Missed(w)', Coming(n, q, k, w) PROVE Coming(n, q, k, w)'
      BY <1>2, <2>1, <2>3 DEF Coming, Before
    <2>4. \A w \in Waiters : Missed(w)' => Missed(w)  BY <1>2, <2>1 DEF Missed
    <2> QED  BY <1>2, <2>1, <2>2, <2>3, <2>4, WakerMoves, Zenon DEF WakerPts
  <1>4. CASE curr[k] \notin asleep
    <2>1. /\ asleep' = asleep /\ kpc' = [kpc EXCEPT ![k] = "wake"] /\ kpc'[k] = "wake"
          /\ curr'[k] = ahead[k] /\ ahead'[k] = next[ahead[k]]
          /\ \A j \in Wakers \ {k} : curr'[j] = curr[j] /\ ahead'[j] = ahead[j]
      BY <1>4 DEF Wake, Advance, KGoto, TypeOK
    <2>2. OnOrHead(n, q, next[curr[k]])  BY <1>1, <1>2, RingNext
    <2>3. WakerInv(n, q, k)'
      BY <1>2, <2>1, <2>2 DEF WakerInv, Walking, OnOrHead
    <2>4. ASSUME NEW w \in Waiters, Missed(w)', Coming(n, q, k, w) PROVE Coming(n, q, k, w)'
      <3>1. w # curr[k] /\ Before(n, q, curr[k], w)
        BY <1>2, <1>4, <2>1, <2>4 DEF Coming, Missed
      <3>2. Before(n, q, next[curr[k]], w)  BY <1>1, <3>1, BeforeNext
      <3> QED  BY <1>2, <2>1, <3>2 DEF Coming, Before
    <2>5. \A w \in Waiters : Missed(w)' => Missed(w)  BY <1>2, <2>1 DEF Missed
    <2> QED  BY <1>2, <2>1, <2>3, <2>4, <2>5, WakerMoves, Zenon DEF WakerPts
  <1> QED  BY <1>3, <1>4

\* A walk that is back at the head has no descriptor before it.
LEMMA NoneAtHead ==
  ASSUME NEW nx, NEW pv, NEW n \in Nat, NEW q \in Orders(n), RingOf(nx, pv, n, q),
         NEW w, Before(n, q, Head, w)
  PROVE  w = Head
  <1>1. PICK i \in 1 .. n + 1, j \in 1 .. n + 1 : i <= j /\ q[i] = Head /\ q[j] = w  BY DEF Before
  <1>2. i \notin 1 .. n  BY <1>1, RingNode, Zenon DEF On
  <1>3. i = n + 1 /\ j = n + 1  BY <1>1, <1>2
  <1> QED  BY <1>1, <1>3 DEF RingOf

\* A waker at the end of the list gives the lock back.
LEMMA UnlockInv ==
  ASSUME TypeOK, NEW n \in Nat, NEW q \in Orders(n), QueueInv(n, q), NEW k \in Wakers, Unlock(k)
  PROVE  QueueInv(n, q)'
  <1>1. WakerInv(n, q, k) /\ RingOf(next, prev, n, q)  BY DEF QueueInv
  <1>2. /\ kpc[k] = "wake" /\ curr[k] = Head /\ UNCHANGED <<next, prev, cond, wpc, asleep, curr, ahead>>
        /\ lock = k /\ lock' = Nobody
    BY <1>1 DEF Unlock, list, waiter, WakerInv, Walking
  <1>3. kpc' = [kpc EXCEPT ![k] = "idle"] /\ kpc'[k] = "idle"  BY DEF Unlock, KGoto, TypeOK
  <1>4. WakerInv(n, q, k)'  BY <1>2, <1>3, HeadApart DEF WakerInv, Walking
  <1>5. ASSUME NEW w \in Waiters PROVE ~Coming(n, q, k, w)
    BY <1>1, <1>2, HeadApart, NoneAtHead DEF Coming
  <1>6. \A w \in Waiters : Missed(w)' => Missed(w)  BY <1>2 DEF Missed
  <1> QED  BY <1>2, <1>3, <1>4, <1>5, <1>6, WakerMoves, Zenon DEF WakerPts

\* The condition becomes false.
LEMMA ResetInv ==
  ASSUME TypeOK, NEW n \in Nat, NEW q \in Orders(n), QueueInv(n, q), ResetCond
  PROVE  QueueInv(n, q)'
  <1>1. UNCHANGED <<next, prev, lock, wpc, asleep, kpc, curr, ahead>> /\ ~cond'
    BY DEF ResetCond, list, waiter, waker
  <1>2. RingOf(next, prev, n, q)'  BY <1>1 DEF QueueInv, RingOf
  <1>3. \A x : /\ Leaving(x)' <=> Leaving(x)
               /\ On(n, q, x)' <=> On(n, q, x)
               /\ OnOrHead(n, q, x)' <=> OnOrHead(n, q, x)
    BY <1>1 DEF Leaving, On, OnOrHead
  <1>4. Frames' = Frames  BY <1>1 DEF Frames
  <1>5. \A w \in Waiters : WaiterInv(n, q, w)'  BY <1>1, <1>3 DEF QueueInv, WaiterInv
  <1>6. ASSUME NEW k \in Wakers PROVE WakerInv(n, q, k)'
    <2>1. WakerInv(n, q, k)  BY DEF QueueInv
    <2> QED  BY <1>1, <1>3, <1>4, <2>1 DEF WakerInv
  <1>7. WakeInv(n, q)'  BY <1>1 DEF WakeInv, Missed
  <1> QED  BY <1>2, <1>5, <1>6, <1>7 DEF QueueInv
-----------------------------------------------------------------------------
(* The list after a descriptor was removed or added *)

\* Writing the pointers of a node that is off the list leaves the list alone.
LEMMA OffRing ==
  ASSUME NEW nx \in [Nodes -> Nodes], NEW pv \in [Nodes -> Nodes], NEW n \in Nat,
         NEW q \in Orders(n), RingOf(nx, pv, n, q), NEW x \in Nodes, ~OnOrHead(n, q, x), NEW y
  PROVE  /\ RingOf([nx EXCEPT ![x] = y], pv, n, q)
         /\ RingOf(nx, [pv EXCEPT ![x] = y], n, q)
  <1>1. \A i \in 0 .. n : q[i] # x /\ q[i + 1] # x /\ q[i] \in Nodes /\ q[i + 1] \in Nodes
    <2> TAKE i \in 0 .. n
    <2>1. i + 1 \in 1 .. n + 1 /\ i + 1 \in 0 .. n + 1 /\ i \in 0 .. n + 1  OBVIOUS
    <2>2. q[i + 1] # x  BY <2>1 DEF OnOrHead
    <2>3. q[i] # x
      <3>1. CASE i = 0
        <4>1. n + 1 \in 1 .. n + 1  OBVIOUS
        <4> QED  BY <3>1, <4>1 DEF RingOf, OnOrHead
      <3>2. CASE i # 0
        <4>1. i \in 1 .. n + 1  BY <3>2
        <4> QED  BY <4>1 DEF OnOrHead
      <3> QED  BY <3>1, <3>2
    <2> QED  BY <2>1, <2>2, <2>3 DEF Orders
  <1>2. \A z \in Nodes : z # x => [nx EXCEPT ![x] = y][z] = nx[z] /\ [pv EXCEPT ![x] = y][z] = pv[z]
    OBVIOUS
  <1> QED  BY <1>1, <1>2 DEF RingOf

\* The list q without its c-th descriptor.
Drop(n, q, c) == [i \in 0 .. n |-> IF i < c THEN q[i] ELSE q[i + 1]]

\* The list without its descriptor c.
LEMMA DropList ==
  ASSUME NEW n \in Nat, NEW q \in Orders(n), NEW c \in 1 .. n
  PROVE  /\ n - 1 \in Nat /\ Drop(n, q, c) \in Orders(n - 1)
         /\ \A i \in 0 .. c - 1 : Drop(n, q, c)[i] = q[i]
         /\ \A i \in c .. n : Drop(n, q, c)[i] = q[i + 1]
  <1>1. 0 .. (n - 1) + 1 = 0 .. n /\ n - 1 \in Nat  OBVIOUS
  <1>2. \A i \in 0 .. n : q[i] \in Nodes /\ q[i + 1] \in Nodes  BY DEF Orders
  <1>3. Drop(n, q, c) \in [0 .. n -> Nodes]  BY <1>2 DEF Drop
  <1>4. \A i \in 0 .. c - 1 : i \in 0 .. n /\ i < c  OBVIOUS
  <1>5. \A i \in c .. n : i \in 0 .. n /\ ~(i < c)  OBVIOUS
  <1> QED  BY <1>1, <1>3, <1>4, <1>5 DEF Drop, Orders

\* Without the c-th, the others are on the list in the same order.
LEMMA DropOn ==
  ASSUME NEW nx, NEW pv, NEW n \in Nat, NEW q \in Orders(n), RingOf(nx, pv, n, q),
         NEW c \in 1 .. n, NEW x, x # q[c]
  PROVE  /\ On(n - 1, Drop(n, q, c), x) <=> On(n, q, x)
         /\ \A y : y # q[c] /\ Before(n, q, x, y) => Before(n - 1, Drop(n, q, c), x, y)
  <1> DEFINE r == Drop(n, q, c)
  <1>0. n - 1 \in Nat /\ (n - 1) + 1 = n  OBVIOUS
  <1>1. /\ \A i \in 0 .. c - 1 : r[i] = q[i]
        /\ \A i \in c .. n : r[i] = q[i + 1]
    BY DropList
  <1> HIDE DEF r
  <1>2. ASSUME NEW i \in 1 .. n + 1, q[i] # q[c]
        PROVE  \E j \in 1 .. n : r[j] = q[i] /\ j = IF i < c THEN i ELSE i - 1
    <2>1. CASE i < c
      <3>1. i \in 0 .. c - 1 /\ i \in 1 .. n  BY <2>1
      <3> QED  BY <1>1, <2>1, <3>1
    <2>2. CASE i > c
      <3>1. i - 1 \in c .. n /\ (i - 1) + 1 = i /\ i - 1 \in 1 .. n /\ ~(i < c)  BY <2>2
      <3> QED  BY <1>1, <2>2, <3>1
    <2> QED  BY <1>2, <2>1, <2>2
  <1>3. ASSUME On(n, q, x) PROVE On(n - 1, r, x)
    <2>1. PICK i \in 1 .. n : q[i] = x  BY <1>3 DEF On
    <2>2. i \in 1 .. n + 1 /\ i # c  BY <2>1
    <2>3. PICK j \in 1 .. n : r[j] = q[i] /\ j = IF i < c THEN i ELSE i - 1  BY <1>2, <2>1, <2>2
    <2>4. j \in 1 .. n - 1  BY <2>2, <2>3
    <2> QED  BY <2>1, <2>3, <2>4 DEF On
  <1>4. ASSUME On(n - 1, r, x) PROVE On(n, q, x)
    <2>1. PICK i \in 1 .. n - 1 : r[i] = x  BY <1>4 DEF On
    <2>2. CASE i < c
      <3>1. i \in 0 .. c - 1 /\ i \in 1 .. n  BY <2>2
      <3> QED  BY <1>1, <2>1, <3>1 DEF On
    <2>3. CASE ~(i < c)
      <3>1. i \in c .. n /\ i + 1 \in 1 .. n  BY <2>3
      <3> QED  BY <1>1, <2>1, <3>1 DEF On
    <2> QED  BY <2>2, <2>3
  <1>5. ASSUME NEW y, y # q[c], Before(n, q, x, y) PROVE Before(n - 1, r, x, y)
    <2>1. PICK i \in 1 .. n + 1, j \in 1 .. n + 1 : i <= j /\ q[i] = x /\ q[j] = y
      BY <1>5 DEF Before
    <2>2. PICK a \in 1 .. n : r[a] = q[i] /\ a = IF i < c THEN i ELSE i - 1  BY <1>2, <2>1
    <2>3. PICK b \in 1 .. n : r[b] = q[j] /\ b = IF j < c THEN j ELSE j - 1  BY <1>2, <1>5, <2>1
    <2>4. a <= b
      <3>1. i # c  BY <2>1
      <3> QED  BY <2>1, <2>2, <2>3, <3>1
    <2> QED  BY <1>0, <2>1, <2>2, <2>3, <2>4 DEF Before
  <1> QED  BY <1>3, <1>4, <1>5 DEF r

\* The links of that list.
LEMMA DropRing ==
  ASSUME NEW nx \in [Nodes -> Nodes], NEW pv \in [Nodes -> Nodes], NEW n \in Nat,
         NEW q \in Orders(n), RingOf(nx, pv, n, q), NEW c \in 1 .. n, NEW x, x = q[c]
  PROVE  /\ RingOf([nx EXCEPT ![pv[x]] = nx[x]], [pv EXCEPT ![nx[x]] = pv[x]], n - 1, Drop(n, q, c))
         /\ ~On(n - 1, Drop(n, q, c), x)
  <1> DEFINE r == Drop(n, q, c)
             f == [nx EXCEPT ![pv[x]] = nx[x]]
             g == [pv EXCEPT ![nx[x]] = pv[x]]
  <1>0. n - 1 \in Nat /\ (n - 1) + 1 = n  OBVIOUS
  <1>1. /\ \A i \in 0 .. c - 1 : r[i] = q[i]
        /\ \A i \in c .. n : r[i] = q[i + 1]
    BY DropList
  <1>2. c - 1 \in 0 .. n /\ c \in 0 .. n /\ (c - 1) + 1 = c /\ c - 1 \in 0 .. n + 1 /\ c + 1 \in 0 .. n + 1
    OBVIOUS
  <1>3. nx[x] = q[c + 1] /\ pv[x] = q[c - 1]  BY <1>2 DEF RingOf
  <1>4. \A i \in 0 .. n + 1 : q[i] \in Nodes  BY DEF Orders
  <1>5. \A y \in Nodes : f[y] = IF y = q[c - 1] THEN q[c + 1] ELSE nx[y]
    BY <1>2, <1>3, <1>4
  <1>6. \A y \in Nodes : g[y] = IF y = q[c + 1] THEN q[c - 1] ELSE pv[y]
    BY <1>2, <1>3, <1>4
  <1> HIDE DEF r, f, g
  <1>7. r[0] = Head /\ r[n] = Head
    <2>1. 0 \in 0 .. c - 1 /\ n \in c .. n  OBVIOUS
    <2> QED  BY <1>1, <2>1 DEF RingOf
  <1>8. ASSUME NEW i \in 0 .. n PROVE q[i] = q[c - 1] => i = c - 1
    BY <1>2 DEF RingOf
  <1>9. ASSUME NEW i \in 1 .. n + 1 PROVE q[i] = q[c + 1] => i = c + 1
    <2>1. \A j \in 1 .. n : q[j] # Head  BY RingNode DEF On
    <2>2. q[n + 1] = Head  BY DEF RingOf
    <2>3. CASE i = n + 1 \/ c = n
      <3>1. i \notin 1 .. n => i = n + 1  OBVIOUS
      <3>2. c + 1 \notin 1 .. n => c + 1 = n + 1  OBVIOUS
      <3> QED  BY <2>1, <2>2, <2>3, <3>1, <3>2
    <2>4. CASE i # n + 1 /\ c # n
      <3>1. i \in 0 .. n /\ c + 1 \in 0 .. n  BY <2>4
      <3> QED  BY <3>1 DEF RingOf
    <2> QED  BY <2>3, <2>4
  <1>10. ASSUME NEW i \in 0 .. n - 1 PROVE f[r[i]] = r[i + 1] /\ g[r[i + 1]] = r[i]
    <2>1. CASE i < c - 1
      <3>1. i \in 0 .. c - 1 /\ i + 1 \in 0 .. c - 1 /\ i \in 0 .. n /\ i + 1 \in 1 .. n + 1
            /\ i # c - 1 /\ i + 1 # c + 1 /\ i \in 0 .. n + 1 /\ i + 1 \in 0 .. n + 1
        BY <2>1
      <3>2. r[i] = q[i] /\ r[i + 1] = q[i + 1] /\ q[i] # q[c - 1] /\ q[i + 1] # q[c + 1]
        BY <1>1, <1>8, <1>9, <3>1
      <3>3. nx[q[i]] = q[i + 1] /\ pv[q[i + 1]] = q[i]  BY <3>1 DEF RingOf
      <3> QED  BY <1>4, <1>5, <1>6, <3>1, <3>2, <3>3
    <2>2. CASE i = c - 1
      <3>1. i \in 0 .. c - 1 /\ i + 1 = c /\ c \in c .. n  BY <2>2
      <3>2. r[i] = q[c - 1] /\ r[i + 1] = q[c + 1]  BY <1>1, <2>2, <3>1
      <3> QED  BY <1>2, <1>4, <1>5, <1>6, <3>2
    <2>3. CASE i > c - 1
      <3>1. i \in c .. n /\ i + 1 \in c .. n /\ i + 1 \in 0 .. n /\ (i + 1) + 1 \in 1 .. n + 1
            /\ i + 1 # c - 1 /\ (i + 1) + 1 # c + 1 /\ i + 1 \in 0 .. n + 1 /\ (i + 1) + 1 \in 0 .. n + 1
        BY <2>3
      <3>2. /\ r[i] = q[i + 1] /\ r[i + 1] = q[(i + 1) + 1]
            /\ q[i + 1] # q[c - 1] /\ q[(i + 1) + 1] # q[c + 1]
        BY <1>1, <1>8, <1>9, <3>1
      <3>3. nx[q[i + 1]] = q[(i + 1) + 1] /\ pv[q[(i + 1) + 1]] = q[i + 1]  BY <3>1 DEF RingOf
      <3> QED  BY <1>4, <1>5, <1>6, <3>1, <3>2, <3>3
    <2> QED  BY <2>1, <2>2, <2>3
  <1>11. \A i \in 0 .. n - 1 : \E a \in 0 .. n : /\ r[i] = q[a] /\ a = IF i < c THEN i ELSE i + 1
    <2> TAKE i \in 0 .. n - 1
    <2>1. CASE i < c
      <3>1. i \in 0 .. c - 1 /\ i \in 0 .. n  BY <2>1
      <3> QED  BY <1>1, <2>1, <3>1
    <2>2. CASE ~(i < c)
      <3>1. i \in c .. n /\ i + 1 \in 0 .. n  BY <2>2
      <3> QED  BY <1>1, <2>2, <3>1
    <2> QED  BY <2>1, <2>2
  <1>12. ASSUME NEW i \in 0 .. n - 1, NEW j \in 0 .. n - 1, r[i] = r[j] PROVE i = j
    <2>1. PICK a \in 0 .. n : r[i] = q[a] /\ a = IF i < c THEN i ELSE i + 1  BY <1>11
    <2>2. PICK b \in 0 .. n : r[j] = q[b] /\ b = IF j < c THEN j ELSE j + 1  BY <1>11
    <2>3. a = b  BY <1>12, <2>1, <2>2, Zenon DEF RingOf
    <2> QED  BY <2>1, <2>2, <2>3
  <1>13. ASSUME NEW i \in 1 .. n - 1 PROVE r[i] \in Waiters /\ r[i] # x
    <2>1. i \in 0 .. n - 1  OBVIOUS
    <2>2. PICK a \in 0 .. n : r[i] = q[a] /\ a = IF i < c THEN i ELSE i + 1  BY <1>11, <2>1
    <2>3. a # c /\ a \in 1 .. n  BY <2>2
    <2> QED  BY <1>2, <2>2, <2>3 DEF RingOf
  <1>14. RingOf(f, g, n - 1, r)
    BY <1>0, <1>7, <1>10, <1>12, <1>13 DEF RingOf
  <1> QED  BY <1>13, <1>14 DEF On, f, g, r

\* The list q with w in front.
Push(n, q, w) == [i \in 0 .. n + 2 |-> IF i = 0 THEN Head ELSE IF i = 1 THEN w ELSE q[i - 1]]

\* The list with one descriptor more.
LEMMA PushList ==
  ASSUME NEW n \in Nat, NEW q \in Orders(n), NEW w \in Waiters
  PROVE  /\ n + 1 \in Nat /\ Push(n, q, w) \in Orders(n + 1)
         /\ Push(n, q, w)[0] = Head /\ Push(n, q, w)[1] = w
         /\ \A i \in 2 .. n + 2 : Push(n, q, w)[i] = q[i - 1]
         /\ \A x : On(n + 1, Push(n, q, w), x) <=> On(n, q, x) \/ x = w
  <1> DEFINE r == Push(n, q, w)
  <1>1. 0 .. (n + 1) + 1 = 0 .. n + 2 /\ n + 1 \in Nat  OBVIOUS
  <1>2. \A i \in 2 .. n + 2 : i - 1 \in 0 .. n + 1 /\ i \in 0 .. n + 2 /\ i # 0 /\ i # 1  OBVIOUS
  <1>3. 0 \in 0 .. n + 2 /\ 1 \in 0 .. n + 2 /\ 1 # 0  OBVIOUS
  <1>4. r[0] = Head /\ r[1] = w /\ \A i \in 2 .. n + 2 : r[i] = q[i - 1]
    BY <1>2, <1>3 DEF Push
  <1>5. r \in [0 .. n + 2 -> Nodes]
    <2>1. \A i \in 0 .. n + 2 : i = 0 \/ i = 1 \/ i \in 2 .. n + 2  OBVIOUS
    <2>2. Head \in Nodes /\ w \in Nodes /\ \A i \in 0 .. n + 1 : q[i] \in Nodes
      BY DEF Nodes, Orders
    <2>3. \A i \in 0 .. n + 2 : r[i] \in Nodes  BY <1>2, <1>4, <2>1, <2>2
    <2> QED  BY <2>3 DEF Push
  <1> HIDE DEF r
  <1>6. ASSUME NEW x PROVE On(n + 1, r, x) <=> On(n, q, x) \/ x = w
    <2>1. ASSUME On(n + 1, r, x) PROVE On(n, q, x) \/ x = w
      <3>1. PICK i \in 1 .. n + 1 : r[i] = x  BY <2>1 DEF On
      <3>2. CASE i = 1  BY <1>4, <3>1, <3>2
      <3>3. CASE i # 1
        <4>1. i \in 2 .. n + 2 /\ i - 1 \in 1 .. n  BY <3>3
        <4> QED  BY <1>4, <3>1, <4>1 DEF On
      <3> QED  BY <3>2, <3>3
    <2>2. ASSUME On(n, q, x) PROVE On(n + 1, r, x)
      <3>1. PICK i \in 1 .. n : q[i] = x  BY <2>2 DEF On
      <3>2. i + 1 \in 2 .. n + 2 /\ (i + 1) - 1 = i /\ i + 1 \in 1 .. n + 1  OBVIOUS
      <3> QED  BY <1>4, <3>1, <3>2 DEF On
    <2>3. ASSUME x = w PROVE On(n + 1, r, x)
      <3>1. 1 \in 1 .. n + 1  OBVIOUS
      <3> QED  BY <1>4, <2>3, <3>1 DEF On
    <2> QED  BY <2>1, <2>2, <2>3
  <1> QED  BY <1>1, <1>4, <1>5, <1>6 DEF r, Orders

\* The links of that list.
LEMMA PushRing ==
  ASSUME NEW nx \in [Nodes -> Nodes], NEW pv \in [Nodes -> Nodes], NEW n \in Nat,
         NEW q \in Orders(n), RingOf(nx, pv, n, q), NEW w \in Waiters, ~On(n, q, w)
  PROVE  RingOf([nx EXCEPT ![w] = nx[Head], ![Head] = w],
                [[pv EXCEPT ![nx[Head]] = w] EXCEPT ![w] = Head], n + 1, Push(n, q, w))
  <1> DEFINE r == Push(n, q, w)
             f == [nx EXCEPT ![w] = nx[Head], ![Head] = w]
             g == [[pv EXCEPT ![nx[Head]] = w] EXCEPT ![w] = Head]
  <1>1. r[0] = Head /\ r[1] = w /\ \A i \in 2 .. n + 2 : r[i] = q[i - 1]  BY PushList
  <1>2. w \in Nodes /\ Head \in Nodes /\ w # Head /\ \A i \in 0 .. n + 1 : q[i] \in Nodes
    BY HeadApart DEF Nodes, Orders
  <1>3. nx[Head] = q[1] /\ 1 \in 0 .. n + 1 /\ 0 \in 0 .. n  BY RingEnds
  <1>4. \A i \in 0 .. n + 1 : q[i] # w
    <2> TAKE i \in 0 .. n + 1
    <2>1. CASE i \in 1 .. n  BY <2>1 DEF On
    <2>2. CASE i \notin 1 .. n
      <3>1. i = 0 \/ i = n + 1  BY <2>2
      <3> QED  BY <1>2, <3>1 DEF RingOf
    <2> QED  BY <2>1, <2>2
  <1>5. \A y \in Nodes : f[y] = IF y = Head THEN w ELSE IF y = w THEN q[1] ELSE nx[y]
    BY <1>2, <1>3
  <1>6. \A y \in Nodes : g[y] = IF y = w THEN Head ELSE IF y = q[1] THEN w ELSE pv[y]
    BY <1>2, <1>3
  <1> HIDE DEF r, f, g
  <1>7. r[n + 2] = Head
    <2>1. n + 2 \in 2 .. n + 2 /\ (n + 2) - 1 = n + 1  OBVIOUS
    <2> QED  BY <1>1, <2>1 DEF RingOf
  <1>8. ASSUME NEW i \in 1 .. n + 1 PROVE q[i] = q[1] => i = 1
    <2>1. \A j \in 1 .. n : q[j] # Head  BY RingNode DEF On
    <2>2. q[n + 1] = Head  BY DEF RingOf
    <2>3. CASE i = n + 1 /\ n # 0
      <3>1. 1 \in 1 .. n  BY <2>3
      <3> QED  BY <2>1, <2>2, <2>3, <3>1
    <2>4. CASE i = n + 1 /\ n = 0  BY <2>4
    <2>5. CASE i # n + 1
      <3>1. i \in 0 .. n /\ 1 \in 0 .. n  BY <2>5
      <3> QED  BY <3>1 DEF RingOf
    <2> QED  BY <2>3, <2>4, <2>5
  <1>9. ASSUME NEW i \in 0 .. n + 1 PROVE f[r[i]] = r[i + 1] /\ g[r[i + 1]] = r[i]
    <2>1. CASE i = 0
      <3>1. f[Head] = w /\ g[w] = Head  BY <1>2, <1>5, <1>6
      <3>2. r[i] = Head /\ r[i + 1] = w  BY <1>1, <2>1
      <3> QED  BY <3>1, <3>2
    <2>2. CASE i = 1
      <3>1. 2 \in 2 .. n + 2 /\ 2 - 1 = 1  OBVIOUS
      <3>2. r[i] = w /\ r[i + 1] = q[1]  BY <1>1, <2>2, <3>1
      <3>3. f[w] = q[1] /\ g[q[1]] = w  BY <1>2, <1>3, <1>4, <1>5, <1>6
      <3> QED  BY <3>2, <3>3
    <2>3. CASE i > 1
      <3>1. /\ i \in 2 .. n + 2 /\ i + 1 \in 2 .. n + 2 /\ i - 1 \in 0 .. n /\ (i - 1) + 1 = i
            /\ (i + 1) - 1 = i /\ i \in 1 .. n + 1 /\ i # 1 /\ i - 1 \in 0 .. n + 1 /\ i \in 0 .. n + 1
            /\ i - 1 \in 1 .. n
        BY <2>3
      <3>2. r[i] = q[i - 1] /\ r[i + 1] = q[i]  BY <1>1, <3>1
      <3>3. nx[q[i - 1]] = q[i] /\ pv[q[i]] = q[i - 1]  BY <3>1 DEF RingOf
      <3>4. q[i - 1] # Head  BY <3>1, RingNode DEF On
      <3>5. q[i - 1] # w /\ q[i] # w /\ q[i] # q[1]  BY <1>4, <1>8, <3>1
      <3>6. f[q[i - 1]] = nx[q[i - 1]]  BY <1>2, <1>5, <3>1, <3>4, <3>5
      <3>7. g[q[i]] = pv[q[i]]  BY <1>2, <1>6, <3>1, <3>5
      <3> QED  BY <3>2, <3>3, <3>6, <3>7
    <2> QED  BY <2>1, <2>2, <2>3
  <1>10. ASSUME NEW i \in 1 .. n + 1 PROVE r[i] \in Waiters
    <2>1. CASE i = 1  BY <1>1, <2>1
    <2>2. CASE i # 1
      <3>1. i \in 2 .. n + 2 /\ i - 1 \in 1 .. n  BY <2>2
      <3> QED  BY <1>1, <3>1 DEF RingOf
    <2> QED  BY <2>1, <2>2
  <1>11. \A i \in 0 .. n + 1 :
           \/ i = 0 /\ r[i] = q[0]
           \/ i = 1 /\ r[i] = w
           \/ i > 1 /\ i - 1 \in 1 .. n /\ r[i] = q[i - 1]
    <2> TAKE i \in 0 .. n + 1
    <2>1. CASE i = 0  BY <1>1, <2>1 DEF RingOf
    <2>2. CASE i = 1  BY <1>1, <2>2
    <2>3. CASE i # 0 /\ i # 1
      <3>1. i \in 2 .. n + 2 /\ i - 1 \in 1 .. n /\ i > 1  BY <2>3
      <3> QED  BY <1>1, <3>1
    <2> QED  BY <2>1, <2>2, <2>3
  <1>12. ASSUME NEW i \in 0 .. n + 1, NEW j \in 0 .. n + 1, r[i] = r[j] PROVE i = j
    <2>1. \A a, b \in 0 .. n : q[a] = q[b] => a = b  BY DEF RingOf
    <2>2. \A a \in 1 .. n : a \in 0 .. n /\ a \in 0 .. n + 1 /\ a # 0  OBVIOUS
    <2>3. 0 \in 0 .. n /\ 0 \in 0 .. n + 1  OBVIOUS
    <2>4. q[0] # w /\ \A a \in 1 .. n : q[a] # w /\ q[a] # q[0]  BY <1>4, <2>1, <2>2, <2>3
    <2>5. CASE i = 0  BY <1>11, <1>12, <2>4, <2>5
    <2>6. CASE i = 1  BY <1>11, <1>12, <2>4, <2>6
    <2>7. CASE i > 1
      <3>1. i - 1 \in 1 .. n /\ r[i] = q[i - 1]  BY <1>11, <2>7
      <3>2. j - 1 \in 1 .. n /\ r[j] = q[j - 1]  BY <1>11, <1>12, <2>4, <3>1, Zenon
      <3>3. i - 1 = j - 1  BY <1>12, <2>1, <2>2, <3>1, <3>2, Zenon
      <3> QED  BY <3>3
    <2>8. i = 0 \/ i = 1 \/ i > 1  OBVIOUS
    <2> QED  BY <2>5, <2>6, <2>7, <2>8
  <1>13. RingOf(f, g, n + 1, r)
    <2>1. (n + 1) + 1 = n + 2  OBVIOUS
    <2> QED  BY <1>1, <1>7, <1>9, <1>10, <1>12, <2>1 DEF RingOf
  <1> QED  BY <1>13 DEF f, g, r


\* A removed descriptor is made to point to itself, first half.
LEMMA SelfNextInv ==
  ASSUME TypeOK, NEW n \in Nat, NEW q \in Orders(n), QueueInv(n, q), NEW k \in Wakers, SelfNext(k)
  PROVE  QueueInv(n, q)'
  <1> DEFINE x == curr[k]
  <1>1. WakerInv(n, q, k) /\ RingOf(next, prev, n, q)  BY DEF QueueInv
  <1>2. /\ kpc[k] = "selfnext" /\ UNCHANGED <<prev, lock, cond, wpc, asleep, curr, ahead>>
        /\ lock = k /\ next' = [next EXCEPT ![x] = x] /\ x \in Frames /\ x \in Nodes
        /\ ~On(n, q, x) /\ prev[x] # x /\ OnOrHead(n, q, ahead[k]) /\ x \in Waiters
    BY <1>1 DEF SelfNext, waiter, WakerInv, Walking, Frames, TypeOK
  <1>3. kpc'[k] = "selfprev" /\ \A j \in Wakers \ {k} : kpc'[j] = kpc[j] /\ kpc[j] \notin Walking
    <2>1. \A j \in Wakers \ {k} : kpc[j] \notin Walking
      <3>1. lock \in {k, Nobody}  BY <1>2
      <3> QED  BY <3>1, OthersOutside
    <2>2. kpc' = [kpc EXCEPT ![k] = "selfprev"]  BY DEF SelfNext, KGoto
    <2> QED  BY <2>1, <2>2 DEF TypeOK
  <1>4. ~OnOrHead(n, q, x)  BY <1>1, <1>2, HeadApart, RingOrHead
  <1>5. RingOf(next', prev', n, q)  BY <1>1, <1>2, <1>4, OffRing, Zenon DEF TypeOK
  <1>6. \A y : Leaving(y) <=> y = x  BY <1>2, <1>3 DEF Leaving, Walking
  <1>7. \A y : Leaving(y)' <=> y = x  BY <1>2, <1>3 DEF Leaving, Walking
  <1>8. next'[x] = x /\ \A y \in Nodes : y # x => next'[y] = next[y]  BY <1>2 DEF TypeOK
  <1>9. ASSUME NEW v \in Waiters PROVE WaiterInv(n, q, v)'
    <2>1. WaiterInv(n, q, v) /\ v \in Nodes /\ (On(n, q, v)' <=> On(n, q, v))
      BY DEF QueueInv, Nodes, On
    <2>2. CASE v = x  BY <1>2, <1>7, <1>8, <2>1, <2>2 DEF WaiterInv
    <2>3. CASE v # x  BY <1>2, <1>6, <1>7, <1>8, <2>1, <2>3 DEF WaiterInv
    <2> QED  BY <2>2, <2>3
  <1>10. WakerInv(n, q, k)'
    BY <1>2, <1>3, <1>8 DEF WakerInv, Walking, OnOrHead, On, Frames
  <1>11. ASSUME NEW j \in Wakers, j # k PROVE WakerInv(n, q, j)'
    BY <1>2, <1>3, <1>11 DEF WakerInv, Walking
  <1>12. WakeInv(n, q)'
    <2> SUFFICES ASSUME NEW v \in Waiters, Missed(v)'
                 PROVE  \E j \in Wakers : Coming(n, q, j, v)'
      BY DEF WakeInv
    <2>1. Missed(v)  BY <1>2 DEF Missed
    <2>2. PICK j \in Wakers : Coming(n, q, j, v)  BY <2>1 DEF QueueInv, WakeInv
    <2>3. CASE j = k  BY <1>2, <1>3, <2>2, <2>3 DEF Coming, Before
    <2>4. CASE j # k  BY <1>2, <1>3, <2>2, <2>4 DEF Coming, Before
    <2> QED  BY <2>3, <2>4
  <1> QED  BY <1>5, <1>9, <1>10, <1>11, <1>12 DEF QueueInv, RingOf

\* The second half; the waker goes on.
LEMMA SelfPrevInv ==
  ASSUME TypeOK, NEW n \in Nat, NEW q \in Orders(n), QueueInv(n, q), NEW k \in Wakers, SelfPrev(k)
  PROVE  QueueInv(n, q)'
  <1> DEFINE x == curr[k]
  <1>1. WakerInv(n, q, k) /\ RingOf(next, prev, n, q)  BY DEF QueueInv
  <1>2. /\ kpc[k] = "selfprev" /\ UNCHANGED <<next, lock, cond, wpc, asleep>>
        /\ lock = k /\ prev' = [prev EXCEPT ![x] = x] /\ x \in Nodes
        /\ ~On(n, q, x) /\ next[x] = x /\ OnOrHead(n, q, ahead[k]) /\ x \in Waiters
    BY <1>1 DEF SelfPrev, waiter, WakerInv, Walking, Frames, TypeOK
  <1>3. kpc'[k] = "wake" /\ \A j \in Wakers \ {k} : kpc'[j] = kpc[j] /\ kpc[j] \notin Walking
    <2>1. \A j \in Wakers \ {k} : kpc[j] \notin Walking
      <3>1. lock \in {k, Nobody}  BY <1>2
      <3> QED  BY <3>1, OthersOutside
    <2>2. kpc' = [kpc EXCEPT ![k] = "wake"]  BY DEF SelfPrev, Advance, KGoto
    <2> QED  BY <2>1, <2>2 DEF TypeOK
  <1>4. /\ curr'[k] = ahead[k] /\ ahead'[k] = next[ahead[k]]
        /\ \A j \in Wakers \ {k} : curr'[j] = curr[j] /\ ahead'[j] = ahead[j]
    BY DEF SelfPrev, Advance, TypeOK
  <1>5. ~OnOrHead(n, q, x)  BY <1>1, <1>2, HeadApart, RingOrHead
  <1>6. RingOf(next', prev', n, q)  BY <1>1, <1>2, <1>5, OffRing, Zenon DEF TypeOK
  <1>7. \A y : Leaving(y) <=> y = x  BY <1>2, <1>3 DEF Leaving, Walking
  <1>8. prev'[x] = x /\ \A y \in Nodes : y # x => prev'[y] = prev[y]  BY <1>2 DEF TypeOK
  <1>9. ASSUME NEW v \in Waiters PROVE WaiterInv(n, q, v)'
    <2>1. WaiterInv(n, q, v) /\ v \in Nodes /\ (On(n, q, v)' <=> On(n, q, v))
      BY DEF QueueInv, Nodes, On
    <2>2. CASE v = x  BY <1>2, <1>8, <2>1, <2>2 DEF WaiterInv
    <2>3. CASE v # x  BY <1>2, <1>7, <1>8, <2>1, <2>3 DEF WaiterInv
    <2> QED  BY <2>2, <2>3
  <1>10. WakerInv(n, q, k)'
    BY <1>2, <1>3, <1>4 DEF WakerInv, Walking, OnOrHead
  <1>11. ASSUME NEW j \in Wakers, j # k PROVE WakerInv(n, q, j)'
    BY <1>2, <1>3, <1>11 DEF WakerInv, Walking
  <1>12. WakeInv(n, q)'
    <2> SUFFICES ASSUME NEW v \in Waiters, Missed(v)'
                 PROVE  \E j \in Wakers : Coming(n, q, j, v)'
      BY DEF WakeInv
    <2>1. Missed(v)  BY <1>2 DEF Missed
    <2>2. PICK j \in Wakers : Coming(n, q, j, v)  BY <2>1 DEF QueueInv, WakeInv
    <2>3. CASE j = k
      <3>1. Before(n, q, ahead[k], v)  BY <1>2, <2>2, <2>3 DEF Coming
      <3>2. Before(n, q, curr[k], v)'  BY <1>4, <3>1 DEF Before
      <3>3. Coming(n, q, k, v)'  BY <1>3, <3>2 DEF Coming
      <3> QED  BY <3>3
    <2>4. CASE j # k
      <3>1. kpc'[j] = kpc[j] /\ kpc[j] \in {"active", "lock"}
        BY <1>3, <2>2, <2>4 DEF Coming, Walking
      <3>2. Coming(n, q, j, v)'  BY <3>1 DEF Coming
      <3> QED  BY <3>2
    <2> QED  BY <2>3, <2>4
  <1> QED  BY <1>6, <1>9, <1>10, <1>11, <1>12 DEF QueueInv, RingOf

\* A waker takes the descriptor at hand off the list.
LEMMA UnlinkInv ==
  ASSUME TypeOK, NEW n \in Nat, NEW q \in Orders(n), QueueInv(n, q), NEW k \in Wakers, Unlink(k)
  PROVE  \E m \in Nat : \E r \in Orders(m) : QueueInv(m, r)'
  <1> DEFINE x == curr[k]
  <1>1. WakerInv(n, q, k) /\ RingOf(next, prev, n, q)  BY DEF QueueInv
  <1>2. /\ kpc[k] = "unlink" /\ UNCHANGED <<lock, cond, wpc, asleep, curr, ahead>>
        /\ lock = k /\ x \in Nodes /\ OnOrHead(n, q, x) /\ x # Head /\ x \notin asleep
        /\ ahead[k] = next[x]
    BY <1>1 DEF Unlink, waiter, WakerInv, Walking, TypeOK
  <1>3. kpc'[k] = "selfnext" /\ \A j \in Wakers \ {k} : kpc'[j] = kpc[j] /\ kpc[j] \notin Walking
    <2>1. \A j \in Wakers \ {k} : kpc[j] \notin Walking
      <3>1. lock \in {k, Nobody}  BY <1>2
      <3> QED  BY <3>1, OthersOutside
    <2>2. kpc' = [kpc EXCEPT ![k] = "selfnext"]  BY DEF Unlink, KGoto
    <2> QED  BY <2>1, <2>2 DEF TypeOK
  <1>4. On(n, q, x)  BY <1>1, <1>2, RingOrHead
  <1>5. PICK c \in 1 .. n : q[c] = x  BY <1>4 DEF On
  <1> DEFINE r == Drop(n, q, c)
  <1>6. /\ next' = [next EXCEPT ![prev[x]] = next[x]] /\ prev' = [prev EXCEPT ![next[x]] = prev[x]]
        /\ next \in [Nodes -> Nodes] /\ prev \in [Nodes -> Nodes]
    BY DEF Unlink, TypeOK
  <1>7. n - 1 \in Nat /\ r \in Orders(n - 1)  BY DropList
  <1>8. RingOf(next', prev', n - 1, r) /\ ~On(n - 1, r, x)  BY <1>1, <1>5, <1>6, DropRing, Zenon
  <1>9. \A y : y # x => On(n - 1, r, y) <=> On(n, q, y)  BY <1>1, <1>5, DropOn
  <1>10. \A y, z : y # x /\ z # x /\ Before(n, q, y, z) => Before(n - 1, r, y, z)
    BY <1>1, <1>5, DropOn
  <1> HIDE DEF r
  <1>11. next[x] # x /\ prev[x] # x /\ x \in Waiters  BY <1>1, <1>2, <1>4, RingNode, Zenon DEF Nodes
  <1>12. next'[x] = next[x] /\ prev'[x] = prev[x]  BY <1>2, <1>6, <1>11
  <1>13. OnOrHead(n, q, next[x]) /\ OnOrHead(n, q, prev[x])
    <2>1. OnOrHead(n, q, next[x])  BY <1>1, <1>2, RingNext
    <2>2. c - 1 \in 0 .. n /\ (c - 1) + 1 = c  OBVIOUS
    <2>3. prev[x] = q[c - 1]  BY <1>1, <1>5, <2>2 DEF RingOf
    <2>4. CASE c = 1
      <3>1. prev[x] = Head  BY <1>1, <2>3, <2>4 DEF RingOf
      <3> QED  BY <1>1, <2>1, <3>1, RingOrHead
    <2>5. CASE c # 1
      <3>1. c - 1 \in 1 .. n + 1  BY <2>5
      <3> QED  BY <2>1, <2>3, <3>1 DEF OnOrHead
    <2> QED  BY <2>1, <2>4, <2>5
  <1>14. \A y : Leaving(y)' <=> y = x  BY <1>2, <1>3 DEF Leaving, Walking
  <1>15. \A y : ~Leaving(y)  BY <1>2, <1>3 DEF Leaving, Walking
  <1>16. ASSUME NEW v \in Waiters PROVE WaiterInv(n - 1, r, v)'
    <2>1. WaiterInv(n, q, v) /\ v \in Nodes /\ v # Head
      BY HeadApart DEF QueueInv, Nodes
    <2>2. On(n - 1, r, v)' <=> On(n - 1, r, v)
      <3>1. r' = r  BY DEF r, Drop
      <3> QED  BY <3>1 DEF On
    <2>3. CASE v = x
      <3>1. wpc[x] # "careful"  BY <1>4, <2>1, <2>3 DEF WaiterInv
      <3> QED  BY <1>2, <1>8, <1>14, <2>2, <2>3, <3>1 DEF WaiterInv
    <2>4. CASE v # x
      <3>1. ~On(n, q, v) => next'[v] = next[v] /\ prev'[v] = prev[v]
        BY <1>1, <1>6, <1>13, <2>1, RingOrHead
      <3>2. wpc[v] = "careful" => ~On(n, q, v)  BY <2>1 DEF WaiterInv
      <3> QED  BY <1>2, <1>9, <1>14, <1>15, <2>1, <2>2, <2>4, <3>1, <3>2 DEF WaiterInv
    <2> QED  BY <2>3, <2>4
  <1>17. WakerInv(n - 1, r, k)'
    <2>1. r' = r  BY DEF r, Drop
    <2>2. OnOrHead(n - 1, r, next[x])
      <3>1. CASE next[x] = Head  BY <1>7, <1>8, <3>1, RingOrHead
      <3>2. CASE On(n, q, next[x])
        <4>1. On(n - 1, r, next[x])  BY <1>9, <1>11, <3>2
        <4> QED  BY <1>7, <1>8, <4>1, RingOrHead
      <3> QED  BY <1>1, <1>13, <3>1, <3>2, RingOrHead
    <2>3. x \in Frames'
      <3>1. wpc[x] \notin {"out", "first"}  BY <1>4, <1>11 DEF QueueInv, WaiterInv
      <3> QED  BY <1>2, <1>11, <3>1 DEF Frames
    <2>4. ~On(n - 1, r, x)' /\ OnOrHead(n - 1, r, next[x]) = OnOrHead(n - 1, r, ahead[k])'
      BY <1>2, <1>8, <2>1 DEF On, OnOrHead
    <2> QED  BY <1>2, <1>3, <1>11, <1>12, <2>2, <2>3, <2>4 DEF WakerInv, Walking
  <1>18. ASSUME NEW j \in Wakers, j # k PROVE WakerInv(n - 1, r, j)'
    BY <1>2, <1>3, <1>18 DEF WakerInv, Walking
  <1>19. WakeInv(n - 1, r)'
    <2> SUFFICES ASSUME NEW v \in Waiters, Missed(v)'
                 PROVE  \E j \in Wakers : Coming(n - 1, r, j, v)'
      BY DEF WakeInv
    <2>1. Missed(v) /\ v # x  BY <1>2 DEF Missed
    <2>2. PICK j \in Wakers : Coming(n, q, j, v)  BY <2>1 DEF QueueInv, WakeInv
    <2>3. r' = r  BY DEF r, Drop
    <2>4. CASE j = k
      <3>1. Before(n, q, x, v)  BY <1>2, <2>2, <2>4 DEF Coming
      <3>2. Before(n, q, next[x], v)  BY <1>1, <2>1, <3>1, BeforeNext
      <3>3. Before(n - 1, r, next[x], v)  BY <1>10, <1>11, <2>1, <3>2
      <3>4. Before(n - 1, r, ahead[k], v)'  BY <1>2, <2>3, <3>3 DEF Before
      <3> QED  BY <1>3, <2>4, <3>4 DEF Coming
    <2>5. CASE j # k  BY <1>3, <2>2, <2>5 DEF Coming, Walking
    <2> QED  BY <2>4, <2>5
  <1>20. QueueInv(n - 1, r)'
    <2>1. r' = r  BY DEF r, Drop
    <2> QED  BY <1>8, <1>16, <1>17, <1>18, <1>19, <2>1 DEF QueueInv, RingOf
  <1> QED
    <2>1. r' = r  BY DEF r, Drop
    <2> QED  BY <1>7, <1>20, <2>1

\* While nobody has the lock, a waiter may change the list: nobody walks it.
LEMMA FreeQueue ==
  ASSUME TypeOK, NEW n \in Nat, NEW q \in Orders(n), QueueInv(n, q), lock = Nobody,
         UNCHANGED <<lock, kpc, curr, ahead>>, NEW m \in Nat, NEW r \in Orders(m),
         RingOf(next', prev', m, r),
         \A v \in Waiters : WaiterInv(m, r, v)',
         \A v \in Waiters : Missed(v)' => Missed(v)
  PROVE  QueueInv(m, r)'
  <1>1. \A j \in Wakers : kpc[j] \notin Walking /\ kpc'[j] = kpc[j] /\ lock # j
    BY HeadApart DEF QueueInv, WakerInv
  <1>2. ASSUME NEW j \in Wakers PROVE WakerInv(m, r, j)'
    BY <1>1 DEF WakerInv, Walking
  <1>3. WakeInv(m, r)'
    <2> SUFFICES ASSUME NEW v \in Waiters, Missed(v)'
                 PROVE  \E j \in Wakers : Coming(m, r, j, v)'
      BY DEF WakeInv
    <2>1. PICK j \in Wakers : Coming(n, q, j, v)  BY DEF QueueInv, WakeInv
    <2> QED  BY <1>1, <2>1 DEF Coming, Walking
  <1> QED  BY <1>2, <1>3 DEF QueueInv, RingOf

\* shannon_prepare_to_wait puts a descriptor on the list.
LEMMA PrepareInv ==
  ASSUME TypeOK, NEW n \in Nat, NEW q \in Orders(n), QueueInv(n, q), NEW w \in Waiters,
         shannon_prepare_to_wait(w)
  PROVE  \E m \in Nat : \E r \in Orders(m) : QueueInv(m, r)'
  <1>1. /\ wpc[w] = "prepare" /\ lock = Nobody /\ asleep' = asleep \cup {w}
        /\ wpc' = [wpc EXCEPT ![w] = "test"] /\ UNCHANGED <<lock, cond, kpc, curr, ahead>>
    BY DEF shannon_prepare_to_wait, WGoto, waker
  <1>2. WaiterInv(n, q, w) /\ RingOf(next, prev, n, q) /\ w \in Nodes  BY DEF QueueInv, Nodes
  <1>3. \A v \in Waiters : ~Leaving(v)  BY <1>1, LeavingFacts
  <1>4. CASE next[w] # w
    <2>1. On(n, q, w)  BY <1>2, <1>3, <1>4 DEF WaiterInv
    <2>2. UNCHANGED <<next, prev>>  BY <1>4 DEF shannon_prepare_to_wait, list
    <2>3. QueueInv(n, q)'  BY <1>1, <2>1, <2>2, WaiterMoves, Zenon DEF WaiterPts
    <2> QED  BY <2>3
  <1>5. CASE next[w] = w
    <2> DEFINE r == Push(n, q, w)
    <2>1. ~On(n, q, w)  BY <1>2, <1>5, RingNode, Zenon
    <2>2. /\ next' = [next EXCEPT ![w] = next[Head], ![Head] = w]
          /\ prev' = [[prev EXCEPT ![next[Head]] = w] EXCEPT ![w] = Head]
          /\ next \in [Nodes -> Nodes] /\ prev \in [Nodes -> Nodes]
      BY <1>5 DEF shannon_prepare_to_wait, shannon_list_add, AddedNext, AddedPrev, TypeOK
    <2>3. RingOf(next', prev', n + 1, r)  BY <1>2, <2>1, <2>2, PushRing, Zenon
    <2>4. n + 1 \in Nat /\ r \in Orders(n + 1) /\ \A x : On(n + 1, r, x) <=> On(n, q, x) \/ x = w
      BY PushList
    <2> HIDE DEF r
    <2>5. OnOrHead(n, q, next[Head])  BY <1>2, RingOrHead, RingNext
    <2>6. ASSUME NEW v \in Waiters PROVE WaiterInv(n + 1, r, v)'
      <3>1. WaiterInv(n, q, v) /\ v \in Nodes /\ v # Head
        BY HeadApart DEF QueueInv, Nodes
      <3>2. r' = r  BY DEF r, Push
      <3>3. On(n + 1, r, v)' <=> On(n + 1, r, v)  BY <3>2 DEF On
      <3>4. CASE v = w
        <4>1. wpc'[w] = "test"  BY <1>1 DEF TypeOK
        <4> QED  BY <2>4, <3>3, <3>4, <4>1 DEF WaiterInv
      <3>5. CASE v # w
        <4>1. wpc'[v] = wpc[v] /\ (v \in asleep' <=> v \in asleep)  BY <1>1, <3>5 DEF TypeOK
        <4>2. ~On(n, q, v) => next'[v] = next[v] /\ prev'[v] = prev[v]
          BY <1>2, <2>2, <2>5, <3>1, <3>5, RingOrHead
        <4>3. wpc[v] = "careful" => ~On(n, q, v)  BY <3>1 DEF WaiterInv
        <4> QED  BY <1>3, <2>4, <3>1, <3>3, <3>5, <4>1, <4>2, <4>3 DEF WaiterInv
      <3> QED  BY <3>4, <3>5
    <2>7. \A v \in Waiters : Missed(v)' => Missed(v)
      <3> SUFFICES ASSUME NEW v \in Waiters, Missed(v)' PROVE Missed(v)
        OBVIOUS
      <3>1. v # w  BY <1>1 DEF Missed, TypeOK
      <3> QED  BY <1>1, <3>1 DEF Missed, TypeOK
    <2>8. QueueInv(n + 1, r)'
      <3>1. r' = r  BY DEF r, Push
      <3> QED  BY <1>1, <2>3, <2>4, <2>6, <2>7, <3>1, FreeQueue
    <2>9. r' = r  BY DEF r, Push
    <2> QED  BY <2>4, <2>8, <2>9
  <1> QED  BY <1>4, <1>5

\* A waiter takes its descriptor off the list itself.
LEMMA RemoveInv ==
  ASSUME TypeOK, NEW n \in Nat, NEW q \in Orders(n), QueueInv(n, q), NEW w \in Waiters, Remove(w)
  PROVE  \E m \in Nat : \E r \in Orders(m) : QueueInv(m, r)'
  <1>1. /\ wpc[w] = "remove" /\ lock = Nobody /\ asleep' = asleep
        /\ wpc' = [wpc EXCEPT ![w] = "out"] /\ UNCHANGED <<lock, cond, kpc, curr, ahead>>
    BY DEF Remove, WGoto, waker
  <1>2. WaiterInv(n, q, w) /\ RingOf(next, prev, n, q) /\ w \in Nodes  BY DEF QueueInv, Nodes
  <1>3. \A v \in Waiters : ~Leaving(v)  BY <1>1, LeavingFacts
  <1>4. /\ next' = [[next EXCEPT ![prev[w]] = next[w]] EXCEPT ![w] = w]
        /\ prev' = [[prev EXCEPT ![next[w]] = prev[w]] EXCEPT ![w] = w]
        /\ next \in [Nodes -> Nodes] /\ prev \in [Nodes -> Nodes]
    BY DEF Remove, shannon_list_del_init, TypeOK
  <1>5. w \notin asleep  BY <1>1, <1>2 DEF WaiterInv
  <1>6. CASE ~On(n, q, w)
    <2>1. next[w] = w /\ prev[w] = w  BY <1>2, <1>3, <1>6 DEF WaiterInv
    <2>2. next' = next /\ prev' = prev  BY <1>2, <1>4, <2>1
    <2>3. QueueInv(n, q)'  BY <1>1, <1>3, <1>5, <1>6, <2>2, WaiterMoves, Zenon DEF WaiterPts
    <2> QED  BY <2>3
  <1>7. CASE On(n, q, w)
    <2>1. PICK c \in 1 .. n : q[c] = w  BY <1>7 DEF On
    <2> DEFINE r == Drop(n, q, c)
               f == [next EXCEPT ![prev[w]] = next[w]]
               g == [prev EXCEPT ![next[w]] = prev[w]]
    <2>2. n - 1 \in Nat /\ r \in Orders(n - 1)  BY DropList
    <2>3. RingOf(f, g, n - 1, r) /\ ~On(n - 1, r, w)  BY <1>2, <1>4, <2>1, DropRing, Zenon
    <2>4. \A y : y # w => On(n - 1, r, y) <=> On(n, q, y)  BY <1>2, <2>1, DropOn
    <2>5. f \in [Nodes -> Nodes] /\ g \in [Nodes -> Nodes]  BY <1>2, <1>4
    <2>6. next' = [f EXCEPT ![w] = w] /\ prev' = [g EXCEPT ![w] = w]  BY <1>4
    <2>7. \A y \in Nodes : y # next[w] /\ y # prev[w] => f[y] = next[y] /\ g[y] = prev[y]
      BY <1>4
    <2> HIDE DEF r, f, g
    <2>8. ~OnOrHead(n - 1, r, w)  BY <2>2, <2>3, HeadApart, RingOrHead
    <2>9. RingOf([f EXCEPT ![w] = w], g, n - 1, r)  BY <1>2, <2>2, <2>3, <2>5, <2>8, OffRing, Zenon
    <2>10. [f EXCEPT ![w] = w] \in [Nodes -> Nodes]  BY <1>2, <2>5
    <2>11. RingOf(next', prev', n - 1, r)
      BY <1>2, <2>2, <2>5, <2>6, <2>8, <2>9, <2>10, OffRing, Zenon
    <2>12. OnOrHead(n, q, next[w]) /\ OnOrHead(n, q, prev[w])
      <3>1. OnOrHead(n, q, w)  BY <1>2, <1>7, RingOrHead
      <3>2. OnOrHead(n, q, next[w])  BY <1>2, <3>1, RingNext
      <3>3. c - 1 \in 0 .. n /\ (c - 1) + 1 = c  OBVIOUS
      <3>4. prev[w] = q[c - 1]  BY <1>2, <2>1, <3>3 DEF RingOf
      <3>5. CASE c = 1
        <4>1. prev[w] = Head  BY <1>2, <3>4, <3>5 DEF RingOf
        <4> QED  BY <1>2, <3>2, <4>1, RingOrHead
      <3>6. CASE c # 1
        <4>1. c - 1 \in 1 .. n + 1  BY <3>6
        <4> QED  BY <3>2, <3>4, <4>1 DEF OnOrHead
      <3> QED  BY <3>5, <3>6
    <2>13. r' = r  BY DEF r, Drop
    <2>14. ASSUME NEW v \in Waiters PROVE WaiterInv(n - 1, r, v)'
      <3>1. WaiterInv(n, q, v) /\ v \in Nodes /\ v # Head
        BY HeadApart DEF QueueInv, Nodes
      <3>2. On(n - 1, r, v)' <=> On(n - 1, r, v)  BY <2>13 DEF On
      <3>3. CASE v = w
        <4>1. next'[w] = w /\ prev'[w] = w  BY <1>2, <2>5, <2>6
        <4>2. wpc'[w] = "out"  BY <1>1 DEF TypeOK
        <4> QED  BY <1>1, <1>5, <2>3, <3>2, <3>3, <4>1, <4>2 DEF WaiterInv
      <3>4. CASE v # w
        <4>1. wpc'[v] = wpc[v]  BY <1>1, <3>4 DEF TypeOK
        <4>2. ~On(n, q, v) => next'[v] = next[v] /\ prev'[v] = prev[v]
          <5> SUFFICES ASSUME ~On(n, q, v) PROVE next'[v] = next[v] /\ prev'[v] = prev[v]
            OBVIOUS
          <5>1. v # next[w] /\ v # prev[w]  BY <1>2, <2>12, <3>1, RingOrHead
          <5> QED  BY <2>5, <2>6, <2>7, <3>1, <3>4, <5>1
        <4>3. wpc[v] = "careful" => ~On(n, q, v)  BY <3>1 DEF WaiterInv
        <4> QED  BY <1>1, <1>3, <2>4, <3>1, <3>2, <3>4, <4>1, <4>2, <4>3 DEF WaiterInv
      <3> QED  BY <3>3, <3>4
    <2>15. \A v \in Waiters : Missed(v)' => Missed(v)
      <3> SUFFICES ASSUME NEW v \in Waiters, Missed(v)' PROVE Missed(v)
        OBVIOUS
      <3>1. v # w  BY <1>1 DEF Missed, TypeOK
      <3> QED  BY <1>1, <3>1 DEF Missed, TypeOK
    <2>16. QueueInv(n - 1, r)'  BY <1>1, <2>2, <2>11, <2>13, <2>14, <2>15, FreeQueue
    <2> QED  BY <2>2, <2>13, <2>16
  <1> QED  BY <1>6, <1>7
-----------------------------------------------------------------------------
(* The inductive invariant *)

\* At the start the list is the head alone.
LEMMA InitIInv == Init => IInv
  <1> SUFFICES ASSUME Init PROVE IInv
    OBVIOUS
  <1> DEFINE q == [i \in 0 .. 0 + 1 |-> Head]
  <1>1. q \in Orders(0) /\ 0 \in Nat  BY DEF Orders, Nodes
  <1>2. q[0] = Head /\ q[1] = Head /\ Head \in Nodes /\ \A w \in Waiters : w \in Nodes
    BY DEF Nodes
  <1> HIDE DEF q
  <1>3. RingOf(next, prev, 0, q)
    <2>1. 0 .. 0 = {0} /\ 1 .. 0 = {} /\ 0 + 1 = 1  OBVIOUS
    <2> QED  BY <1>2, <2>1 DEF RingOf, Init
  <1>4. \A x : ~On(0, q, x)  BY DEF On
  <1>5. \A w \in Waiters : WaiterInv(0, q, w)  BY <1>2, <1>4, Zenon DEF WaiterInv, Init
  <1>6. \A k \in Wakers : WakerInv(0, q, k)
    BY HeadApart DEF WakerInv, Walking, Init
  <1>7. WakeInv(0, q)  BY DEF WakeInv, Missed, Init
  <1>8. QueueInv(0, q)  BY <1>3, <1>5, <1>6, <1>7 DEF QueueInv
  <1> QED  BY <1>1, <1>8, InitType DEF IInv

\* Every step keeps the invariant.
LEMMA NextIInv == IInv /\ [Next]_vars => IInv'
  <1> SUFFICES ASSUME IInv, [Next]_vars PROVE IInv'
    OBVIOUS
  <1>1. TypeOK  BY DEF IInv
  <1>2. PICK n \in Nat : \E q \in Orders(n) : QueueInv(n, q)  BY DEF IInv
  <1>3. PICK q \in Orders(n) : QueueInv(n, q)  BY <1>2
  <1>4. ASSUME NEW w \in Waiters, shannon_wait_event(w) \/ WaiterStep(w) \/ Signal(w)
        PROVE  IInv'
    <2>1. TypeOK'  BY <1>1, <1>4, WaiterType
    <2>2. CASE shannon_wait_event(w)
      <3>1. QueueInv(n, q)'  BY <1>1, <1>3, <2>2, WaitBegins
      <3> QED  BY <2>1, <3>1 DEF IInv
    <2>3. CASE FirstTest(w)
      <3>1. QueueInv(n, q)'  BY <1>1, <1>3, <2>3, FirstTestInv
      <3> QED  BY <2>1, <3>1 DEF IInv
    <2>4. CASE shannon_prepare_to_wait(w)
      <3>1. \E m \in Nat : \E r \in Orders(m) : QueueInv(m, r)'
        BY <1>1, <1>3, <2>4, PrepareInv
      <3> QED  BY <2>1, <3>1, Zenon DEF IInv, Orders, Nodes
    <2>5. CASE Test(w)
      <3>1. QueueInv(n, q)'  BY <1>1, <1>3, <2>5, TestInv
      <3> QED  BY <2>1, <3>1 DEF IInv
    <2>6. CASE shannon_schedule(w)
      <3>1. QueueInv(n, q)'  BY <1>1, <1>3, <2>6, ScheduleInv
      <3> QED  BY <2>1, <3>1 DEF IInv
    <2>7. CASE ReadNext(w)
      <3>1. QueueInv(n, q)'  BY <1>1, <1>3, <2>7, ReadNextInv
      <3> QED  BY <2>1, <3>1 DEF IInv
    <2>8. CASE ReadPrev(w)
      <3>1. QueueInv(n, q)'  BY <1>1, <1>3, <2>8, ReadPrevInv
      <3> QED  BY <2>1, <3>1 DEF IInv
    <2>9. CASE Remove(w)
      <3>1. \E m \in Nat : \E r \in Orders(m) : QueueInv(m, r)'
        BY <1>1, <1>3, <2>9, RemoveInv
      <3> QED  BY <2>1, <3>1, Zenon DEF IInv, Orders, Nodes
    <2>10. CASE Signal(w)
      <3>1. QueueInv(n, q)'  BY <1>1, <1>3, <2>10, SignalInv
      <3> QED  BY <2>1, <3>1 DEF IInv
    <2> QED
      BY <1>4, <2>2, <2>3, <2>4, <2>5, <2>6, <2>7, <2>8, <2>9, <2>10 DEF WaiterStep
  <1>5. ASSUME NEW k \in Wakers, SetCond(k) \/ WakerStep(k)
        PROVE  IInv'
    <2>1. TypeOK'  BY <1>1, <1>5, WakerType
    <2>2. CASE SetCond(k)
      <3>1. QueueInv(n, q)'  BY <1>1, <1>3, <2>2, SetCondInv
      <3> QED  BY <2>1, <3>1 DEF IInv
    <2>3. CASE shannon_waitqueue_active(k)
      <3>1. QueueInv(n, q)'  BY <1>1, <1>3, <2>3, ActiveInv
      <3> QED  BY <2>1, <3>1 DEF IInv
    <2>4. CASE shannon_wake_up(k)
      <3>1. QueueInv(n, q)'  BY <1>1, <1>3, <2>4, WakeUpInv
      <3> QED  BY <2>1, <3>1 DEF IInv
    <2>5. CASE Wake(k)
      <3>1. QueueInv(n, q)'  BY <1>1, <1>3, <2>5, WakeInvs
      <3> QED  BY <2>1, <3>1 DEF IInv
    <2>6. CASE Unlink(k)
      <3>1. \E m \in Nat : \E r \in Orders(m) : QueueInv(m, r)'
        BY <1>1, <1>3, <2>6, UnlinkInv
      <3> QED  BY <2>1, <3>1, Zenon DEF IInv, Orders, Nodes
    <2>7. CASE SelfNext(k)
      <3>1. QueueInv(n, q)'  BY <1>1, <1>3, <2>7, SelfNextInv
      <3> QED  BY <2>1, <3>1 DEF IInv
    <2>8. CASE SelfPrev(k)
      <3>1. QueueInv(n, q)'  BY <1>1, <1>3, <2>8, SelfPrevInv
      <3> QED  BY <2>1, <3>1 DEF IInv
    <2>9. CASE Unlock(k)
      <3>1. QueueInv(n, q)'  BY <1>1, <1>3, <2>9, UnlockInv
      <3> QED  BY <2>1, <3>1 DEF IInv
    <2> QED
      BY <1>5, <2>2, <2>3, <2>4, <2>5, <2>6, <2>7, <2>8, <2>9 DEF WakerStep
  <1>6. CASE ResetCond
    <2>1. TypeOK'  BY <1>1, <1>6, Zenon DEF ResetCond, TypeOK, list, waiter, waker
    <2>2. QueueInv(n, q)'  BY <1>1, <1>3, <1>6, ResetInv
    <2> QED  BY <2>1, <2>2 DEF IInv
  <1>7. CASE UNCHANGED vars
    <2>1. UNCHANGED <<next, prev, lock, cond, wpc, asleep, signalled, kpc, curr, ahead>>
      BY <1>7 DEF vars, list, waiter, waker
    <2>2. TypeOK'  BY <1>1, <2>1, SMTT(20) DEF TypeOK
    <2>3. RingOf(next, prev, n, q)'
      <3>1. RingOf(next, prev, n, q)  BY <1>3 DEF QueueInv
      <3> QED  BY <2>1, <3>1
    <2>4. WakeInv(n, q)'  BY <1>3, <2>1, SMTT(30) DEF QueueInv, WakeInv, Missed, Coming, Before
    <2>5. \A w \in Waiters : WaiterInv(n, q, w)'
      BY <1>3, <2>1 DEF QueueInv, WaiterInv, On, Leaving, Frames
    <2>6. \A k \in Wakers : WakerInv(n, q, k)'
      BY <1>3, <2>1 DEF QueueInv, WakerInv, Frames
    <2>7. QueueInv(n, q)'  BY <2>3, <2>4, <2>5, <2>6 DEF QueueInv
    <2> QED  BY <2>2, <2>7 DEF IInv
  <1> QED  BY <1>4, <1>5, <1>6, <1>7 DEF Next

\* The invariant holds in every state.
LEMMA Inductive == Spec => []IInv
  BY InitIInv, NextIInv, PTL DEF Spec
-----------------------------------------------------------------------------
(* What From gives on the list *)

LOCAL INSTANCE WellFoundedInduction

\* Induction over the naturals, said of a set.
LEMMA NatSets ==
  ASSUME NEW S, 0 \in S, \A m \in Nat : m \in S => m + 1 \in S
  PROVE  Nat \subseteq S
  <1> DEFINE T == Nat \ S
  <1> SUFFICES ASSUME T # {} PROVE FALSE
    OBVIOUS
  <1>1. IsWellFoundedOn(OpToRel(<, Nat), Nat)  BY NatLessThanWellFounded, Zenon
  <1>2. \E x \in T : \A y \in T : ~ (<<y, x>> \in OpToRel(<, Nat))  BY <1>1, WFMin, Zenon
  <1>3. PICK x \in T : \A y \in T : ~ (<<y, x>> \in OpToRel(<, Nat))  BY <1>2, Zenon
  <1>4. \A y \in T : ~ (y < x)  BY <1>3, Zenon DEF OpToRel
  <1>5. x # 0  OBVIOUS
  <1>6. x - 1 \in Nat /\ x - 1 < x  BY <1>5
  <1>7. x - 1 \in S  BY <1>4, <1>6
  <1> QED  BY <1>6, <1>7

\* On the list, From gives the descriptors from the j-th on.
LEMMA FromRing ==
  ASSUME NEW n \in Nat, NEW q \in Orders(n), RingOf(next, prev, n, q), NEW j \in 1 .. n + 1
  PROVE  From(q[j]) = {q[i] : i \in j .. n}
  <1>1. ASSUME NEW i \in j .. n + 1, q[i] # Head
        PROVE  i \in j .. n /\ i + 1 \in j .. n + 1 /\ next[q[i]] = q[i + 1]
    <2>1. i # n + 1  BY <1>1 DEF RingOf
    <2>2. i \in 0 .. n /\ i \in j .. n /\ i + 1 \in j .. n + 1  BY <2>1
    <2> QED  BY <2>2 DEF RingOf
  <1>2. ASSUME NEW w \in From(q[j]) PROVE \E i \in j .. n : w = q[i]
    <2> DEFINE R == {q[i] : i \in j .. n + 1}
    <2>1. R \in SUBSET Nodes
      <3>1. \A i \in j .. n + 1 : i \in 0 .. n + 1  OBVIOUS
      <3> QED  BY <3>1 DEF Orders
    <2>2. q[j] \in R  OBVIOUS
    <2>3. \A y \in R \ {Head} : next[y] \in R
      <3> TAKE y \in R \ {Head}
      <3>1. PICK i \in j .. n + 1 : y = q[i]  OBVIOUS
      <3> QED  BY <1>1, <3>1
    <2> HIDE DEF R
    <2>4. w \in R /\ w # Head  BY <2>1, <2>2, <2>3, HeadApart DEF From
    <2>5. PICK i \in j .. n + 1 : w = q[i]  BY <2>4 DEF R
    <2> QED  BY <1>1, <2>4, <2>5
  <1>3. ASSUME NEW i \in j .. n PROVE q[i] \in From(q[j])
    <2>1. q[i] \in Waiters
      <3>1. i \in 1 .. n  OBVIOUS
      <3> QED  BY <3>1 DEF RingOf
    <2>2. ASSUME NEW S \in SUBSET Nodes, q[j] \in S, \A y \in S \ {Head} : next[y] \in S
          PROVE  q[i] \in S
      <3> DEFINE T == {m \in Nat : j + m <= n => q[j + m] \in S}
      <3>1. 0 \in T  BY <2>2
      <3>2. ASSUME NEW m \in Nat, m \in T PROVE m + 1 \in T
        <4> SUFFICES ASSUME j + (m + 1) <= n PROVE q[j + (m + 1)] \in S
          OBVIOUS
        <4>1. j + m <= n /\ j + m \in 1 .. n /\ j + m \in 0 .. n /\ (j + m) + 1 = j + (m + 1)
          OBVIOUS
        <4>2. q[j + m] \in S  BY <3>2, <4>1
        <4>3. q[j + m] # Head  BY <4>1, RingNode, Zenon DEF On
        <4>4. next[q[j + m]] = q[j + (m + 1)]  BY <4>1 DEF RingOf
        <4> QED  BY <2>2, <4>2, <4>3, <4>4
      <3> HIDE DEF T
      <3>3. Nat \subseteq T  BY <3>1, <3>2, NatSets
      <3>4. i - j \in Nat /\ j + (i - j) = i /\ i <= n  OBVIOUS
      <3>5. i - j \in T  BY <3>3, <3>4
      <3> QED  BY <3>4, <3>5 DEF T
    <2> QED  BY <2>1, <2>2 DEF From
  <1> QED  BY <1>2, <1>3
-----------------------------------------------------------------------------
(* The theorems *)

\* Who is on the list has a stack frame.
LEMMA OnFrames ==
  ASSUME TypeOK, NEW n \in Nat, NEW q \in Orders(n), QueueInv(n, q), NEW x, OnOrHead(n, q, x)
  PROVE  x \in Frames \cup {Head}
  <1>1. On(n, q, x) \/ x = Head  BY RingOrHead DEF QueueInv
  <1>2. On(n, q, x) => x \in Waiters  BY DEF QueueInv, RingOf, On
  <1>3. On(n, q, x) => wpc[x] \notin {"out", "first"}  BY <1>2 DEF QueueInv, WaiterInv
  <1> QED  BY <1>1, <1>2, <1>3 DEF Frames

\* The invariant makes the list sound.
LEMMA ListSoundHolds == IInv => ListSound
  <1> SUFFICES ASSUME IInv, lock = Nobody
               PROVE  /\ \A x \in Nodes : prev[next[x]] = x /\ next[prev[x]] = x
                      /\ From(next[Head]) = {w \in Waiters : next[w] # w}
    BY DEF ListSound
  <1>1. TypeOK  BY DEF IInv
  <1>2. PICK n \in Nat : \E q \in Orders(n) : QueueInv(n, q)  BY DEF IInv
  <1>3. PICK q \in Orders(n) : QueueInv(n, q)  BY <1>2
  <1>4. RingOf(next, prev, n, q)  BY <1>3 DEF QueueInv
  <1>5. ASSUME NEW w \in Waiters, ~On(n, q, w) PROVE next[w] = w /\ prev[w] = w
    <2>1. ~Leaving(w)  BY <1>1, <1>3, LeavingFacts
    <2> QED  BY <1>3, <1>5, <2>1 DEF QueueInv, WaiterInv
  <1>6. ASSUME NEW x \in Nodes PROVE prev[next[x]] = x /\ next[prev[x]] = x
    <2>1. CASE x = Head
      <3>1. 0 \in 0 .. n /\ n \in 0 .. n  OBVIOUS
      <3> QED  BY <1>4, <2>1, <3>1 DEF RingOf
    <2>2. CASE On(n, q, x)
      <3>1. PICK i \in 1 .. n : q[i] = x  BY <2>2 DEF On
      <3>2. i \in 0 .. n /\ i - 1 \in 0 .. n /\ (i - 1) + 1 = i  OBVIOUS
      <3>3. next[x] = q[i + 1] /\ prev[q[i + 1]] = x  BY <1>4, <3>1, <3>2 DEF RingOf
      <3>4. prev[x] = q[i - 1] /\ next[q[i - 1]] = x  BY <1>4, <3>1, <3>2 DEF RingOf
      <3> QED  BY <3>3, <3>4
    <2>3. CASE x \in Waiters /\ ~On(n, q, x)  BY <1>5, <2>3
    <2> QED  BY <2>1, <2>2, <2>3 DEF Nodes
  <1>7. From(next[Head]) = {q[i] : i \in 1 .. n}
    <2>1. next[Head] = q[1]  BY <1>4, RingEnds, Zenon
    <2>2. 1 \in 1 .. n + 1  OBVIOUS
    <2> QED  BY <1>4, <2>1, <2>2, FromRing, Zenon
  <1>8. ASSUME NEW i \in 1 .. n PROVE q[i] \in Waiters /\ next[q[i]] # q[i]
    <2>1. On(n, q, q[i])  BY DEF On
    <2> QED  BY <1>4, <2>1, RingNode DEF RingOf
  <1>9. ASSUME NEW w \in Waiters, next[w] # w PROVE \E i \in 1 .. n : w = q[i]
    BY <1>5, <1>9 DEF On
  <1> QED  BY <1>6, <1>7, <1>8, <1>9

\* The invariant keeps the descriptors in use alive.
LEMMA DescriptorsAliveHolds == IInv => DescriptorsAlive
  <1> SUFFICES ASSUME IInv PROVE DescriptorsAlive
    OBVIOUS
  <1>1. TypeOK  BY DEF IInv
  <1>2. PICK n \in Nat : \E q \in Orders(n) : QueueInv(n, q)  BY DEF IInv
  <1>3. PICK q \in Orders(n) : QueueInv(n, q)  BY <1>2
  <1>4. RingOf(next, prev, n, q)  BY <1>3 DEF QueueInv
  <1>5. ASSUME NEW k \in Wakers, kpc[k] \in {"wake", "unlink", "selfnext", "selfprev"}
        PROVE  curr[k] \in Frames \cup {Head} /\ ahead[k] \in Frames \cup {Head}
    <2>1. WakerInv(n, q, k)  BY <1>3 DEF QueueInv
    <2>2. CASE kpc[k] \in {"wake", "unlink"}
      <3>1. OnOrHead(n, q, curr[k]) /\ ahead[k] = next[curr[k]]  BY <2>1, <2>2 DEF WakerInv
      <3>2. OnOrHead(n, q, ahead[k])  BY <1>4, <3>1, RingNext
      <3> QED  BY <1>1, <1>3, <3>1, <3>2, OnFrames
    <2>3. CASE kpc[k] \in {"selfnext", "selfprev"}
      <3>1. OnOrHead(n, q, ahead[k]) /\ curr[k] \in Frames  BY <2>1, <2>3 DEF WakerInv
      <3> QED  BY <1>1, <1>3, <3>1, OnFrames
    <2> QED  BY <1>5, <2>2, <2>3
  <1>6. ASSUME NEW w \in Waiters \ Frames PROVE next[w] = w /\ prev[w] = w
    <2>1. wpc[w] \in {"out", "first"}  BY DEF Frames
    <2>2. ~Leaving(w)  BY <1>1, <1>3, <2>1, LeavingFacts
    <2> QED  BY <1>3, <2>1, <2>2 DEF QueueInv, WaiterInv
  <1> QED  BY <1>5, <1>6 DEF DescriptorsAlive

\* Who is ahead of a place on the list is found from there.
LEMMA BeforeFrom ==
  ASSUME NEW n \in Nat, NEW q \in Orders(n), RingOf(next, prev, n, q),
         NEW x, NEW w \in Waiters, Before(n, q, x, w)
  PROVE  w \in From(x)
  <1>1. PICK i \in 1 .. n + 1, j \in 1 .. n + 1 : i <= j /\ q[i] = x /\ q[j] = w  BY DEF Before
  <1>2. j # n + 1  BY <1>1, HeadApart DEF RingOf
  <1>3. j \in i .. n  BY <1>1, <1>2
  <1>4. From(x) = {q[m] : m \in i .. n}  BY <1>1, FromRing
  <1> QED  BY <1>1, <1>3, <1>4

\* The invariant lets no wake-up be missed.
LEMMA WokenInTimeHolds == IInv => WokenInTime
  <1> SUFFICES ASSUME IInv, NEW w \in Waiters, wpc[w] = "schedule" /\ w \in asleep /\ cond
               PROVE  \E k \in Wakers :
                        \/ kpc[k] \in {"active", "lock"}
                        \/ kpc[k] \in {"wake", "unlink"} /\ w \in From(curr[k])
                        \/ kpc[k] \in {"selfnext", "selfprev"} /\ w \in From(ahead[k])
    BY DEF WokenInTime
  <1>1. PICK n \in Nat : \E q \in Orders(n) : QueueInv(n, q)  BY DEF IInv
  <1>2. PICK q \in Orders(n) : QueueInv(n, q)  BY <1>1
  <1>3. RingOf(next, prev, n, q)  BY <1>2 DEF QueueInv
  <1>4. PICK k \in Wakers : Coming(n, q, k, w)  BY <1>2 DEF QueueInv, WakeInv, Missed
  <1>5. \A x : Before(n, q, x, w) => w \in From(x)  BY <1>3, BeforeFrom
  <1> QED  BY <1>4, <1>5 DEF Coming

\* Every field of a queue and of its descriptors has a value of its type.
THEOREM TypeCorrect == Spec => []TypeOK
  <1>1. IInv => TypeOK  BY DEF IInv
  <1> QED  BY <1>1, Inductive, PTL

\* Whoever takes q->lock finds the list whole (shannon_list.h): next and prev
\* are each other's inverse, and the walk from the head meets exactly the
\* descriptors that are linked.
THEOREM ListStaysSound == Spec => []ListSound
  BY Inductive, ListSoundHolds, PTL

\* __shannon_wake_up_common never touches the descriptor of a waiter that has
\* returned, although shannon_finish_wait looks at the list without the lock.
THEOREM DescriptorsStayAlive == Spec => []DescriptorsAlive
  BY Inductive, DescriptorsAliveHolds, PTL

\* No waiter of shannon_wait_event is left asleep on a true condition without
\* a waker on its way to it, also when the waker asks shannon_waitqueue_active
\* first.
THEOREM NoWakeUpMissed == Spec => []WokenInTime
  BY Inductive, WokenInTimeHolds, PTL
=============================================================================
