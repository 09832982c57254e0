------------------------------ MODULE SmbLock ------------------------------
(***************************************************************************)
(* The lock word of one memblock: map_table.memblock_lock[list_index], one *)
(* atomic counter, and the smb_* macros of shannon_memblock.h that take    *)
(* it.  A simultaneous holder adds 1; an exclusive holder, which must hold *)
(* it simultaneously first, subtracts Bias (0xffff in the source).  Every  *)
(* atomic read-modify-write or read of the counter is a step of its own.   *)
(***************************************************************************)
EXTENDS Integers, FiniteSets

CONSTANTS Threads,   \* the contexts that use the memblock
          Bias,      \* 0xffff, what an exclusive holder subtracts
          MaxRetry,  \* largest retry argument of smb_simultaneously_lock_retry
          IntMax     \* INT_MAX, the largest value of an atomic_t

\* The counter tells holders from exclusive holders only while fewer than
\* Bias contexts use it, and it is a 32-bit atomic_t.
ASSUME SmbAssumption ==
  /\ IsFiniteSet(Threads)
  /\ Bias \in Nat
  /\ MaxRetry \in Nat
  /\ Cardinality(Threads) < Bias
  /\ IntMax \in Nat
  /\ Bias * Cardinality(Threads) <= IntMax

VARIABLES count,     \* memblock_lock[list_index]
          pc,        \* where each context is in the macros
          retry      \* __retry_cnt of each context in the retry macro

vars == <<count, pc, retry>>

\* out: not using the lock; spin: in the while of smb_simultaneously_lock;
\* retry: in the while of the retry macro; shared: holds it simultaneously;
\* undo: a failed trylock that has yet to add Bias back; excl: exclusive.
PCs == {"out", "spin", "retry", "shared", "undo", "excl"}

Init == /\ count = 0
        /\ pc = [t \in Threads |-> "out"]
        /\ retry = [t \in Threads |-> 0]

smb_simultaneously_lock(t) ==
  /\ pc[t] = "out"
  /\ count' = count + 1
  /\ pc' = [pc EXCEPT ![t] = IF count' < 0 THEN "spin" ELSE "shared"]
  /\ UNCHANGED retry

\* Mutant: the wait for a non-negative counter is an if, not a while.
SpinReadOnce(t) ==
  /\ pc[t] = "spin"
  /\ pc' = [pc EXCEPT ![t] = "shared"]
  /\ UNCHANGED <<count, retry>>

\* Mutant: off by one, the loop waits for more than its own count.
SpinReadOther(t) ==
  /\ pc[t] = "spin"
  /\ count > 1
  /\ pc' = [pc EXCEPT ![t] = "shared"]
  /\ UNCHANGED <<count, retry>>

\* One read of the while loop that finds the counter no longer negative.
SpinRead(t) ==
  /\ pc[t] = "spin"
  /\ count >= 0
  /\ pc' = [pc EXCEPT ![t] = "shared"]
  /\ UNCHANGED <<count, retry>>

\* A negative retry argument is clamped to 0, so 0 .. MaxRetry is all of them.
smb_simultaneously_lock_retry(t) ==
  /\ pc[t] = "out"
  /\ count' = count + 1
  /\ pc' = [pc EXCEPT ![t] = "retry"]
  /\ \E r \in 0 .. MaxRetry : retry' = [retry EXCEPT ![t] = r]

RetryRead(t) ==
  /\ pc[t] = "retry"
  /\ retry[t] > 0
  /\ IF count < 0
     THEN retry' = [retry EXCEPT ![t] = @ - 1] /\ UNCHANGED pc
     ELSE pc' = [pc EXCEPT ![t] = "shared"] /\ UNCHANGED retry
  /\ UNCHANGED count

\* Mutant: giving up does not take back the increment.
RetryGiveUpNoUnlock(t) ==
  /\ pc[t] = "retry"
  /\ retry[t] = 0
  /\ pc' = [pc EXCEPT ![t] = "out"]
  /\ UNCHANGED <<count, retry>>

RetryGiveUp(t) ==
  /\ pc[t] = "retry"
  /\ retry[t] = 0
  /\ count' = count - 1
  /\ pc' = [pc EXCEPT ![t] = "out"]
  /\ UNCHANGED retry

smb_simultaneously_unlock(t) ==
  /\ pc[t] = "shared"
  /\ count' = count - 1
  /\ pc' = [pc EXCEPT ![t] = "out"]
  /\ UNCHANGED retry

smb_exclusively_trylock(t) ==
  /\ pc[t] = "shared"
  /\ count' = count - Bias
  /\ pc' = [pc EXCEPT ![t] = IF count' = 1 - Bias THEN "excl" ELSE "undo"]
  /\ UNCHANGED retry

\* The else branch of the trylock: the counter is put back.
TrylockUndo(t) ==
  /\ pc[t] = "undo"
  /\ count' = count + Bias
  /\ pc' = [pc EXCEPT ![t] = "shared"]
  /\ UNCHANGED retry

smb_exclusively_unlock(t) ==
  /\ pc[t] = "excl"
  /\ count' = count + Bias
  /\ pc' = [pc EXCEPT ![t] = "shared"]
  /\ UNCHANGED retry

\* The steps a context takes by itself once it has entered a macro.
Inside(t) == SpinRead(t) \/ RetryRead(t) \/ RetryGiveUp(t) \/ TrylockUndo(t)

Next == \E t \in Threads :
          \/ smb_simultaneously_lock(t)
          \/ smb_simultaneously_lock_retry(t)
          \/ smb_simultaneously_unlock(t)
          \/ smb_exclusively_trylock(t)
          \/ smb_exclusively_unlock(t)
          \/ Inside(t)

Spec == Init /\ [][Next]_vars

\* A context inside a macro keeps running, and an exclusive holder releases.
FairSpec ==
  /\ Spec
  /\ \A t \in Threads : WF_vars(Inside(t)) /\ WF_vars(smb_exclusively_unlock(t))
-----------------------------------------------------------------------------
Counted == {t \in Threads : pc[t] # "out"}
Biased  == {t \in Threads : pc[t] \in {"undo", "excl"}}
Holders == {t \in Threads : pc[t] \in {"shared", "undo", "excl"}}

\* Type correctness; the counter stays within the 32 bits of an atomic_t.
TypeOK ==
  /\ count \in -IntMax .. IntMax
  /\ pc \in [Threads -> PCs]
  /\ retry \in [Threads -> 0 .. MaxRetry]

\* The lock word is exactly the contexts counted in it, less Bias for each
\* exclusive holder and each trylock that has not been put back yet: no
\* interleaving of the macros' separate atomic operations loses an update.
CountExact == count = Cardinality(Counted) - Bias * Cardinality(Biased)

\* While a context holds the memblock exclusively no other context holds it,
\* simultaneously or exclusively (smb_exclusively_trylock's test of the
\* value it leaves in the counter, against racing lock, retry and trylock).
ExclusiveAlone ==
  \A t, u \in Threads : pc[t] = "excl" /\ u # t => u \notin Holders

\* The counter implements the abstract simultaneous/exclusive lock.
RW == INSTANCE RwLock WITH
        readers <- Holders,
        writer  <- {t \in Threads : pc[t] = "excl"}

Refinement == RW!Spec

\* A context in smb_simultaneously_lock or in its retry variant leaves the
\* macro, provided exclusive attempts die out: the macros promise a spinning
\* context nothing while others try to upgrade for ever.
LockReturns ==
  <>[](Biased = {}) =>
    \A t \in Threads : pc[t] \in {"spin", "retry"} ~> pc[t] \in {"shared", "out"}
=============================================================================
