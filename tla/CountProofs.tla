---------------------------- MODULE CountProofs -----------------------------
(***************************************************************************)
(* Proofs about the counts the open code keeps by itself, for any number   *)
(* of contexts, CPUs and requests: the word of the memblock lock and the   *)
(* disk statistics are exact, and so who relies on them is safe.           *)
(***************************************************************************)
EXTENDS SmbLock, DiskStats, FiniteSetTheorems, TLAPS

-----------------------------------------------------------------------------
(* SmbLock, below the bound of SmbAssumption.  CountExact is what makes the *)
(* other properties inductive: with fewer than Bias contexts the sign of    *)
(* the lock word says whether some context has Bias subtracted, and the     *)
(* value 1 - Bias says that exactly one context is counted.                 *)

\* The types the induction needs; the range of count follows from CountExact.
Types == /\ count \in Int
         /\ pc \in [Threads -> PCs]
         /\ retry \in [Threads -> 0 .. MaxRetry]

IInv == Types /\ CountExact /\ ExclusiveAlone

\* Products by the number of biased contexts are monotone.
LEMMA ProductMonotone ==
  ASSUME NEW b \in Nat, NEW m \in Nat, NEW n \in Nat, m <= n
  PROVE  b * m <= b * n
  OBVIOUS

\* Products by a successor and a predecessor.
LEMMA ProductStep ==
  ASSUME NEW b \in Nat, NEW n \in Nat
  PROVE  b * (n + 1) = b * n + b /\ b * (n - 1) = b * n - b
  OBVIOUS

\* The sets CountExact counts are finite and no larger than Threads.
LEMMA CountedFinite ==
  ASSUME Types
  PROVE  /\ IsFiniteSet(Counted) /\ IsFiniteSet(Biased)
         /\ Cardinality(Counted) \in Nat /\ Cardinality(Biased) \in Nat
         /\ Cardinality(Counted) <= Cardinality(Threads)
         /\ Cardinality(Biased) <= Cardinality(Threads)
         /\ Cardinality(Threads) \in Nat
  <1>1. Counted \in SUBSET Threads /\ Biased \in SUBSET Threads
    BY DEF Counted, Biased
  <1>2. IsFiniteSet(Threads)  BY SmbAssumption
  <1> QED  BY <1>1, <1>2, FS_Subset, FS_CardinalityType

\* The sign of the lock word, for any sets of counted and biased contexts.
LEMMA SignOfDifference ==
  ASSUME NEW P \in SUBSET Threads, NEW B \in SUBSET Threads
  PROVE  Cardinality(P) - Bias * Cardinality(B) >= 0 <=> B = {}
  <1>1. IsFiniteSet(Threads) /\ IsFiniteSet(P) /\ IsFiniteSet(B)
    BY SmbAssumption, FS_Subset
  <1>2. /\ Cardinality(P) \in Nat /\ Cardinality(B) \in Nat
        /\ Cardinality(Threads) \in Nat
        /\ Cardinality(P) <= Cardinality(Threads)
    BY <1>1, FS_Subset, FS_CardinalityType
  <1>3. CASE B = {}
    <2>1. Cardinality(B) = 0  BY <1>3, FS_EmptySet
    <2> QED  BY <1>2, <1>3, <2>1, SmbAssumption
  <1>4. CASE B # {}
    <2>1. Cardinality(B) >= 1  BY <1>1, <1>2, <1>4, FS_EmptySet
    <2>2. Bias * 1 <= Bias * Cardinality(B)
      BY <1>2, <2>1, ProductMonotone, SmbAssumption
    <2> QED  BY <1>2, <1>4, <2>2, SmbAssumption
  <1> QED  BY <1>3, <1>4

\* The counter is negative exactly while some context has Bias subtracted:
\* what smb_simultaneously_lock and its retry variant read off it.
LEMMA SignTellsBias ==
  ASSUME Types, CountExact
  PROVE  count >= 0 <=> Biased = {}
  <1>1. Counted \in SUBSET Threads /\ Biased \in SUBSET Threads
    BY DEF Counted, Biased
  <1> QED  BY <1>1, SignOfDifference DEF CountExact

\* What a context at p contributes to the lock word.
Weight(p) == IF p = "out" THEN 0
             ELSE IF p \in {"undo", "excl"} THEN 1 - Bias ELSE 1

\* A step that moves context t to q, and adds the difference of the two
\* weights to the counter, keeps the counter exact.
LEMMA ExactAfterMove ==
  ASSUME Types, CountExact, NEW t \in Threads, NEW q \in PCs,
         pc' = [pc EXCEPT ![t] = q],
         count' = count + Weight(q) - Weight(pc[t])
  PROVE  CountExact'
  <1> USE CountedFinite, SmbAssumption
  <1>1. Counted' = IF q = "out" THEN Counted \ {t} ELSE Counted \cup {t}
    BY DEF Counted, Types
  <1>2. Biased' = IF q \in {"undo", "excl"} THEN Biased \cup {t} ELSE Biased \ {t}
    BY DEF Biased, Types
  <1>3. t \in Counted <=> pc[t] # "out"  BY DEF Counted
  <1>4. t \in Biased <=> pc[t] \in {"undo", "excl"}  BY DEF Biased
  <1>5. Cardinality(Counted') = Cardinality(Counted)
          + (IF q = "out" THEN 0 ELSE 1) - (IF pc[t] = "out" THEN 0 ELSE 1)
    <2>1. Cardinality(Counted \cup {t}) =
            IF t \in Counted THEN Cardinality(Counted) ELSE Cardinality(Counted) + 1
      BY Zenon, FS_AddElement
    <2>2. Cardinality(Counted \ {t}) =
            IF t \in Counted THEN Cardinality(Counted) - 1 ELSE Cardinality(Counted)
      BY Zenon, FS_RemoveElement
    <2> QED  BY <1>1, <1>3, <2>1, <2>2
  <1>6. Cardinality(Biased') = Cardinality(Biased)
          + (IF q \in {"undo", "excl"} THEN 1 ELSE 0)
          - (IF pc[t] \in {"undo", "excl"} THEN 1 ELSE 0)
    <2>1. Cardinality(Biased \cup {t}) =
            IF t \in Biased THEN Cardinality(Biased) ELSE Cardinality(Biased) + 1
      BY Zenon, FS_AddElement
    <2>2. Cardinality(Biased \ {t}) =
            IF t \in Biased THEN Cardinality(Biased) - 1 ELSE Cardinality(Biased)
      BY Zenon, FS_RemoveElement
    <2> QED  BY <1>2, <1>4, <2>1, <2>2
  <1>7. Bias * Cardinality(Biased') = Bias * Cardinality(Biased)
          + (IF q \in {"undo", "excl"} THEN Bias ELSE 0)
          - (IF pc[t] \in {"undo", "excl"} THEN Bias ELSE 0)
    <2>1. /\ Bias * (Cardinality(Biased) + 1) = Bias * Cardinality(Biased) + Bias
          /\ Bias * (Cardinality(Biased) - 1) = Bias * Cardinality(Biased) - Bias
          /\ Bias * Cardinality(Biased) \in Int
      BY ProductStep
    <2>2. CASE q \in {"undo", "excl"} <=> pc[t] \in {"undo", "excl"}
      <3>1. Cardinality(Biased') = Cardinality(Biased)  BY <1>6, <2>2
      <3> QED  BY <2>1, <2>2, <3>1
    <2>3. CASE q \in {"undo", "excl"} /\ pc[t] \notin {"undo", "excl"}
      <3>1. Cardinality(Biased') = Cardinality(Biased) + 1  BY <1>6, <2>3
      <3> QED  BY <2>1, <2>3, <3>1
    <2>4. CASE q \notin {"undo", "excl"} /\ pc[t] \in {"undo", "excl"}
      <3>1. Cardinality(Biased') = Cardinality(Biased) - 1  BY <1>6, <2>4
      <3> QED  BY <2>1, <2>4, <3>1
    <2> QED  BY <2>2, <2>3, <2>4
  <1>8. Bias * Cardinality(Biased) \in Int
    OBVIOUS
  <1>9. count = Cardinality(Counted) - Bias * Cardinality(Biased)
    BY DEF CountExact
  <1>10. count' = Cardinality(Counted') - Bias * Cardinality(Biased')
    <2>1. /\ Weight(q) = (IF q = "out" THEN 0 ELSE 1)
                          - (IF q \in {"undo", "excl"} THEN Bias ELSE 0)
          /\ Weight(pc[t]) = (IF pc[t] = "out" THEN 0 ELSE 1)
                          - (IF pc[t] \in {"undo", "excl"} THEN Bias ELSE 0)
      BY DEF Weight
    <2> QED  BY <1>5, <1>7, <1>8, <1>9, <2>1
  <1> QED  BY <1>10 DEF CountExact

\* A trylock that leaves 1 - Bias in the counter found its caller alone.
LEMMA AloneWhenOne ==
  ASSUME Types, CountExact, count = 1, NEW t \in Threads, t \in Counted
  PROVE  Counted = {t} /\ Biased = {}
  <1>1. Biased = {}  BY SignTellsBias
  <1>2. Cardinality(Biased) = 0  BY <1>1, FS_EmptySet
  <1>3. Cardinality(Counted) = 1
    BY <1>2, CountedFinite, SmbAssumption DEF CountExact
  <1>4. PICK x : Counted = {x}  BY <1>3, CountedFinite, FS_Singleton
  <1> QED  BY <1>1, <1>4

\* The lock starts with nobody counted.
LEMMA InitIInv == Init => IInv
  <1> SUFFICES ASSUME Init PROVE IInv  OBVIOUS
  <1>1. Types  BY SmbAssumption DEF Init, Types, PCs
  <1>2. Counted = {} /\ Biased = {}  BY DEF Init, Counted, Biased
  <1>3. Cardinality(Counted) = 0 /\ Cardinality(Biased) = 0
    BY <1>2, FS_EmptySet
  <1>4. CountExact  BY <1>3, SmbAssumption DEF Init, CountExact
  <1>5. ExclusiveAlone  BY DEF Init, ExclusiveAlone
  <1> QED  BY <1>1, <1>4, <1>5 DEF IInv

\* Every step of every context keeps the invariant.
LEMMA NextIInv == IInv /\ [Next]_vars => IInv'
  <1> SUFFICES ASSUME IInv, [Next]_vars PROVE IInv'  OBVIOUS
  <1> USE SmbAssumption
  <1>0. Types /\ CountExact /\ ExclusiveAlone  BY DEF IInv
  <1>s. count >= 0 <=> Biased = {}  BY <1>0, SignTellsBias
  <1>1. CASE UNCHANGED vars
    BY <1>0, <1>1 DEF vars, IInv, Types, CountExact, ExclusiveAlone, Counted,
                      Biased, Holders
  <1>2. ASSUME NEW t \in Threads, smb_simultaneously_lock(t)
        PROVE  IInv'
    <2>1. Types'  BY <1>0, <1>2 DEF Types, smb_simultaneously_lock, PCs
    <2>a. count' = count + 1 /\ Weight("spin") = 1 /\ Weight("shared") = 1
          /\ Weight(pc[t]) = 0 /\ {"spin", "shared"} \subseteq PCs
      BY <1>0, <1>2 DEF smb_simultaneously_lock, PCs, Weight
    <2>2. PICK q \in PCs : /\ q \in {"spin", "shared"}
                           /\ q = "shared" => ~(count' < 0)
                           /\ pc' = [pc EXCEPT ![t] = q]
                           /\ count' = count + Weight(q) - Weight(pc[t])
      <3>0. count \in Int  BY <1>0 DEF Types
      <3>1. CASE count' < 0
        <4>1. pc' = [pc EXCEPT ![t] = "spin"]
          BY <1>2, <3>1 DEF smb_simultaneously_lock
        <4>2. count' = count + Weight("spin") - Weight(pc[t])  BY <2>a, <3>0
        <4> QED  BY Zenon, <4>1, <4>2, <2>a
      <3>2. CASE ~(count' < 0)
        <4>1. pc' = [pc EXCEPT ![t] = "shared"]
          BY <1>2, <3>2 DEF smb_simultaneously_lock
        <4>2. count' = count + Weight("shared") - Weight(pc[t])  BY <2>a, <3>0
        <4> QED  BY Zenon, <4>1, <4>2, <2>a, <3>2
      <3> QED  BY <3>1, <3>2
    <2>b. /\ pc' = [pc EXCEPT ![t] = q]
          /\ count' = count + Weight(q) - Weight(pc[t])
      BY <2>2
    <2>3. CountExact'  BY <1>0, <2>b, ExactAfterMove, Zenon
    <2>4. count' >= 0 <=> Biased = {}
      <3>1. Counted' \in SUBSET Threads /\ Biased' \in SUBSET Threads
        BY DEF Counted, Biased
      <3>2. Biased' = Biased
        BY <1>0, <1>2, <2>2 DEF Biased, Types, smb_simultaneously_lock
      <3> QED  BY <2>3, <3>1, <3>2, SignOfDifference DEF CountExact
    <2>5. ExclusiveAlone'
      BY <1>0, <1>2, <2>2, <2>1, <2>4
      DEF ExclusiveAlone, Holders, Biased, Types, smb_simultaneously_lock
    <2> QED  BY <2>1, <2>3, <2>5 DEF IInv
  <1>3. ASSUME NEW t \in Threads, SpinRead(t)
        PROVE  IInv'
    <2>1. Types'  BY <1>0, <1>3 DEF Types, SpinRead, PCs
    <2>2. /\ "shared" \in PCs
          /\ pc' = [pc EXCEPT ![t] = "shared"]
          /\ count' = count + Weight("shared") - Weight(pc[t])
      BY <1>0, <1>3 DEF SpinRead, Types, PCs, Weight
    <2>3. CountExact'  BY <1>0, <2>2, ExactAfterMove, Zenon
    <2>5. ExclusiveAlone'
      BY <1>0, <1>s, <1>3, <2>2 DEF ExclusiveAlone, Holders, Biased, Types, SpinRead
    <2> QED  BY <2>1, <2>3, <2>5 DEF IInv
  <1>4. ASSUME NEW t \in Threads, smb_simultaneously_lock_retry(t)
        PROVE  IInv'
    <2>1. Types'  BY <1>0, <1>4 DEF Types, smb_simultaneously_lock_retry, PCs
    <2>2. /\ "retry" \in PCs
          /\ pc' = [pc EXCEPT ![t] = "retry"]
          /\ count' = count + Weight("retry") - Weight(pc[t])
      BY <1>0, <1>4 DEF smb_simultaneously_lock_retry, Types, PCs, Weight
    <2>3. CountExact'  BY <1>0, <2>2, ExactAfterMove, Zenon
    <2>5. ExclusiveAlone'
      BY <1>0, <1>4, <2>2 DEF ExclusiveAlone, Holders, Types, smb_simultaneously_lock_retry
    <2> QED  BY <2>1, <2>3, <2>5 DEF IInv
  <1>5. ASSUME NEW t \in Threads, RetryRead(t)
        PROVE  IInv'
    <2>1. Types'  BY <1>0, <1>5 DEF Types, RetryRead, PCs
    <2>2. PICK q \in PCs : /\ q = IF count < 0 THEN "retry" ELSE "shared"
                           /\ pc' = [pc EXCEPT ![t] = q]
                           /\ count' = count + Weight(q) - Weight(pc[t])
      BY <1>0, <1>5 DEF RetryRead, Types, PCs, Weight
    <2>3. CountExact'  BY <1>0, <2>2, ExactAfterMove, Zenon
    <2>5. ExclusiveAlone'
      BY <1>0, <1>s, <1>5, <2>2 DEF ExclusiveAlone, Holders, Biased, Types, RetryRead
    <2> QED  BY <2>1, <2>3, <2>5 DEF IInv
  <1>6. ASSUME NEW t \in Threads, RetryGiveUp(t)
        PROVE  IInv'
    <2>1. Types'  BY <1>0, <1>6 DEF Types, RetryGiveUp, PCs
    <2>2. /\ "out" \in PCs
          /\ pc' = [pc EXCEPT ![t] = "out"]
          /\ count' = count + Weight("out") - Weight(pc[t])
      BY <1>0, <1>6 DEF RetryGiveUp, Types, PCs, Weight
    <2>3. CountExact'  BY <1>0, <2>2, ExactAfterMove, Zenon
    <2>5. ExclusiveAlone'
      BY <1>0, <1>6, <2>2 DEF ExclusiveAlone, Holders, Types, RetryGiveUp
    <2> QED  BY <2>1, <2>3, <2>5 DEF IInv
  <1>7. ASSUME NEW t \in Threads, smb_simultaneously_unlock(t)
        PROVE  IInv'
    <2>1. Types'  BY <1>0, <1>7 DEF Types, smb_simultaneously_unlock, PCs
    <2>2. /\ "out" \in PCs
          /\ pc' = [pc EXCEPT ![t] = "out"]
          /\ count' = count + Weight("out") - Weight(pc[t])
      BY <1>0, <1>7 DEF smb_simultaneously_unlock, Types, PCs, Weight
    <2>3. CountExact'  BY <1>0, <2>2, ExactAfterMove, Zenon
    <2>5. ExclusiveAlone'
      BY <1>0, <1>7, <2>2 DEF ExclusiveAlone, Holders, Types, smb_simultaneously_unlock
    <2> QED  BY <2>1, <2>3, <2>5 DEF IInv
  <1>8. ASSUME NEW t \in Threads, smb_exclusively_trylock(t)
        PROVE  IInv'
    <2>1. Types'  BY <1>0, <1>8 DEF Types, smb_exclusively_trylock, PCs
    <2>a. /\ count' = count - Bias /\ Weight(pc[t]) = 1
          /\ Weight("excl") = 1 - Bias /\ Weight("undo") = 1 - Bias
          /\ {"excl", "undo"} \subseteq PCs
      BY <1>0, <1>8 DEF smb_exclusively_trylock, PCs, Weight
    <2>2. PICK q \in PCs : /\ q \in {"excl", "undo"}
                           /\ q = "excl" => count' = 1 - Bias
                           /\ pc' = [pc EXCEPT ![t] = q]
                           /\ count' = count + Weight(q) - Weight(pc[t])
      <3>0. count \in Int  BY <1>0 DEF Types
      <3>1. CASE count' = 1 - Bias
        <4>1. pc' = [pc EXCEPT ![t] = "excl"]
          BY Zenon, <1>8, <3>1 DEF smb_exclusively_trylock
        <4>2. count' = count + Weight("excl") - Weight(pc[t])  BY <2>a, <3>0
        <4> QED  BY Zenon, <4>1, <4>2, <2>a, <3>1
      <3>2. CASE count' # 1 - Bias
        <4>1. pc' = [pc EXCEPT ![t] = "undo"]
          BY <1>8, <3>2 DEF smb_exclusively_trylock
        <4>2. count' = count + Weight("undo") - Weight(pc[t])  BY <2>a, <3>0
        <4> QED  BY Zenon, <4>1, <4>2, <2>a
      <3> QED  BY <3>1, <3>2
    <2>b. /\ pc' = [pc EXCEPT ![t] = q]
          /\ count' = count + Weight(q) - Weight(pc[t])
      BY <2>2
    <2>3. CountExact'  BY <1>0, <2>b, ExactAfterMove, Zenon
    <2>4. q = "excl" => Counted = {t}
      <3>1. q = "excl" => count = 1 /\ t \in Counted
        BY <1>0, <1>8, <2>2, <2>a DEF smb_exclusively_trylock, Types, Counted
      <3> QED  BY <1>0, <3>1, AloneWhenOne
    <2>5. ExclusiveAlone'
      <3>1. CASE q = "excl"
        BY <1>0, <2>2, <2>4, <3>1 DEF ExclusiveAlone, Holders, Counted, Types
      <3>2. CASE q = "undo"
        <4>1. pc' = [pc EXCEPT ![t] = "undo"] /\ pc[t] = "shared"
          BY Zenon, <1>8, <2>b, <3>2 DEF smb_exclusively_trylock
        <4> QED  BY <1>0, <4>1 DEF ExclusiveAlone, Holders, Types
      <3>3. q \in {"excl", "undo"}  BY <2>2
      <3> QED  BY <3>1, <3>2, <3>3
    <2> QED  BY <2>1, <2>3, <2>5 DEF IInv
  <1>9. ASSUME NEW t \in Threads, TrylockUndo(t)
        PROVE  IInv'
    <2>1. Types'  BY <1>0, <1>9 DEF Types, TrylockUndo, PCs
    <2>2. /\ "shared" \in PCs
          /\ pc' = [pc EXCEPT ![t] = "shared"]
          /\ count' = count + Weight("shared") - Weight(pc[t])
      BY <1>0, <1>9 DEF TrylockUndo, Types, PCs, Weight
    <2>3. CountExact'  BY <1>0, <2>2, ExactAfterMove, Zenon
    <2>5. ExclusiveAlone'
      BY <1>0, <1>9, <2>2 DEF ExclusiveAlone, Holders, Types, TrylockUndo
    <2> QED  BY <2>1, <2>3, <2>5 DEF IInv
  <1>10. ASSUME NEW t \in Threads, smb_exclusively_unlock(t)
        PROVE  IInv'
    <2>1. Types'  BY <1>0, <1>10 DEF Types, smb_exclusively_unlock, PCs
    <2>2. /\ "shared" \in PCs
          /\ pc' = [pc EXCEPT ![t] = "shared"]
          /\ count' = count + Weight("shared") - Weight(pc[t])
      BY <1>0, <1>10 DEF smb_exclusively_unlock, Types, PCs, Weight
    <2>3. CountExact'  BY <1>0, <2>2, ExactAfterMove, Zenon
    <2>5. ExclusiveAlone'
      BY <1>0, <1>10, <2>2 DEF ExclusiveAlone, Holders, Types, smb_exclusively_unlock
    <2> QED  BY <2>1, <2>3, <2>5 DEF IInv
  <1> QED
    BY <1>1, <1>2, <1>3, <1>4, <1>5, <1>6, <1>7, <1>8, <1>9, <1>10
    DEF Next, Inside

\* The inductive invariant bounds the lock word by the contexts there are.
LEMMA CountRange == IInv => TypeOK
  <1> SUFFICES ASSUME IInv PROVE TypeOK  OBVIOUS
  <1>1. Types /\ CountExact  BY DEF IInv
  <1>2. Bias * Cardinality(Biased) <= Bias * Cardinality(Threads)
    BY <1>1, CountedFinite, ProductMonotone, SmbAssumption
  <1>3. /\ Bias * Cardinality(Biased) \in Nat
        /\ Cardinality(Counted) \in Nat /\ Cardinality(Threads) \in Nat
        /\ Cardinality(Counted) <= Cardinality(Threads)
        /\ Bias \in Nat /\ Bias >= 1
    BY <1>1, CountedFinite, SmbAssumption
  <1>4. Bias * Cardinality(Threads) \in Nat
        /\ Cardinality(Threads) <= Bias * Cardinality(Threads)
    <2>1. Cardinality(Threads) * 1 <= Cardinality(Threads) * Bias
      BY <1>3, ProductMonotone
    <2> QED  BY <1>3, <2>1
  <1>5. -IntMax <= count /\ count <= IntMax
    BY <1>1, <1>2, <1>3, <1>4, SmbAssumption DEF CountExact
  <1> QED  BY <1>1, <1>5, SmbAssumption DEF Types, TypeOK

\* The lock word stays within an atomic_t and every context within the
\* macros, for any number of contexts SmbAssumption allows.
THEOREM TypeCorrect == Spec => []TypeOK
  <1> QED  BY InitIInv, NextIInv, CountRange, PTL DEF Spec

\* No interleaving of the atomic operations loses an update of the lock word.
THEOREM CounterIsExact == Spec => []CountExact
  <1>1. IInv => CountExact  BY DEF IInv
  <1> QED  BY <1>1, InitIInv, NextIInv, PTL DEF Spec

\* An exclusive holder of a memblock is its only holder.
THEOREM MutualExclusion == Spec => []ExclusiveAlone
  <1>1. IInv => ExclusiveAlone  BY DEF IInv
  <1> QED  BY <1>1, InitIInv, NextIInv, PTL DEF Spec

\* The context that holds the memblock exclusively, as a set.
Writer == {t \in Threads : pc[t] = "excl"}

\* Every step of the macros is a step of the abstract lock or leaves it alone.
LEMMA StepRefines ==
  ASSUME IInv, [Next]_vars
  PROVE  [RW!Next]_<<Holders, Writer>>
  <1> USE DEF Writer
  <1>0. Types /\ CountExact /\ ExclusiveAlone  BY DEF IInv
  <1>s. count >= 0 <=> Biased = {}  BY <1>0, SignTellsBias
  <1>1. CASE UNCHANGED vars
    BY <1>1 DEF vars, Holders
  <1>2. ASSUME NEW t \in Threads, smb_simultaneously_lock(t)
        PROVE  [RW!Next]_<<Holders, Writer>>
    <2>1. CASE count' < 0
      BY <1>0, <1>2, <2>1 DEF Types, smb_simultaneously_lock, Holders
    <2>2. CASE ~(count' < 0)
      <3>1. Writer = {}
        <4>1. IInv'  BY NextIInv
        <4>2. CountExact' /\ Counted' \in SUBSET Threads
              /\ Biased' \in SUBSET Threads
          BY <4>1 DEF IInv, Counted, Biased
        <4>3. count' \in Int  BY <4>1 DEF IInv, Types
        <4>4. Biased' = {}
          BY <2>2, <4>2, <4>3, SignOfDifference DEF CountExact
        <4> QED  BY <1>0, <1>2, <4>4 DEF Biased, Types, smb_simultaneously_lock
      <3>2. t \notin Holders /\ Holders' = Holders \cup {t} /\ Writer' = Writer
        BY <1>0, <1>2, <2>2 DEF Types, smb_simultaneously_lock, Holders
      <3>3. RW!AcquireShared(t)  BY <3>1, <3>2 DEF RW!AcquireShared
      <3> QED  BY <3>3 DEF RW!Next
    <2> QED  BY <2>1, <2>2
  <1>3. ASSUME NEW t \in Threads, SpinRead(t)
        PROVE  RW!AcquireShared(t)
    <2>1. Writer = {}  BY <1>3, <1>s DEF SpinRead, Biased
    <2>2. t \notin Holders /\ Holders' = Holders \cup {t} /\ Writer' = Writer
      BY <1>0, <1>3 DEF Types, SpinRead, Holders
    <2> QED  BY <2>1, <2>2 DEF RW!AcquireShared
  <1>4. ASSUME NEW t \in Threads, smb_simultaneously_lock_retry(t)
        PROVE  UNCHANGED <<Holders, Writer>>
    BY <1>0, <1>4 DEF Types, smb_simultaneously_lock_retry, Holders, Writer
  <1>5. ASSUME NEW t \in Threads, RetryRead(t)
        PROVE  [RW!Next]_<<Holders, Writer>>
    <2>1. CASE count < 0
      BY <1>0, <1>5, <2>1 DEF Types, RetryRead, Holders
    <2>2. CASE ~(count < 0)
      <3>1. Writer = {}  BY <1>0, <1>s, <2>2 DEF Biased, Types
      <3>2. t \notin Holders /\ Holders' = Holders \cup {t} /\ Writer' = Writer
        BY <1>0, <1>5, <2>2 DEF Types, RetryRead, Holders
      <3>3. RW!AcquireShared(t)  BY <3>1, <3>2 DEF RW!AcquireShared
      <3> QED  BY <3>3 DEF RW!Next
    <2> QED  BY <2>1, <2>2
  <1>6. ASSUME NEW t \in Threads, RetryGiveUp(t)
        PROVE  UNCHANGED <<Holders, Writer>>
    BY <1>0, <1>6 DEF Types, RetryGiveUp, Holders, Writer
  <1>7. ASSUME NEW t \in Threads, smb_simultaneously_unlock(t)
        PROVE  RW!ReleaseShared(t)
    <2>1. t \in Holders \ Writer /\ Holders' = Holders \ {t} /\ Writer' = Writer
      BY <1>0, <1>7 DEF Types, smb_simultaneously_unlock, Holders
    <2> QED  BY <2>1 DEF RW!ReleaseShared
  <1>8. ASSUME NEW t \in Threads, smb_exclusively_trylock(t)
        PROVE  [RW!Next]_<<Holders, Writer>>
    <2>1. CASE count' # 1 - Bias
      BY <1>0, <1>8, <2>1 DEF Types, smb_exclusively_trylock, Holders
    <2>2. CASE count' = 1 - Bias
      <3>1. count = 1 /\ t \in Counted
        BY <1>0, <1>8, <2>2, SmbAssumption
        DEF smb_exclusively_trylock, Types, Counted
      <3>2. Counted = {t} /\ Biased = {}  BY <1>0, <3>1, AloneWhenOne
      <3>3. Holders = {t} /\ Writer = {}
        BY <1>8, <3>2 DEF Counted, Biased, Holders, smb_exclusively_trylock
      <3>4. Holders' = Holders /\ Writer' = {t}
        BY <1>0, <1>8, <2>2, <3>3 DEF Types, smb_exclusively_trylock, Holders
      <3>5. RW!Upgrade(t)  BY <3>3, <3>4 DEF RW!Upgrade
      <3> QED  BY <3>5 DEF RW!Next
    <2> QED  BY <2>1, <2>2
  <1>9. ASSUME NEW t \in Threads, TrylockUndo(t)
        PROVE  UNCHANGED <<Holders, Writer>>
    BY <1>0, <1>9 DEF Types, TrylockUndo, Holders, Writer
  <1>10. ASSUME NEW t \in Threads, smb_exclusively_unlock(t)
         PROVE  RW!Downgrade(t)
    <2>1. Writer = {t}
      BY <1>0, <1>10 DEF smb_exclusively_unlock, ExclusiveAlone, Holders
    <2>2. Holders' = Holders /\ Writer' = {}
      BY <1>0, <1>10, <2>1 DEF Types, smb_exclusively_unlock, Holders
    <2> QED  BY <2>1, <2>2 DEF RW!Downgrade
  <1> QED
    BY <1>1, <1>2, <1>3, <1>4, <1>5, <1>6, <1>7, <1>8, <1>9, <1>10
    DEF Next, Inside, RW!Next

\* The counter and its macros implement the abstract simultaneous/exclusive
\* lock, whatever the contexts that use it do.
THEOREM SmbImplementsRwLock == Spec => Refinement
  <1>1. Init => RW!Init
    BY DEF Init, RW!Init, Holders
  <1>2. IInv /\ [Next]_vars => [RW!Next]_<<Holders, {t \in Threads : pc[t] = "excl"}>>
    BY StepRefines DEF Writer
  <1> QED  BY <1>1, <1>2, InitIInv, NextIInv, PTL DEF Spec, RW!Spec, Refinement

-----------------------------------------------------------------------------
(* DiskStats.  A request is charged to one whole-disk counter when it       *)
(* starts and to perhaps another when it ends, so no counter says anything  *)
(* by itself: the invariant is about their sum, about the part of it a      *)
(* reader has gathered, and about what each duration adds to the times.     *)

\* The statistics by themselves.
StatsSpec == StatsInit /\ [][StatsNext]_st

\* The types of the record.
Counts == [Cpus \X Parts \X Dirs -> Int]
BioRecords == [on : BOOLEAN, rw : Dirs, part : Parts, start : Nat]

Stats ==
  [kern : AllKerns, table : Parts, jiffies : Nat, jumps : SUBSET Jumps,
   repartitions : Nat, started : Nat, fly : Counts, bios : [Bios -> BioRecords],
   ios : [Dirs -> Nat], sectors : [Dirs -> Nat], time : [Dirs -> Nat],
   stamp : [Parts -> Nat], ticks : [Parts -> Nat],
   scan : [cpu : Nat, sum : Int, quiet : BOOLEAN], read : Int, exact : BOOLEAN,
   truth : Nat, begun : [Dirs -> Nat], ended : [Dirs -> Nat],
   spent : [Dirs -> Nat], lost : [Dirs -> Nat]]

-----------------------------------------------------------------------------
(* Sums over the CPUs.                                                     *)

\* A set of numbers with 0 and all successors of its members has all.
LEMMA AllNumbers ==
  ASSUME NEW T, 0 \in T, \A n \in Nat : n \in T => n + 1 \in T
  PROVE  Nat \subseteq T
<1> DEFINE Out == Nat \ T
<1> SUFFICES ASSUME Out # {}  PROVE FALSE
  OBVIOUS
<1>1. IsWellFoundedOn(OpToRel(<, Nat), Nat)  BY NatLessThanWellFounded, Zenon
<1>2. \E x \in Out : \A y \in Out : ~ (<<y, x>> \in OpToRel(<, Nat))
  <2>1. Out \subseteq Nat  OBVIOUS
  <2> QED  BY <1>1, <2>1, WFMin, Zenon
<1>3. PICK x \in Out : \A y \in Out : ~ (<<y, x>> \in OpToRel(<, Nat))  BY <1>2, Zenon
<1>4. \A y \in Out : ~ (y < x)  BY <1>3, Zenon DEF OpToRel
<1>5. x \in Nat /\ x \notin T /\ x # 0  OBVIOUS
<1>6. x - 1 \in Nat /\ (x - 1) + 1 = x /\ x - 1 < x  BY <1>5
<1>7. x - 1 \in T  BY <1>4, <1>6
<1> QED  BY <1>5, <1>6, <1>7

\* f has the counters of the first CPUs, up to the n-th, added up.
Adds(f, s, n) ==
  /\ f \in [0 .. n -> Int] /\ f[0] = 0
  /\ \A k \in 1 .. n : f[k] = f[k - 1] + local_in_flight(s, k)

Locals(s) == \A c \in Cpus : local_in_flight(s, c) \in Int

\* OnCpus has them.
LEMMA OnCpusAdds ==
  ASSUME NEW s, Locals(s)
  PROVE  Adds(OnCpus(s), s, NCpu)
<1>0. NCpu \in Nat  BY StatsAssumption
<1> DEFINE T == {n \in Nat : n <= NCpu => \E f : Adds(f, s, n)}
<1>1. 0 \in T
  <2> DEFINE f == [k \in 0 .. 0 |-> 0]
  <2>1. f \in [0 .. 0 -> Int] /\ f[0] = 0  OBVIOUS
  <2>2. Adds(f, s, 0)  BY <2>1 DEF Adds
  <2> QED  BY <2>2
<1>2. ASSUME NEW n \in Nat, n \in T  PROVE n + 1 \in T
  <2> SUFFICES ASSUME n + 1 <= NCpu  PROVE \E f : Adds(f, s, n + 1)
    OBVIOUS
  <2>1. PICK f : Adds(f, s, n)  BY <1>0, <1>2
  <2> DEFINE g == [k \in 0 .. n + 1 |-> IF k = n + 1 THEN f[n] + local_in_flight(s, n + 1) ELSE f[k]]
  <2>2. local_in_flight(s, n + 1) \in Int /\ n + 1 \in Cpus  BY <1>0 DEF Locals, Cpus
  <2>3. g \in [0 .. n + 1 -> Int] /\ g[0] = 0  BY <2>1, <2>2 DEF Adds
  <2>4. \A k \in 0 .. n : g[k] = f[k]  OBVIOUS
  <2>5. ASSUME NEW k \in 1 .. n + 1  PROVE g[k] = g[k - 1] + local_in_flight(s, k)
    <3>1. k - 1 \in 0 .. n  OBVIOUS
    <3>2. CASE k = n + 1  BY <2>4, <3>1, <3>2
    <3>3. CASE k # n + 1
      <4>1. k \in 1 .. n /\ k \in 0 .. n  BY <3>3
      <4> QED  BY <2>1, <2>4, <3>1, <4>1 DEF Adds
    <3> QED  BY <3>2, <3>3
  <2>6. Adds(g, s, n + 1)  BY <2>3, <2>5, Zenon DEF Adds
  <2> QED  BY <2>6
<1> HIDE DEF T
<1>3. Nat \subseteq T  BY <1>1, <1>2, AllNumbers
<1>4. PICK f : Adds(f, s, NCpu)  BY <1>0, <1>3 DEF T
<1> DEFINE Eq(h) == h = [n \in 0 .. NCpu |-> IF n = 0 THEN 0 ELSE h[n - 1] + local_in_flight(s, n)]
           g == CHOOSE h : Eq(h)
<1>5. Eq(f)  BY <1>0, <1>4 DEF Adds
<1>6. Eq(g)  BY <1>5, Zenon
<1>7. OnCpus(s) = g  BY Zenon DEF OnCpus
<1> HIDE DEF g
<1> DEFINE S == {n \in Nat : n <= NCpu => g[n] = f[n]}
<1>8. 0 \in S  BY <1>0, <1>4, <1>6 DEF Adds
<1>9. ASSUME NEW n \in Nat, n \in S  PROVE n + 1 \in S
  BY <1>0, <1>4, <1>6, <1>9 DEF Adds
<1> HIDE DEF S
<1>10. Nat \subseteq S  BY <1>8, <1>9, AllNumbers
<1>11. \A n \in 0 .. NCpu : g[n] = f[n]  BY <1>0, <1>10 DEF S
<1>12. g = f
  <2>1. f = [n \in 0 .. NCpu |-> f[n]]  BY <1>4 DEF Adds
  <2>2. g = [n \in 0 .. NCpu |-> g[n]]  BY <1>6
  <2> QED  BY <1>11, <2>1, <2>2
<1> QED  BY <1>4, <1>7, <1>12

\* A counter of CPU c that changes by d changes the sums from c on.
LEMMA SumsMove ==
  ASSUME NEW s, NEW t, Locals(s), NEW c \in Cpus, NEW d \in Int,
         \A k \in Cpus : local_in_flight(t, k) = local_in_flight(s, k) + IF k = c THEN d ELSE 0
  PROVE  \A n \in 0 .. NCpu : OnCpus(t)[n] = OnCpus(s)[n] + IF n >= c THEN d ELSE 0
<1>0. NCpu \in Nat /\ c \in Nat \ {0}  BY StatsAssumption DEF Cpus
<1>1. Locals(t)  BY DEF Locals
<1> DEFINE f == OnCpus(s)  g == OnCpus(t)
<1>2. Adds(f, s, NCpu) /\ Adds(g, t, NCpu)  BY <1>1, OnCpusAdds
<1> HIDE DEF f, g
<1> DEFINE T == {n \in Nat : n <= NCpu => g[n] = f[n] + IF n >= c THEN d ELSE 0}
<1>3. 0 \in T  BY <1>0, <1>2 DEF Adds
<1>4. ASSUME NEW n \in Nat, n \in T  PROVE n + 1 \in T
  <2> SUFFICES ASSUME n + 1 <= NCpu  PROVE g[n + 1] = f[n + 1] + IF n + 1 >= c THEN d ELSE 0
    OBVIOUS
  <2>1. n + 1 \in Cpus /\ n + 1 \in 1 .. NCpu /\ (n + 1) - 1 = n /\ n \in 0 .. NCpu
    BY <1>0 DEF Cpus
  <2> DEFINE a == local_in_flight(s, n + 1)  b == local_in_flight(t, n + 1)
  <2>2. a \in Int /\ b = a + IF n + 1 = c THEN d ELSE 0  BY <2>1 DEF Locals
  <2>3. g[n + 1] = g[n] + b /\ f[n + 1] = f[n] + a /\ f[n] \in Int /\ g[n] \in Int
    BY <1>2, <2>1 DEF Adds
  <2> HIDE DEF a, b
  <2>4. g[n] = f[n] + IF n >= c THEN d ELSE 0  BY <1>0, <1>4
  <2> QED  BY <1>0, <2>2, <2>3, <2>4
<1> HIDE DEF T
<1>5. Nat \subseteq T  BY <1>3, <1>4, AllNumbers
<1> QED  BY <1>0, <1>5 DEF T, f, g

\* When only the first CPU has a counter, its count is the sum.
LEMMA SumOfOne ==
  ASSUME NEW s, Locals(s), \A c \in Cpus : c # 1 => local_in_flight(s, c) = 0
  PROVE  OnCpus(s)[NCpu] = local_in_flight(s, 1)
<1>0. NCpu \in Nat \ {0} /\ 1 \in Cpus  BY StatsAssumption DEF Cpus
<1> DEFINE f == OnCpus(s)  a == local_in_flight(s, 1)
<1>1. Adds(f, s, NCpu)  BY OnCpusAdds
<1>2. a \in Int  BY <1>0 DEF Locals
<1>3. f[1] = a  BY <1>0, <1>1, <1>2 DEF Adds
<1> HIDE DEF f, a
<1> DEFINE T == {n \in Nat : n + 1 <= NCpu => f[n + 1] = a}
<1>4. 0 \in T  BY <1>3
<1>5. ASSUME NEW n \in Nat, n \in T  PROVE n + 1 \in T
  <2> SUFFICES ASSUME n + 2 <= NCpu  PROVE f[n + 2] = a
    OBVIOUS
  <2>1. n + 2 \in Cpus /\ n + 2 \in 1 .. NCpu /\ (n + 2) - 1 = n + 1 /\ n + 2 # 1
    BY <1>0 DEF Cpus
  <2>2. f[n + 2] = f[n + 1] + local_in_flight(s, n + 2)  BY <1>1, <2>1 DEF Adds
  <2>3. local_in_flight(s, n + 2) = 0  BY <2>1
  <2>4. f[n + 1] = a  BY <1>0, <1>5
  <2> QED  BY <1>2, <2>2, <2>3, <2>4
<1> HIDE DEF T
<1>6. Nat \subseteq T  BY <1>4, <1>5, AllNumbers
<1>7. NCpu - 1 \in Nat /\ (NCpu - 1) + 1 = NCpu  BY <1>0
<1> QED  BY <1>0, <1>6, <1>7 DEF T, f, a

-----------------------------------------------------------------------------
(* What accounting does to the record, field by field.                     *)

\* The whole disk's counters of CPU c move by d.
Moved(s, t, c, d) ==
  \A k \in Cpus : local_in_flight(t, k) = local_in_flight(s, k) + IF k = c THEN d ELSE 0

\* The fields that accounting leaves alone.
Kept(s, t) ==
  /\ t.kern = s.kern /\ t.table = s.table /\ t.jiffies = s.jiffies /\ t.jumps = s.jumps
  /\ t.repartitions = s.repartitions /\ t.started = s.started /\ t.bios = s.bios
  /\ t.scan = s.scan /\ t.spent = s.spent /\ t.begun = s.begun /\ t.ended = s.ended

\* A stamp that moves comes with one tick.
Ticked(s, t) ==
  \A p \in Parts : \/ t.stamp[p] = s.stamp[p] /\ t.ticks[p] = s.ticks[p]
                   \/ /\ s.stamp[p] # s.jiffies /\ t.stamp[p] = s.jiffies
                      /\ t.ticks[p] = s.ticks[p] + 1

SameTicks(s, t) == t.stamp = s.stamp /\ t.ticks = s.ticks
SameTimes(s, t) == t.time = s.time /\ t.lost = s.lost

\* The requests and sectors stay, or one request of a direction is counted.
SameCounts(s, t) == t.ios = s.ios /\ t.sectors = s.sectors
CountedOne(s, t, rw) ==
  /\ t.ios = [s.ios EXCEPT ![rw] = @ + 1]
  /\ t.sectors = [s.sectors EXCEPT ![rw] = @ + BioSectors]

\* The counters of a CPU are numbers.
LEMMA StatsLocals ==
  ASSUME NEW s \in Stats
  PROVE  Locals(s)
<1> SUFFICES ASSUME NEW c \in Cpus  PROVE local_in_flight(s, c) \in Int
  BY DEF Locals
<1>1. s.fly \in Counts  BY DEF Stats
<1>2. <<c, 0, 0>> \in Cpus \X Parts \X Dirs /\ <<c, 0, 1>> \in Cpus \X Parts \X Dirs
  BY DEF Parts, Dirs
<1> QED  BY <1>1, <1>2 DEF Counts, local_in_flight

\* A record whose counters changed, those of the whole disk by d on one CPU.
LEMMA FlyFields ==
  ASSUME NEW s \in Stats, NEW cpu \in Cpus, NEW rw \in Dirs, NEW d \in Int, NEW f \in Counts,
         \A k \in Cpus, r \in Dirs :
            f[<<k, 0, r>>] = s.fly[<<k, 0, r>>] + IF k = cpu /\ r = rw THEN d ELSE 0,
         NEW t, t = [s EXCEPT !.fly = f]
  PROVE  /\ t \in Stats /\ Kept(s, t) /\ SameCounts(s, t) /\ SameTicks(s, t) /\ SameTimes(s, t)
         /\ Moved(s, t, cpu, d)
<1>1. s.fly \in Counts  BY DEF Stats
<1>5. t \in Stats /\ t.fly = f  BY DEF Stats
<1>6. Kept(s, t)  BY DEF Stats, Kept
<1>7. SameCounts(s, t) /\ SameTicks(s, t) /\ SameTimes(s, t)
  BY DEF Stats, SameCounts, SameTicks, SameTimes
<1>8. Moved(s, t, cpu, d)
  <2> SUFFICES ASSUME NEW k \in Cpus
               PROVE local_in_flight(t, k) = local_in_flight(s, k) + IF k = cpu THEN d ELSE 0
    BY DEF Moved
  <2> DEFINE a == s.fly[<<k, 0, 0>>]  b == s.fly[<<k, 0, 1>>]
  <2>1. /\ f[<<k, 0, 0>>] = a + IF k = cpu /\ 0 = rw THEN d ELSE 0
        /\ f[<<k, 0, 1>>] = b + IF k = cpu /\ 1 = rw THEN d ELSE 0
    BY DEF Dirs
  <2>2. a \in Int /\ b \in Int  BY <1>1 DEF Counts, Parts, Dirs
  <2>3. local_in_flight(s, k) = a + b  BY DEF local_in_flight
  <2>4. local_in_flight(t, k) = f[<<k, 0, 0>>] + f[<<k, 0, 1>>]  BY <1>5 DEF local_in_flight
  <2>5. rw = 0 \/ rw = 1  BY DEF Dirs
  <2> HIDE DEF a, b
  <2> QED  BY <2>1, <2>2, <2>3, <2>4, <2>5
<1> QED  BY <1>5, <1>6, <1>7, <1>8

\* Bump moves one whole-disk counter, once, whichever the partition.
LEMMA BumpFields ==
  ASSUME NEW s \in Stats, NEW cpu \in Cpus, NEW part \in Parts, NEW rw \in Dirs, NEW d \in Int,
         NEW t, t = Bump(s, cpu, part, rw, d)
  PROVE  /\ t \in Stats /\ Kept(s, t) /\ SameCounts(s, t) /\ SameTicks(s, t) /\ SameTimes(s, t)
         /\ Moved(s, t, cpu, d)
<1> DEFINE f == [i \in Cpus \X Parts \X Dirs |->
                   IF i[1] = cpu /\ i[2] \in {part, 0} /\ i[3] = rw THEN s.fly[i] + d ELSE s.fly[i]]
<1>1. s.fly \in Counts  BY DEF Stats
<1>2. f \in Counts  BY <1>1 DEF Counts
<1>3. t = [s EXCEPT !.fly = f]  BY <1>1 DEF Bump, Counts
<1>4. \A k \in Cpus, r \in Dirs :
         f[<<k, 0, r>>] = s.fly[<<k, 0, r>>] + IF k = cpu /\ r = rw THEN d ELSE 0
  BY <1>1 DEF Counts, Parts
<1> HIDE DEF f
<1> QED  BY <1>2, <1>3, <1>4, FlyFields

\* The block layer's counting moves the whole disk's counter when it is the one
\* counted on.
LEMMA LocalFields ==
  ASSUME NEW s \in Stats, NEW cpu \in Cpus, NEW part \in Parts, NEW rw \in Dirs, NEW d \in Int,
         NEW t, t = part_stat_local_add(s, cpu, part, rw, d)
  PROVE  /\ t \in Stats /\ Kept(s, t) /\ SameCounts(s, t) /\ SameTicks(s, t) /\ SameTimes(s, t)
         /\ Moved(s, t, cpu, IF part = 0 THEN d ELSE 0)
<1> DEFINE f == [s.fly EXCEPT ![<<cpu, part, rw>>] = @ + d]
           e == IF part = 0 THEN d ELSE 0
<1>1. s.fly \in Counts  BY DEF Stats
<1>2. f \in Counts  BY <1>1 DEF Counts
<1>3. t = [s EXCEPT !.fly = f]  BY Zenon DEF part_stat_local_add
<1>4. ASSUME NEW k \in Cpus, NEW r \in Dirs
      PROVE  f[<<k, 0, r>>] = s.fly[<<k, 0, r>>] + IF k = cpu /\ r = rw THEN e ELSE 0
  <2>1. <<k, 0, r>> \in Cpus \X Parts \X Dirs  BY DEF Parts
  <2>2. s.fly[<<k, 0, r>>] \in Int  BY <1>1, <2>1 DEF Counts
  <2> QED  BY <1>1, <2>1, <2>2 DEF Counts
<1>5. e \in Int  OBVIOUS
<1> HIDE DEF f, e
<1>6. /\ t \in Stats /\ Kept(s, t) /\ SameCounts(s, t) /\ SameTicks(s, t) /\ SameTimes(s, t)
      /\ Moved(s, t, cpu, e)
  BY <1>2, <1>3, <1>4, <1>5, FlyFields
<1> QED  BY <1>6, Zenon DEF e

\* Count adds one request of its direction.
LEMMA CountFields ==
  ASSUME NEW s \in Stats, NEW rw \in Dirs, NEW t, t = Count(s, rw)
  PROVE  /\ t \in Stats /\ Kept(s, t) /\ CountedOne(s, t, rw)
         /\ SameTicks(s, t) /\ SameTimes(s, t) /\ t.fly = s.fly
<1> DEFINE i == [s.ios EXCEPT ![rw] = @ + 1]
           n == [s.sectors EXCEPT ![rw] = @ + BioSectors]
<1>1. i \in [Dirs -> Nat] /\ n \in [Dirs -> Nat]  BY DEF Stats, BioSectors
<1>2. t = [s EXCEPT !.ios = i, !.sectors = n]  BY Zenon DEF Count
<1> HIDE DEF i, n
<1>3. t \in Stats /\ t.ios = i /\ t.sectors = n /\ t.fly = s.fly  BY <1>1, <1>2 DEF Stats
<1>4. Kept(s, t)  BY <1>2 DEF Stats, Kept
<1>5. SameTicks(s, t) /\ SameTimes(s, t)  BY <1>2 DEF Stats, SameTicks, SameTimes
<1> QED  BY <1>3, <1>4, <1>5, Zenon DEF i, n, CountedOne

\* shannon_update_io_ticks moves stamps with their ticks.
LEMMA TicksFields ==
  ASSUME NEW s \in Stats, NEW part \in Parts, NEW t, t = shannon_update_io_ticks(s, part)
  PROVE  /\ t \in Stats /\ Kept(s, t) /\ SameCounts(s, t) /\ t.fly = s.fly
         /\ SameTimes(s, t) /\ Ticked(s, t)
<1> DEFINE late(p) == p \in {part, 0} /\ s.stamp[p] # s.jiffies
           a == [p \in Parts |-> IF late(p) THEN s.jiffies ELSE s.stamp[p]]
           b == [p \in Parts |-> s.ticks[p] + IF late(p) THEN 1 ELSE 0]
<1>1. s.stamp \in [Parts -> Nat] /\ s.ticks \in [Parts -> Nat] /\ s.jiffies \in Nat  BY DEF Stats
<1>2. a \in [Parts -> Nat] /\ b \in [Parts -> Nat]  BY <1>1
<1>3. t = [s EXCEPT !.stamp = a, !.ticks = b]  BY Zenon DEF shannon_update_io_ticks
<1>4. \A p \in Parts : \/ a[p] = s.stamp[p] /\ b[p] = s.ticks[p]
                       \/ s.stamp[p] # s.jiffies /\ a[p] = s.jiffies /\ b[p] = s.ticks[p] + 1
  BY <1>1
<1> HIDE DEF a, b
<1>5. t \in Stats /\ t.stamp = a /\ t.ticks = b  BY <1>2, <1>3 DEF Stats
<1>6. Kept(s, t)  BY <1>3 DEF Stats, Kept
<1>7. SameCounts(s, t) /\ t.fly = s.fly /\ SameTimes(s, t)
  BY <1>3 DEF Stats, SameCounts, SameTimes
<1> QED  BY <1>4, <1>5, <1>6, <1>7 DEF Ticked

\* The fields that the records of accounting, of a reader and of a bio set.
TimeSet(s, a, w) == [s EXCEPT !.time = a, !.lost = w]

IsTimeSet(s, a, w, t) ==
  /\ t \in Stats /\ Kept(s, t) /\ SameCounts(s, t) /\ t.fly = s.fly /\ SameTicks(s, t)
  /\ t.time = a /\ t.lost = w

\* Setting the time changes the time alone.
LEMMA TimeFields ==
  ASSUME NEW s \in Stats, NEW a \in [Dirs -> Nat], NEW w \in [Dirs -> Nat]
  PROVE  IsTimeSet(s, a, w, TimeSet(s, a, w))
<1> DEFINE t == TimeSet(s, a, w)
<1>1. t \in Stats /\ t.time = a /\ t.lost = w  BY Zenon DEF Stats, TimeSet
<1>2. Kept(s, t)  BY DEF Stats, Kept, TimeSet
<1>3. SameCounts(s, t) /\ t.fly = s.fly /\ SameTicks(s, t)
  BY DEF Stats, SameCounts, SameTicks, TimeSet
<1> QED  BY <1>1, <1>2, <1>3, Zenon DEF IsTimeSet

-----------------------------------------------------------------------------
(* The two halves of accounting, in every generation.                      *)

\* One whole-disk counter moves by d; before 5.0 it is the only one.
Charged(s, t, d) ==
  \E c \in Cpus : (s.kern \notin PerCpu => c = 1) /\ Moved(s, t, c, d)

\* What a request sent to a block device is on the whole disk's counters.
Share(s, to) == IF BdevOf(s, to) = 0 THEN 1 ELSE 0

\* A request is counted when it starts, or from 6.3 on when it ends.
Started(s, t, to, rw) ==
  /\ t \in Stats /\ Kept(s, t) /\ Ticked(s, t) /\ SameTimes(s, t) /\ Charged(s, t, Share(s, to))
  /\ IF s.kern = "6.3" THEN SameCounts(s, t) ELSE CountedOne(s, t, rw)

\* The time charged for a duration, and what it lost.
Timed(k, dur, x, y) ==
  IF k \in HasNsecs THEN By8(dur) = x + WordBy8 * y ELSE x = dur /\ y = 0

Charges(s, t, rw, dur) ==
  \E x, y \in Nat : /\ t.time = [s.time EXCEPT ![rw] = @ + x]
                    /\ t.lost = [s.lost EXCEPT ![rw] = @ + y]
                    /\ Timed(s.kern, dur, x, y)

Ended(s, t, to, rw, dur) ==
  /\ t \in Stats /\ Kept(s, t) /\ Ticked(s, t) /\ Charged(s, t, 0 - Share(s, to))
  /\ IF s.kern = "6.3" THEN CountedOne(s, t, rw) ELSE SameCounts(s, t)
  /\ Charges(s, t, rw, dur)

\* Stamps and ticks may stay.
LEMMA SameTicksTicked ==
  ASSUME NEW s, NEW t, SameTicks(s, t)
  PROVE  Ticked(s, t)
BY Zenon DEF SameTicks, Ticked

\* A counter moved after changes that leave the counters alone.
LEMMA MovedLast ==
  ASSUME NEW s, NEW u, Kept(s, u), u.fly = s.fly, Ticked(s, u), NEW cpu \in Cpus, NEW d,
         s.kern \notin PerCpu => cpu = 1,
         NEW t, Kept(u, t), SameTicks(u, t), Moved(u, t, cpu, d)
  PROVE  Kept(s, t) /\ Ticked(s, t) /\ Charged(s, t, d)
<1>2. Kept(s, t)  BY Zenon DEF Kept
<1>3. Ticked(s, t)  BY Zenon DEF Ticked, SameTicks
<1>4. Moved(s, t, cpu, d)  BY Zenon DEF Moved, local_in_flight
<1> QED  BY <1>2, <1>3, <1>4, Zenon DEF Charged

\* Bump comes last.
LEMMA BumpLast ==
  ASSUME NEW s \in Stats, NEW u \in Stats, Kept(s, u), u.fly = s.fly, Ticked(s, u),
         NEW cpu \in Cpus, NEW part \in Parts, NEW rw \in Dirs, NEW d \in Int,
         s.kern \notin PerCpu => cpu = 1,
         NEW t, t = Bump(u, cpu, part, rw, d)
  PROVE  /\ t \in Stats /\ Kept(s, t) /\ SameCounts(u, t) /\ SameTimes(u, t) /\ Ticked(s, t)
         /\ Charged(s, t, d)
<1>1. /\ t \in Stats /\ Kept(u, t) /\ SameCounts(u, t) /\ SameTicks(u, t) /\ SameTimes(u, t)
      /\ Moved(u, t, cpu, d)
  BY BumpFields
<1>2. Kept(s, t) /\ Ticked(s, t) /\ Charged(s, t, d)  BY <1>1, MovedLast, Zenon
<1> QED  BY <1>1, <1>2

\* So does the block layer's counting.
LEMMA LocalLast ==
  ASSUME NEW s \in Stats, NEW u \in Stats, Kept(s, u), u.fly = s.fly, Ticked(s, u),
         NEW cpu \in Cpus, NEW part \in Parts, NEW rw \in Dirs, NEW d \in Int, s.kern \in PerCpu,
         NEW t, t = part_stat_local_add(u, cpu, part, rw, d)
  PROVE  /\ t \in Stats /\ Kept(s, t) /\ SameCounts(u, t) /\ SameTimes(u, t) /\ Ticked(s, t)
         /\ Charged(s, t, IF part = 0 THEN d ELSE 0)
<1> DEFINE e == IF part = 0 THEN d ELSE 0
<1>1. /\ t \in Stats /\ Kept(u, t) /\ SameCounts(u, t) /\ SameTicks(u, t) /\ SameTimes(u, t)
      /\ Moved(u, t, cpu, e)
  BY LocalFields
<1> HIDE DEF e
<1>2. Kept(s, t) /\ Ticked(s, t) /\ Charged(s, t, e)  BY <1>1, MovedLast, Zenon
<1> QED  BY <1>1, <1>2, Zenon DEF e

\* The CPU whose counter is used.
LEMMA CellFields ==
  ASSUME NEW s \in Stats, NEW cpu \in Cpus
  PROVE  Cell(s, cpu) \in Cpus /\ (s.kern \notin PerCpu => Cell(s, cpu) = 1) /\ 1 \in Cpus
BY StatsAssumption DEF Cell, Cpus

\* The kernels whose block layer does the accounting.
Generic == {"5.7", "5.8", "5.15", "6.3"}

LEMMA GenericKerns ==
  ASSUME NEW s \in Stats
  PROVE  /\ s.kern \in Generic => s.kern \in PerCpu /\ s.kern \in HasNsecs
         /\ s.kern \notin Generic => s.kern \notin ByBdev /\ s.kern # "6.3"
         /\ s.kern = "5.7" => s.kern \notin ByBdev
         /\ s.kern \in Generic /\ s.kern # "5.7" => s.kern \in ByBdev \cup {"5.8"}
         /\ s.kern \notin Generic => s.kern \notin ByBdev \cup {"5.8"}
BY DEF Generic, PerCpu, HasNsecs, AllKerns, ByBdev, Stats

\* shannon_start_io_acct, in every generation.
LEMMA StartFields ==
  ASSUME NEW s \in Stats, NEW to \in Parts, NEW cpu \in Cpus, NEW rw \in Dirs,
         NEW t, t = shannon_start_io_acct(s, to, cpu, rw)
  PROVE  Started(s, t, to, rw)
<1>a. Cell(s, cpu) \in Cpus /\ (s.kern \notin PerCpu => Cell(s, cpu) = 1) /\ 1 \in Cpus
  BY CellFields
<1>b. s.table \in Parts /\ 0 \in Parts /\ 0 \in Dirs /\ 1 \in Int /\ s.kern \in AllKerns
  BY DEF Stats, Parts, Dirs
<1>1. CASE s.kern \in Generic
  <2> DEFINE u == IF s.kern = "6.3" THEN s ELSE Count(s, rw)
             part == BdevOf(s, to)
  <2>0. s.kern \in PerCpu /\ (s.kern = "5.7" => part = 0)
    BY <1>1, GenericKerns DEF BdevOf
  <2>1. t = part_stat_local_add(u, cpu, part, rw, 1)
    <3>1. CASE s.kern = "5.7"
      <4>1. t = part_stat_local_add(Count(s, rw), cpu, 0, rw, 1)
        <5>1. s.kern \notin ByBdev \cup {"5.8"}  BY <3>1 DEF ByBdev
        <5> QED  BY <3>1, <5>1, Zenon DEF shannon_start_io_acct, start_io_acct_5_7
      <4>2. u = Count(s, rw) /\ part = 0  BY <2>0, <3>1
      <4> QED  BY <4>1, <4>2, Zenon
    <3>2. CASE s.kern # "5.7"
      <4>1. s.kern \in ByBdev \cup {"5.8"}  BY <1>1, <3>2, GenericKerns, Zenon
      <4>2. t = start_io_acct_5_8(s, to, cpu, rw)
        BY <3>2, <4>1 DEF shannon_start_io_acct
      <4> QED  BY <4>2, Zenon DEF start_io_acct_5_8
    <3> QED  BY <3>1, <3>2
  <2>2. /\ u \in Stats /\ Kept(s, u) /\ SameTicks(s, u) /\ SameTimes(s, u) /\ u.fly = s.fly
        /\ IF s.kern = "6.3" THEN SameCounts(s, u) ELSE CountedOne(s, u, rw)
    <3>1. CASE s.kern = "6.3"
      <4>1. u = s  BY <3>1
      <4> QED  BY <3>1, <4>1, Zenon DEF Kept, SameTicks, SameTimes, SameCounts
    <3>2. CASE s.kern # "6.3"
      <4>1. u = Count(s, rw)  BY <3>2
      <4> HIDE DEF u
      <4> QED  BY <3>2, <4>1, CountFields
    <3> QED  BY <3>1, <3>2
  <2>3. part \in Parts /\ Ticked(s, u)
    <3>1. part \in Parts  BY <1>b DEF BdevOf
    <3> QED  BY <2>2, <3>1, SameTicksTicked, Zenon
  <2> DEFINE e == IF part = 0 THEN 1 ELSE 0
  <2>4. e = Share(s, to)  BY Zenon DEF Share
  <2> HIDE DEF u, part
  <2>5. /\ t \in Stats /\ Kept(s, t) /\ SameCounts(u, t) /\ SameTimes(u, t) /\ Ticked(s, t)
        /\ Charged(s, t, e)
    BY <1>b, <2>0, <2>1, <2>2, <2>3, LocalLast
  <2> HIDE DEF e
  <2>6. IF s.kern = "6.3" THEN SameCounts(s, t) ELSE CountedOne(s, t, rw)
    BY <2>2, <2>5, Zenon DEF SameCounts, CountedOne
  <2> QED  BY <2>2, <2>4, <2>5, <2>6, Zenon DEF Started, SameTimes
<1>2. CASE s.kern \notin Generic
  <2> DEFINE part == disk_map_sector_rcu(s)
             v == IF s.kern \in {"5.0", "rhel8.4"} THEN shannon_update_io_ticks(s, part) ELSE s
             u == Count(v, rw)
             c == IF s.kern \in {"2.6.27", "2.6.28"} THEN 1 ELSE Cell(u, cpu)
             p == IF s.kern = "2.6.27" THEN 0 ELSE part
             r == IF s.kern \in {"2.6.27", "2.6.28"} THEN 0 ELSE rw
  <2>0. /\ s.kern # "5.7" /\ s.kern \notin ByBdev \cup {"5.8"} /\ s.kern # "6.3"
        /\ s.kern \notin ByBdev
    BY <1>2, GenericKerns DEF Generic
  <2>1. t = Bump(u, c, p, r, 1)
    <3>1. t = start_io_acct_part(s, cpu, rw)  BY <2>0 DEF shannon_start_io_acct
    <3>2. CASE s.kern = "2.6.27"  BY <3>1, <3>2 DEF start_io_acct_part
    <3>3. CASE s.kern = "2.6.28"  BY <3>1, <3>3 DEF start_io_acct_part, part_inc_in_flight_2_6_28
    <3>4. CASE s.kern \notin {"2.6.27", "2.6.28"}
      BY <3>1, <3>4 DEF start_io_acct_part, shannon_part_inc_in_flight
    <3> QED  BY <3>2, <3>3, <3>4
  <2>2. part \in Parts  BY <1>b DEF disk_map_sector_rcu
  <2> HIDE DEF part
  <2>3. v \in Stats /\ Kept(s, v) /\ SameCounts(s, v) /\ v.fly = s.fly /\ SameTimes(s, v)
        /\ Ticked(s, v)
    <3>1. CASE s.kern \in {"5.0", "rhel8.4"}
      <4>1. v = shannon_update_io_ticks(s, part)  BY <3>1
      <4> QED  BY <2>2, <4>1, TicksFields
    <3>2. CASE s.kern \notin {"5.0", "rhel8.4"}
      <4>1. v = s  BY <3>2
      <4> QED  BY <4>1, Zenon DEF Kept, SameCounts, SameTimes, Ticked
    <3> QED  BY <3>1, <3>2
  <2> HIDE DEF v
  <2>4. /\ u \in Stats /\ Kept(v, u) /\ CountedOne(v, u, rw)
        /\ SameTicks(v, u) /\ SameTimes(v, u) /\ u.fly = v.fly
    BY <2>3, CountFields
  <2> HIDE DEF u
  <2>5. Kept(s, u) /\ u.fly = s.fly /\ SameTimes(s, u) /\ CountedOne(s, u, rw)
    BY <2>3, <2>4, Zenon DEF Kept, SameTimes, SameCounts, CountedOne
  <2>6. Ticked(s, u)  BY <2>3, <2>4, Zenon DEF Ticked, SameTicks
  <2>7. c \in Cpus /\ (s.kern \notin PerCpu => c = 1)
    <3>1. Cell(u, cpu) = Cell(s, cpu)  BY <2>5, Zenon DEF Cell, Kept
    <3> QED  BY <1>a, <3>1 DEF PerCpu
  <2>8. p \in Parts /\ r \in Dirs  BY <1>b, <2>2
  <2> HIDE DEF c, p, r
  <2>9. /\ t \in Stats /\ Kept(s, t) /\ SameCounts(u, t) /\ SameTimes(u, t) /\ Ticked(s, t)
        /\ Charged(s, t, 1)
    <3>1. u \in Stats /\ Kept(s, u) /\ u.fly = s.fly  BY <2>4, <2>5, Zenon
    <3>2. 1 \in Int  OBVIOUS
    <3> QED  BY <2>1, <2>6, <2>7, <2>8, <3>1, <3>2, BumpLast, SMTT(20)
  <2>10. Share(s, to) = 1  BY <2>0, Zenon DEF Share, BdevOf
  <2>11. SameTimes(s, t) /\ CountedOne(s, t, rw)
    BY <2>5, <2>9, Zenon DEF SameTimes, SameCounts, CountedOne
  <2> QED  BY <2>0, <2>9, <2>10, <2>11, Zenon DEF Started
<1> QED  BY <1>1, <1>2

\* A duration in nanoseconds by 8 is cut to its remainder.
LEMMA Wraps ==
  ASSUME NEW dur \in Nat
  PROVE  /\ NsecsBy8(dur) \in Nat /\ Lost(dur) \in Nat /\ By8(dur) \in Nat
         /\ By8(dur) = NsecsBy8(dur) + WordBy8 * Lost(dur) /\ WordBy8 \in Nat
<1>1. 2 ^ 29 \in Nat \ {0}  BY SMT
<1>2. WordBy8 \in Nat \ {0}  BY <1>1, Zenon DEF WordBy8
<1>3. PICK m \in Nat \ {0} : m = WordBy8  BY <1>2, Zenon
<1> DEFINE y == By8(dur)
<1>4. y \in Nat  BY DEF By8, UsecPerJiffy
<1>5. NsecsBy8(dur) = y % m /\ Lost(dur) = y \div m  BY <1>3, Zenon DEF NsecsBy8, Lost
<1> HIDE DEF y
<1>6. y % m \in Nat /\ y \div m \in Nat /\ y = (y % m) + m * (y \div m)  BY <1>4
<1> QED  BY <1>3, <1>4, <1>5, <1>6, Zenon DEF y

IsTimed(s, v, rw, x, y, u) ==
  /\ u \in Stats /\ Kept(s, u) /\ SameCounts(v, u) /\ u.fly = s.fly /\ Ticked(s, u)
  /\ u.time = [s.time EXCEPT ![rw] = @ + x] /\ u.lost = [s.lost EXCEPT ![rw] = @ + y]

TimeAdd(v, rw, x, y) ==
  TimeSet(v, [v.time EXCEPT ![rw] = @ + x], [v.lost EXCEPT ![rw] = @ + y])

\* Time is charged after changes that leave the times alone.
LEMMA TimeLast ==
  ASSUME NEW s, NEW v \in Stats, Kept(s, v), v.fly = s.fly, SameTimes(s, v), Ticked(s, v),
         NEW rw \in Dirs, NEW x \in Nat, NEW y \in Nat,
         NEW u, u = TimeAdd(v, rw, x, y)
  PROVE  IsTimed(s, v, rw, x, y, u)
<1> DEFINE a == [v.time EXCEPT ![rw] = @ + x]
           w == [v.lost EXCEPT ![rw] = @ + y]
<1>1. a \in [Dirs -> Nat] /\ w \in [Dirs -> Nat]  BY DEF Stats
<1>2. a = [s.time EXCEPT ![rw] = @ + x] /\ w = [s.lost EXCEPT ![rw] = @ + y]
  BY Zenon DEF SameTimes
<1> HIDE DEF a, w
<1>3. IsTimeSet(v, a, w, u)
  <2>1. u = TimeSet(v, a, w)  BY Zenon DEF TimeAdd, a, w
  <2>2. IsTimeSet(v, a, w, TimeSet(v, a, w))  BY <1>1, TimeFields, Zenon
  <2> QED  BY <2>1, <2>2, Zenon
<1>4. /\ u \in Stats /\ Kept(v, u) /\ SameCounts(v, u) /\ u.fly = v.fly /\ SameTicks(v, u)
      /\ u.time = a /\ u.lost = w
  BY <1>3, Zenon DEF IsTimeSet
<1>5. Kept(s, u)  BY <1>4, Zenon DEF Kept
<1>6. Ticked(s, u)  BY <1>4, Zenon DEF Ticked, SameTicks
<1> QED  BY <1>2, <1>4, <1>5, <1>6, Zenon DEF IsTimed

\* shannon_end_io_acct, in every generation, wherever the request started.
LEMMA EndFields ==
  ASSUME NEW s \in Stats, NEW b \in Bios, NEW cpu \in Cpus, s.bios[b].start <= s.jiffies,
         NEW t, t = shannon_end_io_acct(s, b, cpu)
  PROVE  Ended(s, t, s.bios[b].part, s.bios[b].rw, s.jiffies - s.bios[b].start)
<1> DEFINE rw == s.bios[b].rw
           to == s.bios[b].part
           dur == s.jiffies - s.bios[b].start
<1>a. Cell(s, cpu) \in Cpus /\ (s.kern \notin PerCpu => Cell(s, cpu) = 1) /\ 1 \in Cpus
  BY CellFields
<1>b. s.table \in Parts /\ 0 \in Parts /\ 0 \in Dirs /\ -1 \in Int /\ s.kern \in AllKerns
      /\ 0 \in Nat
  BY DEF Stats, Parts, Dirs
<1>c. rw \in Dirs /\ to \in Parts /\ dur \in Nat
  <2>1. s.bios[b] \in BioRecords /\ s.jiffies \in Nat  BY DEF Stats
  <2> QED  BY <2>1 DEF BioRecords
<1> SUFFICES Ended(s, t, to, rw, dur)  OBVIOUS
<1>d. /\ NsecsBy8(dur) \in Nat /\ Lost(dur) \in Nat /\ By8(dur) \in Nat
      /\ By8(dur) = NsecsBy8(dur) + WordBy8 * Lost(dur) /\ WordBy8 \in Nat
  BY <1>c, Wraps
<1>1. CASE s.kern \in Generic
  <2> DEFINE x == By8(dur)
             v == IF s.kern = "6.3" THEN Count(s, rw) ELSE s
             u == AddTime(v, b)
             part == BdevOf(s, to)
  <2>0. s.kern \in PerCpu /\ s.kern \in HasNsecs /\ (s.kern = "5.7" => part = 0)
    BY <1>1, GenericKerns DEF BdevOf
  <2>1. t = part_stat_local_add(u, cpu, part, rw, -1)
    <3>1. CASE s.kern = "5.7"
      <4>1. t = part_stat_local_add(AddTime(s, b), cpu, 0, rw, -1)
        <5>1. s.kern \notin ByBdev \cup {"5.8"}  BY <3>1 DEF ByBdev
        <5> QED  BY <3>1, <5>1, Zenon DEF shannon_end_io_acct, end_io_acct_5_7
      <4>2. v = s /\ part = 0  BY <2>0, <3>1
      <4> HIDE DEF v, part
      <4> QED  BY <4>1, <4>2, Zenon
    <3>2. CASE s.kern # "5.7"
      <4>1. s.kern \in ByBdev \cup {"5.8"}  BY <1>1, <3>2, GenericKerns, Zenon
      <4>2. t = end_io_acct_5_8(s, b, cpu)
        BY <3>2, <4>1 DEF shannon_end_io_acct
      <4> QED  BY <4>2, Zenon DEF end_io_acct_5_8
    <3> QED  BY <3>1, <3>2
  <2>2. /\ v \in Stats /\ Kept(s, v) /\ SameTicks(s, v) /\ SameTimes(s, v) /\ v.fly = s.fly
        /\ IF s.kern = "6.3" THEN CountedOne(s, v, rw) ELSE SameCounts(s, v)
    <3> HIDE DEF rw
    <3>1. CASE s.kern = "6.3"
      <4>1. v = Count(s, rw)  BY <3>1
      <4> HIDE DEF v
      <4> QED  BY <1>c, <3>1, <4>1, CountFields
    <3>2. CASE s.kern # "6.3"
      <4>1. v = s  BY <3>2
      <4> QED  BY <3>2, <4>1, Zenon DEF Kept, SameTicks, SameTimes, SameCounts
    <3> QED  BY <3>1, <3>2
  <2>3. part \in Parts /\ Ticked(s, v)
    <3>1. part \in Parts  BY <1>b, <1>c DEF BdevOf
    <3> QED  BY <2>2, <3>1, SameTicksTicked, Zenon
  <2> HIDE DEF v, part
  <2> DEFINE w == [v.lost EXCEPT ![rw] = @ + 0]
             a == [v.time EXCEPT ![rw] = @ + x]
  <2>4. u = TimeAdd(v, rw, x, 0)
    <3>1. v.bios = s.bios /\ v.jiffies = s.jiffies  BY <2>2, Zenon DEF Kept
    <3>2. AddTime(v, b) = [v EXCEPT !.time = a]  BY <3>1, Zenon DEF AddTime
    <3>3. w = v.lost
      <4>1. v.lost \in [Dirs -> Nat]  BY <2>2 DEF Stats
      <4> HIDE DEF rw
      <4> QED  BY <1>c, <4>1
    <3> HIDE DEF a, w
    <3>4. [v EXCEPT !.time = a] = [v EXCEPT !.time = a, !.lost = v.lost]
      BY <2>2 DEF Stats
    <3>5. u = TimeSet(v, a, w)  BY <3>2, <3>3, <3>4, Zenon DEF TimeSet
    <3> HIDE DEF u
    <3> QED  BY <3>5, Zenon DEF TimeAdd, a, w
  <2> HIDE DEF u, x, rw, dur
  <2>5. /\ u \in Stats /\ Kept(s, u) /\ SameCounts(v, u) /\ u.fly = s.fly /\ Ticked(s, u)
        /\ u.time = [s.time EXCEPT ![rw] = @ + x] /\ u.lost = [s.lost EXCEPT ![rw] = @ + 0]
    <3>1. x \in Nat  BY <1>d, Zenon DEF x
    <3>2. IsTimed(s, v, rw, x, 0, u)
      BY <1>b, <1>c, <2>2, <2>3, <2>4, <3>1, TimeLast, Zenon
    <3> QED  BY <3>2, Zenon DEF IsTimed
  <2> DEFINE e == IF part = 0 THEN -1 ELSE 0
  <2>6. e = 0 - Share(s, to)  BY DEF Share, part
  <2>7. /\ t \in Stats /\ Kept(s, t) /\ SameCounts(u, t) /\ SameTimes(u, t) /\ Ticked(s, t)
        /\ Charged(s, t, e)
    BY <1>b, <1>c, <2>0, <2>1, <2>3, <2>5, LocalLast
  <2> HIDE DEF e
  <2>8. IF s.kern = "6.3" THEN CountedOne(s, t, rw) ELSE SameCounts(s, t)
    BY <2>2, <2>5, <2>7, Zenon DEF SameCounts, CountedOne
  <2>9. Timed(s.kern, dur, x, 0)
    <3>1. By8(dur) = x + WordBy8 * 0  BY <1>d DEF x
    <3> QED  BY <2>0, <3>1, Zenon DEF Timed
  <2>10. Charges(s, t, rw, dur)
    <3>1. t.time = [s.time EXCEPT ![rw] = @ + x] /\ t.lost = [s.lost EXCEPT ![rw] = @ + 0]
      BY <2>5, <2>7, Zenon DEF SameTimes
    <3>2. x \in Nat  BY <1>d, Zenon DEF x
    <3> QED  BY <1>b, <2>9, <3>1, <3>2, Zenon DEF Charges
  <2> QED  BY <2>6, <2>7, <2>8, <2>10, Zenon DEF Ended
<1>2. CASE s.kern \notin Generic
  <2> DEFINE part == disk_map_sector_rcu(s)
             v == IF s.kern \in {"5.0", "rhel8.4"} THEN shannon_update_io_ticks(s, part) ELSE s
             x == IF s.kern \in HasNsecs THEN NsecsBy8(dur) ELSE dur
             y == IF s.kern \in HasNsecs THEN Lost(dur) ELSE 0
             u == [v EXCEPT !.time[rw] = @ + x, !.lost[rw] = @ + y]
             c == IF s.kern \in {"2.6.27", "2.6.28"} THEN 1 ELSE Cell(u, cpu)
             p == IF s.kern = "2.6.27" THEN 0 ELSE part
             r == IF s.kern \in {"2.6.27", "2.6.28"} THEN 0 ELSE rw
  <2>0. /\ s.kern # "5.7" /\ s.kern \notin ByBdev \cup {"5.8"} /\ s.kern # "6.3"
        /\ s.kern \notin ByBdev
    BY <1>2, GenericKerns DEF Generic
  <2>1. t = Bump(u, c, p, r, -1)
    <3>1. t = end_io_acct_part(s, b, cpu)  BY <2>0 DEF shannon_end_io_acct
    <3>2. CASE s.kern = "2.6.27"
      <4>1. t = Bump(u, 1, 0, 0, -1)  BY <3>1, <3>2, Zenon DEF end_io_acct_part
      <4> HIDE DEF u
      <4> QED  BY <3>2, <4>1
    <3>3. CASE s.kern = "2.6.28"
      <4>1. t = Bump(u, 1, part, 0, -1)
        BY <3>1, <3>3 DEF end_io_acct_part, part_dec_in_flight_2_6_28
      <4> HIDE DEF u, part
      <4> QED  BY <3>3, <4>1
    <3>4. CASE s.kern \notin {"2.6.27", "2.6.28"}
      <4>1. t = Bump(u, Cell(u, cpu), part, rw, -1)
        BY <3>1, <3>4 DEF end_io_acct_part, shannon_part_dec_in_flight
      <4> HIDE DEF u, part
      <4> QED  BY <3>4, <4>1
    <3> QED  BY <3>2, <3>3, <3>4
  <2>2. part \in Parts  BY <1>b DEF disk_map_sector_rcu
  <2> HIDE DEF part
  <2>3. v \in Stats /\ Kept(s, v) /\ SameCounts(s, v) /\ v.fly = s.fly /\ SameTimes(s, v)
        /\ Ticked(s, v)
    <3>1. CASE s.kern \in {"5.0", "rhel8.4"}
      <4>1. v = shannon_update_io_ticks(s, part)  BY <3>1
      <4> QED  BY <2>2, <4>1, TicksFields
    <3>2. CASE s.kern \notin {"5.0", "rhel8.4"}
      <4>1. v = s  BY <3>2
      <4> QED  BY <4>1, Zenon DEF Kept, SameCounts, SameTimes, Ticked
    <3> QED  BY <3>1, <3>2
  <2>4. x \in Nat /\ y \in Nat  BY <1>c, <1>d
  <2>a. Timed(s.kern, dur, x, y)
    <3> HIDE DEF dur
    <3>1. CASE s.kern \in HasNsecs  BY <1>d, <3>1, Zenon DEF Timed
    <3>2. CASE s.kern \notin HasNsecs  BY <3>2, Zenon DEF Timed
    <3> QED  BY <3>1, <3>2
  <2> HIDE DEF v, x, y, rw, dur
  <2>5. /\ u \in Stats /\ Kept(s, u) /\ SameCounts(v, u) /\ u.fly = s.fly /\ Ticked(s, u)
        /\ u.time = [s.time EXCEPT ![rw] = @ + x] /\ u.lost = [s.lost EXCEPT ![rw] = @ + y]
    <3>1. u = TimeAdd(v, rw, x, y)  BY Zenon DEF TimeAdd, TimeSet
    <3> HIDE DEF u
    <3>2. IsTimed(s, v, rw, x, y, u)  BY <1>c, <2>3, <2>4, <3>1, TimeLast, Zenon
    <3> QED  BY <3>2, Zenon DEF IsTimed
  <2> HIDE DEF u
  <2>6. c \in Cpus /\ (s.kern \notin PerCpu => c = 1)
    <3>1. Cell(u, cpu) = Cell(s, cpu)  BY <2>5, Zenon DEF Cell, Kept
    <3> QED  BY <1>a, <3>1 DEF PerCpu
  <2>7. p \in Parts /\ r \in Dirs  BY <1>b, <1>c, <2>2
  <2> HIDE DEF c, p, r
  <2>8. /\ t \in Stats /\ Kept(s, t) /\ SameCounts(u, t) /\ SameTimes(u, t) /\ Ticked(s, t)
        /\ Charged(s, t, -1)
    BY <1>b, <2>1, <2>5, <2>6, <2>7, BumpLast
  <2>9. 0 - Share(s, to) = -1
    <3>1. Share(s, to) = 1  BY <2>0, Zenon DEF Share, BdevOf
    <3> QED  BY <3>1
  <2>10. SameCounts(s, t)  BY <2>3, <2>5, <2>8, Zenon DEF SameCounts
  <2>11. Charges(s, t, rw, dur)
    <3>1. t.time = [s.time EXCEPT ![rw] = @ + x] /\ t.lost = [s.lost EXCEPT ![rw] = @ + y]
      BY <2>5, <2>8, Zenon DEF SameTimes
    <3> QED  BY <2>4, <2>a, <3>1, Zenon DEF Charges
  <2> QED  BY <2>0, <2>8, <2>9, <2>10, <2>11, Zenon DEF Ended
<1> QED  BY <1>1, <1>2

-----------------------------------------------------------------------------
(* The invariant.                                                          *)

\* Time spent and time counted agree, but for what was lost.
TimesAgree(s) == \A rw \in Dirs : Timed(s.kern, s.spent[rw], s.time[rw], s.lost[rw])

\* The requests and sectors of a direction are those started, or ended.
Tallied(s) ==
  \A rw \in Dirs : /\ s.ios[rw] = IF s.kern = "6.3" THEN s.ended[rw] ELSE s.begun[rw]
                   /\ s.sectors[rw] = BioSectors * s.ios[rw]

TicksBehind(s) == \A p \in Parts : s.ticks[p] <= s.stamp[p] /\ s.stamp[p] <= s.jiffies

BiosSound(s) ==
  \A b \in Bios : /\ s.bios[b].on => s.bios[b].start <= s.jiffies
                  /\ b > s.started => ~s.bios[b].on

\* A reader that nothing disturbed has the sum over the CPUs it visited.
ScanSound(s) ==
  /\ s.scan.cpu < NCpu
  /\ s.kern \notin PerCpu => /\ s.scan.cpu = 0
                             /\ \A c \in Cpus : c # 1 => local_in_flight(s, c) = 0
  /\ s.scan.cpu > 0 /\ s.scan.quiet => s.scan.sum = OnCpus(s)[s.scan.cpu]

CountSound(s) == OnCpus(s)[NCpu] = Cardinality(OnDisk(s))

ReadSound(s) ==
  /\ s.read >= 0
  /\ s.exact => s.read = IF s.kern \in {"5.7", "5.8"} /\ s.truth > 0 THEN 1 ELSE s.truth

StatsInv(s) ==
  /\ s \in Stats /\ TimesAgree(s) /\ Tallied(s) /\ TicksBehind(s) /\ BiosSound(s)
  /\ ScanSound(s) /\ CountSound(s) /\ ReadSound(s)

\* The requests in flight can be counted.
LEMMA BiosFinite ==
  ASSUME NEW s
  PROVE  IsFiniteSet(OnDisk(s)) /\ Cardinality(OnDisk(s)) \in Nat
<1>1. IsFiniteSet(Bios)  BY FS_Interval, StatsAssumption DEF Bios
<1>2. OnDisk(s) \subseteq Bios  BY Zenon DEF OnDisk, InFlight
<1>3. IsFiniteSet(OnDisk(s))  BY <1>1, <1>2, FS_Subset
<1> QED  BY <1>3, FS_CardinalityType

\* Sums depend on the counters alone.
LEMMA SameSums ==
  ASSUME NEW s \in Stats, NEW t, t.fly = s.fly
  PROVE  /\ \A n \in 0 .. NCpu : OnCpus(t)[n] = OnCpus(s)[n]
         /\ \A c \in Cpus : local_in_flight(t, c) = local_in_flight(s, c)
<1>1. Locals(s) /\ 1 \in Cpus /\ NCpu \in Nat  BY StatsLocals, StatsAssumption DEF Cpus
<1>2. \A c \in Cpus : local_in_flight(t, c) = local_in_flight(s, c)  BY Zenon DEF local_in_flight
<1>3. \A c \in Cpus : local_in_flight(t, c) = local_in_flight(s, c) + IF c = 1 THEN 0 ELSE 0
  BY <1>1, <1>2 DEF Locals
<1>4. \A n \in 0 .. NCpu : OnCpus(t)[n] = OnCpus(s)[n] + IF n >= 1 THEN 0 ELSE 0
  BY <1>1, <1>3, SumsMove
<1>5. \A n \in 0 .. NCpu : OnCpus(s)[n] \in Int  BY <1>1, OnCpusAdds DEF Adds
<1> QED  BY <1>2, <1>4, <1>5

\* The fields that neither a reading nor the passing of time changes.
Rest(s, t) ==
  /\ t.kern = s.kern /\ t.started = s.started /\ t.fly = s.fly /\ t.bios = s.bios
  /\ t.ios = s.ios /\ t.sectors = s.sectors /\ t.time = s.time /\ t.lost = s.lost
  /\ t.stamp = s.stamp /\ t.ticks = s.ticks /\ t.spent = s.spent
  /\ t.begun = s.begun /\ t.ended = s.ended

\* No reading is on record.
Unread(t) == t.read = 0 /\ t.exact = FALSE

\* Past forgets the last reading and nothing else.
LEMMA PastFields ==
  ASSUME NEW s \in Stats, NEW t, t = Past(s)
  PROVE  /\ t \in Stats /\ Rest(s, t) /\ Unread(t) /\ t.scan = s.scan
         /\ t.table = s.table /\ t.jiffies = s.jiffies /\ t.jumps = s.jumps
         /\ t.repartitions = s.repartitions
<1>0. 0 \in Nat /\ 0 \in Int  OBVIOUS
<1>1. t \in Stats  BY <1>0, Zenon DEF Past, Stats
<1>2. Rest(s, t)  BY DEF Past, Stats, Rest
<1>3. Unread(t) /\ t.scan = s.scan /\ t.table = s.table /\ t.jiffies = s.jiffies
  BY DEF Past, Stats, Unread
<1>4. t.jumps = s.jumps /\ t.repartitions = s.repartitions  BY DEF Past, Stats
<1> QED  BY <1>1, <1>2, <1>3, <1>4

ScanSet(s, a) == [s EXCEPT !.scan = a]

\* A reader's step changes the scan alone.
LEMMA ScanFields ==
  ASSUME NEW s \in Stats, NEW a \in [cpu : Nat, sum : Int, quiet : BOOLEAN],
         NEW t, t = ScanSet(s, a)
  PROVE  /\ t \in Stats /\ Rest(s, t) /\ t.scan = a /\ t.read = s.read /\ t.exact = s.exact
         /\ t.jiffies = s.jiffies
<1>1. t \in Stats /\ t.scan = a  BY DEF ScanSet, Stats
<1>2. Rest(s, t)  BY DEF ScanSet, Stats, Rest
<1>3. t.read = s.read /\ t.exact = s.exact /\ t.jiffies = s.jiffies  BY DEF ScanSet, Stats
<1> QED  BY <1>1, <1>2, <1>3

\* Disturb also marks a scan in progress as disturbed.
LEMMA DisturbFields ==
  ASSUME NEW s \in Stats, NEW t, t = Disturb(s)
  PROVE  /\ t \in Stats /\ Rest(s, t) /\ Unread(t) /\ t.jiffies = s.jiffies
         /\ t.scan.cpu = s.scan.cpu /\ (t.scan.quiet => s.scan.cpu = 0)
<1> DEFINE p == Past(s)
           a == [p.scan EXCEPT !.quiet = s.scan.cpu = 0]
<1>1. t = ScanSet(p, a)  BY Zenon DEF Disturb, ScanSet
<1>2. /\ p \in Stats /\ Rest(s, p) /\ Unread(p) /\ p.scan = s.scan /\ p.jiffies = s.jiffies
  BY PastFields
<1>3. s.scan \in [cpu : Nat, sum : Int, quiet : BOOLEAN]  BY DEF Stats
<1>4. /\ a \in [cpu : Nat, sum : Int, quiet : BOOLEAN]
      /\ a.cpu = s.scan.cpu /\ (a.quiet => s.scan.cpu = 0)
  <2> HIDE DEF p
  <2> QED  BY <1>2, <1>3, Zenon
<1> HIDE DEF p, a
<1>5. /\ t \in Stats /\ Rest(p, t) /\ t.scan = a /\ t.read = p.read /\ t.exact = p.exact
      /\ t.jiffies = p.jiffies
  BY <1>1, <1>2, <1>4, ScanFields
<1>6. Rest(s, t)  BY <1>2, <1>5, Zenon DEF Rest
<1> QED  BY <1>2, <1>4, <1>5, <1>6, Zenon DEF Unread

-----------------------------------------------------------------------------
(* The steps.                                                              *)

\* What accounting and the record of the bio leave of the fields.
After(s, t, d) ==
  /\ t.kern = s.kern /\ t.jiffies = s.jiffies /\ Ticked(s, t) /\ Charged(s, t, d)
  /\ Unread(t) /\ t.scan.cpu = s.scan.cpu /\ (t.scan.quiet => s.scan.cpu = 0)

\* One whole-disk counter and the number of requests in flight move together.
LEMMA CountsMove ==
  ASSUME NEW s, StatsInv(s), NEW t \in Stats, NEW d \in Int, After(s, t, d),
         Cardinality(OnDisk(t)) = Cardinality(OnDisk(s)) + d
  PROVE  TicksBehind(t) /\ ScanSound(t) /\ CountSound(t) /\ ReadSound(t)
<1>1. /\ s \in Stats /\ TicksBehind(s) /\ ScanSound(s) /\ CountSound(s)
      /\ t.kern = s.kern /\ t.jiffies = s.jiffies /\ Ticked(s, t)
      /\ Unread(t) /\ t.scan.cpu = s.scan.cpu /\ (t.scan.quiet => s.scan.cpu = 0)
  BY Zenon DEF StatsInv, After
<1>2. PICK c \in Cpus : (s.kern \notin PerCpu => c = 1) /\ Moved(s, t, c, d)
  BY Zenon DEF After, Charged
<1>3. NCpu \in Nat /\ c \in Nat /\ NCpu >= c /\ NCpu \in 0 .. NCpu  BY StatsAssumption DEF Cpus
<1>4. Locals(s)  BY <1>1, StatsLocals
<1>5. TicksBehind(t)
  <2> SUFFICES ASSUME NEW p \in Parts
               PROVE t.ticks[p] <= t.stamp[p] /\ t.stamp[p] <= t.jiffies
    BY DEF TicksBehind
  <2>1. s.ticks[p] <= s.stamp[p] /\ s.stamp[p] <= s.jiffies  BY <1>1, Zenon DEF TicksBehind
  <2>2. s.ticks[p] \in Nat /\ s.stamp[p] \in Nat /\ s.jiffies \in Nat  BY <1>1 DEF Stats
  <2>3. \/ t.stamp[p] = s.stamp[p] /\ t.ticks[p] = s.ticks[p]
        \/ /\ s.stamp[p] # s.jiffies /\ t.stamp[p] = s.jiffies
           /\ t.ticks[p] = s.ticks[p] + 1
    BY <1>1, Zenon DEF Ticked
  <2>4. t.jiffies = s.jiffies  BY <1>1, Zenon
  <2> QED  BY <2>1, <2>2, <2>3, <2>4
<1>6. ScanSound(t)
  <2>1. t.scan.cpu < NCpu /\ (t.kern \notin PerCpu => t.scan.cpu = 0)
    BY <1>1, Zenon DEF ScanSound
  <2>2. ASSUME t.kern \notin PerCpu, NEW k \in Cpus, k # 1  PROVE local_in_flight(t, k) = 0
    <3>1. c = 1 /\ local_in_flight(s, k) = 0  BY <1>1, <1>2, <2>2, Zenon DEF ScanSound
    <3>2. local_in_flight(t, k) = local_in_flight(s, k) + IF k = c THEN d ELSE 0
      BY <1>2, Zenon DEF Moved
    <3> QED  BY <2>2, <3>1, <3>2
  <2>3. ~(t.scan.cpu > 0 /\ t.scan.quiet)  BY <1>1
  <2> QED  BY <2>1, <2>2, <2>3, Zenon DEF ScanSound
<1>7. CountSound(t)
  <2>1. \A n \in 0 .. NCpu : OnCpus(t)[n] = OnCpus(s)[n] + IF n >= c THEN d ELSE 0
    BY <1>2, <1>4, SumsMove DEF Moved
  <2>2. OnCpus(t)[NCpu] = OnCpus(s)[NCpu] + d
    <3>1. OnCpus(t)[NCpu] = OnCpus(s)[NCpu] + IF NCpu >= c THEN d ELSE 0  BY <1>3, <2>1, Zenon
    <3> QED  BY <1>3, <3>1, Zenon
  <2> QED  BY <1>1, <2>2, Zenon DEF CountSound
<1>8. ReadSound(t)  BY <1>1 DEF ReadSound, Unread
<1> QED  BY <1>5, <1>6, <1>7, <1>8

\* Counters that do not change are charged the same.
LEMMA SameFlyCharged ==
  ASSUME NEW s, NEW t, NEW v, NEW d, Charged(s, t, d), v.fly = t.fly
  PROVE  Charged(s, v, d)
<1>1. PICK c \in Cpus : (s.kern \notin PerCpu => c = 1) /\ Moved(s, t, c, d)
  BY Zenon DEF Charged
<1>2. \A k \in Cpus : local_in_flight(v, k) = local_in_flight(t, k)  BY Zenon DEF local_in_flight
<1>3. Moved(s, v, c, d)  BY <1>1, <1>2, Zenon DEF Moved
<1> QED  BY <1>1, <1>3, Zenon DEF Charged

\* The share of a request is one on the whole disk's counters, or nothing.
LEMMA Shares ==
  ASSUME NEW s, NEW to
  PROVE  /\ Share(s, to) \in Int /\ 0 - Share(s, to) \in Int
         /\ BdevOf(s, to) = 0 => Share(s, to) = 1
         /\ BdevOf(s, to) # 0 => Share(s, to) = 0 /\ 0 - Share(s, to) = 0
<1>1. CASE BdevOf(s, to) = 0
  <2>1. Share(s, to) = 1  BY <1>1, Zenon DEF Share
  <2> QED  BY <1>1, <2>1
<1>2. CASE BdevOf(s, to) # 0
  <2>1. Share(s, to) = 0  BY <1>2, Zenon DEF Share
  <2> QED  BY <1>2, <2>1
<1> QED  BY <1>1, <1>2

BioStart(s, n, g, f) == [s EXCEPT !.started = n, !.begun = g, !.bios = f]

IsBioStart(s, n, g, f, t) ==
  /\ t \in Stats /\ t.started = n /\ t.begun = g /\ t.bios = f
  /\ t.kern = s.kern /\ t.jiffies = s.jiffies /\ t.fly = s.fly /\ SameCounts(s, t)
  /\ SameTimes(s, t) /\ t.spent = s.spent /\ t.ended = s.ended /\ SameTicks(s, t)
  /\ t.scan = s.scan /\ t.read = s.read /\ t.exact = s.exact

\* The start of a bio is recorded.
LEMMA BioStartFields ==
  ASSUME NEW s \in Stats, NEW n \in Nat, NEW g \in [Dirs -> Nat], NEW f \in [Bios -> BioRecords]
  PROVE  IsBioStart(s, n, g, f, BioStart(s, n, g, f))
<1> DEFINE t == BioStart(s, n, g, f)
<1>1. t \in Stats /\ t.started = n /\ t.begun = g /\ t.bios = f  BY Zenon DEF BioStart, Stats
<1>2. t.kern = s.kern /\ t.jiffies = s.jiffies /\ t.fly = s.fly /\ SameCounts(s, t)
  BY DEF BioStart, Stats, SameCounts
<1>3. SameTimes(s, t) /\ t.spent = s.spent /\ t.ended = s.ended /\ SameTicks(s, t)
  BY DEF BioStart, Stats, SameTimes, SameTicks
<1>4. t.scan = s.scan /\ t.read = s.read /\ t.exact = s.exact  BY DEF BioStart, Stats
<1> QED  BY <1>1, <1>2, <1>3, <1>4, Zenon DEF IsBioStart

\* The requests counted are m, and their sectors with them.
Matches(s, m) == \A r \in Dirs : s.ios[r] = m[r] /\ s.sectors[r] = BioSectors * s.ios[r]

OneMore(m, rw) == [m EXCEPT ![rw] = @ + 1]

\* One request more is counted where one more started or ended.
LEMMA MatchGrows ==
  ASSUME NEW s \in Stats, NEW t, NEW rw \in Dirs, NEW m \in [Dirs -> Nat], Matches(s, m),
         CountedOne(s, t, rw)
  PROVE  Matches(t, OneMore(m, rw))
<1> DEFINE n == OneMore(m, rw)
<1> SUFFICES ASSUME NEW r \in Dirs
             PROVE t.ios[r] = n[r] /\ t.sectors[r] = BioSectors * t.ios[r]
  BY Zenon DEF Matches
<1>1. s.ios \in [Dirs -> Nat] /\ s.sectors \in [Dirs -> Nat]  BY DEF Stats
<1>2. s.ios[r] \in Nat /\ s.ios[r] = m[r] /\ s.sectors[r] = BioSectors * s.ios[r]
  BY <1>1 DEF Matches
<1>3. CASE r = rw
  <2>1. t.ios[r] = s.ios[r] + 1 /\ t.sectors[r] = s.sectors[r] + BioSectors
    BY <1>1, <1>3 DEF CountedOne
  <2>2. n[r] = m[r] + 1  BY <1>3 DEF OneMore
  <2> HIDE DEF n
  <2> QED  BY <1>2, <2>1, <2>2 DEF BioSectors
<1>4. CASE r # rw
  <2>1. t.ios[r] = s.ios[r] /\ t.sectors[r] = s.sectors[r]  BY <1>1, <1>4 DEF CountedOne
  <2>2. n[r] = m[r]  BY <1>4 DEF OneMore
  <2> QED  BY <1>2, <2>1, <2>2, Zenon
<1> QED  BY <1>3, <1>4

\* A request starts.
LEMMA StartBioKeeps ==
  ASSUME StatsInv(st), NEW b \in Bios, NEW to \in Parts, NEW cpu \in Cpus, NEW rw \in Dirs,
         StartBio(b, to, cpu, rw)
  PROVE  StatsInv(st')
<1> DEFINE t == shannon_start_io_acct(st, to, cpu, rw)
           u == Disturb(t)
           new == [on |-> TRUE, rw |-> rw, part |-> to, start |-> st.jiffies]
           f == [u.bios EXCEPT ![b] = new]
           g == [u.begun EXCEPT ![rw] = @ + 1]
           d == Share(st, to)
           v == BioStart(u, u.started + 1, g, f)
<1>1. b = st.started + 1 /\ st' = v  BY Zenon DEF StartBio, BioStart
<1>2. st \in Stats /\ TimesAgree(st) /\ BiosSound(st) /\ Tallied(st)  BY Zenon DEF StatsInv
<1>3. Started(st, t, to, rw)  BY <1>2, StartFields
<1> HIDE DEF t
<1>4. /\ t \in Stats /\ Kept(st, t) /\ Ticked(st, t) /\ SameTimes(st, t) /\ Charged(st, t, d)
      /\ IF st.kern = "6.3" THEN SameCounts(st, t) ELSE CountedOne(st, t, rw)
  BY <1>3, Zenon DEF Started
<1>5. /\ u \in Stats /\ Rest(t, u) /\ Unread(u) /\ u.jiffies = t.jiffies
      /\ u.scan.cpu = t.scan.cpu /\ (u.scan.quiet => t.scan.cpu = 0)
  BY <1>4, DisturbFields
<1> HIDE DEF u
<1>6. /\ u.bios = st.bios /\ u.started = st.started /\ u.kern = st.kern /\ u.jiffies = st.jiffies
      /\ u.spent = st.spent /\ u.scan.cpu = st.scan.cpu /\ (u.scan.quiet => st.scan.cpu = 0)
      /\ SameTimes(st, u) /\ u.begun = st.begun /\ u.ended = st.ended
      /\ u.ios = t.ios /\ u.sectors = t.sectors
  BY <1>4, <1>5, Zenon DEF Rest, Kept, SameTimes
<1>7. new \in BioRecords /\ new.on /\ new.start = st.jiffies /\ new.part = to
  BY <1>2 DEF BioRecords, Stats
<1>8. f \in [Bios -> BioRecords] /\ u.started + 1 \in Nat
  <2> HIDE DEF new
  <2>1. u.bios \in [Bios -> BioRecords] /\ u.started \in Nat  BY <1>5, Zenon DEF Stats
  <2>2. f \in [Bios -> BioRecords]  BY <1>7, <2>1, Zenon
  <2>3. ASSUME NEW n \in Nat  PROVE n + 1 \in Nat  OBVIOUS
  <2> QED  BY <2>1, <2>2, <2>3, Zenon
<1>9. f[b] = new /\ \A a \in Bios : a # b => f[a] = st.bios[a]
  <2>1. u.bios \in [Bios -> BioRecords]  BY <1>5 DEF Stats
  <2> HIDE DEF new
  <2> QED  BY <1>6, <2>1
<1>a. g \in [Dirs -> Nat] /\ g = [st.begun EXCEPT ![rw] = @ + 1]
  <2>1. st.begun \in [Dirs -> Nat]  BY <1>2 DEF Stats
  <2>2. g = [st.begun EXCEPT ![rw] = @ + 1]  BY <1>6, Zenon
  <2> HIDE DEF g
  <2> QED  BY <2>1, <2>2
<1> HIDE DEF f, g, new
<1>10. /\ v \in Stats /\ v.started = u.started + 1 /\ v.begun = g /\ v.bios = f
       /\ v.kern = u.kern /\ v.jiffies = u.jiffies /\ v.fly = u.fly /\ SameCounts(u, v)
       /\ SameTimes(u, v) /\ v.spent = u.spent /\ v.ended = u.ended /\ SameTicks(u, v)
       /\ v.scan = u.scan /\ v.read = u.read /\ v.exact = u.exact
  <2>1. u \in Stats  BY <1>5, Zenon
  <2>2. IsBioStart(u, u.started + 1, g, f, v)  BY <1>8, <1>a, <2>1, BioStartFields, Zenon
  <2> HIDE DEF v
  <2> QED  BY <2>2, Zenon DEF IsBioStart
<1> HIDE DEF v, d
<1>11. After(st, v, d)
  <2>1. Ticked(st, v)
    <3>1. v.stamp = t.stamp /\ v.ticks = t.ticks  BY <1>5, <1>10, Zenon DEF Rest, SameTicks
    <3> QED  BY <1>4, <3>1, Zenon DEF Ticked
  <2>2. Charged(st, v, d)
    <3>1. v.fly = t.fly  BY <1>5, <1>10, Zenon DEF Rest
    <3> QED  BY <1>4, <3>1, SameFlyCharged
  <2>3. v.kern = st.kern /\ v.jiffies = st.jiffies /\ v.scan.cpu = st.scan.cpu
        /\ (v.scan.quiet => st.scan.cpu = 0)
    BY <1>6, <1>10, Zenon
  <2>4. Unread(v)  BY <1>5, <1>10, Zenon DEF Unread
  <2> QED  BY <2>1, <2>2, <2>3, <2>4, Zenon DEF After
<1>12. d \in Int /\ Cardinality(OnDisk(v)) = Cardinality(OnDisk(st)) + d
  <2>1. ~st.bios[b].on
    <3>1. st.started \in Nat  BY <1>2 DEF Stats
    <3>2. b > st.started  BY <1>1, <3>1
    <3> QED  BY <1>2, <3>2, Zenon DEF BiosSound
  <2>2. \A x : BdevOf(v, x) = BdevOf(st, x)  BY <1>6, <1>10, Zenon DEF BdevOf
  <2>3. IsFiniteSet(OnDisk(st)) /\ Cardinality(OnDisk(st)) \in Nat  BY BiosFinite, Zenon
  <2>4. /\ v.bios[b].on /\ v.bios[b].part = to
        /\ \A a \in Bios : a # b => v.bios[a] = st.bios[a]
    BY <1>7, <1>9, <1>10, Zenon
  <2>5. CASE BdevOf(st, to) = 0
    <3>1. OnDisk(v) = OnDisk(st) \cup {b} /\ b \notin OnDisk(st)
      BY <2>1, <2>2, <2>4, <2>5, Zenon DEF OnDisk, InFlight
    <3>2. d = 1  BY <2>5, Shares DEF d
    <3>3. Cardinality(OnDisk(st) \cup {b}) = Cardinality(OnDisk(st)) + 1
      BY <2>3, <3>1, FS_AddElement, Zenon
    <3>4. 1 \in Int  OBVIOUS
    <3> QED  BY <3>1, <3>2, <3>3, <3>4, Zenon
  <2>6. CASE BdevOf(st, to) # 0
    <3>1. OnDisk(v) = OnDisk(st)
      BY <2>1, <2>2, <2>4, <2>6, Zenon DEF OnDisk, InFlight
    <3>2. d = 0  BY <2>6, Shares DEF d
    <3> QED  BY <2>3, <3>1, <3>2
  <2> QED  BY <2>5, <2>6
<1>13. TicksBehind(v) /\ ScanSound(v) /\ CountSound(v) /\ ReadSound(v)
  BY <1>10, <1>11, <1>12, CountsMove, Zenon
<1>14. TimesAgree(v)  BY <1>2, <1>6, <1>10, Zenon DEF TimesAgree, SameTimes
<1>15. BiosSound(v)
  <2>2. ASSUME NEW a \in Bios
        PROVE /\ v.bios[a].on => v.bios[a].start <= v.jiffies
              /\ a > v.started => ~v.bios[a].on
    <3>1. v.started = b /\ v.jiffies = st.jiffies /\ st.jiffies \in Nat /\ b \in Nat /\ a \in Nat
      <4>1. v.started = b /\ v.jiffies = st.jiffies  BY <1>1, <1>6, <1>10, Zenon
      <4>2. st.jiffies \in Nat  BY <1>2, Zenon DEF Stats
      <4>3. a \in Nat /\ b \in Nat  BY DEF Bios
      <4> QED  BY <4>1, <4>2, <4>3
    <3>2. CASE a = b
      <4>1. v.bios[a] = new  BY <1>9, <1>10, <3>2, Zenon
      <4> QED  BY <1>7, <3>1, <3>2, <4>1
    <3>3. CASE a # b
      <4>1. v.bios[a] = st.bios[a]  BY <1>9, <1>10, <3>3, Zenon
      <4>2. /\ st.bios[a].on => st.bios[a].start <= st.jiffies
            /\ a > st.started => ~st.bios[a].on
        BY <1>2, Zenon DEF BiosSound
      <4>3. st.started \in Nat /\ b = st.started + 1  BY <1>1, <1>2 DEF Stats
      <4> QED  BY <3>1, <4>1, <4>2, <4>3
    <3> QED  BY <3>2, <3>3
  <2> QED  BY <2>2, Zenon DEF BiosSound
<1>16. Tallied(v)
  <2>1. v.kern = st.kern /\ v.ended = st.ended /\ v.begun = g /\ v.ios = t.ios /\ v.sectors = t.sectors
    BY <1>6, <1>10, Zenon DEF SameCounts
  <2>2. CASE st.kern = "6.3"
    <3>1. v.ios = st.ios /\ v.sectors = st.sectors  BY <1>4, <2>1, <2>2, Zenon DEF SameCounts
    <3> QED  BY <1>2, <2>1, <2>2, <3>1, Zenon DEF Tallied
  <2>3. CASE st.kern # "6.3"
    <3>1. CountedOne(st, v, rw)  BY <1>4, <2>1, <2>3, Zenon DEF CountedOne
    <3>2. Matches(st, st.begun)  BY <1>2, <2>3, Zenon DEF Matches, Tallied
    <3>3. st.begun \in [Dirs -> Nat]  BY <1>2 DEF Stats
    <3>4. Matches(v, OneMore(st.begun, rw))  BY <1>2, <3>1, <3>2, <3>3, MatchGrows, Zenon
    <3>5. OneMore(st.begun, rw) = g  BY <1>a, Zenon DEF OneMore
    <3> QED  BY <2>1, <2>3, <3>4, <3>5, Zenon DEF Matches, Tallied
  <2> QED  BY <2>2, <2>3
<1> QED  BY <1>1, <1>10, <1>13, <1>14, <1>15, <1>16, Zenon DEF StatsInv

\* The sum of durations, in jiffies and in counted time.
LEMMA TimesAdd ==
  ASSUME NEW k, NEW m \in Nat, NEW n \in Nat, NEW x \in Nat, NEW y \in Nat,
         NEW w \in Nat, NEW z \in Nat, Timed(k, m, x, w), Timed(k, n, y, z)
  PROVE  Timed(k, m + n, x + y, w + z)
<1>1. By8(m) \in Nat /\ By8(n) \in Nat /\ By8(m + n) = By8(m) + By8(n)
  BY SMT DEF By8, UsecPerJiffy
<1> DEFINE a == By8(m)  c == By8(n)  e == By8(m + n)
<1> HIDE DEF a, c, e
<1>2. CASE k \in HasNsecs
  <2>1. WordBy8 \in Nat
    <3>1. 0 \in Nat  OBVIOUS
    <3> QED  BY <3>1, Wraps
  <2>2. PICK q \in Nat : q = WordBy8  BY <2>1
  <2>3. a = x + q * w /\ c = y + q * z  BY <1>2, <2>2, Zenon DEF Timed, a, c
  <2>4. e = a + c /\ a \in Nat /\ c \in Nat  BY <1>1, Zenon DEF a, c, e
  <2>5. q * w \in Nat /\ q * z \in Nat /\ q * (w + z) = q * w + q * z  BY <2>2, SMT
  <2>6. e = (x + y) + q * (w + z)  BY <2>3, <2>4, <2>5
  <2> QED  BY <1>2, <2>2, <2>6, Zenon DEF Timed, e
<1>3. CASE k \notin HasNsecs
  <2>1. x = m /\ y = n /\ w = 0 /\ z = 0  BY <1>3, Zenon DEF Timed
  <2>2. w + z = 0  BY <2>1
  <2> QED  BY <1>3, <2>1, <2>2, Zenon DEF Timed
<1> QED  BY <1>2, <1>3

BioEnd(s, f, h, g) == [s EXCEPT !.bios = f, !.ended = h, !.spent = g]

IsBioEnd(s, f, h, g, t) ==
  /\ t \in Stats /\ t.bios = f /\ t.ended = h /\ t.spent = g /\ t.started = s.started
  /\ t.kern = s.kern /\ t.jiffies = s.jiffies /\ t.fly = s.fly /\ SameCounts(s, t)
  /\ SameTimes(s, t) /\ t.begun = s.begun /\ SameTicks(s, t) /\ t.scan = s.scan
  /\ t.read = s.read /\ t.exact = s.exact

\* The end of a bio is recorded.
LEMMA BioEndFields ==
  ASSUME NEW s \in Stats, NEW f \in [Bios -> BioRecords], NEW h \in [Dirs -> Nat],
         NEW g \in [Dirs -> Nat]
  PROVE  IsBioEnd(s, f, h, g, BioEnd(s, f, h, g))
<1> DEFINE t == BioEnd(s, f, h, g)
<1>1. t \in Stats /\ t.bios = f /\ t.ended = h /\ t.spent = g  BY Zenon DEF BioEnd, Stats
<1>2. t.kern = s.kern /\ t.jiffies = s.jiffies /\ t.fly = s.fly /\ SameCounts(s, t)
  BY DEF BioEnd, Stats, SameCounts
<1>3. SameTimes(s, t) /\ SameTicks(s, t) /\ t.started = s.started /\ t.begun = s.begun
  BY DEF BioEnd, Stats, SameTimes, SameTicks
<1>4. t.scan = s.scan /\ t.read = s.read /\ t.exact = s.exact  BY DEF BioEnd, Stats
<1> QED  BY <1>1, <1>2, <1>3, <1>4, Zenon DEF IsBioEnd

\* A request ends.
LEMMA EndBioKeeps ==
  ASSUME StatsInv(st), NEW b \in Bios, NEW cpu \in Cpus, EndBio(b, cpu)
  PROVE  StatsInv(st')
<1> DEFINE t == shannon_end_io_acct(st, b, cpu)
           u == Disturb(t)
           rw == st.bios[b].rw
           to == st.bios[b].part
           dur == st.jiffies - st.bios[b].start
           f == [u.bios EXCEPT ![b].on = FALSE]
           h == [u.ended EXCEPT ![rw] = @ + 1]
           g == [u.spent EXCEPT ![rw] = @ + st.jiffies - st.bios[b].start]
           d == 0 - Share(st, to)
           v == BioEnd(u, f, h, g)
<1>1. st.bios[b].on /\ st' = v  BY Zenon DEF EndBio, BioEnd
<1>2. st \in Stats /\ TimesAgree(st) /\ BiosSound(st) /\ Tallied(st)  BY Zenon DEF StatsInv
<1>a. st.bios[b].start <= st.jiffies  BY <1>1, <1>2, Zenon DEF BiosSound
<1>b. rw \in Dirs /\ dur \in Nat /\ st.bios[b].start \in Nat /\ st.jiffies \in Nat
  <2>1. st.bios[b] \in BioRecords /\ st.jiffies \in Nat  BY <1>2 DEF Stats
  <2> QED  BY <1>a, <2>1 DEF BioRecords
<1>3. Ended(st, t, to, rw, dur)  BY <1>2, <1>a, EndFields
<1> HIDE DEF t
<1>4. /\ t \in Stats /\ Kept(st, t) /\ Ticked(st, t) /\ Charged(st, t, d)
      /\ IF st.kern = "6.3" THEN CountedOne(st, t, rw) ELSE SameCounts(st, t)
  BY <1>3, Zenon DEF Ended
<1>c. PICK x \in Nat, y \in Nat : /\ t.time = [st.time EXCEPT ![rw] = @ + x]
                                  /\ t.lost = [st.lost EXCEPT ![rw] = @ + y]
                                  /\ Timed(st.kern, dur, x, y)
  BY <1>3, Zenon DEF Ended, Charges
<1>5. /\ u \in Stats /\ Rest(t, u) /\ Unread(u) /\ u.jiffies = t.jiffies
      /\ u.scan.cpu = t.scan.cpu /\ (u.scan.quiet => t.scan.cpu = 0)
  BY <1>4, DisturbFields
<1> HIDE DEF u
<1>6. /\ u.bios = st.bios /\ u.started = st.started /\ u.kern = st.kern /\ u.jiffies = st.jiffies
      /\ u.spent = st.spent /\ u.scan.cpu = st.scan.cpu /\ (u.scan.quiet => st.scan.cpu = 0)
      /\ u.time = t.time /\ u.lost = t.lost /\ u.ios = t.ios /\ u.sectors = t.sectors
      /\ u.begun = st.begun /\ u.ended = st.ended
  BY <1>4, <1>5, Zenon DEF Rest, Kept
<1>7. /\ st.bios \in [Bios -> BioRecords] /\ st.spent \in [Dirs -> Nat] /\ st.time \in [Dirs -> Nat]
      /\ st.lost \in [Dirs -> Nat] /\ st.ended \in [Dirs -> Nat]
  BY <1>2 DEF Stats
<1>8. f \in [Bios -> BioRecords] /\ ~f[b].on /\ (\A a \in Bios : a # b => f[a] = st.bios[a])
  <2>1. f = [st.bios EXCEPT ![b].on = FALSE]  BY <1>6, Zenon
  <2> HIDE DEF f
  <2> QED  BY <1>7, <2>1, Zenon DEF BioRecords
<1>9. g \in [Dirs -> Nat] /\ g[rw] = st.spent[rw] + dur
      /\ (\A r \in Dirs : r # rw => g[r] = st.spent[r])
  <2>1. g = [st.spent EXCEPT ![rw] = @ + st.jiffies - st.bios[b].start]  BY <1>6, Zenon
  <2>2. st.spent[rw] \in Nat  BY <1>b, <1>7
  <2>3. st.spent[rw] + st.jiffies - st.bios[b].start = st.spent[rw] + dur  BY <1>b, <2>2
  <2>4. g = [st.spent EXCEPT ![rw] = st.spent[rw] + dur]  BY <2>1, <2>3, Zenon
  <2> HIDE DEF g, dur, rw
  <2>5. st.spent[rw] + dur \in Nat  BY <1>b, <2>2
  <2> QED  BY <1>b, <1>7, <2>4, <2>5
<1>d. h \in [Dirs -> Nat] /\ h = [st.ended EXCEPT ![rw] = @ + 1]
  <2>1. h = [st.ended EXCEPT ![rw] = @ + 1]  BY <1>6, Zenon
  <2> HIDE DEF h, rw
  <2> QED  BY <1>b, <1>7, <2>1
<1> HIDE DEF f, g, h, rw, dur
<1>10. /\ v \in Stats /\ v.bios = f /\ v.ended = h /\ v.spent = g /\ v.started = u.started
       /\ v.kern = u.kern /\ v.jiffies = u.jiffies /\ v.fly = u.fly /\ SameCounts(u, v)
       /\ SameTimes(u, v) /\ v.begun = u.begun /\ SameTicks(u, v) /\ v.scan = u.scan
       /\ v.read = u.read /\ v.exact = u.exact
  <2>1. u \in Stats  BY <1>5, Zenon
  <2>2. f \in [Bios -> BioRecords] /\ g \in [Dirs -> Nat] /\ h \in [Dirs -> Nat]
    BY <1>8, <1>9, <1>d, Zenon
  <2>3. IsBioEnd(u, f, h, g, v)  BY <2>1, <2>2, BioEndFields, Zenon
  <2> HIDE DEF v
  <2> QED  BY <2>3, Zenon DEF IsBioEnd
<1> HIDE DEF v, d
<1>11. After(st, v, d)
  <2>1. Ticked(st, v)
    <3>1. v.stamp = t.stamp /\ v.ticks = t.ticks  BY <1>5, <1>10, Zenon DEF Rest, SameTicks
    <3> QED  BY <1>4, <3>1, Zenon DEF Ticked
  <2>2. Charged(st, v, d)
    <3>1. v.fly = t.fly  BY <1>5, <1>10, Zenon DEF Rest
    <3> QED  BY <1>4, <3>1, SameFlyCharged
  <2>3. v.kern = st.kern /\ v.jiffies = st.jiffies /\ v.scan.cpu = st.scan.cpu
        /\ (v.scan.quiet => st.scan.cpu = 0)
    BY <1>6, <1>10, Zenon
  <2>4. Unread(v)  BY <1>5, <1>10, Zenon DEF Unread
  <2> QED  BY <2>1, <2>2, <2>3, <2>4, Zenon DEF After
<1>12. d \in Int /\ Cardinality(OnDisk(v)) = Cardinality(OnDisk(st)) + d
  <2>1. \A a : BdevOf(v, a) = BdevOf(st, a)  BY <1>6, <1>10, Zenon DEF BdevOf
  <2>2. IsFiniteSet(OnDisk(st)) /\ Cardinality(OnDisk(st)) \in Nat  BY BiosFinite, Zenon
  <2>3. ~v.bios[b].on /\ \A a \in Bios : a # b => v.bios[a] = st.bios[a]
    BY <1>8, <1>10, Zenon
  <2>4. CASE BdevOf(st, to) = 0
    <3>1. b \in OnDisk(st) /\ OnDisk(v) = OnDisk(st) \ {b}
      BY <1>1, <2>1, <2>3, <2>4, Zenon DEF OnDisk, InFlight
    <3>2. Cardinality(OnDisk(st) \ {b}) = Cardinality(OnDisk(st)) - 1
      BY <2>2, <3>1, FS_RemoveElement, Zenon
    <3>3. Share(st, to) = 1  BY <2>4, Shares, Zenon
    <3>4. d = -1  BY <3>3 DEF d
    <3> QED  BY <2>2, <3>1, <3>2, <3>4
  <2>5. CASE BdevOf(st, to) # 0
    <3>1. OnDisk(v) = OnDisk(st)
      BY <2>1, <2>3, <2>5, Zenon DEF OnDisk, InFlight
    <3>2. Share(st, to) = 0  BY <2>5, Shares, Zenon
    <3>3. d = 0  BY <2>5, Shares DEF d
    <3> QED  BY <2>2, <3>1, <3>3
  <2> QED  BY <2>4, <2>5
<1>13. TicksBehind(v) /\ ScanSound(v) /\ CountSound(v) /\ ReadSound(v)
  BY <1>10, <1>11, <1>12, CountsMove, Zenon
<1>14. TimesAgree(v)
  <2> SUFFICES ASSUME NEW r \in Dirs  PROVE Timed(v.kern, v.spent[r], v.time[r], v.lost[r])
    BY Zenon DEF TimesAgree
  <2>1. v.kern = st.kern /\ v.time = t.time /\ v.lost = t.lost /\ v.spent = g
    BY <1>6, <1>10, Zenon DEF SameTimes
  <2>2. Timed(st.kern, st.spent[r], st.time[r], st.lost[r])  BY <1>2, Zenon DEF TimesAgree
  <2>3. st.spent[r] \in Nat /\ st.time[r] \in Nat /\ st.lost[r] \in Nat  BY <1>7
  <2>4. CASE r = rw
    <3>1. t.time[r] = st.time[r] + x /\ t.lost[r] = st.lost[r] + y  BY <1>7, <1>c, <2>4
    <3>2. v.spent[r] = st.spent[r] + dur  BY <1>9, <2>1, <2>4, Zenon
    <3>3. Timed(st.kern, st.spent[r] + dur, st.time[r] + x, st.lost[r] + y)
      BY <1>b, <1>c, <2>2, <2>3, TimesAdd, Zenon
    <3> QED  BY <2>1, <3>1, <3>2, <3>3, Zenon
  <2>5. CASE r # rw
    <3>1. t.time[r] = st.time[r] /\ t.lost[r] = st.lost[r] /\ v.spent[r] = st.spent[r]
      BY <1>7, <1>9, <1>c, <2>1, <2>5
    <3> QED  BY <2>1, <2>2, <3>1, Zenon
  <2> QED  BY <2>4, <2>5
<1>15. BiosSound(v)
  <2>1. v.started = st.started /\ v.jiffies = st.jiffies  BY <1>6, <1>10, Zenon
  <2>2. \A a \in Bios : a # b => v.bios[a] = st.bios[a]  BY <1>8, <1>10, Zenon
  <2>3. ~v.bios[b].on  BY <1>8, <1>10, Zenon
  <2> QED  BY <1>2, <2>1, <2>2, <2>3, Zenon DEF BiosSound
<1>16. Tallied(v)
  <2>1. v.kern = st.kern /\ v.begun = st.begun /\ v.ended = h /\ v.ios = t.ios /\ v.sectors = t.sectors
    BY <1>6, <1>10, Zenon DEF SameCounts
  <2>2. CASE st.kern # "6.3"
    <3>1. v.ios = st.ios /\ v.sectors = st.sectors  BY <1>4, <2>1, <2>2, Zenon DEF SameCounts
    <3> QED  BY <1>2, <2>1, <2>2, <3>1, Zenon DEF Tallied
  <2>3. CASE st.kern = "6.3"
    <3>1. CountedOne(st, v, rw)  BY <1>4, <2>1, <2>3, Zenon DEF CountedOne
    <3>2. Matches(st, st.ended)  BY <1>2, <2>3, Zenon DEF Matches, Tallied
    <3>3. st.ended \in [Dirs -> Nat]  BY <1>2 DEF Stats
    <3>4. Matches(v, OneMore(st.ended, rw))  BY <1>2, <1>b, <3>1, <3>2, <3>3, MatchGrows, Zenon
    <3>5. OneMore(st.ended, rw) = h  BY <1>d, Zenon DEF OneMore
    <3> QED  BY <2>1, <2>3, <3>4, <3>5, Zenon DEF Matches, Tallied
  <2> QED  BY <2>2, <2>3
<1> QED  BY <1>1, <1>10, <1>13, <1>14, <1>15, <1>16, Zenon DEF StatsInv

\* Steps that leave the counters and the requests alone keep what is said of
\* them; time passes at most.
LEMMA RestKeeps ==
  ASSUME NEW s, StatsInv(s), NEW t \in Stats, Rest(s, t), s.jiffies <= t.jiffies
  PROVE  /\ TimesAgree(t) /\ Tallied(t) /\ TicksBehind(t) /\ BiosSound(t) /\ CountSound(t)
         /\ t.kern \notin PerCpu => \A c \in Cpus : c # 1 => local_in_flight(t, c) = 0
         /\ \A n \in 0 .. NCpu : OnCpus(t)[n] = OnCpus(s)[n]
<1>1. /\ s \in Stats /\ TimesAgree(s) /\ TicksBehind(s) /\ BiosSound(s) /\ CountSound(s)
      /\ ScanSound(s) /\ Tallied(s)
  BY Zenon DEF StatsInv
<1>2. /\ \A n \in 0 .. NCpu : OnCpus(t)[n] = OnCpus(s)[n]
      /\ \A c \in Cpus : local_in_flight(t, c) = local_in_flight(s, c)
  <2>1. t.fly = s.fly  BY Zenon DEF Rest
  <2> QED  BY <1>1, <2>1, SameSums
<1>3. TimesAgree(t)  BY <1>1, Zenon DEF TimesAgree, Rest
<1>4. s.jiffies \in Nat /\ t.jiffies \in Nat  BY <1>1 DEF Stats
<1>5. TicksBehind(t)
  <2> SUFFICES ASSUME NEW p \in Parts
               PROVE t.ticks[p] <= t.stamp[p] /\ t.stamp[p] <= t.jiffies
    BY DEF TicksBehind
  <2>1. s.ticks[p] <= s.stamp[p] /\ s.stamp[p] <= s.jiffies  BY <1>1, Zenon DEF TicksBehind
  <2>2. t.ticks[p] = s.ticks[p] /\ t.stamp[p] = s.stamp[p]  BY Zenon DEF Rest
  <2>3. s.stamp[p] \in Nat  BY <1>1 DEF Stats
  <2> QED  BY <1>4, <2>1, <2>2, <2>3
<1>6. BiosSound(t)
  <2>1. t.started = s.started /\ t.bios = s.bios  BY Zenon DEF Rest
  <2>2. ASSUME NEW b \in Bios, s.bios[b].on  PROVE s.bios[b].start <= t.jiffies
    <3>1. s.bios[b].start <= s.jiffies  BY <1>1, <2>2, Zenon DEF BiosSound
    <3>2. s.bios[b] \in BioRecords  BY <1>1 DEF Stats
    <3>3. s.bios[b].start \in Nat  BY <3>2 DEF BioRecords
    <3> QED  BY <1>4, <3>1, <3>3
  <2> QED  BY <1>1, <2>1, <2>2, Zenon DEF BiosSound
<1>7. CountSound(t)
  <2>1. NCpu \in 0 .. NCpu  BY StatsAssumption
  <2>2. OnDisk(t) = OnDisk(s)  BY Zenon DEF OnDisk, InFlight, BdevOf, Rest
  <2> QED  BY <1>1, <1>2, <2>1, <2>2, Zenon DEF CountSound
<1>8. t.kern \notin PerCpu => \A c \in Cpus : c # 1 => local_in_flight(t, c) = 0
  <2>1. t.kern = s.kern  BY Zenon DEF Rest
  <2> QED  BY <1>1, <1>2, <2>1, Zenon DEF ScanSound
<1>9. Tallied(t)  BY <1>1, Zenon DEF Tallied, Rest
<1> QED  BY <1>2, <1>3, <1>5, <1>6, <1>7, <1>8, <1>9

\* The clock and the partition table change between readings only.
LEMMA ElseKeeps ==
  ASSUME StatsInv(st), Repartition \/ (\E j \in Jumps : Clock(j))
  PROVE  StatsInv(st')
<1> DEFINE p == Past(st)
<1>1. st \in Stats /\ ScanSound(st)  BY Zenon DEF StatsInv
<1>2. /\ p \in Stats /\ Rest(st, p) /\ Unread(p) /\ p.scan = st.scan
      /\ p.table = st.table /\ p.jiffies = st.jiffies /\ p.jumps = st.jumps
      /\ p.repartitions = st.repartitions
  BY <1>1, PastFields
<1> HIDE DEF p
<1>3. /\ st' \in Stats /\ Rest(p, st') /\ st'.scan = p.scan /\ st.jiffies <= st'.jiffies
      /\ st'.read = p.read /\ st'.exact = p.exact
  <2>1. CASE Repartition
    <3>1. st' = [p EXCEPT !.table = 1 - p.table, !.repartitions = p.repartitions + 1]
      BY <2>1, Zenon DEF Repartition, p
    <3>2. 1 - p.table \in Parts /\ p.repartitions + 1 \in Nat /\ p.jiffies \in Nat
      BY <1>2 DEF Stats, Parts
    <3>3. st' \in Stats  BY <1>2, <3>1, <3>2, Zenon DEF Stats
    <3>4. Rest(p, st')  BY <1>2, <3>1 DEF Stats, Rest
    <3>5. /\ st'.scan = p.scan /\ st'.jiffies = p.jiffies
          /\ st'.read = p.read /\ st'.exact = p.exact
      BY <1>2, <3>1 DEF Stats
    <3> QED  BY <1>2, <3>2, <3>3, <3>4, <3>5
  <2>2. CASE \E j \in Jumps : Clock(j)
    <3>1. PICK j \in Jumps : Clock(j)  BY <2>2
    <3>2. st' = [p EXCEPT !.jiffies = p.jiffies + j, !.jumps = p.jumps \ {j}]
      BY <3>1, Zenon DEF Clock, p
    <3>3. p.jiffies \in Nat /\ p.jiffies + j \in Nat /\ p.jiffies <= p.jiffies + j
          /\ p.jumps \ {j} \in SUBSET Jumps
      BY <1>2, StatsAssumption DEF Stats
    <3>4. st' \in Stats  BY <1>2, <3>2, <3>3, Zenon DEF Stats
    <3>5. Rest(p, st')  BY <1>2, <3>2 DEF Stats, Rest
    <3>6. /\ st'.scan = p.scan /\ st'.jiffies = p.jiffies + j
          /\ st'.read = p.read /\ st'.exact = p.exact
      BY <1>2, <3>2 DEF Stats
    <3> QED  BY <1>2, <3>3, <3>4, <3>5, <3>6
  <2> QED  BY <2>1, <2>2
<1>4. Rest(st, st') /\ st'.scan = st.scan /\ Unread(st')
  BY <1>2, <1>3, Zenon DEF Rest, Unread
<1>5. /\ TimesAgree(st') /\ Tallied(st') /\ TicksBehind(st') /\ BiosSound(st') /\ CountSound(st')
      /\ st'.kern \notin PerCpu => \A c \in Cpus : c # 1 => local_in_flight(st', c) = 0
      /\ \A n \in 0 .. NCpu : OnCpus(st')[n] = OnCpus(st)[n]
  BY <1>3, <1>4, RestKeeps
<1>6. ScanSound(st')
  <2>1. /\ st.scan.cpu < NCpu /\ st'.scan.cpu = st.scan.cpu /\ st'.kern = st.kern
        /\ st.kern \notin PerCpu => st.scan.cpu = 0
    BY <1>1, <1>4, Zenon DEF ScanSound, Rest
  <2>2. st.scan.cpu \in 0 .. NCpu
    <3>1. st.scan.cpu \in Nat  BY <1>1 DEF Stats
    <3> QED  BY <2>1, <3>1, StatsAssumption
  <2> QED  BY <1>1, <1>4, <1>5, <2>1, <2>2, Zenon DEF ScanSound
<1>7. ReadSound(st')  BY <1>4 DEF ReadSound, Unread
<1> QED  BY <1>3, <1>5, <1>6, <1>7, Zenon DEF StatsInv

\* What a reader makes of a sum is never negative when the sum is a count or
\* the counters are each CPU's own.
LEMMA ReadingIs ==
  ASSUME NEW s \in Stats, NEW sum \in Int, s.kern \notin PerCpu => sum >= 0
  PROVE  /\ shannon_disk_in_flight(s, sum) \in Int /\ shannon_disk_in_flight(s, sum) >= 0
         /\ sum >= 0 => shannon_disk_in_flight(s, sum)
                          = IF s.kern \in {"5.7", "5.8"} /\ sum > 0 THEN 1 ELSE sum
<1>1. s.kern \in AllKerns  BY DEF Stats
<1>2. CASE s.kern \in ByBdev
  <2>1. shannon_disk_in_flight(s, sum) = IF sum < 0 THEN 0 ELSE sum
    <3>1. s.kern \notin {"5.8", "5.7", "2.6.28", "2.6.27"}  BY <1>2 DEF ByBdev
    <3> QED  BY <1>2, <3>1 DEF shannon_disk_in_flight, disk_in_flight_5_15
  <2> QED  BY <1>2, <2>1 DEF ByBdev
<1>3. CASE s.kern \in {"5.7", "5.8"}
  <2>1. shannon_disk_in_flight(s, sum) = IF sum # 0 THEN 1 ELSE 0
    BY <1>3 DEF shannon_disk_in_flight, disk_in_flight_5_8, disk_in_flight_5_7, ByBdev
  <2> QED  BY <1>3, <2>1
<1>4. CASE s.kern \in {"2.6.27", "2.6.28"}
  <2>1. shannon_disk_in_flight(s, sum) = sum
    BY <1>4 DEF shannon_disk_in_flight, disk_in_flight_2_6_28, disk_in_flight_2_6_27, ByBdev
  <2>2. sum >= 0  BY <1>4 DEF PerCpu, ByBdev
  <2> QED  BY <1>4, <2>1, <2>2
<1>5. CASE s.kern \notin ByBdev \cup {"5.7", "5.8", "2.6.27", "2.6.28"}
  <2>1. shannon_disk_in_flight(s, sum) = IF s.kern \in PerCpu /\ sum < 0 THEN 0 ELSE sum
    BY <1>5 DEF shannon_disk_in_flight, disk_in_flight_part
  <2> QED  BY <1>5, <2>1
<1> QED  BY <1>2, <1>3, <1>4, <1>5

ReadDone(s, a, q, r, n) ==
  [s EXCEPT !.scan = a, !.exact = q, !.read = r, !.truth = n]

\* A finished reading is recorded.
LEMMA ReadDoneFields ==
  ASSUME NEW s \in Stats, NEW a \in [cpu : Nat, sum : Int, quiet : BOOLEAN],
         NEW q \in BOOLEAN, NEW r \in Int, NEW n \in Nat, NEW t, t = ReadDone(s, a, q, r, n)
  PROVE  /\ t \in Stats /\ Rest(s, t) /\ t.jiffies = s.jiffies
         /\ t.scan = a /\ t.exact = q /\ t.read = r /\ t.truth = n
<1>1. t \in Stats  BY Zenon DEF ReadDone, Stats
<1>2. Rest(s, t)  BY DEF ReadDone, Stats, Rest
<1>3. t.jiffies = s.jiffies /\ t.scan = a /\ t.exact = q /\ t.read = r /\ t.truth = n
  BY DEF ReadDone, Stats
<1> QED  BY <1>1, <1>2, <1>3

\* A reader takes the next CPU.
LEMMA ReadKeeps ==
  ASSUME StatsInv(st), ReadInFlight
  PROVE  StatsInv(st')
<1> DEFINE c == st.scan.cpu + 1
           q == c = 1 \/ st.scan.quiet
           sum == (IF c = 1 THEN 0 ELSE st.scan.sum) + local_in_flight(st, c)
           card == Cardinality(OnDisk(st))
           r == shannon_disk_in_flight(st, sum)
           a == [cpu |-> c, sum |-> sum, quiet |-> q]
           p == Past(st)
<1>1. st' = IF c < NCpu /\ st.kern \in PerCpu THEN ScanSet(p, a) ELSE ReadDone(st, NoScan, q, r, card)
  BY Zenon DEF ReadInFlight, ScanSet, ReadDone
<1>2. st \in Stats /\ ScanSound(st) /\ CountSound(st)  BY Zenon DEF StatsInv
<1>3. st.scan \in [cpu : Nat, sum : Int, quiet : BOOLEAN] /\ st.jiffies \in Nat  BY <1>2 DEF Stats
<1>4. st.scan.cpu \in Nat /\ st.scan.sum \in Int /\ st.scan.quiet \in BOOLEAN  BY <1>3
<1>5. /\ c \in Cpus /\ c \in Nat \ {0} /\ c <= NCpu /\ c \in 1 .. NCpu /\ c - 1 = st.scan.cpu
      /\ NCpu \in Nat \ {0}
  BY <1>2, <1>4, StatsAssumption DEF ScanSound, Cpus
<1>6. Locals(st)  BY <1>2, StatsLocals
<1>7. Adds(OnCpus(st), st, NCpu)  BY <1>6, OnCpusAdds
<1> DEFINE l == local_in_flight(st, c)
<1>8. l \in Int /\ sum \in Int /\ q \in BOOLEAN  BY <1>4, <1>5, <1>6 DEF Locals
<1>9. q => sum = OnCpus(st)[c]
  <2> SUFFICES ASSUME q  PROVE sum = OnCpus(st)[c]
    OBVIOUS
  <2>1. OnCpus(st)[c] = OnCpus(st)[c - 1] + l /\ OnCpus(st)[0] = 0
    BY <1>5, <1>7, Zenon DEF Adds
  <2> HIDE DEF l
  <2>2. CASE c = 1
    <3>1. c - 1 = 0 /\ sum = 0 + l  BY <2>2 DEF l
    <3> QED  BY <1>8, <2>1, <3>1
  <2>3. CASE c # 1
    <3>1. st.scan.cpu > 0 /\ st.scan.quiet  BY <1>4, <2>3
    <3>2. st.scan.sum = OnCpus(st)[st.scan.cpu]  BY <1>2, <3>1, Zenon DEF ScanSound
    <3>3. sum = st.scan.sum + l  BY <2>3, Zenon DEF l
    <3> QED  BY <1>5, <2>1, <3>2, <3>3
  <2> QED  BY <2>2, <2>3
<1>10. card \in Nat /\ OnCpus(st)[NCpu] = card  BY <1>2, BiosFinite, Zenon DEF CountSound
<1>a. /\ p \in Stats /\ Rest(st, p) /\ Unread(p) /\ p.jiffies = st.jiffies
  BY <1>2, PastFields
<1> HIDE DEF p
<1>11. CASE c < NCpu /\ st.kern \in PerCpu
  <2>1. st' = ScanSet(p, a)  BY <1>1, <1>11, Zenon
  <2>2. /\ a \in [cpu : Nat, sum : Int, quiet : BOOLEAN]
        /\ a.cpu = c /\ a.sum = sum /\ a.quiet = q
    <3> HIDE DEF c, sum, q
    <3> QED  BY <1>5, <1>8
  <2> HIDE DEF a, sum, q, c
  <2>3. /\ st' \in Stats /\ Rest(p, st') /\ st'.scan = a /\ st'.read = p.read
        /\ st'.exact = p.exact /\ st'.jiffies = p.jiffies
    BY <1>a, <2>1, <2>2, ScanFields
  <2>4. Rest(st, st') /\ Unread(st') /\ st'.jiffies = st.jiffies
    BY <1>a, <2>3, Zenon DEF Rest, Unread
  <2>5. st.jiffies <= st'.jiffies  BY <1>3, <2>4
  <2>6. /\ TimesAgree(st') /\ Tallied(st') /\ TicksBehind(st') /\ BiosSound(st') /\ CountSound(st')
        /\ st'.kern \notin PerCpu => \A k \in Cpus : k # 1 => local_in_flight(st', k) = 0
        /\ \A n \in 0 .. NCpu : OnCpus(st')[n] = OnCpus(st)[n]
    BY <2>3, <2>4, <2>5, RestKeeps
  <2>7. ScanSound(st')
    <3>1. st'.scan.cpu = c /\ st'.scan.sum = sum /\ st'.scan.quiet = q /\ st'.kern = st.kern
      BY <2>2, <2>3, <2>4, Zenon DEF Rest
    <3>2. c \in 0 .. NCpu  BY <1>5
    <3>3. OnCpus(st')[c] = OnCpus(st)[c]  BY <2>6, <3>2, Zenon
    <3> QED  BY <1>9, <1>11, <3>1, <3>3, Zenon DEF ScanSound
  <2>8. ReadSound(st')  BY <2>4 DEF ReadSound, Unread
  <2> QED  BY <2>3, <2>6, <2>7, <2>8, Zenon DEF StatsInv
<1>12. CASE ~(c < NCpu /\ st.kern \in PerCpu)
  <2>1. st' = ReadDone(st, NoScan, q, r, card)  BY <1>1, <1>12, Zenon
  <2>2. q \/ st.kern \notin PerCpu => sum = card
    <3>1. CASE st.kern \in PerCpu
      <4>1. c = NCpu  BY <1>5, <1>12, <3>1
      <4> HIDE DEF c, sum, q, card
      <4> QED  BY <1>9, <1>10, <3>1, <4>1, Zenon
    <3>2. CASE st.kern \notin PerCpu
      <4>1. st.scan.cpu = 0 /\ \A k \in Cpus : k # 1 => local_in_flight(st, k) = 0
        BY <1>2, <3>2, Zenon DEF ScanSound
      <4>2. c = 1  BY <4>1
      <4>3. OnCpus(st)[NCpu] = local_in_flight(st, 1)  BY <1>6, <4>1, SumOfOne
      <4>4. sum = 0 + l /\ l = local_in_flight(st, 1)  BY <4>2, Zenon
      <4> HIDE DEF c, sum, q, card, l
      <4> QED  BY <1>8, <1>10, <4>3, <4>4
    <3> QED  BY <3>1, <3>2
  <2> HIDE DEF c, sum, card, q
  <2>3. st.kern \notin PerCpu => sum >= 0  BY <1>10, <2>2
  <2>4. /\ r \in Int /\ r >= 0
        /\ sum >= 0 => r = IF st.kern \in {"5.7", "5.8"} /\ sum > 0 THEN 1 ELSE sum
    BY <1>2, <1>8, <2>3, ReadingIs
  <2> HIDE DEF r
  <2>5. q => r = IF st.kern \in {"5.7", "5.8"} /\ card > 0 THEN 1 ELSE card
    BY <1>10, <2>2, <2>4
  <2>6. NoScan \in [cpu : Nat, sum : Int, quiet : BOOLEAN] /\ NoScan.cpu = 0  BY DEF NoScan
  <2>7. /\ st' \in Stats /\ Rest(st, st') /\ st'.jiffies = st.jiffies
        /\ st'.scan = NoScan /\ st'.exact = q /\ st'.read = r /\ st'.truth = card
    BY <1>2, <1>8, <1>10, <2>1, <2>4, <2>6, ReadDoneFields
  <2>8. st.jiffies <= st'.jiffies  BY <1>3, <2>7
  <2>9. /\ TimesAgree(st') /\ Tallied(st') /\ TicksBehind(st') /\ BiosSound(st') /\ CountSound(st')
        /\ st'.kern \notin PerCpu => \A k \in Cpus : k # 1 => local_in_flight(st', k) = 0
    BY <2>7, <2>8, RestKeeps
  <2>10. ScanSound(st')
    <3>1. st'.scan.cpu = 0  BY <2>6, <2>7, Zenon
    <3>2. 0 < NCpu /\ ~(0 > 0)  BY <1>5
    <3> QED  BY <2>9, <3>1, <3>2, Zenon DEF ScanSound
  <2>11. ReadSound(st')
    <3>1. st'.kern = st.kern  BY <2>7, Zenon DEF Rest
    <3> QED  BY <2>4, <2>5, <2>7, <3>1, Zenon DEF ReadSound
  <2> QED  BY <2>7, <2>9, <2>10, <2>11, Zenon DEF StatsInv
<1> QED  BY <1>11, <1>12

StatsIInv == StatsInv(st)

\* The invariant holds at the start.
LEMMA StatsInitInv == StatsInit => StatsIInv
<1> SUFFICES ASSUME NEW k \in Kerns, st = StatsStart(k)  PROVE StatsInv(st)
  BY Zenon DEF StatsInit, StatsIInv
<1>1. k \in AllKerns /\ NCpu \in Nat \ {0} /\ 0 \in Nat /\ 0 \in Int /\ 0 \in Dirs /\ 1 \in Parts
      /\ 0 \in Parts
  BY StatsAssumption DEF Dirs, Parts
<1> DEFINE z == [d \in Dirs |-> 0]
           zp == [p \in Parts |-> 0]
           fl == [i \in Cpus \X Parts \X Dirs |-> 0]
           idle == [on |-> FALSE, rw |-> 0, part |-> 0, start |-> 0]
           bs == [b \in Bios |-> idle]
           new == [kern |-> k, table |-> 1, jiffies |-> 0, jumps |-> Jumps, repartitions |-> 0,
                   started |-> 0, fly |-> fl, bios |-> bs, ios |-> z, sectors |-> z, time |-> z,
                   stamp |-> zp, ticks |-> zp, scan |-> NoScan, read |-> 0, exact |-> FALSE,
                   truth |-> 0, begun |-> z, ended |-> z, spent |-> z, lost |-> z]
<1>2. z \in [Dirs -> Nat] /\ zp \in [Parts -> Nat] /\ fl \in Counts  BY <1>1 DEF Counts
<1>3. idle \in BioRecords /\ ~idle.on  BY <1>1 DEF BioRecords
<1>4. bs \in [Bios -> BioRecords] /\ \A b \in Bios : ~bs[b].on
  <2> HIDE DEF idle
  <2> QED  BY <1>3
<1>5. NoScan \in [cpu : Nat, sum : Int, quiet : BOOLEAN] /\ NoScan.cpu = 0  BY DEF NoScan
<1>6. /\ st.fly = fl /\ st.bios = bs /\ st.ios = z /\ st.sectors = z /\ st.time = z
      /\ st.spent = z /\ st.lost = z /\ st.begun = z /\ st.ended = z /\ st.stamp = zp /\ st.ticks = zp /\ st.scan = NoScan
  BY DEF StatsStart
<1>7. /\ st.kern = k /\ st.started = 0 /\ st.jiffies = 0 /\ st.read = 0 /\ st.exact = FALSE
  BY DEF StatsStart
<1>8. st = new
  BY Zenon DEF StatsStart
<1>9. \A d \in Dirs : z[d] = 0  OBVIOUS
<1>10. \A p \in Parts : zp[p] = 0  OBVIOUS
<1>11. \A c \in Cpus : fl[<<c, 0, 0>>] = 0 /\ fl[<<c, 0, 1>>] = 0  BY DEF Parts, Dirs
<1> HIDE DEF z, zp, fl, idle, bs
<1>12. st \in Stats
  <2>1. k \in AllKerns /\ 1 \in Parts /\ 0 \in Nat /\ 0 \in Int  BY <1>1, Zenon
  <2>2. bs \in [Bios -> BioRecords]  BY <1>4, Zenon
  <2>3. NoScan \in [cpu : Nat, sum : Int, quiet : BOOLEAN]  BY <1>5, Zenon
  <2>4. Jumps \in SUBSET Jumps /\ FALSE \in BOOLEAN  BY Zenon
  <2>5. new \in Stats  BY <1>2, <2>1, <2>2, <2>3, <2>4, Zenon DEF Stats
  <2> QED  BY <1>8, <2>5, Zenon
<1>13. TimesAgree(st)
  <2>1. By8(0) = 0 + WordBy8 * 0
    <3>1. WordBy8 \in Nat  BY <1>1, Wraps
    <3>2. By8(0) = 0  BY DEF By8, UsecPerJiffy
    <3> QED  BY <3>1, <3>2
  <2>2. \A d \in Dirs : st.spent[d] = 0 /\ st.time[d] = 0 /\ st.lost[d] = 0  BY <1>6, <1>9, Zenon
  <2>3. Timed(st.kern, 0, 0, 0)  BY <2>1, Zenon DEF Timed
  <2> QED  BY <2>2, <2>3, Zenon DEF TimesAgree
<1>14. TicksBehind(st)  BY <1>6, <1>7, <1>10 DEF TicksBehind
<1>15. BiosSound(st)
  <2>2. \A b \in Bios : ~st.bios[b].on  BY <1>4, <1>6, Zenon
  <2> QED  BY <2>2, Zenon DEF BiosSound
<1>a. Tallied(st)
  <2>1. 0 = BioSectors * 0  BY DEF BioSectors
  <2>2. \A d \in Dirs : st.ios[d] = 0 /\ st.sectors[d] = 0 /\ st.begun[d] = 0 /\ st.ended[d] = 0
    BY <1>6, <1>9, Zenon
  <2> QED  BY <2>1, <2>2, Zenon DEF Tallied
<1>16. \A c \in Cpus : local_in_flight(st, c) = 0
  <2>1. 0 + 0 = 0  OBVIOUS
  <2> QED  BY <1>6, <1>11, <2>1, Zenon DEF local_in_flight
<1>17. ScanSound(st)
  <2>1. st.scan.cpu = 0 /\ 0 < NCpu /\ ~(0 > 0)  BY <1>1, <1>5, <1>6
  <2> QED  BY <1>16, <2>1, Zenon DEF ScanSound
<1>18. CountSound(st)
  <2>1. Locals(st)  BY <1>12, StatsLocals
  <2>2. OnCpus(st)[NCpu] = local_in_flight(st, 1)  BY <1>16, <2>1, SumOfOne
  <2>3. 1 \in Cpus  BY <1>1 DEF Cpus
  <2>4. OnDisk(st) = {}  BY <1>4, <1>6, Zenon DEF OnDisk, InFlight
  <2> QED  BY <1>16, <2>2, <2>3, <2>4, FS_EmptySet DEF CountSound
<1>19. ReadSound(st)  BY <1>7 DEF ReadSound
<1> QED  BY <1>12, <1>13, <1>14, <1>15, <1>17, <1>18, <1>19, <1>a, Zenon DEF StatsInv

\* Every step keeps the invariant.
LEMMA StatsStepInv == StatsIInv /\ [StatsNext]_st => StatsIInv'
<1> SUFFICES ASSUME StatsInv(st), [StatsNext]_st  PROVE StatsInv(st')
  BY DEF StatsIInv
<1>1. CASE UNCHANGED st  BY <1>1, Zenon
<1>2. ASSUME NEW b \in Bios, NEW to \in Parts, NEW cpu \in Cpus, NEW rw \in Dirs,
             StartBio(b, to, cpu, rw)
      PROVE StatsInv(st')
  BY <1>2, StartBioKeeps
<1>3. ASSUME NEW b \in Bios, NEW cpu \in Cpus, EndBio(b, cpu)  PROVE StatsInv(st')
  BY <1>3, EndBioKeeps
<1>4. CASE ReadInFlight  BY <1>4, ReadKeeps
<1>5. CASE Repartition \/ (\E j \in Jumps : Clock(j))  BY <1>5, ElseKeeps
<1> QED  BY <1>1, <1>2, <1>3, <1>4, <1>5, Zenon DEF StatsNext

\* For any number of CPUs and requests and in every generation, the whole
\* disk's counters add up to the requests between shannon_start_io_acct and
\* shannon_end_io_acct that they count (from 5.15 on, those sent to the whole
\* disk), and an undisturbed reading is their number.
THEOREM CountersAddUp == StatsSpec => []InFlightExact
<1>1. StatsIInv => InFlightExact
  BY Zenon DEF StatsIInv, StatsInv, CountSound, ReadSound, InFlightExact
<1> QED  BY <1>1, StatsInitInv, StatsStepInv, PTL DEF StatsSpec

\* What DiskStat tells of a direction, in milliseconds.
LEMMA ToldIs ==
  ASSUME NEW s \in Stats, TimesAgree(s), NEW rw \in Dirs
  PROVE  DiskStat(s, TRUE, "msecs", rw)
           = (By8(s.spent[rw]) - WordBy8 * s.lost[rw]) \div By8PerMsec
<1> DEFINE x == s.time[rw]
           y == s.lost[rw]
           n == s.spent[rw]
           told == DiskStat(s, TRUE, "msecs", rw)
           ms == (x * UsecPerJiffy) \div 1000
<1>1. x \in Nat /\ n \in Nat /\ y \in Nat  BY DEF Stats
<1>2. Timed(s.kern, n, x, y)  BY Zenon DEF TimesAgree
<1>3. told = IF s.kern \in HasNsecs THEN x \div By8PerMsec ELSE ms
  <2>1. CASE s.kern \in Generic
    <3>1. s.kern \in HasNsecs  BY <2>1, GenericKerns, Zenon
    <3>2. disk_stat_5_8(s, TRUE, "msecs", rw) = x \div By8PerMsec  BY DEF disk_stat_5_8
    <3>3. disk_stat_5_7(s, TRUE, "msecs", rw) = x \div By8PerMsec  BY DEF disk_stat_5_7
    <3>4. \/ told = disk_stat_5_8(s, TRUE, "msecs", rw)
          \/ told = disk_stat_5_7(s, TRUE, "msecs", rw)
      <4>1. s.kern = "5.7" \/ s.kern \in ByBdev \cup {"5.8"}  BY <2>1, GenericKerns, Zenon
      <4>2. s.kern = "5.7" => s.kern \notin ByBdev \cup {"5.8"}  BY DEF ByBdev
      <4>3. CASE s.kern = "5.7"  BY <4>2, <4>3, Zenon DEF DiskStat
      <4>4. CASE s.kern # "5.7"
        <5>1. s.kern \in ByBdev \cup {"5.8"}  BY <4>1, <4>4
        <5> QED  BY <4>4, <5>1, Zenon DEF DiskStat
      <4> QED  BY <4>3, <4>4
    <3> HIDE DEF x, told, ms
    <3> QED  BY <3>1, <3>2, <3>3, <3>4, Zenon
  <2>2. CASE s.kern \notin Generic
    <3>0. s.kern # "5.7" /\ s.kern \notin ByBdev \cup {"5.8"}
      BY <2>2, GenericKerns DEF Generic
    <3>1. told = disk_stat_part(s, TRUE, "msecs", rw)  BY <3>0, Zenon DEF DiskStat
    <3>2. disk_stat_part(s, TRUE, "msecs", rw)
            = IF s.kern \in HasNsecs THEN x \div By8PerMsec ELSE ms
      BY DEF disk_stat_part
    <3> HIDE DEF x, told, ms
    <3> QED  BY <3>1, <3>2, Zenon
  <2> QED  BY <2>1, <2>2, Zenon
<1>4. PICK w \in Nat : w = WordBy8  BY <1>1, Wraps
<1> HIDE DEF x, y, n, told, ms
<1>5. told = (By8(n) - w * y) \div By8PerMsec
  <2>1. CASE s.kern \in HasNsecs
    <3>1. By8(n) = x + w * y /\ told = x \div By8PerMsec
      BY <1>2, <1>3, <1>4, <2>1, Zenon DEF Timed
    <3>2. w * y \in Nat  BY <1>1, SMT
    <3>3. By8(n) - w * y = x  BY <1>1, <3>1, <3>2
    <3> QED  BY <3>1, <3>3, Zenon
  <2>2. CASE s.kern \notin HasNsecs
    <3>1. x = n /\ y = 0 /\ told = ms
      BY <1>2, <1>3, <2>2, Zenon DEF Timed
    <3>2. By8(x) \in Nat /\ By8(x) \div By8PerMsec = ms
      BY SMT, <1>1 DEF By8, UsecPerJiffy, By8PerMsec, ms
    <3>3. By8(n) - w * y = By8(x)  BY <3>1, <3>2
    <3> QED  BY <3>1, <3>2, <3>3, Zenon
  <2> QED  BY <2>1, <2>2
<1> QED  BY <1>4, <1>5, Zenon DEF n, y, told

\* The requests, sectors and times reported of each direction are those of its
\* requests, for durations of any length: a duration that is cut takes its own
\* multiples of 2^32 ns off the sum and nothing else.
THEOREM TimesAreTold == StatsSpec => []TimesAddUp
<1>1. StatsIInv => TimesAddUp
  <2> SUFFICES ASSUME StatsInv(st)  PROVE TimesAddUp
    BY DEF StatsIInv
  <2>1. st \in Stats /\ TimesAgree(st) /\ TicksBehind(st) /\ Tallied(st)  BY Zenon DEF StatsInv
  <2>2. ASSUME NEW rw \in Dirs
        PROVE  DiskStat(st, TRUE, "msecs", rw)
                 = (By8(st.spent[rw]) - WordBy8 * st.lost[rw]) \div By8PerMsec
    BY <2>1, ToldIs, Zenon
  <2>3. ASSUME NEW rw \in Dirs
        PROVE  /\ DiskStat(st, TRUE, "ios", rw) = st.ios[rw]
               /\ DiskStat(st, TRUE, "sectors", rw) = st.sectors[rw]
    BY SMT DEF DiskStat, disk_stat_5_8, disk_stat_5_7, disk_stat_part
  <2>4. ASSUME NEW rw \in Dirs
        PROVE  /\ DiskStat(st, TRUE, "ios", rw)
                    = IF st.kern = "6.3" THEN st.ended[rw] ELSE st.begun[rw]
               /\ DiskStat(st, TRUE, "sectors", rw) = BioSectors * DiskStat(st, TRUE, "ios", rw)
    BY <2>1, <2>3, Zenon DEF Tallied
  <2>5. \A p \in Parts : st.ticks[p] <= st.jiffies
    <3> TAKE p \in Parts
    <3>1. st.ticks[p] \in Nat /\ st.stamp[p] \in Nat /\ st.jiffies \in Nat  BY <2>1 DEF Stats
    <3>2. st.ticks[p] <= st.stamp[p] /\ st.stamp[p] <= st.jiffies  BY <2>1, Zenon DEF TicksBehind
    <3> QED  BY <3>1, <3>2
  <2> QED  BY <2>2, <2>4, <2>5, Zenon DEF TimesAddUp
<1> QED  BY <1>1, StatsInitInv, StatsStepInv, PTL DEF StatsSpec
=============================================================================
