---------------------------- MODULE KernelProofs ----------------------------
(***************************************************************************)
(* Proofs about what the driver does with the kernel it runs on, for any   *)
(* number of users, works, callers, pools and files: the control files and *)
(* attributes of a pool, the translation of allocation flags and the       *)
(* real-time work queue.                                                   *)
(***************************************************************************)
EXTENDS PoolLife, GfpXlate, RtWorkqueue, FiniteSetTheorems, TLAPS

-----------------------------------------------------------------------------
(* PoolLife.  The control file and the attribute handlers of a pool never   *)
(* reach one that has been freed, and its reference count is exact.         *)

PoolSpec == PoolInit /\ [][PoolNext]_pl

Alive == {"made", "listed", "unlisted", "bare", "broken"}
Own(at) == IF at \in Alive THEN 1 ELSE 0
MaybePool == Pools \cup {NoPool}

PoolRecs ==
  [at : Alive \cup {"absent", "kept", "gone"}, refs : Nat, misc : {"off", "on", "failed"},
   dir : {"none", "misc", "root"}, attr : {0, 1}]
FileRecs ==
  [pc : {"closed", "scan", "test", "open"}, minor : MaybePool, c : MaybePool,
   spool : MaybePool]
PoolStates ==
  [pool : [Pools -> PoolRecs], list : Seq(Pools), mtx : Files \cup {"free"},
   file : [Files -> FileRecs], bad : SUBSET Pools, late : SUBSET Pools]

\* The pools of the list are listed ones, each once.
ListInv ==
  /\ \A i \in 1..Len(pl.list) : PoolAt(pl.list[i]) = "listed"
  /\ \A i, j \in 1..Len(pl.list) : pl.list[i] = pl.list[j] => i = j

\* A pool q of which an open has the miscdevice in c: it is not destroyed before
\* the open lets go of misc_mtx, unless its own was never registered.
Steady(q) == q.at \in {"listed", "unlisted", "bare"} \/ q.misc = "failed"

\* An open in progress holds misc_mtx, and its own pool is registered; it has a
\* reference on the pool in c exactly if it is the one it looks for.
FileInv ==
  \A f \in Files :
    LET r == pl.file[f]
    IN  /\ r.pc \in {"scan", "test"} =>
             pl.mtx = f /\ r.minor \in Pools /\ pl.pool[r.minor].misc = "on"
        /\ r.pc = "test" =>
             /\ IF r.c = r.minor THEN r.spool = r.minor ELSE r.spool = NoPool
             /\ r.c \in Pools => Steady(pl.pool[r.c])
        /\ r.pc = "open" => r.spool \in Pools

\* A miscdevice is registered from the making of its pool to its destruction.
MiscFits(q) ==
  /\ q.misc = "on" => q.at \in {"made", "listed", "unlisted", "bare"}
  /\ q.misc = "off" => q.at \in {"absent", "kept", "gone"}
  /\ q.at = "absent" => q.misc = "off"
MiscInv == \A p \in Pools : MiscFits(pl.pool[p])

\* What an open may find freed: a pool that failed to register.
LateFits(L) == \A p \in L : PoolAt(p) = "gone" /\ pl.pool[p].misc = "failed"
LateInv == LateFits(pl.late)

\* The references of a pool: its own until it is destroyed, and one per file.
RefsExact(p) == pl.pool[p].refs = Own(PoolAt(p)) + Cardinality(Holding(p))
RefInv ==
  \A p \in Pools :
    /\ RefsExact(p)
    /\ PoolAt(p) \in {"absent", "gone"} => pl.pool[p].refs = 0
    /\ PoolAt(p) = "kept" => pl.pool[p].refs # 0

\* A handler runs on a pool that still has its directory.
AttrInv ==
  \A p \in Pools :
    pl.pool[p].dir # "none" \/ pl.pool[p].attr = 1
      => PoolAt(p) \in {"made", "listed", "unlisted"}

PoolInv ==
  /\ pl \in PoolStates /\ ListInv /\ FileInv /\ RefInv /\ AttrInv /\ MiscInv /\ LateInv
  /\ pl.bad = {}

-----------------------------------------------------------------------------
\* The files that hold a reference are finitely many.
LEMMA HoldingCount ==
  ASSUME NEW p
  PROVE  /\ IsFiniteSet(Holding(p)) /\ Cardinality(Holding(p)) \in Nat
         /\ Cardinality(Holding(p)) = 0 <=> Holding(p) = {}
  <1>1. Holding(p) \subseteq Files /\ IsFiniteSet(Files)  BY PoolAssumption DEF Holding
  <1>2. IsFiniteSet(Holding(p))  BY <1>1, FS_Subset
  <1> QED  BY SMTT(30), <1>2, FS_CardinalityType, FS_EmptySet

\* The invariant holds before there is any pool (PoolStart).
LEMMA PoolInitInv == PoolInit => PoolInv
  <1> SUFFICES ASSUME PoolInit  PROVE  PoolInv
    OBVIOUS
  <1> USE DEF PoolInit, PoolStart
  <1>1. NewPool \in PoolRecs  BY DEF NewPool, PoolRecs, Alive
  <1>2. \A p \in Pools : pl.pool[p] = NewPool  OBVIOUS
  <1>3. \A f \in Files : pl.file[f].pc = "closed"  OBVIOUS
  <1>4. pl \in PoolStates
    <2>1. pl.file \in [Files -> FileRecs]  BY DEF FileRecs, MaybePool
    <2>2. pl.pool \in [Pools -> PoolRecs]  BY <1>1
    <2>3. pl.list = <<>> /\ pl.mtx = "free" /\ pl.bad = {} /\ pl.late = {}  OBVIOUS
    <2>4. pl = [pool |-> pl.pool, list |-> pl.list, mtx |-> pl.mtx, file |-> pl.file,
                bad |-> pl.bad, late |-> pl.late]
      OBVIOUS
    <2> HIDE DEF PoolInit
    <2>5. pl.list \in Seq(Pools)  BY <2>3
    <2> QED  BY ZenonT(60), <2>1, <2>2, <2>3, <2>4, <2>5 DEF PoolStates
  <1>5. ListInv  BY DEF ListInv
  <1>6. FileInv  BY <1>3 DEF FileInv
  <1>7. RefInv
    <2> SUFFICES ASSUME NEW p \in Pools
                 PROVE  RefsExact(p) /\ pl.pool[p].refs = 0 /\ PoolAt(p) = "absent"
      BY DEF RefInv
    <2>1. Holding(p) = {}  BY <1>3 DEF Holding
    <2> QED  BY <1>2, <2>1, FS_EmptySet DEF RefsExact, NewPool, PoolAt, Own, Alive
  <1>8. AttrInv  BY <1>2 DEF AttrInv, NewPool
  <1>9. MiscInv /\ LateInv /\ pl.bad = {}  BY <1>2 DEF MiscInv, MiscFits, LateInv, LateFits, NewPool
  <1> QED  BY SMTT(30), <1>4, <1>5, <1>6, <1>7, <1>8, <1>9 DEF PoolInv

\* A list s that fits once pool p has the record r, and a record that fits.
ListFits(s, p, r) ==
  /\ \A i \in 1..Len(s) :
        IF s[i] = p THEN r.at = "listed" ELSE PoolAt(s[i]) = "listed"
  /\ \A i, j \in 1..Len(s) : s[i] = s[j] => i = j
RecordFits(p, r) ==
  /\ \A f \in Files : pl.file[f].pc = "test" /\ pl.file[f].c = p => Steady(r)
  /\ \A f \in Files : pl.file[f].pc \in {"scan", "test"} /\ pl.file[f].minor = p
                         => r.misc = "on"
  /\ MiscFits(r) /\ p \notin pl.late
  /\ r.refs = Own(r.at) + Cardinality(Holding(p))
  /\ r.at \in {"absent", "gone"} => r.refs = 0
  /\ r.at = "kept" => r.refs # 0
  /\ r.dir # "none" \/ r.attr = 1 => r.at \in {"made", "listed", "unlisted"}

\* A step that changes one pool and no file.
LEMMA PoolStep ==
  ASSUME PoolInv, NEW p \in Pools, NEW r \in PoolRecs, NEW s \in Seq(Pools),
         pl' = [pl EXCEPT !.pool = [pl.pool EXCEPT ![p] = r], !.list = s],
         ListFits(s, p, r), RecordFits(p, r)
  PROVE  PoolInv'
  <1>1. pl \in PoolStates /\ pl.pool \in [Pools -> PoolRecs]  BY DEF PoolInv, PoolStates
  <1>2. pl' \in PoolStates  BY ZenonT(60), <1>1 DEF PoolStates
  <1>3. /\ pl'.pool = [pl.pool EXCEPT ![p] = r] /\ pl'.list = s /\ pl'.mtx = pl.mtx
        /\ pl'.file = pl.file /\ pl'.bad = pl.bad /\ pl'.late = pl.late
    BY <1>1 DEF PoolStates
  <1>4. \A q \in Pools : pl'.pool[q] = IF q = p THEN r ELSE pl.pool[q]
    BY <1>1, <1>3
  <1>5. \A q \in Pools : Holding(q)' = Holding(q)  BY <1>3 DEF Holding
  <1>6. ListInv'
    <2>1. \A i \in 1..Len(s) : s[i] \in Pools  OBVIOUS
    <2> QED  BY <1>3, <1>4, <2>1 DEF ListInv, ListFits, PoolAt
  <1>7. FileInv'  BY <1>3, <1>4 DEF PoolInv, FileInv, RecordFits
  <1>8. RefInv'  BY <1>4, <1>5 DEF PoolInv, RefInv, RefsExact, RecordFits, PoolAt
  <1>9. AttrInv'  BY <1>4 DEF PoolInv, AttrInv, RecordFits, PoolAt
  <1>10. MiscInv'  BY <1>4 DEF PoolInv, MiscInv, RecordFits
  <1>11. LateInv'
    <2>1. pl.late \subseteq Pools  BY <1>1 DEF PoolStates
    <2> QED  BY <1>3, <1>4, <2>1 DEF PoolInv, LateInv, LateFits, RecordFits, PoolAt
  <1> QED  BY SMTT(30), <1>2, <1>3, <1>6, <1>7, <1>8, <1>9, <1>10, <1>11 DEF PoolInv

\* What a pool that is not gone keeps with a record that has its miscdevice:
\* what the opens in progress and late say of it.
LEMMA OpensFit ==
  ASSUME PoolInv, NEW p \in Pools, PoolAt(p) # "gone"
  PROVE  /\ p \notin pl.late /\ MiscFits(pl.pool[p])
         /\ \A f \in Files : pl.file[f].pc = "test" /\ pl.file[f].c = p => Steady(pl.pool[p])
         /\ \A f \in Files : pl.file[f].pc \in {"scan", "test"} /\ pl.file[f].minor = p
                                => pl.pool[p].misc = "on"
  BY DEF PoolInv, LateInv, LateFits, MiscInv, FileInv

\* What list_del leaves.
LEMMA UnlinkedElements ==
  ASSUME NEW S, NEW s \in Seq(S), NEW i \in 1..Len(s)
  PROVE  /\ Unlinked(s, i) \in Seq(S) /\ Len(Unlinked(s, i)) = Len(s) - 1
         /\ \A j \in 1..(Len(s) - 1) :
               Unlinked(s, i)[j] = IF j < i THEN s[j] ELSE s[j + 1]
  BY DEF Unlinked

\* A pool is made and listed: it is a new one, with its own reference.
LEMMA ArrivalInv ==
  ASSUME PoolInv, NEW p \in Pools,
         (\E d \in {"device", "NULL", "ERR_PTR"}, ok \in BOOLEAN : MakePool(p, d, ok)) \/ ListPool(p)
  PROVE  PoolInv'
  <1>0. /\ pl \in PoolStates /\ pl.pool \in [Pools -> PoolRecs] /\ pl.pool[p] \in PoolRecs
        /\ pl.list \in Seq(Pools)
    BY DEF PoolInv, PoolStates
  <1>1. \A i \in 1..Len(pl.list) : pl.list[i] \in Pools /\ PoolAt(pl.list[i]) = "listed"
    BY <1>0 DEF PoolInv, ListInv
  <1>2. \A i, j \in 1..Len(pl.list) : pl.list[i] = pl.list[j] => i = j
    BY DEF PoolInv, ListInv
  <1>3. PoolAt(p) # "gone" =>
          /\ p \notin pl.late /\ MiscFits(pl.pool[p])
          /\ \A f \in Files : pl.file[f].pc = "test" /\ pl.file[f].c = p => Steady(pl.pool[p])
          /\ \A f \in Files : pl.file[f].pc \in {"scan", "test"} /\ pl.file[f].minor = p
                                 => pl.pool[p].misc = "on"
    BY OpensFit
  <1>4. /\ pl.pool[p].refs = Own(PoolAt(p)) + Cardinality(Holding(p))
        /\ PoolAt(p) = "absent" => pl.pool[p].refs = 0
    BY DEF PoolInv, RefInv, RefsExact
  <1>5. Cardinality(Holding(p)) \in Nat  BY SMTT(10), HoldingCount
  <1>6. ASSUME NEW d \in {"device", "NULL", "ERR_PTR"}, NEW ok \in BOOLEAN, MakePool(p, d, ok)
        PROVE  PoolInv'
    <2> DEFINE a == IF d = "ERR_PTR" THEN "broken" ELSE "made"
               t == shannon_sysfs_init_pool(d, ok)
               m == shannon_create_miscdevice(d)
               r == [at |-> a, refs |-> 1, misc |-> m, dir |-> t, attr |-> 0]
    <2>1. /\ a \in {"made", "broken"} /\ m \in {"on", "failed"} /\ t \in {"none", "misc", "root"}
          /\ a = "broken" => t = "none" /\ m = "failed"
      BY DEF shannon_sysfs_init_pool, shannon_create_miscdevice
    <2>2. /\ pl' = [pl EXCEPT !.pool = [pl.pool EXCEPT ![p] = r], !.list = pl.list]
          /\ PoolAt(p) = "absent"
      BY ZenonT(60), <1>0, <1>6 DEF MakePool, SetPool, PoolStates
    <2> HIDE DEF a, t, m
    <2>3. /\ r \in PoolRecs /\ r.at = a /\ r.refs = 1 /\ r.misc = m /\ r.dir = t /\ r.attr = 0
      BY <2>1 DEF PoolRecs, Alive
    <2> HIDE DEF r
    <2>4. Cardinality(Holding(p)) = 0  BY SMTT(30), <1>4, <1>5, <2>2 DEF Own, Alive
    <2>5. r.refs = Own(r.at) + Cardinality(Holding(p))  BY <2>1, <2>3, <2>4 DEF Own, Alive
    <2>6. ListFits(pl.list, p, r)  BY SMTT(30), <1>1, <1>2, <2>2 DEF ListFits
    <2>7. pl.pool[p].misc = "off" /\ pl.pool[p].at = "absent"
      BY <1>3, <2>2 DEF MiscFits, PoolAt
    <2>8. MiscFits(r)  BY <2>1, <2>3 DEF MiscFits
    <2>9. \A f \in Files : /\ ~(pl.file[f].pc = "test" /\ pl.file[f].c = p)
                           /\ ~(pl.file[f].pc \in {"scan", "test"} /\ pl.file[f].minor = p)
      BY <1>3, <2>2, <2>7 DEF Steady
    <2>10. p \notin pl.late  BY <1>3, <2>2
    <2>11. RecordFits(p, r)  BY SMTT(10), <2>1, <2>3, <2>5, <2>8, <2>9, <2>10 DEF RecordFits
    <2> QED  BY ZenonT(60), <1>0, <2>2, <2>3, <2>6, <2>11, PoolStep
  <1>7. CASE ListPool(p)
    <2> DEFINE r == [pl.pool[p] EXCEPT !.at = "listed"]
               s == Append(pl.list, p)
    <2>1. /\ r \in PoolRecs /\ r.at = "listed" /\ r.refs = pl.pool[p].refs
          /\ r.misc = pl.pool[p].misc /\ PoolAt(p) = "made" /\ PoolAt(p) = pl.pool[p].at
      BY ZenonT(60), <1>0, <1>7 DEF ListPool, PoolRecs, Alive, PoolAt
    <2>2. pl' = [pl EXCEPT !.pool = [pl.pool EXCEPT ![p] = r], !.list = s]
      BY <1>0, <1>7 DEF ListPool, SetPool, PoolStates
    <2>3. \A i \in 1..Len(pl.list) : pl.list[i] # p  BY <1>1, <2>1
    <2>4. /\ s \in Seq(Pools) /\ Len(s) = Len(pl.list) + 1 /\ s[Len(s)] = p
          /\ \A i \in 1..Len(pl.list) : s[i] = pl.list[i]
      BY <1>0
    <2>5. r.refs = Own(r.at) + Cardinality(Holding(p))  BY <1>4, <2>1 DEF Own, Alive
    <2> HIDE DEF r, s
    <2>6. \A i \in 1..Len(s) : IF s[i] = p THEN i = Len(s)
                               ELSE i \in 1..Len(pl.list) /\ s[i] = pl.list[i]
      BY <1>0, <2>3, <2>4
    <2>7. ListFits(s, p, r)  BY <1>1, <1>2, <2>1, <2>6 DEF ListFits
    <2>8. RecordFits(p, r)  BY <1>3, <2>1, <2>5 DEF RecordFits, Steady, MiscFits
    <2> QED  BY ZenonT(60), <2>1, <2>2, <2>4, <2>7, <2>8, PoolStep
  <1> QED  BY SMTT(30), <1>6, <1>7

\* A pool is taken apart, while files may still be open on it.
LEMMA RemovalInv ==
  ASSUME PoolInv, NEW p \in Pools,
         UnlistPool(p) \/ shannon_sysfs_exit_pool(p) \/ DestroyPool(p)
  PROVE  PoolInv'
  <1>0. /\ pl \in PoolStates /\ pl.pool \in [Pools -> PoolRecs] /\ pl.pool[p] \in PoolRecs
        /\ pl.list \in Seq(Pools)
    BY DEF PoolInv, PoolStates
  <1>1. \A i \in 1..Len(pl.list) : pl.list[i] \in Pools /\ PoolAt(pl.list[i]) = "listed"
    BY SMTT(30), <1>0 DEF PoolInv, ListInv
  <1>2. \A i, j \in 1..Len(pl.list) : pl.list[i] = pl.list[j] => i = j
    BY DEF PoolInv, ListInv
  <1>3. PoolAt(p) # "gone" =>
          /\ p \notin pl.late /\ MiscFits(pl.pool[p])
          /\ \A f \in Files : pl.file[f].pc = "test" /\ pl.file[f].c = p => Steady(pl.pool[p])
          /\ \A f \in Files : pl.file[f].pc \in {"scan", "test"} /\ pl.file[f].minor = p
                                 => pl.pool[p].misc = "on"
    BY OpensFit
  <1>4. pl.pool[p].refs = Own(PoolAt(p)) + Cardinality(Holding(p))
    BY DEF PoolInv, RefInv, RefsExact
  <1>5. Cardinality(Holding(p)) \in Nat  BY SMTT(10), HoldingCount
  <1>6. CASE UnlistPool(p)
    <2>1. PICK k \in 1..Len(pl.list) :
             /\ pl.list[k] = p
             /\ pl' = [SetPool(p, [pl.pool[p] EXCEPT !.at = "unlisted"]) EXCEPT
                         !.list = Unlinked(pl.list, k)]
      BY ZenonT(60), <1>0, <1>6 DEF UnlistPool, SetPool, PoolStates
    <2> DEFINE r == [pl.pool[p] EXCEPT !.at = "unlisted"]
               s == Unlinked(pl.list, k)
    <2>2. /\ r \in PoolRecs /\ r.at = "unlisted" /\ r.refs = pl.pool[p].refs
          /\ r.misc = pl.pool[p].misc /\ PoolAt(p) = "listed" /\ PoolAt(p) = pl.pool[p].at
      BY ZenonT(60), <1>0, <1>6 DEF UnlistPool, PoolRecs, Alive, PoolAt
    <2>3. pl' = [pl EXCEPT !.pool = [pl.pool EXCEPT ![p] = r], !.list = s]
      BY <1>0, <2>1 DEF SetPool, PoolStates
    <2>4. /\ s \in Seq(Pools) /\ Len(s) = Len(pl.list) - 1
          /\ \A j \in 1..(Len(pl.list) - 1) :
                s[j] = IF j < k THEN pl.list[j] ELSE pl.list[j + 1]
      BY Zenon, <1>0, UnlinkedElements
    <2>5. r.refs = Own(r.at) + Cardinality(Holding(p))  BY <1>4, <2>2 DEF Own, Alive
    <2> HIDE DEF r, s
    <2>6. \A i \in 1..Len(s) : s[i] # p /\ PoolAt(s[i]) = "listed"
      BY SMTT(30), <1>0, <1>1, <1>2, <2>1, <2>4
    <2>7. \A i, j \in 1..Len(s) : s[i] = s[j] => i = j
      <3> SUFFICES ASSUME NEW i \in 1..Len(s), NEW j \in 1..Len(s), s[i] = s[j]  PROVE  i = j
        OBVIOUS
      <3> DEFINE b(x) == IF x < k THEN x ELSE x + 1
      <3>1. Len(pl.list) \in Nat  BY <1>0
      <3>2. s[i] = pl.list[b(i)] /\ s[j] = pl.list[b(j)]  BY <2>4, <3>1
      <3>3. b(i) \in 1..Len(pl.list) /\ b(j) \in 1..Len(pl.list)  BY <2>4, <3>1
      <3>4. b(i) = b(j)  BY <1>2, <3>2, <3>3
      <3> QED  BY <3>4, <3>1, <2>4
    <2>8. ListFits(s, p, r)  BY SMTT(30), <2>6, <2>7 DEF ListFits
    <2>9. RecordFits(p, r)  BY SMTT(30), <1>3, <2>2, <2>5 DEF RecordFits, Steady, MiscFits
    <2> QED  BY ZenonT(60), <2>2, <2>3, <2>4, <2>8, <2>9, PoolStep
  <1>7. CASE shannon_sysfs_exit_pool(p)
    <2> DEFINE r == [pl.pool[p] EXCEPT !.at = "bare", !.dir = "none"]
    <2>1. /\ r \in PoolRecs /\ r.at = "bare" /\ r.refs = pl.pool[p].refs
          /\ r.dir = "none" /\ r.attr = 0 /\ r.misc = pl.pool[p].misc
          /\ PoolAt(p) = "unlisted" /\ PoolAt(p) = pl.pool[p].at
      BY ZenonT(60), <1>0, <1>7 DEF shannon_sysfs_exit_pool, PoolRecs, Alive, PoolAt
    <2>2. pl' = [pl EXCEPT !.pool = [pl.pool EXCEPT ![p] = r], !.list = pl.list]
      BY Zenon, <1>0, <1>7 DEF shannon_sysfs_exit_pool, SetPool, PoolStates
    <2>3. r.refs = Own(r.at) + Cardinality(Holding(p))  BY SMTT(30), <1>4, <2>1 DEF Own, Alive
    <2> HIDE DEF r
    <2>4. ListFits(pl.list, p, r)  BY SMTT(30), <1>1, <1>2, <2>1 DEF ListFits
    <2>5. RecordFits(p, r)  BY SMTT(30), <1>3, <2>1, <2>3 DEF RecordFits, Steady, MiscFits
    <2> QED  BY ZenonT(60), <1>0, <2>1, <2>2, <2>4, <2>5, PoolStep
  <1>8. CASE DestroyPool(p)
    <2> DEFINE r == Destroyed(pl.pool[p])
    <2>1. /\ PoolAt(p) = "bare" /\ PoolAt(p) = pl.pool[p].at
          /\ pl.pool[p].misc = "on" => pl.mtx = "free"
          /\ pl' = [pl EXCEPT !.pool = [pl.pool EXCEPT ![p] = r], !.list = pl.list]
      BY ZenonT(60), <1>0, <1>8 DEF DestroyPool, SetPool, PoolStates, PoolAt
    <2>2. pl.pool[p].misc = "on" => \A f \in Files : pl.file[f].pc \notin {"scan", "test"}
      BY <2>1, PoolAssumption DEF PoolInv, FileInv
    <2>3. pl.pool[p].refs = 1 + Cardinality(Holding(p))
      BY <1>4, <2>1 DEF Own, Alive
    <2>4. pl.pool[p].dir = "none" /\ pl.pool[p].attr # 1
      BY <2>1 DEF PoolInv, AttrInv
    <2>5. /\ r \in PoolRecs /\ r.dir = pl.pool[p].dir /\ r.attr = pl.pool[p].attr
          /\ r.refs = pl.pool[p].refs - 1
          /\ r.at = IF pl.pool[p].refs = 1 THEN "gone" ELSE "kept"
          /\ r.misc = IF pl.pool[p].misc = "on" THEN "off" ELSE pl.pool[p].misc
      <3> DEFINE n == pl.pool[p].refs - 1
                 a == IF pl.pool[p].refs = 1 THEN "gone" ELSE "kept"
                 m == IF pl.pool[p].misc = "on" THEN "off" ELSE pl.pool[p].misc
      <3>1. n \in Nat /\ a \in {"gone", "kept"}  BY <1>5, <2>3
      <3>2. m \in {"off", "on", "failed"}  BY <1>0 DEF PoolRecs
      <3>3. r = [pl.pool[p] EXCEPT !.refs = n, !.at = a, !.misc = m]
        BY ZenonT(60), <1>0 DEF Destroyed, Put, shannon_destroy_miscdevice, PoolRecs
      <3> HIDE DEF n, a, m, r
      <3>4. /\ r \in PoolRecs /\ r.dir = pl.pool[p].dir /\ r.attr = pl.pool[p].attr
            /\ r.refs = n /\ r.at = a /\ r.misc = m
        BY ZenonT(60), <1>0, <3>1, <3>2, <3>3 DEF PoolRecs
      <3> QED  BY <3>4 DEF n, a, m
    <2> HIDE DEF r
    <2>6. /\ r.refs = Own(r.at) + Cardinality(Holding(p))
          /\ r.at \in {"absent", "gone"} => r.refs = 0
          /\ r.at = "kept" => r.refs # 0
      BY <1>5, <2>3, <2>5 DEF Own, Alive
    <2>7. ListFits(pl.list, p, r)  BY SMTT(30), <1>1, <1>2, <2>1 DEF ListFits
    <2>8. pl.pool[p].misc \in {"off", "on", "failed"}  BY <1>0 DEF PoolRecs
    <2>9. /\ \A f \in Files : pl.file[f].pc = "test" /\ pl.file[f].c = p => Steady(r)
          /\ \A f \in Files : pl.file[f].pc \in {"scan", "test"} => pl.file[f].minor # p
          /\ MiscFits(r) /\ p \notin pl.late
      <3>1. CASE pl.pool[p].misc = "on"
        BY <1>3, <2>1, <2>2, <2>5, <3>1 DEF Steady, MiscFits
      <3>2. CASE pl.pool[p].misc = "failed"
        BY <1>3, <2>1, <2>5, <3>2 DEF Steady, MiscFits
      <3>3. CASE pl.pool[p].misc = "off"
        BY <1>3, <2>1, <2>5, <3>3 DEF Steady, MiscFits
      <3> QED  BY <2>8, <3>1, <3>2, <3>3
    <2>10. RecordFits(p, r)  BY SMTT(10), <2>4, <2>5, <2>6, <2>9 DEF RecordFits
    <2> QED  BY ZenonT(60), <1>0, <2>1, <2>5, <2>7, <2>10, PoolStep
  <1> QED  BY SMTT(30), <1>6, <1>7, <1>8

\* A handler of a pool's attributes begins or ends.
LEMMA HandlerInv ==
  ASSUME PoolInv, NEW p \in Pools, AttrBegin(p) \/ AttrEnd(p)
  PROVE  PoolInv'
  <1>0. /\ pl \in PoolStates /\ pl.pool \in [Pools -> PoolRecs] /\ pl.pool[p] \in PoolRecs
        /\ pl.list \in Seq(Pools)
    BY DEF PoolInv, PoolStates
  <1>1. pl.pool[p].dir # "none" \/ pl.pool[p].attr = 1  BY DEF AttrBegin, AttrEnd
  <1>2. PoolAt(p) \in {"made", "listed", "unlisted"} /\ Reach(p) = {}
    BY <1>1 DEF PoolInv, AttrInv, Reach, PoolAt
  <1>3. PICK n \in {0, 1} :
           pl' = [pl EXCEPT !.pool = [pl.pool EXCEPT ![p] = [pl.pool[p] EXCEPT !.attr = n]]]
    <2>1. CASE AttrBegin(p)
      <3>1. pl' = [pl EXCEPT !.pool = [pl.pool EXCEPT ![p] = [pl.pool[p] EXCEPT !.attr = 1]]]
        BY <1>0, <2>1 DEF AttrBegin, PoolStates
      <3> QED  BY <3>1
    <2>2. CASE AttrEnd(p)
      <3>1. pl' = [pl EXCEPT !.pool = [pl.pool EXCEPT ![p] = [pl.pool[p] EXCEPT !.attr = 0]],
                             !.bad = pl.bad \cup {}]
        BY <1>0, <1>2, <2>2 DEF AttrEnd, PoolStates
      <3>2. pl.bad \cup {} = pl.bad  OBVIOUS
      <3>3. pl' = [pl EXCEPT !.pool = [pl.pool EXCEPT ![p] = [pl.pool[p] EXCEPT !.attr = 0]]]
        BY Zenon, <1>0, <3>1, <3>2 DEF PoolStates
      <3> QED  BY <3>3
    <2> QED  BY <2>1, <2>2
  <1> DEFINE r == [pl.pool[p] EXCEPT !.attr = n]
  <1>4. r \in PoolRecs /\ r.at = PoolAt(p) /\ r.refs = pl.pool[p].refs /\ r.misc = pl.pool[p].misc
    BY SMTT(30), <1>0 DEF PoolRecs, PoolAt
  <1>5. pl' = [pl EXCEPT !.pool = [pl.pool EXCEPT ![p] = r], !.list = pl.list]
    BY Zenon, <1>0, <1>3 DEF PoolStates
  <1> HIDE DEF r
  <1>6. ListFits(pl.list, p, r)  BY <1>4 DEF ListFits, PoolInv, ListInv
  <1>7. RecordFits(p, r)
    <2>1. Steady(pl.pool[p]) => Steady(r)  BY <1>4 DEF Steady, PoolAt
    <2>2. MiscFits(pl.pool[p]) => MiscFits(r)  BY <1>4 DEF MiscFits, PoolAt
    <2>3. RefsExact(p)  BY DEF PoolInv, RefInv
    <2> QED  BY SMTT(30), <1>2, <1>4, <2>1, <2>2, <2>3, OpensFit DEF RecordFits, RefsExact
  <1> QED  BY ZenonT(60), <1>0, <1>4, <1>5, <1>6, <1>7, PoolStep

\* Records of the pools that differ in counts, and in a pool kept by its
\* files; a record w of file f that fits when m holds misc_mtx.
PoolsFit(P) ==
  \A q \in Pools : /\ P[q].dir = pl.pool[q].dir /\ P[q].attr = pl.pool[q].attr
                   /\ P[q].misc = pl.pool[q].misc
                   /\ P[q].at = PoolAt(q) \/ (PoolAt(q) = "kept" /\ P[q].at = "gone")
FileFits(f, w, m) ==
  /\ \A g \in Files \ {f} : pl.file[g].pc \in {"scan", "test"} => m = g
  /\ w.pc \in {"scan", "test"} => m = f /\ w.minor \in Pools /\ pl.pool[w.minor].misc = "on"
  /\ w.pc = "test" =>
       /\ IF w.c = w.minor THEN w.spool = w.minor ELSE w.spool = NoPool
       /\ w.c \in Pools => Steady(pl.pool[w.c])
  /\ w.pc = "open" => w.spool \in Pools

\* A step of one file, which changes no pool but its count and may free one
\* that was only kept by its files.
IsFileStep(f, w, m, P, L) ==
  /\ w \in FileRecs /\ m \in Files \cup {"free"} /\ P \in [Pools -> PoolRecs]
  /\ L \in SUBSET Pools
  /\ pl' = [pl EXCEPT !.pool = P, !.mtx = m, !.file = [pl.file EXCEPT ![f] = w], !.late = L]
  /\ PoolsFit(P) /\ FileFits(f, w, m) /\ LateFits(L)

\* After it all but the counts is as it should be.
LEMMA FileStep ==
  ASSUME PoolInv, NEW f \in Files, NEW w, NEW m, NEW P, NEW L, IsFileStep(f, w, m, P, L)
  PROVE  /\ pl' \in PoolStates /\ ListInv' /\ FileInv' /\ AttrInv' /\ MiscInv' /\ LateInv'
         /\ pl'.bad = {}
         /\ pl'.pool = P /\ pl'.file = [pl.file EXCEPT ![f] = w]
  <1>0. /\ w \in FileRecs /\ m \in Files \cup {"free"} /\ P \in [Pools -> PoolRecs]
        /\ L \in SUBSET Pools
        /\ pl' = [pl EXCEPT !.pool = P, !.mtx = m, !.file = [pl.file EXCEPT ![f] = w], !.late = L]
        /\ PoolsFit(P) /\ FileFits(f, w, m) /\ LateFits(L)
    BY DEF IsFileStep
  <1>1. /\ pl \in PoolStates /\ pl.file \in [Files -> FileRecs] /\ pl.list \in Seq(Pools)
        /\ pl.bad = {}
    BY DEF PoolInv, PoolStates
  <1>2. pl' \in PoolStates  BY Zenon, <1>0, <1>1 DEF PoolStates
  <1>3. /\ pl'.pool = P /\ pl'.list = pl.list /\ pl'.mtx = m
        /\ pl'.file = [pl.file EXCEPT ![f] = w] /\ pl'.bad = pl.bad /\ pl'.late = L
    BY <1>0, <1>1 DEF PoolStates
  <1>4. \A q \in Pools : PoolAt(q)' = P[q].at  BY <1>3 DEF PoolAt
  <1>5. \A g \in Files : pl'.file[g] = IF g = f THEN w ELSE pl.file[g]  BY <1>0, <1>1, <1>3
  <1>6. ListInv'
    <2>1. \A i \in 1..Len(pl.list) : pl.list[i] \in Pools  BY <1>1
    <2> QED  BY <1>0, <1>3, <1>4, <2>1 DEF PoolInv, ListInv, PoolsFit
  <1>7. FileInv'
    <2> SUFFICES ASSUME NEW g \in Files
                 PROVE  LET r == pl'.file[g]
                        IN  /\ r.pc \in {"scan", "test"} =>
                                 pl'.mtx = g /\ r.minor \in Pools /\ P[r.minor].misc = "on"
                            /\ r.pc = "test" =>
                                 /\ IF r.c = r.minor THEN r.spool = r.minor
                                    ELSE r.spool = NoPool
                                 /\ r.c \in Pools => Steady(P[r.c])
                            /\ r.pc = "open" => r.spool \in Pools
      BY <1>3 DEF FileInv
    <2>0. \A q \in Pools : /\ Steady(pl.pool[q]) => Steady(P[q])
                           /\ P[q].misc = pl.pool[q].misc
      BY <1>0 DEF PoolsFit, Steady, PoolAt
    <2>1. CASE g = f
      BY SMTT(30), <1>0, <1>3, <1>5, <2>0, <2>1 DEF FileFits
    <2>2. CASE g # f
      <3>1. pl'.file[g] = pl.file[g]  BY <1>5, <2>2
      <3> QED  BY SMTT(30), <1>0, <1>3, <2>0, <2>2, <3>1 DEF PoolInv, FileInv, FileFits
    <2> QED  BY <2>1, <2>2
  <1>8. AttrInv'  BY <1>0, <1>3, <1>4 DEF PoolInv, AttrInv, PoolsFit
  <1>9. MiscInv'  BY <1>0, <1>3 DEF PoolInv, MiscInv, MiscFits, PoolsFit, PoolAt
  <1>10. LateInv'
    <2>1. \A q \in L : q \in Pools /\ P[q].at = "gone" /\ P[q].misc = "failed"
      BY <1>0 DEF PoolsFit, LateFits
    <2> QED  BY <1>3, <2>1 DEF LateInv, LateFits, PoolAt
  <1> QED  BY <1>1, <1>2, <1>3, <1>6, <1>7, <1>8, <1>9, <1>10

\* misc_open takes misc_mtx and calls the driver's open.
LEMMA MiscOpenInv ==
  ASSUME PoolInv, NEW f \in Files, NEW p \in Pools, MiscOpen(f, p)
  PROVE  PoolInv'
  <1> DEFINE w == [pc |-> "scan", minor |-> p, c |-> NoPool, spool |-> NoPool]
  <1>0. /\ pl \in PoolStates /\ pl.pool \in [Pools -> PoolRecs] /\ pl.file \in [Files -> FileRecs]
        /\ pl.file[f] \in FileRecs
    BY DEF PoolInv, PoolStates
  <1>1. w \in FileRecs /\ w.pc = "scan" /\ w.minor = p  BY <1>0 DEF FileRecs, MaybePool
  <1>2. /\ pl' = [pl EXCEPT !.pool = pl.pool, !.mtx = f, !.file = [pl.file EXCEPT ![f] = w],
                             !.late = pl.late]
        /\ pl.file[f].pc = "closed" /\ pl.mtx = "free" /\ pl.pool[p].misc = "on"
    BY ZenonT(60), <1>0 DEF MiscOpen, PoolStates, FileRecs
  <1> HIDE DEF w
  <1>3. \A g \in Files : pl.file[g].pc \notin {"scan", "test"}
    BY <1>2, PoolAssumption DEF PoolInv, FileInv
  <1>f. PoolsFit(pl.pool) /\ FileFits(f, w, f)  BY <1>1, <1>2, <1>3 DEF PoolsFit, FileFits, PoolAt
  <1>4. /\ pl' \in PoolStates /\ ListInv' /\ FileInv' /\ AttrInv' /\ MiscInv' /\ LateInv' /\ pl'.bad = {}
        /\ pl'.pool = pl.pool /\ pl'.file = [pl.file EXCEPT ![f] = w]
    <2>1. pl.late \in SUBSET Pools /\ LateFits(pl.late)
      BY <1>0 DEF PoolInv, LateInv, PoolStates
    <2>2. IsFileStep(f, w, f, pl.pool, pl.late)  BY Zenon, <1>0, <1>1, <1>2, <1>f, <2>1 DEF IsFileStep
    <2> QED  BY Zenon, <2>2, FileStep
  <1>5. \A q \in Pools : Holding(q)' = Holding(q)
    BY SMTT(30), <1>0, <1>1, <1>2, <1>4 DEF Holding
  <1>6. RefInv'  BY <1>4, <1>5 DEF PoolInv, RefInv, RefsExact, PoolAt
  <1> QED  BY <1>4, <1>6 DEF PoolInv

\* The open looks for its pool under pool_sem, and takes a reference on it.
LEMMA OpenScanInv ==
  ASSUME PoolInv, NEW f \in Files, OpenScan(f)
  PROVE  PoolInv'
  <1> DEFINE p == pl.file[f].minor
             found == \E k \in 1..Len(pl.list) : pl.list[k] = p
             c == IF found THEN p ELSE IF pl.list = <<>> THEN NoPool ELSE pl.list[Len(pl.list)]
             w == [pc |-> "test", minor |-> p, c |-> c,
                   spool |-> IF found THEN p ELSE NoPool]
             n == IF found THEN pl.pool[p].refs + 1 ELSE pl.pool[p].refs
             r == [pl.pool[p] EXCEPT !.refs = n]
             P == [pl.pool EXCEPT ![p] = r]
  <1> HIDE DEF p
  <1>0. /\ pl \in PoolStates /\ pl.pool \in [Pools -> PoolRecs] /\ pl.file \in [Files -> FileRecs]
        /\ pl.file[f] \in FileRecs /\ pl.list \in Seq(Pools)
    BY SMTT(30) DEF PoolInv, PoolStates
  <1>1. pl.file[f].pc = "scan" /\ pl.mtx = f /\ p \in Pools /\ pl.pool[p].misc = "on"
    BY DEF OpenScan, PoolInv, FileInv, p
  <1>2. found => PoolAt(p) = "listed"  BY DEF PoolInv, ListInv
  <1>3. ~found /\ pl.list # <<>> =>
           pl.list[Len(pl.list)] \in Pools /\ pl.list[Len(pl.list)] # p /\ PoolAt(pl.list[Len(pl.list)]) = "listed"
    <2> SUFFICES ASSUME ~found, pl.list # <<>>
                 PROVE  pl.list[Len(pl.list)] \in Pools /\ pl.list[Len(pl.list)] # p
                        /\ PoolAt(pl.list[Len(pl.list)]) = "listed"
      OBVIOUS
    <2>1. Len(pl.list) \in 1..Len(pl.list)  BY SMTT(30), <1>0
    <2> QED  BY SMTT(30), <1>0, <2>1 DEF PoolInv, ListInv
  <1>4. /\ c \in MaybePool /\ (c \in Pools => PoolAt(c) = "listed")
        /\ (c = p) <=> found
    <2>1. CASE found
      BY SMTT(30), <1>1, <1>2, <2>1 DEF MaybePool
    <2>2. CASE ~found /\ pl.list = <<>>
      BY SMTT(30), <1>1, <2>2, PoolAssumption DEF MaybePool
    <2>3. CASE ~found /\ pl.list # <<>>
      BY SMTT(30), <1>3, <2>3 DEF MaybePool
    <2> QED  BY SMTT(30), <2>1, <2>2, <2>3
  <1>5. pl.pool[p] \in PoolRecs /\ n \in Nat
    <2>1. pl.pool[p] \in PoolRecs  BY <1>0, <1>1
    <2>2. pl.pool[p].refs \in Nat  BY <2>1 DEF PoolRecs
    <2> HIDE DEF found
    <2> QED  BY <2>1, <2>2
  <1>6. pl' = [pl EXCEPT !.pool = P, !.mtx = f, !.file = [pl.file EXCEPT ![f] = w],
                         !.late = pl.late]
    BY ZenonT(60), <1>0, <1>1, <1>5 DEF OpenScan, PoolStates, PoolRecs, p
  <1> HIDE DEF n
  <1>7. /\ r \in PoolRecs /\ r.at = PoolAt(p) /\ r.refs = n /\ r.misc = pl.pool[p].misc
        /\ r.dir = pl.pool[p].dir /\ r.attr = pl.pool[p].attr
    BY ZenonT(60), <1>5 DEF PoolRecs, PoolAt
  <1> HIDE DEF r, c, found
  <1>8. P \in [Pools -> PoolRecs] /\ \A q \in Pools : P[q] = IF q = p THEN r ELSE pl.pool[q]
    BY Zenon, <1>0, <1>7
  <1>9. /\ w \in FileRecs /\ w.pc = "test" /\ w.minor = p /\ w.c = c
        /\ w.spool = IF found THEN p ELSE NoPool
    BY <1>1, <1>4 DEF FileRecs, MaybePool
  <1> HIDE DEF w, P
  <1>10. \A g \in Files \ {f} : pl.file[g].pc \notin {"scan", "test"}
    BY <1>1 DEF PoolInv, FileInv
  <1>11. \A q \in Pools : /\ P[q].dir = pl.pool[q].dir /\ P[q].attr = pl.pool[q].attr
                          /\ P[q].misc = pl.pool[q].misc /\ P[q].at = PoolAt(q)
    BY <1>7, <1>8 DEF PoolAt
  <1>12. /\ IF w.c = w.minor THEN w.spool = w.minor ELSE w.spool = NoPool
         /\ w.c \in Pools => Steady(pl.pool[w.c])
    BY <1>4, <1>9 DEF Steady, PoolAt
  <1>13. /\ pl' \in PoolStates /\ ListInv' /\ FileInv' /\ AttrInv' /\ MiscInv' /\ LateInv' /\ pl'.bad = {}
         /\ pl'.pool = P /\ pl'.file = [pl.file EXCEPT ![f] = w]
    <2>1. PoolsFit(P)  BY <1>11 DEF PoolsFit
    <2>2. FileFits(f, w, f)  BY SMTT(30), <1>1, <1>9, <1>10, <1>12 DEF FileFits
    <2>3. pl.late \in SUBSET Pools /\ LateFits(pl.late)
      BY <1>0 DEF PoolInv, LateInv, PoolStates
    <2>4. IsFileStep(f, w, f, P, pl.late)
      BY Zenon, <1>6, <1>8, <1>9, <2>1, <2>2, <2>3 DEF IsFileStep
    <2> QED  BY Zenon, <2>4, FileStep
  <1>14. \A q \in Pools : Holding(q)' = IF found /\ q = p THEN Holding(q) \cup {f} ELSE Holding(q)
    <2> SUFFICES ASSUME NEW q \in Pools
                 PROVE  Holding(q)' = IF found /\ q = p THEN Holding(q) \cup {f} ELSE Holding(q)
      OBVIOUS
    <2>1. \A g \in Files \ {f} : pl'.file[g] = pl.file[g]  BY SMTT(30), <1>0, <1>13
    <2>2. pl'.file[f] = w  BY SMTT(30), <1>0, <1>13
    <2>3. \A g \in Files \ {f} : g \in Holding(q)' <=> g \in Holding(q)
      BY <2>1 DEF Holding
    <2>4. f \in Holding(q)' <=> found /\ q = p
      BY SMTT(30), <1>9, <2>2, PoolAssumption DEF Holding
    <2>5. f \notin Holding(q)  BY <1>1 DEF Holding
    <2>6. Holding(q)' \subseteq Files /\ Holding(q) \subseteq Files  BY DEF Holding
    <2> QED  BY SMTT(30), <2>3, <2>4, <2>5, <2>6
  <1>15. f \notin Holding(p)  BY <1>1 DEF Holding
  <1>16. found => Cardinality(Holding(p) \cup {f}) = Cardinality(Holding(p)) + 1
    BY Zenon, <1>15, HoldingCount, FS_AddElement
  <1>17. ASSUME NEW q \in Pools
         PROVE  /\ P[q].refs = Own(P[q].at) + Cardinality(Holding(q)')
                /\ P[q].at \in {"absent", "gone"} => P[q].refs = 0
                /\ P[q].at = "kept" => P[q].refs # 0
    <2>0. /\ pl.pool[q].refs = Own(PoolAt(q)) + Cardinality(Holding(q))
          /\ PoolAt(q) \in {"absent", "gone"} => pl.pool[q].refs = 0
          /\ PoolAt(q) = "kept" => pl.pool[q].refs # 0
      BY DEF PoolInv, RefInv, RefsExact
    <2>1. CASE found /\ q = p
      <3>1. /\ P[q].refs = pl.pool[q].refs + 1 /\ P[q].at = "listed" /\ PoolAt(q) = "listed"
            /\ Cardinality(Holding(q)') = Cardinality(Holding(q)) + 1
        BY SMTT(30), <1>1, <1>2, <1>7, <1>8, <1>14, <1>16, <2>1 DEF n
      <3>2. Cardinality(Holding(q)) \in Nat  BY HoldingCount
      <3> QED  BY <2>0, <3>1, <3>2 DEF Own, Alive
    <2>2. CASE ~(found /\ q = p)
      <3>1. P[q].refs = pl.pool[q].refs  BY SMTT(30), <1>7, <1>8, <2>2 DEF n
      <3> QED  BY SMTT(30), <1>11, <1>14, <2>0, <2>2, <3>1
    <2> QED  BY <2>1, <2>2
  <1>18. RefInv'  BY SMTT(30), <1>13, <1>17 DEF RefInv, RefsExact, PoolAt
  <1> QED  BY SMTT(30), <1>13, <1>18 DEF PoolInv

\* The open reads c->minor after pool_sem, and lets go of misc_mtx.
LEMMA OpenTestInv ==
  ASSUME PoolInv, NEW f \in Files, OpenTest(f)
  PROVE  PoolInv'
  <1> DEFINE l == IF pl.file[f].c = pl.file[f].minor THEN "open" ELSE "closed"
             w == [pl.file[f] EXCEPT !.pc = l]
  <1>0. /\ pl \in PoolStates /\ pl.pool \in [Pools -> PoolRecs] /\ pl.file \in [Files -> FileRecs]
        /\ pl.file[f] \in FileRecs /\ pl.bad = {}
    BY SMTT(30) DEF PoolInv, PoolStates
  <1>1. /\ pl.file[f].pc = "test" /\ pl.mtx = f /\ pl.file[f].minor \in Pools
        /\ IF pl.file[f].c = pl.file[f].minor THEN pl.file[f].spool = pl.file[f].minor
           ELSE pl.file[f].spool = NoPool
        /\ pl.file[f].c \in Pools => Steady(pl.pool[pl.file[f].c])
    BY SMTT(30) DEF OpenTest, PoolInv, FileInv
  <1> DEFINE L == pl.late \cup Reach(pl.file[f].c)
  <1>2. L \in SUBSET Pools /\ LateFits(L)
    <2>1. pl.late \in SUBSET Pools /\ LateFits(pl.late)
      BY <1>0 DEF PoolInv, LateInv, PoolStates
    <2>2. \A q \in Reach(pl.file[f].c) :
             q \in Pools /\ PoolAt(q) = "gone" /\ pl.pool[q].misc = "failed"
      BY SMTT(30), <1>1 DEF Reach, PoolAt, Steady
    <2> QED  BY <2>1, <2>2 DEF LateFits
  <1>3. pl' = [pl EXCEPT !.pool = pl.pool, !.mtx = "free", !.file = [pl.file EXCEPT ![f] = w],
                         !.late = L]
    BY ZenonT(60), <1>0 DEF OpenTest, PoolStates
  <1> HIDE DEF L
  <1>4. /\ w \in FileRecs /\ w.pc = l /\ w.spool = pl.file[f].spool
    BY <1>0 DEF FileRecs
  <1>5. /\ w.pc \in {"open", "closed"} /\ (w.pc = "open" => w.spool \in Pools)
        /\ w.pc = "closed" => pl.file[f].spool \notin Pools
    BY <1>1, <1>4, PoolAssumption
  <1> HIDE DEF w, l
  <1>6. \A g \in Files \ {f} : pl.file[g].pc \notin {"scan", "test"}
    BY <1>1 DEF PoolInv, FileInv
  <1>7. /\ pl' \in PoolStates /\ ListInv' /\ FileInv' /\ AttrInv' /\ MiscInv' /\ LateInv' /\ pl'.bad = {}
        /\ pl'.pool = pl.pool /\ pl'.file = [pl.file EXCEPT ![f] = w]
    <2>1. PoolsFit(pl.pool)  BY DEF PoolsFit, PoolAt
    <2>2. FileFits(f, w, "free")  BY SMTT(30), <1>5, <1>6 DEF FileFits
    <2>3. IsFileStep(f, w, "free", pl.pool, L)
      BY Zenon, <1>0, <1>2, <1>3, <1>4, <2>1, <2>2 DEF IsFileStep
    <2> QED  BY Zenon, <2>3, FileStep
  <1>8. \A q \in Pools : Holding(q)' = Holding(q)
    BY SMTT(30), <1>0, <1>1, <1>4, <1>5, <1>7 DEF Holding
  <1>9. RefInv'  BY SMTT(30), <1>7, <1>8 DEF PoolInv, RefInv, RefsExact, PoolAt
  <1> QED  BY SMTT(30), <1>7, <1>9 DEF PoolInv

\* What giving back one of k references of files leaves of the count.
LEMMA ReleaseCount ==
  ASSUME NEW s \in Alive \cup {"kept"}, NEW k \in Nat, k # 0, NEW m \in Nat, m = Own(s) + k
  PROVE  LET n == m - 1
             a == IF m = 1 THEN "gone" ELSE s
         IN  /\ n \in Nat /\ n = Own(a) + (k - 1)
             /\ (a = s \/ (s = "kept" /\ a = "gone"))
             /\ a = "gone" => n = 0
             /\ a = "kept" => n # 0
             /\ a \in Alive \cup {"kept", "gone"}
  <1>1. CASE s \in Alive
    <2>1. Own(s) = 1 /\ s \notin {"kept", "gone"}  BY <1>1 DEF Own, Alive
    <2> QED  BY <1>1, <2>1
  <1>2. CASE s = "kept"
    <2>1. Own(s) = 0 /\ Own("gone") = 0  BY <1>2 DEF Own, Alive
    <2> QED  BY <1>2, <2>1
  <1> QED  BY <1>1, <1>2

\* A file is closed and gives its reference back, maybe the last one.
LEMMA ReleaseInv ==
  ASSUME PoolInv, NEW f \in Files, shannon_pool_miscdevice_release(f)
  PROVE  PoolInv'
  <1> DEFINE p == pl.file[f].spool
             w == [pc |-> "closed", minor |-> NoPool, c |-> NoPool, spool |-> NoPool]
             n == pl.pool[p].refs - 1
             a == IF pl.pool[p].refs = 1 THEN "gone" ELSE PoolAt(p)
             r == [pl.pool[p] EXCEPT !.refs = n, !.at = a]
             P == [pl.pool EXCEPT ![p] = r]
  <1> HIDE DEF p
  <1>0. /\ pl \in PoolStates /\ pl.pool \in [Pools -> PoolRecs] /\ pl.file \in [Files -> FileRecs]
        /\ pl.bad = {} /\ pl.mtx \in Files \cup {"free"}
    BY SMTT(30) DEF PoolInv, PoolStates
  <1>1. pl.file[f].pc = "open" /\ p \in Pools
    BY SMTT(30) DEF shannon_pool_miscdevice_release, PoolInv, FileInv, p
  <1>2. pl.pool[p] \in PoolRecs /\ pl.pool[p].refs \in Nat /\ PoolAt(p) = pl.pool[p].at
    BY SMTT(30), <1>0, <1>1 DEF PoolRecs, PoolAt
  <1>3. f \in Holding(p) /\ Cardinality(Holding(p)) \in Nat /\ Cardinality(Holding(p)) # 0
    <2>1. f \in Holding(p)  BY SMTT(30), <1>1 DEF Holding, p
    <2> QED  BY SMTT(30), <2>1, HoldingCount
  <1>4. /\ pl.pool[p].refs = Own(PoolAt(p)) + Cardinality(Holding(p))
        /\ PoolAt(p) \in {"absent", "gone"} => pl.pool[p].refs = 0
    BY SMTT(30), <1>1 DEF PoolInv, RefInv, RefsExact
  <1>5. PoolAt(p) \in Alive \cup {"kept"}
    <2>1. pl.pool[p].refs # 0  BY SMTT(10), <1>3, <1>4 DEF Own
    <2>2. pl.pool[p].at \in Alive \cup {"absent", "kept", "gone"}  BY <1>2 DEF PoolRecs
    <2> HIDE DEF Alive
    <2> QED  BY Zenon, <1>2, <1>4, <2>1, <2>2
  <1>6. /\ n \in Nat /\ n = Own(a) + (Cardinality(Holding(p)) - 1)
        /\ (a = PoolAt(p) \/ (PoolAt(p) = "kept" /\ a = "gone"))
        /\ a = "gone" => n = 0
        /\ a = "kept" => n # 0
        /\ a \in Alive \cup {"kept", "gone"}
    BY Zenon, <1>2, <1>3, <1>4, <1>5, ReleaseCount
  <1>7. Reach(p) = {}  BY <1>5 DEF Reach, PoolAt, Alive
  <1>8. pl' = [pl EXCEPT !.pool = P, !.mtx = pl.mtx, !.file = [pl.file EXCEPT ![f] = w],
                         !.late = pl.late]
    <2>1. pl.bad \cup Reach(p) = pl.bad  BY <1>7
    <2>2. Put(pl.pool[p]) = r  BY <1>2 DEF Put, PoolRecs
    <2>3. pl' = [pl EXCEPT !.bad = pl.bad \cup Reach(p),
                           !.pool = [pl.pool EXCEPT ![p] = Put(pl.pool[p])],
                           !.file = [pl.file EXCEPT ![f] = w]]
      BY <1>0 DEF shannon_pool_miscdevice_release, PoolStates, p
    <2> HIDE DEF r, w
    <2> QED  BY Zenon, <1>0, <2>1, <2>2, <2>3 DEF PoolStates
  <1> HIDE DEF n, a
  <1>9. /\ r \in PoolRecs /\ r.at = a /\ r.refs = n /\ r.misc = pl.pool[p].misc
        /\ r.dir = pl.pool[p].dir /\ r.attr = pl.pool[p].attr
    BY ZenonT(60), <1>2, <1>6 DEF PoolRecs
  <1> HIDE DEF r
  <1>10. P \in [Pools -> PoolRecs] /\ \A q \in Pools : P[q] = IF q = p THEN r ELSE pl.pool[q]
    BY Zenon, <1>0, <1>9
  <1>11. w \in FileRecs /\ w.pc = "closed"  BY DEF FileRecs, MaybePool
  <1> HIDE DEF w, P
  <1>12. \A q \in Pools : /\ P[q].dir = pl.pool[q].dir /\ P[q].attr = pl.pool[q].attr
                          /\ P[q].misc = pl.pool[q].misc
                          /\ P[q].at = PoolAt(q) \/ (PoolAt(q) = "kept" /\ P[q].at = "gone")
    BY <1>6, <1>9, <1>10 DEF PoolAt
  <1>13. \A g \in Files \ {f} : pl.file[g].pc \in {"scan", "test"} => pl.mtx = g
    BY DEF PoolInv, FileInv
  <1>14. /\ pl' \in PoolStates /\ ListInv' /\ FileInv' /\ AttrInv' /\ MiscInv' /\ LateInv' /\ pl'.bad = {}
         /\ pl'.pool = P /\ pl'.file = [pl.file EXCEPT ![f] = w]
    <2>1. PoolsFit(P)  BY <1>12 DEF PoolsFit
    <2>2. FileFits(f, w, pl.mtx)  BY SMTT(30), <1>11, <1>13 DEF FileFits
    <2>3. pl.late \in SUBSET Pools /\ LateFits(pl.late)
      BY <1>0 DEF PoolInv, LateInv, PoolStates
    <2>4. IsFileStep(f, w, pl.mtx, P, pl.late)
      BY Zenon, <1>0, <1>8, <1>10, <1>11, <2>1, <2>2, <2>3 DEF IsFileStep
    <2> QED  BY Zenon, <2>4, FileStep
  <1>15. \A q \in Pools : Holding(q)' = Holding(q) \ {f}
    <2>1. \A g \in Files : pl'.file[g] = IF g = f THEN w ELSE pl.file[g]  BY SMTT(30), <1>0, <1>14
    <2> QED  BY SMTT(30), <1>11, <2>1 DEF Holding
  <1>16. Cardinality(Holding(p) \ {f}) = Cardinality(Holding(p)) - 1
    BY ZenonT(60), <1>3, HoldingCount, FS_RemoveElement
  <1>17. \A q \in Pools \ {p} : Holding(q) \ {f} = Holding(q)  BY <1>1 DEF Holding, p
  <1>18. ASSUME NEW q \in Pools
         PROVE  /\ P[q].refs = Own(P[q].at) + Cardinality(Holding(q)')
                /\ P[q].at \in {"absent", "gone"} => P[q].refs = 0
                /\ P[q].at = "kept" => P[q].refs # 0
    <2>1. CASE q = p
      <3>1. P[q].refs = n /\ P[q].at = a  BY <1>9, <1>10, <2>1
      <3>2. Cardinality(Holding(q)') = Cardinality(Holding(p)) - 1  BY SMTT(30), <1>15, <1>16, <2>1
      <3>3. a # "absent"  BY SMTT(30), <1>6 DEF Alive
      <3> QED  BY <1>6, <3>1, <3>2, <3>3
    <2>2. CASE q # p
      <3>1. P[q] = pl.pool[q] /\ Holding(q)' = Holding(q)  BY SMTT(30), <1>10, <1>15, <1>17, <2>2
      <3> QED  BY SMTT(30), <3>1 DEF PoolInv, RefInv, RefsExact, PoolAt
    <2> QED  BY <2>1, <2>2
  <1>19. RefInv'  BY SMTT(30), <1>14, <1>18 DEF RefInv, RefsExact, PoolAt
  <1> QED  BY SMTT(30), <1>14, <1>19 DEF PoolInv

\* Every step keeps the invariant.
LEMMA PoolStepInv == PoolInv /\ [PoolNext]_pl => PoolInv'
  <1> SUFFICES ASSUME PoolInv, [PoolNext]_pl  PROVE  PoolInv'
    BY SMTT(30)
  <1>1. CASE UNCHANGED pl
    <2>1. ListInv' /\ FileInv'  BY <1>1 DEF PoolInv, ListInv, FileInv, PoolAt
    <2>4. MiscInv' /\ LateInv'  BY <1>1 DEF PoolInv, MiscInv, LateInv, LateFits, PoolAt
    <2>2. AttrInv'  BY <1>1 DEF PoolInv, AttrInv, PoolAt
    <2>3. RefInv'  BY Zenon, <1>1 DEF PoolInv, RefInv, RefsExact, PoolAt, Holding
    <2> QED  BY <1>1, <2>1, <2>2, <2>3, <2>4 DEF PoolInv
  <1> QED
    BY SMTT(30), <1>1, ArrivalInv, RemovalInv, HandlerInv, MiscOpenInv, OpenScanInv, OpenTestInv,
       ReleaseInv DEF PoolNext

-----------------------------------------------------------------------------
\* However many pools come and go and files are opened and closed,
\* shannon_pool_miscdevice_open, _release and the attribute handlers never
\* reach a pool that was freed, but for the minor an open reads of one that
\* had failed to register, the count of a pool is its own reference and
\* one per file, and a pool taken apart lives exactly as long as its files.
THEOREM PoolsOutliveFiles == PoolSpec => []PoolOutlivesFiles
  <1>1. PoolInv => PoolOutlivesFiles
    <2> SUFFICES ASSUME PoolInv, NEW p \in Pools
                 PROVE  /\ RefsExact(p)
                        /\ OpenOn(p) # {} => PoolAt(p) # "gone"
                        /\ PoolAt(p) = "kept" => OpenOn(p) # {}
      BY DEF PoolOutlivesFiles, PoolInv, LateInv, LateFits, RefsExact, Own, Alive
    <2>1. /\ RefsExact(p)
          /\ PoolAt(p) = "gone" => pl.pool[p].refs = 0
          /\ PoolAt(p) = "kept" => pl.pool[p].refs # 0
      BY DEF PoolInv, RefInv
    <2>2. OpenOn(p) \subseteq Holding(p)  BY DEF OpenOn, Holding
    <2>3. CASE PoolAt(p) = "gone"
      <3>1. Cardinality(Holding(p)) = 0
        BY SMTT(30), <2>1, <2>3, HoldingCount DEF RefsExact, Own, Alive
      <3>2. Holding(p) = {}  BY SMTT(30), <3>1, HoldingCount
      <3> QED  BY SMTT(30), <2>1, <2>2, <2>3, <3>2
    <2>4. CASE PoolAt(p) = "kept"
      <3>1. Cardinality(Holding(p)) # 0
        BY SMTT(30), <2>1, <2>4, HoldingCount DEF RefsExact, Own, Alive
      <3>2. PICK f \in Files : pl.file[f].pc \in {"test", "open"} /\ pl.file[f].spool = p
        BY Zenon, <3>1, HoldingCount DEF Holding
      <3>3. pl.file[f].pc # "test"
        <4> SUFFICES ASSUME pl.file[f].pc = "test"  PROVE  FALSE
          OBVIOUS
        <4>1. pl.file[f].minor = p /\ pl.pool[p].misc = "on"
          BY <3>2, PoolAssumption DEF PoolInv, FileInv
        <4> QED  BY <2>4, <4>1 DEF PoolInv, MiscInv, MiscFits, PoolAt
      <3> QED  BY SMTT(30), <2>1, <2>4, <3>2, <3>3 DEF OpenOn
    <2> QED  BY SMTT(30), <2>1, <2>3, <2>4
  <1> QED  BY <1>1, PoolInitInv, PoolStepInv, PTL DEF PoolSpec

-----------------------------------------------------------------------------
(* GfpXlate.  The translation keeps every caller's intent.                  *)

Zones == {"DMA", "HIGHMEM", "DMA32", "MOVABLE"}

\* The legacy encoding is 16 bits wide, with the zone flags in the low four.
LEMMA LegacyBits ==
  /\ DOMAIN LegacyBit = Zones \cup DOMAIN Becomes
  /\ \A n \in DOMAIN LegacyBit : LegacyBit[n] \in AllMask
  /\ \A m, n \in DOMAIN LegacyBit : LegacyBit[m] = LegacyBit[n] => m = n
  /\ \A n \in DOMAIN LegacyBit : LegacyBit[n] \in ZoneMask <=> n \in Zones
BY DEF LegacyBit, AllMask, ZoneMask, Zones, Becomes

\* Each decoded flag is one this kernel has a bit for.
LEMMA BecomesNames ==
  \A n \in DOMAIN Becomes : Becomes[n] \subseteq ModernNames \ Zones
BY DEF Becomes, ModernNames, __GFP_RECLAIM, GFP_ATOMIC, Zones
\* The bits of a decoded word, before shannon_gfp_decode_legacy looks for a
\* reclaim bit: the zone bits as they were, the others by name.
LEMMA DecodedBits ==
  ASSUME NEW a \in SUBSET DOMAIN LegacyBit, NEW b
  PROVE  b \in DecodeNoKswapd(LegacyWord(a)) <=>
           \/ \E z \in a \cap Zones : b = LegacyBit[z]
           \/ \E n \in a \cap DOMAIN Becomes :
                \E m \in Becomes[n] : b = Modern[m]
<1> DEFINE w == LegacyWord(a)
<1>1. \A n \in DOMAIN LegacyBit : LegacyBit[n] \in w <=> n \in a
  BY LegacyBits DEF LegacyWord
<1>2. b \in w \cap ZoneMask <=> \E z \in a \cap Zones : b = LegacyBit[z]
  BY LegacyBits DEF LegacyWord
<1>3. {m \in DOMAIN Becomes : LegacyBit[m] \in w} = a \cap DOMAIN Becomes
  BY <1>1, LegacyBits
<1>4. b \in UNION {ModernWord(Becomes[n]) : n \in a \cap DOMAIN Becomes} <=>
        \E n \in a \cap DOMAIN Becomes : \E m \in Becomes[n] : b = Modern[m]
  BY DEF ModernWord
<1> HIDE DEF w
<1>5. b \in DecodeNoKswapd(w) <=>
        \/ b \in w \cap ZoneMask
        \/ b \in UNION {ModernWord(Becomes[n]) : n \in a \cap DOMAIN Becomes}
  BY <1>3, Zenon DEF DecodeNoKswapd
<1> QED BY <1>2, <1>4, <1>5 DEF w

\* Which names of this kernel a decoded word has: the bits being distinct, a
\* zone flag if it was asked for, another flag if a legacy one became it.
LEMMA DecodedNames ==
  ASSUME NEW a \in SUBSET DOMAIN LegacyBit, NEW m \in ModernNames
  PROVE  Modern[m] \in DecodeNoKswapd(LegacyWord(a)) <=>
           \/ m \in a \cap Zones
           \/ \E n \in a \cap DOMAIN Becomes : m \in Becomes[n]
<1>1. \A z \in Zones : LegacyBit[z] = Modern[z] /\ z \in ModernNames
  BY GfpAssumption DEF Zones, ModernNames
<1>2. (\E z \in a \cap Zones : Modern[m] = LegacyBit[z]) <=> m \in a \cap Zones
  BY <1>1, GfpAssumption
<1>3. ASSUME NEW n \in a \cap DOMAIN Becomes
      PROVE  (\E k \in Becomes[n] : Modern[m] = Modern[k]) <=> m \in Becomes[n]
  BY BecomesNames, GfpAssumption
<1> QED BY <1>2, <1>3, DecodedBits

\* The same after the fix-up: all words can wake kswapd, and no other name is
\* gained by it.
LEMMA FixedUpNames ==
  ASSUME NEW a \in SUBSET DOMAIN LegacyBit, NEW m \in ModernNames
  PROVE  LET d == shannon_gfp_decode_legacy(LegacyWord(a)) IN
         /\ Modern["KSWAPD_RECLAIM"] \in d
         /\ m # "KSWAPD_RECLAIM" =>
              (Modern[m] \in d <=> Modern[m] \in DecodeNoKswapd(LegacyWord(a)))
<1> DEFINE g == DecodeNoKswapd(LegacyWord(a))
           d == shannon_gfp_decode_legacy(LegacyWord(a))
<1>1. {"KSWAPD_RECLAIM", "DIRECT_RECLAIM"} \subseteq ModernNames
  BY DEF ModernNames
<1>2. ASSUME NEW k \in __GFP_RECLAIM, Modern[k] \in g
      PROVE  Modern["KSWAPD_RECLAIM"] \in g
  <2>1. k \in ModernNames /\ k \notin Zones
    BY DEF __GFP_RECLAIM, ModernNames, Zones
  <2>2. PICK n \in a \cap DOMAIN Becomes : k \in Becomes[n]
    BY <2>1, <1>2, DecodedNames
  <2>3. "KSWAPD_RECLAIM" \in Becomes[n]
    BY <2>2 DEF Becomes, __GFP_RECLAIM, GFP_ATOMIC
  <2> QED BY <2>3, <1>1, DecodedNames
<1>3. g \cap ModernWord(__GFP_RECLAIM) # {} => Modern["KSWAPD_RECLAIM"] \in g
  BY <1>2 DEF ModernWord
<1>4. Modern["KSWAPD_RECLAIM"] \in d
  BY <1>3 DEF shannon_gfp_decode_legacy
<1>5. m # "KSWAPD_RECLAIM" => (Modern[m] \in d <=> Modern[m] \in g)
  BY <1>1, GfpAssumption DEF shannon_gfp_decode_legacy
<1> QED BY <1>4, <1>5

\* A word with a reclaim bit is left alone.
LEMMA ReclaimKept ==
  ASSUME NEW w, NEW k \in __GFP_RECLAIM, Modern[k] \in w
  PROVE  shannon_gfp_xlate(w) = w
BY DEF shannon_gfp_xlate, shannon_gfp_is_legacy, ModernWord

\* What the core passes is recognised.
LEMMA CoreIsLegacy ==
  ASSUME NEW a \in CoreAsks
  PROVE  shannon_gfp_xlate(LegacyWord(a)) =
           shannon_gfp_decode_legacy(LegacyWord(a))
<1>1. a # {} /\ a \subseteq DOMAIN LegacyBit
  BY GfpAssumption
<1>2. LegacyWord(a) # {} /\ LegacyWord(a) \subseteq AllMask
  BY <1>1, LegacyBits DEF LegacyWord
<1>3. LegacyWord(a) \cap ModernWord(__GFP_RECLAIM) = {}
  BY GfpAssumption
<1> QED BY <1>2, <1>3 DEF shannon_gfp_xlate, shannon_gfp_is_legacy
\* Which legacy flag each name this kernel reads comes from.
LEMMA Sources ==
  ASSUME NEW k \in DOMAIN Becomes
  PROVE  /\ \A n \in Same \ Zones : n \in Becomes[k] <=> n = k
         /\ "DIRECT_RECLAIM" \in Becomes[k] <=> k = "WAIT"
         /\ "RETRY_MAYFAIL" \in Becomes[k] <=> k = "REPEAT"
BY DEF Same, Zones, Becomes, __GFP_RECLAIM, GFP_ATOMIC

\* A word of the core, translated, is read as the core meant it.
LEMMA CoreRead ==
  ASSUME NEW a \in CoreAsks
  PROVE  Read(shannon_gfp_xlate(LegacyWord(a))) =
           Wanted([by |-> "core", names |-> a])
<1> DEFINE d == shannon_gfp_xlate(LegacyWord(a))
<1>1. a \in SUBSET DOMAIN LegacyBit
  BY GfpAssumption
<1>2. ASSUME NEW m \in ModernNames, m # "KSWAPD_RECLAIM"
      PROVE  Modern[m] \in d <=>
               \/ m \in a \cap Zones
               \/ \E n \in a \cap DOMAIN Becomes : m \in Becomes[n]
  BY <1>1, <1>2, CoreIsLegacy, FixedUpNames, DecodedNames
<1> HIDE DEF d
<1>3. Same \cup {"DIRECT_RECLAIM", "RETRY_MAYFAIL"} \subseteq
        ModernNames \ {"KSWAPD_RECLAIM"}
  BY DEF Same, ModernNames
<1>4. \A n \in Same : Modern[n] \in d <=> n \in a
  <2> SUFFICES ASSUME NEW n \in Same PROVE Modern[n] \in d <=> n \in a
    OBVIOUS
  <2>1. CASE n \in Zones
    BY <2>1, <1>2, <1>3, BecomesNames
  <2>2. CASE n \notin Zones
    <3>1. n \in DOMAIN Becomes
      BY <2>2 DEF Same, Zones, Becomes
    <3> QED BY <3>1, <2>2, <1>2, <1>3, Sources
  <2> QED BY <2>1, <2>2
<1>5. Modern["DIRECT_RECLAIM"] \in d <=> "WAIT" \in a
  <2>1. "DIRECT_RECLAIM" \notin Zones /\ "WAIT" \in DOMAIN Becomes
    BY DEF Zones, Becomes
  <2> QED BY <2>1, <1>2, <1>3, Sources
<1>6. Modern["RETRY_MAYFAIL"] \in d <=> "REPEAT" \in a
  <2>1. "RETRY_MAYFAIL" \notin Zones /\ "REPEAT" \in DOMAIN Becomes
    BY DEF Zones, Becomes
  <2> QED BY <2>1, <1>2, <1>3, Sources
<1>7. Read(d) = Wanted([by |-> "core", names |-> a])
  BY <1>4, <1>5, <1>6 DEF Read, Wanted
<1> QED BY <1>7 DEF d

\* What an open wrapper passes is left alone, and read as it was written.
LEMMA NativeRead ==
  ASSUME NEW a \in NativeAsks
  PROVE  /\ shannon_gfp_xlate(ModernWord(a)) = ModernWord(a)
         /\ Read(ModernWord(a)) = Wanted([by |-> "open", names |-> a])
         /\ Modern["KSWAPD_RECLAIM"] \in ModernWord(a)
<1>1. a \subseteq ModernNames /\ "KSWAPD_RECLAIM" \in a
  BY DEF NativeAsks, ModernNames, __GFP_RECLAIM, GFP_ATOMIC
<1>2. \A m \in ModernNames : Modern[m] \in ModernWord(a) <=> m \in a
  BY <1>1, GfpAssumption DEF ModernWord
<1>3. Modern["KSWAPD_RECLAIM"] \in ModernWord(a)
  BY <1>1, <1>2
<1>4. shannon_gfp_xlate(ModernWord(a)) = ModernWord(a)
  BY <1>3, ReclaimKept DEF __GFP_RECLAIM
<1>5. Same \cup {"DIRECT_RECLAIM", "RETRY_MAYFAIL"} \subseteq ModernNames
  BY DEF Same, ModernNames
<1>6. Read(ModernWord(a)) = Wanted([by |-> "open", names |-> a])
  BY <1>2, <1>5 DEF Read, Wanted
<1> QED BY <1>3, <1>4, <1>6

\* Both populations in one statement: what mempool_alloc gets for a request is
\* read as the request meant, can wake kswapd, and would be left alone by
\* another translation.
LEMMA AskTranslated ==
  ASSUME NEW a \in Asks
  PROVE  LET w == shannon_gfp_xlate(GfpWord(a)) IN
         /\ Read(w) = Wanted(a)
         /\ Modern["KSWAPD_RECLAIM"] \in w
         /\ shannon_gfp_xlate(w) = w
<1> DEFINE w == shannon_gfp_xlate(GfpWord(a))
<1>1. CASE a \in [by : {"core"}, names : CoreAsks]
  <2>1. a = [by |-> "core", names |-> a.names] /\ a.names \in CoreAsks
    BY <1>1
  <2>2. w = shannon_gfp_xlate(LegacyWord(a.names))
    BY <2>1 DEF GfpWord
  <2>3. Read(w) = Wanted(a)
    BY <2>1, <2>2, CoreRead
  <2>4. Modern["KSWAPD_RECLAIM"] \in w
    <3>1. a.names \in SUBSET DOMAIN LegacyBit /\ "KSWAPD_RECLAIM" \in ModernNames
      BY <2>1, GfpAssumption DEF ModernNames
    <3> QED BY <3>1, <2>1, <2>2, CoreIsLegacy, FixedUpNames
  <2> QED BY <2>3, <2>4, ReclaimKept DEF __GFP_RECLAIM
<1>2. CASE a \in [by : {"open"}, names : NativeAsks]
  <2>1. a = [by |-> "open", names |-> a.names] /\ a.names \in NativeAsks
    BY <1>2
  <2>2. GfpWord(a) = ModernWord(a.names)
    BY <2>1 DEF GfpWord
  <2> QED BY <2>1, <2>2, NativeRead
<1> QED BY <1>1, <1>2 DEF Asks
\* shannon_gfp_xlate is idempotent on every word whatever its bits mean, so it
\* does no harm that a request may pass through two wrappers.
THEOREM XlateIdempotent ==
  \A w : shannon_gfp_xlate(shannon_gfp_xlate(w)) = shannon_gfp_xlate(w)
<1> SUFFICES ASSUME NEW w, shannon_gfp_is_legacy(w)
             PROVE  shannon_gfp_xlate(shannon_gfp_xlate(w)) = shannon_gfp_xlate(w)
  BY DEF shannon_gfp_xlate
<1> DEFINE d == shannon_gfp_decode_legacy(w)
<1>1. shannon_gfp_xlate(w) = d
  BY DEF shannon_gfp_xlate
<1>2. d \cap ModernWord(__GFP_RECLAIM) # {}
  BY DEF shannon_gfp_decode_legacy, ModernWord, __GFP_RECLAIM
<1> HIDE DEF d
<1>3. ~shannon_gfp_is_legacy(d)
  BY <1>2 DEF shannon_gfp_is_legacy
<1> QED BY <1>1, <1>3 DEF shannon_gfp_xlate

-----------------------------------------------------------------------------
\* The word a caller carries is the one its request was written as, and once
\* through the wrapper its translation.
Carried ==
  \A c \in Users :
    /\ pc[c] = "asked" => asked[c] \in Asks /\ gfp[c] = GfpWord(asked[c])
    /\ pc[c] \in Translated =>
         /\ asked[c] \in Asks
         /\ gfp[c] = shannon_gfp_xlate(GfpWord(asked[c]))

UserStates == {"idle", "asked", "alloc", "waiting", "has", "null"}

UserShapes ==
  /\ pc \in [Users -> UserStates]
  /\ DOMAIN asked = Users /\ asked = [c \in Users |-> asked[c]]
  /\ DOMAIN gfp = Users /\ gfp = [c \in Users |-> gfp[c]]

\* PoolPromise is not inductive: a caller about to enter mempool_alloc must
\* carry the translation of what it asked for.
IInv == UserShapes /\ Carried /\ PoolPromise

\* A word that is the translation of a request lets the caller sleep exactly
\* if the request does.
LEMMA SleepAsAsked ==
  ASSUME NEW a \in Asks
  PROVE  MaySleep(shannon_gfp_xlate(GfpWord(a))) <=> "sleep" \in Wanted(a)
<1>1. "sleep" \notin Same
  BY DEF Same
<1>2. \A w : "sleep" \in Read(w) <=> MaySleep(w)
  BY <1>1 DEF Read, MaySleep
<1> QED BY <1>2, AskTranslated

\* The initial state, and each step, keeps the inductive invariant.
LEMMA InitIInv == Init => IInv
BY DEF Init, IInv, UserShapes, Carried, PoolPromise, Translated, UserStates

\* Every step keeps the invariant.
LEMMA StepIInv == IInv /\ [Next]_vars => IInv'
<1> SUFFICES ASSUME IInv, [Next]_vars PROVE IInv'
  OBVIOUS
<1> USE DEF IInv, UserShapes
<1>1. ASSUME NEW c \in Users, NEW a \in Asks, AskFor(c, a) PROVE IInv'
  BY Zenon, <1>1 DEF AskFor, Carried, PoolPromise, Translated, UserStates
<1>2. ASSUME NEW c \in Users, shannon_mempool_alloc(c) PROVE IInv'
  BY <1>2 DEF shannon_mempool_alloc, Carried, PoolPromise, Translated, UserStates
<1>3. ASSUME NEW c \in Users, mempool_alloc(c) PROVE IInv'
  <2>1. asked[c] \in Asks /\ gfp[c] = shannon_gfp_xlate(GfpWord(asked[c]))
    BY <1>3 DEF mempool_alloc, Carried, Translated
  <2>2. MaySleep(gfp[c]) <=> "sleep" \in Wanted(asked[c])
    BY <2>1, SleepAsAsked
  <2>3. UNCHANGED <<asked, gfp>>
    BY <1>3 DEF mempool_alloc
  <2>4. PICK p \in {"has", "waiting", "null"} :
          /\ pc' = [pc EXCEPT ![c] = p]
          /\ p = "waiting" => MaySleep(gfp[c])
          /\ p = "null" => ~MaySleep(gfp[c])
    BY <1>3 DEF mempool_alloc
  <2>5. UserShapes' /\ Carried'
    BY <2>1, <2>3, <2>4 DEF Carried, Translated, UserStates
  <2>6. PoolPromise'
    BY <2>2, <2>3, <2>4 DEF PoolPromise
  <2> QED BY <2>5, <2>6
<1>4. ASSUME NEW c \in Users, shannon_mempool_free(c) PROVE IInv'
  BY Zenon, <1>4 DEF shannon_mempool_free, Return, Carried, PoolPromise, Translated,
              UserStates
<1>5. ASSUME NEW c \in Users, GiveUp(c) PROVE IInv'
  BY Zenon, <1>5 DEF GiveUp, Return, Carried, PoolPromise, Translated, UserStates
<1>6. ASSUME NEW names, NEW novel, shannon_kmem_cache_create(names, novel)
      PROVE  IInv'
  BY <1>6 DEF shannon_kmem_cache_create, mempool, Carried, PoolPromise
<1>7. ASSUME UNCHANGED vars PROVE IInv'
  BY <1>7 DEF vars, mempool, Carried, PoolPromise
<1> QED BY <1>1, <1>2, <1>3, <1>4, <1>5, <1>6, <1>7 DEF Next

\* The invariant holds throughout.
LEMMA AlwaysIInv == Spec => []IInv
BY InitIInv, StepIInv, PTL DEF Spec

\* For every encoding of a kernel that satisfies GfpAssumption and every set
\* of callers, a translated request is read as its caller meant it.
THEOREM IntentIsKept == Spec => []IntentKept
<1>1. IInv => IntentKept
  BY AskTranslated DEF IInv, Carried, IntentKept
<1> QED BY <1>1, AlwaysIInv, PTL

\* Every request can wake the background reclaim.
THEOREM AllCanReclaim == Spec => []CanReclaim
<1>1. IInv => CanReclaim
  BY AskTranslated DEF IInv, Carried, CanReclaim
<1> QED BY <1>1, AlwaysIInv, PTL

\* shannon_mempool_alloc returns NULL only to callers that may not sleep, and
\* puts only the others to sleep.
THEOREM PoolPromiseKept == Spec => []PoolPromise
<1>1. IInv => PoolPromise
  BY DEF IInv
<1> QED BY <1>1, AlwaysIInv, PTL

\* The slab table: distinct legacy bits below the novel one, distinct names.
LEMMA SlabTable ==
  /\ DOMAIN SlabBecomes \subseteq DOMAIN LegacySlabBit
  /\ \A n \in DOMAIN LegacySlabBit : LegacySlabBit[n] \in 0 .. NovelBit - 1
  /\ \A m, n \in DOMAIN LegacySlabBit : LegacySlabBit[m] = LegacySlabBit[n] => m = n
  /\ \A m, n \in DOMAIN SlabBecomes : SlabBecomes[m] = SlabBecomes[n] => m = n
  /\ NovelBit \notin KnownMask /\ NovelBit \in Nat
<1>1. DOMAIN SlabBecomes \subseteq DOMAIN LegacySlabBit  BY DEF SlabBecomes, LegacySlabBit
<1>2. \A n \in DOMAIN LegacySlabBit : LegacySlabBit[n] \in 0 .. NovelBit - 1
  BY DEF LegacySlabBit, NovelBit
<1>3. \A m, n \in DOMAIN LegacySlabBit : LegacySlabBit[m] = LegacySlabBit[n] => m = n
  BY DEF LegacySlabBit
<1>4. \A m, n \in DOMAIN SlabBecomes : SlabBecomes[m] = SlabBecomes[n] => m = n
  BY DEF SlabBecomes
<1>5. NovelBit \notin KnownMask /\ NovelBit \in Nat
  BY <1>2 DEF KnownMask, NovelBit
<1> QED  BY <1>1, <1>2, <1>3, <1>4, <1>5

\* What shannon_slab_flags_xlate makes of a word, in either encoding: a name of
\* this kernel is in it if the legacy flag that the table gives for it was.
LEMMA SlabNames ==
  ASSUME NEW k \in SlabKernels, NEW names \in SUBSET DOMAIN LegacySlabBit,
         NEW novel \in SUBSET {NovelBit}
  PROVE  LET word  == {LegacySlabBit[n] : n \in names} \cup novel
             flags == shannon_slab_flags_xlate(k, word)
         IN  /\ novel \subseteq flags \cup shannon_slab_flags_unknown(k, word)
             /\ {n \in DOMAIN k : k[n] \in flags} =
                {SlabBecomes[n] : n \in {m \in names \cap DOMAIN SlabBecomes :
                                           SlabBecomes[m] \in DOMAIN k}}
<1> DEFINE word  == {LegacySlabBit[n] : n \in names} \cup novel
           flags == shannon_slab_flags_xlate(k, word)
<1>1. \A n \in DOMAIN LegacySlabBit : LegacySlabBit[n] \in word <=> n \in names
  BY SlabTable
<1>2. ASSUME NEW m \in DOMAIN SlabBecomes, SlabBecomes[m] \in DOMAIN k
      PROVE  k[SlabBecomes[m]] \in flags <=> m \in names
  <2>1. LegacySlabBit[m] \in word <=> m \in names  BY <1>1, SlabTable
  <2>2. CASE shannon_slab_flags_native(k)
    <3>1. k[SlabBecomes[m]] = LegacySlabBit[m]
      BY <1>2, <2>2, SlabAssumption DEF shannon_slab_flags_native
    <3> QED  BY <2>1, <2>2, <3>1 DEF shannon_slab_flags_xlate
  <2>3. CASE ~shannon_slab_flags_native(k)
    <3>1. \A n \in DOMAIN SlabBecomes : SlabBecomes[n] \in DOMAIN k =>
            (k[SlabBecomes[n]] = k[SlabBecomes[m]] => n = m)
      BY <1>2, SlabAssumption, SlabTable
    <3> QED  BY <1>2, <2>1, <2>3, <3>1 DEF shannon_slab_flags_xlate
  <2> QED  BY <2>2, <2>3
<1>3. {n \in DOMAIN k : k[n] \in flags} =
      {SlabBecomes[n] : n \in {m \in names \cap DOMAIN SlabBecomes :
                                 SlabBecomes[m] \in DOMAIN k}}
  <2>1. \A x \in DOMAIN k : \E n \in DOMAIN SlabBecomes : x = SlabBecomes[n]
    BY SlabAssumption
  <2> HIDE DEF flags, word
  <2> QED  BY <1>2, <2>1
<1>4. novel \subseteq flags \cup shannon_slab_flags_unknown(k, word)
  BY SlabTable DEF shannon_slab_flags_xlate, shannon_slab_flags_unknown
<1> QED  BY <1>3, <1>4

\* For every pair of encodings that moves its names all at once, a cache has the
\* flags the core created it with that this kernel has, and no other.
THEOREM SlabFlagsAreKept == Spec => []SlabIntentKept
<1> DEFINE SInv == kernel \in SlabKernels /\ SlabIntentKept
<1>1. Init => SInv
  BY DEF Init, NoCache, SlabIntentKept
<1>2. SInv /\ [Next]_vars => SInv'
  <2> SUFFICES ASSUME SInv, [Next]_vars PROVE SInv'
    OBVIOUS
  <2>1. ASSUME NEW names \in SlabAsks, NEW novel \in SUBSET {NovelBit},
               shannon_kmem_cache_create(names, novel)
        PROVE  SInv'
    <3> DEFINE word == {LegacySlabBit[n] : n \in names} \cup novel
    <3>1. /\ kernel' = kernel
          /\ cache' = [asked |-> names, novel |-> novel,
                       warned |-> shannon_slab_flags_unknown(kernel, word),
                       flags |-> shannon_slab_flags_xlate(kernel, word)]
      BY <2>1 DEF shannon_kmem_cache_create
    <3>2. names \in SUBSET DOMAIN LegacySlabBit  BY SlabAssumption
    <3>3. /\ novel \subseteq shannon_slab_flags_xlate(kernel, word)
                               \cup shannon_slab_flags_unknown(kernel, word)
          /\ {n \in DOMAIN kernel : kernel[n] \in shannon_slab_flags_xlate(kernel, word)} =
             {SlabBecomes[n] : n \in {m \in names \cap DOMAIN SlabBecomes :
                                        SlabBecomes[m] \in DOMAIN kernel}}
      BY <3>2, SlabNames
    <3> QED  BY <3>1, <3>3 DEF SlabIntentKept
  <2>2. CASE UNCHANGED <<kernel, cache>>
    BY <2>2 DEF SlabIntentKept
  <2>3. ASSUME NEW c \in Users,
               \/ \E a \in Asks : AskFor(c, a)
               \/ shannon_mempool_alloc(c) \/ mempool_alloc(c)
               \/ shannon_mempool_free(c) \/ GiveUp(c)
        PROVE  UNCHANGED <<kernel, cache>>
    BY <2>3 DEF AskFor, shannon_mempool_alloc, mempool_alloc, shannon_mempool_free, GiveUp
  <2> QED  BY <2>1, <2>2, <2>3 DEF Next, vars
<1> QED  BY <1>1, <1>2, PTL DEF Spec

-----------------------------------------------------------------------------
(* RtWorkqueue.  RtInv adds to the checked invariants what the worker knows *)
(* between its steps: which class is_rt stands for, and that once the       *)
(* destroyer's flush has returned only the function that is still running   *)
(* can put work on the list.                                                *)

\* The worker's program points at which it is in the real-time class.
RtPoints == {"outer", "wakeflush", "stopcheck", "park", "sleep", "exited"}

\* Its points inside the inner loop, where a function may have queued work.
BusyPoints == {"inner", "take", "run", "count", "yield", "yielding"}

\* is_rt tells the class the worker has; outside the inner loop it is RT.
ClassInv == /\ tpc \in RtPoints => policy = "RT"
            /\ tpc \in BusyPoints \cup {"drained"} => (isRt => policy = "RT")

\* After the destroyer's flush the list is empty unless the worker is busy.
DrainInv ==
  fpc[Destroyer] \in {"flushed", "stopwake", "join", "freed"} /\ tpc \notin BusyPoints
    => list = <<>>

\* The worker is told to stop only by a destroyer past its flush.
StopInv == shouldStop => fpc[Destroyer] \in {"stopwake", "join", "freed"}

\* The worker exits only when it was told to.
ExitInv == tpc = "exited" => shouldStop

RtInv ==
  /\ RtTypeOK /\ PendingIsListed /\ TakeFindsWork /\ NoLostWakeup
  /\ ClassInv /\ DrainInv /\ StopInv /\ ExitInv

\* Appending a work that is not listed keeps the listed works apart.
LEMMA AppendListed ==
  ASSUME RtTypeOK, PendingIsListed, NEW w \in Works, Enqueue(w)
  PROVE  PendingIsListed' /\ list' \in Seq(Works) /\ list' # <<>>
  <1>1. list \in Seq(Works) /\ list' = Append(list, w)
    BY DEF RtTypeOK, Enqueue
  <1>2. Len(list') = Len(list) + 1 /\ list' \in Seq(Works)  BY <1>1
  <1>3. \A i \in 1 .. Len(list') :
           list'[i] = IF i = Len(list) + 1 THEN w ELSE list[i]
    BY <1>1, <1>2
  <1>4. w \notin Listed  BY DEF Enqueue, PendingIsListed
  <1>5. \A i \in 1 .. Len(list) : list[i] # w  BY <1>4 DEF Listed
  <1>6. Listed' = Listed \cup {w}
    <2>1. \A x \in Listed' : x \in Listed \cup {w}
      BY <1>1, <1>2, <1>3 DEF Listed
    <2>2. \A x \in Listed : x \in Listed'
      BY <1>1, <1>2, <1>3 DEF Listed
    <2>3. w \in Listed'
      BY <1>1, <1>2, <1>3 DEF Listed
    <2> QED  BY <2>1, <2>2, <2>3
  <1>7. \A i, j \in 1 .. Len(list') : list'[i] = list'[j] => i = j
    BY <1>1, <1>2, <1>3, <1>5 DEF PendingIsListed
  <1>8. pending' = Listed'
    BY <1>6 DEF Enqueue, PendingIsListed
  <1>9. list' # <<>>  BY <1>1, <1>2
  <1> QED  BY <1>2, <1>7, <1>8, <1>9 DEF PendingIsListed

\* Taking the first work, which occurs once, keeps the rest listed.
LEMMA TailListed ==
  ASSUME RtTypeOK, PendingIsListed, list # <<>>,
         list' = Tail(list), pending' = pending \ {Head(list)}
  PROVE  PendingIsListed' /\ list' \in Seq(Works) /\ Head(list) \in Works
  <1>1. list \in Seq(Works) /\ Len(list) \in Nat /\ Len(list) >= 1
    BY DEF RtTypeOK
  <1>2. Len(list') = Len(list) - 1 /\ list' \in Seq(Works)  BY <1>1
  <1>3. \A i \in 1 .. Len(list') : list'[i] = list[i + 1]  BY <1>1, <1>2
  <1>4. Head(list) = list[1] /\ Head(list) \in Works  BY <1>1
  <1>5. Listed' = Listed \ {Head(list)}
    <2>1. \A x \in Listed' : x \in Listed \ {Head(list)}
      BY <1>1, <1>2, <1>3, <1>4 DEF Listed, PendingIsListed
    <2>2. ASSUME NEW x \in Listed \ {Head(list)} PROVE x \in Listed'
      <3>1. PICK i \in 1 .. Len(list) : x = list[i]  BY DEF Listed
      <3>2. i # 1  BY <1>4, <3>1
      <3>3. i - 1 \in 1 .. Len(list') /\ list'[i - 1] = x
        BY <1>1, <1>2, <1>3, <3>1, <3>2
      <3> QED  BY <3>3 DEF Listed
    <2> QED  BY <2>1, <2>2
  <1>6. \A i, j \in 1 .. Len(list') : list'[i] = list'[j] => i = j
    BY <1>1, <1>2, <1>3 DEF PendingIsListed
  <1>7. pending' = Listed'  BY <1>5 DEF PendingIsListed
  <1> QED  BY <1>2, <1>4, <1>6, <1>7 DEF PendingIsListed

\* The worker starts asleep on an empty list.
LEMMA InitRtInv == RtInit => RtInv
  <1> SUFFICES ASSUME RtInit PROVE RtInv  OBVIOUS
  <1>1. RtTypeOK
    <2>1. list \in Seq(Works) /\ loop \in 0 .. MaxLoop - 1
      BY RtAssumption DEF RtInit
    <2>2. qpc \in [Procs -> {"idle", "wake"}] /\ fpc \in [Waiters -> FPCs]
      BY DEF RtInit, FPCs
    <2>3. /\ pending \subseteq Works /\ onEvent \subseteq Waiters
          /\ tpc \in TPCs /\ tstate \in {"RUNNING", "INTERRUPTIBLE"} /\ cur \in Works
          /\ isRt \in BOOLEAN /\ policy \in {"RT", "NORMAL"} /\ shouldStop \in BOOLEAN
      BY Zenon DEF RtInit, TPCs
    <2> QED  BY <2>1, <2>2, <2>3 DEF RtTypeOK
  <1>2. Listed = {} /\ Len(list) = 0  BY DEF RtInit, Listed
  <1>3. PendingIsListed  BY <1>2 DEF RtInit, PendingIsListed
  <1>4. TakeFindsWork /\ NoLostWakeup /\ ClassInv /\ DrainInv /\ StopInv /\ ExitInv
    BY DEF RtInit, TakeFindsWork, NoLostWakeup, ClassInv, DrainInv, StopInv, ExitInv,
           RtPoints, BusyPoints
  <1> QED  BY <1>1, <1>3, <1>4 DEF RtInv

\* Steps that leave the list and the PENDING bits alone keep them listed.
LEMMA SameListed ==
  ASSUME PendingIsListed, UNCHANGED <<list, pending>>
  PROVE  PendingIsListed'
  BY DEF PendingIsListed, Listed

\* What the other conjuncts of RtInv depend on, without the list's contents.
Rest == TakeFindsWork /\ NoLostWakeup /\ ClassInv /\ DrainInv /\ StopInv /\ ExitInv

\* Queueing a work keeps the list sound.
LEMMA QueueStep ==
  ASSUME RtInv, NEW p \in Procs, NEW w \in Works, shannon_rt_queue_work(p, w)
  PROVE  RtInv'
  <1>1. RtTypeOK /\ PendingIsListed /\ Rest /\ Enqueue(w)
    BY DEF RtInv, Rest, shannon_rt_queue_work
  <1>2. PendingIsListed' /\ list' \in Seq(Works) /\ list' # <<>>
    BY <1>1, AppendListed
  <1>3. RtTypeOK'
    BY <1>1, <1>2, RtAssumption DEF RtTypeOK, shannon_rt_queue_work, Enqueue, worker
  <1>4. Rest'
    BY <1>1, <1>2 DEF Rest, shannon_rt_queue_work, worker, TakeFindsWork,
       NoLostWakeup, ClassInv, DrainInv, StopInv, ExitInv, RtTypeOK
  <1> QED  BY <1>2, <1>3, <1>4 DEF RtInv, Rest

\* A function that queues its own work keeps the list sound.
LEMMA RequeueStep ==
  ASSUME RtInv, NEW w \in Works, TRequeue(w)
  PROVE  RtInv'
  <1>1. RtTypeOK /\ PendingIsListed /\ Rest /\ Enqueue(w)
    BY DEF RtInv, Rest, TRequeue
  <1>2. PendingIsListed' /\ list' \in Seq(Works) /\ list' # <<>>
    BY <1>1, AppendListed
  <1>3. RtTypeOK'
    BY <1>1, <1>2, RtAssumption DEF RtTypeOK, TRequeue, Enqueue, worker
  <1>4. Rest'
    BY <1>1, <1>2 DEF Rest, TRequeue, worker, TakeFindsWork, NoLostWakeup, ClassInv,
       DrainInv, StopInv, ExitInv, RtPoints, BusyPoints
  <1> QED  BY <1>2, <1>3, <1>4 DEF RtInv, Rest

\* Taking the first work keeps the list sound.
LEMMA TakeStep ==
  ASSUME RtInv, TTake
  PROVE  RtInv'
  <1>1. RtTypeOK /\ PendingIsListed /\ Rest
    BY DEF RtInv, Rest
  <1>2. list # <<>> /\ list' = Tail(list) /\ pending' = pending \ {Head(list)}
    BY <1>1 DEF Rest, TakeFindsWork, TTake
  <1>3. PendingIsListed' /\ list' \in Seq(Works) /\ Head(list) \in Works
    BY <1>1, <1>2, TailListed
  <1>4. RtTypeOK'
    BY <1>1, <1>3 DEF RtTypeOK, TTake, TPCs
  <1>5. Rest'
    BY <1>1 DEF Rest, TTake, TakeFindsWork, NoLostWakeup, ClassInv,
       DrainInv, StopInv, ExitInv, RtPoints, BusyPoints
  <1> QED  BY <1>3, <1>4, <1>5 DEF RtInv, Rest

\* The steps of the worker that do not change the list.
LEMMA WorkerStep ==
  ASSUME RtInv, TStep, ~TTake
  PROVE  RtInv'
  <1> USE DEF TPCs, RtPoints, BusyPoints, queue
  <1>1. RtTypeOK /\ PendingIsListed /\ Rest
    BY DEF RtInv, Rest
  <1>2. UNCHANGED <<list, pending, qpc, fpc, shouldStop, cur>>
    BY DEF TStep, TStart, TOuter, TInner, TRun, TCount, TYield, TTimer, TYielded,
           TDrained, TWakeFlush, TStopCheck, TPark, TSleep
  <1>3. PendingIsListed'  BY <1>1, <1>2, SameListed
  <1>4. RtTypeOK'
    <2>a. /\ tpc \in TPCs /\ tstate \in {"RUNNING", "INTERRUPTIBLE"} /\ onEvent \subseteq Waiters
          /\ loop \in 0 .. MaxLoop - 1
      BY <1>1, Zenon DEF RtTypeOK
    <2>1. tpc' \in TPCs /\ tstate' \in {"RUNNING", "INTERRUPTIBLE"} /\ onEvent' \subseteq Waiters
      <3>1. CASE TStart \/ TOuter \/ TInner \/ TRun
        BY <2>a, <3>1 DEF TStart, TOuter, TInner, TRun
      <3>2. CASE TCount \/ TYield \/ TTimer \/ TYielded
        BY <2>a, <3>2 DEF TCount, TYield, TTimer, TYielded
      <3>3. CASE TDrained \/ TWakeFlush \/ TStopCheck \/ TPark \/ TSleep
        BY <2>a, <3>3 DEF TDrained, TWakeFlush, TStopCheck, TPark, TSleep
      <3> QED  BY <3>1, <3>2, <3>3, Zenon DEF TStep
    <2>2. loop' \in 0 .. MaxLoop - 1
      <3>1. CASE TCount  BY <2>a, <3>1, RtAssumption DEF TCount
      <3>2. CASE TStart \/ TOuter \/ TInner \/ TRun \/ TYield \/ TTimer \/ TYielded
        BY <2>a, <3>2, RtAssumption DEF TStart, TOuter, TInner, TRun, TYield, TTimer, TYielded
      <3>3. CASE TDrained \/ TWakeFlush \/ TStopCheck \/ TPark \/ TSleep
        BY <2>a, <3>3, RtAssumption DEF TDrained, TWakeFlush, TStopCheck, TPark, TSleep
      <3> QED  BY <3>1, <3>2, <3>3, Zenon DEF TStep
    <2>3. isRt' \in BOOLEAN /\ policy' \in {"RT", "NORMAL"}
      BY Zenon, <1>1 DEF RtTypeOK, TStep, TStart, TOuter, TInner, TRun, TCount, TYield, TTimer,
         TYielded, TDrained, TWakeFlush, TStopCheck, TPark, TSleep
    <2> QED  BY <1>1, <1>2, <2>1, <2>2, <2>3 DEF RtTypeOK
  <1>5. Rest'
    <2> USE DEF TakeFindsWork, NoLostWakeup, ClassInv, DrainInv, StopInv, ExitInv
    <2>1. CASE TStart \/ TOuter \/ TInner \/ TRun
      BY <1>1, <1>2, <2>1 DEF Rest, TStart, TOuter, TInner, TRun
    <2>2. CASE TCount \/ TYield \/ TTimer \/ TYielded
      BY <1>1, <1>2, <2>2 DEF Rest, TCount, TYield, TTimer, TYielded
    <2>3. CASE TDrained \/ TWakeFlush
      BY <1>1, <1>2, <2>3 DEF Rest, TDrained, TWakeFlush
    <2>4. CASE TStopCheck \/ TPark \/ TSleep
      BY <1>1, <1>2, <2>4 DEF Rest, TStopCheck, TPark, TSleep
    <2> QED  BY <2>1, <2>2, <2>3, <2>4 DEF TStep
  <1> QED  BY <1>3, <1>4, <1>5 DEF RtInv, Rest

\* The steps of a flusher, of the destroyer's flush and of its kthread_stop.
LEMMA WaiterStep ==
  ASSUME RtInv, \/ \E f \in Waiters : shannon_flush_rt_workqueue(f) \/ FlushStep(f)
               \/ DestroyStep
  PROVE  RtInv'
  <1> USE DEF FPCs, RtPoints, BusyPoints, queue, worker
  <1>1. RtTypeOK /\ PendingIsListed /\ Rest
    BY DEF RtInv, Rest
  <1>2. UNCHANGED <<list, pending, tpc, cur, loop, isRt, policy, qpc>>
    BY DEF FlushStep, shannon_flush_rt_workqueue, FlushTest, FlushPrepare, FlushRecheck,
           FlushAwake, DestroyStep, StopSet, StopWake, StopJoin
  <1>3. PendingIsListed'  BY <1>1, <1>2, SameListed
  <1>4. RtTypeOK'
    <2>1. fpc' \in [Waiters -> FPCs]
      BY <1>1 DEF RtTypeOK, FlushStep, shannon_flush_rt_workqueue, FlushTest, FlushPrepare,
         FlushRecheck, FlushAwake, DestroyStep, StopSet, StopWake, StopJoin
    <2>2. /\ tstate' \in {"RUNNING", "INTERRUPTIBLE"} /\ onEvent' \subseteq Waiters
          /\ shouldStop' \in BOOLEAN
      BY Zenon, <1>1 DEF RtTypeOK, FlushStep, shannon_flush_rt_workqueue, FlushTest, FlushPrepare,
         FlushRecheck, FlushAwake, DestroyStep, StopSet, StopWake, StopJoin
    <2> QED  BY <1>1, <1>2, <2>1, <2>2 DEF RtTypeOK
  <1>5. /\ TakeFindsWork' /\ NoLostWakeup' /\ ClassInv'
    <2>1. TakeFindsWork /\ NoLostWakeup /\ ClassInv  BY <1>1, Zenon DEF Rest
    <2>2. tstate' = "RUNNING" \/ tstate' = tstate
      BY DEF FlushStep, shannon_flush_rt_workqueue, FlushTest, FlushPrepare, FlushRecheck,
         FlushAwake, DestroyStep, StopSet, StopWake, StopJoin
    <2>3. TakeFindsWork' /\ ClassInv'  BY <1>2, <2>1 DEF TakeFindsWork, ClassInv
    <2>4. NoLostWakeup'  BY <1>2, <2>1, <2>2 DEF NoLostWakeup
    <2> QED  BY <2>3, <2>4, Zenon
  <1>6. DrainInv' /\ StopInv' /\ ExitInv'
    <2> USE DEF DrainInv, StopInv, ExitInv
    <2>1. Destroyer \in Waiters  BY DEF Waiters
    <2>a. DrainInv /\ StopInv /\ ExitInv  BY <1>1, Zenon DEF Rest
    <2>b. fpc \in [Waiters -> FPCs]  BY <1>1, Zenon DEF RtTypeOK
    <2>2. CASE \E f \in Waiters : shannon_flush_rt_workqueue(f) \/ FlushStep(f)
      <3>1. PICK f \in Waiters : shannon_flush_rt_workqueue(f) \/ FlushStep(f)  BY <2>2
      <3>2. /\ shouldStop' = shouldStop
            /\ fpc[f] \in {"idle", "test", "prepare", "recheck", "sleep"}
            /\ \/ fpc' = [fpc EXCEPT ![f] = "flushed"] /\ list = <<>>
               \/ \E v \in {"test", "prepare", "recheck", "sleep"} : fpc' = [fpc EXCEPT ![f] = v]
        BY <3>1 DEF FlushStep, shannon_flush_rt_workqueue, FlushTest, FlushPrepare,
           FlushRecheck, FlushAwake
      <3> QED  BY <1>2, <2>1, <2>a, <2>b, <3>2
    <2>3. CASE DestroyStep
      BY <1>2, <2>1, <2>3, <2>a, <2>b DEF DestroyStep, StopSet, StopWake, StopJoin
    <2> QED  BY <2>2, <2>3
  <1> QED  BY <1>3, <1>4, <1>5, <1>6 DEF RtInv

\* A wake-up keeps what is known of the worker.
LEMMA WakeStep ==
  ASSUME RtInv, NEW p \in Procs, QueueWake(p)
  PROVE  RtInv'
  <1>1. RtTypeOK /\ PendingIsListed /\ Rest
    BY DEF RtInv, Rest
  <1>2. PendingIsListed'  BY <1>1, SameListed DEF QueueWake, queue
  <1>3. RtTypeOK'  BY <1>1 DEF RtTypeOK, QueueWake, queue
  <1>4. Rest'
    BY <1>1 DEF Rest, QueueWake, queue, TakeFindsWork, NoLostWakeup, ClassInv, DrainInv,
       StopInv, ExitInv
  <1> QED  BY <1>2, <1>3, <1>4 DEF RtInv, Rest

\* Every step keeps the invariant.
LEMMA NextRtInv == RtInv /\ [RtNext]_rtvars => RtInv'
  <1> SUFFICES ASSUME RtInv, [RtNext]_rtvars PROVE RtInv'  OBVIOUS
  <1>1. CASE TStep
    BY <1>1, TakeStep, WorkerStep
  <1>2. CASE \E w \in Works : TRequeue(w)
    BY <1>2, RequeueStep
  <1>3. CASE \E p \in Procs : QueueWake(p) \/ \E w \in Works : shannon_rt_queue_work(p, w)
    BY <1>3, WakeStep, QueueStep
  <1>4. CASE (\E f \in Waiters : shannon_flush_rt_workqueue(f) \/ FlushStep(f)) \/ DestroyStep
    BY <1>4, WaiterStep
  <1>5. CASE UNCHANGED rtvars
    BY <1>5 DEF RtInv, RtTypeOK, PendingIsListed, Listed, TakeFindsWork, NoLostWakeup, ClassInv,
       DrainInv, StopInv, ExitInv, rtvars, queue, worker
  <1> QED  BY <1>1, <1>2, <1>3, <1>4, <1>5 DEF RtNext

\* The invariant that carries the theorems below.
LEMMA RtInductive == RtSpec => []RtInv
  BY InitRtInv, NextRtInv, PTL DEF RtSpec

\* Every variable of the queue keeps its type; in particular loop_count stays
\* below RT_MAX_LOOP_COUNT whatever that is.
THEOREM RtTypeCorrect == RtSpec => []RtTypeOK
  <1>1. RtInv => RtTypeOK  BY DEF RtInv
  <1> QED  BY <1>1, RtInductive, PTL

\* A work is listed once, exactly while its PENDING bit is set, so the
\* SHN_BUG_ON of shannon_rt_queue_work cannot fire.
THEOREM ListedOnce == RtSpec => []PendingIsListed
  <1>1. RtInv => PendingIsListed  BY DEF RtInv
  <1> QED  BY <1>1, RtInductive, PTL

\* The entry seen by the unlocked test of rt_thread_fn is there when it is
\* taken under the lock.
THEOREM TakeIsSafe == RtSpec => []TakeFindsWork
  <1>1. RtInv => TakeFindsWork  BY DEF RtInv
  <1> QED  BY <1>1, RtInductive, PTL

\* The worker sleeps on a non-empty list only while a caller of
\* shannon_rt_queue_work is still about to wake it.
THEOREM WakeupsAreKept == RtSpec => []NoLostWakeup
  <1>1. RtInv => NoLostWakeup  BY DEF RtInv
  <1> QED  BY <1>1, RtInductive, PTL

\* Outside the inner loop the worker is in the real-time class.
THEOREM IdleIsRealTime == RtSpec => []IdleWorkerIsRt
  <1>1. RtInv => IdleWorkerIsRt  BY DEF RtInv, ClassInv, RtPoints, IdleWorkerIsRt
  <1> QED  BY <1>1, RtInductive, PTL

\* The worker exits only with an empty list: the destroyer's flush saw it
\* empty, and later only the running function can have filled it.
THEOREM ExitsDrained == RtSpec => []ExitDrained
  <1>1. RtInv => ExitDrained
    BY DEF RtInv, DrainInv, StopInv, ExitInv, BusyPoints, ExitDrained
  <1> QED  BY <1>1, RtInductive, PTL

=============================================================================
