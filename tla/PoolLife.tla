------------------------------ MODULE PoolLife ------------------------------
(***************************************************************************)
(* The control file and the sysfs directory of a storage pool, against the *)
(* arrival and removal of pools: shannon_pool_miscdevice_open and _release *)
(* (shannon_module_init.c), shannon_sysfs_init_pool, _exit_pool and the    *)
(* attribute handlers (shannon_sysfs.c).  The core creates a pool for its  *)
(* first card and takes it apart with its last one; cards come and go one  *)
(* after the other, files are opened and attributes read at any time.      *)
(***************************************************************************)
EXTENDS Naturals, Sequences, FiniteSets

CONSTANTS Pools, Files, NoPool

ASSUME PoolAssumption ==
  NoPool \notin Pools /\ IsFiniteSet(Files) /\ "free" \notin Files

VARIABLE pl

\* A pool is a step of its life (absent, made, listed, unlisted, bare, kept by its
\* files, broken, gone) with its reference count, whether its miscdevice is registered or
\* failed to, where its sysfs directory is, and how many attribute handlers run on it.
NewPool == [at |-> "absent", refs |-> 0, misc |-> "off", dir |-> "none", attr |-> 0]

\* list is shannon_pool_list, mtx the kernel's misc_mtx (the file that holds
\* it), bad the pools used when gone, late those of which an open only read
\* the minor when gone.  A file keeps what open() has in c and in spool.
PoolStart ==
  [pool |-> [p \in Pools |-> NewPool], list |-> <<>>, mtx |-> "free",
   file |-> [f \in Files |-> [pc |-> "closed", minor |-> NoPool,
                              c |-> NoPool, spool |-> NoPool]],
   bad |-> {}, late |-> {}]

PoolInit == pl = PoolStart

\* Touching the memory of a pool.
Reach(p) == IF p \in Pools /\ pl.pool[p].at = "gone" THEN {p} ELSE {}
SetPool(p, r) == [pl EXCEPT !.pool[p] = r]
PoolAt(p) == pl.pool[p].at

\* put_refcount(&refcount, free_spool)
Put(r) == [r EXCEPT !.refs = @ - 1, !.at = IF r.refs = 1 THEN "gone" ELSE @]

\* Cards are probed and removed one at a time.
NobodyElseIn(p) ==
  \A q \in Pools \ {p} :
    PoolAt(q) \in {"absent", "listed", "gone", "kept", "broken"}

\* misc_register leaves the new device in this_device; without a free minor it
\* leaves the NULL of pool_miscdevice_init, without a device an error pointer.
shannon_create_miscdevice(this_device) ==
  IF this_device = "device" THEN "on" ELSE "failed"

\* The directory "shannon" below the device, or at the root of sysfs when the
\* parent is NULL, where there is one of that name only.  It may not be added.
shannon_sysfs_init_pool(this_device, ok) ==
  CASE this_device = "device" /\ ok -> "misc"
    [] this_device = "NULL" /\ ok /\ (\A q \in Pools : pl.pool[q].dir # "root") -> "root"
    [] OTHER -> "none"

\* Core: alloc_pool.  One reference, the miscdevice (which needs misc_mtx and
\* may fail, which is not tested) and the directory, whose failure is only
\* told.  An error pointer for a parent is an oops that ends the probe.
MakePool(p, this_device, ok) ==
  /\ PoolAt(p) = "absent" /\ NobodyElseIn(p) /\ pl.mtx = "free"
  /\ pl' = SetPool(p, [at |-> IF this_device = "ERR_PTR" THEN "broken" ELSE "made",
                       refs |-> 1, misc |-> shannon_create_miscdevice(this_device),
                       dir |-> shannon_sysfs_init_pool(this_device, ok), attr |-> 0])

\* Core: find_pool_for_sdev lists the new pool, without pool_sem.
ListPool(p) ==
  /\ PoolAt(p) = "made"
  /\ pl' = [SetPool(p, [pl.pool[p] EXCEPT !.at = "listed"]) EXCEPT
              !.list = Append(@, p)]

\* What list_del of the ith entry leaves.
Unlinked(s, i) == [j \in 1 .. Len(s) - 1 |-> IF j < i THEN s[j] ELSE s[j + 1]]

\* Core: release_pool_struct unlists the pool under pool_sem.
UnlistPool(p) ==
  /\ PoolAt(p) = "listed" /\ NobodyElseIn(p)
  /\ \E i \in 1..Len(pl.list) :
       /\ pl.list[i] = p
       /\ pl' = [SetPool(p, [pl.pool[p] EXCEPT !.at = "unlisted"]) EXCEPT
                   !.list = Unlinked(@, i)]

\* kobject_del waits for the handlers that run on the attributes.
shannon_sysfs_exit_pool(p) ==
  /\ PoolAt(p) = "unlisted" /\ pl.pool[p].attr = 0
  /\ pl' = SetPool(p, [pl.pool[p] EXCEPT !.at = "bare", !.dir = "none"])

\* misc_deregister takes misc_mtx and unlinks the miscdevice; one that is not
\* linked is only warned of, before the mutex.
shannon_destroy_miscdevice(r) == [r EXCEPT !.misc = IF @ = "on" THEN "off" ELSE @]

\* Core: the pool's own reference is given back after the miscdevice.
Destroyed(r) ==
  [Put(shannon_destroy_miscdevice(r)) EXCEPT !.at = IF r.refs = 1 THEN "gone" ELSE "kept"]

DestroyPool(p) ==
  /\ PoolAt(p) = "bare"
  /\ pl.pool[p].misc = "on" => pl.mtx = "free"
  /\ pl' = SetPool(p, Destroyed(pl.pool[p]))

\* Kernel: misc_open finds the registered device and calls its open with
\* misc_mtx held.
MiscOpen(f, p) ==
  /\ pl.file[f].pc = "closed" /\ pl.mtx = "free" /\ pl.pool[p].misc = "on"
  /\ pl' = [pl EXCEPT !.mtx = f,
                      !.file[f] = [pc |-> "scan", minor |-> p, c |-> NoPool, spool |-> NoPool]]

\* Mutant: the file uses the pool without a reference of its own.
OpenScanBare(f) ==
  /\ pl.file[f].pc = "scan"
  /\ LET p == pl.file[f].minor
         found == \E i \in 1..Len(pl.list) : pl.list[i] = p
         c == IF found THEN p ELSE IF pl.list = <<>> THEN NoPool ELSE pl.list[Len(pl.list)]
     IN pl' = [pl EXCEPT !.file[f] = [pc |-> "test", minor |-> p, c |-> c,
                                      spool |-> IF found THEN p ELSE NoPool]]

\* shannon_pool_miscdevice_open under pool_sem: c ends at the pool with the
\* minor, which gets a reference, or else at the last one of the list.
OpenScan(f) ==
  /\ pl.file[f].pc = "scan"
  /\ LET p == pl.file[f].minor
         found == \E i \in 1..Len(pl.list) : pl.list[i] = p
         c == IF found THEN p ELSE IF pl.list = <<>> THEN NoPool ELSE pl.list[Len(pl.list)]
     IN pl' = [pl EXCEPT !.file[f] = [pc |-> "test", minor |-> p, c |-> c,
                                      spool |-> IF found THEN p ELSE NoPool],
                         !.pool[p].refs = IF found THEN @ + 1 ELSE @]

\* After pool_sem: c->minor is read again, and misc_open drops misc_mtx.
OpenTest(f) ==
  /\ pl.file[f].pc = "test"
  /\ pl' = [pl EXCEPT !.mtx = "free", !.late = @ \cup Reach(pl.file[f].c),
              !.file[f].pc = IF pl.file[f].c = pl.file[f].minor THEN "open" ELSE "closed"]

shannon_pool_miscdevice_release(f) ==
  /\ pl.file[f].pc = "open"
  /\ LET p == pl.file[f].spool
     IN pl' = [pl EXCEPT !.bad = @ \cup Reach(p), !.pool[p] = Put(@),
                 !.file[f] = [pc |-> "closed", minor |-> NoPool,
                              c |-> NoPool, spool |-> NoPool]]

\* shannon_show_pool and shannon_store_pool run while the directory exists.
AttrBegin(p) ==
  /\ pl.pool[p].dir # "none" /\ pl.pool[p].attr = 0
  /\ pl' = [pl EXCEPT !.pool[p].attr = 1]

AttrEnd(p) ==
  /\ pl.pool[p].attr = 1
  /\ pl' = [pl EXCEPT !.pool[p].attr = 0, !.bad = @ \cup Reach(p)]

PoolNext ==
  \/ \E p \in Pools :
       \/ \E this_device \in {"device", "NULL", "ERR_PTR"}, ok \in BOOLEAN :
            MakePool(p, this_device, ok)
       \/ ListPool(p) \/ UnlistPool(p) \/ shannon_sysfs_exit_pool(p) \/ DestroyPool(p)
       \/ AttrBegin(p) \/ AttrEnd(p)
       \/ \E f \in Files : MiscOpen(f, p)
  \/ \E f \in Files :
       \/ OpenScan(f) \/ OpenTest(f) \/ shannon_pool_miscdevice_release(f)
-----------------------------------------------------------------------------
OpenOn(p) == {f \in Files : pl.file[f].pc = "open" /\ pl.file[f].spool = p}
Holding(p) == {f \in Files : pl.file[f].pc \in {"test", "open"} /\ pl.file[f].spool = p}

\* Nobody uses a pool that has been freed: no release, no handler; and not
\* even the open that reads c->minor of some other pool after it let go of
\* pool_sem, unless that pool had failed to register its miscdevice, so that
\* its removal did not wait for the open.  The references of a pool are its
\* own and one per file open on it, and a pool is freed as soon as it is taken
\* apart and the last file on it is closed.
PoolOutlivesFiles ==
  /\ pl.bad = {}
  /\ \A p \in pl.late : pl.pool[p].misc = "failed"
  /\ \A p \in Pools :
       LET own == IF PoolAt(p) \in {"made", "listed", "unlisted", "bare", "broken"} THEN 1 ELSE 0
       IN /\ pl.pool[p].refs = own + Cardinality(Holding(p))
          /\ OpenOn(p) # {} => PoolAt(p) # "gone"
          /\ PoolAt(p) = "kept" => OpenOn(p) # {}
=============================================================================
