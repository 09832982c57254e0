------------------------------ MODULE GfpXlate ------------------------------
(***************************************************************************)
(* The translation of allocation flags in shannon_gfp_legacy.h and the     *)
(* wrappers of shannon_kcore.c that use it.  The shipped core passes flags *)
(* in the encoding of an old kernel, the open wrappers pass this kernel's, *)
(* and shannon_gfp_xlate has only the value to tell them apart.  A flag    *)
(* word is the set of its bits.  Users take elements from one mempool,     *)
(* as alloc_sbio does, and the core creates slab caches.                   *)
(***************************************************************************)
EXTENDS Integers, FiniteSets

CONSTANTS
  Users,      \* concurrent users of the pool
  PoolMin,    \* elements the pool keeps in reserve
  Modern,     \* this kernel's bit for each __GFP_ name
  CoreAsks,   \* the flag sets the core passes, by legacy name
  SlabKernels,\* encodings of the SLAB_ names; a name not defined is left out
  SlabAsks    \* the flag sets the core creates caches with, by legacy name

LegacyBit == [DMA |-> 0, HIGHMEM |-> 1, DMA32 |-> 2, MOVABLE |-> 3,
  WAIT |-> 4, HIGH |-> 5, IO |-> 6, FS |-> 7, COLD |-> 8, NOWARN |-> 9,
  REPEAT |-> 10, NOFAIL |-> 11, NORETRY |-> 12, NO_GROW |-> 13,
  COMP |-> 14, ZERO |-> 15]

ZoneMask == 0 .. 3
AllMask  == 0 .. 15

ModernNames == {"DMA", "HIGHMEM", "DMA32", "MOVABLE", "HIGH", "IO", "FS",
  "ZERO", "DIRECT_RECLAIM", "KSWAPD_RECLAIM", "NOWARN", "RETRY_MAYFAIL",
  "NOFAIL", "NORETRY", "COMP"}

__GFP_RECLAIM == {"DIRECT_RECLAIM", "KSWAPD_RECLAIM"}
GFP_ATOMIC    == {"HIGH", "KSWAPD_RECLAIM"}

\* What the open wrappers pass: GFP_KERNEL, GFP_NOIO (GFP_SHANNON), GFP_NOFS,
\* GFP_ATOMIC and GFP_NOWAIT.
NativeAsks == {__GFP_RECLAIM \cup {"IO", "FS"}, __GFP_RECLAIM,
               __GFP_RECLAIM \cup {"IO"}, GFP_ATOMIC,
               {"KSWAPD_RECLAIM", "NOWARN"}}

LegacyWord(names) == {LegacyBit[n] : n \in names}
ModernWord(names) == {Modern[n] : n \in names}

\* The zone bits have never moved, no two names share a bit, and no flag set
\* of the core has a bit that this kernel reads as a reclaim bit.
ASSUME GfpAssumption ==
  /\ PoolMin \in Nat \ {0}
  /\ Modern \in [ModernNames -> 0 .. 31]
  /\ \A m, n \in ModernNames : Modern[m] = Modern[n] => m = n
  /\ \A z \in {"DMA", "HIGHMEM", "DMA32", "MOVABLE"} :
       Modern[z] = LegacyBit[z]
  /\ CoreAsks \subseteq (SUBSET DOMAIN LegacyBit) \ {{}}
  /\ \A a \in CoreAsks :
       LegacyWord(a) \cap ModernWord(__GFP_RECLAIM) = {}

-----------------------------------------------------------------------------
\* What each legacy flag outside the zone mask is decoded to.
Becomes == [
  WAIT    |-> __GFP_RECLAIM,     HIGH    |-> GFP_ATOMIC,
  IO      |-> {"IO"},            FS      |-> {"FS"},
  NOWARN  |-> {"NOWARN"},        REPEAT  |-> {"RETRY_MAYFAIL"},
  NOFAIL  |-> {"NOFAIL"},        NORETRY |-> {"NORETRY"},
  COMP    |-> {"COMP"},          ZERO    |-> {"ZERO"},
  COLD    |-> {},                NO_GROW |-> {}]

DecodeNoKswapd(legacy) ==
  (legacy \cap ZoneMask) \cup
  UNION {ModernWord(Becomes[n]) :
           n \in {m \in DOMAIN Becomes : LegacyBit[m] \in legacy}}

shannon_gfp_decode_legacy(legacy) ==
  LET g == DecodeNoKswapd(legacy) IN
  IF g \cap ModernWord(__GFP_RECLAIM) = {}
  THEN g \cup {Modern["KSWAPD_RECLAIM"]}
  ELSE g

\* Mutant: the test for a reclaim bit is left out.
IsLegacyNoReclaimTest(v) == v # {} /\ v \subseteq AllMask

shannon_gfp_is_legacy(v) ==
  /\ v # {}
  /\ v \subseteq AllMask
  /\ v \cap ModernWord(__GFP_RECLAIM) = {}

\* Mutant: the value is forwarded as it came.
XlateVerbatim(v) == v

shannon_gfp_xlate(v) ==
  IF shannon_gfp_is_legacy(v) THEN shannon_gfp_decode_legacy(v) ELSE v

-----------------------------------------------------------------------------
LegacySlabBit == [DEBUG_FREE |-> 8, DEBUG_INITIAL |-> 9, RED_ZONE |-> 10,
  POISON |-> 11, HWCACHE_ALIGN |-> 13, CACHE_DMA |-> 14,
  MUST_HWCACHE_ALIGN |-> 15, STORE_USER |-> 16, RECLAIM_ACCOUNT |-> 17,
  PANIC |-> 18, DESTROY_BY_RCU |-> 19, MEM_SPREAD |-> 20]

KnownMask == {LegacySlabBit[n] : n \in DOMAIN LegacySlabBit}
NovelBit  == 31  \* a bit the vendor's slab.h did not have

\* Legacy flags that shannon_slab_flags_xlate has a line for, with the name
\* of the flag this kernel has for it.
SlabBecomes == [HWCACHE_ALIGN |-> "HWCACHE_ALIGN",
  DEBUG_FREE |-> "CONSISTENCY_CHECKS", RED_ZONE |-> "RED_ZONE",
  POISON |-> "POISON", CACHE_DMA |-> "CACHE_DMA",
  STORE_USER |-> "STORE_USER", PANIC |-> "PANIC",
  DESTROY_BY_RCU |-> "TYPESAFE_BY_RCU",
  RECLAIM_ACCOUNT |-> "RECLAIM_ACCOUNT"]

\* An encoding gives the names of the table that the kernel defines a bit each;
\* SLAB_HWCACHE_ALIGN always has one, and the nine moved all at once (v6.9).
ASSUME SlabAssumption ==
  /\ SlabAsks \subseteq SUBSET DOMAIN LegacySlabBit
  /\ \A k \in SlabKernels :
       /\ DOMAIN k \subseteq {SlabBecomes[n] : n \in DOMAIN SlabBecomes}
       /\ "HWCACHE_ALIGN" \in DOMAIN k
       /\ \A n \in DOMAIN k : k[n] \in 0 .. NovelBit - 1
       /\ \A m, n \in DOMAIN k : k[m] = k[n] => m = n
       /\ k["HWCACHE_ALIGN"] = LegacySlabBit["HWCACHE_ALIGN"] =>
            \A n \in DOMAIN SlabBecomes : SlabBecomes[n] \in DOMAIN k =>
                k[SlabBecomes[n]] = LegacySlabBit[n]

shannon_slab_flags_native(k) ==
  k["HWCACHE_ALIGN"] = LegacySlabBit["HWCACHE_ALIGN"]

\* Mutant: the flags are taken for native on every kernel.
SlabVerbatim(k, legacy) == legacy

shannon_slab_flags_xlate(k, legacy) ==
  IF shannon_slab_flags_native(k)
  THEN legacy
  ELSE {k[SlabBecomes[n]] :
          n \in {m \in DOMAIN SlabBecomes :
                   /\ SlabBecomes[m] \in DOMAIN k
                   /\ LegacySlabBit[m] \in legacy}}

shannon_slab_flags_unknown(k, legacy) ==
  IF shannon_slab_flags_native(k) THEN {} ELSE legacy \ KnownMask

-----------------------------------------------------------------------------
VARIABLES
  pc,     \* where each caller is
  asked,  \* what it asks for: [by |-> "core" or "open", names |-> flag names]
  gfp,    \* the word it passes, then the word mempool_alloc gets
  pool,   \* elements in the pool
  kernel, \* the slab encoding of the running kernel
  cache   \* what the last kmem_cache_create was asked and given

mempool == <<pc, asked, gfp, pool>>
vars    == <<mempool, kernel, cache>>

Asks == [by : {"core"}, names : CoreAsks] \cup
        [by : {"open"}, names : NativeAsks]

GfpWord(a) == IF a.by = "core" THEN LegacyWord(a.names) ELSE ModernWord(a.names)

NoAsk   == [by |-> "open", names |-> {}]
NoCache == [asked |-> {}, novel |-> {}, flags |-> {}, warned |-> {}]

Init ==
  /\ pc = [c \in Users |-> "idle"]
  /\ asked = [c \in Users |-> NoAsk]
  /\ gfp = [c \in Users |-> {}]
  /\ pool = PoolMin
  /\ kernel \in SlabKernels
  /\ cache = NoCache

\* alloc_sbio(gfp), from the core or from an open wrapper.
AskFor(c, a) ==
  /\ pc[c] = "idle"
  /\ pc' = [pc EXCEPT ![c] = "asked"]
  /\ asked' = [asked EXCEPT ![c] = a]
  /\ gfp' = [gfp EXCEPT ![c] = GfpWord(a)]
  /\ UNCHANGED <<pool, kernel, cache>>

\* The wrapper translates and calls mempool_alloc.
shannon_mempool_alloc(c) ==
  /\ pc[c] = "asked"
  /\ pc' = [pc EXCEPT ![c] = "alloc"]
  /\ gfp' = [gfp EXCEPT ![c] = shannon_gfp_xlate(gfp[c])]
  /\ UNCHANGED <<asked, pool, kernel, cache>>
MaySleep(w) == Modern["DIRECT_RECLAIM"] \in w

\* mempool_alloc of the kernel: the allocator, then the pool, then sleep for
\* a refill if the flags allow it, else NULL.  A sleeper tries again.
mempool_alloc(c) ==
  /\ pc[c] \in {"alloc", "waiting"}
  /\ \/ pc' = [pc EXCEPT ![c] = "has"] /\ UNCHANGED pool
     \/ /\ pool > 0
        /\ pool' = pool - 1
        /\ pc' = [pc EXCEPT ![c] = "has"]
     \/ /\ pool = 0
        /\ pc' = [pc EXCEPT ![c] =
                    IF MaySleep(gfp[c]) THEN "waiting" ELSE "null"]
        /\ UNCHANGED pool
  /\ UNCHANGED <<asked, gfp, kernel, cache>>

\* The caller is done with its element, or with its failure.
Return(c) ==
  /\ pc' = [pc EXCEPT ![c] = "idle"]
  /\ asked' = [asked EXCEPT ![c] = NoAsk]
  /\ gfp' = [gfp EXCEPT ![c] = {}]

\* mempool_free: the pool is refilled before memory goes back.
shannon_mempool_free(c) ==
  /\ pc[c] = "has"
  /\ Return(c)
  /\ pool' = IF pool < PoolMin THEN pool + 1 ELSE pool
  /\ UNCHANGED <<kernel, cache>>

\* The caller of a failed allocation gives up.
GiveUp(c) ==
  /\ pc[c] = "null"
  /\ Return(c)
  /\ UNCHANGED <<pool, kernel, cache>>

shannon_kmem_cache_create(names, novel) ==
  LET flags == {LegacySlabBit[n] : n \in names} \cup novel IN
  /\ cache' = [asked  |-> names, novel |-> novel,
               warned |-> shannon_slab_flags_unknown(kernel, flags),
               flags  |-> shannon_slab_flags_xlate(kernel, flags)]
  /\ UNCHANGED <<mempool, kernel>>

Next ==
  \/ \E c \in Users :
       \/ \E a \in Asks : AskFor(c, a)
       \/ shannon_mempool_alloc(c) \/ mempool_alloc(c)
       \/ shannon_mempool_free(c) \/ GiveUp(c)
  \/ \E names \in SlabAsks, novel \in SUBSET {NovelBit} :
       shannon_kmem_cache_create(names, novel)

Spec == Init /\ [][Next]_vars

-----------------------------------------------------------------------------
\* What a flag set asks of the allocator, in its own kernel's terms.  In the
\* old kernel __GFP_WAIT was the permission to sleep and __GFP_HIGH the whole
\* of GFP_ATOMIC; __GFP_COLD and __GFP_NO_GROW were hints.
Same == {"DMA", "HIGHMEM", "DMA32", "MOVABLE", "HIGH", "IO", "FS", "NOWARN",
         "NOFAIL", "NORETRY", "COMP", "ZERO"}

Wanted(a) ==
  (a.names \cap Same) \cup
  IF a.by = "core"
  THEN {m \in {"sleep", "retry"} :
          \/ m = "sleep" /\ "WAIT" \in a.names
          \/ m = "retry" /\ "REPEAT" \in a.names}
  ELSE {m \in {"sleep", "retry"} :
          \/ m = "sleep" /\ "DIRECT_RECLAIM" \in a.names
          \/ m = "retry" /\ "RETRY_MAYFAIL" \in a.names}

\* What the running kernel reads in a word.
Read(w) ==
  {n \in Same : Modern[n] \in w} \cup
  {m \in {"sleep", "retry"} :
     \/ m = "sleep" /\ Modern["DIRECT_RECLAIM"] \in w
     \/ m = "retry" /\ Modern["RETRY_MAYFAIL"] \in w}

Translated == {"alloc", "waiting", "has", "null"}

\* Whichever side called the wrapper, this kernel's allocator reads in the
\* translated word just what the caller asked for, nothing gained (a sleep in
\* atomic context, __GFP_NOFAIL) and nothing lost, though the two encodings
\* give the same bits to different flags.
IntentKept ==
  \A c \in Users :
    pc[c] \in Translated => Read(gfp[c]) = Wanted(asked[c])

\* Every allocation can at least wake the background reclaim: none is left
\* in a state where it can only fail under memory pressure.
CanReclaim ==
  \A c \in Users :
    pc[c] \in Translated => Modern["KSWAPD_RECLAIM"] \in gfp[c]

\* The reserve of the pool is a promise to those who may sleep: NULL is only
\* returned to a caller that asked not to sleep, and only a caller that asked
\* for it sleeps (the comment in shannon_mempool_alloc).
PoolPromise ==
  \A c \in Users :
    /\ pc[c] = "null" => "sleep" \notin Wanted(asked[c])
    /\ pc[c] = "waiting" => "sleep" \in Wanted(asked[c])

\* A cache has, in this kernel's terms, every flag the core created it with
\* that this kernel has a name for, and no other, whichever of the two slab
\* encodings the kernel has; and a bit the table does not know is passed on or
\* reported, never dropped in silence.
SlabIntentKept ==
  /\ cache.novel \subseteq cache.flags \cup cache.warned
  /\ {n \in DOMAIN kernel : kernel[n] \in cache.flags} =
     {SlabBecomes[n] : n \in {m \in cache.asked \cap DOMAIN SlabBecomes :
                                SlabBecomes[m] \in DOMAIN kernel}}
=============================================================================
