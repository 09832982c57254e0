----------------------------- MODULE MCGfpXlate -----------------------------
(***************************************************************************)
(* GfpXlate with the encodings of Linux 6.8 and 6.9.                       *)
(***************************************************************************)
EXTENDS GfpXlate

MCModern == [DMA |-> 0, HIGHMEM |-> 1, DMA32 |-> 2, MOVABLE |-> 3,
  HIGH |-> 5, IO |-> 6, FS |-> 7, ZERO |-> 8, DIRECT_RECLAIM |-> 10,
  KSWAPD_RECLAIM |-> 11, NOWARN |-> 13, RETRY_MAYFAIL |-> 14, NOFAIL |-> 15,
  NORETRY |-> 16, COMP |-> 18]

\* The three words of the shipped objects (0x10, 0x220, 0x200), the other
\* composites of the old gfp.h, and each flag that another one's bit now has.
MCCoreAsks == {{"WAIT"}, {"HIGH", "NOWARN"}, {"NOWARN"}, {"HIGH"},
  {"WAIT", "IO"}, {"WAIT", "IO", "FS"}, {"WAIT", "DMA", "COLD"},
  {"NO_GROW"}, {"COMP", "ZERO"}, {"WAIT", "NORETRY", "COMP", "ZERO"}}

Slab68 == [CONSISTENCY_CHECKS |-> 8, RED_ZONE |-> 10, POISON |-> 11,
  HWCACHE_ALIGN |-> 13, CACHE_DMA |-> 14, STORE_USER |-> 16,
  RECLAIM_ACCOUNT |-> 17, PANIC |-> 18, TYPESAFE_BY_RCU |-> 19]

\* 6.9 without CONFIG_SLUB_DEBUG.
Slab69 == [HWCACHE_ALIGN |-> 4, CACHE_DMA |-> 5, PANIC |-> 8,
  TYPESAFE_BY_RCU |-> 9]

MCSlabKernels == {Slab68, Slab69}
MCSlabAsks == {{"HWCACHE_ALIGN"}, {"DEBUG_FREE", "PANIC"}, {"MEM_SPREAD"}}

=============================================================================
