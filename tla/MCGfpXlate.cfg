SPECIFICATION Spec
CONSTANTS
  Users = {c1, c2}
  PoolMin = 1
  Modern <- MCModern
  CoreAsks <- MCCoreAsks
  SlabKernels <- MCSlabKernels
  SlabAsks <- MCSlabAsks
INVARIANTS IntentKept PoolPromise SlabIntentKept
