------------------------------- MODULE RwLock -------------------------------
(***************************************************************************)
(* What the lock of one memblock of the LPMT map table promises its users: *)
(* any number of simultaneous holders, one of which may upgrade to         *)
(* exclusive while it is alone and later downgrades again.  SmbLock is the *)
(* counter that implements it.                                             *)
(***************************************************************************)
CONSTANT Threads    \* the execution contexts that take the lock

VARIABLES readers,  \* the contexts that hold the lock simultaneously
          writer    \* {} or the one holder that has upgraded to exclusive

Init == readers = {} /\ writer = {}

AcquireShared(t) ==
  /\ t \notin readers
  /\ writer = {}
  /\ readers' = readers \cup {t}
  /\ UNCHANGED writer

ReleaseShared(t) ==
  /\ t \in readers \ writer
  /\ readers' = readers \ {t}
  /\ UNCHANGED writer

Upgrade(t) ==
  /\ readers = {t}
  /\ writer = {}
  /\ writer' = {t}
  /\ UNCHANGED readers

Downgrade(t) ==
  /\ writer = {t}
  /\ writer' = {}
  /\ UNCHANGED readers

Next == \E t \in Threads :
          AcquireShared(t) \/ ReleaseShared(t) \/ Upgrade(t) \/ Downgrade(t)

Spec == Init /\ [][Next]_<<readers, writer>>
=============================================================================
