SPECIFICATION Spec
CONSTANTS
  Waiters = {w1, w2, w3}
  Interruptible = {w3}
  Wakers = {k1, k2}
  Testers = {k2}
  Head = head
INVARIANTS ListSound DescriptorsAlive WokenInTime
