---------------------------- MODULE DriverLifeInv ---------------------------
(***************************************************************************)
(* What DriverLifeProofs rests on.  First lemmas about records related as  *)
(* DeviceRecord says: every handler of DriverLife keeps the invariant of   *)
(* its own device, and so does what the others do.  Then what each         *)
(* operation on the record of a device leaves in it, field by field:       *)
(* lemmas about the operators of DiskLife, SysfsTree and DriverLife, where *)
(* the fields come in groups that most operations leave alone together.    *)
(* Last the invariant of the module and of its devices, what it implies,   *)
(* and the kinds of step that keep it.                                     *)
(***************************************************************************)
EXTENDS DriverLife, DeviceRecord, TLAPS

-----------------------------------------------------------------------------
(* Steps of one device. *)

\* An excuse stays one.
LEMMA ExcuseLater ==
  ASSUME NEW e, NEW g, Later(e, g), NEW f, Excuse(f, e)
  PROVE  Excuse(f, g)
  BY DEF Later, Excuse

\* What may be lost may still be lost later.
LEMMA MayGoLater ==
  ASSUME NEW e, NEW g, Later(e, g), NEW x, MayGo(x, e)
  PROVE  MayGo(x, g)
  BY DEF Later, MayGo

\* A step that complains of at most F and loses at most L.
LEMMA ExcusedLater ==
  ASSUME NEW e, NEW g, Later(e, g), NEW s, NEW t, Excused(s, e), NEW F, NEW L,
         t.faults \subseteq s.faults \cup F, t.lost \subseteq s.lost \cup L,
         \A f \in F : Excuse(f, g), \A x \in L : MayGo(x, g)
  PROVE  Excused(t, g)
  BY ExcuseLater, MayGoLater DEF Excused

\* A record with no new fault or loss stays excused.
LEMMA ExcusedSame ==
  ASSUME NEW e, NEW g, Later(e, g), NEW s, NEW t, Excused(s, e),
         t.faults = s.faults, t.lost = s.lost
  PROVE  Excused(t, g)
  BY ExcuseLater, MayGoLater DEF Excused

\* The invariant of a device survives steps of the others.
LEMMA OtherDevice ==
  ASSUME NEW e, NEW g, Later(e, g), NEW s, NEW p, DevInv(s, p, e)
  PROVE  DevInv(s, p, g)
<1> USE DEF DevInv
<1>1. At(s, p, g)  BY DEF At, Later
<1>2. Excused(s, g)  BY ExcusedSame
<1>3. Steady(s, p, g)  BY DEF Steady, Later
<1>4. Waiting(s, p, g)  BY MayGoLater DEF Waiting
<1>5. Hosted(s, p, g)  BY ExcuseLater DEF Hosted, Later
<1>6. Whole(s, p, g)  BY DEF Whole, Later
<1> QED  BY <1>1, <1>2, <1>3, <1>4, <1>5, <1>6

\* So does what its holders rely on.
LEMMA OtherHeld ==
  ASSUME NEW e, NEW g, Later(e, g), NEW s, NEW p, NEW m, NEW o, Held(s, p, e, m, o)
  PROVE  Held(s, p, g, m, o)
  BY ExcuseLater DEF Held

\* It survives a parameter that is written.
LEMMA WrittenDevice ==
  ASSUME NEW e, NEW g, Written(e, g), NEW s, NEW p, DevInv(s, p, e)
  PROVE  DevInv(s, p, g)
<1>1. /\ "params" \in g.causes /\ e.causes \subseteq g.causes /\ (g.auto <=> e.auto)
      /\ \/ g.scsi <=> e.scsi
         \/ /\ "mode" \in g.causes /\ (g.scsi <=> ~e.scsi)
            /\ "mode" \in e.causes => "back" \in g.causes
  BY DEF Written
<1> USE DEF DevInv
<1>2. At(s, p, g)  BY <1>1 DEF At
<1>3. \A f \in s.faults : Excuse(f, g)  BY <1>1 DEF Excused, Excuse
<1>4. \A x \in s.lost : MayGo(x, g)  BY <1>1 DEF Excused, MayGo
<1>5. Steady(s, p, g)  BY <1>1 DEF Steady
<1>6. Waiting(s, p, g)  BY <1>1 DEF Waiting, MayGo
<1>7. Hosted(s, p, g)  BY <1>1 DEF Hosted, Excuse
<1>8. Whole(s, p, g)  BY <1>1 DEF Whole, Hosted
<1> QED  BY <1>2, <1>3, <1>4, <1>5, <1>6, <1>7, <1>8 DEF Excused

\* So does what its holders rely on.
LEMMA WrittenHeld ==
  ASSUME NEW e, NEW g, Written(e, g), NEW s, NEW p, NEW m, NEW o, Held(s, p, e, m, o)
  PROVE  Held(s, p, g, m, o)
  BY DEF Held, Written, Excuse
-----------------------------------------------------------------------------
(* The probe. *)

\* A fault that has its excuse.
LEMMA FaultStep ==
  ASSUME NEW e, NEW g, Later(e, g), NEW s, NEW p, NEW r \in {p, "dead"}, DevInv(s, p, e),
         NEW f, Excuse(f, g), NEW t, Faulted(s, f, t)
  PROVE  DevInv(t, r, g)
<1>1. /\ t \in Devices /\ SameOwner(s, t) /\ SameQueue(s, t) /\ SameDisk(s, t) /\ SameTree(s, t)
      /\ t.state = s.state /\ t.lost = s.lost /\ t.faults = s.faults \cup {f}
  BY DEF Faulted
<1>2. DevInv(s, p, g)  BY OtherDevice
<1>3. r \in Steps  BY DEF Steps, DevInv
<1>4. Sound(t)  BY <1>1, <1>2 DEF DevInv, Sound, SameOwner, SameQueue, SameDisk, SameTree
<1>5. At(t, r, g)
  BY <1>1, <1>2 DEF DevInv, At, Busy, SameOwner, SameQueue, SameDisk, SameTree
<1>6. Excused(t, g)  BY <1>1, <1>2 DEF DevInv, Excused
<1>7. Steady(t, r, g)
  BY <1>1, <1>2 DEF DevInv, Steady, Busy, SameOwner, SameQueue, SameDisk
<1>8. Waiting(t, r, g)  BY <1>1, <1>2 DEF DevInv, Waiting, SameQueue
<1>9. Hosted(t, r, g)  BY <1>1, <1>2 DEF DevInv, Hosted, SameOwner
<1>10. Whole(t, r, g)
  BY <1>1, <1>2 DEF DevInv, Whole, Early, SameOwner, SameQueue, SameDisk, SameTree
<1> QED  BY <1>1, <1>3, <1>4, <1>5, <1>6, <1>7, <1>8, <1>9, <1>10 DEF DevInv

\* shannon_probe up to its queue.
LEMMA ProbeStep ==
  ASSUME NEW e, NEW g, Later(e, g), NEW s, DevInv(s, "off", e), NEW h, NEW d,
         IF e.scsi THEN h = "alloc" /\ d = "host" ELSE h = "none" /\ d = "sdev",
         NEW t, Started(s, h, d, t)
  PROVE  DevInv(t, "queue", g)
<1>1. /\ t \in Devices /\ SameQueue(s, t) /\ SameDisk(s, t) /\ SameTree(s, t)
      /\ t.state = s.state /\ t.lost = s.lost /\ t.faults = s.faults
      /\ t.alive /\ t.users = 1 /\ t.drvdata = d /\ t.host = h
      /\ t.qos /\ t.misc = s.misc
  BY DEF Started, SameBody
<1>2. Sound(t)  BY <1>1 DEF DevInv, Sound, SameQueue, SameDisk, SameTree
<1>3. At(t, "queue", g)  BY <1>1 DEF At, Busy
<1>4. Excused(t, g)  BY <1>1, ExcusedSame DEF DevInv
<1>5. Steady(t, "queue", g)
  BY <1>1 DEF DevInv, Steady, At, Busy, SameQueue, SameDisk, Later
<1>6. Waiting(t, "queue", g) /\ Hosted(t, "queue", g)  BY <1>1 DEF Waiting, Hosted, Later
<1>7. Whole(t, "queue", g)
  BY <1>1 DEF DevInv, Whole, Early, SameDisk, SameTree, Later
<1>8. "queue" \in Steps  BY DEF Steps, Busy
<1> QED  BY <1>1, <1>2, <1>3, <1>4, <1>5, <1>6, <1>7, <1>8 DEF DevInv

\* shannon_init_blk_queue in a probe.
LEMMA ProbeQueueStep ==
  ASSUME NEW e, NEW g, Later(e, g), NEW s, DevInv(s, "queue", e),
         NEW stop \in {"none", "mqdata", "tagset", "queue"},
         NEW t, Queued(s, e.io, stop, t),
         stop = "none" \/ "probe" \in g.causes \/ t.queue # "none"
  PROVE  DevInv(t, IF t.queue = "none" THEN "undo" ELSE "misc", g)
<1> DEFINE r == IF t.queue = "none" THEN "undo" ELSE "misc"
<1>1. r \in {"undo", "misc"} /\ (r = "undo" => "probe" \in g.causes)
  BY DEF Queued, SameQueue
<1> HIDE DEF r
<1>2. Sound(t)
  BY DEF DevInv, Sound, Queued, SameOwner, SameQueue, SameDisk, SameTree
<1>3. At(t, r, g)  BY <1>1 DEF DevInv, At, Busy, Queued, SameOwner
<1>4. Excused(t, g)  BY ExcusedSame DEF DevInv, Queued
<1>5. Steady(t, r, g)
  BY <1>1 DEF DevInv, Sound, Steady, Whole, Early, Busy, Queued, SameOwner, SameQueue, SameDisk,
              Later
<1>6. Waiting(t, r, g) /\ Hosted(t, r, g)
  BY <1>1 DEF DevInv, Waiting, Hosted, Queued, SameOwner, Later
<1>7. Whole(t, r, g)
  BY <1>1 DEF DevInv, Whole, Early, Queued, SameOwner, SameDisk, SameTree, Later
<1>8. r \in Steps  BY <1>1 DEF Steps, Busy
<1>9. t \in Devices  BY DEF Queued
<1>10. DevInv(t, r, g)  BY <1>2, <1>3, <1>4, <1>5, <1>6, <1>7, <1>8, <1>9 DEF DevInv
<1> QED  BY <1>10 DEF r

\* shannon_create_miscdevice in a probe.
LEMMA ProbeMiscStep ==
  ASSUME NEW e, NEW g, Later(e, g), NEW s, DevInv(s, "misc", e), NEW t, Registered(s, t),
         NEW r \in {"sysfs", "undo"}, r = "undo" => "probe" \in g.causes
  PROVE  DevInv(t, r, g)
<1>1. /\ t \in Devices /\ SameQueue(s, t) /\ SameDisk(s, t) /\ SameTree(s, t)
      /\ t.state = s.state /\ t.lost = s.lost /\ t.faults = s.faults
      /\ t.alive = s.alive /\ t.users = s.users /\ t.drvdata = s.drvdata /\ t.host = s.host
  BY DEF Registered, SameBody
<1>2. Sound(t)  BY <1>1 DEF DevInv, Sound, At, Busy, SameQueue, SameDisk, SameTree
<1>3. At(t, r, g)  BY <1>1 DEF DevInv, At, Busy
<1>4. Excused(t, g)  BY <1>1, ExcusedSame DEF DevInv
<1>5. Steady(t, r, g)  BY <1>1 DEF DevInv, Steady, Busy, SameQueue, SameDisk, Later
<1>6. Waiting(t, r, g) /\ Hosted(t, r, g)  BY <1>1 DEF DevInv, Waiting, Hosted, Later
<1>7. Whole(t, r, g)
  BY <1>1 DEF DevInv, Whole, Early, SameDisk, SameTree, Later
<1>8. r \in Steps  BY DEF Steps, Busy
<1> QED  BY <1>1, <1>2, <1>3, <1>4, <1>5, <1>6, <1>7, <1>8 DEF DevInv

\* The hwmon files and the sysfs objects of a probe.
LEMMA ProbeSysfsStep ==
  ASSUME NEW e, NEW g, Later(e, g), NEW s, DevInv(s, "sysfs", e),
         NEW stop \in {"none", "shannon", "pci_info"}, NEW t, Grown(s, stop, t), NEW r,
         r = IF stop # "none" THEN "undo" ELSE IF e.auto THEN "attach" ELSE "bound",
         stop = "none" \/ "probe" \in g.causes
  PROVE  DevInv(t, r, g)
<1>1. /\ r \in {"undo", "attach", "bound"} /\ (r = "undo" <=> stop # "none")
      /\ (r = "bound" => ~e.auto) /\ (r = "undo" => "probe" \in g.causes)
  OBVIOUS
<1>2. Sound(t)  BY DEF DevInv, Sound, Grown, SameOwner, SameQueue, SameDisk
<1>3. At(t, r, g)  BY <1>1 DEF DevInv, At, Busy, Grown, SameOwner
<1>4. Excused(t, g)  BY ExcusedSame DEF DevInv, Grown
<1>5. Steady(t, r, g)
  BY <1>1 DEF DevInv, Steady, Whole, Early, Busy, Grown, SameOwner, SameQueue, SameDisk, Later
<1>6. Waiting(t, r, g)  BY <1>1 DEF Waiting, MayGo, Later
<1>7. Hosted(t, r, g)  BY <1>1 DEF DevInv, Hosted, Excuse, Grown, SameOwner, Later
<1>8. Whole(t, r, g)
  BY <1>1 DEF DevInv, Whole, Early, Grown, SameOwner, SameDisk, Later
<1>9. r \in Steps  BY <1>1 DEF Steps, Busy
<1>10. t \in Devices  BY DEF Grown
<1> QED  BY <1>2, <1>3, <1>4, <1>5, <1>6, <1>7, <1>8, <1>9, <1>10 DEF DevInv

\* What a cleanup complains of has its excuse, and so has what it loses, but
\* for a disk still in queuedata.
LEMMA CleanFaultsExcused ==
  ASSUME NEW e, NEW s, NEW p, DevInv(s, p, e), NEW h, SameQueue(s, h),
         NEW f \in CleanFaults(h, e.io)
  PROVE  Excuse(f, e)
<1>1. f = "confused" /\ s.queue # "none" /\ e.io /\ s.qdata # "mqdata"
  BY DEF CleanFaults, SameQueue
<1>2. s.queue \in {"none", "bio", "mq"}  BY DEF DevInv, Devices
<1>3. "params" \in e.causes  BY <1>1, <1>2 DEF DevInv, Steady
<1> QED  BY <1>1, <1>3 DEF Excuse

\* What a queue loses when it is cleaned up has a cause.
LEMMA CleanLostExcused ==
  ASSUME NEW e, NEW s, NEW p, DevInv(s, p, e), NEW h, SameQueue(s, h),
         s.qdata = "disk" => MayGo("disk", e), NEW x \in CleanLost(h, e.io)
  PROVE  MayGo(x, e)
<1>1. \/ x = "disk" /\ s.qdata = "disk"
      \/ x = "queue" /\ s.queue = "mq"
      \/ x = "mqdata" /\ s.mem # {} /\ ~(e.io /\ s.qdata = "mqdata")
  BY DEF CleanLost, SameQueue
<1>2. s.queue = "mq" => MayGo("queue", e)  BY DEF DevInv, Steady, MayGo
<1>3. s.mem # {} /\ ~(e.io /\ s.qdata = "mqdata") => MayGo("mqdata", e)
  BY DEF DevInv, Sound, Steady, MayGo
<1> QED  BY <1>1, <1>2, <1>3

\* The error labels of a probe.
LEMMA ProbeUndoStep ==
  ASSUME NEW e, NEW s, Later(e, e), DevInv(s, "undo", e), NEW h, GivenUp(s, h), NEW t,
         NoQueue(h, e.io, t)
  PROVE  DevInv(t, "off", e)
<1>1. Sound(t)  BY DEF DevInv, Sound, GivenUp, NoQueue, SameOwner, SameQueue, SameDisk, SameTree
<1>2. At(t, "off", e)  BY DEF At, Busy, GivenUp, NoQueue, SameOwner, SameTree
<1>3. Excused(t, e)
  <2> DEFINE F == CleanFaults(h, e.io)
             L == {"host"} \cup CleanLost(h, e.io)
  <2>1. \A f \in F : Excuse(f, e)  BY CleanFaultsExcused DEF GivenUp
  <2>2. \A x \in L : MayGo(x, e)
    <3>1. MayGo("host", e) /\ MayGo("disk", e)  BY DEF DevInv, At, MayGo
    <3> QED  BY <3>1, CleanLostExcused DEF GivenUp
  <2>3. t.faults \subseteq s.faults \cup F /\ t.lost \subseteq s.lost \cup L
    BY DEF GivenUp, NoQueue
  <2> HIDE DEF F, L
  <2> QED  BY <2>1, <2>2, <2>3, ExcusedLater DEF DevInv
<1>4. Steady(t, "off", e)
  <2>1. t.queue = "none" /\ t.qdata = "none"
    BY DEF DevInv, Sound, GivenUp, NoQueue, SameQueue
  <2> QED  BY <2>1 DEF DevInv, Steady, Busy, GivenUp, NoQueue, SameDisk
<1>5. Waiting(t, "off", e) /\ Hosted(t, "off", e)
  BY DEF Waiting, Hosted, GivenUp, NoQueue, SameOwner
<1>6. Whole(t, "off", e)
  BY DEF DevInv, Whole, Early, GivenUp, NoQueue, SameOwner, SameDisk, SameTree
<1>7. "off" \in Steps /\ t \in Devices  BY DEF Steps, NoQueue
<1> QED  BY <1>1, <1>2, <1>3, <1>4, <1>5, <1>6, <1>7 DEF DevInv

-----------------------------------------------------------------------------
(* Attach and detach. *)

\* shannon_attach makes the queue that is missing.
LEMMA AttachQueueStep ==
  ASSUME NEW e, NEW s, Later(e, e), DevInv(s, "attach", e), NEW stop, NEW q,
         Queued(s, e.io, stop, q), q.queue # "none" \/ stop = "queue"
  PROVE  DevInv(q, "attach", e)
<1>1. q \in Devices /\ "attach" \in Steps  BY DEF Queued, Steps, Busy
<1>2. Sound(q)
  <2>1. s.queue = "none" /\ q.queue # "none" => stop = "none"  BY DEF Queued
  <2> QED  BY <2>1 DEF DevInv, Sound, Queued, SameOwner, SameQueue, SameDisk, SameTree
<1>3. At(q, "attach", e)  BY DEF DevInv, At, Busy, Queued, SameOwner, SameTree
<1>4. Excused(q, e)  BY ExcusedSame DEF DevInv, Queued
<1>5. Steady(q, "attach", e)
  BY DEF DevInv, Sound, Steady, Whole, Busy, Queued, SameOwner, SameQueue, SameDisk, Later
<1>6. Waiting(q, "attach", e) /\ Hosted(q, "attach", e)
  BY DEF DevInv, Waiting, Hosted, Queued, SameOwner
<1>7. Whole(q, "attach", e)
  BY DEF DevInv, Whole, Early, Queued, SameOwner, SameQueue, SameDisk
<1> QED  BY <1>1, <1>2, <1>3, <1>4, <1>5, <1>6, <1>7 DEF DevInv

\* An attach that ends where it is.
LEMMA AttachEnds ==
  ASSUME NEW e, NEW g, Later(e, g), NEW s, DevInv(s, "attach", e),
         s.qdata = "disk" => MayGo("disk", g),
         s.host = "alloc" /\ g.scsi => Excuse("host_not_added", g)
  PROVE  DevInv(s, "bound", g)
<1>1. DevInv(s, "attach", g)  BY OtherDevice
<1>2. At(s, "bound", g)  BY <1>1 DEF DevInv, At, Busy
<1>3. Steady(s, "bound", g)  BY <1>1 DEF DevInv, Steady, Busy
<1>4. Waiting(s, "bound", g) /\ Hosted(s, "bound", g)
  BY <1>1 DEF DevInv, Waiting, Hosted
<1>5. Whole(s, "bound", g)  BY <1>1 DEF DevInv, Whole, Early
<1> QED  BY <1>1, <1>2, <1>3, <1>4, <1>5 DEF DevInv, Steps, Busy

\* The SCSI host is added.
LEMMA AttachHostStep ==
  ASSUME NEW e, NEW g, Later(e, g), NEW s, DevInv(s, "attach", e), e.scsi,
         NEW ok \in BOOLEAN, ok \/ "addhost" \in g.causes,
         NEW t, HostAdded(s, ok, t)
  PROVE  DevInv(t, "bound", g)
<1>1. MayGo("disk", g)  BY DEF MayGo, Later
<1>2. CASE s.drvdata # "host"
  <2>1. "params" \in e.causes /\ s.host = "none"  BY <1>2 DEF DevInv, Steady, At, Busy
  <2>2. DevInv(s, "bound", g)  BY <1>1, <2>1, AttachEnds
  <2>3. Later(g, g) /\ Excuse("confused", g)  BY <2>1 DEF Later, Excuse
  <2>4. Faulted(s, "confused", t)  BY <1>2 DEF HostAdded
  <2> QED  BY <2>2, <2>3, <2>4, FaultStep
<1>3. CASE s.drvdata = "host" /\ ~ok
  <2>1. DevInv(s, "bound", g)  BY <1>1, <1>3, AttachEnds DEF Excuse
  <2> QED  BY <1>3, <2>1 DEF HostAdded
<1>4. CASE s.drvdata = "host" /\ ok
  <2>1. /\ t \in Devices /\ SameQueue(s, t) /\ SameDisk(s, t) /\ SameTree(s, t)
        /\ t.state = s.state /\ t.lost = s.lost /\ t.faults = s.faults
        /\ t.alive = s.alive /\ t.users = s.users /\ t.drvdata = s.drvdata
        /\ t.misc = s.misc /\ t.host = "added"
    BY <1>4 DEF HostAdded, Rehosted, SameBody
  <2>2. s.host # "none"  BY <1>4 DEF DevInv, At, Busy
  <2>3. Sound(t)  BY <2>1 DEF DevInv, Sound, SameQueue, SameDisk, SameTree
  <2>4. At(t, "attach", g)  BY <2>1, <2>2 DEF DevInv, At, Busy, SameTree
  <2>5. Excused(t, g)  BY <2>1, ExcusedSame DEF DevInv
  <2>6. Steady(t, "attach", g)
    BY <2>1 DEF DevInv, Steady, Busy, SameQueue, SameDisk, Later
  <2>7. Waiting(t, "attach", g) /\ Hosted(t, "attach", g)
    BY <2>1 DEF Waiting, Hosted, Later
  <2>8. Whole(t, "attach", g)
    BY <2>1, <2>2 DEF DevInv, Whole, Early, SameQueue, SameDisk, SameTree, Later
  <2>9. DevInv(t, "attach", g)
    BY <2>1, <2>3, <2>4, <2>5, <2>6, <2>7, <2>8 DEF DevInv
  <2>10. Later(g, g)  BY DEF Later
  <2>11. t.host # "alloc"  BY <2>1
  <2> QED  BY <1>1, <2>9, <2>10, <2>11, AttachEnds
<1> QED  BY <1>2, <1>3, <1>4

\* A gendisk is found or made.
LEMMA AttachDiskStep ==
  ASSUME NEW e, NEW g, Later(e, g), NEW s, DevInv(s, "attach", e), ~e.scsi, s.queue # "none",
         NEW stop, stop = "none" \/ (stop = "disk" /\ e.io /\ "attach" \in g.causes),
         NEW t, Allocated(s, e.io, stop, t)
  PROVE  DevInv(t, IF s.disk = "none" /\ t.disk # "none" THEN "add" ELSE "bound", g)
<1>1. CASE s.disk = "none" /\ t.disk # "none"
  <2>1. t.refs = 1 /\ t.queue # "none" /\ t \in Devices /\ (e.io <=> stop = "none" /\ e.io)
    BY <1>1 DEF Allocated
  <2>2. Sound(t)
    <3>1. Sound(s)  BY Zenon DEF DevInv
    <3>2. /\ t.queue = s.queue /\ t.mem = s.mem /\ t.limits = s.limits
          /\ t.hwmon = s.hwmon /\ t.files = s.files /\ t.misc = s.misc /\ t.alive = s.alive
      BY Zenon DEF Allocated, SameOwner, SameTree
    <3> QED  BY <1>1, <2>1, <3>1, <3>2 DEF Sound
  <2>3. At(t, "add", g)  BY <1>1, <2>1 DEF DevInv, At, Busy, Allocated, SameOwner, SameTree
  <2>4. e.io \/ s.qdata = "disk" \/ "params" \in e.causes
    BY <1>1 DEF DevInv, Steady, Devices
  <2>5. Excused(t, g)
    <3>1. /\ t.lost = s.lost
          /\ \/ t.faults = s.faults
             \/ t.faults = s.faults \cup {"confused"} /\ "params" \in e.causes
      BY <1>1, <2>4 DEF Allocated
    <3>2. "params" \in e.causes => Excuse("confused", g)  BY DEF Excuse, Later
    <3>3. Excused(s, g)  BY ExcusedSame DEF DevInv
    <3> QED  BY <3>1, <3>2, <3>3 DEF Excused
  <2>6. Steady(t, "add", g)
    <3>1. s.queue \in {"bio", "mq"}  BY DEF DevInv, Devices
    <3>2. CASE e.io
      BY <1>1, <2>1, <3>1, <3>2 DEF DevInv, Steady, Busy, Allocated, SameOwner, Later
    <3>3. CASE ~e.io
      BY <1>1, <2>1, <2>4, <3>1, <3>3 DEF DevInv, Steady, Busy, Allocated, SameOwner, Later
    <3> QED  BY <3>2, <3>3
  <2>7. Waiting(t, "add", g) /\ Hosted(t, "add", g)
    BY DEF DevInv, Waiting, Hosted, Allocated, SameOwner, Later
  <2>8. Whole(t, "add", g)
    BY <1>1 DEF DevInv, Whole, Early, Sound, Allocated, SameOwner, Later
  <2>9. DevInv(t, "add", g)
    BY <2>1, <2>2, <2>3, <2>5, <2>6, <2>7, <2>8 DEF DevInv, Steps, Busy
  <2> QED  BY <1>1, <2>9
<1>2. CASE ~(s.disk = "none" /\ t.disk # "none")
  <2>1. t.disk = s.disk /\ t.refs = s.refs /\ t.qdata = s.qdata /\ t.faults = s.faults
    BY <1>2 DEF Allocated
  <2>2. t \in Devices /\ SameOwner(s, t) /\ SameQueue(s, t) /\ SameDisk(s, t) /\ SameTree(s, t)
        /\ t.state = s.state /\ t.lost = s.lost
    BY <2>1 DEF Allocated, SameQueue, SameDisk
  <2>3. Sound(t)  BY <2>2 DEF DevInv, Sound, SameOwner, SameQueue, SameDisk, SameTree
  <2>4. At(t, "attach", e)  BY <2>2 DEF DevInv, At, Busy, SameOwner, SameTree
  <2>5. Excused(t, e)  BY <2>1, <2>2 DEF DevInv, Excused
  <2>6. Steady(t, "attach", e)
    BY <2>2 DEF DevInv, Steady, Busy, SameOwner, SameQueue, SameDisk
  <2>7. Waiting(t, "attach", e) /\ Hosted(t, "attach", e)
    BY <2>2 DEF DevInv, Waiting, Hosted, SameOwner
  <2>8. Whole(t, "attach", e)
    BY <2>2 DEF DevInv, Whole, Early, SameOwner, SameQueue, SameDisk
  <2>9. DevInv(t, "attach", e)
    BY <2>2, <2>3, <2>4, <2>5, <2>6, <2>7, <2>8, ZenonT(30) DEF DevInv
  <2>10. t.qdata = "disk" => MayGo("disk", g)
    <3>1. s.disk = "none" => stop = "disk"  BY <1>2 DEF Allocated
    <3> QED  BY <2>1, <3>1 DEF DevInv, Steady, MayGo, Later
  <2>11. ~g.scsi  BY DEF Later
  <2>12. DevInv(t, "bound", g)  BY <2>9, <2>10, <2>11, AttachEnds
  <2> QED  BY <1>2, <2>12
<1> QED  BY <1>1, <1>2

\* The gendisk is added and linked, or everything is taken back.
LEMMA AttachAddStep ==
  ASSUME NEW e, NEW g, Later(e, g), g.sub <=> e.sub /\ ~e.io,
         "params" \notin e.causes /\ ~e.sub => e.io,
         NEW s, DevInv(s, "add", e), NEW addOk \in BOOLEAN, NEW linkOk \in BOOLEAN,
         ~addOk => "addfail" \in g.causes, addOk /\ ~linkOk => "attach" \in g.causes,
         NEW t, Attached(s, e.io, addOk, linkOk, t)
  PROVE  DevInv(t, "bound", g)
<1>1. s.disk # "none" /\ s.queue # "none" /\ e.io \in BOOLEAN /\ s \in Devices
  BY DEF DevInv, At, Later, Envs
<1>2. Sound(t)
  <2>1. Sound(s)  BY Zenon DEF DevInv
  <2>2. /\ s.limits = AllLimits /\ (s.queue # "mq" => s.mem = {})
        /\ (~t.hwmon => t.files = {}) /\ (t.misc => t.alive)
    BY <1>1, <2>1, Zenon DEF Sound, Attached, SameOwner, SameTree
  <2>3. CASE addOk /\ linkOk
    <3>1. t.disk = s.disk /\ t.refs = 1 /\ SameQueue(s, t)  BY <2>3, Zenon DEF Attached
    <3> QED  BY <1>1, <2>2, <3>1 DEF Sound, SameQueue
  <2>4. CASE ~(addOk /\ linkOk)
    <3>1. /\ t.disk = "none" /\ t.refs = 0 /\ t.added = FALSE
          /\ t.queue = "none" /\ t.qdata = "none" /\ t.mem = {} /\ t.limits = {}
      BY <2>4, Zenon DEF Attached
    <3> QED  BY <2>2, <3>1 DEF Sound
  <2> QED  BY <2>3, <2>4, Zenon
<1>3. At(t, "bound", g)
  BY DEF DevInv, At, Busy, Attached, SameOwner, SameTree
<1>4. "params" \notin e.causes => s.qdata # "disk" /\ s.disk # "junk" /\ CleanFaults(s, e.io) = {}
  BY <1>1, ZenonT(30) DEF DevInv, Steady, Sound, CleanFaults, Devices
<1>5. Excused(t, g)
  <2>1. \A f \in t.faults : Excuse(f, g)
    <3>1. \A f \in s.faults : Excuse(f, g)  BY ExcuseLater DEF DevInv, Excused
    <3>2. "confused" \in t.faults => Excuse("confused", g)
      BY <1>4, <3>1 DEF Attached, Excuse, Later
    <3>3. "used_after_put" \in t.faults => Excuse("used_after_put", g)
      BY <3>1 DEF Attached, Excuse
    <3> QED  BY <3>1, <3>2, <3>3 DEF Attached
  <2>2. \A x \in s.lost \cup CleanLost(s, e.io) : MayGo(x, g)
    <3>1. \A x \in s.lost : MayGo(x, g)  BY MayGoLater DEF DevInv, Excused
    <3>2. SameQueue(s, s) /\ (s.qdata = "disk" => MayGo("disk", e))
      BY <1>4 DEF SameQueue, MayGo
    <3>3. \A x \in CleanLost(s, e.io) : MayGo(x, e)  BY <3>2, CleanLostExcused
    <3>4. \A x \in CleanLost(s, e.io) : MayGo(x, g)  BY <3>3, MayGoLater
    <3> QED  BY <3>1, <3>4
  <2>3. t.lost = s.lost \/ t.lost = s.lost \cup CleanLost(s, e.io)  BY DEF Attached
  <2> QED  BY <2>1, <2>2, <2>3 DEF Excused
<1>6. Steady(t, "bound", g)
  BY <1>1, <1>4, ZenonT(30) DEF DevInv, Steady, Busy, Attached, SameOwner, SameQueue, Later
<1>7. Waiting(t, "bound", g)
  BY <1>4 DEF Waiting, MayGo, Attached, SameQueue, Later
<1>8. Hosted(t, "bound", g)
  BY ExcuseLater, ZenonT(30) DEF DevInv, Hosted, Attached, SameOwner, Later
<1>9. Whole(t, "bound", g)
  BY <1>1, Zenon DEF DevInv, Whole, Early, Attached, SameOwner, SameQueue, Later
<1> QED  BY <1>2, <1>3, <1>5, <1>6, <1>7, <1>8, <1>9 DEF DevInv, Steps, Busy, Attached

\* The control file's attach command starts the attach again.
LEMMA IoctlAttachStep ==
  ASSUME NEW e, NEW s, DevInv(s, "bound", e), ~e.scsi
  PROVE  DevInv(s, "attach", e)
<1>1. At(s, "attach", e)  BY DEF DevInv, At, Busy
<1>2. Steady(s, "attach", e)  BY DEF DevInv, Steady, Busy
<1>3. Waiting(s, "attach", e) /\ Hosted(s, "attach", e)  BY DEF DevInv, Waiting, Hosted
<1>4. Whole(s, "attach", e)  BY DEF DevInv, Whole, Early
<1> QED  BY <1>1, <1>2, <1>3, <1>4 DEF DevInv, Steps, Busy

\* Its detach command, and the first half of the removal in block mode.
LEMMA DetachStep ==
  ASSUME NEW e, e \in Envs, NEW s, DevInv(s, "bound", e), ~e.scsi, NEW t, Detached(s, e.io, t)
  PROVE  DevInv(t, "bound", e) /\ t.disk = "none" /\ SameOwner(s, t)
<1>1. t \in Devices /\ t.queue = "none" /\ SameOwner(s, t) /\ SameTree(s, t) /\ t.disk = "none"
  BY Zenon DEF Detached, SameDisk
<1>2. t.qdata = "none" /\ t.mem = {} /\ t.limits = {}
  BY DEF DevInv, Sound, Detached, SameQueue
<1>3. t.refs = 0 /\ ~t.added
  BY ZenonT(30) DEF DevInv, Sound, Detached, SameDisk
<1>4. Sound(t)  BY <1>1, <1>2, <1>3 DEF DevInv, Sound, SameOwner, SameTree
<1>5. At(t, "bound", e)  BY <1>1 DEF DevInv, At, Busy, SameOwner, SameTree
<1>6. Excused(t, e)
  <2>1. SameQueue(s, s) /\ (s.qdata = "disk" => MayGo("disk", e))
    BY DEF SameQueue, DevInv, Waiting
  <2>2. \A x \in CleanLost(s, e.io) : MayGo(x, e)  BY <2>1, CleanLostExcused
  <2>3. \A f \in CleanFaults(s, e.io) : Excuse(f, e)  BY <2>1, CleanFaultsExcused
  <2>4. \A f \in (IF s.disk = "none" THEN {} ELSE Misuse(s)) : Excuse(f, e)
    BY DEF Misuse, DevInv, Sound, Steady, Excuse
  <2>5. t.lost = s.lost \cup CleanLost(s, e.io)  BY DEF Detached
  <2>6. t.faults = s.faults \cup (IF s.disk = "none" THEN {} ELSE Misuse(s))
                     \cup CleanFaults(s, e.io)
    BY DEF Detached
  <2>7. Excused(s, e)  BY DEF DevInv
  <2>8. \A x \in t.lost : MayGo(x, e)  BY <2>2, <2>5, <2>7 DEF Excused
  <2>9. \A f \in t.faults : Excuse(f, e)  BY <2>3, <2>4, <2>6, <2>7 DEF Excused
  <2> QED  BY <2>8, <2>9 DEF Excused
<1>7. Steady(t, "bound", e)
  BY <1>1, <1>2 DEF DevInv, Steady, Busy, SameOwner
<1>8. Waiting(t, "bound", e) /\ Hosted(t, "bound", e)
  BY <1>1, <1>2 DEF DevInv, Waiting, Hosted, SameOwner
<1>9. Whole(t, "bound", e)
  <2>1. "back" \notin e.causes => ~t.link /\ t.state = 1
    BY Zenon DEF DevInv, Whole, Detached, SameDisk
  <2> QED  BY <1>1, <2>1 DEF Whole, Early
<1>10. DevInv(t, "bound", e)
  BY <1>1, <1>4, <1>5, <1>6, <1>7, <1>8, <1>9 DEF DevInv, Steps, Busy
<1> QED  BY <1>1, <1>10

\* The removal of a device that has been detached.
LEMMA RemovedStep ==
  ASSUME NEW e, NEW g, Later(e, g), NEW s, DevInv(s, "bound", e),
         "back" \notin e.causes => s.disk = "none",
         NEW c, CoreRemoved(s, e.io, c), NEW t, Parted(c, t)
  PROVE  DevInv(t, "off", g)
<1>1. /\ t \in Devices /\ SameDisk(s, t) /\ t.users = s.users - 1 /\ (t.alive <=> s.users > 1)
      /\ t.host = "none" /\ ~t.qos /\ ~t.misc /\ t.files = {} /\ ~t.hwmon
      /\ t.state = (IF s.state = 1 THEN 0 ELSE s.state)
      /\ t.kobjs = (IF s.state = 1 THEN {} ELSE s.kobjs) /\ t.queue = "none"
  BY ZenonT(30) DEF CoreRemoved, Parted, SameQueue, SameDisk, SameTree
<1>2. t.qdata = "none" /\ t.mem = {} /\ t.limits = {}
  BY Zenon DEF DevInv, Sound, CoreRemoved, Parted, SameQueue
<1>3. Sound(t)  BY <1>1, <1>2 DEF DevInv, Sound, SameDisk
<1>4. At(t, "off", g)
  <2>1. s.users \in {1, 2}  BY DEF DevInv, At, Busy
  <2> QED  BY <1>1, <2>1, SMTT(30) DEF At, Busy
<1>5. Excused(t, g)
  <2>1. SameQueue(s, s) /\ (s.qdata = "disk" => MayGo("disk", e))
    BY DEF SameQueue, DevInv, Waiting
  <2>2. \A x \in CleanLost(s, e.io) : MayGo(x, g)  BY <2>1, CleanLostExcused, MayGoLater
  <2>3. \A f \in CleanFaults(s, e.io) : Excuse(f, g)
    BY <2>1, CleanFaultsExcused, ExcuseLater
  <2>4. t.lost = s.lost \cup CleanLost(s, e.io) /\ t.faults = s.faults \cup CleanFaults(s, e.io)
    BY DEF CoreRemoved, Parted
  <2> QED  BY <2>2, <2>3, <2>4, ExcusedLater DEF DevInv
<1>6. Steady(t, "off", g)
  BY <1>1, <1>2, ZenonT(30) DEF DevInv, Steady, Busy, SameDisk, Later
<1>7. Waiting(t, "off", g) /\ Hosted(t, "off", g)  BY <1>1 DEF Waiting, Hosted
<1>8. Whole(t, "off", g)
  <2>1. "back" \notin g.causes => s.disk = "none" /\ ~s.link /\ s.state = 1
    BY DEF DevInv, Whole, Later
  <2> QED  BY <1>1, <2>1 DEF Whole, Early, SameDisk
<1> QED  BY <1>1, <1>3, <1>4, <1>5, <1>6, <1>7, <1>8, ZenonT(30) DEF DevInv, Steps

\* The host is taken out of the SCSI layer, added or not.
LEMMA DetachHostStep ==
  ASSUME NEW e, e \in Envs, NEW s, DevInv(s, "bound", e), e.scsi, s.drvdata = "host",
         NEW t, HostRemoved(s, t)
  PROVE  DevInv(t, "bound", e) /\ t.users = s.users /\ t.host # "none"
<1>1. s \in Devices /\ s.host # "none"  BY DEF DevInv, At, Busy
<1>2. CASE s.host = "alloc"
  <2>1. Excuse("host_not_added", e)  BY <1>2 DEF DevInv, Hosted
  <2>2. /\ t \in Devices /\ SameOwner(s, t) /\ SameQueue(s, t) /\ SameDisk(s, t)
        /\ SameTree(s, t) /\ t.state = s.state /\ t.lost = s.lost
        /\ t.faults = s.faults \cup {"host_not_added"}
    BY <1>2 DEF HostRemoved, Faulted
  <2>3. Sound(t)  BY <2>2 DEF DevInv, Sound, SameOwner, SameQueue, SameDisk, SameTree
  <2>4. At(t, "bound", e)  BY <2>2 DEF DevInv, At, Busy, SameOwner, SameTree
  <2>5. Excused(t, e)  BY <2>1, <2>2, ZenonT(30) DEF DevInv, Excused
  <2>6. Steady(t, "bound", e)
    BY <2>2 DEF DevInv, Steady, Busy, SameOwner, SameQueue, SameDisk
  <2>7. Waiting(t, "bound", e) /\ Hosted(t, "bound", e)
    BY <2>2 DEF DevInv, Waiting, Hosted, SameOwner, SameQueue
  <2>8. Whole(t, "bound", e)
    BY <2>2 DEF DevInv, Whole, Early, SameOwner, SameQueue, SameDisk
  <2> QED
    BY <1>1, <2>2, <2>3, <2>4, <2>5, <2>6, <2>7, <2>8, Zenon DEF DevInv, SameOwner
<1>3. CASE s.host # "alloc"
  <2>1. /\ t \in Devices /\ SameQueue(s, t) /\ SameDisk(s, t) /\ SameTree(s, t)
        /\ t.state = s.state /\ t.lost = s.lost /\ t.faults = s.faults
        /\ t.alive = s.alive /\ t.users = s.users /\ t.drvdata = s.drvdata
        /\ t.misc = s.misc /\ t.host = "removed"
    BY <1>3 DEF HostRemoved, Rehosted, SameBody
  <2>2. Sound(t)  BY <2>1 DEF DevInv, Sound, SameQueue, SameDisk, SameTree
  <2>3. At(t, "bound", e)  BY <1>1, <2>1 DEF DevInv, At, Busy, SameTree
  <2>4. Excused(t, e)  BY <2>1, ZenonT(30) DEF DevInv, Excused
  <2>5. Steady(t, "bound", e)  BY <2>1 DEF DevInv, Steady, Busy, SameQueue, SameDisk
  <2>6. Waiting(t, "bound", e) /\ Hosted(t, "bound", e)
    BY <2>1 DEF DevInv, Waiting, Hosted, SameQueue
  <2>7. Whole(t, "bound", e)
    BY <1>1, <2>1 DEF DevInv, Whole, Early, SameQueue, SameDisk
  <2> QED
    BY <2>1, <2>2, <2>3, <2>4, <2>5, <2>6, <2>7 DEF DevInv
<1> QED  BY <1>2, <1>3

-----------------------------------------------------------------------------
(* The users of the disk and of the control file. *)

\* A step that changes nothing but the users.
LEMMA UsersStep ==
  ASSUME NEW e, NEW s, NEW p, DevInv(s, p, e), NEW t, UsedBy(s, t.users, t),
         p \in Busy => t.alive /\ t.users \in {1, 2},
         p = "off" => t.users \in {0, 1} /\ (t.alive => t.users = 1),
         p = "dead" => t.alive = s.alive
  PROVE  DevInv(t, p, e)
<1>1. Sound(t)
  BY DEF UsedBy, SameBody, DevInv, Sound, At, Steps, SameQueue, SameDisk, SameTree
<1>2. At(t, p, e)  BY DEF UsedBy, SameBody, DevInv, At, Busy, SameQueue, SameDisk, SameTree
<1>3. Excused(t, e)  BY ZenonT(30) DEF UsedBy, SameBody, DevInv, Excused
<1>4. Steady(t, p, e)  BY DEF UsedBy, SameBody, DevInv, Steady, Busy, SameQueue, SameDisk
<1>5. Waiting(t, p, e) /\ Hosted(t, p, e)  BY ZenonT(30) DEF UsedBy, SameBody, DevInv, Waiting, Hosted, SameQueue
<1>6. Whole(t, p, e)  BY Zenon DEF UsedBy, SameBody, DevInv, Whole, Early, SameQueue, SameDisk, SameTree
<1> QED  BY <1>1, <1>2, <1>3, <1>4, <1>5, <1>6 DEF UsedBy, SameBody, DevInv

\* A disk or a control file is opened.
LEMMA OpenStep ==
  ASSUME NEW e, NEW s, NEW p, DevInv(s, p, e), Holders(s, p) = 0, NEW o, Held(s, p, e, "live", o),
         NEW t, UsedBy(s, s.users + 1, t), t.alive = s.alive
  PROVE  DevInv(t, p, e) /\ Held(t, p, e, "live", o)
<1>1. s \in Devices /\ s.users \in Nat  BY DEF DevInv, Devices
<1>2. t.users = s.users + 1 /\ UsedBy(s, t.users, t)  BY DEF UsedBy
<1>3. ASSUME p \in Busy
      PROVE  t.alive /\ t.users \in {1, 2}
  <2>1. s.alive  BY <1>3, Zenon DEF DevInv, At
  <2>2. p \notin {"off", "dead"}  BY <1>3 DEF Busy
  <2>3. s.users = 1  BY <1>1, <2>2 DEF Holders
  <2> QED  BY <1>2, <2>1, <2>3
<1>4. p = "off" => t.users = 1  BY <1>1, <1>2 DEF Holders
<1>5. DevInv(t, p, e)  BY <1>2, <1>3, <1>4, UsersStep
<1> QED  BY <1>2, <1>5 DEF Held

\* A disk or a control file is closed.
LEMMA ReleaseStep ==
  ASSUME NEW e, NEW s, NEW p, DevInv(s, p, e), p # "dead", Holders(s, p) = 1,
         NEW m, NEW o, Held(s, p, e, m, o),
         NEW t, UsedBy(s, s.users - 1, t), t.alive = (s.users > 1)
  PROVE  DevInv(t, p, e) /\ Held(t, p, e, m, o)
<1>1. s \in Devices /\ s.users \in Nat /\ p \in Steps  BY DEF DevInv, Devices
<1>2. /\ p \in Busy => s.users = 2
      /\ p = "off" => s.users = 1
      /\ p = "off" \/ p \in Busy
  BY <1>1 DEF Holders, Busy, Steps
<1>3. t.users = s.users - 1 /\ UsedBy(s, t.users, t)  BY DEF UsedBy
<1>4. p \in Busy => t.alive /\ t.users = 1
  <2>1. s.users = 2 => s.users > 1 /\ s.users - 1 = 1  OBVIOUS
  <2> QED  BY <1>2, <1>3, <2>1, Zenon
<1>5. p = "off" => t.users = 0 /\ ~t.alive
  <2>1. s.users = 1 => ~(s.users > 1) /\ s.users - 1 = 0  OBVIOUS
  <2> QED  BY <1>2, <1>3, <2>1, Zenon
<1>6. DevInv(t, p, e)  BY <1>3, <1>4, <1>5, UsersStep
<1>7. Held(t, p, e, m, o)  BY <1>2, <1>4, <1>5 DEF Held
<1> QED  BY <1>6, <1>7

\* A device between probe and removal stays there, with its users.
LEMMA HeldBusy ==
  ASSUME NEW e, NEW g, Later(e, g), NEW s, NEW p \in Busy, NEW t, NEW r \in Busy,
         DevInv(t, r, g), t.users = s.users, NEW m, NEW o, Held(s, p, e, m, o)
  PROVE  Held(t, r, g, m, o)
<1>1. p # "off" /\ r # "off" /\ t.alive  BY DEF Busy, DevInv, At
<1> QED  BY <1>1 DEF Held

-----------------------------------------------------------------------------
(* The fields of the record. *)

\* A fault is recorded and nothing else changes.
LEMMA FaultFields ==
  ASSUME NEW s \in Devices, NEW f \in FaultNames
  PROVE  Faulted(s, f, Fault(s, f))
  BY DEF Faulted, Fault, Devices, SameOwner, SameQueue, SameDisk, SameTree

Dropped(s, gone) ==
  [s EXCEPT !.lost = gone, !.queue = "none", !.qdata = "none", !.mem = {}, !.limits = {}]

DroppedFrom(s, gone, t) ==
  /\ t \in Devices /\ SameOwner(s, t) /\ SameDisk(s, t) /\ SameTree(s, t)
  /\ t.state = s.state /\ t.queue = "none" /\ t.qdata = "none" /\ t.mem = {}
  /\ t.limits = {} /\ t.lost = gone /\ t.faults = s.faults

\* A queue that is dropped takes its data and limits with it.
LEMMA DroppedFields ==
  ASSUME NEW s \in Devices, NEW gone \in SUBSET LostNames
  PROVE  DroppedFrom(s, gone, Dropped(s, gone))
  BY ZenonT(30) DEF DroppedFrom, Dropped, Devices, SameOwner, SameDisk, SameTree

\* shannon_blk_cleanup_queue.
Cleaned(s, io, t) ==
  /\ t \in Devices /\ SameOwner(s, t) /\ SameDisk(s, t) /\ SameTree(s, t)
  /\ t.state = s.state /\ t.queue = "none" /\ t.qdata = "none" /\ t.mem = {}
  /\ t.limits = {}
  /\ t.faults = IF io /\ s.qdata # "mqdata" THEN s.faults \cup {"confused"} ELSE s.faults
  /\ t.lost = s.lost
       \cup (IF s.qdata = "disk" THEN {"disk"} ELSE {})
       \cup (IF s.queue = "mq" THEN {"queue"} ELSE {})
       \cup (IF s.mem # {} /\ ~(io /\ s.qdata = "mqdata") THEN {"mqdata"} ELSE {})

\* What shannon_blk_cleanup_queue leaves.
LEMMA CleanupFields ==
  ASSUME NEW s \in Devices, NEW io \in BOOLEAN
  PROVE  Cleaned(s, io, shannon_blk_cleanup_queue(s, io))
<1> DEFINE r == IF ~io THEN s
                ELSE IF s.qdata = "mqdata" THEN [s EXCEPT !.mem = {}]
                ELSE Fault(s, "confused")
           gone == r.lost \cup (IF s.qdata = "disk" THEN {"disk"} ELSE {})
                          \cup (IF s.queue = "mq" THEN {"queue"} ELSE {})
                          \cup (IF r.mem # {} THEN {"mqdata"} ELSE {})
           t == shannon_blk_cleanup_queue(s, io)
<1>1. /\ r \in Devices /\ SameOwner(s, r) /\ SameDisk(s, r) /\ SameTree(s, r)
      /\ r.state = s.state /\ r.lost = s.lost
      /\ r.faults = IF io /\ s.qdata # "mqdata" THEN s.faults \cup {"confused"} ELSE s.faults
      /\ r.mem # {} <=> s.mem # {} /\ ~(io /\ s.qdata = "mqdata")
  <2>1. CASE ~io
    BY <2>1 DEF SameOwner, SameDisk, SameTree
  <2>2. CASE io /\ s.qdata = "mqdata"
    BY <2>2 DEF SameOwner, SameDisk, SameTree, Devices
  <2>3. CASE io /\ s.qdata # "mqdata"
    BY <2>3, FaultFields DEF Faulted, FaultNames, SameQueue
  <2> QED  BY <2>1, <2>2, <2>3
<1>2. t = Dropped(r, gone)
  BY Zenon DEF shannon_blk_cleanup_queue, Dropped
<1> HIDE DEF r
<1>3. gone \in SUBSET LostNames  BY <1>1 DEF LostNames, Devices
<1> HIDE DEF gone, t
<1>4. DroppedFrom(r, gone, t)
  <2>1. r \in Devices  BY <1>1, Zenon
  <2>2. DroppedFrom(r, gone, Dropped(r, gone))  BY <1>3, <2>1, DroppedFields, Zenon
  <2> QED  BY <1>2, <2>2, Zenon
<1>5. Cleaned(s, io, t)
  BY <1>1, <1>4 DEF gone, Cleaned, DroppedFrom, SameOwner, SameDisk, SameTree
<1> QED  BY <1>5 DEF t

SetLimits(s) ==
  shannon_blk_queue_io_opt(shannon_blk_queue_io_min(
    shannon_blk_queue_block_size(shannon_blk_queue_max_hw_sectors(
      shannon_rotational_setting(shannon_trim_setting(s))))))

AddLimit(s, l) == [s EXCEPT !.limits = @ \cup {l}]

Limited(s, new, t) ==
  /\ t \in Devices /\ SameOwner(s, t) /\ SameDisk(s, t) /\ SameTree(s, t)
  /\ t.state = s.state /\ t.lost = s.lost /\ t.faults = s.faults
  /\ t.queue = s.queue /\ t.qdata = s.qdata /\ t.mem = s.mem
  /\ t.limits = s.limits \cup new

\* One limit of a queue.
LEMMA OneLimit ==
  ASSUME NEW s \in Devices, NEW l \in AllLimits
  PROVE  Limited(s, {l}, AddLimit(s, l))
  BY DEF AddLimit, Limited, Devices, SameOwner, SameDisk, SameTree

\* What two steps leave alone, both together do.
LEMMA SameTwice ==
  ASSUME NEW s, NEW t, NEW u
  PROVE  /\ SameOwner(s, t) /\ SameOwner(t, u) => SameOwner(s, u)
         /\ SameQueue(s, t) /\ SameQueue(t, u) => SameQueue(s, u)
         /\ SameDisk(s, t) /\ SameDisk(t, u) => SameDisk(s, u)
         /\ SameTree(s, t) /\ SameTree(t, u) => SameTree(s, u)
<1>1. SameOwner(s, t) /\ SameOwner(t, u) => SameOwner(s, u)  BY Zenon DEF SameOwner
<1>2. SameQueue(s, t) /\ SameQueue(t, u) => SameQueue(s, u)  BY Zenon DEF SameQueue
<1>3. SameDisk(s, t) /\ SameDisk(t, u) => SameDisk(s, u)  BY Zenon DEF SameDisk
<1>4. SameTree(s, t) /\ SameTree(t, u) => SameTree(s, u)  BY Zenon DEF SameTree
<1> QED  BY <1>1, <1>2, <1>3, <1>4, Zenon

\* Two steps that set limits set the limits of both.
LEMMA LimitedTwice ==
  ASSUME NEW s, NEW t, NEW u, NEW x, NEW y, Limited(s, x, t), Limited(t, y, u)
  PROVE  Limited(s, x \cup y, u)
<1>1. SameOwner(s, u) /\ SameDisk(s, u) /\ SameTree(s, u)  BY SameTwice, Zenon DEF Limited
<1>2. u.limits = s.limits \cup (x \cup y)
  <2>1. u.limits = t.limits \cup y /\ t.limits = s.limits \cup x  BY Zenon DEF Limited
  <2> QED  BY <2>1
<1>3. /\ u.state = s.state /\ u.lost = s.lost /\ u.faults = s.faults
      /\ u.queue = s.queue /\ u.qdata = s.qdata /\ u.mem = s.mem /\ u \in Devices
  BY Zenon DEF Limited
<1> QED  BY <1>1, <1>2, <1>3, Zenon DEF Limited

\* All limits of a queue.
LEMMA LimitFields ==
  ASSUME NEW s \in Devices
  PROVE  Limited(s, AllLimits, SetLimits(s))
<1> DEFINE a == shannon_trim_setting(s)
           b == shannon_rotational_setting(a)
           c == shannon_blk_queue_max_hw_sectors(b)
           d == shannon_blk_queue_block_size(c)
           e == shannon_blk_queue_io_min(d)
           f == shannon_blk_queue_io_opt(e)
<1>1. /\ a = AddLimit(s, "trim") /\ b = AddLimit(a, "nonrot") /\ c = AddLimit(b, "max_hw")
      /\ d = AddLimit(c, "block") /\ e = AddLimit(d, "io_min") /\ f = AddLimit(e, "io_opt")
  BY Zenon DEF AddLimit, shannon_trim_setting, shannon_rotational_setting,
     shannon_blk_queue_max_hw_sectors, shannon_blk_queue_block_size, shannon_blk_queue_io_min,
     shannon_blk_queue_io_opt
<1> HIDE DEF a, b, c, d, e, f
<1>0. /\ "trim" \in AllLimits /\ "nonrot" \in AllLimits /\ "max_hw" \in AllLimits
      /\ "block" \in AllLimits /\ "io_min" \in AllLimits /\ "io_opt" \in AllLimits
  BY DEF AllLimits
<1>2. Limited(s, {"trim"}, a)  BY <1>0, <1>1, OneLimit, Zenon
<1>3. Limited(a, {"nonrot"}, b)
  <2>1. a \in Devices  BY <1>2, Zenon DEF Limited
  <2> QED  BY <1>0, <1>1, <2>1, OneLimit, Zenon
<1>4. Limited(b, {"max_hw"}, c)
  <2>1. b \in Devices  BY <1>3, Zenon DEF Limited
  <2> QED  BY <1>0, <1>1, <2>1, OneLimit, Zenon
<1>5. Limited(c, {"block"}, d)
  <2>1. c \in Devices  BY <1>4, Zenon DEF Limited
  <2> QED  BY <1>0, <1>1, <2>1, OneLimit, Zenon
<1>6. Limited(d, {"io_min"}, e)
  <2>1. d \in Devices  BY <1>5, Zenon DEF Limited
  <2> QED  BY <1>0, <1>1, <2>1, OneLimit, Zenon
<1>7. Limited(e, {"io_opt"}, f)
  <2>1. e \in Devices  BY <1>6, Zenon DEF Limited
  <2> QED  BY <1>0, <1>1, <2>1, OneLimit, Zenon
<1>8. s.limits \subseteq AllLimits  BY DEF Devices
<1>9. Limited(s, AllLimits, f)
  <2>1. Limited(s, {"trim"} \cup {"nonrot"}, b)  BY <1>2, <1>3, LimitedTwice, Zenon
  <2>2. Limited(s, {"trim"} \cup {"nonrot"} \cup {"max_hw"}, c)
    BY <1>4, <2>1, LimitedTwice, Zenon
  <2>3. Limited(s, {"trim"} \cup {"nonrot"} \cup {"max_hw"} \cup {"block"}, d)
    BY <1>5, <2>2, LimitedTwice, Zenon
  <2>4. Limited(s, {"trim"} \cup {"nonrot"} \cup {"max_hw"} \cup {"block"} \cup {"io_min"}, e)
    BY <1>6, <2>3, LimitedTwice, Zenon
  <2>5. Limited(s, {"trim"} \cup {"nonrot"} \cup {"max_hw"} \cup {"block"} \cup {"io_min"}
                   \cup {"io_opt"}, f)
    BY <1>7, <2>4, LimitedTwice, Zenon
  <2>6. {"trim"} \cup {"nonrot"} \cup {"max_hw"} \cup {"block"} \cup {"io_min"} \cup {"io_opt"}
          = AllLimits
    BY DEF AllLimits
  <2> QED  BY <2>5, <2>6, Zenon
<1> QED  BY <1>9 DEF a, b, c, d, e, f, SetLimits

\* shannon_create_blkqueue: a failure leaves nothing behind.
Created(s, io, stop, t) ==
  /\ t \in Devices /\ SameOwner(s, t) /\ SameDisk(s, t) /\ SameTree(s, t)
  /\ t.state = s.state /\ t.lost = s.lost /\ t.faults = s.faults /\ t.limits = s.limits
  /\ t.queue = IF stop # "none" THEN s.queue ELSE IF io THEN "mq" ELSE "bio"
  /\ t.qdata = IF stop # "none" THEN s.qdata ELSE IF io THEN "mqdata" ELSE "disk"
  /\ ~io => t.mem = s.mem
  /\ io /\ stop \in {"mqdata", "tagset", "queue"} => t.mem = {}

\* What shannon_create_blkqueue leaves.
LEMMA CreateFields ==
  ASSUME NEW s \in Devices, NEW io \in BOOLEAN, NEW stop, io \/ stop = "none"
  PROVE  Created(s, io, stop, shannon_create_blkqueue(s, io, stop))
<1> USE DEF Created, shannon_create_blkqueue, SameOwner, SameDisk, SameTree
<1>1. CASE ~io /\ stop = "none"  BY <1>1, ZenonT(30) DEF shannon_alloc_queue, Devices
<1>2. CASE io /\ stop = "none"  BY <1>2, ZenonT(30) DEF shannon_init_queue, MqParts, Devices
<1>3. CASE io /\ stop # "none"  BY <1>3 DEF shannon_init_queue, MqParts, Devices
<1> QED  BY <1>1, <1>2, <1>3

\* What shannon_init_blk_queue leaves, when it returns.
LEMMA QueueFields ==
  ASSUME NEW s \in Devices, NEW io \in BOOLEAN, NEW stop,
         io \/ stop = "none" \/ s.queue # "none"
  PROVE  Queued(s, io, stop, shannon_init_blk_queue(s, io, stop))
<1>1. CASE s.queue # "none"
  <2>1. shannon_init_blk_queue(s, io, stop) = s  BY <1>1 DEF shannon_init_blk_queue
  <2> QED  BY <1>1, <2>1 DEF Queued, SameOwner, SameQueue, SameDisk, SameTree
<1>2. CASE s.queue = "none"
  <2> DEFINE q == shannon_create_blkqueue(s, io, stop)
  <2>1. Created(s, io, stop, q)  BY <1>2, CreateFields
  <2>2. shannon_init_blk_queue(s, io, stop) = IF q.queue = "none" THEN q ELSE SetLimits(q)
    BY <1>2 DEF shannon_init_blk_queue, SetLimits
  <2> HIDE DEF q
  <2>3. Limited(q, AllLimits, SetLimits(q))  BY <2>1, LimitFields DEF Created
  <2>4. s.limits \subseteq AllLimits  BY DEF Devices
  <2>5. CASE stop = "none"
    <3>1. q.queue # "none"  BY <2>1, <2>5 DEF Created
    <3> QED  BY <1>2, <2>1, <2>2, <2>3, <2>4, <2>5, <3>1, ZenonT(30)
             DEF Created, Limited, Queued, SameOwner, SameDisk, SameTree
  <2>6. CASE stop # "none"
    <3>1. q.queue = "none"  BY <1>2, <2>1, <2>6 DEF Created
    <3> QED  BY <1>2, <2>1, <2>2, <2>6, <3>1 DEF Created, Queued, SameOwner, SameDisk, SameTree
  <2> QED  BY <2>5, <2>6
<1> QED  BY <1>1, <1>2

\* And when it does not.
LEMMA QueueCrash ==
  ASSUME NEW s \in Devices, NEW stop, stop # "none", s.queue = "none"
  PROVE  shannon_init_blk_queue(s, FALSE, stop) = Fault(s, "null_disk")
<1>1. shannon_create_blkqueue(s, FALSE, stop) = Fault(s, "null_disk")
  BY DEF shannon_create_blkqueue, shannon_alloc_queue
<1>2. Faulted(s, "null_disk", Fault(s, "null_disk"))  BY FaultFields DEF FaultNames
<1>3. Fault(s, "null_disk").queue = "none"  BY <1>2 DEF Faulted, SameQueue
<1> QED  BY <1>1, <1>3 DEF shannon_init_blk_queue

\* What the allocation of a gendisk leaves, when it returns.
LEMMA AllocFields ==
  ASSUME NEW s \in Devices, NEW io \in BOOLEAN, NEW stop, stop # "disk_shown"
  PROVE  Allocated(s, io, stop, attach_alloc(s, io, stop))
<1> USE DEF attach_alloc, Allocated, SameOwner, SameTree
<1>1. CASE s.disk # "none"  BY <1>1
<1>2. CASE s.disk = "none" /\ ~io /\ s.qdata = "disk"
  BY <1>2, ZenonT(30) DEF shannon_alloc_disk, Devices
<1>3. CASE s.disk = "none" /\ ~io /\ s.qdata # "disk"
  BY <1>3, ZenonT(30) DEF shannon_alloc_disk, Devices, FaultNames
<1>4. CASE s.disk = "none" /\ io /\ stop = "none"
  BY <1>4, ZenonT(30) DEF shannon_alloc_disk, Devices
<1>5. CASE s.disk = "none" /\ io /\ stop # "none"
  BY <1>5 DEF shannon_alloc_disk
<1> QED  BY <1>1, <1>2, <1>3, <1>4, <1>5, Zenon

Touched(s, t) ==
  /\ t \in Devices /\ SameOwner(s, t) /\ SameQueue(s, t) /\ SameDisk(s, t) /\ SameTree(s, t)
  /\ t.state = s.state /\ t.lost = s.lost /\ t.faults = s.faults \cup Misuse(s)

\* A use of the gendisk is a fault if it is not there.
LEMMA TouchFields ==
  ASSUME NEW s \in Devices
  PROVE  Touched(s, Touch(s))
<1>1. CASE s.disk = "junk"
  BY <1>1, FaultFields DEF Faulted, Touch, Touched, Misuse, FaultNames, SameDisk
<1>2. CASE s.disk # "junk" /\ s.refs = 0
  BY <1>2, FaultFields DEF Faulted, Touch, Touched, Misuse, FaultNames, SameDisk
<1>3. CASE s.disk # "junk" /\ s.refs # 0
  BY <1>3 DEF Touch, Touched, Misuse, SameOwner, SameQueue, SameDisk, SameTree
<1> QED  BY <1>1, <1>2, <1>3

\* The calls that touch it change its references, its presence, the link or
\* the state of the device.
DiskOf(s, t, refs, added, link, state) ==
  /\ t \in Devices /\ SameOwner(s, t) /\ SameQueue(s, t) /\ SameTree(s, t)
  /\ t.lost = s.lost /\ t.disk = s.disk
  /\ t.refs = refs /\ t.added = added /\ t.link = link /\ t.state = state

SetRefs(s, r)  == [s EXCEPT !.refs = r]
SetAdded(s, a) == [s EXCEPT !.added = a]
SetLink(s, l)  == [s EXCEPT !.link = l]
SetState(s, n) == [s EXCEPT !.state = n]

\* The reference count alone.
LEMMA SetRefsFields ==
  ASSUME NEW s \in Devices, NEW r \in {0, 1}
  PROVE  /\ DiskOf(s, SetRefs(s, r), r, s.added, s.link, s.state)
         /\ SetRefs(s, r).faults = s.faults
  BY DEF SetRefs, DiskOf, Devices, SameOwner, SameQueue, SameTree

\* Whether the disk was added alone.
LEMMA SetAddedFields ==
  ASSUME NEW s \in Devices, NEW a \in BOOLEAN
  PROVE  /\ DiskOf(s, SetAdded(s, a), s.refs, a, s.link, s.state)
         /\ SetAdded(s, a).faults = s.faults
  BY DEF SetAdded, DiskOf, Devices, SameOwner, SameQueue, SameTree

\* The link to the sysfs tree alone.
LEMMA SetLinkFields ==
  ASSUME NEW s \in Devices, NEW l \in BOOLEAN
  PROVE  /\ DiskOf(s, SetLink(s, l), s.refs, s.added, l, s.state)
         /\ SetLink(s, l).faults = s.faults
  BY DEF SetLink, DiskOf, Devices, SameOwner, SameQueue, SameTree

\* The state of the sysfs tree alone.
LEMMA SetStateFields ==
  ASSUME NEW s \in Devices, NEW n \in {0, 1, 2}
  PROVE  /\ DiskOf(s, SetState(s, n), s.refs, s.added, s.link, n)
         /\ SetState(s, n).faults = s.faults
  BY DEF SetState, DiskOf, Devices, SameOwner, SameQueue, SameTree

\* What shannon_put_disk leaves.
LEMMA PutFields ==
  ASSUME NEW s \in Devices
  PROVE  /\ DiskOf(s, shannon_put_disk(s), 0, s.added, s.link, s.state)
         /\ shannon_put_disk(s).faults = s.faults \cup Misuse(s)
<1> DEFINE t == Touch(s)
           m == IF t.refs = 0 THEN 0 ELSE t.refs - 1
<1>1. Touched(s, t)  BY TouchFields
<1>2. shannon_put_disk(s) = SetRefs(t, m)
  BY Zenon DEF shannon_put_disk, SetRefs
<1> HIDE DEF t
<1>3. t.refs \in {0, 1}  BY <1>1 DEF Touched, Devices
<1>4. m = 0  BY <1>3
<1> HIDE DEF m
<1>5. DiskOf(t, SetRefs(t, 0), 0, t.added, t.link, t.state) /\ SetRefs(t, 0).faults = t.faults
  BY <1>1, SetRefsFields, Zenon DEF Touched
<1> QED  BY <1>1, <1>2, <1>4, <1>5, Zenon
         DEF Touched, DiskOf, SameOwner, SameQueue, SameDisk, SameTree

\* What shannon_del_gendisk leaves.
LEMMA DelFields ==
  ASSUME NEW s \in Devices
  PROVE  /\ DiskOf(s, shannon_del_gendisk(s), s.refs, FALSE, s.link, s.state)
         /\ shannon_del_gendisk(s).faults = s.faults \cup Misuse(s)
<1>1. Touched(s, Touch(s))  BY TouchFields
<1>2. shannon_del_gendisk(s) = SetAdded(Touch(s), FALSE)
  BY Zenon DEF shannon_del_gendisk, SetAdded
<1> DEFINE t == Touch(s)
<1> HIDE DEF t
<1>3. DiskOf(t, SetAdded(t, FALSE), t.refs, FALSE, t.link, t.state)
  BY <1>1, SetAddedFields, Zenon DEF Touched, t
<1>4. SetAdded(t, FALSE).faults = t.faults
  BY <1>1, SetAddedFields, Zenon DEF Touched, t
<1>5. Touched(s, t) /\ shannon_del_gendisk(s) = SetAdded(t, FALSE)  BY <1>1, <1>2 DEF t
<1> QED  BY <1>3, <1>4, <1>5, Zenon
         DEF Touched, DiskOf, SameOwner, SameQueue, SameDisk, SameTree

\* What shannon_sysfs_link leaves.
LEMMA LinkFields ==
  ASSUME NEW s \in Devices, NEW ok \in BOOLEAN
  PROVE  /\ DiskOf(s, shannon_sysfs_link(s, ok), s.refs, s.added, ok, s.state)
         /\ shannon_sysfs_link(s, ok).faults = s.faults \cup Misuse(s)
<1>1. Touched(s, Touch(s))  BY TouchFields
<1>2. shannon_sysfs_link(s, ok) = SetLink(Touch(s), ok)
  BY Zenon DEF shannon_sysfs_link, SetLink
<1> DEFINE t == Touch(s)
<1>3. DiskOf(t, SetLink(t, ok), t.refs, t.added, ok, t.state) /\ SetLink(t, ok).faults = t.faults
  BY <1>1, SetLinkFields, Zenon DEF Touched
<1> HIDE DEF t
<1> QED  BY <1>1, <1>2, <1>3, Zenon
         DEF t, Touched, DiskOf, SameOwner, SameQueue, SameDisk, SameTree

\* The link is removed and the device is no longer linked.
Unlinked(s) == [shannon_sysfs_unlink(s) EXCEPT !.state = 1]

\* What the removal of the link leaves.
LEMMA UnlinkFields ==
  ASSUME NEW s \in Devices
  PROVE  /\ DiskOf(s, Unlinked(s), s.refs, s.added, FALSE, 1)
         /\ Unlinked(s).faults = s.faults \cup Misuse(s)
<1> DEFINE t == SetLink(Touch(s), FALSE)
<1>1. Touched(s, Touch(s))  BY TouchFields
<1>2. Unlinked(s) = SetState(t, 1)
  BY Zenon DEF Unlinked, shannon_sysfs_unlink, SetLink, SetState
<1>3. DiskOf(s, t, s.refs, s.added, FALSE, s.state) /\ t.faults = s.faults \cup Misuse(s)
  BY <1>1, SetLinkFields, Zenon DEF Touched, DiskOf, SameOwner, SameQueue, SameDisk, SameTree
<1> HIDE DEF t
<1>4. DiskOf(t, SetState(t, 1), t.refs, t.added, t.link, 1) /\ SetState(t, 1).faults = t.faults
  BY <1>3, SetStateFields, Zenon DEF DiskOf
<1> QED  BY <1>2, <1>3, <1>4, Zenon DEF DiskOf, SameOwner, SameQueue, SameTree

\* shannon_detach as far as the disk goes.
Cleared(s, gone) == [s EXCEPT !.disk = "none", !.refs = 0, !.lost = gone]

\* A disk that is forgotten leaves no trace.
LEMMA ClearedFields ==
  ASSUME NEW s \in Devices, NEW gone \in SUBSET LostNames
  PROVE  /\ Cleared(s, gone) \in Devices /\ SameOwner(s, Cleared(s, gone))
         /\ SameQueue(s, Cleared(s, gone)) /\ SameTree(s, Cleared(s, gone))
         /\ Cleared(s, gone).disk = "none" /\ Cleared(s, gone).refs = 0
         /\ Cleared(s, gone).added = s.added /\ Cleared(s, gone).link = s.link
         /\ Cleared(s, gone).state = s.state /\ Cleared(s, gone).lost = gone
         /\ Cleared(s, gone).faults = s.faults
  BY ZenonT(30) DEF Cleared, Devices, SameOwner, SameQueue, SameTree

Undisked(s, t) ==
  /\ t \in Devices /\ SameOwner(s, t) /\ SameQueue(s, t) /\ SameTree(s, t) /\ t.lost = s.lost
  /\ t.disk = "none" /\ t.refs = 0 /\ t.added = FALSE
  /\ t.link = IF s.state = 2 THEN FALSE ELSE s.link
  /\ t.state = IF s.state = 2 THEN 1 ELSE s.state
  /\ t.faults = s.faults \cup Misuse(s)

\* What the release of the disk leaves.
LEMMA UndiskFields ==
  ASSUME NEW s \in Devices
  PROVE  LET u == IF s.state = 2 THEN Unlinked(s) ELSE s
         IN  Undisked(s, [shannon_put_disk(shannon_del_gendisk(u))
                            EXCEPT !.disk = "none", !.refs = 0,
                                   !.lost = IF shannon_put_disk(u).refs > 0
                                            THEN @ \cup {"disk"} ELSE @])
<1> DEFINE u == IF s.state = 2 THEN Unlinked(s) ELSE s
           d == shannon_del_gendisk(u)
           p == shannon_put_disk(d)
           gone == IF shannon_put_disk(u).refs > 0 THEN p.lost \cup {"disk"} ELSE p.lost
           t == [p EXCEPT !.disk = "none", !.refs = 0,
                          !.lost = IF shannon_put_disk(u).refs > 0 THEN @ \cup {"disk"} ELSE @]
<1>1. /\ DiskOf(s, u, s.refs, s.added, IF s.state = 2 THEN FALSE ELSE s.link,
                IF s.state = 2 THEN 1 ELSE s.state)
      /\ u.faults \subseteq s.faults \cup Misuse(s) /\ s.faults \subseteq u.faults
  BY UnlinkFields, Zenon DEF DiskOf, SameOwner, SameQueue, SameTree
<1>2. t = Cleared(p, gone)  BY Zenon DEF Cleared
<1> HIDE DEF u, t
<1>3. u \in Devices /\ Misuse(u) = Misuse(s)  BY <1>1 DEF DiskOf, Misuse
<1>4. DiskOf(u, d, u.refs, FALSE, u.link, u.state) /\ d.faults = u.faults \cup Misuse(u)
  BY <1>3, DelFields, Zenon
<1>5. shannon_put_disk(u).refs = 0  BY <1>3, PutFields DEF DiskOf
<1> HIDE DEF d
<1>6. d \in Devices /\ Misuse(d) = Misuse(u)  BY <1>4 DEF DiskOf, Misuse
<1>7. DiskOf(d, p, 0, d.added, d.link, d.state) /\ p.faults = d.faults \cup Misuse(d)
  BY <1>6, PutFields
<1>8. gone = p.lost  BY <1>5
<1> HIDE DEF p, gone
<1>9. p \in Devices /\ gone \in SUBSET LostNames  BY <1>7, <1>8 DEF DiskOf, Devices
<1>10. p.faults = s.faults \cup Misuse(s)  BY <1>1, <1>3, <1>4, <1>6, <1>7
<1>11. /\ t \in Devices /\ SameOwner(p, t) /\ SameQueue(p, t) /\ SameTree(p, t)
       /\ t.disk = "none" /\ t.refs = 0 /\ t.added = p.added /\ t.link = p.link
       /\ t.state = p.state /\ t.lost = p.lost /\ t.faults = p.faults
  BY <1>2, <1>8, <1>9, ClearedFields
<1>12. Undisked(s, t)
  <2>1. SameOwner(s, t) /\ SameQueue(s, t) /\ SameTree(s, t) /\ t.lost = s.lost
    <3>1. SameOwner(s, d) /\ SameQueue(s, d) /\ SameTree(s, d) /\ d.lost = s.lost
      BY <1>1, <1>4, SameTwice, Zenon DEF DiskOf
    <3>2. SameOwner(s, p) /\ SameQueue(s, p) /\ SameTree(s, p) /\ p.lost = s.lost
      BY <1>7, <3>1, SameTwice, Zenon DEF DiskOf
    <3> QED  BY <1>11, <3>2, SameTwice, Zenon
  <2> QED  BY <1>1, <1>4, <1>7, <1>10, <1>11, <2>1 DEF DiskOf, Undisked
<1> QED  BY <1>12, Zenon DEF t, p, d, u

\* After the clean-up there is no queue.
LEMMA NoQueueFields ==
  ASSUME NEW s \in Devices, NEW io \in BOOLEAN
  PROVE  NoQueue(s, io, IF s.queue = "none" THEN s ELSE shannon_blk_cleanup_queue(s, io))
<1>1. CASE s.queue = "none"
  BY <1>1 DEF NoQueue, CleanFaults, CleanLost, SameOwner, SameDisk, SameTree, SameQueue
<1>2. CASE s.queue # "none"
  <2> DEFINE t == shannon_blk_cleanup_queue(s, io)
  <2>1. Cleaned(s, io, t)  BY CleanupFields
  <2> HIDE DEF t
  <2>2. NoQueue(s, io, t)  BY <1>2, <2>1 DEF Cleaned, NoQueue, CleanFaults, CleanLost
  <2> QED  BY <1>2, <2>2 DEF t
<1> QED  BY <1>1, <1>2

\* What shannon_detach leaves.
LEMMA DetachFields ==
  ASSUME NEW s \in Devices, NEW io \in BOOLEAN
  PROVE  Detached(s, io, shannon_detach(s, io))
<1> DEFINE u == IF s.state = 2 THEN Unlinked(s) ELSE s
           d == IF s.disk = "none" THEN s
                ELSE [shannon_put_disk(shannon_del_gendisk(u))
                        EXCEPT !.disk = "none", !.refs = 0,
                               !.lost = IF shannon_put_disk(u).refs > 0
                                        THEN @ \cup {"disk"} ELSE @]
           t == shannon_detach(s, io)
<1>1. IF s.disk = "none" THEN d = s ELSE Undisked(s, d)  BY UndiskFields, Zenon
<1>2. t = IF d.queue = "none" THEN d ELSE shannon_blk_cleanup_queue(d, io)
  BY Zenon DEF shannon_detach, Unlinked
<1> HIDE DEF u, d, t
<1>3. /\ d \in Devices /\ SameOwner(s, d) /\ SameQueue(s, d) /\ SameTree(s, d) /\ d.lost = s.lost
      /\ d.faults = s.faults \cup (IF s.disk = "none" THEN {} ELSE Misuse(s))
  BY <1>1, Zenon DEF Undisked, SameOwner, SameQueue, SameTree
<1>4. NoQueue(d, io, t)  BY <1>2, <1>3, NoQueueFields
<1>5. CleanFaults(d, io) = CleanFaults(s, io) /\ CleanLost(d, io) = CleanLost(s, io)
  BY <1>3 DEF CleanFaults, CleanLost, SameQueue
<1>6. /\ t \in Devices /\ SameOwner(s, t) /\ SameTree(s, t) /\ t.queue = "none"
      /\ s.queue = "none" => SameQueue(s, t)
      /\ s.queue # "none" => t.qdata = "none" /\ t.mem = {} /\ t.limits = {}
  BY <1>3, <1>4 DEF NoQueue, SameOwner, SameTree, SameQueue
<1>7. /\ s.disk = "none" => SameDisk(s, t) /\ t.state = s.state
      /\ s.disk # "none" =>
           /\ t.disk = "none" /\ t.refs = 0 /\ t.added = FALSE
           /\ t.link = IF s.state = 2 THEN FALSE ELSE s.link
           /\ t.state = IF s.state = 2 THEN 1 ELSE s.state
  BY <1>1, <1>4, Zenon DEF NoQueue, Undisked, SameDisk
<1>8. Detached(s, io, t)
  BY <1>3, <1>4, <1>5, <1>6, <1>7, Zenon DEF NoQueue, Detached
<1> QED  BY <1>8 DEF t

\* The first step of adding a disk.
LEMMA SetUpFields ==
  ASSUME NEW s \in Devices
  PROVE  /\ DiskOf(s, [Touch(s) EXCEPT !.state = 2], s.refs, s.added, s.link, 2)
         /\ [Touch(s) EXCEPT !.state = 2].faults = s.faults \cup Misuse(s)
<1> DEFINE t == Touch(s)
<1>1. Touched(s, t)  BY TouchFields
<1>2. [Touch(s) EXCEPT !.state = 2] = SetState(t, 2)  BY Zenon DEF SetState
<1> HIDE DEF t
<1>3. DiskOf(t, SetState(t, 2), t.refs, t.added, t.link, 2) /\ SetState(t, 2).faults = t.faults
  BY <1>1, SetStateFields DEF Touched
<1>4. /\ DiskOf(s, SetState(t, 2), s.refs, s.added, s.link, 2)
      /\ SetState(t, 2).faults = s.faults \cup Misuse(s)
  BY <1>1, <1>3 DEF Touched, DiskOf, SameOwner, SameQueue, SameDisk, SameTree
<1> QED  BY <1>2, <1>4, ZenonT(30)

\* What shannon_add_disk leaves.
LEMMA AddFields ==
  ASSUME NEW s \in Devices, NEW ok \in BOOLEAN
  PROVE  /\ DiskOf(s, shannon_add_disk(s, ok), IF ok THEN s.refs ELSE 0,
                   IF ok THEN TRUE ELSE s.added, s.link, s.state)
         /\ shannon_add_disk(s, ok).faults = s.faults \cup Misuse(s)
<1>1. CASE ~ok
  <2>1. shannon_add_disk(s, ok) = shannon_put_disk(s)  BY <1>1 DEF shannon_add_disk
  <2> QED  BY <1>1, <2>1, PutFields
<1>2. CASE ok
  <2> DEFINE t == Touch(s)
  <2>1. Touched(s, t)  BY TouchFields
  <2>2. shannon_add_disk(s, ok) = SetAdded(t, TRUE)
    BY <1>2, Zenon DEF shannon_add_disk, SetAdded
  <2> HIDE DEF t
  <2>3. DiskOf(t, SetAdded(t, TRUE), t.refs, TRUE, t.link, t.state)
    BY <2>1, SetAddedFields, Zenon DEF Touched
  <2>4. SetAdded(t, TRUE).faults = t.faults  BY <2>1, SetAddedFields, Zenon DEF Touched
  <2>5. /\ DiskOf(s, SetAdded(t, TRUE), s.refs, TRUE, s.link, s.state)
        /\ SetAdded(t, TRUE).faults = s.faults \cup Misuse(s)
    BY <2>1, <2>3, <2>4, ZenonT(30) DEF Touched, DiskOf, SameOwner, SameQueue, SameDisk, SameTree
  <2> QED  BY <1>2, <2>2, <2>5, Zenon
<1> QED  BY <1>1, <1>2, Zenon

\* What adding an allocated disk leaves, with its error paths.
LEMMA AttachFields ==
  ASSUME NEW s \in Devices, NEW io \in BOOLEAN, NEW addOk \in BOOLEAN, NEW linkOk \in BOOLEAN,
         s.disk # "none", s.refs = 1, s.queue # "none"
  PROVE  Attached(s, io, addOk, linkOk, attach_add(s, io, addOk, linkOk))
<1> DEFINE b == [Touch(s) EXCEPT !.state = 2]
           a == shannon_add_disk(b, addOk)
           l == shannon_sysfs_link(a, linkOk)
           t == attach_add(s, io, addOk, linkOk)
<1>1. DiskOf(s, b, 1, s.added, s.link, 2) /\ b.faults = s.faults \cup Misuse(s)
  BY SetUpFields
<1>2. t = IF ~addOk THEN shannon_detach(a, io)
          ELSE IF ~linkOk THEN shannon_detach(l, io) ELSE l
  BY Zenon DEF attach_add
<1> SUFFICES Attached(s, io, addOk, linkOk, t)  OBVIOUS
<1> HIDE DEF b, t
<1>3. b \in Devices /\ Misuse(b) = Misuse(s)  BY <1>1 DEF DiskOf, Misuse
<1>4. /\ DiskOf(b, a, IF addOk THEN b.refs ELSE 0, IF addOk THEN TRUE ELSE b.added, b.link, 2)
      /\ a.faults = b.faults \cup Misuse(b)
  BY <1>1, <1>3, AddFields, ZenonT(30) DEF DiskOf
<1> HIDE DEF a
<1>5. /\ DiskOf(s, a, IF addOk THEN 1 ELSE 0, IF addOk THEN TRUE ELSE s.added, s.link, 2)
      /\ a.faults = s.faults \cup Misuse(s)
  BY <1>1, <1>3, <1>4 DEF DiskOf, SameOwner, SameQueue, SameTree
<1>6. a \in Devices  BY <1>5 DEF DiskOf
<1>7. DiskOf(a, l, a.refs, a.added, linkOk, a.state) /\ l.faults = a.faults \cup Misuse(a)
  BY <1>6, LinkFields
<1> HIDE DEF l
<1>8. l \in Devices  BY <1>7 DEF DiskOf
<1>9. Misuse(s) \subseteq {"confused"} /\ ("confused" \in Misuse(s) => s.disk = "junk")
  BY DEF Misuse
<1>10. CASE ~addOk
  <2>1. Detached(a, io, t)  BY <1>2, <1>6, <1>10, DetachFields
  <2>2. CleanFaults(a, io) = CleanFaults(s, io) /\ CleanLost(a, io) = CleanLost(s, io)
    BY <1>5 DEF CleanFaults, CleanLost, DiskOf, SameQueue
  <2>3. CleanFaults(s, io) \subseteq {"confused"}  BY DEF CleanFaults
  <2>4. Misuse(a) \subseteq {"confused", "used_after_put"}
        /\ ("confused" \in Misuse(a) => s.disk = "junk")
    BY <1>5 DEF Misuse, DiskOf
  <2>5. t.faults = s.faults \cup Misuse(s) \cup Misuse(a) \cup CleanFaults(s, io)
    BY <1>5, <2>1, <2>2 DEF Detached, DiskOf
  <2>6. /\ "confused" \in t.faults =>
             "confused" \in s.faults \/ s.disk = "junk" \/ CleanFaults(s, io) # {}
        /\ \A f \in t.faults : f \in s.faults \/ f \in {"confused", "used_after_put"}
    BY <1>9, <2>3, <2>4, <2>5
  <2>7. t \in Devices /\ SameOwner(s, t) /\ SameTree(s, t)
    BY <1>5, <2>1 DEF Detached, DiskOf, SameOwner, SameTree
  <2>8. /\ t.disk = "none" /\ t.refs = 0 /\ t.added = FALSE /\ t.link = FALSE /\ t.state = 1
        /\ t.queue = "none" /\ t.qdata = "none" /\ t.mem = {} /\ t.limits = {}
        /\ t.lost = s.lost \cup CleanLost(s, io)
    BY <1>5, <2>1, <2>2, ZenonT(30) DEF Detached, DiskOf, SameQueue
  <2> QED  BY <1>10, <2>6, <2>7, <2>8, Zenon DEF Attached
<1>11. CASE addOk
  <2>1. /\ DiskOf(s, l, 1, TRUE, linkOk, 2) /\ Misuse(l) = Misuse(s) /\ Misuse(a) = Misuse(s)
        /\ l.faults = s.faults \cup Misuse(s)
    BY <1>5, <1>7, <1>11 DEF DiskOf, Misuse, SameOwner, SameQueue, SameTree
  <2>2. CASE linkOk
    <3>1. t = l  BY <1>2, <1>11, <2>2
    <3> QED  BY <1>9, <1>11, <2>1, <2>2, <3>1, Zenon DEF Attached, DiskOf
  <2>3. CASE ~linkOk
    <3>1. Detached(l, io, t)  BY <1>2, <1>8, <1>11, <2>3, DetachFields
    <3>2. CleanFaults(l, io) = CleanFaults(s, io) /\ CleanLost(l, io) = CleanLost(s, io)
      BY <2>1 DEF CleanFaults, CleanLost, DiskOf, SameQueue
    <3>3. CleanFaults(s, io) \subseteq {"confused"}  BY DEF CleanFaults
    <3>4. t.faults = s.faults \cup Misuse(s) \cup CleanFaults(s, io)
      BY <2>1, <3>1, <3>2 DEF Detached, DiskOf
    <3>5. /\ "confused" \in t.faults =>
               "confused" \in s.faults \/ s.disk = "junk" \/ CleanFaults(s, io) # {}
          /\ "used_after_put" \in t.faults => "used_after_put" \in s.faults
          /\ \A f \in t.faults : f \in s.faults \/ f \in {"confused", "used_after_put"}
      BY <1>9, <3>3, <3>4
    <3>6. t \in Devices /\ SameOwner(s, t) /\ SameTree(s, t)
      BY <2>1, <3>1 DEF Detached, DiskOf, SameOwner, SameTree
    <3>7. /\ t.disk = "none" /\ t.refs = 0 /\ t.added = FALSE /\ t.link = FALSE /\ t.state = 1
          /\ t.queue = "none" /\ t.qdata = "none" /\ t.mem = {} /\ t.limits = {}
          /\ t.lost = s.lost \cup CleanLost(s, io)
      BY <2>1, <3>1, <3>2, Zenon DEF Detached, DiskOf, SameQueue
    <3> QED  BY <2>3, <3>5, <3>6, <3>7, Zenon DEF Attached
  <2> QED  BY <2>2, <2>3
<1> QED  BY <1>10, <1>11

\* The sysfs objects and the hwmon files.
SetFiles(s, files, on) == [s EXCEPT !.files = files, !.hwmon = on]

\* The hwmon files alone.
LEMMA SetFilesFields ==
  ASSUME NEW s \in Devices, NEW files \in SUBSET (1 .. NAttr), NEW on \in BOOLEAN
  PROVE  LET t == SetFiles(s, files, on)
         IN  /\ t \in Devices /\ SameOwner(s, t) /\ SameQueue(s, t) /\ SameDisk(s, t)
             /\ t.state = s.state /\ t.lost = s.lost /\ t.faults = s.faults
             /\ t.kobjs = s.kobjs /\ t.hwmon = on /\ t.files = files
  BY Zenon DEF SetFiles, Devices, SameOwner, SameQueue, SameDisk

\* What shannon_hwmon_init leaves, all files or none.
LEMMA HwmonFields ==
  ASSUME NEW s \in Devices, NEW i \in 0 .. NAttr + 1
  PROVE  LET t == shannon_hwmon_init(s, i)
         IN  /\ t \in Devices /\ SameOwner(s, t) /\ SameQueue(s, t) /\ SameDisk(s, t)
             /\ t.state = s.state /\ t.lost = s.lost /\ t.faults = s.faults
             /\ t.kobjs = s.kobjs /\ t.hwmon = (IF i = 0 THEN TRUE ELSE s.hwmon)
             /\ i # 0 => t.files \subseteq s.files
<1> DEFINE t == shannon_hwmon_init(s, i)
           created == IF i \in 1..NAttr THEN 1..(i - 1) ELSE 1..NAttr
           removed == IF i \in 1..NAttr THEN 1..i ELSE 1..NAttr
<1>1. s.files \subseteq 1 .. NAttr  BY DEF Devices
<1>2. created \subseteq removed /\ created \subseteq 1 .. NAttr
  <2>1. CASE i \in 1 .. NAttr  BY <2>1, NAttrAssumption
  <2>2. CASE i \notin 1 .. NAttr  BY <2>2
  <2> QED  BY <2>1, <2>2
<1>3. t = IF i = 0 THEN [s EXCEPT !.files = @ \cup created, !.hwmon = TRUE]
          ELSE [s EXCEPT !.files = (@ \cup created) \ removed]
  BY Zenon DEF shannon_hwmon_init
<1> SUFFICES /\ t \in Devices /\ SameOwner(s, t) /\ SameQueue(s, t) /\ SameDisk(s, t)
             /\ t.state = s.state /\ t.lost = s.lost /\ t.faults = s.faults
             /\ t.kobjs = s.kobjs /\ t.hwmon = (IF i = 0 THEN TRUE ELSE s.hwmon)
             /\ i # 0 => t.files \subseteq s.files
  OBVIOUS
<1> HIDE DEF t, created, removed
<1>4. CASE i = 0
  <2>1. t = SetFiles(s, s.files \cup created, TRUE)  BY <1>3, <1>4, Zenon DEF SetFiles
  <2>2. s.files \cup created \in SUBSET (1 .. NAttr)  BY <1>1, <1>2, Zenon
  <2> QED  BY <1>4, <2>1, <2>2, SetFilesFields, ZenonT(30)
<1>5. CASE i # 0
  <2> DEFINE new == (s.files \cup created) \ removed
  <2>1. new \subseteq s.files /\ new \in SUBSET (1 .. NAttr)  BY <1>1, <1>2, Zenon
  <2>2. t = [s EXCEPT !.files = new]  BY <1>3, <1>5, Zenon
  <2> HIDE DEF new
  <2> QED  BY <1>5, <2>1, <2>2 DEF Devices, SameOwner, SameQueue, SameDisk
<1> QED  BY <1>4, <1>5, Zenon

\* What shannon_sysfs_init leaves, all objects or none.
LEMMA TreeFields ==
  ASSUME NEW s \in Devices, NEW stop \in {"none", "shannon", "pci_info"}
  PROVE  LET t == shannon_sysfs_init(s, stop)
         IN  /\ t \in Devices /\ SameOwner(s, t) /\ SameQueue(s, t) /\ SameDisk(s, t)
             /\ t.state = s.state /\ t.lost = s.lost /\ t.faults = s.faults
             /\ t.files = s.files /\ t.hwmon = s.hwmon
             /\ IF stop = "none" THEN t.kobjs = Tree ELSE t.kobjs \subseteq s.kobjs
<1> USE DEF shannon_sysfs_init, Devices, SameOwner, SameQueue, SameDisk, Tree
<1>1. CASE stop = "none"  BY <1>1
<1>2. CASE stop = "shannon"  BY <1>2
<1>3. CASE stop = "pci_info"  BY <1>3
<1> QED  BY <1>1, <1>2, <1>3

\* What shannon_hwmon_exit leaves.
LEMMA HwmonExitFields ==
  ASSUME NEW s \in Devices, ~s.hwmon => s.files = {}
  PROVE  LET t == shannon_hwmon_exit(s)
         IN  /\ t \in Devices /\ SameOwner(s, t) /\ SameQueue(s, t) /\ SameDisk(s, t)
             /\ t.state = s.state /\ t.lost = s.lost /\ t.faults = s.faults
             /\ t.kobjs = s.kobjs /\ t.hwmon = FALSE /\ t.files = {}
<1>1. CASE ~s.hwmon
  BY <1>1 DEF shannon_hwmon_exit, Devices, SameOwner, SameQueue, SameDisk
<1>2. CASE s.hwmon
  <2> DEFINE new == s.files \ 1 .. NAttr
  <2>1. shannon_hwmon_exit(s) = [s EXCEPT !.hwmon = FALSE, !.files = new]
    BY <1>2, Zenon DEF shannon_hwmon_exit
  <2>2. new = {}  BY DEF Devices
  <2> HIDE DEF new
  <2> QED  BY <2>1, <2>2, ZenonT(30) DEF Devices, SameOwner, SameQueue, SameDisk
<1> QED  BY <1>1, <1>2, Zenon

\* The owner's fields, as the error path of the probe and the removal leave
\* them.
SetOwner(s, alive, users, drvdata, host) ==
  [s EXCEPT !.alive = alive, !.users = users, !.drvdata = drvdata, !.host = host]

\* The fields of the owner alone.
LEMMA SetOwnerFields ==
  ASSUME NEW s \in Devices, NEW a \in BOOLEAN, NEW u \in Nat, NEW d \in {"none", "sdev", "host"},
         NEW h \in {"none", "alloc", "added", "removed"}
  PROVE  LET t == SetOwner(s, a, u, d, h)
         IN  /\ t \in Devices /\ SameQueue(s, t) /\ SameDisk(s, t) /\ SameTree(s, t)
             /\ t.state = s.state /\ t.lost = s.lost /\ t.faults = s.faults
             /\ t.alive = a /\ t.users = u /\ t.drvdata = d /\ t.host = h
             /\ t.qos = s.qos /\ t.misc = s.misc
<1> DEFINE t == SetOwner(s, a, u, d, h)
<1>1. t \in Devices  BY ZenonT(30) DEF SetOwner, Devices
<1>2. SameQueue(s, t) /\ SameDisk(s, t) /\ SameTree(s, t)
  BY DEF SetOwner, Devices, SameQueue, SameDisk, SameTree
<1>3. /\ t.state = s.state /\ t.lost = s.lost /\ t.faults = s.faults
      /\ t.alive = a /\ t.users = u /\ t.drvdata = d /\ t.host = h
      /\ t.qos = s.qos /\ t.misc = s.misc
  BY DEF SetOwner, Devices
<1> QED  BY <1>1, <1>2, <1>3

\* A user that goes; the last one ends the device.
LEMMA UsersFields ==
  ASSUME NEW s \in Devices, s.users > 0
  PROVE  LET t == sh_decrease_users(s)
         IN  UsedBy(s, s.users - 1, t) /\ t.alive = (s.users > 1)
<1> DEFINE t == sh_decrease_users(s)
<1>1. s.users - 1 \in Nat  BY DEF Devices
<1>2. t \in Devices
  <2>1. CASE s.users > 1
    <3>1. t = [s EXCEPT !.users = s.users - 1, !.alive = TRUE]
      BY <2>1, Zenon DEF sh_decrease_users
    <3> HIDE DEF t
    <3> QED  BY <1>1, <3>1, ZenonT(30) DEF Devices
  <2>2. CASE ~(s.users > 1)
    <3>1. (s.users > 1) = FALSE  BY <2>2
    <3>2. t = [s EXCEPT !.users = s.users - 1, !.alive = FALSE]
      BY <3>1, Zenon DEF sh_decrease_users
    <3> HIDE DEF t
    <3> QED  BY <1>1, <3>2, ZenonT(30) DEF Devices
  <2> QED  BY <2>1, <2>2
<1>3. SameQueue(s, t) /\ SameDisk(s, t) /\ SameTree(s, t)
  BY DEF sh_decrease_users, Devices, SameQueue, SameDisk, SameTree
<1>4. /\ t.state = s.state /\ t.lost = s.lost /\ t.faults = s.faults
      /\ t.users = s.users - 1 /\ t.alive = (s.users > 1) /\ t.drvdata = s.drvdata
      /\ t.host = s.host /\ t.qos = s.qos /\ t.misc = s.misc
  BY DEF sh_decrease_users, Devices
<1> QED  BY <1>2, <1>3, <1>4, Zenon DEF UsedBy, SameBody

Closed(s) == [shannon_destroy_miscdevice(shannon_hwmon_exit(s)) EXCEPT !.qos = FALSE]

\* What closing the control device and the hwmon files leaves.
LEMMA ClosedFields ==
  ASSUME NEW s \in Devices, ~s.hwmon => s.files = {}
  PROVE  LET t == Closed(s)
         IN  /\ t \in Devices /\ SameQueue(s, t) /\ SameDisk(s, t)
             /\ t.state = s.state /\ t.lost = s.lost /\ t.faults = s.faults
             /\ t.alive = s.alive /\ t.users = s.users /\ t.drvdata = s.drvdata
             /\ t.host = s.host /\ t.qos = FALSE /\ t.misc = FALSE
             /\ t.kobjs = s.kobjs /\ t.hwmon = FALSE /\ t.files = {}
<1> DEFINE x == shannon_hwmon_exit(s)
           t == [[x EXCEPT !.misc = FALSE] EXCEPT !.qos = FALSE]
<1>1. /\ x \in Devices /\ SameOwner(s, x) /\ SameQueue(s, x) /\ SameDisk(s, x)
      /\ x.state = s.state /\ x.lost = s.lost /\ x.faults = s.faults
      /\ x.kobjs = s.kobjs /\ x.hwmon = FALSE /\ x.files = {}
  BY HwmonExitFields, Zenon
<1>2. Closed(s) = t  BY Zenon DEF Closed, shannon_destroy_miscdevice
<1> HIDE DEF x
<1>3. /\ t \in Devices /\ SameQueue(x, t) /\ SameDisk(x, t) /\ SameTree(x, t)
      /\ t.state = x.state /\ t.lost = x.lost /\ t.faults = x.faults
      /\ t.alive = x.alive /\ t.users = x.users /\ t.drvdata = x.drvdata
      /\ t.host = x.host /\ t.qos = FALSE /\ t.misc = FALSE
  BY <1>1, ZenonT(30) DEF Devices, SameQueue, SameDisk, SameTree
<1> HIDE DEF t
<1> QED  BY <1>1, <1>2, <1>3 DEF SameOwner, SameQueue, SameDisk, SameTree

\* What the removal by the core leaves.
LEMMA CoreRemoveFields ==
  ASSUME NEW s \in Devices, NEW io \in BOOLEAN, ~s.hwmon => s.files = {}, s.users > 0
  PROVE  CoreRemoved(s, io, core_remove(s, io))
<1> DEFINE k == IF s.state = 1 THEN [shannon_sysfs_exit(s) EXCEPT !.state = 0] ELSE s
           h == Closed(k)
           q == IF h.queue = "none" THEN h ELSE shannon_blk_cleanup_queue(h, io)
           t == core_remove(s, io)
<1>1. /\ k \in Devices /\ SameOwner(s, k) /\ SameQueue(s, k) /\ SameDisk(s, k)
      /\ k.state = (IF s.state = 1 THEN 0 ELSE s.state)
      /\ k.kobjs = (IF s.state = 1 THEN {} ELSE s.kobjs)
      /\ k.files = s.files /\ k.hwmon = s.hwmon /\ k.lost = s.lost /\ k.faults = s.faults
  <2>1. CASE s.state # 1
    BY <2>1 DEF SameOwner, SameQueue, SameDisk
  <2>2. CASE s.state = 1
    <3> DEFINE new == (s.kobjs \ {"pci_info"}) \ {"shannon"}
    <3>1. k = [[s EXCEPT !.kobjs = new] EXCEPT !.state = 0]
      BY <2>2, Zenon DEF shannon_sysfs_exit
    <3>2. new = {}  BY DEF Devices, Tree
    <3> HIDE DEF new, k
    <3>3. k = [[s EXCEPT !.kobjs = {}] EXCEPT !.state = 0]  BY <3>1, <3>2
    <3>4. /\ k \in Devices /\ SameOwner(s, k) /\ SameQueue(s, k) /\ SameDisk(s, k)
          /\ k.state = 0 /\ k.kobjs = {}
          /\ k.files = s.files /\ k.hwmon = s.hwmon /\ k.lost = s.lost /\ k.faults = s.faults
      BY <3>3, Zenon DEF Devices, SameOwner, SameQueue, SameDisk
    <3> QED  BY <2>2, <3>4
  <2> QED  BY <2>1, <2>2
<1>2. t = sh_decrease_users(q)  BY Zenon DEF core_remove, Closed
<1> SUFFICES CoreRemoved(s, io, t)  OBVIOUS
<1> HIDE DEF k, t
<1>3. /\ h \in Devices /\ SameQueue(k, h) /\ SameDisk(k, h)
      /\ h.state = k.state /\ h.lost = k.lost /\ h.faults = k.faults
      /\ h.alive = k.alive /\ h.users = k.users /\ h.drvdata = k.drvdata
      /\ h.host = k.host /\ h.qos = FALSE /\ h.misc = FALSE
      /\ h.kobjs = k.kobjs /\ h.hwmon = FALSE /\ h.files = {}
  BY <1>1, ClosedFields, ZenonT(30)
<1> HIDE DEF h
<1>4. NoQueue(h, io, q)  BY <1>3, NoQueueFields
<1>5. CleanFaults(h, io) = CleanFaults(s, io) /\ CleanLost(h, io) = CleanLost(s, io)
  BY <1>1, <1>3 DEF CleanFaults, CleanLost, SameQueue
<1> HIDE DEF q
<1>6. q \in Devices /\ q.users = s.users
  BY <1>1, <1>3, <1>4 DEF NoQueue, SameOwner
<1>7. /\ t \in Devices /\ SameQueue(q, t) /\ SameDisk(q, t) /\ SameTree(q, t)
      /\ t.state = q.state /\ t.lost = q.lost /\ t.faults = q.faults
      /\ t.users = q.users - 1 /\ t.alive = (q.users > 1)
      /\ t.drvdata = q.drvdata /\ t.host = q.host /\ t.qos = q.qos /\ t.misc = q.misc
  <2>1. q.users > 0  BY <1>6
  <2>2. UsedBy(q, q.users - 1, t) /\ t.alive = (q.users > 1)
    BY <1>2, <1>6, <2>1, UsersFields, Zenon
  <2> QED  BY <2>2, Zenon DEF UsedBy, SameBody
<1>8. t.users = s.users - 1 /\ t.alive = (s.users > 1)  BY <1>6, <1>7
<1>9. SameDisk(s, t) /\ t.faults = s.faults \cup CleanFaults(s, io)
       /\ t.lost = s.lost \cup CleanLost(s, io)
  <2>1. SameDisk(s, k) /\ SameDisk(k, h) /\ k.lost = s.lost /\ k.faults = s.faults
        /\ h.lost = k.lost /\ h.faults = k.faults
    BY <1>1, <1>3, Zenon
  <2>2. /\ SameDisk(h, q) /\ q.faults = h.faults \cup CleanFaults(h, io)
        /\ q.lost = h.lost \cup CleanLost(h, io)
    BY <1>4, Zenon DEF NoQueue
  <2>3. SameDisk(q, t) /\ t.lost = q.lost /\ t.faults = q.faults  BY <1>7, Zenon
  <2>4. SameDisk(s, t)  BY <2>1, <2>2, <2>3, SameTwice, Zenon
  <2> QED  BY <1>5, <2>1, <2>2, <2>3, <2>4, Zenon
<1>10. /\ t.drvdata = s.drvdata /\ t.host = s.host /\ t.qos = FALSE /\ t.misc = FALSE
       /\ t.state = (IF s.state = 1 THEN 0 ELSE s.state)
       /\ t.kobjs = (IF s.state = 1 THEN {} ELSE s.kobjs) /\ t.files = {} /\ t.hwmon = FALSE
  <2>1. /\ k.drvdata = s.drvdata /\ k.host = s.host
        /\ k.state = (IF s.state = 1 THEN 0 ELSE s.state)
        /\ k.kobjs = (IF s.state = 1 THEN {} ELSE s.kobjs)
    BY <1>1, Zenon DEF SameOwner
  <2>2. /\ h.drvdata = k.drvdata /\ h.host = k.host /\ h.qos = FALSE /\ h.misc = FALSE
        /\ h.state = k.state /\ h.kobjs = k.kobjs /\ h.files = {} /\ h.hwmon = FALSE
    BY <1>3, Zenon
  <2>3. /\ q.drvdata = h.drvdata /\ q.host = h.host /\ q.qos = h.qos /\ q.misc = h.misc
        /\ q.state = h.state /\ q.kobjs = h.kobjs /\ q.files = h.files /\ q.hwmon = h.hwmon
    BY <1>4, Zenon DEF NoQueue, SameOwner, SameTree
  <2>4. /\ t.drvdata = q.drvdata /\ t.host = q.host /\ t.qos = q.qos /\ t.misc = q.misc
        /\ t.state = q.state /\ t.kobjs = q.kobjs /\ t.files = q.files /\ t.hwmon = q.hwmon
    BY <1>7, Zenon DEF SameTree
  <2> QED  BY <2>1, <2>2, <2>3, <2>4, Zenon
<1>11. /\ s.queue = "none" => SameQueue(s, t)
       /\ t.queue = "none"
       /\ s.queue # "none" => t.qdata = "none" /\ t.mem = {} /\ t.limits = {}
  BY <1>1, <1>3, <1>4, <1>7 DEF NoQueue, SameQueue
<1> QED  BY <1>7, <1>8, <1>9, <1>10, <1>11, Zenon DEF CoreRemoved

-----------------------------------------------------------------------------
(* Several calls of one handler. *)

\* The first calls of a probe that has its host, or needs none.
Begun(s, host, drvdata) ==
  [s EXCEPT !.host = host, !.drvdata = drvdata, !.alive = TRUE, !.users = 1, !.qos = TRUE]

\* A device that is being probed.
LEMMA BegunFields ==
  ASSUME NEW s \in Devices, NEW h \in {"none", "alloc"}, NEW d \in {"sdev", "host"}
  PROVE  Started(s, h, d, Begun(s, h, d))
<1> DEFINE t == Begun(s, h, d)
<1>1. t \in Devices  BY Zenon DEF Begun, Devices
<1>2. SameQueue(s, t) /\ SameDisk(s, t) /\ SameTree(s, t)
  BY DEF Begun, Devices, SameQueue, SameDisk, SameTree
<1>3. /\ t.state = s.state /\ t.lost = s.lost /\ t.faults = s.faults
      /\ t.alive /\ t.users = 1 /\ t.drvdata = d /\ t.host = h
      /\ t.qos /\ t.misc = s.misc
  BY DEF Begun, Devices
<1> QED  BY <1>1, <1>2, <1>3 DEF Started, SameBody

\* What the sysfs part of a probe leaves.
LEMMA GrownFields ==
  ASSUME NEW s \in Devices, NEW i \in 0 .. NAttr + 1, NEW stop \in {"none", "shannon", "pci_info"}
  PROVE  LET k == shannon_sysfs_init(shannon_hwmon_init(s, i), stop)
         IN  Grown(s, stop, IF stop # "none" THEN k ELSE [k EXCEPT !.state = 1])
<1> DEFINE h == shannon_hwmon_init(s, i)
           k == shannon_sysfs_init(h, stop)
           t == IF stop # "none" THEN k ELSE SetState(k, 1)
<1>1. /\ h \in Devices /\ SameOwner(s, h) /\ SameQueue(s, h) /\ SameDisk(s, h)
      /\ h.state = s.state /\ h.lost = s.lost /\ h.faults = s.faults /\ h.kobjs = s.kobjs
      /\ h.hwmon = (IF i = 0 THEN TRUE ELSE s.hwmon) /\ (i # 0 => h.files \subseteq s.files)
  BY HwmonFields, Zenon
<1> SUFFICES Grown(s, stop, t)  BY DEF SetState
<1> HIDE DEF h
<1>2. /\ k \in Devices /\ SameOwner(h, k) /\ SameQueue(h, k) /\ SameDisk(h, k)
      /\ k.state = h.state /\ k.lost = h.lost /\ k.faults = h.faults
      /\ k.files = h.files /\ k.hwmon = h.hwmon
      /\ IF stop = "none" THEN k.kobjs = Tree ELSE k.kobjs \subseteq h.kobjs
  BY <1>1, TreeFields, Zenon
<1> HIDE DEF k
<1>3. DiskOf(k, SetState(k, 1), k.refs, k.added, k.link, 1) /\ SetState(k, 1).faults = k.faults
  BY <1>2, SetStateFields
<1>4. /\ t \in Devices /\ SameOwner(k, t) /\ SameQueue(k, t) /\ SameDisk(k, t) /\ SameTree(k, t)
      /\ t.lost = k.lost /\ t.faults = k.faults
      /\ t.state = IF stop = "none" THEN 1 ELSE k.state
  BY <1>2, <1>3 DEF DiskOf, SameOwner, SameQueue, SameDisk, SameTree
<1> HIDE DEF t
<1>5. SameOwner(s, t) /\ SameQueue(s, t) /\ SameDisk(s, t)
  BY <1>1, <1>2, <1>4 DEF SameOwner, SameQueue, SameDisk
<1>6. ~t.hwmon => ~s.hwmon /\ t.files \subseteq s.files
  BY <1>1, <1>2, <1>4 DEF SameTree
<1>7. /\ stop = "none" => t.kobjs = Tree /\ t.state = 1
      /\ stop # "none" => t.kobjs \subseteq s.kobjs /\ t.state = s.state
  BY <1>1, <1>2, <1>4 DEF SameTree
<1> QED  BY <1>1, <1>2, <1>4, <1>5, <1>6, <1>7 DEF Grown

\* What the error path gives up before the queue.
Undone(s, scsi) ==
  [shannon_destroy_miscdevice(shannon_hwmon_exit(s)) EXCEPT !.qos = FALSE,
     !.drvdata = IF scsi THEN @ ELSE "none",
     !.alive = FALSE, !.users = 0,
     !.lost = IF s.host = "none" THEN @ ELSE @ \cup {"host"},
     !.host = "none"]

Bare(s, drvdata, lost) ==
  [[s EXCEPT !.misc = FALSE] EXCEPT !.qos = FALSE, !.drvdata = drvdata, !.alive = FALSE,
                                    !.users = 0, !.lost = lost, !.host = "none"]

\* A device without its owner fields.
LEMMA BareFields ==
  ASSUME NEW s \in Devices, NEW d \in {"none", "sdev", "host"}, NEW gone \in SUBSET LostNames
  PROVE  LET t == Bare(s, d, gone)
         IN  /\ t \in Devices /\ SameQueue(s, t) /\ SameDisk(s, t) /\ SameTree(s, t)
             /\ t.state = s.state /\ t.lost = gone /\ t.faults = s.faults
             /\ ~t.alive /\ t.users = 0 /\ t.host = "none" /\ ~t.qos /\ ~t.misc
<1> DEFINE t == Bare(s, d, gone)
<1>1. t \in Devices  BY Zenon DEF Bare, Devices
<1>2. SameQueue(s, t) /\ SameDisk(s, t) /\ SameTree(s, t)
  BY DEF Bare, Devices, SameQueue, SameDisk, SameTree
<1>3. /\ t.state = s.state /\ t.lost = gone /\ t.faults = s.faults
      /\ ~t.alive /\ t.users = 0 /\ t.host = "none" /\ ~t.qos /\ ~t.misc
  BY DEF Bare, Devices
<1> QED  BY <1>1, <1>2, <1>3

\* What the error labels of a probe leave before the queue.
LEMMA UndoneFields ==
  ASSUME NEW s \in Devices, ~s.hwmon => s.files = {}, NEW m \in BOOLEAN
  PROVE  GivenUp(s, Undone(s, m))
<1> DEFINE x == shannon_hwmon_exit(s)
           d == IF m THEN x.drvdata ELSE "none"
           gone == IF s.host = "none" THEN x.lost ELSE x.lost \cup {"host"}
           t == Undone(s, m)
<1>1. /\ x \in Devices /\ SameQueue(s, x) /\ SameDisk(s, x)
      /\ x.state = s.state /\ x.lost = s.lost /\ x.faults = s.faults
      /\ x.kobjs = s.kobjs /\ x.hwmon = FALSE /\ x.files = {}
  BY HwmonExitFields, Zenon
<1>2. t = Bare(x, d, gone)  BY Zenon DEF Undone, Bare, shannon_destroy_miscdevice
<1> SUFFICES GivenUp(s, t)  OBVIOUS
<1> HIDE DEF x, t
<1>3. d \in {"none", "sdev", "host"}  BY <1>1 DEF Devices
<1>4. gone \in SUBSET LostNames /\ gone \subseteq s.lost \cup {"host"}
  BY <1>1 DEF Devices, LostNames
<1> HIDE DEF d, gone
<1>5. /\ t \in Devices /\ SameQueue(x, t) /\ SameDisk(x, t) /\ SameTree(x, t)
      /\ t.state = x.state /\ t.lost = gone /\ t.faults = x.faults
      /\ ~t.alive /\ t.users = 0 /\ t.host = "none" /\ ~t.qos /\ ~t.misc
  <2> DEFINE b == Bare(x, d, gone)
  <2>1. /\ b \in Devices /\ SameQueue(x, b) /\ SameDisk(x, b) /\ SameTree(x, b)
        /\ b.state = x.state /\ b.lost = gone /\ b.faults = x.faults
        /\ ~b.alive /\ b.users = 0 /\ b.host = "none" /\ ~b.qos /\ ~b.misc
    <3>1. x \in Devices /\ gone \in SUBSET LostNames  BY <1>1, <1>4, Zenon
    <3> QED  BY <1>3, <3>1, BareFields, Zenon
  <2>2. t = b  BY <1>2, Zenon
  <2> QED  BY <2>1, <2>2, Zenon
<1>6. SameQueue(s, t) /\ SameDisk(s, t)  BY <1>1, <1>5 DEF SameQueue, SameDisk
<1> QED  BY <1>1, <1>4, <1>5, <1>6 DEF GivenUp, SameTree

\* A device without its driver data.
LEMMA PartedFields ==
  ASSUME NEW c \in Devices
  PROVE  /\ Parted(c, [c EXCEPT !.host = "none", !.drvdata = "none"])
         /\ c.host = "none" => Parted(c, [c EXCEPT !.drvdata = "none"])
  BY ZenonT(30) DEF Parted, Devices, SameQueue, SameDisk, SameTree

\* One user more.
LEMMA OpenedFields ==
  ASSUME NEW s \in Devices
  PROVE  LET t == [s EXCEPT !.users = @ + 1]
         IN  UsedBy(s, s.users + 1, t) /\ t.alive = s.alive
<1>1. s.users + 1 \in Nat  BY DEF Devices
<1> QED  BY <1>1, ZenonT(30) DEF UsedBy, SameBody, Devices, SameQueue, SameDisk, SameTree

\* What shannon_create_miscdevice leaves.
LEMMA MiscFields ==
  ASSUME NEW s \in Devices, NEW ok \in BOOLEAN
  PROVE  Registered(s, shannon_create_miscdevice(s, ok))
  BY DEF Registered, SameBody, shannon_create_miscdevice, Devices, SameQueue, SameDisk, SameTree

\* The state of the host alone.
LEMMA RehostedFields ==
  ASSUME NEW s \in Devices, NEW h \in {"added", "removed"}
  PROVE  Rehosted(s, h, [s EXCEPT !.host = h])
  BY DEF Rehosted, SameBody, Devices, SameQueue, SameDisk, SameTree

\* What shannon_attach_scsi leaves.
LEMMA HostAddFields ==
  ASSUME NEW s \in Devices, NEW ok \in BOOLEAN
  PROVE  HostAdded(s, ok, shannon_attach_scsi(s, ok))
  BY FaultFields, RehostedFields, Zenon DEF HostAdded, shannon_attach_scsi, FaultNames

\* What shannon_detach_scsi leaves.
LEMMA HostRemoveFields ==
  ASSUME NEW s \in Devices
  PROVE  HostRemoved(s, shannon_detach_scsi(s))
  BY FaultFields, RehostedFields, Zenon DEF HostRemoved, shannon_detach_scsi, FaultNames

-----------------------------------------------------------------------------
(* The invariant of the module and of its devices, and what it implies. *)

\* What the devices share.
Env == [causes |-> causes, scsi |-> scsi_mode, io |-> iosched, auto |-> auto_attach,
        sub |-> submit_bio]

ModInv ==
  /\ mod \in Mods /\ res \subseteq {"blkdev", "wq", "mempool", "driver"}
  /\ percpu \in BOOLEAN /\ Env \in Envs
  /\ trouble \in Nat /\ binds \in Nat /\ ctrl \subseteq Devs
  /\ mod = "out" => res = {}
  /\ mod = "init_pci" => "mempool" \in res
  /\ mod \in {"live", "exit_pci"} => {"mempool", "driver"} \subseteq res
  /\ mod \in {"init_mempool", "destroy_wq"} => res \subseteq {"blkdev", "wq"}
  /\ mod \in {"init_pci", "free_mempool"} => res \subseteq {"blkdev", "wq", "mempool"}
  /\ mod \in {"init_wq", "unregister_blkdev"} => res \subseteq {"blkdev"}
  /\ mod = "done" => res = {}
  /\ "mode" \in causes \/ "back" \in causes => "params" \in causes
  /\ "params" \notin causes /\ ~submit_bio => iosched

IInv ==
  /\ ModInv /\ dev \in [Devs -> Devices] /\ pc \in [Devs -> Steps]
  /\ \A d \in Devs : DevInv(dev[d], pc[d], Env) /\ Held(dev[d], pc[d], Env, mod, d \in ctrl)

\* The device that moves, before its step.
LEMMA Before ==
  ASSUME IInv, NEW d \in Devs
  PROVE  /\ ModInv /\ dev[d] \in Devices /\ DevInv(dev[d], pc[d], Env)
         /\ Held(dev[d], pc[d], Env, mod, d \in ctrl)
         /\ Env.causes = causes /\ Env.scsi = scsi_mode /\ Env.io = iosched
         /\ Env.auto = auto_attach /\ Env.sub = submit_bio
         /\ scsi_mode \in BOOLEAN /\ iosched \in BOOLEAN /\ auto_attach \in BOOLEAN
         /\ ctrl \subseteq Devs /\ causes \subseteq AllCauses /\ binds \in Nat /\ trouble \in Nat
<1>1. Env.causes = causes /\ Env.scsi = scsi_mode /\ Env.io = iosched
      /\ Env.auto = auto_attach /\ Env.sub = submit_bio
  BY DEF Env
<1>2. scsi_mode \in BOOLEAN /\ iosched \in BOOLEAN /\ auto_attach \in BOOLEAN
      /\ causes \subseteq AllCauses
  BY DEF IInv, ModInv, Env, Envs
<1> QED  BY <1>1, <1>2 DEF IInv, ModInv

\* The invariant holds before the module is loaded.
LEMMA InitIInv == Init => IInv
<1> SUFFICES ASSUME Init PROVE IInv  OBVIOUS
<1>1. Env \in Envs  BY DEF Init, Env, Envs
<1>2. ModInv  BY <1>1 DEF Init, ModInv, Mods
<1>3. Absent \in Devices  BY ZenonT(30) DEF Absent, Devices
<1>4. "off" \in Steps /\ "off" \notin Busy  BY DEF Steps, Busy
<1>5. DevInv(Absent, "off", Env)
  BY <1>3, <1>4, ZenonT(30) DEF DevInv, Absent, Sound, At, Excused, Steady, Waiting, Hosted, Whole
<1>6. Held(Absent, "off", Env, "out", FALSE)  BY <1>4 DEF Held, Absent
<1>7. dev \in [Devs -> Devices] /\ pc \in [Devs -> Steps]  BY <1>3, <1>4 DEF Init
<1>8. ASSUME NEW d \in Devs
      PROVE  dev[d] = Absent /\ pc[d] = "off" /\ (d \in ctrl) = FALSE /\ mod = "out"
  BY DEF Init
<1> QED  BY <1>2, <1>5, <1>6, <1>7, <1>8, Zenon DEF IInv

\* Over a state, Excuse and MayGo are Explained and MayLose.
LEMMA Bridge ==
  /\ \A f \in FaultNames : Excuse(f, Env) => Explained(f)
  /\ \A x \in LostNames : MayGo(x, Env) => MayLose(x)
<1>1. /\ Env.causes = causes /\ Env.scsi = scsi_mode /\ Env.io = iosched
      /\ Env.auto = auto_attach
  BY DEF Env
<1>2. ASSUME NEW f \in FaultNames, Excuse(f, Env) PROVE Explained(f)
  BY <1>1, <1>2 DEF Excuse, Explained, FaultNames
<1>3. ASSUME NEW x \in LostNames, MayGo(x, Env) PROVE MayLose(x)
  BY <1>1, <1>3 DEF MayGo, MayLose, LostNames
<1> QED  BY <1>2, <1>3

\* The invariant explains every fault.
LEMMA IInvFaults == IInv => FaultsExplained
<1> SUFFICES ASSUME IInv, NEW d \in Devs, NEW f \in dev[d].faults PROVE Explained(f)
  BY DEF FaultsExplained
<1>1. dev[d].faults \subseteq FaultNames  BY Before DEF Devices
<1>2. Excuse(f, Env)  BY Before, Zenon DEF DevInv, Excused
<1> QED  BY <1>1, <1>2, Bridge

\* A record is known by its fields.
LEMMA OffRecord ==
  ASSUME NEW s \in Devices, ~s.alive, s.users = 0, s.host = "none", ~s.qos, ~s.misc,
         s.queue = "none", s.qdata = "none", s.mem = {}, s.limits = {}, s.disk = "none",
         s.refs = 0, ~s.added, ~s.link, s.state = 0, s.kobjs = {}, s.files = {}, ~s.hwmon
  PROVE  s = [Absent EXCEPT !.lost = s.lost, !.faults = s.faults, !.drvdata = s.drvdata]
<1> DEFINE a == [Absent EXCEPT !.lost = s.lost, !.faults = s.faults, !.drvdata = s.drvdata]
<1>1. s = [alive |-> s.alive, users |-> s.users, drvdata |-> s.drvdata, host |-> s.host,
           qos |-> s.qos, misc |-> s.misc, queue |-> s.queue, qdata |-> s.qdata,
           mem |-> s.mem, limits |-> s.limits, disk |-> s.disk, refs |-> s.refs,
           added |-> s.added, link |-> s.link, state |-> s.state, kobjs |-> s.kobjs,
           files |-> s.files, hwmon |-> s.hwmon, lost |-> s.lost, faults |-> s.faults]
  BY DEF Devices
<1>2. a \in Devices
  <2>1. Absent \in Devices  BY ZenonT(30) DEF Absent, Devices
  <2>2. s.lost \in SUBSET LostNames /\ s.faults \in SUBSET FaultNames
        /\ s.drvdata \in {"none", "sdev", "host"}
    BY DEF Devices
  <2> QED  BY <2>1, <2>2, ZenonT(30) DEF Devices
<1>3. a = [alive |-> a.alive, users |-> a.users, drvdata |-> a.drvdata, host |-> a.host,
           qos |-> a.qos, misc |-> a.misc, queue |-> a.queue, qdata |-> a.qdata,
           mem |-> a.mem, limits |-> a.limits, disk |-> a.disk, refs |-> a.refs,
           added |-> a.added, link |-> a.link, state |-> a.state, kobjs |-> a.kobjs,
           files |-> a.files, hwmon |-> a.hwmon, lost |-> a.lost, faults |-> a.faults]
  <2> HIDE DEF a
  <2> QED  BY <1>2 DEF Devices
<1>4. /\ a.alive = FALSE /\ a.qos = FALSE /\ a.misc = FALSE /\ a.added = FALSE
      /\ a.link = FALSE /\ a.hwmon = FALSE /\ a.users = 0 /\ a.host = "none"
      /\ a.queue = "none" /\ a.qdata = "none" /\ a.mem = {} /\ a.limits = {}
      /\ a.disk = "none" /\ a.refs = 0 /\ a.state = 0 /\ a.kobjs = {} /\ a.files = {}
      /\ a.drvdata = s.drvdata /\ a.lost = s.lost /\ a.faults = s.faults
  BY DEF Absent
<1>5. /\ s.alive = FALSE /\ s.qos = FALSE /\ s.misc = FALSE /\ s.added = FALSE
      /\ s.link = FALSE /\ s.hwmon = FALSE
  BY DEF Devices
<1> HIDE DEF a
<1>6. s = a  BY <1>1, <1>3, <1>4, <1>5, Zenon
<1> QED  BY <1>6 DEF a

\* The invariant leaves nothing behind when the module is done.
LEMMA IInvNothingLeft == IInv => NothingLeftBehind
<1> SUFFICES ASSUME IInv, mod = "done", "back" \notin causes
             PROVE  /\ res = {}
                    /\ \A d \in Devs :
                         /\ dev[d] = [Absent EXCEPT !.lost = dev[d].lost,
                                        !.faults = dev[d].faults, !.drvdata = dev[d].drvdata]
                         /\ \A x \in dev[d].lost : MayLose(x)
  BY Zenon DEF NothingLeftBehind
<1>1. res = {}  BY DEF IInv, ModInv
<1>2. ASSUME NEW d \in Devs
      PROVE  /\ dev[d] = [Absent EXCEPT !.lost = dev[d].lost,
                            !.faults = dev[d].faults, !.drvdata = dev[d].drvdata]
             /\ \A x \in dev[d].lost : MayLose(x)
  <2> DEFINE s == dev[d]
  <2>1. s \in Devices /\ DevInv(s, pc[d], Env) /\ pc[d] = "off" /\ s.users = 0
    BY Before DEF Held
  <2>2. "back" \notin Env.causes  BY Before
  <2> HIDE DEF s
  <2>3. Sound(s) /\ At(s, "off", Env) /\ Whole(s, "off", Env) /\ Excused(s, Env)
    BY <2>1 DEF DevInv
  <2>4. /\ ~s.alive /\ s.host = "none" /\ ~s.qos /\ ~s.misc /\ s.queue = "none" /\ ~s.hwmon
    <3>1. /\ s.queue = "none" /\ ~s.misc /\ s.host = "none" /\ ~s.hwmon /\ ~s.qos
          /\ (s.alive => s.users = 1)
      BY <2>3, Zenon DEF At
    <3>2. s.users # 1  BY <2>1
    <3> QED  BY <3>1, <3>2, Zenon
  <2>5. s.disk = "none" /\ s.kobjs = {} /\ s.state = 0 /\ ~s.link
    BY <2>2, <2>3 DEF Whole
  <2>6. /\ s.qdata = "none" /\ s.limits = {} /\ s.mem = {} /\ s.refs = 0 /\ ~s.added
        /\ s.files = {}
    BY <2>3, <2>4, <2>5 DEF Sound
  <2>7. s = [Absent EXCEPT !.lost = s.lost, !.faults = s.faults, !.drvdata = s.drvdata]
    BY <2>1, <2>4, <2>5, <2>6, OffRecord, ZenonT(30)
  <2>8. \A x \in s.lost : MayLose(x)
    <3>1. s.lost \subseteq LostNames  BY <2>1 DEF Devices
    <3> QED  BY <2>3, <3>1, Bridge DEF Excused
  <2> QED  BY <2>7, <2>8 DEF s
<1> QED  BY <1>1, <1>2, ZenonT(30)

\* The invariant makes live disks whole.
LEMMA IInvWhole == IInv => LiveDiskIsWhole
<1> SUFFICES ASSUME IInv, NEW d \in Devs, dev[d].added, pc[d] = "bound", "back" \notin causes
             PROVE  /\ "params" \notin causes => ((dev[d].queue = "bio") <=> submit_bio)
                    /\ dev[d].alive /\ dev[d].refs = 1 /\ dev[d].limits = AllLimits
                    /\ dev[d].link /\ dev[d].state = 2
                    /\ dev[d].kobjs = {"shannon", "pci_info"}
                    /\ {"mempool", "driver"} \subseteq res
  BY DEF LiveDiskIsWhole
<1> DEFINE s == dev[d]
<1>1. /\ s \in Devices /\ DevInv(s, "bound", Env) /\ mod \in {"live", "exit_pci"} /\ s.added
      /\ Env.causes = causes /\ Env.sub = submit_bio
  BY Before DEF Held
<1>2. {"mempool", "driver"} \subseteq res  BY <1>1 DEF IInv, ModInv
<1> HIDE DEF s
<1>3. Sound(s) /\ At(s, "bound", Env) /\ Steady(s, "bound", Env) /\ Whole(s, "bound", Env)
  BY <1>1, ZenonT(30) DEF DevInv
<1>4. s.disk # "none" /\ s.refs = 1  BY <1>1, <1>3, ZenonT(30) DEF Sound, Devices
<1>5. s.link /\ s.state = 2 /\ s.queue # "none"  BY <1>1, <1>3, <1>4 DEF Whole
<1>6. s.limits = AllLimits /\ s.alive /\ s.kobjs = Tree  BY <1>3, <1>5 DEF Sound, At, Busy
<1>7. "params" \notin causes => ((s.queue = "bio") <=> submit_bio)
  <2>1. s.queue \in {"bio", "mq"}  BY <1>1, <1>5 DEF Devices
  <2> QED  BY <1>1, <1>3, <1>4, <2>1 DEF Steady
<1> QED  BY <1>2, <1>4, <1>5, <1>6, <1>7 DEF s, Tree

\* The order of acquisition, resource by resource.
LEMMA EarlierIs ==
  /\ Earlier("blkdev") = {} /\ Earlier("wq") = {"blkdev"}
  /\ Earlier("mempool") = {"blkdev", "wq"} /\ Earlier("driver") = {"blkdev", "wq", "mempool"}
<1>1. \A i \in 1..4 : Order[i] = (CASE i = 1 -> "blkdev" [] i = 2 -> "wq"
                                    [] i = 3 -> "mempool" [] i = 4 -> "driver")
  BY DEF Order
<1>2. /\ (CHOOSE k \in 1..4 : Order[k] = "blkdev") = 1
      /\ (CHOOSE k \in 1..4 : Order[k] = "wq") = 2
      /\ (CHOOSE k \in 1..4 : Order[k] = "mempool") = 3
      /\ (CHOOSE k \in 1..4 : Order[k] = "driver") = 4
  BY <1>1
<1>3. Order[1] = "blkdev" /\ Order[2] = "wq" /\ Order[3] = "mempool"  BY DEF Order
<1>4. 1..1-1 = {} /\ 1..2-1 = {1} /\ 1..3-1 = {1, 2} /\ 1..4-1 = {1, 2, 3}  OBVIOUS
<1>5. /\ Earlier("blkdev") = {Order[i] : i \in {}}
      /\ Earlier("wq") = {Order[i] : i \in {1}}
      /\ Earlier("mempool") = {Order[i] : i \in {1, 2}}
      /\ Earlier("driver") = {Order[i] : i \in {1, 2, 3}}
  BY <1>2, <1>4, Zenon DEF Earlier
<1> QED  BY <1>3, <1>5

\* No resource is given back while a device is there.
LEMMA GivenBackAlone ==
  ASSUME IInv, mod \notin {"live", "exit_pci"} \/ ExitPci, NEW d \in Devs
  PROVE  dev[d].queue = "none" /\ ~dev[d].misc
<1>1. pc[d] = "off"  BY Before DEF Held, ExitPci
<1> QED  BY <1>1, Before, ZenonT(30) DEF DevInv, At

\* What is given back is the last thing held, and no device uses it.
LEMMA NextInReverse ==
  ASSUME IInv, [Next]_vars, NEW r \in res \ res'
  PROVE  /\ \A q \in res' : r \notin Earlier(q)
         /\ \A d \in Devs : dev[d].queue = "none" /\ ~dev[d].misc
<1>1. ModInv /\ res # res'  BY DEF IInv
<1>2. CASE ExitPci
  <2>1. r = "driver" /\ res' \subseteq {"blkdev", "wq", "mempool"}
    BY <1>1, <1>2 DEF ExitPci, ModInv
  <2> QED  BY <1>2, <2>1, EarlierIs, GivenBackAlone
<1>3. CASE FreeMempool
  <2>1. r = "mempool" /\ res' \subseteq {"blkdev", "wq"} /\ mod = "free_mempool"
    BY <1>1, <1>3 DEF FreeMempool, ModInv
  <2> QED  BY <2>1, EarlierIs, GivenBackAlone
<1>4. CASE DestroyWq
  <2>1. r = "wq" /\ res' \subseteq {"blkdev"} /\ mod = "destroy_wq"
    BY <1>1, <1>4 DEF DestroyWq, ModInv
  <2> QED  BY <2>1, EarlierIs, GivenBackAlone
<1>5. CASE UnregisterBlkdev
  <2>1. res' = {} /\ mod = "unregister_blkdev"
    BY <1>1, <1>5 DEF UnregisterBlkdev, ModInv
  <2> QED  BY <2>1, GivenBackAlone
<1>6. CASE InitStart \/ InitWq \/ InitMempool \/ InitPci
  BY <1>1, <1>6 DEF InitStart, InitWq, InitMempool, InitPci, ModInv
<1>7. CASE ExitStart \/ WriteParam  BY <1>1, <1>7 DEF ExitStart, WriteParam
<1>8. CASE \E d \in Devs : Step(d)
  <2>1. PICK d \in Devs : Step(d)  BY <1>8
  <2>2. UNCHANGED modvars
    BY <2>1, ZenonT(30) DEF Step, Probe, ProbeQueue, ProbeMisc, ProbeSysfs, ProbeUndo, AttachAlloc,
                AttachAdd, IoctlAttach, IoctlDetach, Remove, OpenDisk, ReleaseDisk,
                OpenCtrl, ReleaseCtrl, IoctlUse, ReadHwmon
  <2> QED  BY <1>1, <2>2 DEF modvars
<1>9. CASE UNCHANGED vars  BY <1>1, <1>9 DEF vars
<1> QED  BY <1>2, <1>3, <1>4, <1>5, <1>6, <1>7, <1>8, <1>9 DEF Next, ModStep

-----------------------------------------------------------------------------
(* What the steps do to the module. *)

\* An outcome is recorded among the causes.
LEMMA OutcomeFields ==
  ASSUME ModInv, NEW ok, NEW c \in AllCauses \ {"mode", "back"}, Outcome(ok, c)
  PROVE  /\ causes \subseteq causes' /\ causes' \subseteq AllCauses /\ trouble' \in Nat
         /\ ok \/ c \in causes'
         /\ "back" \in causes' => "back" \in causes
         /\ "mode" \in causes' => "mode" \in causes
<1>1. trouble \in Nat /\ causes \subseteq AllCauses  BY DEF ModInv, Env, Envs
<1>2. CASE ok /\ UNCHANGED <<causes, trouble>>  BY <1>1, <1>2
<1>3. CASE trouble' = trouble + 1 /\ causes' = causes \cup {c}
  <2>1. trouble' \in Nat  BY <1>1, <1>3
  <2> QED  BY <1>1, <1>3, <2>1
<1> QED  BY <1>2, <1>3 DEF Outcome

\* The devices' part of the module's state after a step of a device.
LEMMA ModKept ==
  ASSUME ModInv, UNCHANGED modvars, ctrl' \subseteq Devs, binds' \in Nat, trouble' \in Nat,
         causes \subseteq causes', causes' \subseteq AllCauses,
         "back" \in causes' => "back" \in causes, "mode" \in causes' => "mode" \in causes,
         submit_bio' = submit_bio \/ submit_bio' = (submit_bio /\ ~iosched)
  PROVE  ModInv' /\ Later(Env, Env')
<1>1. /\ causes \in SUBSET AllCauses /\ scsi_mode \in BOOLEAN /\ iosched \in BOOLEAN
      /\ auto_attach \in BOOLEAN /\ submit_bio \in BOOLEAN
  BY DEF ModInv, Env, Envs
<1>2. scsi_mode' = scsi_mode /\ iosched' = iosched /\ auto_attach' = auto_attach
  BY DEF modvars, params
<1>3. submit_bio' \in BOOLEAN  BY <1>1, Zenon
<1>4. Env \in Envs /\ Env' \in Envs  BY <1>1, <1>2, <1>3 DEF Env, Envs
<1>5. ModInv'
  <2>1. mod' = mod /\ res' = res /\ percpu' = percpu  BY DEF modvars, params
  <2>2. "mode" \in causes' \/ "back" \in causes' => "params" \in causes'  BY Zenon DEF ModInv
  <2>3. "params" \notin causes' /\ ~submit_bio' => iosched'  BY <1>1, <1>2 DEF ModInv
  <2>4. /\ mod' \in Mods /\ res' \subseteq {"blkdev", "wq", "mempool", "driver"}
        /\ percpu' \in BOOLEAN /\ Env' \in Envs
        /\ trouble' \in Nat /\ binds' \in Nat /\ ctrl' \subseteq Devs
    BY <1>4, <2>1, Zenon DEF ModInv
  <2>5. /\ mod' = "out" => res' = {}
        /\ mod' = "init_pci" => "mempool" \in res'
        /\ mod' \in {"live", "exit_pci"} => {"mempool", "driver"} \subseteq res'
        /\ mod' \in {"init_mempool", "destroy_wq"} => res' \subseteq {"blkdev", "wq"}
        /\ mod' \in {"init_pci", "free_mempool"} => res' \subseteq {"blkdev", "wq", "mempool"}
        /\ mod' \in {"init_wq", "unregister_blkdev"} => res' \subseteq {"blkdev"}
        /\ mod' = "done" => res' = {}
    BY <2>1, ZenonT(30) DEF ModInv
  <2> QED  BY <2>2, <2>3, <2>4, <2>5, Zenon DEF ModInv
<1>6. Later(Env, Env')
  <2>1. /\ Env.causes = causes /\ Env'.causes = causes' /\ (Env'.scsi <=> Env.scsi)
        /\ (Env'.io <=> Env.io) /\ (Env'.auto <=> Env.auto)
        /\ (Env.sub <=> submit_bio) /\ (Env'.sub <=> submit_bio') /\ (Env.io <=> iosched)
    BY <1>1, <1>2, <1>3, Zenon DEF Env
  <2>2. /\ "back" \in causes => "params" \in causes
        /\ "back" \in causes' => "params" \in causes'
    BY <1>5, Zenon DEF ModInv
  <2>3. (submit_bio' <=> submit_bio) \/ (submit_bio' <=> submit_bio /\ ~iosched)
    BY Zenon
  <2> QED  BY <1>4, <2>1, <2>2, <2>3, Zenon DEF Later
<1> QED  BY <1>5, <1>6

\* The devices move and the module does not.
Onward == ModInv' /\ Later(Env, Env') /\ mod' = mod /\ ctrl' = ctrl

\* A step of a device that makes one call that may fail.
LEMMA OutcomeStep ==
  ASSUME IInv, UNCHANGED <<modvars, ctrl, binds>>, NEW ok, NEW c \in AllCauses \ {"mode", "back"},
         Outcome(ok, c), submit_bio' = submit_bio \/ submit_bio' = (submit_bio /\ ~iosched)
  PROVE  Onward /\ (ok \/ c \in Env'.causes)
<1>1. ModInv /\ ctrl' \subseteq Devs /\ binds' \in Nat  BY DEF IInv, ModInv
<1>2. ModInv' /\ Later(Env, Env') /\ (ok \/ c \in causes')
  BY <1>1, OutcomeFields, ModKept
<1> QED  BY <1>2 DEF Onward, modvars, Env

\* A step that touches neither parameters nor causes.
LEMMA QuietStep ==
  ASSUME IInv, UNCHANGED <<modvars, submit_bio, causes, bounds>>, ctrl' \subseteq Devs
  PROVE  ModInv' /\ Later(Env, Env') /\ Env' = Env /\ mod' = mod
<1>1. UNCHANGED modvars /\ UNCHANGED <<submit_bio, causes, trouble, binds>>  BY DEF bounds
<1>2. ModInv  BY DEF IInv
<1>3. causes \subseteq AllCauses /\ trouble \in Nat /\ binds \in Nat
  BY <1>2 DEF ModInv, Env, Envs
<1>4. ModInv' /\ Later(Env, Env')  BY <1>1, <1>2, <1>3, ModKept
<1>5. Env' = Env /\ mod' = mod  BY <1>1 DEF Env, modvars, params
<1> QED  BY <1>4, <1>5

\* Before and after the life of the driver every device is off.
LEMMA OffDevices ==
  ASSUME IInv, mod \notin {"live", "exit_pci"}, NEW m, NEW d \in Devs
  PROVE  Held(dev[d], pc[d], Env, m, d \in ctrl)
<1>1. Held(dev[d], pc[d], Env, mod, d \in ctrl)  BY DEF IInv
<1> QED  BY <1>1 DEF Held, Busy

\* The module moves, and leaves the devices and the parameters alone.
Aside ==
  /\ UNCHANGED <<pc, dev, ctrl>> /\ ModInv' /\ Later(Env, Env')
  /\ \A d \in Devs : Held(dev[d], pc[d], Env, mod', d \in ctrl)

\* The steps of shannon_init leave the devices aside.
LEMMA InitAside ==
  ASSUME IInv, InitStart \/ InitWq \/ InitMempool \/ InitPci
  PROVE  Aside
<1>1. ModInv /\ scsi_mode \in BOOLEAN /\ percpu \in BOOLEAN /\ causes \subseteq AllCauses
      /\ iosched \in BOOLEAN /\ auto_attach \in BOOLEAN /\ submit_bio \in BOOLEAN
  BY DEF IInv, ModInv, Env, Envs
<1>2. /\ UNCHANGED <<scsi_mode, iosched, auto_attach, submit_bio>> /\ UNCHANGED <<pc, dev, ctrl>>
      /\ binds' = binds /\ percpu' \in BOOLEAN /\ mod \notin {"live", "exit_pci"}
  BY <1>1 DEF InitStart, InitWq, InitMempool, InitPci, params
<1>3. /\ causes \subseteq causes' /\ causes' \subseteq AllCauses /\ trouble' \in Nat
      /\ "back" \in causes' => "back" \in causes
      /\ "mode" \in causes' => "mode" \in causes
  <2>1. CASE UNCHANGED <<causes, trouble>>  BY <1>1, <2>1 DEF ModInv
  <2>2. CASE \E ok \in BOOLEAN, c \in {"major", "nomem"} : Outcome(ok, c)
    BY <1>1, <2>2, OutcomeFields DEF AllCauses
  <2> QED  BY <2>1, <2>2 DEF InitStart, InitWq, InitMempool, InitPci
<1>4. Env \in Envs /\ Env' \in Envs  BY <1>1, <1>2, <1>3 DEF Env, Envs
<1>5. /\ mod' \in Mods /\ res' \subseteq {"blkdev", "wq", "mempool", "driver"}
      /\ mod' = "out" => res' = {}
      /\ mod' = "init_pci" => "mempool" \in res'
      /\ mod' \in {"live", "exit_pci"} => {"mempool", "driver"} \subseteq res'
      /\ mod' \in {"init_mempool", "destroy_wq"} => res' \subseteq {"blkdev", "wq"}
      /\ mod' \in {"init_pci", "free_mempool"} => res' \subseteq {"blkdev", "wq", "mempool"}
      /\ mod' \in {"init_wq", "unregister_blkdev"} => res' \subseteq {"blkdev"}
      /\ mod' = "done" => res' = {}
  <2>1. CASE InitStart  BY <2>1 DEF InitStart, Mods
  <2>2. CASE InitWq  BY <1>1, <2>2 DEF InitWq, Mods, ModInv
  <2>3. CASE InitMempool  BY <1>1, <2>3 DEF InitMempool, Mods, ModInv
  <2>4. CASE InitPci  BY <1>1, <2>4 DEF InitPci, Mods, ModInv
  <2> QED  BY <2>1, <2>2, <2>3, <2>4
<1>6. ModInv'  BY <1>1, <1>2, <1>3, <1>4, <1>5 DEF ModInv
<1>7. Later(Env, Env')  BY <1>1, <1>2, <1>3, <1>4, <1>6 DEF Later, Env, ModInv
<1> QED  BY <1>2, <1>6, <1>7, OffDevices DEF Aside

\* So do those of shannon_exit.
LEMMA ExitAside ==
  ASSUME IInv, ExitStart \/ ExitPci \/ FreeMempool \/ DestroyWq \/ UnregisterBlkdev
  PROVE  Aside
<1>1. /\ UNCHANGED params /\ UNCHANGED <<submit_bio, pc, dev, ctrl, causes, trouble, binds>>
  BY DEF ExitStart, ExitPci, FreeMempool, DestroyWq, UnregisterBlkdev, bounds
<1>2. ModInv /\ Env' = Env  BY <1>1 DEF IInv, Env, params
<1>3. ModInv'
  <2>1. /\ mod' \in Mods /\ res' \subseteq {"blkdev", "wq", "mempool", "driver"}
        /\ mod' = "out" => res' = {}
        /\ mod' = "init_pci" => "mempool" \in res'
        /\ mod' \in {"live", "exit_pci"} => {"mempool", "driver"} \subseteq res'
        /\ mod' \in {"init_mempool", "destroy_wq"} => res' \subseteq {"blkdev", "wq"}
        /\ mod' \in {"init_pci", "free_mempool"} => res' \subseteq {"blkdev", "wq", "mempool"}
        /\ mod' \in {"init_wq", "unregister_blkdev"} => res' \subseteq {"blkdev"}
        /\ mod' = "done" => res' = {}
    <3>1. CASE ExitStart  BY <1>2, <3>1 DEF ExitStart, Mods, ModInv
    <3>2. CASE ExitPci  BY <1>2, <3>2 DEF ExitPci, Mods, ModInv
    <3>3. CASE FreeMempool  BY <1>2, <3>3 DEF FreeMempool, Mods, ModInv
    <3>4. CASE DestroyWq  BY <1>2, <3>4 DEF DestroyWq, Mods, ModInv
    <3>5. CASE UnregisterBlkdev  BY <1>2, <3>5 DEF UnregisterBlkdev, Mods, ModInv
    <3> QED  BY <3>1, <3>2, <3>3, <3>4, <3>5
  <2> QED  BY <1>1, <1>2, <2>1 DEF ModInv, params
<1>4. Later(Env, Env')  BY <1>2 DEF Later, Env, ModInv
<1>5. \A d \in Devs : Held(dev[d], pc[d], Env, mod', d \in ctrl)
  <2>1. CASE ExitStart
    <3> SUFFICES ASSUME NEW d \in Devs
                 PROVE  Held(dev[d], pc[d], Env, "exit_pci", d \in ctrl)
      BY <2>1 DEF ExitStart
    <3>1. Openers(d) = 0 /\ d \notin ctrl  BY <2>1 DEF ExitStart
    <3>2. dev[d].users \in Nat  BY Before DEF Devices
    <3>3. pc[d] = "off" => dev[d].users = 0  BY <3>1, <3>2 DEF Openers
    <3>4. pc[d] \in Busy => dev[d].users = 1  BY <3>1, <3>2 DEF Openers, Busy
    <3> QED  BY <3>1, <3>3, <3>4 DEF Held
  <2>2. CASE ExitPci
    <3> SUFFICES ASSUME NEW d \in Devs
                 PROVE  Held(dev[d], pc[d], Env, mod', d \in ctrl)
      OBVIOUS
    <3>1. mod = "exit_pci" /\ pc[d] = "off"  BY <2>2 DEF ExitPci
    <3> QED  BY <3>1, Before DEF Held
  <2>3. CASE FreeMempool \/ DestroyWq \/ UnregisterBlkdev
    <3>1. mod \notin {"live", "exit_pci"}  BY <2>3 DEF FreeMempool, DestroyWq, UnregisterBlkdev
    <3> QED  BY <3>1, OffDevices
  <2> QED  BY <2>1, <2>2, <2>3
<1> QED  BY <1>1, <1>3, <1>4, <1>5 DEF Aside
=============================================================================
