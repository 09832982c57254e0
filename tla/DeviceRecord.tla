---------------------------- MODULE DeviceRecord ----------------------------
(***************************************************************************)
(* The record of a device of DriverLife for its proofs: how the operations *)
(* of the driver relate the record s before to the record t after, and the *)
(* invariant of a device, a property of its record s, of the step p it     *)
(* stands at, and of what it shares with the others, e: the parameters and *)
(* the causes of trouble so far.  DriverLifeInv shows that the operations  *)
(* are so related and that steps so related keep the invariant.            *)
(***************************************************************************)
EXTENDS DiskLife, SysfsTree

Tree == {"shannon", "pci_info"}
FaultNames == {"confused", "used_after_put", "null_host", "null_disk", "host_not_added",
               "stale_file"}
LostNames == {"disk", "queue", "mqdata", "host"}

Devices ==
  [alive : BOOLEAN, users : Nat, drvdata : {"none", "sdev", "host"},
   host : {"none", "alloc", "added", "removed"}, qos : BOOLEAN, misc : BOOLEAN,
   queue : {"none", "bio", "mq"}, qdata : {"none", "disk", "sdev", "mqdata"},
   mem : SUBSET MqParts, limits : SUBSET AllLimits,
   disk : {"none", "own", "extra", "junk"}, refs : {0, 1}, added : BOOLEAN,
   link : BOOLEAN, state : {0, 1, 2}, kobjs : SUBSET Tree,
   files : SUBSET (1..NAttr), hwmon : BOOLEAN, lost : SUBSET LostNames,
   faults : SUBSET FaultNames]

SameOwner(s, t) ==
  /\ t.alive = s.alive /\ t.users = s.users /\ t.drvdata = s.drvdata
  /\ t.host = s.host /\ t.qos = s.qos /\ t.misc = s.misc

SameQueue(s, t) ==
  t.queue = s.queue /\ t.qdata = s.qdata /\ t.mem = s.mem /\ t.limits = s.limits

SameDisk(s, t) ==
  t.disk = s.disk /\ t.refs = s.refs /\ t.added = s.added /\ t.link = s.link

SameTree(s, t) == t.kobjs = s.kobjs /\ t.files = s.files /\ t.hwmon = s.hwmon

\* Only what belongs to the owner may change.
SameBody(s, t) ==
  /\ t \in Devices /\ SameQueue(s, t) /\ SameDisk(s, t) /\ SameTree(s, t)
  /\ t.state = s.state /\ t.lost = s.lost /\ t.faults = s.faults

-----------------------------------------------------------------------------
(* The operations. *)

Faulted(s, f, t) ==
  /\ t \in Devices /\ SameOwner(s, t) /\ SameQueue(s, t) /\ SameDisk(s, t) /\ SameTree(s, t)
  /\ t.state = s.state /\ t.lost = s.lost /\ t.faults = s.faults \cup {f}

\* The first calls of a probe that has its host, or needs none.
Started(s, host, drvdata, t) ==
  /\ SameBody(s, t) /\ t.alive /\ t.users = 1 /\ t.drvdata = drvdata /\ t.host = host
  /\ t.qos /\ t.misc = s.misc

\* The miscdevice, which is registered or not.
Registered(s, t) ==
  /\ SameBody(s, t) /\ t.alive = s.alive /\ t.users = s.users
  /\ t.drvdata = s.drvdata /\ t.host = s.host

Rehosted(s, host, t) ==
  /\ SameBody(s, t) /\ t.alive = s.alive /\ t.users = s.users
  /\ t.drvdata = s.drvdata /\ t.misc = s.misc /\ t.host = host

\* shannon_attach_scsi and shannon_detach_scsi.
HostAdded(s, ok, t) ==
  \/ s.drvdata # "host" /\ Faulted(s, "confused", t)
  \/ s.drvdata = "host" /\ ~ok /\ t = s
  \/ s.drvdata = "host" /\ ok /\ Rehosted(s, "added", t)

HostRemoved(s, t) ==
  \/ s.host = "alloc" /\ Faulted(s, "host_not_added", t)
  \/ s.host # "alloc" /\ Rehosted(s, "removed", t)

\* The users of the device.
UsedBy(s, n, t) ==
  /\ SameBody(s, t) /\ t.users = n /\ t.drvdata = s.drvdata
  /\ t.host = s.host /\ t.qos = s.qos /\ t.misc = s.misc

\* The core's shannon_init_blk_queue.
Queued(s, io, stop, t) ==
  /\ t \in Devices /\ SameOwner(s, t) /\ SameDisk(s, t) /\ SameTree(s, t)
  /\ t.state = s.state /\ t.lost = s.lost /\ t.faults = s.faults
  /\ s.queue # "none" => SameQueue(s, t)
  /\ s.queue = "none" /\ stop = "none" =>
       /\ t.queue = IF io THEN "mq" ELSE "bio"
       /\ t.qdata = IF io THEN "mqdata" ELSE "disk"
       /\ t.limits = AllLimits
       /\ ~io => t.mem = s.mem
  /\ s.queue = "none" /\ stop # "none" =>
       /\ t.queue = "none" /\ t.qdata = s.qdata /\ t.limits = s.limits
       /\ ~io => t.mem = s.mem
       /\ stop \in {"mqdata", "tagset", "queue"} => t.mem \subseteq s.mem

\* shannon_attach_sdev up to the gendisk.
Allocated(s, io, stop, t) ==
  /\ t \in Devices /\ SameOwner(s, t) /\ SameTree(s, t) /\ t.state = s.state
  /\ t.lost = s.lost /\ t.queue = s.queue /\ t.mem = s.mem /\ t.limits = s.limits
  /\ t.added = s.added /\ t.link = s.link
  /\ s.disk # "none" \/ io => t.qdata = s.qdata /\ t.faults = s.faults
  /\ s.disk # "none" \/ (io /\ stop # "none") => t.disk = s.disk /\ t.refs = s.refs
  /\ s.disk = "none" /\ io /\ stop = "none" => t.disk = "extra" /\ t.refs = 1
  /\ s.disk = "none" /\ ~io =>
       /\ t.disk = IF s.qdata = "disk" THEN "own" ELSE "junk"
       /\ t.refs = 1 /\ t.qdata = "sdev"
       /\ t.faults = IF s.qdata = "disk" THEN s.faults ELSE s.faults \cup {"confused"}

\* Touching a gendisk that is none, or that nobody holds.
Misuse(s) ==
  IF s.disk = "junk" THEN {"confused"}
  ELSE IF s.refs = 0 THEN {"used_after_put"} ELSE {}

\* What a cleanup of the queue, if there is one, complains of and loses.
CleanFaults(s, io) ==
  IF s.queue # "none" /\ io /\ s.qdata # "mqdata" THEN {"confused"} ELSE {}

CleanLost(s, io) ==
  IF s.queue = "none" THEN {}
  ELSE (IF s.qdata = "disk" THEN {"disk"} ELSE {})
         \cup (IF s.queue = "mq" THEN {"queue"} ELSE {})
         \cup (IF s.mem # {} /\ ~(io /\ s.qdata = "mqdata") THEN {"mqdata"} ELSE {})

NoQueue(s, io, t) ==
  /\ t \in Devices /\ SameOwner(s, t) /\ SameDisk(s, t) /\ SameTree(s, t) /\ t.state = s.state
  /\ s.queue = "none" => SameQueue(s, t)
  /\ t.queue = "none"
  /\ s.queue # "none" => t.qdata = "none" /\ t.mem = {} /\ t.limits = {}
  /\ t.faults = s.faults \cup CleanFaults(s, io) /\ t.lost = s.lost \cup CleanLost(s, io)

Detached(s, io, t) ==
  /\ t \in Devices /\ SameOwner(s, t) /\ SameTree(s, t) /\ t.queue = "none"
  /\ s.queue = "none" => SameQueue(s, t)
  /\ s.queue # "none" => t.qdata = "none" /\ t.mem = {} /\ t.limits = {}
  /\ s.disk = "none" => SameDisk(s, t) /\ t.state = s.state
  /\ s.disk # "none" =>
       /\ t.disk = "none" /\ t.refs = 0 /\ t.added = FALSE
       /\ t.link = IF s.state = 2 THEN FALSE ELSE s.link
       /\ t.state = IF s.state = 2 THEN 1 ELSE s.state
  /\ t.faults = s.faults \cup (IF s.disk = "none" THEN {} ELSE Misuse(s)) \cup CleanFaults(s, io)
  /\ t.lost = s.lost \cup CleanLost(s, io)

\* shannon_attach_sdev from the gendisk on.
Attached(s, io, addOk, linkOk, t) ==
  /\ t \in Devices /\ SameOwner(s, t) /\ SameTree(s, t)
  /\ addOk /\ linkOk =>
       /\ SameQueue(s, t) /\ t.disk = s.disk /\ t.refs = 1 /\ t.added = TRUE /\ t.link = TRUE
       /\ t.state = 2 /\ t.lost = s.lost
  /\ ~(addOk /\ linkOk) =>
       /\ t.disk = "none" /\ t.refs = 0 /\ t.added = FALSE /\ t.link = FALSE /\ t.state = 1
       /\ t.queue = "none" /\ t.qdata = "none" /\ t.mem = {} /\ t.limits = {}
       /\ t.lost = s.lost \cup CleanLost(s, io)
  /\ "confused" \in t.faults =>
       "confused" \in s.faults \/ s.disk = "junk" \/ CleanFaults(s, io) # {}
  /\ "used_after_put" \in t.faults => "used_after_put" \in s.faults \/ ~addOk
  /\ \A f \in t.faults : f \in s.faults \/ f \in {"confused", "used_after_put"}

\* __shannon_remove.
CoreRemoved(s, io, t) ==
  /\ t \in Devices /\ SameDisk(s, t) /\ t.users = s.users - 1 /\ t.alive = (s.users > 1)
  /\ t.drvdata = s.drvdata /\ t.host = s.host /\ t.qos = FALSE /\ t.misc = FALSE
  /\ t.state = (IF s.state = 1 THEN 0 ELSE s.state)
  /\ t.kobjs = (IF s.state = 1 THEN {} ELSE s.kobjs) /\ t.files = {} /\ t.hwmon = FALSE
  /\ s.queue = "none" => SameQueue(s, t)
  /\ t.queue = "none"
  /\ s.queue # "none" => t.qdata = "none" /\ t.mem = {} /\ t.limits = {}
  /\ t.faults = s.faults \cup CleanFaults(s, io) /\ t.lost = s.lost \cup CleanLost(s, io)

\* The hwmon files and the sysfs tree.
Grown(s, stop, t) ==
  /\ t \in Devices /\ SameOwner(s, t) /\ SameQueue(s, t) /\ SameDisk(s, t)
  /\ t.lost = s.lost /\ t.faults = s.faults
  /\ ~t.hwmon => ~s.hwmon /\ t.files \subseteq s.files
  /\ stop = "none" => t.kobjs = Tree /\ t.state = 1
  /\ stop # "none" => t.kobjs \subseteq s.kobjs /\ t.state = s.state

GivenUp(s, t) ==
  /\ t \in Devices /\ SameQueue(s, t) /\ SameDisk(s, t)
  /\ t.state = s.state /\ t.lost \subseteq s.lost \cup {"host"} /\ t.faults = s.faults
  /\ ~t.alive /\ t.users = 0 /\ t.host = "none" /\ ~t.qos /\ ~t.misc
  /\ t.kobjs = s.kobjs /\ ~t.hwmon /\ t.files = {}

\* The rest of a removal: the core lets go, and the driver data is cleared.
Parted(c, r) ==
  /\ r \in Devices /\ SameQueue(c, r) /\ SameDisk(c, r) /\ SameTree(c, r)
  /\ r.state = c.state /\ r.lost = c.lost /\ r.faults = c.faults
  /\ r.alive = c.alive /\ r.users = c.users /\ r.qos = c.qos /\ r.misc = c.misc
  /\ r.drvdata = "none" /\ r.host = "none"

-----------------------------------------------------------------------------
(* The invariant of a device. *)

\* A device between the start of its probe and the end of its removal.
Busy == {"queue", "misc", "sysfs", "undo", "attach", "add", "bound"}
Early == {"queue", "misc", "sysfs", "undo"}
Steps == Busy \cup {"off", "dead"}
Mods == {"out", "init_wq", "init_mempool", "init_pci", "live", "exit_pci",
         "free_mempool", "destroy_wq", "unregister_blkdev", "done"}
AllCauses == {"major", "nomem", "nohost", "nodisk", "probe", "hwmon", "attach", "addhost",
              "addfail", "params", "mode", "back", "unbind"}

\* What the devices share.
Envs == [causes : SUBSET AllCauses, scsi : BOOLEAN, io : BOOLEAN, auto : BOOLEAN,
         sub : BOOLEAN]

\* Explained and MayLose, over e.
Excuse(f, e) ==
  \/ f = "confused" /\ "params" \in e.causes
  \/ f = "used_after_put" /\ "addfail" \in e.causes
  \/ f = "null_host" /\ "nohost" \in e.causes
  \/ f = "null_disk" /\ "nodisk" \in e.causes
  \/ /\ f = "host_not_added"
     /\ \/ ~e.auto \/ "addhost" \in e.causes
        \/ "attach" \in e.causes \/ "back" \in e.causes
  \/ f = "stale_file" /\ ("unbind" \in e.causes \/ "probe" \in e.causes)

MayGo(x, e) ==
  \/ /\ x = "disk"
     /\ \/ e.scsi \/ ~e.auto \/ "params" \in e.causes
        \/ "probe" \in e.causes \/ "attach" \in e.causes
  \/ x = "queue" /\ (e.io \/ "params" \in e.causes)
  \/ x = "mqdata" /\ "params" \in e.causes
  \/ x = "host" /\ "probe" \in e.causes

\* The parts of a record agree with each other.
Sound(s) ==
  /\ s.disk = "none" <=> s.refs = 0
  /\ s.added => s.disk # "none"
  /\ s.queue = "none" => s.qdata = "none" /\ s.limits = {}
  /\ s.queue # "none" => s.limits = AllLimits
  /\ s.queue # "mq" => s.mem = {}
  /\ ~s.hwmon => s.files = {}
  /\ s.misc => s.alive

\* What there is of a device at each step of its probe and removal.
At(s, p, e) ==
  /\ p \in Busy => /\ s.alive /\ s.users \in {1, 2} /\ s.drvdata # "none"
                   /\ s.drvdata = "host" <=> s.host # "none"
  /\ p = "off" => /\ s.queue = "none" /\ ~s.misc /\ s.host = "none" /\ ~s.hwmon
                  /\ ~s.qos /\ s.users \in {0, 1} /\ (s.alive => s.users = 1)
  /\ p = "add" => s.disk # "none" /\ s.queue # "none"
  /\ p \in {"attach", "add", "bound"} => s.kobjs = Tree
  /\ p = "undo" => "probe" \in e.causes

Excused(s, e) ==
  /\ \A f \in s.faults : Excuse(f, e)
  /\ \A x \in s.lost : MayGo(x, e)

\* While no parameter is written, queue, disk and driver data are of the kind
\* the parameters ask for.
Steady(s, p, e) ==
  "params" \notin e.causes =>
    /\ s.disk # "junk"
    /\ s.queue = "bio" => ~e.io
    /\ s.queue = "mq" => e.io /\ s.qdata = "mqdata"
    /\ s.queue = "bio" /\ s.disk = "none" => s.qdata = "disk"
    /\ s.qdata = "disk" => s.disk = "none"
    /\ p \in Busy => (s.drvdata = "host" <=> e.scsi)
    /\ p \in {"attach", "bound"} /\ s.disk # "none" => (e.sub <=> ~e.io)

\* A disk still waiting in queuedata was not attached, for a reason.
Waiting(s, p, e) == p = "bound" /\ s.qdata = "disk" => MayGo("disk", e)

\* A host outlives the mode it was made in only when that was written; it is
\* left unadded only for a reason.
Hosted(s, p, e) ==
  /\ s.host # "none" /\ ~e.scsi => "mode" \in e.causes
  /\ p \in {"add", "bound"} /\ s.host = "alloc" /\ e.scsi => Excuse("host_not_added", e)

\* As long as the mode was not written back, a disk is whole or gone.
Whole(s, p, e) ==
  "back" \notin e.causes =>
    /\ s.disk # "none" /\ s.host # "none" => ~e.scsi
    /\ p \in Early \cup {"off"} =>
         s.disk = "none" /\ s.kobjs = {} /\ s.state = 0 /\ ~s.link
    /\ p = "add" => ~s.added /\ ~s.link /\ s.state = 1
    /\ p \in {"attach", "bound"} =>
         /\ s.disk = "none" => ~s.link /\ s.state = 1
         /\ s.disk # "none" => s.added /\ s.link /\ s.state = 2 /\ s.queue # "none"

DevInv(s, p, e) ==
  /\ s \in Devices /\ p \in Steps /\ Sound(s) /\ At(s, p, e) /\ Excused(s, e)
  /\ Steady(s, p, e) /\ Waiting(s, p, e) /\ Hosted(s, p, e) /\ Whole(s, p, e)

\* The users of a device and its control file, which is open or not, while the
\* module is at m.
Held(s, p, e, m, open) ==
  /\ p # "off" => m \in {"live", "exit_pci"}
  /\ m # "live" => /\ p = "off" => s.users = 0
                   /\ p \in Busy => s.users = 1
                   /\ ~open
  /\ open /\ (p = "off" \/ ~s.alive) => Excuse("stale_file", e)

\* The holders of a disk: Openers over one device.
Holders(s, p) == s.users - (IF p \in {"off", "dead"} THEN 0 ELSE 1)

-----------------------------------------------------------------------------
(* Steps of other devices, and of the parameters. *)

\* From e to g the parameters stay, causes are added, and the shared
\* operations may lose submit_bio.
Later(e, g) ==
  /\ e \in Envs /\ g \in Envs /\ e.causes \subseteq g.causes
  /\ "back" \in e.causes => "params" \in e.causes
  /\ "back" \in g.causes => "params" \in g.causes
  /\ (g.scsi <=> e.scsi) /\ (g.io <=> e.io) /\ (g.auto <=> e.auto)
  /\ (g.sub <=> e.sub) \/ (g.sub <=> e.sub /\ ~e.io)

\* A write to scsi_mode, or to iosched.
Written(e, g) ==
  /\ e \in Envs /\ g \in Envs /\ (g.auto <=> e.auto) /\ (g.sub <=> e.sub)
  /\ \/ /\ (g.scsi <=> ~e.scsi) /\ (g.io <=> e.io)
        /\ g.causes = e.causes \cup {"params", IF "mode" \in e.causes THEN "back" ELSE "mode"}
     \/ /\ (g.io <=> ~e.io) /\ (g.scsi <=> e.scsi)
        /\ g.causes = e.causes \cup {"params"}
=============================================================================
