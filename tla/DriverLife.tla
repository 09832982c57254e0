----------------------------- MODULE DriverLife -----------------------------
(***************************************************************************)
(* The life of the module and of its devices: shannon_init, shannon_exit,  *)
(* the probe and remove entry points in block and in SCSI mode, the        *)
(* control files and the users of the disk, over DiskLife and SysfsTree.   *)
(*                                                                         *)
(* The core (shannon_probe, shannon_attach, shannon_detach, shannon_remove *)
(* of the shipped objects) is external: it makes the calls below in the    *)
(* order of its relocations.  scsi_mode and iosched are module parameters  *)
(* that can be written while the module runs; each entry point reads them  *)
(* again.  causes records what went wrong so far, so that the properties   *)
(* can say exactly which trouble explains which fault or loss.             *)
(***************************************************************************)
EXTENDS DiskLife, SysfsTree

CONSTANTS Devs,         \* PCI functions
          MaxTrouble,   \* bound: kernel calls that fail, and writes to a
                        \* parameter, of which each counts as two
          MaxBind       \* bound: probes, of all devices together

VARIABLES mod,          \* where shannon_init or shannon_exit stands
          res,          \* module resources held
          scsi_mode, iosched, percpu, auto_attach,   \* module parameters
          submit_bio,   \* shannon_ops.submit_bio is set
          pc,           \* where the probe or removal of a device stands
          dev,          \* the records of the devices
          ctrl,         \* devices whose control file is open
          causes, trouble, binds

params == <<scsi_mode, iosched, percpu, auto_attach>>
vars == <<mod, res, params, submit_bio, pc, dev, ctrl, causes, trouble, binds>>
modvars == <<mod, res, params>>
bounds == <<trouble, binds>>

\* Acquisition order of shannon_init.
Order == <<"blkdev", "wq", "mempool", "driver">>
Earlier(r) == {Order[i] : i \in 1..(CHOOSE k \in 1..4 : Order[k] = r) - 1}

Absent == [alive |-> FALSE, users |-> 0, drvdata |-> "none", host |-> "none",
           qos |-> FALSE, misc |-> FALSE, queue |-> "none", qdata |-> "none",
           mem |-> {}, limits |-> {}, disk |-> "none", refs |-> 0,
           added |-> FALSE, link |-> FALSE, state |-> 0, kobjs |-> {},
           files |-> {}, hwmon |-> FALSE, lost |-> {}, faults |-> {}]

Init ==
  /\ mod = "out" /\ res = {} /\ submit_bio = TRUE
  /\ scsi_mode \in BOOLEAN /\ iosched \in BOOLEAN
  /\ percpu \in BOOLEAN /\ auto_attach \in BOOLEAN
  /\ pc = [d \in Devs |-> "off"] /\ dev = [d \in Devs |-> Absent]
  /\ ctrl = {} /\ causes = {} /\ trouble = 0 /\ binds = 0

\* The holders of the disk; a bound device is a user of its own.
Openers(d) == dev[d].users - (IF pc[d] \in {"off", "dead"} THEN 0 ELSE 1)

\* A kernel call succeeds, or fails for the recorded cause.
Outcome(ok, cause) ==
  \/ ok /\ UNCHANGED <<causes, trouble>>
  \/ ~ok /\ trouble < MaxTrouble /\ trouble' = trouble + 1 /\ causes' = causes \cup {cause}

(***************************************************************************)
(* Module init and exit.                                                   *)
(***************************************************************************)

\* SCSI mode forces the per-CPU work queue; the major is taken without a test.
InitStart ==
  /\ mod = "out"
  /\ percpu' = (percpu \/ scsi_mode)
  /\ \E ok \in BOOLEAN : /\ Outcome(ok, "major")
                         /\ res' = IF ok THEN {"blkdev"} ELSE {}
  /\ mod' = "init_wq"
  /\ UNCHANGED <<scsi_mode, iosched, auto_attach, submit_bio, pc, dev, ctrl, binds>>

InitWq ==
  /\ mod = "init_wq"
  /\ \E ok \in BOOLEAN :
       /\ IF percpu THEN Outcome(ok, "nomem") ELSE ok /\ UNCHANGED <<causes, trouble>>
       /\ res' = IF percpu /\ ok THEN res \cup {"wq"} ELSE res
       /\ mod' = IF ok THEN "init_mempool" ELSE "unregister_blkdev"
  /\ UNCHANGED <<params, submit_bio, pc, dev, ctrl, binds>>

InitMempool ==
  /\ mod = "init_mempool"
  /\ \E ok \in BOOLEAN :
       /\ Outcome(ok, "nomem")
       /\ res' = IF ok THEN res \cup {"mempool"} ELSE res
       /\ mod' = IF ok THEN "init_pci" ELSE "destroy_wq"
  /\ UNCHANGED <<params, submit_bio, pc, dev, ctrl, binds>>

InitPci ==
  /\ mod = "init_pci"
  /\ \E ok \in BOOLEAN :
       /\ Outcome(ok, "nomem")
       /\ res' = IF ok THEN res \cup {"driver"} ELSE res
       /\ mod' = IF ok THEN "live" ELSE "free_mempool"
  /\ UNCHANGED <<params, submit_bio, pc, dev, ctrl, binds>>

\* rmmod waits for the files and disks that hold the module; then the driver
\* is unregistered, which removes every device first.
ExitStart ==
  /\ mod = "live" /\ ctrl = {} /\ \A d \in Devs : Openers(d) = 0
  /\ mod' = "exit_pci"
  /\ UNCHANGED <<res, params, submit_bio, pc, dev, ctrl, causes, bounds>>

ExitPci ==
  /\ mod = "exit_pci" /\ \A d \in Devs : pc[d] = "off"
  /\ mod' = "free_mempool" /\ res' = res \ {"driver"}
  /\ UNCHANGED <<params, submit_bio, pc, dev, ctrl, causes, bounds>>

\* Mutant: the work queue goes before the pool.
FreeWqFirst ==
  /\ mod = "free_mempool" /\ mod' = "destroy_wq" /\ res' = res \ {"wq"}
  /\ UNCHANGED <<params, submit_bio, pc, dev, ctrl, causes, bounds>>

\* The tail that shannon_exit and the labels of shannon_init share.
FreeMempool ==
  /\ mod = "free_mempool" /\ mod' = "destroy_wq" /\ res' = res \ {"mempool"}
  /\ UNCHANGED <<params, submit_bio, pc, dev, ctrl, causes, bounds>>

DestroyWq ==
  /\ mod = "destroy_wq" /\ mod' = "unregister_blkdev" /\ res' = res \ {"wq"}
  /\ UNCHANGED <<params, submit_bio, pc, dev, ctrl, causes, bounds>>

UnregisterBlkdev ==
  /\ mod = "unregister_blkdev" /\ mod' = "done" /\ res' = res \ {"blkdev"}
  /\ UNCHANGED <<params, submit_bio, pc, dev, ctrl, causes, bounds>>

\* A parameter is written through /sys/module while the module is there.
WriteParam ==
  /\ mod = "live" /\ trouble + 2 <= MaxTrouble /\ trouble' = trouble + 2
  /\ \/ /\ scsi_mode' = ~scsi_mode /\ UNCHANGED <<iosched, percpu>>
        /\ causes' = causes \cup {"params", IF "mode" \in causes THEN "back" ELSE "mode"}
     \/ /\ iosched' = ~iosched /\ UNCHANGED <<scsi_mode, percpu>>
        /\ causes' = causes \cup {"params"}
  /\ UNCHANGED <<mod, res, auto_attach, submit_bio, pc, dev, ctrl, binds>>

(***************************************************************************)
(* Probe.  Go(d, s, at) puts device d in state s at step at.               *)
(***************************************************************************)

Go(d, s, at) == dev' = [dev EXCEPT ![d] = s] /\ pc' = [pc EXCEPT ![d] = at]

\* In SCSI mode the host comes first and is used without a test; it is what
\* the driver data points to.
shannon_scsi_probe(s, ok) ==
  IF ok THEN [s EXCEPT !.host = "alloc", !.drvdata = "host"] ELSE Fault(s, "null_host")

\* shannon_probe_wrapper, up to the core's first calls.
Probe(d) ==
  /\ mod = "live" /\ pc[d] = "off" /\ ~dev[d].alive /\ binds < MaxBind
  /\ binds' = binds + 1
  /\ \E ok \in BOOLEAN :
       /\ IF scsi_mode THEN Outcome(ok, "nohost") ELSE ok /\ UNCHANGED <<causes, trouble>>
       /\ LET s == IF scsi_mode THEN shannon_scsi_probe(dev[d], ok)
                   ELSE [dev[d] EXCEPT !.drvdata = "sdev"]
          IN IF ~ok THEN Go(d, s, "dead")
             ELSE Go(d, [s EXCEPT !.alive = TRUE, !.users = 1, !.qos = TRUE], "queue")
  /\ UNCHANGED <<modvars, submit_bio, ctrl>>

\* A gendisk that cannot be allocated ends the thread ("dead").
ProbeQueue(d) ==
  /\ pc[d] = "queue"
  /\ \E stop \in {"none", "mqdata", "tagset", "queue"} :
       LET s == shannon_init_blk_queue(dev[d], iosched, stop)
       IN /\ Outcome(stop = "none", IF iosched THEN "probe" ELSE "nodisk")
          /\ Go(d, s, IF s.queue # "none" THEN "misc" ELSE IF iosched THEN "undo" ELSE "dead")
  /\ UNCHANGED <<modvars, submit_bio, ctrl, binds>>

shannon_create_miscdevice(s, ok) == [s EXCEPT !.misc = ok]

shannon_destroy_miscdevice(s) == [s EXCEPT !.misc = FALSE]

\* The control device, then the rest of the core's start-up.
ProbeMisc(d) ==
  /\ pc[d] = "misc"
  /\ \E ok \in BOOLEAN, built \in BOOLEAN :
       /\ ok \/ ~built
       /\ Outcome(ok /\ built, "probe")
       /\ Go(d, shannon_create_miscdevice(dev[d], ok), IF built THEN "sysfs" ELSE "undo")
  /\ UNCHANGED <<modvars, submit_bio, ctrl, binds>>

\* A failing hwmon is tolerated, a failing sysfs tree is not.
ProbeSysfs(d) ==
  /\ pc[d] = "sysfs"
  /\ \E i \in 0..NAttr + 1, stop \in {"none", "shannon", "pci_info"} :
       LET s == shannon_sysfs_init(shannon_hwmon_init(dev[d], i), stop)
       IN /\ i = 0 \/ stop = "none"
          /\ Outcome(i = 0 /\ stop = "none", IF i = 0 THEN "probe" ELSE "hwmon")
          /\ IF stop # "none" THEN Go(d, s, "undo")
             ELSE Go(d, [s EXCEPT !.state = 1],
                     IF auto_attach THEN "attach" ELSE "bound")
  /\ UNCHANGED <<modvars, submit_bio, ctrl, binds>>

\* The core's error path: everything probe made, but not the SCSI host.
ProbeUndo(d) ==
  /\ pc[d] = "undo"
  /\ LET h == [shannon_destroy_miscdevice(shannon_hwmon_exit(dev[d])) EXCEPT !.qos = FALSE,
                 !.drvdata = IF scsi_mode THEN @ ELSE "none",
                 !.alive = FALSE, !.users = 0,
                 !.lost = IF dev[d].host = "none" THEN @ ELSE @ \cup {"host"},
                 !.host = "none"]
     IN Go(d, IF h.queue = "none" THEN h ELSE shannon_blk_cleanup_queue(h, iosched),
           "off")
  /\ UNCHANGED <<modvars, submit_bio, ctrl, causes, bounds>>

(***************************************************************************)
(* Attach, detach, removal.                                                *)
(***************************************************************************)

shannon_attach_scsi(s, ok) ==
  IF s.drvdata # "host" THEN Fault(s, "confused")
  ELSE IF ok THEN [s EXCEPT !.host = "added"] ELSE s

\* shannon_attach: a missing queue is made again; then the SCSI host is added
\* or the gendisk allocated.  Its failure is tolerated by the probe.
AttachAlloc(d) ==
  /\ pc[d] = "attach"
  /\ \E stop \in {"none", "queue", "disk", "disk_shown", "host"} :
       LET s == shannon_init_blk_queue(dev[d], iosched, IF stop = "queue" THEN stop ELSE "none")
           a == attach_alloc(s, iosched, stop)
       IN CASE s.queue = "none" ->
                 /\ Outcome(FALSE, IF iosched THEN "attach" ELSE "nodisk")
                 /\ Go(d, s, IF iosched THEN "bound" ELSE "dead")
            [] s.queue # "none" /\ scsi_mode ->
                 /\ stop \in {"none", "host"}
                 /\ Outcome(stop = "none", "addhost")
                 /\ Go(d, shannon_attach_scsi(s, stop = "none"), "bound")
            [] s.queue # "none" /\ ~scsi_mode ->
                 /\ \/ stop = "none"
                    \/ stop \in {"disk", "disk_shown"} /\ iosched /\ s.disk = "none"
                 /\ Outcome(stop = "none", IF stop = "disk" THEN "attach" ELSE "nodisk")
                 /\ Go(d, a, IF stop = "disk_shown" THEN "dead"
                             ELSE IF s.disk = "none" /\ a.disk # "none" THEN "add" ELSE "bound")
  /\ UNCHANGED <<modvars, submit_bio, ctrl, binds>>

\* With an I/O scheduler submit_bio is cleared in the operations that all
\* block-mode disks share, and nothing sets it again.
shannon_init_gendisk(submit, io) == submit /\ ~io

\* The rest of shannon_attach_sdev.
AttachAdd(d) ==
  /\ pc[d] = "add"
  /\ submit_bio' = shannon_init_gendisk(submit_bio, iosched)
  /\ \E addOk, linkOk \in BOOLEAN :
       /\ addOk \/ linkOk
       /\ Outcome(addOk /\ linkOk, IF addOk THEN "attach" ELSE "addfail")
       /\ Go(d, attach_add(dev[d], iosched, addOk, linkOk), "bound")
  /\ UNCHANGED <<modvars, ctrl, binds>>

\* The control file's attach and detach commands, in block mode.
IoctlAttach(d) ==
  /\ d \in ctrl /\ pc[d] = "bound" /\ ~scsi_mode /\ Go(d, dev[d], "attach")
  /\ UNCHANGED <<modvars, submit_bio, ctrl, causes, bounds>>

IoctlDetach(d) ==
  /\ d \in ctrl /\ pc[d] = "bound" /\ ~scsi_mode /\ dev[d].users = 1
  /\ Go(d, shannon_detach(dev[d], iosched), "bound")
  /\ UNCHANGED <<modvars, submit_bio, ctrl, causes, bounds>>

\* The last user frees the device.
sh_decrease_users(s) == [s EXCEPT !.users = @ - 1, !.alive = (s.users > 1)]

shannon_detach_scsi(s) ==
  IF s.host = "alloc" THEN Fault(s, "host_not_added") ELSE [s EXCEPT !.host = "removed"]

\* __shannon_remove after shannon_detach.
core_remove(s, io) ==
  LET k == IF s.state = 1 THEN [shannon_sysfs_exit(s) EXCEPT !.state = 0] ELSE s
      h == [shannon_destroy_miscdevice(shannon_hwmon_exit(k)) EXCEPT !.qos = FALSE]
  IN sh_decrease_users(IF h.queue = "none" THEN h ELSE shannon_blk_cleanup_queue(h, io))

\* shannon_remove on the host's device, then the host is put.
shannon_scsi_remove(s, io) ==
  [core_remove(shannon_detach_scsi(s), io) EXCEPT !.host = "none", !.drvdata = "none"]

\* shannon_remove_wrapper: whether the driver data is the host or the device
\* is decided by the parameter as it is now.
Remove(d) ==
  /\ pc[d] = "bound" /\ mod \in {"live", "exit_pci"}
  /\ causes' = IF mod = "live" THEN causes \cup {"unbind"} ELSE causes
  /\ IF dev[d].drvdata # (IF scsi_mode THEN "host" ELSE "sdev")
     THEN Go(d, Fault(dev[d], "confused"), "dead")
     ELSE IF scsi_mode
     THEN Go(d, shannon_scsi_remove(dev[d], iosched), "off")
     ELSE Go(d, [core_remove(shannon_detach(dev[d], iosched), iosched)
                   EXCEPT !.drvdata = "none"], "off")
  /\ UNCHANGED <<modvars, submit_bio, ctrl, bounds>>

(***************************************************************************)
(* Users.                                                                  *)
(***************************************************************************)

\* shannon_open counts a user; the block layer opens a live disk of a module
\* that is not going away.
OpenDisk(d) ==
  /\ mod = "live" /\ dev[d].added /\ Openers(d) = 0 /\ dev[d].disk \in {"own", "extra"}
  /\ Go(d, [dev[d] EXCEPT !.users = @ + 1], pc[d])
  /\ UNCHANGED <<modvars, submit_bio, ctrl, causes, bounds>>

\* shannon_release; the disk's holder keeps the module.
ReleaseDisk(d) ==
  /\ pc[d] # "dead" /\ Openers(d) = 1
  /\ Go(d, sh_decrease_users(dev[d]), pc[d])
  /\ UNCHANGED <<modvars, submit_bio, ctrl, causes, bounds>>

\* shannon_ctrl_miscdevice_open finds the device by its minor and keeps a bare
\* pointer to it; shannon_ctrl_miscdevice_release has nothing to give back.
OpenCtrl(d) ==
  /\ dev[d].misc /\ mod = "live" /\ d \notin ctrl /\ ctrl' = ctrl \cup {d}
  /\ UNCHANGED <<modvars, submit_bio, pc, dev, causes, bounds>>

ReleaseCtrl(d) ==
  /\ d \in ctrl /\ ctrl' = ctrl \ {d}
  /\ UNCHANGED <<modvars, submit_bio, pc, dev, causes, bounds>>

\* Any other command of the control file.
IoctlUse(d) ==
  /\ d \in ctrl /\ ~dev[d].alive
  /\ Go(d, Fault(dev[d], "stale_file"), pc[d])
  /\ UNCHANGED <<modvars, submit_bio, ctrl, causes, bounds>>

\* A read or a write of an hwmon attribute of a bound device.
ReadHwmon(d) ==
  /\ pc[d] = "bound" /\ dev[d].files # {}
  /\ dev[d].drvdata # shannon_device_show(scsi_mode)
  /\ Go(d, Fault(dev[d], "confused"), pc[d])
  /\ UNCHANGED <<modvars, submit_bio, ctrl, causes, bounds>>

Step(d) ==
  \/ Probe(d) \/ ProbeQueue(d) \/ ProbeMisc(d) \/ ProbeSysfs(d) \/ ProbeUndo(d)
  \/ AttachAlloc(d) \/ AttachAdd(d) \/ IoctlAttach(d) \/ IoctlDetach(d)
  \/ Remove(d) \/ OpenDisk(d) \/ ReleaseDisk(d) \/ OpenCtrl(d)
  \/ ReleaseCtrl(d) \/ IoctlUse(d) \/ ReadHwmon(d)

ModStep ==
  \/ InitStart \/ InitWq \/ InitMempool \/ InitPci \/ ExitStart \/ ExitPci
  \/ FreeMempool \/ DestroyWq \/ UnregisterBlkdev \/ WriteParam

Next == ModStep \/ \E d \in Devs : Step(d)

Spec == Init /\ [][Next]_vars

(***************************************************************************)
(* Properties.                                                             *)
(***************************************************************************)

\* What can lead to each misuse.
Explained(f) ==
  CASE f = "confused"       -> "params" \in causes
    [] f = "used_after_put" -> "addfail" \in causes
    [] f = "null_host"      -> "nohost" \in causes
    [] f = "null_disk"      -> "nodisk" \in causes
    [] f = "host_not_added" -> ~auto_attach \/ causes \cap {"addhost", "attach", "back"} # {}
    [] f = "stale_file"     -> causes \cap {"unbind", "probe"} # {}
    [] OTHER                -> FALSE

\* No handler of shannon_block.c, shannon_scsi.c or shannon_module_init.c takes
\* one structure for another, uses a gendisk after its last reference, or uses
\* a host or a gendisk it does not have, in any interleaving of the devices,
\* except for a trouble that explains it: a parameter written while the module
\* runs, an add_disk that fails, a gendisk that cannot be allocated, a host that
\* cannot be allocated or added, a control file kept open over an unbind or
\* over a probe that fails.
FaultsExplained == \A d \in Devs : \A f \in dev[d].faults : Explained(f)

\* What can lead to each loss.
MayLose(x) ==
  CASE x = "disk"   -> \/ scsi_mode \/ ~auto_attach
                       \/ causes \cap {"params", "probe", "attach"} # {}
    [] x = "queue"  -> iosched \/ "params" \in causes
    [] x = "mqdata" -> "params" \in causes
    [] x = "host"   -> "probe" \in causes
    [] OTHER        -> FALSE

\* When shannon_init has failed or shannon_exit has returned, no module
\* resource is held and every device is back to nothing: queue, tag set,
\* gendisk, host, control device, sysfs objects, hwmon files.  What is lost on
\* the way is exactly: the gendisk of a queue that is cleaned up before a disk
\* was attached, the mq queue's own reference, the SCSI host of a probe that
\* fails and, after a parameter was written, the data of an mq queue.  If
\* scsi_mode was written and written back, a device may have been probed and
\* removed in different modes, and nothing is said.
NothingLeftBehind ==
  mod = "done" /\ "back" \notin causes =>
    /\ res = {}
    /\ \A d \in Devs :
         /\ dev[d] = [Absent EXCEPT !.lost = dev[d].lost, !.faults = dev[d].faults,
                                    !.drvdata = dev[d].drvdata]
         /\ \A x \in dev[d].lost : MayLose(x)

\* shannon_exit and the error labels of shannon_init give resources back in
\* the reverse order of acquisition, and none while a device still uses them.
ReleasedInReverse ==
  [][\A r \in res \ res' :
       /\ \A q \in res' : r \notin Earlier(q)
       /\ \A d \in Devs : dev[d].queue = "none" /\ ~dev[d].misc]_vars

\* A disk that an attach has left live is whole: its device is there for the
\* disk's users, all limits were set before it was added, it is linked to the
\* complete sysfs tree, it is referenced once, and the pool its requests come
\* from is there.  And with the parameters left alone it agrees with the
\* operations shared by all disks: a bio queue is served by
\* shannon_submit_bio, an mq queue has no submit_bio in its way.  Nothing is
\* said if scsi_mode was written and written back.
LiveDiskIsWhole ==
  \A d \in Devs : dev[d].added /\ pc[d] = "bound" /\ "back" \notin causes =>
    /\ "params" \notin causes => ((dev[d].queue = "bio") <=> submit_bio)
    /\ dev[d].alive /\ dev[d].refs = 1 /\ dev[d].limits = AllLimits
    /\ dev[d].link /\ dev[d].state = 2 /\ dev[d].kobjs = {"shannon", "pci_info"}
    /\ {"mempool", "driver"} \subseteq res
=============================================================================
