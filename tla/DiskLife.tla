------------------------------ MODULE DiskLife ------------------------------
(***************************************************************************)
(* The request queue and the gendisk of one device: shannon_block.c from   *)
(* shannon_create_blkqueue to shannon_blk_cleanup_queue, for kernels 6.0   *)
(* to 6.8 (from 6.9 on shannon_rotational_setting sets nothing).  Every    *)
(* operation is an operator on the record s of one device, so that a       *)
(* handler of the driver is a composition of them.  The fields:            *)
(*                                                                         *)
(*   queue     sdev->queue: "none", "bio" (blk_alloc_disk) or "mq"         *)
(*   qdata     queue->queuedata: "none", "disk" (the gendisk that came     *)
(*             with the queue), "sdev" or "mqdata"                         *)
(*   mem       what shannon_init_queue allocated and still holds           *)
(*   limits    the limits the queue has been given                         *)
(*   disk      sdev->disk: "none", "own" (from queuedata), "extra" (made   *)
(*             for the queue), "junk" (something that is not a gendisk)    *)
(*   refs      references held on sdev->disk                               *)
(*   added     whether it is live in the block layer                       *)
(*   link      whether its directory holds the "shannon" link              *)
(*   state     sdev->state: 1 sysfs tree there, 2 linked to a disk         *)
(*   lost      objects that nothing points to any more                     *)
(*   faults    misuses met so far                                          *)
(***************************************************************************)
EXTENDS Naturals

MqParts == {"mqdata", "tagset"}

AllLimits == {"trim", "nonrot", "max_hw", "block", "io_min", "io_opt"}

Fault(s, f) == [s EXCEPT !.faults = @ \cup {f}]

\* Touching the gendisk: it must be one, and somebody must hold it.
Touch(s) ==
  IF s.disk = "junk" THEN Fault(s, "confused")
  ELSE IF s.refs = 0 THEN Fault(s, "used_after_put") ELSE s

\* Mutant: a failing tag set returns without freeing the data.
InitQueueKeepsData(s, stop) ==
  IF stop = "none" THEN [s EXCEPT !.queue = "mq", !.qdata = "mqdata", !.mem = MqParts]
  ELSE [s EXCEPT !.mem = IF stop = "tagset" THEN {"mqdata"} ELSE {}]

\* blk_mq_alloc_tag_set and the queue for it; a failure unwinds by the labels
\* free_tag_set and free_blk_mq_data.  stop is the call that fails, if any.
shannon_init_queue(s, stop) ==
  LET got  == CASE stop = "mqdata" -> {}
                [] stop = "tagset" -> {"mqdata"}
                [] OTHER           -> MqParts
      free_tag_set      == IF stop = "queue" THEN {"tagset"} ELSE {}
      free_blk_mq_data  == IF stop \in {"queue", "tagset"} THEN {"mqdata"} ELSE {}
  IN IF stop = "none"
     THEN [s EXCEPT !.queue = "mq", !.qdata = "mqdata", !.mem = got]
     ELSE [s EXCEPT !.mem = got \ (free_tag_set \cup free_blk_mq_data)]

\* The gendisk comes first: it is kept in queuedata, the caller's data in it.
\* A failing blk_alloc_disk returns NULL, which the test for an error pointer
\* lets pass: the pointer is used.
shannon_alloc_queue(s, stop) ==
  IF stop = "none" THEN [s EXCEPT !.queue = "bio", !.qdata = "disk"] ELSE Fault(s, "null_disk")

shannon_create_blkqueue(s, iosched, stop) ==
  IF iosched THEN shannon_init_queue(s, stop) ELSE shannon_alloc_queue(s, stop)

\* Mutant: the optimal I/O size is compiled out.
IoOptNothing(s) == s

\* The setters the core calls on a new queue.
shannon_blk_queue_block_size(s)     == [s EXCEPT !.limits = @ \cup {"block"}]
shannon_blk_queue_max_hw_sectors(s) == [s EXCEPT !.limits = @ \cup {"max_hw"}]
shannon_blk_queue_io_min(s)         == [s EXCEPT !.limits = @ \cup {"io_min"}]
shannon_blk_queue_io_opt(s)         == [s EXCEPT !.limits = @ \cup {"io_opt"}]
shannon_trim_setting(s)             == [s EXCEPT !.limits = @ \cup {"trim"}]
shannon_rotational_setting(s)       == [s EXCEPT !.limits = @ \cup {"nonrot"}]

\* The core: a device that has no queue gets one, with its limits.
shannon_init_blk_queue(s, iosched, stop) ==
  IF s.queue # "none" THEN s
  ELSE LET q == shannon_create_blkqueue(s, iosched, stop)
       IN IF q.queue = "none" THEN q
          ELSE shannon_blk_queue_io_opt(shannon_blk_queue_io_min(
                 shannon_blk_queue_block_size(shannon_blk_queue_max_hw_sectors(
                   shannon_rotational_setting(shannon_trim_setting(q))))))

\* Whatever queuedata points to is taken for the gendisk, unless an I/O
\* scheduler is asked for: then a gendisk is made for the queue.  NULL for one
\* that cannot be made is returned to the caller, unless debug lines are on
\* (stop is "disk_shown"): they follow the pointer.
shannon_alloc_disk(s, iosched, stop) ==
  IF ~iosched
  THEN [s EXCEPT !.disk = IF s.qdata = "disk" THEN "own" ELSE "junk",
                 !.refs = 1, !.qdata = "sdev",
                 !.faults = IF s.qdata = "disk" THEN @ ELSE @ \cup {"confused"}]
  ELSE CASE stop = "none"       -> [s EXCEPT !.disk = "extra", !.refs = 1]
         [] stop = "disk_shown" -> Fault(s, "null_disk")
         [] OTHER               -> s

shannon_put_disk(s) == LET t == Touch(s)
                       IN [t EXCEPT !.refs = IF @ = 0 THEN 0 ELSE @ - 1]

\* A gendisk that cannot be added is put here, and not by the caller.
shannon_add_disk(s, ok) ==
  IF ok THEN [Touch(s) EXCEPT !.added = TRUE] ELSE shannon_put_disk(s)

shannon_del_gendisk(s) == [Touch(s) EXCEPT !.added = FALSE]

\* With an I/O scheduler queuedata is taken for what shannon_init_queue made.
\* The pointer to the queue is dropped by the caller in every case: a gendisk
\* still waiting in queuedata goes with it, and so does the reference that an
\* mq queue has of its own.
shannon_blk_cleanup_queue(s, iosched) ==
  LET t == IF ~iosched THEN s
           ELSE IF s.qdata = "mqdata" THEN [s EXCEPT !.mem = {}]
           ELSE Fault(s, "confused")
  IN [t EXCEPT !.lost = @ \cup (IF s.qdata = "disk" THEN {"disk"} ELSE {})
                          \cup (IF s.queue = "mq" THEN {"queue"} ELSE {})
                          \cup (IF t.mem # {} THEN {"mqdata"} ELSE {}),
               !.queue = "none", !.qdata = "none", !.mem = {}, !.limits = {}]

shannon_sysfs_link(s, ok) == [Touch(s) EXCEPT !.link = ok]

shannon_sysfs_unlink(s) == [Touch(s) EXCEPT !.link = FALSE]

\* The core's shannon_detach in block mode.
shannon_detach(s, iosched) ==
  LET u == IF s.state = 2 THEN [shannon_sysfs_unlink(s) EXCEPT !.state = 1] ELSE s
      d == IF s.disk = "none" THEN s
           ELSE [shannon_put_disk(shannon_del_gendisk(u))
                   EXCEPT !.disk = "none", !.refs = 0,
                          !.lost = IF shannon_put_disk(u).refs > 0
                                   THEN @ \cup {"disk"} ELSE @]
  IN IF d.queue = "none" THEN d ELSE shannon_blk_cleanup_queue(d, iosched)

\* shannon_attach_sdev up to sdev->disk = disk.
attach_alloc(s, iosched, stop) ==
  IF s.disk # "none" THEN s ELSE shannon_alloc_disk(s, iosched, stop)

\* Mutant: a failing link puts the disk before it detaches.
AttachAddPuts(s, iosched, addOk, linkOk) ==
  LET a == shannon_add_disk([Touch(s) EXCEPT !.state = 2], addOk)
      l == shannon_sysfs_link(a, linkOk)
  IN IF ~addOk THEN shannon_detach(a, iosched)
     ELSE IF ~linkOk THEN shannon_detach(shannon_put_disk(l), iosched) ELSE l

\* And from there on: the disk is set up, added and linked; both failures go
\* through shannon_detach.
attach_add(s, iosched, addOk, linkOk) ==
  LET a == shannon_add_disk([Touch(s) EXCEPT !.state = 2], addOk)
      l == shannon_sysfs_link(a, linkOk)
  IN IF ~addOk THEN shannon_detach(a, iosched)
     ELSE IF ~linkOk THEN shannon_detach(l, iosched) ELSE l
=============================================================================
