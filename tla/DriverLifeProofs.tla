-------------------------- MODULE DriverLifeProofs --------------------------
(***************************************************************************)
(* Proofs about DriverLife, for any number of devices, attributes, failing *)
(* calls, parameter writes and probes.  DriverLifeInv has what each        *)
(* handler does to its own device; here every action is shown to keep the  *)
(* invariant of the module and of all devices together.                    *)
(***************************************************************************)
EXTENDS DriverLifeInv

-----------------------------------------------------------------------------
(* The state: a step of one device beside the others. *)

\* One device moves, the others stay.
LEMMA GoKeeps ==
  ASSUME IInv, NEW d \in Devs, NEW s, NEW p, Go(d, s, p), Onward, DevInv(s, p, Env'),
         Held(s, p, Env', mod, d \in ctrl)
  PROVE  IInv'
<1> USE DEF Onward
<1>1. dev' = [dev EXCEPT ![d] = s] /\ pc' = [pc EXCEPT ![d] = p] /\ s \in Devices /\ p \in Steps
  BY DEF Go, DevInv
<1>2. dev \in [Devs -> Devices] /\ pc \in [Devs -> Steps]  BY DEF IInv
<1>3. dev' \in [Devs -> Devices] /\ pc' \in [Devs -> Steps]  BY <1>1, <1>2
<1>4. ASSUME NEW x \in Devs
      PROVE  DevInv(dev'[x], pc'[x], Env') /\ Held(dev'[x], pc'[x], Env', mod', x \in ctrl')
  <2>1. CASE x = d
    <3>1. dev'[x] = s /\ pc'[x] = p  BY <1>1, <1>2, <2>1
    <3> QED  BY <2>1, <3>1
  <2>2. CASE x # d
    <3>1. dev'[x] = dev[x] /\ pc'[x] = pc[x]  BY <1>1, <1>2, <2>2
    <3>2. DevInv(dev[x], pc[x], Env) /\ Held(dev[x], pc[x], Env, mod, x \in ctrl)  BY DEF IInv
    <3>3. DevInv(dev[x], pc[x], Env')  BY <3>2, OtherDevice
    <3>4. Held(dev[x], pc[x], Env', mod, x \in ctrl)  BY <3>2, OtherHeld
    <3> QED  BY <3>1, <3>3, <3>4
  <2> QED  BY <2>1, <2>2
<1> QED  BY <1>3, <1>4 DEF IInv

\* The device stays between its probe and its removal, and keeps its users.
LEMMA BusyKeeps ==
  ASSUME IInv, NEW d \in Devs, NEW t, NEW r \in Busy, Go(d, t, r), Onward,
         pc[d] \in Busy, DevInv(t, r, Env'), t.users = dev[d].users
  PROVE  IInv'
<1>1. Held(dev[d], pc[d], Env, mod, d \in ctrl)  BY DEF IInv
<1>2. Held(t, r, Env', mod, d \in ctrl)  BY <1>1, HeldBusy DEF Onward
<1> QED  BY <1>2, GoKeeps

-----------------------------------------------------------------------------
(* The actions of the probe. *)

\* A probe that begins.
LEMMA ProbeKeeps ==
  ASSUME IInv, NEW d \in Devs, Probe(d)
  PROVE  IInv'
<1>1. /\ mod = "live" /\ pc[d] = "off" /\ binds' = binds + 1
      /\ UNCHANGED modvars /\ UNCHANGED submit_bio /\ UNCHANGED ctrl
  BY DEF Probe
<1>2. PICK ok \in BOOLEAN :
        /\ IF scsi_mode THEN Outcome(ok, "nohost") ELSE ok /\ UNCHANGED <<causes, trouble>>
        /\ LET s == IF scsi_mode THEN shannon_scsi_probe(dev[d], ok)
                    ELSE [dev[d] EXCEPT !.drvdata = "sdev"]
           IN IF ~ok THEN Go(d, s, "dead")
              ELSE Go(d, [s EXCEPT !.alive = TRUE, !.users = 1, !.qos = TRUE], "queue")
  BY Zenon DEF Probe
<1>3. Onward
  <2>1. /\ causes \subseteq causes' /\ causes' \subseteq AllCauses /\ trouble' \in Nat
        /\ "back" \in causes' => "back" \in causes
        /\ "mode" \in causes' => "mode" \in causes
    BY <1>2, Before, OutcomeFields DEF AllCauses
  <2> QED  BY <1>1, <2>1, Before, ModKept DEF Onward, modvars
<1>4. Later(Env, Env')  BY <1>3 DEF Onward
<1>5. CASE ~ok
  <2>1. scsi_mode /\ "nohost" \in causes'
    BY <1>2, <1>5, Before, OutcomeFields DEF AllCauses
  <2>2. Go(d, Fault(dev[d], "null_host"), "dead")
    BY <1>2, <1>5, <2>1 DEF shannon_scsi_probe
  <2>3. Excuse("null_host", Env')  BY <2>1 DEF Excuse, Env
  <2>4. Faulted(dev[d], "null_host", Fault(dev[d], "null_host"))
    BY Before, FaultFields DEF FaultNames
  <2>5. d \in ctrl => Excuse("stale_file", Env')
    BY <1>1, <1>4, Before, ExcuseLater DEF Held
  <2>6. Held(Fault(dev[d], "null_host"), "dead", Env', mod, d \in ctrl)
    BY <1>1, <2>5 DEF Held, Busy
  <2>7. DevInv(Fault(dev[d], "null_host"), "dead", Env')
    BY <1>1, <1>4, <2>3, <2>4, Before, FaultStep
  <2> QED  BY <1>3, <2>2, <2>6, <2>7, GoKeeps
<1>6. CASE ok
  <2> DEFINE h == IF scsi_mode THEN "alloc" ELSE dev[d].host
             v == IF scsi_mode THEN "host" ELSE "sdev"
             t == Begun(dev[d], h, v)
  <2>1. dev[d].host = "none"  BY <1>1, Before DEF DevInv, At
  <2>2. Go(d, t, "queue")
    <3>1. CASE scsi_mode
      <4>1. [[dev[d] EXCEPT !.host = "alloc", !.drvdata = "host"] EXCEPT
               !.alive = TRUE, !.users = 1, !.qos = TRUE] = t
        BY <3>1, Zenon DEF Begun
      <4> QED  BY <1>2, <1>6, <3>1, <4>1 DEF shannon_scsi_probe
    <3>2. CASE ~scsi_mode
      <4>1. [[dev[d] EXCEPT !.drvdata = "sdev"] EXCEPT
               !.alive = TRUE, !.users = 1, !.qos = TRUE] = t
        BY <2>1, <3>2, Before, Zenon DEF Begun, Devices
      <4> QED  BY <1>2, <1>6, <3>2, <4>1
    <3> QED  BY <3>1, <3>2
  <2>3. IF Env.scsi THEN h = "alloc" /\ v = "host" ELSE h = "none" /\ v = "sdev"
    BY <2>1, Before
  <2>4. Started(dev[d], h, v, t)  BY <2>1, Before, BegunFields
  <2> HIDE DEF h, v, t
  <2>5. DevInv(t, "queue", Env')  BY <1>1, <1>4, <2>3, <2>4, Before, ProbeStep
  <2>6. t.alive  BY <2>5 DEF DevInv, At, Busy
  <2>7. Held(t, "queue", Env', mod, d \in ctrl)  BY <1>1, <2>6 DEF Held
  <2> QED  BY <1>3, <2>2, <2>5, <2>7, GoKeeps
<1> QED  BY <1>5, <1>6

\* The thread of a device dies of a gendisk it does not have.
LEMMA CrashKeeps ==
  ASSUME IInv, NEW d \in Devs, NEW q, NEW p \in Busy, pc[d] \in Busy, DevInv(q, p, Env),
         Onward, "nodisk" \in Env'.causes, Go(d, Fault(q, "null_disk"), "dead")
  PROVE  IInv'
<1> DEFINE t == Fault(q, "null_disk")
<1>1. q \in Devices /\ q.alive  BY DEF DevInv, At
<1>2. Faulted(q, "null_disk", t)  BY <1>1, FaultFields DEF FaultNames
<1> HIDE DEF t
<1>3. Excuse("null_disk", Env')  BY DEF Excuse
<1>4. DevInv(t, "dead", Env')  BY <1>2, <1>3, FaultStep DEF Onward
<1>5. t.alive  BY <1>1, <1>2 DEF Faulted, SameOwner
<1>6. pc[d] # "off" /\ "dead" # "off" /\ "dead" \notin Busy  BY DEF Busy
<1>7. Held(t, "dead", Env', mod, d \in ctrl)  BY <1>5, <1>6, Before, Zenon DEF Held
<1> QED  BY <1>4, <1>7, GoKeeps DEF t

\* The queue of a probe.
LEMMA ProbeQueueKeeps ==
  ASSUME IInv, NEW d \in Devs, ProbeQueue(d)
  PROVE  IInv'
<1>1. PICK stop \in {"none", "mqdata", "tagset", "queue"} :
        LET s == shannon_init_blk_queue(dev[d], iosched, stop)
        IN /\ Outcome(stop = "none", IF iosched THEN "probe" ELSE "nodisk")
           /\ Go(d, s, IF s.queue # "none" THEN "misc" ELSE IF iosched THEN "undo" ELSE "dead")
  BY DEF ProbeQueue
<1>2. pc[d] = "queue" /\ UNCHANGED <<modvars, ctrl, binds>> /\ submit_bio' = submit_bio
  BY DEF ProbeQueue
<1> DEFINE t == shannon_init_blk_queue(dev[d], iosched, stop)
           r == IF t.queue = "none" THEN "undo" ELSE "misc"
           c == IF iosched THEN "probe" ELSE "nodisk"
<1>3. Onward /\ (stop = "none" \/ c \in Env'.causes)
  <2>1. c \in AllCauses \ {"mode", "back"}  BY DEF AllCauses
  <2> QED  BY <1>1, <1>2, <2>1, OutcomeStep, Zenon
<1>4. pc[d] \in Busy /\ "queue" \in Busy  BY <1>2 DEF Busy
<1>5. CASE iosched \/ stop = "none" \/ dev[d].queue # "none"
  <2>1. Queued(dev[d], Env.io, stop, t)  BY <1>5, Before, QueueFields
  <2>2. iosched \/ t.queue # "none"
    BY <1>5, <2>1, Before DEF Queued, SameQueue
  <2>3. Go(d, t, r)  BY <1>1, <2>2
  <2> HIDE DEF t
  <2>4. stop = "none" \/ "probe" \in Env'.causes \/ t.queue # "none"  BY <1>3, <2>2
  <2>5. DevInv(t, r, Env')  BY <1>2, <1>3, <2>1, <2>4, Before, ProbeQueueStep DEF Onward
  <2>6. t.users = dev[d].users /\ r \in Busy  BY <2>1 DEF Queued, SameOwner, Busy
  <2> QED  BY <1>3, <1>4, <2>3, <2>5, <2>6, BusyKeeps
<1>6. CASE ~iosched /\ stop # "none" /\ dev[d].queue = "none"
  <2>1. t = Fault(dev[d], "null_disk") /\ "nodisk" \in Env'.causes
    BY <1>3, <1>6, Before, QueueCrash
  <2>2. Faulted(dev[d], "null_disk", t)  BY <2>1, Before, FaultFields DEF FaultNames
  <2>3. t.queue = "none"  BY <1>6, <2>2 DEF Faulted, SameQueue
  <2>4. Go(d, Fault(dev[d], "null_disk"), "dead")  BY <1>1, <1>6, <2>1, <2>3
  <2> QED  BY <1>2, <1>3, <1>4, <2>1, <2>4, Before, CrashKeeps
<1> QED  BY <1>5, <1>6

\* The control device of a probe.
LEMMA ProbeMiscKeeps ==
  ASSUME IInv, NEW d \in Devs, ProbeMisc(d)
  PROVE  IInv'
<1>1. PICK ok \in BOOLEAN, built \in BOOLEAN :
        /\ ok \/ ~built
        /\ Outcome(ok /\ built, "probe")
        /\ Go(d, shannon_create_miscdevice(dev[d], ok), IF built THEN "sysfs" ELSE "undo")
  BY DEF ProbeMisc
<1>2. pc[d] = "misc" /\ UNCHANGED <<modvars, ctrl, binds>> /\ submit_bio' = submit_bio
  BY DEF ProbeMisc
<1> DEFINE t == shannon_create_miscdevice(dev[d], ok)
           r == IF built THEN "sysfs" ELSE "undo"
<1>3. Onward /\ ((ok /\ built) \/ "probe" \in Env'.causes)
  BY <1>1, <1>2, OutcomeStep DEF AllCauses
<1>4. r \in {"sysfs", "undo"} /\ (r = "undo" => "probe" \in Env'.causes) /\ Go(d, t, r)
  BY <1>1, <1>3
<1>5. Registered(dev[d], t)  BY Before, MiscFields
<1> HIDE DEF r, t
<1>6. DevInv(t, r, Env')  BY <1>2, <1>3, <1>4, <1>5, Before, ProbeMiscStep DEF Onward
<1>7. r \in Busy /\ pc[d] \in Busy  BY <1>2, <1>4 DEF Busy
<1> QED  BY <1>3, <1>4, <1>5, <1>6, <1>7, BusyKeeps DEF Registered

\* The hwmon and sysfs part of a probe.
LEMMA ProbeSysfsKeeps ==
  ASSUME IInv, NEW d \in Devs, ProbeSysfs(d)
  PROVE  IInv'
<1>1. PICK i \in 0..NAttr + 1, stop \in {"none", "shannon", "pci_info"} :
        LET s == shannon_sysfs_init(shannon_hwmon_init(dev[d], i), stop)
        IN /\ i = 0 \/ stop = "none"
           /\ Outcome(i = 0 /\ stop = "none", IF i = 0 THEN "probe" ELSE "hwmon")
           /\ IF stop # "none" THEN Go(d, s, "undo")
              ELSE Go(d, [s EXCEPT !.state = 1],
                      IF auto_attach THEN "attach" ELSE "bound")
  BY DEF ProbeSysfs
<1>2. pc[d] = "sysfs" /\ UNCHANGED <<modvars, ctrl, binds>> /\ submit_bio' = submit_bio
  BY DEF ProbeSysfs
<1> DEFINE k == shannon_sysfs_init(shannon_hwmon_init(dev[d], i), stop)
           t == IF stop # "none" THEN k ELSE [k EXCEPT !.state = 1]
           r == IF stop # "none" THEN "undo" ELSE IF Env.auto THEN "attach" ELSE "bound"
           c == IF i = 0 THEN "probe" ELSE "hwmon"
<1>3. Onward /\ (stop = "none" \/ "probe" \in Env'.causes)
  <2>1. c \in AllCauses \ {"mode", "back"} /\ (stop # "none" => c = "probe")
    BY <1>1 DEF AllCauses
  <2>2. Outcome(i = 0 /\ stop = "none", c)  BY <1>1
  <2> HIDE DEF c
  <2> QED  BY <1>2, <2>1, <2>2, OutcomeStep, Zenon
<1>4. Grown(dev[d], stop, t)  BY Before, GrownFields, Zenon
<1>5. Go(d, t, r)
  <2>1. CASE stop # "none"  BY <1>1, <2>1
  <2>2. CASE stop = "none"
    <3>1. Go(d, [k EXCEPT !.state = 1], IF auto_attach THEN "attach" ELSE "bound")
      BY <1>1, <2>2
    <3> HIDE DEF k
    <3> QED  BY <2>2, <3>1, Before
  <2> QED  BY <2>1, <2>2
<1>6. t.users = dev[d].users /\ r \in Busy /\ pc[d] \in Busy
  BY <1>2, <1>4 DEF Grown, SameOwner, Busy
<1> HIDE DEF t
<1>7. DevInv(t, r, Env')  BY <1>2, <1>3, <1>4, Before, ProbeSysfsStep DEF Onward
<1> HIDE DEF r
<1> QED  BY <1>3, <1>5, <1>6, <1>7, BusyKeeps

\* A probe that fails.
LEMMA ProbeUndoKeeps ==
  ASSUME IInv, NEW d \in Devs, ProbeUndo(d)
  PROVE  IInv'
<1> DEFINE h == Undone(dev[d], scsi_mode)
           t == IF h.queue = "none" THEN h ELSE shannon_blk_cleanup_queue(h, iosched)
<1>1. pc[d] = "undo" /\ UNCHANGED modvars /\ UNCHANGED <<submit_bio, ctrl, causes, trouble, binds>>
  BY DEF ProbeUndo, bounds
<1>2. Go(d, t, "off")  BY Zenon DEF ProbeUndo, Undone
<1>3. Onward  BY <1>1, Before, ModKept DEF Onward, modvars
<1>4. Env' = Env  BY <1>1 DEF Env, modvars, params
<1>5. GivenUp(dev[d], h)
  <2>1. ~dev[d].hwmon => dev[d].files = {}  BY Before DEF DevInv, Sound
  <2> QED  BY <2>1, Before, UndoneFields
<1> HIDE DEF h
<1>6. NoQueue(h, Env.io, t)  BY <1>5, Before, NoQueueFields DEF GivenUp
<1> HIDE DEF t
<1>7. DevInv(t, "off", Env')  BY <1>1, <1>3, <1>4, <1>5, <1>6, Before, ProbeUndoStep DEF Onward
<1>8. t.users = 0  BY <1>5, <1>6 DEF GivenUp, NoQueue, SameOwner
<1>9. Excuse("stale_file", Env')  BY <1>1, <1>4, Before DEF DevInv, At, Excuse
<1>10. Held(t, "off", Env', mod, d \in ctrl)
  <2>1. mod # "live" => d \notin ctrl  BY Before DEF Held
  <2> QED  BY <1>8, <1>9, <2>1 DEF Held, Busy
<1> QED  BY <1>2, <1>3, <1>7, <1>10, GoKeeps

-----------------------------------------------------------------------------
(* The other actions of a device. *)

\* The first half of an attach, in both modes.
LEMMA AttachAllocKeeps ==
  ASSUME IInv, NEW d \in Devs, AttachAlloc(d)
  PROVE  IInv'
<1>1. pc[d] = "attach" /\ UNCHANGED <<modvars, ctrl, binds>> /\ submit_bio' = submit_bio
  BY DEF AttachAlloc
<1>2. PICK stop \in {"none", "queue", "disk", "disk_shown", "host"} :
        LET s == shannon_init_blk_queue(dev[d], iosched, IF stop = "queue" THEN stop ELSE "none")
            a == attach_alloc(s, iosched, stop)
        IN CASE s.queue = "none" ->
                  /\ Outcome(FALSE, IF iosched THEN "attach" ELSE "nodisk")
                  /\ Go(d, s, IF iosched THEN "bound" ELSE "dead")
             [] s.queue # "none" /\ scsi_mode ->
                  /\ stop \in {"none", "host"}
                  /\ Outcome(stop = "none", "addhost")
                  /\ Go(d, shannon_attach_scsi(s, stop = "none"), "bound")
             [] s.queue # "none" /\ ~scsi_mode ->
                  /\ \/ stop = "none"
                     \/ stop \in {"disk", "disk_shown"} /\ iosched /\ s.disk = "none"
                  /\ Outcome(stop = "none", IF stop = "disk" THEN "attach" ELSE "nodisk")
                  /\ Go(d, a, IF stop = "disk_shown" THEN "dead"
                              ELSE IF s.disk = "none" /\ a.disk # "none" THEN "add" ELSE "bound")
  BY Zenon DEF AttachAlloc
<1> DEFINE z == IF stop = "queue" THEN stop ELSE "none"
           q == shannon_init_blk_queue(dev[d], iosched, z)
           a == attach_alloc(q, iosched, stop)
           r == IF q.disk = "none" /\ a.disk # "none" THEN "add" ELSE "bound"
<1>3. \/ /\ q.queue = "none" /\ Outcome(FALSE, IF iosched THEN "attach" ELSE "nodisk")
         /\ Go(d, q, IF iosched THEN "bound" ELSE "dead")
      \/ /\ q.queue # "none" /\ scsi_mode /\ stop \in {"none", "host"}
         /\ Outcome(stop = "none", "addhost")
         /\ Go(d, shannon_attach_scsi(q, stop = "none"), "bound")
      \/ /\ q.queue # "none" /\ ~scsi_mode
         /\ stop = "none" \/ (stop \in {"disk", "disk_shown"} /\ iosched /\ q.disk = "none")
         /\ Outcome(stop = "none", IF stop = "disk" THEN "attach" ELSE "nodisk")
         /\ Go(d, a, IF stop = "disk_shown" THEN "dead" ELSE r)
  BY <1>2, Before, Zenon
<1>4. PICK ok \in BOOLEAN, c \in {"attach", "addhost", "nodisk"} :
        /\ Outcome(ok, c) /\ (q.queue = "none" => ~ok)
        /\ q.queue # "none" => (ok <=> stop = "none")
        /\ q.queue = "none" => c = IF iosched THEN "attach" ELSE "nodisk"
        /\ q.queue # "none" /\ scsi_mode => c = "addhost"
        /\ q.queue # "none" /\ ~scsi_mode => c = IF stop = "disk" THEN "attach" ELSE "nodisk"
  <2> DEFINE b == stop = "none"
  <2>1. b \in BOOLEAN  OBVIOUS
  <2>2. CASE q.queue = "none"  BY <1>3, <2>2
  <2>3. CASE q.queue # "none" /\ scsi_mode  BY <1>3, <2>1, <2>3
  <2>4. CASE q.queue # "none" /\ ~scsi_mode  BY <1>3, <2>1, <2>4
  <2> QED  BY <2>2, <2>3, <2>4, Before
<1>5. Onward /\ (ok \/ c \in Env'.causes)
  <2>1. c \in AllCauses \ {"mode", "back"}  BY DEF AllCauses
  <2> QED  BY <1>1, <1>4, <2>1, OutcomeStep, Zenon
<1>6. Later(Env, Env') /\ Later(Env, Env)  BY <1>5 DEF Onward, Later
<1>7. pc[d] \in Busy /\ "bound" \in Busy /\ "add" \in Busy /\ "attach" \in Busy
  BY <1>1 DEF Busy
<1>8. CASE ~iosched /\ z # "none" /\ dev[d].queue = "none"
  <2>1. q = Fault(dev[d], "null_disk")  BY <1>8, Before, QueueCrash
  <2>2. Faulted(dev[d], "null_disk", q)  BY <2>1, Before, FaultFields DEF FaultNames
  <2>3. q.queue = "none"  BY <1>8, <2>2 DEF Faulted, SameQueue
  <2>4. Go(d, q, "dead")  BY <1>3, <1>8, <2>3
  <2>5. "nodisk" \in Env'.causes  BY <1>4, <1>5, <1>8, <2>3
  <2> QED  BY <1>1, <1>5, <1>7, <2>1, <2>4, <2>5, Before, CrashKeeps
<1>9. CASE iosched \/ z = "none" \/ dev[d].queue # "none"
  <2>1. Queued(dev[d], Env.io, z, q)  BY <1>9, Before, QueueFields
  <2>2. q.queue # "none" \/ z = "queue"  BY <2>1 DEF Queued, SameQueue
  <2>3. q.queue = "none" => iosched  BY <1>9, <2>1, <2>2 DEF Queued, SameQueue
  <2> HIDE DEF q
  <2>4. DevInv(q, "attach", Env)  BY <1>1, <1>6, <2>1, <2>2, Before, AttachQueueStep
  <2>5. q.users = dev[d].users /\ q \in Devices  BY <2>1 DEF Queued, SameOwner
  <2>6. CASE q.queue = "none"
    <3>1. Go(d, q, "bound") /\ "attach" \in Env'.causes  BY <1>3, <1>4, <1>5, <2>3, <2>6
    <3>2. MayGo("disk", Env') /\ Excuse("host_not_added", Env')  BY <3>1 DEF MayGo, Excuse
    <3>3. DevInv(q, "bound", Env')  BY <1>6, <2>4, <3>2, AttachEnds
    <3> QED  BY <1>5, <1>7, <2>5, <3>1, <3>3, BusyKeeps
  <2>7. CASE q.queue # "none" /\ scsi_mode
    <3> DEFINE o == stop = "none"
               t == shannon_attach_scsi(q, o)
    <3>1. Go(d, t, "bound")  BY <1>3, <2>7, Zenon
    <3>2. o \in BOOLEAN /\ (o \/ "addhost" \in Env'.causes)  BY <1>4, <1>5, <2>7
    <3>3. Env.scsi  BY <2>7, Before, ZenonT(30)
    <3> HIDE DEF o
    <3>4. HostAdded(q, o, t)  BY <2>5, <3>2, HostAddFields
    <3> HIDE DEF t
    <3>5. DevInv(t, "bound", Env')  BY <1>6, <2>4, <3>2, <3>3, <3>4, AttachHostStep
    <3>6. t.users = q.users  BY <3>4 DEF HostAdded, Faulted, Rehosted, SameOwner
    <3> QED  BY <1>5, <1>7, <2>5, <3>1, <3>5, <3>6, BusyKeeps
  <2>8. CASE q.queue # "none" /\ ~scsi_mode /\ stop = "disk_shown"
    <3>1. Go(d, a, "dead") /\ iosched /\ q.disk = "none"  BY <1>3, <2>8
    <3>2. a = Fault(q, "null_disk")  BY <2>8, <3>1 DEF attach_alloc, shannon_alloc_disk
    <3>3. "nodisk" \in Env'.causes  BY <1>4, <1>5, <2>8
    <3> QED  BY <1>5, <1>7, <2>4, <3>1, <3>2, <3>3, CrashKeeps
  <2>9. CASE q.queue # "none" /\ ~scsi_mode /\ stop # "disk_shown"
    <3>1. Go(d, a, r) /\ (stop = "none" \/ (stop = "disk" /\ iosched))
      BY <1>3, <2>9, ZenonT(30)
    <3>2. Allocated(q, Env.io, stop, a)  BY <2>5, <2>9, Before, AllocFields
    <3>3. ~Env.scsi /\ (stop = "none" \/ (stop = "disk" /\ Env.io /\ "attach" \in Env'.causes))
      BY <1>4, <1>5, <2>9, <3>1, Before
    <3>4. a.users = q.users /\ r \in Busy  BY <3>2 DEF Allocated, SameOwner, Busy
    <3> HIDE DEF a
    <3>5. DevInv(a, r, Env')  BY <1>6, <2>4, <2>9, <3>2, <3>3, AttachDiskStep
    <3> HIDE DEF r
    <3> QED  BY <1>5, <1>7, <2>5, <3>1, <3>4, <3>5, BusyKeeps
  <2> QED  BY <2>6, <2>7, <2>8, <2>9, Before
<1> QED  BY <1>8, <1>9

\* The second half of an attach.
LEMMA AttachAddKeeps ==
  ASSUME IInv, NEW d \in Devs, AttachAdd(d)
  PROVE  IInv'
<1>1. /\ pc[d] = "add" /\ UNCHANGED <<modvars, ctrl, binds>>
      /\ submit_bio' = (submit_bio /\ ~iosched)
  BY DEF AttachAdd, shannon_init_gendisk
<1>2. PICK addOk \in BOOLEAN, linkOk \in BOOLEAN :
        /\ addOk \/ linkOk
        /\ Outcome(addOk /\ linkOk, IF addOk THEN "attach" ELSE "addfail")
        /\ Go(d, attach_add(dev[d], iosched, addOk, linkOk), "bound")
  BY DEF AttachAdd
<1> DEFINE t == attach_add(dev[d], iosched, addOk, linkOk)
           c == IF addOk THEN "attach" ELSE "addfail"
<1>3. Onward /\ ((addOk /\ linkOk) \/ c \in Env'.causes)
  <2>1. c \in AllCauses \ {"mode", "back"}  BY DEF AllCauses
  <2>2. Outcome(addOk /\ linkOk, c)  BY <1>2
  <2> HIDE DEF c
  <2> QED  BY <1>1, <2>1, <2>2, OutcomeStep
<1>4. Later(Env, Env')  BY <1>3 DEF Onward
<1>5. Attached(dev[d], Env.io, addOk, linkOk, t)
  <2>1. dev[d].disk # "none" /\ dev[d].queue # "none" /\ dev[d].refs # 0
    BY <1>1, Before DEF DevInv, At, Sound
  <2>2. dev[d].refs = 1  BY <2>1, Before DEF Devices
  <2> QED  BY <2>1, <2>2, Before, AttachFields
<1>6. Env'.sub <=> Env.sub /\ ~Env.io  BY <1>1, Before, ZenonT(30) DEF Env
<1>7. "params" \notin Env.causes /\ ~Env.sub => Env.io  BY Before DEF ModInv
<1>8. /\ ~addOk => "addfail" \in Env'.causes
      /\ addOk /\ ~linkOk => "attach" \in Env'.causes
  BY <1>3
<1> HIDE DEF t
<1>9. DevInv(t, "bound", Env')
  BY <1>1, <1>4, <1>5, <1>6, <1>7, <1>8, Before, AttachAddStep
<1>10. t.users = dev[d].users  BY <1>5 DEF Attached, SameOwner
<1>11. Go(d, t, "bound") /\ pc[d] \in Busy /\ "bound" \in Busy  BY <1>1, <1>2 DEF t, Busy
<1> QED  BY <1>3, <1>9, <1>10, <1>11, BusyKeeps

\* Attach and detach by ioctl.
LEMMA IoctlKeeps ==
  ASSUME IInv, NEW d \in Devs, IoctlAttach(d) \/ IoctlDetach(d)
  PROVE  IInv'
<1>1. pc[d] = "bound" /\ ~scsi_mode /\ UNCHANGED <<modvars, submit_bio, causes, bounds>>
      /\ UNCHANGED ctrl
  BY DEF IoctlAttach, IoctlDetach
<1>2. Onward /\ Env' = Env  BY <1>1, Before, QuietStep DEF Onward
<1>3. ~Env.scsi /\ Env \in Envs /\ pc[d] \in Busy /\ "bound" \in Busy /\ "attach" \in Busy
  BY <1>1, <1>2, Before DEF Busy, Later, Onward
<1>4. CASE IoctlAttach(d)
  <2>1. Go(d, dev[d], "attach")  BY <1>4 DEF IoctlAttach
  <2>2. DevInv(dev[d], "attach", Env')  BY <1>1, <1>2, <1>3, Before, IoctlAttachStep
  <2> QED  BY <1>2, <1>3, <2>1, <2>2, BusyKeeps
<1>5. CASE IoctlDetach(d)
  <2> DEFINE t == shannon_detach(dev[d], iosched)
  <2>1. Go(d, t, "bound")  BY <1>5 DEF IoctlDetach
  <2>2. Detached(dev[d], Env.io, t)  BY Before, DetachFields
  <2> HIDE DEF t
  <2>3. DevInv(t, "bound", Env') /\ SameOwner(dev[d], t)
    BY <1>1, <1>2, <1>3, <2>2, Before, DetachStep
  <2> QED  BY <1>2, <1>3, <2>1, <2>3, BusyKeeps DEF SameOwner
<1> QED  BY <1>4, <1>5

\* A removal in SCSI mode.
LEMMA RemoveHostStep ==
  ASSUME NEW e, NEW g, Later(e, g), NEW s, DevInv(s, "bound", e), e.scsi, s.drvdata = "host"
  PROVE  /\ DevInv(shannon_scsi_remove(s, e.io), "off", g)
         /\ shannon_scsi_remove(s, e.io).users = s.users - 1
<1> DEFINE h == shannon_detach_scsi(s)
           c == core_remove(h, e.io)
           t == [c EXCEPT !.host = "none", !.drvdata = "none"]
<1>1. shannon_scsi_remove(s, e.io) = t  BY Zenon DEF shannon_scsi_remove
<1>2. s \in Devices /\ e \in Envs /\ e.io \in BOOLEAN  BY DEF DevInv, Later, Envs
<1>3. HostRemoved(s, h)  BY <1>2, HostRemoveFields
<1> HIDE DEF h
<1>4. DevInv(h, "bound", e) /\ h.users = s.users /\ h.host # "none"
  BY <1>2, <1>3, DetachHostStep
<1>5. h \in Devices /\ (~h.hwmon => h.files = {}) /\ h.users > 0
  <2>1. h \in Devices /\ Sound(h) /\ At(h, "bound", e)  BY <1>4, Zenon DEF DevInv
  <2>2. ~h.hwmon => h.files = {}  BY <2>1, Zenon DEF Sound
  <2>3. h.users \in {1, 2}  BY <2>1, Zenon DEF At, Busy
  <2> QED  BY <2>1, <2>2, <2>3
<1>6. CoreRemoved(h, e.io, c)  BY <1>2, <1>5, CoreRemoveFields
<1>7. Parted(c, t)  BY <1>6, PartedFields, ZenonT(30) DEF CoreRemoved
<1>8. "back" \notin e.causes => h.disk = "none"  BY <1>4 DEF DevInv, Whole
<1> HIDE DEF c, t
<1>9. DevInv(t, "off", g)  BY <1>4, <1>6, <1>7, <1>8, RemovedStep
<1>10. t.users = s.users - 1  BY <1>4, <1>6, <1>7 DEF CoreRemoved, Parted
<1> QED  BY <1>1, <1>9, <1>10

\* A removal in block mode.
LEMMA RemoveBlockStep ==
  ASSUME NEW e, NEW g, Later(e, g), NEW s, DevInv(s, "bound", e), ~e.scsi, s.drvdata = "sdev"
  PROVE  LET c == core_remove(shannon_detach(s, e.io), e.io)
             t == [c EXCEPT !.drvdata = "none"]
         IN  DevInv(t, "off", g) /\ t.users = s.users - 1
<1> DEFINE h == shannon_detach(s, e.io)
           c == core_remove(h, e.io)
           t == [c EXCEPT !.drvdata = "none"]
<1> SUFFICES DevInv(t, "off", g) /\ t.users = s.users - 1  OBVIOUS
<1>1. s \in Devices /\ e \in Envs /\ e.io \in BOOLEAN  BY DEF DevInv, Later, Envs
<1>2. Detached(s, e.io, h)  BY <1>1, DetachFields
<1> HIDE DEF h
<1>3. DevInv(h, "bound", e) /\ h.disk = "none" /\ SameOwner(s, h)  BY <1>1, <1>2, DetachStep
<1>4. h \in Devices /\ (~h.hwmon => h.files = {}) /\ h.users > 0 /\ h.host = "none"
  <2>1. h \in Devices /\ Sound(h) /\ At(h, "bound", e) /\ h.drvdata = "sdev"
    BY <1>3, Zenon DEF DevInv, SameOwner
  <2>2. ~h.hwmon => h.files = {}  BY <2>1, Zenon DEF Sound
  <2>3. h.users \in {1, 2} /\ (h.drvdata = "host" <=> h.host # "none")
    BY <2>1, Zenon DEF At, Busy
  <2> QED  BY <2>1, <2>2, <2>3
<1>5. CoreRemoved(h, e.io, c)  BY <1>1, <1>4, CoreRemoveFields
<1>6. c \in Devices /\ c.host = "none"  BY <1>4, <1>5, Zenon DEF CoreRemoved
<1>7. Parted(c, t)  BY <1>6, PartedFields, ZenonT(30)
<1> HIDE DEF c, t
<1>8. DevInv(t, "off", g)  BY <1>3, <1>5, <1>7, RemovedStep, ZenonT(30)
<1>9. t.users = s.users - 1  BY <1>3, <1>5, <1>7 DEF CoreRemoved, Parted, SameOwner
<1> QED  BY <1>8, <1>9

\* A removal in either mode.
LEMMA RemoveKeeps ==
  ASSUME IInv, NEW d \in Devs, Remove(d)
  PROVE  IInv'
<1>1. /\ pc[d] = "bound" /\ mod \in {"live", "exit_pci"}
      /\ causes' = (IF mod = "live" THEN causes \cup {"unbind"} ELSE causes)
      /\ UNCHANGED modvars /\ UNCHANGED <<submit_bio, ctrl, trouble, binds>>
  BY DEF Remove, bounds
<1>2. Onward /\ Later(Env, Env')
  <2>1. /\ causes \subseteq causes' /\ causes' \subseteq AllCauses
        /\ "back" \in causes' => "back" \in causes
        /\ "mode" \in causes' => "mode" \in causes
    BY <1>1, Before DEF AllCauses
  <2> QED  BY <1>1, <2>1, Before, ModKept DEF Onward, modvars
<1>3. /\ dev[d].alive /\ dev[d].users \in {1, 2} /\ "bound" \in Busy
      /\ mod # "live" => dev[d].users = 1 /\ d \notin ctrl
  BY <1>1, Before DEF DevInv, At, Busy, Held
<1>4. d \in ctrl => Excuse("stale_file", Env')
  BY <1>1, <1>3 DEF Excuse, Env
<1>5. ASSUME NEW t, DevInv(t, "off", Env'), t.users = dev[d].users - 1, Go(d, t, "off")
      PROVE  IInv'
  <2>1. mod # "live" => t.users = 0 /\ d \notin ctrl  BY <1>3, <1>5
  <2>2. Held(t, "off", Env', mod, d \in ctrl)  BY <1>4, <2>1 DEF Held, Busy
  <2> QED  BY <1>2, <1>5, <2>2, GoKeeps
<1>6. CASE dev[d].drvdata # (IF scsi_mode THEN "host" ELSE "sdev")
  <2> DEFINE t == Fault(dev[d], "confused")
  <2>1. Go(d, t, "dead")  BY <1>6 DEF Remove
  <2>2. "params" \in causes
    <3>1. dev[d].drvdata \in {"sdev", "host"}  BY <1>1, Before DEF DevInv, At, Busy, Devices
    <3>2. "params" \notin Env.causes => (dev[d].drvdata = "host" <=> Env.scsi)
      BY <1>1, <1>3, Before DEF DevInv, Steady
    <3> QED  BY <1>6, <3>1, <3>2, Before
  <2>3. Excuse("confused", Env')  BY <1>1, <2>2 DEF Excuse, Env
  <2>4. Faulted(dev[d], "confused", t)  BY Before, FaultFields DEF FaultNames
  <2>5. DevInv(t, "dead", Env')  BY <1>1, <1>2, <2>3, <2>4, Before, FaultStep
  <2>6. Held(t, "dead", Env', mod, d \in ctrl)  BY <1>1, <1>3, <1>4 DEF Held, Busy
  <2> QED  BY <1>2, <2>1, <2>6, <2>5, GoKeeps
<1>7. CASE dev[d].drvdata = "host" /\ scsi_mode
  <2>1. Go(d, shannon_scsi_remove(dev[d], iosched), "off")  BY <1>7 DEF Remove
  <2>2. /\ DevInv(shannon_scsi_remove(dev[d], Env.io), "off", Env')
        /\ shannon_scsi_remove(dev[d], Env.io).users = dev[d].users - 1
    BY <1>1, <1>2, <1>7, Before, RemoveHostStep, Zenon
  <2> QED  BY <1>5, <2>1, <2>2, Before
<1>8. CASE dev[d].drvdata = "sdev" /\ ~scsi_mode
  <2> DEFINE t == [core_remove(shannon_detach(dev[d], Env.io), Env.io) EXCEPT !.drvdata = "none"]
  <2>1. Go(d, t, "off")  BY <1>8, Before DEF Remove
  <2>2. DevInv(t, "off", Env') /\ t.users = dev[d].users - 1
    BY <1>1, <1>2, <1>8, Before, RemoveBlockStep
  <2> HIDE DEF t
  <2> QED  BY <1>5, <2>1, <2>2
<1> QED  BY <1>6, <1>7, <1>8, Before

\* The users of the disk.
LEMMA UserKeeps ==
  ASSUME IInv, NEW d \in Devs, OpenDisk(d) \/ ReleaseDisk(d)
  PROVE  IInv'
<1>1. UNCHANGED <<modvars, submit_bio, causes, bounds>> /\ UNCHANGED ctrl
  BY DEF OpenDisk, ReleaseDisk
<1>2. Onward /\ Env' = Env  BY <1>1, Before, QuietStep DEF Onward
<1>3. Holders(dev[d], pc[d]) = Openers(d)  BY DEF Holders, Openers
<1>4. CASE OpenDisk(d)
  <2> DEFINE t == [dev[d] EXCEPT !.users = @ + 1]
  <2>1. mod = "live" /\ Openers(d) = 0 /\ Go(d, t, pc[d])  BY <1>4 DEF OpenDisk
  <2>2. UsedBy(dev[d], dev[d].users + 1, t) /\ t.alive = dev[d].alive  BY Before, OpenedFields
  <2> HIDE DEF t
  <2>3. DevInv(t, pc[d], Env) /\ Held(t, pc[d], Env, "live", d \in ctrl)
    BY <1>3, <2>1, <2>2, Before, OpenStep
  <2> QED  BY <1>2, <2>1, <2>3, GoKeeps
<1>5. CASE ReleaseDisk(d)
  <2> DEFINE t == sh_decrease_users(dev[d])
  <2>1. pc[d] # "dead" /\ Openers(d) = 1 /\ Go(d, t, pc[d])  BY <1>5 DEF ReleaseDisk
  <2>2. UsedBy(dev[d], dev[d].users - 1, t) /\ t.alive = (dev[d].users > 1)
    <3>1. dev[d].users > 0
      <4>1. dev[d].users \in Nat  BY Before DEF Devices
      <4> QED  BY <2>1, <4>1 DEF Openers
    <3> QED  BY <3>1, Before, UsersFields
  <2> HIDE DEF t
  <2>3. DevInv(t, pc[d], Env) /\ Held(t, pc[d], Env, mod, d \in ctrl)
    BY <1>3, <2>1, <2>2, Before, ReleaseStep
  <2> QED  BY <1>2, <2>1, <2>3, GoKeeps
<1> QED  BY <1>4, <1>5

\* Another command of a stale control file, an attribute of a confused device.
LEMMA MisuseKeeps ==
  ASSUME IInv, NEW d \in Devs, IoctlUse(d) \/ ReadHwmon(d)
  PROVE  IInv'
<1>1. UNCHANGED <<modvars, submit_bio, causes, bounds>> /\ UNCHANGED ctrl
  BY DEF IoctlUse, ReadHwmon
<1>2. Onward /\ Later(Env, Env') /\ Env' = Env  BY <1>1, Before, QuietStep DEF Onward
<1>3. PICK f \in FaultNames : Excuse(f, Env) /\ Go(d, Fault(dev[d], f), pc[d])
  <2>1. CASE IoctlUse(d)
    <3>1. d \in ctrl /\ ~dev[d].alive /\ Go(d, Fault(dev[d], "stale_file"), pc[d])
      BY <2>1 DEF IoctlUse
    <3>2. Excuse("stale_file", Env)  BY <3>1, Before DEF Held
    <3> QED  BY <3>1, <3>2 DEF FaultNames
  <2>2. CASE ReadHwmon(d)
    <3>1. /\ pc[d] = "bound" /\ Go(d, Fault(dev[d], "confused"), pc[d])
          /\ dev[d].drvdata # (IF scsi_mode THEN "host" ELSE "sdev")
      BY <2>2 DEF ReadHwmon, shannon_device_show
    <3>2. "params" \in Env.causes
      <4>1. dev[d].drvdata \in {"sdev", "host"}  BY <3>1, Before, ZenonT(30) DEF DevInv, At, Busy, Devices
      <4>2. "params" \notin Env.causes => (dev[d].drvdata = "host" <=> Env.scsi)
        BY <3>1, Before, Zenon DEF DevInv, Steady, Busy
      <4> QED  BY <3>1, <4>1, <4>2, Before
    <3>3. Excuse("confused", Env)  BY <3>2 DEF Excuse
    <3> QED  BY <3>1, <3>3 DEF FaultNames
  <2> QED  BY <2>1, <2>2
<1> DEFINE t == Fault(dev[d], f)
<1>4. Faulted(dev[d], f, t)  BY <1>3, Before, FaultFields
<1> HIDE DEF t
<1>5. DevInv(t, pc[d], Env')  BY <1>2, <1>3, <1>4, Before, FaultStep
<1>6. Held(t, pc[d], Env', mod, d \in ctrl)  BY <1>2, <1>4, Before DEF Faulted, Held, SameOwner
<1>7. Go(d, t, pc[d])  BY <1>3, Zenon DEF t
<1> QED  BY <1>2, <1>5, <1>6, <1>7, GoKeeps

\* The users of the control device.
LEMMA CtrlKeeps ==
  ASSUME IInv, NEW d \in Devs, OpenCtrl(d) \/ ReleaseCtrl(d)
  PROVE  IInv'
<1>1. UNCHANGED <<modvars, submit_bio, causes, bounds>> /\ UNCHANGED <<pc, dev>>
      /\ ctrl' \subseteq Devs
  BY Before DEF OpenCtrl, ReleaseCtrl
<1>2. ModInv' /\ Env' = Env /\ mod' = mod  BY <1>1, Before, QuietStep
<1>3. ASSUME NEW x \in Devs
      PROVE  DevInv(dev[x], pc[x], Env) /\ Held(dev[x], pc[x], Env, mod, x \in ctrl')
  <2>1. DevInv(dev[x], pc[x], Env) /\ Held(dev[x], pc[x], Env, mod, x \in ctrl)  BY DEF IInv
  <2>2. CASE x \in ctrl' => x \in ctrl  BY <2>1, <2>2 DEF Held
  <2>3. CASE x \in ctrl' /\ x \notin ctrl
    <3>1. mod = "live" /\ dev[x].misc  BY <2>3 DEF OpenCtrl, ReleaseCtrl
    <3>2. dev[x].alive /\ pc[x] # "off"  BY <2>1, <3>1, Zenon DEF DevInv, Sound, At
    <3> QED  BY <2>1, <3>1, <3>2 DEF Held
  <2> QED  BY <2>2, <2>3
<1> QED  BY <1>1, <1>2, <1>3 DEF IInv

\* Every step of a device.
LEMMA StepKeeps ==
  ASSUME IInv, NEW d \in Devs, Step(d)
  PROVE  IInv'
  BY ProbeKeeps, ProbeQueueKeeps, ProbeMiscKeeps, ProbeSysfsKeeps, ProbeUndoKeeps,
     AttachAllocKeeps, AttachAddKeeps, IoctlKeeps, RemoveKeeps, UserKeeps, MisuseKeeps,
     CtrlKeeps DEF Step

\* A step of the module that leaves the devices and the parameters alone.
LEMMA ModMoves ==
  ASSUME IInv, Aside
  PROVE  IInv'
<1>1. ASSUME NEW d \in Devs
      PROVE  DevInv(dev[d], pc[d], Env') /\ Held(dev[d], pc[d], Env', mod', d \in ctrl)
  <2>1. DevInv(dev[d], pc[d], Env) /\ Held(dev[d], pc[d], Env, mod', d \in ctrl)  BY DEF IInv, Aside
  <2> QED  BY <2>1, OtherDevice, OtherHeld DEF Aside
<1> QED  BY <1>1 DEF IInv, Aside

\* A parameter that is written.
LEMMA WriteKeeps ==
  ASSUME IInv, WriteParam
  PROVE  IInv'
<1>1. ModInv /\ scsi_mode \in BOOLEAN /\ causes \subseteq AllCauses
      /\ iosched \in BOOLEAN /\ auto_attach \in BOOLEAN /\ submit_bio \in BOOLEAN
  BY DEF IInv, ModInv, Env, Envs
<1>2. /\ UNCHANGED <<mod, res, auto_attach, submit_bio, pc, dev, ctrl, binds, percpu>>
      /\ trouble' = trouble + 2 /\ causes \subseteq causes' /\ "params" \in causes'
      /\ causes' \subseteq AllCauses /\ scsi_mode' \in BOOLEAN /\ iosched' \in BOOLEAN
  BY <1>1, Zenon DEF WriteParam, AllCauses
<1>3. Env \in Envs /\ Env' \in Envs  BY <1>1, <1>2 DEF Env, Envs
<1>4. ModInv'  BY <1>1, <1>2, <1>3 DEF ModInv
<1>5. Written(Env, Env')
  <2>1. \/ /\ scsi_mode' = ~scsi_mode /\ iosched' = iosched
           /\ causes' = causes \cup {"params", IF "mode" \in causes THEN "back" ELSE "mode"}
        \/ /\ iosched' = ~iosched /\ scsi_mode' = scsi_mode
           /\ causes' = causes \cup {"params"}
    BY DEF WriteParam
  <2>2. /\ Env.causes = causes /\ Env.scsi = scsi_mode /\ Env.io = iosched
        /\ Env.auto = auto_attach /\ Env.sub = submit_bio
        /\ Env'.causes = causes' /\ Env'.scsi = scsi_mode' /\ Env'.io = iosched'
        /\ Env'.auto = auto_attach' /\ Env'.sub = submit_bio'
    BY DEF Env
  <2> QED  BY <1>1, <1>2, <1>3, <2>1, <2>2 DEF Written
<1>6. ASSUME NEW d \in Devs
      PROVE  DevInv(dev[d], pc[d], Env') /\ Held(dev[d], pc[d], Env', mod, d \in ctrl)
  BY <1>5, Before, WrittenDevice, WrittenHeld
<1> QED  BY <1>2, <1>4, <1>6 DEF IInv

\* Nothing happens.
LEMMA StutterKeeps ==
  ASSUME IInv, UNCHANGED vars
  PROVE  IInv'
<1>1. UNCHANGED <<mod, res, submit_bio, pc, dev, ctrl, causes, trouble, binds>>
      /\ UNCHANGED <<scsi_mode, iosched, percpu, auto_attach>>
  BY DEF vars, params
<1>2. Env' = Env  BY <1>1 DEF Env
<1> QED  BY <1>1, <1>2 DEF IInv, ModInv

\* Every step keeps the invariant.
LEMMA NextKeeps == IInv /\ [Next]_vars => IInv'
  BY StepKeeps, InitAside, ExitAside, ModMoves, WriteKeeps, StutterKeeps DEF Next, ModStep

-----------------------------------------------------------------------------
(* The properties. *)

\* The invariant holds in every state.
LEMMA Invariant == Spec => []IInv
  BY InitIInv, NextKeeps, PTL DEF Spec

\* For any number of devices, attributes, failing calls, parameter writes and
\* probes: every fault of a handler has the one trouble that explains it.
THEOREM FaultsStayExplained == Spec => []FaultsExplained
  BY Invariant, IInvFaults, PTL

\* And once the module is out again, unless scsi_mode was written and written
\* back, nothing of it is left but what the known losses account for.
THEOREM NothingStaysBehind == Spec => []NothingLeftBehind
  BY Invariant, IInvNothingLeft, PTL

\* A disk that an attach has left live is whole.
THEOREM LiveDisksAreWhole == Spec => []LiveDiskIsWhole
  BY Invariant, IInvWhole, PTL

\* The module gives its resources back in reverse order, after the devices.
THEOREM ReleaseOrder == Spec => ReleasedInReverse
<1> DEFINE A == \A r \in res \ res' :
                  /\ \A q \in res' : r \notin Earlier(q)
                  /\ \A d \in Devs : dev[d].queue = "none" /\ ~dev[d].misc
<1>1. IInv /\ [Next]_vars => [A]_vars  BY NextInReverse
<1>2. ReleasedInReverse <=> [][A]_vars  BY DEF ReleasedInReverse
<1> HIDE DEF A
<1> QED  BY <1>1, <1>2, Invariant, PTL DEF Spec
=============================================================================
