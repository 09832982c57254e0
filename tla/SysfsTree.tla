----------------------------- MODULE SysfsTree -----------------------------
(***************************************************************************)
(* The sysfs objects of shannon_sysfs.c, as operators on the record s of   *)
(* the device, pool or namespace that embeds them.  s.kobjs is the set of  *)
(* objects that are in the tree, s.files the hwmon attribute files of the  *)
(* PCI device, s.hwmon whether the hwmon device is registered.  The        *)
(* release functions are empty and nothing drops a kobject's reference, so *)
(* being in the tree is all there is to an object.                         *)
(***************************************************************************)
EXTENDS Naturals

CONSTANT NAttr                 \* attributes of shannon_hwmon_attrs
ASSUME NAttrAssumption == NAttr \in Nat \ {0}

\* shannon, then pci_info under it; the second failing deletes the first.
shannon_sysfs_init(s, stop) ==
  CASE stop = "shannon"  -> s
    [] stop = "pci_info" -> [s EXCEPT !.kobjs = (@ \cup {"shannon"}) \ {"shannon"}]
    [] OTHER             -> [s EXCEPT !.kobjs = @ \cup {"shannon", "pci_info"}]

shannon_sysfs_exit(s) == [s EXCEPT !.kobjs = (@ \ {"pci_info"}) \ {"shannon"}]

\* fail = i: device_create_file fails for attribute i; NAttr + 1: the
\* registration fails; 0: nothing does.  Both failures return NULL after
\* removing what was created (and the attribute that was not).
shannon_hwmon_init(s, fail) ==
  LET created == IF fail \in 1..NAttr THEN 1..(fail - 1) ELSE 1..NAttr
      removed == IF fail \in 1..NAttr THEN 1..fail ELSE 1..NAttr
  IN IF fail = 0 THEN [s EXCEPT !.files = @ \cup created, !.hwmon = TRUE]
     ELSE [s EXCEPT !.files = (@ \cup created) \ removed]

shannon_hwmon_exit(s) ==
  IF ~s.hwmon THEN s ELSE [s EXCEPT !.hwmon = FALSE, !.files = @ \ 1..NAttr]

\* Which structure an hwmon attribute takes the driver data of the PCI device
\* for; the same reading guards shannon_device_store.
shannon_device_show(scsi_mode) == IF scsi_mode THEN "host" ELSE "sdev"
=============================================================================
