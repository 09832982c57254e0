------------------------------ MODULE Services ------------------------------
(***************************************************************************)
(* The services of the driver around the request path: the PCI helpers,    *)
(* the disk statistics, the error injection, the transfers to a SCSI       *)
(* command or a debug file, the control files of the pools.  They share no *)
(* state, so one specification explores each of them by itself: `part` is  *)
(* the one that runs, and the others stay where they start.                *)
(***************************************************************************)
EXTENDS PciBus, DiskStats, ErrInjection, Transfers, PoolLife

VARIABLE part

vars == <<pci, st, inj, xf, pl, part>>

AtRest ==
  [pci |-> PciStart({}, FALSE), st |-> StatsStart("5.15"),
   inj |-> InjStart({}, FALSE), xf |-> XferStart("NORMAL_TYPE"),
   pl |-> PoolStart]

Init ==
  /\ part \in {"pci", "stats", "injection", "transfers", "pools"}
  /\ IF part = "pci" THEN PciInit ELSE pci = AtRest.pci
  /\ IF part = "stats" THEN StatsInit ELSE st = AtRest.st
  /\ IF part = "injection" THEN InjInit ELSE inj = AtRest.inj
  /\ IF part = "transfers" THEN XferInit ELSE xf = AtRest.xf
  /\ IF part = "pools" THEN PoolInit ELSE pl = AtRest.pl

Next ==
  /\ UNCHANGED part
  /\ \/ part = "pci" /\ PciNext /\ UNCHANGED <<st, inj, xf, pl>>
     \/ part = "stats" /\ StatsNext /\ UNCHANGED <<pci, inj, xf, pl>>
     \/ part = "injection" /\ InjNext /\ UNCHANGED <<pci, st, xf, pl>>
     \/ part = "transfers" /\ XferNext /\ UNCHANGED <<pci, st, inj, pl>>
     \/ part = "pools" /\ PoolNext /\ UNCHANGED <<pci, st, inj, xf>>

\* The thread in a PCI call runs on: it only sleeps for fixed times.
Spec ==
  /\ Init /\ [][Next]_vars
  /\ WF_vars(part = "pci" /\ PciCall /\ UNCHANGED <<st, inj, xf, pl, part>>)
=============================================================================
