------------------------------- MODULE PciBus -------------------------------
(***************************************************************************)
(* The PCI helpers of shannon_pci.c that reprogram the card and the bridge *)
(* above it: link retraining, function reset with its four methods, and    *)
(* the tuning of payload, read request and error reporting that the core   *)
(* does once the link is good.                                             *)
(*                                                                         *)
(* One thread of the driver calls them (probe, or a reset asked for        *)
(* later); what it does between two sleeps is one step.  Meanwhile the     *)
(* hardware finishes transactions and comes back from resets when it       *)
(* likes, and the kernel's port services write the same bridge registers.  *)
(***************************************************************************)
EXTENDS Naturals

CONSTANTS
    Cards,      \* the cards and slots considered: each a set of Features
    MaxPolls,   \* polls of the Transaction Pending bit (4 in the source)
    MaxCall,    \* bound on the calls of a behaviour
    MaxOther    \* bound on the writes of the port services

\* What a card and its slot may have.  "exp": PCIe capability; "flr": it
\* offers function level reset; "af", "aftp", "afflr": the advanced features
\* capability and its two bits; "pm", "softreset", "d0": power management
\* capability, reset on D3->D0, and the card is in D0; "bridge": the bus has a
\* bridge; "root": the bus is a root bus; "sub": the card is itself a bridge;
\* "peer": another device on the bus; "bexp", "btimeout": the bridge's PCIe
\* capability, and its completion timeout range B.
Features == {"exp", "flr", "af", "aftp", "afflr", "pm", "softreset", "d0",
             "bridge", "root", "sub", "peer", "bexp", "btimeout"}

ASSUME PciAssumption ==
    /\ Cards \subseteq SUBSET Features
    /\ MaxPolls \in Nat \ {0} /\ MaxCall \in Nat /\ MaxOther \in Nat

\* card, and the registers: dev (command word, payload, read request), bus
\* (the bridge), up (the card answers), pending (Transaction Pending); of the
\* call in progress: pc, rc, polls, saved (pci_save_state), loc (the words
\* held across the sleeps); tuned.  Ghosts of the current or last call:
\* resets done, found (the bridge when it began), others (registers the port
\* services wrote since), late (a restore met a card that did not answer).
VARIABLE pci

Regs == {"slt", "lnk", "ctl"}
\* A register is the bit the helpers work on and the bits of everyone else.
Word(b) == [bit |-> b, rest |-> 0]
Fresh == [cmd |-> "zero", mps |-> 0, rq |-> 128]

PciStart(c, p) ==
    [card |-> c, pc |-> "idle", rc |-> "none", polls |-> 0, pending |-> p,
     up |-> TRUE, dev |-> [Fresh EXCEPT !.cmd = "run"], saved |-> Fresh,
     bus |-> [slt |-> Word(TRUE), lnk |-> Word(FALSE), ctl |-> Word(FALSE),
              mps |-> 1, cere |-> TRUE, timeout |-> 0, ari |-> 1],
     loc |-> [r \in Regs |-> Word(FALSE)], tuned |-> FALSE, resets |-> {},
     found |-> [r \in Regs |-> Word(r = "slt")], others |-> {},
     late |-> FALSE, calls |-> 0, writes |-> 0]

PciInit == pci \in {PciStart(c, p) : c \in Cards, p \in BOOLEAN}

Has(f) == f \in pci.card
BridgeIsPcie == Has("bridge") /\ Has("bexp")
\* The guard shared by the bus reset and the retraining: a bus of its own,
\* below a bridge.
AloneBelowBridge ==
    ~Has("root") /\ ~Has("sub") /\ Has("bridge") /\ ~Has("peer")

-----------------------------------------------------------------------------
(* Saving, forgetting and restoring the configuration: external.           *)

\* pci_save_state and the write of the command word, at the start of a call.
SaveAndQuiet ==
    [pci EXCEPT !.saved = pci.dev, !.dev.cmd = "quiet", !.resets = {},
                !.others = {}, !.found = [r \in Regs |-> pci.bus[r]],
                !.calls = @ + 1]

\* A reset: the card forgets its configuration and is silent until ready.
Forget(s, how) ==
    [s EXCEPT !.dev = Fresh, !.up = FALSE,
              !.pending = FALSE, !.resets = @ \cup {how}]

Callable == pci.pc = "idle" /\ pci.up /\ pci.calls < MaxCall

\* pci_restore_state at label done, on every path of both calls.
Done ==
    /\ pci.pc = "restore"
    /\ pci' = [pci EXCEPT !.pc = "idle",
                          !.dev = IF pci.up THEN pci.saved ELSE @,
                          !.late = @ \/ ~pci.up]

-----------------------------------------------------------------------------
(* shannon_pci_reset_function: FLR, AF FLR, power management, parent bus.  *)

shannon_pci_reset_function ==
    Callable /\ pci' = [SaveAndQuiet EXCEPT !.pc = "flr"]

\* A method the card does not offer: -ENOTTY, and the next one is tried.
NotOffered(next) == pci' = [pci EXCEPT !.pc = next, !.rc = "ENOTTY"]

\* Mutant: the reset waits for the Transaction Pending bit without a limit.
PollForever(how) ==
    pci' = IF pci.pending
           THEN [pci EXCEPT !.polls = IF @ + 1 < MaxPolls THEN @ + 1 ELSE 0]
           ELSE [Forget(pci, how) EXCEPT !.polls = 0, !.rc = "0",
                                         !.pc = "restore"]

\* The poll of the Transaction Pending bit, MaxPolls times at most: the
\* reset is written once the bit is clear, or anyway after the last poll.
PollThenReset(how) ==
    pci' = IF pci.pending /\ pci.polls + 1 < MaxPolls
           THEN [pci EXCEPT !.polls = @ + 1]
           ELSE [Forget(pci, how) EXCEPT !.polls = 0, !.rc = "0",
                                         !.pc = "restore"]

shannon_pcie_flr ==
    /\ pci.pc = "flr"
    /\ IF Has("exp") /\ Has("flr") THEN PollThenReset("flr")
       ELSE NotOffered("af")

shannon_pci_af_flr ==
    /\ pci.pc = "af"
    /\ IF Has("af") /\ Has("aftp") /\ Has("afflr") THEN PollThenReset("af")
       ELSE NotOffered("pm")

\* D3hot and back: the reset happens, and -ENOTTY is returned all the same.
shannon_pci_pm_reset ==
    /\ pci.pc = "pm"
    /\ IF ~Has("pm") \/ ~Has("softreset") THEN NotOffered("bus")
       ELSE pci' = IF Has("d0")
                   THEN [Forget(pci, "pm") EXCEPT !.pc = "bus", !.rc = "ENOTTY"]
                   ELSE [pci EXCEPT !.pc = "restore", !.rc = "EINVAL"]

\* The secondary bus reset bit is set and held for 100 ms, then the word read
\* before is written back without it: -ENOTTY again.
shannon_pci_parent_bus_reset ==
    \/ pci.pc = "bus" /\ ~AloneBelowBridge /\ NotOffered("restore")
    \/ /\ pci.pc = "bus" /\ AloneBelowBridge
       /\ pci' = [Forget(pci, "bus") EXCEPT !.pc = "bus_off",
                    !.loc.ctl = [pci.bus.ctl EXCEPT !.bit = TRUE],
                    !.bus.ctl.bit = TRUE]
    \/ /\ pci.pc = "bus_off"
       /\ pci' = [pci EXCEPT !.pc = "restore", !.rc = "ENOTTY",
                             !.bus.ctl = [pci.loc.ctl EXCEPT !.bit = FALSE]]

-----------------------------------------------------------------------------
(* shannon_pci_bus_retrain.                                                *)

RetrainStart ==
    /\ Callable
    /\ pci' = IF AloneBelowBridge /\ BridgeIsPcie
              THEN [SaveAndQuiet EXCEPT !.pc = "mask"]
              ELSE [SaveAndQuiet EXCEPT !.pc = "restore", !.rc = "ENOTTY"]

\* The hot-plug interrupt is masked.
RetrainMask ==
    /\ pci.pc = "mask"
    /\ pci' = [pci EXCEPT !.pc = "disable", !.loc.slt = pci.bus.slt,
                          !.bus.slt.bit = FALSE]

\* The link is disabled for 200 ms, then retrained: the word is the one read
\* before the sleep.
RetrainLink ==
    \/ /\ pci.pc = "disable"
       /\ pci' = [Forget(pci, "link") EXCEPT !.pc = "retrain",
                    !.loc.lnk = [pci.bus.lnk EXCEPT !.bit = TRUE],
                    !.bus.lnk.bit = TRUE]
    \/ /\ pci.pc = "retrain"
       /\ pci' = [pci EXCEPT !.pc = "unmask",
                             !.bus.lnk = [pci.loc.lnk EXCEPT !.bit = FALSE]]

\* Mutant: the hot-plug interrupt stays masked.
RetrainStaysMasked ==
    /\ pci.pc = "unmask"
    /\ pci' = [pci EXCEPT !.pc = "restore", !.rc = "0"]

\* The slot control word is put back.
RetrainUnmask ==
    /\ pci.pc = "unmask"
    /\ pci' = [pci EXCEPT !.pc = "restore", !.rc = "0",
                          !.bus.slt = pci.loc.slt]

-----------------------------------------------------------------------------
(* The tuning the core does once the link is good.                         *)

Tunable == pci.pc = "idle" /\ pci.up

shannon_set_max_payload_size ==
    /\ Tunable /\ Has("exp") /\ BridgeIsPcie
    /\ pci' = [pci EXCEPT !.tuned = TRUE, !.dev.mps = pci.bus.mps]

shannon_disable_correctable_aer ==
    Tunable /\ BridgeIsPcie /\ pci' = [pci EXCEPT !.bus.cere = FALSE]

\* Timeout range B: bits 1 and 2 of the timeout are set, and every bit above
\* the timeout field (ari among them) is cleared by the mask.
shannon_set_bridge_timeout ==
    /\ Tunable /\ BridgeIsPcie /\ Has("btimeout")
    /\ pci' = [pci EXCEPT !.bus.timeout = 6 + (@ % 2) + 8 * (@ \div 8),
                          !.bus.ari = 0]

\* The read request size, refused unless a power of two from 128 to 4096.
shannon_pcie_set_readrq(rq) ==
    /\ Tunable /\ Has("exp") /\ rq \in {128, 256, 512, 1024, 2048, 4096}
    /\ pci' = [pci EXCEPT !.dev.rq = rq]

-----------------------------------------------------------------------------
(* The hardware and the port services: external.                           *)

Drain == pci.pending /\ pci' = [pci EXCEPT !.pending = FALSE]

Ready ==
    /\ ~pci.up /\ ~pci.bus.ctl.bit /\ ~pci.bus.lnk.bit
    /\ \E p \in BOOLEAN : pci' = [pci EXCEPT !.up = TRUE, !.pending = p]

PortServiceWrites(r) ==
    /\ Has("bridge") /\ pci.writes < MaxOther
    /\ pci' = [pci EXCEPT !.writes = @ + 1, !.bus[r].rest = 1 - @,
                          !.others = @ \cup {r}]

PciCall ==
    \/ shannon_pcie_flr \/ shannon_pci_af_flr \/ shannon_pci_pm_reset
    \/ shannon_pci_parent_bus_reset
    \/ RetrainMask \/ RetrainLink \/ RetrainUnmask \/ Done

PciNext ==
    \/ shannon_pci_reset_function \/ RetrainStart \/ PciCall
    \/ shannon_set_max_payload_size \/ shannon_disable_correctable_aer
    \/ shannon_set_bridge_timeout
    \/ \E rq \in {64, 512, 3000} : shannon_pcie_set_readrq(rq)
    \/ Drain \/ Ready \/ \E r \in Regs : PortServiceWrites(r)

-----------------------------------------------------------------------------
\* A reset or retraining leaves the configuration as it found it, whatever
\* path it took.  Of the bridge: the link enabled, the secondary bus out of
\* reset, the hot-plug interrupt as it was (shannon_pci_bus_retrain,
\* shannon_pci_parent_bus_reset); only a register that a port service wrote
\* during the call may differ, for the helper writes back a word it read
\* before its sleeps.  Of the card: the driver's command word and, once tuned,
\* the bridge's payload size; only a card that was not back when a fixed sleep
\* ended (late) has lost them.
ConfigurationKept ==
    pci.pc = "idle" =>
        /\ \A r \in Regs : pci.bus[r] = pci.found[r] \/ r \in pci.others
        /\ ~pci.late => /\ pci.dev.cmd = "run"
                        /\ pci.tuned => pci.dev.mps = pci.bus.mps

\* A call returns 0 exactly when a function level reset or a retraining was
\* carried out, and then nothing else was; only the power management reset,
\* which reports -ENOTTY after it is done, is followed by another method.
ReportsHonestly ==
    pci.pc = "idle" =>
        /\ (pci.rc = "0") = (pci.resets \cap {"flr", "af", "link"} # {})
        /\ \A a, b \in pci.resets : a # b => {a, b} = {"pm", "bus"}

\* A reset or a retraining returns, whatever the hardware does: a card that
\* never drains its transactions is reset anyway (shannon_pcie_flr and
\* shannon_pci_af_flr stop after the last poll).
CallReturns == (pci.pc # "idle") ~> (pci.pc = "idle")

=============================================================================
