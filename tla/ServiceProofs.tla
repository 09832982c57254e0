---------------------------- MODULE ServiceProofs ---------------------------
(***************************************************************************)
(* Proofs about services of the driver: the PCI helpers, for any cards,    *)
(* and the error injection, for every geometry and any number of callers.  *)
(***************************************************************************)
EXTENDS PciBus, ErrInjection, FiniteSetTheorems, TLAPS

-----------------------------------------------------------------------------
(* PciBus.  A reset or retraining undoes what it did to bridge and card,    *)
(* and its result says what it did.                                         *)

PciSpec == PciInit /\ [][PciNext]_pci

Pcs == {"idle", "flr", "af", "pm", "bus", "bus_off", "mask", "disable",
        "retrain", "unmask", "restore"}
Results == {"none", "0", "ENOTTY", "EINVAL"}
Methods == {"flr", "af", "pm", "bus", "link"}
Words == [bit : BOOLEAN, rest : Int]
Configs == [cmd : {"run", "quiet", "zero"}, mps : Nat, rq : Nat]
Bridges == [slt : Words, lnk : Words, ctl : Words, mps : Nat,
            cere : BOOLEAN, timeout : Nat, ari : Nat]

\* The shapes of the registers and of the words kept of them.
States ==
    [card : SUBSET Features, pc : Pcs, rc : Results, polls : Nat,
     pending : BOOLEAN, up : BOOLEAN, dev : Configs, saved : Configs,
     bus : Bridges, loc : [Regs -> Words], found : [Regs -> Words],
     tuned : BOOLEAN, resets : SUBSET Methods, others : SUBSET Regs,
     late : BOOLEAN, calls : Nat, writes : Nat]

Shapes == pci \in States

\* The bridge during a call.  The two reset bits are set only in the sleep
\* that follows their setting.  A register nobody else wrote is as found, or
\* the word that is going to be written back is.
BridgeInv ==
    /\ pci.bus.lnk.bit = (pci.pc = "retrain")
    /\ pci.bus.ctl.bit = (pci.pc = "bus_off")
    /\ "slt" \in pci.others
       \/ IF pci.pc \in {"disable", "retrain", "unmask"}
          THEN pci.loc["slt"] = pci.found["slt"]
          ELSE pci.bus.slt = pci.found["slt"]
    /\ "lnk" \in pci.others
       \/ IF pci.pc = "retrain"
          THEN [pci.loc["lnk"] EXCEPT !.bit = FALSE] = pci.found["lnk"]
          ELSE pci.bus.lnk = pci.found["lnk"]
    /\ "ctl" \in pci.others
       \/ IF pci.pc = "bus_off"
          THEN [pci.loc["ctl"] EXCEPT !.bit = FALSE] = pci.found["ctl"]
          ELSE pci.bus.ctl = pci.found["ctl"]

\* The card's good configuration is in its registers between two calls, and
\* in saved during one.
CardInv ==
    ~pci.late =>
        LET good == IF pci.pc = "idle" THEN pci.dev ELSE pci.saved
        IN  good.cmd = "run" /\ (pci.tuned => good.mps = pci.bus.mps)

\* What a call has done to the card so far, and the result it will return.
ResultInv ==
    /\ pci.pc \in {"flr", "af", "pm", "mask", "disable"} => pci.resets = {}
    /\ pci.pc = "bus" => pci.resets \in {{}, {"pm"}}
    /\ pci.pc = "bus_off" => pci.resets \in {{"bus"}, {"pm", "bus"}}
    /\ pci.pc \in {"retrain", "unmask"} => pci.resets = {"link"}
    /\ pci.pc \in {"restore", "idle"} =>
          IF pci.rc = "0" THEN pci.resets \in {{"flr"}, {"af"}, {"link"}}
          ELSE pci.resets \in {{}, {"pm"}, {"bus"}, {"pm", "bus"}}

PciInv == Shapes /\ BridgeInv /\ CardInv /\ ResultInv

-----------------------------------------------------------------------------
\* The invariant holds of a card that has not been touched (PciStart).
LEMMA PciInitInv == PciInit => PciInv
  <1> SUFFICES ASSUME NEW c \in Cards, NEW p \in BOOLEAN, pci = PciStart(c, p)
               PROVE  PciInv
    BY DEF PciInit
  <1> USE PciAssumption DEF PciStart, Word, Fresh, Regs
  <1>1. Shapes
    BY DEF Shapes, States, Pcs, Words, Configs, Bridges, Results, Methods
  <1>2. BridgeInv  BY Zenon DEF BridgeInv
  <1>3. CardInv  BY DEF CardInv
  <1>4. ResultInv  BY DEF ResultInv
  <1> QED  BY <1>1, <1>2, <1>3, <1>4 DEF PciInv

\* What a reset does to the model's state: the card forgets, and the method
\* is recorded.
LEMMA ForgetShape ==
  ASSUME NEW s \in States, NEW how \in Methods
  PROVE  LET t == Forget(s, how)
         IN  /\ t \in States /\ t.resets = s.resets \cup {how}
             /\ t.bus = s.bus /\ t.loc = s.loc /\ t.found = s.found
             /\ t.others = s.others /\ t.saved = s.saved /\ t.tuned = s.tuned
             /\ t.late = s.late
  <1>1. Fresh \in Configs  BY DEF Fresh, Configs
  <1> QED  BY Zenon, <1>1 DEF Forget, States

\* What the start of a call does: the configuration is saved, the card quiet.
LEMMA SaveShape ==
  ASSUME Shapes
  PROVE  LET t == SaveAndQuiet
         IN  /\ t \in States /\ t.resets = {} /\ t.others = {}
             /\ t.bus = pci.bus /\ t.saved = pci.dev /\ t.tuned = pci.tuned
             /\ t.late = pci.late
             /\ \A r \in Regs : t.found[r] = pci.bus[r]
  <1> DEFINE quiet == [pci.dev EXCEPT !.cmd = "quiet"]
             words == [r \in Regs |-> pci.bus[r]]
             made == pci.calls + 1
  <1>1. pci.dev \in Configs /\ pci.bus \in Bridges /\ pci.calls \in Nat
    BY DEF Shapes, States
  <1>2. quiet \in Configs /\ made \in Nat  BY <1>1 DEF Configs
  <1>3. words \in [Regs -> Words]  BY <1>1 DEF Bridges, Regs
  <1>4. SaveAndQuiet = [pci EXCEPT !.saved = pci.dev, !.dev = quiet, !.resets = {},
                                   !.others = {}, !.found = words, !.calls = made]
    BY DEF SaveAndQuiet
  <1> HIDE DEF quiet, words, made
  <1>5. SaveAndQuiet \in States
    BY Zenon, <1>1, <1>2, <1>3, <1>4 DEF Shapes, States
  <1>6. /\ SaveAndQuiet.found = words
        /\ SaveAndQuiet.resets = {} /\ SaveAndQuiet.others = {}
        /\ SaveAndQuiet.saved = pci.dev
    BY <1>4 DEF Shapes, States
  <1>7. /\ SaveAndQuiet.bus = pci.bus /\ SaveAndQuiet.tuned = pci.tuned
        /\ SaveAndQuiet.late = pci.late
    BY <1>4 DEF Shapes, States
  <1> QED  BY <1>5, <1>6, <1>7 DEF words

\* A call begins between two calls, with the bridge as it is then.
LEMMA CallBegins ==
  ASSUME PciInv, pci.pc = "idle", NEW l \in {"flr", "mask", "restore"}, NEW r \in Results,
         pci' = [SaveAndQuiet EXCEPT !.pc = l, !.rc = r], l = "restore" => r = "ENOTTY"
  PROVE  PciInv'
  <1>1. Shapes  BY DEF PciInv
  <1>2. Shapes'  BY Zenon, <1>1, SaveShape DEF Shapes, States, Pcs
  <1>3. /\ pci'.pc = l /\ pci'.rc = r /\ pci'.resets = {} /\ pci'.others = {}
        /\ pci'.bus = pci.bus /\ pci'.saved = pci.dev /\ pci'.tuned = pci.tuned
        /\ pci'.late = pci.late /\ \A x \in Regs : pci'.found[x] = pci.bus[x]
    BY <1>1, SaveShape DEF States
  <1>4. BridgeInv'  BY <1>3 DEF PciInv, BridgeInv, Regs
  <1>5. CardInv'  BY <1>3 DEF PciInv, CardInv
  <1>6. ResultInv'  BY <1>3 DEF ResultInv
  <1> QED  BY <1>2, <1>4, <1>5, <1>6 DEF PciInv

\* A step of a call that writes no register keeps what is known of bridge and
\* card: a method not offered, a poll, the end of a wait.
LEMMA OnlyLabels ==
  ASSUME PciInv, NEW l \in Pcs \ {"idle", "retrain", "disable", "unmask", "bus_off"},
         NEW r \in Results, NEW n \in Nat,
         pci.pc \notin {"idle", "retrain", "disable", "unmask", "bus_off"},
         pci' = [pci EXCEPT !.pc = l, !.rc = r, !.polls = n]
  PROVE  Shapes' /\ BridgeInv' /\ CardInv'
  <1>1. Shapes'  BY Zenon DEF PciInv, Shapes, States
  <1>2. /\ pci'.pc = l /\ pci'.bus = pci.bus /\ pci'.saved = pci.saved
        /\ pci'.tuned = pci.tuned /\ pci'.late = pci.late
        /\ pci'.loc = pci.loc /\ pci'.found = pci.found /\ pci'.others = pci.others
    BY DEF PciInv, Shapes, States
  <1>3. BridgeInv'  BY <1>2 DEF PciInv, BridgeInv
  <1>4. CardInv'  BY <1>2 DEF PciInv, CardInv
  <1> QED  BY <1>1, <1>3, <1>4

\* Nor does a reset that leaves the bridge alone.
LEMMA ResetKeeps ==
  ASSUME PciInv, NEW l \in {"bus", "restore"}, NEW r \in Results, NEW n \in Nat,
         NEW how \in Methods, pci.pc \in {"flr", "af", "pm"},
         pci' = [Forget(pci, how) EXCEPT !.pc = l, !.rc = r, !.polls = n]
  PROVE  /\ Shapes' /\ BridgeInv' /\ CardInv'
         /\ pci'.pc = l /\ pci'.rc = r /\ pci'.resets = {how}
  <1>1. Shapes  BY DEF PciInv
  <1>2. Shapes'
    <2>1. Forget(pci, how) \in States  BY <1>1, ForgetShape DEF Shapes
    <2>2. l \in Pcs  BY DEF Pcs
    <2> QED  BY Zenon, <2>1, <2>2 DEF Shapes, States
  <1>3. pci.resets = {}  BY DEF PciInv, ResultInv
  <1>4. /\ pci'.pc = l /\ pci'.rc = r /\ pci'.resets = {how}
        /\ pci'.bus = pci.bus /\ pci'.saved = pci.saved
        /\ pci'.tuned = pci.tuned /\ pci'.late = pci.late
        /\ pci'.loc = pci.loc /\ pci'.found = pci.found /\ pci'.others = pci.others
    BY <1>1, <1>3, ForgetShape DEF Shapes, States
  <1>5. BridgeInv'  BY <1>4 DEF PciInv, BridgeInv
  <1>6. CardInv'  BY <1>4 DEF PciInv, CardInv
  <1> QED  BY <1>2, <1>4, <1>5, <1>6
\* The polls of the Transaction Pending bit end in a reset and result 0.
LEMMA PollKeeps ==
  ASSUME PciInv, NEW how \in {"flr", "af"}, pci.pc = how, PollThenReset(how)
  PROVE  PciInv'
  <1>1. pci \in States /\ pci.rc \in Results /\ pci.polls \in Nat /\ how \in Methods
    BY DEF PciInv, Shapes, States, Methods
  <1>2. CASE pci.pending /\ pci.polls + 1 < MaxPolls
    <2>1. pci' = [pci EXCEPT !.pc = how, !.rc = pci.rc, !.polls = pci.polls + 1]
      BY Zenon, <1>1, <1>2 DEF PollThenReset, States
    <2> DEFINE n == pci.polls + 1
    <2>a. n \in Nat  BY <1>1
    <2> HIDE DEF n
    <2>b. pci' = [pci EXCEPT !.pc = how, !.rc = pci.rc, !.polls = n]  BY <2>1 DEF n
    <2>2. Shapes' /\ BridgeInv' /\ CardInv'
      BY <1>1, <2>a, <2>b, OnlyLabels DEF Pcs
    <2>3. pci'.pc = how /\ pci'.resets = pci.resets  BY <1>1, <2>1 DEF States
    <2> QED  BY <2>2, <2>3 DEF PciInv, ResultInv
  <1>3. CASE ~(pci.pending /\ pci.polls + 1 < MaxPolls)
    <2>1. pci' = [Forget(pci, how) EXCEPT !.pc = "restore", !.rc = "0", !.polls = 0]
      BY Zenon, <1>1, <1>3, ForgetShape DEF PollThenReset, States
    <2>2. /\ Shapes' /\ BridgeInv' /\ CardInv'
          /\ pci'.pc = "restore" /\ pci'.rc = "0" /\ pci'.resets = {how}
      BY <1>1, <2>1, ResetKeeps DEF Results
    <2> QED  BY <2>2 DEF PciInv, ResultInv
  <1> QED  BY <1>2, <1>3

\* A method that is not offered changes nothing but the result.
LEMMA NotOfferedKeeps ==
  ASSUME PciInv, NEW l \in {"af", "pm", "bus", "restore"}, NotOffered(l),
         pci.pc \in {"flr", "af", "pm", "bus"}, l # "restore" => pci.pc # "bus"
  PROVE  PciInv'
  <1>1. pci \in States /\ pci.polls \in Nat  BY DEF PciInv, Shapes, States
  <1>2. pci' = [pci EXCEPT !.pc = l, !.rc = "ENOTTY", !.polls = pci.polls]
    BY Zenon, <1>1 DEF NotOffered, States
  <1>3. Shapes' /\ BridgeInv' /\ CardInv'
    BY <1>1, <1>2, OnlyLabels DEF Pcs, Results
  <1>4. pci'.pc = l /\ pci'.rc = "ENOTTY" /\ pci'.resets = pci.resets
    BY <1>1, <1>2 DEF States
  <1>5. pci.resets \in {{}, {"pm"}} /\ (pci.pc # "bus" => pci.resets = {})
    BY DEF PciInv, ResultInv
  <1> QED  BY <1>3, <1>4, <1>5 DEF PciInv, ResultInv

\* The steps of shannon_pci_reset_function keep the invariant.
LEMMA ResetStepInv ==
  ASSUME PciInv,
         \/ shannon_pci_reset_function \/ shannon_pcie_flr \/ shannon_pci_af_flr
         \/ shannon_pci_pm_reset \/ shannon_pci_parent_bus_reset
  PROVE  PciInv'
  <1>0. pci \in States /\ pci.rc \in Results /\ pci.polls \in Nat
    BY DEF PciInv, Shapes, States
  <1>1. CASE shannon_pci_reset_function
    <2>1. SaveAndQuiet \in States  BY SaveShape DEF PciInv
    <2>2. SaveAndQuiet.rc = pci.rc  BY <1>0 DEF SaveAndQuiet, States
    <2>3. pci' = [SaveAndQuiet EXCEPT !.pc = "flr", !.rc = pci.rc]
      BY Zenon, <1>1, <2>1, <2>2 DEF shannon_pci_reset_function, States
    <2>4. pci.pc = "idle"  BY <1>1 DEF shannon_pci_reset_function, Callable
    <2> QED  BY <1>0, <2>3, <2>4, CallBegins
  <1>2. CASE shannon_pcie_flr
    BY <1>2, PollKeeps, NotOfferedKeeps DEF shannon_pcie_flr
  <1>3. CASE shannon_pci_af_flr
    BY <1>3, PollKeeps, NotOfferedKeeps DEF shannon_pci_af_flr
  <1>4. CASE shannon_pci_pm_reset
    <2>1. CASE NotOffered("bus")
      BY <1>4, <2>1, NotOfferedKeeps DEF shannon_pci_pm_reset
    <2>2. CASE pci' = [Forget(pci, "pm") EXCEPT !.pc = "bus", !.rc = "ENOTTY"]
      <3>1. pci' = [Forget(pci, "pm") EXCEPT !.pc = "bus", !.rc = "ENOTTY", !.polls = pci.polls]
        <4>1. Forget(pci, "pm") \in States  BY <1>0, ForgetShape DEF Methods
        <4>2. Forget(pci, "pm").polls = pci.polls  BY <1>0 DEF Forget, States
        <4> QED  BY Zenon, <2>2, <4>1, <4>2 DEF States
      <3>2. pci.pc = "pm"  BY <1>4 DEF shannon_pci_pm_reset
      <3>3. /\ Shapes' /\ BridgeInv' /\ CardInv'
            /\ pci'.pc = "bus" /\ pci'.rc = "ENOTTY" /\ pci'.resets = {"pm"}
        BY Zenon, <1>0, <3>1, <3>2, ResetKeeps DEF Results, Methods
      <3> QED  BY <3>3 DEF PciInv, ResultInv
    <2>3. CASE pci' = [pci EXCEPT !.pc = "restore", !.rc = "EINVAL"]
      <3>1. pci' = [pci EXCEPT !.pc = "restore", !.rc = "EINVAL", !.polls = pci.polls]
        BY Zenon, <1>0, <2>3 DEF States
      <3>2. pci.pc = "pm"  BY <1>4 DEF shannon_pci_pm_reset
      <3>3. Shapes' /\ BridgeInv' /\ CardInv'
        BY <1>0, <3>1, <3>2, OnlyLabels DEF Pcs, Results
      <3>4. pci'.pc = "restore" /\ pci'.rc = "EINVAL" /\ pci'.resets = pci.resets
        BY <1>0, <2>3 DEF States
      <3> QED  BY <3>2, <3>3, <3>4 DEF PciInv, ResultInv
    <2> QED  BY <1>4, <2>1, <2>2, <2>3 DEF shannon_pci_pm_reset
  <1>5. CASE pci.pc = "bus" /\ NotOffered("restore")
    BY <1>5, NotOfferedKeeps
  <1>6. CASE /\ pci.pc = "bus"
             /\ pci' = [Forget(pci, "bus") EXCEPT !.pc = "bus_off",
                          !.loc.ctl = [pci.bus.ctl EXCEPT !.bit = TRUE],
                          !.bus.ctl.bit = TRUE]
    <2> DEFINE w == [pci.bus.ctl EXCEPT !.bit = TRUE]
               b == [pci.bus EXCEPT !.ctl = w]
               l == [pci.loc EXCEPT !["ctl"] = w]
    <2>1. /\ pci.bus \in Bridges /\ pci.bus.ctl \in Words /\ pci.loc \in [Regs -> Words]
          /\ "ctl" \in Regs
      BY <1>0 DEF States, Bridges, Regs
    <2>2. w \in Words /\ [w EXCEPT !.bit = FALSE] = [pci.bus.ctl EXCEPT !.bit = FALSE]
      BY Zenon, <2>1 DEF Words
    <2>3. b \in Bridges /\ b.ctl = w /\ b.lnk = pci.bus.lnk /\ b.slt = pci.bus.slt
          /\ b.mps = pci.bus.mps
      BY Zenon, <2>1, <2>2 DEF Bridges
    <2>4. l \in [Regs -> Words] /\ l["ctl"] = w  BY <2>1, <2>2
    <2>5. Forget(pci, "bus") \in States /\ Forget(pci, "bus").resets = pci.resets \cup {"bus"}
          /\ Forget(pci, "bus").bus = pci.bus /\ Forget(pci, "bus").loc = pci.loc
      BY <1>0, ForgetShape DEF Methods
    <2>6. pci' = [Forget(pci, "bus") EXCEPT !.pc = "bus_off", !.loc = l, !.bus = b]
      BY Zenon, <1>6, <2>1, <2>5 DEF States
    <2>7. pci.bus.ctl.bit = FALSE /\ w.bit = TRUE
      BY <1>6, <2>1 DEF PciInv, BridgeInv, Words
    <2>8. [pci.bus.ctl EXCEPT !.bit = FALSE] = pci.bus.ctl  BY Zenon, <2>1, <2>7 DEF Words
    <2> HIDE DEF w, b, l
    <2>9. Shapes'
      <3>1. "bus_off" \in Pcs  BY DEF Pcs
      <3> QED  BY Zenon, <2>3, <2>4, <2>5, <2>6, <3>1 DEF Shapes, States
    <2>10. /\ pci'.pc = "bus_off" /\ pci'.loc = l /\ pci'.bus = b
           /\ pci'.resets = pci.resets \cup {"bus"}
      BY <2>5, <2>6 DEF States
    <2>11. /\ pci'.found = pci.found /\ pci'.others = pci.others /\ pci'.saved = pci.saved
           /\ pci'.tuned = pci.tuned /\ pci'.late = pci.late
      BY <1>0, <2>6, ForgetShape DEF States, Methods
    <2>12. BridgeInv'
      <3>1. [pci'.loc["ctl"] EXCEPT !.bit = FALSE] = pci.bus.ctl  BY Zenon, <2>2, <2>4, <2>8, <2>10
      <3>2. pci'.bus.ctl.bit = TRUE  BY <2>3, <2>7, <2>10
      <3> QED  BY ZenonT(60), <1>6, <2>3, <2>10, <2>11, <3>1, <3>2 DEF PciInv, BridgeInv
    <2>13. CardInv'  BY Zenon, <1>6, <2>3, <2>10, <2>11 DEF PciInv, CardInv
    <2>14. ResultInv'  BY <1>6, <2>10 DEF PciInv, ResultInv
    <2> QED  BY <2>9, <2>12, <2>13, <2>14 DEF PciInv
  <1>7. CASE /\ pci.pc = "bus_off"
             /\ pci' = [pci EXCEPT !.pc = "restore", !.rc = "ENOTTY",
                                   !.bus.ctl = [pci.loc.ctl EXCEPT !.bit = FALSE]]
    <2> DEFINE w == [pci.loc["ctl"] EXCEPT !.bit = FALSE]
               b == [pci.bus EXCEPT !.ctl = w]
    <2>1. pci.bus \in Bridges /\ pci.loc["ctl"] \in Words  BY <1>0 DEF States, Regs
    <2>2. w \in Words /\ w.bit = FALSE  BY Zenon, <2>1 DEF Words
    <2>3. b \in Bridges /\ b.ctl = w /\ b.lnk = pci.bus.lnk /\ b.slt = pci.bus.slt
          /\ b.mps = pci.bus.mps
      BY Zenon, <2>1, <2>2 DEF Bridges
    <2>4. pci' = [pci EXCEPT !.pc = "restore", !.rc = "ENOTTY", !.bus = b]
      BY <1>0, <1>7 DEF States
    <2>5. "ctl" \in pci.others \/ w = pci.found["ctl"]
      BY <1>7 DEF PciInv, BridgeInv
    <2> HIDE DEF w, b
    <2>6. Shapes'
      <3>1. "restore" \in Pcs /\ "ENOTTY" \in Results  BY DEF Pcs, Results
      <3> QED  BY Zenon, <1>0, <2>3, <2>4, <3>1 DEF Shapes, States
    <2>7. /\ pci'.pc = "restore" /\ pci'.rc = "ENOTTY" /\ pci'.bus = b
          /\ pci'.resets = pci.resets /\ pci'.loc = pci.loc /\ pci'.found = pci.found
          /\ pci'.others = pci.others /\ pci'.saved = pci.saved
          /\ pci'.tuned = pci.tuned /\ pci'.late = pci.late
      BY <1>0, <2>4 DEF States
    <2>8. BridgeInv'  BY ZenonT(60), <1>7, <2>2, <2>3, <2>5, <2>7 DEF PciInv, BridgeInv
    <2>9. CardInv'  BY ZenonT(60), <1>7, <2>3, <2>7 DEF PciInv, CardInv
    <2>10. ResultInv'  BY <1>7, <2>7 DEF PciInv, ResultInv
    <2> QED  BY <2>6, <2>8, <2>9, <2>10 DEF PciInv
  <1> QED
    BY <1>1, <1>2, <1>3, <1>4, <1>5, <1>6, <1>7 DEF shannon_pci_parent_bus_reset

\* The steps of shannon_pci_bus_retrain keep the invariant.
LEMMA RetrainStepInv ==
  ASSUME PciInv, RetrainStart \/ RetrainMask \/ RetrainLink \/ RetrainUnmask
  PROVE  PciInv'
  <1>0. /\ pci \in States /\ pci.rc \in Results /\ pci.polls \in Nat
        /\ pci.bus \in Bridges /\ pci.loc \in [Regs -> Words]
        /\ pci.bus.slt \in Words /\ pci.bus.lnk \in Words
        /\ "slt" \in Regs /\ "lnk" \in Regs
    BY DEF PciInv, Shapes, States, Bridges, Regs
  <1>p. {"restore", "mask", "disable", "retrain", "unmask"} \subseteq Pcs
        /\ {"0", "ENOTTY"} \subseteq Results
    BY DEF Pcs, Results
  <1>1. CASE RetrainStart
    <2>1. SaveAndQuiet \in States  BY SaveShape DEF PciInv
    <2>2. SaveAndQuiet.rc = pci.rc  BY <1>0 DEF SaveAndQuiet, States
    <2>3. \/ pci' = [SaveAndQuiet EXCEPT !.pc = "mask", !.rc = pci.rc]
          \/ pci' = [SaveAndQuiet EXCEPT !.pc = "restore", !.rc = "ENOTTY"]
      BY Zenon, <1>1, <2>1, <2>2 DEF RetrainStart, States
    <2>4. pci.pc = "idle"  BY <1>1 DEF RetrainStart, Callable
    <2> QED  BY Zenon, <1>0, <1>p, <2>3, <2>4, CallBegins
  <1>2. CASE RetrainMask
    <2> DEFINE w == [pci.bus.slt EXCEPT !.bit = FALSE]
               b == [pci.bus EXCEPT !.slt = w]
               l == [pci.loc EXCEPT !["slt"] = pci.bus.slt]
    <2>1. w \in Words  BY Zenon, <1>0 DEF Words
    <2>2. b \in Bridges /\ b.lnk = pci.bus.lnk /\ b.ctl = pci.bus.ctl /\ b.mps = pci.bus.mps
      BY Zenon, <1>0, <2>1 DEF Bridges
    <2>3. l \in [Regs -> Words] /\ l["slt"] = pci.bus.slt  BY <1>0
    <2>4. pci.pc = "mask" /\ pci' = [pci EXCEPT !.pc = "disable", !.loc = l, !.bus = b]
      BY Zenon, <1>0, <1>2 DEF RetrainMask, States
    <2> HIDE DEF w, b, l
    <2>5. Shapes'  BY Zenon, <1>0, <1>p, <2>2, <2>3, <2>4 DEF Shapes, States
    <2>6. /\ pci'.pc = "disable" /\ pci'.loc = l /\ pci'.bus = b
          /\ pci'.resets = pci.resets /\ pci'.found = pci.found
          /\ pci'.others = pci.others /\ pci'.saved = pci.saved
          /\ pci'.tuned = pci.tuned /\ pci'.late = pci.late
      BY <1>0, <2>4 DEF States
    <2>7. BridgeInv'  BY <2>2, <2>3, <2>4, <2>6 DEF PciInv, BridgeInv
    <2>8. CardInv'  BY <2>2, <2>4, <2>6 DEF PciInv, CardInv
    <2>9. ResultInv'  BY <2>4, <2>6 DEF PciInv, ResultInv
    <2> QED  BY <2>5, <2>7, <2>8, <2>9 DEF PciInv
  <1>3. CASE /\ pci.pc = "disable"
             /\ pci' = [Forget(pci, "link") EXCEPT !.pc = "retrain",
                          !.loc.lnk = [pci.bus.lnk EXCEPT !.bit = TRUE],
                          !.bus.lnk.bit = TRUE]
    <2> DEFINE w == [pci.bus.lnk EXCEPT !.bit = TRUE]
               b == [pci.bus EXCEPT !.lnk = w]
               l == [pci.loc EXCEPT !["lnk"] = w]
    <2>1. w \in Words /\ [w EXCEPT !.bit = FALSE] = [pci.bus.lnk EXCEPT !.bit = FALSE]
      BY Zenon, <1>0 DEF Words
    <2>2. b \in Bridges /\ b.lnk = w /\ b.ctl = pci.bus.ctl /\ b.slt = pci.bus.slt
          /\ b.mps = pci.bus.mps
      BY Zenon, <1>0, <2>1 DEF Bridges
    <2>3. l \in [Regs -> Words] /\ l["lnk"] = w /\ l["slt"] = pci.loc["slt"]  BY <1>0, <2>1
    <2>4. Forget(pci, "link") \in States /\ Forget(pci, "link").resets = pci.resets \cup {"link"}
          /\ Forget(pci, "link").bus = pci.bus /\ Forget(pci, "link").loc = pci.loc
      BY <1>0, ForgetShape DEF Methods
    <2>5. pci' = [Forget(pci, "link") EXCEPT !.pc = "retrain", !.loc = l, !.bus = b]
      BY Zenon, <1>0, <1>3, <2>4 DEF States
    <2>6. pci.bus.lnk.bit = FALSE /\ w.bit = TRUE
      BY <1>0, <1>3 DEF PciInv, BridgeInv, Words
    <2>7. [pci.bus.lnk EXCEPT !.bit = FALSE] = pci.bus.lnk  BY Zenon, <1>0, <2>6 DEF Words
    <2> HIDE DEF w, b, l
    <2>8. Shapes'  BY Zenon, <1>p, <2>2, <2>3, <2>4, <2>5 DEF Shapes, States
    <2>9. /\ pci'.pc = "retrain" /\ pci'.loc = l /\ pci'.bus = b
          /\ pci'.resets = pci.resets \cup {"link"}
      BY <2>4, <2>5 DEF States
    <2>10. /\ pci'.found = pci.found /\ pci'.others = pci.others /\ pci'.saved = pci.saved
           /\ pci'.tuned = pci.tuned /\ pci'.late = pci.late
      BY <1>0, <2>5, ForgetShape DEF States, Methods
    <2>11. BridgeInv'
      <3>1. [pci'.loc["lnk"] EXCEPT !.bit = FALSE] = pci.bus.lnk  BY Zenon, <2>1, <2>3, <2>7, <2>9
      <3>2. pci'.bus.lnk.bit = TRUE /\ pci'.loc["slt"] = pci.loc["slt"]
        BY <2>2, <2>3, <2>6, <2>9
      <3> QED  BY ZenonT(60), <1>3, <2>2, <2>9, <2>10, <3>1, <3>2 DEF PciInv, BridgeInv
    <2>12. CardInv'  BY Zenon, <1>3, <2>2, <2>9, <2>10 DEF PciInv, CardInv
    <2>13. ResultInv'  BY <1>3, <2>9 DEF PciInv, ResultInv
    <2> QED  BY <2>8, <2>11, <2>12, <2>13 DEF PciInv
  <1>4. CASE /\ pci.pc = "retrain"
             /\ pci' = [pci EXCEPT !.pc = "unmask",
                                   !.bus.lnk = [pci.loc.lnk EXCEPT !.bit = FALSE]]
    <2> DEFINE w == [pci.loc["lnk"] EXCEPT !.bit = FALSE]
               b == [pci.bus EXCEPT !.lnk = w]
    <2>1. w \in Words /\ w.bit = FALSE  BY Zenon, <1>0 DEF Words
    <2>2. b \in Bridges /\ b.lnk = w /\ b.ctl = pci.bus.ctl /\ b.slt = pci.bus.slt
          /\ b.mps = pci.bus.mps
      BY Zenon, <1>0, <2>1 DEF Bridges
    <2>3. pci' = [pci EXCEPT !.pc = "unmask", !.bus = b]
      BY <1>0, <1>4 DEF States
    <2>4. "lnk" \in pci.others \/ w = pci.found["lnk"]
      BY <1>4 DEF PciInv, BridgeInv
    <2> HIDE DEF w, b
    <2>5. Shapes'  BY Zenon, <1>0, <1>p, <2>2, <2>3 DEF Shapes, States
    <2>6. /\ pci'.pc = "unmask" /\ pci'.bus = b
          /\ pci'.resets = pci.resets /\ pci'.loc = pci.loc /\ pci'.found = pci.found
          /\ pci'.others = pci.others /\ pci'.saved = pci.saved
          /\ pci'.tuned = pci.tuned /\ pci'.late = pci.late
      BY <1>0, <2>3 DEF States
    <2>7. BridgeInv'  BY ZenonT(60), <1>4, <2>1, <2>2, <2>4, <2>6 DEF PciInv, BridgeInv
    <2>8. CardInv'  BY Zenon, <1>4, <2>2, <2>6 DEF PciInv, CardInv
    <2>9. ResultInv'  BY <1>4, <2>6 DEF PciInv, ResultInv
    <2> QED  BY <2>5, <2>7, <2>8, <2>9 DEF PciInv
  <1>5. CASE RetrainUnmask
    <2> DEFINE b == [pci.bus EXCEPT !.slt = pci.loc["slt"]]
    <2>1. b \in Bridges /\ b.slt = pci.loc["slt"] /\ b.lnk = pci.bus.lnk
          /\ b.ctl = pci.bus.ctl /\ b.mps = pci.bus.mps
      BY <1>0 DEF Bridges
    <2>2. /\ pci.pc = "unmask"
          /\ pci' = [pci EXCEPT !.pc = "restore", !.rc = "0", !.bus = b]
      BY <1>0, <1>5 DEF RetrainUnmask, States
    <2> HIDE DEF b
    <2>3. Shapes'  BY Zenon, <1>0, <1>p, <2>1, <2>2 DEF Shapes, States
    <2>4. /\ pci'.pc = "restore" /\ pci'.rc = "0" /\ pci'.bus = b
          /\ pci'.resets = pci.resets /\ pci'.found = pci.found
          /\ pci'.others = pci.others /\ pci'.saved = pci.saved
          /\ pci'.tuned = pci.tuned /\ pci'.late = pci.late
      BY <1>0, <2>2 DEF States
    <2>5. BridgeInv'  BY <2>1, <2>2, <2>4 DEF PciInv, BridgeInv
    <2>6. CardInv'  BY <2>1, <2>2, <2>4 DEF PciInv, CardInv
    <2>7. ResultInv'  BY <2>2, <2>4 DEF PciInv, ResultInv
    <2> QED  BY <2>3, <2>5, <2>6, <2>7 DEF PciInv
  <1> QED  BY <1>1, <1>2, <1>3, <1>4, <1>5 DEF RetrainLink

\* pci_restore_state ends a call: the card has its configuration back, unless
\* it did not answer.
LEMMA DoneInv ==
  ASSUME PciInv, Done
  PROVE  PciInv'
  <1>0. /\ pci \in States /\ pci.dev \in Configs /\ pci.saved \in Configs
        /\ pci.late \in BOOLEAN /\ pci.up \in BOOLEAN /\ "idle" \in Pcs
    BY DEF PciInv, Shapes, States, Pcs
  <1> DEFINE d == IF pci.up THEN pci.saved ELSE pci.dev
             t == pci.late \/ ~pci.up
  <1>1. d \in Configs /\ t \in BOOLEAN /\ (~t => ~pci.late /\ d = pci.saved)  BY <1>0
  <1>2. pci.pc = "restore" /\ pci' = [pci EXCEPT !.pc = "idle", !.dev = d, !.late = t]
    BY <1>0 DEF Done, States
  <1> HIDE DEF d, t
  <1>3. Shapes'  BY Zenon, <1>0, <1>1, <1>2 DEF Shapes, States
  <1>4. /\ pci'.pc = "idle" /\ pci'.dev = d /\ pci'.late = t /\ pci'.bus = pci.bus
        /\ pci'.rc = pci.rc /\ pci'.resets = pci.resets /\ pci'.found = pci.found
        /\ pci'.others = pci.others /\ pci'.tuned = pci.tuned
    BY <1>0, <1>2 DEF States
  <1>5. BridgeInv'  BY <1>2, <1>4 DEF PciInv, BridgeInv
  <1>6. CardInv'  BY <1>1, <1>2, <1>4 DEF PciInv, CardInv
  <1>7. ResultInv'  BY <1>2, <1>4 DEF PciInv, ResultInv
  <1> QED  BY <1>3, <1>5, <1>6, <1>7 DEF PciInv

\* The tuning happens between two calls, and touches none of the registers
\* that a call undoes.
LEMMA TuneInv ==
  ASSUME PciInv, Tunable, NEW d \in Configs, NEW b \in Bridges, NEW t \in BOOLEAN,
         pci' = [pci EXCEPT !.dev = d, !.bus = b, !.tuned = t],
         d.cmd = pci.dev.cmd, b.mps = pci.bus.mps,
         b.slt = pci.bus.slt, b.lnk = pci.bus.lnk, b.ctl = pci.bus.ctl,
         d.mps = b.mps \/ (d.mps = pci.dev.mps /\ t = pci.tuned)
  PROVE  PciInv'
  <1>0. pci \in States /\ pci.pc = "idle"  BY DEF PciInv, Shapes, Tunable
  <1>1. Shapes'  BY Zenon, <1>0 DEF Shapes, States
  <1>2. /\ pci'.pc = "idle" /\ pci'.dev = d /\ pci'.bus = b /\ pci'.tuned = t
        /\ pci'.late = pci.late /\ pci'.rc = pci.rc /\ pci'.resets = pci.resets
        /\ pci'.found = pci.found /\ pci'.others = pci.others
    BY <1>0 DEF States
  <1>3. BridgeInv'  BY <1>0, <1>2 DEF PciInv, BridgeInv
  <1>4. CardInv'  BY <1>0, <1>2 DEF PciInv, CardInv
  <1>5. ResultInv'  BY <1>0, <1>2 DEF PciInv, ResultInv
  <1> QED  BY <1>1, <1>3, <1>4, <1>5 DEF PciInv

\* The hardware changes none of the configuration.
LEMMA HardwareInv ==
  ASSUME PciInv, Drain \/ Ready
  PROVE  PciInv'
  <1>0. pci \in States /\ pci.up \in BOOLEAN  BY DEF PciInv, Shapes, States
  <1>1. PICK u \in BOOLEAN, p \in BOOLEAN : pci' = [pci EXCEPT !.up = u, !.pending = p]
    <2>1. CASE Drain
      <3>1. pci' = [pci EXCEPT !.up = pci.up, !.pending = FALSE]
        BY Zenon, <1>0, <2>1 DEF Drain, States
      <3> QED  BY <1>0, <3>1
    <2>2. CASE Ready
      BY <2>2 DEF Ready
    <2> QED  BY Zenon, <2>1, <2>2
  <1>2. Shapes'  BY ZenonT(60), <1>0, <1>1 DEF Shapes, States
  <1>3. /\ pci'.pc = pci.pc /\ pci'.dev = pci.dev /\ pci'.saved = pci.saved
        /\ pci'.bus = pci.bus /\ pci'.loc = pci.loc /\ pci'.tuned = pci.tuned
        /\ pci'.late = pci.late /\ pci'.rc = pci.rc /\ pci'.resets = pci.resets
        /\ pci'.found = pci.found /\ pci'.others = pci.others
    BY <1>0, <1>1 DEF States
  <1> QED  BY <1>2, <1>3 DEF PciInv, BridgeInv, CardInv, ResultInv

\* A port service writes its bits of one register, and is remembered.
LEMMA PortServiceInv ==
  ASSUME PciInv, NEW r \in Regs, PortServiceWrites(r)
  PROVE  PciInv'
  <1>0. /\ pci \in States /\ pci.bus \in Bridges /\ pci.bus[r] \in Words
        /\ pci.bus[r].rest \in Int /\ pci.writes \in Nat /\ pci.others \subseteq Regs
    BY DEF PciInv, Shapes, States, Bridges, Regs, Words
  <1> DEFINE x == 1 - pci.bus[r].rest
             w == [pci.bus[r] EXCEPT !.rest = x]
             b == [pci.bus EXCEPT ![r] = w]
             n == pci.writes + 1
             o == pci.others \cup {r}
  <1>1. x \in Int /\ n \in Nat /\ o \in SUBSET Regs  BY <1>0
  <1>2. pci' = [pci EXCEPT !.writes = n, !.bus = b, !.others = o]
    BY <1>0 DEF PortServiceWrites, States
  <1> HIDE DEF x
  <1>3. w \in Words /\ w.bit = pci.bus[r].bit  BY <1>0, <1>1 DEF Words
  <1> HIDE DEF w
  <1>4. /\ b \in Bridges /\ b.mps = pci.bus.mps
        /\ \A q \in Regs : b[q] = IF q = r THEN w ELSE pci.bus[q]
    BY <1>0, <1>3 DEF Bridges, Regs
  <1>5. /\ b.lnk.bit = pci.bus.lnk.bit /\ b.ctl.bit = pci.bus.ctl.bit
        /\ \A q \in Regs : b[q] = pci.bus[q] \/ q \in o
    BY <1>3, <1>4 DEF Regs
  <1> HIDE DEF b, n
  <1>6. Shapes'  BY Zenon, <1>0, <1>1, <1>2, <1>4 DEF Shapes, States
  <1>7. /\ pci'.pc = pci.pc /\ pci'.dev = pci.dev /\ pci'.saved = pci.saved
        /\ pci'.bus = b /\ pci'.loc = pci.loc /\ pci'.tuned = pci.tuned
        /\ pci'.late = pci.late /\ pci'.rc = pci.rc /\ pci'.resets = pci.resets
        /\ pci'.found = pci.found /\ pci'.others = o
    BY <1>0, <1>1, <1>2 DEF States
  <1>8. BridgeInv'  BY <1>5, <1>7 DEF PciInv, BridgeInv, Regs
  <1>9. CardInv' /\ ResultInv'  BY <1>4, <1>7 DEF PciInv, CardInv, ResultInv
  <1> QED  BY <1>6, <1>8, <1>9 DEF PciInv

\* Every step of a call, of the tuning, of the hardware and of the port
\* services keeps the invariant.
LEMMA PciStepInv == PciInv /\ [PciNext]_pci => PciInv'
  <1> SUFFICES ASSUME PciInv, [PciNext]_pci  PROVE  PciInv'
    OBVIOUS
  <1>0. /\ pci \in States /\ pci.bus \in Bridges /\ pci.dev \in Configs
        /\ pci.tuned \in BOOLEAN /\ pci.bus.timeout \in Nat /\ pci.bus.mps \in Nat
    BY DEF PciInv, Shapes, States, Bridges
  <1>1. CASE shannon_set_max_payload_size
    <2> DEFINE d == [pci.dev EXCEPT !.mps = pci.bus.mps]
    <2>1. d \in Configs /\ d.cmd = pci.dev.cmd /\ d.mps = pci.bus.mps
      BY <1>0 DEF Configs
    <2>2. Tunable /\ pci' = [pci EXCEPT !.dev = d, !.bus = pci.bus, !.tuned = TRUE]
      BY Zenon, <1>0, <1>1 DEF shannon_set_max_payload_size, States
    <2> HIDE DEF d
    <2> QED  BY <1>0, <2>1, <2>2, TuneInv
  <1>2. CASE shannon_disable_correctable_aer
    <2> DEFINE b == [pci.bus EXCEPT !.cere = FALSE]
    <2>1. /\ b \in Bridges /\ b.mps = pci.bus.mps /\ b.slt = pci.bus.slt
          /\ b.lnk = pci.bus.lnk /\ b.ctl = pci.bus.ctl
      BY Zenon, <1>0 DEF Bridges
    <2>2. Tunable /\ pci' = [pci EXCEPT !.dev = pci.dev, !.bus = b, !.tuned = pci.tuned]
      BY ZenonT(60), <1>0, <1>2 DEF shannon_disable_correctable_aer, States
    <2> HIDE DEF b
    <2> QED  BY <1>0, <2>1, <2>2, TuneInv
  <1>3. CASE shannon_set_bridge_timeout
    <2> DEFINE n == 6 + (pci.bus.timeout % 2) + 8 * (pci.bus.timeout \div 8)
               b == [pci.bus EXCEPT !.timeout = n, !.ari = 0]
    <2>1. n \in Nat  BY <1>0
    <2>2. Tunable /\ pci' = [pci EXCEPT !.dev = pci.dev, !.bus = b, !.tuned = pci.tuned]
      BY ZenonT(60), <1>0, <1>3 DEF shannon_set_bridge_timeout, States, Bridges
    <2> HIDE DEF n
    <2>3. /\ b \in Bridges /\ b.mps = pci.bus.mps /\ b.slt = pci.bus.slt
          /\ b.lnk = pci.bus.lnk /\ b.ctl = pci.bus.ctl
      BY Zenon, <1>0, <2>1 DEF Bridges
    <2> HIDE DEF b
    <2> QED  BY <1>0, <2>2, <2>3, TuneInv
  <1>4. CASE \E rq \in {64, 512, 3000} : shannon_pcie_set_readrq(rq)
    <2>1. PICK n \in Nat : Tunable /\ pci' = [pci EXCEPT !.dev.rq = n]
      BY <1>4 DEF shannon_pcie_set_readrq
    <2> DEFINE d == [pci.dev EXCEPT !.rq = n]
    <2>2. d \in Configs /\ d.cmd = pci.dev.cmd /\ d.mps = pci.dev.mps
      BY <1>0 DEF Configs
    <2>3. pci' = [pci EXCEPT !.dev = d, !.bus = pci.bus, !.tuned = pci.tuned]
      BY Zenon, <1>0, <2>1 DEF States
    <2> HIDE DEF d
    <2> QED  BY <1>0, <2>1, <2>2, <2>3, TuneInv
  <1>5. CASE UNCHANGED pci
    BY <1>5 DEF PciInv, Shapes, BridgeInv, CardInv, ResultInv
  <1> QED
    BY <1>1, <1>2, <1>3, <1>4, <1>5, ResetStepInv, RetrainStepInv, DoneInv, HardwareInv,
       PortServiceInv DEF PciNext, PciCall

-----------------------------------------------------------------------------
\* Whatever the card offers, however its resets and retrainings are
\* interleaved with the hardware, the tuning and the port services, a call of
\* shannon_pci_reset_function or shannon_pci_bus_retrain leaves bridge and
\* card as it found them.
THEOREM ConfigurationIsKept == PciSpec => []ConfigurationKept
  <1>1. PciInv => ConfigurationKept
    BY DEF PciInv, BridgeInv, CardInv, ConfigurationKept, Regs
  <1> QED  BY <1>1, PciInitInv, PciStepInv, PTL DEF PciSpec

\* A call returns 0 exactly when a function level reset or a retraining was
\* carried out, and never after more than one method but the power management
\* reset followed by that of the bus.
THEOREM ResultsAreHonest == PciSpec => []ReportsHonestly
  <1>1. PciInv => ReportsHonestly
    <2> SUFFICES ASSUME PciInv, pci.pc = "idle"
                 PROVE  /\ (pci.rc = "0") = (pci.resets \cap {"flr", "af", "link"} # {})
                        /\ \A a, b \in pci.resets : a # b => {a, b} = {"pm", "bus"}
      BY DEF ReportsHonestly
    <2>1. CASE pci.rc = "0"
      <3>1. pci.resets \in {{"flr"}, {"af"}, {"link"}}  BY <2>1 DEF PciInv, ResultInv
      <3>2. pci.resets \cap {"flr", "af", "link"} # {}  BY <3>1
      <3>3. \A a, b \in pci.resets : a = b  BY <3>1
      <3> QED  BY <2>1, <3>2, <3>3
    <2>2. CASE pci.rc # "0"
      <3>1. pci.resets \subseteq {"pm", "bus"}  BY <2>2 DEF PciInv, ResultInv
      <3>2. pci.resets \cap {"flr", "af", "link"} = {}  BY <3>1
      <3>3. \A a, b \in pci.resets : a # b => {a, b} = {"pm", "bus"}  BY <3>1
      <3> QED  BY <2>2, <3>2, <3>3
    <2> QED  BY <2>1, <2>2
  <1> QED  BY <1>1, PciInitInv, PciStepInv, PTL DEF PciSpec

-----------------------------------------------------------------------------
(* ErrInjection.  The marks of mark_fake_rd_bad_lunpba_raidmutex exclude   *)
(* each other in a RAID group but for calls that overlap, and the pair of  *)
(* luns it is asked for is found where there is one.  The bits of two      *)
(* addresses never coincide, so that a map that is not too small for its   *)
(* bits holds exactly what was asked for.                                  *)

InjSpec == InjInit /\ [][InjNext]_inj

Fields == {"done", "bufs", "next", "state", "bits", "who", "skipmbr", "badluns",
           "asked", "raided", "met", "stray", "pick", "marks"}
MapNames == {Maps[i] : i \in 1..7}
Calls == [pc : {"idle", "look", "mark"}, lun : Nat, pba : Nat, at : Nat]

\* Only the parts the raid function works on are given a shape.
Shape ==
    /\ DOMAIN inj = Fields /\ DOMAIN inj.bits = MapNames
    /\ inj.who \in [Callers -> Calls]
    /\ inj.done => inj.state # "init"

\* Two calls in one group and sector at once have met.
CallsMeet ==
    \A c, d \in Callers :
        /\ c # d /\ inj.who[c].pc # "idle" /\ inj.who[d].pc # "idle"
        /\ inj.who[c].pba = inj.who[d].pba
        /\ GroupOf(inj.who[c].lun) = GroupOf(inj.who[d].lun)
        => <<GroupOf(inj.who[c].lun), inj.who[c].pba>> \in inj.met

\* A call looks only at its group; a mark already made there is ahead of it,
\* unless the call that made it has been met.
MarksAhead ==
    \A c \in Callers :
        LET w == inj.who[c]
        IN  w.pc # "idle" =>
            /\ GroupOf(w.at) = GroupOf(w.lun)
            /\ \A m \in inj.raided :
                  m[2] = w.pba /\ GroupOf(m[1]) = GroupOf(w.lun)
                    => \/ <<GroupOf(w.lun), w.pba>> \in inj.met
                       \/ w.pc = "look" /\ w.at <= m[1]

\* A mark that was made stays.
MarksStay ==
    \A m \in inj.raided :
        /\ m[1] \in Nat /\ m[2] \in Nat /\ inj.done
        /\ RdOffset(Geo, m[1], m[2]) \in inj.bits["rd"]

RaidInv == Shape /\ CallsMeet /\ MarksAhead /\ MarksStay /\ RaidMarksExclude

-----------------------------------------------------------------------------
(* Division.                                                               *)

\* A quotient and a remainder.
LEMMA DivMod ==
  ASSUME NEW a \in Nat, NEW g \in Nat \ {0}
  PROVE  /\ a \div g \in Nat /\ a % g \in 0..(g - 1)
         /\ a = g * (a \div g) + (a % g)
  OBVIOUS

\* Multiples of g are g apart.
LEMMA Apart ==
  ASSUME NEW g \in Nat \ {0}, NEW q \in Int, NEW k \in Int, q < k
  PROVE  g * q + g <= g * k
  <1>1. PICK d \in Nat : k = q + 1 + d
    <2>1. k - q - 1 \in Nat /\ k = q + 1 + (k - q - 1)  OBVIOUS
    <2> QED  BY <2>1
  <1>2. g * k = g * q + g + g * d  BY <1>1
  <1>3. g * d \in Nat /\ g * q \in Int /\ g * k \in Int  OBVIOUS
  <1> QED  BY <1>2, <1>3

\* An address below the stride and a lun are determined by the bit: the
\* offsets of mark_fake_wr_bad_lunppa, _rd_bad_lunpba and _er_bad_block.
LEMMA BitsDistinct ==
  ASSUME NEW g \in Nat \ {0}, NEW q \in Int, NEW k \in Int,
         NEW r \in 0..(g - 1), NEW m \in 0..(g - 1), g * q + r = g * k + m
  PROVE  q = k /\ r = m
  <1>1. g * k \in Int /\ g * q \in Int  OBVIOUS
  <1>2. ~(q < k)  BY <1>1, Apart
  <1>3. ~(k < q)  BY <1>1, Apart
  <1>4. q = k  BY <1>2, <1>3
  <1> QED  BY <1>1, <1>4

\* The quotient is the only one.
LEMMA DivUnique ==
  ASSUME NEW a \in Nat, NEW g \in Nat \ {0}, NEW q \in Int, NEW r \in 0..(g - 1),
         a = g * q + r
  PROVE  q = a \div g /\ r = a % g
  <1> DEFINE k == a \div g
             m == a % g
  <1>0. /\ a \div g \in Nat /\ a % g \in 0..(g - 1)
        /\ a = g * (a \div g) + (a % g)
    BY Zenon, DivMod
  <1>1. k \in Int /\ m \in 0..(g - 1) /\ a = g * k + m  BY <1>0
  <1> HIDE DEF k, m
  <1>2. q = k /\ r = m  BY <1>1, BitsDistinct
  <1> QED  BY <1>2 DEF k, m

\* The first lun of the group of l, where the look begins.
LEMMA FirstOfGroup ==
  ASSUME NEW l \in Nat
  PROVE  /\ GroupOf(l) \in Nat /\ GroupOf(l) * Geo.group \in Nat
         /\ GroupOf(GroupOf(l) * Geo.group) = GroupOf(l)
         /\ \A b \in Nat : GroupOf(b) = GroupOf(l) => GroupOf(l) * Geo.group <= b
  <1> DEFINE g == Geo.group
             q == GroupOf(l)
  <1>1. g \in Nat \ {0}  BY GeoAssumption
  <1>2. q \in Nat  BY <1>1, DivMod DEF GroupOf
  <1>3. q * g \in Nat /\ q * g = g * q + 0 /\ 0 \in 0..(g - 1)  BY <1>1, <1>2
  <1>4. q = (q * g) \div g  BY <1>1, <1>2, <1>3, DivUnique
  <1>5. ASSUME NEW b \in Nat, GroupOf(b) = q  PROVE  q * g <= b
    <2> DEFINE m == b % g
    <2>1. m \in 0..(g - 1) /\ b = g * q + m  BY Zenon, <1>1, <1>5, DivMod DEF GroupOf
    <2> HIDE DEF m, g, q
    <2>2. g * q = q * g  BY <1>1, <1>2
    <2>3. b = q * g + m  BY <2>1, <2>2
    <2> QED  BY <1>1, <1>3, <2>1, <2>3
  <1> QED  BY <1>2, <1>3, <1>4, <1>5 DEF GroupOf

\* Below the last lun of a group the next one is of the same group; no lun of
\* the group is beyond the last one.
LEMMA NextOfGroup ==
  ASSUME NEW a \in Nat
  PROVE  IF (a + 1) % Geo.group # 0 THEN GroupOf(a + 1) = GroupOf(a)
         ELSE \A b \in Nat : GroupOf(b) = GroupOf(a) => b <= a
  <1> DEFINE g == Geo.group
             q == GroupOf(a)
             r == a % g
  <1>1. g \in Nat \ {0}  BY GeoAssumption
  <1>0. /\ a \div g \in Nat /\ a % g \in 0..(g - 1)
        /\ a = g * (a \div g) + (a % g)
    BY Zenon, <1>1, DivMod
  <1>2. q \in Nat /\ r \in 0..(g - 1) /\ a = g * q + r  BY <1>0 DEF GroupOf
  <1> HIDE DEF r, q
  <1>a. g * q \in Int /\ a + 1 \in Nat  BY <1>1, <1>2
  <1>3. CASE r + 1 \in 0..(g - 1)
    <2>1. a + 1 = g * q + (r + 1)  BY <1>1, <1>2, <1>a
    <2>2. q = (a + 1) \div g /\ r + 1 = (a + 1) % g  BY SMTT(30), <1>1, <1>2, <1>3, <1>a, <2>1, DivUnique
    <2>3. r + 1 # 0  BY <1>2
    <2> QED  BY <2>2, <2>3 DEF GroupOf, q
  <1>4. CASE r + 1 \notin 0..(g - 1)
    <2>1. r + 1 = g  BY <1>1, <1>2, <1>4
    <2>2. a + 1 = g * (q + 1) + 0 /\ 0 \in 0..(g - 1)  BY <1>1, <1>2, <2>1
    <2>3. (a + 1) % g = 0  BY <1>1, <1>2, <1>a, <2>2, DivUnique
    <2>4. ASSUME NEW b \in Nat, GroupOf(b) = q  PROVE  b <= a
      <3> DEFINE m == b % g
      <3>1. m \in 0..(g - 1) /\ b = g * q + m  BY Zenon, <1>1, <2>4, DivMod DEF GroupOf, q
      <3> HIDE DEF m
      <3> QED  BY <1>1, <1>2, <1>a, <2>1, <3>1
    <2> QED  BY <2>3, <2>4 DEF q
  <1> QED  BY <1>3, <1>4

-----------------------------------------------------------------------------
(* The raid function.                                                      *)

\* The seven maps by name.
LEMMA SevenMaps == {"bad", "timeout", "rdbad", "rd", "wr", "er", "twin"} \subseteq MapNames
  <1>1. /\ Maps[1] = "bad" /\ Maps[2] = "timeout" /\ Maps[3] = "rdbad" /\ Maps[4] = "rd"
        /\ Maps[5] = "wr" /\ Maps[6] = "er" /\ Maps[7] = "twin"
    BY DEF Maps
  <1>2. \A i \in 1..7 : Maps[i] \in MapNames  BY DEF MapNames
  <1> QED  BY <1>1, <1>2

\* The map of unreadable sectors is one of them.
LEMMA RdIsAMap == "rd" \in MapNames
  BY SevenMaps

\* A mark, in whatever map, leaves the calls alone and clears no bit; while
\* the flag is set it sets its own.
LEMMA MarkKeeps ==
  ASSUME NEW s, DOMAIN s = Fields, DOMAIN s.bits = MapNames, NEW map \in MapNames, NEW bit
  PROVE  LET t == Mark(s, map, bit)
         IN  /\ DOMAIN t = Fields /\ DOMAIN t.bits = MapNames
             /\ t.done = s.done /\ t.state = s.state /\ t.who = s.who
             /\ t.raided = s.raided /\ t.met = s.met
             /\ s.bits["rd"] \subseteq t.bits["rd"]
             /\ s.done => bit \in t.bits[map]
  <1> DEFINE u == Touch(s, map, bit)
  <1>1. /\ DOMAIN u = Fields /\ u.bits = s.bits /\ u.done = s.done /\ u.state = s.state
        /\ u.who = s.who /\ u.raided = s.raided /\ u.met = s.met
    BY DEF Touch, Fields
  <1> HIDE DEF u
  <1>2. CASE ~s.done
    BY <1>2 DEF Mark
  <1>3. CASE s.done
    <2>1. Mark(s, map, bit) = [u EXCEPT !.bits = [u.bits EXCEPT ![map] = u.bits[map] \cup {bit}]]
      BY <1>3 DEF Mark, u
    <2> DEFINE b == [u.bits EXCEPT ![map] = u.bits[map] \cup {bit}]
    <2>2. /\ DOMAIN b = MapNames /\ bit \in b[map] /\ s.bits["rd"] \subseteq b["rd"]
      BY <1>1, RdIsAMap
    <2> HIDE DEF b
    <2>3. Mark(s, map, bit) = [u EXCEPT !.bits = b]  BY <2>1 DEF b
    <2> QED  BY <1>1, <2>2, <2>3 DEF Fields
  <1> QED  BY <1>2, <1>3

\* A step that leaves the calls, the marks of the raid function and the pairs
\* met alone, and clears neither bit nor flag, keeps the invariant.
LEMMA QuietStep ==
  ASSUME RaidInv, DOMAIN inj' = Fields, DOMAIN inj'.bits = MapNames,
         inj'.who = inj.who, inj'.raided = inj.raided, inj'.met = inj.met,
         inj.bits["rd"] \subseteq inj'.bits["rd"],
         inj.done => inj'.done, inj'.done => inj'.state # "init"
  PROVE  RaidInv'
  BY DEF RaidInv, Shape, CallsMeet, MarksAhead, MarksStay, RaidMarksExclude

\* The invariant holds before the maps are allocated (InjStart).
LEMMA RaidInitInv == InjInit => RaidInv
  <1> SUFFICES ASSUME NEW b \in BadSets, NEW k \in BOOLEAN, inj = InjStart(b, k)
               PROVE  RaidInv
    BY DEF InjInit
  <1>1. /\ DOMAIN inj = Fields /\ inj.done = FALSE /\ inj.raided = {}
        /\ inj.bits = [m \in MapNames |-> {}] /\ inj.who = [c \in Callers |-> Idle]
    BY DEF InjStart, Fields, MapNames
  <1>2. Idle \in Calls /\ Idle.pc = "idle"  BY DEF Idle, Calls
  <1> QED
    BY <1>1, <1>2 DEF RaidInv, Shape, CallsMeet, MarksAhead, MarksStay, RaidMarksExclude

\* init_err_injection and release_err_injection.
LEMMA SetupInv ==
  ASSUME RaidInv, (\E ok \in BOOLEAN : init_err_injection(ok)) \/ release_err_injection
  PROVE  RaidInv'
  <1>0. DOMAIN inj = Fields /\ DOMAIN inj.bits = MapNames /\ (inj.done => inj.state # "init")
    BY DEF RaidInv, Shape
  <1>1. /\ DOMAIN inj' = Fields /\ inj'.bits = inj.bits /\ inj'.who = inj.who
        /\ inj'.raided = inj.raided /\ inj'.met = inj.met
    BY ZenonT(60), <1>0 DEF init_err_injection, release_err_injection, Fields
  <1>2. (inj.done => inj'.done) /\ (inj'.done => inj'.state # "init")
    <2>1. CASE release_err_injection
      BY <1>0, <2>1 DEF release_err_injection, Fields
    <2>2. ASSUME NEW ok \in BOOLEAN, init_err_injection(ok)
          PROVE  (inj.done => inj'.done) /\ (inj'.done => inj'.state # "init")
      <3>1. CASE ~ok
        BY <1>0, <2>2, <3>1 DEF init_err_injection, Fields
      <3>2. CASE ok
        <4>1. inj'.done = (inj.next = 7) /\ (inj.next = 7 => inj'.state = "live")
          BY <1>0, <2>2, <3>2 DEF init_err_injection, Fields
        <4>2. ~inj.done  BY <1>0, <2>2 DEF init_err_injection
        <4> QED  BY Zenon, <4>1, <4>2
      <3> QED  BY <3>1, <3>2
    <2> QED  BY <2>1, <2>2
  <1> QED  BY <1>0, <1>1, <1>2, QuietStep

\* The other marks, of luns, pages, sectors, blocks and pairs.
LEMMA OtherMarksInv ==
  ASSUME RaidInv,
         \/ \E lun \in Luns : MarkOne(lun)
         \/ \E g \in Groups, o1, o2 \in 0..(Geo.group - 1), a \in TwinAddrs, h \in {0, 1} :
               update_fake_pattern(g, o1, o2, a, h)
  PROVE  RaidInv'
  <1>0. DOMAIN inj = Fields /\ DOMAIN inj.bits = MapNames /\ (inj.done => inj.state # "init")
    BY DEF RaidInv, Shape
  <1> DEFINE Kept(t) == /\ DOMAIN t = Fields /\ DOMAIN t.bits = MapNames
                        /\ t.done = inj.done /\ t.state = inj.state /\ t.who = inj.who
                        /\ t.raided = inj.raided /\ t.met = inj.met
                        /\ inj.bits["rd"] \subseteq t.bits["rd"]
  <1>m. ASSUME NEW t, Kept(t), NEW map \in MapNames, NEW bit  PROVE  Kept(Mark(t, map, bit))
    BY <1>m, MarkKeeps
  <1>n. {"bad", "timeout", "rdbad", "rd", "wr", "er", "twin"} \subseteq MapNames  BY SevenMaps
  <1>k. Kept(inj)  BY <1>0
  <1>1. ASSUME NEW lun \in Luns, MarkOne(lun)  PROVE  Kept(inj')
    <2>1. PICK map, bit, q : map \in MapNames /\ inj' = Ask(Mark(inj, map, bit), q)
      BY <1>1, <1>n DEF MarkOne, mark_fake_bad_lun, mark_fake_cmd_timeout_lun,
         mark_fake_rd_bad_lun, mark_fake_wr_bad_lunppa, mark_fake_rd_bad_lunpba,
         mark_fake_er_bad_block
    <2> DEFINE t == Mark(inj, map, bit)
    <2>2. Kept(t)  BY <1>m, <1>k, <2>1
    <2> HIDE DEF t
    <2>3. inj' = Ask(t, q)  BY <2>1 DEF t
    <2> QED  BY <2>2, <2>3 DEF Ask, Fields
  <1>2. ASSUME NEW g \in Groups, NEW o1 \in 0..(Geo.group - 1), NEW o2 \in 0..(Geo.group - 1),
               NEW a \in TwinAddrs, NEW h \in {0, 1}, update_fake_pattern(g, o1, o2, a, h)
        PROVE  Kept(inj')
    <2> DEFINE p == TwinPick(inj, g, o1, o2)
               t == mark_fake_twin_rd_bad_lunpba(
                        mark_fake_twin_rd_bad_lunpba(inj, p[1], a, h), p[2], a, h)
               s == IF p = None THEN inj ELSE t
               z == IF inj.done /\ p # None
                    THEN s.asked \cup {<<"twin", p[1], a, h>>, <<"twin", p[2], a, h>>}
                    ELSE s.asked
    <2>1. Kept(t)
      <3> HIDE DEF Kept, p
      <3>1. "twin" \in MapNames  BY <1>n
      <3>2. \A u, lun : Kept(u) => Kept(mark_fake_twin_rd_bad_lunpba(u, lun, a, h))
        BY Zenon, <1>m, <3>1 DEF mark_fake_twin_rd_bad_lunpba
      <3> QED  BY Zenon, <1>k, <3>2
    <2>2. inj' = [s EXCEPT !.marks = s.marks + 1, !.pick = [set |-> TRUE, luns |-> p],
                           !.asked = z]
      BY Zenon, <1>2 DEF update_fake_pattern
    <2> HIDE DEF p, t
    <2>3. Kept(s)  BY <1>k, <2>1
    <2> HIDE DEF s, z
    <2> QED  BY SMTT(30), <2>2, <2>3 DEF Fields
  <1>3. Kept(inj')  BY <1>1, <1>2
  <1> QED  BY <1>0, <1>3, QuietStep

\* A call begins: those it overlaps with are met, and every mark already made
\* in its group is ahead of it.
LEMMA BeginInv ==
  ASSUME RaidInv, NEW c \in Callers, NEW lun \in Luns, NEW pba \in RdAddrs,
         RaidBegin(c, lun, pba)
  PROVE  RaidInv'
  <1> DEFINE at == GroupOf(lun) * Geo.group
             w == [pc |-> "look", lun |-> lun, pba |-> pba, at |-> at]
             here == {e \in Callers : /\ inj.who[e].pc # "idle" /\ inj.who[e].pba = pba
                                      /\ GroupOf(inj.who[e].lun) = GroupOf(lun)}
             met == inj.met \cup {<<GroupOf(lun), pba>> : d \in here}
  <1>0. /\ DOMAIN inj = Fields /\ inj.who \in [Callers -> Calls]
        /\ DOMAIN inj.bits = MapNames /\ (inj.done => inj.state # "init")
    BY DEF RaidInv, Shape
  <1>1. lun \in Nat /\ pba \in Nat  BY GeoAssumption DEF Luns, RdAddrs
  <1>2. /\ at \in Nat /\ GroupOf(at) = GroupOf(lun)
        /\ \A b \in Nat : GroupOf(b) = GroupOf(lun) => at <= b
    BY <1>1, FirstOfGroup
  <1>3. /\ inj.who[c].pc = "idle"
        /\ inj' = [inj EXCEPT !.marks = inj.marks + 1,
                              !.who = [inj.who EXCEPT ![c] = w], !.met = met]
    BY DEF RaidBegin
  <1> HIDE DEF at
  <1>4. w \in Calls /\ w.pc = "look" /\ w.lun = lun /\ w.pba = pba /\ w.at = at
    BY <1>1, <1>2 DEF Calls
  <1>5. inj.met \subseteq met /\ (here # {} => <<GroupOf(lun), pba>> \in met)
    OBVIOUS
  <1>6. \A e \in Callers : (/\ inj.who[e].pc # "idle" /\ inj.who[e].pba = pba
                            /\ GroupOf(inj.who[e].lun) = GroupOf(lun))
                              => <<GroupOf(lun), pba>> \in met
    BY <1>5
  <1> HIDE DEF w, met, here
  <1>7. /\ DOMAIN inj' = Fields /\ inj'.who = [inj.who EXCEPT ![c] = w] /\ inj'.met = met
        /\ inj'.raided = inj.raided /\ inj'.bits = inj.bits /\ inj'.done = inj.done
        /\ inj'.state = inj.state
    BY <1>0, <1>3 DEF Fields
  <1>8. \A e \in Callers : inj'.who[e] = IF e = c THEN w ELSE inj.who[e]  BY <1>0, <1>7
  <1>9. Shape'  BY <1>0, <1>4, <1>7 DEF Shape
  <1>10. CallsMeet'
    <2> SUFFICES ASSUME NEW d \in Callers, NEW e \in Callers, d # e,
                        inj'.who[d].pc # "idle", inj'.who[e].pc # "idle",
                        inj'.who[d].pba = inj'.who[e].pba,
                        GroupOf(inj'.who[d].lun) = GroupOf(inj'.who[e].lun)
                 PROVE  <<GroupOf(inj'.who[d].lun), inj'.who[d].pba>> \in inj'.met
      BY DEF CallsMeet, GroupOf
    <2>1. CASE d = c
      BY <1>4, <1>6, <1>7, <1>8, <2>1
    <2>2. CASE e = c
      BY SMTT(30), <1>4, <1>6, <1>7, <1>8, <2>2
    <2>3. CASE d # c /\ e # c
      BY SMTT(30), <1>5, <1>7, <1>8, <2>3 DEF RaidInv, CallsMeet
    <2> QED  BY <2>1, <2>2, <2>3
  <1>11. MarksAhead'
    <2> SUFFICES ASSUME NEW e \in Callers, inj'.who[e].pc # "idle"
                 PROVE  LET v == inj'.who[e]
                        IN  /\ GroupOf(v.at) = GroupOf(v.lun)
                            /\ \A m \in inj'.raided :
                                  m[2] = v.pba /\ GroupOf(m[1]) = GroupOf(v.lun)
                                    => \/ <<GroupOf(v.lun), v.pba>> \in inj'.met
                                       \/ v.pc = "look" /\ v.at <= m[1]
      BY DEF MarksAhead, GroupOf
    <2>1. CASE e = c
      <3>1. \A m \in inj.raided : m[1] \in Nat  BY DEF RaidInv, MarksStay
      <3> QED  BY <1>2, <1>4, <1>7, <1>8, <2>1, <3>1
    <2>2. CASE e # c
      BY <1>5, <1>7, <1>8, <2>2 DEF RaidInv, MarksAhead
    <2> QED  BY SMTT(30), <2>1, <2>2
  <1>12. MarksStay'  BY <1>7 DEF RaidInv, MarksStay
  <1>13. RaidMarksExclude'  BY <1>5, <1>7 DEF RaidInv, RaidMarksExclude
  <1> QED  BY <1>9, <1>10, <1>11, <1>12, <1>13 DEF RaidInv

\* A call that goes on, or ends, without a mark: who[c] becomes w, which is
\* idle or still in its group, and no mark in its group has been passed.
LEMMA CallStep ==
  ASSUME RaidInv, NEW c \in Callers, NEW w \in Calls,
         inj' = [inj EXCEPT !.who = [inj.who EXCEPT ![c] = w]],
         w.pc # "idle" =>
            /\ inj.who[c].pc # "idle"
            /\ w.lun = inj.who[c].lun /\ w.pba = inj.who[c].pba
            /\ GroupOf(w.at) = GroupOf(w.lun)
            /\ \A m \in inj.raided :
                  m[2] = w.pba /\ GroupOf(m[1]) = GroupOf(w.lun)
                    => \/ <<GroupOf(w.lun), w.pba>> \in inj.met
                       \/ w.pc = "look" /\ w.at <= m[1]
  PROVE  RaidInv'
  <1>0. /\ DOMAIN inj = Fields /\ inj.who \in [Callers -> Calls]
        /\ DOMAIN inj.bits = MapNames /\ (inj.done => inj.state # "init")
    BY DEF RaidInv, Shape
  <1>1. /\ DOMAIN inj' = Fields /\ inj'.who = [inj.who EXCEPT ![c] = w] /\ inj'.met = inj.met
        /\ inj'.raided = inj.raided /\ inj'.bits = inj.bits /\ inj'.done = inj.done
        /\ inj'.state = inj.state
    BY <1>0 DEF Fields
  <1>2. \A e \in Callers : inj'.who[e] = IF e = c THEN w ELSE inj.who[e]  BY <1>0, <1>1
  <1>3. Shape'  BY <1>0, <1>1 DEF Shape
  <1>4. CallsMeet'
    <2> SUFFICES ASSUME NEW d \in Callers, NEW e \in Callers, d # e,
                        inj'.who[d].pc # "idle", inj'.who[e].pc # "idle",
                        inj'.who[d].pba = inj'.who[e].pba,
                        GroupOf(inj'.who[d].lun) = GroupOf(inj'.who[e].lun)
                 PROVE  <<GroupOf(inj'.who[d].lun), inj'.who[d].pba>> \in inj'.met
      BY DEF CallsMeet, GroupOf
    <2>1. ASSUME NEW b \in Callers, inj'.who[b].pc # "idle"
          PROVE  /\ inj.who[b].pc # "idle" /\ inj.who[b].lun = inj'.who[b].lun
                 /\ inj.who[b].pba = inj'.who[b].pba
      BY <1>2, <2>1
    <2> QED  BY <1>1, <2>1 DEF RaidInv, CallsMeet
  <1>5. MarksAhead'
    <2> SUFFICES ASSUME NEW e \in Callers, inj'.who[e].pc # "idle"
                 PROVE  LET v == inj'.who[e]
                        IN  /\ GroupOf(v.at) = GroupOf(v.lun)
                            /\ \A m \in inj'.raided :
                                  m[2] = v.pba /\ GroupOf(m[1]) = GroupOf(v.lun)
                                    => \/ <<GroupOf(v.lun), v.pba>> \in inj'.met
                                       \/ v.pc = "look" /\ v.at <= m[1]
      BY DEF MarksAhead, GroupOf
    <2>1. CASE e = c
      BY <1>1, <1>2, <2>1
    <2>2. CASE e # c
      BY <1>1, <1>2, <2>2 DEF RaidInv, MarksAhead
    <2> QED  BY <2>1, <2>2
  <1>6. MarksStay' /\ RaidMarksExclude'
    BY <1>1 DEF RaidInv, MarksStay, RaidMarksExclude
  <1> QED  BY <1>3, <1>4, <1>5, <1>6 DEF RaidInv

\* One lun is looked at: a mark found there ends the call, and one that is
\* not there has not been passed.
LEMMA LookInv ==
  ASSUME RaidInv, NEW c \in Callers, RaidLook(c)
  PROVE  RaidInv'
  <1> DEFINE v == inj.who[c]
             fails == is_fake_rd_bad_lunpba(inj, v.at, v.pba)
  <1>0. /\ DOMAIN inj = Fields /\ inj.who \in [Callers -> Calls] /\ v \in Calls
        /\ v.pc = "look" /\ v.at \in Nat /\ v.lun \in Nat /\ v.pba \in Nat
    BY DEF RaidInv, Shape, RaidLook, Calls
  <1>1. /\ GroupOf(v.at) = GroupOf(v.lun)
        /\ \A m \in inj.raided :
              m[2] = v.pba /\ GroupOf(m[1]) = GroupOf(v.lun)
                => <<GroupOf(v.lun), v.pba>> \in inj.met \/ v.at <= m[1]
    BY <1>0 DEF RaidInv, MarksAhead
  <1>2. \A m \in inj.raided : m[1] \in Nat  BY DEF RaidInv, MarksStay
  <1>3. ~fails => \A m \in inj.raided : m[2] = v.pba => m[1] # v.at
    BY DEF RaidInv, MarksStay, is_fake_rd_bad_lunpba, Test
  <1>4. CASE fails
    <2>1. inj' = [inj EXCEPT !.who = [inj.who EXCEPT ![c] = Idle]]
      BY <1>4 DEF RaidLook
    <2>2. Idle \in Calls /\ Idle.pc = "idle"  BY DEF Idle, Calls
    <2> QED  BY Zenon, <2>1, <2>2, CallStep
  <1>5. CASE ~fails /\ (v.at + 1) % Geo.group # 0
    <2> DEFINE w == [v EXCEPT !.at = v.at + 1]
    <2>1. inj' = [inj EXCEPT !.who = [inj.who EXCEPT ![c] = w]]
      BY <1>0, <1>5 DEF RaidLook, Fields
    <2>2. /\ w \in Calls /\ w.pc = "look" /\ w.lun = v.lun /\ w.pba = v.pba
          /\ w.at = v.at + 1
      BY <1>0 DEF Calls
    <2> HIDE DEF w
    <2>3. GroupOf(w.at) = GroupOf(w.lun)  BY <1>0, <1>1, <1>5, <2>2, NextOfGroup
    <2>4. \A m \in inj.raided :
             m[2] = w.pba /\ GroupOf(m[1]) = GroupOf(w.lun)
               => <<GroupOf(w.lun), w.pba>> \in inj.met \/ w.at <= m[1]
      <3> SUFFICES ASSUME NEW m \in inj.raided, m[2] = v.pba, GroupOf(m[1]) = GroupOf(v.lun),
                          <<GroupOf(v.lun), v.pba>> \notin inj.met
                   PROVE  v.at + 1 <= m[1]
        BY <2>2
      <3> QED  BY <1>0, <1>1, <1>2, <1>3, <1>5
    <2> QED  BY <1>0, <2>1, <2>2, <2>3, <2>4, CallStep
  <1>6. CASE ~fails /\ (v.at + 1) % Geo.group = 0
    <2> DEFINE w == [v EXCEPT !.pc = "mark"]
    <2>1. inj' = [inj EXCEPT !.who = [inj.who EXCEPT ![c] = w]]
      BY <1>0, <1>6 DEF RaidLook, Fields
    <2>2. /\ w \in Calls /\ w.pc = "mark" /\ w.lun = v.lun /\ w.pba = v.pba
          /\ w.at = v.at
      BY <1>0 DEF Calls
    <2> HIDE DEF w
    <2>3. \A b \in Nat : GroupOf(b) = GroupOf(v.at) => b <= v.at
      BY <1>0, <1>6, NextOfGroup
    <2>4. \A m \in inj.raided :
             m[2] = w.pba /\ GroupOf(m[1]) = GroupOf(w.lun)
               => <<GroupOf(w.lun), w.pba>> \in inj.met
      <3> SUFFICES ASSUME NEW m \in inj.raided, m[2] = v.pba, GroupOf(m[1]) = GroupOf(v.lun),
                          <<GroupOf(v.lun), v.pba>> \notin inj.met
                   PROVE  FALSE
        BY <2>2
      <3>1. v.at <= m[1] /\ m[1] <= v.at /\ m[1] # v.at /\ m[1] \in Nat
        BY <1>1, <1>2, <1>3, <1>6, <2>3
      <3> QED  BY <1>0, <3>1
    <2> QED  BY <1>0, <1>1, <2>1, <2>2, <2>4, CallStep
  <1> QED  BY <1>4, <1>5, <1>6

\* The mark is made: a mark already there was made by a call that was met,
\* and so was every call that is still looking.
LEMMA MarkInv ==
  ASSUME RaidInv, NEW c \in Callers, RaidMark(c)
  PROVE  RaidInv'
  <1> DEFINE v == inj.who[c]
             t == mark_fake_rd_bad_lunpba(inj, v.lun, v.pba)
             new == IF inj.done THEN {<<v.lun, v.pba>>} ELSE {}
  <1>0. /\ DOMAIN inj = Fields /\ DOMAIN inj.bits = MapNames
        /\ inj.who \in [Callers -> Calls] /\ v \in Calls /\ v.pc = "mark"
        /\ v.lun \in Nat /\ v.pba \in Nat /\ (inj.done => inj.state # "init")
    BY SMTT(30) DEF RaidInv, Shape, RaidMark, Calls
  <1>1. /\ DOMAIN t = Fields /\ DOMAIN t.bits = MapNames
        /\ t.done = inj.done /\ t.state = inj.state /\ t.who = inj.who
        /\ t.raided = inj.raided /\ t.met = inj.met
        /\ inj.bits["rd"] \subseteq t.bits["rd"]
        /\ inj.done => RdOffset(Geo, v.lun, v.pba) \in t.bits["rd"]
    BY <1>0, MarkKeeps, RdIsAMap DEF mark_fake_rd_bad_lunpba
  <1>2. inj' = [t EXCEPT !.who = [t.who EXCEPT ![c] = Idle],
                  !.raided = IF inj.done THEN t.raided \cup {<<v.lun, v.pba>>} ELSE t.raided,
                  !.asked = IF inj.done THEN t.asked \cup {<<"rd", v.lun, v.pba>>} ELSE t.asked]
    BY DEF RaidMark
  <1> HIDE DEF t
  <1>3. /\ DOMAIN inj' = Fields /\ inj'.who = [inj.who EXCEPT ![c] = Idle]
        /\ inj'.met = inj.met /\ inj'.bits = t.bits /\ inj'.done = inj.done
        /\ inj'.state = inj.state /\ inj'.raided = inj.raided \cup new
    BY <1>1, <1>2 DEF Fields
  <1>4. Idle \in Calls /\ Idle.pc = "idle"  BY DEF Idle, Calls
  <1>5. \A e \in Callers : inj'.who[e] = IF e = c THEN Idle ELSE inj.who[e]  BY <1>0, <1>3
  <1>6. Shape'  BY <1>0, <1>1, <1>3, <1>4 DEF Shape
  <1>7. CallsMeet'
    <2> SUFFICES ASSUME NEW d \in Callers, NEW e \in Callers, d # e,
                        inj'.who[d].pc # "idle", inj'.who[e].pc # "idle",
                        inj'.who[d].pba = inj'.who[e].pba,
                        GroupOf(inj'.who[d].lun) = GroupOf(inj'.who[e].lun)
                 PROVE  <<GroupOf(inj'.who[d].lun), inj'.who[d].pba>> \in inj'.met
      BY DEF CallsMeet, GroupOf
    <2>1. d # c /\ e # c  BY <1>4, <1>5
    <2> QED  BY <1>3, <1>5, <2>1 DEF RaidInv, CallsMeet
  <1>8. MarksAhead'
    <2> SUFFICES ASSUME NEW e \in Callers, inj'.who[e].pc # "idle"
                 PROVE  LET w == inj'.who[e]
                        IN  /\ GroupOf(w.at) = GroupOf(w.lun)
                            /\ \A m \in inj'.raided :
                                  m[2] = w.pba /\ GroupOf(m[1]) = GroupOf(w.lun)
                                    => \/ <<GroupOf(w.lun), w.pba>> \in inj'.met
                                       \/ w.pc = "look" /\ w.at <= m[1]
      BY DEF MarksAhead, GroupOf
    <2>1. e # c /\ inj'.who[e] = inj.who[e]  BY <1>4, <1>5
    <2>2. GroupOf(inj.who[e].at) = GroupOf(inj.who[e].lun)
      BY Zenon, <2>1 DEF RaidInv, MarksAhead
    <2>3. ASSUME NEW m \in inj'.raided, m[2] = inj.who[e].pba,
                 GroupOf(m[1]) = GroupOf(inj.who[e].lun)
          PROVE  \/ <<GroupOf(inj.who[e].lun), inj.who[e].pba>> \in inj.met
                 \/ inj.who[e].pc = "look" /\ inj.who[e].at <= m[1]
      <3>1. CASE m \in inj.raided
        BY <2>1, <2>3, <3>1 DEF RaidInv, MarksAhead
      <3>2. CASE m = <<v.lun, v.pba>>
        <4>1. m[1] = v.lun /\ m[2] = v.pba  BY <3>2
        <4> QED  BY Zenon, <1>0, <2>1, <2>3, <4>1 DEF RaidInv, CallsMeet
      <3> QED  BY <1>3, <3>1, <3>2
    <2> QED  BY SMTT(30), <1>3, <2>1, <2>2, <2>3
  <1>9. MarksStay'
    <2> SUFFICES ASSUME NEW m \in inj'.raided
                 PROVE  /\ m[1] \in Nat /\ m[2] \in Nat /\ inj.done
                        /\ RdOffset(Geo, m[1], m[2]) \in t.bits["rd"]
      BY <1>3 DEF MarksStay, RdOffset
    <2>1. CASE m \in inj.raided
      BY <1>1, <2>1 DEF RaidInv, MarksStay
    <2>2. CASE m \in new
      <3>1. m[1] = v.lun /\ m[2] = v.pba /\ inj.done  BY <2>2
      <3> QED  BY <1>0, <1>1, <3>1
    <2> QED  BY <1>3, <2>1, <2>2
  <1>10. RaidMarksExclude'
    <2>1. \A m \in inj.raided : m[2] = v.pba /\ GroupOf(m[1]) = GroupOf(v.lun)
                                  => <<GroupOf(v.lun), v.pba>> \in inj.met
      BY <1>0 DEF RaidInv, MarksAhead
    <2> SUFFICES ASSUME NEW m \in inj'.raided, NEW n \in inj'.raided,
                        m[1] # n[1], m[2] = n[2], GroupOf(m[1]) = GroupOf(n[1])
                 PROVE  <<GroupOf(m[1]), m[2]>> \in inj.met
      BY <1>3 DEF RaidMarksExclude, GroupOf
    <2>2. CASE m \in inj.raided /\ n \in inj.raided
      BY <2>2 DEF RaidInv, RaidMarksExclude
    <2>3. CASE m \in new /\ n \in inj.raided
      <3>1. m[1] = v.lun /\ m[2] = v.pba  BY <2>3
      <3> QED  BY Zenon, <2>1, <2>3, <3>1
    <2>4. CASE m \in inj.raided /\ n \in new
      <3>1. n[1] = v.lun /\ n[2] = v.pba  BY <2>4
      <3> QED  BY <2>1, <2>4, <3>1
    <2>5. CASE m \in new /\ n \in new
      BY <2>5
    <2> QED  BY <1>3, <2>2, <2>3, <2>4, <2>5
  <1> QED  BY SMTT(30), <1>6, <1>7, <1>8, <1>9, <1>10 DEF RaidInv

\* Every step keeps the invariant.
LEMMA RaidInductive == RaidInv /\ [InjNext]_inj => RaidInv'
  <1> SUFFICES ASSUME RaidInv, [InjNext]_inj  PROVE  RaidInv'
    OBVIOUS
  <1>1. CASE UNCHANGED inj
    BY <1>1 DEF RaidInv, Shape, CallsMeet, MarksAhead, MarksStay, RaidMarksExclude
  <1> QED
    BY <1>1, SetupInv, OtherMarksInv, BeginInv, LookInv, MarkInv DEF InjNext

-----------------------------------------------------------------------------
\* For every geometry and any number of callers, and whatever else is marked,
\* set up or released meanwhile: mark_fake_rd_bad_lunpba_raidmutex marks two
\* luns of a RAID group in one sector only in calls that overlap.
THEOREM RaidMarksAreExclusive == InjSpec => []RaidMarksExclude
  <1>1. RaidInv => RaidMarksExclude  BY DEF RaidInv
  <1> QED  BY <1>1, RaidInductive, RaidInitInv, PTL DEF InjSpec

-----------------------------------------------------------------------------
(* The pair of update_fake_pattern.                                        *)

\* A set of numbers has a smallest one.
LEMMA Smallest ==
  ASSUME NEW T, T \subseteq Nat, T # {}
  PROVE  \E x \in T : \A y \in T : x <= y
  <1>1. IsWellFoundedOn(OpToRel(<, Nat), Nat)  BY NatLessThanWellFounded, Zenon
  <1>2. \E x \in T : \A y \in T : ~ (<<y, x>> \in OpToRel(<, Nat))  BY <1>1, WFMin, Zenon
  <1>3. PICK x \in T : \A y \in T : ~ (<<y, x>> \in OpToRel(<, Nat))  BY <1>2, Zenon
  <1>4. \A y \in T : ~ (y < x)  BY <1>3, Zenon DEF OpToRel
  <1> QED  BY <1>4

\* The walk ends at a position that is not skipped, or has been everywhere.
LEMMA WalkFinds ==
  ASSUME NEW n \in Nat \ {0}, NEW from \in 0..(n - 1), NEW Skip
  PROVE  /\ Walk(n, from, Skip) \in 0..n
         /\ Walk(n, from, Skip) = n => 0..(n - 1) \subseteq Skip
         /\ Walk(n, from, Skip) # n => Walk(n, from, Skip) \notin Skip
  <1> DEFINE Past(k) == \A j \in 0..(k - 1) : (from + j) % n \in Skip
             Stop(k) == Past(k) /\ (k < n => (from + k) % n \notin Skip)
             passed  == CHOOSE k \in 0..n : Stop(k)
             T == {k \in Nat : k = n \/ (k < n /\ (from + k) % n \notin Skip)}
  <1>1. \E k \in 0..n : Stop(k)
    <2>1. n \in T /\ T \subseteq Nat  OBVIOUS
    <2>2. PICK k \in T : \A j \in T : k <= j  BY <2>1, Smallest, Zenon
    <2>3. k \in 0..n  BY <2>1, <2>2
    <2>4. Past(k)
      <3> SUFFICES ASSUME NEW j \in 0..(k - 1)  PROVE  (from + j) % n \in Skip
        OBVIOUS
      <3>1. j \in Nat /\ j < n /\ ~(k <= j)  BY <2>3
      <3> QED  BY <2>2, <3>1
    <2>5. k < n => (from + k) % n \notin Skip  BY <2>2, <2>3
    <2> QED  BY <2>3, <2>4, <2>5
  <1>2. passed \in 0..n /\ Stop(passed)  BY <1>1, Zenon
  <1>3. Walk(n, from, Skip) = IF passed = n THEN n ELSE (from + passed) % n
    BY DEF Walk
  <1> HIDE DEF passed
  <1>4. CASE passed = n
    <2>1. ASSUME NEW x \in 0..(n - 1)  PROVE  x \in Skip
      <3> DEFINE j == IF from <= x THEN x - from ELSE x + n - from
      <3>1. j \in 0..(n - 1)  OBVIOUS
      <3>2. from + j \in Nat /\ (from + j = n * 0 + x \/ from + j = n * 1 + x)  OBVIOUS
      <3>3. x = (from + j) % n
        <4> DEFINE a == from + j
        <4>1. a \in Nat /\ (a = n * 0 + x \/ a = n * 1 + x)  BY <3>2
        <4> HIDE DEF a
        <4>2. x = a % n
          <5>1. CASE a = n * 0 + x  BY <4>1, <5>1, DivUnique
          <5>2. CASE a = n * 1 + x  BY <4>1, <5>2, DivUnique
          <5> QED  BY <4>1, <5>1, <5>2
        <4> QED  BY <4>2 DEF a
      <3> QED  BY <1>2, <1>4, <3>1, <3>3
    <2> QED  BY <1>3, <1>4, <2>1
  <1>5. CASE passed # n
    <2>1. from + passed \in Nat /\ passed < n  BY <1>2, <1>5
    <2>2. (from + passed) % n \in 0..(n - 1)  BY <2>1, DivMod
    <2> QED  BY <1>2, <1>3, <1>5, <2>1, <2>2
  <1> QED  BY <1>4, <1>5

\* A finite set has two elements or fewer than two.
LEMMA TwoOrFewer ==
  ASSUME NEW S, IsFiniteSet(S)
  PROVE  Cardinality(S) >= 2 <=> \E x, y \in S : x # y
  <1>0. Cardinality(S) \in Nat  BY FS_CardinalityType
  <1>1. CASE S = {}  BY <1>1, FS_EmptySet
  <1>2. CASE S # {}
    <2>1. PICK x : x \in S  BY <1>2
    <2>2. /\ IsFiniteSet(S \ {x}) /\ Cardinality(S \ {x}) = Cardinality(S) - 1
      BY <2>1, FS_RemoveElement
    <2>3. Cardinality(S \ {x}) \in Nat  BY <2>2, FS_CardinalityType
    <2>4. Cardinality(S \ {x}) = 0 <=> S \ {x} = {}  BY <2>2, FS_EmptySet
    <2> QED  BY <1>0, <2>1, <2>2, <2>3, <2>4
  <1> QED  BY <1>1, <1>2

\* The numbers below n are n.
LEMMA IntervalSize ==
  ASSUME NEW n \in Nat
  PROVE  IsFiniteSet(0..(n - 1)) /\ Cardinality(0..(n - 1)) = n
  <1> DEFINE b == n - 1
  <1>1. b \in Int /\ 0 \in Int  OBVIOUS
  <1> HIDE DEF b
  <1>2. IsFiniteSet(0..b) /\ Cardinality(0..b) = IF 0 > b THEN 0 ELSE b - 0 + 1
    BY <1>1, FS_Interval, Zenon
  <1>3. (IF 0 > b THEN 0 ELSE b - 0 + 1) = n  BY DEF b
  <1> QED  BY <1>2, <1>3 DEF b

\* The luns of group g are those at the offsets below the size of a group.
LEMMA LunsOfGroup ==
  ASSUME NEW g \in Groups
  PROVE  /\ \A o \in 0..(Geo.group - 1) :
               LET l == g * Geo.group + o
               IN  l \in Luns /\ GroupOf(l) = g /\ l % Geo.group = o
         /\ \A l \in Luns : GroupOf(l) = g =>
               /\ l % Geo.group \in 0..(Geo.group - 1)
               /\ l = g * Geo.group + (l % Geo.group)
  <1> DEFINE G == Geo.group
             N == Geo.luns \div G
  <1>1. G \in Nat \ {0} /\ Geo.luns \in Nat \ {0} /\ Geo.luns % G = 0  BY GeoAssumption
  <1>2. N \in Nat /\ Geo.luns = G * N + (Geo.luns % G)  BY <1>1, DivMod, Zenon
  <1>3. g \in Nat /\ g < N  BY <1>2 DEF Groups
  <1> HIDE DEF N, G
  <1>4. Geo.luns = G * N /\ G * N \in Nat /\ G * g \in Nat /\ G * g = g * G
    BY <1>1, <1>2, <1>3
  <1>5. G * g + G <= G * N  BY <1>1, <1>2, <1>3, Apart
  <1>6. ASSUME NEW o \in 0..(G - 1)
        PROVE  g * G + o \in Luns /\ GroupOf(g * G + o) = g /\ (g * G + o) % G = o
    <2> DEFINE l == g * G + o
    <2>1. l \in Nat /\ l < Geo.luns /\ l = G * g + o  BY <1>1, <1>4, <1>5
    <2> HIDE DEF l
    <2>2. g = l \div G /\ o = l % G  BY <1>1, <1>3, <2>1, DivUnique
    <2>3. l \in Luns /\ GroupOf(l) = g /\ l % G = o  BY <1>1, <2>1, <2>2 DEF Luns, GroupOf, G
    <2> QED  BY <2>3 DEF l
  <1>7. ASSUME NEW l \in Luns, GroupOf(l) = g
        PROVE  l % G \in 0..(G - 1) /\ l = g * G + (l % G)
    <2>1. l \in Nat  BY <1>1 DEF Luns
    <2>2. l % G \in 0..(G - 1) /\ l = G * (l \div G) + (l % G)  BY <1>1, <2>1, DivMod, Zenon
    <2> QED  BY <1>4, <1>7, <2>2 DEF GroupOf, G
  <1> QED  BY <1>6, <1>7 DEF G

\* A group has two usable luns if two of its offsets are not bad: the test on
\* available_luns in update_fake_pattern.
LEMMA UsableLuns ==
  ASSUME NEW bad, NEW g \in Groups
  PROVE  LET Bad    == {o \in 0..(Geo.group - 1) : g * Geo.group + o \in bad}
             Usable == {l \in Luns \ bad : GroupOf(l) = g}
             two    == \E x, y \in (0..(Geo.group - 1)) \ Bad : x # y
         IN  (Geo.group - Cardinality(Bad) < 2 <=> ~two) /\ (Cardinality(Usable) >= 2 <=> two)
  <1> DEFINE G      == Geo.group
             Bad    == {o \in 0..(G - 1) : g * G + o \in bad}
             Good   == (0..(G - 1)) \ Bad
             Usable == {l \in Luns \ bad : GroupOf(l) = g}
             two    == \E x, y \in Good : x # y
  <1>1. G \in Nat \ {0} /\ Geo.luns \in Nat  BY GeoAssumption
  <1>2. IsFiniteSet(0..(G - 1)) /\ Cardinality(0..(G - 1)) = G  BY <1>1, IntervalSize
  <1>3. IsFiniteSet(Bad) /\ IsFiniteSet(Good)
    <2>1. Bad \in SUBSET (0..(G - 1)) /\ Good \in SUBSET (0..(G - 1))  OBVIOUS
    <2> HIDE DEF Bad, Good, G
    <2> QED  BY <1>2, <2>1, FS_Subset
  <1>4. Cardinality(Bad) \in Nat /\ Cardinality(Good) \in Nat  BY <1>3, FS_CardinalityType
  <1>5. Cardinality(Good) = G - Cardinality(Bad)
    <2>1. Bad \cup Good = 0..(G - 1) /\ Bad \cap Good = {}  OBVIOUS
    <2>2. Cardinality(Bad \cup Good)
            = Cardinality(Bad) + Cardinality(Good) - Cardinality(Bad \cap Good)
      BY <1>3, FS_Union
    <2> HIDE DEF Bad, Good, G
    <2>3. Cardinality(Bad \cup Good) = G  BY <1>2, <2>1
    <2>4. Cardinality(Bad \cap Good) = 0  BY <2>1, FS_EmptySet
    <2> QED  BY <1>1, <1>4, <2>2, <2>3, <2>4
  <1>6. Cardinality(Good) >= 2 <=> two
    <2> HIDE DEF Good
    <2> QED  BY <1>3, TwoOrFewer
  <1>7. IsFiniteSet(Usable)
    <2>1. IsFiniteSet(Luns)  BY <1>1, IntervalSize DEF Luns
    <2>2. Usable \in SUBSET Luns  OBVIOUS
    <2> HIDE DEF Usable
    <2> QED  BY <2>1, <2>2, FS_Subset
  <1>8. Cardinality(Usable) >= 2 <=> \E x, y \in Usable : x # y
    <2> HIDE DEF Usable
    <2> QED  BY <1>7, TwoOrFewer
  <1>9. (\E x, y \in Usable : x # y) <=> two
    <2>1. ASSUME NEW x \in Usable, NEW y \in Usable, x # y  PROVE two
      <3>1. /\ x % G \in 0..(G - 1) /\ x = g * G + (x % G)
            /\ y % G \in 0..(G - 1) /\ y = g * G + (y % G)
        BY LunsOfGroup
      <3>2. x % G \in Good /\ y % G \in Good /\ x % G # y % G  BY <2>1, <3>1
      <3> QED  BY <3>2
    <2>2. ASSUME NEW x \in Good, NEW y \in Good, x # y  PROVE \E v, w \in Usable : v # w
      <3>1. /\ g * G + x \in Luns /\ GroupOf(g * G + x) = g /\ (g * G + x) % G = x
            /\ g * G + y \in Luns /\ GroupOf(g * G + y) = g /\ (g * G + y) % G = y
        BY LunsOfGroup
      <3>2. g * G + x \in Usable /\ g * G + y \in Usable  BY <3>1
      <3>3. g * G + x # g * G + y  BY <2>2, <3>1
      <3> QED  BY <3>2, <3>3
    <2> QED  BY <2>1, <2>2
  <1> HIDE DEF two, Usable, Good, Bad, G
  <1>10. (G - Cardinality(Bad) < 2 <=> ~two) /\ (Cardinality(Usable) >= 2 <=> two)
    BY <1>1, <1>4, <1>5, <1>6, <1>8, <1>9
  <1> QED  BY <1>10 DEF two, Usable, Good, Bad, G

\* Some group has two luns that the super block does not exclude.
Able(bad) == \E g \in Groups : Cardinality({l \in Luns \ bad : GroupOf(l) = g}) >= 2

\* Wherever the walks begin, two different luns are chosen if there are two.
LEMMA TwinPickFinds ==
  ASSUME NEW s, NEW g0 \in Groups, NEW o1 \in 0..(Geo.group - 1), NEW o2 \in 0..(Geo.group - 1)
  PROVE  LET p == TwinPick(s, g0, o1, o2)
         IN  IF Able(s.badluns)
             THEN Len(p) = 2 /\ p[1] # p[2] /\ p[1] \in Luns /\ p[2] \in Luns
             ELSE p = None
  <1> DEFINE G      == Geo.group
             n      == Cardinality(Groups)
             start  == [g \in Groups |-> g * G]
             Bad(g) == {o \in 0..(G - 1) : start[g] + o \in s.badluns}
             Few    == {g \in Groups : G - Cardinality(Bad(g)) < 2}
             grp    == Walk(n, g0, Few)
             a      == Walk(G, o1, Bad(grp))
             b      == Walk(G, o2, Bad(grp) \cup {a})
             two(g) == \E x, y \in (0..(G - 1)) \ Bad(g) : x # y
  <1>1. /\ G \in Nat \ {0} /\ Geo.luns \in Nat \ {0} /\ Geo.luns \div G \in Nat
        /\ 0 \in Groups
    <2>1. G \in Nat \ {0} /\ Geo.luns \in Nat \ {0}  BY GeoAssumption
    <2>2. Geo.luns \div G \in Nat  BY <2>1, DivMod
    <2> QED  BY <2>1, <2>2 DEF Groups
  <1>2. n = Geo.luns \div G /\ n \in Nat \ {0} /\ Groups = 0..(n - 1)
    <2> DEFINE d == Geo.luns \div G
    <2>1. d \in Nat /\ Groups = 0..(d - 1)  BY <1>1 DEF Groups
    <2> HIDE DEF d
    <2>2. n = d  BY <2>1, IntervalSize
    <2> QED  BY <1>1, <2>1, <2>2 DEF d
  <1>3. ASSUME NEW g \in Groups
        PROVE  /\ G - Cardinality(Bad(g)) < 2 <=> ~two(g)
               /\ Cardinality({l \in Luns \ s.badluns : GroupOf(l) = g}) >= 2 <=> two(g)
    <2>1. start[g] = g * G  OBVIOUS
    <2> HIDE DEF start
    <2> DEFINE B == {o \in 0..(G - 1) : g * G + o \in s.badluns}
               U == {l \in Luns \ s.badluns : GroupOf(l) = g}
               t == \E x, y \in (0..(G - 1)) \ B : x # y
    <2>2. Bad(g) = B  BY <2>1
    <2>3. (G - Cardinality(B) < 2 <=> ~t) /\ (Cardinality(U) >= 2 <=> t)  BY UsableLuns
    <2> HIDE DEF B, U, Bad
    <2> QED  BY <2>2, <2>3 DEF U
  <1>4. TwinPick(s, g0, o1, o2) =
          IF grp = n \/ a = G \/ b = G THEN None
          ELSE <<(start[grp] + a) % G, (start[grp] + b) % G>>
    BY DEF TwinPick
  <1>5. /\ grp \in 0..n
        /\ grp = n => Groups \subseteq Few
        /\ grp # n => grp \notin Few
    <2> HIDE DEF n, Few
    <2> QED  BY <1>2, WalkFinds
  <1>6. CASE ~Able(s.badluns)
    <2>1. \A g \in Groups : ~two(g)  BY <1>3, <1>6 DEF Able
    <2>2. Groups \subseteq Few  BY <1>3, <2>1
    <2> HIDE DEF Few, two, n, G, a, b, grp
    <2>3. grp = n  BY <1>2, <1>5, <2>2
    <2> QED  BY <1>4, <1>6, <2>3
  <1>7. CASE Able(s.badluns)
    <2>1. PICK g \in Groups : two(g)  BY <1>3, <1>7 DEF Able
    <2>2. g \notin Few  BY <1>3, <2>1
    <2>3. grp # n /\ grp \in Groups
      <3> HIDE DEF Few, grp, n
      <3> QED  BY <1>2, <1>5, <2>2
    <2>4. two(grp)
      <3> HIDE DEF grp, n, two
      <3>1. ~(G - Cardinality(Bad(grp)) < 2)  BY <1>5, <2>3 DEF Few
      <3> QED  BY <1>3, <2>3, <3>1
    <2> HIDE DEF grp, n
    <2>5. PICK x \in (0..(G - 1)) \ Bad(grp), y \in (0..(G - 1)) \ Bad(grp) : x # y  BY <2>4
    <2> DEFINE B == Bad(grp)
    <2>6. x \in 0..(G - 1) /\ x \notin B /\ y \in 0..(G - 1) /\ y \notin B /\ x # y  BY <2>5
    <2>7. a = Walk(G, o1, B) /\ b = Walk(G, o2, B \cup {a})  OBVIOUS
    <2> HIDE DEF B, Bad, a, b, two
    <2>8. a \in 0..(G - 1)
      <3>1. a \in 0..G /\ (a = G => 0..(G - 1) \subseteq B)  BY <1>1, <2>7, WalkFinds
      <3> QED  BY <1>1, <2>6, <3>1
    <2>9. b \in 0..(G - 1) /\ a # b
      <3>1. /\ b \in 0..G /\ (b = G => 0..(G - 1) \subseteq B \cup {a})
            /\ (b # G => b \notin B \cup {a})
        BY <1>1, <2>7, WalkFinds
      <3>2. b # G
        <4>1. ~(0..(G - 1) \subseteq B \cup {a})  BY <2>6
        <4> QED  BY <3>1, <4>1
      <3> QED  BY <1>1, <3>1, <3>2
    <2>10. start[grp] = grp * G  BY <2>3
    <2> HIDE DEF start
    <2>11. (start[grp] + a) % G = a /\ (start[grp] + b) % G = b
      BY <2>3, <2>8, <2>9, <2>10, LunsOfGroup
    <2>12. a # G /\ b # G  BY <1>1, <2>8, <2>9
    <2>13. TwinPick(s, g0, o1, o2) = <<a, b>>  BY <1>4, <2>3, <2>11, <2>12
    <2>14. a \in Luns /\ b \in Luns
      <3>1. 0 * G + a = a /\ 0 * G + b = b  BY <1>1, <2>8, <2>9
      <3> QED  BY <1>1, <2>8, <2>9, <3>1, LunsOfGroup
    <2> HIDE DEF G
    <2> QED  BY <1>7, <2>9, <2>13, <2>14
  <1> QED  BY <1>6, <1>7

-----------------------------------------------------------------------------
(* What the maps hold.                                                     *)

LunMaps  == {"bad", "timeout", "rdbad"}
AddrMaps == {"wr", "rd", "er"}

\* The numbers of pages and of sectors of a lun.
WrStride == Geo.sbs * Geo.planes * Geo.pages
RdStride == Geo.sbs * Geo.sib

\* The failures that can be asked for, by lun, address and, for twins, head.
Requests == (LunMaps \X Luns \X {0}) \cup ({"wr"} \X Luns \X (0..(WrStride - 1)))
              \cup ({"rd"} \X Luns \X (0..(RdStride - 1)))
              \cup ({"er"} \X Luns \X (0..(Geo.eblocks - 1)))
              \cup ({"twin"} \X Luns \X (0..(Geo.sib - 1)) \X {0, 1})

\* The bit of a failure, in its map.
BitOf(x) ==
    CASE x[1] \in LunMaps -> x[2]
      [] x[1] = "wr"   -> WrOffset(Geo, x[2], x[3])
      [] x[1] = "rd"   -> RdOffset(Geo, x[2], x[3])
      [] x[1] = "er"   -> ErOffset(Geo, x[2], x[3])
      [] x[1] = "twin" -> TwinOffset(Geo, x[2], x[3], x[4])

\* The sizes of init_err_injection are at least n bits.
LEMMA Rounded ==
  ASSUME NEW n \in Nat
  PROVE  /\ n % 8 = 0 => n <= 8 * PageUp(n \div 8)
         /\ n <= 8 * PageUp((n + 7) \div 8)
         /\ n <= 8 * (((n + 63) \div 64) * 8)
  <1>1. \A k \in Nat : PageUp(k) \in Nat /\ k <= PageUp(k)  BY DEF PageUp
  <1>2. n \div 8 \in Nat /\ (n % 8 = 0 => n = 8 * (n \div 8))  OBVIOUS
  <1>3. (n + 7) \div 8 \in Nat /\ n <= 8 * ((n + 7) \div 8)  OBVIOUS
  <1>4. n % 8 = 0 => n <= 8 * PageUp(n \div 8)
    <2> DEFINE k == n \div 8
    <2>1. k \in Nat /\ PageUp(k) \in Nat /\ k <= PageUp(k)  BY <1>1, <1>2
    <2>2. n % 8 = 0 => n = 8 * k  BY <1>2
    <2> HIDE DEF k
    <2>3. n % 8 = 0 => n <= 8 * PageUp(k)  BY <2>1, <2>2
    <2> QED  BY <2>3 DEF k
  <1>5. n <= 8 * PageUp((n + 7) \div 8)
    <2> DEFINE k == (n + 7) \div 8
    <2>1. k \in Nat /\ PageUp(k) \in Nat /\ k <= PageUp(k) /\ n <= 8 * k  BY <1>1, <1>3
    <2> HIDE DEF k
    <2>2. n <= 8 * PageUp(k)  BY <2>1
    <2> QED  BY <2>2 DEF k
  <1>6. n <= 8 * (((n + 63) \div 64) * 8)  OBVIOUS
  <1> QED  BY <1>4, <1>5, <1>6

\* The geometry, field by field, and the strides of the maps.
LEMMA Strides ==
  /\ Geo.luns \in Nat \ {0} /\ Geo.sbs \in Nat \ {0} /\ Geo.sib \in Nat \ {0}
  /\ Geo.pages \in Nat \ {0} /\ Geo.planes \in Nat \ {0} /\ Geo.eblocks \in Nat \ {0}
  /\ WrStride \in Nat \ {0} /\ RdStride \in Nat \ {0}
  /\ \A l \in Luns : l \in Nat /\ l < Geo.luns
  <1>1. /\ Geo.luns \in Nat \ {0} /\ Geo.sbs \in Nat \ {0} /\ Geo.sib \in Nat \ {0}
        /\ Geo.pages \in Nat \ {0} /\ Geo.planes \in Nat \ {0} /\ Geo.eblocks \in Nat \ {0}
    BY GeoAssumption
  <1>p. \A m, n \in Nat \ {0} : m * n \in Nat \ {0}  OBVIOUS
  <1>2. RdStride \in Nat \ {0}  BY <1>1, <1>p DEF RdStride
  <1>3. WrStride \in Nat \ {0}
    <2>1. Geo.sbs * Geo.planes \in Nat \ {0}  BY <1>1, <1>p
    <2> QED  BY <1>1, <1>p, <2>1 DEF WrStride
  <1>4. \A l \in Luns : l \in Nat /\ l < Geo.luns  BY <1>1 DEF Luns
  <1> QED  BY <1>1, <1>2, <1>3, <1>4

\* The addresses that are marked are those of a lun.
LEMMA AddrRanges ==
  /\ WrAddrs \subseteq 0..(WrStride - 1) /\ RdAddrs \subseteq 0..(RdStride - 1)
  /\ ErAddrs \subseteq 0..(Geo.eblocks - 1) /\ TwinAddrs \subseteq 0..(Geo.sib - 1)
  <1>1. Addrs \subseteq Nat  BY GeoAssumption
  <1>2. /\ WrStride \in Nat /\ RdStride \in Nat /\ Geo.eblocks \in Nat /\ Geo.sib \in Nat
    BY Strides
  <1>3. ASSUME NEW n \in Nat  PROVE  {a \in Addrs : a < n} \subseteq 0..(n - 1)
    <2>1. ASSUME NEW a \in Addrs, a < n  PROVE  a \in 0..(n - 1)
      BY <1>1, <2>1
    <2> QED  BY Zenon, <2>1
  <1>4. /\ WrAddrs = {a \in Addrs : a < WrStride} /\ RdAddrs = {a \in Addrs : a < RdStride}
        /\ ErAddrs = {a \in Addrs : a < Geo.eblocks} /\ TwinAddrs = {a \in Addrs : a < Geo.sib}
    BY Zenon DEF WrAddrs, RdAddrs, ErAddrs, TwinAddrs, WrStride, RdStride
  <1> QED  BY <1>2, <1>3, <1>4, Zenon

\* A lun and an address below the stride k give a bit of a map of luns * k bits.
LEMMA InStride ==
  ASSUME NEW k \in Nat \ {0}, NEW l \in Luns, NEW a \in 0..(k - 1)
  PROVE  k * l + a \in Nat /\ k * l + a < k * Geo.luns /\ k * Geo.luns \in Nat
  <1>1. l \in Nat /\ l < Geo.luns /\ Geo.luns \in Nat  BY Strides
  <1>2. k * l + k <= k * Geo.luns  BY <1>1, Apart
  <1>3. k * l \in Nat /\ k * Geo.luns \in Nat  BY <1>1
  <1> QED  BY <1>2, <1>3

\* Where the twin map of a head begins: at a whole word.
HeadBase(h) == IF h = 0 THEN 0 ELSE 64 * ((Geo.luns * Geo.sib) \div 64)

\* The offsets are a lun times a stride plus the address.
LEMMA OffsetForms ==
  ASSUME NEW l \in Luns, NEW a \in Nat
  PROVE  /\ WrOffset(Geo, l, a) = WrStride * l + a
         /\ RdOffset(Geo, l, a) = RdStride * l + a
         /\ ErOffset(Geo, l, a) = Geo.eblocks * l + a
         /\ a \in 0..(Geo.sib - 1) => \A h \in {0, 1} :
               TwinOffset(Geo, l, a, h) = HeadBase(h) + (Geo.sib * l + a)
  <1>0. /\ l \in Nat /\ Geo.luns \in Nat \ {0} /\ Geo.sbs \in Nat \ {0}
        /\ Geo.sib \in Nat \ {0} /\ Geo.pages \in Nat \ {0} /\ Geo.planes \in Nat \ {0}
        /\ Geo.eblocks \in Nat \ {0}
    BY Strides
  <1>1. WrOffset(Geo, l, a) = WrStride * l + a
    <2>1. \A i, j, k, m \in Nat : m * i * j * k = (i * j * k) * m  OBVIOUS
    <2>2. l * Geo.sbs * Geo.planes * Geo.pages = (Geo.sbs * Geo.planes * Geo.pages) * l  BY <1>0, <2>1
    <2> QED  BY <2>2 DEF WrOffset, WrStride
  <1>2. RdOffset(Geo, l, a) = RdStride * l + a
    <2>1. \A i, j, m \in Nat : m * i * j = (i * j) * m  OBVIOUS
    <2>2. l * Geo.sbs * Geo.sib = (Geo.sbs * Geo.sib) * l  BY <1>0, <2>1
    <2> QED  BY <2>2 DEF RdOffset, RdStride
  <1>3. ErOffset(Geo, l, a) = Geo.eblocks * l + a  BY <1>0 DEF ErOffset
  <1>4. ASSUME a \in 0..(Geo.sib - 1), NEW h \in {0, 1}
        PROVE  TwinOffset(Geo, l, a, h) = HeadBase(h) + (Geo.sib * l + a)
    <2>1. a % Geo.sib = a
      <3>1. a = Geo.sib * 0 + a /\ a \in 0..(Geo.sib - 1)  BY <1>0, <1>4
      <3> QED  BY <1>0, <3>1, DivUnique
    <2> DEFINE o == Geo.sib * l + a
               b == IF h = 0 THEN 0 ELSE (Geo.luns * Geo.sib) \div 64
    <2>2. l * Geo.sib + (a % Geo.sib) = o /\ o \in Nat
      <3>1. l * Geo.sib = Geo.sib * l /\ Geo.sib * l \in Nat  BY <1>0
      <3> QED  BY <1>0, <2>1, <3>1
    <2>3. b \in Nat /\ HeadBase(h) = 64 * b
      <3>1. Geo.luns * Geo.sib \in Nat  BY <1>0
      <3>2. (Geo.luns * Geo.sib) \div 64 \in Nat  BY <3>1
      <3> QED  BY <3>2 DEF HeadBase
    <2> HIDE DEF o, b
    <2>4. TwinOffset(Geo, l, a, h) = 64 * (b + o \div 64) + (o % 64)  BY <2>2 DEF TwinOffset, b
    <2>5. 64 * (b + o \div 64) + (o % 64) = 64 * b + o  BY <2>2, <2>3
    <2> QED  BY <2>3, <2>4, <2>5 DEF o
  <1> QED  BY <1>1, <1>2, <1>3, <1>4

\* The parts of a request.
LEMMA RequestParts ==
  ASSUME NEW x \in Requests
  PROVE  \/ /\ x[1] \in LunMaps /\ x[2] \in Luns /\ x[3] = 0 /\ x = <<x[1], x[2], x[3]>>
            /\ BitOf(x) = x[2]
         \/ /\ x[1] = "wr" /\ x[2] \in Luns /\ x[3] \in 0..(WrStride - 1)
            /\ x = <<x[1], x[2], x[3]>> /\ BitOf(x) = WrStride * x[2] + x[3]
         \/ /\ x[1] = "rd" /\ x[2] \in Luns /\ x[3] \in 0..(RdStride - 1)
            /\ x = <<x[1], x[2], x[3]>> /\ BitOf(x) = RdStride * x[2] + x[3]
         \/ /\ x[1] = "er" /\ x[2] \in Luns /\ x[3] \in 0..(Geo.eblocks - 1)
            /\ x = <<x[1], x[2], x[3]>> /\ BitOf(x) = Geo.eblocks * x[2] + x[3]
         \/ /\ x[1] = "twin" /\ x[2] \in Luns /\ x[3] \in 0..(Geo.sib - 1) /\ x[4] \in {0, 1}
            /\ x = <<x[1], x[2], x[3], x[4]>>
            /\ BitOf(x) = HeadBase(x[4]) + (Geo.sib * x[2] + x[3])
  <1>n. ASSUME NEW k \in Nat, NEW a \in 0..(k - 1)  PROVE  a \in Nat
    OBVIOUS
  <1>s. /\ WrStride \in Nat /\ RdStride \in Nat /\ Geo.eblocks \in Nat /\ Geo.sib \in Nat
    BY Strides
  <1>1. CASE x \in LunMaps \X Luns \X {0}
    <2>1. x[1] \in LunMaps /\ x[2] \in Luns /\ x[3] = 0 /\ x = <<x[1], x[2], x[3]>>
      BY <1>1
    <2>2. x[1] \in LunMaps => BitOf(x) = x[2]  BY DEF BitOf, LunMaps
    <2> QED  BY <2>1, <2>2, Zenon
  <1>2. CASE x \in {"wr"} \X Luns \X (0..(WrStride - 1))
    <2>1. /\ x[1] = "wr" /\ x[2] \in Luns /\ x[3] \in 0..(WrStride - 1)
          /\ x = <<x[1], x[2], x[3]>>
      BY <1>2
    <2>2. BitOf(x) = WrOffset(Geo, x[2], x[3])  BY <2>1 DEF BitOf, LunMaps
    <2>3. x[3] \in Nat  BY <1>n, <1>s, <2>1, Zenon
    <2> QED  BY <2>1, <2>2, <2>3, OffsetForms, Zenon
  <1>3. CASE x \in {"rd"} \X Luns \X (0..(RdStride - 1))
    <2>1. /\ x[1] = "rd" /\ x[2] \in Luns /\ x[3] \in 0..(RdStride - 1)
          /\ x = <<x[1], x[2], x[3]>>
      BY <1>3
    <2>2. BitOf(x) = RdOffset(Geo, x[2], x[3])  BY <2>1 DEF BitOf, LunMaps
    <2>3. x[3] \in Nat  BY <1>n, <1>s, <2>1, Zenon
    <2> QED  BY <2>1, <2>2, <2>3, OffsetForms, Zenon
  <1>4. CASE x \in {"er"} \X Luns \X (0..(Geo.eblocks - 1))
    <2>1. /\ x[1] = "er" /\ x[2] \in Luns /\ x[3] \in 0..(Geo.eblocks - 1)
          /\ x = <<x[1], x[2], x[3]>>
      BY <1>4
    <2>2. BitOf(x) = ErOffset(Geo, x[2], x[3])  BY <2>1 DEF BitOf, LunMaps
    <2>3. x[3] \in Nat  BY <1>n, <1>s, <2>1, Zenon
    <2> QED  BY <2>1, <2>2, <2>3, OffsetForms, Zenon
  <1>5. CASE x \in {"twin"} \X Luns \X (0..(Geo.sib - 1)) \X {0, 1}
    <2>1. /\ x[1] = "twin" /\ x[2] \in Luns /\ x[3] \in 0..(Geo.sib - 1) /\ x[4] \in {0, 1}
          /\ x = <<x[1], x[2], x[3], x[4]>>
      BY <1>5
    <2>2. BitOf(x) = TwinOffset(Geo, x[2], x[3], x[4])  BY <2>1 DEF BitOf, LunMaps
    <2>3. x[3] \in Nat  BY <1>n, <1>s, <2>1, Zenon
    <2> QED  BY <2>1, <2>2, <2>3, OffsetForms, Zenon
  <1> QED  BY <1>1, <1>2, <1>3, <1>4, <1>5 DEF Requests

\* The map of a request is one of the seven, and its bit one of those the map
\* is for.
LEMMA InsideMap ==
  ASSUME NEW x \in Requests
  PROVE  /\ x[1] \in MapNames
         /\ x[1] \notin Short => BitOf(x) < SizeInBits(Geo, x[1])
  <1> DEFINE l == x[2]
             a == x[3]
  <1>n. {"bad", "timeout", "rdbad", "rd", "wr", "er", "twin"} \subseteq MapNames  BY SevenMaps
  <1>i. ASSUME NEW m \in MapNames, NEW b \in Nat, BitCount(Geo, m) \in Nat, b < BitCount(Geo, m),
               SizeInBits(Geo, m) \in Nat, m \notin Short
        PROVE  b < SizeInBits(Geo, m)
    <2>1. ~(SizeInBits(Geo, m) < BitCount(Geo, m))  BY <1>i, Zenon DEF Short, MapNames
    <2> QED  BY <1>i, <2>1
  <1>1. CASE x[1] \in LunMaps /\ l \in Luns /\ BitOf(x) = l
    <2>1. SizeInBits(Geo, x[1]) = 8 * (((Geo.luns + 63) \div 64) * 8)
      BY <1>1 DEF SizeInBits, LunMaps
    <2>2. l \in Nat /\ l < Geo.luns /\ Geo.luns \in Nat  BY <1>1, Strides
    <2>3. Geo.luns <= 8 * (((Geo.luns + 63) \div 64) * 8)  BY <2>2, Rounded
    <2>4. (Geo.luns + 63) \div 64 \in Nat  BY <2>2
    <2> QED  BY <1>1, <1>n, <2>1, <2>2, <2>3, <2>4 DEF LunMaps
  <1>2. CASE x[1] = "wr" /\ l \in Luns /\ a \in 0..(WrStride - 1) /\ BitOf(x) = WrStride * l + a
    <2> DEFINE k == WrStride
               n == Geo.pages * Geo.planes * Geo.sbs * Geo.luns
    <2>1. k \in Nat \ {0}  BY Strides
    <2>2. k * l + a \in Nat /\ k * l + a < k * Geo.luns /\ k * Geo.luns \in Nat
      BY <1>2, <2>1, InStride
    <2>3. n = k * Geo.luns
      <3>1. \A i, j, m, o \in Nat : i * j * m * o = (m * j * i) * o  OBVIOUS
      <3> QED  BY <3>1, Strides DEF WrStride
    <2>4. SizeInBits(Geo, "wr") = 8 * PageUp(n \div 8) /\ BitCount(Geo, "wr") = n
      BY DEF SizeInBits, BitCount
    <2> HIDE DEF n, k
    <2>5. SizeInBits(Geo, "wr") \in Nat  BY <2>2, <2>3, <2>4 DEF PageUp
    <2>6. BitOf(x) \in Nat /\ BitOf(x) < BitCount(Geo, "wr") /\ BitCount(Geo, "wr") \in Nat
      BY <1>2, <2>2, <2>3, <2>4 DEF k
    <2> QED  BY <1>2, <1>i, <1>n, <2>5, <2>6, Zenon
  <1>3. CASE x[1] = "rd" /\ l \in Luns /\ a \in 0..(RdStride - 1) /\ BitOf(x) = RdStride * l + a
    <2> DEFINE k == RdStride
               n == Geo.luns * Geo.sbs * Geo.sib
    <2>1. k \in Nat \ {0}  BY Strides
    <2>2. k * l + a \in Nat /\ k * l + a < k * Geo.luns /\ k * Geo.luns \in Nat
      BY <1>3, <2>1, InStride
    <2>3. n = k * Geo.luns
      <3>1. \A i, j, m \in Nat : i * j * m = (j * m) * i  OBVIOUS
      <3> QED  BY <3>1, Strides DEF RdStride
    <2>4. SizeInBits(Geo, "rd") = 8 * PageUp(n \div 8) /\ BitCount(Geo, "rd") = n
      BY DEF SizeInBits, BitCount
    <2> HIDE DEF n, k
    <2>5. SizeInBits(Geo, "rd") \in Nat  BY <2>2, <2>3, <2>4 DEF PageUp
    <2>6. BitOf(x) \in Nat /\ BitOf(x) < BitCount(Geo, "rd") /\ BitCount(Geo, "rd") \in Nat
      BY <1>3, <2>2, <2>3, <2>4 DEF k
    <2> QED  BY <1>3, <1>i, <1>n, <2>5, <2>6, Zenon
  <1>4. CASE /\ x[1] = "er" /\ l \in Luns /\ a \in 0..(Geo.eblocks - 1)
             /\ BitOf(x) = Geo.eblocks * l + a
    <2> DEFINE k == Geo.eblocks
               n == k * Geo.luns
    <2>1. k \in Nat \ {0}  BY Strides
    <2>2. k * l + a \in Nat /\ k * l + a < n /\ n \in Nat  BY <1>4, <2>1, InStride
    <2>4. SizeInBits(Geo, "er") = 8 * PageUp((n + 7) \div 8)  BY DEF SizeInBits
    <2> HIDE DEF n, k
    <2>5. n <= 8 * PageUp((n + 7) \div 8)  BY <2>2, Rounded
    <2>6. PageUp((n + 7) \div 8) \in Nat  BY <2>2 DEF PageUp
    <2>7. BitOf(x) = k * l + a  BY <1>4 DEF k
    <2> QED  BY <1>4, <1>n, <2>2, <2>4, <2>5, <2>6, <2>7
  <1>5. CASE /\ x[1] = "twin" /\ l \in Luns /\ a \in 0..(Geo.sib - 1) /\ x[4] \in {0, 1}
             /\ BitOf(x) = HeadBase(x[4]) + (Geo.sib * l + a)
    <2> DEFINE k == Geo.sib
               m == k * Geo.luns
               n == Geo.luns * Geo.sib * 2
               h == HeadBase(x[4])
    <2>1. k \in Nat \ {0}  BY Strides
    <2>2. k * l + a \in Nat /\ k * l + a < m /\ m \in Nat  BY <1>5, <2>1, InStride
    <2>3. Geo.luns * Geo.sib = m /\ n = 2 * m  BY Strides
    <2>4. SizeInBits(Geo, "twin") = 8 * PageUp(n \div 8) /\ BitCount(Geo, "twin") = n
      BY DEF SizeInBits, BitCount
    <2> HIDE DEF n, m
    <2>5. h \in Nat /\ h <= m  BY <2>2, <2>3 DEF HeadBase
    <2>6. BitOf(x) = h + (k * l + a)  BY <1>5
    <2> HIDE DEF h, k
    <2>7. SizeInBits(Geo, "twin") \in Nat  BY <2>2, <2>3, <2>4 DEF PageUp
    <2>8. BitOf(x) \in Nat /\ BitOf(x) < BitCount(Geo, "twin") /\ BitCount(Geo, "twin") \in Nat
      BY <2>2, <2>3, <2>4, <2>5, <2>6
    <2> QED  BY <1>5, <1>i, <1>n, <2>7, <2>8, Zenon
  <1> QED  BY <1>1, <1>2, <1>3, <1>4, <1>5, RequestParts, Zenon

\* Two requests with one bit, of one stride.
LEMMA SameBit ==
  ASSUME NEW k \in Nat \ {0}, NEW x, NEW y, x[2] \in Int, y[2] \in Int,
         x[3] \in 0..(k - 1), y[3] \in 0..(k - 1), k * x[2] + x[3] = k * y[2] + y[3]
  PROVE  x[2] = y[2] /\ x[3] = y[3]
  <1> DEFINE p == x[2]
             q == x[3]
             r == y[2]
             s == y[3]
  <1>1. p \in Int /\ r \in Int /\ q \in 0..(k - 1) /\ s \in 0..(k - 1) /\ k * p + q = k * r + s
    OBVIOUS
  <1> HIDE DEF p, q, r, s
  <1>2. p = r /\ q = s  BY SMTT(40), <1>1, BitsDistinct
  <1> QED  BY <1>2 DEF p, q, r, s

\* No two failures of a map share a bit; those of a twin map of whole words.
LEMMA ToldApart ==
  ASSUME NEW x \in Requests, NEW y \in Requests, x[1] = y[1], BitOf(x) = BitOf(y),
         x[1] = "twin" => (Geo.luns * Geo.sib) % 64 = 0
  PROVE  x = y
  <1>1. CASE x[1] \in LunMaps
    <2>1. /\ x[3] = 0 /\ x = <<x[1], x[2], x[3]>> /\ BitOf(x) = x[2]
          /\ y[3] = 0 /\ y = <<y[1], y[2], y[3]>> /\ BitOf(y) = y[2]
      BY <1>1, RequestParts DEF LunMaps
    <2> QED  BY <2>1
  <1>2. CASE x[1] \in AddrMaps
    <2>1. PICK k \in Nat \ {0} :
             /\ x[2] \in Luns /\ x[3] \in 0..(k - 1) /\ x = <<x[1], x[2], x[3]>>
             /\ y[2] \in Luns /\ y[3] \in 0..(k - 1) /\ y = <<y[1], y[2], y[3]>>
             /\ BitOf(x) = k * x[2] + x[3] /\ BitOf(y) = k * y[2] + y[3]
      <3>1. CASE x[1] = "wr"
        <4>1. WrStride \in Nat \ {0}  BY Strides
        <4>2. "wr" \notin LunMaps  BY DEF LunMaps
        <4>3. "wr" # "rd" /\ "wr" # "er" /\ "wr" # "twin"  OBVIOUS
        <4> QED  BY Zenon, <3>1, <4>1, <4>2, <4>3, RequestParts
      <3>2. CASE x[1] = "rd"
        <4>1. RdStride \in Nat \ {0}  BY Strides
        <4>2. "rd" \notin LunMaps  BY DEF LunMaps
        <4>3. "rd" # "wr" /\ "rd" # "er" /\ "rd" # "twin"  OBVIOUS
        <4> QED  BY Zenon, <3>2, <4>1, <4>2, <4>3, RequestParts
      <3>3. CASE x[1] = "er"
        <4>1. Geo.eblocks \in Nat \ {0}  BY Strides
        <4>2. "er" \notin LunMaps  BY DEF LunMaps
        <4>3. "er" # "wr" /\ "er" # "rd" /\ "er" # "twin"  OBVIOUS
        <4> QED  BY Zenon, <3>3, <4>1, <4>2, <4>3, RequestParts
      <3> QED  BY <1>2, <3>1, <3>2, <3>3 DEF AddrMaps
    <2>2. x[2] \in Int /\ y[2] \in Int /\ k * x[2] + x[3] = k * y[2] + y[3]
      <3>1. \A l \in Luns : l \in Int  BY Strides
      <3> QED  BY Zenon, <2>1, <3>1
    <2>3. x[2] = y[2] /\ x[3] = y[3]  BY SMTT(40), <2>1, <2>2, SameBit
    <2> QED  BY <2>1, <2>3
  <1>3. CASE x[1] = "twin"
    <2> DEFINE k == Geo.sib
               m == k * Geo.luns
               u == k * x[2] + x[3]
               v == k * y[2] + y[3]
    <2>1. /\ x[2] \in Luns /\ x[3] \in 0..(k - 1) /\ x[4] \in {0, 1}
          /\ x = <<x[1], x[2], x[3], x[4]>>
          /\ y[2] \in Luns /\ y[3] \in 0..(k - 1) /\ y[4] \in {0, 1}
          /\ y = <<y[1], y[2], y[3], y[4]>>
          /\ BitOf(x) = HeadBase(x[4]) + u /\ BitOf(y) = HeadBase(y[4]) + v
      <3>1. "twin" \notin LunMaps  BY DEF LunMaps
      <3>2. "twin" # "wr" /\ "twin" # "rd" /\ "twin" # "er"  OBVIOUS
      <3> QED  BY Zenon, <1>3, <3>1, <3>2, RequestParts
    <2>2. k \in Nat \ {0} /\ x[3] \in 0..(k - 1) /\ y[3] \in 0..(k - 1)  BY <2>1, Strides
    <2>3. u \in Nat /\ u < m /\ v \in Nat /\ v < m /\ m \in Nat  BY <2>1, <2>2, InStride
    <2>4. BitOf(x) = HeadBase(x[4]) + u /\ BitOf(y) = HeadBase(y[4]) + v  BY <2>1
    <2>5. HeadBase(0) = 0 /\ HeadBase(1) = m
      <3>1. Geo.luns * Geo.sib = m  BY Strides
      <3> HIDE DEF m
      <3>2. m = 64 * (m \div 64)  BY <1>3, <2>3, <3>1
      <3> QED  BY <3>1, <3>2 DEF HeadBase
    <2>6. x[4] = y[4] /\ u = v
      <3> DEFINE g == HeadBase(x[4])
                 h == HeadBase(y[4])
      <3>1. g \in {0, m} /\ h \in {0, m} /\ g + u = h + v  BY <2>1, <2>4, <2>5
      <3>2. g = h => x[4] = y[4]  BY <2>1, <2>3, <2>5
      <3> HIDE DEF g, h, u, v, m
      <3>3. g = h /\ u = v  BY <2>3, <3>1
      <3> QED  BY <3>2, <3>3
    <2>7. x[2] \in Int /\ y[2] \in Int  BY <2>1, Strides
    <2>8. x[2] = y[2] /\ x[3] = y[3]
      <3> HIDE DEF k
      <3> QED  BY SMTT(40), <2>2, <2>6, <2>7, SameBit DEF u, v
    <2> QED  BY <2>1, <2>6, <2>8
  <1> QED  BY <1>1, <1>2, <1>3, RequestParts DEF AddrMaps

-----------------------------------------------------------------------------
(* The invariant: the bits are those of the failures asked for.            *)

\* How far init_err_injection is, and which maps there are.
SetUpInv(s) ==
    /\ s.done => s.state \in {"live", "freed"}
    /\ s.state = "live" => s.done /\ s.bufs = MapNames
    /\ s.state = "init" => s.next \in 1..7 /\ s.bufs = {Maps[i] : i \in 1..(s.next - 1)}

\* The maps hold the failures in A, and none has been touched in vain but
\* after release_err_injection, or beyond the end of a map that is too short.
Ledger(s, A) ==
    /\ DOMAIN s = Fields /\ DOMAIN s.bits = MapNames
    /\ \A m \in MapNames : s.bits[m] = {BitOf(x) : x \in {y \in A : y[1] = m}}
    /\ \A e \in s.stray : e[2] = "freed" \/ e[1] \in Short
    /\ SetUpInv(s)

\* The pair chosen last.
PickInv(s) ==
    s.pick.set => IF Able(s.badluns) THEN Len(s.pick.luns) = 2 /\ s.pick.luns[1] # s.pick.luns[2]
                  ELSE s.pick.luns = None

\* The callers of the raid function have been given luns and sectors.
CallInv(s) == \A c \in Callers : s.who[c].pc # "idle" => s.who[c].lun \in Luns /\ s.who[c].pba \in RdAddrs

MapInv == /\ Ledger(inj, inj.asked) /\ inj.asked \subseteq Requests
          /\ PickInv(inj) /\ CallInv(inj)

\* A mark enters its failure, if the flag is set.
LEMMA MarkEnters ==
  ASSUME NEW s, NEW A, Ledger(s, A), NEW x \in Requests
  PROVE  LET t == Mark(s, x[1], BitOf(x))
         IN  /\ Ledger(t, IF s.done THEN A \cup {x} ELSE A)
             /\ t.done = s.done /\ t.who = s.who /\ t.asked = s.asked
             /\ t.pick = s.pick /\ t.badluns = s.badluns
  <1> DEFINE map == x[1]
             bit == BitOf(x)
             u == Touch(s, map, bit)
  <1>0. map \in MapNames /\ (map \notin Short => bit < SizeInBits(Geo, map))
    BY InsideMap, Zenon
  <1>1. CASE ~s.done
    BY <1>1 DEF Mark
  <1>2. CASE s.done
    <2>0. /\ DOMAIN s = Fields /\ DOMAIN s.bits = MapNames /\ SetUpInv(s)
          /\ \A e \in s.stray : e[2] = "freed" \/ e[1] \in Short
      BY DEF Ledger
    <2>1. \/ u = s
          \/ /\ u = [s EXCEPT !.stray = s.stray \cup {<<map, s.state>>}]
             /\ s.state = "freed" \/ map \in Short
      <3>1. s.state = "freed" \/ map \in s.bufs  BY <1>0, <1>2, <2>0 DEF SetUpInv
      <3> QED  BY <1>0, <3>1 DEF Touch
    <2>2. /\ DOMAIN u = Fields /\ u.bits = s.bits /\ u.done = s.done /\ u.state = s.state
          /\ u.bufs = s.bufs /\ u.next = s.next /\ u.who = s.who /\ u.asked = s.asked
          /\ u.pick = s.pick /\ u.badluns = s.badluns
      BY <2>0, <2>1 DEF Fields
    <2>3. \A e \in u.stray : e[2] = "freed" \/ e[1] \in Short
      <3>1. CASE u = s  BY <2>0, <3>1
      <3>2. CASE /\ u = [s EXCEPT !.stray = s.stray \cup {<<map, s.state>>}]
                 /\ s.state = "freed" \/ map \in Short
        <4>1. u.stray = s.stray \cup {<<map, s.state>>}  BY <2>0, <3>2 DEF Fields
        <4>2. <<map, s.state>>[1] = map /\ <<map, s.state>>[2] = s.state  OBVIOUS
        <4> QED  BY Zenon, <2>0, <3>2, <4>1, <4>2
      <3> QED  BY <2>1, <3>1, <3>2
    <2> DEFINE b == [s.bits EXCEPT ![map] = s.bits[map] \cup {bit}]
    <2>4. Mark(s, map, bit) = [u EXCEPT !.bits = b]
      BY <1>2, <2>2, Zenon DEF Mark
    <2>5. DOMAIN b = MapNames /\ \A m \in MapNames :
             b[m] = {BitOf(z) : z \in {y \in A \cup {x} : y[1] = m}}
      <3>1. ASSUME NEW m \in MapNames, m = map
            PROVE  b[m] = {BitOf(z) : z \in {y \in A \cup {x} : y[1] = m}}
        <4>1. b[m] = s.bits[m] \cup {BitOf(x)}  BY <1>0, <2>0, <3>1
        <4>2. s.bits[m] = {BitOf(z) : z \in {y \in A : y[1] = m}}  BY DEF Ledger
        <4>3. {y \in A \cup {x} : y[1] = m} = {y \in A : y[1] = m} \cup {x}  BY <3>1
        <4> QED  BY <4>1, <4>2, <4>3
      <3>2. ASSUME NEW m \in MapNames, m # map
            PROVE  b[m] = {BitOf(z) : z \in {y \in A \cup {x} : y[1] = m}}
        <4>1. b[m] = s.bits[m]  BY <1>0, <2>0, <3>2
        <4>2. s.bits[m] = {BitOf(z) : z \in {y \in A : y[1] = m}}  BY DEF Ledger
        <4>3. {y \in A \cup {x} : y[1] = m} = {y \in A : y[1] = m}  BY <3>2
        <4> QED  BY <4>1, <4>2, <4>3
      <3> QED  BY <2>0, <3>1, <3>2
    <2> DEFINE t == [u EXCEPT !.bits = b]
    <2> HIDE DEF b, u, bit
    <2>6. /\ DOMAIN t = Fields /\ t.bits = b /\ t.done = s.done /\ t.state = s.state
          /\ t.bufs = s.bufs /\ t.next = s.next /\ t.who = s.who /\ t.asked = s.asked
          /\ t.pick = s.pick /\ t.badluns = s.badluns /\ t.stray = u.stray
      BY <2>2 DEF Fields
    <2> HIDE DEF t
    <2>7. SetUpInv(t)  BY <2>0, <2>6 DEF SetUpInv
    <2>8. Ledger(t, A \cup {x})  BY <2>3, <2>5, <2>6, <2>7 DEF Ledger
    <2>9. Mark(s, x[1], BitOf(x)) = t  BY <2>4 DEF t, bit
    <2> QED  BY <1>2, <2>6, <2>8, <2>9
  <1> QED  BY <1>1, <1>2

\* The ledger depends on the maps and the set-up alone.
LEMMA SameLedger ==
  ASSUME NEW s, NEW t, NEW A, Ledger(s, A), DOMAIN t = Fields, t.bits = s.bits, t.done = s.done,
         t.state = s.state, t.bufs = s.bufs, t.next = s.next, t.stray = s.stray
  PROVE  Ledger(t, A)
  <1>1. SetUpInv(t)  BY DEF Ledger, SetUpInv
  <1> QED  BY <1>1 DEF Ledger

\* Nothing is asked for, marked or chosen before init_err_injection.
LEMMA MapInitInv == InjInit => MapInv
  <1> SUFFICES ASSUME NEW b \in BadSets, NEW k \in BOOLEAN, inj = InjStart(b, k)
               PROVE  MapInv
    BY DEF InjInit
  <1>1. /\ DOMAIN inj = Fields /\ inj.done = FALSE /\ inj.asked = {} /\ inj.stray = {}
        /\ inj.bits = [m \in MapNames |-> {}] /\ inj.who = [c \in Callers |-> Idle]
        /\ inj.state = "init" /\ inj.next = 1 /\ inj.bufs = {} /\ inj.pick.set = FALSE
    BY DEF InjStart, Fields, MapNames
  <1>2. SetUpInv(inj)  BY <1>1 DEF SetUpInv
  <1>3. Ledger(inj, inj.asked)  BY <1>1, <1>2 DEF Ledger
  <1>4. PickInv(inj) /\ CallInv(inj)  BY <1>1 DEF PickInv, CallInv, Idle
  <1> QED  BY <1>1, <1>3, <1>4 DEF MapInv

\* A step that keeps the ledger, the calls and the pair.
LEMMA MapStep ==
  ASSUME MapInv, Ledger(inj', inj'.asked), inj'.asked \subseteq Requests,
         inj'.who = inj.who, inj'.pick = inj.pick, inj'.badluns = inj.badluns
  PROVE  MapInv'
  <1>1. PickInv(inj')  BY DEF MapInv, PickInv
  <1>2. CallInv(inj')  BY DEF MapInv, CallInv
  <1> QED  BY Zenon, <1>1, <1>2 DEF MapInv, Ledger, SetUpInv, PickInv, CallInv, Able

\* init_err_injection and release_err_injection.
LEMMA MapSetupInv ==
  ASSUME MapInv, (\E ok \in BOOLEAN : init_err_injection(ok)) \/ release_err_injection
  PROVE  MapInv'
  <1>0. /\ DOMAIN inj = Fields /\ SetUpInv(inj) /\ Ledger(inj, inj.asked)
        /\ inj.asked \subseteq Requests
    BY DEF MapInv, Ledger
  <1>1. /\ DOMAIN inj' = Fields /\ inj'.bits = inj.bits /\ inj'.who = inj.who
        /\ inj'.asked = inj.asked /\ inj'.stray = inj.stray /\ inj'.pick = inj.pick
        /\ inj'.badluns = inj.badluns
    BY ZenonT(60), <1>0 DEF init_err_injection, release_err_injection, Fields
  <1>2. SetUpInv(inj')
    <2>1. CASE release_err_injection
      BY <1>0, <2>1 DEF release_err_injection, Fields, SetUpInv
    <2>2. ASSUME NEW ok \in BOOLEAN, init_err_injection(ok)  PROVE  SetUpInv(inj')
      <3>0. /\ inj.state = "init" /\ inj.next \in 1..7 /\ ~inj.done
            /\ inj.bufs = {Maps[i] : i \in 1..(inj.next - 1)}
        BY <1>0, <2>2 DEF init_err_injection, SetUpInv
      <3>1. CASE ~ok
        <4>1. inj'.state = "failed" /\ inj'.done = inj.done
          BY <1>0, <2>2, <3>1 DEF init_err_injection, Fields
        <4> QED  BY <3>0, <4>1 DEF SetUpInv
      <3>2. CASE ok
        <4>1. /\ inj'.done = (inj.next = 7) /\ inj'.next = inj.next + 1
              /\ inj'.bufs = inj.bufs \cup {Maps[inj.next]}
              /\ inj'.state = IF inj.next = 7 THEN "live" ELSE inj.state
          BY <1>0, <2>2, <3>2 DEF init_err_injection, Fields
        <4> DEFINE n == inj.next
        <4>2. inj'.bufs = {Maps[i] : i \in 1..n}
          <5>1. 1..n = 1..(n - 1) \cup {n}  BY <3>0
          <5> QED  BY <3>0, <4>1, <5>1
        <4>3. CASE n = 7  BY <3>0, <4>1, <4>2, <4>3 DEF SetUpInv, MapNames
        <4>4. CASE n # 7
          <5>1. n + 1 \in 1..7 /\ (n + 1) - 1 = n  BY <3>0, <4>4
          <5>2. inj'.state = "init" /\ ~inj'.done /\ inj'.next \in 1..7 /\ inj'.next - 1 = n
            BY Zenon, <3>0, <4>1, <4>4, <5>1
          <5> QED  BY Zenon, <4>2, <5>2 DEF SetUpInv
        <4> QED  BY <4>3, <4>4
      <3> QED  BY <3>1, <3>2
    <2> QED  BY <2>1, <2>2
  <1>3. Ledger(inj', inj'.asked)  BY <1>0, <1>1, <1>2 DEF Ledger
  <1> QED  BY <1>0, <1>1, <1>3, MapStep

\* A mark of another thread.
LEMMA MapMarkInv ==
  ASSUME MapInv, NEW lun \in Luns, MarkOne(lun)
  PROVE  MapInv'
  <1>0. Ledger(inj, inj.asked) /\ inj.asked \subseteq Requests  BY DEF MapInv
  <1>1. PICK x \in Requests : inj' = Ask(Mark(inj, x[1], BitOf(x)), x)
    <2>1. ASSUME NEW m \in LunMaps, inj' = Ask(Mark(inj, m, lun), <<m, lun, 0>>)
          PROVE  \E x \in Requests : inj' = Ask(Mark(inj, x[1], BitOf(x)), x)
      <3> DEFINE x == <<m, lun, 0>>
      <3>1. x \in Requests /\ x[1] = m /\ x[2] = lun  BY DEF Requests
      <3>2. BitOf(x) = lun  BY <3>1, RequestParts DEF LunMaps
      <3> QED  BY <2>1, <3>1, <3>2
    <2>2. ASSUME NEW m, NEW a, <<m, lun, a>> \in Requests,
                 inj' = Ask(Mark(inj, m, BitOf(<<m, lun, a>>)), <<m, lun, a>>)
          PROVE  \E x \in Requests : inj' = Ask(Mark(inj, x[1], BitOf(x)), x)
      <3> DEFINE x == <<m, lun, a>>
      <3>1. x[1] = m  OBVIOUS
      <3> QED  BY <2>2, <3>1
    <2>3. {"bad", "timeout", "rdbad"} = LunMaps  BY DEF LunMaps
    <2>4. ASSUME NEW m \in {"bad", "timeout", "rdbad"}, inj' = Ask(Mark(inj, m, lun), <<m, lun, 0>>)
          PROVE  \E x \in Requests : inj' = Ask(Mark(inj, x[1], BitOf(x)), x)
      BY Zenon, <2>1, <2>3, <2>4
    <2>5. ASSUME NEW a \in WrAddrs, inj' = Ask(mark_fake_wr_bad_lunppa(inj, lun, a), <<"wr", lun, a>>)
          PROVE  \E x \in Requests : inj' = Ask(Mark(inj, x[1], BitOf(x)), x)
      <3>1. BitOf(<<"wr", lun, a>>) = WrOffset(Geo, lun, a)  BY DEF BitOf, LunMaps
      <3>2. <<"wr", lun, a>> \in Requests
        <4>1. a \in 0..(WrStride - 1)  BY AddrRanges
        <4> QED  BY <4>1 DEF Requests
      <3>3. inj' = Ask(Mark(inj, "wr", BitOf(<<"wr", lun, a>>)), <<"wr", lun, a>>)
        BY Zenon, <2>5, <3>1 DEF mark_fake_wr_bad_lunppa
      <3> QED  BY Zenon, <2>2, <3>2, <3>3
    <2>6. ASSUME NEW a \in RdAddrs, inj' = Ask(mark_fake_rd_bad_lunpba(inj, lun, a), <<"rd", lun, a>>)
          PROVE  \E x \in Requests : inj' = Ask(Mark(inj, x[1], BitOf(x)), x)
      <3>1. BitOf(<<"rd", lun, a>>) = RdOffset(Geo, lun, a)  BY DEF BitOf, LunMaps
      <3>2. <<"rd", lun, a>> \in Requests
        <4>1. a \in 0..(RdStride - 1)  BY AddrRanges
        <4> QED  BY <4>1 DEF Requests
      <3>3. inj' = Ask(Mark(inj, "rd", BitOf(<<"rd", lun, a>>)), <<"rd", lun, a>>)
        BY Zenon, <2>6, <3>1 DEF mark_fake_rd_bad_lunpba
      <3> QED  BY Zenon, <2>2, <3>2, <3>3
    <2>7. ASSUME NEW a \in ErAddrs, inj' = Ask(mark_fake_er_bad_block(inj, lun, a), <<"er", lun, a>>)
          PROVE  \E x \in Requests : inj' = Ask(Mark(inj, x[1], BitOf(x)), x)
      <3>1. BitOf(<<"er", lun, a>>) = ErOffset(Geo, lun, a)  BY DEF BitOf, LunMaps
      <3>2. <<"er", lun, a>> \in Requests
        <4>1. a \in 0..(Geo.eblocks - 1)  BY AddrRanges
        <4> QED  BY <4>1 DEF Requests
      <3>3. inj' = Ask(Mark(inj, "er", BitOf(<<"er", lun, a>>)), <<"er", lun, a>>)
        BY Zenon, <2>7, <3>1 DEF mark_fake_er_bad_block
      <3> QED  BY Zenon, <2>2, <3>2, <3>3
    <2> QED
      BY Zenon, <2>4, <2>5, <2>6, <2>7
         DEF MarkOne, mark_fake_bad_lun, mark_fake_cmd_timeout_lun, mark_fake_rd_bad_lun
  <1> DEFINE t == Mark(inj, x[1], BitOf(x))
             A == IF inj.done THEN inj.asked \cup {x} ELSE inj.asked
  <1>2. /\ Ledger(t, A) /\ t.who = inj.who /\ t.pick = inj.pick /\ t.badluns = inj.badluns
        /\ t.asked = inj.asked
    BY <1>0, MarkEnters
  <1> HIDE DEF t
  <1>3. inj' = [t EXCEPT !.marks = t.marks + 1, !.asked = IF inj.done THEN t.asked \cup {x} ELSE t.asked]
    BY <1>1 DEF Ask, t
  <1>4. DOMAIN t = Fields  BY <1>2 DEF Ledger
  <1>5. /\ DOMAIN inj' = Fields /\ inj'.bits = t.bits /\ inj'.done = t.done /\ inj'.state = t.state
        /\ inj'.bufs = t.bufs /\ inj'.next = t.next /\ inj'.stray = t.stray /\ inj'.who = inj.who
        /\ inj'.pick = inj.pick /\ inj'.badluns = inj.badluns /\ inj'.asked = A
    BY <1>2, <1>3, <1>4 DEF Fields
  <1>6. A \subseteq Requests  BY <1>0
  <1> HIDE DEF A
  <1>7. Ledger(inj', A)  BY <1>2, <1>5, SameLedger
  <1> QED  BY <1>5, <1>6, <1>7, MapStep

\* The pair is chosen and marked.
LEMMA MapTwinInv ==
  ASSUME MapInv, NEW g \in Groups, NEW o1 \in 0..(Geo.group - 1),
         NEW o2 \in 0..(Geo.group - 1), NEW a \in TwinAddrs, NEW h \in {0, 1},
         update_fake_pattern(g, o1, o2, a, h)
  PROVE  MapInv'
  <1> DEFINE p == TwinPick(inj, g, o1, o2)
             x == <<"twin", p[1], a, h>>
             y == <<"twin", p[2], a, h>>
             r == mark_fake_twin_rd_bad_lunpba(inj, p[1], a, h)
             t == mark_fake_twin_rd_bad_lunpba(r, p[2], a, h)
             s == IF p = None THEN inj ELSE t
             A == IF inj.done /\ p # None THEN inj.asked \cup {x, y} ELSE inj.asked
  <1>0. /\ Ledger(inj, inj.asked) /\ inj.asked \subseteq Requests /\ CallInv(inj)
    BY DEF MapInv
  <1>1. IF Able(inj.badluns)
        THEN Len(p) = 2 /\ p[1] # p[2] /\ p[1] \in Luns /\ p[2] \in Luns
        ELSE p = None
    BY TwinPickFinds, Zenon
  <1>2. inj' = [s EXCEPT !.marks = s.marks + 1, !.pick = [set |-> TRUE, luns |-> p],
                         !.asked = IF inj.done /\ p # None THEN s.asked \cup {x, y} ELSE s.asked]
    BY Zenon DEF update_fake_pattern
  <1> HIDE DEF p
  <1>3. /\ Ledger(s, A) /\ A \subseteq Requests
        /\ s.who = inj.who /\ s.badluns = inj.badluns /\ s.asked = inj.asked /\ s.done = inj.done
    <2>1. CASE p = None  BY <1>0, <2>1
    <2>2. CASE p # None
      <3>1. p[1] \in Luns /\ p[2] \in Luns  BY <1>1, <2>2
      <3>2. x \in Requests /\ y \in Requests
        <4>1. a \in 0..(Geo.sib - 1)  BY AddrRanges
        <4> QED  BY <3>1, <4>1 DEF Requests
      <3>3. /\ BitOf(x) = TwinOffset(Geo, p[1], a, h) /\ x[1] = "twin"
            /\ BitOf(y) = TwinOffset(Geo, p[2], a, h) /\ y[1] = "twin"
        BY DEF BitOf, LunMaps
      <3>4. r = Mark(inj, x[1], BitOf(x)) /\ t = Mark(r, y[1], BitOf(y))
        BY <3>3, Zenon DEF mark_fake_twin_rd_bad_lunpba
      <3> DEFINE B == IF inj.done THEN inj.asked \cup {x} ELSE inj.asked
                 C == IF inj.done THEN B \cup {y} ELSE B
      <3>5. B \subseteq Requests /\ C \subseteq Requests /\ C = A  BY <1>0, <2>2, <3>2
      <3> HIDE DEF r, t, x, y, A, B
      <3>6. /\ Ledger(r, B) /\ r.done = inj.done /\ r.who = inj.who /\ r.asked = inj.asked
            /\ r.badluns = inj.badluns
        BY <1>0, <3>2, <3>4, MarkEnters, Zenon DEF B
      <3>7. /\ Ledger(t, C) /\ t.done = inj.done /\ t.who = inj.who /\ t.asked = inj.asked
            /\ t.badluns = inj.badluns
        <4>1. /\ Ledger(t, IF r.done THEN B \cup {y} ELSE B) /\ t.done = r.done /\ t.who = r.who
              /\ t.asked = r.asked /\ t.badluns = r.badluns
          BY <3>2, <3>4, <3>6, MarkEnters, Zenon
        <4> QED  BY <3>6, <4>1
      <3> HIDE DEF C
      <3> QED  BY <2>2, <3>5, <3>7
    <2> QED  BY <2>1, <2>2
  <1> HIDE DEF s, x, y
  <1>4. DOMAIN s = Fields  BY <1>3 DEF Ledger
  <1> DEFINE z == IF inj.done /\ p # None THEN s.asked \cup {x, y} ELSE s.asked
             k == [set |-> TRUE, luns |-> p]
  <1>5. inj' = [s EXCEPT !.marks = s.marks + 1, !.pick = k, !.asked = z] /\ z = A
    BY <1>2, <1>3
  <1>6. k.set = TRUE /\ k.luns = p  OBVIOUS
  <1> HIDE DEF z, A, k
  <1>7. /\ DOMAIN inj' = Fields /\ inj'.bits = s.bits /\ inj'.done = s.done /\ inj'.state = s.state
        /\ inj'.bufs = s.bufs /\ inj'.next = s.next /\ inj'.stray = s.stray /\ inj'.who = s.who
        /\ inj'.badluns = s.badluns /\ inj'.pick = k /\ inj'.asked = z
    BY <1>4, <1>5 DEF Fields
  <1>8. Ledger(inj', A)  BY <1>3, <1>7, SameLedger
  <1>9. PickInv(inj')
    <2>1. inj'.badluns = inj.badluns /\ inj'.pick.luns = p  BY <1>3, <1>6, <1>7
    <2> QED  BY <1>1, <2>1 DEF PickInv
  <1>10. CallInv(inj')  BY <1>0, <1>3, <1>7 DEF CallInv
  <1>11. Ledger(inj', inj'.asked) /\ inj'.asked \subseteq Requests  BY <1>3, <1>5, <1>7, <1>8
  <1> QED
    BY Zenon, <1>9, <1>10, <1>11 DEF MapInv, Ledger, SetUpInv, PickInv, CallInv, Able

\* The steps of the raid function: a call that begins, looks, or marks.
LEMMA MapRaidInv ==
  ASSUME RaidInv, MapInv, NEW c \in Callers,
         \/ \E lun \in Luns, pba \in RdAddrs : RaidBegin(c, lun, pba)
         \/ RaidLook(c) \/ RaidMark(c)
  PROVE  MapInv'
  <1>0. /\ Ledger(inj, inj.asked) /\ inj.asked \subseteq Requests /\ CallInv(inj) /\ PickInv(inj)
        /\ DOMAIN inj = Fields /\ inj.who \in [Callers -> Calls]
    BY DEF MapInv, RaidInv, Shape
  <1> DEFINE Goes(w) ==
               /\ w.pc # "idle" => w.lun \in Luns /\ w.pba \in RdAddrs
               /\ inj'.who = [inj.who EXCEPT ![c] = w]
  <1>1. ASSUME NEW w, Goes(w), Ledger(inj', inj'.asked), inj'.asked \subseteq Requests,
               inj'.pick = inj.pick, inj'.badluns = inj.badluns
        PROVE  MapInv'
    <2>1. \A d \in Callers : inj'.who[d] = IF d = c THEN w ELSE inj.who[d]  BY <1>0, <1>1
    <2>2. CallInv(inj')  BY <1>0, <1>1, <2>1 DEF CallInv
    <2>3. PickInv(inj')  BY <1>0, <1>1 DEF PickInv
    <2> QED
      BY Zenon, <1>1, <2>2, <2>3 DEF MapInv, Ledger, SetUpInv, PickInv, CallInv, Able
  <1>2. ASSUME NEW w, Goes(w), inj'.asked = inj.asked, DOMAIN inj' = Fields, inj'.bits = inj.bits,
               inj'.done = inj.done, inj'.state = inj.state, inj'.bufs = inj.bufs,
               inj'.next = inj.next, inj'.stray = inj.stray, inj'.pick = inj.pick,
               inj'.badluns = inj.badluns
        PROVE  MapInv'
    <2>1. Ledger(inj', inj.asked)  BY <1>0, <1>2, SameLedger
    <2> QED  BY <1>0, <1>1, <1>2, <2>1
  <1> HIDE DEF Goes
  <1>3. ASSUME NEW lun \in Luns, NEW pba \in RdAddrs, RaidBegin(c, lun, pba)  PROVE  MapInv'
    <2> DEFINE w == [pc |-> "look", lun |-> lun, pba |-> pba, at |-> GroupOf(lun) * Geo.group]
               met == inj.met \cup {<<GroupOf(lun), pba>> : d \in {e \in Callers :
                        /\ inj.who[e].pc # "idle" /\ inj.who[e].pba = pba
                        /\ GroupOf(inj.who[e].lun) = GroupOf(lun)}}
    <2>1. inj' = [inj EXCEPT !.marks = inj.marks + 1,
                             !.who = [inj.who EXCEPT ![c] = w], !.met = met]
      BY Zenon, <1>3 DEF RaidBegin
    <2>2. w.lun = lun /\ w.pba = pba  OBVIOUS
    <2> HIDE DEF w, met
    <2>3. /\ DOMAIN inj' = Fields /\ inj'.who = [inj.who EXCEPT ![c] = w]
          /\ inj'.asked = inj.asked /\ inj'.bits = inj.bits
          /\ inj'.done = inj.done /\ inj'.state = inj.state /\ inj'.bufs = inj.bufs
          /\ inj'.next = inj.next /\ inj'.stray = inj.stray /\ inj'.pick = inj.pick
          /\ inj'.badluns = inj.badluns
      BY <1>0, <2>1 DEF Fields
    <2>4. Goes(w)  BY <2>2, <2>3 DEF Goes
    <2> QED  BY <1>2, <2>3, <2>4, Zenon
  <1>4. ASSUME RaidLook(c)  PROVE  MapInv'
    <2>1. PICK w : /\ inj' = [inj EXCEPT !.who = [inj.who EXCEPT ![c] = w]]
                   /\ w.pc # "idle" => inj.who[c].pc # "idle" /\ w.lun = inj.who[c].lun
                                       /\ w.pba = inj.who[c].pba
      <3> DEFINE v == inj.who[c]
      <3>0. v \in Calls /\ v.pc = "look"  BY <1>0, <1>4 DEF RaidLook
      <3>1. \/ inj' = [inj EXCEPT !.who = [inj.who EXCEPT ![c] = Idle]]
            \/ inj' = [inj EXCEPT !.who = [inj.who EXCEPT ![c] = [v EXCEPT !.at = v.at + 1]]]
            \/ inj' = [inj EXCEPT !.who = [inj.who EXCEPT ![c] = [v EXCEPT !.pc = "mark"]]]
        BY Zenon, <1>4 DEF RaidLook
      <3>2. Idle.pc = "idle"  BY DEF Idle
      <3>3. /\ [v EXCEPT !.at = v.at + 1].lun = v.lun /\ [v EXCEPT !.at = v.at + 1].pba = v.pba
            /\ [v EXCEPT !.pc = "mark"].lun = v.lun /\ [v EXCEPT !.pc = "mark"].pba = v.pba
        BY <3>0 DEF Calls
      <3> QED  BY Zenon, <3>0, <3>1, <3>2, <3>3
    <2>2. w.pc # "idle" => w.lun \in Luns /\ w.pba \in RdAddrs  BY <1>0, <2>1 DEF CallInv
    <2>3. /\ DOMAIN inj' = Fields /\ inj'.who = [inj.who EXCEPT ![c] = w]
          /\ inj'.asked = inj.asked /\ inj'.bits = inj.bits
          /\ inj'.done = inj.done /\ inj'.state = inj.state /\ inj'.bufs = inj.bufs
          /\ inj'.next = inj.next /\ inj'.stray = inj.stray /\ inj'.pick = inj.pick
          /\ inj'.badluns = inj.badluns
      BY <1>0, <2>1 DEF Fields
    <2> QED  BY <1>2, <2>2, <2>3 DEF Goes
  <1>5. ASSUME RaidMark(c)  PROVE  MapInv'
    <2> DEFINE v == inj.who[c]
               x == <<"rd", v.lun, v.pba>>
               t == mark_fake_rd_bad_lunpba(inj, v.lun, v.pba)
               A == IF inj.done THEN inj.asked \cup {x} ELSE inj.asked
    <2>1. v.lun \in Luns /\ v.pba \in RdAddrs  BY <1>0, <1>5 DEF RaidMark, CallInv
    <2>2. x \in Requests /\ x[1] = "rd"
      <3>1. v.pba \in 0..(RdStride - 1)  BY <2>1, AddrRanges
      <3> QED  BY <2>1, <3>1 DEF Requests
    <2>3. BitOf(x) = RdOffset(Geo, v.lun, v.pba)  BY DEF BitOf, LunMaps
    <2>4. t = Mark(inj, x[1], BitOf(x))  BY <2>2, <2>3, Zenon DEF mark_fake_rd_bad_lunpba
    <2> DEFINE m == IF inj.done THEN t.raided \cup {<<v.lun, v.pba>>} ELSE t.raided
    <2>5. inj' = [t EXCEPT !.who = [t.who EXCEPT ![c] = Idle], !.raided = m,
                     !.asked = IF inj.done THEN t.asked \cup {x} ELSE t.asked]
      BY Zenon, <1>5 DEF RaidMark
    <2> HIDE DEF m
    <2> HIDE DEF t, x
    <2>6. /\ Ledger(t, A) /\ t.who = inj.who /\ t.asked = inj.asked /\ t.pick = inj.pick
          /\ t.badluns = inj.badluns
      BY <1>0, <2>2, <2>4, MarkEnters, Zenon
    <2>7. DOMAIN t = Fields /\ A \subseteq Requests  BY <1>0, <2>2, <2>6 DEF Ledger
    <2>8. inj' = [t EXCEPT !.who = [inj.who EXCEPT ![c] = Idle], !.raided = m, !.asked = A]
      BY <2>5, <2>6
    <2> HIDE DEF A
    <2>9. /\ DOMAIN inj' = Fields /\ inj'.who = [inj.who EXCEPT ![c] = Idle]
          /\ inj'.asked = A /\ inj'.bits = t.bits
          /\ inj'.done = t.done /\ inj'.state = t.state /\ inj'.bufs = t.bufs
          /\ inj'.next = t.next /\ inj'.stray = t.stray /\ inj'.pick = inj.pick
          /\ inj'.badluns = inj.badluns
      BY <2>6, <2>7, <2>8 DEF Fields
    <2>10. Ledger(inj', A)  BY <2>6, <2>9, SameLedger
    <2>11. Idle.pc = "idle"  BY DEF Idle
    <2> QED  BY <1>1, <2>7, <2>9, <2>10, <2>11 DEF Goes
  <1> QED  BY <1>3, <1>4, <1>5

-----------------------------------------------------------------------------
(* The results.                                                            *)

\* A mark leaves the pair and the excluded luns alone.
LEMMA MarkKeepsPick ==
  ASSUME NEW s, DOMAIN s = Fields, NEW map, NEW bit
  PROVE  LET t == Mark(s, map, bit)
         IN  DOMAIN t = Fields /\ t.pick = s.pick /\ t.badluns = s.badluns
  <1> DEFINE u == Touch(s, map, bit)
             b == [u.bits EXCEPT ![map] = u.bits[map] \cup {bit}]
  <1>1. DOMAIN u = Fields /\ u.pick = s.pick /\ u.badluns = s.badluns  BY DEF Touch, Fields
  <1>2. Mark(s, map, bit) = IF ~s.done THEN s ELSE [u EXCEPT !.bits = b]  BY Zenon DEF Mark
  <1> HIDE DEF u, b
  <1> QED  BY <1>1, <1>2 DEF Fields

\* Only update_fake_pattern chooses a pair, and nothing changes the luns that
\* the super block excludes.
LEMMA PickStep ==
  ASSUME RaidInv, PickInv(inj), InjNext
  PROVE  PickInv(inj')
  <1>0. DOMAIN inj = Fields  BY DEF RaidInv, Shape
  <1> DEFINE Kept(t) == DOMAIN t = Fields /\ t.pick = inj.pick /\ t.badluns = inj.badluns
  <1>k. Kept(inj)  BY <1>0
  <1>m. ASSUME NEW t, Kept(t), NEW map, NEW bit  PROVE  Kept(Mark(t, map, bit))
    BY <1>m, MarkKeepsPick
  <1>1. Kept(inj') => PickInv(inj')  BY DEF PickInv
  <1>2. ASSUME (\E ok \in BOOLEAN : init_err_injection(ok)) \/ release_err_injection
        PROVE  Kept(inj')
    BY ZenonT(60), <1>0, <1>2 DEF init_err_injection, release_err_injection, Fields
  <1>3. ASSUME NEW lun \in Luns, MarkOne(lun)  PROVE  Kept(inj')
    <2>1. PICK map, bit, q : inj' = Ask(Mark(inj, map, bit), q)
      BY <1>3 DEF MarkOne, mark_fake_bad_lun, mark_fake_cmd_timeout_lun,
         mark_fake_rd_bad_lun, mark_fake_wr_bad_lunppa, mark_fake_rd_bad_lunpba,
         mark_fake_er_bad_block
    <2> DEFINE t == Mark(inj, map, bit)
    <2>2. Kept(t)  BY <1>m, <1>k
    <2> HIDE DEF t
    <2>3. inj' = Ask(t, q)  BY <2>1 DEF t
    <2> QED  BY <2>2, <2>3 DEF Ask, Fields
  <1>4. ASSUME NEW c \in Callers, NEW lun \in Luns, NEW a \in RdAddrs, RaidBegin(c, lun, a)
        PROVE  Kept(inj')
    BY ZenonT(30), <1>0, <1>4 DEF RaidBegin, Fields
  <1>5. ASSUME NEW c \in Callers, RaidLook(c)  PROVE  Kept(inj')
    BY ZenonT(30), <1>0, <1>5 DEF RaidLook, Fields
  <1>6. ASSUME NEW c \in Callers, RaidMark(c)  PROVE  Kept(inj')
    <2> DEFINE v == inj.who[c]
               t == mark_fake_rd_bad_lunpba(inj, v.lun, v.pba)
               m == IF inj.done THEN t.raided \cup {<<v.lun, v.pba>>} ELSE t.raided
               A == IF inj.done THEN t.asked \cup {<<"rd", v.lun, v.pba>>} ELSE t.asked
    <2>1. Kept(t)  BY <1>k, <1>m, Zenon DEF mark_fake_rd_bad_lunpba
    <2>2. inj' = [t EXCEPT !.who = [t.who EXCEPT ![c] = Idle], !.raided = m, !.asked = A]
      BY Zenon, <1>6 DEF RaidMark
    <2> HIDE DEF t, m, A
    <2> QED  BY <2>1, <2>2 DEF Fields
  <1>7. ASSUME NEW g \in Groups, NEW o1 \in 0..(Geo.group - 1), NEW o2 \in 0..(Geo.group - 1),
               NEW a \in TwinAddrs, NEW h \in {0, 1}, update_fake_pattern(g, o1, o2, a, h)
        PROVE  PickInv(inj')
    <2> DEFINE p == TwinPick(inj, g, o1, o2)
               t == mark_fake_twin_rd_bad_lunpba(
                        mark_fake_twin_rd_bad_lunpba(inj, p[1], a, h), p[2], a, h)
               s == IF p = None THEN inj ELSE t
               k == [set |-> TRUE, luns |-> p]
               z == IF inj.done /\ p # None
                    THEN s.asked \cup {<<"twin", p[1], a, h>>, <<"twin", p[2], a, h>>}
                    ELSE s.asked
    <2>1. IF Able(inj.badluns) THEN Len(p) = 2 /\ p[1] # p[2] ELSE p = None
      BY TwinPickFinds, Zenon
    <2>2. Kept(t)
      <3> HIDE DEF Kept, p
      <3>1. \A u, lun : Kept(u) => Kept(mark_fake_twin_rd_bad_lunpba(u, lun, a, h))
        BY Zenon, <1>m DEF mark_fake_twin_rd_bad_lunpba
      <3> QED  BY Zenon, <1>k, <3>1
    <2>3. inj' = [s EXCEPT !.marks = s.marks + 1, !.pick = k, !.asked = z]
      BY Zenon, <1>7 DEF update_fake_pattern
    <2>4. k.luns = p  OBVIOUS
    <2> HIDE DEF p, t, k
    <2>5. Kept(s)  BY <1>k, <2>2
    <2> HIDE DEF s, z
    <2>6. inj'.pick = k /\ inj'.badluns = inj.badluns  BY <2>3, <2>5 DEF Fields
    <2> QED  BY <2>1, <2>4, <2>6 DEF PickInv
  <1> HIDE DEF Kept
  <1> QED  BY <1>1, <1>2, <1>3, <1>4, <1>5, <1>6, <1>7 DEF InjNext

\* Wherever the random walks of update_fake_pattern begin, and whichever luns
\* the super block excludes, it chooses two different luns whenever some group
\* has two, and none otherwise; and the raid function marks one lun of a group,
\* but for calls that overlap.
THEOREM PairsAreFound == InjSpec => []RaidGroupMarks
  <1> DEFINE Inv == RaidInv /\ PickInv(inj)
  <1>1. InjInit => Inv  BY RaidInitInv, MapInitInv DEF MapInv
  <1>2. Inv /\ [InjNext]_inj => Inv'
    <2> SUFFICES ASSUME Inv, [InjNext]_inj  PROVE  Inv'
      OBVIOUS
    <2>1. RaidInv'  BY RaidInductive
    <2>2. PickInv(inj')
      <3>1. CASE InjNext  BY <3>1, PickStep
      <3>2. CASE UNCHANGED inj  BY <3>2 DEF PickInv
      <3> QED  BY <3>1, <3>2
    <2> QED  BY Zenon, <2>1, <2>2 DEF PickInv, Able
  <1>3. Inv => RaidGroupMarks  BY Zenon DEF RaidInv, PickInv, Able, RaidGroupMarks
  <1> QED  BY <1>1, <1>2, <1>3, PTL DEF InjSpec

\* Every step keeps the maps true to what was asked for.
LEMMA MapInductive ==
  ASSUME RaidInv, MapInv, [InjNext]_inj
  PROVE  MapInv'
  <1>1. CASE UNCHANGED inj
    BY Zenon, <1>1 DEF MapInv, Ledger, SetUpInv, PickInv, CallInv, Able
  <1> QED  BY <1>1, MapSetupInv, MapMarkInv, MapTwinInv, MapRaidInv DEF InjNext

\* A bit is set exactly if its failure was asked for.
LEMMA BitAsked ==
  ASSUME MapInv, inj.done, NEW x \in Requests,
         x[1] = "twin" => (Geo.luns * Geo.sib) % 64 = 0
  PROVE  Test(inj, x[1], BitOf(x)) <=> x \in inj.asked
  <1> DEFINE m == x[1]
  <1>1. m \in MapNames  BY InsideMap
  <1>2. inj.bits[m] = {BitOf(y) : y \in {z \in inj.asked : z[1] = m}}  BY <1>1 DEF MapInv, Ledger
  <1>3. ASSUME NEW y \in inj.asked, y[1] = m, BitOf(y) = BitOf(x)  PROVE  y = x
    <2>1. y \in Requests  BY DEF MapInv
    <2> QED  BY <1>3, <2>1, ToldApart, Zenon
  <1> QED  BY <1>2, <1>3 DEF Test

\* Truth values that agree are equal.
LEMMA SameTruth ==
  ASSUME NEW P \in BOOLEAN, NEW Q \in BOOLEAN, P <=> Q
  PROVE  P = Q
  BY Zenon

\* The bits of a lun at the offsets of shannon_err_injection.c, while the maps
\* are there.
LEMMA BitsOfLun ==
  ASSUME MapInv, inj.done, NEW lun \in Luns
  PROVE  /\ Test(inj, "bad", lun) <=> <<"bad", lun, 0>> \in inj.asked
         /\ Test(inj, "timeout", lun) <=> <<"timeout", lun, 0>> \in inj.asked
         /\ Test(inj, "rdbad", lun) <=> <<"rdbad", lun, 0>> \in inj.asked
         /\ \A a \in WrAddrs : Test(inj, "wr", WrOffset(Geo, lun, a)) <=> <<"wr", lun, a>> \in inj.asked
         /\ \A a \in RdAddrs : Test(inj, "rd", RdOffset(Geo, lun, a)) <=> <<"rd", lun, a>> \in inj.asked
         /\ \A a \in ErAddrs : Test(inj, "er", ErOffset(Geo, lun, a)) <=> <<"er", lun, a>> \in inj.asked
         /\ (Geo.luns * Geo.sib) % 64 = 0 => \A a \in RdAddrs, h \in {0, 1} :
               Test(inj, "twin", TwinOffset(Geo, lun, a, h)) <=> <<"twin", lun, a % Geo.sib, h>> \in inj.asked
  <1>1. ASSUME NEW m \in LunMaps  PROVE  Test(inj, m, lun) <=> <<m, lun, 0>> \in inj.asked
    <2> DEFINE x == <<m, lun, 0>>
    <2>1. x \in Requests /\ x[1] = m /\ x[2] = lun /\ m # "twin"  BY DEF Requests, LunMaps
    <2>2. BitOf(x) = lun  BY <2>1, RequestParts DEF LunMaps
    <2> HIDE DEF x
    <2>3. Test(inj, m, lun) <=> x \in inj.asked  BY <2>1, <2>2, BitAsked
    <2> QED  BY <2>3 DEF x
  <1>2. ASSUME NEW m, m # "twin", NEW a, <<m, lun, a>> \in Requests
        PROVE  Test(inj, m, BitOf(<<m, lun, a>>)) <=> <<m, lun, a>> \in inj.asked
    <2> DEFINE x == <<m, lun, a>>
    <2>1. x \in Requests /\ x[1] = m  BY <1>2
    <2> HIDE DEF x
    <2>2. Test(inj, m, BitOf(x)) <=> x \in inj.asked  BY <1>2, <2>1, BitAsked
    <2> QED  BY <2>2 DEF x
  <1>3. ASSUME NEW a \in WrAddrs
        PROVE  Test(inj, "wr", WrOffset(Geo, lun, a)) <=> <<"wr", lun, a>> \in inj.asked
    <2>1. a \in 0..(WrStride - 1)  BY AddrRanges
    <2>2. <<"wr", lun, a>> \in Requests  BY <2>1 DEF Requests
    <2>3. BitOf(<<"wr", lun, a>>) = WrOffset(Geo, lun, a)  BY DEF BitOf, LunMaps
    <2>4. "wr" # "twin"  OBVIOUS
    <2> QED  BY Zenon, <1>2, <2>2, <2>3, <2>4
  <1>4. ASSUME NEW a \in RdAddrs
        PROVE  Test(inj, "rd", RdOffset(Geo, lun, a)) <=> <<"rd", lun, a>> \in inj.asked
    <2>1. a \in 0..(RdStride - 1)  BY AddrRanges
    <2>2. <<"rd", lun, a>> \in Requests  BY <2>1 DEF Requests
    <2>3. BitOf(<<"rd", lun, a>>) = RdOffset(Geo, lun, a)  BY DEF BitOf, LunMaps
    <2>4. "rd" # "twin"  OBVIOUS
    <2> QED  BY Zenon, <1>2, <2>2, <2>3, <2>4
  <1>5. ASSUME NEW a \in ErAddrs
        PROVE  Test(inj, "er", ErOffset(Geo, lun, a)) <=> <<"er", lun, a>> \in inj.asked
    <2>1. a \in 0..(Geo.eblocks - 1)  BY AddrRanges
    <2>2. <<"er", lun, a>> \in Requests  BY <2>1 DEF Requests
    <2>3. BitOf(<<"er", lun, a>>) = ErOffset(Geo, lun, a)  BY DEF BitOf, LunMaps
    <2>4. "er" # "twin"  OBVIOUS
    <2> QED  BY Zenon, <1>2, <2>2, <2>3, <2>4
  <1>6. ASSUME (Geo.luns * Geo.sib) % 64 = 0, NEW a \in RdAddrs, NEW h \in {0, 1}
        PROVE  Test(inj, "twin", TwinOffset(Geo, lun, a, h))
                 <=> <<"twin", lun, a % Geo.sib, h>> \in inj.asked
    <2> DEFINE b == a % Geo.sib
               x == <<"twin", lun, b, h>>
    <2>1. a \in Nat /\ Geo.sib \in Nat \ {0}  BY GeoAssumption, Strides DEF RdAddrs
    <2>2. b \in 0..(Geo.sib - 1)  BY <2>1, DivMod
    <2>3. b % Geo.sib = b
      <3> HIDE DEF b
      <3>1. b \in Nat /\ b = Geo.sib * 0 + b /\ 0 \in Int  BY <2>1, <2>2
      <3> QED  BY <2>1, <2>2, <3>1, DivUnique
    <2>4. TwinOffset(Geo, lun, a, h) = TwinOffset(Geo, lun, b, h)
      BY Zenon, <2>3 DEF TwinOffset
    <2> HIDE DEF b
    <2>5. x \in Requests /\ x[1] = "twin"  BY <2>2 DEF Requests
    <2>6. BitOf(x) = TwinOffset(Geo, lun, b, h)  BY DEF BitOf, LunMaps
    <2> HIDE DEF x
    <2>7. Test(inj, "twin", BitOf(x)) <=> x \in inj.asked  BY <1>6, <2>5, BitAsked
    <2> QED  BY <2>4, <2>6, <2>7 DEF x, b
  <1>7. {"bad", "timeout", "rdbad"} = LunMaps  BY DEF LunMaps
  <1> QED  BY <1>1, <1>3, <1>4, <1>5, <1>6, <1>7

\* The tests of a lun, as OnlyAskedFails has them.
TestsTell(lun) ==
    LET Asked(k, a) == <<k, lun, a>> \in inj.asked
        Lun(k, b) == <<k, lun, 0>> \in inj.asked /\ ~Spared(inj, b)
    IN  /\ is_fake_cmd_timeout_lun(inj, lun) = Asked("timeout", 0)
        /\ \A a \in WrAddrs : is_fake_wr_bad_lunppa(inj, lun, a)
                                = (Asked("wr", a) \/ Lun("bad", a \div Geo.pages))
        /\ \A a \in RdAddrs : is_fake_rd_bad_lunpba(inj, lun, a)
                                = \/ Asked("rd", a)
                                  \/ Lun("bad", (a \div Geo.page) \div Geo.pages)
                                  \/ Lun("rdbad", (a \div Geo.page) \div Geo.pages)
        /\ \A a \in ErAddrs : is_fake_er_bad_block(inj, lun, a)
                                = (Asked("er", a) \/ Lun("bad", a))
        /\ (Geo.luns * Geo.sib) % 64 = 0 => \A a \in RdAddrs, h \in {0, 1} :
              is_fake_twin_rd_bad_lunpba(inj, lun, a, h)
                  = (<<"twin", lun, a % Geo.sib, h>> \in inj.asked)

\* The tests tell what was asked for.
LEMMA TestsAreTrue ==
  ASSUME MapInv, inj.done, NEW lun \in Luns
  PROVE  TestsTell(lun)
  <1>b. /\ Test(inj, "bad", lun) <=> <<"bad", lun, 0>> \in inj.asked
        /\ Test(inj, "timeout", lun) <=> <<"timeout", lun, 0>> \in inj.asked
        /\ Test(inj, "rdbad", lun) <=> <<"rdbad", lun, 0>> \in inj.asked
        /\ \A a \in WrAddrs : Test(inj, "wr", WrOffset(Geo, lun, a)) <=> <<"wr", lun, a>> \in inj.asked
        /\ \A a \in RdAddrs : Test(inj, "rd", RdOffset(Geo, lun, a)) <=> <<"rd", lun, a>> \in inj.asked
        /\ \A a \in ErAddrs : Test(inj, "er", ErOffset(Geo, lun, a)) <=> <<"er", lun, a>> \in inj.asked
        /\ (Geo.luns * Geo.sib) % 64 = 0 => \A a \in RdAddrs, h \in {0, 1} :
              Test(inj, "twin", TwinOffset(Geo, lun, a, h)) <=> <<"twin", lun, a % Geo.sib, h>> \in inj.asked
    BY BitsOfLun, Zenon
  <1>1. ASSUME NEW a \in WrAddrs
        PROVE  is_fake_wr_bad_lunppa(inj, lun, a)
                 = (<<"wr", lun, a>> \in inj.asked
                       \/ (<<"bad", lun, 0>> \in inj.asked /\ ~Spared(inj, a \div Geo.pages)))
    <2> DEFINE P == is_fake_wr_bad_lunppa(inj, lun, a)
               Q == (<<"wr", lun, a>> \in inj.asked
                       \/ (<<"bad", lun, 0>> \in inj.asked /\ ~Spared(inj, a \div Geo.pages)))
    <2>1. P \in BOOLEAN /\ Q \in BOOLEAN  BY DEF is_fake_wr_bad_lunppa, is_fake_bad_lun, Test
    <2>2. P <=> Q  BY Zenon, <1>b DEF is_fake_wr_bad_lunppa, is_fake_bad_lun
    <2> HIDE DEF P, Q
    <2>3. P = Q  BY <2>1, <2>2, SameTruth, Zenon
    <2> QED  BY <2>3, Zenon DEF P, Q
  <1>2. ASSUME NEW a \in RdAddrs
        PROVE  is_fake_rd_bad_lunpba(inj, lun, a)
                 = \/ <<"rd", lun, a>> \in inj.asked
                   \/ <<"bad", lun, 0>> \in inj.asked /\ ~Spared(inj, (a \div Geo.page) \div Geo.pages)
                   \/ <<"rdbad", lun, 0>> \in inj.asked /\ ~Spared(inj, (a \div Geo.page) \div Geo.pages)
    <2> DEFINE b == (a \div Geo.page) \div Geo.pages
               P == is_fake_rd_bad_lunpba(inj, lun, a)
               Q == \/ <<"rd", lun, a>> \in inj.asked
                    \/ <<"bad", lun, 0>> \in inj.asked /\ ~Spared(inj, b)
                    \/ <<"rdbad", lun, 0>> \in inj.asked /\ ~Spared(inj, b)
    <2>1. P \in BOOLEAN /\ Q \in BOOLEAN
      BY DEF is_fake_rd_bad_lunpba, is_fake_bad_lun, is_fake_rd_bad_lun, Test
    <2>2. P <=> Q  BY Zenon, <1>b DEF is_fake_rd_bad_lunpba, is_fake_bad_lun, is_fake_rd_bad_lun
    <2> HIDE DEF P, Q
    <2>3. P = Q  BY <2>1, <2>2, SameTruth, Zenon
    <2> QED  BY <2>3, Zenon DEF P, Q
  <1>3. ASSUME NEW a \in ErAddrs
        PROVE  is_fake_er_bad_block(inj, lun, a)
                 = (<<"er", lun, a>> \in inj.asked
                       \/ (<<"bad", lun, 0>> \in inj.asked /\ ~Spared(inj, a)))
    <2> DEFINE P == is_fake_er_bad_block(inj, lun, a)
               Q == (<<"er", lun, a>> \in inj.asked
                       \/ (<<"bad", lun, 0>> \in inj.asked /\ ~Spared(inj, a)))
    <2>1. P \in BOOLEAN /\ Q \in BOOLEAN  BY DEF is_fake_er_bad_block, is_fake_bad_lun, Test
    <2>2. P <=> Q  BY Zenon, <1>b DEF is_fake_er_bad_block, is_fake_bad_lun
    <2> HIDE DEF P, Q
    <2>3. P = Q  BY <2>1, <2>2, SameTruth, Zenon
    <2> QED  BY <2>3, Zenon DEF P, Q
  <1>4. is_fake_cmd_timeout_lun(inj, lun) = (<<"timeout", lun, 0>> \in inj.asked)
    <2> DEFINE P == is_fake_cmd_timeout_lun(inj, lun)
               Q == (<<"timeout", lun, 0>> \in inj.asked)
    <2>1. P \in BOOLEAN /\ Q \in BOOLEAN  BY DEF is_fake_cmd_timeout_lun, Test
    <2>2. P <=> Q  BY Zenon, <1>b DEF is_fake_cmd_timeout_lun
    <2> HIDE DEF P, Q
    <2>3. P = Q  BY <2>1, <2>2, SameTruth, Zenon
    <2> QED  BY <2>3, Zenon DEF P, Q
  <1>5. ASSUME (Geo.luns * Geo.sib) % 64 = 0, NEW a \in RdAddrs, NEW h \in {0, 1}
        PROVE  is_fake_twin_rd_bad_lunpba(inj, lun, a, h)
                 = (<<"twin", lun, a % Geo.sib, h>> \in inj.asked)
    <2> DEFINE P == is_fake_twin_rd_bad_lunpba(inj, lun, a, h)
               Q == (<<"twin", lun, a % Geo.sib, h>> \in inj.asked)
    <2>1. P \in BOOLEAN /\ Q \in BOOLEAN  BY DEF is_fake_twin_rd_bad_lunpba, Test
    <2>2. P <=> Q  BY Zenon, <1>b, <1>5 DEF is_fake_twin_rd_bad_lunpba
    <2> HIDE DEF P, Q
    <2>3. P = Q  BY <2>1, <2>2, SameTruth, Zenon
    <2> QED  BY <2>3, Zenon DEF P, Q
  <1> QED  BY Zenon, <1>1, <1>2, <1>3, <1>4, <1>5 DEF TestsTell

\* For every geometry: a map is too short only where the number of its failures
\* is no multiple of eight, and only a map of sectors or pages can be.
THEOREM ShortOnlyByRounding ==
  /\ Short \subseteq {"rd", "wr", "twin"}
  /\ "rd" \in Short => (Geo.luns * Geo.sbs * Geo.sib) % 8 # 0
  /\ "wr" \in Short => (Geo.pages * Geo.planes * Geo.sbs * Geo.luns) % 8 # 0
  /\ "twin" \in Short => (Geo.luns * Geo.sib * 2) % 8 # 0
  <1> DEFINE r == Geo.luns * Geo.sbs * Geo.sib
             w == Geo.pages * Geo.planes * Geo.sbs * Geo.luns
             e == Geo.eblocks * Geo.luns
             t == Geo.luns * Geo.sib * 2
  <1>1. r \in Nat /\ w \in Nat /\ e \in Nat /\ t \in Nat /\ Geo.luns \in Nat
    <2>1. \A i, j \in Nat : i * j \in Nat  OBVIOUS
    <2>2. /\ Geo.luns \in Nat /\ Geo.sbs \in Nat /\ Geo.sib \in Nat /\ Geo.pages \in Nat
          /\ Geo.planes \in Nat /\ Geo.eblocks \in Nat /\ 2 \in Nat
      BY Strides
    <2> QED  BY Zenon, <2>1, <2>2
  <1>2. \A m \in Short : SizeInBits(Geo, m) < BitCount(Geo, m)  BY Zenon DEF Short
  <1>3. ASSUME NEW n \in Nat, NEW k \in Nat, n <= k, k < n  PROVE  FALSE
    BY <1>3
  <1>4. ASSUME NEW m \in Short, m \in LunMaps  PROVE  FALSE
    <2>1. SizeInBits(Geo, m) = 8 * (((Geo.luns + 63) \div 64) * 8) /\ BitCount(Geo, m) = Geo.luns
      BY <1>4 DEF SizeInBits, BitCount, LunMaps
    <2>2. Geo.luns <= 8 * (((Geo.luns + 63) \div 64) * 8)  BY <1>1, Rounded
    <2>3. (Geo.luns + 63) \div 64 \in Nat  BY <1>1
    <2> QED  BY <1>1, <1>2, <2>1, <2>2, <2>3
  <1>5. "er" \notin Short
    <2> SUFFICES ASSUME "er" \in Short  PROVE  FALSE
      OBVIOUS
    <2>1. SizeInBits(Geo, "er") = 8 * PageUp((e + 7) \div 8) /\ BitCount(Geo, "er") = e
      BY DEF SizeInBits, BitCount
    <2> HIDE DEF e
    <2>2. e <= 8 * PageUp((e + 7) \div 8) /\ PageUp((e + 7) \div 8) \in Nat
      BY <1>1, Rounded DEF PageUp
    <2> QED  BY <1>1, <1>2, <2>1, <2>2
  <1>6. ASSUME "rd" \in Short  PROVE  r % 8 # 0
    <2>1. SizeInBits(Geo, "rd") = 8 * PageUp(r \div 8) /\ BitCount(Geo, "rd") = r
      BY DEF SizeInBits, BitCount
    <2> HIDE DEF r
    <2>2. (r % 8 = 0 => r <= 8 * PageUp(r \div 8)) /\ PageUp(r \div 8) \in Nat
      BY <1>1, Rounded DEF PageUp
    <2> QED  BY <1>1, <1>2, <1>6, <2>1, <2>2
  <1>7. ASSUME "wr" \in Short  PROVE  w % 8 # 0
    <2>1. SizeInBits(Geo, "wr") = 8 * PageUp(w \div 8) /\ BitCount(Geo, "wr") = w
      BY DEF SizeInBits, BitCount
    <2> HIDE DEF w
    <2>2. (w % 8 = 0 => w <= 8 * PageUp(w \div 8)) /\ PageUp(w \div 8) \in Nat
      BY <1>1, Rounded DEF PageUp
    <2> QED  BY <1>1, <1>2, <1>7, <2>1, <2>2
  <1>8. ASSUME "twin" \in Short  PROVE  t % 8 # 0
    <2>1. SizeInBits(Geo, "twin") = 8 * PageUp(t \div 8) /\ BitCount(Geo, "twin") = t
      BY DEF SizeInBits, BitCount
    <2> HIDE DEF t
    <2>2. (t % 8 = 0 => t <= 8 * PageUp(t \div 8)) /\ PageUp(t \div 8) \in Nat
      BY <1>1, Rounded DEF PageUp
    <2> QED  BY <1>1, <1>2, <1>8, <2>1, <2>2
  <1>9. Short \subseteq {"rd", "wr", "twin"}
    <2>1. MapNames \subseteq LunMaps \cup {"rd", "wr", "er", "twin"}
      <3>1. \A i \in 1..7 : i \in {1, 2, 3, 4, 5, 6, 7}  OBVIOUS
      <3>2. \A i \in {1, 2, 3, 4, 5, 6, 7} : Maps[i] \in LunMaps \cup {"rd", "wr", "er", "twin"}
        BY DEF Maps, LunMaps
      <3> QED  BY Zenon, <3>1, <3>2 DEF MapNames
    <2>2. Short \subseteq MapNames  BY Zenon DEF Short, MapNames
    <2> QED  BY Zenon, <1>4, <1>5, <2>1, <2>2
  <1> QED  BY Zenon, <1>6, <1>7, <1>8, <1>9

\* For every geometry and any number of callers: while the maps are there, a
\* page, a sector or a block fails exactly when its failure, or that of its lun,
\* was asked for, at every address of every lun; no mark reaches a map that is
\* not there but after release_err_injection, and none reaches beyond a map but
\* one whose size init_err_injection rounded down to too few bits.
THEOREM OnlyWhatWasAsked == InjSpec => []OnlyAskedFails
  <1> DEFINE Inv == RaidInv /\ MapInv
  <1>1. InjInit => Inv  BY RaidInitInv, MapInitInv
  <1>2. Inv /\ [InjNext]_inj => Inv'
    <2> SUFFICES ASSUME Inv, [InjNext]_inj  PROVE  Inv'
      OBVIOUS
    <2> QED  BY RaidInductive, MapInductive
  <1>3. Inv => OnlyAskedFails
    <2> SUFFICES ASSUME Inv  PROVE  OnlyAskedFails
      OBVIOUS
    <2>1. \A e \in inj.stray : e[2] = "freed" \/ e[1] \in Short  BY DEF MapInv, Ledger
    <2>2. inj.state = "live" => inj.done  BY DEF MapInv, Ledger, SetUpInv
    <2> HIDE DEF Inv
    <2>3. ASSUME inj.state = "live", NEW lun \in Luns  PROVE  TestsTell(lun)
      <3>1. MapInv /\ inj.done  BY <2>2, <2>3 DEF Inv
      <3> QED  BY Zenon, <3>1, TestsAreTrue
    <2> QED  BY Zenon, <2>1, <2>3 DEF OnlyAskedFails, TestsTell
  <1> HIDE DEF Inv
  <1> QED  BY <1>1, <1>2, <1>3, PTL DEF InjSpec
=============================================================================
