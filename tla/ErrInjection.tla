---------------------------- MODULE ErrInjection ----------------------------
(***************************************************************************)
(* The error injection of shannon_err_injection.c: seven bit maps in which *)
(* the core looks up whether a lun, a page, a block or a sector should     *)
(* fail, the functions that mark and test them, the choice of a pair of    *)
(* sectors of one RAID group (twin read errors), and the set-up.           *)
(*                                                                         *)
(* A set-up or release is one thread; any number of Callers mark and test  *)
(* meanwhile.  Setting or testing a bit is atomic, and a step.             *)
(***************************************************************************)
EXTENDS Naturals, Sequences, FiniteSets

CONSTANTS
    Callers,    \* threads in mark_fake_rd_bad_lunpba_raidmutex
    Geo,        \* the geometry of the drive: luns, group, sbs, sib, pages,
                \* planes, page, eblocks, mbr (fields of struct shannon_dev)
    BadSets,    \* sets of luns the super block may exclude
    Addrs,      \* the addresses that are marked, where a lun has them
    MaxMark     \* bound on the marks made

ASSUME GeoAssumption ==
    /\ Geo \in [luns : Nat \ {0}, group : Nat \ {0}, sbs : Nat \ {0},
                sib : Nat \ {0}, pages : Nat \ {0}, planes : Nat \ {0},
                page : Nat \ {0}, eblocks : Nat \ {0}, mbr : Nat]
    /\ Geo.luns % Geo.group = 0 /\ MaxMark \in Nat /\ Addrs \subseteq Nat

\* done: rwe_err_buf_done; bufs: the bit maps allocated; bits: the bits set,
\* by map; next: the map init_err_injection allocates next; who: the callers
\* of the raid function; skipmbr: fake_bad_lun_skipmbr; badluns: the luns the
\* super block excludes.  Ghosts: asked (the failures asked for while the
\* maps were there), raided (the marks of the raid function),
\* met (pairs of its calls that overlapped), stray (accesses outside a map),
\* freed, pick (the last pair chosen).
VARIABLE inj

Maps == <<"bad", "timeout", "rdbad", "rd", "wr", "er", "twin">>
Luns == 0..(Geo.luns - 1)
Groups == 0..((Geo.luns \div Geo.group) - 1)
\* The pages (ppa), sectors (pba) and blocks of a lun; the sectors of one super
\* block, which update_fake_pattern draws from.
WrAddrs == {a \in Addrs : a < Geo.sbs * Geo.planes * Geo.pages}
RdAddrs == {a \in Addrs : a < Geo.sbs * Geo.sib}
ErAddrs == {a \in Addrs : a < Geo.eblocks}
TwinAddrs == {a \in Addrs : a < Geo.sib}
Idle == [pc |-> "idle", lun |-> 0, pba |-> 0, at |-> 0]
None == <<>>

InjStart(bad, skip) ==
    [done |-> FALSE, bufs |-> {}, next |-> 1, state |-> "init",
     bits |-> [m \in {Maps[i] : i \in 1..7} |-> {}],
     who |-> [c \in Callers |-> Idle], skipmbr |-> skip, badluns |-> bad,
     asked |-> {}, raided |-> {}, met |-> {}, stray |-> {},
     pick |-> [set |-> FALSE], marks |-> 0]

InjInit == inj \in {InjStart(b, k) : b \in BadSets, k \in BOOLEAN}

-----------------------------------------------------------------------------
(* Offsets of the bits, and the sizes of the maps in bits.                 *)

\* Mutant: the stride of a lun is its last page's address, not their number.
WrOffsetShort(g, lun, ppa) == lun * (g.sbs * g.planes * g.pages - 1) + ppa

WrOffset(g, lun, ppa) == lun * g.sbs * g.planes * g.pages + ppa
RdOffset(g, lun, pba) == lun * g.sbs * g.sib + pba
ErOffset(g, lun, blk) == lun * g.eblocks + blk
\* The map of the second head begins at a whole 64-bit word.
TwinOffset(g, lun, pba, head) ==
    LET offset == lun * g.sib + (pba % g.sib)
        base   == IF head = 0 THEN 0 ELSE (g.luns * g.sib) \div 64
    IN  64 * (base + offset \div 64) + (offset % 64)

PageUp(n) == ((n + 4095) \div 4096) * 4096
SizeInBits(g, m) ==
    8 * CASE m \in {"bad", "timeout", "rdbad"} -> ((g.luns + 63) \div 64) * 8
          [] m = "rd"   -> PageUp((g.luns * g.sbs * g.sib) \div 8)
          [] m = "wr"   -> PageUp((g.pages * g.planes * g.sbs * g.luns) \div 8)
          [] m = "er"   -> PageUp((g.eblocks * g.luns + 7) \div 8)
          [] m = "twin" -> PageUp((g.luns * g.sib * 2) \div 8)

\* The maps that are shorter than the failures they are for: the sizes of
\* those of sectors and pages are rounded down to bytes before they are
\* rounded up to pages.
BitCount(g, m) ==
    CASE m \in {"bad", "timeout", "rdbad"} -> g.luns
      [] m = "rd"   -> g.luns * g.sbs * g.sib
      [] m = "wr"   -> g.pages * g.planes * g.sbs * g.luns
      [] m = "er"   -> g.eblocks * g.luns
      [] m = "twin" -> g.luns * g.sib * 2
Short == {m \in {Maps[i] : i \in 1..7} : SizeInBits(Geo, m) < BitCount(Geo, m)}

-----------------------------------------------------------------------------
(* Marks and tests.  Both do nothing until the maps are all there.         *)

Touch(s, m, bit) ==
    IF m \in s.bufs /\ bit < SizeInBits(Geo, m) THEN s
    ELSE [s EXCEPT !.stray = @ \cup {<<m, s.state>>}]

Mark(s, m, bit) ==
    IF ~s.done THEN s
    ELSE [Touch(s, m, bit) EXCEPT !.bits[m] = @ \cup {bit}]

Test(s, m, bit) == s.done /\ bit \in s.bits[m]

mark_fake_bad_lun(s, lun) == Mark(s, "bad", lun)
mark_fake_cmd_timeout_lun(s, lun) == Mark(s, "timeout", lun)
mark_fake_rd_bad_lun(s, lun) == Mark(s, "rdbad", lun)
is_fake_bad_lun(s, lun) == Test(s, "bad", lun)
is_fake_cmd_timeout_lun(s, lun) == Test(s, "timeout", lun)
is_fake_rd_bad_lun(s, lun) == Test(s, "rdbad", lun)

\* A bad lun fails everywhere but in the boot blocks, if these are spared.
Spared(s, blk) == blk < Geo.mbr /\ s.skipmbr

mark_fake_wr_bad_lunppa(s, lun, ppa) == Mark(s, "wr", WrOffset(Geo, lun, ppa))

is_fake_wr_bad_lunppa(s, lun, ppa) ==
    \/ Test(s, "wr", WrOffset(Geo, lun, ppa))
    \/ is_fake_bad_lun(s, lun) /\ ~Spared(s, ppa \div Geo.pages)

mark_fake_rd_bad_lunpba(s, lun, pba) == Mark(s, "rd", RdOffset(Geo, lun, pba))

is_fake_rd_bad_lunpba(s, lun, pba) ==
    \/ Test(s, "rd", RdOffset(Geo, lun, pba))
    \/ /\ is_fake_bad_lun(s, lun) \/ is_fake_rd_bad_lun(s, lun)
       /\ ~Spared(s, (pba \div Geo.page) \div Geo.pages)

mark_fake_er_bad_block(s, lun, blk) == Mark(s, "er", ErOffset(Geo, lun, blk))

is_fake_er_bad_block(s, lun, blk) ==
    \/ Test(s, "er", ErOffset(Geo, lun, blk))
    \/ is_fake_bad_lun(s, lun) /\ ~Spared(s, blk)

mark_fake_twin_rd_bad_lunpba(s, lun, pba, head) ==
    Mark(s, "twin", TwinOffset(Geo, lun, pba, head))

is_fake_twin_rd_bad_lunpba(s, lun, pba, head) ==
    Test(s, "twin", TwinOffset(Geo, lun, pba, head))

-----------------------------------------------------------------------------
(* The pair of sectors of update_fake_pattern.                             *)

\* The walk from a random position round a ring of n, past those in Skip: n
\* positions are looked at, and n is the answer when all are skipped.
Walk(n, from, Skip) ==
    LET Past(k)  == \A j \in 0..(k - 1) : (from + j) % n \in Skip
        passed   == CHOOSE k \in 0..n :
                        Past(k) /\ (k < n => (from + k) % n \notin Skip)
    IN  IF passed = n THEN n ELSE (from + passed) % n

\* A group with two usable luns, from group g0 on (one that is not in use has
\* none); then two of its luns, from offsets o1 and o2 on, the second not the
\* first (luns_mask).  The module parameter twin_read_err is taken to be set.
TwinPick(s, g0, o1, o2) ==
    LET n     == Cardinality(Groups)
        start == [g \in Groups |-> g * Geo.group]
        Bad(g) == {o \in 0..(Geo.group - 1) : start[g] + o \in s.badluns}
        grp   == Walk(n, g0,
                      {g \in Groups : Geo.group - Cardinality(Bad(g)) < 2})
        a     == Walk(Geo.group, o1, Bad(grp))
        b     == Walk(Geo.group, o2, Bad(grp) \cup {a})
    IN  IF grp = n \/ a = Geo.group \/ b = Geo.group THEN None
        ELSE <<(start[grp] + a) % Geo.group, (start[grp] + b) % Geo.group>>

-----------------------------------------------------------------------------
(* The actions.                                                            *)

\* One allocation; a failure frees the maps there are, the last success sets
\* the flag.
init_err_injection(ok) ==
    /\ inj.state = "init"
    /\ inj' = IF ~ok THEN [inj EXCEPT !.bufs = {}, !.state = "failed"]
              ELSE [inj EXCEPT !.bufs = @ \cup {Maps[inj.next]},
                               !.next = @ + 1, !.done = inj.next = 7,
                               !.state = IF inj.next = 7 THEN "live" ELSE @]

\* The flag stays set.
release_err_injection ==
    inj.state = "live" /\ inj' = [inj EXCEPT !.bufs = {}, !.state = "freed"]

Ask(s, a) == [s EXCEPT !.marks = @ + 1,
                       !.asked = IF inj.done THEN @ \cup {a} ELSE @]

\* A mark by another thread, of a lun, page, sector or block.
MarkOne(lun) ==
    /\ inj.marks < MaxMark
    /\ \/ inj' = Ask(mark_fake_bad_lun(inj, lun), <<"bad", lun, 0>>)
       \/ inj' = Ask(mark_fake_cmd_timeout_lun(inj, lun), <<"timeout", lun, 0>>)
       \/ inj' = Ask(mark_fake_rd_bad_lun(inj, lun), <<"rdbad", lun, 0>>)
       \/ \E a \in WrAddrs :
             inj' = Ask(mark_fake_wr_bad_lunppa(inj, lun, a), <<"wr", lun, a>>)
       \/ \E a \in RdAddrs :
             inj' = Ask(mark_fake_rd_bad_lunpba(inj, lun, a), <<"rd", lun, a>>)
       \/ \E a \in ErAddrs :
             inj' = Ask(mark_fake_er_bad_block(inj, lun, a), <<"er", lun, a>>)

\* update_fake_pattern marks the pair for the head that writes.
update_fake_pattern(g0, o1, o2, pba, head) ==
    /\ inj.marks < MaxMark
    /\ LET p == TwinPick(inj, g0, o1, o2)
           s == IF p = None THEN inj
                ELSE mark_fake_twin_rd_bad_lunpba(
                        mark_fake_twin_rd_bad_lunpba(inj, p[1], pba, head),
                        p[2], pba, head)
       IN  inj' = [s EXCEPT !.marks = @ + 1,
                            !.pick = [set |-> TRUE, luns |-> p],
                            !.asked = IF inj.done /\ p # None
                                      THEN @ \cup {<<"twin", p[1], pba, head>>,
                                                   <<"twin", p[2], pba, head>>}
                                      ELSE @]

GroupOf(lun) == lun \div Geo.group

\* mark_fake_rd_bad_lunpba_raidmutex: the luns of the group are looked at one
\* by one, without a lock, and the mark is made if none of them fails.
RaidBegin(c, lun, pba) ==
    /\ inj.who[c].pc = "idle" /\ inj.marks < MaxMark
    /\ inj' = [inj EXCEPT !.marks = @ + 1,
          !.who[c] = [pc |-> "look", lun |-> lun, pba |-> pba,
                      at |-> GroupOf(lun) * Geo.group],
          !.met = @ \cup {<<GroupOf(lun), pba>> : d \in {e \in Callers :
                /\ inj.who[e].pc # "idle" /\ inj.who[e].pba = pba
                /\ GroupOf(inj.who[e].lun) = GroupOf(lun)}}]

\* Mutant: the last lun of the group is not looked at.
RaidLookShort(c) ==
    LET w == inj.who[c]
    IN  /\ w.pc = "look"
        /\ inj' = IF is_fake_rd_bad_lunpba(inj, w.at, w.pba)
                  THEN [inj EXCEPT !.who[c] = Idle]
                  ELSE IF (w.at + 2) % Geo.group # 0
                  THEN [inj EXCEPT !.who[c].at = @ + 1]
                  ELSE [inj EXCEPT !.who[c].pc = "mark"]

RaidLook(c) ==
    LET w == inj.who[c]
    IN  /\ w.pc = "look"
        /\ inj' = IF is_fake_rd_bad_lunpba(inj, w.at, w.pba)
                  THEN [inj EXCEPT !.who[c] = Idle]
                  ELSE IF (w.at + 1) % Geo.group # 0
                  THEN [inj EXCEPT !.who[c].at = @ + 1]
                  ELSE [inj EXCEPT !.who[c].pc = "mark"]

RaidMark(c) ==
    LET w == inj.who[c]
    IN  /\ w.pc = "mark"
        /\ inj' = [mark_fake_rd_bad_lunpba(inj, w.lun, w.pba) EXCEPT
                     !.who[c] = Idle,
                     !.raided = IF inj.done THEN @ \cup {<<w.lun, w.pba>>}
                                ELSE @,
                     !.asked = IF inj.done
                               THEN @ \cup {<<"rd", w.lun, w.pba>>} ELSE @]

InjNext ==
    \/ \E ok \in BOOLEAN : init_err_injection(ok)
    \/ release_err_injection
    \/ \E lun \in Luns :
          MarkOne(lun) \/ \E c \in Callers, a \in RdAddrs : RaidBegin(c, lun, a)
    \/ \E g \in Groups, o1, o2 \in 0..(Geo.group - 1), a \in TwinAddrs,
         h \in {0, 1} : update_fake_pattern(g, o1, o2, a, h)
    \/ \E c \in Callers : RaidLook(c) \/ RaidMark(c)

-----------------------------------------------------------------------------
\* Two marks that mark_fake_rd_bad_lunpba_raidmutex made in one RAID group and
\* sector were made by calls that overlapped: the look at the group and the
\* mark are not one step, but a call that begins after a mark was made sees it.
RaidMarksExclude ==
    \A m, n \in inj.raided :
        (m[1] # n[1] /\ m[2] = n[2] /\ GroupOf(m[1]) = GroupOf(n[1]))
            => <<GroupOf(m[1]), m[2]>> \in inj.met

\* How many luns of a RAID group are made to fail in one sector: one by
\* mark_fake_rd_bad_lunpba_raidmutex, but for calls that overlap; two by
\* update_fake_pattern, and different ones, whenever some group has two usable
\* luns, wherever its random walks begin.
RaidGroupMarks ==
    /\ RaidMarksExclude
    /\ inj.pick.set =>
          LET able == \E g \in Groups :
                          Cardinality({l \in Luns \ inj.badluns :
                                          GroupOf(l) = g}) >= 2
          IN  IF able THEN /\ Len(inj.pick.luns) = 2
                           /\ inj.pick.luns[1] # inj.pick.luns[2]
              ELSE inj.pick.luns = None

\* While the maps are there, a page, sector or block fails exactly when that
\* failure was asked for, for itself or through its lun, boot blocks spared: no
\* mark spills over to another address or lun of its bit map, from the first
\* bit of the map to its last (the offsets of mark_fake_wr_..., mark_fake_rd_...
\* and mark_fake_er_..., and of the twin map of a drive whose maps are whole
\* words, which takes the sectors of all super blocks for those of one).  Nor
\* does one reach a map that is not there, however init_err_injection fails,
\* or a bit beyond the end of a map; but the size of a map can be rounded down
\* to less than its failures need (Short), and release_err_injection leaves
\* the flag set, so that a mark made after it does.
OnlyAskedFails ==
    /\ \A e \in inj.stray : e[2] = "freed" \/ e[1] \in Short
    /\ inj.state = "live" =>
        \A lun \in Luns :
            LET Asked(k, a) == <<k, lun, a>> \in inj.asked
                Lun(k, b) == <<k, lun, 0>> \in inj.asked /\ ~Spared(inj, b)
            IN  /\ is_fake_cmd_timeout_lun(inj, lun) = Asked("timeout", 0)
                /\ "wr" \notin Short => \A a \in WrAddrs :
                      is_fake_wr_bad_lunppa(inj, lun, a)
                          = (Asked("wr", a) \/ Lun("bad", a \div Geo.pages))
                /\ "rd" \notin Short => \A a \in RdAddrs :
                      is_fake_rd_bad_lunpba(inj, lun, a)
                          = \/ Asked("rd", a)
                            \/ Lun("bad", (a \div Geo.page) \div Geo.pages)
                            \/ Lun("rdbad", (a \div Geo.page) \div Geo.pages)
                /\ \A a \in ErAddrs :
                      is_fake_er_bad_block(inj, lun, a)
                          = (Asked("er", a) \/ Lun("bad", a))
                /\ "twin" \notin Short /\ (Geo.luns * Geo.sib) % 64 = 0 =>
                      \A a \in RdAddrs, h \in {0, 1} :
                          is_fake_twin_rd_bad_lunpba(inj, lun, a, h)
                              = (<<"twin", lun, a % Geo.sib, h>> \in inj.asked)
=============================================================================
