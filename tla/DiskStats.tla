------------------------------ MODULE DiskStats ------------------------------
(***************************************************************************)
(* The disk statistics of shannon_device.c: shannon_start_io_acct and      *)
(* shannon_end_io_acct around every bio, the in-flight counters they keep, *)
(* and the readers.  The file has one version of them for each generation  *)
(* of kernels, and the model has all of them: st.kern says which is built. *)
(*                                                                         *)
(* Accounting is one step (it runs with preemption disabled, on counters   *)
(* that are atomic or the CPU's own); a reader visits the CPUs one by one. *)
(* The partition table may change while bios are in flight.                *)
(***************************************************************************)
EXTENDS Integers, FiniteSets

CONSTANTS
    NCpu,
    Kerns,      \* the kernel generations considered
    Jumps,      \* the advances of the clock, in jiffies: each happens once
    MaxStart,   \* bound on the requests started
    MaxRepartition

\* "rhel8.4" counts on the whole disk only; "5.7" and later leave the counting
\* to the block layer.  "5.8" ends with 5.10, the last kernel with the
\* hd_struct that its reader names.  ByBdev: the block layer counts on the
\* block device that the bio was sent to.
AllKerns == {"2.6.27", "2.6.28", "2.6.29", "4.19", "5.0", "rhel8.4", "5.7",
             "5.8", "5.15", "6.3"}
ByBdev == {"5.15", "6.3"}
PerCpu == {"5.0", "rhel8.4", "5.7", "5.8"} \cup ByBdev
HasNsecs == AllKerns \ {"2.6.27", "2.6.28", "2.6.29"}

ASSUME StatsAssumption ==
    /\ NCpu \in Nat \ {0} /\ Kerns \subseteq AllKerns
    /\ Jumps \subseteq Nat \ {0}
    /\ MaxStart \in Nat /\ MaxRepartition \in Nat

\* fly: the in-flight counters, by CPU, partition (0: the whole disk) and
\* direction; table: the partition of the one sector range used; bios (part:
\* the block device they were sent to); ios, sectors, time (jiffies, or
\* nanoseconds by 8) of the whole disk; stamp and ticks of
\* shannon_update_io_ticks; scan: the reader.  Ghosts, by direction: begun and
\* ended (requests), spent (jiffies of those that ended), lost (the multiples
\* of 2^32 ns that durations lost in 32 bits).
VARIABLE st

\* Requests are known by the order in which they start.
Bios == 1..MaxStart
Cpus == 1..NCpu
Parts == {0, 1}
Dirs == {0, 1}
NoScan == [cpu |-> 0, sum |-> 0, quiet |-> TRUE]

StatsStart(k) ==
    [kern |-> k, table |-> 1, jiffies |-> 0, jumps |-> Jumps,
     repartitions |-> 0,
     started |-> 0, fly |-> [i \in Cpus \X Parts \X Dirs |-> 0],
     bios |-> [b \in Bios |->
                 [on |-> FALSE, rw |-> 0, part |-> 0, start |-> 0]],
     ios |-> [d \in Dirs |-> 0], sectors |-> [d \in Dirs |-> 0],
     time |-> [d \in Dirs |-> 0],
     stamp |-> [p \in Parts |-> 0], ticks |-> [p \in Parts |-> 0],
     scan |-> NoScan, read |-> 0, exact |-> FALSE, truth |-> 0,
     begun |-> [d \in Dirs |-> 0], ended |-> [d \in Dirs |-> 0],
     spent |-> [d \in Dirs |-> 0], lost |-> [d \in Dirs |-> 0]]

StatsInit == st \in {StatsStart(k) : k \in Kerns}

-----------------------------------------------------------------------------
(* The in-flight counters.                                                 *)

\* The counter of a partition, and the whole disk's with it (part->partno).
Bump(s, cpu, part, rw, d) ==
    [s EXCEPT !.fly = [i \in DOMAIN @ |->
        IF i[1] = cpu /\ i[2] \in {part, 0} /\ i[3] = rw
        THEN @[i] + d ELSE @[i]]]

\* The counter of one block device.
part_stat_local_add(s, cpu, part, rw, d) ==
    [s EXCEPT !.fly[<<cpu, part, rw>>] = @ + d]

\* Before 5.0 a counter is one atomic word for all CPUs: it is CPU 1's here.
Cell(s, cpu) == IF s.kern \in PerCpu THEN cpu ELSE 1

\* 2.6.28: one word per partition for both directions.
part_inc_in_flight_2_6_28(s, part) == Bump(s, 1, part, 0, 1)
part_dec_in_flight_2_6_28(s, part) == Bump(s, 1, part, 0, -1)

\* Mutant: the partition's counter only.
PartOnlyInc(s, cpu, part, rw) ==
    part_stat_local_add(s, Cell(s, cpu), part, rw, 1)

shannon_part_inc_in_flight(s, cpu, part, rw) ==
    Bump(s, Cell(s, cpu), part, rw, 1)

shannon_part_dec_in_flight(s, cpu, part, rw) ==
    Bump(s, Cell(s, cpu), part, rw, -1)

\* The stamp is moved to now and a tick counted, on the partition and then on
\* the whole disk.
shannon_update_io_ticks(s, part) ==
    LET late(p) == p \in {part, 0} /\ s.stamp[p] # s.jiffies
    IN  [s EXCEPT !.stamp = [p \in Parts |->
                                IF late(p) THEN s.jiffies ELSE @[p]],
                  !.ticks = [p \in Parts |-> @[p] + IF late(p) THEN 1 ELSE 0]]

-----------------------------------------------------------------------------
(* Accounting, by generation.  A duration in nanoseconds is the product of *)
(* an unsigned int of microseconds and 1000, in 32 bits; in units of 8 ns  *)
(* it is taken modulo 2^29.                                                *)

UsecPerJiffy == 4000
By8(d) == d * UsecPerJiffy * 125
WordBy8 == 2 ^ 29
NsecsBy8(d) == By8(d) % WordBy8
Lost(d) == By8(d) \div WordBy8

\* The partition of a request, looked up when it is accounted.
disk_map_sector_rcu(s) == IF s.kern = "rhel8.4" THEN 0 ELSE s.table

BioSectors == 8
Count(s, rw) ==
    [s EXCEPT !.ios[rw] = @ + 1, !.sectors[rw] = @ + BioSectors]

\* Kernels before 5.7.
start_io_acct_part(s, cpu, rw) ==
    LET part == disk_map_sector_rcu(s)
        t    == IF s.kern \in {"5.0", "rhel8.4"}
                THEN shannon_update_io_ticks(s, part) ELSE s
        u    == Count(t, rw)
    IN  CASE s.kern = "2.6.27" -> Bump(u, 1, 0, 0, 1)
          [] s.kern = "2.6.28" -> part_inc_in_flight_2_6_28(u, part)
          [] OTHER             -> shannon_part_inc_in_flight(u, cpu, part, rw)

\* Mutant: the duration is multiplied in nanoseconds on every kernel.
EndAlwaysNsecs(s, b, cpu) ==
    LET rw   == s.bios[b].rw
        part == disk_map_sector_rcu(s)
        u    == [s EXCEPT !.time[rw] =
                    @ + NsecsBy8(s.jiffies - s.bios[b].start)]
    IN  shannon_part_dec_in_flight(u, cpu, part, rw)

\* The partition is looked up again, not remembered.
end_io_acct_part(s, b, cpu) ==
    LET rw   == s.bios[b].rw
        dur  == s.jiffies - s.bios[b].start
        part == disk_map_sector_rcu(s)
        t    == IF s.kern \in {"5.0", "rhel8.4"}
                THEN shannon_update_io_ticks(s, part) ELSE s
        u    == [t EXCEPT !.time[rw] =
                    @ + IF s.kern \in HasNsecs THEN NsecsBy8(dur) ELSE dur,
                          !.lost[rw] =
                    @ + IF s.kern \in HasNsecs THEN Lost(dur) ELSE 0]
    IN  CASE s.kern = "2.6.27" -> Bump(u, 1, 0, 0, -1)
          [] s.kern = "2.6.28" -> part_dec_in_flight_2_6_28(u, part)
          [] OTHER             -> shannon_part_dec_in_flight(u, cpu, part, rw)

\* What the block layer adds for a request that ends: 64 bits of nanoseconds.
AddTime(s, b) ==
    [s EXCEPT !.time[s.bios[b].rw] = @ + By8(s.jiffies - s.bios[b].start)]

\* 5.7: the block layer's generic accounting, on the whole disk.
start_io_acct_5_7(s, cpu, rw) ==
    part_stat_local_add(Count(s, rw), cpu, 0, rw, 1)
end_io_acct_5_7(s, b, cpu) ==
    part_stat_local_add(AddTime(s, b), cpu, 0, s.bios[b].rw, -1)

\* 5.8 and later: the block layer's accounting of the bio.  Up to 5.10 it
\* counts on the whole disk.  Afterwards it counts on the block device that
\* the bio was sent to; requests, sectors and time are counted on the whole
\* disk as well, the requests in flight are not.  From 6.3 on requests and
\* sectors are counted at the end.
BdevOf(s, to) == IF s.kern \in ByBdev THEN to ELSE 0
start_io_acct_5_8(s, to, cpu, rw) ==
    LET u == IF s.kern = "6.3" THEN s ELSE Count(s, rw)
    IN  part_stat_local_add(u, cpu, BdevOf(s, to), rw, 1)
end_io_acct_5_8(s, b, cpu) ==
    LET rw == s.bios[b].rw
        u  == IF s.kern = "6.3" THEN Count(s, rw) ELSE s
    IN  part_stat_local_add(AddTime(u, b), cpu, BdevOf(s, s.bios[b].part), rw, -1)

shannon_start_io_acct(s, to, cpu, rw) ==
    CASE s.kern = "5.7"               -> start_io_acct_5_7(s, cpu, rw)
      [] s.kern \in ByBdev \cup {"5.8"} -> start_io_acct_5_8(s, to, cpu, rw)
      [] OTHER                        -> start_io_acct_part(s, cpu, rw)

shannon_end_io_acct(s, b, cpu) ==
    CASE s.kern = "5.7"               -> end_io_acct_5_7(s, b, cpu)
      [] s.kern \in ByBdev \cup {"5.8"} -> end_io_acct_5_8(s, b, cpu)
      [] OTHER                        -> end_io_acct_part(s, b, cpu)

-----------------------------------------------------------------------------
(* The readers.                                                            *)

\* The whole disk's counters of one CPU, both directions.
local_in_flight(s, cpu) == s.fly[<<cpu, 0, 0>>] + s.fly[<<cpu, 0, 1>>]

\* What shannon_disk_in_flight makes of the sum, by generation: the count,
\* never negative; or, in 5.7 to 5.10, whether it is zero.
disk_in_flight_5_15(sum) == IF sum < 0 THEN 0 ELSE sum
disk_in_flight_5_8(sum) == IF sum # 0 THEN 1 ELSE 0
disk_in_flight_5_7(sum) == IF sum # 0 THEN 1 ELSE 0
disk_in_flight_part(s, sum) == IF s.kern \in PerCpu /\ sum < 0 THEN 0 ELSE sum
disk_in_flight_2_6_28(sum) == sum
disk_in_flight_2_6_27(sum) == sum

shannon_disk_in_flight(s, sum) ==
    CASE s.kern \in ByBdev -> disk_in_flight_5_15(sum)
      [] s.kern = "5.8"     -> disk_in_flight_5_8(sum)
      [] s.kern = "5.7"     -> disk_in_flight_5_7(sum)
      [] s.kern = "2.6.28"  -> disk_in_flight_2_6_28(sum)
      [] s.kern = "2.6.27"  -> disk_in_flight_2_6_27(sum)
      [] OTHER              -> disk_in_flight_part(s, sum)

\* A millisecond, in units of 8 ns.
By8PerMsec == 125000

\* shannon_read_/write_ ios, sectors and msecs; 0 before there is a disk.
\* 5.8 and later (the CPUs' counters are added up first).
disk_stat_5_8(s, disk, f, rw) ==
    CASE ~disk         -> 0
      [] f = "ios"     -> s.ios[rw]
      [] f = "sectors" -> s.sectors[rw]
      [] f = "msecs"   -> s.time[rw] \div By8PerMsec
disk_stat_5_7(s, disk, f, rw) ==
    CASE ~disk         -> 0
      [] f = "ios"     -> s.ios[rw]
      [] f = "sectors" -> s.sectors[rw]
      [] f = "msecs"   -> s.time[rw] \div By8PerMsec
\* Before 4.19 the time is in jiffies.
disk_stat_part(s, disk, f, rw) ==
    CASE ~disk         -> 0
      [] f = "ios"     -> s.ios[rw]
      [] f = "sectors" -> s.sectors[rw]
      [] f = "msecs"   -> IF s.kern \in HasNsecs THEN s.time[rw] \div By8PerMsec
                          ELSE (s.time[rw] * UsecPerJiffy) \div 1000

DiskStat(s, disk, f, rw) ==
    CASE s.kern \in ByBdev \cup {"5.8"} -> disk_stat_5_8(s, disk, f, rw)
      [] s.kern = "5.7"               -> disk_stat_5_7(s, disk, f, rw)
      [] OTHER                        -> disk_stat_part(s, disk, f, rw)

-----------------------------------------------------------------------------
(* The actions.                                                            *)

InFlight(s) == {b \in Bios : s.bios[b].on}
\* Those that are counted on the whole disk.
OnDisk(s) == {b \in InFlight(s) : BdevOf(s, s.bios[b].part) = 0}
\* The last reading is a thing of the past; accounting also spoils the one in
\* progress.
Past(s) == [s EXCEPT !.exact = FALSE, !.read = 0, !.truth = 0]
Disturb(s) == [Past(s) EXCEPT !.scan.quiet = s.scan.cpu = 0]

\* A bio is sent to the whole disk or to the partition of its sectors, which
\* before 5.15 makes no difference: accounting looks at the sectors.
StartBio(b, to, cpu, rw) ==
    /\ b = st.started + 1
    /\ to \in IF st.kern \in ByBdev THEN {0, st.table} ELSE {st.table}
    /\ st' = [Disturb(shannon_start_io_acct(st, to, cpu, rw)) EXCEPT
                !.started = @ + 1, !.begun[rw] = @ + 1,
                !.bios[b] = [on |-> TRUE, rw |-> rw, part |-> to,
                             start |-> st.jiffies]]

EndBio(b, cpu) ==
    /\ st.bios[b].on
    /\ st' = [Disturb(shannon_end_io_acct(st, b, cpu)) EXCEPT
                !.bios[b].on = FALSE, !.ended[st.bios[b].rw] = @ + 1,
                !.spent[st.bios[b].rw] = @ + st.jiffies - st.bios[b].start]

\* A reader takes the next CPU; an atomic word is read at once.
ReadInFlight ==
    LET c == st.scan.cpu + 1
        s == IF c = 1 THEN 0 ELSE st.scan.sum
        q == c = 1 \/ st.scan.quiet
        sum == s + local_in_flight(st, c)
    IN  st' = IF c < NCpu /\ st.kern \in PerCpu
              THEN [Past(st) EXCEPT !.scan = [cpu |-> c, sum |-> sum, quiet |-> q]]
              ELSE [st EXCEPT !.scan = NoScan, !.exact = q,
                              !.read = shannon_disk_in_flight(st, sum),
                              !.truth = Cardinality(OnDisk(st))]

Clock(j) ==
    /\ j \in st.jumps
    /\ st' = [Past(st) EXCEPT !.jiffies = @ + j, !.jumps = @ \ {j}]

Repartition ==
    /\ st.repartitions < MaxRepartition
    /\ st' = [Past(st) EXCEPT !.table = 1 - @, !.repartitions = @ + 1]

StatsNext ==
    \/ \E b \in Bios, cpu \in Cpus :
          (\E to \in Parts, rw \in Dirs : StartBio(b, to, cpu, rw)) \/ EndBio(b, cpu)
    \/ ReadInFlight \/ Repartition \/ \E j \in Jumps : Clock(j)

-----------------------------------------------------------------------------
\* The whole disk's counters, added over the first CPUs and both directions.
OnCpus(s) ==
    LET upTo[n \in 0..NCpu] ==
            IF n = 0 THEN 0 ELSE upTo[n - 1] + local_in_flight(s, n)
    IN  upTo

\* The whole disk's in-flight counters, added over CPUs and directions, are
\* the requests between shannon_start_io_acct and shannon_end_io_acct,
\* whichever CPUs start and end them, and even when the partition table changes
\* between the two and the end is charged to another partition than the start.
\* From 5.15 on they are only those sent to the whole disk: the reader misses
\* the requests sent to a partition, and no others.  So a reading of
\* shannon_disk_in_flight that no accounting overlapped is their number, or in
\* 5.7 to 5.10 whether there are any; and no reading is negative, although the
\* counter of one CPU may be.
InFlightExact ==
    /\ OnCpus(st)[NCpu] = Cardinality(OnDisk(st))
    /\ st.read >= 0
    /\ st.exact => st.read = IF st.kern \in {"5.7", "5.8"} /\ st.truth > 0
                             THEN 1 ELSE st.truth

\* The requests and sectors reported of a direction are those started in it,
\* or from 6.3 on those ended.  The milliseconds reported are what the requests
\* that ended took, less exactly the multiples of 2^32 ns by which the 32-bit
\* product of shannon_end_io_acct cut a duration, before 5.7: a duration below
\* 2^32 ns is never cut and one cut spoils no other.  The busy ticks never
\* exceed the time that passed.
TimesAddUp ==
    /\ \A rw \in Dirs :
          LET told(f) == DiskStat(st, TRUE, f, rw)
          IN  /\ told("ios") = IF st.kern = "6.3" THEN st.ended[rw] ELSE st.begun[rw]
              /\ told("sectors") = BioSectors * told("ios")
              /\ told("msecs") = (By8(st.spent[rw]) - WordBy8 * st.lost[rw])
                                   \div By8PerMsec
    /\ \A p \in Parts : st.ticks[p] <= st.jiffies

=============================================================================
