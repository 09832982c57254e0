---------------------------- MODULE MCSgConvert ----------------------------
(***************************************************************************)
(* All requests of up to MaxSegs segments that start and end at some of    *)
(* the places of a page: page ends, sector ends, eight-byte ends, others.  *)
(***************************************************************************)
EXTENDS SgConvert

CONSTANTS MaxSegs,   \* bound on the segments of a request
          Cuts,      \* the places of a page where segments start and end
          FirstIdx,  \* bi_iter.bi_idx of the bios: 0, or more for a rest of a split
          SomeKinds  \* the kinds of request

OneSeg == {[off |-> a, len |-> b - a] : <<a, b>> \in {c \in Cuts \X Cuts : c[1] < c[2]}}

SegLists == {l \in UNION {[1 .. n -> OneSeg] : n \in 1 .. MaxSegs} : Total(l) % Sector = 0}

Joins(l, k) == l[k].off + l[k].len = Page /\ l[k + 1].off = 0

\* The bi_idx of each segment: those in "same" continue the entry before.
IdxOf(l, first, same) ==
  LET at[k \in 1 .. Len(l)] == IF k = 1 THEN first
                               ELSE IF k - 1 \in same THEN at[k - 1] ELSE at[k - 1] + 1
  IN  at

Idxs(l, kind) ==
  IF kind # "bio" THEN {IdxOf(l, 0, {})}
  ELSE {IdxOf(l, i, same) : i \in FirstIdx,
                            same \in SUBSET {k \in 1 .. Len(l) - 1 : Joins(l, k)}}

Starts == {s \in 0 .. Logicb - 1 : s % Sector = 0}

MCRequests ==
  UNION {[kind : {kind}, start : Starts, segs : {l}, idx : Idxs(l, kind)] :
           kind \in SomeKinds, l \in SegLists}
=============================================================================
