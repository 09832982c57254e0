------------------------------ MODULE SgConvert ------------------------------
(***************************************************************************)
(* How a request's segments become the scatter-gather table the core works *)
(* from: shannon_convert_bio and shannon_convert_lreq (shannon_block.c),   *)
(* shannon_convert_scsi_scmd (shannon_scsi.c), and the bounce pages of     *)
(* shannon_convert_bio with their copy and release.  One step is one round *)
(* of a loop.  Sizes and offsets are in units of which a page has Page.    *)
(* Failing to allocate the table itself is in IoPath (ConvertFails).       *)
(***************************************************************************)
EXTENDS Integers, Sequences

CONSTANTS Page,     \* PAGE_SIZE, and the 4096 of the hole tests
          Logicb,   \* logicb_size
          Align,    \* the 8 bytes of the bounce test
          Sector,   \* 512 bytes
          Requests  \* what the callers may pass

Kinds == {"bio", "lreq", "scsi"}

Total(segs) ==
  LET upTo[n \in 0 .. Len(segs)] == IF n = 0 THEN 0 ELSE upTo[n - 1] + segs[n].len
  IN  upTo[Len(segs)]

\* A segment lies in one page: bio_for_each_segment and rq_for_each_segment
\* see to it, and the dma_boundary of the SCSI host.  idx is iter.bi_idx: it
\* stays when the next segment continues the same multi-page bi_io_vec entry.
\* A request is whole sectors.  alloc_bounce_pages takes a logical block for
\* a page, as the 4096 of the comments does.
ASSUME SgAssumption ==
  /\ Align \in Nat \ {0} /\ Sector \in Nat \ {0} /\ Page \in Nat \ {0}
  /\ Sector % Align = 0 /\ Page % Sector = 0
  /\ Logicb = Page
  /\ \A r \in Requests :
       /\ r.kind \in Kinds /\ r.start \in 0 .. Logicb - 1 /\ r.start % Sector = 0
       /\ r.segs \in Seq([off : Nat, len : Nat]) /\ r.segs # <<>>
       /\ Len(r.idx) = Len(r.segs) /\ Total(r.segs) % Sector = 0
       /\ \A k \in 1 .. Len(r.segs) :
            /\ r.segs[k].off \in 0 .. Page - 1 /\ r.segs[k].len \in 1 .. Page - r.segs[k].off
            /\ k > 1 => r.idx[k] \in {r.idx[k - 1], r.idx[k - 1] + 1}
            /\ k > 1 /\ r.idx[k] = r.idx[k - 1]
                 => r.segs[k].off = 0 /\ r.segs[k - 1].off + r.segs[k - 1].len = Page

VARIABLES
  req,         \* the request: kind, position of its start in a block, segments
  pc,          \* which loop is running
  sgCount,     \* sbio->sg_count, the entries of the table
  sg,          \* the entries set so far; their number is used_sg_count
  endMark,     \* the first entry that is marked as the end of the table
  firstSize,   \* sbio->first_size
  needBounce,  \* sbio->need_bounce
  hasHole,     \* sbio->has_hole
  seg,         \* the segment at hand
  offset,      \* what was mapped (or copied) of it
  remained,    \* remained_size, what is left of the logical block
  live,        \* bounce pages allocated and not freed
  sge,         \* the copy's cursor: entry and what was copied of it
  copies       \* the copies made, in order

table == <<sgCount, sg, endMark>>
flags == <<firstSize, needBounce, hasHole>>
place == <<seg, offset, remained>>
copy  == <<sge, copies>>
vars  == <<req, pc, table, flags, place, live, copy>>

Lesser(a, b) == IF a < b THEN a ELSE b
CeilDiv(a, b) == (a + b - 1) \div b

Segs == req.segs
Size == Total(Segs)   \* sbio->bio_size

Init ==
  /\ req \in Requests
  /\ pc = "start"
  /\ sgCount = 0 /\ sg = <<>> /\ endMark = 0
  /\ firstSize = 0 /\ needBounce = FALSE /\ hasHole = FALSE
  /\ seg = 1 /\ offset = 0 /\ remained = 0
  /\ live = {}
  /\ sge = [entry |-> 1, done |-> 0] /\ copies = <<>>
-----------------------------------------------------------------------------
(* Sizes *)

\* What the first logical block holds of a request that starts inside it.
FirstSize == Lesser(Size, (Logicb - (req.start % Logicb)) % Logicb)

\* Mutant: one entry per block of a bio, per segment of a command.
TableSizeTight ==
  CASE req.kind = "bio"  -> CeilDiv(Size, Logicb)
    [] req.kind = "lreq" -> Len(Segs) + 1
    [] req.kind = "scsi" -> Len(Segs)

TableSize ==
  CASE req.kind = "bio"  -> 2 * (CeilDiv(Size, Logicb) + Len(Segs))
    [] req.kind = "lreq" -> 2 * Len(Segs) + 1
    [] req.kind = "scsi" -> 2 * CeilDiv(Size, Logicb) + Len(Segs)

\* Mutant: only the lengths of the segments are tested.
CrookedLen == \E k \in 1 .. Len(Segs) : Segs[k].len % Align # 0

\* A segment of a bio that does not start and end at eight bytes.
Crooked == \E k \in 1 .. Len(Segs) : Segs[k].off % Align # 0 \/ Segs[k].len % Align # 0

\* The table is allocated and initialised, which marks its last entry.
Start ==
  /\ pc = "start"
  /\ sgCount' = TableSize /\ endMark' = TableSize
  /\ firstSize' = FirstSize
  /\ needBounce' = (req.kind = "bio" /\ Crooked)
  /\ remained' = IF FirstSize # 0 THEN FirstSize ELSE Logicb
  /\ pc' = IF needBounce' THEN "bounce" ELSE "segment"
  /\ UNCHANGED <<req, sg, hasHole, seg, offset, live, copy>>
-----------------------------------------------------------------------------
(* Own pages: one entry per part of a segment in one page and one block *)

\* iter.bi_idx is compared for a bio, a running index for the others.
NotFirst == IF req.kind = "bio" THEN req.idx[seg] # req.idx[1] ELSE seg # 1
NotLast  == IF req.kind = "bio" THEN req.idx[seg] # Len(Segs) - 1 ELSE seg # Len(Segs)

\* The head of the segment loop with the two hole tests.
Segment ==
  /\ pc = "segment"
  /\ hasHole' = \/ hasHole
                \/ NotFirst /\ Segs[seg].off # 0
                \/ NotLast /\ (Segs[seg].off + Segs[seg].len) % Page # 0
  /\ offset' = 0
  /\ pc' = "split"
  /\ UNCHANGED <<req, table, firstSize, needBounce, seg, remained, live, copy>>

InPage   == (Segs[seg].off + offset) % Page
RestOf   == Segs[seg].len - offset

\* map_size: up to the end of the segment, of the page (a request's segment
\* cannot cross it) and of the logical block.
MapSize == IF req.kind = "lreq" THEN Lesser(RestOf, remained)
                                ELSE Lesser(Lesser(Page - InPage, RestOf), remained)

NextRemained(n) == IF remained = n THEN Logicb ELSE remained - n

\* sg_mark_end at the end of the loops; the SCSI conversion has none.
MarkEnd(n) == IF req.kind = "scsi" THEN endMark ELSE n

\* Mutant: the next segment starts at the first entry's offset.
SplitKeepsOffset ==
  /\ pc = "split"
  /\ sg' = Append(sg, [seg |-> seg, pg |-> 0, off |-> Segs[seg].off, len |-> MapSize])
  /\ remained' = NextRemained(MapSize)
  /\ IF offset + MapSize < Segs[seg].len
       THEN offset' = offset + MapSize /\ UNCHANGED <<pc, seg, endMark>>
       ELSE /\ seg' = seg + 1 /\ UNCHANGED offset
            /\ pc' = IF seg = Len(Segs) THEN "done" ELSE "segment"
            /\ endMark' = IF seg = Len(Segs) THEN MarkEnd(Len(sg')) ELSE endMark
  /\ UNCHANGED <<req, sgCount, flags, live, copy>>

\* One round of the inner loop: the next entry of the table.  The SCSI loop
\* stops at the table's end, and SHN_BUG_ON follows.
Split ==
  /\ pc = "split"
  /\ req.kind = "scsi" => Len(sg) < sgCount
  /\ sg' = Append(sg, [seg |-> seg, pg |-> (Segs[seg].off + offset) \div Page,
                       off |-> InPage, len |-> MapSize])
  /\ remained' = NextRemained(MapSize)
  /\ IF offset + MapSize < Segs[seg].len
       THEN offset' = offset + MapSize /\ UNCHANGED <<pc, seg, endMark>>
       ELSE /\ seg' = seg + 1 /\ UNCHANGED offset
            /\ pc' = IF seg = Len(Segs) THEN "done" ELSE "segment"
            /\ endMark' = IF seg = Len(Segs) THEN MarkEnd(Len(sg')) ELSE endMark
  /\ UNCHANGED <<req, sgCount, flags, live, copy>>
-----------------------------------------------------------------------------
(* Bounce pages *)

LastLen == (Size - firstSize) % Page
PageCnt == (IF firstSize # 0 THEN 1 ELSE 0) + (Size - firstSize) \div Page
             + (IF LastLen # 0 THEN 1 ELSE 0)

\* The first page is filled up to its end, the others from their start.
BounceEntry(n) ==
  [seg |-> 0, pg |-> n,
   off |-> IF n = 1 /\ firstSize # 0 THEN Page - firstSize ELSE 0,
   len |-> IF n = 1 /\ firstSize # 0 THEN firstSize
           ELSE IF n = PageCnt /\ LastLen # 0 THEN LastLen ELSE Page]

\* One round of shannon_alloc_bounce_pages.
AllocPage ==
  /\ pc = "bounce"
  /\ Len(sg) < PageCnt
  /\ sg' = Append(sg, BounceEntry(Len(sg) + 1))
  /\ live' = live \cup {Len(sg) + 1}
  /\ UNCHANGED <<req, pc, sgCount, endMark, flags, place, copy>>

\* Mutant: the pages allocated so far are kept.
AllocPageFailsKeeps ==
  /\ pc = "bounce"
  /\ Len(sg) < PageCnt
  /\ sg' = <<>>
  /\ hasHole' = TRUE /\ needBounce' = FALSE
  /\ pc' = "segment"
  /\ UNCHANGED <<req, sgCount, endMark, firstSize, place, live, copy>>

\* fail_out, then old_fashion: the bio's own pages after all, with a hole.
AllocPageFails ==
  /\ pc = "bounce"
  /\ Len(sg) < PageCnt
  /\ live' = live \ {sg[n].pg : n \in 1 .. Len(sg)}
  /\ sg' = <<>>
  /\ hasHole' = TRUE /\ needBounce' = FALSE
  /\ pc' = "segment"
  /\ UNCHANGED <<req, sgCount, endMark, firstSize, place, copy>>

\* Mutant: the last entry in use is marked, not the one behind it.
BouncedMarksLast ==
  /\ pc = "bounce"
  /\ Len(sg) = PageCnt
  /\ endMark' = Len(sg)
  /\ pc' = "copy"
  /\ UNCHANGED <<req, sgCount, sg, flags, place, live, copy>>

\* The cursor stands behind the last page when the end is marked.
Bounced ==
  /\ pc = "bounce"
  /\ Len(sg) = PageCnt
  /\ endMark' = Len(sg) + 1
  /\ pc' = "copy"
  /\ UNCHANGED <<req, sgCount, sg, flags, place, live, copy>>

\* Entries behind the used ones are zero since shannon_sg_init_table.
EntryLen(n) == IF n <= Len(sg) THEN sg[n].len ELSE 0
CopyLen     == Lesser(EntryLen(sge.entry) - sge.done, RestOf)

\* Mutant: the entry's offset is read anew for every segment.
CopyChunkRereads ==
  /\ pc = "copy"
  /\ copies' = Append(copies, [seg |-> seg, from |-> offset, entry |-> sge.entry,
                               to |-> sge.done, len |-> CopyLen])
  /\ sge' = IF sge.done + CopyLen >= EntryLen(sge.entry)
              THEN [entry |-> sge.entry + 1, done |-> 0]
              ELSE [sge EXCEPT !.done = 0]
  /\ IF offset + CopyLen < Segs[seg].len
       THEN offset' = offset + CopyLen /\ UNCHANGED <<pc, seg>>
       ELSE /\ offset' = 0 /\ seg' = seg + 1
            /\ pc' = IF seg = Len(Segs) THEN "bounced" ELSE "copy"
  /\ UNCHANGED <<req, table, flags, remained, live>>

\* One round of shannon_copy_bounce_pages, in either direction: in the
\* conversion of a write, in shannon_complete_fs_io for a read.
CopyChunk ==
  /\ pc = "copy"
  /\ copies' = Append(copies, [seg |-> seg, from |-> offset, entry |-> sge.entry,
                               to |-> sge.done, len |-> CopyLen])
  /\ sge' = IF sge.done + CopyLen >= EntryLen(sge.entry)
              THEN [entry |-> sge.entry + 1, done |-> 0]
              ELSE [sge EXCEPT !.done = @ + CopyLen]
  /\ IF offset + CopyLen < Segs[seg].len
       THEN offset' = offset + CopyLen /\ UNCHANGED <<pc, seg>>
       ELSE /\ offset' = 0 /\ seg' = seg + 1
            /\ pc' = IF seg = Len(Segs) THEN "bounced" ELSE "copy"
  /\ UNCHANGED <<req, table, flags, remained, live>>

\* The bio is converted and no copy is under way: a write was copied in the
\* conversion, a read is not copied before it completes.
Converted == pc = "bounced" \/ (pc = "copy" /\ copies = <<>>)

\* shannon_free_bounce_pages(sbio->sg, sbio->used_sg_count): on completion,
\* and on the error path of shannon_make_request.
FreePages ==
  /\ Converted
  /\ live' = live \ {sg[n].pg : n \in 1 .. Len(sg)}
  /\ pc' = "done"
  /\ UNCHANGED <<req, table, flags, place, copy>>

\* The core rejects the bio in a submit task, or shannon_make_request_ns gives
\* it up: the table is freed, the pages it names are not.
RejectBio ==
  /\ Converted
  /\ pc' = "rejected"
  /\ UNCHANGED <<req, table, flags, place, live, copy>>
-----------------------------------------------------------------------------
Next == \/ Start \/ Segment \/ Split
        \/ AllocPage \/ AllocPageFails \/ Bounced \/ CopyChunk \/ FreePages \/ RejectBio

Spec == Init /\ [][Next]_vars

\* The functions run on a CPU to their end.
FairSpec == Spec /\ WF_vars(Next)
-----------------------------------------------------------------------------
\* sg_count, computed from sizes before the loops, is never too small for
\* the entries they produce, so shannon_sg_next never returns NULL and the
\* SHN_BUG_ON of the SCSI conversion never fires; nor does the copy ever step
\* behind the entry that shannon_alloc_bounce_pages marked as the end.
TableFits ==
  /\ Len(sg) <= sgCount
  /\ pc \in {"split", "bounce"} => Len(sg) < sgCount
  /\ pc = "copy" => sge.entry <= endMark
  /\ pc = "bounced" => sge.entry <= endMark

\* Where entry n starts, counted from the start of the request's first block.
EntryPos(n) ==
  LET before[m \in 0 .. Len(sg)] == IF m = 0 THEN req.start ELSE before[m - 1] + sg[m].len
  IN  before[n - 1]

\* The table is the request: entries on own pages follow each other without
\* a gap or an overlap from the first byte to the last, and bounce pages have
\* exactly the request's size.  And no entry crosses a page or a logical
\* block: the core maps each entry to one block and one DMA address.
ExactCover ==
  /\ \A n \in 1 .. Len(sg) :
       /\ sg[n].off + sg[n].len <= Page
       /\ EntryPos(n) \div Logicb = (EntryPos(n) + sg[n].len - 1) \div Logicb
  /\ \A n \in 1 .. Len(sg) : sg[n].seg # 0 =>
       IF n = 1 THEN sg[n].seg = 1 /\ sg[n].off = Segs[1].off
       ELSE LET p == sg[n - 1]
                e == p.off + p.len
            IN  \/ sg[n].seg = p.seg /\ sg[n].off = e
                \/ /\ sg[n].seg = p.seg + 1 /\ sg[n].off = Segs[sg[n].seg].off
                   /\ e = Segs[p.seg].off + Segs[p.seg].len
  /\ pc \in {"copy", "bounced", "done"} => EntryPos(Len(sg) + 1) = req.start + Size

\* The copy between segments and bounce pages moves every byte once and to
\* its own place: the n-th byte of the request is the n-th of the table, whatever
\* the two ways of cutting it.
CopyExact ==
  LET SegPos(k) == Total(SubSeq(Segs, 1, k - 1))
      before    == [n \in 1 .. Len(copies) + 1 |-> Total(SubSeq(copies, 1, n - 1))]
  IN  /\ \A n \in 1 .. Len(copies) :
           /\ before[n] = SegPos(copies[n].seg) + copies[n].from
           /\ before[n] = EntryPos(copies[n].entry) - req.start + copies[n].to
           /\ copies[n].to + copies[n].len <= EntryLen(copies[n].entry)
      /\ pc = "bounced" => before[Len(copies) + 1] = Size

\* What bouncing is for: an entry the device is given starts and ends at
\* eight bytes, or the bio is marked as having a hole.
AlignedOrHole ==
  pc \in {"copy", "bounced", "done"} /\ req.kind = "bio" /\ ~hasHole =>
    \A n \in 1 .. Len(sg) : sg[n].off % Align = 0 /\ sg[n].len % Align = 0

\* A segment behind the first that starts inside its page, or one before the
\* last that ends inside it, as the comments of the conversions have it.
Hole == \E k \in 1 .. Len(Segs) : \/ k > 1 /\ Segs[k].off # 0
                                  \/ k < Len(Segs) /\ Segs[k].off + Segs[k].len # Page

\* A request mapped on its own pages with a hole is marked as having one.
HolesSeen == pc = "done" /\ ~needBounce /\ Hole => hasHole

\* Bounce pages live as long as the table names them, and on the way out all
\* of them are freed or none: none of a failed allocation is left, none of a
\* bio that completes or that shannon_make_request gives up; a bio rejected
\* by a submit task or given up by shannon_make_request_ns leaves all it has.
BouncePagesReturned ==
  /\ pc \in {"bounce", "copy", "bounced", "rejected"} => {sg[n].pg : n \in 1 .. Len(sg)} = live
  /\ pc \in {"segment", "split", "done"} => live = {}

\* The loops end for every request (the do-while of the copy included).
ConvertEnds == <>(pc \in {"done", "rejected"})
=============================================================================
