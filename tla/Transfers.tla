----------------------------- MODULE Transfers ------------------------------
(***************************************************************************)
(* Two places where the driver copies bytes between a buffer of its own    *)
(* and one it is handed in pieces:                                         *)
(*   - shannon_fill_from_dev_buffer (shannon_scsi.c), the answer to a SCSI *)
(*     command such as INQUIRY, put into the command's scatter list.  The  *)
(*     file has five versions of it, one per kernel generation;            *)
(*   - the debug character device (shannon_cdev.c), which reads and writes *)
(*     tables kept in memory blocks that are allocated on first use.       *)
(* A byte is only a position; what is recorded is which positions of which *)
(* buffer were copied where.                                               *)
(***************************************************************************)
EXTENDS Integers, Sequences, FiniteSets, FiniteSetsExt, SequencesExt

CONSTANTS MaxEntries, MaxLen,  \* the scatter list: entries and their lengths
          MaxAnswer,           \* bytes of the answer to a command
          PerBlock,            \* table entries in a memory block
          NBlocks,             \* memory blocks of a map table
          Counts, Offsets,     \* sizes of a read or write, offsets of a seek
          MaxCdevCalls

ASSUME TransferAssumption ==
  /\ {MaxEntries, MaxLen, MaxAnswer, MaxCdevCalls} \subseteq Nat
  /\ {PerBlock, NBlocks} \subseteq Nat \ {0}
  /\ Counts \subseteq Nat /\ Offsets \subseteq Int

VARIABLE xf

Total(sgs) == FoldLeft(LAMBDA a, n : a + n, 0, sgs)

\* The kernel generations with a version of their own.  3.11 only differs in
\* how the residual is set.
Gens == {"2.6.23", "2.6.24", "2.6.25", "2.6.26", "3.11", "5.1"}

\* A command: the lengths of its scatter entries or, below 2.6.25, one flat
\* buffer; its residual is not yet used (0) or already set to everything the
\* command asks for; unmapped is the entry kmap_atomic fails for, 0 for none.
FillCmds ==
  {c \in [gen : Gens, dir : {"from", "bidi", "to"}, buffer : BOOLEAN,
          flat : BOOLEAN, sgs : SeqOf(1 .. MaxLen, MaxEntries),
          full : BOOLEAN, unmapped : 0 .. MaxEntries] :
     /\ c.flat => c.gen \in {"2.6.23", "2.6.24"} /\ Len(c.sgs) = 1
     /\ ~c.buffer => c.gen \in {"2.6.23", "2.6.24", "2.6.25"}
     /\ c.unmapped > 0 => /\ c.gen \in {"2.6.23", "2.6.24", "2.6.25"}
                          /\ ~c.flat /\ c.unmapped <= Len(c.sgs)}

Resid0(c) == IF c.full THEN Total(c.sgs) ELSE 0
Smaller(a, b) == IF a < b THEN a ELSE b
Answered(r, pieces) == [ret |-> "ok", resid |-> r, pieces |-> pieces]
NotAnswered(c, ret) == [ret |-> ret, resid |-> Resid0(c), pieces |-> <<>>]

\* if (scp->resid) scp->resid -= act_len; else scp->resid = req_len - act_len;
NewResid(c, req, act) == IF Resid0(c) # 0 THEN Resid0(c) - act ELSE req - act

\* Mutant: the first entry that does not fit ends nothing.
FillEntryStaysActive(arr_len, s, len) ==
  LET fits == s.req + len <= arr_len
      n == IF fits THEN len ELSE arr_len - s.req
  IN [s EXCEPT !.req = @ + len,
               !.act = @ + n,
               !.pieces = Append(@, <<s.req, n>>)]

\* One entry of the scatter list: copied while the loop is active, the last
\* part that fits switches it off, the requested length goes on counting.
FillEntry(arr_len, s, len) ==
  LET fits == s.req + len <= arr_len
      n == IF fits THEN len ELSE arr_len - s.req
  IN IF s.active
     THEN [req |-> s.req + len, act |-> s.act + n, active |-> fits,
           pieces |-> Append(s.pieces, <<s.req, n>>)]
     ELSE [s EXCEPT !.req = @ + len]

FillLoop(sgs, arr_len) ==
  FoldLeft(LAMBDA s, len : FillEntry(arr_len, s, len),
           [req |-> 0, act |-> 0, active |-> TRUE, pieces |-> <<>>], sgs)

\* The copy into the scatter list; kmap_atomic failing for an entry the loop
\* is still active at gives the command up, residual untouched.
FillList(c, arr_len) ==
  LET s == FillLoop(c.sgs, arr_len)
  IN IF c.unmapped > 0 /\ FillLoop(SubSeq(c.sgs, 1, c.unmapped - 1), arr_len).active
     THEN [NotAnswered(c, "DID_ERROR") EXCEPT
             !.pieces = SubSeq(s.pieces, 1, c.unmapped - 1)]
     ELSE Answered(NewResid(c, s.req, s.act), s.pieces)

\* The flat request buffer of the oldest kernels (use_sg 0).
FillFlat(c, arr_len) ==
  LET act == Smaller(Total(c.sgs), arr_len)
  IN Answered(NewResid(c, Total(c.sgs), act), <<<<0, act>>>>)

\* Before 2.6.24, and 2.6.24 itself with chained scatter lists.
fill_2_6_23(c, arr_len) ==
  CASE Total(c.sgs) = 0 -> NotAnswered(c, "ok")
    [] Total(c.sgs) # 0 /\ ~c.buffer -> NotAnswered(c, "DID_ERROR")
    [] Total(c.sgs) # 0 /\ c.buffer /\ c.dir = "to" -> NotAnswered(c, "DID_ERROR")
    [] OTHER -> IF c.flat THEN FillFlat(c, arr_len) ELSE FillList(c, arr_len)

fill_2_6_24(c, arr_len) == fill_2_6_23(c, arr_len)

\* 2.6.25: the scsi_data_buffer of the command, never flat.
fill_2_6_25(c, arr_len) ==
  CASE Total(c.sgs) = 0 -> NotAnswered(c, "ok")
    [] Total(c.sgs) # 0 /\ (~c.buffer \/ c.dir = "to") -> NotAnswered(c, "DID_ERROR")
    [] OTHER -> FillList(c, arr_len)

\* Kernel: sg_copy_from_buffer fills the list from its start and returns how
\* much it copied.
sg_copy_from_buffer(sgs, arr_len) == Smaller(Total(sgs), arr_len)

\* 2.6.26 to 5.0; from 3.11 on the residual is always set afresh.
fill_2_6_26(c, arr_len) ==
  LET act == sg_copy_from_buffer(c.sgs, arr_len)
  IN CASE Total(c.sgs) = 0 -> NotAnswered(c, "ok")
       [] Total(c.sgs) # 0 /\ c.dir = "to" -> NotAnswered(c, "DID_ERROR")
       [] OTHER -> Answered(IF c.gen = "3.11" THEN Total(c.sgs) - act
                                              ELSE NewResid(c, Total(c.sgs), act),
                            <<<<0, act>>>>)

\* 5.1 and later: bidirectional commands are refused.
fill_5_1(c, arr_len) ==
  LET act == sg_copy_from_buffer(c.sgs, arr_len)
  IN CASE Total(c.sgs) = 0 -> NotAnswered(c, "ok")
       [] Total(c.sgs) # 0 /\ c.dir # "from" -> NotAnswered(c, "DID_ERROR")
       [] OTHER -> Answered(Total(c.sgs) - act, <<<<0, act>>>>)

shannon_fill_from_dev_buffer(c, arr_len) ==
  CASE c.gen = "2.6.23" -> fill_2_6_23(c, arr_len)
    [] c.gen = "2.6.24" -> fill_2_6_24(c, arr_len)
    [] c.gen = "2.6.25" -> fill_2_6_25(c, arr_len)
    [] c.gen \in {"2.6.26", "3.11"} -> fill_2_6_26(c, arr_len)
    [] c.gen = "5.1" -> fill_5_1(c, arr_len)

\* The core answers a command of the mid-layer.
Answer(c, arr_len) ==
  xf' = [xf EXCEPT !.fill = <<c, arr_len, shannon_fill_from_dev_buffer(c, arr_len)>>]

(***************************************************************************)
(* The debug character device.                                             *)
(***************************************************************************)
Types == {"NORMAL_TYPE", "MAPTABLE_MEMBLOCK_TYPE", "TEMPTABLE_MEMBLOCK_TYPE"}

\* MAPTABLE_MEMBLOCK_SIZE and TEMPTABLE_MEMBLOCK_SIZE: a block has PerBlock
\* entries, of four bytes in a map table and of one in a temporary table.
BlockSize(t) == IF t = "TEMPTABLE_MEMBLOCK_TYPE" THEN PerBlock ELSE 4 * PerBlock
DevSize == 4 * PerBlock * NBlocks
BlockOf(t, pos) == pos \div BlockSize(t)

\* Core: check_and_alloc_memblock(smb, entry) makes sure of the block of a
\* table entry.
MemblockOf(entry) == entry \div PerBlock

XferStart(t) ==
  [fill |-> <<>>, type |-> t, pos |-> 0, pc |-> "idle", op |-> "none",
   count |-> 0, remain |-> 0, start |-> 0, ret |-> 0, blocks |-> {},
   pieces |-> <<>>, missed |-> {}, calls |-> 0]

XferInit == \E t \in Types : xf = XferStart(t)

Returned(r) == [xf EXCEPT !.pc = "idle", !.ret = r]

\* debug_cdev_read and debug_cdev_write up to their loop: nothing at or past
\* the end, otherwise the count is clipped to the device.
BeginCopy(op, n) ==
  /\ xf.pc = "idle" /\ xf.fill = <<>> /\ xf.calls < MaxCdevCalls
  /\ xf' = [xf EXCEPT !.calls = @ + 1, !.op = op, !.start = xf.pos,
                      !.pieces = <<>>, !.missed = {},
                      !.pc = IF xf.pos >= DevSize THEN "idle" ELSE "copy",
                      !.count = IF xf.pos >= DevSize THEN 0
                                ELSE Smaller(n, DevSize - xf.pos),
                      !.remain = IF xf.pos >= DevSize THEN 0
                                 ELSE Smaller(n, DevSize - xf.pos),
                      !.ret = 0]

\* Mutant: a piece is as long as a block, wherever in the block it starts.
PieceUnaligned(t, pos, remain) ==
  IF t = "NORMAL_TYPE" THEN remain ELSE Smaller(remain, BlockSize(t))

\* data_len: what is left, but no more than the rest of the block.
Piece(t, pos, remain) ==
  IF t = "NORMAL_TYPE" THEN remain
  ELSE Smaller(remain, BlockSize(t) - (pos % BlockSize(t)))

\* The block the code asks for before it copies: a read passes f_pos >> 2 for
\* both kinds of table, a write passes f_pos.
AskedBlock(op, pos) == MemblockOf(IF op = "read" THEN pos \div 4 ELSE pos)

\* One turn of the loop: make sure of a block, copy, advance.
CopyPiece ==
  /\ xf.pc = "copy" /\ xf.remain > 0
  /\ LET n == Piece(xf.type, xf.pos, xf.remain)
         b == BlockOf(xf.type, xf.pos)
         held == IF xf.type = "NORMAL_TYPE" THEN {b}
                 ELSE xf.blocks \cup {AskedBlock(xf.op, xf.pos)}
     IN xf' = [xf EXCEPT !.blocks = IF xf.type = "NORMAL_TYPE" THEN @ ELSE held,
                         !.missed = @ \cup ({b} \ held),
                         !.pieces = Append(@, <<xf.pos, n>>),
                         !.pos = @ + n, !.remain = @ - n]

\* The block cannot be had, or the user's page cannot be reached: the pieces
\* already copied stay copied and the file position stays where they end.
CopyFails ==
  /\ xf.pc = "copy" /\ xf.remain > 0
  /\ xf' = Returned(-14)

CopyDone ==
  /\ xf.pc = "copy" /\ xf.remain = 0
  /\ xf' = Returned(xf.count)

debug_cdev_read(n) == BeginCopy("read", n)
debug_cdev_write(n) == BeginCopy("write", n)

\* debug_cdev_llseek: a negative position is refused, one past the end is not.
debug_cdev_llseek(off, whence) ==
  /\ xf.pc = "idle" /\ xf.fill = <<>> /\ xf.calls < MaxCdevCalls
  /\ LET newpos == off + (CASE whence = "SEEK_SET" -> 0
                            [] whence = "SEEK_CUR" -> xf.pos
                            [] whence = "SEEK_END" -> DevSize)
     IN xf' = [xf EXCEPT !.calls = @ + 1, !.op = "llseek", !.start = 0,
                         !.count = 0, !.pieces = <<>>, !.missed = {},
                         !.pos = IF newpos < 0 THEN @ ELSE newpos,
                         !.ret = IF newpos < 0 THEN -22 ELSE newpos]

XferNext ==
  \/ /\ xf.fill = <<>> /\ xf.calls = 0
     /\ \E c \in FillCmds, n \in 0 .. MaxAnswer : Answer(c, n)
  \/ \E n \in Counts : debug_cdev_read(n) \/ debug_cdev_write(n)
  \/ \E off \in Offsets, w \in {"SEEK_SET", "SEEK_CUR", "SEEK_END"} :
       debug_cdev_llseek(off, w)
  \/ CopyPiece \/ CopyFails \/ CopyDone
-----------------------------------------------------------------------------
\* What a command's buffer holds once pieces were copied: byte i of the
\* answer at byte i of the list, for i below the sum.
Delivered(pieces) == FoldLeft(LAMBDA a, p : a + p[2], 0, pieces)
InOrder(pieces) ==
  \A i \in 1 .. Len(pieces) :
    pieces[i][2] >= 0 /\ pieces[i][1] = Delivered(SubSeq(pieces, 1, i - 1))

\* Whatever the kernel generation, the shape of the scatter list and the
\* length of the answer, a command that shannon_fill_from_dev_buffer accepts
\* gets exactly as much of the answer as fits, each entry the bytes that
\* belong there, and its residual is what is left unfilled; a command it
\* refuses keeps its residual.
FillExact ==
  xf.fill # <<>> =>
    LET c == xf.fill[1]
        r == xf.fill[3]
        fit == Smaller(Total(c.sgs), xf.fill[2])
    IN /\ r.ret = "ok" /\ c.sgs # <<>> =>
            /\ r.resid = Total(c.sgs) - fit
            /\ Delivered(r.pieces) = fit
            /\ \A p \in Range(r.pieces) : p[1] + p[2] <= xf.fill[2] \/ p[2] = 0
            /\ InOrder(SelectSeq(r.pieces, LAMBDA p : p[2] # 0))
       /\ r.ret # "ok" => r.resid = Resid0(c)

\* A read or a write of the debug device copies pieces that follow each other
\* from the file position and never cross a memory block; it returns what it
\* copied, and the position ends where the last piece does even when the call
\* reports a fault.  On the two paths where the index passed to
\* check_and_alloc_memblock is the right one (a map table read, a temporary
\* table written) every block copied from or to has been made sure of.
CdevExact ==
  /\ xf.op \in {"read", "write"} =>
       /\ xf.pos = xf.start + Delivered(xf.pieces)
       /\ \A i \in 1 .. Len(xf.pieces) :
            LET p == xf.pieces[i]
            IN /\ p[1] = xf.start + Delivered(SubSeq(xf.pieces, 1, i - 1))
               /\ p[1] + p[2] <= DevSize
               /\ xf.type # "NORMAL_TYPE" =>
                    BlockOf(xf.type, p[1]) = BlockOf(xf.type, p[1] + p[2] - 1)
       /\ xf.pc = "idle" /\ xf.ret >= 0 => xf.ret = Delivered(xf.pieces)
  /\ <<xf.type, xf.op>> \in {<<"MAPTABLE_MEMBLOCK_TYPE", "read">>,
                              <<"TEMPTABLE_MEMBLOCK_TYPE", "write">>} => xf.missed = {}
=============================================================================
