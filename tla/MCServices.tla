----------------------------- MODULE MCServices -----------------------------
(***************************************************************************)
(* The instance of Services that TLC checks.                               *)
(***************************************************************************)
EXTENDS Services

Slot == {"exp", "bridge", "bexp"}

\* A card and slot for each way a reset or a retraining can go.
MCCards ==
  {Slot \cup {"flr"}, Slot \cup {"af", "aftp", "afflr"},
   Slot \cup {"pm", "softreset", "d0"},
   Slot \cup {"pm", "softreset", "peer", "btimeout"},
   {"root", "pm", "flr"}, {"bridge", "af", "pm", "aftp"},
   Slot \cup {"sub", "pm", "softreset", "d0"}}

\* Two groups of three luns; a super block takes 2 planes of 4096 pages of 2
\* sectors.  Every map ends where its memory does: 6 luns of 16384 pages fill 3
\* pages of memory, of 32768 sectors or blocks 6, and two heads of 16384
\* sectors 6.
MCGeo ==
  [luns |-> 6, group |-> 3, sbs |-> 2, sib |-> 16384, pages |-> 4096,
   planes |-> 2, page |-> 2, eblocks |-> 32768, mbr |-> 1]

MCOffsets == {-1, 0, 7}
=============================================================================
