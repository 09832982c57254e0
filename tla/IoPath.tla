------------------------------- MODULE IoPath -------------------------------
(***************************************************************************)
(* The life of a file-system request in shannon_block.c: a bio for a       *)
(* device (shannon_make_request), a bio for a namespace                    *)
(* (shannon_make_request_ns) or a blk-mq request (shannon_disk_request),   *)
(* through conversion, the per-CPU work queue or direct submission to the  *)
(* core, to shannon_complete_fs_io or to the unwinding of an error.  The   *)
(* core (shipped as objects) is external: it accepts or rejects a request, *)
(* moves its data, calls shannon_complete_fs_io and frees what it owns.    *)
(* Steps of one request interleave with those of the others, with a device *)
(* that fails or turns read-only and with the removal of the namespace.    *)
(***************************************************************************)
EXTENDS Integers, FiniteSets

CONSTANTS DevBios, NsBios, Lreqs,  \* the requests of the three kinds
          PoolSize,                \* shannon_bio structures of alloc_sbio
          CoreErrors               \* what the core returns when it rejects

Ios == DevBios \cup NsBios \cup Lreqs

\* A rejection is negative, and not a multiple of 256 as -ERESTARTSYS (-512)
\* would be: bi_status has eight bits.
ASSUME IoAssumption ==
  /\ IsFiniteSet(Ios)
  /\ DevBios \cap NsBios = {} /\ DevBios \cap Lreqs = {} /\ NsBios \cap Lreqs = {}
  /\ PoolSize \in Nat \ {0}
  /\ CoreErrors \subseteq {e \in Int : e < 0 /\ e % 256 # 0}

EIO    == -5
ENOMEM == -12
EINVAL == -22
BLK_STS_IOERR == 10

VARIABLES
  percpuWq,   \* shannon_percpu_wq: "null", or "made" by shannon_init
  op,         \* what each request asks for
  crooked,    \* the requests with a segment not aligned to 8 bytes
  pc,         \* where each request is
  ret,        \* the handler's ret
  holds,      \* what the driver holds for each request
  bufs,       \* where the data of each request is
  answers,    \* how often each request was ended
  status,     \* the status it was ended with
  bad,        \* the requests with sbio->status # 0
  freeSbio,   \* shannon_bio structures left in the pool
  pendingNs,  \* the namespace's pending_bios
  ok,         \* shannon_check_availability (and _ns) returns 0
  readonly,   \* shannon_disk_readonly (and _ns)
  ns          \* the namespace: "live", "frozen" (being removed) or "gone"

request == <<percpuWq, op, crooked>>
answer  == <<answers, status, bad>>
device  == <<ok, readonly, ns>>
vars    == <<request, pc, ret, holds, bufs, answer, freeSbio, pendingNs, device>>

Ops   == {"read", "write", "trim", "empty", "passthrough"}
Owned == {"sbio", "sg", "bounce", "acct", "pending"}
PCs   == {"new", "enter", "check", "screen", "alloc", "convert", "lpmt", "room", "acct",
          "queued", "submit", "end_io_acct", "free_sg_list", "free_sbio", "end", "decrease",
          "task_unwind", "task_end", "task_free",
          "core", "complete", "complete_end", "core_free", "done"}

Bios == DevBios \cup NsBios

UseWq == percpuWq = "made"

Init ==
  /\ percpuWq \in {"null", "made"}
  /\ op \in [Ios -> Ops] /\ \A i \in Bios : op[i] # "passthrough"
  /\ crooked \in SUBSET Bios
  /\ pc = [i \in Ios |-> "new"]
  /\ ret = [i \in Ios |-> 0]
  /\ holds = [i \in Ios |-> {}]
  /\ bufs = [i \in Ios |-> IF op[i] = "write" THEN {"pages"}
                           ELSE IF op[i] = "read" THEN {"media"} ELSE {}]
  /\ answers = [i \in Ios |-> 0]
  /\ status = [i \in Ios |-> 0]
  /\ bad = {}
  /\ freeSbio = PoolSize
  /\ pendingNs = 0
  /\ ok = TRUE /\ readonly \in BOOLEAN /\ ns = "live"

Goto(i, l) == pc' = [pc EXCEPT ![i] = l]
Fails(i, e) == ret' = [ret EXCEPT ![i] = e]
Take(i, rs) == holds' = [holds EXCEPT ![i] = @ \cup rs]
Drop(i, rs) == holds' = [holds EXCEPT ![i] = @ \ rs]
-----------------------------------------------------------------------------
(* Entry and the tests before anything is allocated *)

\* The block layer hands the request over; a namespace whose queue is being
\* frozen for its removal takes no new one (block layer).
Submit(i) ==
  /\ pc[i] = "new"
  /\ i \in NsBios => ns = "live"
  /\ Goto(i, IF i \in NsBios THEN "enter" ELSE "check")
  /\ UNCHANGED <<request, ret, holds, bufs, answer, freeSbio, pendingNs, device>>

\* Mutant: the request is not counted as pending.
NoIncrease(i) ==
  /\ pc[i] = "enter"
  /\ Goto(i, "check")
  /\ UNCHANGED <<request, ret, holds, bufs, answer, freeSbio, pendingNs, device>>

increase_ns_pending_bios(i) ==
  /\ pc[i] = "enter"
  /\ pendingNs' = pendingNs + 1
  /\ Take(i, {"pending"})
  /\ Goto(i, "check")
  /\ UNCHANGED <<request, ret, bufs, answer, freeSbio, device>>

shannon_check_availability(i) ==
  /\ pc[i] = "check"
  /\ IF ok THEN Goto(i, "screen") /\ UNCHANGED ret
           ELSE Goto(i, "end") /\ Fails(i, EIO)
  /\ UNCHANGED <<request, holds, bufs, answer, freeSbio, pendingNs, device>>

\* A discard, an empty request, a request that is not for the file system and
\* a write to a read-only device end here (a namespace tests that later).
Screen(i) ==
  /\ pc[i] = "screen"
  /\ \/ op[i] \in {"trim", "empty"} /\ Goto(i, "end") /\ UNCHANGED ret
     \/ op[i] = "passthrough" /\ Goto(i, "end") /\ Fails(i, EIO)
     \/ op[i] = "write" /\ i \notin NsBios /\ readonly /\ Goto(i, "end") /\ Fails(i, EIO)
     \/ /\ op[i] \in {"read", "write"}
        /\ op[i] = "write" /\ i \notin NsBios => ~readonly
        /\ Goto(i, "alloc") /\ UNCHANGED ret
  /\ UNCHANGED <<request, holds, bufs, answer, freeSbio, pendingNs, device>>

\* GFP_NOIO: alloc_sbio waits for a structure (external).
alloc_sbio(i) ==
  /\ pc[i] = "alloc"
  /\ freeSbio > 0
  /\ freeSbio' = freeSbio - 1
  /\ Take(i, {"sbio"})
  /\ Goto(i, "convert")
  /\ UNCHANGED <<request, ret, bufs, answer, pendingNs, device>>

\* The one caller that expects NULL.
AllocFails(i) ==
  /\ pc[i] = "alloc"
  /\ i \in DevBios
  /\ freeSbio = 0
  /\ Fails(i, ENOMEM)
  /\ Goto(i, "end")
  /\ UNCHANGED <<request, holds, bufs, answer, freeSbio, pendingNs, device>>
-----------------------------------------------------------------------------
(* Conversion, mapping table and room *)

\* Mutant: the data of a write is not copied to the bounce pages.
ConvertNoCopy(i) ==
  /\ pc[i] = "convert"
  /\ Take(i, IF i \in crooked THEN {"sg", "bounce"} ELSE {"sg"})
  /\ Goto(i, "lpmt")
  /\ UNCHANGED <<request, ret, bufs, answer, freeSbio, pendingNs, device>>

\* shannon_convert_bio or shannon_convert_lreq: the list of pages, and bounce
\* pages for a crooked bio, filled for a write; if there is no memory for
\* them the bio's own pages are used after all.
Convert(i) ==
  /\ pc[i] = "convert"
  /\ Goto(i, "lpmt")
  /\ \/ /\ Take(i, {"sg"})
        /\ UNCHANGED bufs
     \/ /\ i \in crooked
        /\ Take(i, {"sg", "bounce"})
        /\ bufs' = IF op[i] = "write" THEN [bufs EXCEPT ![i] = @ \cup {"bounce"}] ELSE bufs
  /\ UNCHANGED <<request, ret, answer, freeSbio, pendingNs, device>>

ConvertFails(i) ==
  /\ pc[i] = "convert"
  /\ \E e \in IF i \in Bios THEN {ENOMEM, EINVAL} ELSE {ENOMEM} : Fails(i, e)
  /\ Goto(i, "free_sbio")
  /\ UNCHANGED <<request, holds, bufs, answer, freeSbio, pendingNs, device>>

\* The core extends its mapping table for a write (external), or cannot.
check_and_alloc_lpmt(i) ==
  /\ pc[i] = "lpmt"
  /\ \/ /\ Goto(i, IF i \in NsBios THEN "room" ELSE IF i \in DevBios THEN "acct" ELSE "submit")
        /\ UNCHANGED ret
     \/ op[i] = "write" /\ Fails(i, EIO) /\ Goto(i, "free_sg_list")
  /\ UNCHANGED <<request, holds, bufs, answer, freeSbio, pendingNs, device>>

\* A write to a namespace is refused if it is read-only, or if its pool is
\* used to an eighth and the write overwrites nothing (core, external).
Room(i) ==
  /\ pc[i] = "room"
  /\ \/ op[i] = "write" /\ Fails(i, EIO) /\ Goto(i, "free_sg_list")
     \/ (op[i] = "write" => ~readonly) /\ Goto(i, "acct") /\ UNCHANGED ret
  /\ UNCHANGED <<request, holds, bufs, answer, freeSbio, pendingNs, device>>
-----------------------------------------------------------------------------
(* Submission *)

\* Statistics, then the work queue if there is one.
StartAcct(i) ==
  /\ pc[i] = "acct"
  /\ Take(i, {"acct"})
  /\ Goto(i, IF UseWq THEN "queued" ELSE "submit")
  /\ UNCHANGED <<request, ret, bufs, answer, freeSbio, pendingNs, device>>

\* shannon_submit_bio, or shannon_submit_bio_throttling_ns (external).
CoreAccepts(i) ==
  /\ pc[i] \in {"queued", "submit"}
  /\ Goto(i, "core")
  /\ UNCHANGED <<request, ret, holds, bufs, answer, freeSbio, pendingNs, device>>

CoreRejects(i) ==
  /\ pc[i] \in {"queued", "submit"}
  /\ \E e \in CoreErrors : Fails(i, e)
  /\ Goto(i, IF pc[i] = "queued" THEN "task_unwind"
             ELSE IF i \in Bios THEN "end_io_acct" ELSE "free_sg_list")
  /\ UNCHANGED <<request, holds, bufs, answer, freeSbio, pendingNs, device>>
-----------------------------------------------------------------------------
(* The error labels of the handlers *)

EndIoAcct(i) ==
  /\ pc[i] = "end_io_acct"
  /\ Drop(i, {"acct"})
  /\ Goto(i, "free_sg_list")
  /\ UNCHANGED <<request, ret, bufs, answer, freeSbio, pendingNs, device>>

\* Mutant: shannon_make_request forgets the bounce pages too.
FreeSgListOnly(i) ==
  /\ pc[i] = "free_sg_list"
  /\ Drop(i, {"sg"})
  /\ Goto(i, "free_sbio")
  /\ UNCHANGED <<request, ret, bufs, answer, freeSbio, pendingNs, device>>

\* Only shannon_make_request frees the bounce pages.
FreeSgList(i) ==
  /\ pc[i] = "free_sg_list"
  /\ Drop(i, IF i \in DevBios THEN {"sg", "bounce"} ELSE {"sg"})
  /\ Goto(i, "free_sbio")
  /\ UNCHANGED <<request, ret, bufs, answer, freeSbio, pendingNs, device>>

\* Mutant: the structure is not put back.
NoFreeSbio(i) ==
  /\ pc[i] = "free_sbio"
  /\ Goto(i, "end")
  /\ UNCHANGED <<request, ret, holds, bufs, answer, freeSbio, pendingNs, device>>

FreeSbio(i) ==
  /\ pc[i] = "free_sbio"
  /\ freeSbio' = freeSbio + 1
  /\ Drop(i, {"sbio"})
  /\ Goto(i, "end")
  /\ UNCHANGED <<request, ret, bufs, answer, pendingNs, device>>

\* shannon_bio_endio stores an int in the eight bits of bi_status.
shannon_bio_endio(i, error) ==
  /\ answers' = [answers EXCEPT ![i] = @ + 1]
  /\ status' = [status EXCEPT ![i] = error % 256]
  /\ UNCHANGED bad

\* Mutant: LREQ_IO_GOOD is taken for an error code.
EndRequestSwapped(i, good) ==
  /\ answers' = [answers EXCEPT ![i] = @ + 1]
  /\ status' = [status EXCEPT ![i] = IF good THEN BLK_STS_IOERR ELSE 0]
  /\ UNCHANGED bad

shannon_end_request(i, good) ==
  /\ answers' = [answers EXCEPT ![i] = @ + 1]
  /\ status' = [status EXCEPT ![i] = IF good THEN 0 ELSE BLK_STS_IOERR]
  /\ UNCHANGED bad

\* The handler answers.  A request that met -ENOMEM is answered by blk-mq, with
\* the BLK_STS_IOERR that shannon_disk_request makes of it.
End(i) ==
  /\ pc[i] = "end"
  /\ IF i \in Bios THEN shannon_bio_endio(i, ret[i])
                   ELSE shannon_end_request(i, ret[i] = 0)
  /\ Goto(i, IF i \in NsBios THEN "decrease" ELSE "done")
  /\ UNCHANGED <<request, ret, holds, bufs, freeSbio, pendingNs, device>>

decrease_ns_pending_bios(i) ==
  /\ pc[i] = "decrease"
  /\ pendingNs' = pendingNs - 1
  /\ Drop(i, {"pending"})
  /\ Goto(i, "done")
  /\ UNCHANGED <<request, ret, bufs, answer, freeSbio, device>>
-----------------------------------------------------------------------------
(* submit_sbio_task and submit_sbio_task_ns after a rejection *)

\* Mutant: the statistics are closed after the bio was ended.
TaskUnwindLate(i) ==
  /\ pc[i] = "task_unwind"
  /\ Drop(i, {"sg"})
  /\ Goto(i, "task_end")
  /\ UNCHANGED <<request, ret, bufs, answer, freeSbio, pendingNs, device>>

TaskUnwind(i) ==
  /\ pc[i] = "task_unwind"
  /\ Drop(i, {"acct", "sg"})
  /\ Goto(i, "task_end")
  /\ UNCHANGED <<request, ret, bufs, answer, freeSbio, pendingNs, device>>

TaskEnd(i) ==
  /\ pc[i] = "task_end"
  /\ shannon_bio_endio(i, ret[i])
  /\ Goto(i, "task_free")
  /\ UNCHANGED <<request, ret, holds, bufs, freeSbio, pendingNs, device>>

\* Mutant: a rejecting core has freed the structure already.
TaskFreeTwice(i) ==
  /\ pc[i] = "task_free"
  /\ freeSbio' = freeSbio + 2
  /\ Drop(i, {"sbio"})
  /\ Goto(i, IF i \in NsBios THEN "decrease" ELSE "done")
  /\ UNCHANGED <<request, ret, bufs, answer, pendingNs, device>>

TaskFree(i) ==
  /\ pc[i] = "task_free"
  /\ freeSbio' = freeSbio + 1
  /\ Drop(i, {"sbio"})
  /\ Goto(i, IF i \in NsBios THEN "decrease" ELSE "done")
  /\ UNCHANGED <<request, ret, bufs, answer, pendingNs, device>>
-----------------------------------------------------------------------------
(* Completion by the core *)

\* The device moves the data between the media and the pages of the list, the
\* bounce pages if there are any, or reports error sectors (external).
CoreTransfer(i) ==
  LET target == IF "bounce" \in holds[i] THEN "bounce" ELSE "pages"
  IN  /\ pc[i] = "core"
      /\ bufs' = [bufs EXCEPT ![i] = @ \cup (IF op[i] = "read" THEN {target}
                                             ELSE IF target \in @ THEN {"media"} ELSE {})]
      /\ Goto(i, "complete")
      /\ UNCHANGED <<request, ret, holds, answer, freeSbio, pendingNs, device>>

CoreFails(i) ==
  /\ pc[i] = "core"
  /\ bad' = bad \cup {i}
  /\ Goto(i, "complete")
  /\ UNCHANGED <<request, ret, holds, bufs, answers, status, freeSbio, pendingNs, device>>

\* shannon_complete_fs_io: copy a read back, free the bounce pages and close
\* the statistics, then answer.
shannon_complete_fs_io(i) ==
  /\ pc[i] = "complete"
  /\ bufs' = IF op[i] = "read" /\ "bounce" \in holds[i] \cap bufs[i]
             THEN [bufs EXCEPT ![i] = @ \cup {"pages"}] ELSE bufs
  /\ Drop(i, {"bounce", "acct"})
  /\ Goto(i, "complete_end")
  /\ UNCHANGED <<request, ret, answer, freeSbio, pendingNs, device>>

\* Mutant: sbio->status is not looked at.
CompleteEndOk(i) ==
  /\ pc[i] = "complete_end"
  /\ IF i \in Bios THEN shannon_bio_endio(i, 0) ELSE shannon_end_request(i, TRUE)
  /\ Goto(i, "core_free")
  /\ UNCHANGED <<request, ret, holds, bufs, freeSbio, pendingNs, device>>

CompleteEnd(i) ==
  /\ pc[i] = "complete_end"
  /\ IF i \in Bios THEN shannon_bio_endio(i, IF i \in bad THEN EIO ELSE 0)
                   ELSE shannon_end_request(i, i \notin bad)
  /\ Goto(i, "core_free")
  /\ UNCHANGED <<request, ret, holds, bufs, freeSbio, pendingNs, device>>

\* The core frees the list and the structure, and then uncounts (external).
CoreFree(i) ==
  /\ pc[i] = "core_free"
  /\ freeSbio' = freeSbio + 1
  /\ Drop(i, {"sbio", "sg"})
  /\ Goto(i, IF i \in NsBios THEN "decrease" ELSE "done")
  /\ UNCHANGED <<request, ret, bufs, answer, pendingNs, device>>
-----------------------------------------------------------------------------
(* The environment: the device fails or turns read-only; the namespace is  *)
(* removed, which freezes its queue and waits for pending_bios (external). *)

\* The points at which the block layer counts the caller into the queue.
InHandler == {"enter", "check", "screen", "alloc", "convert", "lpmt", "room", "acct",
              "submit", "end_io_acct", "free_sg_list", "free_sbio", "end"}

DeviceFails == ok /\ ok' = FALSE /\ UNCHANGED <<readonly, ns>>
TurnReadonly == ~readonly /\ readonly' = TRUE /\ UNCHANGED <<ok, ns>>
FreezeNs == ns = "live" /\ ns' = "frozen" /\ UNCHANGED <<ok, readonly>>
FreeNs == /\ ns = "frozen"
          /\ \A i \in NsBios : pc[i] \notin InHandler
          /\ pendingNs = 0
          /\ ns' = "gone" /\ UNCHANGED <<ok, readonly>>

Environment ==
  /\ DeviceFails \/ TurnReadonly \/ FreezeNs \/ FreeNs
  /\ UNCHANGED <<request, pc, ret, holds, bufs, answer, freeSbio, pendingNs>>

Step(i) ==
  \/ increase_ns_pending_bios(i) \/ shannon_check_availability(i) \/ Screen(i)
  \/ alloc_sbio(i) \/ AllocFails(i) \/ Convert(i) \/ ConvertFails(i)
  \/ check_and_alloc_lpmt(i) \/ Room(i) \/ StartAcct(i) \/ CoreAccepts(i) \/ CoreRejects(i)
  \/ EndIoAcct(i) \/ FreeSgList(i) \/ FreeSbio(i) \/ End(i) \/ decrease_ns_pending_bios(i)
  \/ TaskUnwind(i) \/ TaskEnd(i) \/ TaskFree(i)
  \/ CoreTransfer(i) \/ CoreFails(i) \/ shannon_complete_fs_io(i) \/ CompleteEnd(i)
  \/ CoreFree(i)

Next == (\E i \in Ios : Submit(i) \/ Step(i)) \/ Environment

Spec == Init /\ [][Next]_vars

\* Handlers and work items run to their end, and the core completes what it
\* accepted; an allocation that waits is served when structures keep coming.
Fairness == \A i \in Ios : WF_vars(Step(i)) /\ SF_vars(alloc_sbio(i))

FairSpec == Spec /\ Fairness
-----------------------------------------------------------------------------
\* Type correctness.
TypeOK ==
  /\ percpuWq \in {"null", "made"}
  /\ op \in [Ios -> Ops] /\ crooked \subseteq Bios
  /\ pc \in [Ios -> PCs] /\ ret \in [Ios -> Int]
  /\ holds \in [Ios -> SUBSET Owned]
  /\ bufs \in [Ios -> SUBSET {"pages", "bounce", "media"}]
  /\ answers \in [Ios -> Nat] /\ status \in [Ios -> 0 .. 255] /\ bad \subseteq Ios
  /\ freeSbio \in Nat /\ pendingNs \in Nat
  /\ ok \in BOOLEAN /\ readonly \in BOOLEAN /\ ns \in {"live", "frozen", "gone"}

\* The bio is not touched after it was ended: its statistics are closed and
\* its bounce pages copied by then, on every path.
BioNotTouchedAfterEnd ==
  \A i \in Ios : answers[i] > 0 => "acct" \notin holds[i]

\* Whatever way a request ended, the driver holds nothing for it any more,
\* except the bounce pages of a rejected or refused bio: submit_sbio_task,
\* submit_sbio_task_ns and the error labels of shannon_make_request_ns do not
\* free them, shannon_make_request and shannon_complete_fs_io do.
OnlyBounceLeaks ==
  \A i \in Ios : pc[i] = "done" =>
    /\ holds[i] \subseteq {"bounce"}
    /\ holds[i] # {} => /\ i \in crooked /\ ret[i] # 0
                        /\ i \in NsBios \/ UseWq

\* The pool and the namespace's counter agree with what the requests hold:
\* no path frees twice, forgets to free, or counts once too often.
CountersExact ==
  /\ freeSbio + Cardinality({i \in Ios : "sbio" \in holds[i]}) = PoolSize
  /\ pendingNs = Cardinality({i \in Ios : "pending" \in holds[i]})

\* No handler, work item or completion uses the namespace after its removal
\* has freed it, although pending_bios goes up only after the first use.
NsAliveWhileUsed ==
  \A i \in NsBios : pc[i] \notin {"new", "done"} => ns # "gone"

\* An error of the handler, of the core or of the device never turns into
\* success, neither in the eight bits of bi_status nor through LREQ_IO_ERROR.
ErrorsStayErrors ==
  \A i \in Ios : answers[i] > 0 /\ (ret[i] # 0 \/ i \in bad) => status[i] # 0

\* -ENOMEM from shannon_disk_xfer_request "will enqueue this request again":
\* the request is not answered with an error.
NoMemRequeues ==
  \A i \in Lreqs : ret[i] = ENOMEM => status[i] = 0

\* Every request handed to the driver is answered.
EveryRequestEnds == \A i \in Ios : pc[i] # "new" ~> answers[i] > 0

\* The requests that move no data, and those whose data has arrived.
Delivered ==
  {i \in Ios : CASE op[i] = "read"  -> "pages" \in bufs[i]
                 [] op[i] = "write" -> "media" \in bufs[i]
                 [] OTHER           -> TRUE}

Contract == INSTANCE IoContract WITH
  NsIos <- NsBios,
  state <- [i \in Ios |-> IF pc[i] = "new" THEN "new"
                          ELSE IF answers[i] = 0 THEN "open"
                          ELSE IF answers[i] > 1 THEN "again"
                          ELSE IF status[i] = 0 THEN "ok" ELSE "failed"],
  moves <- {i \in Ios : op[i] \in {"read", "write"}},
  delivered <- Delivered,
  nsGone <- (ns = "gone")

\* Each request is answered exactly once, with success only if the data is
\* where the requester wants it, and before the namespace is gone.
KeepsContract == Contract!Spec
=============================================================================
