---------------------------- MODULE IoPathProofs ----------------------------
(***************************************************************************)
(* Theorems about the request path for any number of requests of the three *)
(* kinds, any pool and any error codes the core may return.  Good(i) says  *)
(* what the program point of a request implies: what is held for it, that  *)
(* ret is set exactly on the error labels, where its data is, and whether  *)
(* it was answered.  With CountersExact it is inductive.                   *)
(***************************************************************************)
EXTENDS IoPath, FiniteSetTheorems, TLAPS

SbioPts == {"convert", "lpmt", "room", "acct", "queued", "submit", "end_io_acct",
            "free_sg_list", "free_sbio", "task_unwind", "task_end", "task_free",
            "core", "complete", "complete_end", "core_free"}
SgPts   == SbioPts \ {"convert", "free_sbio", "task_end", "task_free"}
AcctPts == {"queued", "submit", "end_io_acct", "task_unwind", "core", "complete"}
ErrPts  == {"end_io_acct", "free_sg_list", "free_sbio", "task_unwind", "task_end", "task_free"}
DonePts == {"decrease", "done", "task_free", "core_free"}
AnyRet  == {"end", "decrease", "done"}

\* Which kinds of request come to a program point.
KindInv(i) ==
  /\ pc[i] \in {"enter", "room", "decrease"} => i \in NsBios
  /\ pc[i] \in {"acct", "queued", "end_io_acct", "task_unwind", "task_end", "task_free"}
       => i \in Bios
  /\ pc[i] \in {"queued", "task_unwind", "task_end", "task_free"} => UseWq
  /\ pc[i] \in SbioPts \cup {"alloc"} => op[i] \in {"read", "write"}

\* ret is an error on the error labels and zero before them.
RetInv(i) ==
  /\ pc[i] \in ErrPts => ret[i] # 0
  /\ pc[i] \notin ErrPts \cup AnyRet => ret[i] = 0
  /\ ret[i] # 0 => ret[i] % 256 # 0
  /\ pc[i] = "end" /\ ret[i] = 0 => op[i] \notin {"read", "write"}

HoldInv(i) ==
  /\ "pending" \in holds[i] <=> i \in NsBios /\ pc[i] \notin {"new", "enter", "done"}
  /\ "sbio" \in holds[i] <=> pc[i] \in SbioPts
  /\ "sg" \in holds[i] <=> pc[i] \in SgPts
  /\ "acct" \in holds[i] <=> i \in Bios /\ pc[i] \in AcctPts
  /\ "bounce" \in holds[i] =>
       /\ i \in crooked
       /\ \/ pc[i] \in SgPts \ {"complete_end", "core_free"}
          \/ ret[i] # 0 /\ (i \in NsBios \/ UseWq)

\* Where the data is, and what the core has said of it.
DataInv(i) ==
  /\ op[i] = "write" => "pages" \in bufs[i]
  /\ op[i] = "write" /\ "bounce" \in holds[i] => "bounce" \in bufs[i]
  /\ i \in bad => pc[i] \in {"complete", "complete_end", "core_free", "decrease", "done"}
  /\ pc[i] = "complete" /\ i \notin bad =>
       IF op[i] = "write" THEN "media" \in bufs[i]
       ELSE IF "bounce" \in holds[i] THEN "bounce" \in bufs[i] ELSE "pages" \in bufs[i]
  /\ pc[i] = "complete_end" /\ i \notin bad =>
       IF op[i] = "write" THEN "media" \in bufs[i] ELSE "pages" \in bufs[i]

AnswerInv(i) ==
  /\ answers[i] = IF pc[i] \in DonePts THEN 1 ELSE 0
  /\ pc[i] \in DonePts /\ (ret[i] # 0 \/ i \in bad) => status[i] # 0

Good(i) == KindInv(i) /\ RetInv(i) /\ HoldInv(i) /\ DataInv(i) /\ AnswerInv(i)

IInv == /\ TypeOK
        /\ \A i \in Ios : Good(i)
        /\ CountersExact
        /\ NsAliveWhileUsed
-----------------------------------------------------------------------------
(* The steps of one request *)

\* What a step of another request leaves alone.
Same(j) == /\ pc'[j] = pc[j] /\ ret'[j] = ret[j] /\ holds'[j] = holds[j]
           /\ bufs'[j] = bufs[j] /\ answers'[j] = answers[j] /\ status'[j] = status[j]
           /\ j \in bad' <=> j \in bad
           /\ op'[j] = op[j] /\ crooked' = crooked /\ percpuWq' = percpuWq

\* A step of one request leaves the parts of the others alone.
LEMMA Frame ==
  ASSUME TypeOK, NEW i \in Ios, NEW j \in Ios, j # i, Submit(i) \/ Step(i)
  PROVE  Same(j)
  <1> USE DEF TypeOK, Same, request, answer, device, Goto, Fails, Take, Drop,
              shannon_bio_endio, shannon_end_request
  <1>1. CASE Submit(i) \/ increase_ns_pending_bios(i) \/ shannon_check_availability(i) \/ Screen(i) \/ alloc_sbio(i) \/ AllocFails(i)
    BY <1>1 DEF Submit, increase_ns_pending_bios, shannon_check_availability, Screen, alloc_sbio, AllocFails
  <1>2. CASE Convert(i) \/ ConvertFails(i) \/ check_and_alloc_lpmt(i) \/ Room(i) \/ StartAcct(i) \/ CoreAccepts(i) \/ CoreRejects(i)
    BY <1>2 DEF Convert, ConvertFails, check_and_alloc_lpmt, Room, StartAcct, CoreAccepts, CoreRejects
  <1>3. CASE EndIoAcct(i) \/ FreeSgList(i) \/ FreeSbio(i) \/ End(i) \/ decrease_ns_pending_bios(i) \/ TaskUnwind(i) \/ TaskEnd(i) \/ TaskFree(i)
    BY <1>3 DEF EndIoAcct, FreeSgList, FreeSbio, End, decrease_ns_pending_bios, TaskUnwind, TaskEnd, TaskFree
  <1>4. CASE CoreTransfer(i) \/ CoreFails(i) \/ shannon_complete_fs_io(i) \/ CompleteEnd(i) \/ CoreFree(i)
    BY <1>4 DEF CoreTransfer, CoreFails, shannon_complete_fs_io, CompleteEnd, CoreFree
  <1> QED  BY <1>1, <1>2, <1>3, <1>4 DEF Step

\* What a step leaves alone stays good.
LEMMA SameGood ==
  ASSUME NEW j \in Ios, Good(j), Same(j)
  PROVE  Good(j)'
  BY SMTT(10) DEF Same, Good, KindInv, RetInv, HoldInv, DataInv, AnswerInv, UseWq

\* A step of a request keeps what its program point says.
LEMMA OwnGood ==
  ASSUME TypeOK, NEW i \in Ios, Good(i), Submit(i) \/ Step(i)
  PROVE  Good(i)'
  <1> USE IoAssumption DEF TypeOK, Good, KindInv, RetInv, HoldInv, DataInv, AnswerInv,
              SbioPts, SgPts, AcctPts, ErrPts, DonePts, AnyRet, Bios, PCs, Owned,
              request, answer, device, Goto, Fails, Take, Drop, UseWq
  <1>1. CASE Submit(i)
    BY <1>1 DEF Submit
  <1>2. CASE increase_ns_pending_bios(i)
    BY <1>2 DEF increase_ns_pending_bios
  <1>3. CASE shannon_check_availability(i)
    BY <1>3 DEF shannon_check_availability, EIO
  <1>4. CASE Screen(i)
    BY <1>4 DEF Screen, EIO
  <1>5. CASE alloc_sbio(i)
    BY <1>5 DEF alloc_sbio
  <1>6. CASE AllocFails(i)
    BY <1>6 DEF AllocFails, ENOMEM
  <1>7. CASE Convert(i)
    BY <1>7 DEF Convert
  <1>8. CASE ConvertFails(i)
    <2>1. PICK e \in {ENOMEM, EINVAL} : Fails(i, e)
      BY ZenonT(60), <1>8 DEF ConvertFails
    <2>2. e \in Int /\ e # 0 /\ e % 256 # 0
      BY <2>1 DEF ENOMEM, EINVAL
    <2>3. Fails(i, e)  BY <2>1
    <2> QED  BY <1>8, <2>2, <2>3 DEF ConvertFails
  <1>9. CASE check_and_alloc_lpmt(i)
    BY <1>9 DEF check_and_alloc_lpmt, EIO
  <1>10. CASE Room(i)
    BY <1>10 DEF Room, EIO
  <1>11. CASE StartAcct(i)
    BY <1>11 DEF StartAcct
  <1>12. CASE CoreAccepts(i)
    BY <1>12 DEF CoreAccepts
  <1>13. CASE CoreRejects(i)
    BY <1>13 DEF CoreRejects
  <1>14. CASE EndIoAcct(i)
    BY <1>14 DEF EndIoAcct
  <1>15. CASE FreeSgList(i)
    BY <1>15 DEF FreeSgList
  <1>16. CASE FreeSbio(i)
    BY <1>16 DEF FreeSbio
  <1>17. CASE End(i)
    BY <1>17 DEF End, shannon_bio_endio, shannon_end_request, BLK_STS_IOERR
  <1>18. CASE decrease_ns_pending_bios(i)
    BY <1>18 DEF decrease_ns_pending_bios
  <1>19. CASE TaskUnwind(i)
    BY SMTT(30), <1>19 DEF TaskUnwind
  <1>20. CASE TaskEnd(i)
    BY SMTT(30), <1>20 DEF TaskEnd, shannon_bio_endio
  <1>21. CASE TaskFree(i)
    BY <1>21 DEF TaskFree
  <1>22. CASE CoreTransfer(i)
    BY <1>22 DEF CoreTransfer
  <1>23. CASE CoreFails(i)
    BY SMTT(30), <1>23 DEF CoreFails
  <1>24. CASE shannon_complete_fs_io(i)
    BY <1>24 DEF shannon_complete_fs_io
  <1>25. CASE CompleteEnd(i)
    BY SMTT(30), <1>25 DEF CompleteEnd, shannon_bio_endio, shannon_end_request, EIO, BLK_STS_IOERR
  <1>26. CASE CoreFree(i)
    BY <1>26 DEF CoreFree
  <1> QED  BY ZenonT(60), <1>1, <1>2, <1>3, <1>4, <1>5, <1>6, <1>7, <1>8, <1>9, <1>10, <1>11, <1>12, <1>13, <1>14, <1>15, <1>16, <1>17, <1>18, <1>19, <1>20, <1>21, <1>22, <1>23, <1>24, <1>25, <1>26 DEF Step

\* What a step does to the number of requests that hold a resource.
Having(r) == {i \in Ios : r \in holds[i]}

\* How the number of holders of a resource changes with one request.
LEMMA HavingMove ==
  ASSUME holds \in [Ios -> SUBSET Owned], NEW i \in Ios, NEW h \in SUBSET Owned,
         holds' = [holds EXCEPT ![i] = h], NEW r
  PROVE  /\ IsFiniteSet(Having(r)) /\ Cardinality(Having(r)) \in Nat
         /\ IsFiniteSet(Having(r)') /\ Cardinality(Having(r)') \in Nat
         /\ Cardinality(Having(r)') = Cardinality(Having(r))
              + (IF r \in h /\ r \notin holds[i] THEN 1
                 ELSE IF r \notin h /\ r \in holds[i] THEN -1 ELSE 0)
  <1>1. IsFiniteSet(Having(r)) /\ IsFiniteSet(Having(r)')
    BY FS_Subset, IoAssumption DEF Having
  <1>2. Cardinality(Having(r)) \in Nat /\ Cardinality(Having(r)') \in Nat
    BY <1>1, FS_CardinalityType
  <1>3. CASE r \in h /\ r \notin holds[i]
    <2>1. Having(r)' = Having(r) \cup {i} /\ i \notin Having(r)
      BY <1>3 DEF Having
    <2> QED  BY <1>1, <1>2, <1>3, <2>1, FS_AddElement
  <1>4. CASE r \notin h /\ r \in holds[i]
    <2>1. Having(r)' = Having(r) \ {i} /\ i \in Having(r)
      BY <1>4 DEF Having
    <2>2. Cardinality(Having(r) \ {i}) = Cardinality(Having(r)) - 1
      BY <1>1, <2>1, FS_RemoveElement
    <2> QED  BY <1>1, <1>2, <1>4, <2>1, <2>2
  <1>5. CASE r \in h <=> r \in holds[i]
    <2>1. Having(r)' = Having(r)
      BY SMTT(30), <1>5 DEF Having
    <2> QED  BY <1>1, <1>2, <1>5, <2>1
  <1> QED  BY <1>1, <1>2, <1>3, <1>4, <1>5

Delta(i, h, r) == IF r \in h /\ r \notin holds[i] THEN 1
                  ELSE IF r \notin h /\ r \in holds[i] THEN -1 ELSE 0

\* A step that takes or drops a resource counts it.
LEMMA CountStep ==
  ASSUME TypeOK, NEW i \in Ios, Good(i), Submit(i) \/ Step(i)
  PROVE  \E h \in SUBSET Owned :
           /\ holds' = [holds EXCEPT ![i] = h]
           /\ freeSbio' = freeSbio - Delta(i, h, "sbio")
           /\ pendingNs' = pendingNs + Delta(i, h, "pending")
           /\ freeSbio' \in Nat
  <1> DEFINE Counted(h) == /\ holds' = [holds EXCEPT ![i] = h]
                           /\ freeSbio' = freeSbio - Delta(i, h, "sbio")
                           /\ pendingNs' = pendingNs + Delta(i, h, "pending")
                           /\ freeSbio' \in Nat
  <1> SUFFICES \E h \in SUBSET Owned : Counted(h)  BY Zenon
  <1> USE DEF TypeOK, Good, HoldInv, KindInv, SbioPts, SgPts, Delta, Owned, Take, Drop
  <1>1. CASE \/ Submit(i) \/ shannon_check_availability(i) \/ Screen(i) \/ AllocFails(i)
             \/ ConvertFails(i) \/ check_and_alloc_lpmt(i) \/ Room(i) \/ CoreAccepts(i)
             \/ CoreRejects(i) \/ End(i) \/ TaskEnd(i) \/ CoreTransfer(i) \/ CoreFails(i)
             \/ CompleteEnd(i)
    <2>1. holds' = holds /\ freeSbio' = freeSbio /\ pendingNs' = pendingNs
      BY <1>1 DEF Submit, shannon_check_availability, Screen, AllocFails, ConvertFails,
         check_and_alloc_lpmt, Room, CoreAccepts, CoreRejects, End, TaskEnd, CoreTransfer,
         CoreFails, CompleteEnd
    <2> QED  BY <2>1
  <1>2. CASE increase_ns_pending_bios(i)
    <2>1. Counted(holds[i] \cup {"pending"})
      BY <1>2 DEF increase_ns_pending_bios
    <2> QED  BY Zenon, <2>1
  <1>3. CASE alloc_sbio(i)
    <2>1. Counted(holds[i] \cup {"sbio"})
      BY <1>3 DEF alloc_sbio
    <2> QED  BY Zenon, <2>1
  <1>4. CASE Convert(i) \/ StartAcct(i)
    <2>1. \E rs \in SUBSET {"sg", "bounce", "acct"} : Take(i, rs)
      BY Zenon, <1>4 DEF Convert, StartAcct
    <2>2. PICK rs \in SUBSET {"sg", "bounce", "acct"} : Take(i, rs)
      BY Zenon, <2>1
    <2>3. freeSbio' = freeSbio /\ pendingNs' = pendingNs
      BY <1>4 DEF Convert, StartAcct
    <2>4. Counted(holds[i] \cup rs)
      BY <2>2, <2>3
    <2> QED  BY ZenonT(60), <2>4
  <1>5. CASE EndIoAcct(i) \/ FreeSgList(i) \/ TaskUnwind(i) \/ shannon_complete_fs_io(i)
    <2>1. \E rs \in SUBSET {"sg", "bounce", "acct"} : Drop(i, rs)
      BY Zenon, <1>5 DEF EndIoAcct, FreeSgList, TaskUnwind, shannon_complete_fs_io
    <2>2. PICK rs \in SUBSET {"sg", "bounce", "acct"} : Drop(i, rs)
      BY Zenon, <2>1
    <2>3. freeSbio' = freeSbio /\ pendingNs' = pendingNs
      BY <1>5 DEF EndIoAcct, FreeSgList, TaskUnwind, shannon_complete_fs_io
    <2>4. Counted(holds[i] \ rs)
      BY <2>2, <2>3
    <2> QED  BY Zenon, <2>4
  <1>6. CASE FreeSbio(i) \/ TaskFree(i)
    <2>1. Counted(holds[i] \ {"sbio"})
      BY <1>6 DEF FreeSbio, TaskFree
    <2> QED  BY Zenon, <2>1
  <1>7. CASE CoreFree(i)
    <2>1. Counted(holds[i] \ {"sbio", "sg"})
      BY <1>7 DEF CoreFree
    <2> QED  BY Zenon, <2>1
  <1>8. CASE decrease_ns_pending_bios(i)
    <2>1. Counted(holds[i] \ {"pending"})
      BY <1>8 DEF decrease_ns_pending_bios
    <2> QED  BY Zenon, <2>1
  <1> QED  BY SMTT(30), <1>1, <1>2, <1>3, <1>4, <1>5, <1>6, <1>7, <1>8 DEF Step

\* A step of a request keeps the counters exact.
LEMMA OwnCounters ==
  ASSUME TypeOK, CountersExact, NEW i \in Ios, Good(i), Submit(i) \/ Step(i)
  PROVE  /\ CountersExact' /\ freeSbio' \in Nat /\ pendingNs' \in Nat
         /\ holds' \in [Ios -> SUBSET Owned]
  <1>1. PICK h \in SUBSET Owned :
           /\ holds' = [holds EXCEPT ![i] = h]
           /\ freeSbio' = freeSbio - Delta(i, h, "sbio")
           /\ pendingNs' = pendingNs + Delta(i, h, "pending")
           /\ freeSbio' \in Nat
    BY CountStep
  <1>2. holds \in [Ios -> SUBSET Owned] /\ freeSbio \in Nat /\ pendingNs \in Nat
    BY DEF TypeOK
  <1>3. /\ Cardinality(Having("sbio")) \in Nat /\ Cardinality(Having("sbio")') \in Nat
        /\ Cardinality(Having("sbio")') = Cardinality(Having("sbio")) + Delta(i, h, "sbio")
    BY Zenon, <1>1, <1>2, HavingMove DEF Delta
  <1>4. /\ Cardinality(Having("pending")) \in Nat /\ Cardinality(Having("pending")') \in Nat
        /\ Cardinality(Having("pending")') = Cardinality(Having("pending")) + Delta(i, h, "pending")
    BY Zenon, <1>1, <1>2, HavingMove DEF Delta
  <1>5. Delta(i, h, "sbio") \in Int /\ Delta(i, h, "pending") \in Int
    BY DEF Delta
  <1>6. /\ freeSbio + Cardinality(Having("sbio")) = PoolSize
        /\ pendingNs = Cardinality(Having("pending"))
    BY DEF CountersExact, Having
  <1>7. /\ freeSbio' + Cardinality(Having("sbio")') = PoolSize
        /\ pendingNs' = Cardinality(Having("pending")')
    BY <1>1, <1>2, <1>3, <1>4, <1>5, <1>6
  <1>8. CountersExact'
    BY <1>7 DEF CountersExact, Having
  <1> QED  BY <1>1, <1>2, <1>4, <1>7, <1>8

\* The range of a status of eight bits.
LEMMA ByteRange == \A n \in Int : n % 256 \in 0 .. 255
  BY SMTT(30)

\* A step of a request keeps the types.
LEMMA OwnTypes ==
  ASSUME TypeOK, NEW i \in Ios, Submit(i) \/ Step(i)
  PROVE  /\ percpuWq' \in {"null", "made"}
         /\ op' \in [Ios -> Ops] /\ crooked' \subseteq Bios
         /\ pc' \in [Ios -> PCs] /\ ret' \in [Ios -> Int]
         /\ bufs' \in [Ios -> SUBSET {"pages", "bounce", "media"}]
         /\ answers' \in [Ios -> Nat] /\ status' \in [Ios -> 0 .. 255] /\ bad' \subseteq Ios
         /\ ok' \in BOOLEAN /\ readonly' \in BOOLEAN /\ ns' \in {"live", "frozen", "gone"}
  <1> USE DEF TypeOK, request, answer, device, Goto, Fails, shannon_bio_endio,
              shannon_end_request, EIO, ENOMEM, EINVAL, BLK_STS_IOERR
  <1>1. CASE \/ Submit(i) \/ increase_ns_pending_bios(i) \/ shannon_check_availability(i)
             \/ Screen(i) \/ alloc_sbio(i) \/ AllocFails(i)
    BY SMTT(30), <1>1 DEF Submit, increase_ns_pending_bios, shannon_check_availability, Screen,
       alloc_sbio, AllocFails, PCs
  <1>2. CASE Convert(i) \/ check_and_alloc_lpmt(i) \/ Room(i) \/ StartAcct(i) \/ CoreAccepts(i)
    BY SMTT(30), <1>2 DEF Convert, check_and_alloc_lpmt, Room, StartAcct, CoreAccepts, PCs
  <1>3. CASE ConvertFails(i)
    <2>1. PICK e \in {ENOMEM, EINVAL} : ret' = [ret EXCEPT ![i] = e]
      BY Zenon, <1>3 DEF ConvertFails
    <2>2. e \in Int  BY <2>1
    <2>3. ret' \in [Ios -> Int]  BY <2>1, <2>2
    <2> QED  BY SMTT(30), <1>3, <2>3 DEF ConvertFails, PCs
  <1>4. CASE CoreRejects(i)
    <2>1. PICK e \in Int : Fails(i, e)
      BY ZenonT(60), <1>4, IoAssumption DEF CoreRejects
    <2> QED  BY <1>4, <2>1 DEF CoreRejects, PCs
  <1>5. CASE \/ EndIoAcct(i) \/ FreeSgList(i) \/ FreeSbio(i) \/ decrease_ns_pending_bios(i)
             \/ TaskUnwind(i) \/ TaskFree(i) \/ CoreFree(i)
    BY <1>5 DEF EndIoAcct, FreeSgList, FreeSbio, decrease_ns_pending_bios, TaskUnwind,
       TaskFree, CoreFree, PCs
  <1>6. CASE End(i) \/ TaskEnd(i) \/ CompleteEnd(i)
    <2>1. ret[i] \in Int /\ -5 \in Int /\ 0 \in Int /\ 10 \in 0 .. 255 /\ 0 \in 0 .. 255
      OBVIOUS
    <2>2. ret[i] % 256 \in 0 .. 255 /\ (-5) % 256 \in 0 .. 255 /\ 0 % 256 \in 0 .. 255
      BY <2>1, ByteRange, Zenon
    <2> DEFINE Answers == {ret[i] % 256, (-5) % 256, 0 % 256, 0, 10}
    <2>a. ASSUME End(i)  PROVE  \E s \in Answers : status' = [status EXCEPT ![i] = s]
      <3>1. CASE i \in Bios
        <4>1. status' = [status EXCEPT ![i] = ret[i] % 256]  BY <2>a, <3>1 DEF End
        <4> QED  BY <4>1
      <3>2. CASE i \notin Bios
        <4>1. status' = [status EXCEPT ![i] = IF ret[i] = 0 THEN 0 ELSE 10]
          BY <2>a, <3>2 DEF End
        <4> QED  BY ZenonT(60), <4>1
      <3> QED  BY <3>1, <3>2
    <2>b. ASSUME TaskEnd(i)  PROVE  \E s \in Answers : status' = [status EXCEPT ![i] = s]
      <3>1. status' = [status EXCEPT ![i] = ret[i] % 256]  BY <2>b DEF TaskEnd
      <3> QED  BY <3>1
    <2>c. ASSUME CompleteEnd(i)  PROVE  \E s \in Answers : status' = [status EXCEPT ![i] = s]
      <3>1. CASE i \in Bios
        <4>1. status' = [status EXCEPT ![i] = (IF i \in bad THEN -5 ELSE 0) % 256]
          BY <2>c, <3>1 DEF CompleteEnd
        <4> QED  BY ZenonT(60), <4>1
      <3>2. CASE i \notin Bios
        <4>1. status' = [status EXCEPT ![i] = IF i \notin bad THEN 0 ELSE 10]
          BY <2>c, <3>2 DEF CompleteEnd
        <4> QED  BY ZenonT(60), <4>1
      <3> QED  BY <3>1, <3>2
    <2>3. PICK s \in Answers : status' = [status EXCEPT ![i] = s]
      <3>1. \E s \in Answers : status' = [status EXCEPT ![i] = s]
        BY SMTT(30), <1>6, <2>a, <2>b, <2>c
      <3> QED  BY ZenonT(60), <3>1
    <2>4. s \in 0 .. 255  BY SMTT(30), <2>1, <2>2, <2>3
    <2>5. status' \in [Ios -> 0 .. 255]  BY SMTT(30), <2>3, <2>4
    <2> QED  BY <1>6, <2>5 DEF End, TaskEnd, CompleteEnd, PCs
  <1>7. CASE CoreTransfer(i) \/ CoreFails(i) \/ shannon_complete_fs_io(i)
    BY SMTT(30), <1>7 DEF CoreTransfer, CoreFails, shannon_complete_fs_io, PCs
  <1> QED  BY SMTT(30), <1>1, <1>2, <1>3, <1>4, <1>5, <1>6, <1>7 DEF Step

\* A request of a namespace is admitted only while the namespace lives, and
\* no step of a request removes the namespace.
LEMMA OwnNs ==
  ASSUME TypeOK, NsAliveWhileUsed, NEW i \in Ios, Submit(i) \/ Step(i)
  PROVE  NsAliveWhileUsed'
  <1>1. UNCHANGED ns
    BY Zenon DEF Step, Submit, increase_ns_pending_bios, shannon_check_availability, Screen,
       alloc_sbio, AllocFails, Convert, ConvertFails, check_and_alloc_lpmt, Room, StartAcct,
       CoreAccepts, CoreRejects, EndIoAcct, FreeSgList, FreeSbio, End,
       decrease_ns_pending_bios, TaskUnwind, TaskEnd, TaskFree, CoreTransfer, CoreFails,
       shannon_complete_fs_io, CompleteEnd, CoreFree, device
  <1>2. i \in NsBios => ns # "gone"
    <2>1. CASE Submit(i)  BY <2>1 DEF Submit
    <2>2. CASE Step(i)
      <3>1. pc[i] \notin {"new", "done"}
        BY ZenonT(60), <2>2 DEF Step, increase_ns_pending_bios, shannon_check_availability, Screen,
           alloc_sbio, AllocFails, Convert, ConvertFails, check_and_alloc_lpmt, Room,
           StartAcct, CoreAccepts, CoreRejects, EndIoAcct, FreeSgList, FreeSbio, End,
           decrease_ns_pending_bios, TaskUnwind, TaskEnd, TaskFree, CoreTransfer, CoreFails,
           shannon_complete_fs_io, CompleteEnd, CoreFree
      <3> QED  BY SMTT(10), <3>1 DEF NsAliveWhileUsed
    <2> QED  BY <2>1, <2>2
  <1>3. \A j \in Ios : j # i => pc'[j] = pc[j]
    BY Frame DEF Same
  <1> QED  BY SMTT(10), <1>1, <1>2, <1>3 DEF NsAliveWhileUsed, Ios

\* A step of a request keeps the invariant.
LEMMA RequestStep ==
  ASSUME IInv, NEW i \in Ios, Submit(i) \/ Step(i)
  PROVE  IInv'
  <1>1. TypeOK /\ CountersExact /\ NsAliveWhileUsed /\ Good(i)
    BY DEF IInv
  <1>2. Good(i)'  BY <1>1, OwnGood
  <1>3. ASSUME NEW j \in Ios, j # i PROVE Good(j)'
    <2>1. Good(j) /\ Same(j)  BY <1>1, <1>3, Frame DEF IInv
    <2> QED  BY <2>1, SameGood
  <1>4. CountersExact' /\ freeSbio' \in Nat /\ pendingNs' \in Nat /\ holds' \in [Ios -> SUBSET Owned]
    BY SMTT(30), <1>1, OwnCounters
  <1>5. TypeOK'  BY <1>1, <1>4, OwnTypes DEF TypeOK
  <1>6. NsAliveWhileUsed'  BY <1>1, OwnNs
  <1> QED  BY <1>2, <1>3, <1>4, <1>5, <1>6 DEF IInv

\* A namespace is freed only when nobody is in its handler or counted.
LEMMA EnvironmentStep ==
  ASSUME IInv, Environment
  PROVE  IInv'
  <1>1. TypeOK /\ CountersExact /\ NsAliveWhileUsed /\ \A i \in Ios : Good(i)
    BY DEF IInv
  <1>2. UNCHANGED <<percpuWq, op, crooked, pc, ret, holds, bufs, answers, status, bad, freeSbio, pendingNs>>
    BY SMTT(30) DEF Environment, request, answer
  <1>3. \A i \in Ios : Good(i)'
    BY SMTT(30), <1>1, <1>2 DEF Good, KindInv, RetInv, HoldInv, DataInv, AnswerInv, UseWq
  <1>4. CountersExact'
    BY SMTT(30), <1>1, <1>2 DEF CountersExact
  <1>5. TypeOK'
    BY ZenonT(60), <1>1, <1>2 DEF TypeOK, Environment, DeviceFails, TurnReadonly, FreezeNs, FreeNs
  <1>6. NsAliveWhileUsed'
    <2>1. CASE ns' = ns  BY <1>1, <1>2, <2>1 DEF NsAliveWhileUsed
    <2>2. CASE FreezeNs  BY <1>2, <2>2 DEF NsAliveWhileUsed, FreezeNs
    <2>3. CASE FreeNs
      <3>1. Having("pending") = {}
        <4>1. Cardinality(Having("pending")) = 0
          BY <1>1, <2>3 DEF CountersExact, Having, FreeNs
        <4>2. IsFiniteSet(Having("pending"))
          BY FS_Subset, IoAssumption DEF Having
        <4> QED  BY <4>1, <4>2, FS_EmptySet
      <3>2. ASSUME NEW i \in NsBios PROVE pc[i] \in {"new", "done"}
        <4>1. i \in Ios  BY DEF Ios
        <4>2. "pending" \notin holds[i]  BY <3>1, <4>1 DEF Having
        <4>3. pc[i] \in {"new", "enter", "done"}
          BY <1>1, <4>1, <4>2 DEF Good, HoldInv
        <4> QED  BY <2>3, <4>3 DEF FreeNs, InHandler
      <3> QED  BY <1>2, <3>2 DEF NsAliveWhileUsed
    <2> QED  BY <2>1, <2>2, <2>3 DEF Environment, DeviceFails, TurnReadonly
  <1> QED  BY <1>3, <1>4, <1>5, <1>6 DEF IInv

\* The invariant holds before any request.
LEMMA InitIInv == Init => IInv
  <1> SUFFICES ASSUME Init PROVE IInv  OBVIOUS
  <1>1. TypeOK
    <2>1. /\ pc \in [Ios -> PCs] /\ holds \in [Ios -> SUBSET Owned] /\ ret \in [Ios -> Int]
          /\ answers \in [Ios -> Nat] /\ status \in [Ios -> 0 .. 255]
      BY DEF Init, PCs
    <2>2. bufs \in [Ios -> SUBSET {"pages", "bounce", "media"}]
      BY DEF Init
    <2>3. /\ freeSbio \in Nat /\ pendingNs \in Nat /\ bad \subseteq Ios
          /\ ok \in BOOLEAN /\ readonly \in BOOLEAN /\ ns \in {"live", "frozen", "gone"}
          /\ percpuWq \in {"null", "made"} /\ op \in [Ios -> Ops] /\ crooked \subseteq Bios
      BY SMTT(30), IoAssumption DEF Init
    <2> QED  BY <2>1, <2>2, <2>3 DEF TypeOK
  <1>2. ASSUME NEW i \in Ios PROVE Good(i)
    BY DEF Init, Good, KindInv, RetInv, HoldInv, DataInv, AnswerInv, SbioPts, SgPts, AcctPts,
       ErrPts, DonePts, AnyRet
  <1>3. CountersExact
    <2>1. {i \in Ios : "sbio" \in holds[i]} = {} /\ {i \in Ios : "pending" \in holds[i]} = {}
      BY DEF Init
    <2>2. Cardinality({}) = 0  BY FS_EmptySet
    <2>3. /\ Cardinality({i \in Ios : "sbio" \in holds[i]}) = 0
          /\ Cardinality({i \in Ios : "pending" \in holds[i]}) = 0
      BY <2>1, <2>2, Zenon
    <2>4. freeSbio = PoolSize /\ pendingNs = 0 /\ PoolSize + 0 = PoolSize
      BY IoAssumption DEF Init
    <2> QED  BY <2>3, <2>4 DEF CountersExact
  <1>4. NsAliveWhileUsed
    BY DEF Init, NsAliveWhileUsed
  <1> QED  BY <1>1, <1>2, <1>3, <1>4 DEF IInv

\* Every step keeps the invariant.
LEMMA NextIInv == IInv /\ [Next]_vars => IInv'
  <1> SUFFICES ASSUME IInv, [Next]_vars PROVE IInv'  OBVIOUS
  <1>1. CASE \E i \in Ios : Submit(i) \/ Step(i)
    BY <1>1, RequestStep
  <1>2. CASE Environment
    BY SMTT(30), <1>2, EnvironmentStep
  <1>3. CASE UNCHANGED vars
    <2>1. UNCHANGED <<percpuWq, op, crooked, pc, ret, holds, bufs, answers, status, bad, freeSbio,
                      pendingNs, ok, readonly, ns>>
      BY SMTT(30), <1>3 DEF vars, request, answer, device
    <2>2. ASSUME NEW i \in Ios PROVE Good(i)'
      <3>1. Good(i)  BY DEF IInv
      <3>2. KindInv(i)'  BY <2>1, <3>1 DEF Good, KindInv, UseWq
      <3>3. RetInv(i)'  BY <2>1, <3>1 DEF Good, RetInv
      <3>4. HoldInv(i)'  BY Zenon, <2>1, <3>1 DEF Good, HoldInv, UseWq
      <3>5. DataInv(i)'  BY <2>1, <3>1 DEF Good, DataInv
      <3>6. AnswerInv(i)'  BY <2>1, <3>1 DEF Good, AnswerInv
      <3> QED  BY <3>2, <3>3, <3>4, <3>5, <3>6 DEF Good
    <2> QED  BY <2>1, <2>2 DEF IInv, TypeOK, CountersExact, NsAliveWhileUsed
  <1> QED  BY <1>1, <1>2, <1>3 DEF Next

\* The invariant holds in every state.
LEMMA Inductive == Spec => []IInv
  BY InitIInv, NextIInv, PTL DEF Spec
-----------------------------------------------------------------------------
\* Every variable keeps its type: bi_status stays in its eight bits, and
\* neither the pool nor pending_bios goes below zero.
THEOREM TypeCorrect == Spec => []TypeOK
  <1>1. IInv => TypeOK  BY DEF IInv
  <1> QED  BY <1>1, Inductive, PTL

\* The pool of structures and the namespace's pending_bios agree with what
\* the requests hold.
THEOREM CountersAreExact == Spec => []CountersExact
  <1>1. IInv => CountersExact  BY DEF IInv
  <1> QED  BY <1>1, Inductive, PTL

\* Nothing of the driver uses a namespace that was freed.
THEOREM NamespaceOutlivesUse == Spec => []NsAliveWhileUsed
  <1>1. IInv => NsAliveWhileUsed  BY DEF IInv
  <1> QED  BY <1>1, Inductive, PTL

\* No bio is touched after shannon_bio_endio.
THEOREM EndIsLast == Spec => []BioNotTouchedAfterEnd
  <1>1. IInv => BioNotTouchedAfterEnd
    BY DEF IInv, TypeOK, Good, HoldInv, AnswerInv, BioNotTouchedAfterEnd, AcctPts, DonePts
  <1> QED  BY <1>1, Inductive, PTL

\* All paths give back what they took, but for the bounce pages of rejected
\* bios on the work-queue and namespace paths.
THEOREM ResourcesReturned == Spec => []OnlyBounceLeaks
  <1>1. ASSUME IInv PROVE OnlyBounceLeaks
    <2>1. SUFFICES ASSUME NEW i \in Ios, pc[i] = "done"
                   PROVE  /\ holds[i] \subseteq {"bounce"}
                          /\ holds[i] # {} => /\ i \in crooked /\ ret[i] # 0
                                              /\ i \in NsBios \/ UseWq
      BY DEF OnlyBounceLeaks
    <2>2. holds[i] \subseteq Owned /\ HoldInv(i)  BY <1>1, <2>1 DEF IInv, TypeOK, Good
    <2>3. holds[i] \subseteq {"bounce"}
      BY <2>1, <2>2 DEF HoldInv, Owned, SbioPts, SgPts, AcctPts
    <2> QED  BY <2>1, <2>2, <2>3 DEF HoldInv, SgPts, SbioPts
  <1> QED  BY <1>1, Inductive, PTL

\* An error stays an error in the status the requester sees, if the core's
\* codes survive the eight bits.
THEOREM ErrorsAreReported == Spec => []ErrorsStayErrors
  <1>1. IInv => ErrorsStayErrors
    BY SMTT(30) DEF IInv, TypeOK, Good, AnswerInv, ErrorsStayErrors, DonePts
  <1> QED  BY <1>1, Inductive, PTL
-----------------------------------------------------------------------------
(* The request path implements the contract *)

\* The contract's view of the requests.
View == [i \in Ios |-> IF pc[i] = "new" THEN "new"
                       ELSE IF answers[i] = 0 THEN "open"
                       ELSE IF answers[i] > 1 THEN "again"
                       ELSE IF status[i] = 0 THEN "ok" ELSE "failed"]
Movers == {i \in Ios : op[i] \in {"read", "write"}}

\* Steps that answer nothing and move no data, and moves of data.
LEMMA QuietView ==
  ASSUME TypeOK, NEW i \in Ios, pc[i] # "new", answers' = answers, status' = status,
         NEW l \in PCs \ {"new"}, pc' = [pc EXCEPT ![i] = l]
  PROVE  View' = View
  BY DEF View, TypeOK

\* A step that leaves data and answers alone delivers nothing.
LEMMA QuietDelivered ==
  ASSUME TypeOK, NEW i \in Ios, op' = op, NEW b, bufs' = [bufs EXCEPT ![i] = bufs[i] \cup b]
  PROVE  Delivered' = Delivered \/ Delivered' = Delivered \cup {i}
  <1>1. \A j \in Ios : j # i => (j \in Delivered' <=> j \in Delivered)
    BY DEF Delivered, TypeOK
  <1>2. i \in Delivered => i \in Delivered'
    BY DEF Delivered, TypeOK
  <1>3. Delivered \subseteq Ios /\ Delivered' \subseteq Ios
    BY DEF Delivered
  <1> QED  BY <1>1, <1>2, <1>3

\* A step that is not an answer.
LEMMA QuietStep ==
  ASSUME IInv, NEW i \in Ios, Step(i), ~End(i), ~TaskEnd(i), ~CompleteEnd(i)
  PROVE  /\ View' = View /\ Movers' = Movers /\ ns' = ns
         /\ Delivered' = Delivered \/ Delivered' = Delivered \cup {i}
         /\ View[i] = "open" \/ Delivered' = Delivered
  <1> USE DEF request, answer, device
  <1>1. TypeOK /\ Good(i)  BY SMTT(10) DEF IInv
  <1>2. /\ pc[i] # "new" /\ answers' = answers /\ status' = status /\ op' = op /\ ns' = ns
        /\ \E l \in PCs \ {"new"} : pc' = [pc EXCEPT ![i] = l]
    BY Zenon DEF Step, increase_ns_pending_bios, shannon_check_availability, Screen,
       alloc_sbio, AllocFails, Convert, ConvertFails, check_and_alloc_lpmt, Room,
       StartAcct, CoreAccepts, CoreRejects, EndIoAcct, FreeSgList, FreeSbio,
       decrease_ns_pending_bios, TaskUnwind, TaskFree, CoreTransfer, CoreFails,
       shannon_complete_fs_io, CoreFree, Goto, PCs
  <1>3. View' = View  BY Zenon, <1>1, <1>2, QuietView
  <1>4. Movers' = Movers  BY <1>2 DEF Movers
  <1>5. CASE ~Convert(i) /\ ~CoreTransfer(i) /\ ~shannon_complete_fs_io(i)
    <2>1. bufs' = bufs
      BY Zenon, <1>5 DEF Step, increase_ns_pending_bios, shannon_check_availability, Screen,
         alloc_sbio, AllocFails, ConvertFails, check_and_alloc_lpmt, Room,
         StartAcct, CoreAccepts, CoreRejects, EndIoAcct, FreeSgList, FreeSbio,
         decrease_ns_pending_bios, TaskUnwind, TaskFree, CoreFails, CoreFree
    <2>2. Delivered' = Delivered  BY <1>2, <2>1 DEF Delivered
    <2> QED  BY <1>2, <1>3, <1>4, <2>2
  <1>6. CASE Convert(i) \/ CoreTransfer(i) \/ shannon_complete_fs_io(i)
    <2>1. \E b : bufs' = [bufs EXCEPT ![i] = bufs[i] \cup b]
      <3>1. bufs = [bufs EXCEPT ![i] = bufs[i] \cup {}]  BY SMTT(10), <1>1 DEF TypeOK
      <3>2. CASE Convert(i)  BY ZenonT(60), <1>6, <3>1, <3>2 DEF Convert
      <3>3. CASE CoreTransfer(i)  BY Zenon, <1>6, <3>1, <3>3 DEF CoreTransfer
      <3>4. CASE shannon_complete_fs_io(i)  BY Zenon, <1>6, <3>1, <3>4 DEF shannon_complete_fs_io
      <3> QED  BY SMTT(30), <1>6, <3>2, <3>3, <3>4
    <2>2. Delivered' = Delivered \/ Delivered' = Delivered \cup {i}
      BY ZenonT(60), <1>1, <1>2, <2>1, QuietDelivered
    <2>3. pc[i] \in {"convert", "core", "complete"}
      BY <1>6 DEF Convert, CoreTransfer, shannon_complete_fs_io
    <2>4. View[i] = "open"
      BY <1>1, <2>3 DEF View, Good, AnswerInv, DonePts
    <2> QED  BY <1>2, <1>3, <1>4, <2>2, <2>4
  <1> QED  BY <1>5, <1>6

\* An answer: it is the first, and success is deserved.
LEMMA AnswerStep ==
  ASSUME IInv, NEW i \in Ios, End(i) \/ TaskEnd(i) \/ CompleteEnd(i)
  PROVE  /\ Movers' = Movers /\ Delivered' = Delivered /\ ns' = ns
         /\ View[i] = "open"
         /\ \/ View' = [View EXCEPT ![i] = "failed"]
            \/ View' = [View EXCEPT ![i] = "ok"] /\ i \in Delivered
  <1> USE DEF request, answer, device
  <1>1. TypeOK /\ Good(i)  BY DEF IInv
  <1>2. /\ pc[i] \in {"end", "task_end", "complete_end"} /\ op' = op /\ ns' = ns /\ bufs' = bufs
        /\ \E l \in DonePts : pc' = [pc EXCEPT ![i] = l]
        /\ \E s : status' = [status EXCEPT ![i] = s]
        /\ answers' = [answers EXCEPT ![i] = answers[i] + 1]
    BY ZenonT(60) DEF End, TaskEnd, CompleteEnd, Goto, shannon_bio_endio, shannon_end_request, DonePts
  <1>3. answers[i] = 0
    BY <1>1, <1>2 DEF Good, AnswerInv, DonePts
  <1>4. View[i] = "open"
    BY <1>2, <1>3 DEF View
  <1>5. Movers' = Movers /\ Delivered' = Delivered
    BY <1>2 DEF Movers, Delivered
  <1>6. PICK s : status' = [status EXCEPT ![i] = s]  BY Zenon, <1>2
  <1>7. PICK l \in DonePts : pc' = [pc EXCEPT ![i] = l]  BY ZenonT(60), <1>2
  <1>8. View' = [View EXCEPT ![i] = IF s = 0 THEN "ok" ELSE "failed"]
    <2>1. /\ pc'[i] # "new" /\ answers'[i] = 1 /\ status'[i] = s
          /\ \A j \in Ios : j # i => pc'[j] = pc[j] /\ answers'[j] = answers[j] /\ status'[j] = status[j]
      BY <1>1, <1>2, <1>3, <1>6, <1>7 DEF TypeOK, DonePts
    <2>2. View'[i] = IF s = 0 THEN "ok" ELSE "failed"
      BY SMTT(30), <2>1 DEF View
    <2>3. \A j \in Ios : j # i => View'[j] = View[j]
      BY SMTT(30), <2>1 DEF View
    <2>4. View = [j \in Ios |-> View[j]] /\ View' = [j \in Ios |-> View'[j]]
      BY SMTT(30) DEF View
    <2> QED  BY <2>2, <2>3, <2>4
  <1>9. ASSUME s = 0 PROVE i \in Delivered
    <2>1. status'[i] = 0 /\ Good(i)'
      BY SMTT(30), <1>1, <1>6, <1>9, OwnGood DEF TypeOK, Step
    <2>2. ret'[i] = 0 /\ i \notin bad' /\ ret' = ret /\ bad' = bad
      BY <1>1, <1>7, <2>1 DEF Good, AnswerInv, TypeOK, End, TaskEnd, CompleteEnd,
         shannon_bio_endio, shannon_end_request
    <2>3. CASE pc[i] = "complete_end"
      BY <1>1, <2>2, <2>3 DEF Good, DataInv, KindInv, SbioPts, Delivered
    <2>4. CASE pc[i] \in {"end", "task_end"}
      BY <1>1, <2>2, <2>4 DEF Good, RetInv, ErrPts, Delivered
    <2> QED  BY SMTT(30), <1>2, <2>3, <2>4
  <1> QED  BY Zenon, <1>2, <1>4, <1>5, <1>8, <1>9

\* Every step is a step of the contract or leaves its variables alone.
LEMMA StepRefines == IInv /\ [Next]_vars => [Contract!Next]_Contract!cvars
  <1> SUFFICES ASSUME IInv, [Next]_vars PROVE [Contract!Next]_Contract!cvars
    OBVIOUS
  <1>1. TypeOK  BY SMTT(10) DEF IInv
  <1>2. ASSUME View' = View, Movers' = Movers, Delivered' = Delivered, (ns = "gone")' = (ns = "gone")
        PROVE  UNCHANGED Contract!cvars
    BY ZenonT(60), <1>2 DEF Contract!cvars, View, Movers
  <1>3. ASSUME NEW i \in Ios, Submit(i) PROVE Contract!Accept(i)
    <2>1. /\ View[i] = "new" /\ View' = [View EXCEPT ![i] = "open"]
          /\ i \in NsBios => ns # "gone"
      <3>1. answers[i] = 0
        <4>1. pc[i] = "new"  BY <1>3 DEF Submit
        <4>2. AnswerInv(i)  BY <1>3 DEF IInv, Good
        <4> QED  BY <4>1, <4>2 DEF AnswerInv, DonePts
      <3>2. View' = [View EXCEPT ![i] = "open"]
        BY Zenon, <1>1, <1>3, <3>1 DEF View, TypeOK, Submit, Goto, answer
      <3> QED  BY SMTT(30), <1>3, <3>2 DEF View, Submit
    <2>2. Movers' = Movers /\ Delivered' = Delivered /\ ns' = ns
      BY <1>3 DEF Submit, Movers, Delivered, request, device
    <2> QED  BY SMTT(30), <2>1, <2>2 DEF Contract!Accept, View, Movers
  <1>4. ASSUME NEW i \in Ios, Step(i) PROVE Contract!Next \/ UNCHANGED Contract!cvars
    <2>1. CASE End(i) \/ TaskEnd(i) \/ CompleteEnd(i)
      <3>1. /\ Movers' = Movers /\ Delivered' = Delivered /\ ns' = ns
            /\ View[i] = "open"
            /\ \/ View' = [View EXCEPT ![i] = "failed"]
               \/ View' = [View EXCEPT ![i] = "ok"] /\ i \in Delivered
        BY <2>1, AnswerStep
      <3>2. Contract!Succeed(i) \/ Contract!Fail(i)
        BY <3>1 DEF Contract!Succeed, Contract!Fail, View, Movers
      <3> QED  BY <3>2 DEF Contract!Next
    <2>2. CASE ~End(i) /\ ~TaskEnd(i) /\ ~CompleteEnd(i)
      <3>1. /\ View' = View /\ Movers' = Movers /\ ns' = ns
            /\ Delivered' = Delivered \/ Delivered' = Delivered \cup {i}
            /\ View[i] = "open" \/ Delivered' = Delivered
        BY <1>4, <2>2, QuietStep
      <3>2. CASE Delivered' = Delivered  BY <1>2, <3>1, <3>2
      <3>3. CASE Delivered' # Delivered
        <4>1. Contract!Deliver(i)
          BY <3>1, <3>3 DEF Contract!Deliver, View, Movers
        <4> QED  BY <4>1 DEF Contract!Next
      <3> QED  BY <3>2, <3>3
    <2> QED  BY <2>1, <2>2
  <1>5. ASSUME Environment PROVE Contract!Next \/ UNCHANGED Contract!cvars
    <2>1. View' = View /\ Movers' = Movers /\ Delivered' = Delivered
      BY <1>5 DEF Environment, View, Movers, Delivered, request, answer
    <2>2. CASE (ns' # "gone" /\ ns # "gone") \/ ns' = ns
      BY <1>2, <2>1, <2>2
    <2>3. CASE FreeNs
      <3>1. ns = "frozen" /\ ns' = "gone"  BY <2>3 DEF FreeNs
      <3>2. NsAliveWhileUsed' /\ \A i \in Ios : Good(i)'
        BY <1>5, EnvironmentStep DEF IInv
      <3>3. pc' = pc /\ answers' = answers /\ TypeOK
        BY SMTT(30), <1>1, <1>5 DEF Environment, answer
      <3>4. \A i \in NsBios : View[i] # "open"
        <4> SUFFICES ASSUME NEW i \in NsBios PROVE View[i] # "open"  OBVIOUS
        <4>1. i \in Ios  BY DEF Ios
        <4>2. pc[i] \in {"new", "done"}
          BY <3>1, <3>2, <3>3 DEF NsAliveWhileUsed
        <4>3. pc[i] # "new" => answers[i] = 1
          <5>1. AnswerInv(i)'  BY <3>2, <4>1 DEF Good
          <5> QED  BY <3>3, <4>2, <5>1 DEF AnswerInv, DonePts
        <4> QED  BY <4>1, <4>3 DEF View
      <3>5. Contract!RemoveNs
        <4>1. \A i \in NsBios : i \in Ios  BY DEF Ios
        <4> QED  BY <2>1, <3>1, <3>4, <4>1 DEF Contract!RemoveNs, View, Movers
      <3> QED  BY <3>5 DEF Contract!Next
    <2> QED  BY <1>5, <2>2, <2>3 DEF Environment, DeviceFails, TurnReadonly, FreezeNs
  <1>6. CASE UNCHANGED vars
    BY <1>2, <1>6 DEF vars, request, answer, device, View, Movers, Delivered
  <1>7. CASE \E i \in Ios : Submit(i) \/ Step(i)
    <2>1. PICK i \in Ios : Submit(i) \/ Step(i)  BY <1>7
    <2>2. CASE Submit(i)
      BY <1>3, <2>2 DEF Contract!Next
    <2>3. CASE Step(i)  BY <1>4, <2>3
    <2> QED  BY <2>1, <2>2, <2>3
  <1> QED  BY <1>5, <1>6, <1>7 DEF Next

\* Each request is answered exactly once, successfully only if its data is
\* where the requester wants it, and the namespace goes only when all of its
\* requests are answered, for any number of requests.
THEOREM PathKeepsContract == Spec => KeepsContract
  <1>1. ASSUME Init PROVE Contract!Init
    <2>1. View = [i \in Ios |-> "new"]  BY <1>1 DEF Init, View
    <2>2. Delivered = Ios \ Movers
      BY <1>1 DEF Init, Delivered, Movers
    <2>3. Movers \in SUBSET Ios /\ ns # "gone"
      BY <1>1 DEF Init, Movers
    <2> QED  BY <2>1, <2>2, <2>3 DEF Contract!Init, View, Movers
  <1> QED  BY <1>1, StepRefines, Inductive, PTL DEF Spec, KeepsContract, Contract!Spec
=============================================================================
