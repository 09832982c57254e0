--------------------------- MODULE SgConvertProofs --------------------------
(***************************************************************************)
(* Proofs about the conversion of a request's segments, for requests of    *)
(* any length and any sizes of pages, sectors and alignment.               *)
(***************************************************************************)
EXTENDS SgConvert, WellFoundedInduction, TLAPS

Entries == [seg : Nat, pg : Nat, off : Nat, len : Nat]
Chunks  == [seg : Nat, from : Nat, entry : Nat, to : Nat, len : Nat]
Pts     == {"start", "segment", "split", "bounce", "copy", "bounced", "done", "rejected"}

\* The lengths of the first n elements together.
Upto(s, n) == Total(SubSeq(s, 1, n))

Types ==
  /\ req \in Requests /\ pc \in Pts
  /\ sg \in Seq(Entries) /\ copies \in Seq(Chunks) /\ sge \in [entry : Nat, done : Nat]
  /\ seg \in Nat /\ offset \in Nat /\ remained \in Nat
  /\ needBounce \in BOOLEAN /\ hasHole \in BOOLEAN

\* The conversion is one of the two ways.
Own      == pc \in {"segment", "split"} \/ (pc = "done" /\ ~needBounce)
Bouncing == pc \in {"bounce", "copy", "bounced", "rejected"} \/ (pc = "done" /\ needBounce)
\* The entries must be aligned.
Straight == req.kind = "bio" /\ ~hasHole

Fresh == seg = 1 /\ offset = 0 /\ copies = <<>> /\ sge = [entry |-> 1, done |-> 0]

SetUp ==
  /\ pc = "start" => sg = <<>> /\ sgCount = 0 /\ live = {} /\ Fresh
  /\ pc # "start" => /\ sgCount = TableSize /\ firstSize = FirstSize
                     /\ needBounce => req.kind = "bio"
                     /\ ~needBounce /\ Straight => ~Crooked
  /\ pc \in {"bounce", "copy", "bounced", "rejected"} => needBounce
  /\ pc \in {"segment", "split"} => ~needBounce

\* Every entry lies in one page and one block and, if it must, is aligned.
Whole(n) ==
  LET e == sg[n]
      p == req.start + Upto(sg, n - 1)
  IN  /\ e.len > 0 /\ e.off + e.len <= Page
      /\ \E c \in Nat : c * Logicb <= p /\ p + e.len <= (c + 1) * Logicb
      /\ Straight => e.off % Align = 0 /\ e.len % Align = 0

\* The entry follows the one before it in the request.
Follows(n) ==
  IF n = 1 THEN sg[n].seg = 1 /\ sg[n].off = Segs[1].off
  ELSE LET p == sg[n - 1]
           e == p.off + p.len
       IN  \/ sg[n].seg = p.seg /\ sg[n].off = e
           \/ /\ sg[n].seg = p.seg + 1 /\ sg[n].off = Segs[sg[n].seg].off
              /\ e = Segs[p.seg].off + Segs[p.seg].len

\* What was mapped of the segment at hand, and of the request.
Within == IF pc = "split" THEN offset ELSE 0
Mapped == Upto(Segs, seg - 1) + Within

\* The last entry ends where the mapping is.
LastEnds ==
  IF Len(sg) = 0 THEN seg = 1 /\ Within = 0
  ELSE LET p == sg[Len(sg)]
           k == IF Within > 0 THEN seg ELSE seg - 1
       IN  /\ k \in 1 .. Len(Segs) /\ p.seg = k
           /\ p.off + p.len = Segs[k].off + IF Within > 0 THEN offset ELSE Segs[k].len

\* Block b is being filled: no more entries than segments and blocks ended,
\* and what remains ends with the block or with the request.
InBlock(b) ==
  /\ b * Logicb <= req.start + Mapped /\ Len(sg) <= seg - 1 + b
  /\ pc # "done" =>
       /\ remained > 0 /\ remained <= Logicb
       /\ \/ req.start + Mapped + remained = (b + 1) * Logicb
          \/ Mapped + remained = Size /\ req.start + Size <= (b + 1) * Logicb

OwnInv ==
  /\ seg \in 1 .. Len(Segs) + 1 /\ (pc = "done" <=> seg = Len(Segs) + 1)
  /\ live = {} /\ copies = <<>> /\ sge = [entry |-> 1, done |-> 0]
  /\ Upto(sg, Len(sg)) = Mapped
  /\ pc = "split" => offset < Segs[seg].len
  /\ Within > 0 => remained = Logicb
  /\ Len(sg) <= 2 * (seg - 1) + IF Within > 0 THEN 1 ELSE 0
  /\ \E b \in Nat : InBlock(b)
  /\ LastEnds
  /\ Straight => Within % Align = 0 /\ (pc # "done" => remained % Align = 0)
  /\ \A n \in 1 .. Len(sg) : sg[n].seg # 0 /\ Follows(n)

\* Where bounce page n ends.
PageEnd(n) == IF n = 0 THEN 0 ELSE IF n = PageCnt THEN Size
              ELSE IF firstSize # 0 THEN firstSize + (n - 1) * Page ELSE n * Page

BounceInv ==
  /\ Len(sg) <= PageCnt /\ (pc # "bounce" => Len(sg) = PageCnt)
  /\ \A n \in 1 .. Len(sg) : sg[n] = BounceEntry(n)
  /\ Upto(sg, Len(sg)) = PageEnd(Len(sg))
  /\ live = IF pc = "done" THEN {} ELSE 1 .. Len(sg)
  /\ pc = "bounce" => Fresh /\ remained = IF FirstSize # 0 THEN FirstSize ELSE Logicb
  /\ pc # "bounce" => endMark = PageCnt + 1

\* A copy is of the same bytes on both sides.
Copied(n) ==
  LET c == copies[n]
      p == Upto(copies, n - 1)
  IN  /\ c.seg \in 1 .. Len(Segs) /\ p = Upto(Segs, c.seg - 1) + c.from
      /\ c.entry \in 1 .. Len(sg) /\ p = Upto(sg, c.entry - 1) + c.to
      /\ c.to + c.len <= sg[c.entry].len

CopyInv ==
  LET p == Upto(copies, Len(copies))
  IN  /\ \A n \in 1 .. Len(copies) : Copied(n)
      /\ pc = "copy" =>
           /\ seg \in 1 .. Len(Segs) /\ offset < Segs[seg].len /\ p = Upto(Segs, seg - 1) + offset
           /\ sge.entry \in 1 .. Len(sg) /\ sge.done < sg[sge.entry].len
           /\ p = Upto(sg, sge.entry - 1) + sge.done
      /\ pc \in {"bounced"} => p = Size /\ sge.entry = Len(sg) + 1

IInv ==
  /\ Types /\ SetUp
  /\ \A n \in 1 .. Len(sg) : Whole(n)
  /\ Own => OwnInv
  /\ Bouncing => BounceInv /\ CopyInv

-----------------------------------------------------------------------------
(* Sums of lengths.                                                        *)

\* A set of numbers with 0 and all successors of its members has all.
LEMMA NatSets ==
  ASSUME NEW T, 0 \in T, \A n \in Nat : n \in T => n + 1 \in T
  PROVE  Nat \subseteq T
  <1> DEFINE F == Nat \ T
  <1> SUFFICES ASSUME F # {}  PROVE FALSE
    OBVIOUS
  <1>1. IsWellFoundedOn(OpToRel(<, Nat), Nat)  BY NatLessThanWellFounded, Zenon
  <1>2. \E x \in F : \A y \in F : ~ (<<y, x>> \in OpToRel(<, Nat))
    <2>1. F \subseteq Nat  OBVIOUS
    <2> QED  BY <1>1, <2>1, WFMin, Zenon
  <1>3. PICK x \in F : \A y \in F : ~ (<<y, x>> \in OpToRel(<, Nat))  BY <1>2, Zenon
  <1>4. \A y \in F : ~ (y < x)  BY <1>3, Zenon DEF OpToRel
  <1>5. x \in Nat /\ x \notin T /\ x # 0  OBVIOUS
  <1>6. x - 1 \in Nat /\ (x - 1) + 1 = x /\ x - 1 < x  BY <1>5
  <1>7. x - 1 \in T  BY <1>4, <1>6
  <1> QED  BY <1>5, <1>6, <1>7

\* f has the sums of the lengths of the first n elements of s, from a on.
Sums(f, s, a, n) ==
  /\ f \in [0 .. n -> Nat] /\ f[0] = a
  /\ \A k \in 1 .. n : f[k] = f[k - 1] + s[k].len

Lengths(s) == Len(s) \in Nat /\ \A k \in 1 .. Len(s) : s[k].len \in Nat

\* There are such sums.
LEMMA SumsExist ==
  ASSUME NEW s, Lengths(s), NEW a \in Nat
  PROVE  \E f : Sums(f, s, a, Len(s))
  <1> DEFINE T == {n \in Nat : n <= Len(s) => \E f : Sums(f, s, a, n)}
  <1>1. 0 \in T
    <2> DEFINE f == [k \in 0 .. 0 |-> a]
    <2>1. f \in [0 .. 0 -> Nat] /\ f[0] = a /\ 1 .. 0 = {}  OBVIOUS
    <2> HIDE DEF f
    <2>2. Sums(f, s, a, 0)  BY <2>1 DEF Sums
    <2> QED  BY <2>2
  <1>2. ASSUME NEW n \in Nat, n \in T  PROVE  n + 1 \in T
    <2> SUFFICES ASSUME n + 1 <= Len(s)  PROVE \E f : Sums(f, s, a, n + 1)
      OBVIOUS
    <2>1. PICK f : Sums(f, s, a, n)  BY <1>2 DEF Lengths
    <2> DEFINE g == [k \in 0 .. n + 1 |-> IF k = n + 1 THEN f[n] + s[n + 1].len ELSE f[k]]
    <2>2. s[n + 1].len \in Nat  BY DEF Lengths
    <2>3. g \in [0 .. n + 1 -> Nat] /\ g[0] = a  BY <2>1, <2>2 DEF Sums
    <2>4. g[n + 1] = f[n] + s[n + 1].len /\ \A k \in 0 .. n : g[k] = f[k]  OBVIOUS
    <2> HIDE DEF g
    <2>5. ASSUME NEW k \in 1 .. n + 1  PROVE  g[k] = g[k - 1] + s[k].len
      <3>1. CASE k = n + 1  BY <2>4, <3>1
      <3>2. CASE k # n + 1
        <4>1. k \in 1 .. n /\ k - 1 \in 0 .. n /\ k \in 0 .. n  BY <3>2
        <4> QED  BY <2>1, <2>4, <4>1 DEF Sums
      <3> QED  BY <3>1, <3>2
    <2>6. Sums(g, s, a, n + 1)  BY <2>3, <2>5 DEF Sums
    <2> QED  BY <2>6
  <1> HIDE DEF T
  <1>3. Nat \subseteq T  BY <1>1, <1>2, NatSets
  <1>4. Len(s) \in T  BY <1>3 DEF Lengths
  <1> QED  BY <1>4 DEF T, Lengths

\* The function of Total and EntryPos.
SumFcn(s, a) ==
  LET g[n \in 0 .. Len(s)] == IF n = 0 THEN a ELSE g[n - 1] + s[n].len IN g

\* It has the sums.
LEMMA SumsUnique ==
  ASSUME NEW s, Lengths(s), NEW a \in Nat, NEW f, Sums(f, s, a, Len(s))
  PROVE  \A n \in 0 .. Len(s) : SumFcn(s, a)[n] = f[n]
  <1> DEFINE Eq(h) == h = [n \in 0 .. Len(s) |-> IF n = 0 THEN a ELSE h[n - 1] + s[n].len]
             g == CHOOSE h : Eq(h)
             T == {n \in Nat : n <= Len(s) => g[n] = f[n]}
  <1>1. Eq(f)  BY DEF Sums, Lengths
  <1>2. Eq(g)  BY <1>1, Zenon
  <1> HIDE DEF g
  <1>3. 0 \in T  BY <1>2 DEF Sums, Lengths
  <1>4. ASSUME NEW n \in Nat, n \in T  PROVE  n + 1 \in T
    BY <1>2, <1>4 DEF Sums, Lengths
  <1> HIDE DEF T
  <1>5. Nat \subseteq T  BY <1>3, <1>4, NatSets
  <1>6. \A n \in 0 .. Len(s) : g[n] = f[n]  BY <1>5 DEF T, Lengths
  <1> QED  BY <1>6, Zenon DEF g, SumFcn

\* Its equations.
LEMMA UptoIs ==
  ASSUME NEW X, NEW s \in Seq(X), \A k \in 1 .. Len(s) : s[k].len \in Nat
  PROVE  /\ Upto(s, 0) = 0 /\ Upto(s, Len(s)) = Total(s)
         /\ \A n \in 0 .. Len(s) : Upto(s, n) \in Nat
         /\ \A n \in 1 .. Len(s) : Upto(s, n) = Upto(s, n - 1) + s[n].len
  <1>0. Lengths(s)  BY DEF Lengths
  <1>1. PICK f : Sums(f, s, 0, Len(s))  BY <1>0, SumsExist
  <1>2. ASSUME NEW n \in 0 .. Len(s)  PROVE  Upto(s, n) = f[n]
    <2> DEFINE t == SubSeq(s, 1, n)
    <2>1. Len(t) = n /\ \A k \in 1 .. n : t[k] = s[k]  OBVIOUS
    <2> HIDE DEF t
    <2> DEFINE h == [k \in 0 .. n |-> f[k]]
    <2>2. Lengths(t)  BY <1>0, <2>1 DEF Lengths
    <2>3. h \in [0 .. n -> Nat] /\ \A k \in 0 .. n : h[k] = f[k]  BY <1>1 DEF Sums
    <2>4. n \in 0 .. n /\ 0 \in 0 .. n  OBVIOUS
    <2> HIDE DEF h
    <2>a. ASSUME NEW k \in 1 .. n  PROVE h[k] = h[k - 1] + t[k].len
      <3>1. k - 1 \in 0 .. n /\ k \in 0 .. n /\ k \in 1 .. Len(s)  OBVIOUS
      <3> QED  BY <1>1, <2>1, <2>3, <3>1 DEF Sums
    <2>b. Sums(h, t, 0, Len(t))  BY <1>1, <2>1, <2>3, <2>4, <2>a DEF Sums
    <2>c. SumFcn(t, 0)[n] = h[n]  BY <2>1, <2>2, <2>4, <2>b, SumsUnique
    <2>5. Total(t) = h[n]
      <3>1. Total(t) = SumFcn(t, 0)[Len(t)]  BY Zenon DEF Total, SumFcn
      <3> QED  BY <2>1, <2>c, <3>1
    <2> QED  BY <2>3, <2>4, <2>5 DEF Upto, t
  <1>3. SubSeq(s, 1, Len(s)) = s  OBVIOUS
  <1>4. Upto(s, Len(s)) = Total(s)  BY <1>3 DEF Upto
  <1>5. Len(s) \in Nat /\ 0 \in 0 .. Len(s)  BY <1>0 DEF Lengths
  <1>6. ASSUME NEW n \in 1 .. Len(s)  PROVE  Upto(s, n) = Upto(s, n - 1) + s[n].len
    <2>1. n - 1 \in 0 .. Len(s) /\ n \in 0 .. Len(s)  BY <1>5
    <2> QED  BY <1>1, <1>2, <2>1 DEF Sums
  <1>7. \A n \in 0 .. Len(s) : f[n] \in Nat  BY <1>1 DEF Sums
  <1> QED  BY <1>1, <1>2, <1>4, <1>5, <1>6, <1>7 DEF Sums

\* A further element leaves the sums before it alone.
LEMMA UptoAppend ==
  ASSUME NEW X, NEW s \in Seq(X), NEW e \in X, NEW n \in 0 .. Len(s)
  PROVE  Upto(Append(s, e), n) = Upto(s, n)
  <1>1. SubSeq(Append(s, e), 1, n) = SubSeq(s, 1, n)  OBVIOUS
  <1> QED  BY <1>1 DEF Upto

\* Sums grow.
LEMMA UptoGrows ==
  ASSUME NEW X, NEW s \in Seq(X), \A k \in 1 .. Len(s) : s[k].len \in Nat \ {0},
         NEW m \in 0 .. Len(s), NEW n \in 0 .. Len(s), m < n
  PROVE  Upto(s, m) < Upto(s, n)
  <1> DEFINE T == {d \in Nat : m + 1 + d <= Len(s) => Upto(s, m) < Upto(s, m + 1 + d)}
  <1>0. /\ \A k \in 0 .. Len(s) : Upto(s, k) \in Nat
        /\ \A k \in 1 .. Len(s) : Upto(s, k) = Upto(s, k - 1) + s[k].len
    BY UptoIs
  <1>1. 0 \in T  BY <1>0, SMTT(30)
  <1>2. ASSUME NEW d \in Nat, d \in T  PROVE  d + 1 \in T
    <2> SUFFICES ASSUME m + 1 + (d + 1) <= Len(s)  PROVE Upto(s, m) < Upto(s, m + 1 + (d + 1))
      OBVIOUS
    <2> DEFINE k == m + 1 + d
    <2>1. k \in 0 .. Len(s) /\ k + 1 \in 1 .. Len(s) /\ m + 1 + (d + 1) = k + 1 /\ (k + 1) - 1 = k
      OBVIOUS
    <2>2. Upto(s, m) < Upto(s, k)  BY <1>2
    <2> HIDE DEF k
    <2>3. Upto(s, k + 1) = Upto(s, k) + s[k + 1].len  BY <1>0, <2>1
    <2>4. s[k + 1].len \in Nat /\ s[k + 1].len > 0  BY <2>1
    <2>5. Upto(s, m) \in Nat /\ Upto(s, k) \in Nat  BY <1>0, <2>1
    <2>6. Upto(s, m) < Upto(s, k + 1)  BY <2>2, <2>3, <2>4, <2>5
    <2> QED  BY <2>1, <2>6
  <1> HIDE DEF T
  <1>3. Nat \subseteq T  BY <1>1, <1>2, NatSets
  <1>4. n - m - 1 \in T /\ m + 1 + (n - m - 1) = n  BY <1>3
  <1> QED  BY <1>4 DEF T

\* Where an entry starts.
LEMMA PosIs ==
  ASSUME req.start \in Nat, sg \in Seq(Entries), NEW n \in 1 .. Len(sg) + 1
  PROVE  EntryPos(n) = req.start + Upto(sg, n - 1)
  <1> DEFINE a == req.start
             f == [m \in 0 .. Len(sg) |-> a + Upto(sg, m)]
  <1>1. \A k \in 1 .. Len(sg) : sg[k].len \in Nat
    <2>1. \A k \in 1 .. Len(sg) : sg[k] \in Entries  OBVIOUS
    <2> QED  BY <2>1 DEF Entries
  <1>2. Lengths(sg)  BY <1>1 DEF Lengths
  <1>3. /\ Upto(sg, 0) = 0 /\ \A m \in 0 .. Len(sg) : Upto(sg, m) \in Nat
        /\ \A m \in 1 .. Len(sg) : Upto(sg, m) = Upto(sg, m - 1) + sg[m].len
    BY <1>1, UptoIs
  <1>4. f \in [0 .. Len(sg) -> Nat] /\ \A m \in 0 .. Len(sg) : f[m] = a + Upto(sg, m)  BY <1>3
  <1> HIDE DEF f
  <1>5. ASSUME NEW k \in 1 .. Len(sg)  PROVE f[k] = f[k - 1] + sg[k].len
    <2>1. k - 1 \in 0 .. Len(sg) /\ k \in 0 .. Len(sg)  OBVIOUS
    <2>2. f[k] = a + Upto(sg, k) /\ f[k - 1] = a + Upto(sg, k - 1)  BY <1>4, <2>1, Zenon
    <2>3. Upto(sg, k) = Upto(sg, k - 1) + sg[k].len /\ Upto(sg, k - 1) \in Nat
      BY <1>3, <2>1, Zenon
    <2>4. sg[k].len \in Nat /\ a \in Nat  BY <1>1
    <2> DEFINE x == Upto(sg, k)
               y == Upto(sg, k - 1)
               l == sg[k].len
    <2> HIDE DEF x, y, l, a
    <2> QED  BY <2>2, <2>3, <2>4 DEF x, y, l
  <1>6. f[0] = a  BY <1>3, <1>4
  <1>7. Sums(f, sg, a, Len(sg))  BY <1>4, <1>5, <1>6 DEF Sums
  <1>8. n - 1 \in 0 .. Len(sg)  OBVIOUS
  <1>9. EntryPos(n) = SumFcn(sg, a)[n - 1]  BY Zenon DEF EntryPos, SumFcn
  <1> QED  BY <1>2, <1>4, <1>7, <1>8, <1>9, SumsUnique

-----------------------------------------------------------------------------
(* Multiples.                                                              *)

\* A number is a multiple if it leaves no rest.
LEMMA Multiple ==
  ASSUME NEW g \in Nat \ {0}, NEW a \in Nat
  PROVE  a % g = 0 <=> \E k \in Nat : a = g * k
  <1>1. a % g \in 0 .. g - 1 /\ a \div g \in Nat /\ a = g * (a \div g) + (a % g)  OBVIOUS
  <1>2. a % g = 0 => a = g * (a \div g)  BY <1>1
  <1>3. ASSUME NEW k \in Nat, a = g * k  PROVE  a % g = 0
    BY <1>3
  <1> QED  BY <1>1, <1>2, <1>3, Zenon

\* Sums and differences of multiples.
LEMMA SumOfMultiples ==
  ASSUME NEW g \in Nat \ {0}, NEW a \in Nat, NEW b \in Nat, a % g = 0, b % g = 0
  PROVE  (a + b) % g = 0 /\ (b <= a => (a - b) % g = 0)
  <1>1. PICK k \in Nat : a = g * k  BY Multiple
  <1>2. PICK l \in Nat : b = g * l  BY Multiple
  <1>3. a + b = g * (k + l) /\ k + l \in Nat /\ a + b \in Nat  BY <1>1, <1>2
  <1>4. (a + b) % g = 0  BY <1>3, Multiple, Zenon
  <1>5. ASSUME b <= a  PROVE  (a - b) % g = 0
    <2>1. l <= k
      <3>1. ASSUME k < l  PROVE  FALSE
        <4>1. PICK d \in Nat : l = k + 1 + d
          <5>1. l - k - 1 \in Nat /\ l = k + 1 + (l - k - 1)  BY <3>1
          <5> QED  BY <5>1
        <4>2. g * l = g * k + g + g * d /\ g * d \in Nat  BY <4>1
        <4> QED  BY <1>1, <1>2, <1>5, <4>2
      <3> QED  BY <3>1
    <2>2. a - b = g * (k - l) /\ k - l \in Nat /\ a - b \in Nat  BY <1>1, <1>2, <1>5, <2>1
    <2> QED  BY <2>2, Multiple
  <1> QED  BY <1>4, <1>5

\* A multiple of a multiple.
LEMMA MultipleOfMultiple ==
  ASSUME NEW g \in Nat \ {0}, NEW h \in Nat \ {0}, h % g = 0, NEW a \in Nat, a % h = 0
  PROVE  a % g = 0
  <1>0. h \in Nat  OBVIOUS
  <1>1. PICK k \in Nat : h = g * k  BY <1>0, Multiple, Zenon
  <1>2. PICK l \in Nat : a = h * l  BY Multiple, Zenon
  <1>3. a = g * (k * l) /\ k * l \in Nat  BY <1>1, <1>2
  <1> QED  BY <1>3, Multiple

\* The quotient.
LEMMA DivIs ==
  ASSUME NEW g \in Nat \ {0}, NEW a \in Nat
  PROVE  a \div g \in Nat /\ a % g \in Nat /\ a % g < g /\ a = (a \div g) * g + (a % g)
  OBVIOUS

\* Products grow.
LEMMA Products ==
  ASSUME NEW g \in Nat \ {0}, NEW a \in Nat, NEW b \in Nat
  PROVE  /\ a * g \in Nat /\ (a + 1) * g = a * g + g
         /\ a <= b => a * g <= b * g
         /\ a * g < b * g => a < b
  <1>1. a * g \in Nat /\ b * g \in Nat /\ (a + 1) * g = a * g + g  OBVIOUS
  <1>2. ASSUME NEW x \in Nat, NEW y \in Nat, x <= y  PROVE x * g <= y * g
    <2>1. PICK d \in Nat : y = x + d
      <3>1. y - x \in Nat /\ y = x + (y - x)  BY <1>2
      <3> QED  BY <3>1
    <2>2. y * g = x * g + d * g /\ d * g \in Nat /\ x * g \in Nat  BY <2>1
    <2> QED  BY <2>2
  <1>3. a <= b => a * g <= b * g  BY <1>2
  <1>4. b <= a => b * g <= a * g  BY <1>2
  <1> QED  BY <1>1, <1>3, <1>4

\* A number between multiples has the quotient of the lower.
LEMMA DivBetween ==
  ASSUME NEW g \in Nat \ {0}, NEW c \in Nat, NEW a \in Nat, c * g <= a, a < (c + 1) * g
  PROVE  a \div g = c
  <1> DEFINE q == a \div g
             r == a % g
  <1>1. q \in Nat /\ r \in Nat /\ r < g /\ a = q * g + r  BY DivIs
  <1> HIDE DEF q, r
  <1>2. /\ q * g \in Nat /\ (q + 1) * g = q * g + g /\ (q * g < (c + 1) * g => q < c + 1)
    BY <1>1, Products
  <1>3. c * g \in Nat /\ (c * g < (q + 1) * g => c < q + 1) /\ (c + 1) * g = c * g + g
    BY <1>1, Products
  <1>4. q * g < (c + 1) * g  BY <1>1, <1>2, <1>3
  <1>5. c * g < (q + 1) * g  BY <1>1, <1>2, <1>3
  <1>6. q = c  BY <1>1, <1>2, <1>3, <1>4, <1>5
  <1> QED  BY <1>6 DEF q

-----------------------------------------------------------------------------
(* Requests.                                                               *)

\* What the callers pass.
LEMMA RequestIs ==
  ASSUME req \in Requests
  PROVE  /\ Page \in Nat \ {0} /\ Logicb = Page /\ Align \in Nat \ {0}
         /\ Page % Align = 0
         /\ req.kind \in Kinds /\ req.start \in Nat /\ req.start < Logicb /\ req.start % Align = 0
         /\ Segs \in Seq([off : Nat, len : Nat]) /\ Len(Segs) \in Nat /\ Len(Segs) > 0
         /\ \A k \in 1 .. Len(Segs) :
              /\ Segs[k].off \in Nat /\ Segs[k].len \in Nat /\ Segs[k].len > 0
              /\ Segs[k].off + Segs[k].len <= Page
  <1>1. /\ Align \in Nat \ {0} /\ Sector \in Nat \ {0} /\ Page \in Nat \ {0}
        /\ Sector % Align = 0 /\ Page % Sector = 0 /\ Logicb = Page
        /\ req.kind \in Kinds /\ req.start \in 0 .. Logicb - 1 /\ req.start % Sector = 0
        /\ req.segs \in Seq([off : Nat, len : Nat]) /\ req.segs # <<>>
    BY SgAssumption
  <1>2. \A k \in 1 .. Len(req.segs) :
           req.segs[k].off \in 0 .. Page - 1 /\ req.segs[k].len \in 1 .. Page - req.segs[k].off
    BY SgAssumption
  <1>3. Page \in Nat /\ req.start \in Nat /\ req.start < Logicb  BY <1>1
  <1>4. Page % Align = 0  BY <1>1, <1>3, MultipleOfMultiple, Zenon
  <1>5. req.start % Align = 0  BY <1>1, <1>3, MultipleOfMultiple, Zenon
  <1>6. Len(req.segs) \in Nat /\ Len(req.segs) > 0  BY <1>1
  <1>7. ASSUME NEW k \in 1 .. Len(Segs)
        PROVE  /\ Segs[k].off \in Nat /\ Segs[k].len \in Nat /\ Segs[k].len > 0
               /\ Segs[k].off + Segs[k].len <= Page
    BY <1>2, <1>3, SMTT(30) DEF Segs
  <1> QED  BY <1>1, <1>3, <1>4, <1>5, <1>6, <1>7, Zenon DEF Segs

\* The sums over its segments.
LEMMA SegsAddUp ==
  ASSUME req \in Requests
  PROVE  /\ Upto(Segs, 0) = 0 /\ Upto(Segs, Len(Segs)) = Size
         /\ \A n \in 0 .. Len(Segs) : Upto(Segs, n) \in Nat
         /\ \A n \in 1 .. Len(Segs) : Upto(Segs, n) = Upto(Segs, n - 1) + Segs[n].len
         /\ \A m, n \in 0 .. Len(Segs) : m < n => Upto(Segs, m) < Upto(Segs, n)
         /\ Size \in Nat /\ Size > 0 /\ Size % Align = 0
  <1> DEFINE X == [off : Nat, len : Nat]
  <1>1. /\ Segs \in Seq(X) /\ Len(Segs) \in Nat /\ Len(Segs) > 0
        /\ \A k \in 1 .. Len(Segs) : Segs[k].len \in Nat /\ Segs[k].len > 0
    BY RequestIs
  <1> HIDE DEF X
  <1>2. /\ Upto(Segs, 0) = 0 /\ Upto(Segs, Len(Segs)) = Total(Segs)
        /\ \A n \in 0 .. Len(Segs) : Upto(Segs, n) \in Nat
        /\ \A n \in 1 .. Len(Segs) : Upto(Segs, n) = Upto(Segs, n - 1) + Segs[n].len
    BY <1>1, UptoIs
  <1>3. \A m, n \in 0 .. Len(Segs) : m < n => Upto(Segs, m) < Upto(Segs, n)
    BY <1>1, UptoGrows
  <1>4. 0 \in 0 .. Len(Segs) /\ Len(Segs) \in 0 .. Len(Segs)  BY <1>1
  <1>5. Size \in Nat /\ Size > 0  BY <1>1, <1>2, <1>3, <1>4 DEF Size
  <1>6. Size % Align = 0
    <2>1. /\ Align \in Nat \ {0} /\ Sector \in Nat \ {0} /\ Sector % Align = 0
          /\ Total(req.segs) % Sector = 0
      BY SgAssumption
    <2>2. Size % Sector = 0  BY <2>1 DEF Size, Segs
    <2> QED  BY <1>5, <2>1, <2>2, MultipleOfMultiple, Zenon
  <1> QED  BY <1>2, <1>3, <1>5, <1>6 DEF Size

\* What the first block holds of it.
LEMMA FirstSizeIs ==
  ASSUME req \in Requests
  PROVE  /\ FirstSize \in Nat /\ FirstSize <= Size /\ FirstSize % Align = 0
         /\ FirstSize = 0 => req.start = 0
         /\ FirstSize # 0 => /\ req.start + FirstSize <= Logicb
                             /\ FirstSize = Size \/ req.start + FirstSize = Logicb
  <1>1. /\ Logicb \in Nat \ {0} /\ Align \in Nat \ {0} /\ Logicb % Align = 0
        /\ req.start \in Nat /\ req.start < Logicb /\ req.start % Align = 0
    BY RequestIs
  <1>2. Size \in Nat /\ Size > 0 /\ Size % Align = 0  BY SegsAddUp
  <1>3. req.start % Logicb = req.start  BY <1>1
  <1>4. CASE req.start = 0
    <2>1. (Logicb - 0) % Logicb = 0  BY <1>1
    <2>2. FirstSize = 0  BY <1>2, <1>3, <1>4, <2>1 DEF FirstSize, Lesser
    <2>3. 0 % Align = 0  BY <1>1
    <2> QED  BY <1>2, <1>4, <2>2, <2>3
  <1>5. CASE req.start # 0
    <2>1. (Logicb - req.start) % Logicb = Logicb - req.start  BY <1>1, <1>5
    <2>2. FirstSize = IF Size < Logicb - req.start THEN Size ELSE Logicb - req.start
      BY <1>3, <2>1 DEF FirstSize, Lesser
    <2>3. (Logicb - req.start) % Align = 0  BY <1>1, SumOfMultiples
    <2> QED  BY <1>1, <1>2, <1>5, <2>2, <2>3
  <1> QED  BY <1>4, <1>5

\* The sizes are those of the request.
LEMMA SameRequest ==
  ASSUME req' = req
  PROVE  /\ Segs' = Segs /\ Size' = Size /\ FirstSize' = FirstSize /\ TableSize' = TableSize
         /\ Crooked' <=> Crooked
         /\ firstSize' = firstSize => /\ PageCnt' = PageCnt
                                      /\ \A n : BounceEntry(n)' = BounceEntry(n)
                                      /\ \A n : PageEnd(n)' = PageEnd(n)
  <1>1. Segs' = Segs  BY DEF Segs
  <1>2. Size' = Size  BY <1>1 DEF Size
  <1>3. FirstSize' = FirstSize  BY <1>2 DEF FirstSize
  <1>4. TableSize' = TableSize  BY <1>1, <1>2 DEF TableSize
  <1>5. Crooked' <=> Crooked  BY <1>1 DEF Crooked
  <1>6. ASSUME firstSize' = firstSize
        PROVE  /\ PageCnt' = PageCnt
               /\ \A n : BounceEntry(n)' = BounceEntry(n) /\ PageEnd(n)' = PageEnd(n)
    <2>1. LastLen' = LastLen  BY <1>2, <1>6 DEF LastLen
    <2>2. PageCnt' = PageCnt  BY <1>2, <1>6, <2>1 DEF PageCnt
    <2> QED  BY Zenon, <1>2, <1>6, <2>1, <2>2 DEF BounceEntry, PageEnd
  <1> QED  BY <1>1, <1>2, <1>3, <1>4, <1>5, <1>6

\* A sequence that grows by one element.
LEMMA Grown ==
  ASSUME NEW X, \A x \in X : x.len \in Nat, NEW s \in Seq(X), NEW e \in X
  PROVE  LET t == Append(s, e)
         IN  /\ t \in Seq(X) /\ Len(s) \in Nat /\ Len(t) = Len(s) + 1
             /\ t[Len(s) + 1] = e /\ \A n \in 1 .. Len(s) : t[n] = s[n]
             /\ \A n \in 0 .. Len(s) : Upto(t, n) = Upto(s, n) /\ Upto(s, n) \in Nat
             /\ Upto(t, Len(s) + 1) = Upto(s, Len(s)) + e.len
  <1> DEFINE t == Append(s, e)
  <1>1. /\ t \in Seq(X) /\ Len(s) \in Nat /\ Len(t) = Len(s) + 1
        /\ t[Len(s) + 1] = e /\ \A n \in 1 .. Len(s) : t[n] = s[n]
    OBVIOUS
  <1>2. \A n \in 0 .. Len(s) : Upto(t, n) = Upto(s, n)  BY UptoAppend
  <1> HIDE DEF t
  <1>3. \A n \in 1 .. Len(s) : s[n] \in X  OBVIOUS
  <1>4. \A n \in 0 .. Len(s) : Upto(s, n) \in Nat  BY <1>3, UptoIs
  <1>5. \A n \in 1 .. Len(t) : t[n] \in X  BY <1>1
  <1>6. \A n \in 1 .. Len(t) : Upto(t, n) = Upto(t, n - 1) + t[n].len  BY <1>1, <1>5, UptoIs, Zenon
  <1>7. /\ Len(s) + 1 \in 1 .. Len(t) /\ (Len(s) + 1) - 1 = Len(s) /\ Len(s) \in 0 .. Len(s)
    BY <1>1
  <1>8. Upto(t, Len(s) + 1) = Upto(s, Len(s)) + e.len  BY <1>1, <1>2, <1>6, <1>7
  <1> QED  BY <1>1, <1>2, <1>4, <1>8, Zenon DEF t

\* Nothing has been summed up yet.
LEMMA UptoEmpty == Upto(<<>>, 0) = 0
  <1>1. <<>> \in Seq(Entries) /\ Len(<<>>) = 0 /\ 1 .. 0 = {}  OBVIOUS
  <1>2. \A k \in 1 .. Len(<<>>) : <<>>[k].len \in Nat  BY <1>1
  <1> QED  BY <1>1, <1>2, UptoIs, Zenon

-----------------------------------------------------------------------------
(* The invariant.                                                          *)

\* Before the table is there.
LEMMA InitIInv == Init => IInv
  <1> SUFFICES ASSUME Init  PROVE IInv
    OBVIOUS
  <1>1. sg = <<>> /\ Len(sg) = 0 /\ 1 .. 0 = {}  BY DEF Init
  <1>2. Types
    <2>1. sg \in Seq(Entries) /\ copies \in Seq(Chunks)  BY DEF Init
    <2>2. sge \in [entry : Nat, done : Nat]  BY DEF Init
    <2>3. /\ req \in Requests /\ pc \in Pts /\ seg \in Nat /\ offset \in Nat /\ remained \in Nat
          /\ needBounce \in BOOLEAN /\ hasHole \in BOOLEAN
      BY DEF Init, Pts
    <2> QED  BY <2>1, <2>2, <2>3, Zenon DEF Types
  <1>3. SetUp  BY DEF Init, SetUp, Fresh
  <1>4. ~Own /\ ~Bouncing  BY DEF Init, Own, Bouncing
  <1> QED  BY <1>1, <1>2, <1>3, <1>4 DEF IInv

\* Entries that stay as they are.
LEMMA SameEntries ==
  ASSUME IInv, UNCHANGED <<req, sg>>, hasHole => hasHole'
  PROVE  \A n \in 1 .. Len(sg') : Whole(n)'
  BY DEF IInv, Whole, Straight

\* The mapping of own pages begins: first of all, or after bouncing failed.
LEMMA OwnBegins ==
  ASSUME req \in Requests, req' = req, pc' = "segment", sg' = <<>>, seg' = 1, live' = {},
         copies' = <<>>, sge' = [entry |-> 1, done |-> 0],
         remained' = IF FirstSize # 0 THEN FirstSize ELSE Logicb
  PROVE  OwnInv' /\ remained' \in Nat
  <1>1. /\ Logicb \in Nat \ {0} /\ Align \in Nat \ {0} /\ Logicb % Align = 0
        /\ req.start \in Nat /\ req.start < Logicb
        /\ Len(Segs) \in Nat /\ Len(Segs) > 0
    BY RequestIs
  <1>2. /\ FirstSize \in Nat /\ FirstSize <= Size /\ FirstSize % Align = 0
        /\ FirstSize = 0 => req.start = 0
        /\ FirstSize # 0 => /\ req.start + FirstSize <= Logicb
                            /\ FirstSize = Size \/ req.start + FirstSize = Logicb
    BY FirstSizeIs
  <1>3. Segs' = Segs /\ Size' = Size  BY SameRequest
  <1>4. Within' = 0  BY DEF Within
  <1>5. Len(sg') = 0 /\ Upto(sg', Len(sg')) = 0  BY UptoEmpty
  <1>6. Mapped' = 0
    <2>1. Upto(Segs, 0) = 0  BY SegsAddUp
    <2>2. Mapped' = Upto(Segs, seg' - 1) + Within'  BY <1>3 DEF Mapped, Upto
    <2>3. seg' - 1 = 0  OBVIOUS
    <2> QED  BY <1>4, <2>1, <2>2, <2>3
  <1>7. remained' \in Nat /\ remained' > 0 /\ remained' <= Logicb /\ remained' % Align = 0
    BY <1>1, <1>2
  <1>8. \/ req.start + remained' = Logicb
        \/ remained' = Size /\ req.start + Size <= Logicb
    BY <1>1, <1>2
  <1>9. InBlock(0)'
    BY <1>1, <1>2, <1>3, <1>5, <1>6, <1>7, <1>8 DEF InBlock
  <1>10. \E b \in Nat : InBlock(b)'  BY <1>9
  <1>11. 0 % Align = 0  BY <1>1
  <1>12. LastEnds'  BY <1>4, <1>5 DEF LastEnds
  <1> QED
    BY <1>1, <1>3, <1>4, <1>5, <1>6, <1>7, <1>10, <1>11, <1>12 DEF OwnInv

-----------------------------------------------------------------------------
(* Bounce pages.                                                           *)

\* The quotient rounded up is enough.
LEMMA CeilDivIs ==
  ASSUME NEW g \in Nat \ {0}, NEW a \in Nat
  PROVE  CeilDiv(a, g) \in Nat /\ CeilDiv(a, g) * g \in Nat /\ a <= CeilDiv(a, g) * g
  <1> DEFINE x == a + g - 1
             q == x \div g
             r == x % g
  <1>1. x \in Nat /\ g \in Nat  OBVIOUS
  <1>2. q \in Nat /\ r \in Nat /\ r < g /\ x = q * g + r  BY <1>1, DivIs
  <1>3. q * g \in Nat  BY <1>2
  <1>4. a = q * g + r - g + 1  BY <1>2, <1>3
  <1>5. a <= q * g  BY <1>1, <1>2, <1>3, <1>4
  <1> QED  BY <1>2, <1>3, <1>5 DEF CeilDiv

\* The pages for a request.
LEMMA PageCntIs ==
  ASSUME req \in Requests, firstSize = FirstSize
  PROVE  /\ PageCnt \in Nat /\ PageCnt > 0 /\ PageCnt <= CeilDiv(Size, Logicb) + 1
         /\ PageEnd(0) = 0 /\ PageEnd(PageCnt) = Size
         /\ \A n \in 1 .. PageCnt :
              /\ BounceEntry(n) \in Entries /\ BounceEntry(n).pg = n
              /\ BounceEntry(n).len > 0 /\ BounceEntry(n).off + BounceEntry(n).len <= Page
              /\ BounceEntry(n).off % Align = 0 /\ BounceEntry(n).len % Align = 0
              /\ PageEnd(n - 1) \in Nat /\ PageEnd(n) = PageEnd(n - 1) + BounceEntry(n).len
              /\ \E c \in Nat : /\ c * Logicb <= req.start + PageEnd(n - 1)
                                /\ req.start + PageEnd(n) <= (c + 1) * Logicb
  <1> DEFINE F == firstSize
             D == Size - F
             q == D \div Page
             r == D % Page
             f == IF F # 0 THEN 1 ELSE 0
             l == IF r # 0 THEN 1 ELSE 0
  <1>0. 0 - 0 = 0  OBVIOUS
  <1>1. /\ Page \in Nat \ {0} /\ Logicb = Page /\ Align \in Nat \ {0} /\ Page % Align = 0
        /\ req.start \in Nat /\ req.start < Logicb
    BY RequestIs
  <1>2. Size \in Nat /\ Size > 0 /\ Size % Align = 0  BY SegsAddUp
  <1>3. /\ F \in Nat /\ F <= Size /\ F % Align = 0
        /\ F = 0 => req.start = 0
        /\ F # 0 => /\ req.start + F <= Logicb
                    /\ F = Size \/ req.start + F = Logicb
    BY FirstSizeIs
  <1>4. D \in Nat /\ Size = F + D  BY <1>2, <1>3
  <1>5. q \in Nat /\ r \in Nat /\ r < Page /\ D = q * Page + r  BY <1>1, <1>4, DivIs, Zenon
  <1>6. q * Page \in Nat  BY <1>1, <1>5
  <1>7. PageCnt = f + q + l /\ LastLen = r  BY DEF PageCnt, LastLen
  <1>8. r % Align = 0
    <2>1. D % Align = 0  BY <1>1, <1>2, <1>3, SumOfMultiples, Zenon
    <2>2. (q * Page) % Align = 0
      <3>1. q * Page = Page * q  BY <1>1, <1>5
      <3>2. (q * Page) % Page = 0  BY <1>1, <1>5, <1>6, <3>1, Multiple, Zenon
      <3> QED  BY <1>1, <1>6, <3>2, MultipleOfMultiple, Zenon
    <2>3. r = D - q * Page /\ q * Page <= D  BY <1>4, <1>5, <1>6
    <2> QED  BY <1>1, <1>4, <1>6, <2>1, <2>2, <2>3, SumOfMultiples
  <1> HIDE DEF F, D, q, r
  <1>9. f \in {0, 1} /\ l \in {0, 1}  OBVIOUS
  <1>10. q = 0 => q * Page = 0  BY <1>1
  <1>11. PageCnt \in Nat /\ PageCnt > 0
    <2>1. PageCnt \in Nat  BY <1>5, <1>7, <1>9
    <2>2. ASSUME f = 0, l = 0, q = 0  PROVE FALSE
      BY <1>2, <1>3, <1>4, <1>5, <1>6, <1>10, <2>2
    <2> QED  BY <1>5, <1>7, <1>9, <2>1, <2>2
  <1>12. PageCnt <= CeilDiv(Size, Logicb) + 1
    <2> DEFINE C == CeilDiv(Size, Logicb)
    <2>1. C \in Nat /\ C * Page \in Nat /\ Size <= C * Page  BY <1>1, <1>2, CeilDivIs
    <2> HIDE DEF C
    <2>2. (q * Page < C * Page => q < C) /\ (C + 1) * Page = C * Page + Page
          /\ (q * Page < (C + 1) * Page => q < C + 1)
      BY <1>1, <1>5, <2>1, Products
    <2>3. l = 1 => q < C  BY <1>3, <1>4, <1>5, <1>6, <2>1, <2>2
    <2>4. q < C + 1  BY <1>1, <1>3, <1>4, <1>5, <1>6, <2>1, <2>2
    <2>5. PageCnt <= C + 1  BY <1>5, <1>7, <1>9, <2>1, <2>3, <2>4
    <2> QED  BY <2>5 DEF C
  <1>13. PageEnd(0) = 0 /\ PageEnd(PageCnt) = Size  BY <1>11 DEF PageEnd
  <1> DEFINE E(n) == F + (n - f) * Page
  <1>14. ASSUME NEW n \in f .. f + q  PROVE  PageEnd(n) = E(n) /\ (n - f) * Page \in Nat
    <2>1. n - f \in Nat /\ n \in Nat  BY <1>5, <1>9
    <2>2. (n - f) * Page \in Nat  BY <1>1, <2>1
    <2>3. CASE n = PageCnt
      <3>1. l = 0 /\ n - f = q  BY <1>5, <1>7, <1>9, <2>1, <2>3
      <3> QED  BY <1>3, <1>4, <1>5, <1>6, <1>13, <2>2, <2>3, <3>1
    <2>4. CASE n # PageCnt /\ n = 0
      <3>1. f <= n  BY <1>5, <1>9
      <3>2. F = 0  BY <2>4, <3>1
      <3>3. n - f = 0
        <4>1. n = 0 /\ f = 0  BY <2>4, <3>2, Zenon
        <4> QED  BY <1>0, <4>1, Zenon
      <3>4. 0 * Page = 0  BY <1>1
      <3> QED  BY <1>13, <2>2, <2>4, <3>2, <3>3, <3>4
    <2>5. CASE n # PageCnt /\ n # 0
      <3>1. PageEnd(n) = IF F # 0 THEN F + (n - 1) * Page ELSE n * Page  BY <2>5 DEF PageEnd, F
      <3>2. CASE F # 0  BY <3>1, <2>2, <3>2
      <3>3. CASE F = 0
        <4>1. n - f = n  BY <2>1, <3>3
        <4>2. n * Page \in Nat /\ 0 + n * Page = n * Page  BY <1>1, <2>1
        <4> QED  BY <3>1, <3>3, <4>1, <4>2, <2>2
      <3> QED  BY <3>2, <3>3
    <2> QED  BY <2>3, <2>4, <2>5
  <1>15. F # 0 /\ D # 0 => req.start + F = Page  BY <1>1, <1>3, <1>4
  <1>16. req.start + F = f * Page \/ (F # 0 /\ D = 0)
    <2>1. 1 * Page = Page /\ 0 * Page = 0  BY <1>1
    <2> QED  BY <1>1, <1>3, <1>15, <2>1
  <1>17. ASSUME NEW n \in 1 .. PageCnt
         PROVE  /\ BounceEntry(n) \in Entries /\ BounceEntry(n).pg = n
                /\ BounceEntry(n).len > 0 /\ BounceEntry(n).off + BounceEntry(n).len <= Page
                /\ BounceEntry(n).off % Align = 0 /\ BounceEntry(n).len % Align = 0
                /\ PageEnd(n - 1) \in Nat /\ PageEnd(n) = PageEnd(n - 1) + BounceEntry(n).len
                /\ \E c \in Nat : /\ c * Logicb <= req.start + PageEnd(n - 1)
                                  /\ req.start + PageEnd(n) <= (c + 1) * Logicb
    <2> DEFINE e == BounceEntry(n)
    <2>0. n \in Nat /\ n > 0 /\ n <= PageCnt  BY <1>11
    <2>a. 0 % Align = 0 /\ (Page - F) % Align = 0 /\ F <= Page
      <3>1. 0 % Align = 0  BY <1>1
      <3>2. F <= Page  BY <1>1, <1>3
      <3> QED  BY <1>1, <1>3, <3>1, <3>2, SumOfMultiples, Zenon
    <2>b. /\ e.pg = n /\ e.seg = 0 /\ e = [seg |-> 0, pg |-> n, off |-> e.off, len |-> e.len]
          /\ e.off = IF n = 1 /\ F # 0 THEN Page - F ELSE 0
          /\ e.len = IF n = 1 /\ F # 0 THEN F ELSE IF n = PageCnt /\ r # 0 THEN r ELSE Page
      BY <1>7 DEF BounceEntry, F
    <2> HIDE DEF e
    <2>c. e.off \in Nat /\ e.len \in Nat /\ e.len > 0 /\ e.off + e.len <= Page
      BY <1>1, <1>3, <1>5, <2>a, <2>b
    <2>d. e \in Entries  BY <2>0, <2>b, <2>c DEF Entries
    <2>e. e.off % Align = 0 /\ e.len % Align = 0  BY <1>1, <1>3, <1>8, <2>a, <2>b
    <2>1. /\ PageEnd(n - 1) \in Nat /\ PageEnd(n) = PageEnd(n - 1) + e.len
          /\ \E c \in Nat : /\ c * Page <= req.start + PageEnd(n - 1)
                            /\ req.start + PageEnd(n) <= (c + 1) * Page
      <3>1. CASE n = 1 /\ F # 0
        <4>1. PageEnd(1) = F
          <5>1. f \in f .. f + q /\ f = 1  BY <1>5, <3>1
          <5>2. PageEnd(f) = E(f)  BY <1>14, <5>1
          <5>3. (f - f) * Page = 0  BY <1>1, <5>1
          <5> QED  BY <1>3, <5>1, <5>2, <5>3
        <4>2. PageEnd(n - 1) = 0 /\ PageEnd(n) = F /\ e.len = F  BY <1>13, <2>b, <3>1, <4>1
        <4>3. 0 \in Nat /\ 0 * Page = 0 /\ (0 + 1) * Page = Page  BY <1>1
        <4>4. 0 * Page <= req.start + PageEnd(n - 1) /\ req.start + PageEnd(n) <= (0 + 1) * Page
          BY <1>1, <1>3, <3>1, <4>2, <4>3
        <4> QED  BY <1>3, <4>2, <4>3, <4>4
      <3>2. CASE ~(n = 1 /\ F # 0)
        <4>1. n - 1 \in f .. f + q  BY <1>5, <1>7, <1>9, <2>0, <3>2
        <4>2. PageEnd(n - 1) = E(n - 1) /\ (n - 1 - f) * Page \in Nat  BY <1>14, <4>1
        <4>3. ~(F # 0 /\ D = 0)
          <5>1. ASSUME F # 0, D = 0  PROVE FALSE
            <6>1. r = 0 /\ q * Page = 0  BY <1>5, <1>6, <5>1
            <6>2. q = 0
              <7>1. 0 * Page < q * Page \/ q <= 0  BY <1>1, <1>5, <1>6, <6>1, Products
              <7> QED  BY <1>1, <1>5, <6>1, <7>1
            <6> QED  BY <1>7, <2>0, <3>2, <5>1, <6>1, <6>2
          <5> QED  BY <5>1
        <4>4. req.start + PageEnd(n - 1) = (n - 1) * Page /\ (n - 1) * Page \in Nat
          <5>1. (n - 1) * Page = f * Page + (n - 1 - f) * Page  BY <1>1, <1>9, <2>0
          <5>2. f * Page \in Nat  BY <1>1, <1>9
          <5>3. req.start + F = f * Page  BY <1>16, <4>3
          <5>4. PageEnd(n - 1) = F + (n - 1 - f) * Page  BY <4>2
          <5> DEFINE X == (n - 1 - f) * Page
                     Y == f * Page
                     Z == (n - 1) * Page
          <5>5. /\ req.start \in Nat /\ F \in Nat /\ X \in Nat /\ Y \in Nat /\ Z = Y + X /\ req.start + F = Y
                /\ PageEnd(n - 1) = F + X
            BY <1>1, <1>3, <4>2, <5>1, <5>2, <5>3, <5>4, Zenon
          <5> HIDE DEF X, Y, Z
          <5>6. req.start + PageEnd(n - 1) = Z /\ Z \in Nat
            <6>1. req.start + (F + X) = (req.start + F) + X /\ (req.start + F) + X \in Nat
              BY <5>5
            <6>2. PageEnd(n - 1) = F + X /\ req.start + F = Y /\ Z = Y + X  BY <5>5, Zenon
            <6>3. req.start + PageEnd(n - 1) = (req.start + F) + X  BY <6>1, <6>2, Zenon
            <6>4. (req.start + F) + X = Z  BY <6>2, Zenon
            <6> QED  BY <6>1, <6>3, <6>4, Zenon
          <5> QED  BY <5>6 DEF Z
        <4>5. PageEnd(n) = PageEnd(n - 1) + e.len /\ PageEnd(n - 1) \in Nat
          <5>0. PageEnd(n - 1) \in Nat  BY <1>3, <4>2
          <5>1. CASE n = PageCnt /\ r # 0
            <6>1. e.len = r /\ n - 1 - f = q  BY <1>5, <1>7, <1>9, <2>b, <3>2, <5>1
            <6> QED  BY <1>3, <1>4, <1>5, <1>6, <1>13, <4>2, <5>0, <5>1, <6>1
          <5>2. CASE ~(n = PageCnt /\ r # 0)
            <6>1. e.len = Page  BY <2>b, <3>2, <5>2
            <6>2. n \in f .. f + q  BY <1>5, <1>7, <1>9, <2>0, <4>1, <5>2
            <6>3. PageEnd(n) = E(n)  BY <1>14, <6>2
            <6>4. (n - f) * Page = (n - 1 - f) * Page + Page
              <7>1. n - 1 - f \in Nat /\ (n - 1 - f) + 1 = n - f  BY <1>9, <4>1, <2>0
              <7> QED  BY <1>1, <7>1, Products
            <6> QED  BY <1>1, <1>3, <4>2, <5>0, <6>1, <6>3, <6>4
          <5> QED  BY <5>1, <5>2
        <4>6. ((n - 1) + 1) * Page = (n - 1) * Page + Page  BY <1>1, <2>0, Products
        <4>7. e.len <= Page  BY <2>c, <1>1
        <4>8. n - 1 \in Nat  BY <2>0
        <4>9. (n - 1) * Page <= req.start + PageEnd(n - 1) /\ req.start + PageEnd(n) <= ((n - 1) + 1) * Page
          BY <1>1, <2>c, <4>4, <4>5, <4>6, <4>7
        <4> QED  BY <4>5, <4>8, <4>9
      <3> QED  BY <3>1, <3>2
    <2>2. \E c \in Nat : /\ c * Logicb <= req.start + PageEnd(n - 1)
                         /\ req.start + PageEnd(n) <= (c + 1) * Logicb
      BY <1>1, <2>1, Zenon
    <2> QED  BY <2>b, <2>c, <2>d, <2>e, <2>1, <2>2 DEF e
  <1> QED  BY <1>11, <1>12, <1>13, <1>17, Zenon

\* The table is set up.
LEMMA StartInv ==
  ASSUME IInv, Start
  PROVE  IInv'
  <1>1. /\ Types /\ req \in Requests /\ sg = <<>> /\ live = {}
        /\ seg = 1 /\ offset = 0 /\ copies = <<>> /\ sge = [entry |-> 1, done |-> 0]
    BY DEF IInv, Types, SetUp, Fresh, Start
  <1>2. /\ req' = req /\ sg' = <<>> /\ live' = {} /\ hasHole' = hasHole
        /\ seg' = 1 /\ offset' = 0 /\ copies' = <<>> /\ sge' = [entry |-> 1, done |-> 0]
        /\ sgCount' = TableSize /\ firstSize' = FirstSize
        /\ needBounce' = (req.kind = "bio" /\ Crooked)
        /\ remained' = IF FirstSize # 0 THEN FirstSize ELSE Logicb
        /\ pc' = IF needBounce' THEN "bounce" ELSE "segment"
    BY <1>1 DEF Start, copy
  <1>3. needBounce' \in BOOLEAN  BY <1>2
  <1>4. /\ Segs' = Segs /\ Size' = Size /\ FirstSize' = FirstSize /\ TableSize' = TableSize
        /\ Crooked' <=> Crooked
    BY <1>2, SameRequest
  <1>5. Logicb \in Nat /\ FirstSize \in Nat  BY <1>1, RequestIs, FirstSizeIs
  <1>6. Types'
    <2>1. sg' \in Seq(Entries) /\ copies' \in Seq(Chunks)  BY <1>2
    <2>2. sge' \in [entry : Nat, done : Nat]  BY <1>2
    <2>3. hasHole' \in BOOLEAN /\ req' \in Requests  BY <1>1, <1>2 DEF Types
    <2>4. seg' \in Nat /\ offset' \in Nat /\ remained' \in Nat /\ pc' \in Pts  BY <1>2, <1>5 DEF Pts
    <2> QED  BY <1>3, <2>1, <2>2, <2>3, <2>4, Zenon DEF Types
  <1>7. SetUp'
    <2>1. needBounce' => req'.kind = "bio"  BY <1>2, Zenon
    <2>2. ~needBounce' /\ Straight' => ~Crooked'  BY <1>2, <1>4, Zenon DEF Straight
    <2>3. pc' \in {"bounce", "segment"} /\ (pc' = "bounce" <=> needBounce')  BY <1>2, <1>3
    <2> QED  BY <1>2, <1>4, <2>1, <2>2, <2>3 DEF SetUp
  <1>8. Len(sg') = 0 /\ Len(copies') = 0 /\ 1 .. 0 = {}  BY <1>2
  <1>9. CASE needBounce'
    <2>1. pc' = "bounce"  BY <1>2, <1>9
    <2>2. ~Own'  BY <2>1 DEF Own
    <2>3. BounceInv'
      <3>1. PageCnt' \in Nat
        <4> DEFINE D == Size - FirstSize
        <4>1. D \in Nat /\ Page \in Nat \ {0}  BY <1>1, RequestIs, FirstSizeIs, SegsAddUp
        <4>2. D \div Page \in Nat /\ D % Page \in Nat  BY <4>1, DivIs, Zenon
        <4>3. PageCnt' = (IF FirstSize # 0 THEN 1 ELSE 0) + D \div Page
                           + (IF D % Page # 0 THEN 1 ELSE 0)
          BY <1>2, <1>4, Zenon DEF PageCnt, LastLen
        <4> HIDE DEF D
        <4> QED  BY <4>2, <4>3
      <3>2. Upto(sg', Len(sg')) = 0  BY <1>2, <1>8, UptoEmpty
      <3>3. PageEnd(0)' = 0  BY DEF PageEnd
      <3> QED  BY <1>2, <1>4, <1>8, <2>1, <3>1, <3>2, <3>3 DEF BounceInv, Fresh
    <2>4. CopyInv'  BY <1>8, <2>1 DEF CopyInv
    <2> QED  BY <1>6, <1>7, <1>8, <2>2, <2>3, <2>4 DEF IInv
  <1>10. CASE ~needBounce'
    <2>1. pc' = "segment"  BY <1>2, <1>10
    <2>2. ~Bouncing'  BY <2>1 DEF Bouncing
    <2>3. OwnInv'  BY <1>1, <1>2, <2>1, OwnBegins
    <2> QED  BY <1>6, <1>7, <1>8, <2>2, <2>3 DEF IInv
  <1> QED  BY <1>3, <1>9, <1>10

\* The next segment: its holes.
LEMMA SegmentInv ==
  ASSUME IInv, Segment
  PROVE  IInv'
  <1>1. Types /\ SetUp /\ OwnInv /\ pc = "segment" /\ (\A n \in 1 .. Len(sg) : Whole(n))
    BY DEF IInv, Own, Segment
  <1>2. /\ req' = req /\ sg' = sg /\ sgCount' = sgCount /\ firstSize' = firstSize
        /\ needBounce' = needBounce /\ seg' = seg /\ remained' = remained /\ live' = live
        /\ sge' = sge /\ copies' = copies /\ offset' = 0 /\ pc' = "split"
    BY DEF Segment, table, copy
  <1>3. hasHole' \in BOOLEAN /\ (hasHole => hasHole')  BY <1>1 DEF Segment, Types
  <1>4. Straight' => Straight  BY <1>2, <1>3 DEF Straight
  <1>5. /\ Segs' = Segs /\ Size' = Size /\ FirstSize' = FirstSize /\ TableSize' = TableSize
        /\ Crooked' <=> Crooked
    BY <1>2, SameRequest
  <1>6. Types'  BY <1>1, <1>2, <1>3 DEF Types, Pts
  <1>7. SetUp'
    <2>1. sgCount = TableSize /\ firstSize = FirstSize /\ ~needBounce /\ (Straight => ~Crooked)
      BY <1>1 DEF SetUp
    <2> QED  BY <1>2, <1>4, <1>5, <2>1 DEF SetUp
  <1>8. \A n \in 1 .. Len(sg') : Whole(n)'  BY <1>2, <1>3, SameEntries
  <1>9. ~Bouncing' /\ Within = 0 /\ Within' = 0  BY <1>1, <1>2 DEF Bouncing, Within
  <1>10. Mapped' = Mapped  BY <1>2, <1>5, <1>9 DEF Mapped, Upto
  <1>11. OwnInv'
    <2>1. PICK b \in Nat : InBlock(b)  BY <1>1 DEF OwnInv
    <2>2. InBlock(b)'  BY <1>1, <1>2, <1>5, <1>10, <2>1 DEF InBlock
    <2>3. \E c \in Nat : InBlock(c)'  BY <2>2
    <2>4. LastEnds'
      <3>1. LastEnds  BY <1>1 DEF OwnInv
      <3> QED  BY <1>2, <1>5, <1>9, <3>1 DEF LastEnds
    <2>5. seg' \in 1 .. Len(Segs') + 1 /\ (pc' = "done" <=> seg' = Len(Segs') + 1)
      BY <1>1, <1>2, <1>5 DEF OwnInv
    <2>6. Upto(sg', Len(sg')) = Mapped'  BY <1>1, <1>2, <1>10 DEF OwnInv, Upto
    <2>7. offset' < Segs'[seg'].len
      <3>1. Len(Segs) \in Nat /\ \A k \in 1 .. Len(Segs) : Segs[k].len \in Nat /\ Segs[k].len > 0
        BY <1>1, RequestIs DEF Types
      <3>2. seg \in 1 .. Len(Segs)  BY <1>1, <3>1, SMTT(30) DEF OwnInv
      <3> QED  BY <1>2, <1>5, <3>1, <3>2
    <2>8. \A n \in 1 .. Len(sg') : sg'[n].seg # 0 /\ Follows(n)'
      BY <1>1, <1>2, <1>5 DEF OwnInv, Follows
    <2>9. /\ live' = {} /\ copies' = <<>> /\ sge' = [entry |-> 1, done |-> 0]
          /\ Len(sg') <= 2 * (seg' - 1) + IF Within' > 0 THEN 1 ELSE 0
      BY <1>1, <1>2, <1>9 DEF OwnInv
    <2>10. Straight' => Within' % Align = 0 /\ (pc' # "done" => remained' % Align = 0)
      BY <1>1, <1>2, <1>4, <1>9 DEF OwnInv
    <2>11. ~(Within' > 0)  BY <1>9
    <2> QED
      BY <2>3, <2>4, <2>5, <2>6, <2>7, <2>8, <2>9, <2>10, <2>11, Zenon DEF OwnInv
  <1> QED  BY <1>6, <1>7, <1>8, <1>9, <1>11, Zenon DEF IInv

\* What one round maps: the rest of the segment or of the block.
LEMMA MapSizeIs ==
  ASSUME req \in Requests, seg \in 1 .. Len(Segs), offset \in Nat, offset < Segs[seg].len,
         remained \in Nat, remained > 0
  PROVE  /\ InPage = Segs[seg].off + offset /\ (Segs[seg].off + offset) \div Page = 0
         /\ MapSize = IF Segs[seg].len - offset < remained THEN Segs[seg].len - offset
                                                           ELSE remained
         /\ MapSize \in Nat /\ MapSize > 0 /\ MapSize <= remained
         /\ offset + MapSize <= Segs[seg].len
  <1>1. Page \in Nat \ {0}  BY RequestIs
  <1>2. /\ Segs[seg].off \in Nat /\ Segs[seg].len \in Nat
        /\ Segs[seg].off + Segs[seg].len <= Page
    BY RequestIs
  <1> DEFINE x == Segs[seg].off + offset
  <1>3. x \in Nat /\ x < Page  BY <1>1, <1>2
  <1>4. x % Page = x  BY <1>1, <1>3
  <1>5. x \div Page = 0
    <2>1. 0 \in Nat /\ 0 * Page = 0 /\ (0 + 1) * Page = Page  BY <1>1
    <2>2. 0 * Page <= x /\ x < (0 + 1) * Page  BY <1>1, <1>3, <2>1
    <2> QED  BY <1>1, <1>3, <2>1, <2>2, DivBetween
  <1>6. InPage = x  BY <1>4 DEF InPage
  <1>7. RestOf = Segs[seg].len - offset  BY DEF RestOf
  <1>8. /\ Page - x >= Segs[seg].len - offset /\ Page - x \in Nat
        /\ Segs[seg].len - offset \in Nat /\ Segs[seg].len - offset > 0
    BY <1>1, <1>2, SMTT(30)
  <1> HIDE DEF x
  <1> DEFINE a == Page - InPage
  <1>9. a \in Nat /\ a >= RestOf /\ RestOf \in Nat /\ RestOf > 0
    BY <1>6, <1>7, <1>8, Zenon
  <1>10. MapSize = IF req.kind = "lreq" THEN Lesser(RestOf, remained)
                                       ELSE Lesser(Lesser(a, RestOf), remained)
    BY DEF MapSize
  <1> HIDE DEF a
  <1>11. MapSize = IF RestOf < remained THEN RestOf ELSE remained  BY <1>9, <1>10 DEF Lesser
  <1>12. MapSize \in Nat /\ MapSize > 0 /\ MapSize <= remained /\ MapSize <= RestOf
    BY <1>9, <1>11
  <1>13. offset + MapSize <= Segs[seg].len  BY <1>2, <1>7, <1>12
  <1> QED  BY <1>5, <1>6, <1>7, <1>11, <1>12, <1>13, Zenon DEF x

\* One round on own pages.
LEMMA SplitInv ==
  ASSUME IInv, Split
  PROVE  IInv'
  <1> DEFINE N == Len(Segs)
             m == MapSize
             o == offset
             so == Segs[seg].off
             sl == Segs[seg].len
             e == [seg |-> seg, pg |-> 0, off |-> so + o, len |-> m]
             ends == o + m = sl
  <1>1. /\ Types /\ SetUp /\ OwnInv /\ pc = "split" /\ (\A n \in 1 .. Len(sg) : Whole(n))
        /\ req \in Requests /\ ~needBounce
    BY DEF IInv, Own, Split, SetUp, Types
  <1>2. /\ Logicb \in Nat \ {0} /\ Align \in Nat \ {0} /\ Logicb % Align = 0 /\ Logicb = Page
        /\ req.start \in Nat /\ N \in Nat
        /\ \A k \in 1 .. N : /\ Segs[k].off \in Nat /\ Segs[k].len \in Nat /\ Segs[k].len > 0
                             /\ Segs[k].off + Segs[k].len <= Page
    BY <1>1, RequestIs
  <1>3. /\ seg \in 1 .. N /\ seg \in Nat /\ o \in Nat /\ o < sl /\ remained \in Nat
        /\ remained > 0 /\ remained <= Logicb
    <2>1. \E b \in Nat : InBlock(b)  BY <1>1 DEF OwnInv
    <2>2. remained > 0 /\ remained <= Logicb  BY <1>1, <2>1 DEF InBlock
    <2> QED  BY <1>1, <1>2, <2>2 DEF OwnInv, Types
  <1>4. /\ InPage = so + o /\ (so + o) \div Page = 0
        /\ m = IF sl - o < remained THEN sl - o ELSE remained
        /\ m \in Nat /\ m > 0 /\ m <= remained /\ o + m <= sl
    BY <1>1, <1>3, MapSizeIs
  <1>5. so \in Nat /\ sl \in Nat /\ sl > 0 /\ so + sl <= Page  BY <1>2, <1>3
  <1>6. /\ req' = req /\ sgCount' = sgCount /\ firstSize' = firstSize /\ needBounce' = needBounce
        /\ hasHole' = hasHole /\ live' = live /\ sge' = sge /\ copies' = copies
        /\ sg' = Append(sg, e) /\ remained' = IF remained = m THEN Logicb ELSE remained - m
    BY <1>4 DEF Split, flags, copy, NextRemained
  <1>7. /\ ~ends => offset' = o + m /\ pc' = "split" /\ seg' = seg
        /\ ends => /\ seg' = seg + 1 /\ pc' = IF seg = N THEN "done" ELSE "segment"
                   /\ offset' = offset
    <2>1. ends <=> ~(offset + MapSize < Segs[seg].len)
      <3> HIDE DEF m, sl
      <3>1. ends <=> ~(o + m < sl)  BY <1>3, <1>4, <1>5
      <3> QED  BY <3>1 DEF m, sl
    <2> QED  BY <1>1, <2>1 DEF Split
  <1>8. e \in Entries /\ e.seg = seg /\ e.off = so + o /\ e.len = m
    <2>1. e.seg = seg /\ e.off = so + o /\ e.len = m  OBVIOUS
    <2>2. seg \in Nat /\ so + o \in Nat /\ m \in Nat /\ 0 \in Nat
      <3> HIDE DEF m, so
      <3> QED  BY <1>3, <1>4, <1>5
    <2> HIDE DEF m, so, o
    <2> QED  BY <2>1, <2>2 DEF Entries
  <1>9. /\ sg' \in Seq(Entries) /\ Len(sg) \in Nat /\ Len(sg') = Len(sg) + 1
        /\ sg'[Len(sg) + 1] = e /\ \A n \in 1 .. Len(sg) : sg'[n] = sg[n]
        /\ \A n \in 0 .. Len(sg) : Upto(sg', n) = Upto(sg, n) /\ Upto(sg, n) \in Nat
        /\ Upto(sg', Len(sg) + 1) = Upto(sg, Len(sg)) + m
    <2>1. \A x \in Entries : x.len \in Nat  BY DEF Entries
    <2>2. sg \in Seq(Entries)  BY <1>1 DEF Types
    <2> HIDE DEF e
    <2> DEFINE w == Append(sg, e)
    <2>3. e \in Entries /\ e.len = m /\ sg' = w  BY <1>6, <1>8, Zenon
    <2>4. /\ w \in Seq(Entries) /\ Len(sg) \in Nat /\ Len(w) = Len(sg) + 1
          /\ w[Len(sg) + 1] = e /\ \A n \in 1 .. Len(sg) : w[n] = sg[n]
          /\ \A n \in 0 .. Len(sg) : Upto(w, n) = Upto(sg, n) /\ Upto(sg, n) \in Nat
          /\ Upto(w, Len(sg) + 1) = Upto(sg, Len(sg)) + e.len
      BY <2>1, <2>2, <2>3, Grown, Zenon
    <2> HIDE DEF w
    <2> QED  BY <2>3, <2>4, Zenon
  <1> HIDE DEF m, e, so, sl
  <1>a. PICK L \in Nat : L = Len(sg)  BY <1>9
  <1>b. /\ Logicb \in Nat /\ Logicb > 0 /\ req.start \in Nat /\ N \in Nat
        /\ so \in Nat /\ sl \in Nat /\ m \in Nat /\ m > 0 /\ m <= remained /\ o \in Nat
        /\ remained \in Nat /\ seg \in Nat /\ o < sl /\ o + m <= sl /\ seg <= N
        /\ (~ends => m = remained) /\ (ends => m = sl - o)
    <2>1. ends => m = sl - o  BY <1>3, <1>4, <1>5
    <2>2. ~ends => m = remained  BY <1>3, <1>4, <1>5
    <2> QED  BY <1>2, <1>3, <1>4, <1>5, <2>1, <2>2
  <1>10. /\ Segs' = Segs /\ Size' = Size /\ FirstSize' = FirstSize /\ TableSize' = TableSize
         /\ Crooked' <=> Crooked
    BY <1>6, SameRequest
  <1>11. Straight' <=> Straight  BY <1>6, Zenon DEF Straight
  <1>12. pc' \in {"split", "segment", "done"} /\ seg' \in Nat /\ offset' \in Nat /\ remained' \in Nat
    BY <1>b, <1>6, <1>7
  <1>13. Types'
    <2>1. /\ req' \in Requests /\ copies' \in Seq(Chunks) /\ sge' \in [entry : Nat, done : Nat]
          /\ needBounce' \in BOOLEAN /\ hasHole' \in BOOLEAN
      BY <1>1, <1>6, Zenon DEF Types
    <2>2. pc' \in Pts  BY <1>12 DEF Pts
    <2> QED  BY <1>9, <1>12, <2>1, <2>2, Zenon DEF Types
  <1>14. SetUp'
    <2>1. sgCount = TableSize /\ firstSize = FirstSize /\ (Straight => ~Crooked)
      BY <1>1 DEF SetUp
    <2>2. pc' # "start" /\ pc' \notin {"bounce", "copy", "bounced", "rejected"}  BY <1>12
    <2> QED  BY <1>1, <1>6, <1>10, <1>11, <2>1, <2>2, Zenon DEF SetUp
  <1>15. Own' /\ ~Bouncing'  BY <1>1, <1>6, <1>12 DEF Own, Bouncing
  <1>16. Within = o /\ Within' = IF ends THEN 0 ELSE o + m
    BY <1>1, <1>7 DEF Within
  <1>17. /\ Mapped \in Nat /\ Mapped = Upto(Segs, seg - 1) + o /\ Mapped' = Mapped + m
         /\ Upto(sg, Len(sg)) = Mapped /\ Mapped + m <= Size
         /\ (Mapped + m = Size => ends /\ seg = N) /\ Size \in Nat
    <2>1. /\ \A n \in 0 .. N : Upto(Segs, n) \in Nat
          /\ \A n \in 1 .. N : Upto(Segs, n) = Upto(Segs, n - 1) + Segs[n].len
          /\ \A i, n \in 0 .. N : i < n => Upto(Segs, i) < Upto(Segs, n)
          /\ Size \in Nat /\ Upto(Segs, N) = Size
      BY <1>1, SegsAddUp
    <2>2. /\ seg - 1 \in 0 .. N /\ seg \in 0 .. N /\ N \in 0 .. N /\ (seg + 1) - 1 = seg
      BY <1>2, <1>3
    <2> DEFINE a == Upto(Segs, seg - 1)
               c == Upto(Segs, seg)
    <2>3. a \in Nat /\ c \in Nat /\ c = a + sl  BY <1>3, <2>1, <2>2 DEF sl
    <2>4. Mapped = a + o  BY <1>16 DEF Mapped
    <2>5. Mapped' = Upto(Segs, seg' - 1) + Within'  BY <1>10 DEF Mapped, Upto
    <2>6. ends => Mapped' = c + 0  BY <1>7, <1>16, <2>2, <2>5
    <2>7. ~ends => Mapped' = a + (o + m)  BY <1>7, <1>16, <2>5
    <2>8. c <= Size /\ (c = Size => seg = N)  BY <1>2, <1>3, <2>1, <2>2
    <2> HIDE DEF a, c
    <2>9. Mapped \in Nat /\ Mapped' = Mapped + m  BY <1>b, <2>3, <2>4, <2>6, <2>7
    <2>10. Mapped + m <= Size /\ (Mapped + m = Size => ends /\ seg = N)
      <3>1. Size \in Nat  BY <2>1
      <3> QED  BY <1>b, <2>3, <2>4, <2>8, <3>1
    <2>11. Upto(sg, Len(sg)) = Mapped  BY <1>1 DEF OwnInv
    <2> QED  BY <2>1, <2>4, <2>9, <2>10, <2>11 DEF a

  <1>18. PICK b \in Nat : InBlock(b)  BY <1>1 DEF OwnInv
  <1> DEFINE B == b * Logicb
             p == req.start + Mapped
  <1>19. B \in Nat /\ (b + 1) * Logicb = B + Logicb /\ ((b + 1) + 1) * Logicb = B + Logicb + Logicb
    <2>1. B \in Nat /\ (b + 1) * Logicb = B + Logicb  BY <1>2, Products
    <2>2. b + 1 \in Nat  OBVIOUS
    <2>3. ((b + 1) + 1) * Logicb = (b + 1) * Logicb + Logicb  BY <1>2, <2>2, Products
    <2> QED  BY <2>1, <2>3
  <1>20. /\ B <= p /\ Len(sg) <= seg - 1 + b
         /\ \/ p + remained = B + Logicb
            \/ Mapped + remained = Size /\ req.start + Size <= B + Logicb
    BY <1>1, <1>18, <1>19 DEF InBlock
  <1> HIDE DEF B
  <1>21. p \in Nat /\ p + m <= B + Logicb
    <2>1. /\ req.start \in Nat /\ Mapped \in Nat /\ m \in Nat /\ m <= remained /\ Mapped + m <= Size
          /\ remained \in Nat /\ B \in Nat /\ Logicb \in Nat /\ Size \in Nat
      BY <1>b, <1>17, <1>19, Zenon
    <2>2. CASE p + remained = B + Logicb  BY <2>1, <2>2
    <2>3. CASE req.start + Size <= B + Logicb  BY <2>1, <2>3
    <2> QED  BY <1>20, <2>2, <2>3, Zenon
  <1>22. Straight => /\ so % Align = 0 /\ sl % Align = 0 /\ o % Align = 0
                     /\ remained % Align = 0 /\ m % Align = 0 /\ (so + o) % Align = 0
                     /\ (o + m) % Align = 0 /\ remained' % Align = 0
    <2> SUFFICES ASSUME Straight
                 PROVE  /\ so % Align = 0 /\ sl % Align = 0 /\ o % Align = 0
                        /\ remained % Align = 0 /\ m % Align = 0 /\ (so + o) % Align = 0
                        /\ (o + m) % Align = 0 /\ remained' % Align = 0
      OBVIOUS
    <2>1. so % Align = 0 /\ sl % Align = 0
      <3>1. ~Crooked  BY <1>1 DEF SetUp
      <3> QED  BY <1>3, <3>1, Zenon DEF Crooked, so, sl
    <2>2. o % Align = 0 /\ remained % Align = 0  BY <1>1, <1>16 DEF OwnInv
    <2>3. o <= sl /\ sl - o \in Nat /\ m <= remained  BY <1>3, <1>4, <1>5
    <2>4. (sl - o) % Align = 0  BY <1>2, <1>3, <1>5, <2>1, <2>2, <2>3, SumOfMultiples, Zenon
    <2>5. m % Align = 0  BY <1>4, <2>2, <2>4
    <2>6. (so + o) % Align = 0  BY <1>2, <1>3, <1>5, <2>1, <2>2, SumOfMultiples, Zenon
    <2>7. (o + m) % Align = 0  BY <1>2, <1>3, <1>4, <2>2, <2>5, SumOfMultiples, Zenon
    <2>8. (remained - m) % Align = 0
      <3>1. Align \in Nat \ {0} /\ remained \in Nat /\ m \in Nat /\ m <= remained  BY <1>2, <1>b
      <3> QED  BY <2>2, <2>5, <3>1, SumOfMultiples, Zenon
    <2>9. remained' % Align = 0  BY <1>2, <1>6, <2>8, Zenon
    <2> QED  BY <2>1, <2>2, <2>5, <2>6, <2>7, <2>9
  <1>23. \A n \in 1 .. Len(sg') : Whole(n)'
    <2>1. ASSUME NEW n \in 1 .. Len(sg)  PROVE Whole(n)'
      <3>1. Whole(n) /\ sg'[n] = sg[n] /\ n - 1 \in 0 .. Len(sg)  BY <1>1, <1>9
      <3>2. Upto(sg', n - 1) = Upto(sg, n - 1)  BY <1>9, <3>1
      <3>3. Upto(sg, n - 1)' = Upto(sg', n - 1)  BY DEF Upto
      <3> QED  BY <1>6, <1>11, <3>1, <3>2, <3>3, Zenon DEF Whole
    <2>2. Whole(L + 1)'
      <3>1. (L + 1) - 1 = L /\ L \in 0 .. Len(sg)  BY <1>a
      <3>2. Upto(sg', (L + 1) - 1) = Mapped  BY <1>9, <1>17, <1>a, <3>1
      <3>3. Upto(sg, (L + 1) - 1)' = Upto(sg', (L + 1) - 1)  BY DEF Upto
      <3>4. sg'[L + 1] = e  BY <1>9, <1>a
      <3>5. so + o + m <= Page
        <4>1. so + sl <= Page /\ Page \in Nat  BY <1>2, <1>5
        <4> QED  BY <1>b, <4>1
      <3>6. b * Logicb <= req.start + Mapped /\ req.start + Mapped + m <= (b + 1) * Logicb
        BY <1>19, <1>20, <1>21 DEF B
      <3>7. Straight' => e.off % Align = 0 /\ e.len % Align = 0  BY <1>8, <1>11, <1>22, Zenon
      <3>8. e.len > 0 /\ e.off + e.len <= Page  BY <1>8, <1>b, <3>5
      <3>9. b * Logicb <= req.start + Mapped /\ req.start + Mapped + e.len <= (b + 1) * Logicb
        BY <1>8, <3>6, Zenon
      <3> QED  BY <1>6, <3>2, <3>3, <3>4, <3>7, <3>8, <3>9, Zenon DEF Whole
    <2>3. \A n \in 1 .. Len(sg') : n \in 1 .. Len(sg) \/ n = L + 1  BY <1>9, <1>a
    <2> QED  BY <2>1, <2>2, <2>3, Zenon
  <1>24. \E c \in Nat : InBlock(c)'
    <2> DEFINE P == req.start + Mapped'
    <2>1. /\ P = p + m /\ P \in Nat /\ Mapped' = Mapped + m /\ Mapped + m \in Nat
          /\ B <= P /\ Len(sg') <= seg + b /\ Len(sg') \in Nat
      <3>1. Mapped' = Mapped + m /\ Mapped \in Nat /\ m \in Nat /\ req.start \in Nat  BY <1>17, <1>b
      <3>2. P = p + m /\ P \in Nat /\ Mapped + m \in Nat  BY <3>1
      <3>3. B <= P  BY <1>19, <1>20, <1>21, <3>1, <3>2
      <3>4. Len(sg') <= seg + b /\ Len(sg') \in Nat  BY <1>9, <1>20, <1>b
      <3> QED  BY <3>1, <3>2, <3>3, <3>4, Zenon
    <2> HIDE DEF P, p
    <2>2. InBlock(b)' <=> /\ B <= P /\ Len(sg') <= seg' - 1 + b
                          /\ pc' # "done" =>
                               /\ remained' > 0 /\ remained' <= Logicb
                               /\ \/ P + remained' = B + Logicb
                                  \/ Mapped' + remained' = Size /\ req.start + Size <= B + Logicb
      BY <1>6, <1>10, <1>19, Zenon DEF InBlock, P, B
    <2>3. InBlock(b + 1)' <=> /\ B + Logicb <= P /\ Len(sg') <= seg' - 1 + (b + 1)
                              /\ pc' # "done" =>
                                   /\ remained' > 0 /\ remained' <= Logicb
                                   /\ \/ P + remained' = B + Logicb + Logicb
                                      \/ /\ Mapped' + remained' = Size
                                         /\ req.start + Size <= B + Logicb + Logicb
      BY <1>6, <1>10, <1>19, Zenon DEF InBlock, P
    <2>4. CASE m = remained /\ p + remained = B + Logicb
      <3>1. remained' = Logicb /\ seg' \in {seg, seg + 1}  BY <1>6, <1>7, <2>4, Zenon
      <3>2. P = B + Logicb  BY <2>1, <2>4, Zenon
      <3>3. B + Logicb <= P /\ P + remained' = B + Logicb + Logicb  BY <1>b, <1>19, <3>1, <3>2
      <3>4. Len(sg') <= seg' - 1 + (b + 1)  BY <1>b, <2>1, <3>1
      <3>5. remained' > 0 /\ remained' <= Logicb  BY <1>b, <3>1
      <3>6. InBlock(b + 1)'  BY <2>3, <3>3, <3>4, <3>5, Zenon
      <3>7. b + 1 \in Nat  OBVIOUS
      <3> QED  BY <3>6, <3>7, Zenon
    <2>5. CASE m = remained /\ Mapped + remained = Size
      <3>1. ends /\ seg = N  BY <1>17, <2>5, Zenon
      <3>2. seg' = seg + 1 /\ pc' = "done"  BY <1>7, <3>1, Zenon
      <3>3. Len(sg') <= seg' - 1 + b  BY <1>b, <2>1, <3>2
      <3>4. InBlock(b)'  BY <2>1, <2>2, <3>2, <3>3, Zenon
      <3> QED  BY <3>4, Zenon
    <2>6. CASE m # remained
      <3>1. ends  BY <1>b, <2>6, Zenon
      <3>2. seg' = seg + 1 /\ remained' = remained - m  BY <1>6, <1>7, <2>6, <3>1, Zenon
      <3>3. Len(sg') <= seg' - 1 + b  BY <1>b, <2>1, <3>2
      <3>4. remained' > 0 /\ remained' <= Logicb
        <4>1. remained <= Logicb  BY <1>3
        <4> QED  BY <1>b, <2>6, <3>2, <4>1
      <3>5. P + remained' = p + remained  BY <1>b, <1>21, <2>1, <3>2
      <3>6. Mapped' + remained' = Mapped + remained
        <4>1. Mapped \in Nat  BY <1>17
        <4> QED  BY <1>b, <2>1, <3>2, <4>1
      <3>7. InBlock(b)'  BY <1>20, <2>1, <2>2, <3>3, <3>4, <3>5, <3>6, Zenon
      <3> QED  BY <3>7, Zenon
    <2> QED  BY <1>20, <2>4, <2>5, <2>6, Zenon
  <1>25. LastEnds'
    <2>1. Len(sg') = L + 1 /\ Len(sg') # 0 /\ sg'[Len(sg')] = e  BY <1>9, <1>a
    <2>2. e.seg = seg /\ e.off + e.len = so + o + m  BY <1>8, <1>b
    <2>3. CASE ends
      <3>1. ~(Within' > 0) /\ seg' - 1 = seg  BY <1>b, <1>7, <1>16, <2>3
      <3>2. so + o + m = so + sl  BY <1>b, <2>3
      <3>3. so + o + m = Segs[seg].off + Segs[seg].len  BY <3>2 DEF so, sl
      <3> QED  BY <1>3, <1>10, <2>1, <2>2, <3>1, <3>3 DEF LastEnds
    <2>4. CASE ~ends
      <3>1. Within' > 0 /\ seg' = seg /\ offset' = o + m  BY <1>b, <1>7, <1>16, <2>4
      <3>2. so + o + m = so + offset'  BY <1>b, <3>1
      <3>3. so + o + m = Segs[seg].off + offset'  BY <3>2 DEF so
      <3> QED  BY <1>3, <1>10, <2>1, <2>2, <3>1, <3>3 DEF LastEnds
    <2> QED  BY <2>3, <2>4
  <1>26. \A n \in 1 .. Len(sg') : sg'[n].seg # 0 /\ Follows(n)'
    <2>1. ASSUME NEW n \in 1 .. Len(sg)  PROVE sg'[n].seg # 0 /\ Follows(n)'
      <3>1. sg[n].seg # 0 /\ Follows(n) /\ sg'[n] = sg[n]  BY <1>1, <1>9 DEF OwnInv
      <3>2. n # 1 => sg'[n - 1] = sg[n - 1]
        <4>1. n # 1 => n - 1 \in 1 .. Len(sg)  BY <1>9
        <4> QED  BY <1>9, <4>1
      <3> QED  BY <1>10, <3>1, <3>2, Zenon DEF Follows
    <2>2. sg'[L + 1] = e /\ e.seg = seg /\ e.off = so + o /\ seg # 0  BY <1>3, <1>8, <1>9, <1>a
    <2>3. Follows(L + 1)'
      <3>1. LastEnds  BY <1>1 DEF OwnInv
      <3>2. CASE L = 0
        <4>1. seg = 1 /\ o = 0  BY <1>16, <1>a, <3>1, <3>2 DEF LastEnds
        <4>2. e.off = Segs[1].off  BY <1>b, <2>2, <4>1 DEF so
        <4>3. L + 1 = 1  BY <3>2
        <4> QED  BY <1>10, <2>2, <4>1, <4>2, <4>3 DEF Follows
      <3>3. CASE L # 0
        <4> DEFINE q == sg[L]
                   k == IF o > 0 THEN seg ELSE seg - 1
        <4>1. /\ k \in 1 .. N /\ q.seg = k
              /\ q.off + q.len = Segs[k].off + IF o > 0 THEN offset ELSE Segs[k].len
          BY <1>16, <1>a, <3>1, <3>3 DEF LastEnds
        <4>2. L + 1 # 1 /\ (L + 1) - 1 = L /\ L \in 1 .. Len(sg)  BY <1>a, <3>3
        <4>3. sg'[(L + 1) - 1] = q  BY <1>9, <4>2
        <4>4. CASE o > 0
          <5>1. e.seg = q.seg /\ e.off = q.off + q.len  BY <2>2, <4>1, <4>4 DEF so
          <5> QED  BY <2>2, <4>2, <4>3, <5>1 DEF Follows
        <4>5. CASE ~(o > 0)
          <5>1. q.seg = seg - 1 /\ q.off + q.len = Segs[q.seg].off + Segs[q.seg].len
            BY <4>1, <4>5
          <5>2. o = 0 /\ e.seg = q.seg + 1  BY <1>b, <2>2, <4>5, <5>1
          <5>3. e.off = so  BY <1>b, <2>2, <5>2
          <5>4. e.off = Segs[e.seg].off  BY <2>2, <5>3 DEF so
          <5> QED  BY <1>10, <2>2, <4>2, <4>3, <5>1, <5>2, <5>4, Zenon DEF Follows
        <4> QED  BY <4>4, <4>5
      <3> QED  BY <3>2, <3>3
    <2>4. \A n \in 1 .. Len(sg') : n \in 1 .. Len(sg) \/ n = L + 1  BY <1>9, <1>a
    <2> QED  BY <2>1, <2>2, <2>3, <2>4, Zenon
  <1>27. OwnInv'
    <2>1. seg' \in 1 .. Len(Segs') + 1 /\ (pc' = "done" <=> seg' = Len(Segs') + 1)
      BY <1>3, <1>b, <1>7, <1>10
    <2>2. live' = {} /\ copies' = <<>> /\ sge' = [entry |-> 1, done |-> 0]  BY <1>1, <1>6 DEF OwnInv
    <2>3. Upto(sg, Len(sg))' = Mapped'
      <3>1. Upto(sg', Len(sg')) = Mapped'  BY <1>9, <1>17
      <3> QED  BY <3>1 DEF Upto
    <2>4. pc' = "split" => offset' < Segs'[seg'].len
      <3>1. pc' = "split" => ~ends  BY <1>7
      <3>2. ~ends => o + m < sl  BY <1>b
      <3> QED  BY <1>7, <1>10, <3>1, <3>2 DEF sl
    <2>5. Within' > 0 => ~ends /\ remained' = Logicb
      <3>1. ends => ~(Within' > 0)  BY <1>16
      <3>2. ~ends => remained' = Logicb  BY <1>b, <1>6
      <3> QED  BY <3>1, <3>2
    <2>6. Len(sg') <= 2 * (seg' - 1) + IF Within' > 0 THEN 1 ELSE 0
      <3>1. Len(sg) <= 2 * (seg - 1) + IF Within > 0 THEN 1 ELSE 0  BY <1>1 DEF OwnInv
      <3>2. CASE ends
        <4>1. Within' = 0 /\ seg' = seg + 1  BY <1>7, <1>16, <3>2
        <4> QED  BY <1>9, <1>b, <3>1, <4>1
      <3>3. CASE ~ends
        <4>1. Within' > 0 /\ seg' = seg  BY <1>7, <1>16, <1>b, <3>3
        <4>2. ~(Within > 0)
          <5>1. Within > 0 => remained = Logicb  BY <1>1 DEF OwnInv
          <5>2. sl <= Logicb  BY <1>2, <1>5
          <5> QED  BY <1>b, <1>16, <3>3, <5>1, <5>2
        <4> QED  BY <1>9, <1>b, <3>1, <4>1, <4>2
      <3> QED  BY <3>2, <3>3
    <2>7. Straight' => Within' % Align = 0 /\ (pc' # "done" => remained' % Align = 0)
      <3>1. 0 % Align = 0  BY <1>2
      <3> QED  BY <1>11, <1>16, <1>22, <3>1, Zenon
    <2> QED
      BY <1>24, <1>25, <1>26, <2>1, <2>2, <2>3, <2>4, <2>5, <2>6, <2>7, Zenon DEF OwnInv
  <1> QED  BY <1>13, <1>14, <1>15, <1>23, <1>27, Zenon DEF IInv

\* The pages the table names.
LEMMA BouncePages ==
  ASSUME req \in Requests, firstSize = FirstSize, BounceInv, sg \in Seq(Entries), pc # "done"
  PROVE  {sg[n].pg : n \in 1 .. Len(sg)} = live
  <1>1. \A n \in 1 .. PageCnt : BounceEntry(n).pg = n  BY PageCntIs, Zenon
  <1>2. PageCnt \in Nat /\ Len(sg) \in Nat /\ Len(sg) <= PageCnt  BY PageCntIs DEF BounceInv
  <1>3. \A n \in 1 .. Len(sg) : n \in 1 .. PageCnt /\ sg[n] = BounceEntry(n)  BY <1>2 DEF BounceInv
  <1>4. \A n \in 1 .. Len(sg) : sg[n].pg = n  BY <1>1, <1>3, Zenon
  <1>5. live = 1 .. Len(sg)  BY DEF BounceInv
  <1> QED  BY <1>4, <1>5

\* One more bounce page.
LEMMA AllocPageInv ==
  ASSUME IInv, AllocPage
  PROVE  IInv'
  <1>1. /\ Types /\ SetUp /\ BounceInv /\ CopyInv /\ pc = "bounce" /\ Len(sg) < PageCnt
        /\ (\A n \in 1 .. Len(sg) : Whole(n)) /\ req \in Requests /\ firstSize = FirstSize
    BY DEF IInv, Bouncing, AllocPage, SetUp, Types
  <1>2. PICK L \in Nat : L = Len(sg)
    <2>1. Len(sg) \in Nat  BY <1>1 DEF Types
    <2> QED  BY <2>1
  <1> DEFINE e == BounceEntry(L + 1)
  <1>3. /\ req' = req /\ pc' = pc /\ sgCount' = sgCount /\ firstSize' = firstSize
        /\ needBounce' = needBounce /\ hasHole' = hasHole /\ seg' = seg /\ offset' = offset
        /\ remained' = remained /\ sge' = sge /\ copies' = copies
        /\ sg' = Append(sg, e) /\ live' = live \cup {L + 1}
    BY <1>2 DEF AllocPage, flags, place, copy
  <1>4. /\ PageCnt \in Nat /\ L + 1 \in 1 .. PageCnt /\ (L + 1) - 1 = L
        /\ e \in Entries /\ e.len > 0 /\ e.off + e.len <= Page
        /\ e.off % Align = 0 /\ e.len % Align = 0
        /\ PageEnd(L) \in Nat /\ PageEnd(L + 1) = PageEnd(L) + e.len
        /\ \E c \in Nat : /\ c * Logicb <= req.start + PageEnd(L)
                          /\ req.start + PageEnd(L + 1) <= (c + 1) * Logicb
    <2>1. PageCnt \in Nat  BY <1>1, PageCntIs
    <2>2. L + 1 \in 1 .. PageCnt /\ (L + 1) - 1 = L  BY <1>1, <1>2, <2>1
    <2>3. /\ e \in Entries /\ e.len > 0 /\ e.off + e.len <= Page
          /\ e.off % Align = 0 /\ e.len % Align = 0
          /\ PageEnd((L + 1) - 1) \in Nat /\ PageEnd(L + 1) = PageEnd((L + 1) - 1) + e.len
          /\ \E c \in Nat : /\ c * Logicb <= req.start + PageEnd((L + 1) - 1)
                            /\ req.start + PageEnd(L + 1) <= (c + 1) * Logicb
      BY <1>1, <2>2, PageCntIs, Zenon
    <2> QED  BY <2>1, <2>2, <2>3, Zenon
  <1> HIDE DEF e
  <1>5. /\ sg' \in Seq(Entries) /\ Len(sg') = L + 1
        /\ sg'[L + 1] = e /\ \A n \in 1 .. L : sg'[n] = sg[n]
        /\ \A n \in 0 .. L : Upto(sg', n) = Upto(sg, n) /\ Upto(sg, n) \in Nat
        /\ Upto(sg', L + 1) = Upto(sg, L) + e.len
    <2>1. \A x \in Entries : x.len \in Nat  BY DEF Entries
    <2>2. sg \in Seq(Entries)  BY <1>1 DEF Types
    <2> QED  BY <1>2, <1>3, <1>4, <2>1, <2>2, Grown
  <1>6. /\ Segs' = Segs /\ Size' = Size /\ FirstSize' = FirstSize /\ TableSize' = TableSize
        /\ Crooked' <=> Crooked
        /\ PageCnt' = PageCnt /\ \A n : BounceEntry(n)' = BounceEntry(n) /\ PageEnd(n)' = PageEnd(n)
    BY <1>3, SameRequest, Zenon
  <1>7. Straight' <=> Straight  BY <1>3, Zenon DEF Straight
  <1>8. Types'  BY <1>1, <1>3, <1>5, Zenon DEF Types
  <1>9. SetUp'
    <2>1. pc' # "start"  BY <1>1, <1>3
    <2> QED  BY <1>1, <1>3, <1>6, <1>7, <2>1, Zenon DEF SetUp
  <1>10. Upto(sg, L) = PageEnd(L)  BY <1>1, <1>2 DEF BounceInv
  <1>11. \A n \in 1 .. L + 1 : n \in 1 .. L \/ n = L + 1  BY <1>2
  <1>12. \A n \in 1 .. Len(sg') : Whole(n)'
    <2>1. ASSUME NEW n \in 1 .. L  PROVE Whole(n)'
      <3>1. Whole(n) /\ sg'[n] = sg[n] /\ n - 1 \in 0 .. L  BY <1>1, <1>2, <1>5
      <3>2. Upto(sg', n - 1) = Upto(sg, n - 1)  BY <1>5, <3>1
      <3>3. Upto(sg, n - 1)' = Upto(sg', n - 1)  BY DEF Upto
      <3> QED  BY <1>3, <1>7, <3>1, <3>2, <3>3, Zenon DEF Whole
    <2>2. Whole(L + 1)'
      <3>1. L \in 0 .. L  OBVIOUS
      <3>2. Upto(sg', (L + 1) - 1) = PageEnd(L)  BY <1>4, <1>5, <1>10, <3>1
      <3>3. Upto(sg, (L + 1) - 1)' = Upto(sg', (L + 1) - 1)  BY DEF Upto
      <3>4. PICK c \in Nat : /\ c * Logicb <= req.start + PageEnd(L)
                             /\ req.start + PageEnd(L + 1) <= (c + 1) * Logicb
        BY <1>4, Zenon
      <3>5. req.start + PageEnd(L + 1) = req.start + PageEnd(L) + e.len
        <4>1. req.start \in Nat /\ PageEnd(L) \in Nat /\ e.len \in Nat
          BY <1>1, <1>4, RequestIs DEF Entries
        <4>2. PageEnd(L + 1) = PageEnd(L) + e.len  BY <1>4
        <4> QED  BY <4>1, <4>2
      <3>6. req.start + PageEnd(L) + e.len <= (c + 1) * Logicb  BY <3>4, <3>5, Zenon
      <3> QED  BY <1>3, <1>4, <1>5, <3>2, <3>3, <3>4, <3>6, Zenon DEF Whole
    <2> QED  BY <1>5, <1>11, <2>1, <2>2, Zenon
  <1>13. Bouncing' /\ ~Own'  BY <1>1, <1>3 DEF Bouncing, Own
  <1>14. BounceInv'
    <2>1. Len(sg') <= PageCnt'  BY <1>4, <1>5, <1>6
    <2>2. \A n \in 1 .. Len(sg') : sg'[n] = BounceEntry(n)'
      <3>1. \A n \in 1 .. L : sg'[n] = BounceEntry(n)'  BY <1>1, <1>2, <1>5, <1>6 DEF BounceInv
      <3>2. sg'[L + 1] = BounceEntry(L + 1)'  BY <1>5, <1>6 DEF e
      <3> QED  BY <1>5, <1>11, <3>1, <3>2, Zenon
    <2>3. Upto(sg, Len(sg))' = PageEnd(Len(sg))'
      <3>1. Upto(sg', L + 1) = PageEnd(L + 1)  BY <1>4, <1>5, <1>10
      <3>2. PageEnd(Len(sg))' = PageEnd(L + 1)'  BY <1>5 DEF PageEnd
      <3>3. Upto(sg, Len(sg))' = Upto(sg', L + 1)  BY <1>5 DEF Upto
      <3> QED  BY <1>6, <3>1, <3>2, <3>3
    <2>4. live' = 1 .. Len(sg')
      <3>1. live = 1 .. L  BY <1>1, <1>2 DEF BounceInv
      <3>2. (1 .. L) \cup {L + 1} = 1 .. L + 1  OBVIOUS
      <3> QED  BY <1>3, <1>5, <3>1, <3>2
    <2>5. Fresh' /\ remained' = IF FirstSize' # 0 THEN FirstSize' ELSE Logicb
      BY <1>1, <1>3, <1>6 DEF BounceInv, Fresh
    <2>6. pc' = "bounce"  BY <1>1, <1>3
    <2> QED  BY <2>1, <2>2, <2>3, <2>4, <2>5, <2>6 DEF BounceInv
  <1>15. CopyInv'
    <2>1. copies' = <<>> /\ Len(copies') = 0 /\ 1 .. 0 = {}  BY <1>1, <1>3 DEF BounceInv, Fresh
    <2>2. pc' = "bounce"  BY <1>1, <1>3
    <2> QED  BY <2>1, <2>2 DEF CopyInv
  <1> QED  BY <1>8, <1>9, <1>12, <1>13, <1>14, <1>15, Zenon DEF IInv

\* No page: back to the bio's own pages.
LEMMA AllocPageFailsInv ==
  ASSUME IInv, AllocPageFails
  PROVE  IInv'
  <1>1. /\ Types /\ SetUp /\ BounceInv /\ pc = "bounce" /\ Len(sg) < PageCnt
        /\ req \in Requests /\ firstSize = FirstSize /\ sgCount = TableSize
    BY DEF IInv, Bouncing, AllocPageFails, SetUp, Types
  <1>2. /\ req' = req /\ sgCount' = sgCount /\ firstSize' = firstSize /\ seg' = seg
        /\ offset' = offset /\ remained' = remained /\ sge' = sge /\ copies' = copies
        /\ sg' = <<>> /\ hasHole' = TRUE /\ needBounce' = FALSE /\ pc' = "segment"
        /\ live' = live \ {sg[n].pg : n \in 1 .. Len(sg)}
    BY DEF AllocPageFails, place, copy
  <1>3. /\ seg = 1 /\ copies = <<>> /\ sge = [entry |-> 1, done |-> 0]
        /\ remained = IF FirstSize # 0 THEN FirstSize ELSE Logicb
    BY <1>1 DEF BounceInv, Fresh
  <1>4. live' = {}
    <2>1. sg \in Seq(Entries) /\ pc # "done"  BY <1>1 DEF Types
    <2>2. {sg[n].pg : n \in 1 .. Len(sg)} = live  BY <1>1, <2>1, BouncePages, Zenon
    <2> QED  BY <1>2, <2>2
  <1>5. OwnInv'  BY <1>1, <1>2, <1>3, <1>4, OwnBegins
  <1>6. /\ FirstSize' = FirstSize /\ TableSize' = TableSize
    BY <1>2, SameRequest
  <1>7. Types'
    <2>1. sg' \in Seq(Entries)  BY <1>2
    <2>2. pc' \in Pts /\ needBounce' \in BOOLEAN /\ hasHole' \in BOOLEAN  BY <1>2, Zenon DEF Pts
    <2> QED  BY <1>1, <1>2, <2>1, <2>2, Zenon DEF Types
  <1>8. ~Straight'  BY <1>2 DEF Straight
  <1>9. SetUp'  BY <1>1, <1>2, <1>6, <1>8 DEF SetUp
  <1>10. Len(sg') = 0 /\ 1 .. 0 = {}  BY <1>2
  <1>11. ~Bouncing'  BY <1>2 DEF Bouncing
  <1> QED  BY <1>5, <1>7, <1>9, <1>10, <1>11 DEF IInv

\* The sums over the entries.
LEMMA EntriesAddUp ==
  ASSUME sg \in Seq(Entries), \A n \in 1 .. Len(sg) : Whole(n)
  PROVE  /\ Len(sg) \in Nat /\ Upto(sg, 0) = 0
         /\ \A n \in 0 .. Len(sg) : Upto(sg, n) \in Nat
         /\ \A n \in 1 .. Len(sg) : Upto(sg, n) = Upto(sg, n - 1) + sg[n].len
         /\ \A m, n \in 0 .. Len(sg) : m < n => Upto(sg, m) < Upto(sg, n)
         /\ \A n \in 1 .. Len(sg) : sg[n].len \in Nat /\ sg[n].len > 0
  <1>1. \A n \in 1 .. Len(sg) : sg[n] \in Entries  OBVIOUS
  <1>2. \A n \in 1 .. Len(sg) : sg[n].len \in Nat  BY <1>1 DEF Entries
  <1>3. \A n \in 1 .. Len(sg) : sg[n].len > 0  BY Zenon DEF Whole
  <1>4. \A n \in 1 .. Len(sg) : sg[n].len \in Nat \ {0}  BY <1>2, <1>3
  <1>5. Len(sg) \in Nat  OBVIOUS
  <1>6. /\ Upto(sg, 0) = 0 /\ \A n \in 0 .. Len(sg) : Upto(sg, n) \in Nat
        /\ \A n \in 1 .. Len(sg) : Upto(sg, n) = Upto(sg, n - 1) + sg[n].len
    BY <1>2, UptoIs, Zenon
  <1>7. \A m, n \in 0 .. Len(sg) : m < n => Upto(sg, m) < Upto(sg, n)  BY <1>4, UptoGrows, Zenon
  <1> QED  BY <1>2, <1>3, <1>5, <1>6, <1>7, Zenon

\* All pages are there: the copy begins.
LEMMA BouncedInv ==
  ASSUME IInv, Bounced
  PROVE  IInv'
  <1>1. /\ Types /\ SetUp /\ BounceInv /\ CopyInv /\ pc = "bounce" /\ Len(sg) = PageCnt
        /\ (\A n \in 1 .. Len(sg) : Whole(n)) /\ req \in Requests /\ firstSize = FirstSize
        /\ sg \in Seq(Entries)
    BY DEF IInv, Bouncing, Bounced, SetUp, Types
  <1>2. /\ req' = req /\ sgCount' = sgCount /\ firstSize' = firstSize /\ needBounce' = needBounce
        /\ hasHole' = hasHole /\ seg' = seg /\ offset' = offset /\ remained' = remained
        /\ sge' = sge /\ copies' = copies /\ sg' = sg /\ live' = live /\ pc' = "copy"
        /\ endMark' = Len(sg) + 1
    BY DEF Bounced, flags, place, copy
  <1>3. /\ Segs' = Segs /\ Size' = Size /\ FirstSize' = FirstSize /\ TableSize' = TableSize
        /\ Crooked' <=> Crooked
        /\ PageCnt' = PageCnt /\ \A n : BounceEntry(n)' = BounceEntry(n) /\ PageEnd(n)' = PageEnd(n)
    BY <1>2, SameRequest, Zenon
  <1>4. Straight' <=> Straight  BY <1>2, Zenon DEF Straight
  <1>5. Types'
    <2>1. pc' \in Pts  BY <1>2 DEF Pts
    <2> QED  BY <1>1, <1>2, <2>1, Zenon DEF Types
  <1>6. SetUp'  BY <1>1, <1>2, <1>3, <1>4 DEF SetUp
  <1>7. \A n \in 1 .. Len(sg') : Whole(n)'  BY <1>2, SameEntries
  <1>8. Bouncing' /\ ~Own'  BY <1>2 DEF Bouncing, Own
  <1>9. BounceInv'
    <2>1. Upto(sg, Len(sg))' = PageEnd(Len(sg))'
      <3>1. Upto(sg, Len(sg)) = PageEnd(Len(sg))  BY <1>1 DEF BounceInv
      <3>2. PageEnd(Len(sg))' = PageEnd(Len(sg))  BY <1>2, <1>3 DEF PageEnd
      <3>3. Upto(sg, Len(sg))' = Upto(sg, Len(sg))  BY <1>2 DEF Upto
      <3> QED  BY <3>1, <3>2, <3>3
    <2>2. Len(sg') <= PageCnt' /\ Len(sg') = PageCnt' /\ endMark' = PageCnt' + 1
      BY <1>1, <1>2, <1>3 DEF BounceInv
    <2>3. \A n \in 1 .. Len(sg') : sg'[n] = BounceEntry(n)'  BY <1>1, <1>2, <1>3 DEF BounceInv
    <2>4. live' = 1 .. Len(sg')  BY <1>1, <1>2 DEF BounceInv
    <2> QED  BY <1>2, <2>1, <2>2, <2>3, <2>4 DEF BounceInv
  <1>10. CopyInv'
    <2>1. seg = 1 /\ offset = 0 /\ copies = <<>> /\ sge = [entry |-> 1, done |-> 0]
      BY <1>1 DEF BounceInv, Fresh
    <2>2. Len(copies') = 0 /\ 1 .. 0 = {} /\ copies' = <<>>  BY <1>2, <2>1
    <2>3. Upto(copies, Len(copies))' = 0
      <3>1. Upto(copies', Len(copies')) = 0  BY <2>2, UptoEmpty
      <3> QED  BY <3>1 DEF Upto
    <2>4. 1 \in 1 .. Len(Segs) /\ 0 < Segs[1].len  BY <1>1, RequestIs
    <2>5. 1 \in 1 .. Len(sg) /\ 0 < sg[1].len
      <3>1. PageCnt \in Nat /\ PageCnt > 0  BY <1>1, PageCntIs
      <3>2. 1 \in 1 .. Len(sg)  BY <1>1, <3>1
      <3>3. sg[1].len \in Nat /\ sg[1].len > 0  BY <1>1, <3>2, EntriesAddUp
      <3> QED  BY <3>2, <3>3
    <2>6. 1 - 1 = 0 /\ 0 + 0 = 0  OBVIOUS
    <2>7. Upto(Segs, 0) = 0 /\ Upto(sg, 0) = 0  BY <1>1, SegsAddUp, EntriesAddUp
    <2>8. Upto(Segs, seg - 1)' = 0 /\ Upto(sg, sge.entry - 1)' = 0
      BY <1>2, <1>3, <2>1, <2>6, <2>7 DEF Upto
    <2>9. sge'.entry = 1 /\ sge'.done = 0 /\ seg' = 1 /\ offset' = 0  BY <1>2, <2>1
    <2>10. Segs' = Segs /\ sg' = sg  BY <1>2, <1>3
    <2> QED  BY <1>2, <2>2, <2>3, <2>4, <2>5, <2>6, <2>8, <2>9, <2>10 DEF CopyInv
  <1> QED  BY <1>5, <1>6, <1>7, <1>8, <1>9, <1>10, Zenon DEF IInv

\* The bio is converted and leaves: its pages are freed, or left.
LEMMA WayOutInv ==
  ASSUME IInv, FreePages \/ RejectBio
  PROVE  IInv'
  <1>1. /\ Types /\ SetUp /\ BounceInv /\ CopyInv /\ pc \in {"copy", "bounced"} /\ needBounce
        /\ (\A n \in 1 .. Len(sg) : Whole(n)) /\ req \in Requests /\ firstSize = FirstSize
        /\ sg \in Seq(Entries)
    BY DEF IInv, Bouncing, FreePages, RejectBio, Converted, SetUp, Types
  <1>2. /\ req' = req /\ sgCount' = sgCount /\ firstSize' = firstSize /\ needBounce' = needBounce
        /\ hasHole' = hasHole /\ seg' = seg /\ offset' = offset /\ remained' = remained
        /\ sge' = sge /\ copies' = copies /\ sg' = sg /\ endMark' = endMark
        /\ \/ pc' = "done" /\ live' = live \ {sg[n].pg : n \in 1 .. Len(sg)}
           \/ pc' = "rejected" /\ live' = live
    BY DEF FreePages, RejectBio, table, flags, place, copy
  <1>3. /\ Segs' = Segs /\ Size' = Size /\ FirstSize' = FirstSize /\ TableSize' = TableSize
        /\ Crooked' <=> Crooked
        /\ PageCnt' = PageCnt /\ \A n : BounceEntry(n)' = BounceEntry(n) /\ PageEnd(n)' = PageEnd(n)
    BY <1>2, SameRequest, Zenon
  <1>4. Straight' <=> Straight  BY <1>2, Zenon DEF Straight
  <1>5. Types'
    <2>1. pc' \in Pts  BY <1>2 DEF Pts
    <2> QED  BY <1>1, <1>2, <2>1, Zenon DEF Types
  <1>6. SetUp'  BY <1>1, <1>2, <1>3, <1>4 DEF SetUp
  <1>7. \A n \in 1 .. Len(sg') : Whole(n)'  BY <1>2, SameEntries
  <1>8. Bouncing' /\ ~Own'  BY <1>1, <1>2 DEF Bouncing, Own
  <1>9. BounceInv'
    <2>1. Upto(sg, Len(sg))' = PageEnd(Len(sg))'
      <3>1. Upto(sg, Len(sg)) = PageEnd(Len(sg))  BY <1>1 DEF BounceInv
      <3>2. PageEnd(Len(sg))' = PageEnd(Len(sg))  BY <1>2, <1>3 DEF PageEnd
      <3>3. Upto(sg, Len(sg))' = Upto(sg, Len(sg))  BY <1>2 DEF Upto
      <3> QED  BY <3>1, <3>2, <3>3
    <2>2. Len(sg') <= PageCnt' /\ Len(sg') = PageCnt' /\ endMark' = PageCnt' + 1
      BY <1>1, <1>2, <1>3 DEF BounceInv
    <2>3. \A n \in 1 .. Len(sg') : sg'[n] = BounceEntry(n)'  BY <1>1, <1>2, <1>3 DEF BounceInv
    <2>4. live' = IF pc' = "done" THEN {} ELSE 1 .. Len(sg')
      <3>1. {sg[n].pg : n \in 1 .. Len(sg)} = live  BY <1>1, BouncePages
      <3>2. live = 1 .. Len(sg)  BY <1>1 DEF BounceInv
      <3> QED  BY <1>2, <3>1, <3>2
    <2> QED  BY <1>2, <2>1, <2>2, <2>3, <2>4 DEF BounceInv
  <1>10. CopyInv'
    <2>1. ASSUME NEW n \in 1 .. Len(copies')  PROVE Copied(n)'
      <3>1. Copied(n)  BY <1>1, <1>2 DEF CopyInv
      <3> QED  BY <1>2, <1>3, <3>1 DEF Copied, Upto
    <2> QED  BY <1>2, <2>1 DEF CopyInv
  <1> QED  BY <1>5, <1>6, <1>7, <1>8, <1>9, <1>10, Zenon DEF IInv

\* One round of the copy.
LEMMA CopyChunkInv ==
  ASSUME IInv, CopyChunk
  PROVE  IInv'
  <1> DEFINE N == Len(Segs)
             o == offset
             sl == Segs[seg].len
             E == sge.entry
             d == sge.done
             el == sg[E].len
             m == CopyLen
             c == [seg |-> seg, from |-> o, entry |-> E, to |-> d, len |-> m]
             p == Upto(copies, Len(copies))
  <1>1. /\ Types /\ SetUp /\ BounceInv /\ CopyInv /\ pc = "copy" /\ needBounce
        /\ (\A n \in 1 .. Len(sg) : Whole(n)) /\ req \in Requests /\ firstSize = FirstSize
        /\ sg \in Seq(Entries) /\ copies \in Seq(Chunks) /\ sge \in [entry : Nat, done : Nat]
    BY DEF IInv, Bouncing, CopyChunk, SetUp, Types
  <1>2. /\ seg \in 1 .. N /\ o \in Nat /\ o < sl /\ p = Upto(Segs, seg - 1) + o
        /\ E \in 1 .. Len(sg) /\ d \in Nat /\ d < el /\ p = Upto(sg, E - 1) + d
    BY <1>1 DEF CopyInv, Types
  <1>3. N \in Nat /\ sl \in Nat /\ Len(sg) \in Nat /\ el \in Nat
    BY <1>1, <1>2, RequestIs, EntriesAddUp
  <1>4. EntryLen(E) = el  BY <1>2, <1>3 DEF EntryLen
  <1>5. /\ m = IF el - d < sl - o THEN el - d ELSE sl - o
        /\ m \in Nat /\ m > 0 /\ d + m <= el /\ o + m <= sl
        /\ d + m >= el <=> d + m = el
        /\ ~(o + m < sl) <=> o + m = sl
        /\ d + m = el \/ o + m = sl
    <2>1. m = IF el - d < sl - o THEN el - d ELSE sl - o  BY <1>4 DEF CopyLen, RestOf, Lesser
    <2>2. o \in Nat /\ o < sl /\ d \in Nat /\ d < el /\ sl \in Nat /\ el \in Nat  BY <1>2, <1>3, Zenon
    <2> HIDE DEF m, el, sl, o, d
    <2>3. m \in Nat /\ m > 0 /\ d + m <= el /\ o + m <= sl  BY <2>1, <2>2
    <2> QED  BY <2>1, <2>2, <2>3
  <1>6. /\ req' = req /\ sgCount' = sgCount /\ firstSize' = firstSize /\ needBounce' = needBounce
        /\ hasHole' = hasHole /\ remained' = remained /\ sg' = sg /\ endMark' = endMark /\ live' = live
        /\ copies' = Append(copies, c)
        /\ sge' = IF d + m = el THEN [entry |-> E + 1, done |-> 0] ELSE [sge EXCEPT !.done = @ + m]
        /\ ~(o + m = sl) => offset' = o + m /\ pc' = "copy" /\ seg' = seg
        /\ o + m = sl => /\ offset' = 0 /\ seg' = seg + 1
                         /\ pc' = IF seg = N THEN "bounced" ELSE "copy"
    <2>1. /\ req' = req /\ sgCount' = sgCount /\ firstSize' = firstSize /\ needBounce' = needBounce
          /\ hasHole' = hasHole /\ remained' = remained /\ sg' = sg /\ endMark' = endMark /\ live' = live
          /\ copies' = Append(copies, c)
      BY DEF CopyChunk, table, flags
    <2>2. sge' = IF d + m = el THEN [entry |-> E + 1, done |-> 0] ELSE [sge EXCEPT !.done = @ + m]
      BY <1>4, <1>5, Zenon DEF CopyChunk
    <2>3. /\ o + m < sl => offset' = o + m /\ pc' = pc /\ seg' = seg
          /\ ~(o + m < sl) => /\ offset' = 0 /\ seg' = seg + 1
                              /\ pc' = IF seg = N THEN "bounced" ELSE "copy"
      BY DEF CopyChunk
    <2> QED  BY <1>1, <1>5, <2>1, <2>2, <2>3, Zenon
  <1>7. c \in Chunks /\ c.seg = seg /\ c.from = o /\ c.entry = E /\ c.to = d /\ c.len = m
    <2>1. seg \in Nat /\ E \in Nat  BY <1>2
    <2> HIDE DEF m
    <2> QED  BY <1>2, <1>5, <2>1 DEF Chunks
  <1>8. PICK K \in Nat : K = Len(copies)
    <2>1. Len(copies) \in Nat  BY <1>1
    <2> QED  BY <2>1
  <1> HIDE DEF c, m, el, sl
  <1>9. /\ copies' \in Seq(Chunks) /\ Len(copies') = K + 1
        /\ copies'[K + 1] = c /\ \A n \in 1 .. K : copies'[n] = copies[n]
        /\ \A n \in 0 .. K : Upto(copies', n) = Upto(copies, n) /\ Upto(copies, n) \in Nat
        /\ Upto(copies', K + 1) = Upto(copies, K) + c.len
    <2>1. \A x \in Chunks : x.len \in Nat  BY DEF Chunks
    <2> QED  BY <1>1, <1>6, <1>7, <1>8, <2>1, Grown
  <1>10. /\ Segs' = Segs /\ Size' = Size /\ FirstSize' = FirstSize /\ TableSize' = TableSize
         /\ Crooked' <=> Crooked
         /\ PageCnt' = PageCnt /\ \A n : BounceEntry(n)' = BounceEntry(n) /\ PageEnd(n)' = PageEnd(n)
    BY <1>6, SameRequest, Zenon
  <1>11. Straight' <=> Straight  BY <1>6, Zenon DEF Straight
  <1>12. sge' \in [entry : Nat, done : Nat]
         /\ sge'.entry = (IF d + m = el THEN E + 1 ELSE E)
         /\ sge'.done = (IF d + m = el THEN 0 ELSE d + m)
    <2>1. d \in Nat /\ m \in Nat /\ E \in 1 .. Len(sg)  BY <1>2, <1>5, Zenon
    <2>a. d + m \in Nat /\ E + 1 \in Nat /\ E \in Nat
      <3> HIDE DEF d, E
      <3> QED  BY <2>1
    <2>2. CASE d + m = el
      <3>1. sge' = [entry |-> E + 1, done |-> 0]  BY <1>6, <2>2, Zenon
      <3> QED  BY <2>a, <2>2, <3>1
    <2>3. CASE d + m # el
      <3>1. sge' = [sge EXCEPT !.done = d + m]  BY <1>6, <2>3, Zenon
      <3>2. sge' \in [entry : Nat, done : Nat] /\ sge'.entry = E /\ sge'.done = d + m
        BY <1>1, <2>a, <3>1
      <3> QED  BY <2>3, <3>2, Zenon
    <2> QED  BY <2>2, <2>3, Zenon
  <1>13. pc' \in {"copy", "bounced"} /\ seg' \in Nat /\ offset' \in Nat
    <2>1. seg \in Nat /\ seg + 1 \in Nat /\ o + m \in Nat /\ 0 \in Nat  BY <1>2, <1>5
    <2> QED  BY <1>6, <2>1, Zenon
  <1>14. Types'
    <2>1. pc' \in Pts  BY <1>13 DEF Pts
    <2> QED  BY <1>1, <1>6, <1>9, <1>12, <1>13, <2>1, Zenon DEF Types
  <1>15. SetUp'
    <2>1. pc' # "start" /\ pc' \notin {"segment", "split"}  BY <1>13
    <2>2. sgCount = TableSize /\ (needBounce => req.kind = "bio")  BY <1>1 DEF SetUp
    <2> QED  BY <1>1, <1>6, <1>10, <2>1, <2>2, Zenon DEF SetUp
  <1>16. \A n \in 1 .. Len(sg') : Whole(n)'  BY <1>6, SameEntries
  <1>17. Bouncing' /\ ~Own'  BY <1>13 DEF Bouncing, Own
  <1>18. BounceInv'
    <2>1. Upto(sg, Len(sg))' = PageEnd(Len(sg))'
      <3>1. Upto(sg, Len(sg)) = PageEnd(Len(sg))  BY <1>1 DEF BounceInv
      <3>2. PageEnd(Len(sg))' = PageEnd(Len(sg))  BY <1>6, <1>10 DEF PageEnd
      <3>3. Upto(sg, Len(sg))' = Upto(sg, Len(sg))  BY <1>6 DEF Upto
      <3> QED  BY <3>1, <3>2, <3>3
    <2>2. Len(sg') <= PageCnt' /\ Len(sg') = PageCnt' /\ endMark' = PageCnt' + 1
      BY <1>1, <1>6, <1>10 DEF BounceInv
    <2>3. \A n \in 1 .. Len(sg') : sg'[n] = BounceEntry(n)'  BY <1>1, <1>6, <1>10 DEF BounceInv
    <2>4. live' = 1 .. Len(sg')  BY <1>1, <1>6 DEF BounceInv
    <2> QED  BY <1>13, <2>1, <2>2, <2>3, <2>4 DEF BounceInv
  <1>19. p \in Nat /\ p = Upto(copies, K) /\ Upto(copies', K + 1) = p + m
    <2>1. K \in 0 .. K  OBVIOUS
    <2> QED  BY <1>7, <1>8, <1>9, <2>1
  <1> HIDE DEF p
  <1> DEFINE a == Upto(Segs, seg - 1)
             b == Upto(Segs, seg)
             f == Upto(sg, E - 1)
             g == Upto(sg, E)
  <1>20. /\ a \in Nat /\ b = a + sl /\ p = a + o /\ b <= Size /\ (b = Size <=> seg = N)
         /\ Size \in Nat
    <2>1. /\ \A n \in 0 .. N : Upto(Segs, n) \in Nat
          /\ \A n \in 1 .. N : Upto(Segs, n) = Upto(Segs, n - 1) + Segs[n].len
          /\ \A i, n \in 0 .. N : i < n => Upto(Segs, i) < Upto(Segs, n)
          /\ Upto(Segs, N) = Size /\ Size \in Nat
      BY <1>1, SegsAddUp
    <2>2. seg - 1 \in 0 .. N /\ seg \in 0 .. N /\ N \in 0 .. N  BY <1>2, <1>3
    <2>3. a \in Nat /\ b \in Nat /\ b = a + sl  BY <1>2, <2>1, <2>2 DEF sl
    <2>4. b <= Size /\ (b = Size <=> seg = N)
      <3>1. CASE seg = N  BY <2>1, <3>1
      <3>2. CASE seg # N
        <4>1. seg < N  BY <1>2, <1>3, <3>2
        <4>2. b < Size  BY <2>1, <2>2, <4>1, Zenon
        <4> QED  BY <2>1, <2>3, <3>2, <4>2
      <3> QED  BY <3>1, <3>2
    <2> QED  BY <1>2, <2>1, <2>3, <2>4
  <1>21. /\ f \in Nat /\ g = f + el /\ p = f + d /\ g <= Size /\ (g = Size <=> E = Len(sg))
    <2>1. /\ \A n \in 0 .. Len(sg) : Upto(sg, n) \in Nat
          /\ \A n \in 1 .. Len(sg) : Upto(sg, n) = Upto(sg, n - 1) + sg[n].len
          /\ \A i, n \in 0 .. Len(sg) : i < n => Upto(sg, i) < Upto(sg, n)
      BY <1>1, EntriesAddUp
    <2>2. Upto(sg, Len(sg)) = Size
      <3>1. PageEnd(PageCnt) = Size  BY <1>1, PageCntIs
      <3> QED  BY <1>1, <3>1 DEF BounceInv
    <2>3. E - 1 \in 0 .. Len(sg) /\ E \in 0 .. Len(sg) /\ Len(sg) \in 0 .. Len(sg)  BY <1>2, <1>3
    <2>4. f \in Nat /\ g \in Nat /\ g = f + el  BY <1>2, <2>1, <2>3 DEF el
    <2>5. g <= Size /\ (g = Size <=> E = Len(sg))
      <3>1. CASE E = Len(sg)
        <4>1. g = Size  BY <2>2, <3>1
        <4> QED  BY <1>20, <3>1, <4>1
      <3>2. CASE E # Len(sg)
        <4>1. E < Len(sg)  BY <1>2, <1>3, <3>2
        <4>2. g < Size  BY <2>1, <2>2, <2>3, <4>1, Zenon
        <4> QED  BY <1>20, <2>4, <3>2, <4>2
      <3> QED  BY <3>1, <3>2
    <2> QED  BY <1>2, <2>4, <2>5
  <1>22. CopyInv'
    <2>1. ASSUME NEW n \in 1 .. K  PROVE Copied(n)'
      <3>1. Copied(n)  BY <1>1, <1>8 DEF CopyInv
      <3>2. copies'[n] = copies[n] /\ n - 1 \in 0 .. K  BY <1>9
      <3>3. Upto(copies', n - 1) = Upto(copies, n - 1)  BY <1>9, <3>2
      <3>4. Upto(copies, n - 1)' = Upto(copies', n - 1)  BY DEF Upto
      <3>5. /\ Upto(Segs, copies[n].seg - 1)' = Upto(Segs, copies[n].seg - 1)
            /\ Upto(sg, copies[n].entry - 1)' = Upto(sg, copies[n].entry - 1)
        BY <1>6, <1>10, <3>2 DEF Upto
      <3> QED  BY <1>6, <1>10, <3>1, <3>2, <3>3, <3>4, <3>5, Zenon DEF Copied
    <2>2. Copied(K + 1)'
      <3>1. (K + 1) - 1 = K /\ K \in 0 .. K  OBVIOUS
      <3>2. Upto(copies', (K + 1) - 1) = p  BY <1>9, <1>19, <3>1
      <3>3. Upto(copies, (K + 1) - 1)' = Upto(copies', (K + 1) - 1)  BY DEF Upto
      <3>4. /\ Upto(Segs, copies[K + 1].seg - 1)' = Upto(Segs, seg - 1)
            /\ Upto(sg, copies[K + 1].entry - 1)' = Upto(sg, E - 1)
        BY <1>6, <1>7, <1>9, <1>10 DEF Upto
      <3>5. d + m <= sg[E].len  BY <1>5 DEF el
      <3> QED
        BY <1>2, <1>6, <1>7, <1>9, <1>10, <1>20, <1>21, <3>2, <3>3, <3>4, <3>5, Zenon DEF Copied
    <2>3. \A n \in 1 .. Len(copies') : Copied(n)'
      <3>1. \A n \in 1 .. Len(copies') : n \in 1 .. K \/ n = K + 1  BY <1>9
      <3> QED  BY <2>1, <2>2, <3>1, Zenon
    <2>4. Upto(copies, Len(copies))' = p + m  BY <1>9, <1>19 DEF Upto
    <2> HIDE DEF a, b, f, g
    <2>5. /\ a \in Nat /\ o \in Nat /\ m \in Nat /\ sl \in Nat /\ f \in Nat /\ d \in Nat /\ el \in Nat
          /\ Size \in Nat /\ p \in Nat /\ p = a + o /\ p = f + d /\ b = a + sl /\ g = f + el
          /\ o + m <= sl /\ d + m <= el
      BY <1>2, <1>3, <1>5, <1>19, <1>20, <1>21, Zenon DEF sl, el
    <2> HIDE DEF o, d
    <2>6. o + m = sl => p + m = b  BY <2>5
    <2>7. o + m # sl => p + m = a + (o + m) /\ p + m < b /\ o + m < sl  BY <2>5
    <2>8. d + m = el => p + m = g  BY <2>5
    <2>9. d + m # el => p + m = f + (d + m) /\ p + m < g /\ d + m < el  BY <2>5
    <2>10. Upto(Segs, seg - 1)' = Upto(Segs, seg' - 1) /\ Upto(sg, sge.entry - 1)' = Upto(sg, sge'.entry - 1)
      BY <1>6, <1>10 DEF Upto
    <2>11. CASE pc' = "copy"
      <3>1. /\ seg' \in 1 .. N /\ offset' < Segs[seg'].len /\ p + m = Upto(Segs, seg' - 1) + offset'
            /\ p + m < Size
        <4>1. CASE o + m = sl
          <5>1. seg # N /\ seg' = seg + 1 /\ offset' = 0  BY <1>6, <2>11, <4>1
          <5>2. seg + 1 \in 1 .. N /\ (seg + 1) - 1 = seg  BY <1>2, <1>3, <5>1
          <5>3. 0 < Segs[seg + 1].len  BY <1>1, <5>2, RequestIs
          <5>4. b + 0 = b /\ b < Size  BY <1>20, <2>5, <5>1
          <5> QED  BY <2>6, <4>1, <5>1, <5>2, <5>3, <5>4, Zenon DEF b
        <4>2. CASE o + m # sl
          <5>1. seg' = seg /\ offset' = o + m  BY <1>6, <4>2, Zenon
          <5>2. p + m < Size
            <6>1. p + m < b /\ b <= Size  BY <1>20, <2>7, <4>2, Zenon
            <6> QED  BY <2>5, <6>1
          <5> QED  BY <1>2, <2>7, <4>2, <5>1, <5>2, Zenon DEF a, sl
        <4> QED  BY <4>1, <4>2, Zenon
      <3>2. /\ sge'.entry \in 1 .. Len(sg) /\ sge'.done < sg[sge'.entry].len
            /\ p + m = Upto(sg, sge'.entry - 1) + sge'.done
        <4>1. CASE d + m = el
          <5>1. sge'.entry = E + 1 /\ sge'.done = 0  BY <1>12, <4>1
          <5>2. E # Len(sg)
            <6>1. p + m = g  BY <2>8, <4>1, Zenon
            <6>2. p + m # Size  BY <2>5, <3>1
            <6> QED  BY <1>21, <6>1, <6>2, Zenon
          <5>3. E + 1 \in 1 .. Len(sg) /\ (E + 1) - 1 = E  BY <1>2, <1>3, <5>2
          <5>4. 0 < sg[E + 1].len
            <6>1. sg[E + 1].len \in Nat /\ sg[E + 1].len > 0  BY <1>1, <5>3, EntriesAddUp, Zenon
            <6> QED  BY <6>1
          <5>5. g + 0 = g  BY <2>5
          <5> QED  BY <2>8, <4>1, <5>1, <5>3, <5>4, <5>5, Zenon DEF g
        <4>2. CASE d + m # el
          <5>1. sge'.entry = E /\ sge'.done = d + m  BY <1>12, <4>2, Zenon
          <5> QED  BY <1>2, <2>9, <4>2, <5>1, Zenon DEF f, el
        <4> QED  BY <4>1, <4>2, Zenon
      <3>3. pc' # "bounced"  BY <2>11
      <3> QED  BY <1>6, <1>10, <2>3, <2>4, <2>10, <3>1, <3>2, <3>3, Zenon DEF CopyInv
    <2>12. CASE pc' = "bounced"
      <3>1. o + m = sl /\ seg = N  BY <1>6, <2>12
      <3>2. p + m = Size  BY <1>20, <2>6, <3>1, Zenon
      <3>3. d + m = el
        <4>1. ASSUME d + m # el  PROVE FALSE
          <5>1. p + m < g /\ g <= Size  BY <1>21, <2>9, <4>1, Zenon
          <5> QED  BY <2>5, <3>2, <5>1
        <4> QED  BY <4>1
      <3>4. E = Len(sg)  BY <1>21, <2>8, <3>2, <3>3, Zenon
      <3>5. sge'.entry = Len(sg') + 1  BY <1>6, <1>12, <3>3, <3>4
      <3>6. pc' # "copy"  BY <2>12
      <3> QED  BY <1>10, <2>3, <2>4, <3>2, <3>5, <3>6, Zenon DEF CopyInv
    <2> QED  BY <1>13, <2>11, <2>12
  <1> QED  BY <1>14, <1>15, <1>16, <1>17, <1>18, <1>22, Zenon DEF IInv

\* Nothing happens.
LEMMA StutterInv ==
  ASSUME IInv, UNCHANGED vars
  PROVE  IInv'
  <1>1. /\ req' = req /\ pc' = pc /\ sgCount' = sgCount /\ sg' = sg /\ endMark' = endMark
        /\ firstSize' = firstSize /\ needBounce' = needBounce /\ hasHole' = hasHole
        /\ seg' = seg /\ offset' = offset /\ remained' = remained /\ live' = live
        /\ sge' = sge /\ copies' = copies
    BY DEF vars, table, flags, place, copy
  <1>2. /\ Segs' = Segs /\ Size' = Size /\ FirstSize' = FirstSize /\ TableSize' = TableSize
        /\ Crooked' <=> Crooked
        /\ PageCnt' = PageCnt /\ \A n : BounceEntry(n)' = BounceEntry(n) /\ PageEnd(n)' = PageEnd(n)
    BY <1>1, SameRequest, Zenon
  <1>3. Types'  BY <1>1, Zenon DEF IInv, Types
  <1>4. Straight' <=> Straight  BY <1>1, Zenon DEF Straight
  <1>5. SetUp'  BY <1>1, <1>2, <1>4, Zenon DEF IInv, SetUp, Fresh
  <1>6. \A n \in 1 .. Len(sg') : Whole(n)'  BY <1>1, SameEntries, Zenon
  <1>7. (Own' <=> Own) /\ (Bouncing' <=> Bouncing)  BY <1>1, Zenon DEF Own, Bouncing
  <1>8. Own => OwnInv'
    <2> SUFFICES ASSUME Own  PROVE OwnInv'
      OBVIOUS
    <2>1. OwnInv  BY DEF IInv
    <2>2. Within' = Within  BY <1>1, Zenon DEF Within
    <2>3. Mapped' = Mapped  BY <1>1, <1>2, <2>2, Zenon DEF Mapped, Upto
    <2>4. LastEnds'
      <3>1. LastEnds  BY <2>1 DEF OwnInv
      <3> QED  BY <1>1, <1>2, <2>2, <3>1 DEF LastEnds
    <2>5. \E b \in Nat : InBlock(b)'
      <3>1. PICK b \in Nat : InBlock(b)  BY <2>1 DEF OwnInv
      <3>2. InBlock(b)'  BY <1>1, <1>2, <2>3, <3>1, Zenon DEF InBlock
      <3> QED  BY <3>2
    <2>6. \A n \in 1 .. Len(sg') : sg'[n].seg # 0 /\ Follows(n)'
      BY <1>1, <1>2, <2>1, Zenon DEF OwnInv, Follows
    <2>7. Upto(sg, Len(sg))' = Mapped'  BY <1>1, <2>1, <2>3, Zenon DEF OwnInv, Upto
    <2> QED  BY <1>1, <1>2, <1>4, <2>1, <2>2, <2>4, <2>5, <2>6, <2>7, Zenon DEF OwnInv
  <1>9. Bouncing => BounceInv' /\ CopyInv'
    <2> SUFFICES ASSUME Bouncing  PROVE BounceInv' /\ CopyInv'
      OBVIOUS
    <2>1. BounceInv /\ CopyInv  BY DEF IInv
    <2>2. Upto(sg, Len(sg))' = Upto(sg, Len(sg)) /\ PageEnd(Len(sg))' = PageEnd(Len(sg))
      BY <1>1, <1>2 DEF Upto, PageEnd
    <2>3. BounceInv'  BY <1>1, <1>2, <2>1, <2>2, Zenon DEF BounceInv, Fresh
    <2>4. \A n \in 1 .. Len(copies') : Copied(n)'
      <3> SUFFICES ASSUME NEW n \in 1 .. Len(copies)  PROVE Copied(n)'
        BY <1>1
      <3>1. Copied(n)  BY <2>1 DEF CopyInv
      <3> QED  BY <1>1, <1>2, <3>1 DEF Copied, Upto
    <2>5. /\ Upto(copies, Len(copies))' = Upto(copies, Len(copies))
          /\ Upto(Segs, seg - 1)' = Upto(Segs, seg - 1)
          /\ Upto(sg, sge.entry - 1)' = Upto(sg, sge.entry - 1)
      BY <1>1, <1>2 DEF Upto
    <2>6. CopyInv'  BY <1>1, <1>2, <2>1, <2>4, <2>5, Zenon DEF CopyInv
    <2> QED  BY <2>3, <2>6
  <1> QED  BY <1>3, <1>5, <1>6, <1>7, <1>8, <1>9, Zenon DEF IInv

\* The invariant holds throughout.
LEMMA Inductive == Spec => []IInv
  <1>1. Init => IInv  BY InitIInv
  <1>2. IInv /\ [Next]_vars => IInv'
    <2> SUFFICES ASSUME IInv, [Next]_vars  PROVE IInv'
      OBVIOUS
    <2>1. CASE Start  BY <2>1, StartInv
    <2>2. CASE Segment  BY <2>2, SegmentInv
    <2>3. CASE Split  BY <2>3, SplitInv
    <2>4. CASE AllocPage  BY <2>4, AllocPageInv
    <2>5. CASE AllocPageFails  BY <2>5, AllocPageFailsInv
    <2>6. CASE Bounced  BY <2>6, BouncedInv
    <2>7. CASE CopyChunk  BY <2>7, CopyChunkInv
    <2>8. CASE FreePages \/ RejectBio  BY <2>8, WayOutInv
    <2>9. CASE UNCHANGED vars  BY <2>9, StutterInv
    <2> QED  BY <2>1, <2>2, <2>3, <2>4, <2>5, <2>6, <2>7, <2>8, <2>9 DEF Next
  <1> QED  BY <1>1, <1>2, PTL DEF Spec

-----------------------------------------------------------------------------
(* What it implies.                                                        *)

\* The table is large enough: every entry the loops of the three conversions
\* set is one of the sg_count that were allocated, and the copy between
\* bounce pages and segments never passes the end mark.
THEOREM TableIsLargeEnough == Spec => []TableFits
  <1>1. IInv => TableFits
    <2> SUFFICES ASSUME IInv  PROVE TableFits
      OBVIOUS
    <2> DEFINE N == Len(Segs)
               C == CeilDiv(Size, Logicb)
    <2>1. /\ Types /\ SetUp /\ req \in Requests /\ sg \in Seq(Entries) /\ pc \in Pts
          /\ needBounce \in BOOLEAN /\ (Own => OwnInv) /\ (Bouncing => BounceInv /\ CopyInv)
      BY DEF IInv, Types
    <2>2. /\ req.kind \in Kinds /\ Logicb \in Nat \ {0} /\ req.start \in Nat /\ req.start < Logicb
          /\ N \in Nat /\ N > 0
      BY <2>1, RequestIs
    <2>3. Size \in Nat  BY <2>1, SegsAddUp
    <2>4. C \in Nat /\ C * Logicb \in Nat /\ Size <= C * Logicb  BY <2>2, <2>3, CeilDivIs, Zenon
    <2>5. pc # "start" => /\ req.kind = "bio" => sgCount = 2 * (C + N)
                          /\ req.kind = "lreq" => sgCount = 2 * N + 1
                          /\ req.kind = "scsi" => sgCount = 2 * C + N
      BY <2>1 DEF SetUp, TableSize
    <2> HIDE DEF C
    <2>6. Len(sg) \in Nat  BY <2>1
    <2>7. CASE pc = "start"
      <3>1. Len(sg) = 0 /\ sgCount = 0  BY <2>1, <2>7 DEF SetUp
      <3> QED  BY <2>7, <3>1 DEF TableFits
    <2>8. CASE Own
      <3>1. OwnInv /\ pc \in {"segment", "split", "done"}  BY <2>1, <2>8 DEF Own
      <3>2. /\ seg \in 1 .. N + 1 /\ (pc = "done" <=> seg = N + 1)
            /\ Len(sg) <= 2 * (seg - 1) + IF Within > 0 THEN 1 ELSE 0
        BY <3>1 DEF OwnInv
      <3>3. seg \in Nat /\ (pc # "done" => seg <= N) /\ seg <= N + 1  BY <2>2, <3>2
      <3>4. Within > 0 => pc = "split"  BY DEF Within
      <3>5. Len(sg) <= 2 * N /\ (pc = "split" => Len(sg) < 2 * N)
        BY <2>2, <2>6, <3>2, <3>3, <3>4
      <3>6. Len(sg) <= C + N /\ (pc = "split" => Len(sg) < C + N)
        <4>1. PICK b \in Nat : InBlock(b)  BY <3>1 DEF OwnInv
        <4>2. b * Logicb <= req.start + Mapped /\ Len(sg) <= seg - 1 + b  BY <4>1 DEF InBlock
        <4>3. Mapped \in Nat /\ Mapped <= Size
          <5>1. /\ \A n \in 0 .. N : Upto(Segs, n) \in Nat
                /\ \A n \in 1 .. N : Upto(Segs, n) = Upto(Segs, n - 1) + Segs[n].len
                /\ \A i, n \in 0 .. N : i < n => Upto(Segs, i) < Upto(Segs, n)
                /\ Upto(Segs, N) = Size
            BY <2>1, SegsAddUp
          <5>2. \A n \in 0 .. N : Upto(Segs, n) <= Size
            <6> SUFFICES ASSUME NEW n \in 0 .. N  PROVE Upto(Segs, n) <= Size
              OBVIOUS
            <6>1. CASE n = N  BY <2>3, <5>1, <6>1
            <6>2. CASE n # N
              <7>1. n < N /\ N \in 0 .. N  BY <2>2, <6>2
              <7>2. Upto(Segs, n) < Size  BY <5>1, <7>1, Zenon
              <7>3. Upto(Segs, n) \in Nat  BY <5>1, Zenon
              <7> QED  BY <2>3, <7>2, <7>3
            <6> QED  BY <6>1, <6>2
          <5>3. seg - 1 \in 0 .. N /\ seg - 1 \in Nat  BY <2>2, <3>2
          <5>4. Upto(Segs, seg - 1) \in Nat /\ Upto(Segs, seg - 1) <= Size  BY <5>1, <5>2, <5>3, Zenon
          <5>5. CASE pc = "split"
            <6>1. seg \in 1 .. N /\ seg \in 0 .. N  BY <2>2, <3>2, <3>3, <5>5
            <6>2. offset \in Nat /\ offset < Segs[seg].len /\ Within = offset
              BY <2>1, <3>1, <5>5 DEF OwnInv, Types, Within
            <6>3. Segs[seg].len \in Nat  BY <2>1, <6>1, RequestIs
            <6>4. Upto(Segs, seg) = Upto(Segs, seg - 1) + Segs[seg].len /\ Upto(Segs, seg) <= Size
              BY <5>1, <5>2, <6>1, Zenon
            <6>5. Mapped = Upto(Segs, seg - 1) + offset  BY <6>2 DEF Mapped
            <6> QED  BY <2>3, <5>4, <6>2, <6>3, <6>4, <6>5
          <5>6. CASE pc # "split"
            <6>1. Mapped = Upto(Segs, seg - 1) + 0  BY <5>6 DEF Mapped, Within
            <6> QED  BY <5>4, <6>1
          <5> QED  BY <5>5, <5>6
        <4>4. b < C + 1
          <5>1. (C + 1) * Logicb = C * Logicb + Logicb /\ C + 1 \in Nat  BY <2>2, <2>4, Products
          <5>2. b * Logicb \in Nat  BY <2>2, Products
          <5>3. b * Logicb < (C + 1) * Logicb  BY <2>2, <2>3, <2>4, <4>2, <4>3, <5>1, <5>2
          <5> QED  BY <2>2, <5>1, <5>3, Products
        <4> QED  BY <2>2, <2>4, <2>6, <3>3, <4>2, <4>4
      <3>7. Len(sg) <= sgCount /\ (pc = "split" => Len(sg) < sgCount)
        <4>1. CASE req.kind = "bio"  BY <2>2, <2>4, <2>5, <2>6, <3>1, <3>5, <4>1
        <4>2. CASE req.kind = "lreq"  BY <2>2, <2>5, <2>6, <3>1, <3>5, <4>2
        <4>3. CASE req.kind = "scsi"  BY <2>2, <2>4, <2>5, <2>6, <3>1, <3>6, <4>3
        <4> QED  BY <2>2, <4>1, <4>2, <4>3 DEF Kinds
      <3> QED  BY <3>1, <3>7 DEF TableFits
    <2>9. CASE Bouncing
      <3>1. BounceInv /\ CopyInv /\ pc \in {"bounce", "copy", "bounced", "done", "rejected"} /\ needBounce
        BY <2>1, <2>9 DEF Bouncing, SetUp
      <3>2. firstSize = FirstSize /\ req.kind = "bio"  BY <2>1, <3>1 DEF SetUp
      <3>3. PageCnt \in Nat /\ PageCnt <= C + 1  BY <2>1, <3>2, PageCntIs DEF C
      <3>4. Len(sg) <= PageCnt  BY <3>1 DEF BounceInv
      <3>5. Len(sg) < sgCount  BY <2>2, <2>4, <2>5, <2>6, <3>1, <3>2, <3>3, <3>4
      <3>6. pc \in {"copy", "bounced"} => endMark = Len(sg) + 1  BY <3>1 DEF BounceInv
      <3>7. pc = "copy" => sge.entry \in 1 .. Len(sg)  BY <3>1 DEF CopyInv
      <3>8. pc = "bounced" => sge.entry = Len(sg) + 1  BY <3>1 DEF CopyInv
      <3>9. Len(sg) <= sgCount
        <4>1. sgCount = 2 * (C + N)  BY <2>5, <3>1, <3>2
        <4> QED  BY <2>2, <2>4, <2>6, <3>5, <4>1
      <3> QED  BY <2>6, <3>1, <3>5, <3>6, <3>7, <3>8, <3>9 DEF TableFits
    <2> QED  BY <2>1, <2>7, <2>8, <2>9 DEF Pts, Own, Bouncing
  <1> QED  BY <1>1, Inductive, PTL

\* The table is the request: no entry crosses a page or a logical block,
\* entries on own pages follow each other in the request's order without a
\* gap or an overlap, and at the end all of it is mapped or bounced.
THEOREM TableIsTheRequest == Spec => []ExactCover
  <1>1. IInv => ExactCover
    <2> SUFFICES ASSUME IInv  PROVE ExactCover
      OBVIOUS
    <2>1. /\ Types /\ SetUp /\ req \in Requests /\ sg \in Seq(Entries) /\ pc \in Pts
          /\ needBounce \in BOOLEAN /\ (Own => OwnInv) /\ (Bouncing => BounceInv /\ CopyInv)
          /\ \A n \in 1 .. Len(sg) : Whole(n)
      BY DEF IInv, Types
    <2>2. Logicb \in Nat \ {0} /\ req.start \in Nat  BY <2>1, RequestIs
    <2>3. /\ Len(sg) \in Nat /\ \A n \in 0 .. Len(sg) : Upto(sg, n) \in Nat
          /\ \A n \in 1 .. Len(sg) : sg[n].len \in Nat /\ sg[n].len > 0
      BY <2>1, EntriesAddUp
    <2>4. ASSUME NEW n \in 1 .. Len(sg)
          PROVE  /\ sg[n].off + sg[n].len <= Page
                 /\ EntryPos(n) \div Logicb = (EntryPos(n) + sg[n].len - 1) \div Logicb
      <3> DEFINE p == req.start + Upto(sg, n - 1)
                 l == sg[n].len
      <3>1. n \in 1 .. Len(sg) + 1 /\ n - 1 \in 0 .. Len(sg)  BY <2>3
      <3>2. EntryPos(n) = p  BY <2>1, <2>2, <3>1, PosIs, Zenon
      <3>3. l \in Nat /\ l > 0 /\ p \in Nat
        <4>1. Upto(sg, n - 1) \in Nat  BY <2>3, <3>1, Zenon
        <4> QED  BY <2>2, <2>3, <4>1
      <3>4. PICK c \in Nat : c * Logicb <= p /\ p + l <= (c + 1) * Logicb
        BY <2>1, Zenon DEF Whole
      <3>5. sg[n].off + sg[n].len <= Page  BY <2>1, Zenon DEF Whole
      <3> HIDE DEF p, l
      <3>6. c * Logicb \in Nat /\ (c + 1) * Logicb = c * Logicb + Logicb  BY <2>2, Products
      <3>7. /\ c * Logicb <= p /\ p < (c + 1) * Logicb
            /\ p + l - 1 \in Nat /\ c * Logicb <= p + l - 1 /\ p + l - 1 < (c + 1) * Logicb
        BY <2>2, <3>3, <3>4, <3>6
      <3>8. p \div Logicb = c  BY <2>2, <3>3, <3>7, DivBetween, Zenon
      <3>9. (p + l - 1) \div Logicb = c  BY <2>2, <3>7, DivBetween, Zenon
      <3> QED  BY <3>2, <3>5, <3>8, <3>9, Zenon DEF l
    <2>5. ASSUME NEW n \in 1 .. Len(sg), sg[n].seg # 0  PROVE Follows(n)
      <3>1. pc # "start"  BY <2>1, <2>3 DEF SetUp
      <3>2. CASE Own  BY <2>1, <3>2 DEF OwnInv
      <3>3. CASE Bouncing
        <4>1. sg[n] = BounceEntry(n)  BY <2>1, <3>3 DEF BounceInv
        <4>2. BounceEntry(n).seg = 0  BY DEF BounceEntry
        <4> QED  BY <2>5, <4>1, <4>2, Zenon
      <3> QED  BY <2>1, <3>1, <3>2, <3>3 DEF Pts, Own, Bouncing
    <2>6. ASSUME pc \in {"copy", "bounced", "done"}  PROVE EntryPos(Len(sg) + 1) = req.start + Size
      <3>1. Len(sg) + 1 \in 1 .. Len(sg) + 1 /\ (Len(sg) + 1) - 1 = Len(sg)  BY <2>3
      <3>2. EntryPos(Len(sg) + 1) = req.start + Upto(sg, Len(sg))  BY <2>1, <2>2, <3>1, PosIs
      <3>3. Upto(sg, Len(sg)) = Size
        <4>1. CASE Own
          <5>1. pc = "done"  BY <2>6, <4>1 DEF Own
          <5>2. OwnInv /\ seg = Len(Segs) + 1 /\ Within = 0  BY <2>1, <4>1, <5>1 DEF OwnInv, Within
          <5>3. Len(Segs) \in Nat /\ Size \in Nat /\ Upto(Segs, Len(Segs)) = Size
            BY <2>1, RequestIs, SegsAddUp
          <5>4. seg - 1 = Len(Segs)  BY <5>2, <5>3
          <5>5. Mapped = Size + 0  BY <5>2, <5>3, <5>4 DEF Mapped
          <5> QED  BY <5>2, <5>3, <5>5 DEF OwnInv
        <4>2. CASE Bouncing
          <5>1. firstSize = FirstSize  BY <2>1, <2>6 DEF SetUp
          <5>2. PageEnd(PageCnt) = Size  BY <2>1, <5>1, PageCntIs
          <5>3. BounceInv /\ pc # "bounce"  BY <2>1, <2>6, <4>2
          <5> QED  BY <5>2, <5>3 DEF BounceInv
        <4> QED  BY <2>1, <2>6, <4>1, <4>2 DEF Own, Bouncing
      <3> QED  BY <3>2, <3>3
    <2> QED  BY <2>4, <2>5, <2>6, Zenon DEF ExactCover, Follows
  <1> QED  BY <1>1, Inductive, PTL

\* Each byte is copied once and to its own place, in whatever pieces the
\* segments and the bounce pages cut the request.
THEOREM CopyIsExact == Spec => []CopyExact
  <1>1. IInv => CopyExact
    <2> SUFFICES ASSUME IInv  PROVE CopyExact
      OBVIOUS
    <2> DEFINE before == [n \in 1 .. Len(copies) + 1 |-> Total(SubSeq(copies, 1, n - 1))]
    <2>1. /\ Types /\ SetUp /\ req \in Requests /\ sg \in Seq(Entries) /\ pc \in Pts
          /\ copies \in Seq(Chunks)
          /\ needBounce \in BOOLEAN /\ (Own => OwnInv) /\ (Bouncing => BounceInv /\ CopyInv)
          /\ \A n \in 1 .. Len(sg) : Whole(n)
      BY DEF IInv, Types
    <2>2. Len(copies) \in Nat /\ \A n \in 1 .. Len(copies) : copies[n] \in Chunks  BY <2>1
    <2>3. ASSUME NEW n \in 1 .. Len(copies)
          PROVE  /\ before[n] = Total(SubSeq(Segs, 1, copies[n].seg - 1)) + copies[n].from
                 /\ before[n] = EntryPos(copies[n].entry) - req.start + copies[n].to
                 /\ copies[n].to + copies[n].len <= EntryLen(copies[n].entry)
      <3> DEFINE c == copies[n]
                 E == c.entry
      <3>1. Bouncing
        <4>1. copies # <<>>  BY <2>2
        <4>2. ~Own /\ pc # "start"  BY <2>1, <4>1 DEF OwnInv, SetUp, Fresh
        <4> QED  BY <2>1, <4>2 DEF Own, Bouncing, Pts
      <3>2. Copied(n)  BY <2>1, <3>1 DEF CopyInv
      <3>3. before[n] = Upto(copies, n - 1)  BY <2>2 DEF Upto
      <3>4. /\ Upto(copies, n - 1) = Upto(Segs, c.seg - 1) + c.from
            /\ E \in 1 .. Len(sg) /\ Upto(copies, n - 1) = Upto(sg, E - 1) + c.to
            /\ c.to + c.len <= sg[E].len
        BY <3>2, Zenon DEF Copied
      <3>5. Len(sg) \in Nat /\ Upto(sg, E - 1) \in Nat /\ E \in 1 .. Len(sg) + 1 /\ E <= Len(sg)
        <4>1. Len(sg) \in Nat /\ \A k \in 0 .. Len(sg) : Upto(sg, k) \in Nat  BY <2>1, EntriesAddUp
        <4>2. E - 1 \in 0 .. Len(sg) /\ E \in 1 .. Len(sg) + 1 /\ E <= Len(sg)  BY <3>4, <4>1
        <4> QED  BY <4>1, <4>2
      <3>6. req.start \in Nat  BY <2>1, RequestIs
      <3>7. EntryPos(E) = req.start + Upto(sg, E - 1)  BY <2>1, <3>5, <3>6, PosIs, Zenon
      <3>8. EntryPos(E) - req.start = Upto(sg, E - 1)  BY <3>5, <3>6, <3>7
      <3>9. EntryLen(E) = sg[E].len  BY <3>5 DEF EntryLen
      <3> QED  BY <3>3, <3>4, <3>8, <3>9, Zenon DEF Upto
    <2>4. ASSUME pc = "bounced"  PROVE before[Len(copies) + 1] = Size
      <3>1. CopyInv  BY <2>1, <2>4 DEF Bouncing
      <3>2. Upto(copies, Len(copies)) = Size  BY <2>4, <3>1 DEF CopyInv
      <3>3. Len(copies) + 1 \in 1 .. Len(copies) + 1 /\ (Len(copies) + 1) - 1 = Len(copies)  BY <2>2
      <3>4. before[Len(copies) + 1] = Upto(copies, Len(copies))  BY <3>3 DEF Upto
      <3> QED  BY <3>2, <3>4
    <2> QED  BY <2>3, <2>4, Zenon DEF CopyExact
  <1> QED  BY <1>1, Inductive, PTL

\* What the device is given of a bio starts and ends at eight bytes, or the
\* bio is marked as having a hole: bouncing does what it is for.
THEOREM EntriesAreAligned == Spec => []AlignedOrHole
  <1>1. IInv => AlignedOrHole  BY Zenon DEF IInv, Whole, Straight, AlignedOrHole
  <1> QED  BY <1>1, Inductive, PTL

\* Every bounce page the table names is allocated until the bio leaves, and
\* then all are freed, a failed allocation's too, or, when the core rejects
\* the bio or shannon_make_request_ns gives it up, all are left.
THEOREM AllPagesReturned == Spec => []BouncePagesReturned
  <1>1. IInv => BouncePagesReturned
    <2> SUFFICES ASSUME IInv  PROVE BouncePagesReturned
      OBVIOUS
    <2>1. /\ SetUp /\ req \in Requests /\ sg \in Seq(Entries) /\ needBounce \in BOOLEAN
          /\ (Own => OwnInv) /\ (Bouncing => BounceInv)
      BY DEF IInv, Types
    <2>2. ASSUME pc \in {"bounce", "copy", "bounced", "rejected"}
          PROVE  {sg[n].pg : n \in 1 .. Len(sg)} = live
      <3>1. BounceInv /\ firstSize = FirstSize /\ pc # "done"  BY <2>1, <2>2 DEF Bouncing, SetUp
      <3> QED  BY <2>1, <3>1, BouncePages
    <2>3. ASSUME pc \in {"segment", "split", "done"}  PROVE live = {}
      <3>1. CASE Own  BY <2>1, <3>1 DEF OwnInv
      <3>2. CASE Bouncing
        <4>1. pc = "done" /\ BounceInv  BY <2>1, <2>3, <3>2 DEF Bouncing
        <4> QED  BY <4>1 DEF BounceInv
      <3> QED  BY <2>1, <2>3, <3>1, <3>2 DEF Own, Bouncing
    <2> QED  BY <2>2, <2>3 DEF BouncePagesReturned
  <1> QED  BY <1>1, Inductive, PTL
=============================================================================
