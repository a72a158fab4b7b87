--------------------------- MODULE RwMemMapsLemmas ---------------------------
(***************************************************************************)
(* Facts about the operators of RwMemMaps, for every size of a byte, chunk *)
(* and area: the arithmetic of bitmaps, and what the loop that joins the   *)
(* pages of a bitmap computes.  The loop is a recursive function; what it  *)
(* computes is proved by the least-number principle, from a smallest       *)
(* counterexample.                                                         *)
(***************************************************************************)
EXTENDS RwMemMaps, NatLemmas, SequenceTheorems, TLAPS

-----------------------------------------------------------------------------
(* Arithmetic.                                                             *)

\* The bytes of a bitmap of n pages have room for them, and none is unused.
LEMMA BytesCover ==
    ASSUME NEW n \in Nat
    PROVE  /\ Bytes(n) \in Nat
           /\ n <= Bytes(n) * ByteBits
           /\ Bytes(n) * ByteBits < n + ByteBits
<1>1. ByteBits \in Nat /\ ByteBits > 0
  BY SizesAssumption
<1> DEFINE m == n + (ByteBits - 1)
<1>2. m \in Nat
  BY <1>1
<1> HIDE DEF m
<1>3. /\ m \div ByteBits \in Nat
      /\ m % ByteBits \in 0..(ByteBits - 1)
      /\ m = (m \div ByteBits) * ByteBits + (m % ByteBits)
  BY <1>1, <1>2
<1>4. (m \div ByteBits) * ByteBits \in Nat
  BY <1>1, <1>3
<1> QED  BY <1>1, <1>2, <1>3, <1>4 DEF m, Bytes

\* Factors are monotone.
LEMMA Scale ==
    ASSUME NEW x \in Nat, NEW y \in Nat, x <= y
    PROVE  x * ByteBits <= y * ByteBits /\ x * ByteBits \in Nat
<1>1. ByteBits \in Nat
  BY SizesAssumption
<1>2. y - x \in Nat /\ y = x + (y - x)
  OBVIOUS
<1>3. y * ByteBits = x * ByteBits + (y - x) * ByteBits
  BY <1>1, <1>2
<1>4. (y - x) * ByteBits \in Nat /\ x * ByteBits \in Nat
  BY <1>1, <1>2
<1> QED  BY <1>1, <1>3, <1>4

\* A bitmap with whole bytes in front.
LEMMA BytesBehind ==
    ASSUME NEW q \in Nat, NEW n \in Nat
    PROVE  Bytes(q * ByteBits + n) = q + Bytes(n)
<1>1. ByteBits \in Nat /\ ByteBits > 0 /\ q * ByteBits \in Nat
  BY SizesAssumption
<1> DEFINE w == q * ByteBits + n
           x == Bytes(w)
           y == Bytes(n)
<1>2. x \in Nat /\ q * ByteBits + n <= x * ByteBits /\ x * ByteBits < q * ByteBits + n + ByteBits
  <2>1. w \in Nat
    BY <1>1
  <2>2. x \in Nat /\ w <= x * ByteBits /\ x * ByteBits < w + ByteBits
    <3> HIDE DEF w
    <3> QED  BY <2>1, BytesCover
  <2> HIDE DEF x
  <2> QED  BY <2>2
<1>3. y \in Nat /\ n <= y * ByteBits /\ y * ByteBits < n + ByteBits
  BY BytesCover
<1> HIDE DEF x, y
<1>4. (q + y) * ByteBits = q * ByteBits + y * ByteBits /\ y * ByteBits \in Nat /\ x * ByteBits \in Nat
  BY <1>1, <1>2, <1>3
<1>5. ASSUME x < q + y  PROVE FALSE
  <2>1. (x + 1) * ByteBits <= (q + y) * ByteBits
    BY <1>2, <1>3, <1>5, Scale
  <2>2. (x + 1) * ByteBits = x * ByteBits + ByteBits
    BY <1>1, <1>2
  <2> QED  BY <1>1, <1>2, <1>3, <1>4, <2>1, <2>2
<1>6. ASSUME q + y < x  PROVE FALSE
  <2>1. (q + y + 1) * ByteBits <= x * ByteBits
    BY <1>2, <1>3, <1>6, Scale
  <2>2. (q + y + 1) * ByteBits = (q + y) * ByteBits + ByteBits
    BY <1>1, <1>3
  <2> QED  BY <1>1, <1>2, <1>3, <1>4, <2>1, <2>2
<1> QED  BY <1>2, <1>3, <1>5, <1>6 DEF x, y

-----------------------------------------------------------------------------
(* The loop that joins pages.                                              *)

JoinInit == [on |-> FALSE, begin |-> 0, runs |-> <<>>]

\* The recursive function of Joined exists, so that its equation holds.
LEMMA JoinedDef ==
    ASSUME NEW a, Size(a) \in Nat, NEW bit
    PROVE  Joined(a, bit) =
             [j \in 0..Size(a) |-> IF j = 0 THEN JoinInit ELSE Join(a, bit, Joined(a, bit)[j - 1], j)]
<1> DEFINE N == Size(a)
           Solves(g, n) == g = [j \in 0..n |-> IF j = 0 THEN JoinInit ELSE Join(a, bit, g[j - 1], j)]
           T == {n \in 0..N : ~ \E g : Solves(g, n)}
<1>1. T = {}
  <2> SUFFICES ASSUME T # {} PROVE FALSE
    OBVIOUS
  <2>1. PICK n \in T : \A m \in T : n <= m
    <3>1. T \in SUBSET Nat
      OBVIOUS
    <3> HIDE DEF T
    <3> QED  BY <3>1, LeastNat
  <2>2. CASE n = 0
    <3>1. Solves([j \in 0..0 |-> JoinInit], 0)
      OBVIOUS
    <3> QED  BY <2>1, <2>2, <3>1
  <2>3. CASE n # 0
    <3>1. n \in 1..N /\ n - 1 \in 0..N /\ n - 1 \notin T
      BY <2>1, <2>3
    <3>2. PICK g : Solves(g, n - 1)
      BY <3>1
    <3> DEFINE h == [j \in 0..n |-> IF j = n THEN Join(a, bit, g[n - 1], n) ELSE g[j]]
    <3>3. \A j \in 0..n : h[j] = IF j = 0 THEN JoinInit ELSE Join(a, bit, h[j - 1], j)
      <4> TAKE j \in 0..n
      <4>1. CASE j = n
        <5>1. h[j - 1] = g[n - 1] /\ h[j] = Join(a, bit, g[n - 1], n)
          BY <4>1, <3>1
        <5> QED  BY <5>1, <4>1, <3>1
      <4>2. CASE j # n
        <5>1. j \in 0..(n - 1) /\ h[j] = g[j] /\ (j # 0 => h[j - 1] = g[j - 1])
          BY <4>2, <3>1
        <5>2. g[j] = IF j = 0 THEN JoinInit ELSE Join(a, bit, g[j - 1], j)
          <6> HIDE DEF h
          <6> QED  BY <3>2, <5>1
        <5> QED  BY <5>1, <5>2
      <4> QED  BY <4>1, <4>2
    <3>4. Solves(h, n)
      <4>1. h = [j \in 0..n |-> h[j]]
        OBVIOUS
      <4> HIDE DEF h
      <4> QED  BY <3>3, <4>1
    <3> QED  BY <2>1, <3>4
  <2> QED  BY <2>2, <2>3
<1>2. \E g : Solves(g, N)
  BY <1>1
<1> QED  BY <1>2 DEF Joined, JoinInit

\* x to y - 1 is a maximal run of pages of F, which are pages of area a.
IsRun(a, F, x, y) ==
    /\ x \in Nat /\ y \in Nat /\ a.start <= x /\ x < y /\ y <= a.end
    /\ x..(y - 1) \subseteq F
    /\ x - 1 \notin F /\ y \notin F

\* The invariant of the loop: after j pages of area a, of which those of F have
\* their bit set, b.runs are the maximal runs that have ended.
JoinOK(a, F, b, j) ==
    /\ b \in [on : BOOLEAN, begin : Nat, runs : Seq(Areas)]
    /\ \A n \in DOMAIN b.runs :
           /\ b.runs[n] = Region(a, b.runs[n].start, b.runs[n].end)
           /\ IsRun(a, F, b.runs[n].start, b.runs[n].end)
           /\ b.runs[n].end < a.start + j
    /\ \A m, n \in DOMAIN b.runs : m < n => b.runs[m].end <= b.runs[n].start
    /\ b.on => /\ a.start <= b.begin /\ b.begin < a.start + j
               /\ b.begin..(a.start + j - 1) \subseteq F
               /\ b.begin - 1 \notin F
               /\ \A n \in DOMAIN b.runs : b.runs[n].end <= b.begin
    /\ ~ b.on => a.start + j - 1 \notin F
    /\ \A p \in F : p < a.start + j =>
           (b.on /\ b.begin <= p) \/ \E n \in DOMAIN b.runs : p \in PagesOf(b.runs[n])

\* Areas with the same fields are equal.
LEMMA AreaEqual ==
    ASSUME NEW a \in Areas, NEW b \in Areas,
           a.start = b.start, a.end = b.end, a.flags = b.flags
    PROVE  a = b
  BY DEF Areas

\* A region of an area is an area, however it is written.
LEMMA RegionIs ==
    ASSUME NEW a \in Areas, NEW x \in 0..NPages, NEW y \in 0..NPages
    PROVE  /\ Region(a, x, y) \in Areas
           /\ Region(a, x, y).start = x /\ Region(a, x, y).end = y
           /\ Region(a, x, y).flags = a.flags
  BY DEF Areas, Region

\* The run that is open at the end of an area, as Runs writes it.
LEMMA LastRegion ==
    ASSUME NEW a \in Areas, NEW x \in 0..NPages
    PROVE  [a EXCEPT !.start = x] = Region(a, x, a.end)
<1> DEFINE r == [a EXCEPT !.start = x]
<1>1. r \in Areas /\ r.start = x /\ r.end = a.end /\ r.flags = a.flags
  BY DEF Areas
<1>2. a.end \in 0..NPages
  BY DEF Areas
<1> DEFINE q == Region(a, x, a.end)
<1>3. q \in Areas /\ q.start = x /\ q.end = a.end /\ q.flags = a.flags
  BY <1>2, RegionIs
<1>4. r = q
  <2> HIDE DEF r, q
  <2> QED  BY <1>1, <1>3, AreaEqual
<1> QED  BY <1>4

\* A round of the loop keeps the invariant.
LEMMA JoinStep ==
    ASSUME NEW a \in Areas, NEW F \in SUBSET PagesOf(a), NEW bit, NEW b,
           NEW j \in 1..Size(a),
           (bit[j - 1] # "no") <=> a.start + j - 1 \in F,
           JoinOK(a, F, b, j - 1)
    PROVE  JoinOK(a, F, Join(a, bit, b, j), j)
<1> DEFINE p == a.start + j - 1
           c == Join(a, bit, b, j)
<1>1. /\ a.start \in Nat /\ a.end \in Nat /\ j \in Nat /\ p \in Nat /\ a.start <= p /\ p < a.end
      /\ a.end <= NPages /\ NPages \in Nat /\ F \subseteq Nat
  BY SizesAssumption DEF Areas, Size, PagesOf
<1>2. b \in [on : BOOLEAN, begin : Nat, runs : Seq(Areas)]
  BY DEF JoinOK
<1>3. CASE p \in F /\ ~ b.on
  <2>1. c = [b EXCEPT !.on = TRUE, !.begin = p]
    BY <1>3 DEF Join
  <2>2. c.on = TRUE /\ c.begin = p /\ c.runs = b.runs /\ c \in [on : BOOLEAN, begin : Nat, runs : Seq(Areas)]
    BY <2>1, <1>2, <1>1
  <2> HIDE DEF c
  <2>3. \A n \in DOMAIN b.runs : b.runs[n].end <= p /\ b.runs[n].end < a.start + j
    BY <1>1, <1>2 DEF JoinOK, IsRun
  <2>4. p - 1 \notin F
    BY <1>1, <1>3 DEF JoinOK
  <2>5. \A q \in F : q < a.start + j => p <= q \/ \E n \in DOMAIN b.runs : q \in PagesOf(b.runs[n])
    BY <1>1, <1>3 DEF JoinOK
  <2>6. p..(a.start + j - 1) \subseteq F
    BY <1>1, <1>3
  <2>7. JoinOK(a, F, c, j)
    BY <1>1, <2>2, <2>3, <2>4, <2>5, <2>6 DEF JoinOK
  <2> QED  BY <2>7 DEF c
<1>4. CASE p \notin F /\ b.on
  <2> DEFINE r == Region(a, b.begin, p)
  <2>1. c = [b EXCEPT !.on = FALSE, !.runs = Append(@, r)]
    BY <1>4, <1>2 DEF Join
  <2>2. /\ a.start <= b.begin /\ b.begin < p /\ b.begin \in Nat /\ b.begin..(p - 1) \subseteq F
        /\ b.begin - 1 \notin F
    BY <1>1, <1>2, <1>4 DEF JoinOK
  <2>3. r \in Areas /\ r.start = b.begin /\ r.end = p /\ r = Region(a, r.start, r.end)
    <3>1. b.begin \in 0..NPages /\ p \in 0..NPages
      BY <2>2, <1>1
    <3> HIDE DEF p
    <3>2. r \in Areas /\ r.start = b.begin /\ r.end = p
      BY <3>1, RegionIs
    <3> QED  BY <3>2
  <2> HIDE DEF r
  <2> HIDE DEF c
  <2>4. c.on = FALSE /\ c.runs = Append(b.runs, r) /\ c \in [on : BOOLEAN, begin : Nat, runs : Seq(Areas)]
    <3>1. Append(b.runs, r) \in Seq(Areas)
      BY <2>3, <1>2
    <3>2. c = [b EXCEPT !.on = FALSE, !.runs = Append(b.runs, r)]
      BY <2>1, <1>2
    <3> DEFINE w == Append(b.runs, r)
    <3> HIDE DEF w
    <3>3. w \in Seq(Areas) /\ c = [b EXCEPT !.on = FALSE, !.runs = w]
      BY <3>1, <3>2 DEF w
    <3>4. c.on = FALSE /\ c.runs = w /\ c \in [on : BOOLEAN, begin : Nat, runs : Seq(Areas)]
      BY <3>3, <1>2
    <3> QED  BY <3>4 DEF w
  <2> HIDE DEF c
  <2>5. /\ DOMAIN c.runs = DOMAIN b.runs \cup {Len(b.runs) + 1}
        /\ \A n \in DOMAIN b.runs : c.runs[n] = b.runs[n] /\ n \in 1..Len(b.runs)
        /\ c.runs[Len(b.runs) + 1] = r
        /\ Len(b.runs) \in Nat
    BY <2>3, <2>4, <1>2
  <2>6. IsRun(a, F, r.start, r.end)
    BY <1>1, <1>4, <2>2, <2>3 DEF IsRun
  <2>7. \A n \in DOMAIN c.runs :
           /\ c.runs[n] = Region(a, c.runs[n].start, c.runs[n].end)
           /\ IsRun(a, F, c.runs[n].start, c.runs[n].end)
           /\ c.runs[n].end < a.start + j
    <3> TAKE n \in DOMAIN c.runs
    <3>1. CASE n \in DOMAIN b.runs
      <4>1. c.runs[n] = b.runs[n]
        BY <3>1, <2>5
      <4>2. /\ b.runs[n] = Region(a, b.runs[n].start, b.runs[n].end)
            /\ IsRun(a, F, b.runs[n].start, b.runs[n].end)
            /\ b.runs[n].end < a.start + (j - 1)
        BY <3>1 DEF JoinOK
      <4>3. b.runs[n].end \in Nat
        BY <4>2 DEF IsRun
      <4> QED  BY <1>1, <4>1, <4>2, <4>3
    <3>2. CASE n = Len(b.runs) + 1
      BY <3>2, <2>5, <2>3, <2>6, <1>1
    <3> QED  BY <3>1, <3>2, <2>5
  <2>8. \A m, n \in DOMAIN c.runs : m < n => c.runs[m].end <= c.runs[n].start
    <3> TAKE m, n \in DOMAIN c.runs
    <3> HAVE m < n
    <3>1. m \in DOMAIN b.runs
      BY <2>5
    <3>2. CASE n \in DOMAIN b.runs
      BY <2>5, <3>1, <3>2 DEF JoinOK
    <3>3. CASE n = Len(b.runs) + 1
      <4>1. b.runs[m].end <= b.begin
        BY <1>4, <3>1 DEF JoinOK
      <4> QED  BY <2>5, <3>1, <3>3, <2>3, <4>1
    <3> QED  BY <2>5, <3>2, <3>3
  <2>9. \A q \in F : q < a.start + j => \E n \in DOMAIN c.runs : q \in PagesOf(c.runs[n])
    <3> TAKE q \in F
    <3> HAVE q < a.start + j
    <3>1. q \in Nat /\ q < a.start + (j - 1)
      BY <1>1, <1>4
    <3>2. CASE b.begin <= q
      <4>1. q \in PagesOf(r)
        BY <1>1, <2>3, <3>1, <3>2, <2>2 DEF PagesOf
      <4> QED  BY <4>1, <2>5
    <3>3. CASE \E n \in DOMAIN b.runs : q \in PagesOf(b.runs[n])
      BY <3>3, <2>5
    <3> QED  BY <3>1, <3>2, <3>3 DEF JoinOK
  <2>10. a.start + j - 1 \notin F
    BY <1>4
  <2>11. JoinOK(a, F, c, j)
    BY <2>4, <2>7, <2>8, <2>9, <2>10 DEF JoinOK
  <2> QED  BY <2>11 DEF c
<1>5. CASE (p \in F) <=> b.on
  <2>1. c = b
    BY <1>5, <1>2 DEF Join
  <2> HIDE DEF c
  <2>2. \A n \in DOMAIN b.runs :
           /\ b.runs[n] = Region(a, b.runs[n].start, b.runs[n].end)
           /\ IsRun(a, F, b.runs[n].start, b.runs[n].end)
           /\ b.runs[n].end < a.start + j
    BY <1>1 DEF JoinOK, IsRun
  <2>3. b.on => /\ a.start <= b.begin /\ b.begin < a.start + j
                /\ b.begin..(a.start + j - 1) \subseteq F
                /\ b.begin - 1 \notin F
                /\ \A n \in DOMAIN b.runs : b.runs[n].end <= b.begin
    <3> HAVE b.on
    <3>1. b.begin..(a.start + j - 1) \subseteq b.begin..(a.start + (j - 1) - 1) \cup {p}
      BY <1>1, <1>2
    <3> QED  BY <1>1, <1>2, <1>5, <3>1 DEF JoinOK
  <2>4. ~ b.on => a.start + j - 1 \notin F
    BY <1>5
  <2>5. \A q \in F : q < a.start + j =>
           (b.on /\ b.begin <= q) \/ \E n \in DOMAIN b.runs : q \in PagesOf(b.runs[n])
    <3> TAKE q \in F
    <3> HAVE q < a.start + j
    <3>1. CASE q = p
      BY <3>1, <1>5, <1>1, <1>2, <2>3
    <3>2. CASE q # p
      BY <3>2, <1>1 DEF JoinOK
    <3> QED  BY <3>1, <3>2
  <2>6. \A m, n \in DOMAIN b.runs : m < n => b.runs[m].end <= b.runs[n].start
    BY DEF JoinOK
  <2>7. JoinOK(a, F, c, j)
    BY <1>2, <2>1, <2>2, <2>3, <2>4, <2>5, <2>6 DEF JoinOK
  <2> QED  BY <2>7 DEF c
<1> QED  BY <1>3, <1>4, <1>5, <1>2

\* The maximal runs of pages of area a that are in F.
RunsOf(a, F) ==
    {r \in Areas : r = Region(a, r.start, r.end) /\ IsRun(a, F, r.start, r.end)}

\* The pages of area a whose bit is set.
FoundIn(a, bit) == {p \in PagesOf(a) : bit[p - a.start] # "no"}

\* After every page of the area the invariant of the loop holds.
LEMMA JoinedOK ==
    ASSUME NEW a \in Areas, Size(a) \in Nat, NEW bit
    PROVE  \A j \in 0..Size(a) : JoinOK(a, FoundIn(a, bit), Joined(a, bit)[j], j)
<1> DEFINE F == FoundIn(a, bit)
           f == Joined(a, bit)
           T == {j \in 0..Size(a) : ~ JoinOK(a, F, f[j], j)}
<1>1. \A j \in 0..Size(a) : f[j] = IF j = 0 THEN JoinInit ELSE Join(a, bit, f[j - 1], j)
  <2>1. f = [j \in 0..Size(a) |-> IF j = 0 THEN JoinInit ELSE Join(a, bit, f[j - 1], j)]
    BY JoinedDef
  <2> HIDE DEF f
  <2> QED  BY <2>1
<1>2. F \subseteq PagesOf(a) /\ a.start \in Nat /\ a.end \in Nat /\ F \subseteq Nat
  BY DEF FoundIn, PagesOf, Areas
<1> HIDE DEF f
<1> SUFFICES ASSUME T # {}  PROVE FALSE
  BY DEF f
<1>3. PICK n \in T : \A m \in T : n <= m
  <2>1. T \in SUBSET Nat
    OBVIOUS
  <2> HIDE DEF T
  <2> QED  BY <2>1, LeastNat
<1>4. CASE n = 0
  <2>1. f[0] = JoinInit
    BY <1>1, <1>4, <1>3
  <2>2. JoinInit \in [on : BOOLEAN, begin : Nat, runs : Seq(Areas)] /\ JoinInit.on = FALSE /\ JoinInit.runs = <<>>
    BY DEF JoinInit
  <2>3. \A p \in F : a.start <= p
    BY <1>2 DEF FoundIn, PagesOf
  <2>4. JoinOK(a, F, JoinInit, 0)
    <3>1. DOMAIN JoinInit.runs = {}
      BY <2>2
    <3>2. a.start + 0 - 1 \notin F /\ \A p \in F : ~ (p < a.start + 0)
      BY <2>3, <1>2
    <3> HIDE DEF F
    <3> QED  BY <2>2, <3>1, <3>2 DEF JoinOK
  <2> QED  BY <1>3, <1>4, <2>1, <2>4
<1>5. CASE n # 0
  <2>1. n \in 1..Size(a) /\ n - 1 \in 0..Size(a) /\ n - 1 \notin T
    BY <1>3, <1>5
  <2>2. JoinOK(a, F, f[n - 1], n - 1) /\ f[n] = Join(a, bit, f[n - 1], n)
    BY <2>1, <1>1
  <2>3. (bit[n - 1] # "no") <=> a.start + n - 1 \in F
    <3>1. a.start + n - 1 \in PagesOf(a) /\ (a.start + n - 1) - a.start = n - 1
      BY <2>1, <1>2 DEF PagesOf, Size
    <3> QED  BY <3>1 DEF FoundIn
  <2>4. JoinOK(a, F, f[n], n)
    <3> HIDE DEF F
    <3> QED  BY <2>1, <2>2, <2>3, <1>2, JoinStep
  <2> QED  BY <1>3, <2>4
<1> QED  BY <1>4, <1>5

\* What the clients make of a bitmap: ascending regions, exactly the maximal
\* runs of the pages whose bit is set, which cover those pages.
LEMMA RunsCorrect ==
    ASSUME NEW a \in Areas, a.start < a.end, NEW bit
    PROVE  LET rs == Runs(a, bit)
               F  == FoundIn(a, bit)
           IN  /\ rs \in Seq(Areas)
               /\ \A n \in DOMAIN rs : rs[n] \in RunsOf(a, F)
               /\ \A m, n \in DOMAIN rs : m < n => rs[m].end <= rs[n].start
               /\ \A p \in F : \E n \in DOMAIN rs : p \in PagesOf(rs[n])
<1> DEFINE rs == Runs(a, bit)
           F  == FoundIn(a, bit)
           N  == Size(a)
           b  == Joined(a, bit)[N]
<1>1. a.start \in Nat /\ a.end \in Nat /\ a.end <= NPages /\ N \in Nat /\ a.start + N = a.end /\ NPages \in Nat
  BY SizesAssumption DEF Areas, Size
<1>2. JoinOK(a, F, b, N)
  BY <1>1, JoinedOK
<1>3. rs = IF b.on THEN Append(b.runs, [a EXCEPT !.start = b.begin]) ELSE b.runs
  BY DEF Runs
<1>4. \A p \in F : p \in Nat /\ a.start <= p /\ p < a.end
  BY <1>1 DEF FoundIn, PagesOf
<1> HIDE DEF rs, F, b, N
<1>5. b \in [on : BOOLEAN, begin : Nat, runs : Seq(Areas)]
  BY <1>2 DEF JoinOK
<1>6. \A n \in DOMAIN b.runs : b.runs[n] \in RunsOf(a, F)
  BY <1>2, <1>5 DEF JoinOK, RunsOf
<1>7. \A m, n \in DOMAIN b.runs : m < n => b.runs[m].end <= b.runs[n].start
  BY <1>2 DEF JoinOK
<1>8. CASE b.on
  <2> DEFINE r == Region(a, b.begin, a.end)
  <2>1. /\ a.start <= b.begin /\ b.begin < a.end /\ b.begin \in Nat /\ b.begin..(a.end - 1) \subseteq F
        /\ b.begin - 1 \notin F /\ a.end \notin F
        /\ \A n \in DOMAIN b.runs : b.runs[n].end <= b.begin
    BY <1>1, <1>2, <1>4, <1>5, <1>8 DEF JoinOK
  <2>2. rs = Append(b.runs, r)
    <3>1. b.begin \in 0..NPages
      BY <2>1, <1>1
    <3>2. [a EXCEPT !.start = b.begin] = r
      BY <3>1, LastRegion
    <3> QED  BY <3>2, <1>3, <1>8
  <2>3. r \in Areas /\ r.start = b.begin /\ r.end = a.end /\ r = Region(a, r.start, r.end)
    <3>1. b.begin \in 0..NPages /\ a.end \in 0..NPages
      BY <2>1, <1>1
    <3>2. r \in Areas /\ r.start = b.begin /\ r.end = a.end
      BY <3>1, RegionIs
    <3> QED  BY <3>2
  <2> HIDE DEF r
  <2>4. r \in RunsOf(a, F)
    BY <2>1, <2>3, <1>1 DEF RunsOf, IsRun
  <2>5. /\ rs \in Seq(Areas)
        /\ DOMAIN rs = DOMAIN b.runs \cup {Len(b.runs) + 1}
        /\ \A n \in DOMAIN b.runs : rs[n] = b.runs[n] /\ n \in 1..Len(b.runs)
        /\ rs[Len(b.runs) + 1] = r
        /\ Len(b.runs) \in Nat
    BY <2>2, <2>3, <1>5
  <2>6. \A n \in DOMAIN rs : rs[n] \in RunsOf(a, F)
    BY <2>4, <2>5, <1>6
  <2>7. \A m, n \in DOMAIN rs : m < n => rs[m].end <= rs[n].start
    <3> TAKE m, n \in DOMAIN rs
    <3> HAVE m < n
    <3>1. m \in DOMAIN b.runs
      BY <2>5
    <3>2. CASE n \in DOMAIN b.runs
      BY <2>5, <3>1, <3>2, <1>7
    <3>3. CASE n = Len(b.runs) + 1
      BY <2>5, <3>1, <3>3, <2>3, <2>1
    <3> QED  BY <2>5, <3>2, <3>3
  <2>8. \A p \in F : \E n \in DOMAIN rs : p \in PagesOf(rs[n])
    <3> TAKE p \in F
    <3>1. CASE b.begin <= p
      <4>1. p \in PagesOf(r)
        BY <2>3, <3>1, <1>4, <1>1, <2>1 DEF PagesOf
      <4> QED  BY <4>1, <2>5
    <3>2. CASE \E n \in DOMAIN b.runs : p \in PagesOf(b.runs[n])
      BY <3>2, <2>5
    <3>3. p < a.start + N
      BY <1>1, <1>4
    <3> QED  BY <3>1, <3>2, <3>3, <1>2, <1>8 DEF JoinOK
  <2> QED  BY <2>5, <2>6, <2>7, <2>8 DEF rs, F
<1>9. CASE ~ b.on
  <2>1. rs = b.runs
    BY <1>3, <1>9
  <2>2. \A p \in F : \E n \in DOMAIN b.runs : p \in PagesOf(b.runs[n])
    BY <1>1, <1>2, <1>4, <1>9 DEF JoinOK
  <2>3. rs \in Seq(Areas)
    BY <2>1, <1>5
  <2> QED  BY <2>1, <2>2, <2>3, <1>6, <1>7 DEF rs, F
<1> QED  BY <1>8, <1>9, <1>5

\* A maximal run that holds a page is the only one that does.
LEMMA RunUnique ==
    ASSUME NEW a \in Areas, NEW F \in SUBSET PagesOf(a),
           NEW r \in RunsOf(a, F), NEW s \in RunsOf(a, F), NEW p \in Nat,
           p \in PagesOf(r), p \in PagesOf(s)
    PROVE  r = s
<1>1. /\ r = Region(a, r.start, r.end) /\ IsRun(a, F, r.start, r.end)
      /\ s = Region(a, s.start, s.end) /\ IsRun(a, F, s.start, s.end)
  BY DEF RunsOf
<1>2. r.start = s.start
  BY <1>1 DEF IsRun, PagesOf
<1>3. r.end = s.end
  BY <1>1 DEF IsRun, PagesOf
<1> QED  BY <1>1, <1>2, <1>3

\* The regions of a bitmap are all the maximal runs of the pages that are set.
LEMMA RunsAll ==
    ASSUME NEW a \in Areas, a.start < a.end, NEW bit
    PROVE  LET rs == Runs(a, bit)
           IN  {rs[n] : n \in DOMAIN rs} = RunsOf(a, FoundIn(a, bit))
<1> DEFINE rs == Runs(a, bit)
           F  == FoundIn(a, bit)
<1>1. /\ rs \in Seq(Areas)
      /\ \A n \in DOMAIN rs : rs[n] \in RunsOf(a, F)
      /\ \A p \in F : \E n \in DOMAIN rs : p \in PagesOf(rs[n])
  BY RunsCorrect
<1>2. F \in SUBSET PagesOf(a)
  BY DEF FoundIn
<1> HIDE DEF rs, F
<1>3. ASSUME NEW r \in RunsOf(a, F)
      PROVE  \E n \in DOMAIN rs : r = rs[n]
  <2>1. r.start \in Nat /\ r.start \in F /\ r.start \in PagesOf(r)
    BY <1>3 DEF RunsOf, IsRun, PagesOf
  <2>2. PICK n \in DOMAIN rs : r.start \in PagesOf(rs[n])
    BY <1>1, <2>1
  <2>3. rs[n] \in RunsOf(a, F)
    BY <1>1
  <2> QED  BY <1>2, <2>1, <2>2, <2>3, RunUnique
<1> QED  BY <1>1, <1>3 DEF rs, F

-----------------------------------------------------------------------------
(* The loop of VirtualQueryExFull.                                         *)

\* The recursive function of Report exists, so that its equation holds.
LEMMA ReportDef ==
    ASSUME NEW l, Len(l) \in Nat, NEW noshared
    PROVE  Report(l, noshared) =
             [j \in 0..Len(l) |->
                IF j = 0 THEN <<>>
                ELSE IF Reported(l[j], noshared) THEN Append(Report(l, noshared)[j - 1], l[j])
                                                 ELSE Report(l, noshared)[j - 1]]
<1> DEFINE N == Len(l)
           Step(b, j) == IF Reported(l[j], noshared) THEN Append(b, l[j]) ELSE b
           Solves(g, n) == g = [j \in 0..n |-> IF j = 0 THEN <<>> ELSE Step(g[j - 1], j)]
           T == {n \in 0..N : ~ \E g : Solves(g, n)}
<1>1. T = {}
  <2> SUFFICES ASSUME T # {} PROVE FALSE
    OBVIOUS
  <2> HIDE DEF Step
  <2>1. PICK n \in T : \A m \in T : n <= m
    <3>1. T \in SUBSET Nat
      OBVIOUS
    <3> HIDE DEF T
    <3> QED  BY <3>1, LeastNat
  <2>2. CASE n = 0
    <3>1. Solves([j \in 0..0 |-> <<>>], 0)
      OBVIOUS
    <3> QED  BY <2>1, <2>2, <3>1
  <2>3. CASE n # 0
    <3>1. n \in 1..N /\ n - 1 \in 0..N /\ n - 1 \notin T
      BY <2>1, <2>3
    <3>2. PICK g : Solves(g, n - 1)
      BY <3>1
    <3> DEFINE h == [j \in 0..n |-> IF j = n THEN Step(g[n - 1], n) ELSE g[j]]
    <3>3. \A j \in 0..n : h[j] = IF j = 0 THEN <<>> ELSE Step(h[j - 1], j)
      <4> TAKE j \in 0..n
      <4>1. CASE j = n
        <5>1. h[j - 1] = g[n - 1] /\ h[j] = Step(g[n - 1], n)
          BY <4>1, <3>1
        <5> QED  BY <5>1, <4>1, <3>1
      <4>2. CASE j # n
        <5>1. j \in 0..(n - 1) /\ h[j] = g[j] /\ (j # 0 => h[j - 1] = g[j - 1])
          BY <4>2, <3>1
        <5>2. g[j] = IF j = 0 THEN <<>> ELSE Step(g[j - 1], j)
          <6> HIDE DEF h
          <6> QED  BY <3>2, <5>1
        <5> QED  BY <5>1, <5>2
      <4> QED  BY <4>1, <4>2
    <3>4. Solves(h, n)
      <4>1. h = [j \in 0..n |-> h[j]]
        OBVIOUS
      <4> HIDE DEF h
      <4> QED  BY <3>3, <4>1
    <3> QED  BY <2>1, <3>4
  <2> QED  BY <2>2, <2>3
<1>2. \E g : Solves(g, N)
  BY <1>1
<1> QED  BY <1>2 DEF Report

\* The pages of a list that grows by a region.
LEMMA AppendPages ==
    ASSUME NEW s \in Seq(Areas), NEW a \in Areas
    PROVE  MapPages(Append(s, a)) = MapPages(s) \cup PagesOf(a)
<1>1. /\ DOMAIN Append(s, a) = DOMAIN s \cup {Len(s) + 1}
      /\ \A j \in DOMAIN s : Append(s, a)[j] = s[j]
      /\ Append(s, a)[Len(s) + 1] = a
  OBVIOUS
<1> DEFINE t == Append(s, a)
<1> HIDE DEF t
<1>2. ASSUME NEW p \in MapPages(t)  PROVE p \in MapPages(s) \cup PagesOf(a)
  <2>1. PICK j \in DOMAIN t : p \in PagesOf(t[j])
    BY <1>2 DEF MapPages
  <2>2. (j \in DOMAIN s /\ t[j] = s[j]) \/ t[j] = a
    BY <1>1 DEF t
  <2> QED  BY <2>1, <2>2 DEF MapPages
<1>3. ASSUME NEW p \in MapPages(s) \cup PagesOf(a)  PROVE p \in MapPages(t)
  <2>1. CASE p \in MapPages(s)
    <3>1. PICK j \in DOMAIN s : p \in PagesOf(s[j])
      BY <2>1 DEF MapPages
    <3>2. j \in DOMAIN t /\ t[j] = s[j]
      BY <1>1 DEF t
    <3> QED  BY <3>1, <3>2 DEF MapPages
  <2>2. CASE p \in PagesOf(a)
    <3>1. Len(s) + 1 \in DOMAIN t /\ t[Len(s) + 1] = a
      BY <1>1 DEF t
    <3> QED  BY <2>2, <3>1 DEF MapPages
  <2> QED  BY <2>1, <2>2
<1> QED  BY <1>2, <1>3 DEF t

\* VirtualQueryExFull gives the pages of the regions that it does not leave out.
LEMMA ReportPages ==
    ASSUME NEW l \in Seq(Areas), NEW noshared
    PROVE  \A p : p \in MapPages(VirtualQueryExFull(l, noshared)) <=>
                      \E n \in DOMAIN l : p \in PagesOf(l[n]) /\ Reported(l[n], noshared)
<1> DEFINE f == Report(l, noshared)
           Good(j) == /\ f[j] \in Seq(Areas)
                      /\ \A p : p \in MapPages(f[j]) <=>
                             \E n \in 1..j : p \in PagesOf(l[n]) /\ Reported(l[n], noshared)
           T == {j \in 0..Len(l) : ~ Good(j)}
<1>1. Len(l) \in Nat /\ DOMAIN l = 1..Len(l) /\ \A n \in DOMAIN l : l[n] \in Areas
  OBVIOUS
<1>2. \A j \in 0..Len(l) :
          f[j] = IF j = 0 THEN <<>>
                 ELSE IF Reported(l[j], noshared) THEN Append(f[j - 1], l[j]) ELSE f[j - 1]
  <2>1. f = [j \in 0..Len(l) |->
                IF j = 0 THEN <<>>
                ELSE IF Reported(l[j], noshared) THEN Append(f[j - 1], l[j]) ELSE f[j - 1]]
    BY <1>1, ReportDef
  <2> HIDE DEF f
  <2> QED  BY <2>1
<1> HIDE DEF f
<1>3. T = {}
  <2> SUFFICES ASSUME T # {} PROVE FALSE
    OBVIOUS
  <2>1. PICK j \in T : \A m \in T : j <= m
    <3>1. T \in SUBSET Nat
      OBVIOUS
    <3> HIDE DEF T
    <3> QED  BY <3>1, LeastNat
  <2>2. CASE j = 0
    <3>1. f[0] = <<>> /\ 1..0 = {} /\ MapPages(<<>>) = {}
      BY <1>1, <1>2 DEF MapPages
    <3>2. Good(0)
      BY <3>1
    <3> QED  BY <2>1, <2>2, <3>2
  <2>3. CASE j # 0
    <3>1. j \in 1..Len(l) /\ j - 1 \in 0..Len(l) /\ j - 1 \notin T /\ 1..j = 1..(j - 1) \cup {j}
      <4>1. j \in 0..Len(l) /\ Len(l) \in Nat
        BY <1>1
      <4>2. j \in 1..Len(l) /\ j - 1 \in 0..Len(l) /\ ~ (j <= j - 1)
        BY <4>1, <2>3
      <4>3. 1..j = 1..(j - 1) \cup {j}
        BY <4>2
      <4> HIDE DEF T
      <4> QED  BY <4>2, <4>3, <2>1
    <3>2. Good(j - 1) /\ l[j] \in Areas
      BY <3>1, <1>1
    <3>3. CASE Reported(l[j], noshared)
      <4>1. f[j] = Append(f[j - 1], l[j])
        BY <1>2, <3>1, <3>3, <2>3
      <4>2. f[j] \in Seq(Areas)
        BY <3>2, <4>1
      <4>3. MapPages(f[j]) = MapPages(f[j - 1]) \cup PagesOf(l[j])
        BY <3>2, <4>1, AppendPages
      <4>4. Good(j)
        BY <3>1, <3>2, <3>3, <4>2, <4>3
      <4> QED  BY <2>1, <4>4
    <3>4. CASE ~ Reported(l[j], noshared)
      <4>1. f[j] = f[j - 1]
        BY <1>2, <3>1, <3>4
      <4>2. Good(j)
        BY <3>1, <3>2, <3>4, <4>1
      <4> QED  BY <2>1, <4>2
    <3> QED  BY <3>3, <3>4
  <2> QED  BY <2>2, <2>3
<1>4. Good(Len(l))
  BY <1>1, <1>3
<1> QED  BY <1>1, <1>4 DEF VirtualQueryExFull, f


=============================================================================
