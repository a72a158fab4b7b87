--------------------------- MODULE RwMemMapsProofs ---------------------------
(***************************************************************************)
(* Proofs about RwMemMaps, for every address space, set of memory maps,    *)
(* slack, and size of a byte, a chunk and the parameters of the bitmap.    *)
(***************************************************************************)
EXTENDS RwMemMapsLemmas

-----------------------------------------------------------------------------
(* The inductive invariant.                                                *)

\* Places where a call has a list and works through it, or has done so.
Working == pc \in {"area", "bitmap"}
Listed  == Working \/ out = "ok"

\* How the control point, the outcome and the caller go together.
CallInv ==
    /\ WellFormed(list)
    /\ pc = "done" <=> out # "none"
    /\ pc \in {"idle", "count", "list"} => list = <<>> /\ k = 1 /\ result = <<>> /\ seen = {} /\ ~ partial
    /\ pc = "bitmap" => k <= Len(list)
    /\ pc = "area" => k <= Len(list) + 1
    /\ Working => api # "lib"
    /\ out = "ok" => IF api = "lib" THEN result = list ELSE k = Len(list) + 1
    /\ Listed /\ partial => api = "ce"
    /\ out = "crash" => proc # "alive"
    /\ pc # "bitmap" /\ out # "crash" => i = 0 /\ retBuf = {} /\ arg = 0

\* The walk of an area: where it is, which bits it has delivered, which it holds.
BitmapInv ==
    pc = "bitmap" =>
        /\ DOMAIN buf = Bits(BufBytes(list[k]))
        /\ list[k].start <= pg /\ pg <= list[k].end
        /\ arg * ByteBits + i = pg - list[k].start
        /\ \A b \in 0..(arg * ByteBits - 1) :
               buf[b] = IF list[k].start + b \in seen THEN "yes" ELSE "no"
        /\ retBuf = {b \in 0..(i - 1) : list[k].start + arg * ByteBits + b \in seen}

\* Pages were found in the areas that the call has been through, below the cursor.
SeenInv ==
    /\ seen \subseteq MapPages(list)
    /\ pc = "bitmap" => \A p \in seen : p < pg
    /\ pc = "area" /\ k <= Len(list) => \A p \in seen : p < list[k].start

\* The regions of the first n areas of the list, and a result that has them.
Done(n) == UNION {RunsOf(list[j], seen \cap PagesOf(list[j])) : j \in 1..n}
Collected(n) ==
    /\ {result[m] : m \in DOMAIN result} = Done(n)
    /\ \A m, l \in DOMAIN result : m < l => result[m].end <= result[l].start
    /\ \A j \in 1..n : seen \cap PagesOf(list[j]) \subseteq MapPages(result)

\* The result is what the areas before the k-th contribute.
ResultInv == Listed /\ api # "lib" => Collected(k - 1)

\* The histories: what has an entry now, what had one all the time, what was
\* found, and where the call has looked.
HistoryInv ==
    /\ always \subseteq entries \ swapped
    /\ pc # "idle" => entries \cup seen \subseteq ever
    /\ Listed /\ ~ partial => always \subseteq MapPages(list)
    /\ Listed /\ ~ partial /\ api # "lib" =>
           \A j \in 1..(k - 1) : always \cap PagesOf(list[j]) \subseteq seen
    /\ pc = "bitmap" /\ ~ partial => \A p \in always \cap PagesOf(list[k]) : p < pg => p \in seen

-----------------------------------------------------------------------------
(* The list.                                                               *)

\* The maps of the target are well formed, and their pages are pages.
LEMMA MapsWellFormed ==
    ASSUME NEW m \in Maps
    PROVE  WellFormed(m) /\ m \in Seq(Areas) /\ MapPages(m) \subseteq Pages
<1>1. WellFormed(m) /\ m \in Seq(Areas)
  BY MapsAssumption DEF WellFormed
<1>2. \A j \in DOMAIN m : m[j] \in Areas
  BY <1>1
<1>3. \A j \in DOMAIN m : PagesOf(m[j]) \subseteq Pages
  BY <1>2, SizesAssumption DEF Areas, PagesOf, Pages
<1> QED  BY <1>1, <1>3 DEF MapPages

\* What is known of an area of a list.
LEMMA AreaIs ==
    ASSUME NEW m, WellFormed(m), NEW j \in 1..Len(m)
    PROVE  /\ m[j] \in Areas /\ m[j].start \in Nat /\ m[j].end \in Nat
           /\ m[j].start < m[j].end /\ m[j].end <= NPages /\ Size(m[j]) \in Nat
           /\ j \in DOMAIN m
<1>1. m \in Seq(Areas) /\ j \in DOMAIN m /\ m[j] \in Areas
  BY DEF WellFormed
<1>2. m[j].start < m[j].end
  BY <1>1 DEF WellFormed
<1>3. m[j].start \in 0..NPages /\ m[j].end \in 0..NPages
  BY <1>1 DEF Areas
<1> QED  BY <1>1, <1>2, <1>3, SizesAssumption DEF Size

\* The first areas of a well-formed list are a well-formed list.
LEMMA Prefix ==
    ASSUME NEW m, WellFormed(m), NEW n \in Int, n <= Len(m)
    PROVE  /\ WellFormed(SubSeq(m, 1, n))
           /\ Len(SubSeq(m, 1, n)) = IF 1 <= n THEN n ELSE 0
           /\ n = Len(m) => SubSeq(m, 1, n) = m
<1> DEFINE s == SubSeq(m, 1, n)
<1>1. m \in Seq(Areas) /\ Len(m) \in Nat /\ DOMAIN m = 1..Len(m)
  BY DEF WellFormed
<1>2. \A j \in 1..n : m[j] \in Areas
  BY <1>1
<1>3. /\ s \in Seq(Areas)
      /\ Len(s) = IF 1 <= n THEN n ELSE 0
      /\ \A j \in 1..n : s[j] = m[j]
  <2>1. /\ s \in Seq(Areas)
        /\ Len(s) = IF 1 <= n THEN n - 1 + 1 ELSE 0
        /\ \A j \in 1..(n - 1 + 1) : s[j] = m[1 + j - 1]
    BY <1>2, SubSeqProperties
  <2> QED  BY <2>1
<1> HIDE DEF s
<1>4. DOMAIN s \subseteq DOMAIN m /\ \A j \in DOMAIN s : s[j] = m[j]
  BY <1>1, <1>3
<1>5. WellFormed(s)
  BY <1>3, <1>4 DEF WellFormed
<1>6. n = Len(m) => s = m
  <2> HAVE n = Len(m)
  <2>1. Len(s) = Len(m) /\ \A j \in 1..Len(s) : s[j] = m[j]
    BY <1>1, <1>3
  <2> QED  BY <1>1, <1>3, <2>1, SeqEqual
<1> QED  BY <1>3, <1>5, <1>6 DEF s

\* The number of entries that get_proc_maps_list copies is well defined.
LEMMA SuccessIs ==
    ASSUME Len(map) \in Nat
    PROVE  /\ Success \in 0..Len(map)
           /\ \A j \in 1..Success : Fits(j)
           /\ Success = Len(map) \/ ~ Fits(Success + 1)
<1> DEFINE T == {n \in 0..Len(map) : n = Len(map) \/ ~ Fits(n + 1)}
           Q(n) == (\A j \in 1..n : Fits(j)) /\ (n = Len(map) \/ ~ Fits(n + 1))
<1>1. T \in SUBSET Nat /\ Len(map) \in T
  OBVIOUS
<1>2. PICK n \in T : \A m \in T : n <= m
  <2> HIDE DEF T
  <2> QED  BY <1>1, LeastNat
<1>3. \A j \in 1..n : Fits(j)
  <2> SUFFICES ASSUME NEW j \in 1..n, ~ Fits(j)  PROVE FALSE
    OBVIOUS
  <2>1. PICK l \in 0..Len(map) : j = l + 1 /\ l < n
    <3>1. j - 1 \in 0..Len(map) /\ j = (j - 1) + 1 /\ j - 1 < n
      BY <1>2
    <3> QED  BY <3>1
  <2>2. l \in T
    BY <2>1
  <2> QED  BY <1>2, <2>1, <2>2
<1>4. n \in 0..Len(map) /\ Q(n)
  BY <1>2, <1>3
<1>5. Success = CHOOSE x \in 0..Len(map) : Q(x)
  BY DEF Success
<1> HIDE DEF Q
<1>6. Success \in 0..Len(map) /\ Q(Success)
  BY <1>4, <1>5
<1> QED  BY <1>6 DEF Q

\* Entries that start before end_pos end inside the client's buffer.
LEMMA FitsInside ==
    ASSUME count \in Nat, NEW n \in Nat, n = 0 \/ Fits(n)
    PROVE  8 + n * EntryLen <= BufLen /\ ~ Beyond(n)
  BY SizesAssumption DEF Fits, EndPos, EntryLen, BufLen, Beyond

\* The list that a call gets.
LEMMA ListIs ==
    ASSUME map \in Maps, count \in Nat, proc \in {"alive", "nomm", "gone"}
    PROVE  /\ ListCount \in Int /\ ListCount <= Len(map)
           /\ WellFormed(SubSeq(map, 1, ListCount))
           /\ ListCount = Len(map) => SubSeq(map, 1, ListCount) = map
           /\ 8 + Len(SubSeq(map, 1, ListCount)) * EntryLen <= BufLen
           /\ ~ Beyond(ListCount) <=> proc = "alive"
<1>1. WellFormed(map) /\ Len(map) \in Nat
  BY MapsWellFormed DEF WellFormed
<1>2. CASE proc = "alive"
  <2>1. ListCount = Success /\ Success \in 0..Len(map)
    BY <1>1, <1>2, SuccessIs DEF ListCount
  <2>2. Success = 0 \/ Fits(Success)
    BY <1>1, <2>1, SuccessIs
  <2>3. 8 + Success * EntryLen <= BufLen /\ ~ Beyond(Success)
    BY <2>1, <2>2, FitsInside
  <2>4. Len(SubSeq(map, 1, Success)) = Success
    BY <1>1, <2>1, Prefix
  <2> QED  BY <1>1, <1>2, <2>1, <2>3, <2>4, Prefix
<1>3. CASE proc # "alive"
  <2>1. ListCount \in Int /\ ListCount < 0 /\ ListCount <= Len(map) /\ Beyond(ListCount)
    BY <1>1, <1>3 DEF ListCount, Beyond
  <2>2. Len(SubSeq(map, 1, ListCount)) = 0
    BY <1>1, <2>1, Prefix
  <2>3. 8 + 0 * EntryLen <= BufLen
    BY FitsInside
  <2> QED  BY <1>1, <1>3, <2>1, <2>2, <2>3, Prefix
<1> QED  BY <1>2, <1>3

-----------------------------------------------------------------------------
(* Types, and what goes with the control point.                            *)

\* Every initial state has the types and the control invariant.
LEMMA BaseInit == Init => TypeOK /\ CallInv
<1> SUFFICES ASSUME Init  PROVE TypeOK /\ CallInv
  OBVIOUS
<1>1. WellFormed(<<>>)
  BY DEF WellFormed
<1>2. 0 \in 0..(ChunkBytes * ByteBits - 1) /\ NPages \in Nat
  <2>1. ChunkBytes * ByteBits \in Nat /\ ChunkBytes * ByteBits > 0
    BY SizesAssumption
  <2> QED  BY <2>1, SizesAssumption
<1>3. TypeOK
  <2>1. pg \in 0..NPages /\ i \in 0..(ChunkBytes * ByteBits - 1)
    BY <1>2 DEF Init
  <2>2. result \in Seq(Areas) /\ list \in Seq(Areas)
    BY DEF Init
  <2>3. partial \in BOOLEAN
    BY DEF Init
  <2> QED  BY <2>1, <2>2, <2>3 DEF Init, TypeOK, Apis
<1>4. CallInv
  BY <1>1 DEF Init, CallInv, Working, Listed
<1> QED  BY <1>3, <1>4

\* The target changes its memory or exits: of a call it changes the histories.
LEMMA BaseTarget ==
    ASSUME TypeOK, CallInv, Target
    PROVE  TypeOK' /\ CallInv'
<1> DEFINE TargetOnly == /\ map' \in Maps /\ entries' \subseteq MapPages(map')
                         /\ swapped' \subseteq entries'
                         /\ proc' \in {"alive", "nomm", "gone"}
                         /\ proc # "alive" => proc' # "alive"
                         /\ always' \subseteq always /\ ever' \subseteq Pages
                         /\ UNCHANGED callVars
<1>1. TargetOnly
  <2>1. ASSUME NEW m \in Maps, Remap(m)  PROVE TargetOnly
    <3>1. MapPages(m) \subseteq Pages
      BY MapsWellFormed
    <3> QED  BY <2>1, <3>1 DEF Remap, SetEntries, TypeOK
  <2>2. ASSUME NEW p \in Pages, Fault(p)  PROVE TargetOnly
    BY <2>2, MapsWellFormed DEF Fault, SetEntries, TypeOK
  <2>5. ASSUME NEW p \in Pages, Drop(p)  PROVE TargetOnly
    <3>1. MapPages(map) \subseteq Pages
      BY MapsWellFormed DEF TypeOK
    <3>2. CASE SetEntries(entries \ {p}, swapped)
      BY <2>5, <3>1, <3>2 DEF Drop, SetEntries, TypeOK
    <3>3. CASE SetEntries(entries, swapped \cup {p})
      BY <2>5, <3>1, <3>3 DEF Drop, SetEntries, TypeOK
    <3> QED  BY <2>5, <3>2, <3>3 DEF Drop
  <2>3. ASSUME Exit  PROVE TargetOnly
    BY <2>3 DEF Exit, SetEntries, TypeOK
  <2>4. ASSUME Reap  PROVE TargetOnly
    BY <2>4 DEF Reap, TypeOK, stable
  <2> QED  BY <2>1, <2>2, <2>3, <2>4, <2>5 DEF Target
<1>2. TypeOK'
  BY <1>1 DEF TypeOK, callVars, kernelVars
<1>3. CallInv'
  BY <1>1 DEF CallInv, callVars, kernelVars, Working, Listed
<1> QED  BY <1>2, <1>3

\* The call takes a step.
LEMMA BaseCall ==
    ASSUME TypeOK, CallInv, Call
    PROVE  TypeOK' /\ CallInv'
<1>1. /\ WellFormed(map) /\ MapPages(map) \subseteq Pages /\ Len(map) \in Nat
      /\ WellFormed(list) /\ Len(list) \in Nat
      /\ NPages \in Nat
  BY MapsWellFormed, SizesAssumption DEF TypeOK, CallInv, WellFormed
<1>2. ChunkBytes * ByteBits \in Nat /\ ChunkBytes * ByteBits > 0
  BY SizesAssumption
<1>3. WellFormed(<<>>) /\ <<>> \in Seq(Areas)
  BY DEF WellFormed
<1>4. ASSUME NEW a \in Apis, Start(a)  PROVE TypeOK' /\ CallInv'
  <2>1. TypeOK'
    BY <1>1, <1>4 DEF Start, TypeOK, targetVars, kernelVars
  <2>2. CallInv'
    BY <1>4 DEF Start, CallInv, Working, Listed, targetVars, kernelVars
  <2> QED  BY <2>1, <2>2
<1>5. ASSUME Count  PROVE TypeOK' /\ CallInv'
  <2>1. MapCount \in Nat
    BY <1>1 DEF MapCount
  <2>2. TypeOK'
    BY <2>1, <1>5 DEF Count, End, TypeOK, targetVars, kernelVars, stable
  <2>3. CallInv'
    BY <1>5 DEF Count, End, CallInv, Working, Listed, targetVars, kernelVars, stable
  <2> QED  BY <2>2, <2>3
<1>6. ASSUME List  PROVE TypeOK' /\ CallInv'
  <2>1. WellFormed(list') /\ list' \in Seq(Areas) /\ Len(list') \in Nat
    <3>1. list' = SubSeq(map, 1, ListCount)
      BY <1>6 DEF List
    <3>2. map \in Maps /\ count \in Nat /\ proc \in {"alive", "nomm", "gone"}
      BY DEF TypeOK
    <3>3. WellFormed(SubSeq(map, 1, ListCount))
      BY <3>2, ListIs
    <3>4. WellFormed(list')
      BY <3>1, <3>3, Zenon
    <3>5. list' \in Seq(Areas)
      BY <3>4 DEF WellFormed
    <3> QED  BY <3>4, <3>5
  <2>2. partial' \in BOOLEAN
    BY <1>6 DEF List
  <2>3. TypeOK'
    BY <2>1, <2>2, <1>6 DEF List, End, TypeOK, targetVars, kernelVars, stable
  <2>4. ~ HavePass /\ ~ Beyond(ListCount) => ~ partial'
    <3>1. ~ Beyond(ListCount) => proc = "alive"
      BY ListIs DEF TypeOK
    <3>2. proc = "alive" => ListCount = Success /\ Success \in 0..Len(map)
      BY <1>1, SuccessIs DEF ListCount
    <3>3. partial' = (ListCount # Len(map))
      BY <1>6 DEF List
    <3>4. ~ HavePass /\ ~ Beyond(ListCount) => ListCount = Len(map)
      BY <3>1, <3>2, <1>1 DEF HavePass
    <3> QED  BY <3>3, <3>4
  <2>5. Beyond(ListCount) => proc # "alive"
    BY ListIs DEF TypeOK
  <2>6. CallInv'
    <3> HIDE DEF Beyond, HavePass, ListCount
    <3> QED  BY <2>1, <2>4, <2>5, <1>6 DEF List, End, CallInv, Working, Listed, targetVars, kernelVars, stable, TypeOK, Apis
  <2> QED  BY <2>3, <2>6
<1>7. ASSUME ListGone  PROVE TypeOK' /\ CallInv'
  <2>1. TypeOK'
    BY <1>7 DEF ListGone, End, TypeOK, targetVars, kernelVars, stable
  <2>2. CallInv'
    BY <1>7 DEF ListGone, End, CallInv, Working, Listed, targetVars, kernelVars, stable
  <2> QED  BY <2>1, <2>2
<1>8. ASSUME Bitmap  PROVE TypeOK' /\ CallInv'
  <2>1. k \in 1..Len(list)
    BY <1>8, <1>1 DEF Bitmap, TypeOK
  <2>2. list[k].start \in 0..NPages
    BY <1>1, <2>1, AreaIs DEF Areas
  <2>3. TypeOK'
    BY <2>2, <1>8 DEF Bitmap, TypeOK, targetVars, stable
  <2>4. CallInv'
    BY <1>8 DEF Bitmap, CallInv, Working, Listed, targetVars, stable
  <2> QED  BY <2>3, <2>4
<1>9. ASSUME BitmapFail  PROVE TypeOK' /\ CallInv'
  <2>1. partial' \in BOOLEAN
    BY <1>9 DEF BitmapFail, TypeOK
  <2>2. TypeOK'
    BY <2>1, <1>9 DEF BitmapFail, End, TypeOK, targetVars, kernelVars, stable
  <2>3. CallInv'
    BY <1>1, <1>9 DEF BitmapFail, End, CallInv, Working, Listed, targetVars, kernelVars, stable, TypeOK
  <2> QED  BY <2>2, <2>3
<1>10. ASSUME Examine  PROVE TypeOK' /\ CallInv'
  <2>1. k \in 1..Len(list)
    BY <1>10, <1>1 DEF Examine, TypeOK, CallInv
  <2>2. list[k].end \in Nat /\ list[k].end <= NPages
    BY <1>1, <2>1, AreaIs
  <2>3. pg + 1 \in 0..NPages
    BY <2>2, <1>10, <1>1 DEF Examine, TypeOK
  <2>0. PICK found \in BOOLEAN : Round(found)
    BY <1>10 DEF Examine
  <2> DEFINE bits == IF found THEN retBuf \cup {i} ELSE retBuf
             W == ChunkBytes * ByteBits
  <2>4. bits \subseteq 0..((i + 1) - 1) /\ i \in Nat
    BY DEF TypeOK
  <2>5. /\ i' \in 0..(W - 1) /\ retBuf' \subseteq 0..(i' - 1) /\ arg' \in Nat
    <3>1. CASE Full(i + 1)
      <4>1. i' = 0 /\ retBuf' = {} /\ arg' = arg + ChunkBytes
        BY <2>0, <3>1 DEF Round
      <4> QED  BY <4>1, <1>2, SizesAssumption DEF TypeOK
    <3>2. CASE ~ Full(i + 1)
      <4>1. i' = i + 1 /\ retBuf' = bits /\ arg' = arg
        BY <2>0, <3>2 DEF Round
      <4>2. i \in 0..(W - 1) /\ i + 1 # W
        BY <3>2 DEF Full, TypeOK
      <4>3. W \in Nat
        BY <1>2
      <4> HIDE DEF W, bits
      <4>4. i' \in 0..(W - 1)
        BY <4>1, <4>2, <4>3
      <4> QED  BY <4>1, <4>4, <2>4 DEF TypeOK
    <3> QED  BY <3>1, <3>2
  <2>6. seen' \subseteq Pages
    <3>1. seen' \subseteq seen \cup {pg}
      BY <2>0 DEF Round
    <3>2. pg \in 0..NPages /\ pg + 1 \in 0..NPages /\ NPages \in Nat
      BY <2>3, <1>1 DEF TypeOK
    <3>3. pg \in Pages
      BY <3>2 DEF Pages
    <3> QED  BY <3>1, <3>3 DEF TypeOK
  <2>7. TypeOK'
    BY <2>3, <2>5, <2>6, <1>10 DEF Examine, TypeOK, targetVars, stable
  <2>8. CallInv'
    BY <2>0, <1>10 DEF Examine, Round, CallInv, Working, Listed, targetVars, stable
  <2> QED  BY <2>7, <2>8
<1>11. ASSUME ExamineGone  PROVE TypeOK' /\ CallInv'
  <2>1. TypeOK'
    BY <1>11 DEF ExamineGone, End, TypeOK, targetVars, kernelVars, stable
  <2>2. CallInv'
    BY <1>11 DEF ExamineGone, End, CallInv, Working, Listed, targetVars, kernelVars, stable
  <2> QED  BY <2>1, <2>2
<1>12. ASSUME BitmapEnd  PROVE TypeOK' /\ CallInv'
  <2>1. k \in 1..Len(list)
    BY <1>12, <1>1 DEF BitmapEnd, TypeOK, CallInv
  <2>2. list[k] \in Areas /\ list[k].start < list[k].end
    BY <1>1, <2>1, AreaIs
  <2>3. Runs(list[k], buf') \in Seq(Areas)
    BY <2>2, RunsCorrect
  <2>4. result' \in Seq(Areas)
    BY <2>3, <1>12 DEF BitmapEnd, TypeOK
  <2>5. TypeOK'
    BY <2>4, <1>12, <1>1, <1>2 DEF BitmapEnd, TypeOK, targetVars, stable
  <2>6. CallInv'
    BY <2>1, <1>12 DEF BitmapEnd, CallInv, Working, Listed, targetVars, stable
  <2> QED  BY <2>5, <2>6
<1>13. ASSUME Finish  PROVE TypeOK' /\ CallInv'
  <2>1. TypeOK'
    BY <1>13 DEF Finish, End, TypeOK, targetVars, kernelVars, stable
  <2>2. CallInv'
    BY <1>1, <1>13 DEF Finish, End, CallInv, Working, Listed, targetVars, kernelVars, stable, TypeOK
  <2> QED  BY <2>1, <2>2
<1>14. ASSUME Return  PROVE TypeOK' /\ CallInv'
  <2>1. partial' \in BOOLEAN
    BY <1>14 DEF Return
  <2>2. TypeOK'
    BY <2>1, <1>14, <1>3 DEF Return, TypeOK, targetVars, kernelVars, Apis
  <2>3. CallInv'
    BY <1>14, <1>3 DEF Return, CallInv, Working, Listed, targetVars, kernelVars
  <2> QED  BY <2>2, <2>3
<1> QED  BY <1>4, <1>5, <1>6, <1>7, <1>8, <1>9, <1>10, <1>11, <1>12, <1>13, <1>14 DEF Call

\* Every step preserves the types and the control invariant.
LEMMA BaseStep == TypeOK /\ CallInv /\ [Next]_vars => TypeOK' /\ CallInv'
<1> SUFFICES ASSUME TypeOK, CallInv, [Next]_vars  PROVE TypeOK' /\ CallInv'
  OBVIOUS
<1>1. CASE UNCHANGED vars
  <2>1. TypeOK'
    BY <1>1 DEF vars, TypeOK, targetVars, kernelVars, stable
  <2>2. CallInv'
    BY <1>1 DEF vars, CallInv, Working, Listed, targetVars, kernelVars, stable
  <2> QED  BY <2>1, <2>2
<1> QED  BY <1>1, BaseTarget, BaseCall DEF Next

\* The variables keep their types while the target maps and the kernel counts,
\* lists and delivers the bitmaps of its areas.
THEOREM MapsTypeCorrect == Spec => []TypeOK
  BY BaseInit, BaseStep, PTL DEF Spec

\* In every reachable state the call has the list, the cursor and the outcome
\* that go with its control point (get_mem_map, rwmem_ioctl).
THEOREM BaseCorrect == Spec => [](TypeOK /\ CallInv)
  BY BaseInit, BaseStep, PTL DEF Spec

\* get_mem_map of librwmem never returns a list that was cut: a list with fewer
\* entries than the map has is refused, and so is one of which a bitmap failed.
THEOREM LibNeverCut == Spec => []LibComplete
<1>1. CallInv => LibComplete
  BY DEF CallInv, Listed, LibComplete
<1> QED  BY <1>1, BaseCorrect, PTL

\* As long as the target has a memory, the number of entries that a call is told
\* is the number that the kernel copied into its buffer, and its task can be
\* used: a call that crashes does so on a target that exited before or during
\* it, or that is a kernel thread.
THEOREM CrashWithoutMm == Spec => []CrashOnlyWithoutMm
<1>1. CallInv => CrashOnlyWithoutMm
  BY DEF CallInv, CrashOnlyWithoutMm
<1> QED  BY <1>1, BaseCorrect, PTL

-----------------------------------------------------------------------------
(* The bitmap.                                                             *)

\* Delivering whole bytes inside the buffer changes nothing else of it.
LEMMA DeliveredIs ==
    ASSUME NEW bits, NEW n \in Nat, NEW m \in Nat, arg \in Nat, arg + n <= m,
           DOMAIN buf = Bits(m)
    PROVE  /\ DOMAIN Delivered(bits, n) = Bits(m)
           /\ \A b \in Bits(m) :
                  Delivered(bits, n)[b] = IF arg * ByteBits <= b /\ b < arg * ByteBits + n * ByteBits
                                          THEN IF b - arg * ByteBits \in bits THEN "yes" ELSE "no"
                                          ELSE buf[b]
<1> DEFINE lo == arg * ByteBits
           hi == (arg + n) * ByteBits
           w  == lo..(hi - 1)
<1>1. lo \in Nat /\ hi \in Nat /\ hi <= m * ByteBits /\ m * ByteBits \in Nat /\ n * ByteBits \in Nat
  BY SizesAssumption, Scale
<1>2. hi = lo + n * ByteBits
  BY SizesAssumption
<1>3. Bits(m) = 0..(m * ByteBits - 1)
  BY DEF Bits
<1>4. Delivered(bits, n) =
        [b \in DOMAIN buf \cup w |-> IF b \notin w THEN buf[b] ELSE IF b - lo \in bits THEN "yes" ELSE "no"]
  BY DEF Delivered
<1> DEFINE D == Delivered(bits, n)
           M == m * ByteBits
           NB == n * ByteBits
<1> HIDE DEF lo, hi, D, M, NB
<1>5. /\ lo \in Nat /\ hi \in Nat /\ hi <= M /\ M \in Nat /\ NB \in Nat
      /\ hi = lo + NB /\ Bits(m) = 0..(M - 1)
      /\ D = [b \in DOMAIN buf \cup w |-> IF b \notin w THEN buf[b] ELSE IF b - lo \in bits THEN "yes" ELSE "no"]
  BY <1>1, <1>2, <1>3, <1>4 DEF lo, hi, D, M, NB
<1>6. DOMAIN buf \cup w = Bits(m)
  BY <1>5
<1>7. \A b \in Bits(m) : b \notin w <=> ~ (lo <= b /\ b < lo + NB)
  BY <1>5
<1>8. DOMAIN D = Bits(m)
  BY <1>5, <1>6
<1>9. \A b \in Bits(m) : D[b] = IF lo <= b /\ b < lo + NB
                                THEN IF b - lo \in bits THEN "yes" ELSE "no" ELSE buf[b]
  BY <1>5, <1>6, <1>7
<1> QED  BY <1>8, <1>9 DEF D, lo, NB

\* The client's buffer has room for the bits of the area.
LEMMA BufBytesIs ==
    ASSUME NEW a, Size(a) \in Nat
    PROVE  /\ BufBytes(a) \in Nat /\ Bytes(Size(a)) <= BufBytes(a)
           /\ Bytes(Size(a)) \in Nat /\ Size(a) <= Bytes(Size(a)) * ByteBits
  BY BytesCover, SizesAssumption DEF BufBytes

\* The facts about the walk that the next lemmas share.
LEMMA WalkIs ==
    ASSUME TypeOK, CallInv, BitmapInv, pc = "bitmap"
    PROVE  LET a == list[k]
           IN  /\ k \in 1..Len(list) /\ Len(list) \in Nat /\ WellFormed(list)
               /\ a \in Areas /\ a.start \in Nat /\ a.end \in Nat /\ a.start < a.end
               /\ Size(a) \in Nat /\ a.start + Size(a) = a.end
               /\ pg \in Nat /\ i \in Nat /\ arg \in Nat
               /\ arg * ByteBits \in Nat /\ arg * ByteBits + i = pg - a.start
               /\ arg * ByteBits + i <= Size(a)
               /\ DOMAIN buf = Bits(BufBytes(a))
<1>1. k \in 1..Len(list) /\ Len(list) \in Nat /\ WellFormed(list)
  BY DEF TypeOK, CallInv
<1> DEFINE a == list[k]
<1>2. a \in Areas /\ a.start \in Nat /\ a.end \in Nat /\ a.start < a.end /\ Size(a) \in Nat
  BY <1>1, AreaIs
<1>3. pg \in Nat /\ i \in Nat /\ arg \in Nat
  BY SizesAssumption DEF TypeOK
<1>4. arg * ByteBits \in Nat
  BY <1>3, SizesAssumption
<1>5. /\ arg * ByteBits + i = pg - a.start /\ pg <= a.end /\ DOMAIN buf = Bits(BufBytes(a))
  BY DEF BitmapInv
<1> HIDE DEF a
<1>6. a.start + Size(a) = a.end
  BY <1>2 DEF Size
<1>7. arg * ByteBits + i <= Size(a)
  <2> DEFINE x == arg * ByteBits
  <2> HIDE DEF x
  <2>1. x + i = pg - a.start /\ x \in Nat
    BY <1>4, <1>5 DEF x
  <2>2. x + i <= Size(a)
    BY <2>1, <1>2, <1>3, <1>5, <1>6
  <2> QED  BY <2>2 DEF x
<1> QED  BY <1>1, <1>2, <1>3, <1>4, <1>5, <1>6, <1>7 DEF a

\* A full retBuf is a whole chunk of the bitmap of the area.
LEMMA ChunkInside ==
    ASSUME TypeOK, CallInv, BitmapInv, pc = "bitmap", pg < list[k].end, Full(i + 1)
    PROVE  RetBufBytes = ChunkBytes /\ arg + ChunkBytes <= BufBytes(list[k])
<1> DEFINE a == list[k]
           B == Bytes(Size(a))
<1>1. /\ Size(a) \in Nat /\ pg \in Nat /\ i \in Nat /\ arg \in Nat /\ arg * ByteBits \in Nat
      /\ arg * ByteBits + i = pg - a.start /\ a.start \in Nat /\ a.end \in Nat /\ a.start + Size(a) = a.end
  BY WalkIs
<1>2. ByteBits \in Nat /\ ByteBits > 0 /\ ChunkBytes \in Nat /\ ChunkBytes * ByteBits \in Nat
  BY SizesAssumption
<1>3. i + 1 = ChunkBytes * ByteBits
  BY DEF Full
<1>4. (arg + ChunkBytes) * ByteBits = arg * ByteBits + ChunkBytes * ByteBits
  BY <1>1, <1>2
<1>5. (arg + ChunkBytes) * ByteBits <= Size(a)
  <2> DEFINE x == arg * ByteBits
             y == ChunkBytes * ByteBits
             z == (arg + ChunkBytes) * ByteBits
  <2> HIDE DEF x, y, z, a
  <2>1. x \in Nat /\ y \in Nat /\ z = x + y /\ i + 1 = y /\ x + i = pg - a.start
    BY <1>1, <1>2, <1>3, <1>4 DEF x, y, z
  <2>2. z <= Size(a)
    BY <1>1, <2>1 DEF a
  <2> QED  BY <2>2 DEF z
<1>6. B \in Nat /\ Size(a) <= B * ByteBits /\ B <= BufBytes(a) /\ BufBytes(a) \in Nat /\ B * ByteBits \in Nat
  BY <1>1, <1>2, BufBytesIs
<1>7. arg + ChunkBytes <= B
  <2> SUFFICES ASSUME B + 1 <= arg + ChunkBytes  PROVE FALSE
    BY <1>1, <1>2, <1>6
  <2>1. (B + 1) * ByteBits <= (arg + ChunkBytes) * ByteBits
    <3> HIDE DEF B
    <3> QED  BY <1>1, <1>2, <1>6, Scale
  <2>2. (B + 1) * ByteBits = B * ByteBits + ByteBits
    <3> HIDE DEF B
    <3> QED  BY <1>2, <1>6
  <2> DEFINE z == (arg + ChunkBytes) * ByteBits
             y == B * ByteBits
             u == (B + 1) * ByteBits
  <2>3. z \in Nat /\ y \in Nat
    BY <1>1, <1>2, <1>6, Scale
  <2>4. u <= z /\ u = y + ByteBits /\ Size(a) <= y /\ z <= Size(a)
    BY <2>1, <2>2, <1>5, <1>6
  <2> HIDE DEF u, y, z, a
  <2> QED  BY <2>3, <2>4, <1>1, <1>2
<1> HIDE DEF B
<1>8. ~ (B < ChunkBytes) /\ arg + ChunkBytes <= BufBytes(a)
  BY <1>1, <1>2, <1>6, <1>7
<1>9. RetBufBytes = IF B > ChunkBytes THEN ChunkBytes ELSE B
  BY DEF RetBufBytes, B
<1> QED  BY <1>2, <1>6, <1>8, <1>9

\* The last bytes of an area end where its bitmap ends.
LEMMA TailInside ==
    ASSUME TypeOK, CallInv, BitmapInv, pc = "bitmap", pg = list[k].end
    PROVE  /\ LastBytes(i) \in Nat /\ arg + LastBytes(i) <= BufBytes(list[k])
           /\ arg * ByteBits + i = Size(list[k])
           /\ i <= LastBytes(i) * ByteBits /\ (i = 0 => LastBytes(i) = 0)
<1> DEFINE a == list[k]
<1>1. /\ Size(a) \in Nat /\ i \in Nat /\ arg \in Nat /\ arg * ByteBits \in Nat
      /\ arg * ByteBits + i = pg - a.start /\ a.start \in Nat /\ a.end \in Nat /\ a.start + Size(a) = a.end
  BY WalkIs
<1>2. arg * ByteBits + i = Size(a)
  BY <1>1
<1>3. Bytes(Size(a)) = arg + Bytes(i)
  BY <1>1, <1>2, BytesBehind
<1>4. LastBytes(i) = Bytes(i) /\ Bytes(i) \in Nat /\ i <= Bytes(i) * ByteBits
  BY <1>1, BytesCover DEF LastBytes
<1>5. Bytes(Size(a)) <= BufBytes(a)
  BY <1>1, BufBytesIs
<1>6. i = 0 => Bytes(i) = 0
  BY SizesAssumption DEF Bytes
<1> QED  BY <1>2, <1>3, <1>4, <1>5, <1>6


\* A round of the loop.
LEMMA WalkExamine ==
    ASSUME TypeOK, CallInv, BitmapInv, SeenInv, Examine
    PROVE  BitmapInv'
<1>0. PICK found \in BOOLEAN : Round(found)
  BY DEF Examine
<1> DEFINE a == list[k]
           x == arg * ByteBits
           bits == IF found THEN retBuf \cup {i} ELSE retBuf
<1>1. /\ a.start \in Nat /\ a.end \in Nat /\ pg \in Nat /\ i \in Nat /\ arg \in Nat
      /\ x \in Nat /\ x + i = pg - a.start /\ pg < a.end /\ a.start <= pg /\ Size(a) \in Nat
      /\ pc = "bitmap" /\ DOMAIN buf = Bits(BufBytes(a))
  BY WalkIs DEF Examine, BitmapInv
<1>2. /\ \A b \in 0..(x - 1) : buf[b] = IF a.start + b \in seen THEN "yes" ELSE "no"
      /\ retBuf = {b \in 0..(i - 1) : a.start + x + b \in seen}
  BY <1>1 DEF BitmapInv
<1>3. seen' = (IF found THEN seen \cup {pg} ELSE seen) /\ pg' = pg + 1 /\ list' = list /\ k' = k
  BY <1>0 DEF Examine, Round
<1>4. \A p \in seen : p < pg /\ p \in Nat
  BY <1>1 DEF SeenInv, TypeOK, Pages
<1> HIDE DEF a, x
<1>5. a.start + x + i = pg
  BY <1>1
<1>6. \A b \in 0..(x - 1) : (a.start + b \in seen') <=> (a.start + b \in seen)
  BY <1>1, <1>3
<1>7. bits = {b \in 0..i : a.start + x + b \in seen'}
  <2>1. \A b \in 0..(i - 1) : (a.start + x + b \in seen') <=> (a.start + x + b \in seen)
    BY <1>1, <1>3
  <2>2. (a.start + x + i \in seen') <=> found
    BY <1>1, <1>3, <1>4, <1>5
  <2>3. 0..i = 0..(i - 1) \cup {i} /\ i \notin 0..(i - 1)
    BY <1>1
  <2>4. retBuf = {b \in 0..(i - 1) : a.start + x + b \in seen'}
    BY <1>2, <2>1
  <2> QED  BY <2>2, <2>3, <2>4
<1>8. /\ list'[k'] = a /\ a.start <= pg' /\ pg' <= a.end
  BY <1>1, <1>3 DEF a
<1>9. CASE Full(i + 1)
  <2> DEFINE m == BufBytes(a)
             y == ChunkBytes * ByteBits
  <2>1. RetBufBytes = ChunkBytes /\ arg + ChunkBytes <= m /\ m \in Nat
    <3>1. pg < list[k].end
      BY <1>1 DEF a
    <3>2. m \in Nat
      BY <1>1, BufBytesIs
    <3> QED  BY <1>1, <1>9, <3>1, <3>2, ChunkInside DEF a
  <2>2. buf' = Delivered(bits, ChunkBytes) /\ i' = 0 /\ retBuf' = {} /\ arg' = arg + ChunkBytes
    BY <1>0, <1>9, <2>1 DEF Round
  <2>3. ChunkBytes \in Nat /\ y \in Nat /\ i + 1 = y /\ arg' * ByteBits = x + y /\ ByteBits \in Nat
    BY <1>1, <1>9, <2>2, SizesAssumption DEF Full, x
  <2>4. /\ DOMAIN buf' = Bits(m)
        /\ \A b \in Bits(m) : buf'[b] = IF x <= b /\ b < x + y
                                        THEN IF b - x \in bits THEN "yes" ELSE "no"
                                        ELSE buf[b]
    <3>1. DOMAIN buf = Bits(m)
      BY <1>1
    <3> HIDE DEF bits, m
    <3> QED  BY <1>1, <2>1, <2>2, <2>3, <3>1, DeliveredIs DEF x
  <2>5. (arg + ChunkBytes) * ByteBits <= m * ByteBits /\ m * ByteBits \in Nat
    <3> HIDE DEF m
    <3> QED  BY <1>1, <2>1, <2>3, Scale
  <2>6. x + y <= m * ByteBits
    BY <2>2, <2>3, <2>5
  <2>7. \A b \in 0..(x + y - 1) : b \in Bits(m)
    <3> DEFINE M == m * ByteBits
    <3>1. M \in Nat /\ x + y <= M
      BY <2>5, <2>6
    <3> HIDE DEF M, y
    <3>2. Bits(m) = 0..(M - 1)
      BY DEF Bits, M
    <3> QED  BY <1>1, <2>3, <3>1, <3>2 DEF y
  <2>8. \A b \in 0..(x + y - 1) : buf'[b] = IF a.start + b \in seen' THEN "yes" ELSE "no"
    <3> HIDE DEF y, m, bits
    <3> TAKE b \in 0..(x + y - 1)
    <3>1. CASE b < x
      <4>1. b \in 0..(x - 1) /\ b \in Bits(m)
        BY <1>1, <2>3, <2>7, <3>1
      <4> QED  BY <1>1, <1>2, <1>6, <2>4, <4>1, <3>1
    <3>2. CASE x <= b
      <4>1. b - x \in 0..i /\ a.start + x + (b - x) = a.start + b
        BY <1>1, <2>3, <3>2
      <4>2. (b - x \in bits) <=> (a.start + b \in seen')
        BY <4>1, <1>7
      <4>3. b < x + y /\ b \in Bits(m)
        BY <1>1, <2>3, <2>7
      <4> QED  BY <2>4, <3>2, <4>2, <4>3
    <3> QED  BY <1>1, <2>3, <3>1, <3>2
  <2>9. x + y = pg' - a.start
    <3>1. y = i + 1 /\ pg' = pg + 1
      BY <2>3, <1>3
    <3>2. i + 1 \in Nat /\ x \in Nat /\ pg \in Nat /\ a.start \in Nat /\ a.start + x + i = pg
      BY <1>1, <1>5
    <3> HIDE DEF y
    <3>3. x + (i + 1) = (pg + 1) - a.start
      BY <1>1, <3>2
    <3> QED  BY <3>1, <3>3
  <2>10. /\ pc' = "bitmap" /\ DOMAIN buf' = Bits(BufBytes(a))
         /\ arg' * ByteBits + i' = pg' - a.start
    BY <2>2, <2>3, <2>4, <2>9, <1>1 DEF Examine
  <2>11. \A b \in 0..(arg' * ByteBits - 1) : buf'[b] = IF a.start + b \in seen' THEN "yes" ELSE "no"
    <3> DEFINE z == arg' * ByteBits
    <3>1. z = x + y
      BY <2>3
    <3> HIDE DEF z, y
    <3>2. \A b \in 0..(z - 1) : buf'[b] = IF a.start + b \in seen' THEN "yes" ELSE "no"
      <4>1. x \in Nat /\ y \in Nat
        BY <1>1, <2>3
      <4>2. 0..(z - 1) = 0..(x + y - 1)
        BY <3>1, <4>1
      <4> QED  BY <2>8, <4>2
    <3> QED  BY <3>2 DEF z
  <2>12. retBuf' = {b \in 0..(i' - 1) : a.start + arg' * ByteBits + b \in seen'}
    BY <2>2
  <2> HIDE DEF bits, m, y
  <2> QED  BY <1>8, <2>10, <2>11, <2>12 DEF BitmapInv
<1>10. CASE ~ Full(i + 1)
  <2>1. i' = i + 1 /\ retBuf' = bits /\ buf' = buf /\ arg' = arg /\ pc' = "bitmap"
    BY <1>0, <1>1, <1>10 DEF Examine, Round
  <2>2. arg' * ByteBits = x
    BY <2>1 DEF x
  <2>3. x + i' = pg' - a.start
    BY <1>1, <1>3, <2>1
  <2>4. \A b \in 0..(x - 1) : buf'[b] = IF a.start + b \in seen' THEN "yes" ELSE "no"
    BY <1>2, <1>6, <2>1
  <2>5. retBuf' = {b \in 0..(i' - 1) : a.start + x + b \in seen'}
    <3>1. i' - 1 = i
      BY <1>1, <2>1
    <3> QED  BY <1>7, <2>1, <3>1
  <2>6. DOMAIN buf' = Bits(BufBytes(a))
    BY <1>1, <2>1
  <2> HIDE DEF bits
  <2> QED  BY <1>8, <2>1, <2>2, <2>3, <2>4, <2>5, <2>6 DEF BitmapInv
<1> QED  BY <1>9, <1>10

\* The last bytes: at the end of an area the client's buffer holds its bitmap.
LEMMA WalkEnd ==
    ASSUME TypeOK, CallInv, BitmapInv, SeenInv, BitmapEnd
    PROVE  /\ DOMAIN buf' = DOMAIN buf
           /\ \A p \in PagesOf(list[k]) :
                  buf'[p - list[k].start] = IF p \in seen THEN "yes" ELSE "no"
<1> DEFINE a == list[k]
           x == arg * ByteBits
           n == LastBytes(i)
           y == n * ByteBits
           m == BufBytes(a)
<1>1. /\ a.start \in Nat /\ a.end \in Nat /\ i \in Nat /\ arg \in Nat /\ x \in Nat
      /\ a.start + Size(a) = a.end /\ Size(a) \in Nat /\ DOMAIN buf = Bits(m) /\ pc = "bitmap" /\ pg = list[k].end
  BY WalkIs DEF BitmapEnd
<1>2. /\ n \in Nat /\ arg + n <= m /\ x + i = Size(a) /\ i <= y /\ (i = 0 => n = 0)
  BY <1>1, TailInside
<1>3. /\ \A b \in 0..(x - 1) : buf[b] = IF a.start + b \in seen THEN "yes" ELSE "no"
      /\ retBuf = {b \in 0..(i - 1) : a.start + x + b \in seen}
  BY <1>1 DEF BitmapInv
<1>4. m \in Nat /\ Size(a) <= m * ByteBits /\ m * ByteBits \in Nat /\ y \in Nat
  <2>1. m \in Nat /\ Bytes(Size(a)) <= m /\ Bytes(Size(a)) \in Nat /\ Size(a) <= Bytes(Size(a)) * ByteBits
    BY <1>1, BufBytesIs
  <2>2. Bytes(Size(a)) * ByteBits <= m * ByteBits /\ Bytes(Size(a)) * ByteBits \in Nat /\ m * ByteBits \in Nat /\ y \in Nat
    <3> HIDE DEF m, n
    <3> QED  BY <2>1, <1>2, Scale
  <2> DEFINE u == Bytes(Size(a)) * ByteBits
             v == m * ByteBits
  <2>3. Size(a) <= u /\ u <= v /\ u \in Nat /\ v \in Nat
    BY <2>1, <2>2
  <2> HIDE DEF u, v, m
  <2>4. Size(a) <= v
    BY <1>1, <2>3
  <2> QED  BY <2>1, <2>2, <2>4 DEF v
<1>5. /\ DOMAIN buf' = Bits(m)
      /\ \A b \in Bits(m) : buf'[b] = IF x <= b /\ b < x + y
                                      THEN IF b - x \in retBuf THEN "yes" ELSE "no"
                                      ELSE buf[b]
  <2>1. CASE i > 0
    <3>1. buf' = Delivered(retBuf, n)
      BY <2>1 DEF BitmapEnd
    <3> HIDE DEF n, m
    <3> QED  BY <1>1, <1>2, <1>4, <3>1, DeliveredIs
  <2>2. CASE i = 0
    <3>1. buf' = buf /\ n = 0
      BY <2>2, <1>2 DEF BitmapEnd
    <3>2. y = 0
      BY <3>1, SizesAssumption
    <3>3. \A b \in Bits(m) : b \in Int
      BY DEF Bits
    <3> HIDE DEF x, y, n, m
    <3> QED  BY <1>1, <3>1, <3>2, <3>3
  <2> QED  BY <2>1, <2>2, <1>1
<1>6. Bits(m) = 0..(m * ByteBits - 1)
  BY DEF Bits
<1>7. ASSUME NEW p \in PagesOf(a)
      PROVE  buf'[p - a.start] = IF p \in seen THEN "yes" ELSE "no"
  <2> DEFINE b == p - a.start
             M == m * ByteBits
  <2> HIDE DEF x, y, m, n, M, a
  <2>1. p \in Nat /\ b \in Nat /\ b < Size(a) /\ a.start + b = p
    BY <1>1, <1>7 DEF PagesOf
  <2>2. b \in Bits(m)
    <3>1. Bits(m) = 0..(M - 1) /\ M \in Nat /\ Size(a) <= M
      BY <1>4, <1>6 DEF M
    <3> QED  BY <2>1, <3>1, <1>1
  <2>3. CASE b < x
    <3>1. b \in 0..(x - 1)
      BY <1>1, <2>1, <2>3
    <3>2. buf'[b] = buf[b]
      BY <1>1, <1>5, <2>1, <2>2, <2>3
    <3>3. buf[b] = IF a.start + b \in seen THEN "yes" ELSE "no"
      BY <1>3, <3>1
    <3> QED  BY <2>1, <3>2, <3>3
  <2>4. CASE x <= b
    <3>1. b - x \in 0..(i - 1) /\ a.start + x + (b - x) = p /\ b < x + y
      BY <1>1, <1>2, <1>4, <2>1, <2>4
    <3>2. (b - x \in retBuf) <=> p \in seen
      BY <1>3, <3>1
    <3>3. buf'[b] = IF b - x \in retBuf THEN "yes" ELSE "no"
      BY <1>5, <2>2, <2>4, <3>1
    <3> QED  BY <3>2, <3>3
  <2> QED  BY <2>1, <2>3, <2>4, <1>1
<1> QED  BY <1>1, <1>5, <1>7


\* Areas of a list follow each other.
LEMMA Ascending ==
    ASSUME NEW m, WellFormed(m), NEW h \in 1..Len(m), NEW j \in 1..Len(m), h < j
    PROVE  m[h].end <= m[j].start
  BY DEF WellFormed

\* The pages of an area are pages of the list.
LEMMA PagesInList ==
    ASSUME NEW m, NEW p, m \in Seq(Areas)
    PROVE  p \in MapPages(m) <=> \E j \in 1..Len(m) : p \in PagesOf(m[j])
  BY DEF MapPages

\* Walking keeps the two invariants of the walk.
LEMMA WalkStep ==
    TypeOK /\ CallInv /\ BitmapInv /\ SeenInv /\ [Next]_vars => BitmapInv' /\ SeenInv'
<1> SUFFICES ASSUME TypeOK, CallInv, BitmapInv, SeenInv, [Next]_vars
             PROVE  BitmapInv' /\ SeenInv'
  OBVIOUS
<1>1. WellFormed(list) /\ Len(list) \in Nat /\ list \in Seq(Areas) /\ k \in Nat /\ k > 0
  BY DEF CallInv, WellFormed, TypeOK
<1>2. CASE UNCHANGED callVars
  BY <1>2 DEF callVars, kernelVars, BitmapInv, SeenInv
<1>3. CASE ~ Working /\ pc' \notin {"area", "bitmap"} /\ seen' = seen /\ (seen' = {} \/ list' = list)
  BY <1>3 DEF BitmapInv, SeenInv, MapPages
<1>4. ASSUME List  PROVE BitmapInv' /\ SeenInv'
  <2>1. seen' = {} /\ pc' # "bitmap"
    BY <1>4 DEF List, End, CallInv, stable
  <2> QED  BY <2>1 DEF BitmapInv, SeenInv
<1>5. ASSUME Bitmap  PROVE BitmapInv' /\ SeenInv'
  <2> DEFINE a == list[k]
  <2>1. k \in 1..Len(list)
    BY <1>5, <1>1 DEF Bitmap
  <2>2. a.start \in Nat /\ a.end \in Nat /\ a.start < a.end
    BY <1>1, <2>1, AreaIs
  <2>3. /\ pc = "area" /\ pc' = "bitmap" /\ pg' = a.start /\ list' = list /\ k' = k /\ seen' = seen
        /\ i' = i /\ retBuf' = retBuf /\ arg' = arg
        /\ buf' = [b \in Bits(BufBytes(a)) |-> "stale"]
    BY <1>5 DEF Bitmap
  <2>4. i = 0 /\ retBuf = {} /\ arg = 0
    BY <2>3 DEF CallInv
  <2>5. arg' * ByteBits = 0 /\ DOMAIN buf' = Bits(BufBytes(a))
    BY <2>3, <2>4, SizesAssumption
  <2> HIDE DEF a
  <2>6. /\ a.start <= pg' /\ pg' <= a.end
        /\ 0 + i' = pg' - a.start
        /\ retBuf' = {b \in 0..(i' - 1) : a.start + 0 + b \in seen'}
    BY <2>2, <2>3, <2>4
  <2>7. BitmapInv'
    BY <2>3, <2>5, <2>6 DEF BitmapInv, a
  <2>8. SeenInv'
    BY <2>3, <2>1 DEF SeenInv, a
  <2> QED  BY <2>7, <2>8
<1>6. ASSUME BitmapFail  PROVE BitmapInv' /\ SeenInv'
  <2>1. /\ pc = "area" /\ pc' # "bitmap" /\ seen' = seen /\ list' = list /\ k \in 1..Len(list)
        /\ pc' = "area" => k' = k + 1
    BY <1>6, <1>1 DEF BitmapFail, End
  <2>2. \A p \in seen : p < list[k].start /\ p \in Nat
    BY <2>1 DEF SeenInv, TypeOK, Pages
  <2>3. ASSUME pc' = "area", k' <= Len(list')  PROVE \A p \in seen : p < list[k'].start
    <3>1. k' \in 1..Len(list) /\ k < k' /\ k' = k + 1
      BY <2>1, <2>3, <1>1
    <3> DEFINE s1 == list[k].start
               e1 == list[k].end
               s2 == list[k'].start
    <3>2. e1 <= s2
      BY <1>1, <2>1, <3>1, Ascending
    <3>3. s1 \in Nat /\ e1 \in Nat /\ s1 < e1
      BY <1>1, <2>1, AreaIs
    <3>4. s2 \in Nat
      BY <1>1, <3>1, AreaIs
    <3>5. \A p \in seen : p < s1 /\ p \in Nat
      BY <2>2
    <3> HIDE DEF s1, e1, s2
    <3>6. \A p \in seen : p < s2
      BY <3>2, <3>3, <3>4, <3>5
    <3> QED  BY <3>6 DEF s2
  <2> QED  BY <2>1, <2>3 DEF BitmapInv, SeenInv
<1>7. ASSUME Examine  PROVE BitmapInv' /\ SeenInv'
  <2>1. /\ pc = "bitmap" /\ pc' = "bitmap" /\ seen' \subseteq seen \cup {pg} /\ pg' = pg + 1 /\ list' = list /\ k' = k
    BY <1>7 DEF Examine, Round
  <2>2. pg \in PagesOf(list[k]) /\ pg \in Nat /\ k \in 1..Len(list)
    <3>1. pg < list[k].end
      BY <1>7 DEF Examine
    <3>2. list[k].start <= pg
      BY <2>1 DEF BitmapInv
    <3> QED  BY <2>1, <3>1, <3>2, WalkIs DEF PagesOf
  <2>3. pg \in MapPages(list)
    BY <1>1, <2>2, PagesInList
  <2>4. \A p \in seen : p < pg /\ p \in Nat
    BY <2>1 DEF SeenInv, TypeOK, Pages
  <2>5. seen' \subseteq MapPages(list')
    BY <2>1, <2>3 DEF SeenInv
  <2>6. \A p \in seen' : p < pg'
    BY <2>1, <2>2, <2>4
  <2>7. BitmapInv'
    BY <1>7, WalkExamine
  <2> QED  BY <2>1, <2>5, <2>6, <2>7 DEF SeenInv
<1>8. ASSUME BitmapEnd  PROVE BitmapInv' /\ SeenInv'
  <2>1. /\ pc = "bitmap" /\ pc' = "area" /\ seen' = seen /\ list' = list /\ k' = k + 1 /\ k \in 1..Len(list)
        /\ pg = list[k].end
    BY <1>8, <1>1 DEF BitmapEnd, CallInv
  <2>2. \A p \in seen : p < pg /\ p \in Nat
    BY <2>1 DEF SeenInv, TypeOK, Pages
  <2>3. ASSUME k' <= Len(list')  PROVE \A p \in seen : p < list[k'].start
    <3>1. k' \in 1..Len(list) /\ k < k'
      BY <2>1, <2>3, <1>1
    <3> DEFINE s2 == list[k'].start
    <3>2. pg <= s2
      BY <1>1, <2>1, <3>1, Ascending
    <3>3. s2 \in Nat /\ pg \in Nat
      BY <1>1, <2>1, <3>1, AreaIs
    <3> HIDE DEF s2
    <3>4. \A p \in seen : p < s2
      BY <2>2, <3>2, <3>3
    <3> QED  BY <3>4 DEF s2
  <2> QED  BY <2>1, <2>3 DEF BitmapInv, SeenInv
<1>9. ASSUME Call  PROVE BitmapInv' /\ SeenInv'
  <2>1. ASSUME Count \/ ListGone \/ \E a \in Apis : Start(a)  PROVE BitmapInv' /\ SeenInv'
    BY <2>1, <1>3 DEF Count, ListGone, Start, End, Working
  <2>2. ASSUME ExamineGone \/ Finish  PROVE BitmapInv' /\ SeenInv'
    BY <2>2 DEF ExamineGone, Finish, End, BitmapInv, SeenInv
  <2>3. ASSUME Return  PROVE BitmapInv' /\ SeenInv'
    BY <2>3 DEF Return, BitmapInv, SeenInv
  <2> QED  BY <1>4, <1>5, <1>6, <1>7, <1>8, <1>9, <2>1, <2>2, <2>3 DEF Call
<1>10. ASSUME Target  PROVE UNCHANGED callVars
  BY <1>10 DEF Target, Remap, Fault, Drop, Exit, Reap
<1>11. UNCHANGED vars => UNCHANGED callVars
  BY DEF vars, callVars
<1> QED  BY <1>2, <1>9, <1>10, <1>11 DEF Next

\* Everything that is known of a call while it walks the areas.
WalkInv == TypeOK /\ CallInv /\ BitmapInv /\ SeenInv

\* While IOCTL_CHECK_PROCESS_ADDR_PHY walks an area, the buffer, retBuf and the
\* place in them are what the pages behind the cursor call for.
THEOREM WalkCorrect == Spec => []WalkInv
<1>1. Init => BitmapInv /\ SeenInv
  BY DEF Init, BitmapInv, SeenInv
<1>2. WalkInv /\ [Next]_vars => WalkInv'
  BY BaseStep, WalkStep DEF WalkInv
<1> QED  BY <1>1, <1>2, BaseInit, PTL DEF Spec, WalkInv

\* At the end of every area the client's buffer holds exactly the bitmap that
\* the walk found: across bytes, chunks and the parameters that it overlays.
THEOREM BitmapDelivered == Spec => BitmapExact
<1>1. WalkInv /\ [Next]_vars =>
        [pc = "bitmap" /\ pc' = "area" =>
          \A p \in PagesOf(list[k]) :
              buf'[p - list[k].start] = IF p \in seen THEN "yes" ELSE "no"]_vars
  <2> SUFFICES ASSUME WalkInv, [Next]_vars, pc = "bitmap", pc' = "area"
               PROVE  \A p \in PagesOf(list[k]) :
                          buf'[p - list[k].start] = IF p \in seen THEN "yes" ELSE "no"
    OBVIOUS
  <2>1. BitmapEnd
    BY DEF Next, Call, Target, vars, Remap, Fault, Drop, Exit, Reap, callVars, Start, Count, List, ListGone,
           Bitmap, BitmapFail, Examine, ExamineGone, Finish, Return, End
  <2> QED  BY <2>1, WalkEnd DEF WalkInv
<1> QED  BY <1>1, WalkCorrect, PTL DEF Spec, BitmapExact

\* The kernel stays inside the buffers of its clients, although the map may have
\* grown since it was counted.
THEOREM BuffersRespected == Spec => BuffersFit
<1>1. ASSUME WalkInv, [Next]_vars, pc = "list"
      PROVE  8 + Len(list') * EntryLen <= BufLen
  <2>1. /\ map \in Maps /\ count \in Nat /\ proc \in {"alive", "nomm", "gone"}
    BY <1>1 DEF WalkInv, TypeOK
  <2>2. CASE List
    BY <2>1, <2>2, ListIs DEF List
  <2>3. CASE ~ List
    <3>1. list' = list
      BY <1>1, <2>3 DEF Next, Call, Target, vars, Remap, Fault, Drop, Exit, Reap, callVars, Start, Count,
                        ListGone, Bitmap, BitmapFail, Examine, ExamineGone, BitmapEnd, Finish, Return, End
    <3>2. list = <<>>
      BY <1>1 DEF WalkInv, CallInv
    <3>3. 8 + 0 * EntryLen <= BufLen
      BY <2>1, FitsInside
    <3> QED  BY <3>1, <3>2, <3>3
  <2> QED  BY <2>2, <2>3
<1>2. ASSUME WalkInv, [Next]_vars, pc = "bitmap"
      PROVE  DOMAIN buf' = DOMAIN buf
  <2>1. CASE Examine
    <3>1. /\ BitmapInv' /\ pc' = "bitmap" /\ list' = list /\ k' = k
      BY <1>1, <1>2, <2>1, WalkExamine DEF WalkInv, Examine
    <3> QED  BY <1>2, <3>1 DEF WalkInv, BitmapInv
  <2>2. CASE BitmapEnd
    BY <1>2, <2>2, WalkEnd DEF WalkInv
  <2>3. CASE ~ Examine /\ ~ BitmapEnd
    <3>1. buf' = buf
      BY <1>2, <2>3 DEF Next, Call, Target, vars, Remap, Fault, Drop, Exit, Reap, callVars, Start, Count,
                        ListGone, List, Bitmap, BitmapFail, ExamineGone, Finish, Return, End
    <3> QED  BY <3>1
  <2> QED  BY <2>1, <2>2, <2>3
<1>3. WalkInv /\ [Next]_vars =>
        [/\ pc = "list" => 8 + Len(list') * EntryLen <= BufLen
         /\ pc = "bitmap" => DOMAIN buf' = DOMAIN buf]_vars
  BY <1>1, <1>2
<1> QED  BY <1>3, WalkCorrect, PTL DEF Spec, BuffersFit

-----------------------------------------------------------------------------
(* The regions.                                                            *)

\* MaximalRuns of an area are the runs of the pages of it that were found.
LEMMA MaximalIs ==
    ASSUME NEW a \in Areas
    PROVE  MaximalRuns(a) = RunsOf(a, seen \cap PagesOf(a))
<1> DEFINE F == seen \cap PagesOf(a)
<1>1. a.start \in Nat /\ a.end \in Nat /\ a.end <= NPages /\ NPages \in Nat
  BY SizesAssumption DEF Areas
<1>2. ASSUME NEW r \in MaximalRuns(a)  PROVE r \in RunsOf(a, F)
  <2>1. PICK x \in PagesOf(a), y \in (a.start + 1)..a.end : r = Region(a, x, y)
    BY <1>2 DEF MaximalRuns
  <2>2. x \in 0..NPages /\ y \in 0..NPages /\ x \in Nat /\ y \in Nat /\ a.start <= x /\ y <= a.end
    BY <1>1, <2>1 DEF PagesOf
  <2>3. r \in Areas /\ r.start = x /\ r.end = y
    BY <2>1, <2>2, RegionIs
  <2>4. r.start < r.end /\ PagesOf(r) \subseteq seen /\ r.start - 1 \notin F /\ r.end \notin F
    BY <1>2 DEF MaximalRuns
  <2>5. x..(y - 1) \subseteq F
    <3>1. PagesOf(r) = x..(y - 1)
      BY <2>3 DEF PagesOf
    <3>2. x..(y - 1) \subseteq PagesOf(a)
      BY <1>1, <2>2 DEF PagesOf
    <3> QED  BY <2>4, <3>1, <3>2
  <2> HIDE DEF F
  <2> QED  BY <2>1, <2>2, <2>3, <2>4, <2>5 DEF RunsOf, IsRun
<1>3. ASSUME NEW r \in RunsOf(a, F)  PROVE r \in MaximalRuns(a)
  <2>1. r \in Areas /\ r = Region(a, r.start, r.end) /\ IsRun(a, F, r.start, r.end)
    BY <1>3 DEF RunsOf
  <2>2. /\ r.start \in PagesOf(a) /\ r.end \in (a.start + 1)..a.end
        /\ r.start < r.end /\ PagesOf(r) \subseteq seen /\ r.start - 1 \notin F /\ r.end \notin F
    BY <1>1, <2>1 DEF IsRun, PagesOf
  <2>3. r \in {Region(a, x, y) : x \in PagesOf(a), y \in (a.start + 1)..a.end}
    BY <2>1, <2>2
  <2> QED  BY <2>2, <2>3 DEF MaximalRuns
<1> QED  BY <1>2, <1>3

\* Without pages there are no runs.
LEMMA NoRuns ==
    ASSUME NEW a \in Areas
    PROVE  RunsOf(a, {}) = {}
  BY DEF RunsOf, IsRun

\* A page that is examined lies behind the areas that are done.
LEMMA Behind ==
    ASSUME NEW m, WellFormed(m), NEW h \in 1..Len(m), NEW j \in 1..Len(m), h < j,
           NEW p \in Nat, m[j].start <= p
    PROVE  p \notin PagesOf(m[h])
<1>1. m[h].end <= m[j].start /\ m[h].end \in Nat /\ m[j].start \in Nat
  BY Ascending, AreaIs
<1> QED  BY <1>1 DEF PagesOf

\* What an area contributes to the result.
LEMMA Contribution ==
    ASSUME WalkInv, BitmapEnd
    PROVE  LET a  == list[k]
               F  == seen \cap PagesOf(a)
               rs == Runs(a, buf')
           IN  /\ rs \in Seq(Areas) /\ result' = result \o rs
               /\ {rs[n] : n \in DOMAIN rs} = RunsOf(a, F)
               /\ \A m, n \in DOMAIN rs : m < n => rs[m].end <= rs[n].start
               /\ F \subseteq MapPages(rs)
<1> DEFINE a  == list[k]
           F  == seen \cap PagesOf(a)
           rs == Runs(a, buf')
<1>1. a \in Areas /\ a.start < a.end
  BY WalkIs DEF WalkInv, BitmapEnd
<1>2. FoundIn(a, buf') = F
  <2>1. \A p \in PagesOf(a) : buf'[p - a.start] = IF p \in seen THEN "yes" ELSE "no"
    BY WalkEnd DEF WalkInv
  <2> QED  BY <2>1 DEF FoundIn
<1>3. /\ rs \in Seq(Areas)
      /\ {rs[n] : n \in DOMAIN rs} = RunsOf(a, F)
      /\ \A m, n \in DOMAIN rs : m < n => rs[m].end <= rs[n].start
      /\ \A p \in F : \E n \in DOMAIN rs : p \in PagesOf(rs[n])
  BY <1>1, <1>2, RunsCorrect, RunsAll
<1>4. result' = result \o rs
  BY DEF BitmapEnd
<1> HIDE DEF rs, F, a
<1>5. F \subseteq MapPages(rs)
  BY <1>3 DEF MapPages
<1> QED  BY <1>3, <1>4, <1>5 DEF rs, F, a

\* The regions of the areas done so far end before the next area.
LEMMA DoneBefore ==
    ASSUME WellFormed(list), NEW n \in Nat, n < Len(list), NEW r \in Done(n)
    PROVE  r \in Areas /\ r.end \in Nat /\ r.end <= list[n + 1].start
<1>1. PICK j \in 1..n : r \in RunsOf(list[j], seen \cap PagesOf(list[j]))
  BY DEF Done
<1>2. j \in 1..Len(list) /\ n + 1 \in 1..Len(list) /\ j < n + 1
  BY DEF WellFormed
<1>3. list[j].end <= list[n + 1].start /\ list[j].end \in Nat /\ list[n + 1].start \in Nat
  BY <1>2, Ascending, AreaIs
<1>4. r \in Areas /\ r.end \in Nat /\ r.end <= list[j].end
  BY <1>1 DEF RunsOf, IsRun
<1> QED  BY <1>3, <1>4

\* The end of an area collects its regions.
LEMMA CollectEnd ==
    ASSUME WalkInv, Collected(k - 1), BitmapEnd
    PROVE  Collected(k - 1)'
<1> DEFINE a  == list[k]
           F  == seen \cap PagesOf(a)
           rs == Runs(a, buf')
<1>1. k \in 1..Len(list) /\ Len(list) \in Nat /\ WellFormed(list) /\ k \in Nat /\ k - 1 \in Nat
  BY WalkIs DEF WalkInv, BitmapEnd
<1>2. /\ rs \in Seq(Areas) /\ result' = result \o rs
      /\ {rs[n] : n \in DOMAIN rs} = RunsOf(a, F)
      /\ \A m, n \in DOMAIN rs : m < n => rs[m].end <= rs[n].start
      /\ F \subseteq MapPages(rs)
  BY Contribution
<1>3. list' = list /\ seen' = seen /\ result \in Seq(Areas)
  BY DEF BitmapEnd, WalkInv, TypeOK
<1>4. Done(k) = Done(k - 1) \cup RunsOf(a, F)
  <2>1. 1..k = 1..(k - 1) \cup {k}
    BY <1>1
  <2> QED  BY <2>1 DEF Done
<1> HIDE DEF rs, F, a
<1>5. /\ DOMAIN result' = 1..(Len(result) + Len(rs)) /\ Len(result) \in Nat /\ Len(rs) \in Nat
      /\ DOMAIN result = 1..Len(result) /\ DOMAIN rs = 1..Len(rs)
      /\ \A n \in 1..Len(result) : result'[n] = result[n]
      /\ \A n \in 1..Len(rs) : result'[Len(result) + n] = rs[n]
  BY <1>2, <1>3
<1>6. \A n \in DOMAIN result' : n \notin DOMAIN result =>
          n - Len(result) \in DOMAIN rs /\ n = Len(result) + (n - Len(result))
  BY <1>5
<1>7. {result'[m] : m \in DOMAIN result'} = Done(k)
  <2>1. ASSUME NEW m \in DOMAIN result'  PROVE result'[m] \in Done(k)
    <3>1. CASE m \in DOMAIN result
      BY <3>1, <1>4, <1>5 DEF Collected
    <3>2. CASE m \notin DOMAIN result
      <4> DEFINE l == m - Len(result)
      <4>1. l \in DOMAIN rs /\ m = Len(result) + l
        BY <1>6, <3>2
      <4> HIDE DEF l
      <4>2. result'[m] = rs[l]
        BY <4>1, <1>5
      <4> QED  BY <4>1, <4>2, <1>2, <1>4
    <3> QED  BY <3>1, <3>2
  <2>2. ASSUME NEW r \in Done(k)  PROVE \E m \in DOMAIN result' : r = result'[m]
    <3>1. CASE r \in Done(k - 1)
      <4>1. PICK m \in DOMAIN result : r = result[m]
        BY <3>1 DEF Collected
      <4> QED  BY <4>1, <1>5
    <3>2. CASE r \in RunsOf(a, F)
      <4>1. PICK n \in DOMAIN rs : r = rs[n]
        BY <3>2, <1>2
      <4>2. Len(result) + n \in DOMAIN result' /\ result'[Len(result) + n] = rs[n]
        BY <4>1, <1>5
      <4> QED  BY <4>1, <4>2
    <3> QED  BY <3>1, <3>2, <1>4
  <2> QED  BY <2>1, <2>2
<1>8. \A m, l \in DOMAIN result' : m < l => result'[m].end <= result'[l].start
  <2> SUFFICES ASSUME NEW m \in DOMAIN result', NEW l \in DOMAIN result', m < l
               PROVE  result'[m].end <= result'[l].start
    OBVIOUS
  <2>1. CASE l \in DOMAIN result
    <3>1. m \in DOMAIN result
      BY <1>5, <2>1
    <3> QED  BY <2>1, <3>1, <1>5 DEF Collected
  <2>2. CASE l \notin DOMAIN result /\ m \in DOMAIN result
    <3> DEFINE d == l - Len(result)
    <3>1. d \in DOMAIN rs /\ l = Len(result) + d
      BY <1>6, <2>2
    <3> HIDE DEF d
    <3>2. result'[l] = rs[d] /\ rs[d] \in RunsOf(a, F) /\ result'[m] = result[m] /\ result[m] \in Done(k - 1)
      BY <2>2, <3>1, <1>5, <1>2 DEF Collected
    <3>3. k - 1 < Len(list) /\ (k - 1) + 1 = k
      BY <1>1
    <3>4. result[m].end \in Nat /\ result[m].end <= list[k].start
      BY <1>1, <3>2, <3>3, DoneBefore
    <3>5. list[k].start <= rs[d].start /\ rs[d].start \in Nat /\ list[k].start \in Nat
      BY <1>1, <3>2, AreaIs DEF RunsOf, IsRun, a
    <3> QED  BY <3>2, <3>4, <3>5
  <2>3. CASE l \notin DOMAIN result /\ m \notin DOMAIN result
    <3> DEFINE d == l - Len(result)
               e == m - Len(result)
    <3>1. d \in DOMAIN rs /\ l = Len(result) + d /\ e \in DOMAIN rs /\ m = Len(result) + e
      BY <1>6, <2>3
    <3> HIDE DEF d, e
    <3>2. e < d /\ result'[l] = rs[d] /\ result'[m] = rs[e]
      BY <3>1, <1>5, <2>3
    <3> QED  BY <3>1, <3>2, <1>2
  <2> QED  BY <2>1, <2>2, <2>3
<1>9. MapPages(result) \cup MapPages(rs) \subseteq MapPages(result')
  <2>1. ASSUME NEW p \in MapPages(result)  PROVE p \in MapPages(result')
    <3>1. PICK n \in DOMAIN result : p \in PagesOf(result[n])
      BY <2>1 DEF MapPages
    <3>2. n \in DOMAIN result' /\ result'[n] = result[n]
      BY <1>5
    <3> QED  BY <3>1, <3>2 DEF MapPages
  <2>2. ASSUME NEW p \in MapPages(rs)  PROVE p \in MapPages(result')
    <3>1. PICK n \in DOMAIN rs : p \in PagesOf(rs[n])
      BY <2>2 DEF MapPages
    <3>2. Len(result) + n \in DOMAIN result' /\ result'[Len(result) + n] = rs[n]
      BY <1>5
    <3> QED  BY <3>1, <3>2 DEF MapPages
  <2> QED  BY <2>1, <2>2
<1>10. \A j \in 1..k : seen \cap PagesOf(list[j]) \subseteq MapPages(result')
  <2> TAKE j \in 1..k
  <2>1. CASE j = k
    BY <2>1, <1>2, <1>9 DEF F, a
  <2>2. CASE j # k
    <3>1. j \in 1..(k - 1)
      BY <1>1, <2>2
    <3> QED  BY <3>1, <1>9 DEF Collected
  <2> QED  BY <2>1, <2>2
<1>11. k' - 1 = k
  BY <1>1 DEF BitmapEnd
<1> QED  BY <1>3, <1>7, <1>8, <1>10, <1>11 DEF Collected, Done


\* An area without a page that was found adds nothing.
LEMMA CollectNone ==
    ASSUME NEW n \in Nat, Collected(n), list[n + 1] \in Areas, seen \cap PagesOf(list[n + 1]) = {}
    PROVE  Collected(n + 1)
<1>1. 1..(n + 1) = 1..n \cup {n + 1}
  OBVIOUS
<1>2. RunsOf(list[n + 1], seen \cap PagesOf(list[n + 1])) = {}
  BY NoRuns
<1>3. Done(n + 1) = Done(n)
  BY <1>1, <1>2 DEF Done
<1> QED  BY <1>1, <1>3 DEF Collected

\* Every step keeps the result in line with the areas that are done.
LEMMA ResultStep ==
    ASSUME WalkInv, ResultInv, [Next]_vars
    PROVE  ResultInv'
<1>1. CASE Target \/ UNCHANGED vars
  BY <1>1 DEF Target, vars, Remap, Fault, Drop, Exit, Reap, callVars, ResultInv, Listed, Working, Collected, Done
<1>2. ASSUME NEW a \in Apis, Start(a)  PROVE ResultInv'
  <2>1. out' # "ok" /\ pc' = "count"
    BY <1>2 DEF Start, WalkInv, CallInv
  <2> QED  BY <2>1 DEF ResultInv, Listed, Working
<1>3. CASE Count \/ ListGone \/ ExamineGone \/ Return
  <2>1. out' # "ok" /\ pc' \notin {"area", "bitmap"}
    BY <1>3 DEF Count, ListGone, ExamineGone, Return, End, WalkInv, CallInv
  <2> QED  BY <2>1 DEF ResultInv, Listed, Working
<1>4. CASE List
  <2> SUFFICES ASSUME Listed', api' # "lib"  PROVE Collected(k - 1)'
    BY DEF ResultInv
  <2>1. result' = <<>> /\ k' = 1 /\ seen' = {}
    <3>1. result = <<>> /\ k = 1 /\ seen = {} /\ out = "none"
      BY <1>4 DEF List, WalkInv, CallInv
    <3>2. k' = k /\ seen' = seen /\ api' = api
      BY <1>4 DEF List
    <3>3. result' = result
      <4>1. api # "lib"
        BY <3>2
      <4> QED  BY <1>4, <4>1 DEF List, End
    <3> QED  BY <3>1, <3>2, <3>3
  <2>2. 1..(k' - 1) = {}
    BY <2>1
  <2>3. DOMAIN result' = {}
    BY <2>1
  <2> QED  BY <2>2, <2>3 DEF Collected, Done
<1>5. CASE Bitmap \/ Finish
  <2>1. /\ pc = "area" /\ UNCHANGED <<api, list, k, result, seen>>
    BY <1>5 DEF Bitmap, Finish, End
  <2> QED  BY <2>1 DEF ResultInv, Listed, Working, Collected, Done
<1>6. CASE BitmapFail
  <2>1. CASE api # "ce"
    BY <1>6, <2>1 DEF BitmapFail, End, ResultInv, Listed, Working
  <2>2. CASE api = "ce"
    <3>1. Collected(k - 1) /\ pc = "area" /\ k <= Len(list) /\ k \in Nat \ {0}
      BY <1>6, <2>2 DEF BitmapFail, ResultInv, Listed, Working, WalkInv, TypeOK
    <3>2. list[k] \in Areas /\ list[k].start \in Nat
      <4>1. k \in 1..Len(list) /\ WellFormed(list)
        BY <3>1 DEF WalkInv, CallInv
      <4> QED  BY <4>1, AreaIs
    <3>3. seen \cap PagesOf(list[k]) = {}
      <4>1. \A p \in seen : p < list[k].start /\ p \in Nat
        BY <3>1 DEF WalkInv, SeenInv, TypeOK, Pages
      <4> QED  BY <3>2, <4>1 DEF PagesOf
    <3>4. Collected((k - 1) + 1)
      <4> DEFINE n == k - 1
      <4>1. n \in Nat /\ n + 1 = k
        BY <3>1
      <4>2. Collected(n) /\ list[n + 1] \in Areas /\ seen \cap PagesOf(list[n + 1]) = {}
        BY <3>1, <3>2, <3>3, <4>1
      <4> HIDE DEF n
      <4>3. Collected(n + 1)
        BY <4>1, <4>2, CollectNone
      <4> QED  BY <4>3 DEF n
    <3>5. k' - 1 = (k - 1) + 1 /\ list' = list /\ seen' = seen /\ result' = result
      BY <1>6, <2>2, <3>1 DEF BitmapFail
    <3> QED  BY <3>4, <3>5 DEF ResultInv, Collected, Done
  <2> QED  BY <2>1, <2>2
<1>7. CASE Examine
  <2>1. /\ pc = "bitmap" /\ Collected(k - 1)
        /\ UNCHANGED <<api, list, k, result, out, pc>>
        /\ seen' = seen \/ seen' = seen \cup {pg}
    BY <1>7 DEF Examine, Round, ResultInv, Listed, Working, WalkInv, CallInv
  <2>2. /\ WellFormed(list) /\ k \in 1..Len(list) /\ pg \in Nat /\ list[k].start <= pg
    BY <2>1, WalkIs DEF WalkInv
  <2>3. \A j \in 1..(k - 1) : seen' \cap PagesOf(list[j]) = seen \cap PagesOf(list[j])
    <3> TAKE j \in 1..(k - 1)
    <3>1. j \in 1..Len(list) /\ j < k
      BY <2>2
    <3>2. pg \notin PagesOf(list[j])
      BY <2>2, <3>1, Behind
    <3> QED  BY <2>1, <3>2
  <2>4. Done(k - 1)' = Done(k - 1)
    BY <2>1, <2>3 DEF Done
  <2>5. Collected(k - 1)'
    BY <2>1, <2>3, <2>4 DEF Collected
  <2> QED  BY <2>5 DEF ResultInv
<1>8. CASE BitmapEnd
  <2>1. Collected(k - 1)
    BY <1>8 DEF BitmapEnd, ResultInv, Listed, Working, WalkInv, CallInv
  <2>2. Collected(k - 1)'
    BY <1>8, <2>1, CollectEnd
  <2> QED  BY <2>2 DEF ResultInv
<1> QED  BY <1>1, <1>2, <1>3, <1>4, <1>5, <1>6, <1>7, <1>8 DEF Next, Call

\* Every reachable state satisfies WalkInv, and the result has the regions of
\* the areas that the client has worked off (get_mem_map of librwmem,
\* _rwProcMemDriver_VirtualQueryExFull of the CE server).
THEOREM ResultCorrect == Spec => [](WalkInv /\ ResultInv)
<1>1. Init => ResultInv
  BY DEF Init, ResultInv, Listed, Working
<1>2. WalkInv /\ ResultInv /\ [Next]_vars => ResultInv'
  BY ResultStep
<1> QED  BY <1>1, <1>2, WalkCorrect, PTL DEF Spec

\* The regions that get_mem_map of librwmem and the driver wrapper of the
\* CE server make of the bitmaps are exactly the maximal runs of pages that the
\* kernel found in each area, in ascending order.
THEOREM RunsAreExact == Spec => []RunsExact
<1>1. WalkInv /\ ResultInv => RunsExact
  <2> SUFFICES ASSUME WalkInv, ResultInv, out = "ok", api # "lib"
               PROVE  /\ {result[j] : j \in DOMAIN result} = UNION {MaximalRuns(list[j]) : j \in DOMAIN list}
                      /\ \A j, l \in DOMAIN result : j < l => result[j].end <= result[l].start
    BY DEF RunsExact
  <2>1. Collected(k - 1) /\ k - 1 = Len(list) /\ list \in Seq(Areas)
    BY DEF ResultInv, Listed, WalkInv, CallInv, TypeOK
  <2>2. DOMAIN list = 1..(k - 1) /\ \A j \in DOMAIN list : list[j] \in Areas
    BY <2>1
  <2>3. \A j \in DOMAIN list : MaximalRuns(list[j]) = RunsOf(list[j], seen \cap PagesOf(list[j]))
    BY <2>2, MaximalIs
  <2>4. Done(k - 1) = UNION {MaximalRuns(list[j]) : j \in DOMAIN list}
    BY <2>2, <2>3 DEF Done
  <2> QED  BY <2>1, <2>4 DEF Collected
<1> QED  BY <1>1, ResultCorrect, PTL


-----------------------------------------------------------------------------
(* The pages that had an entry all the time.                               *)

\* Every step keeps the histories in line with what was found.
LEMMA HistoryStep ==
    ASSUME WalkInv, HistoryInv, [Next]_vars
    PROVE  HistoryInv'
<1> USE DEF Listed, Working
<1>0. pc = "done" <=> out # "none"
  BY DEF WalkInv, CallInv
<1>1. CASE (\E m \in Maps : Remap(m)) \/ (\E p \in Pages : Fault(p) \/ Drop(p)) \/ Exit
  <2>1. PICK new, sw : SetEntries(new, sw)
    BY <1>1 DEF Remap, Fault, Drop, Exit
  <2>2. /\ always' \subseteq entries' \ swapped' /\ always' \subseteq always
        /\ pc # "idle" => entries' \cup ever \subseteq ever'
    BY <2>1 DEF SetEntries
  <2>3. UNCHANGED callVars
    BY <1>1 DEF Remap, Fault, Drop, Exit
  <2> QED  BY <2>2, <2>3 DEF HistoryInv, callVars, kernelVars
<1>2. CASE Reap \/ UNCHANGED vars
  BY <1>2 DEF Reap, vars, targetVars, callVars, kernelVars, stable, HistoryInv
<1>3. ASSUME NEW a \in Apis, Start(a)  PROVE HistoryInv'
  <2>1. /\ always' = entries' \ swapped' /\ ever' = entries' /\ seen' = {} /\ pc' = "count" /\ out' = "none"
    BY <1>3 DEF Start, targetVars, WalkInv, CallInv
  <2> QED  BY <2>1 DEF HistoryInv
<1>4. CASE Count \/ ListGone \/ ExamineGone
  <2>1. /\ UNCHANGED <<entries, swapped, always, ever, seen>>
        /\ pc # "idle" /\ pc' \notin {"area", "bitmap"} /\ out' # "ok"
    BY <1>0, <1>4 DEF Count, ListGone, ExamineGone, End, targetVars, stable
  <2> QED  BY <2>1 DEF HistoryInv
<1>5. CASE Return
  <2>1. always' = {} /\ seen' = {} /\ pc' = "idle" /\ out' = "none"
    BY <1>5 DEF Return
  <2> QED  BY <2>1 DEF HistoryInv
<1>6. CASE List
  <2>1. /\ UNCHANGED <<map, entries, swapped, always, ever, seen, api, k>> /\ pc # "idle" /\ k = 1
    BY <1>6 DEF List, targetVars, stable, WalkInv, CallInv
  <2>2. ~ partial' => always' \subseteq MapPages(list')
    <3> HAVE ~ partial'
    <3>1. ListCount = Len(map) /\ list' = SubSeq(map, 1, ListCount)
      BY <1>6 DEF List
    <3>2. map \in Maps /\ WellFormed(map) /\ map \in Seq(Areas)
      BY MapsWellFormed DEF WalkInv, TypeOK
    <3>3. list' = map
      <4>1. Len(map) \in Int /\ Len(map) <= Len(map)
        BY <3>2
      <4> QED  BY <3>1, <3>2, <4>1, Prefix
    <3> QED  BY <2>1, <3>3 DEF HistoryInv, WalkInv, TypeOK
  <2>3. pc' # "bitmap" /\ 1..(k' - 1) = {}
    <3>1. pc' # "bitmap"
      BY <1>6 DEF List, End
    <3> QED  BY <2>1, <3>1
  <2> QED  BY <2>1, <2>2, <2>3 DEF HistoryInv
<1>7. CASE Bitmap
  <2>1. /\ UNCHANGED <<entries, swapped, always, ever, seen, api, k, list, partial>>
        /\ pc = "area" /\ pg' = list[k].start /\ k \in 1..Len(list) /\ WellFormed(list) /\ out # "ok"
    BY <1>0, <1>7 DEF Bitmap, targetVars, stable, WalkInv, CallInv, TypeOK
  <2>2. \A p \in always \cap PagesOf(list[k]) : ~ (p < pg')
    <3>1. list[k].start \in Nat
      BY <2>1, AreaIs
    <3> QED  BY <2>1, <3>1 DEF PagesOf
  <2> QED  BY <2>1, <2>2 DEF HistoryInv
<1>8. CASE BitmapFail
  <2>1. /\ UNCHANGED <<entries, swapped, always, ever, seen, api, list>>
        /\ pc = "area" /\ out # "ok" /\ pc' # "bitmap"
        /\ \/ partial'
           \/ pc' = "done" /\ out' = "err"
    BY <1>0, <1>8 DEF BitmapFail, End, targetVars, stable
  <2> QED  BY <2>1 DEF HistoryInv
<1>9. CASE Examine
  <2>0. PICK found \in BOOLEAN : (found => pg \in entries) /\ (pg \in entries \ swapped => found) /\ Round(found)
    BY <1>9 DEF Examine
  <2>1. /\ UNCHANGED <<entries, swapped, always, ever, api, k, list, partial, pc, out>>
        /\ pc = "bitmap" /\ pg' = pg + 1 /\ pg \in Nat
    BY <1>9 DEF Examine, targetVars, stable, WalkInv, TypeOK
  <2>4. seen' = IF found THEN seen \cup {pg} ELSE seen
    BY <2>0 DEF Round
  <2>2. ~ partial => \A p \in always \cap PagesOf(list[k]) : p < pg' => p \in seen'
    <3> SUFFICES ASSUME ~ partial, NEW p \in always \cap PagesOf(list[k]), p < pg'  PROVE p \in seen'
      OBVIOUS
    <3>1. p \in Nat
      BY DEF WalkInv, TypeOK, Pages
    <3>2. CASE p = pg
      BY <2>0, <2>1, <2>4, <3>2 DEF HistoryInv
    <3>3. CASE p < pg
      BY <2>1, <2>4, <3>3 DEF HistoryInv
    <3> QED  BY <2>1, <3>1, <3>2, <3>3
  <2>3. seen \subseteq seen' /\ entries \cup seen' \subseteq ever
    BY <2>0, <2>1, <2>4 DEF HistoryInv
  <2> QED  BY <2>1, <2>2, <2>3 DEF HistoryInv
<1>10. CASE BitmapEnd
  <2>1. /\ UNCHANGED <<entries, swapped, always, ever, api, list, partial, out, seen>>
        /\ pc = "bitmap" /\ pg = list[k].end /\ k' = k + 1 /\ k \in Nat /\ pc' = "area"
    BY <1>10 DEF BitmapEnd, targetVars, stable, WalkInv, TypeOK
  <2>2. ~ partial /\ api # "lib" => \A j \in 1..(k' - 1) : always \cap PagesOf(list[j]) \subseteq seen
    <3> SUFFICES ASSUME ~ partial, api # "lib", NEW j \in 1..(k' - 1), NEW p \in always \cap PagesOf(list[j])
                 PROVE  p \in seen
      OBVIOUS
    <3>1. CASE j = k
      <4>1. k \in 1..Len(list) /\ WellFormed(list)
        BY <2>1 DEF WalkInv, CallInv
      <4>2. list[k].start \in Nat /\ list[k].end \in Nat
        BY <4>1, AreaIs
      <4>3. p < pg
        BY <2>1, <3>1, <4>2 DEF PagesOf
      <4> QED  BY <2>1, <3>1, <4>3 DEF HistoryInv
    <3>2. CASE j # k
      <4>1. j \in 1..(k - 1)
        BY <2>1, <3>2
      <4> QED  BY <2>1, <4>1 DEF HistoryInv
    <3> QED  BY <3>1, <3>2
  <2> QED  BY <2>1, <2>2 DEF HistoryInv
<1>11. CASE Finish
  <2>1. /\ UNCHANGED <<entries, swapped, always, ever, api, list, k, partial, seen>> /\ pc = "area" /\ pc' = "done"
    BY <1>11 DEF Finish, End, targetVars, stable
  <2> QED  BY <2>1 DEF HistoryInv
<1> QED  BY <1>1, <1>2, <1>3, <1>4, <1>5, <1>6, <1>7, <1>8, <1>9, <1>10, <1>11 DEF Next, Call, Target

\* A call that succeeds with the whole list reports every page that had an entry
\* in the page table of the target throughout, and with the bitmaps no page that
\* never had one, while the target maps, unmaps and faults: the list and the
\* bitmaps are taken at different times (sys.c, two ioctls).
THEOREM StablePagesReported == Spec => []StableReported
<1>1. Init => HistoryInv
  BY DEF Init, HistoryInv, Listed, Working
<1>2. WalkInv /\ HistoryInv /\ [Next]_vars => HistoryInv'
  BY HistoryStep
<1>3. WalkInv /\ ResultInv /\ HistoryInv => StableReported
  <2> SUFFICES ASSUME WalkInv, ResultInv, HistoryInv, out = "ok", ~ partial
               PROVE  /\ always \subseteq MapPages(result)
                      /\ api # "lib" => MapPages(result) \subseteq ever
    BY DEF StableReported
  <2>1. pc = "done" /\ always \subseteq MapPages(list)
    BY DEF WalkInv, CallInv, HistoryInv, Listed
  <2>2. CASE api = "lib"
    BY <2>1, <2>2 DEF WalkInv, CallInv
  <2>3. CASE api # "lib"
    <3>1. Collected(k - 1) /\ DOMAIN list = 1..(k - 1)
      BY <2>3 DEF ResultInv, Listed, WalkInv, CallInv, WellFormed
    <3>2. ASSUME NEW p \in always  PROVE p \in MapPages(result)
      <4>1. PICK j \in 1..(k - 1) : p \in PagesOf(list[j])
        BY <2>1, <3>1, <3>2 DEF MapPages
      <4>2. p \in seen
        BY <2>3, <3>2, <4>1 DEF HistoryInv, Listed
      <4> QED  BY <3>1, <4>1, <4>2 DEF Collected
    <3>3. ASSUME NEW p \in MapPages(result)  PROVE p \in ever
      <4>1. PICK m \in DOMAIN result : p \in PagesOf(result[m])
        BY <3>3 DEF MapPages
      <4>2. result[m] \in Done(k - 1)
        BY <3>1 DEF Collected
      <4>3. PICK j \in 1..(k - 1) : result[m] \in RunsOf(list[j], seen \cap PagesOf(list[j]))
        BY <4>2 DEF Done
      <4>4. PagesOf(result[m]) \subseteq seen
        BY <4>3 DEF RunsOf, IsRun, PagesOf
      <4> QED  BY <2>1, <4>1, <4>4 DEF HistoryInv
    <3> QED  BY <3>2, <3>3
  <2> QED  BY <2>2, <2>3
<1> QED  BY <1>1, <1>2, <1>3, ResultCorrect, PTL DEF Spec


-----------------------------------------------------------------------------
(* The answers.                                                            *)

\* What a list of regions says of the pages that were found.
LEMMA Answered ==
    ASSUME WalkInv, ResultInv, out = "ok", api # "lib"
    PROVE  /\ MapPages(result) = seen
           /\ \A n \in DOMAIN result :
                  /\ result[n].start \in Nat /\ result[n].end \in Nat /\ result[n].start < result[n].end
                  /\ \A p \in PagesOf(result[n]) : ProtectionOf(p) = Protection(result[n].flags)
           /\ \A m, n \in DOMAIN result : m < n => result[m].end <= result[n].start
<1>1. /\ Collected(k - 1) /\ DOMAIN list = 1..(k - 1) /\ 1..Len(list) = 1..(k - 1)
      /\ WellFormed(list) /\ seen \subseteq MapPages(list)
  BY DEF ResultInv, Listed, WalkInv, CallInv, SeenInv, WellFormed
<1>2. ASSUME NEW n \in DOMAIN result
      PROVE  /\ result[n].start \in Nat /\ result[n].end \in Nat /\ result[n].start < result[n].end
             /\ PagesOf(result[n]) \subseteq seen
             /\ \A p \in PagesOf(result[n]) : ProtectionOf(p) = Protection(result[n].flags)
  <2> DEFINE r == result[n]
  <2>1. PICK j \in 1..(k - 1) : r \in RunsOf(list[j], seen \cap PagesOf(list[j]))
    <3>1. r \in Done(k - 1)
      BY <1>1 DEF Collected
    <3> QED  BY <3>1 DEF Done
  <2>2. /\ r \in Areas /\ r = Region(list[j], r.start, r.end)
        /\ IsRun(list[j], seen \cap PagesOf(list[j]), r.start, r.end)
    BY <2>1 DEF RunsOf
  <2> HIDE DEF r
  <2>3. r.start \in Nat /\ r.end \in Nat /\ r.start < r.end /\ PagesOf(r) \subseteq seen \cap PagesOf(list[j])
    BY <2>2 DEF IsRun, PagesOf
  <2>4. r.flags = list[j].flags
    <3>1. list[j] \in Areas /\ r.start \in 0..NPages /\ r.end \in 0..NPages
      BY <1>1, <2>2, AreaIs DEF Areas
    <3> QED  BY <2>2, <3>1, RegionIs
  <2>5. ASSUME NEW p \in PagesOf(r)  PROVE ProtectionOf(p) = Protection(r.flags)
    <3> DEFINE c == CHOOSE h \in DOMAIN list : p \in PagesOf(list[h])
    <3>1. j \in DOMAIN list /\ p \in PagesOf(list[j]) /\ p \in seen
      BY <1>1, <2>1, <2>3, <2>5
    <3>2. c \in DOMAIN list /\ p \in PagesOf(list[c])
      BY <3>1
    <3>3. ProtectionOf(p) = Protection(list[c].flags)
      BY <3>1 DEF ProtectionOf
    <3> HIDE DEF c
    <3>4. c = j
      <4>1. \A h, l \in 1..Len(list) : h < l => list[h].end <= list[l].start
        BY <1>1, Ascending
      <4>2. /\ list[c].end \in Nat /\ list[j].end \in Nat /\ list[c].start \in Nat /\ list[j].start \in Nat
            /\ c \in 1..Len(list) /\ j \in 1..Len(list)
        BY <1>1, <3>1, <3>2, AreaIs
      <4>3. p \in Nat /\ list[c].start <= p /\ p < list[c].end /\ list[j].start <= p /\ p < list[j].end
        BY <3>1, <3>2, <4>2 DEF PagesOf
      <4>4. ~ (c < j) /\ ~ (j < c)
        BY <4>1, <4>2, <4>3
      <4> QED  BY <4>2, <4>4
    <3> QED  BY <2>4, <3>3, <3>4
  <2> QED  BY <2>3, <2>5 DEF r
<1>3. MapPages(result) \subseteq seen
  BY <1>2 DEF MapPages
<1>4. seen \subseteq MapPages(result)
  <2> SUFFICES ASSUME NEW p \in seen  PROVE p \in MapPages(result)
    OBVIOUS
  <2>1. PICK j \in 1..(k - 1) : p \in PagesOf(list[j])
    BY <1>1 DEF MapPages
  <2> QED  BY <1>1, <2>1 DEF Collected
<1> QED  BY <1>1, <1>2, <1>3, <1>4 DEF Collected

\* The first region that ends behind page p.
LEMMA FirstPassed ==
    ASSUME NEW l \in Seq(Areas), NEW p, NEW j, Passed(l, p) # {},
           j = CHOOSE h \in Passed(l, p) : \A g \in Passed(l, p) : h <= g
    PROVE  j \in DOMAIN l /\ l[j].end > p /\ \A g \in DOMAIN l : l[g].end > p => j <= g
<1> DEFINE js == Passed(l, p)
<1>1. js \in SUBSET Nat /\ js # {}
  <2>1. DOMAIN l \subseteq Nat
    OBVIOUS
  <2> QED  BY <2>1 DEF Passed
<1>2. \E h \in js : \A g \in js : h <= g
  <2> HIDE DEF js
  <2> QED  BY <1>1, LeastNat
<1>3. j \in Passed(l, p) /\ \A g \in Passed(l, p) : j <= g
  BY <1>2
<1> QED  BY <1>3 DEF Passed

\* What VirtualQueryEx answers from the list fits the pages that were found.
LEMMA QueryRight ==
    ASSUME WalkInv, ResultInv, out = "ok", api # "lib", NEW p \in Pages,
           NEW a, a = VirtualQueryEx(result, p)
    PROVE  /\ a.found <=> \E q \in seen : q >= p
           /\ a.found => a.size > 0
           /\ \A q \in p..(p + a.size - 1) : ProtectionOf(q) = a.protection
<1>1. result \in Seq(Areas) /\ p \in Nat /\ seen \subseteq Nat
  BY SizesAssumption DEF WalkInv, TypeOK, Pages
<1>2. /\ MapPages(result) = seen
      /\ \A n \in DOMAIN result :
             /\ result[n].start \in Nat /\ result[n].end \in Nat /\ result[n].start < result[n].end
             /\ \A q \in PagesOf(result[n]) : ProtectionOf(q) = Protection(result[n].flags)
      /\ \A m, n \in DOMAIN result : m < n => result[m].end <= result[n].start
  BY Answered
<1>3. \A q \in seen : q >= p => \E g \in DOMAIN result :
           q \in PagesOf(result[g]) /\ result[g].end > p /\ result[g].start <= q
  <2> SUFFICES ASSUME NEW q \in seen, q >= p
               PROVE  \E g \in DOMAIN result : q \in PagesOf(result[g]) /\ result[g].end > p /\ result[g].start <= q
    OBVIOUS
  <2>1. PICK g \in DOMAIN result : q \in PagesOf(result[g])
    BY <1>2 DEF MapPages
  <2>2. result[g].start \in Nat /\ result[g].end \in Nat /\ q \in Nat
    BY <1>1, <1>2
  <2> QED  BY <1>1, <2>1, <2>2 DEF PagesOf
<1>4. CASE Passed(result, p) = {}
  <2>1. a.found = FALSE /\ a.size = 0
    BY <1>4 DEF VirtualQueryEx
  <2>2. \A q \in seen : ~ (q >= p)
    BY <1>3, <1>4 DEF Passed
  <2>3. p..(p + a.size - 1) = {}
    BY <1>1, <2>1
  <2> QED  BY <2>1, <2>2, <2>3
<1>5. CASE Passed(result, p) # {}
  <2> DEFINE j == CHOOSE h \in Passed(result, p) : \A g \in Passed(result, p) : h <= g
             r == result[j]
  <2>1. j \in DOMAIN result /\ r.end > p /\ \A g \in DOMAIN result : result[g].end > p => j <= g
    BY <1>1, <1>5, FirstPassed
  <2>2. a = IF p >= r.start
            THEN [found |-> TRUE, size |-> r.end - p, protection |-> Protection(r.flags)]
            ELSE [found |-> TRUE, size |-> r.start - p, protection |-> "PAGE_NOACCESS"]
    BY <1>5 DEF VirtualQueryEx
  <2> HIDE DEF j
  <2>3. r.start \in Nat /\ r.end \in Nat /\ r.start < r.end
    BY <1>2, <2>1
  <2>4. a.found /\ a.size > 0
    BY <1>1, <2>1, <2>2, <2>3
  <2>5. \E q \in seen : q >= p
    <3>1. r.end - 1 \in PagesOf(r) /\ r.end - 1 >= p
      BY <1>1, <2>1, <2>3 DEF PagesOf
    <3>2. r.end - 1 \in seen
      BY <1>2, <2>1, <3>1 DEF MapPages
    <3> QED  BY <3>1, <3>2
  <2>6. ASSUME NEW q \in p..(p + a.size - 1)  PROVE ProtectionOf(q) = a.protection
    <3>1. CASE p >= r.start
      <4>1. a.size = r.end - p /\ a.protection = Protection(r.flags)
        BY <2>2, <3>1
      <4>2. q \in PagesOf(r)
        BY <1>1, <2>3, <2>6, <3>1, <4>1 DEF PagesOf
      <4> QED  BY <1>2, <2>1, <4>1, <4>2
    <3>2. CASE ~ (p >= r.start)
      <4>1. a.size = r.start - p /\ a.protection = "PAGE_NOACCESS"
        BY <2>2, <3>2
      <4>2. q \in Nat /\ q >= p /\ q < r.start
        BY <1>1, <2>3, <2>6, <4>1
      <4>3. q \notin seen
        <5> SUFFICES ASSUME q \in seen  PROVE FALSE
          OBVIOUS
        <5>1. PICK g \in DOMAIN result : result[g].end > p /\ result[g].start <= q
          BY <1>3, <4>2
        <5>2. j <= g /\ result[g].start \in Nat /\ j \in Nat /\ g \in Nat
          BY <1>1, <1>2, <2>1, <5>1
        <5>3. CASE g = j
          BY <2>3, <4>2, <5>1, <5>2, <5>3
        <5>4. CASE j < g
          <6>1. r.end <= result[g].start
            BY <1>2, <2>1, <5>1, <5>4
          <6> HIDE DEF r
          <6> QED  BY <2>3, <4>2, <5>1, <5>2, <6>1
        <5> QED  BY <5>2, <5>3, <5>4
      <4> QED  BY <4>1, <4>3 DEF ProtectionOf
    <3> QED  BY <3>1, <3>2
  <2> QED  BY <2>4, <2>5, <2>6
<1> QED  BY <1>4, <1>5

\* The answers of VirtualQueryEx and VirtualQueryExFull (api.cpp) fit the pages
\* that the driver found: each is right about the protection of every page that
\* it covers, and walking up by the sizes visits every page.
THEOREM AnswersAreRight == Spec => []AnswersRight
<1>1. WalkInv /\ ResultInv => AnswersRight
  <2> SUFFICES ASSUME WalkInv, ResultInv, out = "ok", api = "ce"
               PROVE  /\ \A p \in Pages : LET a == VirtualQueryEx(result, p)
                            IN  /\ a.found <=> \E q \in seen : q >= p
                                /\ a.found => a.size > 0
                                /\ \A q \in p..(p + a.size - 1) : ProtectionOf(q) = a.protection
                      /\ MapPages(VirtualQueryExFull(result, FALSE)) =
                             {p \in Pages : ProtectionOf(p) # "PAGE_NOACCESS"}
    BY DEF AnswersRight
  <2>0. api # "lib"
    OBVIOUS
  <2>1. \A p \in Pages : LET a == VirtualQueryEx(result, p)
                         IN  /\ a.found <=> \E q \in seen : q >= p
                             /\ a.found => a.size > 0
                             /\ \A q \in p..(p + a.size - 1) : ProtectionOf(q) = a.protection
    BY <2>0, QueryRight
  <2>2. /\ MapPages(result) = seen
        /\ \A n \in DOMAIN result :
               \A q \in PagesOf(result[n]) : ProtectionOf(q) = Protection(result[n].flags)
    BY <2>0, Answered
  <2>3. result \in Seq(Areas) /\ seen \subseteq Pages
    BY DEF WalkInv, TypeOK
  <2>4. \A p : p \in MapPages(VirtualQueryExFull(result, FALSE)) <=>
                   \E n \in DOMAIN result : p \in PagesOf(result[n]) /\ Reported(result[n], FALSE)
    BY <2>3, ReportPages
  <2>5. \A n \in DOMAIN result : Reported(result[n], FALSE) <=> Protection(result[n].flags) # "PAGE_NOACCESS"
    BY DEF Reported
  <2>6. ASSUME NEW p
        PROVE  p \in MapPages(VirtualQueryExFull(result, FALSE)) <=>
                   p \in Pages /\ ProtectionOf(p) # "PAGE_NOACCESS"
    <3>1. ASSUME NEW n \in DOMAIN result, p \in PagesOf(result[n]), Reported(result[n], FALSE)
          PROVE  p \in Pages /\ ProtectionOf(p) # "PAGE_NOACCESS"
      BY <2>2, <2>3, <2>5, <3>1 DEF MapPages
    <3>2. ASSUME ProtectionOf(p) # "PAGE_NOACCESS"
          PROVE  \E n \in DOMAIN result : p \in PagesOf(result[n]) /\ Reported(result[n], FALSE)
      <4>1. p \in seen
        BY <3>2 DEF ProtectionOf
      <4>2. PICK n \in DOMAIN result : p \in PagesOf(result[n])
        BY <2>2, <4>1 DEF MapPages
      <4> QED  BY <2>2, <2>5, <3>2, <4>2
    <3> QED  BY <2>4, <3>1, <3>2
  <2> QED  BY <2>1, <2>6
<1> QED  BY <1>1, ResultCorrect, PTL


=============================================================================
