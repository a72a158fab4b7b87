---------------------------- MODULE RwMemIoProofs ----------------------------
(***************************************************************************)
(* Proofs about RwMemIo, for every number of threads, page size, address   *)
(* space, memory map and set of requests.                                  *)
(***************************************************************************)
EXTENDS RwMemIo, TLAPS

-----------------------------------------------------------------------------
(* Arithmetic of pages.                                                    *)

\* An address is a page number and an offset.
LEMMA Split ==
    ASSUME NEW a \in Nat
    PROVE  /\ PageOf(a) \in Nat
           /\ Offset(a) \in 0..(PageSize - 1)
           /\ a = PageOf(a) * PageSize + Offset(a)
  BY PagesAssumption DEF PageOf, Offset

\* The split into a page number and an offset is unique.
LEMMA SplitUnique ==
    ASSUME NEW a \in Nat, NEW p \in Nat, NEW o \in 0..(PageSize - 1),
           a = p * PageSize + o
    PROVE  PageOf(a) = p /\ Offset(a) = o
<1> DEFINE q == PageOf(a)
           r == Offset(a)
<1>1. q \in Nat /\ r \in 0..(PageSize - 1) /\ a = q * PageSize + r
  BY Split
<1> HIDE DEF q, r
<1>2. PageSize \in Nat /\ PageSize > 0
  BY PagesAssumption
<1>3. CASE q = p
  BY <1>1, <1>2, <1>3 DEF q, r
<1>4. CASE q < p
  <2>1. PICK d \in Nat : p = q + 1 + d
    <3>1. p - q - 1 \in Nat /\ p = q + 1 + (p - q - 1)
      BY <1>1, <1>4
    <3> QED BY <3>1
  <2>2. p * PageSize = q * PageSize + PageSize + d * PageSize
    BY <1>1, <1>2, <2>1
  <2>3. d * PageSize \in Nat /\ q * PageSize \in Nat
    BY <1>1, <1>2
  <2> QED BY <1>1, <1>2, <2>2, <2>3
<1>5. CASE p < q
  <2>1. PICK d \in Nat : q = p + 1 + d
    <3>1. q - p - 1 \in Nat /\ q = p + 1 + (q - p - 1)
      BY <1>1, <1>5
    <3> QED BY <3>1
  <2>2. q * PageSize = p * PageSize + PageSize + d * PageSize
    BY <1>1, <1>2, <2>1
  <2>3. d * PageSize \in Nat /\ p * PageSize \in Nat
    BY <1>1, <1>2
  <2> QED BY <1>1, <1>2, <2>2, <2>3
<1> QED BY <1>1, <1>3, <1>4, <1>5

\* The bytes of a chunk lie in one page, at consecutive offsets.
LEMMA SamePage ==
    ASSUME NEW a \in Nat, NEW i \in Nat, i < PageSize - Offset(a)
    PROVE  PageOf(a + i) = PageOf(a) /\ Offset(a + i) = Offset(a) + i
<1> DEFINE p == PageOf(a)
           o == Offset(a)
<1>1. p \in Nat /\ o \in 0..(PageSize - 1) /\ a = p * PageSize + o
  BY Split
<1>2. i < PageSize - o
  OBVIOUS
<1> HIDE DEF p, o
<1>3. o + i \in 0..(PageSize - 1) /\ a + i \in Nat
  BY <1>1, <1>2, PagesAssumption
<1>4. p * PageSize \in Nat
  BY <1>1, PagesAssumption
<1>5. a + i = p * PageSize + (o + i)
  BY <1>1, <1>4, <1>3
<1>6. PageOf(a + i) = p /\ Offset(a + i) = o + i
  BY <1>1, <1>3, <1>5, SplitUnique
<1> QED BY <1>6 DEF p, o

\* A chunk is not empty and ends in the page where it starts.
LEMMA ChunkSize ==
    ASSUME NEW a \in Nat, NEW n \in Nat
    PROVE  /\ SizeInsidePage(a, n) \in Nat
           /\ SizeInsidePage(a, n) <= n
           /\ SizeInsidePage(a, n) <= PageSize - Offset(a)
           /\ n > 0 => SizeInsidePage(a, n) > 0
<1>1. Offset(a) \in 0..(PageSize - 1) /\ PageSize \in Nat
  BY Split, PagesAssumption
<1> QED BY <1>1 DEF SizeInsidePage

\* Pages are in the order of their addresses.
LEMMA Monotone ==
    ASSUME NEW a \in Nat, NEW b \in Nat, a <= b
    PROVE  PageOf(a) <= PageOf(b)
<1> DEFINE p == PageOf(a)
           q == PageOf(b)
<1>1. p \in Nat /\ Offset(a) \in 0..(PageSize - 1) /\ a = p * PageSize + Offset(a)
  BY Split
<1>2. q \in Nat /\ Offset(b) \in 0..(PageSize - 1) /\ b = q * PageSize + Offset(b)
  BY Split
<1>3. PageSize \in Nat /\ PageSize > 0
  BY PagesAssumption
<1> HIDE DEF p, q
<1>4. ASSUME q < p PROVE FALSE
  <2>1. PICK d \in Nat : p = q + 1 + d
    <3>1. p - q - 1 \in Nat /\ p = q + 1 + (p - q - 1)
      BY <1>1, <1>2, <1>4
    <3> QED BY <3>1
  <2>2. p * PageSize = q * PageSize + PageSize + d * PageSize
    BY <1>2, <1>3, <2>1
  <2>3. d * PageSize \in Nat /\ q * PageSize \in Nat
    BY <1>2, <1>3
  <2> QED BY <1>1, <1>2, <1>3, <2>2, <2>3
<1> QED BY <1>1, <1>2, <1>4 DEF p, q

\* An address below the end of page q lies in page q or before.
LEMMA BelowEnd ==
    ASSUME NEW a \in Nat, NEW q \in Nat, a < (q + 1) * PageSize
    PROVE  PageOf(a) <= q
<1> DEFINE e == q * PageSize + (PageSize - 1)
<1>1. PageSize \in Nat /\ PageSize > 0 /\ q * PageSize \in Nat
  BY PagesAssumption
<1>2. (q + 1) * PageSize = q * PageSize + PageSize
  BY <1>1
<1>3. e \in Nat /\ a <= e /\ PageSize - 1 \in 0..(PageSize - 1)
  BY <1>1, <1>2
<1>4. PageOf(e) = q
  BY <1>1, <1>3, SplitUnique
<1> HIDE DEF e
<1> QED BY <1>3, <1>4, Monotone

-----------------------------------------------------------------------------
(* The calls.                                                              *)

InChunk == {"mk", "copy", "restore"}

\* A call never runs past its size, and while it is between the walk and the
\* end of an iteration its page has an entry.
CallInv ==
    \A c \in Callers :
        /\ done[c] <= req[c].size
        /\ pc[c] \in {"idle", "check"}
             => done[c] = 0 /\ moved[c] = {} /\ astray[c] = {}
        /\ pc[c] \in InChunk => /\ done[c] < req[c].size
                                /\ Page(c) \in Pages
                                /\ entry[Page(c)] # "none"
        /\ pc[c] = "mk" => ~ old_can[c] /\ req[c].force
        /\ pc[c] = "restore" => ~ old_can[c] /\ req[c].force
        /\ pc[c] = "done" => ret[c] = done[c] \/ ret[c] < 0

\* Only pages that the kernel may take out of memory have stray entries.
EntryInv == \A p \in Pages : entry[p] = "stray" => p \in Reclaimable

BaseInv == TypeOK /\ CallInv /\ EntryInv

\* What a call's next chunk is, given the invariant.
LEMMA ChunkFacts ==
    ASSUME TypeOK, CallInv, NEW c \in Callers, pc[c] \in InChunk
    PROVE  /\ Cursor(c) \in Nat
           /\ Chunk(c) \in Nat
           /\ 0 < Chunk(c)
           /\ done[c] + Chunk(c) \in Nat
           /\ done[c] + Chunk(c) <= req[c].size
           /\ Chunk(c) <= PageSize - Offset(Cursor(c))
           /\ Offset(Cursor(c)) \in Nat
<1>1. req[c] \in AllRequests /\ done[c] \in Nat /\ done[c] < req[c].size
  BY DEF TypeOK, CallInv
<1>2. req[c].size - done[c] \in Nat /\ req[c].size - done[c] > 0
      /\ Cursor(c) \in Nat
  BY <1>1 DEF Cursor, AllRequests
<1>3. Offset(Cursor(c)) \in Nat
  BY <1>2, Split
<1>4. /\ Chunk(c) \in Nat
      /\ Chunk(c) <= req[c].size - done[c]
      /\ Chunk(c) <= PageSize - Offset(Cursor(c))
      /\ Chunk(c) > 0
  BY <1>2, ChunkSize DEF Chunk
<1>5. req[c].size \in Nat
  BY <1>1 DEF AllRequests
<1> HIDE DEF Chunk
<1> QED BY <1>1, <1>2, <1>3, <1>4, <1>5

\* What one copy moves lies in the chunk, and is all of it unless it may fail.
LEMMA CopiedFacts ==
    ASSUME NEW c \in Callers, Chunk(c) \in Nat, NEW n \in Copied(c)
    PROVE  /\ n \in Nat /\ n <= Chunk(c)
           /\ ~ Faults /\ Page(c) \notin astray[c] => n = Chunk(c)
<1> HIDE DEF Chunk
<1>1. CASE Faults
  BY <1>1 DEF Copied
<1>2. CASE ~ Faults /\ Page(c) \in astray[c]
  BY <1>2 DEF Copied
<1>3. CASE ~ Faults /\ Page(c) \notin astray[c]
  BY <1>3 DEF Copied
<1> QED BY <1>1, <1>2, <1>3

LEMMA InitBase == Init => BaseInv
  BY DEF Init, BaseInv, TypeOK, CallInv, EntryInv, NoRequest, AllRequests, Pcs, Entries,
         InChunk

LEMMA NextBase == BaseInv /\ [Next]_vars => BaseInv'
<1> SUFFICES ASSUME TypeOK, CallInv, EntryInv, [Next]_vars
             PROVE  TypeOK' /\ CallInv' /\ EntryInv'
  BY DEF BaseInv
<1> USE DEF Pcs, Entries, InChunk
<1>1. ASSUME NEW c \in Callers, NEW r \in Requests, Start(c, r)
      PROVE  TypeOK' /\ CallInv'
  <2>1. r \in AllRequests /\ r.size \in Nat
    BY RequestsAssumption DEF AllRequests
  <2>2. TypeOK'
    BY <1>1, <2>1 DEF TypeOK, Start, Goto, targetVars
  <2>3. CallInv'
    BY <1>1, <2>1 DEF TypeOK, CallInv, Start, Goto, targetVars, Page, Cursor
  <2> QED BY <2>2, <2>3
<1>2. ASSUME NEW c \in Callers, NoPid(c) \/ Refuse(c)
      PROVE  TypeOK' /\ CallInv'
  <2>1. TypeOK'
    BY <1>2 DEF TypeOK, NoPid, Refuse, Finish, targetVars, EINVAL, EFAULT
  <2>2. CallInv'
    BY <1>2 DEF TypeOK, CallInv, NoPid, Refuse, Finish, targetVars, EINVAL,
                EFAULT, Page, Cursor
  <2> QED BY <2>1, <2>2
<1>3. ASSUME NEW c \in Callers, Accept(c)
      PROVE  TypeOK' /\ CallInv'
  <2>1. TypeOK'
    BY <1>3 DEF TypeOK, Accept, Goto, targetVars
  <2>2. CallInv'
    BY <1>3 DEF TypeOK, CallInv, Accept, Goto, targetVars, Page, Cursor
  <2> QED BY <2>1, <2>2
<1>4. ASSUME NEW c \in Callers, Break(c)
      PROVE  TypeOK' /\ CallInv'
  <2>1. TypeOK'
    BY <1>4 DEF TypeOK, Break, Finish, targetVars
  <2>2. CallInv'
    BY <1>4 DEF TypeOK, CallInv, Break, Finish, targetVars, Page, Cursor
  <2> QED BY <2>1, <2>2
<1>5. ASSUME NEW c \in Callers, Translate(c)
      PROVE  TypeOK' /\ CallInv'
  <2>1. CanAccess(c) \in BOOLEAN
    BY <1>5 DEF TypeOK, Translate, Mapped, CanAccess
  <2>4. {p \in {Page(c)} : Stray(c)} \subseteq Reclaimable
    BY <1>5 DEF EntryInv, Translate, Mapped, Stray
  <2>2. TypeOK'
    BY <1>5, <2>1, <2>4 DEF TypeOK, Translate, targetVars
  <2>3. CallInv'
    BY <1>5, <2>1 DEF TypeOK, CallInv, Translate, Mapped, targetVars, Page, Cursor
  <2> QED BY <2>2, <2>3
<1>6. ASSUME NEW c \in Callers, MakeWritable(c)
      PROVE  TypeOK' /\ CallInv'
  <2>1. TypeOK'
    BY <1>6 DEF TypeOK, MakeWritable, Goto
  <2>2. CallInv'
    BY <1>6 DEF TypeOK, CallInv, MakeWritable, Goto, Page, Cursor
  <2> QED BY <2>1, <2>2
<1>7. ASSUME NEW c \in Callers, Copy(c)
      PROVE  TypeOK' /\ CallInv'
  <2>1. Chunk(c) \in Nat /\ done[c] + Chunk(c) \in Nat
        /\ done[c] + Chunk(c) <= req[c].size
    BY <1>7, ChunkFacts DEF Copy, Goto
  <2>2. moved' \in [Callers -> SUBSET (Nat \X Nat)]
        /\ \A d \in Callers \ {c} : moved'[d] = moved[d]
    <3>1. PhysAddr(c, Cursor(c)) \in Nat
      <4>1. Cursor(c) \in Nat /\ Offset(Cursor(c)) \in Nat /\ Page(c) \in Pages
        BY <1>7, ChunkFacts DEF CallInv, Copy, Goto
      <4>2. FrameOf[Page(c)] \in Nat
        BY <4>1, FramesAssumption
      <4>3. Page(c) \in astray[c] => StrayFrameOf[Page(c)] \in Nat
        BY ReclaimAssumption DEF TypeOK
      <4> QED BY <4>1, <4>2, <4>3, PagesAssumption
              DEF PhysAddr, PhysOf, StrayPhysOf, Page
    <3>2. BufOffset(c) \in Nat
      BY HeaderAssumption DEF TypeOK, BufOffset, DataStart
    <3>3. PICK n \in Int : moved' = [moved EXCEPT ![c] = @ \cup Bytes(c, n)]
      <4>1. PICK n \in Copied(c) : moved' = [moved EXCEPT ![c] = @ \cup Bytes(c, n)]
        BY <1>7 DEF Copy
      <4>2. n \in Int
        BY <2>1, CopiedFacts
      <4> QED BY <4>1, <4>2
    <3>4. Bytes(c, n) \subseteq Nat \X Nat
      BY <3>1, <3>2 DEF Bytes
    <3> QED BY <3>3, <3>4 DEF TypeOK
  <2>3. TypeOK'
    BY <1>7, <2>1, <2>2 DEF TypeOK, Copy, Goto, Advance, targetVars
  <2>4. CallInv'
    BY <1>7, <2>1, <2>2 DEF TypeOK, CallInv, Copy, Goto, Advance, RestoreNeeded,
                            targetVars, Page, Cursor
  <2> QED BY <2>3, <2>4
<1>8. ASSUME NEW c \in Callers, Restore(c)
      PROVE  TypeOK' /\ CallInv'
  <2>1. Chunk(c) \in Nat /\ done[c] + Chunk(c) \in Nat
        /\ done[c] + Chunk(c) <= req[c].size
    BY <1>8, ChunkFacts DEF Restore, Goto
  <2>2. TypeOK'
    BY <1>8, <2>1 DEF TypeOK, Restore, Goto, Advance
  <2>3. CallInv'
    BY <1>8, <2>1 DEF TypeOK, CallInv, Restore, Goto, Advance, Page, Cursor
  <2> QED BY <2>2, <2>3
<1>9. ASSUME NEW c \in Callers, Oops(c)
      PROVE  TypeOK' /\ CallInv'
  <2>1. TypeOK'
    BY <1>9 DEF TypeOK, Oops, targetVars
  <2>2. CallInv'
    BY <1>9 DEF TypeOK, CallInv, Oops, targetVars, Page, Cursor
  <2> QED BY <2>1, <2>2
<1>10. ASSUME NEW c \in Callers, Return(c)
       PROVE  TypeOK' /\ CallInv'
  <2>1. TypeOK'
    BY <1>10 DEF TypeOK, Return, Goto, targetVars, NoRequest, AllRequests
  <2>2. CallInv'
    BY <1>10 DEF TypeOK, CallInv, Return, Goto, targetVars, Page, Cursor, NoRequest
  <2> QED BY <2>1, <2>2
<1>11. ASSUME NEW p \in Pages, NEW w \in BOOLEAN,
              Fault(p, w) \/ Upgrade(p) \/ (p \in Reclaimable /\ Reclaim(p, w))
       PROVE  TypeOK' /\ CallInv'
  <2>1. raced' \subseteq Pages
    BY <1>11 DEF TypeOK, Fault, Upgrade, Reclaim, Grant
  <2>2. TypeOK'
    BY <1>11, <2>1 DEF TypeOK, Fault, Upgrade, Reclaim, Grant, callVars
  <2>3. UNCHANGED callVars /\ \A q \in Pages : entry[q] # "none" => entry'[q] # "none"
    BY <1>11 DEF TypeOK, Fault, Upgrade, Reclaim
  <2>4. CallInv'
    BY <2>3 DEF CallInv, callVars, Page, Cursor
  <2> QED BY <2>2, <2>4
<1>12. ASSUME Exit
       PROVE  TypeOK' /\ CallInv'
  BY <1>12 DEF TypeOK, CallInv, Exit, callVars, Page, Cursor
<1>13. ASSUME UNCHANGED vars
       PROVE  TypeOK' /\ CallInv'
  BY <1>13 DEF TypeOK, CallInv, vars, targetVars, callVars, Page, Cursor
<1>14. EntryInv'
  <2>1. CASE \E p \in Pages, w \in BOOLEAN : Fault(p, w)
    BY <2>1 DEF TypeOK, EntryInv, Fault
  <2>2. CASE \E p \in Reclaimable, w \in BOOLEAN : Reclaim(p, w)
    BY <2>2 DEF TypeOK, EntryInv, Reclaim
  <2>3. CASE UNCHANGED entry
    BY <2>3 DEF EntryInv
  <2> QED
    BY <2>1, <2>2, <2>3
    DEF Next, Work, Start, NoPid, Refuse, Accept, Break, Translate,
        MakeWritable, Copy, Restore, Oops, Return, Upgrade, Exit, targetVars, vars
<1> QED
  BY <1>1, <1>2, <1>3, <1>4, <1>5, <1>6, <1>7, <1>8, <1>9, <1>10, <1>11,
     <1>12, <1>13, <1>14, ReclaimAssumption DEF Next, Work

\* Every reachable state is well typed: in particular read_size and
\* write_size never leave the range of the request, whatever the chunks.
THEOREM IoTypeCorrect == Spec => []TypeOK
<1>1. BaseInv => TypeOK
  BY DEF BaseInv
<1> QED BY <1>1, InitBase, NextBase, PTL DEF Spec

-----------------------------------------------------------------------------
(* Page-table entries.                                                     *)

\* Unless the kernel upgraded the entry in between, no thread ever clears a
\* granted bit: a call that found an entry read-only found it so because the
\* kernel granted it so.
PteInv ==
    /\ \A p \in Pages : granted[p] /\ p \notin raced => writable[p]
    /\ \A c \in Callers : pc[c] \in InChunk /\ ~ old_can[c]
                              => ~ granted[Page(c)] \/ Page(c) \in raced
    /\ PteRestored

LEMMA InitPte == Init => PteInv
  BY DEF Init, PteInv, PteRestored, InChunk

LEMMA NextPte == BaseInv /\ PteInv /\ [Next]_vars => PteInv'
<1> SUFFICES ASSUME TypeOK, CallInv, PteInv, [Next]_vars PROVE PteInv'
  BY DEF BaseInv
<1> USE DEF InChunk
<1>1. ASSUME NEW c \in Callers, NEW r \in Requests, Start(c, r)
      PROVE  PteInv'
  BY <1>1 DEF TypeOK, PteInv, PteRestored, Overriding, RestoreNeeded, Start,
              Goto, targetVars, Page, Cursor
<1>2. ASSUME NEW c \in Callers, NoPid(c) \/ Refuse(c) \/ Accept(c) \/ Break(c)
      PROVE  PteInv'
  BY <1>2 DEF TypeOK, PteInv, PteRestored, Overriding, RestoreNeeded, NoPid,
              Refuse, Accept, Break, Finish, Goto, targetVars, Page, Cursor
<1>3. ASSUME NEW c \in Callers, Translate(c)
      PROVE  PteInv'
  <2>1. ~ CanAccess(c) => ~ granted[Page(c)] \/ Page(c) \in raced
    BY <1>3 DEF PteInv, CanAccess, Translate, Mapped
  <2>2. CanAccess(c) \in BOOLEAN
    BY <1>3 DEF TypeOK, CanAccess, Translate, Mapped
  <2> QED
    BY <1>3, <2>1, <2>2 DEF TypeOK, PteInv, PteRestored, Overriding,
          RestoreNeeded, Translate, targetVars, Page, Cursor
<1>4. ASSUME NEW c \in Callers, MakeWritable(c)
      PROVE  PteInv'
  <2>1. ~ old_can[c] /\ req[c].force /\ Page(c) \in Pages
    BY <1>4 DEF CallInv, MakeWritable, Goto
  <2>2. pc'[c] = "copy" /\ RestoreNeeded(c)' /\ Page(c)' = Page(c)
    BY <1>4, <2>1 DEF TypeOK, MakeWritable, Goto, Overriding, RestoreNeeded,
                      Page, Cursor
  <2>3. ASSUME NEW p \in Pages, NEW d \in Callers, p # Page(c), Overriding(d, p)
        PROVE  Overriding(d, p)'
    BY <1>4, <2>3 DEF TypeOK, MakeWritable, Goto, Overriding, RestoreNeeded,
                      Page, Cursor
  <2>4. \A p \in Pages : granted'[p] /\ p \notin raced' => writable'[p]
    BY <1>4 DEF TypeOK, PteInv, MakeWritable
  <2>5. PteRestored'
    <3> SUFFICES ASSUME NEW p \in Pages, alive, entry[p] = "present",
                        writable'[p], ~ granted[p]
                 PROVE  \E d \in Callers : Overriding(d, p)'
      BY <1>4, <2>4 DEF PteRestored, MakeWritable
    <3>1. CASE p = Page(c)
      BY <2>2, <3>1 DEF Overriding
    <3>2. CASE p # Page(c)
      <4>1. writable[p]
        BY <1>4, <3>2 DEF TypeOK, MakeWritable
      <4> QED BY <2>3, <3>2, <4>1 DEF PteInv, PteRestored
    <3> QED BY <3>1, <3>2
  <2>6. \A d \in Callers : pc'[d] \in InChunk /\ ~ old_can'[d]
                              => ~ granted'[Page(d)'] \/ Page(d)' \in raced'
    BY <1>4 DEF TypeOK, PteInv, MakeWritable, Goto, Page, Cursor
  <2> QED BY <2>5, <2>4, <2>6 DEF PteInv
<1>5. ASSUME NEW c \in Callers, Copy(c)
      PROVE  PteInv'
  <2>1. Chunk(c) \in Nat
    BY <1>5, ChunkFacts DEF Copy, Goto
  <2>2. ASSUME NEW d \in Callers, NEW p \in Pages, Overriding(d, p)
        PROVE  Overriding(d, p)'
    BY <1>5, <2>1, <2>2 DEF TypeOK, Copy, Goto, Advance, Overriding,
          RestoreNeeded, Page, Cursor
  <2>3. PteRestored'
    BY <1>5, <2>2 DEF PteInv, PteRestored, Copy, targetVars
  <2>4. \A d \in Callers : pc'[d] \in InChunk /\ ~ old_can'[d]
                              => ~ granted'[Page(d)'] \/ Page(d)' \in raced'
    BY <1>5, <2>1 DEF TypeOK, PteInv, Copy, Goto, Advance, RestoreNeeded,
          targetVars, Page, Cursor
  <2> QED BY <1>5, <2>3, <2>4 DEF PteInv, Copy, targetVars
<1>6. ASSUME NEW c \in Callers, Restore(c)
      PROVE  PteInv'
  <2>1. /\ ~ old_can[c] /\ Page(c) \in Pages
        /\ ~ granted[Page(c)] \/ Page(c) \in raced
    BY <1>6 DEF CallInv, PteInv, Restore, Goto
  <2>2. Chunk(c) \in Nat
    BY <1>6, ChunkFacts DEF Restore, Goto
  <2>3. ASSUME NEW d \in Callers, NEW p \in Pages, p # Page(c), Overriding(d, p)
        PROVE  Overriding(d, p)'
    BY <1>6, <2>2, <2>3 DEF TypeOK, Restore, Goto, Advance, Overriding,
          RestoreNeeded, Page, Cursor
  <2>4. \A p \in Pages : granted'[p] /\ p \notin raced' => writable'[p]
    BY <1>6, <2>1 DEF TypeOK, PteInv, Restore
  <2>5. PteRestored'
    <3> SUFFICES ASSUME NEW p \in Pages, alive, entry[p] = "present",
                        writable'[p], ~ granted[p]
                 PROVE  \E d \in Callers : Overriding(d, p)'
      BY <1>6, <2>4 DEF PteRestored, Restore
    <3>1. p # Page(c) /\ writable[p]
      BY <1>6, <2>1 DEF TypeOK, Restore
    <3> QED BY <2>3, <3>1 DEF PteInv, PteRestored
  <2>6. \A d \in Callers : pc'[d] \in InChunk /\ ~ old_can'[d]
                              => ~ granted'[Page(d)'] \/ Page(d)' \in raced'
    BY <1>6, <2>2 DEF TypeOK, PteInv, Restore, Goto, Advance, Page, Cursor
  <2> QED BY <2>4, <2>5, <2>6 DEF PteInv
<1>7. ASSUME NEW c \in Callers, Oops(c)
      PROVE  PteInv'
  BY <1>7 DEF TypeOK, PteInv, PteRestored, Oops, targetVars, Page, Cursor
<1>8. ASSUME NEW c \in Callers, Return(c)
      PROVE  PteInv'
  BY <1>8 DEF TypeOK, PteInv, PteRestored, Overriding, RestoreNeeded, Return,
              Goto, targetVars, Page, Cursor
<1>10. CASE Exit
  BY <1>10 DEF PteInv, PteRestored, Exit, callVars, Page, Cursor
<1>11. CASE UNCHANGED vars
  BY <1>11 DEF PteInv, PteRestored, Overriding, RestoreNeeded, vars, targetVars,
               callVars, Page, Cursor
<1>12. ASSUME NEW p \in Pages, NEW w \in BOOLEAN,
              Fault(p, w) \/ (w /\ Upgrade(p))
       PROVE  PteInv'
  <2>1. \A q \in Pages \ {p} : /\ writable'[q] = writable[q]
                               /\ granted'[q] = granted[q]
                               /\ entry'[q] = entry[q]
                               /\ q \in raced' <=> q \in raced
    BY <1>12 DEF TypeOK, Fault, Upgrade, Grant
  <2>2. writable'[p] = w /\ granted'[p] = w /\ UNCHANGED <<alive, callVars>>
    BY <1>12 DEF TypeOK, Fault, Upgrade, Grant
  <2>3. \A d \in Callers, q \in Pages : Overriding(d, q) => Overriding(d, q)'
    BY <2>2 DEF callVars, Overriding, RestoreNeeded, Page, Cursor
  <2>4. \A q \in Pages : granted'[q] /\ q \notin raced' => writable'[q]
    BY <2>1, <2>2 DEF PteInv
  <2>5. PteRestored'
    BY <2>1, <2>2, <2>3 DEF PteInv, PteRestored
  <2>6. ASSUME NEW d \in Callers, pc'[d] \in InChunk, ~ old_can'[d]
        PROVE  ~ granted'[Page(d)'] \/ Page(d)' \in raced'
    <3>1. pc[d] \in InChunk /\ ~ old_can[d] /\ Page(d)' = Page(d)
          /\ Page(d) \in Pages
      BY <2>2, <2>6 DEF callVars, Page, Cursor, CallInv
    <3>2. CASE Page(d) = p
      <4>1. FoundReadOnly(d, p)
        BY <3>1, <3>2 DEF FoundReadOnly
      <4> QED BY <1>12, <2>2, <3>1, <3>2, <4>1 DEF Fault, Upgrade, Grant
    <3>3. CASE Page(d) # p
      BY <2>1, <3>1, <3>3 DEF PteInv
    <3> QED BY <3>2, <3>3
  <2> QED BY <2>4, <2>5, <2>6 DEF PteInv
<1>13. ASSUME NEW p \in Pages, NEW w \in BOOLEAN, Reclaim(p, w)
       PROVE  PteInv'
  <2>1. \A q \in Pages \ {p} : /\ writable'[q] = writable[q]
                               /\ granted'[q] = granted[q]
                               /\ entry'[q] = entry[q]
                               /\ q \in raced' <=> q \in raced
    BY <1>13 DEF TypeOK, Reclaim
  <2>2. ~ granted'[p] /\ entry'[p] # "present" /\ UNCHANGED <<alive, callVars>>
    BY <1>13 DEF TypeOK, Reclaim
  <2>3. \A d \in Callers, q \in Pages : Overriding(d, q) => Overriding(d, q)'
    BY <2>2 DEF callVars, Overriding, RestoreNeeded, Page, Cursor
  <2>4. PteRestored'
    BY <2>1, <2>2, <2>3 DEF PteInv, PteRestored
  <2>5. \A q \in Pages : granted'[q] /\ q \notin raced' => writable'[q]
    BY <2>1, <2>2 DEF PteInv
  <2>6. ASSUME NEW d \in Callers, pc'[d] \in InChunk, ~ old_can'[d]
        PROVE  ~ granted'[Page(d)'] \/ Page(d)' \in raced'
    <3>1. pc[d] \in InChunk /\ ~ old_can[d] /\ Page(d)' = Page(d)
          /\ Page(d) \in Pages
      BY <2>2, <2>6 DEF callVars, Page, Cursor, CallInv
    <3> QED BY <2>1, <2>2, <3>1 DEF PteInv
  <2> QED BY <2>4, <2>5, <2>6 DEF PteInv
<1> QED
  BY <1>1, <1>2, <1>3, <1>4, <1>5, <1>6, <1>7, <1>8, <1>10, <1>11, <1>12,
     <1>13, ReclaimAssumption DEF Next, Work

LEMMA PteInvariance == Spec => [](BaseInv /\ PteInv)
  BY InitBase, NextBase, InitPte, NextPte, PTL DEF Spec

\* Whatever forced writes overlap, and on whatever pages, the write bit that
\* change_pte_write_status sets is cleared again exactly where the kernel had
\* not granted it before the write.
THEOREM EntriesRestored == Spec => []PteRestored
<1>1. PteInv => PteRestored
  BY DEF PteInv
<1> QED BY <1>1, PteInvariance, PTL

\* No call breaks off its loop at a page that it may access.
THEOREM NoPageMissed == Spec => NothingMissed
<1>1. ASSUME TypeOK, CallInv, PteInv, [Next]_vars, NEW c \in Callers,
             alive, pc[c] = "loop", pc'[c] = "done", ret'[c] < req[c].size
      PROVE  LET p == PageOf(req[c].addr + ret'[c])
             IN  ~ Open(c, p) \/ p \in raced
  <2>1. Break(c)
    BY <1>1 DEF TypeOK, Next, Work, Start, NoPid, Refuse, Accept, Break, Finish,
          Translate, MakeWritable, Copy, Restore, Oops, Return, Fault, Upgrade,
          Reclaim, Exit, Goto, vars, callVars
  <2>2. ret'[c] = done[c] /\ PageOf(req[c].addr + ret'[c]) = Page(c)
    BY <1>1, <2>1 DEF TypeOK, Break, Finish, Page, Cursor
  <2>3. ASSUME Open(c, Page(c)), Page(c) \notin raced PROVE FALSE
    <3>1. Mapped(c)
      BY <1>1, <2>3 DEF Open, Mapped
    <3>2. ~ req[c].force /\ req[c].op = "write" /\ ~ writable[Page(c)]
      BY <1>1, <2>1, <2>2, <2>3, <3>1 DEF Break, CanAccess, Open, Stray
    <3> QED BY <1>1, <2>3, <3>2 DEF Open, PteInv
  <2> QED BY <2>2, <2>3
<1>2. BaseInv /\ PteInv /\ [Next]_vars
        => [\A c \in Callers :
              (/\ alive
               /\ pc[c] = "loop" /\ pc'[c] = "done"
               /\ ret'[c] < req[c].size)
                  => LET p == PageOf(req[c].addr + ret'[c])
                     IN  ~ Open(c, p) \/ p \in raced]_vars
  BY <1>1 DEF BaseInv
<1> QED BY <1>2, PteInvariance, PTL DEF Spec, NothingMissed

-----------------------------------------------------------------------------
(* Memory areas.                                                           *)

\* Pages have entries only in memory areas, and the check an unforced call
\* passed at its start still holds.
AreaInv ==
    /\ \A p \in Pages : entry[p] # "none" => vma[p] # None
    /\ \A c \in Callers : ~ req[c].force /\ pc[c] \in {"loop"} \cup InChunk
                            => CheckMap(req[c])
    /\ UnforcedInVma

\* The page at the cursor of an unforced call belongs to the area that
\* find_vma returned: it has an entry, hence is not in the gap before that area,
\* and it ends before the area does.
LEMMA CursorInArea ==
    ASSUME TypeOK, CallInv, AreaInv, NEW c \in Callers, pc[c] \in InChunk,
           ~ req[c].force
    PROVE  vma[Page(c)] \in Allowed(req[c].op)
<1> DEFINE r == req[c]
<1>1. r \in AllRequests /\ r.addr \in Nat /\ r.size \in Nat /\ done[c] \in Nat
      /\ done[c] < r.size /\ Page(c) \in Pages /\ vma[Page(c)] # None
  BY DEF TypeOK, CallInv, AreaInv, AllRequests
<1>2. PICK p, q \in Pages :
        /\ PageOf(r.addr) <= p /\ p <= q
        /\ vma[p] \in Allowed(r.op)
        /\ \A s \in Pages : PageOf(r.addr) <= s /\ s < p => vma[s] = None
        /\ \A s \in p..q : vma[s] = vma[p]
        /\ r.addr + r.size <= (q + 1) * PageSize
  BY DEF AreaInv, CheckMap
<1>3. Cursor(c) \in Nat /\ r.addr <= Cursor(c) /\ Cursor(c) < r.addr + r.size
  BY <1>1 DEF Cursor
<1> HIDE DEF r
<1>4. p \in Nat /\ q \in Nat /\ Page(c) \in Nat /\ (q + 1) * PageSize \in Nat
  BY <1>1, <1>2, PagesAssumption DEF Pages
<1>5. PageOf(r.addr) <= Page(c)
  BY <1>1, <1>3, Monotone DEF Page
<1>6. Page(c) <= q
  <2>1. Cursor(c) < (q + 1) * PageSize
    BY <1>1, <1>2, <1>3, <1>4
  <2> QED BY <1>3, <1>4, <2>1, BelowEnd DEF Page
<1>7. Page(c) \in p..q
  BY <1>1, <1>2, <1>4, <1>5, <1>6
<1> QED BY <1>2, <1>7 DEF r

\* An unforced call that advances by its chunk stays within areas that
\* permit it.
LEMMA AdvanceInArea ==
    ASSUME TypeOK, CallInv, AreaInv, NEW c \in Callers, pc[c] \in InChunk,
           ~ req[c].force, NEW b \in 0..(done[c] + Chunk(c) - 1)
    PROVE  vma[PageOf(req[c].addr + b)] \in Allowed(req[c].op)
<1>1. Cursor(c) \in Nat /\ Chunk(c) \in Nat /\ done[c] \in Nat
      /\ req[c].addr \in Nat /\ Offset(Cursor(c)) \in Nat
      /\ Chunk(c) <= PageSize - Offset(Cursor(c)) /\ PageSize \in Nat
  BY ChunkFacts, PagesAssumption DEF TypeOK, AllRequests
<1>2. CASE b < done[c]
  <2>1. b \in 0..(done[c] - 1)
    BY <1>1, <1>2
  <2> QED BY <2>1 DEF AreaInv, UnforcedInVma
<1>3. CASE b >= done[c]
  <2>1. b - done[c] \in Nat /\ b - done[c] < PageSize - Offset(Cursor(c))
        /\ req[c].addr + b = Cursor(c) + (b - done[c])
    BY <1>1, <1>3 DEF Cursor
  <2>2. PageOf(req[c].addr + b) = Page(c)
    BY <1>1, <2>1, SamePage DEF Page
  <2> QED BY <2>2, CursorInArea
<1> QED BY <1>1, <1>2, <1>3

LEMMA InitArea == Init => AreaInv
  BY DEF Init, AreaInv, UnforcedInVma, InChunk, NoRequest

\* A step that moves no byte and starts no loop keeps the invariant.
LEMMA AreaFrame ==
    ASSUME AreaInv, UNCHANGED <<vma, entry, req, done>>,
           \A d \in Callers : pc'[d] \in {"loop"} \cup InChunk
                                => pc[d] \in {"loop"} \cup InChunk
    PROVE  AreaInv'
<1>1. \A d \in Callers : CheckMap(req[d])' <=> CheckMap(req[d])
  BY DEF CheckMap
<1>2. UnforcedInVma'
  BY DEF AreaInv, UnforcedInVma
<1> QED BY <1>1, <1>2 DEF AreaInv

LEMMA NextArea == BaseInv /\ AreaInv /\ [Next]_vars => AreaInv'
<1> SUFFICES ASSUME TypeOK, CallInv, AreaInv, [Next]_vars PROVE AreaInv'
  BY DEF BaseInv
<1> USE DEF InChunk
<1>1. ASSUME NEW c \in Callers, NEW r \in Requests, Start(c, r)
      PROVE  AreaInv'
  <2>1. done[c] = 0
    BY <1>1 DEF CallInv, Start, Goto
  <2> QED BY <1>1, <2>1 DEF TypeOK, AreaInv, UnforcedInVma, Start, Goto,
                targetVars, CheckMap
<1>2. ASSUME NEW c \in Callers, NoPid(c) \/ Refuse(c) \/ Break(c) \/ Oops(c)
      PROVE  AreaInv'
  <2>1. UNCHANGED <<vma, entry, req, done>>
    BY <1>2 DEF NoPid, Refuse, Break, Oops, targetVars
  <2>2. \A d \in Callers : pc'[d] \in {"loop"} \cup InChunk
                             => pc[d] \in {"loop"} \cup InChunk
    BY <1>2 DEF TypeOK, NoPid, Refuse, Break, Oops, Finish
  <2> QED BY <2>1, <2>2, AreaFrame
<1>3. ASSUME NEW c \in Callers, Translate(c) \/ MakeWritable(c)
      PROVE  AreaInv'
  <2>1. UNCHANGED <<vma, entry, req, done>>
    BY <1>3 DEF Translate, MakeWritable, targetVars
  <2>2. \A d \in Callers : pc'[d] \in {"loop"} \cup InChunk
                             => pc[d] \in {"loop"} \cup InChunk
    BY <1>3 DEF TypeOK, Translate, MakeWritable, Goto
  <2> QED BY <2>1, <2>2, AreaFrame
<1>9. ASSUME NEW c \in Callers, Accept(c)
      PROVE  AreaInv'
  <2>1. UNCHANGED <<vma, entry, req, done>>
    BY <1>9 DEF Accept, targetVars
  <2>2. \A d \in Callers : CheckMap(req[d])' <=> CheckMap(req[d])
    BY <2>1 DEF CheckMap
  <2>3. UnforcedInVma'
    BY <2>1 DEF AreaInv, UnforcedInVma
  <2>4. \A d \in Callers : ~ req[d].force /\ pc'[d] \in {"loop"} \cup InChunk
                             => CheckMap(req[d])
    BY <1>9 DEF TypeOK, AreaInv, Accept, Goto
  <2> QED BY <2>1, <2>2, <2>3, <2>4 DEF AreaInv
<1>4. ASSUME NEW c \in Callers, Copy(c) \/ Restore(c)
      PROVE  AreaInv'
  <2>1. pc[c] \in InChunk /\ UNCHANGED <<vma, entry, req>>
    BY <1>4 DEF Copy, Restore, Goto, targetVars
  <2>2. /\ done'[c] = done[c] \/ done'[c] = done[c] + Chunk(c)
        /\ \A d \in Callers \ {c} : done'[d] = done[d]
    BY <1>4 DEF TypeOK, Copy, Restore, Advance
  <2>3. UnforcedInVma'
    <3> SUFFICES ASSUME NEW d \in Callers, ~ req[d].force,
                        NEW b \in 0..(done'[d] - 1)
                 PROVE  vma[PageOf(req[d].addr + b)] \in Allowed(req[d].op)
      BY <2>1 DEF UnforcedInVma
    <3>1. CASE done'[d] = done[d]
      BY <3>1 DEF AreaInv, UnforcedInVma
    <3>2. CASE d = c /\ done'[c] = done[c] + Chunk(c)
      <4>1. done'[d] = done[c] + Chunk(c)
        BY <3>2
      <4>2. b \in 0..(done[c] + Chunk(c) - 1)
        <5>1. done[c] \in Nat /\ Chunk(c) \in Nat
          BY <2>1, ChunkFacts DEF TypeOK
        <5> QED BY <4>1, <5>1
      <4> QED BY <2>1, <3>2, <4>2, AdvanceInArea
    <3> QED BY <2>2, <3>1, <3>2
  <2>4. \A d \in Callers : pc'[d] \in {"loop"} \cup InChunk
                             => pc[d] \in {"loop"} \cup InChunk
    BY <1>4 DEF TypeOK, Copy, Restore, Goto
  <2> QED BY <2>1, <2>3, <2>4 DEF AreaInv, CheckMap
<1>5. ASSUME NEW c \in Callers, Return(c)
      PROVE  AreaInv'
  BY <1>5 DEF TypeOK, AreaInv, UnforcedInVma, Return, Goto, targetVars, CheckMap
<1>6. ASSUME NEW p \in Pages, NEW w \in BOOLEAN, Fault(p, w) \/ Reclaim(p, w)
      PROVE  AreaInv'
  <2>1. UNCHANGED <<vma, req, done, pc>>
    BY <1>6 DEF Fault, Reclaim, callVars
  <2>2. \A d \in Callers : CheckMap(req[d])' <=> CheckMap(req[d])
    BY <2>1 DEF CheckMap
  <2>3. UnforcedInVma'
    BY <2>1 DEF AreaInv, UnforcedInVma
  <2>4. \A q \in Pages : entry'[q] # "none" => vma[q] # None
    BY <1>6 DEF TypeOK, AreaInv, Fault, Reclaim
  <2> QED BY <2>1, <2>2, <2>3, <2>4 DEF AreaInv
<1>7. CASE Exit
  BY <1>7, AreaFrame DEF Exit, callVars
<1>8. CASE UNCHANGED vars
  BY <1>8, AreaFrame DEF vars, targetVars, callVars
<1>10. ASSUME NEW p \in Pages, Upgrade(p)
       PROVE  AreaInv'
  BY <1>10, AreaFrame DEF Upgrade, callVars
<1> QED
  BY <1>1, <1>2, <1>3, <1>4, <1>5, <1>6, <1>7, <1>8, <1>9, <1>10,
     ReclaimAssumption DEF Next, Work

\* One look at the memory map is enough: an unforced call never moves a byte
\* of an area without the permission, whatever the range and the layout.
THEOREM UnforcedWithinAreas == Spec => []UnforcedInVma
<1>1. AreaInv => UnforcedInVma
  BY DEF AreaInv
<1> QED BY <1>1, InitBase, NextBase, InitArea, NextArea, PTL DEF Spec

-----------------------------------------------------------------------------
(* The bytes moved.                                                        *)

LEMMA ReferenceMember ==
    ASSUME NEW c \in Callers, NEW n
    PROVE  \A x : x \in Reference(c, n) <=>
             \E b \in 0..(n - 1) :
                x = <<PhysAddr(c, req[c].addr + b), b + DataStart(c)>>
  BY Zenon DEF Reference

\* A chunk that does not end the range ends its page.
LEMMA ChunkAligned ==
    ASSUME NEW a \in Nat, NEW n \in Nat, SizeInsidePage(a, n) < n
    PROVE  Offset(a + SizeInsidePage(a, n)) = 0
<1> DEFINE p == PageOf(a)
<1>1. p \in Nat /\ Offset(a) \in 0..(PageSize - 1) /\ a = p * PageSize + Offset(a)
  BY Split
<1>2. PageSize \in Nat /\ PageSize > 0 /\ p * PageSize \in Nat
  BY <1>1, PagesAssumption
<1> HIDE DEF p
<1>3. SizeInsidePage(a, n) = PageSize - Offset(a)
  BY <1>1, <1>2 DEF SizeInsidePage
<1>4. a + SizeInsidePage(a, n) = p * PageSize + PageSize
  BY <1>1, <1>2, <1>3
<1>5. (p + 1) * PageSize = p * PageSize + PageSize
  BY <1>1, <1>2
<1>6. a + SizeInsidePage(a, n) = (p + 1) * PageSize + 0
  BY <1>2, <1>4, <1>5
<1>7. a + SizeInsidePage(a, n) \in Nat /\ p + 1 \in Nat /\ 0 \in 0..(PageSize - 1)
  BY <1>1, <1>2, <1>4
<1> QED BY <1>6, <1>7, SplitUnique

\* Every iteration but the first starts a page.
AlignInv ==
    \A c \in Callers :
        pc[c] \in {"loop"} \cup InChunk /\ 0 < done[c] /\ done[c] < req[c].size
            => Offset(Cursor(c)) = 0

LEMMA InitAlign == Init => AlignInv
  BY DEF Init, AlignInv, InChunk

\* A step in which no call advances, and none starts its loop with bytes done.
LEMMA AlignFrame ==
    ASSUME AlignInv, UNCHANGED <<req, done>>,
           \A d \in Callers : pc'[d] \in {"loop"} \cup InChunk
               => pc[d] \in {"loop"} \cup InChunk \/ done[d] = 0
    PROVE  AlignInv'
  BY DEF AlignInv, Cursor

LEMMA NextAlign == BaseInv /\ AlignInv /\ [Next]_vars => AlignInv'
<1> SUFFICES ASSUME TypeOK, CallInv, AlignInv, [Next]_vars PROVE AlignInv'
  BY DEF BaseInv
<1> USE DEF InChunk
<1>1. ASSUME NEW c \in Callers, NEW r \in Requests, Start(c, r)
      PROVE  AlignInv'
  BY <1>1 DEF TypeOK, AlignInv, Start, Goto, Cursor
<1>2. ASSUME NEW c \in Callers,
             NoPid(c) \/ Refuse(c) \/ Accept(c) \/ Break(c) \/ Translate(c)
                \/ MakeWritable(c) \/ Oops(c)
      PROVE  AlignInv'
  <2>1. UNCHANGED <<req, done>>
    BY <1>2 DEF NoPid, Refuse, Accept, Break, Translate, MakeWritable, Oops
  <2>2. \A d \in Callers : pc'[d] \in {"loop"} \cup InChunk
               => pc[d] \in {"loop"} \cup InChunk \/ done[d] = 0
    BY <1>2 DEF TypeOK, CallInv, NoPid, Refuse, Accept, Break, Finish,
                Translate, MakeWritable, Oops, Goto
  <2> QED BY <2>1, <2>2, AlignFrame
<1>3. ASSUME NEW c \in Callers, Copy(c) \/ Restore(c)
      PROVE  AlignInv'
  <2>1. /\ pc[c] \in InChunk /\ req' = req
        /\ \A d \in Callers \ {c} : pc'[d] = pc[d] /\ done'[d] = done[d]
    BY <1>3 DEF TypeOK, Copy, Restore, Goto, Advance
  <2>2. /\ Cursor(c) \in Nat /\ Chunk(c) \in Nat /\ done[c] \in Nat
        /\ req[c].size \in Nat /\ req[c].addr \in Nat /\ done[c] < req[c].size
    BY <2>1, ChunkFacts DEF TypeOK, CallInv, AllRequests
  <2>3. CASE done'[c] = done[c]
    BY <2>1, <2>3 DEF AlignInv, Cursor
  <2>4. CASE done'[c] = done[c] + Chunk(c) /\ done'[c] < req[c].size
    <3>1. /\ req[c].size - done[c] \in Nat
          /\ SizeInsidePage(Cursor(c), req[c].size - done[c]) < req[c].size - done[c]
      BY <2>2, <2>4 DEF Chunk
    <3>2. Offset(Cursor(c) + Chunk(c)) = 0
      BY <2>2, <3>1, ChunkAligned DEF Chunk
    <3>3. Cursor(c)' = Cursor(c) + Chunk(c)
      BY <2>1, <2>2, <2>4 DEF Cursor
    <3>4. Offset(Cursor(c))' = 0
      BY <3>2, <3>3 DEF Offset
    <3> QED BY <2>1, <3>4 DEF AlignInv, Cursor
  <2>5. CASE done'[c] = done[c] + Chunk(c) /\ ~ (done'[c] < req[c].size)
    BY <2>1, <2>5 DEF AlignInv, Cursor
  <2>6. done'[c] = done[c] \/ done'[c] = done[c] + Chunk(c)
    BY <1>3 DEF TypeOK, Copy, Restore, Advance
  <2> QED BY <2>3, <2>4, <2>5, <2>6
<1>4. ASSUME NEW c \in Callers, Return(c)
      PROVE  AlignInv'
  BY <1>4 DEF TypeOK, AlignInv, Return, Goto, Cursor
<1>5. ASSUME UNCHANGED callVars
      PROVE  AlignInv'
  BY <1>5 DEF AlignInv, callVars, Cursor
<1> QED
  BY <1>1, <1>2, <1>3, <1>4, <1>5
  DEF Next, Work, Fault, Upgrade, Reclaim, Exit, vars

\* The bytes before the cursor lie in other pages than the next chunk.
LEMMA OtherPage ==
    ASSUME TypeOK, CallInv, AlignInv, NEW c \in Callers,
           pc[c] \in {"loop"} \cup InChunk, done[c] < req[c].size,
           NEW b \in 0..(done[c] - 1)
    PROVE  PageOf(req[c].addr + b) # Page(c)
<1>1. /\ done[c] \in Nat /\ 0 < done[c] /\ b \in Nat /\ b < done[c]
      /\ req[c].addr \in Nat /\ Cursor(c) \in Nat
  BY DEF TypeOK, AllRequests, Cursor
<1>2. Offset(Cursor(c)) = 0
  BY <1>1 DEF AlignInv
<1> DEFINE p == Page(c)
           a == req[c].addr + b
<1>3. p \in Nat /\ Cursor(c) = p * PageSize
  <2>1. p \in Nat /\ Cursor(c) = p * PageSize + Offset(Cursor(c))
    BY <1>1, Split DEF Page
  <2>2. p * PageSize \in Nat
    BY <2>1, PagesAssumption
  <2> QED BY <1>2, <2>1, <2>2
<1>4. a \in Nat /\ a < Cursor(c)
  BY <1>1 DEF Cursor
<1>5. PageOf(a) \in Nat /\ Offset(a) \in Nat /\ a = PageOf(a) * PageSize + Offset(a)
  BY <1>4, Split
<1> HIDE DEF p, a
<1>6. PageOf(a) # p
  <2> SUFFICES ASSUME PageOf(a) = p PROVE FALSE
    OBVIOUS
  <2>1. p * PageSize \in Nat
    BY <1>3, PagesAssumption
  <2> QED BY <1>3, <1>4, <1>5, <2>1
<1> QED BY <1>6 DEF p, a

\* What a call that has come to its n-th byte has moved.
Has(c, n) ==
    /\ \A b \in Resident(c, n) :
          <<PhysOf(req[c].addr + b), b + DataStart(c)>> \in moved[c]
    /\ moved[c] \subseteq Reference(c, n)

\* The i-th byte of the next chunk as a byte of the range.
LEMMA ChunkByte ==
    ASSUME TypeOK, CallInv, NEW c \in Callers, pc[c] = "copy",
           NEW i \in 0..(Chunk(c) - 1)
    PROVE  /\ <<PhysAddr(c, req[c].addr + (done[c] + i)),
                 (done[c] + i) + DataStart(c)>>
                 = <<PhysAddr(c, Cursor(c)) + i, BufOffset(c) + i>>
           /\ PageOf(req[c].addr + (done[c] + i)) = Page(c)
<1> DEFINE h == DataStart(c)
           a == Cursor(c)
<1>1. /\ a \in Nat /\ Chunk(c) \in Nat /\ done[c] \in Nat
      /\ req[c].addr \in Nat /\ Offset(a) \in Nat
      /\ Chunk(c) <= PageSize - Offset(a) /\ PageSize \in Nat
      /\ FrameOf[PageOf(a)] \in Nat
  BY ChunkFacts, PagesAssumption, FramesAssumption
  DEF TypeOK, CallInv, AllRequests, InChunk, Page
<1>2. h \in Nat
  BY HeaderAssumption DEF DataStart
<1>3. i \in Nat /\ i < PageSize - Offset(a) /\ req[c].addr + (done[c] + i) = a + i
  BY <1>1 DEF Cursor
<1>4. PageOf(a + i) = PageOf(a) /\ Offset(a + i) = Offset(a) + i
  BY <1>1, <1>3, SamePage
<1>5. PhysAddr(c, a + i) = PhysAddr(c, a) + i
  <2>1. CASE PageOf(a) \in astray[c]
    <3>1. StrayFrameOf[PageOf(a)] \in Nat
      BY <2>1, ReclaimAssumption DEF TypeOK
    <3>2. StrayFrameOf[PageOf(a)] * PageSize \in Nat
      BY <1>1, <3>1
    <3>3. /\ PhysAddr(c, a) = StrayFrameOf[PageOf(a)] * PageSize + Offset(a)
          /\ PhysAddr(c, a + i)
               = StrayFrameOf[PageOf(a)] * PageSize + (Offset(a) + i)
      BY <1>4, <2>1 DEF PhysAddr, StrayPhysOf
    <3> HIDE DEF a
    <3> QED BY <1>1, <1>3, <3>2, <3>3
  <2>2. CASE PageOf(a) \notin astray[c]
    <3>1. FrameOf[PageOf(a)] * PageSize \in Nat
      BY <1>1
    <3>2. /\ PhysAddr(c, a) = FrameOf[PageOf(a)] * PageSize + Offset(a)
          /\ PhysAddr(c, a + i) = FrameOf[PageOf(a)] * PageSize + (Offset(a) + i)
      BY <1>4, <2>2 DEF PhysAddr, PhysOf
    <3> HIDE DEF a
    <3> QED BY <1>1, <1>3, <3>1, <3>2
  <2> QED BY <2>1, <2>2
<1>6. (done[c] + i) + h = BufOffset(c) + i
  BY <1>1, <1>2, <1>3 DEF BufOffset
<1> QED BY <1>3, <1>4, <1>5, <1>6 DEF Page

\* The reference grows with the range.
LEMMA ReferenceGrows ==
    ASSUME NEW c \in Callers, NEW n \in Nat, NEW m \in Nat, n <= m
    PROVE  Reference(c, n) \subseteq Reference(c, m)
<1> SUFFICES ASSUME NEW x \in Reference(c, n) PROVE x \in Reference(c, m)
  OBVIOUS
<1>1. PICK b \in 0..(n - 1) :
         x = <<PhysAddr(c, req[c].addr + b), b + DataStart(c)>>
  BY ReferenceMember
<1>2. b \in 0..(m - 1)
  OBVIOUS
<1> QED BY <1>1, <1>2, ReferenceMember

\* What has been moved at each point of a call whose copies do not fail.
MovedInv ==
    \A c \in Callers :
        /\ pc[c] \in {"idle", "check", "loop", "mk", "copy"} => Has(c, done[c])
        /\ pc[c] = "restore" => Has(c, done[c] + Chunk(c))
        /\ pc[c] = "done" /\ ret[c] >= 0 => Has(c, ret[c])

\* A call that has moved nothing.
LEMMA HasZero ==
    ASSUME NEW c \in Callers, moved'[c] = {}
    PROVE  Has(c, 0)'
  BY DEF Has, Resident

LEMMA InitMoved == Init => MovedInv
<1> SUFFICES ASSUME Init, NEW c \in Callers
             PROVE  /\ pc[c] = "idle"
                    /\ Has(c, done[c])
  BY DEF MovedInv
<1>1. pc[c] = "idle" /\ done[c] = 0 /\ moved[c] = {}
  BY DEF Init
<1>2. Resident(c, 0) = {}
  BY DEF Resident
<1> QED BY <1>1, <1>2 DEF Has

\* A call that a step does not concern keeps its clauses.
LEMMA MovedFrame ==
    ASSUME NEW c \in Callers, MovedInv, pc'[c] = pc[c], req'[c] = req[c],
           done'[c] = done[c], ret'[c] = ret[c], moved'[c] = moved[c],
           astray'[c] = astray[c]
    PROVE  /\ pc'[c] \in {"idle", "check", "loop", "mk", "copy"}
                => Has(c, done[c])'
           /\ pc'[c] = "restore" => Has(c, done[c] + Chunk(c))'
           /\ pc'[c] = "done" /\ ret'[c] >= 0 => Has(c, ret[c])'
  BY DEF MovedInv, Has, Resident, Reference, PhysAddr, DataStart, Chunk, Cursor

LEMMA NextMoved ==
    ~ Faults /\ BaseInv /\ AlignInv /\ MovedInv /\ [Next]_vars => MovedInv'
<1> SUFFICES ASSUME ~ Faults, TypeOK, CallInv, EntryInv, AlignInv, MovedInv,
                    [Next]_vars
             PROVE  MovedInv'
  BY DEF BaseInv
<1> DEFINE Clauses(c) ==
      /\ pc'[c] \in {"idle", "check", "loop", "mk", "copy"} => Has(c, done[c])'
      /\ pc'[c] = "restore" => Has(c, done[c] + Chunk(c))'
      /\ pc'[c] = "done" /\ ret'[c] >= 0 => Has(c, ret[c])'
<1>1. ASSUME NEW c \in Callers, NEW r \in Requests, Start(c, r)
      PROVE  \A d \in Callers : Clauses(d)
  <2>1. \A d \in Callers \ {c} : Clauses(d)
    BY <1>1, MovedFrame DEF TypeOK, Start, Goto
  <2>2. moved'[c] = {} /\ done'[c] = 0 /\ pc'[c] = "check"
    BY <1>1 DEF TypeOK, CallInv, Start, Goto
  <2>3. Clauses(c)
    BY <2>2, HasZero
  <2> QED BY <2>1, <2>3
<1>2. ASSUME NEW c \in Callers,
             NoPid(c) \/ Refuse(c) \/ Accept(c) \/ Break(c) \/ MakeWritable(c)
                \/ Oops(c)
      PROVE  \A d \in Callers : Clauses(d)
  <2>1. \A d \in Callers \ {c} : Clauses(d)
    BY <1>2, MovedFrame DEF TypeOK, NoPid, Refuse, Accept, Break, Finish,
          MakeWritable, Oops, Goto
  <2>2. req' = req /\ done' = done /\ moved' = moved /\ astray' = astray
    BY <1>2 DEF NoPid, Refuse, Accept, Break, MakeWritable, Oops
  <2>3. \/ pc'[c] = "done" /\ ret'[c] < 0
        \/ pc[c] = "loop" /\ pc'[c] = "done" /\ ret'[c] = done[c]
        \/ pc[c] \in {"check", "mk"} /\ pc'[c] \in {"loop", "copy"}
        \/ pc'[c] = "oops"
    BY <1>2 DEF TypeOK, NoPid, Refuse, Accept, Break, Finish,
          MakeWritable, Oops, Goto, EINVAL, EFAULT
  <2>4. ret'[c] \in Int
    BY <1>2, NextBase DEF BaseInv, TypeOK
  <2>5. Clauses(c)
    BY <2>2, <2>3, <2>4
    DEF MovedInv, Has, Resident, Reference, PhysAddr, DataStart
  <2> QED BY <2>1, <2>5
<1>3. ASSUME NEW c \in Callers, Translate(c)
      PROVE  \A d \in Callers : Clauses(d)
  <2>1. \A d \in Callers \ {c} : Clauses(d)
    BY <1>3, MovedFrame DEF TypeOK, Translate
  <2>2. /\ req' = req /\ done' = done /\ moved' = moved
        /\ pc[c] = "loop" /\ pc'[c] \in {"copy", "mk"} /\ done[c] < req[c].size
        /\ \A p : p # Page(c) => (p \in astray'[c] <=> p \in astray[c])
    BY <1>3 DEF TypeOK, Translate
  <2>3. \A b \in 0..(done[c] - 1) :
           PageOf(req[c].addr + b) \in astray'[c]
             <=> PageOf(req[c].addr + b) \in astray[c]
    BY <2>2, OtherPage
  <2>4. \A b \in 0..(done[c] - 1) :
           PhysAddr(c, req[c].addr + b)' = PhysAddr(c, req[c].addr + b)
    BY <2>2, <2>3 DEF PhysAddr, PhysOf, StrayPhysOf
  <2>5. Reference(c, done[c])' = Reference(c, done[c])
    <3>1. Reference(c, done[c])'
            = {<<PhysAddr(c, req[c].addr + b)', b + DataStart(c)>> :
                  b \in 0..(done[c] - 1)}
      BY <2>2 DEF Reference, DataStart
    <3> QED BY <2>4, <3>1 DEF Reference
  <2>6. Resident(c, done[c])' = Resident(c, done[c])
    BY <2>2, <2>3 DEF Resident
  <2>7. Has(c, done[c])'
    BY <2>2, <2>5, <2>6 DEF MovedInv, Has, DataStart, PhysOf
  <2> QED BY <2>1, <2>2, <2>7
<1>4. ASSUME NEW c \in Callers, Copy(c)
      PROVE  \A d \in Callers : Clauses(d)
  <2>1. \A d \in Callers \ {c} : Clauses(d)
    BY <1>4, MovedFrame DEF TypeOK, Copy, Advance, Goto
  <2>2. /\ Chunk(c) \in Nat /\ done[c] \in Nat /\ done[c] + Chunk(c) \in Nat
        /\ pc[c] = "copy" /\ req' = req /\ astray' = astray
    BY <1>4, ChunkFacts DEF TypeOK, Copy, Goto, InChunk
  <2>3. PICK n \in Copied(c) : moved'[c] = moved[c] \cup Bytes(c, n)
    BY <1>4 DEF TypeOK, Copy
  <2>4. /\ n \in Nat /\ n <= Chunk(c)
        /\ Page(c) \notin astray[c] => n = Chunk(c)
    BY <2>2, CopiedFacts
  <2>5. Has(c, done[c])
    BY <2>2 DEF MovedInv
  <2>6. moved'[c] \subseteq Reference(c, done[c] + Chunk(c))
    <3>1. moved[c] \subseteq Reference(c, done[c] + Chunk(c))
      BY <2>2, <2>5, ReferenceGrows DEF Has
    <3>2. ASSUME NEW x \in Bytes(c, n)
          PROVE  x \in Reference(c, done[c] + Chunk(c))
      <4>1. PICK i \in 0..(n - 1) :
               x = <<PhysAddr(c, Cursor(c)) + i, BufOffset(c) + i>>
        BY DEF Bytes
      <4>2. i \in 0..(Chunk(c) - 1) /\ done[c] + i \in 0..(done[c] + Chunk(c) - 1)
        BY <2>2, <2>4
      <4> QED BY <2>2, <4>1, <4>2, ChunkByte, ReferenceMember
    <3> QED BY <2>3, <3>1, <3>2
  <2>7. ASSUME NEW b \in Resident(c, done[c] + Chunk(c))
        PROVE  <<PhysOf(req[c].addr + b), b + DataStart(c)>> \in moved'[c]
    <3>1. CASE b < done[c]
      <4>1. b \in Resident(c, done[c])
        BY <2>2, <3>1 DEF Resident
      <4> QED BY <2>3, <2>5, <4>1 DEF Has
    <3>2. CASE b >= done[c]
      <4>1. b - done[c] \in 0..(Chunk(c) - 1) /\ b = done[c] + (b - done[c])
        BY <2>2, <3>2 DEF Resident
      <4>2. /\ <<PhysAddr(c, req[c].addr + b), b + DataStart(c)>>
                  = <<PhysAddr(c, Cursor(c)) + (b - done[c]),
                      BufOffset(c) + (b - done[c])>>
            /\ PageOf(req[c].addr + b) = Page(c)
        BY <2>2, <4>1, ChunkByte
      <4>3. PhysAddr(c, req[c].addr + b) = PhysOf(req[c].addr + b)
            /\ n = Chunk(c)
        BY <2>4, <4>2 DEF Resident, PhysAddr
      <4>4. <<PhysAddr(c, Cursor(c)) + (b - done[c]), BufOffset(c) + (b - done[c])>>
              \in Bytes(c, n)
        BY <4>1, <4>3 DEF Bytes
      <4> QED BY <2>3, <4>2, <4>3, <4>4
    <3> QED BY <2>2, <3>1, <3>2 DEF Resident
  <2>8. PICK m \in Nat : m = done[c] + Chunk(c)
    BY <2>2
  <2>9. Has(c, m)'
    <3>1. Resident(c, m)' = Resident(c, m) /\ Reference(c, m)' = Reference(c, m)
      BY <2>2 DEF Resident, Reference, PhysAddr, PhysOf, StrayPhysOf, DataStart
    <3> QED BY <2>2, <2>6, <2>7, <2>8, <3>1 DEF Has, DataStart, PhysOf
  <2>10. CASE RestoreNeeded(c)
    <3>1. pc'[c] = "restore" /\ done' = done
      BY <1>4, <2>10 DEF TypeOK, Copy, Goto
    <3>2. (done[c] + Chunk(c))' = m
      BY <2>2, <2>8, <3>1 DEF Chunk, Cursor
    <3> QED BY <2>1, <2>9, <3>1, <3>2
  <2>11. CASE ~ RestoreNeeded(c)
    <3>1. pc'[c] = "loop" /\ done'[c] = m
      BY <1>4, <2>8, <2>11 DEF TypeOK, Copy, Goto, Advance
    <3> QED BY <2>1, <2>9, <3>1
  <2> QED BY <2>10, <2>11
<1>5. ASSUME NEW c \in Callers, Restore(c)
      PROVE  \A d \in Callers : Clauses(d)
  <2>1. \A d \in Callers \ {c} : Clauses(d)
    BY <1>5, MovedFrame DEF TypeOK, Restore, Advance, Goto
  <2>2. /\ pc[c] = "restore" /\ pc'[c] = "loop" /\ req' = req
        /\ moved' = moved /\ astray' = astray /\ done'[c] = done[c] + Chunk(c)
    BY <1>5 DEF TypeOK, Restore, Goto, Advance
  <2>3. PICK m : m = done[c] + Chunk(c)
    OBVIOUS
  <2>4. Has(c, m)
    BY <2>2, <2>3 DEF MovedInv
  <2>5. Has(c, m)'
    BY <2>2, <2>4 DEF Has, Resident, Reference, PhysAddr, PhysOf, StrayPhysOf,
                      DataStart
  <2>6. Clauses(c)
    BY <2>2, <2>3, <2>5
  <2> QED BY <2>1, <2>6
<1>6. ASSUME NEW c \in Callers, Return(c)
      PROVE  \A d \in Callers : Clauses(d)
  <2>1. \A d \in Callers \ {c} : Clauses(d)
    BY <1>6, MovedFrame DEF TypeOK, Return, Goto
  <2>2. moved'[c] = {} /\ done'[c] = 0 /\ pc'[c] = "idle"
    BY <1>6 DEF TypeOK, Return, Goto
  <2>3. Clauses(c)
    BY <2>2, HasZero
  <2> QED BY <2>1, <2>3
<1>7. ASSUME UNCHANGED callVars
      PROVE  \A d \in Callers : Clauses(d)
  BY <1>7, MovedFrame DEF callVars
<1>8. \A d \in Callers : Clauses(d)
  BY <1>1, <1>2, <1>3, <1>4, <1>5, <1>6, <1>7
  DEF Next, Work, Fault, Upgrade, Reclaim, Exit, vars
<1> QED BY <1>8 DEF MovedInv

\* A call whose copies all succeed returns what it moved: the split of a range
\* into chunks neither loses, repeats nor misplaces a byte of a page in memory,
\* for every page size, alignment, length and physical layout; the bytes it
\* counts besides are those of stray entries.
THEOREM TransfersExact ==
    ASSUME ~ Faults
    PROVE  Spec => []TransferExact
<1>1. BaseInv /\ MovedInv => TransferExact
  BY DEF MovedInv, Has, TransferExact
<1>2. BaseInv /\ AlignInv /\ MovedInv /\ [Next]_vars => MovedInv'
  BY NextMoved
<1> QED BY <1>1, <1>2, InitBase, NextBase, InitAlign, NextAlign, InitMoved,
           PTL DEF Spec

=============================================================================
