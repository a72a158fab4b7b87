-------------------------- MODULE RwMemClientProofs --------------------------
(***************************************************************************)
(* Proofs about RwMemClient: the clients make only calls that RwMemIo      *)
(* allows, so that what is proved of the kernel module holds under them,   *)
(* and their buffers and results are right for every header length, page   *)
(* size and set of client calls.                                           *)
(***************************************************************************)
EXTENDS RwMemClient, RwMemIoProofs

-----------------------------------------------------------------------------
(* The composition implements the kernel module's specification.           *)

LEMMA ClientStep == [ClientNext]_clientVars => [Next]_vars
<1> SUFFICES ASSUME [ClientNext]_clientVars PROVE [Next]_vars
  OBVIOUS
<1>1. ASSUME NEW c \in Callers, NEW u \in Calls, Enter(c, u)
      PROVE  Next
  <2>1. PICK f \in Flags(u) : Start(c, Request(u, f))
    BY <1>1 DEF Enter
  <2>2. Request(u, f) \in Requests
    BY CallsAssumption
  <2> QED BY <2>1, <2>2 DEF Next
<1>2. ASSUME NEW c \in Callers, NEW u \in Calls, Panic(c, u)
      PROVE  UNCHANGED vars
  BY <1>2 DEF Panic
<1>3. ASSUME NEW c \in Callers, Work(c) \/ Leave(c)
      PROVE  Next
  BY <1>3 DEF Leave, Next
<1>4. ASSUME NEW p \in Pages, NEW w \in BOOLEAN, Fault(p, w)
      PROVE  Next
  BY <1>4 DEF Next
<1>5. CASE Exit \/ (\E p \in Pages : Upgrade(p))
             \/ \E p \in Reclaimable, w \in BOOLEAN : Reclaim(p, w)
  BY <1>5 DEF Next
<1>6. CASE UNCHANGED clientVars
  BY <1>6 DEF clientVars
<1> QED BY <1>1, <1>2, <1>3, <1>4, <1>5, <1>6 DEF ClientNext

\* Everything proved of rwmem_read and rwmem_write holds for the calls of
\* librwmem and of the CE server: the flags and ranges that the clients put
\* into the header are requests of RwMemIo, and a client does nothing else.
THEOREM ClientImplements == ClientSpec => Spec
<1>1. ClientInit => Init
  BY DEF ClientInit
<1> QED BY <1>1, ClientStep, PTL DEF ClientSpec, Spec

-----------------------------------------------------------------------------
(* The request in the kernel is the one the client laid out.               *)

UserInv ==
    /\ ClientTypeOK
    /\ \A c \in Callers :
          /\ pc[c] = "idle" <=> ~ Called(c)
          /\ Called(c) => req[c] = Request(user[c], req[c].force)

\* NoCall and Panicked are no calls.
LEMMA Values == NoCall \notin AllCalls /\ Panicked \notin AllCalls
  BY DEF NoCall, Panicked, AllCalls, Lib, Ce

LEMMA InitUser == ClientInit => UserInv
  BY Values DEF ClientInit, Init, UserInv, ClientTypeOK, Called

\* Inside a system call the request stays, and the call does not become idle.
LEMMA WorkKeeps ==
    ASSUME TypeOK, NEW c \in Callers, Work(c)
    PROVE  /\ req' = req
           /\ \A d \in Callers : pc'[d] = "idle" <=> pc[d] = "idle"
<1>1. CASE NoPid(c) \/ Refuse(c) \/ Break(c)
  BY <1>1 DEF TypeOK, NoPid, Refuse, Break, Finish
<1>2. CASE Accept(c) \/ MakeWritable(c) \/ Copy(c) \/ Restore(c)
  BY <1>2 DEF TypeOK, Accept, MakeWritable, Copy, Restore, Goto
<1>3. CASE Translate(c)
  BY <1>3 DEF TypeOK, Translate
<1>4. CASE Oops(c)
  BY <1>4 DEF TypeOK, Oops
<1> QED BY <1>1, <1>2, <1>3, <1>4 DEF Work

LEMMA NextUser == BaseInv /\ UserInv /\ [ClientNext]_clientVars => UserInv'
<1> SUFFICES ASSUME TypeOK, UserInv, [ClientNext]_clientVars PROVE UserInv'
  BY DEF BaseInv
<1>1. ASSUME NEW c \in Callers, NEW u \in Calls, Enter(c, u)
      PROVE  UserInv'
  <2>1. u \in AllCalls
    BY CallsAssumption
  <2>2. PICK f \in Flags(u) : Start(c, Request(u, f))
    BY <1>1 DEF Enter
  <2>3. Request(u, f) = Request(u, Request(u, f).force)
    BY DEF Request
  <2>4. /\ user' = [user EXCEPT ![c] = u]
        /\ req' = [req EXCEPT ![c] = Request(u, f)]
        /\ pc' = [pc EXCEPT ![c] = "check"]
    BY <1>1, <2>2 DEF Enter, Start, Goto
  <2> QED BY <2>1, <2>3, <2>4 DEF TypeOK, UserInv, ClientTypeOK, Called
<1>2. ASSUME NEW c \in Callers, NEW u \in Calls, Panic(c, u)
      PROVE  UserInv'
  BY <1>2, Values DEF Panic, UserInv, ClientTypeOK, Called, vars, callVars
<1>3. ASSUME NEW c \in Callers, Work(c), UNCHANGED user
      PROVE  UserInv'
  BY <1>3, WorkKeeps DEF UserInv, ClientTypeOK, Called
<1>4. ASSUME NEW c \in Callers, Leave(c)
      PROVE  UserInv'
  <2>1. /\ user' = [user EXCEPT ![c] = NoCall]
        /\ req' = [req EXCEPT ![c] = NoRequest]
        /\ pc' = [pc EXCEPT ![c] = "idle"]
    BY <1>4 DEF Leave, Return, Goto
  <2> QED BY <2>1, Values DEF TypeOK, UserInv, ClientTypeOK, Called
<1>5. ASSUME UNCHANGED callVars, UNCHANGED user
      PROVE  UserInv'
  BY <1>5 DEF callVars, UserInv, ClientTypeOK, Called
<1> QED
  BY <1>1, <1>2, <1>3, <1>4, <1>5
  DEF ClientNext, Fault, Upgrade, Reclaim, Exit, clientVars, vars

-----------------------------------------------------------------------------
(* The buffers.                                                            *)

\* The bytes moved lie in the data part of the buffer.
OffsetInv ==
    \A c \in Callers : \A m \in moved[c] :
        DataStart(c) <= m[2] /\ m[2] < DataStart(c) + req[c].size

LEMMA InitOffset == Init => OffsetInv
  BY DEF Init, OffsetInv

LEMMA NextOffset == BaseInv /\ OffsetInv /\ [Next]_vars => OffsetInv'
<1> SUFFICES ASSUME TypeOK, CallInv, OffsetInv, [Next]_vars PROVE OffsetInv'
  BY DEF BaseInv
<1>1. ASSUME NEW c \in Callers, NEW r \in Requests, Start(c, r)
      PROVE  OffsetInv'
  BY <1>1 DEF TypeOK, CallInv, OffsetInv, DataStart, Start, Goto
<1>2. ASSUME NEW c \in Callers, Return(c)
      PROVE  OffsetInv'
  BY <1>2 DEF TypeOK, OffsetInv, DataStart, Return
<1>3. ASSUME NEW c \in Callers, Copy(c)
      PROVE  OffsetInv'
  <2>1. /\ Chunk(c) \in Nat /\ done[c] \in Nat /\ req[c].size \in Nat
        /\ done[c] + Chunk(c) <= req[c].size
    BY <1>3, ChunkFacts DEF Copy, Goto, InChunk, TypeOK, AllRequests
  <2>2. DataStart(c) \in Nat /\ req' = req
    BY <1>3, HeaderAssumption DEF DataStart, Copy
  <2>3. PICK n \in Copied(c) : moved' = [moved EXCEPT ![c] = @ \cup Bytes(c, n)]
    BY <1>3 DEF Copy
  <2>4. n \in Nat /\ n <= Chunk(c)
    BY <2>1, CopiedFacts
  <2>5. ASSUME NEW i \in 0..(n - 1)
        PROVE  /\ DataStart(c) <= BufOffset(c) + i
               /\ BufOffset(c) + i < DataStart(c) + req[c].size
    BY <2>1, <2>2, <2>4 DEF BufOffset
  <2>6. ASSUME NEW m \in moved'[c]
        PROVE  DataStart(c) <= m[2] /\ m[2] < DataStart(c) + req[c].size
    <3>1. CASE m \in moved[c]
      BY <3>1 DEF OffsetInv
    <3>2. CASE m \notin moved[c]
      <4>1. PICK i \in 0..(n - 1) :
               m = <<PhysAddr(c, Cursor(c)) + i, BufOffset(c) + i>>
        BY <2>3, <3>2 DEF TypeOK, Bytes
      <4>2. m[2] = BufOffset(c) + i
        BY <4>1
      <4> QED BY <2>5, <4>2
    <3> QED BY <3>1, <3>2
  <2>7. \A d \in Callers \ {c} : moved'[d] = moved[d]
    BY <2>3 DEF TypeOK
  <2> QED BY <2>2, <2>6, <2>7 DEF OffsetInv, DataStart
<1>4. ASSUME UNCHANGED <<req, moved>>
      PROVE  OffsetInv'
  BY <1>4 DEF OffsetInv, DataStart
<1> QED
  BY <1>1, <1>2, <1>3, <1>4
  DEF Next, Work, NoPid, Refuse, Accept, Break, Translate, MakeWritable,
      Restore, Oops, Fault, Upgrade, Reclaim, Exit, callVars, vars

\* The kernel never reads or writes outside the buffer that a client function
\* passed, for every length of the transfer: shorter than the parameters, as
\* long, or longer, and whether copies fail or not.
THEOREM BuffersRespected == ClientSpec => []InBuffer
<1>1. ASSUME TypeOK, UserInv, OffsetInv
      PROVE  InBuffer
  <2> SUFFICES ASSUME NEW c \in Callers, Called(c)
               PROVE  /\ Header <= BufLen(user[c])
                      /\ \A m \in moved[c] : 0 <= m[2] /\ m[2] < BufLen(user[c])
    BY DEF InBuffer
  <2>1. user[c].n \in Nat
    BY DEF Called, AllCalls
  <2>2. req[c].size = user[c].n
        /\ req[c].op = IF Writes(user[c]) THEN "write" ELSE "read"
    <3>1. req[c] = Request(user[c], req[c].force)
      BY <1>1 DEF UserInv
    <3> QED BY <3>1 DEF Request
  <2>3. DataStart(c) = IF Writes(user[c]) THEN Header ELSE 0
    BY <2>2 DEF DataStart
  <2>4. /\ Header <= BufLen(user[c])
        /\ DataStart(c) \in Nat
        /\ DataStart(c) + user[c].n <= BufLen(user[c])
        /\ BufLen(user[c]) \in Nat
    BY <2>1, <2>3, HeaderAssumption DEF BufLen
  <2>5. \A m \in moved[c] : m[2] \in Nat
    BY <1>1 DEF TypeOK
  <2>6. \A m \in moved[c] : DataStart(c) <= m[2] /\ m[2] < DataStart(c) + user[c].n
    BY <1>1, <2>2 DEF OffsetInv
  <2> QED BY <2>1, <2>4, <2>5, <2>6
<1>2. BaseInv /\ UserInv /\ OffsetInv => InBuffer
  BY <1>1 DEF BaseInv
<1>3. ClientInit => Init
  BY DEF ClientInit
<1> QED
  BY <1>2, <1>3, ClientStep, InitBase, NextBase, InitUser, NextUser,
     InitOffset, NextOffset, PTL DEF ClientSpec

-----------------------------------------------------------------------------
(* The results.                                                            *)

\* Of a call whose copies do not fail, a client function that reports success
\* has moved every byte of a page in memory between its place there and its
\* place in the caller's memory, and besides only bytes of stray entries.
THEOREM ClientsExact ==
    ASSUME ~ Faults
    PROVE  ClientSpec => []ClientExact
<1>1. ASSUME TypeOK, UserInv, TransferExact
      PROVE  ClientExact
  <2> SUFFICES ASSUME NEW c \in Callers, pc[c] = "done", Called(c),
                      Succeeds(user[c], ret[c])
               PROVE  LET u == user[c]
                          n == Reported(u, ret[c])
                      IN  /\ \A b \in Resident(c, n) :
                               <<PhysOf(u.addr + b), b>> \in Received(c)
                          /\ \A m \in Received(c) : \E b \in 0..(n - 1) :
                               m = <<PhysAddr(c, u.addr + b), b>>
    BY DEF ClientExact
  <2> DEFINE r == ret[c]
             a == user[c].addr
  <2>1. /\ user[c].n \in Nat /\ r \in Int
        /\ req[c].addr = a
        /\ req[c].op = IF Writes(user[c]) THEN "write" ELSE "read"
    BY <1>1 DEF UserInv, Request, Called, AllCalls, TypeOK
  <2>2. r >= 0 /\ Reported(user[c], r) = r
    BY <2>1 DEF Succeeds, Reported
  <2>3. \A m \in moved[c] : \E b \in 0..(r - 1) :
           m = <<PhysAddr(c, a + b), b + DataStart(c)>>
    <3>1. moved[c] \subseteq Reference(c, r)
      BY <1>1, <2>2 DEF TransferExact
    <3> QED BY <2>1, <3>1, ReferenceMember
  <2>4. \A b \in Resident(c, r) : <<PhysOf(a + b), b + DataStart(c)>> \in moved[c]
    BY <1>1, <2>1, <2>2 DEF TransferExact
  <2>5. Resident(c, r) \subseteq 0..(r - 1)
    BY DEF Resident
  <2>6. CASE Writes(user[c])
    <3>1. DataStart(c) = Header /\ Header \in Nat
      BY <2>1, <2>6, HeaderAssumption DEF DataStart
    <3>2. Received(c) = {<<m[1], m[2] - Header>> : m \in moved[c]}
      BY <2>6 DEF Received
    <3>3. ASSUME NEW b \in Resident(c, r)
          PROVE  <<PhysOf(a + b), b>> \in Received(c)
      <4> DEFINE m == <<PhysOf(a + b), b + Header>>
      <4>1. m \in moved[c]
        BY <2>4, <3>1
      <4>2. b \in Int
        BY <2>5
      <4>3. m[1] = PhysOf(a + b) /\ m[2] - Header = b
        BY <3>1, <4>2
      <4> HIDE DEF m
      <4> QED BY <3>2, <4>1, <4>3
    <3>4. ASSUME NEW x \in Received(c)
          PROVE  \E b \in 0..(r - 1) : x = <<PhysAddr(c, a + b), b>>
      <4>1. PICK m \in moved[c] : x = <<m[1], m[2] - Header>>
        BY <3>2
      <4>2. PICK b \in 0..(r - 1) : m = <<PhysAddr(c, a + b), b + Header>>
        BY <2>3, <3>1
      <4>3. m[1] = PhysAddr(c, a + b) /\ m[2] - Header = b
        BY <3>1, <4>2
      <4> QED BY <4>1, <4>3
    <3> QED BY <2>2, <3>3, <3>4
  <2>7. CASE ~ Writes(user[c])
    <3>1. DataStart(c) = 0
      BY <2>1, <2>7 DEF DataStart
    <3>2. \A b \in 0..(r - 1) : b + 0 = b /\ b < r
      BY <2>1
    <3>3. ASSUME NEW m \in moved[c]
          PROVE  m[2] < r /\ \E b \in 0..(r - 1) : m = <<PhysAddr(c, a + b), b>>
      <4>1. PICK b \in 0..(r - 1) : m = <<PhysAddr(c, a + b), b + 0>>
        BY <2>3, <3>1
      <4> QED BY <3>2, <4>1
    <3>4. Received(c) = moved[c]
      BY <2>2, <2>7, <3>3 DEF Received
    <3>5. \A b \in Resident(c, r) : <<PhysOf(a + b), b>> \in moved[c]
      BY <2>4, <2>5, <3>1, <3>2
    <3> QED BY <2>2, <3>3, <3>4, <3>5
  <2> QED BY <2>6, <2>7
<1>2. BaseInv /\ UserInv /\ TransferExact => ClientExact
  BY <1>1 DEF BaseInv
<1>3. Spec => []TransferExact
  BY TransfersExact
<1>4. ClientInit => Init
  BY DEF ClientInit
<1> QED
  BY <1>2, <1>3, <1>4, ClientStep, ClientImplements, InitBase, NextBase,
     InitUser, NextUser, PTL DEF ClientSpec

=============================================================================
