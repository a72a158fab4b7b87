------------------------------- MODULE RwMemIo -------------------------------
(***************************************************************************)
(* Reading and writing the memory of a target process through the device   *)
(* file: rwmem_read and rwmem_write of rwMem/sys.c, the page-table walk    *)
(* and the copies of rwMem/phy_mem.h, the VMA checks of rwMem/proc_maps.h. *)
(*                                                                         *)
(* A call translates its range page by page and moves the bytes of each    *)
(* page through the kernel's linear map.  A forced write makes a           *)
(* read-only page-table entry writable for the time of the copy.  Calls of *)
(* several client threads run concurrently, while the target faults pages  *)
(* in, writes to them and may exit, and the kernel swaps pages out.  The   *)
(* walk asks of an entry only whether it is none: one that is not none but *)
(* names no page in memory is used like any other.  Of the data only the   *)
(* provenance is kept: the pairs of a physical address and a client buffer *)
(* offset between which a byte moved.                                      *)
(***************************************************************************)
EXTENDS Integers

CONSTANTS
    Callers,            \* client threads
    PageSize,           \* bytes of a page
    NPages,             \* pages of the target's address space
    FrameOf,            \* the physical page the kernel gives to each page
    Reclaimable,        \* pages that it may take out of memory again
    StrayFrameOf,       \* the frame number in the bits of an entry of these
    Vmas,               \* memory areas of the target ...
    Readable, Writable, \* ... those with VM_READ, those with VM_WRITE
    None,               \* no memory area
    Header,             \* bytes of pid, address and force flag (17)
    Requests,           \* the calls that clients make
    Faults              \* TRUE: a copy may fail half way

Pages == 0..(NPages - 1)

\* What the header of a call says, and its length.
AllRequests == [op : {"read", "write"}, addr : Nat, size : Nat, force : BOOLEAN]
NoRequest == [op |-> "read", addr |-> 0, size |-> 0, force |-> FALSE]

ASSUME PagesAssumption == PageSize \in Nat \ {0} /\ NPages \in Nat
ASSUME HeaderAssumption == Header \in Nat \ {0}
ASSUME RequestsAssumption == Requests \subseteq AllRequests
\* Physical page 0 is never given to a process: the walk returns 0 for
\* "not mapped".
ASSUME FramesAssumption ==
    FrameOf \in [Pages -> Nat \ {0}]
    /\ \A p, q \in Pages : FrameOf[p] = FrameOf[q] => p = q
ASSUME ReclaimAssumption ==
    Reclaimable \subseteq Pages /\ StrayFrameOf \in [Reclaimable -> Nat]
ASSUME VmasAssumption ==
    None \notin Vmas /\ Readable \subseteq Vmas /\ Writable \subseteq Vmas
ASSUME FaultsAssumption == Faults \in BOOLEAN

VARIABLES
    \* the target: is it alive, the memory area of each page, what the walk
    \* finds as its entry, the write bit there and the bit the kernel gave it
    alive, vma, entry, writable, granted,
    \* pages that the kernel made writable for the target while a forced write
    \* that had found them read-only was under way (a history)
    raced,
    \* the calls: control point, request, read_size or write_size,
    \* old_pte_can_write, result, the bytes moved
    pc, req, done, old_can, ret, moved,
    \* the pages for which the walk of the call took its address from a stray
    \* entry
    astray

targetVars == <<alive, vma, entry, writable, granted, raced>>
callVars   == <<pc, req, done, old_can, ret, moved, astray>>
vars       == <<targetVars, callVars>>

EINVAL == -22
EFAULT == -14

\* What the walk finds for a page: nothing; the entry of a page in memory; or
\* bits that are no such entry, because the page is swapped out (or its table
\* was replaced by a block mapping, whose memory is then taken for entries).
Entries == {"none", "present", "stray"}

Pcs == {"idle", "check", "loop", "mk", "copy", "restore", "done", "oops"}

TypeOK ==
    /\ alive \in BOOLEAN
    /\ vma \in [Pages -> Vmas \cup {None}]
    /\ entry \in [Pages -> Entries]
    /\ writable \in [Pages -> BOOLEAN]
    /\ granted \in [Pages -> BOOLEAN]
    /\ raced \subseteq Pages
    /\ pc \in [Callers -> Pcs]
    /\ req \in [Callers -> AllRequests]
    /\ done \in [Callers -> Nat]
    /\ old_can \in [Callers -> BOOLEAN]
    /\ ret \in [Callers -> Int]
    /\ moved \in [Callers -> SUBSET (Nat \X Nat)]
    /\ astray \in [Callers -> SUBSET Reclaimable]

\* A memory area is a range of pages.
Contiguous(v) == \A p, q, r \in Pages : p < q /\ q < r /\ v[p] = v[r]
                                        => v[q] = v[p] \/ v[p] = None

Init ==
    /\ alive = TRUE
    /\ vma \in {v \in [Pages -> Vmas \cup {None}] : Contiguous(v)}
    /\ entry = [p \in Pages |-> "none"]
    /\ writable = [p \in Pages |-> FALSE]
    /\ granted = [p \in Pages |-> FALSE]
    /\ raced = {}
    /\ pc = [c \in Callers |-> "idle"]
    /\ req = [c \in Callers |-> NoRequest]
    /\ done = [c \in Callers |-> 0]
    /\ old_can = [c \in Callers |-> FALSE]
    /\ ret = [c \in Callers |-> 0]
    /\ moved = [c \in Callers |-> {}]
    /\ astray = [c \in Callers |-> {}]

-----------------------------------------------------------------------------
(* Addresses.                                                              *)

PageOf(a) == a \div PageSize
Offset(a) == a % PageSize

\* page_to_phys(pte_page( *pte)) | page_offset, of a page in memory and of a
\* stray entry.
PhysOf(a) == FrameOf[PageOf(a)] * PageSize + Offset(a)
StrayPhysOf(a) == StrayFrameOf[PageOf(a)] * PageSize + Offset(a)

\* The address that the walk of call c gave for a.
PhysAddr(c, a) ==
    IF PageOf(a) \in astray[c] THEN StrayPhysOf(a) ELSE PhysOf(a)

\* The address a call has come to, and the page it lies in.
Cursor(c) == req[c].addr + done[c]
Page(c) == PageOf(Cursor(c))

\* size_inside_page of what is left of the call
SizeInsidePageBug(a, n) == n
SizeInsidePageSwapBug(a, n) == Offset(a) - PageSize
SizeInsidePageZeroBug(a, n) ==
    IF PageSize - Offset(a) <= n THEN PageSize - Offset(a) - 1 ELSE n
SizeInsidePage(a, n) ==
    IF PageSize - Offset(a) < n THEN PageSize - Offset(a) ELSE n

\* check_proc_map_can_read and check_proc_map_can_write: find_vma takes the
\* first area that ends above the address, which may start above it too.
Allowed(o) == IF o = "read" THEN Readable ELSE Writable

CheckMapBug(r) ==
    \E p \in Pages :
        /\ PageOf(r.addr) <= p
        /\ vma[p] \in Allowed(r.op)
        /\ \A s \in Pages : PageOf(r.addr) <= s /\ s < p => vma[s] = None
CheckMap(r) ==
    \E p, q \in Pages :
        /\ PageOf(r.addr) <= p /\ p <= q
        /\ vma[p] \in Allowed(r.op)
        /\ \A s \in Pages : PageOf(r.addr) <= s /\ s < p => vma[s] = None
        /\ \A s \in p..q : vma[s] = vma[p]
        /\ r.addr + r.size <= (q + 1) * PageSize

-----------------------------------------------------------------------------
(* The calls.                                                              *)

Goto(c, from, to) == pc[c] = from /\ pc' = [pc EXCEPT ![c] = to]

Finish(c, r) == /\ pc' = [pc EXCEPT ![c] = "done"]
                /\ ret' = [ret EXCEPT ![c] = r]

\* The header is copied in from the client's buffer.
Start(c, r) ==
    /\ Goto(c, "idle", "check")
    /\ req' = [req EXCEPT ![c] = r]
    /\ UNCHANGED <<targetVars, done, old_can, ret, moved, astray>>

\* find_get_pid finds no process.
NoPid(c) ==
    /\ pc[c] = "check"
    /\ ~ alive
    /\ Finish(c, EINVAL)
    /\ UNCHANGED <<targetVars, req, done, old_can, moved, astray>>

\* An unforced call is refused if the memory map does not allow it, or if
\* only a zombie is left of the process.
Refuse(c) ==
    /\ pc[c] = "check"
    /\ ~ req[c].force
    /\ alive => ~ CheckMap(req[c])
    /\ Finish(c, EFAULT)
    /\ UNCHANGED <<targetVars, req, done, old_can, moved, astray>>

Accept(c) ==
    /\ Goto(c, "check", "loop")
    /\ req[c].force \/ (alive /\ CheckMap(req[c]))
    /\ UNCHANGED <<targetVars, req, done, old_can, ret, moved, astray>>

\* get_proc_phy_addr finds an entry that is not none.
Mapped(c) == alive /\ Page(c) \in Pages /\ entry[Page(c)] # "none"

\* A stray entry: its bits may form an address, or that of page 0, which is
\* taken for "not mapped".
Stray(c) == entry[Page(c)] = "stray"

\* The page permits the access: is_pte_can_read always does on arm64, which
\* has no pte_read.
CanAccess(c) == req[c].op = "write" => writable[Page(c)]

\* The loop ends: everything is moved, the next page is not mapped or seems
\* not to be, or an unforced write meets a read-only entry.
Break(c) ==
    /\ pc[c] = "loop"
    /\ done[c] < req[c].size /\ Mapped(c)
          => Stray(c) \/ ~ (req[c].force \/ CanAccess(c))
    /\ Finish(c, done[c])
    /\ UNCHANGED <<targetVars, req, done, old_can, moved, astray>>

\* The walk, and the test of the entry that decides what is to be restored.
Translate(c) ==
    /\ pc[c] = "loop"
    /\ done[c] < req[c].size
    /\ Mapped(c)
    /\ req[c].force \/ CanAccess(c)
    /\ pc' = [pc EXCEPT ![c] = IF CanAccess(c) THEN "copy" ELSE "mk"]
    /\ old_can' = [old_can EXCEPT ![c] = CanAccess(c)]
    /\ astray' = [astray EXCEPT ![c] = @ \cup {p \in {Page(c)} : Stray(c)}]
    /\ UNCHANGED <<targetVars, req, done, ret, moved>>

\* change_pte_write_status(pte, true), whatever has become of the entry.
MakeWritable(c) ==
    /\ Goto(c, "mk", "copy")
    /\ writable' = [writable EXCEPT ![Page(c)] = TRUE]
    /\ UNCHANGED <<alive, vma, entry, granted, raced, req, done, old_can,
                   ret, moved, astray>>

\* read_ram_physical_addr or write_ram_physical_addr: n of the bytes of the
\* page are moved.  Fewer than all of them when the physical range check, the
\* bounce buffer, the probe or the copy to or from the client fails; the
\* caller ignores the returned count and advances by pfn_sz.  The range check
\* may refuse the address that a stray entry forms.
Chunk(c) == SizeInsidePage(Cursor(c), req[c].size - done[c])

\* Where the data starts in the client's buffer: a read overwrites the header.
DataStartBug(c) == 0
DataStart(c) == IF req[c].op = "write" THEN Header ELSE 0

BufOffset(c) == done[c] + DataStart(c)

RestoreNeededBug(c) == FALSE
RestoreAlwaysBug(c) == req[c].force /\ req[c].op = "write"
RestoreNeeded(c) == req[c].force /\ ~ old_can[c]

Advance(c) == done' = [done EXCEPT ![c] = @ + Chunk(c)]

Copied(c) == CASE Faults -> 0..Chunk(c)
               [] ~ Faults /\ Page(c) \in astray[c] -> {0, Chunk(c)}
               [] OTHER -> {Chunk(c)}

Bytes(c, n) == {<<PhysAddr(c, Cursor(c)) + i, BufOffset(c) + i>> : i \in 0..(n - 1)}

Copy(c) ==
    /\ Goto(c, "copy", IF RestoreNeeded(c) THEN "restore" ELSE "loop")
    /\ \E n \in Copied(c) :
          moved' = [moved EXCEPT ![c] = @ \cup Bytes(c, n)]
    /\ IF RestoreNeeded(c) THEN UNCHANGED done ELSE Advance(c)
    /\ UNCHANGED <<targetVars, req, old_can, ret, astray>>

\* change_pte_write_status(pte, false)
Restore(c) ==
    /\ Goto(c, "restore", "loop")
    /\ writable' = [writable EXCEPT ![Page(c)] = FALSE]
    /\ Advance(c)
    /\ UNCHANGED <<alive, vma, entry, granted, raced, req, old_can, ret,
                   moved, astray>>

\* mmput was called before the entry and the page are used: once the target
\* is gone they may be anything.
Oops(c) ==
    /\ ~ alive
    /\ pc[c] \in {"mk", "copy", "restore"}
    /\ pc' = [pc EXCEPT ![c] = "oops"]
    /\ UNCHANGED <<targetVars, req, done, old_can, ret, moved, astray>>

Return(c) ==
    /\ Goto(c, "done", "idle")
    /\ req' = [req EXCEPT ![c] = NoRequest]
    /\ done' = [done EXCEPT ![c] = 0]
    /\ old_can' = [old_can EXCEPT ![c] = FALSE]
    /\ ret' = [ret EXCEPT ![c] = 0]
    /\ moved' = [moved EXCEPT ![c] = {}]
    /\ astray' = [astray EXCEPT ![c] = {}]
    /\ UNCHANGED targetVars

-----------------------------------------------------------------------------
(* The target.                                                             *)

\* Call c is between a walk that found a read-only entry for page p and the
\* end of the iteration.
FoundReadOnly(c, p) ==
    pc[c] \in {"mk", "copy", "restore"} /\ ~ old_can[c] /\ Page(c) = p

\* The kernel writes the entry of page p, with or without the write bit.
Grant(p, w) ==
    /\ writable' = [writable EXCEPT ![p] = w]
    /\ granted' = [granted EXCEPT ![p] = w]
    /\ raced' = IF w /\ \E c \in Callers : FoundReadOnly(c, p)
                THEN raced \cup {p} ELSE raced \ {p}

\* The target touches a page of one of its areas that is not in memory, for
\* the first time or after it was taken out: the kernel grants a writable
\* entry at most where the area is writable (a copy-on-write page starts
\* read-only).  A page comes back to its frame.
Fault(p, w) ==
    /\ alive
    /\ vma[p] # None
    /\ entry[p] # "present"
    /\ w => vma[p] \in Writable
    /\ entry' = [entry EXCEPT ![p] = "present"]
    /\ Grant(p, w)
    /\ UNCHANGED <<alive, vma, callVars>>

\* The target writes to a page with a read-only entry: where the area permits
\* it the kernel makes the entry writable, and the page keeps its frame.
Upgrade(p) ==
    /\ alive
    /\ entry[p] = "present" /\ ~ writable[p]
    /\ vma[p] \in Writable
    /\ Grant(p, TRUE)
    /\ UNCHANGED <<alive, vma, entry, callVars>>

\* The kernel takes a page out of memory, or maps it by a block; a call may
\* have its address already.  Whether the bits left behind read as writable is
\* chance.
Reclaim(p, w) ==
    /\ alive
    /\ entry[p] = "present"
    /\ entry' = [entry EXCEPT ![p] = "stray"]
    /\ writable' = [writable EXCEPT ![p] = w]
    /\ granted' = [granted EXCEPT ![p] = FALSE]
    /\ raced' = raced \ {p}
    /\ UNCHANGED <<alive, vma, callVars>>

Exit ==
    /\ alive
    /\ alive' = FALSE
    /\ UNCHANGED <<vma, entry, writable, granted, raced, callVars>>

-----------------------------------------------------------------------------

Work(c) ==
    \/ NoPid(c)
    \/ Refuse(c)
    \/ Accept(c)
    \/ Break(c)
    \/ Translate(c)
    \/ MakeWritable(c)
    \/ Copy(c)
    \/ Restore(c)
    \/ Oops(c)

Next ==
    \/ \E c \in Callers :
          \/ \E r \in Requests : Start(c, r)
          \/ Work(c)
          \/ Return(c)
    \/ \E p \in Pages, w \in BOOLEAN : Fault(p, w)
    \/ \E p \in Pages : Upgrade(p)
    \/ \E p \in Reclaimable, w \in BOOLEAN : Reclaim(p, w)
    \/ Exit

Spec == Init /\ [][Next]_vars

\* A system call that was entered goes on; nothing forces the target to run
\* or a client to call.
FairSpec == Spec /\ \A c \in Callers : WF_vars(Work(c))

-----------------------------------------------------------------------------
(* Properties.                                                             *)

\* The range of a call up to its n-th byte, as pairs of the physical address
\* that the walk gave and the offset in the client's buffer.
Reference(c, n) ==
    {<<PhysAddr(c, req[c].addr + b), b + DataStart(c)>> : b \in 0..(n - 1)}

\* Those of its bytes whose pages were in memory when the call came to them.
Resident(c, n) ==
    {b \in 0..(n - 1) : PageOf(req[c].addr + b) \notin astray[c]}

\* The count a call returns is what it moved: of the first ret bytes of its
\* range every one whose page was in memory at the walk moved between its own
\* physical address and its own offset of the buffer, whatever the alignment
\* and the physical layout, and nothing else moved except for bytes of pages
\* that were not in memory, which phy_mem.h:123 lets pass: between their offset
\* and the address that the bits of the entry form.
TransferExact ==
    \A c \in Callers : pc[c] = "done" /\ ret[c] >= 0
        => /\ \A b \in Resident(c, ret[c]) :
                 <<PhysOf(req[c].addr + b), b + DataStart(c)>> \in moved[c]
           /\ moved[c] \subseteq Reference(c, ret[c])

\* A call counts only bytes of pages in memory: hpp:101 says of the driver
\* that it cannot read the others.
CountsOnlyMemory ==
    \A c \in Callers : pc[c] = "done" => Resident(c, ret[c]) = 0..(ret[c] - 1)

\* Page p can be accessed by call c, as the kernel granted it or by force.
Open(c, p) == /\ p \in Pages
              /\ entry[p] = "present"
              /\ req[c].op = "read" \/ req[c].force \/ granted[p]

\* A call stops short only at a page that it may not access: the forced
\* writes of other threads, which set and clear write bits under it, never
\* make it miss a page that the target can access, unless the kernel upgraded
\* the entry in the middle of a forced write.
NothingMissed ==
    [][\A c \in Callers :
          (/\ alive
           /\ pc[c] = "loop" /\ pc'[c] = "done"
           /\ ret'[c] < req[c].size)
              => LET p == PageOf(req[c].addr + ret'[c])
                 IN  ~ Open(c, p) \/ p \in raced]_vars

\* An unforced call moves only bytes of areas with the right permission,
\* although the map is consulted once, for the first area at or above the
\* address, and write bits may be set by a forced write under way.
UnforcedInVma ==
    \A c \in Callers : ~ req[c].force
        => \A b \in 0..(done[c] - 1) :
              vma[PageOf(req[c].addr + b)] \in Allowed(req[c].op)

\* Call c has made a read-only entry of page p writable.
Overriding(c, p) == /\ pc[c] \in {"copy", "restore"}
                    /\ RestoreNeeded(c)
                    /\ Page(c) = p

\* Concurrent forced writes leave the entries of the pages of a live target that
\* are in memory as the kernel granted them: a write permission that it did not
\* grant is there only while a forced write of the page is under way, and one
\* that it granted is lost only if it was granted in the middle of one.
PteRestored ==
    alive => \A p \in Pages : entry[p] = "present" =>
        /\ writable[p] /\ ~ granted[p] => \E c \in Callers : Overriding(c, p)
        /\ granted[p] /\ ~ writable[p] => p \in raced

\* Every call returns, however the range and the pages lie.
CallsReturn ==
    \A c \in Callers : pc[c] = "check" ~> pc[c] \in {"done", "oops"}

=============================================================================
