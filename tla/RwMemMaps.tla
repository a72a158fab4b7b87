------------------------------ MODULE RwMemMaps ------------------------------
(***************************************************************************)
(* The memory map of a target and the pages of it that have an entry in    *)
(* its page table: the ioctls of rwMem/sys.c that count the areas, list    *)
(* them and deliver the bitmap of pages, and their two clients, get_mem_map *)
(* of librwmem and the driver wrapper of the CE server, whose list of      *)
(* regions VirtualQueryEx and VirtualQueryExFull answer from.              *)
(*                                                                         *)
(* The target maps, unmaps, faults, drops and swaps pages between and      *)
(* during the ioctls, and may exit.  Calls share no state, so one is       *)
(* modelled at a time.  Addresses are page numbers; of an area its name is *)
(* left out.                                                               *)
(***************************************************************************)
EXTENDS Integers, Sequences

CONSTANTS
    NPages,       \* pages of the target's address space
    Maps,         \* memory maps the target may have
    Swappable,    \* pages that may be swapped out
    Slack,        \* entries a client adds to the count (50)
    ByteBits,     \* pages that a byte of the bitmap describes (8)
    ChunkBytes,   \* MAX_MALLOC_SIZE, bytes delivered at a time (1024)
    ParamBytes    \* length of the parameters of the bitmap call (24)

Pages == 0..(NPages - 1)

\* An area: pages start to end - 1, VM_READ, VM_WRITE, VM_EXEC, VM_MAYSHARE.
Flags == [r : BOOLEAN, w : BOOLEAN, x : BOOLEAN, s : BOOLEAN]
Areas == [start : 0..NPages, end : 0..NPages, flags : Flags]
PagesOf(a) == a.start..(a.end - 1)

\* The list of a mm: ascending areas that do not overlap.
WellFormed(m) ==
    /\ m \in Seq(Areas)
    /\ \A j \in DOMAIN m : m[j].start < m[j].end
    /\ \A j, l \in DOMAIN m : j < l => m[j].end <= m[l].start

ASSUME SizesAssumption ==
    /\ NPages \in Nat /\ Swappable \subseteq Pages /\ Slack \in Nat
    /\ ByteBits \in Nat \ {0} /\ ChunkBytes \in Nat \ {0} /\ ParamBytes \in Nat
ASSUME MapsAssumption == \A m \in Maps : WellFormed(m)

VARIABLES
    \* the target: running with a memory, without one (it exited and is a
    \* zombie, or is a kernel thread), or reaped; vma list; pages whose
    \* page-table entry is not none, and those of them that are swapped out
    proc, map, entries, swapped,
    \* the call: who makes it, control point, the count, the list it got, the
    \* area it works on, the bitmap buffer, its result and outcome
    api, pc, count, list, k, buf, result, out,
    \* IOCTL_CHECK_PROCESS_ADDR_PHY: page, i, retBuf, bytes delivered
    pg, i, retBuf, arg,
    \* histories of the call: the list lacks areas; pages found with an entry;
    \* pages that were in memory all the time, that had an entry at some time
    partial, seen, always, ever

targetVars == <<proc, map, entries, swapped>>
kernelVars == <<pg, i, retBuf, arg>>
stable     == <<always, ever>>
vars       == <<targetVars, api, pc, count, list, k, buf, result, out, kernelVars, partial, seen, stable>>

Apis == {"lib", "libphy", "ce"}     \* get_mem_map without and with phy_only
MapPages(m) == UNION {PagesOf(m[j]) : j \in DOMAIN m}

TypeOK ==
    /\ proc \in {"alive", "nomm", "gone"}
    /\ map \in Maps /\ entries \subseteq MapPages(map)
    /\ swapped \subseteq entries
    /\ api \in Apis
    /\ pc \in {"idle", "count", "list", "area", "bitmap", "done"}
    /\ count \in Nat /\ list \in Seq(Areas) /\ k \in Nat \ {0}
    /\ result \in Seq(Areas)
    /\ out \in {"none", "ok", "err", "crash"}
    /\ pg \in 0..NPages /\ i \in 0..(ChunkBytes * ByteBits - 1) /\ retBuf \subseteq 0..(i - 1) /\ arg \in Nat
    /\ partial \in BOOLEAN
    /\ seen \subseteq Pages /\ always \subseteq Pages /\ ever \subseteq Pages

Init ==
    /\ proc \in {"alive", "nomm"} /\ map \in Maps /\ entries = {} /\ swapped = {}
    /\ pc = "idle" /\ api = "lib" /\ count = 0 /\ list = <<>> /\ k = 1
    /\ buf = <<>> /\ result = <<>> /\ out = "none"
    /\ pg = 0 /\ i = 0 /\ retBuf = {} /\ arg = 0
    /\ partial = FALSE /\ seen = {} /\ always = {} /\ ever = {}

-----------------------------------------------------------------------------
(* The target.                                                             *)

\* A change of the page table, and what the histories keep of it.
SetEntries(new, sw) ==
    /\ entries' = new /\ swapped' = sw
    /\ always' = always \cap (new \ sw)
    /\ ever' = IF pc = "idle" THEN {} ELSE ever \cup new

callVars == <<api, pc, count, list, k, buf, result, out, kernelVars, partial, seen>>

\* mmap, munmap, mprotect
Remap(m) ==
    /\ proc = "alive" /\ m # map
    /\ map' = m
    /\ SetEntries(entries \cap MapPages(m), swapped \cap MapPages(m))
    /\ UNCHANGED <<proc, callVars>>

\* A page is touched that is not in memory; one that is leaves it: it is
\* dropped, or swapped out.
Fault(p) ==
    /\ proc = "alive" /\ p \in MapPages(map)
    /\ p \notin entries \ swapped
    /\ SetEntries(entries \cup {p}, swapped \ {p})
    /\ UNCHANGED <<proc, map, callVars>>

Drop(p) ==
    /\ proc = "alive" /\ p \in entries \ swapped
    /\ \/ SetEntries(entries \ {p}, swapped)
       \/ p \in Swappable /\ SetEntries(entries, swapped \cup {p})
    /\ UNCHANGED <<proc, map, callVars>>

Exit ==
    /\ proc = "alive" /\ proc' = "nomm"
    /\ SetEntries({}, {})
    /\ UNCHANGED <<map, callVars>>

Reap ==
    /\ proc = "nomm" /\ proc' = "gone"
    /\ UNCHANGED <<map, entries, swapped, callVars, stable>>

-----------------------------------------------------------------------------
(* Count and list.                                                         *)

Start(a) ==
    /\ pc = "idle" /\ pc' = "count"
    /\ api' = a
    /\ always' = entries \ swapped /\ ever' = entries
    /\ UNCHANGED <<targetVars, count, list, k, buf, result, out, kernelVars, partial, seen>>

End(o) == pc' = "done" /\ out' = o

\* get_proc_map_count: 0 without a task or a mm
MapCount == IF proc = "alive" THEN Len(map) ELSE 0

\* No process is an error for librwmem, and so is 0 for the CE server.
Count ==
    /\ pc = "count"
    /\ \/ /\ MapCount > 0 \/ api # "ce"
          /\ count' = MapCount /\ pc' = "list" /\ UNCHANGED out
       \/ /\ proc = "gone" \/ (MapCount = 0 /\ api = "ce")
          /\ End("err") /\ UNCHANGED count
    /\ UNCHANGED <<targetVars, api, list, k, buf, result, kernelVars, partial, seen, stable>>

\* The client's buffer, in bytes: the number of entries, then the entries of
\* start, end, flags and name.  The parameters overlay it.
EntryLen == 8 + 8 + 4 + 512
BufLen == 8 + EntryLen * (count + Slack)

\* get_proc_maps_list, under the mmap lock, copies an entry as long as it
\* starts before end_pos; it gets the buffer behind the number.
EndPosBug == 8 + BufLen
EndPos == 8 + (BufLen - 8)
Fits(j) == 8 + (j - 1) * EntryLen < EndPos
Success == CHOOSE n \in 0..Len(map) :
               (\A j \in 1..n : Fits(j)) /\ (n = Len(map) \/ ~ Fits(n + 1))
HavePassBug == FALSE
HavePass == proc = "alive" /\ Success < Len(map)

\* The number that the call puts into the buffer: without a mm it is -3,
\* without a task -2, and that is no error of the ioctl.
ListCountBug == IF proc = "alive" THEN Len(map) ELSE IF proc = "nomm" THEN -3 ELSE -2
ListCount == IF proc = "alive" THEN Success ELSE IF proc = "nomm" THEN -3 ELSE -2

\* n entries, the number taken as unsigned, reach beyond the buffer: librwmem
\* panics when it asks for that capacity, the CE server reads on.
Beyond(n) == n < 0 \/ 8 + n * EntryLen > BufLen

\* librwmem refuses a list that is cut; the CE server uses it.
List ==
    /\ pc = "list"
    /\ list' = SubSeq(map, 1, ListCount)
    /\ partial' = (ListCount # Len(map))
    /\ CASE HavePass /\ api # "ce" -> End("err") /\ UNCHANGED result
         [] ~ (HavePass /\ api # "ce") /\ Beyond(ListCount) -> End("crash") /\ UNCHANGED result
         [] OTHER -> IF api = "lib" THEN End("ok") /\ result' = list'
                                    ELSE pc' = "area" /\ UNCHANGED <<result, out>>
    /\ UNCHANGED <<targetVars, api, count, k, buf, kernelVars, seen, stable>>

\* find_get_pid finds no process.
ListGone ==
    /\ pc = "list" /\ proc = "gone"
    /\ End("err")
    /\ UNCHANGED <<targetVars, api, count, list, k, buf, result, kernelVars, partial, seen, stable>>

-----------------------------------------------------------------------------
(* The bitmap.                                                             *)

\* Bytes for a bitmap of n pages.
Bytes(n) == (n + (ByteBits - 1)) \div ByteBits
Size(a) == a.end - a.start

\* The client's buffer, which starts with the parameters.
BufBytesBug(a) == IF Size(a) \div ByteBits < ParamBytes THEN ParamBytes ELSE Size(a) \div ByteBits
BufBytes(a) == IF Bytes(Size(a)) < ParamBytes THEN ParamBytes ELSE Bytes(Size(a))
Bits(n) == 0..(n * ByteBits - 1)

Bitmap ==
    /\ pc = "area" /\ k <= Len(list) /\ proc # "gone"
    /\ pc' = "bitmap"
    /\ buf' = [b \in Bits(BufBytes(list[k])) |-> "stale"]
    /\ pg' = list[k].start
    /\ UNCHANGED <<targetVars, api, count, list, k, result, out, i, retBuf, arg, partial, seen, stable>>

\* No process, or no memory for retBuf: get_mem_map fails, the CE server leaves
\* the area out.
BitmapFail ==
    /\ pc = "area" /\ k <= Len(list)
    /\ \/ api # "ce" /\ End("err") /\ UNCHANGED <<k, partial>>
       \/ api = "ce" /\ k' = k + 1 /\ partial' = TRUE /\ UNCHANGED <<pc, out>>
    /\ UNCHANGED <<targetVars, api, count, list, buf, result, kernelVars, seen, stable>>

\* x_copy_to_user of the first n bytes of a retBuf with the bits set
Delivered(bits, n) ==
    LET written == (arg * ByteBits)..((arg + n) * ByteBits - 1)
    IN  [b \in DOMAIN buf \cup written |->
            IF b \notin written THEN buf[b]
            ELSE IF b - arg * ByteBits \in bits THEN "yes" ELSE "no"]

\* bufLen, the length of retBuf
RetBufBytes == IF Bytes(Size(list[k])) > ChunkBytes THEN ChunkBytes ELSE Bytes(Size(list[k]))

FullBug(n) == n > ChunkBytes * ByteBits
Full(n) == n = ChunkBytes * ByteBits

\* One round of the loop: the bit of a page that is found is set.
Round(found) ==
    /\ LET bits == IF found THEN retBuf \cup {i} ELSE retBuf
       IN  IF Full(i + 1)
           THEN /\ buf' = Delivered(bits, RetBufBytes)
                /\ i' = 0 /\ retBuf' = {} /\ arg' = arg + ChunkBytes
           ELSE i' = i + 1 /\ retBuf' = bits /\ UNCHANGED <<buf, arg>>
    /\ seen' = IF found THEN seen \cup {pg} ELSE seen

\* A page in memory is found.  The walk takes an address from the entry of a
\* page that is swapped out too, and finds it if that is not 0.  The task is
\* used without a reference to it: once it is reaped, anything may be read.
Examine ==
    /\ pc = "bitmap" /\ pg < list[k].end
    /\ \E found \in BOOLEAN :
          /\ found => pg \in entries
          /\ pg \in entries \ swapped => found
          /\ Round(found)
    /\ pg' = pg + 1
    /\ UNCHANGED <<targetVars, api, pc, count, list, k, result, out, partial, stable>>

ExamineGone ==
    /\ pc = "bitmap" /\ pg < list[k].end /\ proc = "gone"
    /\ End("crash")
    /\ UNCHANGED <<targetVars, api, count, list, k, buf, result, kernelVars, partial, seen, stable>>

\* The pages x to y - 1 of area a, with its flags.
Region(a, x, y) == [a EXCEPT !.start = x, !.end = y]

\* The client joins consecutive pages of the bitmap to regions: after each
\* page of the area, whether a run is open, where it began, the runs so far.
Join(a, bit, b, j) ==
    LET p  == a.start + j - 1
        is == bit[j - 1] # "no"
    IN  CASE is /\ ~ b.on -> [b EXCEPT !.on = TRUE, !.begin = p]
          [] ~ is /\ b.on -> [b EXCEPT !.on = FALSE, !.runs = Append(@, Region(a, b.begin, p))]
          [] OTHER -> b

Joined(a, bit) ==
    LET s[j \in 0..Size(a)] ==
            IF j = 0 THEN [on |-> FALSE, begin |-> 0, runs |-> <<>>] ELSE Join(a, bit, s[j - 1], j)
    IN  s

\* A run that is still open ends with the area.
RunsBug(a, bit) == Joined(a, bit)[Size(a)].runs
Runs(a, bit) ==
    LET last == Joined(a, bit)[Size(a)]
    IN  IF last.on THEN Append(last.runs, [a EXCEPT !.start = last.begin]) ELSE last.runs

LastBytesBug(n) == n \div ByteBits
LastBytes(n) == Bytes(n)

\* The last bytes are delivered and the ioctl returns.
BitmapEnd ==
    /\ pc = "bitmap" /\ pg = list[k].end
    /\ buf' = IF i > 0 THEN Delivered(retBuf, LastBytes(i)) ELSE buf
    /\ result' = result \o Runs(list[k], buf')
    /\ pg' = 0 /\ i' = 0 /\ retBuf' = {} /\ arg' = 0
    /\ k' = k + 1 /\ pc' = "area"
    /\ UNCHANGED <<targetVars, api, count, list, out, partial, seen, stable>>

\* To the CE server an empty list is a failure.
Finish ==
    /\ pc = "area" /\ k > Len(list)
    /\ End(IF api = "ce" /\ result = <<>> THEN "err" ELSE "ok")
    /\ UNCHANGED <<targetVars, api, count, list, k, buf, result, kernelVars, partial, seen, stable>>

Return ==
    /\ pc = "done" /\ out # "crash"
    /\ pc' = "idle" /\ api' = "lib" /\ count' = 0 /\ list' = <<>> /\ k' = 1
    /\ buf' = <<>> /\ result' = <<>> /\ out' = "none"
    /\ partial' = FALSE /\ seen' = {} /\ always' = {} /\ ever' = {}
    /\ UNCHANGED <<targetVars, kernelVars>>

-----------------------------------------------------------------------------
Target ==
    \/ \E m \in Maps : Remap(m)
    \/ \E p \in Pages : Fault(p) \/ Drop(p)
    \/ Exit \/ Reap

Call ==
    \/ \E a \in Apis : Start(a)
    \/ Count \/ List \/ ListGone
    \/ Bitmap \/ BitmapFail \/ Examine \/ ExamineGone \/ BitmapEnd
    \/ Finish \/ Return

Next == Target \/ Call

Spec == Init /\ [][Next]_vars

-----------------------------------------------------------------------------
(* VirtualQueryEx and VirtualQueryExFull of the CE server, which answer     *)
(* from a list of regions l.                                               *)

Protection(f) ==
    CASE f.x /\ f.w -> "PAGE_EXECUTE_READWRITE"
      [] f.x /\ ~ f.w -> "PAGE_EXECUTE_READ"
      [] ~ f.x /\ f.w -> "PAGE_READWRITE"
      [] ~ f.x /\ ~ f.w /\ f.r -> "PAGE_READONLY"
      [] OTHER -> "PAGE_NOACCESS"

\* The region of page p, or the gap that p lies in: whether there is an answer,
\* the size from p on, the protection.
PassedBug(l, p) == {j \in DOMAIN l : l[j].end >= p}
Passed(l, p) == {j \in DOMAIN l : l[j].end > p}

VirtualQueryEx(l, p) ==
    LET js == Passed(l, p)
        r  == l[CHOOSE j \in js : \A h \in js : j <= h]
    IN  IF js = {} THEN [found |-> FALSE, size |-> 0, protection |-> "PAGE_NOACCESS"]
        ELSE IF p >= r.start
        THEN [found |-> TRUE, size |-> r.end - p, protection |-> Protection(r.flags)]
        ELSE [found |-> TRUE, size |-> r.start - p, protection |-> "PAGE_NOACCESS"]

\* The loop over the regions; after each one, the regions so far.
Reported(r, noshared) == Protection(r.flags) # "PAGE_NOACCESS" /\ ~ (r.flags.s /\ noshared)
Report(l, noshared) ==
    LET s[j \in 0..Len(l)] ==
            IF j = 0 THEN <<>>
            ELSE IF Reported(l[j], noshared) THEN Append(s[j - 1], l[j]) ELSE s[j - 1]
    IN  s
VirtualQueryExFull(l, noshared) == Report(l, noshared)[Len(l)]

-----------------------------------------------------------------------------
(* Properties.                                                             *)

\* The kernel writes inside the buffers of its clients: the entries of the
\* list, which the client sized from an earlier count (get_proc_maps_list), and
\* the chunks of the bitmap (IOCTL_CHECK_PROCESS_ADDR_PHY).
BuffersFit ==
    [][/\ pc = "list" => 8 + Len(list') * EntryLen <= BufLen
       /\ pc = "bitmap" => DOMAIN buf' = DOMAIN buf]_vars

\* A bitmap that was delivered in chunks has, for every page of the area and at
\* every chunk and byte boundary, the bit that the walk of that page found, and
\* no byte of the parameters is left where the client looks for bits.
BitmapExact ==
    [][pc = "bitmap" /\ pc' = "area" =>
          \A p \in PagesOf(list[k]) :
              buf'[p - list[k].start] = IF p \in seen THEN "yes" ELSE "no"]_vars

\* The maximal runs of pages of area a that were found.
MaximalRuns(a) ==
    {r \in {Region(a, x, y) : x \in PagesOf(a), y \in (a.start + 1)..a.end} :
        /\ r.start < r.end
        /\ PagesOf(r) \subseteq seen
        /\ r.start - 1 \notin seen \cap PagesOf(a)
        /\ r.end \notin seen \cap PagesOf(a)}

\* The regions of a call with phy_only, or of the CE server, are ascending and are
\* exactly the maximal runs of pages that were found, each inside one area and
\* with its flags: no run is lost at the end of an area or joined across one.
RunsExact ==
    out = "ok" /\ api # "lib" =>
        /\ {result[j] : j \in DOMAIN result} = UNION {MaximalRuns(list[j]) : j \in DOMAIN list}
        /\ \A j, l \in DOMAIN result : j < l => result[j].end <= result[l].start

\* While the target maps and unmaps, faults, drops and swaps pages, a call that
\* succeeds with the whole list reports every page that was in memory all the
\* time, and none that had no entry at any time.  A page that had one only
\* while it was swapped out may be reported, although hpp:101 promises pages in
\* physical memory only: phy_mem.h:123 does not tell them apart.
StableReported ==
    out = "ok" /\ ~ partial =>
        /\ always \subseteq MapPages(result)
        /\ api # "lib" => MapPages(result) \subseteq ever

\* get_mem_map of librwmem never returns a list from which areas are missing
\* because the target mapped more after they were counted, or because the
\* bitmap of one failed.
LibComplete == out = "ok" /\ partial => api = "ce"

\* A client reads beyond its buffer, or the kernel uses a task that is gone,
\* only if the target has no memory: it exited, before the call or during it,
\* or is a kernel thread.  A target that lives and changes its memory map
\* between the count, the list and the bitmaps causes neither.
CrashOnlyWithoutMm == out = "crash" => proc # "alive"

\* What the CE server may say of page p.
ProtectionOf(p) ==
    IF p \in seen
    THEN Protection(list[CHOOSE j \in DOMAIN list : p \in PagesOf(list[j])].flags)
    ELSE "PAGE_NOACCESS"

\* The answers that the CE server gives from its list fit the pages that the
\* driver found: VirtualQueryEx gives a region with the protection that each of
\* its pages has and finds one as long as there are pages ahead, so that walking
\* up by its sizes visits them all; VirtualQueryExFull has the same pages.
AnswersRight ==
    out = "ok" /\ api = "ce" =>
        /\ \A p \in Pages : LET a == VirtualQueryEx(result, p)
                            IN  /\ a.found <=> \E q \in seen : q >= p
                                /\ a.found => a.size > 0
                                /\ \A q \in p..(p + a.size - 1) : ProtectionOf(q) = a.protection
        /\ MapPages(VirtualQueryExFull(result, FALSE)) = {p \in Pages : ProtectionOf(p) # "PAGE_NOACCESS"}

=============================================================================
