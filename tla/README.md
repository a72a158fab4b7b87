# Verification of rwMem

TLA+ models, TLC configurations and TLAPS proofs for
[rwMem](../src/README.md): a Linux kernel module (arm64, Android kernels) that
reads and writes the memory of another process and sets hardware breakpoints in
it, with a Rust client library, a command-line tool and a Cheat Engine server.
The reference is the code under `src/`; each definition that models code is
mapped to its lines in `PROJECT.json`.

## 1. Inventory

| Component | State | Operations | Hard behaviour |
|---|---|---|---|
| Breakpoint handles, `rwMem/bp.c`, `IOCTL_ADD_BP` in `rwMem/sys.c` | per handle: `stopped_flag`, `continue_flag`, `poll`, perf event, task reference; global `step_list` | add, hit, step trap, continue, step, get/set registers, poll, release | unlocked tests of `stopped_flag`; destructive `poll`; release racing a hit; one `step_list` for all targets; single-step state shared with arm64's step-over; un-interruptible sleep of the target |
| Memory read and write, `rwmem_read`/`rwmem_write`, `rwMem/phy_mem.h`, checks in `rwMem/proc_maps.h` | the target's page table (write bits), the call's progress | read, write, each with or without force | page table changed without locks by several callers; ranges cut at page boundaries; ignored results of copies; pages used after `mmput`; swapped-out pages taken for pages in memory |
| Map listing, `get_proc_map_count`, `get_proc_maps_list` | none of its own | count, list | buffer sized from an earlier count; error codes returned as counts; target exits between the calls, or has no memory at all |
| Physical page bitmap, `IOCTL_CHECK_PROCESS_ADDR_PHY` | bounce buffer | one call | chunk boundaries; answer written over the parameters; pages come and go, the target may be reaped |
| Module load/unload, `rwmem_dev_init`/`exit` | device, class, step hook | init, exit | partial failure |
| `librwmem` | file descriptors | one method per ioctl, `Breakpoint::wait` (epoll) | epoll polls twice; data and parameters share one buffer; `count + 50` slack; joining of bitmap runs |
| `cli` | none | one library call per command | none |
| `CEServer` | handle table, region cache per process, one thread per connection | `DispatchCommand`, `OpenProcess`, `CloseHandle`, `VirtualQueryEx`, snapshots | unsynchronised table; use after close; answers that precede the rest of their handler; reused descriptors; cache of 60 s; region lists that may be cut |

Interaction: clients call the kernel module through the device file and through
the anonymous file of each breakpoint; the target task enters the module through
the perf callback, the user step hook and the task work that both queue; the CE
server uses the device file for all connections.

What makes each component correct:

* a handle reports a stop exactly while its target is suspended in
  `bp_callback_after`, resumes it once per request and never lets a hit pass;
  a step ends in a stop; traps are attributed to the right handle; references
  balance; a released handle leaves no trace on its target;
* a read or write moves exactly the bytes it reports, of memory it is allowed to
  access, stays inside the client's buffer and leaves the page table as it was;
* a map listing is complete or says that it is not; the bitmap describes exactly
  the pages of the range, the regions are its runs, and a query is answered with
  the region that holds the page;
* the CE server never uses an object that another connection has deleted, loses no
  handle and answers every command; this takes a client that orders its commands,
  because the server does not (see `CeServer`).

The hazards, with the lines where they bite and the properties aimed at them,
are listed in `PROJECT.json`.

## 2. Modules

| Module | Contents |
|---|---|
| `RwMemBp` | breakpoint handles: clients, targets, release; properties |
| `BpHandle` | the abstract promise of a handle |
| `RwMemBpProofs`, `RwMemBpDocProofs` | proofs for any client, and for the documented use |
| `RwMemIo` | memory read and write; properties |
| `RwMemClient` | the clients of `RwMemIo`: the buffers and results of `librwmem` and of the CE server's driver wrapper; extends `RwMemIo` |
| `RwMemIoProofs`, `RwMemClientProofs` | their proofs |
| `RwMemMaps` | count, list and bitmap of a target's memory, with both clients and the CE server's region answers; properties |
| `RwMemMapsLemmas`, `RwMemMapsProofs` | what its operators compute; its proofs |
| `CeServer` | the Cheat Engine server: connections, handle table, calls, region cache; properties |
| `CeServerProofs` | its proofs |
| `NatLemmas` | every non-empty set of numbers has a least one |
| `MCRwMemBp`, `MCRwMemIo`, `MCRwMemMaps`, `MCCeServer` | instances for TLC |

A definition whose name ends in `Bug` is a faulty variant of the definition it
precedes. It is used by no specification; substituted for the correct one it
makes a property fail, which shows that the property depends on that code.

### RwMemBp

*Handles.* `life` follows the `struct file`: `adding` (inside `IOCTL_ADD_BP`),
`open`, `closing` (descriptor closed, calls may be in flight), `r_mark`,
`r_unreg`, `r_free` (inside `rwmem_bp_release`), `freed`. `perf` is the task the
breakpoint is armed on, `target_task` the field of the private data; the three
flags have the names of the code.

*Client threads.* `cpc` is the place inside the system call. `Continue` and
`ContinueSet` are the two halves of `IOCTL_BP_CONTINUE` around the lock; `Step`,
`StepList`, `StepTest`, `StepSuspend`/`StepEnable` and `ContinueSet` are those of
`IOCTL_BP_STEP`; `Regs`/`RegsDone` stand for the three calls that access
registers (their values are not modelled). Calls that return an error without
changing state (`-EINVAL` on a handle that is not stopped, a bad register
number) and `IOCTL_BP_IS_STOPPED` are stuttering steps. `WaitAdd`, `WaitSend`
and `WaitCancel` are `Breakpoint::wait` on epoll: registration polls the file,
and a ready item is polled again before it is reported. With `DocumentedUse` a
thread acts only on a stop that it was notified of, as the example of the
repository's README does; without it, threads call in any order.

*Targets.* `tpc` is `user`, `resume` (on the way back to user mode with task
works) or a point of `bp_callback_after`. `Hit` is a breakpoint exception: the
perf callback queues a work for each matching handle, and arm64 disables the
breakpoints of that kind and sets `TIF_SINGLESTEP` to step over the instruction
(the context tag 0xcb and `patch/overflow_handler_context.patch` make it do so).
`StepOver` is the trap that ends the step-over; any other step trap reaches
`rwmem_bp_step_handler`, split by outcome into `StepHookStop`, `StepHookRemoved`
and `StepHookNone`. A `SIGTRAP` that nobody handles and a crash are terminal.

*Abstractions.* The flag store and the wake-up after it are one step (the woken
task re-reads the flag). Task works run in any order. The descriptor of a handle
is not used by another thread before `IOCTL_ADD_BP` returns it. A read of freed
private data may return anything or crash the task (`ContinueSeen`,
`TouchFreed`). `fasync` signals and allocation failures are left out.

### BpHandle

Per handle: none, armed, stopped, closed; `asked` is a pending request. A stop
begins without a pending request, is left only by answering one, and each
request is answered once. `RwMemBp` maps `stopped_flag` and `continue_flag` of an
open handle to it (`HandlePromise`). That requests are answered is checked on
`RwMemBp` itself (`ResumeCompletes`, `StepStopsAgain`).

### RwMemIo

One process with a memory map (`vma`) and a page table (`entry`, `writable`),
any number of calls. A call copies its header (`Start`), looks up the process and
the memory map (`NoPid`, `Refuse`, `Accept`), then per page walks the table and
tests the entry (`Translate` or `Break`), for a forced write of a read-only page
sets the write bit (`MakeWritable`), moves the bytes (`Copy`), clears the bit
again (`Restore`). `granted` records the bit the kernel gave a page; it is a
history variable that no action of a call reads. Data is abstracted to
provenance: `moved` is the set of pairs of a physical address and a buffer
offset. The physical layout is an arbitrary injection `FrameOf`. With `Faults` a
copy may move any number of its bytes, which covers a failed range check, bounce
buffer, probe or user copy.

*Entries.* The walk tests an entry only for being none (`phy_mem.h:114`, `:123`)
and takes its address from whatever bits it holds (`:129`). So `entry` is one of
`none`, `present` and `stray`: not none, but not the entry of a page in memory
either, because the page is swapped out or its table was replaced by a block
mapping. `StrayFrameOf` gives the frame number in the bits of such an entry,
any number at all; `Reclaim` makes an entry stray, with a write bit left to
chance. A call that meets one goes on like with any other, at the address that
the bits form (`PhysAddr`), unless that is 0, the range check refuses it
(`Copied`) or the bit forbids it; `astray` is the history of the pages for which
this happened. `TransferExact` and `ClientExact` state exactly what is left of
exactness then, and `CountsOnlyMemory`, which `MemoryReaderWriter37.hpp:101`
promises, is violated (`v_io_swapped`). A page may also become stray between the
walk and the copy; its frame is then another page's, which provenance does not
tell apart.

The target faults pages in, writes to read-only
pages of writable areas, for which the kernel makes the entry writable
(`Upgrade`), and may exit; a call that still holds the entry of an exited process
may crash (`Oops`). An upgrade in the middle of a forced write is undone by its
`Restore`: the history variable `raced` holds the pages to which this can happen
until the next upgrade, and `PteRestored` and `NothingMissed` except exactly
those. The load and store
of `set_pte(pte, pte_mkwrite(*pte))` are one step: the only bits that change
meanwhile are write bits, which the store overwrites. On arm64 `pte_read` does
not exist, so every entry is readable.

Not in the model: unmapping pages, changing areas, and giving a page another
frame (copying on write, migration, swapping in) while a call is under way: a
page that comes back comes back to its frame. Nor is what a forced write does to
a swap entry by setting and clearing a bit of it. The code takes no
lock and no reference against any of these, so there is nothing it promises then;
see the hazards.

### RwMemClient

`user` is the client function a thread is in. `Enter` lays out the buffer and
starts a request of `RwMemIo`; `Leave` is its return. A read shorter than the
parameters and every write use a buffer of the function's own, longer reads the
caller's (`BufLen`). `Flags` is the force byte: `write_mem` forces, the CE server
never does, and `read_mem` of more than 17 bytes leaves the byte that the
caller's buffer held, because it clears `buf[17]` instead of `buf[16]`; with
exactly 17 bytes that store panics (`Panic`). `Succeeds`, `Reported` and
`Received` say what the caller is told and where the bytes are in its memory. The
length of the parameters is the constant `Header` (17 in the code). Calls that
the wrapper refuses without a system call (`Rejects`) leave no trace. The CE
server keeps the length of its buffer in an `int`: the calls are those for which
it fits (`IntMax` in `CallsAssumption`).

### RwMemMaps

*Target.* A list of areas `map` out of a set of possible ones and the pages with
a page-table entry, `entries`, of which `swapped` are swapped out: `Remap`
replaces the map, `Fault` brings a page in, `Drop` takes one out, with or without
leaving an entry. `proc` is `alive`, `nomm` (a task without memory: a zombie after
`Exit`, or a kernel thread from the start) or `gone` (`Reap`). The walk finds every
page that is in memory; a page that is swapped out it finds unless the address
it forms is 0 (`Examine`).

*Call.* One at a time, because calls share no state: `get_mem_map` of `librwmem`
without and with `phy_only`, and `VirtualQueryExFull` of the CE server's wrapper.
`Count`, `List` and one `Bitmap` per area are separate system calls, between
which the target runs. The list is taken under the mmap lock in one step; the
bitmap is not, so each page is a step (`Examine`), with `i`, `retBuf` and `arg`
of the loop. `buf` is the client's buffer by bits: `stale` until the kernel
delivers a byte over it. `BitmapFail` is no process or no memory: `librwmem`
gives up, the CE server leaves the area out. `Joined` is the loop of the clients
that turns the bits of an area into regions, `Report` the one by which
`VirtualQueryExFull` answers from a list: recursive functions of the place in
the loop, so that they can be reasoned about. Both clients take the error codes -2
and -3 of `get_proc_maps_list` for a number of entries (`Beyond`): a crash, as
is the use of a task that was reaped (`ExamineGone`). For `librwmem` a task without
memory is enough: a count of 0 is no error to it.

*Answers.* `VirtualQueryEx` and `VirtualQueryExFull` are operators on the list
that a call of the CE server produced; its caching is in `CeServer`.

*Abstractions.* Addresses are page numbers; names are left out; buffers of the
clients are mapped, so that copies to and from them do not fail. `partial`,
`seen`, `always` and `ever` are histories that only properties read. The
out-parameter `bOutListCompleted` of the wrapper is left out: it says the
opposite of its comment (`MemoryReaderWriter37.hpp:102` and `:372`), but nothing
reads it.

### CeServer

*Client.* One program with several connections, as Cheat Engine is: `known` are
the handles it holds, `lost` those that went down with a connection: the answer
that carried them, or the command that was to close them, did not arrive. It
sends one command per connection at a time (`Send`, `pending`) and may lose a
connection at any point, with its command arriving whole, in part (`cut`,
`cutclose`, by what the handler does when `recvall` fails) or not at all
(`Disconnect`). `accept` takes a new connection at any time, whatever the threads of
old ones are doing.

*Careful clients.* The server does not order the commands of different
connections and its table has no lock. Most of what makes the table correct
therefore takes a client that orders them, with what it can see, the commands it
sent and the answers it got (`Careful`): it sends a command that changes the table
only while no other connection has a command without an answer that uses or
changes it, and the other way round (`MaySend`). Two of its rules are
not obvious. `CMD_CREATETOOLHELP32SNAPSHOTEX` sends its list before it closes its
handle (`main.cpp:740-745`), so the answer does not say that the handler is done:
after such a list a careful client takes the table for being changed until the
same connection has answered something else (`tail`). And after a
connection was lost with a command unanswered, or closed with
`CMD_CLOSECONNECTION`, its thread may still be at work: the command stays pending for
the client, which sends nothing that could collide with it and opens no new
connection (`MayConnect`), because a thread whose socket was closed goes on
receiving from the number, which `accept` may have given to the new one. A careful
client also moves iterators on one connection at a time (the lookup and the move of `Process32Next` are not atomic in the code, the
move and the answer are one step here), and does not combine
`TH32CS_SNAPTHREAD` with other flags. With `Careful = FALSE` none of this is
assumed: the type invariant and `LocksHeld` hold all the same, and `v_ce_threads`
shows what goes wrong first, an object deleted between the lookup and the use in
`ReadProcessMemory`, which `api.cpp:503` wants to be callable by several threads.

*Connection threads.* `pc` is the place inside `newConnectionThread` or a
handler, `currentsocket` the descriptor, `from` the connection that a blocked
`recv` waits on: the number of a descriptor can change its meaning between two
uses, because `accept` returns the lowest free one. `HangUp` closes the socket
and goes on receiving from the same number, as `CMD_CLOSECONNECTION` does.
`CMD_AOBSCAN` for no bytes (`aob`) and commands that are cut off return without an
answer (`Info`). A message is received whole by one thread, and closing a
descriptor that another thread waits on ends that connection at once.
Nothing ignores `SIGPIPE`: an answer to a peer that is gone may end the process.

*Table and objects.* `m_HandlePointList` has no lock. Each lookup is a step of
its own (`GetHandleType` and `GetPointerFromHandle` are two of them); an
insertion or removal takes two steps (`Insert`/`Inserted`, `Erase`/`Erased`),
and meanwhile (`mutating`) a lookup of another thread may miss an entry and an
overlapping change may be lost. Objects live on `heap`; using a freed one may
end the process (`ok` in `Answer`, `Live`). `CloseHandle` is `GetHandleType`,
`GetPointerFromHandle`, `Delete`, `Erase`, `Erased`. `dwFlags` is a set of bits
(`Flags`) that is tested in one order where the list is created (`Created`) and in
another where the extended command reads it (`ReadAs`), so that a list may be read
as another type. An iterator that is moved past the end of its list stays there
(`MaxLen + 1` stands for all that lies behind) and reads what it finds, which may
end the process too (`Iterate`).

*Region cache.* `Lock`, `Check`, `Fill`, `Scan` are `VirtualQueryEx` and
`VirtualQueryExFull`; `time` is `nLastGetMapsTime` as zero, recent or older than
a minute (`Age`). `young` is the first minute of the system's uptime, in which a
time of zero is not yet a minute ago and `VirtualQueryEx` answers from an empty
list (`Expired`, `FirstMinute`).

*Abstractions.* Lists are lengths, region lists present or absent, memory
contents left out. A freed object matches no process. The client sends only
commands that the server supports: of the others (debugging, allocation,
threads) the server reads no parameters and sends no answer, so that the bytes
that follow would be taken for commands. The identifier thread (UDP discovery)
shares no state and is left out. `Profiles` are sets of operations, and a
behaviour uses those of one set: the state space is a sum instead of a product.

## 3. Runs

| Run | Instance | Shows |
|---|---|---|
| `bp_threads` | 1 handle, 1 target, 2 threads, any use | flags are truthful (`StoppedSound`, `PollSound`), no unclaimed step trap while handles are open, a continue takes effect |
| `bp_targets` | 2 handles, 2 targets, 1 thread, any use, symmetry | types, attribution of stops, reference balance |
| `bp_documented` | 2 handles on 1 target, one of a fixed kind and one of either, 2 threads, documented use | no stale continue, registers of suspended tasks only, steps stop again although another handle intervenes, `BpHandle` |
| `io` | `RwMemClient`: 2 threads, 2 pages of 2 bytes, one of which may be swapped out, all layouts of 2 areas, `Header` 3, the requests of 7 client calls | exact transfers in the kernel and for the clients' callers, accesses inside the clients' buffers, permissions, restored entries, termination |
| `maps` | 5 pages, one of which may be swapped out, 3 maps of 1 to 3 areas, `Slack` 1, 2 pages per byte, chunks and parameters of 1 byte | buffers suffice although the map grows after it was counted (`BuffersFit`); the chunked bitmap is exact (`BitmapExact`) and so are the regions (`RunsExact`); pages that stay in memory are reported, pages that never had an entry are not (`StableReported`); `librwmem` never returns a cut list (`LibComplete`); crashes take a target without memory (`CrashOnlyWithoutMm`); queries are answered from the right region (`AnswersRight`) |
| `ce` | 2 connections, 2 descriptors, 2 handles, 2 objects, 1 process, lists of at most 1 entry, 4 profiles, careful client, symmetry on connections and addresses | no use after close or as another type, nothing leaks but what a lost connection took along, cached regions are scanned under their lock and, but for the first minute of uptime, only when fetched, lock always released, every supported command but one answered |
| `v_wait_lost` | documented use | violated: `Breakpoint::wait` loses the event it waits for |
| `v_close_hang` | documented use | violated: a hit during release suspends the target for ever |
| `v_closed_step` | documented use | violated: the step of a closed handle ends in `SIGTRAP` |
| `v_io_count` | copies may fail | violated: the returned count includes bytes that were not moved |
| `v_io_swapped` | as `io` | violated: a call counts bytes of a page that is not in memory |
| `v_ce_threads` | as `ce`, client not careful | violated: `ReadProcessMemory` uses an object that another connection deleted |

The six violations are findings; `PROJECT.json` quotes the comment or document
that each contradicts.

*Bounds.* `MaxSteps` bounds `step_list`: entries accumulate when steps are
pre-empted by hits; 2 (3 in `bp_threads`, where two threads step at any time) allow a stale entry below a fresh
one. Two threads are enough for a check of one to race the update of another,
two handles and two targets for wrong attribution. In `io` two pages with ranges
that start in the middle, cover a page and cross into the next exercise every
cut, and descending physical pages make a chunk that crosses a page visible;
with `Header` 3, transfers of 0 to 4 bytes are shorter than, as long as and
longer than the parameters; the theorems below remove these bounds. In `maps`
areas of 1 to 4 pages end inside a byte, on a byte and on a chunk of the bitmap
and need up to two chunks; the maps grow by less, exactly and more than the slack
of one entry; areas touch each other and have gaps. Handles are not reused after they are freed.
In `ce` two connections suffice for one to close what the other uses and for a
descriptor to be reused; two handles for a process to be opened twice; addresses
and handle values are reused. The four profiles are opening, extended snapshots
and memory; snapshots with iterators; the region cache with closed connections;
and termination with the commands that are not answered.

*Deadlock* is not checked: a system whose targets have exited and whose handles
are freed may stop, and so may a terminated server.

*Fairness.* System calls that were entered, releases, step traps and the way
back to user mode go on: that is the kernel's scheduling. A sleeper in
`wait_event` is fair only once `continue_flag` is set (`Woken`). No client is
forced to call, no target to run into a breakpoint, no page to be faulted in.

## 4. Proofs

All theorems hold for every value of the constants that satisfies the named
assumptions. Every invariant and every safety property of the passing runs is
the statement of a theorem.

`RwMemBpProofs` (any client): `TypeCorrect`, `StopsBelong`, `StoppedFlagSound`,
`PollWordSound`. `StoppedSound` is not inductive: that `stopped_flag` is set by
one task and not cleared by another needs that at most one task can be inside
`bp_callback_after` for a handle, which follows from ownership. `Inv` is the
conjunction of `TypeInv` (types, and that places in a call determine its file
and task), `OwnInv` (works, step entries and running callbacks of a handle belong
to its target) and `FlagInv` (flags against the places of the owner).

`RefsBalanced` proves `RefBalance` for any finite number of handles and calls
(`FiniteAssumption`). `RefInv` adds that only a call inside `IOCTL_ADD_BP` has a
task of its own; with `FilesOwned` (a file that is being added has no target
yet) each step changes the three counts by the same amount (`CountUpdate`).
`StepsFindEntries` proves `SigtrapOnlyAfterClose`. The invariant `StepInv` is a
balance: for each target, `step_list` has at least as many entries as there are
calls that have added one and not yet armed the target (`Asking`) plus traps that
will reach the hook (`Armed`: one for `TIF_SINGLESTEP` outside a step-over, and
one for `suspended_step`, which may both be set after a race of two steps with a
step-over). The hook deletes one entry per trap, which `DeleteCount` and
`AddCount` follow through the indices of the list.

`RwMemBpDocProofs` (`DocumentedUse`): `ContinueNeverStale`,
`RegistersOfStoppedTask`, `HandleRefinement`. `TokenInv` says that the
notification of a stop is a token: at any time it is in `poll`, in `notified`,
with one call in flight or spent as `continue_flag`, and never in two of these
places; a new stop creates one only after the last was spent. The refinement
maps every step to a step of `BpHandle` or to a stutter.

`RwMemIoProofs`: `IoTypeCorrect` and `EntriesRestored`, `NoPageMissed`,
`UnforcedWithinAreas`, `TransfersExact`. `PteInv` strengthens `PteRestored` by
"no granted bit is ever cleared, unless it was granted under a forced write", so
a call that found an entry read-only may
clear its bit whatever other calls did meanwhile. `AreaInv` keeps the check of
the memory map valid along the loop: the page at the cursor has an entry, hence is
not in the gap before the area found, and is below its end. `MovedInv` says what has
been moved at each point, at the address the walk gave, and which bytes may be
missing (those of stray pages); its step is `ReferenceStep`, which rests on the
arithmetic of
pages (`Split`, `SplitUnique`, `SamePage`). `TransfersExact` assumes that no copy
fails; `v_io_count` shows that it has to.

`RwMemClientProofs`: `ClientImplements` shows that the composition implements
`Spec` of `RwMemIo`, which carries the theorems above over to the clients; it
rests on `CallsAssumption` (the requests include what the clients lay out).
`BuffersRespected` proves `InBuffer` from `UserInv` (the request in the kernel is
the one the client laid out) and `OffsetInv` (moved bytes lie in the data part).
`ClientsExact` proves `ClientExact` from `TransfersExact`, under the same
assumption.

`RwMemMapsProofs`: `MapsTypeCorrect`, `LibNeverCut`, `CrashWithoutMm`,
`BitmapDelivered`, `BuffersRespected`, `RunsAreExact`, `StablePagesReported`,
`AnswersAreRight`. `CallInv` ties the place in a call to its data. `BitmapInv` is
the loop invariant of `IOCTL_CHECK_PROCESS_ADDR_PHY`: the pages behind the cursor
are split into the bits delivered (`arg` bytes) and those in `retBuf` (`i` bits),
and both agree with what was found; it holds for every size of a byte, a chunk,
the parameters and an area. `SeenInv` says where pages can have been found,
`ResultInv` what the areas before the current one have contributed, `HistoryInv`
relates the histories to the page table. What the loops compute (`Joined`:
exactly the maximal runs; `Report`: the region that holds the page) is proved in
`RwMemMapsLemmas` and at the end of `RwMemMapsProofs`. The provers cannot use an
induction theorem, so these proofs take the set of places at which the claim
fails and derive a contradiction from its least element (`LeastNat`).

`CeServerProofs`: `LocksAlwaysHeld` and `CeTypeCorrect` hold for every client,
from `BaseInv` (types, which commands can be at which place of a handler, locks).
The others assume `Careful`: `AnswersOwed`, `NeverDangling`, `NothingLeaks`,
`CacheAlwaysStable`, `CacheAlwaysSound`. The argument:

1. `LinkInv` ties the client's view to the server. A descriptor number that a
   thread uses names its own connection or none (`SocketInv`); a command on its
   way or in a handler is pending on the connection that sent it, or was answered
   there by a list that is about to be closed (`MsgInv`, `CmdInv`); a pending one is
   owed by the thread of its connection (`OwedInv`, from which `AnswersOwed`
   follows). With `MaySend`, while a handler changes the table no other handler
   uses or changes it (`ApartInv`).
2. `ObjInv`: each entry names an object of its type, no two the same, each object
   has an entry, with the exceptions that a handler under way makes; and what a
   lookup found is still so when it is used. The lookups of a handler are separate
   steps, and a removal frees the object before the entry goes; by 1 nobody else
   looks in between. `NeverDangling` follows.
3. `EntriesClaimed`: each handle of the table is held by the client, lost, on its
   way to be closed or in a handler that will hand it out or close it; this with 2
   is `NothingLeaks`.
4. `CacheInv`: a thread that works on a cache holds its lock, and what it is about
   to scan was fetched or is the empty list of the first minute.

Only model-checked: the liveness properties (`ResumeCompletes`,
`StepStopsAgain`, `CallsReturn`), which are out of reach of the prover.

## 5. Plan

1. The safety facts that the liveness properties rest on: that a target in
   `bp_callback_after` whose `continue_flag` is set can always take its next step,
   and that a step under the documented use always leaves the target armed.
2. `CacheSound` and `NoAnswerForgotten` for clients that are not careful, as far as
   they hold.

Not modelled: `rwmem_dev_init` and `rwmem_dev_exit` (sequential, run when nothing
else of the module does), `cli` (argument parsing and printing),
`CEServer/symbols.cpp` (commented out), the `_Fast` variants of the driver
wrapper (not called), wire formats and compression, register values, SIGIO
delivery, and frames that change under a call (see `RwMemIo`).
