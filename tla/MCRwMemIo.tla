----------------------------- MODULE MCRwMemIo -----------------------------
(***************************************************************************)
(* Model checking of RwMemClient and RwMemIo: consecutive pages of the     *)
(* target lie in physical pages of descending addresses.                   *)
(***************************************************************************)
EXTENDS RwMemClient

MCFrameOf == [p \in 0..(NPages - 1) |-> NPages - p]

\* The last page may be swapped out; the bits of its entry then form the
\* address of a page that is not the target's.
MCReclaimable == {NPages - 1}
MCStrayFrameOf == [p \in MCReclaimable |-> NPages + p]

\* Ranges that start and end inside a page, cover it, cross into the next or
\* leave the address space; shorter than the parameters, as long, longer.
MCCalls ==
    {[fn |-> "write_mem", addr |-> 1, n |-> 2],
     [fn |-> "WriteProcessMemory", addr |-> 1, n |-> 3]}
    \cup [fn : {"read_mem"}, addr : {0}, n : {0, 3, 4}]
    \cup [fn : {"ReadProcessMemory"}, addr : {3}, n : {0, 2}]

MCRequests == UNION {{Request(u, f) : f \in Flags(u)} : u \in MCCalls}

=============================================================================
