----------------------------- MODULE RwMemClient -----------------------------
(***************************************************************************)
(* The clients of RwMemIo and the buffers they hand to the kernel module:  *)
(* read_mem and write_mem of librwmem, and ReadProcessMemory and           *)
(* WriteProcessMemory of the CE server's driver wrapper.                   *)
(*                                                                         *)
(* The parameters of a call lie in the first Header bytes of the buffer,   *)
(* however short the transfer is: a read delivers its data over them, a    *)
(* write takes its data from behind them.                                  *)
(***************************************************************************)
EXTENDS RwMemIo

CONSTANT Calls      \* the client calls: function, address, number of bytes

Lib == {"read_mem", "write_mem"}
Ce  == {"ReadProcessMemory", "WriteProcessMemory"}
AllCalls == [fn : Lib \cup Ce, addr : Nat, n : Nat]
NoCall == [fn |-> "none", addr |-> 0, n |-> 0]
Panicked == [fn |-> "panicked", addr |-> 0, n |-> 0]

Writes(u) == u.fn \in {"write_mem", "WriteProcessMemory"}

\* The wrapper of the CE server answers FALSE without a system call.
Rejects(u) == u.fn \in Ce /\ (u.addr = 0 \/ u.n = 0)

\* read_mem clears the byte behind the force flag: with exactly Header bytes
\* there is none.
Panics(u) == u.fn = "read_mem" /\ u.n = Header

\* The force flag: for longer reads of read_mem it is what the caller's buffer
\* held; api.cpp never asks for force.
Flags(u) ==
    CASE u.fn = "write_mem" -> {TRUE}
      [] u.fn = "read_mem" /\ u.n >= Header -> BOOLEAN
      [] OTHER -> {FALSE}

Request(u, f) ==
    [op |-> IF Writes(u) THEN "write" ELSE "read",
     addr |-> u.addr, size |-> u.n, force |-> f]

\* The largest int of the CE server.
IntMax == 2147483647

ASSUME CallsAssumption ==
    /\ Calls \subseteq AllCalls
    /\ \A u \in Calls : \A f \in Flags(u) : Request(u, f) \in Requests
    /\ \A u \in Calls : u.fn \in Ce => Header + u.n <= IntMax

VARIABLE user       \* the call that each client thread is in

clientVars == <<vars, user>>

ClientTypeOK == user \in [Callers -> AllCalls \cup {NoCall, Panicked}]

ClientInit == Init /\ user = [c \in Callers |-> NoCall]

\* The client lays out its buffer and enters the kernel.
Enter(c, u) ==
    /\ user[c] = NoCall
    /\ ~ Rejects(u) /\ ~ Panics(u)
    /\ user' = [user EXCEPT ![c] = u]
    /\ \E f \in Flags(u) : Start(c, Request(u, f))

Panic(c, u) ==
    /\ user[c] = NoCall
    /\ Panics(u)
    /\ user' = [user EXCEPT ![c] = Panicked]
    /\ UNCHANGED vars

Leave(c) ==
    /\ Return(c)
    /\ user' = [user EXCEPT ![c] = NoCall]

ClientNext ==
    \/ \E c \in Callers :
          \/ \E u \in Calls : Enter(c, u) \/ Panic(c, u)
          \/ Work(c) /\ UNCHANGED user
          \/ Leave(c)
    \/ \E p \in Pages, w \in BOOLEAN : Fault(p, w) /\ UNCHANGED user
    \/ \E p \in Pages : Upgrade(p) /\ UNCHANGED user
    \/ \E p \in Reclaimable, w \in BOOLEAN : Reclaim(p, w) /\ UNCHANGED user
    \/ Exit /\ UNCHANGED user

ClientSpec == ClientInit /\ [][ClientNext]_clientVars

ClientFairSpec == ClientSpec /\ \A c \in Callers : WF_vars(Work(c))

-----------------------------------------------------------------------------
(* The buffers.                                                            *)

\* The length of the buffer that the kernel gets: a write, and a read shorter
\* than the parameters, use a buffer of the client function's own.  The CE
\* server computes its length as an int, in which it must fit.
BufLenBug(u) == IF Writes(u) THEN u.n ELSE IF u.n < Header THEN Header ELSE u.n
BufLen(u) ==
    IF Writes(u) THEN Header + u.n ELSE IF u.n < Header THEN Header ELSE u.n

\* What the function reports when the system call returned r, and the number
\* of bytes it vouches for: librwmem all of them or an error, the CE server
\* what there was.
Succeeds(u, r) == IF u.fn \in Lib THEN r = u.n ELSE r > 0
Reported(u, r) == IF u.fn \in Lib THEN u.n ELSE r

\* The bytes as they moved between the target and the memory of the function's
\* caller.  Of an own buffer the function copies as many as it reports.
Received(c) ==
    IF Writes(user[c])
    THEN {<<m[1], m[2] - Header>> : m \in moved[c]}
    ELSE IF user[c].n < Header
         THEN {m \in moved[c] : m[2] < Reported(user[c], ret[c])}
         ELSE moved[c]

-----------------------------------------------------------------------------
(* Properties.                                                             *)

Called(c) == user[c] \in AllCalls

\* The kernel module, which is told the length of the data and not that of
\* the buffer, stays inside the buffer of the client: the parameters it always
\* fetches are there, and so is every byte it reads or writes.
InBuffer ==
    \A c \in Callers : Called(c) =>
        /\ Header <= BufLen(user[c])
        /\ \A m \in moved[c] : 0 <= m[2] /\ m[2] < BufLen(user[c])

\* A client function that reports success has moved the bytes it reports: no
\* byte whose page was in memory is missing or comes from anywhere else, no
\* parameter is taken for data, and every byte is at its place in the caller's
\* memory, with or without a buffer of its own, and although read_mem leaves
\* the force flag to chance.  Only where a page was not in memory may the
\* client be told success with bytes of an address that the stray entry formed.
ClientExact ==
    \A c \in Callers :
        LET u == user[c]
            n == Reported(u, ret[c])
        IN  pc[c] = "done" /\ Called(c) /\ Succeeds(u, ret[c])
              => /\ \A b \in Resident(c, n) :
                       <<PhysOf(u.addr + b), b>> \in Received(c)
                 /\ \A m \in Received(c) : \E b \in 0..(n - 1) :
                       m = <<PhysAddr(c, u.addr + b), b>>

=============================================================================
