------------------------------ MODULE CeServer ------------------------------
(***************************************************************************)
(* The Cheat Engine server: one thread per connection (CEServer/main.cpp), *)
(* the table of handles that all threads share without a lock              *)
(* (CEServer/porthelp.cpp), and the calls behind the commands              *)
(* (CEServer/api.cpp).                                                     *)
(*                                                                         *)
(* The client is one program with several connections, as Cheat Engine     *)
(* is: a handle that one connection obtained is used on all of them.  A    *)
(* handle names an object on the server's heap: an opened process, which   *)
(* carries a cache of the process's regions under a mutex, or a snapshot,  *)
(* which carries a list and an iterator.  Contents of lists, regions and   *)
(* memory are abstracted to lengths and to whether there are any.          *)
(*                                                                         *)
(* The server does not order the commands of different connections.  A     *)
(* careful client (Careful) does, with what it can see: the commands that  *)
(* it sent and the answers that it got.                                    *)
(***************************************************************************)
EXTENDS Integers

CONSTANTS
    Conns,      \* connections; the thread of a connection has its name
    Fds,        \* descriptors that accept can return
    Handles,    \* values of CreateHandleFromPointer
    Objs,       \* heap addresses
    Pids,       \* processes
    MaxLen,     \* longest list of a snapshot
    None,       \* no connection, no object
    Profiles,   \* sets of operations; a client uses those of one of them
    Careful     \* TRUE: the client is careful, see MaySend and MayConnect

ASSUME NumbersAssumption ==
    /\ Fds \subseteq Nat /\ Handles \subseteq Nat \ {0} /\ Pids \subseteq Nat \ {0}
    /\ MaxLen \in Nat
ASSUME NoneAssumption == None \notin Conns /\ None \notin Objs
ASSUME CarefulAssumption == Careful \in BOOLEAN

VARIABLES
    \* the client: its profile, open connections, the command of each that it
    \* has no answer to, the connections whose last answer was a list that the
    \* server closes after sending it, commands on their way, the handles it
    \* holds, and as a history those that were lost with a connection, in an
    \* answer that did not arrive or a close that did not
    ops, conn, pending, tail, msg, known, lost,
    \* the process: running or not, the connection of each descriptor, and
    \* whether the system is in the first minute of its uptime
    up, sock, young,
    \* m_HandlePointList, the threads that are changing it, and the heap
    table, mutating, heap,
    \* connection threads: control point, currentsocket, the connection recv
    \* waits on, command, handle, its type, the pointer looked up
    pc, currentsocket, from, cmd, hnd, ht, ptr

clientVars == <<conn, pending, tail, msg, known, lost>>
tableVars  == <<table, mutating>>
threadVars == <<pc, currentsocket, from, cmd, hnd, ht, ptr>>
vars       == <<ops, clientVars, up, sock, young, tableVars, heap, threadVars>>

-----------------------------------------------------------------------------
(* Commands, objects, the table.                                           *)

Kinds == {"process", "module", "thread"}    \* of snapshots
Types == Kinds \cup {"open", "empty"}       \* handleType

\* A snapshot command creates a list of one kind, and reads it as one.
Command(op, h, pid, kind) == [op |-> op, h |-> h, pid |-> pid, kind |-> kind, as |-> kind]
NoCmd == Command("none", 0, 0, "process")

\* dwFlags is a set of bits, tested in one order where the list is created and
\* in another where CMD_CREATETOOLHELP32SNAPSHOTEX reads it.  No bit: "info".
Flags == SUBSET Kinds \ {{}}
Created(fl) == IF "process" \in fl THEN "process" ELSE IF "module" \in fl THEN "module" ELSE "thread"
ReadAs(fl) == IF "thread" \in fl THEN "thread" ELSE IF "module" \in fl THEN "module" ELSE "process"
Snapshot(op, p, fl) == [Command(op, 0, p, Created(fl)) EXCEPT
                           !.as = IF op = "snapex" THEN ReadAs(fl) ELSE @]

\* Read and write are "mem"; commands that only answer are "info", a scan for no
\* bytes is "aob" and a request for the symbols of an empty path "nopath".
Operations == {"open", "close", "snap", "snapex", "first", "next", "mem",
               "query", "queryfull", "info", "aob", "nopath", "bye", "term"}
ASSUME ProfilesAssumption == Profiles \subseteq SUBSET Operations

Requests ==
    {m \in {Command("open", 0, p, "process") : p \in Pids \cup {0}}
           \cup {Command("close", h, 0, "process") : h \in known \cup {0}}
           \cup {Command(op, h, 0, "process") : op \in {"mem", "query", "queryfull"}, h \in known}
           \cup {Snapshot(op, p, fl) : op \in {"snap", "snapex"}, p \in Pids, fl \in Flags}
           \cup {Command(op, h, 0, k) : op \in {"first", "next"}, h \in known, k \in {"process", "module"}}
           \cup {Command(op, 0, 0, "process") : op \in {"info", "aob", "nopath", "bye", "term"}} :
        m.op \in ops}

\* An object: an opened process with its region cache (mtxLockLastMaps,
\* vLastMaps, nLastGetMapsTime), or a snapshot with a list and readIter.
Object(ty, p, n) == [type |-> ty, pid |-> p, len |-> n, iter |-> 0,
                     lock |-> None, maps |-> FALSE, time |-> "zero"]
Freed == Object("empty", 0, 0)

Empty == [p |-> None, type |-> "empty"]

TypeOK ==
    /\ ops \in Profiles
    /\ conn \in [Conns -> BOOLEAN] /\ tail \in [Conns -> BOOLEAN]
    /\ pending \in [Conns -> Operations \cup {"none"}]
    /\ known \subseteq Handles /\ lost \subseteq Handles
    /\ up \in BOOLEAN /\ young \in BOOLEAN
    /\ sock \in [Fds -> Conns \cup {None}]
    /\ table \in [Handles -> [p : Objs \cup {None}, type : Types]]
    /\ mutating \subseteq Conns
    /\ heap \in [Objs -> [type : Types, pid : Pids \cup {0}, len : 0..MaxLen,
                          iter : 0..(MaxLen + 1), lock : Conns \cup {None},
                          maps : BOOLEAN, time : {"zero", "recent", "old"}]]
    /\ currentsocket \in [Conns -> Fds \cup {0}]
    /\ from \in [Conns -> Conns \cup {None}]
    /\ hnd \in [Conns -> Handles \cup {0}]
    /\ ht \in [Conns -> Types]
    /\ ptr \in [Conns -> Objs \cup {None}]

Init ==
    /\ ops \in Profiles
    /\ conn = [c \in Conns |-> FALSE] /\ tail = [c \in Conns |-> FALSE]
    /\ pending = [c \in Conns |-> "none"] /\ msg = [c \in Conns |-> NoCmd]
    /\ known = {} /\ lost = {}
    /\ up = TRUE
    /\ young \in {FALSE, "query" \in ops}    \* it matters to queries only
    /\ sock = [f \in Fds |-> None]
    /\ table = [h \in Handles |-> Empty]
    /\ mutating = {}
    /\ heap = [o \in Objs |-> Freed]
    /\ pc = [t \in Conns |-> "none"]
    /\ currentsocket = [t \in Conns |-> 0]
    /\ from = [t \in Conns |-> None]
    /\ cmd = [t \in Conns |-> NoCmd]
    /\ hnd = [t \in Conns |-> 0]
    /\ ht = [t \in Conns |-> "empty"]
    /\ ptr = [t \in Conns |-> None]

-----------------------------------------------------------------------------
(* The client.                                                             *)

Changing == {"open", "close", "snap", "snapex"}
Users    == {"first", "next", "mem", "query", "queryfull"}

\* As far as the client can tell, the server may be changing the table, or
\* using it, for connection d.  A connection that is lost without an answer
\* stays so.
MayChange(d) == pending[d] \in Changing \/ tail[d]
MayUse(d)    == pending[d] \in Users \/ MayChange(d)

\* A careful client sends a command that changes the table only while no other
\* connection may use it, and one that uses it only while none may change it.
\* It moves an iterator on one connection at a time, and asks for threads
\* with no other flag.
MaySend(c, m) ==
    Careful =>
        /\ \A d \in Conns \ {c} :
               /\ m.op \in Changing => ~ MayUse(d)
               /\ m.op \in Users => ~ MayChange(d)
               /\ ~ ({m.op, pending[d]} \subseteq {"first", "next"})
        /\ m.as = "thread" => m.kind = "thread"

\* A handle is forgotten when the command that closes it is sent.
Send(c, m) ==
    /\ up /\ conn[c] /\ pending[c] = "none" /\ msg[c] = NoCmd
    /\ MaySend(c, m)
    /\ msg' = [msg EXCEPT ![c] = m]
    /\ pending' = [pending EXCEPT ![c] = m.op]
    /\ conn' = [conn EXCEPT ![c] = m.op # "bye"]
    /\ known' = IF m.op = "close" THEN known \ {m.h} ELSE known
    /\ UNCHANGED <<ops, tail, lost, up, sock, young, tableVars, heap, threadVars>>

\* The connection breaks; a command on its way arrives whole, in part or not
\* at all.  Handlers that fail to read their parameters close the socket, or
\* just return.  A command of one byte arrives or does not.
CutClose == {"open", "close", "snap", "snapex", "info"}
CutShort == Users \cup {"info", "aob", "nopath"}
Cut(m) == {NoCmd, m}
          \cup {Command("cut", 0, 0, "process") : x \in {m.op} \cap CutShort}
          \cup {Command("cutclose", 0, 0, "process") : x \in {m.op} \cap CutClose}

Disconnect(c) ==
    /\ up /\ conn[c]
    /\ conn' = [conn EXCEPT ![c] = FALSE]
    /\ \E m \in IF msg[c] = NoCmd THEN {NoCmd} ELSE Cut(msg[c]) :
           /\ msg' = [msg EXCEPT ![c] = m]
           /\ lost' = IF m # msg[c] /\ msg[c].op = "close" THEN lost \cup ({msg[c].h} \ {0}) ELSE lost
    /\ UNCHANGED <<ops, pending, tail, known, up, sock, young, tableVars, heap, threadVars>>

-----------------------------------------------------------------------------
(* Connections: accept, receive, answer, close.                            *)

FreeFds == {f \in Fds : sock[f] = None}

\* A careful client connects unless it has lost, or closed with
\* CMD_CLOSECONNECTION, a connection with a command unanswered or a list just
\* received: the thread that serves it may close the descriptor and go on
\* receiving from it.
MayConnect == Careful => \A d \in Conns : conn[d] \/ (pending[d] = "none" /\ ~ tail[d])

\* accept returns the lowest free descriptor and a thread is started on it.  The
\* name c is free once no thread and no descriptor has it.
Accept(c) ==
    /\ up /\ ~ conn[c] /\ pc[c] = "none" /\ msg[c] = NoCmd
    /\ \A f \in Fds : sock[f] # c
    /\ \A t \in Conns : pc[t] = "wait" => from[t] # c
    /\ MayConnect
    /\ \E f \in FreeFds :
           /\ \A g \in FreeFds : f <= g
           /\ sock' = [sock EXCEPT ![f] = c]
           /\ currentsocket' = [currentsocket EXCEPT ![c] = f]
    /\ conn' = [conn EXCEPT ![c] = TRUE]
    /\ pending' = [pending EXCEPT ![c] = "none"]
    /\ tail' = [tail EXCEPT ![c] = FALSE]
    /\ pc' = [pc EXCEPT ![c] = "recv"]
    /\ UNCHANGED <<ops, msg, known, lost, up, young, tableVars, heap, from, cmd, hnd, ht, ptr>>

\* The connection behind the descriptor of thread t.
Peer(t) == sock[currentsocket[t]]

\* The handler returns: its variables go out of scope.
Return(t) ==
    /\ pc' = [pc EXCEPT ![t] = "recv"]
    /\ cmd' = [cmd EXCEPT ![t] = NoCmd]
    /\ hnd' = [hnd EXCEPT ![t] = 0]
    /\ ht' = [ht EXCEPT ![t] = "empty"]
    /\ ptr' = [ptr EXCEPT ![t] = None]

\* It goes on at p.
GoOn(t, p) == pc' = [pc EXCEPT ![t] = p] /\ UNCHANGED <<cmd, hnd, ht, ptr>>

\* recv looks up the descriptor, and fails if it is closed.
Recv(t) ==
    /\ up /\ pc[t] = "recv"
    /\ from' = [from EXCEPT ![t] = Peer(t)]
    /\ pc' = [pc EXCEPT ![t] = IF Peer(t) = None THEN "exit" ELSE "wait"]
    /\ UNCHANGED <<ops, young, clientVars, up, sock, tableVars, heap, currentsocket, cmd, hnd, ht, ptr>>

\* recv returns 0: the peer has disconnected.
RecvEnd(t) ==
    /\ up /\ pc[t] = "wait" /\ ~ conn[from[t]] /\ msg[from[t]] = NoCmd
    /\ pc' = [pc EXCEPT ![t] = "exit"]
    /\ from' = [from EXCEPT ![t] = None]
    /\ UNCHANGED <<ops, young, clientVars, up, sock, tableVars, heap, currentsocket, cmd, hnd, ht, ptr>>

\* close(currentsocket); a connection that is closed here is lost for the client
CloseSocket(t) ==
    /\ sock' = [sock EXCEPT ![currentsocket[t]] = None]
    /\ conn' = [c \in Conns |-> conn[c] /\ c # Peer(t)]
    /\ UNCHANGED <<pending, tail, msg, known, lost>>

\* The end of newConnectionThread.
Exit(t) ==
    /\ up /\ pc[t] = "exit"
    /\ CloseSocket(t)
    /\ pc' = [pc EXCEPT ![t] = "none"]
    /\ currentsocket' = [currentsocket EXCEPT ![t] = 0]
    /\ UNCHANGED <<ops, young, up, tableVars, heap, from, cmd, hnd, ht, ptr>>

\* DispatchCommand: where the handler of a command begins
Entry(m) ==
    CASE m.op = "open" -> "find"
      [] m.op \in {"snap", "snapex"} -> IF m.kind = "module" THEN "find" ELSE "build"
      [] m.op \in {"first", "next", "mem", "query", "queryfull"} -> "type"
      [] m.op = "close" -> "ctype"
      [] OTHER -> m.op

Dispatch(t) ==
    /\ up /\ pc[t] = "wait" /\ msg[from[t]] # NoCmd
    /\ LET m == msg[from[t]]
       IN  /\ cmd' = [cmd EXCEPT ![t] = m]
           /\ hnd' = [hnd EXCEPT ![t] = m.h]
           /\ pc' = [pc EXCEPT ![t] = Entry(m)]
    /\ msg' = [msg EXCEPT ![from[t]] = NoCmd]
    /\ from' = [from EXCEPT ![t] = None]
    /\ UNCHANGED <<ops, young, conn, pending, tail, known, lost, up, sock, tableVars, heap,
                   currentsocket, ht, ptr>>

\* CMD_CLOSECONNECTION, an empty path, and handlers that miss their parameters:
\* the socket is closed and the thread goes back to receiving from it.
HangUp(t) ==
    /\ up /\ pc[t] \in {"bye", "nopath", "cutclose"}
    /\ CloseSocket(t)
    /\ Return(t)
    /\ UNCHANGED <<ops, young, up, tableVars, heap, currentsocket, from>>

\* CMD_TERMINATESERVER
Terminate(t) ==
    /\ up /\ pc[t] = "term"
    /\ up' = FALSE
    /\ CloseSocket(t)
    /\ UNCHANGED <<ops, young, tableVars, heap, threadVars>>

Delivered(t) == Peer(t) # None /\ conn[Peer(t)]

\* A step that sends nothing.
Silence == UNCHANGED <<clientVars, up, sock>>

\* CMD_CREATETOOLHELP32SNAPSHOTEX sends a list of threads or modules and then
\* closes its handle.
Listed(m) == m.op = "snapex" /\ m.as \in {"module", "thread"}

\* sendall of an answer that gives the client the handles hs.  No handler for
\* SIGPIPE is installed: sending to a peer that is gone may end the process, and
\* so may, if ok is FALSE, an access to an object just before.
Answer(t, hs, ok) ==
    /\ up' \in IF ok /\ (Peer(t) = None \/ conn[Peer(t)]) THEN {TRUE} ELSE BOOLEAN
    /\ IF Delivered(t)
       THEN /\ pending' = [pending EXCEPT ![Peer(t)] = "none"]
            /\ tail' = [tail EXCEPT ![Peer(t)] = Listed(cmd[t])]
            /\ known' = known \cup (hs \ {0})
            /\ lost' = lost \ hs
       ELSE /\ lost' = lost \cup (hs \ {0})
            /\ UNCHANGED <<pending, tail, known>>
    /\ UNCHANGED <<conn, msg, sock>>

\* Commands that only answer; CMD_AOBSCAN for no bytes does not even do that.
Info(t) ==
    /\ up /\ pc[t] \in {"info", "aob", "cut"}
    /\ IF pc[t] = "info" THEN Answer(t, {}, TRUE) ELSE Silence
    /\ Return(t)
    /\ UNCHANGED <<ops, young, tableVars, heap, currentsocket, from>>

-----------------------------------------------------------------------------
(* The table.                                                              *)

\* find in m_HandlePointList.  While another thread inserts or erases, it may
\* miss an entry.
Find(t, h) ==
    LET now == IF h \in Handles THEN table[h] ELSE Empty
    IN  {now} \cup {Empty : x \in mutating \ {t}}

\* An insertion or removal that overlaps another may be lost.
Become(t, new) ==
    /\ table' \in {new} \cup {table : x \in mutating \ {t}}
    /\ mutating' = mutating \ {t}

\* FindHandleByPID visits the handles in ascending order up to the one it
\* returns.
OfProcess(h, p) == table[h].type = "open" /\ heap[table[h].p].pid = p
Lowest(p) == CHOOSE h \in Handles : OfProcess(h, p) /\ \A g \in Handles : OfProcess(g, p) => h <= g
FindHandleByPIDBug(p) == IF \E h \in Handles : OfProcess(h, p) THEN Lowest(p) ELSE -1
FindHandleByPID(p) == IF \E h \in Handles : OfProcess(h, p) THEN Lowest(p) ELSE 0
Visited(p) == {h \in Handles : table[h].type = "open"
                               /\ \A g \in Handles : OfProcess(g, p) => h <= g}

\* The object that thread t is about to use is there and has type ty.
Live(t, ty) == ptr[t] \in Objs /\ heap[ptr[t]].type = ty

\* CApi::OpenProcess, and the module snapshot of CreateToolhelp32Snapshot.
FindPid(t) ==
    LET h == FindHandleByPID(cmd[t].pid)
        ok == \A g \in Visited(cmd[t].pid) : heap[table[g].p].type = "open"
    IN  /\ up /\ pc[t] = "find"
        /\ IF (h # 0) = (cmd[t].op = "open")
           THEN Answer(t, {h}, ok) /\ Return(t)
           ELSE /\ up' \in IF ok THEN {TRUE} ELSE BOOLEAN
                /\ hnd' = [hnd EXCEPT ![t] = h]
                /\ pc' = [pc EXCEPT ![t] = IF h = 0 THEN "build" ELSE "ptr"]
                /\ UNCHANGED <<clientVars, sock, cmd, ht, ptr>>
        /\ UNCHANGED <<ops, young, tableVars, heap, currentsocket, from>>

\* GetHandleType, against the type the call needs; CloseHandle takes any.  A list
\* of modules that is not one is answered as empty.
Wanted(m) == CASE m.op \in {"first", "next"} -> m.kind
               [] m.op = "snapex" -> "module"
               [] OTHER -> "open"
Typed == [type |-> "ptr", ctype |-> "cptr", xtype |-> "xptr"]

GetHandleType(t) ==
    /\ up /\ pc[t] \in {"type", "ctype", "xtype"}
    /\ \E e \in Find(t, hnd[t]) :
           IF pc[t] # "ctype" /\ e.type # Wanted(cmd[t])
           THEN /\ Answer(t, {}, TRUE)
                /\ IF pc[t] = "xtype" THEN GoOn(t, "ctype") ELSE Return(t)
           ELSE /\ ht' = [ht EXCEPT ![t] = e.type]
                /\ pc' = [pc EXCEPT ![t] = Typed[@]]
                /\ Silence
                /\ UNCHANGED <<cmd, hnd, ptr>>
    /\ UNCHANGED <<ops, young, tableVars, heap, currentsocket, from>>

\* GetPointerFromHandle, and where its result is used
Use(t) ==
    CASE pc[t] = "cptr" -> "delete"
      [] pc[t] = "xptr" -> "list"
      [] pc[t] = "ptr" /\ cmd[t].op \in {"snap", "snapex"} -> "build"
      [] pc[t] = "ptr" /\ cmd[t].op \in {"first", "next"} -> "iter"
      [] pc[t] = "ptr" /\ cmd[t].op \in {"query", "queryfull"} -> "lock"
      [] OTHER -> cmd[t].op

GetPointerFromHandle(t) ==
    /\ up /\ pc[t] \in {"ptr", "cptr", "xptr"}
    /\ \E e \in Find(t, hnd[t]) : ptr' = [ptr EXCEPT ![t] = e.p]
    /\ pc' = [pc EXCEPT ![t] = Use(t)]
    /\ UNCHANGED <<ops, young, clientVars, up, sock, tableVars, heap, currentsocket, from, cmd, hnd, ht>>

-----------------------------------------------------------------------------
(* Creating and closing handles.                                           *)

\* Process 0 cannot be opened; a process or its task directory may be gone.
Buildable(m) ==
    IF m.op = "open" THEN {m.pid # 0} ELSE IF m.kind = "process" THEN {TRUE} ELSE BOOLEAN

\* GetProcessListInfo does not test fopen: a process that exits after readdir
\* ends the server.
ReadsProc(m) == m.op # "open" /\ m.kind = "process"

\* The list of threads is sent whole and has no iterator.
Lengths(m) == IF m.op # "open" /\ m.kind # "thread" THEN 0..MaxLen ELSE {0}

\* The new object: CeOpenProcess, or the list of a snapshot.
Build(t) ==
    LET m == cmd[t]
        ok == m.op # "open" /\ m.kind = "module" => Live(t, "open")
    IN  /\ up /\ pc[t] = "build"
        /\ \/ /\ FALSE \in Buildable(m)
              /\ Answer(t, {}, ok)
              /\ Return(t)
              /\ UNCHANGED heap
           \/ /\ TRUE \in Buildable(m)
              /\ \E o \in Objs, n \in Lengths(m) :
                     /\ heap[o] = Freed
                     /\ heap' = [heap EXCEPT ![o] = IF m.op = "open" THEN Object("open", m.pid, 0)
                                                                     ELSE Object(m.kind, 0, n)]
                     /\ ptr' = [ptr EXCEPT ![t] = o]
              /\ up' \in IF ok /\ ~ ReadsProc(m) THEN {TRUE} ELSE BOOLEAN
              /\ pc' = [pc EXCEPT ![t] = "insert"]
              /\ UNCHANGED <<clientVars, sock, cmd, hnd, ht>>
        /\ UNCHANGED <<ops, young, tableVars, currentsocket, from>>

\* CreateHandleFromPointer takes a random handle that find does not find ...
Insert(t) ==
    /\ up /\ pc[t] = "insert"
    /\ \E h \in Handles : Empty \in Find(t, h) /\ hnd' = [hnd EXCEPT ![t] = h]
    /\ mutating' = mutating \cup {t}
    /\ pc' = [pc EXCEPT ![t] = "inserting"]
    /\ UNCHANGED <<ops, young, clientVars, up, sock, table, heap, currentsocket, from, cmd, ht, ptr>>

\* ... and inserts the pair.
AfterInsertBug(m) == "recv"
AfterInsert(m) == IF m.as = "module" THEN "xtype" ELSE "xptr"

Inserted(t) ==
    /\ up /\ pc[t] = "inserting"
    /\ Become(t, IF table[hnd[t]] = Empty
                 THEN [table EXCEPT ![hnd[t]] = [p |-> ptr[t], type |-> heap[ptr[t]].type]]
                 ELSE table)
    /\ IF Listed(cmd[t])
       THEN Silence /\ GoOn(t, AfterInsert(cmd[t]))
       ELSE Answer(t, {hnd[t]}, TRUE) /\ Return(t)
    /\ UNCHANGED <<ops, young, heap, currentsocket, from>>

\* The list of threads, or Module32First and Module32Next to the end.
List(t) ==
    /\ up /\ pc[t] = "list"
    /\ heap' = IF cmd[t].as = "module" /\ Live(t, "module")
               THEN [heap EXCEPT ![ptr[t]].iter = heap[ptr[t]].len] ELSE heap
    /\ Answer(t, {}, Live(t, cmd[t].as))
    /\ GoOn(t, "ctype")
    /\ UNCHANGED <<ops, young, tableVars, currentsocket, from>>

\* CApi::CloseHandle deletes the object ...
Delete(t) ==
    /\ up /\ pc[t] = "delete"
    /\ heap' = IF ht[t] # "empty" /\ ptr[t] \in Objs THEN [heap EXCEPT ![ptr[t]] = Freed] ELSE heap
    /\ up' \in IF ht[t] = "empty" \/ Live(t, ht[t]) THEN {TRUE} ELSE BOOLEAN
    /\ pc' = [pc EXCEPT ![t] = "erase"]
    /\ UNCHANGED <<ops, young, clientVars, sock, tableVars, currentsocket, from, cmd, hnd, ht, ptr>>

\* ... and RemoveHandle erases the entry, if it finds it.
CloseAnswer(t) ==
    /\ Return(t)
    /\ IF cmd[t].op = "close" THEN Answer(t, {}, TRUE) ELSE Silence

Erase(t) ==
    /\ up /\ pc[t] = "erase"
    /\ \E e \in Find(t, hnd[t]) :
           \/ e = Empty /\ CloseAnswer(t) /\ UNCHANGED mutating
           \/ /\ e # Empty
              /\ mutating' = mutating \cup {t}
              /\ GoOn(t, "erasing")
              /\ Silence
    /\ UNCHANGED <<ops, young, table, heap, currentsocket, from>>

ErasedBug(t) == table
ErasedTable(t) == [table EXCEPT ![hnd[t]] = Empty]

Erased(t) ==
    /\ up /\ pc[t] = "erasing"
    /\ Become(t, ErasedTable(t))
    /\ CloseAnswer(t)
    /\ UNCHANGED <<ops, young, heap, currentsocket, from>>

-----------------------------------------------------------------------------
(* Using handles.                                                          *)

\* Process32First and Module32First rewind the iterator, Process32Next and
\* Module32Next advance it and read the entry unless it is at the end; once
\* past the end (MaxLen + 1 stands for all that lies there) they read what is
\* there.
NewIter(t) ==
    IF cmd[t].op = "first" THEN 0
    ELSE IF heap[ptr[t]].iter = MaxLen + 1 THEN MaxLen + 1 ELSE heap[ptr[t]].iter + 1

Iterate(t) ==
    /\ up /\ pc[t] = "iter"
    /\ heap' = IF Live(t, cmd[t].kind) THEN [heap EXCEPT ![ptr[t]].iter = NewIter(t)] ELSE heap
    /\ Answer(t, {}, Live(t, cmd[t].kind) /\ NewIter(t) <= heap[ptr[t]].len)
    /\ Return(t)
    /\ UNCHANGED <<ops, young, tableVars, currentsocket, from>>

\* ReadProcessMemory and WriteProcessMemory: the process of the object goes to
\* the driver.
Memory(t) ==
    /\ up /\ pc[t] = "mem"
    /\ Answer(t, {}, Live(t, "open"))
    /\ Return(t)
    /\ UNCHANGED <<ops, young, tableVars, heap, currentsocket, from>>

\* VirtualQueryEx and VirtualQueryExFull lock the region cache,
CanLockBug(t) == TRUE
CanLock(t) == Live(t, "open") => heap[ptr[t]].lock = None

Lock(t) ==
    /\ up /\ pc[t] = "lock"
    /\ CanLock(t)
    /\ IF Live(t, "open")
       THEN /\ heap' = [heap EXCEPT ![ptr[t]].lock = t]
            /\ GoOn(t, "locked")
            /\ Silence
       ELSE /\ Answer(t, {}, FALSE)
            /\ Return(t)
            /\ UNCHANGED heap
    /\ UNCHANGED <<ops, young, tableVars, currentsocket, from>>

\* clear it, VirtualQueryEx only if the list is older than a minute, by a clock
\* that starts at zero when the system does,
Expired(t) == \/ cmd[t].op = "queryfull"
              \/ heap[ptr[t]].time = "old"
              \/ heap[ptr[t]].time = "zero" /\ ~ young

Check(t) ==
    /\ up /\ pc[t] = "locked"
    /\ heap' = IF Expired(t) THEN [heap EXCEPT ![ptr[t]].maps = FALSE] ELSE heap
    /\ pc' = [pc EXCEPT ![t] = IF Expired(t) THEN "fill" ELSE "scan"]
    /\ UNCHANGED <<ops, young, clientVars, up, sock, tableVars, currentsocket, from, cmd, hnd, ht, ptr>>

\* fetch it from the driver, which may fail,
FailedTimeBug(t) == heap[ptr[t]].time
FailedTime(t) == "zero"

Fill(t) ==
    /\ up /\ pc[t] = "fill"
    /\ \/ /\ heap' = [heap EXCEPT ![ptr[t]].maps = TRUE, ![ptr[t]].time = "recent"]
          /\ GoOn(t, "scan")
          /\ Silence
       \/ /\ heap' = [heap EXCEPT ![ptr[t]].time = FailedTime(t), ![ptr[t]].lock = None]
          /\ Return(t)
          /\ Answer(t, {}, TRUE)
    /\ UNCHANGED <<ops, young, tableVars, currentsocket, from>>

\* and answer from it; the lock is released on return.
UnlockedBug(t) == heap
Unlocked(t) == [heap EXCEPT ![ptr[t]].lock = None]

Scan(t) ==
    /\ up /\ pc[t] = "scan"
    /\ heap' = Unlocked(t)
    /\ Answer(t, {}, TRUE)
    /\ Return(t)
    /\ UNCHANGED <<ops, young, tableVars, currentsocket, from>>

\* A minute passes: since a list was fetched, since the system started.
Age(o) ==
    /\ up /\ heap[o].time = "recent" /\ ~ young
    /\ heap' = [heap EXCEPT ![o].time = "old"]
    /\ UNCHANGED <<ops, young, clientVars, up, sock, tableVars, threadVars>>

FirstMinute ==
    /\ up /\ young
    /\ young' = FALSE
    /\ UNCHANGED <<ops, clientVars, up, sock, tableVars, heap, threadVars>>

-----------------------------------------------------------------------------
Client ==
    \/ \E c \in Conns : \E m \in Requests : Send(c, m)
    \/ \E c \in Conns : Disconnect(c) \/ Accept(c)
    \/ \E o \in Objs : Age(o)
    \/ FirstMinute

Thread(t) ==
    \/ Recv(t) \/ RecvEnd(t) \/ Exit(t) \/ Dispatch(t)
    \/ HangUp(t) \/ Terminate(t) \/ Info(t)
    \/ FindPid(t) \/ GetHandleType(t) \/ GetPointerFromHandle(t)
    \/ Build(t) \/ Insert(t) \/ Inserted(t) \/ List(t)
    \/ Delete(t) \/ Erase(t) \/ Erased(t)
    \/ Iterate(t) \/ Memory(t)
    \/ Lock(t) \/ Check(t) \/ Fill(t) \/ Scan(t)

Next == Client \/ \E t \in Conns : Thread(t)

Spec == Init /\ [][Next]_vars

-----------------------------------------------------------------------------
(* Properties.                                                             *)

Needed(t) ==
    CASE pc[t] \in {"mem", "lock", "locked", "fill", "scan"} -> {"open"}
      [] pc[t] = "iter" -> {cmd[t].kind}
      [] pc[t] = "list" -> {cmd[t].as}
      [] pc[t] = "delete" -> {ht[t]} \ {"empty"}
      [] pc[t] = "build" /\ cmd[t].op # "open" /\ cmd[t].kind = "module" -> {"open"}
      [] OTHER -> {}

\* A thread that is about to use an object, through the pointer that it got for
\* a handle or while it searches the table for a process, finds it allocated
\* and of the type it takes it for (api.cpp, after GetPointerFromHandle;
\* porthelp.cpp, FindHandleByPID; main.cpp, the list read by dwFlags).
NoDangling ==
    up => \A t \in Conns :
        /\ \A ty \in Needed(t) : Live(t, ty)
        /\ pc[t] = "find" => \A h \in Visited(cmd[t].pid) : heap[table[h].p].type = "open"

\* The object from which a thread in ReadProcessMemory or WriteProcessMemory
\* reads the driver's handle has not been deleted by another: "this routine can
\* get called by multiple threads at the same time" (api.cpp:503).
ReadWhileOpen == up => \A t \in Conns : pc[t] = "mem" /\ ptr[t] # None => Live(t, "open")

Settled == \A t \in Conns : pc[t] \in {"none", "recv", "wait"}

\* When no command runs, every object has exactly one handle, every entry an
\* object of its type, and every handle of the table is one that the client
\* holds, or was lost with a connection: nothing else leaks, in particular not
\* the lists that CMD_CREATETOOLHELP32SNAPSHOTEX closes itself, whatever its
\* dwFlags created and read.
NoLeak ==
    up /\ Settled =>
        /\ \A o \in Objs : heap[o] # Freed => \E h \in Handles : table[h] = [p |-> o, type |-> heap[o].type]
        /\ \A h \in Handles : table[h] # Empty =>
               /\ table[h].p \in Objs /\ heap[table[h].p].type = table[h].type
               /\ h \in known \cup lost \cup {msg[c].h : c \in Conns}
        /\ \A g, h \in Handles : table[g].p = table[h].p /\ table[g] # Empty => g = h

\* A thread that answers from the region cache holds its lock and the list that
\* was fetched; VirtualQueryEx may instead find a cache that was never filled
\* or whose last fetch failed, in the first minute of the system's uptime
\* (vLastMaps under mtxLockLastMaps).
CacheStable ==
    up => \A t \in Conns : pc[t] = "scan" =>
              /\ heap[ptr[t]].lock = t
              /\ heap[ptr[t]].maps \/ (cmd[t].op = "query" /\ heap[ptr[t]].time = "zero")

\* A cache that counts as fetched (nLastGetMapsTime # 0) holds a list, unless a
\* thread is just fetching one.
CacheSound ==
    \A o \in Objs : heap[o].time # "zero" /\ heap[o].lock = None => heap[o].maps

\* Only the thread that works on the region cache of a process holds its lock,
\* so it is released whichever way VirtualQueryEx or VirtualQueryExFull ends.
LocksHeld ==
    \A o \in Objs : heap[o].lock # None =>
        pc[heap[o].lock] \in {"locked", "fill", "scan"} /\ ptr[heap[o].lock] = o

\* The thread is in a handler that has yet to answer, or to close the socket.
Answering(t) ==
    /\ pc[t] \notin {"none", "recv", "wait", "exit", "aob", "cut", "cutclose"}
    /\ pc[t] \in {"ctype", "cptr", "delete", "erase", "erasing"} => cmd[t].op = "close"

\* As long as its connection is open, a command without an answer is on its way
\* or in a handler that will answer it or close the socket: except for
\* CMD_AOBSCAN without bytes, no handler of a supported command
\* (DispatchCommand) just returns.
NoAnswerForgotten ==
    up => \A c \in Conns : conn[c] /\ pending[c] \notin {"none", "aob"} =>
              msg[c] # NoCmd \/ \E t \in Conns : Answering(t) /\ Peer(t) = c
=============================================================================
