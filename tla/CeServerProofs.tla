---------------------------- MODULE CeServerProofs ----------------------------
(***************************************************************************)
(* Proofs about CeServer, for every number of connections, descriptors,    *)
(* handles, objects and processes, and every set of commands a client uses.*)
(*                                                                         *)
(* BaseInv (types, control, locks) holds for every client.  The rest is    *)
(* about a careful one.  LinkInv says which thread serves which            *)
(* connection, and what the commands in the server have to do with those   *)
(* that the client has no answer to; so a command that changes the table   *)
(* has it for itself.  On it rest ObjInv (table and objects agree),        *)
(* EntriesClaimed (who has the handles) and CacheInv (region caches).      *)
(***************************************************************************)
EXTENDS CeServer, NatLemmas

-----------------------------------------------------------------------------
(* Types, control and locks: the invariant.                                *)

\* Where a thread can be.
PCs == {"none", "recv", "wait", "exit", "find", "build", "insert", "inserting", "type", "ptr",
        "xtype", "xptr", "list", "ctype", "cptr", "delete", "erase", "erasing", "iter", "mem",
        "lock", "locked", "fill", "scan", "info", "aob", "nopath", "bye", "term", "cut", "cutclose"}
Moves   == {"first", "next"}
Creates == {"open", "snap", "snapex"}
Queries == {"query", "queryfull"}
Brief   == {"info", "aob", "nopath", "bye", "term", "cut", "cutclose"}

Cmds == [op : Operations \cup {"none", "cut", "cutclose"}, h : Handles \cup {0},
         pid : Pids \cup {0}, kind : Kinds, as : Kinds]

HeapTypes == [type : Types, pid : Pids \cup {0}, len : 0..MaxLen, iter : 0..(MaxLen + 1),
              lock : Conns \cup {None}, maps : BOOLEAN, time : {"zero", "recent", "old"}]
ClientTypes ==
    /\ ops \in Profiles
    /\ conn \in [Conns -> BOOLEAN] /\ tail \in [Conns -> BOOLEAN]
    /\ pending \in [Conns -> Operations \cup {"none"}]
    /\ msg \in [Conns -> Cmds]
    /\ known \subseteq Handles /\ lost \subseteq Handles
    /\ up \in BOOLEAN /\ young \in BOOLEAN
    /\ sock \in [Fds -> Conns \cup {None}]
TableTypes ==
    /\ table \in [Handles -> [p : Objs \cup {None}, type : Types]]
    /\ mutating \subseteq Conns
HeapTyped == heap \in [Objs -> HeapTypes]
ThreadTypes ==
    /\ pc \in [Conns -> PCs] /\ cmd \in [Conns -> Cmds]
    /\ currentsocket \in [Conns -> Fds \cup {0}]
    /\ from \in [Conns -> Conns \cup {None}]
    /\ hnd \in [Conns -> Handles \cup {0}]
    /\ ht \in [Conns -> Types]
    /\ ptr \in [Conns -> Objs \cup {None}]
TypesInv == ClientTypes /\ TableTypes /\ HeapTyped /\ ThreadTypes

\* The module list is sent by the server itself.
InModule(m) == m.op \in {"snap", "snapex"} /\ m.kind = "module"

\* The type of the object that a command creates.
NewType(m) == IF m.op = "open" THEN "open" ELSE m.kind

\* The commands at a control point.
Fitting(m, p) ==
    /\ p \in {"none", "recv", "wait", "exit"} => m = NoCmd
    /\ p = "find" => m.op = "open" \/ InModule(m)
    /\ p \in {"build", "insert", "inserting"} => m.op \in Creates
    /\ p = "type" => m.op \in Users
    /\ p = "ptr" => m.op \in Users \/ InModule(m)
    /\ p = "xtype" => Listed(m) /\ m.as = "module"
    /\ p \in {"xptr", "list"} => Listed(m)
    /\ p \in {"ctype", "cptr", "delete", "erase", "erasing"} => m.op = "close" \/ Listed(m)
    /\ p = "iter" => m.op \in Moves
    /\ p \in {"lock", "locked", "fill", "scan"} => m.op \in Queries
    /\ p \in Brief \cup {"mem"} => m.op = p

\* Commands that use a handle carry one.
Proper(m) == (m.op = "none" => m = NoCmd) /\ (m.op \in Users => m.h \in Handles)

\* What goes with the control point of a thread.
ControlOf(t) ==
    /\ Fitting(cmd[t], pc[t])
    /\ t \in mutating <=> pc[t] \in {"inserting", "erasing"}
    /\ pc[t] \in {"insert", "inserting", "locked", "fill", "scan"} => ptr[t] \in Objs
    /\ pc[t] \in {"inserting", "erasing"} => hnd[t] \in Handles
    /\ pc[t] # "none" => currentsocket[t] \in Fds
    /\ pc[t] = "wait" => from[t] \in Conns
    /\ Proper(cmd[t])
ControlInv ==
    /\ \A c \in Conns : Proper(msg[c])
    /\ \A t \in Conns : ControlOf(t)

\* Holds for every client.
BaseInv == TypesInv /\ ControlInv /\ LocksHeld

-----------------------------------------------------------------------------
(* What answers and closed sockets leave of the types.                     *)

\* What an answer changes.
LEMMA AnswerIs ==
    ASSUME ClientTypes, NEW t \in Conns, NEW hs \in SUBSET (Handles \cup {0}), NEW ok, Answer(t, hs, ok)
    PROVE  /\ ClientTypes' <=> ops' \in Profiles /\ young' \in BOOLEAN
           /\ up' \in BOOLEAN
           /\ Delivered(t) => /\ \A c \in Conns : pending'[c] = IF c = Peer(t) THEN "none" ELSE pending[c]
                              /\ \A c \in Conns : tail'[c] = IF c = Peer(t) THEN Listed(cmd[t]) ELSE tail[c]
           /\ ~ Delivered(t) => UNCHANGED <<pending, tail>>
           /\ UNCHANGED <<conn, msg, sock>>
<1>1. up' \in BOOLEAN /\ UNCHANGED <<conn, msg, sock>>
  BY DEF Answer
<1>2. known' \subseteq Handles /\ lost' \subseteq Handles
  BY DEF Answer, ClientTypes
<1>3. ~ Delivered(t) => UNCHANGED <<pending, tail>>
  BY DEF Answer
<1>4. ASSUME Delivered(t)
      PROVE  /\ pending' = [pending EXCEPT ![Peer(t)] = "none"]
             /\ tail' = [tail EXCEPT ![Peer(t)] = Listed(cmd[t])]
  BY <1>4 DEF Answer
<1>5. pending' \in [Conns -> Operations \cup {"none"}]
  BY <1>3, <1>4 DEF ClientTypes
<1>6. Listed(cmd[t]) \in BOOLEAN
  BY DEF Listed
<1>7. tail' \in [Conns -> BOOLEAN]
  BY <1>3, <1>4, <1>6 DEF ClientTypes
<1>8. Delivered(t) => /\ \A c \in Conns : pending'[c] = IF c = Peer(t) THEN "none" ELSE pending[c]
                      /\ \A c \in Conns : tail'[c] = IF c = Peer(t) THEN Listed(cmd[t]) ELSE tail[c]
  BY <1>4 DEF ClientTypes
<1> QED  BY <1>1, <1>2, <1>3, <1>5, <1>7, <1>8 DEF ClientTypes

\* What the end of a connection changes.
LEMMA CloseIs ==
    ASSUME ClientTypes, ThreadTypes, NEW t \in Conns, CloseSocket(t)
    PROVE  /\ ClientTypes' <=> ops' \in Profiles /\ up' \in BOOLEAN /\ young' \in BOOLEAN
           /\ \A d \in Conns : conn'[d] <=> conn[d] /\ d # Peer(t)
           /\ UNCHANGED <<pending, tail, msg, known, lost>>
<1>1. conn' \in [Conns -> BOOLEAN] /\ \A d \in Conns : conn'[d] <=> conn[d] /\ d # Peer(t)
  BY DEF CloseSocket, ClientTypes
<1>2. sock' \in [Fds -> Conns \cup {None}]
  BY DEF CloseSocket, ClientTypes
<1>3. UNCHANGED <<pending, tail, msg, known, lost>>
  BY DEF CloseSocket
<1> QED  BY <1>1, <1>2, <1>3 DEF ClientTypes

-----------------------------------------------------------------------------
(* What the steps of a thread do to the variables of the threads.          *)

\* The other threads stay as they are.
Others(t) ==
    \A u \in Conns : u # t =>
        /\ pc'[u] = pc[u] /\ cmd'[u] = cmd[u] /\ hnd'[u] = hnd[u] /\ ht'[u] = ht[u] /\ ptr'[u] = ptr[u]
        /\ from'[u] = from[u] /\ currentsocket'[u] = currentsocket[u]

\* The variables of its handler are gone.
Returned(t) == cmd'[t] = NoCmd /\ hnd'[t] = 0 /\ ht'[t] = "empty" /\ ptr'[t] = None

\* They stay.
Kept(t) == cmd'[t] = cmd[t] /\ hnd'[t] = hnd[t] /\ ht'[t] = ht[t] /\ ptr'[t] = ptr[t]

\* So do its descriptor and what it waits on.
Placed(t) == currentsocket'[t] = currentsocket[t] /\ from'[t] = from[t]

\* What Recv does to the thread that takes it.
LEMMA AtRecv ==
    ASSUME ThreadTypes, NEW t \in Conns, Recv(t)
    PROVE  /\ Others(t)
           /\ pc[t] = "recv" /\ pc'[t] = IF Peer(t) = None THEN "exit" ELSE "wait"
           /\ Kept(t) /\ from'[t] = Peer(t) /\ currentsocket'[t] = currentsocket[t]
  BY DEF Recv, Others, ThreadTypes, Kept

\* What RecvEnd does to the thread that takes it.
LEMMA AtRecvEnd ==
    ASSUME ThreadTypes, NEW t \in Conns, RecvEnd(t)
    PROVE  /\ Others(t)
           /\ pc[t] = "wait" /\ pc'[t] = "exit"
           /\ Kept(t) /\ from'[t] = None /\ currentsocket'[t] = currentsocket[t]
  BY DEF RecvEnd, Others, ThreadTypes, Kept

\* What Exit does to the thread that takes it.
LEMMA AtExit ==
    ASSUME ThreadTypes, NEW t \in Conns, Exit(t)
    PROVE  /\ Others(t)
           /\ pc[t] = "exit" /\ pc'[t] = "none" /\ Kept(t)
  BY DEF Exit, Others, ThreadTypes, Kept

\* What Dispatch does to the thread that takes it.
LEMMA AtDispatch ==
    ASSUME ThreadTypes, NEW t \in Conns, Dispatch(t)
    PROVE  /\ Others(t)
           /\ pc[t] = "wait" /\ pc'[t] = Entry(msg[from[t]]) /\ cmd'[t] = msg[from[t]]
           /\ hnd'[t] = msg[from[t]].h /\ ht'[t] = ht[t] /\ ptr'[t] = ptr[t]
           /\ currentsocket'[t] = currentsocket[t] /\ from'[t] = None
  BY DEF Dispatch, Others, ThreadTypes

\* What HangUp does to the thread that takes it.
LEMMA AtHangUp ==
    ASSUME ThreadTypes, NEW t \in Conns, HangUp(t)
    PROVE  /\ Others(t)
           /\ pc[t] \in {"bye", "nopath", "cutclose"} /\ pc'[t] = "recv"
           /\ Returned(t) /\ Placed(t)
  BY DEF HangUp, Others, ThreadTypes, Returned, Return, Placed

\* What Terminate does to the thread that takes it.
LEMMA AtTerminate ==
    ASSUME ThreadTypes, NEW t \in Conns, Terminate(t)
    PROVE  /\ Others(t)
           /\ pc[t] = "term" /\ pc'[t] = "term" /\ Kept(t) /\ Placed(t)
  BY DEF Terminate, Others, ThreadTypes, threadVars, Kept, Placed

\* What Info does to the thread that takes it.
LEMMA AtInfo ==
    ASSUME ThreadTypes, NEW t \in Conns, Info(t)
    PROVE  /\ Others(t)
           /\ pc[t] \in {"info", "aob", "cut"} /\ pc'[t] = "recv"
           /\ Returned(t) /\ Placed(t)
  BY DEF Info, Others, ThreadTypes, Returned, Return, Placed

\* What FindPid does to the thread that takes it.
LEMMA AtFindPid ==
    ASSUME ThreadTypes, NEW t \in Conns, FindPid(t)
    PROVE  /\ Others(t)
           /\ pc[t] = "find" /\ Placed(t)
           /\ IF (FindHandleByPID(cmd[t].pid) # 0) = (cmd[t].op = "open")
              THEN pc'[t] = "recv" /\ Returned(t)
              ELSE /\ pc'[t] = IF FindHandleByPID(cmd[t].pid) = 0 THEN "build" ELSE "ptr"
                   /\ hnd'[t] = FindHandleByPID(cmd[t].pid)
                   /\ cmd'[t] = cmd[t] /\ ht'[t] = ht[t] /\ ptr'[t] = ptr[t]
<1>1. CASE (FindHandleByPID(cmd[t].pid) # 0) = (cmd[t].op = "open")
  BY <1>1 DEF FindPid, Others, ThreadTypes, Returned, Return, Placed
<1>2. CASE ~ ((FindHandleByPID(cmd[t].pid) # 0) = (cmd[t].op = "open"))
  BY <1>2 DEF FindPid, Others, ThreadTypes, Placed
<1> QED  BY <1>1, <1>2

\* What GetHandleType does to the thread that takes it.
LEMMA AtGetHandleType ==
    ASSUME ThreadTypes, NEW t \in Conns, GetHandleType(t)
    PROVE  /\ Others(t)
           /\ pc[t] \in {"type", "ctype", "xtype"} /\ Placed(t)
           /\ \E e \in Find(t, hnd[t]) :
                 \/ /\ pc[t] # "ctype" /\ e.type # Wanted(cmd[t])
                    /\ IF pc[t] = "xtype" THEN pc'[t] = "ctype" /\ Kept(t) ELSE pc'[t] = "recv" /\ Returned(t)
                 \/ /\ pc[t] = "ctype" \/ e.type = Wanted(cmd[t])
                    /\ pc'[t] = Typed[pc[t]] /\ ht'[t] = e.type
                    /\ cmd'[t] = cmd[t] /\ hnd'[t] = hnd[t] /\ ptr'[t] = ptr[t]
<1>1. PICK e \in Find(t, hnd[t]) :
          IF pc[t] # "ctype" /\ e.type # Wanted(cmd[t])
          THEN IF pc[t] = "xtype" THEN GoOn(t, "ctype") ELSE Return(t)
          ELSE /\ ht' = [ht EXCEPT ![t] = e.type] /\ pc' = [pc EXCEPT ![t] = Typed[@]]
               /\ UNCHANGED <<cmd, hnd, ptr>>
  BY DEF GetHandleType
<1>2. pc[t] \in {"type", "ctype", "xtype"} /\ UNCHANGED <<currentsocket, from>>
  BY DEF GetHandleType
<1>3. CASE pc[t] # "ctype" /\ e.type # Wanted(cmd[t]) /\ pc[t] = "xtype"
  <2>1. GoOn(t, "ctype")
    BY <1>1, <1>3
  <2> QED  BY <1>2, <1>3, <2>1 DEF Others, ThreadTypes, Kept, GoOn, Placed
<1>4. CASE pc[t] # "ctype" /\ e.type # Wanted(cmd[t]) /\ pc[t] # "xtype"
  <2>1. Return(t)
    BY <1>1, <1>4
  <2> QED  BY <1>2, <1>4, <2>1 DEF Others, ThreadTypes, Returned, Return, Placed
<1>5. CASE pc[t] = "ctype" \/ e.type = Wanted(cmd[t])
  <2>1. /\ ht' = [ht EXCEPT ![t] = e.type] /\ pc' = [pc EXCEPT ![t] = Typed[@]]
        /\ UNCHANGED <<cmd, hnd, ptr>>
    BY <1>1, <1>5
  <2> QED  BY <1>2, <1>5, <2>1 DEF Others, ThreadTypes, Placed
<1> QED  BY <1>3, <1>4, <1>5

\* What GetPointerFromHandle does to the thread that takes it.
LEMMA AtGetPointerFromHandle ==
    ASSUME ThreadTypes, NEW t \in Conns, GetPointerFromHandle(t)
    PROVE  /\ Others(t)
           /\ pc[t] \in {"ptr", "cptr", "xptr"} /\ Placed(t)
           /\ \E e \in Find(t, hnd[t]) : ptr'[t] = e.p
           /\ pc'[t] = Use(t) /\ cmd'[t] = cmd[t] /\ hnd'[t] = hnd[t] /\ ht'[t] = ht[t]
  BY DEF GetPointerFromHandle, Others, ThreadTypes, Placed

\* What Build does to the thread that takes it.
LEMMA AtBuild ==
    ASSUME ThreadTypes, NEW t \in Conns, Build(t)
    PROVE  /\ Others(t)
           /\ pc[t] = "build" /\ Placed(t)
           /\ \/ FALSE \in Buildable(cmd[t]) /\ pc'[t] = "recv" /\ heap' = heap /\ Returned(t)
              \/ /\ TRUE \in Buildable(cmd[t]) /\ pc'[t] = "insert"
                 /\ ptr'[t] \in Objs /\ heap[ptr'[t]] = Freed
                 /\ cmd'[t] = cmd[t] /\ hnd'[t] = hnd[t] /\ ht'[t] = ht[t]
  BY DEF Build, Others, ThreadTypes, Returned, Return, Placed

\* What Insert does to the thread that takes it.
LEMMA AtInsert ==
    ASSUME ThreadTypes, NEW t \in Conns, Insert(t)
    PROVE  /\ Others(t)
           /\ pc[t] = "insert" /\ pc'[t] = "inserting" /\ Placed(t)
           /\ hnd'[t] \in Handles /\ Empty \in Find(t, hnd'[t])
           /\ cmd'[t] = cmd[t] /\ ht'[t] = ht[t] /\ ptr'[t] = ptr[t]
  BY DEF Insert, Others, ThreadTypes, Placed

\* What Inserted does to the thread that takes it.
LEMMA AtInserted ==
    ASSUME ThreadTypes, NEW t \in Conns, Inserted(t)
    PROVE  /\ Others(t)
           /\ pc[t] = "inserting" /\ Placed(t)
           /\ IF Listed(cmd[t]) THEN pc'[t] = AfterInsert(cmd[t]) /\ Kept(t) ELSE pc'[t] = "recv" /\ Returned(t)
<1>1. CASE Listed(cmd[t])
  BY <1>1 DEF Inserted, Others, ThreadTypes, Kept, GoOn, Placed
<1>2. CASE ~ Listed(cmd[t])
  BY <1>2 DEF Inserted, Others, ThreadTypes, Returned, Return, Placed
<1> QED  BY <1>1, <1>2

\* What List does to the thread that takes it.
LEMMA AtList ==
    ASSUME ThreadTypes, NEW t \in Conns, List(t)
    PROVE  /\ Others(t)
           /\ pc[t] = "list" /\ pc'[t] = "ctype" /\ Kept(t) /\ Placed(t)
  BY DEF List, Others, ThreadTypes, Kept, GoOn, Placed

\* What Delete does to the thread that takes it.
LEMMA AtDelete ==
    ASSUME ThreadTypes, NEW t \in Conns, Delete(t)
    PROVE  /\ Others(t)
           /\ pc[t] = "delete" /\ pc'[t] = "erase" /\ Kept(t) /\ Placed(t)
  BY DEF Delete, Others, ThreadTypes, Kept, Placed

\* What Erase does to the thread that takes it.
LEMMA AtErase ==
    ASSUME ThreadTypes, NEW t \in Conns, Erase(t)
    PROVE  /\ Others(t)
           /\ pc[t] = "erase" /\ Placed(t)
           /\ \/ /\ Empty \in Find(t, hnd[t]) /\ pc'[t] = "recv" /\ Returned(t)
                 /\ mutating' = mutating
              \/ /\ \E e \in Find(t, hnd[t]) : e # Empty
                 /\ pc'[t] = "erasing" /\ Kept(t) /\ mutating' = mutating \cup {t}
  BY DEF Erase, Others, ThreadTypes, CloseAnswer, Returned, Return, Kept, GoOn, Placed

\* What Erased does to the thread that takes it.
LEMMA AtErased ==
    ASSUME ThreadTypes, NEW t \in Conns, Erased(t)
    PROVE  /\ Others(t)
           /\ pc[t] = "erasing" /\ pc'[t] = "recv" /\ Returned(t) /\ Placed(t)
  BY DEF Erased, Others, ThreadTypes, CloseAnswer, Returned, Return, Placed

\* What Iterate does to the thread that takes it.
LEMMA AtIterate ==
    ASSUME ThreadTypes, NEW t \in Conns, Iterate(t)
    PROVE  /\ Others(t)
           /\ pc[t] = "iter" /\ pc'[t] = "recv" /\ Returned(t) /\ Placed(t)
  BY DEF Iterate, Others, ThreadTypes, Returned, Return, Placed

\* What Memory does to the thread that takes it.
LEMMA AtMemory ==
    ASSUME ThreadTypes, NEW t \in Conns, Memory(t)
    PROVE  /\ Others(t)
           /\ pc[t] = "mem" /\ pc'[t] = "recv" /\ Returned(t) /\ Placed(t)
  BY DEF Memory, Others, ThreadTypes, Returned, Return, Placed

\* What Lock does to the thread that takes it.
LEMMA AtLock ==
    ASSUME ThreadTypes, NEW t \in Conns, Lock(t)
    PROVE  /\ Others(t)
           /\ pc[t] = "lock" /\ Placed(t)
           /\ IF Live(t, "open") THEN pc'[t] = "locked" /\ Kept(t) ELSE pc'[t] = "recv" /\ Returned(t)
<1>1. CASE Live(t, "open")
  BY <1>1 DEF Lock, Others, ThreadTypes, Kept, GoOn, Placed
<1>2. CASE ~ Live(t, "open")
  BY <1>2 DEF Lock, Others, ThreadTypes, Returned, Return, Placed
<1> QED  BY <1>1, <1>2

\* What Check does to the thread that takes it.
LEMMA AtCheck ==
    ASSUME ThreadTypes, NEW t \in Conns, Check(t)
    PROVE  /\ Others(t)
           /\ pc[t] = "locked" /\ pc'[t] = IF Expired(t) THEN "fill" ELSE "scan"
           /\ Kept(t) /\ Placed(t)
  BY DEF Check, Others, ThreadTypes, Kept, Placed

\* What Fill does to the thread that takes it.
LEMMA AtFill ==
    ASSUME ThreadTypes, NEW t \in Conns, Fill(t)
    PROVE  /\ Others(t)
           /\ pc[t] = "fill" /\ Placed(t)
           /\ \/ pc'[t] = "scan" /\ Kept(t)
              \/ pc'[t] = "recv" /\ Returned(t)
  BY DEF Fill, Others, ThreadTypes, Returned, Return, Kept, GoOn, Placed

\* What Scan does to the thread that takes it.
LEMMA AtScan ==
    ASSUME ThreadTypes, NEW t \in Conns, Scan(t)
    PROVE  /\ Others(t)
           /\ pc[t] = "scan" /\ pc'[t] = "recv" /\ Returned(t) /\ Placed(t)
  BY DEF Scan, Others, ThreadTypes, Returned, Return, Placed


-----------------------------------------------------------------------------
(* Looking up handles.                                                     *)

\* A lookup finds the entry of the handle, while nobody changes the table.
LEMMA FindIs ==
    ASSUME TableTypes, NEW t, NEW h
    PROVE  /\ \A e \in Find(t, h) : e \in [p : Objs \cup {None}, type : Types]
           /\ mutating \ {t} = {} => Find(t, h) = {IF h \in Handles THEN table[h] ELSE Empty}
<1>1. Empty \in [p : Objs \cup {None}, type : Types]
  BY DEF Empty, Types
<1>2. h \in Handles => table[h] \in [p : Objs \cup {None}, type : Types]
  BY DEF TableTypes
<1> QED  BY <1>1, <1>2 DEF Find

\* FindHandleByPID gives the first handle of the process, or 0 if it has none.
LEMMA HandleOfPid ==
    ASSUME NEW p
    PROVE  LET h == FindHandleByPID(p)
           IN  /\ h \in Handles \cup {0}
               /\ h # 0 => h \in Handles /\ OfProcess(h, p) /\ \A g \in Handles : OfProcess(g, p) => h <= g
               /\ h = 0 => \A g \in Handles : ~ OfProcess(g, p)
<1> DEFINE T == {h \in Handles : OfProcess(h, p)}
<1>1. T \in SUBSET Nat /\ 0 \notin T
  BY NumbersAssumption
<1>2. CASE T = {}
  <2>1. \A g \in Handles : ~ OfProcess(g, p)
    BY <1>2
  <2> QED  BY <2>1, NumbersAssumption DEF FindHandleByPID
<1>3. CASE T # {}
  <2>1. PICK h \in T : \A g \in T : h <= g
    <3> HIDE DEF T
    <3> QED  BY <1>1, <1>3, LeastNat
  <2>2. \E g \in Handles : OfProcess(g, p)
    BY <2>1
  <2>3. \E g \in Handles : OfProcess(g, p) /\ \A l \in Handles : OfProcess(l, p) => g <= l
    BY <2>1
  <2>4. Lowest(p) \in Handles /\ OfProcess(Lowest(p), p) /\ \A g \in Handles : OfProcess(g, p) => Lowest(p) <= g
    BY <2>3 DEF Lowest
  <2>5. FindHandleByPID(p) = Lowest(p)
    BY <2>2 DEF FindHandleByPID
  <2>6. Lowest(p) # 0
    BY <2>4, NumbersAssumption
  <2> QED  BY <2>4, <2>5, <2>6
<1> QED  BY <1>2, <1>3

-----------------------------------------------------------------------------
(* Types, control and locks, for every client.                             *)

\* The command of a thread between commands.
LEMMA NoCmdIs == NoCmd \in Cmds /\ NoCmd.op = "none" /\ Proper(NoCmd)
  BY NumbersAssumption DEF NoCmd, Command, Cmds, Kinds, Proper, Users

\* A thread whose own control is right after its step leaves ControlInv true.
LEMMA ControlKept ==
    ASSUME ControlInv, NEW t \in Conns, Others(t), ControlOf(t)',
           \A u \in Conns : u # t => (u \in mutating' <=> u \in mutating),
           \A c \in Conns : msg'[c] = msg[c] \/ msg'[c] = NoCmd
    PROVE  ControlInv'
<1>1. ASSUME NEW u \in Conns  PROVE ControlOf(u)'
  <2>1. CASE u = t
    BY <2>1
  <2>2. CASE u # t
    <3>1. ControlOf(u)
      BY DEF ControlInv
    <3> QED  BY <2>2, <3>1 DEF ControlOf, Others
  <2> QED  BY <2>1, <2>2
<1>2. \A c \in Conns : Proper(msg'[c])
  BY NoCmdIs DEF ControlInv
<1> QED  BY <1>1, <1>2 DEF ControlInv

\* A step that takes and releases only the lock of its own thread.
LEMMA LocksKept ==
    ASSUME LocksHeld, HeapTyped, HeapTyped', NEW t \in Conns, Others(t),
           \A o \in Objs : heap'[o].lock = t => pc'[t] \in {"locked", "fill", "scan"} /\ ptr'[t] = o,
           \A o \in Objs : heap'[o].lock \in {None, t, heap[o].lock}
    PROVE  LocksHeld'
<1> SUFFICES ASSUME NEW o \in Objs, heap'[o].lock # None
             PROVE  pc'[heap'[o].lock] \in {"locked", "fill", "scan"} /\ ptr'[heap'[o].lock] = o
  BY DEF LocksHeld
<1>1. CASE heap'[o].lock = t
  BY <1>1
<1>2. CASE heap'[o].lock # t
  <2>1. heap'[o].lock = heap[o].lock /\ heap[o].lock \in Conns
    BY <1>2 DEF HeapTyped, HeapTypes
  <2> QED  BY <1>2, <2>1 DEF LocksHeld, Others
<1> QED  BY <1>1, <1>2

\* A step of a thread that holds no lock and takes none.
LEMMA LocksSame ==
    ASSUME LocksHeld, HeapTyped, HeapTyped', NEW t \in Conns, Others(t),
           pc[t] \notin {"locked", "fill", "scan"},
           \A o \in Objs : heap'[o].lock \in {None, heap[o].lock}
    PROVE  LocksHeld'
<1>1. \A o \in Objs : heap'[o].lock # t
  BY NoneAssumption DEF LocksHeld
<1> QED  BY <1>1, LocksKept

-----------------------------------------------------------------------------
(* What the steps of a thread do to the heap.                              *)

\* Lock takes the lock of the object.
LEMMA HeapLock ==
    ASSUME HeapTyped, ThreadTypes, NEW t \in Conns, Lock(t), Live(t, "open")
    PROVE  LET o == ptr[t]
           IN  /\ o \in Objs /\ HeapTyped' /\ \A q \in Objs : q # o => heap'[q] = heap[q]
               /\ heap'[o].lock = t
               /\ heap'[o].type = heap[o].type /\ heap'[o].pid = heap[o].pid /\ heap'[o].len = heap[o].len
               /\ heap'[o].iter = heap[o].iter /\ heap'[o].maps = heap[o].maps /\ heap'[o].time = heap[o].time
<1> DEFINE o == ptr[t]
           r == [heap[o] EXCEPT !.lock = t]
<1>1. o \in Objs
  BY DEF Lock, Live
<1>2. heap[o] \in HeapTypes
  BY <1>1 DEF HeapTyped
<1>3. /\ r \in HeapTypes
      /\ r.lock = t
      /\ r.type = heap[o].type /\ r.pid = heap[o].pid /\ r.len = heap[o].len
      /\ r.iter = heap[o].iter /\ r.maps = heap[o].maps /\ r.time = heap[o].time
  BY <1>2 DEF HeapTypes
<1>4. heap' = [heap EXCEPT ![o] = r]
  BY <1>1 DEF Lock, GoOn, Return, Live, HeapTyped
<1> HIDE DEF r, o
<1>5. HeapTyped' /\ heap'[o] = r /\ \A q \in Objs : q # o => heap'[q] = heap[q]
  BY <1>1, <1>3, <1>4 DEF HeapTyped
<1> QED  BY <1>1, <1>3, <1>5 DEF o

\* Check clears a list that has expired.
LEMMA HeapCheck ==
    ASSUME HeapTyped, ThreadTypes, NEW t \in Conns, Check(t), Expired(t), ptr[t] \in Objs
    PROVE  LET o == ptr[t]
           IN  /\ o \in Objs /\ HeapTyped' /\ \A q \in Objs : q # o => heap'[q] = heap[q]
               /\ heap'[o].maps = FALSE
               /\ heap'[o].type = heap[o].type /\ heap'[o].pid = heap[o].pid /\ heap'[o].len = heap[o].len
               /\ heap'[o].iter = heap[o].iter /\ heap'[o].lock = heap[o].lock /\ heap'[o].time = heap[o].time
<1> DEFINE o == ptr[t]
           r == [heap[o] EXCEPT !.maps = FALSE]
<1>1. o \in Objs
  BY DEF Check
<1>2. heap[o] \in HeapTypes
  BY <1>1 DEF HeapTyped
<1>3. /\ r \in HeapTypes
      /\ r.maps = FALSE
      /\ r.type = heap[o].type /\ r.pid = heap[o].pid /\ r.len = heap[o].len
      /\ r.iter = heap[o].iter /\ r.lock = heap[o].lock /\ r.time = heap[o].time
  BY <1>2 DEF HeapTypes
<1>4. heap' = [heap EXCEPT ![o] = r]
  BY <1>1 DEF Check, HeapTyped
<1> HIDE DEF r, o
<1>5. HeapTyped' /\ heap'[o] = r /\ \A q \in Objs : q # o => heap'[q] = heap[q]
  BY <1>1, <1>3, <1>4 DEF HeapTyped
<1> QED  BY <1>1, <1>3, <1>5 DEF o

\* Fill puts the list of the driver into the cache.
LEMMA HeapFill ==
    ASSUME HeapTyped, ThreadTypes, NEW t \in Conns, Fill(t), pc'[t] = "scan", ptr[t] \in Objs
    PROVE  LET o == ptr[t]
           IN  /\ o \in Objs /\ HeapTyped' /\ \A q \in Objs : q # o => heap'[q] = heap[q]
               /\ heap'[o].maps = TRUE /\ heap'[o].time = "recent"
               /\ heap'[o].type = heap[o].type /\ heap'[o].pid = heap[o].pid /\ heap'[o].len = heap[o].len
               /\ heap'[o].iter = heap[o].iter /\ heap'[o].lock = heap[o].lock
<1> DEFINE o == ptr[t]
           r == [heap[o] EXCEPT !.maps = TRUE, !.time = "recent"]
<1>1. o \in Objs
  BY DEF Fill, GoOn, Return, ThreadTypes
<1>2. heap[o] \in HeapTypes
  BY <1>1 DEF HeapTyped
<1>3. /\ r \in HeapTypes
      /\ r.maps = TRUE /\ r.time = "recent"
      /\ r.type = heap[o].type /\ r.pid = heap[o].pid /\ r.len = heap[o].len
      /\ r.iter = heap[o].iter /\ r.lock = heap[o].lock
  BY <1>2 DEF HeapTypes
<1>4. heap' = [heap EXCEPT ![o] = r]
  BY <1>1 DEF Fill, GoOn, Return, ThreadTypes, HeapTyped
<1> HIDE DEF r, o
<1>5. HeapTyped' /\ heap'[o] = r /\ \A q \in Objs : q # o => heap'[q] = heap[q]
  BY <1>1, <1>3, <1>4 DEF HeapTyped
<1> QED  BY <1>1, <1>3, <1>5 DEF o

\* When the driver fails, the cache counts as never fetched.
LEMMA HeapFillFailed ==
    ASSUME HeapTyped, ThreadTypes, NEW t \in Conns, Fill(t), pc'[t] # "scan", ptr[t] \in Objs
    PROVE  LET o == ptr[t]
           IN  /\ o \in Objs /\ HeapTyped' /\ \A q \in Objs : q # o => heap'[q] = heap[q]
               /\ heap'[o].time = "zero" /\ heap'[o].lock = None
               /\ heap'[o].type = heap[o].type /\ heap'[o].pid = heap[o].pid /\ heap'[o].len = heap[o].len
               /\ heap'[o].iter = heap[o].iter /\ heap'[o].maps = heap[o].maps
<1> DEFINE o == ptr[t]
           r == [heap[o] EXCEPT !.time = "zero", !.lock = None]
<1>1. o \in Objs
  BY DEF Fill, GoOn, Return, FailedTime, ThreadTypes
<1>2. heap[o] \in HeapTypes
  BY <1>1 DEF HeapTyped
<1>3. /\ r \in HeapTypes
      /\ r.time = "zero" /\ r.lock = None
      /\ r.type = heap[o].type /\ r.pid = heap[o].pid /\ r.len = heap[o].len
      /\ r.iter = heap[o].iter /\ r.maps = heap[o].maps
  BY <1>2 DEF HeapTypes
<1>4. heap' = [heap EXCEPT ![o] = r]
  BY <1>1 DEF Fill, GoOn, Return, FailedTime, ThreadTypes, HeapTyped
<1> HIDE DEF r, o
<1>5. HeapTyped' /\ heap'[o] = r /\ \A q \in Objs : q # o => heap'[q] = heap[q]
  BY <1>1, <1>3, <1>4 DEF HeapTyped
<1> QED  BY <1>1, <1>3, <1>5 DEF o

\* Scan releases the lock.
LEMMA HeapScan ==
    ASSUME HeapTyped, ThreadTypes, NEW t \in Conns, Scan(t), ptr[t] \in Objs
    PROVE  LET o == ptr[t]
           IN  /\ o \in Objs /\ HeapTyped' /\ \A q \in Objs : q # o => heap'[q] = heap[q]
               /\ heap'[o].lock = None
               /\ heap'[o].type = heap[o].type /\ heap'[o].pid = heap[o].pid /\ heap'[o].len = heap[o].len
               /\ heap'[o].iter = heap[o].iter /\ heap'[o].maps = heap[o].maps /\ heap'[o].time = heap[o].time
<1> DEFINE o == ptr[t]
           r == [heap[o] EXCEPT !.lock = None]
<1>1. o \in Objs
  BY DEF Scan, Unlocked
<1>2. heap[o] \in HeapTypes
  BY <1>1 DEF HeapTyped
<1>3. /\ r \in HeapTypes
      /\ r.lock = None
      /\ r.type = heap[o].type /\ r.pid = heap[o].pid /\ r.len = heap[o].len
      /\ r.iter = heap[o].iter /\ r.maps = heap[o].maps /\ r.time = heap[o].time
  BY <1>2 DEF HeapTypes
<1>4. heap' = [heap EXCEPT ![o] = r]
  BY <1>1 DEF Scan, Unlocked, HeapTyped
<1> HIDE DEF r, o
<1>5. HeapTyped' /\ heap'[o] = r /\ \A q \in Objs : q # o => heap'[q] = heap[q]
  BY <1>1, <1>3, <1>4 DEF HeapTyped
<1> QED  BY <1>1, <1>3, <1>5 DEF o

\* The list of modules is sent to its end.
LEMMA HeapList ==
    ASSUME HeapTyped, ThreadTypes, NEW t \in Conns, List(t), cmd[t].as = "module", Live(t, "module")
    PROVE  LET o == ptr[t]
           IN  /\ o \in Objs /\ HeapTyped' /\ \A q \in Objs : q # o => heap'[q] = heap[q]
               /\ heap'[o].iter = heap[o].len
               /\ heap'[o].type = heap[o].type /\ heap'[o].pid = heap[o].pid /\ heap'[o].len = heap[o].len
               /\ heap'[o].lock = heap[o].lock /\ heap'[o].maps = heap[o].maps /\ heap'[o].time = heap[o].time
<1> DEFINE o == ptr[t]
           r == [heap[o] EXCEPT !.iter = heap[o].len]
<1>1. o \in Objs
  BY DEF List, Live
<1>2. heap[o] \in HeapTypes
  BY <1>1 DEF HeapTyped
<1>3. /\ r \in HeapTypes
      /\ r.iter = heap[o].len
      /\ r.type = heap[o].type /\ r.pid = heap[o].pid /\ r.len = heap[o].len
      /\ r.lock = heap[o].lock /\ r.maps = heap[o].maps /\ r.time = heap[o].time
  <2>1. heap[o].len \in 0..(MaxLen + 1)
    BY <1>2, NumbersAssumption DEF HeapTypes
  <2> QED  BY <1>2, <2>1 DEF HeapTypes
<1>4. heap' = [heap EXCEPT ![o] = r]
  BY <1>1 DEF List, Live, HeapTyped
<1> HIDE DEF r, o
<1>5. HeapTyped' /\ heap'[o] = r /\ \A q \in Objs : q # o => heap'[q] = heap[q]
  BY <1>1, <1>3, <1>4 DEF HeapTyped
<1> QED  BY <1>1, <1>3, <1>5 DEF o

\* An iterator is rewound or advanced.
LEMMA HeapIterate ==
    ASSUME HeapTyped, ThreadTypes, NEW t \in Conns, Iterate(t), Live(t, cmd[t].kind)
    PROVE  LET o == ptr[t]
           IN  /\ o \in Objs /\ HeapTyped' /\ \A q \in Objs : q # o => heap'[q] = heap[q]
               /\ heap'[o].iter = NewIter(t)
               /\ heap'[o].type = heap[o].type /\ heap'[o].pid = heap[o].pid /\ heap'[o].len = heap[o].len
               /\ heap'[o].lock = heap[o].lock /\ heap'[o].maps = heap[o].maps /\ heap'[o].time = heap[o].time
<1> DEFINE o == ptr[t]
           r == [heap[o] EXCEPT !.iter = NewIter(t)]
<1>1. o \in Objs
  BY DEF Iterate, Live
<1>2. heap[o] \in HeapTypes
  BY <1>1 DEF HeapTyped
<1>3. /\ r \in HeapTypes
      /\ r.iter = NewIter(t)
      /\ r.type = heap[o].type /\ r.pid = heap[o].pid /\ r.len = heap[o].len
      /\ r.lock = heap[o].lock /\ r.maps = heap[o].maps /\ r.time = heap[o].time
  <2>1. NewIter(t) \in 0..(MaxLen + 1)
    <3>1. heap[ptr[t]].iter \in 0..(MaxLen + 1) /\ MaxLen \in Nat
      BY <1>2, NumbersAssumption DEF HeapTypes
    <3> QED  BY <3>1 DEF NewIter
  <2> QED  BY <1>2, <2>1 DEF HeapTypes
<1>4. heap' = [heap EXCEPT ![o] = r]
  BY <1>1 DEF Iterate, Live, HeapTyped
<1> HIDE DEF r, o
<1>5. HeapTyped' /\ heap'[o] = r /\ \A q \in Objs : q # o => heap'[q] = heap[q]
  BY <1>1, <1>3, <1>4 DEF HeapTyped
<1> QED  BY <1>1, <1>3, <1>5 DEF o

\* A cache grows old.
LEMMA HeapAge ==
    ASSUME HeapTyped, NEW obj \in Objs, Age(obj)
    PROVE  LET o == obj
           IN  /\ o \in Objs /\ HeapTyped' /\ \A q \in Objs : q # o => heap'[q] = heap[q]
               /\ heap'[o].time = "old"
               /\ heap'[o].type = heap[o].type /\ heap'[o].pid = heap[o].pid /\ heap'[o].len = heap[o].len
               /\ heap'[o].iter = heap[o].iter /\ heap'[o].lock = heap[o].lock /\ heap'[o].maps = heap[o].maps
<1> DEFINE o == obj
           r == [heap[o] EXCEPT !.time = "old"]
<1>1. o \in Objs
  BY DEF Age
<1>2. heap[o] \in HeapTypes
  BY <1>1 DEF HeapTyped
<1>3. /\ r \in HeapTypes
      /\ r.time = "old"
      /\ r.type = heap[o].type /\ r.pid = heap[o].pid /\ r.len = heap[o].len
      /\ r.iter = heap[o].iter /\ r.lock = heap[o].lock /\ r.maps = heap[o].maps
  BY <1>2 DEF HeapTypes
<1>4. heap' = [heap EXCEPT ![o] = r]
  BY <1>1 DEF Age, HeapTyped
<1> HIDE DEF r, o
<1>5. HeapTyped' /\ heap'[o] = r /\ \A q \in Objs : q # o => heap'[q] = heap[q]
  BY <1>1, <1>3, <1>4 DEF HeapTyped
<1> QED  BY <1>1, <1>3, <1>5 DEF o

\* An object that is free or has been deleted.
LEMMA FreedIs == Freed \in HeapTypes
  BY NumbersAssumption, NoneAssumption DEF Freed, Object, HeapTypes, Types

\* Build allocates an object.
LEMMA HeapBuild ==
    ASSUME HeapTyped, ThreadTypes, NEW t \in Conns, Build(t), pc'[t] = "insert"
    PROVE  LET o == ptr'[t]
           IN  /\ o \in Objs /\ heap[o] = Freed /\ TRUE \in Buildable(cmd[t])
               /\ HeapTyped' /\ \A q \in Objs : q # o => heap'[q] = heap[q]
               /\ heap'[o].type = NewType(cmd[t]) /\ (cmd[t].op = "open" => heap'[o].pid = cmd[t].pid)
               /\ heap'[o].iter = 0 /\ heap'[o].lock = None /\ heap'[o].time = "zero"
<1> DEFINE m == cmd[t]
<1>1. m \in Cmds
  BY DEF ThreadTypes
<1>2. PICK o \in Objs, n \in Lengths(m) :
          /\ heap[o] = Freed /\ TRUE \in Buildable(m)
          /\ heap' = [heap EXCEPT ![o] = IF m.op = "open" THEN Object("open", m.pid, 0) ELSE Object(m.kind, 0, n)]
          /\ ptr' = [ptr EXCEPT ![t] = o]
  BY DEF Build, Return, ThreadTypes
<1>3. ptr'[t] = o /\ n \in 0..MaxLen
  BY <1>2, NumbersAssumption DEF ThreadTypes, Lengths
<1> DEFINE r == IF m.op = "open" THEN Object("open", m.pid, 0) ELSE Object(m.kind, 0, n)
<1>4. /\ r \in HeapTypes
      /\ r.type = NewType(m) /\ (m.op = "open" => r.pid = m.pid)
      /\ r.iter = 0 /\ r.lock = None /\ r.time = "zero"
  <2>1. m.pid \in Pids \cup {0} /\ m.kind \in Types /\ 0 \in 0..MaxLen /\ 0 \in 0..(MaxLen + 1) /\ "open" \in Types
    BY <1>1, NumbersAssumption DEF Cmds, Types
  <2> QED  BY <1>3, <2>1 DEF Object, HeapTypes, NewType
<1>5. heap' = [heap EXCEPT ![o] = r]
  BY <1>2
<1> HIDE DEF r
<1>6. HeapTyped' /\ heap'[o] = r /\ \A q \in Objs : q # o => heap'[q] = heap[q]
  BY <1>4, <1>5 DEF HeapTyped
<1> QED  BY <1>2, <1>3, <1>4, <1>6

\* Delete frees the object, if the handle was in the table.
LEMMA HeapDelete ==
    ASSUME HeapTyped, ThreadTypes, NEW t \in Conns, Delete(t)
    PROVE  /\ HeapTyped' /\ \A q \in Objs : q # ptr[t] => heap'[q] = heap[q]
           /\ ptr[t] \in Objs => heap'[ptr[t]] = IF ht[t] # "empty" THEN Freed ELSE heap[ptr[t]]
<1>1. Freed \in HeapTypes
  BY FreedIs
<1> QED  BY <1>1 DEF Delete, HeapTyped


\* Where the handlers of commands begin, and where pointers are used.
Entries == {"find", "build", "type", "ctype"} \cup Brief
Uses    == {"delete", "list", "build", "iter", "lock", "mem"}

\* A command is dispatched to a handler for it.
LEMMA EntryIs ==
    ASSUME NEW m \in Cmds, m.op # "none"
    PROVE  Entry(m) \in Entries /\ Entry(m) \in PCs /\ Fitting(m, Entry(m))
<1>1. m.op \in {"open", "close", "snap", "snapex", "first", "next", "mem", "query", "queryfull",
                 "info", "aob", "nopath", "bye", "term", "cut", "cutclose"}
  BY DEF Cmds, Operations
<1>2. Entry(m) \in Entries
  BY <1>1 DEF Entry, Entries, Brief
<1>3. Entry(m) \in PCs
  BY <1>2 DEF Entries, Brief, PCs
<1>4. Fitting(m, Entry(m))
  BY <1>1 DEF Entry, Fitting, InModule, Creates, Users, Moves, Queries, Brief
<1> QED  BY <1>2, <1>3, <1>4

\* A pointer is used as the command calls for.
LEMMA UseIs ==
    ASSUME NEW t \in Conns, pc[t] \in {"ptr", "cptr", "xptr"}, Fitting(cmd[t], pc[t])
    PROVE  Use(t) \in Uses /\ Use(t) \in PCs /\ Fitting(cmd[t], Use(t))
<1>1. Use(t) \in Uses
  BY DEF Use, Uses, Fitting, InModule, Users, Moves, Queries
<1>2. Use(t) \in PCs
  BY <1>1 DEF Uses, PCs
<1>3. Fitting(cmd[t], Use(t))
  BY DEF Use, Fitting, InModule, Users, Moves, Queries, Creates, Brief
<1> QED  BY <1>1, <1>2, <1>3

\* What the end of a handler leaves.
LEMMA ReturnKeeps ==
    ASSUME ThreadTypes, ControlInv, NEW t \in Conns, Return(t), UNCHANGED <<currentsocket, from>>, pc[t] # "none"
    PROVE  /\ ThreadTypes'
           /\ t \notin mutating' => ControlOf(t)'
<1>1. ThreadTypes'
  BY NoCmdIs DEF Return, ThreadTypes, PCs, Types
<1>2. pc'[t] = "recv" /\ cmd'[t] = NoCmd /\ currentsocket'[t] \in Fds
  BY DEF Return, ThreadTypes, ControlInv, ControlOf
<1> QED  BY <1>1, <1>2, NoCmdIs DEF ControlOf, Fitting, Brief

\* What a handler keeps that goes on.
LEMMA GoOnKeeps ==
    ASSUME ThreadTypes, NEW t \in Conns, NEW p \in PCs, GoOn(t, p), UNCHANGED <<currentsocket, from>>
    PROVE  ThreadTypes'
  BY DEF GoOn, ThreadTypes

\* A step that sends nothing keeps the types of the client's variables.
LEMMA SilenceKeeps ==
    ASSUME ClientTypes, Silence, UNCHANGED <<ops, young>>
    PROVE  ClientTypes' /\ UNCHANGED <<conn, pending, tail, msg, known, lost, up, sock>>
  BY DEF Silence, clientVars, ClientTypes

\* A step of thread t keeps BaseInv if it keeps its parts.
LEMMA BaseKept ==
    ASSUME BaseInv, NEW t \in Conns, Others(t), ClientTypes', TableTypes', HeapTyped', ThreadTypes', LocksHeld',
           ControlOf(t)', \A u \in Conns : u # t => (u \in mutating' <=> u \in mutating),
           \A c \in Conns : msg'[c] = msg[c] \/ msg'[c] = NoCmd
    PROVE  BaseInv'
<1>1. ControlInv'
  BY ControlKept DEF BaseInv
<1> QED  BY <1>1 DEF BaseInv, TypesInv

\* Recv keeps BaseInv.
LEMMA BaseRecv ==
    ASSUME BaseInv, NEW t \in Conns, Recv(t)
    PROVE  BaseInv'
<1>0. ClientTypes /\ TableTypes /\ HeapTyped /\ ThreadTypes /\ ControlInv /\ ControlOf(t) /\ LocksHeld
  BY DEF BaseInv, TypesInv, ControlInv
<1>1. ClientTypes' /\ \A c \in Conns : msg'[c] = msg[c] \/ msg'[c] = NoCmd
  BY <1>0 DEF Recv, ClientTypes, clientVars
<1>2. TableTypes' /\ \A u \in Conns : u # t => (u \in mutating' <=> u \in mutating)
  BY <1>0 DEF Recv, TableTypes, tableVars
<1>3. HeapTyped'
  BY <1>0 DEF Recv, HeapTyped
<1>4. ThreadTypes'
  BY <1>0 DEF Recv, Peer, ClientTypes, ThreadTypes, PCs, ControlOf
<1>5. ControlOf(t)'
  <2>1. Peer(t) \in Conns \cup {None}
    BY <1>0 DEF Recv, Peer, ClientTypes, ControlOf
  <2>2. pc[t] = "recv" /\ cmd[t] = NoCmd /\ Proper(cmd[t]) /\ currentsocket[t] \in Fds /\ t \notin mutating
    BY <1>0 DEF Recv, ControlOf, Fitting
  <2>3. /\ pc'[t] \in {"exit", "wait"} /\ cmd'[t] = cmd[t] /\ currentsocket'[t] = currentsocket[t]
        /\ t \notin mutating' /\ (pc'[t] = "wait" => from'[t] \in Conns)
    <3>1. mutating' = mutating
      BY DEF Recv, tableVars
    <3>2. /\ pc'[t] = IF Peer(t) = None THEN "exit" ELSE "wait"
          /\ cmd'[t] = cmd[t] /\ currentsocket'[t] = currentsocket[t] /\ from'[t] = Peer(t)
      BY <1>0, AtRecv DEF Kept
    <3> QED  BY <2>1, <2>2, <3>1, <3>2
  <2> QED  BY <2>2, <2>3 DEF ControlOf, Fitting, Brief
<1>6. LocksHeld'
  BY <1>0, <1>3, AtRecv, LocksSame DEF Recv
<1> QED  BY <1>0, <1>1, <1>2, <1>3, <1>4, <1>5, <1>6, AtRecv, BaseKept

\* RecvEnd keeps BaseInv.
LEMMA BaseRecvEnd ==
    ASSUME BaseInv, NEW t \in Conns, RecvEnd(t)
    PROVE  BaseInv'
<1>0. ClientTypes /\ TableTypes /\ HeapTyped /\ ThreadTypes /\ ControlInv /\ ControlOf(t) /\ LocksHeld
  BY DEF BaseInv, TypesInv, ControlInv
<1>1. ClientTypes' /\ \A c \in Conns : msg'[c] = msg[c] \/ msg'[c] = NoCmd
  BY <1>0 DEF RecvEnd, ClientTypes, clientVars
<1>2. TableTypes' /\ \A u \in Conns : u # t => (u \in mutating' <=> u \in mutating)
  BY <1>0 DEF RecvEnd, TableTypes, tableVars
<1>3. HeapTyped'
  BY <1>0 DEF RecvEnd, HeapTyped
<1>4. ThreadTypes'
  BY <1>0 DEF RecvEnd, ThreadTypes, PCs
<1>5. ControlOf(t)'
  BY <1>0, <1>4, AtRecvEnd DEF RecvEnd, ThreadTypes, Kept, Placed, tableVars, ControlOf, Fitting, Brief
<1>6. LocksHeld'
  BY <1>0, <1>3, AtRecvEnd, LocksSame DEF RecvEnd
<1> QED  BY <1>0, <1>1, <1>2, <1>3, <1>4, <1>5, <1>6, AtRecvEnd, BaseKept

\* Exit keeps BaseInv.
LEMMA BaseExit ==
    ASSUME BaseInv, NEW t \in Conns, Exit(t)
    PROVE  BaseInv'
<1>0. ClientTypes /\ TableTypes /\ HeapTyped /\ ThreadTypes /\ ControlInv /\ ControlOf(t) /\ LocksHeld
  BY DEF BaseInv, TypesInv, ControlInv
<1>1. ClientTypes' /\ \A c \in Conns : msg'[c] = msg[c] \/ msg'[c] = NoCmd
  BY <1>0, CloseIs DEF Exit, ClientTypes
<1>2. TableTypes' /\ \A u \in Conns : u # t => (u \in mutating' <=> u \in mutating)
  BY <1>0 DEF Exit, TableTypes, tableVars
<1>3. HeapTyped'
  BY <1>0 DEF Exit, HeapTyped
<1>4. ThreadTypes'
  BY <1>0 DEF Exit, ThreadTypes, PCs
<1>5. ControlOf(t)'
  BY <1>0, AtExit DEF Exit, Kept, tableVars, ControlOf, Fitting, Brief
<1>6. LocksHeld'
  BY <1>0, <1>3, AtExit, LocksSame DEF Exit
<1> QED  BY <1>0, <1>1, <1>2, <1>3, <1>4, <1>5, <1>6, AtExit, BaseKept

\* Dispatch keeps BaseInv.
LEMMA BaseDispatch ==
    ASSUME BaseInv, NEW t \in Conns, Dispatch(t)
    PROVE  BaseInv'
<1>0. ClientTypes /\ TableTypes /\ HeapTyped /\ ThreadTypes /\ ControlInv /\ ControlOf(t) /\ LocksHeld
  BY DEF BaseInv, TypesInv, ControlInv
<1>7. LET m == msg[from[t]]
      IN  /\ m \in Cmds /\ Proper(m) /\ m.h \in Handles \cup {0}
          /\ Entry(m) \in Entries /\ Entry(m) \in PCs /\ Fitting(m, Entry(m))
  <2>1. from[t] \in Conns
    BY <1>0 DEF Dispatch, ControlOf
  <2>2. msg[from[t]] \in Cmds /\ Proper(msg[from[t]]) /\ msg[from[t]].op # "none"
    BY <1>0, <2>1 DEF Dispatch, ClientTypes, ControlInv, Proper
  <2> QED  BY <2>2, EntryIs DEF Cmds
<1>1. ClientTypes' /\ \A c \in Conns : msg'[c] = msg[c] \/ msg'[c] = NoCmd
  <2>1. NoCmd \in Cmds
    BY NoCmdIs
  <2> QED  BY <1>0, <2>1 DEF Dispatch, ClientTypes
<1>2. TableTypes' /\ \A u \in Conns : u # t => (u \in mutating' <=> u \in mutating)
  BY <1>0 DEF Dispatch, TableTypes, tableVars
<1>3. HeapTyped'
  BY <1>0 DEF Dispatch, HeapTyped
<1>4. ThreadTypes'
  BY <1>0, <1>7 DEF Dispatch, ThreadTypes
<1>5. ControlOf(t)'
  <2>1. t \notin mutating'
    BY <1>0 DEF Dispatch, ControlOf, tableVars
  <2> QED  BY <1>0, <1>7, <2>1, AtDispatch DEF ControlOf, Entries, Brief
<1>6. LocksHeld'
  BY <1>0, <1>3, AtDispatch, LocksSame DEF Dispatch
<1> QED  BY <1>0, <1>1, <1>2, <1>3, <1>4, <1>5, <1>6, AtDispatch, BaseKept

\* HangUp keeps BaseInv.
LEMMA BaseHangUp ==
    ASSUME BaseInv, NEW t \in Conns, HangUp(t)
    PROVE  BaseInv'
<1>0. ClientTypes /\ TableTypes /\ HeapTyped /\ ThreadTypes /\ ControlInv /\ ControlOf(t) /\ LocksHeld
  BY DEF BaseInv, TypesInv, ControlInv
<1>1. ClientTypes' /\ \A c \in Conns : msg'[c] = msg[c] \/ msg'[c] = NoCmd
  BY <1>0, CloseIs DEF HangUp, ClientTypes
<1>2. TableTypes' /\ \A u \in Conns : u # t => (u \in mutating' <=> u \in mutating)
  BY <1>0 DEF HangUp, TableTypes, tableVars
<1>3. HeapTyped'
  BY <1>0 DEF HangUp, HeapTyped
<1>4. ThreadTypes'
  BY <1>0, ReturnKeeps DEF HangUp
<1>5. ControlOf(t)'
  <2>1. t \notin mutating'
    BY <1>0 DEF HangUp, ControlOf, tableVars
  <2> QED  BY <1>0, <2>1, ReturnKeeps DEF HangUp
<1>6. LocksHeld'
  BY <1>0, <1>3, AtHangUp, LocksSame DEF HangUp
<1> QED  BY <1>0, <1>1, <1>2, <1>3, <1>4, <1>5, <1>6, AtHangUp, BaseKept

\* Terminate keeps BaseInv.
LEMMA BaseTerminate ==
    ASSUME BaseInv, NEW t \in Conns, Terminate(t)
    PROVE  BaseInv'
<1>0. ClientTypes /\ TableTypes /\ HeapTyped /\ ThreadTypes /\ ControlInv /\ ControlOf(t) /\ LocksHeld
  BY DEF BaseInv, TypesInv, ControlInv
<1>1. ClientTypes' /\ \A c \in Conns : msg'[c] = msg[c] \/ msg'[c] = NoCmd
  BY <1>0, CloseIs DEF Terminate, ClientTypes
<1>2. TableTypes' /\ \A u \in Conns : u # t => (u \in mutating' <=> u \in mutating)
  BY <1>0 DEF Terminate, TableTypes, tableVars
<1>3. HeapTyped'
  BY <1>0 DEF Terminate, HeapTyped
<1>4. ThreadTypes'
  BY <1>0 DEF Terminate, ThreadTypes, PCs, threadVars
<1>5. ControlOf(t)'
  BY <1>0 DEF Terminate, threadVars, tableVars, ControlOf
<1>6. LocksHeld'
  BY <1>0, <1>3, AtTerminate, LocksSame DEF Terminate
<1> QED  BY <1>0, <1>1, <1>2, <1>3, <1>4, <1>5, <1>6, AtTerminate, BaseKept

\* Info keeps BaseInv.
LEMMA BaseInfo ==
    ASSUME BaseInv, NEW t \in Conns, Info(t)
    PROVE  BaseInv'
<1>0. ClientTypes /\ TableTypes /\ HeapTyped /\ ThreadTypes /\ ControlInv /\ ControlOf(t) /\ LocksHeld
  BY DEF BaseInv, TypesInv, ControlInv
<1>1. ClientTypes' /\ \A c \in Conns : msg'[c] = msg[c] \/ msg'[c] = NoCmd
  <2>1. CASE pc[t] = "info"
    BY <1>0, <2>1, AnswerIs DEF Info, ClientTypes
  <2>2. CASE pc[t] # "info"
    BY <1>0, <2>2, SilenceKeeps DEF Info
  <2> QED  BY <2>1, <2>2
<1>2. TableTypes' /\ \A u \in Conns : u # t => (u \in mutating' <=> u \in mutating)
  BY <1>0 DEF Info, TableTypes, tableVars
<1>3. HeapTyped'
  BY <1>0 DEF Info, HeapTyped
<1>4. ThreadTypes'
  BY <1>0, ReturnKeeps DEF Info
<1>5. ControlOf(t)'
  <2>1. t \notin mutating'
    BY <1>0 DEF Info, ControlOf, tableVars
  <2> QED  BY <1>0, <2>1, ReturnKeeps DEF Info
<1>6. LocksHeld'
  BY <1>0, <1>3, AtInfo, LocksSame DEF Info
<1> QED  BY <1>0, <1>1, <1>2, <1>3, <1>4, <1>5, <1>6, AtInfo, BaseKept

\* FindPid keeps BaseInv.
LEMMA BaseFindPid ==
    ASSUME BaseInv, NEW t \in Conns, FindPid(t)
    PROVE  BaseInv'
<1>0. ClientTypes /\ TableTypes /\ HeapTyped /\ ThreadTypes /\ ControlInv /\ ControlOf(t) /\ LocksHeld
  BY DEF BaseInv, TypesInv, ControlInv
<1>1. ClientTypes' /\ \A c \in Conns : msg'[c] = msg[c] \/ msg'[c] = NoCmd
  <2>1. {FindHandleByPID(cmd[t].pid)} \in SUBSET (Handles \cup {0})
    BY HandleOfPid
  <2>2. CASE (FindHandleByPID(cmd[t].pid) # 0) = (cmd[t].op = "open")
    <3>1. PICK ok : Answer(t, {FindHandleByPID(cmd[t].pid)}, ok)
      BY <2>2 DEF FindPid
    <3> QED  BY <1>0, <2>1, <3>1, AnswerIs DEF FindPid, ClientTypes
  <2>3. CASE ~ ((FindHandleByPID(cmd[t].pid) # 0) = (cmd[t].op = "open"))
    <3>1. up' \in BOOLEAN
      BY <2>3 DEF FindPid
    <3> QED  BY <1>0, <2>3, <3>1 DEF FindPid, clientVars, ClientTypes
  <2> QED  BY <2>2, <2>3
<1>2. TableTypes' /\ \A u \in Conns : u # t => (u \in mutating' <=> u \in mutating)
  BY <1>0 DEF FindPid, TableTypes, tableVars
<1>3. HeapTyped'
  BY <1>0 DEF FindPid, HeapTyped
<1>4. ThreadTypes'
  <2>1. CASE (FindHandleByPID(cmd[t].pid) # 0) = (cmd[t].op = "open")
    BY <1>0, <2>1, ReturnKeeps DEF FindPid
  <2>2. CASE ~ ((FindHandleByPID(cmd[t].pid) # 0) = (cmd[t].op = "open"))
    BY <1>0, <2>2, HandleOfPid DEF FindPid, ThreadTypes, PCs
  <2> QED  BY <2>1, <2>2
<1>5. ControlOf(t)'
  <2>1. t \notin mutating'
    BY <1>0 DEF FindPid, ControlOf, tableVars
  <2>2. CASE (FindHandleByPID(cmd[t].pid) # 0) = (cmd[t].op = "open")
    BY <1>0, <2>1, <2>2, ReturnKeeps DEF FindPid
  <2>3. CASE ~ ((FindHandleByPID(cmd[t].pid) # 0) = (cmd[t].op = "open"))
    BY <1>0, <2>1, <2>3, AtFindPid DEF Placed, ControlOf, Fitting, Brief, Creates, InModule
  <2> QED  BY <2>2, <2>3
<1>6. LocksHeld'
  BY <1>0, <1>3, AtFindPid, LocksSame DEF FindPid
<1> QED  BY <1>0, <1>1, <1>2, <1>3, <1>4, <1>5, <1>6, AtFindPid, BaseKept

\* GetHandleType keeps BaseInv.
LEMMA BaseGetHandleType ==
    ASSUME BaseInv, NEW t \in Conns, GetHandleType(t)
    PROVE  BaseInv'
<1>0. ClientTypes /\ TableTypes /\ HeapTyped /\ ThreadTypes /\ ControlInv /\ ControlOf(t) /\ LocksHeld
  BY DEF BaseInv, TypesInv, ControlInv
<1>1. ClientTypes' /\ \A c \in Conns : msg'[c] = msg[c] \/ msg'[c] = NoCmd
  <2>1. CASE \E ok : Answer(t, {}, ok)
    BY <1>0, <2>1, AnswerIs DEF GetHandleType, ClientTypes
  <2>2. CASE Silence
    BY <1>0, <2>2, SilenceKeeps DEF GetHandleType
  <2> QED  BY <2>1, <2>2 DEF GetHandleType
<1>2. TableTypes' /\ \A u \in Conns : u # t => (u \in mutating' <=> u \in mutating)
  BY <1>0 DEF GetHandleType, TableTypes, tableVars
<1>3. HeapTyped'
  BY <1>0 DEF GetHandleType, HeapTyped
<1>4. ThreadTypes'
  <2>1. PICK e \in Find(t, hnd[t]) :
            IF pc[t] # "ctype" /\ e.type # Wanted(cmd[t])
            THEN IF pc[t] = "xtype" THEN GoOn(t, "ctype") ELSE Return(t)
            ELSE /\ ht' = [ht EXCEPT ![t] = e.type] /\ pc' = [pc EXCEPT ![t] = Typed[@]]
                 /\ UNCHANGED <<cmd, hnd, ptr>>
    BY DEF GetHandleType
  <2>2. e.type \in Types /\ pc[t] \in {"type", "ctype", "xtype"} /\ UNCHANGED <<currentsocket, from>>
    BY <1>0, FindIs DEF GetHandleType
  <2>3. CASE pc[t] # "ctype" /\ e.type # Wanted(cmd[t])
    <3>1. CASE GoOn(t, "ctype")
      BY <1>0, <2>2, <3>1, GoOnKeeps DEF PCs
    <3>2. CASE Return(t)
      BY <1>0, <2>2, <3>2, ReturnKeeps
    <3> QED  BY <2>1, <2>3, <3>1, <3>2
  <2>4. CASE ~ (pc[t] # "ctype" /\ e.type # Wanted(cmd[t]))
    <3>1. Typed[pc[t]] \in PCs
      BY <2>2 DEF Typed, PCs
    <3>2. pc' = [pc EXCEPT ![t] = Typed[pc[t]]] /\ ht' = [ht EXCEPT ![t] = e.type] /\ UNCHANGED <<cmd, hnd, ptr>>
      BY <2>1, <2>4
    <3> QED  BY <1>0, <2>2, <3>1, <3>2 DEF ThreadTypes
  <2> QED  BY <2>3, <2>4
<1>5. ControlOf(t)'
  <2>0. t \notin mutating'
    BY <1>0 DEF GetHandleType, ControlOf, tableVars
  <2>1. PICK e \in Find(t, hnd[t]) :
            IF pc[t] # "ctype" /\ e.type # Wanted(cmd[t])
            THEN IF pc[t] = "xtype" THEN GoOn(t, "ctype") ELSE Return(t)
            ELSE /\ ht' = [ht EXCEPT ![t] = e.type] /\ pc' = [pc EXCEPT ![t] = Typed[@]]
                 /\ UNCHANGED <<cmd, hnd, ptr>>
    BY DEF GetHandleType
  <2>2. e.type \in Types /\ pc[t] \in {"type", "ctype", "xtype"} /\ UNCHANGED <<currentsocket, from>>
    BY <1>0, FindIs DEF GetHandleType
  <2>3. CASE pc[t] # "ctype" /\ e.type # Wanted(cmd[t]) /\ pc[t] = "type"
    <3>1. Return(t)
      BY <2>1, <2>3
    <3> QED  BY <1>0, <2>0, <2>2, <3>1, ReturnKeeps
  <2>4. CASE pc[t] = "xtype" /\ pc'[t] = "ctype" /\ cmd'[t] = cmd[t]
    BY <1>0, <2>0, <2>2, <2>4, AtGetHandleType DEF Placed, ControlOf, Fitting, Brief
  <2>5. CASE ~ (pc[t] # "ctype" /\ e.type # Wanted(cmd[t]))
    <3>1. pc'[t] = Typed[pc[t]] /\ Typed[pc[t]] \in {"ptr", "cptr", "xptr"} /\ cmd'[t] = cmd[t]
      BY <1>0, <2>1, <2>2, <2>5 DEF ThreadTypes, Typed
    <3>2. Fitting(cmd[t], Typed[pc[t]])
      BY <1>0, <2>2 DEF ControlOf, Fitting, Typed, Users, Brief
    <3> QED  BY <1>0, <2>0, <2>2, <3>1, <3>2, AtGetHandleType DEF Placed, ControlOf
  <2> QED  BY <1>0, <2>1, <2>2, <2>3, <2>4, <2>5 DEF GoOn, ThreadTypes
<1>6. LocksHeld'
  BY <1>0, <1>3, AtGetHandleType, LocksSame DEF GetHandleType
<1> QED  BY <1>0, <1>1, <1>2, <1>3, <1>4, <1>5, <1>6, AtGetHandleType, BaseKept

\* GetPointerFromHandle keeps BaseInv.
LEMMA BaseGetPointerFromHandle ==
    ASSUME BaseInv, NEW t \in Conns, GetPointerFromHandle(t)
    PROVE  BaseInv'
<1>0. ClientTypes /\ TableTypes /\ HeapTyped /\ ThreadTypes /\ ControlInv /\ ControlOf(t) /\ LocksHeld
  BY DEF BaseInv, TypesInv, ControlInv
<1>1. ClientTypes' /\ \A c \in Conns : msg'[c] = msg[c] \/ msg'[c] = NoCmd
  BY <1>0 DEF GetPointerFromHandle, ClientTypes, clientVars
<1>2. TableTypes' /\ \A u \in Conns : u # t => (u \in mutating' <=> u \in mutating)
  BY <1>0 DEF GetPointerFromHandle, TableTypes, tableVars
<1>3. HeapTyped'
  BY <1>0 DEF GetPointerFromHandle, HeapTyped
<1>4. ThreadTypes'
  <2>1. PICK e \in Find(t, hnd[t]) : ptr' = [ptr EXCEPT ![t] = e.p]
    BY DEF GetPointerFromHandle
  <2>2. e.p \in Objs \cup {None}
    BY <1>0, FindIs
  <2>3. Use(t) \in PCs
    BY <1>0, UseIs DEF GetPointerFromHandle, ControlOf
  <2> QED  BY <1>0, <2>1, <2>2, <2>3 DEF GetPointerFromHandle, ThreadTypes
<1>5. ControlOf(t)'
  <2>1. Use(t) \in Uses /\ Fitting(cmd[t], Use(t))
    BY <1>0, UseIs DEF GetPointerFromHandle, ControlOf
  <2> QED  BY <1>0, <2>1, AtGetPointerFromHandle DEF GetPointerFromHandle, Placed, tableVars, ControlOf, Uses
<1>6. LocksHeld'
  BY <1>0, <1>3, AtGetPointerFromHandle, LocksSame DEF GetPointerFromHandle
<1> QED  BY <1>0, <1>1, <1>2, <1>3, <1>4, <1>5, <1>6, AtGetPointerFromHandle, BaseKept

\* Build keeps BaseInv.
LEMMA BaseBuild ==
    ASSUME BaseInv, NEW t \in Conns, Build(t)
    PROVE  BaseInv'
<1>0. ClientTypes /\ TableTypes /\ HeapTyped /\ ThreadTypes /\ ControlInv /\ ControlOf(t) /\ LocksHeld
  BY DEF BaseInv, TypesInv, ControlInv
<1>1. ClientTypes' /\ \A c \in Conns : msg'[c] = msg[c] \/ msg'[c] = NoCmd
  <2>1. CASE \E ok : Answer(t, {}, ok)
    BY <1>0, <2>1, AnswerIs DEF Build, ClientTypes
  <2>2. CASE up' \in BOOLEAN /\ UNCHANGED <<clientVars, sock>>
    BY <1>0, <2>2 DEF Build, clientVars, ClientTypes
  <2> QED  BY <2>1, <2>2 DEF Build
<1>2. TableTypes' /\ \A u \in Conns : u # t => (u \in mutating' <=> u \in mutating)
  BY <1>0 DEF Build, TableTypes, tableVars
<1>3. HeapTyped'
  BY <1>0, AtBuild, HeapBuild DEF HeapTyped
<1>4. ThreadTypes'
  <2>1. CASE pc'[t] = "recv"
    <3>1. Return(t)
      BY <1>0, <2>1 DEF Build, ThreadTypes
    <3> QED  BY <1>0, <3>1, ReturnKeeps DEF Build
  <2>2. CASE pc'[t] # "recv"
    <3>1. PICK o \in Objs : ptr' = [ptr EXCEPT ![t] = o]
      BY <1>0, <2>2 DEF Build, Return, ThreadTypes
    <3>2. pc' = [pc EXCEPT ![t] = "insert"] /\ UNCHANGED <<cmd, hnd, ht, currentsocket, from>>
      BY <1>0, <2>2 DEF Build, Return, ThreadTypes
    <3> QED  BY <1>0, <3>1, <3>2 DEF ThreadTypes, PCs
  <2> QED  BY <2>1, <2>2
<1>5. ControlOf(t)'
  <2>1. t \notin mutating'
    BY <1>0 DEF Build, ControlOf, tableVars
  <2>2. CASE pc'[t] = "recv"
    <3>1. Return(t)
      BY <1>0, <2>2 DEF Build, ThreadTypes
    <3> QED  BY <1>0, <2>1, <3>1, ReturnKeeps DEF Build
  <2>3. CASE pc'[t] # "recv"
    BY <1>0, <2>1, <2>3, AtBuild DEF Placed, ControlOf, Fitting, Brief
  <2> QED  BY <2>2, <2>3
<1>6. LocksHeld'
  <2>1. \A o \in Objs : heap'[o].lock \in {None, heap[o].lock}
    BY <1>0, AtBuild, HeapBuild
  <2> QED  BY <1>0, <1>3, <2>1, AtBuild, LocksSame
<1> QED  BY <1>0, <1>1, <1>2, <1>3, <1>4, <1>5, <1>6, AtBuild, BaseKept

\* Insert keeps BaseInv.
LEMMA BaseInsert ==
    ASSUME BaseInv, NEW t \in Conns, Insert(t)
    PROVE  BaseInv'
<1>0. ClientTypes /\ TableTypes /\ HeapTyped /\ ThreadTypes /\ ControlInv /\ ControlOf(t) /\ LocksHeld
  BY DEF BaseInv, TypesInv, ControlInv
<1>1. ClientTypes' /\ \A c \in Conns : msg'[c] = msg[c] \/ msg'[c] = NoCmd
  BY <1>0 DEF Insert, ClientTypes, clientVars
<1>2. TableTypes' /\ \A u \in Conns : u # t => (u \in mutating' <=> u \in mutating)
  BY <1>0 DEF Insert, TableTypes, tableVars
<1>3. HeapTyped'
  BY <1>0 DEF Insert, HeapTyped
<1>4. ThreadTypes'
  BY <1>0 DEF Insert, ThreadTypes, PCs
<1>5. ControlOf(t)'
  BY <1>0, AtInsert DEF Insert, Placed, ControlOf, Fitting, Brief
<1>6. LocksHeld'
  BY <1>0, <1>3, AtInsert, LocksSame DEF Insert
<1> QED  BY <1>0, <1>1, <1>2, <1>3, <1>4, <1>5, <1>6, AtInsert, BaseKept

\* Inserted keeps BaseInv.
LEMMA BaseInserted ==
    ASSUME BaseInv, NEW t \in Conns, Inserted(t)
    PROVE  BaseInv'
<1>0. ClientTypes /\ TableTypes /\ HeapTyped /\ ThreadTypes /\ ControlInv /\ ControlOf(t) /\ LocksHeld
  BY DEF BaseInv, TypesInv, ControlInv
<1>1. ClientTypes' /\ \A c \in Conns : msg'[c] = msg[c] \/ msg'[c] = NoCmd
  <2>1. {hnd[t]} \in SUBSET (Handles \cup {0})
    BY <1>0 DEF ThreadTypes
  <2>2. CASE Listed(cmd[t])
    BY <1>0, <2>2, SilenceKeeps DEF Inserted
  <2>3. CASE ~ Listed(cmd[t])
    BY <1>0, <2>1, <2>3, AnswerIs DEF Inserted, ClientTypes
  <2> QED  BY <2>2, <2>3
<1>2. TableTypes' /\ \A u \in Conns : u # t => (u \in mutating' <=> u \in mutating)
  <2>1. hnd[t] \in Handles /\ ptr[t] \in Objs
    BY <1>0 DEF Inserted, ControlOf
  <2>2. heap[ptr[t]].type \in Types
    BY <1>0, <2>1 DEF HeapTyped, HeapTypes
  <2>3. [p |-> ptr[t], type |-> heap[ptr[t]].type] \in [p : Objs \cup {None}, type : Types]
    BY <2>1, <2>2
  <2>4. table' \in [Handles -> [p : Objs \cup {None}, type : Types]]
    BY <1>0, <2>3 DEF Inserted, Become, TableTypes
  <2> QED  BY <1>0, <2>1, <2>4 DEF Inserted, Become, TableTypes
<1>3. HeapTyped'
  BY <1>0 DEF Inserted, HeapTyped
<1>4. ThreadTypes'
  <2>1. CASE Listed(cmd[t])
    <3>1. AfterInsert(cmd[t]) \in PCs
      BY DEF AfterInsert, PCs
    <3> QED  BY <1>0, <2>1, <3>1, GoOnKeeps DEF Inserted
  <2>2. CASE ~ Listed(cmd[t])
    BY <1>0, <2>2, ReturnKeeps DEF Inserted
  <2> QED  BY <2>1, <2>2
<1>5. ControlOf(t)'
  <2>1. t \notin mutating'
    BY DEF Inserted, Become
  <2>2. CASE Listed(cmd[t])
    BY <1>0, <2>1, <2>2, AtInserted DEF AfterInsert, Kept, Placed, ControlOf, Fitting, Brief
  <2>3. CASE ~ Listed(cmd[t])
    BY <1>0, <2>1, <2>3, ReturnKeeps DEF Inserted
  <2> QED  BY <2>2, <2>3
<1>6. LocksHeld'
  BY <1>0, <1>3, AtInserted, LocksSame DEF Inserted
<1> QED  BY <1>0, <1>1, <1>2, <1>3, <1>4, <1>5, <1>6, AtInserted, BaseKept

\* List keeps BaseInv.
LEMMA BaseList ==
    ASSUME BaseInv, NEW t \in Conns, List(t)
    PROVE  BaseInv'
<1>0. ClientTypes /\ TableTypes /\ HeapTyped /\ ThreadTypes /\ ControlInv /\ ControlOf(t) /\ LocksHeld
  BY DEF BaseInv, TypesInv, ControlInv
<1>1. ClientTypes' /\ \A c \in Conns : msg'[c] = msg[c] \/ msg'[c] = NoCmd
  <2>1. PICK ok : Answer(t, {}, ok)
    BY DEF List
  <2> QED  BY <1>0, <2>1, AnswerIs DEF List, ClientTypes
<1>2. TableTypes' /\ \A u \in Conns : u # t => (u \in mutating' <=> u \in mutating)
  BY <1>0 DEF List, TableTypes, tableVars
<1>3. HeapTyped'
  <2>1. CASE cmd[t].as = "module" /\ Live(t, "module")
    BY <1>0, <2>1, HeapList
  <2>2. CASE ~ (cmd[t].as = "module" /\ Live(t, "module"))
    BY <1>0, <2>2 DEF List, HeapTyped
  <2> QED  BY <2>1, <2>2
<1>4. ThreadTypes'
  BY <1>0, GoOnKeeps DEF List, PCs
<1>5. ControlOf(t)'
  BY <1>0, <1>4, AtList DEF List, ThreadTypes, Kept, Placed, tableVars, ControlOf, Fitting, Brief
<1>6. LocksHeld'
  <2>1. \A o \in Objs : heap'[o].lock = heap[o].lock
    <3>1. CASE cmd[t].as = "module" /\ Live(t, "module")
      BY <1>0, <3>1, HeapList
    <3>2. CASE ~ (cmd[t].as = "module" /\ Live(t, "module"))
      BY <3>2 DEF List
    <3> QED  BY <3>1, <3>2
  <2> QED  BY <1>0, <1>3, <2>1, AtList, LocksSame
<1> QED  BY <1>0, <1>1, <1>2, <1>3, <1>4, <1>5, <1>6, AtList, BaseKept

\* Delete keeps BaseInv.
LEMMA BaseDelete ==
    ASSUME BaseInv, NEW t \in Conns, Delete(t)
    PROVE  BaseInv'
<1>0. ClientTypes /\ TableTypes /\ HeapTyped /\ ThreadTypes /\ ControlInv /\ ControlOf(t) /\ LocksHeld
  BY DEF BaseInv, TypesInv, ControlInv
<1>1. ClientTypes' /\ \A c \in Conns : msg'[c] = msg[c] \/ msg'[c] = NoCmd
  <2>1. up' \in BOOLEAN
    BY DEF Delete
  <2> QED  BY <1>0, <2>1 DEF Delete, clientVars, ClientTypes
<1>2. TableTypes' /\ \A u \in Conns : u # t => (u \in mutating' <=> u \in mutating)
  BY <1>0 DEF Delete, TableTypes, tableVars
<1>3. HeapTyped'
  BY <1>0, HeapDelete
<1>4. ThreadTypes'
  BY <1>0 DEF Delete, ThreadTypes, PCs
<1>5. ControlOf(t)'
  BY <1>0, <1>4, AtDelete DEF Delete, ThreadTypes, Kept, Placed, tableVars, ControlOf, Fitting, Brief
<1>6. LocksHeld'
  <2>1. \A o \in Objs : heap'[o].lock \in {None, heap[o].lock}
    BY <1>0, HeapDelete DEF Freed, Object
  <2> QED  BY <1>0, <1>3, <2>1, AtDelete, LocksSame
<1> QED  BY <1>0, <1>1, <1>2, <1>3, <1>4, <1>5, <1>6, AtDelete, BaseKept

\* Erase keeps BaseInv.
LEMMA BaseErase ==
    ASSUME BaseInv, NEW t \in Conns, Erase(t)
    PROVE  BaseInv'
<1>0. ClientTypes /\ TableTypes /\ HeapTyped /\ ThreadTypes /\ ControlInv /\ ControlOf(t) /\ LocksHeld
  BY DEF BaseInv, TypesInv, ControlInv
<1>1. ClientTypes' /\ \A c \in Conns : msg'[c] = msg[c] \/ msg'[c] = NoCmd
  <2>1. CASE CloseAnswer(t) /\ cmd[t].op = "close"
    BY <1>0, <2>1, AnswerIs DEF Erase, CloseAnswer, ClientTypes
  <2>2. CASE Silence
    BY <1>0, <2>2, SilenceKeeps DEF Erase
  <2> QED  BY <2>1, <2>2 DEF Erase, CloseAnswer
<1>2. TableTypes' /\ \A u \in Conns : u # t => (u \in mutating' <=> u \in mutating)
  BY <1>0 DEF Erase, TableTypes
<1>3. HeapTyped'
  BY <1>0 DEF Erase, HeapTyped
<1>4. ThreadTypes'
  <2>1. CASE Return(t)
    BY <1>0, <2>1, ReturnKeeps DEF Erase
  <2>2. CASE GoOn(t, "erasing")
    BY <1>0, <2>2, GoOnKeeps DEF Erase, PCs
  <2> QED  BY <2>1, <2>2 DEF Erase, CloseAnswer
<1>5. ControlOf(t)'
  <2>0. t \notin mutating
    BY <1>0, AtErase DEF ControlOf
  <2>1. CASE Return(t) /\ UNCHANGED mutating
    BY <1>0, <2>0, <2>1, ReturnKeeps DEF Erase
  <2>2. CASE pc'[t] = "erasing"
    <3>1. hnd[t] \in Handles
      BY <1>0, <2>2, AtErase DEF Find
    <3> QED  BY <1>0, <2>2, <3>1, AtErase DEF Kept, Placed, ControlOf, Fitting, Brief
  <2> QED  BY <1>0, <2>1, <2>2 DEF Erase, CloseAnswer, GoOn, ThreadTypes
<1>6. LocksHeld'
  BY <1>0, <1>3, AtErase, LocksSame DEF Erase
<1> QED  BY <1>0, <1>1, <1>2, <1>3, <1>4, <1>5, <1>6, AtErase, BaseKept

\* Erased keeps BaseInv.
LEMMA BaseErased ==
    ASSUME BaseInv, NEW t \in Conns, Erased(t)
    PROVE  BaseInv'
<1>0. ClientTypes /\ TableTypes /\ HeapTyped /\ ThreadTypes /\ ControlInv /\ ControlOf(t) /\ LocksHeld
  BY DEF BaseInv, TypesInv, ControlInv
<1>1. ClientTypes' /\ \A c \in Conns : msg'[c] = msg[c] \/ msg'[c] = NoCmd
  <2>1. CASE CloseAnswer(t) /\ cmd[t].op = "close"
    BY <1>0, <2>1, AnswerIs DEF Erased, CloseAnswer, ClientTypes
  <2>2. CASE Silence
    BY <1>0, <2>2, SilenceKeeps DEF Erased
  <2> QED  BY <2>1, <2>2 DEF Erased, CloseAnswer
<1>2. TableTypes' /\ \A u \in Conns : u # t => (u \in mutating' <=> u \in mutating)
  BY <1>0 DEF Erased, Become, ErasedTable, TableTypes, Empty, Types
<1>3. HeapTyped'
  BY <1>0 DEF Erased, HeapTyped
<1>4. ThreadTypes'
  BY <1>0, ReturnKeeps DEF Erased, CloseAnswer
<1>5. ControlOf(t)'
  BY <1>0, ReturnKeeps DEF Erased, CloseAnswer, Become
<1>6. LocksHeld'
  BY <1>0, <1>3, AtErased, LocksSame DEF Erased
<1> QED  BY <1>0, <1>1, <1>2, <1>3, <1>4, <1>5, <1>6, AtErased, BaseKept

\* Iterate keeps BaseInv.
LEMMA BaseIterate ==
    ASSUME BaseInv, NEW t \in Conns, Iterate(t)
    PROVE  BaseInv'
<1>0. ClientTypes /\ TableTypes /\ HeapTyped /\ ThreadTypes /\ ControlInv /\ ControlOf(t) /\ LocksHeld
  BY DEF BaseInv, TypesInv, ControlInv
<1>1. ClientTypes' /\ \A c \in Conns : msg'[c] = msg[c] \/ msg'[c] = NoCmd
  <2>1. PICK ok : Answer(t, {}, ok)
    BY DEF Iterate
  <2> QED  BY <1>0, <2>1, AnswerIs DEF Iterate, ClientTypes
<1>2. TableTypes' /\ \A u \in Conns : u # t => (u \in mutating' <=> u \in mutating)
  BY <1>0 DEF Iterate, TableTypes, tableVars
<1>3. HeapTyped'
  <2>1. CASE Live(t, cmd[t].kind)
    BY <1>0, <2>1, HeapIterate
  <2>2. CASE ~ Live(t, cmd[t].kind)
    BY <1>0, <2>2 DEF Iterate, HeapTyped
  <2> QED  BY <2>1, <2>2
<1>4. ThreadTypes'
  BY <1>0, ReturnKeeps DEF Iterate
<1>5. ControlOf(t)'
  <2>1. t \notin mutating'
    BY <1>0 DEF Iterate, ControlOf, tableVars
  <2> QED  BY <1>0, <2>1, ReturnKeeps DEF Iterate
<1>6. LocksHeld'
  <2>1. \A o \in Objs : heap'[o].lock = heap[o].lock
    <3>1. CASE Live(t, cmd[t].kind)
      BY <1>0, <3>1, HeapIterate
    <3>2. CASE ~ Live(t, cmd[t].kind)
      BY <3>2 DEF Iterate
    <3> QED  BY <3>1, <3>2
  <2> QED  BY <1>0, <1>3, <2>1, AtIterate, LocksSame
<1> QED  BY <1>0, <1>1, <1>2, <1>3, <1>4, <1>5, <1>6, AtIterate, BaseKept

\* Memory keeps BaseInv.
LEMMA BaseMemory ==
    ASSUME BaseInv, NEW t \in Conns, Memory(t)
    PROVE  BaseInv'
<1>0. ClientTypes /\ TableTypes /\ HeapTyped /\ ThreadTypes /\ ControlInv /\ ControlOf(t) /\ LocksHeld
  BY DEF BaseInv, TypesInv, ControlInv
<1>1. ClientTypes' /\ \A c \in Conns : msg'[c] = msg[c] \/ msg'[c] = NoCmd
  <2>1. PICK ok : Answer(t, {}, ok)
    BY DEF Memory
  <2> QED  BY <1>0, <2>1, AnswerIs DEF Memory, ClientTypes
<1>2. TableTypes' /\ \A u \in Conns : u # t => (u \in mutating' <=> u \in mutating)
  BY <1>0 DEF Memory, TableTypes, tableVars
<1>3. HeapTyped'
  BY <1>0 DEF Memory, HeapTyped
<1>4. ThreadTypes'
  BY <1>0, ReturnKeeps DEF Memory
<1>5. ControlOf(t)'
  <2>1. t \notin mutating'
    BY <1>0 DEF Memory, ControlOf, tableVars
  <2> QED  BY <1>0, <2>1, ReturnKeeps DEF Memory
<1>6. LocksHeld'
  BY <1>0, <1>3, AtMemory, LocksSame DEF Memory
<1> QED  BY <1>0, <1>1, <1>2, <1>3, <1>4, <1>5, <1>6, AtMemory, BaseKept

\* Lock keeps BaseInv.
LEMMA BaseLock ==
    ASSUME BaseInv, NEW t \in Conns, Lock(t)
    PROVE  BaseInv'
<1>0. ClientTypes /\ TableTypes /\ HeapTyped /\ ThreadTypes /\ ControlInv /\ ControlOf(t) /\ LocksHeld
  BY DEF BaseInv, TypesInv, ControlInv
<1>1. ClientTypes' /\ \A c \in Conns : msg'[c] = msg[c] \/ msg'[c] = NoCmd
  <2>1. CASE Live(t, "open")
    BY <1>0, <2>1, SilenceKeeps DEF Lock
  <2>2. CASE ~ Live(t, "open")
    BY <1>0, <2>2, AnswerIs DEF Lock, ClientTypes
  <2> QED  BY <2>1, <2>2
<1>2. TableTypes' /\ \A u \in Conns : u # t => (u \in mutating' <=> u \in mutating)
  BY <1>0 DEF Lock, TableTypes, tableVars
<1>3. HeapTyped'
  <2>1. CASE Live(t, "open")
    BY <1>0, <2>1, HeapLock
  <2>2. CASE ~ Live(t, "open")
    BY <1>0, <2>2 DEF Lock, HeapTyped
  <2> QED  BY <2>1, <2>2
<1>4. ThreadTypes'
  <2>1. CASE Live(t, "open")
    BY <1>0, <2>1, GoOnKeeps DEF Lock, PCs
  <2>2. CASE ~ Live(t, "open")
    BY <1>0, <2>2, ReturnKeeps DEF Lock
  <2> QED  BY <2>1, <2>2
<1>5. ControlOf(t)'
  <2>0. t \notin mutating'
    BY <1>0 DEF Lock, ControlOf, tableVars
  <2>1. CASE Live(t, "open")
    BY <1>0, <2>0, <2>1, AtLock DEF Kept, Placed, ControlOf, Fitting, Brief, Live
  <2>2. CASE ~ Live(t, "open")
    BY <1>0, <2>0, <2>2, ReturnKeeps DEF Lock
  <2> QED  BY <2>1, <2>2
<1>6. LocksHeld'
  <2>1. CASE Live(t, "open")
    <3>1. \A o \in Objs : o # ptr[t] => heap[o].lock # t
      BY <1>0, AtLock, NoneAssumption DEF LocksHeld
    <3> QED  BY <1>0, <1>3, <2>1, <3>1, HeapLock, AtLock, LocksKept DEF Kept
  <2>2. CASE ~ Live(t, "open")
    BY <1>0, <1>3, <2>2, AtLock, LocksSame DEF Lock
  <2> QED  BY <2>1, <2>2
<1> QED  BY <1>0, <1>1, <1>2, <1>3, <1>4, <1>5, <1>6, AtLock, BaseKept

\* Check keeps BaseInv.
LEMMA BaseCheck ==
    ASSUME BaseInv, NEW t \in Conns, Check(t)
    PROVE  BaseInv'
<1>0. ClientTypes /\ TableTypes /\ HeapTyped /\ ThreadTypes /\ ControlInv /\ ControlOf(t) /\ LocksHeld
  BY DEF BaseInv, TypesInv, ControlInv
<1>1. ClientTypes' /\ \A c \in Conns : msg'[c] = msg[c] \/ msg'[c] = NoCmd
  BY <1>0 DEF Check, ClientTypes, clientVars
<1>2. TableTypes' /\ \A u \in Conns : u # t => (u \in mutating' <=> u \in mutating)
  BY <1>0 DEF Check, TableTypes, tableVars
<1>3. HeapTyped'
  <2>1. ptr[t] \in Objs
    BY <1>0, AtCheck DEF ControlOf
  <2> QED  BY <1>0, <2>1, HeapCheck DEF Check, HeapTyped
<1>4. ThreadTypes'
  BY <1>0 DEF Check, ThreadTypes, PCs
<1>5. ControlOf(t)'
  BY <1>0, <1>4, AtCheck DEF Check, ThreadTypes, Kept, Placed, tableVars, ControlOf, Fitting, Brief
<1>6. LocksHeld'
  <2>0. ptr[t] \in Objs /\ \A o \in Objs : heap[o].lock = t => o = ptr[t]
    BY <1>0, AtCheck, NoneAssumption DEF ControlOf, LocksHeld
  <2>1. \A o \in Objs : heap'[o].lock = heap[o].lock
    <3>1. CASE Expired(t)
      BY <1>0, <2>0, <3>1, HeapCheck
    <3>2. CASE ~ Expired(t)
      BY <3>2 DEF Check
    <3> QED  BY <3>1, <3>2
  <2> QED  BY <1>0, <1>3, <2>0, <2>1, AtCheck, LocksKept DEF Kept
<1> QED  BY <1>0, <1>1, <1>2, <1>3, <1>4, <1>5, <1>6, AtCheck, BaseKept

\* Fill keeps BaseInv.
LEMMA BaseFill ==
    ASSUME BaseInv, NEW t \in Conns, Fill(t)
    PROVE  BaseInv'
<1>0. ClientTypes /\ TableTypes /\ HeapTyped /\ ThreadTypes /\ ControlInv /\ ControlOf(t) /\ LocksHeld
  BY DEF BaseInv, TypesInv, ControlInv
<1>1. ClientTypes' /\ \A c \in Conns : msg'[c] = msg[c] \/ msg'[c] = NoCmd
  <2>1. CASE Silence
    BY <1>0, <2>1, SilenceKeeps DEF Fill
  <2>2. CASE Answer(t, {}, TRUE)
    BY <1>0, <2>2, AnswerIs DEF Fill, ClientTypes
  <2> QED  BY <2>1, <2>2 DEF Fill
<1>2. TableTypes' /\ \A u \in Conns : u # t => (u \in mutating' <=> u \in mutating)
  BY <1>0 DEF Fill, TableTypes, tableVars
<1>3. HeapTyped'
  <2>1. ptr[t] \in Objs
    BY <1>0, AtFill DEF ControlOf
  <2> QED  BY <1>0, <2>1, HeapFill, HeapFillFailed
<1>4. ThreadTypes'
  <2>1. CASE GoOn(t, "scan")
    BY <1>0, <2>1, GoOnKeeps DEF Fill, PCs
  <2>2. CASE Return(t)
    BY <1>0, <2>2, ReturnKeeps DEF Fill
  <2> QED  BY <2>1, <2>2 DEF Fill
<1>5. ControlOf(t)'
  <2>0. t \notin mutating'
    BY <1>0 DEF Fill, ControlOf, tableVars
  <2>1. CASE pc'[t] = "scan" /\ Kept(t)
    BY <1>0, <2>0, <2>1, AtFill DEF Kept, Placed, ControlOf, Fitting, Brief
  <2>2. CASE Return(t)
    BY <1>0, <2>0, <2>2, ReturnKeeps DEF Fill
  <2> QED  BY <1>0, <2>1, <2>2 DEF Fill, GoOn, Kept, ThreadTypes
<1>6. LocksHeld'
  <2>0. ptr[t] \in Objs /\ \A o \in Objs : heap[o].lock = t => o = ptr[t]
    BY <1>0, AtFill, NoneAssumption DEF ControlOf, LocksHeld
  <2>1. CASE pc'[t] = "scan"
    <3>1. \A o \in Objs : heap'[o].lock = heap[o].lock
      BY <1>0, <2>0, <2>1, HeapFill
    <3> QED  BY <1>0, <1>3, <2>0, <2>1, <3>1, AtFill, LocksKept DEF Kept
  <2>2. CASE pc'[t] # "scan"
    <3>1. \A o \in Objs : heap'[o].lock # t /\ heap'[o].lock \in {None, heap[o].lock}
      BY <1>0, <2>0, <2>2, HeapFillFailed, NoneAssumption
    <3> QED  BY <1>0, <1>3, <3>1, AtFill, LocksKept
  <2> QED  BY <2>1, <2>2
<1> QED  BY <1>0, <1>1, <1>2, <1>3, <1>4, <1>5, <1>6, AtFill, BaseKept

\* Scan keeps BaseInv.
LEMMA BaseScan ==
    ASSUME BaseInv, NEW t \in Conns, Scan(t)
    PROVE  BaseInv'
<1>0. ClientTypes /\ TableTypes /\ HeapTyped /\ ThreadTypes /\ ControlInv /\ ControlOf(t) /\ LocksHeld
  BY DEF BaseInv, TypesInv, ControlInv
<1>1. ClientTypes' /\ \A c \in Conns : msg'[c] = msg[c] \/ msg'[c] = NoCmd
  <2>1. PICK ok : Answer(t, {}, ok)
    BY DEF Scan
  <2> QED  BY <1>0, <2>1, AnswerIs DEF Scan, ClientTypes
<1>2. TableTypes' /\ \A u \in Conns : u # t => (u \in mutating' <=> u \in mutating)
  BY <1>0 DEF Scan, TableTypes, tableVars
<1>3. HeapTyped'
  <2>1. ptr[t] \in Objs
    BY <1>0, AtScan DEF ControlOf
  <2> QED  BY <1>0, <2>1, HeapScan
<1>4. ThreadTypes'
  BY <1>0, ReturnKeeps DEF Scan
<1>5. ControlOf(t)'
  <2>1. t \notin mutating'
    BY <1>0 DEF Scan, ControlOf, tableVars
  <2> QED  BY <1>0, <2>1, ReturnKeeps DEF Scan
<1>6. LocksHeld'
  <2>0. ptr[t] \in Objs /\ \A o \in Objs : heap[o].lock = t => o = ptr[t]
    BY <1>0, AtScan, NoneAssumption DEF ControlOf, LocksHeld
  <2>1. \A o \in Objs : heap'[o].lock # t /\ heap'[o].lock \in {None, heap[o].lock}
    BY <1>0, <2>0, HeapScan, NoneAssumption
  <2> QED  BY <1>0, <1>3, <2>1, AtScan, LocksKept
<1> QED  BY <1>0, <1>1, <1>2, <1>3, <1>4, <1>5, <1>6, AtScan, BaseKept

-----------------------------------------------------------------------------
(* The steps of the client.                                                *)

\* The requests of a client.
LEMMA RequestIs ==
    ASSUME ClientTypes, NEW m \in Requests
    PROVE  m \in Cmds /\ m.op \in Operations /\ Proper(m) /\ (m.op # "snapex" => m.as = m.kind)
<1>1. CASE \E h \in known \cup {0}, p \in Pids \cup {0}, k \in Kinds, op \in Operations :
               m = Command(op, h, p, k) /\ (op \in Users => h \in known)
  <2>1. PICK h \in known \cup {0}, p \in Pids \cup {0}, k \in Kinds, op \in Operations :
            m = Command(op, h, p, k) /\ (op \in Users => h \in known)
    BY <1>1
  <2>2. m.op = op /\ m.h = h /\ m.pid = p /\ m.kind = k /\ m.as = k
    BY <2>1 DEF Command
  <2>3. m \in Cmds
    BY <2>1 DEF Command, Cmds, ClientTypes
  <2> QED  BY <2>1, <2>2, <2>3 DEF Proper, ClientTypes, Operations
<1>2. CASE \E op \in {"snap", "snapex"}, p \in Pids, fl \in Flags : m = Snapshot(op, p, fl)
  <2>1. PICK op \in {"snap", "snapex"}, p \in Pids, fl \in Flags : m = Snapshot(op, p, fl)
    BY <1>2
  <2>2. Created(fl) \in Kinds /\ ReadAs(fl) \in Kinds
    BY DEF Created, ReadAs, Kinds
  <2>3. Command(op, 0, p, Created(fl)) \in Cmds
    BY <2>2 DEF Command, Cmds, Operations
  <2>4. m \in Cmds /\ m.op = op /\ m.kind = Created(fl) /\ (op = "snap" => m.as = m.kind)
    BY <2>1, <2>2, <2>3 DEF Snapshot, Command, Cmds
  <2> QED  BY <2>4 DEF Proper, Users, Operations
<1>3. m \in {Command("open", 0, p, "process") : p \in Pids \cup {0}}
            \cup {Command("close", h, 0, "process") : h \in known \cup {0}}
            \cup {Command(op, h, 0, "process") : op \in {"mem", "query", "queryfull"}, h \in known}
            \cup {Snapshot(op, p, fl) : op \in {"snap", "snapex"}, p \in Pids, fl \in Flags}
            \cup {Command(op, h, 0, k) : op \in {"first", "next"}, h \in known, k \in {"process", "module"}}
            \cup {Command(op, 0, 0, "process") : op \in {"info", "aob", "nopath", "bye", "term"}}
  BY DEF Requests
<1>4. "process" \in Kinds /\ "module" \in Kinds
  BY DEF Kinds
<1>5. CASE \E p \in Pids \cup {0} : m = Command("open", 0, p, "process")
  BY <1>1, <1>4, <1>5 DEF Operations, Users
<1>6. CASE \E h \in known \cup {0} : m = Command("close", h, 0, "process")
  BY <1>1, <1>4, <1>6 DEF Operations, Users
<1>7. CASE \E op \in {"mem", "query", "queryfull"}, h \in known : m = Command(op, h, 0, "process")
  BY <1>1, <1>4, <1>7 DEF Operations, Users
<1>8. CASE \E op \in {"first", "next"}, h \in known, k \in {"process", "module"} : m = Command(op, h, 0, k)
  BY <1>1, <1>4, <1>8 DEF Operations, Users
<1>9. CASE \E op \in {"info", "aob", "nopath", "bye", "term"} : m = Command(op, 0, 0, "process")
  BY <1>1, <1>4, <1>9 DEF Operations, Users
<1> QED  BY <1>2, <1>3, <1>5, <1>6, <1>7, <1>8, <1>9

\* What a connection has on its way when it breaks.
LEMMA CutIs ==
    ASSUME NEW m \in Cmds, Proper(m), NEW k \in Cut(m)
    PROVE  /\ k \in Cmds /\ Proper(k)
           /\ \/ k = NoCmd \/ k = m
              \/ k = Command("cut", 0, 0, "process") \/ k = Command("cutclose", 0, 0, "process")
<1>1. k = NoCmd \/ k = m \/ k = Command("cut", 0, 0, "process") \/ k = Command("cutclose", 0, 0, "process")
  BY DEF Cut
<1>2. /\ Command("cut", 0, 0, "process") \in Cmds /\ Proper(Command("cut", 0, 0, "process"))
      /\ Command("cutclose", 0, 0, "process") \in Cmds /\ Proper(Command("cutclose", 0, 0, "process"))
  BY DEF Command, Cmds, Proper, Users, Kinds
<1> QED  BY <1>1, <1>2, NoCmdIs

\* What sending a request changes.
LEMMA AtSend ==
    ASSUME ClientTypes, NEW c \in Conns, NEW m \in Requests, Send(c, m)
    PROVE  /\ up /\ conn[c] /\ pending[c] = "none" /\ msg[c] = NoCmd /\ MaySend(c, m)
           /\ msg'[c] = m /\ (conn'[c] <=> m.op # "bye") /\ pending'[c] = m.op
           /\ \A d \in Conns : d # c => msg'[d] = msg[d] /\ conn'[d] = conn[d] /\ pending'[d] = pending[d]
           /\ ClientTypes' /\ known' = IF m.op = "close" THEN known \ {m.h} ELSE known
           /\ UNCHANGED <<ops, tail, lost, up, young, sock, table, mutating, heap>>
           /\ UNCHANGED <<pc, currentsocket, from, cmd, hnd, ht, ptr>>
<1>1. m \in Cmds /\ m.op \in Operations
  BY RequestIs
<1>2. /\ up /\ conn[c] /\ pending[c] = "none" /\ msg[c] = NoCmd /\ MaySend(c, m)
      /\ msg'[c] = m /\ pending'[c] = m.op
      /\ \A d \in Conns : d # c => msg'[d] = msg[d] /\ conn'[d] = conn[d] /\ pending'[d] = pending[d]
  BY DEF Send, ClientTypes
<1>3. (conn'[c] <=> m.op # "bye") /\ conn' \in [Conns -> BOOLEAN]
  BY DEF Send, ClientTypes
<1>4. pending' \in [Conns -> Operations \cup {"none"}]
  BY <1>1 DEF Send, ClientTypes
<1>5. known' = IF m.op = "close" THEN known \ {m.h} ELSE known
  BY DEF Send
<1>6. msg' \in [Conns -> Cmds]
  BY <1>1 DEF Send, ClientTypes
<1>7. /\ UNCHANGED <<ops, tail, lost, up, young, sock, table, mutating, heap>>
      /\ UNCHANGED <<pc, currentsocket, from, cmd, hnd, ht, ptr>>
  BY DEF Send, tableVars, threadVars
<1> QED  BY <1>2, <1>3, <1>4, <1>5, <1>6, <1>7 DEF ClientTypes

\* What the loss of a connection changes.
LEMMA AtDisconnect ==
    ASSUME ClientTypes, ControlInv, NEW c \in Conns, Disconnect(c)
    PROVE  /\ up /\ conn[c] /\ ~ conn'[c]
           /\ msg'[c] \in Cmds /\ Proper(msg'[c])
           /\ \/ msg'[c] = NoCmd \/ msg'[c] = msg[c]
              \/ /\ msg[c] # NoCmd
                 /\ \/ msg'[c] = Command("cut", 0, 0, "process")
                    \/ msg'[c] = Command("cutclose", 0, 0, "process")
           /\ \A d \in Conns : d # c => msg'[d] = msg[d] /\ conn'[d] = conn[d]
           /\ lost' = IF msg'[c] # msg[c] /\ msg[c].op = "close" THEN lost \cup ({msg[c].h} \ {0}) ELSE lost
           /\ ClientTypes'
           /\ UNCHANGED <<ops, pending, tail, known, up, young, sock, table, mutating, heap>>
           /\ UNCHANGED <<pc, currentsocket, from, cmd, hnd, ht, ptr>>
<1>1. PICK m \in IF msg[c] = NoCmd THEN {NoCmd} ELSE Cut(msg[c]) :
          /\ msg' = [msg EXCEPT ![c] = m]
          /\ lost' = IF m # msg[c] /\ msg[c].op = "close" THEN lost \cup ({msg[c].h} \ {0}) ELSE lost
  BY DEF Disconnect
<1>2. /\ m \in Cmds /\ Proper(m)
      /\ \/ m = NoCmd \/ m = msg[c]
         \/ /\ msg[c] # NoCmd
            /\ m = Command("cut", 0, 0, "process") \/ m = Command("cutclose", 0, 0, "process")
  BY CutIs, NoCmdIs DEF ClientTypes, ControlInv
<1>3. msg' \in [Conns -> Cmds] /\ msg'[c] = m /\ \A d \in Conns : d # c => msg'[d] = msg[d]
  BY <1>1, <1>2 DEF ClientTypes
<1>4. /\ up /\ conn[c] /\ ~ conn'[c] /\ conn' \in [Conns -> BOOLEAN]
      /\ \A d \in Conns : d # c => conn'[d] = conn[d]
  BY DEF Disconnect, ClientTypes
<1>5. lost' \subseteq Handles
  <2>1. msg[c].h \in Handles \cup {0}
    BY DEF ClientTypes, Cmds
  <2> QED  BY <1>1, <2>1 DEF ClientTypes
<1>6. /\ UNCHANGED <<ops, pending, tail, known, up, young, sock, table, mutating, heap>>
      /\ UNCHANGED <<pc, currentsocket, from, cmd, hnd, ht, ptr>>
  BY DEF Disconnect, tableVars, threadVars
<1> QED  BY <1>1, <1>2, <1>3, <1>4, <1>5, <1>6 DEF ClientTypes

\* What accepting a connection changes.
LEMMA AtAccept ==
    ASSUME ClientTypes, ThreadTypes, NEW c \in Conns, Accept(c)
    PROVE  /\ up /\ ~ conn[c] /\ pc[c] = "none" /\ msg[c] = NoCmd /\ MayConnect
           /\ conn'[c] /\ pc'[c] = "recv" /\ pending'[c] = "none" /\ ~ tail'[c]
           /\ \A f \in Fds : sock[f] # c
           /\ \A t \in Conns : pc[t] = "wait" => from[t] # c
           /\ \E f \in Fds : /\ sock[f] = None /\ sock'[f] = c /\ currentsocket'[c] = f
                             /\ \A g \in Fds : g # f => sock'[g] = sock[g]
           /\ \A d \in Conns : d # c => /\ conn'[d] = conn[d] /\ pending'[d] = pending[d] /\ tail'[d] = tail[d]
                                       /\ pc'[d] = pc[d] /\ currentsocket'[d] = currentsocket[d]
           /\ ClientTypes' /\ ThreadTypes'
           /\ UNCHANGED <<ops, msg, known, lost, up, young, table, mutating, heap>>
           /\ UNCHANGED <<from, cmd, hnd, ht, ptr>>
<1>1. PICK f \in Fds : /\ sock[f] = None /\ sock' = [sock EXCEPT ![f] = c]
                       /\ currentsocket' = [currentsocket EXCEPT ![c] = f]
  BY DEF Accept, FreeFds
<1>2. /\ up /\ ~ conn[c] /\ pc[c] = "none" /\ msg[c] = NoCmd /\ MayConnect
      /\ \A g \in Fds : sock[g] # c
      /\ \A t \in Conns : pc[t] = "wait" => from[t] # c
  BY DEF Accept
<1>3. conn'[c] /\ conn' \in [Conns -> BOOLEAN] /\ \A d \in Conns : d # c => conn'[d] = conn[d]
  BY DEF Accept, ClientTypes
<1>8. /\ pending'[c] = "none" /\ pending' \in [Conns -> Operations \cup {"none"}]
      /\ \A d \in Conns : d # c => pending'[d] = pending[d]
  BY DEF Accept, ClientTypes
<1>9. ~ tail'[c] /\ tail' \in [Conns -> BOOLEAN] /\ \A d \in Conns : d # c => tail'[d] = tail[d]
  BY DEF Accept, ClientTypes
<1>4. pc'[c] = "recv" /\ pc' \in [Conns -> PCs] /\ \A d \in Conns : d # c => pc'[d] = pc[d]
  BY DEF Accept, ThreadTypes, PCs
<1>5. /\ sock'[f] = c /\ sock' \in [Fds -> Conns \cup {None}] /\ \A g \in Fds : g # f => sock'[g] = sock[g]
  BY <1>1 DEF ClientTypes
<1>6. /\ currentsocket'[c] = f /\ currentsocket' \in [Conns -> Fds \cup {0}]
      /\ \A d \in Conns : d # c => currentsocket'[d] = currentsocket[d]
  BY <1>1 DEF ThreadTypes
<1>7. /\ UNCHANGED <<ops, msg, known, lost, up, young, table, mutating, heap>>
      /\ UNCHANGED <<from, cmd, hnd, ht, ptr>>
  BY DEF Accept, tableVars
<1> QED  BY <1>1, <1>2, <1>3, <1>4, <1>5, <1>6, <1>7, <1>8, <1>9 DEF ClientTypes, ThreadTypes

\* Send keeps BaseInv.
LEMMA BaseSend ==
    ASSUME BaseInv, NEW c \in Conns, NEW m \in Requests, Send(c, m)
    PROVE  BaseInv'
<1>1. ClientTypes /\ Proper(m)
  BY RequestIs DEF BaseInv, TypesInv
<1>2. TypesInv'
  BY <1>1, AtSend DEF BaseInv, TypesInv, TableTypes, HeapTyped, ThreadTypes
<1>3. \A d \in Conns : Proper(msg'[d])
  BY <1>1, AtSend DEF BaseInv, ControlInv
<1>4. \A t \in Conns : ControlOf(t)'
  BY <1>1, AtSend DEF BaseInv, ControlInv, ControlOf
<1>5. LocksHeld'
  BY <1>1, AtSend DEF BaseInv, LocksHeld
<1> QED  BY <1>2, <1>3, <1>4, <1>5 DEF BaseInv, ControlInv

\* Disconnect keeps BaseInv.
LEMMA BaseDisconnect ==
    ASSUME BaseInv, NEW c \in Conns, Disconnect(c)
    PROVE  BaseInv'
<1>1. ClientTypes /\ ControlInv
  BY DEF BaseInv, TypesInv
<1>2. TypesInv'
  BY <1>1, AtDisconnect DEF BaseInv, TypesInv, TableTypes, HeapTyped, ThreadTypes
<1>3. \A d \in Conns : Proper(msg'[d])
  BY <1>1, AtDisconnect DEF ControlInv
<1>4. \A t \in Conns : ControlOf(t)'
  BY <1>1, AtDisconnect DEF ControlInv, ControlOf
<1>5. LocksHeld'
  BY <1>1, AtDisconnect DEF BaseInv, LocksHeld
<1> QED  BY <1>2, <1>3, <1>4, <1>5 DEF BaseInv, ControlInv

\* Accept keeps BaseInv.
LEMMA BaseAccept ==
    ASSUME BaseInv, NEW c \in Conns, Accept(c)
    PROVE  BaseInv'
<1>1. ClientTypes /\ ThreadTypes
  BY DEF BaseInv, TypesInv
<1>2. TypesInv'
  BY <1>1, AtAccept DEF BaseInv, TypesInv, TableTypes, HeapTyped
<1>3. \A d \in Conns : Proper(msg'[d])
  BY <1>1, AtAccept DEF BaseInv, ControlInv
<1>4. ASSUME NEW t \in Conns PROVE ControlOf(t)'
  <2>1. CASE t = c
    <3>1. cmd[c] = NoCmd /\ c \notin mutating /\ Proper(cmd[c])
      BY <1>1, AtAccept DEF BaseInv, ControlInv, ControlOf, Fitting
    <3>2. Fitting(cmd[c], "recv")
      BY <3>1, NoCmdIs DEF Fitting, Brief
    <3>3. pc'[c] = "recv" /\ currentsocket'[c] \in Fds /\ UNCHANGED <<cmd, mutating>>
      BY <1>1, AtAccept
    <3> QED  BY <2>1, <3>1, <3>2, <3>3 DEF ControlOf
  <2>2. CASE t # c
    BY <1>1, <2>2, AtAccept DEF BaseInv, ControlInv, ControlOf
  <2> QED  BY <2>1, <2>2
<1>5. LocksHeld'
  <2>1. \A o \in Objs : heap[o].lock \in Conns \cup {None}
    BY DEF BaseInv, TypesInv, HeapTyped, HeapTypes
  <2> QED  BY <1>1, <2>1, AtAccept DEF BaseInv, LocksHeld
<1> QED  BY <1>2, <1>3, <1>4, <1>5 DEF BaseInv, ControlInv

\* Age keeps BaseInv.
LEMMA BaseAge ==
    ASSUME BaseInv, NEW o \in Objs, Age(o)
    PROVE  BaseInv'
<1>1. HeapTyped' /\ \A q \in Objs : heap'[q].lock = heap[q].lock
  BY HeapAge DEF BaseInv, TypesInv
<1>2. /\ UNCHANGED <<ops, conn, pending, tail, msg, known, lost, up, young, sock, table, mutating>>
      /\ UNCHANGED <<pc, currentsocket, from, cmd, hnd, ht, ptr>>
  BY DEF Age, clientVars, tableVars, threadVars
<1>3. TypesInv'
  BY <1>1, <1>2 DEF BaseInv, TypesInv, ClientTypes, TableTypes, ThreadTypes
<1>4. ControlInv'
  BY <1>2 DEF BaseInv, ControlInv, ControlOf
<1>5. LocksHeld'
  BY <1>1, <1>2 DEF BaseInv, LocksHeld
<1> QED  BY <1>3, <1>4, <1>5 DEF BaseInv

\* FirstMinute keeps BaseInv.
LEMMA BaseFirstMinute ==
    ASSUME BaseInv, FirstMinute
    PROVE  BaseInv'
<1>1. /\ UNCHANGED <<ops, conn, pending, tail, msg, known, lost, up, sock, table, mutating, heap>>
      /\ UNCHANGED <<pc, currentsocket, from, cmd, hnd, ht, ptr>> /\ young' \in BOOLEAN
  BY DEF FirstMinute, clientVars, tableVars, threadVars
<1>2. TypesInv'
  BY <1>1 DEF BaseInv, TypesInv, ClientTypes, TableTypes, HeapTyped, ThreadTypes
<1>3. ControlInv' /\ LocksHeld'
  BY <1>1 DEF BaseInv, ControlInv, ControlOf, LocksHeld
<1> QED  BY <1>2, <1>3 DEF BaseInv

\* BaseInv holds initially.
LEMMA BaseInit == Init => BaseInv
<1> SUFFICES ASSUME Init PROVE BaseInv
  OBVIOUS
<1>1. ClientTypes
  <2>1. young \in BOOLEAN
    <3>1. FALSE \in BOOLEAN /\ ("query" \in ops) \in BOOLEAN
      OBVIOUS
    <3>2. young \in {FALSE, "query" \in ops}
      BY DEF Init
    <3> QED  BY <3>1, <3>2, Zenon
  <2> QED  BY <2>1, NoCmdIs DEF Init, ClientTypes
<1>2. TableTypes
  BY DEF Init, TableTypes, Empty, Types
<1>3. HeapTyped
  BY FreedIs DEF Init, HeapTyped
<1>4. ThreadTypes
  BY NoCmdIs DEF Init, ThreadTypes, PCs, Types
<1>5. ControlInv
  BY NoCmdIs DEF Init, ControlInv, ControlOf, Fitting, Brief
<1>6. LocksHeld
  BY NoneAssumption DEF Init, LocksHeld, Freed, Object
<1> QED  BY <1>1, <1>2, <1>3, <1>4, <1>5, <1>6 DEF BaseInv, TypesInv

\* Every step keeps BaseInv.
LEMMA BaseNext == BaseInv /\ [Next]_vars => BaseInv'
<1> SUFFICES ASSUME BaseInv, [Next]_vars PROVE BaseInv'
  OBVIOUS
<1>1. CASE Client
  BY <1>1, BaseSend, BaseDisconnect, BaseAccept, BaseAge, BaseFirstMinute DEF Client
<1>2. ASSUME NEW t \in Conns, Thread(t) PROVE BaseInv'
  BY <1>2, BaseRecv, BaseRecvEnd, BaseExit, BaseDispatch, BaseHangUp, BaseTerminate, BaseInfo, BaseFindPid,
     BaseGetHandleType, BaseGetPointerFromHandle, BaseBuild, BaseInsert, BaseInserted, BaseList, BaseDelete,
     BaseErase, BaseErased, BaseIterate, BaseMemory, BaseLock, BaseCheck, BaseFill, BaseScan DEF Thread
<1>3. CASE UNCHANGED vars
  BY <1>3 DEF vars, clientVars, tableVars, threadVars, BaseInv, TypesInv, ClientTypes, TableTypes,
     HeapTyped, ThreadTypes, ControlInv, ControlOf, LocksHeld
<1> QED  BY <1>1, <1>2, <1>3 DEF Next

\* BaseInv holds in every reachable state, for every client.
LEMMA BaseCorrect == Spec => []BaseInv
  BY BaseInit, BaseNext, PTL DEF Spec

\* LocksHeld, for every client: the mutex of a region cache is held only by a
\* thread inside VirtualQueryEx or VirtualQueryExFull on that object.
THEOREM LocksAlwaysHeld == Spec => []LocksHeld
<1>1. BaseInv => LocksHeld
  BY DEF BaseInv
<1> QED  BY <1>1, BaseCorrect, PTL

\* TypeOK, for every client: lookups give handles or 0, iterators of lists stop
\* at the bound that stands for what lies past the list.
THEOREM CeTypeCorrect == Spec => []TypeOK
<1>1. BaseInv => TypeOK
  BY DEF BaseInv, TypesInv, ClientTypes, TableTypes, HeapTyped, HeapTypes, ThreadTypes, TypeOK
<1> QED  BY <1>1, BaseCorrect, PTL


-----------------------------------------------------------------------------
(* Connections, threads and commands of a careful client.                  *)

\* A thread between commands; one that closes a handle.
Loop       == {"none", "recv", "wait", "exit"}
Closing(t) == pc[t] \in {"ctype", "cptr", "delete", "erase", "erasing"}

\* A thread serves its own connection, or none: then the client, which has lost
\* it, does not connect again.
SocketInv ==
    /\ \A t \in Conns : pc[t] # "none" =>
           /\ Peer(t) \in {t, None}
           /\ Peer(t) = None => ~ conn[t] /\ (pending[t] # "none" \/ tail[t])
    /\ \A f \in Fds : sock[f] # None => pc[sock[f]] # "none" /\ currentsocket[sock[f]] = f
    /\ \A c \in Conns : conn[c] => pc[c] \notin {"none", "exit"} /\ Peer(c) = c
    /\ \A t \in Conns : pc[t] = "wait" => from[t] = t /\ Peer(t) = t

\* What is left of a command when its connection broke.
Remnant(m, c) == m.op \in {"cut", "cutclose"} /\ ~ conn[c]

\* A command on its way, or in its handler, is one that the client waits for;
\* a list may have been answered while its handler still closes the handle.
MsgInv(c) == msg[c] # NoCmd => pending[c] # "none" /\ (pending[c] = msg[c].op \/ Remnant(msg[c], c))
CmdInv(t) ==
    cmd[t] # NoCmd =>
        \/ pending[t] # "none" /\ msg[t] = NoCmd /\ (pending[t] = cmd[t].op \/ Remnant(cmd[t], t))
        \/ tail[t] /\ Listed(cmd[t]) /\ Closing(t)

\* What the client waits for is on its way or owed by the thread.
OwedInv(c) == conn[c] /\ pending[c] \notin {"none", "aob"} /\ msg[c] = NoCmd => Answering(c)

\* What MaySend asks for lasts.
ApartInv == \A c, d \in Conns : c # d /\ MayChange(c) => ~ MayUse(d)
FlagsInv == \A c \in Conns : /\ msg[c].as = "thread" => msg[c].kind = "thread"
                             /\ cmd[c].as = "thread" => cmd[c].kind = "thread"

LinkInv ==
    /\ SocketInv /\ ApartInv /\ FlagsInv
    /\ \A c \in Conns : MsgInv(c) /\ CmdInv(c) /\ OwedInv(c)

\* A step that sends an answer, the last one of its handler or a list before
\* its handle is closed.
Replied(t) ==
    /\ IF Delivered(t)
       THEN /\ \A c \in Conns : pending'[c] = IF c = Peer(t) THEN "none" ELSE pending[c]
            /\ \A c \in Conns : tail'[c] = IF c = Peer(t) THEN Listed(cmd[t]) ELSE tail[c]
       ELSE UNCHANGED <<pending, tail>>
    /\ cmd[t].op \notin {"cut", "cutclose"} /\ ~ (Closing(t) /\ Listed(cmd[t]))
    /\ cmd'[t] # NoCmd => Listed(cmd[t]) /\ Closing(t)'

\* A step that sends none, and leaves an answer that is due to a later one.
Silent(t) ==
    /\ UNCHANGED <<pending, tail>>
    /\ Answering(t) => Answering(t)'
    /\ Closing(t) /\ cmd'[t] # NoCmd => Closing(t)'

\* Every step inside a handler does one or the other, and leaves the connection
\* alone.
Inside(t) ==
    /\ Others(t) /\ Placed(t) /\ UNCHANGED <<conn, msg, sock>>
    /\ pc[t] \notin Loop /\ pc'[t] \notin {"none", "wait", "exit"}
    /\ cmd'[t] \in {cmd[t], NoCmd}
    /\ Replied(t) \/ Silent(t)

\* An answer that ends a handler, or is followed by closing the list.
LEMMA Answers ==
    ASSUME BaseInv, NEW t \in Conns, NEW hs \in SUBSET (Handles \cup {0}), NEW ok, Answer(t, hs, ok),
           pc[t] \notin Loop \cup {"cut", "cutclose"}, ~ (Closing(t) /\ Listed(cmd[t])),
           pc'[t] \notin {"none", "wait", "exit"}, Others(t), Placed(t),
           Returned(t) \/ (cmd'[t] = cmd[t] /\ Listed(cmd[t]) /\ Closing(t)')
    PROVE  Inside(t)
<1>1. /\ Delivered(t) => /\ \A c \in Conns : pending'[c] = IF c = Peer(t) THEN "none" ELSE pending[c]
                         /\ \A c \in Conns : tail'[c] = IF c = Peer(t) THEN Listed(cmd[t]) ELSE tail[c]
      /\ ~ Delivered(t) => UNCHANGED <<pending, tail>>
      /\ UNCHANGED <<conn, msg, sock>>
  BY AnswerIs DEF BaseInv, TypesInv
<1>2. cmd[t].op \notin {"cut", "cutclose"}
  <2>1. pc[t] \in PCs /\ Fitting(cmd[t], pc[t])
    BY DEF BaseInv, TypesInv, ThreadTypes, ControlInv, ControlOf
  <2> QED  BY <2>1 DEF Fitting, PCs, Brief, Loop, InModule, Creates, Users, Listed, Moves, Queries
<1>3. cmd'[t] \in {cmd[t], NoCmd} /\ (cmd'[t] # NoCmd => Listed(cmd[t]) /\ Closing(t)')
  BY DEF Returned
<1> QED  BY <1>1, <1>2, <1>3 DEF Inside, Replied

\* A step that sends nothing and does not end what has to be answered.
LEMMA Silences ==
    ASSUME NEW t \in Conns, Silence, pc[t] \notin Loop, pc'[t] \notin {"none", "wait", "exit"},
           Others(t), Placed(t), Answering(t) => Answering(t)',
           Returned(t) \/ (cmd'[t] = cmd[t] /\ (Closing(t) => Closing(t)'))
    PROVE  Inside(t)
<1>1. UNCHANGED <<conn, msg, sock, pending, tail>>
  BY DEF Silence, clientVars
<1> QED  BY <1>1 DEF Inside, Silent, Returned

\* Info answers, except for what is left of a command and for CMD_AOBSCAN.
LEMMA InsideInfo ==
    ASSUME BaseInv, NEW t \in Conns, Info(t)
    PROVE  Inside(t)
<1>1. ThreadTypes /\ ControlOf(t)
  BY DEF BaseInv, TypesInv, ControlInv
<1>2. CASE pc[t] = "info"
  <2>1. Answer(t, {}, TRUE)
    BY <1>2 DEF Info
  <2> QED  BY <1>1, <1>2, <2>1, Answers, AtInfo DEF Loop, Closing
<1>3. CASE pc[t] # "info"
  <2>1. Silence
    BY <1>3 DEF Info
  <2> QED  BY <1>1, <1>3, <2>1, Silences, AtInfo DEF Loop, Closing, Answering
<1> QED  BY <1>2, <1>3

\* FindPid answers when the process is open already, or is not for a list of modules.
LEMMA InsideFindPid ==
    ASSUME BaseInv, NEW t \in Conns, FindPid(t)
    PROVE  Inside(t)
<1>1. ThreadTypes /\ ControlOf(t)
  BY DEF BaseInv, TypesInv, ControlInv
<1> DEFINE h == FindHandleByPID(cmd[t].pid)
           done == (h # 0) = (cmd[t].op = "open")
<1>2. CASE done
  <2>1. PICK ok : Answer(t, {h}, ok)
    BY <1>2 DEF FindPid
  <2>2. {h} \in SUBSET (Handles \cup {0})
    BY HandleOfPid
  <2> HIDE DEF h
  <2> QED  BY <1>1, <1>2, <2>1, <2>2, Answers, AtFindPid DEF Loop, Closing, h
<1>3. CASE ~ done
  <2>1. UNCHANGED clientVars /\ UNCHANGED sock
    BY <1>3 DEF FindPid
  <2>2. Others(t) /\ Placed(t) /\ pc[t] = "find" /\ pc'[t] \in {"build", "ptr"} /\ cmd'[t] = cmd[t]
    BY <1>1, <1>3, AtFindPid
  <2>3. UNCHANGED <<conn, msg, sock, pending, tail>>
    BY <2>1 DEF clientVars
  <2> QED  BY <2>2, <2>3 DEF Inside, Silent, Loop, Closing, Answering
<1> QED  BY <1>2, <1>3

\* GetHandleType answers when the handle is not of the type that the call needs.
LEMMA InsideGetHandleType ==
    ASSUME BaseInv, NEW t \in Conns, GetHandleType(t)
    PROVE  Inside(t)
<1>1. ThreadTypes /\ ControlOf(t)
  BY DEF BaseInv, TypesInv, ControlInv
<1>2. PICK e \in Find(t, hnd[t]) :
          IF pc[t] # "ctype" /\ e.type # Wanted(cmd[t])
          THEN /\ Answer(t, {}, TRUE)
               /\ IF pc[t] = "xtype" THEN GoOn(t, "ctype") ELSE Return(t)
          ELSE /\ ht' = [ht EXCEPT ![t] = e.type]
               /\ pc' = [pc EXCEPT ![t] = Typed[@]]
               /\ Silence
               /\ UNCHANGED <<cmd, hnd, ptr>>
  BY DEF GetHandleType
<1>3. Others(t) /\ Placed(t) /\ pc[t] \in {"type", "ctype", "xtype"}
  BY <1>1, AtGetHandleType
<1>4. pc[t] \notin Loop \cup {"cut", "cutclose"}
  BY <1>3 DEF Loop
<1>5. CASE pc[t] # "ctype" /\ e.type # Wanted(cmd[t])
  <2>1. Answer(t, {}, TRUE) /\ IF pc[t] = "xtype" THEN GoOn(t, "ctype") ELSE Return(t)
    BY <1>2, <1>5
  <2>2. CASE pc[t] = "xtype"
    <3>1. pc'[t] = "ctype" /\ cmd'[t] = cmd[t] /\ Listed(cmd[t])
      BY <1>1, <2>1, <2>2 DEF GoOn, ThreadTypes, ControlOf, Fitting
    <3> QED  BY <1>3, <1>4, <2>1, <2>2, <3>1, Answers DEF Closing
  <2>3. CASE pc[t] # "xtype"
    <3>1. pc'[t] = "recv" /\ Returned(t)
      BY <1>1, <2>1, <2>3 DEF Return, Returned, ThreadTypes
    <3> QED  BY <1>3, <1>4, <1>5, <2>1, <2>3, <3>1, Answers DEF Closing
  <2> QED  BY <2>2, <2>3
<1>6. CASE ~ (pc[t] # "ctype" /\ e.type # Wanted(cmd[t]))
  <2>1. Silence /\ pc'[t] = Typed[pc[t]] /\ cmd'[t] = cmd[t]
    BY <1>1, <1>2, <1>6 DEF ThreadTypes
  <2>2. pc'[t] = IF pc[t] = "type" THEN "ptr" ELSE IF pc[t] = "ctype" THEN "cptr" ELSE "xptr"
    BY <1>3, <2>1 DEF Typed
  <2> QED  BY <1>3, <1>4, <2>1, <2>2, Silences DEF Closing, Answering
<1> QED  BY <1>5, <1>6

\* GetPointerFromHandle does not answer.
LEMMA InsideGetPointerFromHandle ==
    ASSUME BaseInv, NEW t \in Conns, GetPointerFromHandle(t)
    PROVE  Inside(t)
<1>1. ThreadTypes /\ ControlOf(t)
  BY DEF BaseInv, TypesInv, ControlInv
<1>2. Silence
  BY DEF GetPointerFromHandle, Silence, clientVars
<1>3. Others(t) /\ Placed(t) /\ pc[t] \in {"ptr", "cptr", "xptr"} /\ pc'[t] = Use(t) /\ cmd'[t] = cmd[t]
  BY <1>1, AtGetPointerFromHandle
<1>4. /\ pc[t] = "cptr" => Use(t) = "delete"
      /\ pc[t] # "cptr" => Use(t) \in {"list", "build", "iter", "lock", "mem"}
  BY <1>1, <1>3 DEF Use, ControlOf, Fitting, Users, InModule
<1> QED  BY <1>2, <1>3, <1>4, Silences DEF Loop, Closing, Answering

\* Build answers when it fails.
LEMMA InsideBuild ==
    ASSUME BaseInv, NEW t \in Conns, Build(t)
    PROVE  Inside(t)
<1>1. ThreadTypes /\ ControlOf(t)
  BY DEF BaseInv, TypesInv, ControlInv
<1>2. (\E ok : Answer(t, {}, ok) /\ Return(t)) \/ (UNCHANGED <<clientVars, sock, cmd>> /\ pc'[t] = "insert")
  BY <1>1 DEF Build, ThreadTypes
<1>3. Others(t) /\ Placed(t) /\ pc[t] = "build"
  BY <1>1, AtBuild
<1>4. ASSUME NEW ok, Answer(t, {}, ok), Return(t) PROVE Inside(t)
  <2>1. pc'[t] = "recv" /\ Returned(t)
    BY <1>1, <1>4 DEF Return, Returned, ThreadTypes
  <2> QED  BY <1>3, <1>4, <2>1, Answers DEF Loop, Closing
<1>5. CASE UNCHANGED <<clientVars, sock, cmd>> /\ pc'[t] = "insert"
  BY <1>3, <1>5 DEF Inside, Silent, Loop, Closing, Answering, clientVars
<1> QED  BY <1>2, <1>4, <1>5

\* Insert does not answer.
LEMMA InsideInsert ==
    ASSUME BaseInv, NEW t \in Conns, Insert(t)
    PROVE  Inside(t)
<1>1. ThreadTypes /\ ControlOf(t)
  BY DEF BaseInv, TypesInv, ControlInv
<1>2. UNCHANGED clientVars /\ UNCHANGED sock
  BY DEF Insert
<1>3. Others(t) /\ Placed(t) /\ pc[t] = "insert" /\ pc'[t] = "inserting" /\ cmd'[t] = cmd[t]
  BY <1>1, AtInsert
<1> QED  BY <1>2, <1>3 DEF Inside, Silent, Loop, Closing, Answering, clientVars

\* Inserted answers with the handle, unless a list is to be sent first.
LEMMA InsideInserted ==
    ASSUME BaseInv, NEW t \in Conns, Inserted(t)
    PROVE  Inside(t)
<1>1. ThreadTypes /\ ControlOf(t)
  BY DEF BaseInv, TypesInv, ControlInv
<1>2. CASE Listed(cmd[t])
  <2>1. Silence
    BY <1>2 DEF Inserted
  <2> QED  BY <1>1, <1>2, <2>1, Silences, AtInserted DEF Loop, Closing, Answering, AfterInsert, Kept
<1>3. CASE ~ Listed(cmd[t])
  <2>1. Answer(t, {hnd[t]}, TRUE) /\ {hnd[t]} \in SUBSET (Handles \cup {0})
    BY <1>1, <1>3 DEF Inserted, ThreadTypes
  <2> QED  BY <1>1, <1>3, <2>1, Answers, AtInserted DEF Loop, Closing
<1> QED  BY <1>2, <1>3

\* List answers.
LEMMA InsideList ==
    ASSUME BaseInv, NEW t \in Conns, List(t)
    PROVE  Inside(t)
<1>1. ThreadTypes /\ ControlOf(t)
  BY DEF BaseInv, TypesInv, ControlInv
<1>2. PICK ok : Answer(t, {}, ok)
  BY DEF List
<1>3. Listed(cmd[t])
  BY <1>1, AtList DEF ControlOf, Fitting
<1> QED  BY <1>1, <1>2, <1>3, Answers, AtList DEF Loop, Closing, Kept

\* Delete does not answer.
LEMMA InsideDelete ==
    ASSUME BaseInv, NEW t \in Conns, Delete(t)
    PROVE  Inside(t)
<1>1. ThreadTypes /\ ControlOf(t)
  BY DEF BaseInv, TypesInv, ControlInv
<1>2. UNCHANGED clientVars /\ UNCHANGED sock
  BY DEF Delete
<1>3. Others(t) /\ Placed(t) /\ pc[t] = "delete" /\ pc'[t] = "erase" /\ cmd'[t] = cmd[t]
  BY <1>1, AtDelete DEF Kept
<1> QED  BY <1>2, <1>3 DEF Inside, Silent, Loop, Closing, Answering, clientVars

\* Erase answers a CMD_CLOSEHANDLE at its end.
LEMMA InsideErase ==
    ASSUME BaseInv, NEW t \in Conns, Erase(t)
    PROVE  Inside(t)
<1>1. ThreadTypes /\ ControlOf(t)
  BY DEF BaseInv, TypesInv, ControlInv
<1>2. CloseAnswer(t) \/ (Silence /\ pc'[t] = "erasing" /\ cmd'[t] = cmd[t])
  BY <1>1 DEF Erase, GoOn, ThreadTypes
<1>3. Others(t) /\ Placed(t) /\ pc[t] = "erase"
  BY <1>1, AtErase
<1>4. ASSUME CloseAnswer(t) PROVE Inside(t)
  <2>1. pc'[t] = "recv" /\ Returned(t)
    BY <1>1, <1>4 DEF CloseAnswer, Return, Returned, ThreadTypes
  <2>2. CASE cmd[t].op = "close"
    <3>1. Answer(t, {}, TRUE) /\ ~ Listed(cmd[t])
      BY <1>4, <2>2 DEF CloseAnswer, Listed
    <3> QED  BY <1>3, <2>1, <3>1, Answers DEF Loop
  <2>3. CASE cmd[t].op # "close"
    <3>1. Silence /\ ~ Answering(t)
      BY <1>3, <1>4, <2>3 DEF CloseAnswer, Answering
    <3> QED  BY <1>3, <2>1, <3>1, Silences DEF Loop
  <2> QED  BY <2>2, <2>3
<1>5. CASE Silence /\ pc'[t] = "erasing" /\ cmd'[t] = cmd[t]
  BY <1>3, <1>5, Silences DEF Loop, Closing, Answering
<1> QED  BY <1>2, <1>4, <1>5

\* Erased answers a CMD_CLOSEHANDLE at its end.
LEMMA InsideErased ==
    ASSUME BaseInv, NEW t \in Conns, Erased(t)
    PROVE  Inside(t)
<1>1. ThreadTypes /\ ControlOf(t)
  BY DEF BaseInv, TypesInv, ControlInv
<1>2. CloseAnswer(t) \/ (Silence /\ pc'[t] = "erasing" /\ cmd'[t] = cmd[t])
  BY <1>1 DEF Erased, GoOn, ThreadTypes
<1>3. Others(t) /\ Placed(t) /\ pc[t] = "erasing"
  BY <1>1, AtErased
<1>4. ASSUME CloseAnswer(t) PROVE Inside(t)
  <2>1. pc'[t] = "recv" /\ Returned(t)
    BY <1>1, <1>4 DEF CloseAnswer, Return, Returned, ThreadTypes
  <2>2. CASE cmd[t].op = "close"
    <3>1. Answer(t, {}, TRUE) /\ ~ Listed(cmd[t])
      BY <1>4, <2>2 DEF CloseAnswer, Listed
    <3> QED  BY <1>3, <2>1, <3>1, Answers DEF Loop
  <2>3. CASE cmd[t].op # "close"
    <3>1. Silence /\ ~ Answering(t)
      BY <1>3, <1>4, <2>3 DEF CloseAnswer, Answering
    <3> QED  BY <1>3, <2>1, <3>1, Silences DEF Loop
  <2> QED  BY <2>2, <2>3
<1>5. CASE Silence /\ pc'[t] = "erasing" /\ cmd'[t] = cmd[t]
  BY <1>3, <1>5, Silences DEF Loop, Closing, Answering
<1> QED  BY <1>2, <1>4, <1>5

\* Iterate answers.
LEMMA InsideIterate ==
    ASSUME BaseInv, NEW t \in Conns, Iterate(t)
    PROVE  Inside(t)
<1>1. ThreadTypes /\ ControlOf(t)
  BY DEF BaseInv, TypesInv, ControlInv
<1>2. PICK ok : Answer(t, {}, ok)
  BY DEF Iterate
<1> QED  BY <1>1, <1>2, Answers, AtIterate DEF Loop, Closing

\* Memory answers.
LEMMA InsideMemory ==
    ASSUME BaseInv, NEW t \in Conns, Memory(t)
    PROVE  Inside(t)
<1>1. ThreadTypes /\ ControlOf(t)
  BY DEF BaseInv, TypesInv, ControlInv
<1>2. PICK ok : Answer(t, {}, ok)
  BY DEF Memory
<1> QED  BY <1>1, <1>2, Answers, AtMemory DEF Loop, Closing

\* Lock answers only without an object.
LEMMA InsideLock ==
    ASSUME BaseInv, NEW t \in Conns, Lock(t)
    PROVE  Inside(t)
<1>1. ThreadTypes /\ ControlOf(t)
  BY DEF BaseInv, TypesInv, ControlInv
<1>2. CASE Live(t, "open")
  <2>1. Silence
    BY <1>2 DEF Lock
  <2> QED  BY <1>1, <1>2, <2>1, Silences, AtLock DEF Loop, Closing, Answering, Kept
<1>3. CASE ~ Live(t, "open")
  <2>1. Answer(t, {}, FALSE)
    BY <1>3 DEF Lock
  <2> QED  BY <1>1, <1>3, <2>1, Answers, AtLock DEF Loop, Closing
<1> QED  BY <1>2, <1>3

\* Check does not answer.
LEMMA InsideCheck ==
    ASSUME BaseInv, NEW t \in Conns, Check(t)
    PROVE  Inside(t)
<1>1. ThreadTypes /\ ControlOf(t)
  BY DEF BaseInv, TypesInv, ControlInv
<1>2. UNCHANGED clientVars /\ UNCHANGED sock
  BY DEF Check
<1>3. Others(t) /\ Placed(t) /\ pc[t] = "locked" /\ pc'[t] \in {"fill", "scan"} /\ cmd'[t] = cmd[t]
  BY <1>1, AtCheck DEF Kept
<1> QED  BY <1>2, <1>3 DEF Inside, Silent, Loop, Closing, Answering, clientVars

\* Fill answers when the driver fails.
LEMMA InsideFill ==
    ASSUME BaseInv, NEW t \in Conns, Fill(t)
    PROVE  Inside(t)
<1>1. ThreadTypes /\ ControlOf(t)
  BY DEF BaseInv, TypesInv, ControlInv
<1>2. (Silence /\ GoOn(t, "scan")) \/ (Answer(t, {}, TRUE) /\ Return(t))
  BY DEF Fill
<1>3. Others(t) /\ Placed(t) /\ pc[t] = "fill"
  BY <1>1, AtFill
<1>4. CASE Silence /\ GoOn(t, "scan")
  <2>1. pc'[t] = "scan" /\ cmd'[t] = cmd[t]
    BY <1>1, <1>4 DEF GoOn, ThreadTypes
  <2> QED  BY <1>3, <1>4, <2>1, Silences DEF Loop, Closing, Answering
<1>5. CASE Answer(t, {}, TRUE) /\ Return(t)
  <2>1. pc'[t] = "recv" /\ Returned(t)
    BY <1>1, <1>5 DEF Return, Returned, ThreadTypes
  <2> QED  BY <1>3, <1>5, <2>1, Answers DEF Loop, Closing
<1> QED  BY <1>2, <1>4, <1>5

\* Scan answers.
LEMMA InsideScan ==
    ASSUME BaseInv, NEW t \in Conns, Scan(t)
    PROVE  Inside(t)
<1>1. ThreadTypes /\ ControlOf(t)
  BY DEF BaseInv, TypesInv, ControlInv
<1>2. PICK ok : Answer(t, {}, ok)
  BY DEF Scan
<1> QED  BY <1>1, <1>2, Answers, AtScan DEF Loop, Closing

\* The steps of a thread: its receive loop, a command taken, the end of a
\* connection, or a step inside a handler.
LEMMA ThreadSteps ==
    ASSUME BaseInv, NEW t \in Conns, Thread(t)
    PROVE  \/ Recv(t) \/ RecvEnd(t) \/ Dispatch(t) \/ Exit(t) \/ HangUp(t) \/ Terminate(t)
           \/ Inside(t)
  BY InsideInfo, InsideFindPid, InsideGetHandleType, InsideGetPointerFromHandle, InsideBuild,
     InsideInsert, InsideInserted, InsideList, InsideDelete, InsideErase, InsideErased, InsideIterate,
     InsideMemory, InsideLock, InsideCheck, InsideFill, InsideScan DEF Thread

-----------------------------------------------------------------------------
(* LinkInv is kept.                                                        *)

\* The command of a thread inside a handler.
LEMMA Commanded ==
    ASSUME BaseInv, NEW t \in Conns, pc[t] \notin Loop
    PROVE  cmd[t] # NoCmd
<1>1. pc[t] \in PCs /\ Fitting(cmd[t], pc[t])
  BY DEF BaseInv, TypesInv, ThreadTypes, ControlInv, ControlOf
<1>2. cmd[t].op # "none"
  BY <1>1 DEF Fitting, PCs, Loop, Brief, InModule, Creates, Users, Listed, Moves, Queries
<1> QED  BY <1>2, NoCmdIs

\* The commands in the server are commands that the client waits for.
LEMMA CommandsMay ==
    ASSUME LinkInv, NEW t \in Conns
    PROVE  /\ cmd[t].op \in Changing => MayChange(t)
           /\ cmd[t].op \in Users \cup Changing => MayUse(t)
<1>1. CmdInv(t)
  BY DEF LinkInv
<1>2. cmd[t].op \in Users \cup Changing => cmd[t] # NoCmd /\ cmd[t].op \notin {"cut", "cutclose"}
  BY DEF NoCmd, Command, Users, Changing
<1> QED  BY <1>1, <1>2 DEF CmdInv, Remnant, MayChange, MayUse

\* A step of one thread that leaves the connections, the messages and the
\* descriptors as they are, and every other connection entirely.
LEMMA LinkOne ==
    ASSUME BaseInv, LinkInv, NEW t \in Conns, Others(t), UNCHANGED <<conn, msg, sock>>, Placed(t),
           \A c \in Conns : c # t => pending'[c] = pending[c] /\ tail'[c] = tail[c],
           pc[t] # "none", pc'[t] \notin {"none", "wait"}, pc'[t] = "exit" => ~ conn[t],
           Peer(t) = None => UNCHANGED <<pending, tail>>,
           MsgInv(t)', CmdInv(t)', OwedInv(t)', cmd'[t] \in {cmd[t], NoCmd},
           MayChange(t)' => MayChange(t), MayUse(t)' => MayUse(t)
    PROVE  LinkInv'
<1>1. \A u \in Conns : /\ Peer(u)' = Peer(u) /\ currentsocket'[u] = currentsocket[u]
                       /\ pc'[u] = "none" <=> pc[u] = "none"
                       /\ pc'[u] = "exit" => pc[u] = "exit" \/ (u = t /\ ~ conn[t])
                       /\ pc'[u] = "wait" => pc[u] = "wait" /\ from'[u] = from[u]
  BY DEF Others, Placed, Peer
<1>2. SocketInv'
  <2>1. \A u \in Conns : pc'[u] # "none" =>
           /\ Peer(u)' \in {u, None}
           /\ Peer(u)' = None => ~ conn'[u] /\ (pending'[u] # "none" \/ tail'[u])
    BY <1>1 DEF LinkInv, SocketInv
  <2>2. \A f \in Fds : sock'[f] # None => pc'[sock'[f]] # "none" /\ currentsocket'[sock'[f]] = f
    BY <1>1 DEF LinkInv, SocketInv, BaseInv, TypesInv, ClientTypes
  <2>3. \A c \in Conns : conn'[c] => pc'[c] \notin {"none", "exit"} /\ Peer(c)' = c
    BY <1>1 DEF LinkInv, SocketInv
  <2>4. \A u \in Conns : pc'[u] = "wait" => from'[u] = u /\ Peer(u)' = u
    BY <1>1 DEF LinkInv, SocketInv
  <2> QED  BY <2>1, <2>2, <2>3, <2>4 DEF SocketInv
<1>3. \A c \in Conns : (MayChange(c)' => MayChange(c)) /\ (MayUse(c)' => MayUse(c))
  BY DEF MayChange, MayUse
<1>4. ApartInv'
  BY <1>3 DEF LinkInv, ApartInv
<1>5. FlagsInv'
  <2>1. NoCmd.as # "thread"
    BY DEF NoCmd, Command
  <2> QED  BY <2>1 DEF LinkInv, FlagsInv, Others
<1>6. \A c \in Conns : MsgInv(c)' /\ CmdInv(c)' /\ OwedInv(c)'
  <2> SUFFICES ASSUME NEW c \in Conns, c # t PROVE MsgInv(c)' /\ CmdInv(c)' /\ OwedInv(c)'
    OBVIOUS
  <2>1. MsgInv(c) /\ CmdInv(c) /\ OwedInv(c)
    BY DEF LinkInv
  <2> QED  BY <2>1 DEF MsgInv, CmdInv, OwedInv, Remnant, Closing, Answering, Others
<1> QED  BY <1>2, <1>4, <1>5, <1>6 DEF LinkInv

\* A step inside a handler.
LEMMA LinkInside ==
    ASSUME BaseInv, LinkInv, NEW t \in Conns, Inside(t)
    PROVE  LinkInv'
<1>1. Others(t) /\ Placed(t) /\ UNCHANGED <<conn, msg, sock>> /\ pc[t] # "none"
      /\ pc'[t] \notin {"none", "wait", "exit"} /\ cmd'[t] \in {cmd[t], NoCmd}
  BY DEF Inside, Loop
<1>2. MsgInv(t) /\ CmdInv(t) /\ OwedInv(t) /\ cmd[t] # NoCmd
  BY Commanded DEF LinkInv, Inside
<1>3. Peer(t) \in {t, None} /\ (conn[t] => Peer(t) = t)
  BY <1>1 DEF LinkInv, SocketInv
<1>4. CASE Silent(t)
  <2>1. UNCHANGED <<pending, tail>>
    BY <1>4 DEF Silent
  <2>2. MsgInv(t)' /\ CmdInv(t)' /\ OwedInv(t)'
    BY <1>1, <1>2, <1>4, <2>1 DEF MsgInv, CmdInv, OwedInv, Remnant, Silent
  <2>3. (MayChange(t)' => MayChange(t)) /\ (MayUse(t)' => MayUse(t))
    BY <2>1 DEF MayChange, MayUse
  <2> QED  BY <1>1, <2>1, <2>2, <2>3, LinkOne
<1>5. CASE Replied(t)
  <2>1. msg[t] = NoCmd /\ pending[t] = cmd[t].op /\ pending[t] # "none"
    BY <1>2, <1>5 DEF CmdInv, Replied, Remnant
  <2>2. CASE Delivered(t)
    <3>1. /\ Peer(t) = t /\ pending'[t] = "none" /\ tail'[t] = Listed(cmd[t])
          /\ \A c \in Conns : c # t => pending'[c] = pending[c] /\ tail'[c] = tail[c]
      BY <1>3, <1>5, <2>2 DEF Delivered, Replied
    <3>2. MsgInv(t)' /\ CmdInv(t)' /\ OwedInv(t)'
      BY <1>1, <1>5, <2>1, <3>1 DEF MsgInv, CmdInv, OwedInv, Replied
    <3>3. (MayChange(t)' => MayChange(t)) /\ (MayUse(t)' => MayUse(t))
      BY <2>1, <3>1 DEF MayChange, MayUse, Listed, Changing, Users
    <3>4. Peer(t) # None
      BY <3>1, NoneAssumption
    <3> QED  BY <1>1, <3>1, <3>2, <3>3, <3>4, LinkOne
  <2>3. CASE ~ Delivered(t)
    <3>1. UNCHANGED <<pending, tail>> /\ ~ conn[t]
      BY <1>3, <1>5, <2>3, NoneAssumption DEF Delivered, Replied
    <3>2. MsgInv(t)' /\ CmdInv(t)' /\ OwedInv(t)'
      BY <1>1, <1>2, <1>5, <2>1, <3>1 DEF MsgInv, CmdInv, OwedInv, Remnant, Replied
    <3>3. (MayChange(t)' => MayChange(t)) /\ (MayUse(t)' => MayUse(t))
      BY <3>1 DEF MayChange, MayUse
    <3> QED  BY <1>1, <3>1, <3>2, <3>3, LinkOne
  <2> QED  BY <2>2, <2>3
<1> QED  BY <1>4, <1>5 DEF Inside

\* RecvEnd keeps LinkInv.
LEMMA LinkRecvEnd ==
    ASSUME BaseInv, LinkInv, NEW t \in Conns, RecvEnd(t)
    PROVE  LinkInv'
<1>1. /\ Others(t) /\ pc[t] = "wait" /\ pc'[t] = "exit" /\ cmd'[t] = cmd[t] /\ currentsocket'[t] = currentsocket[t]
      /\ from'[t] = None
  BY AtRecvEnd DEF BaseInv, TypesInv, Kept
<1>2. UNCHANGED <<conn, msg, sock, pending, tail>> /\ ~ conn[from[t]]
  BY DEF RecvEnd, clientVars
<1>3. from[t] = t /\ ~ conn[t]
  BY <1>1, <1>2 DEF LinkInv, SocketInv
<1>4. \A u \in Conns : /\ Peer(u)' = Peer(u) /\ currentsocket'[u] = currentsocket[u]
                       /\ pc'[u] = "none" <=> pc[u] = "none"
                       /\ pc'[u] = "exit" => pc[u] = "exit" \/ ~ conn[u]
                       /\ pc'[u] = "wait" => pc[u] = "wait" /\ from'[u] = from[u]
                       /\ cmd'[u] = cmd[u]
                       /\ u # t => pc'[u] = pc[u]
  BY <1>1, <1>2, <1>3 DEF Others, Peer
<1>5. SocketInv'
  <2>1. \A f \in Fds : sock'[f] # None => pc'[sock'[f]] # "none" /\ currentsocket'[sock'[f]] = f
    BY <1>2, <1>4 DEF LinkInv, SocketInv, BaseInv, TypesInv, ClientTypes
  <2> QED  BY <1>2, <1>4, <2>1 DEF LinkInv, SocketInv
<1>6. ApartInv' /\ FlagsInv'
  BY <1>2, <1>4 DEF LinkInv, ApartInv, FlagsInv, MayChange, MayUse
<1>7. ASSUME NEW c \in Conns PROVE MsgInv(c)' /\ CmdInv(c)' /\ OwedInv(c)'
  <2>1. MsgInv(c) /\ CmdInv(c) /\ OwedInv(c)
    BY DEF LinkInv
  <2> QED  BY <1>1, <1>2, <1>3, <1>4, <2>1 DEF MsgInv, CmdInv, OwedInv, Remnant, Closing, Answering
<1> QED  BY <1>5, <1>6, <1>7 DEF LinkInv

\* Recv keeps LinkInv.
LEMMA LinkRecv ==
    ASSUME BaseInv, LinkInv, NEW t \in Conns, Recv(t)
    PROVE  LinkInv'
<1>1. /\ Others(t) /\ pc[t] = "recv" /\ pc'[t] = IF Peer(t) = None THEN "exit" ELSE "wait"
      /\ cmd'[t] = cmd[t] /\ from'[t] = Peer(t) /\ currentsocket'[t] = currentsocket[t]
  BY AtRecv DEF BaseInv, TypesInv, Kept
<1>2. UNCHANGED <<conn, msg, sock, pending, tail>>
  BY DEF Recv, clientVars
<1>3. \A u \in Conns : /\ Peer(u)' = Peer(u) /\ currentsocket'[u] = currentsocket[u] /\ cmd'[u] = cmd[u]
                       /\ pc'[u] = "none" <=> pc[u] = "none"
                       /\ u # t => pc'[u] = pc[u] /\ from'[u] = from[u]
  BY <1>1, <1>2 DEF Others, Peer
<1>4. Peer(t) \in {t, None} /\ (conn[t] => Peer(t) = t)
  BY <1>1 DEF LinkInv, SocketInv
<1>5. SocketInv'
  <2>1. \A f \in Fds : sock'[f] # None => pc'[sock'[f]] # "none" /\ currentsocket'[sock'[f]] = f
    BY <1>2, <1>3 DEF LinkInv, SocketInv, BaseInv, TypesInv, ClientTypes
  <2>2. \A u \in Conns : pc'[u] = "wait" => from'[u] = u /\ Peer(u)' = u
    BY <1>1, <1>3, <1>4 DEF LinkInv, SocketInv
  <2>3. \A c \in Conns : conn'[c] => pc'[c] \notin {"none", "exit"} /\ Peer(c)' = c
    BY <1>1, <1>2, <1>3, <1>4, NoneAssumption DEF LinkInv, SocketInv
  <2>4. \A u \in Conns : pc'[u] # "none" =>
           /\ Peer(u)' \in {u, None}
           /\ Peer(u)' = None => ~ conn'[u] /\ (pending'[u] # "none" \/ tail'[u])
    BY <1>2, <1>3 DEF LinkInv, SocketInv
  <2> QED  BY <2>1, <2>2, <2>3, <2>4 DEF SocketInv
<1>6. ApartInv' /\ FlagsInv'
  BY <1>2, <1>3 DEF LinkInv, ApartInv, FlagsInv, MayChange, MayUse
<1>7. ASSUME NEW c \in Conns PROVE MsgInv(c)' /\ CmdInv(c)' /\ OwedInv(c)'
  <2>1. MsgInv(c) /\ CmdInv(c) /\ OwedInv(c)
    BY DEF LinkInv
  <2> QED  BY <1>1, <1>2, <1>3, <2>1 DEF MsgInv, CmdInv, OwedInv, Remnant, Closing, Answering
<1> QED  BY <1>5, <1>6, <1>7 DEF LinkInv

\* Dispatch keeps LinkInv: the command was for this thread.
LEMMA LinkDispatch ==
    ASSUME BaseInv, LinkInv, NEW t \in Conns, Dispatch(t)
    PROVE  LinkInv'
<1> DEFINE m == msg[t]
<1>1. Others(t) /\ pc[t] = "wait" /\ from[t] = t /\ Peer(t) = t
  BY AtDispatch DEF BaseInv, TypesInv, LinkInv, SocketInv
<1>2. /\ pc'[t] = Entry(m) /\ cmd'[t] = m /\ currentsocket'[t] = currentsocket[t] /\ m # NoCmd
      /\ UNCHANGED <<conn, pending, tail, sock>>
  BY <1>1, AtDispatch DEF Dispatch, BaseInv, TypesInv
<1>3. msg'[t] = NoCmd /\ \A c \in Conns : c # t => msg'[c] = msg[c]
  BY <1>1 DEF Dispatch, BaseInv, TypesInv, ClientTypes
<1>4. MsgInv(t) /\ m \in Cmds /\ Proper(m) /\ m.op # "none"
  BY <1>2 DEF LinkInv, BaseInv, TypesInv, ClientTypes, ControlInv, Proper
<1>5. Entry(m) \in Entries
  BY <1>4, EntryIs
<1>6. pc'[t] \notin {"none", "exit", "wait"}
  BY <1>2, <1>5 DEF Entries, Brief
<1>7. \A u \in Conns : /\ Peer(u)' = Peer(u) /\ currentsocket'[u] = currentsocket[u]
                       /\ pc'[u] = "none" <=> pc[u] = "none"
                       /\ u # t => pc'[u] = pc[u] /\ from'[u] = from[u] /\ cmd'[u] = cmd[u]
  BY <1>1, <1>2, <1>6 DEF Others, Peer
<1>8. SocketInv'
  <2>1. \A f \in Fds : sock'[f] # None => pc'[sock'[f]] # "none" /\ currentsocket'[sock'[f]] = f
    BY <1>2, <1>7 DEF LinkInv, SocketInv, BaseInv, TypesInv, ClientTypes
  <2> QED  BY <1>1, <1>2, <1>6, <1>7, <2>1 DEF LinkInv, SocketInv
<1>9. ApartInv'
  BY <1>2 DEF LinkInv, ApartInv, MayChange, MayUse
<1>10. FlagsInv'
  <2>1. NoCmd.as # "thread"
    BY DEF NoCmd, Command
  <2> QED  BY <1>2, <1>3, <1>7, <2>1 DEF LinkInv, FlagsInv
<1>11. MsgInv(t)' /\ CmdInv(t)'
  BY <1>2, <1>3, <1>4 DEF MsgInv, CmdInv, Remnant
<1>12. OwedInv(t)'
  <2> SUFFICES ASSUME conn[t], pending[t] # "aob" PROVE Answering(t)'
    BY <1>2 DEF OwedInv
  <2>1. m.op = pending[t] /\ m.op \notin {"aob", "cut", "cutclose"}
    BY <1>2, <1>4 DEF MsgInv, Remnant, BaseInv, TypesInv, ClientTypes, Operations
  <2>2. Fitting(m, Entry(m))
    BY <1>4, EntryIs
  <2>3. pc'[t] \in {"find", "build", "type", "ctype", "info", "nopath", "bye", "term"}
    BY <1>2, <1>5, <2>1, <2>2 DEF Fitting, Entries, Brief
  <2>4. pc'[t] = "ctype" => m.op = "close"
    BY <1>2, <1>4 DEF Entry, Cmds, Operations
  <2> QED  BY <1>2, <2>3, <2>4 DEF Answering
<1>13. ASSUME NEW c \in Conns, c # t PROVE MsgInv(c)' /\ CmdInv(c)' /\ OwedInv(c)'
  <2>1. MsgInv(c) /\ CmdInv(c) /\ OwedInv(c)
    BY DEF LinkInv
  <2> QED  BY <1>2, <1>3, <1>7, <1>13, <2>1 DEF MsgInv, CmdInv, OwedInv, Remnant, Closing, Answering
<1> QED  BY <1>8, <1>9, <1>10, <1>11, <1>12, <1>13 DEF LinkInv

\* A step that closes the descriptor of a thread whose connection is lost, or
\* which has a command: at the end of the thread, and where a handler closes it.
LEMMA LinkClose ==
    ASSUME BaseInv, LinkInv, NEW t \in Conns, Others(t), CloseSocket(t), pc[t] # "none", pc[t] # "wait",
           \/ pc'[t] = "none" /\ ~ conn[t]
           \/ /\ pc'[t] \notin {"none", "wait", "exit"} /\ currentsocket'[t] = currentsocket[t]
              /\ pending[t] # "none",
           cmd'[t] \in {cmd[t], NoCmd}, Closing(t) => Closing(t)'
    PROVE  LinkInv'
<1>1. /\ \A d \in Conns : conn'[d] <=> conn[d] /\ d # Peer(t)
      /\ UNCHANGED <<pending, tail, msg, known, lost>>
      /\ sock' = [sock EXCEPT ![currentsocket[t]] = None]
  BY CloseIs DEF BaseInv, TypesInv, CloseSocket
<1>2. currentsocket[t] \in Fds /\ sock \in [Fds -> Conns \cup {None}]
  BY DEF BaseInv, TypesInv, ClientTypes, ControlInv, ControlOf
<1>3. sock'[currentsocket[t]] = None /\ \A f \in Fds : f # currentsocket[t] => sock'[f] = sock[f]
  BY <1>1, <1>2
<1>4. Peer(t) \in {t, None} /\ ~ conn'[t] /\ \A d \in Conns : d # t => conn'[d] = conn[d]
  <2>1. conn[t] => Peer(t) = t
    BY DEF LinkInv, SocketInv
  <2>2. Peer(t) \in {t, None}
    BY DEF LinkInv, SocketInv
  <2>3. conn' \in [Conns -> BOOLEAN] /\ conn \in [Conns -> BOOLEAN]
    BY DEF BaseInv, TypesInv, ClientTypes, CloseSocket
  <2> QED  BY <1>1, <2>1, <2>2, <2>3, NoneAssumption
<1>5. \A u \in Conns : u # t => /\ pc'[u] = pc[u] /\ cmd'[u] = cmd[u] /\ from'[u] = from[u]
                                /\ currentsocket'[u] = currentsocket[u]
  BY DEF Others
<1>6. ASSUME NEW u \in Conns, u # t, pc[u] # "none" PROVE Peer(u)' = Peer(u) \/ (Peer(u)' = None /\ Peer(u) = None)
  <2>1. currentsocket[u] \in Fds
    BY <1>6 DEF BaseInv, ControlInv, ControlOf
  <2>2. CASE currentsocket[u] # currentsocket[t]
    BY <1>3, <1>5, <1>6, <2>1, <2>2 DEF Peer
  <2>3. CASE currentsocket[u] = currentsocket[t]
    <3>1. Peer(u) = Peer(t) /\ Peer(u) \in {u, None}
      BY <1>6, <2>3 DEF Peer, LinkInv, SocketInv
    <3>2. Peer(u) = None
      BY <1>4, <1>6, <3>1
    <3> QED  BY <1>3, <1>5, <1>6, <2>3, <3>2 DEF Peer
  <2> QED  BY <2>2, <2>3
<1>7. pc'[t] # "none" => Peer(t)' = None /\ pending'[t] # "none"
  BY <1>1, <1>3 DEF Peer
<1>8. SocketInv'
  <2>1. \A u \in Conns : pc'[u] # "none" =>
           /\ Peer(u)' \in {u, None}
           /\ Peer(u)' = None => ~ conn'[u] /\ (pending'[u] # "none" \/ tail'[u])
    <3> SUFFICES ASSUME NEW u \in Conns, pc'[u] # "none"
                 PROVE  /\ Peer(u)' \in {u, None}
                        /\ Peer(u)' = None => ~ conn'[u] /\ (pending'[u] # "none" \/ tail'[u])
      OBVIOUS
    <3>1. CASE u = t
      BY <1>4, <1>7, <3>1
    <3>2. CASE u # t
      BY <1>1, <1>4, <1>5, <1>6, <3>2 DEF LinkInv, SocketInv
    <3> QED  BY <3>1, <3>2
  <2>2. ASSUME NEW f \in Fds, sock'[f] # None PROVE pc'[sock'[f]] # "none" /\ currentsocket'[sock'[f]] = f
    <3>1. f # currentsocket[t] /\ sock'[f] = sock[f] /\ sock[f] \in Conns
      BY <1>2, <1>3, <2>2
    <3>2. pc[sock[f]] # "none" /\ currentsocket[sock[f]] = f
      BY <2>2, <3>1 DEF LinkInv, SocketInv
    <3>3. sock[f] # t
      BY <3>1, <3>2
    <3> QED  BY <1>5, <3>1, <3>2, <3>3
  <2>3. ASSUME NEW c \in Conns, conn'[c] PROVE pc'[c] \notin {"none", "exit"} /\ Peer(c)' = c
    <3>1. c # t /\ conn[c]
      BY <1>4, <2>3
    <3>2. pc[c] \notin {"none", "exit"} /\ Peer(c) = c
      BY <3>1 DEF LinkInv, SocketInv
    <3> QED  BY <1>5, <1>6, <3>1, <3>2
  <2>4. ASSUME NEW u \in Conns, pc'[u] = "wait" PROVE from'[u] = u /\ Peer(u)' = u
    <3>1. u # t
      BY <2>4
    <3>2. pc[u] = "wait" /\ from[u] = u /\ Peer(u) = u
      BY <1>5, <2>4, <3>1 DEF LinkInv, SocketInv
    <3> QED  BY <1>5, <1>6, <3>1, <3>2
  <2> QED  BY <2>1, <2>2, <2>3, <2>4 DEF SocketInv
<1>9. ApartInv' /\ FlagsInv'
  <2>1. NoCmd.as # "thread"
    BY DEF NoCmd, Command
  <2> QED  BY <1>1, <1>5, <2>1 DEF LinkInv, ApartInv, FlagsInv, MayChange, MayUse
<1>10. ASSUME NEW c \in Conns PROVE MsgInv(c)' /\ CmdInv(c)' /\ OwedInv(c)'
  <2>1. MsgInv(c) /\ CmdInv(c) /\ OwedInv(c)
    BY DEF LinkInv
  <2>2. CASE c = t
    BY <1>1, <1>4, <2>1, <2>2 DEF MsgInv, CmdInv, OwedInv, Remnant
  <2>3. CASE c # t
    BY <1>1, <1>4, <1>5, <2>1, <2>3 DEF MsgInv, CmdInv, OwedInv, Remnant, Closing, Answering
  <2> QED  BY <2>2, <2>3
<1> QED  BY <1>8, <1>9, <1>10 DEF LinkInv

\* Exit keeps LinkInv.
LEMMA LinkExit ==
    ASSUME BaseInv, LinkInv, NEW t \in Conns, Exit(t)
    PROVE  LinkInv'
<1>1. Others(t) /\ pc[t] = "exit" /\ pc'[t] = "none" /\ cmd'[t] = cmd[t]
  BY AtExit DEF BaseInv, TypesInv, Kept
<1>2. CloseSocket(t)
  BY DEF Exit
<1>3. ~ conn[t]
  BY <1>1 DEF LinkInv, SocketInv
<1> QED  BY <1>1, <1>2, <1>3, LinkClose DEF Closing

\* HangUp and Terminate keep LinkInv.
LEMMA LinkHangUp ==
    ASSUME BaseInv, LinkInv, NEW t \in Conns, HangUp(t) \/ Terminate(t)
    PROVE  LinkInv'
<1>1. /\ Others(t) /\ pc[t] \in {"bye", "nopath", "cutclose", "term"} /\ pc'[t] \in {"recv", "term"}
      /\ cmd'[t] \in {cmd[t], NoCmd} /\ currentsocket'[t] = currentsocket[t]
  BY AtHangUp, AtTerminate DEF BaseInv, TypesInv, Kept, Returned, Placed
<1>2. CloseSocket(t)
  BY DEF HangUp, Terminate
<1>3. cmd[t] # NoCmd /\ CmdInv(t)
  BY <1>1, Commanded DEF LinkInv, Loop
<1>4. pending[t] # "none"
  BY <1>1, <1>3 DEF CmdInv, Closing
<1> QED  BY <1>1, <1>2, <1>4, LinkClose DEF Closing

\* Send keeps LinkInv: that is what a careful client looks at.
LEMMA LinkSend ==
    ASSUME Careful, BaseInv, LinkInv, NEW c \in Conns, NEW m \in Requests, Send(c, m)
    PROVE  LinkInv'
<1>1. ClientTypes
  BY DEF BaseInv, TypesInv
<1>2. m \in Cmds /\ m.op \in Operations
  BY <1>1, RequestIs
<1>3. /\ conn[c] /\ pending[c] = "none" /\ msg[c] = NoCmd /\ MaySend(c, m)
      /\ msg'[c] = m /\ (conn'[c] <=> m.op # "bye") /\ pending'[c] = m.op
      /\ \A d \in Conns : d # c => msg'[d] = msg[d] /\ conn'[d] = conn[d] /\ pending'[d] = pending[d]
      /\ UNCHANGED <<tail, sock, pc, currentsocket, from, cmd>>
  BY <1>1, AtSend
<1>4. m.op # "none" /\ m # NoCmd
  BY <1>2 DEF Operations, NoCmd, Command
<1>5. \A u \in Conns : Peer(u)' = Peer(u) /\ (conn'[u] => conn[u])
  BY <1>3 DEF Peer
<1>6. SocketInv'
  BY <1>3, <1>4, <1>5 DEF LinkInv, SocketInv
<1>7. ApartInv'
  <2>1. \A d \in Conns \ {c} : /\ MayChange(d)' = MayChange(d) /\ MayUse(d)' = MayUse(d)
                               /\ m.op \in Changing => ~ MayUse(d)
                               /\ m.op \in Users => ~ MayChange(d)
    BY <1>3 DEF MayChange, MayUse, MaySend
  <2>2. /\ MayChange(c)' => MayChange(c) \/ m.op \in Changing
        /\ MayUse(c)' => MayUse(c) \/ m.op \in Users \cup Changing
    BY <1>3 DEF MayChange, MayUse
  <2>3. \A d \in Conns : MayChange(d) => MayUse(d)
    BY DEF MayUse
  <2> QED  BY <2>1, <2>2, <2>3 DEF LinkInv, ApartInv
<1>8. FlagsInv'
  BY <1>3 DEF LinkInv, FlagsInv, MaySend
<1>9. ASSUME NEW d \in Conns PROVE MsgInv(d)' /\ CmdInv(d)' /\ OwedInv(d)'
  <2>1. MsgInv(d) /\ CmdInv(d) /\ OwedInv(d)
    BY DEF LinkInv
  <2>2. CASE d = c
    BY <1>3, <1>4, <2>1, <2>2 DEF MsgInv, CmdInv, OwedInv, Closing
  <2>3. CASE d # c
    BY <1>3, <2>1, <2>3 DEF MsgInv, CmdInv, OwedInv, Remnant, Closing, Answering
  <2> QED  BY <2>2, <2>3
<1> QED  BY <1>6, <1>7, <1>8, <1>9 DEF LinkInv

\* Disconnect keeps LinkInv.
LEMMA LinkDisconnect ==
    ASSUME BaseInv, LinkInv, NEW c \in Conns, Disconnect(c)
    PROVE  LinkInv'
<1>1. /\ conn[c] /\ ~ conn'[c]
      /\ \/ msg'[c] = NoCmd \/ msg'[c] = msg[c]
         \/ msg[c] # NoCmd /\ msg'[c].op \in {"cut", "cutclose"} /\ msg'[c].as = "process"
      /\ \A d \in Conns : d # c => msg'[d] = msg[d] /\ conn'[d] = conn[d]
      /\ UNCHANGED <<pending, tail, sock, pc, currentsocket, from, cmd>>
  BY AtDisconnect DEF BaseInv, TypesInv, Command
<1>2. \A u \in Conns : Peer(u)' = Peer(u) /\ (conn'[u] => conn[u])
  BY <1>1 DEF Peer
<1>3. SocketInv'
  BY <1>1, <1>2 DEF LinkInv, SocketInv
<1>4. ApartInv' /\ FlagsInv'
  <2>1. NoCmd.as # "thread"
    BY DEF NoCmd, Command
  <2> QED  BY <1>1, <2>1 DEF LinkInv, ApartInv, FlagsInv, MayChange, MayUse
<1>5. ASSUME NEW d \in Conns PROVE MsgInv(d)' /\ CmdInv(d)' /\ OwedInv(d)'
  <2>1. MsgInv(d) /\ CmdInv(d) /\ OwedInv(d)
    BY DEF LinkInv
  <2>2. CASE d = c
    BY <1>1, <2>1, <2>2 DEF MsgInv, CmdInv, OwedInv, Remnant, Closing
  <2>3. CASE d # c
    BY <1>1, <2>1, <2>3 DEF MsgInv, CmdInv, OwedInv, Remnant, Closing, Answering
  <2> QED  BY <2>2, <2>3
<1> QED  BY <1>3, <1>4, <1>5 DEF LinkInv

\* Accept keeps LinkInv: no thread is left on the descriptor that it returns.
LEMMA LinkAccept ==
    ASSUME Careful, BaseInv, LinkInv, NEW c \in Conns, Accept(c)
    PROVE  LinkInv'
<1>1. /\ pc[c] = "none" /\ msg[c] = NoCmd /\ MayConnect /\ ~ conn[c]
      /\ conn'[c] /\ pc'[c] = "recv" /\ pending'[c] = "none" /\ ~ tail'[c]
      /\ \A f \in Fds : sock[f] # c
      /\ \A d \in Conns : d # c => /\ conn'[d] = conn[d] /\ pending'[d] = pending[d] /\ tail'[d] = tail[d]
                                  /\ pc'[d] = pc[d] /\ currentsocket'[d] = currentsocket[d]
      /\ UNCHANGED <<msg, from, cmd>>
  BY AtAccept DEF BaseInv, TypesInv
<1>2. PICK f \in Fds : /\ sock[f] = None /\ sock'[f] = c /\ currentsocket'[c] = f
                       /\ \A g \in Fds : g # f => sock'[g] = sock[g]
  BY AtAccept DEF BaseInv, TypesInv
<1>3. ASSUME NEW u \in Conns, u # c, pc[u] # "none" PROVE Peer(u) = u /\ Peer(u)' = Peer(u)
  <2>1. Peer(u) # None
    BY <1>1, <1>3 DEF LinkInv, SocketInv, MayConnect
  <2>2. Peer(u) = u /\ currentsocket[u] \in Fds
    BY <1>3, <2>1 DEF LinkInv, SocketInv, BaseInv, ControlInv, ControlOf
  <2>3. currentsocket[u] # f
    BY <1>2, <2>1 DEF Peer
  <2> QED  BY <1>1, <1>2, <1>3, <2>2, <2>3 DEF Peer
<1>4. Peer(c)' = c /\ cmd[c] = NoCmd
  BY <1>1, <1>2 DEF Peer, BaseInv, ControlInv, ControlOf, Fitting
<1>5. SocketInv'
  <2>1. \A u \in Conns : pc'[u] # "none" =>
           /\ Peer(u)' \in {u, None}
           /\ Peer(u)' = None => ~ conn'[u] /\ (pending'[u] # "none" \/ tail'[u])
    BY <1>1, <1>3, <1>4, NoneAssumption
  <2>2. ASSUME NEW g \in Fds, sock'[g] # None PROVE pc'[sock'[g]] # "none" /\ currentsocket'[sock'[g]] = g
    <3>1. CASE g = f
      BY <1>1, <1>2, <3>1
    <3>2. CASE g # f
      BY <1>1, <1>2, <2>2, <3>2 DEF LinkInv, SocketInv, BaseInv, TypesInv, ClientTypes
    <3> QED  BY <3>1, <3>2
  <2>3. \A d \in Conns : conn'[d] => pc'[d] \notin {"none", "exit"} /\ Peer(d)' = d
    BY <1>1, <1>3, <1>4 DEF LinkInv, SocketInv
  <2>4. \A u \in Conns : pc'[u] = "wait" => from'[u] = u /\ Peer(u)' = u
    BY <1>1, <1>3 DEF LinkInv, SocketInv
  <2> QED  BY <2>1, <2>2, <2>3, <2>4 DEF SocketInv
<1>6. ApartInv'
  <2>1. ~ MayChange(c)' /\ ~ MayUse(c)'
    BY <1>1 DEF MayChange, MayUse, Changing, Users
  <2>2. \A d \in Conns : d # c => MayChange(d)' = MayChange(d) /\ MayUse(d)' = MayUse(d)
    BY <1>1 DEF MayChange, MayUse
  <2> QED  BY <2>1, <2>2 DEF LinkInv, ApartInv
<1>7. FlagsInv'
  BY <1>1 DEF LinkInv, FlagsInv
<1>8. ASSUME NEW d \in Conns PROVE MsgInv(d)' /\ CmdInv(d)' /\ OwedInv(d)'
  <2>1. MsgInv(d) /\ CmdInv(d) /\ OwedInv(d)
    BY DEF LinkInv
  <2>2. CASE d = c
    BY <1>1, <1>4, <2>2 DEF MsgInv, CmdInv, OwedInv
  <2>3. CASE d # c
    BY <1>1, <2>1, <2>3 DEF MsgInv, CmdInv, OwedInv, Remnant, Closing, Answering
  <2> QED  BY <2>2, <2>3
<1> QED  BY <1>5, <1>6, <1>7, <1>8 DEF LinkInv

\* Steps that concern no connection and no thread.
LEMMA LinkStill ==
    ASSUME LinkInv, UNCHANGED <<conn, pending, tail, msg, sock, pc, currentsocket, from, cmd>>
    PROVE  LinkInv'
<1>1. SocketInv' /\ ApartInv' /\ FlagsInv'
  BY DEF LinkInv, SocketInv, ApartInv, FlagsInv, MayChange, MayUse, Peer
<1>2. \A c \in Conns : MsgInv(c)' /\ CmdInv(c)' /\ OwedInv(c)'
  BY DEF LinkInv, MsgInv, CmdInv, OwedInv, Remnant, Closing, Answering
<1> QED  BY <1>1, <1>2 DEF LinkInv

\* Every step keeps LinkInv.
LEMMA LinkNext ==
    ASSUME Careful, BaseInv, LinkInv, [Next]_vars
    PROVE  LinkInv'
<1>1. ASSUME NEW t \in Conns, Thread(t) PROVE LinkInv'
  BY <1>1, ThreadSteps, LinkRecv, LinkRecvEnd, LinkDispatch, LinkExit, LinkHangUp, LinkInside
<1>2. ASSUME (\E o \in Objs : Age(o)) \/ FirstMinute \/ UNCHANGED vars PROVE LinkInv'
  BY <1>2, LinkStill DEF Age, FirstMinute, vars, clientVars, threadVars
<1> QED  BY <1>1, <1>2, LinkSend, LinkDisconnect, LinkAccept DEF Next, Client

\* LinkInv holds initially.
LEMMA LinkInit == Init => LinkInv
<1> SUFFICES ASSUME Init PROVE LinkInv
  OBVIOUS
<1>1. SocketInv
  BY DEF Init, SocketInv
<1>2. ApartInv /\ FlagsInv
  BY DEF Init, ApartInv, FlagsInv, MayChange, MayUse, Changing, Users, NoCmd, Command
<1>3. \A c \in Conns : MsgInv(c) /\ CmdInv(c) /\ OwedInv(c)
  BY DEF Init, MsgInv, CmdInv, OwedInv
<1> QED  BY <1>1, <1>2, <1>3 DEF LinkInv

\* LinkInv holds in every reachable state.
LEMMA LinkCorrect == ASSUME Careful PROVE Spec => [](BaseInv /\ LinkInv)
<1>1. BaseInv /\ LinkInv /\ [Next]_vars => LinkInv'
  BY LinkNext
<1> QED  BY <1>1, LinkInit, BaseCorrect, PTL DEF Spec

\* NoAnswerForgotten, for a careful client: what a connected client waits for is
\* on its way or owed by the thread that serves it (DispatchCommand).
THEOREM AnswersOwed == ASSUME Careful PROVE Spec => []NoAnswerForgotten
<1>1. LinkInv => NoAnswerForgotten
  BY DEF LinkInv, OwedInv, SocketInv, NoAnswerForgotten
<1> QED  BY <1>1, LinkCorrect, PTL

-----------------------------------------------------------------------------
(* Handles and objects, for a careful client.                              *)

Idle(t)     == pc[t] \in Loop \cup Brief
Creating(t) == pc[t] \in {"insert", "inserting"}
Deleting(t) == pc[t] \in {"erase", "erasing"}
Holding(t)  == pc[t] \in {"xtype", "xptr", "list"} \/ Closing(t)

\* The entry of a handle, and that it is what thread t has looked up.
EntryAt(h) == IF h \in Handles THEN table[h] ELSE Empty
EntryFor(t, ty) == hnd[t] \in Handles /\ table[hnd[t]] = [p |-> ptr[t], type |-> ty]

\* The type that a command needs of its handle.
ForUse(m) == IF m.op \in Moves THEN m.kind ELSE "open"

\* The handle and the pointer of a command that uses an object,
UserInv(t) ==
    /\ pc[t] = "ptr" => hnd[t] \in Handles /\ table[hnd[t]].type = ForUse(cmd[t])
    /\ pc[t] = "iter" => EntryFor(t, cmd[t].kind)
    /\ pc[t] \in {"mem", "lock", "locked", "fill", "scan"} => EntryFor(t, "open")

\* of one that creates an object,
CreateInv(t) ==
    /\ pc[t] = "build" /\ InModule(cmd[t]) => EntryFor(t, "open")
    /\ Creating(t) => /\ heap[ptr[t]].type = NewType(cmd[t])
                      /\ \A h \in Handles : table[h].p # ptr[t]
    /\ pc[t] = "inserting" => table[hnd[t]] = Empty

\* and of one that closes a handle, after sending the list or not.
CloseInv(t) ==
    /\ Holding(t) /\ Listed(cmd[t]) => hnd[t] \in Handles /\ table[hnd[t]].type = cmd[t].kind
    /\ pc[t] \in {"xptr", "list"} => cmd[t].as = cmd[t].kind
    /\ pc[t] = "list" => EntryFor(t, cmd[t].as)
    /\ pc[t] = "cptr" => ht[t] = EntryAt(hnd[t]).type
    /\ pc[t] = "delete" => EntryAt(hnd[t]) = [p |-> ptr[t], type |-> ht[t]]
    /\ Deleting(t) => EntryAt(hnd[t]).p = ptr[t] /\ (ptr[t] \in Objs => heap[ptr[t]].type = "empty")
    /\ pc[t] = "erasing" => table[hnd[t]] # Empty

HandleInv(t) == UserInv(t) /\ CreateInv(t) /\ CloseInv(t)

\* An entry names an object of its type, until its handle is being closed.
EntriesLive ==
    \A h \in Handles : table[h] # Empty =>
        /\ table[h].p \in Objs /\ table[h].type # "empty"
        /\ heap[table[h].p].type = table[h].type \/ \E t \in Conns : Deleting(t) /\ hnd[t] = h
EntriesDistinct ==
    \A g, h \in Handles : table[g].p = table[h].p /\ table[g] # Empty => g = h

\* An object has an entry or is about to get one.
ObjectsKept ==
    \A o \in Objs :
        /\ heap[o].type # "empty" => \/ \E h \in Handles : table[h].p = o
                                     \/ \E t \in Conns : Creating(t) /\ ptr[t] = o
        /\ heap[o].type = "empty" => heap[o] = Freed

ObjInv == EntriesLive /\ EntriesDistinct /\ ObjectsKept /\ \A t \in Conns : HandleInv(t)

-----------------------------------------------------------------------------
\* An idle thread has nothing to say of handles.
LEMMA IdleHandle ==
    ASSUME NEW t \in Conns, Idle(t)'
    PROVE  HandleInv(t)'
<1>1. UserInv(t)'
  BY DEF UserInv, Idle, Loop, Brief
<1>2. CreateInv(t)'
  BY DEF CreateInv, Creating, Idle, Loop, Brief
<1>3. CloseInv(t)'
  BY DEF CloseInv, Holding, Closing, Deleting, Idle, Loop, Brief
<1> QED  BY <1>1, <1>2, <1>3 DEF HandleInv

\* A thread that is not idle uses handles or changes the table.
LEMMA Working ==
    ASSUME BaseInv, NEW t \in Conns, ~ Idle(t)
    PROVE  cmd[t].op \in Users \cup Changing
<1>1. pc[t] \in PCs /\ Fitting(cmd[t], pc[t])
  BY DEF BaseInv, TypesInv, ThreadTypes, ControlInv, ControlOf
<1> QED  BY <1>1 DEF Idle, Loop, Brief, PCs, Fitting, InModule, Listed, Creates, Users, Moves, Queries, Changing

\* A control point inside a handler that changes the table.
LEMMA ChangingPoints ==
    ASSUME BaseInv, NEW t \in Conns,
           \/ pc[t] \in {"find", "build", "insert", "inserting", "xtype", "xptr", "list"}
           \/ pc[t] \in {"ctype", "cptr", "delete", "erase", "erasing"}
    PROVE  cmd[t].op \in Changing
  BY DEF BaseInv, ControlInv, ControlOf, Fitting, InModule, Creates, Listed, Changing

\* While a thread creates, lists or closes, the others are idle.
LEMMA ChangingAlone ==
    ASSUME BaseInv, LinkInv, NEW t \in Conns, cmd[t].op \in Changing
    PROVE  \A u \in Conns : u # t => Idle(u)
<1> SUFFICES ASSUME NEW u \in Conns, u # t, ~ Idle(u) PROVE FALSE
  OBVIOUS
<1>1. MayChange(t) /\ MayUse(u)
  BY Working, CommandsMay
<1> QED  BY <1>1 DEF LinkInv, ApartInv

\* A working thread looks up handles in a table that nobody changes.
LEMMA FindExact ==
    ASSUME BaseInv, LinkInv, NEW t \in Conns, ~ Idle(t)
    PROVE  mutating \ {t} = {} /\ \A h : Find(t, h) = {EntryAt(h)}
<1>1. mutating \ {t} = {}
  <2> SUFFICES ASSUME NEW u \in mutating, u # t PROVE FALSE
    OBVIOUS
  <2>1. u \in Conns /\ pc[u] \in {"inserting", "erasing"}
    BY DEF BaseInv, TypesInv, TableTypes, ControlInv, ControlOf
  <2> QED  BY <2>1, ChangingPoints, ChangingAlone
<1> QED  BY <1>1, FindIs DEF BaseInv, TypesInv, EntryAt

\* The object of an entry that a thread has looked up is there.
LEMMA LiveEntry ==
    ASSUME BaseInv, LinkInv, ObjInv, NEW t \in Conns, ~ Idle(t), ~ Deleting(t),
           NEW ty, EntryFor(t, ty), ty # "empty"
    PROVE  Live(t, ty)
<1>1. \A u \in Conns : ~ Deleting(u)
  <2> SUFFICES ASSUME NEW u \in Conns, Deleting(u), u # t PROVE FALSE
    OBVIOUS
  <2>1. cmd[u].op \in Changing
    BY ChangingPoints DEF Deleting
  <2> QED  BY <2>1, ChangingAlone
<1>2. table[hnd[t]] # Empty /\ table[hnd[t]].p = ptr[t] /\ table[hnd[t]].type = ty /\ hnd[t] \in Handles
  BY DEF EntryFor, Empty
<1> QED  BY <1>1, <1>2 DEF ObjInv, EntriesLive, Live

\* NoDangling follows: what a thread is about to use is what it takes it for.
LEMMA NothingDangles ==
    ASSUME BaseInv, LinkInv, ObjInv, NEW t \in Conns
    PROVE  /\ pc[t] \in {"mem", "lock", "locked", "fill", "scan"} => Live(t, "open")
           /\ pc[t] = "iter" => Live(t, cmd[t].kind)
           /\ pc[t] = "list" => Live(t, cmd[t].as)
           /\ pc[t] = "delete" /\ ht[t] # "empty" => Live(t, ht[t])
           /\ pc[t] = "build" /\ InModule(cmd[t]) => Live(t, "open")
           /\ pc[t] = "find" => \A h \in Handles : table[h].type = "open" => heap[table[h].p].type = "open"
<1>1. HandleInv(t) /\ cmd[t].kind # "empty" /\ cmd[t].as # "empty"
  BY DEF ObjInv, BaseInv, TypesInv, ThreadTypes, Cmds, Kinds
<1>2. ASSUME pc[t] \in {"mem", "lock", "locked", "fill", "scan"} PROVE Live(t, "open")
  <2>1. EntryFor(t, "open")
    BY <1>1, <1>2 DEF HandleInv, UserInv
  <2> QED  BY <1>2, <2>1, LiveEntry DEF Idle, Loop, Brief, Deleting
<1>3. ASSUME pc[t] = "iter" PROVE Live(t, cmd[t].kind)
  <2>1. EntryFor(t, cmd[t].kind)
    BY <1>1, <1>3 DEF HandleInv, UserInv
  <2> QED  BY <1>1, <1>3, <2>1, LiveEntry DEF Idle, Loop, Brief, Deleting
<1>4. ASSUME pc[t] = "list" PROVE Live(t, cmd[t].as)
  <2>1. EntryFor(t, cmd[t].as)
    BY <1>1, <1>4 DEF HandleInv, CloseInv
  <2> QED  BY <1>1, <1>4, <2>1, LiveEntry DEF Idle, Loop, Brief, Deleting
<1>5. ASSUME pc[t] = "delete", ht[t] # "empty" PROVE Live(t, ht[t])
  <2>1. EntryAt(hnd[t]) = [p |-> ptr[t], type |-> ht[t]]
    BY <1>1, <1>5 DEF HandleInv, CloseInv
  <2>2. EntryFor(t, ht[t])
    BY <1>5, <2>1 DEF EntryAt, EntryFor, Empty
  <2> QED  BY <1>5, <2>2, LiveEntry DEF Idle, Loop, Brief, Deleting
<1>6. ASSUME pc[t] = "build", InModule(cmd[t]) PROVE Live(t, "open")
  <2>1. EntryFor(t, "open")
    BY <1>1, <1>6 DEF HandleInv, CreateInv
  <2> QED  BY <1>6, <2>1, LiveEntry DEF Idle, Loop, Brief, Deleting
<1>7. ASSUME pc[t] = "find", NEW h \in Handles, table[h].type = "open" PROVE heap[table[h].p].type = "open"
  <2>1. \A u \in Conns : ~ Deleting(u)
    BY <1>7, ChangingPoints, ChangingAlone DEF Idle, Loop, Brief, Deleting
  <2>2. table[h] # Empty
    BY <1>7 DEF Empty
  <2> QED  BY <1>7, <2>1, <2>2 DEF ObjInv, EntriesLive
<1> QED  BY <1>2, <1>3, <1>4, <1>5, <1>6, <1>7

\* A step that leaves the objects what they are.
SameObjects ==
    \A o \in Objs : /\ heap'[o].type = heap[o].type
                    /\ heap[o].type = "empty" => heap'[o] = heap[o]

\* What a thread knows of handles, when it does not move and the table and the
\* objects stay.
LEMMA HandleSame ==
    ASSUME BaseInv, ObjInv, SameObjects, UNCHANGED table, NEW u \in Conns,
           pc'[u] = pc[u], cmd'[u] = cmd[u], hnd'[u] = hnd[u], ht'[u] = ht[u], ptr'[u] = ptr[u]
    PROVE  HandleInv(u)'
<1>1. HandleInv(u) /\ ControlOf(u)
  BY DEF ObjInv, BaseInv, ControlInv
<1>2. UserInv(u)'
  BY <1>1 DEF HandleInv, UserInv, EntryFor
<1>3. CreateInv(u)'
  <2>1. Creating(u) => ptr[u] \in Objs
    BY <1>1 DEF Creating, ControlOf
  <2> QED  BY <1>1, <2>1 DEF HandleInv, CreateInv, EntryFor, Creating, SameObjects
<1>4. CloseInv(u)'
  BY <1>1 DEF HandleInv, CloseInv, EntryFor, EntryAt, Holding, Closing, Deleting, SameObjects
<1> QED  BY <1>2, <1>3, <1>4 DEF HandleInv

\* A step that leaves the table and the objects.
LEMMA ObjSame ==
    ASSUME ObjInv, SameObjects, UNCHANGED table, \A u \in Conns : HandleInv(u)',
           \A u \in Conns : Creating(u) => Creating(u)' /\ ptr'[u] = ptr[u],
           \A u \in Conns : Deleting(u) /\ EntryAt(hnd[u]) # Empty => Deleting(u)' /\ hnd'[u] = hnd[u]
    PROVE  ObjInv'
<1>1. \A h \in Handles : table[h] # Empty =>
          ((\E u \in Conns : Deleting(u) /\ hnd[u] = h) => \E u \in Conns : Deleting(u)' /\ hnd'[u] = h)
  BY DEF EntryAt
<1>2. \A o \in Objs : (\E u \in Conns : Creating(u) /\ ptr[u] = o) => \E u \in Conns : Creating(u)' /\ ptr'[u] = o
  OBVIOUS
<1>3. EntriesLive'
  BY <1>1 DEF ObjInv, EntriesLive, SameObjects
<1>4. EntriesDistinct'
  BY DEF ObjInv, EntriesDistinct
<1>5. ObjectsKept'
  BY <1>2 DEF ObjInv, ObjectsKept, SameObjects
<1> QED  BY <1>3, <1>4, <1>5 DEF ObjInv

\* Such a step of one thread.
LEMMA ObjKept ==
    ASSUME BaseInv, ObjInv, NEW t \in Conns, Others(t), SameObjects, UNCHANGED table,
           HandleInv(t)',
           Creating(t) => Creating(t)' /\ ptr'[t] = ptr[t],
           Deleting(t) /\ EntryAt(hnd[t]) # Empty => Deleting(t)' /\ hnd'[t] = hnd[t]
    PROVE  ObjInv'
<1>1. \A u \in Conns : u # t => HandleInv(u)'
  BY HandleSame DEF Others
<1>2. \A u \in Conns : u # t => /\ Creating(u)' = Creating(u) /\ Deleting(u)' = Deleting(u)
                                /\ hnd'[u] = hnd[u] /\ ptr'[u] = ptr[u]
  BY DEF Others, Creating, Deleting
<1> QED  BY <1>1, <1>2, ObjSame

\* The same for a thread that ends up idle and neither creates nor closes.
LEMMA ObjIdle ==
    ASSUME BaseInv, ObjInv, NEW t \in Conns, Others(t), SameObjects, UNCHANGED table,
           Idle(t)', ~ Creating(t), ~ Deleting(t)
    PROVE  ObjInv'
  BY IdleHandle, ObjKept

-----------------------------------------------------------------------------
(* The steps that keep the table and the objects.                          *)

\* Steps from and to the receive loop, and handlers that use no object.
LEMMA ObjLoop ==
    ASSUME BaseInv, ObjInv, NEW t \in Conns,
           Recv(t) \/ RecvEnd(t) \/ Exit(t) \/ Info(t) \/ HangUp(t) \/ Memory(t) \/ Terminate(t)
    PROVE  ObjInv'
<1>1. UNCHANGED <<table, heap>>
  BY DEF Recv, RecvEnd, Exit, Info, HangUp, Memory, Terminate, tableVars
<1>2. /\ Others(t) /\ pc[t] \in Loop \cup Brief \cup {"mem"}
      /\ pc'[t] \in {"recv", "wait", "exit", "none", "term"}
  BY AtRecv, AtRecvEnd, AtExit, AtInfo, AtHangUp, AtMemory, AtTerminate DEF BaseInv, TypesInv, Loop, Brief
<1>3. SameObjects
  BY <1>1 DEF SameObjects
<1>4. ~ Creating(t) /\ ~ Deleting(t) /\ Idle(t)'
  BY <1>2 DEF Creating, Deleting, Idle, Loop, Brief
<1> QED  BY <1>1, <1>2, <1>3, <1>4, ObjIdle

\* Dispatch keeps ObjInv.
LEMMA ObjDispatch ==
    ASSUME BaseInv, ObjInv, NEW t \in Conns, Dispatch(t)
    PROVE  ObjInv'
<1> DEFINE m == msg[from[t]]
<1>1. UNCHANGED <<table, heap>>
  BY DEF Dispatch, tableVars
<1>2. Others(t) /\ SameObjects /\ pc[t] = "wait" /\ pc'[t] = Entry(m) /\ cmd'[t] = m
  BY <1>1, AtDispatch DEF BaseInv, TypesInv, SameObjects
<1>3. m \in Cmds /\ m.op # "none"
  BY DEF Dispatch, BaseInv, TypesInv, ClientTypes, ControlInv, ControlOf, Proper
<1>4. /\ pc'[t] \in {"find", "build", "type", "ctype"} \cup Brief
      /\ pc'[t] = "build" => m.op # "open" /\ ~ InModule(m)
      /\ pc'[t] = "ctype" => ~ Listed(m)
  <2>1. Entry(m) \in Entries
    BY <1>3, EntryIs
  <2>2. /\ Entry(m) = "build" => m.op # "open" /\ ~ InModule(m)
        /\ Entry(m) = "ctype" => ~ Listed(m)
    BY <1>3 DEF Entry, Cmds, Operations, InModule, Listed
  <2> QED  BY <1>2, <2>1, <2>2 DEF Entries
<1>5. UserInv(t)'
  BY <1>4 DEF UserInv, Brief
<1>6. CreateInv(t)'
  BY <1>2, <1>4 DEF CreateInv, Creating, Brief
<1>7. CloseInv(t)'
  BY <1>2, <1>4 DEF CloseInv, Deleting, Holding, Closing, Brief
<1> QED  BY <1>1, <1>2, <1>5, <1>6, <1>7, ObjKept DEF HandleInv, Creating, Deleting

\* FindPid keeps ObjInv.
LEMMA ObjFindPid ==
    ASSUME BaseInv, ObjInv, NEW t \in Conns, FindPid(t)
    PROVE  ObjInv'
<1> DEFINE h == FindHandleByPID(cmd[t].pid)
           done == (h # 0) = (cmd[t].op = "open")
<1>1. UNCHANGED <<table, heap>>
  BY DEF FindPid, tableVars
<1>2. /\ Others(t) /\ pc[t] = "find"
      /\ IF done THEN pc'[t] = "recv"
                 ELSE hnd'[t] = h /\ cmd'[t] = cmd[t] /\ pc'[t] = IF h = 0 THEN "build" ELSE "ptr"
  BY AtFindPid DEF BaseInv, TypesInv
<1>3. SameObjects /\ ~ Creating(t) /\ ~ Deleting(t)
  BY <1>1, <1>2 DEF SameObjects, Creating, Deleting
<1>4. h # 0 => h \in Handles /\ OfProcess(h, cmd[t].pid)
  BY HandleOfPid
<1>5. cmd[t].op = "open" \/ InModule(cmd[t])
  BY <1>2 DEF BaseInv, ControlInv, ControlOf, Fitting
<1> HIDE DEF h
<1>6. CASE done
  BY <1>1, <1>2, <1>3, <1>6, ObjIdle DEF Idle, Loop
<1>7. CASE ~ done /\ h = 0
  <2>1. cmd[t].op = "open" /\ pc'[t] = "build" /\ cmd'[t] = cmd[t]
    BY <1>2, <1>7
  <2>2. HandleInv(t)'
    BY <2>1 DEF HandleInv, UserInv, CreateInv, CloseInv, Creating, Deleting, Holding, Closing, InModule
  <2> QED  BY <1>1, <1>2, <1>3, <2>2, ObjKept
<1>8. CASE ~ done /\ h # 0
  <2>1. cmd[t].op # "open" /\ pc'[t] = "ptr" /\ cmd'[t] = cmd[t] /\ hnd'[t] = h
    BY <1>2, <1>8
  <2>2. h \in Handles /\ table[h].type = "open" /\ ForUse(cmd[t]) = "open"
    BY <1>4, <1>5, <1>8, <2>1 DEF OfProcess, ForUse, InModule, Moves
  <2>3. HandleInv(t)'
    BY <1>1, <2>1, <2>2 DEF HandleInv, UserInv, CreateInv, CloseInv, Creating, Deleting, Holding, Closing
  <2> QED  BY <1>1, <1>2, <1>3, <2>3, ObjKept
<1> QED  BY <1>6, <1>7, <1>8

\* GetHandleType keeps ObjInv.
LEMMA ObjGetHandleType ==
    ASSUME BaseInv, LinkInv, ObjInv, NEW t \in Conns, GetHandleType(t)
    PROVE  ObjInv'
<1> DEFINE e == EntryAt(hnd[t])
<1>1. UNCHANGED <<table, heap>>
  BY DEF GetHandleType, tableVars
<1>2. Others(t) /\ pc[t] \in {"type", "ctype", "xtype"}
  BY AtGetHandleType DEF BaseInv, TypesInv
<1>3. SameObjects /\ ~ Creating(t) /\ ~ Deleting(t)
  BY <1>1, <1>2 DEF SameObjects, Creating, Deleting
<1>4. Find(t, hnd[t]) = {e}
  BY <1>2, FindExact DEF Idle, Loop, Brief
<1>5. \/ /\ pc[t] # "ctype" /\ e.type # Wanted(cmd[t])
         /\ IF pc[t] = "xtype" THEN pc'[t] = "ctype" /\ Kept(t) ELSE pc'[t] = "recv"
      \/ /\ pc[t] = "ctype" \/ e.type = Wanted(cmd[t])
         /\ pc'[t] = Typed[pc[t]] /\ ht'[t] = e.type
         /\ cmd'[t] = cmd[t] /\ hnd'[t] = hnd[t] /\ ptr'[t] = ptr[t]
  BY <1>4, AtGetHandleType DEF BaseInv, TypesInv
<1>6. HandleInv(t) /\ Fitting(cmd[t], pc[t])
  BY DEF ObjInv, BaseInv, ControlInv, ControlOf
<1> HIDE DEF e
<1>7. CASE pc[t] # "ctype" /\ e.type # Wanted(cmd[t]) /\ pc[t] = "xtype"
  <2>1. pc'[t] = "ctype" /\ Kept(t)
    BY <1>5, <1>7
  <2>2. HandleInv(t)'
    BY <1>1, <1>6, <1>7, <2>1
       DEF HandleInv, UserInv, CreateInv, CloseInv, Creating, Deleting, Holding, Closing, Kept
  <2> QED  BY <1>1, <1>2, <1>3, <2>2, ObjKept
<1>8. CASE pc[t] # "ctype" /\ e.type # Wanted(cmd[t]) /\ pc[t] # "xtype"
  BY <1>1, <1>2, <1>3, <1>5, <1>8, ObjIdle DEF Idle, Loop
<1>9. CASE pc[t] = "ctype" \/ e.type = Wanted(cmd[t])
  <2>1. pc'[t] = Typed[pc[t]] /\ ht'[t] = e.type /\ cmd'[t] = cmd[t] /\ hnd'[t] = hnd[t] /\ ptr'[t] = ptr[t]
    BY <1>5, <1>9
  <2>2. CASE pc[t] = "type"
    <3>1. pc'[t] = "ptr" /\ e.type = ForUse(cmd[t]) /\ ForUse(cmd[t]) # "empty"
      BY <1>6, <1>9, <2>1, <2>2 DEF Typed, Wanted, ForUse, Fitting, Users, Moves, BaseInv, TypesInv, ThreadTypes, Cmds, Kinds
    <3>2. hnd[t] \in Handles /\ table[hnd[t]].type = ForUse(cmd[t])
      BY <3>1 DEF e, EntryAt, Empty
    <3>3. HandleInv(t)'
      BY <1>1, <2>1, <3>1, <3>2 DEF HandleInv, UserInv, CreateInv, CloseInv, Creating, Deleting, Holding, Closing
    <3> QED  BY <1>1, <1>2, <1>3, <3>3, ObjKept
  <2>3. CASE pc[t] = "ctype"
    <3>1. pc'[t] = "cptr"
      BY <2>1, <2>3 DEF Typed
    <3>2. HandleInv(t)'
      BY <1>1, <1>6, <2>1, <2>3, <3>1
         DEF HandleInv, UserInv, CreateInv, CloseInv, Creating, Deleting, Holding, Closing, EntryAt, e
    <3> QED  BY <1>1, <1>2, <1>3, <3>2, ObjKept
  <2>4. CASE pc[t] = "xtype"
    <3>1. pc'[t] = "xptr" /\ Listed(cmd[t]) /\ cmd[t].as = "module" /\ e.type = "module"
      BY <1>6, <1>9, <2>1, <2>4 DEF Typed, Fitting, Wanted, Listed
    <3>2. hnd[t] \in Handles /\ table[hnd[t]].type = cmd[t].kind
      BY <1>6, <2>4, <3>1 DEF HandleInv, CloseInv, Holding
    <3>3. cmd[t].as = cmd[t].kind
      BY <3>1, <3>2 DEF e, EntryAt
    <3>4. HandleInv(t)'
      BY <1>1, <2>1, <3>1, <3>2, <3>3
         DEF HandleInv, UserInv, CreateInv, CloseInv, Creating, Deleting, Holding, Closing
    <3> QED  BY <1>1, <1>2, <1>3, <3>4, ObjKept
  <2> QED  BY <1>2, <2>2, <2>3, <2>4
<1> QED  BY <1>5, <1>7, <1>8, <1>9

\* GetPointerFromHandle keeps ObjInv.
LEMMA ObjGetPointerFromHandle ==
    ASSUME BaseInv, LinkInv, ObjInv, NEW t \in Conns, GetPointerFromHandle(t)
    PROVE  ObjInv'
<1>1. UNCHANGED <<table, heap>>
  BY DEF GetPointerFromHandle, tableVars
<1>2. /\ Others(t) /\ pc[t] \in {"ptr", "cptr", "xptr"} /\ \E e \in Find(t, hnd[t]) : ptr'[t] = e.p
      /\ pc'[t] = Use(t)
      /\ cmd'[t] = cmd[t] /\ hnd'[t] = hnd[t] /\ ht'[t] = ht[t]
  BY AtGetPointerFromHandle DEF BaseInv, TypesInv
<1>3. SameObjects /\ ~ Creating(t) /\ ~ Deleting(t)
  BY <1>1, <1>2 DEF SameObjects, Creating, Deleting
<1>4. ptr'[t] = EntryAt(hnd[t]).p
  BY <1>2, FindExact DEF Idle, Loop, Brief
<1>5. EntryAt(hnd[t]) = [p |-> EntryAt(hnd[t]).p, type |-> EntryAt(hnd[t]).type]
  <2>1. EntryAt(hnd[t]) \in [p : Objs \cup {None}, type : Types]
    BY DEF EntryAt, BaseInv, TypesInv, TableTypes, Empty, Types
  <2> QED  BY <2>1
<1>6. HandleInv(t) /\ Fitting(cmd[t], pc[t])
  BY DEF ObjInv, BaseInv, ControlInv, ControlOf
<1>7. CASE pc[t] = "ptr"
  <2>1. /\ pc'[t] \in {"build", "iter", "lock", "mem"}
        /\ pc'[t] = "build" => InModule(cmd[t])
        /\ pc'[t] = "iter" <=> cmd[t].op \in Moves
    BY <1>2, <1>6, <1>7 DEF Use, Fitting, InModule, Users, Moves
  <2>2. EntryFor(t, ForUse(cmd[t]))'
    BY <1>1, <1>2, <1>4, <1>5, <1>6, <1>7 DEF HandleInv, UserInv, EntryFor, EntryAt, ForUse
  <2>3. pc'[t] # "iter" => EntryFor(t, "open")'
    BY <1>2, <2>1, <2>2 DEF ForUse, EntryFor
  <2>4. pc'[t] = "iter" => EntryFor(t, cmd[t].kind)'
    BY <1>2, <2>1, <2>2 DEF ForUse, EntryFor
  <2>5. HandleInv(t)'
    BY <1>2, <2>1, <2>3, <2>4
       DEF HandleInv, UserInv, CreateInv, CloseInv, Creating, Deleting, Holding, Closing
  <2> QED  BY <1>1, <1>2, <1>3, <2>5, ObjKept
<1>8. CASE pc[t] = "cptr"
  <2>1. pc'[t] = "delete"
    BY <1>2, <1>8 DEF Use
  <2>2. EntryAt(hnd[t]) = [p |-> ptr'[t], type |-> ht[t]]
    BY <1>4, <1>5, <1>6, <1>8 DEF HandleInv, CloseInv
  <2>3. HandleInv(t)'
    BY <1>1, <1>2, <1>6, <1>8, <2>1, <2>2
       DEF HandleInv, UserInv, CreateInv, CloseInv, Creating, Deleting, Holding, Closing, EntryAt
  <2> QED  BY <1>1, <1>2, <1>3, <2>3, ObjKept
<1>9. CASE pc[t] = "xptr"
  <2>1. pc'[t] = "list" /\ Listed(cmd[t])
    BY <1>2, <1>6, <1>9 DEF Use, Fitting
  <2>2. hnd[t] \in Handles /\ table[hnd[t]] = [p |-> ptr'[t], type |-> cmd[t].kind] /\ cmd[t].as = cmd[t].kind
    BY <1>4, <1>5, <1>6, <1>9, <2>1 DEF HandleInv, CloseInv, EntryAt, Holding
  <2>3. HandleInv(t)'
    BY <1>1, <1>2, <2>1, <2>2
       DEF HandleInv, UserInv, CreateInv, CloseInv, Creating, Deleting, Holding, Closing, EntryFor
  <2> QED  BY <1>1, <1>2, <1>3, <2>3, ObjKept
<1> QED  BY <1>2, <1>7, <1>8, <1>9

\* Insert keeps ObjInv.
LEMMA ObjInsert ==
    ASSUME BaseInv, LinkInv, ObjInv, NEW t \in Conns, Insert(t)
    PROVE  ObjInv'
<1>1. UNCHANGED <<table, heap>>
  BY DEF Insert
<1>2. /\ Others(t) /\ pc[t] = "insert" /\ pc'[t] = "inserting" /\ hnd'[t] \in Handles /\ Empty \in Find(t, hnd'[t])
      /\ cmd'[t] = cmd[t] /\ ptr'[t] = ptr[t]
  BY AtInsert DEF BaseInv, TypesInv
<1>3. SameObjects /\ Creating(t) /\ Creating(t)' /\ ~ Deleting(t)
  BY <1>1, <1>2 DEF SameObjects, Creating, Deleting
<1>4. table[hnd'[t]] = Empty
  BY <1>2, FindExact DEF EntryAt, Idle, Loop, Brief
<1>5. HandleInv(t)
  BY DEF ObjInv
<1>6. UserInv(t)' /\ CloseInv(t)'
  BY <1>2 DEF UserInv, CloseInv, Deleting, Holding, Closing
<1>7. CreateInv(t)'
  BY <1>1, <1>2, <1>4, <1>5 DEF HandleInv, CreateInv, Creating
<1> QED  BY <1>1, <1>2, <1>3, <1>6, <1>7, ObjKept DEF HandleInv

\* Erase keeps ObjInv.
LEMMA ObjErase ==
    ASSUME BaseInv, LinkInv, ObjInv, NEW t \in Conns, Erase(t)
    PROVE  ObjInv'
<1>1. UNCHANGED <<table, heap>>
  BY DEF Erase
<1>2. /\ Others(t) /\ pc[t] = "erase"
      /\ \/ Empty \in Find(t, hnd[t]) /\ pc'[t] = "recv"
         \/ pc'[t] = "erasing" /\ Kept(t) /\ \E e \in Find(t, hnd[t]) : e # Empty
  BY AtErase DEF BaseInv, TypesInv
<1>3. SameObjects /\ ~ Creating(t)
  BY <1>1, <1>2 DEF SameObjects, Creating
<1>4. Find(t, hnd[t]) = {EntryAt(hnd[t])}
  BY <1>2, FindExact DEF Idle, Loop, Brief
<1>5. CASE pc'[t] = "recv"
  <2>1. EntryAt(hnd[t]) = Empty
    BY <1>2, <1>4, <1>5
  <2>2. HandleInv(t)'
    BY <1>5, IdleHandle DEF Idle, Loop
  <2> QED  BY <1>1, <1>2, <1>3, <2>1, <2>2, ObjKept
<1>6. CASE pc'[t] = "erasing"
  <2>1. hnd[t] \in Handles /\ table[hnd[t]] # Empty /\ Kept(t)
    BY <1>2, <1>4, <1>6 DEF EntryAt
  <2>2. HandleInv(t)
    BY DEF ObjInv
  <2>3. HandleInv(t)'
    BY <1>1, <1>2, <1>6, <2>1, <2>2
       DEF HandleInv, UserInv, CreateInv, CloseInv, Creating, Deleting, Holding, Closing, EntryAt, Kept
  <2>4. Deleting(t)' /\ hnd'[t] = hnd[t]
    BY <1>6, <2>1 DEF Deleting, Kept
  <2> QED  BY <1>1, <1>2, <1>3, <2>3, <2>4, ObjKept
<1> QED  BY <1>2, <1>5, <1>6

\* A step that writes only fields of a live object other than its type.
LEMMA SameFields ==
    ASSUME HeapTyped, NEW o \in Objs, heap[o].type # "empty",
           \A q \in Objs : q # o => heap'[q] = heap[q],
           heap'[o].type = heap[o].type
    PROVE  SameObjects
  BY DEF SameObjects

\* What the steps on lists and region caches do to the objects.
LEMMA ObjectsUsed ==
    ASSUME BaseInv, LinkInv, ObjInv, NEW t \in Conns,
           Iterate(t) \/ List(t) \/ Lock(t) \/ Check(t) \/ Fill(t) \/ Scan(t)
    PROVE  SameObjects /\ UNCHANGED table
<1>1. HeapTyped /\ ThreadTypes /\ cmd[t].kind # "empty"
  BY DEF BaseInv, TypesInv, ThreadTypes, Cmds, Kinds
<1>2. UNCHANGED table
  BY DEF Iterate, List, Lock, Check, Fill, Scan, tableVars
<1>3. UNCHANGED heap => SameObjects
  BY DEF SameObjects
<1>4. CASE Iterate(t)
  <2>1. Live(t, cmd[t].kind)
    BY <1>4, NothingDangles DEF Iterate
  <2> QED  BY <1>1, <1>2, <1>4, <2>1, HeapIterate, SameFields DEF Live
<1>5. CASE List(t)
  <2>1. CASE cmd[t].as = "module" /\ Live(t, "module")
    BY <1>1, <1>2, <1>5, <2>1, HeapList, SameFields DEF Live
  <2>2. CASE ~ (cmd[t].as = "module" /\ Live(t, "module"))
    BY <1>2, <1>3, <1>5, <2>2 DEF List
  <2> QED  BY <2>1, <2>2
<1>6. CASE Lock(t)
  <2>1. Live(t, "open")
    BY <1>6, NothingDangles DEF Lock
  <2> QED  BY <1>1, <1>2, <1>6, <2>1, HeapLock, SameFields DEF Live
<1>7. CASE Check(t)
  <2>1. Live(t, "open")
    BY <1>7, NothingDangles DEF Check
  <2>2. CASE Expired(t)
    BY <1>1, <1>2, <1>7, <2>1, <2>2, HeapCheck, SameFields DEF Live
  <2>3. CASE ~ Expired(t)
    BY <1>2, <1>3, <1>7, <2>3 DEF Check
  <2> QED  BY <2>2, <2>3
<1>8. CASE Fill(t)
  <2>1. Live(t, "open")
    BY <1>8, NothingDangles DEF Fill
  <2>2. CASE pc'[t] = "scan"
    BY <1>1, <1>2, <1>8, <2>1, <2>2, HeapFill, SameFields DEF Live
  <2>3. CASE pc'[t] # "scan"
    BY <1>1, <1>2, <1>8, <2>1, <2>3, HeapFillFailed, SameFields DEF Live
  <2> QED  BY <2>2, <2>3
<1>9. CASE Scan(t)
  <2>1. Live(t, "open")
    BY <1>9, NothingDangles DEF Scan
  <2> QED  BY <1>1, <1>2, <1>9, <2>1, HeapScan, SameFields DEF Live
<1> QED  BY <1>4, <1>5, <1>6, <1>7, <1>8, <1>9

\* The steps that use an object keep ObjInv.
LEMMA ObjUsed ==
    ASSUME BaseInv, LinkInv, ObjInv, NEW t \in Conns,
           Iterate(t) \/ Lock(t) \/ Check(t) \/ Fill(t) \/ Scan(t)
    PROVE  ObjInv'
<1>1. SameObjects /\ UNCHANGED table
  BY ObjectsUsed
<1>2. /\ Others(t) /\ pc[t] \in {"iter", "lock", "locked", "fill", "scan"}
      /\ pc'[t] = "recv" \/ (pc[t] # "iter" /\ pc'[t] \in {"locked", "fill", "scan"} /\ Kept(t))
  BY AtIterate, AtLock, AtCheck, AtFill, AtScan DEF BaseInv, TypesInv
<1>3. ~ Creating(t) /\ ~ Deleting(t)
  BY <1>2 DEF Creating, Deleting
<1>4. CASE pc'[t] = "recv"
  BY <1>1, <1>2, <1>3, <1>4, ObjIdle DEF Idle, Loop
<1>5. CASE pc'[t] # "recv"
  <2>1. HandleInv(t)
    BY DEF ObjInv
  <2>2. HandleInv(t)'
    BY <1>1, <1>2, <1>5, <2>1
       DEF HandleInv, UserInv, CreateInv, CloseInv, Creating, Deleting, Holding, Closing, EntryFor, Kept
  <2> QED  BY <1>1, <1>2, <1>3, <2>2, ObjKept
<1> QED  BY <1>4, <1>5

\* List keeps ObjInv.
LEMMA ObjList ==
    ASSUME BaseInv, LinkInv, ObjInv, NEW t \in Conns, List(t)
    PROVE  ObjInv'
<1>1. SameObjects /\ UNCHANGED table
  BY ObjectsUsed
<1>2. Others(t) /\ pc[t] = "list" /\ pc'[t] = "ctype" /\ Kept(t)
  BY AtList DEF BaseInv, TypesInv
<1>3. ~ Creating(t) /\ ~ Deleting(t)
  BY <1>2 DEF Creating, Deleting
<1>4. HandleInv(t)
  BY DEF ObjInv
<1>5. HandleInv(t)'
  BY <1>1, <1>2, <1>4 DEF HandleInv, UserInv, CreateInv, CloseInv, Creating, Deleting, Holding, Closing, Kept
<1> QED  BY <1>1, <1>2, <1>3, <1>5, ObjKept

\* Steps of the client and the clock leave everything that ObjInv speaks of, but
\* for the thread that an accepted connection gets.
LEMMA ObjClient ==
    ASSUME BaseInv, ObjInv, SameObjects, UNCHANGED <<table, cmd, hnd, ht, ptr>>,
           \A t \in Conns : pc'[t] = pc[t] \/ (pc[t] = "none" /\ pc'[t] = "recv")
    PROVE  ObjInv'
<1>1. \A t \in Conns : Creating(t)' = Creating(t) /\ Deleting(t)' = Deleting(t)
  BY DEF Creating, Deleting
<1>2. ASSUME NEW t \in Conns PROVE HandleInv(t)'
  <2>1. CASE pc'[t] = pc[t]
    BY <2>1, HandleSame
  <2>2. CASE pc'[t] = "recv"
    BY <2>2, IdleHandle DEF Idle, Loop
  <2> QED  BY <2>1, <2>2
<1> QED  BY <1>1, <1>2, ObjSame

\* Age keeps ObjInv.
LEMMA ObjAge ==
    ASSUME BaseInv, ObjInv, NEW o \in Objs, Age(o)
    PROVE  ObjInv'
<1>1. UNCHANGED <<table, pc, cmd, hnd, ht, ptr>>
  BY DEF Age, tableVars, threadVars
<1>2. heap[o].type # "empty"
  BY DEF Age, ObjInv, ObjectsKept, Freed, Object
<1>3. SameObjects
  BY <1>2, HeapAge, SameFields DEF BaseInv, TypesInv
<1> QED  BY <1>1, <1>3, ObjClient

-----------------------------------------------------------------------------
(* The steps that create and delete objects.                               *)

\* While a thread creates or closes, the others stay idle.
LEMMA OthersIdle ==
    ASSUME BaseInv, LinkInv, NEW t \in Conns, Others(t), cmd[t].op \in Changing
    PROVE  \A u \in Conns : u # t => /\ Idle(u) /\ Idle(u)' /\ HandleInv(u)'
                                     /\ ~ Creating(u) /\ ~ Deleting(u)
<1> SUFFICES ASSUME NEW u \in Conns, u # t
             PROVE  Idle(u) /\ Idle(u)' /\ HandleInv(u)' /\ ~ Creating(u) /\ ~ Deleting(u)
  OBVIOUS
<1>1. Idle(u) /\ Idle(u)'
  BY ChangingAlone DEF Idle, Others
<1> QED  BY <1>1, IdleHandle DEF Idle, Loop, Brief, Creating, Deleting

\* Build keeps ObjInv.
LEMMA ObjBuild ==
    ASSUME BaseInv, LinkInv, ObjInv, NEW t \in Conns, Build(t)
    PROVE  ObjInv'
<1>1. UNCHANGED table
  BY DEF Build, tableVars
<1>2. /\ Others(t) /\ pc[t] = "build"
      /\ \/ pc'[t] = "recv" /\ heap' = heap
         \/ pc'[t] = "insert" /\ cmd'[t] = cmd[t]
  BY AtBuild DEF BaseInv, TypesInv
<1>3. ~ Creating(t) /\ ~ Deleting(t)
  BY <1>2 DEF Creating, Deleting
<1>4. CASE pc'[t] = "recv"
  <2>1. SameObjects
    BY <1>2, <1>4 DEF SameObjects
  <2> QED  BY <1>1, <1>2, <1>3, <1>4, <2>1, ObjIdle DEF Idle, Loop
<1>5. CASE pc'[t] = "insert"
  <2> DEFINE o == ptr'[t]
  <2>1. /\ o \in Objs /\ heap[o] = Freed
        /\ \A q \in Objs : q # o => heap'[q] = heap[q]
        /\ heap'[o].type = NewType(cmd[t]) /\ cmd'[t] = cmd[t]
    BY <1>2, <1>5, HeapBuild DEF BaseInv, TypesInv
  <2> HIDE DEF o
  <2>2. \A u \in Conns : u # t => HandleInv(u)' /\ ~ Creating(u) /\ ~ Deleting(u)
    BY <1>2, ChangingPoints, OthersIdle
  <2>3. \A u \in Conns : ~ Creating(u) /\ ~ Deleting(u)
    BY <1>3, <2>2
  <2>4. Freed.type = "empty"
    BY DEF Freed, Object
  <2>5. \A h \in Handles : table[h].p # o /\ (table[h] # Empty => table[h].p \in Objs)
    BY <2>1, <2>3, <2>4, NoneAssumption DEF ObjInv, EntriesLive, Empty
  <2>6. NewType(cmd[t]) # "empty"
    BY DEF NewType, BaseInv, TypesInv, ThreadTypes, Cmds, Kinds
  <2>7. EntriesLive'
    BY <1>1, <2>1, <2>3, <2>5 DEF ObjInv, EntriesLive
  <2>8. EntriesDistinct'
    BY <1>1 DEF ObjInv, EntriesDistinct
  <2>9. ObjectsKept'
    <3>1. Creating(t)'
      BY <1>5 DEF Creating
    <3> SUFFICES ASSUME NEW q \in Objs
                 PROVE  /\ heap'[q].type # "empty" => \/ \E h \in Handles : table'[h].p = q
                                                      \/ \E u \in Conns : Creating(u)' /\ ptr'[u] = q
                        /\ heap'[q].type = "empty" => heap'[q] = Freed
      BY DEF ObjectsKept
    <3>2. CASE q = o
      BY <2>1, <2>6, <3>1, <3>2 DEF o
    <3>3. CASE q # o
      BY <1>1, <2>1, <2>3, <3>3 DEF ObjInv, ObjectsKept
    <3> QED  BY <3>2, <3>3
  <2>10. HandleInv(t)'
    <3>1. CreateInv(t)'
      BY <1>1, <1>5, <2>1, <2>5 DEF CreateInv, Creating, o
    <3>2. UserInv(t)' /\ CloseInv(t)'
      BY <1>5 DEF UserInv, CloseInv, Holding, Closing, Deleting
    <3> QED  BY <3>1, <3>2 DEF HandleInv
  <2> QED  BY <2>2, <2>7, <2>8, <2>9, <2>10 DEF ObjInv
<1> QED  BY <1>2, <1>4, <1>5

\* Inserted keeps ObjInv.
LEMMA ObjInserted ==
    ASSUME BaseInv, LinkInv, ObjInv, NEW t \in Conns, Inserted(t)
    PROVE  ObjInv'
<1> DEFINE g == hnd[t]
           o == ptr[t]
<1>1. /\ Others(t) /\ pc[t] = "inserting"
      /\ IF Listed(cmd[t]) THEN pc'[t] = AfterInsert(cmd[t]) /\ Kept(t) ELSE pc'[t] = "recv"
  BY AtInserted DEF BaseInv, TypesInv
<1>2. g \in Handles /\ o \in Objs
  BY <1>1 DEF BaseInv, ControlInv, ControlOf
<1>3. CreateInv(t)
  BY DEF ObjInv, HandleInv
<1>4. \A u \in Conns : u # t => HandleInv(u)' /\ ~ Creating(u) /\ ~ Deleting(u)
  BY <1>1, ChangingPoints, OthersIdle
<1>5. \A u \in Conns : ~ Deleting(u)
  BY <1>1, <1>4 DEF Deleting
<1>6. /\ heap[o].type = NewType(cmd[t]) /\ NewType(cmd[t]) # "empty"
      /\ \A h \in Handles : table[h].p # o
      /\ table[g] = Empty
  BY <1>1, <1>3 DEF CreateInv, Creating, NewType, BaseInv, TypesInv, ThreadTypes, Cmds, Kinds
<1>7. /\ table' = [table EXCEPT ![g] = [p |-> o, type |-> heap[o].type]]
      /\ UNCHANGED heap
  <2>1. mutating \ {t} = {}
    BY <1>1, FindExact DEF Idle, Loop, Brief
  <2> QED  BY <1>6, <2>1 DEF Inserted, Become
<1>8. /\ table'[g].p = o /\ table'[g].type = heap[o].type /\ table'[g] # Empty
      /\ \A h \in Handles : h # g => table'[h] = table[h]
  BY <1>2, <1>6, <1>7 DEF BaseInv, TypesInv, TableTypes, Empty
<1> HIDE DEF g, o
<1>9. EntriesLive'
  BY <1>2, <1>5, <1>6, <1>7, <1>8 DEF ObjInv, EntriesLive
<1>10. EntriesDistinct'
  BY <1>2, <1>6, <1>8 DEF ObjInv, EntriesDistinct
<1>11. ObjectsKept'
  <2>1. Empty.p \notin Objs
    BY NoneAssumption DEF Empty
  <2> SUFFICES ASSUME NEW q \in Objs, heap[q].type # "empty" PROVE \E h \in Handles : table'[h].p = q
    BY <1>7 DEF ObjInv, ObjectsKept
  <2>2. CASE q = o
    BY <1>2, <1>8, <2>2
  <2>3. CASE q # o
    <3>1. ~ \E u \in Conns : Creating(u) /\ ptr[u] = q
      BY <1>4, <2>3 DEF o
    <3>2. PICK h \in Handles : table[h].p = q
      BY <3>1 DEF ObjInv, ObjectsKept
    <3> QED  BY <1>6, <1>8, <2>1, <3>2
  <2> QED  BY <2>2, <2>3
<1>12. HandleInv(t)'
  <2>1. CASE ~ Listed(cmd[t])
    BY <1>1, <2>1, IdleHandle DEF Idle, Loop
  <2>2. CASE Listed(cmd[t])
    <3>1. Kept(t) /\ pc'[t] \in {"xtype", "xptr"} /\ (pc'[t] = "xptr" => cmd[t].as = "thread")
      BY <1>1, <2>2 DEF AfterInsert, Listed
    <3>2. table'[g].type = cmd[t].kind
      BY <1>6, <1>8, <2>2 DEF Listed, NewType
    <3>3. cmd[t].as = "thread" => cmd[t].kind = "thread"
      BY DEF LinkInv, FlagsInv
    <3> QED  BY <1>2, <3>1, <3>2, <3>3
             DEF HandleInv, UserInv, CreateInv, CloseInv, Creating, Deleting, Holding, Closing, Kept, g
  <2> QED  BY <2>1, <2>2
<1> QED  BY <1>4, <1>9, <1>10, <1>11, <1>12 DEF ObjInv

\* Delete keeps ObjInv.
LEMMA ObjDelete ==
    ASSUME BaseInv, LinkInv, ObjInv, NEW t \in Conns, Delete(t)
    PROVE  ObjInv'
<1> DEFINE g == hnd[t]
           o == ptr[t]
<1>1. UNCHANGED table
  BY DEF Delete, tableVars
<1>2. Others(t) /\ pc[t] = "delete" /\ pc'[t] = "erase" /\ Kept(t)
  BY AtDelete DEF BaseInv, TypesInv
<1>3. CloseInv(t)
  BY DEF ObjInv, HandleInv
<1>4. \A u \in Conns : u # t => HandleInv(u)' /\ ~ Creating(u) /\ ~ Deleting(u)
  BY <1>2, ChangingPoints, OthersIdle
<1>5. \A u \in Conns : ~ Deleting(u) /\ ~ Creating(u)
  BY <1>2, <1>4 DEF Creating, Deleting
<1>6. EntryAt(g) = [p |-> o, type |-> ht[t]]
  BY <1>2, <1>3 DEF CloseInv
<1>7. Freed.type = "empty"
  BY DEF Freed, Object
<1> HIDE DEF g, o
<1>8. CASE EntryAt(g) = Empty
  <2>1. o = None /\ ht[t] = "empty"
    BY <1>6, <1>8 DEF Empty
  <2>2. UNCHANGED heap
    BY <2>1 DEF Delete
  <2>3. SameObjects
    BY <2>2 DEF SameObjects
  <2>4. HandleInv(t)'
    BY <1>1, <1>2, <1>3, <1>6, <2>1, NoneAssumption
       DEF HandleInv, UserInv, CreateInv, CloseInv, Creating, Deleting, Holding, Closing, EntryAt, Kept, g, o
  <2> QED  BY <1>1, <1>2, <1>5, <2>3, <2>4, ObjKept
<1>9. CASE EntryAt(g) # Empty
  <2>1. g \in Handles /\ table[g] # Empty /\ table[g].p = o /\ table[g].type = ht[t]
    BY <1>6, <1>9 DEF EntryAt
  <2>2. o \in Objs /\ ht[t] # "empty"
    BY <2>1 DEF ObjInv, EntriesLive
  <2>3. heap'[o] = Freed /\ \A q \in Objs : q # o => heap'[q] = heap[q]
    BY <2>2, HeapDelete DEF BaseInv, TypesInv, o
  <2>4. \A h \in Handles : table[h].p = o => h = g
    BY <2>1 DEF ObjInv, EntriesDistinct
  <2>5. Deleting(t)' /\ hnd'[t] = g
    BY <1>2 DEF Deleting, Kept, g
  <2>6. EntriesLive'
    <3> SUFFICES ASSUME NEW h \in Handles, table[h] # Empty
                 PROVE  /\ table[h].p \in Objs /\ table[h].type # "empty"
                        /\ heap'[table[h].p].type = table[h].type \/ \E u \in Conns : Deleting(u)' /\ hnd'[u] = h
      BY <1>1 DEF EntriesLive
    <3>1. table[h].p \in Objs /\ table[h].type # "empty" /\ heap[table[h].p].type = table[h].type
      BY <1>5 DEF ObjInv, EntriesLive
    <3> QED  BY <2>3, <2>4, <2>5, <3>1
  <2>7. EntriesDistinct'
    BY <1>1 DEF ObjInv, EntriesDistinct
  <2>8. ObjectsKept'
    BY <1>1, <1>5, <1>7, <2>3 DEF ObjInv, ObjectsKept
  <2>9. HandleInv(t)'
    <3>1. CloseInv(t)'
      BY <1>1, <1>2, <1>3, <1>7, <2>1, <2>2, <2>3
         DEF CloseInv, Deleting, Holding, Closing, EntryAt, Kept, g, o
    <3> QED  BY <1>2, <3>1 DEF HandleInv, UserInv, CreateInv, Creating
  <2> QED  BY <1>4, <2>6, <2>7, <2>8, <2>9 DEF ObjInv
<1> QED  BY <1>8, <1>9

\* Erased keeps ObjInv.
LEMMA ObjErased ==
    ASSUME BaseInv, LinkInv, ObjInv, NEW t \in Conns, Erased(t)
    PROVE  ObjInv'
<1> DEFINE g == hnd[t]
<1>1. Others(t) /\ pc[t] = "erasing" /\ pc'[t] = "recv"
  BY AtErased DEF BaseInv, TypesInv
<1>2. g \in Handles /\ CloseInv(t)
  BY <1>1 DEF BaseInv, ControlInv, ControlOf, ObjInv, HandleInv
<1>3. \A u \in Conns : u # t => HandleInv(u)' /\ ~ Creating(u) /\ ~ Deleting(u)
  BY <1>1, ChangingPoints, OthersIdle
<1>4. HandleInv(t)' /\ ~ Creating(t)
  BY <1>1, IdleHandle DEF Idle, Loop, Creating
<1>5. /\ table[g] # Empty /\ table[g].p = ptr[t]
      /\ ptr[t] \in Objs => heap[ptr[t]].type = "empty"
  BY <1>1, <1>2 DEF CloseInv, Deleting, EntryAt
<1>6. table' = [table EXCEPT ![g] = Empty] /\ UNCHANGED heap
  <2>1. mutating \ {t} = {}
    BY <1>1, FindExact DEF Idle, Loop, Brief
  <2> QED  BY <2>1 DEF Erased, Become, ErasedTable
<1>7. table'[g] = Empty /\ \A h \in Handles : h # g => table'[h] = table[h]
  BY <1>2, <1>6 DEF BaseInv, TypesInv, TableTypes
<1> HIDE DEF g
<1>8. EntriesLive'
  <2>1. \A u \in Conns : Deleting(u) => hnd[u] = g
    BY <1>3 DEF g
  <2> QED  BY <1>6, <1>7, <2>1 DEF ObjInv, EntriesLive
<1>9. EntriesDistinct'
  <2>1. Empty.p \notin Objs
    BY NoneAssumption DEF Empty
  <2> QED  BY <1>7, <2>1 DEF ObjInv, EntriesDistinct, EntriesLive
<1>10. ObjectsKept'
  <2> SUFFICES ASSUME NEW q \in Objs, heap[q].type # "empty" PROVE \E h \in Handles : table'[h].p = q
    BY <1>6 DEF ObjInv, ObjectsKept
  <2>1. PICK h \in Handles : table[h].p = q
    BY <1>3, <1>4 DEF ObjInv, ObjectsKept
  <2> QED  BY <1>5, <1>7, <2>1
<1> QED  BY <1>3, <1>4, <1>8, <1>9, <1>10 DEF ObjInv

\* Every step keeps ObjInv.
LEMMA ObjNext ==
    ASSUME BaseInv, LinkInv, ObjInv, [Next]_vars
    PROVE  ObjInv'
<1>1. UNCHANGED heap => SameObjects
  BY DEF SameObjects
<1>2. ASSUME NEW c \in Conns, NEW m \in Requests, Send(c, m) PROVE ObjInv'
  BY <1>1, <1>2, AtSend, ObjClient DEF BaseInv, TypesInv
<1>3. ASSUME NEW c \in Conns, Disconnect(c) PROVE ObjInv'
  BY <1>1, <1>3, AtDisconnect, ObjClient DEF BaseInv, TypesInv
<1>4. ASSUME NEW c \in Conns, Accept(c) PROVE ObjInv'
  <2>1. UNCHANGED <<table, heap, cmd, hnd, ht, ptr>>
    BY <1>4 DEF Accept, tableVars
  <2>2. \A t \in Conns : pc'[t] = pc[t] \/ (pc[t] = "none" /\ pc'[t] = "recv")
    BY <1>4, AtAccept DEF BaseInv, TypesInv
  <2> QED  BY <1>1, <2>1, <2>2, ObjClient
<1>5. ASSUME NEW t \in Conns, Thread(t) PROVE ObjInv'
  BY <1>5, ObjLoop, ObjDispatch, ObjFindPid, ObjGetHandleType, ObjGetPointerFromHandle, ObjBuild,
     ObjInsert, ObjInserted, ObjList, ObjDelete, ObjErase, ObjErased, ObjUsed DEF Thread
<1>6. CASE FirstMinute \/ UNCHANGED vars
  BY <1>1, <1>6, ObjClient DEF FirstMinute, vars, tableVars, threadVars
<1> QED  BY <1>2, <1>3, <1>4, <1>5, <1>6, ObjAge DEF Next, Client

\* ObjInv, for a careful client.
LEMMA ObjCorrect == ASSUME Careful PROVE Spec => [](BaseInv /\ LinkInv /\ ObjInv)
<1>1. Init => ObjInv
  <2> SUFFICES ASSUME Init PROVE ObjInv
    OBVIOUS
  <2>1. EntriesLive /\ EntriesDistinct /\ ObjectsKept
    BY DEF Init, EntriesLive, EntriesDistinct, ObjectsKept, Empty, Freed, Object
  <2>2. \A t \in Conns : HandleInv(t)
    BY DEF Init, HandleInv, UserInv, CreateInv, CloseInv, Creating, Deleting, Holding, Closing
  <2> QED  BY <2>1, <2>2 DEF ObjInv
<1>2. BaseInv /\ LinkInv /\ ObjInv /\ [Next]_vars => ObjInv'
  BY ObjNext
<1> QED  BY <1>1, <1>2, LinkCorrect, PTL DEF Spec

\* NoDangling, for a careful client: no thread uses an object that was deleted,
\* or that is not of the type it takes it for (api.cpp, GetPointerFromHandle;
\* porthelp.cpp, FindHandleByPID; main.cpp, the list read by dwFlags).
THEOREM NeverDangling == ASSUME Careful PROVE Spec => []NoDangling
<1>1. BaseInv /\ LinkInv /\ ObjInv => NoDangling
  <2> SUFFICES ASSUME BaseInv, LinkInv, ObjInv, NEW t \in Conns
               PROVE  /\ \A ty \in Needed(t) : Live(t, ty)
                      /\ pc[t] = "find" => \A h \in Visited(cmd[t].pid) : heap[table[h].p].type = "open"
    BY DEF NoDangling
  <2>1. ASSUME NEW ty \in Needed(t) PROVE Live(t, ty)
    <3>1. CASE pc[t] \in {"mem", "lock", "locked", "fill", "scan"}
      BY <2>1, <3>1, NothingDangles DEF Needed
    <3>2. CASE pc[t] \in {"iter", "list"}
      BY <2>1, <3>2, NothingDangles DEF Needed
    <3>3. CASE pc[t] = "delete"
      BY <2>1, <3>3, NothingDangles DEF Needed
    <3>4. CASE pc[t] = "build"
      <4>1. cmd[t].op # "open" /\ cmd[t].kind = "module" /\ ty = "open"
        BY <2>1, <3>4 DEF Needed
      <4>2. InModule(cmd[t])
        BY <3>4, <4>1 DEF BaseInv, ControlInv, ControlOf, Fitting, Creates, InModule
      <4> QED  BY <3>4, <4>1, <4>2, NothingDangles
    <3>5. CASE pc[t] \notin {"mem", "lock", "locked", "fill", "scan", "iter", "list", "delete", "build"}
      BY <2>1, <3>5 DEF Needed
    <3> QED  BY <3>1, <3>2, <3>3, <3>4, <3>5
  <2>2. pc[t] = "find" => \A h \in Visited(cmd[t].pid) : heap[table[h].p].type = "open"
    BY NothingDangles DEF Visited
  <2> QED  BY <2>1, <2>2
<1> QED  BY <1>1, ObjCorrect, PTL

-----------------------------------------------------------------------------
(* Who has the handles, for a careful client.                              *)

\* The client holds a handle, or has lost it with a connection, or a command
\* that closes it is on its way or in its handler.
Claimed(h) ==
    \/ h \in known \cup lost
    \/ \E c \in Conns : msg[c].op = "close" /\ msg[c].h = h
    \/ \E t \in Conns : Holding(t) /\ hnd[t] = h
EntriesClaimed == \A h \in Handles : table[h] # Empty => Claimed(h)

\* Answers only add to the handles that the client holds or has lost.
LEMMA AnswerGives ==
    ASSUME ClientTypes, NEW t \in Conns, NEW hs, NEW ok, Answer(t, hs, ok)
    PROVE  known \cup lost \cup (hs \ {0}) \subseteq known' \cup lost'
<1>1. 0 \notin lost
  BY NumbersAssumption DEF ClientTypes
<1>2. CASE Delivered(t)
  BY <1>1, <1>2 DEF Answer
<1>3. CASE ~ Delivered(t)
  BY <1>3 DEF Answer
<1> QED  BY <1>2, <1>3

\* No step of a thread takes a handle from them.
LEMMA ThreadGives ==
    ASSUME BaseInv, NEW t \in Conns, Thread(t)
    PROVE  known \cup lost \subseteq known' \cup lost'
<1>1. ClientTypes
  BY DEF BaseInv, TypesInv
<1>2. CASE \E hs, ok : Answer(t, hs, ok)
  BY <1>1, <1>2, AnswerGives
<1>3. CASE UNCHANGED <<known, lost>>
  BY <1>3
<1>4. CASE Recv(t) \/ RecvEnd(t) \/ Exit(t) \/ Dispatch(t) \/ HangUp(t) \/ Terminate(t)
  BY <1>3, <1>4 DEF Recv, RecvEnd, Exit, Dispatch, HangUp, Terminate, CloseSocket, clientVars
<1>5. CASE GetPointerFromHandle(t) \/ Insert(t) \/ Delete(t) \/ Check(t)
  BY <1>3, <1>5 DEF GetPointerFromHandle, Insert, Delete, Check, clientVars
<1>6. CASE Info(t) \/ List(t) \/ Iterate(t) \/ Memory(t) \/ Scan(t)
  BY <1>2, <1>3, <1>6 DEF Info, List, Iterate, Memory, Scan, Silence, clientVars
<1>7. CASE FindPid(t) \/ GetHandleType(t) \/ Build(t)
  BY <1>2, <1>3, <1>7 DEF FindPid, GetHandleType, Build, Silence, clientVars
<1>8. CASE Inserted(t) \/ Erase(t) \/ Erased(t) \/ Lock(t) \/ Fill(t)
  BY <1>2, <1>3, <1>8 DEF Inserted, Erase, Erased, CloseAnswer, Lock, Fill, Silence, clientVars
<1> QED  BY <1>4, <1>5, <1>6, <1>7, <1>8 DEF Thread

\* A step of a thread that makes no entry, and does not let go of the handle of
\* one.
LEMMA ClaimKept ==
    ASSUME EntriesClaimed, NEW t \in Conns, Others(t), UNCHANGED msg,
           known \cup lost \subseteq known' \cup lost',
           \A h \in Handles : table'[h] # Empty => table[h] # Empty,
           Holding(t) => (Holding(t)' /\ hnd'[t] = hnd[t])
                         \/ (hnd[t] \in Handles => table'[hnd[t]] = Empty)
    PROVE  EntriesClaimed'
<1> SUFFICES ASSUME NEW h \in Handles, table'[h] # Empty PROVE Claimed(h)'
  BY DEF EntriesClaimed
<1>1. CASE h \in known \cup lost
  BY <1>1 DEF Claimed
<1>2. CASE \E c \in Conns : msg[c].op = "close" /\ msg[c].h = h
  BY <1>2 DEF Claimed
<1>3. ASSUME NEW u \in Conns, Holding(u), hnd[u] = h PROVE Claimed(h)'
  <2>1. Holding(u)' /\ hnd'[u] = h
    BY <1>3 DEF Others, Holding, Closing
  <2> QED  BY <2>1 DEF Claimed
<1> QED  BY <1>1, <1>2, <1>3 DEF EntriesClaimed, Claimed

\* The steps of a thread that holds no handle, and dispatches and creates none.
LEMMA ClaimFree ==
    ASSUME BaseInv, EntriesClaimed, NEW t \in Conns, Thread(t), ~ Holding(t), ~ Dispatch(t), ~ Inserted(t)
    PROVE  EntriesClaimed'
<1>1. known \cup lost \subseteq known' \cup lost'
  BY ThreadGives
<1>2. UNCHANGED table
  BY DEF Thread, Recv, RecvEnd, Exit, HangUp, Terminate, Info, FindPid, GetHandleType, GetPointerFromHandle, Build,
     Insert, List, Delete, Erase, Erased, Iterate, Memory, Lock, Check, Fill, Scan, tableVars, Holding, Closing
<1>3. Others(t) /\ UNCHANGED msg
  <2>1. CASE Recv(t) \/ RecvEnd(t)
    BY <2>1, AtRecv, AtRecvEnd DEF BaseInv, TypesInv, Recv, RecvEnd, clientVars
  <2>2. CASE Exit(t) \/ HangUp(t) \/ Terminate(t)
    BY <2>2, AtExit, AtHangUp, AtTerminate DEF BaseInv, TypesInv, Exit, HangUp, Terminate, CloseSocket
  <2>3. CASE Inside(t)
    BY <2>3 DEF Inside
  <2> QED  BY <2>1, <2>2, <2>3, ThreadSteps
<1> QED  BY <1>1, <1>2, <1>3, ClaimKept

\* The steps of one that closes a handle.
LEMMA ClaimHolding ==
    ASSUME BaseInv, LinkInv, EntriesClaimed, NEW t \in Conns, Thread(t), Holding(t)
    PROVE  EntriesClaimed'
<1>1. known \cup lost \subseteq known' \cup lost'
  BY ThreadGives
<1>2. \/ GetHandleType(t) \/ GetPointerFromHandle(t) \/ List(t) \/ Delete(t)
      \/ Erase(t) \/ Erased(t)
  BY DEF Thread, Recv, RecvEnd, Exit, Dispatch, HangUp, Terminate, Info, FindPid, Build,
     Insert, Inserted, Iterate, Memory, Lock, Check, Fill, Scan, Holding, Closing
<1>3. Others(t) /\ UNCHANGED msg
  BY <1>2, InsideGetHandleType, InsideGetPointerFromHandle, InsideList, InsideDelete, InsideErase, InsideErased
     DEF Inside
<1>4. Find(t, hnd[t]) = {EntryAt(hnd[t])} /\ mutating \ {t} = {}
  BY FindExact DEF Holding, Closing, Idle, Loop, Brief
<1>5. CASE GetHandleType(t)
  <2>1. UNCHANGED table
    BY <1>5 DEF GetHandleType, tableVars
  <2>2. Holding(t)' /\ hnd'[t] = hnd[t]
    <3>1. pc'[t] \in {"ctype", "cptr", "xptr"} /\ hnd'[t] = hnd[t]
      BY <1>5, AtGetHandleType DEF BaseInv, TypesInv, Kept, Typed, Holding, Closing
    <3> QED  BY <3>1 DEF Holding, Closing
  <2> QED  BY <1>1, <1>3, <2>1, <2>2, ClaimKept
<1>6. CASE GetPointerFromHandle(t)
  <2>1. UNCHANGED table
    BY <1>6 DEF GetPointerFromHandle, tableVars
  <2>2. Holding(t)' /\ hnd'[t] = hnd[t]
    BY <1>6, AtGetPointerFromHandle DEF BaseInv, TypesInv, Use, Holding, Closing
  <2> QED  BY <1>1, <1>3, <2>1, <2>2, ClaimKept
<1>7. CASE List(t) \/ Delete(t)
  <2>1. UNCHANGED table
    BY <1>7 DEF List, Delete, tableVars
  <2>2. Holding(t)' /\ hnd'[t] = hnd[t]
    BY <1>7, AtList, AtDelete DEF BaseInv, TypesInv, Kept, Holding, Closing
  <2> QED  BY <1>1, <1>3, <2>1, <2>2, ClaimKept
<1>8. CASE Erase(t)
  <2>1. UNCHANGED table
    BY <1>8 DEF Erase
  <2>2. \/ Holding(t)' /\ hnd'[t] = hnd[t]
        \/ hnd[t] \in Handles => table'[hnd[t]] = Empty
    BY <1>4, <1>8, <2>1, AtErase DEF BaseInv, TypesInv, Kept, Holding, Closing, EntryAt
  <2> QED  BY <1>1, <1>3, <2>1, <2>2, ClaimKept
<1>9. CASE Erased(t)
  <2>1. table' = [table EXCEPT ![hnd[t]] = Empty]
    BY <1>4, <1>9 DEF Erased, Become, ErasedTable
  <2>2. (\A h \in Handles : table'[h] # Empty => table[h] # Empty) /\ (hnd[t] \in Handles => table'[hnd[t]] = Empty)
    BY <2>1 DEF BaseInv, TypesInv, TableTypes
  <2> QED  BY <1>1, <1>3, <2>2, ClaimKept
<1> QED  BY <1>2, <1>5, <1>6, <1>7, <1>8, <1>9

\* Dispatch takes a command that closes a handle from its way into the handler.
LEMMA ClaimDispatch ==
    ASSUME BaseInv, EntriesClaimed, NEW t \in Conns, Dispatch(t)
    PROVE  EntriesClaimed'
<1>1. UNCHANGED <<table, known, lost>> /\ msg' = [msg EXCEPT ![from[t]] = NoCmd] /\ from[t] \in Conns
  BY DEF Dispatch, tableVars, BaseInv, ControlInv, ControlOf
<1>2. Others(t) /\ pc[t] = "wait" /\ pc'[t] = Entry(msg[from[t]]) /\ hnd'[t] = msg[from[t]].h
  BY AtDispatch DEF BaseInv, TypesInv
<1> SUFFICES ASSUME NEW h \in Handles, table[h] # Empty PROVE Claimed(h)'
  BY <1>1 DEF EntriesClaimed
<1>3. CASE h \in known \cup lost
  BY <1>1, <1>3 DEF Claimed
<1>4. ASSUME NEW c \in Conns, msg[c].op = "close", msg[c].h = h PROVE Claimed(h)'
  <2>1. CASE c = from[t]
    <3>1. pc'[t] = "ctype" /\ hnd'[t] = h
      BY <1>2, <1>4, <2>1 DEF Entry
    <3>2. Holding(t)'
      BY <3>1 DEF Holding, Closing
    <3> QED  BY <3>1, <3>2 DEF Claimed
  <2>2. CASE c # from[t]
    <3>1. msg'[c] = msg[c]
      BY <1>1, <2>2 DEF BaseInv, TypesInv, ClientTypes
    <3> QED  BY <1>4, <3>1 DEF Claimed
  <2> QED  BY <2>1, <2>2
<1>5. ASSUME NEW u \in Conns, Holding(u), hnd[u] = h PROVE Claimed(h)'
  <2>1. u # t
    BY <1>2, <1>5 DEF Holding, Closing
  <2>2. Holding(u)' /\ hnd'[u] = h
    BY <1>2, <1>5, <2>1 DEF Others, Holding, Closing
  <2> QED  BY <2>2 DEF Claimed
<1> QED  BY <1>3, <1>4, <1>5 DEF EntriesClaimed, Claimed

\* Inserted gives its handle to the client, or goes on to close it.
LEMMA ClaimInserted ==
    ASSUME BaseInv, EntriesClaimed, NEW t \in Conns, Inserted(t)
    PROVE  EntriesClaimed'
<1> DEFINE g == hnd[t]
<1>1. /\ Others(t) /\ pc[t] = "inserting"
      /\ Listed(cmd[t]) => pc'[t] = AfterInsert(cmd[t]) /\ Kept(t)
  BY AtInserted DEF BaseInv, TypesInv
<1>2. UNCHANGED msg /\ known \cup lost \subseteq known' \cup lost'
  BY InsideInserted, ThreadGives DEF Inside, Thread
<1>3. \A h \in Handles : h # g => table'[h] = table[h]
  BY DEF Inserted, Become, BaseInv, TypesInv, TableTypes
<1> SUFFICES ASSUME NEW h \in Handles, table'[h] # Empty PROVE Claimed(h)'
  BY DEF EntriesClaimed
<1>4. CASE h # g
  <2>1. table[h] # Empty
    BY <1>3, <1>4
  <2>2. ASSUME NEW u \in Conns, Holding(u), hnd[u] = h PROVE Claimed(h)'
    <3>1. Holding(u)' /\ hnd'[u] = h
      BY <1>1, <1>4, <2>2 DEF Others, Holding, Closing
    <3> QED  BY <3>1 DEF Claimed
  <2> QED  BY <1>2, <2>1, <2>2 DEF EntriesClaimed, Claimed
<1>5. CASE h = g /\ Listed(cmd[t])
  <2>1. Holding(t)' /\ hnd'[t] = h
    BY <1>1, <1>5 DEF Holding, AfterInsert, Kept
  <2> QED  BY <2>1 DEF Claimed
<1>6. CASE h = g /\ ~ Listed(cmd[t])
  <2>1. Answer(t, {g}, TRUE) /\ ClientTypes
    BY <1>6 DEF Inserted, BaseInv, TypesInv
  <2>2. h \in known' \cup lost'
    BY <1>6, <2>1, AnswerGives, NumbersAssumption
  <2> QED  BY <2>2 DEF Claimed
<1> QED  BY <1>4, <1>5, <1>6

\* Every step keeps EntriesClaimed.
LEMMA ClaimNext ==
    ASSUME BaseInv, LinkInv, EntriesClaimed, [Next]_vars
    PROVE  EntriesClaimed'
<1>1. ASSUME NEW c \in Conns, NEW m \in Requests, Send(c, m) PROVE EntriesClaimed'
  <2>1. /\ msg[c] = NoCmd /\ msg'[c] = m /\ \A d \in Conns : d # c => msg'[d] = msg[d]
        /\ known' = IF m.op = "close" THEN known \ {m.h} ELSE known
        /\ UNCHANGED <<lost, table, pc, hnd>>
    BY <1>1, AtSend DEF BaseInv, TypesInv
  <2> SUFFICES ASSUME NEW h \in Handles, table[h] # Empty, Claimed(h) PROVE Claimed(h)'
    BY <2>1 DEF EntriesClaimed
  <2>2. CASE h \in known \cup lost
    BY <2>1, <2>2 DEF Claimed
  <2>3. CASE \E d \in Conns : msg[d].op = "close" /\ msg[d].h = h
    BY <2>1, <2>3 DEF Claimed, NoCmd, Command
  <2>4. CASE \E t \in Conns : Holding(t) /\ hnd[t] = h
    BY <2>1, <2>4 DEF Claimed, Holding, Closing
  <2> QED  BY <2>2, <2>3, <2>4 DEF Claimed
<1>2. ASSUME NEW c \in Conns, Disconnect(c) PROVE EntriesClaimed'
  <2>1. /\ \A d \in Conns : d # c => msg'[d] = msg[d]
        /\ lost' = IF msg'[c] # msg[c] /\ msg[c].op = "close" THEN lost \cup ({msg[c].h} \ {0}) ELSE lost
        /\ UNCHANGED <<known, table, pc, hnd>>
    BY <1>2, AtDisconnect DEF BaseInv, TypesInv
  <2> SUFFICES ASSUME NEW h \in Handles, table[h] # Empty, Claimed(h) PROVE Claimed(h)'
    BY <2>1 DEF EntriesClaimed
  <2>2. CASE h \in known \cup lost
    BY <2>1, <2>2 DEF Claimed
  <2>3. ASSUME NEW d \in Conns, msg[d].op = "close", msg[d].h = h PROVE Claimed(h)'
    <3>1. CASE msg'[d] = msg[d]
      BY <2>3, <3>1 DEF Claimed
    <3>2. CASE msg'[d] # msg[d]
      <4>1. h \in lost'
        BY <2>1, <2>3, <3>2, NumbersAssumption
      <4> QED  BY <4>1 DEF Claimed
    <3> QED  BY <3>1, <3>2
  <2>4. CASE \E t \in Conns : Holding(t) /\ hnd[t] = h
    BY <2>1, <2>4 DEF Claimed, Holding, Closing
  <2> QED  BY <2>2, <2>3, <2>4 DEF Claimed
<1>3. ASSUME NEW c \in Conns, Accept(c) PROVE EntriesClaimed'
  <2>1. UNCHANGED <<msg, known, lost, table, hnd>>
    BY <1>3 DEF Accept, tableVars
  <2>2. \A t \in Conns : pc'[t] = pc[t] \/ (pc[t] = "none" /\ pc'[t] = "recv")
    BY <1>3, AtAccept DEF BaseInv, TypesInv
  <2>3. \A t \in Conns : Holding(t)' = Holding(t)
    BY <2>2 DEF Holding, Closing
  <2> QED  BY <2>1, <2>3 DEF EntriesClaimed, Claimed
<1>4. ASSUME NEW t \in Conns, Thread(t) PROVE EntriesClaimed'
  BY <1>4, ClaimFree, ClaimHolding, ClaimDispatch, ClaimInserted
<1>5. CASE FirstMinute \/ (\E o \in Objs : Age(o)) \/ UNCHANGED vars
  <2>1. UNCHANGED <<msg, known, lost, table, pc, hnd>>
    BY <1>5 DEF FirstMinute, Age, vars, clientVars, tableVars, threadVars
  <2> QED  BY <2>1 DEF EntriesClaimed, Claimed, Holding, Closing
<1> QED  BY <1>1, <1>2, <1>3, <1>4, <1>5 DEF Next, Client

\* EntriesClaimed, for a careful client.
LEMMA ClaimCorrect == ASSUME Careful PROVE Spec => []EntriesClaimed
<1>1. Init => EntriesClaimed
  BY DEF Init, EntriesClaimed
<1>2. BaseInv /\ LinkInv /\ EntriesClaimed /\ [Next]_vars => EntriesClaimed'
  BY ClaimNext
<1> QED  BY <1>1, <1>2, LinkCorrect, PTL DEF Spec

\* NoLeak, for a careful client: between commands the objects on the heap and
\* the handles of the table correspond one to one, and the client holds every
\* one of those handles or lost it with a connection (CreateHandleFromPointer,
\* CloseHandle, CMD_CREATETOOLHELP32SNAPSHOTEX).
THEOREM NothingLeaks == ASSUME Careful PROVE Spec => []NoLeak
<1>1. BaseInv /\ ObjInv /\ EntriesClaimed => NoLeak
  <2> SUFFICES ASSUME BaseInv, ObjInv, EntriesClaimed, Settled PROVE NoLeak
    BY DEF NoLeak
  <2>1. \A t \in Conns : ~ Creating(t) /\ ~ Deleting(t) /\ ~ Holding(t)
    BY DEF Settled, Creating, Deleting, Holding, Closing
  <2>2. ASSUME NEW o \in Objs, heap[o] # Freed
        PROVE  \E h \in Handles : table[h] = [p |-> o, type |-> heap[o].type]
    <3>1. PICK h \in Handles : table[h].p = o
      BY <2>1, <2>2 DEF ObjInv, ObjectsKept
    <3>2. table[h] # Empty
      BY <3>1, NoneAssumption DEF Empty
    <3>3. table[h].type = heap[o].type /\ table[h] \in [p : Objs \cup {None}, type : Types]
      BY <2>1, <3>1, <3>2 DEF ObjInv, EntriesLive, BaseInv, TypesInv, TableTypes
    <3> QED  BY <3>1, <3>3
  <2>3. ASSUME NEW h \in Handles, table[h] # Empty
        PROVE  /\ table[h].p \in Objs /\ heap[table[h].p].type = table[h].type
               /\ h \in known \cup lost \cup {msg[c].h : c \in Conns}
    BY <2>1, <2>3 DEF ObjInv, EntriesLive, EntriesClaimed, Claimed
  <2>4. \A g, h \in Handles : table[g].p = table[h].p /\ table[g] # Empty => g = h
    BY DEF ObjInv, EntriesDistinct
  <2> QED  BY <2>2, <2>3, <2>4 DEF NoLeak
<1> QED  BY <1>1, ObjCorrect, ClaimCorrect, PTL

-----------------------------------------------------------------------------
(* Region caches, for a careful client.                                    *)

Caching(t) == pc[t] \in {"locked", "fill", "scan"}

\* The list that a thread answers from is there, or VirtualQueryEx has found a
\* cache that counts as never fetched.
Served(t) == heap[ptr[t]].maps \/ (cmd[t].op = "query" /\ heap[ptr[t]].time = "zero")

\* A thread that works on a cache holds its lock, one that reads it finds what
\* it was given, and a cache that counts as fetched has a list or is getting one.
CacheInv ==
    /\ \A t \in Conns : Caching(t) => heap[ptr[t]].lock = t
    /\ \A t \in Conns : pc[t] = "scan" => Served(t)
    /\ \A o \in Objs : heap[o].time # "zero" =>
           heap[o].maps \/ \E t \in Conns : pc[t] = "fill" /\ ptr[t] = o

\* Steps that leave the heap alone.
LEMMA HeapStill ==
    ASSUME BaseInv, NEW t \in Conns,
           \/ Recv(t) \/ RecvEnd(t) \/ Exit(t) \/ Dispatch(t) \/ HangUp(t) \/ Terminate(t) \/ Info(t)
           \/ FindPid(t) \/ GetHandleType(t) \/ GetPointerFromHandle(t) \/ Insert(t) \/ Inserted(t)
           \/ Erase(t) \/ Erased(t) \/ Memory(t)
    PROVE  UNCHANGED heap /\ Others(t) /\ ~ Caching(t) /\ ~ Caching(t)'
<1>1. UNCHANGED heap
  BY DEF Recv, RecvEnd, Exit, Dispatch, HangUp, Terminate, Info, FindPid, GetHandleType,
     GetPointerFromHandle, Insert, Inserted, Erase, Erased, Memory
<1>2. ThreadTypes
  BY DEF BaseInv, TypesInv
<1>3. CASE Recv(t) \/ RecvEnd(t) \/ Exit(t) \/ HangUp(t) \/ Terminate(t) \/ Info(t) \/ FindPid(t)
  BY <1>1, <1>2, <1>3, AtRecv, AtRecvEnd, AtExit, AtHangUp, AtTerminate, AtInfo, AtFindPid DEF Caching
<1>4. CASE Insert(t) \/ Inserted(t) \/ Erase(t) \/ Erased(t) \/ Memory(t)
  BY <1>1, <1>2, <1>4, AtInsert, AtInserted, AtErase, AtErased, AtMemory DEF Caching, AfterInsert
<1>5. CASE Dispatch(t)
  <2>1. msg[from[t]] \in Cmds /\ msg[from[t]].op # "none"
    BY <1>5 DEF Dispatch, BaseInv, TypesInv, ClientTypes, ControlInv, ControlOf, Proper
  <2>2. Entry(msg[from[t]]) \in Entries
    BY <2>1, EntryIs
  <2> QED  BY <1>1, <1>2, <1>5, <2>2, AtDispatch DEF Caching, Entries, Brief
<1>6. CASE GetPointerFromHandle(t)
  <2>1. Use(t) \in Uses
    BY <1>6, UseIs DEF GetPointerFromHandle, BaseInv, ControlInv, ControlOf
  <2> QED  BY <1>1, <1>2, <1>6, <2>1, AtGetPointerFromHandle DEF Caching, Uses
<1>7. CASE GetHandleType(t)
  BY <1>1, <1>2, <1>7, AtGetHandleType DEF Caching, Typed
<1> QED  BY <1>3, <1>4, <1>5, <1>6, <1>7

\* A step outside the calls that use the cache, which leaves every cache.
LEMMA CacheKept ==
    ASSUME BaseInv, CacheInv, NEW t \in Conns, Others(t), ~ Caching(t), ~ Caching(t)',
           \A o \in Objs : /\ heap'[o].lock = heap[o].lock /\ heap'[o].maps = heap[o].maps
                           /\ heap'[o].time = heap[o].time
    PROVE  CacheInv'
<1>1. \A u \in Conns : Caching(u) => ptr[u] \in Objs
  BY DEF Caching, BaseInv, ControlInv, ControlOf
<1>2. \A u \in Conns : /\ Caching(u)' = Caching(u)
                       /\ pc'[u] = "scan" <=> pc[u] = "scan"
                       /\ pc'[u] = "fill" <=> pc[u] = "fill"
                       /\ Caching(u) => ptr'[u] = ptr[u] /\ cmd'[u] = cmd[u]
  BY DEF Others, Caching
<1>3. \A u \in Conns : (pc[u] = "scan" => Caching(u)) /\ (pc[u] = "fill" => Caching(u))
  BY DEF Caching
<1> QED  BY <1>1, <1>2, <1>3 DEF CacheInv, Served

\* A step of a thread that holds the lock of its cache, or takes it while it is
\* free, concerns no other thread.
LEMMA CacheOwn ==
    ASSUME BaseInv, CacheInv, NEW t \in Conns, Others(t), ptr[t] \in Objs,
           heap[ptr[t]].lock \in {None, t},
           \A q \in Objs : q # ptr[t] => heap'[q] = heap[q],
           Caching(t)' => ptr'[t] = ptr[t] /\ heap'[ptr[t]].lock = t,
           pc'[t] = "scan" => Served(t)',
           heap'[ptr[t]].time # "zero" => heap'[ptr[t]].maps \/ pc'[t] = "fill"
    PROVE  CacheInv'
<1>1. \A u \in Conns : u # t /\ Caching(u) => ptr[u] \in Objs /\ ptr[u] # ptr[t]
  BY NoneAssumption DEF Caching, BaseInv, ControlInv, ControlOf, CacheInv
<1>2. \A u \in Conns : u # t => /\ Caching(u)' = Caching(u) /\ pc'[u] = pc[u]
                                /\ ptr'[u] = ptr[u] /\ cmd'[u] = cmd[u]
  BY DEF Others, Caching
<1>3. \A u \in Conns : (pc[u] = "scan" => Caching(u)) /\ (pc[u] = "fill" => Caching(u))
  BY DEF Caching
<1>4. \A u \in Conns : Caching(u)' => heap'[ptr'[u]].lock = u
  BY <1>1, <1>2 DEF CacheInv
<1>5. \A u \in Conns : pc'[u] = "scan" => Served(u)'
  BY <1>1, <1>2, <1>3 DEF CacheInv, Served
<1>6. ASSUME NEW o \in Objs, heap'[o].time # "zero", ~ heap'[o].maps
      PROVE  \E u \in Conns : pc'[u] = "fill" /\ ptr'[u] = o
  <2>1. CASE o = ptr[t]
    <3>1. pc'[t] = "fill" /\ Caching(t)'
      BY <1>6, <2>1 DEF Caching
    <3> QED  BY <2>1, <3>1
  <2>2. CASE o # ptr[t]
    <3>1. PICK u \in Conns : pc[u] = "fill" /\ ptr[u] = o
      BY <1>6, <2>2 DEF CacheInv
    <3> QED  BY <1>2, <2>2, <3>1
  <2> QED  BY <2>1, <2>2
<1> QED  BY <1>4, <1>5, <1>6 DEF CacheInv

\* A cache that counts as fetched and is not being filled holds a list.
LEMMA Fetched ==
    ASSUME CacheInv, NEW o \in Objs, heap[o].time # "zero",
           heap[o].lock = None \/ \E t \in Conns : heap[o].lock = t /\ pc[t] # "fill"
    PROVE  heap[o].maps
<1>1. \A u \in Conns : pc[u] = "fill" => heap[ptr[u]].lock = u
  BY DEF CacheInv, Caching
<1> QED  BY <1>1, NoneAssumption DEF CacheInv

\* Lock keeps CacheInv.
LEMMA CacheLock ==
    ASSUME BaseInv, LinkInv, ObjInv, CacheInv, NEW t \in Conns, Lock(t)
    PROVE  CacheInv'
<1>1. Live(t, "open") /\ ptr[t] \in Objs /\ heap[ptr[t]].lock = None
  BY NothingDangles DEF Lock, CanLock, Live
<1>2. Others(t) /\ pc[t] = "lock" /\ pc'[t] = "locked" /\ ptr'[t] = ptr[t]
  BY <1>1, AtLock DEF BaseInv, TypesInv, Kept
<1>3. /\ \A q \in Objs : q # ptr[t] => heap'[q] = heap[q]
      /\ heap'[ptr[t]].lock = t /\ heap'[ptr[t]].maps = heap[ptr[t]].maps /\ heap'[ptr[t]].time = heap[ptr[t]].time
  BY <1>1, HeapLock DEF BaseInv, TypesInv
<1>4. heap[ptr[t]].time # "zero" => heap[ptr[t]].maps
  BY <1>1, Fetched
<1> QED  BY <1>1, <1>2, <1>3, <1>4, CacheOwn

\* Check keeps CacheInv.
LEMMA CacheCheck ==
    ASSUME BaseInv, CacheInv, NEW t \in Conns, Check(t)
    PROVE  CacheInv'
<1>1. /\ Others(t) /\ pc[t] = "locked" /\ pc'[t] = IF Expired(t) THEN "fill" ELSE "scan"
      /\ ptr'[t] = ptr[t] /\ cmd'[t] = cmd[t]
  BY AtCheck DEF BaseInv, TypesInv, Kept
<1>2. ptr[t] \in Objs /\ heap[ptr[t]].lock = t /\ cmd[t].op \in Queries
  BY <1>1 DEF BaseInv, ControlInv, ControlOf, Fitting, CacheInv, Caching
<1>3. CASE Expired(t)
  <2>1. /\ \A q \in Objs : q # ptr[t] => heap'[q] = heap[q]
        /\ heap'[ptr[t]].lock = t
    BY <1>2, <1>3, HeapCheck DEF BaseInv, TypesInv
  <2> QED  BY <1>1, <1>2, <1>3, <2>1, CacheOwn
<1>4. CASE ~ Expired(t)
  <2>1. UNCHANGED heap /\ cmd[t].op = "query"
    BY <1>2, <1>4 DEF Check, Expired, Queries
  <2>2. heap[ptr[t]].time # "zero" => heap[ptr[t]].maps
    BY <1>1, <1>2, Fetched
  <2>3. Served(t)'
    BY <1>1, <2>1, <2>2 DEF Served
  <2> QED  BY <1>1, <1>2, <1>4, <2>1, <2>2, <2>3, CacheOwn
<1> QED  BY <1>3, <1>4

\* Fill keeps CacheInv.
LEMMA CacheFill ==
    ASSUME BaseInv, CacheInv, NEW t \in Conns, Fill(t)
    PROVE  CacheInv'
<1>1. /\ Others(t) /\ pc[t] = "fill"
      /\ (pc'[t] = "scan" /\ ptr'[t] = ptr[t]) \/ pc'[t] = "recv"
  BY AtFill DEF BaseInv, TypesInv, Kept
<1>2. ptr[t] \in Objs /\ heap[ptr[t]].lock = t
  BY <1>1 DEF BaseInv, ControlInv, ControlOf, CacheInv, Caching
<1>3. CASE pc'[t] = "scan"
  <2>1. /\ \A q \in Objs : q # ptr[t] => heap'[q] = heap[q]
        /\ heap'[ptr[t]].lock = t /\ heap'[ptr[t]].maps
    BY <1>2, <1>3, HeapFill DEF BaseInv, TypesInv
  <2>2. Served(t)'
    BY <1>1, <1>3, <2>1 DEF Served
  <2> QED  BY <1>1, <1>2, <1>3, <2>1, <2>2, CacheOwn
<1>4. CASE pc'[t] = "recv"
  <2>1. /\ \A q \in Objs : q # ptr[t] => heap'[q] = heap[q]
        /\ heap'[ptr[t]].time = "zero"
    BY <1>2, <1>4, HeapFillFailed DEF BaseInv, TypesInv
  <2> QED  BY <1>1, <1>2, <1>4, <2>1, CacheOwn DEF Caching
<1> QED  BY <1>1, <1>3, <1>4

\* Scan keeps CacheInv.
LEMMA CacheScan ==
    ASSUME BaseInv, CacheInv, NEW t \in Conns, Scan(t)
    PROVE  CacheInv'
<1>1. Others(t) /\ pc[t] = "scan" /\ pc'[t] = "recv"
  BY AtScan DEF BaseInv, TypesInv
<1>2. ptr[t] \in Objs /\ heap[ptr[t]].lock = t
  BY <1>1 DEF BaseInv, ControlInv, ControlOf, CacheInv, Caching
<1>3. heap[ptr[t]].time # "zero" => heap[ptr[t]].maps
  BY <1>1, <1>2, Fetched
<1>4. /\ \A q \in Objs : q # ptr[t] => heap'[q] = heap[q]
      /\ heap'[ptr[t]].maps = heap[ptr[t]].maps /\ heap'[ptr[t]].time = heap[ptr[t]].time
  BY <1>2, HeapScan DEF BaseInv, TypesInv
<1> QED  BY <1>1, <1>2, <1>3, <1>4, CacheOwn DEF Caching

\* New and deleted objects have no cache, and nobody works on one meanwhile.
LEMMA CacheObject ==
    ASSUME BaseInv, LinkInv, CacheInv, NEW t \in Conns, Build(t) \/ Delete(t)
    PROVE  CacheInv'
<1>1. Others(t) /\ pc[t] \in {"build", "delete"} /\ pc'[t] \in {"recv", "insert", "erase"}
  BY AtBuild, AtDelete DEF BaseInv, TypesInv
<1>2. \A u \in Conns : ~ Caching(u) /\ ~ Caching(u)' /\ pc[u] # "fill" /\ pc'[u] # "scan"
  BY <1>1, ChangingPoints, ChangingAlone DEF Idle, Loop, Brief, Caching, Others
<1>3. \A o \in Objs : heap'[o].time = "zero" \/ heap'[o] = heap[o]
  <2>1. CASE Delete(t)
    BY <2>1, HeapDelete DEF BaseInv, TypesInv, Freed, Object
  <2>2. CASE Build(t) /\ pc'[t] = "insert"
    BY <2>2, HeapBuild DEF BaseInv, TypesInv
  <2>3. CASE Build(t) /\ pc'[t] # "insert"
    BY <2>3, AtBuild DEF BaseInv, TypesInv
  <2> QED  BY <2>1, <2>2, <2>3
<1> QED  BY <1>2, <1>3 DEF CacheInv

\* A step of no thread that leaves locks and lists, and whether a cache counts
\* as fetched.
LEMMA CacheClient ==
    ASSUME BaseInv, CacheInv, UNCHANGED <<ptr, cmd>>,
           \A t \in Conns : pc'[t] = pc[t] \/ pc'[t] = "recv",
           \A t \in Conns : pc[t] = "fill" => pc'[t] = "fill",
           \A o \in Objs : /\ heap'[o].lock = heap[o].lock /\ heap'[o].maps = heap[o].maps
                           /\ heap'[o].time = "zero" <=> heap[o].time = "zero"
    PROVE  CacheInv'
<1>1. \A u \in Conns : Caching(u) => ptr[u] \in Objs
  BY DEF Caching, BaseInv, ControlInv, ControlOf
<1> QED  BY <1>1 DEF CacheInv, Caching, Served

\* Every step keeps CacheInv.
LEMMA CacheNext ==
    ASSUME BaseInv, LinkInv, ObjInv, CacheInv, [Next]_vars
    PROVE  CacheInv'
<1>1. ASSUME NEW c \in Conns, NEW m \in Requests, Send(c, m) PROVE CacheInv'
  BY <1>1, AtSend, CacheClient DEF BaseInv, TypesInv
<1>2. ASSUME NEW c \in Conns, Disconnect(c) PROVE CacheInv'
  BY <1>2, AtDisconnect, CacheClient DEF BaseInv, TypesInv
<1>3. ASSUME NEW c \in Conns, Accept(c) PROVE CacheInv'
  <2>1. UNCHANGED <<heap, ptr, cmd>>
    BY <1>3 DEF Accept
  <2>2. \A t \in Conns : pc'[t] = pc[t] \/ (pc[t] = "none" /\ pc'[t] = "recv")
    BY <1>3, AtAccept DEF BaseInv, TypesInv
  <2> QED  BY <2>1, <2>2, CacheClient
<1>4. ASSUME NEW o \in Objs, Age(o) PROVE CacheInv'
  <2>1. UNCHANGED <<pc, ptr, cmd>> /\ heap[o].time = "recent"
    BY <1>4 DEF Age, threadVars
  <2>2. \A q \in Objs : /\ heap'[q].lock = heap[q].lock /\ heap'[q].maps = heap[q].maps
                        /\ heap'[q].time = "zero" <=> heap[q].time = "zero"
    BY <1>4, <2>1, HeapAge DEF BaseInv, TypesInv
  <2> QED  BY <2>1, <2>2, CacheClient
<1>5. ASSUME NEW t \in Conns, Thread(t) PROVE CacheInv'
  <2>1. CASE List(t)
    <3>1. Others(t) /\ ~ Caching(t) /\ ~ Caching(t)'
      BY <2>1, AtList DEF BaseInv, TypesInv, Caching
    <3>2. \A o \in Objs : /\ heap'[o].lock = heap[o].lock /\ heap'[o].maps = heap[o].maps
                          /\ heap'[o].time = heap[o].time
      <4>1. CASE cmd[t].as = "module" /\ Live(t, "module")
        BY <2>1, <4>1, HeapList DEF BaseInv, TypesInv
      <4>2. CASE ~ (cmd[t].as = "module" /\ Live(t, "module"))
        BY <2>1, <4>2 DEF List
      <4> QED  BY <4>1, <4>2
    <3> QED  BY <3>1, <3>2, CacheKept
  <2>2. CASE Iterate(t)
    <3>1. Others(t) /\ ~ Caching(t) /\ ~ Caching(t)'
      BY <2>2, AtIterate DEF BaseInv, TypesInv, Caching
    <3>2. \A o \in Objs : /\ heap'[o].lock = heap[o].lock /\ heap'[o].maps = heap[o].maps
                          /\ heap'[o].time = heap[o].time
      <4>1. CASE Live(t, cmd[t].kind)
        BY <2>2, <4>1, HeapIterate DEF BaseInv, TypesInv
      <4>2. CASE ~ Live(t, cmd[t].kind)
        BY <2>2, <4>2 DEF Iterate
      <4> QED  BY <4>1, <4>2
    <3> QED  BY <3>1, <3>2, CacheKept
  <2>3. CASE UNCHANGED heap /\ Others(t) /\ ~ Caching(t) /\ ~ Caching(t)'
    BY <2>3, CacheKept
  <2> QED  BY <1>5, <2>1, <2>2, <2>3, HeapStill, CacheObject, CacheLock, CacheCheck, CacheFill, CacheScan DEF Thread
<1>6. CASE FirstMinute \/ UNCHANGED vars
  BY <1>6, CacheClient DEF FirstMinute, vars, threadVars
<1> QED  BY <1>1, <1>2, <1>3, <1>4, <1>5, <1>6 DEF Next, Client

\* CacheInv holds in every reachable state, for a careful client.
LEMMA CacheCorrect == ASSUME Careful PROVE Spec => [](BaseInv /\ CacheInv)
<1>1. Init => CacheInv
  BY DEF Init, CacheInv, Caching, Freed, Object
<1>2. BaseInv /\ LinkInv /\ ObjInv /\ CacheInv /\ [Next]_vars => CacheInv'
  BY CacheNext
<1> QED  BY <1>1, <1>2, ObjCorrect, PTL DEF Spec

\* CacheStable, for a careful client: a thread answers from the list of regions
\* only under the lock, and only from a list that was fetched, or in the first
\* minute from a cache that never was (VirtualQueryEx, VirtualQueryExFull).
THEOREM CacheAlwaysStable == ASSUME Careful PROVE Spec => []CacheStable
<1>1. CacheInv => CacheStable
  BY DEF CacheInv, CacheStable, Caching, Served
<1> QED  BY <1>1, CacheCorrect, PTL

\* CacheSound, for a careful client: a cache that nobody is fetching and that
\* counts as fetched holds a list, also after the driver failed
\* (nLastGetMapsTime is reset).
THEOREM CacheAlwaysSound == ASSUME Careful PROVE Spec => []CacheSound
<1>1. CacheInv => CacheSound
  BY Fetched DEF CacheSound
<1> QED  BY <1>1, CacheCorrect, PTL
=============================================================================
