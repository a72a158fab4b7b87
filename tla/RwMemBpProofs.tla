--------------------------- MODULE RwMemBpProofs ---------------------------
(***************************************************************************)
(* Proofs about RwMemBp for any number of handles, targets and client      *)
(* threads.                                                                *)
(***************************************************************************)
EXTENDS RwMemBp, FiniteSetTheorems, TLAPS

\* A client opens a handle with one of the kinds there are.
LEMMA KindsKnown == \A f \in Files : KindsOf[f] \subseteq Kinds
  BY KindsAssumption

AddPcs == {"add_perf", "add_assign"}
ResumePcs == {"cont_set", "step_list", "step_test", "step_susp", "step_enable"}
UsePcs == ResumePcs \cup {"regs", "ep_wait"}
StopPcs == {"pollin", "wait", "unpoll", "clear"}

\* A call in flight has a file; IOCTL_ADD_BP works on a file nobody else
\* knows, every other call on one whose target is assigned and whose release
\* has not started.
CallsOK ==
    /\ \A c \in Callers : cpc[c] = "idle" => cfile[c] = None
    /\ \A c \in Callers : cpc[c] \in AddPcs =>
          /\ cfile[c] \in Files
          /\ ctask[c] \in Tasks
          /\ life[cfile[c]] = "adding"
    /\ \A c, d \in Callers : cpc[c] \in AddPcs /\ cfile[c] = cfile[d] => c = d
    /\ \A c \in Callers : cpc[c] \in UsePcs =>
          /\ cfile[c] \in Files
          /\ life[cfile[c]] \in {"open", "closing"}
          /\ target_task[cfile[c]] \in Tasks
          /\ cpc[c] = "ep_wait" => life[cfile[c]] = "open"

FilesOK ==
    \A f \in Files : life[f] = "open" => target_task[f] \in Tasks

\* A task is inside bp_callback_after exactly when it has a current handle.
TasksOK ==
    \A t \in Tasks : cur[t] # None <=> tpc[t] \in StopPcs

\* The type invariant, strengthened until every step preserves it.
TypeInv == TypeOK /\ CallsOK /\ FilesOK /\ TasksOK

\* perf and private_data agree on the target of a handle, whatever the order
\* in which IOCTL_ADD_BP fills them in and the release empties them.
FilesOwned ==
    \A f \in Files :
        /\ life[f] \in {"none", "adding"} => target_task[f] = None
        /\ life[f] \in {"none", "r_free", "freed"} => perf[f] = None
        /\ target_task[f] = None /\ life[f] # "adding" => perf[f] = None
        /\ target_task[f] # None /\ perf[f] # None => perf[f] = target_task[f]

CallsOwned ==
    \A c \in Callers :
        /\ cpc[c] = "add_perf" => perf[cfile[c]] = None
        /\ cpc[c] = "add_assign" => perf[cfile[c]] = ctask[c]

\* An entry of step_list carries the pid of its handle's target.
EntriesOwned ==
    \A i \in 1..Len(step_list) :
        Live(step_list[i].file) =>
            step_list[i].pid = target_task[step_list[i].file]

\* Each stop belongs to the target of its handle, as an inductive invariant.
OwnInv == FilesOwned /\ CallsOwned /\ EntriesOwned /\ StopBelongs

-----------------------------------------------------------------------------
(* Lists of step entries.                                                  *)

\* Deleting one entry of step_list leaves a list of entries.
LEMMA DeleteType ==
    ASSUME step_list \in Seq(Entries), NEW i \in 1..Len(step_list)
    PROVE  DeleteAt(i) \in Seq(Entries)
<1>1. SubSeq(step_list, 1, i - 1) \in Seq(Entries)
  OBVIOUS
<1>2. SubSeq(step_list, i + 1, Len(step_list)) \in Seq(Entries)
  OBVIOUS
<1> QED
  BY <1>1, <1>2 DEF DeleteAt

\* Each entry has the pid of a task and the file of a handle.
LEMMA EntryType ==
    ASSUME step_list \in Seq(Entries), NEW i \in 1..Len(step_list)
    PROVE  step_list[i].pid \in Tasks /\ step_list[i].file \in Files
<1>1. step_list[i] \in Entries
  OBVIOUS
<1> QED
  BY <1>1 DEF Entries

\* Deleting one entry adds none.
LEMMA DeleteKeeps ==
    ASSUME step_list \in Seq(Entries), NEW i \in 1..Len(step_list),
           NEW j \in 1..Len(DeleteAt(i))
    PROVE  \E m \in 1..Len(step_list) : DeleteAt(i)[j] = step_list[m]
<1> DEFINE a == SubSeq(step_list, 1, i - 1)
           b == SubSeq(step_list, i + 1, Len(step_list))
<1>1. /\ a \in Seq(Entries) /\ Len(a) = i - 1
      /\ \A m \in 1..(i - 1) : a[m] = step_list[m]
  OBVIOUS
<1>2. /\ b \in Seq(Entries) /\ Len(b) = Len(step_list) - i
      /\ \A m \in 1..(Len(step_list) - i) : b[m] = step_list[i + m]
  OBVIOUS
<1>3. DeleteAt(i) = a \o b
  BY DEF DeleteAt
<1> HIDE DEF a, b
<1>4. CASE j < i
  BY <1>1, <1>2, <1>3, <1>4
<1>5. CASE j >= i
  <2>1. DeleteAt(i)[j] = b[j - (i - 1)] /\ j - (i - 1) \in 1..Len(b)
    BY <1>1, <1>2, <1>3, <1>5
  <2> QED
    BY <2>1, <1>2
<1> QED
  BY <1>4, <1>5

-----------------------------------------------------------------------------
(* Type correctness.                                                       *)

\* The initial states satisfy the strengthened type invariant.
LEMMA TypeInit == Init => TypeInv
<1> SUFFICES ASSUME Init PROVE TypeInv
  OBVIOUS
<1> USE DEF Init
<1>1. TypeOK
  <2>1. (CHOOSE k \in Kinds : TRUE) \in Kinds
    BY KindsAssumption
  <2> QED
    BY <2>1 DEF TypeOK, Lives, TaskPcs, Gone, CallerPcs
<1>2. CallsOK
  BY DEF CallsOK, AddPcs, UsePcs, ResumePcs
<1>3. FilesOK /\ TasksOK
  BY DEF FilesOK, TasksOK, StopPcs
<1> QED
  BY <1>1, <1>2, <1>3 DEF TypeInv

\* Every step of a client thread preserves it.
LEMMA TypeClient ==
    ASSUME TypeInv, NEW c \in Callers,
           \/ \E f \in Files : ClientStart(c, f)
           \/ ClientRest(c)
           \/ WaitCancel(c)
    PROVE  TypeInv'
<1> USE NoneAssumption DEF TypeInv, Enter, Return, Goto, vars, fileVars,
        flagVars, taskVars, debugVars, targetVars, callerVars, clientVars,
        TypeOK, CallsOK, FilesOK, TasksOK, Lives, TaskPcs, Gone, CallerPcs,
        AddPcs, ResumePcs, UsePcs, StopPcs
<1>1. ASSUME NEW f \in Files, NEW t \in Tasks, NEW k \in Kinds,
             AddBp(c, f, t, k)
      PROVE  TypeInv'
  BY <1>1 DEF AddBp
<1>2. ASSUME NEW f \in Files, Continue(c, f) PROVE TypeInv'
  BY <1>2 DEF Continue, MayAct
<1>3. ASSUME NEW f \in Files, Step(c, f) PROVE TypeInv'
  BY <1>3 DEF Step, MayAct
<1>4. ASSUME NEW f \in Files, Regs(c, f) PROVE TypeInv'
  BY <1>4 DEF Regs, MayAct
<1>5. ASSUME NEW f \in Files, Poll(c, f) PROVE TypeInv'
  BY <1>5 DEF Poll, SetPoll
<1>6. ASSUME NEW f \in Files, WaitAdd(c, f) PROVE TypeInv'
  BY <1>6 DEF WaitAdd, SetPoll
<1>7. ASSUME NEW f \in Files, Close(c, f) PROVE TypeInv'
  BY <1>7 DEF Close
<1>8. CASE AddBpPerf(c)
  BY <1>8 DEF AddBpPerf
<1>9. CASE AddBpFail(c)
  BY <1>9 DEF AddBpFail, PutTask
<1>10. CASE AddBpAssign(c)
  BY <1>10 DEF AddBpAssign, AssignTask
<1>11. CASE ContinueSet(c)
  BY <1>11 DEF ContinueSet
<1>12. CASE StepList(c)
  BY <1>12 DEF StepList, ListAdd, Entries
<1>13. CASE StepTest(c)
  BY <1>13 DEF StepTest, StepMode
<1>14. CASE StepSuspend(c)
  BY <1>14 DEF StepSuspend
<1>15. CASE StepEnable(c)
  BY <1>15 DEF StepEnable
<1>16. CASE RegsDone(c)
  BY <1>16 DEF RegsDone
<1>17. CASE WaitSend(c)
  <2>1. CASE poll[cfile[c]]
    <3>1. /\ cfile[c] \in Files
          /\ notified' = [notified EXCEPT ![cfile[c]] = c]
          /\ cpc' = [cpc EXCEPT ![c] = "idle"]
          /\ cfile' = [cfile EXCEPT ![c] = None]
      BY <1>17, <2>1 DEF WaitSend
    <3> QED
      BY <1>17, <3>1 DEF WaitSend, SetPoll
  <2>2. CASE ~ poll[cfile[c]]
    BY <1>17, <2>2 DEF WaitSend, SetPoll
  <2> QED
    BY <2>1, <2>2
<1>18. CASE WaitCancel(c)
  BY <1>18 DEF WaitCancel
<1> QED
  BY KindsKnown, <1>1, <1>2, <1>3, <1>4, <1>5, <1>6, <1>7, <1>8, <1>9,
     <1>10, <1>11, <1>12, <1>13, <1>14, <1>15, <1>16, <1>17, <1>18 DEF
        ClientStart, ClientRest

\* Every step of the release of a handle preserves it.
LEMMA TypeRelease ==
    ASSUME TypeInv, NEW f \in Files, Release(f)
    PROVE  TypeInv'
<1> USE NoneAssumption DEF TypeInv, vars, fileVars, flagVars, taskVars,
        debugVars, targetVars, callerVars, clientVars,
        TypeOK, CallsOK, FilesOK, TasksOK, Lives, TaskPcs, Gone, CallerPcs,
        AddPcs, ResumePcs, UsePcs, StopPcs
<1>1. CASE ReleaseContinue(f)
  BY <1>1 DEF ReleaseContinue, InFlight
<1>2. CASE ReleaseMark(f)
  <2>1. step_list' \in Seq(Entries)
    <3>1. \A i \in 1..Len(step_list) : step_list[i] \in Entries
      OBVIOUS
    <3>2. \A e \in Entries : [e EXCEPT !.removed = TRUE] \in Entries
      BY DEF Entries
    <3> QED
      BY <1>2, <3>1, <3>2 DEF ReleaseMark
  <2> QED
    BY <1>2, <2>1 DEF ReleaseMark
<1>3. CASE ReleaseUnregister(f)
  BY <1>3 DEF ReleaseUnregister
<1>4. CASE ReleaseFree(f)
  BY <1>4 DEF ReleaseFree
<1> QED
  BY <1>1, <1>2, <1>3, <1>4 DEF Release

\* Every debug exception of a target preserves it.
LEMMA TypeTrap ==
    ASSUME TypeInv, NEW t \in Tasks,
           \/ \E k \in Kinds, H \in SUBSET Files : Hit(t, k, H)
           \/ StepTrap(t)
           \/ Exit(t)
    PROVE  TypeInv'
<1> USE NoneAssumption DEF TypeInv, vars, fileVars, flagVars, taskVars,
        debugVars, targetVars, callerVars, clientVars,
        TypeOK, CallsOK, FilesOK, TasksOK, Lives, TaskPcs, Gone, CallerPcs,
        AddPcs, ResumePcs, UsePcs, StopPcs
<1>1. ASSUME NEW k \in Kinds, NEW H \in SUBSET Files, Hit(t, k, H)
      PROVE  TypeInv'
  BY <1>1 DEF Hit
<1>2. CASE StepOver(t)
  BY <1>2 DEF StepOver
<1>3. CASE StepHookStop(t)
  <2>1. PICK i \in 1..Len(step_list) :
             /\ step_list' = DeleteAt(i)
             /\ work' = [work EXCEPT ![t] = @ \cup {step_list[i].file}]
    BY <1>3 DEF StepHookStop, First, IndicesOfPid
  <2>2. step_list' \in Seq(Entries)
    BY <2>1, DeleteType
  <2>3. step_list[i].file \in Files
    <3>1. step_list[i] \in Entries
      OBVIOUS
    <3> QED
      BY <3>1 DEF Entries
  <2> QED
    BY <1>3, <2>1, <2>2, <2>3 DEF StepHookStop, HookTrap
<1>4. CASE StepHookRemoved(t)
  <2>1. PICK i \in 1..Len(step_list) : step_list' = DeleteAt(i)
    BY <1>4 DEF StepHookRemoved, First, IndicesOfPid
  <2>2. step_list' \in Seq(Entries)
    BY <2>1, DeleteType
  <2> QED
    BY <1>4, <2>2 DEF StepHookRemoved, HookTrap
<1>5. CASE StepHookNone(t)
  BY <1>5 DEF StepHookNone, HookTrap
<1>6. CASE Exit(t)
  BY <1>6 DEF Exit
<1> QED
  BY <1>1, <1>2, <1>3, <1>4, <1>5, <1>6 DEF StepTrap

\* Every step of bp_callback_after preserves it.
LEMMA TypeResume ==
    ASSUME TypeInv, NEW t \in Tasks,
           Resume(t) \/ TouchFreed(t)
    PROVE  TypeInv'
<1> USE NoneAssumption DEF TypeInv, vars, fileVars, flagVars, taskVars,
        debugVars, targetVars, callerVars, clientVars,
        TypeOK, CallsOK, FilesOK, TasksOK, Lives, TaskPcs, Gone, CallerPcs,
        AddPcs, ResumePcs, UsePcs, StopPcs
<1> USE DEF AfterStep
<1>1. ASSUME NEW f \in Files, RunWork(t, f) PROVE TypeInv'
  BY <1>1 DEF RunWork
<1>2. CASE PollIn(t)
  BY <1>2 DEF PollIn, SetPoll
<1>3. CASE WaitDone(t)
  BY <1>3 DEF WaitDone
<1>4. CASE UnPoll(t)
  BY <1>4 DEF UnPoll, SetPoll
<1>5. CASE Clear(t)
  BY <1>5 DEF Clear, ResetFlags
<1>6. CASE ReturnToUser(t)
  BY <1>6 DEF ReturnToUser
<1>7. CASE TouchFreed(t)
  BY <1>7 DEF TouchFreed
<1> QED
  BY <1>1, <1>2, <1>3, <1>4, <1>5, <1>6, <1>7 DEF Resume

\* The strengthened type invariant is inductive.
LEMMA TypeNext == TypeInv /\ [Next]_vars => TypeInv'
<1> SUFFICES ASSUME TypeInv, [Next]_vars PROVE TypeInv'
  OBVIOUS
<1>1. CASE UNCHANGED vars
  BY <1>1, NoneAssumption DEF TypeInv, vars, fileVars, flagVars, taskVars,
     debugVars, targetVars, callerVars, clientVars,
        TypeOK, CallsOK, FilesOK, TasksOK, Lives, TaskPcs, Gone, CallerPcs,
        AddPcs, ResumePcs, UsePcs, StopPcs,
        Entries
<1>2. CASE Next
  BY <1>2, TypeClient, TypeRelease, TypeTrap, TypeResume DEF Next
<1> QED
  BY <1>1, <1>2

\* Type correctness: in particular a step entry always names a real task and
\* file, and no call of bp.c goes through a target_task that is still NULL.
THEOREM TypeCorrect == Spec => []TypeOK
<1>1. TypeInv => TypeOK
  BY DEF TypeInv
<1> QED
  BY <1>1, TypeInit, TypeNext, PTL DEF Spec

-----------------------------------------------------------------------------
(* Ownership: a stop is that of the handle's own target.                   *)

\* Nothing is owned initially.
LEMMA OwnInit == Init => OwnInv
  BY NoneAssumption DEF Init, OwnInv, FilesOwned, CallsOwned, EntriesOwned,
     StopBelongs, Stopping

\* Client threads preserve ownership.
LEMMA OwnClient ==
    ASSUME TypeInv, OwnInv, NEW c \in Callers,
           \/ \E f \in Files : ClientStart(c, f)
           \/ ClientRest(c)
           \/ WaitCancel(c)
    PROVE  OwnInv'
<1> USE NoneAssumption DEF TypeInv, TypeOK, CallsOK, FilesOK, TasksOK,
        AddPcs, ResumePcs, UsePcs, StopPcs, vars, fileVars, flagVars,
        taskVars, debugVars, targetVars,
        callerVars, clientVars,
        OwnInv, FilesOwned, CallsOwned, EntriesOwned, StopBelongs, Stopping,
        Target, Live, Enter, Return, Goto, AfterStep, Entries
<1>1. ASSUME NEW f \in Files, NEW t \in Tasks, NEW k \in Kinds,
             AddBp(c, f, t, k)
      PROVE  OwnInv'
  BY <1>1 DEF AddBp
<1>2. ASSUME NEW f \in Files, Continue(c, f)
      PROVE  OwnInv'
  BY <1>2 DEF Continue
<1>3. ASSUME NEW f \in Files, Step(c, f)
      PROVE  OwnInv'
  BY <1>3 DEF Step
<1>4. ASSUME NEW f \in Files, Regs(c, f)
      PROVE  OwnInv'
  BY <1>4 DEF Regs
<1>5. ASSUME NEW f \in Files, Poll(c, f)
      PROVE  OwnInv'
  BY <1>5 DEF Poll, SetPoll
<1>6. ASSUME NEW f \in Files, WaitAdd(c, f)
      PROVE  OwnInv'
  BY <1>6 DEF WaitAdd, SetPoll
<1>7. ASSUME NEW f \in Files, Close(c, f)
      PROVE  OwnInv'
  BY <1>7 DEF Close
<1>8. CASE AddBpPerf(c)
  BY <1>8 DEF AddBpPerf
<1>9. CASE AddBpFail(c)
  BY <1>9 DEF AddBpFail, PutTask
<1>10. CASE AddBpAssign(c)
  <2>1. FilesOwned' /\ CallsOwned' /\ StopBelongs'
    BY <1>10 DEF AddBpAssign, AssignTask
  <2>2. EntriesOwned'
    BY <1>10, EntryType DEF AddBpAssign, AssignTask
  <2> QED
    BY <2>1, <2>2
<1>11. CASE ContinueSet(c)
  BY <1>11 DEF ContinueSet
<1>12. CASE StepList(c)
  <2>1. FilesOwned' /\ CallsOwned' /\ StopBelongs'
    BY <1>12 DEF StepList
  <2>2. EntriesOwned'
    <3> DEFINE e == [pid |-> target_task[cfile[c]], file |-> cfile[c],
                     removed |-> FALSE]
    <3>1. e \in Entries /\ step_list' = <<e>> \o step_list
      BY <1>12 DEF StepList, ListAdd
    <3>2. /\ Len(step_list') = Len(step_list) + 1
          /\ step_list'[1] = e
          /\ \A i \in 2..Len(step_list') : step_list'[i] = step_list[i - 1]
      BY <3>1
    <3>3. UNCHANGED <<life, target_task>>
      BY <1>12 DEF StepList
    <3> SUFFICES ASSUME NEW i \in 1..Len(step_list'), Live(step_list'[i].file)
                 PROVE  step_list'[i].pid = target_task[step_list'[i].file]
      BY <3>3
    <3>4. CASE i = 1
      BY <3>2, <3>4
    <3>5. CASE i # 1
      <4>1. i - 1 \in 1..Len(step_list) /\ step_list'[i] = step_list[i - 1]
        BY <3>2, <3>5
      <4> QED
        BY <4>1
    <3> QED
      BY <3>4, <3>5
  <2> QED
    BY <2>1, <2>2
<1>13. CASE StepTest(c)
  BY <1>13 DEF StepTest, StepMode
<1>14. CASE StepSuspend(c)
  BY <1>14 DEF StepSuspend
<1>15. CASE StepEnable(c)
  BY <1>15 DEF StepEnable
<1>16. CASE RegsDone(c)
  BY <1>16 DEF RegsDone
<1>17. CASE WaitSend(c)
  BY <1>17 DEF WaitSend, SetPoll
<1>18. CASE WaitCancel(c)
  BY <1>18 DEF WaitCancel
<1> QED
  BY KindsKnown, <1>1, <1>2, <1>3, <1>4, <1>5, <1>6, <1>7, <1>8, <1>9,
     <1>10, <1>11, <1>12, <1>13, <1>14, <1>15, <1>16, <1>17, <1>18 DEF
        ClientStart, ClientRest

\* The release of a handle preserves it.
LEMMA OwnRelease ==
    ASSUME TypeInv, OwnInv, NEW f \in Files, Release(f)
    PROVE  OwnInv'
<1> USE NoneAssumption DEF TypeInv, TypeOK, CallsOK, FilesOK, TasksOK,
        AddPcs, ResumePcs, UsePcs, StopPcs, vars, fileVars, flagVars,
        taskVars, debugVars, targetVars,
        callerVars, clientVars,
        OwnInv, FilesOwned, CallsOwned, EntriesOwned, StopBelongs, Stopping,
        Target, Live, Enter, Return, Goto, AfterStep, Entries
<1>1. CASE ReleaseContinue(f)
  BY <1>1 DEF ReleaseContinue, InFlight
<1>2. CASE ReleaseMark(f)
  BY <1>2 DEF ReleaseMark
<1>3. CASE ReleaseUnregister(f)
  BY <1>3 DEF ReleaseUnregister
<1>4. CASE ReleaseFree(f)
  BY <1>4 DEF ReleaseFree
<1> QED
  BY <1>1, <1>2, <1>3, <1>4 DEF Release

\* So do the debug exceptions.
LEMMA OwnTrap ==
    ASSUME TypeInv, OwnInv, NEW t \in Tasks,
           \/ \E k \in Kinds, H \in SUBSET Files : Hit(t, k, H)
           \/ StepTrap(t)
           \/ Exit(t)
    PROVE  OwnInv'
<1> USE NoneAssumption DEF TypeInv, TypeOK, CallsOK, FilesOK, TasksOK,
        AddPcs, ResumePcs, UsePcs, StopPcs, vars, fileVars, flagVars,
        taskVars, debugVars, targetVars,
        callerVars, clientVars,
        OwnInv, FilesOwned, CallsOwned, EntriesOwned, StopBelongs, Stopping,
        Target, Live, Enter, Return, Goto, AfterStep, Entries
<1>1. ASSUME NEW k \in Kinds, NEW H \in SUBSET Files, Hit(t, k, H)
      PROVE  OwnInv'
  BY <1>1 DEF Hit, ArmedOn
<1>2. CASE StepOver(t)
  <2>1. UNCHANGED <<life, perf, target_task, step_list, cpc, cfile, ctask, cur,
                    work, tpc>>
    BY <1>2 DEF StepOver
  <2> QED
    BY <2>1
<1>3. CASE StepHookStop(t)
  <2>1. PICK i \in IndicesOfPid(t) :
             /\ step_list' = DeleteAt(i)
             /\ work' = [work EXCEPT ![t] = @ \cup {step_list[i].file}]
    BY <1>3 DEF StepHookStop, First
  <2>2. /\ tpc' = [tpc EXCEPT ![t] = "resume"]
        /\ UNCHANGED <<life, perf, target_task, cpc, cfile, ctask, cur>>
    BY <1>3 DEF StepHookStop
  <2>3. FilesOwned' /\ CallsOwned'
    BY <2>2
  <2>4. EntriesOwned'
    <3> SUFFICES ASSUME NEW j \in 1..Len(step_list'), Live(step_list'[j].file)
                 PROVE  step_list'[j].pid = target_task[step_list'[j].file]
      BY <2>2
    <3>1. PICK m \in 1..Len(step_list) : step_list'[j] = step_list[m]
      BY <2>1, DeleteKeeps DEF IndicesOfPid
    <3>2. Live(step_list[m].file) =>
             step_list[m].pid = target_task[step_list[m].file]
      OBVIOUS
    <3> HIDE DEF TypeInv, OwnInv, Live
    <3> QED
      BY <3>1, <3>2
  <2>5. i \in 1..Len(step_list) /\ step_list[i].pid = t
    BY DEF IndicesOfPid
  <2>6. StopBelongs'
    <3>1. /\ step_list[i].file \in Files
          /\ Live(step_list[i].file) => target_task[step_list[i].file] = t
      BY <2>5, EntryType
    <3>2. \A g \in Files : Target(g)' = Target(g) /\ Live(g)' = Live(g)
      BY <2>2
    <3>3. \A g \in Files, u \in Tasks :
             /\ Stopping(u, g)' => Stopping(u, g)
             /\ g \in work'[u] =>
                   g \in work[u] \/ (u = t /\ g = step_list[i].file)
      BY <2>1, <2>2
    <3>4. Live(step_list[i].file) => Target(step_list[i].file) = t
      BY <3>1
    <3>5. \A u \in Tasks, g \in Files :
             Live(g) /\ (Stopping(u, g) \/ g \in work[u]) => Target(g) = u
      OBVIOUS
    <3> HIDE DEF TypeInv, OwnInv, Live, Stopping, Target
    <3> QED
      BY <3>2, <3>3, <3>4, <3>5 DEF StopBelongs
  <2> QED
    BY <2>3, <2>4, <2>6
<1>4. CASE StepHookRemoved(t)
  <2>1. PICK i \in IndicesOfPid(t) : step_list' = DeleteAt(i)
    BY <1>4 DEF StepHookRemoved, First
  <2>2. UNCHANGED <<life, perf, target_task, cpc, cfile, ctask, cur, work, tpc>>
    BY <1>4 DEF StepHookRemoved
  <2>3. FilesOwned' /\ CallsOwned' /\ StopBelongs'
    BY <2>2
  <2>4. EntriesOwned'
    <3> SUFFICES ASSUME NEW j \in 1..Len(step_list'), Live(step_list'[j].file)
                 PROVE  step_list'[j].pid = target_task[step_list'[j].file]
      BY <2>2
    <3>1. PICK m \in 1..Len(step_list) : step_list'[j] = step_list[m]
      BY <2>1, DeleteKeeps DEF IndicesOfPid
    <3>2. Live(step_list[m].file) =>
             step_list[m].pid = target_task[step_list[m].file]
      OBVIOUS
    <3> HIDE DEF TypeInv, OwnInv, Live
    <3> QED
      BY <3>1, <3>2
  <2> QED
    BY <2>3, <2>4
<1>5. CASE StepHookNone(t)
  BY <1>5 DEF StepHookNone, HookTrap
<1>6. CASE Exit(t)
  BY <1>6 DEF Exit
<1> QED
  BY <1>1, <1>2, <1>3, <1>4, <1>5, <1>6 DEF StepTrap

\* And bp_callback_after.
LEMMA OwnResume ==
    ASSUME TypeInv, OwnInv, NEW t \in Tasks,
           Resume(t) \/ TouchFreed(t)
    PROVE  OwnInv'
<1> USE NoneAssumption DEF TypeInv, TypeOK, CallsOK, FilesOK, TasksOK,
        AddPcs, ResumePcs, UsePcs, StopPcs, vars, fileVars, flagVars,
        taskVars, debugVars, targetVars,
        callerVars, clientVars,
        OwnInv, FilesOwned, CallsOwned, EntriesOwned, StopBelongs, Stopping,
        Target, Live, Enter, Return, Goto, AfterStep, Entries
<1>1. ASSUME NEW f \in Files, RunWork(t, f)
      PROVE  OwnInv'
  <2>1. UNCHANGED <<life, perf, target_task, step_list, cpc, cfile, ctask>>
    BY <1>1 DEF RunWork
  <2>2. FilesOwned' /\ CallsOwned' /\ EntriesOwned'
    BY <2>1
  <2>3. StopBelongs'
    BY <1>1 DEF RunWork
  <2> QED
    BY <2>2, <2>3
<1>2. CASE PollIn(t)
  BY <1>2 DEF PollIn, SetPoll
<1>3. CASE WaitDone(t)
  BY <1>3 DEF WaitDone
<1>4. CASE UnPoll(t)
  BY <1>4 DEF UnPoll, SetPoll
<1>5. CASE Clear(t)
  BY <1>5 DEF Clear, ResetFlags
<1>6. CASE ReturnToUser(t)
  BY <1>6 DEF ReturnToUser
<1>7. CASE TouchFreed(t)
  BY <1>7 DEF TouchFreed
<1> QED
  BY <1>1, <1>2, <1>3, <1>4, <1>5, <1>6, <1>7 DEF Resume

\* Ownership is inductive.
LEMMA OwnNext == TypeInv /\ OwnInv /\ [Next]_vars => OwnInv'
<1> SUFFICES ASSUME TypeInv, OwnInv, [Next]_vars PROVE OwnInv'
  OBVIOUS
<1>1. CASE UNCHANGED vars
  BY <1>1 DEF OwnInv, FilesOwned, CallsOwned, EntriesOwned, StopBelongs,
     Stopping, Target, Live, vars, fileVars, flagVars, taskVars, debugVars,
     targetVars, callerVars, clientVars
<1>2. CASE Next
  BY <1>2, OwnClient, OwnRelease, OwnTrap, OwnResume DEF Next
<1> QED
  BY <1>1, <1>2

\* Neither the perf callback nor the step hook ever charges the trap of one
\* task to a handle opened on another one.
THEOREM StopsBelong == Spec => []StopBelongs
<1>1. Init => TypeInv /\ OwnInv
  BY TypeInit, OwnInit
<1>2. (TypeInv /\ OwnInv) /\ [Next]_vars => (TypeInv /\ OwnInv)'
  BY TypeNext, OwnNext
<1>3. TypeInv /\ OwnInv => StopBelongs
  BY DEF OwnInv
<1> QED
  BY <1>1, <1>2, <1>3, PTL DEF Spec

-----------------------------------------------------------------------------
(* The flags of a handle tell the truth about its target.                  *)

\* StoppedSound and PollSound together; with ownership they are inductive.
FlagInv == StoppedSound /\ PollSound

\* No handle is stopped initially.
LEMMA FlagInit == Init => FlagInv
  BY NoneAssumption DEF Init, FlagInv, StoppedSound, PollSound, Stopping

\* A step that leaves the flags alone and moves no task into or out of
\* bp_callback_after preserves them.
LEMMA FlagElsewhere ==
    ASSUME FlagInv, UNCHANGED <<life, stopped_flag, poll, cur>>,
           \A u \in Tasks : \/ tpc'[u] = tpc[u]
                            \/ tpc[u] \notin StopPcs /\ tpc'[u] \notin StopPcs
    PROVE  FlagInv'
<1>1. \A u \in Tasks, g \in Files : Stopping(u, g)' <=> Stopping(u, g)
  BY DEF Stopping, StopPcs
<1>2. \A u \in Tasks : tpc'[u] \in {"wait", "unpoll"} <=>
                       tpc[u] \in {"wait", "unpoll"}
  BY DEF StopPcs
<1>3. StoppedSound'
  BY <1>1 DEF FlagInv, StoppedSound, Live
<1>4. PollSound'
  BY <1>2 DEF FlagInv, PollSound, Live
<1> QED
  BY <1>3, <1>4 DEF FlagInv

\* Client threads never write stopped_flag and only consume EPOLLIN.
LEMMA FlagClient ==
    ASSUME TypeInv, StopBelongs, FlagInv, NEW c \in Callers,
           \/ \E f \in Files : ClientStart(c, f)
           \/ ClientRest(c)
           \/ WaitCancel(c)
    PROVE  FlagInv'
<1> USE NoneAssumption DEF TypeInv, TypeOK, CallsOK, TasksOK,
        AddPcs, ResumePcs, UsePcs, StopPcs, vars, fileVars, flagVars,
        taskVars, debugVars, targetVars,
        callerVars, clientVars,
        FlagInv, StoppedSound, PollSound, StopBelongs, Stopping, Live,
        Enter, Return, Goto, AfterStep
<1>1. ASSUME NEW f \in Files, NEW t \in Tasks, NEW k \in Kinds,
             AddBp(c, f, t, k)
      PROVE  FlagInv'
  BY <1>1 DEF AddBp
<1>2. ASSUME NEW f \in Files, Continue(c, f)
      PROVE  FlagInv'
  BY <1>2 DEF Continue
<1>3. ASSUME NEW f \in Files, Step(c, f)
      PROVE  FlagInv'
  BY <1>3 DEF Step
<1>4. ASSUME NEW f \in Files, Regs(c, f)
      PROVE  FlagInv'
  BY <1>4 DEF Regs
<1>5. ASSUME NEW f \in Files, Poll(c, f)
      PROVE  FlagInv'
  BY <1>5 DEF Poll, SetPoll
<1>6. ASSUME NEW f \in Files, WaitAdd(c, f)
      PROVE  FlagInv'
  BY <1>6 DEF WaitAdd, SetPoll
<1>7. ASSUME NEW f \in Files, Close(c, f)
      PROVE  FlagInv'
  BY <1>7 DEF Close
<1>8. CASE AddBpPerf(c)
  BY <1>8 DEF AddBpPerf
<1>9. CASE AddBpFail(c)
  BY <1>9 DEF AddBpFail, PutTask
<1>10. CASE AddBpAssign(c)
  BY <1>10 DEF AddBpAssign, AssignTask
<1>11. CASE ContinueSet(c)
  BY <1>11 DEF ContinueSet
<1>12. CASE StepList(c)
  BY <1>12 DEF StepList, ListAdd
<1>13. CASE StepTest(c)
  BY <1>13 DEF StepTest, StepMode
<1>14. CASE StepSuspend(c)
  BY <1>14 DEF StepSuspend
<1>15. CASE StepEnable(c)
  BY <1>15 DEF StepEnable
<1>16. CASE RegsDone(c)
  BY <1>16 DEF RegsDone
<1>17. CASE WaitSend(c)
  BY <1>17 DEF WaitSend, SetPoll
<1>18. CASE WaitCancel(c)
  BY <1>18 DEF WaitCancel
<1> QED
  BY KindsKnown, <1>1, <1>2, <1>3, <1>4, <1>5, <1>6, <1>7, <1>8, <1>9,
     <1>10, <1>11, <1>12, <1>13, <1>14, <1>15, <1>16, <1>17, <1>18 DEF
        ClientStart, ClientRest

\* The release of a handle does not write them.
LEMMA FlagRelease ==
    ASSUME TypeInv, StopBelongs, FlagInv, NEW f \in Files, Release(f)
    PROVE  FlagInv'
<1> USE NoneAssumption DEF TypeInv, TypeOK, CallsOK, TasksOK,
        AddPcs, ResumePcs, UsePcs, StopPcs, vars, fileVars, flagVars,
        taskVars, debugVars, targetVars,
        callerVars, clientVars,
        FlagInv, StoppedSound, PollSound, StopBelongs, Stopping, Live,
        Enter, Return, Goto, AfterStep
<1>1. CASE ReleaseContinue(f)
  BY <1>1 DEF ReleaseContinue, InFlight
<1>2. CASE ReleaseMark(f)
  BY <1>2 DEF ReleaseMark
<1>3. CASE ReleaseUnregister(f)
  BY <1>3 DEF ReleaseUnregister
<1>4. CASE ReleaseFree(f)
  BY <1>4 DEF ReleaseFree
<1> QED
  BY <1>1, <1>2, <1>3, <1>4 DEF Release

\* A debug exception finds the target outside bp_callback_after.
LEMMA FlagTrap ==
    ASSUME TypeInv, StopBelongs, FlagInv, NEW t \in Tasks,
           \/ \E k \in Kinds, H \in SUBSET Files : Hit(t, k, H)
           \/ StepTrap(t)
           \/ Exit(t)
    PROVE  FlagInv'
<1> USE DEF TypeInv, TypeOK, StopPcs, fileVars, flagVars, taskVars
<1>1. ASSUME NEW k \in Kinds, NEW H \in SUBSET Files, Hit(t, k, H)
      PROVE  FlagInv'
  BY <1>1, FlagElsewhere DEF Hit
<1>2. CASE StepOver(t)
  BY <1>2, FlagElsewhere DEF StepOver
<1>3. CASE StepHookStop(t)
  BY <1>3, FlagElsewhere DEF StepHookStop, HookTrap
<1>4. CASE StepHookRemoved(t)
  BY <1>4, FlagElsewhere DEF StepHookRemoved, HookTrap
<1>5. CASE StepHookNone(t)
  BY <1>5, FlagElsewhere DEF StepHookNone, HookTrap
<1>6. CASE Exit(t)
  BY <1>6, FlagElsewhere DEF Exit
<1> QED
  BY <1>1, <1>2, <1>3, <1>4, <1>5, <1>6 DEF StepTrap

\* bp_callback_after sets and resets the flags of its own handle.
LEMMA FlagResume ==
    ASSUME TypeInv, StopBelongs, FlagInv, NEW t \in Tasks,
           Resume(t) \/ TouchFreed(t)
    PROVE  FlagInv'
<1> USE NoneAssumption DEF TypeInv, TypeOK, CallsOK, TasksOK,
        AddPcs, ResumePcs, UsePcs, StopPcs, vars, fileVars, flagVars,
        taskVars, debugVars, targetVars,
        callerVars, clientVars,
        FlagInv, StoppedSound, PollSound, StopBelongs, Stopping, Live,
        Enter, Return, Goto, AfterStep
<1>1. ASSUME NEW f \in Files, RunWork(t, f)
      PROVE  FlagInv'
  <2>1. /\ tpc[t] = "resume" /\ cur[t] = None /\ Live(f) /\ f \in work[t]
        /\ tpc' = [tpc EXCEPT ![t] = "pollin"]
        /\ cur' = [cur EXCEPT ![t] = f]
        /\ stopped_flag' = [stopped_flag EXCEPT ![f] = TRUE]
        /\ UNCHANGED <<life, poll>>
    BY <1>1 DEF RunWork
  <2>2. \A u \in Tasks, g \in Files :
           Stopping(u, g)' <=> Stopping(u, g) \/ (u = t /\ g = f)
    BY <2>1
  <2>3. StoppedSound'
    BY <2>1, <2>2 DEF StoppedSound
  <2>4. PollSound'
    BY <2>1
  <2> QED
    BY <2>3, <2>4
<1>2. CASE PollIn(t)
  BY <1>2 DEF PollIn, SetPoll
<1>3. CASE WaitDone(t)
  BY <1>3 DEF WaitDone, ContinueSeen
<1>4. CASE UnPoll(t)
  BY <1>4 DEF UnPoll, SetPoll
<1>5. CASE Clear(t)
  <2> DEFINE f == cur[t]
  <2>1. /\ tpc[t] = "clear" /\ f \in Files
        /\ tpc' = [tpc EXCEPT ![t] = "resume"]
        /\ cur' = [cur EXCEPT ![t] = None]
        /\ stopped_flag' = [stopped_flag EXCEPT ![f] = FALSE]
        /\ UNCHANGED <<life, poll>>
    BY <1>5 DEF Clear, ResetFlags
  <2>2. \A u \in Tasks, g \in Files :
           Stopping(u, g)' <=> Stopping(u, g) /\ u # t
    BY <2>1
  <2>3. \A u \in Tasks : Live(f) /\ Stopping(u, f) => u = t
    BY <2>1
  <2>4. \A g \in Files : Stopping(t, g) => g = f
    OBVIOUS
  <2> HIDE DEF f, Stopping
  <2>5. StoppedSound'
    BY <2>1, <2>2, <2>3, <2>4 DEF StoppedSound
  <2>6. PollSound'
    BY <2>1
  <2> QED
    BY <2>5, <2>6
<1>6. CASE ReturnToUser(t)
  BY <1>6, FlagElsewhere DEF ReturnToUser
<1>7. CASE TouchFreed(t)
  BY <1>7 DEF TouchFreed
<1> QED
  BY <1>1, <1>2, <1>3, <1>4, <1>5, <1>6, <1>7 DEF Resume

\* The flags are sound in every step.
LEMMA FlagNext == TypeInv /\ OwnInv /\ FlagInv /\ [Next]_vars => FlagInv'
<1> SUFFICES ASSUME TypeInv, OwnInv, FlagInv, [Next]_vars PROVE FlagInv'
  OBVIOUS
<1>1. CASE UNCHANGED vars
  BY <1>1, FlagElsewhere DEF vars, fileVars, flagVars, taskVars, targetVars
<1>2. CASE Next
  BY <1>2, FlagClient, FlagRelease, FlagTrap, FlagResume DEF Next, OwnInv
<1> QED
  BY <1>1, <1>2

\* The inductive invariant of every behaviour of the specification.
Inv == TypeInv /\ OwnInv /\ FlagInv

\* Inv holds throughout every behaviour, whatever the client does.
THEOREM Invariance == Spec => []Inv
<1>1. Init => Inv
  BY TypeInit, OwnInit, FlagInit DEF Inv
<1>2. Inv /\ [Next]_vars => Inv'
  BY TypeNext, OwnNext, FlagNext DEF Inv
<1> QED
  BY <1>1, <1>2, PTL DEF Spec

\* IOCTL_BP_IS_STOPPED never lies: stopped_flag is set exactly while a task is
\* inside bp_callback_after for the handle.
THEOREM StoppedFlagSound == Spec => []StoppedSound
<1>1. Inv => StoppedSound
  BY DEF Inv, FlagInv
<1> QED
  BY <1>1, Invariance, PTL

\* A poller is never told of a stop that is already over.
THEOREM PollWordSound == Spec => []PollSound
<1>1. Inv => PollSound
  BY DEF Inv, FlagInv
<1> QED
  BY <1>1, Invariance, PTL


-----------------------------------------------------------------------------
(* References: every reference on a task is accounted for.                 *)

\* RefBalance, with what it needs of the callers: only IOCTL_ADD_BP holds a
\* task of its own.
RefInv ==
    /\ RefBalance
    /\ \A c \in Callers : cpc[c] \notin AddPcs => ctask[c] = None

\* How many elements of S the map g sends to v.
Count(S, g, v) == Cardinality({y \in S : g[y] = v})

One(b, v) == IF b = v THEN 1 ELSE 0

\* The maps g and h on the finite set S differ at most at x.
Changed(S, g, h, x) ==
    IsFiniteSet(S) /\ x \in S /\ \A y \in S : y # x => h[y] = g[y]

\* A count is a number, which is 0 or more.
LEMMA CountNat ==
    ASSUME NEW S, IsFiniteSet(S), NEW g, NEW v
    PROVE  Count(S, g, v) \in Nat
<1>1. {y \in S : g[y] = v} \in SUBSET S
  OBVIOUS
<1> QED  BY <1>1, FS_Subset, FS_CardinalityType DEF Count

\* The count after one element is sent elsewhere.
LEMMA CountUpdate ==
    ASSUME NEW S, NEW g, NEW h, NEW x, Changed(S, g, h, x), NEW v
    PROVE  Count(S, h, v) = Count(S, g, v) - One(g[x], v) + One(h[x], v)
<1> USE DEF Changed
<1> DEFINE R == {y \in S \ {x} : g[y] = v}
           A == {y \in S : g[y] = v}
           B == {y \in S : h[y] = v}
<1>1. IsFiniteSet(R) /\ Cardinality(R) \in Nat /\ x \notin R
  <2>1. R \in SUBSET S
    OBVIOUS
  <2> QED  BY <2>1, FS_Subset, FS_CardinalityType
<1>2. A = IF g[x] = v THEN R \cup {x} ELSE R
  OBVIOUS
<1>3. B = IF h[x] = v THEN R \cup {x} ELSE R
  OBVIOUS
<1>4. Cardinality(R \cup {x}) = Cardinality(R) + 1
  BY <1>1, FS_AddElement
<1> HIDE DEF R, A, B
<1>5. Cardinality(B) = Cardinality(A) - One(g[x], v) + One(h[x], v)
  BY <1>1, <1>2, <1>3, <1>4 DEF One
<1> QED  BY <1>5 DEF A, B, Count

\* No task is referenced initially.
LEMMA RefInit == Init => RefInv
<1> SUFFICES ASSUME Init PROVE RefInv
  OBVIOUS
<1>1. ASSUME NEW t \in Tasks
      PROVE  {f \in Files : target_task[f] = t} = {} /\ {c \in Callers : ctask[c] = t} = {}
  BY NoneAssumption DEF Init
<1>2. Cardinality({}) = 0
  BY FS_EmptySet
<1>3. \A t \in Tasks : usage[t] = 0 + 0
  BY DEF Init
<1>4. RefBalance
  BY <1>1, <1>2, <1>3 DEF RefBalance
<1> QED  BY <1>4 DEF Init, RefInv

\* The steps of IOCTL_ADD_BP: its reference becomes that of the file, or is put.
LEMMA RefAdd ==
    ASSUME TypeInv, OwnInv, RefInv, NEW c \in Callers,
           \/ \E f \in Files, t \in Tasks, k \in Kinds : AddBp(c, f, t, k)
           \/ AddBpPerf(c) \/ AddBpFail(c) \/ AddBpAssign(c)
    PROVE  RefInv'
<1>1. /\ ctask \in [Callers -> Tasks \cup {None}] /\ cpc \in [Callers -> CallerPcs]
      /\ target_task \in [Files -> Tasks \cup {None}] /\ usage \in [Tasks -> Int]
  BY DEF TypeInv, TypeOK
<1>2. \A d \in Callers : d # c => ctask'[d] = ctask[d] /\ cpc'[d] = cpc[d]
  BY <1>1 DEF AddBp, AddBpPerf, AddBpFail, AddBpAssign, Enter, Goto, Return
<1>3. cpc'[c] \notin AddPcs => ctask'[c] = None
  BY <1>1 DEF AddBp, AddBpPerf, AddBpFail, AddBpAssign, Enter, Goto, Return, AddPcs
<1>4. \A d \in Callers : cpc'[d] \notin AddPcs => ctask'[d] = None
  BY <1>2, <1>3 DEF RefInv
<1>5. \A t \in Tasks : Count(Callers, ctask', t) =
          Count(Callers, ctask, t) - One(ctask[c], t) + One(ctask'[c], t)
  <2>1. Changed(Callers, ctask, ctask', c)
    BY <1>2, FiniteAssumption DEF Changed
  <2> QED  BY <2>1, CountUpdate
<1>6. \A t \in Tasks : Count(Callers, ctask, t) \in Nat /\ Count(Files, target_task, t) \in Nat
  BY FiniteAssumption, CountNat
<1>7. \A t \in Tasks : usage[t] = Count(Files, target_task, t) + Count(Callers, ctask, t)
  BY DEF RefInv, RefBalance, Count
<1>8. ASSUME NEW f \in Files, NEW t \in Tasks, NEW k \in Kinds, AddBp(c, f, t, k)
      PROVE  RefInv'
  <2>1. ctask[c] = None /\ ctask'[c] = t /\ UNCHANGED target_task
    BY <1>1, <1>8 DEF AddBp, Enter, RefInv, AddPcs, fileVars
  <2>2. \A u \in Tasks : usage'[u] = usage[u] + (IF u = t THEN 1 ELSE 0)
    BY <1>1, <1>8 DEF AddBp
  <2>3. \A u \in Tasks : Count(Files, target_task', u) = Count(Files, target_task, u)
    BY <2>1
  <2>4. \A u \in Tasks : usage'[u] = Count(Files, target_task', u) + Count(Callers, ctask', u)
    BY <1>5, <1>6, <1>7, <2>1, <2>2, <2>3, NoneAssumption DEF One
  <2> QED  BY <1>4, <2>4 DEF RefInv, RefBalance, Count
<1>9. CASE AddBpPerf(c)
  BY <1>1, <1>4, <1>9 DEF AddBpPerf, Goto, RefInv, RefBalance, targetVars
<1>10. CASE AddBpFail(c)
  <2>1. ctask[c] \in Tasks /\ ctask'[c] = None /\ UNCHANGED target_task
    BY <1>1, <1>10 DEF AddBpFail, TypeInv, CallsOK, AddPcs
  <2>2. \A u \in Tasks : usage'[u] = usage[u] - (IF u = ctask[c] THEN 1 ELSE 0)
    BY <1>1, <1>10 DEF AddBpFail, PutTask
  <2>3. \A u \in Tasks : Count(Files, target_task', u) = Count(Files, target_task, u)
    BY <2>1
  <2>4. \A u \in Tasks : usage'[u] = Count(Files, target_task', u) + Count(Callers, ctask', u)
    BY <1>5, <1>6, <1>7, <2>1, <2>2, <2>3, NoneAssumption DEF One
  <2> QED  BY <1>4, <2>4 DEF RefInv, RefBalance, Count
<1>11. CASE AddBpAssign(c)
  <2>1. /\ ctask[c] \in Tasks /\ ctask'[c] = None /\ UNCHANGED usage
        /\ cfile[c] \in Files /\ life[cfile[c]] = "adding"
    BY <1>1, <1>11 DEF AddBpAssign, TypeInv, CallsOK, AddPcs, targetVars
  <2>2. target_task[cfile[c]] = None
    BY <2>1 DEF OwnInv, FilesOwned
  <2>3. /\ target_task'[cfile[c]] = ctask[c]
        /\ \A f \in Files : f # cfile[c] => target_task'[f] = target_task[f]
    BY <1>1, <1>11, <2>1 DEF AddBpAssign, AssignTask
  <2>4. \A u \in Tasks : Count(Files, target_task', u) =
            Count(Files, target_task, u) - One(target_task[cfile[c]], u) + One(target_task'[cfile[c]], u)
    <3>1. Changed(Files, target_task, target_task', cfile[c])
      BY <2>1, <2>3, FiniteAssumption DEF Changed
    <3> QED  BY <3>1, CountUpdate
  <2>5. \A u \in Tasks : usage'[u] = Count(Files, target_task', u) + Count(Callers, ctask', u)
    BY <1>5, <1>6, <1>7, <2>1, <2>2, <2>3, <2>4, NoneAssumption DEF One
  <2> QED  BY <1>4, <2>5 DEF RefInv, RefBalance, Count
<1> QED  BY <1>8, <1>9, <1>10, <1>11

\* ReleaseFree puts the reference of the file.
LEMMA RefFree ==
    ASSUME TypeInv, RefInv, NEW f \in Files, ReleaseFree(f)
    PROVE  RefInv'
<1>1. UNCHANGED <<cpc, ctask>>
  BY DEF ReleaseFree, clientVars, callerVars
<1>2. target_task'[f] = None /\ \A g \in Files : g # f => target_task'[g] = target_task[g]
  BY DEF ReleaseFree, TypeInv, TypeOK
<1>3. \A t \in Tasks : usage'[t] = usage[t] - (IF target_task[f] = t THEN 1 ELSE 0)
  BY DEF ReleaseFree
<1>4. \A t \in Tasks : Count(Files, target_task', t) =
          Count(Files, target_task, t) - One(target_task[f], t) + One(target_task'[f], t)
  <2>1. Changed(Files, target_task, target_task', f)
    BY <1>2, FiniteAssumption DEF Changed
  <2> QED  BY <2>1, CountUpdate
<1>5. \A t \in Tasks : Count(Callers, ctask, t) \in Nat /\ Count(Files, target_task, t) \in Nat
  BY FiniteAssumption, CountNat
<1>6. \A t \in Tasks : usage[t] = Count(Files, target_task, t) + Count(Callers, ctask, t)
  BY DEF RefInv, RefBalance, Count
<1>7. \A t \in Tasks : usage'[t] = Count(Files, target_task', t) + Count(Callers, ctask', t)
  BY <1>1, <1>2, <1>3, <1>4, <1>5, <1>6, NoneAssumption DEF One
<1>8. \A c \in Callers : cpc'[c] \notin AddPcs => ctask'[c] = None
  BY <1>1 DEF RefInv
<1> QED  BY <1>7, <1>8 DEF RefInv, RefBalance, Count

\* A step that leaves the references alone.
LEMMA RefElsewhere ==
    ASSUME RefInv, UNCHANGED <<target_task, ctask, usage>>,
           \A c \in Callers : cpc[c] \in AddPcs => cpc'[c] \in AddPcs
    PROVE  RefInv'
  BY DEF RefInv, RefBalance

\* Every step keeps RefInv.
LEMMA RefNext == TypeInv /\ OwnInv /\ RefInv /\ [Next]_vars => RefInv'
<1> SUFFICES ASSUME TypeInv, OwnInv, RefInv, [Next]_vars PROVE RefInv'
  OBVIOUS
<1>1. cpc \in [Callers -> CallerPcs]
  BY DEF TypeInv, TypeOK
<1>2. CASE UNCHANGED vars
  BY <1>2, RefElsewhere DEF vars, fileVars, targetVars, callerVars, clientVars
<1>3. ASSUME NEW c \in Callers, NEW f \in Files,
             \/ Continue(c, f) \/ Step(c, f) \/ Regs(c, f) \/ Poll(c, f) \/ WaitAdd(c, f) \/ Close(c, f)
      PROVE  RefInv'
  BY <1>1, <1>3, RefElsewhere DEF Continue, Step, Regs, Poll, WaitAdd, Close, Enter, AddPcs,
     fileVars, targetVars, callerVars
<1>4. ASSUME NEW c \in Callers,
             \/ ContinueSet(c) \/ StepList(c) \/ StepTest(c) \/ StepSuspend(c) \/ StepEnable(c)
             \/ RegsDone(c) \/ WaitSend(c) \/ WaitCancel(c)
      PROVE  RefInv'
  BY <1>1, <1>4, RefElsewhere DEF ContinueSet, StepList, StepTest, StepSuspend, StepEnable, RegsDone,
     WaitSend, WaitCancel, Goto, Return, AddPcs, fileVars, targetVars, callerVars
<1>5. ASSUME NEW f \in Files, ReleaseContinue(f) \/ ReleaseMark(f) \/ ReleaseUnregister(f)
      PROVE  RefInv'
  BY <1>5, RefElsewhere DEF ReleaseContinue, ReleaseMark, ReleaseUnregister, targetVars, callerVars, clientVars
<1>6. ASSUME NEW t \in Tasks,
             \/ \E k \in Kinds, H \in SUBSET Files : Hit(t, k, H)
             \/ StepTrap(t) \/ Resume(t) \/ TouchFreed(t) \/ Exit(t)
      PROVE  RefInv'
  BY <1>6, RefElsewhere DEF Hit, StepTrap, StepOver, StepHookStop, StepHookRemoved, StepHookNone, Resume,
     RunWork, PollIn, WaitDone, UnPoll, Clear, ReturnToUser, TouchFreed, Exit, fileVars, callerVars, clientVars
<1> QED
  BY KindsKnown, <1>2, <1>3, <1>4, <1>5, <1>6, RefAdd, RefFree DEF Next, ClientStart, ClientRest, Release

\* RefBalance: get_task_struct and put_task_struct are balanced in every
\* interleaving, for any number of handles and calls.
THEOREM RefsBalanced == Spec => []RefBalance
<1>1. Init => Inv /\ RefInv
  BY TypeInit, OwnInit, FlagInit, RefInit DEF Inv
<1>2. (Inv /\ RefInv) /\ [Next]_vars => (Inv /\ RefInv)'
  BY TypeNext, OwnNext, FlagNext, RefNext DEF Inv
<1>3. RefInv => RefBalance
  BY DEF RefInv
<1> QED
  BY <1>1, <1>2, <1>3, PTL DEF Spec


-----------------------------------------------------------------------------
(* Single steps: an entry for every step trap to come.                     *)

\* The calls that have added their entry and not yet armed the target ...
Asking(t) ==
    {c \in Callers : /\ cpc[c] \in {"step_test", "step_susp", "step_enable"}
                     /\ target_task[cfile[c]] = t}

\* ... and the traps that the target is armed for and that reach the step hook:
\* one for TIF_SINGLESTEP outside a step-over, one for suspended_step.
Armed(t) ==
    (IF suspended_step[t] THEN 1 ELSE 0) + (IF tif[t] /\ disabled[t] = {} THEN 1 ELSE 0)

\* As long as no handle is closed, step_list has an entry for each of them.
StepOwed(t) ==
    Cardinality(Asking(t)) + Armed(t) <= Cardinality(IndicesOfPid(t))

StepInv ==
    \/ SomeClosed
    \/ /\ \A t \in Tasks : StepOwed(t) /\ tpc[t] # "sigtrap"
       /\ \A i \in 1..Len(step_list) : ~ step_list[i].removed

\* The sets counted are finite.
LEMMA StepFinite ==
    ASSUME TypeInv, NEW t \in Tasks
    PROVE  /\ IsFiniteSet(Asking(t)) /\ Cardinality(Asking(t)) \in Nat
           /\ IsFiniteSet(IndicesOfPid(t)) /\ Cardinality(IndicesOfPid(t)) \in Nat
           /\ Armed(t) \in 0..2
<1>1. Asking(t) \in SUBSET Callers
  BY DEF Asking
<1>2. IsFiniteSet(1..Len(step_list)) /\ IndicesOfPid(t) \in SUBSET (1..Len(step_list))
  BY FS_Interval DEF IndicesOfPid, TypeInv, TypeOK
<1>3. IsFiniteSet(Asking(t)) /\ IsFiniteSet(IndicesOfPid(t))
  BY <1>1, <1>2, FS_Subset, FiniteAssumption
<1>4. Armed(t) \in 0..2
  BY DEF Armed
<1> QED  BY <1>3, <1>4, FS_CardinalityType

\* A handle that is closed stays closed.
LEMMA ClosedStays ==
    ASSUME TypeInv, [Next]_vars, SomeClosed
    PROVE  SomeClosed'
<1>1. PICK f \in Files : life[f] \notin {"none", "adding", "open"}
  BY DEF SomeClosed
<1>2. life'[f] \notin {"none", "adding", "open"}
  <2> USE DEF TypeInv, TypeOK, fileVars
  <2>1. CASE UNCHANGED life
    BY <1>1, <2>1
  <2>2. ASSUME NEW c \in Callers, NEW g \in Files, NEW t \in Tasks, NEW k \in Kinds, AddBp(c, g, t, k)
        PROVE  life'[f] \notin {"none", "adding", "open"}
    BY <1>1, <2>2 DEF AddBp
  <2>3. ASSUME NEW c \in Callers, AddBpFail(c) \/ AddBpAssign(c)
        PROVE  life'[f] \notin {"none", "adding", "open"}
    BY <1>1, <2>3 DEF AddBpFail, AddBpAssign, CallsOK, AddPcs
  <2>4. ASSUME NEW c \in Callers, NEW g \in Files, Close(c, g)
        PROVE  life'[f] \notin {"none", "adding", "open"}
    BY <1>1, <2>4 DEF Close
  <2>5. ASSUME NEW g \in Files, Release(g)
        PROVE  life'[f] \notin {"none", "adding", "open"}
    BY <1>1, <2>5 DEF Release, ReleaseContinue, ReleaseMark, ReleaseUnregister, ReleaseFree
  <2>6. ASSUME NEW c \in Callers, NEW g \in Files,
               Continue(c, g) \/ Step(c, g) \/ Regs(c, g) \/ Poll(c, g) \/ WaitAdd(c, g)
        PROVE  UNCHANGED life
    BY <2>6 DEF Continue, Step, Regs, Poll, WaitAdd
  <2>7. ASSUME NEW c \in Callers,
               \/ AddBpPerf(c) \/ ContinueSet(c) \/ StepList(c) \/ StepTest(c) \/ StepSuspend(c)
               \/ StepEnable(c) \/ RegsDone(c) \/ WaitSend(c) \/ WaitCancel(c)
        PROVE  UNCHANGED life
    BY <2>7 DEF AddBpPerf, ContinueSet, StepList, StepTest, StepSuspend, StepEnable, RegsDone,
       WaitSend, WaitCancel
  <2>8. ASSUME NEW t \in Tasks,
               \/ \E k \in Kinds, H \in SUBSET Files : Hit(t, k, H)
               \/ StepTrap(t) \/ Resume(t) \/ TouchFreed(t) \/ Exit(t)
        PROVE  UNCHANGED life
    BY <2>8 DEF Hit, StepTrap, StepOver, StepHookStop, StepHookRemoved, StepHookNone, Resume, RunWork,
       PollIn, WaitDone, UnPoll, Clear, ReturnToUser, TouchFreed, Exit
  <2>9. CASE UNCHANGED vars
    BY <2>1, <2>9 DEF vars
  <2> QED
    BY KindsKnown, <2>1, <2>2, <2>3, <2>4, <2>5, <2>6, <2>7, <2>8, <2>9 DEF Next, ClientStart, ClientRest
<1> QED  BY <1>2 DEF SomeClosed

\* A step that owes no more entries and keeps the list.
LEMMA OwedElsewhere ==
    ASSUME TypeInv, StepInv, ~ SomeClosed, UNCHANGED step_list,
           \A t \in Tasks : /\ Asking(t)' \subseteq Asking(t) /\ Armed(t)' <= Armed(t) /\ Armed(t)' \in 0..2
                            /\ tpc'[t] = "sigtrap" => tpc[t] = "sigtrap"
    PROVE  StepInv'
<1>1. ASSUME NEW t \in Tasks PROVE StepOwed(t)' /\ tpc'[t] # "sigtrap"
  <2>1. StepOwed(t) /\ tpc[t] # "sigtrap"
    BY DEF StepInv
  <2>2. IndicesOfPid(t)' = IndicesOfPid(t)
    BY DEF IndicesOfPid
  <2>3. Cardinality(Asking(t)') <= Cardinality(Asking(t)) /\ Cardinality(Asking(t)') \in Nat
    BY StepFinite, FS_Subset, FS_CardinalityType
  <2>4. Cardinality(Asking(t)) \in Nat /\ Armed(t) \in 0..2 /\ Cardinality(IndicesOfPid(t)) \in Nat
    BY StepFinite
  <2>5. Cardinality(Asking(t)') + Armed(t)' <= Cardinality(IndicesOfPid(t)')
    BY <2>1, <2>2, <2>3, <2>4 DEF StepOwed
  <2> QED  BY <2>1, <2>5 DEF StepOwed
<1>2. \A i \in 1..Len(step_list') : ~ step_list'[i].removed
  BY DEF StepInv
<1> QED  BY <1>1, <1>2 DEF StepInv

\* list_add gives the task of the entry one more, and takes none from others.
LEMMA AddCount ==
    ASSUME TypeInv, TypeInv', NEW e \in Entries, ListAdd(e), NEW t \in Tasks
    PROVE  Cardinality(IndicesOfPid(t)') >=
               Cardinality(IndicesOfPid(t)) + (IF e.pid = t THEN 1 ELSE 0)
<1> DEFINE I == IndicesOfPid(t)
           J == IndicesOfPid(t)' \ {1}
           s == [j \in J |-> j - 1]
<1>1. step_list \in Seq(Entries) /\ step_list' = <<e>> \o step_list
  BY DEF TypeInv, TypeOK, ListAdd
<1>2. /\ Len(step_list') = Len(step_list) + 1 /\ step_list'[1] = e
      /\ \A i \in 1..Len(step_list) : step_list'[i + 1] = step_list[i]
  BY <1>1
<1>3. J = {i \in 2..(Len(step_list) + 1) : step_list[i - 1].pid = t}
  BY <1>1, <1>2 DEF IndicesOfPid
<1>4. I = {i \in 1..Len(step_list) : step_list[i].pid = t}
  BY DEF IndicesOfPid
<1>5. s \in Surjection(J, I)
  <2>1. \A j \in J : j - 1 \in I
    BY <1>1, <1>3, <1>4
  <2>2. ASSUME NEW i \in I PROVE i + 1 \in J /\ (i + 1) - 1 = i
    <3>1. i \in 1..Len(step_list) /\ step_list[i].pid = t /\ Len(step_list) \in Nat
      BY <1>1, <1>4
    <3>2. (i + 1) - 1 = i /\ i + 1 \in 2..(Len(step_list) + 1)
      BY <3>1
    <3>3. step_list[(i + 1) - 1].pid = t
      BY <3>1, <3>2
    <3> QED  BY <1>3, <3>2, <3>3
  <2> HIDE DEF I, J
  <2>3. \A i \in I : \E j \in J : s[j] = i
    BY <2>2
  <2> QED  BY <2>1, <2>3 DEF Surjection
<1>6. IsFiniteSet(IndicesOfPid(t)') /\ Cardinality(IndicesOfPid(t)') \in Nat
  <2>1. IsFiniteSet(1..Len(step_list')) /\ IndicesOfPid(t)' \in SUBSET (1..Len(step_list'))
    BY FS_Interval DEF IndicesOfPid, TypeInv, TypeOK
  <2> QED  BY <2>1, FS_Subset, FS_CardinalityType
<1> HIDE DEF I, s
<1>7. IsFiniteSet(J) /\ Cardinality(J) = IF 1 \in IndicesOfPid(t)' THEN Cardinality(IndicesOfPid(t)') - 1
                                         ELSE Cardinality(IndicesOfPid(t)')
  BY <1>6, FS_RemoveElement
<1>8. Cardinality(I) <= Cardinality(J) /\ Cardinality(I) \in Nat
  BY <1>5, <1>7, FS_Surjection, FS_CardinalityType
<1>9. e.pid = t <=> 1 \in IndicesOfPid(t)'
  BY <1>1, <1>2 DEF IndicesOfPid
<1> HIDE DEF J
<1> QED  BY <1>6, <1>7, <1>8, <1>9 DEF I

\* Deleting one entry takes at most one from its task, and none from others.
LEMMA DeleteCount ==
    ASSUME TypeInv, NEW i \in 1..Len(step_list), step_list' = DeleteAt(i), NEW t \in Tasks
    PROVE  Cardinality(IndicesOfPid(t)') >=
               Cardinality(IndicesOfPid(t)) - (IF step_list[i].pid = t THEN 1 ELSE 0)
<1> DEFINE I == IndicesOfPid(t) \ {i}
           J == IndicesOfPid(t)'
           s == [j \in J |-> IF j < i THEN j ELSE j + 1]
           a == SubSeq(step_list, 1, i - 1)
           b == SubSeq(step_list, i + 1, Len(step_list))
           n == Len(step_list)
<1>1. step_list \in Seq(Entries) /\ n \in Nat /\ i \in Nat /\ i >= 1 /\ i <= n
  BY DEF TypeInv, TypeOK
<1>2. /\ a \in Seq(Entries) /\ Len(a) = i - 1
      /\ \A m \in 1..(i - 1) : a[m] = step_list[m]
  BY <1>1
<1>3. /\ b \in Seq(Entries) /\ Len(b) = n - i
      /\ \A m \in 1..(n - i) : b[m] = step_list[i + m]
  BY <1>1
<1>4. step_list' = a \o b
  BY DEF DeleteAt
<1> HIDE DEF a, b
<1>5. /\ step_list' \in Seq(Entries) /\ Len(step_list') = n - 1
      /\ \A m \in 1..(i - 1) : step_list'[m] = step_list[m]
      /\ \A m \in i..(n - 1) : step_list'[m] = step_list[m + 1]
  <2>1. step_list' \in Seq(Entries) /\ Len(step_list') = n - 1
    BY <1>1, <1>2, <1>3, <1>4
  <2>2. \A m \in 1..(i - 1) : step_list'[m] = step_list[m]
    BY <1>1, <1>2, <1>3, <1>4
  <2>3. ASSUME NEW m \in i..(n - 1) PROVE step_list'[m] = step_list[m + 1]
    <3>1. step_list'[m] = b[m - (i - 1)] /\ m - (i - 1) \in 1..(n - i)
      BY <1>1, <1>2, <1>3, <1>4
    <3>2. i + (m - (i - 1)) = m + 1
      BY <1>1
    <3> QED  BY <1>3, <3>1, <3>2
  <2> QED  BY <2>1, <2>2, <2>3
<1>6. J = {j \in 1..(n - 1) : step_list'[j].pid = t} /\ IndicesOfPid(t) = {j \in 1..n : step_list[j].pid = t}
  BY <1>5 DEF IndicesOfPid
<1>7. IsFiniteSet(J) /\ Cardinality(J) \in Nat
  <2>1. n - 1 \in Int
    BY <1>1
  <2>2. IsFiniteSet(1..(n - 1))
    BY <2>1, FS_Interval
  <2>3. J \in SUBSET (1..(n - 1))
    BY <1>6
  <2> QED  BY <2>2, <2>3, FS_Subset, FS_CardinalityType
<1>8. \A j \in J : (IF j < i THEN j ELSE j + 1) \in I
  BY <1>1, <1>5, <1>6
<1>9. ASSUME NEW m \in I PROVE \E j \in J : s[j] = m
  <2>1. m \in 1..n /\ m # i /\ step_list[m].pid = t
    BY <1>6
  <2>2. CASE m < i
    <3>1. m \in J
      BY <1>1, <1>5, <1>6, <2>1, <2>2
    <3> QED  BY <2>2, <3>1
  <2>3. CASE m > i
    <3>1. m - 1 \in i..(n - 1) /\ (m - 1) + 1 = m /\ m - 1 \in 1..(n - 1) /\ ~ (m - 1 < i)
      BY <1>1, <2>1, <2>3
    <3>2. m - 1 \in J
      BY <1>5, <1>6, <2>1, <3>1
    <3> QED  BY <3>1, <3>2
  <2> QED  BY <1>1, <2>1, <2>2, <2>3
<1>10. IsFiniteSet(IndicesOfPid(t)) /\ Cardinality(IndicesOfPid(t)) \in Nat
  BY StepFinite
<1>11. i \in IndicesOfPid(t) <=> step_list[i].pid = t
  BY <1>6
<1>12. Cardinality(I) = IF i \in IndicesOfPid(t) THEN Cardinality(IndicesOfPid(t)) - 1
                        ELSE Cardinality(IndicesOfPid(t))
  BY <1>10, FS_RemoveElement
<1>13. s \in Surjection(J, I)
  <2> HIDE DEF I, J
  <2>1. s \in [J -> I]
    BY <1>8
  <2> QED  BY <1>9, <2>1 DEF Surjection
<1> HIDE DEF I, J, s
<1>14. Cardinality(I) <= Cardinality(J)
  BY <1>7, <1>13, FS_Surjection
<1> QED  BY <1>7, <1>10, <1>11, <1>12, <1>14 DEF J

\* Client threads keep StepInv.
LEMMA StepClient ==
    ASSUME TypeInv, TypeInv', StepInv, ~ SomeClosed, ~ SomeClosed', NEW c \in Callers,
           \/ \E f \in Files : ClientStart(c, f)
           \/ ClientRest(c)
           \/ WaitCancel(c)
    PROVE  StepInv'
<1>1. /\ cpc \in [Callers -> CallerPcs] /\ cfile \in [Callers -> Files \cup {None}]
      /\ target_task \in [Files -> Tasks \cup {None}] /\ life \in [Files -> Lives]
      /\ step_list \in Seq(Entries)
      /\ tif \in [Tasks -> BOOLEAN] /\ suspended_step \in [Tasks -> BOOLEAN]
  BY DEF TypeInv, TypeOK
<1>2. ASSUME NEW d \in Callers, cpc[d] \in {"step_test", "step_susp", "step_enable"}
      PROVE  cfile[d] \in Files /\ target_task[cfile[d]] \in Tasks /\ life[cfile[d]] # "adding"
  BY <1>2 DEF TypeInv, CallsOK, UsePcs, ResumePcs
<1>3. ASSUME NEW f \in Files,
             \/ \E t \in Tasks, k \in Kinds : AddBp(c, f, t, k)
             \/ Continue(c, f) \/ Step(c, f) \/ Regs(c, f) \/ Poll(c, f) \/ WaitAdd(c, f)
      PROVE  StepInv'
  <2>1. /\ UNCHANGED <<step_list, target_task, tpc, tif, suspended_step, disabled>>
        /\ \A d \in Callers : d # c => cpc'[d] = cpc[d] /\ cfile'[d] = cfile[d]
        /\ cpc'[c] \notin {"step_test", "step_susp", "step_enable"}
    BY <1>1, <1>3 DEF AddBp, Continue, Step, Regs, Poll, WaitAdd, Enter, fileVars, targetVars, taskVars,
       debugVars, callerVars
  <2>2. \A t \in Tasks : Asking(t)' \subseteq Asking(t)
    BY <2>1 DEF Asking
  <2>3. \A t \in Tasks : Armed(t)' = Armed(t)
    BY <2>1 DEF Armed
  <2> QED  BY <2>1, <2>2, <2>3, StepFinite, OwedElsewhere
<1>4. ASSUME NEW f \in Files, Close(c, f) PROVE StepInv'
  BY <1>1, <1>4 DEF Close, SomeClosed, StepInv
<1>5. CASE AddBpFail(c)
  BY <1>1, <1>5 DEF AddBpFail, SomeClosed, TypeInv, CallsOK, AddPcs
<1>6. CASE \/ AddBpPerf(c) \/ ContinueSet(c) \/ RegsDone(c) \/ WaitSend(c) \/ WaitCancel(c)
  <2>1. /\ UNCHANGED <<step_list, target_task, tpc, tif, suspended_step, disabled>>
        /\ \A d \in Callers : d # c => cpc'[d] = cpc[d] /\ cfile'[d] = cfile[d]
        /\ cpc'[c] \notin {"step_test", "step_susp", "step_enable"}
    BY <1>1, <1>6 DEF AddBpPerf, ContinueSet, RegsDone, WaitSend, WaitCancel, Goto, Return, fileVars,
       targetVars, taskVars, debugVars, callerVars
  <2>2. \A t \in Tasks : Asking(t)' \subseteq Asking(t)
    BY <2>1 DEF Asking
  <2>3. \A t \in Tasks : Armed(t)' = Armed(t)
    BY <2>1 DEF Armed
  <2> QED  BY <2>1, <2>2, <2>3, StepFinite, OwedElsewhere
<1>7. CASE AddBpAssign(c)
  <2>1. /\ UNCHANGED <<step_list, tpc, tif, suspended_step, disabled>>
        /\ \A d \in Callers : d # c => cpc'[d] = cpc[d] /\ cfile'[d] = cfile[d]
        /\ cpc'[c] = "idle" /\ life[cfile[c]] = "adding"
        /\ \A f \in Files : f # cfile[c] => target_task'[f] = target_task[f]
    BY <1>1, <1>7 DEF AddBpAssign, AssignTask, Return, targetVars, taskVars, debugVars, TypeInv, CallsOK, AddPcs
  <2>2. \A t \in Tasks : Asking(t)' \subseteq Asking(t)
    BY <1>2, <2>1 DEF Asking
  <2>3. \A t \in Tasks : Armed(t)' = Armed(t)
    BY <2>1 DEF Armed
  <2> QED  BY <2>1, <2>2, <2>3, StepFinite, OwedElsewhere
<1>8. CASE StepTest(c)
  <2>1. /\ UNCHANGED <<step_list, target_task, tpc, tif, suspended_step, disabled, cfile>>
        /\ \A d \in Callers : d # c => cpc'[d] = cpc[d]
        /\ cpc[c] = "step_test"
    BY <1>1, <1>8 DEF StepTest, Goto, fileVars, targetVars, taskVars, debugVars
  <2>2. \A t \in Tasks : Asking(t)' \subseteq Asking(t)
    BY <2>1 DEF Asking
  <2>3. \A t \in Tasks : Armed(t)' = Armed(t)
    BY <2>1 DEF Armed
  <2> QED  BY <2>1, <2>2, <2>3, StepFinite, OwedElsewhere
<1>9. CASE StepList(c)
  <2> DEFINE e == [pid |-> target_task[cfile[c]], file |-> cfile[c], removed |-> FALSE]
  <2>1. cfile[c] \in Files /\ target_task[cfile[c]] \in Tasks /\ cpc[c] = "step_list"
    BY <1>9 DEF StepList, Goto, TypeInv, CallsOK, UsePcs, ResumePcs
  <2>2. e \in Entries /\ e.pid = target_task[cfile[c]] /\ ~ e.removed
    BY <2>1 DEF Entries
  <2>3. /\ ListAdd(e) /\ UNCHANGED <<target_task, tpc, tif, suspended_step, disabled, cfile>>
        /\ \A d \in Callers : d # c => cpc'[d] = cpc[d]
    BY <1>1, <1>9 DEF StepList, Goto, fileVars, targetVars, taskVars, debugVars
  <2> HIDE DEF e
  <2>4. ASSUME NEW t \in Tasks PROVE StepOwed(t)' /\ tpc'[t] # "sigtrap"
    <3>1. StepOwed(t) /\ tpc'[t] # "sigtrap"
      BY <2>3 DEF StepInv
    <3>2. /\ IsFiniteSet(Asking(t)) /\ Cardinality(Asking(t)) \in Nat /\ Armed(t) \in 0..2
          /\ Cardinality(IndicesOfPid(t)) \in Nat
      BY StepFinite
    <3>3. Cardinality(IndicesOfPid(t)') >= Cardinality(IndicesOfPid(t)) + (IF e.pid = t THEN 1 ELSE 0)
      BY <2>2, <2>3, AddCount
    <3>4. Cardinality(Asking(t)') = Cardinality(Asking(t)) + (IF e.pid = t THEN 1 ELSE 0)
      <4>1. Asking(t)' = IF e.pid = t THEN Asking(t) \cup {c} ELSE Asking(t)
        BY <1>1, <1>9, <2>1, <2>2, <2>3 DEF Asking, StepList, Goto
      <4>2. c \notin Asking(t)
        BY <2>1 DEF Asking
      <4>3. Cardinality(Asking(t) \cup {c}) = Cardinality(Asking(t)) + 1
        BY <3>2, <4>2, FS_AddElement
      <4>4. CASE e.pid = t
        BY <4>1, <4>3, <4>4
      <4>5. CASE e.pid # t
        BY <3>2, <4>1, <4>5
      <4> QED  BY <4>4, <4>5
    <3>5. Armed(t)' = Armed(t)
      BY <2>3 DEF Armed
    <3>6. Cardinality(IndicesOfPid(t)') \in Nat
      <4>1. IsFiniteSet(1..Len(step_list')) /\ IndicesOfPid(t)' \in SUBSET (1..Len(step_list'))
        BY FS_Interval DEF IndicesOfPid, TypeInv, TypeOK
      <4> QED  BY <4>1, FS_Subset, FS_CardinalityType
    <3>7. Cardinality(Asking(t)') + Armed(t)' <= Cardinality(IndicesOfPid(t)')
      BY <3>1, <3>2, <3>3, <3>4, <3>5, <3>6 DEF StepOwed
    <3> QED  BY <3>1, <3>7 DEF StepOwed
  <2>5. \A i \in 1..Len(step_list') : ~ step_list'[i].removed
    <3>1. \A i \in 1..Len(step_list) : ~ step_list[i].removed
      BY DEF StepInv
    <3>2. \A i \in 1..Len(step_list') : step_list'[i] = e \/ (i - 1 \in 1..Len(step_list) /\ step_list'[i] = step_list[i - 1])
      BY <1>1, <2>2, <2>3 DEF ListAdd
    <3> QED  BY <2>2, <3>1, <3>2
  <2> QED  BY <2>4, <2>5 DEF StepInv
<1>10. CASE StepSuspend(c) \/ StepEnable(c)
  <2> DEFINE a == target_task[cfile[c]]
  <2>1. cfile[c] \in Files /\ a \in Tasks /\ cpc[c] \in {"step_susp", "step_enable"} /\ cpc'[c] = "cont_set"
    BY <1>1, <1>2, <1>10 DEF StepSuspend, StepEnable, Goto
  <2>2. /\ UNCHANGED <<step_list, target_task, tpc, disabled, cfile>>
        /\ \A d \in Callers : d # c => cpc'[d] = cpc[d]
    BY <1>1, <1>10 DEF StepSuspend, StepEnable, Goto, fileVars, targetVars, taskVars, debugVars
  <2>3. /\ \A t \in Tasks : t # a => tif'[t] = tif[t] /\ suspended_step'[t] = suspended_step[t]
        /\ tif'[a] = tif[a] \/ suspended_step'[a] = suspended_step[a]
    BY <1>1, <1>10, <2>1 DEF StepSuspend, StepEnable
  <2> HIDE DEF a
  <2>4. ASSUME NEW t \in Tasks PROVE StepOwed(t)' /\ tpc'[t] # "sigtrap"
    <3>1. StepOwed(t) /\ tpc'[t] # "sigtrap"
      BY <2>2 DEF StepInv
    <3>2. /\ IsFiniteSet(Asking(t)) /\ Cardinality(Asking(t)) \in Nat /\ Armed(t) \in 0..2
          /\ Cardinality(IndicesOfPid(t)) \in Nat
      BY StepFinite
    <3>3. IndicesOfPid(t)' = IndicesOfPid(t)
      BY <2>2 DEF IndicesOfPid
    <3>4. Cardinality(Asking(t)') = Cardinality(Asking(t)) - (IF a = t THEN 1 ELSE 0)
      <4>1. Asking(t)' = IF a = t THEN Asking(t) \ {c} ELSE Asking(t)
        BY <2>1, <2>2 DEF Asking, a
      <4>2. a = t => c \in Asking(t)
        BY <2>1 DEF Asking, a
      <4>3. c \in Asking(t) => Cardinality(Asking(t) \ {c}) = Cardinality(Asking(t)) - 1
        BY <3>2, FS_RemoveElement
      <4>4. CASE a = t
        BY <4>1, <4>2, <4>3, <4>4
      <4>5. CASE a # t
        BY <3>2, <4>1, <4>5
      <4> QED  BY <4>4, <4>5
    <3>5. Armed(t)' <= Armed(t) + (IF a = t THEN 1 ELSE 0) /\ Armed(t)' \in 0..2
      BY <2>2, <2>3 DEF Armed
    <3>6. Cardinality(Asking(t)') + Armed(t)' <= Cardinality(IndicesOfPid(t)')
      BY <3>1, <3>2, <3>3, <3>4, <3>5 DEF StepOwed
    <3> QED  BY <3>1, <3>6 DEF StepOwed
  <2> QED  BY <2>2, <2>4 DEF StepInv
<1> QED
  BY KindsKnown, <1>3, <1>4, <1>5, <1>6, <1>7, <1>8, <1>9, <1>10 DEF ClientStart, ClientRest

\* Traps keep StepInv; while no handle is closed, the step hook finds an entry.
LEMMA StepTraps ==
    ASSUME TypeInv, StepInv, ~ SomeClosed, NEW t \in Tasks,
           \/ \E k \in Kinds, H \in SUBSET Files : Hit(t, k, H)
           \/ StepTrap(t)
    PROVE  StepInv'
<1>1. /\ tif \in [Tasks -> BOOLEAN] /\ suspended_step \in [Tasks -> BOOLEAN]
      /\ disabled \in [Tasks -> SUBSET Kinds] /\ tpc \in [Tasks -> TaskPcs]
      /\ step_list \in Seq(Entries)
  BY DEF TypeInv, TypeOK
<1>2. \A u \in Tasks : Asking(u)' = Asking(u)
  <2>1. UNCHANGED <<cpc, cfile, target_task>>
    BY DEF Hit, StepTrap, StepOver, StepHookStop, StepHookRemoved, StepHookNone, fileVars, clientVars, callerVars
  <2> QED  BY <2>1 DEF Asking
<1>3. \A u \in Tasks : u # t =>
          /\ tif'[u] = tif[u] /\ suspended_step'[u] = suspended_step[u] /\ disabled'[u] = disabled[u]
          /\ tpc'[u] = tpc[u]
  BY <1>1 DEF Hit, StepTrap, StepOver, StepHookStop, StepHookRemoved, StepHookNone, HookTrap, taskVars
<1>4. \A u \in Tasks : u # t => Armed(u)' = Armed(u)
  BY <1>3 DEF Armed
<1>5. ASSUME NEW k \in Kinds, NEW H \in SUBSET Files, Hit(t, k, H) PROVE StepInv'
  <2>1. UNCHANGED step_list /\ tpc'[t] = "resume"
    BY <1>1, <1>5 DEF Hit
  <2>2. /\ disabled'[t] # {}
        /\ suspended_step'[t] <=> suspended_step[t] \/ (disabled[t] = {} /\ tif[t])
    BY <1>1, <1>5 DEF Hit
  <2>3. Armed(t)' <= Armed(t) /\ Armed(t)' \in 0..2
    BY <2>2 DEF Armed
  <2> QED  BY <1>2, <1>3, <1>4, <2>1, <2>3, StepFinite, OwedElsewhere
<1>6. CASE StepOver(t)
  <2>1. UNCHANGED <<step_list, tpc, suspended_step>> /\ ~ tif'[t]
    BY <1>1, <1>6 DEF StepOver, taskVars
  <2>2. Armed(t)' <= Armed(t) /\ Armed(t)' \in 0..2
    BY <2>1 DEF Armed
  <2> QED  BY <1>2, <1>4, <2>1, <2>2, StepFinite, OwedElsewhere
<1>7. CASE StepHookStop(t)
  <2>1. PICK i \in 1..Len(step_list) : step_list[i].pid = t /\ step_list' = DeleteAt(i)
    BY <1>7 DEF StepHookStop, First, IndicesOfPid
  <2>2. /\ disabled[t] = {} \/ suspended_step[t]
        /\ tif[t] /\ ~ tif'[t] /\ tpc'[t] = "resume"
        /\ suspended_step'[t] <=> suspended_step[t] /\ disabled[t] = {}
    BY <1>1, <1>7 DEF StepHookStop, HookTrap
  <2>3. Armed(t)' = Armed(t) - 1
    BY <2>2 DEF Armed
  <2>4. ASSUME NEW u \in Tasks PROVE StepOwed(u)' /\ tpc'[u] # "sigtrap"
    <3>1. StepOwed(u) /\ tpc[u] # "sigtrap"
      BY DEF StepInv
    <3>2. /\ Cardinality(Asking(u)) \in Nat /\ Armed(u) \in 0..2 /\ Cardinality(IndicesOfPid(u)) \in Nat
      BY StepFinite
    <3>3. Cardinality(IndicesOfPid(u)') >= Cardinality(IndicesOfPid(u)) - (IF u = t THEN 1 ELSE 0)
      BY <2>1, DeleteCount
    <3>4. Armed(u)' = Armed(u) - (IF u = t THEN 1 ELSE 0)
      BY <1>4, <2>3, <3>2
    <3>5. Cardinality(IndicesOfPid(u)') \in Nat
      <4>1. step_list' \in Seq(Entries)
        BY <1>1, <2>1, DeleteType
      <4>2. IsFiniteSet(1..Len(step_list')) /\ IndicesOfPid(u)' \in SUBSET (1..Len(step_list'))
        BY <4>1, FS_Interval DEF IndicesOfPid
      <4> QED  BY <4>2, FS_Subset, FS_CardinalityType
    <3>6. Cardinality(Asking(u)') + Armed(u)' <= Cardinality(IndicesOfPid(u)')
      BY <1>2, <3>1, <3>2, <3>3, <3>4, <3>5 DEF StepOwed
    <3> QED  BY <1>3, <2>2, <3>1, <3>6 DEF StepOwed
  <2>5. \A j \in 1..Len(step_list') : ~ step_list'[j].removed
    BY <1>1, <2>1, DeleteKeeps DEF StepInv
  <2> QED  BY <2>4, <2>5 DEF StepInv
<1>8. ~ StepHookRemoved(t)
  BY DEF StepHookRemoved, First, IndicesOfPid, StepInv
<1>9. ~ StepHookNone(t)
  <2> SUFFICES ASSUME StepHookNone(t) PROVE FALSE
    OBVIOUS
  <2>1. IndicesOfPid(t) = {} /\ tif[t] /\ (disabled[t] = {} \/ suspended_step[t])
    BY DEF StepHookNone, HookTrap
  <2>2. Cardinality(IndicesOfPid(t)) = 0
    BY <2>1, FS_EmptySet
  <2>3. Armed(t) >= 1
    BY <2>1 DEF Armed
  <2>4. Cardinality(Asking(t)) + Armed(t) <= Cardinality(IndicesOfPid(t))
    BY DEF StepInv, StepOwed
  <2> QED  BY <2>2, <2>3, <2>4, StepFinite
<1> QED  BY <1>5, <1>6, <1>7, <1>8, <1>9 DEF StepTrap

\* The way back to user mode and the end of a target keep StepInv.
LEMMA StepResume ==
    ASSUME TypeInv, StepInv, ~ SomeClosed, NEW t \in Tasks,
           Resume(t) \/ TouchFreed(t) \/ Exit(t)
    PROVE  StepInv'
<1>1. UNCHANGED <<step_list, cpc, cfile, target_task, tif, suspended_step, disabled>>
  BY DEF Resume, RunWork, PollIn, WaitDone, UnPoll, Clear, ReturnToUser, TouchFreed, Exit, fileVars,
     clientVars, callerVars, debugVars
<1>2. \A u \in Tasks : tpc'[u] = "sigtrap" => tpc[u] = "sigtrap"
  BY DEF Resume, RunWork, PollIn, WaitDone, UnPoll, Clear, ReturnToUser, TouchFreed, Exit, AfterStep,
     TypeInv, TypeOK
<1>3. \A u \in Tasks : Asking(u)' = Asking(u) /\ Armed(u)' = Armed(u)
  BY <1>1 DEF Asking, Armed
<1> QED  BY <1>1, <1>2, <1>3, StepFinite, OwedElsewhere

\* Every step keeps StepInv.
LEMMA StepNext == TypeInv /\ StepInv /\ [Next]_vars => StepInv'
<1> SUFFICES ASSUME TypeInv, StepInv, [Next]_vars PROVE StepInv'
  OBVIOUS
<1>1. CASE SomeClosed \/ SomeClosed'
  BY <1>1, ClosedStays DEF StepInv
<1>2. CASE ~ SomeClosed /\ ~ SomeClosed'
  <2>1. TypeInv'
    BY TypeNext
  <2>2. CASE UNCHANGED vars
    <3>1. UNCHANGED <<step_list, cpc, cfile, target_task, tif, suspended_step, disabled, tpc>>
      BY <2>2 DEF vars, fileVars, targetVars, taskVars, debugVars, clientVars, callerVars
    <3>2. \A u \in Tasks : Asking(u)' = Asking(u) /\ Armed(u)' = Armed(u)
      BY <3>1 DEF Asking, Armed
    <3> QED  BY <1>2, <3>1, <3>2, StepFinite, OwedElsewhere
  <2>3. ASSUME NEW f \in Files, Release(f) PROVE SomeClosed
    BY <2>3 DEF Release, ReleaseContinue, ReleaseMark, ReleaseUnregister, ReleaseFree, SomeClosed
  <2> QED  BY <1>2, <2>1, <2>2, <2>3, StepClient, StepTraps, StepResume DEF Next
<1> QED  BY <1>1, <1>2

\* StepInv holds initially.
LEMMA StepInit == Init => StepInv
<1> SUFFICES ASSUME Init, NEW t \in Tasks PROVE StepOwed(t)
  BY DEF Init, StepInv
<1>1. Asking(t) = {} /\ IndicesOfPid(t) = {}
  BY DEF Init, Asking, IndicesOfPid
<1>2. Armed(t) = 0
  BY DEF Init, Armed
<1>3. Cardinality({}) = 0
  BY FS_EmptySet
<1> QED  BY <1>1, <1>2, <1>3 DEF StepOwed

\* SigtrapOnlyAfterClose, for any number of client threads that ask for single
\* steps: every step trap that reaches rwmem_bp_step_handler finds its entry,
\* so no debugged target is sent SIGTRAP before a handle is closed.
THEOREM StepsFindEntries == Spec => []SigtrapOnlyAfterClose
<1>1. Init => TypeInv /\ StepInv
  BY TypeInit, StepInit
<1>2. (TypeInv /\ StepInv) /\ [Next]_vars => (TypeInv /\ StepInv)'
  BY TypeNext, StepNext
<1>3. StepInv => SigtrapOnlyAfterClose
  BY DEF StepInv, SigtrapOnlyAfterClose
<1> QED  BY <1>1, <1>2, <1>3, PTL DEF Spec

=============================================================================
