-------------------------- MODULE RwMemBpDocProofs --------------------------
(***************************************************************************)
(* Proofs about RwMemBp when its clients follow the documented sequence:   *)
(* they act on a stop only after they were notified of it.                 *)
(***************************************************************************)
EXTENDS RwMemBpProofs

\* The handle is known to the client and its release has not begun.
Early(f) == life[f] \in {"none", "adding", "open", "closing"}

AtWait(f) == \E t \in Tasks : cur[t] = f /\ tpc[t] = "wait"

Resuming(c, f) == cpc[c] \in ResumePcs /\ cfile[c] = f

Reading(c, f) == cpc[c] = "regs" /\ cfile[c] = f

\* No permission to resume the target of f is around: neither asked for nor
\* being asked for.
NoRequest(f) == ~ continue_flag[f] /\ \A c \in Callers : ~ Resuming(c, f)

\* One permission to resume the target exists for each of its stops.  It is
\* born as EPOLLIN when the target enters wait_event, passes to the thread that
\* consumes the notification, then to the call in flight, and ends as
\* continue_flag, which the target consumes.
TokenOf(f) ==
    /\ poll[f] => AtWait(f) /\ NoRequest(f) /\ notified[f] = None
    /\ notified[f] # None => life[f] = "open" /\ AtWait(f) /\ NoRequest(f)
    /\ \A c \in Callers : Resuming(c, f) =>
          /\ AtWait(f)
          /\ ~ continue_flag[f]
          /\ \A d \in Callers : Resuming(d, f) => d = c
    /\ continue_flag[f] =>
          \E t \in Tasks : cur[t] = f /\ tpc[t] \in {"wait", "unpoll", "clear"}
    /\ \A t \in Tasks :
          cur[t] = f /\ tpc[t] \in {"unpoll", "clear"} => continue_flag[f]
    /\ \A c \in Callers : Reading(c, f) =>
          /\ AtWait(f) /\ NoRequest(f) /\ ~ poll[f]
          /\ notified[f] \in {c, None}
          /\ life[f] = "open" => notified[f] = c

TokenInv == \A f \in Files : Early(f) => TokenOf(f)

-----------------------------------------------------------------------------

\* The token of a handle depends only on its own flags, on the calls on it
\* and on the tasks inside its bp_callback_after.
LEMMA TokenFrame ==
    ASSUME NEW f \in Files, TokenOf(f),
           poll'[f] = poll[f], notified'[f] = notified[f],
           continue_flag'[f] = continue_flag[f],
           life'[f] = "open" <=> life[f] = "open",
           \A c \in Callers : /\ Resuming(c, f)' <=> Resuming(c, f)
                              /\ Reading(c, f)' <=> Reading(c, f),
           \A t \in Tasks : \A pc \in {"wait", "unpoll", "clear"} :
               (cur'[t] = f /\ tpc'[t] = pc) <=> (cur[t] = f /\ tpc[t] = pc)
    PROVE  TokenOf(f)'
<1>1. /\ AtWait(f)' <=> AtWait(f)
      /\ NoRequest(f)' <=> NoRequest(f)
  BY DEF AtWait, NoRequest
<1> QED
  BY <1>1 DEF TokenOf

\* No token exists initially.
LEMMA TokenInit == Init => TokenInv
  BY NoneAssumption DEF Init, TokenInv, TokenOf, Resuming, Reading, ResumePcs

\* Client threads pass the token on.
LEMMA TokenClient ==
    ASSUME Inv, DocumentedUse, TokenInv,
           NEW c \in Callers,
           \/ \E f \in Files : ClientStart(c, f)
           \/ ClientRest(c)
           \/ WaitCancel(c)
    PROVE  TokenInv'
<1> USE NoneAssumption DEF Inv, TypeInv, TypeOK, CallsOK, TasksOK, AddPcs,
        ResumePcs, UsePcs, StopPcs, vars, fileVars, flagVars, taskVars,
        debugVars, targetVars, callerVars, clientVars,
        Early, Resuming, Reading, Enter, Return, Goto, AfterStep
<1> SUFFICES ASSUME NEW g \in Files, Early(g)' PROVE TokenOf(g)'
  BY DEF TokenInv
<1>1. ASSUME NEW f \in Files, NEW t \in Tasks, NEW k \in Kinds,
             AddBp(c, f, t, k)
      PROVE  TokenOf(g)'
  BY <1>1 DEF AddBp, TokenInv, TokenOf, AtWait, NoRequest
<1>2. ASSUME NEW f \in Files, Continue(c, f)
      PROVE  TokenOf(g)'
  BY <1>2 DEF Continue, TokenInv, TokenOf, AtWait, NoRequest, MayAct
<1>3. ASSUME NEW f \in Files, Step(c, f)
      PROVE  TokenOf(g)'
  BY <1>3 DEF Step, TokenInv, TokenOf, AtWait, NoRequest, MayAct
<1>4. ASSUME NEW f \in Files, Regs(c, f)
      PROVE  TokenOf(g)'
  BY <1>4 DEF Regs, TokenInv, TokenOf, AtWait, NoRequest, MayAct
<1>5. ASSUME NEW f \in Files, Poll(c, f)
      PROVE  TokenOf(g)'
  BY <1>5 DEF Poll, SetPoll, TokenInv, TokenOf, AtWait, NoRequest
<1>6. ASSUME NEW f \in Files, WaitAdd(c, f)
      PROVE  TokenOf(g)'
  BY <1>6 DEF WaitAdd, SetPoll, TokenInv, TokenOf, AtWait, NoRequest
<1>7. ASSUME NEW f \in Files, Close(c, f)
      PROVE  TokenOf(g)'
  BY <1>7 DEF Close, TokenInv, TokenOf, AtWait, NoRequest
<1>8. CASE AddBpPerf(c)
  BY <1>8 DEF AddBpPerf, TokenInv, TokenOf, AtWait, NoRequest
<1>9. CASE AddBpFail(c)
  BY <1>9 DEF AddBpFail, PutTask, TokenInv, TokenOf, AtWait, NoRequest
<1>10. CASE AddBpAssign(c)
  BY <1>10 DEF AddBpAssign, AssignTask, TokenInv, TokenOf, AtWait, NoRequest
<1>11. CASE ContinueSet(c)
  BY <1>11 DEF ContinueSet, TokenInv, TokenOf, AtWait, NoRequest
<1>12. CASE StepList(c)
  BY <1>12 DEF StepList, ListAdd, TokenInv, TokenOf, AtWait, NoRequest
<1>13. CASE StepTest(c)
  BY <1>13 DEF StepTest, StepMode, TokenInv, TokenOf, AtWait, NoRequest
<1>14. CASE StepSuspend(c)
  BY <1>14 DEF StepSuspend, TokenInv, TokenOf, AtWait, NoRequest
<1>15. CASE StepEnable(c)
  BY <1>15 DEF StepEnable, TokenInv, TokenOf, AtWait, NoRequest
<1>16. CASE RegsDone(c)
  BY <1>16 DEF RegsDone, TokenInv, TokenOf, AtWait, NoRequest
<1>17. CASE WaitSend(c)
  <2>0. PICK f \in Files : f = cfile[c]
    BY <1>17 DEF WaitSend
  <2>1. /\ UNCHANGED <<life, continue_flag, cur, tpc>>
        /\ \A d \in Callers : \A h \in Files :
              /\ Resuming(d, h)' <=> Resuming(d, h)
              /\ Reading(d, h)' <=> Reading(d, h)
    BY <1>17 DEF WaitSend
  <2>2. TokenOf(g) /\ life[f] = "open" /\ poll[f] \in BOOLEAN
    BY <1>17, <2>0, <2>1 DEF WaitSend, TokenInv
  <2>3. CASE g # f
    <3>1. poll'[g] = poll[g] /\ notified'[g] = notified[g]
      BY <1>17, <2>0, <2>3 DEF WaitSend, SetPoll
    <3> HIDE DEF Resuming, Reading
    <3> QED
      BY <2>1, <2>2, <3>1, TokenFrame
  <2>4. CASE g = f /\ ~ poll[f]
    <3>1. poll'[g] = poll[g] /\ notified'[g] = notified[g]
      BY <1>17, <2>0, <2>2, <2>4 DEF WaitSend, SetPoll
    <3> HIDE DEF Resuming, Reading
    <3> QED
      BY <2>1, <2>2, <3>1, TokenFrame
  <2>5. CASE g = f /\ poll[f]
    <3>1. poll'[f] = FALSE /\ notified'[f] = c
      BY <1>17, <2>0, <2>5 DEF WaitSend, SetPoll
    <3>2. AtWait(f) /\ NoRequest(f)
          /\ \A d \in Callers : ~ Reading(d, f)
      BY <2>2, <2>5 DEF TokenOf
    <3>3. AtWait(f)' /\ NoRequest(f)'
          /\ \A d \in Callers : ~ Reading(d, f)' /\ ~ Resuming(d, f)'
      BY <2>1, <3>2 DEF AtWait, NoRequest
    <3> HIDE DEF Resuming, Reading
    <3> QED
      BY <2>1, <2>2, <2>5, <3>1, <3>3 DEF TokenOf, NoRequest
  <2> QED
    BY <2>3, <2>4, <2>5
<1>18. CASE WaitCancel(c)
  BY <1>18 DEF WaitCancel, TokenInv, TokenOf, AtWait, NoRequest
<1> QED
  BY KindsKnown, <1>1, <1>2, <1>3, <1>4, <1>5, <1>6, <1>7, <1>8, <1>9,
     <1>10, <1>11, <1>12, <1>13, <1>14, <1>15, <1>16, <1>17, <1>18 DEF
        ClientStart, ClientRest

\* The release ends the life of the token.
LEMMA TokenRelease ==
    ASSUME Inv, DocumentedUse, TokenInv,
           NEW f \in Files, Release(f)
    PROVE  TokenInv'
<1> USE NoneAssumption DEF Inv, TypeInv, TypeOK, CallsOK, TasksOK, AddPcs,
        ResumePcs, UsePcs, StopPcs, vars, fileVars, flagVars, taskVars,
        debugVars, targetVars, callerVars, clientVars,
        Early, Resuming, Reading, Enter, Return, Goto, AfterStep
<1> SUFFICES ASSUME NEW g \in Files, Early(g)' PROVE TokenOf(g)'
  BY DEF TokenInv
<1>1. CASE ReleaseContinue(f)
  BY <1>1 DEF ReleaseContinue, InFlight, TokenInv, TokenOf, AtWait, NoRequest
<1>2. CASE ReleaseMark(f)
  BY <1>2 DEF ReleaseMark, TokenInv, TokenOf, AtWait, NoRequest
<1>3. CASE ReleaseUnregister(f)
  BY <1>3 DEF ReleaseUnregister, TokenInv, TokenOf, AtWait, NoRequest
<1>4. CASE ReleaseFree(f)
  BY <1>4 DEF ReleaseFree, TokenInv, TokenOf, AtWait, NoRequest
<1> QED
  BY <1>1, <1>2, <1>3, <1>4 DEF Release

\* A debug exception does not concern it.
LEMMA TokenTrap ==
    ASSUME Inv, DocumentedUse, TokenInv,
           NEW t \in Tasks,
           \/ \E k \in Kinds, H \in SUBSET Files : Hit(t, k, H)
           \/ StepTrap(t)
           \/ Exit(t)
    PROVE  TokenInv'
<1> USE NoneAssumption DEF Inv, TypeInv, TypeOK, CallsOK, TasksOK, AddPcs,
        ResumePcs, UsePcs, StopPcs, vars, fileVars, flagVars, taskVars,
        debugVars, targetVars, callerVars, clientVars,
        Early, Resuming, Reading, Enter, Return, Goto, AfterStep
<1> SUFFICES ASSUME NEW g \in Files, Early(g)' PROVE TokenOf(g)'
  BY DEF TokenInv
<1>1. ASSUME NEW k \in Kinds, NEW H \in SUBSET Files, Hit(t, k, H)
      PROVE  TokenOf(g)'
  BY <1>1 DEF Hit, ArmedOn, TokenInv, TokenOf, AtWait, NoRequest
<1>2. CASE StepOver(t)
  BY <1>2 DEF StepOver, TokenInv, TokenOf, AtWait, NoRequest
<1>3. CASE StepHookStop(t)
  BY <1>3 DEF StepHookStop, HookTrap, TokenInv, TokenOf, AtWait, NoRequest
<1>4. CASE StepHookRemoved(t)
  BY <1>4 DEF StepHookRemoved, HookTrap, TokenInv, TokenOf, AtWait, NoRequest
<1>5. CASE StepHookNone(t)
  BY <1>5 DEF StepHookNone, HookTrap, TokenInv, TokenOf, AtWait, NoRequest
<1>6. CASE Exit(t)
  BY <1>6 DEF Exit, TokenInv, TokenOf, AtWait, NoRequest
<1> QED
  BY <1>1, <1>2, <1>3, <1>4, <1>5, <1>6 DEF StepTrap

\* bp_callback_after creates and consumes it.
LEMMA TokenResume ==
    ASSUME Inv, DocumentedUse, TokenInv,
           NEW t \in Tasks,
           Resume(t) \/ TouchFreed(t)
    PROVE  TokenInv'
<1> USE NoneAssumption DEF Inv, TypeInv, TypeOK, CallsOK, TasksOK, AddPcs,
        ResumePcs, UsePcs, StopPcs, vars, fileVars, flagVars, taskVars,
        debugVars, targetVars, callerVars, clientVars,
        Early, Resuming, Reading, Enter, Return, Goto, AfterStep
<1> SUFFICES ASSUME NEW g \in Files, Early(g)' PROVE TokenOf(g)'
  BY DEF TokenInv
<1>1. ASSUME NEW f \in Files, RunWork(t, f)
      PROVE  TokenOf(g)'
  BY <1>1 DEF RunWork, TokenInv, TokenOf, AtWait, NoRequest
<1>2. CASE PollIn(t)
  <2>0. PICK f \in Files : f = cur[t]
    BY <1>2 DEF PollIn
  <2>1. \A u \in Tasks : Live(f) /\ Stopping(u, f) => u = t
    BY <1>2, <2>0 DEF PollIn, OwnInv, StopBelongs, Stopping
  <2>2. CASE g = f
    <3>1. TokenOf(f) /\ \A u \in Tasks : cur[u] = f => tpc[u] \notin
             {"wait", "unpoll", "clear"}
      BY <1>2, <2>0, <2>1, <2>2 DEF PollIn, TokenInv, Live, Stopping
    <3>2. ~ AtWait(f) /\ ~ continue_flag[f]
      BY <3>1 DEF AtWait, TokenOf
    <3>3. notified[f] = None
          /\ \A c \in Callers : ~ Resuming(c, f) /\ ~ Reading(c, f)
      BY <3>1, <3>2 DEF TokenOf
    <3>4. AtWait(f)'
      BY <1>2, <2>0 DEF PollIn, AtWait
    <3>5. UNCHANGED <<cpc, cfile, notified, continue_flag, cur>>
      BY <1>2 DEF PollIn
    <3>6. \A u \in Tasks : cur'[u] = f => tpc'[u] \notin {"unpoll", "clear"}
      BY <1>2, <3>1 DEF PollIn
    <3>7. NoRequest(f)' /\ ~ continue_flag'[f] /\ notified'[f] = None
          /\ \A c \in Callers : ~ Resuming(c, f)' /\ ~ Reading(c, f)'
      BY <3>2, <3>3, <3>5 DEF NoRequest
    <3> HIDE DEF Resuming, Reading
    <3> QED
      BY <2>2, <3>4, <3>6, <3>7 DEF TokenOf
  <2>3. CASE g # f
    BY <1>2, <2>0, <2>1, <2>3, TokenFrame DEF PollIn, SetPoll, TokenInv
  <2> QED
    BY <2>2, <2>3
<1>3. CASE WaitDone(t)
  BY <1>3 DEF WaitDone, ContinueSeen, TokenInv, TokenOf, AtWait, NoRequest
<1>4. CASE UnPoll(t)
  BY <1>4 DEF UnPoll, SetPoll, TokenInv, TokenOf, AtWait, NoRequest
<1>5. CASE Clear(t)
  <2>0. PICK f \in Files : f = cur[t]
    BY <1>5 DEF Clear
  <2>1. \A u \in Tasks : Live(f) /\ Stopping(u, f) => u = t
    BY <1>5, <2>0 DEF Clear, OwnInv, StopBelongs, Stopping
  <2>2. CASE g = f
    <3>1. \A u \in Tasks : cur'[u] = g => tpc'[u] \notin StopPcs
      BY <1>5, <2>0, <2>1, <2>2 DEF Clear, Live, Stopping
    <3>2. TokenOf(f) /\ continue_flag[f] /\ ~ continue_flag'[f]
      BY <1>5, <2>0, <2>1, <2>2 DEF Clear, ResetFlags, TokenInv, TokenOf
    <3>3. ~ poll[f] /\ notified[f] = None
          /\ \A c \in Callers : ~ Resuming(c, f) /\ ~ Reading(c, f)
      BY <3>2 DEF TokenOf, NoRequest
    <3> QED
      BY <1>5, <2>2, <3>1, <3>2, <3>3 DEF Clear, TokenOf
  <2>3. CASE g # f
    BY <1>5, <2>0, <2>1, <2>3, TokenFrame DEF Clear, ResetFlags, TokenInv
  <2> QED
    BY <2>2, <2>3
<1>6. CASE ReturnToUser(t)
  BY <1>6 DEF ReturnToUser, TokenInv, TokenOf, AtWait, NoRequest
<1>7. CASE TouchFreed(t)
  BY <1>7 DEF TouchFreed, TokenInv, TokenOf, AtWait, NoRequest
<1> QED
  BY <1>1, <1>2, <1>3, <1>4, <1>5, <1>6, <1>7 DEF Resume

\* The token invariant is inductive.
LEMMA TokenNext ==
    ASSUME DocumentedUse
    PROVE  Inv /\ TokenInv /\ [Next]_vars => TokenInv'
<1> SUFFICES ASSUME Inv, TokenInv, [Next]_vars PROVE TokenInv'
  OBVIOUS
<1>1. CASE UNCHANGED vars
  BY <1>1 DEF TokenInv, TokenOf, Early, AtWait, NoRequest, Resuming, Reading,
     vars, fileVars, flagVars, taskVars, targetVars, callerVars, clientVars
<1>2. CASE Next
  BY <1>2, TokenClient, TokenRelease, TokenTrap, TokenResume DEF Next
<1> QED
  BY <1>1, <1>2

\* The token invariant holds throughout the documented use.
LEMMA TokenInvariance ==
    ASSUME DocumentedUse
    PROVE  Spec => [](Inv /\ TokenInv)
<1>1. Init => TokenInv
  BY TokenInit
<1>2. Inv /\ TokenInv /\ [Next]_vars => TokenInv'
  BY TokenNext
<1> QED
  BY <1>1, <1>2, Invariance, PTL DEF Spec

\* A request to continue never outlives the stop it was made for, so that
\* every hit suspends the target.
THEOREM ContinueNeverStale ==
    ASSUME DocumentedUse
    PROVE  Spec => []NoStaleContinue
<1>1. Inv /\ TokenInv => NoStaleContinue
  BY DEF TokenInv, TokenOf, Early, NoStaleContinue, Stopping
<1> QED
  BY <1>1, TokenInvariance, PTL

\* Register accesses find the target asleep in wait_event, although the code
\* tests stopped_flag without the lock.
THEOREM RegistersOfStoppedTask ==
    ASSUME DocumentedUse
    PROVE  Spec => []RegAccessWhileStopped
<1>1. Inv /\ TokenInv => RegAccessWhileStopped
  <2> SUFFICES ASSUME Inv, TokenInv, NEW c \in Callers, cpc[c] = "regs"
               PROVE  \E t \in Tasks : cur[t] = cfile[c] /\ tpc[t] = "wait"
    BY DEF RegAccessWhileStopped
  <2>1. cfile[c] \in Files /\ Early(cfile[c]) /\ Reading(c, cfile[c])
    BY DEF Inv, TypeInv, CallsOK, UsePcs, Early, Reading
  <2>2. AtWait(cfile[c])
    BY <2>1 DEF TokenInv, TokenOf
  <2> QED
    BY <2>2 DEF AtWait
<1> QED
  BY <1>1, TokenInvariance, PTL

-----------------------------------------------------------------------------
(* The handles implement BpHandle.                                         *)

\* The requests of the abstract handle.
Asked(f) == life[f] \in {"adding", "open"} /\ continue_flag[f]

\* A step that changes neither the life nor the flags of a handle, as far as
\* its client can tell, is invisible to the abstract handle.
LEMMA HandleStutter ==
    ASSUME \A f \in Files : HandleState(f)' = HandleState(f)
                            /\ Asked(f)' = Asked(f)
    PROVE  UNCHANGED Handle!hvars
<1>1. [f \in Files |-> HandleState(f)]' = [f \in Files |-> HandleState(f)]
  OBVIOUS
<1>2. [f \in Files |-> Asked(f)]' = [f \in Files |-> Asked(f)]
  OBVIOUS
<1> QED
  BY <1>1, <1>2 DEF Handle!hvars, Asked

\* A step that changes one handle updates the abstract state at that handle.
LEMMA HandleUpdate ==
    ASSUME NEW f \in Files, NEW s, NEW a,
           \A g \in Files :
               /\ HandleState(g)' = IF g = f THEN s ELSE HandleState(g)
               /\ Asked(g)' = IF g = f THEN a ELSE Asked(g)
    PROVE  /\ [g \in Files |-> HandleState(g)]' =
                 [[g \in Files |-> HandleState(g)] EXCEPT ![f] = s]
           /\ [g \in Files |-> Asked(g)]' =
                 [[g \in Files |-> Asked(g)] EXCEPT ![f] = a]
  OBVIOUS

\* A handle that stops no task has both flags clear.
LEMMA QuietHandle ==
    ASSUME Inv, TokenInv, NEW f \in Files, Early(f),
           \A u \in Tasks : ~ Stopping(u, f)
    PROVE  ~ stopped_flag[f] /\ ~ continue_flag[f]
<1>1. ~ stopped_flag[f]
  BY DEF Inv, FlagInv, StoppedSound, Live, Early
<1>2. TokenOf(f)
  BY DEF TokenInv
<1>3. ~ continue_flag[f]
  BY <1>2 DEF TokenOf, Stopping
<1> QED
  BY <1>1, <1>3

\* Opening a handle.
LEMMA HandleOpen ==
    ASSUME Inv, TokenInv, NEW c \in Callers, NEW f \in Files, NEW t \in Tasks,
           NEW k \in Kinds, AddBp(c, f, t, k)
    PROVE  Handle!Open(f)
<1>1. \A u \in Tasks : ~ Stopping(u, f)
  BY NoneAssumption DEF AddBp, Inv, OwnInv, FilesOwned, StopBelongs, Target, Live
<1>2. ~ stopped_flag[f] /\ ~ continue_flag[f]
  BY <1>1, QuietHandle DEF AddBp, Early
<1>3. HandleState(f) = "none" /\ HandleState(f)' = "armed"
      /\ Asked(f) = FALSE /\ Asked(f)' = FALSE
  BY <1>2 DEF AddBp, HandleState, Asked, Inv, TypeInv, TypeOK, flagVars
<1>4. \A g \in Files \ {f} :
         HandleState(g)' = HandleState(g) /\ Asked(g)' = Asked(g)
  BY DEF AddBp, HandleState, Asked, Inv, TypeInv, TypeOK, flagVars
<1>5. /\ [g \in Files |-> HandleState(g)]' =
            [[g \in Files |-> HandleState(g)] EXCEPT ![f] = "armed"]
      /\ [g \in Files |-> Asked(g)]' =
            [[g \in Files |-> Asked(g)] EXCEPT ![f] = FALSE]
  BY <1>3, <1>4, HandleUpdate
<1> QED
  BY <1>3, <1>5 DEF Handle!Open, Handle!Become, Asked

\* Closing a handle, or the failure of IOCTL_ADD_BP.
LEMMA HandleClose ==
    ASSUME Inv, NEW f \in Files, life[f] \in {"adding", "open"},
           life' = [life EXCEPT ![f] = "closing"],
           UNCHANGED <<stopped_flag, continue_flag>>
    PROVE  Handle!Close(f)
<1> USE DEF HandleState, Asked, Inv, TypeInv, TypeOK
<1>1. /\ HandleState(f) \in {"armed", "stopped"}
      /\ HandleState(f)' = "closed" /\ Asked(f)' = FALSE
  OBVIOUS
<1>2. \A g \in Files \ {f} :
         HandleState(g)' = HandleState(g) /\ Asked(g)' = Asked(g)
  OBVIOUS
<1>3. /\ [g \in Files |-> HandleState(g)]' =
            [[g \in Files |-> HandleState(g)] EXCEPT ![f] = "closed"]
      /\ [g \in Files |-> Asked(g)]' =
            [[g \in Files |-> Asked(g)] EXCEPT ![f] = FALSE]
  BY <1>1, <1>2, HandleUpdate
<1> QED
  BY <1>1, <1>3 DEF Handle!Close

\* The first critical section of bp_callback_after stops an armed handle.
LEMMA HandleStop ==
    ASSUME Inv, TokenInv, NEW t \in Tasks, NEW f \in Files, RunWork(t, f)
    PROVE  Handle!Stop(f) \/ UNCHANGED Handle!hvars
<1>1. UNCHANGED <<life, continue_flag>>
      /\ stopped_flag' = [stopped_flag EXCEPT ![f] = TRUE]
  BY DEF RunWork, fileVars
<1>2. \A g \in Files \ {f} :
         HandleState(g)' = HandleState(g) /\ Asked(g)' = Asked(g)
  BY <1>1 DEF HandleState, Asked, Inv, TypeInv, TypeOK
<1>3. CASE life[f] \in {"adding", "open"}
  <2>1. \A u \in Tasks : ~ Stopping(u, f)
    BY <1>3 DEF RunWork, AfterStep, Inv, OwnInv, StopBelongs, Live, Stopping
  <2>2. ~ stopped_flag[f] /\ ~ continue_flag[f]
    BY <1>3, <2>1, QuietHandle DEF Early
  <2>3. HandleState(f) = "armed" /\ HandleState(f)' = "stopped"
        /\ Asked(f) = FALSE /\ Asked(f)' = FALSE
    BY <1>1, <1>3, <2>2 DEF HandleState, Asked, Inv, TypeInv, TypeOK
  <2>4. /\ [g \in Files |-> HandleState(g)]' =
              [[g \in Files |-> HandleState(g)] EXCEPT ![f] = "stopped"]
        /\ [g \in Files |-> Asked(g)]' =
              [[g \in Files |-> Asked(g)] EXCEPT ![f] = FALSE]
    BY <1>2, <2>3, HandleUpdate
  <2> QED
    BY <2>3, <2>4 DEF Handle!Stop, Handle!Become, Asked
<1>4. CASE life[f] \notin {"adding", "open"}
  <2>1. HandleState(f)' = HandleState(f) /\ Asked(f)' = Asked(f)
    BY <1>1, <1>4 DEF HandleState, Asked
  <2> QED
    BY <1>2, <2>1, HandleStutter
<1> QED
  BY <1>3, <1>4

\* Setting continue_flag asks for the resumption of a stopped handle.
LEMMA HandleAsk ==
    ASSUME Inv, TokenInv, NEW c \in Callers, ContinueSet(c)
    PROVE  \/ \E f \in Files : Handle!Ask(f)
           \/ UNCHANGED Handle!hvars
<1>1. PICK f \in Files : f = cfile[c] /\ life[f] \in {"open", "closing"}
  BY DEF ContinueSet, Inv, TypeInv, CallsOK, UsePcs, ResumePcs
<1>2. UNCHANGED <<life, stopped_flag>>
      /\ continue_flag' = [continue_flag EXCEPT ![f] = TRUE]
  BY <1>1 DEF ContinueSet, fileVars
<1>3. \A g \in Files \ {f} :
         HandleState(g)' = HandleState(g) /\ Asked(g)' = Asked(g)
  BY <1>2 DEF HandleState, Asked, Inv, TypeInv, TypeOK
<1>4. CASE life[f] = "open"
  <2>1. TokenOf(f) /\ Resuming(c, f)
    BY <1>1 DEF TokenInv, Early, Resuming, ContinueSet, ResumePcs
  <2>2. AtWait(f)
    BY <2>1 DEF TokenOf
  <2>3. stopped_flag[f]
    BY <1>4, <2>2 DEF AtWait, Inv, FlagInv, StoppedSound, Stopping, Live
  <2>4. HandleState(f) = "stopped" /\ HandleState(f)' = "stopped"
        /\ Asked(f)' = TRUE
    BY <1>2, <1>4, <2>3 DEF HandleState, Asked, Inv, TypeInv, TypeOK
  <2>5. /\ [g \in Files |-> HandleState(g)]' =
              [[g \in Files |-> HandleState(g)] EXCEPT ![f] = "stopped"]
        /\ [g \in Files |-> Asked(g)]' =
              [[g \in Files |-> Asked(g)] EXCEPT ![f] = TRUE]
    BY <1>3, <2>4, HandleUpdate
  <2> QED
    BY <2>4, <2>5 DEF Handle!Ask, Asked
<1>5. CASE life[f] = "closing"
  <2>1. HandleState(f)' = HandleState(f) /\ Asked(f)' = Asked(f)
    BY <1>2, <1>5 DEF HandleState, Asked
  <2> QED
    BY <1>3, <2>1, HandleStutter
<1> QED
  BY <1>1, <1>4, <1>5

\* The last critical section of bp_callback_after answers the request.
LEMMA HandleResume ==
    ASSUME Inv, TokenInv, NEW t \in Tasks, Clear(t)
    PROVE  \/ \E f \in Files : Handle!Resume(f)
           \/ UNCHANGED Handle!hvars
<1>1. PICK f \in Files : f = cur[t]
  BY DEF Clear, AfterStep, Inv, TypeInv, TypeOK, TasksOK, StopPcs
<1>2. /\ UNCHANGED life
      /\ continue_flag' = [continue_flag EXCEPT ![f] = FALSE]
      /\ stopped_flag' = [stopped_flag EXCEPT ![f] = FALSE]
  BY <1>1 DEF Clear, ResetFlags, fileVars
<1>3. \A g \in Files \ {f} :
         HandleState(g)' = HandleState(g) /\ Asked(g)' = Asked(g)
  BY <1>2 DEF HandleState, Asked, Inv, TypeInv, TypeOK
<1>4. CASE life[f] \in {"adding", "open"}
  <2>1. continue_flag[f]
    BY <1>1, <1>4 DEF TokenInv, TokenOf, Early, Clear, AfterStep
  <2>2. stopped_flag[f]
    BY <1>1, <1>4 DEF Clear, AfterStep, Inv, FlagInv, StoppedSound, Stopping, Live
  <2>3. HandleState(f) = "stopped" /\ HandleState(f)' = "armed"
        /\ Asked(f) /\ Asked(f)' = FALSE
    BY <1>2, <1>4, <2>1, <2>2 DEF HandleState, Asked, Inv, TypeInv, TypeOK
  <2>4. /\ [g \in Files |-> HandleState(g)]' =
              [[g \in Files |-> HandleState(g)] EXCEPT ![f] = "armed"]
        /\ [g \in Files |-> Asked(g)]' =
              [[g \in Files |-> Asked(g)] EXCEPT ![f] = FALSE]
    BY <1>3, <2>3, HandleUpdate
  <2> QED
    BY <2>3, <2>4 DEF Handle!Resume, Handle!Become, Asked
<1>5. CASE life[f] \notin {"adding", "open"}
  <2>1. HandleState(f)' = HandleState(f) /\ Asked(f)' = Asked(f)
    BY <1>2, <1>5 DEF HandleState, Asked
  <2> QED
    BY <1>3, <2>1, HandleStutter
<1> QED
  BY <1>4, <1>5

\* The steps that the client cannot tell from no step at all.
LEMMA HandleInvisible ==
    ASSUME Inv,
           \/ UNCHANGED <<life, stopped_flag, continue_flag>>
           \/ \E c \in Callers : AddBpAssign(c)
           \/ \E f \in Files : Release(f)
    PROVE  UNCHANGED Handle!hvars
<1> USE DEF HandleState, Asked
<1>1. CASE UNCHANGED <<life, stopped_flag, continue_flag>>
  BY <1>1, HandleStutter
<1>2. ASSUME NEW c \in Callers, AddBpAssign(c)
      PROVE  UNCHANGED Handle!hvars
  <2>1. cfile[c] \in Files /\ life[cfile[c]] = "adding"
    BY <1>2 DEF AddBpAssign, Inv, TypeInv, CallsOK, AddPcs
  <2> QED
    BY <1>2, <2>1, HandleStutter DEF AddBpAssign, flagVars, Inv, TypeInv, TypeOK
<1>3. ASSUME NEW f \in Files, Release(f)
      PROVE  UNCHANGED Handle!hvars
  BY <1>3, HandleStutter DEF Release, ReleaseContinue, ReleaseMark,
     ReleaseUnregister, ReleaseFree, flagVars, Inv, TypeInv, TypeOK
<1> QED
  BY <1>1, <1>2, <1>3

\* Every step of the model is a step of some abstract handle, or none.
LEMMA HandleNext ==
    ASSUME Inv, TokenInv, [Next]_vars
    PROVE  [Handle!Next]_(Handle!hvars)
<1> USE DEF fileVars, flagVars
<1>1. CASE UNCHANGED vars
  BY <1>1, HandleInvisible DEF vars
<1>2. ASSUME NEW c \in Callers, NEW f \in Files, ClientStart(c, f)
      PROVE  [Handle!Next]_(Handle!hvars)
  <2>1. ASSUME NEW t \in Tasks, NEW k \in Kinds, AddBp(c, f, t, k)
        PROVE  Handle!Next
    BY <2>1, HandleOpen DEF Handle!Next
  <2>2. CASE Close(c, f)
    BY <2>2, HandleClose DEF Close, Handle!Next
  <2>3. CASE Continue(c, f) \/ Step(c, f) \/ Regs(c, f) \/ Poll(c, f)
               \/ WaitAdd(c, f)
    BY <2>3, HandleInvisible DEF Continue, Step, Regs, Poll, WaitAdd
  <2> QED
    BY KindsKnown, <1>2, <2>1, <2>2, <2>3 DEF ClientStart
<1>3. ASSUME NEW c \in Callers, ClientRest(c) \/ WaitCancel(c)
      PROVE  [Handle!Next]_(Handle!hvars)
  <2>1. CASE AddBpFail(c)
    <3>1. cfile[c] \in Files /\ life[cfile[c]] = "adding"
      BY <2>1 DEF AddBpFail, Inv, TypeInv, CallsOK, AddPcs
    <3> QED
      BY <2>1, <3>1, HandleClose DEF AddBpFail, Handle!Next
  <2>2. CASE ContinueSet(c)
    BY <2>2, HandleAsk DEF Handle!Next
  <2>3. CASE AddBpAssign(c)
    BY <2>3, HandleInvisible
  <2>4. CASE \/ AddBpPerf(c) \/ StepList(c) \/ StepTest(c) \/ StepSuspend(c)
             \/ StepEnable(c) \/ RegsDone(c) \/ WaitSend(c) \/ WaitCancel(c)
    BY <2>4, HandleInvisible DEF AddBpPerf, StepList, StepTest, StepSuspend,
       StepEnable, RegsDone, WaitSend, WaitCancel
  <2> QED
    BY <1>3, <2>1, <2>2, <2>3, <2>4 DEF ClientRest
<1>4. ASSUME NEW f \in Files, Release(f)
      PROVE  [Handle!Next]_(Handle!hvars)
  BY <1>4, HandleInvisible
<1>5. ASSUME NEW t \in Tasks,
             \/ \E k \in Kinds, H \in SUBSET Files : Hit(t, k, H)
             \/ StepTrap(t)
             \/ Exit(t)
             \/ TouchFreed(t)
      PROVE  [Handle!Next]_(Handle!hvars)
  BY <1>5, HandleInvisible DEF Hit, StepTrap, StepOver, StepHookStop,
     StepHookRemoved, StepHookNone, Exit, TouchFreed
<1>6. ASSUME NEW t \in Tasks, Resume(t)
      PROVE  [Handle!Next]_(Handle!hvars)
  <2>1. ASSUME NEW f \in Files, RunWork(t, f)
        PROVE  [Handle!Next]_(Handle!hvars)
    BY <2>1, HandleStop DEF Handle!Next
  <2>2. CASE Clear(t)
    BY <2>2, HandleResume DEF Handle!Next
  <2>3. CASE PollIn(t) \/ WaitDone(t) \/ UnPoll(t) \/ ReturnToUser(t)
    BY <2>3, HandleInvisible DEF PollIn, WaitDone, UnPoll, ReturnToUser
  <2> QED
    BY <1>6, <2>1, <2>2, <2>3 DEF Resume
<1> QED
  BY <1>1, <1>2, <1>3, <1>4, <1>5, <1>6 DEF Next

\* The initial states are those of the abstract handles.
LEMMA HandleInit == Init => Handle!Init
  BY DEF Init, Handle!Init, HandleState

\* Under the documented use the detailed specification implements BpHandle:
\* every hit stops the target, a stopped target runs only when asked, and each
\* request is answered once.
THEOREM HandleRefinement ==
    ASSUME DocumentedUse
    PROVE  Spec => HandlePromise
<1>1. Init => Handle!Init
  BY HandleInit
<1>2. Inv /\ TokenInv /\ [Next]_vars => [Handle!Next]_(Handle!hvars)
  BY HandleNext
<1> QED
  BY <1>1, <1>2, TokenInvariance, PTL DEF Spec, HandlePromise, Handle!Spec

=============================================================================
