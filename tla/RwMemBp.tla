------------------------------ MODULE RwMemBp ------------------------------
(***************************************************************************)
(* Remote hardware breakpoints of the rwMem kernel module (rwMem/bp.c and  *)
(* the IOCTL_ADD_BP case of rwMem/sys.c).                                  *)
(*                                                                         *)
(* A client process opens a breakpoint handle (an anonymous file) on a     *)
(* target task.  When the target runs into the breakpoint, the perf        *)
(* callback queues a task work; on its way back to user mode the target    *)
(* runs bp_callback_after, which publishes the stop and sleeps until a     *)
(* thread of the client sets continue_flag.  The client may also ask for a *)
(* single step: an entry in the global step_list tells the step hook which *)
(* handle the next step trap of a task belongs to.                         *)
(*                                                                         *)
(* Each place where the code takes or releases a lock, sleeps, or reads a  *)
(* flag it later acts on is a step of its own, so that client threads,     *)
(* targets and the release of a file interleave as they do in the kernel.  *)
(***************************************************************************)
EXTENDS Integers, Sequences, FiniteSets

CONSTANTS
    Files,          \* breakpoint handles that may ever be opened
    Tasks,          \* target tasks
    Callers,        \* client threads
    Kinds,          \* kinds of breakpoints: execution (BRP) and data (WRP) ones
                    \* are disabled and reinstalled separately by arm64
    KindsOf,        \* the kinds that clients may open each handle with
    None,           \* no file, no task or no thread
    MaxSteps,       \* bound on the length of step_list
    DocumentedUse   \* TRUE: clients follow the sequence of README.md and
                    \* librwmem/examples/test.rs (act only on a stop that they
                    \* were notified of); FALSE: any order of calls

ASSUME NoneAssumption == None \notin Files \cup Tasks \cup Callers
ASSUME FiniteAssumption == IsFiniteSet(Files) /\ IsFiniteSet(Callers)
ASSUME KindsAssumption == Kinds # {} /\ KindsOf \in [Files -> SUBSET Kinds]
ASSUME MaxStepsAssumption == MaxSteps \in Nat
ASSUME DocumentedUseAssumption == DocumentedUse \in BOOLEAN

VARIABLES
    \* struct rwmem_bp_private_data and the life of its struct file
    life, kind, perf, target_task, stopped_flag, continue_flag, poll,
    \* the global list of pending single steps, head first
    step_list,
    \* the target tasks: where each is in the kernel, the handle whose
    \* bp_callback_after it runs, its queued task works, TIF_SINGLESTEP, the
    \* debug_info of arch/arm64 and the references the module holds on it
    tpc, cur, work, tif, suspended_step, disabled, usage,
    \* the client threads: the call in flight, its file and task, the epoll
    \* ready list, and who holds the notification of a handle's stop
    cpc, cfile, ctask, ep_ready, notified

fileVars   == <<life, kind, perf, target_task>>
flagVars   == <<stopped_flag, continue_flag, poll>>
debugVars  == <<tif, suspended_step, disabled>>
taskVars   == <<tpc, cur, work>>
targetVars == <<taskVars, debugVars, usage>>
callerVars == <<cpc, cfile, ctask, ep_ready>>
clientVars == <<callerVars, notified>>
vars == <<fileVars, flagVars, step_list, targetVars, clientVars>>

Lives == {"none", "adding", "open", "closing", "r_mark", "r_unreg", "r_free",
          "freed"}
Gone == {"dead", "sigtrap", "oops"}
TaskPcs == {"user", "resume", "pollin", "wait", "unpoll", "clear"} \cup Gone
CallerPcs == {"idle", "add_perf", "add_assign", "cont_set", "step_list",
              "step_test", "step_susp", "step_enable", "regs", "ep_wait"}

Entries == [pid : Tasks, file : Files, removed : BOOLEAN]

TypeOK ==
    /\ life \in [Files -> Lives]
    /\ kind \in [Files -> Kinds]
    /\ perf \in [Files -> Tasks \cup {None}]
    /\ target_task \in [Files -> Tasks \cup {None}]
    /\ stopped_flag \in [Files -> BOOLEAN]
    /\ continue_flag \in [Files -> BOOLEAN]
    /\ poll \in [Files -> BOOLEAN]
    /\ step_list \in Seq(Entries)
    /\ tpc \in [Tasks -> TaskPcs]
    /\ cur \in [Tasks -> Files \cup {None}]
    /\ work \in [Tasks -> SUBSET Files]
    /\ tif \in [Tasks -> BOOLEAN]
    /\ suspended_step \in [Tasks -> BOOLEAN]
    /\ disabled \in [Tasks -> SUBSET Kinds]
    /\ usage \in [Tasks -> Int]
    /\ cpc \in [Callers -> CallerPcs]
    /\ cfile \in [Callers -> Files \cup {None}]
    /\ ctask \in [Callers -> Tasks \cup {None}]
    /\ ep_ready \in [Callers -> BOOLEAN]
    /\ notified \in [Files -> Callers \cup {None}]

Init ==
    /\ life = [f \in Files |-> "none"]
    /\ kind = [f \in Files |-> CHOOSE k \in Kinds : TRUE]
    /\ perf = [f \in Files |-> None]
    /\ target_task = [f \in Files |-> None]
    /\ stopped_flag = [f \in Files |-> FALSE]
    /\ continue_flag = [f \in Files |-> FALSE]
    /\ poll = [f \in Files |-> FALSE]
    /\ step_list = <<>>
    /\ tpc = [t \in Tasks |-> "user"]
    /\ cur = [t \in Tasks |-> None]
    /\ work = [t \in Tasks |-> {}]
    /\ tif = [t \in Tasks |-> FALSE]
    /\ suspended_step = [t \in Tasks |-> FALSE]
    /\ disabled = [t \in Tasks |-> {}]
    /\ usage = [t \in Tasks |-> 0]
    /\ cpc = [c \in Callers |-> "idle"]
    /\ cfile = [c \in Callers |-> None]
    /\ ctask = [c \in Callers |-> None]
    /\ ep_ready = [c \in Callers |-> FALSE]
    /\ notified = [f \in Files |-> None]

-----------------------------------------------------------------------------
(* Client threads.  A call in flight holds a reference on its file.        *)

Enter(c, f, pc) ==
    /\ cpc[c] = "idle"
    /\ cpc' = [cpc EXCEPT ![c] = pc]
    /\ cfile' = [cfile EXCEPT ![c] = f]

Return(c) ==
    /\ cpc' = [cpc EXCEPT ![c] = "idle"]
    /\ cfile' = [cfile EXCEPT ![c] = None]

Goto(c, from, to) ==
    /\ cpc[c] = from
    /\ cpc' = [cpc EXCEPT ![c] = to]
    /\ UNCHANGED <<cfile, ctask, ep_ready>>

InFlight(f) == \E c \in Callers : cfile[c] = f

\* The client sequence of the README: wait for the stop, then act on it.
MayAct(c, f) == DocumentedUse => notified[f] = c

\* Updates shared by several steps.  A definition named ...Bug is a faulty
\* variant of the one after it, substituted to see that a property can fail.
PutTaskBug(t) == UNCHANGED usage
PutTask(t) == usage' = [usage EXCEPT ![t] = @ - 1]

AssignTaskBug(f, t) == UNCHANGED target_task
AssignTask(f, t) == target_task' = [target_task EXCEPT ![f] = t]

\* list_add: the new entry becomes the head.
ListAddBug(entry) == UNCHANGED step_list
ListAdd(entry) == step_list' = <<entry>> \o step_list

\* atomic_set or atomic_xchg of the poll word.
SetPollBug(f, v) == poll' = [poll EXCEPT ![f] = @ \/ v]
SetPoll(f, v) == poll' = [poll EXCEPT ![f] = v]

\* IOCTL_ADD_BP up to fd_install: take a reference on the task and create
\* the file; all flags start cleared (kzalloc).
AddBp(c, f, t, k) ==
    /\ life[f] = "none"
    /\ tpc[t] \notin Gone
    /\ Enter(c, f, "add_perf")
    /\ ctask' = [ctask EXCEPT ![c] = t]
    /\ usage' = [usage EXCEPT ![t] = @ + 1]
    /\ life' = [life EXCEPT ![f] = "adding"]
    /\ kind' = [kind EXCEPT ![f] = k]
    /\ UNCHANGED <<perf, target_task, flagVars, step_list, taskVars,
                   debugVars, ep_ready, notified>>

\* perf_event_create_kernel_counter succeeds: from here on the target can hit
\* the breakpoint, although private_data->target_task is still NULL.
AddBpPerf(c) ==
    /\ Goto(c, "add_perf", "add_assign")
    /\ tpc[ctask[c]] \notin Gone
    /\ perf' = [perf EXCEPT ![cfile[c]] = ctask[c]]
    /\ UNCHANGED <<life, kind, target_task, flagVars, step_list, targetVars,
                   notified>>

\* It fails (no free debug register, target gone): put the task, close_fd.
AddBpFail(c) ==
    /\ cpc[c] = "add_perf"
    /\ PutTask(ctask[c])
    /\ life' = [life EXCEPT ![cfile[c]] = "closing"]
    /\ Return(c)
    /\ ctask' = [ctask EXCEPT ![c] = None]
    /\ UNCHANGED <<kind, perf, target_task, flagVars, step_list, taskVars,
                   debugVars, ep_ready, notified>>

AddBpAssign(c) ==
    /\ cpc[c] = "add_assign"
    /\ AssignTask(cfile[c], ctask[c])
    /\ life' = [life EXCEPT ![cfile[c]] = "open"]
    /\ Return(c)
    /\ ctask' = [ctask EXCEPT ![c] = None]
    /\ UNCHANGED <<kind, perf, flagVars, step_list, targetVars, ep_ready,
                   notified>>

\* IOCTL_BP_CONTINUE: the unlocked test of stopped_flag ...
Continue(c, f) ==
    /\ life[f] = "open"
    /\ MayAct(c, f)
    /\ stopped_flag[f]
    /\ Enter(c, f, "cont_set")
    /\ notified' = [notified EXCEPT ![f] = None]
    /\ UNCHANGED <<fileVars, flagVars, step_list, targetVars, ctask, ep_ready>>

\* ... and the store to continue_flag under flag_lock, with the wake-up
\* (shared with the end of IOCTL_BP_STEP).
ContinueSet(c) ==
    /\ cpc[c] = "cont_set"
    /\ continue_flag' = [continue_flag EXCEPT ![cfile[c]] = TRUE]
    /\ Return(c)
    /\ UNCHANGED <<fileVars, stopped_flag, poll, step_list, targetVars,
                   ctask, ep_ready, notified>>

\* IOCTL_BP_STEP: the unlocked test of stopped_flag.
Step(c, f) ==
    /\ life[f] = "open"
    /\ MayAct(c, f)
    /\ stopped_flag[f]
    /\ Len(step_list) + Cardinality({d \in Callers : cpc[d] = "step_list"})
          < MaxSteps
    /\ Enter(c, f, "step_list")
    /\ notified' = [notified EXCEPT ![f] = None]
    /\ UNCHANGED <<fileVars, flagVars, step_list, targetVars, ctask, ep_ready>>

\* The new entry is added under step_list_lock.
StepList(c) ==
    /\ Goto(c, "step_list", "step_test")
    /\ ListAdd([pid |-> target_task[cfile[c]], file |-> cfile[c],
                removed |-> FALSE])
    /\ UNCHANGED <<fileVars, flagVars, targetVars, notified>>

\* test_ti_thread_flag(TIF_SINGLESTEP), then one of the two stores.
StepModeBug(t) == "step_enable"
StepMode(t) == IF tif[t] THEN "step_susp" ELSE "step_enable"

StepTest(c) ==
    /\ Goto(c, "step_test", StepMode(target_task[cfile[c]]))
    /\ UNCHANGED <<fileVars, flagVars, step_list, targetVars, notified>>

StepSuspend(c) ==
    /\ Goto(c, "step_susp", "cont_set")
    /\ suspended_step' = [suspended_step EXCEPT ![target_task[cfile[c]]] = TRUE]
    /\ UNCHANGED <<fileVars, flagVars, step_list, taskVars, tif, disabled,
                   usage, notified>>

StepEnable(c) ==
    /\ Goto(c, "step_enable", "cont_set")
    /\ tif' = [tif EXCEPT ![target_task[cfile[c]]] = TRUE]
    /\ UNCHANGED <<fileVars, flagVars, step_list, taskVars, suspended_step,
                   disabled, usage, notified>>

\* rwmem_bp_read, IOCTL_BP_SET_REG and IOCTL_BP_SET_SIMD_REG: the unlocked
\* test of stopped_flag, then the access to the saved registers.
Regs(c, f) ==
    /\ life[f] = "open"
    /\ MayAct(c, f)
    /\ stopped_flag[f]
    /\ Enter(c, f, "regs")
    /\ UNCHANGED <<fileVars, flagVars, step_list, targetVars, ctask,
                   ep_ready, notified>>

RegsDone(c) ==
    /\ cpc[c] = "regs"
    /\ Return(c)
    /\ UNCHANGED <<fileVars, flagVars, step_list, targetVars, ctask,
                   ep_ready, notified>>

\* poll(2) on the handle: rwmem_bp_poll consumes a pending EPOLLIN.
Poll(c, f) ==
    /\ life[f] = "open"
    /\ cpc[c] = "idle"
    /\ poll[f]
    /\ SetPoll(f, FALSE)
    /\ notified' = [notified EXCEPT ![f] = c]
    /\ UNCHANGED <<fileVars, stopped_flag, continue_flag, step_list,
                   targetVars, callerVars>>

\* Breakpoint::wait registers the handle with epoll: EPOLL_CTL_ADD calls
\* rwmem_bp_poll once and puts the item on the ready list if it was readable.
WaitAdd(c, f) ==
    /\ life[f] = "open"
    /\ Enter(c, f, "ep_wait")
    /\ ep_ready' = [ep_ready EXCEPT ![c] = poll[f]]
    /\ SetPoll(f, FALSE)
    /\ UNCHANGED <<fileVars, stopped_flag, continue_flag, step_list,
                   targetVars, ctask, notified>>

\* epoll_wait polls every ready item again before it reports it, and drops
\* the ones that are no longer readable.
WaitSend(c) ==
    /\ cpc[c] = "ep_wait"
    /\ ep_ready[c]
    /\ ep_ready' = [ep_ready EXCEPT ![c] = FALSE]
    /\ SetPoll(cfile[c], FALSE)
    /\ IF poll[cfile[c]]
       THEN /\ notified' = [notified EXCEPT ![cfile[c]] = c]
            /\ Return(c)
       ELSE UNCHANGED <<notified, cpc, cfile>>
    /\ UNCHANGED <<fileVars, stopped_flag, continue_flag, step_list,
                   targetVars, ctask>>

\* The future of Breakpoint::wait is dropped before it completes.
WaitCancel(c) ==
    /\ cpc[c] = "ep_wait"
    /\ ep_ready' = [ep_ready EXCEPT ![c] = FALSE]
    /\ Return(c)
    /\ UNCHANGED <<fileVars, flagVars, step_list, targetVars, ctask, notified>>

-----------------------------------------------------------------------------
(* Closing a handle.  rwmem_bp_release runs when the last reference is     *)
(* dropped, that is when no call on the file is in flight.                 *)

Close(c, f) ==
    /\ life[f] = "open"
    /\ cpc[c] = "idle"
    /\ ~ \E d \in Callers : cpc[d] = "ep_wait" /\ cfile[d] = f
    /\ life' = [life EXCEPT ![f] = "closing"]
    /\ notified' = [notified EXCEPT ![f] = None]
    /\ UNCHANGED <<kind, perf, target_task, flagVars, step_list, targetVars,
                   callerVars>>

\* "wake up target task"
ReleaseContinue(f) ==
    /\ life[f] = "closing"
    /\ ~ InFlight(f)
    /\ continue_flag' = [continue_flag EXCEPT ![f] = TRUE]
    /\ life' = [life EXCEPT ![f] = "r_mark"]
    /\ UNCHANGED <<kind, perf, target_task, stopped_flag, poll, step_list,
                   targetVars, clientVars>>

\* The indices of step_list that hold an entry of file f, or of task t, and
\* the singleton (or empty) set of the first of them.
IndicesOfFile(f) == {i \in 1..Len(step_list) : step_list[i].file = f}
IndicesOfPidBug(t) == 1..Len(step_list)
IndicesOfPid(t) == {i \in 1..Len(step_list) : step_list[i].pid = t}
First(S) == {i \in S : \A j \in S : i <= j}

\* "mark the file as removed": only the first entry of the file is marked.
ReleaseMark(f) ==
    /\ life[f] = "r_mark"
    /\ life' = [life EXCEPT ![f] = "r_unreg"]
    /\ step_list' =
         [i \in 1..Len(step_list) |->
            IF i \in First(IndicesOfFile(f))
            THEN [step_list[i] EXCEPT !.removed = TRUE]
            ELSE step_list[i]]
    /\ UNCHANGED <<kind, perf, target_task, flagVars, targetVars, clientVars>>

ReleaseUnregister(f) ==
    /\ life[f] = "r_unreg"
    /\ life' = [life EXCEPT ![f] = "r_free"]
    /\ perf' = [perf EXCEPT ![f] = None]
    /\ UNCHANGED <<kind, target_task, flagVars, step_list, targetVars,
                   clientVars>>

\* put_task_struct, kfree(data)
ReleaseFree(f) ==
    /\ life[f] = "r_free"
    /\ life' = [life EXCEPT ![f] = "freed"]
    /\ usage' = [t \in Tasks |->
                   usage[t] - (IF target_task[f] = t THEN 1 ELSE 0)]
    /\ target_task' = [target_task EXCEPT ![f] = None]
    /\ UNCHANGED <<kind, perf, flagVars, step_list, taskVars, debugVars,
                   clientVars>>

-----------------------------------------------------------------------------
(* The debug exceptions of a target running in user mode.                  *)

ArmedOn(t, k) == {f \in Files : perf[f] = t /\ kind[f] = k}

\* The target runs into breakpoints of one kind at one address: H is the set
\* of handles that match.  bp_callback queues a task work for each; since the
\* context tag 0xcb makes the event look like a default one, arm64 disables
\* the breakpoints of that kind and arranges to step over the instruction.
Hit(t, k, H) ==
    /\ tpc[t] = "user"
    /\ k \notin disabled[t]
    /\ H # {}
    /\ H \subseteq ArmedOn(t, k)
    /\ work' = [work EXCEPT ![t] = @ \cup H]
    /\ tpc' = [tpc EXCEPT ![t] = "resume"]
    /\ disabled' = [disabled EXCEPT ![t] = @ \cup {k}]
    /\ suspended_step' = [suspended_step EXCEPT
                            ![t] = @ \/ (disabled[t] = {} /\ tif[t])]
    /\ tif' = [tif EXCEPT ![t] = @ \/ disabled[t] = {}]
    /\ UNCHANGED <<fileVars, flagVars, step_list, cur, usage, clientVars>>

\* The step trap that ends the step-over: reinstall_suspended_bps handles it.
StepOver(t) ==
    /\ tpc[t] = "user"
    /\ tif[t]
    /\ disabled[t] # {}
    /\ ~ suspended_step[t]
    /\ disabled' = [disabled EXCEPT ![t] = {}]
    /\ tif' = [tif EXCEPT ![t] = FALSE]
    /\ UNCHANGED <<fileVars, flagVars, step_list, taskVars, suspended_step,
                   usage, clientVars>>

\* Any other step trap reaches the step hooks, after the suspended
\* breakpoints have been reinstalled.
HookTrap(t) ==
    /\ tpc[t] = "user"
    /\ tif[t]
    /\ disabled[t] = {} \/ suspended_step[t]
    /\ disabled' = [disabled EXCEPT ![t] = {}]
    /\ suspended_step' = [suspended_step EXCEPT
                            ![t] = @ /\ disabled[t] = {}]

DeleteAt(i) == SubSeq(step_list, 1, i - 1) \o
               SubSeq(step_list, i + 1, Len(step_list))

\* rwmem_bp_step_handler: the first entry of the task is deleted.  A live one
\* queues the stop and ends single stepping.
StepHookStop(t) ==
    /\ HookTrap(t)
    /\ \E i \in First(IndicesOfPid(t)) :
          /\ ~ step_list[i].removed
          /\ step_list' = DeleteAt(i)
          /\ work' = [work EXCEPT ![t] = @ \cup {step_list[i].file}]
    /\ tpc' = [tpc EXCEPT ![t] = "resume"]
    /\ tif' = [tif EXCEPT ![t] = FALSE]
    /\ UNCHANGED <<fileVars, flagVars, cur, usage, clientVars>>

\* An entry of a closed file: handled, but the early return leaves the task
\* in single-step mode.
StepHookRemoved(t) ==
    /\ HookTrap(t)
    /\ \E i \in First(IndicesOfPid(t)) :
          step_list[i].removed /\ step_list' = DeleteAt(i)
    /\ UNCHANGED <<fileVars, flagVars, taskVars, tif, usage, clientVars>>

\* No entry: DBG_HOOK_ERROR, and the kernel sends SIGTRAP to the task, which
\* kills it unless it handles the signal.
StepHookNone(t) ==
    /\ HookTrap(t)
    /\ IndicesOfPid(t) = {}
    /\ tpc' = [tpc EXCEPT ![t] = "sigtrap"]
    /\ UNCHANGED <<fileVars, flagVars, step_list, cur, work, tif, usage,
                   clientVars>>

\* The target ends by itself while it runs in user mode.
Exit(t) ==
    /\ tpc[t] = "user"
    /\ tpc' = [tpc EXCEPT ![t] = "dead"]
    /\ UNCHANGED <<fileVars, flagVars, step_list, cur, work, debugVars,
                   usage, clientVars>>

-----------------------------------------------------------------------------
(* bp_callback_after, run by the target on its way back to user mode.      *)

AfterStep(t, from, to) ==
    /\ tpc[t] = from
    /\ tpc' = [tpc EXCEPT ![t] = to]

\* Take one queued task work and mark the handle stopped.
RunWork(t, f) ==
    /\ AfterStep(t, "resume", "pollin")
    /\ f \in work[t]
    /\ life[f] # "freed"
    /\ work' = [work EXCEPT ![t] = @ \ {f}]
    /\ cur' = [cur EXCEPT ![t] = f]
    /\ stopped_flag' = [stopped_flag EXCEPT ![f] = TRUE]
    /\ UNCHANGED <<fileVars, continue_flag, poll, step_list, debugVars,
                   usage, clientVars>>

\* Publish EPOLLIN and wake the pollers.
PollIn(t) ==
    /\ AfterStep(t, "pollin", "wait")
    /\ SetPoll(cur[t], TRUE)
    /\ ep_ready' = [c \in Callers |->
                      ep_ready[c] \/ (cpc[c] = "ep_wait" /\ cfile[c] = cur[t])]
    /\ UNCHANGED <<fileVars, stopped_flag, continue_flag, step_list, cur,
                   work, debugVars, usage, cpc, cfile, ctask, notified>>

\* wait_event(priv_data->wq, priv_data->continue_flag); the flag of a freed
\* handle may read as anything.
ContinueSeenBug(f) == stopped_flag[f] \/ life[f] = "freed"
ContinueSeen(f) == continue_flag[f] \/ life[f] = "freed"

WaitDone(t) ==
    /\ AfterStep(t, "wait", "unpoll")
    /\ ContinueSeen(cur[t])
    /\ UNCHANGED <<fileVars, flagVars, step_list, cur, work, debugVars,
                   usage, clientVars>>

UnPoll(t) ==
    /\ AfterStep(t, "unpoll", "clear")
    /\ SetPoll(cur[t], FALSE)
    /\ UNCHANGED <<fileVars, stopped_flag, continue_flag, step_list, cur,
                   work, debugVars, usage, clientVars>>

\* Reset both flags under flag_lock.
ResetFlagsBug(f) == /\ stopped_flag' = [stopped_flag EXCEPT ![f] = FALSE]
                    /\ UNCHANGED continue_flag
ResetStoppedBug(f) == /\ continue_flag' = [continue_flag EXCEPT ![f] = FALSE]
                      /\ UNCHANGED stopped_flag
ResetFlags(f) == /\ continue_flag' = [continue_flag EXCEPT ![f] = FALSE]
                 /\ stopped_flag' = [stopped_flag EXCEPT ![f] = FALSE]

Clear(t) ==
    /\ AfterStep(t, "clear", "resume")
    /\ ResetFlags(cur[t])
    /\ cur' = [cur EXCEPT ![t] = None]
    /\ UNCHANGED <<fileVars, poll, step_list, work, debugVars, usage,
                   clientVars>>

ReturnToUser(t) ==
    /\ AfterStep(t, "resume", "user")
    /\ work[t] = {}
    /\ UNCHANGED <<fileVars, flagVars, step_list, cur, work, debugVars,
                   usage, clientVars>>

\* The private data was freed under the target: touching it may fault.  (A
\* work that starts after the release finds file->private_data = NULL.)
TouchFreed(t) ==
    /\ \/ tpc[t] = "resume" /\ \E f \in work[t] : life[f] = "freed"
       \/ tpc[t] \in {"pollin", "wait", "unpoll", "clear"}
          /\ life[cur[t]] = "freed"
    /\ tpc' = [tpc EXCEPT ![t] = "oops"]
    /\ cur' = [cur EXCEPT ![t] = None]
    /\ work' = [work EXCEPT ![t] = {}]
    /\ UNCHANGED <<fileVars, flagVars, step_list, debugVars, usage,
                   clientVars>>

-----------------------------------------------------------------------------

ClientStart(c, f) ==
    \/ \E t \in Tasks, k \in KindsOf[f] : AddBp(c, f, t, k)
    \/ Continue(c, f)
    \/ Step(c, f)
    \/ Regs(c, f)
    \/ Poll(c, f)
    \/ WaitAdd(c, f)
    \/ Close(c, f)

ClientRest(c) ==
    \/ AddBpPerf(c)
    \/ AddBpFail(c)
    \/ AddBpAssign(c)
    \/ ContinueSet(c)
    \/ StepList(c)
    \/ StepTest(c)
    \/ StepSuspend(c)
    \/ StepEnable(c)
    \/ RegsDone(c)
    \/ WaitSend(c)

Release(f) ==
    \/ ReleaseContinue(f)
    \/ ReleaseMark(f)
    \/ ReleaseUnregister(f)
    \/ ReleaseFree(f)

StepTrap(t) ==
    \/ StepOver(t)
    \/ StepHookStop(t)
    \/ StepHookRemoved(t)
    \/ StepHookNone(t)

Resume(t) ==
    \/ \E f \in Files : RunWork(t, f)
    \/ PollIn(t)
    \/ WaitDone(t)
    \/ UnPoll(t)
    \/ Clear(t)
    \/ ReturnToUser(t)

Next ==
    \/ \E c \in Callers :
          \/ \E f \in Files : ClientStart(c, f)
          \/ ClientRest(c)
          \/ WaitCancel(c)
    \/ \E f \in Files : Release(f)
    \/ \E t \in Tasks :
          \/ \E k \in Kinds, H \in SUBSET Files : Hit(t, k, H)
          \/ StepTrap(t)
          \/ Resume(t)
          \/ TouchFreed(t)
          \/ Exit(t)

Spec == Init /\ [][Next]_vars

\* What the kernel's scheduling guarantees: a system call that has started, a
\* release, a step trap and the way back to user mode go on, and a sleeper in
\* wait_event whose continue_flag was set has been woken.  Nothing forces a
\* client to call or a target to hit.
Woken(t) == tpc[t] = "wait" => continue_flag[cur[t]]

Fairness ==
    /\ \A c \in Callers : WF_vars(ClientRest(c))
    /\ \A f \in Files : WF_vars(Release(f))
    /\ \A t \in Tasks :
          /\ WF_vars(StepTrap(t))
          /\ WF_vars(Woken(t) /\ (Resume(t) \/ TouchFreed(t)))

FairSpec == Spec /\ Fairness

-----------------------------------------------------------------------------
(* Properties that hold for every client.                                  *)

Live(f) == life[f] # "freed"

\* Task t is inside bp_callback_after for handle f.
Stopping(t, f) == cur[t] = f /\ tpc[t] \in {"pollin", "wait", "unpoll", "clear"}

\* The task handle f was opened on, known to perf before target_task is set.
Target(f) == IF target_task[f] # None THEN target_task[f] ELSE perf[f]

SomeClosed == \E f \in Files : life[f] \notin {"none", "adding", "open"}

\* stopped_flag, on which every ioctl decides, is TRUE exactly while a task is
\* between the first and the last critical section of bp_callback_after.
StoppedSound ==
    \A f \in Files :
        Live(f) => (stopped_flag[f] <=> \E t \in Tasks : Stopping(t, f))

\* A stop, queued or in progress, is always that of the task the handle was
\* opened on: neither the perf callback nor the step hook ever attributes the
\* trap of one task to the handle of another.
StopBelongs ==
    \A t \in Tasks, f \in Files :
        Live(f) /\ (Stopping(t, f) \/ f \in work[t]) => Target(f) = t

\* A pending EPOLLIN announces a stop that has not been resumed yet: a poller
\* is never told of a stop that bp_callback_after has already left.
PollSound ==
    \A f \in Files :
        Live(f) /\ poll[f] =>
            \E t \in Tasks : cur[t] = f /\ tpc[t] \in {"wait", "unpoll"}

\* The module holds one reference on a task for each handle opened on it and
\* for each IOCTL_ADD_BP under way, on the error paths too.
RefBalance ==
    \A t \in Tasks :
        usage[t] = Cardinality({f \in Files : target_task[f] = t})
                   + Cardinality({c \in Callers : ctask[c] = t})

\* The step hook finds an entry for every step trap that reaches it, as long
\* as no handle has been closed: SIGTRAP is never sent to a debugged target.
SigtrapOnlyAfterClose ==
    (\E t \in Tasks : tpc[t] = "sigtrap") => SomeClosed

\* Once continue_flag is set for a stopped target, the target leaves the stop
\* (or the handle is closed).
ResumeCompletes ==
    \A f \in Files :
        (life[f] = "open" /\ stopped_flag[f] /\ continue_flag[f])
            ~> (~ stopped_flag[f] \/ life[f] # "open")

-----------------------------------------------------------------------------
(* Properties of the documented use.                                       *)

\* continue_flag is never left set once the stop it was meant for is over: a
\* stale flag would let the next hit pass without suspending the target.
NoStaleContinue ==
    \A f \in Files :
        life[f] = "open" /\ continue_flag[f] => \E t \in Tasks : Stopping(t, f)

\* The registers of a target are accessed only while it is suspended in
\* wait_event, although stopped_flag is tested without the lock.
RegAccessWhileStopped ==
    \A c \in Callers : cpc[c] = "regs" =>
        \E t \in Tasks : cur[t] = cfile[c] /\ tpc[t] = "wait"

\* After IOCTL_BP_STEP the target leaves its stop and then stops again, also
\* when the step runs into a breakpoint, of this or of another handle, first;
\* unless it exits or some handle is closed meanwhile.
StepStopsAgain ==
    \A f \in Files :
        (\E c \in Callers : cpc[c] = "step_list" /\ cfile[c] = f)
            ~> \/ SomeClosed
               \/ /\ ~ stopped_flag[f]
                  /\ <>(\/ SomeClosed
                        \/ \E t \in Tasks :
                              /\ target_task[f] = t
                              /\ tpc[t] = "dead" \/ \E g \in Files : Stopping(t, g))

\* The handles implement the promise stated in module BpHandle.
HandleState(f) ==
    CASE life[f] = "none" -> "none"
      [] life[f] \in {"adding", "open"} ->
            IF stopped_flag[f] THEN "stopped" ELSE "armed"
      [] OTHER -> "closed"

Handle == INSTANCE BpHandle WITH
    Handles <- Files,
    st <- [f \in Files |-> HandleState(f)],
    asked <- [f \in Files |-> life[f] \in {"adding", "open"} /\ continue_flag[f]]

\* Under the documented use every handle stops its target on each hit, keeps
\* it stopped until asked, and answers each request once.
HandlePromise == Handle!Spec

-----------------------------------------------------------------------------
(* What comments and the README say of the code, where the code differs.   *)

\* "wait for the breakpoint to be hit": a wait on a handle whose target is
\* suspended returns, if no other thread was notified of that stop.
WaitReturns ==
    \A c \in Callers, f \in Files :
        (/\ cpc[c] = "ep_wait" /\ cfile[c] = f /\ notified[f] = None
         /\ \E t \in Tasks : Stopping(t, f))
            ~> (cpc[c] = "idle" \/ ~ stopped_flag[f])

\* "wake up target task": once its handle is closed, the target is not held
\* in bp_callback_after for ever.
CloseWakesTarget ==
    \A t \in Tasks, f \in Files :
        (life[f] = "closing") ~> [](~ Stopping(t, f))

\* "if the file is closed, just ignore it": the step trap that belonged to a
\* closed handle has no effect on the target.
ClosedStepIgnored == \A t \in Tasks : tpc[t] # "sigtrap"

=============================================================================
