------------------------------- MODULE Tasks -------------------------------
(***************************************************************************)
(* Threads, processes and the virtual machine (src/src/proc/fork.c,        *)
(* src/src/proc/process.c, src/src/proc/exec.c, src/lib/vmm.c).            *)
(*                                                                         *)
(* A Linux process is a Darwin process with one VM, and a Linux task is a  *)
(* Darwin thread with a vcpu of its own.  proc.nr_tasks counts the tasks   *)
(* and decides execve and exit; nr_vcpus counts the vcpus and decides      *)
(* fork, which has to take the VM down: Darwin allows one VM at a time.    *)
(* The two counters change at different moments, under different locks.    *)
(***************************************************************************)
EXTENDS Naturals, FiniteSets

CONSTANTS
  Procs,       \* processes
  Threads,     \* threads of all processes
  Root,        \* the first process
  NoProc, NoThread

ASSUME TasksAssumption ==
  /\ IsFiniteSet(Threads) /\ Threads # {}
  /\ Root \in Procs /\ NoProc \notin Procs /\ NoThread \notin Threads

VARIABLES
  status,    \* how a process stands; "reason" is the status given to exit
  nr_tasks,  \* proc.nr_tasks
  tasks,     \* proc.tasks
  lock,      \* proc.lock: the thread that holds it
  nr_vcpus,
  vcpus,     \* the list of vcpus, by thread
  hv,        \* vcpus that exist in the hypervisor
  vm,        \* the process has a VM
  owner,     \* the process of a thread
  pc,        \* where a thread is; "guest" is inside main_loop
  maker,     \* the thread waiting in __do_clone_thread for this one
  arg,       \* the clone_thread_arg handed to this thread
  early      \* history: a pthread_cond_wait has returned without a signal

procVars == <<status, nr_tasks, tasks, lock, nr_vcpus, vcpus, hv, vm>>
threadVars == <<owner, pc, maker, arg, early>>
vars == <<procVars, threadVars>>

Steps == {"unused", "guest", "create_wait", "signalled", "start", "enlist", "report",
          "exec", "exit_vcpu", "exit_lock", "exit_count", "gone",
          "fork_destroy", "fork", "reentry", "retry"}

(* Threads that a running process has, and the ones in its task list.      *)
Live(p) == {t \in Threads : owner[t] = p /\ pc[t] \notin {"unused", "gone"}}

Enlisted == Steps \ {"unused", "start", "enlist", "gone"}

At(t, s) == pc[t] = s /\ status[owner[t]] = "running"

Goto(t, s) == pc' = [pc EXCEPT ![t] = s]

(* The process ends, and all its threads with it.                          *)
Terminate(p, s) ==
  /\ status' = [status EXCEPT ![p] = s]
  /\ pc' = [t \in Threads |-> IF t \in Live(p) THEN "gone" ELSE pc[t]]
  /\ UNCHANGED <<nr_tasks, tasks, lock, nr_vcpus, vcpus, hv, vm, owner, maker, arg, early>>

(* main: the VM, its vcpu and the first task.                              *)
Init ==
  LET t == CHOOSE t0 \in Threads : TRUE IN
    /\ status = [p \in Procs |-> IF p = Root THEN "running" ELSE "unused"]
    /\ nr_tasks = [p \in Procs |-> IF p = Root THEN 1 ELSE 0]
    /\ tasks = [p \in Procs |-> IF p = Root THEN {t} ELSE {}]
    /\ lock = [p \in Procs |-> NoThread]
    /\ nr_vcpus = nr_tasks /\ vcpus = tasks /\ hv = tasks
    /\ vm = [p \in Procs |-> p = Root]
    /\ owner = [u \in Threads |-> IF u = t THEN Root ELSE NoProc]
    /\ pc = [u \in Threads |-> IF u = t THEN "guest" ELSE "unused"]
    /\ maker = [u \in Threads |-> NoThread]
    /\ arg = [u \in Threads |-> "none"]
    /\ early = FALSE

(* The next thread and the next process that are made; their names do not  *)
(* matter.                                                                 *)
NewThread == CHOOSE t \in Threads : pc[t] = "unused"
NewProc == CHOOSE p \in Procs : status[p] = "unused"
-----------------------------------------------------------------------------
(* __do_clone_thread up to its pthread_cond_wait.  The result of           *)
(* pthread_create is not looked at.                                        *)
CloneThread(t, n) ==
  /\ At(t, "guest") /\ pc[n] = "unused" /\ n = NewThread
  /\ \/ /\ pc' = [pc EXCEPT ![t] = "create_wait", ![n] = "start"]
        /\ owner' = [owner EXCEPT ![n] = owner[t]]
        /\ maker' = [maker EXCEPT ![n] = t]
        /\ arg' = [arg EXCEPT ![n] = "live"]
     \/ Goto(t, "create_wait") /\ UNCHANGED <<owner, maker, arg>>
  /\ UNCHANGED <<procVars, early>>

(* arg->mutex is taken by the new thread from its first step to its last.  *)
MutexFree(t) == \A n \in Threads : maker[n] = t => pc[n] \notin {"enlist", "report"}

(* __do_clone_thread after its wait: the argument is freed.                *)
CloneDone(t) ==
  /\ Goto(t, "guest")
  /\ maker' = [n \in Threads |-> IF maker[n] = t THEN NoThread ELSE maker[n]]
  /\ arg' = [n \in Threads |-> IF maker[n] = t THEN "freed" ELSE arg[n]]
  /\ UNCHANGED <<procVars, owner>>

(* Mutant of CloneReturn: the caller does not wait.                        *)
CloneReturn_unawaited(t) ==
  (At(t, "signalled") \/ At(t, "create_wait")) /\ CloneDone(t) /\ UNCHANGED early

CloneReturn(t) == At(t, "signalled") /\ CloneDone(t) /\ UNCHANGED early

(* There is no predicate around pthread_cond_wait, which may return        *)
(* without a signal.                                                       *)
CloneReturnEarly(t) == At(t, "create_wait") /\ MutexFree(t) /\ CloneDone(t) /\ early' = TRUE

(* __start_thread: vmm_create_vcpu, in a process that may have lost its VM *)
(* to a fork, with an argument that may have been freed.                   *)
StartVcpu(n) ==
  LET p == owner[n] IN
  /\ At(n, "start")
  /\ \/ /\ vm[p]
        /\ vcpus' = [vcpus EXCEPT ![p] = @ \cup {n}]
        /\ hv' = [hv EXCEPT ![p] = @ \cup {n}]
        /\ nr_vcpus' = [nr_vcpus EXCEPT ![p] = @ + 1]
        /\ Goto(n, "enlist")
        /\ UNCHANGED <<status, nr_tasks, tasks, lock, vm, owner, maker, arg, early>>
     \/ Terminate(p, "panic")
     \/ arg[n] = "freed" /\ Terminate(p, "crash")

(* Mutant of StartEnlist: the new task is not counted.                     *)
StartEnlist_uncounted(n) ==
  /\ At(n, "enlist") /\ lock[owner[n]] = NoThread
  /\ tasks' = [tasks EXCEPT ![owner[n]] = @ \cup {n}]
  /\ Goto(n, "report")
  /\ UNCHANGED <<status, nr_tasks, lock, nr_vcpus, vcpus, hv, vm, owner, maker, arg, early>>

(* Mutant of StartEnlist: the lock is kept.                                *)
StartEnlist_locked(n) ==
  /\ At(n, "enlist") /\ lock[owner[n]] = NoThread
  /\ nr_tasks' = [nr_tasks EXCEPT ![owner[n]] = @ + 1]
  /\ tasks' = [tasks EXCEPT ![owner[n]] = @ \cup {n}]
  /\ lock' = [lock EXCEPT ![owner[n]] = n]
  /\ Goto(n, "report")
  /\ UNCHANGED <<status, nr_vcpus, vcpus, hv, vm, owner, maker, arg, early>>

(* __start_thread: the section under proc.lock.                            *)
StartEnlist(n) ==
  /\ At(n, "enlist") /\ lock[owner[n]] = NoThread
  /\ nr_tasks' = [nr_tasks EXCEPT ![owner[n]] = @ + 1]
  /\ tasks' = [tasks EXCEPT ![owner[n]] = @ \cup {n}]
  /\ Goto(n, "report")
  /\ UNCHANGED <<status, lock, nr_vcpus, vcpus, hv, vm, owner, maker, arg, early>>

(* __start_thread: init_task, then the signal to the maker, which is lost  *)
(* when the maker has gone on; main_loop starts.                           *)
StartReport(n) ==
  /\ At(n, "report")
  /\ pc' = [t \in Threads |-> IF t = n THEN "guest"
                              ELSE IF t = maker[n] /\ pc[t] = "create_wait" THEN "signalled"
                              ELSE pc[t]]
  /\ UNCHANGED <<procVars, owner, maker, arg, early>>
-----------------------------------------------------------------------------
(* do_exec: nr_tasks is read without proc.lock.  With more tasks the call  *)
(* returns EINVAL.                                                         *)
ExecCheck(t) ==
  /\ At(t, "guest") /\ nr_tasks[owner[t]] <= 1
  /\ Goto(t, "exec")
  /\ UNCHANGED <<procVars, owner, maker, arg, early>>

(* prepare_newproc, and the new program.                                   *)
ExecReplace(t) ==
  /\ At(t, "exec")
  /\ nr_tasks' = [nr_tasks EXCEPT ![owner[t]] = 1]
  /\ Goto(t, "guest")
  /\ UNCHANGED <<status, tasks, lock, nr_vcpus, vcpus, hv, vm, owner, maker, arg, early>>
-----------------------------------------------------------------------------
(* exit: clear_child_tid is set to 0 and its waiters are woken, so a       *)
(* joining thread goes on from here.                                       *)
ExitClearTid(t) == At(t, "guest") /\ Goto(t, "exit_vcpu") /\ UNCHANGED <<procVars, owner, maker, arg, early>>

(* vmm_destroy_vcpu.                                                       *)
ExitVcpu(t) ==
  LET p == owner[t] IN
  /\ At(t, "exit_vcpu")
  /\ vcpus' = [vcpus EXCEPT ![p] = @ \ {t}]
  /\ hv' = [hv EXCEPT ![p] = @ \ {t}]
  /\ nr_vcpus' = [nr_vcpus EXCEPT ![p] = @ - 1]
  /\ Goto(t, "exit_lock")
  /\ UNCHANGED <<status, nr_tasks, tasks, lock, vm, owner, maker, arg, early>>

ExitLock(t) ==
  /\ At(t, "exit_lock") /\ lock[owner[t]] = NoThread
  /\ lock' = [lock EXCEPT ![owner[t]] = t]
  /\ Goto(t, "exit_count")
  /\ UNCHANGED <<status, nr_tasks, tasks, nr_vcpus, vcpus, hv, vm, owner, maker, arg, early>>

(* Mutant of ExitLast: off by one.                                         *)
ExitLast_zero(p) == nr_tasks[p] = 0

ExitLast(p) == nr_tasks[p] = 1

(* Under proc.lock: the last task ends the process with its reason; any    *)
(* other leaves the list.  Darwin ends a process whose last thread has     *)
(* called pthread_exit with status 0, whatever the reason was.             *)
ExitCount(t) ==
  LET p == owner[t] IN
  /\ At(t, "exit_count")
  /\ \/ ExitLast(p) /\ Terminate(p, "reason")
     \/ /\ ~ExitLast(p)
        /\ nr_tasks' = [nr_tasks EXCEPT ![p] = @ - 1]
        /\ tasks' = [tasks EXCEPT ![p] = @ \ {t}]
        /\ lock' = [lock EXCEPT ![p] = NoThread]
        /\ Goto(t, "gone")
        /\ status' = [status EXCEPT ![p] = IF Live(p) = {t} THEN "lost" ELSE @]
        /\ UNCHANGED <<nr_vcpus, vcpus, hv, vm, owner, maker, arg, early>>

(* exit_group.                                                             *)
ExitGroup(t) == At(t, "guest") /\ Terminate(owner[t], "reason")
-----------------------------------------------------------------------------
(* Mutant of ForkSnapshot: the vcpus are not counted.                      *)
ForkSnapshot_unguarded(t) ==
  At(t, "guest") /\ Goto(t, "fork_destroy") /\ UNCHANGED <<procVars, owner, maker, arg, early>>

(* __do_clone_process: vmm_snapshot ends the process when it has several   *)
(* vcpus.                                                                  *)
ForkSnapshot(t) ==
  LET p == owner[t] IN
  /\ At(t, "guest")
  /\ \/ nr_vcpus[p] > 1 /\ Terminate(p, "unsupported")
     \/ nr_vcpus[p] <= 1 /\ Goto(t, "fork_destroy") /\ UNCHANGED <<procVars, owner, maker, arg, early>>

(* vmm_destroy: a vcpu can only be destroyed by its own thread.  The list  *)
(* and the counter are left alone.                                         *)
ForkDestroy(t) ==
  LET p == owner[t] IN
  /\ At(t, "fork_destroy")
  /\ \/ /\ vcpus[p] \subseteq {t}
        /\ hv' = [hv EXCEPT ![p] = {}]
        /\ vm' = [vm EXCEPT ![p] = FALSE]
        /\ Goto(t, "fork")
        /\ UNCHANGED <<status, nr_tasks, tasks, lock, nr_vcpus, vcpus, owner, maker, arg, early>>
     \/ Terminate(p, "panic")

(* fork(): the child c in process q has a copy of everything, including    *)
(* what belongs to threads it does not have.                               *)
ForkHost(t, c, q) ==
  LET p == owner[t]
      Copy(S) == {IF u = t THEN c ELSE u : u \in S}
  IN
  /\ At(t, "fork")
  /\ pc[c] = "unused" /\ c = NewThread /\ status[q] = "unused" /\ q = NewProc
  /\ status' = [status EXCEPT ![q] = "running"]
  /\ nr_tasks' = [nr_tasks EXCEPT ![q] = nr_tasks[p]]
  /\ tasks' = [tasks EXCEPT ![q] = Copy(tasks[p])]
  /\ lock' = [lock EXCEPT ![q] = lock[p]]
  /\ nr_vcpus' = [nr_vcpus EXCEPT ![q] = nr_vcpus[p]]
  /\ vcpus' = [vcpus EXCEPT ![q] = Copy(vcpus[p])]
  /\ owner' = [owner EXCEPT ![c] = q]
  /\ pc' = [pc EXCEPT ![t] = "reentry", ![c] = "reentry"]
  /\ UNCHANGED <<hv, vm, maker, arg, early>>

(* Mutant of ForkFails: the error is returned before vmm_reentry.          *)
ForkFails_return(t) == At(t, "fork") /\ Goto(t, "guest") /\ UNCHANGED <<procVars, owner, maker, arg, early>>

(* fork() fails; the VM is set up again all the same.                      *)
ForkFails(t) == At(t, "fork") /\ Goto(t, "reentry") /\ UNCHANGED <<procVars, owner, maker, arg, early>>

(* vmm_reentry, in the parent and in the child.                            *)
Reentry(t) ==
  LET p == owner[t] IN
  /\ At(t, "reentry") \/ At(t, "retry")
  /\ \/ nr_vcpus[p] > 1 /\ Terminate(p, "unsupported")
     \/ /\ nr_vcpus[p] <= 1
        /\ vm' = [vm EXCEPT ![p] = TRUE]
        /\ hv' = [hv EXCEPT ![p] = @ \cup {t}]
        /\ Goto(t, "guest")
        /\ UNCHANGED <<status, nr_tasks, tasks, lock, nr_vcpus, vcpus, owner, maker, arg, early>>

(* vmm_reentry: HV_NO_DEVICE is tried again once, other errors panic.      *)
ReentryFails(t) ==
  /\ \/ At(t, "reentry") /\ Goto(t, "retry") /\ UNCHANGED <<procVars, owner, maker, arg, early>>
     \/ (At(t, "reentry") \/ At(t, "retry")) /\ Terminate(owner[t], "panic")
-----------------------------------------------------------------------------
(* What a thread does by itself once it has entered the kernel, and what   *)
(* its program asks for.                                                   *)
Kernel(t) ==
  \/ CloneReturn(t) \/ StartVcpu(t) \/ StartEnlist(t) \/ StartReport(t)
  \/ ExecReplace(t) \/ ExitVcpu(t) \/ ExitLock(t) \/ ExitCount(t)
  \/ ForkDestroy(t) \/ ForkFails(t) \/ Reentry(t) \/ ReentryFails(t)
  \/ \E c \in Threads, q \in Procs : ForkHost(t, c, q)

Program(t) ==
  \/ \E n \in Threads : CloneThread(t, n)
  \/ ExecCheck(t) \/ ExitClearTid(t) \/ ExitGroup(t) \/ ForkSnapshot(t)

Next == \E t \in Threads : Kernel(t) \/ Program(t) \/ CloneReturnEarly(t)

Spec == Init /\ [][Next]_vars

(* The host runs every thread that can run.                                *)
FairSpec == Spec /\ \A t \in Threads : WF_vars(Kernel(t))
-----------------------------------------------------------------------------
(* A process whose VM is being taken down by fork has no other thread with *)
(* a vcpu, so that vmm_destroy meets none but its own and no guest code    *)
(* runs while fork copies the memory; and execve replaces the address      *)
(* space only when no other thread can be using it, although the count is  *)
(* read without a lock (unless a clone has returned early).                *)
OthersGone ==
  \A t, u \in Threads :
    ~early /\ u # t /\ owner[u] = owner[t] =>
      /\ At(t, "fork_destroy") \/ At(t, "fork") =>
           u \notin vcpus[owner[t]] /\ pc[u] \in {"exit_lock", "exit_count", "gone"}
      /\ At(t, "exec") => pc[u] \in {"unused", "gone"}

(* proc.nr_tasks counts the tasks of the first process exactly; in a       *)
(* forked one it may count tasks that stayed behind, but never too few     *)
(* (unless a clone has returned early).                                    *)
TasksCounted ==
  \A p \in Procs : ~early /\ status[p] = "running" =>
    LET n == Cardinality({t \in Threads : owner[t] = p /\ pc[t] \in Enlisted})
    IN  nr_tasks[p] >= n /\ (p = Root => nr_tasks[p] = n)

(* A thread that runs guest code has a VM and a vcpu that the hypervisor   *)
(* knows, after any number of forks, failed ones included.                 *)
GuestHasVcpu ==
  \A t \in Threads : At(t, "guest") => vm[owner[t]] /\ t \in hv[owner[t]] /\ t \in vcpus[owner[t]]

(* The argument of a new thread outlives the thread's start, unless        *)
(* pthread_cond_wait has returned early.                                   *)
ArgOutlives ==
  ~early => \A n \in Threads : pc[n] \in {"start", "enlist", "report"} => arg[n] = "live"

(* However the exits of several threads interleave, the process ends with  *)
(* the status given to exit, not with Darwin's for a last pthread_exit.    *)
StatusKept == status[Root] # "lost"

(* In the first process clone returns once pthread_create has made the     *)
(* thread (when it has not, the caller waits for ever), and a thread that  *)
(* has called exit goes away.  In a forked process the new thread may wait *)
(* for ever for a proc.lock that was held, at the fork, by an exiting      *)
(* thread of the parent.                                                   *)
CallsEnd ==
  \A t \in Threads :
    /\ (pc[t] = "create_wait" /\ owner[t] = Root /\ \E n \in Threads : maker[n] = t)
         ~> pc[t] # "create_wait"
    /\ (pc[t] = "exit_vcpu" /\ owner[t] = Root) ~> pc[t] = "gone"
=============================================================================
