---------------------------- MODULE TasksProofs ----------------------------
(***************************************************************************)
(* Proofs about Tasks: for any number of threads and processes, and for    *)
(* every interleaving of clone, execve, exit and fork, the two counters    *)
(* proc.nr_tasks and nr_vcpus are good enough for what the code reads off  *)
(* them.                                                                   *)
(*                                                                         *)
(* The inductive invariant TasksInv ties the list and the counter of vcpus *)
(* to the places where the threads are (VcpuInv), every thread that starts *)
(* to the one that waits for it (MakerInv), nr_tasks to the tasks in the   *)
(* list (CountInv), and says who may still exist beside a fork or an       *)
(* execve (AloneInv).                                                      *)
(***************************************************************************)
EXTENDS Tasks, TLAPS, FiniteSetTheorems

(* The type of every variable.                                             *)
TypeOK ==
  /\ status \in [Procs -> {"unused", "running", "reason", "lost", "panic", "crash", "unsupported"}]
  /\ nr_tasks \in [Procs -> Nat]
  /\ tasks \in [Procs -> SUBSET Threads]
  /\ lock \in [Procs -> Threads \cup {NoThread}]
  /\ nr_vcpus \in [Procs -> Nat]
  /\ vcpus \in [Procs -> SUBSET Threads]
  /\ hv \in [Procs -> SUBSET Threads]
  /\ vm \in [Procs -> BOOLEAN]
  /\ owner \in [Threads -> Procs \cup {NoProc}]
  /\ pc \in [Threads -> Steps]
  /\ maker \in [Threads -> Threads \cup {NoThread}]
  /\ arg \in [Threads -> {"none", "live", "freed"}]
  /\ early \in BOOLEAN

(* Steps at which a thread has a vcpu of its own: from vmm_create_vcpu, or *)
(* the VM's first vcpu, to vmm_destroy_vcpu.                               *)
WithVcpu == {"enlist", "report", "guest", "create_wait", "signalled", "exec", "exit_vcpu",
             "fork_destroy", "fork", "reentry", "retry"}
(* Those at which vmm_destroy has taken the VM away.                       *)
VmDown == {"fork", "reentry", "retry"}

(* The threads of p that have a vcpu, and the ones that nr_tasks counts.   *)
VcpusOf(p) == {t \in Threads : owner[t] = p /\ pc[t] \in WithVcpu}
TasksOf(p) == {t \in Threads : owner[t] = p /\ pc[t] \in Enlisted}

(* A process that has not been made has no VM and no thread; a thread that *)
(* has not been made has no process; one that has ended has no thread at   *)
(* work.                                                                   *)
Fresh ==
  /\ status[Root] # "unused"
  /\ \A p \in Procs : status[p] = "unused" => ~vm[p] /\ \A t \in Threads : owner[t] # p
  /\ \A t \in Threads : /\ pc[t] = "unused" <=> owner[t] = NoProc
                        /\ pc[t] = "unused" => maker[t] = NoThread
                        /\ owner[t] \in Procs /\ status[owner[t]] # "running" => pc[t] = "gone"

(* The list and the counter of vcpus agree with where the threads are,     *)
(* also while fork has the VM down, when the list still has the forking    *)
(* thread and only that.                                                   *)
VcpuInv ==
  /\ \A p \in Procs : status[p] = "running" =>
        vcpus[p] = VcpusOf(p) /\ nr_vcpus[p] = Cardinality(VcpusOf(p))
  /\ \A t \in Threads : pc[t] \in WithVcpu \ VmDown => vm[owner[t]] /\ t \in hv[owner[t]]
  /\ \A t \in Threads : pc[t] \in VmDown => ~vm[owner[t]] /\ VcpusOf(owner[t]) = {t}

(* Every clone waits for one thread.  As long as pthread_cond_wait returns *)
(* only when signalled, it waits until that thread has reported.           *)
MakerInv ==
  /\ \A n \in Threads : maker[n] # NoThread =>
       owner[maker[n]] = owner[n] /\ pc[maker[n]] \in {"create_wait", "signalled", "gone"}
  /\ \A n, m \in Threads : maker[n] # NoThread /\ maker[n] = maker[m] => n = m
  /\ ~early => \A n \in Threads : pc[n] \in {"start", "enlist", "report"} =>
       maker[n] # NoThread /\ pc[maker[n]] = "create_wait" /\ arg[n] = "live"

(* proc.nr_tasks is never 0 in a running process.  The first process never *)
(* counts too many tasks (a forked one may count threads that stayed       *)
(* behind), and unless a clone has returned early no process counts too    *)
(* few.                                                                    *)
CountInv ==
  /\ \A p \in Procs : status[p] = "running" => nr_tasks[p] >= 1
  /\ status[Root] = "running" => nr_tasks[Root] <= Cardinality(TasksOf(Root))
  /\ ~early => \A p \in Procs : status[p] = "running" => nr_tasks[p] >= Cardinality(TasksOf(p))

(* Beside a fork there are only threads that have given back their vcpu,   *)
(* and beside an execve none.                                              *)
AloneInv ==
  ~early => \A t, u \in Threads : u # t /\ owner[u] = owner[t] =>
    /\ pc[t] \in {"fork_destroy", "fork"} => pc[u] \in {"exit_lock", "exit_count", "gone"}
    /\ pc[t] = "exec" => pc[u] = "gone"

TasksInv == TypeOK /\ Fresh /\ VcpuInv /\ MakerInv /\ CountInv /\ AloneInv /\ status[Root] # "lost"

(* How a process may end by itself.                                        *)
Ends == {"reason", "panic", "crash", "unsupported"}

(* A thread at work belongs to a running process.                          *)
LEMMA Live1 ==
  ASSUME TasksInv, NEW t \in Threads, NEW s, s # "unused", At(t, s)
  PROVE  owner[t] \in Procs /\ status[owner[t]] = "running" /\ pc[t] = s
BY DEF TasksInv, TypeOK, Fresh, At

(* The end of a process (exit, exit_group, panic, a crash) leaves the      *)
(* others as they are.                                                     *)
LEMMA TerminateStep ==
  ASSUME TasksInv, NEW p \in Procs, status[p] = "running", NEW s \in Ends, Terminate(p, s)
  PROVE  TasksInv'
<1> USE TasksAssumption DEF TasksInv
<1>1. TypeOK'
  BY DEF TypeOK, Terminate, Ends, Steps
<1>2. \A t \in Threads : owner'[t] = owner[t] /\ maker'[t] = maker[t] /\ arg'[t] = arg[t]
        /\ (owner[t] # p => pc'[t] = pc[t])
        /\ (owner[t] = p => pc'[t] = "gone")
  BY DEF TypeOK, Fresh, Terminate, Live
<1>3. \A q \in Procs : q # p => status'[q] = status[q]
  BY DEF TypeOK, Terminate
<1>4. status'[p] \in Ends
  BY DEF TypeOK, Terminate
<1>5. \A q \in Procs : q # p => VcpusOf(q)' = VcpusOf(q) /\ TasksOf(q)' = TasksOf(q)
  BY <1>2 DEF VcpusOf, TasksOf
<1>6. Fresh'
  BY <1>2, <1>3, <1>4 DEF Fresh, TypeOK, Terminate, Ends
<1>7. VcpuInv'
  BY <1>2, <1>3, <1>4, <1>5 DEF VcpuInv, TypeOK, Fresh, Terminate, Ends, WithVcpu, VmDown
<1>8. MakerInv'
  BY <1>2, <1>3, <1>4, <1>5 DEF MakerInv, TypeOK, Fresh, Terminate, Ends
<1>9. CountInv'
  BY <1>2, <1>3, <1>4, <1>5 DEF CountInv, TypeOK, Fresh, Terminate, Ends
<1>10. AloneInv'
  BY <1>2, <1>3, <1>4, <1>5 DEF AloneInv, TypeOK, Fresh, Terminate, Ends
<1> QED
  BY <1>1, <1>6, <1>7, <1>8, <1>9, <1>10, <1>3, <1>4 DEF Ends

(* A step that neither gives a vcpu to a thread nor takes one away leaves  *)
(* VcpuInv as it is.                                                       *)
LEMMA SameVcpus ==
  ASSUME TasksInv, NEW t \in Threads, NEW s,
         pc' = [pc EXCEPT ![t] = s],
         pc[t] \in WithVcpu <=> s \in WithVcpu,
         pc[t] \in VmDown <=> s \in VmDown,
         UNCHANGED <<status, owner, vcpus, nr_vcpus, hv, vm>>
  PROVE  VcpuInv'
<1> USE DEF TasksInv
<1>1. /\ status' = status /\ owner' = owner /\ vcpus' = vcpus /\ nr_vcpus' = nr_vcpus
      /\ hv' = hv /\ vm' = vm
      /\ \A u \in Threads : /\ pc'[u] \in WithVcpu <=> pc[u] \in WithVcpu
                            /\ pc'[u] \in VmDown <=> pc[u] \in VmDown
  BY DEF TypeOK
<1>2. \A q : VcpusOf(q)' = VcpusOf(q)
  BY <1>1 DEF VcpusOf
<1>3. \A p \in Procs : status'[p] = "running" =>
        vcpus'[p] = VcpusOf(p)' /\ nr_vcpus'[p] = Cardinality(VcpusOf(p)')
  BY <1>1, <1>2 DEF VcpuInv
<1>4. \A u \in Threads : pc'[u] \in WithVcpu \ VmDown => vm'[owner'[u]] /\ u \in hv'[owner'[u]]
  BY <1>1 DEF VcpuInv
<1>5. ASSUME NEW u \in Threads, pc'[u] \in VmDown
      PROVE  (~vm[owner[u]] /\ VcpusOf(owner[u]) = {u})'
  BY <1>1, <1>2, <1>5 DEF VcpuInv
<1> QED
  BY <1>3, <1>4, <1>5 DEF VcpuInv

(* __do_clone_thread up to its wait.                                       *)
LEMMA CloneThreadStep ==
  ASSUME TasksInv, NEW t \in Threads, NEW n \in Threads, CloneThread(t, n)
  PROVE  TasksInv'
<1>1. owner[t] \in Procs /\ status[owner[t]] = "running" /\ pc[t] = "guest" /\ pc[n] = "unused"
  BY Live1 DEF CloneThread
<1> USE TasksAssumption DEF TasksInv
<1>2. TypeOK'
  BY DEF TypeOK, CloneThread, Goto, Steps, procVars
<1>3. \A q \in Procs : VcpusOf(q)' = VcpusOf(q) /\ TasksOf(q)' = TasksOf(q)
  BY <1>1 DEF VcpusOf, TasksOf, WithVcpu, Enlisted, Steps, CloneThread, Goto, TypeOK, Fresh
<1>6. Fresh'
  BY <1>1 DEF Fresh, TypeOK, CloneThread, Goto, procVars
<1>7. VcpuInv'
  BY <1>1, <1>3 DEF VcpuInv, TypeOK, Fresh, CloneThread, Goto, procVars, WithVcpu, VmDown
<1>8. MakerInv'
  <2>1. \A m \in Threads : maker[m] # t /\ maker[m] # n
    BY <1>1 DEF MakerInv, TypeOK
  <2>2. maker[n] = NoThread /\ owner[n] = NoProc /\ n # t
    BY <1>1 DEF Fresh
  <2>3. CASE maker' = [maker EXCEPT ![n] = t] /\ owner' = [owner EXCEPT ![n] = owner[t]]
             /\ pc' = [pc EXCEPT ![t] = "create_wait", ![n] = "start"]
             /\ arg' = [arg EXCEPT ![n] = "live"] /\ early' = early
    BY <1>1, <2>1, <2>2, <2>3 DEF MakerInv, TypeOK
  <2>4. CASE pc' = [pc EXCEPT ![t] = "create_wait"] /\ UNCHANGED <<owner, maker, arg, early>>
    BY <1>1, <2>1, <2>2, <2>4 DEF MakerInv, TypeOK
  <2> QED
    BY <2>3, <2>4 DEF CloneThread, Goto
<1>9. CountInv'
  BY <1>1, <1>3 DEF CountInv, TypeOK, Fresh, CloneThread, Goto, procVars
<1>10. AloneInv'
  <2>1. ~early => \A v \in Threads : owner[v] = owner[t] => pc[v] \notin {"fork_destroy", "fork", "exec"}
    BY <1>1 DEF AloneInv
  <2>2. owner[n] = NoProc /\ n # t
    BY <1>1 DEF Fresh
  <2>3. /\ \A v \in Threads \ {t, n} : pc'[v] = pc[v] /\ owner'[v] = owner[v]
        /\ pc'[t] = "create_wait" /\ owner'[t] = owner[t] /\ early' = early
        /\ owner'[n] = NoProc \/ (owner'[n] = owner[t] /\ pc'[n] = "start")
        /\ pc'[n] \in {"unused", "start"}
    BY <1>1, <2>2 DEF CloneThread, Goto, TypeOK
  <2>4. \A v \in Threads : pc'[v] \in {"fork_destroy", "fork", "exec"} =>
          v \notin {t, n} /\ (~early => owner[v] # owner[t]) /\ owner[v] # NoProc
    BY <1>1, <2>1, <2>3 DEF Fresh
  <2> QED
    BY <2>2, <2>3, <2>4 DEF AloneInv
<1> QED
  BY <1>2, <1>6, <1>7, <1>8, <1>9, <1>10 DEF CloneThread, procVars

(* __do_clone_thread after its wait, signalled or not.                     *)
LEMMA CloneDoneStep ==
  ASSUME TasksInv, NEW t \in Threads, CloneDone(t),
         owner[t] \in Procs, status[owner[t]] = "running", early' \in BOOLEAN,
         \/ pc[t] = "signalled" /\ early' = early
         \/ pc[t] = "create_wait" /\ early' = TRUE
  PROVE  TasksInv'
<1> USE TasksAssumption DEF TasksInv
<1>2. TypeOK'
  BY DEF TypeOK, CloneDone, Goto, Steps, procVars
<1>3. \A q \in Procs : VcpusOf(q)' = VcpusOf(q) /\ TasksOf(q)' = TasksOf(q)
  BY DEF VcpusOf, TasksOf, WithVcpu, Enlisted, Steps, CloneDone, Goto, TypeOK
<1>6. Fresh'
  BY DEF Fresh, TypeOK, CloneDone, Goto, procVars
<1>7. VcpuInv'
  BY SameVcpus DEF CloneDone, Goto, procVars, WithVcpu, VmDown
<1>8. MakerInv'
  BY DEF MakerInv, TypeOK, Fresh, CloneDone, Goto, procVars
<1>9. CountInv'
  BY <1>3 DEF CountInv, TypeOK, Fresh, CloneDone, Goto, procVars
<1>10. AloneInv'
  BY DEF AloneInv, TypeOK, Fresh, CloneDone, Goto, procVars
<1> QED
  BY <1>2, <1>6, <1>7, <1>8, <1>9, <1>10 DEF CloneDone, procVars

(* __start_thread: vmm_create_vcpu.  With the VM down the forking thread   *)
(* is alone with its vcpu, so none is made.                                *)
LEMMA StartVcpuStep ==
  ASSUME TasksInv, NEW n \in Threads, StartVcpu(n)
  PROVE  TasksInv'
<1>1. PICK p \in Procs : p = owner[n] /\ status[p] = "running" /\ pc[n] = "start"
  BY Live1 DEF StartVcpu
<1> USE TasksAssumption DEF TasksInv
<1>2. CASE \E s \in Ends : Terminate(p, s)
  BY <1>1, <1>2, TerminateStep
<1>3. CASE /\ vm[p]
           /\ vcpus' = [vcpus EXCEPT ![p] = @ \cup {n}]
           /\ hv' = [hv EXCEPT ![p] = @ \cup {n}]
           /\ nr_vcpus' = [nr_vcpus EXCEPT ![p] = @ + 1]
           /\ pc' = [pc EXCEPT ![n] = "enlist"]
           /\ UNCHANGED <<status, nr_tasks, tasks, lock, vm, owner, maker, arg, early>>
  <2>1. TypeOK'
    BY <1>1, <1>3 DEF TypeOK, Steps
  <2>2. \A q \in Procs : TasksOf(q)' = TasksOf(q) /\ (q # p => VcpusOf(q)' = VcpusOf(q))
    BY <1>1, <1>3 DEF VcpusOf, TasksOf, WithVcpu, Enlisted, Steps, TypeOK
  <2>3. VcpusOf(p)' = VcpusOf(p) \cup {n} /\ n \notin VcpusOf(p)
    BY <1>1, <1>3 DEF VcpusOf, WithVcpu, TypeOK
  <2>4. Cardinality(VcpusOf(p)') = Cardinality(VcpusOf(p)) + 1
    <3>1. IsFiniteSet(VcpusOf(p))
      BY FS_Subset DEF VcpusOf
    <3> QED
      BY <3>1, <2>3, FS_AddElement
  <2>5. Fresh'
    BY <1>1, <1>3 DEF Fresh, TypeOK
  <2>6. VcpuInv'
    <3>1. ASSUME NEW q \in Procs, status[q] = "running"
          PROVE  vcpus'[q] = VcpusOf(q)' /\ nr_vcpus'[q] = Cardinality(VcpusOf(q)')
      BY <1>1, <1>3, <2>2, <2>3, <2>4, <3>1 DEF VcpuInv, TypeOK
    <3>2. ASSUME NEW t \in Threads, pc'[t] \in WithVcpu \ VmDown
          PROVE  vm'[owner'[t]] /\ t \in hv'[owner'[t]]
      BY <1>1, <1>3, <3>2 DEF VcpuInv, TypeOK, WithVcpu, VmDown
    <3>3. ASSUME NEW t \in Threads, pc'[t] \in VmDown
          PROVE  (~vm[owner[t]] /\ VcpusOf(owner[t]) = {t})'
      <4>1. t # n /\ pc[t] \in VmDown /\ owner[t] # p /\ owner[t] \in Procs
        BY <1>1, <1>3, <3>3 DEF VcpuInv, TypeOK, Fresh, VmDown
      <4> QED
        BY <1>1, <1>3, <2>2, <4>1 DEF VcpuInv, TypeOK
    <3> QED
      BY <1>3, <3>1, <3>2, <3>3 DEF VcpuInv
  <2>7. MakerInv'
    BY <1>1, <1>3 DEF MakerInv, TypeOK
  <2>8. CountInv'
    BY <1>1, <1>3, <2>2 DEF CountInv, TypeOK
  <2>9. AloneInv'
    BY <1>1, <1>3 DEF AloneInv, TypeOK
  <2> QED
    BY <1>3, <2>1, <2>5, <2>6, <2>7, <2>8, <2>9
<1> QED
  BY <1>1, <1>2, <1>3 DEF StartVcpu, Goto, Ends

(* __start_thread: the section under proc.lock.                            *)
LEMMA StartEnlistStep ==
  ASSUME TasksInv, NEW n \in Threads, StartEnlist(n)
  PROVE  TasksInv'
<1>1. PICK p \in Procs : p = owner[n] /\ status[p] = "running" /\ pc[n] = "enlist"
  BY Live1 DEF StartEnlist
<1> USE TasksAssumption DEF TasksInv
<1>2. TypeOK'
  BY <1>1 DEF TypeOK, Steps, StartEnlist, Goto
<1>3. \A q \in Procs : VcpusOf(q)' = VcpusOf(q) /\ (q # p => TasksOf(q)' = TasksOf(q))
  BY <1>1 DEF VcpusOf, TasksOf, WithVcpu, Enlisted, Steps, TypeOK, StartEnlist, Goto
<1>4. TasksOf(p)' = TasksOf(p) \cup {n} /\ n \notin TasksOf(p)
  BY <1>1 DEF TasksOf, Enlisted, Steps, TypeOK, StartEnlist, Goto
<1>5. Cardinality(TasksOf(p)') = Cardinality(TasksOf(p)) + 1 /\ Cardinality(TasksOf(p)) \in Nat
  <2>1. IsFiniteSet(TasksOf(p))
    BY FS_Subset DEF TasksOf
  <2> QED
    BY <2>1, <1>4, FS_AddElement, FS_CardinalityType
<1>6. Fresh'
  BY <1>1 DEF Fresh, TypeOK, StartEnlist, Goto
<1>7. VcpuInv'
  BY <1>1, SameVcpus DEF StartEnlist, Goto, WithVcpu, VmDown
<1>8. MakerInv'
  BY <1>1 DEF MakerInv, TypeOK, StartEnlist, Goto
<1>9. CountInv'
  BY <1>1, <1>3, <1>5 DEF CountInv, TypeOK, StartEnlist, Goto
<1>10. AloneInv'
  BY <1>1 DEF AloneInv, TypeOK, StartEnlist, Goto
<1> QED
  BY <1>2, <1>6, <1>7, <1>8, <1>9, <1>10 DEF StartEnlist

(* __start_thread: the signal to the maker.                                *)
LEMMA StartReportStep ==
  ASSUME TasksInv, NEW n \in Threads, StartReport(n)
  PROVE  TasksInv'
<1>1. owner[n] \in Procs /\ status[owner[n]] = "running" /\ pc[n] = "report"
  BY Live1 DEF StartReport
<1> USE TasksAssumption DEF TasksInv
<1>2. TypeOK'
  BY <1>1 DEF TypeOK, Steps, StartReport, procVars
<1>3. \A q \in Procs : VcpusOf(q)' = VcpusOf(q) /\ TasksOf(q)' = TasksOf(q)
  BY <1>1 DEF VcpusOf, TasksOf, WithVcpu, Enlisted, Steps, TypeOK, StartReport
<1>6. Fresh'
  BY <1>1 DEF Fresh, TypeOK, StartReport, procVars
<1>7. VcpuInv'
  BY <1>1, <1>3 DEF VcpuInv, TypeOK, Fresh, StartReport, procVars, WithVcpu, VmDown
<1>8. MakerInv'
  BY <1>1 DEF MakerInv, TypeOK, StartReport, procVars
<1>9. CountInv'
  BY <1>1, <1>3 DEF CountInv, TypeOK, StartReport, procVars
<1>10. AloneInv'
  BY <1>1 DEF AloneInv, TypeOK, StartReport, procVars
<1> QED
  BY <1>2, <1>6, <1>7, <1>8, <1>9, <1>10 DEF StartReport, procVars

(* A set of one element that has t in it is {t}.                           *)
LEMMA OnlyElement ==
  ASSUME NEW S \in SUBSET Threads, NEW t \in S, Cardinality(S) <= 1
  PROVE  S = {t}
<1>1. IsFiniteSet(S) /\ Cardinality(S) \in Nat
  BY TasksAssumption, FS_Subset, FS_CardinalityType
<1>2. Cardinality({t}) = 1 /\ {t} \in SUBSET S
  BY FS_Singleton
<1>3. Cardinality({t}) <= Cardinality(S) /\ (Cardinality(S) = Cardinality({t}) => S = {t})
  BY <1>1, <1>2, FS_Subset
<1> QED
  BY <1>1, <1>2, <1>3

(* A step of a thread that touches nothing but its place, from one place   *)
(* with a vcpu to another.                                                 *)
LEMMA MoveStep ==
  ASSUME TasksInv, NEW t \in Threads, owner[t] \in Procs, status[owner[t]] = "running",
         NEW s, Goto(t, s),
         \/ pc[t] = "guest" /\ s \in {"exit_vcpu", "exec", "fork_destroy"}
         \/ pc[t] = "exit_lock" /\ s = "exit_count"
         \/ pc[t] = "fork" /\ s = "reentry"
         \/ pc[t] = "reentry" /\ s = "retry",
         \A u \in Threads : ~early /\ u # t /\ owner[u] = owner[t] =>
           /\ s = "fork_destroy" => pc[u] \in {"exit_lock", "exit_count", "gone"}
           /\ s = "exec" => pc[u] = "gone",
         lock' \in [Procs -> Threads \cup {NoThread}],
         UNCHANGED <<status, nr_tasks, tasks, nr_vcpus, vcpus, hv, vm, owner, maker, arg, early>>
  PROVE  TasksInv'
<1> USE TasksAssumption DEF TasksInv
<1>2. TypeOK'
  BY DEF TypeOK, Steps, Goto
<1>3. \A q \in Procs : VcpusOf(q)' = VcpusOf(q) /\ TasksOf(q)' = TasksOf(q)
  BY DEF VcpusOf, TasksOf, WithVcpu, Enlisted, Steps, TypeOK, Goto
<1>6. Fresh'
  BY DEF Fresh, TypeOK, Goto
<1>7. VcpuInv'
  BY SameVcpus DEF Goto, WithVcpu, VmDown
<1>8. MakerInv'
  BY DEF MakerInv, TypeOK, Goto
<1>9. CountInv'
  BY <1>3 DEF CountInv, TypeOK, Goto
<1>10. AloneInv'
  BY DEF AloneInv, TypeOK, Goto
<1> QED
  BY <1>2, <1>6, <1>7, <1>8, <1>9, <1>10

(* do_exec: nr_tasks is at most 1, so every other thread has left the      *)
(* list.  A thread not yet in the list would have a maker, which is in it. *)
LEMMA ExecCheckStep ==
  ASSUME TasksInv, NEW t \in Threads, ExecCheck(t)
  PROVE  TasksInv'
<1>1. owner[t] \in Procs /\ status[owner[t]] = "running" /\ pc[t] = "guest"
  BY Live1 DEF ExecCheck
<1> USE TasksAssumption DEF TasksInv
<1>2. ASSUME NEW u \in Threads, ~early, u # t, owner[u] = owner[t]
      PROVE  pc[u] = "gone"
  <2>1. Cardinality(TasksOf(owner[t])) <= 1
    <3>1. Cardinality(TasksOf(owner[t])) \in Nat
      BY FS_Subset, FS_CardinalityType DEF TasksOf
    <3> QED
      BY <1>1, <1>2, <3>1 DEF ExecCheck, CountInv, TypeOK
  <2>2. TasksOf(owner[t]) = {t}
    BY <1>1, <2>1, OnlyElement DEF TasksOf, Enlisted, Steps
  <2>3. pc[u] \in {"start", "enlist", "gone"}
    BY <1>1, <1>2, <2>2 DEF TasksOf, Enlisted, Steps, TypeOK, Fresh
  <2>4. pc[u] \in {"start", "enlist"} => maker[u] \in TasksOf(owner[t]) /\ pc[maker[u]] = "create_wait"
    BY <1>1, <1>2 DEF TasksOf, Enlisted, Steps, TypeOK, MakerInv
  <2> QED
    BY <1>1, <2>2, <2>3, <2>4
<1> QED
  BY <1>1, <1>2, MoveStep DEF ExecCheck, procVars, TypeOK

(* vmm_snapshot: nr_vcpus is at most 1, so that no other thread has a      *)
(* vcpu.                                                                   *)
LEMMA ForkSnapshotStep ==
  ASSUME TasksInv, NEW t \in Threads, ForkSnapshot(t)
  PROVE  TasksInv'
<1>1. owner[t] \in Procs /\ status[owner[t]] = "running" /\ pc[t] = "guest"
  BY Live1 DEF ForkSnapshot
<1> USE TasksAssumption DEF TasksInv
<1>2. CASE Terminate(owner[t], "unsupported")
  BY <1>1, <1>2, TerminateStep DEF Ends
<1>3. CASE nr_vcpus[owner[t]] <= 1 /\ Goto(t, "fork_destroy") /\ UNCHANGED <<procVars, owner, maker, arg, early>>
  <2>1. ASSUME NEW u \in Threads, ~early, u # t, owner[u] = owner[t]
        PROVE  pc[u] \in {"exit_lock", "exit_count", "gone"}
    <3>1. VcpusOf(owner[t]) = {t}
      <4>1. t \in VcpusOf(owner[t]) /\ VcpusOf(owner[t]) \in SUBSET Threads
        BY <1>1 DEF VcpusOf, WithVcpu
      <4>2. Cardinality(VcpusOf(owner[t])) <= 1
        BY <1>1, <1>3 DEF VcpuInv
      <4> QED
        BY <4>1, <4>2, OnlyElement
    <3>2. pc[u] \in {"start", "exit_lock", "exit_count", "gone"}
      BY <1>1, <2>1, <3>1 DEF VcpusOf, WithVcpu, Steps, TypeOK, Fresh
    <3>3. pc[u] = "start" => maker[u] \in VcpusOf(owner[t]) /\ pc[maker[u]] = "create_wait"
      BY <1>1, <2>1 DEF VcpusOf, WithVcpu, TypeOK, MakerInv
    <3> QED
      BY <1>1, <3>1, <3>2, <3>3
  <2> QED
    BY <1>1, <1>3, <2>1, MoveStep DEF procVars, TypeOK
<1> QED
  BY <1>2, <1>3 DEF ForkSnapshot

(* The steps that move one thread and change no more than proc.lock.       *)
LEMMA PlainSteps ==
  ASSUME TasksInv, NEW t \in Threads,
         ExitClearTid(t) \/ ExitLock(t) \/ ForkFails(t) \/ ReentryFails(t)
  PROVE  TasksInv'
<1>0. lock \in [Procs -> Threads \cup {NoThread}]
  BY DEF TasksInv, TypeOK
<1>1. CASE ExitClearTid(t)
  <2>1. owner[t] \in Procs /\ status[owner[t]] = "running" /\ pc[t] = "guest"
    BY <1>1, Live1 DEF ExitClearTid
  <2> QED
    BY <1>0, <1>1, <2>1, MoveStep DEF ExitClearTid, procVars
<1>2. CASE ExitLock(t)
  <2>1. owner[t] \in Procs /\ status[owner[t]] = "running" /\ pc[t] = "exit_lock"
    BY <1>2, Live1 DEF ExitLock
  <2>2. lock' \in [Procs -> Threads \cup {NoThread}]
    BY <1>0, <1>2 DEF ExitLock
  <2> QED
    BY <1>2, <2>1, <2>2, MoveStep DEF ExitLock
<1>3. CASE ForkFails(t)
  <2>1. owner[t] \in Procs /\ status[owner[t]] = "running" /\ pc[t] = "fork"
    BY <1>3, Live1 DEF ForkFails
  <2> QED
    BY <1>0, <1>3, <2>1, MoveStep DEF ForkFails, procVars
<1>4. CASE At(t, "reentry") /\ Goto(t, "retry") /\ UNCHANGED <<procVars, owner, maker, arg, early>>
  <2>1. owner[t] \in Procs /\ status[owner[t]] = "running" /\ pc[t] = "reentry"
    BY <1>4, Live1
  <2>2. UNCHANGED <<status, nr_tasks, tasks, nr_vcpus, vcpus, hv, vm, owner, maker, arg, early>>
    BY <1>4 DEF procVars
  <2>3. lock' \in [Procs -> Threads \cup {NoThread}]
    BY <1>0, <1>4 DEF procVars
  <2>4. Goto(t, "retry")
    BY <1>4
  <2> QED
    BY <2>1, <2>2, <2>3, <2>4, MoveStep
<1>5. CASE (At(t, "reentry") \/ At(t, "retry")) /\ Terminate(owner[t], "panic")
  <2>1. owner[t] \in Procs /\ status[owner[t]] = "running"
    BY <1>5, Live1
  <2> QED
    BY <1>5, <2>1, TerminateStep DEF Ends
<1> QED
  BY <1>1, <1>2, <1>3, <1>4, <1>5 DEF ReentryFails

(* prepare_newproc: nr_tasks was 1 already, or the count of a forked       *)
(* process is put right.                                                   *)
LEMMA ExecReplaceStep ==
  ASSUME TasksInv, NEW t \in Threads, ExecReplace(t)
  PROVE  TasksInv'
<1>1. PICK p \in Procs : p = owner[t] /\ status[p] = "running" /\ pc[t] = "exec"
  BY Live1 DEF ExecReplace
<1> USE TasksAssumption DEF TasksInv
<1>2. TypeOK'
  BY <1>1 DEF TypeOK, Steps, ExecReplace, Goto
<1>3. \A q \in Procs : VcpusOf(q)' = VcpusOf(q) /\ TasksOf(q)' = TasksOf(q)
  BY <1>1 DEF VcpusOf, TasksOf, WithVcpu, Enlisted, Steps, TypeOK, ExecReplace, Goto
<1>4. t \in TasksOf(p) /\ IsFiniteSet(TasksOf(p)) /\ Cardinality(TasksOf(p)) \in Nat \ {0}
  <2>1. t \in TasksOf(p) /\ TasksOf(p) \in SUBSET Threads
    BY <1>1 DEF TasksOf, Enlisted, Steps
  <2>2. IsFiniteSet(TasksOf(p))
    BY <2>1, FS_Subset
  <2> QED
    BY <2>1, <2>2, FS_CardinalityType, FS_EmptySet
<1>5. ~early => Cardinality(TasksOf(p)) = 1
  <2>1. ~early => TasksOf(p) = {t}
    <3>1. \A u \in Threads : ~early /\ u # t /\ owner[u] = p => pc[u] = "gone"
      BY <1>1 DEF AloneInv
    <3> QED
      BY <1>4, <3>1 DEF TasksOf, Enlisted
  <2> QED
    BY <2>1, FS_Singleton
<1>6. Fresh'
  BY <1>1 DEF Fresh, TypeOK, ExecReplace, Goto
<1>7. VcpuInv'
  BY <1>1, SameVcpus DEF ExecReplace, Goto, WithVcpu, VmDown
<1>8. MakerInv'
  BY <1>1 DEF MakerInv, TypeOK, ExecReplace, Goto
<1>9. CountInv'
  BY <1>1, <1>3, <1>4, <1>5 DEF CountInv, TypeOK, ExecReplace, Goto
<1>10. AloneInv'
  BY <1>1 DEF AloneInv, TypeOK, ExecReplace, Goto
<1> QED
  BY <1>2, <1>6, <1>7, <1>8, <1>9, <1>10 DEF ExecReplace

(* vmm_destroy_vcpu in a thread that exits.                                *)
LEMMA ExitVcpuStep ==
  ASSUME TasksInv, NEW t \in Threads, ExitVcpu(t)
  PROVE  TasksInv'
<1>1. PICK p \in Procs : p = owner[t] /\ status[p] = "running" /\ pc[t] = "exit_vcpu"
  BY Live1 DEF ExitVcpu
<1> USE TasksAssumption DEF TasksInv
<1>3. \A q \in Procs : TasksOf(q)' = TasksOf(q) /\ (q # p => VcpusOf(q)' = VcpusOf(q))
  BY <1>1 DEF VcpusOf, TasksOf, WithVcpu, Enlisted, Steps, TypeOK, ExitVcpu, Goto
<1>4. VcpusOf(p)' = VcpusOf(p) \ {t} /\ t \in VcpusOf(p)
  BY <1>1 DEF VcpusOf, WithVcpu, TypeOK, ExitVcpu, Goto
<1>5. /\ Cardinality(VcpusOf(p)') = Cardinality(VcpusOf(p)) - 1
      /\ Cardinality(VcpusOf(p)) \in Nat \ {0}
  <2>1. IsFiniteSet(VcpusOf(p))
    BY FS_Subset DEF VcpusOf
  <2>2. Cardinality(VcpusOf(p)) \in Nat /\ Cardinality(VcpusOf(p)) # 0
    BY <2>1, <1>4, FS_CardinalityType, FS_EmptySet
  <2>3. Cardinality(VcpusOf(p) \ {t}) = Cardinality(VcpusOf(p)) - 1
    BY <2>1, <1>4, FS_RemoveElement
  <2> QED
    BY <1>4, <2>2, <2>3
<1>2. TypeOK'
  <2>1. nr_vcpus[p] - 1 \in Nat
    <3>1. nr_vcpus[p] = Cardinality(VcpusOf(p))
      BY <1>1 DEF VcpuInv
    <3> QED
      BY <1>5, <3>1
  <2> QED
    BY <1>1, <2>1 DEF TypeOK, Steps, ExitVcpu, Goto
<1>6. Fresh'
  BY <1>1 DEF Fresh, TypeOK, ExitVcpu, Goto
<1>7. VcpuInv'
  <2>1. ASSUME NEW q \in Procs, status[q] = "running"
        PROVE  vcpus'[q] = VcpusOf(q)' /\ nr_vcpus'[q] = Cardinality(VcpusOf(q)')
    <3>1. CASE q = p
      <4>1. vcpus'[p] = vcpus[p] \ {t} /\ nr_vcpus'[p] = nr_vcpus[p] - 1
        BY <1>1 DEF TypeOK, ExitVcpu
      <4>2. vcpus[p] = VcpusOf(p) /\ nr_vcpus[p] = Cardinality(VcpusOf(p))
        BY <1>1 DEF VcpuInv
      <4> QED
        BY <1>4, <1>5, <3>1, <4>1, <4>2
    <3>2. CASE q # p
      BY <1>1, <1>3, <2>1, <3>2 DEF VcpuInv, TypeOK, ExitVcpu
    <3> QED
      BY <3>1, <3>2
  <2>2. ASSUME NEW u \in Threads, pc'[u] \in WithVcpu \ VmDown
        PROVE  vm'[owner'[u]] /\ u \in hv'[owner'[u]]
    BY <1>1, <2>2 DEF VcpuInv, TypeOK, WithVcpu, VmDown, ExitVcpu, Goto
  <2>3. ASSUME NEW u \in Threads, pc'[u] \in VmDown
        PROVE  (~vm[owner[u]] /\ VcpusOf(owner[u]) = {u})'
    <3>1. u # t /\ pc[u] \in VmDown
      BY <1>1, <2>3 DEF TypeOK, VmDown, ExitVcpu, Goto
    <3>2. owner[u] \in Procs
      BY <3>1 DEF TypeOK, Fresh, VmDown
    <3>3. owner[u] # p
      <4>1. VcpusOf(owner[u]) = {u}
        BY <3>1 DEF VcpuInv
      <4> QED
        BY <1>4, <3>1, <4>1
    <3> QED
      BY <1>1, <1>3, <3>1, <3>2, <3>3 DEF VcpuInv, TypeOK, ExitVcpu
  <2> QED
    BY <2>1, <2>2, <2>3 DEF VcpuInv, ExitVcpu
<1>8. MakerInv'
  BY <1>1 DEF MakerInv, TypeOK, ExitVcpu, Goto
<1>9. CountInv'
  BY <1>1, <1>3, <1>5 DEF CountInv, TypeOK, ExitVcpu, Goto
<1>10. AloneInv'
  BY <1>1 DEF AloneInv, TypeOK, ExitVcpu, Goto
<1> QED
  BY <1>2, <1>6, <1>7, <1>8, <1>9, <1>10 DEF ExitVcpu

(* do_exit under proc.lock: the last task ends the process, so that the    *)
(* last thread of the first process is never lost to pthread_exit.         *)
LEMMA ExitCountStep ==
  ASSUME TasksInv, NEW t \in Threads, ExitCount(t)
  PROVE  TasksInv'
<1>1. PICK p \in Procs : p = owner[t] /\ status[p] = "running" /\ pc[t] = "exit_count"
  BY Live1 DEF ExitCount
<1> USE TasksAssumption DEF TasksInv
<1>2. CASE Terminate(p, "reason")
  BY <1>1, <1>2, TerminateStep DEF Ends
<1>3. CASE /\ nr_tasks[p] # 1
           /\ nr_tasks' = [nr_tasks EXCEPT ![p] = @ - 1]
           /\ tasks' = [tasks EXCEPT ![p] = @ \ {t}]
           /\ lock' = [lock EXCEPT ![p] = NoThread]
           /\ pc' = [pc EXCEPT ![t] = "gone"]
           /\ status' = [status EXCEPT ![p] = IF Live(p) = {t} THEN "lost" ELSE @]
           /\ UNCHANGED <<nr_vcpus, vcpus, hv, vm, owner, maker, arg, early>>
  <2>1. nr_tasks[p] \in Nat /\ nr_tasks[p] >= 2
    BY <1>1, <1>3 DEF TypeOK, CountInv
  <2>2. TypeOK'
    BY <1>1, <1>3, <2>1 DEF TypeOK, Steps
  <2>3. \A q \in Procs : VcpusOf(q)' = VcpusOf(q) /\ (q # p => TasksOf(q)' = TasksOf(q))
    BY <1>1, <1>3 DEF VcpusOf, TasksOf, WithVcpu, Enlisted, Steps, TypeOK
  <2>4. TasksOf(p)' = TasksOf(p) \ {t} /\ t \in TasksOf(p) /\ TasksOf(p) \in SUBSET Threads
    BY <1>1, <1>3 DEF TasksOf, Enlisted, Steps, TypeOK
  <2>5. /\ Cardinality(TasksOf(p)') = Cardinality(TasksOf(p)) - 1
        /\ Cardinality(TasksOf(p)) \in Nat
    <3>1. IsFiniteSet(TasksOf(p))
      BY FS_Subset, <2>4
    <3> QED
      BY <3>1, <2>4, FS_RemoveElement, FS_CardinalityType
  <2>6. Live(p) = {t} => Cardinality(TasksOf(p)) = 1
    <3>1. TasksOf(p) \subseteq Live(p)
      BY DEF TasksOf, Live, Enlisted
    <3>2. Live(p) = {t} => TasksOf(p) = {t}
      BY <2>4, <3>1
    <3> QED
      BY <3>2, FS_Singleton
  <2>7. status[Root] # "lost" /\ status'[Root] # "lost"
    BY <1>1, <1>3, <2>1, <2>5, <2>6 DEF CountInv, TypeOK
  <2>8. Fresh'
    BY <1>1, <1>3 DEF Fresh, TypeOK, Live
  <2>9. VcpuInv'
    BY <1>1, <1>3, <2>3 DEF VcpuInv, TypeOK, Fresh, WithVcpu, VmDown
  <2>10. MakerInv'
    BY <1>1, <1>3 DEF MakerInv, TypeOK
  <2>11. CountInv'
    BY <1>1, <1>3, <2>1, <2>3, <2>5 DEF CountInv, TypeOK
  <2>12. AloneInv'
    BY <1>1, <1>3 DEF AloneInv, TypeOK
  <2> QED
    BY <2>2, <2>7, <2>8, <2>9, <2>10, <2>11, <2>12
<1> QED
  BY <1>1, <1>2, <1>3 DEF ExitCount, ExitLast, Goto

(* vmm_destroy meets no vcpu but the caller's.                             *)
LEMMA ForkDestroyStep ==
  ASSUME TasksInv, NEW t \in Threads, ForkDestroy(t)
  PROVE  TasksInv'
<1>1. PICK p \in Procs : p = owner[t] /\ status[p] = "running" /\ pc[t] = "fork_destroy"
  BY Live1 DEF ForkDestroy
<1> USE TasksAssumption DEF TasksInv
<1>2. CASE Terminate(p, "panic")
  BY <1>1, <1>2, TerminateStep DEF Ends
<1>3. CASE /\ vcpus[p] \subseteq {t}
           /\ hv' = [hv EXCEPT ![p] = {}]
           /\ vm' = [vm EXCEPT ![p] = FALSE]
           /\ pc' = [pc EXCEPT ![t] = "fork"]
           /\ UNCHANGED <<status, nr_tasks, tasks, lock, nr_vcpus, vcpus, owner, maker, arg, early>>
  <2>1. TypeOK'
    BY <1>1, <1>3 DEF TypeOK, Steps
  <2>2. \A q \in Procs : VcpusOf(q)' = VcpusOf(q) /\ TasksOf(q)' = TasksOf(q)
    BY <1>1, <1>3 DEF VcpusOf, TasksOf, WithVcpu, Enlisted, Steps, TypeOK
  <2>3. VcpusOf(p) = {t}
    <3>1. t \in VcpusOf(p)
      BY <1>1 DEF VcpusOf, WithVcpu
    <3> QED
      BY <1>1, <1>3, <3>1 DEF VcpuInv
  <2>4. \A u \in Threads : u # t /\ owner[u] = p => pc[u] \notin WithVcpu
    BY <2>3 DEF VcpusOf
  <2>5. Fresh'
    BY <1>1, <1>3 DEF Fresh, TypeOK
  <2>6. VcpuInv'
    <3>1. ASSUME NEW u \in Threads, pc'[u] \in WithVcpu \ VmDown
          PROVE  vm'[owner'[u]] /\ u \in hv'[owner'[u]]
      <4>1. u # t /\ pc[u] \in WithVcpu \ VmDown /\ owner[u] # p /\ owner[u] \in Procs
        BY <1>1, <1>3, <2>4, <3>1 DEF TypeOK, Fresh, WithVcpu, VmDown
      <4> QED
        BY <1>1, <1>3, <4>1 DEF VcpuInv, TypeOK
    <3>2. ASSUME NEW u \in Threads, pc'[u] \in VmDown
          PROVE  (~vm[owner[u]] /\ VcpusOf(owner[u]) = {u})'
      <4>1. CASE u = t
        BY <1>1, <1>3, <2>2, <2>3, <4>1 DEF TypeOK
      <4>2. CASE u # t
        <5>1. pc[u] \in VmDown /\ owner[u] # p /\ owner[u] \in Procs
          BY <1>1, <1>3, <2>4, <3>2, <4>2 DEF TypeOK, Fresh, WithVcpu, VmDown
        <5> QED
          BY <1>1, <1>3, <2>2, <5>1 DEF VcpuInv, TypeOK
      <4> QED
        BY <4>1, <4>2
    <3> QED
      BY <1>3, <2>2, <3>1, <3>2 DEF VcpuInv
  <2>7. MakerInv'
    BY <1>1, <1>3 DEF MakerInv, TypeOK
  <2>8. CountInv'
    BY <1>1, <1>3, <2>2 DEF CountInv, TypeOK
  <2>9. AloneInv'
    BY <1>1, <1>3 DEF AloneInv, TypeOK
  <2> QED
    BY <1>3, <2>1, <2>5, <2>6, <2>7, <2>8, <2>9
<1> QED
  BY <1>1, <1>2, <1>3 DEF ForkDestroy, Goto

(* fork(): the child's copies of the lists and counters agree with the one *)
(* thread it has.                                                          *)
LEMMA ForkHostStep ==
  ASSUME TasksInv, NEW t \in Threads, NEW c \in Threads, NEW q \in Procs, ForkHost(t, c, q)
  PROVE  TasksInv'
<1>1. PICK p \in Procs : p = owner[t] /\ status[p] = "running" /\ pc[t] = "fork"
  BY Live1 DEF ForkHost
<1> USE TasksAssumption DEF TasksInv
<1>2. /\ pc[c] = "unused" /\ c # t /\ owner[c] = NoProc /\ maker[c] = NoThread
      /\ status[q] = "unused" /\ q # p /\ q # Root /\ ~vm[q]
      /\ \A u \in Threads : owner[u] # q
  BY <1>1 DEF ForkHost, Fresh
<1>3. /\ status' = [status EXCEPT ![q] = "running"]
      /\ nr_tasks' = [nr_tasks EXCEPT ![q] = nr_tasks[p]]
      /\ tasks' = [tasks EXCEPT ![q] = {IF u = t THEN c ELSE u : u \in tasks[p]}]
      /\ lock' = [lock EXCEPT ![q] = lock[p]]
      /\ nr_vcpus' = [nr_vcpus EXCEPT ![q] = nr_vcpus[p]]
      /\ owner' = [owner EXCEPT ![c] = q]
      /\ pc' = [pc EXCEPT ![t] = "reentry", ![c] = "reentry"]
      /\ UNCHANGED <<hv, vm, maker, arg, early>>
  BY <1>1 DEF ForkHost
<1>15. /\ \A u \in Threads \ {c} : owner'[u] = owner[u]
       /\ \A u \in Threads \ {t, c} : pc'[u] = pc[u]
       /\ owner'[c] = q /\ pc'[t] = "reentry" /\ pc'[c] = "reentry"
  BY <1>2, <1>3 DEF TypeOK
<1>16. status'[q] = "running" /\ \A r \in Procs \ {q} : status'[r] = status[r]
  BY <1>3 DEF TypeOK
<1>4. VcpusOf(p) = {t} /\ vcpus[p] = {t}
  BY <1>1 DEF VcpuInv, VmDown
<1>5. vcpus' = [vcpus EXCEPT ![q] = {c}]
  <2>1. {IF u = t THEN c ELSE u : u \in vcpus[p]} = {c}
    BY <1>4
  <2> QED
    BY <1>1, <2>1 DEF ForkHost
<1>6. TypeOK'
  BY <1>1, <1>3, <1>5 DEF TypeOK, Steps
<1>7. \A r \in Procs : r # q => VcpusOf(r)' = VcpusOf(r) /\ TasksOf(r)' = TasksOf(r)
  <2>1. \A r \in Procs : r # q => VcpusOf(r)' = VcpusOf(r)
    BY <1>1, <1>2, <1>15 DEF VcpusOf, WithVcpu
  <2>2. \A r \in Procs : r # q => TasksOf(r)' = TasksOf(r)
    BY <1>1, <1>2, <1>15 DEF TasksOf, Enlisted, Steps
  <2> QED
    BY <2>1, <2>2
<1>8. VcpusOf(q)' = {c} /\ TasksOf(q)' = {c}
  <2>1. VcpusOf(q)' = {c}
    BY <1>2, <1>15 DEF VcpusOf, WithVcpu
  <2>2. TasksOf(q)' = {c}
    BY <1>2, <1>15 DEF TasksOf, Enlisted, Steps
  <2> QED
    BY <2>1, <2>2
<1>9. Cardinality({c}) = 1 /\ Cardinality({t}) = 1
  BY FS_Singleton
<1>10. Fresh'
  <2>1. status'[Root] # "unused"
    BY <1>2, <1>16 DEF Fresh
  <2>2. ASSUME NEW r \in Procs, status'[r] = "unused"
        PROVE  ~vm'[r] /\ \A u \in Threads : owner'[u] # r
    BY <1>3, <1>15, <1>16, <2>2 DEF Fresh
  <2>3. ASSUME NEW u \in Threads
        PROVE  /\ pc'[u] = "unused" <=> owner'[u] = NoProc
               /\ pc'[u] = "unused" => maker'[u] = NoThread
               /\ owner'[u] \in Procs /\ status'[owner'[u]] # "running" => pc'[u] = "gone"
    <3>1. CASE u = c
      BY <1>15, <1>16, <3>1
    <3>2. CASE u # c
      <4>1. owner'[u] = owner[u] /\ maker'[u] = maker[u] /\ (pc'[u] = pc[u] \/ u = t)
        BY <1>3, <1>15, <3>2
      <4> QED
        BY <1>1, <1>2, <1>15, <1>16, <3>2, <4>1 DEF Fresh
    <3> QED
      BY <3>1, <3>2
  <2> QED
    BY <2>1, <2>2, <2>3 DEF Fresh
<1>11. VcpuInv'
  <2>1. ASSUME NEW r \in Procs, status'[r] = "running"
        PROVE  vcpus'[r] = VcpusOf(r)' /\ nr_vcpus'[r] = Cardinality(VcpusOf(r)')
    <3>1. CASE r = q
      <4>1. nr_vcpus[p] = 1
        BY <1>1, <1>4, <1>9 DEF VcpuInv
      <4> QED
        BY <1>3, <1>5, <1>8, <1>9, <3>1, <4>1 DEF TypeOK
    <3>2. CASE r # q
      BY <1>3, <1>5, <1>7, <2>1, <3>2 DEF VcpuInv, TypeOK
    <3> QED
      BY <3>1, <3>2
  <2>2. ASSUME NEW u \in Threads, pc'[u] \in WithVcpu \ VmDown
        PROVE  vm'[owner'[u]] /\ u \in hv'[owner'[u]]
    BY <1>1, <1>2, <1>3, <2>2 DEF VcpuInv, TypeOK, WithVcpu, VmDown
  <2>3. ASSUME NEW u \in Threads, pc'[u] \in VmDown
        PROVE  (~vm[owner[u]] /\ VcpusOf(owner[u]) = {u})'
    <3>1. CASE u = c
      BY <1>2, <1>3, <1>8, <3>1 DEF TypeOK
    <3>2. CASE u # c
      <4>1. pc[u] \in VmDown /\ owner'[u] = owner[u] /\ owner[u] # q /\ owner[u] \in Procs
        BY <1>1, <1>2, <1>3, <2>3, <3>2 DEF TypeOK, Fresh, VmDown
      <4>2. (VcpusOf(owner[u]))' = VcpusOf(owner[u])
        BY <1>7, <4>1
      <4> QED
        BY <1>3, <4>1, <4>2 DEF VcpuInv
    <3> QED
      BY <3>1, <3>2
  <2> QED
    BY <2>1, <2>2, <2>3 DEF VcpuInv
<1>12. MakerInv'
  <2>1. \A m \in Threads : maker[m] # t /\ maker[m] # c
    BY <1>1, <1>2 DEF MakerInv, TypeOK
  <2> QED
    BY <1>2, <1>3, <1>15, <2>1 DEF MakerInv, TypeOK
<1>13. CountInv'
  <2>1. nr_tasks[p] \in Nat /\ nr_tasks[p] >= 1
    BY <1>1 DEF CountInv, TypeOK
  <2>2. ASSUME NEW r \in Procs, status'[r] = "running"
        PROVE  nr_tasks'[r] >= 1 /\ (~early => nr_tasks'[r] >= Cardinality(TasksOf(r)'))
    <3>1. CASE r = q
      BY <1>3, <1>8, <1>9, <2>1, <3>1 DEF TypeOK
    <3>2. CASE r # q
      BY <1>3, <1>7, <2>2, <3>2 DEF CountInv, TypeOK
    <3> QED
      BY <3>1, <3>2
  <2> QED
    BY <1>2, <1>3, <1>7, <2>2 DEF CountInv, TypeOK
<1>14. AloneInv'
  <2> SUFFICES ASSUME NEW v \in Threads, NEW u \in Threads,
                      ~early, u # v, owner'[u] = owner'[v]
               PROVE  /\ pc'[v] \in {"fork_destroy", "fork"} => pc'[u] \in {"exit_lock", "exit_count", "gone"}
                      /\ pc'[v] = "exec" => pc'[u] = "gone"
    BY <1>3 DEF AloneInv
  <2>1. ASSUME pc'[v] \in {"fork_destroy", "fork", "exec"}
        PROVE  v \notin {t, c} /\ u # c
    BY <1>2, <1>15, <2>1
  <2>2. ASSUME pc'[v] \in {"fork_destroy", "fork", "exec"}
        PROVE  /\ pc'[v] \in {"fork_destroy", "fork"} => pc'[u] \in {"exit_lock", "exit_count", "gone"}
               /\ pc'[v] = "exec" => pc'[u] = "gone"
    <3>1. v \notin {t, c} /\ u # c
      BY <2>1, <2>2
    <3>2. pc'[v] = pc[v] /\ owner[u] = owner[v]
      BY <1>15, <3>1
    <3>3. /\ pc[v] \in {"fork_destroy", "fork"} => pc[u] \in {"exit_lock", "exit_count", "gone"}
          /\ pc[v] = "exec" => pc[u] = "gone"
      BY <3>2 DEF AloneInv
    <3>4. u # t
      BY <1>1, <2>2, <3>2, <3>3
    <3>5. pc'[u] = pc[u]
      BY <1>15, <3>1, <3>4
    <3> QED
      BY <3>2, <3>3, <3>5
  <2> QED
    BY <2>2
<1> QED
  BY <1>2, <1>3, <1>6, <1>10, <1>11, <1>12, <1>13, <1>14 DEF TypeOK

(* vmm_reentry, in the parent and in the child.                            *)
LEMMA ReentryStep ==
  ASSUME TasksInv, NEW t \in Threads, Reentry(t)
  PROVE  TasksInv'
<1>1. PICK p \in Procs : p = owner[t] /\ status[p] = "running" /\ pc[t] \in {"reentry", "retry"}
  BY Live1 DEF Reentry
<1> USE TasksAssumption DEF TasksInv
<1>2. CASE Terminate(p, "unsupported")
  BY <1>1, <1>2, TerminateStep DEF Ends
<1>3. CASE /\ vm' = [vm EXCEPT ![p] = TRUE]
           /\ hv' = [hv EXCEPT ![p] = @ \cup {t}]
           /\ pc' = [pc EXCEPT ![t] = "guest"]
           /\ UNCHANGED <<status, nr_tasks, tasks, lock, nr_vcpus, vcpus, owner, maker, arg, early>>
  <2>1. TypeOK'
    BY <1>1, <1>3 DEF TypeOK, Steps
  <2>2. \A q \in Procs : VcpusOf(q)' = VcpusOf(q) /\ TasksOf(q)' = TasksOf(q)
    BY <1>1, <1>3 DEF VcpusOf, TasksOf, WithVcpu, Enlisted, Steps, TypeOK
  <2>3. VcpusOf(p) = {t}
    BY <1>1 DEF VcpuInv, VmDown
  <2>4. \A u \in Threads : u # t /\ owner[u] = p => pc[u] \notin WithVcpu
    BY <2>3 DEF VcpusOf
  <2>5. Fresh'
    BY <1>1, <1>3 DEF Fresh, TypeOK
  <2>6. VcpuInv'
    <3>1. ASSUME NEW u \in Threads, pc'[u] \in WithVcpu \ VmDown
          PROVE  vm'[owner'[u]] /\ u \in hv'[owner'[u]]
      <4>1. CASE u = t
        BY <1>1, <1>3, <4>1 DEF TypeOK
      <4>2. CASE u # t
        BY <1>1, <1>3, <2>4, <3>1, <4>2 DEF VcpuInv, TypeOK, Fresh, WithVcpu, VmDown
      <4> QED
        BY <4>1, <4>2
    <3>2. ASSUME NEW u \in Threads, pc'[u] \in VmDown
          PROVE  (~vm[owner[u]] /\ VcpusOf(owner[u]) = {u})'
      <4>1. u # t /\ pc[u] \in VmDown /\ owner[u] # p /\ owner[u] \in Procs
        BY <1>1, <1>3, <2>4, <3>2 DEF TypeOK, Fresh, WithVcpu, VmDown
      <4> QED
        BY <1>1, <1>3, <2>2, <4>1 DEF VcpuInv, TypeOK
    <3> QED
      BY <1>3, <2>2, <3>1, <3>2 DEF VcpuInv
  <2>7. MakerInv'
    BY <1>1, <1>3 DEF MakerInv, TypeOK
  <2>8. CountInv'
    BY <1>1, <1>3, <2>2 DEF CountInv, TypeOK
  <2>9. AloneInv'
    BY <1>1, <1>3 DEF AloneInv, TypeOK
  <2> QED
    BY <1>3, <2>1, <2>5, <2>6, <2>7, <2>8, <2>9
<1> QED
  BY <1>1, <1>2, <1>3 DEF Reentry, Goto

(* main sets up a state in the invariant.                                  *)
LEMMA TasksInit == Init => TasksInv
<1> SUFFICES ASSUME Init PROVE TasksInv
  OBVIOUS
<1> DEFINE t == CHOOSE t0 \in Threads : TRUE
<1>1. t \in Threads
  BY TasksAssumption
<1> USE TasksAssumption
<1> HIDE DEF t
<1>2. /\ status = [p \in Procs |-> IF p = Root THEN "running" ELSE "unused"]
      /\ nr_tasks = [p \in Procs |-> IF p = Root THEN 1 ELSE 0]
      /\ tasks = [p \in Procs |-> IF p = Root THEN {t} ELSE {}]
      /\ lock = [p \in Procs |-> NoThread]
      /\ nr_vcpus = nr_tasks /\ vcpus = tasks /\ hv = tasks
      /\ vm = [p \in Procs |-> p = Root]
      /\ owner = [u \in Threads |-> IF u = t THEN Root ELSE NoProc]
      /\ pc = [u \in Threads |-> IF u = t THEN "guest" ELSE "unused"]
      /\ maker = [u \in Threads |-> NoThread]
      /\ arg = [u \in Threads |-> "none"]
      /\ early = FALSE
  BY DEF Init, t
<1>3. VcpusOf(Root) = {t} /\ TasksOf(Root) = {t} /\ Cardinality({t}) = 1
  BY <1>1, <1>2, FS_Singleton DEF VcpusOf, TasksOf, WithVcpu, Enlisted, Steps
<1>4. TypeOK
  BY <1>1, <1>2 DEF TypeOK, Steps
<1>5. Fresh
  BY <1>1, <1>2 DEF Fresh
<1>6. VcpuInv
  BY <1>1, <1>2, <1>3 DEF VcpuInv, WithVcpu, VmDown
<1>7. MakerInv /\ AloneInv
  BY <1>1, <1>2 DEF MakerInv, AloneInv
<1>8. CountInv
  BY <1>1, <1>2, <1>3 DEF CountInv
<1> QED
  BY <1>2, <1>4, <1>5, <1>6, <1>7, <1>8 DEF TasksInv

(* Every step preserves the invariant.                                     *)
LEMMA TasksStep == TasksInv /\ [Next]_vars => TasksInv'
<1> SUFFICES ASSUME TasksInv, [Next]_vars PROVE TasksInv'
  OBVIOUS
<1>1. ASSUME NEW t \in Threads, Kernel(t) PROVE TasksInv'
  <2>1. CASE CloneReturn(t)
    BY <2>1, Live1, CloneDoneStep DEF CloneReturn, TasksInv, TypeOK
  <2>2. CASE \E c \in Threads, q \in Procs : ForkHost(t, c, q)
    BY <2>2, ForkHostStep
  <2> QED
    BY <1>1, <2>1, <2>2, StartVcpuStep, StartEnlistStep, StartReportStep, ExecReplaceStep,
       ExitVcpuStep, ExitCountStep, ForkDestroyStep, ReentryStep, PlainSteps DEF Kernel
<1>2. ASSUME NEW t \in Threads, Program(t) PROVE TasksInv'
  <2>1. CASE ExitGroup(t)
    BY <2>1, Live1, TerminateStep DEF ExitGroup, Ends
  <2> QED
    BY <1>2, <2>1, CloneThreadStep, ExecCheckStep, ForkSnapshotStep, PlainSteps DEF Program
<1>3. ASSUME NEW t \in Threads, CloneReturnEarly(t) PROVE TasksInv'
  BY <1>3, Live1, CloneDoneStep DEF CloneReturnEarly
<1>4. CASE UNCHANGED vars
  <2> USE DEF TasksInv
  <2>0. /\ status' = status /\ nr_tasks' = nr_tasks /\ tasks' = tasks /\ lock' = lock
        /\ nr_vcpus' = nr_vcpus /\ vcpus' = vcpus /\ hv' = hv /\ vm' = vm
        /\ owner' = owner /\ pc' = pc /\ maker' = maker /\ arg' = arg /\ early' = early
    BY <1>4 DEF vars, procVars, threadVars
  <2>1. TypeOK' /\ status'[Root] # "lost"
    BY <2>0 DEF TypeOK
  <2>2. Fresh'
    BY <2>0 DEF Fresh
  <2>3. MakerInv'
    BY <2>0 DEF MakerInv
  <2>4. AloneInv'
    BY <2>0 DEF AloneInv
  <2>5. VcpuInv'
    <3>1. \A q : VcpusOf(q)' = VcpusOf(q)
      BY <2>0 DEF VcpusOf
    <3> QED
      BY <2>0, <3>1 DEF VcpuInv
  <2>6. CountInv'
    BY <2>0 DEF CountInv, TasksOf
  <2> QED
    BY <2>1, <2>2, <2>3, <2>4, <2>5, <2>6
<1> QED
  BY <1>1, <1>2, <1>3, <1>4 DEF Next

(* The inductive invariant holds throughout.                               *)
LEMMA TasksInvariant == Spec => []TasksInv
BY TasksInit, TasksStep, PTL DEF Spec

(* Every variable of the thread and process model keeps its type; in       *)
(* particular neither nr_tasks nor nr_vcpus, decremented by do_exit and    *)
(* vmm_destroy_vcpu, ever goes below zero.                                 *)
THEOREM TasksTypeCorrect == Spec => []TypeOK
<1>1. TasksInv => TypeOK
  BY DEF TasksInv
<1> QED
  BY <1>1, TasksInvariant, PTL

(* vmm_destroy during a fork meets no vcpu of another thread, and execve   *)
(* replaces the address space with no other thread left to use it,         *)
(* although do_exec reads nr_tasks without proc.lock (src/src/proc/exec.c, *)
(* src/src/proc/fork.c).                                                   *)
THEOREM ForkAndExecAlone == Spec => []OthersGone
<1>1. TasksInv => OthersGone
  <2> SUFFICES ASSUME TasksInv, NEW t \in Threads, NEW u \in Threads,
                      ~early, u # t, owner[u] = owner[t]
               PROVE  /\ At(t, "fork_destroy") \/ At(t, "fork") =>
                           u \notin vcpus[owner[t]] /\ pc[u] \in {"exit_lock", "exit_count", "gone"}
                      /\ At(t, "exec") => pc[u] \in {"unused", "gone"}
    BY DEF OthersGone
  <2>1. ASSUME At(t, "fork_destroy") \/ At(t, "fork")
        PROVE  u \notin vcpus[owner[t]] /\ pc[u] \in {"exit_lock", "exit_count", "gone"}
    <3>1. owner[t] \in Procs /\ status[owner[t]] = "running" /\ pc[t] \in {"fork_destroy", "fork"}
      BY <2>1, Live1
    <3>2. pc[u] \in {"exit_lock", "exit_count", "gone"}
      BY <3>1 DEF TasksInv, AloneInv
    <3>3. vcpus[owner[t]] = VcpusOf(owner[t])
      BY <3>1 DEF TasksInv, VcpuInv
    <3> QED
      BY <3>2, <3>3 DEF VcpusOf, WithVcpu
  <2>2. ASSUME At(t, "exec") PROVE pc[u] = "gone"
    BY <2>2 DEF TasksInv, AloneInv, At
  <2> QED
    BY <2>1, <2>2
<1> QED
  BY <1>1, TasksInvariant, PTL

(* proc.nr_tasks counts the tasks of the first process exactly, and in a   *)
(* forked process never too few of them.                                   *)
THEOREM TasksAreCounted == Spec => []TasksCounted
<1>1. TasksInv => TasksCounted
  <2> SUFFICES ASSUME TasksInv, NEW p \in Procs, ~early, status[p] = "running"
               PROVE  /\ nr_tasks[p] >= Cardinality(TasksOf(p))
                      /\ p = Root => nr_tasks[p] = Cardinality(TasksOf(p))
    BY DEF TasksCounted, TasksOf
  <2>1. Cardinality(TasksOf(p)) \in Nat
    BY TasksAssumption, FS_Subset, FS_CardinalityType DEF TasksOf
  <2> QED
    BY <2>1 DEF TasksInv, CountInv, TypeOK
<1> QED
  BY <1>1, TasksInvariant, PTL

(* A thread that runs guest code has a VM, and a vcpu that both the        *)
(* hypervisor and noah's own list know, after any number of forks, failed  *)
(* ones included (vmm_destroy and vmm_reentry in src/lib/vmm.c).           *)
THEOREM GuestsHaveVcpus == Spec => []GuestHasVcpu
<1>1. TasksInv => GuestHasVcpu
  <2> SUFFICES ASSUME TasksInv, NEW t \in Threads, At(t, "guest")
               PROVE  vm[owner[t]] /\ t \in hv[owner[t]] /\ t \in vcpus[owner[t]]
    BY DEF GuestHasVcpu
  <2>1. owner[t] \in Procs /\ status[owner[t]] = "running" /\ pc[t] = "guest"
    BY Live1
  <2> QED
    BY <2>1 DEF TasksInv, VcpuInv, VcpusOf, WithVcpu, VmDown
<1> QED
  BY <1>1, TasksInvariant, PTL

(* The clone_thread_arg that __start_thread reads is not freed before its  *)
(* last use, as long as pthread_cond_wait returns only when it is          *)
(* signalled.                                                              *)
THEOREM ArgumentsOutlive == Spec => []ArgOutlives
<1>1. TasksInv => ArgOutlives
  BY DEF TasksInv, MakerInv, ArgOutlives
<1> QED
  BY <1>1, TasksInvariant, PTL

(* However the exits of the threads of the first process interleave, the   *)
(* process ends with the status given to exit and is never left to end by  *)
(* the pthread_exit of its last thread.                                    *)
THEOREM StatusIsKept == Spec => []StatusKept
<1>1. TasksInv => StatusKept
  BY DEF TasksInv, StatusKept
<1> QED
  BY <1>1, TasksInvariant, PTL
=============================================================================
