------------------------------ MODULE Signals ------------------------------
(***************************************************************************)
(* Signals of one task (src/src/ipc/signal.c) and the loop that runs the   *)
(* guest (src/src/main.c).                                                 *)
(*                                                                         *)
(* A signal is caught twice: Darwin runs __host_signal_handler, which only *)
(* notes it in task.sigpending; task_run() then finds it there, pushes a   *)
(* frame on the guest's stack and runs the guest's handler in a main_loop  *)
(* of its own, which rt_sigreturn leaves.  A signal may arrive between any *)
(* two steps.  Signals have Linux's numbers in noah's own state and        *)
(* Darwin's in host, hostmask and hostpend.  The alternate stack is left   *)
(* out.                                                                    *)
(***************************************************************************)
EXTENDS Conv

CONSTANTS
  Sigs,       \* Linux numbers of the signals that are sent
  Acts,       \* Acts[s]: actions the program sets for s
  Masks,      \* signal sets the program passes to a call
  MaxDepth    \* no signal is sent and no sigsuspend called with as many nested main_loops

Dfl == [h |-> "dfl", once |-> FALSE, block |-> {}]
Ign == [h |-> "ign", once |-> FALSE, block |-> {}]

ASSUME SignalsAssumption ==
  /\ \A s \in Sigs : s \in 1 .. 31 /\ linux_to_darwin_signal(s) > 0
  /\ Masks \subseteq SUBSET (1 .. 64)
  /\ \A s \in Sigs : \A a \in Acts[s] :
       a \in {Dfl, Ign} \/ (a.h = "fn" /\ a.once \in BOOLEAN /\ a.block \subseteq Sigs)
  /\ MaxDepth \in Nat

VARIABLES
  act,       \* proc.sigaction; block is sa_mask, with the signal itself unless SA_NOMASK
  host,      \* the actions Darwin has
  mask,      \* task.sigmask
  hostmask,  \* the mask Darwin has
  pending,   \* task.sigpending
  hostpend,  \* sent, and pending in Darwin
  loops,     \* the nested main_loop(1) calls, each with what its caller does after it
  frames,    \* the signal frames on the guest's stack
  rip,       \* {set} when the guest's rip is at rt_sigsuspend(set), or Elsewhere
  pc,        \* where the task is
  arg        \* the argument of the call it is in

vars == <<act, host, mask, hostmask, pending, hostpend, loops, frames, rip, pc, arg>>

Elsewhere == {}

HostSigs == linux_to_darwin_sigset(Sigs)
HostDfl == [h |-> "dfl", once |-> FALSE]

(* No set of the program blocks these.                                     *)
Never == {LINUX_SIG["KILL"], LINUX_SIG["STOP"]}

(* Darwin delivers what is not blocked before the thread goes on.          *)
Goes(at) == pc = at /\ hostpend \subseteq hostmask

has_sigpending == pending \ mask # {}

(* init_signal: what noah inherits from the process that started it.  The  *)
(* action of a signal is asked for under its number on Linux.              *)
Init ==
  /\ host \in [HostSigs -> {HostDfl, [HostDfl EXCEPT !.h = "ign"]}] /\ hostmask \in SUBSET HostSigs
  /\ act = [s \in Sigs |-> IF s \in HostSigs /\ host[s].h = "ign" THEN Ign ELSE Dfl]
  /\ mask = darwin_to_linux_sigset(hostmask) /\ pending = {} /\ hostpend = {}
  /\ loops = <<>> /\ frames = <<>> /\ rip = Elsewhere /\ pc = "task_run" /\ arg = {}
-----------------------------------------------------------------------------
(* Darwin delivers d: __host_signal_handler, or what SIG_DFL does (all     *)
(* signals of Sigs end the process).  SA_RESETHAND acts here.  sleep()     *)
(* ends.                                                                   *)
Deliver(d) ==
  IF host[d].h = "dfl" THEN pc' = "dead" /\ UNCHANGED <<host, pending>>
  ELSE IF host[d].h = "ign" THEN UNCHANGED <<host, pending, pc>>
  ELSE /\ pending' = pending \cup {darwin_to_linux_signal(d)}
       /\ host' = IF host[d].once THEN [host EXCEPT ![d].h = "dfl"] ELSE host
       /\ pc' = IF pc = "sleep" THEN "woken" ELSE pc

(* Some process sends s, perhaps this one.                                 *)
Kill(s) ==
  LET d == linux_to_darwin_signal(s) IN
  /\ pc # "dead" /\ Len(loops) < MaxDepth
  /\ IF d \notin hostmask THEN Deliver(d) /\ UNCHANGED hostpend
     ELSE hostpend' = (IF host[d].h = "ign" THEN hostpend ELSE hostpend \cup {d})
          /\ UNCHANGED <<host, pending, pc>>
  /\ UNCHANGED <<act, mask, hostmask, loops, frames, rip, arg>>

HostDeliver(d) ==
  /\ pc # "dead" /\ d \in hostpend \ hostmask
  /\ hostpend' = hostpend \ {d} /\ Deliver(d)
  /\ UNCHANGED <<act, mask, hostmask, loops, frames, rip, arg>>
-----------------------------------------------------------------------------
(* Mutant of TaskRun: the handler runs in the loop that is there.          *)
TaskRun_flat ==
  /\ Goes("task_run") /\ pc' = IF has_sigpending THEN "wake" ELSE "guest"
  /\ UNCHANGED <<act, host, mask, hostmask, pending, hostpend, loops, frames, rip, arg>>

(* task_run: handle_signal, in a new main_loop, or vmm_run.                *)
TaskRun ==
  /\ Goes("task_run")
  /\ IF has_sigpending
     THEN pc' = "wake" /\ loops' = Append(loops, [by |-> "task_run", mask |-> {}, hostmask |-> {}])
     ELSE pc' = "guest" /\ UNCHANGED loops
  /\ UNCHANGED <<act, host, mask, hostmask, pending, hostpend, frames, rip, arg>>

(* The guest leaves the VM for an interrupt of the host, HLT, CPUID, the   *)
(* first AVX instruction or a page of the EPT (the signal is a Kill).      *)
Irq ==
  /\ Goes("guest") /\ pc' = "task_run"
  /\ UNCHANGED <<act, host, mask, hostmask, pending, hostpend, loops, frames, rip, arg>>

(* An exception of the guest ends in exit(1), whatever signal it sends.    *)
Exception ==
  /\ Goes("guest") /\ pc' = "dead"
  /\ UNCHANGED <<act, host, mask, hostmask, pending, hostpend, loops, frames, rip, arg>>

(* pop_signal: the lowest bit.                                             *)
Lowest(S) == CHOOSE s \in S : \A t \in S : s <= t

(* setup_sigframe up to the mask of Darwin.                                *)
SetupFrame(s) ==
  /\ mask' = act[s].block
  /\ frames' = Append(frames, [mask |-> mask, rip |-> rip])
  /\ rip' = Elsewhere

(* One round of wake_sighandler.  Signals without a handler are dropped,   *)
(* and the new main_loop is entered even if there was no other.            *)
Wake ==
  /\ Goes("wake")
  /\ \/ /\ ~has_sigpending /\ pc' = "task_run"
        /\ UNCHANGED <<act, mask, pending, frames, rip>>
     \/ /\ has_sigpending
        /\ LET s == Lowest(pending \ mask) IN
           /\ pending' = pending \ {s}
           /\ IF act[s].h = "fn"
              THEN /\ SetupFrame(s) /\ pc' = "host_mask"
                   /\ act' = IF act[s].once THEN [act EXCEPT ![s] = Dfl] ELSE act
              ELSE UNCHANGED <<act, mask, frames, rip, pc>>
  /\ UNCHANGED <<host, hostmask, hostpend, loops, arg>>

(* The frame cannot be pushed: die_with_forcedsig.                         *)
WakeFails ==
  /\ Goes("wake") /\ has_sigpending
  /\ act[Lowest(pending \ mask)].h = "fn" /\ pc' = "dead"
  /\ UNCHANGED <<act, host, mask, hostmask, pending, hostpend, loops, frames, rip, arg>>

(* sigprocmask of setup_sigframe and of rt_sigprocmask.                    *)
HostMask ==
  /\ Goes("host_mask")
  /\ hostmask' = linux_to_darwin_sigset(mask) /\ pc' = "task_run"
  /\ UNCHANGED <<act, host, mask, pending, hostpend, loops, frames, rip, arg>>
-----------------------------------------------------------------------------
(* The guest makes a call; it is not on its way back to rt_sigsuspend.     *)
Calls == Goes("guest") /\ rip = Elsewhere

(* Darwin blocks sa_mask only while it runs __host_signal_handler; of the  *)
(* flags that are copied one by one only the one-shot flag matters here.   *)
linux_to_darwin_sigaction(a) == [h |-> a.h, once |-> a.once]

(* rt_sigaction: Darwin's action first.  SIG_IGN discards what is pending. *)
RtSigaction(s, a) ==
  LET d == linux_to_darwin_signal(s) IN
  /\ Calls /\ pc' = "sigaction" /\ arg' = [sig |-> s, act |-> a]
  /\ host' = [host EXCEPT ![d] = linux_to_darwin_sigaction(a)]
  /\ hostpend' = IF a.h = "ign" THEN hostpend \ {d} ELSE hostpend
  /\ UNCHANGED <<act, mask, hostmask, pending, loops, frames, rip>>

(* Mutant of RtSigactionTable: the table keeps the old action.             *)
RtSigactionTable_kept ==
  /\ Goes("sigaction") /\ pc' = "task_run" /\ arg' = {}
  /\ act' = IF arg.act.h = "fn" THEN [act EXCEPT ![arg.sig] = arg.act] ELSE act
  /\ UNCHANGED <<host, mask, hostmask, pending, hostpend, loops, frames, rip>>

RtSigactionTable ==
  /\ Goes("sigaction") /\ pc' = "task_run" /\ arg' = {}
  /\ act' = [act EXCEPT ![arg.sig] = arg.act]
  /\ UNCHANGED <<host, mask, hostmask, pending, hostpend, loops, frames, rip>>

RtSigprocmask(how, set) ==
  /\ Calls /\ pc' = "host_mask"
  /\ mask' = CASE how = "block" -> mask \cup (set \ Never)
               [] how = "unblock" -> mask \ (set \ Never)
               [] how = "setmask" -> set \ Never
  /\ UNCHANGED <<act, host, hostmask, pending, hostpend, loops, frames, rip, arg>>

(* rt_sigreturn takes the mask of the frame, then Darwin's follows.        *)
RtSigreturn ==
  /\ Calls /\ frames # <<>> /\ pc' = "sigreturn"
  /\ LET f == frames[Len(frames)] IN
     /\ mask' = f.mask /\ rip' = f.rip
     /\ frames' = SubSeq(frames, 1, Len(frames) - 1)
  /\ UNCHANGED <<act, host, hostmask, pending, hostpend, loops, arg>>

(* Back in main_loop, which returns unless it is the outermost: into       *)
(* task_run, which goes on to vmm_run, or into rt_sigsuspend.              *)
LeaveLoop ==
  IF loops = <<>> THEN pc' = "task_run" /\ UNCHANGED <<loops, arg>>
  ELSE LET l == loops[Len(loops)] IN
       /\ loops' = SubSeq(loops, 1, Len(loops) - 1)
       /\ IF l.by = "task_run" THEN pc' = "guest" /\ UNCHANGED arg
          ELSE pc' = "suspended" /\ arg' = l

(* Mutant of RtSigreturnMask: Darwin keeps the mask of the handler.        *)
RtSigreturnMask_kept ==
  /\ Goes("sigreturn") /\ LeaveLoop
  /\ UNCHANGED <<act, host, mask, hostmask, pending, hostpend, frames, rip>>

RtSigreturnMask ==
  /\ Goes("sigreturn") /\ hostmask' = linux_to_darwin_sigset(mask) /\ LeaveLoop
  /\ UNCHANGED <<act, host, mask, pending, hostpend, frames, rip>>
-----------------------------------------------------------------------------
(* rt_sigsuspend: Darwin's mask, the task's mask, sleep.                   *)
RtSigsuspend(set) ==
  /\ Goes("guest") /\ rip \in {Elsewhere, {set}} /\ Len(loops) < MaxDepth
  /\ rip' = {set} /\ arg' = [by |-> "sigsuspend", mask |-> mask, hostmask |-> hostmask]
  /\ hostmask' = linux_to_darwin_sigset(set \ Never) /\ pc' = "suspend"
  /\ UNCHANGED <<act, host, mask, pending, hostpend, loops, frames>>

RtSigsuspendMask ==
  /\ Goes("suspend") /\ mask' = (UNION rip) \ Never /\ pc' = "to_sleep"
  /\ UNCHANGED <<act, host, hostmask, pending, hostpend, loops, frames, rip, arg>>

Sleep ==
  /\ Goes("to_sleep") /\ pc' = "sleep"
  /\ UNCHANGED <<act, host, mask, hostmask, pending, hostpend, loops, frames, rip, arg>>

(* The 114514 seconds are over.                                            *)
SleepEnds ==
  /\ Goes("sleep") /\ pc' = "woken"
  /\ UNCHANGED <<act, host, mask, hostmask, pending, hostpend, loops, frames, rip, arg>>

(* Mutant of Woken: sleep again without asking.                            *)
Woken_again ==
  /\ Goes("woken") /\ pc' = "to_sleep" /\ UNCHANGED <<loops, arg>>
  /\ UNCHANGED <<act, host, mask, hostmask, pending, hostpend, frames, rip>>

Woken ==
  /\ Goes("woken")
  /\ IF has_sigpending THEN pc' = "wake" /\ loops' = Append(loops, arg) /\ arg' = {}
     ELSE pc' = "to_sleep" /\ UNCHANGED <<loops, arg>>
  /\ UNCHANGED <<act, host, mask, hostmask, pending, hostpend, frames, rip>>

(* The handler has returned: the masks from before the call, Darwin's      *)
(* first, and -EINTR.                                                      *)
SuspendedHost ==
  /\ Goes("suspended") /\ hostmask' = arg.hostmask /\ pc' = "suspended_2"
  /\ UNCHANGED <<act, host, mask, pending, hostpend, loops, frames, rip, arg>>

Suspended ==
  /\ Goes("suspended_2") /\ mask' = arg.mask /\ pc' = "task_run"
  /\ rip' = Elsewhere /\ arg' = {}
  /\ UNCHANGED <<act, host, hostmask, pending, hostpend, loops, frames>>
-----------------------------------------------------------------------------
(* execve: reset_signal_state asks Darwin for SIG_DFL under the number     *)
(* that the signal has on Linux.  The main_loops stay.                     *)
Execve ==
  /\ Calls /\ pc' = "task_run" /\ frames' = <<>>
  /\ LET Reset == {s \in Sigs : act[s].h = "fn"} IN
     /\ act' = [s \in Sigs |-> IF s \in Reset THEN Dfl ELSE act[s]]
     /\ host' = [d \in HostSigs |-> IF d \in Reset THEN HostDfl ELSE host[d]]
  /\ UNCHANGED <<mask, hostmask, pending, hostpend, loops, rip, arg>>

(* Go on as the child of a fork: init_task empties the mask of the task,   *)
(* Darwin's is inherited.                                                  *)
Fork ==
  /\ Calls /\ pc' = "task_run"
  /\ mask' = {} /\ pending' = {} /\ hostpend' = {}
  /\ UNCHANGED <<act, host, hostmask, loops, frames, rip, arg>>

(* What goes on by itself, and what the guest does next.                   *)
Task ==
  \/ TaskRun \/ Wake \/ HostMask \/ RtSigactionTable \/ RtSigreturnMask
  \/ RtSigsuspendMask \/ Sleep \/ SleepEnds \/ Woken \/ SuspendedHost \/ Suspended
  \/ \E d \in HostSigs : HostDeliver(d)

Guest ==
  \/ \E s \in Sigs : \E a \in Acts[s] : RtSigaction(s, a)
  \/ \E how \in {"block", "unblock", "setmask"}, set \in Masks : RtSigprocmask(how, set)
  \/ \E set \in Masks : RtSigsuspend(set)
  \/ RtSigreturn \/ Execve \/ Fork

Next == Task \/ Guest \/ Irq \/ Exception \/ WakeFails \/ \E s \in Sigs : Kill(s)

Spec == Init /\ [][Next]_vars

(* The thread is scheduled, and interrupts of the host end vmm_run.        *)
FairSpec == Spec /\ WF_vars(Task) /\ WF_vars(Irq)
-----------------------------------------------------------------------------
(* The signals that both systems have.                                     *)
Names == DOMAIN LINUX_SIG \cap DOMAIN DARWIN_SIG

(* While the guest runs, Darwin blocks, under its own number, every signal *)
(* that the program blocks, after any nesting of handlers, rt_sigsuspend,  *)
(* fork and execve (src/src/conv.c:495-523, src/src/ipc/signal.c:233-478). *)
MaskHeld == pc = "guest" => \A n \in Names : LINUX_SIG[n] \in mask => DARWIN_SIG[n] \in hostmask

(* Every frame on the guest's stack has a main_loop of its own, so that no *)
(* rt_sigreturn is answered by the outermost main_loop.                    *)
LoopPerFrame == pc \notin {"wake", "dead"} => Len(frames) <= Len(loops)

(* While the guest runs, Darwin catches the signals that the program has a *)
(* handler for (other than a one-shot handler, which Darwin may have reset *)
(* already) and ignores those that the program ignores.                    *)
HostFollows ==
  pc = "guest" => \A n \in Names : LINUX_SIG[n] \in Sigs =>
    LET a == act[LINUX_SIG[n]]
        h == host[DARWIN_SIG[n]].h
    IN  (a.h = "fn" /\ ~a.once => h = "fn") /\ (a.h = "ign" => h = "ign")

(* A caught signal that the task does not block is taken by task_run or    *)
(* rt_sigsuspend, whatever the guest does (the guest may also block it).   *)
CaughtIsTaken ==
  \A s \in Sigs : (s \in pending \ mask) ~> (s \notin pending \/ s \in mask \/ pc = "dead")
=============================================================================
