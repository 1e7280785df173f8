--------------------------- MODULE SignalsProofs ---------------------------
(***************************************************************************)
(* Proofs about Signals and the conversion tables it uses: for any set of  *)
(* signals that both systems have, any actions and masks of the program    *)
(* and any nesting of handlers and rt_sigsuspend, Darwin's mask and        *)
(* actions follow the program's.                                           *)
(*                                                                         *)
(* The inductive invariant SigInv follows Darwin's mask through every step *)
(* between a change of the program's mask and the sigprocmask call after   *)
(* it (MaskInv), and counts the main_loops (LoopInv).  FollowInv does the  *)
(* same for the actions.                                                   *)
(***************************************************************************)
EXTENDS Signals, TLAPS, WellFoundedInduction, SequenceTheorems

(* The names of the signals that both systems have, written out.           *)
Shared ==
  {"HUP", "INT", "QUIT", "ILL", "TRAP", "ABRT", "BUS", "FPE", "KILL", "USR1", "SEGV", "USR2",
   "PIPE", "ALRM", "TERM", "CHLD", "CONT", "STOP", "TSTP", "TTIN", "TTOU", "URG", "XCPU", "XFSZ",
   "VTALRM", "PROF", "WINCH", "IO", "SYS"}

(* Names is that set.                                                      *)
LEMMA NamesShared == Names = Shared
BY DEF Names, Shared, LINUX_SIG, DARWIN_SIG

(* Neither table of conv.c gives a number to two signals.                  *)
LEMMA LinuxApart == \A m, n \in Names : LINUX_SIG[m] = LINUX_SIG[n] => m = n
BY NamesShared DEF Shared, LINUX_SIG

LEMMA DarwinApart == \A m, n \in Names : DARWIN_SIG[m] = DARWIN_SIG[n] => m = n
BY NamesShared DEF Shared, DARWIN_SIG

(* All numbers are in 1 .. 31.                                             *)
LEMMA SigRange == \A n \in Names : LINUX_SIG[n] \in 1 .. 31 /\ DARWIN_SIG[n] \in 1 .. 31
BY NamesShared DEF Shared, LINUX_SIG, DARWIN_SIG

(* The two signals that only Linux has are not among them; every other     *)
(* standard signal of Linux is.                                            *)
LEMMA LinuxOnly ==
  \A n \in Names : LINUX_SIG[n] # LINUX_SIG["STKFLT"] /\ LINUX_SIG[n] # LINUX_SIG["PWR"]
BY NamesShared DEF Shared, LINUX_SIG

LEMMA LinuxOnto ==
  \A s \in 1 .. 31 : s \in {LINUX_SIG["STKFLT"], LINUX_SIG["PWR"]} \/ \E n \in Names : s = LINUX_SIG[n]
BY NamesShared DEF Shared, LINUX_SIG

(* linux_to_darwin_signal and darwin_to_linux_signal keep the name of a    *)
(* signal that both systems have (src/src/conv.c:399-493), so that they    *)
(* are inverse to each other.                                              *)
LEMMA ToDarwin == \A n \in Names : linux_to_darwin_signal(LINUX_SIG[n]) = DARWIN_SIG[n]
<1> SUFFICES ASSUME NEW n \in Names
             PROVE  linux_to_darwin_signal(LINUX_SIG[n]) = DARWIN_SIG[n]
  OBVIOUS
<1>1. {m \in DOMAIN LINUX_SIG \cap DOMAIN DARWIN_SIG : LINUX_SIG[m] = LINUX_SIG[n]} = {n}
  BY LinuxApart DEF Names
<1>2. Renumber(LINUX_SIG[n], LINUX_SIG, DARWIN_SIG) = DARWIN_SIG[n]
  BY <1>1 DEF Renumber
<1> QED
  BY <1>2, SigRange DEF linux_to_darwin_signal, linux_to_darwin_signum, LINUX_SIGRTMIN

LEMMA ToLinux == \A n \in Names : darwin_to_linux_signal(DARWIN_SIG[n]) = LINUX_SIG[n]
<1> SUFFICES ASSUME NEW n \in Names
             PROVE  darwin_to_linux_signal(DARWIN_SIG[n]) = LINUX_SIG[n]
  OBVIOUS
<1>1. {m \in DOMAIN DARWIN_SIG \cap DOMAIN LINUX_SIG : DARWIN_SIG[m] = DARWIN_SIG[n]} = {n}
  BY DarwinApart DEF Names
<1>2. Renumber(DARWIN_SIG[n], DARWIN_SIG, LINUX_SIG) = LINUX_SIG[n]
  BY <1>1 DEF Renumber
<1> QED
  BY <1>2, SigRange DEF darwin_to_linux_signal, darwin_to_linux_signum, LINUX_SIGRTMIN

(* The signals of the model, and Darwin's numbers for them.                *)
LEMMA SigsNamed == \A s \in Sigs : \E n \in Names : s = LINUX_SIG[n]
<1> SUFFICES ASSUME NEW s \in Sigs PROVE \E n \in Names : s = LINUX_SIG[n]
  OBVIOUS
<1>1. s \in 1 .. 31 /\ linux_to_darwin_signal(s) > 0
  BY SignalsAssumption
<1>2. Renumber(s, LINUX_SIG, DARWIN_SIG) > 0
  BY <1>1 DEF linux_to_darwin_signal, linux_to_darwin_signum, LINUX_SIGRTMIN
<1>3. {m \in DOMAIN LINUX_SIG \cap DOMAIN DARWIN_SIG : LINUX_SIG[m] = s} # {}
  BY <1>2 DEF Renumber
<1> QED
  BY <1>3 DEF Names

LEMMA HostSigsNamed ==
  /\ \A s \in Sigs : linux_to_darwin_signal(s) \in HostSigs
  /\ \A d \in HostSigs : \E n \in Names : d = DARWIN_SIG[n] /\ LINUX_SIG[n] \in Sigs
<1>1. ASSUME NEW s \in Sigs PROVE linux_to_darwin_signal(s) \in HostSigs
  <2>1. PICK n \in Names : s = LINUX_SIG[n]
    BY SigsNamed
  <2>2. s \notin {LINUX_SIG["STKFLT"], LINUX_SIG["PWR"]}
    BY <2>1, LinuxOnly
  <2>3. linux_to_darwin_signal(s) # 0
    BY <2>1, ToDarwin, SigRange
  <2> QED
    BY <2>2, <2>3 DEF HostSigs, linux_to_darwin_sigset
<1>2. ASSUME NEW d \in HostSigs PROVE \E n \in Names : d = DARWIN_SIG[n] /\ LINUX_SIG[n] \in Sigs
  <2>1. PICK s \in Sigs : d = linux_to_darwin_signal(s)
    BY DEF HostSigs, linux_to_darwin_sigset
  <2>2. PICK n \in Names : s = LINUX_SIG[n]
    BY SigsNamed
  <2> QED
    BY <2>1, <2>2, ToDarwin
<1> QED
  BY <1>1, <1>2

LEMMA HostSigsType == HostSigs \subseteq 1 .. 31 /\ \A d \in HostSigs : darwin_to_linux_signal(d) \in Sigs
BY HostSigsNamed, SigRange, ToLinux

(* Darwin's mask hm blocks, by name, what the program's mask m blocks.     *)
Held(m, hm) == \A n \in Names : LINUX_SIG[n] \in m => DARWIN_SIG[n] \in hm

(* linux_to_darwin_sigset, for any set a program may pass, gives a mask of *)
(* Darwin that blocks the same names,                                      *)
LEMMA SigsetHeld ==
  ASSUME NEW m
  PROVE  Held(m, linux_to_darwin_sigset(m))
<1> SUFFICES ASSUME NEW n \in Names, LINUX_SIG[n] \in m
             PROVE  DARWIN_SIG[n] \in linux_to_darwin_sigset(m)
  BY DEF Held
<1>1. LINUX_SIG[n] \in m \ {LINUX_SIG["STKFLT"], LINUX_SIG["PWR"]}
  BY LinuxOnly
<1>2. DARWIN_SIG[n] = linux_to_darwin_signal(LINUX_SIG[n]) /\ DARWIN_SIG[n] # 0
  BY ToDarwin, SigRange
<1> QED
  BY <1>1, <1>2 DEF linux_to_darwin_sigset

(* and no bit outside of Darwin's signals (the real-time signals are       *)
(* dropped).                                                               *)
LEMMA SigsetType ==
  ASSUME NEW m \in SUBSET (1 .. 64)
  PROVE  linux_to_darwin_sigset(m) \in SUBSET (1 .. 31)
<1> SUFFICES ASSUME NEW s \in m, s \notin {LINUX_SIG["STKFLT"], LINUX_SIG["PWR"]},
                    linux_to_darwin_signal(s) # 0
             PROVE  linux_to_darwin_signal(s) \in 1 .. 31
  BY DEF linux_to_darwin_sigset
<1>1. s \in 1 .. 31
  BY DEF linux_to_darwin_signal, LINUX_SIGRTMIN
<1>2. PICK n \in Names : s = LINUX_SIG[n]
  BY <1>1, LinuxOnto
<1> QED
  BY <1>2, ToDarwin, SigRange

(* init_signal: the mask read back from Darwin is held by it.              *)
LEMMA InheritedHeld ==
  ASSUME NEW hm \in SUBSET HostSigs
  PROVE  Held(darwin_to_linux_sigset(hm), hm) /\ darwin_to_linux_sigset(hm) \in SUBSET (1 .. 64)
<1>1. ASSUME NEW n \in Names, LINUX_SIG[n] \in darwin_to_linux_sigset(hm)
      PROVE  DARWIN_SIG[n] \in hm
  <2>1. PICK d \in hm : LINUX_SIG[n] = darwin_to_linux_signal(d)
    BY <1>1 DEF darwin_to_linux_sigset
  <2>2. PICK m \in Names : d = DARWIN_SIG[m]
    BY HostSigsNamed
  <2> QED
    BY <2>1, <2>2, ToLinux, LinuxApart
<1>2. ASSUME NEW s \in darwin_to_linux_sigset(hm) PROVE s \in 1 .. 64
  <2>1. PICK d \in hm : s = darwin_to_linux_signal(d)
    BY <1>2 DEF darwin_to_linux_sigset
  <2> QED
    BY <2>1, HostSigsType, SignalsAssumption
<1> QED
  BY <1>1, <1>2 DEF Held

(* Every set of natural numbers that is not empty has a least element.     *)
LEMMA LeastExists ==
  ASSUME NEW S \in SUBSET Nat, S # {}
  PROVE  \E m \in S : \A k \in S : m <= k
<1>1. \E x \in S : \A y \in S : ~(<<y, x>> \in OpToRel(<, Nat))
  BY NatLessThanWellFounded, WFMin
<1>2. \A x, y \in Nat : y < x => <<y, x>> \in OpToRel(<, Nat)
  BY Zenon DEF OpToRel
<1>3. \E x \in S : \A y \in S : ~(y < x)
  BY <1>1, <1>2, Zenon
<1> QED
  BY <1>3

(* pop_signal takes a signal that is pending.                              *)
LEMMA LowestIn ==
  ASSUME NEW S \in SUBSET Sigs, S # {}
  PROVE  Lowest(S) \in S
<1>1. S \in SUBSET Nat
  BY SignalsAssumption
<1>2. \E s \in S : \A t \in S : s <= t
  BY <1>1, LeastExists
<1> QED
  BY <1>2 DEF Lowest
-----------------------------------------------------------------------------
(* Signal numbers of Linux, and of Darwin.                                 *)
Numbers == 1 .. 64
HostNumbers == 1 .. 31
(* The actions a signal may have, for the task and in Darwin.              *)
Actions == {Dfl, Ign} \cup UNION {Acts[s] : s \in Sigs}
HostActions == [h : {"dfl", "ign", "fn"}, once : BOOLEAN]
(* What a main_loop and a frame remember.                                  *)
Loop == [by : {"task_run", "sigsuspend"}, mask : SUBSET Numbers, hostmask : SUBSET HostNumbers]
Rips == {Elsewhere} \cup {{set} : set \in Masks}
Frame == [mask : SUBSET Numbers, rip : Rips]
(* Where rt_sigsuspend keeps the masks from before the call, and all       *)
(* places.                                                                 *)
InCall == {"suspend", "to_sleep", "sleep", "woken", "suspended", "suspended_2"}
At == InCall \cup {"task_run", "guest", "wake", "host_mask", "sigaction", "sigreturn", "dead"}

(* The type of every variable.                                             *)
TypeOK ==
  /\ act \in [Sigs -> Actions] /\ host \in [HostSigs -> HostActions]
  /\ mask \in SUBSET Numbers /\ hostmask \in SUBSET HostNumbers
  /\ pending \in SUBSET Sigs /\ hostpend \in SUBSET HostSigs
  /\ loops \in Seq(Loop) /\ frames \in Seq(Frame) /\ rip \in Rips /\ pc \in At
  /\ pc \in InCall => arg \in Loop /\ arg.by = "sigsuspend"
  /\ pc = "sigaction" => arg \in [sig : Sigs, act : Actions]

(* Darwin holds the program's mask wherever no sigprocmask call is due.    *)
(* The masks that rt_sigsuspend will put back, in its own frame or below   *)
(* the main_loops that are nested in it, hold each other too.              *)
MaskInv ==
  /\ pc \in {"task_run", "guest", "wake", "sigaction", "to_sleep", "sleep", "woken"}
       => Held(mask, hostmask)
  /\ pc = "suspend" => hostmask = linux_to_darwin_sigset((UNION rip) \ Never)
  /\ pc \in InCall => Held(arg.mask, arg.hostmask)
  /\ pc = "suspended_2" => hostmask = arg.hostmask
  /\ \A i \in 1 .. Len(loops) : Held(loops[i].mask, loops[i].hostmask)

(* There is a main_loop for every frame, and one more when a frame is      *)
(* about to be pushed or has just been left.                               *)
LoopInv ==
  /\ Len(frames) <= Len(loops)
  /\ pc \in {"wake", "sigreturn"} => Len(frames) < Len(loops)

(* The inductive invariant.                                                *)
SigInv == TypeOK /\ MaskInv /\ LoopInv

(* Whatever action a program sets, Darwin gets one it knows.               *)
LEMMA ActionsType ==
  ASSUME NEW a \in Actions
  PROVE  /\ a.h \in {"dfl", "ign", "fn"} /\ a.once \in BOOLEAN
         /\ a.block \in SUBSET Numbers
         /\ linux_to_darwin_sigaction(a) \in HostActions
<1>1. a.h \in {"dfl", "ign", "fn"} /\ a.once \in BOOLEAN /\ a.block \in SUBSET Numbers
  <2>1. CASE a \in {Dfl, Ign}
    <3>1. a.h \in {"dfl", "ign"} /\ a.once = FALSE /\ a.block = {}
      BY <2>1 DEF Dfl, Ign
    <3> QED
      BY <3>1, Zenon
  <2>2. CASE a \notin {Dfl, Ign}
    <3>1. PICK s \in Sigs : a \in Acts[s]
      BY <2>2 DEF Actions
    <3>2. a.h = "fn" /\ a.once \in BOOLEAN /\ a.block \subseteq Sigs
      BY <2>2, <3>1, SignalsAssumption
    <3>3. Sigs \subseteq 1 .. 31
      BY SignalsAssumption
    <3>4. 1 .. 31 \subseteq Numbers
      BY DEF Numbers
    <3> QED
      BY <3>2, <3>3, <3>4, Zenon
  <2> QED
    BY <2>1, <2>2
<1> QED
  BY <1>1 DEF linux_to_darwin_sigaction, HostActions

(* The set that the guest is about to pass to rt_sigsuspend again.         *)
LEMMA RipsType ==
  ASSUME NEW r \in Rips
  PROVE  UNION r \in SUBSET Numbers
<1>1. CASE r = {}
  BY <1>1
<1>2. CASE \E set \in Masks : r = {set}
  <2>1. PICK set \in Masks : r = {set}
    BY <1>2
  <2>2. set \subseteq Numbers
    BY SignalsAssumption DEF Numbers
  <2> QED
    BY <2>1, <2>2
<1> QED
  BY <1>1, <1>2 DEF Rips, Elsewhere

(* Darwin may deliver a signal between any two steps.                      *)
LEMMA DeliverStep ==
  ASSUME SigInv, NEW d \in HostSigs, pc # "dead", Deliver(d), hostpend' \in SUBSET HostSigs,
         UNCHANGED <<act, mask, hostmask, loops, frames, rip, arg>>
  PROVE  SigInv'
<1>1. TypeOK'
  <2>1. pending' \in SUBSET Sigs
    BY HostSigsType DEF Deliver, SigInv, TypeOK
  <2>2. host' \in [HostSigs -> HostActions]
    <3>1. CASE host' = host
      BY <3>1 DEF SigInv, TypeOK
    <3>2. CASE host' = [host EXCEPT ![d].h = "dfl"]
      BY <3>2 DEF SigInv, TypeOK, HostActions
    <3> QED
      BY <3>1, <3>2 DEF Deliver
  <2>3. pc' \in At /\ (pc' \in InCall => pc \in InCall) /\ (pc' = "sigaction" => pc = "sigaction")
    BY DEF Deliver, SigInv, TypeOK, At, InCall
  <2> QED
    BY <2>1, <2>2, <2>3 DEF SigInv, TypeOK
<1>2. pc' = pc \/ pc' = "dead" \/ (pc = "sleep" /\ pc' = "woken")
  BY DEF Deliver
<1>3. MaskInv'
  BY <1>2 DEF SigInv, MaskInv, InCall, Held
<1>4. LoopInv'
  BY <1>2 DEF SigInv, LoopInv
<1> QED
  BY <1>1, <1>3, <1>4 DEF SigInv

(* A sequence without its last element.                                    *)
LEMMA FrontType ==
  ASSUME NEW S, NEW q \in Seq(S), q # <<>>
  PROVE  LET f == SubSeq(q, 1, Len(q) - 1) IN
         /\ f \in Seq(S) /\ Len(f) = Len(q) - 1 /\ Len(q) \in 1 .. Len(q) /\ q[Len(q)] \in S
         /\ \A i \in 1 .. Len(f) : f[i] = q[i]
<1>1. PICK n \in Nat : n = Len(q) /\ n # 0
  BY EmptySeq
<1>2. \A i \in 1 .. n : q[i] \in S
  BY <1>1
<1>3. n - 1 \in Int /\ 1 \in Int /\ \A i \in 1 .. n - 1 : q[i] \in S
  BY <1>2
<1> DEFINE f == SubSeq(q, 1, n - 1)
<1>4. /\ f \in Seq(S) /\ Len(f) = IF 1 <= n - 1 THEN (n - 1) - 1 + 1 ELSE 0
      /\ \A i \in 1 .. (n - 1) - 1 + 1 : f[i] = q[1 + i - 1]
  BY <1>3, SubSeqProperties
<1> HIDE DEF f
<1>5. Len(f) = n - 1 /\ \A i \in 1 .. n - 1 : f[i] = q[i]
  <2>1. Len(f) = n - 1
    <3>1. CASE n = 1
      BY <3>1, <1>4
    <3>2. CASE n # 1
      <4>1. 1 <= n - 1 /\ (n - 1) - 1 + 1 = n - 1
        BY <1>1, <3>2
      <4> QED
        BY <1>4, <4>1
    <3> QED
      BY <3>1, <3>2
  <2>2. ASSUME NEW i \in 1 .. n - 1 PROVE f[i] = q[i]
    <3>1. i \in 1 .. (n - 1) - 1 + 1 /\ 1 + i - 1 = i
      OBVIOUS
    <3>2. f[i] = q[1 + i - 1]
      BY <1>4, <3>1, Zenon
    <3> QED
      BY <3>1, <3>2
  <2> QED
    BY <2>1, <2>2
<1>6. n \in 1 .. n /\ q[n] \in S
  BY <1>1, <1>2
<1> QED
  BY <1>1, <1>4, <1>5, <1>6 DEF f

(* Every step preserves the invariant.                                     *)
LEMMA SigStep == SigInv /\ [Next]_vars => SigInv'
<1> SUFFICES ASSUME SigInv, [Next]_vars PROVE SigInv'
  OBVIOUS
<1> USE DEF SigInv
<1>1. CASE TaskRun
  <2> USE <1>1 DEF TaskRun, Goes
  <2>1. [by |-> "task_run", mask |-> {}, hostmask |-> {}] \in Loop
    BY DEF Loop
  <2>2. TypeOK'
    <3>1. loops' \in Seq(Loop)
      <4>1. \A l \in Loop : Append(loops, l) \in Seq(Loop)
        BY AppendProperties DEF TypeOK
      <4> QED
        BY <2>1, <4>1 DEF TypeOK
    <3> QED
      BY <3>1 DEF TypeOK, At, InCall
  <2>3. MaskInv'
    <3>1. CASE loops' = loops
      BY <3>1 DEF MaskInv, InCall, Held
    <3>2. CASE loops' = Append(loops, [by |-> "task_run", mask |-> {}, hostmask |-> {}])
      <4>1. \A i \in 1 .. Len(loops') : Held(loops'[i].mask, loops'[i].hostmask)
        BY <3>2 DEF TypeOK, MaskInv, Held
      <4> QED
        BY <4>1 DEF MaskInv, InCall, Held
    <3> QED
      BY <3>1, <3>2
  <2>4. LoopInv'
    BY DEF TypeOK, LoopInv
  <2> QED
    BY <2>2, <2>3, <2>4
<1>2. CASE Irq \/ Exception \/ Sleep \/ SleepEnds \/ WakeFails
  <2>1. /\ UNCHANGED <<act, host, mask, hostmask, pending, hostpend, loops, frames, rip, arg>>
        /\ \/ pc = "guest" /\ pc' = "task_run"
           \/ pc' = "dead"
           \/ pc = "to_sleep" /\ pc' = "sleep"
           \/ pc = "sleep" /\ pc' = "woken"
    BY <1>2 DEF Irq, Exception, Sleep, SleepEnds, WakeFails, Goes
  <2>2. TypeOK'
    BY <2>1 DEF TypeOK, At, InCall
  <2>3. MaskInv'
    BY <2>1 DEF MaskInv, InCall, Held
  <2>4. LoopInv'
    BY <2>1 DEF LoopInv
  <2> QED
    BY <2>2, <2>3, <2>4
<1>3. CASE Wake
  <2> USE <1>3 DEF Wake, Goes
  <2>1. CASE ~has_sigpending /\ pc' = "task_run" /\ UNCHANGED <<act, mask, pending, frames, rip>>
    <3>1. TypeOK'
      BY <2>1 DEF TypeOK, At, InCall
    <3>2. MaskInv'
      BY <2>1 DEF MaskInv, InCall, Held
    <3>3. LoopInv'
      BY <2>1 DEF LoopInv
    <3> QED
      BY <3>1, <3>2, <3>3
  <2>2. CASE has_sigpending
    <3>1. PICK s \in Sigs :
            /\ pending' = pending \ {s}
            /\ IF act[s].h = "fn"
               THEN /\ SetupFrame(s) /\ pc' = "host_mask"
                    /\ act' = IF act[s].once THEN [act EXCEPT ![s] = Dfl] ELSE act
               ELSE UNCHANGED <<act, mask, frames, rip, pc>>
      <4>1. Lowest(pending \ mask) \in Sigs
        <5>1. pending \ mask \in SUBSET Sigs /\ pending \ mask # {}
          BY <2>2 DEF has_sigpending, TypeOK
        <5>2. Lowest(pending \ mask) \in pending \ mask
          BY <5>1, LowestIn, Zenon
        <5> QED
          BY <5>1, <5>2
      <4> QED
        BY <2>2, <4>1
    <3>2. CASE act[s].h = "fn"
      <4>1. /\ mask' = act[s].block /\ frames' = Append(frames, [mask |-> mask, rip |-> rip])
            /\ rip' = Elsewhere /\ pc' = "host_mask"
            /\ act' = IF act[s].once THEN [act EXCEPT ![s] = Dfl] ELSE act
        BY <3>1, <3>2 DEF SetupFrame
      <4>2. mask' \in SUBSET Numbers
        BY <4>1, ActionsType DEF TypeOK
      <4>3. act' \in [Sigs -> Actions]
        <5>1. Dfl \in Actions
          BY DEF Actions
        <5> QED
          BY <4>1, <5>1 DEF TypeOK
      <4>4. rip' \in Rips /\ [mask |-> mask, rip |-> rip] \in Frame
        BY <4>1 DEF TypeOK, Rips, Frame
      <4>5. frames' \in Seq(Frame) /\ Len(frames') = Len(frames) + 1
        <5>1. \A f \in Frame : /\ Append(frames, f) \in Seq(Frame)
                               /\ Len(Append(frames, f)) = Len(frames) + 1
          BY AppendProperties DEF TypeOK
        <5> QED
          BY <4>1, <4>4, <5>1
      <4>6. TypeOK'
        BY <3>1, <4>1, <4>2, <4>3, <4>4, <4>5 DEF TypeOK, At, InCall
      <4>7. MaskInv'
        BY <4>1 DEF MaskInv, InCall, Held
      <4>8. LoopInv'
        BY <4>1, <4>5 DEF LoopInv, TypeOK
      <4> QED
        BY <4>6, <4>7, <4>8
    <3>3. CASE act[s].h # "fn"
      <4>1. UNCHANGED <<act, mask, frames, rip, pc>>
        BY <3>1, <3>3
      <4>2. TypeOK'
        BY <3>1, <4>1 DEF TypeOK, At, InCall
      <4>3. MaskInv'
        BY <4>1 DEF MaskInv, InCall, Held
      <4>4. LoopInv'
        BY <4>1 DEF LoopInv
      <4> QED
        BY <4>2, <4>3, <4>4
    <3> QED
      BY <3>2, <3>3
  <2> QED
    BY <2>1, <2>2
<1>4. CASE HostMask
  <2> USE <1>4 DEF HostMask, Goes
  <2>1. TypeOK'
    BY SigsetType DEF TypeOK, At, InCall, Numbers, HostNumbers
  <2>2. MaskInv'
    BY SigsetHeld DEF MaskInv, InCall
  <2>3. LoopInv'
    BY DEF LoopInv
  <2> QED
    BY <2>1, <2>2, <2>3
<1>5. CASE RtSigactionTable
  <2> USE <1>5 DEF RtSigactionTable, Goes
  <2>1. TypeOK'
    BY DEF TypeOK, At, InCall
  <2>2. MaskInv'
    BY DEF MaskInv, InCall, Held
  <2>3. LoopInv'
    BY DEF LoopInv
  <2> QED
    BY <2>1, <2>2, <2>3
<1>6. CASE RtSigreturnMask
  <2>1. /\ pc = "sigreturn" /\ hostmask' = linux_to_darwin_sigset(mask) /\ LeaveLoop
        /\ act' = act /\ host' = host /\ mask' = mask /\ pending' = pending
        /\ hostpend' = hostpend /\ frames' = frames /\ rip' = rip
    BY <1>6 DEF RtSigreturnMask, Goes
  <2>2. Len(frames) < Len(loops) /\ loops # <<>>
    BY <2>1 DEF LoopInv, TypeOK
  <2> DEFINE l == loops[Len(loops)]
  <2>3. /\ loops' = SubSeq(loops, 1, Len(loops) - 1)
        /\ IF l.by = "task_run" THEN pc' = "guest" /\ arg' = arg ELSE pc' = "suspended" /\ arg' = l
    BY <2>1, <2>2 DEF LeaveLoop
  <2>4. /\ loops' \in Seq(Loop) /\ Len(loops') = Len(loops) - 1
        /\ l \in Loop /\ Len(loops) \in 1 .. Len(loops)
        /\ \A i \in 1 .. Len(loops') : loops'[i] = loops[i]
    BY <2>2, <2>3, FrontType DEF TypeOK
  <2>5. hostmask' \in SUBSET HostNumbers /\ Held(mask, hostmask')
    BY <2>1, SigsetType, SigsetHeld DEF TypeOK, Numbers, HostNumbers
  <2>6. Held(l.mask, l.hostmask)
    BY <2>4 DEF MaskInv
  <2>7. \A i \in 1 .. Len(loops') : Held(loops'[i].mask, loops'[i].hostmask)
    <3>1. ASSUME NEW i \in 1 .. Len(loops') PROVE Held(loops'[i].mask, loops'[i].hostmask)
      <4>1. i \in 1 .. Len(loops) /\ loops'[i] = loops[i]
        BY <2>4 DEF TypeOK
      <4> QED
        BY <4>1 DEF MaskInv
    <3> QED
      BY <3>1
  <2> HIDE DEF l
  <2>8. TypeOK'
    <3>1. l.by \in {"task_run", "sigsuspend"}
      BY <2>4 DEF Loop
    <3> QED
      BY <2>1, <2>3, <2>4, <2>5, <3>1 DEF TypeOK, At, InCall
  <2>9. MaskInv'
    BY <2>1, <2>3, <2>5, <2>6, <2>7 DEF MaskInv, InCall
  <2>10. LoopInv'
    BY <2>1, <2>2, <2>3, <2>4 DEF LoopInv, TypeOK
  <2> QED
    BY <2>8, <2>9, <2>10
<1>7. CASE RtSigsuspendMask
  <2> USE <1>7 DEF RtSigsuspendMask, Goes
  <2>1. mask' \in SUBSET Numbers
    BY RipsType DEF TypeOK
  <2>2. TypeOK'
    BY <2>1 DEF TypeOK, At, InCall
  <2>3. MaskInv'
    BY SigsetHeld DEF MaskInv, InCall
  <2>4. LoopInv'
    BY DEF LoopInv
  <2> QED
    BY <2>2, <2>3, <2>4
<1>8. CASE Woken
  <2> USE <1>8 DEF Woken, Goes
  <2>1. CASE has_sigpending
    <3>1. pc' = "wake" /\ loops' = Append(loops, arg) /\ arg \in Loop /\ Held(arg.mask, arg.hostmask)
      BY <2>1 DEF TypeOK, MaskInv, InCall
    <3>2. /\ loops' \in Seq(Loop) /\ Len(loops') = Len(loops) + 1
          /\ \A i \in 1 .. Len(loops) : loops'[i] = loops[i]
          /\ loops'[Len(loops) + 1] = arg
      BY <3>1, AppendProperties DEF TypeOK
    <3>3. ASSUME NEW i \in 1 .. Len(loops') PROVE Held(loops'[i].mask, loops'[i].hostmask)
      <4>1. i \in 1 .. Len(loops) \/ i = Len(loops) + 1
        BY <3>2 DEF TypeOK
      <4> QED
        BY <3>1, <3>2, <4>1 DEF MaskInv
    <3>4. TypeOK'
      BY <3>1, <3>2 DEF TypeOK, At, InCall
    <3>5. MaskInv'
      BY <3>1, <3>3 DEF MaskInv, InCall, Held
    <3>6. LoopInv'
      BY <3>1, <3>2 DEF LoopInv, TypeOK
    <3> QED
      BY <3>4, <3>5, <3>6
  <2>2. CASE ~has_sigpending
    <3>1. pc' = "to_sleep" /\ loops' = loops /\ arg' = arg
      BY <2>2
    <3>2. TypeOK'
      BY <3>1 DEF TypeOK, At, InCall
    <3>3. MaskInv'
      BY <3>1 DEF MaskInv, InCall, Held
    <3>4. LoopInv'
      BY <3>1 DEF LoopInv
    <3> QED
      BY <3>2, <3>3, <3>4
  <2> QED
    BY <2>1, <2>2
<1>9. CASE SuspendedHost
  <2> USE <1>9 DEF SuspendedHost, Goes
  <2>1. TypeOK'
    BY DEF TypeOK, At, InCall, Loop
  <2>2. MaskInv'
    BY DEF MaskInv, InCall
  <2>3. LoopInv'
    BY DEF LoopInv
  <2> QED
    BY <2>1, <2>2, <2>3
<1>10. CASE Suspended
  <2> USE <1>10 DEF Suspended, Goes
  <2>1. mask' \in SUBSET Numbers /\ rip' \in Rips
    BY DEF TypeOK, InCall, Loop, Rips
  <2>2. TypeOK'
    BY <2>1 DEF TypeOK, At, InCall
  <2>3. MaskInv'
    BY DEF MaskInv, InCall, Held
  <2>4. LoopInv'
    BY DEF LoopInv
  <2> QED
    BY <2>2, <2>3, <2>4
<1>11. ASSUME NEW d \in HostSigs, HostDeliver(d) PROVE SigInv'
  <2>1. hostpend' \in SUBSET HostSigs
    BY <1>11 DEF HostDeliver, TypeOK
  <2> QED
    BY <1>11, <2>1, DeliverStep DEF HostDeliver
<1>12. ASSUME NEW s \in Sigs, Kill(s) PROVE SigInv'
  <2> DEFINE d == linux_to_darwin_signal(s)
  <2>1. d \in HostSigs
    BY HostSigsNamed
  <2>2. hostpend' \in SUBSET HostSigs
    BY <1>12, <2>1 DEF Kill, TypeOK
  <2>3. /\ pc # "dead" /\ UNCHANGED <<act, mask, hostmask, loops, frames, rip, arg>>
        /\ Deliver(d) \/ UNCHANGED <<host, pending, pc>>
    BY <1>12 DEF Kill
  <2> HIDE DEF d
  <2>4. CASE Deliver(d)
    BY <2>1, <2>2, <2>3, <2>4, DeliverStep
  <2>5. CASE UNCHANGED <<host, pending, pc>>
    <3>1. TypeOK'
      BY <2>2, <2>3, <2>5 DEF TypeOK, At, InCall
    <3>2. MaskInv'
      BY <2>3, <2>5 DEF MaskInv, InCall, Held
    <3>3. LoopInv'
      BY <2>3, <2>5 DEF LoopInv
    <3> QED
      BY <3>1, <3>2, <3>3
  <2> QED
    BY <2>3, <2>4, <2>5
<1>13. ASSUME NEW s \in Sigs, NEW a \in Acts[s], RtSigaction(s, a) PROVE SigInv'
  <2> USE <1>13 DEF RtSigaction, Calls, Goes
  <2>1. a \in Actions /\ linux_to_darwin_sigaction(a) \in HostActions
    BY ActionsType DEF Actions
  <2>2. host' \in [HostSigs -> HostActions] /\ hostpend' \in SUBSET HostSigs
    BY <2>1 DEF TypeOK
  <2>3. TypeOK'
    BY <2>1, <2>2 DEF TypeOK, At, InCall
  <2>4. MaskInv'
    BY DEF MaskInv, InCall, Held
  <2>5. LoopInv'
    BY DEF LoopInv
  <2> QED
    BY <2>3, <2>4, <2>5
<1>14. ASSUME NEW how \in {"block", "unblock", "setmask"}, NEW set \in Masks, RtSigprocmask(how, set)
       PROVE  SigInv'
  <2> USE <1>14 DEF RtSigprocmask, Calls, Goes
  <2>1. mask' \in SUBSET Numbers
    <3>1. set \in SUBSET Numbers
      BY SignalsAssumption DEF Numbers
    <3> QED
      BY <3>1 DEF TypeOK
  <2>2. TypeOK'
    BY <2>1 DEF TypeOK, At, InCall
  <2>3. MaskInv'
    BY DEF MaskInv, InCall
  <2>4. LoopInv'
    BY DEF LoopInv
  <2> QED
    BY <2>2, <2>3, <2>4
<1>15. ASSUME NEW set \in Masks, RtSigsuspend(set) PROVE SigInv'
  <2> USE <1>15 DEF RtSigsuspend, Goes
  <2>1. hostmask' \in SUBSET HostNumbers
    <3>1. set \ Never \in SUBSET (1 .. 64)
      BY SignalsAssumption
    <3> QED
      BY <3>1, SigsetType DEF HostNumbers
  <2>2. rip' \in Rips /\ UNION rip' = set
    <3>1. rip' = {set}
      OBVIOUS
    <3> QED
      BY <3>1 DEF Rips
  <2>3. arg' \in Loop /\ arg'.by = "sigsuspend" /\ arg'.mask = mask /\ arg'.hostmask = hostmask
    BY DEF TypeOK, Loop
  <2>4. TypeOK'
    BY <2>1, <2>2, <2>3 DEF TypeOK, At, InCall
  <2>5. MaskInv'
    <3>1. pc' = "suspend" /\ hostmask' = linux_to_darwin_sigset((UNION rip') \ Never)
      BY <2>2
    <3>2. Held(arg'.mask, arg'.hostmask)
      BY <2>3 DEF MaskInv
    <3>3. \A i \in 1 .. Len(loops') : Held(loops'[i].mask, loops'[i].hostmask)
      BY DEF MaskInv
    <3> QED
      BY <3>1, <3>2, <3>3 DEF MaskInv
  <2>6. LoopInv'
    BY DEF LoopInv
  <2> QED
    BY <2>4, <2>5, <2>6
<1>16. CASE RtSigreturn
  <2> USE <1>16 DEF RtSigreturn, Calls, Goes
  <2>1. frames # <<>> /\ frames' = SubSeq(frames, 1, Len(frames) - 1)
    OBVIOUS
  <2>2. frames' \in Seq(Frame) /\ Len(frames') = Len(frames) - 1 /\ frames[Len(frames)] \in Frame
    BY <2>1, FrontType DEF TypeOK
  <2>3. mask' \in SUBSET Numbers /\ rip' \in Rips
    BY <2>2 DEF Frame
  <2>4. TypeOK'
    BY <2>2, <2>3 DEF TypeOK, At, InCall
  <2>5. MaskInv'
    BY DEF MaskInv, InCall
  <2>6. LoopInv'
    BY <2>2 DEF LoopInv, TypeOK
  <2> QED
    BY <2>4, <2>5, <2>6
<1>17. CASE Execve
  <2> USE <1>17 DEF Execve, Calls, Goes
  <2>1. Dfl \in Actions /\ HostDfl \in HostActions /\ frames' \in Seq(Frame) /\ Len(frames') = 0
    BY DEF Actions, HostDfl, HostActions
  <2>2. act' \in [Sigs -> Actions] /\ host' \in [HostSigs -> HostActions]
    BY <2>1 DEF TypeOK
  <2>3. TypeOK'
    BY <2>1, <2>2 DEF TypeOK, At, InCall
  <2>4. MaskInv'
    BY DEF MaskInv, InCall, Held
  <2>5. LoopInv'
    BY <2>1 DEF LoopInv, TypeOK
  <2> QED
    BY <2>3, <2>4, <2>5
<1>18. CASE Fork
  <2> USE <1>18 DEF Fork, Calls, Goes
  <2>1. TypeOK'
    BY DEF TypeOK, At, InCall
  <2>2. MaskInv'
    BY DEF MaskInv, InCall, Held
  <2>3. LoopInv'
    BY DEF LoopInv
  <2> QED
    BY <2>1, <2>2, <2>3
<1>19. CASE UNCHANGED vars
  BY <1>19 DEF vars, TypeOK, MaskInv, LoopInv, InCall, Held
<1> QED
  BY <1>1, <1>2, <1>3, <1>4, <1>5, <1>6, <1>7, <1>8, <1>9, <1>10, <1>11, <1>12, <1>13, <1>14,
     <1>15, <1>16, <1>17, <1>18, <1>19 DEF Next, Task, Guest

(* So does what noah inherits from the process that started it.            *)
LEMMA SigInit == Init => SigInv
<1> SUFFICES ASSUME Init PROVE SigInv
  OBVIOUS
<1> USE DEF Init
<1>1. /\ hostmask \in SUBSET HostSigs /\ mask \in SUBSET Numbers /\ Held(mask, hostmask)
  BY InheritedHeld DEF Numbers
<1>2. Dfl \in Actions /\ Ign \in Actions
  BY DEF Actions
<1>3. act \in [Sigs -> Actions]
  BY <1>2
<1>4. host \in [HostSigs -> HostActions]
  <2>1. HostDfl \in HostActions /\ [HostDfl EXCEPT !.h = "ign"] \in HostActions
    BY DEF HostDfl, HostActions
  <2> QED
    BY <2>1
<1>5. loops \in Seq(Loop) /\ frames \in Seq(Frame) /\ Len(loops) = 0 /\ Len(frames) = 0
  OBVIOUS
<1>6. TypeOK
  BY <1>1, <1>3, <1>4, <1>5, HostSigsType DEF TypeOK, HostNumbers, Rips, At, InCall
<1>7. MaskInv
  BY <1>1, <1>5 DEF MaskInv, InCall
<1>8. LoopInv
  BY <1>5 DEF LoopInv
<1> QED
  BY <1>6, <1>7, <1>8 DEF SigInv

(* The inductive invariant holds throughout.                               *)
LEMMA SigInvariant == Spec => []SigInv
BY SigInit, SigStep, PTL DEF Spec

(* Every variable of the signal model keeps its type; in particular        *)
(* task.sigpending only ever has signals that the tables can name, and     *)
(* Darwin's mask only bits of Darwin's signals (src/src/ipc/signal.c).     *)
THEOREM SignalsTypeCorrect == Spec => []TypeOK
BY SigInvariant, PTL DEF SigInv

(* Whenever the guest runs, Darwin blocks under its own number every       *)
(* signal that the program blocks, for every mask and every nesting of     *)
(* handlers, rt_sigsuspend, rt_sigreturn, fork and execve (setup_sigframe, *)
(* rt_sigprocmask, rt_sigreturn and rt_sigsuspend in                       *)
(* src/src/ipc/signal.c).                                                  *)
THEOREM MasksAreHeld == Spec => []MaskHeld
<1>1. SigInv => MaskHeld
  BY DEF SigInv, MaskInv, MaskHeld, Held
<1> QED
  BY <1>1, SigInvariant, PTL

(* Every signal frame on the guest's stack has a main_loop of its own, so  *)
(* that rt_sigreturn always returns into the task_run or rt_sigsuspend     *)
(* that pushed the frame (src/src/main.c).                                 *)
THEOREM FramesHaveLoops == Spec => []LoopPerFrame
<1>1. SigInv => LoopPerFrame
  BY DEF SigInv, LoopInv, LoopPerFrame
<1> QED
  BY <1>1, SigInvariant, PTL
-----------------------------------------------------------------------------
(* No signal of Sigs has, on Linux, the number that another one of them    *)
(* has on Darwin.  init_signal and reset_signal_state call Darwin's        *)
(* sigaction under the number of Linux, so without this they read and      *)
(* reset the action of another signal.  SIGHUP, SIGINT, SIGQUIT, SIGTERM   *)
(* and the others whose numbers are the same may always be in Sigs.        *)
NoClash == \A s \in Sigs \cap HostSigs : linux_to_darwin_signal(s) = s

(* h of Darwin does for a signal what action a of the program asks for.    *)
Follows(a, h) == (a.h = "fn" /\ ~a.once => h.h = "fn" /\ ~h.once) /\ (a.h = "ign" => h.h = "ign")

(* The action of the program, from the moment that rt_sigaction has told   *)
(* Darwin.                                                                 *)
Announced(s) == IF pc = "sigaction" /\ s = arg.sig THEN arg.act ELSE act[s]

(* Darwin's actions follow, except that a one-shot action may be used up.  *)
FollowInv ==
  pc # "dead" => \A s \in Sigs : Follows(Announced(s), host[linux_to_darwin_signal(s)])

(* Two signals of Linux are two signals of Darwin.                         *)
LEMMA NumbersApart ==
  \A s, t \in Sigs : linux_to_darwin_signal(s) = linux_to_darwin_signal(t) => s = t
BY SigsNamed, ToDarwin, DarwinApart

(* init_signal finds the ignored signals.                                  *)
LEMMA FollowInit == NoClash /\ Init => FollowInv
<1> SUFFICES ASSUME NoClash, Init, NEW s \in Sigs
             PROVE  Follows(act[s], host[linux_to_darwin_signal(s)])
  BY DEF FollowInv, Announced, Init
<1>1. act[s] = IF s \in HostSigs /\ host[s].h = "ign" THEN Ign ELSE Dfl
  BY DEF Init
<1>2. CASE s \in HostSigs /\ host[s].h = "ign"
  BY <1>1, <1>2 DEF NoClash, Follows, Ign
<1>3. CASE ~(s \in HostSigs /\ host[s].h = "ign")
  BY <1>1, <1>3 DEF Follows, Dfl
<1> QED
  BY <1>2, <1>3

(* Only a one-shot action is lost when a signal is delivered.              *)
LEMMA DeliverFollows ==
  ASSUME SigInv, FollowInv, NEW d \in HostSigs, pc # "dead", Deliver(d), UNCHANGED <<act, arg>>
  PROVE  FollowInv'
<1> SUFFICES ASSUME pc' # "dead", NEW s \in Sigs
             PROVE  Follows(Announced(s)', host'[linux_to_darwin_signal(s)])
  BY DEF FollowInv
<1>1. Announced(s)' = Announced(s)
  BY DEF Deliver, Announced
<1>2. Follows(Announced(s), host[linux_to_darwin_signal(s)])
  BY DEF FollowInv
<1>3. CASE host' = host
  BY <1>1, <1>2, <1>3
<1>4. CASE host[d].once /\ host' = [host EXCEPT ![d].h = "dfl"] /\ host[d].h # "ign"
  <2>1. CASE linux_to_darwin_signal(s) = d
    BY <1>1, <1>2, <1>4, <2>1 DEF Follows
  <2>2. CASE linux_to_darwin_signal(s) # d
    BY <1>1, <1>2, <1>4, <2>2, HostSigsNamed DEF SigInv, TypeOK
  <2> QED
    BY <2>1, <2>2
<1> QED
  BY <1>3, <1>4 DEF Deliver

(* Every step keeps Darwin's actions in line; execve resets the same ones  *)
(* in both tables.                                                         *)
LEMMA FollowStep == NoClash /\ SigInv /\ FollowInv /\ [Next]_vars => FollowInv'
<1> SUFFICES ASSUME NoClash, SigInv, FollowInv, [Next]_vars PROVE FollowInv'
  OBVIOUS
<1>1. CASE /\ act' = act /\ host' = host /\ pc # "dead" /\ pc # "sigaction" /\ pc' # "sigaction"
  BY <1>1 DEF FollowInv, Announced
<1>2. CASE Wake
  <2> USE <1>2 DEF Wake, Goes
  <2>1. CASE act' = act
    BY <1>1, <2>1 DEF SetupFrame
  <2>2. CASE act' # act
    <3> DEFINE s == Lowest(pending \ mask)
    <3>1. act' = [act EXCEPT ![s] = Dfl] /\ host' = host /\ pc' = "host_mask" /\ pc = "wake"
      BY <2>2
    <3> HIDE DEF s
    <3>2. ASSUME NEW t \in Sigs
          PROVE  Follows(act'[t], host'[linux_to_darwin_signal(t)])
      <4>1. act'[t] = act[t] \/ act'[t] = Dfl
        BY <3>1 DEF SigInv, TypeOK
      <4>2. Follows(act[t], host[linux_to_darwin_signal(t)])
        BY <3>1 DEF FollowInv, Announced
      <4> QED
        BY <3>1, <4>1, <4>2 DEF Follows, Dfl
    <3> QED
      BY <3>1, <3>2 DEF FollowInv, Announced
  <2> QED
    BY <2>1, <2>2
<1>3. CASE RtSigactionTable
  <2> USE <1>3 DEF RtSigactionTable, Goes
  <2>1. ASSUME NEW s \in Sigs PROVE Announced(s)' = Announced(s)
    BY DEF Announced, SigInv, TypeOK
  <2> QED
    BY <2>1 DEF FollowInv
<1>4. ASSUME NEW d \in HostSigs, HostDeliver(d) PROVE FollowInv'
  BY <1>4, DeliverFollows DEF HostDeliver
<1>5. ASSUME NEW s \in Sigs, Kill(s) PROVE FollowInv'
  <2> DEFINE d == linux_to_darwin_signal(s)
  <2>1. d \in HostSigs
    BY HostSigsNamed
  <2>2. pc # "dead" /\ act' = act /\ arg' = arg /\ (Deliver(d) \/ UNCHANGED <<host, pending, pc>>)
    BY <1>5 DEF Kill
  <2> HIDE DEF d
  <2>3. CASE Deliver(d)
    BY <2>1, <2>2, <2>3, DeliverFollows
  <2>4. CASE UNCHANGED <<host, pending, pc>>
    BY <2>2, <2>4 DEF FollowInv, Announced
  <2> QED
    BY <2>2, <2>3, <2>4
<1>6. ASSUME NEW s \in Sigs, NEW a \in Acts[s], RtSigaction(s, a) PROVE FollowInv'
  <2> USE <1>6 DEF RtSigaction, Calls, Goes
  <2> DEFINE d == linux_to_darwin_signal(s)
  <2>1. ASSUME NEW t \in Sigs
        PROVE  Follows(Announced(t)', host'[linux_to_darwin_signal(t)])
    <3>1. linux_to_darwin_signal(t) \in HostSigs /\ host' = [host EXCEPT ![d] = linux_to_darwin_sigaction(a)]
      BY HostSigsNamed
    <3>2. CASE t = s
      <4>1. Announced(t)' = a /\ host'[linux_to_darwin_signal(t)] = linux_to_darwin_sigaction(a)
        <5>1. pc' = "sigaction" /\ arg'.sig = s /\ arg'.act = a
          OBVIOUS
        <5>2. host \in [HostSigs -> HostActions]
          BY DEF SigInv, TypeOK
        <5> QED
          BY <3>1, <3>2, <5>1, <5>2 DEF Announced
      <4> QED
        BY <4>1 DEF Follows, linux_to_darwin_sigaction
    <3>3. CASE t # s
      <4>1. linux_to_darwin_signal(t) # d
        BY <3>3, NumbersApart
      <4>2. Announced(t)' = act[t] /\ Announced(t) = act[t]
        BY <3>3 DEF Announced
      <4>3. host'[linux_to_darwin_signal(t)] = host[linux_to_darwin_signal(t)]
        BY <3>1, <4>1 DEF SigInv, TypeOK
      <4> QED
        BY <4>2, <4>3 DEF FollowInv
    <3> QED
      BY <3>2, <3>3
  <2> QED
    BY <2>1 DEF FollowInv
<1>7. CASE Execve
  <2> USE <1>7 DEF Execve, Calls, Goes
  <2>1. ASSUME NEW s \in Sigs
        PROVE  Follows(act'[s], host'[linux_to_darwin_signal(s)])
    <3> DEFINE d == linux_to_darwin_signal(s)
    <3>1. CASE act[s].h = "fn"
      BY <3>1 DEF Follows, Dfl
    <3>2. CASE act[s].h # "fn"
      <4>1. d \in HostSigs /\ Follows(act[s], host[d])
        BY HostSigsNamed DEF FollowInv, Announced
      <4>2. ~(d \in Sigs /\ act[d].h = "fn")
        <5> SUFFICES ASSUME d \in Sigs, act[d].h = "fn" PROVE FALSE
          OBVIOUS
        <5>1. linux_to_darwin_signal(d) = d
          BY <4>1 DEF NoClash
        <5>2. d = s
          BY <5>1, NumbersApart
        <5> QED
          BY <5>2, <3>2
      <4>3. act'[s] = act[s] /\ host'[d] = host[d]
        BY <3>2, <4>1, <4>2
      <4> QED
        BY <4>1, <4>3
    <3> QED
      BY <3>1, <3>2
  <2> QED
    BY <2>1 DEF FollowInv, Announced
<1>8. CASE UNCHANGED vars
  BY <1>8 DEF vars, FollowInv, Announced
<1>9. CASE Exception \/ WakeFails
  BY <1>9 DEF Exception, WakeFails, FollowInv
<1>10. CASE TaskRun \/ HostMask \/ RtSigsuspendMask \/ Sleep \/ SleepEnds \/ Woken \/ Irq
  BY <1>1, <1>10 DEF TaskRun, HostMask, RtSigsuspendMask, Sleep, SleepEnds, Woken, Irq, Goes
<1>11. CASE RtSigreturnMask \/ SuspendedHost \/ Suspended \/ RtSigreturn \/ Fork
  BY <1>1, <1>11 DEF RtSigreturnMask, LeaveLoop, SuspendedHost, Suspended, RtSigreturn, Fork, Calls, Goes
<1>12. ASSUME NEW how \in {"block", "unblock", "setmask"}, NEW set \in Masks, RtSigprocmask(how, set)
       PROVE  FollowInv'
  BY <1>1, <1>12 DEF RtSigprocmask, Calls, Goes
<1>13. ASSUME NEW set \in Masks, RtSigsuspend(set) PROVE FollowInv'
  BY <1>1, <1>13 DEF RtSigsuspend, Goes
<1> QED
  BY <1>2, <1>3, <1>4, <1>5, <1>6, <1>7, <1>8, <1>9, <1>10, <1>11, <1>12, <1>13 DEF Next, Task, Guest

(* Whenever the guest runs, Darwin catches the signals that the program    *)
(* has a handler for and ignores those that it ignores, although           *)
(* rt_sigaction tells Darwin first and its own table after, and signals    *)
(* may arrive in between; for every set of signals whose numbers do not    *)
(* clash (src/src/ipc/signal.c:44-110, :303-352).                          *)
THEOREM HostFollowsActions ==
  ASSUME NoClash
  PROVE  Spec => []HostFollows
<1>1. Init => FollowInv
  BY FollowInit
<1>2. SigInv /\ FollowInv /\ [Next]_vars => FollowInv'
  BY FollowStep
<1>3. FollowInv => HostFollows
  BY ToDarwin DEF FollowInv, Announced, Follows, HostFollows
<1> QED
  BY <1>1, <1>2, <1>3, SigInvariant, PTL DEF Spec
=============================================================================
