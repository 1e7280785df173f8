----------------------------- MODULE CredProofs -----------------------------
(***************************************************************************)
(* Proofs about Cred: setresuid, setuid and execve keep Darwin's ids in    *)
(* step with the process's own, for any set of user ids, up to an execve   *)
(* that sets the effective ids apart itself.                               *)
(***************************************************************************)
EXTENDS Cred, TLAPS

(* What holds of a call in progress between the parts of do_setresuid.     *)
Typed(p) ==
  p \in [c : [uid : Uids, euid : Uids, suid : Uids],
         h : [ruid : Uids, euid : Uids, svuid : Uids],
         out : {"ok", "EPERM"} \cup Ended]

Agreed(p) ==
  p.h.svuid = 0 /\ p.c.uid = p.h.ruid /\ p.c.euid = p.h.euid

(* A process without root ids gets no id that it does not have.            *)
Kept(p, q) == 0 \notin Ids(p.c) => Ids(q.c) \subseteq Ids(p.c)

(* What each part of a call preserves.                                     *)
Good(p, q) == Typed(q) /\ Kept(p, q) /\ (Agreed(p) => Agreed(q))

LEMMA SetRuidGood ==
  ASSUME NEW p, Typed(p), NEW id \in Uids \cup {NoUid}
  PROVE  Good(p, SetRuid(p, id))
  BY UidsAssumption
     DEF Good, Typed, Agreed, Kept, Ids, SetRuid, can_setresxid, HostAllows, HostSetruid, Ended

(* Darwin refuses seteuid only for the id the process already has.         *)
LEMMA SetEuidGood ==
  ASSUME NEW p, Typed(p), NEW id \in Uids \cup {NoUid}
  PROVE  Good(p, SetEuid(p, id))
  BY UidsAssumption
     DEF Good, Typed, Agreed, Kept, Ids, SetEuid, can_setresxid, HostAllows, HostSeteuid, Ended

LEMMA SetSuidGood ==
  ASSUME NEW p, Typed(p), NEW id \in Uids \cup {NoUid}
  PROVE  Good(p, SetSuid(p, id))
  BY UidsAssumption DEF Good, Typed, Agreed, Kept, Ids, SetSuid, can_setresxid, Ended

LEMMA DoSetresuidGood ==
  ASSUME Typed(Progress), NEW r \in Uids \cup {NoUid}, NEW e \in Uids \cup {NoUid},
         NEW s \in Uids \cup {NoUid}
  PROVE  Good(Progress, do_setresuid(r, e, s))
<1> DEFINE p == SetRuid(Progress, r)
           q == SetEuid(p, e)
           z == SetSuid(q, s)
<1>1. Good(Progress, p)
  BY SetRuidGood
<1>2. Good(p, q)
  BY <1>1, SetEuidGood DEF Good
<1>3. Good(q, z)
  BY <1>2, SetSuidGood DEF Good
<1>4. Good(Progress, z)
  BY <1>1, <1>2, <1>3 DEF Good, Kept
<1> QED
  BY <1>4 DEF do_setresuid

(* The ids after execve: elevate_privilege succeeds while Darwin's saved   *)
(* id is root's, and then both effective ids are root's.                   *)
LEMMA DropTyped ==
  ASSUME NEW p, Typed(p)
  PROVE  /\ Typed(drop_privilege(p))
         /\ drop_privilege(p).c = p.c /\ drop_privilege(p).h.ruid = p.h.ruid
         /\ drop_privilege(p).h.svuid = p.h.svuid
  BY DEF Typed, drop_privilege, HostSeteuid

LEMMA ElevateTyped ==
  ASSUME NEW p, Typed(p)
  PROVE  /\ Typed(elevate_privilege(p))
         /\ elevate_privilege(p).c = [p.c EXCEPT !.euid = 0, !.suid = 0]
         /\ elevate_privilege(p).h.ruid = p.h.ruid
         /\ elevate_privilege(p).h.svuid = p.h.svuid
  BY UidsAssumption DEF Typed, elevate_privilege, HostSeteuid, Ended

(* The inductive invariant: the ids agree after every call, the failed     *)
(* ones included, and Darwin's saved id is still root; after an execve     *)
(* that split the ids only their type is left.                             *)
CredInv == TypeOK /\ HostAgrees

Step(c, d) == 0 \notin Ids(c) => \/ Ids(d) \subseteq Ids(c)
                                 \/ d = [c EXCEPT !.euid = 0, !.suid = 0]

LEMMA CredStep == CredInv /\ [Next]_vars => CredInv' /\ (Step(cred, cred') \/ UNCHANGED vars)
<1> SUFFICES ASSUME CredInv, [Next]_vars
             PROVE  CredInv' /\ (Step(cred, cred') \/ UNCHANGED vars)
  OBVIOUS
<1>1. Typed(Progress) /\ (~split => Agreed(Progress))
  BY DEF CredInv, TypeOK, HostAgrees, SavedRoot, Typed, Agreed, Progress
<1>2. ASSUME NEW p, Good(Progress, p), Becomes(p), UNCHANGED split
      PROVE  CredInv' /\ Step(cred, cred')
  <2>1. TypeOK'
    BY <1>2 DEF Good, Typed, Becomes, TypeOK, CredInv
  <2>2. HostAgrees'
    BY <1>1, <1>2 DEF Good, Agreed, Becomes, HostAgrees, SavedRoot
  <2>3. Step(cred, cred')
    BY <1>2 DEF Good, Kept, Becomes, Progress, Step
  <2> QED
    BY <2>1, <2>2, <2>3 DEF CredInv
<1>3. ASSUME NEW r \in Uids \cup {NoUid}, NEW e \in Uids \cup {NoUid},
             NEW s \in Uids \cup {NoUid}, SetResUid(r, e, s)
      PROVE  CredInv' /\ Step(cred, cred')
  BY <1>1, <1>2, <1>3, DoSetresuidGood DEF SetResUid
<1>4. ASSUME NEW id \in Uids, SetUid(id)
      PROVE  CredInv' /\ Step(cred, cred')
  <2>1. Good(Progress, [Progress EXCEPT !.out = "EPERM"])
    BY <1>1 DEF Good, Typed, Agreed, Kept, Ids, Progress
  <2> QED
    BY <1>1, <1>2, <1>4, <2>1, DoSetresuidGood DEF SetUid
<1>5. ASSUME NEW b \in BOOLEAN, Exec(b)
      PROVE  CredInv' /\ Step(cred, cred')
  <2> DEFINE d == drop_privilege(Progress)
             p == IF b THEN elevate_privilege(d) ELSE d
  <2>1. Becomes(p) /\ split' = (split \/ p.h.euid # p.c.euid)
    BY <1>5 DEF Exec
  <2>2. /\ Typed(p)
        /\ p.c \in {cred, [cred EXCEPT !.euid = 0, !.suid = 0]} /\ p.c.uid = cred.uid
        /\ p.h.ruid = host.ruid /\ p.h.svuid = host.svuid
    <3>1. /\ Typed(d) /\ d.c = cred /\ d.h.ruid = host.ruid /\ d.h.svuid = host.svuid
      BY <1>1, DropTyped DEF Progress
    <3>2. CASE b = TRUE
      BY <3>1, <3>2, ElevateTyped DEF CredInv, TypeOK
    <3>3. CASE b = FALSE
      BY <3>1, <3>3
    <3> QED
      BY <1>5, <3>2, <3>3
  <2> HIDE DEF p
  <2>3. TypeOK'
    BY <2>1, <2>2 DEF Typed, Becomes, TypeOK, CredInv
  <2>4. HostAgrees'
    BY <2>1, <2>2 DEF Becomes, HostAgrees, SavedRoot, CredInv
  <2>5. Step(cred, cred')
    BY <2>1, <2>2 DEF Becomes, Step
  <2> QED
    BY <2>3, <2>4, <2>5 DEF CredInv
<1>6. CASE UNCHANGED vars
  BY <1>6 DEF vars, CredInv, TypeOK, HostAgrees, SavedRoot
<1> QED
  BY <1>3, <1>4, <1>5, <1>6 DEF Next, Calls

LEMMA CredInit == Init => CredInv
<1> SUFFICES ASSUME Init PROVE CredInv
  OBVIOUS
<1>1. PICK u \in Uids : /\ cred = [uid |-> u, euid |-> u, suid |-> u]
                        /\ host = [ruid |-> u, euid |-> u, svuid |-> 0]
                        /\ out = "ok" /\ split = FALSE
  BY DEF Init
<1>2. split \in BOOLEAN
  BY <1>1
<1>3. TypeOK
  BY <1>1, <1>2, UidsAssumption DEF TypeOK
<1>4. HostAgrees
  BY <1>1 DEF HostAgrees, SavedRoot
<1> QED
  BY <1>3, <1>4 DEF CredInv

(* Ids keep their type.                                                    *)
THEOREM CredTypeCorrect == Spec => []TypeOK
<1>1. CredInv => TypeOK
  BY DEF CredInv
<1> QED
  BY <1>1, CredInit, CredStep, PTL DEF Spec

(* The ids noah answers with are the ones Darwin uses and Darwin's saved   *)
(* id is root's, also after a setresuid that changed some ids and then     *)
(* failed (src/src/proc/process.c:75-131) and after an execve, unless the  *)
(* execve itself set the effective ids apart (src/src/main.c:579-598).     *)
THEOREM HostAlwaysAgrees == Spec => []HostAgrees
<1>1. CredInv => HostAgrees
  BY DEF CredInv
<1> QED
  BY <1>1, CredInit, CredStep, PTL DEF Spec

(* A process without root ids gets no id that it does not have, except by  *)
(* the set-user-ID bit (can_setresxid, src/src/proc/process.c:69-73).      *)
THEOREM IdsAreAlwaysKept == Spec => IdsAreKept
<1>1. CredInv /\ [Next]_vars
        => [0 \notin Ids(cred) => \/ Ids(cred') \subseteq Ids(cred)
                                 \/ cred' = [cred EXCEPT !.euid = 0, !.suid = 0]]_vars
  BY CredStep DEF Step
<1>2. CredInv /\ [Next]_vars => CredInv'
  BY CredStep
<1> QED
  BY <1>1, <1>2, CredInit, PTL DEF Spec, IdsAreKept
=============================================================================
