-------------------------------- MODULE Cred --------------------------------
(***************************************************************************)
(* User ids (src/src/proc/process.c, src/src/main.c).                      *)
(*                                                                         *)
(* noah keeps the Linux user ids of the process in proc.cred and maintains *)
(* the ids of the Darwin process along with them.  When noah is installed  *)
(* set-user-ID the Darwin saved id is meant to stay 0, so that root can be *)
(* taken back whatever the Linux ids are.                                  *)
(***************************************************************************)
EXTENDS Naturals

CONSTANTS
  Uids,    \* user ids
  NoUid    \* (l_uid_t) -1: leave this id alone

ASSUME UidsAssumption == Uids \subseteq Nat /\ 0 \in Uids /\ NoUid \notin Uids

VARIABLES
  cred,  \* proc.cred: uid, euid, suid
  host,  \* ids of the Darwin process: ruid, euid, svuid
  out,   \* result of the last call; the process ends in "assert" or a panic
  split  \* history: an execve has set Darwin's effective id apart from noah's

vars == <<cred, host, out, split>>

Ended == {"assert", "unimplemented", "refused"}

(* main drops the privilege of the set-user-ID bit, then init_first_proc   *)
(* reads the ids.                                                          *)
Init ==
  \E u \in Uids : /\ cred = [uid |-> u, euid |-> u, suid |-> u]
                  /\ host = [ruid |-> u, euid |-> u, svuid |-> 0]
                  /\ out = "ok" /\ split = FALSE
-----------------------------------------------------------------------------
(* Darwin: seteuid and setruid.  A refusal leaves the ids alone.  setruid  *)
(* replaces the saved id by the effective one unless it is the new id.     *)
HostAllows(h, ids, id) == h.euid = 0 \/ id \in ids

HostSeteuid(h, id) == [h EXCEPT !.euid = id]

HostSetruid(h, id) ==
  [h EXCEPT !.ruid = id, !.svuid = IF @ = id THEN @ ELSE h.euid]
-----------------------------------------------------------------------------
(* A call in progress: the ids so far and how it ends.                     *)
Progress == [c |-> cred, h |-> host, out |-> "ok"]

can_setresxid(c, id) == c.euid = 0 \/ id \in {c.euid, c.uid, c.suid}

(* Mutant of SetRuid: the guard against losing the saved id is missing.    *)
SetRuid_unguarded(p, id) ==
  IF p.out # "ok" \/ id = NoUid THEN p
  ELSE IF ~can_setresxid(p.c, id) THEN [p EXCEPT !.out = "EPERM"]
  ELSE [p EXCEPT !.c.uid = id, !.h = HostSetruid(@, id)]

(* The first part of do_setresuid.                                         *)
SetRuid(p, id) ==
  IF p.out # "ok" \/ id = NoUid THEN p
  ELSE IF ~can_setresxid(p.c, id) THEN [p EXCEPT !.out = "EPERM"]
  ELSE IF id # 0 /\ p.c.euid # 0 THEN [p EXCEPT !.out = "unimplemented"]
  ELSE IF HostAllows(p.h, {p.h.ruid, p.h.euid, p.h.svuid}, id)
  THEN [p EXCEPT !.c.uid = id, !.h = HostSetruid(@, id)]
  ELSE [p EXCEPT !.c.uid = id, !.out = "refused"]

(* Mutant of SetEuid: a refusal by the host is ignored.                    *)
SetEuid_unchecked(p, id) ==
  IF p.out # "ok" \/ id = NoUid THEN p
  ELSE IF ~can_setresxid(p.c, id) THEN [p EXCEPT !.out = "EPERM"]
  ELSE [p EXCEPT !.c.euid = id,
                 !.h = IF HostAllows(@, {@.ruid, @.svuid}, id) THEN HostSeteuid(@, id) ELSE @]

(* The second part of do_setresuid.                                        *)
SetEuid(p, id) ==
  IF p.out # "ok" \/ id = NoUid THEN p
  ELSE IF ~can_setresxid(p.c, id) THEN [p EXCEPT !.out = "EPERM"]
  ELSE IF p.c.euid # 0 /\ id # p.c.uid /\ p.c.suid # 0
  THEN [p EXCEPT !.out = IF id = p.c.suid THEN "unimplemented" ELSE "assert"]
  ELSE IF HostAllows(p.h, {p.h.ruid, p.h.svuid}, id)
  THEN [p EXCEPT !.c.euid = id, !.h = HostSeteuid(@, id)]
  ELSE [p EXCEPT !.c.euid = id, !.out = "refused"]

(* Mutant of SetSuid: the permission is not checked.                       *)
SetSuid_unchecked(p, id) ==
  IF p.out = "ok" /\ id # NoUid THEN [p EXCEPT !.c.suid = id] ELSE p

(* The third part of do_setresuid; the host's saved id is not touched.     *)
SetSuid(p, id) ==
  IF p.out # "ok" \/ id = NoUid THEN p
  ELSE IF ~can_setresxid(p.c, id) THEN [p EXCEPT !.out = "EPERM"]
  ELSE [p EXCEPT !.c.suid = id]

(* Each part sees the ids the parts before it have set, and an EPERM does  *)
(* not take them back.                                                     *)
do_setresuid(r, e, s) == SetSuid(SetEuid(SetRuid(Progress, r), e), s)

Becomes(p) == cred' = p.c /\ host' = p.h /\ out' = p.out

drop_privilege(p) == [p EXCEPT !.h = HostSeteuid(@, @.ruid)]

elevate_privilege(p) ==
  IF HostAllows(p.h, {p.h.ruid, p.h.svuid}, 0)
  THEN [p EXCEPT !.c.euid = 0, !.c.suid = 0, !.h = HostSeteuid(@, 0)]
  ELSE [p EXCEPT !.c.euid = 0, !.c.suid = 0, !.out = "refused"]
-----------------------------------------------------------------------------
SetResUid(r, e, s) ==
  /\ out \notin Ended
  /\ Becomes(do_setresuid(r, e, s))
  /\ UNCHANGED split

SetUid(id) ==
  /\ out \notin Ended
  /\ \/ cred.euid = 0 /\ Becomes(do_setresuid(id, id, id))
     \/ cred.euid # 0 /\ id \in {cred.uid, cred.suid} /\ Becomes(do_setresuid(NoUid, id, NoUid))
     \/ /\ cred.euid # 0 /\ id \notin {cred.uid, cred.suid}
        /\ Becomes([Progress EXCEPT !.out = "EPERM"])
  /\ UNCHANGED split

(* What do_exec does to the ids: drop_privilege, then elevate_privilege    *)
(* for a set-user-ID file.                                                 *)
Exec(setuid_bit) ==
  LET p == IF setuid_bit THEN elevate_privilege(drop_privilege(Progress))
           ELSE drop_privilege(Progress)
  IN  /\ out \notin Ended
      /\ Becomes(p)
      /\ split' = (split \/ p.h.euid # p.c.euid)

Calls ==
  \/ \E r, e, s \in Uids \cup {NoUid} : SetResUid(r, e, s)
  \/ \E id \in Uids : SetUid(id)

Next == Calls \/ \E b \in BOOLEAN : Exec(b)

Spec == Init /\ [][Next]_vars
-----------------------------------------------------------------------------
(* Every variable has its type.                                            *)
TypeOK ==
  /\ cred \in [uid : Uids, euid : Uids, suid : Uids]
  /\ host \in [ruid : Uids, euid : Uids, svuid : Uids]
  /\ out \in {"ok", "EPERM"} \cup Ended
  /\ split \in BOOLEAN

(* "Wa always hold 0 in Darwin's suid to emulate Linux suid behavior"      *)
(* (noah.h:97): no sequence of calls and execs loses the saved id.         *)
SavedRoot == host.svuid = 0

(* The ids noah answers with are the ones the Darwin process has, and its  *)
(* saved id is root's, also after a setresuid or setuid that failed        *)
(* halfway, and after any execve that did not itself set the effective ids *)
(* apart (drop_privilege leaves proc.cred alone).                          *)
HostAgrees == ~split => cred.uid = host.ruid /\ cred.euid = host.euid /\ SavedRoot

Ids(c) == {c.uid, c.euid, c.suid}

(* A process none of whose ids is root gets no id that it does not have,   *)
(* although do_setresuid checks each id against the ids set so far; only   *)
(* the set-user-ID bit makes it root (elevate_privilege).                  *)
IdsAreKept ==
  [][0 \notin Ids(cred) => \/ Ids(cred') \subseteq Ids(cred)
                           \/ cred' = [cred EXCEPT !.euid = 0, !.suid = 0]]_vars
=============================================================================
