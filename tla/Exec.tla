-------------------------------- MODULE Exec --------------------------------
(***************************************************************************)
(* execve (src/src/proc/exec.c): from the checks on the file, through the  *)
(* destruction of the old program, to the segments, the interpreter and    *)
(* the initial stack of the new one, together with the user ids of Cred.   *)
(* A call is one step: do_exec refuses a process with several threads.     *)
(*                                                                         *)
(* Memory is a function from the mapped addresses to bytes, each named by  *)
(* the file and the offset it was read from; a page has PAGE bytes.        *)
(***************************************************************************)
EXTENDS Cred, Integers, SequencesExt, FiniteSetsExt

CONSTANTS
  Files,       \* path -> what do_exec finds there
  Requests,    \* the execve calls of the program: [path, argv, envp]
  PAGE,        \* PAGE_4KB
  DYN_BASE,    \* 0x400000
  STACK_TOP, STACK_SIZE,
  MAX_ARG_STRINGS,
  MaxScripts,  \* nested scripts that the C stack holds
  MaxVfds      \* bound on the descriptors noah leaves open

NoPath == <<>>

(* A path that is not in Files does not exist.  A file: may it be run, is  *)
(* it a regular file, its set-user-ID bit, and what its first bytes say.   *)
(* Elf: type, machine, entry, phoff, the PT_LOAD segments and the path of  *)
(* the interpreter.  Script: the words after #!, at most SB_ARGC_MAX.      *)
ASSUME ExecAssumption ==
  /\ PAGE \in Nat \ {0} /\ DYN_BASE % PAGE = 0 /\ DYN_BASE # 0
  /\ STACK_TOP % PAGE = 0 /\ STACK_SIZE % PAGE = 0 /\ {MaxScripts, MaxVfds} \subseteq Nat
  /\ \A f \in DOMAIN Files :
       Files[f].kind = "elf" => \A s \in Range(Files[f].segs) : s.filesz <= s.memsz

VARIABLES
  mm,     \* mem, start_brk, current_brk, stack
  regs,   \* RIP and RSP
  proc,   \* nr_tasks, and what of the old program execve must not leave
  image,  \* history: the program that was loaded last
  vfds,   \* descriptors that noah itself has left open
  ret     \* result of execve, "none" after any other step

evars == <<mm, regs, proc, image, vfds, ret>>
allvars == <<vars, evars>>

NoImage == [file |-> NoPath, argv |-> <<>>, envp |-> <<>>, interp |-> NoPath, base |-> 0, at |-> 0]
NoMm == [mem |-> <<>>, start_brk |-> 0, current_brk |-> 0, stack |-> <<>>]
Traces == {"registers", "handlers", "tid", "robust_list", "cloexec"}

(* A call in progress, on top of the one of Cred.                          *)
State == [mm |-> mm, regs |-> regs, proc |-> proc, image |-> image, vfds |-> vfds,
          id |-> Progress, err |-> "ok"]

Fail(s, e) == [s EXCEPT !.err = e]
Abort(s) == [s EXCEPT !.id.out = "assert", !.err = "assert"]
-----------------------------------------------------------------------------
roundup(n, k) == ((n + k - 1) \div k) * k
PageOf(a) == (a \div PAGE) * PAGE

(* Mutant of SegTop: the offset of the segment in its page is forgotten.   *)
SegTop_aligned(seg, bias) == PageOf(seg.vaddr + bias) + roundup(seg.memsz, PAGE)

(* do_mmap of the pages of a PT_LOAD segment, then copy_to_user.           *)
SegTop(seg, bias) ==
  LET p_vaddr == seg.vaddr + bias
  IN  PageOf(p_vaddr) + roundup(seg.memsz + (p_vaddr - PageOf(p_vaddr)), PAGE)

LoadSegment(mem, f, seg, bias) ==
  LET p_vaddr == seg.vaddr + bias
      pages == PageOf(p_vaddr) .. SegTop(seg, bias) - 1
  IN  [a \in DOMAIN mem \cup pages |->
         IF a \in p_vaddr .. p_vaddr + seg.filesz - 1
         THEN [file |-> f, off |-> seg.offset + a - p_vaddr]
         ELSE IF a \in pages THEN [file |-> NoPath, off |-> 0] ELSE mem[a]]

RECURSIVE LoadFrom(_, _, _, _)
LoadFrom(mem, f, segs, bias) ==
  IF segs = <<>> THEN mem ELSE LoadFrom(LoadSegment(mem, f, Head(segs), bias), f, Tail(segs), bias)

LoadSegments(mem, f, bias) == LoadFrom(mem, f, Files[f].segs, bias)

MapTop(f, bias) == Max({0} \cup {SegTop(seg, bias) : seg \in Range(Files[f].segs)})

AnyAtZero(f, bias) == \E seg \in Range(Files[f].segs) : PageOf(seg.vaddr + bias) = 0

Loadable(e) == e.type \in {"EXEC", "DYN"} /\ e.machine = "x86_64"

(* vkern_open does not ask whether the file may be run.                    *)
load_elf_interp(s, f, load_addr) ==
  IF f \notin DOMAIN Files THEN Fail(s, "EPERM")
  ELSE IF Files[f].kind # "elf" THEN Abort(s)
  ELSE IF ~Loadable(Files[f]) THEN Fail(s, "ENOEXEC")
  ELSE IF AnyAtZero(f, load_addr) THEN Abort(s)
  ELSE [s EXCEPT !.mm.mem = LoadSegments(@, f, load_addr),
                 !.mm.start_brk = MapTop(f, load_addr),
                 !.regs.rip = load_addr + Files[f].entry]
-----------------------------------------------------------------------------
(* The stack: words and characters at addresses.  push moves RSP down by   *)
(* whole words of eight bytes.                                             *)
Char(c) == <<"char", c>>
Word(w) == <<"word", w>>
Nul == Char("nul")

(* copy_to_user fails unnoticed below the pages of the stack.              *)
Store(cells, rsp, data) ==
  IF rsp < STACK_TOP - STACK_SIZE THEN cells
  ELSE [a \in DOMAIN cells \cup (rsp .. rsp + Len(data) - 1) |->
          IF a \in rsp .. rsp + Len(data) - 1 THEN data[a - rsp + 1] ELSE cells[a]]

push(st, data) ==
  LET rsp == st.rsp - roundup(Len(data), 8)
  IN  [rsp |-> rsp, cells |-> Store(st.cells, rsp, data)]

pushWord(st, w) ==  \* of the eight bytes of a word the first stands for all
  [rsp |-> st.rsp - 8, cells |-> Store(st.cells, st.rsp - 8, <<Word(w)>>)]

RECURSIVE pushWords(_, _)
pushWords(st, ws) ==  \* from the last one down
  IF ws = <<>> THEN st ELSE pushWords(pushWord(st, Last(ws)), Front(ws))

CString(str) == [i \in DOMAIN str |-> Char(str[i])] \o <<Nul>>

RECURSIVE Strings(_)
Strings(strs) == IF strs = <<>> THEN <<>> ELSE CString(Head(strs)) \o Strings(Tail(strs))

(* Mutant of Pointers: the last terminating zero is not counted.           *)
Pointers_unterminated(strs, end) ==
  [i \in DOMAIN strs |-> end - Len(Strings(SubSeq(strs, i, Len(strs)))) + 1]

(* The pointers to strings that are stored one after the other up to end:  *)
(* found from the last one backwards.                                      *)
Pointers(strs, end) ==
  [i \in DOMAIN strs |-> end - Len(Strings(SubSeq(strs, i, Len(strs))))]


AT == [NULL |-> 0, PHDR |-> 3, PHENT |-> 4, PHNUM |-> 5, PAGESZ |-> 6, BASE |-> 7, ENTRY |-> 9,
       RANDOM |-> 25]

auxv(f, exe_base, bias, interp_base, rand_ptr) ==
  <<AT.BASE, interp_base, AT.ENTRY, Files[f].entry + bias, AT.PHDR, exe_base + Files[f].phoff,
    AT.PHENT, 56, AT.PHNUM, Len(Files[f].segs), AT.PAGESZ, PAGE, AT.RANDOM, rand_ptr, AT.NULL, 0>>

init_userstack(s, f, argv, envp, exe_base, bias, interp_base) ==
  LET random == push([rsp |-> STACK_TOP, cells |-> <<>>], [i \in 1 .. 16 |-> Char("random")])
      strings == push(random, Strings(argv) \o Strings(envp))
      args_end == strings.rsp + Len(Strings(argv))
      env_end == args_end + Len(Strings(envp))
      aux == pushWord(pushWords(strings, auxv(f, exe_base, bias, interp_base, random.rsp)), 0)
      env == pushWord(pushWords(aux, Pointers(envp, env_end)), 0)
      args == pushWord(pushWords(env, Pointers(argv, args_end)), Len(argv))
  IN  [s EXCEPT !.mm.stack = args.cells, !.regs.rsp = args.rsp,
                !.image = [file |-> f, argv |-> argv, envp |-> envp, interp |-> Files[f].interp,
                           base |-> bias, at |-> interp_base]]

load_elf(s, f, argv, envp) ==
  LET e == Files[f]
      bias == IF e.type = "DYN" THEN DYN_BASE ELSE 0
      top == MapTop(f, bias)
      exe_base == e.segs[1].vaddr - e.segs[1].offset + bias
      t == [s EXCEPT !.mm.mem = LoadSegments(@, f, bias)]
      u == IF e.interp # NoPath THEN load_elf_interp(t, e.interp, top)
           ELSE [t EXCEPT !.regs.rip = e.entry + bias, !.mm.start_brk = top]
  IN  IF ~Loadable(e) THEN Fail(s, "ENOEXEC")
      ELSE IF e.segs = <<>> \/ AnyAtZero(f, bias) THEN Abort(s)
      ELSE IF u.err \notin {"ok", "assert"} THEN Fail(u, "EPERM")
      ELSE IF u.err = "assert" THEN u
      ELSE init_userstack(u, f, argv, envp, exe_base, bias, IF e.interp # NoPath THEN top ELSE 0)
-----------------------------------------------------------------------------
(* Mutant of prepare_newproc: the addresses of set_tid_address stay.       *)
prepare_newproc_tid(s) ==
  [s EXCEPT !.proc = [nr_tasks |-> 1, traces |-> @.traces \cap {"tid"}], !.mm = NoMm, !.image = NoImage]

(* What is left of the old program is its RIP and RSP.                     *)
prepare_newproc(s) ==
  [s EXCEPT !.proc = [nr_tasks |-> 1, traces |-> {}], !.mm = NoMm, !.image = NoImage]

HeapAtStart(s) == [s EXCEPT !.mm.current_brk = s.mm.start_brk]

(* The path of the script takes the place of argv[0]; with no argv[0] the  *)
(* arguments are copied from beyond the array.                             *)
ScriptArgs(f, argv) == Files[f].words \o <<f>> \o Tail(argv)

(* load_script ignores the result of the nested do_exec.                   *)
RECURSIVE do_exec(_, _, _, _, _)
do_exec(s, f, argv, envp, n) ==
  IF f \notin DOMAIN Files THEN Fail(s, "ENOENT")
  ELSE IF ~Files[f].x THEN Fail(s, "EACCES")
  ELSE IF s.proc.nr_tasks > 1 THEN Fail([s EXCEPT !.vfds = @ + 1], "EINVAL")
  ELSE IF Files[f].kind = "dir" THEN Fail(s, "EACCES")
  ELSE
    LET t == [prepare_newproc(s) EXCEPT !.id = drop_privilege(@)]
        u == load_elf(t, f, argv, envp)
        newargv == ScriptArgs(f, argv)
        v == do_exec(t, newargv[1], newargv, envp, n + 1)
    IN  CASE Files[f].kind = "elf" ->
               IF u.err # "ok" THEN u
               ELSE HeapAtStart(IF Files[f].setuid THEN [u EXCEPT !.id = elevate_privilege(@)] ELSE u)
          [] Files[f].kind = "script" ->
               IF Files[f].words = <<>> THEN Fail(t, "EFAULT")
               ELSE IF argv = <<>> \/ n = MaxScripts THEN Abort(t)
               ELSE IF v.err = "assert" THEN v
               ELSE HeapAtStart([v EXCEPT !.err = "ok"])
          [] OTHER -> Fail(t, "ENOEXEC")
-----------------------------------------------------------------------------
(* noah starts the program it is given with the same do_exec.              *)
ExecInit ==
  /\ Init
  /\ regs = [rip |-> 0, rsp |-> 0] /\ mm = NoMm /\ vfds = 0 /\ ret = "none"
  /\ proc = [nr_tasks |-> 1, traces |-> {}]
  /\ image = NoImage

(* A program whose execve failed too late has no code to run any more;     *)
(* what the processor finds at the old RIP is not modelled.                *)
Running == image # NoImage /\ out \notin Ended

Unreadable == <<"unreadable">>

(* The strings are copied before anything else: the first one that is one  *)
(* too many or at a bad address ends the call.                             *)
CopyError(strs) ==
  LET bad == {i \in DOMAIN strs : i + 1 > MAX_ARG_STRINGS \/ strs[i] = Unreadable}
  IN  IF bad = {} THEN "ok" ELSE IF Min(bad) + 1 > MAX_ARG_STRINGS THEN "E2BIG" ELSE "EFAULT"

Result(r) ==
  IF CopyError(r.argv) # "ok" THEN Fail(State, CopyError(r.argv))
  ELSE IF CopyError(r.envp) # "ok" THEN Fail(State, CopyError(r.envp))
  ELSE do_exec(State, r.path, r.argv, r.envp, 0)

execve(r) ==
  /\ out \notin Ended /\ (Running \/ ret = "none")
  /\ \E s \in {Result(r)} :
       /\ s.vfds <= MaxVfds
       /\ mm' = s.mm /\ regs' = s.regs /\ proc' = s.proc /\ image' = s.image /\ vfds' = s.vfds
       /\ ret' = s.err
       /\ Becomes(s.id)
       /\ split' = (split \/ s.id.h.euid # s.id.c.euid)

SetIds == Running /\ Calls /\ UNCHANGED <<mm, regs, proc, image, vfds>> /\ ret' = "none"

(* The program fills registers, installs handlers, opens descriptors,      *)
(* grows its heap and has n threads.                                       *)
GuestRuns(n) ==
  /\ Running
  /\ proc' = [nr_tasks |-> n, traces |-> Traces]
  /\ mm' = [mm EXCEPT !.current_brk = mm.start_brk + PAGE]
  /\ ret' = "none"
  /\ UNCHANGED <<vars, regs, image, vfds>>

ExecNext == (\E r \in Requests : execve(r)) \/ SetIds \/ \E n \in 1 .. 2 : GuestRuns(n)

ExecSpec == ExecInit /\ [][ExecNext]_allvars
-----------------------------------------------------------------------------
(* execve takes effect as a whole or not at all, as far as the errors go   *)
(* that do_exec finds before prepare_newproc: either the program goes on   *)
(* with its memory, registers, ids, handlers and threads as they were, or  *)
(* none of its handlers, thread pointers, lists and close-on-exec          *)
(* descriptors are left and the new program, or none, is in its place.     *)
OldOrNew ==
  [][ret' # "none" =>
       \/ UNCHANGED <<mm, regs, proc, image, cred, host>>
       \/ /\ proc' = [nr_tasks |-> 1, traces |-> {}]
          /\ vfds' = vfds
          /\ ret' = "ok" => image' = NoImage \/ image'.envp \in {r.envp : r \in Requests}]_allvars

Pages(f, bias) ==
  UNION {PageOf(seg.vaddr + bias) .. SegTop(seg, bias) - 1 : seg \in Range(Files[f].segs)}

(* The linker gives each segment pages of its own.                         *)
OwnPages(f) ==
  \A i, j \in DOMAIN Files[f].segs :
    i # j => \A a \in {Files[f].segs[i].vaddr + k : k \in 0 .. Files[f].segs[i].memsz - 1},
                b \in {Files[f].segs[j].vaddr + k : k \in 0 .. Files[f].segs[j].memsz - 1} :
               PageOf(a) # PageOf(b)

(* Byte k of a segment is byte k of the file, and zero past filesz.        *)
InPlace(f, bias) ==
  OwnPages(f) =>
    \A seg \in Range(Files[f].segs) : \A k \in 0 .. seg.memsz - 1 :
      /\ seg.vaddr + bias + k \in DOMAIN mm.mem
      /\ mm.mem[seg.vaddr + bias + k] =
           IF k < seg.filesz THEN [file |-> f, off |-> seg.offset + k] ELSE [file |-> NoPath, off |-> 0]

(* A program that was loaded is whole: load_elf and load_elf_interp put    *)
(* every byte of its segments and of its interpreter's where they belong,  *)
(* neither on top of the other; the processor starts at the entry of one   *)
(* that is mapped; and the heap begins above both and below the stack.     *)
ImageWhole ==
  image # NoImage =>
    LET f == image.file
        i == image.interp
        mapped == Pages(f, image.base) \cup (IF i = NoPath THEN {} ELSE Pages(i, image.at))
    IN  /\ InPlace(f, image.base)
        /\ i # NoPath => InPlace(i, image.at) /\ Pages(f, image.base) \cap Pages(i, image.at) = {}
        /\ DOMAIN mm.mem = mapped
        /\ regs.rip = IF i = NoPath THEN Files[f].entry + image.base ELSE Files[i].entry + image.at
        /\ mm.start_brk % PAGE = 0
        /\ \A a \in mapped : a < mm.start_brk /\ a < STACK_TOP - STACK_SIZE
        /\ mm.current_brk >= mm.start_brk

(* The stack read the way the ABI of Linux says: argc, argv, a null        *)
(* pointer, envp, a null pointer, the auxiliary vector.                    *)
WordAt(a) == mm.stack[a][2]

RECURSIVE StringAt(_)
StringAt(a) == IF mm.stack[a] = Nul THEN <<>> ELSE <<mm.stack[a][2]>> \o StringAt(a + 1)

StringsFrom(a, n) == [k \in 1 .. n |-> StringAt(WordAt(a + 8 * (k - 1)))]

Fits(argv, envp) ==
  16 + roundup(Len(Strings(argv) \o Strings(envp)), 8) + 8 * (16 + 3 + Len(argv) + Len(envp))
    <= STACK_SIZE

(* The new program finds its arguments, its environment and the address of *)
(* its program headers where init_userstack was to put them, if they fit,  *)
(* also when it came from a script that put its own words first.           *)
StackReadsBack ==
  (image # NoImage /\ Fits(image.argv, image.envp)) =>
    LET n == Len(image.argv)
        env == regs.rsp + 8 * (n + 2)
        aux == env + 8 * (Len(image.envp) + 1)
        seg == Files[image.file].segs[1]
    IN  /\ WordAt(regs.rsp) = n
        /\ StringsFrom(regs.rsp + 8, n) = image.argv /\ WordAt(env - 8) = 0
        /\ StringsFrom(env, Len(image.envp)) = image.envp /\ WordAt(aux - 8) = 0
        /\ \E k \in 0 .. 7 :
             /\ WordAt(aux + 16 * k) = AT.PHDR
             /\ Files[image.file].phoff \in seg.offset .. seg.offset + seg.filesz - 1
                  => mm.mem[WordAt(aux + 16 * k + 8)].off = Files[image.file].phoff
=============================================================================
