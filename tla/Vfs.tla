-------------------------------- MODULE Vfs --------------------------------
(***************************************************************************)
(* Path names and the calls that take one (src/src/fs/fs.c).               *)
(*                                                                         *)
(* The program's root directory is a directory of Darwin, rootfd.  A name  *)
(* is resolved by noah up to its last symbolic link, since Darwin would    *)
(* start an absolute link at its own root; what is left, a directory and a *)
(* path below it, is given to Darwin.  Some absolute names (/Users, /dev   *)
(* and the like) are Darwin's own and are passed on as they are.           *)
(***************************************************************************)
EXTENDS Integers, SequencesExt, FiniteSetsExt

CONSTANTS
  Inodes,    \* inodes the program can allocate
  Names,     \* names it gives to them
  Targets,   \* contents of the symbolic links it makes
  Paths,     \* names it passes to a call
  LOOP_MAX,  \* LOOP_MAX of resolve_path, half of what Linux allows
  MaxNames,  \* bound on the names the program makes at a time
  HostLoops  \* symbolic links that Darwin follows

(* The directories that exist: Darwin's root, the directory /Users of it,  *)
(* and the root of the Linux tree in there.                                *)
DarwinRoot == "darwin root"
Users == "users"
Root == "root"
AT_FDCWD == "cwd"
None == "none"
Up == ".."
Shared == {"Users"}   \* names that match one of the prefixes of resolve_path

AllNames == Names \cup Shared \cup {"tree"}

ASSUME VfsAssumption ==
  /\ LOOP_MAX \in Nat /\ HostLoops \in Nat /\ MaxNames \in Nat
  /\ Inodes \cap {DarwinRoot, Users, Root, AT_FDCWD, None} = {} /\ Names \cap (Shared \cup {"tree", Up}) = {}
  /\ \A p \in Targets \cup Paths : p.abs \in 0 .. 1 /\ p.comps \in Seq(AllNames \cup {Up})

VARIABLES
  node,   \* what an inode is: a directory, a file, a symbolic link or None
  cwd     \* the working directory

vars == <<node, cwd>>

Dir(ents, up) == [kind |-> "dir", ents |-> ents, up |-> up]
File == [kind |-> "file"]
Symlink(t) == [kind |-> "link", target |-> t]
Unused == [kind |-> None]
Empty == [n \in AllNames |-> None]

IsDir(i) == node[i].kind = "dir"
IsLink(i) == i \in DOMAIN node /\ node[i].kind = "link"
Dirs == {i \in DOMAIN node : IsDir(i)}

(* A path: abs leading slashes (0, 1 or 2), then components.               *)
Path(abs, comps) == [abs |-> abs, comps |-> comps]

Init ==
  /\ node = [i \in Inodes \cup {DarwinRoot, Users, Root} |->
               CASE i = DarwinRoot -> Dir([Empty EXCEPT !["Users"] = Users], DarwinRoot)
                 [] i = Users -> Dir([Empty EXCEPT !["tree"] = Root], DarwinRoot)
                 [] i = Root -> Dir(Empty, Users)
                 [] OTHER -> Unused]
  /\ cwd \in {Users, Root}
-----------------------------------------------------------------------------
(* How a kernel walks a path.  Linux: from Root, with the shared names     *)
(* mounted on it.  Darwin: from its own root.  The result is the inode, or *)
(* an error, the number of links followed, and, for Linux, what was odd on *)
(* the way: ".." out of the tree ("up"), a shared name that is not the     *)
(* first of an absolute path ("mount"), an absolute link before the last   *)
(* component ("absolute"), a link to "/" ("slash") or to a shared name     *)
(* ("shared").                                                             *)
Linux == [root |-> Root, shared |-> Shared, max |-> 2 * LOOP_MAX]
Darwin == [root |-> DarwinRoot, shared |-> {}, max |-> HostLoops]

Child(ns, d, c) ==
  IF c = Up THEN (IF d \in {Root, Users} /\ ns.root = Root THEN Root ELSE node[d].up)
  ELSE IF d = ns.root /\ c \in ns.shared THEN node[DarwinRoot].ents[c]
  ELSE node[d].ents[c]

Oddity(ns, d, c, first) ==
  (IF c = Up /\ d \in {DarwinRoot, Users, Root} THEN {"up"} ELSE {})
    \cup (IF d = ns.root /\ c \in ns.shared /\ ~first THEN {"mount"} ELSE {})

LinkOddity(t, rest) ==
  (IF t.abs = 1 /\ rest # <<>> /\ t.comps # <<>> /\ t.comps[1] \notin Shared THEN {"absolute"} ELSE {})
    \cup (IF t.abs = 1 /\ t.comps = <<>> THEN {"slash"} ELSE {})
    \cup (IF t.abs = 1 /\ t.comps # <<>> /\ t.comps[1] \in Shared THEN {"shared"} ELSE {})

RECURSIVE Walk(_, _, _, _, _, _, _)
Walk(ns, at, comps, first, follow, n, odd) ==
  IF comps = <<>> THEN [ino |-> at, links |-> n, odd |-> odd]
  ELSE IF ~IsDir(at) THEN [ino |-> "ENOTDIR", links |-> n, odd |-> odd]
  ELSE LET c == Head(comps)
           rest == Tail(comps)
           i == Child(ns, at, c)
           o == IF ns.shared = {} THEN {} ELSE odd \cup Oddity(ns, at, c, first)
       IN  IF i = None THEN [ino |-> "ENOENT", links |-> n, odd |-> o]
           ELSE IF IsLink(i) /\ (rest # <<>> \/ follow)
           THEN LET t == node[i].target IN
                IF n = ns.max THEN [ino |-> "ELOOP", links |-> n, odd |-> o]
                ELSE Walk(ns, IF t.abs = 0 THEN at ELSE ns.root, t.comps \o rest, t.abs # 0, follow, n + 1,
                          IF ns.shared = {} THEN {} ELSE o \cup LinkOddity(t, rest))
           ELSE Walk(ns, i, rest, FALSE, follow, n, o)

Lookup(ns, d, p, follow) ==
  Walk(ns, IF p.abs = 0 THEN d ELSE ns.root, p.comps, p.abs # 0, follow, 0, {})

(* The *at calls of Darwin.                                                *)
HostLookup(d, p, follow) == Lookup(Darwin, IF d = AT_FDCWD THEN cwd ELSE d, p, follow).ino
-----------------------------------------------------------------------------
NotALink == Path(0, <<>>)   \* no link is empty

ContentOf(i) == IF IsLink(i) THEN node[i].target ELSE NotALink
darwinfs_readlinkat(d, p) == ContentOf(HostLookup(d, p, FALSE))

ELOOP == [dir |-> "ELOOP", sub |-> Path(0, <<>>)]

(* The mount points: every absolute name but the shared ones starts at     *)
(* rootfd, with its first slash removed.  Of two slashes one remains.      *)
StartDir(d, p) ==
  IF p.abs = 2 \/ (p.abs = 1 /\ (p.comps = <<>> \/ p.comps[1] \notin Shared)) THEN Root ELSE d

(* Mutant of StartPath: the shared names are looked for below rootfd.      *)
StartPath_below(p) == Path(IF p.abs = 2 THEN 1 ELSE 0, p.comps)

StartPath(p) ==
  IF p.abs = 2 THEN Path(1, p.comps)
  ELSE IF p.abs = 1 /\ p.comps # <<>> /\ p.comps[1] \in Shared THEN p
  ELSE Path(0, p.comps)

(* Mutant of Substitute: the directory of a relative link is forgotten.    *)
Substitute_flat(q, k, t) ==
  LET rest == SubSeq(q.comps, k + 1, Len(q.comps)) IN
  Path(t.abs, t.comps \o rest)

(* Put a link's content in the place of component k of q: the rest follows *)
(* an absolute one; a relative one replaces the last component so far.     *)
Substitute(q, k, t) ==
  LET rest == SubSeq(q.comps, k + 1, Len(q.comps)) IN
  IF t.abs = 0 THEN Path(q.abs, SubSeq(q.comps, 1, k - 1) \o t.comps \o rest)
  ELSE Path(IF t.comps = <<>> /\ rest # <<>> THEN 2 ELSE 1, t.comps \o rest)

(* One component after the other is tried with readlinkat; a link starts   *)
(* the walk again.  With LOOKUP_NOFOLLOW no component is tried.            *)
RECURSIVE resolve_path(_, _, _, _)
resolve_path(parent, p, nofollow, loop) ==
  LET d == StartDir(parent, p)
      q == StartPath(p)
      Content(k) == darwinfs_readlinkat(d, Path(q.abs, SubSeq(q.comps, 1, k)))
      Links == {k \in DOMAIN q.comps : Content(k) # NotALink}
  IN  IF loop > LOOP_MAX THEN ELOOP
      ELSE IF nofollow \/ Links = {} THEN [dir |-> d, sub |-> q]
      ELSE resolve_path(d, Substitute(q, Min(Links), Content(Min(Links))), nofollow, loop + 1)

vfs_grab_dir(d, p, nofollow) ==
  IF p.abs = 0 /\ p.comps = <<>> THEN [dir |-> "ENOENT", sub |-> p]
  ELSE resolve_path(d, p, nofollow, 0)

Grabbed(g) == g.dir \in DOMAIN node \cup {AT_FDCWD}

(* The inode a call acts on: the lookup of noah, then that of Darwin.      *)
HostTarget(g, follow) == IF Grabbed(g) THEN HostLookup(g.dir, g.sub, follow) ELSE g.dir
Target(d, p, nofollow) == HostTarget(vfs_grab_dir(d, p, nofollow), ~nofollow)

(* The directory and the name in it that a call of Darwin that makes or    *)
(* removes a name acts on; it never follows the last component.            *)
Nowhere == [dir |-> None, name |-> None]
Names_(p) == p.comps # <<>> /\ Last(p.comps) # Up
PlaceOf(d, p) == IF d \in Dirs THEN [dir |-> d, name |-> Last(p.comps)] ELSE Nowhere

HostPlace(d, g) ==   \* g: what vfs_grab_dir has found
  IF Grabbed(g) /\ Names_(g.sub)
  THEN PlaceOf(HostLookup(d, Path(g.sub.abs, Front(g.sub.comps)), TRUE), g.sub) ELSE Nowhere

PlaceAt(g) == HostPlace(g.dir, g)
Place(d, p, nofollow) == PlaceAt(vfs_grab_dir(d, p, nofollow))

At(pl) == node[pl.dir].ents[pl.name]
Exists(pl) == pl # Nowhere /\ At(pl) # None
Vacant(pl) == pl # Nowhere /\ At(pl) = None /\ node[pl.dir].up # None

(* An inode goes when no directory names it, unless it is the working      *)
(* directory.                                                              *)
Collect(nd, wd) ==
  LET D == {i \in DOMAIN nd : nd[i].kind = "dir"}
      kept == {nd[d].ents[n] : d \in D, n \in AllNames} \cup {wd, DarwinRoot}
  IN  [i \in DOMAIN nd |-> IF i \in kept THEN nd[i] ELSE Unused]

Room == Cardinality({e \in Dirs \X Names : node[e[1]].ents[e[2]] # None}) < MaxNames

Make(pl, what) ==
  /\ Room /\ Vacant(pl)
  /\ \E i \in Inodes :
       /\ node[i] = Unused
       /\ node' = [node EXCEPT ![i] = what, ![pl.dir].ents[pl.name] = i]
  /\ UNCHANGED cwd

(* The program works from its working directory and a descriptor of "/".   *)
StartDirs == {AT_FDCWD, Root}
-----------------------------------------------------------------------------
(* One action per call that changes the tree or the working directory; a   *)
(* call that fails changes nothing.  A call with O_CREAT opens what is     *)
(* there, or makes a file.                                                 *)
do_openat(d, p, nofollow) == Make(Place(d, p, nofollow), File)

MakeLink(pl) == Room /\ Vacant(pl) /\ \E t \in Targets : Make(pl, Symlink(t))
symlinkat(d, p) == MakeLink(Place(d, p, FALSE))

MakeDir(pl) == Make(pl, Dir(Empty, pl.dir))
mkdirat(d, p) == MakeDir(Place(d, p, FALSE))

(* mkfifo is given the path without the directory.                         *)
mknodat(d, p) == Make(HostPlace(AT_FDCWD, vfs_grab_dir(d, p, FALSE)), File)

(* The directories that noah was started in stay: only Inodes go.          *)
EmptyDir(i) == IsDir(i) /\ node[i].ents = Empty

Unlink(pl, rmdir) ==
  LET removed == [node EXCEPT ![pl.dir].ents[pl.name] = None]
  IN  /\ Exists(pl)
      /\ IF rmdir THEN EmptyDir(At(pl)) /\ At(pl) \in Inodes ELSE ~IsDir(At(pl))
      /\ node' = Collect(IF rmdir THEN [removed EXCEPT ![At(pl)].up = None] ELSE removed, cwd)
      /\ UNCHANGED cwd

unlinkat(d, p, rmdir) == Unlink(Place(d, p, TRUE), rmdir)

RECURSIVE Within(_, _)
Within(i, d) ==  \* directory i lies in d, or is d
  i = d \/ (i \notin {DarwinRoot, None} /\ Within(node[i].up, d))

Move(from, to) ==
  LET i == At(from)
      moved == [node EXCEPT ![from.dir].ents[from.name] = None, ![to.dir].ents[to.name] = i]
      over == IF Exists(to) /\ IsDir(At(to)) THEN [moved EXCEPT ![At(to)].up = None] ELSE moved
  IN  /\ Exists(from) /\ i \in Inodes /\ to # Nowhere /\ node[to.dir].up # None
      /\ At(to) \in Inodes \cup {None} /\ At(to) # i
      /\ IsDir(i) => ~Within(to.dir, i)
      /\ Exists(to) => IF IsDir(i) THEN EmptyDir(At(to)) ELSE ~IsDir(At(to))
      /\ node' = Collect(IF IsDir(i) THEN [over EXCEPT ![i].up = to.dir] ELSE over, cwd)
      /\ UNCHANGED cwd

renameat(d1, p1, d2, p2) == Move(Place(d1, p1, TRUE), Place(d2, p2, TRUE))

Link(i, to) ==
  /\ Room /\ Vacant(to)
  /\ i \in DOMAIN node /\ ~IsDir(i)
  /\ node' = [node EXCEPT ![to.dir].ents[to.name] = i]
  /\ UNCHANGED cwd

linkat(d1, p1, d2, p2, follow) == Link(Target(d1, p1, ~follow), Place(d2, p2, FALSE))

vfs_fchdir(d) ==
  /\ cwd' = d
  /\ node' = Collect(node, d)

(* fchdir takes any directory that the program has open.                   *)
fchdir(d) == d \in Dirs /\ vfs_fchdir(d)
chdir(p) == fchdir(Target(AT_FDCWD, p, FALSE))

Next ==
  \/ \E d \in StartDirs, p \in Paths :
       \/ \E nofollow \in BOOLEAN : do_openat(d, p, nofollow)
       \/ symlinkat(d, p)
       \/ mkdirat(d, p)
       \/ mknodat(d, p)
       \/ \E rmdir \in BOOLEAN : unlinkat(d, p, rmdir)
  \/ \E p, p2 \in Paths :
       \/ renameat(AT_FDCWD, p, AT_FDCWD, p2)
       \/ \E follow \in BOOLEAN : linkat(AT_FDCWD, p, AT_FDCWD, p2, follow)
  \/ \E p \in Paths : chdir(p)
  \/ \E d \in Dirs : fchdir(d)

Spec == Init /\ [][Next]_vars
-----------------------------------------------------------------------------
(* The calls that only look at an inode or change its attributes.          *)
newfstatat(d, p, nofollow) == Target(d, p, nofollow)
fchownat(d, p, nofollow) == Target(d, p, nofollow)
fchmodat(d, p) == Target(d, p, FALSE)
do_faccessat(d, p) == Target(d, p, FALSE)
readlinkat(d, p) == Target(d, p, TRUE)

(* The path of a directory in Darwin's tree: what F_GETPATH and getcwd say *)
RECURSIVE HostPath(_)
HostPath(d) ==
  IF d = DarwinRoot THEN <<>>
  ELSE LET up == node[d].up
       IN  Append(HostPath(up), CHOOSE n \in AllNames : node[up].ents[n] = d)

vfs_getcwd == Path(1, HostPath(cwd))

(* statfs has no *at form: the directory's path is put before the rest,    *)
(* which may itself be absolute.                                           *)
darwinfs_statfs(d, p) ==
  IF d = AT_FDCWD THEN HostLookup(AT_FDCWD, p, TRUE)
  ELSE HostLookup(AT_FDCWD, Path(1, HostPath(d) \o p.comps), TRUE)

StatfsAt(g) == IF Grabbed(g) THEN darwinfs_statfs(g.dir, g.sub) ELSE g.dir
statfs(p) == StatfsAt(vfs_grab_dir(AT_FDCWD, p, FALSE))
-----------------------------------------------------------------------------
Plain(w, odd) == w.odd \cap ({"up", "mount", "slash"} \cup odd) = {}

Agrees(got, w, odd) ==
  Plain(w, odd) =>
    /\ w.links <= LOOP_MAX => got = w.ino
    /\ w.links > LOOP_MAX => got \in {"ELOOP", w.ino}

(* Where a call of Linux makes or removes the name p.                      *)
LinuxPlace(p, w) == IF Names_(p) THEN PlaceOf(w.ino, p) ELSE Nowhere

(* Every call reaches the inode, or the place in a directory, that Linux   *)
(* reaches with the same name in a tree where the shared directories are   *)
(* mounted on the root, whatever links are on the way (resolve_path        *)
(* restarts at each of them, then Darwin walks what is left), and reports  *)
(* ELOOP for a circle.  The names set apart by Plain are those for which   *)
(* noah gives up Linux's meaning; so are a new name that is a link already *)
(* for the calls that make one, and an absolute link on the way to the     *)
(* last component for those that do not follow.                            *)
LookupAgrees ==
  \A p \in Paths : \A d \in IF p.abs = 0 THEN Dirs \ {DarwinRoot} ELSE {cwd} :
    LET w == Lookup(Linux, d, p, TRUE)
        l == Lookup(Linux, d, p, FALSE)
        up == Lookup(Linux, d, Path(p.abs, Front(p.comps)), TRUE)
        circle == w.ino = "ELOOP" /\ Plain(w, {})
    IN  /\ Agrees(newfstatat(d, p, FALSE), w, {})
        /\ Agrees(readlinkat(d, p), l, {"absolute"})
        /\ circle => do_faccessat(d, p) = "ELOOP"
        /\ d = cwd => /\ Agrees(statfs(p), w, {"shared"})
                      /\ Agrees(fchmodat(d, p), w, {})
                      /\ Agrees(fchownat(d, p, TRUE), l, {"absolute"})
        /\ (Names_(p) /\ Plain(l, {"absolute"}) /\ l.links <= LOOP_MAX)
             => Place(d, p, TRUE) = LinuxPlace(p, up)
        /\ (Names_(p) /\ Plain(l, {}) /\ ~IsLink(l.ino) /\ l.links <= LOOP_MAX)
             => Place(d, p, FALSE) = LinuxPlace(p, up)

(* What getcwd says is a name by which chdir finds the working directory   *)
(* again, if it lies in a shared directory, as the Linux tree itself does: *)
(* the name is Darwin's, untranslated by vfs_getcwd, and resolve_path must *)
(* hand exactly such names back to Darwin.                                 *)
CwdNamed ==
  Within(cwd, Users) => Target(AT_FDCWD, vfs_getcwd, FALSE) = cwd
=============================================================================
