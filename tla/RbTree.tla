------------------------------- MODULE RbTree -------------------------------
(***************************************************************************)
(* The red-black tree and the list of the regions of guest memory          *)
(* (src/include/util/tree.h, src/src/mm/mm.c).                             *)
(*                                                                         *)
(* A node is a region of one page; its number is its address.  The two     *)
(* halves of tree.h that mirror each other are one definition with a side  *)
(* as parameter.                                                           *)
(***************************************************************************)
EXTENDS Integers, SequencesExt

CONSTANT K   \* pages 1 .. K

ASSUME RbAssumption == K \in Nat \ {0}

Nodes == 1 .. K
NULL == 0

Sides == {"left", "right"}
Other(s) == IF s = "left" THEN "right" ELSE "left"

VARIABLES
  tree,   \* mm_region_tree: root, children, parents and the set of red nodes
  list    \* mm_regions

vars == <<tree, list>>

(* The side of its parent p that n hangs on, and putting m there instead.  *)
SideOf(t, p, n) == IF t.kid["left"][p] = n THEN "left" ELSE "right"

Replace(t, p, n, m) ==
  IF p = NULL THEN [t EXCEPT !.root = m] ELSE [t EXCEPT !.kid[SideOf(t, p, n)][p] = m]

SetParent(t, n, p) == IF n = NULL THEN t ELSE [t EXCEPT !.parent[n] = p]

Red(t, n) == n \in t.red

Recolor(t, black, red) == [t EXCEPT !.red = (@ \ black) \cup red]

(* RB_ROTATE_LEFT and RB_ROTATE_RIGHT.                                     *)
Rotate(t, s, x) ==
  LET y  == t.kid[Other(s)][x]
      t1 == SetParent([t EXCEPT !.kid[Other(s)][x] = t.kid[s][y]], t.kid[s][y], x)
      t2 == Replace([t1 EXCEPT !.parent[y] = t.parent[x]], t.parent[x], x, y)
  IN  [t2 EXCEPT !.kid[s][y] = x, !.parent[x] = y]
-----------------------------------------------------------------------------
(* Mutant of RB_INSERT_COLOR: the inner grandchild is not moved outwards.  *)
RECURSIVE InsertColor_inner(_, _)
InsertColor_inner(t, n) ==
  LET p == t.parent[n] IN
  IF p = NULL \/ ~Red(t, p) THEN [t EXCEPT !.red = @ \ {t.root}]
  ELSE LET g == t.parent[p]
           s == SideOf(t, g, p)
           u == t.kid[Other(s)][g]
       IN  IF Red(t, u) THEN InsertColor_inner(Recolor(t, {u, p}, {g}), g)
           ELSE InsertColor_inner(Rotate(Recolor(t, {p}, {g}), Other(s), g), n)

RECURSIVE RB_INSERT_COLOR(_, _)
RB_INSERT_COLOR(t, n) ==
  LET p == t.parent[n] IN
  IF p = NULL \/ ~Red(t, p) THEN [t EXCEPT !.red = @ \ {t.root}]
  ELSE LET g == t.parent[p]
           s == SideOf(t, g, p)
           u == t.kid[Other(s)][g]
           inner == t.kid[Other(s)][p] = n
           t1 == IF inner THEN Rotate(t, s, p) ELSE t
       IN  IF Red(t, u) THEN RB_INSERT_COLOR(Recolor(t, {u, p}, {g}), g)
           ELSE RB_INSERT_COLOR(
                  Rotate(Recolor(t1, {IF inner THEN n ELSE p}, {g}), Other(s), g),
                  IF inner THEN p ELSE n)

(* The node under which a new one goes: the descent of RB_INSERT.          *)
RECURSIVE Descend(_, _, _)
Descend(t, n, at) ==
  LET next == t.kid[IF n < at THEN "left" ELSE "right"][at]
  IN  IF next = NULL THEN at ELSE Descend(t, n, next)

RB_INSERT(t, n) ==
  IF t.root = NULL
  THEN RB_INSERT_COLOR([Recolor(t, {}, {n}) EXCEPT !.root = n], n)
  ELSE LET p == Descend(t, n, t.root)
       IN  RB_INSERT_COLOR([Recolor(t, {}, {n}) EXCEPT !.parent[n] = p,
                              !.kid[IF n < p THEN "left" ELSE "right"][p] = n], n)
-----------------------------------------------------------------------------
(* One round of the loop, at the child e (or NULL) of p.                   *)
RECURSIVE RB_REMOVE_COLOR(_, _, _)
RB_REMOVE_COLOR(t, p, e) ==
  IF Red(t, e) \/ e = t.root THEN [t EXCEPT !.red = @ \ {e}]
  ELSE LET s  == SideOf(t, p, e)
           o  == Other(s)
           b  == t.kid[o][p]
           t1 == IF Red(t, b) THEN Rotate(Recolor(t, {b}, {p}), s, p) ELSE t
           b1 == t1.kid[o][p]
           in == t1.kid[s][b1]
           t2 == IF Red(t1, t1.kid[o][b1]) THEN t1
                 ELSE Rotate(Recolor(t1, {in}, {b1}), o, b1)
           b2 == t2.kid[o][p]
           t3 == Recolor(t2, {b2, p, t2.kid[o][b2]}, IF Red(t2, p) THEN {b2} ELSE {})
           t4 == Rotate(t3, s, p)
       IN  IF ~Red(t1, in) /\ ~Red(t1, t1.kid[o][b1])
           THEN RB_REMOVE_COLOR(Recolor(t1, {}, {b1}), t1.parent[p], p)
           ELSE [t4 EXCEPT !.red = @ \ {t4.root}]

RECURSIVE Leftmost(_, _)
Leftmost(t, n) == IF t.kid["left"][n] = NULL THEN n ELSE Leftmost(t, t.kid["left"][n])

(* Take out a node with at most one child.                                 *)
Unlink(t, n, child) == Replace(SetParent(t, child, t.parent[n]), t.parent[n], n, child)

(* A node that is not in the tree: its links are cleared for comparison.   *)
Clear(t, n) == [t EXCEPT !.kid["left"][n] = NULL, !.kid["right"][n] = NULL,
                         !.parent[n] = NULL, !.red = @ \ {n}]

(* m, the next node, takes the place and the colour of n.                  *)
TakePlace(t, n, m) ==
  LET t1 == Replace(Recolor([t EXCEPT !.kid["left"][m] = t.kid["left"][n],
                                      !.kid["right"][m] = t.kid["right"][n],
                                      !.parent[m] = t.parent[n]],
                            {m}, IF Red(t, n) THEN {m} ELSE {}),
                    t.parent[n], n, m)
  IN  SetParent(SetParent(t1, t.kid["left"][n], m), t.kid["right"][n], m)

(* Mutant of RB_REMOVE: the colours are not set right.                     *)
RB_REMOVE_uncoloured(t, n) ==
  LET l == t.kid["left"][n]
      r == t.kid["right"][n]
      m == Leftmost(t, r)
  IN  IF l = NULL \/ r = NULL
      THEN Clear(Unlink(t, n, IF l = NULL THEN r ELSE l), n)
      ELSE Clear(TakePlace(Unlink(t, m, t.kid["right"][m]), n, m), n)

RB_REMOVE(t, n) ==
  LET l == t.kid["left"][n]
      r == t.kid["right"][n]
      m == Leftmost(t, r)
      two == l # NULL /\ r # NULL
      child == IF two THEN t.kid["right"][m] ELSE IF l = NULL THEN r ELSE l
      black == ~Red(t, IF two THEN m ELSE n)
      p == IF ~two THEN t.parent[n] ELSE IF t.parent[m] = n THEN m ELSE t.parent[m]
      t1 == Clear(IF two THEN TakePlace(Unlink(t, m, child), n, m) ELSE Unlink(t, n, child), n)
  IN  IF black THEN RB_REMOVE_COLOR(t1, p, child) ELSE t1
-----------------------------------------------------------------------------
RECURSIVE Rightmost(_, _)
Rightmost(t, n) == IF t.kid["right"][n] = NULL THEN n ELSE Rightmost(t, t.kid["right"][n])

(* The first ancestor that n is to the right of.                           *)
RECURSIVE UpFromRight(_, _)
UpFromRight(t, n) ==
  LET p == t.parent[n]
  IN  IF p = NULL \/ t.kid["right"][p] = n THEN p ELSE UpFromRight(t, p)

(* Mutant of RB_PREV: the parent, whichever side the node hangs on.        *)
RB_PREV_parent(t, n) ==
  IF t.kid["left"][n] # NULL THEN Rightmost(t, t.kid["left"][n]) ELSE t.parent[n]

RB_PREV(t, n) ==
  IF t.kid["left"][n] # NULL THEN Rightmost(t, t.kid["left"][n]) ELSE UpFromRight(t, n)

(* region_compare of the range lo .. hi with a region of one page.         *)
region_compare(lo, hi, n) == IF lo > n THEN 1 ELSE IF hi < n THEN -1 ELSE 0

RECURSIVE RB_FIND(_, _, _, _)
RB_FIND(t, lo, hi, n) ==
  IF n = NULL THEN NULL
  ELSE LET c == region_compare(lo, hi, n)
       IN  IF c = 0 THEN n ELSE RB_FIND(t, lo, hi, t.kid[IF c < 0 THEN "left" ELSE "right"][n])

(* The walk to the left at the end of find_region_range.                   *)
RECURSIVE WalkLeft(_, _, _, _)
WalkLeft(t, lo, hi, n) ==
  LET l == t.kid["left"][n]
  IN  IF l # NULL /\ region_compare(lo, hi, l) = 0 THEN WalkLeft(t, lo, hi, l) ELSE n

(* Mutant of find_region_range: no walk to the left.                       *)
find_region_range_any(t, lo, hi) == RB_FIND(t, lo, hi, t.root)

find_region_range(t, lo, hi) ==
  LET n == RB_FIND(t, lo, hi, t.root)
  IN  IF n = NULL THEN NULL ELSE WalkLeft(t, lo, hi, n)
-----------------------------------------------------------------------------
NoLinks == [n \in Nodes |-> NULL]

Init ==
  /\ tree = [root |-> NULL, kid |-> [s \in Sides |-> NoLinks], parent |-> NoLinks, red |-> {}]
  /\ list = <<>>

(* list_add(n, prev), at the front without a prev.                         *)
AddAfter(l, prev, n) ==
  InsertAt(l, IF prev = NULL THEN 1 ELSE 1 + CHOOSE i \in DOMAIN l : l[i] = prev, n)

record_region(n) ==
  /\ n \notin ToSet(list)
  /\ tree' = RB_INSERT(tree, n)
  /\ list' = AddAfter(list, RB_PREV(tree', n), n)

remove_region(n) ==
  /\ n \in ToSet(list)
  /\ tree' = RB_REMOVE(tree, n)
  /\ list' = SelectSeq(list, LAMBDA m : m # n)

Next == \E n \in Nodes : record_region(n) \/ remove_region(n)

Spec == Init /\ [][Next]_vars
-----------------------------------------------------------------------------
(* The nodes under n in order, and the number of black nodes on every path *)
(* down from n, or -1 when the paths disagree or a red node has a red child. *)
RECURSIVE InOrder(_, _)
InOrder(t, n) ==
  IF n = NULL THEN <<>> ELSE InOrder(t, t.kid["left"][n]) \o <<n>> \o InOrder(t, t.kid["right"][n])

RECURSIVE BlackHeight(_, _)
BlackHeight(t, n) ==
  IF n = NULL THEN 0
  ELSE LET l == BlackHeight(t, t.kid["left"][n])
           r == BlackHeight(t, t.kid["right"][n])
       IN  IF l = -1 \/ l # r \/ (Red(t, n) /\ \E s \in Sides : Red(t, t.kid[s][n])) THEN -1
           ELSE IF Red(t, n) THEN l ELSE l + 1

(* After any sequence of insertions and removals the tree is a red-black   *)
(* tree: a black root, no red node under a red one and the same number of  *)
(* black nodes on every path.                                              *)
Balanced == tree.root \notin tree.red /\ BlackHeight(tree, tree.root) # -1

(* The list, into which record_region inserts after RB_PREV, holds the     *)
(* regions of the tree in the order of their addresses; do_munmap and      *)
(* mprotect go on from a node of the tree along the list.                  *)
ListFollowsTree ==
  /\ list = InOrder(tree, tree.root)
  /\ \A i, j \in DOMAIN list : i < j => list[i] < list[j]

(* find_region_range finds a region of the range whenever there is one,    *)
(* and the lowest one unless there is a region below the range.            *)
RangeFound ==
  \A lo \in Nodes : \A hi \in lo .. K :
    LET n == find_region_range(tree, lo, hi)
        S == ToSet(list) \cap (lo .. hi)
    IN  IF S = {} THEN n = NULL
        ELSE n \in S /\ (n = Min(S) \/ ToSet(list) \cap (1 .. lo - 1) # {})
=============================================================================
