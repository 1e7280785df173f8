------------------------- MODULE FutexRefineProofs -------------------------
(***************************************************************************)
(* Proof that the futexes of src/src/ipc/futex.c implement FutexAbs, for   *)
(* any number of threads, words, entries and bits, as long as no wait      *)
(* times out and no condition variable returns spuriously.                 *)
(*                                                                         *)
(* The invariant RefInv adds to EntryInv that a call with more than one    *)
(* step holds futex_mutex, that a linked entry carries the bitset of its   *)
(* sleeper, and that ahead orders entries of one list only and is          *)
(* transitive, which makes the first n entries of a list a front of it     *)
(* (FirstOfClosed).  A lemma named View turns what a step does to each     *)
(* thread into a step of FutexAbs; a lemma named Follows shows it for one  *)
(* call.                                                                   *)
(***************************************************************************)
EXTENDS FutexRefine, FutexProofs

(* Places inside a critical section of more than one step.                 *)
InCall == {"wait", "lock_pi", "requeue"}

(* The order of the lists: between linked entries of one word, and         *)
(* transitive.                                                             *)
Ordered ==
  /\ \A b, c \in Blocks : <<b, c>> \in ahead => /\ b \in linked /\ c \in linked
                                              /\ entry[b].uaddr = entry[c].uaddr
  /\ \A b, c, d \in Blocks : <<b, c>> \in ahead /\ <<c, d>> \in ahead => <<b, d>> \in ahead

(* What a thread inside a call has: futex_mutex, words that exist and, for *)
(* a requeue, differ; a sleeper's entry has the bitset of its call.        *)
Calling ==
  /\ \A t \in Threads : pc[t] \in InCall => futex_mutex = t /\ call[t].uaddr \in Addrs
  /\ \A t \in Threads : pc[t] = "requeue" => call[t].uaddr2 \in Addrs /\ call[t].uaddr # call[t].uaddr2
  /\ \A t \in Threads : pc[t] = "asleep" /\ blk[t] \in linked => entry[blk[t]].bitset = call[t].bitset

(* The inductive invariant.                                                *)
RefInv == EntryInv /\ Calling /\ Ordered

(* A sleeper that no wake has taken yet.                                   *)
Awaits(t) == pc[t] = "asleep" /\ blk[t] \in linked

(* What the invariant says of sleepers and entries.                        *)
LEMMA RefFacts ==
  ASSUME RefInv
  PROVE  /\ TypeOK /\ linked \subseteq heap /\ linked \cap signalled = {} /\ linked \subseteq Blocks
         /\ \A t \in Threads : pc[t] = "asleep" => /\ blk[t] \in Blocks /\ blk[t] \in heap
                                                  /\ (blk[t] \notin signalled <=> blk[t] \in linked)
         /\ \A t, u \in Threads : pc[t] = "asleep" /\ pc[u] = "asleep" /\ blk[t] = blk[u] => t = u
         /\ \A t \in Threads : Blocked(t) <=> pc[t] \in {"wait", "lock_pi"} \/ Awaits(t)
         /\ \A b \in linked : \E t \in Threads : Awaits(t) /\ blk[t] = b
<1>1. /\ TypeOK
      /\ \A t \in Threads : pc[t] = "asleep" => blk[t] \in heap /\ blk[t] \in linked \cup signalled
      /\ \A t, u \in Threads : blk[t] = blk[u] /\ blk[t] # NoBlock => t = u
  BY DEF RefInv, EntryInv, SleepInv, Sleeping
<1>2. linked \subseteq heap /\ linked \cap signalled = {} /\ heap \subseteq Blocks /\ NoBlock \notin Blocks
  BY <1>1, BlocksAssumption DEF RefInv, EntryInv, EntriesAwaited, TypeOK
<1>3. \A b \in linked : \E t \in Threads : pc[t] = "asleep" /\ blk[t] = b
  BY DEF RefInv, EntryInv, EntriesAwaited
<1> QED
  BY <1>1, <1>2, <1>3 DEF Blocked, Awaits

(* Whoever is ahead of one of the first n entries is one of them           *)
(* (do_private_futex_wake, src/src/ipc/futex.c:48-59).                     *)
LEMMA FirstOfClosed ==
  ASSUME TypeOK, Ordered, NEW S \in SUBSET linked, NEW n \in Int, NEW b \in FirstOf(S, n),
         NEW c \in S, <<c, b>> \in ahead
  PROVE  c \in FirstOf(S, n)
<1> DEFINE P == {d \in S : <<d, c>> \in ahead}
           R == {d \in S : <<d, b>> \in ahead}
<1>1. n < 0 \/ Cardinality(R) < n
  BY DEF FirstOf
<1>2. b \in Blocks /\ c \in Blocks /\ S \subseteq Blocks
  BY DEF FirstOf, TypeOK
<1>3. P \subseteq R
  BY <1>2 DEF Ordered
<1>4. IsFiniteSet(R)
  BY <1>2, BlocksAssumption, FS_Subset
<1>5. /\ Cardinality(P) <= Cardinality(R) /\ Cardinality(P) \in Nat /\ Cardinality(R) \in Nat
  BY <1>3, <1>4, FS_Subset, FS_CardinalityType
<1>6. n < 0 \/ Cardinality(P) < n
  BY <1>1, <1>5
<1> QED
  BY <1>6 DEF FirstOf

(* Taking entries out leaves the lists ordered,                            *)
LEMMA DequeueOrdered ==
  ASSUME Ordered, NEW W, Dequeue(W), entry' = entry
  PROVE  Ordered'
BY DEF Ordered, Dequeue

(* and so does list_add_tail.                                              *)
LEMMA EnqueueOrdered ==
  ASSUME TypeOK, Ordered, NEW b \in Blocks \ linked, NEW a, NEW B, Enqueue(b, a, B)
  PROVE  Ordered'
<1>1. /\ entry' = [entry EXCEPT ![b] = [uaddr |-> a, bitset |-> B]]
      /\ linked' = linked \cup {b} /\ ahead' = ahead \cup {<<c, b>> : c \in Queue(a)}
  BY DEF Enqueue
<1>2. entry'[b].uaddr = a /\ \A c \in linked : entry'[c] = entry[c]
  BY <1>1 DEF TypeOK
<1>3. \A c, d \in Blocks : <<c, d>> \in ahead' <=> <<c, d>> \in ahead \/ (d = b /\ c \in Queue(a))
  BY <1>1
<1>4. \A c \in Blocks : <<c, b>> \notin ahead /\ <<b, c>> \notin ahead
  BY DEF Ordered
<1>5. \A c \in Queue(a) : c \in linked /\ c # b /\ entry[c].uaddr = a
  BY DEF Queue
<1>6. ASSUME NEW c \in Blocks, NEW d \in Blocks, <<c, d>> \in ahead'
      PROVE  c \in linked' /\ d \in linked' /\ entry'[c].uaddr = entry'[d].uaddr
  BY <1>1, <1>2, <1>3, <1>5, <1>6 DEF Ordered
<1>7. ASSUME NEW c \in Blocks, NEW d \in Blocks, NEW e \in Blocks, <<c, d>> \in ahead', <<d, e>> \in ahead'
      PROVE  <<c, e>> \in ahead'
  <2>1. d # b /\ <<c, d>> \in ahead
    BY <1>3, <1>4, <1>5, <1>7
  <2>2. CASE <<d, e>> \in ahead
    BY <1>3, <2>1, <2>2 DEF Ordered
  <2>3. CASE e = b /\ d \in Queue(a)
    BY <1>3, <2>1, <2>3 DEF Ordered, Queue
  <2> QED
    BY <1>3, <1>7, <2>2, <2>3
<1> QED
  BY <1>6, <1>7 DEF Ordered

(* What FUTEX_CMP_REQUEUE_PI does to the lists, entry by entry.            *)
Relinked(W, M, a2) ==
  /\ linked' = linked \ W
  /\ \A b \in Blocks : entry'[b].uaddr = IF b \in M THEN a2 ELSE entry[b].uaddr
  /\ \A b, c \in Blocks : <<b, c>> \in ahead' <=>
       \/ <<b, c>> \in ahead /\ b \notin W /\ c \notin W /\ (b \in M <=> c \in M)
       \/ b \in Queue(a2) /\ c \in M

(* A requeue leaves the lists ordered, because its two words differ.       *)
LEMMA MovedOrdered ==
  ASSUME TypeOK, Ordered, NEW a, NEW a2, a # a2, NEW W \in SUBSET Queue(a), NEW M \in SUBSET (Queue(a) \ W),
         Relinked(W, M, a2)
  PROVE  Ordered'
<1>1. \A b \in Queue(a) : b \in linked /\ b \in Blocks /\ entry[b].uaddr = a
  BY DEF Queue, TypeOK
<1>2. \A b \in Queue(a2) : b \in linked /\ b \in Blocks /\ entry[b].uaddr = a2 /\ b \notin M /\ b \notin W
  BY <1>1 DEF Queue, TypeOK
<1>3. \A b, c \in Blocks : <<b, c>> \in ahead' <=>
        \/ <<b, c>> \in ahead /\ b \notin W /\ c \notin W /\ (b \in M <=> c \in M)
        \/ b \in Queue(a2) /\ c \in M
  BY DEF Relinked
<1>4. linked' = linked \ W /\ \A b \in Blocks : entry'[b].uaddr = IF b \in M THEN a2 ELSE entry[b].uaddr
  BY DEF Relinked
<1>5. ASSUME NEW b \in Blocks, NEW c \in Blocks, <<b, c>> \in ahead'
      PROVE  b \in linked' /\ c \in linked' /\ entry'[b].uaddr = entry'[c].uaddr
  BY <1>1, <1>2, <1>3, <1>4, <1>5 DEF Ordered
<1>6. ASSUME NEW b \in Blocks, NEW c \in Blocks, NEW d \in Blocks, <<b, c>> \in ahead', <<c, d>> \in ahead'
      PROVE  <<b, d>> \in ahead'
  <2>1. CASE <<b, c>> \in ahead /\ b \notin W /\ c \notin W /\ (b \in M <=> c \in M)
    <3>1. CASE <<c, d>> \in ahead /\ d \notin W /\ (c \in M <=> d \in M)
      BY <1>3, <2>1, <3>1 DEF Ordered
    <3>2. CASE c \in Queue(a2) /\ d \in M
      BY <1>2, <1>3, <2>1, <3>2 DEF Ordered, Queue
    <3> QED
      BY <1>3, <1>6, <3>1, <3>2
  <2>2. CASE b \in Queue(a2) /\ c \in M
    BY <1>2, <1>3, <1>6, <2>2
  <2> QED
    BY <1>3, <1>6, <2>1, <2>2
<1> QED
  BY <1>5, <1>6 DEF Ordered

(* A thread that has been woken and has not returned.                      *)
Woke(t) == pc[t] = "asleep" /\ blk[t] \in signalled

(* A step of FutexAbs, or one it does not see.                             *)
AbsStep == [Abs!ANext]_(Abs!avars)

(* A step that changes nothing FutexAbs sees,                              *)
LEMMA SameView ==
  ASSUME \A u \in Threads : /\ Blocked(u)' <=> Blocked(u)
                            /\ Woke(u)' <=> Woke(u)
                            /\ PlaceOf(u)' = PlaceOf(u)
                            /\ Blocked(u) => call'[u].bitset = call[u].bitset,
         \A u, v \in Threads : Before(u, v)' <=> Before(u, v)
  PROVE  AbsStep
<1>1. {u \in Threads : Blocked(u)}' = {u \in Threads : Blocked(u)}
  OBVIOUS
<1>2. {u \in Threads : pc[u] = "asleep" /\ blk[u] \in signalled}' =
        {u \in Threads : pc[u] = "asleep" /\ blk[u] \in signalled}
  BY DEF Woke
<1>3. [u \in Threads |-> PlaceOf(u)]' = [u \in Threads |-> PlaceOf(u)]
  OBVIOUS
<1>4. [u \in Threads |-> IF Blocked(u) THEN call[u].bitset ELSE {}]' =
        [u \in Threads |-> IF Blocked(u) THEN call[u].bitset ELSE {}]
  OBVIOUS
<1>5. {p \in Threads \X Threads : Before(p[1], p[2])}' = {p \in Threads \X Threads : Before(p[1], p[2])}
  OBVIOUS
<1> QED
  BY <1>1, <1>2, <1>3, <1>4, <1>5 DEF AbsStep, Abs!avars

(* one in which a thread joins the end of a queue,                         *)
LEMMA WaitView ==
  ASSUME NEW t \in Threads, NEW a \in Addrs, NEW B \in SUBSET Bits,
         ~Blocked(t), ~Woke(t), Blocked(t)', PlaceOf(t)' = a, call'[t].bitset = B,
         \A u \in Threads : Woke(u)' <=> Woke(u),
         \A u \in Threads \ {t} : /\ Blocked(u)' <=> Blocked(u)
                                  /\ PlaceOf(u)' = PlaceOf(u)
                                  /\ Blocked(u) => call'[u].bitset = call[u].bitset,
         \A u, v \in Threads : Before(u, v)' <=>
                                 Before(u, v) \/ (v = t /\ Blocked(u) /\ PlaceOf(u) = a)
  PROVE  AbsStep
<1>1. {u \in Threads : Blocked(u)}' = {u \in Threads : Blocked(u)} \cup {t}
  OBVIOUS
<1>2. {u \in Threads : pc[u] = "asleep" /\ blk[u] \in signalled}' =
        {u \in Threads : pc[u] = "asleep" /\ blk[u] \in signalled}
  BY DEF Woke
<1>3. [u \in Threads |-> PlaceOf(u)]' = [[u \in Threads |-> PlaceOf(u)] EXCEPT ![t] = a]
  OBVIOUS
<1>4. [u \in Threads |-> IF Blocked(u) THEN call[u].bitset ELSE {}]' =
        [[u \in Threads |-> IF Blocked(u) THEN call[u].bitset ELSE {}] EXCEPT ![t] = B]
  OBVIOUS
<1>5. Abs!Waiters(a) = {u \in Threads : Blocked(u) /\ PlaceOf(u) = a}
  BY DEF Abs!Waiters
<1>6. {p \in Threads \X Threads : Before(p[1], p[2])}' =
        {p \in Threads \X Threads : Before(p[1], p[2])} \cup (Abs!Waiters(a) \X {t})
  BY <1>5
<1>7. t \notin {u \in Threads : Blocked(u)} \cup {u \in Threads : pc[u] = "asleep" /\ blk[u] \in signalled}
  BY DEF Woke
<1>8. Abs!AWait(t, a, B)
  BY <1>1, <1>2, <1>3, <1>4, <1>6, <1>7 DEF Abs!AWait
<1> QED
  BY <1>8 DEF AbsStep, Abs!ANext

(* one that wakes a front of the waiters,                                  *)
LEMMA WakeView ==
  ASSUME NEW K \in SUBSET Threads,
         \A u \in K : Blocked(u),
         \A u \in K, v \in Threads \ K :
            Blocked(v) /\ Before(v, u) => ~(call[u].bitset \subseteq call[v].bitset),
         \A u \in Threads : /\ Blocked(u)' <=> Blocked(u) /\ u \notin K
                            /\ Woke(u)' <=> Woke(u) \/ u \in K
                            /\ PlaceOf(u)' = IF u \in K THEN NoAddr ELSE PlaceOf(u)
                            /\ Blocked(u) /\ u \notin K => call'[u].bitset = call[u].bitset,
         \A u, v \in Threads : Before(u, v)' <=> Before(u, v) /\ u \notin K /\ v \notin K
  PROVE  AbsStep
<1> DEFINE wt == {u \in Threads : Blocked(u)}
           bits == [u \in Threads |-> IF Blocked(u) THEN call[u].bitset ELSE {}]
           before == {p \in Threads \X Threads : Before(p[1], p[2])}
<1>1. wt' = wt \ K
  OBVIOUS
<1>2. {u \in Threads : pc[u] = "asleep" /\ blk[u] \in signalled}' =
        {u \in Threads : pc[u] = "asleep" /\ blk[u] \in signalled} \cup K
  BY DEF Woke
<1>3. [u \in Threads |-> PlaceOf(u)]' = Abs!Clear([u \in Threads |-> PlaceOf(u)], K, NoAddr)
  BY DEF Abs!Clear
<1>4. bits' = Abs!Clear(bits, K, {})
  BY DEF Abs!Clear
<1>5. before' = {p \in before : p[1] \notin K /\ p[2] \notin K}
  OBVIOUS
<1>6. K \subseteq wt
  OBVIOUS
<1>7. ASSUME NEW u \in K, NEW v \in wt \ K, <<v, u>> \in before
      PROVE  ~(bits[u] \subseteq bits[v])
  <2>1. Before(v, u) /\ Blocked(v) /\ v \in Threads \ K
    BY <1>7
  <2>2. bits[u] = call[u].bitset /\ bits[v] = call[v].bitset
    BY <1>7
  <2> QED
    BY <2>1, <2>2
<1>8. Abs!AtFront(K)
  BY <1>6, <1>7 DEF Abs!AtFront
<1>9. Abs!AWake(K)
  BY <1>1, <1>2, <1>3, <1>4, <1>5, <1>8 DEF Abs!AWake, Abs!Leave
<1> QED
  BY <1>6, <1>9 DEF AbsStep, Abs!ANext

(* one in which a woken thread returns,                                    *)
LEMMA ReturnView ==
  ASSUME NEW t \in Threads, Woke(t), ~Woke(t)',
         \A u \in Threads \ {t} : Woke(u)' <=> Woke(u),
         \A u \in Threads : /\ Blocked(u)' <=> Blocked(u)
                            /\ PlaceOf(u)' = PlaceOf(u)
                            /\ Blocked(u) => call'[u].bitset = call[u].bitset,
         \A u, v \in Threads : Before(u, v)' <=> Before(u, v)
  PROVE  AbsStep
<1>1. {u \in Threads : Blocked(u)}' = {u \in Threads : Blocked(u)}
  OBVIOUS
<1>2. /\ {u \in Threads : pc[u] = "asleep" /\ blk[u] \in signalled}' =
           {u \in Threads : pc[u] = "asleep" /\ blk[u] \in signalled} \ {t}
      /\ t \in {u \in Threads : pc[u] = "asleep" /\ blk[u] \in signalled}
  BY DEF Woke
<1>3. [u \in Threads |-> PlaceOf(u)]' = [u \in Threads |-> PlaceOf(u)]
  OBVIOUS
<1>4. [u \in Threads |-> IF Blocked(u) THEN call[u].bitset ELSE {}]' =
        [u \in Threads |-> IF Blocked(u) THEN call[u].bitset ELSE {}]
  OBVIOUS
<1>5. {p \in Threads \X Threads : Before(p[1], p[2])}' = {p \in Threads \X Threads : Before(p[1], p[2])}
  OBVIOUS
<1>6. Abs!AReturn(t)
  BY <1>1, <1>2, <1>3, <1>4, <1>5 DEF Abs!AReturn
<1> QED
  BY <1>6 DEF AbsStep, Abs!ANext

(* The threads K, and J behind them, are the front of a's queue.           *)
FrontOf(K, J, a) ==
  /\ \A u \in K \cup J : Blocked(u) /\ PlaceOf(u) = a
  /\ \A u \in K, v \in Threads : Blocked(v) /\ PlaceOf(v) = a /\ Before(v, u) => v \in K
  /\ \A u \in J, v \in Threads : Blocked(v) /\ PlaceOf(v) = a /\ Before(v, u) => v \in K \cup J

(* K is woken and J is moved to the end of a2's queue.                     *)
WokenAndMoved(K, J, a2) ==
  /\ \A u \in Threads : /\ Blocked(u)' <=> Blocked(u) /\ u \notin K
                        /\ Woke(u)' <=> Woke(u) \/ u \in K
                        /\ PlaceOf(u)' = IF u \in K THEN NoAddr ELSE IF u \in J THEN a2 ELSE PlaceOf(u)
                        /\ Blocked(u) /\ u \notin K => call'[u].bitset = call[u].bitset
  /\ \A u, v \in Threads :
       Before(u, v)' <=> \/ Before(u, v) /\ u \notin K /\ v \notin K /\ (u \in J <=> v \in J)
                         \/ Blocked(u) /\ PlaceOf(u) = a2 /\ v \in J

(* and one that wakes K and moves J.                                       *)
LEMMA MoveView ==
  ASSUME NEW a \in Addrs, NEW a2 \in Addrs, a # a2,
         NEW K \in SUBSET Threads, NEW J \in SUBSET Threads, K \cap J = {},
         FrontOf(K, J, a), WokenAndMoved(K, J, a2)
  PROVE  AbsStep
<1> USE DEF FrontOf, WokenAndMoved
<1> DEFINE wt == {u \in Threads : Blocked(u)}
           place == [u \in Threads |-> PlaceOf(u)]
           bits == [u \in Threads |-> IF Blocked(u) THEN call[u].bitset ELSE {}]
           before == {p \in Threads \X Threads : Before(p[1], p[2])}
<1>1. wt' = wt \ K
  OBVIOUS
<1>2. {u \in Threads : pc[u] = "asleep" /\ blk[u] \in signalled}' =
        {u \in Threads : pc[u] = "asleep" /\ blk[u] \in signalled} \cup K
  BY DEF Woke
<1>3. place' = Abs!Clear(Abs!Clear(place, J, a2), K, NoAddr)
  BY DEF Abs!Clear
<1>4. bits' = Abs!Clear(bits, K, {})
  BY DEF Abs!Clear
<1>5. \A x \in Addrs : Abs!Waiters(x) = {u \in Threads : Blocked(u) /\ PlaceOf(u) = x}
  BY DEF Abs!Waiters
<1>6. before' = {p \in Abs!Leave(K) : p[1] \in J <=> p[2] \in J} \cup (Abs!Waiters(a2) \X J)
  <2>1. Abs!Leave(K) = {p \in before : p[1] \notin K /\ p[2] \notin K}
    BY DEF Abs!Leave
  <2> QED
    BY <1>5, <2>1
<1>7. K \subseteq Abs!Waiters(a) /\ J \subseteq Abs!Waiters(a) \ K
  BY <1>5
<1>8. \A u \in K \cup J, v \in Abs!Waiters(a) : <<v, u>> \in before => v \in K \cup J
  BY <1>5
<1>9. \A u \in K, v \in Abs!Waiters(a) : <<v, u>> \in before => v \in K
  BY <1>5
<1>10. Abs!AMove(K, J, a, a2)
  BY <1>1, <1>2, <1>3, <1>4, <1>6, <1>7, <1>8, <1>9 DEF Abs!AMove
<1> QED
  BY <1>7, <1>10 DEF AbsStep, Abs!ANext

(* What is shown of every action.                                          *)
Follows == Calling' /\ Ordered' /\ AbsStep

(* Only t's own place and call change.                                     *)
Others(t) == \A u \in Threads \ {t} : pc'[u] = pc[u] /\ call'[u] = call[u]

(* Calls that return without touching a list, and the second write of      *)
(* FUTEX_LOCK_PI.                                                          *)
LEMMA IdleStep ==
  ASSUME RefInv, NEW t \in Threads, UNCHANGED <<futex_mutex, blk, entry, lists>>, Others(t),
         \/ pc[t] = "user" /\ pc'[t] = "user"
         \/ /\ call'[t] = call[t]
            /\ pc[t] = "lock_pi" /\ pc'[t] = "wait"
  PROVE  Follows
<1>1. UNCHANGED <<linked, ahead, signalled>>
  BY DEF lists
<1>2. Ordered'
  BY <1>1 DEF RefInv, Ordered
<1>3. Calling'
  BY <1>1 DEF RefInv, Calling, InCall, Others
<1>4. \A u \in Threads : /\ pc'[u] = "asleep" <=> pc[u] = "asleep"
                         /\ pc'[u] \in {"wait", "lock_pi"} <=> pc[u] \in {"wait", "lock_pi"}
                         /\ pc[u] # "user" => call'[u] = call[u]
  BY DEF Others
<1>5. \A u \in Threads : /\ Blocked(u)' <=> Blocked(u)
                         /\ Woke(u)' <=> Woke(u)
                         /\ PlaceOf(u)' = PlaceOf(u)
                         /\ Blocked(u) => call'[u].bitset = call[u].bitset
  BY <1>1, <1>4 DEF Blocked, Woke, PlaceOf
<1>6. \A u, v \in Threads : Before(u, v)' <=> Before(u, v)
  BY <1>1, <1>4, <1>5 DEF Before
<1> QED
  BY <1>2, <1>3, <1>5, <1>6, SameView DEF Follows

(* A wait takes effect when it has passed its comparison: futex_mutex is   *)
(* free, so that every other waiter is already on its list.                *)
LEMMA EnterStep ==
  ASSUME RefInv, NEW t \in Threads, pc[t] = "user", futex_mutex = NoThread,
         NEW label \in {"wait", "lock_pi"}, NEW c \in Calls, c.uaddr \in Addrs, Enter(t, label, c)
  PROVE  Follows
<1>1. /\ UNCHANGED <<blk, entry, linked, ahead, signalled>> /\ futex_mutex' = t
      /\ Others(t) /\ pc'[t] = label /\ call'[t] = c
  BY DEF Enter, lists, Others, RefInv, EntryInv, SleepInv, TypeOK
<1>2. Ordered'
  BY <1>1 DEF RefInv, Ordered
<1>3. \A u \in Threads : pc[u] \notin InCall
  BY ThreadsAssumption DEF RefInv, Calling
<1>4. Calling'
  BY <1>1, <1>3 DEF RefInv, Calling, InCall, Others
<1>5. ~Blocked(t) /\ ~Woke(t) /\ Blocked(t)' /\ ~Woke(t)' /\ PlaceOf(t)' = c.uaddr /\ call'[t].bitset = c.bitset
  BY <1>1 DEF Blocked, Woke, PlaceOf
<1>6. \A u \in Threads \ {t} : /\ Blocked(u)' <=> Blocked(u)
                               /\ Woke(u)' <=> Woke(u)
                               /\ PlaceOf(u)' = PlaceOf(u)
                               /\ Blocked(u) => call'[u].bitset = call[u].bitset /\ pc[u] = "asleep"
                               /\ pc'[u] = pc[u]
  BY <1>1, <1>3 DEF Blocked, Woke, PlaceOf, Others, InCall
<1>7. \A u, v \in Threads : Before(u, v)' <=>
                              Before(u, v) \/ (v = t /\ Blocked(u) /\ PlaceOf(u) = c.uaddr)
  BY <1>1, <1>5, <1>6 DEF Before
<1>8. c.bitset \in SUBSET Bits
  BY DEF Calls
<1> QED
  BY <1>2, <1>4, <1>5, <1>6, <1>7, <1>8, WaitView DEF Follows

(* The comparison of FUTEX_CMP_REQUEUE_PI is no step of FutexAbs.          *)
LEMMA EnterRequeueStep ==
  ASSUME RefInv, NEW t \in Threads, pc[t] = "user", futex_mutex = NoThread,
         NEW c, c.uaddr \in Addrs, c.uaddr2 \in Addrs, c.uaddr # c.uaddr2, Enter(t, "requeue", c)
  PROVE  Follows
<1>1. /\ UNCHANGED <<blk, entry, linked, ahead, signalled>> /\ futex_mutex' = t
      /\ Others(t) /\ pc'[t] = "requeue" /\ call'[t] = c
  BY DEF Enter, lists, Others, RefInv, EntryInv, SleepInv, TypeOK
<1>2. Ordered'
  BY <1>1 DEF RefInv, Ordered
<1>3. \A u \in Threads : pc[u] \notin InCall
  BY ThreadsAssumption DEF RefInv, Calling
<1>4. Calling'
  BY <1>1, <1>3 DEF RefInv, Calling, InCall, Others
<1>5. \A u \in Threads : /\ Blocked(u)' <=> Blocked(u)
                         /\ Woke(u)' <=> Woke(u)
                         /\ PlaceOf(u)' = PlaceOf(u)
                         /\ Blocked(u) => call'[u].bitset = call[u].bitset
                         /\ pc'[u] = "asleep" <=> pc[u] = "asleep"
  BY <1>1 DEF Blocked, Woke, PlaceOf, Others
<1>6. \A u, v \in Threads : Before(u, v)' <=> Before(u, v)
  BY <1>1, <1>5 DEF Before
<1> QED
  BY <1>2, <1>4, <1>5, <1>6, SameView DEF Follows

(* A critical section that takes the entries W off their lists and signals *)
(* them, if nobody ahead of them was entitled to the wake.                 *)
LEMMA WakeStep ==
  ASSUME RefInv, NEW t \in Threads, pc[t] = "user", NEW r, Return(t, r), UNCHANGED <<futex_mutex, blk, entry>>,
         futex_mutex = NoThread, NEW W \in SUBSET linked, Dequeue(W),
         \A b \in W, c \in linked \ W : <<c, b>> \in ahead => ~(entry[b].bitset \subseteq entry[c].bitset)
  PROVE  Follows
<1> DEFINE K == {u \in Threads : pc[u] = "asleep" /\ blk[u] \in W}
<1>1. Others(t) /\ pc'[t] = "user"
  BY DEF Return, Others, RefInv, EntryInv, SleepInv, TypeOK
<1>2. linked' = linked \ W /\ signalled' = signalled \cup W
  BY DEF Dequeue
<1>3. \A b, c \in Blocks : <<b, c>> \in ahead' <=> <<b, c>> \in ahead /\ b \notin W /\ c \notin W
  BY DEF Dequeue
<1>4. Ordered'
  BY DequeueOrdered DEF RefInv
<1>5. \A u \in Threads : pc[u] \notin InCall
  BY ThreadsAssumption DEF RefInv, Calling
<1>6. Calling'
  BY <1>1, <1>2, <1>5 DEF RefInv, Calling, InCall, Others
<1>7. \A u \in Threads : Blocked(u) <=> Awaits(u)
  BY <1>5, RefFacts DEF InCall
<1>8. \A u \in Threads : pc[u] = "asleep" => /\ blk[u] \in Blocks /\ blk[u] \in heap
                                            /\ (blk[u] \notin signalled <=> blk[u] \in linked)
  BY RefFacts
<1>a. \A u \in Threads : pc[u] = "asleep" => u # t
  OBVIOUS
<1>9. \A u \in Threads : /\ Blocked(u)' <=> Blocked(u) /\ u \notin K
                         /\ Woke(u)' <=> Woke(u) \/ u \in K
                         /\ PlaceOf(u)' = IF u \in K THEN NoAddr ELSE PlaceOf(u)
                         /\ Blocked(u) /\ u \notin K => call'[u].bitset = call[u].bitset
                         /\ pc'[u] = pc[u]
  BY <1>1, <1>2, <1>5, <1>8, <1>a DEF Blocked, Woke, PlaceOf, Others, InCall
<1>10. \A u \in K : Blocked(u) /\ blk[u] \in W
  BY <1>7 DEF Awaits
<1>11. \A u, v \in Threads : Before(u, v)' <=> Before(u, v) /\ u \notin K /\ v \notin K
  <2>1. \A u \in Threads : Blocked(u) => pc[u] = "asleep" /\ blk[u] \in Blocks /\ (u \in K <=> blk[u] \in W)
    BY <1>7, <1>8 DEF Awaits
  <2> HIDE DEF K
  <2> SUFFICES ASSUME NEW u \in Threads, NEW v \in Threads
               PROVE  Before(u, v)' <=> Before(u, v) /\ u \notin K /\ v \notin K
    OBVIOUS
  <2>2. CASE Blocked(u) /\ Blocked(v) /\ u \notin K /\ v \notin K
    <3>1. /\ Blocked(u)' /\ Blocked(v)' /\ PlaceOf(u)' = PlaceOf(u) /\ PlaceOf(v)' = PlaceOf(v)
          /\ pc'[u] = pc[u] /\ pc'[v] = pc[v]
      BY <1>9, <2>2
    <3>2. <<blk[u], blk[v]>> \in ahead' <=> <<blk[u], blk[v]>> \in ahead
      BY <1>3, <2>1, <2>2
    <3> QED
      BY <2>2, <3>1, <3>2 DEF Before
  <2> QED
    BY <1>9, <2>2 DEF Before
<1>12. ASSUME NEW u \in K, NEW v \in Threads \ K, Blocked(v), Before(v, u)
       PROVE  ~(call[u].bitset \subseteq call[v].bitset)
  <2>1. pc[u] = "asleep" /\ pc[v] = "asleep" /\ blk[u] \in W /\ blk[v] \in linked \ W
    BY <1>7, <1>10, <1>12 DEF Awaits
  <2>2. <<blk[v], blk[u]>> \in ahead
    BY <1>12, <2>1 DEF Before
  <2>3. entry[blk[u]].bitset = call[u].bitset /\ entry[blk[v]].bitset = call[v].bitset
    BY <2>1 DEF RefInv, Calling
  <2> QED
    BY <2>1, <2>2, <2>3
<1> HIDE DEF K
<1>13. K \in SUBSET Threads
  BY DEF K
<1>14. AbsStep
  BY <1>9, <1>10, <1>11, <1>12, <1>13, WakeView
<1> QED
  BY <1>4, <1>6, <1>14 DEF Follows

(* FUTEX_WAKE and FUTEX_WAKE_BITSET: an entry that is passed over lacks a  *)
(* bit of every entry behind it that is taken.                             *)
LEMMA FutexWakeFollows ==
  ASSUME RefInv, NEW t \in Threads, NEW a \in Addrs, NEW n \in Counts, NEW ubs \in BOOLEAN,
         NEW B \in SUBSET Bits, FutexWake(t, a, n, ubs, B)
  PROVE  Follows
<1> DEFINE M == Matching(a, ubs, B)
           W == FirstOf(M, n)
<1>1. TypeOK /\ Ordered /\ n \in Int
  BY RefFacts, CountsAssumption DEF RefInv
<1>2. M \in SUBSET linked /\ W \subseteq M
  BY FirstOfSubset DEF Matching, Queue
<1>3. ASSUME NEW b \in W, NEW c \in linked \ W, <<c, b>> \in ahead
      PROVE  ~(entry[b].bitset \subseteq entry[c].bitset)
  <2>1. b \in Blocks /\ c \in Blocks /\ b \in M
    BY <1>1, <1>2 DEF TypeOK
  <2>2. entry[c].uaddr = entry[b].uaddr
    BY <1>1, <1>3, <2>1 DEF Ordered
  <2>3. c \in Queue(a)
    BY <2>1, <2>2 DEF Matching, Queue
  <2>4. c \notin M
    <3> HIDE DEF M
    <3> QED
      BY <1>1, <1>2, <1>3, FirstOfClosed
  <2> QED
    BY <2>1, <2>3, <2>4 DEF Matching
<1>4. /\ pc[t] = "user" /\ futex_mutex = NoThread
      /\ Dequeue(W) /\ Return(t, Cardinality(W)) /\ UNCHANGED <<futex_mutex, blk, entry>>
  BY DEF FutexWake
<1> HIDE DEF W, M
<1>5. W \in SUBSET linked
  BY <1>2
<1> QED
  BY <1>3, <1>4, <1>5, WakeStep

(* FUTEX_UNLOCK_PI.                                                        *)
LEMMA FutexUnlockPiFollows ==
  ASSUME RefInv, NEW t \in Threads, NEW a \in Addrs, FutexUnlockPi(t, a)
  PROVE  Follows
<1> DEFINE M == Queue(a)
           W == FirstOf(M, 1)
<1>1. TypeOK /\ Ordered
  BY RefFacts DEF RefInv
<1>2. M \in SUBSET linked /\ W \subseteq M
  BY FirstOfSubset DEF Queue
<1>3. ASSUME NEW b \in W, NEW c \in linked \ W, <<c, b>> \in ahead
      PROVE  FALSE
  <2>1. b \in Blocks /\ c \in Blocks /\ b \in M
    BY <1>1, <1>2 DEF TypeOK
  <2>2. entry[c].uaddr = entry[b].uaddr
    BY <1>1, <1>3, <2>1 DEF Ordered
  <2>3. c \in M
    BY <2>1, <2>2 DEF Queue
  <2> HIDE DEF M
  <2> QED
    BY <1>1, <1>2, <1>3, <2>3, FirstOfClosed
<1>4. /\ pc[t] = "user" /\ futex_mutex = NoThread
      /\ Dequeue(W) /\ Return(t, 0) /\ UNCHANGED <<futex_mutex, blk, entry>>
  BY DEF FutexUnlockPi
<1> HIDE DEF W, M
<1>5. W \in SUBSET linked
  BY <1>2
<1> QED
  BY <1>3, <1>4, <1>5, WakeStep

(* FUTEX_WAKE_OP: the entries of both words leave in one step.             *)
LEMMA FutexWakeOpFollows ==
  ASSUME RefInv, NEW t \in Threads, NEW a \in Addrs, NEW a2 \in Addrs, NEW n \in Counts, NEW n2 \in Counts,
         NEW w, NEW cond \in BOOLEAN, FutexWakeOp(t, a, n, a2, n2, w, cond)
  PROVE  Follows
<1> DEFINE Q == Queue(a)
           W == FirstOf(Q, n)
           Q2 == IF cond THEN Queue(a2) \ W ELSE {}
           W2 == FirstOf(Q2, n2)
<1>1. TypeOK /\ Ordered /\ n \in Int /\ n2 \in Int
  BY RefFacts, CountsAssumption DEF RefInv
<1>2. W \subseteq Q /\ W2 \subseteq Q2
  BY FirstOfSubset
<1>3. Q \in SUBSET linked /\ Q2 \in SUBSET linked
  BY DEF Queue
<1>4. ASSUME NEW b \in Blocks, NEW c \in Blocks, <<c, b>> \in ahead
      PROVE  /\ c \in linked
             /\ b \in Q => c \in Q
             /\ b \in Q2 /\ c \notin W => c \in Q2
  <2>1. c \in linked /\ entry[c].uaddr = entry[b].uaddr
    BY <1>1, <1>4 DEF Ordered
  <2>2. b \in Q => c \in Q
    BY <2>1 DEF Queue
  <2>3. b \in Queue(a2) => c \in Queue(a2)
    BY <2>1 DEF Queue
  <2> QED
    BY <2>1, <2>2, <2>3
<1>5. /\ pc[t] = "user" /\ futex_mutex = NoThread
      /\ Dequeue(W \cup W2) /\ Return(t, Cardinality(W) + Cardinality(W2))
      /\ UNCHANGED <<futex_mutex, blk, entry>>
  BY DEF FutexWakeOp
<1> HIDE DEF Q, Q2
<1>6. \A b \in W, c \in Q : <<c, b>> \in ahead => c \in W
  BY <1>1, <1>3, FirstOfClosed
<1>7. \A b \in W2, c \in Q2 : <<c, b>> \in ahead => c \in W2
  BY <1>1, <1>3, FirstOfClosed
<1> HIDE DEF W, W2
<1>8. linked \subseteq Blocks /\ W \cup W2 \in SUBSET linked
  BY <1>1, <1>2, <1>3 DEF TypeOK
<1>9. ASSUME NEW b \in W \cup W2, NEW c \in linked \ (W \cup W2), <<c, b>> \in ahead
      PROVE  FALSE
  BY <1>2, <1>4, <1>6, <1>7, <1>8, <1>9
<1> QED
  BY <1>5, <1>8, <1>9, WakeStep

(* do_private_wait links the entry at the place the thread has had since   *)
(* its comparison.                                                         *)
LEMMA WaitSleepFollows ==
  ASSUME RefInv, NEW t \in Threads, WaitSleep(t)
  PROVE  Follows
<1> DEFINE a == call[t].uaddr
<1>1. PICK b \in Blocks \ (heap \cup linked) :
        Enqueue(b, call[t].uaddr, call[t].bitset) /\ blk' = [blk EXCEPT ![t] = b]
  BY DEF WaitSleep
<1>2. TypeOK /\ Ordered
  BY RefFacts DEF RefInv
<1>3. /\ pc[t] = "wait" /\ pc'[t] = "asleep" /\ Others(t) /\ call' = call
      /\ blk'[t] = b /\ \A u \in Threads \ {t} : blk'[u] = blk[u]
  BY <1>1, <1>2 DEF WaitSleep, Others, TypeOK
<1>4. /\ linked' = linked \cup {b} /\ signalled' = signalled \ {b}
      /\ entry'[b] = [uaddr |-> a, bitset |-> call[t].bitset]
      /\ \A c \in Blocks \ {b} : entry'[c] = entry[c]
  BY <1>1, <1>2 DEF Enqueue, TypeOK
<1>5. \A c, d \in Blocks : <<c, d>> \in ahead' <=> <<c, d>> \in ahead \/ (d = b /\ c \in Queue(a))
  BY <1>1 DEF Enqueue
<1>6. Ordered'
  BY <1>1, <1>2, EnqueueOrdered
<1>7. futex_mutex = t /\ a \in Addrs /\ \A u \in Threads \ {t} : pc[u] \notin InCall
  BY <1>3 DEF RefInv, Calling, InCall
<1>8. \A u \in Threads : pc[u] = "asleep" => /\ blk[u] \in Blocks /\ blk[u] \in heap
                                            /\ (blk[u] \notin signalled <=> blk[u] \in linked)
  BY RefFacts
<1>9. ASSUME NEW u \in Threads, pc[u] = "asleep" PROVE u # t /\ blk[u] # b
  <2>1. blk[u] \in heap
    BY <1>8, <1>9
  <2> QED
    BY <1>3, <1>9, <2>1
<1>10. Calling'
  <2>1. \A u \in Threads : pc'[u] \notin InCall
    BY <1>3, <1>7 DEF InCall, Others
  <2>2. ASSUME NEW u \in Threads, pc'[u] = "asleep", blk'[u] \in linked'
        PROVE  entry'[blk'[u]].bitset = call'[u].bitset
    <3>1. CASE u = t
      BY <1>3, <1>4, <3>1
    <3>2. CASE u # t
      <4>1. pc[u] = "asleep" /\ call'[u] = call[u] /\ blk'[u] = blk[u]
        BY <1>3, <1>4, <2>2, <3>2 DEF Others
      <4>2. blk[u] \in Blocks /\ blk[u] # b
        BY <1>8, <1>9, <4>1
      <4>3. blk[u] \in linked /\ entry'[blk[u]] = entry[blk[u]]
        BY <1>3, <1>4, <2>2, <4>1, <4>2
      <4>4. entry[blk[u]].bitset = call[u].bitset
        BY <4>1, <4>3 DEF RefInv, Calling
      <4> QED
        BY <4>1, <4>3, <4>4
    <3> QED
      BY <3>1, <3>2
  <2> QED
    BY <2>1, <2>2 DEF Calling, InCall
<1>11. \A u \in Threads : /\ Blocked(u)' <=> Blocked(u)
                          /\ Woke(u)' <=> Woke(u)
                          /\ PlaceOf(u)' = PlaceOf(u)
                          /\ Blocked(u) => call'[u].bitset = call[u].bitset
                          /\ Blocked(u) /\ u # t => pc[u] = "asleep" /\ blk[u] \in Blocks \ {b} /\ blk[u] \in linked
  <2>1. ASSUME NEW u \in Threads, u # t
        PROVE  /\ Blocked(u)' <=> Blocked(u)
               /\ Woke(u)' <=> Woke(u)
               /\ PlaceOf(u)' = PlaceOf(u)
               /\ Blocked(u) => pc[u] = "asleep" /\ blk[u] \in Blocks \ {b} /\ blk[u] \in linked
    <3>1. pc'[u] = pc[u] /\ blk'[u] = blk[u] /\ pc[u] \notin {"wait", "lock_pi"}
      BY <1>3, <1>7, <2>1 DEF Others, InCall
    <3>2. CASE pc[u] = "asleep"
      <4>1. blk[u] \in Blocks \ {b} /\ (blk[u] \notin signalled => blk[u] \in linked)
        BY <1>8, <1>9, <3>2
      <4>2. entry'[blk[u]] = entry[blk[u]] /\ (blk[u] \in signalled' <=> blk[u] \in signalled)
        BY <1>4, <4>1
      <4> QED
        BY <3>1, <3>2, <4>1, <4>2 DEF Blocked, Woke, PlaceOf
    <3>3. CASE pc[u] # "asleep"
      BY <3>1, <3>3 DEF Blocked, Woke, PlaceOf
    <3> QED
      BY <3>2, <3>3
  <2>2. Blocked(t)' /\ Blocked(t) /\ ~Woke(t) /\ ~Woke(t)' /\ PlaceOf(t)' = PlaceOf(t)
    BY <1>3, <1>4 DEF Blocked, Woke, PlaceOf
  <2> QED
    BY <1>3, <2>1, <2>2
<1>12. ASSUME NEW u \in Threads, NEW v \in Threads PROVE Before(u, v)' <=> Before(u, v)
  <2>1. CASE u = t
    <3>1. ~Before(u, v)
      BY <1>3, <2>1 DEF Before
    <3>2. \A c \in Blocks : <<b, c>> \notin ahead'
      BY <1>2, <1>5 DEF Ordered, Queue
    <3>3. Blocked(v)' => pc'[v] = "asleep" /\ blk'[v] \in Blocks
      BY <1>3, <1>11 DEF Others
    <3> QED
      BY <1>3, <2>1, <3>1, <3>2, <3>3 DEF Before
  <2>2. CASE u # t /\ v = t
    <3>1. Before(u, v) <=> Blocked(u) /\ PlaceOf(u) = a
      BY <1>3, <1>11, <2>2 DEF Before, PlaceOf, Blocked
    <3>2. Blocked(u) => PlaceOf(u) = entry[blk[u]].uaddr /\ blk[u] \in Blocks /\ blk[u] \in linked
      BY <1>11, <2>2 DEF PlaceOf
    <3>3. Blocked(u) => (<<blk[u], b>> \in ahead' <=> PlaceOf(u) = a)
      BY <1>2, <1>5, <3>2 DEF Queue, Ordered
    <3>4. PlaceOf(t)' = a /\ PlaceOf(u)' = PlaceOf(u) /\ Blocked(t)'
      BY <1>3, <1>11 DEF PlaceOf, Blocked
    <3>5. Before(u, v)' <=> Blocked(u) /\ PlaceOf(u) = a /\ <<blk[u], b>> \in ahead'
      BY <1>3, <1>11, <2>2, <3>4 DEF Before, Others
    <3> QED
      BY <3>1, <3>3, <3>5
  <2>3. CASE u # t /\ v # t
    <3>1. Blocked(u) /\ Blocked(v) => (<<blk[u], blk[v]>> \in ahead' <=> <<blk[u], blk[v]>> \in ahead)
      BY <1>5, <1>11, <2>3
    <3> QED
      BY <1>3, <1>11, <2>3, <3>1 DEF Before, Others
  <2> QED
    BY <2>1, <2>2, <2>3
<1> HIDE DEF a
<1> QED
  BY <1>6, <1>10, <1>11, <1>12, SameView DEF Follows

(* do_private_wait returns after a wake: the entry it frees is on no list. *)
LEMMA WokenFollows ==
  ASSUME RefInv, NEW t \in Threads, Woken(t)
  PROVE  Follows
<1>1. TypeOK /\ Ordered /\ pc[t] = "asleep" /\ blk[t] \in signalled /\ Woke(t) /\ blk[t] \notin linked
  BY RefFacts DEF RefInv, Woken, Woke
<1>2. /\ Others(t) /\ pc'[t] = "user" /\ UNCHANGED <<linked, ahead, futex_mutex>>
      /\ \A u \in Threads \ {t} : blk'[u] = blk[u]
      /\ signalled' = signalled \ {blk[t]}
      /\ \A c \in Blocks : c # blk[t] => entry'[c] = entry[c]
  BY <1>1 DEF Woken, WaitReturn, Return, Others, TypeOK
<1>3. \A u \in Threads : pc[u] = "asleep" => /\ blk[u] \in Blocks /\ blk[u] \in heap
                                            /\ (blk[u] \notin signalled <=> blk[u] \in linked)
  BY RefFacts
<1>4. \A u \in Threads \ {t} : pc[u] = "asleep" => blk[u] # blk[t]
  BY <1>1, RefFacts
<1>5. Ordered'
  <2>1. \A c \in linked : c \in Blocks /\ entry'[c] = entry[c]
    <3>1. linked \subseteq Blocks
      BY <1>1 DEF TypeOK
    <3> QED
      BY <1>1, <1>2, <3>1
  <2>2. linked' = linked /\ ahead' = ahead /\ Ordered
    BY <1>1, <1>2
  <2>3. ASSUME NEW b \in Blocks, NEW c \in Blocks, <<b, c>> \in ahead
        PROVE  b \in linked /\ c \in linked /\ entry'[b].uaddr = entry'[c].uaddr
    BY <2>1, <2>2, <2>3 DEF Ordered
  <2> QED
    BY <2>2, <2>3 DEF Ordered
<1>6. Calling'
  <2>1. \A u \in Threads : pc'[u] \in InCall => pc'[u] = pc[u] /\ call'[u] = call[u]
    BY <1>2 DEF Others, InCall
  <2>2. ASSUME NEW u \in Threads, pc'[u] = "asleep", blk'[u] \in linked'
        PROVE  entry'[blk'[u]].bitset = call'[u].bitset
    <3>1. u # t /\ pc[u] = "asleep" /\ call'[u] = call[u] /\ blk'[u] = blk[u]
      BY <1>2, <2>2 DEF Others
    <3>2. blk[u] \in linked /\ blk[u] \in Blocks /\ blk[u] # blk[t]
      BY <1>2, <1>3, <1>4, <2>2, <3>1
    <3>3. entry[blk[u]].bitset = call[u].bitset
      BY <3>1, <3>2 DEF RefInv, Calling
    <3> QED
      BY <1>2, <3>1, <3>2, <3>3
  <2> QED
    BY <1>2, <2>1, <2>2 DEF RefInv, Calling, InCall
<1>7. ~Blocked(t) /\ ~Blocked(t)' /\ ~Woke(t)' /\ PlaceOf(t)' = PlaceOf(t)
  BY <1>1, <1>2 DEF Blocked, Woke, PlaceOf
<1>8. \A u \in Threads \ {t} : /\ Blocked(u)' <=> Blocked(u)
                               /\ Woke(u)' <=> Woke(u)
                               /\ PlaceOf(u)' = PlaceOf(u)
                               /\ call'[u] = call[u] /\ pc'[u] = pc[u] /\ blk'[u] = blk[u]
  <2> SUFFICES ASSUME NEW u \in Threads \ {t}
               PROVE  /\ Blocked(u)' <=> Blocked(u)
                      /\ Woke(u)' <=> Woke(u)
                      /\ PlaceOf(u)' = PlaceOf(u)
                      /\ call'[u] = call[u] /\ pc'[u] = pc[u] /\ blk'[u] = blk[u]
    OBVIOUS
  <2>1. call'[u] = call[u] /\ pc'[u] = pc[u] /\ blk'[u] = blk[u]
    BY <1>2 DEF Others
  <2>2. CASE pc[u] = "asleep"
    <3>1. blk[u] \in Blocks /\ blk[u] # blk[t]
      BY <1>3, <1>4, <2>2
    <3>2. entry'[blk[u]] = entry[blk[u]] /\ (blk[u] \in signalled' <=> blk[u] \in signalled)
      BY <1>2, <3>1
    <3> QED
      BY <2>1, <2>2, <3>2 DEF Blocked, Woke, PlaceOf
  <2>3. CASE pc[u] # "asleep"
    BY <2>1, <2>3 DEF Blocked, Woke, PlaceOf
  <2> QED
    BY <2>1, <2>2, <2>3
<1>9. \A u, v \in Threads : Before(u, v)' <=> Before(u, v)
  BY <1>2, <1>7, <1>8 DEF Before
<1> QED
  BY <1>1, <1>5, <1>6, <1>7, <1>8, <1>9, ReturnView DEF Follows

(* FUTEX_CMP_REQUEUE_PI (src/src/ipc/futex.c:221-234).                     *)
LEMMA RequeueFollows ==
  ASSUME RefInv, NEW t \in Threads, Requeue(t)
  PROVE  Follows
<1> DEFINE a == call[t].uaddr
           a2 == call[t].uaddr2
           Q == Queue(a)
           W == FirstOf(Q, 1)
           R == Q \ W
           M == FirstOf(R, call[t].val2)
           K == {u \in Threads : pc[u] = "asleep" /\ blk[u] \in W}
           J == {u \in Threads : pc[u] = "asleep" /\ blk[u] \in M}
<1>1. TypeOK /\ Ordered /\ call[t].val2 \in Int
  <2>1. TypeOK /\ Ordered
    BY RefFacts DEF RefInv
  <2> QED
    BY <2>1 DEF TypeOK, Calls
<1>2. pc[t] = "requeue" /\ a \in Addrs /\ a2 \in Addrs /\ a # a2 /\ \A u \in Threads \ {t} : pc[u] \notin InCall
  BY DEF RefInv, Calling, InCall, Requeue
<1>3. W \subseteq Q /\ M \subseteq R /\ Q \in SUBSET linked /\ R \in SUBSET linked /\ linked \subseteq Blocks
  BY <1>1, FirstOfSubset DEF Queue, TypeOK
<1>4. \A b, c \in Blocks : <<b, c>> \in ahead => b \in linked /\ c \in linked /\ (b \in Q <=> c \in Q)
  BY <1>1 DEF Queue, Ordered
<1>5. /\ \A b \in W, c \in Q : <<c, b>> \in ahead => c \in W
      /\ \A b \in M, c \in R : <<c, b>> \in ahead => c \in M
  <2> HIDE DEF Q, R
  <2> QED
    BY <1>1, <1>3, FirstOfClosed
<1>6. /\ entry' = [b \in Blocks |-> IF b \in M THEN [entry[b] EXCEPT !.uaddr = a2] ELSE entry[b]]
      /\ linked' = linked \ W /\ ahead' = Moved(W, M, a2) /\ signalled' = signalled \cup W
      /\ futex_mutex' = NoThread /\ blk' = blk
  BY DEF Requeue
<1>7. Others(t) /\ pc'[t] = "user"
  BY <1>1 DEF Requeue, Return, Others, TypeOK
<1>8. \A b \in Queue(a2) : b \in linked /\ entry[b].uaddr = a2 /\ b \notin Q
  BY <1>2 DEF Queue
<1>9. \A b \in linked : (b \in Q <=> entry[b].uaddr = a) /\ (b \in Queue(a2) <=> entry[b].uaddr = a2)
  BY DEF Queue
<1>11. \A b, c \in Blocks : <<b, c>> \in ahead' <=>
         \/ <<b, c>> \in ahead /\ b \notin W /\ c \notin W /\ (b \in M <=> c \in M)
         \/ b \in Queue(a2) /\ c \in M
  BY <1>6 DEF Moved
<1> HIDE DEF Q, W, R, M, a, a2
<1>12. \A b \in Blocks : /\ entry'[b].bitset = entry[b].bitset
                         /\ entry'[b].uaddr = IF b \in M THEN a2 ELSE entry[b].uaddr
  BY <1>1, <1>6 DEF TypeOK
<1>13. M \subseteq linked /\ M \cap W = {} /\ M \subseteq Q
  BY <1>3 DEF R
<1>10. Ordered'
  <2>1. W \in SUBSET Queue(a) /\ M \in SUBSET (Queue(a) \ W)
    BY <1>3 DEF Q, R
  <2>2. Relinked(W, M, a2)
    BY <1>6, <1>11, <1>12 DEF Relinked
  <2> QED
    BY <1>1, <1>2, <2>1, <2>2, MovedOrdered
<1>14. \A u \in Threads : pc[u] = "asleep" => /\ blk[u] \in Blocks
                                             /\ (blk[u] \notin signalled <=> blk[u] \in linked)
  BY RefFacts
<1>15. Calling'
  <2>1. \A u \in Threads : pc'[u] \notin InCall
    BY <1>2, <1>7 DEF InCall, Others
  <2>2. ASSUME NEW u \in Threads, pc'[u] = "asleep", blk'[u] \in linked'
        PROVE  entry'[blk'[u]].bitset = call'[u].bitset
    <3>1. u # t /\ pc[u] = "asleep" /\ call'[u] = call[u]
      BY <1>7, <2>2 DEF Others
    <3>2. blk[u] \in linked /\ blk[u] \in Blocks
      BY <1>6, <1>14, <2>2, <3>1
    <3> QED
      BY <1>6, <1>12, <3>1, <3>2 DEF RefInv, Calling
  <2> QED
    BY <2>1, <2>2 DEF Calling, InCall
<1>16. ASSUME NEW u \in Threads
       PROVE  /\ Blocked(u)' <=> Blocked(u) /\ u \notin K
              /\ Woke(u)' <=> Woke(u) \/ u \in K
              /\ PlaceOf(u)' = IF u \in K THEN NoAddr ELSE IF u \in J THEN a2 ELSE PlaceOf(u)
              /\ Blocked(u) => /\ pc[u] = "asleep" /\ pc'[u] = "asleep" /\ call'[u] = call[u]
                               /\ blk[u] \in linked /\ blk[u] \in Blocks
                               /\ PlaceOf(u) = entry[blk[u]].uaddr
                               /\ u \in K <=> blk[u] \in W
                               /\ u \in J <=> blk[u] \in M
              /\ u \in K \cup J => Blocked(u)
  <2>1. CASE pc[u] = "asleep"
    <3>1. u # t /\ pc'[u] = "asleep" /\ call'[u] = call[u]
      BY <1>2, <1>7, <2>1 DEF Others
    <3>2. blk[u] \in Blocks /\ (blk[u] \notin signalled <=> blk[u] \in linked)
      BY <1>14, <2>1
    <3>3. (u \in K <=> blk[u] \in W) /\ (u \in J <=> blk[u] \in M) /\ ~(blk[u] \in W /\ blk[u] \in M)
      BY <1>13, <2>1
    <3>4. /\ blk'[u] \in signalled' <=> blk[u] \in signalled \/ blk[u] \in W
          /\ entry'[blk'[u]].uaddr = IF blk[u] \in M THEN a2 ELSE entry[blk[u]].uaddr
      BY <1>6, <1>12, <3>2
    <3>5. (Blocked(u) <=> blk[u] \notin signalled) /\ (Blocked(u)' <=> blk'[u] \notin signalled')
      BY <2>1, <3>1 DEF Blocked
    <3>6. blk[u] \in W \/ blk[u] \in M => blk[u] \in linked
      BY <1>3, <1>13
    <3> HIDE DEF K, J
    <3>7. PlaceOf(u)' = IF u \in K THEN NoAddr ELSE IF u \in J THEN a2 ELSE PlaceOf(u)
      BY <2>1, <3>1, <3>2, <3>3, <3>4, <3>5, <3>6 DEF PlaceOf
    <3>8. Blocked(u) => PlaceOf(u) = entry[blk[u]].uaddr
      BY <2>1 DEF PlaceOf
    <3>9. (Woke(u) <=> blk[u] \in signalled) /\ (Woke(u)' <=> blk'[u] \in signalled')
      BY <2>1, <3>1 DEF Woke
    <3> QED
      BY <2>1, <3>1, <3>2, <3>3, <3>4, <3>5, <3>6, <3>7, <3>8, <3>9
  <2>2. CASE pc[u] # "asleep"
    <3>1. pc[u] \notin {"wait", "lock_pi"} /\ pc'[u] \notin {"wait", "lock_pi", "asleep"}
      BY <1>2, <1>7, <2>2 DEF Others, InCall
    <3> QED
      BY <2>2, <3>1 DEF Blocked, Woke, PlaceOf
  <2> QED
    BY <2>1, <2>2
<1>17. K \cap J = {} /\ K \in SUBSET Threads /\ J \in SUBSET Threads
  BY <1>13
<1> HIDE DEF K, J
<1>18. ASSUME NEW u \in K \cup J
       PROVE  Blocked(u) /\ PlaceOf(u) = a
  <2>1. u \in Threads /\ Blocked(u)
    BY <1>16, <1>17
  <2>2. blk[u] \in Q /\ blk[u] \in linked
    BY <1>3, <1>13, <1>16, <1>18, <2>1
  <2> QED
    BY <1>9, <1>16, <2>1, <2>2
<1>19. ASSUME NEW u \in Threads, NEW v \in Threads, Blocked(u), Blocked(v)
       PROVE  Before(v, u) <=> PlaceOf(v) = PlaceOf(u) /\ <<blk[v], blk[u]>> \in ahead
  BY <1>16, <1>19 DEF Before
<1>20. ASSUME NEW u \in K \cup J, NEW v \in Threads, Blocked(v), PlaceOf(v) = a, Before(v, u)
       PROVE  (u \in K => v \in K) /\ (u \in J => v \in K \cup J)
  <2>1. u \in Threads /\ Blocked(u)
    BY <1>17, <1>18
  <2>2. <<blk[v], blk[u]>> \in ahead
    BY <1>19, <1>20, <2>1
  <2>3. blk[v] \in Q
    BY <1>9, <1>16, <1>20
  <2>4. u \in K => blk[v] \in W
    BY <1>5, <1>16, <2>1, <2>2, <2>3
  <2>5. u \in J => blk[v] \in W \cup M
    BY <1>5, <1>16, <2>1, <2>2, <2>3 DEF R
  <2> QED
    BY <1>16, <1>20, <2>4, <2>5
<1>21. ASSUME NEW u \in Threads, NEW v \in Threads
       PROVE  Before(u, v)' <=> \/ Before(u, v) /\ u \notin K /\ v \notin K /\ (u \in J <=> v \in J)
                                \/ Blocked(u) /\ PlaceOf(u) = a2 /\ v \in J
  <2>1. CASE Blocked(u) /\ Blocked(v)
    <3>1. /\ pc'[u] = "asleep" /\ pc'[v] = "asleep" /\ blk' = blk
          /\ blk[u] \in linked /\ blk[v] \in linked /\ blk[u] \in Blocks /\ blk[v] \in Blocks
          /\ (u \in K <=> blk[u] \in W) /\ (v \in K <=> blk[v] \in W)
          /\ (u \in J <=> blk[u] \in M) /\ (v \in J <=> blk[v] \in M)
          /\ PlaceOf(u) = entry[blk[u]].uaddr /\ PlaceOf(v) = entry[blk[v]].uaddr
      BY <1>6, <1>16, <2>1
    <3>2. Before(u, v)' <=> /\ u \notin K /\ v \notin K
                            /\ PlaceOf(u)' = PlaceOf(v)' /\ <<blk[u], blk[v]>> \in ahead'
      BY <1>16, <2>1, <3>1 DEF Before
    <3>3. blk[u] \in Queue(a2) <=> PlaceOf(u) = a2
      BY <1>9, <3>1
    <3>4. <<blk[u], blk[v]>> \in ahead' <=>
            \/ <<blk[u], blk[v]>> \in ahead /\ u \notin K /\ v \notin K /\ (u \in J <=> v \in J)
            \/ PlaceOf(u) = a2 /\ v \in J
      BY <1>11, <3>1, <3>3
    <3>5. <<blk[u], blk[v]>> \in ahead => PlaceOf(u) = PlaceOf(v)
      BY <1>1, <3>1 DEF Ordered
    <3>6. PlaceOf(u) = a2 /\ v \in J => u \notin K /\ u \notin J /\ v \notin K
      BY <1>2, <1>17, <1>18
    <3>7. (u \notin K => PlaceOf(u)' = IF u \in J THEN a2 ELSE PlaceOf(u))
          /\ (v \notin K => PlaceOf(v)' = IF v \in J THEN a2 ELSE PlaceOf(v))
      BY <1>16
    <3>8. Before(u, v) <=> <<blk[u], blk[v]>> \in ahead
      BY <1>19, <2>1, <3>5
    <3> QED
      BY <2>1, <3>2, <3>4, <3>5, <3>6, <3>7, <3>8
  <2>2. CASE ~(Blocked(u) /\ Blocked(v))
    <3>1. v \in J => Blocked(v)
      BY <1>18
    <3> QED
      BY <1>16, <2>2, <3>1 DEF Before
  <2> QED
    BY <2>1, <2>2
<1>22. \A u \in Threads : Blocked(u) /\ u \notin K => call'[u].bitset = call[u].bitset
  BY <1>16
<1>23. FrontOf(K, J, a)
  BY <1>18, <1>20 DEF FrontOf
<1>24. WokenAndMoved(K, J, a2)
  BY <1>16, <1>21, <1>22 DEF WokenAndMoved
<1>25. AbsStep
  BY <1>2, <1>17, <1>23, <1>24, MoveView
<1> QED
  BY <1>10, <1>15, <1>25 DEF Follows

(* Every futex call up to the point where it sleeps.                       *)
LEMMA SyscallFollows ==
  ASSUME Untimed, RefInv, NEW t \in Threads, Syscall(t)
  PROVE  Follows
<1>0. TypeOK
  BY RefFacts
<1>1. ASSUME NEW r, Return(t, r), pc[t] = "user", UNCHANGED <<futex_mutex, blk, entry, lists>>
      PROVE  Follows
  <2>1. Others(t) /\ pc'[t] = "user"
    BY <1>0, <1>1 DEF Return, Others, TypeOK
  <2> QED
    BY <1>1, <2>1, IdleStep
<1>2. CASE FutexError(t)
  BY <1>1, <1>2 DEF FutexError
<1>3. ASSUME NEW a \in Addrs, NEW a2 \in Addrs \cup {NoAddr}, NEW B \in SUBSET Bits,
             NEW ts \in Deadlines("now") \cup Deadlines("guest"), NEW v \in Nat,
             NEW label \in {"wait", "lock_pi"}, pc[t] = "user", futex_mutex = NoThread,
             Enter(t, label, WaitCall(a, a2, B, ts, v))
      PROVE  Follows
  <2>1. ts = "none"
    BY DEF Deadlines, Untimed
  <2>2. WaitCall(a, a2, B, ts, v) \in Calls /\ WaitCall(a, a2, B, ts, v).uaddr \in Addrs
    BY <2>1 DEF WaitCall, Calls
  <2> QED
    BY <1>3, <2>2, EnterStep
<1>4. ASSUME NEW a \in Addrs, NEW v \in Words, NEW ts \in Deadlines("now"), FutexWait(t, a, v, ts)
      PROVE  Follows
  <2>1. CASE mem[a] # v
    BY <1>1, <1>4, <2>1 DEF FutexWait
  <2>2. CASE mem[a] = v
    BY <1>3, <1>4, <2>2, WordsAssumption DEF FutexWait
  <2> QED
    BY <2>1, <2>2
<1>5. ASSUME NEW a \in Addrs, NEW B \in SUBSET Bits, NEW ts \in Deadlines("guest"), FutexWaitBitset(t, a, B, ts)
      PROVE  Follows
  BY <1>3, <1>5 DEF FutexWaitBitset
<1>6. ASSUME NEW a \in Addrs, NEW a2 \in Addrs, NEW ts \in Deadlines("guest"), FutexWaitRequeuePi(t, a, a2, ts)
      PROVE  Follows
  BY <1>3, <1>6 DEF FutexWaitRequeuePi
<1>7. ASSUME NEW a \in Addrs, NEW ts \in Deadlines("guest"), FutexLockPi(t, a, ts)
      PROVE  Follows
  <2>1. CASE mem[a] = 0
    BY <1>1, <1>7, <2>1 DEF FutexLockPi
  <2>2. CASE mem[a] # 0
    <3>1. mem[a] \in Nat
      BY <1>0 DEF TypeOK
    <3> QED
      BY <1>3, <1>7, <2>2, <3>1 DEF FutexLockPi
  <2> QED
    BY <2>1, <2>2
<1>8. ASSUME NEW a \in Addrs, NEW a2 \in Addrs, NEW n2 \in Counts, NEW v \in Words, a # a2,
             FutexCmpRequeuePi(t, a, a2, n2, v)
      PROVE  Follows
  <2> DEFINE c == [NoCall EXCEPT !.uaddr = a, !.uaddr2 = a2, !.val = v, !.val2 = n2]
  <2>1. c.uaddr = a /\ c.uaddr2 = a2
    BY DEF NoCall
  <2>2. CASE mem[a] # v
    BY <1>1, <1>8, <2>2 DEF FutexCmpRequeuePi
  <2>3. CASE mem[a] = v
    <3>1. pc[t] = "user" /\ futex_mutex = NoThread /\ Enter(t, "requeue", c)
      BY <1>8, <2>3 DEF FutexCmpRequeuePi
    <3> HIDE DEF c
    <3> QED
      BY <1>8, <2>1, <3>1, EnterRequeueStep
  <2> QED
    BY <2>2, <2>3
<1>9. TRUE \in BOOLEAN /\ FALSE \in BOOLEAN /\ {} \in SUBSET Bits
  OBVIOUS
<1>10. ASSUME NEW a \in Addrs, NEW n \in Counts, FutexWake(t, a, n, FALSE, {}) PROVE Follows
  BY <1>9, <1>10, FutexWakeFollows
<1>11. ASSUME NEW a \in Addrs, NEW n \in Counts, NEW B \in SUBSET Bits, FutexWake(t, a, n, TRUE, B)
       PROVE  Follows
  BY <1>9, <1>11, FutexWakeFollows
<1>12. ASSUME NEW a \in Addrs, NEW a2 \in Addrs, NEW n \in Counts, NEW n2 \in Counts, NEW w \in Words,
              NEW cond \in BOOLEAN, FutexWakeOp(t, a, n, a2, n2, w, cond)
       PROVE  Follows
  BY <1>12, FutexWakeOpFollows
<1>13. ASSUME NEW a \in Addrs, FutexUnlockPi(t, a) PROVE Follows
  BY <1>13, FutexUnlockPiFollows
<1> QED
  BY ZenonT(60), <1>2, <1>4, <1>5, <1>6, <1>7, <1>8, <1>10, <1>11, <1>12, <1>13 DEF Syscall

(* Steps that change no thread and no list.                                *)
LEMMA StillFollows ==
  ASSUME RefInv, UNCHANGED <<thread, futex_mutex, entry, lists>>
  PROVE  Follows
<1>1. UNCHANGED <<pc, call, blk, linked, ahead, signalled, entry, futex_mutex>>
  BY DEF thread, lists
<1>2. Ordered' /\ Calling'
  BY <1>1 DEF RefInv, Ordered, Calling
<1>3. /\ \A u \in Threads : /\ Blocked(u)' <=> Blocked(u)
                            /\ Woke(u)' <=> Woke(u)
                            /\ PlaceOf(u)' = PlaceOf(u)
                            /\ Blocked(u) => call'[u].bitset = call[u].bitset
      /\ \A u, v \in Threads : Before(u, v)' <=> Before(u, v)
  BY <1>1 DEF Blocked, Woke, PlaceOf, Before
<1> QED
  BY <1>2, <1>3, SameView DEF Follows

(* Every step keeps the invariant and is a step of FutexAbs.               *)
LEMMA RefStep ==
  ASSUME Untimed, RefInv, [Next]_vars
  PROVE  RefInv' /\ AbsStep
<1>0. EntryInv' /\ TypeOK
  BY EntryStep, RefFacts DEF RefInv
<1> SUFFICES Follows
  BY <1>0 DEF Follows, RefInv
<1>1. ASSUME NEW t \in Threads, NEW a \in Addrs, NEW w \in Words, GuestStore(t, a, w) PROVE Follows
  BY <1>1, StillFollows DEF GuestStore
<1>2. ASSUME NEW t \in Threads, Syscall(t) PROVE Follows
  BY <1>2, SyscallFollows
<1>3. ASSUME NEW t \in Threads, LockPiStore(t) PROVE Follows
  <2>1. /\ Others(t) /\ call'[t] = call[t] /\ pc[t] = "lock_pi" /\ pc'[t] = "wait"
        /\ UNCHANGED <<futex_mutex, blk, entry, lists>>
    BY <1>0, <1>3 DEF LockPiStore, Others, TypeOK
  <2> QED
    BY <2>1, IdleStep
<1>4. ASSUME NEW t \in Threads, WaitSleep(t) PROVE Follows
  BY <1>4, WaitSleepFollows
<1>5. ASSUME NEW t \in Threads, Woken(t) PROVE Follows
  BY <1>5, WokenFollows
<1>6. ASSUME NEW t \in Threads, Requeue(t) PROVE Follows
  BY <1>6, RequeueFollows
<1>7. ASSUME NEW t \in Threads
      PROVE  ~WaitRefused(t) /\ ~Timeout(t) /\ ~TimedOut(t) /\ ~Spurious(t) /\ ~StaleAccess(t)
  <2>1. ~WaitRefused(t) /\ ~Timeout(t) /\ ~TimedOut(t) /\ ~Spurious(t)
    BY DEF RefInv, EntryInv, WaitRefused, Timeout, TimedOut, Spurious, Untimed
  <2>2. ~StaleAccess(t)
    BY DEF RefInv, EntryInv, EntriesAwaited, StaleAccess, Queue, Last
  <2> QED
    BY <2>1, <2>2
<1>8. CASE UNCHANGED vars
  <2>1. UNCHANGED <<thread, futex_mutex, entry, lists>>
    BY <1>8 DEF vars, thread, lists
  <2> QED
    BY <2>1, StillFollows
<1>s. ASSUME NEW t \in Threads, Step(t) PROVE Follows
  BY <1>s, <1>3, <1>4, <1>5, <1>6, <1>7 DEF Step
<1>n. CASE Next
  BY <1>n, <1>1, <1>2, <1>s DEF Next
<1> QED
  BY <1>8, <1>n

(* Initially nobody waits.                                                 *)
LEMMA RefInit == Init => RefInv /\ Abs!AInit
<1> SUFFICES ASSUME Init PROVE RefInv /\ Abs!AInit
  OBVIOUS
<1>1. EntryInv
  BY EntryInit
<1>2. Calling /\ Ordered
  BY DEF Init, Calling, Ordered, InCall
<1>3. \A t \in Threads : ~Blocked(t) /\ pc[t] # "asleep" /\ PlaceOf(t) = NoAddr
  BY DEF Init, Blocked, PlaceOf
<1>4. \A t, u \in Threads : ~Before(t, u)
  BY <1>3 DEF Before
<1>5. Abs!AInit
  BY <1>3, <1>4 DEF Abs!AInit
<1> QED
  BY <1>1, <1>2, <1>5 DEF RefInv

(* Every futex call of the program is one atomic step of first-come,       *)
(* first-served wait queues: waits join at the end, wakes take a front, a  *)
(* requeue keeps the order of the waiters it moves and puts them behind    *)
(* those that were there, and only a woken thread returns                  *)
(* (src/src/ipc/futex.c:43-106, 119-256).  No wait may time out or return  *)
(* spuriously: it would leave its freed entry on the list.                 *)
THEOREM ImplementsAbstractFutex ==
  ASSUME Untimed
  PROVE  Spec => AbstractFutex
<1>1. RefInv /\ [Next]_vars => RefInv' /\ [Abs!ANext]_(Abs!avars)
  BY RefStep DEF AbsStep
<1> QED
  BY <1>1, RefInit, PTL DEF Spec, AbstractFutex, Abs!ASpec
=============================================================================
