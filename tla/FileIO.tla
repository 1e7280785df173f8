------------------------------- MODULE FileIO -------------------------------
(***************************************************************************)
(* What a program does with an open file: terminal modes, status flags,    *)
(* record locks, socket options, addresses, and the bytes of a stream      *)
(* (src/src/fs/fs.c, src/src/net/net.c).                                   *)
(*                                                                         *)
(* Darwin holds the state; noah converts it on the way in and out.  host   *)
(* is what Darwin holds, seen what Linux would hold after the same calls.  *)
(* The kinds of state are independent, so a behaviour is about one kind.   *)
(* A call that is refused before its first effect changes nothing and is   *)
(* no step.                                                                *)
(***************************************************************************)
EXTENDS Conv, SequencesExt, FiniteSetsExt

CONSTANTS
  Threads,
  Kinds,       \* the kinds of state that are explored
  Chars,       \* values of control characters
  Mtu,         \* lengths of the buffers of a message
  MaxCalls,    \* bound on the calls that change settings
  Room,        \* bytes that Darwin buffers
  MaxBytes,    \* bound on the bytes a thread sends
  VkernStart   \* vkern_fdtable.start

ASSUME FileIOAssumption ==
  /\ Kinds \subseteq {"tty", "flags", "locks", "options", "names", "stream"}
  /\ MaxCalls \in Nat /\ Room \in Nat \ {0} /\ MaxBytes \in Nat /\ VkernStart \in Nat

VARIABLES
  kind, host, seen,
  calls,     \* calls so far that changed a setting
  aborted,   \* an assertion of noah has failed
  stream,    \* bytes in Darwin's buffer: <<thread, number>>
  got,       \* bytes that receivers have found in their buffers
  msgs,      \* messages that sendmmsg of a thread has yet to send
  sent,      \* bytes a thread was told it has sent, and those of its sendmmsg so far
  spoilt     \* a fault or a wrong answer: counts no longer say what was sent

vars == <<kind, host, seen, calls, aborted, stream, got, msgs, sent, spoilt>>
svars == <<stream, got, msgs, sent, spoilt>>

Flip(word, mask) == IF mask \subseteq word THEN word \ mask ELSE word \cup mask

(* A call that changes a setting.                                          *)
Sets(k, h, s) ==
  /\ kind = k /\ ~aborted /\ calls < MaxCalls
  /\ host' = h /\ seen' = s /\ calls' = calls + 1
  /\ UNCHANGED <<kind, aborted, svars>>
-----------------------------------------------------------------------------
(* A terminal as Darwin sets it up: modes, size, what is stopped, what is  *)
(* queued.                                                                 *)
Cooked ==
  LET bits(names) == UNION {DARWIN_TERM[n] : n \in names}
      cc(i) == CASE i = DARWIN_CC["VMIN"] -> 1
                 [] i = DARWIN_CC["VTIME"] -> 0
                 [] i \in {DARWIN_CC[n] : n \in CcNames \ {"VEOL", "VEOL2"}} -> 3
                 [] OTHER -> POSIX_VDISABLE
  IN
  [c_iflag |-> bits({"BRKINT", "ICRNL", "IXON", "IXANY", "IMAXBEL"}),
   c_oflag |-> bits({"OPOST", "ONLCR"}),
   c_cflag |-> bits({"CSIZE", "CREAD", "HUPCL"}),
   c_lflag |-> bits({"ISIG", "ICANON", "IEXTEN", "ECHO", "ECHOE", "ECHOK", "ECHOKE", "ECHOCTL"}),
   c_cc |-> [i \in 0 .. NCCS - 1 |-> cc(i)],
   c_ispeed |-> 9600, c_ospeed |-> 9600]

InitTty ==
  LET win == [ws_row |-> 24, ws_col |-> 80, ws_xpixel |-> 0, ws_ypixel |-> 0] IN
  /\ host = [ios |-> Cooked, win |-> win, stopped |-> {}, queued |-> {"in", "out"}]
  /\ seen = [host EXCEPT !.ios = darwin_to_linux_termios(host.ios)]

Tcgets == darwin_to_linux_termios(host.ios)

(* A change to the modes that a program has read: a flag, the size of      *)
(* characters, the speed or a control character.                           *)
Edits(l) ==
  LET flip(f, names) == {[l EXCEPT ![f] = Flip(@, LINUX_TERM[n])] : n \in names}
      real(n, v) == n \in {"VMIN", "VTIME"} \/ v # POSIX_VDISABLE
  IN
  flip("c_iflag", Iflags) \cup flip("c_oflag", Oflags) \cup flip("c_cflag", Cflags)
    \cup flip("c_lflag", Lflags)
    \cup {[l EXCEPT !.c_cflag = (@ \ LINUX_TERM["CSIZE"]) \cup z] : z \in SUBSET LINUX_TERM["CSIZE"]}
    \cup {[l EXCEPT !.c_cflag = (@ \ LINUX_TERM["CBAUD"]) \cup sptab[i][2]] : i \in DOMAIN sptab}
    \cup {[l EXCEPT !.c_cc[LINUX_CC[p[1]]] = p[2]] : p \in {q \in CcNames \X Chars : real(q[1], q[2])}}

Tcsets(l) ==
  Sets("tty", [host EXCEPT !.ios = linux_to_darwin_termios(l)], [seen EXCEPT !.ios = l])

linux_to_darwin_winsize(lws) ==
  [ws_row |-> lws.ws_row, ws_col |-> lws.ws_col, ws_xpixel |-> lws.ws_xpixel, ws_ypixel |-> lws.ws_ypixel]

Tiocswinsz(lws) ==
  Sets("tty", [host EXCEPT !.win = linux_to_darwin_winsize(lws)], [seen EXCEPT !.win = lws])

(* tcflow and tcflush, by the selectors of a platform.                     *)
Flow(tty, sel, names) ==
  [tty EXCEPT !.stopped = CASE sel = names.TCOOFF -> @ \cup {"out"}
                            [] sel = names.TCOON -> @ \ {"out"}
                            [] sel = names.TCIOFF -> @ \cup {"in"}
                            [] sel = names.TCION -> @ \ {"in"}]

Flush(tty, sel, names) ==
  [tty EXCEPT !.queued = CASE sel = names.TCIFLUSH -> @ \ {"in"}
                           [] sel = names.TCOFLUSH -> @ \ {"out"}
                           [] sel = names.TCIOFLUSH -> {}]

Tcxonc(val) ==
  LET sel == Renumber(val, LINUX_FLOW, DARWIN_FLOW) IN
  sel # -1 /\ Sets("tty", Flow(host, sel, DARWIN_FLOW), Flow(seen, val, LINUX_FLOW))

Tcflsh(val) ==
  LET sel == Renumber(val, LINUX_FLUSH, DARWIN_FLUSH) IN
  sel # -1 /\ Sets("tty", Flush(host, sel, DARWIN_FLUSH), Flush(seen, val, LINUX_FLUSH))

Terminal ==
  /\ kind = "tty"
  /\ \/ \E l \in Edits(Tcgets) : Tcsets(l)
     \/ \E rows, xpixels \in {0, 24} :
          Tiocswinsz([ws_row |-> rows, ws_col |-> 80, ws_xpixel |-> xpixels, ws_ypixel |-> 1])
     \/ \E val \in 0 .. 4 : Tcxonc(val) \/ Tcflsh(val)
-----------------------------------------------------------------------------
(* Status flags.  open leaves Darwin those of FMASK, F_SETFL changes those *)
(* of FCNTLFLAGS; Linux has the same two lists.                            *)
Bits(names, table) == UNION {table[n] : n \in names}
FMASK == {"WRONLY", "RDWR", "APPEND", "NONBLOCK", "SYNC", "ASYNC"}
FCNTLFLAGS == {"APPEND", "NONBLOCK", "ASYNC"}

HostSetfl(flags, arg, table) ==
  LET settable == Bits(FCNTLFLAGS, table) IN (flags \ settable) \cup (arg \cap settable)

InitFlags ==
  \E mode \in {{}, LINUX_O["WRONLY"], LINUX_O["RDWR"]},
     names \in SUBSET {"APPEND", "NONBLOCK", "SYNC", "CREAT", "TRUNC"} :
    LET l == mode \cup Bits(names, LINUX_O) IN
    /\ host = linux_to_darwin_o_flags(l) \cap Bits(FMASK, DARWIN_O)
    /\ seen = l \cap Bits(FMASK, LINUX_O)

(* F_GETFL: the assertion of darwin_to_linux_o_flags.                      *)
Getfl ==
  /\ kind = "flags" /\ ~aborted /\ Unexpected(host) # {}
  /\ aborted' = TRUE
  /\ UNCHANGED <<kind, host, seen, calls, svars>>

Setfl(arg) ==
  Sets("flags", HostSetfl(host, linux_to_darwin_o_flags(arg), DARWIN_O), HostSetfl(seen, arg, LINUX_O))

Fionbio(on) ==
  LET set(flags, table) == IF on THEN flags \cup table["NONBLOCK"] ELSE flags \ table["NONBLOCK"] IN
  Sets("flags", set(host, DARWIN_O), set(seen, LINUX_O))

(* A program changes the flags it has read, or one of them with FIONBIO.   *)
Status ==
  /\ kind = "flags"
  /\ \/ Getfl
     \/ /\ Unexpected(host) = {}
        /\ \E S \in SUBSET FCNTLFLAGS : Setfl(Flip(darwin_to_linux_o_flags(host), Bits(S, LINUX_O)))
     \/ \E on \in BOOLEAN : Fionbio(on)
-----------------------------------------------------------------------------
(* Record locks of two bytes of a file, and those of another process.      *)
FileBytes == {0, 1}
LockNames == DOMAIN DARWIN_LCK

InitLocks ==
  /\ host \in [own : {[b \in FileBytes |-> "UNLCK"]}, other : [FileBytes -> LockNames]]
  /\ seen = host.own

Locked(lk) == {b \in FileBytes : lk.l_start <= b /\ (lk.l_len = 0 \/ b < lk.l_start + lk.l_len)}

(* The name a platform gives a type, and the bytes another process has     *)
(* locked against it.                                                      *)
LockName(lk, table) == CHOOSE n \in LockNames : table[n] = lk.l_type
Against(lk, table) ==
  {b \in Locked(lk) : LET mine == LockName(lk, table) IN
                       \/ mine = "WRLCK" /\ host.other[b] # "UNLCK"
                       \/ mine = "RDLCK" /\ host.other[b] = "WRLCK"}

Lock(own, lk, table) ==
  IF Against(lk, table) # {} THEN own
  ELSE [b \in FileBytes |-> IF b \in Locked(lk) THEN LockName(lk, table) ELSE own[b]]

(* F_SETLK; F_SETLKW waits where F_SETLK fails.                            *)
Setlk(lk) ==
  /\ kind = "locks" /\ linux_to_darwin_flock(lk).l_type # -1
  /\ Sets("locks", [host EXCEPT !.own = Lock(@, linux_to_darwin_flock(lk), DARWIN_LCK)],
          Lock(seen, lk, LINUX_LCK))

(* What F_GETLK of a platform answers: the first lock in the way.          *)
HostGetlk(lk, table) ==
  IF Against(lk, table) = {} THEN [lk EXCEPT !.l_type = table["UNLCK"]]
  ELSE LET b == Min(Against(lk, table)) IN [l_type |-> table[host.other[b]], l_start |-> b, l_len |-> 1]

Getlk(lk) == darwin_to_linux_flock(HostGetlk(linux_to_darwin_flock(lk), DARWIN_LCK))

Flocks == [l_type : 0 .. 3, l_start : FileBytes, l_len : 0 .. 2]
Probes == {lk \in Flocks : lk.l_type \in {LINUX_LCK["RDLCK"], LINUX_LCK["WRLCK"]}}
-----------------------------------------------------------------------------
(* Socket options that are on, as <<level, name>>.                         *)
SOL_TCP == 6
Settable == DOMAIN LINUX_SO \ {"TYPE", "ERROR", "ACCEPTCONN"}
LinuxOptions == ({LINUX_SOL_SOCKET} \X {LINUX_SO[n] : n \in Settable}) \cup ({SOL_TCP} \X {1, 2})
DarwinOptions == ({SOL_SOCKET} \X {DARWIN_SO[n] : n \in Settable}) \cup ({SOL_TCP} \X {1, 2, 4})

Switch(options, o, on) == IF on THEN options \cup {o} ELSE options \ {o}

Setsockopt(level, optname, on) ==
  LET o == <<linux_to_darwin_sockopt_level(level), to_host_sockopt_name(optname)>> IN
  /\ kind = "options" /\ o \in DarwinOptions
  /\ Sets("options", Switch(host, o, on), Switch(seen, <<level, optname>>, on))

Getsockopt(level, optname) ==
  <<linux_to_darwin_sockopt_level(level), to_host_sockopt_name(optname)>> \in host
-----------------------------------------------------------------------------
(* Addresses of a socket and of its peer.                                  *)
NoAddr == [family |-> -1, data |-> "none", slen |-> 0, nul |-> FALSE]
Junk == "junk"

Addrs ==
  [family : {1}, data : {"path"}, slen : {4, 104, 105}, nul : BOOLEAN]
    \cup [family : {2, 3, 10}, data : {"host"}, slen : {14}, nul : {FALSE}]

(* The length that the program passes.                                     *)
SockLen(a) == IF a.family = 10 THEN 28 ELSE 2 + a.slen + (IF a.nul THEN 1 ELSE 0)
Linux(a) == [family |-> a.family, len |-> SockLen(a), data |-> a.data, slen |-> a.slen]

(* What Darwin keeps of an address and the length it is given: a path ends *)
(* at its NUL or at the length, and past the copy lies other memory.       *)
HostKeeps(d, a, len) ==
  [d EXCEPT !.data = IF d.sa_family = DARWIN_AF["UNIX"] /\ ~a.nul /\ len > SockLen(a) THEN Junk ELSE @]

Bind(a) ==
  LET d == linux_to_darwin_sockaddr(Linux(a)) IN
  /\ kind = "names" /\ d.sa_family # -1 /\ seen.bound = NoAddr
  /\ Sets("names", [host EXCEPT !.bound = HostKeeps(d, a, SockLen(a))],
          [seen EXCEPT !.bound = a])

(* connect passes sa_len, not the length it was given.                     *)
Connect(a) ==
  LET d == linux_to_darwin_sockaddr(Linux(a)) IN
  /\ kind = "names" /\ d.sa_family # -1
  /\ Sets("names", [host EXCEPT !.peer = HostKeeps(d, a, d.sa_len)],
          [seen EXCEPT !.peer = a])

(* What getsockname and getpeername answer.                                *)
Getsockname == darwin_to_linux_sockaddr(host.bound)
Getpeername == darwin_to_linux_sockaddr(host.peer)

InitNames ==
  LET none == [sa_family |-> -1, sa_len |-> 0, data |-> "none", slen |-> 0] IN
  /\ host = [bound |-> none, peer |-> none]
  /\ seen = [bound |-> NoAddr, peer |-> NoAddr]
-----------------------------------------------------------------------------
(* A stream: descriptor 0 sends, descriptor 1 receives.  Byte i of thread  *)
(* t is <<t, i>>.                                                          *)
Data(t, from, n) == [i \in 1 .. n |-> <<t, from + i>>]
Total(lens) == FoldLeft(LAMBDA a, b : a + b, 0, lens)
Accepted(t) == sent[t].told + sent[t].now

(* The buffers of a message, and the copies that noah makes of them.       *)
Buffers(t, lens) ==
  [i \in DOMAIN lens |-> Data(t, Accepted(t) + Total(SubSeq(lens, 1, i - 1)), lens[i])]

Sending(t) == kind = "stream" /\ msgs[t] = <<>>

(* Darwin takes the first n bytes of what it is given.                     *)
HostSends(bytes, n) ==
  /\ n \in 0 .. Min({Len(bytes), Room - Len(stream)})
  /\ n = 0 => bytes = <<>>
  /\ stream' = stream \o SubSeq(bytes, 1, n)

SendBound(t, lens) == Accepted(t) + Total(lens) <= MaxBytes

Tells(t, n) == sent' = [sent EXCEPT ![t].told = @ + n]

Writev(t, lens) ==
  /\ Sending(t) /\ SendBound(t, lens)
  /\ \E n \in 0 .. Total(lens) : HostSends(FlattenSeq(Buffers(t, lens)), n) /\ Tells(t, n)
  /\ UNCHANGED <<kind, host, seen, calls, aborted, got, msgs, spoilt>>

Write(t, size) == Writev(t, <<size>>)

(* sendto does not notice that the buffer could not be read: what the      *)
(* allocator left there is sent.                                           *)
Sendto(t, length, readable) ==
  /\ Sending(t) /\ SendBound(t, <<length>>)
  /\ \E n \in 0 .. length :
       /\ HostSends(IF readable THEN Data(t, Accepted(t), length) ELSE [i \in 1 .. length |-> <<t, 0>>], n)
       /\ Tells(t, n)
       /\ spoilt' = (spoilt \/ (~readable /\ n > 0))
  /\ UNCHANGED <<kind, host, seen, calls, aborted, got, msgs>>

(* do_sendmsg.  On a flag Darwin does not have the result is a field that  *)
(* was never set.  MSG_NOSIGNAL becomes an option that stays on.           *)
NOSIGNAL == LINUX_MSG["NOSIGNAL"]

Sendmsg(t, lens, flags) ==
  /\ Sending(t) /\ SendBound(t, lens)
  /\ \E n \in 0 .. Total(lens) :
       /\ Tells(t, n)
       /\ IF UnsupportedMsg(flags \ NOSIGNAL)
          THEN spoilt' = (spoilt \/ n > 0) /\ UNCHANGED <<host, stream>>
          ELSE /\ HostSends(FlattenSeq(Buffers(t, lens)), n)
               /\ host' = [nosigpipe |-> host.nosigpipe \/ flags \cap NOSIGNAL # {}]
               /\ UNCHANGED spoilt
  /\ UNCHANGED <<kind, seen, calls, aborted, got, msgs>>

(* sendmmsg sends its messages one by one; other threads send in between.  *)
Sendmmsg(t, first, second) ==
  /\ Sending(t) /\ SendBound(t, first \o second)
  /\ msgs' = [msgs EXCEPT ![t] = <<first, second>>]
  /\ UNCHANGED <<kind, host, seen, calls, aborted, stream, got, sent, spoilt>>

(* It goes on with the next message after one that was sent in part.       *)
SendNext(t) ==
  LET lens == Head(msgs[t])
      more == Tail(msgs[t])
  IN
  /\ kind = "stream" /\ msgs[t] # <<>>
  /\ \E n \in 0 .. Total(lens) :
       /\ HostSends(FlattenSeq(Buffers(t, lens)), n)
       /\ sent' = [sent EXCEPT ![t] = IF more = <<>> THEN [told |-> @.told + @.now + n, now |-> 0]
                                      ELSE [@ EXCEPT !.now = @ + n]]
       /\ spoilt' = (spoilt \/ (more # <<>> /\ n < Total(lens)))
  /\ msgs' = [msgs EXCEPT ![t] = more]
  /\ UNCHANGED <<kind, host, seen, calls, aborted, got>>

(* An error is returned even when messages have been sent.                 *)
SendFails(t) ==
  /\ kind = "stream" /\ msgs[t] # <<>>
  /\ msgs' = [msgs EXCEPT ![t] = <<>>]
  /\ sent' = [sent EXCEPT ![t].now = 0]
  /\ spoilt' = (spoilt \/ sent[t].now > 0)
  /\ UNCHANGED <<kind, host, seen, calls, aborted, stream, got>>

(* What Darwin puts into the buffers it is given.                          *)
Unset == <<"unset", 0>>
HostFills(bytes, lens) ==
  [i \in DOMAIN lens |->
     [j \in 1 .. lens[i] |-> LET k == Total(SubSeq(lens, 1, i - 1)) + j
                              IN  IF k <= Len(bytes) THEN bytes[k] ELSE Unset]]

(* Mutant of CopyOut: it stops at an empty buffer.                         *)
RECURSIVE CopyOut_empty(_, _)
CopyOut_empty(iov, size) ==
  LET s == Min({size, Len(Head(iov))}) IN
  IF iov = <<>> \/ s = 0 THEN <<>>
  ELSE <<SubSeq(Head(iov), 1, s)>> \o CopyOut_empty(Tail(iov), size - s)

(* The loop of readv over its buffers.                                     *)
RECURSIVE CopyOut(_, _)
CopyOut(iov, size) ==
  IF iov = <<>> THEN <<>>
  ELSE LET s == Min({size, Len(Head(iov))}) IN
       <<SubSeq(Head(iov), 1, s)>> \o (IF size = s THEN <<>> ELSE CopyOut(Tail(iov), size - s))

(* The first r bytes of the program's buffers after the copies.            *)
Found(copies, lens, r) ==
  LET buffer(i) == [j \in 1 .. lens[i] |-> IF i <= Len(copies) /\ j <= Len(copies[i])
                                            THEN copies[i][j] ELSE Unset]
  IN  SubSeq(FlattenSeq([i \in DOMAIN lens |-> buffer(i)]), 1, r)

(* Receives into buffers of these lengths, which are copied whole or as    *)
(* far as Darwin has filled them.  A fault in the copy to the program      *)
(* loses what Darwin has handed over.                                      *)
Receive(lens, flags, whole, fault) ==
  LET r == Min({Total(lens), Len(stream)})
      iov == HostFills(SubSeq(stream, 1, r), lens)
  IN
  /\ kind = "stream" /\ r > 0
  /\ DARWIN_MSG["WAITALL"] \subseteq flags => r = Total(lens)
  /\ stream' = SubSeq(stream, r + 1, Len(stream))
  /\ got' = IF fault THEN got ELSE got \o Found(IF whole THEN iov ELSE CopyOut(iov, r), lens, r)
  /\ spoilt' = (spoilt \/ fault)
  /\ UNCHANGED <<kind, host, seen, calls, aborted, msgs, sent>>

Readv(lens, fault) == Receive(lens, {}, FALSE, fault)

Read(size, fault) == Readv(<<size>>, fault)

(* recvfrom and recvmsg hand the flags to Darwin as they are: what Linux   *)
(* calls MSG_DONTWAIT is Darwin's MSG_WAITALL.  With MSG_PEEK the stream   *)
(* keeps its bytes, which is no step.  recvmsg copies all of its buffers,  *)
(* also past what was received.                                            *)
Recvfrom(length, flags, fault) == Receive(<<length>>, flags, FALSE, fault)

Recvmsg(lens, flags, fault) == Receive(lens, flags, TRUE, fault)

(* Nothing is said of a stream once it is spoilt.                          *)
Stream ==
  /\ kind = "stream" /\ ~spoilt
  /\ \/ \E t \in Threads :
          \/ \E lens \in Mtu : Writev(t, lens)
          \/ \E size \in 1 .. 2 : Write(t, size)
          \/ \E length \in 1 .. 2, readable \in BOOLEAN : Sendto(t, length, readable)
          \/ \E lens \in Mtu, flags \in {{}, NOSIGNAL, {9}} : Sendmsg(t, lens, flags)
          \/ \E first, second \in Mtu : Sendmmsg(t, first, second)
          \/ SendNext(t) \/ SendFails(t)
     \/ \E fault \in BOOLEAN :
          \/ \E lens \in Mtu : Readv(lens, fault)
          \/ \E size \in 1 .. 2 : Read(size, fault)
          \/ \E flags \in {{}, LINUX_MSG["DONTWAIT"], LINUX_MSG["WAITALL"]} :
               (\E length \in 1 .. 2 : Recvfrom(length, flags, fault))
                 \/ (\E lens \in Mtu : Recvmsg(lens, flags, fault))
-----------------------------------------------------------------------------
(* poll and select over the ends of the stream.  Darwin has the two and    *)
(* noah's own first descriptor open.                                       *)
HostOpenFds == {0, 1, VkernStart}
Ready(fd) ==
  (IF fd = 0 /\ Len(stream) < Room THEN {"OUT"} ELSE {})
    \cup (IF fd = 1 /\ stream # <<>> THEN {"IN"} ELSE {})
    \cup (IF fd = VkernStart THEN {"IN", "OUT"} ELSE {})

HostPoll(p) ==
  IF p.fd < 0 THEN {} ELSE IF p.fd \in HostOpenFds THEN p.events \cap Ready(p.fd) ELSE {"NVAL"}

in_userfd(fd) == fd >= 0 /\ fd < VkernStart

(* Mutant of Poll: descriptors that are not the program's are not counted. *)
Poll_uncounted(fds) ==
  LET d == [i \in DOMAIN fds |-> IF in_userfd(fds[i].fd) THEN fds[i] ELSE [fds[i] EXCEPT !.fd = -1]]
      asked(i) == in_userfd(fds[i].fd) \/ fds[i].fd < 0 \/ fds[i].events = {}
      revents == [i \in DOMAIN fds |-> IF asked(i) THEN HostPoll(d[i]) ELSE {"NVAL"}]
  IN  [r |-> Cardinality({i \in DOMAIN fds : HostPoll(d[i]) # {}}), revents |-> revents]

Poll(fds) ==
  LET d == [i \in DOMAIN fds |-> IF in_userfd(fds[i].fd) THEN fds[i] ELSE [fds[i] EXCEPT !.fd = -1]]
      asked(i) == in_userfd(fds[i].fd) \/ fds[i].fd < 0 \/ fds[i].events = {}
      revents == [i \in DOMAIN fds |-> IF asked(i) THEN HostPoll(d[i]) ELSE {"NVAL"}]
      more == {i \in DOMAIN fds : ~asked(i)}
  IN  [r |-> Cardinality({i \in DOMAIN fds : HostPoll(d[i]) # {}}) + Cardinality(more), revents |-> revents]

(* select and pselect6, of the descriptors to read from.                   *)
HostSelect(nfds, readfds, open) ==
  LET asked == {fd \in readfds : fd < nfds} IN
  IF asked \subseteq open THEN [err |-> FALSE, fds |-> {fd \in asked : "IN" \in Ready(fd)}]
  ELSE [err |-> TRUE, fds |-> {}]

Select(nfds, readfds) ==
  IF nfds - 1 >= VkernStart THEN [err |-> TRUE, fds |-> {}] ELSE HostSelect(nfds, readfds, HostOpenFds)
-----------------------------------------------------------------------------
Init ==
  /\ kind \in Kinds
  /\ CASE kind = "tty" -> InitTty
       [] kind = "flags" -> InitFlags
       [] kind = "locks" -> InitLocks
       [] kind = "options" -> host = {} /\ seen = {}
       [] kind = "names" -> InitNames
       [] kind = "stream" -> host = [nosigpipe |-> FALSE] /\ seen = {}
  /\ calls = 0 /\ aborted = FALSE
  /\ stream = <<>> /\ got = <<>> /\ spoilt = FALSE
  /\ msgs = [t \in Threads |-> <<>>]
  /\ sent = [t \in Threads |-> [told |-> 0, now |-> 0]]

Next ==
  \/ Terminal \/ Status \/ Stream
  \/ \E lk \in Flocks : Setlk(lk)
  \/ \E o \in LinuxOptions, on \in BOOLEAN : Setsockopt(o[1], o[2], on)
  \/ \E a \in Addrs : Bind(a) \/ Connect(a)

Spec == Init /\ [][Next]_vars
-----------------------------------------------------------------------------
(* A terminal holds what the program has set, and answers with it: through *)
(* any changes of flags, speeds, sizes and control characters, in whatever *)
(* encodings of the two platforms (src/src/conv.c:190-471).  A character   *)
(* that is disabled for one is disabled for the other, and the numbers of  *)
(* VMIN and VTIME are the same.                                            *)
TerminalKept ==
  kind = "tty" =>
    /\ Tcgets = seen.ios
    /\ [host EXCEPT !.ios = 0] = [seen EXCEPT !.ios = 0]
    /\ \A n \in {"VMIN", "VTIME"} : host.ios.c_cc[DARWIN_CC[n]] = seen.ios.c_cc[LINUX_CC[n]]
    /\ \A n \in CcNames \ {"VMIN", "VTIME"} :
         host.ios.c_cc[DARWIN_CC[n]] = POSIX_VDISABLE <=> seen.ios.c_cc[LINUX_CC[n]] = LINUX_POSIX_VDISABLE

(* Status flags, locks, options and addresses: Darwin holds what Linux     *)
(* would, and the program reads back what it has set.  Not promised, as    *)
(* the code does not keep it: the flags of a file opened with O_SYNC or    *)
(* set to O_ASYNC (src/src/conv.c:126), options of other levels than       *)
(* SOL_SOCKET (src/src/net/net.c:150-201), and the peer of a connect whose *)
(* path has no NUL (src/src/net/net.c:141).                                *)
FlagsKept ==
  seen \cap Bits({"SYNC", "ASYNC"}, LINUX_O) = {} =>
    Unexpected(host) = {} /\ darwin_to_linux_o_flags(host) = seen

LocksKept ==
  host.own = seen /\ \A lk \in Probes : Getlk(lk) = HostGetlk(lk, LINUX_LCK)

OptionsKept ==
  \A n \in Settable :
    LET set == <<LINUX_SOL_SOCKET, LINUX_SO[n]>> \in seen IN
    /\ Getsockopt(LINUX_SOL_SOCKET, LINUX_SO[n]) = set
    /\ <<SOL_SOCKET, DARWIN_SO[n]>> \in host <=> set

Named(l, a) == a = NoAddr \/ l = [family |-> a.family, data |-> a.data]

NamesKept ==
  /\ Named(Getsockname, seen.bound)
  /\ seen.peer.family # LINUX_AF["UNIX"] \/ seen.peer.nul => Named(Getpeername, seen.peer)

SettingsKept ==
  CASE kind = "flags" -> FlagsKept
    [] kind = "locks" -> LocksKept
    [] kind = "options" -> OptionsKept
    [] kind = "names" -> NamesKept
    [] OTHER -> TRUE

(* What a thread was told it has sent, with whichever calls, in whatever   *)
(* pieces and between the messages of other threads, arrives once and in   *)
(* order in the buffers of the receivers (src/src/fs/fs.c:650-759,         *)
(* src/src/net/net.c:249-515).  The wrong answers that the code gives are  *)
(* excluded by spoilt: sendto from memory it cannot read, sendmsg with an  *)
(* unsupported flag, sendmmsg that fails or sends a part before its last   *)
(* message, and a fault while received bytes are copied to the program.    *)
BytesInOrder ==
  ~spoilt =>
    \A t \in Threads :
      SelectSeq(got \o stream, LAMBDA b : b[1] = t) = Data(t, 0, Accepted(t))

(* poll and select answer as Linux does for descriptors the program has,   *)
(* has not, and cannot have: noah's own descriptors are never visible, and *)
(* the number of answers is right (src/src/fs/fs.c:1931-2099).  Not        *)
(* promised: POLLNVAL for a descriptor that is asked for no event, and     *)
(* select with nfds beyond the program's descriptors, which fails.         *)
LinuxPoll(p) ==
  IF p.fd < 0 THEN {} ELSE IF p.fd \in {0, 1} THEN p.events \cap Ready(p.fd) ELSE {"NVAL"}

Polled == [fd : {-1, 0, 1, 2, VkernStart}, events : SUBSET {"IN", "OUT"}]

PollAnswers ==
  kind = "stream" =>
    /\ \A p, q \in {p \in Polled : p.fd < VkernStart \/ p.events # {}} :
         LET answer == Poll(<<p, q>>) IN
         /\ answer.revents = <<LinuxPoll(p), LinuxPoll(q)>>
         /\ answer.r = Cardinality({i \in 1 .. 2 : answer.revents[i] # {}})
    /\ \A nfds \in 0 .. VkernStart + 1, readfds \in SUBSET {0, 1, 2, VkernStart} :
         \/ Select(nfds, readfds) = HostSelect(nfds, readfds, {0, 1})
         \/ nfds > VkernStart /\ Select(nfds, readfds).err
=============================================================================
