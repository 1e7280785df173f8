-------------------------------- MODULE Conv --------------------------------
(***************************************************************************)
(* The conversions between Linux's and Darwin's representations of modes,  *)
(* flags, locks, options and addresses (src/src/conv.c, src/src/net/net.c).*)
(*                                                                         *)
(* A word of flags is the set of its bits: x & m is an intersection, x | m *)
(* a union.  LINUX_x holds constants of src/include/linux, DARWIN_x those  *)
(* of Darwin's headers.                                                    *)
(***************************************************************************)
EXTENDS Integers, Sequences, FiniteSets

(* c_iflag, c_oflag, c_cflag and c_lflag.                                  *)
LINUX_TERM ==
  [IGNBRK |-> {0}, BRKINT |-> {1}, IGNPAR |-> {2}, PARMRK |-> {3}, INPCK |-> {4}, ISTRIP |-> {5},
   INLCR |-> {6}, IGNCR |-> {7}, ICRNL |-> {8}, IXON |-> {10}, IXANY |-> {11}, IXOFF |-> {12},
   IMAXBEL |-> {13},
   OPOST |-> {0}, ONLCR |-> {2}, XTABS |-> {11, 12},
   CBAUD |-> {0, 1, 2, 3, 12}, CSIZE |-> {4, 5}, CSTOPB |-> {6}, CREAD |-> {7}, PARENB |-> {8},
   PARODD |-> {9}, HUPCL |-> {10}, CLOCAL |-> {11}, CRTSCTS |-> {31},
   ISIG |-> {0}, ICANON |-> {1}, ECHO |-> {3}, ECHOE |-> {4}, ECHOK |-> {5}, ECHONL |-> {6},
   NOFLSH |-> {7}, TOSTOP |-> {8}, ECHOCTL |-> {9}, ECHOPRT |-> {10}, ECHOKE |-> {11},
   FLUSHO |-> {12}, PENDIN |-> {13}, IEXTEN |-> {15}]

DARWIN_TERM ==
  [IGNBRK |-> {0}, BRKINT |-> {1}, IGNPAR |-> {2}, PARMRK |-> {3}, INPCK |-> {4}, ISTRIP |-> {5},
   INLCR |-> {6}, IGNCR |-> {7}, ICRNL |-> {8}, IXON |-> {9}, IXOFF |-> {10}, IXANY |-> {11},
   IMAXBEL |-> {13},
   OPOST |-> {0}, ONLCR |-> {1}, XTABS |-> {2},
   CSIZE |-> {8, 9}, CSTOPB |-> {10}, CREAD |-> {11}, PARENB |-> {12}, PARODD |-> {13},
   HUPCL |-> {14}, CLOCAL |-> {15}, CRTSCTS |-> {16, 17},
   ECHOKE |-> {0}, ECHOE |-> {1}, ECHOK |-> {2}, ECHO |-> {3}, ECHONL |-> {4}, ECHOPRT |-> {5},
   ECHOCTL |-> {6}, ISIG |-> {7}, ICANON |-> {8}, IEXTEN |-> {10}, TOSTOP |-> {22},
   FLUSHO |-> {23}, PENDIN |-> {29}, NOFLSH |-> {31}]

Iflags == {"IGNBRK", "BRKINT", "IGNPAR", "PARMRK", "INPCK", "ISTRIP", "INLCR", "IGNCR", "ICRNL",
           "IXON", "IXANY", "IXOFF", "IMAXBEL"}
Oflags == {"OPOST", "ONLCR", "XTABS"}
Cflags == {"CSTOPB", "CREAD", "PARENB", "PARODD", "HUPCL", "CLOCAL", "CRTSCTS"}
Lflags == {"ISIG", "ICANON", "ECHO", "ECHOE", "ECHOK", "ECHONL", "NOFLSH", "TOSTOP", "ECHOCTL",
           "ECHOPRT", "ECHOKE", "FLUSHO", "PENDIN", "IEXTEN"}

(* Every flag of names that is set in word, of which one bit is enough.    *)
Translate(word, names, from, to) == UNION {to[n] : n \in {m \in names : word \cap from[m] # {}}}

(* What a switch over the constants of one platform returns, -1 when none  *)
(* is met.                                                                 *)
Renumber(n, from, to) ==
  LET name == {m \in DOMAIN from \cap DOMAIN to : from[m] = n}
  IN  IF name = {} THEN -1 ELSE to[CHOOSE m \in name : TRUE]

Shift(word, by) == {b + by : b \in word}

(* The codes of the speeds; the speeds themselves are Darwin's.            *)
sptab ==
  << <<0, {}>>, <<50, {0}>>, <<75, {1}>>, <<110, {0, 1}>>, <<134, {2}>>, <<150, {0, 2}>>,
     <<200, {1, 2}>>, <<300, {0, 1, 2}>>, <<600, {3}>>, <<1200, {0, 3}>>, <<1800, {1, 3}>>,
     <<2400, {0, 1, 3}>>, <<4800, {2, 3}>>, <<9600, {0, 2, 3}>>, <<19200, {1, 2, 3}>>,
     <<38400, {0, 1, 2, 3}>>, <<57600, {0, 12}>>, <<115200, {1, 12}>> >>

(* The first entry of the table; -1, every bit set, when there is none.    *)
AllBits == 0 .. 31
darwin_to_linux_speed(speed) ==
  LET hits == {i \in DOMAIN sptab : sptab[i][1] = speed}
  IN  IF hits = {} THEN AllBits ELSE sptab[CHOOSE i \in hits : \A j \in hits : i <= j][2]

linux_to_darwin_speed(code) ==
  LET hits == {i \in DOMAIN sptab : sptab[i][2] = code}
  IN  IF hits = {} THEN -1 ELSE sptab[CHOOSE i \in hits : \A j \in hits : i <= j][1]

(* Indices into c_cc.                                                      *)
LINUX_CC == [VINTR |-> 0, VQUIT |-> 1, VERASE |-> 2, VKILL |-> 3, VEOF |-> 4, VTIME |-> 5,
             VMIN |-> 6, VSTART |-> 8, VSTOP |-> 9, VSUSP |-> 10, VEOL |-> 11, VREPRINT |-> 12,
             VDISCARD |-> 13, VWERASE |-> 14, VLNEXT |-> 15, VEOL2 |-> 16]
DARWIN_CC == [VEOF |-> 0, VEOL |-> 1, VEOL2 |-> 2, VERASE |-> 3, VWERASE |-> 4, VKILL |-> 5,
              VREPRINT |-> 6, VINTR |-> 8, VQUIT |-> 9, VSUSP |-> 10, VSTART |-> 12, VSTOP |-> 13,
              VLNEXT |-> 14, VDISCARD |-> 15, VMIN |-> 16, VTIME |-> 17]
CcNames == DOMAIN LINUX_CC
LINUX_NCCS == 19
NCCS == 20
LINUX_POSIX_VDISABLE == 0
POSIX_VDISABLE == 255

(* Mutant of MoveCc: VMIN and VTIME are taken for characters.              *)
MoveCc_numbers(cc, from, to, size, markFrom, markTo) ==
  LET name(i) == {n \in CcNames : to[n] = i}
      char(i) == IF name(i) = {} THEN markTo ELSE cc[from[CHOOSE n \in name(i) : TRUE]]
  IN  [i \in 0 .. size - 1 |-> IF char(i) = markFrom THEN markTo ELSE char(i)]

(* Characters move to their place; where the platforms mark a character as *)
(* disabled differently the mark changes, but VMIN and VTIME are numbers.  *)
MoveCc(cc, from, to, size, markFrom, markTo) ==
  LET name(i) == {n \in CcNames : to[n] = i}
      char(i) == IF name(i) = {} THEN markTo ELSE cc[from[CHOOSE n \in name(i) : TRUE]]
  IN  [i \in 0 .. size - 1 |->
         IF char(i) = markFrom /\ i \notin {to["VMIN"], to["VTIME"]} THEN markTo ELSE char(i)]

darwin_to_linux_termios(bios) ==
  LET conv(word, names) == Translate(word, names, DARWIN_TERM, LINUX_TERM) IN
  [c_iflag |-> conv(bios.c_iflag, Iflags), c_oflag |-> conv(bios.c_oflag, Oflags),
   c_cflag |-> darwin_to_linux_speed(bios.c_ispeed)
                 \cup Shift(bios.c_cflag \cap DARWIN_TERM["CSIZE"], -4) \cup conv(bios.c_cflag, Cflags),
   c_lflag |-> conv(bios.c_lflag, Lflags),
   c_cc |-> MoveCc(bios.c_cc, DARWIN_CC, LINUX_CC, LINUX_NCCS, POSIX_VDISABLE, LINUX_POSIX_VDISABLE)]

linux_to_darwin_termios(lios) ==
  LET conv(word, names) == Translate(word, names, LINUX_TERM, DARWIN_TERM)
      speed == linux_to_darwin_speed(lios.c_cflag \cap LINUX_TERM["CBAUD"])
  IN
  [c_iflag |-> conv(lios.c_iflag, Iflags), c_oflag |-> conv(lios.c_oflag, Oflags),
   c_cflag |-> Shift(lios.c_cflag \cap LINUX_TERM["CSIZE"], 4) \cup conv(lios.c_cflag, Cflags),
   c_lflag |-> conv(lios.c_lflag, Lflags),
   c_cc |-> MoveCc(lios.c_cc, LINUX_CC, DARWIN_CC, NCCS, LINUX_POSIX_VDISABLE, POSIX_VDISABLE),
   c_ispeed |-> speed, c_ospeed |-> speed]

(* Selectors of TCXONC and TCFLSH.                                         *)
LINUX_FLOW == [TCOOFF |-> 0, TCOON |-> 1, TCIOFF |-> 2, TCION |-> 3]
DARWIN_FLOW == [TCOOFF |-> 1, TCOON |-> 2, TCIOFF |-> 3, TCION |-> 4]
LINUX_FLUSH == [TCIFLUSH |-> 0, TCOFLUSH |-> 1, TCIOFLUSH |-> 2]
DARWIN_FLUSH == [TCIFLUSH |-> 1, TCOFLUSH |-> 2, TCIOFLUSH |-> 3]
-----------------------------------------------------------------------------
(* Flags of open and fcntl.                                                *)
LINUX_O == [WRONLY |-> {0}, RDWR |-> {1}, CREAT |-> {6}, EXCL |-> {7}, NOCTTY |-> {8}, TRUNC |-> {9},
            APPEND |-> {10}, NONBLOCK |-> {11}, SYNC |-> {12}, ASYNC |-> {13}, DIRECTORY |-> {16},
            NOFOLLOW |-> {17}, CLOEXEC |-> {19}, PATH |-> {21}]
DARWIN_O == [WRONLY |-> {0}, RDWR |-> {1}, NONBLOCK |-> {2}, APPEND |-> {3}, ASYNC |-> {6},
             SYNC |-> {7}, NOFOLLOW |-> {8}, CREAT |-> {9}, TRUNC |-> {10}, EXCL |-> {11},
             NOCTTY |-> {17}, DIRECTORY |-> {20}, SYMLINK |-> {21}, CLOEXEC |-> {24}]

(* The access mode 3 is read-only, like 0.                                 *)
linux_to_darwin_o_flags(l) ==
  LET path == {n \in {"CLOEXEC", "DIRECTORY"} : l \cap LINUX_O[n] # {}}
      mode == l \cap {0, 1}
  IN
  IF l \cap LINUX_O["PATH"] # {}
  THEN UNION {DARWIN_O[n] : n \in path}
         \cup (IF l \cap LINUX_O["NOFOLLOW"] # {} THEN DARWIN_O["SYMLINK"] ELSE {})
  ELSE (IF mode = {0, 1} THEN {} ELSE mode)
         \cup Translate(l, {"NONBLOCK", "APPEND", "SYNC", "ASYNC", "CREAT", "TRUNC", "EXCL", "NOCTTY",
                            "NOFOLLOW", "DIRECTORY"}, LINUX_O, DARWIN_O)

(* O_FSYNC is answered as FASYNC, and O_ASYNC is not expected: the         *)
(* assertion that no bit is left fails on it.                              *)
Expected == {"WRONLY", "RDWR", "APPEND", "NONBLOCK", "SYNC", "CREAT", "TRUNC", "EXCL", "NOCTTY",
             "NOFOLLOW", "DIRECTORY", "CLOEXEC"}
Unexpected(r) == r \ UNION {DARWIN_O[n] : n \in Expected}
darwin_to_linux_o_flags(r) == Translate(r, Expected, DARWIN_O, [LINUX_O EXCEPT !.SYNC = LINUX_O["ASYNC"]])

(* Locks: the types have other numbers on the two platforms.               *)
LINUX_LCK == [RDLCK |-> 0, WRLCK |-> 1, UNLCK |-> 2]
DARWIN_LCK == [RDLCK |-> 1, UNLCK |-> 2, WRLCK |-> 3]

(* Mutant of linux_to_darwin_flock: a write lock becomes a read lock.      *)
linux_to_darwin_flock_shared(lk) ==
  [lk EXCEPT !.l_type = Renumber(@, LINUX_LCK, [DARWIN_LCK EXCEPT !.WRLCK = DARWIN_LCK["RDLCK"]])]

linux_to_darwin_flock(lk) == [lk EXCEPT !.l_type = Renumber(@, LINUX_LCK, DARWIN_LCK)]
darwin_to_linux_flock(lk) == [lk EXCEPT !.l_type = Renumber(@, DARWIN_LCK, LINUX_LCK)]
-----------------------------------------------------------------------------
(* Flags of sendmsg: one that Darwin does not have refuses the call.       *)
LINUX_MSG == [OOB |-> {0}, PEEK |-> {1}, DONTROUTE |-> {2}, CTRUNC |-> {3}, TRUNC |-> {5},
              DONTWAIT |-> {6}, EOR |-> {7}, WAITALL |-> {8}, NOSIGNAL |-> {14}]
DARWIN_MSG == [OOB |-> {0}, PEEK |-> {1}, DONTROUTE |-> {2}, EOR |-> {3}, TRUNC |-> {4},
               CTRUNC |-> {5}, WAITALL |-> {6}, DONTWAIT |-> {7}]
MsgFlags == DOMAIN DARWIN_MSG
UnsupportedMsg(flags) == flags \ UNION {LINUX_MSG[n] : n \in MsgFlags} # {}
linux_to_darwin_msg_flags(flags) == Translate(flags, MsgFlags, LINUX_MSG, DARWIN_MSG)

(* Socket options.  The name is translated at every level, as if it were   *)
(* one of SOL_SOCKET.                                                      *)
LINUX_SO == [DEBUG |-> 1, REUSEADDR |-> 2, TYPE |-> 3, ERROR |-> 4, DONTROUTE |-> 5, BROADCAST |-> 6,
             SNDBUF |-> 7, RCVBUF |-> 8, KEEPALIVE |-> 9, OOBINLINE |-> 10, LINGER |-> 13,
             RCVLOWAT |-> 18, SNDLOWAT |-> 19, RCVTIMEO |-> 20, SNDTIMEO |-> 21, TIMESTAMP |-> 29,
             ACCEPTCONN |-> 30]
DARWIN_SO == [DEBUG |-> 1, ACCEPTCONN |-> 2, REUSEADDR |-> 4, KEEPALIVE |-> 8, DONTROUTE |-> 16,
              BROADCAST |-> 32, LINGER |-> 128, OOBINLINE |-> 256, TIMESTAMP |-> 1024,
              SNDBUF |-> 4097, RCVBUF |-> 4098, SNDLOWAT |-> 4099, RCVLOWAT |-> 4100,
              SNDTIMEO |-> 4101, RCVTIMEO |-> 4102, ERROR |-> 4103, TYPE |-> 4104]
LINUX_SOL_SOCKET == 1
SOL_SOCKET == 65535
to_host_sockopt_name(name) == Renumber(name, LINUX_SO, DARWIN_SO)
linux_to_darwin_sockopt_level(level) == IF level = LINUX_SOL_SOCKET THEN SOL_SOCKET ELSE level
-----------------------------------------------------------------------------
(* Addresses: a Linux sockaddr has a family of two bytes and a length the  *)
(* caller passes; Darwin's starts with its own length.  The path of a UNIX *)
(* socket may lack its NUL when the length says where it ends.             *)
LINUX_AF == [UNSPEC |-> 0, UNIX |-> 1, INET |-> 2, AX25 |-> 3, IPX |-> 4, APPLETALK |-> 5, INET6 |-> 10]
DARWIN_AF == [UNSPEC |-> 0, UNIX |-> 1, INET |-> 2, APPLETALK |-> 16, IPX |-> 23, INET6 |-> 30]
SockaddrUn == 106
SockaddrIn == 16

(* The Darwin address, or one with family -1 where the call is refused.    *)
linux_to_darwin_sockaddr(l) ==
  LET family == Renumber(l.family, LINUX_AF, DARWIN_AF)
      long == family = DARWIN_AF["UNIX"] /\ SockaddrUn < 2 + l.slen
  IN
  [sa_family |-> IF long THEN -1 ELSE family,
   sa_len |-> CASE family = DARWIN_AF["UNIX"] -> SockaddrUn
                [] family = DARWIN_AF["INET"] -> SockaddrIn
                [] OTHER -> l.len,
   data |-> l.data, slen |-> l.slen]

darwin_to_linux_sockaddr(d) == [family |-> Renumber(d.sa_family, DARWIN_AF, LINUX_AF), data |-> d.data]
-----------------------------------------------------------------------------
(* Signals.  STKFLT and PWR are Linux's only; Darwin's EMT and INFO have   *)
(* no number on Linux.                                                     *)
LINUX_SIG ==
  [HUP |-> 1, INT |-> 2, QUIT |-> 3, ILL |-> 4, TRAP |-> 5, ABRT |-> 6, BUS |-> 7, FPE |-> 8,
   KILL |-> 9, USR1 |-> 10, SEGV |-> 11, USR2 |-> 12, PIPE |-> 13, ALRM |-> 14, TERM |-> 15,
   STKFLT |-> 16, CHLD |-> 17, CONT |-> 18, STOP |-> 19, TSTP |-> 20, TTIN |-> 21, TTOU |-> 22,
   URG |-> 23, XCPU |-> 24, XFSZ |-> 25, VTALRM |-> 26, PROF |-> 27, WINCH |-> 28, IO |-> 29,
   PWR |-> 30, SYS |-> 31]
DARWIN_SIG ==
  [HUP |-> 1, INT |-> 2, QUIT |-> 3, ILL |-> 4, TRAP |-> 5, ABRT |-> 6, EMT |-> 7, FPE |-> 8,
   KILL |-> 9, BUS |-> 10, SEGV |-> 11, SYS |-> 12, PIPE |-> 13, ALRM |-> 14, TERM |-> 15,
   URG |-> 16, STOP |-> 17, TSTP |-> 18, CONT |-> 19, CHLD |-> 20, TTIN |-> 21, TTOU |-> 22,
   IO |-> 23, XCPU |-> 24, XFSZ |-> 25, VTALRM |-> 26, PROF |-> 27, WINCH |-> 28, INFO |-> 29,
   USR1 |-> 30, USR2 |-> 31]
LINUX_SIGRTMIN == 32

linux_to_darwin_signum == [n \in 1 .. LINUX_SIGRTMIN - 1 |-> Renumber(n, LINUX_SIG, DARWIN_SIG)]
darwin_to_linux_signum == [n \in 1 .. LINUX_SIGRTMIN - 1 |-> Renumber(n, DARWIN_SIG, LINUX_SIG)]
linux_to_darwin_signal(n) == IF n < LINUX_SIGRTMIN THEN linux_to_darwin_signum[n] ELSE 0
darwin_to_linux_signal(n) == IF n < LINUX_SIGRTMIN THEN darwin_to_linux_signum[n] ELSE 0

(* sigaddset of 0 adds no signal.                                          *)
linux_to_darwin_sigset(set) ==
  {linux_to_darwin_signal(n) : n \in set \ {LINUX_SIG["STKFLT"], LINUX_SIG["PWR"]}} \ {0}
darwin_to_linux_sigset(set) == {n \in {darwin_to_linux_signal(d) : d \in set} : n > 0}
=============================================================================
