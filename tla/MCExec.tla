------------------------------- MODULE MCExec -------------------------------
(* Constants of Exec for model checking: pages of four bytes; static and   *)
(* dynamic programs whose segments do not start on a page, interpreters    *)
(* that are good, missing or broken, scripts with one and two words, with  *)
(* none, with a missing interpreter and in a circle, and other files.      *)
EXTENDS Exec, TLC

MCUids == 0..2

Seg(vaddr, memsz, filesz, offset) ==
  [vaddr |-> vaddr, memsz |-> memsz, filesz |-> filesz, offset |-> offset]

Elf(type, interp, setuid, segs) ==
  [kind |-> "elf", x |-> TRUE, setuid |-> setuid, type |-> type, machine |-> "x86_64",
   entry |-> segs[1].vaddr, phoff |-> segs[1].offset + 1, interp |-> interp, segs |-> segs]

Script(words) == [kind |-> "script", x |-> TRUE, words |-> words]
Other(kind, x) == [kind |-> kind, x |-> x]

MCFiles ==
  (<<"s">> :> Elf("EXEC", <<>>, FALSE, <<Seg(9, 5, 3, 1), Seg(18, 2, 2, 6)>>)) @@
  (<<"d">> :> Elf("DYN", <<"l">>, FALSE, <<Seg(0, 3, 3, 0), Seg(7, 6, 1, 3)>>)) @@
  (<<"u">> :> Elf("DYN", <<"l">>, TRUE, <<Seg(1, 3, 2, 0)>>)) @@
  (<<"l">> :> Elf("DYN", <<>>, FALSE, <<Seg(0, 2, 2, 0), Seg(6, 3, 1, 2)>>)) @@
  (<<"e">> :> Elf("EXEC", <<"n">>, FALSE, <<Seg(8, 2, 2, 0)>>)) @@
  (<<"z">> :> Elf("EXEC", <<>>, FALSE, <<Seg(2, 2, 2, 0)>>)) @@
  (<<"t">> :> [Elf("EXEC", <<>>, FALSE, <<Seg(8, 2, 2, 0)>>) EXCEPT !.type = "REL"]) @@
  (<<"h">> :> Script(<<<<"d">>>>)) @@
  (<<"j">> :> Script(<<<<"h">>, <<"-", "x">>>>)) @@
  (<<"m">> :> Script(<<<<"n">>>>)) @@
  (<<"o">> :> Script(<<<<"o">>>>)) @@
  (<<"w">> :> Script(<<>>)) @@
  (<<"p">> :> Other("text", TRUE)) @@
  (<<"q">> :> Other("text", FALSE)) @@
  (<<"r">> :> Other("dir", TRUE))

Request(path, args, envp) == [path |-> path, argv |-> <<path>> \o args, envp |-> envp]

MCRequests ==
  {Request(<<f>>, <<>>, <<<<"A", "=">>>>) : f \in {"u", "e", "z", "t", "m", "o", "w", "p", "q", "r", "n"}}
    \cup {Request(<<f>>, <<<<"a", "b", "c">>, <<>>>>, <<<<"H">>, <<"P", "=", "a", "b", "c", "d", "e">>>>) :
            f \in {"s", "j"}}
    \cup {Request(<<"j">>, <<>>, <<>>)}
    \cup {[path |-> <<"h">>, argv |-> <<>>, envp |-> <<>>]}
    \cup {Request(<<"s">>, <<Unreadable>>, <<>>), Request(<<"s">>, <<>>, <<<<"A">>, <<"B">>, <<"C">>, <<"D">>>>)}
=============================================================================
