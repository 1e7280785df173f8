------------------------------- MODULE MCVfs -------------------------------
(* Path names on small trees: three inodes, two names, links that are      *)
(* relative, absolute, circular, upwards and into a shared directory.      *)
EXTENDS Vfs, TLC

CONSTANTS i1, i2, i3

MCInodes == {i1, i2, i3}
MCNames == {"a", "b"}

MCTargets == {Path(0, <<"b">>), Path(1, <<"a">>), Path(0, <<"..", "a">>), Path(1, <<"Users", "a">>)}

MCPaths == {Path(0, <<"a">>), Path(0, <<"b">>), Path(0, <<"a", "b">>),
            Path(1, <<"b", "a">>), Path(1, <<"Users", "a">>), Path(0, <<"a", "..", "b">>)}

Symmetry == Permutations(MCInodes)
=============================================================================
