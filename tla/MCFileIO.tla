------------------------------ MODULE MCFileIO ------------------------------
(* A small instance of FileIO.                                             *)
EXTENDS FileIO

MCKinds == {"tty", "flags", "locks", "options", "names", "stream"}
MCChars == {0, 4, 255}
MCMtu == {<<1>>, <<0, 1>>, <<1, 2>>}
=============================================================================
