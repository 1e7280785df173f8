----------------------------- MODULE MCFdTable -----------------------------
(* Small instances of FdTable: the program uses its own descriptors.       *)
EXTENDS FdTable

MCUserFds == UserFd
=============================================================================
