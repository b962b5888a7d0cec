------------------------------- MODULE MCFdHook -------------------------------
(* Instantiation of FdHook for TLC.                                        *)
EXTENDS FdHook

CONSTANTS t1

\* Two descriptor numbers: enough for one to be closed and reused while
\* the other is open.
MCFds == {3, 4}
MCTimeouts == {t1}
=============================================================================
