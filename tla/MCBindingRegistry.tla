------------------------- MODULE MCBindingRegistry -------------------------
(***************************************************************************)
(* Small instances of BindingRegistry for TLC.                             *)
(***************************************************************************)
EXTENDS BindingRegistry

CONSTANTS t1, t2, b1, b2

MCThreads2 == {t1, t2}
MCBindings2 == {b1, b2}
=============================================================================
