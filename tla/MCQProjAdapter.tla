--------------------------- MODULE MCQProjAdapter ---------------------------
(***************************************************************************)
(* Small instances of QProjAdapter for TLC: one thread makes two calls, so *)
(* that it can call from inside its own forward or close twice.            *)
(***************************************************************************)
EXTENDS QProjAdapter

CONSTANTS t1, t2, t3

MCThreads2 == {t1, t2}
MCThreads3 == {t1, t2, t3}
MCCallsEach == [t \in MCThreads2 |-> 2]
MCCalls == [t \in MCThreads3 |-> IF t = t1 THEN 2 ELSE 1]
=============================================================================
