---------------------------- MODULE MCIssuerFiles ---------------------------
(***************************************************************************)
(* Which commands run together, with which -force arguments, over which    *)
(* files.                                                                  *)
(***************************************************************************)
EXTENDS IssuerFiles

CONSTANTS w1, w2, o1, o2

TwoWriters == {w1, w2}
TwoOutputs == {o1, o2}

Some == {{w1}, {o1, o2}, {w1, o1}}
AnyCalls == UNION {[cs -> BOOLEAN] : cs \in Some}
OneKeygen == [{w1} -> BOOLEAN]
TwoUnforced == [{w1, w2} -> {FALSE}]

AnyStart == [Targets -> {Old, Absent}]
PairStart == [Targets -> {Old}]
EmptyStart == [Targets -> {Absent}]
=============================================================================
