------------------------------- MODULE Gates --------------------------------
(***************************************************************************)
(* The shape of every decision in the package: checks run in a fixed       *)
(* order, and the first one that fails determines the error code.          *)
(***************************************************************************)
EXTENDS Integers, Sequences

CONSTANTS Nil      \* a nil pointer, a zero time or an empty string

Gate(holds, code) == IF holds THEN "ok" ELSE code

Failures(codes) == {i \in DOMAIN codes : codes[i] # "ok"}

FirstFailure(codes) ==
    LET failures == Failures(codes) IN
    IF failures = {} THEN "ok"
    ELSE codes[CHOOSE i \in failures : \A j \in failures : i <= j]
=============================================================================
