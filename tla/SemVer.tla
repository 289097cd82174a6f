------------------------------- MODULE SemVer -------------------------------
(***************************************************************************)
(* Parsing and precedence of version strings (pkg/license/version.go).     *)
(*                                                                         *)
(* A version string is a record of what parseVersion tells apart:          *)
(*   core   the numerals between the dots of MAJOR.MINOR.PATCH,            *)
(*   pre    the identifiers after '-', or Nil without a '-',               *)
(*   build  whether the metadata after '+' is absent or well formed,       *)
(*   short  whether the string is non-empty and within maxVersionLength.   *)
(* A numeral is an unbounded number and whether it is written as one, in   *)
(* digits without a leading zero.  An identifier says whether it consists  *)
(* of digits, its value (the place in ASCII order when it is not numeric), *)
(* and whether its characters and leading digit are the allowed ones.      *)
(***************************************************************************)
EXTENDS Gates, FiniteSetsExt

CONSTANTS
    MaxUint64,             \* the largest number of a uint64
    maxVersionComponents   \* bounds core and prerelease identifiers together

ASSUME SemVerConstants ==
    /\ MaxUint64 \in Nat
    /\ maxVersionComponents \in Nat

(***************************************************************************)
(* Nothing bounds the numbers in the string.                               *)
(***************************************************************************)
Numerals == [value : Nat, wellFormed : BOOLEAN]
Identifiers == [digits : BOOLEAN, value : Nat, wellFormed : BOOLEAN]

Versions == [core : Seq(Numerals), pre : Seq(Identifiers) \cup {Nil},
             build : BOOLEAN, short : BOOLEAN]

(* strconv.ParseUint: a number out of range is an error, and the value that *)
(* accompanies the error is the largest one.                                *)
InRange(n) == n <= MaxUint64
ParseUint(n) == IF InRange(n) THEN n ELSE MaxUint64

parseNumericID(numeral) == numeral.wellFormed /\ InRange(numeral.value)

ParsesPrerelease(pre) ==
    /\ pre # <<>>
    /\ 3 + Len(pre) <= maxVersionComponents
    /\ \A i \in DOMAIN pre : pre[i].wellFormed

Parses(v) ==
    /\ v.short
    /\ v.build
    /\ Len(v.core) = 3
    /\ \A i \in DOMAIN v.core : parseNumericID(v.core[i])
    /\ v.pre = Nil \/ ParsesPrerelease(v.pre)

parseVersion(v) ==
    [core |-> [i \in 1..3 |-> v.core[i].value],
     prerelease |-> IF v.pre = Nil THEN <<>> ELSE v.pre]

cmpUint(a, b) == IF a < b THEN -1 ELSE IF a > b THEN 1 ELSE 0

(* Mutation of comparePrereleaseID: identifiers of different kinds are equal. *)
MixedAreEqual(a, b) ==
    IF a.digits = b.digits THEN cmpUint(a.value, b.value) ELSE 0

(* Numeric identifiers come before all others.  The errors of ParseUint are *)
(* dropped here.                                                            *)
comparePrereleaseID(a, b) ==
    CASE a.digits /\ b.digits -> cmpUint(ParseUint(a.value), ParseUint(b.value))
      [] a.digits /\ ~b.digits -> -1
      [] ~a.digits /\ b.digits -> 1
      [] OTHER -> cmpUint(a.value, b.value)

(* Of a series of comparisons the first that finds a difference decides.    *)
FirstDifference(results, otherwise) ==
    LET differ == {i \in DOMAIN results : results[i] # 0}
    IN  IF differ = {} THEN otherwise ELSE results[Min(differ)]

Pairwise(a, b) ==
    [i \in DOMAIN a \cap DOMAIN b |-> comparePrereleaseID(a[i], b[i])]

(* Mutation of comparePrerelease: a release is the prerelease without       *)
(* identifiers, and comes first.                                            *)
ReleaseFirst(a, b) == FirstDifference(Pairwise(a, b), cmpUint(Len(a), Len(b)))

comparePrerelease(a, b) ==
    CASE a = <<>> /\ b = <<>> -> 0
      [] a = <<>> /\ b # <<>> -> 1
      [] a # <<>> /\ b = <<>> -> -1
      [] OTHER -> FirstDifference(Pairwise(a, b), cmpUint(Len(a), Len(b)))

compare(a, b) ==
    FirstDifference([i \in 1..3 |-> cmpUint(a.core[i], b.core[i])],
                    comparePrerelease(a.prerelease, b.prerelease))

(* Nil stands for ok = false.                                               *)
compareVersionsStrict(a, b) ==
    IF Parses(a) /\ Parses(b) THEN compare(parseVersion(a), parseVersion(b)) ELSE Nil
=============================================================================
