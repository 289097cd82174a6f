---------------------------- MODULE SemVerOrder -----------------------------
(***************************************************************************)
(* The reference for SemVer: precedence as clause 11 of SemVer 2.0.0 has   *)
(* it, stated without looking at how the code compares.  Every version has *)
(* a place on one line: reading core and identifiers as the digits of a    *)
(* number, an absent identifier is the lowest digit, numbers follow, then  *)
(* the other identifiers, and a release is above all of its prereleases.   *)
(***************************************************************************)
EXTENDS SemVer

CONSTANT Half     \* bound: there are fewer than Half - 1 names for identifiers

ASSUME OrderAssumption ==
    /\ Half \in Nat
    /\ MaxUint64 + 1 < Half
    /\ 3 < maxVersionComponents

Base == 2 * Half

(***************************************************************************)
(* A string of a bounded length (maxVersionLength) has names of a bounded  *)
(* length, so that there is a last one.                                    *)
(***************************************************************************)
NamedVersions ==
    {v \in Versions : v.short /\ v.pre # Nil =>
        \A i \in DOMAIN v.pre : ~v.pre[i].digits => v.pre[i].value < Half - 1}

IdentifierDigit(id) == IF id.digits THEN 1 + id.value ELSE Half + id.value

PrereleaseDigit(pre, i) ==
    CASE pre = <<>> -> Base - 1
      [] pre # <<>> /\ i \in DOMAIN pre -> IdentifierDigit(pre[i])
      [] OTHER -> 0

Digits(v) ==
    [i \in 1..maxVersionComponents |->
        IF i <= 3 THEN parseVersion(v).core[i]
                  ELSE PrereleaseDigit(parseVersion(v).prerelease, i - 3)]

(***************************************************************************)
(* The number that the first n of the digits make.                         *)
(***************************************************************************)
Number(digits) ==
    LET number[n \in 0..maxVersionComponents] ==
            IF n = 0 THEN 0 ELSE number[n - 1] * Base + digits[n]
    IN  number

Place(v) == Number(Digits(v))[maxVersionComponents]

(***************************************************************************)
(* No number of a version that parses is beyond a uint64.                  *)
(***************************************************************************)
Fits(v) ==
    \A i \in DOMAIN parseVersion(v).prerelease :
        LET id == parseVersion(v).prerelease[i] IN id.digits => InRange(id.value)

Within(v, low, high) ==
    /\ low # Nil => Parses(v) /\ Parses(low) /\ Place(low) <= Place(v)
    /\ high # Nil => Parses(v) /\ Parses(high) /\ Place(v) <= Place(high)
=============================================================================
