---------------------------- MODULE GatesProofs -----------------------------
(***************************************************************************)
(* What a row of checks means: it passes only if each of them does.        *)
(***************************************************************************)
EXTENDS Gates, TLAPS

(***************************************************************************)
(* No decision has more than six checks in a row.                          *)
(***************************************************************************)
Checks == 1..6

(***************************************************************************)
(* One of the checks that fail is the first.                               *)
(***************************************************************************)
LEMMA HasFirst ==
  ASSUME NEW S \in SUBSET Checks, S # {}
  PROVE  \E i \in S : \A j \in S : i <= j
<1> SUFFICES ASSUME \A i \in S : \E j \in S : j < i PROVE FALSE
  BY DEF Checks
<1>1. 1 \notin S
  BY DEF Checks
<1>2. 2 \notin S
  BY <1>1 DEF Checks
<1>3. 3 \notin S
  BY <1>1, <1>2 DEF Checks
<1>4. 4 \notin S
  BY <1>1, <1>2, <1>3 DEF Checks
<1>5. 5 \notin S
  BY <1>1, <1>2, <1>3, <1>4 DEF Checks
<1>6. 6 \notin S
  BY <1>1, <1>2, <1>3, <1>4, <1>5 DEF Checks
<1>7. PICK i \in S : i \in Checks
  OBVIOUS
<1>8. i \in {1, 2, 3, 4, 5, 6}
  BY <1>7 DEF Checks
<1> QED BY <1>1, <1>2, <1>3, <1>4, <1>5, <1>6, <1>7, <1>8

(***************************************************************************)
(* The first failure of a list of checks is "ok" only if every check       *)
(* passes.                                                                 *)
(***************************************************************************)
LEMMA AllPass ==
  ASSUME NEW codes, NEW n \in Checks, DOMAIN codes = 1..n,
         FirstFailure(codes) = "ok"
  PROVE  \A i \in 1..n : codes[i] = "ok"
<1> SUFFICES ASSUME Failures(codes) # {} PROVE FALSE
  BY DEF Failures
<1>1. Failures(codes) \in SUBSET Checks
  BY DEF Failures, Checks
<1>2. \E i \in Failures(codes) : \A j \in Failures(codes) : i <= j
  BY <1>1, HasFirst
<1> DEFINE first == CHOOSE i \in Failures(codes) :
                        \A j \in Failures(codes) : i <= j
<1>3. first \in Failures(codes)
  BY <1>2
<1>4. codes[first] = "ok"
  BY DEF FirstFailure
<1> QED BY <1>3, <1>4 DEF Failures

(***************************************************************************)
(* And if each of them does, it passes.                                    *)
(***************************************************************************)
LEMMA PassAll ==
  ASSUME NEW codes, \A i \in DOMAIN codes : codes[i] = "ok"
  PROVE  FirstFailure(codes) = "ok"
BY DEF FirstFailure, Failures

(***************************************************************************)
(* What it decides, if not "ok", is what one of the checks found.          *)
(***************************************************************************)
LEMMA OneDecides ==
  ASSUME NEW codes, NEW n \in Checks, DOMAIN codes = 1..n,
         FirstFailure(codes) # "ok"
  PROVE  \E i \in 1..n : codes[i] # "ok" /\ FirstFailure(codes) = codes[i]
<1>1. Failures(codes) # {}
  BY DEF FirstFailure
<1>2. Failures(codes) \in SUBSET Checks
  BY DEF Failures, Checks
<1>3. \E i \in Failures(codes) : \A j \in Failures(codes) : i <= j
  BY <1>1, <1>2, HasFirst
<1> DEFINE first == CHOOSE i \in Failures(codes) :
                        \A j \in Failures(codes) : i <= j
<1>4. first \in Failures(codes)
  BY <1>3
<1>5. FirstFailure(codes) = codes[first]
  BY <1>1 DEF FirstFailure
<1> QED BY <1>4, <1>5 DEF Failures

(***************************************************************************)
(* What comes after a check that fails is not looked at: rows that agree   *)
(* up to there decide the same.                                            *)
(***************************************************************************)
LEMMA RestIsUnread ==
  ASSUME NEW row1, NEW row2, NEW n \in Checks, NEW m \in 1..n,
         DOMAIN row1 = 1..n, DOMAIN row2 = 1..n,
         \A i \in 1..m : row1[i] = row2[i], row1[m] # "ok"
  PROVE  FirstFailure(row1) = FirstFailure(row2)
<1>1. /\ Failures(row1) \in SUBSET Checks
      /\ m \in Failures(row1) /\ m \in Failures(row2)
  BY DEF Failures, Checks
<1>2. PICK i \in Failures(row1) : \A j \in Failures(row1) : i <= j
  BY <1>1, HasFirst
<1>3. i \in 1..n /\ i \in 1..m /\ row1[i] # "ok"
  BY <1>1, <1>2 DEF Failures, Checks
<1>4. i \in Failures(row2)
  BY <1>3 DEF Failures
<1>5. \A j \in Failures(row2) : i <= j
  <2> SUFFICES ASSUME NEW j \in Failures(row2), j < i PROVE FALSE
    BY <1>3 DEF Failures
  <2>1. j \in 1..n /\ j \in 1..m /\ row2[j] # "ok"
    BY <1>3 DEF Failures
  <2>2. j \in Failures(row1)
    BY <2>1 DEF Failures
  <2> QED BY <1>2, <1>3, <2>1, <2>2
<1>6. ASSUME NEW S \in SUBSET (1..n), i \in S, \A j \in S : i <= j
      PROVE  (CHOOSE k \in S : \A j \in S : k <= j) = i
  <2> DEFINE least == CHOOSE k \in S : \A j \in S : k <= j
  <2>1. least \in S /\ \A j \in S : least <= j
    BY <1>6
  <2> HIDE DEF least
  <2>2. least \in 1..n /\ i \in 1..n /\ least <= i /\ i <= least
    BY <1>6, <2>1
  <2>3. least = i
    BY <2>2
  <2> QED BY <2>3 DEF least
<1>7. Failures(row1) \in SUBSET (1..n) /\ Failures(row2) \in SUBSET (1..n)
  BY DEF Failures
<1>8. FirstFailure(row1) = row1[i] /\ FirstFailure(row2) = row2[i]
  BY <1>1, <1>2, <1>4, <1>5, <1>6, <1>7 DEF FirstFailure
<1> QED BY <1>3, <1>8
=============================================================================
