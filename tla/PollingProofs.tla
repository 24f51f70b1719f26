--------------------------- MODULE PollingProofs ----------------------------
(***************************************************************************)
(* Proofs about Polling, for every base, maximum and multiplier. The limit *)
(* of an interval is applied after the conversion of a product to a        *)
(* Duration: after a failure no interval is longer than the maximum, but   *)
(* it may be none at all, when the maximum is not positive or when the     *)
(* product does not fit any more.                                          *)
(*                                                                         *)
(* Induction over numbers comes from the least element that every set of   *)
(* numbers has: a set instead of a predicate, which the provers can take.  *)
(***************************************************************************)
EXTENDS Polling, WellFoundedInduction, TLAPS

LEMMA LeastNumber ==
  ASSUME NEW T \in SUBSET Nat, T # {}
  PROVE  \E x \in T : \A y \in T : x <= y
<1> DEFINE R == OpToRel(<, Nat)
<1>1. IsWellFoundedOn(R, Nat)
  BY NatLessThanWellFounded, Zenon
<1>2. \A x, y \in Nat : y < x => <<y, x>> \in R
  BY DEF OpToRel
<1> HIDE DEF R
<1>3. PICK x \in T : \A y \in T : ~(<<y, x>> \in R)
  BY <1>1, WFMin
<1>4. \A y \in T : x <= y
  <2> TAKE y \in T
  <2>1. x \in Nat /\ y \in Nat
    OBVIOUS
  <2>2. ~(y < x)
    BY <1>2, <1>3, <2>1
  <2>3. QED BY <2>1, <2>2
<1>5. QED BY <1>4

LEMMA SetInduction ==
  ASSUME NEW T, 0 \in T, \A n \in Nat : n \in T => n + 1 \in T
  PROVE  \A n \in Nat : n \in T
<1> SUFFICES ASSUME NEW n \in Nat, n \notin T PROVE FALSE
  OBVIOUS
<1>1. PICK x \in Nat \ T : \A y \in Nat \ T : x <= y
  <2>1. (Nat \ T) \in SUBSET Nat /\ (Nat \ T) # {}
    OBVIOUS
  <2>2. QED BY <2>1, LeastNumber
<1>2. x # 0 /\ x \in Nat
  BY <1>1
<1>3. x - 1 \in Nat /\ ~(x <= x - 1) /\ (x - 1) + 1 = x
  BY <1>2
<1>4. x - 1 \in T
  BY <1>1, <1>3
<1>5. QED BY <1>1, <1>3, <1>4
-----------------------------------------------------------------------------
(* What powers are: their recursive definitions have solutions              *)

(* g has the first n + 1 powers of b.                                      *)
IsPower(b, g, n) ==
  /\ g \in [0 .. n -> Nat]
  /\ g[0] = 1
  /\ \A k \in 1 .. n : g[k] = b * g[k - 1]

LEMMA PowerExists == ASSUME NEW b \in Nat PROVE \A n \in Nat : \E g : IsPower(b, g, n)
<1> DEFINE T == {n \in Nat : \E g : IsPower(b, g, n)}
<1>1. 0 \in T
  <2>1. IsPower(b, [k \in 0 .. 0 |-> 1], 0)
    BY DEF IsPower
  <2>2. QED BY <2>1
<1>2. ASSUME NEW n \in Nat, n \in T PROVE n + 1 \in T
  <2>1. PICK g : IsPower(b, g, n)
    BY <1>2
  <2> DEFINE h == [k \in 0 .. n + 1 |-> IF k = n + 1 THEN b * g[n] ELSE g[k]]
  <2>2. /\ g \in [0 .. n -> Nat] /\ g[0] = 1
        /\ \A k \in 1 .. n : g[k] = b * g[k - 1]
    BY <2>1 DEF IsPower
  <2>3. b * g[n] \in Nat
    BY <2>2
  <2>4. h \in [0 .. n + 1 -> Nat]
    BY <2>2, <2>3
  <2>5. h[0] = 1
    BY <2>2
  <2>6. ASSUME NEW k \in 1 .. n + 1 PROVE h[k] = b * h[k - 1]
    <3>1. CASE k = n + 1
      <4>1. h[k] = b * g[n] /\ h[k - 1] = g[n]
        BY <3>1
      <4>2. QED BY <4>1
    <3>2. CASE k # n + 1
      <4>1. k \in 1 .. n /\ h[k] = g[k] /\ h[k - 1] = g[k - 1]
        BY <3>2
      <4>2. QED BY <2>2, <4>1
    <3>3. QED BY <3>1, <3>2
  <2> HIDE DEF h
  <2>7. IsPower(b, h, n + 1)
    BY <2>4, <2>5, <2>6 DEF IsPower
  <2>8. QED BY <2>7
<1> HIDE DEF T
<1>3. \A n \in Nat : n \in T
  BY <1>1, <1>2, SetInduction
<1>4. QED BY <1>3 DEF T

LEMMA PowerUnique ==
  ASSUME NEW b \in Nat, NEW n \in Nat, NEW g, IsPower(b, g, n),
         NEW k \in Nat, NEW h, IsPower(b, h, k)
  PROVE  \A i \in Nat : i <= n /\ i <= k => g[i] = h[i]
<1> DEFINE T == {i \in Nat : i <= n /\ i <= k => g[i] = h[i]}
<1>1. 0 \in T
  BY DEF IsPower
<1>2. ASSUME NEW i \in Nat, i \in T PROVE i + 1 \in T
  <2> SUFFICES ASSUME i + 1 <= n, i + 1 <= k PROVE g[i + 1] = h[i + 1]
    OBVIOUS
  <2>1. g[i] = h[i]
    BY <1>2
  <2>2. g[i + 1] = b * g[i] /\ h[i + 1] = b * h[i]
    <3>1. i + 1 \in 1 .. n /\ i + 1 \in 1 .. k /\ (i + 1) - 1 = i
      OBVIOUS
    <3>2. QED BY <3>1 DEF IsPower
  <2>3. QED BY <2>1, <2>2
<1> HIDE DEF T
<1>3. \A i \in Nat : i \in T
  BY <1>1, <1>2, SetInduction
<1>4. QED BY <1>3 DEF T

LEMMA PowerSolution ==
  ASSUME NEW b \in Nat
  PROVE  \E F : F = [n \in Nat |-> IF n = 0 THEN 1 ELSE b * F[n - 1]]
<1> DEFINE P(n) == CHOOSE g : IsPower(b, g, n)
           F == [n \in Nat |-> P(n)[n]]
<1>1. \A n \in Nat : IsPower(b, P(n), n)
  BY PowerExists
<1>2. ASSUME NEW n \in Nat
      PROVE  F[n] = IF n = 0 THEN 1 ELSE b * F[n - 1]
  <2>1. CASE n = 0
    <3>1. P(0)[0] = 1
      BY <1>1 DEF IsPower
    <3>2. QED BY <2>1, <3>1
  <2>2. CASE n # 0
    <3>1. n - 1 \in Nat /\ n \in 1 .. n
      BY <2>2
    <3> HIDE DEF P
    <3>2. P(n)[n] = b * P(n)[n - 1]
      BY <1>1, <3>1 DEF IsPower
    <3>3. P(n)[n - 1] = P(n - 1)[n - 1]
      <4>1. IsPower(b, P(n), n) /\ IsPower(b, P(n - 1), n - 1) /\ n - 1 <= n /\ n - 1 <= n - 1
        BY <1>1, <3>1
      <4>2. QED BY <3>1, <4>1, PowerUnique
    <3>4. QED BY <2>2, <3>1, <3>2, <3>3
  <2>3. QED BY <2>1, <2>2
<1> HIDE DEF P
<1>3. F = [n \in Nat |-> IF n = 0 THEN 1 ELSE b * F[n - 1]]
  BY <1>2
<1>4. QED BY <1>3

(* A multiplier is more than 1.                                            *)
LEMMA MultiplierType == num \in Nat /\ den \in Nat \ {0} /\ den <= num
BY PollingAssumption DEF num, den

LEMMA NumPowerDef ==
  \A n \in Nat : NumPower[n] = IF n = 0 THEN 1 ELSE num * NumPower[n - 1]
<1>1. NumPower = CHOOSE g : g = [n \in Nat |-> IF n = 0 THEN 1 ELSE num * g[n - 1]]
  BY DEF NumPower
<1>2. \E g : g = [n \in Nat |-> IF n = 0 THEN 1 ELSE num * g[n - 1]]
  BY MultiplierType, PowerSolution
<1>3. NumPower = [n \in Nat |-> IF n = 0 THEN 1 ELSE num * NumPower[n - 1]]
  BY <1>1, <1>2
<1>4. QED BY <1>3

LEMMA DenPowerDef ==
  \A n \in Nat : DenPower[n] = IF n = 0 THEN 1 ELSE den * DenPower[n - 1]
<1>1. DenPower = CHOOSE g : g = [n \in Nat |-> IF n = 0 THEN 1 ELSE den * g[n - 1]]
  BY DEF DenPower
<1>2. \E g : g = [n \in Nat |-> IF n = 0 THEN 1 ELSE den * g[n - 1]]
  BY MultiplierType, PowerSolution
<1>3. DenPower = [n \in Nat |-> IF n = 0 THEN 1 ELSE den * DenPower[n - 1]]
  BY <1>1, <1>2
<1>4. QED BY <1>3

(* The power of a multiplier of more than 1 is at least 1.                 *)
LEMMA PowersType ==
  \A n \in Nat : /\ NumPower[n] \in Nat /\ DenPower[n] \in Nat \ {0}
                 /\ DenPower[n] <= NumPower[n]
<1> DEFINE T == {n \in Nat : /\ NumPower[n] \in Nat /\ DenPower[n] \in Nat \ {0}
                             /\ DenPower[n] <= NumPower[n]}
<1>1. 0 \in T
  BY NumPowerDef, DenPowerDef
<1>2. ASSUME NEW n \in Nat, n \in T PROVE n + 1 \in T
  <2> DEFINE p == NumPower[n]
             q == DenPower[n]
  <2>1. NumPower[n + 1] = num * p /\ DenPower[n + 1] = den * q
    <3>1. n + 1 \in Nat /\ n + 1 # 0 /\ (n + 1) - 1 = n
      OBVIOUS
    <3>2. QED BY <3>1, NumPowerDef, DenPowerDef
  <2>2. p \in Nat /\ q \in Nat \ {0} /\ q <= p
    BY <1>2
  <2> HIDE DEF p, q
  <2>3. den * q \in Nat \ {0} /\ num * p \in Nat
    BY <2>2, MultiplierType
  <2>4. den * q <= num * q /\ num * q <= num * p
    BY <2>2, MultiplierType
  <2>5. num * q \in Nat
    BY <2>2, MultiplierType
  <2>6. den * q <= num * p
    BY <2>3, <2>4, <2>5
  <2>7. QED BY <2>1, <2>3, <2>6
<1> HIDE DEF T
<1>3. \A n \in Nat : n \in T
  BY <1>1, <1>2, SetInduction
<1>4. QED BY <1>3 DEF T

LEMMA QuotientPositive ==
  ASSUME NEW x \in Nat, NEW y \in Nat \ {0}, y <= x
  PROVE  x \div y \in Nat \ {0}
OBVIOUS

(* After any number of failures there is something to wait for.            *)
LEMMA ProductType == ASSUME NEW n \in Nat PROVE Product(n) \in Nat \ {0}
<1> DEFINE p == NumPower[n]
           q == DenPower[n]
<1>1. p \in Nat /\ q \in Nat \ {0} /\ q <= p
  BY PowersType
<1>2. Product(n) = (Base * p) \div q
  BY DEF Product
<1> HIDE DEF p, q
<1>3. Base * p \in Nat /\ p <= Base * p
  BY <1>1, PollingAssumption
<1>4. q <= Base * p
  BY <1>1, <1>3
<1>5. QED BY <1>1, <1>2, <1>3, <1>4, QuotientPositive
-----------------------------------------------------------------------------
(* The interval of the ticker                                              *)

(* What a Duration is limited and set to.                                  *)
SetTo(d) == IF Limited(d) <= 0 THEN 0 ELSE Limited(d)

LEMMA DurationType == ASSUME NEW x \in Int PROVE Duration(x) \subseteq Int
BY PollingAssumption DEF Duration

(* After a success, or with a fixed interval, the ticker is at the base    *)
(* interval, whatever the maximum is. After failures it is within the      *)
(* maximum, or it is refused and the process ends.                         *)
PaceOK ==
  /\ backoff \in 0 .. MaxBackoff
  /\ backoff = 0 => interval = Base
  /\ backoff # 0 => interval \in {0} \cup 1 .. MaxInterval

(* The failures in a row are so many that the product is no Duration.      *)
Overflow == backoff # 0 /\ Product(backoff - 1) > MaxDuration

(* There is an interval to wait for, at most the maximum after a failure.  *)
Bounded == interval # 0 /\ (backoff # 0 => interval \in 1 .. MaxInterval)

LEMMA PaceAfterSuccess == ASSUME IntervalAfterSuccess PROVE PaceOK' /\ interval' = Base
BY PollingAssumption DEF PaceOK, IntervalAfterSuccess, Reset

(* After a failure: the fixed interval, or a product that is limited.      *)
LEMMA FailureInterval ==
  ASSUME IntervalAfterFailure, PaceOK
  PROVE  \/ backoff' = 0 /\ interval' = Base
         \/ /\ backoff' \in 1 .. MaxBackoff
            /\ Product(backoff' - 1) \in Nat \ {0}
            /\ \E d \in Duration(Product(backoff' - 1)) : interval' = SetTo(d)
<1>1. CASE Backoff = "off"
  BY <1>1, PollingAssumption DEF IntervalAfterFailure, Reset
<1>2. CASE Backoff # "off"
  <2>1. backoff' \in 1 .. MaxBackoff
    <3>1. backoff' = IF backoff < MaxBackoff THEN backoff + 1 ELSE backoff
      BY <1>2 DEF IntervalAfterFailure
    <3>2. QED BY <3>1, PollingAssumption DEF PaceOK
  <2>2. \E d \in Duration(Product(backoff' - 1)) : interval' = SetTo(d)
    BY <1>2 DEF IntervalAfterFailure, Reset, SetTo
  <2>3. Product(backoff' - 1) \in Nat \ {0}
    <3>1. \A n \in 1 .. MaxBackoff : n - 1 \in Nat
      BY PollingAssumption
    <3>2. backoff' - 1 \in Nat
      BY <2>1, <3>1
    <3>3. QED BY <3>2, ProductType
  <2>4. QED BY <2>1, <2>2, <2>3
<1>3. QED BY <1>1, <1>2

LEMMA SetToBounds ==
  ASSUME NEW d \in Int
  PROVE  /\ SetTo(d) \in {0} \cup 1 .. MaxInterval
         /\ d > 0 /\ MaxInterval > 0 => SetTo(d) \in 1 .. MaxInterval
BY PollingAssumption DEF SetTo, Limited

LEMMA PaceAfterFailure == ASSUME IntervalAfterFailure, PaceOK PROVE PaceOK'
<1>1. CASE backoff' = 0 /\ interval' = Base
  BY <1>1, PollingAssumption DEF PaceOK
<1>2. CASE /\ backoff' \in 1 .. MaxBackoff
           /\ Product(backoff' - 1) \in Nat \ {0}
           /\ \E d \in Duration(Product(backoff' - 1)) : interval' = SetTo(d)
  <2>1. PICK d \in Duration(Product(backoff' - 1)) : interval' = SetTo(d)
    BY <1>2
  <2>2. d \in Int
    BY <1>2, <2>1, DurationType
  <2>3. QED BY <1>2, <2>1, <2>2, SetToBounds, PollingAssumption DEF PaceOK
<1>3. QED BY <1>1, <1>2, FailureInterval

(* After any number of failures in a row, whatever the conversion of a     *)
(* product yields and whatever is configured, the ticker is set to nothing *)
(* longer than the maximum interval: it is within it, or it is refused.    *)
(* The base interval, after a success, has no limit, and a maximum of zero *)
(* or less is refused at the first failure (strategy.go:50-81).            *)
THEOREM NeverBeyondMaximum == PollSpec => []PaceOK
<1>1. PollInit => PaceOK
  BY PollingAssumption DEF PollInit, PaceOK
<1>2. PaceOK /\ [Poll]_pollVars => PaceOK'
  <2>1. CASE Poll
    BY <2>1, PaceAfterSuccess, PaceAfterFailure DEF Poll
  <2>2. CASE UNCHANGED pollVars
    BY <2>2 DEF pollVars, PaceOK
  <2>3. QED BY <2>1, <2>2
<1>3. QED BY <1>1, <1>2, PTL DEF PollSpec

LEMMA BoundedAfterFailure ==
  ASSUME IntervalAfterFailure, PaceOK, MaxInterval > 0
  PROVE  Bounded' \/ Overflow'
<1>1. CASE backoff' = 0 /\ interval' = Base
  BY <1>1, PollingAssumption DEF Bounded
<1>2. CASE /\ backoff' \in 1 .. MaxBackoff
           /\ Product(backoff' - 1) \in Nat \ {0}
           /\ \E d \in Duration(Product(backoff' - 1)) : interval' = SetTo(d)
  <2> DEFINE x == Product(backoff' - 1)
  <2>1. CASE x > MaxDuration
    BY <1>2, <2>1, PollingAssumption DEF Overflow, Product
  <2>2. CASE x <= MaxDuration
    <3>1. interval' = SetTo(x) /\ x \in Nat \ {0}
      BY <1>2, <2>2 DEF Duration
    <3> HIDE DEF x
    <3>2. SetTo(x) \in 1 .. MaxInterval
      BY <3>1, SetToBounds
    <3>3. QED BY <3>1, <3>2, PollingAssumption DEF Bounded
  <2>3. x \in Int /\ MaxDuration \in Int
    BY <1>2, PollingAssumption
  <2> HIDE DEF x
  <2>4. QED BY <2>1, <2>2, <2>3
<1>3. QED BY <1>1, <1>2, FailureInterval

(* With a maximum that is at least the base interval, which nothing checks *)
(* (config.go:131-175), the ticker is within the maximum at all times but  *)
(* after so many failures in a row that the product is no Duration: with   *)
(* that condition "최대 간격 제한" (strategy.go:69) holds.                 *)
THEOREM WithinMaximumUntilOverflow ==
  Base <= MaxInterval => (PollSpec => [](WithinMaxInterval \/ Overflow))
<1> SUFFICES ASSUME Base <= MaxInterval PROVE PollSpec => [](WithinMaxInterval \/ Overflow)
  OBVIOUS
<1>1. MaxInterval > 0
  BY PollingAssumption
<1> DEFINE Inv == PaceOK /\ (Bounded \/ Overflow)
<1>2. PollInit => Inv
  BY PollingAssumption DEF PollInit, PaceOK, Bounded
<1>3. Inv /\ [Poll]_pollVars => Inv'
  <2> SUFFICES ASSUME Inv, [Poll]_pollVars PROVE Inv'
    OBVIOUS
  <2>1. CASE IntervalAfterSuccess
    <3>1. PaceOK' /\ interval' = Base /\ backoff' = 0
      BY <2>1, PaceAfterSuccess DEF IntervalAfterSuccess
    <3>2. QED BY <3>1, PollingAssumption DEF Bounded
  <2>2. CASE IntervalAfterFailure
    BY <1>1, <2>2, PaceAfterFailure, BoundedAfterFailure
  <2>3. CASE UNCHANGED pollVars
    BY <2>3 DEF pollVars, PaceOK, Bounded, Overflow, Product
  <2>4. QED BY <2>1, <2>2, <2>3 DEF Poll
<1>4. Inv => WithinMaxInterval \/ Overflow
  BY PollingAssumption DEF PaceOK, Bounded, WithinMaxInterval
<1>5. QED BY <1>2, <1>3, <1>4, PTL DEF PollSpec
=============================================================================
