---------------------------- MODULE BillingProofs ----------------------------
(***************************************************************************)
(* Theorems about what accounts are charged: StorageMeter, for every daily *)
(* rate and every jitter of the metering loop, InferencePricing, for all   *)
(* token counts, models, clients and spellings, and GpuRates, for machines *)
(* and requests of any size and cards spelled in any way.                  *)
(***************************************************************************)
EXTENDS BillingAccount, FoldLemmas

-----------------------------------------------------------------------------
\* The metering of storage.

\* The rounded charge is within half a unit of the exact one.
LEMMA RoundIsNear ==
    ASSUME NEW n \in Nat
    PROVE  /\ Round(n, 1440) \in Nat
           /\ 2 * (1440 * Round(n, 1440)) - 2 * n <= 1440
           /\ 2 * n - 2 * (1440 * Round(n, 1440)) <= 1440
<1> DEFINE q == n \div 1440
           r == n % 1440
<1>1. q \in Nat /\ r \in 0..1439 /\ n = 1440 * q + r
  OBVIOUS
<1> HIDE DEF q, r
<1>2. CASE Round(n, 1440) = q /\ 2 * r <= 1440
  BY <1>1, <1>2
<1>3. CASE Round(n, 1440) = q + 1 /\ 2 * r >= 1440
  BY <1>1, <1>3
<1>4. \/ Round(n, 1440) = q /\ 2 * r <= 1440
      \/ Round(n, 1440) = q + 1 /\ 2 * r >= 1440
  <2>1. Round(n, 1440) = IF 2 * r < 1440 \/ (2 * r = 1440 /\ q % 2 = 0) THEN q ELSE q + 1
    BY DEF Round, q, r
  <2> QED
    BY <1>1, <2>1
<1> QED
  BY <1>2, <1>3, <1>4

LEMMA ChargeType ==
    ASSUME NEW c \in Nat
    PROVE  /\ storage_mcents_per_minute(c) \in Nat
           /\ 2 * (1440 * storage_mcents_per_minute(c)) - 2 * (c * 1000) <= 1440
           /\ 2 * (c * 1000) - 2 * (1440 * storage_mcents_per_minute(c)) <= 1440
<1>1. c * 1000 \in Nat
  OBVIOUS
<1> QED
  BY <1>1, RoundIsNear DEF storage_mcents_per_minute, _MINUTES_PER_DAY

MeterInv == TypeOK /\ Conserved

\* A tick splits what is due into whole cents and a remainder.
LEMMA Split ==
    ASSUME NEW n \in Nat
    PROVE  \E q \in Nat, r \in 0..999 : n \div 1000 = q /\ n % 1000 = r /\ n = 1000 * q + r
<1> DEFINE q == n \div 1000
           r == n % 1000
<1>1. q \in Nat /\ r \in 0..999 /\ n = 1000 * q + r
  OBVIOUS
<1>2. n \div 1000 = q /\ n % 1000 = r
  OBVIOUS
<1> HIDE DEF q, r
<1> QED
  BY <1>1, <1>2

LEMMA TickStep ==
    ASSUME MeterInv, Tick
    PROVE  MeterInv'
<1> DEFINE m == storage_mcents_per_minute(cents_per_day)
<1>1. /\ cents_per_day \in Rates /\ cents_per_day \in Nat
      /\ minutes \in Nat /\ debited \in Nat /\ remainder \in Nat
      /\ 1000 * debited + remainder = minutes * m
  BY MeterAssumption DEF MeterInv, TypeOK, Conserved
<1>2. PICK gap \in 1..MaxGap :
        /\ minutes' = minutes + gap
        /\ debited' = debited + (remainder + gap * m) \div 1000
        /\ remainder' = (remainder + gap * m) % 1000
  BY DEF Tick
<1>3. cents_per_day' = cents_per_day
  BY DEF Tick
<1>4. m \in Nat
  BY <1>1, ChargeType
<1> HIDE DEF m
<1>5. gap \in Nat /\ gap * m \in Nat /\ remainder + gap * m \in Nat
  BY <1>1, <1>4, MeterAssumption
<1>6. (minutes + gap) * m = minutes * m + gap * m
  BY <1>1, <1>4, <1>5
<1>7. /\ debited' \in Nat /\ remainder' \in 0..999
      /\ 1000 * debited' + remainder' = 1000 * debited + (remainder + gap * m)
  <2> DEFINE d == remainder + gap * m
  <2>1. d \in Nat
    BY <1>5
  <2> HIDE DEF d
  <2>2. PICK q \in Nat, r \in 0..999 : d \div 1000 = q /\ d % 1000 = r /\ d = 1000 * q + r
    BY <2>1, Split
  <2>3. debited' = debited + q /\ remainder' = r
    BY <1>2, <2>2 DEF d
  <2>4. 1000 * debited' + remainder' = 1000 * debited + d
    BY <1>1, <2>2, <2>3
  <2> QED
    BY <1>1, <2>2, <2>3, <2>4 DEF d
<1>8. TypeOK'
  BY <1>1, <1>2, <1>3, <1>5, <1>7 DEF TypeOK
<1>9. 1000 * debited' + remainder' = minutes' * m
  BY <1>1, <1>2, <1>4, <1>5, <1>6, <1>7
<1> QED
  BY <1>3, <1>8, <1>9 DEF MeterInv, Conserved, m

\* The metering loop neither loses nor repeats a charge.
THEOREM MeterConserves == Spec => []MeterInv
<1>1. Init => MeterInv
  <2> SUFFICES ASSUME Init PROVE MeterInv
    OBVIOUS
  <2>1. cents_per_day \in Nat /\ minutes = 0 /\ debited = 0 /\ remainder = 0
    BY MeterAssumption DEF Init
  <2>2. storage_mcents_per_minute(cents_per_day) \in Nat
    BY <2>1, ChargeType
  <2> QED
    BY <2>1, <2>2 DEF Init, MeterInv, TypeOK, Conserved
<1>2. MeterInv /\ [Next]_vars => MeterInv'
  <2> SUFFICES ASSUME MeterInv, [Next]_vars PROVE MeterInv'
    OBVIOUS
  <2>1. CASE UNCHANGED vars
    BY <2>1 DEF vars, MeterInv, TypeOK, Conserved
  <2> QED
    BY <2>1, TickStep DEF Next
<1> QED
  BY <1>1, <1>2, PTL DEF Spec

\* Rounding the charge to whole millicents costs or gains at most half a
\* millicent per minute, for every rate: it does not build up any faster.
THEOREM MeterDrifts == Spec => []DriftBounded
<1>1. MeterInv => DriftBounded
  <2> SUFFICES ASSUME MeterInv PROVE DriftBounded
    OBVIOUS
  <2> DEFINE m == storage_mcents_per_minute(cents_per_day)
             accrued == 1000 * debited + remainder
             e == 2 * (1440 * m) - 2 * (cents_per_day * 1000)
  <2>1. cents_per_day \in Nat /\ minutes \in Nat /\ accrued = minutes * m
    BY MeterAssumption DEF MeterInv, TypeOK, Conserved
  <2>2. m \in Nat /\ e <= 1440 /\ -1440 <= e /\ e \in Int
    <3>1. m \in Nat /\ 2 * (1440 * m) - 2 * (cents_per_day * 1000) <= 1440
          /\ 2 * (cents_per_day * 1000) - 2 * (1440 * m) <= 1440
      BY <2>1, ChargeType
    <3> HIDE DEF m
    <3> QED
      BY <2>1, <3>1
  <2> HIDE DEF m
  <2>3. 2 * (1440 * accrued) - 2 * (minutes * cents_per_day * 1000) = minutes * e
    <3> DEFINE x == minutes * m
               y == minutes * cents_per_day
    <3>1. minutes * e = minutes * (2880 * m) - minutes * (2000 * cents_per_day)
      BY <2>1, <2>2
    <3>2. minutes * (2880 * m) = 2880 * x
      BY <2>1, <2>2
    <3>3. minutes * (2000 * cents_per_day) = 2000 * y
      BY <2>1
    <3>4. x \in Nat /\ y \in Nat /\ accrued = x
      BY <2>1, <2>2
    <3>5. minutes * cents_per_day * 1000 = 1000 * y
      BY <2>1
    <3> HIDE DEF x, y
    <3> QED
      BY <3>1, <3>2, <3>3, <3>4, <3>5
  <2> HIDE DEF e, accrued
  <2>4. minutes * e <= 1440 * minutes /\ -(1440 * minutes) <= minutes * e
    BY <2>1, <2>2
  <2>5. minutes * e \in Int /\ 1440 * minutes \in Int
    BY <2>1, <2>2
  <2> QED
    BY <2>3, <2>4, <2>5 DEF DriftBounded, accrued
<1> QED
  BY <1>1, MeterConserves, PTL

\* The remainder on a pod's row stays below a cent, and debits are whole cents.
THEOREM MeterTypeCorrect == Spec => []TypeOK
<1>1. MeterInv => TypeOK
  BY DEF MeterInv
<1> QED
  BY <1>1, MeterConserves, PTL

-----------------------------------------------------------------------------
\* The settlement of completions.

\* Rounding half up strays by half a cent at most.
LEMMA HalfUpIsNear ==
    ASSUME NEW n \in Nat
    PROVE  /\ HalfUp(n) \in Nat
           /\ 2 * Million * HalfUp(n) + Million >= 2 * n
           /\ 2 * Million * HalfUp(n) <= 2 * n + Million
<1> DEFINE s == n + 500000
           q == s \div 1000000
<1>1. s \in Nat
  BY SMT
<1>2. HalfUp(n) = q
  BY SMT DEF HalfUp
<1> HIDE DEF s
<1>3. q \in Nat /\ 1000000 * q <= s /\ s < 1000000 * q + 1000000
  BY <1>1, SMT
<1> HIDE DEF q
<1>4. s = n + 500000
  BY SMT DEF s
<1> QED
  BY <1>2, <1>3, <1>4, SMT DEF Million

\* The price of a completion, between the minimum and a cent above its work.
LEMMA CostBounds ==
    ASSUME NEW p, NEW c, NEW model, Millionths(p, c, model) \in Nat
    PROVE  /\ inference_cost_cents(p, c, model) \in Nat
           /\ inference_cost_cents(p, c, model) >= 1
           /\ 2 * Million * inference_cost_cents(p, c, model) + Million >= 2 * Millionths(p, c, model)
           /\ Million * inference_cost_cents(p, c, model) <= Millionths(p, c, model) + Million
<1> DEFINE n == Millionths(p, c, model)
           h == HalfUp(n)
<1>1. n \in Nat
  OBVIOUS
<1>2. h \in Nat /\ 2 * Million * h + Million >= 2 * n /\ 2 * Million * h <= 2 * n + Million
  BY <1>1, HalfUpIsNear
<1>3. inference_cost_cents(p, c, model) = IF h >= 1 THEN h ELSE 1
  BY DEF inference_cost_cents, INFERENCE_MIN_CHARGE_CENTS
<1> HIDE DEF n, h
<1> DEFINE cost == inference_cost_cents(p, c, model)
<1>4. (cost = h /\ h >= 1) \/ (cost = 1 /\ h = 0)
  BY <1>2, <1>3
<1> HIDE DEF cost
<1>5. cost \in Nat /\ cost >= 1 /\ 2 * Million * cost + Million >= 2 * n
      /\ Million * cost <= n + Million
  BY <1>1, <1>2, <1>4, SMT DEF Million
<1> QED
  BY <1>5 DEF cost, n

\* Words stay words in lower case.
LEMMA LowerCaseIs ==
    ASSUME NEW w \in Pieces
    PROVE  /\ LowerCase(w) = Slash <=> w = Slash
           /\ LowerCase(w) = Blank <=> w = Blank
  BY DEF Pieces, Names, Slash, Blank, LowerCase

\* What is left of a spelling without the blanks around it: it ends with the
\* word that says the model, and there is no word before where it begins.
LEMMA TrimmedIs ==
    ASSUME NEW W, NEW s \in Seq(W), NEW j \in 1..Len(s), s[j] # Blank,
           \A i \in (j + 1)..Len(s) : s[i] = Blank
    PROVE  \E a \in 1..j :
              /\ Trimmed(s) = SubSeq(s, a, j)
              /\ \A i \in 1..j : s[i] # Blank => a <= i
              /\ s[a] # Blank
<1> DEFINE n == Len(s)
           solid == {i \in 1..n : s[i] # Blank}
<1>1. n \in Nat /\ j \in 1..n /\ j \in solid /\ solid \subseteq 1..n
  OBVIOUS
<1>2. \A i \in solid : i <= j
  <2> SUFFICES ASSUME NEW i \in solid PROVE i <= j
    OBVIOUS
  <2>1. i \in 1..n /\ i \notin (j + 1)..n
    OBVIOUS
  <2> HIDE DEF n, solid
  <2> QED
    BY <1>1, <2>1
<1>3. Trimmed(s) = SubSeq(s, Min(solid), Max(solid))
  BY <1>1 DEF Trimmed
<1>4. \A i \in 1..j : i \in 1..n /\ (s[i] # Blank => i \in solid)
  OBVIOUS
<1>5. \A i \in solid : s[i] # Blank
  OBVIOUS
<1> HIDE DEF n, solid
<1>6. PICK a \in solid : \A i \in solid : a <= i
  <2>1. solid \subseteq Nat /\ solid # {}
    BY <1>1
  <2> QED
    BY <2>1, LeastExists
<1>7. Min(solid) = a
  <2>1. \A x \in solid : (\A y \in solid : x <= y) => x = a
    BY <1>1, <1>6
  <2> QED
    BY <1>6, <2>1 DEF Min
<1>8. Max(solid) = j
  <2>1. Max(solid) \in solid /\ \A i \in solid : i <= Max(solid)
    BY <1>1, MaxIsLast
  <2>2. Max(solid) \in 1..n /\ Max(solid) <= j /\ j <= Max(solid)
    BY <1>1, <1>2, <2>1
  <2> QED
    BY <1>1, <2>2
<1>9. a \in 1..j
  BY <1>1, <1>2, <1>6
<1> QED
  BY <1>3, <1>4, <1>5, <1>6, <1>7, <1>8, <1>9

\* A spelling that says a model is reduced to its id.
LEMMA SpelledIs ==
    ASSUME NEW s \in Seq(Pieces), NEW m \in Names, SpellsModel(s, m)
    PROVE  _normalize_model_id(s) = <<LowerCase(m)>>
<1> DEFINE W == Pieces
<1>1. PICK j \in 1..Len(s) :
         /\ LowerCase(s[j]) = LowerCase(m)
         /\ \A i \in (j + 1)..Len(s) : s[i] = Blank
         /\ (\A i \in 1..(j - 1) : s[i] = Blank) \/ (j > 1 /\ s[j - 1] = Slash)
  BY DEF SpellsModel
<1>2. \A w \in W : (LowerCase(w) = Slash <=> w = Slash) /\ (LowerCase(w) = Blank <=> w = Blank)
  BY LowerCaseIs
<1>3. m \in W /\ m # Slash /\ m # Blank
  BY DEF Pieces, Names, Slash, Blank
<1> HIDE DEF W
<1>4. s \in Seq(W) /\ Len(s) \in Nat /\ \A i \in 1..Len(s) : s[i] \in W
  BY DEF W
<1>5. s[j] # Slash /\ s[j] # Blank
  BY <1>1, <1>2, <1>3, <1>4
<1>6. PICK a \in 1..j : /\ Trimmed(s) = SubSeq(s, a, j)
                        /\ \A i \in 1..j : s[i] # Blank => a <= i
                        /\ s[a] # Blank
  BY <1>1, <1>4, <1>5, TrimmedIs
<1> DEFINE n == j - a + 1
           t == [i \in 1..n |-> LowerCase(s[a + i - 1])]
           slashes == {i \in 1..n : t[i] = Slash}
<1>7. a \in Nat /\ j \in Nat /\ 1 <= a /\ a <= j /\ j <= Len(s) /\ n \in Nat /\ n >= 1
  BY <1>4
<1>8. Len(SubSeq(s, a, j)) = n /\ \A i \in 1..n : SubSeq(s, a, j)[i] = s[a + i - 1]
  BY <1>4, <1>7
<1>9. [i \in 1..Len(Trimmed(s)) |-> LowerCase(Trimmed(s)[i])] = t
  BY <1>6, <1>8
<1>10. \A i \in 1..n : a + i - 1 \in 1..Len(s)
  BY <1>4, <1>7
<1>11. \A i \in 1..n : t[i] = LowerCase(s[a + i - 1]) /\ (t[i] = Slash <=> s[a + i - 1] = Slash)
  BY <1>2, <1>4, <1>10
<1>12. t \in Seq({LowerCase(w) : w \in W}) /\ Len(t) = n
  BY <1>4, <1>7, <1>10
<1>13. _normalize_model_id(s) = IF slashes = {} THEN t ELSE SubSeq(t, Max(slashes) + 1, n)
  BY <1>9, <1>12 DEF _normalize_model_id, LastPart
<1>14. n \in 1..n /\ a + n - 1 = j
  BY <1>7
<1>15. t[n] = LowerCase(m) /\ t[n] # Slash
  BY <1>1, <1>5, <1>11, <1>14
<1> HIDE DEF t
<1>16. slashes \subseteq 1..n /\ n \notin slashes /\ \A i \in 1..n : i \in slashes <=> t[i] = Slash
  BY <1>15
<1> HIDE DEF slashes
<1>17. CASE a = j
  <2>1. n = 1
    BY <1>7, <1>17
  <2>2. slashes = {}
    BY <1>16, <2>1
  <2>3. t = <<t[1]>>
    BY <1>12, <2>1
  <2> QED
    BY <1>13, <1>15, <2>1, <2>2, <2>3
<1>18. CASE a # j
  <2>1. j - 1 \in 1..j /\ j - 1 \in 1..(j - 1) /\ a \in 1..(j - 1)
    BY <1>7, <1>18
  <2>2. s[j - 1] = Slash
    <3>1. s[a] # Blank
      BY <1>6
    <3>2. a \in 1..(j - 1)
      BY <2>1
    <3> QED
      BY <1>1, <3>1, <3>2, Zenon
  <2>3. n - 1 \in 1..n /\ a + (n - 1) - 1 = j - 1
    BY <1>7, <2>1
  <2> HIDE DEF n
  <2>4. n - 1 \in slashes
    BY <1>11, <1>16, <2>2, <2>3
  <2>5. Max(slashes) = n - 1
    <3>1. Max(slashes) \in slashes /\ \A i \in slashes : i <= Max(slashes)
      BY <1>7, <1>16, <2>4, MaxIsLast
    <3>2. Max(slashes) \in 1..n /\ Max(slashes) # n /\ n - 1 <= Max(slashes)
      BY <1>16, <2>4, <3>1
    <3> QED
      BY <1>7, <3>2
  <2>6. SubSeq(t, n, n) = <<t[n]>>
    <3>1. Len(SubSeq(t, n, n)) = 1 /\ SubSeq(t, n, n)[1] = t[n]
      BY <1>7, <1>12
    <3>2. SubSeq(t, n, n) \in Seq({LowerCase(w) : w \in W})
      BY <1>7, <1>12
    <3> DEFINE u == SubSeq(t, n, n)
    <3> HIDE DEF u
    <3>3. Len(u) = 1 /\ u \in Seq({LowerCase(w) : w \in W}) => u = <<u[1]>>
      OBVIOUS
    <3> QED
      BY <3>1, <3>2, <3>3 DEF u
  <2>7. Max(slashes) + 1 = n /\ slashes # {}
    BY <1>7, <2>4, <2>5
  <2> QED
    BY <1>13, <1>15, <2>6, <2>7
<1> QED
  BY <1>17, <1>18

\* Every spelling of a model has the model's rates.
LEMMA SpelledRates ==
    ASSUME NEW k \in Spellers, NEW m \in Models
    PROVE  rates_for_model(Spelling[k][m]) = rates_for_model(<<m>>)
<1>1. m \in Names /\ Spelling[k][m] \in Seq(Pieces) /\ SpellsModel(Spelling[k][m], m)
  BY PricingAssumption DEF PricingAssumption, Spellers
<1>2. <<m>> \in Seq(Pieces) /\ SpellsModel(<<m>>, m)
  <2>1. <<m>> \in Seq(Pieces) /\ Len(<<m>>) = 1 /\ <<m>>[1] = m
    <3>1. m \in Pieces
      BY <1>1 DEF Pieces
    <3> QED
      BY <3>1
  <2>2. 1 \in 1..1 /\ 1..(1 - 1) = {} /\ (1 + 1)..1 = {}
    OBVIOUS
  <2> DEFINE s == <<m>>
  <2> HIDE DEF s
  <2>3. s[1] = m /\ Len(s) = 1
    BY <2>1 DEF s
  <2>4. SpellsModel(s, m)
    BY <2>2, <2>3 DEF SpellsModel
  <2> QED
    BY <2>1, <2>4 DEF s
<1>3. _normalize_model_id(Spelling[k][m]) = _normalize_model_id(<<m>>)
  BY <1>1, <1>2, SpelledIs
<1> QED
  BY <1>3 DEF rates_for_model

LEMMA WorkType ==
    ASSUME NEW p \in Nat, NEW c \in Nat, NEW model
    PROVE  Millionths(p, c, model) \in Nat
<1>1. rates_for_model(model) \in {<<20, 60>>, <<200, 1000>>, <<100, 500>>}
  BY DEF rates_for_model, DefaultRates, MODEL_RATE_CENTS_PER_MTOK
<1>2. rates_for_model(model)[1] \in Nat /\ rates_for_model(model)[2] \in Nat
  BY <1>1
<1> DEFINE a == rates_for_model(model)[1]
           b == rates_for_model(model)[2]
<1>3. Millionths(p, c, model) = p * a + c * b
  BY DEF Millionths
<1> HIDE DEF a, b
<1>4. a \in Nat /\ b \in Nat
  BY <1>2 DEF a, b
<1>5. p * a \in Nat /\ c * b \in Nat
  BY <1>4
<1> QED
  BY <1>3, <1>5

PricingInv ==
    /\ requests \in Nat /\ work \in Nat
    /\ owed \in [Clients -> Nat]
    /\ NeverUnderbilled /\ NeverOverbilled /\ SpellingsBillTheSame

LEMMA SettleStep ==
    ASSUME PricingInv, NEW p \in Prompts, NEW c \in Completions, NEW m \in Models, Settle(p, c, m)
    PROVE  PricingInv'
<1> DEFINE w == Millionths(p, c, <<m>>)
           cost(k) == inference_cost_cents(p, c, Spelling[k][m])
           price == inference_cost_cents(p, c, <<m>>)
<1>1. /\ requests' = requests + 1 /\ work' = work + w
      /\ owed' = [k \in Clients |-> owed[k] + cost(k)]
  BY DEF Settle
<1>2. requests \in Nat /\ work \in Nat /\ owed \in [Clients -> Nat]
  BY DEF PricingInv
<1>3. p \in Nat /\ c \in Nat
  BY PricingAssumption DEF PricingAssumption
<1>4. w \in Nat
  BY <1>3, WorkType
<1>5. price \in Nat /\ price >= 1 /\ 2 * Million * price + Million >= 2 * w
      /\ Million * price <= w + Million
  BY <1>4, CostBounds
<1>6. /\ \A k \in Clients : cost(k) \in Nat
      /\ \A k \in Spellers : k \in Clients /\ cost(k) = price
  <2>1. \A k \in Clients : cost(k) \in Nat
    BY <1>3, WorkType, CostBounds
  <2> QED
    BY <2>1, SpelledRates DEF inference_cost_cents, Millionths, Spellers
<1> HIDE DEF w, cost, price
<1>7. ASSUME NEW k \in Spellers
      PROVE  owed'[k] = owed[k] + price /\ owed[k] \in Nat
  BY <1>1, <1>2, <1>6
<1>8. requests' \in Nat /\ work' \in Nat
  BY <1>1, <1>2, <1>4
<1>9. owed' \in [Clients -> Nat]
  <2>1. \A k \in Clients : owed[k] + cost(k) \in Nat
    BY <1>2, <1>6
  <2> QED
    BY <1>1, <2>1
<1>10. NeverUnderbilled'
  <2> SUFFICES ASSUME NEW k \in Spellers
               PROVE  /\ 2 * Million * owed'[k] + Million * requests' >= 2 * work'
                      /\ owed'[k] >= requests'
    BY <1>8 DEF NeverUnderbilled, INFERENCE_MIN_CHARGE_CENTS
  <2>1. 2 * Million * owed[k] + Million * requests >= 2 * work /\ owed[k] >= 1 * requests
    BY DEF PricingInv, NeverUnderbilled, INFERENCE_MIN_CHARGE_CENTS
  <2> QED
    BY <1>1, <1>2, <1>4, <1>5, <1>7, <2>1, SMT DEF Million
<1>11. NeverOverbilled'
  <2> SUFFICES ASSUME NEW k \in Spellers
               PROVE  Million * owed'[k] <= work' + Million * requests'
    BY DEF NeverOverbilled
  <2>1. Million * owed[k] <= work + Million * requests
    BY DEF PricingInv, NeverOverbilled
  <2>2. owed'[k] = owed[k] + price /\ owed[k] \in Nat
    BY <1>7
  <2> QED
    BY <1>1, <1>2, <1>4, <1>5, <2>1, <2>2, SMTT(30) DEF Million
<1>12. SpellingsBillTheSame'
  <2> SUFFICES ASSUME NEW k \in Spellers, NEW l \in Spellers
               PROVE  owed'[k] = owed'[l]
    BY DEF SpellingsBillTheSame
  <2>1. owed[k] = owed[l]
    BY DEF PricingInv, SpellingsBillTheSame
  <2> QED
    BY <1>7, <2>1
<1> QED
  BY <1>8, <1>9, <1>10, <1>11, <1>12 DEF PricingInv

LEMMA PricingStep == PricingInv /\ [PricingNext]_pricing_vars => PricingInv'
<1> SUFFICES ASSUME PricingInv, [PricingNext]_pricing_vars PROVE PricingInv'
  OBVIOUS
<1>1. CASE UNCHANGED pricing_vars
  BY <1>1 DEF pricing_vars, PricingInv, NeverUnderbilled, NeverOverbilled, SpellingsBillTheSame
<1>2. CASE PricingNext
  <2>1. PICK p \in Prompts, c \in Completions, m \in Models : Settle(p, c, m)
    BY <1>2 DEF PricingNext
  <2> QED
    BY <2>1, SettleStep
<1> QED
  BY <1>1, <1>2

\* Prices stay within half a cent below and a cent above the work, completion
\* by completion, and do not depend on the spelling of the model.
THEOREM PricingIsFair == PricingSpec => []PricingInv
<1>1. PricingInit => PricingInv
  <2> SUFFICES ASSUME PricingInit PROVE PricingInv
    OBVIOUS
  <2>1. requests = 0 /\ work = 0 /\ owed = [k \in Clients |-> 0]
    BY DEF PricingInit
  <2>2. \A k \in Spellers : owed[k] = 0
    BY <2>1 DEF Spellers
  <2> QED
    BY <2>1, <2>2, SMT DEF PricingInv, NeverUnderbilled, NeverOverbilled,
                           SpellingsBillTheSame, INFERENCE_MIN_CHARGE_CENTS, Million
<1> QED
  BY <1>1, PricingStep, PTL DEF PricingSpec

\* A client cannot save more than half a cent per completion by the way it cuts
\* up its work.
THEOREM UnderbillingIsBounded == PricingSpec => []NeverUnderbilled
<1>1. PricingInv => NeverUnderbilled
  BY DEF PricingInv
<1> QED
  BY <1>1, PricingIsFair, PTL

\* Catalog id or repository name, in any letter case, with any owners and any
\* blanks around it: the same completions cost the same.
THEOREM SpellingsAgree == PricingSpec => []SpellingsBillTheSame
<1>1. PricingInv => SpellingsBillTheSame
  BY DEF PricingInv
<1> QED
  BY <1>1, PricingIsFair, PTL

\* However a client cuts up its work, the rounding and the minimum charge cost
\* it a cent per completion at most.
THEOREM OverbillingIsBounded == PricingSpec => []NeverOverbilled
<1>1. PricingInv => NeverOverbilled
  BY DEF PricingInv
<1> QED
  BY <1>1, PricingIsFair, PTL

-----------------------------------------------------------------------------
\* The rent of GPUs.

\* What spellings are made of.
Parts == Words \cup Separators

\* The positions of a spelling that count, and what they become.
Kept(raw) == {i \in 1..Len(raw) : raw[i] \notin Separators}
Lowered(raw) == [i \in 1..Len(raw) |-> Lower(raw[i])]

\* The normalised name is what these positions become, in order.
LEMMA KeyPicks ==
    ASSUME NEW raw \in Seq(Parts)
    PROVE  /\ \E at : Picks(_normalize_gpu_model(raw), at, Len(raw), Kept(raw), Lowered(raw))
           /\ _normalize_gpu_model(raw) \in Seq({Lower(raw[i]) : i \in 1..Len(raw)})
  <1> DEFINE n == Len(raw)
             T == {Lower(raw[i]) : i \in 1..n}
             P(h) == h = [S \in SUBSET DOMAIN raw |->
                            IF S = {} THEN <<>>
                            ELSE IF raw[Max(S)] \in Separators THEN h[S \ {Max(S)}]
                            ELSE Append(h[S \ {Max(S)}], Lower(raw[Max(S)]))]
             H == CHOOSE h : P(h)
  <1>1. n \in Nat /\ DOMAIN raw = 1..n /\ Lowered(raw) \in [1..n -> T]
    BY DEF Lowered
  <1>2. _normalize_gpu_model(raw) = H[1..n]
    <2>1. _normalize_gpu_model(raw) = H[DOMAIN raw]
      BY Zenon DEF _normalize_gpu_model, FoldLeft, MapThenFoldSet
    <2> QED
      BY <1>1, <2>1
  <1> HIDE DEF n, T, H
  <1>3. \A S \in SUBSET (1..n) : S # {} =>
            /\ raw[Max(S)] \in Separators <=> Max(S) \notin Kept(raw)
            /\ Lower(raw[Max(S)]) = Lowered(raw)[Max(S)]
    BY <1>1, MaxIsLast DEF Kept, Lowered, n
  <1>4. PICK h : Filters(h, n, Kept(raw), Lowered(raw))
    BY <1>1, FilterExists
  <1>5. P(h)
    BY <1>1, <1>3, <1>4 DEF Filters
  <1>6. P(H)
    BY <1>5 DEF H
  <1>7. Filters(H, n, Kept(raw), Lowered(raw))
    BY <1>1, <1>3, <1>6 DEF Filters
  <1>8. H[1..n] \in Seq(T) /\ \E at : Picks(H[1..n], at, n, Kept(raw), Lowered(raw))
    <2>1. n \in Nat /\ Lowered(raw) \in [1..n -> T]
      BY <1>1
    <2> QED
      BY <2>1, <1>7, FilterPicks, Zenon
  <1> QED
    BY <1>2, <1>8, Zenon DEF n, T

\* Only the words of a card become those of its entry in the price list.
LEMMA LowerIs ==
    ASSUME NEW w \in Parts
    PROVE  /\ Lower(w) = "rtx" <=> w \in {"rtx", "RTX", "Rtx"}
           /\ Lower(w) = "4090" <=> w = "4090"
           /\ Lower(w) = "5090" <=> w = "5090"
  BY DEF Parts, Words, Separators, Lower

\* A name that is normalised to a listed card spells it,
LEMMA KeySpells ==
    ASSUME NEW raw \in Seq(Parts), NEW number \in {"4090", "5090"},
           _normalize_gpu_model(raw) = <<"rtx", number>>
    PROVE  Spells(raw, number)
  <1>1. PICK at : Picks(<<"rtx", number>>, at, Len(raw), Kept(raw), Lowered(raw))
    BY KeyPicks
  <1>2. /\ at \in [1..2 -> 1..Len(raw)] /\ at[1] < at[2]
        /\ "rtx" = Lowered(raw)[at[1]] /\ number = Lowered(raw)[at[2]]
        /\ \A i \in 1..Len(raw) : i \in Kept(raw) => at[1] = i \/ at[2] = i
    BY <1>1 DEF Picks
  <1>3. at[1] \in 1..Len(raw) /\ at[2] \in 1..Len(raw)
    BY <1>2
  <1>4. raw[at[1]] \in {"rtx", "RTX", "Rtx"} /\ raw[at[2]] = number
    BY <1>2, <1>3, LowerIs DEF Lowered
  <1>5. \A k \in DOMAIN raw \ {at[1], at[2]} : raw[k] \in Separators
    BY <1>2 DEF Kept
  <1> QED
    BY <1>2, <1>3, <1>4, <1>5 DEF Spells

\* and one that spells a card is normalised to it.
LEMMA SpellsKey ==
    ASSUME NEW raw \in Seq(Parts), NEW number \in {"4090", "5090"}, Spells(raw, number)
    PROVE  _normalize_gpu_model(raw) = <<"rtx", number>>
  <1> DEFINE key == _normalize_gpu_model(raw)
             n == Len(raw)
  <1>1. PICK at : Picks(key, at, n, Kept(raw), Lowered(raw))
    BY KeyPicks
  <1>2. PICK T : key \in Seq(T)
    BY KeyPicks
  <1>3. PICK i \in DOMAIN raw, j \in DOMAIN raw :
          /\ i < j /\ raw[i] \in {"rtx", "RTX", "Rtx"} /\ raw[j] = number
          /\ \A k \in DOMAIN raw \ {i, j} : raw[k] \in Separators
    BY DEF Spells
  <1>4. i \in 1..n /\ j \in 1..n /\ n \in Nat
    BY <1>3
  <1>5. \A k \in 1..n : k \in Kept(raw) <=> k \in {i, j}
    <2>1. DOMAIN raw = 1..n
      OBVIOUS
    <2>2. raw[i] \notin Separators /\ raw[j] \notin Separators
      BY <1>3 DEF Separators
    <2> HIDE DEF n
    <2>3. \A k \in 1..n : raw[k] \in Separators <=> k \notin {i, j}
      BY <1>3, <1>4, <2>1, <2>2
    <2> QED
      BY <2>3 DEF Kept, n
  <1> HIDE DEF key, n
  <1>6. Len(key) \in Nat /\ \A k \in 1..Len(key) : at[k] \in {i, j}
    BY <1>1, <1>2, <1>5 DEF Picks
  <1>7. PICK a \in 1..Len(key) : at[a] = i
    BY <1>1, <1>4, <1>5 DEF Picks
  <1>8. PICK b \in 1..Len(key) : at[b] = j
    BY <1>1, <1>4, <1>5 DEF Picks
  <1>9. \A k, l \in 1..Len(key) : k < l => at[k] = i /\ at[l] = j
    <2> SUFFICES ASSUME NEW k \in 1..Len(key), NEW l \in 1..Len(key), k < l
                 PROVE  at[k] = i /\ at[l] = j
      OBVIOUS
    <2>1. at[k] < at[l]
      BY <1>1 DEF Picks
    <2> QED
      BY <1>3, <1>4, <1>6, <2>1
  <1>10. a < b
    <2>1. a # b
      BY <1>3, <1>4, <1>7, <1>8
    <2>2. ~(b < a)
      BY <1>3, <1>4, <1>7, <1>8, <1>9
    <2> QED
      BY <1>6, <2>1, <2>2
  <1>11. Len(key) = 2 /\ a = 1 /\ b = 2
    <2>1. a = 1
      <3>1. a > 1 => 1 \in 1..Len(key) /\ 1 < a
        BY <1>6
      <3> QED
        BY <1>3, <1>4, <1>6, <1>7, <1>9, <3>1
    <2>2. b = 2
      <3>1. b > 2 => 2 \in 1..Len(key) /\ 1 < 2 /\ 2 < b
        BY <1>6
      <3>2. b > 2 => at[2] = j /\ at[2] = i
        BY <1>6, <1>9, <2>1, <3>1
      <3> QED
        BY <1>3, <1>4, <1>6, <1>10, <2>1, <3>2
    <2>3. Len(key) = 2
      <3>1. Len(key) > 2 => 3 \in 1..Len(key) /\ 2 \in 1..Len(key) /\ 1 \in 1..Len(key) /\ 2 < 3 /\ 1 < 2
        BY <1>6
      <3>2. Len(key) > 2 => at[2] = i /\ at[2] = j
        BY <1>6, <1>9, <3>1
      <3>3. i # j
        BY <1>3, <1>4
      <3>4. ~(Len(key) > 2)
        BY <3>2, <3>3
      <3>5. 2 \in 1..Len(key)
        BY <2>2
      <3>6. \A m \in Nat : ~(m > 2) /\ 2 \in 1..m => m = 2
        OBVIOUS
      <3>7. Len(key) \in Nat
        BY <1>6
      <3> QED
        BY <3>4, <3>5, <3>6, <3>7, Zenon
    <2> QED
      BY <2>1, <2>2, <2>3
  <1>12. key[1] = Lower(raw[i]) /\ key[2] = Lower(raw[j])
    <2>1. key[a] = Lowered(raw)[i] /\ key[b] = Lowered(raw)[j]
      BY <1>1, <1>7, <1>8 DEF Picks
    <2> QED
      BY <1>4, <1>11, <2>1 DEF Lowered, n
  <1>13. Lower(raw[i]) = "rtx" /\ Lower(raw[j]) = number
    <2>1. raw[i] \in Parts /\ raw[j] \in Parts
      BY <1>3
    <2> QED
      BY <1>3, <2>1, LowerIs
  <1> QED
    BY <1>2, <1>11, <1>12, <1>13 DEF key

\* A machine is rented as the card that its spelling says.
LEMMA SaysDecides ==
    ASSUME NEW m \in DOMAIN Machines
    PROVE  /\ Says(m) \in {"", "4090", "5090"}
           /\ Says(m) = "" => rate_for_gpu(m) = LEGACY_FALLBACK_CENTS_PER_HOUR
           /\ Says(m) # "" =>
                 /\ <<"rtx", Says(m)>> \in CARDS
                 /\ rate_for_gpu(m) = GPU_RATE_CENTS_PER_HOUR[<<"rtx", Says(m)>>]
                 /\ canonical_vram_gb(m, Machines[m]) = GPU_VRAM_GB[<<"rtx", Says(m)>>]
  <1>1. m \in Seq(Parts)
    BY GpuAssumption DEF GpuAssumption, Parts
  <1>2. \A number \in {"4090", "5090"} :
            Spells(m, number) <=> _normalize_gpu_model(m) = <<"rtx", number>>
    BY <1>1, KeySpells, SpellsKey
  <1>3. ~(Spells(m, "4090") /\ Spells(m, "5090"))
    <2>1. <<"rtx", "4090">> # <<"rtx", "5090">>
      OBVIOUS
    <2> QED
      BY <1>2, <2>1
  <1>4. /\ Spells(m, "4090") => Says(m) = "4090"
        /\ Spells(m, "5090") => Says(m) = "5090"
        /\ ~Spells(m, "4090") /\ ~Spells(m, "5090") => Says(m) = ""
    BY <1>3 DEF Says
  <1>5. \A number \in {"4090", "5090"} : Spells(m, number) => m # <<>>
    BY DEF Spells
  <1>6. CASE Says(m) = ""
    <2>1. _normalize_gpu_model(m) \notin CARDS
      BY <1>2, <1>4, <1>6 DEF CARDS
    <2> QED
      BY <1>6, <2>1 DEF rate_for_gpu
  <1>7. CASE Says(m) # ""
    <2>1. Says(m) \in {"4090", "5090"} /\ Spells(m, Says(m))
      BY <1>4, <1>7
    <2>2. _normalize_gpu_model(m) = <<"rtx", Says(m)>> /\ m # <<>>
      BY <1>2, <1>5, <2>1
    <2>3. <<"rtx", Says(m)>> \in CARDS
      BY <2>1 DEF CARDS
    <2> QED
      BY <2>1, <2>2, <2>3 DEF rate_for_gpu, canonical_vram_gb
  <1> QED
    BY <1>6, <1>7

\* What placements range over.
Vrams == {24, 32} \cup {Machines[m] : m \in DOMAIN Machines}
Placements == [DOMAIN Machines -> [rate : Nat, vram : Vrams]]

\* In a placement the rate and the VRAM are those of the card.
Fair(p) ==
    /\ \A m, n \in DOMAIN Machines : Says(m) = Says(n) =>
          /\ p[m].rate = p[n].rate
          /\ Says(m) # "" => p[m].vram = p[n].vram
    /\ \A m \in DOMAIN Machines :
          IF Says(m) = "" THEN p[m].rate = LEGACY_FALLBACK_CENTS_PER_HOUR
          ELSE p[m].rate > LEGACY_FALLBACK_CENTS_PER_HOUR

\* The rent so far is that of hours at fair placements.  The rent alone would
\* not do: the next hour goes by what was locked, the next placement by the list.
RentalInv ==
    /\ list \in 1..Len(PriceLists) /\ hours \in Nat
    /\ locked \in Seq(Placements) /\ \A i \in 1..Len(locked) : Fair(locked[i])
    /\ rent \in [DOMAIN Machines -> Nat]
    /\ SpellingsRentTheSame

\* The placement of the day is fair.
LEMMA PlacedFair ==
    ASSUME list \in 1..Len(PriceLists)
    PROVE  LET p == [m \in DOMAIN Machines |->
                       [rate |-> rate_for_gpu(m), vram |-> canonical_vram_gb(m, Machines[m])]]
           IN  p \in Placements /\ Fair(p)
  <1> DEFINE p == [m \in DOMAIN Machines |->
                     [rate |-> rate_for_gpu(m), vram |-> canonical_vram_gb(m, Machines[m])]]
  <1>1. /\ GPU_RATE_CENTS_PER_HOUR \in [CARDS -> Nat]
        /\ \A c \in CARDS : GPU_RATE_CENTS_PER_HOUR[c] > LEGACY_FALLBACK_CENTS_PER_HOUR
    <2>1. PriceLists[list] \in ToSet(PriceLists)
      BY DEF ToSet
    <2> QED
      BY <2>1, GpuAssumption DEF GpuAssumption, GPU_RATE_CENTS_PER_HOUR
  <1>2. \A c \in CARDS : GPU_VRAM_GB[c] \in {24, 32}
    BY DEF GPU_VRAM_GB
  <1>3. ASSUME NEW m \in DOMAIN Machines
        PROVE  /\ rate_for_gpu(m) \in Nat /\ canonical_vram_gb(m, Machines[m]) \in Vrams
               /\ IF Says(m) = "" THEN rate_for_gpu(m) = LEGACY_FALLBACK_CENTS_PER_HOUR
                  ELSE rate_for_gpu(m) > LEGACY_FALLBACK_CENTS_PER_HOUR
    <2>1. canonical_vram_gb(m, Machines[m]) \in Vrams
      BY <1>2 DEF canonical_vram_gb, Vrams
    <2>2. LEGACY_FALLBACK_CENTS_PER_HOUR \in Nat
      BY DEF LEGACY_FALLBACK_CENTS_PER_HOUR
    <2> QED
      BY <1>1, <2>1, <2>2, SaysDecides
  <1>4. ASSUME NEW m \in DOMAIN Machines, NEW n \in DOMAIN Machines, Says(m) = Says(n)
        PROVE  /\ rate_for_gpu(m) = rate_for_gpu(n)
               /\ Says(m) # "" => canonical_vram_gb(m, Machines[m]) = canonical_vram_gb(n, Machines[n])
    BY <1>4, SaysDecides
  <1>5. \A m \in DOMAIN Machines :
            p[m].rate = rate_for_gpu(m) /\ p[m].vram = canonical_vram_gb(m, Machines[m])
    OBVIOUS
  <1>6. p \in Placements
    BY <1>3 DEF Placements
  <1> HIDE DEF p
  <1>7. Fair(p)
    BY <1>3, <1>4, <1>5 DEF Fair
  <1> QED
    BY <1>6, <1>7 DEF p

\* The rent of an hour is added up placement by placement.
LEMMA RentTurns ==
    ASSUME NEW m, NEW base \in Nat, NEW s \in Seq(Placements), m \in DOMAIN Machines
    PROVE  \E out \in [0..Len(s) -> Nat] :
              /\ out[0] = base
              /\ \A i \in 1..Len(s) : out[i] = out[i - 1] + s[i][m].rate
              /\ FoldLeft(LAMBDA sum, r : sum + r[m].rate, base, s) = out[Len(s)]
  <1> DEFINE n == Len(s)
             P(h) == h = [S \in SUBSET DOMAIN s |->
                            IF S = {} THEN base ELSE h[S \ {Max(S)}] + s[Max(S)][m].rate]
             H == CHOOSE h : P(h)
             turn == [p \in Nat \X (1..n) |-> p[1] + s[p[2]][m].rate]
  <1>1. n \in Nat /\ DOMAIN s = 1..n /\ \A i \in 1..n : s[i][m].rate \in Nat
    <2>1. \A i \in 1..n : s[i] \in Placements
      OBVIOUS
    <2> QED
      BY <2>1 DEF Placements
  <1>2. FoldLeft(LAMBDA sum, r : sum + r[m].rate, base, s) = H[1..n]
    <2>1. FoldLeft(LAMBDA sum, r : sum + r[m].rate, base, s) = H[DOMAIN s]
      BY Zenon DEF FoldLeft, MapThenFoldSet
    <2> QED
      BY <1>1, <2>1
  <1> HIDE DEF n, H
  <1>3. turn \in [Nat \X (1..n) -> Nat]
    <2> SUFFICES ASSUME NEW p \in Nat \X (1..n) PROVE p[1] + s[p[2]][m].rate \in Nat
      OBVIOUS
    <2> QED
      BY <1>1
  <1>4. \A b \in Nat, i \in 1..n : turn[<<b, i>>] = b + s[i][m].rate
    OBVIOUS
  <1> HIDE DEF turn
  <1>5. PICK h \in [SUBSET (1..n) -> Nat] : Recurses(h, n, base, turn)
    <2>1. n \in Nat /\ base \in Nat
      BY <1>1
    <2> QED
      BY <2>1, <1>3, FoldExists, Zenon
  <1>6. ASSUME NEW S \in SUBSET (1..n), S # {}
        PROVE  h[S] = h[S \ {Max(S)}] + s[Max(S)][m].rate
    <2>1. Max(S) \in 1..n /\ S \ {Max(S)} \in SUBSET (1..n)
      BY <1>1, <1>6, MaxIsLast
    <2> QED
      BY <1>4, <1>5, <1>6, <2>1 DEF Recurses
  <1>7. h = [S \in SUBSET (1..n) |->
                IF S = {} THEN base ELSE h[S \ {Max(S)}] + s[Max(S)][m].rate]
    BY <1>5, <1>6 DEF Recurses
  <1>8. P(h)
    BY <1>1, <1>7
  <1>9. P(H)
    BY <1>8 DEF H
  <1>10. H[{}] = base
    BY <1>9
  <1>11. ASSUME NEW i \in 1..n PROVE H[1..i] = H[1..(i - 1)] + s[i][m].rate
    <2>1. 1..i \in SUBSET (1..n) /\ 1..i # {}
      <3>1. i \in 1..i /\ 1..i \subseteq 1..n
        BY <1>1
      <3> QED
        BY <3>1
    <2>2. Max(1..i) = i /\ (1..i) \ {i} = 1..(i - 1)
      BY <1>1, MaxOfTurns
    <2>3. H[1..i] = H[(1..i) \ {Max(1..i)}] + s[Max(1..i)][m].rate
      BY <1>1, <1>9, <2>1
    <2> QED
      BY <2>2, <2>3
  <1>12. 1..0 = {} /\ 0 \in 0..n /\ n \in 0..n
    BY <1>1
  <1> DEFINE G == {i \in 0..n : H[1..i] \in Nat}
             out == [i \in 0..n |-> H[1..i]]
  <1>13. 0 \in G
    BY <1>10, <1>12
  <1>14. ASSUME NEW i \in 1..n, i - 1 \in G PROVE i \in G
    BY <1>1, <1>11, <1>14
  <1> HIDE DEF G
  <1>15. \A i \in 0..n : i \in G
    <2>1. n \in Nat
      BY <1>1
    <2> QED
      BY <2>1, <1>13, <1>14, AllTurns
  <1>16. out \in [0..n -> Nat]
    BY <1>15 DEF G
  <1>17. \A i \in 1..n : out[i] = out[i - 1] + s[i][m].rate
    BY <1>1, <1>11
  <1>18. out[0] = base /\ out[n] = H[1..n]
    BY <1>10, <1>12
  <1> HIDE DEF out
  <1> QED
    BY <1>2, <1>16, <1>17, <1>18 DEF n

\* Two machines that are placed alike go on owing the same.
LEMMA SumsAgree ==
    ASSUME NEW n \in Nat, NEW a \in [0..n -> Nat], NEW b \in [0..n -> Nat],
           NEW r \in [1..n -> Nat], a[0] = b[0],
           \A i \in 1..n : a[i] = a[i - 1] + r[i], \A i \in 1..n : b[i] = b[i - 1] + r[i]
    PROVE  a[n] = b[n]
  <1> DEFINE G == {i \in 0..n : a[i] = b[i]}
  <1>1. 0 \in G
    OBVIOUS
  <1>2. \A i \in 1..n : i - 1 \in G => i \in G
    OBVIOUS
  <1> HIDE DEF G
  <1>3. \A i \in 0..n : i \in G
    BY <1>1, <1>2, AllTurns
  <1>4. n \in G
    BY <1>3
  <1> QED
    BY <1>4 DEF G

\* A machine that is placed at the legacy rate pays it, any other more.
LEMMA SumBounds ==
    ASSUME NEW n \in Nat, NEW a \in [0..n -> Nat], NEW r \in [1..n -> Nat],
           \A i \in 1..n : a[i] = a[i - 1] + r[i]
    PROVE  /\ (\A i \in 1..n : r[i] = 10) => a[n] = a[0] + 10 * n
           /\ (\A i \in 1..n : r[i] > 10) => a[n] >= a[0] + 11 * n
  <1>1. ASSUME \A i \in 1..n : r[i] = 10 PROVE a[n] = a[0] + 10 * n
    <2> DEFINE G == {i \in 0..n : a[i] = a[0] + 10 * i}
    <2>1. 0 \in G
      OBVIOUS
    <2>2. ASSUME NEW i \in 1..n, i - 1 \in G PROVE i \in G
      <3>1. a[i] = a[i - 1] + 10 /\ a[i - 1] = a[0] + 10 * (i - 1) /\ a[0] \in Nat
        BY <1>1, <2>2
      <3> QED
        BY <3>1
    <2> HIDE DEF G
    <2>3. \A i \in 0..n : i \in G
      BY <2>1, <2>2, AllTurns
    <2>4. n \in G
      BY <2>3
    <2> QED
      BY <2>4 DEF G
  <1>2. ASSUME \A i \in 1..n : r[i] > 10 PROVE a[n] >= a[0] + 11 * n
    <2> DEFINE G == {i \in 0..n : a[i] >= a[0] + 11 * i}
    <2>1. 0 \in G
      OBVIOUS
    <2>2. ASSUME NEW i \in 1..n, i - 1 \in G PROVE i \in G
      <3>1. /\ a[i] = a[i - 1] + r[i] /\ r[i] > 10 /\ r[i] \in Nat
            /\ a[i - 1] >= a[0] + 11 * (i - 1) /\ a[0] \in Nat /\ a[i - 1] \in Nat
        BY <1>2, <2>2
      <3> QED
        BY <3>1
    <2> HIDE DEF G
    <2>3. \A i \in 0..n : i \in G
      BY <2>1, <2>2, AllTurns
    <2>4. n \in G
      BY <2>3
    <2> QED
      BY <2>4 DEF G
  <1> QED
    BY <1>1, <1>2

\* An hour bills every machine by its card.
LEMMA HourStep ==
    ASSUME RentalInv, Hour
    PROVE  RentalInv'
  <1> DEFINE n == Len(locked)
             r(m) == [i \in 1..n |-> locked[i][m].rate]
             Sums(out, m) == /\ out \in [0..n -> Nat] /\ out[0] = rent[m]
                             /\ \A i \in 1..n : out[i] = out[i - 1] + r(m)[i]
                             /\ rent'[m] = out[n]
  <1>1. /\ locked \in Seq(Placements) /\ rent \in [DOMAIN Machines -> Nat] /\ hours \in Nat
        /\ \A i \in 1..n : Fair(locked[i])
    BY DEF RentalInv
  <1>2. n \in Nat /\ n > 0
    <2>1. locked # <<>>
      BY DEF Hour
    <2> QED
      BY <1>1, <2>1
  <1>3. /\ hours' = hours + n /\ list' = list /\ locked' = locked
    BY DEF Hour
  <1>11. rent' = [m \in DOMAIN Machines |->
                    FoldLeft(LAMBDA sum, p : sum + p[m].rate, rent[m], locked)]
    BY DEF Hour
  <1>4. ASSUME NEW m \in DOMAIN Machines PROVE \E out : Sums(out, m)
    <2>1. rent[m] \in Nat
      BY <1>1
    <2>2. PICK out \in [0..n -> Nat] :
              /\ out[0] = rent[m]
              /\ \A i \in 1..n : out[i] = out[i - 1] + locked[i][m].rate
              /\ FoldLeft(LAMBDA sum, p : sum + p[m].rate, rent[m], locked) = out[n]
      BY <1>1, <2>1, RentTurns
    <2>3. rent'[m] = out[n]
      BY <1>11, <2>2
    <2>4. \A i \in 1..n : r(m)[i] = locked[i][m].rate
      OBVIOUS
    <2> HIDE DEF n, r
    <2> QED
      BY <2>2, <2>3, <2>4
  <1>5. ASSUME NEW m \in DOMAIN Machines
        PROVE  r(m) \in [1..n -> Nat] /\ rent[m] \in Nat /\ rent'[m] \in Nat
    <2>1. \A i \in 1..n : locked[i] \in Placements
      BY <1>1
    <2>2. \A i \in 1..n : locked[i][m].rate \in Nat
      BY <2>1 DEF Placements
    <2>3. PICK out : Sums(out, m)
      BY <1>4
    <2> QED
      BY <1>1, <1>2, <2>2, <2>3
  <1>6. rent' \in [DOMAIN Machines -> Nat]
    <2>1. rent' = [m \in DOMAIN Machines |-> rent'[m]]
      BY <1>11
    <2> QED
      BY <1>5, <2>1
  <1>7. ASSUME NEW m \in DOMAIN Machines, NEW k \in DOMAIN Machines, Says(m) = Says(k)
        PROVE  rent'[m] = rent'[k]
    <2>1. r(m) = r(k)
      BY <1>1, <1>7 DEF Fair
    <2>2. rent[m] = rent[k]
      BY <1>7 DEF RentalInv, SpellingsRentTheSame
    <2>3. PICK a : Sums(a, m)
      BY <1>4
    <2>4. PICK b : Sums(b, k)
      BY <1>4
    <2> DEFINE q == r(m)
    <2>6. q \in [1..n -> Nat]
      BY <1>5
    <2> HIDE DEF n, r
    <2>5. a[n] = b[n]
      <3>1. \A i \in 1..n : a[i] = a[i - 1] + q[i]
        BY <2>3
      <3>2. \A i \in 1..n : b[i] = b[i - 1] + q[i]
        BY <2>1, <2>4
      <3>3. n \in Nat /\ a[0] = b[0] /\ a \in [0..n -> Nat] /\ b \in [0..n -> Nat]
        BY <1>2, <2>2, <2>3, <2>4
      <3> HIDE DEF q
      <3> QED
        BY <2>6, <3>1, <3>2, <3>3, SumsAgree
    <2> QED
      BY <2>3, <2>4, <2>5
  <1>8. ASSUME NEW m \in DOMAIN Machines
        PROVE  IF Says(m) = "" THEN rent'[m] = 10 * hours' ELSE rent'[m] > 10 * hours'
    <2>1. PICK a : Sums(a, m)
      BY <1>4
    <2>2. IF Says(m) = "" THEN \A i \in 1..n : r(m)[i] = 10 ELSE \A i \in 1..n : r(m)[i] > 10
      BY <1>1 DEF Fair, LEGACY_FALLBACK_CENTS_PER_HOUR
    <2>3. IF Says(m) = "" THEN rent[m] = 10 * hours ELSE rent[m] >= 10 * hours
      <3>1. IF Says(m) = "" THEN rent[m] = 10 * hours ELSE rent[m] > 10 * hours \/ hours = 0
        BY DEF RentalInv, SpellingsRentTheSame, LEGACY_FALLBACK_CENTS_PER_HOUR
      <3>2. rent[m] \in Nat /\ hours \in Nat
        BY <1>1, <1>5
      <3>3. CASE Says(m) = ""
        BY <3>1, <3>3
      <3>4. CASE Says(m) # ""
        <4>1. rent[m] > 10 * hours \/ hours = 0
          BY <3>1, <3>4
        <4>2. rent[m] >= 10 * hours
          BY <3>2, <4>1
        <4> QED
          BY <3>4, <4>2
      <3> QED
        BY <3>3, <3>4
    <2> DEFINE q == r(m)
    <2>4. q \in [1..n -> Nat] /\ rent[m] \in Nat
      BY <1>5
    <2> HIDE DEF n, r
    <2>5. /\ a \in [0..n -> Nat] /\ a[0] = rent[m] /\ rent'[m] = a[n]
          /\ \A i \in 1..n : a[i] = a[i - 1] + q[i]
      BY <2>1
    <2>6. IF Says(m) = "" THEN \A i \in 1..n : q[i] = 10 ELSE \A i \in 1..n : q[i] > 10
      BY <2>2
    <2> HIDE DEF q
    <2>7. /\ (\A i \in 1..n : q[i] = 10) => a[n] = a[0] + 10 * n
          /\ (\A i \in 1..n : q[i] > 10) => a[n] >= a[0] + 11 * n
      BY <1>2, <2>4, <2>5, SumBounds
    <2> DEFINE x == rent'[m]
               y == rent[m]
    <2>8. /\ y \in Nat /\ x \in Nat
          /\ IF Says(m) = "" THEN x = y + 10 * n ELSE x >= y + 11 * n
      BY <1>5, <2>4, <2>5, <2>6, <2>7
    <2>9. IF Says(m) = "" THEN y = 10 * hours ELSE y >= 10 * hours
      BY <2>3
    <2> HIDE DEF x, y
    <2>10. hours' = hours + n /\ hours \in Nat
      BY <1>1, <1>3
    <2> HIDE DEF n
    <2>11. \A a1, b1, h, k \in Nat :
              a1 >= b1 + 11 * k /\ b1 >= 10 * h /\ k > 0 => a1 > 10 * (h + k)
      OBVIOUS
    <2>12. CASE Says(m) = ""
      <3>1. x = y + 10 * n /\ y = 10 * hours
        BY <2>8, <2>9, <2>12
      <3>2. x = 10 * hours + 10 * n
        BY <3>1, Zenon
      <3>3. 10 * hours + 10 * n = 10 * (hours + n)
        BY <1>2, <2>10
      <3> QED
        BY <2>10, <2>12, <3>2, <3>3 DEF x
    <2>13. CASE Says(m) # ""
      <3>1. x >= y + 11 * n /\ y >= 10 * hours
        BY <2>8, <2>9, <2>13
      <3>2. x > 10 * (hours + n)
        BY <1>2, <2>8, <2>10, <2>11, <3>1, Zenon
      <3> QED
        BY <2>10, <2>13, <3>2 DEF x
    <2> QED
      BY <2>12, <2>13
  <1>9. SpellingsRentTheSame'
    <2>1. \A m, k \in DOMAIN Machines : Says(m) = Says(k) /\ Says(m) # "" =>
             \A p \in ToSet(locked') : p[m].vram = p[k].vram
      BY <1>3 DEF RentalInv, SpellingsRentTheSame
    <2> QED
      BY <1>7, <1>8, <2>1 DEF SpellingsRentTheSame, LEGACY_FALLBACK_CENTS_PER_HOUR
  <1>10. hours' \in Nat
    <2> HIDE DEF n
    <2> QED
      BY <1>1, <1>2, <1>3
  <1> QED
    BY <1>3, <1>6, <1>9, <1>10 DEF RentalInv

\* A new placement is fair, and leaves the rent as it is.
LEMMA PlaceStep ==
    ASSUME RentalInv, Place
    PROVE  RentalInv'
  <1> DEFINE p == [m \in DOMAIN Machines |->
                     [rate |-> rate_for_gpu(m), vram |-> canonical_vram_gb(m, Machines[m])]]
  <1>1. p \in Placements /\ Fair(p)
    BY PlacedFair DEF RentalInv
  <1>2. locked' = Append(locked, p) /\ list' = list /\ hours' = hours /\ rent' = rent
    BY DEF Place
  <1> HIDE DEF p
  <1>3. locked \in Seq(Placements) /\ \A i \in 1..Len(locked) : Fair(locked[i])
    BY DEF RentalInv
  <1>4. locked' \in Seq(Placements) /\ \A i \in 1..Len(locked') : Fair(locked'[i])
    BY <1>1, <1>2, <1>3
  <1>5. \A q \in ToSet(locked') : Fair(q)
    BY <1>4 DEF ToSet
  <1>6. SpellingsRentTheSame'
    BY <1>2, <1>5 DEF RentalInv, SpellingsRentTheSame, Fair
  <1> QED
    BY <1>2, <1>4, <1>6 DEF RentalInv

LEMMA RentalStep == RentalInv /\ [RentalNext]_rental_vars => RentalInv'
  <1> SUFFICES ASSUME RentalInv, [RentalNext]_rental_vars PROVE RentalInv'
    OBVIOUS
  <1>1. CASE Redeploy
    <2>1. list' \in 1..Len(PriceLists)
      BY <1>1, GpuAssumption DEF Redeploy, RentalInv
    <2> QED
      BY <1>1, <2>1 DEF Redeploy, RentalInv, SpellingsRentTheSame
  <1>2. CASE UNCHANGED rental_vars
    BY <1>2 DEF rental_vars, RentalInv, SpellingsRentTheSame
  <1> QED
    BY <1>1, <1>2, PlaceStep, HourStep DEF RentalNext

\* However its operator spells a listed card, a machine owes the rent of the
\* card, above the legacy rate that all unlisted ones pay; for all machines,
\* spellings and price lists.
THEOREM SpellingsAreOneCard == RentalSpec => []SpellingsRentTheSame
  <1>1. RentalInit => RentalInv
    <2> SUFFICES ASSUME RentalInit PROVE RentalInv
      OBVIOUS
    <2>1. 1 \in 1..Len(PriceLists)
      BY GpuAssumption DEF GpuAssumption
    <2>2. /\ list = 1 /\ locked = <<>> /\ hours = 0
          /\ \A m \in DOMAIN Machines : rent[m] = 0
          /\ rent \in [DOMAIN Machines -> Nat]
      BY DEF RentalInit
    <2>3. ToSet(locked) = {} /\ locked \in Seq(Placements) /\ Len(locked) = 0
      BY <2>2 DEF ToSet
    <2>4. SpellingsRentTheSame
      <3>1. \A m \in DOMAIN Machines :
                rent[m] = LEGACY_FALLBACK_CENTS_PER_HOUR * hours /\ hours = 0
        BY <2>2 DEF LEGACY_FALLBACK_CENTS_PER_HOUR
      <3> QED
        BY <2>2, <2>3, <3>1, Zenon DEF SpellingsRentTheSame
    <2> QED
      BY <2>1, <2>2, <2>3, <2>4 DEF RentalInv
  <1>2. RentalInv => SpellingsRentTheSame
    BY DEF RentalInv
  <1> QED
    BY <1>1, <1>2, RentalStep, PTL DEF RentalSpec

-----------------------------------------------------------------------------
\* The composition.

\* Put together, the meter, the settlement and the rent behave as they do alone:
\* none disturbs another's accounts, so the theorems above hold of BillSpec too.
THEOREM PartsAreIndependent == BillSpec => Spec /\ PricingSpec /\ RentalSpec
<1>1. BillInit => Init /\ PricingInit /\ RentalInit
  BY DEF BillInit
<1>2. [BillNext]_<<vars, pricing_vars, rental_vars>>
        => [Next]_vars /\ [PricingNext]_pricing_vars /\ [RentalNext]_rental_vars
  BY DEF BillNext, Next, vars, pricing_vars, rental_vars
<1> QED
  BY <1>1, <1>2, PTL DEF BillSpec, Spec, PricingSpec, RentalSpec

=============================================================================
