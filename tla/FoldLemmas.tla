----------------------------- MODULE FoldLemmas -----------------------------
(***************************************************************************)
(* What the proofs about loops over a list rest on.  The models state such *)
(* a loop with FoldLeft of SequencesExt; this module shows, for the sets   *)
(* FoldLeft recurses over, that it runs through its turns in order, and    *)
(* that what holds at first and is kept by a turn holds at the end.  The   *)
(* lemmas speak of functions and sets, so that they can be cited.          *)
(***************************************************************************)
EXTENDS Integers, Sequences, SequencesExt, WellFoundedInduction, TLAPS

\* A set of numbers has a least one.
LEMMA LeastExists ==
    ASSUME NEW S, S \subseteq Nat, S # {}
    PROVE  \E n \in S : \A m \in S : n <= m
  <1> DEFINE R == OpToRel(<, Nat)
  <1>1. \A m, n \in Nat : <<m, n>> \in R <=> m < n
    BY DEF OpToRel
  <1>2. IsWellFoundedOn(R, Nat)
    BY NatLessThanWellFounded
  <1> HIDE DEF R
  <1>3. PICK n \in S : \A m \in S : <<m, n>> \notin R
    BY <1>2, WFMin
  <1>4. ASSUME NEW m \in S PROVE n <= m
    <2>1. m \in Nat /\ n \in Nat
      OBVIOUS
    <2>2. ~(m < n)
      BY <1>1, <1>3, <2>1
    <2> QED
      BY <2>1, <2>2
  <1> QED
    BY <1>4

\* Induction, on the set of the turns after which all is well.
LEMMA AllTurns ==
    ASSUME NEW n \in Nat, NEW G, 0 \in G, \A i \in 1..n : i - 1 \in G => i \in G
    PROVE  \A i \in 0..n : i \in G
  <1> DEFINE B == {i \in 0..n : i \notin G}
  <1>1. CASE B = {}
    BY <1>1
  <1>2. CASE B # {}
    <2>1. B \subseteq Nat
      OBVIOUS
    <2>2. PICK i \in B : \A j \in B : i <= j
      BY <1>2, <2>1, LeastExists
    <2>3. i \in 1..n /\ i - 1 \in 0..n /\ i - 1 \notin B
      BY <2>2
    <2> QED
      BY <2>2, <2>3
  <1> QED
    BY <1>1, <1>2

\* A finite set of positions has a last one; Max is it.
LEMMA MaxIsLast ==
    ASSUME NEW n \in Nat, NEW S, S \subseteq 1..n, S # {}
    PROVE  Max(S) \in S /\ \A m \in S : m <= Max(S)
  <1> DEFINE D == {n - i : i \in S}
  <1>1. D \subseteq Nat /\ D # {}
    <2>1. \A i \in S : n - i \in Nat
      OBVIOUS
    <2> QED
      BY <2>1
  <1>2. PICK d \in D : \A e \in D : d <= e
    BY <1>1, LeastExists
  <1>3. PICK i \in S : d = n - i
    BY <1>2
  <1>4. \A m \in S : m <= i
    BY <1>2, <1>3
  <1>5. \A m \in S : m \in Int
    OBVIOUS
  <1>6. \E x \in S : \A y \in S : x >= y
    BY <1>3, <1>4, <1>5
  <1> QED
    BY <1>5, <1>6 DEF Max

\* The last of the first i positions is the i-th.
LEMMA MaxOfTurns == ASSUME NEW i \in Nat \ {0} PROVE Max(1..i) = i /\ (1..i) \ {i} = 1..(i - 1)
  <1>1. i \in 1..i
    OBVIOUS
  <1>2. Max(1..i) \in 1..i /\ \A m \in 1..i : m <= Max(1..i)
    BY <1>1, MaxIsLast
  <1> QED
    BY <1>1, <1>2

\* What a function says that recurses like FoldLeft over n positions.
Recurses(h, n, base, turn) ==
    /\ h[{}] = base
    /\ \A S \in SUBSET (1..n) : S # {} => h[S] = turn[<<h[S \ {Max(S)}], Max(S)>>]

\* So the function that FoldLeft chooses does exist, for turns that stay in a set.
LEMMA FoldExists ==
    ASSUME NEW n \in Nat, NEW T, NEW base \in T, NEW turn \in [T \X (1..n) -> T]
    PROVE  \E h \in [SUBSET (1..n) -> T] : Recurses(h, n, base, turn)
  <1> DEFINE Says(h, m) == Recurses(h, m, base, turn)
             G == {m \in 0..n : \E h \in [SUBSET (1..m) -> T] : Says(h, m)}
  <1> USE DEF Recurses
  <1>1. 0 \in G
    <2> DEFINE h == [S \in SUBSET (1..0) |-> base]
    <2>1. h \in [SUBSET (1..0) -> T] /\ h[{}] = base
      OBVIOUS
    <2>2. \A S \in SUBSET (1..0) : S = {}
      OBVIOUS
    <2> HIDE DEF h
    <2>3. Says(h, 0)
      BY <2>1, <2>2
    <2> HIDE DEF Says
    <2>4. \E k \in [SUBSET (1..0) -> T] : Says(k, 0)
      BY <2>1, <2>3
    <2>5. 0 \in 0..n
      OBVIOUS
    <2> QED
      BY <2>4, <2>5
  <1>2. ASSUME NEW m \in 1..n, m - 1 \in G PROVE m \in G
    <2>1. PICK g \in [SUBSET (1..(m - 1)) -> T] : Says(g, m - 1)
      BY <1>2
    <2> DEFINE h == [S \in SUBSET (1..m) |->
                       IF m \in S THEN turn[<<g[S \ {m}], m>>] ELSE g[S]]
    <2>2. ASSUME NEW S \in SUBSET (1..m) PROVE S \ {m} \in SUBSET (1..(m - 1))
      OBVIOUS
    <2>3. h \in [SUBSET (1..m) -> T]
      <3> SUFFICES ASSUME NEW S \in SUBSET (1..m)
                   PROVE  (IF m \in S THEN turn[<<g[S \ {m}], m>>] ELSE g[S]) \in T
        OBVIOUS
      <3>1. g[S \ {m}] \in T
        BY <2>2
      <3>2. turn[<<g[S \ {m}], m>>] \in T
        BY <3>1
      <3>3. m \notin S => S \ {m} = S
        OBVIOUS
      <3> QED
        BY <3>1, <3>2, <3>3
    <2>4. \A S \in SUBSET (1..(m - 1)) : S \in SUBSET (1..m) /\ h[S] = g[S]
      OBVIOUS
    <2>5. h[{}] = base
      BY <2>1, <2>4
    <2>6. ASSUME NEW S \in SUBSET (1..m), S # {}
          PROVE  h[S] = turn[<<h[S \ {Max(S)}], Max(S)>>]
      <3> m \in Nat /\ S \subseteq 1..m
        OBVIOUS
      <3>1. Max(S) \in S /\ \A i \in S : i <= Max(S)
        BY <2>6, MaxIsLast
      <3>2. CASE m \in S
        <4>1. Max(S) = m
          <5>1. m <= Max(S) /\ Max(S) \in 1..m
            BY <3>1, <3>2
          <5> QED
            BY <5>1
        <4>2. h[S] = turn[<<g[S \ {m}], m>>]
          BY <3>2
        <4>3. h[S \ {m}] = g[S \ {m}]
          BY <2>2, <2>4
        <4> HIDE DEF h
        <4> QED
          BY <4>1, <4>2, <4>3
      <3>3. CASE m \notin S
        <4>1. S \in SUBSET (1..(m - 1)) /\ S \ {Max(S)} \in SUBSET (1..(m - 1))
          BY <2>2, <3>3
        <4>2. h[S] = g[S] /\ h[S \ {Max(S)}] = g[S \ {Max(S)}]
          BY <2>4, <4>1
        <4>3. g[S] = turn[<<g[S \ {Max(S)}], Max(S)>>]
          BY <2>1, <2>6, <4>1
        <4> HIDE DEF h
        <4> QED
          BY <4>2, <4>3
      <3> QED
        BY <3>2, <3>3
    <2> HIDE DEF h
    <2>7. Says(h, m)
      BY <2>5, <2>6
    <2> HIDE DEF Says
    <2>8. \E k \in [SUBSET (1..m) -> T] : Says(k, m)
      BY <2>3, <2>7
    <2> QED
      BY <2>8
  <1> HIDE DEF G, Recurses
  <1>3. n \in G
    BY <1>1, <1>2, AllTurns
  <1> USE DEF G
  <1> QED
    BY <1>3

-----------------------------------------------------------------------------
\* Loops that keep some positions of a list, and of each something.

\* What the function chosen by FoldLeft says of a loop that appends f[i] at the
\* positions i of K.
Filters(h, n, K, f) ==
    h = [S \in SUBSET (1..n) |->
            IF S = {} THEN <<>>
            ELSE IF Max(S) \in K THEN Append(h[S \ {Max(S)}], f[Max(S)])
            ELSE h[S \ {Max(S)}]]

\* The list s has f of the positions of K up to n, once each and in order; `at`
\* says where each comes from.
Picks(s, at, n, K, f) ==
    /\ at \in [1..Len(s) -> 1..n]
    /\ \A j \in 1..Len(s) : at[j] \in K /\ s[j] = f[at[j]]
    /\ \A j, k \in 1..Len(s) : j < k => at[j] < at[k]
    /\ \A i \in 1..n : i \in K => \E j \in 1..Len(s) : at[j] = i

\* The function that such a loop chooses exists.
LEMMA FilterExists ==
    ASSUME NEW n \in Nat, NEW K, NEW T, NEW f \in [1..n -> T]
    PROVE  \E h : Filters(h, n, K, f)
  <1> DEFINE X == Seq(T)
             turn == [p \in X \X (1..n) |-> IF p[2] \in K THEN Append(p[1], f[p[2]]) ELSE p[1]]
  <1>1. <<>> \in X
    OBVIOUS
  <1>2. turn \in [X \X (1..n) -> X]
    <2> SUFFICES ASSUME NEW p \in X \X (1..n)
                 PROVE  (IF p[2] \in K THEN Append(p[1], f[p[2]]) ELSE p[1]) \in X
      OBVIOUS
    <2> QED
      OBVIOUS
  <1>3. \A s \in X, i \in 1..n : turn[<<s, i>>] = IF i \in K THEN Append(s, f[i]) ELSE s
    OBVIOUS
  <1> HIDE DEF turn, X
  <1>4. PICK h \in [SUBSET (1..n) -> X] : Recurses(h, n, <<>>, turn)
    BY <1>1, <1>2, FoldExists, Zenon
  <1>5. ASSUME NEW S \in SUBSET (1..n), S # {}
        PROVE  h[S] = IF Max(S) \in K THEN Append(h[S \ {Max(S)}], f[Max(S)])
                      ELSE h[S \ {Max(S)}]
    <2>1. Max(S) \in 1..n /\ S \ {Max(S)} \in SUBSET (1..n)
      BY <1>5, MaxIsLast
    <2> QED
      BY <1>3, <1>4, <1>5, <2>1 DEF Recurses
  <1>6. h[{}] = <<>>
    BY <1>4 DEF Recurses
  <1>7. h = [S \in SUBSET (1..n) |->
                IF S = {} THEN <<>>
                ELSE IF Max(S) \in K THEN Append(h[S \ {Max(S)}], f[Max(S)])
                ELSE h[S \ {Max(S)}]]
    BY <1>5, <1>6
  <1> QED
    BY <1>7 DEF Filters

\* A turn keeps to Picks, whether or not it appends.
LEMMA FilterStep ==
    ASSUME NEW n \in Nat, NEW i \in 1..n, NEW K, NEW T, NEW f \in [1..n -> T],
           NEW s \in Seq(T), NEW at, Picks(s, at, i - 1, K, f), i \in K
    PROVE  LET t == Append(s, f[i])
               to == [j \in 1..(Len(s) + 1) |-> IF j = Len(s) + 1 THEN i ELSE at[j]]
           IN  t \in Seq(T) /\ Picks(t, to, i, K, f)
  <1> DEFINE t == Append(s, f[i])
             m == Len(s)
             to == [j \in 1..(m + 1) |-> IF j = m + 1 THEN i ELSE at[j]]
  <1>1. m \in Nat /\ i \in Nat /\ f[i] \in T
    OBVIOUS
  <1>2. t \in Seq(T) /\ Len(t) = m + 1 /\ t[m + 1] = f[i] /\ \A j \in 1..m : t[j] = s[j]
    BY <1>1
  <1>3. \A j \in 1..m : at[j] \in 1..(i - 1)
    BY DEF Picks
  <1>4. to[m + 1] = i /\ \A j \in 1..m : to[j] = at[j]
    BY <1>1
  <1>5. to \in [1..(m + 1) -> 1..i]
    BY <1>1, <1>3
  <1>6. \A j \in 1..(m + 1) : j = m + 1 \/ j \in 1..m
    BY <1>1
  <1> HIDE DEF t, to
  <1>7. \A j \in 1..(m + 1) : to[j] \in K /\ t[j] = f[to[j]]
    BY <1>2, <1>4, <1>6 DEF Picks
  <1>8. ASSUME NEW j \in 1..(m + 1), NEW k \in 1..(m + 1), j < k PROVE to[j] < to[k]
    <2>1. CASE k = m + 1
      <3>1. j \in 1..m
        BY <1>1, <1>8, <2>1
      <3> QED
        BY <1>1, <1>3, <1>4, <2>1, <3>1
    <2>2. CASE k \in 1..m
      <3>1. j \in 1..m
        BY <1>1, <1>8, <2>2
      <3> QED
        BY <1>4, <1>8, <2>2, <3>1 DEF Picks
    <2> QED
      BY <1>6, <2>1, <2>2
  <1>9. ASSUME NEW p \in 1..i, p \in K PROVE \E j \in 1..(m + 1) : to[j] = p
    <2>1. CASE p = i
      BY <1>1, <1>4, <2>1
    <2>2. CASE p \in 1..(i - 1)
      <3>1. PICK j \in 1..m : at[j] = p
        BY <1>9, <2>2 DEF Picks
      <3>2. j \in 1..(m + 1) /\ to[j] = p
        BY <1>1, <1>4, <3>1
      <3> QED
        BY <3>2
    <2> QED
      BY <1>1, <2>1, <2>2
  <1>10. Picks(t, to, i, K, f)
    BY <1>2, <1>5, <1>7, <1>8, <1>9 DEF Picks
  <1> QED
    BY <1>2, <1>10 DEF t, to

\* Such a loop picks exactly the positions of K, in order.
LEMMA FilterPicks ==
    ASSUME NEW n \in Nat, NEW K, NEW T, NEW f \in [1..n -> T], NEW h, Filters(h, n, K, f)
    PROVE  h[1..n] \in Seq(T) /\ \E at : Picks(h[1..n], at, n, K, f)
  <1>1. ASSUME NEW i \in 1..n
        PROVE  h[1..i] = IF i \in K THEN Append(h[1..(i - 1)], f[i]) ELSE h[1..(i - 1)]
    <2>1. 1..i \in SUBSET (1..n) /\ 1..i # {}
      <3>1. i \in 1..i /\ 1..i \subseteq 1..n
        OBVIOUS
      <3> QED
        BY <3>1
    <2>2. Max(1..i) = i /\ (1..i) \ {i} = 1..(i - 1)
      BY MaxOfTurns
    <2>3. h[1..i] = IF Max(1..i) \in K THEN Append(h[(1..i) \ {Max(1..i)}], f[Max(1..i)])
                    ELSE h[(1..i) \ {Max(1..i)}]
      BY <2>1 DEF Filters
    <2> QED
      BY <2>2, <2>3
  <1>2. h[1..0] = <<>>
    <2>1. 1..0 = {}
      OBVIOUS
    <2> QED
      BY <2>1 DEF Filters
  <1> DEFINE Ok(s, i) == s \in Seq(T) /\ \E at : Picks(s, at, i, K, f)
             G == {i \in 0..n : Ok(h[1..i], i)}
  <1>3. 0 \in G
    <2> DEFINE at == [j \in 1..0 |-> 0]
    <2>1. Picks(<<>>, at, 0, K, f)
      BY DEF Picks
    <2>2. <<>> \in Seq(T) /\ 0 \in 0..n
      OBVIOUS
    <2> HIDE DEF at
    <2>3. Ok(<<>>, 0)
      BY <2>1, <2>2
    <2> HIDE DEF Ok
    <2> QED
      BY <1>2, <2>2, <2>3
  <1>4. ASSUME NEW i \in 1..n, i - 1 \in G PROVE i \in G
    <2> DEFINE s == h[1..(i - 1)]
    <2>1. s \in Seq(T)
      BY <1>4
    <2>2. PICK at : Picks(s, at, i - 1, K, f)
      BY <1>4
    <2> HIDE DEF s
    <2>3. CASE i \in K
      <3>1. Ok(Append(s, f[i]), i)
        BY <2>1, <2>2, <2>3, FilterStep
      <3> HIDE DEF Ok
      <3> QED
        BY <1>1, <2>3, <3>1 DEF s
    <2>4. CASE i \notin K
      <3>1. Picks(s, at, i, K, f)
        <4>1. i \in Nat /\ Len(s) \in Nat /\ 1..(i - 1) \subseteq 1..i /\ \A p \in 1..i : p = i \/ p \in 1..(i - 1)
          BY <2>1
        <4>2. at \in [1..Len(s) -> 1..i]
          BY <2>2, <4>1 DEF Picks
        <4> QED
          BY <2>2, <2>4, <4>1, <4>2 DEF Picks
      <3>2. Ok(s, i)
        BY <2>1, <3>1
      <3> HIDE DEF Ok
      <3> QED
        BY <1>1, <2>4, <3>2 DEF s
    <2> QED
      BY <2>3, <2>4
  <1> HIDE DEF G
  <1>5. \A i \in 0..n : i \in G
    BY <1>3, <1>4, AllTurns
  <1> USE DEF G
  <1> QED
    BY <1>5

=============================================================================
