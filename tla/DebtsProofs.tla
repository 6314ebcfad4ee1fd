------------------------------- MODULE DebtsProofs -------------------------------
(* Theorems about Debts, for every set of lines, every quantity and total, every *)
(* sum a customer may bring and any number of receipts.                          *)
EXTENDS Debts, FiniteSetTheorems, WellFoundedInduction, TLAPS

----------------------------------------------------------------------------------
(* Totals.  A fold computes by induction, which these provers do not do; that t  *)
(* is the total of f is said by the running totals instead: where they start,    *)
(* how they step, that they never fall and that they stand still where f is 0.   *)

Running(q, f) ==
    /\ q \in [0..MaxSales -> Nat] /\ q[0] = 0
    /\ \A s \in Sales : q[s] = q[s - 1] + f[s]
    /\ \A m, n \in 0..MaxSales : m <= n =>
         /\ q[m] <= q[n]
         /\ (\A s \in Sales : m < s /\ s <= n => f[s] = 0) => q[n] = q[m]

IsTotal(f, t) == \E q \in [0..MaxSales -> Nat] : Running(q, f) /\ q[MaxSales] = t

LEMMA TotalNone ==
  ASSUME NEW f \in [Sales -> Nat], \A s \in Sales : f[s] = 0
  PROVE  IsTotal(f, 0)
<1> DEFINE q == [n \in 0..MaxSales |-> 0]
<1>1. MaxSales \in Nat
  BY DebtAssumption
<1>2. Running(q, f)
  BY <1>1 DEF Running, Sales
<1>3. q \in [0..MaxSales -> Nat] /\ q[MaxSales] = 0
  BY <1>1
<1>4. QED
  BY <1>2, <1>3 DEF IsTotal

(* One term of it changes.                                                       *)
LEMMA TotalChange ==
  ASSUME NEW f \in [Sales -> Nat], NEW g \in [Sales -> Nat], NEW t, IsTotal(f, t),
         NEW k \in Sales, \A s \in Sales : s # k => g[s] = f[s]
  PROVE  IsTotal(g, t - f[k] + g[k])
<1>1. MaxSales \in Nat /\ k \in 1..MaxSales
  BY DebtAssumption DEF Sales
<1>2. PICK p \in [0..MaxSales -> Nat] : Running(p, f) /\ p[MaxSales] = t
  BY DEF IsTotal
<1> DEFINE q == [n \in 0..MaxSales |-> IF n < k THEN p[n] ELSE p[n] - f[k] + g[k]]
<1>3. p[0] = 0 /\ \A s \in Sales : p[s] = p[s - 1] + f[s]
  BY <1>2 DEF Running
<1>4. \A m, n \in 0..MaxSales : m <= n =>
         /\ p[m] <= p[n]
         /\ (\A s \in Sales : m < s /\ s <= n => f[s] = 0) => p[n] = p[m]
  BY <1>2 DEF Running
<1>5. p[k] = p[k - 1] + f[k] /\ k - 1 \in 0..MaxSales /\ k \in 0..MaxSales /\ f[k] \in Nat /\ g[k] \in Nat
  BY <1>1, <1>3 DEF Sales
<1>6. \A n \in 0..MaxSales : p[n] \in Nat
  BY <1>2
<1>7. \A n \in 0..MaxSales : n >= k => p[n] >= p[k]
  BY <1>1, <1>4
<1>8. q \in [0..MaxSales -> Nat]
  <2>1. \A n \in 0..MaxSales : (IF n < k THEN p[n] ELSE p[n] - f[k] + g[k]) \in Nat
    BY <1>1, <1>5, <1>6, <1>7
  <2>2. QED
    BY <2>1
<1>9. q[0] = 0
  BY <1>1, <1>3
<1>10. \A s \in Sales : q[s] = q[s - 1] + g[s]
  <2> SUFFICES ASSUME NEW s \in Sales PROVE q[s] = q[s - 1] + g[s]
    OBVIOUS
  <2>1. s \in 1..MaxSales /\ s - 1 \in 0..MaxSales /\ s \in 0..MaxSales
    BY <1>1 DEF Sales
  <2>2. p[s] = p[s - 1] + f[s] /\ f[s] \in Nat /\ g[s] \in Nat
    BY <1>3
  <2>3. CASE s = k
    BY <2>1, <2>2, <2>3, <1>5, <1>6
  <2>4. CASE s # k
    <3>1. g[s] = f[s] /\ p[s - 1] \in Nat /\ p[s] \in Nat
      BY <2>1, <2>4, <1>6
    <3>2. CASE s < k
      <4>1. q[s] = p[s] /\ q[s - 1] = p[s - 1]
        BY <2>1, <3>2, <1>1
      <4>2. QED
        BY <2>2, <3>1, <4>1
    <3>3. CASE s > k
      <4>1. q[s] = p[s] - f[k] + g[k] /\ q[s - 1] = p[s - 1] - f[k] + g[k]
        BY <2>1, <3>3, <1>1
      <4>2. QED
        BY <2>2, <3>1, <4>1, <1>5
    <3>4. QED
      BY <2>1, <2>4, <3>2, <3>3, <1>1
  <2>5. QED
    BY <2>3, <2>4
<1>11. ASSUME NEW m \in 0..MaxSales, NEW n \in 0..MaxSales, m <= n
       PROVE  /\ q[m] <= q[n]
              /\ (\A s \in Sales : m < s /\ s <= n => g[s] = 0) => q[n] = q[m]
  <2>1. p[m] <= p[n] /\ p[m] \in Nat /\ p[n] \in Nat /\ p[k] \in Nat /\ p[k - 1] \in Nat
    BY <1>11, <1>4, <1>5, <1>6
  <2>2. m < k => m <= k - 1
    BY <1>1
  <2>3. m < k => p[m] <= p[k - 1]
    BY <2>2, <1>4, <1>5
  <2>4. n >= k => p[n] >= p[k]
    BY <1>7
  <2>5. q[m] <= q[n]
    BY <2>1, <2>3, <2>4, <1>1, <1>5, <1>11
  <2>6. ASSUME \A s \in Sales : m < s /\ s <= n => g[s] = 0
        PROVE  q[n] = q[m]
    <3>1. CASE n < k \/ m >= k
      <4>1. \A s \in Sales : m < s /\ s <= n => f[s] = 0
        BY <2>6, <3>1, <1>1 DEF Sales
      <4>2. p[n] = p[m]
        BY <4>1, <1>4, <1>11
      <4>3. QED
        BY <4>2, <3>1, <1>1, <1>11
    <3>2. CASE m < k /\ n >= k
      <4>1. g[k] = 0
        BY <2>6, <3>2
      <4>2. \A s \in Sales : k < s /\ s <= n => f[s] = 0
        BY <2>6, <3>2, <1>1, <1>11 DEF Sales
      <4>3. p[n] = p[k]
        BY <4>2, <1>4, <1>5, <3>2
      <4>4. \A s \in Sales : m < s /\ s <= k - 1 => f[s] = 0
        BY <2>6, <3>2, <1>1, <1>11 DEF Sales
      <4>5. p[k - 1] = p[m]
        BY <4>4, <2>2, <1>4, <1>5, <3>2
      <4>6. QED
        BY <4>1, <4>3, <4>5, <2>1, <1>5, <3>2
    <3>3. QED
      BY <3>1, <3>2, <1>1
  <2>7. QED
    BY <2>5, <2>6
<1>12. Running(q, g)
  BY <1>8, <1>9, <1>10, <1>11 DEF Running
<1>13. q[MaxSales] = t - f[k] + g[k]
  BY <1>1, <1>2
<1>14. QED
  BY <1>8, <1>12, <1>13 DEF IsTotal

(* Two of them taken together.                                                   *)
LEMMA TotalSum ==
  ASSUME NEW f \in [Sales -> Nat], NEW g \in [Sales -> Nat], NEW h \in [Sales -> Nat],
         NEW t \in Nat, NEW u \in Nat,
         IsTotal(f, t), IsTotal(g, u), \A s \in Sales : h[s] = f[s] + g[s]
  PROVE  IsTotal(h, t + u)
<1>1. MaxSales \in Nat
  BY DebtAssumption
<1>2. PICK p \in [0..MaxSales -> Nat] : Running(p, f) /\ p[MaxSales] = t
  BY DEF IsTotal
<1>3. PICK r \in [0..MaxSales -> Nat] : Running(r, g) /\ r[MaxSales] = u
  BY DEF IsTotal
<1> DEFINE q == [n \in 0..MaxSales |-> p[n] + r[n]]
<1>4. q \in [0..MaxSales -> Nat] /\ q[0] = 0
  BY <1>1, <1>2, <1>3 DEF Running
<1>5. \A s \in Sales : q[s] = q[s - 1] + h[s]
  <2> SUFFICES ASSUME NEW s \in Sales PROVE q[s] = q[s - 1] + h[s]
    OBVIOUS
  <2>1. s \in 0..MaxSales /\ s - 1 \in 0..MaxSales
    BY <1>1 DEF Sales
  <2>2. p[s] = p[s - 1] + f[s] /\ r[s] = r[s - 1] + g[s] /\ f[s] \in Nat /\ g[s] \in Nat
    BY <1>2, <1>3 DEF Running
  <2>3. p[s - 1] \in Nat /\ r[s - 1] \in Nat
    BY <2>1
  <2>4. QED
    BY <2>1, <2>2, <2>3
<1>6. ASSUME NEW m \in 0..MaxSales, NEW n \in 0..MaxSales, m <= n
      PROVE  /\ q[m] <= q[n]
             /\ (\A s \in Sales : m < s /\ s <= n => h[s] = 0) => q[n] = q[m]
  <2>1. p[m] <= p[n] /\ r[m] <= r[n] /\ p[m] \in Nat /\ p[n] \in Nat /\ r[m] \in Nat /\ r[n] \in Nat
    BY <1>2, <1>3, <1>6 DEF Running
  <2>2. ASSUME \A s \in Sales : m < s /\ s <= n => h[s] = 0
        PROVE  p[n] = p[m] /\ r[n] = r[m]
    <3>1. \A s \in Sales : h[s] = 0 => f[s] = 0 /\ g[s] = 0
      OBVIOUS
    <3>2. QED
      BY <2>2, <3>1, <1>2, <1>3, <1>6 DEF Running
  <2>3. QED
    BY <2>1, <2>2
<1>7. Running(q, h)
  BY <1>4, <1>5, <1>6 DEF Running
<1>8. q[MaxSales] = t + u
  BY <1>1, <1>2, <1>3
<1>9. QED
  BY <1>4, <1>7, <1>8 DEF IsTotal

(* What the total says of a term, and of a single one.                           *)
LEMMA TotalLeast ==
  ASSUME NEW f \in [Sales -> Nat], NEW t, IsTotal(f, t), NEW k \in Sales
  PROVE  /\ t \in Nat /\ f[k] <= t
         /\ (\A s \in Sales : s # k => f[s] = 0) => t = f[k]
<1>1. MaxSales \in Nat /\ k \in 1..MaxSales
  BY DebtAssumption DEF Sales
<1>2. PICK p \in [0..MaxSales -> Nat] : Running(p, f) /\ p[MaxSales] = t
  BY DEF IsTotal
<1>3. p[0] = 0 /\ p[k] = p[k - 1] + f[k] /\ f[k] \in Nat
  BY <1>2 DEF Running
<1>4. k \in 0..MaxSales /\ k - 1 \in 0..MaxSales /\ 0 \in 0..MaxSales /\ MaxSales \in 0..MaxSales
  BY <1>1
<1>5. \A n \in 0..MaxSales : p[n] \in Nat
  OBVIOUS
<1>6. p[k] <= p[MaxSales]
  BY <1>1, <1>2, <1>4 DEF Running
<1>7. ASSUME \A s \in Sales : s # k => f[s] = 0 PROVE t = f[k]
  <2>1. \A s \in Sales : (0 < s /\ s <= k - 1) \/ (k < s /\ s <= MaxSales) => f[s] = 0
    BY <1>1, <1>7 DEF Sales
  <2>2. p[k - 1] = p[0] /\ p[MaxSales] = p[k]
    BY <2>1, <1>1, <1>2, <1>4 DEF Running
  <2>3. p[k] = 0 + f[k]
    BY <2>2, <1>3
  <2>4. QED
    BY <2>2, <2>3, <1>2, <1>3
<1>8. QED
  BY <1>2, <1>3, <1>4, <1>5, <1>6, <1>7

LEMMA TotalZero ==
  ASSUME NEW f \in [Sales -> Nat], NEW t, IsTotal(f, t)
  PROVE  /\ t \in Nat
         /\ (\A s \in Sales : f[s] = 0) => t = 0
<1>1. MaxSales \in Nat /\ MaxSales \in 0..MaxSales /\ 0 \in 0..MaxSales
  BY DebtAssumption
<1>2. PICK p \in [0..MaxSales -> Nat] : Running(p, f) /\ p[MaxSales] = t
  BY DEF IsTotal
<1>3. t \in Nat
  BY <1>1, <1>2
<1>4. (\A s \in Sales : f[s] = 0) => p[MaxSales] = p[0]
  BY <1>1, <1>2 DEF Running
<1>5. QED
  BY <1>2, <1>3, <1>4 DEF Running

----------------------------------------------------------------------------------
(* The fold is the total.  Induction is on numbers here: a set of naturals that  *)
(* is not empty has a least one, and the first number a fact fails at is refuted. *)

LEMMA LeastNat ==
  ASSUME NEW T \in SUBSET Nat, T # {}
  PROVE  \E n \in T : \A m \in T : n <= m
<1>1. PICK n \in T : \A m \in T : ~ (<<m, n>> \in OpToRel(<, Nat))
  BY NatLessThanWellFounded, WFMin
<1>2. \A m \in T : ~ (m < n)
  BY <1>1 DEF OpToRel
<1>3. QED
  BY <1>2

\* Any terms have a total, and only one.
LEMMA TotalExists ==
  ASSUME NEW f \in [Sales -> Nat]
  PROVE  \E t \in Nat : IsTotal(f, t)
<1> DEFINE Cut(n) == [s \in Sales |-> IF s <= n THEN f[s] ELSE 0]
           Bad == {n \in 0..MaxSales : ~ \E t \in Nat : IsTotal(Cut(n), t)}
<1>1. MaxSales \in Nat
  BY DebtAssumption
<1>2. \A n \in 0..MaxSales : Cut(n) \in [Sales -> Nat]
  OBVIOUS
<1>3. 0 \notin Bad
  <2>1. Cut(0) \in [Sales -> Nat] /\ \A s \in Sales : Cut(0)[s] = 0
    BY <1>1, <1>2 DEF Sales
  <2>2. IsTotal(Cut(0), 0)
    BY <2>1, TotalNone
  <2>3. QED
    BY <2>2
<1>4. ASSUME NEW n \in Bad, \A m \in Bad : n <= m PROVE FALSE
  <2>1. n \in Sales /\ n - 1 \in 0..MaxSales /\ n - 1 \notin Bad /\ n \in 0..MaxSales
    <3>1. n \in 0..MaxSales /\ n # 0
      BY <1>3
    <3>2. n - 1 \in 0..MaxSales /\ ~ (n <= n - 1)
      BY <1>1, <3>1
    <3> HIDE DEF Bad
    <3>3. n - 1 \notin Bad
      BY <1>4, <3>2
    <3>4. QED
      BY <1>1, <3>1, <3>2, <3>3 DEF Sales
  <2>2. PICK t \in Nat : IsTotal(Cut(n - 1), t)
    BY <2>1
  <2>3. \A s \in Sales : s # n => Cut(n)[s] = Cut(n - 1)[s]
    BY <1>1, <2>1 DEF Sales
  <2>4. Cut(n) \in [Sales -> Nat] /\ Cut(n - 1) \in [Sales -> Nat]
    BY <1>2, <2>1
  <2> HIDE DEF Cut
  <2>5. IsTotal(Cut(n), t - Cut(n - 1)[n] + Cut(n)[n])
    BY <2>1, <2>2, <2>3, <2>4, TotalChange
  <2>6. t - Cut(n - 1)[n] + Cut(n)[n] \in Nat
    BY <2>4, <2>5, TotalZero
  <2>7. QED
    BY <2>5, <2>6, <1>4
<1>5. Bad = {}
  <2>1. Bad \in SUBSET Nat
    BY <1>1
  <2> HIDE DEF Bad
  <2>2. QED
    BY <1>4, <2>1, LeastNat
<1>6. \E t \in Nat : IsTotal(Cut(MaxSales), t)
  BY <1>1, <1>5
<1>7. Cut(MaxSales) = f
  BY <1>1 DEF Sales
<1>8. QED
  BY <1>6, <1>7

LEMMA TotalUnique ==
  ASSUME NEW f \in [Sales -> Nat], NEW t, IsTotal(f, t), NEW u, IsTotal(f, u)
  PROVE  t = u
<1>1. MaxSales \in Nat
  BY DebtAssumption
<1>2. PICK p \in [0..MaxSales -> Nat] : Running(p, f) /\ p[MaxSales] = t
  BY DEF IsTotal
<1>3. PICK q \in [0..MaxSales -> Nat] : Running(q, f) /\ q[MaxSales] = u
  BY DEF IsTotal
<1> DEFINE Bad == {n \in 0..MaxSales : p[n] # q[n]}
<1>4. ASSUME NEW n \in Bad, \A m \in Bad : n <= m PROVE FALSE
  <2>1. n \in Sales /\ n - 1 \in 0..MaxSales
    BY <1>1, <1>2, <1>3 DEF Sales, Running
  <2>2. p[n - 1] = q[n - 1]
    BY <1>4, <2>1
  <2>3. p[n] = q[n]
    BY <1>2, <1>3, <2>1, <2>2 DEF Running
  <2>4. QED
    BY <2>3
<1>5. Bad = {}
  <2>1. Bad \in SUBSET Nat
    BY <1>1
  <2> HIDE DEF Bad
  <2>2. QED
    BY <1>4, <2>1, LeastNat
<1>6. QED
  BY <1>1, <1>2, <1>3, <1>5

\* The terms of a set of sales alone, and the equation a fold over it solves.
Only(f, T) == [s \in Sales |-> IF s \in T THEN f[s] ELSE 0]
Pick(T) == CHOOSE s \in T : TRUE
Folded(g, f, S) ==
    [T \in SUBSET S |-> IF T = {} THEN 0 ELSE f[Pick(T)] + g[T \ {Pick(T)}]]

\* One sale less, one term less.
LEMMA OnlyLess ==
  ASSUME NEW f \in [Sales -> Nat], NEW T \in SUBSET Sales, T # {},
         NEW t \in Nat, IsTotal(Only(f, T \ {Pick(T)}), t)
  PROVE  Pick(T) \in T /\ IsTotal(Only(f, T), f[Pick(T)] + t)
<1>1. Pick(T) \in T
  BY DEF Pick
<1> DEFINE k == Pick(T)
           g == Only(f, T \ {k})
           h == Only(f, T)
<1>2. k \in Sales /\ f[k] \in Nat
  BY <1>1
<1>3. g \in [Sales -> Nat] /\ h \in [Sales -> Nat]
  BY DEF Only
<1>4. g[k] = 0 /\ h[k] = f[k] /\ \A s \in Sales : s # k => h[s] = g[s]
  BY <1>1, <1>2 DEF Only
<1>5. IsTotal(g, t)
  OBVIOUS
<1> HIDE DEF g, h, k
<1>6. IsTotal(h, t - g[k] + h[k])
  BY <1>2, <1>3, <1>4, <1>5, TotalChange
<1>7. t - g[k] + h[k] = f[k] + t
  BY <1>2, <1>4
<1>8. IsTotal(h, f[k] + t)
  BY <1>6, <1>7
<1>9. QED
  BY <1>1, <1>8 DEF h, k

\* The equation has a solution, and any solution of it is the total.
LEMMA FoldExists ==
  ASSUME NEW f \in [Sales -> Nat], NEW S \in SUBSET Sales
  PROVE  \E g : g = Folded(g, f, S)
<1> DEFINE g == [T \in SUBSET S |-> CHOOSE t \in Nat : IsTotal(Only(f, T), t)]
<1>1. \A T \in SUBSET S : Only(f, T) \in [Sales -> Nat]
  BY DEF Only
<1>2. \A T \in SUBSET S : g[T] \in Nat /\ IsTotal(Only(f, T), g[T])
  BY <1>1, TotalExists
<1>3. \A T \in SUBSET S : g[T] = IF T = {} THEN 0 ELSE f[Pick(T)] + g[T \ {Pick(T)}]
  <2> SUFFICES ASSUME NEW T \in SUBSET S
               PROVE  g[T] = IF T = {} THEN 0 ELSE f[Pick(T)] + g[T \ {Pick(T)}]
    OBVIOUS
  <2>1. Only(f, T) \in [Sales -> Nat] /\ IsTotal(Only(f, T), g[T])
    BY <1>1, <1>2
  <2>2. CASE T = {}
    <3>1. \A s \in Sales : Only(f, T)[s] = 0
      BY <2>2 DEF Only
    <3>2. QED
      BY <2>1, <2>2, <3>1, TotalZero
  <2>3. CASE T # {}
    <3> DEFINE R == T \ {Pick(T)}
    <3>1. R \in SUBSET S /\ T \in SUBSET Sales
      OBVIOUS
    <3>2. g[R] \in Nat /\ IsTotal(Only(f, R), g[R])
      BY <1>2, <3>1
    <3> HIDE DEF g
    <3>3. IsTotal(Only(f, T), f[Pick(T)] + g[R])
      BY <2>3, <3>1, <3>2, OnlyLess
    <3>4. g[T] = f[Pick(T)] + g[R]
      BY <2>1, <3>3, TotalUnique
    <3>5. QED
      BY <2>3, <3>4
  <2>4. QED
    BY <2>2, <2>3
<1>4. g = [T \in SUBSET S |-> g[T]]
  OBVIOUS
<1> HIDE DEF g
<1>5. g = Folded(g, f, S)
  <2>1. [T \in SUBSET S |-> g[T]] = Folded(g, f, S)
    BY <1>3 DEF Folded
  <2>2. QED
    BY <1>4, <2>1
<1>6. QED
  BY <1>5

LEMMA FoldTotals ==
  ASSUME NEW f \in [Sales -> Nat], NEW S \in SUBSET Sales, NEW g, g = Folded(g, f, S)
  PROVE  g[S] \in Nat /\ IsTotal(Only(f, S), g[S])
<1>1. MaxSales \in Nat /\ IsFiniteSet(Sales)
  BY DebtAssumption, FS_Interval DEF Sales
<1>2. \A T \in SUBSET S : IsFiniteSet(T) /\ Cardinality(T) \in Nat
  BY <1>1, FS_Subset, FS_CardinalityType
<1>3. \A T \in SUBSET S : g[T] = IF T = {} THEN 0 ELSE f[Pick(T)] + g[T \ {Pick(T)}]
  BY DEF Folded
<1> DEFINE Good(T) == g[T] \in Nat /\ IsTotal(Only(f, T), g[T])
           Bad == {n \in Nat : \E T \in SUBSET S : Cardinality(T) = n /\ ~ Good(T)}
<1>4. ASSUME NEW n \in Bad, \A m \in Bad : n <= m PROVE FALSE
  <2>1. PICK T \in SUBSET S : Cardinality(T) = n /\ ~ Good(T)
    OBVIOUS
  <2>2. T # {}
    <3>1. ASSUME T = {} PROVE Good(T)
      <4>1. g[T] = 0 /\ Only(f, T) \in [Sales -> Nat] /\ \A s \in Sales : Only(f, T)[s] = 0
        BY <1>3, <3>1 DEF Only
      <4>2. QED
        BY <4>1, TotalNone
    <3>2. QED
      BY <2>1, <3>1
  <2> DEFINE R == T \ {Pick(T)}
  <2>3. Pick(T) \in T
    BY <2>2 DEF Pick
  <2>4. R \in SUBSET S /\ T \in SUBSET Sales /\ Cardinality(R) = n - 1
    BY <1>2, <2>1, <2>3, FS_RemoveElement
  <2>5. n - 1 \in Nat /\ n - 1 \notin Bad
    BY <1>2, <1>4, <2>4
  <2>6. Good(R)
    BY <2>4, <2>5
  <2>7. g[T] = f[Pick(T)] + g[R]
    BY <1>3, <2>2
  <2>8. f[Pick(T)] \in Nat
    BY <2>3, <2>4
  <2> HIDE DEF R
  <2>9. IsTotal(Only(f, T), f[Pick(T)] + g[R])
    BY <2>2, <2>4, <2>6, OnlyLess DEF R
  <2>10. QED
    BY <2>1, <2>6, <2>7, <2>8, <2>9
<1>5. Bad = {}
  <2>1. Bad \in SUBSET Nat
    OBVIOUS
  <2> HIDE DEF Bad
  <2>2. QED
    BY <1>4, <2>1, LeastNat
<1>6. Good(S)
  BY <1>2, <1>5
<1>7. QED
  BY <1>6

\* What the pieces, and the money, of a set of sales come to.
LEMMA UnitsSum ==
  ASSUME NEW l \in Lines, NEW S \in SUBSET Sales, NEW f \in [Sales -> Nat],
         \A s \in Sales : f[s] = IF s \in S THEN sale[s].units[l] ELSE 0
  PROVE  IsTotal(f, MapThenSumSet(LAMBDA s : sale[s].units[l], S))
<1> DEFINE Step(g) == [T \in SUBSET S |->
              IF T = {} THEN 0 ELSE sale[CHOOSE s \in T : TRUE].units[l] + g[T \ {CHOOSE s \in T : TRUE}]]
           sum == CHOOSE g : g = Step(g)
<1>1. MapThenSumSet(LAMBDA s : sale[s].units[l], S) = sum[S]
  BY DEF MapThenSumSet, MapThenFoldSet
<1>2. \A g : Folded(g, f, S) = Step(g)
  <2> SUFFICES ASSUME NEW g, NEW T \in SUBSET S, T # {}
               PROVE  f[Pick(T)] = sale[Pick(T)].units[l]
    BY DEF Folded, Pick
  <2>1. Pick(T) \in S
    BY DEF Pick
  <2>2. QED
    BY <2>1
<1>3. \E g : g = Folded(g, f, S)
  BY FoldExists
<1>4. sum = Folded(sum, f, S)
  <2> HIDE DEF Step
  <2>1. \E g : g = Step(g)
    BY <1>2, <1>3
  <2>2. sum = Step(sum)
    BY <2>1
  <2>3. QED
    BY <1>2, <2>2
<1> HIDE DEF sum
<1>5. IsTotal(Only(f, S), sum[S])
  BY <1>4, FoldTotals
<1>6. Only(f, S) = f
  BY DEF Only
<1>7. QED
  BY <1>1, <1>5, <1>6

LEMMA CentsSum ==
  ASSUME NEW l \in Lines, NEW S \in SUBSET Sales, NEW f \in [Sales -> Nat],
         \A s \in Sales : f[s] = IF s \in S THEN sale[s].cents[l] ELSE 0
  PROVE  IsTotal(f, MapThenSumSet(LAMBDA s : sale[s].cents[l], S))
<1> DEFINE Step(g) == [T \in SUBSET S |->
              IF T = {} THEN 0 ELSE sale[CHOOSE s \in T : TRUE].cents[l] + g[T \ {CHOOSE s \in T : TRUE}]]
           sum == CHOOSE g : g = Step(g)
<1>1. MapThenSumSet(LAMBDA s : sale[s].cents[l], S) = sum[S]
  BY DEF MapThenSumSet, MapThenFoldSet
<1>2. \A g : Folded(g, f, S) = Step(g)
  <2> SUFFICES ASSUME NEW g, NEW T \in SUBSET S, T # {}
               PROVE  f[Pick(T)] = sale[Pick(T)].cents[l]
    BY DEF Folded, Pick
  <2>1. Pick(T) \in S
    BY DEF Pick
  <2>2. QED
    BY <2>1
<1>3. \E g : g = Folded(g, f, S)
  BY FoldExists
<1>4. sum = Folded(sum, f, S)
  <2> HIDE DEF Step
  <2>1. \E g : g = Step(g)
    BY <1>2, <1>3
  <2>2. sum = Step(sum)
    BY <2>1
  <2>3. QED
    BY <1>2, <2>2
<1> HIDE DEF sum
<1>5. IsTotal(Only(f, S), sum[S])
  BY <1>4, FoldTotals
<1>6. Only(f, S) = f
  BY DEF Only
<1>7. QED
  BY <1>1, <1>5, <1>6

----------------------------------------------------------------------------------
(* The rounded shares of a line: none of it is nothing, all of it is its total.  *)
LEMMA CumWhole ==
  ASSUME NEW l \in Lines
  PROVE  /\ \A u \in Int : Cum(l, u) \in Int
         /\ Cum(l, 0) = 0
         /\ Cum(l, Qty[l]) = Total[l]
<1>1. Qty[l] \in Nat \ {0} /\ Total[l] \in Nat
  BY DebtAssumption
<1>2. \A q \in Nat \ {0}, t \in Nat :
        /\ \A u \in Int : (2 * t * u + q) \div (2 * q) \in Int
        /\ (2 * t * 0 + q) \div (2 * q) = 0
        /\ (2 * t * q + q) \div (2 * q) = t
  <2> SUFFICES ASSUME NEW q \in Nat \ {0}, NEW t \in Nat
               PROVE  /\ \A u \in Int : (2 * t * u + q) \div (2 * q) \in Int
                      /\ (2 * t * 0 + q) \div (2 * q) = 0
                      /\ (2 * t * q + q) \div (2 * q) = t
    OBVIOUS
  <2>1. \A u \in Int : (2 * t * u + q) \div (2 * q) \in Int
    OBVIOUS
  <2>2. (2 * t * 0 + q) \div (2 * q) = 0
    OBVIOUS
  <2>3. (2 * t * q + q) \div (2 * q) = t
    OBVIOUS
  <2>4. QED
    BY <2>1, <2>2, <2>3
<1>3. QED
  BY <1>1, <1>2 DEF Cum

----------------------------------------------------------------------------------
(* The invariant.                                                                *)

Counts(st) == st \notin {"none", "voided"}
Stood(s) == Counts(sale[s].st)
Toward(sl, s, l) == sl[s].kind = "prepay" /\ sl[s].line = l

\* Pieces the standing receipts paid for; «внески» of the chain c of l; those of no chain.
UnitsOf(sl, l) == [s \in Sales |-> IF Counts(sl[s].st) THEN sl[s].units[l] ELSE 0]
InMoney(sl, c, l) == [s \in Sales |->
    IF Toward(sl, s, l) /\ c # 0 /\ sl[s].chain = c /\ sl[s].st \in {"completed", "refunded"}
    THEN sl[s].cents[l] ELSE 0]
OutMoney(sl, c, l) == [s \in Sales |->
    IF Toward(sl, s, l) /\ ~ (c # 0 /\ sl[s].chain = c) /\ sl[s].st = "completed"
    THEN sl[s].cents[l] ELSE 0]

PaidAt(l) ==
    /\ IsTotal(UnitsOf(sale, l), line[l].paid)
    /\ IsTotal(InMoney(sale, line[l].chain, l), line[l].chained)
    /\ IsTotal(OutMoney(sale, line[l].chain, l), line[l].prepaid - line[l].chained)

\* What each kind of sale is: a «внесок» has money and no pieces, a closing receipt the rest of its line.
Money(sl) ==
    \A s \in Sales : sl[s].kind = "prepay" =>
      /\ sl[s].line \in Lines /\ sl[s].cents[sl[s].line] > 0 /\ sl[s].st # "part"
      /\ \A l \in Lines : sl[s].units[l] = 0 /\ (l # sl[s].line => sl[s].cents[l] = 0)

SaleAt(s) ==
    /\ s > sold => sale[s] = NoSale
    /\ s <= sold => sale[s].st # "none"
    /\ sale[s].chain # 0 => sale[s].line \in Lines /\ sale[s].chain <= line[sale[s].line].attempts
    /\ sale[s].doc # "none" => sale[s].chain # 0
    /\ sale[s].kind = "receipt" => sale[s].chain = 0
    /\ sale[s].kind = "close" =>
         /\ sale[s].line \in Lines /\ sale[s].pre[sale[s].line] > 0
         /\ sale[s].units[sale[s].line] > 0
         /\ \A l \in Lines : l # sale[s].line => sale[s].units[l] = 0
    /\ sale[s].kind # "prepay" => \A l \in Lines : sale[s].units[l] = 0 => sale[s].cents[l] = 0

SaleInv == Money(sale) /\ \A s \in Sales : SaleAt(s)

\* The receipt a line is closed by stands, took its last pieces and what was owed.
CloserAt(l) ==
    LET s == line[l].closer IN
    /\ s # 0 => /\ Stood(s) /\ sale[s].units[l] > 0
                /\ Left(l) = Qty[l] /\ ~ line[l].off
                /\ sale[s].cents[l] = Total[l] - Cum(l, Qty[l] - sale[s].units[l]) - line[l].prepaid
    /\ \A t \in Sales : sale[t].kind = "close" /\ sale[t].line = l /\ Stood(t) => s = t

\* A line whose last piece came back carries no «внесок» and outlives every receipt of it.
LineAt(l) ==
    /\ ~ line[l].given => line[l] = NoDebt
    /\ Left(l) <= Qty[l] /\ line[l].last <= sold
    /\ line[l].given /\ Left(l) = Qty[l] /\ line[l].closer = 0 =>
         /\ line[l].prepaid = 0
         /\ \A s \in Sales : sale[s].units[l] > 0 => s <= line[l].last

\* A chain the line is in has a «внесок» that stands, or went back with the goods.
ChainAt(l) ==
    LET c == line[l].chain IN
    /\ c <= line[l].attempts
    /\ c # 0 /\ giving[l][c] = "none" =>
         \E s \in Sales : Toward(sale, s, l) /\ sale[s].chain = c /\ sale[s].st = "completed"
    /\ c # 0 /\ giving[l][c] # "none" => line[l].closer # 0 /\ sale[line[l].closer].st = "refunded"

GiveInv ==
    /\ WholeChainBack
    /\ \A l \in Lines, c \in Chain : giving[l][c] # "none" => c <= line[l].attempts

\* b[s] pieces had left the line when receipt s was rung, and they lie on each other since the last return.
Stack(l, b) ==
    \A s \in Sales : Stood(s) /\ sale[s].units[l] > 0 /\ line[l].last < s =>
      /\ line[l].closer # s => sale[s].cents[l] = Cum(l, b[s] + sale[s].units[l]) - Cum(l, b[s])
      /\ (\A t \in Sales : s < t /\ Stood(t) => sale[t].units[l] = 0) => Left(l) = b[s] + sale[s].units[l]
      /\ \A t \in Sales :
           s < t /\ Stood(t) /\ sale[t].units[l] > 0
             /\ (\A r \in Sales : s < r /\ r < t /\ Stood(r) => sale[r].units[l] = 0)
           => b[t] = b[s] + sale[s].units[l]

StackAt(l) == Undercut(l) \/ \E b \in [Sales -> Int] : Stack(l, b)
JournalAt(l) == Undercut(l) \/ journal[l] = IF Open(l) THEN Owed(l) ELSE 0

LineHolds(l) == PaidAt(l) /\ CloserAt(l) /\ LineAt(l) /\ ChainAt(l) /\ StackAt(l) /\ JournalAt(l)

IInv == TypeOK /\ SaleInv /\ GiveInv /\ \A l \in Lines : LineHolds(l)

LEMMA Counted ==
  ASSUME NEW sl \in [Sales -> Sale], Money(sl), NEW l \in Lines, NEW c
  PROVE  /\ UnitsOf(sl, l) \in [Sales -> Nat]
         /\ InMoney(sl, c, l) \in [Sales -> Nat]
         /\ OutMoney(sl, c, l) \in [Sales -> Nat]
<1>1. \A s \in Sales : sl[s].units[l] \in Nat /\ sl[s].cents[l] \in Int
  BY DEF Sale
<1>2. \A s \in Sales : Toward(sl, s, l) => sl[s].cents[l] \in Nat
  BY <1>1 DEF Toward, Money
<1>3. QED
  BY <1>1, <1>2 DEF UnitsOf, InMoney, OutMoney

LEMMA TotalSame ==
  ASSUME NEW f \in [Sales -> Nat], NEW g \in [Sales -> Nat], NEW t, IsTotal(f, t),
         \A s \in Sales : f[s] = g[s]
  PROVE  IsTotal(g, t)
<1>1. f = g
  OBVIOUS
<1>2. QED
  BY <1>1

(* Sums and pieces are not negative.                                             *)
LEMMA PaidNat ==
  ASSUME TypeOK, Money(sale), NEW l \in Lines, PaidAt(l)
  PROVE  /\ line[l].paid \in Nat /\ line[l].chained \in Nat /\ line[l].prepaid - line[l].chained \in Nat
         /\ line[l].prepaid \in Nat
<1>1. sale \in [Sales -> Sale] /\ line[l].prepaid \in Int /\ line[l].chained \in Int
  BY DEF TypeOK, Line
<1>2. line[l].paid \in Nat /\ line[l].chained \in Nat /\ line[l].prepaid - line[l].chained \in Nat
  BY <1>1, Counted, TotalZero DEF PaidAt
<1>3. QED
  BY <1>1, <1>2

LEMMA Bounds ==
  ASSUME TypeOK, NEW l \in Lines
  PROVE  /\ line[l].closer # 0 => line[l].closer \in Sales
         /\ line[l].chain # 0 => line[l].chain \in Chain
         /\ l # NoLine /\ 0 \notin Chain /\ 0 \notin Sales
<1>1. line[l].closer \in 0..MaxSales /\ line[l].chain \in 0..MaxSales
  BY DEF TypeOK, Line
<1>2. MaxSales \in Nat /\ l \in Nat \ {0}
  BY DebtAssumption
<1>3. QED
  BY <1>1, <1>2 DEF Sales, Chain, NoLine

----------------------------------------------------------------------------------
(* Steps that leave the lines, the journal and what the receipts say alone: they *)
(* move documents, or receipts from standing whole to given back.                *)

Fixed(s) == /\ sale'[s].kind = sale[s].kind /\ sale'[s].units = sale[s].units
            /\ sale'[s].cents = sale[s].cents /\ sale'[s].pre = sale[s].pre
            /\ sale'[s].line = sale[s].line /\ sale'[s].chain = sale[s].chain

Calm ==
    /\ UNCHANGED <<line, journal, sold>> /\ sale' \in [Sales -> Sale]
    /\ \A s \in Sales :
         /\ Fixed(s)
         /\ \/ sale'[s].st = sale[s].st
            \/ /\ sale[s].kind = "prepay" /\ sale[s].st = "completed" /\ sale'[s].st = "refunded"
               /\ sale[s].chain # 0 /\ sale[s].chain = line[sale[s].line].chain
            \/ sale[s].kind # "prepay" /\ Stood(s) /\ sale'[s].st \in {"part", "refunded"}
         /\ sale[s].doc = "none" => sale'[s].doc = "none"
         /\ s > sold => sale'[s] = sale[s]

LEMMA CalmSales ==
  ASSUME TypeOK, SaleInv, Calm
  PROVE  SaleInv'
<1>1. line' = line /\ sold' = sold
  BY DEF Calm
<1>2. \A s \in Sales : Fixed(s)
  BY DEF Calm
<1>3. Money(sale')
  BY <1>2 DEF SaleInv, Money, Calm, Fixed
<1>4. ASSUME NEW s \in Sales
      PROVE  SaleAt(s)'
  <2>1. SaleAt(s) /\ Fixed(s)
    BY <1>2 DEF SaleInv
  <2>2. /\ s > sold => sale'[s] = NoSale
        /\ s <= sold => sale'[s].st # "none"
    BY <2>1 DEF SaleAt, Calm, Stood, Counts
  <2>3. sale'[s].doc # "none" => sale[s].doc # "none"
    BY DEF Calm
  <2>4. QED
    BY <1>1, <2>1, <2>2, <2>3 DEF SaleAt, Fixed
<1>5. QED
  BY <1>3, <1>4 DEF SaleInv

LEMMA CalmLine ==
  ASSUME TypeOK, SaleInv, Calm, NEW l \in Lines, LineHolds(l)
  PROVE  (PaidAt(l) /\ CloserAt(l) /\ LineAt(l) /\ StackAt(l) /\ JournalAt(l))'
<1>1. /\ line' = line /\ sold' = sold /\ journal' = journal
      /\ sale \in [Sales -> Sale] /\ sale' \in [Sales -> Sale]
  BY DEF Calm, TypeOK
<1>2. \A s \in Sales : Fixed(s)
  BY DEF Calm
<1>3. Money(sale) /\ Money(sale')
  BY CalmSales DEF SaleInv
<1>4. \A s \in Sales : Stood(s)' <=> Stood(s)
  BY DEF Calm, Stood, Counts
<1>5. line[l].closer # 0 => line[l].closer \in Sales
  BY DebtAssumption DEF TypeOK, Line, Sales
<1>6. PaidAt(l)'
  <2>1. \A s \in Sales : UnitsOf(sale', l)[s] = UnitsOf(sale, l)[s]
    BY <1>2 DEF UnitsOf, Calm, Fixed, Counts, Stood
  <2>2. \A s \in Sales : InMoney(sale', line[l].chain, l)[s] = InMoney(sale, line[l].chain, l)[s]
    BY <1>2 DEF InMoney, Toward, Calm, Fixed
  <2>3. \A s \in Sales : OutMoney(sale', line[l].chain, l)[s] = OutMoney(sale, line[l].chain, l)[s]
    BY <1>2 DEF OutMoney, Toward, Calm, Fixed
  <2>4. /\ UnitsOf(sale, l) \in [Sales -> Nat] /\ UnitsOf(sale', l) \in [Sales -> Nat]
        /\ InMoney(sale, line[l].chain, l) \in [Sales -> Nat]
        /\ InMoney(sale', line[l].chain, l) \in [Sales -> Nat]
        /\ OutMoney(sale, line[l].chain, l) \in [Sales -> Nat]
        /\ OutMoney(sale', line[l].chain, l) \in [Sales -> Nat]
    BY <1>1, <1>3, Counted
  <2>5. PaidAt(l)
    BY DEF LineHolds
  <2>6. QED
    BY <1>1, <2>1, <2>2, <2>3, <2>4, <2>5, TotalSame DEF PaidAt
<1>7. CloserAt(l)'
  BY <1>1, <1>2, <1>4, <1>5 DEF LineHolds, CloserAt, Left, Fixed
<1>8. LineAt(l)'
  BY <1>1, <1>2 DEF LineHolds, LineAt, Left, Fixed
<1>9. Undercut(l) => Undercut(l)'
  BY <1>2 DEF Undercut, Was, Calm, Stood, Counts, Fixed
<1>10. \A b \in [Sales -> Int] : Stack(l, b) => Stack(l, b)'
  BY <1>1, <1>2, <1>4 DEF Stack, Left, Fixed
<1>11. StackAt(l)'
  BY <1>9, <1>10 DEF LineHolds, StackAt
<1>12. JournalAt(l)'
  BY <1>1, <1>9 DEF LineHolds, JournalAt, Open, Owed, Left
<1>13. QED
  BY <1>6, <1>7, <1>8, <1>11, <1>12

(* A document moves.                                                             *)
LEMMA DocumentMoves ==
  ASSUME TypeOK, SaleInv, NEW s \in Sales, sale[s].doc # "none",
         UNCHANGED <<line, journal, sold>>, NEW d \in {"new", "sent", "due", "parked", "done"},
         NEW f \in BOOLEAN, sale' = [sale EXCEPT ![s] = [sale[s] EXCEPT !.doc = d, !.filed = f]]
  PROVE  Calm /\ \A t \in Sales : sale'[t].st = sale[t].st
<1>1. sale \in [Sales -> Sale]
  BY DEF TypeOK
<1>2. ASSUME NEW e \in Sale
      PROVE  LET q == [e EXCEPT !.doc = d, !.filed = f] IN
             /\ q \in Sale
             /\ q.st = e.st /\ q.kind = e.kind /\ q.units = e.units /\ q.cents = e.cents
             /\ q.pre = e.pre /\ q.line = e.line /\ q.chain = e.chain
  <2>1. [e EXCEPT !.doc = d, !.filed = f] \in Sale
    BY DEF Sale
  <2>2. QED
    BY <2>1 DEF Sale
<1> DEFINE r == [sale[s] EXCEPT !.doc = d, !.filed = f]
<1>3. /\ r \in Sale
      /\ r.st = sale[s].st /\ r.kind = sale[s].kind /\ r.units = sale[s].units /\ r.cents = sale[s].cents
      /\ r.pre = sale[s].pre /\ r.line = sale[s].line /\ r.chain = sale[s].chain
  BY <1>1, <1>2
<1>4. sale' = [sale EXCEPT ![s] = r]
  OBVIOUS
<1> HIDE DEF r
<1>5. /\ sale' \in [Sales -> Sale] /\ sale'[s] = r
      /\ \A t \in Sales : t # s => sale'[t] = sale[t]
  BY <1>1, <1>3, <1>4
<1>6. Fixed(s) /\ sale'[s].st = sale[s].st
  BY <1>3, <1>5 DEF Fixed
<1>7. s <= sold
  BY DEF SaleInv, SaleAt, NoSale, TypeOK, Sales
<1>8. \A t \in Sales : Fixed(t) /\ sale'[t].st = sale[t].st
  BY <1>5, <1>6 DEF Fixed
<1>9. \A t \in Sales : t > sold => sale'[t] = sale[t]
  BY <1>5, <1>7 DEF TypeOK, Sales
<1>10. \A t \in Sales : sale[t].doc = "none" => sale'[t].doc = "none"
  BY <1>5
<1>11. QED
  BY <1>5, <1>8, <1>9, <1>10 DEF Calm

LEMMA FiledType ==
  ASSUME TypeOK, SaleInv, NEW s \in Sales, sale[s].doc # "none", File(s)
  PROVE  /\ chains' \in [Lines -> [Chain -> [st : {"none", "open", "paid", "returned"}, left : Int]]]
         /\ \A l \in Lines, c \in Chain : chains'[l][c].st = "returned" => chains[l][c].st = "returned"
<1> DEFINE at == [st |-> IF sale[s].owed - sale[s].cents[sale[s].line] = 0 THEN "paid" ELSE "open",
                  left |-> sale[s].owed - sale[s].cents[sale[s].line]]
<1>1. sale[s].line \in Lines
  BY DEF SaleInv, SaleAt
<1>2. sale[s].owed \in Int /\ sale[s].cents[sale[s].line] \in Int
  BY <1>1 DEF TypeOK, Sale
<1>3. at \in [st : {"none", "open", "paid", "returned"}, left : Int] /\ at.st # "returned"
  BY <1>2
<1>4. chains' = [chains EXCEPT ![sale[s].line][sale[s].chain] = at]
  BY DEF File
<1> HIDE DEF at
<1>5. QED
  BY <1>3, <1>4 DEF TypeOK

LEMMA DocumentStep ==
  ASSUME IInv, Calm, \A t \in Sales : sale'[t].st = sale[t].st, UNCHANGED giving,
         UNCHANGED chains \/ \E s \in Sales : sale[s].doc # "none" /\ File(s)
  PROVE  IInv'
<1>1. /\ chains' \in [Lines -> [Chain -> [st : {"none", "open", "paid", "returned"}, left : Int]]]
      /\ \A l \in Lines, c \in Chain : chains'[l][c].st = "returned" => chains[l][c].st = "returned"
  BY FiledType DEF IInv, TypeOK
<1>2. TypeOK'
  BY <1>1 DEF IInv, TypeOK, Calm
<1>3. \A t \in Sales : Fixed(t)
  BY DEF Calm
<1>4. line' = line
  BY DEF Calm
<1>5. \A l \in Lines : line[l].closer # 0 => line[l].closer \in Sales
  BY DebtAssumption DEF IInv, TypeOK, Line, Sales
<1>6. ASSUME NEW l \in Lines PROVE ChainAt(l)'
  <2>1. ChainAt(l)
    BY DEF IInv, LineHolds
  <2>2. giving' = giving
    OBVIOUS
  <2>3. QED
    BY <1>3, <1>4, <1>5, <2>1, <2>2 DEF ChainAt, Toward, Fixed
<1>7. GiveInv'
  <2>1. \A l \in Lines, c \in Chain : giving'[l][c] = giving[l][c]
    OBVIOUS
  <2>2. \A t \in Sales : /\ sale'[t].line = sale[t].line /\ sale'[t].chain = sale[t].chain
                         /\ sale'[t].st = sale[t].st
    BY <1>3 DEF Fixed
  <2>5. ASSUME NEW l \in Lines, NEW c \in Chain
        PROVE  /\ giving'[l][c] # "none" => \A t \in Sales : InChain(t, l, c)' => Was(t, {"refunded", "voided"})'
               /\ giving'[l][c] = "none" => \A t \in Sales : InChain(t, l, c)' => ~ Was(t, {"part", "refunded"})'
               /\ chains'[l][c].st = "returned" => giving'[l][c] = "done"
    <3>1. \A t \in Sales : InChain(t, l, c)' <=> InChain(t, l, c)
      BY <2>2 DEF InChain
    <3>2. \A t \in Sales : /\ Was(t, {"refunded", "voided"})' <=> Was(t, {"refunded", "voided"})
                           /\ Was(t, {"part", "refunded"})' <=> Was(t, {"part", "refunded"})
      BY <2>2 DEF Was
    <3>3. /\ giving[l][c] # "none" => \A t \in Sales : InChain(t, l, c) => Was(t, {"refunded", "voided"})
          /\ giving[l][c] = "none" => \A t \in Sales : InChain(t, l, c) => ~ Was(t, {"part", "refunded"})
          /\ chains[l][c].st = "returned" => giving[l][c] = "done"
      BY DEF IInv, GiveInv, WholeChainBack
    <3>4. giving'[l][c] = giving[l][c] /\ (chains'[l][c].st = "returned" => chains[l][c].st = "returned")
      BY <1>1, <2>1
    <3>5. QED
      BY <3>1, <3>2, <3>3, <3>4
  <2>3. WholeChainBack'
    BY <2>5 DEF WholeChainBack
  <2>4. QED
    BY <1>4, <2>1, <2>3 DEF IInv, GiveInv
<1>8. QED
  BY <1>2, <1>6, <1>7, CalmSales, CalmLine DEF IInv, LineHolds

LEMMA DocAs ==
  ASSUME TypeOK, NEW s \in Sales, NEW d
  PROVE  /\ [sale EXCEPT ![s].doc = d]
              = [sale EXCEPT ![s] = [sale[s] EXCEPT !.doc = d, !.filed = sale[s].filed]]
         /\ [sale EXCEPT ![s].doc = d, ![s].filed = TRUE]
              = [sale EXCEPT ![s] = [sale[s] EXCEPT !.doc = d, !.filed = TRUE]]
<1>1. sale \in [Sales -> Sale]
  BY DEF TypeOK
<1>2. \A e \in Sale : [e EXCEPT !.doc = d] = [e EXCEPT !.doc = d, !.filed = e.filed]
  BY DEF Sale
<1>3. [sale EXCEPT ![s].doc = d] = [sale EXCEPT ![s] = [sale[s] EXCEPT !.doc = d]]
  BY <1>1
<1>4. [sale EXCEPT ![s].doc = d, ![s].filed = TRUE]
         = [sale EXCEPT ![s] = [sale[s] EXCEPT !.doc = d, !.filed = TRUE]]
  BY <1>1
<1>5. QED
  BY <1>1, <1>2, <1>3, <1>4

RefusedLate(s) == /\ sale[s].doc = "sent" /\ sale' = [sale EXCEPT ![s].doc = "parked"]
                  /\ UNCHANGED <<line, journal, sold, chains, giving>>

LEMMA DocumentKeeps ==
  ASSUME IInv, NEW s \in Sales,
         Send(s) \/ Accepted(s) \/ Unanswered(s) \/ Retry(s) \/ RefusedLate(s)
  PROVE  IInv'
<1>1. sale[s].doc # "none" /\ UNCHANGED <<line, journal, sold, giving>>
  BY DEF Send, Accepted, Unanswered, Retry, RefusedLate
<1>2. UNCHANGED chains \/ File(s)
  BY DEF Send, Accepted, Unanswered, Retry, RefusedLate
<1>3. \E d \in {"new", "sent", "due", "parked", "done"} :
        \/ sale' = [sale EXCEPT ![s].doc = d]
        \/ sale' = [sale EXCEPT ![s].doc = d, ![s].filed = TRUE]
  BY DEF Send, Accepted, Unanswered, Retry, RefusedLate
<1>4. sale[s].filed \in BOOLEAN
  BY DEF IInv, TypeOK, Sale
<1>5. PICK d \in {"new", "sent", "due", "parked", "done"} :
        \/ sale' = [sale EXCEPT ![s].doc = d]
        \/ sale' = [sale EXCEPT ![s].doc = d, ![s].filed = TRUE]
  BY <1>3
<1>8. \E f \in BOOLEAN : sale' = [sale EXCEPT ![s] = [sale[s] EXCEPT !.doc = d, !.filed = f]]
  <2>1. TypeOK
    BY DEF IInv
  <2>2. CASE sale' = [sale EXCEPT ![s].doc = d]
    <3>1. sale' = [sale EXCEPT ![s] = [sale[s] EXCEPT !.doc = d, !.filed = sale[s].filed]]
      BY <2>1, <2>2, DocAs
    <3>2. QED
      BY <3>1, <1>4
  <2>3. CASE sale' = [sale EXCEPT ![s].doc = d, ![s].filed = TRUE]
    <3>1. sale' = [sale EXCEPT ![s] = [sale[s] EXCEPT !.doc = d, !.filed = TRUE]]
      BY <2>1, <2>3, DocAs
    <3>2. QED
      BY <3>1
  <2>4. QED
    BY <1>5, <2>2, <2>3
<1>6. Calm /\ \A t \in Sales : sale'[t].st = sale[t].st
  BY <1>1, <1>8, DocumentMoves DEF IInv
<1>7. QED
  BY <1>1, <1>2, <1>6, DocumentStep

(* What a state keeps that only the chains' returns move in.                     *)
LEMMA ReturnRegistered ==
  ASSUME IInv, NEW k \in Lines, NEW d \in Chain, RegisterReturn(k, d)
  PROVE  IInv'
<1>1. UNCHANGED <<line, journal, sale, sold>>
  BY DEF RegisterReturn
<1>9. /\ giving \in [Lines -> [Chain -> {"none", "due", "parked", "done"}]]
      /\ chains \in [Lines -> [Chain -> [st : {"none", "open", "paid", "returned"}, left : Int]]]
  BY DEF IInv, TypeOK
<1>2. /\ giving' \in [Lines -> [Chain -> {"none", "due", "parked", "done"}]]
      /\ \A l \in Lines, c \in Chain : giving'[l][c] = "none" <=> giving[l][c] = "none"
      /\ \A l \in Lines, c \in Chain : giving[l][c] = "done" => giving'[l][c] = "done"
  <2>1. PICK x \in {"parked", "done"} : giving' = [giving EXCEPT ![k][d] = x]
    BY DEF RegisterReturn
  <2>2. giving[k][d] = "due"
    BY DEF RegisterReturn
  <2>3. QED
    BY <1>9, <2>1, <2>2
<1>3. /\ chains' \in [Lines -> [Chain -> [st : {"none", "open", "paid", "returned"}, left : Int]]]
      /\ \A l \in Lines, c \in Chain :
            chains'[l][c].st = "returned" => chains[l][c].st = "returned" \/ giving'[l][c] = "done"
  <2>1. CASE UNCHANGED chains
    BY <1>9, <2>1
  <2>2. CASE /\ chains' = [chains EXCEPT ![k][d] = [st |-> "returned", left |-> 0]]
             /\ giving' = [giving EXCEPT ![k][d] = "done"]
    <3> DEFINE x == [st |-> "returned", left |-> 0]
    <3>1. x \in [st : {"none", "open", "paid", "returned"}, left : Int]
      OBVIOUS
    <3>2. chains' = [chains EXCEPT ![k][d] = x]
      BY <2>2
    <3> HIDE DEF x
    <3>3. QED
      BY <1>9, <2>2, <3>1, <3>2
  <2>3. QED
    BY <2>1, <2>2 DEF RegisterReturn
<1>4. TypeOK'
  BY <1>1, <1>2, <1>3 DEF IInv, TypeOK
<1>5. SaleInv'
  BY <1>1 DEF IInv, SaleInv, SaleAt, Money
<1>6. ASSUME NEW l \in Lines PROVE LineHolds(l)'
  <2>1. LineHolds(l)
    BY DEF IInv
  <2>2. (PaidAt(l) /\ CloserAt(l) /\ LineAt(l))'
    BY <1>1, <2>1 DEF LineHolds, PaidAt, CloserAt, LineAt, Left, Stood, UnitsOf, InMoney, OutMoney, Toward
  <2>3. (StackAt(l) /\ JournalAt(l))'
    BY <1>1, <2>1 DEF LineHolds, StackAt, Stack, JournalAt, Stood, Left, Open, Owed, Undercut, Was
  <2>4. ChainAt(l)'
    <3>1. line[l].chain # 0 => line[l].chain \in Chain
      BY Bounds DEF IInv
    <3>2. QED
      BY <1>1, <1>2, <2>1, <3>1 DEF LineHolds, ChainAt, Toward
  <2>5. QED
    BY <2>2, <2>3, <2>4 DEF LineHolds
<1>7. GiveInv'
  <2>1. \A l \in Lines, c \in Chain : giving'[l][c] # "none" => c <= line'[l].attempts
    BY <1>1, <1>2 DEF IInv, GiveInv
  <2>2. ASSUME NEW l \in Lines, NEW c \in Chain
        PROVE  /\ giving'[l][c] # "none" => \A t \in Sales : InChain(t, l, c)' => Was(t, {"refunded", "voided"})'
               /\ giving'[l][c] = "none" => \A t \in Sales : InChain(t, l, c)' => ~ Was(t, {"part", "refunded"})'
               /\ chains'[l][c].st = "returned" => giving'[l][c] = "done"
    <3>1. /\ giving[l][c] # "none" => \A t \in Sales : InChain(t, l, c) => Was(t, {"refunded", "voided"})
          /\ giving[l][c] = "none" => \A t \in Sales : InChain(t, l, c) => ~ Was(t, {"part", "refunded"})
          /\ chains[l][c].st = "returned" => giving[l][c] = "done"
      BY DEF IInv, GiveInv, WholeChainBack
    <3>2. sale' = sale
      BY <1>1
    <3>3. QED
      BY <1>2, <1>3, <3>1, <3>2 DEF InChain, Was
  <2>3. QED
    BY <2>1, <2>2 DEF GiveInv, WholeChainBack
<1>8. QED
  BY <1>4, <1>5, <1>6, <1>7 DEF IInv

(* An ordinary receipt comes back.                                               *)
LEMMA Refunded ==
  ASSUME IInv, NEW s \in Sales, Refund(s)
  PROVE  IInv'
<1>1. UNCHANGED <<line, journal, sold, chains, giving>>
  BY DEF Refund
<1>2. sale \in [Sales -> Sale]
  BY DEF IInv, TypeOK
<1>3. PICK st \in {"part", "refunded"} : sale' = [sale EXCEPT ![s].st = st]
  BY DEF Refund
<1>4. \A e \in Sale :
        LET q == [e EXCEPT !.st = st] IN
        /\ q \in Sale /\ q.st = st /\ q.doc = e.doc
        /\ q.kind = e.kind /\ q.units = e.units /\ q.cents = e.cents
        /\ q.pre = e.pre /\ q.line = e.line /\ q.chain = e.chain
  BY DEF Sale
<1>5. /\ sale' \in [Sales -> Sale] /\ sale'[s] = [sale[s] EXCEPT !.st = st]
      /\ \A t \in Sales : t # s => sale'[t] = sale[t]
  BY <1>2, <1>3, <1>4
<1>6. Fixed(s) /\ sale'[s].st = st /\ sale'[s].doc = sale[s].doc
  BY <1>2, <1>4, <1>5 DEF Fixed
<1>7. SaleAt(s) /\ Money(sale)
  BY DEF IInv, SaleInv
<1>8. PICK l0 \in Lines : sale[s].units[l0] > 0 /\ sale[s].pre[l0] <= 0
  BY DEF Refund, Refundable
<1>9. sale[s].kind # "prepay" /\ sale[s].st \in {"completed", "part"}
  BY <1>7, <1>8 DEF Money, Refund
<1>10. s <= sold
  BY <1>7, <1>9 DEF SaleAt, NoSale, IInv, TypeOK, Sales
<1>11. sale[s].chain = 0
  <2>1. sale[s].kind \in {"receipt", "close"}
    BY <1>2, <1>9 DEF Sale
  <2>2. sale[s].kind # "close"
    BY <1>2, <1>7, <1>8 DEF SaleAt, Sale
  <2>3. QED
    BY <2>1, <2>2, <1>7 DEF SaleAt
<1>12. Calm
  <2>1. ASSUME NEW t \in Sales
        PROVE  /\ Fixed(t)
               /\ \/ sale'[t].st = sale[t].st
                  \/ sale[t].kind # "prepay" /\ Stood(t) /\ sale'[t].st \in {"part", "refunded"}
               /\ sale[t].doc = "none" => sale'[t].doc = "none"
               /\ t > sold => sale'[t] = sale[t]
    <3>1. CASE t = s
      BY <3>1, <1>6, <1>9, <1>10 DEF Stood, Counts, IInv, TypeOK, Sales
    <3>2. CASE t # s
      BY <3>2, <1>5 DEF Fixed
    <3>3. QED
      BY <3>1, <3>2
  <2>2. QED
    BY <1>1, <1>5, <2>1 DEF Calm
<1>13. TypeOK'
  BY <1>1, <1>5 DEF IInv, TypeOK
<1>14. ASSUME NEW l \in Lines PROVE ChainAt(l)'
  <2>1. ChainAt(l) /\ (line[l].closer # 0 => line[l].closer \in Sales)
    BY Bounds DEF IInv, LineHolds
  <2>2. \A t \in Sales : Toward(sale, t, l) => sale'[t] = sale[t]
    BY <1>5, <1>9 DEF Toward
  <2>3. \A t \in Sales : sale[t].st = "refunded" => sale'[t] = sale[t]
    BY <1>5, <1>9
  <2>4. QED
    BY <1>1, <2>1, <2>2, <2>3 DEF ChainAt, Toward
<1>15. GiveInv'
  <2>1. \A t \in Sales, c \in Chain : sale'[t].chain = c => sale'[t] = sale[t]
    <3>1. \A c \in Chain : c # 0
      BY DebtAssumption DEF Chain
    <3>2. sale'[s].chain = 0
      BY <1>6, <1>11 DEF Fixed
    <3>3. QED
      BY <1>5, <3>1, <3>2
  <2>2. ASSUME NEW l \in Lines, NEW c \in Chain
        PROVE  /\ giving'[l][c] # "none" => \A t \in Sales : InChain(t, l, c)' => Was(t, {"refunded", "voided"})'
               /\ giving'[l][c] = "none" => \A t \in Sales : InChain(t, l, c)' => ~ Was(t, {"part", "refunded"})'
               /\ chains'[l][c].st = "returned" => giving'[l][c] = "done"
    BY <1>1, <2>1 DEF IInv, GiveInv, WholeChainBack, InChain, Was
  <2>3. QED
    BY <1>1, <2>2 DEF IInv, GiveInv, WholeChainBack
<1>16. QED
  BY <1>12, <1>13, <1>14, <1>15, CalmSales, CalmLine DEF IInv, LineHolds

----------------------------------------------------------------------------------
(* A chain given back.                                                           *)

LEMMA GivenBack ==
  ASSUME IInv, NEW l \in Lines, NEW S \in SUBSET Sales, GiveBack(l, S), UNCHANGED chains,
         \A k \in Lines : line'[k].attempts = line[k].attempts
  PROVE  /\ sale' \in [Sales -> Sale]
         /\ giving' \in [Lines -> [Chain -> {"none", "due", "parked", "done"}]]
         /\ \A s \in Sales : Fixed(s) /\ sale'[s].doc = sale[s].doc
         /\ \A s \in S : /\ sale[s].st = "completed" /\ sale'[s].st = "refunded" /\ s <= sold
                         /\ sale[s].line = l /\ sale[s].chain = line[l].chain
         /\ \A s \in Sales \ S : sale'[s] = sale[s]
         /\ giving[l][line[l].chain] = "none" /\ giving'[l][line[l].chain] = "due"
         /\ \A k \in Lines \ {l} : giving'[k] = giving[k]
         /\ GiveInv'
<1> DEFINE d == line[l].chain
<1>1. /\ sale \in [Sales -> Sale] /\ d \in Chain /\ l # NoLine
      /\ giving \in [Lines -> [Chain -> {"none", "due", "parked", "done"}]]
  BY Bounds DEF IInv, TypeOK, GiveBack
<1>2. \A e \in Sale :
        LET q == [e EXCEPT !.st = "refunded"] IN
        /\ q \in Sale /\ q.st = "refunded" /\ q.doc = e.doc
        /\ q.kind = e.kind /\ q.units = e.units /\ q.cents = e.cents
        /\ q.pre = e.pre /\ q.line = e.line /\ q.chain = e.chain
  BY DEF Sale
<1>3. sale' = [s \in Sales |-> IF s \in S THEN [sale[s] EXCEPT !.st = "refunded"] ELSE sale[s]]
  BY DEF GiveBack
<1>4. /\ sale' \in [Sales -> Sale]
      /\ \A s \in S : sale'[s] = [sale[s] EXCEPT !.st = "refunded"]
      /\ \A s \in Sales \ S : sale'[s] = sale[s]
  BY <1>1, <1>2, <1>3
<1>5. \A s \in Sales : Fixed(s) /\ sale'[s].doc = sale[s].doc
  <2> SUFFICES ASSUME NEW s \in Sales PROVE Fixed(s) /\ sale'[s].doc = sale[s].doc
    OBVIOUS
  <2>1. CASE s \in S
    <3>1. sale[s] \in Sale
      BY <1>1
    <3>2. PICK q : q = [sale[s] EXCEPT !.st = "refunded"]
      OBVIOUS
    <3>3. /\ q.doc = sale[s].doc /\ q.kind = sale[s].kind /\ q.units = sale[s].units
          /\ q.cents = sale[s].cents /\ q.pre = sale[s].pre /\ q.line = sale[s].line
          /\ q.chain = sale[s].chain
      BY <1>2, <3>1, <3>2
    <3>4. sale'[s] = q
      BY <1>4, <2>1, <3>2
    <3>5. QED
      BY <3>3, <3>4 DEF Fixed
  <2>2. CASE s \notin S
    BY <1>4, <2>2 DEF Fixed
  <2>3. QED
    BY <2>1, <2>2
<1>6. \A s \in S : sale'[s].st = "refunded"
  <2> SUFFICES ASSUME NEW s \in S PROVE sale'[s].st = "refunded"
    OBVIOUS
  <2>1. sale[s] \in Sale /\ sale'[s] = [sale[s] EXCEPT !.st = "refunded"]
    BY <1>1, <1>4
  <2>2. QED
    BY <1>2, <2>1
<1>7. S = {s \in Sales : InChain(s, l, d) /\ sale[s].st \notin {"none", "voided"}}
  BY DEF GiveBack, Standing
<1>8. \A s \in S : sale[s].st = "completed" /\ sale[s].line = l /\ sale[s].chain = d
  BY <1>7 DEF GiveBack, InChain
<1>9. \A s \in Sales : sale[s].st # "none" => s <= sold
  BY DEF IInv, SaleInv, SaleAt, NoSale, TypeOK, Sales
<1>10. \A s \in S : s <= sold
  BY <1>8, <1>9
<1>11. giving' = [giving EXCEPT ![l][d] = "due"]
  BY DEF GiveBack
<1> HIDE DEF d
<1>12. /\ giving' \in [Lines -> [Chain -> {"none", "due", "parked", "done"}]]
       /\ giving'[l][d] = "due" /\ \A k \in Lines \ {l} : giving'[k] = giving[k]
       /\ \A c \in Chain \ {d} : giving'[l][c] = giving[l][c]
  BY <1>1, <1>11
<1>13. PICK s0 \in S : sale[s0].kind = "prepay"
  BY DEF GiveBack
<1>14. giving[l][d] = "none" /\ chains[l][d].st # "returned"
  <2>1. InChain(s0, l, d) /\ s0 \in Sales /\ sale[s0].st = "completed"
    BY <1>7, <1>8, <1>13
  <2>2. /\ giving[l][d] # "none" => \A s \in Sales : InChain(s, l, d) => Was(s, {"refunded", "voided"})
        /\ chains[l][d].st = "returned" => giving[l][d] = "done"
    BY <1>1 DEF IInv, GiveInv, WholeChainBack
  <2>3. QED
    BY <2>1, <2>2 DEF Was
<1>15. GiveInv'
  <2>1. ASSUME NEW k \in Lines, NEW c \in Chain
        PROVE  /\ giving'[k][c] # "none" => c <= line'[k].attempts
               /\ giving'[k][c] # "none" => \A s \in Sales : InChain(s, k, c)' => Was(s, {"refunded", "voided"})'
               /\ giving'[k][c] = "none" => \A s \in Sales : InChain(s, k, c)' => ~ Was(s, {"part", "refunded"})'
               /\ chains'[k][c].st = "returned" => giving'[k][c] = "done"
    <3>1. /\ giving[k][c] # "none" => c <= line[k].attempts
          /\ giving[k][c] # "none" => \A s \in Sales : InChain(s, k, c) => Was(s, {"refunded", "voided"})
          /\ giving[k][c] = "none" => \A s \in Sales : InChain(s, k, c) => ~ Was(s, {"part", "refunded"})
          /\ chains[k][c].st = "returned" => giving[k][c] = "done"
      BY DEF IInv, GiveInv, WholeChainBack
    <3>2. chains' = chains /\ line'[k].attempts = line[k].attempts
      OBVIOUS
    <3>3. \A s \in Sales : InChain(s, k, c)' <=> InChain(s, k, c)
      BY <1>5 DEF InChain, Fixed
    <3>4. CASE k = l /\ c = d
      <4>1. d <= line[l].attempts
        BY DEF IInv, LineHolds, ChainAt, d
      <4>2. ASSUME NEW s \in Sales, InChain(s, l, d) PROVE sale'[s].st \in {"refunded", "voided"}
        <5>1. CASE s \in S
          BY <1>6, <5>1
        <5>2. CASE s \notin S
          <6>1. sale[s].st \in {"none", "voided"} /\ sale'[s] = sale[s]
            BY <1>4, <1>7, <4>2, <5>2
          <6>2. sale[s].st # "none"
            <7>1. sale[s].line = l /\ l # NoSale.line
              BY <1>1, <4>2 DEF InChain, NoSale
            <7>2. (s > sold => sale[s] = NoSale) /\ (s <= sold => sale[s].st # "none")
              BY DEF IInv, SaleInv, SaleAt
            <7>3. s \in Int /\ sold \in Int
              BY DEF IInv, TypeOK, Sales
            <7>4. QED
              BY <7>1, <7>2, <7>3
          <6>3. QED
            BY <6>1, <6>2
        <5>3. QED
          BY <5>1, <5>2
      <4>3. QED
        BY <1>12, <1>14, <3>2, <3>3, <3>4, <4>1, <4>2 DEF Was
    <3>5. CASE ~ (k = l /\ c = d)
      <4>1. giving'[k][c] = giving[k][c]
        BY <1>12, <3>5
      <4>2. \A s \in Sales : InChain(s, k, c) => sale'[s] = sale[s]
        BY <1>4, <1>8, <3>5 DEF InChain
      <4>3. QED
        BY <3>1, <3>2, <3>3, <4>1, <4>2 DEF Was
    <3>6. QED
      BY <3>4, <3>5
  <2>2. QED
    BY <2>1 DEF GiveInv, WholeChainBack
<1>16. QED
  BY <1>4, <1>5, <1>6, <1>8, <1>10, <1>12, <1>14, <1>15 DEF d

LEMMA ChainGoodsBack ==
  ASSUME IInv, NEW l \in Lines, ReturnChainGoods(l)
  PROVE  IInv'
<1>1. UNCHANGED <<line, journal, sold, chains>> /\ line[l].closer # 0
  BY DEF ReturnChainGoods
<1>2. PICK S \in SUBSET Sales : /\ GiveBack(l, S) /\ line[l].closer \in S
                               /\ \A s \in S : sale[s].kind = "prepay" \/ s = line[l].closer
  BY DEF ReturnChainGoods
<1>3. /\ sale' \in [Sales -> Sale]
      /\ giving' \in [Lines -> [Chain -> {"none", "due", "parked", "done"}]]
      /\ \A s \in Sales : Fixed(s) /\ sale'[s].doc = sale[s].doc
      /\ \A s \in S : /\ sale[s].st = "completed" /\ sale'[s].st = "refunded" /\ s <= sold
                      /\ sale[s].line = l /\ sale[s].chain = line[l].chain
      /\ \A s \in Sales \ S : sale'[s] = sale[s]
      /\ giving[l][line[l].chain] = "none" /\ giving'[l][line[l].chain] = "due"
      /\ \A k \in Lines \ {l} : giving'[k] = giving[k]
      /\ GiveInv'
  BY <1>1, <1>2, GivenBack
<1>4. line[l].chain # 0 /\ \A k \in Lines : line[k].closer # 0 => line[k].closer \in Sales
  BY <1>2, Bounds DEF GiveBack, IInv
<1>5. Money(sale)
  BY DEF IInv, SaleInv
<1>6. Calm
  <2>1. ASSUME NEW t \in Sales
        PROVE  /\ Fixed(t)
               /\ \/ sale'[t].st = sale[t].st
                  \/ /\ sale[t].kind = "prepay" /\ sale[t].st = "completed" /\ sale'[t].st = "refunded"
                     /\ sale[t].chain # 0 /\ sale[t].chain = line[sale[t].line].chain
                  \/ sale[t].kind # "prepay" /\ Stood(t) /\ sale'[t].st \in {"part", "refunded"}
               /\ sale[t].doc = "none" => sale'[t].doc = "none"
               /\ t > sold => sale'[t] = sale[t]
    <3>1. CASE t \in S
      BY <3>1, <1>3, <1>4 DEF Stood, Counts, IInv, TypeOK, Sales
    <3>2. CASE t \notin S
      BY <3>2, <1>3
    <3>3. QED
      BY <3>1, <3>2
  <2>2. QED
    BY <1>1, <1>3, <2>1 DEF Calm
<1>7. TypeOK'
  BY <1>1, <1>3 DEF IInv, TypeOK
<1>8. ASSUME NEW k \in Lines PROVE ChainAt(k)'
  <2>1. ChainAt(k)
    BY DEF IInv, LineHolds
  <2>2. \A t \in Sales : sale[t].st = "refunded" => sale'[t] = sale[t]
    BY <1>3
  <2>3. CASE k = l
    <3>1. sale'[line[l].closer].st = "refunded"
      BY <1>2, <1>3
    <3>2. QED
      BY <1>1, <1>3, <2>1, <2>3, <3>1 DEF ChainAt
  <2>4. CASE k # l
    <3>1. \A t \in Sales : sale[t].line = k => sale'[t] = sale[t]
      BY <1>3, <2>4
    <3>2. giving'[k] = giving[k] /\ line'[k] = line[k]
      BY <1>1, <1>3, <2>4
    <3>3. QED
      BY <1>4, <2>1, <2>2, <3>1, <3>2 DEF ChainAt, Toward
  <2>5. QED
    BY <2>3, <2>4
<1>9. QED
  BY <1>3, <1>6, <1>7, <1>8, CalmSales, CalmLine DEF IInv, LineHolds

----------------------------------------------------------------------------------
(* A line that a step has nothing to do with.                                    *)

\* A sale that neither paid for pieces of the line nor is of its chains or «внески».
Blind(sl, s, l) == sl[s].units[l] = 0 /\ (sl[s].line = l => sl[s].kind = "receipt")

LEMMA Untouched ==
  ASSUME TypeOK, Money(sale), NEW l \in Lines, LineHolds(l),
         sale' \in [Sales -> Sale], Money(sale)', sold' \in Int, sold' >= sold,
         line'[l] = line[l], journal'[l] = journal[l], giving'[l] = giving[l],
         \A s \in Sales : sale'[s] = sale[s] \/ (Blind(sale, s, l) /\ Blind(sale', s, l))
  PROVE  LineHolds(l)'
<1>1. sale \in [Sales -> Sale] /\ line[l].last \in Int /\ sold \in Int
  BY DEF TypeOK, Line
<1>2. \A s \in Sales : /\ sale'[s].units[l] = sale[s].units[l] /\ sale[s].units[l] \in Nat
                       /\ sale[s].units[l] > 0 => sale'[s] = sale[s]
                       /\ Toward(sale, s, l) => sale'[s] = sale[s]
                       /\ Toward(sale', s, l) => sale'[s] = sale[s]
                       /\ sale'[s].kind = "close" /\ sale'[s].line = l => sale'[s] = sale[s]
  BY <1>1 DEF Blind, Toward, Sale
<1>3. PaidAt(l)'
  <2>1. \A s \in Sales : UnitsOf(sale', l)[s] = UnitsOf(sale, l)[s]
    BY <1>2 DEF UnitsOf
  <2>2. ASSUME NEW s \in Sales
        PROVE  InMoney(sale', line[l].chain, l)[s] = InMoney(sale, line[l].chain, l)[s]
    <3>1. CASE sale'[s] = sale[s]
      BY <3>1 DEF InMoney, Toward
    <3>2. CASE ~ Toward(sale, s, l) /\ ~ Toward(sale', s, l)
      BY <3>2 DEF InMoney
    <3>3. QED
      BY <1>2, <3>1, <3>2
  <2>3. ASSUME NEW s \in Sales
        PROVE  OutMoney(sale', line[l].chain, l)[s] = OutMoney(sale, line[l].chain, l)[s]
    <3>1. CASE sale'[s] = sale[s]
      BY <3>1 DEF OutMoney, Toward
    <3>2. CASE ~ Toward(sale, s, l) /\ ~ Toward(sale', s, l)
      BY <3>2 DEF OutMoney
    <3>3. QED
      BY <1>2, <3>1, <3>2
  <2>4. /\ UnitsOf(sale, l) \in [Sales -> Nat] /\ UnitsOf(sale', l) \in [Sales -> Nat]
        /\ InMoney(sale, line[l].chain, l) \in [Sales -> Nat]
        /\ InMoney(sale', line[l].chain, l) \in [Sales -> Nat]
        /\ OutMoney(sale, line[l].chain, l) \in [Sales -> Nat]
        /\ OutMoney(sale', line[l].chain, l) \in [Sales -> Nat]
    BY <1>1, Counted
  <2>5. PaidAt(l)
    BY DEF LineHolds
  <2>6. QED
    BY <2>1, <2>2, <2>3, <2>4, <2>5, TotalSame DEF PaidAt
<1>4. CloserAt(l)'
  <2>1. CloserAt(l) /\ (line[l].closer # 0 => line[l].closer \in Sales)
    BY Bounds DEF LineHolds
  <2>2. QED
    BY <1>2, <2>1 DEF CloserAt, Left, Stood
<1>5. LineAt(l)'
  <2>1. LineAt(l)
    BY DEF LineHolds
  <2>2. QED
    BY <1>1, <1>2, <2>1 DEF LineAt, Left
<1>6. ChainAt(l)'
  <2>1. /\ ChainAt(l) /\ (line[l].closer # 0 => line[l].closer \in Sales)
        /\ line[l].closer # 0 => sale[line[l].closer].units[l] > 0
    BY Bounds DEF LineHolds, CloserAt
  <2>2. line[l].closer # 0 => sale'[line[l].closer] = sale[line[l].closer]
    BY <1>2, <2>1
  <2>3. \A s \in Sales : Toward(sale, s, l) => Toward(sale', s, l)
    BY <1>2 DEF Toward
  <2>4. QED
    BY <1>2, <2>1, <2>2, <2>3 DEF ChainAt
<1>7. Undercut(l) => Undercut(l)'
  BY <1>2 DEF Undercut, Was
<1>8. \A s \in Sales : Stood(s)' /\ sale'[s].units[l] > 0 <=> Stood(s) /\ sale[s].units[l] > 0
  BY <1>2 DEF Stood
<1>9. ASSUME NEW b \in [Sales -> Int], Stack(l, b) PROVE Stack(l, b)'
  <2> SUFFICES ASSUME NEW s \in Sales, Stood(s)', sale'[s].units[l] > 0, line'[l].last < s
               PROVE  /\ line'[l].closer # s => sale'[s].cents[l] = Cum(l, b[s] + sale'[s].units[l]) - Cum(l, b[s])
                      /\ (\A t \in Sales : s < t /\ Stood(t)' => sale'[t].units[l] = 0)
                           => Left(l)' = b[s] + sale'[s].units[l]
                      /\ \A t \in Sales :
                           s < t /\ Stood(t)' /\ sale'[t].units[l] > 0
                             /\ (\A r \in Sales : s < r /\ r < t /\ Stood(r)' => sale'[r].units[l] = 0)
                           => b[t] = b[s] + sale'[s].units[l]
    BY DEF Stack
  <2>1. /\ Stood(s) /\ sale[s].units[l] > 0 /\ line[l].last < s
        /\ sale'[s] = sale[s] /\ Left(l)' = Left(l) /\ line'[l].closer = line[l].closer
    BY <1>2, <1>8 DEF Left
  <2>2. \A t \in Sales : (Stood(t)' => sale'[t].units[l] = 0) <=> (Stood(t) => sale[t].units[l] = 0)
    BY <1>2, <1>8
  <2>3. QED
    BY <1>8, <1>9, <2>1, <2>2 DEF Stack
<1>10. StackAt(l)'
  BY <1>7, <1>9 DEF LineHolds, StackAt
<1>11. JournalAt(l)'
  BY <1>7 DEF LineHolds, JournalAt, Open, Owed, Left
<1>12. QED
  BY <1>3, <1>4, <1>5, <1>6, <1>10, <1>11 DEF LineHolds

\* A sale a step leaves alone stays what it is.
LEMMA SaleKept ==
  ASSUME TypeOK, NEW s \in Sales, SaleAt(s), sale'[s] = sale[s],
         sold' = sold \/ (sold' = sold + 1 /\ s # sold'),
         \A l \in Lines : line'[l].attempts \in Nat /\ line'[l].attempts >= line[l].attempts
  PROVE  SaleAt(s)'
<1>1. s \in Int /\ sold \in Int
  BY DEF TypeOK, Sales
<1>2. /\ s > sold' => s > sold
      /\ s <= sold' => s <= sold
  BY <1>1
<1>3. \A l \in Lines : line[l].attempts \in Nat /\ sale[s].chain \in Int
  BY DEF TypeOK, Line, Sale
<1>4. sale[s].chain # 0 => sale[s].line \in Lines /\ sale[s].chain <= line'[sale[s].line].attempts
  BY <1>3 DEF SaleAt
<1>5. QED
  BY <1>2, <1>4 DEF SaleAt

----------------------------------------------------------------------------------
(* Goods given, brought back, forgiven: no sale changes.                         *)

SalesStill == UNCHANGED <<sale, sold, chains, giving>>

LEMMA StillSales ==
  ASSUME IInv, SalesStill, \A l \in Lines : line'[l].attempts = line[l].attempts
  PROVE  SaleInv' /\ GiveInv'
<1>1. TypeOK /\ sale' = sale /\ sold' = sold /\ giving' = giving /\ chains' = chains
  BY DEF IInv, SalesStill
<1>2. \A l \in Lines : line'[l].attempts \in Nat /\ line'[l].attempts >= line[l].attempts
  BY <1>1 DEF TypeOK, Line
<1>3. \A s \in Sales : SaleAt(s)'
  BY <1>1, <1>2, SaleKept DEF IInv, SaleInv
<1>4. Money(sale)'
  BY <1>1 DEF IInv, SaleInv, Money
<1>5. GiveInv'
  BY <1>1 DEF IInv, GiveInv, WholeChainBack, InChain, Was
<1>6. QED
  BY <1>3, <1>4, <1>5 DEF SaleInv

LEMMA StillLine ==
  ASSUME IInv, SalesStill, NEW l \in Lines,
         line'[l].paid = line[l].paid, line'[l].prepaid = line[l].prepaid,
         line'[l].chained = line[l].chained, line'[l].chain = line[l].chain,
         line'[l].closer = line[l].closer, line'[l].attempts = line[l].attempts
  PROVE  PaidAt(l)' /\ ChainAt(l)' /\ (Undercut(l) => Undercut(l)')
<1>1. LineHolds(l) /\ sale' = sale /\ giving' = giving
  BY DEF IInv, SalesStill
<1>2. PaidAt(l)'
  BY <1>1 DEF LineHolds, PaidAt, UnitsOf, InMoney, OutMoney, Toward
<1>3. ChainAt(l)'
  BY <1>1 DEF LineHolds, ChainAt, Toward
<1>4. Undercut(l) => Undercut(l)'
  BY <1>1 DEF Undercut, Was
<1>5. QED
  BY <1>2, <1>3, <1>4

LEMMA OtherStill ==
  ASSUME IInv, SalesStill, NEW l \in Lines, line'[l] = line[l], journal'[l] = journal[l]
  PROVE  LineHolds(l)'
<1>1. TypeOK /\ Money(sale) /\ LineHolds(l) /\ sale' = sale /\ sold' = sold /\ giving' = giving
  BY DEF IInv, SalesStill, SaleInv
<1>2. sale' \in [Sales -> Sale] /\ Money(sale)' /\ sold' \in Int /\ sold' >= sold
  BY <1>1 DEF TypeOK, Money
<1>3. QED
  BY <1>1, <1>2, Untouched

LEMMA Issued ==
  ASSUME IInv, NEW k \in Lines, Issue(k)
  PROVE  IInv'
<1>1. TypeOK /\ SalesStill /\ ~ line[k].given /\ line \in [Lines -> Line] /\ journal \in [Lines -> Int]
  BY DEF IInv, Issue, SalesStill, TypeOK
<1>2. LineHolds(k) /\ line[k] = NoDebt
  BY <1>1 DEF IInv, LineHolds, LineAt
<1> DEFINE r == [NoDebt EXCEPT !.given = TRUE]
<1>3. line' = [line EXCEPT ![k] = r]
  BY <1>1, <1>2 DEF Issue
<1>4. /\ r \in Line /\ r.given = TRUE /\ r.off = FALSE
      /\ r.returned = 0 /\ r.paid = 0 /\ r.prepaid = 0 /\ r.chained = 0 /\ r.closer = 0
      /\ r.chain = 0 /\ r.attempts = 0 /\ r.last = 0
  <2>1. NoDebt \in Line
    BY DebtAssumption DEF NoDebt, Line
  <2>2. \A e \in Line :
          LET q == [e EXCEPT !.given = TRUE] IN
          /\ q \in Line /\ q.given = TRUE /\ q.off = e.off
          /\ q.returned = e.returned /\ q.paid = e.paid /\ q.prepaid = e.prepaid
          /\ q.chained = e.chained /\ q.closer = e.closer
          /\ q.chain = e.chain /\ q.attempts = e.attempts /\ q.last = e.last
    BY DEF Line
  <2>3. /\ NoDebt.off = FALSE /\ NoDebt.returned = 0 /\ NoDebt.paid = 0 /\ NoDebt.prepaid = 0
        /\ NoDebt.chained = 0 /\ NoDebt.closer = 0 /\ NoDebt.chain = 0
        /\ NoDebt.attempts = 0 /\ NoDebt.last = 0
    BY DEF NoDebt
  <2>4. QED
    BY <2>1, <2>2, <2>3
<1>5. /\ NoDebt.returned = 0 /\ NoDebt.paid = 0 /\ NoDebt.prepaid = 0 /\ NoDebt.chained = 0
      /\ NoDebt.closer = 0 /\ NoDebt.chain = 0 /\ NoDebt.attempts = 0 /\ NoDebt.last = 0
  BY DEF NoDebt
<1> HIDE DEF r
<1>6. /\ line' \in [Lines -> Line] /\ line'[k] = r
      /\ \A l \in Lines : l # k => line'[l] = line[l]
  BY <1>1, <1>3, <1>4
<1>7. Total[k] \in Nat /\ Qty[k] \in Nat \ {0} /\ Cum(k, 0) = 0
  BY DebtAssumption, CumWhole
<1>8. /\ journal' \in [Lines -> Int] /\ journal'[k] = Total[k]
      /\ \A l \in Lines : l # k => journal'[l] = journal[l]
  BY <1>1, <1>7 DEF Issue
<1>9. TypeOK'
  BY <1>1, <1>6, <1>8 DEF TypeOK, SalesStill
<1>10. \A l \in Lines : line'[l].attempts = line[l].attempts
  BY <1>2, <1>4, <1>5, <1>6
<1>11. SaleInv' /\ GiveInv'
  BY <1>1, <1>10, StillSales
<1>12. PaidAt(k)' /\ ChainAt(k)' /\ (Undercut(k) => Undercut(k)')
  BY <1>1, <1>2, <1>4, <1>5, <1>6, StillLine
<1>13. Left(k)' = 0 /\ Left(k) = 0 /\ Open(k)' /\ Owed(k)' = Total[k]
  BY <1>2, <1>4, <1>5, <1>6, <1>7 DEF Left, Open, Owed
<1>14. CloserAt(k)'
  BY <1>1, <1>2, <1>4, <1>5, <1>6 DEF LineHolds, CloserAt, SalesStill, Stood
<1>15. LineAt(k)'
  BY <1>1, <1>4, <1>6, <1>7, <1>13 DEF LineAt, TypeOK, SalesStill
<1>16. StackAt(k)'
  <2>1. \A b \in [Sales -> Int] : Stack(k, b) => Stack(k, b)'
    BY <1>1, <1>2, <1>4, <1>5, <1>6, <1>13 DEF Stack, SalesStill, Stood
  <2>2. QED
    BY <1>2, <1>12, <2>1 DEF LineHolds, StackAt
<1>17. JournalAt(k)'
  BY <1>8, <1>13 DEF JournalAt
<1>18. ASSUME NEW l \in Lines PROVE LineHolds(l)'
  <2>1. CASE l = k
    BY <1>12, <1>14, <1>15, <1>16, <1>17, <2>1 DEF LineHolds
  <2>2. CASE l # k
    BY <1>1, <1>6, <1>8, <2>2, OtherStill
  <2>3. QED
    BY <2>1, <2>2
<1>19. QED
  BY <1>9, <1>11, <1>18 DEF IInv

Brought(e, v, m) == [e EXCEPT !.returned = v, !.last = m]

LEMMA BroughtLine ==
  ASSUME NEW e \in Line, NEW v \in Nat, NEW m \in 0..MaxSales
  PROVE  LET q == Brought(e, v, m) IN
         /\ q \in Line /\ q.given = e.given /\ q.off = e.off
         /\ q.returned = v /\ q.paid = e.paid /\ q.prepaid = e.prepaid
         /\ q.chained = e.chained /\ q.closer = e.closer
         /\ q.chain = e.chain /\ q.attempts = e.attempts /\ q.last = m
BY DEF Line, Brought

LEMMA BroughtBack ==
  ASSUME IInv, NEW k \in Lines, NEW n \in 1..Qty[k], Return(k, n)
  PROVE  IInv'
<1>1. TypeOK /\ SalesStill /\ line \in [Lines -> Line] /\ journal \in [Lines -> Int]
  BY DEF IInv, Return, SalesStill, TypeOK
<1>2. LineHolds(k) /\ Open(k) /\ line[k].prepaid <= 0 /\ n \in 1..Remaining(k) /\ line[k] \in Line
  BY <1>1 DEF IInv, Return
<1>3. Total[k] \in Nat /\ Qty[k] \in Nat \ {0}
  BY DebtAssumption
<1> DEFINE r == [line[k] EXCEPT !.returned = @ + n, !.last = sold]
<1>4. line' = [line EXCEPT ![k] = r]
  BY <1>1 DEF Return
<1>5. n \in Nat /\ sold \in 0..MaxSales /\ sold \in Int
  BY <1>1, <1>3 DEF TypeOK
<1>6. /\ r \in Line /\ r.given = line[k].given /\ r.off = line[k].off
      /\ r.returned = line[k].returned + n /\ r.paid = line[k].paid /\ r.prepaid = line[k].prepaid
      /\ r.chained = line[k].chained /\ r.closer = line[k].closer
      /\ r.chain = line[k].chain /\ r.attempts = line[k].attempts /\ r.last = sold
  <2>1. PICK v \in Nat : v = line[k].returned + n
    BY <1>2, <1>5 DEF Line
  <2>2. PICK e \in Line, m \in 0..MaxSales : e = line[k] /\ m = sold
    BY <1>2, <1>5
  <2>3. PICK q : q = Brought(e, v, m)
    OBVIOUS
  <2>4. r = q
    BY <2>1, <2>2, <2>3 DEF Brought
  <2>5. /\ q \in Line /\ q.given = e.given /\ q.off = e.off /\ q.returned = v /\ q.paid = e.paid
        /\ q.prepaid = e.prepaid /\ q.chained = e.chained /\ q.closer = e.closer
        /\ q.chain = e.chain /\ q.attempts = e.attempts /\ q.last = m
    BY <2>3, BroughtLine
  <2> HIDE DEF r
  <2>6. QED
    BY <2>1, <2>2, <2>4, <2>5
<1> HIDE DEF r
<1>7. /\ line' \in [Lines -> Line] /\ line'[k] = r
      /\ \A l \in Lines : l # k => line'[l] = line[l]
  BY <1>1, <1>4, <1>6
<1>8. Left(k) \in Int /\ Left(k)' = Left(k) + n /\ Left(k)' <= Qty[k]
  BY <1>2, <1>3, <1>5, <1>6, <1>7 DEF Left, Remaining, Line
<1>9. /\ Cum(k, Left(k)) \in Int /\ Cum(k, Left(k)') \in Int /\ Cum(k, Qty[k]) = Total[k]
      /\ UnitsCents(k, n) = Cum(k, Left(k)') - Cum(k, Left(k))
  <2>1. /\ \A u \in Int : Cum(k, u) \in Int
        /\ Cum(k, Qty[k]) = Total[k]
    BY CumWhole
  <2>2. Left(k)' \in Int
    BY <1>5, <1>8
  <2>3. QED
    BY <1>8, <2>1, <2>2 DEF UnitsCents
<1>10. /\ journal' \in [Lines -> Int] /\ journal'[k] = journal[k] - UnitsCents(k, n)
       /\ \A l \in Lines : l # k => journal'[l] = journal[l]
  BY <1>1, <1>9 DEF Return
<1>11. TypeOK'
  BY <1>1, <1>7, <1>10 DEF TypeOK, SalesStill
<1>12. \A l \in Lines : line'[l].attempts = line[l].attempts
  BY <1>6, <1>7
<1>13. SaleInv' /\ GiveInv'
  BY <1>1, <1>12, StillSales
<1>14. PaidAt(k)' /\ ChainAt(k)' /\ (Undercut(k) => Undercut(k)')
  BY <1>1, <1>6, <1>7, StillLine
<1>15. line[k].prepaid = 0
  <2>1. line[k].prepaid \in Nat
    BY <1>1, <1>2, PaidNat DEF IInv, SaleInv, LineHolds
  <2>2. QED
    BY <1>2, <2>1
<1>16. \A s \in Sales : Stood(s) \/ sale[s].units[k] > 0 => s <= sold
  <2> SUFFICES ASSUME NEW s \in Sales, s > sold PROVE ~ Stood(s) /\ sale[s].units[k] = 0
    BY <1>5 DEF Sales, IInv, TypeOK, Sale
  <2>1. sale[s] = NoSale
    BY DEF IInv, SaleInv, SaleAt
  <2>2. QED
    BY <2>1 DEF NoSale, Nothing, Stood, Counts
<1>17. CloserAt(k)'
  BY <1>1, <1>2, <1>6, <1>7 DEF LineHolds, CloserAt, SalesStill, Stood, Open
<1>18. LineAt(k)'
  <2>1. line'[k].given /\ line'[k].prepaid = 0 /\ line'[k].last = sold /\ sold' = sold /\ sale' = sale
    BY <1>1, <1>2, <1>6, <1>7, <1>15 DEF SalesStill, Open
  <2>2. \A s \in Sales : sale'[s].units[k] > 0 => s <= line'[k].last
    BY <1>16, <2>1
  <2>3. QED
    BY <1>5, <1>8, <2>1, <2>2 DEF LineAt
<1>19. StackAt(k)'
  <2>1. [s \in Sales |-> 0] \in [Sales -> Int]
    OBVIOUS
  <2>2. \A s \in Sales : ~ (Stood(s)' /\ line'[k].last < s)
    BY <1>1, <1>5, <1>6, <1>7, <1>16 DEF SalesStill, Stood, Sales
  <2>3. Stack(k, [s \in Sales |-> 0])'
    BY <2>2 DEF Stack
  <2>4. QED
    BY <2>1, <2>3 DEF StackAt
<1>20. JournalAt(k)'
  <2>1. CASE Undercut(k)
    BY <1>14, <2>1 DEF JournalAt
  <2>2. CASE ~ Undercut(k)
    <3>1. journal[k] = Total[k] - Cum(k, Left(k)) - 0
      BY <1>2, <1>15, <2>2 DEF LineHolds, JournalAt, Owed
    <3>2. journal'[k] = Total[k] - Cum(k, Left(k)')
      BY <1>3, <1>9, <1>10, <3>1
    <3>3. Owed(k)' = Total[k] - Cum(k, Left(k)')
      BY <1>3, <1>6, <1>7, <1>9, <1>15 DEF Owed
    <3>4. ~ Open(k)' => Left(k)' = Qty[k]
      <4>1. ~ Open(k)' => ~ (Left(k)' < Qty[k])
        BY <1>2, <1>6, <1>7 DEF Open
      <4>2. QED
        BY <1>3, <1>5, <1>8, <4>1
    <3>5. Left(k)' = Qty[k] => journal'[k] = 0
      BY <1>3, <1>9, <3>2
    <3>6. QED
      BY <3>2, <3>3, <3>4, <3>5 DEF JournalAt
  <2>3. QED
    BY <2>1, <2>2
<1>21. ASSUME NEW l \in Lines PROVE LineHolds(l)'
  <2>1. CASE l = k
    BY <1>14, <1>17, <1>18, <1>19, <1>20, <2>1 DEF LineHolds
  <2>2. CASE l # k
    BY <1>1, <1>7, <1>10, <2>2, OtherStill
  <2>3. QED
    BY <2>1, <2>2
<1>22. QED
  BY <1>11, <1>13, <1>21 DEF IInv

LEMMA Forgiven ==
  ASSUME IInv, NEW W \in SUBSET Lines, WriteOff(W)
  PROVE  IInv'
<1>1. TypeOK /\ SalesStill /\ line \in [Lines -> Line] /\ journal \in [Lines -> Int]
  BY DEF IInv, WriteOff, SalesStill, TypeOK
<1>2. \A e \in Line, o \in BOOLEAN :
        LET q == [e EXCEPT !.off = o] IN
        /\ q \in Line /\ q.given = e.given /\ q.off = o
        /\ q.returned = e.returned /\ q.paid = e.paid /\ q.prepaid = e.prepaid
        /\ q.chained = e.chained /\ q.closer = e.closer
        /\ q.chain = e.chain /\ q.attempts = e.attempts /\ q.last = e.last
        /\ (o = e.off => q = e)
  BY DEF Line
<1>3. \A l \in Lines : line[l] \in Line /\ line[l].off \in BOOLEAN
  BY <1>1 DEF Line
<1>4. \A l \in Lines : line'[l] = [line[l] EXCEPT !.off = line[l].off \/ l \in W]
  BY <1>1 DEF WriteOff
<1>5. ASSUME NEW l \in Lines
      PROVE  /\ line'[l] \in Line /\ line'[l].given = line[l].given
             /\ line'[l].returned = line[l].returned /\ line'[l].paid = line[l].paid
             /\ line'[l].prepaid = line[l].prepaid /\ line'[l].chained = line[l].chained
             /\ line'[l].closer = line[l].closer /\ line'[l].chain = line[l].chain
             /\ line'[l].attempts = line[l].attempts /\ line'[l].last = line[l].last
             /\ l \in W => line'[l].off = TRUE
             /\ l \notin W => line'[l] = line[l]
  <2>1. CASE l \in W
    <3>1. line'[l] = [line[l] EXCEPT !.off = TRUE]
      BY <1>4, <2>1
    <3>2. line[l] \in Line /\ TRUE \in BOOLEAN
      BY <1>3
    <3>3. LET q == [line[l] EXCEPT !.off = TRUE] IN
            /\ q \in Line /\ q.given = line[l].given /\ q.off = TRUE
            /\ q.returned = line[l].returned /\ q.paid = line[l].paid /\ q.prepaid = line[l].prepaid
            /\ q.chained = line[l].chained /\ q.closer = line[l].closer
            /\ q.chain = line[l].chain /\ q.attempts = line[l].attempts /\ q.last = line[l].last
      BY <1>2, <3>2
    <3>4. QED
      BY <2>1, <3>1, <3>3
  <2>2. CASE l \notin W
    <3>1. (line[l].off \/ l \in W) = line[l].off
      BY <1>3, <2>2
    <3>2. line'[l] = [line[l] EXCEPT !.off = line[l].off]
      BY <1>4, <3>1
    <3>3. line'[l] = line[l]
      BY <1>3, <3>2 DEF Line
    <3>4. QED
      BY <1>3, <2>2, <3>3
  <2>3. QED
    BY <2>1, <2>2
<1>6. line' = [l \in Lines |-> line'[l]]
  BY DEF WriteOff
<1>7. line' \in [Lines -> Line]
  BY <1>5, <1>6
<1>8. \A l \in Lines : Owed(l) \in Int
  <2> SUFFICES ASSUME NEW l \in Lines PROVE Owed(l) \in Int
    OBVIOUS
  <2>1. Left(l) \in Int /\ line[l].prepaid \in Int
    BY <1>3 DEF Left, Line
  <2>2. Cum(l, Left(l)) \in Int /\ Total[l] \in Int
    BY <2>1, CumWhole, DebtAssumption
  <2>3. QED
    BY <2>1, <2>2 DEF Owed
<1>9. /\ journal' \in [Lines -> Int]
      /\ \A l \in W : journal'[l] = journal[l] - Owed(l)
      /\ \A l \in Lines : l \notin W => journal'[l] = journal[l]
  BY <1>1, <1>8 DEF WriteOff
<1>10. TypeOK'
  BY <1>1, <1>7, <1>9 DEF TypeOK, SalesStill
<1>11. SaleInv' /\ GiveInv'
  BY <1>1, <1>5, StillSales
<1>12. ASSUME NEW l \in Lines PROVE LineHolds(l)'
  <2>1. CASE l \in W
    <3>1. PaidAt(l)' /\ ChainAt(l)' /\ (Undercut(l) => Undercut(l)')
      BY <1>1, <1>5, StillLine
    <3>2. LineHolds(l) /\ Open(l) /\ Left(l)' = Left(l) /\ sale' = sale /\ sold' = sold
      BY <1>1, <1>5, <2>1 DEF IInv, WriteOff, SalesStill, Left
    <3>3. CloserAt(l)'
      <4>1. line'[l].closer = line[l].closer /\ line[l].closer = 0 /\ CloserAt(l)
        BY <1>5, <3>2 DEF LineHolds, Open
      <4>2. \A t \in Sales : Stood(t)' <=> Stood(t)
        BY <3>2 DEF Stood
      <4>3. QED
        BY <3>2, <4>1, <4>2 DEF CloserAt
    <3>4. LineAt(l)'
      <4>1. line'[l].given /\ Left(l) < Qty[l] /\ Left(l) \in Int /\ Qty[l] \in Int
        <5>1. line[l].given /\ Left(l) < Qty[l] /\ line'[l].given = line[l].given
          BY <1>5, <3>2 DEF Open
        <5>2. Left(l) \in Int /\ Qty[l] \in Int
          BY <1>3, DebtAssumption DEF Left, Line
        <5>3. QED
          BY <5>1, <5>2
      <4>2. QED
        BY <1>5, <3>2, <4>1 DEF LineHolds, LineAt
    <3>5. \A b \in [Sales -> Int] : Stack(l, b) => Stack(l, b)'
      <4>1. line'[l].closer = line[l].closer /\ line'[l].last = line[l].last
        BY <1>5
      <4>2. \A t \in Sales : Stood(t)' <=> Stood(t)
        BY <3>2 DEF Stood
      <4>3. QED
        BY <3>2, <4>1, <4>2 DEF Stack
    <3>6. StackAt(l)'
      BY <3>1, <3>2, <3>5 DEF LineHolds, StackAt
    <3>7. JournalAt(l)'
      <4>1. ~ Open(l)'
        BY <1>5, <2>1 DEF Open
      <4>2. Undercut(l) \/ journal[l] = Owed(l)
        BY <3>2 DEF LineHolds, JournalAt
      <4>3. Undercut(l) \/ journal'[l] = 0
        BY <1>8, <1>9, <2>1, <4>2
      <4>4. QED
        BY <3>1, <4>1, <4>3 DEF JournalAt
    <3>8. QED
      BY <3>1, <3>3, <3>4, <3>6, <3>7 DEF LineHolds
  <2>2. CASE l \notin W
    BY <1>1, <1>5, <1>9, <2>2, OtherStill
  <2>3. QED
    BY <2>1, <2>2
<1>13. QED
  BY <1>10, <1>11, <1>12 DEF IInv

----------------------------------------------------------------------------------
(* A sale written under the next number.                                         *)

Added(r) == /\ r \in Sale /\ r.st = "completed"
            /\ sold < MaxSales /\ sold' = sold + 1 /\ sale' = [sale EXCEPT ![sold + 1] = r]

LEMMA AddedSale ==
  ASSUME IInv, NEW r, Added(r)
  PROVE  /\ sold + 1 \in Sales /\ sold' \in 0..MaxSales /\ sold \in Nat
         /\ sale \in [Sales -> Sale] /\ sale' \in [Sales -> Sale]
         /\ sale[sold + 1] = NoSale /\ sale'[sold + 1] = r
         /\ \A s \in Sales : s # sold + 1 => sale'[s] = sale[s]
         /\ \A s \in Sales : s > sold => sale[s] = NoSale
         /\ \A s \in Sales : sale[s].st # "none" => s <= sold
<1>1. sold \in Nat /\ sale \in [Sales -> Sale] /\ MaxSales \in Nat
  BY DebtAssumption DEF IInv, TypeOK
<1>2. sold + 1 \in Sales /\ sold' \in 0..MaxSales
  BY <1>1 DEF Added, Sales
<1>3. \A s \in Sales : s > sold => sale[s] = NoSale
  BY DEF IInv, SaleInv, SaleAt
<1>4. \A s \in Sales : sale[s].st # "none" => s <= sold
  BY <1>1, <1>3 DEF NoSale, Sales
<1>5. sale[sold + 1] = NoSale
  BY <1>1, <1>2, <1>3
<1>6. /\ sale' \in [Sales -> Sale] /\ sale'[sold + 1] = r
      /\ \A s \in Sales : s # sold + 1 => sale'[s] = sale[s]
  BY <1>1, <1>2 DEF Added
<1>7. QED
  BY <1>1, <1>2, <1>3, <1>4, <1>5, <1>6

\* The receipt pays u pieces of an open line: its rest, or less of it.
LEMMA RungLine ==
  ASSUME IInv, NEW r, Added(r), Money(sale)', NEW l \in Lines, Open(l), giving' = giving,
         r.kind \in {"receipt", "close"}, NEW u \in 1..Remaining(l), r.units[l] = u,
         line'[l] \in Line, line'[l].given = line[l].given, line'[l].off = line[l].off,
         line'[l].returned = line[l].returned, line'[l].paid = line[l].paid + u,
         line'[l].prepaid = line[l].prepaid, line'[l].chained = line[l].chained,
         line'[l].chain = line[l].chain, line'[l].attempts = line[l].attempts,
         line'[l].last = line[l].last, journal'[l] = journal[l] - r.cents[l],
         \/ line'[l].closer = sold + 1 /\ u = Remaining(l) /\ r.cents[l] = Owed(l)
         \/ /\ line'[l].closer = 0 /\ u < Remaining(l) /\ r.cents[l] = UnitsCents(l, u)
            /\ r.kind = "receipt"
  PROVE  LineHolds(l)'
<1>0. PICK n \in Sales : n = sold + 1
  BY AddedSale
<1>1. /\ n \in Sales /\ sold' = n /\ sold \in Nat /\ r \in Sale /\ r.st = "completed"
      /\ sale \in [Sales -> Sale] /\ sale' \in [Sales -> Sale]
      /\ sale[n] = NoSale /\ sale'[n] = r
      /\ \A s \in Sales : s # n => sale'[s] = sale[s]
      /\ \A s \in Sales : s > sold => sale[s] = NoSale
      /\ \A s \in Sales : sale[s].st # "none" => s <= sold
  BY <1>0, AddedSale DEF Added
<1>2. TypeOK /\ Money(sale) /\ LineHolds(l) /\ line[l] \in Line /\ line[l].closer = 0
  BY DEF IInv, SaleInv, TypeOK, Open
<1>3. /\ NoSale.st = "none" /\ NoSale.kind = "receipt" /\ NoSale.units[l] = 0
  BY DEF NoSale, Nothing
<1>4. /\ Total[l] \in Int /\ Qty[l] \in Int /\ u \in Nat /\ u > 0
      /\ Left(l) \in Int /\ Remaining(l) = Qty[l] - Left(l) /\ u <= Remaining(l)
      /\ Left(l)' = Left(l) + u
  BY <1>2, DebtAssumption DEF Left, Remaining, Line
<1>5. n \in Int /\ sold \in Int /\ (\A s \in Sales : s \in Int) /\ 0 \notin Sales
  BY <1>1 DEF Sales
<1>6. \A s \in Sales : /\ s # n => (Stood(s)' <=> Stood(s))
                       /\ Stood(s) => s <= sold /\ s < n /\ s # n
  <2>1. ASSUME NEW s \in Sales, s <= sold PROVE s < n /\ s # n
    <3>1. s \in Int /\ sold \in Int
      BY <1>5
    <3>2. QED
      BY <1>0, <2>1, <3>1
  <2>2. QED
    BY <1>1, <2>1 DEF Stood, Counts
<1>7. Stood(n)' /\ sale'[n].units[l] = u
  BY <1>1 DEF Stood, Counts
<1>8. PaidAt(l)'
  <2>1. PaidAt(l)
    BY <1>2 DEF LineHolds
  <2>2. /\ UnitsOf(sale, l) \in [Sales -> Nat] /\ UnitsOf(sale', l) \in [Sales -> Nat]
        /\ InMoney(sale, line[l].chain, l) \in [Sales -> Nat]
        /\ InMoney(sale', line[l].chain, l) \in [Sales -> Nat]
        /\ OutMoney(sale, line[l].chain, l) \in [Sales -> Nat]
        /\ OutMoney(sale', line[l].chain, l) \in [Sales -> Nat]
    BY <1>1, <1>2, Counted
  <2>3. \A s \in Sales : s # n => UnitsOf(sale', l)[s] = UnitsOf(sale, l)[s]
    BY <1>1 DEF UnitsOf
  <2>4. UnitsOf(sale, l)[n] = 0 /\ UnitsOf(sale', l)[n] = u
    BY <1>1, <1>3 DEF UnitsOf, Counts
  <2>5. IsTotal(UnitsOf(sale', l), line[l].paid - 0 + u)
    <3>1. IsTotal(UnitsOf(sale, l), line[l].paid)
      BY <2>1 DEF PaidAt
    <3>2. QED
      BY <1>1, <2>2, <2>3, <2>4, <3>1, TotalChange
  <2>6. line[l].paid - 0 + u = line'[l].paid
    BY <1>2, <1>4 DEF Line
  <2>7. \A s \in Sales : InMoney(sale', line[l].chain, l)[s] = InMoney(sale, line[l].chain, l)[s]
    <3>1. \A s \in Sales : s # n => InMoney(sale', line[l].chain, l)[s] = InMoney(sale, line[l].chain, l)[s]
      BY <1>1 DEF InMoney, Toward
    <3>2. InMoney(sale', line[l].chain, l)[n] = InMoney(sale, line[l].chain, l)[n]
      BY <1>1, <1>3 DEF InMoney, Toward
    <3>3. QED
      BY <3>1, <3>2
  <2>8. \A s \in Sales : OutMoney(sale', line[l].chain, l)[s] = OutMoney(sale, line[l].chain, l)[s]
    <3>1. \A s \in Sales : s # n => OutMoney(sale', line[l].chain, l)[s] = OutMoney(sale, line[l].chain, l)[s]
      BY <1>1 DEF OutMoney, Toward
    <3>2. OutMoney(sale', line[l].chain, l)[n] = OutMoney(sale, line[l].chain, l)[n]
      BY <1>1, <1>3 DEF OutMoney, Toward
    <3>3. QED
      BY <3>1, <3>2
  <2>9. /\ IsTotal(InMoney(sale', line[l].chain, l), line[l].chained)
        /\ IsTotal(OutMoney(sale', line[l].chain, l), line[l].prepaid - line[l].chained)
    BY <2>1, <2>2, <2>7, <2>8, TotalSame DEF PaidAt
  <2>10. QED
    BY <2>5, <2>6, <2>9 DEF PaidAt
<1>9. CloserAt(l)'
  <2>1. line'[l].closer # 0 =>
          /\ line'[l].closer = n /\ Left(l)' = Qty[l] /\ ~ line'[l].off
          /\ r.cents[l] = Total[l] - Cum(l, Qty[l] - u) - line'[l].prepaid
    <3>1. line'[l].closer # 0 => line'[l].closer = n /\ u = Qty[l] - Left(l) /\ r.cents[l] = Owed(l)
      BY <1>0, <1>4
    <3>2. ~ line'[l].off
      BY DEF Open
    <3>3. u = Qty[l] - Left(l) => Left(l)' = Qty[l] /\ Qty[l] - u = Left(l)
      BY <1>4
    <3>4. QED
      BY <3>1, <3>2, <3>3 DEF Owed
  <2>2. ASSUME NEW t \in Sales, sale'[t].kind = "close", sale'[t].line = l, Stood(t)'
        PROVE  line'[l].closer = t
    <3>1. CASE t = n
      BY <1>0, <1>1, <2>2, <3>1
    <3>2. CASE t # n
      <4>1. line[l].closer = t
        BY <1>1, <1>2, <1>6, <2>2, <3>2 DEF LineHolds, CloserAt
      <4>2. QED
        BY <1>2, <1>5, <4>1
    <3>3. QED
      BY <3>1, <3>2
  <2>3. QED
    BY <1>4, <1>7, <2>1, <2>2, <1>1 DEF CloserAt
<1>10. LineAt(l)'
  <2>1. line'[l].given /\ Left(l)' <= Qty[l]
    BY <1>4 DEF Open
  <2>2. line'[l].closer = 0 => Left(l)' # Qty[l]
    BY <1>1, <1>4
  <2>3. line[l].last <= sold /\ line[l].last \in Int
    BY <1>2 DEF LineHolds, LineAt, Line
  <2>4. line'[l].last <= sold'
    BY <1>0, <1>1, <1>5, <2>3
  <2>5. QED
    BY <2>1, <2>2, <2>4 DEF LineAt
<1>11. ChainAt(l)'
  <2>1. ChainAt(l)
    BY <1>2 DEF LineHolds
  <2>2. \A s \in Sales : sale[s].st = "completed" => sale'[s] = sale[s]
    BY <1>1, <1>6 DEF Stood, Counts
  <2>3. QED
    BY <1>2, <2>1, <2>2 DEF ChainAt, Toward
<1>12. Undercut(l) => Undercut(l)'
  <2>1. \A s \in Sales : Was(s, {"voided"}) \/ Was(s, {"part", "refunded"}) => sale'[s] = sale[s]
    BY <1>1, <1>3 DEF Was
  <2>2. QED
    BY <2>1 DEF Undercut, Was
<1>13. ASSUME NEW b \in [Sales -> Int], Stack(l, b)
       PROVE  \E d \in [Sales -> Int] : Stack(l, d)'
  <2>0. PICK d \in [Sales -> Int] : d = [b EXCEPT ![n] = Left(l)]
    BY <1>1, <1>4
  <2>1. d[n] = Left(l) /\ \A s \in Sales : s # n => d[s] = b[s]
    BY <1>1, <1>4, <2>0
  <2> SUFFICES ASSUME NEW s \in Sales, Stood(s)', sale'[s].units[l] > 0, line'[l].last < s
               PROVE  /\ line'[l].closer # s => sale'[s].cents[l] = Cum(l, d[s] + sale'[s].units[l]) - Cum(l, d[s])
                      /\ (\A t \in Sales : s < t /\ Stood(t)' => sale'[t].units[l] = 0)
                           => Left(l)' = d[s] + sale'[s].units[l]
                      /\ \A t \in Sales :
                           s < t /\ Stood(t)' /\ sale'[t].units[l] > 0
                             /\ (\A q \in Sales : s < q /\ q < t /\ Stood(q)' => sale'[q].units[l] = 0)
                           => d[t] = d[s] + sale'[s].units[l]
    BY DEF Stack
  <2>2. CASE s = n
    <3>1. line'[l].closer # n => r.cents[l] = Cum(l, Left(l) + u) - Cum(l, Left(l))
      BY <1>0 DEF UnitsCents
    <3>2. \A t \in Sales : n < t => ~ Stood(t)'
      BY <1>5, <1>6
    <3>3. QED
      BY <1>1, <1>4, <1>7, <2>1, <2>2, <3>1, <3>2
  <2>3. CASE s # n
    <3>1. /\ Stood(s) /\ sale'[s] = sale[s] /\ sale[s].units[l] > 0 /\ line[l].last < s
          /\ d[s] = b[s] /\ s < n
      BY <1>1, <1>6, <2>1, <2>3
    <3>2. /\ sale[s].cents[l] = Cum(l, b[s] + sale[s].units[l]) - Cum(l, b[s])
          /\ (\A t \in Sales : s < t /\ Stood(t) => sale[t].units[l] = 0) => Left(l) = b[s] + sale[s].units[l]
          /\ \A t \in Sales :
               s < t /\ Stood(t) /\ sale[t].units[l] > 0
                 /\ (\A q \in Sales : s < q /\ q < t /\ Stood(q) => sale[q].units[l] = 0)
               => b[t] = b[s] + sale[s].units[l]
      BY <1>2, <1>5, <1>13, <3>1 DEF Stack
    <3>3. ~ \A t \in Sales : s < t /\ Stood(t)' => sale'[t].units[l] = 0
      BY <1>1, <1>4, <1>7, <3>1
    <3>4. ASSUME NEW t \in Sales, s < t, Stood(t)', sale'[t].units[l] > 0,
                 \A q \in Sales : s < q /\ q < t /\ Stood(q)' => sale'[q].units[l] = 0
          PROVE  d[t] = b[s] + sale[s].units[l]
      <4>1. CASE t = n
        <5>1. \A q \in Sales : s < q /\ Stood(q) => sale[q].units[l] = 0
          BY <1>1, <1>6, <3>4, <4>1
        <5>2. QED
          BY <2>1, <3>2, <4>1, <5>1
      <4>2. CASE t # n
        <5>1. Stood(t) /\ sale[t].units[l] > 0 /\ d[t] = b[t]
          BY <1>1, <1>6, <2>1, <3>4, <4>2
        <5>2. \A q \in Sales : s < q /\ q < t /\ Stood(q) => sale[q].units[l] = 0
          BY <1>1, <1>6, <3>4
        <5>3. QED
          BY <3>2, <3>4, <5>1, <5>2
      <4>3. QED
        BY <4>1, <4>2
    <3>5. QED
      BY <3>1, <3>2, <3>3, <3>4
  <2>4. QED
    BY <2>2, <2>3
<1>14. StackAt(l)'
  BY <1>2, <1>12, <1>13 DEF LineHolds, StackAt
<1>15. JournalAt(l)'
  <2>1. CASE Undercut(l)
    BY <1>12, <2>1 DEF JournalAt
  <2>2. CASE ~ Undercut(l)
    <3>1. /\ journal[l] = Total[l] - Cum(l, Left(l)) - line[l].prepaid
          /\ Cum(l, Left(l)) \in Int /\ Cum(l, Left(l) + u) \in Int /\ line[l].prepaid \in Int
      <4>1. journal[l] = Owed(l)
        BY <1>2, <2>2 DEF LineHolds, JournalAt
      <4>2. Cum(l, Left(l)) \in Int /\ Cum(l, Left(l) + u) \in Int
        BY <1>4, CumWhole
      <4>3. QED
        BY <1>2, <4>1, <4>2 DEF Owed, Line
    <3>2. CASE line'[l].closer = n /\ r.cents[l] = Owed(l)
      <4>1. ~ Open(l)'
        BY <1>1, <1>5, <3>2 DEF Open
      <4>2. journal'[l] = 0
        BY <1>4, <3>1, <3>2 DEF Owed
      <4>3. QED
        BY <4>1, <4>2 DEF JournalAt
    <3>3. CASE line'[l].closer = 0 /\ u < Remaining(l) /\ r.cents[l] = UnitsCents(l, u)
      <4>1. Left(l)' < Qty[l]
        BY <1>4, <3>3
      <4>2. Open(l)'
        BY <3>3, <4>1 DEF Open
      <4>3. Owed(l)' = Total[l] - Cum(l, Left(l) + u) - line[l].prepaid
        BY <1>4 DEF Owed
      <4>4. journal'[l] = Owed(l)'
        BY <1>4, <3>1, <3>3, <4>3 DEF UnitsCents
      <4>5. QED
        BY <4>2, <4>4 DEF JournalAt
    <3>4. QED
      BY <1>0, <3>2, <3>3
  <2>3. QED
    BY <2>1, <2>2
<1>16. QED
  BY <1>8, <1>9, <1>10, <1>11, <1>14, <1>15 DEF LineHolds

LEMMA AddedInv ==
  ASSUME IInv, NEW r, Added(r), UNCHANGED <<chains, giving>>,
         \A l \in Lines : line'[l].attempts \in Nat /\ line'[l].attempts >= line[l].attempts,
         r.kind = "prepay" =>
           /\ r.line \in Lines /\ r.cents[r.line] > 0
           /\ \A l \in Lines : r.units[l] = 0 /\ (l # r.line => r.cents[l] = 0),
         r.chain # 0 => /\ r.line \in Lines /\ r.chain <= line'[r.line].attempts
                        /\ giving[r.line][r.chain] = "none",
         r.doc # "none" => r.chain # 0, r.kind = "receipt" => r.chain = 0,
         r.kind = "close" =>
           /\ r.line \in Lines /\ r.pre[r.line] > 0 /\ r.units[r.line] > 0
           /\ \A l \in Lines : l # r.line => r.units[l] = 0,
         r.kind # "prepay" => \A l \in Lines : r.units[l] = 0 => r.cents[l] = 0
  PROVE  SaleInv' /\ GiveInv'
<1>1. PICK n \in Sales : n = sold + 1
  BY AddedSale
<1>2. /\ sold' = n /\ sold \in Nat /\ r \in Sale /\ r.st = "completed"
      /\ sale \in [Sales -> Sale] /\ sale' \in [Sales -> Sale] /\ sale'[n] = r
      /\ \A s \in Sales : s # n => sale'[s] = sale[s]
  BY <1>1, AddedSale DEF Added
<1>3. TypeOK /\ Money(sale) /\ \A s \in Sales : SaleAt(s)
  BY DEF IInv, SaleInv
<1>4. Money(sale)'
  <2>1. ASSUME NEW s \in Sales, sale'[s].kind = "prepay"
        PROVE  /\ sale'[s].line \in Lines /\ sale'[s].cents[sale'[s].line] > 0 /\ sale'[s].st # "part"
               /\ \A l \in Lines : sale'[s].units[l] = 0 /\ (l # sale'[s].line => sale'[s].cents[l] = 0)
    <3>1. CASE s = n
      BY <1>2, <2>1, <3>1
    <3>2. CASE s # n
      BY <1>2, <1>3, <2>1, <3>2 DEF Money
    <3>3. QED
      BY <3>1, <3>2
  <2>2. QED
    BY <2>1 DEF Money
<1>5. ASSUME NEW s \in Sales PROVE SaleAt(s)'
  <2>1. CASE s = n
    <3>1. ~ (n > sold') /\ sale'[n].st # "none"
      BY <1>2, <1>1
    <3>2. QED
      BY <1>2, <2>1, <3>1 DEF SaleAt
  <2>2. CASE s # n
    <3>1. sold' = sold + 1 /\ s # sold' /\ sale'[s] = sale[s]
      BY <1>1, <1>2, <2>2
    <3>2. QED
      BY <1>3, <3>1, SaleKept
  <2>3. QED
    BY <2>1, <2>2
<1>6. ASSUME NEW k \in Lines, NEW c \in Chain
      PROVE  /\ giving'[k][c] # "none" => c <= line'[k].attempts
             /\ giving'[k][c] # "none" => \A s \in Sales : InChain(s, k, c)' => Was(s, {"refunded", "voided"})'
             /\ giving'[k][c] = "none" => \A s \in Sales : InChain(s, k, c)' => ~ Was(s, {"part", "refunded"})'
             /\ chains'[k][c].st = "returned" => giving'[k][c] = "done"
  <2>1. /\ giving[k][c] # "none" => c <= line[k].attempts
        /\ giving[k][c] # "none" => \A s \in Sales : InChain(s, k, c) => Was(s, {"refunded", "voided"})
        /\ giving[k][c] = "none" => \A s \in Sales : InChain(s, k, c) => ~ Was(s, {"part", "refunded"})
        /\ chains[k][c].st = "returned" => giving[k][c] = "done"
    BY DEF IInv, GiveInv, WholeChainBack
  <2>2. giving' = giving /\ chains' = chains
    OBVIOUS
  <2>3. c \in Int /\ c # 0 /\ line[k].attempts \in Int /\ line'[k].attempts \in Int
        /\ line'[k].attempts >= line[k].attempts
    BY <1>3, DebtAssumption DEF Chain, TypeOK, Line
  <2>4. c <= line[k].attempts => c <= line'[k].attempts
    BY <2>3
  <2>5. InChain(n, k, c)' => giving[k][c] = "none"
    BY <1>2, <2>3 DEF InChain
  <2>6. ~ Was(n, {"part", "refunded"})'
    BY <1>2 DEF Was
  <2>7. ASSUME NEW s \in Sales, s # n
        PROVE  /\ InChain(s, k, c)' <=> InChain(s, k, c)
               /\ Was(s, {"refunded", "voided"})' <=> Was(s, {"refunded", "voided"})
               /\ Was(s, {"part", "refunded"})' <=> Was(s, {"part", "refunded"})
    BY <1>2, <2>7 DEF InChain, Was
  <2>8. QED
    BY <2>1, <2>2, <2>4, <2>5, <2>6, <2>7
<1>7. GiveInv'
  BY <1>6 DEF GiveInv, WholeChainBack
<1>8. QED
  BY <1>4, <1>5, <1>7 DEF SaleInv

Receipt(k, u, x, p, ln, c, d, o) ==
    [NoSale EXCEPT !.st = "completed", !.kind = k, !.units = u, !.cents = x, !.pre = p,
                   !.line = ln, !.chain = c, !.doc = d, !.owed = o]
Deposit(x, ln, c, d, o) ==
    [NoSale EXCEPT !.st = "completed", !.kind = "prepay", !.cents = x,
                   !.line = ln, !.chain = c, !.doc = d, !.owed = o]

Paid(e, v, m) == [e EXCEPT !.paid = v, !.closer = m]

Opened(e, c) == [e EXCEPT !.attempts = c, !.chained = 0]

LEMMA OpenedLine ==
  ASSUME NEW e \in Line, NEW c \in Nat
  PROVE  LET q == Opened(e, c) IN
         /\ q \in Line /\ q.given = e.given /\ q.off = e.off
         /\ q.returned = e.returned /\ q.paid = e.paid /\ q.prepaid = e.prepaid
         /\ q.chained = 0 /\ q.closer = e.closer
         /\ q.chain = e.chain /\ q.attempts = c /\ q.last = e.last
<1>1. 0 \in Int
  OBVIOUS
<1>2. Opened(e, c) \in Line
  BY <1>1 DEF Line, Opened
<1>3. QED
  BY <1>2 DEF Line, Opened

Freed(e, v, m, a, b, c) == [e EXCEPT !.paid = v, !.closer = m, !.prepaid = a, !.chained = b, !.chain = c]

LEMMA FreedLine ==
  ASSUME NEW e \in Line, NEW v \in Nat, NEW m \in 0..MaxSales, NEW a \in Int, NEW b \in Int,
         NEW c \in 0..MaxSales
  PROVE  LET q == Freed(e, v, m, a, b, c) IN
         /\ q \in Line /\ q.given = e.given /\ q.off = e.off
         /\ q.returned = e.returned /\ q.paid = v /\ q.prepaid = a
         /\ q.chained = b /\ q.closer = m
         /\ q.chain = c /\ q.attempts = e.attempts /\ q.last = e.last
BY DEF Line, Freed

\* A chain an open line is in has money in it.
LEMMA OpenChain ==
  ASSUME IInv, NEW l \in Lines, Open(l), line[l].chain # 0
  PROVE  /\ giving[l][line[l].chain] = "none" /\ line[l].chain \in Chain
         /\ line[l].chained > 0 /\ line[l].prepaid > 0
<1>1. TypeOK /\ Money(sale) /\ LineHolds(l) /\ line[l].closer = 0
  BY DEF IInv, SaleInv, Open
<1>2. giving[l][line[l].chain] = "none" /\ line[l].chain \in Chain
  BY <1>1, Bounds DEF LineHolds, ChainAt
<1>3. PICK s \in Sales : Toward(sale, s, l) /\ sale[s].chain = line[l].chain /\ sale[s].st = "completed"
  BY <1>1, <1>2 DEF LineHolds, ChainAt
<1>4. sale[s].cents[l] > 0 /\ InMoney(sale, line[l].chain, l)[s] = sale[s].cents[l]
  BY <1>1, <1>3 DEF InMoney, Toward, Money
<1>5. sale \in [Sales -> Sale] /\ InMoney(sale, line[l].chain, l) \in [Sales -> Nat]
  BY <1>1, Counted DEF TypeOK
<1>6. line[l].chained \in Nat /\ sale[s].cents[l] <= line[l].chained
  BY <1>1, <1>4, <1>5, TotalLeast DEF LineHolds, PaidAt
<1>7. line[l].prepaid \in Int /\ line[l].prepaid - line[l].chained \in Nat /\ sale[s].cents[l] \in Int
  BY <1>1, <1>5, PaidNat DEF LineHolds, TypeOK, Line, Sale
<1>8. QED
  BY <1>2, <1>4, <1>6, <1>7

RingUnits(W, part, n) == [l \in Lines |-> IF l \in W THEN Remaining(l) ELSE IF l = part THEN n ELSE 0]
RingCents(W, part, n) ==
    [l \in Lines |-> IF l \in W THEN Owed(l) ELSE IF l = part THEN UnitsCents(l, n) ELSE 0]
RingPre(W) == [l \in Lines |-> IF l \in W THEN line[l].prepaid ELSE 0]

LEMMA RingTypes ==
  ASSUME IInv, NEW W \in SUBSET Lines, NEW part \in Lines \union {NoLine}, NEW n \in Nat,
         \A l \in W : Open(l)
  PROVE  /\ RingUnits(W, part, n) \in [Lines -> Nat]
         /\ RingCents(W, part, n) \in [Lines -> Int]
         /\ RingPre(W) \in [Lines -> Int]
         /\ \A l \in Lines : /\ Owed(l) \in Int /\ UnitsCents(l, n) \in Int
                             /\ Open(l) => Remaining(l) \in Nat /\ Remaining(l) > 0
<1>1. line \in [Lines -> Line] /\ n \in Int
  BY DEF IInv, TypeOK
<1>2. ASSUME NEW l \in Lines
      PROVE  /\ Owed(l) \in Int /\ UnitsCents(l, n) \in Int /\ line[l].prepaid \in Int
             /\ Open(l) => Remaining(l) \in Nat /\ Remaining(l) > 0
  <2>1. Left(l) \in Int /\ Qty[l] \in Int /\ Total[l] \in Int /\ line[l].prepaid \in Int
    BY <1>1, DebtAssumption DEF Left, Line
  <2>2. Left(l) + n \in Int
    BY <1>1, <2>1
  <2>3. Cum(l, Left(l)) \in Int /\ Cum(l, Left(l) + n) \in Int
    BY <2>1, <2>2, CumWhole
  <2>4. Open(l) => Left(l) < Qty[l]
    BY DEF Open
  <2>5. QED
    BY <2>1, <2>3, <2>4 DEF Owed, UnitsCents, Remaining
<1>3. QED
  BY <1>1, <1>2 DEF RingUnits, RingCents, RingPre

LEMMA Rung ==
  ASSUME IInv, NEW k \in {"receipt", "close"}, NEW W \in SUBSET Lines, NEW part \in Lines \union {NoLine},
         NEW n \in Nat, NEW l0 \in Lines \union {NoLine}, NEW c \in 0..MaxSales, Ring(k, W, part, n, l0, c),
         \A l \in W : Open(l), part \notin W,
         part # NoLine => Open(part) /\ n \in 1..Remaining(part) - 1,
         k = "receipt" => l0 = NoLine /\ c = 0,
         k = "close" => l0 \in Lines /\ W = {l0} /\ part = NoLine /\ c # 0 /\ c = line[l0].chain
  PROVE  IInv'
<1> DEFINE units == RingUnits(W, part, n)
           cents == RingCents(W, part, n)
           pre == RingPre(W)
<1>1. /\ sold < MaxSales /\ sold' = sold + 1 /\ UNCHANGED <<chains, giving>>
      /\ sale' = [sale EXCEPT ![sold + 1] =
            [NoSale EXCEPT !.st = "completed", !.kind = k, !.units = units, !.cents = cents,
                           !.pre = pre, !.line = l0, !.chain = c, !.doc = IF c = 0 THEN "none" ELSE "new",
                           !.owed = IF c = 0 THEN 0 ELSE cents[l0]]]
      /\ line' = [l \in Lines |-> [line[l] EXCEPT !.paid = @ + units[l],
                                                  !.closer = IF l \in W THEN sold + 1 ELSE @]]
      /\ journal' = [l \in Lines |-> journal[l] - cents[l]]
  BY DEF Ring, RingUnits, RingCents, RingPre
<1>0. sold < MaxSales /\ sold' = sold + 1 /\ UNCHANGED <<chains, giving>>
  BY DEF Ring
<1>2. /\ units \in [Lines -> Nat] /\ cents \in [Lines -> Int] /\ pre \in [Lines -> Int]
      /\ \A l \in Lines : /\ Owed(l) \in Int /\ UnitsCents(l, n) \in Int
                          /\ Open(l) => Remaining(l) \in Nat /\ Remaining(l) > 0
  BY RingTypes
<1>3. /\ \A l \in W : l \in Lines /\ units[l] = Remaining(l) /\ cents[l] = Owed(l) /\ pre[l] = line[l].prepaid
      /\ \A l \in Lines : l \notin W /\ l = part => units[l] = n /\ cents[l] = UnitsCents(l, n)
      /\ \A l \in Lines : l \notin W /\ l # part => units[l] = 0 /\ cents[l] = 0
  BY DEF RingUnits, RingCents, RingPre
<1> HIDE DEF units, cents, pre
<1>4. /\ l0 \in Lines \/ c = 0
      /\ (IF c = 0 THEN 0 ELSE cents[l0]) \in Int
      /\ (IF c = 0 THEN "none" ELSE "new") \in {"none", "new"}
  BY <1>2
<1>5. PICK r : /\ r \in Sale /\ r.st = "completed" /\ r.kind = k /\ r.units = units /\ r.cents = cents
               /\ r.pre = pre /\ r.line = l0 /\ r.chain = c /\ r.doc = IF c = 0 THEN "none" ELSE "new"
               /\ sale' = [sale EXCEPT ![sold + 1] = r]
  <2> DEFINE o == IF c = 0 THEN 0 ELSE cents[l0]
             d == IF c = 0 THEN "none" ELSE "new"
  <2>1. PICK q : q = Receipt(k, units, cents, pre, l0, c, d, o)
    OBVIOUS
  <2>2. sale' = [sale EXCEPT ![sold + 1] = q]
    BY <1>1, <2>1 DEF Receipt
  <2>3. o \in Int /\ d \in {"none", "new"}
    BY <1>4
  <2> HIDE DEF o
  <2>4. /\ q \in Sale /\ q.st = "completed" /\ q.kind = k /\ q.units = units /\ q.cents = cents
        /\ q.pre = pre /\ q.line = l0 /\ q.chain = c /\ q.doc = d
    <3> HIDE DEF d
    <3>1. units \in [Lines -> Nat] /\ cents \in [Lines -> Int] /\ pre \in [Lines -> Int]
      BY <1>2
    <3>2. LET e == Receipt(k, units, cents, pre, l0, c, d, o) IN
            /\ e \in Sale /\ e.st = "completed" /\ e.kind = k /\ e.units = units /\ e.cents = cents
            /\ e.pre = pre /\ e.line = l0 /\ e.chain = c /\ e.doc = d
      BY <2>3, <3>1 DEF Receipt, NoSale, Sale
    <3>3. QED
      BY <2>1, <3>2
  <2>5. QED
    BY <2>2, <2>4
<1>6. Added(r)
  BY <1>1, <1>5 DEF Added
<1>7. /\ TypeOK /\ line \in [Lines -> Line] /\ journal \in [Lines -> Int]
      /\ sold + 1 \in Sales /\ sold + 1 \in 0..MaxSales /\ sold' \in 0..MaxSales /\ sale' \in [Sales -> Sale]
      /\ \A s \in Sales : s # sold + 1 => sale'[s] = sale[s]
      /\ sale'[sold + 1] = r /\ sale[sold + 1] = NoSale
  <2>1. TypeOK
    BY DEF IInv
  <2>2. sold + 1 \in 0..MaxSales
    <3>1. sold \in Nat /\ MaxSales \in Nat
      BY <2>1, DebtAssumption DEF TypeOK
    <3>2. QED
      BY <1>0, <3>1
  <2>3. QED
    BY <1>6, <2>1, <2>2, AddedSale DEF TypeOK
<1>8. ASSUME NEW l \in Lines
      PROVE  /\ line'[l] \in Line /\ line'[l].given = line[l].given /\ line'[l].off = line[l].off
             /\ line'[l].returned = line[l].returned /\ line'[l].paid = line[l].paid + units[l]
             /\ line'[l].prepaid = line[l].prepaid /\ line'[l].chained = line[l].chained
             /\ line'[l].chain = line[l].chain /\ line'[l].attempts = line[l].attempts
             /\ line'[l].last = line[l].last
             /\ line'[l].closer = IF l \in W THEN sold + 1 ELSE line[l].closer
  <2> DEFINE v == line[l].paid + units[l]
             m == IF l \in W THEN sold + 1 ELSE line[l].closer
  <2>1. v \in Nat /\ m \in 0..MaxSales /\ line[l] \in Line
    BY <1>2, <1>7 DEF Line
  <2>2. line'[l] = Paid(line[l], v, m)
    BY <1>1 DEF Paid
  <2> HIDE DEF v, m
  <2>3. /\ line'[l] \in Line /\ line'[l].given = line[l].given /\ line'[l].off = line[l].off
        /\ line'[l].returned = line[l].returned /\ line'[l].paid = v
        /\ line'[l].prepaid = line[l].prepaid /\ line'[l].chained = line[l].chained
        /\ line'[l].closer = m /\ line'[l].chain = line[l].chain
        /\ line'[l].attempts = line[l].attempts /\ line'[l].last = line[l].last
    <3>1. PICK e \in Line, x \in Nat, y \in 0..MaxSales : e = line[l] /\ x = v /\ y = m
      BY <2>1
    <3>2. PICK q : q = Paid(e, x, y)
      OBVIOUS
    <3>3. /\ q \in Line /\ q.given = e.given /\ q.off = e.off /\ q.returned = e.returned /\ q.paid = x
          /\ q.prepaid = e.prepaid /\ q.chained = e.chained /\ q.closer = y /\ q.chain = e.chain
          /\ q.attempts = e.attempts /\ q.last = e.last
      BY <3>2 DEF Paid, Line
    <3>4. line'[l] = q
      BY <2>2, <3>1, <3>2
    <3>5. QED
      BY <3>1, <3>3, <3>4
  <2>4. QED
    BY <2>3 DEF v, m
<1>9. line' \in [Lines -> Line] /\ journal' \in [Lines -> Int]
  <2>1. line' = [l \in Lines |-> line'[l]]
    BY <1>1
  <2>2. line' \in [Lines -> Line]
    BY <1>8, <2>1
  <2>3. journal' \in [Lines -> Int]
    <3>1. journal' = [l \in Lines |-> journal[l] - cents[l]]
      BY <1>1
    <3>2. QED
      BY <1>2, <1>7, <3>1
  <2>4. QED
    BY <2>2, <2>3
<1>10. TypeOK'
  BY <1>1, <1>7, <1>9 DEF TypeOK
<1>11. \A l \in Lines : line'[l].attempts \in Nat /\ line'[l].attempts >= line[l].attempts
  BY <1>7, <1>8 DEF Line
<1>12. c # 0 => /\ l0 \in Lines /\ W = {l0} /\ part = NoLine /\ k = "close" /\ c = line[l0].chain
                /\ giving[l0][c] = "none" /\ line[l0].prepaid > 0 /\ line[l0].chain <= line[l0].attempts
  BY OpenChain DEF IInv, LineHolds, ChainAt
<1>13. k = "close" => /\ r.line \in Lines /\ r.pre[r.line] > 0 /\ r.units[r.line] > 0
                      /\ \A l \in Lines : l # r.line => r.units[l] = 0
  <2> SUFFICES ASSUME k = "close"
               PROVE  /\ r.line \in Lines /\ r.pre[r.line] > 0 /\ r.units[r.line] > 0
                      /\ \A l \in Lines : l # r.line => r.units[l] = 0
    OBVIOUS
  <2>1. c # 0 /\ l0 \in W /\ r.line = l0 /\ Open(l0)
    BY <1>5, <1>12
  <2>2. pre[l0] > 0 /\ units[l0] > 0
    BY <1>2, <1>3, <1>12, <2>1
  <2>3. \A l \in Lines : l # l0 => l \notin W /\ l # part
    BY <1>12, <2>1, Bounds DEF IInv
  <2>4. QED
    BY <1>3, <1>5, <1>12, <2>1, <2>2, <2>3
<1>14. \A l \in Lines : r.units[l] = 0 => r.cents[l] = 0
  <2>1. part \in Lines => n > 0
    BY Bounds DEF IInv
  <2>2. \A l \in W : units[l] > 0
    BY <1>2, <1>3
  <2>3. QED
    BY <1>3, <1>5, <2>1, <2>2
<1>15. SaleInv' /\ GiveInv'
  <2>1. r.chain # 0 => r.line \in Lines /\ r.chain <= line'[r.line].attempts /\ giving[r.line][r.chain] = "none"
    BY <1>5, <1>8, <1>12
  <2>2. /\ r.doc # "none" => r.chain # 0
        /\ r.kind = "receipt" => r.chain = 0
        /\ r.kind = "close" => k = "close"
        /\ r.kind # "prepay"
    BY <1>5
  <2>3. QED
    BY <1>1, <1>6, <1>11, <1>13, <1>14, <2>1, <2>2, AddedInv
<1>16. ASSUME NEW l \in Lines PROVE LineHolds(l)'
  <2>1. journal'[l] = journal[l] - cents[l] /\ giving' = giving /\ Money(sale)' /\ Money(sale)
    BY <1>1, <1>15 DEF SaleInv, IInv
  <2>2. CASE l \in W
    <3>1. /\ Open(l) /\ Remaining(l) \in 1..Remaining(l) /\ r.units[l] = Remaining(l)
          /\ line'[l].paid = line[l].paid + Remaining(l)
          /\ line'[l].closer = sold + 1 /\ r.cents[l] = Owed(l) /\ journal'[l] = journal[l] - r.cents[l]
      BY <1>2, <1>3, <1>5, <1>8, <2>1, <2>2
    <3>2. QED
      BY <1>5, <1>6, <1>8, <2>1, <3>1, RungLine
  <2>3. CASE l \notin W /\ l = part
    <3>1. /\ Open(l) /\ n \in 1..Remaining(l) /\ n < Remaining(l) /\ r.units[l] = n
          /\ line'[l].paid = line[l].paid + n
          /\ line'[l].closer = 0 /\ r.cents[l] = UnitsCents(l, n) /\ journal'[l] = journal[l] - r.cents[l]
          /\ r.kind = "receipt"
      <4>1. part # NoLine
        BY <2>3, Bounds DEF IInv
      <4>2. Open(l) /\ n \in 1..Remaining(l) - 1 /\ Remaining(l) \in Nat
        BY <1>2, <2>3, <4>1
      <4>3. line[l].closer = 0
        BY <4>2 DEF Open
      <4>4. n \in 1..Remaining(l) /\ n < Remaining(l)
        BY <4>2
      <4>5. k = "receipt"
        BY <4>1
      <4>6. QED
        BY <1>3, <1>5, <1>8, <2>1, <2>3, <4>2, <4>3, <4>4, <4>5
    <3>2. QED
      BY <1>5, <1>6, <1>8, <2>1, <3>1, RungLine
  <2>4. CASE l \notin W /\ l # part
    <3>1. units[l] = 0 /\ cents[l] = 0
      BY <1>3, <2>4
    <3>2. line'[l] = line[l]
      <4>1. line'[l] = [line[l] EXCEPT !.paid = line[l].paid + 0, !.closer = line[l].closer]
        BY <1>1, <2>4, <3>1
      <4>2. line[l] \in Line /\ line[l].paid + 0 = line[l].paid
        BY <1>7 DEF Line
      <4>3. \A e \in Line : [e EXCEPT !.paid = e.paid, !.closer = e.closer] = e
        BY DEF Line
      <4>4. QED
        BY <4>1, <4>2, <4>3
    <3>3. journal'[l] = journal[l]
      BY <1>7, <2>1, <3>1
    <3>4. Blind(sale, sold + 1, l) /\ Blind(sale', sold + 1, l)
      <4>1. l0 = l => l \in W
        BY Bounds DEF IInv
      <4>2. r.line # l /\ r.units[l] = 0
        BY <1>5, <2>4, <3>1, <4>1
      <4>3. NoSale.units[l] = 0 /\ NoSale.kind = "receipt"
        BY DEF NoSale, Nothing
      <4>4. QED
        BY <1>7, <4>2, <4>3 DEF Blind
    <3>5. \A s \in Sales : sale'[s] = sale[s] \/ (Blind(sale, s, l) /\ Blind(sale', s, l))
      BY <1>7, <3>4
    <3>6. sold' \in Int /\ sold' >= sold /\ LineHolds(l)
      <4>1. sold \in Int /\ LineHolds(l)
        BY <1>7 DEF IInv, TypeOK
      <4>2. QED
        BY <1>0, <4>1
    <3>7. QED
      BY <1>7, <2>1, <3>2, <3>3, <3>5, <3>6, Untouched
  <2>5. QED
    BY <2>2, <2>3, <2>4
<1>17. QED
  BY <1>10, <1>15, <1>16 DEF IInv

LEMMA ReceiptPaid ==
  ASSUME IInv, NEW W \in SUBSET Lines, NEW part \in Lines \union {NoLine},
         NEW n \in 0..(IF part = NoLine THEN 0 ELSE Qty[part]), PayReceipt(W, part, n)
  PROVE  IInv'
<1>1. Ring("receipt", W, part, n, NoLine, 0)
  BY DEF PayReceipt
<1>2. \A l \in W : Open(l)
  BY DEF PayReceipt, Oldest
<1>3. part \in Lines => part # NoLine
  BY Bounds DEF IInv
<1>4. part \notin W
  BY <1>3 DEF PayReceipt, Next1
<1>5. part # NoLine => Open(part) /\ n \in 1..Remaining(part) - 1
  BY DEF PayReceipt, Next1
<1>6. n \in Nat
  <2>1. \A l \in Lines : Qty[l] \in Nat
    BY DebtAssumption
  <2>2. (IF part = NoLine THEN 0 ELSE Qty[part]) \in Nat
    BY <2>1
  <2>3. QED
    BY <2>2
<1>7. 0 \in 0..MaxSales
  BY DebtAssumption
<1>8. QED
  BY <1>1, <1>2, <1>4, <1>5, <1>6, <1>7, Rung

LEMMA ChainClosed ==
  ASSUME IInv, NEW l \in Lines, CloseChain(l)
  PROVE  IInv'
<1>1. Ring("close", {l}, NoLine, 0, l, line[l].chain) /\ Open(l) /\ line[l].chain # 0
  BY DEF CloseChain, Oldest
<1>2. line[l].chain \in 0..MaxSales /\ l # NoLine
  BY Bounds DEF IInv, TypeOK, Line
<1>3. QED
  BY <1>1, <1>2, Rung

(* A «внесок».                                                                   *)
LEMMA Deposited ==
  ASSUME IInv, NEW l \in Lines, NEW a \in Amounts, NEW c \in 0..MaxSales, NEW into, Prepaid(l, a, c, into),
         into \in Line, into.given = line[l].given, into.off = line[l].off,
         into.returned = line[l].returned, into.paid = line[l].paid, into.prepaid = line[l].prepaid,
         into.closer = line[l].closer, into.last = line[l].last,
         \/ c = 0 /\ into.attempts = line[l].attempts
         \/ /\ line[l].chain = 0 /\ c = line[l].attempts + 1
            /\ into.attempts = c /\ into.chained = 0
         \/ /\ c # 0 /\ c = line[l].chain
            /\ into.attempts = line[l].attempts /\ into.chained = line[l].chained
  PROVE  IInv'
<1>1. /\ sold < MaxSales /\ sold' = sold + 1 /\ UNCHANGED <<chains, giving>> /\ Open(l) /\ a < Owed(l)
      /\ TypeOK /\ Money(sale) /\ LineHolds(l) /\ line[l] \in Line /\ line \in [Lines -> Line]
      /\ journal \in [Lines -> Int]
  BY DEF Prepaid, Oldest, IInv, SaleInv, TypeOK
<1>2. a \in Nat /\ a > 0 /\ l # NoLine
  BY <1>1, DebtAssumption, Bounds
<1>3. Owed(l) \in Int /\ Left(l) \in Int /\ Qty[l] \in Int /\ Left(l) < Qty[l]
      /\ Cum(l, Left(l)) \in Int /\ Total[l] \in Int /\ line[l].prepaid \in Int
  <2>1. Left(l) \in Int /\ Qty[l] \in Int /\ Total[l] \in Int /\ line[l].prepaid \in Int
    BY <1>1, DebtAssumption DEF Left, Line
  <2>2. Cum(l, Left(l)) \in Int
    BY <2>1, CumWhole
  <2>3. Left(l) < Qty[l]
    BY <1>1 DEF Open
  <2>4. QED
    BY <2>1, <2>2, <2>3 DEF Owed
<1> DEFINE x == [Nothing EXCEPT ![l] = a]
<1>4. x \in [Lines -> Int] /\ x[l] = a /\ \A k \in Lines : k # l => x[k] = 0
  BY <1>2 DEF Nothing
<1>5. PICK r : /\ r \in Sale /\ r.st = "completed" /\ r.kind = "prepay" /\ r.units = Nothing /\ r.cents = x
               /\ r.line = l /\ r.chain = c /\ r.doc = IF c = 0 THEN "none" ELSE "new"
               /\ sale' = [sale EXCEPT ![sold + 1] = r]
  <2> DEFINE o == IF c = 0 THEN 0 ELSE Owed(l)
             d == IF c = 0 THEN "none" ELSE "new"
  <2>1. PICK q : q = Deposit(x, l, c, d, o)
    OBVIOUS
  <2>2. sale' = [sale EXCEPT ![sold + 1] = q]
    BY <2>1 DEF Prepaid, Deposit
  <2>3. o \in Int /\ d \in {"none", "new"} /\ Nothing \in [Lines -> Nat] /\ Nothing \in [Lines -> Int]
    BY <1>3 DEF Nothing
  <2> HIDE DEF o, d, x
  <2>4. /\ q \in Sale /\ q.st = "completed" /\ q.kind = "prepay" /\ q.units = Nothing /\ q.cents = x
        /\ q.line = l /\ q.chain = c /\ q.doc = d
    BY <1>4, <2>1, <2>3 DEF Deposit, NoSale, Sale
  <2>5. QED
    BY <2>2, <2>4 DEF d
<1> HIDE DEF x
<1>6. Added(r)
  BY <1>1, <1>5 DEF Added
<1>7. PICK n \in Sales : n = sold + 1
  BY <1>6, AddedSale
<1>8. /\ sold' = n /\ sold' \in 0..MaxSales /\ sold \in Nat /\ sale \in [Sales -> Sale] /\ sale' \in [Sales -> Sale]
      /\ sale[n] = NoSale /\ sale'[n] = r
      /\ \A s \in Sales : s # n => sale'[s] = sale[s]
      /\ \A s \in Sales : sale[s].st # "none" => s <= sold
  BY <1>1, <1>6, <1>7, AddedSale
<1>9. \A k \in Lines : Nothing[k] = 0
  BY DEF Nothing
<1> DEFINE ch == IF c = 0 THEN 0 ELSE into.chained + a
<1>10. /\ line'[l] \in Line /\ line'[l].given = line[l].given /\ line'[l].off = line[l].off
       /\ line'[l].returned = line[l].returned /\ line'[l].paid = line[l].paid
       /\ line'[l].prepaid = line[l].prepaid + a /\ line'[l].closer = 0
       /\ line'[l].last = line[l].last /\ line'[l].chain = c /\ line'[l].attempts = into.attempts
       /\ line'[l].chained = ch
       /\ line' \in [Lines -> Line]
       /\ \A k \in Lines : k # l => line'[k] = line[k]
  <2> DEFINE v == into.prepaid + a
             q == [into EXCEPT !.prepaid = v, !.chain = c, !.chained = ch]
  <2>1. line' = [line EXCEPT ![l] = q]
    BY DEF Prepaid
  <2>2. v \in Int /\ ch \in Int
    BY <1>2 DEF Line
  <2> HIDE DEF v, ch
  <2>3. /\ q \in Line /\ q.given = into.given /\ q.off = into.off
        /\ q.returned = into.returned /\ q.paid = into.paid /\ q.prepaid = v /\ q.closer = into.closer
        /\ q.last = into.last /\ q.chain = c /\ q.attempts = into.attempts /\ q.chained = ch
    BY <2>2 DEF Line
  <2> HIDE DEF q
  <2>4. line' \in [Lines -> Line] /\ line'[l] = q /\ \A k \in Lines : k # l => line'[k] = line[k]
    BY <1>1, <2>1, <2>3
  <2>5. v = line[l].prepaid + a /\ into.closer = 0
    BY <1>1 DEF v, Open
  <2>6. QED
    BY <2>3, <2>4, <2>5
<1>11. /\ journal' \in [Lines -> Int] /\ journal'[l] = journal[l] - a
       /\ \A k \in Lines : k # l => journal'[k] = journal[k]
  BY <1>1, <1>2 DEF Prepaid
<1>12. TypeOK'
  BY <1>1, <1>8, <1>10, <1>11 DEF TypeOK
<1>13. /\ line[l].attempts \in Nat /\ line'[l].attempts \in Nat /\ line'[l].attempts >= line[l].attempts
       /\ line[l].chain \in Nat /\ line[l].chain <= line[l].attempts
       /\ c <= line'[l].attempts
  <2>1. line[l].attempts \in Nat /\ line[l].chain \in Nat /\ line'[l].attempts \in Nat /\ c \in Nat
    BY <1>1, <1>10, DebtAssumption DEF Line
  <2>2. line[l].chain <= line[l].attempts
    BY <1>1 DEF LineHolds, ChainAt
  <2>3. QED
    BY <1>10, <2>1, <2>2
<1>14. \A k \in Lines : line'[k].attempts \in Nat /\ line'[k].attempts >= line[k].attempts
  <2>1. \A k \in Lines : line[k].attempts \in Nat
    BY <1>1 DEF Line
  <2>2. QED
    BY <1>10, <1>13, <2>1
<1>15. c # 0 => giving[l][c] = "none"
  <2>1. CASE c = line[l].chain
    BY <1>1, <2>1, OpenChain
  <2>2. CASE c = line[l].attempts + 1
    <3>1. c \in Chain
      BY <1>13, <2>2 DEF Chain
    <3>2. giving[l][c] # "none" => c <= line[l].attempts
      BY <3>1 DEF IInv, GiveInv
    <3>3. QED
      BY <1>13, <2>2, <3>2
  <2>3. QED
    BY <2>1, <2>2
<1>16. SaleInv' /\ GiveInv'
  <2>1. /\ r.line \in Lines /\ r.cents[r.line] > 0
        /\ \A k \in Lines : r.units[k] = 0 /\ (k # r.line => r.cents[k] = 0)
    BY <1>2, <1>4, <1>5, <1>9
  <2>2. r.chain # 0 => /\ r.line \in Lines /\ r.chain <= line'[r.line].attempts
                       /\ giving[r.line][r.chain] = "none"
    BY <1>5, <1>13, <1>15
  <2>3. (r.doc # "none" => r.chain # 0) /\ r.kind = "prepay"
    BY <1>5
  <2>4. QED
    BY <1>1, <1>6, <1>14, <2>1, <2>2, <2>3, AddedInv
<1>17. Money(sale)'
  BY <1>16 DEF SaleInv
<1>18. NoSale.st = "none" /\ NoSale.kind = "receipt" /\ NoSale.units[l] = 0
  BY DEF NoSale, Nothing
<1>19. /\ \A s \in Sales : /\ s # n => (Stood(s)' <=> Stood(s))
                           /\ Stood(s) => s # n
                           /\ sale'[s].units[l] = sale[s].units[l]
                           /\ sale'[s].units[l] > 0 => sale'[s] = sale[s]
       /\ Left(l)' = Left(l)
  <2>1. sale'[n].units[l] = 0 /\ ~ Stood(n)
    BY <1>5, <1>8, <1>9, <1>18 DEF Stood, Counts
  <2>2. \A s \in Sales : s # n => (Stood(s)' <=> Stood(s))
    BY <1>8 DEF Stood
  <2>3. Left(l)' = Left(l)
    BY <1>10 DEF Left
  <2>4. \A s \in Sales : sale'[s].units[l] = sale[s].units[l] /\ (sale'[s].units[l] > 0 => s # n)
    BY <1>8, <1>18, <2>1
  <2>5. QED
    BY <1>8, <2>1, <2>2, <2>3, <2>4
<1>20. PaidAt(l)'
  <2> DEFINE c0 == line[l].chain
  <2>1. /\ UnitsOf(sale, l) \in [Sales -> Nat] /\ UnitsOf(sale', l) \in [Sales -> Nat]
        /\ InMoney(sale, c0, l) \in [Sales -> Nat]
        /\ InMoney(sale', c, l) \in [Sales -> Nat]
        /\ OutMoney(sale, c0, l) \in [Sales -> Nat]
        /\ OutMoney(sale', c, l) \in [Sales -> Nat]
    BY <1>1, <1>8, <1>17, Counted
  <2>2. /\ IsTotal(UnitsOf(sale, l), line[l].paid)
        /\ IsTotal(InMoney(sale, c0, l), line[l].chained)
        /\ IsTotal(OutMoney(sale, c0, l), line[l].prepaid - line[l].chained)
        /\ line[l].chained \in Nat /\ line[l].prepaid - line[l].chained \in Nat
        /\ line[l].prepaid \in Nat
    BY <1>1, PaidNat DEF LineHolds, PaidAt
  <2>3. \A s \in Sales : UnitsOf(sale, l)[s] = UnitsOf(sale', l)[s]
    <3>1. UnitsOf(sale, l)[n] = 0 /\ UnitsOf(sale', l)[n] = 0
      BY <1>5, <1>8, <1>9, <1>18 DEF UnitsOf
    <3>2. \A s \in Sales : s # n => UnitsOf(sale, l)[s] = UnitsOf(sale', l)[s]
      BY <1>8 DEF UnitsOf
    <3>3. QED
      BY <3>1, <3>2
  <2>4. IsTotal(UnitsOf(sale', l), line[l].paid)
    BY <2>1, <2>2, <2>3, TotalSame
  <2>5. InMoney(sale, c0, l)[n] = 0 /\ OutMoney(sale, c0, l)[n] = 0
    BY <1>8, <1>18 DEF InMoney, OutMoney, Toward
  <2>6. /\ InMoney(sale', c, l)[n] = IF c = 0 THEN 0 ELSE a
        /\ OutMoney(sale', c, l)[n] = IF c = 0 THEN a ELSE 0
    BY <1>4, <1>5, <1>8 DEF InMoney, OutMoney, Toward
  <2>7. /\ IsTotal(InMoney(sale', c, l), ch)
        /\ IsTotal(OutMoney(sale', c, l), line[l].prepaid + a - ch)
    <3>1. CASE c = 0
      <4>1. \A s \in Sales : InMoney(sale', c, l)[s] = 0
        BY <3>1 DEF InMoney
      <4>2. IsTotal(InMoney(sale', c, l), 0)
        BY <2>1, <4>1, TotalNone
      <4> DEFINE h == [s \in Sales |-> InMoney(sale, c0, l)[s] + OutMoney(sale, c0, l)[s]]
      <4>3. h \in [Sales -> Nat] /\ \A s \in Sales : h[s] = InMoney(sale, c0, l)[s] + OutMoney(sale, c0, l)[s]
        BY <2>1
      <4> HIDE DEF h
      <4>4. IsTotal(h, line[l].chained + (line[l].prepaid - line[l].chained))
        BY <2>1, <2>2, <4>3, TotalSum
      <4>5. ASSUME NEW s \in Sales, Toward(sale, s, l), c0 # 0, sale[s].chain = c0
            PROVE  sale[s].st # "refunded"
        <5>1. giving[l][c0] = "none" /\ c0 \in Chain
          BY <1>1, <4>5, OpenChain
        <5>2. \A t \in Sales : InChain(t, l, c0) => ~ Was(t, {"part", "refunded"})
          BY <5>1 DEF IInv, GiveInv, WholeChainBack
        <5>3. QED
          BY <4>5, <5>2 DEF Toward, InChain, Was
      <4>6. \A s \in Sales : s # n => OutMoney(sale', c, l)[s] = h[s]
        <5> SUFFICES ASSUME NEW s \in Sales, s # n PROVE OutMoney(sale', c, l)[s] = h[s]
          OBVIOUS
        <5>1. OutMoney(sale', c, l)[s]
                = IF Toward(sale, s, l) /\ sale[s].st = "completed" THEN sale[s].cents[l] ELSE 0
          BY <1>8, <3>1 DEF OutMoney, Toward
        <5>2. CASE c0 # 0 /\ sale[s].chain = c0
          <6>1. InMoney(sale, c0, l)[s]
                  = IF Toward(sale, s, l) /\ sale[s].st = "completed" THEN sale[s].cents[l] ELSE 0
            BY <4>5, <5>2 DEF InMoney
          <6>2. OutMoney(sale, c0, l)[s] = 0
            BY <5>2 DEF OutMoney
          <6>3. QED
            BY <2>1, <4>3, <5>1, <6>1, <6>2
        <5>3. CASE ~ (c0 # 0 /\ sale[s].chain = c0)
          <6>1. OutMoney(sale, c0, l)[s]
                  = IF Toward(sale, s, l) /\ sale[s].st = "completed" THEN sale[s].cents[l] ELSE 0
            BY <5>3 DEF OutMoney
          <6>2. InMoney(sale, c0, l)[s] = 0
            BY <5>3 DEF InMoney
          <6>3. QED
            BY <2>1, <4>3, <5>1, <6>1, <6>2
        <5>4. QED
          BY <5>2, <5>3
      <4>7. h[n] = 0 /\ OutMoney(sale', c, l)[n] = a
        BY <2>5, <2>6, <3>1, <4>3
      <4>8. IsTotal(OutMoney(sale', c, l), line[l].chained + (line[l].prepaid - line[l].chained) - 0 + a)
        <5>1. PICK v : v = line[l].chained + (line[l].prepaid - line[l].chained)
          OBVIOUS
        <5>2. IsTotal(h, v)
          BY <4>4, <5>1
        <5>3. IsTotal(OutMoney(sale', c, l), v - h[n] + OutMoney(sale', c, l)[n])
          BY <2>1, <4>3, <4>6, <5>2, TotalChange
        <5>4. v - h[n] + OutMoney(sale', c, l)[n] = line[l].chained + (line[l].prepaid - line[l].chained) - 0 + a
          BY <1>2, <2>1, <2>2, <4>7, <5>1
        <5>5. QED
          BY <5>3, <5>4
      <4>9. line[l].chained + (line[l].prepaid - line[l].chained) - 0 + a = line[l].prepaid + a - ch /\ ch = 0
        BY <1>2, <2>2, <3>1
      <4>10. QED
        BY <4>2, <4>8, <4>9
    <3>2. CASE c # 0
      <4>1. into.chained = line[l].chained
        <5>1. CASE c0 = 0
          <6>1. \A s \in Sales : InMoney(sale, c0, l)[s] = 0
            BY <5>1 DEF InMoney
          <6>2. line[l].chained = 0
            BY <2>1, <2>2, <6>1, TotalZero
          <6>3. QED
            BY <3>2, <5>1, <6>2
        <5>2. CASE c0 # 0
          BY <3>2, <5>2
        <5>3. QED
          BY <5>1, <5>2
      <4>2. ASSUME NEW s \in Sales, s # n, Toward(sale, s, l)
            PROVE  (c0 # 0 /\ sale[s].chain = c0) <=> sale[s].chain = c
        <5>1. CASE c = c0
          BY <3>2, <5>1
        <5>2. CASE c0 = 0 /\ c = line[l].attempts + 1
          <6>1. sale[s].chain # 0 => sale[s].chain <= line[l].attempts
            BY <4>2 DEF IInv, SaleInv, SaleAt, Toward
          <6>2. sale[s].chain \in Int
            BY <1>8 DEF Sale
          <6>3. sale[s].chain # c
            BY <1>13, <3>2, <5>2, <6>1, <6>2
          <6>4. QED
            BY <5>2, <6>3
        <5>3. QED
          BY <3>2, <5>1, <5>2
      <4>3. \A s \in Sales : s # n => InMoney(sale', c, l)[s] = InMoney(sale, c0, l)[s]
        BY <1>8, <3>2, <4>2 DEF InMoney, Toward
      <4>4. \A s \in Sales : s # n => OutMoney(sale', c, l)[s] = OutMoney(sale, c0, l)[s]
        BY <1>8, <3>2, <4>2 DEF OutMoney, Toward
      <4>5. IsTotal(InMoney(sale', c, l), line[l].chained - InMoney(sale, c0, l)[n] + InMoney(sale', c, l)[n])
        BY <2>1, <2>2, <4>3, TotalChange
      <4>6. \A s \in Sales : OutMoney(sale, c0, l)[s] = OutMoney(sale', c, l)[s]
        BY <2>5, <2>6, <3>2, <4>4
      <4>7. IsTotal(OutMoney(sale', c, l), line[l].prepaid - line[l].chained)
        BY <2>1, <2>2, <4>6, TotalSame
      <4>8. /\ line[l].chained - InMoney(sale, c0, l)[n] + InMoney(sale', c, l)[n] = ch
            /\ line[l].prepaid - line[l].chained = line[l].prepaid + a - ch
        BY <1>2, <2>2, <2>5, <2>6, <3>2, <4>1
      <4>9. QED
        BY <4>5, <4>7, <4>8
    <3>3. QED
      BY <3>1, <3>2
  <2>8. QED
    <3> HIDE DEF ch
    <3>1. /\ line'[l].paid = line[l].paid /\ line'[l].chain = c /\ line'[l].chained = ch
          /\ line'[l].prepaid = line[l].prepaid + a
      BY <1>10
    <3>2. line'[l].prepaid - line'[l].chained = line[l].prepaid + a - ch
      <4>1. line'[l].prepaid \in Int /\ line'[l].chained \in Int /\ a \in Int /\ line[l].prepaid \in Int
        BY <1>2, <1>3, <1>10 DEF Line
      <4>2. QED
        BY <3>1, <4>1
    <3>3. /\ IsTotal(InMoney(sale', line'[l].chain, l), line'[l].chained)
          /\ IsTotal(OutMoney(sale', line'[l].chain, l), line'[l].prepaid - line'[l].chained)
      BY <2>7, <3>1, <3>2, Zenon
    <3>4. IsTotal(UnitsOf(sale', l), line'[l].paid)
      BY <2>4, <3>1, Zenon
    <3>5. QED
      BY <3>3, <3>4 DEF PaidAt
<1>21. CloserAt(l)'
  <2>1. ASSUME NEW t \in Sales, sale'[t].kind = "close", sale'[t].line = l, Stood(t)'
        PROVE  line'[l].closer = t
    <3>1. t # n
      BY <1>5, <1>8, <2>1
    <3>2. line[l].closer = t
      BY <1>1, <1>8, <1>19, <2>1, <3>1 DEF LineHolds, CloserAt
    <3>3. QED
      BY <1>1, <1>10, <3>2 DEF Open
  <2>2. QED
    BY <1>10, <2>1 DEF CloserAt
<1>22. LineAt(l)'
  <2>1. line'[l].given /\ Left(l)' <= Qty[l] /\ Left(l)' # Qty[l]
    BY <1>1, <1>3, <1>10, <1>19 DEF Open
  <2>2. line[l].last <= sold /\ line[l].last \in Int
    BY <1>1, DebtAssumption DEF LineHolds, LineAt, Line
  <2>3. line'[l].last <= sold'
    BY <1>1, <1>8, <1>10, <2>2
  <2>4. QED
    BY <2>1, <2>3 DEF LineAt
<1>23. ChainAt(l)'
  <2>1. c # 0 => Toward(sale', n, l) /\ sale'[n].chain = c /\ sale'[n].st = "completed"
    BY <1>5, <1>8 DEF Toward
  <2>2. giving' = giving
    BY <1>1
  <2>3. QED
    BY <1>10, <1>13, <1>15, <2>1, <2>2 DEF ChainAt
<1>24. Undercut(l) => Undercut(l)'
  <2>1. \A s \in Sales : Was(s, {"voided"}) \/ Was(s, {"part", "refunded"}) => sale'[s] = sale[s]
    BY <1>8, <1>18 DEF Was
  <2>2. QED
    BY <2>1 DEF Undercut, Was
<1>25. StackAt(l)'
  <2>1. \A s \in Sales : Stood(s)' /\ sale'[s].units[l] > 0 => Stood(s) /\ sale'[s] = sale[s]
    BY <1>8, <1>19 DEF Stood
  <2>2. \A s \in Sales : Stood(s) => Stood(s)' /\ sale'[s] = sale[s]
    BY <1>8, <1>19
  <2>3. line'[l].closer = line[l].closer /\ line'[l].last = line[l].last
    BY <1>1, <1>10 DEF Open
  <2>4. ASSUME NEW b \in [Sales -> Int], Stack(l, b) PROVE Stack(l, b)'
    <3> SUFFICES ASSUME NEW s \in Sales, Stood(s)', sale'[s].units[l] > 0, line'[l].last < s
                 PROVE  /\ line'[l].closer # s => sale'[s].cents[l] = Cum(l, b[s] + sale'[s].units[l]) - Cum(l, b[s])
                        /\ (\A t \in Sales : s < t /\ Stood(t)' => sale'[t].units[l] = 0)
                             => Left(l)' = b[s] + sale'[s].units[l]
                        /\ \A t \in Sales :
                             s < t /\ Stood(t)' /\ sale'[t].units[l] > 0
                               /\ (\A q \in Sales : s < q /\ q < t /\ Stood(q)' => sale'[q].units[l] = 0)
                             => b[t] = b[s] + sale'[s].units[l]
      BY DEF Stack
    <3>1. Stood(s) /\ sale'[s] = sale[s] /\ sale[s].units[l] > 0 /\ line[l].last < s
      BY <2>1, <2>3
    <3>2. QED
      BY <1>19, <2>1, <2>2, <2>3, <2>4, <3>1 DEF Stack
  <2>5. QED
    BY <1>1, <1>24, <2>4 DEF LineHolds, StackAt
<1>26. JournalAt(l)'
  <2>1. CASE Undercut(l)
    BY <1>24, <2>1 DEF JournalAt
  <2>2. CASE ~ Undercut(l)
    <3>1. journal[l] = Total[l] - Cum(l, Left(l)) - line[l].prepaid
      BY <1>1, <2>2 DEF LineHolds, JournalAt, Owed
    <3>2. Open(l)'
      BY <1>1, <1>3, <1>10, <1>19 DEF Open
    <3>3. Owed(l)' = Total[l] - Cum(l, Left(l)) - (line[l].prepaid + a)
      BY <1>10, <1>19 DEF Owed
    <3>4. journal'[l] = Owed(l)'
      BY <1>2, <1>3, <1>11, <3>1, <3>3
    <3>5. QED
      BY <3>2, <3>4 DEF JournalAt
  <2>3. QED
    BY <2>1, <2>2
<1>27. ASSUME NEW k \in Lines, k # l PROVE LineHolds(k)'
  <2>1. Blind(sale, n, k) /\ Blind(sale', n, k)
    BY <1>5, <1>8, <1>9, <1>27 DEF Blind, NoSale
  <2>2. \A s \in Sales : sale'[s] = sale[s] \/ (Blind(sale, s, k) /\ Blind(sale', s, k))
    BY <1>8, <2>1
  <2>3. sold' \in Int /\ sold' >= sold /\ LineHolds(k) /\ giving'[k] = giving[k]
    <3>1. LineHolds(k)
      BY DEF IInv
    <3>2. QED
      BY <1>1, <1>8, <3>1
  <2>4. QED
    BY <1>1, <1>8, <1>10, <1>11, <1>17, <1>27, <2>2, <2>3, Untouched
<1>28. LineHolds(l)'
  BY <1>20, <1>21, <1>22, <1>23, <1>25, <1>26 DEF LineHolds
<1>29. QED
  BY <1>12, <1>16, <1>27, <1>28 DEF IInv

LEMMA PlainDeposit ==
  ASSUME IInv, NEW l \in Lines, NEW a \in Amounts, PrepayPlain(l, a)
  PROVE  IInv'
<1>1. Prepaid(l, a, 0, line[l]) /\ line[l] \in Line /\ 0 \in 0..MaxSales
  BY DebtAssumption DEF PrepayPlain, IInv, TypeOK
<1>2. QED
  BY <1>1, Deposited

LEMMA ChainDeposit ==
  ASSUME IInv, NEW l \in Lines, NEW a \in Amounts, PrepayChain(l, a)
  PROVE  IInv'
<1>1. line[l] \in Line
  BY DEF IInv, TypeOK
<1>2. CASE line[l].chain = 0
  <2>1. PICK c \in Chain : /\ c = line[l].attempts + 1
                           /\ Prepaid(l, a, c, [line[l] EXCEPT !.attempts = c, !.chained = 0])
    BY <1>2 DEF PrepayChain
  <2>2. c \in 0..MaxSales /\ c \in Nat
    BY DEF Chain
  <2>3. Prepaid(l, a, c, Opened(line[l], c))
    BY <2>1 DEF Opened
  <2>4. PICK into : into = Opened(line[l], c)
    OBVIOUS
  <2>5. /\ into \in Line /\ into.given = line[l].given /\ into.off = line[l].off
        /\ into.returned = line[l].returned /\ into.paid = line[l].paid /\ into.prepaid = line[l].prepaid
        /\ into.closer = line[l].closer /\ into.last = line[l].last
        /\ into.attempts = c /\ into.chained = 0
    BY <1>1, <2>2, <2>4, OpenedLine
  <2>6. Prepaid(l, a, c, into)
    BY <2>3, <2>4
  <2>7. QED
    BY <1>2, <2>1, <2>2, <2>5, <2>6, Deposited
<1>3. CASE line[l].chain # 0
  <2>1. Prepaid(l, a, line[l].chain, line[l]) /\ line[l].chain \in 0..MaxSales
    BY <1>1, <1>3 DEF PrepayChain, Line
  <2>2. QED
    BY <1>1, <1>3, <2>1, Deposited
<1>4. QED
  BY <1>2, <1>3

(* «Скасувати внески».                                                           *)
LEMMA Cancelled ==
  ASSUME IInv, NEW l \in Lines, CancelPrepayments(l)
  PROVE  IInv'
<1>1. /\ Open(l) /\ UNCHANGED <<sold, chains>>
      /\ TypeOK /\ Money(sale) /\ LineHolds(l) /\ line[l] \in Line /\ line \in [Lines -> Line]
      /\ journal \in [Lines -> Int] /\ sale \in [Sales -> Sale]
  BY DEF CancelPrepayments, IInv, SaleInv, TypeOK
<1>2. PICK S \in SUBSET Sales : GiveBack(l, S) /\ \A s \in S : sale[s].kind = "prepay"
  BY DEF CancelPrepayments
<1>3. PICK c \in Chain : c = line[l].chain /\ c # 0
  BY <1>2, Bounds DEF GiveBack, IInv
<1>4. /\ line' \in [Lines -> Line] /\ line'[l].given = line[l].given /\ line'[l].off = line[l].off
      /\ line'[l].returned = line[l].returned /\ line'[l].paid = line[l].paid
      /\ line'[l].prepaid = line[l].prepaid - line[l].chained /\ line'[l].closer = line[l].closer
      /\ line'[l].last = line[l].last /\ line'[l].chain = 0 /\ line'[l].attempts = line[l].attempts
      /\ line'[l].chained = 0
      /\ \A k \in Lines : k # l => line'[k] = line[k]
  <2>1. line[l] \in Line /\ 0 \in 0..MaxSales
    BY <1>1, DebtAssumption
  <2>2. PICK v \in Int : v = line[l].prepaid - line[l].chained
    BY <2>1 DEF Line
  <2>3. PICK w \in Nat, m \in 0..MaxSales : w = line[l].paid /\ m = line[l].closer
    BY <2>1 DEF Line
  <2>4. PICK q : q = Freed(line[l], w, m, v, 0, 0)
    OBVIOUS
  <2>5. line' = [line EXCEPT ![l] = q]
    <3>1. Unchained(l) = Freed(line[l], w, m, v, 0, 0)
      BY <2>1, <2>2, <2>3 DEF Unchained, Freed, Line
    <3>2. QED
      BY <2>4, <3>1 DEF CancelPrepayments
  <2>6. /\ q \in Line /\ q.given = line[l].given /\ q.off = line[l].off
        /\ q.returned = line[l].returned /\ q.paid = w /\ q.prepaid = v /\ q.closer = m
        /\ q.last = line[l].last /\ q.chain = 0 /\ q.attempts = line[l].attempts /\ q.chained = 0
    BY <2>1, <2>4, FreedLine
  <2>7. line' \in [Lines -> Line] /\ line'[l] = q /\ \A k \in Lines : k # l => line'[k] = line[k]
    BY <1>1, <2>5, <2>6
  <2>8. QED
    BY <2>2, <2>3, <2>6, <2>7
<1>5. \A k \in Lines : line'[k].attempts = line[k].attempts
  BY <1>4
<1>6. /\ sale' \in [Sales -> Sale]
      /\ giving' \in [Lines -> [Chain -> {"none", "due", "parked", "done"}]]
      /\ \A s \in Sales : Fixed(s) /\ sale'[s].doc = sale[s].doc
      /\ \A s \in S : /\ sale[s].st = "completed" /\ sale'[s].st = "refunded" /\ s <= sold
                      /\ sale[s].line = l /\ sale[s].chain = line[l].chain
      /\ \A s \in Sales \ S : sale'[s] = sale[s]
      /\ giving[l][line[l].chain] = "none" /\ giving'[l][line[l].chain] = "due"
      /\ \A k \in Lines \ {l} : giving'[k] = giving[k]
      /\ GiveInv'
  BY <1>1, <1>2, <1>5, GivenBack
<1>7. line[l].chained \in Nat /\ line[l].prepaid - line[l].chained \in Nat /\ line[l].prepaid \in Nat
  BY <1>1, PaidNat DEF LineHolds
<1>8. /\ journal' \in [Lines -> Int] /\ journal'[l] = journal[l] + line[l].chained
      /\ \A k \in Lines : k # l => journal'[k] = journal[k]
  BY <1>1, <1>7 DEF CancelPrepayments
<1>9. TypeOK'
  BY <1>1, <1>4, <1>6, <1>8 DEF TypeOK
<1>10. SaleInv'
  <2>1. Money(sale)'
    BY <1>1, <1>6 DEF Money, Fixed
  <2>2. ASSUME NEW s \in Sales PROVE SaleAt(s)'
    <3>1. SaleAt(s) /\ sold' = sold /\ Fixed(s) /\ sale'[s].doc = sale[s].doc
      BY <1>1, <1>6 DEF IInv, SaleInv
    <3>2. s > sold => sale'[s] = sale[s]
      BY <1>1, <1>6 DEF TypeOK, Sales
    <3>3. sale'[s].st = sale[s].st \/ sale'[s].st = "refunded"
      BY <1>6
    <3>4. /\ s > sold' => sale'[s] = NoSale
          /\ s <= sold' => sale'[s].st # "none"
      BY <3>1, <3>2, <3>3 DEF SaleAt
    <3>5. sale'[s].chain # 0 => sale'[s].line \in Lines /\ sale'[s].chain <= line'[sale'[s].line].attempts
      BY <1>5, <3>1 DEF SaleAt, Fixed
    <3>6. QED
      BY <3>1, <3>4, <3>5 DEF SaleAt, Fixed
  <2>3. QED
    BY <2>1, <2>2 DEF SaleInv
<1>11. \A s \in Sales : sale[s].units[l] > 0 => sale'[s] = sale[s]
  BY <1>1, <1>2, <1>6 DEF Money
<1>12. \A s \in Sales : /\ sale'[s].units[l] = sale[s].units[l] /\ sale[s].units[l] \in Nat
                        /\ Stood(s)' <=> Stood(s)
  <2>1. \A s \in Sales : sale[s].units[l] \in Nat
    BY <1>1 DEF Sale
  <2>2. \A s \in Sales : sale'[s].units[l] = sale[s].units[l]
    BY <1>6 DEF Fixed
  <2>3. \A s \in Sales : Stood(s)' <=> Stood(s)
    <3>1. \A s \in S : sale[s].st = "completed" /\ sale'[s].st = "refunded"
      BY <1>6
    <3>2. \A s \in Sales \ S : sale'[s] = sale[s]
      BY <1>6
    <3>3. QED
      BY <3>1, <3>2 DEF Stood, Counts
  <2>4. QED
    BY <2>1, <2>2, <2>3
<1>13. Left(l)' = Left(l) /\ Left(l) \in Int /\ Qty[l] \in Int /\ Left(l) < Qty[l] /\ Open(l)' /\ line[l].closer = 0
  BY <1>1, <1>4, DebtAssumption DEF Left, Line, Open
<1>14. PaidAt(l)'
  <2>1. /\ UnitsOf(sale, l) \in [Sales -> Nat] /\ UnitsOf(sale', l) \in [Sales -> Nat]
        /\ InMoney(sale', 0, l) \in [Sales -> Nat]
        /\ OutMoney(sale, c, l) \in [Sales -> Nat]
        /\ OutMoney(sale', 0, l) \in [Sales -> Nat]
    BY <1>1, <1>6, <1>10, Counted DEF SaleInv
  <2>2. \A s \in Sales : UnitsOf(sale, l)[s] = UnitsOf(sale', l)[s]
    BY <1>12 DEF UnitsOf, Stood
  <2>3. \A s \in Sales : InMoney(sale', 0, l)[s] = 0
    BY DEF InMoney
  <2>4. ASSUME NEW s \in Sales PROVE OutMoney(sale, c, l)[s] = OutMoney(sale', 0, l)[s]
    <3>1. CASE s \in S
      BY <1>3, <1>6, <3>1 DEF OutMoney, Toward
    <3>2. CASE s \notin S
      <4>1. sale'[s] = sale[s]
        BY <1>6, <3>2
      <4>2. ~ (InChain(s, l, c) /\ sale[s].st = "completed")
        BY <1>2, <1>3, <3>2 DEF GiveBack, Standing
      <4>3. QED
        BY <1>3, <4>1, <4>2 DEF OutMoney, Toward, InChain
    <3>3. QED
      BY <3>1, <3>2
  <2>5. /\ IsTotal(UnitsOf(sale, l), line[l].paid)
        /\ IsTotal(OutMoney(sale, c, l), line[l].prepaid - line[l].chained)
    BY <1>1, <1>3 DEF LineHolds, PaidAt
  <2>6. /\ IsTotal(UnitsOf(sale', l), line[l].paid)
        /\ IsTotal(OutMoney(sale', 0, l), line[l].prepaid - line[l].chained)
        /\ IsTotal(InMoney(sale', 0, l), 0)
    BY <2>1, <2>2, <2>3, <2>4, <2>5, TotalSame, TotalNone
  <2>7. line[l].prepaid - line[l].chained = line'[l].prepaid - line'[l].chained
    BY <1>4, <1>7
  <2>8. QED
    BY <1>4, <2>6, <2>7 DEF PaidAt
<1>15. CloserAt(l)'
  BY <1>1, <1>4, <1>6, <1>12, <1>13 DEF LineHolds, CloserAt, Fixed
<1>16. LineAt(l)'
  <2>1. line'[l].given /\ Left(l)' <= Qty[l] /\ Left(l)' # Qty[l]
    BY <1>13 DEF Open
  <2>2. line'[l].last <= sold'
    BY <1>1, <1>4 DEF LineHolds, LineAt
  <2>3. QED
    BY <2>1, <2>2 DEF LineAt
<1>17. ChainAt(l)'
  <2>1. line[l].attempts \in Nat
    BY <1>1 DEF Line
  <2>2. QED
    BY <1>4, <2>1 DEF ChainAt
<1>18. Undercut(l) => Undercut(l)'
  BY <1>11, <1>12 DEF Undercut, Was
<1>19. StackAt(l)'
  <2>1. ASSUME NEW b \in [Sales -> Int], Stack(l, b) PROVE Stack(l, b)'
    BY <1>4, <1>11, <1>12, <1>13, <2>1 DEF Stack
  <2>2. QED
    BY <1>1, <1>18, <2>1 DEF LineHolds, StackAt
<1>20. JournalAt(l)'
  <2>1. CASE Undercut(l)
    BY <1>18, <2>1 DEF JournalAt
  <2>2. CASE ~ Undercut(l)
    <3>1. journal[l] = Total[l] - Cum(l, Left(l)) - line[l].prepaid
      BY <1>1, <2>2 DEF LineHolds, JournalAt, Owed
    <3>2. Owed(l)' = Total[l] - Cum(l, Left(l)) - (line[l].prepaid - line[l].chained)
      BY <1>4, <1>13 DEF Owed
    <3>3. Total[l] \in Int /\ Cum(l, Left(l)) \in Int
      BY <1>13, CumWhole, DebtAssumption
    <3>4. journal'[l] = Owed(l)'
      BY <1>7, <1>8, <3>1, <3>2, <3>3
    <3>5. QED
      BY <1>13, <3>4 DEF JournalAt
  <2>3. QED
    BY <2>1, <2>2
<1>21. ASSUME NEW k \in Lines, k # l PROVE LineHolds(k)'
  <2>1. \A s \in S : Blind(sale, s, k) /\ Blind(sale', s, k)
    BY <1>1, <1>2, <1>6, <1>21 DEF Blind, Fixed, Money
  <2>2. \A s \in Sales : sale'[s] = sale[s] \/ (Blind(sale, s, k) /\ Blind(sale', s, k))
    BY <1>6, <2>1
  <2>3. sold' \in Int /\ sold' >= sold /\ LineHolds(k) /\ giving'[k] = giving[k] /\ Money(sale)'
    BY <1>1, <1>6, <1>10, <1>21 DEF IInv, SaleInv, TypeOK
  <2>4. QED
    BY <1>1, <1>4, <1>6, <1>8, <1>21, <2>2, <2>3, Untouched
<1>22. LineHolds(l)'
  BY <1>14, <1>15, <1>16, <1>17, <1>19, <1>20 DEF LineHolds
<1>23. QED
  BY <1>6, <1>9, <1>10, <1>21, <1>22 DEF IInv

----------------------------------------------------------------------------------
(* A repayment undone: by the void route, or because its document cannot exist.  *)

Undone(s) ==
    /\ CanVoid(s) /\ Released(s)
    /\ UNCHANGED <<sold, chains, giving>>
    /\ sale' \in [Sales -> Sale] /\ Fixed(s) /\ sale'[s].st = "voided"
    /\ sale[s].doc = "none" => sale'[s].doc = "none"
    /\ \A t \in Sales : t # s => sale'[t] = sale[t]

RefusedAtOnce(s) ==
    /\ sale[s].doc = "sent" /\ CanVoid(s) /\ Released(s)
    /\ sale' = [sale EXCEPT ![s].doc = "parked", ![s].st = "voided"]
    /\ UNCHANGED <<sold, chains, giving>>

LEMMA UndoneAs ==
  ASSUME TypeOK, NEW s \in Sales, Void(s) \/ RefusedAtOnce(s)
  PROVE  Undone(s)
<1>1. sale \in [Sales -> Sale] /\ sale[s] \in Sale
  BY DEF TypeOK
<1>2. /\ CanVoid(s) /\ Released(s)
      /\ UNCHANGED <<sold, chains, giving>>
  BY DEF Void, RefusedAtOnce
<1>3. CASE Void(s)
  <2> DEFINE q == [sale[s] EXCEPT !.st = "voided"]
  <2>1. sale' = [sale EXCEPT ![s] = q]
    BY <1>1, <1>3 DEF Void
  <2>2. /\ q \in Sale /\ q.st = "voided" /\ q.kind = sale[s].kind /\ q.units = sale[s].units
        /\ q.cents = sale[s].cents /\ q.pre = sale[s].pre /\ q.line = sale[s].line
        /\ q.chain = sale[s].chain /\ q.doc = sale[s].doc
    BY <1>1 DEF Sale
  <2> HIDE DEF q
  <2>3. /\ sale' \in [Sales -> Sale] /\ sale'[s] = q
        /\ \A t \in Sales : t # s => sale'[t] = sale[t]
    BY <1>1, <2>1, <2>2
  <2>4. QED
    BY <1>2, <2>2, <2>3 DEF Undone, Fixed
<1>4. CASE RefusedAtOnce(s)
  <2> DEFINE q == [sale[s] EXCEPT !.doc = "parked", !.st = "voided"]
  <2>1. sale' = [sale EXCEPT ![s] = q]
    BY <1>1, <1>4 DEF RefusedAtOnce
  <2>2. /\ q \in Sale /\ q.st = "voided" /\ q.kind = sale[s].kind /\ q.units = sale[s].units
        /\ q.cents = sale[s].cents /\ q.pre = sale[s].pre /\ q.line = sale[s].line
        /\ q.chain = sale[s].chain
    BY <1>1 DEF Sale
  <2> HIDE DEF q
  <2>3. /\ sale' \in [Sales -> Sale] /\ sale'[s] = q
        /\ \A t \in Sales : t # s => sale'[t] = sale[t]
    BY <1>1, <2>1, <2>2
  <2>4. sale[s].doc = "sent"
    BY <1>4 DEF RefusedAtOnce
  <2>5. QED
    BY <1>2, <2>2, <2>3, <2>4 DEF Undone, Fixed
<1>5. QED
  BY <1>3, <1>4

LEMMA UndoneSales ==
  ASSUME IInv, NEW s \in Sales, Undone(s)
  PROVE  /\ sale \in [Sales -> Sale] /\ Money(sale) /\ Money(sale)' /\ s <= sold
         /\ sale[s].st = "completed" /\ Stood(s) /\ ~ Stood(s)'
         /\ \A t \in Sales : Fixed(t) /\ (t # s => (Stood(t)' <=> Stood(t)))
<1>1. sale \in [Sales -> Sale] /\ Money(sale) /\ SaleAt(s) /\ sale[s].st = "completed"
  BY DEF IInv, TypeOK, SaleInv, Undone, CanVoid
<1>2. \A t \in Sales : Fixed(t)
  BY DEF Undone, Fixed
<1>3. Money(sale)'
  BY <1>1, <1>2 DEF Money, Undone, Fixed
<1>4. s <= sold
  BY <1>1 DEF SaleAt, NoSale, IInv, TypeOK, Sales
<1>5. Stood(s) /\ ~ Stood(s)'
  BY <1>1 DEF Stood, Counts, Undone
<1>6. \A t \in Sales : t # s => (Stood(t)' <=> Stood(t))
  BY DEF Stood, Undone
<1>7. QED
  BY <1>1, <1>2, <1>3, <1>4, <1>5, <1>6

MoneyOf(s, l) == IF sale[s].kind = "prepay" THEN sale[s].cents[l] ELSE 0
ChainedOf(s, l) ==
    IF MoneyOf(s, l) # 0 /\ sale[s].chain # 0 /\ sale[s].chain = line[l].chain THEN MoneyOf(s, l) ELSE 0

LEMMA LineFreed ==
  ASSUME IInv, NEW s \in Sales, Undone(s), NEW l \in Lines, Touches(s, l)
  PROVE  /\ line'[l] \in Line /\ line'[l].given = line[l].given /\ line'[l].off = line[l].off
         /\ line'[l].returned = line[l].returned /\ line'[l].last = line[l].last
         /\ line'[l].attempts = line[l].attempts
         /\ line'[l].paid = line[l].paid - sale[s].units[l] /\ sale[s].units[l] <= line[l].paid
         /\ line'[l].closer = 0 /\ line[l].closer \in {0, s} /\ ~ line[l].off
         /\ line'[l].prepaid = line[l].prepaid - MoneyOf(s, l)
         /\ line'[l].chained = line[l].chained - ChainedOf(s, l)
         /\ line'[l].chain = IF LastOfChain(s, l) THEN 0 ELSE line[l].chain
<1>1. /\ line \in [Lines -> Line] /\ line[l] \in Line /\ sale \in [Sales -> Sale] /\ TypeOK
      /\ LineHolds(l) /\ Money(sale)
  BY DEF IInv, SaleInv, TypeOK
<1>2. line[l].closer \in {0, s} /\ ~ line[l].off
  BY DEF Undone, CanVoid, NothingBuiltOn
<1>3. sale[s].units[l] \in Nat /\ sale[s].cents[l] \in Int /\ MoneyOf(s, l) \in Int /\ ChainedOf(s, l) \in Int
  <2>1. sale[s].units[l] \in Nat /\ sale[s].cents[l] \in Int
    BY <1>1 DEF Sale
  <2>2. QED
    BY <2>1 DEF MoneyOf, ChainedOf
<1>4. line[l].paid \in Nat /\ line[l].prepaid \in Int /\ line[l].chained \in Int /\ line[l].chain \in 0..MaxSales
  BY <1>1 DEF Line
<1>5. sale[s].units[l] <= line[l].paid
  <2>1. UnitsOf(sale, l) \in [Sales -> Nat] /\ IsTotal(UnitsOf(sale, l), line[l].paid)
    BY <1>1, Counted DEF LineHolds, PaidAt
  <2>2. UnitsOf(sale, l)[s] = sale[s].units[l]
    BY UndoneSales DEF UnitsOf, Stood
  <2>3. UnitsOf(sale, l)[s] <= line[l].paid
    BY <2>1, TotalLeast
  <2>4. QED
    BY <2>2, <2>3
<1>6. 0 \in 0..MaxSales
  BY DebtAssumption
<1>7. PICK v \in Nat : v = line[l].paid - sale[s].units[l]
  BY <1>3, <1>4, <1>5
<1>8. PICK a \in Int, b \in Int : a = line[l].prepaid - MoneyOf(s, l) /\ b = line[l].chained - ChainedOf(s, l)
  BY <1>3, <1>4
<1>9. PICK c \in 0..MaxSales : c = IF LastOfChain(s, l) THEN 0 ELSE line[l].chain
  BY <1>4, <1>6
<1>10. PICK q : q = Freed(line[l], v, 0, a, b, c)
  OBVIOUS
<1>11. line'[l] = q
  <2>1. line'[l] = ReleasedLine(s, l)
    BY DEF Undone, Released
  <2>2. (IF line[l].closer = s THEN 0 ELSE line[l].closer) = 0
    BY <1>2
  <2>3. ReleasedLine(s, l) = Freed(line[l], v, 0, a, b, c)
    BY <1>1, <1>7, <1>8, <1>9, <2>2 DEF ReleasedLine, Freed, MoneyOf, ChainedOf, Line
  <2>4. QED
    BY <1>10, <2>1, <2>3
<1>12. /\ q \in Line /\ q.given = line[l].given /\ q.off = line[l].off
       /\ q.returned = line[l].returned /\ q.paid = v /\ q.prepaid = a /\ q.chained = b /\ q.closer = 0
       /\ q.chain = c /\ q.attempts = line[l].attempts /\ q.last = line[l].last
  BY <1>1, <1>6, <1>10, FreedLine
<1>13. QED
  BY <1>2, <1>5, <1>7, <1>8, <1>9, <1>11, <1>12

LEMMA UndoneRest ==
  ASSUME IInv, NEW s \in Sales, Undone(s)
  PROVE  TypeOK' /\ SaleInv' /\ GiveInv'
<1>1. /\ line \in [Lines -> Line] /\ journal \in [Lines -> Int] /\ sale \in [Sales -> Sale]
      /\ line' = [l \in Lines |-> IF Touches(s, l) THEN ReleasedLine(s, l) ELSE line[l]]
      /\ journal' = [l \in Lines |-> journal[l] + sale[s].cents[l]]
      /\ sold' = sold /\ chains' = chains /\ giving' = giving /\ sale' \in [Sales -> Sale]
      /\ sale'[s].st = "voided"
  BY DEF IInv, TypeOK, Undone, Released
<1>2. ASSUME NEW l \in Lines PROVE line'[l] \in Line /\ line'[l].attempts = line[l].attempts
  <2>1. CASE Touches(s, l)
    BY <2>1, LineFreed
  <2>2. CASE ~ Touches(s, l)
    BY <1>1, <2>2
  <2>3. QED
    BY <2>1, <2>2
<1>3. line' \in [Lines -> Line]
  <2>1. PICK f : line' = [l \in Lines |-> f[l]]
    <3>1. line' = [l \in Lines |-> line'[l]]
      BY <1>1
    <3>2. QED
      BY <3>1
  <2>2. \A l \in Lines : f[l] \in Line
    BY <1>2, <2>1
  <2>3. QED
    BY <2>1, <2>2
<1>4. journal' \in [Lines -> Int]
  <2>1. \A l \in Lines : sale[s].cents[l] \in Int
    BY <1>1 DEF Sale
  <2>2. QED
    BY <1>1, <2>1
<1>5. TypeOK'
  BY <1>1, <1>3, <1>4 DEF IInv, TypeOK
<1>6. ASSUME NEW t \in Sales PROVE SaleAt(t)'
  <2>1. SaleAt(t) /\ Fixed(t)
    BY UndoneSales DEF IInv, SaleInv
  <2>2. /\ t > sold => sale'[t] = NoSale
        /\ t <= sold => sale'[t].st # "none"
        /\ sale'[t].doc # "none" => sale[t].doc # "none"
    <3>1. t # s => sale'[t] = sale[t]
      BY DEF Undone
    <3>2. t = s => ~ (t > sold) /\ (sale'[t].doc # "none" => sale[t].doc # "none")
      BY UndoneSales DEF Undone, IInv, TypeOK, Sales
    <3>3. QED
      BY <1>1, <2>1, <3>1, <3>2 DEF SaleAt
  <2>3. sale'[t].chain # 0 => sale'[t].line \in Lines /\ sale'[t].chain <= line'[sale'[t].line].attempts
    BY <1>2, <2>1 DEF SaleAt, Fixed
  <2>4. QED
    BY <1>1, <2>1, <2>2, <2>3 DEF SaleAt, Fixed
<1>7. SaleInv'
  BY <1>6, UndoneSales DEF SaleInv
<1>8. ASSUME NEW l \in Lines, NEW c \in Chain
      PROVE  /\ giving'[l][c] # "none" => \A t \in Sales : InChain(t, l, c)' => Was(t, {"refunded", "voided"})'
             /\ giving'[l][c] = "none" => \A t \in Sales : InChain(t, l, c)' => ~ Was(t, {"part", "refunded"})'
             /\ chains'[l][c].st = "returned" => giving'[l][c] = "done"
  <2>1. \A t \in Sales : InChain(t, l, c)' <=> InChain(t, l, c)
    BY UndoneSales DEF InChain, Fixed
  <2>2. \A t \in Sales :
          /\ Was(t, {"refunded", "voided"}) => Was(t, {"refunded", "voided"})'
          /\ ~ Was(t, {"part", "refunded"}) => ~ Was(t, {"part", "refunded"})'
    <3>1. \A t \in Sales : sale'[t].st = sale[t].st \/ (t = s /\ sale'[t].st = "voided")
      BY <1>1 DEF Undone
    <3>2. QED
      BY <3>1 DEF Was
  <2>3. /\ giving[l][c] # "none" => \A t \in Sales : InChain(t, l, c) => Was(t, {"refunded", "voided"})
        /\ giving[l][c] = "none" => \A t \in Sales : InChain(t, l, c) => ~ Was(t, {"part", "refunded"})
        /\ chains[l][c].st = "returned" => giving[l][c] = "done"
    BY DEF IInv, GiveInv, WholeChainBack
  <2>4. giving'[l][c] = giving[l][c] /\ chains'[l][c] = chains[l][c]
    BY <1>1
  <2>5. QED
    BY <2>1, <2>2, <2>3, <2>4
<1>9. WholeChainBack'
  BY <1>8 DEF WholeChainBack
<1>10. \A l \in Lines, c \in Chain : giving'[l][c] # "none" => c <= line'[l].attempts
  BY <1>1, <1>2 DEF IInv, GiveInv
<1>11. QED
  BY <1>5, <1>7, <1>9, <1>10 DEF GiveInv

\* The lines it has nothing to do with.
LEMMA UndoneOther ==
  ASSUME IInv, NEW s \in Sales, Undone(s), NEW l \in Lines, ~ Touches(s, l)
  PROVE  LineHolds(l)'
<1>1. /\ line \in [Lines -> Line] /\ journal \in [Lines -> Int] /\ sale \in [Sales -> Sale] /\ TypeOK
      /\ LineHolds(l) /\ Money(sale) /\ SaleAt(s) /\ sold \in Int
  BY DEF IInv, SaleInv, TypeOK
<1>2. line'[l] = line[l] /\ journal'[l] = journal[l] + sale[s].cents[l] /\ giving'[l] = giving[l]
  BY DEF Undone, Released
<1>3. sale[s].units[l] \in Nat /\ sale[s].kind \in {"receipt", "close", "prepay"}
  BY <1>1 DEF Sale
<1>4. sale[s].units[l] = 0 /\ ~ (sale[s].kind = "prepay" /\ sale[s].line = l)
  BY <1>3 DEF Touches
<1>5. sale[s].cents[l] = 0
  BY <1>1, <1>4 DEF Money, SaleAt
<1>6. ~ (sale[s].kind = "close" /\ sale[s].line = l)
  BY <1>1, <1>4 DEF SaleAt
<1>7. Blind(sale, s, l) /\ Blind(sale', s, l)
  BY <1>3, <1>4, <1>6 DEF Blind, Undone, Fixed
<1>8. /\ journal'[l] = journal[l] /\ sold' = sold /\ sale' \in [Sales -> Sale]
      /\ \A t \in Sales : sale'[t] = sale[t] \/ (Blind(sale, t, l) /\ Blind(sale', t, l))
  BY <1>1, <1>2, <1>5, <1>7 DEF Undone
<1>9. Money(sale)'
  BY UndoneSales
<1>10. QED
  BY <1>1, <1>2, <1>8, <1>9, Untouched

\* A line it paid pieces of.
LEMMA ReceiptUndone ==
  ASSUME IInv, NEW s \in Sales, Undone(s), NEW l \in Lines, sale[s].units[l] > 0
  PROVE  LineHolds(l)'
<1> DEFINE u == sale[s].units[l]
<1>1. /\ sale \in [Sales -> Sale] /\ sale' \in [Sales -> Sale] /\ TypeOK /\ line[l] \in Line
      /\ LineHolds(l) /\ Money(sale) /\ Money(sale)' /\ s <= sold /\ sale[s].st = "completed"
      /\ Stood(s) /\ ~ Stood(s)' /\ sold' = sold /\ giving' = giving
      /\ journal'[l] = journal[l] + sale[s].cents[l]
  BY UndoneSales DEF IInv, SaleInv, TypeOK, Undone, Released
<1>2. /\ Touches(s, l) /\ u \in Nat /\ sale[s].kind # "prepay" /\ sale[s].cents[l] \in Int
  BY <1>1 DEF Touches, Money, Sale
<1>3. MoneyOf(s, l) = 0 /\ ChainedOf(s, l) = 0 /\ ~ LastOfChain(s, l)
  BY <1>2 DEF MoneyOf, ChainedOf, LastOfChain
<1>4. /\ line[l].paid \in Nat /\ line[l].returned \in Nat /\ line[l].prepaid \in Int /\ line[l].chained \in Int
      /\ line[l].last \in Int /\ journal[l] \in Int /\ s \in Int /\ Qty[l] \in Int
  BY <1>1, DebtAssumption DEF Line, TypeOK, Sales
<1>5. /\ line'[l] \in Line /\ line'[l].given = line[l].given /\ line'[l].off = line[l].off
      /\ line'[l].returned = line[l].returned /\ line'[l].last = line[l].last
      /\ line'[l].attempts = line[l].attempts
      /\ line'[l].paid = line[l].paid - u /\ u <= line[l].paid
      /\ line'[l].closer = 0 /\ line[l].closer \in {0, s} /\ ~ line[l].off
      /\ line'[l].prepaid = line[l].prepaid
      /\ line'[l].chained = line[l].chained
      /\ line'[l].chain = line[l].chain
  BY <1>2, <1>3, <1>4, LineFreed
<1>6. /\ Left(l) \in Int /\ Left(l)' = Left(l) - u /\ Left(l) <= Qty[l]
      /\ line[l].given /\ Left(l)' < Qty[l]
  <2>1. Left(l) \in Int /\ Left(l)' = Left(l) - u
    BY <1>2, <1>4, <1>5 DEF Left
  <2>2. Left(l) <= Qty[l]
    BY <1>1 DEF LineHolds, LineAt
  <2>3. line[l].given
    <3>1. ~ line[l].given => line[l].paid = 0
      BY <1>1 DEF LineHolds, LineAt, NoDebt
    <3>2. QED
      BY <1>2, <1>4, <1>5, <3>1
  <2>4. QED
    BY <1>2, <1>4, <2>1, <2>2, <2>3
<1>7. /\ line[l].last < s
      /\ \A t \in Sales : t > s /\ sale[t].st = "completed" => ~ (sale[t].units[l] > 0)
  <2>1. ~ LaterOn(s, l)
    BY <1>2 DEF Undone, CanVoid, NothingBuiltOn
  <2>2. ~ (line[l].last >= s)
    BY <2>1 DEF LaterOn
  <2>3. line[l].last < s
    BY <1>4, <2>2
  <2>4. QED
    BY <2>1, <2>3 DEF LaterOn
<1>8. \A t \in Sales : /\ Fixed(t) /\ sale[t].units[l] \in Nat /\ sale'[t].units[l] = sale[t].units[l]
                       /\ sale'[t].cents[l] = sale[t].cents[l]
                       /\ t # s => sale'[t] = sale[t] /\ (Stood(t)' <=> Stood(t))
  <2>1. \A t \in Sales : Fixed(t) /\ (t # s => sale'[t] = sale[t] /\ (Stood(t)' <=> Stood(t)))
    BY UndoneSales DEF Undone
  <2>2. \A t \in Sales : sale[t].units[l] \in Nat
    BY <1>1 DEF Sale
  <2>3. QED
    BY <2>1, <2>2 DEF Fixed
<1>9. PaidAt(l)'
  <2> DEFINE c == line[l].chain
  <2>1. /\ UnitsOf(sale, l) \in [Sales -> Nat] /\ UnitsOf(sale', l) \in [Sales -> Nat]
        /\ InMoney(sale, c, l) \in [Sales -> Nat] /\ InMoney(sale', c, l) \in [Sales -> Nat]
        /\ OutMoney(sale, c, l) \in [Sales -> Nat] /\ OutMoney(sale', c, l) \in [Sales -> Nat]
    BY <1>1, Counted
  <2>2. /\ IsTotal(UnitsOf(sale, l), line[l].paid)
        /\ IsTotal(InMoney(sale, c, l), line[l].chained)
        /\ IsTotal(OutMoney(sale, c, l), line[l].prepaid - line[l].chained)
    BY <1>1 DEF LineHolds, PaidAt
  <2>3. UnitsOf(sale, l)[s] = u /\ UnitsOf(sale', l)[s] = 0
    BY <1>1 DEF UnitsOf, Stood
  <2>4. \A t \in Sales : t # s => UnitsOf(sale', l)[t] = UnitsOf(sale, l)[t]
    BY <1>8 DEF UnitsOf
  <2>5. IsTotal(UnitsOf(sale', l), line[l].paid - UnitsOf(sale, l)[s] + UnitsOf(sale', l)[s])
    BY <2>1, <2>2, <2>4, TotalChange
  <2>6. line[l].paid - UnitsOf(sale, l)[s] + UnitsOf(sale', l)[s] = line'[l].paid
    BY <1>2, <1>4, <1>5, <2>3
  <2>7. IsTotal(UnitsOf(sale', l), line'[l].paid)
    BY <2>5, <2>6, Zenon
  <2>8. ~ Toward(sale, s, l) /\ ~ Toward(sale', s, l)
    BY <1>2, <1>8 DEF Toward, Fixed
  <2>9. \A t \in Sales : InMoney(sale, c, l)[t] = InMoney(sale', c, l)[t]
    BY <1>8, <2>8 DEF InMoney, Toward
  <2>10. \A t \in Sales : OutMoney(sale, c, l)[t] = OutMoney(sale', c, l)[t]
    BY <1>8, <2>8 DEF OutMoney, Toward
  <2>11. /\ IsTotal(InMoney(sale', c, l), line[l].chained)
         /\ IsTotal(OutMoney(sale', c, l), line[l].prepaid - line[l].chained)
    BY <2>1, <2>2, <2>9, <2>10, TotalSame
  <2>12. QED
    BY <1>5, <2>7, <2>11 DEF PaidAt
<1>10. CloserAt(l)'
  <2>1. ASSUME NEW t \in Sales, sale'[t].kind = "close", sale'[t].line = l, Stood(t)'
        PROVE  FALSE
    <3>1. t # s
      BY <1>1, <2>1
    <3>2. line[l].closer = t
      BY <1>1, <1>8, <2>1, <3>1 DEF LineHolds, CloserAt
    <3>3. t # 0
      BY DEF Sales
    <3>4. QED
      BY <1>5, <3>1, <3>2, <3>3
  <2>2. QED
    BY <1>5, <2>1 DEF CloserAt
<1>11. LineAt(l)'
  <2>1. line'[l].given /\ Left(l)' <= Qty[l] /\ Left(l)' # Qty[l]
    BY <1>2, <1>4, <1>5, <1>6
  <2>2. line'[l].last <= sold'
    BY <1>1, <1>5 DEF LineHolds, LineAt
  <2>3. QED
    BY <2>1, <2>2 DEF LineAt
<1>12. ChainAt(l)'
  <2>1. ~ (line[l].chain # 0 /\ giving[l][line[l].chain] # "none")
    <3>1. sale[line[l].closer].st = "refunded" /\ line[l].closer # 0 => line[l].closer # s
      BY <1>1
    <3>2. QED
      BY <1>1, <1>5, <3>1 DEF LineHolds, ChainAt
  <2>2. ASSUME NEW t \in Sales, Toward(sale, t, l), sale[t].chain = line[l].chain, sale[t].st = "completed"
        PROVE  Toward(sale', t, l) /\ sale'[t].chain = line[l].chain /\ sale'[t].st = "completed"
    <3>1. t # s
      BY <1>2, <2>2 DEF Toward
    <3>2. sale'[t] = sale[t]
      BY <1>8, <3>1
    <3>3. QED
      BY <2>2, <3>2 DEF Toward
  <2>3. giving' = giving
    BY <1>1
  <2>4. line[l].chain <= line[l].attempts
    BY <1>1 DEF LineHolds, ChainAt
  <2>5. line[l].chain # 0 =>
          \E t \in Sales : Toward(sale, t, l) /\ sale[t].chain = line[l].chain /\ sale[t].st = "completed"
    BY <1>1, <2>1 DEF LineHolds, ChainAt
  <2>6. QED
    BY <1>5, <2>1, <2>2, <2>3, <2>4, <2>5 DEF ChainAt
<1>13. Undercut(l) => Undercut(l)'
  BY <1>1, <1>8 DEF Undercut, Was
\* Nothing stands on it, or it is undercut.
<1>14. ASSUME ~ Undercut(l)', NEW t \in Sales, t > s, Stood(t) PROVE sale[t].units[l] = 0
  <2>1. SUFFICES ASSUME sale[t].units[l] # 0 PROVE FALSE
    OBVIOUS
  <2>2. sale[t].units[l] > 0 /\ t # s
    BY <1>4, <1>8, <1>14, <2>1
  <2>3. sale[t].st # "completed"
    BY <1>7, <1>14, <2>2
  <2>4. sale'[t].st \in {"part", "refunded"}
    BY <1>1, <1>8, <1>14, <2>2, <2>3 DEF Stood, Counts, Sale
  <2>5. sale'[s].st = "voided" /\ sale'[s].units[l] > 0 /\ sale'[t].units[l] > 0 /\ s < t
    BY <1>8, <1>14, <2>2, <1>4 DEF Undone, Sales
  <2>6. Undercut(l)'
    BY <2>4, <2>5 DEF Undercut, Was
  <2>7. QED
    BY <1>14, <2>6
<1>15. StackAt(l)'
  <2>1. CASE Undercut(l)'
    BY <2>1 DEF StackAt
  <2>2. CASE ~ Undercut(l)'
    <3>1. PICK b \in [Sales -> Int] : Stack(l, b)
      BY <1>1, <1>13, <2>2 DEF LineHolds, StackAt
    <3>2. \A t \in Sales : t > s /\ Stood(t) => sale[t].units[l] = 0
      BY <1>14, <2>2
    <3>3. Left(l) = b[s] + u
      BY <1>1, <1>7, <3>1, <3>2 DEF Stack
    <3>4. Left(l)' = b[s]
      BY <1>2, <1>6, <3>3
    <3>5. SUFFICES ASSUME NEW t \in Sales, Stood(t)', sale'[t].units[l] > 0, line'[l].last < t
                   PROVE  /\ line'[l].closer # t => sale'[t].cents[l] = Cum(l, b[t] + sale'[t].units[l]) - Cum(l, b[t])
                          /\ (\A r \in Sales : t < r /\ Stood(r)' => sale'[r].units[l] = 0)
                               => Left(l)' = b[t] + sale'[t].units[l]
                          /\ \A r \in Sales :
                               t < r /\ Stood(r)' /\ sale'[r].units[l] > 0
                                 /\ (\A q \in Sales : t < q /\ q < r /\ Stood(q)' => sale'[q].units[l] = 0)
                               => b[r] = b[t] + sale'[t].units[l]
      <4>1. Stack(l, b)'
        BY <3>5 DEF Stack
      <4>2. QED
        BY <4>1 DEF StackAt
    <3>6. t # s /\ Stood(t) /\ sale'[t] = sale[t] /\ sale[t].units[l] > 0 /\ line[l].last < t
      BY <1>1, <1>5, <1>8, <3>5
    <3>7. t < s
      BY <1>4, <3>2, <3>6 DEF Sales
    <3>8. line'[l].closer # t => sale'[t].cents[l] = Cum(l, b[t] + sale'[t].units[l]) - Cum(l, b[t])
      <4>1. line[l].closer # t
        <5>1. t # 0
          BY DEF Sales
        <5>2. QED
          BY <1>5, <3>6, <5>1
      <4>2. QED
        BY <3>1, <3>6, <4>1 DEF Stack
    <3>9. ASSUME \A r \in Sales : t < r /\ Stood(r)' => sale'[r].units[l] = 0
          PROVE  Left(l)' = b[t] + sale'[t].units[l]
      <4>1. \A r \in Sales : t < r /\ r < s /\ Stood(r) => sale[r].units[l] = 0
        <5>1. \A r \in Sales : r < s => r # s
          BY DEF Sales
        <5>2. QED
          BY <1>8, <3>9, <5>1
      <4>2. b[s] = b[t] + sale[t].units[l]
        BY <1>1, <3>1, <3>6, <3>7, <4>1 DEF Stack
      <4>3. QED
        BY <3>4, <3>6, <4>2
    <3>10. ASSUME NEW r \in Sales, t < r, Stood(r)', sale'[r].units[l] > 0,
                  \A q \in Sales : t < q /\ q < r /\ Stood(q)' => sale'[q].units[l] = 0
           PROVE  b[r] = b[t] + sale'[t].units[l]
      <4>1. r # s /\ Stood(r) /\ sale[r].units[l] > 0
        BY <1>1, <1>8, <3>10
      <4>2. r < s
        BY <1>4, <3>2, <4>1 DEF Sales
      <4>3. \A q \in Sales : q < r => q # s
        BY <4>2 DEF Sales
      <4>4. \A q \in Sales : t < q /\ q < r /\ Stood(q) => sale[q].units[l] = 0
        BY <1>8, <3>10, <4>3
      <4>5. QED
        BY <3>1, <3>6, <3>10, <4>1, <4>4 DEF Stack
    <3>11. QED
      BY <3>8, <3>9, <3>10
  <2>3. QED
    BY <2>1, <2>2
<1>16. JournalAt(l)'
  <2>1. CASE Undercut(l)'
    BY <2>1 DEF JournalAt
  <2>2. CASE ~ Undercut(l)'
    <3>1. PICK b \in [Sales -> Int] : Stack(l, b)
      BY <1>1, <1>13, <2>2 DEF LineHolds, StackAt
    <3>2. \A t \in Sales : t > s /\ Stood(t) => sale[t].units[l] = 0
      BY <1>14, <2>2
    <3>3. Left(l) = b[s] + u /\ (line[l].closer # s => sale[s].cents[l] = Cum(l, b[s] + u) - Cum(l, b[s]))
      BY <1>1, <1>7, <3>1, <3>2 DEF Stack
    <3>4. Open(l)'
      BY <1>5, <1>6 DEF Open
    <3>5. Owed(l)' = Total[l] - Cum(l, Left(l) - u) - line[l].prepaid
      BY <1>5, <1>6 DEF Owed
    <3>6. /\ Total[l] \in Int /\ Cum(l, Left(l) - u) \in Int /\ Cum(l, Left(l)) \in Int
      <4>1. Left(l) - u \in Int
        BY <1>2, <1>6
      <4>2. QED
        BY <1>6, <4>1, CumWhole, DebtAssumption
    <3>7. journal[l] = IF Open(l) THEN Owed(l) ELSE 0
      BY <1>1, <1>13, <2>2 DEF LineHolds, JournalAt
    <3>8. s # 0
      BY DEF Sales
    <3>9. CASE line[l].closer = s
      <4>1. journal[l] = 0
        BY <3>7, <3>8, <3>9 DEF Open
      <4>2. sale[s].cents[l] = Total[l] - Cum(l, Left(l) - u) - line[l].prepaid
        BY <1>1, <3>8, <3>9 DEF LineHolds, CloserAt
      <4>3. journal'[l] = Owed(l)'
        BY <1>1, <1>2, <1>4, <3>5, <4>1, <4>2
      <4>4. QED
        BY <3>4, <4>3 DEF JournalAt
    <3>10. CASE line[l].closer = 0
      <4>1. Left(l) # Qty[l]
        BY <1>1, <1>4, <1>6, <1>7, <3>10 DEF LineHolds, LineAt
      <4>2. Open(l)
        BY <1>4, <1>5, <1>6, <3>10, <4>1 DEF Open
      <4>3. journal[l] = Total[l] - Cum(l, Left(l)) - line[l].prepaid
        BY <3>7, <4>2 DEF Owed
      <4>4. b[s] = Left(l) - u
        BY <1>2, <3>3
      <4>5. sale[s].cents[l] = Cum(l, Left(l)) - Cum(l, Left(l) - u)
        BY <3>3, <3>8, <3>10, <4>4
      <4>6. journal'[l] = Owed(l)'
        BY <1>1, <1>2, <1>4, <3>5, <3>6, <4>3, <4>5
      <4>7. QED
        BY <3>4, <4>6 DEF JournalAt
    <3>11. QED
      BY <1>5, <3>9, <3>10
  <2>3. QED
    BY <2>1, <2>2
<1>17. QED
  BY <1>9, <1>10, <1>11, <1>12, <1>15, <1>16 DEF LineHolds

\* A line it was a «внесок» toward.
LEMMA DepositUndone ==
  ASSUME IInv, NEW s \in Sales, Undone(s), NEW l \in Lines, sale[s].kind = "prepay", sale[s].line = l
  PROVE  LineHolds(l)'
<1> DEFINE m == sale[s].cents[l]
           c0 == line[l].chain
           sc == sale[s].chain
<1>1. /\ sale \in [Sales -> Sale] /\ sale' \in [Sales -> Sale] /\ TypeOK /\ line[l] \in Line
      /\ LineHolds(l) /\ Money(sale) /\ Money(sale)' /\ s <= sold /\ sale[s].st = "completed"
      /\ sale'[s].st = "voided" /\ Stood(s) /\ ~ Stood(s)' /\ sold' = sold /\ giving' = giving
      /\ journal'[l] = journal[l] + sale[s].cents[l]
  BY UndoneSales DEF IInv, SaleInv, TypeOK, Undone, Released
<1>2. /\ Touches(s, l) /\ sale[s].units[l] = 0 /\ m \in Int /\ m > 0 /\ Toward(sale, s, l)
  BY <1>1 DEF Touches, Money, Sale, Toward
<1>3. MoneyOf(s, l) = m /\ ChainedOf(s, l) = IF sc # 0 /\ sc = c0 THEN m ELSE 0
  BY <1>2 DEF MoneyOf, ChainedOf
<1>4. /\ line[l].paid \in Nat /\ line[l].returned \in Nat /\ line[l].prepaid \in Int /\ line[l].chained \in Int
      /\ line[l].last \in Int /\ journal[l] \in Int /\ s \in Int /\ Qty[l] \in Int /\ s # 0
  BY <1>1, DebtAssumption DEF Line, TypeOK, Sales
<1>5. /\ line'[l] \in Line /\ line'[l].given = line[l].given /\ line'[l].off = line[l].off
      /\ line'[l].returned = line[l].returned /\ line'[l].last = line[l].last
      /\ line'[l].attempts = line[l].attempts
      /\ line'[l].paid = line[l].paid
      /\ line'[l].closer = 0 /\ line[l].closer \in {0, s} /\ ~ line[l].off
      /\ line'[l].prepaid = line[l].prepaid - m
      /\ line'[l].chained = line[l].chained - (IF sc # 0 /\ sc = c0 THEN m ELSE 0)
      /\ line'[l].chain = IF LastOfChain(s, l) THEN 0 ELSE c0
  <2>1. line[l].paid - 0 = line[l].paid
    BY <1>4
  <2>2. QED
    BY <1>2, <1>3, <2>1, LineFreed
<1>6. line[l].closer = 0
  BY <1>1, <1>2, <1>4, <1>5 DEF LineHolds, CloserAt
<1>7. /\ UnitsOf(sale, l) \in [Sales -> Nat] /\ UnitsOf(sale', l) \in [Sales -> Nat]
      /\ InMoney(sale, c0, l) \in [Sales -> Nat] /\ InMoney(sale', c0, l) \in [Sales -> Nat]
      /\ OutMoney(sale, c0, l) \in [Sales -> Nat] /\ OutMoney(sale', c0, l) \in [Sales -> Nat]
      /\ InMoney(sale', 0, l) \in [Sales -> Nat] /\ OutMoney(sale', 0, l) \in [Sales -> Nat]
  BY <1>1, Counted
<1>8. /\ IsTotal(UnitsOf(sale, l), line[l].paid)
      /\ IsTotal(InMoney(sale, c0, l), line[l].chained)
      /\ IsTotal(OutMoney(sale, c0, l), line[l].prepaid - line[l].chained)
      /\ line[l].chained \in Nat /\ line[l].prepaid - line[l].chained \in Nat
  BY <1>1, PaidNat DEF LineHolds, PaidAt
<1>9. c0 = 0 \/ (c0 # 0 /\ sc = c0)
  BY <1>2 DEF Undone, CanVoid, NothingBuiltOn
<1>10. /\ c0 = 0 => InMoney(sale, c0, l)[s] = 0 /\ OutMoney(sale, c0, l)[s] = m
       /\ c0 # 0 => InMoney(sale, c0, l)[s] = m /\ OutMoney(sale, c0, l)[s] = 0
       /\ InMoney(sale', c0, l)[s] = 0 /\ OutMoney(sale', c0, l)[s] = 0 /\ OutMoney(sale', 0, l)[s] = 0
  BY <1>1, <1>2, <1>9 DEF InMoney, OutMoney
<1>11. line[l].prepaid >= m
  <2>1. /\ InMoney(sale, c0, l)[s] <= line[l].chained
        /\ OutMoney(sale, c0, l)[s] <= line[l].prepaid - line[l].chained
    BY <1>7, <1>8, TotalLeast
  <2>2. QED
    BY <1>2, <1>4, <1>8, <1>9, <1>10, <2>1
<1>12. /\ Open(l) /\ Left(l) \in Int /\ Left(l) < Qty[l]
  <2>1. Left(l) \in Int
    BY <1>4 DEF Left
  <2>2. line[l].given
    <3>1. ~ line[l].given => line[l].prepaid = 0
      BY <1>1 DEF LineHolds, LineAt, NoDebt
    <3>2. QED
      BY <1>2, <1>4, <1>11, <3>1
  <2>3. Left(l) # Qty[l]
    <3>1. line[l].prepaid # 0
      BY <1>2, <1>4, <1>11
    <3>2. QED
      BY <1>1, <1>6, <2>2, <3>1 DEF LineHolds, LineAt
  <2>4. Left(l) <= Qty[l]
    BY <1>1 DEF LineHolds, LineAt
  <2>5. QED
    BY <1>4, <1>5, <1>6, <2>1, <2>2, <2>3, <2>4 DEF Open
<1>13. Left(l)' = Left(l) /\ Open(l)'
  BY <1>5, <1>6, <1>12 DEF Left, Open
<1>14. \A t \in Sales : /\ Fixed(t) /\ sale[t].units[l] \in Nat /\ sale'[t].units[l] = sale[t].units[l]
                        /\ t # s => sale'[t] = sale[t] /\ (Stood(t)' <=> Stood(t))
  <2>1. \A t \in Sales : Fixed(t) /\ (t # s => sale'[t] = sale[t] /\ (Stood(t)' <=> Stood(t)))
    BY UndoneSales DEF Undone
  <2>2. \A t \in Sales : sale[t].units[l] \in Nat
    BY <1>1 DEF Sale
  <2>3. QED
    BY <2>1, <2>2 DEF Fixed
<1>15. c0 # 0 => giving[l][c0] = "none" /\ \A t \in Sales : InChain(t, l, c0) => ~ Was(t, {"part", "refunded"})
  BY <1>12, OpenChain DEF IInv, GiveInv, WholeChainBack
<1>16. IsTotal(UnitsOf(sale', l), line'[l].paid)
  <2>1. \A t \in Sales : UnitsOf(sale, l)[t] = UnitsOf(sale', l)[t]
    <3>1. UnitsOf(sale, l)[s] = 0 /\ UnitsOf(sale', l)[s] = 0
      BY <1>2, <1>14 DEF UnitsOf
    <3>2. \A t \in Sales : t # s => UnitsOf(sale, l)[t] = UnitsOf(sale', l)[t]
      BY <1>14 DEF UnitsOf
    <3>3. QED
      BY <3>1, <3>2
  <2>2. IsTotal(UnitsOf(sale', l), line[l].paid)
    BY <1>7, <1>8, <2>1, TotalSame
  <2>3. QED
    BY <1>5, <2>2, Zenon
<1>17. \A t \in Sales : t # s => /\ InMoney(sale', c0, l)[t] = InMoney(sale, c0, l)[t]
                                 /\ OutMoney(sale', c0, l)[t] = OutMoney(sale, c0, l)[t]
  BY <1>14 DEF InMoney, OutMoney, Toward
<1>18. PaidAt(l)'
  <2>1. CASE c0 = 0
    <3>1. ~ LastOfChain(s, l)
      BY <2>1 DEF LastOfChain, InChain
    <3>2. line'[l].chain = 0 /\ line'[l].chained = line[l].chained
      BY <1>4, <1>5, <2>1, <3>1
    <3>3. \A t \in Sales : InMoney(sale, c0, l)[t] = InMoney(sale', c0, l)[t]
      BY <1>10, <1>17, <2>1
    <3>4. IsTotal(InMoney(sale', c0, l), line[l].chained)
      BY <1>7, <1>8, <3>3, TotalSame
    <3>5. PICK w : w = line[l].prepaid - line[l].chained
      OBVIOUS
    <3>6. IsTotal(OutMoney(sale', c0, l), w - OutMoney(sale, c0, l)[s] + OutMoney(sale', c0, l)[s])
      <4>1. /\ OutMoney(sale, c0, l) \in [Sales -> Nat] /\ OutMoney(sale', c0, l) \in [Sales -> Nat]
            /\ IsTotal(OutMoney(sale, c0, l), w)
        BY <1>7, <1>8, <3>5
      <4>2. \A t \in Sales : t # s => OutMoney(sale', c0, l)[t] = OutMoney(sale, c0, l)[t]
        BY <1>17
      <4>3. QED
        BY <4>1, <4>2, TotalChange, Zenon
    <3>7. w - OutMoney(sale, c0, l)[s] + OutMoney(sale', c0, l)[s] = line'[l].prepaid - line'[l].chained
      BY <1>2, <1>4, <1>5, <1>10, <2>1, <3>2, <3>5
    <3>8. IsTotal(OutMoney(sale', c0, l), line'[l].prepaid - line'[l].chained)
      BY <3>6, <3>7, Zenon
    <3>9. QED
      BY <1>16, <2>1, <3>2, <3>4, <3>8 DEF PaidAt
  <2>2. CASE c0 # 0 /\ ~ LastOfChain(s, l)
    <3>1. line'[l].chain = c0 /\ line'[l].chained = line[l].chained - m
      BY <1>5, <1>9, <2>2
    <3>2. IsTotal(InMoney(sale', c0, l), line[l].chained - InMoney(sale, c0, l)[s] + InMoney(sale', c0, l)[s])
      <4>1. /\ InMoney(sale, c0, l) \in [Sales -> Nat] /\ InMoney(sale', c0, l) \in [Sales -> Nat]
            /\ IsTotal(InMoney(sale, c0, l), line[l].chained)
        BY <1>7, <1>8
      <4>2. \A t \in Sales : t # s => InMoney(sale', c0, l)[t] = InMoney(sale, c0, l)[t]
        BY <1>17
      <4>3. QED
        BY <4>1, <4>2, TotalChange, Zenon
    <3>3. line[l].chained - InMoney(sale, c0, l)[s] + InMoney(sale', c0, l)[s] = line'[l].chained
      BY <1>2, <1>4, <1>10, <2>2, <3>1
    <3>4. \A t \in Sales : OutMoney(sale, c0, l)[t] = OutMoney(sale', c0, l)[t]
      BY <1>10, <1>17, <2>2
    <3>5. IsTotal(OutMoney(sale', c0, l), line[l].prepaid - line[l].chained)
      BY <1>7, <1>8, <3>4, TotalSame
    <3>6. line[l].prepaid - line[l].chained = line'[l].prepaid - line'[l].chained
      BY <1>2, <1>4, <1>5, <3>1
    <3>7. /\ IsTotal(InMoney(sale', c0, l), line'[l].chained)
          /\ IsTotal(OutMoney(sale', c0, l), line'[l].prepaid - line'[l].chained)
      BY <3>2, <3>3, <3>5, <3>6, Zenon
    <3>8. QED
      BY <1>16, <3>1, <3>7 DEF PaidAt
  <2>3. CASE c0 # 0 /\ LastOfChain(s, l)
    <3>1. \A t \in Sales : t # s /\ InChain(t, l, c0) => sale[t].st # "completed"
      BY <1>9, <2>3 DEF LastOfChain
    <3>2. \A t \in Sales : t # s => InMoney(sale, c0, l)[t] = 0
      BY <1>15, <2>3, <3>1 DEF InMoney, Toward, InChain, Was
    <3>3. line[l].chained = m
      <4>1. line[l].chained = InMoney(sale, c0, l)[s]
        BY <1>7, <1>8, <3>2, TotalLeast
      <4>2. QED
        BY <1>10, <2>3, <4>1
    <3>4. line'[l].chain = 0 /\ line'[l].chained = 0
      <4>1. line'[l].chained = line[l].chained - m
        BY <1>5, <1>9, <2>3
      <4>2. QED
        BY <1>2, <1>5, <2>3, <3>3, <4>1
    <3>5. \A t \in Sales : InMoney(sale', 0, l)[t] = 0
      BY DEF InMoney
    <3>6. IsTotal(InMoney(sale', 0, l), 0)
      BY <1>7, <3>5, TotalNone
    <3>7. \A t \in Sales : t # s => OutMoney(sale, c0, l)[t] = OutMoney(sale', 0, l)[t]
      <4> SUFFICES ASSUME NEW t \in Sales, t # s PROVE OutMoney(sale, c0, l)[t] = OutMoney(sale', 0, l)[t]
        OBVIOUS
      <4>1. Toward(sale, t, l) /\ sale[t].st = "completed" => sale[t].chain # c0
        BY <3>1 DEF Toward, InChain
      <4>2. sale'[t] = sale[t]
        BY <1>14
      <4>3. QED
        BY <4>1, <4>2 DEF OutMoney, Toward
    <3>8. \A t \in Sales : OutMoney(sale, c0, l)[t] = OutMoney(sale', 0, l)[t]
      BY <1>10, <2>3, <3>7
    <3>9. IsTotal(OutMoney(sale', 0, l), line[l].prepaid - line[l].chained)
      BY <1>7, <1>8, <3>8, TotalSame
    <3>10. line[l].prepaid - line[l].chained = line'[l].prepaid - line'[l].chained
      BY <1>2, <1>4, <1>5, <3>3, <3>4
    <3>11. IsTotal(OutMoney(sale', 0, l), line'[l].prepaid - line'[l].chained)
      BY <3>9, <3>10, Zenon
    <3>12. QED
      BY <1>16, <3>4, <3>6, <3>11 DEF PaidAt
  <2>4. QED
    BY <2>1, <2>2, <2>3
<1>19. CloserAt(l)'
  <2>1. ASSUME NEW t \in Sales, sale'[t].kind = "close", sale'[t].line = l, Stood(t)'
        PROVE  FALSE
    <3>1. t # s
      BY <1>1, <2>1
    <3>2. line[l].closer = t
      BY <1>1, <1>14, <2>1, <3>1 DEF LineHolds, CloserAt
    <3>3. t # 0
      BY DEF Sales
    <3>4. QED
      BY <1>6, <3>2, <3>3
  <2>2. QED
    BY <1>5, <2>1 DEF CloserAt
<1>20. LineAt(l)'
  <2>1. line'[l].given /\ Left(l)' <= Qty[l] /\ Left(l)' # Qty[l]
    BY <1>4, <1>12, <1>13 DEF Open
  <2>2. line'[l].last <= sold'
    BY <1>1, <1>5 DEF LineHolds, LineAt
  <2>3. QED
    BY <2>1, <2>2 DEF LineAt
<1>21. ChainAt(l)'
  <2>1. CASE line'[l].chain = 0
    <3>1. line[l].attempts \in Nat
      BY <1>1 DEF Line
    <3>2. QED
      BY <1>5, <2>1, <3>1 DEF ChainAt
  <2>2. CASE line'[l].chain # 0
    <3>1. line'[l].chain = c0 /\ c0 # 0 /\ sc = c0 /\ ~ LastOfChain(s, l)
      BY <1>5, <1>9, <2>2
    <3>2. PICK t \in Sales : t # s /\ InChain(t, l, c0) /\ sale[t].st = "completed"
      BY <1>2, <3>1 DEF LastOfChain, InChain, Toward
    <3>3. sale[t].kind = "prepay"
      <4>1. sale[t].kind # "receipt"
        BY <3>1, <3>2 DEF IInv, SaleInv, SaleAt, InChain
      <4>2. sale[t].kind = "close" => line[l].closer = t
        BY <1>1, <3>2 DEF LineHolds, CloserAt, InChain, Stood, Counts
      <4>3. sale[t].kind # "close"
        BY <1>6, <4>2 DEF Sales
      <4>4. QED
        BY <1>1, <4>1, <4>3 DEF Sale
    <3>4. Toward(sale', t, l) /\ sale'[t].chain = c0 /\ sale'[t].st = "completed"
      BY <1>14, <3>2, <3>3 DEF Toward, InChain
    <3>5. giving'[l][c0] = "none"
      BY <1>1, <1>15, <3>1
    <3>6. line'[l].chain <= line'[l].attempts
      BY <1>1, <1>5, <3>1 DEF LineHolds, ChainAt
    <3>7. QED
      BY <3>1, <3>4, <3>5, <3>6 DEF ChainAt
  <2>3. QED
    BY <2>1, <2>2
<1>22. Undercut(l) => Undercut(l)'
  BY <1>1, <1>14 DEF Undercut, Was
<1>23. StackAt(l)'
  <2>1. ASSUME NEW b \in [Sales -> Int], Stack(l, b) PROVE Stack(l, b)'
    <3>1. \A t \in Sales : sale[t].units[l] > 0 => t # s
      BY <1>2
    <3>2. \A t \in Sales : Stood(t)' => Stood(t)
      BY <1>1, <1>14
    <3>3. \A t \in Sales : Stood(t) /\ sale[t].units[l] # 0 => Stood(t)' /\ sale'[t] = sale[t]
      BY <1>2, <1>14
    <3> SUFFICES ASSUME NEW t \in Sales, Stood(t)', sale'[t].units[l] > 0, line'[l].last < t
                 PROVE  /\ line'[l].closer # t => sale'[t].cents[l] = Cum(l, b[t] + sale'[t].units[l]) - Cum(l, b[t])
                        /\ (\A r \in Sales : t < r /\ Stood(r)' => sale'[r].units[l] = 0)
                             => Left(l)' = b[t] + sale'[t].units[l]
                        /\ \A r \in Sales :
                             t < r /\ Stood(r)' /\ sale'[r].units[l] > 0
                               /\ (\A q \in Sales : t < q /\ q < r /\ Stood(q)' => sale'[q].units[l] = 0)
                             => b[r] = b[t] + sale'[t].units[l]
      BY DEF Stack
    <3>4. Stood(t) /\ sale'[t] = sale[t] /\ sale[t].units[l] > 0 /\ line[l].last < t
      BY <1>5, <1>14, <3>1, <3>2
    <3>5. \A r \in Sales : (Stood(r)' => sale'[r].units[l] = 0) <=> (Stood(r) => sale[r].units[l] = 0)
      BY <1>14, <3>2, <3>3
    <3>6. QED
      BY <1>5, <1>6, <1>13, <1>14, <2>1, <3>2, <3>4, <3>5 DEF Stack
  <2>2. QED
    BY <1>1, <1>22, <2>1 DEF LineHolds, StackAt
<1>24. JournalAt(l)'
  <2>1. CASE Undercut(l)
    BY <1>22, <2>1 DEF JournalAt
  <2>2. CASE ~ Undercut(l)
    <3>1. journal[l] = Total[l] - Cum(l, Left(l)) - line[l].prepaid
      BY <1>1, <1>12, <2>2 DEF LineHolds, JournalAt, Owed
    <3>2. Owed(l)' = Total[l] - Cum(l, Left(l)) - (line[l].prepaid - m)
      BY <1>5, <1>13 DEF Owed
    <3>3. Total[l] \in Int /\ Cum(l, Left(l)) \in Int
      BY <1>12, CumWhole, DebtAssumption
    <3>4. journal'[l] = Owed(l)'
      BY <1>1, <1>2, <1>4, <3>1, <3>2, <3>3
    <3>5. QED
      BY <1>13, <3>4 DEF JournalAt
  <2>3. QED
    BY <2>1, <2>2
<1>25. QED
  BY <1>18, <1>19, <1>20, <1>21, <1>23, <1>24 DEF LineHolds

LEMMA UndoneInv ==
  ASSUME IInv, NEW s \in Sales, Undone(s)
  PROVE  IInv'
<1>1. ASSUME NEW l \in Lines PROVE LineHolds(l)'
  <2>1. CASE sale[s].units[l] > 0
    BY <2>1, ReceiptUndone
  <2>2. CASE sale[s].kind = "prepay" /\ sale[s].line = l
    BY <2>2, DepositUndone
  <2>3. CASE ~ Touches(s, l)
    BY <2>3, UndoneOther
  <2>4. QED
    BY <2>1, <2>2, <2>3 DEF Touches
<1>2. QED
  BY <1>1, UndoneRest DEF IInv

----------------------------------------------------------------------------------
(* The invariant holds throughout.                                               *)

LEMMA Initially ==
  ASSUME Init
  PROVE  IInv
<1>1. /\ line = [l \in Lines |-> NoDebt] /\ journal = [l \in Lines |-> 0]
      /\ sale = [s \in Sales |-> NoSale] /\ sold = 0
      /\ chains = [l \in Lines |-> [c \in Chain |-> [st |-> "none", left |-> 0]]]
      /\ giving = [l \in Lines |-> [c \in Chain |-> "none"]]
  BY DEF Init
<1>2. /\ NoDebt.given = FALSE /\ NoDebt.returned = 0 /\ NoDebt.paid = 0 /\ NoDebt.prepaid = 0
      /\ NoDebt.chained = 0 /\ NoDebt.closer = 0 /\ NoDebt.chain = 0 /\ NoDebt.attempts = 0 /\ NoDebt.last = 0
  BY DEF NoDebt
<1>3. /\ NoSale.st = "none" /\ NoSale.kind = "receipt" /\ NoSale.chain = 0 /\ NoSale.doc = "none"
      /\ \A l \in Lines : NoSale.units[l] = 0 /\ NoSale.cents[l] = 0
  BY DEF NoSale, Nothing
<1>4. \A s \in Sales : sale[s] = NoSale
  BY <1>1
<1>5. \A l \in Lines : line[l] = NoDebt /\ journal[l] = 0
  BY <1>1
<1>6. NoDebt \in Line
  BY DebtAssumption DEF NoDebt, Line
<1>7. NoSale \in Sale
  <2>1. Nothing \in [Lines -> Nat] /\ Nothing \in [Lines -> Int] /\ 0 \in 0..MaxSales
    BY DebtAssumption DEF Nothing
  <2> HIDE DEF Nothing
  <2>2. QED
    BY <2>1 DEF NoSale, Sale
<1>8. TypeOK
  <2>1. line \in [Lines -> Line] /\ journal \in [Lines -> Int] /\ sale \in [Sales -> Sale]
    BY <1>1, <1>6, <1>7
  <2>2. sold \in 0..MaxSales
    BY <1>1, DebtAssumption
  <2>3. /\ chains \in [Lines -> [Chain -> [st : {"none", "open", "paid", "returned"}, left : Int]]]
        /\ giving \in [Lines -> [Chain -> {"none", "due", "parked", "done"}]]
    BY <1>1
  <2>4. QED
    BY <2>1, <2>2, <2>3 DEF TypeOK
<1>9. SaleInv
  <2>1. Money(sale)
    BY <1>3, <1>4 DEF Money
  <2>2. ASSUME NEW s \in Sales PROVE SaleAt(s)
    <3>1. s > sold /\ ~ (s <= sold)
      BY <1>1 DEF Sales
    <3>2. QED
      BY <1>3, <1>4, <3>1 DEF SaleAt
  <2>3. QED
    BY <2>1, <2>2 DEF SaleInv
<1>10. GiveInv
  <2>1. \A l \in Lines, c \in Chain : giving[l][c] = "none" /\ chains[l][c].st = "none"
    BY <1>1
  <2>2. WholeChainBack
    BY <1>3, <1>4, <2>1 DEF WholeChainBack, Was
  <2>3. QED
    BY <2>1, <2>2 DEF GiveInv
<1>11. ASSUME NEW l \in Lines PROVE LineHolds(l)
  <2>1. PaidAt(l)
    <3>1. /\ UnitsOf(sale, l) \in [Sales -> Nat] /\ InMoney(sale, 0, l) \in [Sales -> Nat]
          /\ OutMoney(sale, 0, l) \in [Sales -> Nat]
      BY <1>8, <1>9, Counted DEF TypeOK, SaleInv
    <3>2. \A s \in Sales : UnitsOf(sale, l)[s] = 0 /\ InMoney(sale, 0, l)[s] = 0 /\ OutMoney(sale, 0, l)[s] = 0
      BY <1>3, <1>4 DEF UnitsOf, InMoney, OutMoney, Toward
    <3>3. IsTotal(UnitsOf(sale, l), 0) /\ IsTotal(InMoney(sale, 0, l), 0) /\ IsTotal(OutMoney(sale, 0, l), 0)
      BY <3>1, <3>2, TotalNone
    <3>4. 0 = line[l].prepaid - line[l].chained
      BY <1>2, <1>5
    <3>5. line[l].chain = 0 /\ line[l].paid = 0 /\ line[l].chained = 0
      BY <1>2, <1>5
    <3>6. /\ IsTotal(UnitsOf(sale, l), line[l].paid)
          /\ IsTotal(InMoney(sale, line[l].chain, l), line[l].chained)
          /\ IsTotal(OutMoney(sale, line[l].chain, l), line[l].prepaid - line[l].chained)
      BY <3>3, <3>4, <3>5, Zenon
    <3>7. QED
      BY <3>6 DEF PaidAt
  <2>2. Left(l) = 0 /\ Qty[l] \in Nat
    BY <1>2, <1>5, DebtAssumption DEF Left
  <2>3. CloserAt(l)
    BY <1>2, <1>3, <1>4, <1>5 DEF CloserAt
  <2>4. LineAt(l)
    BY <1>1, <1>2, <1>5, <2>2 DEF LineAt
  <2>5. ChainAt(l)
    BY <1>2, <1>5 DEF ChainAt
  <2>6. StackAt(l)
    <3> DEFINE b == [s \in Sales |-> 0]
    <3>1. b \in [Sales -> Int]
      OBVIOUS
    <3>2. Stack(l, b)
      BY <1>3, <1>4 DEF Stack, Stood, Counts
    <3>3. QED
      BY <3>1, <3>2 DEF StackAt
  <2>7. JournalAt(l)
    BY <1>2, <1>5 DEF JournalAt, Open
  <2>8. QED
    BY <2>1, <2>3, <2>4, <2>5, <2>6, <2>7 DEF LineHolds
<1>12. QED
  BY <1>8, <1>9, <1>10, <1>11 DEF IInv

LEMMA Kept ==
  ASSUME IInv, [Next]_vars
  PROVE  IInv'
<1>1. CASE Repay
  <2>1. ASSUME NEW W \in SUBSET Lines, NEW part \in Lines \union {NoLine},
               NEW n \in 0..(IF part = NoLine THEN 0 ELSE Qty[part]), PayReceipt(W, part, n)
        PROVE  IInv'
    BY <2>1, ReceiptPaid
  <2>2. ASSUME NEW l \in Lines, CloseChain(l) PROVE IInv'
    BY <2>2, ChainClosed
  <2>3. ASSUME NEW l \in Lines, NEW a \in Amounts, PrepayPlain(l, a) PROVE IInv'
    BY <2>3, PlainDeposit
  <2>4. ASSUME NEW l \in Lines, NEW a \in Amounts, PrepayChain(l, a) PROVE IInv'
    BY <2>4, ChainDeposit
  <2>5. QED
    BY <1>1, <2>1, <2>2, <2>3, <2>4 DEF Repay
<1>2. CASE Notebook
  <2>1. ASSUME NEW l \in Lines, Issue(l) PROVE IInv'
    BY <2>1, Issued
  <2>2. ASSUME NEW l \in Lines, NEW n \in 1..Qty[l], Return(l, n) PROVE IInv'
    BY <2>2, BroughtBack
  <2>3. ASSUME NEW W \in SUBSET Lines, WriteOff(W) PROVE IInv'
    BY <2>3, Forgiven
  <2>4. QED
    BY <1>2, <2>1, <2>2, <2>3 DEF Notebook
<1>3. CASE Undo
  <2>1. ASSUME NEW s \in Sales, Void(s) PROVE IInv'
    BY <2>1, UndoneAs, UndoneInv DEF IInv
  <2>2. ASSUME NEW s \in Sales, Refund(s) PROVE IInv'
    BY <2>2, Refunded
  <2>3. ASSUME NEW l \in Lines, CancelPrepayments(l) PROVE IInv'
    BY <2>3, Cancelled
  <2>4. ASSUME NEW l \in Lines, ReturnChainGoods(l) PROVE IInv'
    BY <2>4, ChainGoodsBack
  <2>5. QED
    BY <1>3, <2>1, <2>2, <2>3, <2>4 DEF Undo
<1>4. CASE Document
  <2>1. ASSUME NEW s \in Sales, Send(s) \/ Accepted(s) \/ Unanswered(s) \/ Retry(s) PROVE IInv'
    BY <2>1, DocumentKeeps
  <2>2. ASSUME NEW s \in Sales, Refused(s) PROVE IInv'
    <3>1. RefusedAtOnce(s) \/ RefusedLate(s)
      BY <2>2 DEF Refused, RefusedAtOnce, RefusedLate
    <3>2. QED
      BY <3>1, UndoneAs, UndoneInv, DocumentKeeps DEF IInv
  <2>3. ASSUME NEW l \in Lines, NEW c \in Chain, RegisterReturn(l, c) PROVE IInv'
    BY <2>3, ReturnRegistered
  <2>4. QED
    BY <1>4, <2>1, <2>2, <2>3 DEF Document
<1>5. CASE UNCHANGED vars
  <2>1. /\ line' = line /\ journal' = journal /\ sale' = sale /\ sold' = sold
        /\ chains' = chains /\ giving' = giving
    BY <1>5 DEF vars
  <2>2. TypeOK'
    BY <2>1 DEF IInv, TypeOK
  <2>3. SaleInv'
    BY <2>1 DEF IInv, SaleInv, Money, SaleAt
  <2>4. GiveInv'
    BY <2>1 DEF IInv, GiveInv, WholeChainBack, InChain, Was
  <2>5. ASSUME NEW l \in Lines PROVE LineHolds(l)'
    <3>1. LineHolds(l)
      BY DEF IInv
    <3>2. /\ Left(l)' = Left(l) /\ (Undercut(l)' <=> Undercut(l)) /\ \A s \in Sales : Stood(s)' <=> Stood(s)
      BY <2>1 DEF Left, Undercut, Was, Stood
    <3>3. PaidAt(l)'
      BY <2>1, <3>1 DEF LineHolds, PaidAt
    <3>4. CloserAt(l)' /\ LineAt(l)' /\ ChainAt(l)'
      BY <2>1, <3>1 DEF LineHolds, CloserAt, LineAt, ChainAt, Left, Stood, Toward
    <3>5. StackAt(l)'
      BY <2>1, <3>1, <3>2 DEF LineHolds, StackAt, Stack
    <3>6. JournalAt(l)'
      BY <2>1, <3>1, <3>2 DEF LineHolds, JournalAt, Open, Owed, Left
    <3>7. QED
      BY <3>3, <3>4, <3>5, <3>6 DEF LineHolds
  <2>6. QED
    BY <2>2, <2>3, <2>4, <2>5 DEF IInv
<1>6. QED
  BY <1>1, <1>2, <1>3, <1>4, <1>5 DEF Next

LEMMA Inductive == Spec => []IInv
<1>1. Init => IInv
  BY Initially
<1>2. IInv /\ [Next]_vars => IInv'
  BY Kept
<1>3. QED
  BY <1>1, <1>2, PTL DEF Spec

----------------------------------------------------------------------------------
(* What is proved of every debt.                                                 *)

(* The debt's tables hold what their types say: no step of any request, undoing  *)
(* or retry takes a line's paid pieces below nothing.                            *)
THEOREM TypeCorrect == Spec => []TypeOK
<1>1. IInv => TypeOK
  BY DEF IInv
<1>2. QED
  BY <1>1, Inductive, PTL

(* The journal's sum is what the open lines still owe, to the kopeck, after any  *)
(* returns, receipts, «внески», write-offs and undoings, unless a receipt was    *)
(* undone under a later one whose goods had come back.                           *)
THEOREM JournalAgreesHolds == Spec => []JournalAgreesInOrder
<1>1. IInv => JournalAgreesInOrder
  BY DEF IInv, LineHolds, JournalAt, JournalAgreesInOrder
<1>2. QED
  BY <1>1, Inductive, PTL

(* A chain is given back whole and once: no document of it stands beside one     *)
(* whose money went back, here or at the provider.                               *)
THEOREM WholeChainBackHolds == Spec => []WholeChainBack
<1>1. IInv => WholeChainBack
  BY DEF IInv, GiveInv
<1>2. QED
  BY <1>1, Inductive, PTL

\* What a line that is done with for good rests on.
LEMMA AsItWas ==
  ASSUME NEW l \in Lines, ForGood(l), line'[l].given = line[l].given, line[l].off => line'[l].off,
         line'[l].returned = line[l].returned, line'[l].paid = line[l].paid,
         line[l].closer = 0 => line'[l].closer = 0
  PROVE  ForGood(l)'
BY DEF ForGood, Left

LEMMA NotOpen ==
  ASSUME IInv, NEW l \in Lines, ForGood(l)
  PROVE  ~ Open(l)
<1>1. Left(l) \in Int /\ Qty[l] \in Int
  BY DebtAssumption DEF Left, IInv, TypeOK, Line
<1>2. QED
  BY <1>1 DEF ForGood, Open

LEMMA RungForGood ==
  ASSUME IInv, NEW l \in Lines, ForGood(l), NEW k, NEW W \in SUBSET Lines, NEW part, NEW n, NEW l0, NEW c,
         Ring(k, W, part, n, l0, c), l \notin W, l # part
  PROVE  ForGood(l)'
<1>1. line[l] \in Line /\ line[l].paid \in Nat /\ line[l].closer \in 0..MaxSales
  BY DEF IInv, TypeOK, Line
<1>2. line'[l] = [line[l] EXCEPT !.paid = line[l].paid + 0, !.closer = line[l].closer]
  BY DEF Ring
<1>3. line'[l] = Paid(line[l], line[l].paid, line[l].closer)
  <2>1. line[l].paid + 0 = line[l].paid
    BY <1>1
  <2>2. QED
    BY <1>2, <2>1, Zenon DEF Paid
<1>4. PICK e \in Line : e = line[l]
  BY <1>1
<1>5. PICK q : q = Paid(e, e.paid, e.closer)
  OBVIOUS
<1>6. q.given = e.given /\ q.off = e.off /\ q.returned = e.returned /\ q.paid = e.paid /\ q.closer = e.closer
  BY <1>5 DEF Paid, Line
<1>7. line'[l] = q
  BY <1>3, <1>4, <1>5
<1>8. QED
  BY <1>4, <1>6, <1>7, AsItWas

LEMMA UndoneForGood ==
  ASSUME IInv, NEW l \in Lines, ForGood(l), NEW s \in Sales, Undone(s)
  PROVE  ForGood(l)'
<1>1. CASE ~ Touches(s, l)
  <2>1. line'[l] = line[l]
    BY <1>1 DEF Undone, Released
  <2>2. QED
    BY <2>1, AsItWas
<1>2. CASE Touches(s, l)
  <2>1. /\ ~ line[l].off /\ line[l].given /\ Left(l) = Qty[l] /\ line[l].closer = 0
    BY <1>2, LineFreed DEF ForGood
  <2>2. ~ (sale[s].units[l] > 0)
    <3>1. sale[s].units[l] > 0 => ~ LaterOn(s, l)
      BY <1>2 DEF Undone, CanVoid, NothingBuiltOn
    <3>2. sale[s].units[l] > 0 => s <= line[l].last
      BY <2>1 DEF IInv, LineHolds, LineAt
    <3>3. line[l].last \in Int /\ s \in Int
      BY DEF IInv, TypeOK, Line, Sales
    <3>4. QED
      BY <3>1, <3>2, <3>3 DEF LaterOn
  <2>3. sale[s].units[l] = 0 /\ line[l].paid \in Nat
    BY <2>2 DEF IInv, TypeOK, Line, Sale
  <2>4. /\ line'[l].given = line[l].given /\ line'[l].off = line[l].off
        /\ line'[l].returned = line[l].returned /\ line'[l].paid = line[l].paid - sale[s].units[l]
        /\ line'[l].closer = 0
    BY <1>2, LineFreed
  <2>5. line'[l].paid = line[l].paid
    BY <2>3, <2>4
  <2>6. QED
    BY <2>4, <2>5, AsItWas
<1>3. QED
  BY <1>1, <1>2

LEMMA DepositedForGood ==
  ASSUME IInv, NEW l \in Lines, ForGood(l), NEW k \in Lines, NEW a, NEW c, NEW into, Prepaid(k, a, c, into)
  PROVE  ForGood(l)'
<1>1. Open(k)
  BY DEF Prepaid, Oldest
<1>2. k # l
  BY <1>1, NotOpen
<1>3. line'[l] = line[l]
  BY <1>2 DEF Prepaid, IInv, TypeOK
<1>4. QED
  BY <1>3, AsItWas

LEMMA ForGoodKept ==
  ASSUME IInv, [Next]_vars, NEW l \in Lines, ForGood(l)
  PROVE  ForGood(l)'
<1>0. /\ ~ Open(l) /\ l # NoLine /\ line \in [Lines -> Line]
  BY NotOpen, Bounds DEF IInv, TypeOK
<1>1. CASE Repay
  <2>1. ASSUME NEW W \in SUBSET Lines, NEW part \in Lines \union {NoLine},
               NEW n \in 0..(IF part = NoLine THEN 0 ELSE Qty[part]), PayReceipt(W, part, n)
        PROVE  ForGood(l)'
    <3>1. l \notin W /\ l # part /\ Ring("receipt", W, part, n, NoLine, 0)
      BY <1>0, <2>1 DEF PayReceipt, Oldest, Next1
    <3>2. QED
      BY <3>1, RungForGood
  <2>2. ASSUME NEW k \in Lines, CloseChain(k) PROVE ForGood(l)'
    <3>1. l \notin {k} /\ l # NoLine /\ Ring("close", {k}, NoLine, 0, k, line[k].chain)
      BY <1>0, <2>2 DEF CloseChain, Oldest
    <3>2. QED
      BY <3>1, RungForGood
  <2>3. ASSUME NEW k \in Lines, NEW a \in Amounts, PrepayPlain(k, a) PROVE ForGood(l)'
    BY <2>3, DepositedForGood DEF PrepayPlain
  <2>4. ASSUME NEW k \in Lines, NEW a \in Amounts, PrepayChain(k, a) PROVE ForGood(l)'
    BY <2>4, DepositedForGood DEF PrepayChain
  <2>5. QED
    BY <1>1, <2>1, <2>2, <2>3, <2>4 DEF Repay
<1>2. CASE Notebook
  <2>1. ASSUME NEW k \in Lines, Issue(k) PROVE ForGood(l)'
    <3>1. line[l].given
      <4>1. line[l].given \/ line[l].off
        BY DEF ForGood
      <4>2. ~ line[l].given => line[l].off = FALSE
        BY DEF IInv, LineHolds, LineAt, NoDebt
      <4>3. QED
        BY <4>1, <4>2
    <3>2. k # l
      BY <2>1, <3>1 DEF Issue
    <3>3. line'[l] = line[l]
      BY <1>0, <2>1, <3>2 DEF Issue
    <3>4. QED
      BY <3>3, AsItWas
  <2>2. ASSUME NEW k \in Lines, NEW n \in 1..Qty[k], Return(k, n) PROVE ForGood(l)'
    <3>1. k # l
      BY <1>0, <2>2 DEF Return
    <3>2. line'[l] = line[l]
      BY <1>0, <2>2, <3>1 DEF Return
    <3>3. QED
      BY <3>2, AsItWas
  <2>3. ASSUME NEW W \in SUBSET Lines, WriteOff(W) PROVE ForGood(l)'
    <3>1. l \notin W
      BY <1>0, <2>3 DEF WriteOff
    <3>2. line'[l] = [line[l] EXCEPT !.off = line[l].off \/ l \in W]
      BY <2>3 DEF WriteOff
    <3>3. (line[l].off \/ l \in W) <=> line[l].off
      BY <3>1
    <3>4. line'[l].off <=> line[l].off
      BY <1>0, <3>2, <3>3 DEF Line
    <3>5. /\ line'[l].given = line[l].given /\ line'[l].returned = line[l].returned
          /\ line'[l].paid = line[l].paid /\ line'[l].closer = line[l].closer
      BY <1>0, <3>2 DEF Line
    <3>6. QED
      BY <3>4, <3>5, AsItWas
  <2>4. QED
    BY <1>2, <2>1, <2>2, <2>3 DEF Notebook
<1>3. CASE Undo
  <2>1. ASSUME NEW s \in Sales, Void(s) PROVE ForGood(l)'
    BY <2>1, UndoneAs, UndoneForGood DEF IInv
  <2>2. ASSUME NEW s \in Sales, Refund(s) PROVE ForGood(l)'
    BY <2>2, AsItWas DEF Refund
  <2>3. ASSUME NEW k \in Lines, CancelPrepayments(k) PROVE ForGood(l)'
    <3>1. k # l
      BY <1>0, <2>3 DEF CancelPrepayments
    <3>2. line'[l] = line[l]
      BY <1>0, <2>3, <3>1 DEF CancelPrepayments
    <3>3. QED
      BY <3>2, AsItWas
  <2>4. ASSUME NEW k \in Lines, ReturnChainGoods(k) PROVE ForGood(l)'
    BY <2>4, AsItWas DEF ReturnChainGoods
  <2>5. QED
    BY <1>3, <2>1, <2>2, <2>3, <2>4 DEF Undo
<1>4. CASE Document
  <2>1. ASSUME NEW s \in Sales, Send(s) \/ Accepted(s) \/ Unanswered(s) \/ Retry(s) PROVE ForGood(l)'
    <3>1. line' = line
      BY <2>1 DEF Send, Accepted, Unanswered, Retry
    <3>2. QED
      BY <3>1, AsItWas
  <2>2. ASSUME NEW s \in Sales, Refused(s) PROVE ForGood(l)'
    <3>1. RefusedAtOnce(s) \/ line' = line
      BY <2>2 DEF Refused, RefusedAtOnce
    <3>2. QED
      BY <3>1, AsItWas, UndoneAs, UndoneForGood DEF IInv
  <2>3. ASSUME NEW k \in Lines, NEW c \in Chain, RegisterReturn(k, c) PROVE ForGood(l)'
    BY <2>3, AsItWas DEF RegisterReturn
  <2>4. QED
    BY <1>4, <2>1, <2>2, <2>3 DEF Document
<1>5. CASE UNCHANGED vars
  BY <1>5, AsItWas DEF vars
<1>6. QED
  BY <1>1, <1>2, <1>3, <1>4, <1>5 DEF Next

(* A line whose last piece came back, or that was written off, never asks for    *)
(* money again, whatever receipt for its other pieces is undone.                 *)
THEOREM ReturnedStaysClosedHolds == Spec => ReturnedStaysClosed
<1>1. IInv /\ [Next]_vars => [\A l \in Lines : ForGood(l) => ForGood(l)']_vars
  BY ForGoodKept
<1>2. QED
  BY <1>1, Inductive, PTL DEF Spec, ReturnedStaysClosed

----------------------------------------------------------------------------------
(* A line's counters are the sums the receipts and «внески» that stand brought.  *)

LEMMA PaidFolds ==
  ASSUME IInv, NEW l \in Lines
  PROVE  LET c == line[l].chain
             here == {s \in Sales : sale[s].kind = "prepay" /\ sale[s].line = l
                                   /\ (Was(s, {"completed"})
                                        \/ (Was(s, {"refunded"}) /\ c # 0 /\ sale[s].chain = c))}
         IN /\ line[l].paid = MapThenSumSet(LAMBDA s : sale[s].units[l], {s \in Sales : ~ Was(s, {"none", "voided"})})
            /\ line[l].prepaid = MapThenSumSet(LAMBDA s : sale[s].cents[l], here)
            /\ line[l].chained = MapThenSumSet(LAMBDA s : sale[s].cents[l], {s \in here : c # 0 /\ sale[s].chain = c})
<1> DEFINE c == line[l].chain
           here == {s \in Sales : sale[s].kind = "prepay" /\ sale[s].line = l
                                 /\ (Was(s, {"completed"})
                                      \/ (Was(s, {"refunded"}) /\ c # 0 /\ sale[s].chain = c))}
           mine == {s \in here : c # 0 /\ sale[s].chain = c}
           stood == {s \in Sales : ~ Was(s, {"none", "voided"})}
           units == UnitsOf(sale, l)
           inside == InMoney(sale, c, l)
           outside == OutMoney(sale, c, l)
           both == [s \in Sales |-> inside[s] + outside[s]]
<1>1. PaidAt(l) /\ Money(sale) /\ TypeOK
  BY DEF IInv, LineHolds, SaleInv
<1>2. sale \in [Sales -> Sale] /\ line[l].prepaid \in Int /\ line[l].chained \in Int
  BY <1>1 DEF TypeOK, Line
<1>3. units \in [Sales -> Nat] /\ inside \in [Sales -> Nat] /\ outside \in [Sales -> Nat]
  BY <1>1, <1>2, Counted
<1>4. both \in [Sales -> Nat]
  BY <1>3
<1>5. /\ IsTotal(units, line[l].paid) /\ IsTotal(inside, line[l].chained)
      /\ IsTotal(outside, line[l].prepaid - line[l].chained)
  BY <1>1 DEF PaidAt
<1>6. line[l].paid = MapThenSumSet(LAMBDA s : sale[s].units[l], stood)
  <2>1. \A s \in Sales : units[s] = IF s \in stood THEN sale[s].units[l] ELSE 0
    BY DEF UnitsOf, Counts, Was
  <2>2. stood \in SUBSET Sales
    OBVIOUS
  <2> HIDE DEF stood, units
  <2>3. IsTotal(units, MapThenSumSet(LAMBDA s : sale[s].units[l], stood))
    BY <1>3, <2>1, <2>2, UnitsSum
  <2>4. QED
    BY <1>3, <1>5, <2>3, TotalUnique
<1>7. line[l].chained = MapThenSumSet(LAMBDA s : sale[s].cents[l], mine)
  <2>1. \A s \in Sales : inside[s] = IF s \in mine THEN sale[s].cents[l] ELSE 0
    BY DEF InMoney, Toward, Was
  <2>2. mine \in SUBSET Sales
    OBVIOUS
  <2> HIDE DEF mine, inside
  <2>3. IsTotal(inside, MapThenSumSet(LAMBDA s : sale[s].cents[l], mine))
    BY <1>3, <2>1, <2>2, CentsSum
  <2>4. QED
    BY <1>3, <1>5, <2>3, TotalUnique
<1>8. line[l].prepaid = MapThenSumSet(LAMBDA s : sale[s].cents[l], here)
  <2>1. \A s \in Sales : both[s] = IF s \in here THEN sale[s].cents[l] ELSE 0
    <3> SUFFICES ASSUME NEW s \in Sales
                 PROVE  both[s] = IF s \in here THEN sale[s].cents[l] ELSE 0
      OBVIOUS
    <3>1. sale[s].cents[l] \in Int
      BY <1>2 DEF Sale
    <3>2. QED
      BY <3>1 DEF InMoney, OutMoney, Toward, Was
  <2>2. here \in SUBSET Sales
    OBVIOUS
  <2>3. line[l].chained \in Nat /\ line[l].prepaid - line[l].chained \in Nat
    BY <1>1, PaidNat
  <2>4. \A s \in Sales : both[s] = inside[s] + outside[s]
    OBVIOUS
  <2> HIDE DEF here, both, inside, outside
  <2>5. IsTotal(both, line[l].chained + (line[l].prepaid - line[l].chained))
    BY <1>3, <1>4, <1>5, <2>3, <2>4, TotalSum
  <2>6. line[l].chained + (line[l].prepaid - line[l].chained) = line[l].prepaid
    BY <1>2
  <2>7. IsTotal(both, MapThenSumSet(LAMBDA s : sale[s].cents[l], here))
    BY <1>4, <2>1, <2>2, CentsSum
  <2>8. QED
    BY <1>4, <2>5, <2>6, <2>7, TotalUnique
<1>9. QED
  BY <1>6, <1>7, <1>8

(* The pieces a line counts as paid are those of the receipts that stand, and    *)
(* its money is that of the «внески» that stand or went back with the goods.     *)
THEOREM PaidBySalesHolds == Spec => []PaidBySales
<1>1. IInv => PaidBySales
  BY PaidFolds DEF PaidBySales
<1>2. QED
  BY <1>1, Inductive, PTL

----------------------------------------------------------------------------------
(* What the provider expects of a chain.                                         *)

\* The documents of the line's present chain whose sales stand.
In(l) == {s \in Sales : InChain(s, l, line[l].chain) /\ Was(s, {"completed"})}

\* The provider has no document of it whose sale was undone; nothing but it closes the line.
Clean(l) == \A s \in Sales : InChain(s, l, line[l].chain) /\ Was(s, {"voided"}) => ~ sale[s].filed
Going(l) == line[l].chain # 0 /\ line[l].closer \in {0} \union In(l) /\ Clean(l)

\* All of them but the newest are registered; it says what was owed before it, and so does the provider.
Expects(l) ==
    LET at == chains[l][line[l].chain] IN
    /\ \E f \in In(l) : First(f)
    /\ \A s, t \in In(l) : s < t => sale[s].doc = "done"
    /\ line[l].closer # 0 => \A s \in In(l) : s <= line[l].closer
    /\ line[l].closer = 0 => Owed(l) > 0
    /\ \A s \in In(l) : ~ sale[s].filed =>
         /\ sale[s].owed > 0
         /\ sale[s].owed = IF s = line[l].closer THEN sale[s].cents[l] ELSE Owed(l) + sale[s].cents[l]
         /\ IF First(s) THEN at.st = "none" ELSE at = [st |-> "open", left |-> sale[s].owed]
    /\ line[l].closer = 0 /\ (\A s \in In(l) : sale[s].filed) => at = [st |-> "open", left |-> Owed(l)]

FiledAt(s) == /\ sale[s].doc = "done" => sale[s].filed
              /\ sale[s].filed => sale[s].doc \in {"due", "parked", "done"}
Unused(l) == \A c \in Chain : chains[l][c].st # "none" => c <= line[l].attempts

Filings == /\ \A s \in Sales : FiledAt(s)
           /\ \A l \in Lines : Unused(l)

\* A step that has nothing to do with the chain, but for a document of it that moves.
Apart(l) ==
    LET c == line[l].chain IN
    /\ line'[l].chain = c /\ line'[l].closer = line[l].closer
    /\ c # 0 => Owed(l)' = Owed(l) /\ chains'[l][c] = chains[l][c]
    /\ \A s \in Sales : c # 0 => (InChain(s, l, c)' <=> InChain(s, l, c))
    /\ \A s \in Sales : c # 0 /\ InChain(s, l, c) =>
         /\ sale'[s].st = sale[s].st /\ sale'[s].cents = sale[s].cents /\ sale'[s].owed = sale[s].owed
         /\ sale'[s].filed = sale[s].filed /\ (sale[s].doc = "done" => sale'[s].doc = "done")

\* Of the chain's sales there are the same, and they are what they were.
LEMMA SameIn ==
  ASSUME NEW l \in Lines, line[l].chain # 0, line'[l].chain = line[l].chain,
         \A s \in Sales : InChain(s, l, line[l].chain)' <=> InChain(s, l, line[l].chain)
  PROVE  /\ \A s \in Sales : InChain(s, l, line[l].chain)' => (First(s)' <=> First(s))
         /\ (\A s \in Sales : InChain(s, l, line[l].chain) => sale'[s].st = sale[s].st) => In(l)' = In(l)
<1> DEFINE c == line[l].chain
<1>1. ASSUME NEW s \in Sales, InChain(s, l, c)' PROVE First(s)' <=> First(s)
  <2>1. sale[s].line = l /\ sale[s].chain = c /\ sale'[s].line = l /\ sale'[s].chain = c
    BY <1>1 DEF InChain
  <2>2. First(s) <=> \A t \in Sales : t < s => ~ InChain(t, l, c)
    BY <2>1 DEF First
  <2>3. First(s)' <=> \A t \in Sales : t < s => ~ InChain(t, l, c)'
    BY <2>1 DEF First, InChain
  <2>4. QED
    BY <2>2, <2>3
<1>2. ASSUME \A s \in Sales : InChain(s, l, c) => sale'[s].st = sale[s].st PROVE In(l)' = In(l)
  <2>1. In(l)' = {s \in Sales : InChain(s, l, c)' /\ Was(s, {"completed"})'}
    BY DEF In, InChain
  <2>2. \A s \in Sales : InChain(s, l, c) => (Was(s, {"completed"})' <=> Was(s, {"completed"}))
    BY <1>2 DEF Was
  <2>3. QED
    BY <2>1, <2>2 DEF In
<1>3. QED
  BY <1>1, <1>2

LEMMA ApartKeeps ==
  ASSUME NEW l \in Lines, Going(l) => Expects(l), Apart(l), Going(l)'
  PROVE  Expects(l)'
<1> DEFINE c == line[l].chain
<1>1. c # 0 /\ line'[l].chain = c /\ line'[l].closer = line[l].closer
  BY DEF Apart, Going
<1>2. /\ \A s \in Sales : InChain(s, l, c)' <=> InChain(s, l, c)
      /\ \A s \in Sales : InChain(s, l, c) =>
           /\ sale'[s].st = sale[s].st /\ sale'[s].cents = sale[s].cents /\ sale'[s].owed = sale[s].owed
           /\ sale'[s].filed = sale[s].filed /\ (sale[s].doc = "done" => sale'[s].doc = "done")
      /\ Owed(l)' = Owed(l) /\ chains'[l][c] = chains[l][c]
  BY <1>1 DEF Apart
<1>3. In(l)' = In(l) /\ \A s \in In(l) : First(s)' <=> First(s)
  BY <1>1, <1>2, SameIn DEF In
<1>4. Clean(l)
  <2> SUFFICES ASSUME NEW s \in Sales, InChain(s, l, c), Was(s, {"voided"}) PROVE ~ sale[s].filed
    BY DEF Clean
  <2>1. InChain(s, l, line[l].chain)' /\ Was(s, {"voided"})'
    BY <1>1, <1>2 DEF InChain, Was
  <2>2. ~ sale'[s].filed
    BY <2>1 DEF Going, Clean
  <2>3. QED
    BY <1>2, <2>2
<1>5. Going(l)
  BY <1>1, <1>3, <1>4 DEF Going
<1>6. Expects(l)
  BY <1>5
<1>7. \A s \in In(l) : /\ sale'[s].cents = sale[s].cents /\ sale'[s].owed = sale[s].owed
                       /\ sale'[s].filed = sale[s].filed /\ (sale[s].doc = "done" => sale'[s].doc = "done")
  BY <1>2 DEF In
<1>8. chains'[l][line'[l].chain] = chains[l][c]
  BY <1>1, <1>2
<1>9. /\ \E f \in In(l)' : First(f)'
      /\ \A s, t \in In(l)' : s < t => sale'[s].doc = "done"
      /\ line'[l].closer # 0 => \A s \in In(l)' : s <= line'[l].closer
      /\ line'[l].closer = 0 => Owed(l)' > 0
  <2>1. /\ \E f \in In(l) : First(f)
        /\ \A s, t \in In(l) : s < t => sale[s].doc = "done"
        /\ line[l].closer # 0 => \A s \in In(l) : s <= line[l].closer
        /\ line[l].closer = 0 => Owed(l) > 0
    BY <1>6 DEF Expects
  <2>2. QED
    BY <1>1, <1>2, <1>3, <1>7, <2>1
<1>10. \A s \in In(l)' : ~ sale'[s].filed =>
         /\ sale'[s].owed > 0
         /\ sale'[s].owed = IF s = line'[l].closer THEN sale'[s].cents[l] ELSE Owed(l)' + sale'[s].cents[l]
         /\ IF First(s)' THEN chains'[l][line'[l].chain].st = "none"
                         ELSE chains'[l][line'[l].chain] = [st |-> "open", left |-> sale'[s].owed]
  <2> SUFFICES ASSUME NEW s \in In(l)', ~ sale'[s].filed
               PROVE  /\ sale'[s].owed > 0
                      /\ sale'[s].owed = IF s = line'[l].closer THEN sale'[s].cents[l]
                                                               ELSE Owed(l)' + sale'[s].cents[l]
                      /\ IF First(s)' THEN chains'[l][line'[l].chain].st = "none"
                            ELSE chains'[l][line'[l].chain] = [st |-> "open", left |-> sale'[s].owed]
    OBVIOUS
  <2>1. /\ s \in In(l) /\ ~ sale[s].filed /\ (First(s)' <=> First(s))
        /\ sale'[s].cents = sale[s].cents /\ sale'[s].owed = sale[s].owed
    BY <1>3, <1>7
  <2>2. /\ sale[s].owed > 0
        /\ sale[s].owed = IF s = line[l].closer THEN sale[s].cents[l] ELSE Owed(l) + sale[s].cents[l]
        /\ IF First(s) THEN chains[l][c].st = "none" ELSE chains[l][c] = [st |-> "open", left |-> sale[s].owed]
    BY <1>6, <2>1 DEF Expects
  <2>3. QED
    BY <1>1, <1>2, <1>8, <2>1, <2>2
<1>11. line'[l].closer = 0 /\ (\A s \in In(l)' : sale'[s].filed)
         => chains'[l][line'[l].chain] = [st |-> "open", left |-> Owed(l)']
  <2>1. line[l].closer = 0 /\ (\A s \in In(l) : sale[s].filed)
          => chains[l][c] = [st |-> "open", left |-> Owed(l)]
    BY <1>6 DEF Expects
  <2>2. QED
    BY <1>1, <1>2, <1>3, <1>7, <1>8, <2>1
<1>12. QED
  BY <1>9, <1>10, <1>11 DEF Expects

LEMMA OwedInt ==
  ASSUME IInv, NEW l \in Lines
  PROVE  Owed(l) \in Int
<1>1. {} \in SUBSET Lines /\ NoLine \in Lines \union {NoLine} /\ 0 \in Nat /\ \A k \in {} : Open(k)
  OBVIOUS
<1>2. QED
  BY <1>1, RingTypes

\* The return of the chain has not been asked for, and its sales stand or were undone.
LEMMA GoingGives ==
  ASSUME IInv, NEW l \in Lines, Going(l)
  PROVE  /\ line[l].chain \in Chain /\ giving[l][line[l].chain] = "none"
         /\ \A s \in Sales : InChain(s, l, line[l].chain) => sale[s].st \in {"none", "completed", "voided"}
         /\ \E s \in In(l) : sale[s].kind = "prepay"
<1> DEFINE c == line[l].chain
<1>1. c \in Chain /\ c # 0 /\ TypeOK /\ LineHolds(l) /\ line[l].closer \in {0} \union In(l)
  BY Bounds DEF Going, IInv
<1>2. giving[l][c] = "none"
  <2>1. line[l].closer # 0 => sale[line[l].closer].st = "completed"
    BY <1>1 DEF In, Was
  <2>2. QED
    BY <1>1, <2>1 DEF LineHolds, ChainAt
<1>3. \A s \in Sales : InChain(s, l, c) => ~ Was(s, {"part", "refunded"})
  BY <1>1, <1>2 DEF IInv, GiveInv, WholeChainBack
<1>4. \A s \in Sales : sale[s].st \in {"none", "completed", "voided", "part", "refunded"}
  BY <1>1 DEF TypeOK, Sale
<1>5. PICK s \in Sales : Toward(sale, s, l) /\ sale[s].chain = c /\ sale[s].st = "completed"
  BY <1>1, <1>2 DEF LineHolds, ChainAt
<1>6. s \in In(l) /\ sale[s].kind = "prepay"
  BY <1>5 DEF In, InChain, Toward, Was
<1>7. QED
  BY <1>1, <1>2, <1>3, <1>4, <1>6 DEF Was

\* A standing document of the chain that is not registered is the newest of them.
LEMMA NewestIn ==
  ASSUME NEW l \in Lines, Expects(l), NEW s \in In(l), sale[s].doc # "done"
  PROVE  \A t \in In(l) : t <= s /\ (t # s => sale[t].doc = "done")
<1>1. \A t \in In(l) : t \in Int /\ s \in Int
  BY DebtAssumption DEF In, Sales
<1>2. QED
  BY <1>1 DEF Expects

\* The provider takes a document of the chain.
LEMMA FileKeeps ==
  ASSUME IInv, \A s \in Sales : FiledAt(s), NEW l \in Lines, Going(l) => Expects(l), NEW s \in Sales,
         InChain(s, l, line[l].chain), sale[s].doc # "none", ~ sale[s].filed, File(s), NEW d,
         sale' = [sale EXCEPT ![s].doc = d, ![s].filed = TRUE], line' = line, Going(l)'
  PROVE  Expects(l)'
<1> DEFINE c == line[l].chain
           left == sale[s].owed - sale[s].cents[l]
<1>1. /\ c # 0 /\ TypeOK /\ line'[l].chain = c /\ line'[l].closer = line[l].closer
      /\ sale[s].line = l /\ sale[s].chain = c
  BY DEF Going, IInv, InChain
<1>2. /\ \A t \in Sales : t # s => sale'[t] = sale[t]
      /\ sale'[s].filed = TRUE /\ sale'[s].doc = d
      /\ \A t \in Sales : /\ sale'[t].st = sale[t].st /\ sale'[t].cents = sale[t].cents
                          /\ sale'[t].owed = sale[t].owed /\ sale'[t].line = sale[t].line
                          /\ sale'[t].chain = sale[t].chain
  BY <1>1 DEF TypeOK, Sale
<1>3. \A t \in Sales : InChain(t, l, line[l].chain)' <=> InChain(t, l, c)
  BY <1>1, <1>2 DEF InChain
<1>4. In(l)' = In(l) /\ \A t \in In(l) : First(t)' <=> First(t)
  BY <1>1, <1>2, <1>3, SameIn DEF In
<1>5. Clean(l)
  <2> SUFFICES ASSUME NEW t \in Sales, InChain(t, l, c), Was(t, {"voided"}) PROVE ~ sale[t].filed
    BY DEF Clean
  <2>1. InChain(t, l, line[l].chain)' /\ Was(t, {"voided"})'
    BY <1>2, <1>3 DEF Was
  <2>2. ~ sale'[t].filed
    BY <2>1 DEF Going, Clean
  <2>3. QED
    BY <1>2, <2>2
<1>6. Going(l) /\ Expects(l)
  BY <1>1, <1>4, <1>5 DEF Going
<1>7. s \in In(l)
  <2>1. ~ Was(s, {"voided"})
    <3>1. InChain(s, l, line[l].chain)'
      BY <1>3
    <3>2. Was(s, {"voided"}) => Was(s, {"voided"})'
      BY <1>2 DEF Was
    <3>3. QED
      BY <1>2, <3>1, <3>2 DEF Going, Clean
  <2>2. sale[s].st # "none"
    <3>1. s > sold => sale[s] = NoSale
      BY DEF IInv, SaleInv, SaleAt
    <3>2. s > sold => sale[s].doc = "none"
      BY <3>1 DEF NoSale
    <3>3. s \in Int /\ sold \in Int /\ (s <= sold => sale[s].st # "none")
      BY <1>1, DebtAssumption DEF IInv, SaleInv, SaleAt, TypeOK, Sales
    <3>4. QED
      BY <3>2, <3>3
  <2>3. QED
    BY <1>6, <2>1, <2>2, GoingGives DEF In, Was
<1>8. sale[s].doc # "done" /\ \A t \in In(l) : t # s => sale[t].filed
  <2>1. sale[s].doc # "done"
    BY DEF FiledAt
  <2>2. \A t \in In(l) : t # s => sale[t].doc = "done"
    BY <1>6, <1>7, <2>1, NewestIn
  <2>3. QED
    BY <2>1, <2>2 DEF FiledAt, In
<1>9. chains'[l][c] = [st |-> IF left = 0 THEN "paid" ELSE "open", left |-> left]
  <2>1. c \in Chain
    BY <1>6, GoingGives
  <2>2. QED
    BY <1>1, <2>1 DEF File, TypeOK
<1>10. line[l].closer = 0 => left = Owed(l)
  <2>1. s \in Sales /\ sale[s].cents[l] \in Int
    BY <1>1 DEF TypeOK, Sale
  <2>2. ASSUME line[l].closer = 0 PROVE left = Owed(l)
    <3>1. s # line[l].closer
      BY <1>1, <2>2, Bounds
    <3>2. sale[s].owed = Owed(l) + sale[s].cents[l]
      BY <1>6, <1>7, <3>1 DEF Expects
    <3>3. Owed(l) \in Int
      BY OwedInt
    <3>4. QED
      BY <2>1, <3>2, <3>3
  <2>3. QED
    BY <2>2
<1>11. Owed(l)' = Owed(l)
  BY DEF Owed, Left, Cum
<1>12. \A t \in In(l) : sale'[t].filed
  BY <1>2, <1>8 DEF In
<1>13. line[l].closer = 0 => chains'[l][c] = [st |-> "open", left |-> Owed(l)]
  <2>1. line[l].closer = 0 => Owed(l) > 0
    BY <1>6 DEF Expects
  <2>2. QED
    BY <1>9, <1>10, <2>1
<1>14. \A t, u \in In(l) : t < u => sale'[t].doc = "done"
  <2>1. \A t, u \in In(l) : t < u => sale[t].doc = "done"
    BY <1>6 DEF Expects
  <2>2. ASSUME NEW t \in In(l), NEW u \in In(l), t < u PROVE sale'[t].doc = "done"
    <3>1. sale[t].doc = "done" /\ t # s /\ t \in Sales
      BY <1>8, <2>1, <2>2 DEF In
    <3>2. QED
      BY <1>2, <3>1
  <2>3. QED
    BY <2>2
<1>15. /\ \E f \in In(l)' : First(f)'
       /\ line'[l].closer # 0 => \A t \in In(l)' : t <= line'[l].closer
       /\ line'[l].closer = 0 => Owed(l)' > 0
       /\ chains'[l][line'[l].chain] = chains'[l][c]
  <2>1. /\ \E f \in In(l) : First(f)
        /\ line[l].closer # 0 => \A t \in In(l) : t <= line[l].closer
        /\ line[l].closer = 0 => Owed(l) > 0
    BY <1>6 DEF Expects
  <2>2. QED
    BY <1>1, <1>4, <1>11, <2>1
<1>16. line'[l].closer = 0 => chains'[l][line'[l].chain] = [st |-> "open", left |-> Owed(l)']
  BY <1>1, <1>11, <1>13, <1>15
<1>17. (\A t \in In(l)' : sale'[t].filed) /\ (\A t, u \in In(l)' : t < u => sale'[t].doc = "done")
  BY <1>4, <1>12, <1>14
<1>18. QED
  BY <1>15, <1>16, <1>17 DEF Expects

\* A receipt or a «внесок» is undone; ПРРО has no document of it.
LEMMA UndoneChain ==
  ASSUME IInv, \A s \in Sales : FiledAt(s), NEW l \in Lines, NEW s \in Sales, Undone(s), ~ sale[s].filed,
         sale'[s].filed = sale[s].filed, InChain(s, l, line[l].chain), Going(l)'
  PROVE  /\ Touches(s, l) /\ Going(l) /\ line'[l].chain = line[l].chain /\ line'[l].closer = 0
         /\ s \in In(l) /\ In(l)' = In(l) \ {s} /\ \A t \in In(l)' : First(t)' <=> First(t)
         /\ \E t \in In(l) : t # s
<1> DEFINE c == line[l].chain
<1>1. /\ sale \in [Sales -> Sale] /\ Money(sale) /\ SaleAt(s) /\ sale[s].st = "completed"
      /\ \A t \in Sales : Fixed(t)
      /\ sale[s].line = l /\ sale[s].chain = c
  BY UndoneSales DEF InChain, IInv, SaleInv
<1>2. Touches(s, l)
  <2>1. c # 0
    <3>1. l \in Lines /\ (c = 0 => line'[l].chain = 0)
      <4>1. Touches(s, l) => line'[l].chain \in {0, c}
        BY LineFreed
      <4>2. ~ Touches(s, l) => line'[l] = line[l]
        BY DEF Undone, Released
      <4>3. QED
        BY <4>1, <4>2
    <3>2. QED
      BY <3>1 DEF Going
  <2>2. sale[s].kind # "receipt" /\ sale[s].kind \in {"receipt", "close", "prepay"}
    BY <1>1, <2>1 DEF SaleAt, Sale
  <2>3. QED
    BY <1>1, <2>2 DEF SaleAt, Touches
<1>3. line'[l].closer = 0 /\ line[l].closer \in {0, s}
      /\ line'[l].chain = (IF LastOfChain(s, l) THEN 0 ELSE c)
  BY <1>2, LineFreed
<1>4. line'[l].chain = c /\ c # 0 /\ ~ LastOfChain(s, l)
  BY <1>3 DEF Going
<1>5. \A t \in Sales : InChain(t, l, line[l].chain)' <=> InChain(t, l, c)
  BY <1>1, <1>4 DEF InChain, Fixed
<1>6. \A t \in Sales : t # s => (Was(t, {"completed"})' <=> Was(t, {"completed"}))
                            /\ (Was(t, {"voided"})' <=> Was(t, {"voided"}))
                            /\ sale'[t].filed = sale[t].filed
  BY DEF Undone, Was
<1>7. s \in In(l) /\ ~ Was(s, {"completed"})'
  BY <1>1 DEF In, Was, Undone
<1>8. In(l)' = In(l) \ {s}
  <2>1. In(l)' = {t \in Sales : InChain(t, l, line[l].chain)' /\ Was(t, {"completed"})'}
    BY DEF In
  <2>2. QED
    BY <1>5, <1>6, <1>7, <2>1 DEF In
<1>9. Clean(l)
  <2> SUFFICES ASSUME NEW t \in Sales, InChain(t, l, c), Was(t, {"voided"}) PROVE ~ sale[t].filed
    BY DEF Clean
  <2>1. t # s
    BY <1>1 DEF Was
  <2>2. InChain(t, l, line[l].chain)' /\ Was(t, {"voided"})'
    BY <1>5, <1>6, <2>1
  <2>3. ~ sale'[t].filed
    BY <2>2 DEF Going, Clean
  <2>4. QED
    BY <1>6, <2>1, <2>3
<1>10. Going(l)
  BY <1>3, <1>4, <1>7, <1>9 DEF Going
<1>11. \A t \in In(l)' : First(t)' <=> First(t)
  BY <1>4, <1>5, SameIn DEF In
<1>12. \E t \in In(l) : t # s
  <2>1. CASE sale[s].kind = "prepay"
    BY <1>1, <1>4, <2>1 DEF LastOfChain, In, InChain, Was
  <2>2. CASE sale[s].kind # "prepay"
    BY <1>10, <2>2, GoingGives
  <2>3. QED
    BY <2>1, <2>2
<1>13. QED
  BY <1>2, <1>3, <1>4, <1>7, <1>8, <1>10, <1>11, <1>12

\* What the line owes again is what the undone document said.
LEMMA UndoneOwed ==
  ASSUME IInv, NEW l \in Lines, NEW s \in Sales, Undone(s), Touches(s, l), s \in In(l), ~ sale[s].filed,
         line[l].chain # 0, Expects(l)
  PROVE  Owed(l)' = sale[s].owed
<1>1. /\ TypeOK /\ sale \in [Sales -> Sale] /\ Money(sale) /\ SaleAt(s) /\ CloserAt(l)
      /\ Stood(s) /\ sale[s].line = l
  BY UndoneSales DEF InChain, IInv, SaleInv, In, LineHolds
<1>2. /\ line'[l].returned = line[l].returned /\ line'[l].paid = line[l].paid - sale[s].units[l]
      /\ line'[l].prepaid = line[l].prepaid - MoneyOf(s, l) /\ line[l].closer \in {0, s}
  BY LineFreed
<1>3. /\ line[l].returned \in Int /\ line[l].paid \in Int /\ line[l].prepaid \in Int
      /\ sale[s].units[l] \in Nat /\ sale[s].cents[l] \in Int /\ Qty[l] \in Int /\ Total[l] \in Int
  BY <1>1, DebtAssumption DEF TypeOK, Line, Sale
<1>4. Left(l)' = Left(l) - sale[s].units[l] /\ Left(l) \in Int
  BY <1>2, <1>3 DEF Left
<1>5. Owed(l)' = Total[l] - Cum(l, Left(l) - sale[s].units[l]) - (line[l].prepaid - MoneyOf(s, l))
  <2>1. Owed(l)' = Total[l] - Cum(l, Left(l)') - line'[l].prepaid
    BY DEF Owed, Cum
  <2>2. QED
    BY <1>2, <1>4, <2>1
<1>6. s # 0
  BY Bounds, <1>1
<1>7. CASE line[l].closer = s
  <2>1. /\ sale[s].units[l] > 0 /\ Left(l) = Qty[l]
        /\ sale[s].cents[l] = Total[l] - Cum(l, Qty[l] - sale[s].units[l]) - line[l].prepaid
    BY <1>1, <1>6, <1>7 DEF CloserAt
  <2>2. sale[s].kind # "prepay"
    BY <1>1, <1>3, <2>1 DEF Money
  <2>3. MoneyOf(s, l) = 0
    BY <2>2 DEF MoneyOf
  <2>4. sale[s].owed = sale[s].cents[l]
    BY <1>7 DEF Expects
  <2>5. line[l].prepaid - MoneyOf(s, l) = line[l].prepaid
    BY <1>3, <2>3
  <2>6. QED
    BY <1>5, <2>1, <2>4, <2>5
<1>8. CASE line[l].closer = 0
  <2>1. sale[s].kind # "close" /\ sale[s].kind # "receipt"
    <3>1. sale[s].kind # "close"
      BY <1>1, <1>6, <1>8 DEF CloserAt
    <3>2. sale[s].chain # 0
      BY DEF In, InChain
    <3>3. QED
      BY <1>1, <3>1, <3>2 DEF SaleAt
  <2>2. sale[s].kind = "prepay"
    BY <1>1, <2>1 DEF Sale
  <2>3. sale[s].units[l] = 0 /\ MoneyOf(s, l) = sale[s].cents[l]
    BY <1>1, <2>2 DEF Money, MoneyOf
  <2>4. Left(l) - sale[s].units[l] = Left(l)
    BY <1>4, <2>3
  <2>5. sale[s].owed = Owed(l) + sale[s].cents[l]
    BY <1>6, <1>8 DEF Expects
  <2>6. Cum(l, Left(l)) \in Int
    BY <1>4, CumWhole
  <2>7. QED
    BY <1>3, <1>5, <2>3, <2>4, <2>5, <2>6 DEF Owed
<1>9. QED
  BY <1>2, <1>7, <1>8

LEMMA UndoneKeeps ==
  ASSUME IInv, \A s \in Sales : FiledAt(s), NEW l \in Lines, Going(l) => Expects(l), NEW s \in Sales,
         Undone(s), ~ sale[s].filed, sale'[s].filed = sale[s].filed, InChain(s, l, line[l].chain), Going(l)'
  PROVE  Expects(l)'
<1> DEFINE c == line[l].chain
<1>1. /\ Touches(s, l) /\ Going(l) /\ line'[l].chain = c /\ line'[l].closer = 0
      /\ s \in In(l) /\ In(l)' = In(l) \ {s} /\ \A t \in In(l)' : First(t)' <=> First(t)
  BY UndoneChain
<1>2. PICK t \in In(l) : t # s
  BY UndoneChain
<1>3. Expects(l) /\ sale[s].doc # "done"
  BY <1>1 DEF FiledAt
<1>4. \A u \in In(l) : u <= s /\ (u # s => sale[u].doc = "done" /\ sale[u].filed)
  <2>1. \A u \in In(l) : u <= s /\ (u # s => sale[u].doc = "done")
    BY <1>1, <1>3, NewestIn
  <2>2. QED
    BY <2>1 DEF FiledAt, In
<1>5. ~ First(s)
  <2>1. t < s
    BY <1>1, <1>2, <1>4 DEF In, Sales
  <2>2. InChain(t, sale[s].line, sale[s].chain)
    BY <1>1 DEF In, InChain
  <2>3. QED
    BY <2>1, <2>2 DEF First, In
<1>6. chains[l][c] = [st |-> "open", left |-> sale[s].owed] /\ sale[s].owed > 0
  BY <1>1, <1>3, <1>5 DEF Expects
<1>7. Owed(l)' = sale[s].owed
  BY <1>1, <1>3, UndoneOwed DEF Going
<1>8. \A u \in In(l)' : sale'[u] = sale[u] /\ u \in In(l) /\ u # s
  BY <1>1 DEF Undone, In
<1>9. \E f \in In(l)' : First(f)'
  <2>1. PICK f \in In(l) : First(f)
    BY <1>3 DEF Expects
  <2>2. QED
    BY <1>1, <1>5, <2>1
<1>10. chains'[l][line'[l].chain] = [st |-> "open", left |-> Owed(l)']
  BY <1>1, <1>6, <1>7 DEF Undone
<1>11. Owed(l)' > 0
  BY <1>6, <1>7
<1>12. \A u, v \in In(l)' : u < v => sale'[u].doc = "done"
  BY <1>4, <1>8
<1>13. \A u \in In(l)' : sale'[u].filed
  BY <1>4, <1>8
<1>14. QED
  BY <1>1, <1>9, <1>10, <1>11, <1>12, <1>13 DEF Expects

----------------------------------------------------------------------------------
(* A new sale of the chain.                                                      *)

\* What a receipt, and a «внесок», leave in the sales and on the lines.
RungAs(r, W, part, n, l0, c) ==
    /\ Added(r) /\ r.line = l0 /\ r.chain = c /\ r.cents = RingCents(W, part, n)
    /\ r.doc \in {"none", "new"} /\ r.filed = FALSE
    /\ c # 0 => r.doc = "new" /\ r.owed = RingCents(W, part, n)[l0]
RungOn(l, W, part, n) ==
    /\ line'[l].returned = line[l].returned
    /\ line'[l].paid = line[l].paid + RingUnits(W, part, n)[l]
    /\ line'[l].prepaid = line[l].prepaid
    /\ line'[l].chain = line[l].chain /\ line'[l].attempts = line[l].attempts
    /\ line'[l].closer = IF l \in W THEN sold + 1 ELSE line[l].closer

LEMMA RingSays ==
  ASSUME IInv, NEW k \in {"receipt", "close"}, NEW W \in SUBSET Lines, NEW part \in Lines \union {NoLine},
         NEW n \in Nat, NEW l0 \in Lines \union {NoLine}, NEW c \in 0..MaxSales, Ring(k, W, part, n, l0, c),
         \A l \in W : Open(l), l0 \in Lines \/ c = 0
  PROVE  /\ \E r : RungAs(r, W, part, n, l0, c)
         /\ chains' = chains /\ giving' = giving
         /\ \A l \in Lines : RungOn(l, W, part, n)
<1> DEFINE units == RingUnits(W, part, n)
           cents == RingCents(W, part, n)
           pre == RingPre(W)
           o == IF c = 0 THEN 0 ELSE cents[l0]
           d == IF c = 0 THEN "none" ELSE "new"
<1>1. /\ sold < MaxSales /\ sold' = sold + 1 /\ chains' = chains /\ giving' = giving
      /\ sale' = [sale EXCEPT ![sold + 1] =
            [NoSale EXCEPT !.st = "completed", !.kind = k, !.units = units, !.cents = cents,
                           !.pre = pre, !.line = l0, !.chain = c, !.doc = d, !.owed = o]]
      /\ line' = [l \in Lines |-> [line[l] EXCEPT !.paid = @ + units[l],
                                                  !.closer = IF l \in W THEN sold + 1 ELSE @]]
  BY DEF Ring, RingUnits, RingCents, RingPre
<1>2. units \in [Lines -> Nat] /\ cents \in [Lines -> Int] /\ pre \in [Lines -> Int]
  BY RingTypes
<1> HIDE DEF units, cents, pre
<1>3. o \in Int /\ d \in {"none", "new"} /\ (c # 0 => d = "new" /\ o = cents[l0])
  BY <1>2
<1> HIDE DEF o, d
<1>4. PICK r : r = Receipt(k, units, cents, pre, l0, c, d, o)
  OBVIOUS
<1>5. LET e == Receipt(k, units, cents, pre, l0, c, d, o) IN
        /\ e \in Sale /\ e.st = "completed" /\ e.line = l0 /\ e.chain = c /\ e.cents = cents
        /\ e.doc = d /\ e.filed = FALSE /\ e.owed = o
  BY <1>2, <1>3 DEF Receipt, NoSale, Sale
<1>6. sale' = [sale EXCEPT ![sold + 1] = r]
  BY <1>1, <1>4 DEF Receipt
<1>7. Added(r) /\ r.line = l0 /\ r.chain = c /\ r.cents = cents /\ r.doc = d /\ r.filed = FALSE /\ r.owed = o
  BY <1>1, <1>4, <1>5, <1>6 DEF Added
<1>8. sold + 1 \in 0..MaxSales /\ line \in [Lines -> Line]
  <2>1. sold \in Nat /\ MaxSales \in Nat /\ line \in [Lines -> Line]
    BY DebtAssumption DEF IInv, TypeOK
  <2>2. sold < MaxSales
    BY DEF Ring
  <2>3. QED
    BY <2>1, <2>2
<1>9. ASSUME NEW l \in Lines
      PROVE  /\ line'[l].returned = line[l].returned /\ line'[l].paid = line[l].paid + units[l]
             /\ line'[l].prepaid = line[l].prepaid
             /\ line'[l].chain = line[l].chain /\ line'[l].attempts = line[l].attempts
             /\ line'[l].closer = IF l \in W THEN sold + 1 ELSE line[l].closer
  <2>1. PICK e \in Line, v \in Nat, m \in 0..MaxSales :
          e = line[l] /\ v = line[l].paid + units[l] /\ m = IF l \in W THEN sold + 1 ELSE line[l].closer
    BY <1>2, <1>8 DEF Line
  <2>2. PICK q : q = Paid(e, v, m)
    OBVIOUS
  <2>3. line'[l] = q
    BY <1>1, <2>1, <2>2 DEF Paid
  <2>4. /\ q.returned = e.returned /\ q.paid = v /\ q.prepaid = e.prepaid /\ q.closer = m
        /\ q.chain = e.chain /\ q.attempts = e.attempts
    BY <2>2 DEF Paid, Line
  <2>5. QED
    BY <2>1, <2>3, <2>4
<1>10. QED
  BY <1>1, <1>3, <1>7, <1>9 DEF units, cents, RungAs, RungOn

BroughtAs(r, l, a, c) ==
    /\ Added(r) /\ r.line = l /\ r.chain = c /\ r.cents[l] = a
    /\ r.doc \in {"none", "new"} /\ r.filed = FALSE
    /\ c # 0 => r.doc = "new" /\ r.owed = Owed(l)
BroughtOn(l, a, c, into) ==
    /\ Open(l) /\ a < Owed(l) /\ a > 0 /\ a \in Int
    /\ line'[l].returned = line[l].returned /\ line'[l].paid = line[l].paid
    /\ line'[l].prepaid = line[l].prepaid + a /\ line'[l].chain = c /\ line'[l].closer = 0
    /\ line'[l].attempts = into.attempts
    /\ \A k \in Lines : k # l => line'[k] = line[k]

LEMMA DepositSays ==
  ASSUME IInv, NEW l \in Lines, NEW a \in Amounts, NEW c \in 0..MaxSales, NEW into, Prepaid(l, a, c, into),
         into \in Line, into.returned = line[l].returned, into.paid = line[l].paid,
         into.prepaid = line[l].prepaid, into.closer = line[l].closer
  PROVE  /\ \E r : BroughtAs(r, l, a, c)
         /\ chains' = chains /\ giving' = giving
         /\ BroughtOn(l, a, c, into)
<1> DEFINE x == [Nothing EXCEPT ![l] = a]
           o == IF c = 0 THEN 0 ELSE Owed(l)
           d == IF c = 0 THEN "none" ELSE "new"
           v == into.prepaid + a
           w == IF c = 0 THEN 0 ELSE into.chained + a
<1>1. /\ sold < MaxSales /\ sold' = sold + 1 /\ chains' = chains /\ giving' = giving /\ Open(l) /\ a < Owed(l)
      /\ line \in [Lines -> Line] /\ line[l].closer = 0
      /\ sale' = [sale EXCEPT ![sold + 1] =
           [NoSale EXCEPT !.st = "completed", !.kind = "prepay", !.cents = x,
                          !.line = l, !.chain = c, !.doc = d, !.owed = o]]
      /\ line' = [line EXCEPT ![l] = [into EXCEPT !.prepaid = v, !.chain = c, !.chained = w]]
  BY DEF Prepaid, Oldest, Open, IInv, TypeOK
<1>2. a \in Int /\ a > 0 /\ Owed(l) \in Int
  BY DebtAssumption, OwedInt
<1>3. /\ x \in [Lines -> Int] /\ x[l] = a /\ o \in Int /\ d \in {"none", "new"}
      /\ (c # 0 => d = "new" /\ o = Owed(l)) /\ v \in Int /\ w \in Int
  BY <1>2 DEF Nothing, Line
<1>4. v = line[l].prepaid + a
  OBVIOUS
<1> HIDE DEF x, o, d, v, w
<1>5. PICK r : r = Deposit(x, l, c, d, o)
  OBVIOUS
<1>6. LET e == Deposit(x, l, c, d, o) IN
        /\ e \in Sale /\ e.st = "completed" /\ e.line = l /\ e.chain = c /\ e.cents = x
        /\ e.doc = d /\ e.filed = FALSE /\ e.owed = o
  <2>1. Nothing \in [Lines -> Nat] /\ Nothing \in [Lines -> Int]
    BY DEF Nothing
  <2>2. QED
    BY <1>3, <2>1 DEF Deposit, NoSale, Sale
<1>7. sale' = [sale EXCEPT ![sold + 1] = r]
  BY <1>1, <1>5 DEF Deposit
<1>8. /\ Added(r) /\ r.line = l /\ r.chain = c /\ r.cents[l] = a /\ r.doc = d /\ r.filed = FALSE /\ r.owed = o
  BY <1>1, <1>3, <1>5, <1>6, <1>7 DEF Added
<1>9. PICK q : q = [into EXCEPT !.prepaid = v, !.chain = c, !.chained = w]
  OBVIOUS
<1>10. /\ q.returned = into.returned /\ q.paid = into.paid /\ q.prepaid = v /\ q.closer = into.closer
       /\ q.chain = c /\ q.attempts = into.attempts
  BY <1>9 DEF Line
<1>11. line'[l] = q /\ \A k \in Lines : k # l => line'[k] = line[k]
  BY <1>1, <1>9
<1>12. QED
  BY <1>1, <1>2, <1>3, <1>4, <1>8, <1>10, <1>11 DEF BroughtAs, BroughtOn

\* The first sale of a new chain.
LEMMA OpenedKeeps ==
  ASSUME IInv, NEW l \in Lines, Unused(l), NEW r, Added(r), r.line = l, r.filed = FALSE, chains' = chains,
         line'[l].chain = r.chain, r.chain \in Chain, r.chain = line[l].attempts + 1,
         line'[l].closer = 0, Owed(l) \in Int, Owed(l)' > 0, r.owed = Owed(l)' + r.cents[l], r.owed > 0
  PROVE  Expects(l)'
<1> DEFINE c == r.chain
<1>1. PICK n \in Sales : n = sold + 1
  BY AddedSale
<1>2. /\ sale[n] = NoSale /\ sale'[n] = r /\ \A s \in Sales : s # n => sale'[s] = sale[s]
      /\ r.st = "completed"
  BY <1>1, AddedSale DEF Added
<1>3. line[l].attempts \in Nat /\ c # 0 /\ n \in Int
  BY DebtAssumption DEF IInv, TypeOK, Line, Chain, Sales
<1>4. \A s \in Sales : s # n => ~ InChain(s, l, line[l].chain)'
  <2> SUFFICES ASSUME NEW s \in Sales, s # n, sale[s].line = l, sale[s].chain = c PROVE FALSE
    BY <1>2 DEF InChain
  <2>1. sale[s].chain <= line[l].attempts
    BY <1>3 DEF IInv, SaleInv, SaleAt
  <2>2. QED
    BY <1>3, <2>1
<1>5. InChain(n, l, line[l].chain)'
  BY <1>2 DEF InChain
<1>6. In(l)' = {n}
  <2>1. In(l)' = {s \in Sales : InChain(s, l, line[l].chain)' /\ Was(s, {"completed"})'}
    BY DEF In
  <2>2. Was(n, {"completed"})'
    BY <1>2 DEF Was
  <2>3. QED
    BY <1>4, <1>5, <2>1, <2>2
<1>7. First(n)'
  <2>1. First(n)' <=> \A t \in Sales : t < n => ~ InChain(t, l, line[l].chain)'
    BY <1>2 DEF First, InChain
  <2>2. QED
    BY <1>3, <1>4, <2>1 DEF Sales
<1>8. chains'[l][line'[l].chain].st = "none"
  BY <1>3 DEF Unused
<1>9. sale'[n].filed = FALSE /\ sale'[n].owed = Owed(l)' + sale'[n].cents[l] /\ sale'[n].owed > 0
  BY <1>2
<1>10. n # 0 /\ ~ (n < n)
  BY <1>3, Bounds DEF IInv
<1>11. QED
  BY <1>6, <1>7, <1>8, <1>9, <1>10 DEF Expects

\* Its next one.
LEMMA JoinedKeeps ==
  ASSUME IInv, \A s \in Sales : FiledAt(s), NEW l \in Lines, Going(l) => Expects(l), Open(l),
         NEW r, Added(r), r.line = l, r.filed = FALSE, chains' = chains,
         line'[l].chain = r.chain, r.chain = line[l].chain, ChainSettled(l, line[l].chain), r.owed = Owed(l),
         \/ line'[l].closer = sold + 1 /\ r.cents[l] = r.owed
         \/ line'[l].closer = 0 /\ Owed(l)' > 0 /\ r.owed = Owed(l)' + r.cents[l],
         Going(l)'
  PROVE  Expects(l)'
<1> DEFINE c == r.chain
<1>1. PICK n \in Sales : n = sold + 1
  BY AddedSale
<1>2. /\ sale[n] = NoSale /\ sale'[n] = r /\ \A s \in Sales : s # n => sale'[s] = sale[s]
      /\ r.st = "completed" /\ \A s \in Sales : sale[s].st # "none" => s <= sold
      /\ sold \in Nat /\ n \in Int
  <2>1. sale'[n] = r /\ r.st = "completed" /\ sold \in Nat /\ sale[n] = NoSale
    BY <1>1, AddedSale DEF Added
  <2>2. \A s \in Sales : s # n => sale'[s] = sale[s]
    BY <1>1, AddedSale
  <2>3. \A s \in Sales : sale[s].st # "none" => s <= sold
    BY AddedSale
  <2>4. n \in Int
    BY <1>1, <2>1
  <2>5. QED
    BY <2>1, <2>2, <2>3, <2>4
<1>3. c # 0 /\ c = line[l].chain /\ line'[l].chain = c /\ line[l].closer = 0
  BY DEF Going, Open
<1>4. \A s \in Sales : s # n => (InChain(s, l, line[l].chain)' <=> InChain(s, l, c))
  BY <1>2, <1>3 DEF InChain
<1>5. InChain(n, l, line[l].chain)' /\ Was(n, {"completed"})' /\ ~ Was(n, {"completed", "voided"})
  BY <1>2 DEF InChain, Was, NoSale
<1>6. \A s \in Sales : s # n => /\ Was(s, {"completed"})' <=> Was(s, {"completed"})
                                /\ Was(s, {"voided"})' <=> Was(s, {"voided"})
  BY <1>2 DEF Was
<1>7. In(l)' = In(l) \union {n} /\ n \notin In(l)
  <2>1. In(l)' = {s \in Sales : InChain(s, l, line[l].chain)' /\ Was(s, {"completed"})'}
    BY DEF In
  <2>2. n \notin In(l)
    BY <1>5 DEF In, Was
  <2>3. QED
    BY <1>3, <1>4, <1>5, <1>6, <2>1, <2>2 DEF In
<1>8. Clean(l)
  <2> SUFFICES ASSUME NEW s \in Sales, InChain(s, l, c), Was(s, {"voided"}) PROVE ~ sale[s].filed
    BY <1>3 DEF Clean
  <2>1. s # n
    BY <1>5 DEF Was
  <2>2. InChain(s, l, line[l].chain)' /\ Was(s, {"voided"})'
    BY <1>4, <1>6, <2>1
  <2>3. ~ sale'[s].filed
    BY <2>2 DEF Going, Clean
  <2>4. QED
    BY <1>2, <2>1, <2>3
<1>9. Going(l) /\ Expects(l)
  BY <1>3, <1>8 DEF Going
<1>10. \A s \in In(l) : sale[s].doc = "done" /\ sale[s].filed /\ s <= sold /\ s # n /\ sale'[s] = sale[s]
  <2> SUFFICES ASSUME NEW s \in In(l)
               PROVE  sale[s].doc = "done" /\ sale[s].filed /\ s <= sold /\ s # n /\ sale'[s] = sale[s]
    OBVIOUS
  <2>1. sale[s].doc = "done" /\ sale[s].st = "completed"
    BY <1>3 DEF ChainSettled, In, Was
  <2>2. s \in Sales /\ sale[s].filed
    BY <2>1 DEF FiledAt, In
  <2>3. QED
    BY <1>2, <1>7, <2>1, <2>2
<1>11. chains[l][c] = [st |-> "open", left |-> Owed(l)] /\ Owed(l) > 0
  BY <1>3, <1>9, <1>10 DEF Expects
<1>12. \A s \in In(l) : s < n /\ ~ (n < s)
  BY <1>1, <1>2, <1>10 DEF In, Sales
<1>13. PICK f \in In(l) : First(f)
  BY <1>9 DEF Expects
<1>14. First(f)'
  <2>1. f \in Sales /\ sale[f].line = l /\ sale[f].chain = c /\ sale'[f] = sale[f] /\ f < n
    BY <1>3, <1>10, <1>12 DEF In, InChain
  <2>2. \A t \in Sales : t < f => ~ InChain(t, l, c) /\ t # n
    BY <1>2, <2>1, <1>13 DEF First, Sales
  <2>3. First(f)' <=> \A t \in Sales : t < f => ~ InChain(t, l, line[l].chain)'
    BY <1>3, <2>1 DEF First, InChain
  <2>4. QED
    BY <1>4, <2>2, <2>3
<1>15. ~ First(n)'
  <2>1. f \in Sales /\ f < n /\ InChain(f, l, c) /\ f # n
    BY <1>3, <1>10, <1>12 DEF In
  <2>2. InChain(f, sale[n].line, sale[n].chain)'
    BY <1>2, <2>1 DEF InChain
  <2>3. QED
    BY <2>1, <2>2 DEF First
<1>16. chains'[l][line'[l].chain] = [st |-> "open", left |-> r.owed]
  BY <1>3, <1>11
<1>17. \E g \in In(l)' : First(g)'
  BY <1>7, <1>14
<1>18. \A s, t \in In(l)' : s < t => sale'[s].doc = "done"
  <2>1. \A t \in In(l)' : ~ (n < t)
    BY <1>2, <1>7, <1>12
  <2>2. QED
    BY <1>7, <1>10, <2>1
<1>19. line'[l].closer # 0 => \A s \in In(l)' : s <= line'[l].closer
  BY <1>1, <1>2, <1>7, <1>12 DEF In, Sales
<1>20. line'[l].closer = 0 => Owed(l)' > 0
  BY <1>1, <1>2
<1>21. \A s \in In(l)' : ~ sale'[s].filed => s = n
  BY <1>7, <1>10
<1>22. /\ sale'[n].owed > 0
       /\ sale'[n].owed = IF n = line'[l].closer THEN sale'[n].cents[l] ELSE Owed(l)' + sale'[n].cents[l]
  <2>1. n # 0
    BY <1>1, <1>2
  <2>2. QED
    BY <1>1, <1>2, <1>11, <2>1
<1>23. ~ sale'[n].filed
  BY <1>2
<1>24. QED
  BY <1>7, <1>15, <1>16, <1>17, <1>18, <1>19, <1>20, <1>21, <1>22, <1>23, <1>2 DEF Expects

----------------------------------------------------------------------------------
(* The steps that have nothing to do with the chain, or leave none.              *)

LEMMA ApartStill ==
  ASSUME NEW l \in Lines, line'[l].chain = line[l].chain, line'[l].closer = line[l].closer,
         line'[l].returned = line[l].returned, line'[l].paid = line[l].paid, line'[l].prepaid = line[l].prepaid,
         line[l].chain # 0 => chains'[l][line[l].chain] = chains[l][line[l].chain],
         line[l].chain # 0 => \A s \in Sales :
           \/ sale'[s] = sale[s]
           \/ ~ InChain(s, l, line[l].chain) /\ ~ (sale'[s].line = l /\ sale'[s].chain = line[l].chain)
  PROVE  Apart(l)
<1> DEFINE c == line[l].chain
<1>1. Owed(l)' = Owed(l)
  BY DEF Owed, Left, Cum
<1>2. ASSUME c # 0, NEW s \in Sales
      PROVE  /\ InChain(s, l, c)' <=> InChain(s, l, c)
             /\ InChain(s, l, c) => sale'[s] = sale[s]
  BY <1>2 DEF InChain
<1>3. QED
  BY <1>1, <1>2 DEF Apart

LEMMA AddedApart ==
  ASSUME IInv, NEW l \in Lines, NEW r, Added(r), r.line # l \/ r.chain = 0, chains' = chains,
         line'[l].chain = line[l].chain, line'[l].closer = line[l].closer,
         line'[l].returned = line[l].returned, line'[l].paid = line[l].paid, line'[l].prepaid = line[l].prepaid
  PROVE  Apart(l)
<1>1. PICK n \in Sales : n = sold + 1
  BY AddedSale
<1>2. sale[n] = NoSale /\ sale'[n] = r /\ \A s \in Sales : s # n => sale'[s] = sale[s]
  BY <1>1, AddedSale
<1>3. ASSUME line[l].chain # 0
      PROVE  ~ InChain(n, l, line[l].chain) /\ ~ (sale'[n].line = l /\ sale'[n].chain = line[l].chain)
  BY <1>2, <1>3 DEF InChain, NoSale
<1>4. ASSUME line[l].chain # 0, NEW s \in Sales
      PROVE  \/ sale'[s] = sale[s]
             \/ ~ InChain(s, l, line[l].chain) /\ ~ (sale'[s].line = l /\ sale'[s].chain = line[l].chain)
  BY <1>2, <1>3, <1>4
<1>5. QED
  BY <1>4, ApartStill

\* An ordinary receipt.
LEMMA ReceiptKeeps ==
  ASSUME IInv, NEW l \in Lines, Going(l) => Expects(l),
         NEW W \in SUBSET Lines, NEW part \in Lines \union {NoLine},
         NEW n \in 0..(IF part = NoLine THEN 0 ELSE Qty[part]), PayReceipt(W, part, n), Going(l)'
  PROVE  Expects(l)'
<1>1. /\ Ring("receipt", W, part, n, NoLine, 0) /\ \A k \in W : Open(k)
      /\ l # NoLine /\ 0 \in 0..MaxSales
      /\ part # NoLine => Open(part) /\ line[part].prepaid <= 0
  BY Bounds, DebtAssumption DEF PayReceipt, Oldest, Next1, IInv
<1>2. n \in Nat
  <2>1. \A k \in Lines : Qty[k] \in Nat
    BY DebtAssumption
  <2>2. (IF part = NoLine THEN 0 ELSE Qty[part]) \in Nat
    BY <2>1
  <2>3. QED
    BY <2>2
<1>3. (\E r : RungAs(r, W, part, n, NoLine, 0)) /\ chains' = chains /\ RungOn(l, W, part, n)
  BY <1>1, <1>2, RingSays
<1>4. PICK r : Added(r) /\ r.line = NoLine /\ r.chain = 0
  BY <1>3 DEF RungAs
<1>5. line[l].chain # 0
  BY <1>3 DEF Going, RungOn
<1>6. l \notin W
  <2> SUFFICES ASSUME l \in W PROVE FALSE
    OBVIOUS
  <2>1. line'[l].closer = sold + 1 /\ sold + 1 \in Sales /\ sale'[sold + 1] = r /\ sold + 1 # 0
    BY <1>3, <1>4, AddedSale DEF RungOn
  <2>2. sold + 1 \in In(l)'
    BY <2>1 DEF Going
  <2>3. sale'[sold + 1].chain = line'[l].chain
    BY <2>2 DEF In, InChain
  <2>4. QED
    BY <1>3, <1>4, <1>5, <2>1, <2>3 DEF RungOn
<1>7. l # part
  <2> SUFFICES ASSUME l = part PROVE FALSE
    OBVIOUS
  <2>1. Open(l) /\ line[l].prepaid <= 0 /\ line[l].prepaid > 0
    BY <1>1, <1>5, OpenChain
  <2>2. line[l].prepaid \in Int
    BY DEF IInv, TypeOK, Line
  <2>3. QED
    BY <2>1, <2>2
<1>8. line'[l].paid = line[l].paid
  <2>1. RingUnits(W, part, n)[l] = 0 /\ line[l].paid \in Nat
    BY <1>6, <1>7 DEF RingUnits, IInv, TypeOK, Line
  <2>2. QED
    BY <1>3, <2>1 DEF RungOn
<1>9. Apart(l)
  BY <1>1, <1>3, <1>4, <1>6, <1>8, AddedApart DEF RungOn
<1>10. QED
  BY <1>9, ApartKeeps

\* The receipt that closes a line through its chain.
LEMMA CloseKeeps ==
  ASSUME IInv, \A s \in Sales : FiledAt(s), NEW l \in Lines, Going(l) => Expects(l),
         NEW k \in Lines, CloseChain(k), Going(l)'
  PROVE  Expects(l)'
<1>1. /\ Ring("close", {k}, NoLine, 0, k, line[k].chain) /\ Open(k) /\ line[k].chain # 0
      /\ ChainSettled(k, line[k].chain) /\ l # NoLine /\ k # NoLine
      /\ line[k].chain \in 0..MaxSales
  BY Bounds DEF CloseChain, Oldest, IInv, TypeOK, Line
<1>2. (\E r : RungAs(r, {k}, NoLine, 0, k, line[k].chain)) /\ chains' = chains /\ RungOn(l, {k}, NoLine, 0)
  <2>1. /\ "close" \in {"receipt", "close"} /\ {k} \in SUBSET Lines /\ NoLine \in Lines \union {NoLine}
        /\ 0 \in Nat /\ k \in Lines \union {NoLine} /\ \A j \in {k} : Open(j)
    BY <1>1
  <2>2. QED
    BY <1>1, <2>1, RingSays
<1>3. PICK r : RungAs(r, {k}, NoLine, 0, k, line[k].chain)
  BY <1>2
<1>4. CASE k = l
  <2>1. r.cents[l] = Owed(l) /\ r.owed = Owed(l)
    BY <1>1, <1>3, <1>4 DEF RingCents, RungAs
  <2>2. QED
    BY <1>1, <1>2, <1>3, <1>4, <2>1, JoinedKeeps DEF RungAs, RungOn
<1>5. CASE k # l
  <2>1. line'[l].paid = line[l].paid
    <3>1. RingUnits({k}, NoLine, 0)[l] = 0 /\ line[l].paid \in Nat
      BY <1>1, <1>5 DEF RingUnits, IInv, TypeOK, Line
    <3>2. QED
      BY <1>2, <3>1 DEF RungOn
  <2>2. Apart(l)
    BY <1>2, <1>3, <1>5, <2>1, AddedApart DEF RungAs, RungOn
  <2>3. QED
    BY <2>2, ApartKeeps
<1>6. QED
  BY <1>4, <1>5

\* A «внесок» is one of no chain, of a new one, or of the line's.
LEMMA Deposits ==
  ASSUME IInv, NEW k \in Lines, NEW a \in Amounts, PrepayPlain(k, a) \/ PrepayChain(k, a)
  PROVE  \E c \in 0..MaxSales, into \in Line :
           /\ Prepaid(k, a, c, into)
           /\ into.returned = line[k].returned /\ into.paid = line[k].paid
           /\ into.prepaid = line[k].prepaid /\ into.closer = line[k].closer
           /\ into.attempts \in {line[k].attempts, line[k].attempts + 1}
           /\ \/ c = 0
              \/ line[k].chain = 0 /\ c = line[k].attempts + 1 /\ c \in Chain
              \/ c = line[k].chain /\ ChainSettled(k, c)
<1>1. TypeOK /\ line[k] \in Line /\ line[k].chain \in 0..MaxSales /\ 0 \in 0..MaxSales
  BY DebtAssumption DEF IInv, TypeOK, Line
<1>2. CASE PrepayPlain(k, a)
  BY <1>1, <1>2 DEF PrepayPlain
<1>3. CASE PrepayChain(k, a) /\ line[k].chain = 0
  <2>1. PICK c \in Chain : /\ c = line[k].attempts + 1
                           /\ Prepaid(k, a, c, [line[k] EXCEPT !.attempts = c, !.chained = 0])
    BY <1>3 DEF PrepayChain
  <2>2. c \in 0..MaxSales /\ c \in Nat
    BY DEF Chain
  <2>3. Prepaid(k, a, c, Opened(line[k], c))
    BY <2>1 DEF Opened
  <2>4. PICK into : into = Opened(line[k], c)
    OBVIOUS
  <2>5. /\ into \in Line /\ into.attempts = c
        /\ into.returned = line[k].returned /\ into.paid = line[k].paid /\ into.prepaid = line[k].prepaid
        /\ into.closer = line[k].closer
    BY <1>1, <2>2, <2>4, OpenedLine
  <2>6. QED
    BY <1>3, <2>1, <2>2, <2>3, <2>4, <2>5
<1>4. CASE PrepayChain(k, a) /\ line[k].chain # 0
  BY <1>1, <1>4 DEF PrepayChain
<1>5. QED
  BY <1>2, <1>3, <1>4

LEMMA DepositKeeps ==
  ASSUME IInv, Filings, NEW l \in Lines, Going(l) => Expects(l),
         NEW k \in Lines, NEW a \in Amounts, PrepayPlain(k, a) \/ PrepayChain(k, a), Going(l)'
  PROVE  Expects(l)'
<1>1. TypeOK /\ line[k] \in Line
  BY DEF IInv, TypeOK
<1>2. PICK c \in 0..MaxSales, into \in Line :
        /\ Prepaid(k, a, c, into)
        /\ into.returned = line[k].returned /\ into.paid = line[k].paid
        /\ into.prepaid = line[k].prepaid /\ into.closer = line[k].closer
        /\ into.attempts \in {line[k].attempts, line[k].attempts + 1}
        /\ \/ c = 0
           \/ line[k].chain = 0 /\ c = line[k].attempts + 1 /\ c \in Chain
           \/ c = line[k].chain /\ ChainSettled(k, c)
  BY Deposits
<1>0. (\E r : BroughtAs(r, k, a, c)) /\ chains' = chains /\ BroughtOn(k, a, c, into)
  BY <1>2, DepositSays
<1>3. /\ chains' = chains /\ Open(k) /\ a < Owed(k) /\ a > 0 /\ a \in Int
      /\ line'[k].returned = line[k].returned /\ line'[k].paid = line[k].paid
      /\ line'[k].prepaid = line[k].prepaid + a /\ line'[k].chain = c /\ line'[k].closer = 0
      /\ \A j \in Lines : j # k => line'[j] = line[j]
  BY <1>0 DEF BroughtOn
<1>4. PICK r : /\ Added(r) /\ r.line = k /\ r.chain = c /\ r.cents[k] = a
               /\ r.doc \in {"none", "new"} /\ r.filed = FALSE
               /\ c # 0 => r.doc = "new" /\ r.owed = Owed(k)
  BY <1>0 DEF BroughtAs
<1>5. CASE k # l
  <2>1. Apart(l)
    BY <1>3, <1>4, <1>5, AddedApart
  <2>2. QED
    BY <2>1, ApartKeeps
<1>6. CASE k = l
  <2>1. c # 0
    BY <1>3, <1>6 DEF Going
  <2>2. Owed(l)' = Owed(l) - a /\ Owed(l) \in Int
    <3>1. Owed(l)' = Total[l] - Cum(l, Left(l)) - line'[l].prepaid
      BY <1>3, <1>6 DEF Owed, Left, Cum
    <3>2. Left(l) \in Int /\ Total[l] \in Int /\ line[l].prepaid \in Int
      BY <1>1, <1>6, DebtAssumption DEF Left, Line
    <3>3. Cum(l, Left(l)) \in Int
      BY <3>2, CumWhole
    <3>4. QED
      BY <1>3, <1>6, <3>1, <3>2, <3>3 DEF Owed
  <2>3. Owed(l)' > 0 /\ r.owed = Owed(l)' + r.cents[l] /\ r.owed > 0 /\ r.owed = Owed(l)
    BY <1>3, <1>4, <1>6, <2>1, <2>2
  <2>4. CASE line[l].chain = 0 /\ c = line[l].attempts + 1 /\ c \in Chain
    BY <1>3, <1>4, <1>6, <2>2, <2>3, <2>4, OpenedKeeps DEF Filings
  <2>5. CASE c = line[l].chain /\ ChainSettled(l, c)
    BY <1>3, <1>4, <1>6, <2>3, <2>5, JoinedKeeps DEF Filings
  <2>6. QED
    BY <1>2, <1>6, <2>1, <2>4, <2>5
<1>7. QED
  BY <1>5, <1>6

LEMMA NotebookKeeps ==
  ASSUME IInv, NEW l \in Lines, Going(l) => Expects(l), Notebook, Going(l)'
  PROVE  Expects(l)'
<1>1. line \in [Lines -> Line] /\ line[l] \in Line /\ sale' = sale /\ chains' = chains
  BY DEF IInv, TypeOK, Notebook, Issue, Return, WriteOff
<1>2. ASSUME NEW k \in Lines, Issue(k) PROVE Apart(l)
  <2>1. line' = [line EXCEPT ![k].given = TRUE]
    BY <1>2 DEF Issue
  <2>2. /\ line'[l].chain = line[l].chain /\ line'[l].closer = line[l].closer
        /\ line'[l].returned = line[l].returned /\ line'[l].paid = line[l].paid
        /\ line'[l].prepaid = line[l].prepaid
    BY <1>1, <2>1 DEF Line
  <2>3. QED
    BY <1>1, <2>2, ApartStill
<1>3. ASSUME NEW k \in Lines, NEW n \in 1..Qty[k], Return(k, n) PROVE Apart(l)
  <2>1. line' = [line EXCEPT ![k] = [line[k] EXCEPT !.returned = line[k].returned + n, !.last = sold]]
    BY <1>1, <1>3 DEF Return
  <2>2. line'[k].chain = line[k].chain
    BY <1>1, <2>1 DEF Line
  <2>3. k # l
    <3> SUFFICES ASSUME k = l PROVE FALSE
      OBVIOUS
    <3>1. line[l].chain # 0
      BY <2>2 DEF Going
    <3>2. Open(l) /\ line[l].prepaid <= 0 /\ line[l].prepaid \in Int
      BY <1>1, <1>3 DEF Return, Line
    <3>3. line[l].prepaid > 0
      BY <3>1, <3>2, OpenChain
    <3>4. QED
      BY <3>2, <3>3
  <2>4. line'[l] = line[l]
    BY <1>1, <2>1, <2>3
  <2>5. QED
    BY <1>1, <2>4, ApartStill
<1>4. ASSUME NEW W \in SUBSET Lines, WriteOff(W) PROVE Apart(l)
  <2>1. line'[l] = [line[l] EXCEPT !.off = line[l].off \/ l \in W]
    BY <1>4 DEF WriteOff
  <2>2. /\ line'[l].chain = line[l].chain /\ line'[l].closer = line[l].closer
        /\ line'[l].returned = line[l].returned /\ line'[l].paid = line[l].paid
        /\ line'[l].prepaid = line[l].prepaid
    BY <1>1, <2>1 DEF Line
  <2>3. QED
    BY <1>1, <2>2, ApartStill
<1>5. Apart(l)
  BY <1>2, <1>3, <1>4 DEF Notebook
<1>6. QED
  BY <1>5, ApartKeeps

LEMMA RefundKeeps ==
  ASSUME IInv, NEW l \in Lines, Going(l) => Expects(l), NEW s \in Sales, Refund(s), Going(l)'
  PROVE  Expects(l)'
<1>1. UNCHANGED <<line, chains>> /\ sale \in [Sales -> Sale] /\ Money(sale) /\ SaleAt(s)
  BY DEF Refund, IInv, TypeOK, SaleInv
<1>2. PICK st \in {"part", "refunded"} : sale' = [sale EXCEPT ![s].st = st]
  BY DEF Refund
<1>3. sale[s].chain = 0
  <2>1. PICK l0 \in Lines : sale[s].units[l0] > 0 /\ sale[s].pre[l0] <= 0
    BY DEF Refund, Refundable
  <2>2. sale[s].kind # "prepay" /\ sale[s].kind \in {"receipt", "close", "prepay"}
    BY <1>1, <2>1 DEF Money, Sale
  <2>3. sale[s].kind # "close"
    BY <1>1, <2>1 DEF SaleAt, Sale
  <2>4. QED
    BY <1>1, <2>2, <2>3 DEF SaleAt
<1>4. sale'[s].chain = 0 /\ \A t \in Sales : t # s => sale'[t] = sale[t]
  BY <1>1, <1>2, <1>3 DEF Sale
<1>5. Apart(l)
  BY <1>1, <1>3, <1>4, ApartStill DEF InChain
<1>6. QED
  BY <1>5, ApartKeeps

LEMMA ChainBackKeeps ==
  ASSUME IInv, NEW l \in Lines, Going(l) => Expects(l), NEW k \in Lines,
         CancelPrepayments(k) \/ ReturnChainGoods(k), Going(l)'
  PROVE  Expects(l)'
<1>1. line \in [Lines -> Line] /\ line[k] \in Line /\ UNCHANGED chains
  BY DEF IInv, TypeOK, CancelPrepayments, ReturnChainGoods
<1>2. PICK S \in SUBSET Sales : GiveBack(k, S) /\ (ReturnChainGoods(k) => line[k].closer \in S)
  <2>1. CASE CancelPrepayments(k) /\ ~ ReturnChainGoods(k)
    BY <2>1 DEF CancelPrepayments
  <2>2. CASE ReturnChainGoods(k)
    BY <2>2 DEF ReturnChainGoods
  <2>3. QED
    BY <2>1, <2>2
<1>3. \A j \in Lines : line'[j].attempts = line[j].attempts
  <2>1. CASE CancelPrepayments(k)
    <3>1. line' = [line EXCEPT ![k] = Unchained(k)]
      BY <2>1 DEF CancelPrepayments
    <3>2. Unchained(k).attempts = line[k].attempts
      BY <1>1 DEF Unchained, Line
    <3>3. QED
      BY <1>1, <3>1, <3>2
  <2>2. CASE ReturnChainGoods(k)
    BY <2>2 DEF ReturnChainGoods
  <2>3. QED
    BY <2>1, <2>2
<1>4. /\ \A s \in S : /\ sale'[s].st = "refunded" /\ sale[s].line = k
      /\ \A s \in Sales : Fixed(s)
      /\ \A s \in Sales \ S : sale'[s] = sale[s]
  BY <1>1, <1>2, <1>3, GivenBack
<1>5. k # l
  <2> SUFFICES ASSUME k = l PROVE FALSE
    OBVIOUS
  <2>1. CASE CancelPrepayments(k)
    <3>1. line' = [line EXCEPT ![k] = Unchained(k)]
      BY <2>1 DEF CancelPrepayments
    <3>2. Unchained(k).chain = 0
      BY <1>1 DEF Unchained, Line
    <3>3. QED
      BY <1>1, <3>1, <3>2 DEF Going
  <2>2. CASE ReturnChainGoods(k)
    <3>1. line' = line /\ line[l].closer # 0 /\ line[l].closer \in S
      BY <1>2, <2>2 DEF ReturnChainGoods
    <3>2. line[l].closer \in In(l)'
      BY <3>1 DEF Going
    <3>3. sale'[line[l].closer].st = "completed"
      BY <3>2 DEF In, Was
    <3>4. QED
      BY <1>4, <3>1, <3>3
  <2>3. QED
    BY <2>1, <2>2
<1>6. line'[l] = line[l]
  BY <1>1, <1>5 DEF CancelPrepayments, ReturnChainGoods
<1>7. \A s \in Sales : sale'[s] = sale[s] \/ (sale[s].line # l /\ sale'[s].line # l)
  BY <1>4, <1>5 DEF Fixed
<1>8. Apart(l)
  BY <1>1, <1>6, <1>7, ApartStill DEF InChain
<1>9. QED
  BY <1>8, ApartKeeps

LEMMA UndoKeeps ==
  ASSUME IInv, Filings, NEW l \in Lines, Going(l) => Expects(l), NEW s \in Sales,
         Void(s) \/ RefusedAtOnce(s), Going(l)'
  PROVE  Expects(l)'
<1>1. Undone(s) /\ sale \in [Sales -> Sale] /\ FiledAt(s)
  BY UndoneAs DEF IInv, TypeOK, Filings
<1>2. ~ sale[s].filed /\ sale'[s].filed = sale[s].filed
  <2>1. CASE Void(s)
    BY <1>1, <2>1 DEF Void, MayAskVoid, FiledAt, Sale
  <2>2. CASE RefusedAtOnce(s)
    BY <1>1, <2>2 DEF RefusedAtOnce, FiledAt, Sale
  <2>3. QED
    BY <2>1, <2>2
<1>3. CASE InChain(s, l, line[l].chain)
  BY <1>1, <1>2, <1>3, UndoneKeeps DEF Filings
<1>4. CASE ~ InChain(s, l, line[l].chain)
  <2>1. ~ Touches(s, l) \/ line[l].chain = 0
    BY <1>1, <1>4 DEF Undone, CanVoid, NothingBuiltOn, InChain
  <2>2. line[l].chain # 0
    <3>1. Touches(s, l) => line'[l].chain \in {0, line[l].chain}
      BY <1>1, LineFreed
    <3>2. ~ Touches(s, l) => line'[l] = line[l]
      BY <1>1 DEF Undone, Released
    <3>3. QED
      BY <3>1, <3>2 DEF Going
  <2>3. line'[l] = line[l] /\ chains' = chains
    BY <1>1, <2>1, <2>2 DEF Undone, Released
  <2>4. ~ (sale'[s].line = l /\ sale'[s].chain = line[l].chain) /\ \A t \in Sales : t # s => sale'[t] = sale[t]
    BY <1>1, <1>4 DEF Undone, Fixed, InChain
  <2>5. Apart(l)
    BY <1>4, <2>3, <2>4, ApartStill
  <2>6. QED
    BY <2>5, ApartKeeps
<1>5. QED
  BY <1>3, <1>4

\* A document moves, and the provider takes none, or one of another chain.
LEMMA MovedApart ==
  ASSUME TypeOK, NEW l \in Lines, NEW s \in Sales, NEW d, sale[s].doc # "done", line' = line,
         sale' = [sale EXCEPT ![s].doc = d], chains' = chains
  PROVE  Apart(l)
<1>1. sale \in [Sales -> Sale]
  BY DEF TypeOK
<1>2. \A t \in Sales : /\ sale'[t].st = sale[t].st /\ sale'[t].cents = sale[t].cents
                       /\ sale'[t].owed = sale[t].owed /\ sale'[t].filed = sale[t].filed
                       /\ sale'[t].line = sale[t].line /\ sale'[t].chain = sale[t].chain
                       /\ (sale[t].doc = "done" => sale'[t].doc = "done")
  BY <1>1 DEF Sale
<1>3. \A t \in Sales : InChain(t, l, line[l].chain)' <=> InChain(t, l, line[l].chain)
  BY <1>2 DEF InChain
<1>4. Owed(l)' = Owed(l)
  BY DEF Owed, Left, Cum
<1>5. QED
  BY <1>2, <1>3, <1>4 DEF Apart, InChain

LEMMA FiledApart ==
  ASSUME IInv, NEW l \in Lines, NEW s \in Sales, NEW d, ~ InChain(s, l, line[l].chain), File(s), line' = line,
         sale' = [sale EXCEPT ![s].doc = d, ![s].filed = TRUE]
  PROVE  Apart(l)
<1>1. /\ sale \in [Sales -> Sale]
      /\ chains \in [Lines -> [Chain -> [st : {"none", "open", "paid", "returned"}, left : Int]]]
  BY DEF IInv, TypeOK
<1>2. /\ sale'[s].line = sale[s].line /\ sale'[s].chain = sale[s].chain
      /\ \A t \in Sales : t # s => sale'[t] = sale[t]
  BY <1>1 DEF Sale
<1>3. line[l].chain # 0 => chains'[l][line[l].chain] = chains[l][line[l].chain]
  <2>1. ASSUME line[l].chain # 0 PROVE line[l].chain \in Chain
    BY <2>1, Bounds DEF IInv
  <2>2. sale[s].line # l \/ sale[s].chain # line[l].chain
    BY DEF InChain
  <2>3. QED
    BY <1>1, <2>1, <2>2 DEF File
<1>4. QED
  BY <1>2, <1>3, ApartStill DEF InChain

LEMMA DocumentExpects ==
  ASSUME IInv, Filings, NEW l \in Lines, Going(l) => Expects(l), NEW s \in Sales,
         Send(s) \/ Accepted(s) \/ Unanswered(s) \/ Retry(s) \/ RefusedLate(s), Going(l)'
  PROVE  Expects(l)'
<1>1. sale[s].doc \notin {"none", "done"} /\ line' = line /\ TypeOK /\ FiledAt(s)
  BY DEF Send, Accepted, Unanswered, Retry, RefusedLate, IInv, Filings
<1>2. \E d \in {"new", "sent", "due", "parked", "done"} :
        \/ sale' = [sale EXCEPT ![s].doc = d] /\ chains' = chains
        \/ sale' = [sale EXCEPT ![s].doc = d, ![s].filed = TRUE] /\ File(s) /\ ~ sale[s].filed
  BY <1>1 DEF Send, Accepted, Unanswered, Retry, RefusedLate, FiledAt
<1>3. PICK d \in {"new", "sent", "due", "parked", "done"} :
        \/ sale' = [sale EXCEPT ![s].doc = d] /\ chains' = chains
        \/ sale' = [sale EXCEPT ![s].doc = d, ![s].filed = TRUE] /\ File(s) /\ ~ sale[s].filed
  BY <1>2
<1>4. CASE sale' = [sale EXCEPT ![s].doc = d] /\ chains' = chains
  BY <1>1, <1>4, MovedApart, ApartKeeps
<1>5. CASE sale' = [sale EXCEPT ![s].doc = d, ![s].filed = TRUE] /\ File(s) /\ ~ sale[s].filed
  <2>1. CASE InChain(s, l, line[l].chain)
    BY <1>1, <1>5, <2>1, FileKeeps DEF Filings
  <2>2. CASE ~ InChain(s, l, line[l].chain)
    BY <1>1, <1>5, <2>2, FiledApart, ApartKeeps
  <2>3. QED
    BY <2>1, <2>2
<1>6. QED
  BY <1>3, <1>4, <1>5

LEMMA ReturnExpects ==
  ASSUME IInv, NEW l \in Lines, Going(l) => Expects(l), NEW k \in Lines, NEW c \in Chain,
         RegisterReturn(k, c), Going(l)'
  PROVE  Expects(l)'
<1>1. line' = line /\ sale' = sale
      /\ chains \in [Lines -> [Chain -> [st : {"none", "open", "paid", "returned"}, left : Int]]]
  BY DEF RegisterReturn, IInv, TypeOK
<1>2. Going(l)
  BY <1>1 DEF Going, In, Clean, InChain, Was
<1>3. line[l].chain \in Chain /\ ~ (k = l /\ c = line[l].chain)
  BY <1>2, GoingGives DEF RegisterReturn
<1>4. chains'[l][line[l].chain] = chains[l][line[l].chain]
  <2>1. PICK v : chains' = [chains EXCEPT ![k][c] = v] \/ chains' = chains
    BY DEF RegisterReturn
  <2>2. QED
    BY <1>1, <1>3, <2>1
<1>5. Apart(l)
  BY <1>1, <1>4, ApartStill
<1>6. QED
  BY <1>5, ApartKeeps

----------------------------------------------------------------------------------
(* What the provider has is on file, and no chain is used before it is opened.   *)

LEMMA AddedFilings ==
  ASSUME IInv, Filings, NEW r, Added(r), r.doc \in {"none", "new"}, r.filed = FALSE, chains' = chains,
         \A l \in Lines : line'[l].attempts \in {line[l].attempts, line[l].attempts + 1}
  PROVE  Filings'
<1>1. PICK n \in Sales : n = sold + 1
  BY AddedSale
<1>2. sale'[n] = r /\ \A s \in Sales : s # n => sale'[s] = sale[s]
  BY <1>1, AddedSale
<1>3. \A s \in Sales : FiledAt(s)'
  BY <1>2 DEF Filings, FiledAt
<1>4. ASSUME NEW l \in Lines, NEW c \in Chain, chains'[l][c].st # "none" PROVE c <= line'[l].attempts
  <2>1. c <= line[l].attempts /\ c \in Int /\ line[l].attempts \in Int
    BY <1>4 DEF Filings, Unused, IInv, TypeOK, Line, Chain
  <2>2. QED
    BY <2>1
<1>5. QED
  BY <1>3, <1>4 DEF Filings, Unused

\* No document moves, or one does as documents may.
LEMMA SameFilings ==
  ASSUME IInv, Filings, chains' = chains, \A l \in Lines : line'[l].attempts = line[l].attempts,
         \A s \in Sales : \/ sale'[s].doc = sale[s].doc /\ sale'[s].filed = sale[s].filed
                          \/ FiledAt(s)'
  PROVE  Filings'
<1>1. \A s \in Sales : FiledAt(s)'
  BY DEF Filings, FiledAt
<1>2. \A l \in Lines : Unused(l)'
  BY DEF Filings, Unused
<1>3. QED
  BY <1>1, <1>2 DEF Filings

LEMMA RepayFilings ==
  ASSUME IInv, Filings, Repay
  PROVE  Filings'
<1>1. ASSUME NEW W \in SUBSET Lines, NEW part \in Lines \union {NoLine},
             NEW n \in 0..(IF part = NoLine THEN 0 ELSE Qty[part]), PayReceipt(W, part, n)
      PROVE  Filings'
  <2>1. /\ Ring("receipt", W, part, n, NoLine, 0) /\ \A k \in W : Open(k)
        /\ 0 \in 0..MaxSales /\ NoLine \in Lines \union {NoLine}
    BY <1>1, DebtAssumption DEF PayReceipt, Oldest
  <2>2. n \in Nat
    <3>1. \A k \in Lines : Qty[k] \in Nat
      BY DebtAssumption
    <3>2. (IF part = NoLine THEN 0 ELSE Qty[part]) \in Nat
      BY <3>1
    <3>3. QED
      BY <3>2
  <2>3. (\E r : RungAs(r, W, part, n, NoLine, 0)) /\ chains' = chains /\ \A l \in Lines : RungOn(l, W, part, n)
    BY <2>1, <2>2, RingSays
  <2>4. QED
    BY <2>3, AddedFilings DEF RungAs, RungOn
<1>2. ASSUME NEW k \in Lines, CloseChain(k) PROVE Filings'
  <2>1. Ring("close", {k}, NoLine, 0, k, line[k].chain) /\ line[k].chain \in 0..MaxSales
    BY <1>2 DEF CloseChain, IInv, TypeOK, Line
  <2>2. /\ "close" \in {"receipt", "close"} /\ {k} \in SUBSET Lines /\ NoLine \in Lines \union {NoLine}
        /\ 0 \in Nat /\ k \in Lines \union {NoLine} /\ \A j \in {k} : Open(j)
    BY <1>2 DEF CloseChain, Oldest
  <2>3. /\ \E r : RungAs(r, {k}, NoLine, 0, k, line[k].chain)
        /\ chains' = chains /\ \A l \in Lines : RungOn(l, {k}, NoLine, 0)
    BY <2>1, <2>2, RingSays
  <2>4. QED
    BY <2>3, AddedFilings DEF RungAs, RungOn
<1>3. ASSUME NEW k \in Lines, NEW a \in Amounts, PrepayPlain(k, a) \/ PrepayChain(k, a) PROVE Filings'
  <2>1. PICK c \in 0..MaxSales, into \in Line :
          /\ Prepaid(k, a, c, into)
          /\ into.returned = line[k].returned /\ into.paid = line[k].paid
          /\ into.prepaid = line[k].prepaid /\ into.closer = line[k].closer
          /\ into.attempts \in {line[k].attempts, line[k].attempts + 1}
    BY <1>3, Deposits
  <2>2. (\E r : BroughtAs(r, k, a, c)) /\ chains' = chains /\ BroughtOn(k, a, c, into)
    BY <2>1, DepositSays
  <2>3. \A l \in Lines : line'[l].attempts \in {line[l].attempts, line[l].attempts + 1}
    BY <2>1, <2>2 DEF BroughtOn
  <2>4. QED
    BY <2>2, <2>3, AddedFilings DEF BroughtAs
<1>4. QED
  BY <1>1, <1>2, <1>3 DEF Repay

LEMMA NotebookFilings ==
  ASSUME IInv, Filings, Notebook
  PROVE  Filings'
<1>1. line \in [Lines -> Line] /\ sale' = sale /\ chains' = chains
  BY DEF IInv, TypeOK, Notebook, Issue, Return, WriteOff
<1>2. ASSUME NEW k \in Lines, Issue(k), NEW l \in Lines PROVE line'[l].attempts = line[l].attempts
  <2>1. line' = [line EXCEPT ![k].given = TRUE]
    BY <1>2 DEF Issue
  <2>2. QED
    BY <1>1, <2>1 DEF Line
<1>3. ASSUME NEW k \in Lines, NEW n \in 1..Qty[k], Return(k, n), NEW l \in Lines
      PROVE  line'[l].attempts = line[l].attempts
  <2>1. line' = [line EXCEPT ![k] = [line[k] EXCEPT !.returned = line[k].returned + n, !.last = sold]]
    BY <1>1, <1>3 DEF Return
  <2>2. QED
    BY <1>1, <2>1 DEF Line
<1>4. ASSUME NEW W \in SUBSET Lines, WriteOff(W), NEW l \in Lines PROVE line'[l].attempts = line[l].attempts
  <2>1. line'[l] = [line[l] EXCEPT !.off = line[l].off \/ l \in W]
    BY <1>4 DEF WriteOff
  <2>2. QED
    BY <1>1, <2>1 DEF Line
<1>5. QED
  BY <1>1, <1>2, <1>3, <1>4, SameFilings DEF Notebook

LEMMA UndoFilings ==
  ASSUME IInv, Filings, Undo
  PROVE  Filings'
<1>1. /\ sale \in [Sales -> Sale] /\ line \in [Lines -> Line] /\ TypeOK /\ chains' = chains
      /\ \A s \in Sales : FiledAt(s)
  BY DEF IInv, TypeOK, Undo, Void, Refund, CancelPrepayments, ReturnChainGoods, Filings
<1>2. ASSUME NEW s \in Sales, Void(s) PROVE Filings'
  <2>1. Undone(s)
    BY <1>1, <1>2, UndoneAs
  <2>2. \A l \in Lines : line'[l].attempts = line[l].attempts
    <3> SUFFICES ASSUME NEW l \in Lines PROVE line'[l].attempts = line[l].attempts
      OBVIOUS
    <3>1. Touches(s, l) => line'[l].attempts = line[l].attempts
      BY <2>1, LineFreed
    <3>2. ~ Touches(s, l) => line'[l] = line[l]
      BY <2>1 DEF Undone, Released
    <3>3. QED
      BY <3>1, <3>2
  <2>3. sale' = [sale EXCEPT ![s].st = "voided"]
    BY <1>2 DEF Void
  <2>4. \A t \in Sales : sale'[t].doc = sale[t].doc /\ sale'[t].filed = sale[t].filed
    BY <1>1, <2>3 DEF Sale
  <2>5. QED
    BY <1>1, <2>2, <2>4, SameFilings
<1>3. ASSUME NEW s \in Sales, Refund(s) PROVE Filings'
  <2>1. PICK st : sale' = [sale EXCEPT ![s].st = st]
    BY <1>3 DEF Refund
  <2>2. line' = line
    BY <1>3 DEF Refund
  <2>3. \A t \in Sales : sale'[t].doc = sale[t].doc /\ sale'[t].filed = sale[t].filed
    BY <1>1, <2>1 DEF Sale
  <2>4. QED
    BY <1>1, <2>2, <2>3, SameFilings
<1>4. ASSUME NEW k \in Lines, CancelPrepayments(k) \/ ReturnChainGoods(k) PROVE Filings'
  <2>1. PICK S : GiveBack(k, S)
    BY <1>4 DEF CancelPrepayments, ReturnChainGoods
  <2>2. sale' = [s \in Sales |-> IF s \in S THEN [sale[s] EXCEPT !.st = "refunded"] ELSE sale[s]]
    BY <2>1 DEF GiveBack
  <2>3. \A s \in Sales : sale'[s].doc = sale[s].doc /\ sale'[s].filed = sale[s].filed
    BY <1>1, <2>2 DEF Sale
  <2>4. \A l \in Lines : line'[l].attempts = line[l].attempts
    <3>1. line' = [line EXCEPT ![k] = Unchained(k)] \/ line' = line
      BY <1>4 DEF CancelPrepayments, ReturnChainGoods
    <3>2. Unchained(k).attempts = line[k].attempts
      BY <1>1 DEF Unchained, Line
    <3>3. QED
      BY <1>1, <3>1, <3>2
  <2>5. QED
    BY <1>1, <2>3, <2>4, SameFilings
<1>5. QED
  BY <1>2, <1>3, <1>4 DEF Undo

LEMMA DocumentFilings ==
  ASSUME IInv, Filings, Document
  PROVE  Filings'
<1>1. /\ sale \in [Sales -> Sale] /\ TypeOK /\ \A s \in Sales : FiledAt(s) /\ SaleAt(s)
      /\ chains \in [Lines -> [Chain -> [st : {"none", "open", "paid", "returned"}, left : Int]]]
  BY DEF IInv, TypeOK, Filings, SaleInv
<1>2. ASSUME NEW s \in Sales, Send(s) \/ Accepted(s) \/ Unanswered(s) \/ Retry(s) \/ RefusedLate(s)
      PROVE  Filings'
  <2>1. line' = line /\ sale[s].doc \notin {"none", "done"}
    BY <1>2 DEF Send, Accepted, Unanswered, Retry, RefusedLate
  <2>2. PICK d \in {"sent", "due", "parked", "done"} :
          \/ /\ sale' = [sale EXCEPT ![s].doc = d] /\ chains' = chains
             /\ d = "done" => sale[s].filed
             /\ d = "sent" => ~ sale[s].filed
          \/ /\ sale' = [sale EXCEPT ![s].doc = d, ![s].filed = TRUE] /\ File(s)
             /\ d # "sent"
    BY <1>1, <1>2 DEF Send, Accepted, Unanswered, Retry, RefusedLate, FiledAt
  <2>3. \A t \in Sales : t # s => sale'[t] = sale[t]
    BY <1>1, <2>2
  <2>4. FiledAt(s)'
    <3>1. CASE sale' = [sale EXCEPT ![s].doc = d]
      <4>1. sale'[s].doc = d /\ sale'[s].filed = sale[s].filed
        BY <1>1, <3>1 DEF Sale
      <4>2. (d = "done" => sale'[s].filed) /\ (d = "sent" => ~ sale'[s].filed)
        <5>1. CASE sale'[s].filed = TRUE
          BY <1>1, <2>2, <4>1, <5>1 DEF Sale
        <5>2. CASE sale'[s].filed = FALSE
          BY <1>1, <2>2, <4>1, <5>2 DEF Sale
        <5>3. QED
          BY <1>1, <4>1, <5>1, <5>2 DEF Sale
      <4>3. QED
        BY <4>1, <4>2 DEF FiledAt
    <3>2. CASE sale' = [sale EXCEPT ![s].doc = d, ![s].filed = TRUE] /\ d # "sent"
      BY <1>1, <3>2 DEF Sale, FiledAt
    <3>3. QED
      BY <2>2, <3>1, <3>2
  <2>5. \A t \in Sales : FiledAt(t)'
    <3>1. \A t \in Sales : t # s => FiledAt(t)'
      BY <1>1, <2>3 DEF FiledAt
    <3>2. QED
      BY <2>4, <3>1
  <2>6. ASSUME NEW l \in Lines, NEW c \in Chain, chains'[l][c].st # "none" PROVE c <= line[l].attempts
    <3>1. CASE chains'[l][c] = chains[l][c]
      BY <2>6, <3>1 DEF Filings, Unused
    <3>2. CASE chains'[l][c] # chains[l][c]
      <4>1. File(s)
        BY <2>2, <3>2
      <4>2. PICK v : chains' = [chains EXCEPT ![sale[s].line][sale[s].chain] = v]
        BY <4>1 DEF File
      <4>3. sale[s].line = l /\ sale[s].chain = c
        BY <1>1, <3>2, <4>2
      <4>4. c # 0
        BY DEF Chain
      <4>5. QED
        BY <1>1, <4>3, <4>4 DEF SaleAt
    <3>3. QED
      BY <3>1, <3>2
  <2>7. QED
    BY <2>1, <2>5, <2>6 DEF Filings, Unused
<1>3. ASSUME NEW s \in Sales, RefusedAtOnce(s) PROVE Filings'
  <2>1. Undone(s) /\ chains' = chains
    BY <1>1, <1>3, UndoneAs DEF RefusedAtOnce
  <2>2. \A l \in Lines : line'[l].attempts = line[l].attempts
    <3> SUFFICES ASSUME NEW l \in Lines PROVE line'[l].attempts = line[l].attempts
      OBVIOUS
    <3>1. Touches(s, l) => line'[l].attempts = line[l].attempts
      BY <2>1, LineFreed
    <3>2. ~ Touches(s, l) => line'[l] = line[l]
      BY <2>1 DEF Undone, Released
    <3>3. QED
      BY <3>1, <3>2
  <2>3. sale' = [sale EXCEPT ![s].doc = "parked", ![s].st = "voided"] /\ sale[s].doc = "sent"
    BY <1>3 DEF RefusedAtOnce
  <2>4. FiledAt(s)' /\ \A t \in Sales : t # s => sale'[t] = sale[t]
    BY <1>1, <2>3 DEF Sale, FiledAt
  <2>5. QED
    BY <2>1, <2>2, <2>4, SameFilings
<1>4. ASSUME NEW s \in Sales, Refused(s) PROVE Filings'
  <2>1. RefusedAtOnce(s) \/ RefusedLate(s)
    BY <1>4 DEF Refused, RefusedAtOnce, RefusedLate
  <2>2. QED
    BY <1>2, <1>3, <2>1
<1>5. ASSUME NEW k \in Lines, NEW d \in Chain, RegisterReturn(k, d) PROVE Filings'
  <2>1. line' = line /\ sale' = sale /\ giving[k][d] # "none"
    BY <1>5 DEF RegisterReturn
  <2>2. PICK v : chains' = chains \/ chains' = [chains EXCEPT ![k][d] = v]
    BY <1>5 DEF RegisterReturn
  <2>3. ASSUME NEW l \in Lines, NEW c \in Chain, chains'[l][c].st # "none" PROVE c <= line[l].attempts
    <3>1. CASE chains'[l][c] = chains[l][c]
      BY <2>3, <3>1 DEF Filings, Unused
    <3>2. CASE chains'[l][c] # chains[l][c]
      <4>1. l = k /\ c = d
        BY <1>1, <2>2, <3>2
      <4>2. QED
        BY <2>1, <4>1 DEF IInv, GiveInv
    <3>3. QED
      BY <3>1, <3>2
  <2>4. QED
    BY <1>1, <2>1, <2>3 DEF Filings, Unused, FiledAt
<1>6. QED
  BY <1>2, <1>4, <1>5 DEF Document

----------------------------------------------------------------------------------
(* Put together.                                                                 *)

EInv == Filings /\ \A l \in Lines : Going(l) => Expects(l)

LEMMA ExpectsInit == Init => EInv
<1> SUFFICES ASSUME Init PROVE EInv
  OBVIOUS
<1>1. \A s \in Sales : FiledAt(s)
  BY DEF Init, NoSale, FiledAt
<1>2. \A l \in Lines : Unused(l)
  BY DEF Init, Unused
<1>3. \A l \in Lines : ~ Going(l)
  BY DEF Init, NoDebt, Going
<1>4. QED
  BY <1>1, <1>2, <1>3 DEF EInv, Filings

LEMMA ExpectsKept ==
  ASSUME IInv, EInv, [Next]_vars
  PROVE  EInv'
<1>1. Filings /\ \A l \in Lines : Going(l) => Expects(l)
  BY DEF EInv
<1>2. Filings'
  <2>1. CASE Repay
    BY <1>1, <2>1, RepayFilings
  <2>2. CASE Notebook
    BY <1>1, <2>2, NotebookFilings
  <2>3. CASE Undo
    BY <1>1, <2>3, UndoFilings
  <2>4. CASE Document
    BY <1>1, <2>4, DocumentFilings
  <2>5. CASE UNCHANGED vars
    BY <1>1, <2>5 DEF vars, Filings, FiledAt, Unused
  <2>6. QED
    BY <2>1, <2>2, <2>3, <2>4, <2>5 DEF Next
<1>3. ASSUME NEW l \in Lines, Going(l)' PROVE Expects(l)'
  <2>1. CASE Repay
    <3>1. \A s \in Sales : FiledAt(s)
      BY <1>1 DEF Filings
    <3>2. ASSUME NEW W \in SUBSET Lines, NEW part \in Lines \union {NoLine},
                 NEW n \in 0..(IF part = NoLine THEN 0 ELSE Qty[part]), PayReceipt(W, part, n)
          PROVE  Expects(l)'
      BY <1>1, <1>3, <3>2, ReceiptKeeps
    <3>3. ASSUME NEW k \in Lines, CloseChain(k) PROVE Expects(l)'
      BY <1>1, <1>3, <3>1, <3>3, CloseKeeps
    <3>4. ASSUME NEW k \in Lines, NEW a \in Amounts, PrepayPlain(k, a) \/ PrepayChain(k, a) PROVE Expects(l)'
      BY <1>1, <1>3, <3>4, DepositKeeps
    <3>5. QED
      BY <2>1, <3>2, <3>3, <3>4 DEF Repay
  <2>2. CASE Notebook
    BY <1>1, <1>3, <2>2, NotebookKeeps
  <2>3. CASE Undo
    <3>1. ASSUME NEW s \in Sales, Void(s) PROVE Expects(l)'
      BY <1>1, <1>3, <3>1, UndoKeeps
    <3>2. ASSUME NEW s \in Sales, Refund(s) PROVE Expects(l)'
      BY <1>1, <1>3, <3>2, RefundKeeps
    <3>3. ASSUME NEW k \in Lines, CancelPrepayments(k) \/ ReturnChainGoods(k) PROVE Expects(l)'
      BY <1>1, <1>3, <3>3, ChainBackKeeps
    <3>4. QED
      BY <2>3, <3>1, <3>2, <3>3 DEF Undo
  <2>4. CASE Document
    <3>1. ASSUME NEW s \in Sales, Send(s) \/ Accepted(s) \/ Unanswered(s) \/ Retry(s) PROVE Expects(l)'
      BY <1>1, <1>3, <3>1, DocumentExpects
    <3>2. ASSUME NEW s \in Sales, Refused(s) PROVE Expects(l)'
      <4>1. RefusedAtOnce(s) \/ RefusedLate(s)
        BY <3>2 DEF Refused, RefusedAtOnce, RefusedLate
      <4>2. CASE RefusedAtOnce(s)
        BY <1>1, <1>3, <4>2, UndoKeeps
      <4>3. CASE RefusedLate(s)
        BY <1>1, <1>3, <4>3, DocumentExpects
      <4>4. QED
        BY <4>1, <4>2, <4>3
    <3>3. ASSUME NEW k \in Lines, NEW c \in Chain, RegisterReturn(k, c) PROVE Expects(l)'
      BY <1>1, <1>3, <3>3, ReturnExpects
    <3>4. QED
      BY <2>4, <3>1, <3>2, <3>3 DEF Document
  <2>5. CASE UNCHANGED vars
    BY <1>1, <1>3, <2>5, ApartStill, ApartKeeps DEF vars
  <2>6. QED
    BY <2>1, <2>2, <2>3, <2>4, <2>5 DEF Next
<1>4. QED
  BY <1>2, <1>3 DEF EInv

(* «The chain expects exactly what is owed»: once its documents are registered,  *)
(* and none of a voided sale is or may yet be, the provider would take the       *)
(* receipt that closes the line now.                                             *)
THEOREM ChainExpectsOwedHolds == Spec => []ChainExpectsOwed
<1>1. EInv => ChainExpectsOwed
  <2> SUFFICES ASSUME EInv, NEW l \in Lines, Open(l), line[l].chain # 0,
                      ChainSettled(l, line[l].chain), ~ Loose(l, line[l].chain)
               PROVE  chains[l][line[l].chain] = [st |-> "open", left |-> Owed(l)]
    BY DEF ChainExpectsOwed
  <2>1. line[l].closer = 0
    BY DEF Open
  <2>2. Clean(l)
    BY DEF Clean, Loose
  <2>3. Expects(l)
    BY <2>1, <2>2 DEF EInv, Going
  <2>4. \A s \in In(l) : sale[s].filed
    BY DEF EInv, Filings, FiledAt, In, Was, ChainSettled
  <2>5. QED
    BY <2>1, <2>3, <2>4 DEF Expects
<1>2. Spec => []EInv
  <2>1. IInv /\ IInv' /\ EInv /\ [Next]_vars => EInv'
    BY ExpectsKept
  <2>2. QED
    BY <2>1, ExpectsInit, Inductive, PTL DEF Spec
<1>3. QED
  BY <1>1, <1>2, PTL
==================================================================================
