-------------------------- MODULE AuthSessionsProofs --------------------------
(***************************************************************************)
(* Theorems about AuthSessions for every value of its constants: types,    *)
(* sessions as a ledger, locks and passwords that only the right handlers  *)
(* move, reset tokens and wrong passwords by the number of handlers; and   *)
(* about RequestAccess, whose roles and tenants are recent.                *)
(***************************************************************************)
EXTENDS MCAccounts, FiniteSetTheorems, WellFoundedInduction, TLAPS

-----------------------------------------------------------------------------
(* Pascal's triangle: the ways to choose, as Combinatorics computes them *)

\* Induction: a set with 0 that is closed under successors has every natural.
LEMMA NaturalsAreReached ==
  ASSUME NEW S, 0 \in S, \A n \in Nat : n \in S => n + 1 \in S
  PROVE  Nat \subseteq S
<1> SUFFICES ASSUME Nat \ S # {} PROVE FALSE
  OBVIOUS
<1>1. PICK x \in Nat \ S : \A y \in Nat \ S : ~(<<y, x>> \in OpToRel(<, Nat))
  BY NatLessThanWellFounded, WFMin
<1>2. x \in Nat \ {0}
  OBVIOUS
<1>3. x - 1 \in Nat /\ x - 1 < x /\ x - 1 + 1 = x
  BY <1>2
<1>4. x - 1 \in S
  BY <1>1, <1>3 DEF OpToRel
<1> QED
  BY <1>1, <1>3, <1>4

\* The factorials up to the one of n.
Products(n) ==
  {f \in [0 .. n -> Nat] : f[0] = 1 /\ \A i \in 1 .. n : f[i] = i * f[i - 1]}

LEMMA ProductsExist == \A n \in Nat : Products(n) # {}
<1> DEFINE S == {n \in Nat : Products(n) # {}}
<1>1. 0 \in S
  <2>1. [i \in 0 .. 0 |-> 1] \in Products(0)
    BY DEF Products
  <2> QED
    BY <2>1
<1>2. ASSUME NEW n \in Nat, n \in S PROVE n + 1 \in S
  <2>1. PICK f : f \in Products(n)
    BY <1>2
  <2> DEFINE g == [i \in 0 .. n + 1 |-> IF i = n + 1 THEN (n + 1) * f[n] ELSE f[i]]
  <2>2. /\ f \in [0 .. n -> Nat] /\ f[0] = 1
        /\ \A i \in 1 .. n : f[i] = i * f[i - 1]
    BY <2>1 DEF Products
  <2>3. f[n] \in Nat /\ (n + 1) * f[n] \in Nat
    BY <2>2
  <2>4. g \in [0 .. n + 1 -> Nat] /\ g[0] = 1
    BY <2>2, <2>3
  <2>5. ASSUME NEW i \in 1 .. n + 1 PROVE g[i] = i * g[i - 1]
    <3>1. CASE i = n + 1
      <4>1. g[i] = (n + 1) * f[n] /\ g[n] = f[n] /\ i - 1 = n
        BY <3>1
      <4> QED
        BY <3>1, <4>1
    <3>2. CASE i # n + 1
      <4>1. i \in 1 .. n /\ g[i] = f[i] /\ g[i - 1] = f[i - 1]
        BY <3>2
      <4> QED
        BY <2>2, <4>1
    <3> QED
      BY <3>1, <3>2
  <2>6. g \in Products(n + 1)
    BY <2>4, <2>5 DEF Products
  <2> QED
    BY <2>6
<1> HIDE DEF S
<1>3. Nat \subseteq S
  BY <1>1, <1>2, NaturalsAreReached
<1> QED
  BY <1>3 DEF S

LEMMA ProductsAgree ==
  ASSUME NEW n \in Nat, NEW f \in Products(n), NEW g \in Products(n + 1)
  PROVE  f[n] = g[n]
<1> DEFINE S == {i \in Nat : i <= n => f[i] = g[i]}
<1>1. /\ f[0] = 1 /\ \A i \in 1 .. n : f[i] = i * f[i - 1]
      /\ g[0] = 1 /\ \A i \in 1 .. n + 1 : g[i] = i * g[i - 1]
  BY DEF Products
<1>2. 0 \in S
  BY <1>1
<1>3. ASSUME NEW i \in Nat, i \in S PROVE i + 1 \in S
  <2>1. SUFFICES ASSUME i + 1 <= n PROVE f[i + 1] = g[i + 1]
    OBVIOUS
  <2>2. i + 1 \in 1 .. n /\ i + 1 \in 1 .. n + 1 /\ i + 1 - 1 = i /\ f[i] = g[i]
    BY <1>3, <2>1
  <2>3. f[i + 1] = (i + 1) * f[i] /\ g[i + 1] = (i + 1) * g[i]
    BY <1>1, <2>2
  <2> QED
    BY <2>2, <2>3
<1> HIDE DEF S
<1>4. n \in S
  BY <1>2, <1>3, NaturalsAreReached
<1> QED
  BY <1>4 DEF S

LEMMA FactorialIs ==
  /\ factorial[0] = 1
  /\ \A n \in Nat : factorial[n] \in Nat \ {0} /\ factorial[n + 1] = (n + 1) * factorial[n]
<1> DEFINE product == [n \in Nat |-> CHOOSE f : f \in Products(n)]
           G == [n \in Nat |-> product[n][n]]
<1>1. \A n \in Nat : product[n] \in Products(n)
  BY ProductsExist, Zenon
<1> HIDE DEF product
<1>2. \A n \in Nat : G[n] \in Nat
  BY <1>1 DEF Products
<1>3. G[0] = 1
  BY <1>1 DEF Products
<1>4. ASSUME NEW n \in Nat PROVE G[n + 1] = (n + 1) * G[n]
  <2>1. product[n + 1][n + 1] = (n + 1) * product[n + 1][n]
    <3>1. product[n + 1] \in Products(n + 1) /\ n + 1 \in 1 .. n + 1 /\ n + 1 - 1 = n
      BY <1>1
    <3> QED
      BY <3>1 DEF Products
  <2>2. product[n + 1][n] = product[n][n]
    BY <1>1, ProductsAgree, n + 1 \in Nat
  <2> QED
    BY <2>1, <2>2
<1>5. ASSUME NEW n \in Nat PROVE G[n] = IF n = 0 THEN 1 ELSE n * G[n - 1]
  <2>1. CASE n = 0
    BY <1>3, <2>1
  <2>2. CASE n # 0
    <3>1. n - 1 \in Nat /\ n - 1 + 1 = n
      BY <2>2
    <3>2. G[n - 1 + 1] = (n - 1 + 1) * G[n - 1]
      BY <1>4, <3>1
    <3> QED
      BY <2>2, <3>1, <3>2
  <2> QED
    BY <2>1, <2>2
<1> HIDE DEF G
<1>6. G = [n \in Nat |-> G[n]]
  BY DEF G
<1>7. G = [n \in Nat |-> IF n = 0 THEN 1 ELSE n * G[n - 1]]
  BY <1>5, <1>6, Zenon
<1>8. factorial = [n \in Nat |-> IF n = 0 THEN 1 ELSE n * factorial[n - 1]]
  BY <1>7, Zenon DEF factorial
<1> DEFINE S == {n \in Nat : factorial[n] \in Nat \ {0}}
<1>9. \A n \in Nat : factorial[n] = IF n = 0 THEN 1 ELSE n * factorial[n - 1]
  BY <1>8, Zenon
<1>10. ASSUME NEW n \in Nat PROVE factorial[n + 1] = (n + 1) * factorial[n]
  <2>1. n + 1 \in Nat /\ n + 1 # 0 /\ n + 1 - 1 = n
    OBVIOUS
  <2> QED
    BY <1>9, <2>1
<1>11. 0 \in S
  BY <1>9
<1>12. ASSUME NEW n \in Nat, n \in S PROVE n + 1 \in S
  <2>1. (n + 1) * factorial[n] \in Nat \ {0}
    BY <1>12
  <2> QED
    BY <1>10, <2>1
<1> HIDE DEF S
<1>13. Nat \subseteq S
  BY <1>11, <1>12, NaturalsAreReached
<1> QED
  BY <1>9, <1>10, <1>13 DEF S

\* Ways(m, n): the ways to choose n of m + n.
Ways(m, n) == choose(m + n, n)
LEMMA WaysDivide ==
  ASSUME NEW m \in Nat, NEW n \in Nat, NEW w \in Nat,
         w * (factorial[n] * factorial[m]) = factorial[m + n]
  PROVE  Ways(m, n) = w
<1>1. factorial[n] \in Nat \ {0} /\ factorial[m] \in Nat \ {0}
  BY FactorialIs
<1>2. \A d \in Nat \ {0} : (w * d) \div d = w
  OBVIOUS
<1>3. factorial[n] * factorial[m] \in Nat \ {0}
  BY <1>1
<1>4. factorial[m + n] \div (factorial[n] * factorial[m]) = w
  BY <1>2, <1>3
<1>5. m + n - n = m
  OBVIOUS
<1> QED
  BY <1>4, <1>5 DEF Ways, choose

\* w is a whole number of ways.
IsWays(w, m, n) == w \in Nat \ {0} /\ w * (factorial[n] * factorial[m]) = factorial[m + n]

LEMMA PascalStep ==
  ASSUME NEW m \in Nat, NEW n \in Nat, NEW v, NEW w,
         IsWays(v, m, n + 1), IsWays(w, m + 1, n)
  PROVE  IsWays(v + w, m + 1, n + 1)
<1> DEFINE F(i) == factorial[i]
<1>1. /\ F(m) \in Nat /\ F(n) \in Nat /\ F(m + n + 1) \in Nat
      /\ F(m + 1) = (m + 1) * F(m) /\ F(n + 1) = (n + 1) * F(n)
      /\ F(m + 1 + (n + 1)) = (m + 1 + (n + 1)) * F(m + n + 1)
  <2>1. m + n + 1 \in Nat /\ m + n + 1 + 1 = m + 1 + (n + 1)
    OBVIOUS
  <2> QED
    BY <2>1, FactorialIs
<1>2. /\ v \in Nat \ {0} /\ w \in Nat \ {0}
      /\ v * (F(n + 1) * F(m)) = F(m + n + 1) /\ w * (F(n) * F(m + 1)) = F(m + n + 1)
  <2>1. m + (n + 1) = m + n + 1 /\ m + 1 + n = m + n + 1
    OBVIOUS
  <2> QED
    BY <2>1 DEF IsWays
<1> DEFINE a == F(m) b == F(n) c == F(m + n + 1)
<1>3. a \in Nat /\ b \in Nat /\ c \in Nat
  BY <1>1
<1>4. v * ((n + 1) * b * a) = c /\ w * (b * ((m + 1) * a)) = c
  BY <1>1, <1>2
<1>5. F(n + 1) * F(m + 1) = ((n + 1) * b) * ((m + 1) * a)
  BY <1>1
<1>6. F(m + 1 + (n + 1)) = (m + 1) * c + (n + 1) * c
  BY <1>1
<1> HIDE DEF a, b, c
<1>7. (v + w) * (((n + 1) * b) * ((m + 1) * a)) = (m + 1) * c + (n + 1) * c
  <2>1. v * (((n + 1) * b) * ((m + 1) * a)) = (m + 1) * (v * ((n + 1) * b * a))
    BY <1>2, <1>3
  <2>2. w * (((n + 1) * b) * ((m + 1) * a)) = (n + 1) * (w * (b * ((m + 1) * a)))
    BY <1>2, <1>3
  <2> QED
    BY <1>2, <1>3, <1>4, <2>1, <2>2
<1>8. v + w \in Nat \ {0}
  BY <1>2
<1> QED
  BY <1>5, <1>6, <1>7, <1>8 DEF IsWays

LEMMA WaysExist == \A m, n \in Nat : \E w : IsWays(w, m, n)
<1> DEFINE S == {k \in Nat : \A m, n \in Nat : m + n = k => \E w : IsWays(w, m, n)}
<1>1. \A k \in Nat : IsWays(1, k, 0) /\ IsWays(1, 0, k)
  BY FactorialIs DEF IsWays
<1>2. 0 \in S
  <2>1. \A m, n \in Nat : m + n = 0 => m = 0 /\ n = 0
    OBVIOUS
  <2> QED
    BY <1>1, <2>1
<1>3. ASSUME NEW k \in Nat, k \in S PROVE k + 1 \in S
  <2>1. SUFFICES ASSUME NEW m \in Nat, NEW n \in Nat, m + n = k + 1
                 PROVE  \E w : IsWays(w, m, n)
    OBVIOUS
  <2>2. CASE m = 0 \/ n = 0
    BY <1>1, <2>2
  <2>3. CASE m # 0 /\ n # 0
    <3>1. /\ m - 1 \in Nat /\ n - 1 \in Nat /\ m - 1 + 1 = m /\ n - 1 + 1 = n
          /\ m - 1 + n = k /\ m + (n - 1) = k
      BY <2>1, <2>3
    <3>2. PICK v : IsWays(v, m - 1, n)
      BY <1>3, <3>1
    <3>3. PICK w : IsWays(w, m, n - 1)
      BY <1>3, <3>1
    <3>4. IsWays(v + w, m - 1 + 1, n - 1 + 1)
      BY PascalStep, <3>1, <3>2, <3>3, Zenon
    <3> QED
      BY <3>1, <3>4, Zenon
  <2> QED
    BY <2>2, <2>3
<1> HIDE DEF S
<1>4. Nat \subseteq S
  BY <1>2, <1>3, NaturalsAreReached
<1>5. \A m, n \in Nat : m + n \in S
  BY <1>4
<1> QED
  BY <1>5 DEF S

\* Pascal's triangle.
LEMMA Pascal ==
  /\ \A m, n \in Nat : Ways(m, n) \in Nat \ {0}
  /\ \A n \in Nat : Ways(0, n) = 1 /\ Ways(n, 0) = 1
  /\ \A m, n \in Nat : Ways(m + 1, n + 1) = Ways(m, n + 1) + Ways(m + 1, n)
<1>1. ASSUME NEW m \in Nat, NEW n \in Nat, NEW w, IsWays(w, m, n)
      PROVE  Ways(m, n) = w /\ w \in Nat \ {0}
  BY <1>1, WaysDivide DEF IsWays
<1>2. ASSUME NEW m \in Nat, NEW n \in Nat PROVE Ways(m, n) \in Nat \ {0}
  BY <1>1, WaysExist
<1>3. ASSUME NEW n \in Nat PROVE Ways(0, n) = 1 /\ Ways(n, 0) = 1
  <2>1. IsWays(1, 0, n) /\ IsWays(1, n, 0)
    BY FactorialIs DEF IsWays
  <2> QED
    BY <1>1, <2>1
<1>4. ASSUME NEW m \in Nat, NEW n \in Nat
      PROVE  Ways(m + 1, n + 1) = Ways(m, n + 1) + Ways(m + 1, n)
  <2>0. m + 1 \in Nat /\ n + 1 \in Nat
    OBVIOUS
  <2>1. PICK v : IsWays(v, m, n + 1)
    BY <2>0, WaysExist
  <2>2. PICK w : IsWays(w, m + 1, n)
    BY <2>0, WaysExist
  <2>3. IsWays(v + w, m + 1, n + 1)
    BY <2>1, <2>2, PascalStep, Zenon
  <2> QED
    BY <1>1, <2>0, <2>1, <2>2, <2>3, Zenon
<1> QED
  BY <1>2, <1>3, <1>4

-----------------------------------------------------------------------------
(* How often a counter can be taken to a level below the limit *)

\* What grows from one step to the next has grown after any number of them.
LEMMA StepsAddUp ==
  ASSUME NEW m \in Nat, NEW f \in [0 .. m -> Int], \A t \in 1 .. m : f[t - 1] <= f[t],
         NEW i \in 0 .. m, NEW j \in 0 .. m, i <= j
  PROVE  f[i] <= f[j]
<1> DEFINE S == {d \in Nat : i <= d /\ d <= m => f[i] <= f[d]}
<1>1. 0 \in S
  OBVIOUS
<1>2. ASSUME NEW d \in Nat, d \in S PROVE d + 1 \in S
  <2>1. SUFFICES ASSUME i <= d + 1, d + 1 <= m PROVE f[i] <= f[d + 1]
    OBVIOUS
  <2>2. CASE i = d + 1
    BY <2>1, <2>2
  <2>3. CASE i # d + 1
    <3>1. i <= d /\ d <= m /\ d + 1 \in 1 .. m /\ d + 1 - 1 = d /\ d \in 0 .. m
      BY <2>1, <2>3
    <3>2. f[i] <= f[d]
      BY <1>2, <3>1
    <3>3. f[d] <= f[d + 1]
      BY <3>1
    <3> QED
      BY <2>1, <3>1, <3>2, <3>3
  <2> QED
    BY <2>2, <2>3
<1> HIDE DEF S
<1>3. j \in S
  BY j \in Nat,  <1>1, <1>2, NaturalsAreReached
<1> QED
  BY <1>3 DEF S

\* What n handlers add at a level l below the limit.
Weight(n, l) == Ways(l, n) - Ways(l - 1, n)

LEMMA WeightIs == \A n, l : Weight(n, l) = Ways(l, n) - Ways(l - 1, n)
  BY DEF Weight

LEMMA WeightOf ==
  ASSUME NEW n \in Nat, NEW l \in Nat \ {0}
  PROVE  /\ Weight(0, l) = 0 /\ Weight(n + 1, l) = Ways(l, n)
         /\ Weight(n, l) \in Nat /\ Weight(n, l) <= Weight(n + 1, l)
<1>1. l - 1 \in Nat /\ l - 1 + 1 = l
  OBVIOUS
<1>2. ASSUME NEW k \in Nat PROVE Weight(k + 1, l) = Ways(l, k)
  <2>1. Ways(l, k + 1) = Ways(l - 1, k + 1) + Ways(l, k)
    BY <1>1, Pascal
  <2>2. Ways(l - 1, k + 1) \in Int /\ Ways(l, k) \in Int
    BY <1>1, k + 1 \in Nat, Pascal
  <2> QED
    BY <2>1, <2>2 DEF Weight
<1>3. Weight(0, l) = 0
  BY <1>1, Pascal DEF Weight
<1>4. Weight(n, l) \in Nat
  <2>1. CASE n = 0
    BY <1>3, <2>1
  <2>2. CASE n # 0
    <3>1. n - 1 \in Nat /\ n - 1 + 1 = n
      BY <2>2
    <3>2. Weight(n - 1 + 1, l) = Ways(l, n - 1) /\ Ways(l, n - 1) \in Nat
      BY <1>2, <3>1, Pascal
    <3> QED
      BY <3>1, <3>2, Zenon
  <2> QED
    BY <2>1, <2>2
<1>5. Ways(l, n) \in Nat /\ Ways(l - 1, n) \in Nat
  BY <1>1, Pascal
<1> QED
  BY <1>2, <1>3, <1>4, <1>5 DEF Weight

LEMMA WeightGrows ==
  ASSUME NEW m \in Nat, NEW n \in 0 .. m, NEW l \in Nat \ {0}
  PROVE  Weight(n, l) <= Weight(m, l)
<1> DEFINE f == [i \in 0 .. m |-> Weight(i, l)]
<1>1. f \in [0 .. m -> Int]
  BY WeightOf
<1>2. ASSUME NEW t \in 1 .. m PROVE f[t - 1] <= f[t]
  <2>1. t - 1 \in Nat /\ t - 1 \in 0 .. m /\ t - 1 + 1 = t /\ t \in 0 .. m
    OBVIOUS
  <2>2. Weight(t - 1, l) <= Weight(t - 1 + 1, l)
    BY <2>1, WeightOf
  <2> QED
    BY <2>1, <2>2
<1> HIDE DEF f
<1>3. f[n] <= f[m]
  <2>1. m \in 0 .. m /\ n <= m
    OBVIOUS
  <2> QED
    BY <1>1, <1>2, <2>1, StepsAddUp
<1> QED
  BY <1>3 DEF f

LEMMA WaysGrow ==
  ASSUME NEW m \in Nat, NEW l \in 0 .. m, NEW n \in Nat
  PROVE  Ways(l, n) <= Ways(m, n)
<1> DEFINE f == [i \in 0 .. m |-> Ways(i, n)]
<1>1. f \in [0 .. m -> Int]
  BY Pascal
<1>2. ASSUME NEW t \in 1 .. m PROVE f[t - 1] <= f[t]
  <2>1. t \in Nat \ {0} /\ t - 1 \in 0 .. m /\ t \in 0 .. m /\ t - 1 \in Nat
    OBVIOUS
  <2>2. Ways(t, n) - Ways(t - 1, n) \in Nat
    BY <2>1, WeightOf DEF Weight
  <2>3. Ways(t, n) \in Int /\ Ways(t - 1, n) \in Int
    BY <2>1, Pascal
  <2> QED
    BY <2>1, <2>2, <2>3
<1> HIDE DEF f
<1>3. f[l] <= f[m]
  <2>1. m \in 0 .. m /\ l <= m
    OBVIOUS
  <2> QED
    BY <1>1, <1>2, <2>1, StepsAddUp
<1> QED
  BY <1>3 DEF f

\* The highest value of the counter below the limit.
Top == MaxLoginAttempts - 1
LEMMA TopIsNatural == Top \in Nat /\ MaxLoginAttempts = Top + 1
  BY AuthAssumption DEF Top, AuthAssumption

\* The functions that grow at each level by the weight of the n[t] handlers
\* that can reach it.
Above(n) ==
  {g \in [0 .. Top -> Nat] :
     \A t \in 1 .. Top : g[t - 1] + Weight(n[t], Top - t + 1) <= g[t]}

LEMMA AboveGrows ==
  ASSUME NEW n \in [1 .. Top -> Nat], NEW g \in Above(n)
  PROVE  \A t \in 1 .. Top : g[t - 1] <= g[t]
<1> TAKE t \in 1 .. Top
<1>1. Top - t + 1 \in Nat \ {0} /\ t - 1 \in 0 .. Top /\ t \in 0 .. Top
  BY TopIsNatural
<1>2. Weight(n[t], Top - t + 1) \in Nat
  BY <1>1, WeightOf
<1>3. g[t - 1] \in Nat /\ g[t] \in Nat /\ g[t - 1] + Weight(n[t], Top - t + 1) <= g[t]
  BY <1>1 DEF Above
<1> QED
  BY <1>2, <1>3

\* A failure that takes the counter to level a, which one more handler reaches
\* then, pays for all the handlers that lose the levels above.
LEMMA FailurePays ==
  ASSUME NEW n \in [1 .. Top -> Nat], NEW m \in [1 .. Top -> Nat], NEW a \in 1 .. Top,
         \A t \in 1 .. a : n[t] <= m[t],
         n[a] + 1 <= m[a],
         \A t \in a + 1 .. Top : n[t] <= n[a],
         NEW g \in Above(m)
  PROVE  \E f \in Above(n) : f[Top] + 1 <= g[Top]
<1> DEFINE k == n[a]
           W(i) == Ways(i, k)
           f == [t \in 0 .. Top |->
                   IF t < a THEN g[t] ELSE g[a - 1] + W(Top - a + 1) - W(Top - t)]
<1>0. /\ Top \in Nat /\ a - 1 \in 0 .. Top /\ a \in 0 .. Top /\ k \in Nat
      /\ g \in [0 .. Top -> Nat]
  BY TopIsNatural DEF Above
<1>1. \A i \in Nat : W(i) \in Nat \ {0}
  BY <1>0, Pascal
<1>2. ASSUME NEW t \in a .. Top PROVE W(Top - t) <= W(Top - a + 1)
  <2>1. Top - a + 1 \in Nat /\ Top - t \in 0 .. Top - a + 1
    BY <1>0
  <2> QED
    BY <1>0, <2>1, WaysGrow
<1>3. f \in [0 .. Top -> Nat]
  <2>1. ASSUME NEW t \in 0 .. Top, ~(t < a)
        PROVE  g[a - 1] + W(Top - a + 1) - W(Top - t) \in Nat
    <3>1. t \in a .. Top /\ Top - t \in Nat /\ Top - a + 1 \in Nat
      BY <1>0, <2>1
    <3>2. W(Top - t) <= W(Top - a + 1) /\ W(Top - t) \in Nat /\ W(Top - a + 1) \in Nat
      BY <1>1, <1>2, <3>1
    <3> HIDE DEF W
    <3>3. g[a - 1] \in Nat
      BY <1>0
    <3> QED
      BY <3>2, <3>3
  <2> HIDE DEF W
  <2> QED
    BY <1>0, <2>1
<1>4. ASSUME NEW t \in 1 .. Top PROVE f[t - 1] + Weight(n[t], Top - t + 1) <= f[t]
  <2>0. /\ t - 1 \in 0 .. Top /\ t \in 0 .. Top /\ Top - t \in Nat
        /\ Top - t + 1 \in Nat \ {0} /\ n[t] \in Nat /\ m[t] \in Nat
    BY <1>0
  <2>1. g[t - 1] + Weight(m[t], Top - t + 1) <= g[t]
    BY DEF Above
  <2>2. CASE t < a
    <3>1. f[t] = g[t] /\ f[t - 1] = g[t - 1]
      BY <1>0, <2>0, <2>2
    <3>2. t \in 1 .. a /\ n[t] \in 0 .. m[t]
      BY <2>0, <2>2
    <3>3. Weight(n[t], Top - t + 1) <= Weight(m[t], Top - t + 1)
      BY <2>0, <3>2, WeightGrows
    <3>4. Weight(n[t], Top - t + 1) \in Nat /\ Weight(m[t], Top - t + 1) \in Nat
      BY <2>0, WeightOf
    <3>5. g[t - 1] \in Nat /\ g[t] \in Nat
      BY <1>0, <2>0
    <3> HIDE DEF f
    <3> QED
      BY <2>1, <3>1, <3>3, <3>4, <3>5
  <2>3. CASE t = a
    <3>1. f[t] = g[a - 1] + W(Top - a + 1) - W(Top - a) /\ f[t - 1] = g[a - 1]
      BY <1>0, <2>0, <2>3
    <3>2. Weight(n[t], Top - t + 1) = W(Top - a + 1) - W(Top - a)
      <4>1. (Top - a + 1) - 1 = Top - a
        BY <1>0
      <4>2. Weight(n[a], Top - a + 1) = W(Top - a + 1) - W((Top - a + 1) - 1)
        BY WeightIs
      <4> QED
        BY <2>3, <4>1, <4>2, Zenon
    <3>3. W(Top - a + 1) \in Nat /\ W(Top - a) \in Nat /\ g[a - 1] \in Nat
      BY <1>0, <1>1, <2>0, <2>3
    <3> HIDE DEF f, W
    <3> QED
      BY <3>1, <3>2, <3>3
  <2>4. CASE t > a
    <3>1. /\ f[t] = g[a - 1] + W(Top - a + 1) - W(Top - t)
          /\ f[t - 1] = g[a - 1] + W(Top - a + 1) - W(Top - (t - 1))
      BY <1>0, <2>0, <2>4
    <3>2. t \in a + 1 .. Top /\ n[t] \in 0 .. k /\ (Top - t + 1) - 1 = Top - t
          /\ Top - (t - 1) = Top - t + 1
      BY <1>0, <2>0, <2>4
    <3>3. Weight(n[t], Top - t + 1) <= Weight(k, Top - t + 1)
      BY <1>0, <2>0, <3>2, WeightGrows
    <3>4. Weight(k, Top - t + 1) = W(Top - t + 1) - W(Top - t)
      <4>1. Weight(k, Top - t + 1) = W(Top - t + 1) - W((Top - t + 1) - 1)
        BY WeightIs
      <4> QED
        BY <3>2, <4>1, Zenon
    <3>5. /\ W(Top - a + 1) \in Nat /\ W(Top - t) \in Nat /\ W(Top - t + 1) \in Nat
          /\ g[a - 1] \in Nat /\ Weight(n[t], Top - t + 1) \in Nat
      <4>1. Weight(n[t], Top - t + 1) \in Nat
        BY <2>0, WeightOf
      <4>2. Top - a + 1 \in Nat /\ Top - t \in Nat /\ Top - t + 1 \in Nat
        BY <1>0, <2>0
      <4>3. W(Top - a + 1) \in Nat /\ W(Top - t) \in Nat /\ W(Top - t + 1) \in Nat
        BY <1>1, <4>2
      <4> HIDE DEF W
      <4> QED
        BY <1>0, <4>1, <4>3
    <3> HIDE DEF f, W
    <3> QED
      BY <3>1, <3>2, <3>3, <3>4, <3>5
  <2> QED
    BY <1>0, <2>2, <2>3, <2>4
<1>5. f[Top] + 1 <= g[Top]
  <2>1. f[Top] = g[a - 1] + W(Top - a + 1) - 1
    <3>1. f[Top] = g[a - 1] + W(Top - a + 1) - W(Top - Top) /\ Top - Top = 0
      BY <1>0
    <3>2. W(0) = 1
      BY <1>0, Pascal
    <3> HIDE DEF f, W
    <3> QED
      BY <3>1, <3>2
  <2>2. Weight(k + 1, Top - a + 1) = W(Top - a + 1)
    BY <1>0, WeightOf, Top - a + 1 \in Nat \ {0}
  <2>3. Weight(k + 1, Top - a + 1) <= Weight(m[a], Top - a + 1)
    <3>1. m[a] \in Nat /\ k + 1 \in 0 .. m[a] /\ Top - a + 1 \in Nat \ {0}
      BY <1>0
    <3> QED
      BY <3>1, WeightGrows
  <2>4. g[a - 1] + Weight(m[a], Top - a + 1) <= g[a]
    BY DEF Above
  <2>5. g[a] <= g[Top]
    <3>1. \A t \in 1 .. Top : g[t - 1] <= g[t]
      BY AboveGrows
    <3>2. g \in [0 .. Top -> Int] /\ Top \in 0 .. Top /\ a <= Top
      BY <1>0
    <3> QED
      BY <1>0, <3>1, <3>2, StepsAddUp
  <2>6. /\ W(Top - a + 1) \in Nat /\ g[a - 1] \in Nat /\ g[a] \in Nat /\ g[Top] \in Nat
        /\ Weight(m[a], Top - a + 1) \in Nat
    <3>1. Top - a + 1 \in Nat \ {0} /\ m[a] \in Nat
      BY <1>0
    <3>2. Weight(m[a], Top - a + 1) \in Nat
      BY <3>1, WeightOf
    <3>3. W(Top - a + 1) \in Nat
      BY <1>1, <3>1
    <3>4. g[a - 1] \in Nat /\ g[a] \in Nat /\ g[Top] \in Nat
      BY <1>0
    <3> HIDE DEF W
    <3> QED
      BY <3>2, <3>3, <3>4
  <2> HIDE DEF f, W
  <2> QED
    BY <2>1, <2>2, <2>3, <2>4, <2>5, <2>6
<1> HIDE DEF f
<1>6. f \in Above(n)
  BY <1>3, <1>4 DEF Above
<1> QED
  BY <1>5, <1>6

\* With k handlers no such function need exceed the ways to choose.
LEMMA SomeAbove ==
  ASSUME NEW k \in Nat, NEW n \in [1 .. Top -> 0 .. k]
  PROVE  \E g \in Above(n) : g[Top] = Ways(Top, k) - 1
<1> DEFINE g == [t \in 0 .. Top |-> Ways(Top, k) - Ways(Top - t, k)]
<1>0. Top \in Nat
  BY TopIsNatural
<1>1. ASSUME NEW t \in 0 .. Top
      PROVE  /\ Ways(Top, k) - Ways(Top - t, k) \in Nat
             /\ Ways(Top, k) \in Nat /\ Ways(Top - t, k) \in Nat
  <2>1. Top - t \in 0 .. Top
    BY <1>0
  <2>2. Ways(Top - t, k) <= Ways(Top, k)
    BY <1>0, <2>1, WaysGrow
  <2>3. Top - t \in Nat
    BY <1>0
  <2>4. Ways(Top, k) \in Nat /\ Ways(Top - t, k) \in Nat
    BY <1>0, <2>3, Pascal
  <2> QED
    BY <2>2, <2>4
<1>2. g \in [0 .. Top -> Nat]
  BY <1>1
<1>3. ASSUME NEW t \in 1 .. Top PROVE g[t - 1] + Weight(n[t], Top - t + 1) <= g[t]
  <2>1. /\ t - 1 \in 0 .. Top /\ t \in 0 .. Top /\ Top - t + 1 \in Nat \ {0}
        /\ Top - (t - 1) = Top - t + 1 /\ (Top - t + 1) - 1 = Top - t /\ n[t] \in 0 .. k
    BY <1>0
  <2>2. /\ g[t] = Ways(Top, k) - Ways(Top - t, k)
        /\ g[t - 1] = Ways(Top, k) - Ways(Top - t + 1, k)
    BY <2>1
  <2>3. Weight(n[t], Top - t + 1) <= Weight(k, Top - t + 1)
    BY <2>1, WeightGrows
  <2>4. Weight(k, Top - t + 1) = Ways(Top - t + 1, k) - Ways(Top - t, k)
    <3>1. Weight(k, Top - t + 1) = Ways(Top - t + 1, k) - Ways((Top - t + 1) - 1, k)
      BY WeightIs
    <3> QED
      BY <2>1, <3>1, Zenon
  <2>5. /\ Ways(Top, k) \in Nat /\ Ways(Top - t, k) \in Nat /\ Ways(Top - t + 1, k) \in Nat
    BY <1>1, <2>1
  <2>6. Weight(n[t], Top - t + 1) \in Nat
    <3>1. n[t] \in Nat
      BY <2>1
    <3> QED
      BY <2>1, <3>1, WeightOf
  <2> HIDE DEF g
  <2> QED
    BY <2>2, <2>3, <2>4, <2>5, <2>6
<1>4. g[Top] = Ways(Top, k) - 1
  <2>1. Top \in 0 .. Top /\ Top - Top = 0 /\ Ways(0, k) = 1
    BY <1>0, Pascal
  <2> QED
    BY <2>1
<1> HIDE DEF g
<1>5. g \in Above(n)
  BY <1>2, <1>3 DEF Above
<1> QED
  BY <1>4, <1>5

-----------------------------------------------------------------------------
(* What the handlers know *)

\* What a running handler knows, in a state with these users, sessions, mails
\* and clock: its account exists, except before a registration writes it, and
\* what it proved when it began it still holds in its hands.
GoodCall(h, table, opened, sent, now) ==
  /\ h \in CallState
  /\ h.op # "idle" =>
       /\ h.user \in Users
       /\ ~(h.op = "register" /\ h.step = "read") => table[h.user] # NoUser
  /\ h.op \in {"login", "change"} => h.row \in UserRow
  /\ h.op = "login" => h.row.lockedUntil <= now
  /\ h.op = "change" => h.given = h.row.password
  /\ h.op = "register" /\ h.step = "read" => h.given \in Passwords
  /\ h.op = "reset" =>
       /\ h.given \in Tokens
       /\ [to |-> h.user, kind |-> "reset", token |-> h.given] \in sent
  /\ h.op = "refresh" => h.session \in SessionIds /\ opened[h.session] # NoSession
  /\ h.op = "login" => h.session = NoSession
  /\ h.step = "signed" => /\ h.op \in {"login", "refresh"} /\ h.bearer \in Jwt
                          /\ h.op = "login" => h.given = h.row.password
  /\ h.step = "written" => h.op # "idle" /\ h.given \in Tokens

CallsInv == \A c \in Calls : GoodCall(call[c], users, sessions, mailed, clock)
AuthInv == TypeOK /\ CallsInv

USE AuthAssumption, RowsAssumption

-----------------------------------------------------------------------------
(* One handler at a time *)

LEMMA IdleIsGood ==
  ASSUME NEW table, NEW opened, NEW sent, NEW now
  PROVE  GoodCall(Idle, table, opened, sent, now)
  BY DEF GoodCall, Idle, CallState, NoToken

\* Accounts, sessions and mails are never deleted, and time does not go back.
Grows ==
  /\ \A u \in Users : users[u] # NoUser => users'[u] # NoUser
  /\ \A s \in SessionIds : sessions[s] # NoSession => sessions'[s] # NoSession
  /\ mailed \subseteq mailed'
  /\ clock' \in Nat /\ clock' >= clock

\* What a handler knows it keeps knowing.
LEMMA KnowledgeKeeps ==
  ASSUME AuthInv, Grows, NEW c \in Calls
  PROVE  GoodCall(call[c], users', sessions', mailed', clock')
<1>1. GoodCall(call[c], users, sessions, mailed, clock)
  BY DEF AuthInv, CallsInv
<1>2. call[c].op = "login" => call[c].row.lockedUntil \in Int
  BY <1>1 DEF GoodCall, UserRow, Time
<1>3. clock \in Int
  BY DEF AuthInv, TypeOK
<1> QED
  BY <1>1, <1>2, <1>3 DEF GoodCall, Grows

\* Replacing one handler by a good one keeps what is said of all of them.
LEMMA OneCallChanges ==
  ASSUME AuthInv, Grows, NEW c \in Calls, NEW h, call' = [call EXCEPT ![c] = h],
         GoodCall(h, users', sessions', mailed', clock')
  PROVE  call' \in [Calls -> CallState] /\ CallsInv'
<1>1. call' \in [Calls -> CallState]
  BY DEF GoodCall, AuthInv, TypeOK
<1>2. ASSUME NEW d \in Calls
      PROVE  GoodCall(call'[d], users', sessions', mailed', clock')
  BY <1>1, KnowledgeKeeps DEF AuthInv, TypeOK
<1> QED
  BY <1>1, <1>2 DEF CallsInv

\* The end of a handler needs no more than that the tables keep their types.
LEMMA EndIsGood ==
  ASSUME AuthInv, Grows, NEW c \in Calls, End(c)
  PROVE  call' \in [Calls -> CallState] /\ CallsInv'
  BY OneCallChanges, IdleIsGood DEF End

LEMMA OthersStay ==
  ASSUME AuthInv, Grows, UNCHANGED call PROVE call' \in [Calls -> CallState] /\ CallsInv'
  BY KnowledgeKeeps DEF CallsInv, AuthInv, TypeOK

Tables == <<users, sessions, clock, issued, mailed, purges, misses, uses>>

\* A step that changes nothing but one handler.
LEMMA OnlyCallChanges ==
  ASSUME AuthInv, NEW c \in Calls, NEW h, call' = [call EXCEPT ![c] = h],
         UNCHANGED Tables, GoodCall(h, users, sessions, mailed, clock)
  PROVE  AuthInv'
<1>1. Grows
  BY DEF Grows, Tables, AuthInv, TypeOK
<1>2. call' \in [Calls -> CallState] /\ CallsInv'
  BY <1>1, OneCallChanges DEF Tables
<1> QED
  BY <1>2 DEF Tables, AuthInv, TypeOK

-----------------------------------------------------------------------------
(* Handlers begin, sign and fail *)

LEMMA BeginStep ==
  ASSUME AuthInv, NEW c \in Calls, NEW op \in Kinds, NEW u \in Users,
         NEW row \in UserRow \cup {NoUser},
         NEW given \in Passwords \cup Tokens \cup {NoToken},
         Begin(c, op, u, row, given),
         op # "register" => Exists(u),
         op \in {"login", "change"} => row \in UserRow,
         op = "login" => row.lockedUntil <= clock,
         op = "change" => given = row.password,
         op = "register" => given \in Passwords,
         op = "reset" => /\ given \in Tokens
                         /\ [to |-> u, kind |-> "reset", token |-> given] \in mailed,
         op # "refresh"
  PROVE  AuthInv'
<1> DEFINE h == [Idle EXCEPT !.op = op, !.step = "read", !.user = u,
                   !.row = row, !.given = given,
                   !.seen = IF op = "login" THEN purges[u] ELSE 0]
<1>1. GoodCall(h, users, sessions, mailed, clock)
  BY DEF GoodCall, Idle, CallState, Exists, Kinds, AuthInv, TypeOK
<1>2. call' = [call EXCEPT ![c] = h] /\ UNCHANGED Tables
  BY DEF Begin, Tables
<1> QED
  BY <1>1, <1>2, OnlyCallChanges

LEMMA BeginLoginStep ==
  ASSUME AuthInv, NEW c \in Calls, NEW u \in Users, NEW p \in Passwords,
         BeginLogin(c, u, p)
  PROVE  AuthInv'
<1>1. users[u] \in UserRow
  BY DEF BeginLogin, Standing, Exists, AuthInv, TypeOK
<1>2. users[u].lockedUntil <= clock
  BY <1>1 DEF BeginLogin, Locked, UserRow, Time, AuthInv, TypeOK
<1> QED
  BY <1>1, <1>2, BeginStep DEF BeginLogin, Standing, Kinds

LEMMA BeginChangeStep ==
  ASSUME AuthInv, NEW c \in Calls, NEW u \in Users, NEW p \in Passwords,
         BeginChange(c, u, p)
  PROVE  AuthInv'
<1>1. users[u] \in UserRow
  BY DEF BeginChange, Standing, Exists, AuthInv, TypeOK
<1> QED
  BY <1>1, BeginStep DEF BeginChange, Standing, Kinds

LEMMA BeginForgotStep ==
  ASSUME AuthInv, NEW c \in Calls, NEW u \in Users, BeginForgot(c, u)
  PROVE  AuthInv'
  BY BeginStep DEF BeginForgot, Kinds

LEMMA BeginResetStep ==
  ASSUME AuthInv, NEW c \in Calls, NEW u \in Users, NEW t \in Tokens, BeginReset(c, u, t)
  PROVE  AuthInv'
  BY BeginStep DEF BeginReset, Kinds

LEMMA BeginRegisterStep ==
  ASSUME AuthInv, NEW c \in Calls, NEW u \in Users, NEW p \in Passwords,
         BeginRegister(c, u, p)
  PROVE  AuthInv'
  BY BeginStep DEF BeginRegister, Kinds

LEMMA BeginResendStep ==
  ASSUME AuthInv, NEW c \in Calls, NEW u \in Users, BeginResend(c, u)
  PROVE  AuthInv'
  BY BeginStep DEF BeginResend, Kinds

LEMMA BeginVerifyStep ==
  ASSUME AuthInv, NEW c \in Calls, NEW u \in Users, NEW t \in Tokens, BeginVerify(c, u, t)
  PROVE  AuthInv'
  BY BeginStep DEF BeginVerify, Kinds

LEMMA BeginRefreshStep ==
  ASSUME AuthInv, NEW c \in Calls, NEW token \in Jwt, BeginRefresh(c, token)
  PROVE  AuthInv'
<1>1. PICK s \in SessionIds :
        /\ Live(s) /\ Standing(sessions[s].user)
        /\ call' = [call EXCEPT ![c] = [Idle EXCEPT !.op = "refresh",
                      !.step = "read", !.user = sessions[s].user, !.session = s,
                      !.seen = purges[sessions[s].user]]]
        /\ UNCHANGED Tables
  BY DEF BeginRefresh, Tables
<1> DEFINE h == [Idle EXCEPT !.op = "refresh", !.step = "read",
                   !.user = sessions[s].user, !.session = s,
                   !.seen = purges[sessions[s].user]]
<1>2. sessions[s] \in SessionRow
  BY <1>1 DEF Live, AuthInv, TypeOK
<1>3. GoodCall(h, users, sessions, mailed, clock)
  BY <1>1, <1>2 DEF GoodCall, Idle, CallState, Standing, Exists, Live, Kinds, SessionRow,
     NoToken, AuthInv, TypeOK
<1> QED
  BY <1>1, <1>3, OnlyCallChanges

LEMMA GenerateTokensStep ==
  ASSUME AuthInv, NEW c \in Calls, GenerateTokens(c)
  PROVE  AuthInv'
<1> DEFINE h == [call[c] EXCEPT !.step = "signed",
                   !.bearer = [sub |-> call[c].user, iat |-> clock]]
<1>1. GoodCall(call[c], users, sessions, mailed, clock)
  BY DEF AuthInv, CallsInv
<1>2. call[c].op \in {"login", "refresh"} /\ call[c].user \in Users /\ call[c] \in CallState
  BY <1>1 DEF GenerateTokens, At, GoodCall
<1>3. [sub |-> call[c].user, iat |-> clock] \in Jwt
  BY <1>2 DEF Jwt, AuthInv, TypeOK
<1>4. GoodCall(h, users, sessions, mailed, clock)
  BY <1>1, <1>2, <1>3 DEF GoodCall, CallState, GenerateTokens, At
<1>5. call' = [call EXCEPT ![c] = h] /\ UNCHANGED Tables
  BY <1>2 DEF GenerateTokens, Tables, AuthInv, TypeOK
<1> QED
  BY <1>4, <1>5, OnlyCallChanges

LEMMA FailureStep ==
  ASSUME AuthInv, NEW c \in Calls, CallFails(c) \/ RefuseUser(c)
  PROVE  AuthInv'
  BY OnlyCallChanges, IdleIsGood DEF CallFails, RefuseUser, End, Tables

-----------------------------------------------------------------------------
(* Rows of users and sessions *)

\* Writing one user's row.
LEMMA OneRowChanges ==
  ASSUME AuthInv, NEW u \in Users, NEW row \in UserRow,
         users' = [users EXCEPT ![u] = row]
  PROVE  /\ users' \in [Users -> UserRow \cup {NoUser}]
         /\ \A w \in Users : users[w] # NoUser => users'[w] # NoUser
  BY DEF AuthInv, TypeOK

LEMMA RowsGrow ==
  ASSUME AuthInv, UNCHANGED <<sessions, clock, mailed>>,
         NEW u \in Users, NEW row \in UserRow, users' = [users EXCEPT ![u] = row]
  PROVE  Grows
<1>1. \A w \in Users : users[w] # NoUser => users'[w] # NoUser
  BY OneRowChanges
<1> QED
  BY <1>1 DEF Grows, AuthInv, TypeOK

\* Revoking some sessions.
LEMMA RevokedType ==
  ASSUME AuthInv, NEW revoked \in SUBSET SessionIds, sessions' = Revoked(revoked),
         \A s \in revoked : sessions[s] # NoSession
  PROVE  /\ sessions' \in [SessionIds -> SessionRow \cup {NoSession}]
         /\ \A s \in SessionIds : sessions[s] # NoSession => sessions'[s] # NoSession
<1>1. \A s \in SessionIds : sessions[s] # NoSession => sessions[s] \in SessionRow
  BY DEF AuthInv, TypeOK
<1>2. \A row \in SessionRow : [row EXCEPT !.isRevoked = TRUE] \in SessionRow
  BY DEF SessionRow
<1>3. \A s \in SessionIds : sessions'[s] \in SessionRow \cup {NoSession}
  BY <1>1, <1>2 DEF Revoked, AuthInv, TypeOK
<1>4. ASSUME NEW s \in SessionIds, sessions[s] # NoSession PROVE sessions'[s] # NoSession
  BY <1>1, <1>2, <1>4 DEF Revoked
<1> QED
  BY <1>3, <1>4 DEF Revoked

LEMMA SessionsOfType ==
  ASSUME NEW u
  PROVE  /\ SessionsOf(u) \in SUBSET SessionIds
         /\ \A s \in SessionsOf(u) : sessions[s] # NoSession /\ sessions[s].user = u
  BY DEF SessionsOf

LEMMA RevokeAllType ==
  ASSUME AuthInv, NEW u \in Users, RevokeAll(u)
  PROVE  /\ sessions' \in [SessionIds -> SessionRow \cup {NoSession}]
         /\ purges' \in [Users -> Nat]
         /\ \A s \in SessionIds : sessions[s] # NoSession => sessions'[s] # NoSession
<1>1. sessions' = Revoked(SessionsOf(u))
  BY DEF RevokeAll
<1>2. purges' \in [Users -> Nat]
  BY DEF RevokeAll, AuthInv, TypeOK
<1> QED
  BY <1>1, <1>2, SessionsOfType, RevokedType

LEMMA SessionsGrow ==
  ASSUME AuthInv, UNCHANGED <<users, clock, mailed>>,
         \A s \in SessionIds : sessions[s] # NoSession => sessions'[s] # NoSession
  PROVE  Grows
  BY DEF Grows, AuthInv, TypeOK

\* The row of a new session, from what its handler knows.
LEMMA NewSessionType ==
  ASSUME AuthInv, NEW c \in Calls, NEW s \in SessionIds,
         At(c, "login", "signed") \/ At(c, "refresh", "signed")
  PROVE  NewSession(c, s) \in SessionRow
<1> DEFINE h == call[c]
<1>1. GoodCall(h, users, sessions, mailed, clock) /\ h \in CallState
  BY DEF AuthInv, CallsInv, GoodCall
<1>2. h.user \in Users /\ h.bearer \in Jwt /\ h.session \in SessionIds \cup {NoSession}
  BY <1>1 DEF GoodCall, At, CallState
<1>3. clock + SessionExpiry \in Time
  BY DEF Time, AuthInv, TypeOK
<1>4. h.seen \in Nat /\ purges[h.user] \in Nat
  BY <1>1, <1>2 DEF CallState, AuthInv, TypeOK
<1>5. h.op # "login" => sessions[h.session] \in SessionRow
  BY <1>1 DEF GoodCall, At, AuthInv, TypeOK
<1>6. /\ (IF h.op = "login" THEN h.seen ELSE sessions[h.session].proved) \in Nat
      /\ (IF h.seen < purges[h.user] THEN s
          ELSE IF h.op = "login" THEN NoSession ELSE sessions[h.session].root)
           \in SessionIds \cup {NoSession}
  BY <1>4, <1>5 DEF SessionRow
<1> QED
  BY <1>2, <1>3, <1>6 DEF NewSession, SessionRow

\* Opening a session, with at most the one that it replaces revoked.
LEMMA OpenSessionType ==
  ASSUME AuthInv, NEW c \in Calls, NEW revoked \in SUBSET SessionIds,
         OpenSession(c, revoked), At(c, "login", "signed") \/ At(c, "refresh", "signed"),
         \A s \in revoked : sessions[s] # NoSession
  PROVE  /\ sessions' \in [SessionIds -> SessionRow \cup {NoSession}]
         /\ \A s \in SessionIds : sessions[s] # NoSession => sessions'[s] # NoSession
<1>1. PICK s \in SessionIds :
        /\ sessions[s] = NoSession
        /\ sessions' = [i \in SessionIds |->
             IF i = s THEN NewSession(c, s)
             ELSE IF i \in revoked THEN [sessions[i] EXCEPT !.isRevoked = TRUE]
             ELSE sessions[i]]
  BY DEF OpenSession
<1>3. NewSession(c, s) \in SessionRow
  BY NewSessionType
<1>4. \A i \in SessionIds : sessions[i] # NoSession => sessions[i] \in SessionRow
  BY DEF AuthInv, TypeOK
<1>5. \A r \in SessionRow : [r EXCEPT !.isRevoked = TRUE] \in SessionRow
  BY DEF SessionRow
<1>6. ASSUME NEW i \in SessionIds
      PROVE  /\ sessions'[i] \in SessionRow \cup {NoSession}
             /\ sessions[i] # NoSession => sessions'[i] # NoSession
  <2>1. CASE i = s
    BY <1>1, <1>3, <2>1
  <2>2. CASE i # s /\ i \in revoked
    <3>1. sessions[i] \in SessionRow
      BY <1>4, <2>2
    <3>2. sessions'[i] = [sessions[i] EXCEPT !.isRevoked = TRUE]
      BY <1>1, <2>2
    <3>3. sessions'[i] \in SessionRow
      BY <1>5, <3>1, <3>2
    <3> QED
      BY <3>3
  <2>3. CASE i # s /\ i \notin revoked
    <3>1. sessions'[i] = sessions[i]
      BY <1>1, <2>3
    <3> QED
      BY <1>4, <3>1
  <2> QED
    BY <2>1, <2>2, <2>3
<1>7. sessions' = [i \in SessionIds |-> sessions'[i]]
  BY <1>1
<1> QED
  BY <1>6, <1>7

-----------------------------------------------------------------------------
(* Logins and refreshes *)

LEMMA CallIsGood ==
  ASSUME AuthInv, NEW c \in Calls, call[c].op # "idle"
  PROVE  /\ GoodCall(call[c], users, sessions, mailed, clock)
         /\ call[c].user \in Users
         /\ ~(call[c].op = "register" /\ call[c].step = "read")
              => users[call[c].user] \in UserRow
  BY DEF AuthInv, TypeOK, CallsInv, GoodCall

LEMMA FailLoginStep ==
  ASSUME AuthInv, NEW c \in Calls, FailLogin(c)
  PROVE  AuthInv'
<1>1. PICK u \in Users : u = call[c].user
  BY CallIsGood DEF FailLogin, At
<1>2. users[u] \in UserRow /\ call[c].row \in UserRow
  BY <1>1, CallIsGood DEF FailLogin, At, GoodCall
<1>3. Attempts(c) \in Nat /\ clock + LockDuration \in Time
  BY <1>2 DEF Attempts, UserRow, Time, AuthInv, TypeOK
<1> DEFINE lock == IF Attempts(c) >= MaxLoginAttempts
                   THEN clock + LockDuration ELSE users[u].lockedUntil
           row == [users[u] EXCEPT !.loginAttempts = Attempts(c), !.lockedUntil = lock]
<1>4. row \in UserRow
  BY <1>2, <1>3 DEF UserRow
<1>5. users' = [users EXCEPT ![u] = row]
  BY <1>1 DEF FailLogin, AuthInv, TypeOK
<1>6. Grows
  <2> HIDE DEF row
  <2> QED
    BY <1>4, <1>5, RowsGrow DEF FailLogin
<1>7. misses' \in [Users -> Nat]
  BY <1>1 DEF FailLogin, AuthInv, TypeOK
<1> QED
  BY <1>4, <1>5, <1>6, <1>7, OneRowChanges, EndIsGood DEF FailLogin, AuthInv, TypeOK

LEMMA CommitLoginStep ==
  ASSUME AuthInv, NEW c \in Calls, CommitLogin(c)
  PROVE  AuthInv'
<1>1. PICK u \in Users : u = call[c].user
  BY CallIsGood DEF CommitLogin, At
<1>2. users[u] \in UserRow /\ call[c].bearer \in Jwt
  BY <1>1, CallIsGood DEF CommitLogin, At, GoodCall
<1> DEFINE row == [users[u] EXCEPT !.loginAttempts = 0, !.lockedUntil = NoTime]
<1>3. row \in UserRow
  <2>1. NoTime \in Time
    BY DEF NoTime, Time
  <2> QED
    BY <1>2, <2>1 DEF UserRow
<1>4. users' = [users EXCEPT ![u] = row]
  BY <1>1 DEF CommitLogin, AuthInv, TypeOK
<1>5. /\ sessions' \in [SessionIds -> SessionRow \cup {NoSession}]
      /\ \A s \in SessionIds : sessions[s] # NoSession => sessions'[s] # NoSession
  BY <1>1, <1>2, OpenSessionType DEF CommitLogin
<1>6. Grows
  BY <1>3, <1>4, <1>5, OneRowChanges DEF Grows, CommitLogin, AuthInv, TypeOK
<1>7. misses' \in [Users -> Nat]
  BY <1>1 DEF CommitLogin, AuthInv, TypeOK
<1> QED
  BY <1>3, <1>4, <1>5, <1>6, <1>7, OneRowChanges, EndIsGood
  DEF CommitLogin, AuthInv, TypeOK

LEMMA CommitRefreshStep ==
  ASSUME AuthInv, NEW c \in Calls, CommitRefresh(c)
  PROVE  AuthInv'
<1>1. /\ call[c].user \in Users /\ call[c].bearer \in Jwt
      /\ {call[c].session} \in SUBSET SessionIds
      /\ \A s \in {call[c].session} : sessions[s] # NoSession
  BY CallIsGood DEF CommitRefresh, At, GoodCall
<1>2. /\ sessions' \in [SessionIds -> SessionRow \cup {NoSession}]
      /\ \A s \in SessionIds : sessions[s] # NoSession => sessions'[s] # NoSession
  BY <1>1, OpenSessionType DEF CommitRefresh
<1>3. Grows
  BY <1>2, SessionsGrow DEF CommitRefresh
<1> QED
  BY <1>2, <1>3, EndIsGood DEF CommitRefresh, AuthInv, TypeOK

LEMMA CloseStep ==
  ASSUME AuthInv, NEW u \in Users, Close(u)
  PROVE  AuthInv'
<1>1. CASE LogoutEverywhere(u)
  <2>1. /\ sessions' \in [SessionIds -> SessionRow \cup {NoSession}]
        /\ purges' \in [Users -> Nat]
        /\ \A s \in SessionIds : sessions[s] # NoSession => sessions'[s] # NoSession
    BY <1>1, RevokeAllType DEF LogoutEverywhere
  <2>2. Grows
    BY <1>1, <2>1, SessionsGrow DEF LogoutEverywhere
  <2> QED
    BY <1>1, <2>1, <2>2, OthersStay DEF LogoutEverywhere, AuthInv, TypeOK
<1>2. ASSUME NEW t \in Jwt, Logout(u, t) PROVE AuthInv'
  <2>1. PICK gone \in SUBSET SessionIds :
          gone = {s \in SessionsOf(u) : sessions[s].token = t}
    BY SessionsOfType
  <2>2. /\ sessions' \in [SessionIds -> SessionRow \cup {NoSession}]
        /\ \A s \in SessionIds : sessions[s] # NoSession => sessions'[s] # NoSession
    BY <1>2, <2>1, SessionsOfType, RevokedType DEF Logout
  <2>3. Grows
    BY <1>2, <2>2, SessionsGrow DEF Logout
  <2> QED
    BY <1>2, <2>2, <2>3, OthersStay DEF Logout, AuthInv, TypeOK
<1>3. ASSUME NEW s \in SessionIds, RevokeSession(u, s) PROVE AuthInv'
  <2>1. PICK gone \in SUBSET SessionIds : gone = {s} \cap SessionsOf(u)
    BY SessionsOfType
  <2>2. /\ sessions' \in [SessionIds -> SessionRow \cup {NoSession}]
        /\ \A i \in SessionIds : sessions[i] # NoSession => sessions'[i] # NoSession
    BY <1>3, <2>1, SessionsOfType, RevokedType DEF RevokeSession
  <2>3. Grows
    BY <1>3, <2>2, SessionsGrow DEF RevokeSession
  <2> QED
    BY <1>3, <2>2, <2>3, OthersStay DEF RevokeSession, AuthInv, TypeOK
<1> QED
  BY <1>1, <1>2, <1>3 DEF Close

-----------------------------------------------------------------------------
(* Passwords, tokens and mails *)

LEMMA CommitChangeStep ==
  ASSUME AuthInv, NEW c \in Calls, NEW chosen \in Passwords, CommitChange(c, chosen)
  PROVE  AuthInv'
<1>1. PICK u \in Users : u = call[c].user
  BY CallIsGood DEF CommitChange, At
<1>2. users[u] \in UserRow
  BY <1>1, CallIsGood DEF CommitChange, At
<1> DEFINE row == [users[u] EXCEPT !.password = chosen]
<1>3. row \in UserRow
  BY <1>2 DEF UserRow
<1>4. users' = [users EXCEPT ![u] = row]
  BY <1>1 DEF CommitChange, AuthInv, TypeOK
<1>5. /\ sessions' \in [SessionIds -> SessionRow \cup {NoSession}]
      /\ purges' \in [Users -> Nat]
      /\ \A s \in SessionIds : sessions[s] # NoSession => sessions'[s] # NoSession
  BY <1>1, RevokeAllType DEF CommitChange
<1>6. Grows
  BY <1>3, <1>4, <1>5, OneRowChanges DEF Grows, CommitChange, AuthInv, TypeOK
<1> QED
  BY <1>3, <1>4, <1>5, <1>6, OneRowChanges, EndIsGood DEF CommitChange, AuthInv, TypeOK

LEMMA CommitResetStep ==
  ASSUME AuthInv, NEW c \in Calls, NEW chosen \in Passwords, CommitReset(c, chosen)
  PROVE  AuthInv'
<1>1. PICK u \in Users : u = call[c].user
  BY CallIsGood DEF CommitReset, At
<1>2. users[u] \in UserRow /\ call[c].given \in Tokens
  BY <1>1, CallIsGood DEF CommitReset, At, GoodCall
<1> DEFINE row == [users[u] EXCEPT !.password = chosen, !.resetToken = NoToken,
                                   !.resetExpires = NoTime]
<1>3. row \in UserRow
  <2>1. NoTime \in Time
    BY DEF NoTime, Time
  <2> QED
    BY <1>2, <2>1 DEF UserRow
<1>4. users' = [users EXCEPT ![u] = row]
  BY <1>1 DEF CommitReset, AuthInv, TypeOK
<1>5. /\ sessions' \in [SessionIds -> SessionRow \cup {NoSession}]
      /\ purges' \in [Users -> Nat]
      /\ \A s \in SessionIds : sessions[s] # NoSession => sessions'[s] # NoSession
  BY <1>1, RevokeAllType DEF CommitReset
<1>6. Grows
  BY <1>3, <1>4, <1>5, OneRowChanges DEF Grows, CommitReset, AuthInv, TypeOK
<1>7. uses' \in [Tokens -> Nat]
  BY <1>2 DEF CommitReset, AuthInv, TypeOK
<1> QED
  BY <1>3, <1>4, <1>5, <1>6, <1>7, OneRowChanges, EndIsGood
  DEF CommitReset, AuthInv, TypeOK

LEMMA WriteTokenStep ==
  ASSUME AuthInv, NEW c \in Calls, NEW row \in UserRow, WriteToken(c, row),
         call[c].op \in {"register", "forgot", "resend"}, call[c].step = "read"
  PROVE  AuthInv'
<1>1. PICK u \in Users : u = call[c].user
  BY CallIsGood
<1>2. Fresh \in Tokens /\ issued' \in 0 .. MaxTokens
  BY DEF WriteToken, Fresh, Tokens, AuthInv, TypeOK
<1>3. users' = [users EXCEPT ![u] = row]
  BY <1>1 DEF WriteToken
<1>4. users'[u] # NoUser
  BY <1>3 DEF AuthInv, TypeOK
<1>5. Grows
  BY <1>3, OneRowChanges DEF Grows, WriteToken, AuthInv, TypeOK
<1> DEFINE h == [call[c] EXCEPT !.step = "written", !.given = Fresh]
<1>6. call' = [call EXCEPT ![c] = h]
  BY DEF WriteToken, AuthInv, TypeOK
<1>7. GoodCall(h, users', sessions', mailed', clock')
  <2>1. call[c] \in CallState
    BY DEF AuthInv, TypeOK
  <2> QED
    BY <1>1, <1>2, <1>4, <2>1 DEF GoodCall, CallState
<1>8. call' \in [Calls -> CallState] /\ CallsInv'
  <2> HIDE DEF h
  <2> QED
    BY <1>5, <1>6, <1>7, OneCallChanges
<1> QED
  BY <1>2, <1>3, <1>8, OneRowChanges DEF WriteToken, AuthInv, TypeOK

LEMMA TokenSteps ==
  ASSUME AuthInv, NEW c \in Calls, CommitForgot(c) \/ CommitResend(c) \/ CreateUser(c)
  PROVE  AuthInv'
<1>0. Fresh \in Tokens \/ issued >= MaxTokens
  BY DEF Fresh, Tokens, AuthInv, TypeOK
<1>1. CASE CommitForgot(c)
  <2>1. users[call[c].user] \in UserRow
    BY <1>1, CallIsGood DEF CommitForgot, At
  <2>2. clock + ResetExpiry \in Time /\ Fresh \in Tokens
    BY <1>0, <1>1 DEF CommitForgot, WriteToken, Time, AuthInv, TypeOK
  <2>3. [users[call[c].user] EXCEPT !.resetToken = Fresh,
           !.resetExpires = clock + ResetExpiry] \in UserRow
    BY <2>1, <2>2 DEF UserRow
  <2> QED
    BY <1>1, <2>3, WriteTokenStep DEF CommitForgot, At
<1>2. CASE CommitResend(c)
  <2>1. users[call[c].user] \in UserRow
    BY <1>2, CallIsGood DEF CommitResend, At
  <2>2. Fresh \in Tokens
    BY <1>0, <1>2 DEF CommitResend, WriteToken, AuthInv, TypeOK
  <2>3. [users[call[c].user] EXCEPT !.verifyToken = Fresh] \in UserRow
    BY <2>1, <2>2 DEF UserRow
  <2> QED
    BY <1>2, <2>3, WriteTokenStep DEF CommitResend, At
<1>3. CASE CreateUser(c)
  <2>1. call[c].given \in Passwords
    BY <1>3, CallIsGood DEF CreateUser, At, GoodCall
  <2>2. Fresh \in Tokens /\ NoTime \in Time
    BY <1>0, <1>3 DEF CreateUser, WriteToken, AuthInv, TypeOK, NoTime, Time
  <2>3. NewUser(call[c].given) \in UserRow
    BY <2>1, <2>2 DEF NewUser, UserRow
  <2> QED
    BY <1>3, <2>3, WriteTokenStep DEF CreateUser, At
<1> QED
  BY <1>1, <1>2, <1>3

LEMMA SendMailStep ==
  ASSUME AuthInv, NEW c \in Calls, SendMail(c)
  PROVE  AuthInv'
<1>1. GoodCall(call[c], users, sessions, mailed, clock)
  BY DEF AuthInv, CallsInv
<1>2. call[c].user \in Users /\ call[c].given \in Tokens
  BY <1>1 DEF SendMail, GoodCall
<1>3. mailed' \subseteq Mail
  BY <1>2 DEF SendMail, MailKind, Mail, AuthInv, TypeOK
<1>4. Grows
  BY DEF Grows, SendMail, AuthInv, TypeOK
<1> QED
  BY <1>3, <1>4, EndIsGood DEF SendMail, AuthInv, TypeOK

LEMMA CommitVerifyStep ==
  ASSUME AuthInv, NEW c \in Calls, CommitVerify(c)
  PROVE  AuthInv'
<1>1. PICK u \in Users : u = call[c].user
  BY CallIsGood DEF CommitVerify, At
<1>2. users[u] \in UserRow
  BY <1>1, CallIsGood DEF CommitVerify, At
<1> DEFINE row == [users[u] EXCEPT !.verified = TRUE, !.verifyToken = NoToken]
<1>3. row \in UserRow
  BY <1>2 DEF UserRow
<1>4. users' = [users EXCEPT ![u] = row]
  BY <1>1 DEF CommitVerify, AuthInv, TypeOK
<1>5. Grows
  <2> HIDE DEF row
  <2> QED
    BY <1>3, <1>4, RowsGrow DEF CommitVerify
<1> QED
  BY <1>3, <1>4, <1>5, OneRowChanges, EndIsGood DEF CommitVerify, AuthInv, TypeOK

LEMMA SetStandingStep ==
  ASSUME AuthInv, NEW u \in Users, NEW active \in BOOLEAN, NEW deleted \in BOOLEAN,
         SetStanding(u, active, deleted)
  PROVE  AuthInv'
<1>1. users[u] \in UserRow
  BY DEF SetStanding, Exists, AuthInv, TypeOK
<1> DEFINE row == [users[u] EXCEPT !.isActive = active, !.deleted = deleted]
<1>2. row \in UserRow
  BY <1>1 DEF UserRow
<1>3. users' = [users EXCEPT ![u] = row]
  BY DEF SetStanding, AuthInv, TypeOK
<1>4. Grows
  <2> HIDE DEF row
  <2> QED
    BY <1>2, <1>3, RowsGrow DEF SetStanding
<1> QED
  BY <1>2, <1>3, <1>4, OneRowChanges, OthersStay DEF SetStanding, AuthInv, TypeOK

LEMMA TickStep == ASSUME AuthInv, Tick PROVE AuthInv'
<1>0. clock \in Nat
  BY DEF AuthInv, TypeOK
<1>1. Grows
  BY <1>0 DEF Grows, Tick
<1> QED
  BY <1>1, OthersStay DEF Tick, AuthInv, TypeOK

-----------------------------------------------------------------------------
(* The invariant *)

LEMMA InitIsGood == Init => AuthInv
<1> SUFFICES ASSUME Init PROVE AuthInv
  OBVIOUS
<1>1. Idle \in CallState
  BY DEF Idle, CallState, NoToken
<1>2. TypeOK
  BY <1>1 DEF Init, TypeOK
<1>3. CallsInv
  BY IdleIsGood DEF Init, CallsInv
<1> QED
  BY <1>2, <1>3 DEF AuthInv

LEMMA StepIsGood == AuthInv /\ [Next]_vars => AuthInv'
<1> SUFFICES ASSUME AuthInv, [Next]_vars PROVE AuthInv'
  OBVIOUS
<1>1. ASSUME NEW c \in Calls, Authenticate(c) PROVE AuthInv'
  BY <1>1, BeginLoginStep, BeginRefreshStep, FailLoginStep, GenerateTokensStep,
     CommitLoginStep, CommitRefreshStep DEF Authenticate
<1>2. ASSUME NEW c \in Calls, ChangeCredentials(c) PROVE AuthInv'
  BY <1>2, BeginChangeStep, BeginForgotStep, BeginResetStep, CommitChangeStep,
     CommitResetStep, TokenSteps, SendMailStep DEF ChangeCredentials
<1>3. ASSUME NEW c \in Calls, Enrol(c) PROVE AuthInv'
  BY <1>3, BeginRegisterStep, BeginResendStep, BeginVerifyStep, TokenSteps,
     FailureStep, CommitVerifyStep DEF Enrol
<1>4. CASE UNCHANGED vars
  <2>1. Grows
    BY <1>4 DEF Grows, vars, AuthInv, TypeOK
  <2> QED
    BY <1>4, <2>1, OthersStay DEF vars, AuthInv, TypeOK
<1> QED
  BY <1>1, <1>2, <1>3, <1>4, FailureStep, CloseStep, SetStandingStep, TickStep DEF Next

LEMMA AuthInvHolds == Spec => []AuthInv
  BY InitIsGood, StepIsGood, PTL DEF Spec

\* users, sessions and the handlers of AuthService keep their types, whatever
\* overlaps and fails.
THEOREM AccountsTypeCorrect == Spec => []TypeOK
  BY AuthInvHolds, PTL DEF AuthInv

-----------------------------------------------------------------------------
(* Sessions as a ledger *)

TheLedger == [s \in SessionIds |-> LedgerEntry(s)]
TheGrants == [c \in Calls |-> CallGrant(call[c])]
LedgerStep == [Ledger!Next]_<<TheLedger, purges, TheGrants>>

LEMMA ClosedEntry ==
  ASSUME NEW user, NEW proved, NEW root, NEW from, NEW state
  PROVE  [[user |-> user, proved |-> proved, root |-> root, from |-> from,
           state |-> state] EXCEPT !.state = "closed"]
           = [user |-> user, proved |-> proved, root |-> root, from |-> from,
              state |-> "closed"]
<1> DEFINE entry == [user |-> user, proved |-> proved, root |-> root, from |-> from,
                     state |-> state]
           closed == [user |-> user, proved |-> proved, root |-> root, from |-> from,
                      state |-> "closed"]
           Fields == {"user", "proved", "root", "from", "state"}
<1>1. DOMAIN entry = Fields /\ closed = [f \in Fields |-> closed[f]]
  OBVIOUS
<1>2. [entry EXCEPT !.state = "closed"]
        = [f \in Fields |-> IF f = "state" THEN "closed" ELSE entry[f]]
  BY <1>1
<1>3. /\ closed["user"] = entry["user"] /\ closed["proved"] = entry["proved"]
      /\ closed["root"] = entry["root"] /\ closed["from"] = entry["from"]
  OBVIOUS
<1>4. closed["state"] = "closed"
  OBVIOUS
<1>5. \A f \in Fields : closed[f] = IF f = "state" THEN "closed" ELSE entry[f]
  <2> HIDE DEF entry, closed
  <2> QED
    BY <1>3, <1>4
<1> QED
  BY <1>1, <1>2, <1>5

LEMMA OpenedAreRows == Ledger!Opened = {s \in SessionIds : sessions[s] # NoSession}
<1>1. \A s \in SessionIds : LedgerEntry(s).state # "unopened" <=> sessions[s] # NoSession
  BY DEF LedgerEntry
<1> QED
  BY <1>1 DEF Ledger!Opened

\* A revoked row is a closed session.
LEMMA RevokedEntry ==
  ASSUME AuthInv, NEW i \in SessionIds, sessions[i] # NoSession,
         sessions'[i] = [sessions[i] EXCEPT !.isRevoked = TRUE]
  PROVE  LedgerEntry(i)' = [LedgerEntry(i) EXCEPT !.state = "closed"]
<1> DEFINE row == sessions[i]
<1>1. row \in SessionRow
  BY DEF AuthInv, TypeOK
<1>2. sessions'[i] \in SessionRow
  BY <1>1 DEF SessionRow
<1>3. sessions'[i] # NoSession
  BY <1>2
<1>4. /\ sessions'[i].user = row.user /\ sessions'[i].proved = row.proved
      /\ sessions'[i].root = row.root /\ sessions'[i].replaces = row.replaces
      /\ sessions'[i].isRevoked
  BY <1>1 DEF SessionRow
<1>5. LedgerEntry(i)' = [user |-> row.user, proved |-> row.proved, root |-> row.root,
                         from |-> row.replaces, state |-> "closed"]
  BY <1>3, <1>4 DEF LedgerEntry
<1>6. LedgerEntry(i) = [user |-> row.user, proved |-> row.proved, root |-> row.root,
                        from |-> row.replaces,
                        state |-> IF row.isRevoked THEN "closed" ELSE "open"]
  BY DEF LedgerEntry
<1> QED
  BY <1>5, <1>6, ClosedEntry

LEMMA RevokedCloses ==
  ASSUME AuthInv, NEW S \in SUBSET SessionIds, sessions' = Revoked(S),
         \A s \in S : sessions[s] # NoSession
  PROVE  Ledger!CloseSome(S) /\ S \in SUBSET Ledger!Opened
<1>1. ASSUME NEW i \in SessionIds
      PROVE  LedgerEntry(i)' = IF i \in S THEN [LedgerEntry(i) EXCEPT !.state = "closed"]
                               ELSE LedgerEntry(i)
  <2>1. CASE i \in S
    BY <2>1, RevokedEntry DEF Revoked
  <2>2. CASE i \notin S
    BY <2>2 DEF Revoked, LedgerEntry
  <2> QED
    BY <2>1, <2>2
<1>2. Ledger!CloseSome(S)
  BY <1>1 DEF Ledger!CloseSome, Ledger!Closed
<1> QED
  BY <1>2, OpenedAreRows

LEMMA RevokedIsClose ==
  ASSUME AuthInv, NEW S \in SUBSET SessionIds, sessions' = Revoked(S),
         \A s \in S : sessions[s] # NoSession, UNCHANGED <<purges, call>>
  PROVE  LedgerStep
<1>1. TheGrants' = TheGrants
  BY DEF TheGrants
<1>2. Ledger!Close
  BY <1>1, RevokedCloses DEF Ledger!Close, TheGrants
<1> QED
  BY <1>2 DEF LedgerStep, Ledger!Next

LEMMA RevokeAllClosesAll ==
  ASSUME AuthInv, NEW u \in Users, RevokeAll(u), UNCHANGED TheGrants
  PROVE  LedgerStep
<1>1. sessions' = Revoked(SessionsOf(u)) /\ purges' = [purges EXCEPT ![u] = @ + 1]
  BY DEF RevokeAll
<1>2. \A s \in SessionIds : sessions[s] # NoSession
        => (LedgerEntry(s).user = u <=> sessions[s].user = u)
  BY DEF LedgerEntry
<1>3. SessionsOf(u) = {s \in Ledger!Opened : TheLedger[s].user = u}
  BY <1>2, OpenedAreRows DEF SessionsOf, TheLedger
<1>4. Ledger!CloseSome({s \in Ledger!Opened : TheLedger[s].user = u})
  BY <1>1, <1>3, SessionsOfType, RevokedCloses
<1>5. Ledger!CloseAll(u)
  BY <1>1, <1>4 DEF Ledger!CloseAll, TheGrants, TheLedger
<1> QED
  BY <1>5 DEF LedgerStep, Ledger!Next

\* What one handler holds when it changes.
LEMMA GrantChanges ==
  ASSUME AuthInv, NEW c \in Calls, NEW h, call' = [call EXCEPT ![c] = h]
  PROVE  TheGrants' = [TheGrants EXCEPT ![c] = CallGrant(h)]
  BY DEF TheGrants, AuthInv, TypeOK

LEMMA IdleHoldsNothing == CallGrant(Idle) = Ledger!NoGrant
  BY DEF CallGrant, Idle, Ledger!NoGrant

\* A handler that holds nothing afterwards has dropped what it held, if it did.
LEMMA NothingHeld ==
  ASSUME AuthInv, NEW c \in Calls, NEW h, call' = [call EXCEPT ![c] = h],
         CallGrant(h) = Ledger!NoGrant, UNCHANGED <<sessions, purges>>
  PROVE  LedgerStep
<1>1. TheGrants' = [TheGrants EXCEPT ![c] = Ledger!NoGrant]
  BY GrantChanges
<1>2. Ledger!Drop(c)
  BY <1>1 DEF Ledger!Drop, TheGrants, LedgerEntry
<1> QED
  BY <1>2 DEF LedgerStep, Ledger!Next

LEMMA NothingNew ==
  ASSUME UNCHANGED <<sessions, purges, call>> PROVE LedgerStep
  BY DEF LedgerStep, TheLedger, TheGrants, LedgerEntry

LEMMA BeginIsLedgerStep ==
  ASSUME AuthInv, NEW c \in Calls, NEW op \in Kinds \ {"refresh"}, NEW u \in Users,
         NEW row, NEW given, Begin(c, op, u, row, given)
  PROVE  LedgerStep
<1> DEFINE h == [Idle EXCEPT !.op = op, !.step = "read", !.user = u, !.row = row,
                   !.given = given, !.seen = IF op = "login" THEN purges[u] ELSE 0]
<1>1. /\ call' = [call EXCEPT ![c] = h] /\ call[c] = Idle
      /\ UNCHANGED <<sessions, purges>>
  BY DEF Begin
<1>2. /\ h.op = op /\ h.user = u /\ h.row = row /\ h.given = given
      /\ h.session = NoSession /\ h.seen = IF op = "login" THEN purges[u] ELSE 0
  BY DEF Idle
<1> HIDE DEF h
<1>3. CASE op = "login" /\ given = row.password
  <2>1. CallGrant(h) = [kind |-> "login", user |-> u, seen |-> purges[u],
                        from |-> NoSession]
    BY <1>2, <1>3 DEF CallGrant
  <2>2. TheGrants[c] = Ledger!NoGrant
    BY <1>1, IdleHoldsNothing DEF TheGrants
  <2>3. TheGrants' = [TheGrants EXCEPT ![c] = CallGrant(h)] /\ TheLedger' = TheLedger
    BY <1>1, GrantChanges DEF TheLedger, LedgerEntry
  <2>4. Ledger!Prove(c, u)
    BY <1>1, <2>1, <2>2, <2>3 DEF Ledger!Prove, Ledger!Granted, TheGrants, TheLedger
  <2> QED
    BY <2>4 DEF LedgerStep, Ledger!Next
<1>4. CASE ~(op = "login" /\ given = row.password)
  <2>1. CallGrant(h) = Ledger!NoGrant
    BY <1>2, <1>4 DEF CallGrant, Ledger!NoGrant
  <2> QED
    BY <1>1, <2>1, NothingHeld
<1> QED
  BY <1>3, <1>4

LEMMA RefreshIsLedgerStep ==
  ASSUME AuthInv, NEW c \in Calls, NEW token \in Jwt, BeginRefresh(c, token)
  PROVE  LedgerStep
<1>1. PICK s \in SessionIds :
        /\ Live(s) /\ call[c] = Idle
        /\ call' = [call EXCEPT ![c] = [Idle EXCEPT !.op = "refresh",
                      !.step = "read", !.user = sessions[s].user, !.session = s,
                      !.seen = purges[sessions[s].user]]]
        /\ UNCHANGED <<sessions, purges>>
  BY DEF BeginRefresh
<1> DEFINE h == [Idle EXCEPT !.op = "refresh", !.step = "read",
                   !.user = sessions[s].user, !.session = s,
                   !.seen = purges[sessions[s].user]]
<1>2. CallGrant(h) = [kind |-> "refresh", user |-> sessions[s].user,
                      seen |-> purges[sessions[s].user], from |-> s]
  BY DEF CallGrant, Idle
<1>3. TheGrants[c] = Ledger!NoGrant
  BY <1>1, IdleHoldsNothing DEF TheGrants
<1>4. TheGrants' = [TheGrants EXCEPT ![c] = CallGrant(h)] /\ TheLedger' = TheLedger
  BY <1>1, GrantChanges DEF TheLedger, LedgerEntry
<1>5. LedgerEntry(s).state = "open" /\ LedgerEntry(s).user = sessions[s].user
  BY <1>1 DEF Live, LedgerEntry
<1>6. Ledger!Present(c, s)
  BY <1>1, <1>2, <1>3, <1>4, <1>5
  DEF Ledger!Present, Ledger!Granted, TheGrants, TheLedger
<1> QED
  BY <1>6 DEF LedgerStep, Ledger!Next

\* A commit opens what the handler holds, on what it had read.
LEMMA OpenSessionOpens ==
  ASSUME AuthInv, NEW c \in Calls, NEW revoked \in SUBSET SessionIds,
         OpenSession(c, revoked), End(c), UNCHANGED purges,
         \/ At(c, "login", "signed") /\ revoked = {}
         \/ At(c, "refresh", "signed") /\ revoked = {call[c].session}
  PROVE  LedgerStep
<1> DEFINE h == call[c]
           g == CallGrant(h)
<1>1. PICK s \in SessionIds :
        /\ sessions[s] = NoSession
        /\ sessions' = [i \in SessionIds |->
             IF i = s THEN NewSession(c, s)
             ELSE IF i \in revoked THEN [sessions[i] EXCEPT !.isRevoked = TRUE]
             ELSE sessions[i]]
  BY DEF OpenSession
<1>2. GoodCall(h, users, sessions, mailed, clock) /\ h.op \in {"login", "refresh"}
  BY CallIsGood DEF At
<1>3. /\ g = [kind |-> h.op, user |-> h.user, seen |-> h.seen, from |-> h.session]
      /\ h.op = "login" => h.session = NoSession /\ revoked = {}
      /\ h.op = "refresh" => /\ h.session \in SessionIds /\ revoked = {h.session}
                             /\ sessions[h.session] # NoSession
  BY <1>2 DEF CallGrant, GoodCall, At
<1>4. /\ g.kind = h.op /\ g.user = h.user /\ g.seen = h.seen /\ g.from = h.session
      /\ g # Ledger!NoGrant
  BY <1>2, <1>3 DEF Ledger!NoGrant
<1>5. h.op = "refresh" => /\ LedgerEntry(h.session).proved = sessions[h.session].proved
                          /\ LedgerEntry(h.session).root = sessions[h.session].root
  BY <1>3 DEF LedgerEntry
<1> DEFINE proved == IF g.kind = "login" THEN g.seen ELSE LedgerEntry(g.from).proved
           root == IF g.seen < purges[g.user] THEN s
                   ELSE IF g.kind = "login" THEN NoSession ELSE LedgerEntry(g.from).root
<1>6. LedgerEntry(s)' = [user |-> g.user, proved |-> proved, root |-> root,
                         from |-> g.from, state |-> "open"]
  <2>1. sessions'[s] = NewSession(c, s) /\ NewSession(c, s) # NoSession
    BY <1>1, NewSessionType
  <2>2. /\ NewSession(c, s).user = g.user /\ NewSession(c, s).replaces = g.from
        /\ NewSession(c, s).isRevoked = FALSE
        /\ NewSession(c, s).proved = proved /\ NewSession(c, s).root = root
    BY <1>2, <1>4, <1>5 DEF NewSession
  <2> HIDE DEF proved, root, g
  <2> QED
    BY <2>1, <2>2 DEF LedgerEntry
<1>7. ASSUME NEW i \in SessionIds, i # s
      PROVE  LedgerEntry(i)' = IF i = g.from THEN [LedgerEntry(i) EXCEPT !.state = "closed"]
                               ELSE LedgerEntry(i)
  <2>1. CASE i = g.from
    <3>1. i \in revoked /\ sessions[i] # NoSession
      BY <1>2, <1>3, <1>4, <2>1
    <3>2. sessions'[i] = [sessions[i] EXCEPT !.isRevoked = TRUE]
      BY <1>1, <1>7, <3>1
    <3>3. LedgerEntry(i)' = [LedgerEntry(i) EXCEPT !.state = "closed"]
      BY <3>1, <3>2, RevokedEntry
    <3> QED
      BY <2>1, <3>3
  <2>2. CASE i # g.from
    <3>1. sessions'[i] = sessions[i]
      BY <1>1, <1>2, <1>3, <1>4, <1>7, <2>2
    <3>2. LedgerEntry(i)' = LedgerEntry(i)
      BY <3>1 DEF LedgerEntry
    <3> QED
      BY <2>2, <3>2
  <2> QED
    BY <2>1, <2>2
<1>8. TheGrants' = [TheGrants EXCEPT ![c] = Ledger!NoGrant] /\ TheGrants[c] = g
  BY GrantChanges, IdleHoldsNothing DEF End, TheGrants
<1>9. s \notin Ledger!Opened
  BY <1>1, OpenedAreRows
<1> DEFINE opened == [user |-> g.user, proved |-> proved, root |-> root,
                      from |-> g.from, state |-> "open"]
<1>10. TheLedger' = [i \in SessionIds |->
         IF i = s THEN opened
         ELSE IF i = g.from THEN [LedgerEntry(i) EXCEPT !.state = "closed"]
         ELSE LedgerEntry(i)]
  <2> HIDE DEF g, opened
  <2>1. \A i \in SessionIds : LedgerEntry(i)' =
          IF i = s THEN opened
          ELSE IF i = g.from THEN [LedgerEntry(i) EXCEPT !.state = "closed"]
          ELSE LedgerEntry(i)
    <3>1. LedgerEntry(s)' = opened
      BY <1>6 DEF opened
    <3> QED
      BY <1>7, <3>1
  <2> QED
    BY <2>1 DEF TheLedger
<1>11. g.kind # "login" => g.from \in SessionIds
  BY <1>2, <1>3, <1>4
<1>12. Ledger!Proved(g) = proved /\ Ledger!Root(g, s) = root
  BY <1>11 DEF Ledger!Proved, Ledger!Root
<1>13. Ledger!Open(c, s)
  <2> HIDE DEF g, proved, root
  <2> QED
    BY <1>4, <1>8, <1>9, <1>10, <1>12
    DEF Ledger!Open, Ledger!Closed, TheLedger, TheGrants, opened
<1> QED
  BY <1>13 DEF LedgerStep, Ledger!Next

\* A new password or a logout everywhere closes all; the handler held nothing.
LEMMA PurgeIsLedgerStep ==
  ASSUME AuthInv, NEW c \in Calls, NEW chosen \in Passwords,
         CommitChange(c, chosen) \/ CommitReset(c, chosen)
  PROVE  LedgerStep
<1>1. /\ call[c].op \in {"change", "reset"} /\ End(c) /\ RevokeAll(call[c].user)
  BY DEF CommitChange, CommitReset, At
<1>2. call[c].user \in Users
  BY <1>1, CallIsGood
<1>3. CallGrant(call[c]) = Ledger!NoGrant
  BY <1>1 DEF CallGrant, Ledger!NoGrant
<1>4. TheGrants' = [TheGrants EXCEPT ![c] = Ledger!NoGrant]
  BY <1>1, GrantChanges, IdleHoldsNothing DEF End
<1>5. TheGrants' = TheGrants
  BY <1>3, <1>4 DEF TheGrants
<1> QED
  BY <1>1, <1>2, <1>5, RevokeAllClosesAll

\* A handler that mails a token holds nothing, before and after.
LEMMA TokenIsLedgerStep ==
  ASSUME AuthInv, NEW c \in Calls, NEW row, WriteToken(c, row),
         call[c].op \notin {"login", "refresh"}
  PROVE  LedgerStep
<1> DEFINE h == [call[c] EXCEPT !.step = "written", !.given = Fresh]
<1>1. call[c] \in CallState
  BY DEF AuthInv, TypeOK
<1>2. call' = [call EXCEPT ![c] = h] /\ UNCHANGED <<sessions, purges>>
  BY <1>1 DEF WriteToken, AuthInv, TypeOK
<1>3. h.op = call[c].op
  BY <1>1 DEF CallState
<1>4. CallGrant(h) = Ledger!NoGrant
  <2> HIDE DEF h
  <2> QED
    BY <1>3 DEF CallGrant, Ledger!NoGrant
<1> QED
  BY <1>2, <1>4, NothingHeld

\* Signing changes nothing of what a handler holds.
LEMMA SigningIsLedgerStep ==
  ASSUME AuthInv, NEW c \in Calls, GenerateTokens(c)
  PROVE  LedgerStep
<1> DEFINE h == [call[c] EXCEPT !.step = "signed",
                   !.bearer = [sub |-> call[c].user, iat |-> clock]]
<1>1. call[c] \in CallState
  BY DEF AuthInv, TypeOK
<1>2. call' = [call EXCEPT ![c] = h] /\ UNCHANGED <<sessions, purges>>
  BY <1>1 DEF GenerateTokens, AuthInv, TypeOK
<1>3. /\ h.op = call[c].op /\ h.user = call[c].user /\ h.seen = call[c].seen
      /\ h.session = call[c].session /\ h.given = call[c].given /\ h.row = call[c].row
  BY <1>1 DEF CallState
<1>4. CallGrant(h) = CallGrant(call[c])
  <2> HIDE DEF h
  <2> QED
    BY <1>3 DEF CallGrant
<1>5. TheGrants' = TheGrants
  BY <1>2, <1>4, GrantChanges DEF TheGrants
<1> QED
  BY <1>2, <1>5 DEF LedgerStep, TheLedger, LedgerEntry

LEMMA EndIsLedgerStep ==
  ASSUME AuthInv, NEW c \in Calls, End(c), UNCHANGED <<sessions, purges>>
  PROVE  LedgerStep
  BY NothingHeld, IdleHoldsNothing DEF End

LEMMA AuthenticateIsLedgerStep ==
  ASSUME AuthInv, NEW c \in Calls, Authenticate(c)
  PROVE  LedgerStep
<1>1. ASSUME NEW u \in Users, NEW p \in Passwords, BeginLogin(c, u, p) PROVE LedgerStep
  BY <1>1, BeginIsLedgerStep DEF BeginLogin, Kinds
<1>2. CASE FailLogin(c)
  BY <1>2, EndIsLedgerStep DEF FailLogin
<1>3. CASE GenerateTokens(c)
  BY <1>3, SigningIsLedgerStep
<1>4. CASE CommitLogin(c)
  BY <1>4, OpenSessionOpens DEF CommitLogin
<1>5. ASSUME NEW t \in Jwt, BeginRefresh(c, t) PROVE LedgerStep
  BY <1>5, RefreshIsLedgerStep
<1>6. CASE CommitRefresh(c)
  <2>1. {call[c].session} \in SUBSET SessionIds
    BY <1>6, CallIsGood DEF CommitRefresh, At, GoodCall
  <2> QED
    BY <1>6, <2>1, OpenSessionOpens DEF CommitRefresh
<1> QED
  BY <1>1, <1>2, <1>3, <1>4, <1>5, <1>6 DEF Authenticate

LEMMA CredentialsAreLedgerSteps ==
  ASSUME AuthInv, NEW c \in Calls, ChangeCredentials(c)
  PROVE  LedgerStep
<1>1. ASSUME NEW u \in Users, NEW p \in Passwords, BeginChange(c, u, p) PROVE LedgerStep
  BY <1>1, BeginIsLedgerStep DEF BeginChange, Kinds
<1>2. ASSUME NEW chosen \in Passwords, CommitChange(c, chosen) \/ CommitReset(c, chosen)
      PROVE  LedgerStep
  BY <1>2, PurgeIsLedgerStep
<1>3. ASSUME NEW u \in Users, BeginForgot(c, u) PROVE LedgerStep
  BY <1>3, BeginIsLedgerStep DEF BeginForgot, Kinds
<1>4. CASE CommitForgot(c)
  BY <1>4, TokenIsLedgerStep DEF CommitForgot, At
<1>5. CASE SendMail(c)
  BY <1>5, EndIsLedgerStep DEF SendMail
<1>6. ASSUME NEW u \in Users, NEW t \in Tokens, BeginReset(c, u, t) PROVE LedgerStep
  BY <1>6, BeginIsLedgerStep DEF BeginReset, Kinds
<1> QED
  BY <1>1, <1>2, <1>3, <1>4, <1>5, <1>6 DEF ChangeCredentials

LEMMA EnrolIsLedgerStep ==
  ASSUME AuthInv, NEW c \in Calls, Enrol(c)
  PROVE  LedgerStep
<1>1. ASSUME NEW u \in Users, NEW p \in Passwords, BeginRegister(c, u, p) PROVE LedgerStep
  BY <1>1, BeginIsLedgerStep DEF BeginRegister, Kinds
<1>2. CASE CreateUser(c)
  BY <1>2, TokenIsLedgerStep DEF CreateUser, At
<1>3. CASE RefuseUser(c)
  BY <1>3, EndIsLedgerStep DEF RefuseUser
<1>4. ASSUME NEW u \in Users, BeginResend(c, u) PROVE LedgerStep
  BY <1>4, BeginIsLedgerStep DEF BeginResend, Kinds
<1>5. ASSUME NEW u \in Users, NEW t \in Tokens, BeginVerify(c, u, t) PROVE LedgerStep
  BY <1>5, BeginIsLedgerStep DEF BeginVerify, Kinds
<1>6. CASE CommitResend(c)
  BY <1>6, TokenIsLedgerStep DEF CommitResend, At
<1>7. CASE CommitVerify(c)
  BY <1>7, EndIsLedgerStep DEF CommitVerify
<1> QED
  BY <1>1, <1>2, <1>3, <1>4, <1>5, <1>6, <1>7 DEF Enrol

LEMMA CloseIsLedgerStep ==
  ASSUME AuthInv, NEW u \in Users, Close(u)
  PROVE  LedgerStep
<1>1. CASE LogoutEverywhere(u)
  BY <1>1, RevokeAllClosesAll DEF LogoutEverywhere, TheGrants
<1>2. ASSUME NEW t \in Jwt, Logout(u, t) PROVE LedgerStep
  <2>1. PICK gone \in SUBSET SessionIds :
          gone = {s \in SessionsOf(u) : sessions[s].token = t}
    BY SessionsOfType
  <2> QED
    BY <1>2, <2>1, SessionsOfType, RevokedIsClose DEF Logout
<1>3. ASSUME NEW s \in SessionIds, RevokeSession(u, s) PROVE LedgerStep
  <2>1. PICK gone \in SUBSET SessionIds : gone = {s} \cap SessionsOf(u)
    BY SessionsOfType
  <2> QED
    BY <1>3, <2>1, SessionsOfType, RevokedIsClose DEF RevokeSession
<1> QED
  BY <1>1, <1>2, <1>3 DEF Close

LEMMA LedgerSteps == AuthInv /\ [Next]_vars => LedgerStep
<1> SUFFICES ASSUME AuthInv, [Next]_vars PROVE LedgerStep
  OBVIOUS
<1>1. ASSUME NEW c \in Calls, CallFails(c) PROVE LedgerStep
  BY <1>1, EndIsLedgerStep DEF CallFails
<1>2. ASSUME NEW u \in Users, NEW a \in BOOLEAN, NEW d \in BOOLEAN, SetStanding(u, a, d)
      PROVE  LedgerStep
  BY <1>2, NothingNew DEF SetStanding
<1>3. CASE Tick \/ UNCHANGED vars
  BY <1>3, NothingNew DEF Tick, vars
<1> QED
  BY <1>1, <1>2, <1>3, AuthenticateIsLedgerStep, CredentialsAreLedgerSteps,
     EnrolIsLedgerStep, CloseIsLedgerStep DEF Next

\* login(), refreshTokens(), logout() and the two ways to a new password keep
\* the sessions of SessionLedger, under any overlap: each written once, by a
\* handler that had proved the password or read the session it replaces, and
\* closed for good.
THEOREM SessionsFollowLedger == Spec => LedgerSpec
<1>1. Init => Ledger!Init
  BY DEF Init, Ledger!Init, LedgerEntry, Ledger!Unopened, CallGrant, Idle, Ledger!NoGrant
<1>2. AuthInv /\ [Next]_vars => [Ledger!Next]_Ledger!ledgerVars
  BY LedgerSteps DEF LedgerStep, TheLedger, TheGrants, Ledger!ledgerVars
<1> QED
  BY <1>1, <1>2, AuthInvHolds, PTL DEF Spec, LedgerSpec, Ledger!Spec

\* The sessions that outlive a change of the password or a logout everywhere
\* were written over it by handlers that had read before, or were refreshed
\* from such; their lines are no more than the handlers.
THEOREM FewSessionsSurvive == Spec => []SurvivorsBounded
<1>1. Ledger!LedgerAssumption
  BY DEF Ledger!LedgerAssumption, IsFiniteSet, Ledger!IsFiniteSet
<1> QED
  BY <1>1, SessionsFollowLedger, Ledger!SurvivorsAreBounded, PTL
  DEF LedgerSpec, SurvivorsBounded

\* A session that was replaced is revoked, and no more sessions replace it than
\* there are handlers: one for each that had read it while it was live.
THEOREM FewRefreshesOfOneToken == Spec => []RefreshesBounded
<1>1. Ledger!LedgerAssumption
  BY DEF Ledger!LedgerAssumption, IsFiniteSet, Ledger!IsFiniteSet
<1> QED
  BY <1>1, SessionsFollowLedger, Ledger!RefreshesAreBounded, PTL
  DEF LedgerSpec, RefreshesBounded

-----------------------------------------------------------------------------
(* Who moves a lock, and who replaces a password *)

\* The handlers that write the rows of users that exist.
LEMMA RowWriters ==
  ASSUME AuthInv, [Next]_vars, NEW u \in Users, users[u] # NoUser, users'[u] # users[u]
  PROVE  \/ \E c \in Calls :
              /\ call[c].user = u
              /\ \/ FailLogin(c) \/ CommitLogin(c)
                 \/ \E chosen \in Passwords : CommitChange(c, chosen) \/ CommitReset(c, chosen)
                 \/ CommitForgot(c) \/ CommitResend(c) \/ CommitVerify(c)
         \/ \E active, deleted \in BOOLEAN : SetStanding(u, active, deleted)
<1>0. users \in [Users -> UserRow \cup {NoUser}]
  BY DEF AuthInv, TypeOK
<1>1. ASSUME NEW c \in Calls, Authenticate(c)
      PROVE  call[c].user = u /\ (FailLogin(c) \/ CommitLogin(c))
  BY <1>0, <1>1 DEF Authenticate, BeginLogin, Begin, FailLogin, GenerateTokens,
     CommitLogin, BeginRefresh, CommitRefresh
<1>2. ASSUME NEW c \in Calls, ChangeCredentials(c)
      PROVE  /\ call[c].user = u
             /\ \/ \E chosen \in Passwords : CommitChange(c, chosen) \/ CommitReset(c, chosen)
                \/ CommitForgot(c)
  BY <1>0, <1>2 DEF ChangeCredentials, BeginChange, BeginForgot, BeginReset, Begin,
     CommitChange, CommitReset, CommitForgot, WriteToken, SendMail
<1>3. ASSUME NEW c \in Calls, Enrol(c)
      PROVE  call[c].user = u /\ (CommitResend(c) \/ CommitVerify(c))
  BY <1>0, <1>3 DEF Enrol, BeginRegister, BeginResend, BeginVerify, Begin, CreateUser,
     Exists, RefuseUser, CommitResend, CommitVerify, WriteToken
<1>4. ASSUME NEW w \in Users, Close(w) PROVE FALSE
  BY <1>4 DEF Close, LogoutEverywhere, Logout, RevokeSession
<1>5. ASSUME NEW c \in Calls, CallFails(c) PROVE FALSE
  BY <1>5 DEF CallFails
<1>6. ASSUME NEW w \in Users, NEW a \in BOOLEAN, NEW d \in BOOLEAN, SetStanding(w, a, d)
      PROVE  w = u
  BY <1>0, <1>6 DEF SetStanding
<1>7. ~Tick /\ ~UNCHANGED vars
  BY DEF Tick, vars
<1> QED
  BY <1>1, <1>2, <1>3, <1>4, <1>5, <1>6, <1>7 DEF Next

LEMMA TokenWritersKeep ==
  ASSUME AuthInv, NEW u \in Users, users[u] \in UserRow, NEW c \in Calls, call[c].user = u,
         CommitForgot(c) \/ CommitResend(c) \/ CommitVerify(c)
  PROVE  /\ users'[u] \in UserRow
         /\ users'[u].loginAttempts = users[u].loginAttempts
         /\ users'[u].lockedUntil = users[u].lockedUntil
         /\ users'[u].password = users[u].password
<1>0. users \in [Users -> UserRow \cup {NoUser}]
  BY DEF AuthInv, TypeOK
<1>1. CASE CommitForgot(c)
  <2>1. users'[u] = [users[u] EXCEPT !.resetToken = Fresh,
                                     !.resetExpires = clock + ResetExpiry]
    BY <1>0, <1>1 DEF CommitForgot, WriteToken
  <2>2. Fresh \in Tokens /\ clock + ResetExpiry \in Time
    BY <1>1 DEF CommitForgot, WriteToken, Fresh, Tokens, Time, AuthInv, TypeOK
  <2> QED
    BY <2>1, <2>2 DEF UserRow
<1>2. CASE CommitResend(c)
  <2>1. users'[u] = [users[u] EXCEPT !.verifyToken = Fresh]
    BY <1>0, <1>2 DEF CommitResend, WriteToken
  <2>2. Fresh \in Tokens
    BY <1>2 DEF CommitResend, WriteToken, Fresh, Tokens, AuthInv, TypeOK
  <2> QED
    BY <2>1, <2>2 DEF UserRow
<1>3. CASE CommitVerify(c)
  <2>1. users'[u] = [users[u] EXCEPT !.verified = TRUE, !.verifyToken = NoToken]
    BY <1>0, <1>3 DEF CommitVerify
  <2> QED
    BY <2>1 DEF UserRow
<1> QED
  BY <1>1, <1>2, <1>3

\* A login that runs began when no lock was in force, so a lock it meets was
\* written after it had read the account: no later login moves the lock.
THEOREM LocksAreMovedByEarlierLogins == Spec => LockMovedByEarlierLogin
<1>1. ASSUME AuthInv, [Next]_vars, NEW u \in Users, Exists(u), Locked(u),
             users'[u].lockedUntil # users[u].lockedUntil
      PROVE  \E c \in Calls : /\ call[c].op = "login" /\ call[c].user = u
                              /\ call[c].row.lockedUntil # users[u].lockedUntil
  <2>1. users[u] # NoUser /\ users'[u] # users[u] /\ users[u] \in UserRow
    BY <1>1 DEF Exists, AuthInv, TypeOK
  <2>2. ASSUME NEW c \in Calls, call[c].user = u, FailLogin(c) \/ CommitLogin(c)
        PROVE  /\ call[c].op = "login" /\ call[c].user = u
               /\ call[c].row.lockedUntil # users[u].lockedUntil
    <3>1. call[c].op = "login" /\ call[c].row.lockedUntil <= clock
      BY <2>2, CallIsGood, <1>1 DEF FailLogin, CommitLogin, At, GoodCall
    <3>2. call[c].row \in UserRow
      BY <2>2, CallIsGood, <1>1 DEF FailLogin, CommitLogin, At, GoodCall
    <3> QED
      BY <1>1, <2>1, <2>2, <3>1, <3>2 DEF Locked, UserRow, Time, AuthInv, TypeOK
  <2>3. ASSUME NEW c \in Calls, call[c].user = u, NEW chosen \in Passwords,
               CommitChange(c, chosen) \/ CommitReset(c, chosen)
        PROVE  users'[u].lockedUntil = users[u].lockedUntil
    BY <1>1, <2>1, <2>3 DEF CommitChange, CommitReset, UserRow, AuthInv, TypeOK
  <2>4. ASSUME NEW c \in Calls, call[c].user = u,
               CommitForgot(c) \/ CommitResend(c) \/ CommitVerify(c)
        PROVE  users'[u].lockedUntil = users[u].lockedUntil
    BY <1>1, <2>1, <2>4, TokenWritersKeep
  <2>5. ASSUME NEW a \in BOOLEAN, NEW d \in BOOLEAN, SetStanding(u, a, d)
        PROVE  users'[u].lockedUntil = users[u].lockedUntil
    BY <1>1, <2>1, <2>5 DEF SetStanding, UserRow, AuthInv, TypeOK
  <2> QED
    BY <1>1, <2>1, <2>2, <2>3, <2>4, <2>5, RowWriters
<1>2. AuthInv /\ [Next]_vars
      => [\A u \in Users :
            Exists(u) /\ Locked(u) /\ users'[u].lockedUntil # users[u].lockedUntil
              => \E c \in Calls :
                   /\ call[c].op = "login" /\ call[c].user = u
                   /\ call[c].row.lockedUntil # users[u].lockedUntil]_vars
  BY <1>1
<1> QED
  BY <1>2, AuthInvHolds, PTL DEF Spec, LockMovedByEarlierLogin

\* changePassword() and resetPassword() alone replace a password: the first
\* with the password it had read in hand, the second with a mailed token.
THEOREM PasswordChangesAreEarned == Spec => PasswordChangeIsEarned
<1> DEFINE Earned(u) ==
      \E c \in Calls :
        /\ call[c].user = u
        /\ \/ call[c].op = "change" /\ call[c].given = call[c].row.password
           \/ /\ call[c].op = "reset"
              /\ [to |-> u, kind |-> "reset", token |-> call[c].given] \in mailed
<1>1. ASSUME AuthInv, [Next]_vars, NEW u \in Users, Exists(u),
             users'[u].password # users[u].password
      PROVE  Earned(u)
  <2>1. users[u] # NoUser /\ users'[u] # users[u] /\ users[u] \in UserRow
    BY <1>1 DEF Exists, AuthInv, TypeOK
  <2>2. ASSUME NEW c \in Calls, call[c].user = u, FailLogin(c) \/ CommitLogin(c)
        PROVE  users'[u].password = users[u].password
    BY <1>1, <2>1, <2>2 DEF FailLogin, CommitLogin, UserRow, AuthInv, TypeOK
  <2>3. ASSUME NEW c \in Calls, call[c].user = u, NEW chosen \in Passwords,
               CommitChange(c, chosen) \/ CommitReset(c, chosen)
        PROVE  Earned(u)
    BY <1>1, <2>3, CallIsGood DEF CommitChange, CommitReset, At, GoodCall
  <2>4. ASSUME NEW c \in Calls, call[c].user = u,
               CommitForgot(c) \/ CommitResend(c) \/ CommitVerify(c)
        PROVE  users'[u].password = users[u].password
    BY <1>1, <2>1, <2>4, TokenWritersKeep
  <2>5. ASSUME NEW a \in BOOLEAN, NEW d \in BOOLEAN, SetStanding(u, a, d)
        PROVE  users'[u].password = users[u].password
    BY <1>1, <2>1, <2>5 DEF SetStanding, UserRow, AuthInv, TypeOK
  <2> QED
    BY <1>1, <2>1, <2>2, <2>3, <2>4, <2>5, RowWriters
<1>2. AuthInv /\ [Next]_vars
      => [\A u \in Users : Exists(u) /\ users'[u].password # users[u].password
            => Earned(u)]_vars
  BY <1>1
<1> QED
  BY <1>2, AuthInvHolds, PTL DEF Spec, PasswordChangeIsEarned

-----------------------------------------------------------------------------
(* How often a reset token is used *)

ResetTokenOf(u) == IF users[u] = NoUser THEN NoToken ELSE users[u].resetToken
Holding(t) == {c \in Calls : call[c].op = "reset" /\ call[c].given = t}

\* A token is issued once and stands on one row; while it stands there it has
\* not been used, and each use takes one of the handlers that hold it.
TokensInv ==
  /\ \A u \in Users : ResetTokenOf(u) \in 0 .. issued
  /\ \A c \in Calls :
       call[c].op = "reset" \/ (call[c].op = "forgot" /\ call[c].step = "written")
         => call[c].given \in 1 .. issued
  /\ \A m \in mailed : m.kind = "reset" => m.token \in 1 .. issued
  /\ \A u, w \in Users :
       ResetTokenOf(u) = ResetTokenOf(w) /\ ResetTokenOf(u) # NoToken => u = w
  /\ \A c \in Calls, w \in Users :
       call[c].op = "reset" /\ ResetTokenOf(w) = call[c].given => w = call[c].user
  /\ \A t \in Tokens : t > issued => uses[t] = 0
  /\ \A u \in Users : ResetTokenOf(u) # NoToken => uses[ResetTokenOf(u)] = 0
  /\ \A t \in Tokens : uses[t] + Cardinality(Holding(t)) <= Cardinality(Calls)

\* A step that neither writes a reset token nor looks one up nor uses one up.
Quiet ==
  /\ \A u \in Users : ResetTokenOf(u)' = ResetTokenOf(u)
  /\ uses' = uses
  /\ issued' \in Nat /\ issued' >= issued
  /\ \A c \in Calls : call'[c] = call[c] \/ call'[c].op \notin {"reset", "forgot"}
                      \/ (call'[c].op = "forgot" /\ call'[c].step # "written")
  /\ \A m \in mailed' \ mailed : m.kind = "reset" => m.token \in 1 .. issued

LEMMA HoldingIsFinite ==
  ASSUME NEW t
  PROVE  /\ IsFiniteSet(Holding(t)) /\ Cardinality(Holding(t)) \in Nat
         /\ IsFiniteSet(Calls) /\ Cardinality(Calls) \in Nat
         /\ Cardinality(Holding(t)) <= Cardinality(Calls)
<1>1. Holding(t) \subseteq Calls
  BY DEF Holding
<1>2. IsFiniteSet(Calls)
  BY DEF AuthAssumption
<1> QED
  BY <1>1, <1>2, FS_Subset, FS_CardinalityType

\* Handlers that hold t, fewer after the step than before.
LEMMA FewerHold ==
  ASSUME AuthInv, TokensInv, NEW t \in Tokens, uses'[t] = uses[t],
         Holding(t)' \subseteq Holding(t)
  PROVE  uses'[t] + Cardinality(Holding(t)') <= Cardinality(Calls)
<1>1. Cardinality(Holding(t)') <= Cardinality(Holding(t))
  BY HoldingIsFinite, FS_Subset
<1>2. Cardinality(Holding(t)') \in Nat
  BY HoldingIsFinite, FS_Subset, FS_CardinalityType
<1> QED
  BY <1>1, <1>2, HoldingIsFinite DEF TokensInv, AuthInv, TypeOK

LEMMA QuietStep ==
  ASSUME AuthInv, AuthInv', TokensInv, Quiet PROVE TokensInv'
<1>0. issued \in Nat /\ issued' \in Nat /\ issued <= issued' /\ 0 .. issued \subseteq 0 .. issued'
      /\ 1 .. issued \subseteq 1 .. issued'
  BY DEF Quiet, AuthInv, TypeOK
<1>1. \A u \in Users : ResetTokenOf(u)' \in 0 .. issued'
  BY <1>0 DEF TokensInv, Quiet
<1>2. \A c \in Calls :
        call'[c].op = "reset" \/ (call'[c].op = "forgot" /\ call'[c].step = "written")
          => call'[c] = call[c]
  BY DEF Quiet
<1>3. \A c \in Calls :
        call'[c].op = "reset" \/ (call'[c].op = "forgot" /\ call'[c].step = "written")
          => call'[c].given \in 1 .. issued'
  BY <1>0, <1>2 DEF TokensInv
<1>4. \A m \in mailed' : m.kind = "reset" => m.token \in 1 .. issued'
  BY <1>0 DEF TokensInv, Quiet
<1>5. \A u, w \in Users :
        ResetTokenOf(u)' = ResetTokenOf(w)' /\ ResetTokenOf(u)' # NoToken => u = w
  BY DEF TokensInv, Quiet
<1>6. \A c \in Calls, w \in Users :
        call'[c].op = "reset" /\ ResetTokenOf(w)' = call'[c].given => w = call'[c].user
  BY <1>2 DEF TokensInv, Quiet
<1>7. \A t \in Tokens : t > issued' => uses'[t] = 0
  BY <1>0 DEF TokensInv, Quiet, Tokens, AuthAssumption
<1>8. \A u \in Users : ResetTokenOf(u)' # NoToken => uses'[ResetTokenOf(u)'] = 0
  BY DEF TokensInv, Quiet
<1>9. ASSUME NEW t \in Tokens
      PROVE  uses'[t] + Cardinality(Holding(t)') <= Cardinality(Calls)
  <2>1. Holding(t)' \subseteq Holding(t)
    BY <1>2 DEF Holding
  <2> QED
    BY <2>1, FewerHold DEF Quiet
<1> QED
  BY <1>1, <1>3, <1>4, <1>5, <1>6, <1>7, <1>8, <1>9 DEF TokensInv

LEMMA BeginResetTokens ==
  ASSUME AuthInv, TokensInv, NEW c \in Calls, NEW u \in Users, NEW t \in Tokens,
         BeginReset(c, u, t)
  PROVE  TokensInv'
<1>0. call' = [call EXCEPT ![c] = [Idle EXCEPT !.op = "reset", !.step = "read",
                 !.user = u, !.row = NoUser, !.given = t, !.seen = 0]]
      /\ UNCHANGED <<users, issued, mailed, uses>>
  BY DEF BeginReset, Begin
<1>1. /\ call'[c].op = "reset" /\ call'[c].user = u /\ call'[c].given = t
      /\ \A d \in Calls \ {c} : call'[d] = call[d]
  BY <1>0 DEF Idle, AuthInv, TypeOK
<1>2. t \in 1 .. issued /\ ResetTokenOf(u) = t /\ t # NoToken
  <2>1. [to |-> u, kind |-> "reset", token |-> t] \in mailed
    BY DEF BeginReset
  <2>2. t \in 1 .. issued
    BY <2>1 DEF TokensInv
  <2> QED
    BY <2>2 DEF BeginReset, Exists, ResetTokenOf, NoToken, Tokens
<1>3. \A w \in Users : ResetTokenOf(w)' = ResetTokenOf(w)
  BY <1>0 DEF ResetTokenOf
<1>4. \A d \in Calls :
        call'[d].op = "reset" \/ (call'[d].op = "forgot" /\ call'[d].step = "written")
          => call'[d].given \in 1 .. issued'
  BY <1>0, <1>1, <1>2 DEF TokensInv
<1>5. \A d \in Calls, w \in Users :
        call'[d].op = "reset" /\ ResetTokenOf(w)' = call'[d].given => w = call'[d].user
  BY <1>1, <1>2, <1>3 DEF TokensInv
<1>6. ASSUME NEW x \in Tokens
      PROVE  uses'[x] + Cardinality(Holding(x)') <= Cardinality(Calls)
  <2>1. CASE x = t
    <3>1. uses'[x] = 0
      BY <1>0, <1>2, <2>1 DEF TokensInv
    <3>2. Holding(x)' \subseteq Calls
      BY DEF Holding
    <3> QED
      BY <3>1, <3>2, HoldingIsFinite, FS_Subset, FS_CardinalityType
  <2>2. CASE x # t
    <3>1. Holding(x)' \subseteq Holding(x)
      BY <1>1, <2>2 DEF Holding
    <3> QED
      BY <1>0, <3>1, FewerHold
  <2> QED
    BY <2>1, <2>2
<1> QED
  BY <1>0, <1>3, <1>4, <1>5, <1>6 DEF TokensInv

LEMMA CommitForgotTokens ==
  ASSUME AuthInv, TokensInv, NEW c \in Calls, CommitForgot(c)
  PROVE  TokensInv'
<1>1. PICK u \in Users : u = call[c].user
  BY CallIsGood DEF CommitForgot, At
<1>2. users[u] \in UserRow
  BY <1>1, CallIsGood DEF CommitForgot, At
<1>3. /\ users' = [users EXCEPT ![u] = [users[u] EXCEPT !.resetToken = Fresh,
                                          !.resetExpires = clock + ResetExpiry]]
      /\ call' = [call EXCEPT ![c].step = "written", ![c].given = Fresh]
      /\ issued' = Fresh /\ UNCHANGED <<mailed, uses>>
  BY <1>1 DEF CommitForgot, WriteToken
<1>4. /\ issued \in Nat /\ Fresh = issued + 1 /\ Fresh \in Tokens /\ Fresh # NoToken
      /\ 0 .. issued \subseteq 0 .. Fresh /\ 1 .. issued \subseteq 1 .. Fresh
      /\ Fresh \in 0 .. Fresh /\ Fresh \in 1 .. Fresh
  BY DEF CommitForgot, WriteToken, Fresh, Tokens, NoToken, AuthInv, TypeOK
<1>5. /\ ResetTokenOf(u)' = Fresh
      /\ \A w \in Users \ {u} : ResetTokenOf(w)' = ResetTokenOf(w)
  <2>1. users'[u] = [users[u] EXCEPT !.resetToken = Fresh,
                                     !.resetExpires = clock + ResetExpiry]
    BY <1>3 DEF AuthInv, TypeOK
  <2>2. users'[u] # NoUser /\ users'[u].resetToken = Fresh
    <3>1. clock + ResetExpiry \in Time
      BY DEF Time, AuthInv, TypeOK
    <3>2. users'[u] \in UserRow
      BY <1>2, <1>4, <2>1, <3>1 DEF UserRow
    <3> QED
      BY <1>2, <2>1, <3>2 DEF UserRow
  <2> QED
    BY <1>3, <2>2 DEF ResetTokenOf, AuthInv, TypeOK
<1>6. /\ call'[c].given = Fresh /\ call'[c].op = "forgot"
      /\ \A d \in Calls \ {c} : call'[d] = call[d]
  BY <1>3 DEF CommitForgot, At, CallState, AuthInv, TypeOK
<1>7. \A w \in Users : ResetTokenOf(w)' \in 0 .. issued'
  BY <1>3, <1>4, <1>5 DEF TokensInv
<1>8. \A d \in Calls :
        call'[d].op = "reset" \/ (call'[d].op = "forgot" /\ call'[d].step = "written")
          => call'[d].given \in 1 .. issued'
  BY <1>3, <1>4, <1>6 DEF TokensInv
<1>9. \A m \in mailed' : m.kind = "reset" => m.token \in 1 .. issued'
  BY <1>3, <1>4 DEF TokensInv
<1>10. \A w \in Users \ {u} : ResetTokenOf(w)' # Fresh
  BY <1>4, <1>5 DEF TokensInv
<1>11. \A v, w \in Users :
         ResetTokenOf(v)' = ResetTokenOf(w)' /\ ResetTokenOf(v)' # NoToken => v = w
  BY <1>5, <1>10 DEF TokensInv
<1>12. \A d \in Calls : call'[d].op = "reset" => call'[d] = call[d] /\ call[d].given # Fresh
  BY <1>4, <1>6 DEF TokensInv
<1>13. \A d \in Calls, w \in Users :
         call'[d].op = "reset" /\ ResetTokenOf(w)' = call'[d].given => w = call'[d].user
  BY <1>5, <1>12 DEF TokensInv
<1>14. \A t \in Tokens : t > issued' => uses'[t] = 0
  BY <1>3, <1>4 DEF TokensInv, Tokens
<1>15. \A w \in Users : ResetTokenOf(w)' # NoToken => uses'[ResetTokenOf(w)'] = 0
  BY <1>3, <1>4, <1>5 DEF TokensInv
<1>16. ASSUME NEW t \in Tokens
       PROVE  uses'[t] + Cardinality(Holding(t)') <= Cardinality(Calls)
  <2>1. Holding(t)' \subseteq Holding(t)
    BY <1>12 DEF Holding
  <2> QED
    BY <1>3, <2>1, FewerHold
<1> QED
  BY <1>7, <1>8, <1>9, <1>11, <1>13, <1>14, <1>15, <1>16 DEF TokensInv

LEMMA CommitResetTokens ==
  ASSUME AuthInv, TokensInv, NEW c \in Calls, NEW chosen \in Passwords, CommitReset(c, chosen)
  PROVE  TokensInv'
<1>1. PICK u \in Users, t \in Tokens : u = call[c].user /\ t = call[c].given
  BY CallIsGood DEF CommitReset, At, GoodCall
<1>2. users[u] \in UserRow /\ call[c].op = "reset"
  BY <1>1, CallIsGood DEF CommitReset, At
<1>3. /\ users' = [users EXCEPT ![u] = [users[u] EXCEPT !.password = chosen,
                     !.resetToken = NoToken, !.resetExpires = NoTime]]
      /\ uses' = [uses EXCEPT ![t] = @ + 1]
      /\ call' = [call EXCEPT ![c] = Idle]
      /\ UNCHANGED <<issued, mailed>>
  BY <1>1 DEF CommitReset, End, AuthInv, TypeOK
<1>4. /\ ResetTokenOf(u)' = NoToken
      /\ \A w \in Users \ {u} : ResetTokenOf(w)' = ResetTokenOf(w)
  <2>1. users'[u] = [users[u] EXCEPT !.password = chosen, !.resetToken = NoToken,
                                     !.resetExpires = NoTime]
    BY <1>3 DEF AuthInv, TypeOK
  <2>2. users'[u].resetToken = NoToken
    BY <1>2, <2>1 DEF UserRow
  <2> QED
    BY <1>3, <2>2 DEF ResetTokenOf, AuthInv, TypeOK
<1>5. call'[c] = Idle /\ \A d \in Calls \ {c} : call'[d] = call[d]
  BY <1>3 DEF AuthInv, TypeOK
<1>6. Idle.op = "idle"
  BY DEF Idle
<1>7. \A w \in Users : ResetTokenOf(w)' # NoToken
        => w # u /\ ResetTokenOf(w)' = ResetTokenOf(w) /\ ResetTokenOf(w) # t
  BY <1>1, <1>2, <1>4 DEF TokensInv
<1>8. \A w \in Users : ResetTokenOf(w)' \in 0 .. issued'
  <2>1. NoToken \in 0 .. issued
    BY DEF NoToken, AuthInv, TypeOK
  <2> QED
    BY <1>3, <1>4, <2>1 DEF TokensInv
<1>9. \A d \in Calls :
        call'[d].op = "reset" \/ (call'[d].op = "forgot" /\ call'[d].step = "written")
          => d # c /\ call'[d] = call[d]
  BY <1>5, <1>6
<1>10. \A d \in Calls :
        call'[d].op = "reset" \/ (call'[d].op = "forgot" /\ call'[d].step = "written")
          => call'[d].given \in 1 .. issued'
  BY <1>3, <1>9 DEF TokensInv
<1>11. \A v, w \in Users :
         ResetTokenOf(v)' = ResetTokenOf(w)' /\ ResetTokenOf(v)' # NoToken => v = w
  BY <1>7 DEF TokensInv
<1>12. \A d \in Calls, w \in Users :
         call'[d].op = "reset" /\ ResetTokenOf(w)' = call'[d].given => w = call'[d].user
  <2>1. \A d \in Calls : call[d].op = "reset" => call[d].given # NoToken
    BY DEF TokensInv, NoToken, AuthInv, TypeOK
  <2> QED
    BY <1>7, <1>9, <2>1 DEF TokensInv
<1>13. \A x \in Tokens : uses'[x] = IF x = t THEN uses[x] + 1 ELSE uses[x]
  BY <1>3 DEF AuthInv, TypeOK
<1>14. \A x \in Tokens : x > issued' => uses'[x] = 0
  <2>1. t \in 1 .. issued
    BY <1>1, <1>2 DEF TokensInv
  <2> QED
    BY <1>3, <1>13, <2>1 DEF TokensInv, Tokens, AuthInv, TypeOK
<1>15. \A w \in Users : ResetTokenOf(w)' # NoToken => uses'[ResetTokenOf(w)'] = 0
  <2>1. \A w \in Users : ResetTokenOf(w) # NoToken => ResetTokenOf(w) \in Tokens
    BY DEF ResetTokenOf, UserRow, AuthInv, TypeOK
  <2> QED
    BY <1>7, <1>13, <2>1 DEF TokensInv
<1>16. ASSUME NEW x \in Tokens
       PROVE  uses'[x] + Cardinality(Holding(x)') <= Cardinality(Calls)
  <2>1. CASE x = t
    <3>1. Holding(x)' = Holding(x) \ {c} /\ c \in Holding(x)
      BY <1>1, <1>2, <1>5, <1>6, <2>1 DEF Holding
    <3>2. Cardinality(Holding(x)') = Cardinality(Holding(x)) - 1
      BY <3>1, HoldingIsFinite, FS_RemoveElement
    <3>3. uses'[x] = uses[x] + 1 /\ uses[x] \in Nat
      BY <1>13, <2>1 DEF AuthInv, TypeOK
    <3>4. uses[x] + Cardinality(Holding(x)) <= Cardinality(Calls)
      BY DEF TokensInv
    <3> QED
      BY <3>2, <3>3, <3>4, HoldingIsFinite
  <2>2. CASE x # t
    <3>1. Holding(x)' \subseteq Holding(x)
      BY <1>9 DEF Holding
    <3> QED
      BY <1>13, <2>2, <3>1, FewerHold
  <2> QED
    BY <2>1, <2>2
<1>17. \A m \in mailed' : m.kind = "reset" => m.token \in 1 .. issued'
  BY <1>3 DEF TokensInv
<1> QED
  BY <1>8, <1>10, <1>11, <1>12, <1>14, <1>15, <1>16, <1>17 DEF TokensInv

\* Every other step is quiet.
LEMMA RowsKeepTokens ==
  ASSUME AuthInv, NEW u \in Users, NEW row \in UserRow, users' = [users EXCEPT ![u] = row],
         row.resetToken = ResetTokenOf(u)
  PROVE  \A w \in Users : ResetTokenOf(w)' = ResetTokenOf(w)
  BY DEF ResetTokenOf, AuthInv, TypeOK

\* A handler that begins something else, or goes on or ends without a token.
LEMMA QuietCall ==
  ASSUME AuthInv, \A u \in Users : ResetTokenOf(u)' = ResetTokenOf(u),
         UNCHANGED <<uses, issued, mailed>>,
         NEW c \in Calls, NEW h, call' = [call EXCEPT ![c] = h],
         h.op \notin {"reset", "forgot"} \/ (h.op = "forgot" /\ h.step # "written")
  PROVE  Quiet
  BY DEF Quiet, AuthInv, TypeOK

LEMMA QuietEnd ==
  ASSUME AuthInv, \A u \in Users : ResetTokenOf(u)' = ResetTokenOf(u),
         UNCHANGED <<uses, issued, mailed>>, NEW c \in Calls, End(c)
  PROVE  Quiet
<1>1. Idle.op = "idle"
  BY DEF Idle
<1> QED
  BY <1>1, QuietCall DEF End

LEMMA QuietBegin ==
  ASSUME AuthInv, NEW c \in Calls, NEW op \in Kinds, NEW u, NEW row, NEW given,
         Begin(c, op, u, row, given), op # "reset"
  PROVE  Quiet
<1> DEFINE h == [Idle EXCEPT !.op = op, !.step = "read", !.user = u,
                   !.row = row, !.given = given,
                   !.seen = IF op = "login" THEN purges[u] ELSE 0]
<1>1. call' = [call EXCEPT ![c] = h] /\ UNCHANGED <<users, uses, issued, mailed>>
  BY DEF Begin
<1>2. h.op = op /\ h.step = "read"
  BY DEF Idle
<1>3. \A w \in Users : ResetTokenOf(w)' = ResetTokenOf(w)
  BY <1>1 DEF ResetTokenOf
<1> HIDE DEF h
<1> QED
  BY <1>1, <1>2, <1>3, QuietCall

LEMMA QuietAuthenticate ==
  ASSUME AuthInv, NEW c \in Calls, Authenticate(c)
  PROVE  Quiet
<1>1. ASSUME NEW u \in Users, NEW p \in Passwords, BeginLogin(c, u, p) PROVE Quiet
  BY <1>1, QuietBegin DEF BeginLogin, Kinds
<1>2. CASE FailLogin(c)
  <2>1. PICK u \in Users : u = call[c].user
    BY <1>2, CallIsGood DEF FailLogin, At
  <2>2. users[u] \in UserRow /\ call[c].row \in UserRow
    BY <1>2, <2>1, CallIsGood DEF FailLogin, At, GoodCall
  <2>3. Attempts(c) \in Nat /\ clock + LockDuration \in Time
    BY <2>2 DEF Attempts, UserRow, Time, AuthInv, TypeOK
  <2> DEFINE lock == IF Attempts(c) >= MaxLoginAttempts
                     THEN clock + LockDuration ELSE users[u].lockedUntil
             row == [users[u] EXCEPT !.loginAttempts = Attempts(c), !.lockedUntil = lock]
  <2>4. row \in UserRow /\ row.resetToken = ResetTokenOf(u)
    BY <2>2, <2>3 DEF UserRow, ResetTokenOf
  <2>5. users' = [users EXCEPT ![u] = row]
    BY <1>2, <2>1 DEF FailLogin, AuthInv, TypeOK
  <2>6. \A w \in Users : ResetTokenOf(w)' = ResetTokenOf(w)
    <3> HIDE DEF row
    <3> QED
      BY <2>4, <2>5, RowsKeepTokens
  <2> QED
    BY <1>2, <2>6, QuietEnd DEF FailLogin
<1>3. CASE GenerateTokens(c)
  <2>1. \A w \in Users : ResetTokenOf(w)' = ResetTokenOf(w)
    BY <1>3 DEF GenerateTokens, ResetTokenOf
  <2>2. /\ call[c] \in CallState /\ call[c].op \in {"login", "refresh"}
        /\ call' = [call EXCEPT ![c] = [call[c] EXCEPT !.step = "signed",
                      !.bearer = [sub |-> call[c].user, iat |-> clock]]]
    BY <1>3 DEF GenerateTokens, At, AuthInv, TypeOK
  <2>3. [call[c] EXCEPT !.step = "signed",
           !.bearer = [sub |-> call[c].user, iat |-> clock]].op = call[c].op
    BY <2>2 DEF CallState
  <2> QED
    BY <1>3, <2>1, <2>2, <2>3, QuietCall DEF GenerateTokens
<1>4. CASE CommitLogin(c)
  <2>1. PICK u \in Users : u = call[c].user
    BY <1>4, CallIsGood DEF CommitLogin, At
  <2>2. users[u] \in UserRow
    BY <1>4, <2>1, CallIsGood DEF CommitLogin, At
  <2> DEFINE row == [users[u] EXCEPT !.loginAttempts = 0, !.lockedUntil = NoTime]
  <2>3. NoTime \in Time
    BY DEF NoTime, Time
  <2>4. row \in UserRow /\ row.resetToken = ResetTokenOf(u)
    BY <2>2, <2>3 DEF UserRow, ResetTokenOf
  <2>5. users' = [users EXCEPT ![u] = row]
    BY <1>4, <2>1 DEF CommitLogin, AuthInv, TypeOK
  <2>6. \A w \in Users : ResetTokenOf(w)' = ResetTokenOf(w)
    <3> HIDE DEF row
    <3> QED
      BY <2>4, <2>5, RowsKeepTokens
  <2> QED
    BY <1>4, <2>6, QuietEnd DEF CommitLogin
<1>5. ASSUME NEW t \in Jwt, BeginRefresh(c, t) PROVE Quiet
  <2>1. PICK s \in SessionIds :
          /\ call' = [call EXCEPT ![c] = [Idle EXCEPT !.op = "refresh",
                        !.step = "read", !.user = sessions[s].user, !.session = s,
                        !.seen = purges[sessions[s].user]]]
          /\ UNCHANGED <<users, uses, issued, mailed>>
    BY <1>5 DEF BeginRefresh
  <2>2. [Idle EXCEPT !.op = "refresh", !.step = "read", !.user = sessions[s].user,
           !.session = s, !.seen = purges[sessions[s].user]].op = "refresh"
    BY DEF Idle
  <2>3. \A w \in Users : ResetTokenOf(w)' = ResetTokenOf(w)
    BY <2>1 DEF ResetTokenOf
  <2> QED
    BY <2>1, <2>2, <2>3, QuietCall
<1>6. CASE CommitRefresh(c)
  <2>1. \A w \in Users : ResetTokenOf(w)' = ResetTokenOf(w)
    BY <1>6 DEF CommitRefresh, ResetTokenOf
  <2> QED
    BY <1>6, <2>1, QuietEnd DEF CommitRefresh
<1> QED
  BY <1>1, <1>2, <1>3, <1>4, <1>5, <1>6 DEF Authenticate

LEMMA SameRowsSameTokens ==
  ASSUME UNCHANGED users PROVE \A w \in Users : ResetTokenOf(w)' = ResetTokenOf(w)
  BY DEF ResetTokenOf

LEMMA QuietChange ==
  ASSUME AuthInv, NEW c \in Calls, NEW chosen \in Passwords, CommitChange(c, chosen)
  PROVE  Quiet
<1>1. PICK u \in Users : u = call[c].user
  BY CallIsGood DEF CommitChange, At
<1>2. users[u] \in UserRow
  BY <1>1, CallIsGood DEF CommitChange, At
<1> DEFINE row == [users[u] EXCEPT !.password = chosen]
<1>3. row \in UserRow /\ row.resetToken = ResetTokenOf(u)
  BY <1>2 DEF UserRow, ResetTokenOf
<1>4. users' = [users EXCEPT ![u] = row]
  BY <1>1 DEF CommitChange, AuthInv, TypeOK
<1>5. \A w \in Users : ResetTokenOf(w)' = ResetTokenOf(w)
  <2> HIDE DEF row
  <2> QED
    BY <1>3, <1>4, RowsKeepTokens
<1> QED
  BY <1>5, QuietEnd DEF CommitChange

\* A mail that resets a password carries a token that was written.
LEMMA QuietMail ==
  ASSUME AuthInv, TokensInv, NEW c \in Calls, SendMail(c)
  PROVE  Quiet
<1>1. \A w \in Users : ResetTokenOf(w)' = ResetTokenOf(w)
  BY SameRowsSameTokens DEF SendMail
<1>2. \A m \in mailed' \ mailed : m.kind = "reset" => m.token \in 1 .. issued
  BY DEF SendMail, MailKind, TokensInv
<1>3. call' = [call EXCEPT ![c] = Idle] /\ Idle.op = "idle"
  BY DEF SendMail, End, Idle
<1> QED
  BY <1>1, <1>2, <1>3 DEF Quiet, SendMail, AuthInv, TypeOK

LEMMA QuietWrite ==
  ASSUME AuthInv, NEW c \in Calls, NEW row \in UserRow, NEW u \in Users,
         WriteToken(c, row), u = call[c].user, call[c].op \in {"register", "resend"},
         row.resetToken = ResetTokenOf(u)
  PROVE  Quiet
<1>1. \A w \in Users : ResetTokenOf(w)' = ResetTokenOf(w)
  BY RowsKeepTokens DEF WriteToken
<1>2. call[c] \in CallState
  BY DEF AuthInv, TypeOK
<1> DEFINE h == [call[c] EXCEPT !.step = "written", !.given = Fresh]
<1>3. h.op = call[c].op
  BY <1>2 DEF CallState
<1>4. call' = [call EXCEPT ![c] = h]
  BY DEF WriteToken, AuthInv, TypeOK
<1>5. issued' = issued + 1 /\ UNCHANGED <<uses, mailed>>
  BY DEF WriteToken, Fresh
<1> HIDE DEF h
<1> QED
  BY <1>1, <1>3, <1>4, <1>5 DEF Quiet, AuthInv, TypeOK

LEMMA QuietEnrol ==
  ASSUME AuthInv, NEW c \in Calls, Enrol(c)
  PROVE  Quiet
<1>1. ASSUME NEW u \in Users, NEW p \in Passwords, BeginRegister(c, u, p) PROVE Quiet
  BY <1>1, QuietBegin DEF BeginRegister, Kinds
<1>2. CASE CreateUser(c)
  <2>1. PICK u \in Users : u = call[c].user
    BY <1>2, CallIsGood DEF CreateUser, At
  <2>2. call[c].given \in Passwords /\ call[c].op = "register"
    BY <1>2, CallIsGood DEF CreateUser, At, GoodCall
  <2>3. Fresh \in Tokens /\ NoTime \in Time
    BY <1>2 DEF CreateUser, WriteToken, Fresh, Tokens, AuthInv, TypeOK, NoTime, Time
  <2>4. NewUser(call[c].given) \in UserRow
    BY <2>2, <2>3 DEF NewUser, UserRow
  <2>5. NewUser(call[c].given).resetToken = ResetTokenOf(u)
    BY <1>2, <2>1 DEF NewUser, ResetTokenOf, CreateUser, Exists
  <2> QED
    BY <1>2, <2>1, <2>2, <2>4, <2>5, QuietWrite DEF CreateUser
<1>3. CASE RefuseUser(c)
  BY <1>3, SameRowsSameTokens, QuietEnd DEF RefuseUser
<1>4. ASSUME NEW u \in Users, BeginResend(c, u) PROVE Quiet
  BY <1>4, QuietBegin DEF BeginResend, Kinds
<1>5. ASSUME NEW u \in Users, NEW t \in Tokens, BeginVerify(c, u, t) PROVE Quiet
  BY <1>5, QuietBegin DEF BeginVerify, Kinds
<1>6. CASE CommitResend(c)
  <2>1. PICK u \in Users : u = call[c].user
    BY <1>6, CallIsGood DEF CommitResend, At
  <2>2. users[u] \in UserRow /\ call[c].op = "resend"
    BY <1>6, <2>1, CallIsGood DEF CommitResend, At
  <2>3. Fresh \in Tokens
    BY <1>6 DEF CommitResend, WriteToken, Fresh, Tokens, AuthInv, TypeOK
  <2> DEFINE row == [users[u] EXCEPT !.verifyToken = Fresh]
  <2>4. row \in UserRow /\ row.resetToken = ResetTokenOf(u)
    BY <2>2, <2>3 DEF UserRow, ResetTokenOf
  <2>5. WriteToken(c, row)
    BY <1>6, <2>1 DEF CommitResend
  <2> HIDE DEF row
  <2> QED
    BY <2>1, <2>2, <2>4, <2>5, QuietWrite
<1>7. CASE CommitVerify(c)
  <2>1. PICK u \in Users : u = call[c].user
    BY <1>7, CallIsGood DEF CommitVerify, At
  <2>2. users[u] \in UserRow
    BY <1>7, <2>1, CallIsGood DEF CommitVerify, At
  <2> DEFINE row == [users[u] EXCEPT !.verified = TRUE, !.verifyToken = NoToken]
  <2>3. row \in UserRow /\ row.resetToken = ResetTokenOf(u)
    BY <2>2 DEF UserRow, ResetTokenOf
  <2>4. users' = [users EXCEPT ![u] = row]
    BY <1>7, <2>1 DEF CommitVerify, AuthInv, TypeOK
  <2>5. \A w \in Users : ResetTokenOf(w)' = ResetTokenOf(w)
    <3> HIDE DEF row
    <3> QED
      BY <2>3, <2>4, RowsKeepTokens
  <2> QED
    BY <1>7, <2>5, QuietEnd DEF CommitVerify
<1> QED
  BY <1>1, <1>2, <1>3, <1>4, <1>5, <1>6, <1>7 DEF Enrol

LEMMA QuietOthers ==
  ASSUME AuthInv,
         \/ \E u \in Users : Close(u)
         \/ \E u \in Users, active, deleted \in BOOLEAN : SetStanding(u, active, deleted)
         \/ Tick \/ UNCHANGED vars
  PROVE  Quiet
<1>1. ASSUME \A w \in Users : ResetTokenOf(w)' = ResetTokenOf(w),
             UNCHANGED <<call, uses, issued, mailed>>
      PROVE  Quiet
  BY <1>1 DEF Quiet, AuthInv, TypeOK
<1>2. ASSUME NEW u \in Users, NEW a \in BOOLEAN, NEW d \in BOOLEAN, SetStanding(u, a, d)
      PROVE  Quiet
  <2>1. users[u] \in UserRow
    BY <1>2 DEF SetStanding, Exists, AuthInv, TypeOK
  <2> DEFINE row == [users[u] EXCEPT !.isActive = a, !.deleted = d]
  <2>2. row \in UserRow /\ row.resetToken = ResetTokenOf(u)
    BY <2>1 DEF UserRow, ResetTokenOf
  <2>3. users' = [users EXCEPT ![u] = row]
    BY <1>2 DEF SetStanding, AuthInv, TypeOK
  <2>4. \A w \in Users : ResetTokenOf(w)' = ResetTokenOf(w)
    <3> HIDE DEF row
    <3> QED
      BY <2>2, <2>3, RowsKeepTokens
  <2> QED
    BY <1>1, <1>2, <2>4 DEF SetStanding
<1>3. ASSUME NEW u \in Users, Close(u) PROVE Quiet
  BY <1>1, <1>3, SameRowsSameTokens DEF Close, LogoutEverywhere, Logout, RevokeSession
<1>4. CASE Tick \/ UNCHANGED vars
  BY <1>1, <1>4, SameRowsSameTokens DEF Tick, vars
<1> QED
  BY <1>2, <1>3, <1>4

LEMMA TokensStep == AuthInv /\ TokensInv /\ [Next]_vars => TokensInv'
<1> SUFFICES ASSUME AuthInv, TokensInv, [Next]_vars PROVE TokensInv'
  OBVIOUS
<1>0. AuthInv'
  BY StepIsGood
<1>1. ASSUME NEW c \in Calls, Authenticate(c) PROVE TokensInv'
  BY <1>0, <1>1, QuietAuthenticate, QuietStep
<1>2. ASSUME NEW c \in Calls, ChangeCredentials(c) PROVE TokensInv'
  <2>1. ASSUME NEW u \in Users, NEW p \in Passwords, BeginChange(c, u, p) PROVE Quiet
    BY <2>1, QuietBegin DEF BeginChange, Kinds
  <2>2. ASSUME NEW u \in Users, BeginForgot(c, u) PROVE Quiet
    BY <2>2, QuietBegin DEF BeginForgot, Kinds
  <2> QED
    BY <1>0, <1>2, <2>1, <2>2, QuietChange, QuietMail, QuietStep, BeginResetTokens,
       CommitForgotTokens, CommitResetTokens DEF ChangeCredentials
<1>3. ASSUME NEW c \in Calls, Enrol(c) PROVE TokensInv'
  BY <1>0, <1>3, QuietEnrol, QuietStep
<1>4. ASSUME NEW c \in Calls, CallFails(c) PROVE TokensInv'
  BY <1>0, <1>4, SameRowsSameTokens, QuietEnd, QuietStep DEF CallFails
<1> QED
  BY <1>0, <1>1, <1>2, <1>3, <1>4, QuietOthers, QuietStep DEF Next

LEMMA TokensInit == Init => TokensInv
<1> SUFFICES ASSUME Init PROVE TokensInv
  OBVIOUS
<1>1. Idle.op = "idle"
  BY DEF Idle
<1>2. \A u \in Users : ResetTokenOf(u) = NoToken
  BY DEF Init, ResetTokenOf
<1>3. \A c \in Calls : call[c].op = "idle"
  BY <1>1 DEF Init
<1>4. issued = 0 /\ mailed = {} /\ \A t \in Tokens : uses[t] = 0
  BY DEF Init
<1>5. \A t \in Tokens : uses[t] + Cardinality(Holding(t)) <= Cardinality(Calls)
  BY <1>4, HoldingIsFinite
<1> QED
  BY <1>2, <1>3, <1>4, <1>5 DEF TokensInv, NoToken, Tokens

\* resetPassword() looks its token up before it hashes and clears it after:
\* however requests overlap, a token resets a password at most once for each
\* handler that can run at a time.
THEOREM TokenUsesAreBounded == Spec => []ResetTokenUsesBounded
<1>1. AuthInv /\ TokensInv => ResetTokenUsesBounded
  <2> SUFFICES ASSUME AuthInv, TokensInv, NEW t \in Tokens
               PROVE  uses[t] <= Cardinality(Calls)
    BY DEF ResetTokenUsesBounded
  <2>1. uses[t] \in Nat /\ uses[t] + Cardinality(Holding(t)) <= Cardinality(Calls)
    BY DEF AuthInv, TypeOK, TokensInv
  <2> QED
    BY <2>1, HoldingIsFinite
<1> QED
  BY <1>1, TokensInit, TokensStep, AuthInvHolds, PTL DEF Spec

-----------------------------------------------------------------------------
(* Wrong passwords before the lock *)

\* The handlers that the counter of u lets fail from level t on: those that
\* hold at least t, and those that can still read what stands there.
Reached(u, t) ==
  {c \in Calls : /\ t <= users[u].loginAttempts
                 /\ At(c, "login", "read") /\ call[c].user = u
                      => t <= call[c].row.loginAttempts}
Counts(u) == [t \in 1 .. Top |-> Cardinality(Reached(u, t))]

\* Every function above the counts of an account that is not locked is above
\* its wrong passwords.
MissesOf(u) ==
  IF Exists(u)
  THEN users[u].lockedUntil = NoTime => \A g \in Above(Counts(u)) : misses[u] <= g[Top]
  ELSE misses[u] = 0
MissesInv == \A u \in Users : MissesOf(u)

\* No step but the end of a login counts a wrong password or moves a counter or
\* a lock, and a login that begins holds the counter that stands.
Steady(u) ==
  /\ misses'[u] = misses[u]
  /\ Exists(u) => /\ Exists(u)'
                  /\ users'[u].loginAttempts = users[u].loginAttempts
                  /\ users'[u].lockedUntil = users[u].lockedUntil
  /\ \A c \in Calls :
       \/ call'[c] = call[c]
       \/ ~(call'[c].op = "login" /\ call'[c].step = "read" /\ call'[c].user = u)
       \/ call'[c].row = users[u]

LEMMA CallsAreFinite == IsFiniteSet(Calls) /\ Cardinality(Calls) \in Nat
  BY FS_CardinalityType DEF AuthAssumption

LEMMA SomeCalls ==
  ASSUME NEW S \in SUBSET Calls
  PROVE  IsFiniteSet(S) /\ Cardinality(S) \in 0 .. Cardinality(Calls)
  BY CallsAreFinite, FS_Subset, FS_CardinalityType

LEMMA ReachedIsFinite ==
  ASSUME NEW u, NEW t
  PROVE  /\ IsFiniteSet(Reached(u, t)) /\ IsFiniteSet(Reached(u, t)')
         /\ Cardinality(Reached(u, t)) \in 0 .. Cardinality(Calls)
         /\ Cardinality(Reached(u, t)') \in 0 .. Cardinality(Calls)
<1>1. Reached(u, t) \in SUBSET Calls /\ Reached(u, t)' \in SUBSET Calls
  BY DEF Reached
<1> QED
  BY <1>1, SomeCalls

LEMMA CountsType ==
  ASSUME NEW u
  PROVE  /\ Counts(u) \in [1 .. Top -> 0 .. Cardinality(Calls)]
         /\ Counts(u) \in [1 .. Top -> Nat] /\ Counts(u)' \in [1 .. Top -> Nat]
<1>1. \A t \in 1 .. Top : /\ Cardinality(Reached(u, t)) \in 0 .. Cardinality(Calls)
                          /\ Cardinality(Reached(u, t)') \in 0 .. Cardinality(Calls)
  BY ReachedIsFinite
<1> QED
  BY <1>1, CallsAreFinite DEF Counts

LEMMA AboveShrinks ==
  ASSUME NEW n \in [1 .. Top -> Nat], NEW m \in [1 .. Top -> Nat],
         \A t \in 1 .. Top : n[t] <= m[t], NEW g \in Above(m)
  PROVE  g \in Above(n)
<1>1. g \in [0 .. Top -> Nat]
  BY DEF Above
<1>2. ASSUME NEW t \in 1 .. Top PROVE g[t - 1] + Weight(n[t], Top - t + 1) <= g[t]
  <2>1. /\ Top - t + 1 \in Nat \ {0} /\ n[t] \in 0 .. m[t] /\ n[t] \in Nat /\ m[t] \in Nat
        /\ t - 1 \in 0 .. Top /\ t \in 0 .. Top
    BY TopIsNatural
  <2>2. Weight(n[t], Top - t + 1) <= Weight(m[t], Top - t + 1)
    BY <2>1, WeightGrows
  <2>3. Weight(n[t], Top - t + 1) \in Nat /\ Weight(m[t], Top - t + 1) \in Nat
    BY <2>1, WeightOf
  <2>4. g[t - 1] + Weight(m[t], Top - t + 1) <= g[t]
    BY DEF Above
  <2>5. g[t - 1] \in Nat /\ g[t] \in Nat
    BY <1>1, <2>1
  <2> QED
    BY <2>2, <2>3, <2>4, <2>5
<1> QED
  BY <1>1, <1>2 DEF Above

LEMMA SteadyKeeps ==
  ASSUME AuthInv, NEW u \in Users, MissesOf(u), Steady(u)
  PROVE  MissesOf(u)'
<1>0. Top \in 0 .. Top
  BY TopIsNatural
<1>1. CASE ~Exists(u)
  <2>1. misses'[u] = 0
    BY <1>1 DEF MissesOf, Steady
  <2>2. ASSUME NEW g \in Above(Counts(u))' PROVE misses'[u] <= g[Top]
    <3>1. g[Top] \in Nat
      BY <1>0 DEF Above
    <3> QED
      BY <2>1, <3>1
  <2> QED
    BY <2>1, <2>2 DEF MissesOf
<1>2. CASE Exists(u)
  <2>1. users[u] \in UserRow
    BY <1>2 DEF Exists, AuthInv, TypeOK
  <2>2. Exists(u)' /\ misses'[u] = misses[u]
    BY <1>2 DEF Steady
  <2>3. SUFFICES ASSUME users'[u].lockedUntil = NoTime, NEW g \in Above(Counts(u))'
                 PROVE  misses[u] <= g[Top]
    BY <2>2 DEF MissesOf
  <2>4. users[u].lockedUntil = NoTime
    BY <1>2, <2>3 DEF Steady
  <2>5. ASSUME NEW t \in 1 .. Top PROVE Reached(u, t) \subseteq Reached(u, t)'
    BY <1>2 DEF Reached, Steady, At
  <2>6. ASSUME NEW t \in 1 .. Top PROVE Counts(u)[t] <= Counts(u)'[t]
    <3>1. IsFiniteSet(Reached(u, t)')
      BY ReachedIsFinite
    <3>2. Cardinality(Reached(u, t)) <= Cardinality(Reached(u, t)')
      BY <2>5, <3>1, FS_Subset
    <3> QED
      BY <3>2 DEF Counts
  <2>7. Counts(u) \in [1 .. Top -> Nat] /\ Counts(u)' \in [1 .. Top -> Nat]
    BY CountsType
  <2>8. g \in Above(Counts(u))
    BY <2>3, <2>6, <2>7, AboveShrinks
  <2> QED
    BY <1>2, <2>4, <2>8 DEF MissesOf
<1> QED
  BY <1>1, <1>2

\* The steps that leave the counter and the lock of an account alone.
LEMMA RowsKeepAttempts ==
  ASSUME AuthInv, [Next]_vars, NEW u \in Users, Exists(u),
         \A c \in Calls : call[c].user = u => ~FailLogin(c) /\ ~CommitLogin(c)
  PROVE  /\ Exists(u)'
         /\ users'[u].loginAttempts = users[u].loginAttempts
         /\ users'[u].lockedUntil = users[u].lockedUntil
<1> DEFINE Keeps == /\ users'[u] \in UserRow
                    /\ users'[u].loginAttempts = users[u].loginAttempts
                    /\ users'[u].lockedUntil = users[u].lockedUntil
<1>0. users[u] \in UserRow /\ users[u] # NoUser /\ users \in [Users -> UserRow \cup {NoUser}]
  BY DEF Exists, AuthInv, TypeOK
<1>1. ASSUME NEW c \in Calls, call[c].user = u, NEW chosen \in Passwords,
             CommitChange(c, chosen)
      PROVE  Keeps
  <2>1. users'[u] = [users[u] EXCEPT !.password = chosen]
    BY <1>0, <1>1 DEF CommitChange
  <2> QED
    BY <1>0, <2>1 DEF UserRow
<1>2. ASSUME NEW c \in Calls, call[c].user = u, NEW chosen \in Passwords,
             CommitReset(c, chosen)
      PROVE  Keeps
  <2>1. users'[u] = [users[u] EXCEPT !.password = chosen, !.resetToken = NoToken,
                                     !.resetExpires = NoTime]
    BY <1>0, <1>2 DEF CommitReset
  <2>2. NoTime \in Time
    BY DEF NoTime, Time
  <2> QED
    BY <1>0, <2>1, <2>2 DEF UserRow
<1>3. ASSUME NEW a \in BOOLEAN, NEW d \in BOOLEAN, SetStanding(u, a, d)
      PROVE  Keeps
  <2>1. users'[u] = [users[u] EXCEPT !.isActive = a, !.deleted = d]
    BY <1>0, <1>3 DEF SetStanding
  <2> QED
    BY <1>0, <2>1 DEF UserRow
<1>4. CASE users'[u] = users[u]
  BY <1>0, <1>4 DEF Exists
<1>5. CASE users'[u] # users[u]
  <2>1. Keeps
    BY <1>0, <1>1, <1>2, <1>3, <1>5, RowWriters, TokenWritersKeep
  <2> QED
    BY <2>1, RowsAssumption DEF Exists, RowsAssumption
<1> QED
  BY <1>4, <1>5

\* What a handler may have become in a step, for the attempts it holds.
ReadsNow(c) ==
  \/ call'[c] = call[c]
  \/ ~(call'[c].op = "login" /\ call'[c].step = "read")
  \/ call'[c].row = users[call'[c].user]

LEMMA ReadsNowCall ==
  ASSUME AuthInv, NEW c \in Calls, NEW h, call' = [call EXCEPT ![c] = h],
         ~(h.op = "login" /\ h.step = "read") \/ h.row = users[h.user]
  PROVE  \A d \in Calls : ReadsNow(d)
  BY DEF ReadsNow, AuthInv, TypeOK

LEMMA ReadsNowEnd ==
  ASSUME AuthInv, NEW c \in Calls, End(c)
  PROVE  \A d \in Calls : ReadsNow(d)
<1>1. Idle.op = "idle"
  BY DEF Idle
<1> QED
  BY <1>1, ReadsNowCall DEF End

LEMMA ReadsNowBegin ==
  ASSUME AuthInv, NEW c \in Calls, NEW op \in Kinds, NEW u, NEW row, NEW given,
         Begin(c, op, u, row, given), op = "login" => row = users[u]
  PROVE  misses' = misses /\ \A d \in Calls : ReadsNow(d)
<1> DEFINE h == [Idle EXCEPT !.op = op, !.step = "read", !.user = u,
                   !.row = row, !.given = given,
                   !.seen = IF op = "login" THEN purges[u] ELSE 0]
<1>1. call' = [call EXCEPT ![c] = h] /\ misses' = misses
  BY DEF Begin
<1>2. h.op = op /\ h.row = row /\ h.user = u
  BY DEF Idle
<1> HIDE DEF h
<1> QED
  BY <1>1, <1>2, ReadsNowCall

LEMMA ReadsNowStep ==
  ASSUME AuthInv, NEW c \in Calls, NEW s \in {"signed", "written"}, NEW h,
         call' = [call EXCEPT ![c] = h], h.step = s
  PROVE  \A d \in Calls : ReadsNow(d)
  BY ReadsNowCall

LEMMA ReadsNowGenerate ==
  ASSUME AuthInv, NEW c \in Calls, GenerateTokens(c)
  PROVE  misses' = misses /\ \A d \in Calls : ReadsNow(d)
<1>1. call[c] \in CallState
  BY DEF AuthInv, TypeOK
<1> DEFINE h == [call[c] EXCEPT !.step = "signed",
                   !.bearer = [sub |-> call[c].user, iat |-> clock]]
<1>2. h.step = "signed"
  BY <1>1 DEF CallState
<1>3. call' = [call EXCEPT ![c] = h] /\ misses' = misses
  BY DEF GenerateTokens, AuthInv, TypeOK
<1> HIDE DEF h
<1> QED
  BY <1>2, <1>3, ReadsNowStep

LEMMA ReadsNowWrite ==
  ASSUME AuthInv, NEW c \in Calls, NEW row, WriteToken(c, row)
  PROVE  misses' = misses /\ \A d \in Calls : ReadsNow(d)
<1>1. call[c] \in CallState
  BY DEF AuthInv, TypeOK
<1> DEFINE h == [call[c] EXCEPT !.step = "written", !.given = Fresh]
<1>2. h.step = "written"
  BY <1>1 DEF CallState
<1>3. call' = [call EXCEPT ![c] = h] /\ misses' = misses
  BY DEF WriteToken, AuthInv, TypeOK
<1> HIDE DEF h
<1> QED
  BY <1>2, <1>3, ReadsNowStep

LEMMA ReadsNowRefresh ==
  ASSUME AuthInv, NEW c \in Calls, NEW t \in Jwt, BeginRefresh(c, t)
  PROVE  misses' = misses /\ \A d \in Calls : ReadsNow(d)
<1>1. PICK s \in SessionIds :
        /\ call' = [call EXCEPT ![c] = [Idle EXCEPT !.op = "refresh",
                      !.step = "read", !.user = sessions[s].user, !.session = s,
                      !.seen = purges[sessions[s].user]]]
        /\ misses' = misses
  BY DEF BeginRefresh
<1>2. [Idle EXCEPT !.op = "refresh", !.step = "read", !.user = sessions[s].user,
         !.session = s, !.seen = purges[sessions[s].user]].op = "refresh"
  BY DEF Idle
<1> QED
  BY <1>1, <1>2, ReadsNowCall

LEMMA ReadsNowSteps ==
  ASSUME AuthInv, [Next]_vars
  PROVE  /\ \A d \in Calls : ReadsNow(d)
         /\ (\A c \in Calls : ~FailLogin(c) /\ ~CommitLogin(c)) => misses' = misses
<1> DEFINE Goal == /\ \A d \in Calls : ReadsNow(d)
                   /\ (\A c \in Calls : ~FailLogin(c) /\ ~CommitLogin(c)) => misses' = misses
<1>1. ASSUME NEW c \in Calls, Authenticate(c) PROVE Goal
  <2>1. ASSUME NEW u \in Users, NEW p \in Passwords, BeginLogin(c, u, p) PROVE Goal
    BY <2>1, ReadsNowBegin DEF BeginLogin, Kinds
  <2>2. CASE FailLogin(c) \/ CommitLogin(c)
    BY <2>2, ReadsNowEnd DEF FailLogin, CommitLogin
  <2>3. CASE CommitRefresh(c)
    BY <2>3, ReadsNowEnd DEF CommitRefresh
  <2> QED
    BY <1>1, <2>1, <2>2, <2>3, ReadsNowGenerate, ReadsNowRefresh DEF Authenticate
<1>2. ASSUME NEW c \in Calls, ChangeCredentials(c) PROVE Goal
  <2>1. ASSUME NEW u \in Users, NEW p \in Passwords, BeginChange(c, u, p) PROVE Goal
    BY <2>1, ReadsNowBegin DEF BeginChange, Kinds
  <2>2. ASSUME NEW p \in Passwords, CommitChange(c, p) \/ CommitReset(c, p) PROVE Goal
    BY <2>2, ReadsNowEnd DEF CommitChange, CommitReset
  <2>3. ASSUME NEW u \in Users, BeginForgot(c, u) PROVE Goal
    BY <2>3, ReadsNowBegin DEF BeginForgot, Kinds
  <2>4. CASE CommitForgot(c)
    BY <2>4, ReadsNowWrite DEF CommitForgot
  <2>5. CASE SendMail(c)
    BY <2>5, ReadsNowEnd DEF SendMail
  <2>6. ASSUME NEW u \in Users, NEW t \in Tokens, BeginReset(c, u, t) PROVE Goal
    BY <2>6, ReadsNowBegin DEF BeginReset, Kinds
  <2> QED
    BY <1>2, <2>1, <2>2, <2>3, <2>4, <2>5, <2>6 DEF ChangeCredentials
<1>3. ASSUME NEW c \in Calls, Enrol(c) PROVE Goal
  <2>1. ASSUME NEW u \in Users, NEW p \in Passwords, BeginRegister(c, u, p) PROVE Goal
    BY <2>1, ReadsNowBegin DEF BeginRegister, Kinds
  <2>2. CASE CreateUser(c) \/ CommitResend(c)
    BY <2>2, ReadsNowWrite DEF CreateUser, CommitResend
  <2>3. CASE RefuseUser(c) \/ CommitVerify(c)
    BY <2>3, ReadsNowEnd DEF RefuseUser, CommitVerify
  <2>4. ASSUME NEW u \in Users, BeginResend(c, u) PROVE Goal
    BY <2>4, ReadsNowBegin DEF BeginResend, Kinds
  <2>5. ASSUME NEW u \in Users, NEW t \in Tokens, BeginVerify(c, u, t) PROVE Goal
    BY <2>5, ReadsNowBegin DEF BeginVerify, Kinds
  <2> QED
    BY <1>3, <2>1, <2>2, <2>3, <2>4, <2>5 DEF Enrol
<1>4. ASSUME NEW c \in Calls, CallFails(c) PROVE Goal
  BY <1>4, ReadsNowEnd DEF CallFails
<1>5. ASSUME UNCHANGED <<call, misses>> PROVE Goal
  BY <1>5 DEF ReadsNow
<1>6. ASSUME NEW u \in Users, Close(u) PROVE Goal
  BY <1>5, <1>6 DEF Close, LogoutEverywhere, Logout, RevokeSession
<1>7. ASSUME NEW u \in Users, NEW a \in BOOLEAN, NEW d \in BOOLEAN, SetStanding(u, a, d)
      PROVE  Goal
  BY <1>5, <1>7 DEF SetStanding
<1>8. CASE Tick \/ UNCHANGED vars
  BY <1>5, <1>8 DEF Tick, vars
<1> QED
  BY <1>1, <1>2, <1>3, <1>4, <1>6, <1>7, <1>8 DEF Next

\* The failure of a login: its own account.
LEMMA FailureIsPaid ==
  ASSUME AuthInv, NEW c \in Calls, FailLogin(c), NEW u \in Users, u = call[c].user,
         MissesOf(u)
  PROVE  MissesOf(u)'
<1>1. /\ users[u] \in UserRow /\ call[c].row \in UserRow /\ users[u] # NoUser
      /\ At(c, "login", "read")
  BY CallIsGood, RowsAssumption DEF FailLogin, At, GoodCall, RowsAssumption
<1>2. Attempts(c) \in Nat /\ clock + LockDuration # NoTime
      /\ Attempts(c) = call[c].row.loginAttempts + 1 /\ users[u].loginAttempts \in Nat
  BY <1>1 DEF Attempts, UserRow, NoTime, AuthInv, TypeOK
<1>3. /\ users'[u].loginAttempts = Attempts(c)
      /\ users'[u].lockedUntil = IF Attempts(c) >= MaxLoginAttempts
                                 THEN clock + LockDuration ELSE users[u].lockedUntil
      /\ misses'[u] = IF users'[u].lockedUntil = NoTime THEN misses[u] + 1 ELSE 0
  BY <1>1 DEF FailLogin, UserRow, AuthInv, TypeOK
<1>4. call' = [call EXCEPT ![c] = Idle] /\ Idle.op = "idle" /\ call \in [Calls -> CallState]
  BY DEF FailLogin, End, Idle, AuthInv, TypeOK
<1>5. SUFFICES ASSUME users'[u].lockedUntil = NoTime, NEW g \in Above(Counts(u))'
               PROVE  misses[u] + 1 <= g[Top]
  <2>1. Exists(u)'
    <3>1. users'[u] = [users[u] EXCEPT !.loginAttempts = users'[u].loginAttempts,
                                       !.lockedUntil = users'[u].lockedUntil]
      BY <1>1 DEF FailLogin, UserRow, AuthInv, TypeOK
    <3>2. users'[u] \in UserRow
      <4>1. AuthInv'
        BY FailLoginStep
      <4>2. clock + LockDuration \in Time
        BY DEF Time, AuthInv, TypeOK
      <4> QED
        BY <1>1, <1>2, <1>3, <3>1, <4>2 DEF UserRow
    <3> QED
      BY <3>2, RowsAssumption DEF Exists, RowsAssumption
  <2>2. users'[u].lockedUntil = NoTime => misses'[u] = misses[u] + 1
    BY <1>3
  <2> QED
    BY <2>1, <2>2 DEF MissesOf
<1>. PICK a \in Nat : a = Attempts(c)
  BY <1>2
<1>6. a \in 1 .. Top /\ users[u].lockedUntil = NoTime
  <2>1. ~(Attempts(c) >= MaxLoginAttempts)
    BY <1>2, <1>3, <1>5
  <2>2. Attempts(c) \in 1 .. Top
    BY <1>1, <1>2, <2>1, TopIsNatural DEF UserRow
  <2> QED
    BY <1>3, <1>5, <2>1, <2>2
<1>7. ASSUME NEW t \in 1 .. a PROVE Reached(u, t) \subseteq Reached(u, t)'
  <2>1. t <= users'[u].loginAttempts
    BY <1>2, <1>3
  <2> QED
    BY <1>4, <2>1 DEF Reached, At
<1>8. c \in Reached(u, a)' /\ c \notin Reached(u, a)
  <2>1. a <= users'[u].loginAttempts
    BY <1>2, <1>3
  <2>2. ~(a <= call[c].row.loginAttempts)
    BY <1>1, <1>2 DEF UserRow
  <2>3. call'[c].op # "login"
    BY <1>4
  <2>4. c \in Reached(u, a)'
    BY <2>1, <2>3 DEF Reached, At
  <2>5. c \notin Reached(u, a)
    BY <1>1, <2>2 DEF Reached
  <2> QED
    BY <2>4, <2>5
<1>9. ASSUME NEW t \in a + 1 .. Top PROVE Reached(u, t) \subseteq Reached(u, a)
  <2>1. ASSUME NEW i \in Nat, t <= i PROVE a <= i
    BY <1>6, <2>1
  <2>2. users[u].loginAttempts \in Nat
    BY <1>2
  <2>3. \A d \in Calls : At(d, "login", "read") => call[d].row.loginAttempts \in Nat
    BY CallIsGood DEF At, GoodCall, UserRow
  <2> QED
    BY <2>1, <2>2, <2>3 DEF Reached
<1> DEFINE n == Counts(u)
           m == Counts(u)'
<1>10. n \in [1 .. Top -> Nat] /\ m \in [1 .. Top -> Nat]
  BY CountsType
<1>11. ASSUME NEW t \in 1 .. a PROVE n[t] <= m[t]
  <2>1. t \in 1 .. Top
    BY <1>6, TopIsNatural
  <2>2. Cardinality(Reached(u, t)) <= Cardinality(Reached(u, t)')
    BY <1>7, ReachedIsFinite, FS_Subset
  <2> QED
    BY <2>1, <2>2 DEF Counts
<1>12. n[a] + 1 <= m[a]
  <2>1. Reached(u, a) \cup {c} \subseteq Reached(u, a)'
    <3>1. a \in 1 .. a
      BY <1>6
    <3> QED
      BY <1>7, <1>8, <3>1
  <2>2. Cardinality(Reached(u, a) \cup {c}) = Cardinality(Reached(u, a)) + 1
    BY <1>8, ReachedIsFinite, FS_AddElement
  <2>3. Cardinality(Reached(u, a) \cup {c}) <= Cardinality(Reached(u, a)')
    BY <2>1, ReachedIsFinite, FS_Subset
  <2>4. n[a] = Cardinality(Reached(u, a)) /\ m[a] = Cardinality(Reached(u, a)')
    BY <1>6 DEF Counts
  <2> QED
    BY <2>2, <2>3, <2>4
<1>13. ASSUME NEW t \in a + 1 .. Top PROVE n[t] <= n[a]
  <2>1. t \in 1 .. Top
    BY <1>6, TopIsNatural
  <2>2. Cardinality(Reached(u, t)) <= Cardinality(Reached(u, a))
    BY <1>9, ReachedIsFinite, FS_Subset
  <2> QED
    BY <1>6, <2>1, <2>2 DEF Counts
<1>14. g \in Above(m)
  BY <1>5
<1> HIDE DEF n, m
<1>15. PICK f \in Above(n) : f[Top] + 1 <= g[Top]
  BY <1>6, <1>10, <1>11, <1>12, <1>13, <1>14, FailurePays
<1>16. misses[u] <= f[Top]
  BY <1>1, <1>6, <1>15 DEF MissesOf, Exists, n
<1>17. misses[u] \in Nat /\ f[Top] \in Nat /\ g[Top] \in Nat
  BY <1>14, <1>15, TopIsNatural DEF Above, AuthInv, TypeOK
<1> QED
  BY <1>15, <1>16, <1>17

\* A login that ends leaves the other accounts alone, and so do the other steps.
LEMMA OthersAreSteady ==
  ASSUME AuthInv, [Next]_vars, NEW u \in Users,
         \A c \in Calls : call[c].user = u => ~FailLogin(c) /\ ~CommitLogin(c)
  PROVE  Steady(u)
<1>1. \A d \in Calls : ReadsNow(d)
  BY ReadsNowSteps
<1>2. misses'[u] = misses[u]
  <2>1. CASE \A c \in Calls : ~FailLogin(c) /\ ~CommitLogin(c)
    BY <2>1, ReadsNowSteps
  <2>2. ASSUME NEW c \in Calls, FailLogin(c) \/ CommitLogin(c)
        PROVE  misses'[u] = misses[u]
    BY <2>2 DEF FailLogin, CommitLogin, AuthInv, TypeOK
  <2> QED
    BY <2>1, <2>2
<1>3. Exists(u) => /\ Exists(u)'
                   /\ users'[u].loginAttempts = users[u].loginAttempts
                   /\ users'[u].lockedUntil = users[u].lockedUntil
  BY RowsKeepAttempts
<1>4. \A c \in Calls :
        \/ call'[c] = call[c]
        \/ ~(call'[c].op = "login" /\ call'[c].step = "read" /\ call'[c].user = u)
        \/ call'[c].row = users[u]
  BY <1>1 DEF ReadsNow
<1> QED
  BY <1>2, <1>3, <1>4 DEF Steady

LEMMA MissesStep == AuthInv /\ MissesInv /\ [Next]_vars => MissesInv'
<1> SUFFICES ASSUME AuthInv, MissesInv, [Next]_vars, NEW u \in Users PROVE MissesOf(u)'
  BY DEF MissesInv
<1>0. MissesOf(u)
  BY DEF MissesInv
<1>1. ASSUME NEW c \in Calls, call[c].user = u, FailLogin(c) PROVE MissesOf(u)'
  BY <1>0, <1>1, FailureIsPaid
<1>2. ASSUME NEW c \in Calls, call[c].user = u, CommitLogin(c) PROVE MissesOf(u)'
  <2>1. misses'[u] = 0
    BY <1>2 DEF CommitLogin, AuthInv, TypeOK
  <2>2. ASSUME NEW g \in Above(Counts(u))' PROVE misses'[u] <= g[Top]
    <3>1. g[Top] \in Nat
      BY TopIsNatural DEF Above
    <3> QED
      BY <2>1, <3>1
  <2> QED
    BY <2>1, <2>2 DEF MissesOf
<1> QED
  BY <1>0, <1>1, <1>2, OthersAreSteady, SteadyKeeps

LEMMA MissesInit == Init => MissesInv
<1> SUFFICES ASSUME Init, NEW u \in Users PROVE MissesOf(u)
  BY DEF MissesInv
<1>1. misses[u] = 0
  BY DEF Init
<1>2. ASSUME NEW g \in Above(Counts(u)) PROVE misses[u] <= g[Top]
  <2>1. g[Top] \in Nat
    BY TopIsNatural DEF Above
  <2> QED
    BY <1>1, <2>1
<1> QED
  BY <1>1, <1>2 DEF MissesOf

\* handleFailedLogin() writes the counter it read plus one.  However many logins
\* overlap, with whatever crashes and successes in between, the wrong passwords
\* that an account takes before it is locked stay below the ways to choose as
\* many values under the limit as there are handlers.
THEOREM MissesAreBounded == Spec => []MissesBounded
<1>1. AuthInv /\ MissesInv => MissesBounded
  <2> SUFFICES ASSUME AuthInv, MissesInv, NEW u \in Users, Exists(u),
                      users[u].lockedUntil = NoTime
               PROVE  misses[u] < choose(MaxLoginAttempts + Cardinality(Calls) - 1,
                                         Cardinality(Calls))
    BY DEF MissesBounded
  <2> DEFINE k == Cardinality(Calls)
  <2>1. k \in Nat /\ Counts(u) \in [1 .. Top -> 0 .. k]
    BY CallsAreFinite, CountsType
  <2> HIDE DEF k
  <2>2. PICK g \in Above(Counts(u)) : g[Top] = Ways(Top, k) - 1
    BY <2>1, SomeAbove
  <2>3. misses[u] <= g[Top]
    BY <2>2 DEF MissesInv, MissesOf
  <2>4. Top + k = MaxLoginAttempts + k - 1
    BY <2>1, TopIsNatural
  <2>5. Ways(Top, k) = choose(MaxLoginAttempts + k - 1, k)
    BY <2>4, Zenon DEF Ways
  <2>6. Ways(Top, k) \in Nat /\ misses[u] \in Nat
    BY <2>1, TopIsNatural, Pascal DEF AuthInv, TypeOK
  <2>7. misses[u] < Ways(Top, k)
    BY <2>2, <2>3, <2>6
  <2> QED
    BY <2>5, <2>7 DEF k
<1> QED
  BY <1>1, MissesInit, MissesStep, AuthInvHolds, PTL DEF Spec

-----------------------------------------------------------------------------
(* The guards of a request: RequestAccess, as MCAccounts instantiates it *)

AccessTypes ==
  /\ accounts \in [Actors -> Access!Account] /\ tokens \subseteq Access!Token
  /\ signing \in [Signers -> Access!Signing \cup {NoHandler}]
  /\ request \in [Guarded -> Access!Request \cup {NoRequest}]
  /\ instant \in Nat /\ lost \in [Actors -> [Roles -> Nat]]
LostInv == \A u \in Actors, role \in Roles : lost[u][role] <= instant
\* What was looked up was true then, and is not of the future.
SigningInv ==
  \A h \in Signers : signing[h] # NoHandler =>
    /\ signing[h].lookedUp <= instant
    /\ signing[h].lookedUp <= Access!LastHeld(signing[h].sub, signing[h].role)
SignedInv ==
  \A t \in tokens :
    /\ t.lookedUp <= t.iat /\ t.iat <= instant
    /\ t.lookedUp <= Access!LastHeld(t.sub, t.role)
\* A request's token was signed and had not expired; the tenant that its user
\* has until the request is admitted, and the one it is admitted with, were seen.
RequestsInv ==
  \A r \in Guarded : request[r] # NoRequest =>
    /\ request[r].token \in tokens
    /\ request[r].since < request[r].token.iat + Lifetime
    /\ request[r].step = "presented" => accounts[request[r].token.sub].tenant \in request[r].had
    /\ request[r].step = "admitted" => request[r].tenant \in request[r].had
AccessInv == AccessTypes /\ LostInv /\ SigningInv /\ SignedInv /\ RequestsInv

LEMMA AccessStarts ==
  ASSUME Access!Init PROVE AccessInv
  BY AccessAssumption, SMT
  DEF Access!Init, AccessInv, AccessTypes, LostInv, SigningInv, SignedInv, RequestsInv

\* A role changes hands in steps that keep when it was last held.
LEMMA HeldLonger ==
  ASSUME AccessInv, [Access!Next]_Access!vars, NEW u \in Actors, NEW role \in Roles
  PROVE  /\ Access!LastHeld(u, role) \in Nat /\ instant' \in Nat /\ instant <= instant'
         /\ Access!LastHeld(u, role) <= Access!LastHeld(u, role)'
         /\ lost'[u][role] \in Nat /\ lost'[u][role] <= instant'
<1>1. /\ instant \in Nat /\ lost[u][role] \in Nat /\ lost[u][role] <= instant
      /\ lost \in [Actors -> [Roles -> Nat]] /\ lost[u] \in [Roles -> Nat]
  BY DEF AccessInv, AccessTypes, LostInv
<1>2. CASE accounts' = accounts /\ lost' = lost /\ (instant' = instant \/ instant' = instant + 1)
  BY <1>1, <1>2 DEF Access!LastHeld
<1>3. ASSUME NEW v \in Actors, NEW account \in Access!Account,
             Access!ChangeAccount(v, account)
      PROVE  /\ Access!LastHeld(u, role) \in Nat /\ instant' \in Nat /\ instant <= instant'
             /\ Access!LastHeld(u, role) <= Access!LastHeld(u, role)'
             /\ lost'[u][role] \in Nat /\ lost'[u][role] <= instant'
  <2>1. /\ accounts' = [accounts EXCEPT ![v] = account] /\ instant' = instant
        /\ accounts \in [Actors -> Access!Account]
    BY <1>3 DEF Access!ChangeAccount, AccessInv, AccessTypes
  <2>2. CASE u # v
    <3>1. lost'[u] = lost[u]
      BY <1>1, <1>3, <2>2 DEF Access!ChangeAccount
    <3> QED  BY <1>1, <2>1, <2>2, <3>1 DEF Access!LastHeld
  <2>3. CASE u = v /\ account.role = accounts[u].role
    <3>1. lost' = lost
      BY <1>3, <2>3 DEF Access!ChangeAccount
    <3> QED  BY <1>1, <2>1, <2>3, <3>1 DEF Access!LastHeld
  <2>4. CASE u = v /\ account.role # accounts[u].role
    <3>1. lost' = [lost EXCEPT ![u][accounts[u].role] = instant]
      BY <1>3, <2>4 DEF Access!ChangeAccount
    <3>2. lost'[u][role] = IF role = accounts[u].role THEN instant ELSE lost[u][role]
      BY <1>1, <3>1
    <3> QED  BY <1>1, <2>1, <2>4, <3>2 DEF Access!LastHeld
  <2> QED  BY <2>2, <2>3, <2>4
<1>4. CASE Access!Tick
  BY <1>2, <1>4 DEF Access!Tick
<1>5. CASE UNCHANGED Access!vars
  BY <1>2, <1>5 DEF Access!vars
<1> QED
  BY <1>2, <1>3, <1>4, <1>5
  DEF Access!Next, Access!Login, Access!Refresh, Access!LookUp, Access!GenerateTokens,
      Access!Present, Access!Admit, Access!Leave

\* What was true of a token, a lookup and a loss stays true.
LEMMA PastStands ==
  ASSUME AccessInv, [Access!Next]_Access!vars
  PROVE  /\ LostInv'
         /\ \A t \in tokens : /\ t.lookedUp <= t.iat /\ t.iat <= instant'
                              /\ t.lookedUp <= Access!LastHeld(t.sub, t.role)'
         /\ \A h \in Signers, s \in Access!Signing : s = signing[h] =>
              s.lookedUp <= instant' /\ s.lookedUp <= Access!LastHeld(s.sub, s.role)'
<1>1. LostInv'
  BY HeldLonger DEF LostInv
<1>2. ASSUME NEW t \in tokens
      PROVE  /\ t.lookedUp <= t.iat /\ t.iat <= instant'
             /\ t.lookedUp <= Access!LastHeld(t.sub, t.role)'
  <2>1. t.sub \in Actors /\ t.role \in Roles /\ t.iat \in Nat /\ t.lookedUp \in Nat
    BY DEF AccessInv, AccessTypes, Access!Token
  <2>2. /\ t.lookedUp <= t.iat /\ t.iat <= instant /\ instant \in Nat
        /\ t.lookedUp <= Access!LastHeld(t.sub, t.role)
    BY DEF AccessInv, AccessTypes, SignedInv
  <2> DEFINE before == Access!LastHeld(t.sub, t.role)
  <2> DEFINE after == Access!LastHeld(t.sub, t.role)'
  <2>3. /\ before \in Nat /\ before <= after /\ instant' \in Nat /\ instant <= instant'
    BY <2>1, HeldLonger
  <2>4. after \in Nat
    BY <2>1, HeldLonger DEF Access!LastHeld
  <2> HIDE DEF before, after
  <2>5. t.lookedUp <= after /\ t.iat <= instant'
    <3>1. t.lookedUp <= before
      BY <2>2 DEF before
    <3> QED  BY <2>1, <2>2, <2>3, <2>4, <3>1
  <2> QED  BY <2>2, <2>5 DEF after
<1>3. ASSUME NEW h \in Signers, NEW s \in Access!Signing, s = signing[h]
      PROVE  s.lookedUp <= instant' /\ s.lookedUp <= Access!LastHeld(s.sub, s.role)'
  <2>1. s.sub \in Actors /\ s.role \in Roles /\ s.lookedUp \in Nat
    BY DEF Access!Signing
  <2>2. /\ s.lookedUp <= instant /\ instant \in Nat
        /\ s.lookedUp <= Access!LastHeld(s.sub, s.role)
    BY <1>3, AccessAssumption DEF AccessInv, AccessTypes, SigningInv
  <2> DEFINE before == Access!LastHeld(s.sub, s.role)
  <2> DEFINE after == Access!LastHeld(s.sub, s.role)'
  <2>3. /\ before \in Nat /\ before <= after /\ instant' \in Nat /\ instant <= instant'
    BY <2>1, HeldLonger
  <2>4. after \in Nat
    BY <2>1, HeldLonger DEF Access!LastHeld
  <2>5. s.lookedUp <= before
    BY <2>2
  <2> HIDE DEF before, after
  <2>6. s.lookedUp <= after /\ s.lookedUp <= instant'
    BY <2>1, <2>2, <2>3, <2>4, <2>5
  <2> QED  BY <2>6 DEF after
<1> QED  BY <1>1, <1>2, <1>3

LEMMA LookUpKeepsAccess ==
  ASSUME AccessInv, NEW h \in Signers, NEW u \in Actors,
         Access!LookUp(h, u, accounts[u].role)
  PROVE  AccessInv'
<1> DEFINE row == [sub |-> u, role |-> accounts[u].role, tenant |-> accounts[u].tenant,
                   lookedUp |-> instant]
<1>1. /\ signing' = [signing EXCEPT ![h] = row]
      /\ UNCHANGED <<accounts, tokens, request, instant, lost>>
  BY DEF Access!LookUp
<1>2. accounts[u] \in Access!Account /\ instant \in Nat
  BY DEF AccessInv, AccessTypes
<1>3. row \in Access!Signing /\ row.lookedUp = instant /\ row.sub = u
      /\ row.role = accounts[u].role
  BY <1>2 DEF Access!Account, Access!Signing
<1> HIDE DEF row
<1>4. AccessTypes'
  BY <1>1, <1>3 DEF AccessInv, AccessTypes
<1>5. SigningInv'
  BY <1>1, <1>2, <1>3 DEF AccessInv, AccessTypes, SigningInv, Access!LastHeld
<1>6. SignedInv' /\ LostInv' /\ RequestsInv'
  BY <1>1 DEF AccessInv, SignedInv, LostInv, RequestsInv, Access!LastHeld
<1> QED  BY <1>4, <1>5, <1>6 DEF AccessInv

LEMMA GenerateTokensKeepsAccess ==
  ASSUME AccessInv, NEW h \in Signers, Access!GenerateTokens(h)
  PROVE  AccessInv'
<1> DEFINE u == signing[h]
<1> DEFINE token == [sub |-> u.sub, role |-> u.role, tenant |-> u.tenant,
                     iat |-> instant, lookedUp |-> u.lookedUp]
<1>1. /\ tokens' = tokens \cup {token} /\ signing' = [signing EXCEPT ![h] = NoHandler]
      /\ u # NoHandler /\ UNCHANGED <<accounts, request, instant, lost>>
  BY DEF Access!GenerateTokens
<1>2. u \in Access!Signing /\ instant \in Nat
  BY <1>1 DEF AccessInv, AccessTypes
<1>3. u.lookedUp <= instant /\ u.lookedUp <= Access!LastHeld(u.sub, u.role)
  BY <1>1 DEF AccessInv, SigningInv
<1>4. /\ token \in Access!Token /\ token.iat = instant /\ token.lookedUp = u.lookedUp
      /\ token.sub = u.sub /\ token.role = u.role
  BY <1>2 DEF Access!Signing, Access!Token
<1> HIDE DEF token, u
<1>5. AccessTypes'
  BY <1>1, <1>4 DEF AccessInv, AccessTypes
<1>6. SigningInv' /\ LostInv' /\ RequestsInv'
  BY <1>1 DEF AccessInv, AccessTypes, SigningInv, LostInv, RequestsInv, Access!LastHeld
<1>7. SignedInv'
  BY <1>1, <1>2, <1>3, <1>4 DEF AccessInv, SignedInv, Access!LastHeld
<1> QED  BY <1>5, <1>6, <1>7 DEF AccessInv

\* The steps of a request, which write nothing but its own row.
LEMMA RequestStepKeepsAccess ==
  ASSUME AccessInv, NEW r \in Guarded,
         \/ \E t \in tokens, roles \in Endpoints : Access!Present(r, t, roles)
         \/ Access!Admit(r) \/ Access!Leave(r)
  PROVE  AccessInv'
<1>1. UNCHANGED <<accounts, tokens, signing, instant, lost>>
  BY DEF Access!Present, Access!Admit, Access!Leave
<1>2. SigningInv' /\ SignedInv' /\ LostInv'
  BY <1>1 DEF AccessInv, SigningInv, SignedInv, LostInv, Access!LastHeld
<1>3. SUFFICES \E q \in Access!Request \cup {NoRequest} :
        /\ request' = [request EXCEPT ![r] = q]
        /\ q # NoRequest =>
             /\ q.token \in tokens /\ q.since < q.token.iat + Lifetime
             /\ q.step = "presented" => accounts[q.token.sub].tenant \in q.had
             /\ q.step = "admitted" => q.tenant \in q.had
  <2>1. PICK q \in Access!Request \cup {NoRequest} :
        /\ request' = [request EXCEPT ![r] = q]
        /\ q # NoRequest =>
             /\ q.token \in tokens /\ q.since < q.token.iat + Lifetime
             /\ q.step = "presented" => accounts[q.token.sub].tenant \in q.had
             /\ q.step = "admitted" => q.tenant \in q.had
    BY <1>3
  <2>2. AccessTypes'
    BY <1>1, <2>1 DEF AccessInv, AccessTypes
  <2>3. RequestsInv'
    BY <1>1, <2>1 DEF AccessInv, AccessTypes, RequestsInv
  <2> QED  BY <1>2, <2>2, <2>3 DEF AccessInv
<1>4. request \in [Guarded -> Access!Request \cup {NoRequest}]
  BY DEF AccessInv, AccessTypes
<1>5. ASSUME NEW t \in tokens, NEW roles \in Endpoints, Access!Present(r, t, roles)
      PROVE  \E q \in Access!Request \cup {NoRequest} :
        /\ request' = [request EXCEPT ![r] = q]
        /\ q # NoRequest =>
             /\ q.token \in tokens /\ q.since < q.token.iat + Lifetime
             /\ q.step = "presented" => accounts[q.token.sub].tenant \in q.had
             /\ q.step = "admitted" => q.tenant \in q.had
  <2> DEFINE q == [token |-> t, roles |-> roles, tenant |-> NoTenant, step |-> "presented",
                   since |-> instant, had |-> {accounts[t.sub].tenant}]
  <2>1. t \in Access!Token /\ accounts[t.sub] \in Access!Account /\ instant \in Nat
    BY DEF AccessInv, AccessTypes, Access!Token
  <2>2. /\ q \in Access!Request /\ q.token = t /\ q.since = instant
        /\ q.step = "presented" /\ q.had = {accounts[t.sub].tenant}
    BY <2>1, AccessAssumption DEF Access!Account, Access!Request
  <2>3. request' = [request EXCEPT ![r] = q] /\ instant < t.iat + Lifetime
    BY <1>5 DEF Access!Present
  <2> HIDE DEF q
  <2> QED  BY <2>2, <2>3
<1>6. CASE Access!Admit(r)
  <2> DEFINE was == request[r]
  <2> DEFINE tenant == accounts[was.token.sub].tenant
  <2> DEFINE q == [was EXCEPT !.step = "admitted", !.tenant = tenant]
  <2>1. /\ was # NoRequest /\ was.step = "presented" /\ was \in Access!Request
        /\ request' = [request EXCEPT ![r] = q]
    BY <1>4, <1>6 DEF Access!Admit
  <2>2. accounts[was.token.sub] \in Access!Account
    BY <2>1 DEF AccessInv, AccessTypes, Access!Request, Access!Token
  <2>3. /\ was.token \in tokens /\ was.since < was.token.iat + Lifetime /\ tenant \in was.had
    BY <2>1 DEF AccessInv, RequestsInv
  <2> HIDE DEF was
  <2>4. /\ q \in Access!Request /\ q.token = was.token /\ q.since = was.since
        /\ q.step = "admitted" /\ q.had = was.had /\ q.tenant = tenant
    BY <2>1, <2>2 DEF Access!Account, Access!Request
  <2> HIDE DEF q, tenant
  <2> QED  BY <2>1, <2>3, <2>4
<1>7. CASE Access!Leave(r)
  BY <1>7 DEF Access!Leave
<1> QED  BY <1>5, <1>6, <1>7

LEMMA ChangeAccountKeepsAccess ==
  ASSUME AccessInv, NEW u \in Actors, NEW account \in Access!Account,
         Access!ChangeAccount(u, account)
  PROVE  AccessInv'
<1>1. /\ accounts' = [accounts EXCEPT ![u] = account]
      /\ UNCHANGED <<tokens, signing, instant>>
      /\ request' = [r \in Guarded |->
           IF request[r] # NoRequest /\ request[r].token.sub = u
              /\ request[r].step = "presented"
           THEN [request[r] EXCEPT !.had = @ \cup {account.tenant}] ELSE request[r]]
  BY DEF Access!ChangeAccount
<1>2. LostInv' /\ SigningInv' /\ SignedInv'
  <2>1. Access!Next
    BY DEF Access!Next
  <2>2. signing \in [Signers -> Access!Signing \cup {NoHandler}]
    BY DEF AccessInv, AccessTypes
  <2> QED  BY <1>1, <2>1, <2>2, PastStands DEF SigningInv, SignedInv
<1>3. ASSUME NEW r \in Guarded
      PROVE  /\ request'[r] \in Access!Request \cup {NoRequest}
             /\ request'[r] # NoRequest =>
                  /\ request'[r].token \in tokens
                  /\ request'[r].since < request'[r].token.iat + Lifetime
                  /\ request'[r].step = "presented" =>
                       accounts'[request'[r].token.sub].tenant \in request'[r].had
                  /\ request'[r].step = "admitted" => request'[r].tenant \in request'[r].had
  <2> DEFINE was == request[r]
  <2>1. /\ was \in Access!Request \cup {NoRequest}
        /\ was # NoRequest =>
             /\ was.token \in tokens /\ was.since < was.token.iat + Lifetime
             /\ was.step = "presented" => accounts[was.token.sub].tenant \in was.had
             /\ was.step = "admitted" => was.tenant \in was.had
        /\ accounts \in [Actors -> Access!Account]
    BY DEF AccessInv, AccessTypes, RequestsInv
  <2> HIDE DEF was
  <2>2. CASE was # NoRequest /\ was.token.sub = u /\ was.step = "presented"
    <3> DEFINE q == [was EXCEPT !.had = @ \cup {account.tenant}]
    <3>1. request'[r] = q /\ was \in Access!Request
      BY <1>1, <2>1, <2>2 DEF was
    <3>2. /\ q \in Access!Request /\ q.token = was.token /\ q.since = was.since
          /\ q.step = "presented" /\ account.tenant \in q.had
      BY <2>2, <3>1 DEF Access!Account, Access!Request
    <3> HIDE DEF q
    <3> QED  BY <1>1, <2>1, <2>2, <3>1, <3>2
  <2>3. CASE ~(was # NoRequest /\ was.token.sub = u /\ was.step = "presented")
    <3>1. request'[r] = was
      BY <1>1, <2>3 DEF was
    <3>2. CASE was # NoRequest
      <4>1. was.token.sub \in Actors
        BY <2>1, <3>2 DEF Access!Request, Access!Token
      <4>2. was.step = "presented" => accounts'[was.token.sub] = accounts[was.token.sub]
        BY <1>1, <2>1, <2>3, <3>2, <4>1
      <4> QED  BY <2>1, <3>1, <3>2, <4>2
    <3> QED  BY <2>1, <3>1, <3>2
  <2> QED  BY <2>2, <2>3
<1>4. AccessTypes'
  <2>1. request' \in [Guarded -> Access!Request \cup {NoRequest}]
    BY <1>1, <1>3
  <2>2. lost' \in [Actors -> [Roles -> Nat]]
    <3>1. /\ lost \in [Actors -> [Roles -> Nat]] /\ instant \in Nat
          /\ accounts[u] \in Access!Account
      BY DEF AccessInv, AccessTypes
    <3>2. accounts[u].role \in Roles
      BY <3>1 DEF Access!Account
    <3>3. [lost[u] EXCEPT ![accounts[u].role] = instant] \in [Roles -> Nat]
      BY <3>1, <3>2
    <3> QED  BY <3>1, <3>3 DEF Access!ChangeAccount
  <2> QED  BY <1>1, <2>1, <2>2 DEF AccessInv, AccessTypes
<1>5. RequestsInv'
  BY <1>1, <1>3 DEF RequestsInv
<1> QED  BY <1>2, <1>4, <1>5 DEF AccessInv

LEMMA AccessStep ==
  ASSUME AccessInv, [Access!Next]_Access!vars
  PROVE  AccessInv'
<1>1. ASSUME NEW h \in Signers, NEW u \in Actors, Access!Login(h, u)
      PROVE  AccessInv'
  BY <1>1, LookUpKeepsAccess DEF Access!Login
<1>2. ASSUME NEW h \in Signers, NEW t \in tokens, Access!Refresh(h, t)
      PROVE  AccessInv'
  <2>1. t.sub \in Actors
    BY DEF AccessInv, AccessTypes, Access!Token
  <2> QED  BY <1>2, <2>1, LookUpKeepsAccess DEF Access!Refresh
<1>3. ASSUME NEW h \in Signers, Access!GenerateTokens(h)
      PROVE  AccessInv'
  BY <1>3, GenerateTokensKeepsAccess
<1>4. ASSUME NEW r \in Guarded,
             \/ \E t \in tokens, roles \in Endpoints : Access!Present(r, t, roles)
             \/ Access!Admit(r) \/ Access!Leave(r)
      PROVE  AccessInv'
  BY <1>4, RequestStepKeepsAccess
<1>5. ASSUME NEW u \in Actors, NEW account \in Access!Account,
             Access!ChangeAccount(u, account)
      PROVE  AccessInv'
  BY <1>5, ChangeAccountKeepsAccess
<1>6. CASE Access!Tick
  <2>1. /\ instant' = instant + 1
        /\ UNCHANGED <<accounts, tokens, signing, request, lost>>
    BY <1>6 DEF Access!Tick
  <2>2. AccessTypes' /\ RequestsInv'
    BY <2>1 DEF AccessInv, AccessTypes, RequestsInv
  <2>3. signing \in [Signers -> Access!Signing \cup {NoHandler}]
    BY DEF AccessInv, AccessTypes
  <2> QED  BY <2>1, <2>2, <2>3, PastStands DEF AccessInv, SigningInv, SignedInv
<1>7. CASE UNCHANGED Access!vars
  BY <1>7
  DEF Access!vars, AccessInv, AccessTypes, LostInv, SigningInv, SignedInv, RequestsInv,
      Access!LastHeld
<1> QED
  BY <1>1, <1>2, <1>3, <1>4, <1>5, <1>6, <1>7 DEF Access!Next

THEOREM AccessHolds == Access!Spec => []AccessInv
  BY AccessStarts, AccessStep, PTL DEF Access!Spec

\* A role that was taken away serves at most as long as an access token lives
\* and as its login or refresh took, whoever refreshes and however often: for
\* every lifetime, number of requests and administrator.
THEOREM RolesAreRecent == Access!Spec => []RoleIsRecent
<1>1. AccessInv => RoleIsRecent
  <2> SUFFICES ASSUME AccessInv, NEW r \in Guarded, Access!Admitted(r)
               PROVE  LET t == request[r].token IN
                      request[r].since < Access!LastHeld(t.sub, t.role)
                                         + (t.iat - t.lookedUp) + Lifetime
    BY DEF RoleIsRecent, Access!RoleIsRecent
  <2> DEFINE t == request[r].token
  <2> DEFINE held == Access!LastHeld(t.sub, t.role)
  <2>1. /\ request[r] \in Access!Request /\ t \in tokens
        /\ request[r].since < t.iat + Lifetime
    BY DEF Access!Admitted, AccessInv, AccessTypes, RequestsInv
  <2>2. /\ t \in Access!Token /\ request[r].since \in Nat
    BY <2>1 DEF AccessInv, AccessTypes, Access!Request
  <2>3. t.lookedUp <= held /\ held \in Nat
    BY <2>1, <2>2 DEF AccessInv, AccessTypes, SignedInv, Access!LastHeld, Access!Token
  <2>4. t.iat \in Nat /\ t.lookedUp \in Nat /\ Lifetime \in Nat
    BY <2>2, AccessAssumption DEF Access!Token
  <2> HIDE DEF held, t
  <2>5. request[r].since < held + (t.iat - t.lookedUp) + Lifetime
    BY <2>1, <2>2, <2>3, <2>4
  <2> QED  BY <2>5 DEF held, t
<1> QED  BY <1>1, AccessHolds, PTL

\* The tenant a request acts in is one its user had since the request came,
\* whatever its token was signed with.
THEOREM TenantsAreCurrent == Access!Spec => []TenantIsCurrent
<1>1. AccessInv => TenantIsCurrent
  BY DEF TenantIsCurrent, Access!TenantIsCurrent, Access!Admitted, AccessInv, RequestsInv
<1> QED  BY <1>1, AccessHolds, PTL
=============================================================================
