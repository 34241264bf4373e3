--------------------------- MODULE DatapathProofs ---------------------------
(***************************************************************************)
(* One instruction through IF, ID, EX, MEM and WB, for every operand and   *)
(* every well-formed instruction: what the datapath's invariants say holds *)
(* whatever the tests, the contents of the memory and the width of a byte  *)
(* (2, 4 or 8 bits) are.                                                   *)
(*                                                                         *)
(* The argument, in the order of the sections: powers of two, numbers as   *)
(* digits and as sets of bits; what a word holds and what the fields and   *)
(* the immediates cut out of it are; what ID makes of it; the width of     *)
(* what EX computes; the invariant OneTest, by which the state at each     *)
(* stage is computed from the test; the arithmetic of EX against that of   *)
(* the manual; and the comparison, one lemma to a group of instructions.   *)
(***************************************************************************)
EXTENDS DatapathConformance, TLAPS, WellFoundedInduction

-----------------------------------------------------------------------------
(* Numbers. *)

\* A set with zero and the successor of each of its members has every number.
LEMMA Induction ==
  ASSUME NEW S, 0 \in S, \A n \in Nat : n \in S => n + 1 \in S
  PROVE  \A n \in Nat : n \in S
<1> DEFINE T == Nat \ S
           R == OpToRel(<, Nat)
<1>1. SUFFICES ASSUME T # {} PROVE FALSE
  OBVIOUS
<1>2. PICK x \in T : \A y \in T : ~ (<<y, x>> \in R)
  <2>1. IsWellFoundedOn(R, Nat) /\ T \subseteq Nat
    BY NatLessThanWellFounded
  <2> HIDE DEF R, T
  <2> QED BY <1>1, <2>1, WFMin
<1>3. x \in Nat /\ x # 0 /\ x - 1 \in Nat /\ (x - 1) + 1 = x
  OBVIOUS
<1>4. <<x - 1, x>> \in R
  BY <1>3 DEF OpToRel
<1>5. x - 1 \in S
  BY <1>2, <1>3, <1>4
<1> QED BY <1>3, <1>5

\* The sequences that follow a recursion for n steps.
Approx(b, g, n) ==
  {h \in [0 .. n -> Int] : h[0] = b /\ \A k \in 0 .. n - 1 : h[k + 1] = g[k][h[k]]}

\* They agree as far as both go.
LEMMA ApproxAgree ==
  ASSUME NEW b \in Int, NEW g \in [Nat -> [Int -> Int]], NEW m \in Nat, NEW n \in Nat, m <= n,
         NEW h \in Approx(b, g, m), NEW i \in Approx(b, g, n)
  PROVE  \A k \in 0 .. m : h[k] = i[k]
<1> DEFINE S == {k \in Nat : k <= m => h[k] = i[k]}
<1>1. 0 \in S
  BY DEF Approx
<1>2. \A k \in Nat : k \in S => k + 1 \in S
  <2> SUFFICES ASSUME NEW k \in Nat, k \in S, k + 1 <= m PROVE h[k + 1] = i[k + 1]
    OBVIOUS
  <2>1. k \in 0 .. m - 1 /\ k \in 0 .. n - 1 /\ h[k] = i[k]
    OBVIOUS
  <2>2. h[k + 1] = g[k][h[k]] /\ i[k + 1] = g[k][i[k]]
    BY <2>1 DEF Approx
  <2> QED BY <2>1, <2>2
<1> HIDE DEF S
<1>3. \A k \in Nat : k \in S
  BY <1>1, <1>2, Induction
<1> QED BY <1>3 DEF S

\* A recursion over the numbers defines a function.
LEMMA Recursion ==
  ASSUME NEW b \in Int, NEW g \in [Nat -> [Int -> Int]]
  PROVE  \E f \in [Nat -> Int] : f[0] = b /\ \A n \in Nat : f[n + 1] = g[n][f[n]]
<1> DEFINE S == {n \in Nat : Approx(b, g, n) # {}}
<1>1. 0 \in S
  <2>1. [k \in 0 .. 0 |-> b] \in Approx(b, g, 0)
    BY DEF Approx
  <2> QED BY <2>1
<1>2. \A n \in Nat : n \in S => n + 1 \in S
  <2> SUFFICES ASSUME NEW n \in Nat, NEW h \in Approx(b, g, n) PROVE Approx(b, g, n + 1) # {}
    OBVIOUS
  <2> DEFINE i == [k \in 0 .. n + 1 |-> IF k <= n THEN h[k] ELSE g[n][h[n]]]
  <2>1. h \in [0 .. n -> Int] /\ h[0] = b /\ (\A k \in 0 .. n - 1 : h[k + 1] = g[k][h[k]])
    BY DEF Approx
  <2>2. i \in [0 .. n + 1 -> Int] /\ i[0] = b
    <3>1. g[n][h[n]] \in Int
      BY <2>1
    <3> QED BY <2>1, <3>1
  <2>3. ASSUME NEW k \in 0 .. (n + 1) - 1 PROVE i[k + 1] = g[k][i[k]]
    <3>1. CASE k = n
      BY <2>1, <3>1
    <3>2. CASE k # n
      <4>1. k \in 0 .. n - 1 /\ k <= n /\ k + 1 <= n
        BY <3>2
      <4> QED BY <2>1, <4>1
    <3> QED BY <3>1, <3>2
  <2>4. i \in Approx(b, g, n + 1)
    <3> HIDE DEF i
    <3> QED BY <2>2, <2>3 DEF Approx
  <2> QED BY <2>4
<1>3. \A n \in Nat : Approx(b, g, n) # {}
  <2> HIDE DEF S
  <2>1. \A n \in Nat : n \in S
    BY <1>1, <1>2, Induction
  <2> QED BY <2>1 DEF S
<1> DEFINE c == [n \in Nat |-> CHOOSE h \in Approx(b, g, n) : TRUE]
           f == [n \in Nat |-> c[n][n]]
<1>4. \A n \in Nat : c[n] \in Approx(b, g, n)
  BY <1>3
<1> HIDE DEF c
<1>5. \A n \in Nat : c[n] \in [0 .. n -> Int]
  BY <1>4 DEF Approx
<1>6. f \in [Nat -> Int]
  <2>1. \A n \in Nat : n \in 0 .. n /\ c[n][n] \in Int
    BY <1>5
  <2> QED BY <2>1
<1>7. f[0] = b
  BY <1>4 DEF Approx
<1>8. ASSUME NEW n \in Nat PROVE f[n + 1] = g[n][f[n]]
  <2>1. c[n + 1][n] = c[n][n]
    <3>1. c[n] \in Approx(b, g, n) /\ c[n + 1] \in Approx(b, g, n + 1) /\ n <= n + 1 /\ n + 1 \in Nat
      BY <1>4
    <3>2. \A k \in 0 .. n : c[n][k] = c[n + 1][k]
      BY <3>1, ApproxAgree
    <3> QED BY <3>2
  <2>2. c[n + 1][n + 1] = g[n][c[n + 1][n]]
    <3>1. c[n + 1] \in Approx(b, g, n + 1) /\ n \in 0 .. (n + 1) - 1
      BY <1>4
    <3> QED BY <3>1 DEF Approx
  <2> QED BY <2>1, <2>2
<1> HIDE DEF f
<1> QED BY <1>6, <1>7, <1>8

\* The powers of two are what their definition says.
LEMMA TwoIs == Two \in [Nat -> Int] /\ Two[0] = 1 /\ \A n \in Nat : Two[n + 1] = 2 * Two[n]
<1> DEFINE g == [n \in Nat |-> [x \in Int |-> 2 * x]]
<1>1. PICK f \in [Nat -> Int] : f[0] = 1 /\ \A n \in Nat : f[n + 1] = g[n][f[n]]
  <2>1. g \in [Nat -> [Int -> Int]]
    OBVIOUS
  <2>2. 1 \in Int
    OBVIOUS
  <2> HIDE DEF g
  <2> QED BY <2>1, <2>2, Recursion
<1>2. \A n \in Nat : f[n + 1] = 2 * f[n]
  BY <1>1
<1>3. f = [n \in Nat |-> IF n = 0 THEN 1 ELSE 2 * f[n - 1]]
  <2>1. ASSUME NEW n \in Nat PROVE f[n] = IF n = 0 THEN 1 ELSE 2 * f[n - 1]
    <3>1. n # 0 => n - 1 \in Nat /\ n = (n - 1) + 1
      OBVIOUS
    <3> QED BY <1>1, <1>2, <3>1
  <2> QED BY <2>1
<1>4. Two = [n \in Nat |-> IF n = 0 THEN 1 ELSE 2 * Two[n - 1]]
  BY <1>3, Zenon DEF Two
<1>5. ASSUME NEW n \in Nat PROVE Two[n + 1] = 2 * Two[n]
  <2>1. n + 1 \in Nat /\ n + 1 # 0 /\ (n + 1) - 1 = n
    OBVIOUS
  <2> QED BY <1>4, <2>1
<1>6. Two[0] = 1
  BY <1>4
<1> DEFINE S == {n \in Nat : Two[n] \in Int}
<1>7. \A n \in Nat : n \in S
  <2>1. 0 \in S
    BY <1>6
  <2>2. \A n \in Nat : n \in S => n + 1 \in S
    BY <1>5
  <2> HIDE DEF S
  <2> QED BY <2>1, <2>2, Induction
<1>8. Two \in [Nat -> Int]
  <2>1. \A n \in Nat : Two[n] \in Int
    BY <1>7
  <2> QED BY <1>4, <2>1
<1> QED BY <1>5, <1>6, <1>8

\* A number is its quotient and its remainder.
LEMMA DivRem ==
  ASSUME NEW x \in Int, NEW m \in Nat \ {0}
  PROVE  x \div m \in Int /\ x % m \in 0 .. m - 1 /\ x = m * (x \div m) + (x % m)
OBVIOUS

\* A quotient and a remainder that fit are those of \div and %.
LEMMA DivIs ==
  ASSUME NEW x \in Int, NEW m \in Nat \ {0}, NEW q \in Int, NEW r \in 0 .. m - 1, x = m * q + r
  PROVE  x \div m = q /\ x % m = r
<1> DEFINE p == x \div m
           s == x % m
<1>1. p \in Int /\ s \in 0 .. m - 1 /\ x = m * p + s
  BY DivRem
<1> HIDE DEF p, s
<1>2. p = q
  <2>1. CASE p >= q + 1
    <3>1. m * p >= m * (q + 1)
      BY <1>1, <2>1
    <3>2. m * (q + 1) = m * q + m
      OBVIOUS
    <3>3. m * p \in Int /\ m * q \in Int
      BY <1>1
    <3> QED BY <1>1, <3>1, <3>2, <3>3
  <2>2. CASE q >= p + 1
    <3>1. m * q >= m * (p + 1)
      BY <1>1, <2>2
    <3>2. m * (p + 1) = m * p + m
      BY <1>1
    <3>3. m * p \in Int /\ m * q \in Int
      BY <1>1
    <3> QED BY <1>1, <3>1, <3>2, <3>3
  <2> QED BY <1>1, <2>1, <2>2
<1>3. s = r
  <2>1. m * p = m * q /\ m * q \in Int
    BY <1>2
  <2> QED BY <1>1, <2>1
<1> QED BY <1>2, <1>3 DEF p, s

\* They are positive, and the first is the only odd one.
LEMMA TwoPositive ==
  ASSUME NEW n \in Nat
  PROVE  Two[n] \in Nat \ {0} /\ (n # 0 => Two[n] = 2 * Two[n - 1] /\ Two[n - 1] \in Nat \ {0})
<1> DEFINE S == {k \in Nat : Two[k] \in Nat \ {0}}
<1>1. \A k \in Nat : k \in S
  <2>1. 0 \in S
    BY TwoIs
  <2>2. ASSUME NEW k \in Nat, k \in S PROVE k + 1 \in S
    <3>1. Two[k] \in Nat \ {0} /\ Two[k + 1] = 2 * Two[k]
      BY <2>2, TwoIs
    <3> QED BY ONLY <3>1, k \in Nat
  <2> HIDE DEF S
  <2> QED BY <2>1, <2>2, Induction
<1>2. ASSUME n # 0 PROVE Two[n] = 2 * Two[n - 1]
  <2>1. n - 1 \in Nat /\ (n - 1) + 1 = n
    BY <1>2
  <2>2. Two[(n - 1) + 1] = 2 * Two[n - 1]
    BY <2>1, TwoIs
  <2> QED BY <2>1, <2>2
<1>3. n # 0 => n - 1 \in Nat
  OBVIOUS
<1> QED BY <1>1, <1>2, <1>3

\* The powers of a sum are products.
LEMMA TwoSum ==
  ASSUME NEW m \in Nat, NEW n \in Nat
  PROVE  Two[m + n] = Two[m] * Two[n]
<1> DEFINE S == {k \in Nat : Two[m + k] = Two[m] * Two[k]}
<1>1. 0 \in S
  <2>1. Two[m] \in Int /\ Two[0] = 1 /\ m + 0 = m
    BY TwoIs
  <2> QED BY <2>1
<1>2. ASSUME NEW k \in Nat, k \in S PROVE k + 1 \in S
  <2> DEFINE a == Two[m]
             b == Two[k]
             c == Two[m + k]
  <2>1. a \in Int /\ b \in Int /\ c \in Int /\ c = a * b
    BY <1>2, TwoIs
  <2>2. m + (k + 1) = (m + k) + 1 /\ m + k \in Nat
    OBVIOUS
  <2>3. Two[m + (k + 1)] = 2 * c /\ Two[k + 1] = 2 * b
    BY <2>2, TwoIs
  <2> HIDE DEF a, b, c
  <2>4. 2 * (a * b) = a * (2 * b)
    BY <2>1
  <2> QED BY <2>1, <2>3, <2>4 DEF a
<1> HIDE DEF S
<1>3. \A k \in Nat : k \in S
  BY <1>1, <1>2, Induction
<1> QED BY <1>3 DEF S

\* They grow.
LEMMA TwoGrows ==
  ASSUME NEW m \in Nat, NEW n \in Nat, m <= n
  PROVE  Two[m] <= Two[n]
<1> DEFINE a == Two[m]
           b == Two[n - m]
<1>1. n - m \in Nat /\ m + (n - m) = n
  OBVIOUS
<1>2. Two[n] = a * b
  BY <1>1, TwoSum
<1>3. a \in Nat \ {0} /\ b \in Nat \ {0}
  BY <1>1, TwoPositive
<1> HIDE DEF a, b
<1>4. a <= a * b
  BY <1>3
<1> QED BY <1>2, <1>4 DEF a

\* The sums Joined goes through.
Sums(s, d, width, n) ==
  /\ s \in [0 .. n -> Int] /\ s[0] = 0
  /\ \A k \in 0 .. n - 1 : s[k + 1] = s[k] + d[k] * Two[width * k]

\* The value of a number that is joined from its digits is the last of its sums.
LEMMA JoinedSums ==
  ASSUME NEW d, NEW width \in Nat, NEW n \in Nat, \A i \in 0 .. n - 1 : d[i] \in Int
  PROVE  \E s : Sums(s, d, width, n) /\ Joined(d, width, n) = s[n]
<1> DEFINE term == [k \in Nat |-> IF k < n THEN d[k] * Two[width * k] ELSE 0]
           g == [k \in Nat |-> [x \in Int |-> x + term[k]]]
           F(s) == [k \in 0 .. n |-> IF k = 0 THEN 0 ELSE s[k - 1] + d[k - 1] * Two[width * (k - 1)]]
<1>0. term \in [Nat -> Int]
  <2>1. ASSUME NEW k \in Nat PROVE term[k] \in Int
    <3>1. width * k \in Nat
      OBVIOUS
    <3>2. Two[width * k] \in Int
      BY <3>1, TwoIs
    <3>3. k < n => k \in 0 .. n - 1
      OBVIOUS
    <3> QED BY <3>2, <3>3
  <2> QED BY <2>1
<1>1. PICK f \in [Nat -> Int] : f[0] = 0 /\ \A k \in Nat : f[k + 1] = f[k] + term[k]
  <2> HIDE DEF term
  <2>1. g \in [Nat -> [Int -> Int]]
    BY <1>0
  <2>2. 0 \in Int /\ \A k \in Nat : \A x \in Int : g[k][x] = x + term[k]
    BY <1>0
  <2> HIDE DEF g
  <2>3. \E f \in [Nat -> Int] : f[0] = 0 /\ \A k \in Nat : f[k + 1] = g[k][f[k]]
    BY <2>1, <2>2, Recursion
  <2> QED BY <2>2, <2>3
<1> DEFINE t == [k \in 0 .. n |-> f[k]]
<1>2. ASSUME NEW k \in 0 .. n, k # 0 PROVE f[k] = f[k - 1] + d[k - 1] * Two[width * (k - 1)]
  <2>1. k - 1 \in Nat /\ (k - 1) + 1 = k /\ k - 1 < n
    BY <1>2
  <2>2. f[(k - 1) + 1] = f[k - 1] + term[k - 1]
    BY <1>1, <2>1
  <2>3. term[k - 1] = d[k - 1] * Two[width * (k - 1)]
    BY <2>1
  <2> QED BY <2>1, <2>2, <2>3
<1>3. t = F(t)
  <2>1. ASSUME NEW k \in 0 .. n PROVE t[k] = F(t)[k]
    <3>1. CASE k = 0
      BY <1>1, <3>1
    <3>2. CASE k # 0
      <4>1. k - 1 \in 0 .. n
        BY <3>2
      <4> QED BY <1>2, <3>2, <4>1
    <3> QED BY <3>1, <3>2
  <2> QED BY <2>1
<1> DEFINE s == CHOOSE x : x = F(x)
<1>4. s = F(s)
  <2> HIDE DEF F, t
  <2> QED BY <1>3
<1>5. Joined(d, width, n) = s[n]
  BY Zenon DEF Joined, s, F
<1> HIDE DEF s
<1>6. s[0] = 0
  BY <1>4
<1>7. ASSUME NEW k \in 0 .. n - 1 PROVE s[k + 1] = s[k] + d[k] * Two[width * k]
  <2>1. k + 1 \in 0 .. n /\ k + 1 # 0 /\ (k + 1) - 1 = k
    OBVIOUS
  <2>2. s[k + 1] = F(s)[k + 1]
    BY <1>4
  <2> QED BY <2>1, <2>2
<1>8. s \in [0 .. n -> Int]
  <2> DEFINE S == {k \in Nat : k <= n => s[k] \in Int}
  <2>1. 0 \in S
    BY <1>6
  <2>2. ASSUME NEW k \in Nat, k \in S, k + 1 <= n PROVE s[k + 1] \in Int
    <3>1. k \in 0 .. n - 1 /\ s[k] \in Int
      BY <2>2
    <3>2. d[k] * Two[width * k] \in Int
      <4>1. term[k] = d[k] * Two[width * k]
        BY <3>1
      <4> QED BY <1>0, <4>1
    <3> QED BY <1>7, <3>1, <3>2
  <2>3. \A k \in Nat : k \in S => k + 1 \in S
    BY <2>2
  <2>4. \A k \in Nat : k \in S
    <3> HIDE DEF S
    <3> QED BY <2>1, <2>3, Induction
  <2>5. \A k \in 0 .. n : s[k] \in Int
    BY <2>4
  <2> QED BY <1>4, <2>5
<1> QED BY <1>5, <1>6, <1>7, <1>8 DEF Sums

\* The sums of two numbers with the same first digits are the same so far.
LEMMA SumsAgree ==
  ASSUME NEW d, NEW e, NEW width, NEW m \in Nat, NEW n \in Nat, m <= n,
         NEW s, NEW t, Sums(s, d, width, m), Sums(t, e, width, n),
         \A k \in 0 .. m - 1 : d[k] = e[k]
  PROVE  s[m] = t[m]
<1> DEFINE S == {k \in Nat : k <= m => s[k] = t[k]}
<1>1. 0 \in S
  BY DEF Sums
<1>2. \A k \in Nat : k \in S => k + 1 \in S
  <2> SUFFICES ASSUME NEW k \in Nat, k \in S, k + 1 <= m PROVE s[k + 1] = t[k + 1]
    OBVIOUS
  <2>1. k \in 0 .. m - 1 /\ k \in 0 .. n - 1 /\ s[k] = t[k]
    OBVIOUS
  <2> QED BY <2>1 DEF Sums
<1> HIDE DEF S
<1>3. \A k \in Nat : k \in S
  BY <1>1, <1>2, Induction
<1> QED BY <1>3 DEF S

\* Digits that are the same join to the same number.
LEMMA JoinedAgree ==
  ASSUME NEW d, NEW e, NEW width \in Nat, NEW n \in Nat,
         \A i \in 0 .. n - 1 : d[i] \in Int /\ d[i] = e[i]
  PROVE  Joined(d, width, n) = Joined(e, width, n) /\ Joined(d, width, n) \in Int
<1>1. PICK s : Sums(s, d, width, n) /\ Joined(d, width, n) = s[n]
  BY JoinedSums
<1>2. PICK t : Sums(t, e, width, n) /\ Joined(e, width, n) = t[n]
  <2>1. \A i \in 0 .. n - 1 : e[i] \in Int
    OBVIOUS
  <2> QED BY <2>1, JoinedSums
<1>3. s[n] = t[n]
  BY <1>1, <1>2, SumsAgree
<1>4. s[n] \in Int
  BY <1>1 DEF Sums
<1> QED BY <1>1, <1>2, <1>3, <1>4

\* One digit more.
LEMMA JoinedStep ==
  ASSUME NEW d, NEW width \in Nat, NEW n \in Nat, \A i \in 0 .. n : d[i] \in Int
  PROVE  /\ Joined(d, width, 0) = 0
         /\ Joined(d, width, n + 1) = Joined(d, width, n) + d[n] * Two[width * n]
<1>1. PICK s : Sums(s, d, width, n) /\ Joined(d, width, n) = s[n]
  <2>1. \A i \in 0 .. n - 1 : d[i] \in Int
    OBVIOUS
  <2> QED BY <2>1, JoinedSums
<1>2. PICK t : Sums(t, d, width, n + 1) /\ Joined(d, width, n + 1) = t[n + 1]
  <2>1. n + 1 \in Nat /\ \A i \in 0 .. (n + 1) - 1 : d[i] \in Int
    OBVIOUS
  <2> QED BY <2>1, JoinedSums
<1>3. s[n] = t[n]
  <2>1. n <= n + 1 /\ n + 1 \in Nat
    OBVIOUS
  <2> QED BY <1>1, <1>2, <2>1, SumsAgree
<1>4. t[n + 1] = t[n] + d[n] * Two[width * n]
  <2>1. n \in 0 .. (n + 1) - 1
    OBVIOUS
  <2> QED BY <1>2, <2>1 DEF Sums
<1>5. Joined(d, width, 0) = 0
  <2>1. PICK u : Sums(u, d, width, 0) /\ Joined(d, width, 0) = u[0]
    <3>1. 0 \in Nat /\ \A i \in 0 .. 0 - 1 : d[i] \in Int
      OBVIOUS
    <3> QED BY <3>1, JoinedSums
  <2> QED BY <2>1 DEF Sums
<1> QED BY <1>1, <1>2, <1>3, <1>4, <1>5

\* Digits of a width join to a number of the width of all of them.
LEMMA JoinedFits ==
  ASSUME NEW width \in Nat, NEW n \in Nat, NEW d, \A i \in 0 .. n - 1 : d[i] \in 0 .. Two[width] - 1
  PROVE  Joined(d, width, n) \in 0 .. Two[width * n] - 1
<1> DEFINE S == {k \in Nat : k <= n => Joined(d, width, k) \in 0 .. Two[width * k] - 1}
<1>0. \A i \in 0 .. n - 1 : d[i] \in Int
  BY TwoIs
<1>1. 0 \in S
  <2>1. Joined(d, width, 0) = 0
    <3>1. PICK s : Sums(s, d, width, 0) /\ Joined(d, width, 0) = s[0]
      <4>1. 0 \in Nat /\ \A i \in 0 .. 0 - 1 : d[i] \in Int
        OBVIOUS
      <4> QED BY <4>1, JoinedSums
    <3> QED BY <3>1 DEF Sums
  <2>2. width * 0 = 0
    OBVIOUS
  <2> QED BY <2>1, <2>2, TwoIs
<1>2. ASSUME NEW k \in Nat, k \in S, k + 1 <= n
      PROVE  Joined(d, width, k + 1) \in 0 .. Two[width * (k + 1)] - 1
  <2> DEFINE T == Two[width * k]
             w == Two[width]
             j == Joined(d, width, k)
             x == d[k]
  <2>1. Joined(d, width, k + 1) = j + x * T
    <3>1. \A i \in 0 .. k : d[i] \in Int
      BY <1>0, <1>2
    <3> QED BY <3>1, JoinedStep
  <2>2. Two[width * (k + 1)] = T * w
    <3>1. width * (k + 1) = width * k + width /\ width * k \in Nat
      OBVIOUS
    <3> QED BY <3>1, TwoSum
  <2>3. T \in Nat \ {0} /\ w \in Nat \ {0}
    <3>1. width * k \in Nat
      OBVIOUS
    <3> QED BY <3>1, TwoPositive
  <2>4. j \in 0 .. T - 1 /\ x \in 0 .. w - 1
    BY <1>2
  <2> HIDE DEF T, w, j, x
  <2>5. x * T \in Nat /\ x * T <= (w - 1) * T /\ (w - 1) * T = T * w - T /\ T * w \in Nat
    BY <2>3, <2>4
  <2>6. j + x * T \in 0 .. T * w - 1
    BY <2>3, <2>4, <2>5
  <2> QED BY <2>1, <2>2, <2>6
<1>3. \A k \in Nat : k \in S => k + 1 \in S
  BY <1>2
<1>4. \A k \in Nat : k \in S
  <2> HIDE DEF S
  <2> QED BY <1>1, <1>3, Induction
<1> QED BY <1>4

\* The number of a set of bits, bit by bit.
LEMMA UnsignedStep ==
  ASSUME NEW S, NEW n \in Nat
  PROVE  /\ Unsigned(S, 0) = 0
         /\ Unsigned(S, n + 1) = Unsigned(S, n) + (IF n \in S THEN Two[n] ELSE 0)
<1> DEFINE d == [i \in 0 .. (n + 1) - 1 |-> IF i \in S THEN 1 ELSE 0]
           e == [i \in 0 .. n - 1 |-> IF i \in S THEN 1 ELSE 0]
<1>1. Joined(d, 1, n + 1) = Joined(d, 1, n) + d[n] * Two[1 * n]
  <2>1. \A i \in 0 .. n : d[i] \in Int
    OBVIOUS
  <2> HIDE DEF d
  <2> QED BY <2>1, JoinedStep
<1>2. Joined(d, 1, n) = Joined(e, 1, n)
  <2>1. \A i \in 0 .. n - 1 : d[i] \in Int /\ d[i] = e[i]
    OBVIOUS
  <2> HIDE DEF d, e
  <2> QED BY <2>1, JoinedAgree
<1>3. d[n] * Two[1 * n] = IF n \in S THEN Two[n] ELSE 0
  <2>1. 1 * n = n /\ Two[n] \in Int /\ d[n] = IF n \in S THEN 1 ELSE 0
    BY TwoIs
  <2> HIDE DEF d
  <2> QED BY <2>1
<1>4. Unsigned(S, 0) = 0
  <2> DEFINE z == [i \in 0 .. 0 - 1 |-> IF i \in S THEN 1 ELSE 0]
  <2>1. PICK s : Sums(s, z, 1, 0) /\ Joined(z, 1, 0) = s[0]
    <3>1. 0 \in Nat /\ \A i \in 0 .. 0 - 1 : z[i] \in Int
      OBVIOUS
    <3> HIDE DEF z
    <3> QED BY <3>1, JoinedSums
  <2>2. Joined(z, 1, 0) = 0
    BY <2>1 DEF Sums
  <2> QED BY <2>2, Zenon DEF Unsigned
<1>5. Unsigned(S, n) = Joined(e, 1, n) /\ Unsigned(S, n + 1) = Joined(d, 1, n + 1)
  BY Zenon DEF Unsigned
<1> HIDE DEF d, e
<1> QED BY <1>1, <1>2, <1>3, <1>4, <1>5

\* It has as many bits as it is asked for.
LEMMA UnsignedFits ==
  ASSUME NEW S, NEW n \in Nat
  PROVE  Unsigned(S, n) \in 0 .. Two[n] - 1
<1> DEFINE d == [i \in 0 .. n - 1 |-> IF i \in S THEN 1 ELSE 0]
<1>1. \A i \in 0 .. n - 1 : d[i] \in 0 .. Two[1] - 1
  <2>1. Two[1] = 2
    <3>1. Two[0 + 1] = 2 * Two[0] /\ Two[0] = 1
      BY TwoIs
    <3> QED BY <3>1
  <2> QED BY <2>1
<1> HIDE DEF d
<1>2. Joined(d, 1, n) \in 0 .. Two[1 * n] - 1
  BY <1>1, JoinedFits
<1>3. 1 * n = n
  OBVIOUS
<1> QED BY <1>2, <1>3, Zenon DEF Unsigned, d

\* Only the bits below the width count.
LEMMA UnsignedAgree ==
  ASSUME NEW S, NEW T, NEW n \in Nat, \A i \in 0 .. n - 1 : i \in S <=> i \in T
  PROVE  Unsigned(S, n) = Unsigned(T, n)
<1>1. [i \in 0 .. n - 1 |-> IF i \in S THEN 1 ELSE 0] = [i \in 0 .. n - 1 |-> IF i \in T THEN 1 ELSE 0]
  OBVIOUS
<1> QED BY <1>1, Zenon DEF Unsigned

\* The low bits and the high bits.
LEMMA UnsignedSplit ==
  ASSUME NEW S, NEW T, NEW m \in Nat, NEW n \in Nat, \A i \in 0 .. n - 1 : i \in T <=> i + m \in S
  PROVE  Unsigned(S, m + n) = Unsigned(S, m) + Two[m] * Unsigned(T, n)
<1> DEFINE K == {k \in Nat : k <= n => Unsigned(S, m + k) = Unsigned(S, m) + Two[m] * Unsigned(T, k)}
<1>0. \A X : \A k \in Nat : Unsigned(X, k) \in Int
  BY UnsignedFits, TwoIs
<1>1. 0 \in K
  <2>1. m + 0 = m /\ Unsigned(T, 0) = 0 /\ Unsigned(S, m) \in Int /\ Two[m] \in Int
    <3>1. Unsigned(T, 0) = 0
      BY UnsignedStep
    <3>2. m + 0 = m /\ Two[m] \in Int
      BY TwoIs
    <3> QED BY <1>0, <3>1, <3>2
  <2> QED BY <2>1
<1>2. ASSUME NEW k \in Nat, k \in K, k + 1 <= n
      PROVE  Unsigned(S, m + (k + 1)) = Unsigned(S, m) + Two[m] * Unsigned(T, k + 1)
  <2>1. k \in 0 .. n - 1 /\ k + m = m + k /\ m + k \in Nat /\ (m + k) + 1 = m + (k + 1)
    BY <1>2
  <2>2. Unsigned(S, m + (k + 1)) = Unsigned(S, m + k) + (IF k \in T THEN Two[m + k] ELSE 0)
    <3>1. Unsigned(S, (m + k) + 1) = Unsigned(S, m + k) + (IF m + k \in S THEN Two[m + k] ELSE 0)
      BY <2>1, UnsignedStep
    <3>2. m + k \in S <=> k \in T
      BY <2>1
    <3> QED BY <2>1, <3>1, <3>2
  <2>3. Unsigned(T, k + 1) = Unsigned(T, k) + (IF k \in T THEN Two[k] ELSE 0)
    BY UnsignedStep
  <2>4. Unsigned(S, m + k) = Unsigned(S, m) + Two[m] * Unsigned(T, k)
    BY <1>2
  <2>5. Two[m + k] = Two[m] * Two[k]
    BY TwoSum
  <2> DEFINE a == Unsigned(S, m)
             b == Two[m]
             c == Unsigned(T, k)
             t == Two[k]
  <2>6. a \in Int /\ b \in Int /\ c \in Int /\ t \in Int
    BY <1>0, TwoIs
  <2> HIDE DEF a, b, c, t
  <2>7. b * (c + t) = b * c + b * t /\ b * (c + 0) = b * c /\ b * c \in Int
    BY <2>6
  <2>8. Unsigned(S, m + (k + 1)) = (a + b * c) + (IF k \in T THEN b * t ELSE 0)
    BY <2>2, <2>4, <2>5, Zenon DEF a, b, c, t
  <2>9. Unsigned(T, k + 1) = c + (IF k \in T THEN t ELSE 0)
    BY <2>3, Zenon DEF c, t
  <2>10. (a + b * c) + (IF k \in T THEN b * t ELSE 0) = a + b * (c + (IF k \in T THEN t ELSE 0))
    BY <2>6, <2>7
  <2> QED BY <2>8, <2>9, <2>10, Zenon DEF a, b
<1>3. \A k \in Nat : k \in K => k + 1 \in K
  BY <1>2
<1>4. \A k \in Nat : k \in K
  <2> HIDE DEF K
  <2> QED BY <1>1, <1>3, Induction
<1> QED BY <1>4

\* The bits of a number are its number.
LEMMA UnsignedOfBits ==
  ASSUME NEW x \in Nat, NEW n \in Nat, NEW S, \A i \in 0 .. n - 1 : i \in S <=> (x \div Two[i]) % 2 = 1
  PROVE  Unsigned(S, n) = x % Two[n]
<1> DEFINE K == {k \in Nat : k <= n => Unsigned(S, k) = x % Two[k]}
<1>1. 0 \in K
  <2>1. Unsigned(S, 0) = 0 /\ Two[0] = 1
    BY UnsignedStep, TwoIs
  <2> QED BY <2>1
<1>2. ASSUME NEW k \in Nat, k \in K, k + 1 <= n
      PROVE  Unsigned(S, k + 1) = x % Two[k + 1]
  <2> DEFINE t == Two[k]
             q == x \div t
             p == q \div 2
             b == q % 2
             r == x % t
  <2>1. t \in Nat \ {0} /\ Two[k + 1] = 2 * t
    BY TwoPositive, TwoIs
  <2>2. Unsigned(S, k) = r /\ k \in 0 .. n - 1
    BY <1>2
  <2>3. Unsigned(S, k + 1) = r + (IF b = 1 THEN t ELSE 0)
    BY <2>2, UnsignedStep
  <2>4. r \in 0 .. t - 1 /\ q \in Int /\ x = t * q + r
    <3>1. x \in Int /\ t \in Nat \ {0}
      BY <2>1
    <3> HIDE DEF t
    <3> QED BY ONLY <3>1, DivRem
  <2> HIDE DEF t, q, r
  <2>5. b \in 0 .. 1 /\ p \in Int /\ q = 2 * p + b
    BY <2>4, DivRem
  <2> HIDE DEF p, b
  <2>6. x = (2 * t) * p + (r + b * t) /\ r + b * t \in 0 .. 2 * t - 1 /\ 2 * t \in Nat \ {0}
    <3>1. t * q = (2 * t) * p + b * t
      BY <2>1, <2>5
    <3>2. b * t \in {0, t}
      <4>1. b = 0 \/ b = 1
        BY <2>5
      <4>2. 0 * t = 0 /\ 1 * t = t
        BY <2>1
      <4> QED BY <4>1, <4>2
    <3>3. (2 * t) * p \in Int /\ b * t \in Int
      BY <2>1, <2>5
    <3> QED BY <2>1, <2>4, <3>1, <3>2, <3>3
  <2>7. x % (2 * t) = r + b * t
    BY <2>5, <2>6, DivIs
  <2>8. b * t = IF b = 1 THEN t ELSE 0
    BY <2>1, <2>5
  <2> QED BY <2>1, <2>3, <2>7, <2>8
<1>3. \A k \in Nat : k \in K => k + 1 \in K
  BY <1>2
<1>4. \A k \in Nat : k \in K
  <2> HIDE DEF K
  <2> QED BY <1>1, <1>3, Induction
<1> QED BY <1>4

-----------------------------------------------------------------------------
(* Words. *)

\* Where a number and a part of an immediate are put.
LEMMA PutIn ==
  ASSUME NEW x, NEW width \in Nat, NEW at \in Nat
  PROVE  /\ Put(x, width, at) \subseteq at .. at + width - 1
         /\ \A k \in 0 .. width - 1 : k + at \in Put(x, width, at) <=> (x \div Two[k]) % 2 = 1
<1>1. Put(x, width, at) \subseteq at .. at + width - 1
  BY DEF Put
<1>2. ASSUME NEW k \in 0 .. width - 1 PROVE k + at \in Put(x, width, at) <=> (x \div Two[k]) % 2 = 1
  <2> DEFINE K == {j \in 0 .. width - 1 : (x \div Two[j]) % 2 = 1}
  <2>1. k \in K <=> (x \div Two[k]) % 2 = 1
    OBVIOUS
  <2>2. K \subseteq Int
    OBVIOUS
  <2>3. Put(x, width, at) = {i + at : i \in K}
    BY DEF Put
  <2> HIDE DEF K
  <2>4. \A i \in K : k + at = i + at => k = i
    BY <2>2
  <2> QED BY <2>1, <2>3, <2>4
<1> QED BY <1>1, <1>2

\* Which bits a part of an immediate fills.
LEMMA MoveIn ==
  ASSUME NEW imm, NEW low \in Nat, NEW high \in Nat, NEW at \in Nat
  PROVE  /\ Move(imm, low, high, at) \subseteq at .. at + high - low
         /\ \A i \in at .. at + high - low : i \in Move(imm, low, high, at) <=> i - at + low \in imm
<1>1. Move(imm, low, high, at) \subseteq at .. at + high - low
  BY DEF Move
<1>2. ASSUME NEW i \in at .. at + high - low
      PROVE  i \in Move(imm, low, high, at) <=> i - at + low \in imm
  <2>1. i - at + low \in low .. high /\ (i - at + low) - low + at = i
    OBVIOUS
  <2>2. \A j \in low .. high : i = j - low + at => j = i - at + low
    OBVIOUS
  <2> QED BY <2>1, <2>2 DEF Move
<1> QED BY <1>1, <1>2

\* Sets of numbers that are shifted to the left.
LEMMA ShlIn ==
  ASSUME NEW S, S \subseteq Int, NEW n \in Nat, NEW i \in Bit
  PROVE  i \in Shl(S, n) <=> i - n \in S
<1>1. i \in Int /\ (i - n) + n = i /\ \A j \in S : i = j + n => j = i - n
  BY DEF Bit
<1> QED BY <1>1 DEF Shl

\* A field gives back the number that was put there.
LEMMA FieldOfPut ==
  ASSUME NEW w, NEW width \in Nat, NEW at \in Nat, NEW x \in 0 .. Two[width] - 1,
         \A i \in at .. at + width - 1 : i \in w <=> i \in Put(x, width, at)
  PROVE  Unsigned({i - at : i \in w \cap at .. at + width - 1}, width) = x
<1> DEFINE S == {i - at : i \in w \cap at .. at + width - 1}
<1>1. ASSUME NEW k \in 0 .. width - 1 PROVE k \in S <=> (x \div Two[k]) % 2 = 1
  <2>1. k + at \in at .. at + width - 1 /\ (k + at) - at = k
    OBVIOUS
  <2>2. k \in S <=> k + at \in w
    <3>1. \A i \in at .. at + width - 1 : k = i - at => i = k + at
      OBVIOUS
    <3> QED BY <2>1, <3>1
  <2>3. k + at \in w <=> k + at \in Put(x, width, at)
    BY <2>1
  <2> QED BY <2>2, <2>3, PutIn
<1>2. x \in Nat /\ Two[width] \in Nat \ {0}
  BY TwoPositive
<1> HIDE DEF S
<1>3. Unsigned(S, width) = x % Two[width]
  BY <1>1, <1>2, UnsignedOfBits
<1>4. x % Two[width] = x
  <2> DEFINE t == Two[width]
  <2>1. t \in Nat \ {0} /\ x \in Int /\ 0 \in Int /\ x \in 0 .. t - 1 /\ x = t * 0 + x
    BY <1>2
  <2> HIDE DEF t
  <2>2. x % t = x
    BY ONLY <2>1, DivIs
  <2> QED BY <2>2 DEF t
<1> QED BY <1>3, <1>4 DEF S

\* The powers the widths of the fields ask for.
LEMMA Powers == Two[1] = 2 /\ Two[2] = 4 /\ Two[3] = 8 /\ Two[4] = 16 /\ Two[5] = 32 /\ Two[6] = 64 /\ Two[7] = 128
<1>1. \A n \in Nat : Two[n + 1] = 2 * Two[n]
  BY TwoIs
<1>2. /\ Two[0 + 1] = 2 * Two[0] /\ Two[1 + 1] = 2 * Two[1] /\ Two[2 + 1] = 2 * Two[2]
      /\ Two[3 + 1] = 2 * Two[3] /\ Two[4 + 1] = 2 * Two[4] /\ Two[5 + 1] = 2 * Two[5]
      /\ Two[6 + 1] = 2 * Two[6]
  BY <1>1
<1>3. Two[0] = 1
  BY TwoIs
<1> QED BY <1>2, <1>3

\* What the fields of a word are, bit by bit.
Holds(w, x, width, at) == \A i \in at .. at + width - 1 : i \in w <=> i \in Put(x, width, at)

\* The fields ID and IF cut out of a word are the numbers that were put there.
LEMMA FieldsAre ==
  ASSUME NEW w, NEW x \in Nat
  PROVE  /\ x < 128 /\ Holds(w, x, 7, 0) => opcode(w) = x
         /\ x < 32 /\ Holds(w, x, 5, 7) => rd(w) = x
         /\ x < 8 /\ Holds(w, x, 3, 12) => funct3(w) = x
         /\ x < 32 /\ Holds(w, x, 5, 15) => rs1(w) = x
         /\ x < 32 /\ Holds(w, x, 5, 20) => rs2(w) = x
         /\ x < 128 /\ Holds(w, x, 7, 25) => funct7(w) = x
         /\ x < 64 /\ Holds(w, x, 6, 26) => Field(w, 26, 31) = x
<1>1. ASSUME NEW width \in {3, 5, 6, 7}, NEW at \in {0, 7, 12, 15, 20, 25, 26},
             x < Two[width], Holds(w, x, width, at)
      PROVE  Field(w, at, at + width - 1) = x
  <2>1. x \in 0 .. Two[width] - 1
    <3>1. Two[width] \in Int
      BY <1>1, TwoIs
    <3> QED BY <1>1, <3>1
  <2>2. width \in Nat /\ at \in Nat /\ (at + width - 1) - at + 1 = width
    OBVIOUS
  <2>3. \A i \in at .. at + width - 1 : i \in w <=> i \in Put(x, width, at)
    BY <1>1 DEF Holds
  <2>4. Unsigned({i - at : i \in w \cap at .. at + width - 1}, width) = x
    BY <2>1, <2>2, <2>3, FieldOfPut
  <2> QED BY <2>2, <2>4 DEF Field
<1>2. /\ 0 + 7 - 1 = 6 /\ 7 + 5 - 1 = 11 /\ 12 + 3 - 1 = 14 /\ 15 + 5 - 1 = 19
      /\ 20 + 5 - 1 = 24 /\ 25 + 7 - 1 = 31 /\ 26 + 6 - 1 = 31
  OBVIOUS
<1>3. x < 128 /\ Holds(w, x, 7, 0) => opcode(w) = x
  BY <1>1, <1>2, Powers DEF opcode
<1>4. x < 32 /\ Holds(w, x, 5, 7) => rd(w) = x
  BY <1>1, <1>2, Powers DEF rd
<1>5. x < 8 /\ Holds(w, x, 3, 12) => funct3(w) = x
  BY <1>1, <1>2, Powers DEF funct3
<1>6. x < 32 /\ Holds(w, x, 5, 15) => rs1(w) = x
  BY <1>1, <1>2, Powers DEF rs1
<1>7. x < 32 /\ Holds(w, x, 5, 20) => rs2(w) = x
  BY <1>1, <1>2, Powers DEF rs2
<1>8. x < 128 /\ Holds(w, x, 7, 25) => funct7(w) = x
  BY <1>1, <1>2, Powers DEF funct7
<1>9. x < 64 /\ Holds(w, x, 6, 26) => Field(w, 26, 31) = x
  BY <1>1, <1>2, Powers
<1> QED BY <1>3, <1>4, <1>5, <1>6, <1>7, <1>8, <1>9

\* The tables of the manual hold numbers the fields have room for.
LEMMA TablesFit ==
  /\ \A op \in DOMAIN OP : OP[op][1] \in 0 .. 7 /\ OP[op][2] \in 0 .. 127
  /\ \A op \in DOMAIN OP_32 : OP_32[op][1] \in 0 .. 7 /\ OP_32[op][2] \in 0 .. 127
  /\ \A op \in DOMAIN OP_IMM : OP_IMM[op] \in 0 .. 7
  /\ \A op \in DOMAIN OP_SHIFT : OP_SHIFT[op][1] \in 0 .. 7 /\ OP_SHIFT[op][2] \in {0, 32}
  /\ \A op \in DOMAIN OP_SHIFT_32 : OP_SHIFT_32[op][1] \in 0 .. 7 /\ OP_SHIFT_32[op][2] \in {0, 32}
  /\ \A op \in DOMAIN LOAD : LOAD[op] \in 0 .. 7
  /\ \A op \in DOMAIN STORE : STORE[op] \in 0 .. 7
  /\ \A op \in DOMAIN BRANCH : BRANCH[op] \in 0 .. 7
  /\ \A op \in DOMAIN OTHERS : OTHERS[op][1] \in {"I", "U", "J"} /\ OTHERS[op][2] \in 0 .. 127
<1>1. \A op \in DOMAIN OP : OP[op][1] \in 0 .. 7 /\ OP[op][2] \in 0 .. 127
  BY DEF OP
<1>2. \A op \in DOMAIN OP_32 : OP_32[op][1] \in 0 .. 7 /\ OP_32[op][2] \in 0 .. 127
  BY DEF OP_32
<1>3. \A op \in DOMAIN OP_IMM : OP_IMM[op] \in 0 .. 7
  BY DEF OP_IMM
<1>4. \A op \in DOMAIN OP_SHIFT : OP_SHIFT[op][1] \in 0 .. 7 /\ OP_SHIFT[op][2] \in {0, 32}
  BY DEF OP_SHIFT
<1>5. \A op \in DOMAIN OP_SHIFT_32 : OP_SHIFT_32[op][1] \in 0 .. 7 /\ OP_SHIFT_32[op][2] \in {0, 32}
  BY DEF OP_SHIFT_32
<1>6. \A op \in DOMAIN LOAD : LOAD[op] \in 0 .. 7
  BY DEF LOAD
<1>7. \A op \in DOMAIN STORE : STORE[op] \in 0 .. 7
  BY DEF STORE
<1>8. \A op \in DOMAIN BRANCH : BRANCH[op] \in 0 .. 7
  BY DEF BRANCH
<1>9. \A op \in DOMAIN OTHERS : OTHERS[op][1] \in {"I", "U", "J"} /\ OTHERS[op][2] \in 0 .. 127
  BY DEF OTHERS
<1> QED BY <1>1, <1>2, <1>3, <1>4, <1>5, <1>6, <1>7, <1>8, <1>9

\* Each instruction is in one of them.
LEMMA EncodingIs ==
  /\ \A op \in DOMAIN OP : Encoding(op) = <<"R", 51, OP[op][1], OP[op][2]>>
  /\ \A op \in DOMAIN OP_32 : Encoding(op) = <<"R", 59, OP_32[op][1], OP_32[op][2]>>
  /\ \A op \in DOMAIN OP_IMM : Encoding(op) = <<"I", 19, OP_IMM[op], 0>>
  /\ \A op \in DOMAIN OP_SHIFT : Encoding(op) = <<"S6", 19, OP_SHIFT[op][1], OP_SHIFT[op][2]>>
  /\ \A op \in DOMAIN OP_SHIFT_32 : Encoding(op) = <<"S5", 27, OP_SHIFT_32[op][1], OP_SHIFT_32[op][2]>>
  /\ \A op \in DOMAIN LOAD : Encoding(op) = <<"I", 3, LOAD[op], 0>>
  /\ \A op \in DOMAIN STORE : Encoding(op) = <<"S", 35, STORE[op], 0>>
  /\ \A op \in DOMAIN BRANCH : Encoding(op) = <<"B", 99, BRANCH[op], 0>>
  /\ \A op \in DOMAIN OTHERS : Encoding(op) = <<OTHERS[op][1], OTHERS[op][2], 0, 0>>
<1>1. /\ DOMAIN OP = {"ADD", "SUB", "SLL", "SLT", "SLTU", "XOR", "SRL", "SRA", "OR", "AND", "MUL", "MULH", "DIV", "REM"}
      /\ DOMAIN OP_32 = {"ADDW", "SUBW", "SLLW", "SRLW", "SRAW", "MULW"}
      /\ DOMAIN OP_IMM = {"ADDI", "SLTI", "SLTIU", "XORI", "ORI", "ANDI"}
      /\ DOMAIN OP_SHIFT = {"SLLI", "SRLI", "SRAI"}
      /\ DOMAIN OP_SHIFT_32 = {"SLLIW", "SRLIW", "SRAIW"}
      /\ DOMAIN LOAD = {"LB", "LH", "LW", "LD", "LBU", "LHU", "LWU"}
      /\ DOMAIN STORE = {"SB", "SH", "SW", "SD"}
      /\ DOMAIN BRANCH = {"BEQ", "BNE", "BLT", "BGE", "BLTU", "BGEU"}
      /\ DOMAIN OTHERS = {"ADDIW", "LUI", "AUIPC", "JAL", "JALR", "ECALL", "FENCE"}
  BY DEF OP, OP_32, OP_IMM, OP_SHIFT, OP_SHIFT_32, LOAD, STORE, BRANCH, OTHERS
<1>2. \A op \in DOMAIN OP : Encoding(op) = <<"R", 51, OP[op][1], OP[op][2]>>
  BY <1>1 DEF Encoding
<1>3. \A op \in DOMAIN OP_32 : Encoding(op) = <<"R", 59, OP_32[op][1], OP_32[op][2]>>
  BY <1>1 DEF Encoding
<1>4. \A op \in DOMAIN OP_IMM : Encoding(op) = <<"I", 19, OP_IMM[op], 0>>
  BY <1>1 DEF Encoding
<1>5. \A op \in DOMAIN OP_SHIFT : Encoding(op) = <<"S6", 19, OP_SHIFT[op][1], OP_SHIFT[op][2]>>
  BY <1>1 DEF Encoding
<1>6. \A op \in DOMAIN OP_SHIFT_32 : Encoding(op) = <<"S5", 27, OP_SHIFT_32[op][1], OP_SHIFT_32[op][2]>>
  BY <1>1 DEF Encoding
<1>7. \A op \in DOMAIN LOAD : Encoding(op) = <<"I", 3, LOAD[op], 0>>
  BY <1>1 DEF Encoding
<1>8. \A op \in DOMAIN STORE : Encoding(op) = <<"S", 35, STORE[op], 0>>
  BY <1>1 DEF Encoding
<1>9. \A op \in DOMAIN BRANCH : Encoding(op) = <<"B", 99, BRANCH[op], 0>>
  BY <1>1 DEF Encoding
<1>10. \A op \in DOMAIN OTHERS : Encoding(op) = <<OTHERS[op][1], OTHERS[op][2], 0, 0>>
  BY <1>1 DEF Encoding
<1> QED BY <1>2, <1>3, <1>4, <1>5, <1>6, <1>7, <1>8, <1>9, <1>10

\* The codes of every instruction fit their fields.
LEMMA EncodingFits ==
  ASSUME NEW op \in Ops
  PROVE  /\ Encoding(op)[1] \in {"R", "I", "S6", "S5", "S", "B", "U", "J"}
         /\ Encoding(op)[2] \in 0 .. 127 /\ Encoding(op)[3] \in 0 .. 7 /\ Encoding(op)[4] \in 0 .. 127
<1>1. op \in DOMAIN OP \/ op \in DOMAIN OP_32 \/ op \in DOMAIN OP_IMM \/ op \in DOMAIN OP_SHIFT
      \/ op \in DOMAIN OP_SHIFT_32 \/ op \in DOMAIN LOAD \/ op \in DOMAIN STORE
      \/ op \in DOMAIN BRANCH \/ op \in DOMAIN OTHERS
  BY DEF Ops
<1>2. CASE op \in DOMAIN OP
  BY <1>2, TablesFit, EncodingIs
<1>3. CASE op \in DOMAIN OP_32
  BY <1>3, TablesFit, EncodingIs
<1>4. CASE op \in DOMAIN OP_IMM
  BY <1>4, TablesFit, EncodingIs
<1>5. CASE op \in DOMAIN OP_SHIFT
  BY <1>5, TablesFit, EncodingIs
<1>6. CASE op \in DOMAIN OP_SHIFT_32
  BY <1>6, TablesFit, EncodingIs
<1>7. CASE op \in DOMAIN LOAD
  BY <1>7, TablesFit, EncodingIs
<1>8. CASE op \in DOMAIN STORE
  BY <1>8, TablesFit, EncodingIs
<1>9. CASE op \in DOMAIN BRANCH
  BY <1>9, TablesFit, EncodingIs
<1>10. CASE op \in DOMAIN OTHERS
  BY <1>10, TablesFit, EncodingIs
<1> QED BY <1>1, <1>2, <1>3, <1>4, <1>5, <1>6, <1>7, <1>8, <1>9, <1>10

\* The parts of a word lie side by side.
LEMMA Sides ==
  ASSUME NEW x
  PROVE  /\ Put(x, 7, 0) \subseteq 0 .. 6 /\ Put(x, 5, 7) \subseteq 7 .. 11 /\ Put(x, 3, 12) \subseteq 12 .. 14
         /\ Put(x, 5, 15) \subseteq 15 .. 19 /\ Put(x, 5, 20) \subseteq 20 .. 24 /\ Put(x, 7, 25) \subseteq 25 .. 31
<1>1. Put(x, 7, 0) \subseteq 0 .. 0 + 7 - 1
  BY PutIn
<1>2. Put(x, 5, 7) \subseteq 7 .. 7 + 5 - 1
  BY PutIn
<1>3. Put(x, 3, 12) \subseteq 12 .. 12 + 3 - 1
  BY PutIn
<1>4. Put(x, 5, 15) \subseteq 15 .. 15 + 5 - 1
  BY PutIn
<1>5. Put(x, 5, 20) \subseteq 20 .. 20 + 5 - 1
  BY PutIn
<1>6. Put(x, 7, 25) \subseteq 25 .. 25 + 7 - 1
  BY PutIn
<1>7. /\ 0 + 7 - 1 = 6 /\ 7 + 5 - 1 = 11 /\ 12 + 3 - 1 = 14 /\ 15 + 5 - 1 = 19 /\ 20 + 5 - 1 = 24
      /\ 25 + 7 - 1 = 31
  OBVIOUS
<1> QED BY <1>1, <1>2, <1>3, <1>4, <1>5, <1>6, <1>7

\* What the word of a register instruction holds.
LEMMA WordR ==
  ASSUME NEW inst, FormatOf(inst) = "R"
  PROVE  LET w == Encode(inst)  e == Encoding(inst.op) IN
         /\ Holds(w, e[2], 7, 0) /\ Holds(w, inst.rd, 5, 7) /\ Holds(w, e[3], 3, 12)
         /\ Holds(w, inst.rs1, 5, 15) /\ Holds(w, inst.rs2, 5, 20) /\ Holds(w, e[4], 7, 25)
<1> DEFINE w == Encode(inst)
           e == Encoding(inst.op)
           a == Put(e[2], 7, 0)
           b == Put(inst.rd, 5, 7)
           c == Put(e[3], 3, 12)
           d == Put(inst.rs1, 5, 15)
           f == Put(inst.rs2, 5, 20)
           g == Put(e[4], 7, 25)
<1>1. w = a \cup (b \cup c \cup (d \cup f) \cup g)
  BY DEF FormatOf, Encode
<1>2. a \subseteq 0 .. 6 /\ b \subseteq 7 .. 11 /\ c \subseteq 12 .. 14 /\ d \subseteq 15 .. 19
      /\ f \subseteq 20 .. 24 /\ g \subseteq 25 .. 31
  BY Sides
<1> HIDE DEF w, a, b, c, d, f, g
<1>3. /\ \A i \in 0 .. 0 + 7 - 1 : i \in w <=> i \in a
      /\ \A i \in 7 .. 7 + 5 - 1 : i \in w <=> i \in b
      /\ \A i \in 12 .. 12 + 3 - 1 : i \in w <=> i \in c
      /\ \A i \in 15 .. 15 + 5 - 1 : i \in w <=> i \in d
      /\ \A i \in 20 .. 20 + 5 - 1 : i \in w <=> i \in f
      /\ \A i \in 25 .. 25 + 7 - 1 : i \in w <=> i \in g
  BY <1>1, <1>2
<1> QED BY <1>3, Zenon DEF Holds, w, a, b, c, d, f, g

\* Which bits of the immediate the other ones hold.
Keeps(w, imm, from, to, at) == \A i \in from .. to : i \in w <=> i - from + at \in imm

\* What the word of an instruction with an immediate of twelve bits holds.
LEMMA WordI ==
  ASSUME NEW inst, FormatOf(inst) = "I"
  PROVE  LET w == Encode(inst)  e == Encoding(inst.op) IN
         /\ Holds(w, e[2], 7, 0) /\ Holds(w, inst.rd, 5, 7) /\ Holds(w, e[3], 3, 12)
         /\ Holds(w, inst.rs1, 5, 15) /\ Keeps(w, inst.imm, 20, 31, 0)
<1> DEFINE w == Encode(inst)
           e == Encoding(inst.op)
           imm == inst.imm
           a == Put(e[2], 7, 0)
           b == Put(inst.rd, 5, 7)
           c == Put(e[3], 3, 12)
           d == Put(inst.rs1, 5, 15)
           m == Move(imm, 0, 11, 20)
<1>1. w = a \cup (b \cup c \cup d \cup m)
  BY DEF FormatOf, Encode
<1>2. a \subseteq 0 .. 6 /\ b \subseteq 7 .. 11 /\ c \subseteq 12 .. 14 /\ d \subseteq 15 .. 19
  BY Sides
<1>3. m \subseteq 20 .. 20 + 11 - 0 /\ \A i \in 20 .. 20 + 11 - 0 : i \in m <=> i - 20 + 0 \in imm
  BY MoveIn
<1> HIDE DEF w, a, b, c, d, m
<1>4. /\ \A i \in 0 .. 0 + 7 - 1 : i \in w <=> i \in a
      /\ \A i \in 7 .. 7 + 5 - 1 : i \in w <=> i \in b
      /\ \A i \in 12 .. 12 + 3 - 1 : i \in w <=> i \in c
      /\ \A i \in 15 .. 15 + 5 - 1 : i \in w <=> i \in d
  BY <1>1, <1>2, <1>3
<1>5. \A i \in 20 .. 31 : i \in w <=> i - 20 + 0 \in imm
  BY <1>1, <1>2, <1>3
<1> QED BY <1>4, <1>5, Zenon DEF Holds, Keeps, w, a, b, c, d

\* What the word of a shift by an immediate holds.
LEMMA WordShift ==
  ASSUME NEW inst, NEW high \in {4, 5}, FormatOf(inst) = (IF high = 5 THEN "S6" ELSE "S5"),
         Encoding(inst.op)[4] \in {0, 32}
  PROVE  LET w == Encode(inst)  e == Encoding(inst.op) IN
         /\ Holds(w, e[2], 7, 0) /\ Holds(w, inst.rd, 5, 7) /\ Holds(w, e[3], 3, 12)
         /\ Holds(w, inst.rs1, 5, 15) /\ Keeps(w, inst.imm, 20, 20 + high, 0)
         /\ \A i \in 20 + high + 1 .. 31 : i \in w <=> i = 30 /\ e[4] = 32
<1> DEFINE w == Encode(inst)
           e == Encoding(inst.op)
           imm == inst.imm
           a == Put(e[2], 7, 0)
           b == Put(inst.rd, 5, 7)
           c == Put(e[3], 3, 12)
           d == Put(inst.rs1, 5, 15)
           f == Put(e[4], 7, 25)
           m == Move(imm, 0, high, 20)
<1>1. w = a \cup (b \cup c \cup d \cup f \cup m)
  BY DEF FormatOf, Encode
<1>2. a \subseteq 0 .. 6 /\ b \subseteq 7 .. 11 /\ c \subseteq 12 .. 14 /\ d \subseteq 15 .. 19
      /\ f \subseteq 25 .. 31
  BY Sides
<1>3. m \subseteq 20 .. 20 + high - 0 /\ \A i \in 20 .. 20 + high - 0 : i \in m <=> i - 20 + 0 \in imm
  <2>1. 0 \in Nat /\ high \in Nat /\ 20 \in Nat
    OBVIOUS
  <2> QED BY <2>1, MoveIn, Zenon
<1>4. \A i \in 25 .. 31 : i \in f <=> i = 30 /\ e[4] = 32
  <2> DEFINE n == e[4]
  <2>1. \A k \in 0 .. 6 : k + 25 \in Put(n, 7, 25) <=> (n \div Two[k]) % 2 = 1
    <3>1. 7 \in Nat /\ 25 \in Nat /\ 7 - 1 = 6
      OBVIOUS
    <3>2. \A k \in 0 .. 7 - 1 : k + 25 \in Put(n, 7, 25) <=> (n \div Two[k]) % 2 = 1
      BY <3>1, PutIn, Zenon
    <3> QED BY <3>1, <3>2, Zenon
  <2>2. n \in {0, 32}
    OBVIOUS
  <2> HIDE DEF n
  <2>3. \A k \in 0 .. 6 : (n \div Two[k]) % 2 = 1 <=> k = 5 /\ n = 32
    <3>1. \A k \in 0 .. 6 : k \in {0, 1, 2, 3, 4, 5, 6}
      OBVIOUS
    <3>2. Two[0] = 1
      BY TwoIs
    <3> QED BY <2>2, <3>1, <3>2, Powers
  <2>4. ASSUME NEW i \in 25 .. 31 PROVE i \in Put(n, 7, 25) <=> i = 30 /\ n = 32
    <3>1. i - 25 \in 0 .. 6 /\ (i - 25) + 25 = i /\ (i - 25 = 5 <=> i = 30)
      OBVIOUS
    <3> QED BY <2>1, <2>3, <3>1
  <2> QED BY <2>4 DEF n
<1> HIDE DEF w, a, b, c, d, f, m
<1>5. /\ \A i \in 0 .. 0 + 7 - 1 : i \in w <=> i \in a
      /\ \A i \in 7 .. 7 + 5 - 1 : i \in w <=> i \in b
      /\ \A i \in 12 .. 12 + 3 - 1 : i \in w <=> i \in c
      /\ \A i \in 15 .. 15 + 5 - 1 : i \in w <=> i \in d
  BY <1>1, <1>2, <1>3
<1>6. \A i \in 20 .. 20 + high : i \in w <=> i - 20 + 0 \in imm
  <2>1. \A i \in 20 .. 20 + high : i \in f => FALSE
    BY <1>2, <1>4
  <2> QED BY <1>1, <1>2, <1>3, <2>1
<1>7. \A i \in 20 + high + 1 .. 31 : i \in w <=> i = 30 /\ e[4] = 32
  BY <1>1, <1>2, <1>3, <1>4
<1> QED BY <1>5, <1>6, <1>7, Zenon DEF Holds, Keeps, w, a, b, c, d

\* What the word of a store holds.
LEMMA WordS ==
  ASSUME NEW inst, FormatOf(inst) = "S"
  PROVE  LET w == Encode(inst)  e == Encoding(inst.op) IN
         /\ Holds(w, e[2], 7, 0) /\ Holds(w, e[3], 3, 12) /\ Holds(w, inst.rs1, 5, 15)
         /\ Holds(w, inst.rs2, 5, 20) /\ Keeps(w, inst.imm, 7, 11, 0) /\ Keeps(w, inst.imm, 25, 31, 5)
<1> DEFINE w == Encode(inst)
           e == Encoding(inst.op)
           imm == inst.imm
           a == Put(e[2], 7, 0)
           c == Put(e[3], 3, 12)
           d == Put(inst.rs1, 5, 15)
           f == Put(inst.rs2, 5, 20)
           m == Move(imm, 0, 4, 7)
           n == Move(imm, 5, 11, 25)
<1>1. w = a \cup (c \cup (d \cup f) \cup m \cup n)
  BY DEF FormatOf, Encode
<1>2. a \subseteq 0 .. 6 /\ c \subseteq 12 .. 14 /\ d \subseteq 15 .. 19 /\ f \subseteq 20 .. 24
  BY Sides
<1>3. m \subseteq 7 .. 7 + 4 - 0 /\ \A i \in 7 .. 7 + 4 - 0 : i \in m <=> i - 7 + 0 \in imm
  BY MoveIn
<1>4. n \subseteq 25 .. 25 + 11 - 5 /\ \A i \in 25 .. 25 + 11 - 5 : i \in n <=> i - 25 + 5 \in imm
  BY MoveIn
<1> HIDE DEF w, a, c, d, f, m, n
<1>5. /\ \A i \in 0 .. 0 + 7 - 1 : i \in w <=> i \in a
      /\ \A i \in 12 .. 12 + 3 - 1 : i \in w <=> i \in c
      /\ \A i \in 15 .. 15 + 5 - 1 : i \in w <=> i \in d
      /\ \A i \in 20 .. 20 + 5 - 1 : i \in w <=> i \in f
  BY <1>1, <1>2, <1>3, <1>4
<1>6. /\ \A i \in 7 .. 11 : i \in w <=> i - 7 + 0 \in imm
      /\ \A i \in 25 .. 31 : i \in w <=> i - 25 + 5 \in imm
  BY <1>1, <1>2, <1>3, <1>4
<1> QED BY <1>5, <1>6, Zenon DEF Holds, Keeps, w, a, c, d, f

\* What the word of a branch holds.
LEMMA WordB ==
  ASSUME NEW inst, FormatOf(inst) = "B"
  PROVE  LET w == Encode(inst)  e == Encoding(inst.op) IN
         /\ Holds(w, e[2], 7, 0) /\ Holds(w, e[3], 3, 12) /\ Holds(w, inst.rs1, 5, 15)
         /\ Holds(w, inst.rs2, 5, 20) /\ Keeps(w, inst.imm, 7, 7, 11) /\ Keeps(w, inst.imm, 8, 11, 1)
         /\ Keeps(w, inst.imm, 25, 30, 5) /\ Keeps(w, inst.imm, 31, 31, 12)
<1> DEFINE w == Encode(inst)
           e == Encoding(inst.op)
           imm == inst.imm
           a == Put(e[2], 7, 0)
           c == Put(e[3], 3, 12)
           d == Put(inst.rs1, 5, 15)
           f == Put(inst.rs2, 5, 20)
           m == Move(imm, 1, 4, 8)
           n == Move(imm, 5, 10, 25)
           o == Move(imm, 11, 11, 7)
           p == Move(imm, 12, 12, 31)
<1>1. w = a \cup (c \cup (d \cup f) \cup m \cup n \cup o \cup p)
  BY DEF FormatOf, Encode
<1>2. a \subseteq 0 .. 6 /\ c \subseteq 12 .. 14 /\ d \subseteq 15 .. 19 /\ f \subseteq 20 .. 24
  BY Sides
<1>3. m \subseteq 8 .. 8 + 4 - 1 /\ \A i \in 8 .. 8 + 4 - 1 : i \in m <=> i - 8 + 1 \in imm
  BY MoveIn
<1>4. n \subseteq 25 .. 25 + 10 - 5 /\ \A i \in 25 .. 25 + 10 - 5 : i \in n <=> i - 25 + 5 \in imm
  BY MoveIn
<1>5. o \subseteq 7 .. 7 + 11 - 11 /\ \A i \in 7 .. 7 + 11 - 11 : i \in o <=> i - 7 + 11 \in imm
  BY MoveIn
<1>6. p \subseteq 31 .. 31 + 12 - 12 /\ \A i \in 31 .. 31 + 12 - 12 : i \in p <=> i - 31 + 12 \in imm
  BY MoveIn
<1> HIDE DEF w, a, c, d, f, m, n, o, p
<1>7. /\ \A i \in 0 .. 0 + 7 - 1 : i \in w <=> i \in a
      /\ \A i \in 12 .. 12 + 3 - 1 : i \in w <=> i \in c
      /\ \A i \in 15 .. 15 + 5 - 1 : i \in w <=> i \in d
      /\ \A i \in 20 .. 20 + 5 - 1 : i \in w <=> i \in f
  BY <1>1, <1>2, <1>3, <1>4, <1>5, <1>6
<1>8. /\ \A i \in 7 .. 7 : i \in w <=> i - 7 + 11 \in imm
      /\ \A i \in 8 .. 11 : i \in w <=> i - 8 + 1 \in imm
      /\ \A i \in 25 .. 30 : i \in w <=> i - 25 + 5 \in imm
      /\ \A i \in 31 .. 31 : i \in w <=> i - 31 + 12 \in imm
  BY <1>1, <1>2, <1>3, <1>4, <1>5, <1>6
<1> QED BY <1>7, <1>8, Zenon DEF Holds, Keeps, w, a, c, d, f

\* What the word of LUI or AUIPC holds.
LEMMA WordU ==
  ASSUME NEW inst, FormatOf(inst) = "U"
  PROVE  LET w == Encode(inst)  e == Encoding(inst.op) IN
         Holds(w, e[2], 7, 0) /\ Holds(w, inst.rd, 5, 7) /\ Keeps(w, inst.imm, 12, 31, 12)
<1> DEFINE w == Encode(inst)
           e == Encoding(inst.op)
           imm == inst.imm
           a == Put(e[2], 7, 0)
           b == Put(inst.rd, 5, 7)
           m == Move(imm, 12, 31, 12)
<1>1. w = a \cup (b \cup m)
  BY DEF FormatOf, Encode
<1>2. a \subseteq 0 .. 6 /\ b \subseteq 7 .. 11
  BY Sides
<1>3. m \subseteq 12 .. 12 + 31 - 12 /\ \A i \in 12 .. 12 + 31 - 12 : i \in m <=> i - 12 + 12 \in imm
  BY MoveIn
<1> HIDE DEF w, a, b, m
<1>4. /\ \A i \in 0 .. 0 + 7 - 1 : i \in w <=> i \in a
      /\ \A i \in 7 .. 7 + 5 - 1 : i \in w <=> i \in b
      /\ \A i \in 12 .. 31 : i \in w <=> i - 12 + 12 \in imm
  BY <1>1, <1>2, <1>3
<1> QED BY <1>4, Zenon DEF Holds, Keeps, w, a, b

\* What the word of a JAL holds.
LEMMA WordJ ==
  ASSUME NEW inst, FormatOf(inst) = "J"
  PROVE  LET w == Encode(inst)  e == Encoding(inst.op) IN
         /\ Holds(w, e[2], 7, 0) /\ Holds(w, inst.rd, 5, 7) /\ Keeps(w, inst.imm, 12, 19, 12)
         /\ Keeps(w, inst.imm, 20, 20, 11) /\ Keeps(w, inst.imm, 21, 30, 1) /\ Keeps(w, inst.imm, 31, 31, 20)
<1> DEFINE w == Encode(inst)
           e == Encoding(inst.op)
           imm == inst.imm
           a == Put(e[2], 7, 0)
           b == Put(inst.rd, 5, 7)
           m == Move(imm, 12, 19, 12)
           n == Move(imm, 11, 11, 20)
           o == Move(imm, 1, 10, 21)
           p == Move(imm, 20, 20, 31)
<1>1. w = a \cup (b \cup m \cup n \cup o \cup p)
  BY DEF FormatOf, Encode
<1>2. a \subseteq 0 .. 6 /\ b \subseteq 7 .. 11
  BY Sides
<1>3. m \subseteq 12 .. 12 + 19 - 12 /\ \A i \in 12 .. 12 + 19 - 12 : i \in m <=> i - 12 + 12 \in imm
  BY MoveIn
<1>4. n \subseteq 20 .. 20 + 11 - 11 /\ \A i \in 20 .. 20 + 11 - 11 : i \in n <=> i - 20 + 11 \in imm
  BY MoveIn
<1>5. o \subseteq 21 .. 21 + 10 - 1 /\ \A i \in 21 .. 21 + 10 - 1 : i \in o <=> i - 21 + 1 \in imm
  BY MoveIn
<1>6. p \subseteq 31 .. 31 + 20 - 20 /\ \A i \in 31 .. 31 + 20 - 20 : i \in p <=> i - 31 + 20 \in imm
  BY MoveIn
<1> HIDE DEF w, a, b, m, n, o, p
<1>7. /\ \A i \in 0 .. 0 + 7 - 1 : i \in w <=> i \in a
      /\ \A i \in 7 .. 7 + 5 - 1 : i \in w <=> i \in b
      /\ \A i \in 12 .. 19 : i \in w <=> i - 12 + 12 \in imm
      /\ \A i \in 20 .. 20 : i \in w <=> i - 20 + 11 \in imm
      /\ \A i \in 21 .. 30 : i \in w <=> i - 21 + 1 \in imm
      /\ \A i \in 31 .. 31 : i \in w <=> i - 31 + 20 \in imm
  BY <1>1, <1>2, <1>3, <1>4, <1>5, <1>6
<1> QED BY <1>7, Zenon DEF Holds, Keeps, w, a, b

-----------------------------------------------------------------------------
(* Immediates. *)

\* What is shifted up to the sign and down again keeps its bits and takes the
\* highest one for all above.
LEMMA ShiftedBack ==
  ASSUME NEW X, X \subseteq 0 .. 31, NEW n \in 1 .. 31, NEW m \in 0 .. n
  PROVE  \A i \in Bit : i \in Sar(Shl(X, n), m) <=>
           IF i + m <= 31 THEN i + m - n \in X ELSE 31 - n \in X
<1> SUFFICES ASSUME NEW i \in Bit
             PROVE  i \in Sar(Shl(X, n), m) <=> IF i + m <= 31 THEN i + m - n \in X ELSE 31 - n \in X
  OBVIOUS
<1>1. i \in Sar(Shl(X, n), m) <=> i + m \in Shl(X, n) \/ (i + m > 31 /\ 31 \in Shl(X, n))
  BY DEF Sar
<1>2. i \in 0 .. 31 /\ 31 \in Bit /\ X \subseteq Int /\ n \in Nat
  BY DEF Bit
<1>3. 31 \in Shl(X, n) <=> 31 - n \in X
  BY <1>2, ShlIn
<1>4. CASE i + m <= 31
  <2> DEFINE j == i + m
  <2>1. j \in Bit
    BY <1>2, <1>4 DEF Bit
  <2>2. j \in Shl(X, n) <=> j - n \in X
    <3> HIDE DEF j
    <3> QED BY <1>2, <2>1, ShlIn
  <2> QED BY <1>1, <1>2, <1>4, <2>2
<1>5. CASE ~ (i + m <= 31)
  <2>1. i + m \notin Shl(X, n)
    BY <1>2, <1>5 DEF Shl, Bit
  <2> QED BY <1>1, <1>2, <1>3, <1>5, <2>1
<1> QED BY <1>4, <1>5

\* imm_i gives back the immediate of twelve bits.
LEMMA ImmI ==
  ASSUME NEW w, w \subseteq Bit, NEW imm, IsImm(imm, 0, 12), Keeps(w, imm, 20, 31, 0)
  PROVE  imm_i(w) = imm
<1>1. imm \subseteq 0 .. 31 /\ \A i \in 12 .. 31 : i \in imm <=> 11 \in imm
  BY DEF IsImm
<1>2. \A j \in 20 .. 31 : j \in w <=> j - 20 \in imm
  BY DEF Keeps
<1>3. ASSUME NEW i \in 0 .. 31 PROVE i + 20 \in w \/ (i + 20 > 31 /\ 31 \in w) <=> i \in imm
  <2>1. 31 \in w <=> 11 \in imm
    BY <1>2
  <2>2. CASE i <= 11
    BY <1>2, <2>2
  <2>3. CASE i > 11
    <3>1. i \in imm <=> 11 \in imm
      BY <1>1, <2>3
    <3>2. i + 20 > 31 /\ i + 20 \notin w
      BY <2>3 DEF Bit
    <3> QED BY <2>1, <3>1, <3>2
  <2> QED BY <2>2, <2>3
<1> QED BY <1>1, <1>3 DEF imm_i, Sar, Bit

\* What the word of a shift holds of its immediate.
HoldsShift(w, high, imm, f) ==
  /\ w \subseteq Bit /\ high \in {4, 5} /\ imm \subseteq 0 .. high /\ f \in {0, 32}
  /\ Keeps(w, imm, 20, 20 + high, 0)
  /\ \A i \in 20 + high + 1 .. 31 : i \in w <=> i = 30 /\ f = 32

\* imm_i gives it back, with the bit its funct7 adds.
LEMMA ImmShift ==
  ASSUME NEW w, NEW high, NEW imm, NEW f, HoldsShift(w, high, imm, f)
  PROVE  imm_i(w) = imm \cup (IF f = 32 THEN {10} ELSE {})
<1>0. /\ w \subseteq Bit /\ high \in {4, 5} /\ imm \subseteq 0 .. high /\ f \in {0, 32}
      /\ Keeps(w, imm, 20, 20 + high, 0)
      /\ \A i \in 20 + high + 1 .. 31 : i \in w <=> i = 30 /\ f = 32
  BY DEF HoldsShift
<1>1. \A j \in 20 .. 20 + high : j \in w <=> j - 20 \in imm
  BY <1>0 DEF Keeps
<1>2. ASSUME NEW i \in 0 .. 31
      PROVE  i + 20 \in w \/ (i + 20 > 31 /\ 31 \in w) <=> i \in imm \/ (i = 10 /\ f = 32)
  <2>1. 31 \notin w
    BY <1>0
  <2>2. CASE i <= high
    BY <1>0, <1>1, <2>1, <2>2
  <2>3. CASE i > high
    <3>1. i \notin imm
      BY <1>0, <2>3
    <3>2. i + 20 \in w <=> i = 10 /\ f = 32
      <4>1. CASE i + 20 <= 31
        BY <1>0, <2>3, <4>1
      <4>2. CASE i + 20 > 31
        BY <1>0, <4>2 DEF Bit
      <4> QED BY <4>1, <4>2
    <3> QED BY <2>1, <3>1, <3>2
  <2> QED BY <1>0, <2>2, <2>3
<1>3. imm_i(w) = {i \in 0 .. 31 : i + 20 \in w \/ (i + 20 > 31 /\ 31 \in w)}
  BY <1>0 DEF imm_i, Sar, Bit
<1>4. imm \subseteq 0 .. 31 /\ 10 \in 0 .. 31
  BY <1>0
<1> QED BY <1>2, <1>3, <1>4

\* A signed immediate is what its bits and its sign give.
LEMMA SignedBack ==
  ASSUME NEW X, X \subseteq 0 .. 31, NEW n \in 1 .. 31, NEW m \in 0 .. n, NEW imm, NEW low \in Nat,
         IsImm(imm, low, 32 - m), \A i \in 0 .. 31 - m : i + m - n \in X <=> i \in imm
  PROVE  Sar(Shl(X, n), m) = imm
<1>1. imm \subseteq 0 .. 31 /\ \A i \in 32 - m .. 31 : i \in imm <=> (32 - m) - 1 \in imm
  BY DEF IsImm
<1>2. ASSUME NEW i \in Bit PROVE i \in Sar(Shl(X, n), m) <=> i \in imm
  <2>1. i \in Sar(Shl(X, n), m) <=> IF i + m <= 31 THEN i + m - n \in X ELSE 31 - n \in X
    BY ShiftedBack
  <2>2. i \in 0 .. 31
    BY DEF Bit
  <2>3. CASE i + m <= 31
    BY <2>1, <2>2, <2>3
  <2>4. CASE ~ (i + m <= 31)
    <3>1. i \in 32 - m .. 31 /\ 31 - m \in 0 .. 31 - m /\ (31 - m) + m - n = 31 - n /\ (32 - m) - 1 = 31 - m
      BY <2>2, <2>4
    <3>2. i \in imm <=> 31 - m \in imm
      BY <1>1, <3>1
    <3>3. 31 - n \in X <=> 31 - m \in imm
      BY <3>1
    <3> QED BY <2>1, <2>4, <3>2, <3>3
  <2> QED BY <2>3, <2>4
<1>3. Sar(Shl(X, n), m) \subseteq Bit /\ imm \subseteq Bit
  BY <1>1 DEF Sar, Bit
<1> QED BY <1>2, <1>3

\* imm_s puts the two parts of a store's immediate together.
LEMMA ImmS ==
  ASSUME NEW w, w \subseteq Bit, NEW imm, IsImm(imm, 0, 12), Keeps(w, imm, 7, 11, 0), Keeps(w, imm, 25, 31, 5)
  PROVE  imm_s(w) = imm
<1> DEFINE X == (Sar(w, 7) \cap 0 .. 4) \cup (Sar(w, 20) \cap 5 .. 11)
<1>1. (\A j \in 7 .. 11 : j \in w <=> j - 7 \in imm) /\ (\A j \in 25 .. 31 : j \in w <=> j - 20 \in imm)
  BY DEF Keeps
<1>2. ASSUME NEW i \in 0 .. 11 PROVE i \in X <=> i \in imm
  <2>1. CASE i <= 4
    <3>1. i \in X <=> i + 7 \in w
      BY <2>1 DEF Sar, Bit
    <3> QED BY <1>1, <2>1, <3>1
  <2>2. CASE i > 4
    <3>1. i \in X <=> i + 20 \in w
      BY <2>2 DEF Sar, Bit
    <3> QED BY <1>1, <2>2, <3>1
  <2> QED BY <2>1, <2>2
<1>3. X \subseteq 0 .. 31
  BY DEF Sar, Bit
<1>4. imm_s(w) = Sar(Shl(X, 20), 20)
  BY DEF imm_s
<1> HIDE DEF X
<1>5. \A i \in 0 .. 31 - 20 : i + 20 - 20 \in X <=> i \in imm
  BY <1>2
<1>6. IsImm(imm, 0, 32 - 20)
  <2>1. 32 - 20 = 12
    OBVIOUS
  <2> QED BY <2>1
<1>7. 20 \in 1 .. 31 /\ 20 \in 0 .. 20 /\ 0 \in Nat
  OBVIOUS
<1> QED BY <1>3, <1>4, <1>5, <1>6, <1>7, SignedBack, Zenon

\* imm_sb puts the four parts of a branch's offset together.
LEMMA ImmB ==
  ASSUME NEW w, w \subseteq Bit, NEW imm, IsImm(imm, 1, 13), Keeps(w, imm, 7, 7, 11),
         Keeps(w, imm, 8, 11, 1), Keeps(w, imm, 25, 30, 5), Keeps(w, imm, 31, 31, 12)
  PROVE  imm_sb(w) = imm
<1> DEFINE X == (Sar(w, 7) \cap 1 .. 4) \cup (Sar(w, 20) \cap 5 .. 10)
                \cup (Shl(w, 4) \cap {11}) \cup (Sar(w, 19) \cap {12})
<1>1. /\ \A j \in 8 .. 11 : j \in w <=> j - 7 \in imm
      /\ \A j \in 25 .. 30 : j \in w <=> j - 20 \in imm
      /\ (7 \in w <=> 11 \in imm) /\ (31 \in w <=> 12 \in imm)
  BY DEF Keeps
<1>2. ASSUME NEW i \in 1 .. 12 PROVE i \in X <=> i \in imm
  <2>1. CASE i <= 4
    <3>1. i \in X <=> i + 7 \in w
      BY <2>1 DEF Sar, Bit
    <3> QED BY <1>1, <2>1, <3>1
  <2>2. CASE i > 4 /\ i <= 10
    <3>1. i \in X <=> i + 20 \in w
      BY <2>2 DEF Sar, Bit
    <3> QED BY <1>1, <2>2, <3>1
  <2>3. CASE i = 11
    <3>1. 11 \in Shl(w, 4) <=> 7 \in w
      <4>1. w \subseteq Int /\ 11 \in Bit /\ 4 \in Nat /\ 11 - 4 = 7
        BY DEF Bit
      <4> QED BY <4>1, ShlIn
    <3> QED BY <1>1, <2>3, <3>1
  <2>4. CASE i = 12
    <3>1. i \in X <=> 31 \in w
      BY <2>4 DEF Sar, Bit
    <3> QED BY <1>1, <2>4, <3>1
  <2> QED BY <2>1, <2>2, <2>3, <2>4
<1>3. X \subseteq 0 .. 31 /\ 0 \notin X
  BY DEF Sar, Bit
<1>4. imm_sb(w) = Sar(Shl(X, 19), 19)
  BY DEF imm_sb
<1> HIDE DEF X
<1>5. \A i \in 0 .. 31 - 19 : i + 19 - 19 \in X <=> i \in imm
  <2>1. 0 \notin imm
    BY DEF IsImm
  <2> QED BY <1>2, <1>3, <2>1
<1>6. IsImm(imm, 1, 32 - 19)
  <2>1. 32 - 19 = 13
    OBVIOUS
  <2> QED BY <2>1
<1>7. 19 \in 1 .. 31 /\ 19 \in 0 .. 19 /\ 1 \in Nat
  OBVIOUS
<1> QED BY <1>3, <1>4, <1>5, <1>6, <1>7, SignedBack, Zenon

\* imm_uj puts the four parts of a JAL's offset together.
LEMMA ImmJ ==
  ASSUME NEW w, w \subseteq Bit, NEW imm, IsImm(imm, 1, 21), Keeps(w, imm, 12, 19, 12),
         Keeps(w, imm, 20, 20, 11), Keeps(w, imm, 21, 30, 1), Keeps(w, imm, 31, 31, 20)
  PROVE  imm_uj(w) = imm
<1> DEFINE X == (Sar(w, 21) \cap 0 .. 9) \cup (Sar(w, 10) \cap {10})
                \cup (Sar(w, 1) \cap 11 .. 18) \cup (Sar(w, 12) \cap {19})
<1>1. /\ \A j \in 12 .. 19 : j \in w <=> j \in imm
      /\ \A j \in 21 .. 30 : j \in w <=> j - 20 \in imm
      /\ (20 \in w <=> 11 \in imm) /\ (31 \in w <=> 20 \in imm)
  BY DEF Keeps
<1>2. ASSUME NEW i \in 0 .. 19 PROVE i \in X <=> i + 1 \in imm
  <2>1. CASE i <= 9
    <3>1. i \in X <=> i + 21 \in w
      BY <2>1 DEF Sar, Bit
    <3> QED BY <1>1, <2>1, <3>1
  <2>2. CASE i = 10
    <3>1. i \in X <=> 20 \in w
      BY <2>2 DEF Sar, Bit
    <3> QED BY <1>1, <2>2, <3>1
  <2>3. CASE i > 10 /\ i < 19
    <3>1. i \in X <=> i + 1 \in w
      BY <2>3 DEF Sar, Bit
    <3> QED BY <1>1, <2>3, <3>1
  <2>4. CASE i = 19
    <3>1. i \in X <=> 31 \in w
      BY <2>4 DEF Sar, Bit
    <3> QED BY <1>1, <2>4, <3>1
  <2> QED BY <2>1, <2>2, <2>3, <2>4
<1>3. X \subseteq 0 .. 31
  BY DEF Sar, Bit
<1>4. imm_uj(w) = Sar(Shl(X, 12), 11)
  BY DEF imm_uj
<1> HIDE DEF X
<1>5. \A i \in 0 .. 31 - 11 : i + 11 - 12 \in X <=> i \in imm
  <2>1. 0 \notin imm /\ -1 \notin X
    BY <1>3 DEF IsImm
  <2>2. ASSUME NEW i \in 1 .. 20 PROVE i + 11 - 12 \in X <=> i \in imm
    <3>1. i - 1 \in 0 .. 19 /\ i + 11 - 12 = i - 1 /\ (i - 1) + 1 = i
      OBVIOUS
    <3> QED BY <1>2, <3>1
  <2> QED BY <2>1, <2>2
<1>6. IsImm(imm, 1, 32 - 11)
  <2>1. 32 - 11 = 21
    OBVIOUS
  <2> QED BY <2>1
<1>7. 12 \in 1 .. 31 /\ 11 \in 0 .. 12 /\ 1 \in Nat
  OBVIOUS
<1> QED BY <1>3, <1>4, <1>5, <1>6, <1>7, SignedBack, Zenon

\* imm_u is the immediate of LUI or AUIPC shifted down; EX shifts it up again.
LEMMA ImmU ==
  ASSUME NEW w, w \subseteq Bit, NEW imm, IsImm(imm, 12, 32), Keeps(w, imm, 12, 31, 12)
  PROVE  /\ \A i \in Bit : i \in imm_u(w) <=> i + 12 \in imm \/ (i >= 20 /\ 31 \in imm)
         /\ imm_u(w) \subseteq Bit /\ Shl(imm_u(w), 12) = imm
<1>1. (\A j \in 12 .. 31 : j \in w <=> j \in imm) /\ imm \subseteq 12 .. 31
  BY DEF Keeps, IsImm
<1>2. imm_u(w) \subseteq Bit /\ Bit = 0 .. 31
  BY DEF imm_u, Sar, Bit
<1>3. ASSUME NEW i \in Bit PROVE i \in imm_u(w) <=> i + 12 \in imm \/ (i >= 20 /\ 31 \in imm)
  <2>1. i \in imm_u(w) <=> i + 12 \in w \/ (i + 12 > 31 /\ 31 \in w)
    BY DEF imm_u, Sar
  <2>2. i + 12 \in w <=> i + 12 \in imm
    <3>1. CASE i + 12 <= 31
      BY <1>1, <1>2, <3>1
    <3>2. CASE i + 12 > 31
      BY <1>1, <1>2, <3>2
    <3> QED BY <1>2, <3>1, <3>2
  <2>3. 31 \in w <=> 31 \in imm
    BY <1>1
  <2>4. i + 12 > 31 <=> i >= 20
    BY <1>2
  <2> QED BY <2>1, <2>2, <2>3, <2>4
<1>4. ASSUME NEW i \in Bit PROVE i \in Shl(imm_u(w), 12) <=> i \in imm
  <2>1. i \in Shl(imm_u(w), 12) <=> i - 12 \in imm_u(w)
    <3>1. imm_u(w) \subseteq Int /\ 12 \in Nat
      BY <1>2
    <3> QED BY <3>1, ShlIn
  <2>2. CASE i < 12
    <3>1. i - 12 \notin Bit
      BY <1>2, <2>2
    <3> QED BY <1>1, <1>2, <2>1, <2>2, <3>1
  <2>3. CASE i >= 12
    <3>1. i - 12 \in Bit /\ i - 12 < 20 /\ (i - 12) + 12 = i
      BY <1>2, <2>3
    <3>2. i - 12 \in imm_u(w) <=> (i - 12) + 12 \in imm
      BY <1>2, <1>3, <3>1
    <3> QED BY <2>1, <3>1, <3>2
  <2> QED BY <1>2, <2>2, <2>3
<1>5. Shl(imm_u(w), 12) \subseteq Bit /\ imm \subseteq Bit
  BY <1>1, <1>2 DEF Shl
<1>6. Shl(imm_u(w), 12) = imm
  BY <1>4, <1>5
<1> QED BY <1>2, <1>3, <1>6

-----------------------------------------------------------------------------
(* What ID makes of a word. *)

\* The bits of the numbers funct7 may be where the immediate has bits of it.
LEMMA PutFew ==
  /\ \A i \in 25 .. 31 : i \in Put(32, 7, 25) <=> i = 30
  /\ \A i \in 26 .. 31 : i \in Put(16, 6, 26) <=> i = 30
  /\ \A i \in 25 .. 31 : i \notin Put(0, 7, 25)
  /\ \A i \in 26 .. 31 : i \notin Put(0, 6, 26)
<1>1. /\ \A k \in 0 .. 6 : (32 \div Two[k]) % 2 = 1 <=> k = 5
      /\ \A k \in 0 .. 6 : (16 \div Two[k]) % 2 = 1 <=> k = 4
      /\ \A k \in 0 .. 6 : (0 \div Two[k]) % 2 # 1
  <2>1. \A k \in 0 .. 6 : k \in {0, 1, 2, 3, 4, 5, 6}
    OBVIOUS
  <2>2. Two[0] = 1
    BY TwoIs
  <2> QED BY <2>1, <2>2, Powers
<1>2. ASSUME NEW x, NEW i \in 25 .. 31 PROVE i \in Put(x, 7, 25) <=> (x \div Two[i - 25]) % 2 = 1
  <2>1. \A k \in 0 .. 7 - 1 : k + 25 \in Put(x, 7, 25) <=> (x \div Two[k]) % 2 = 1
    BY PutIn
  <2>2. i - 25 \in 0 .. 7 - 1 /\ (i - 25) + 25 = i
    OBVIOUS
  <2> QED BY <2>1, <2>2
<1>3. ASSUME NEW x, NEW i \in 26 .. 31 PROVE i \in Put(x, 6, 26) <=> (x \div Two[i - 26]) % 2 = 1
  <2>1. \A k \in 0 .. 6 - 1 : k + 26 \in Put(x, 6, 26) <=> (x \div Two[k]) % 2 = 1
    BY PutIn
  <2>2. i - 26 \in 0 .. 6 - 1 /\ (i - 26) + 26 = i
    OBVIOUS
  <2> QED BY <2>1, <2>2
<1>4. /\ \A i \in 25 .. 31 : i - 25 \in 0 .. 6 /\ (i - 25 = 5 <=> i = 30)
      /\ \A i \in 26 .. 31 : i - 26 \in 0 .. 6 /\ (i - 26 = 4 <=> i = 30)
  OBVIOUS
<1>5. \A i \in 25 .. 31 : i \in Put(32, 7, 25) <=> i = 30
  BY <1>1, <1>2, <1>4
<1>6. \A i \in 26 .. 31 : i \in Put(16, 6, 26) <=> i = 30
  BY <1>1, <1>3, <1>4
<1>7. \A i \in 25 .. 31 : i \notin Put(0, 7, 25)
  BY <1>1, <1>2, <1>4
<1>8. \A i \in 26 .. 31 : i \notin Put(0, 6, 26)
  BY <1>1, <1>3, <1>4
<1> QED BY <1>5, <1>6, <1>7, <1>8

\* The registers of an instruction are numbers of five bits, its codes fit.
LEMMA NumbersOf ==
  ASSUME NEW inst, WellFormed(inst)
  PROVE  /\ inst.op \in Ops /\ {inst.rd, inst.rs1, inst.rs2} \subseteq Reg
         /\ inst.rd \in 0 .. 31 /\ inst.rs1 \in 0 .. 31 /\ inst.rs2 \in 0 .. 31
         /\ FormatOf(inst) \in {"R", "I", "S6", "S5", "S", "B", "U", "J"}
         /\ Encoding(inst.op)[2] \in 0 .. 127 /\ Encoding(inst.op)[3] \in 0 .. 7 /\ Encoding(inst.op)[4] \in 0 .. 127
<1>1. inst.op \in Ops /\ {inst.rd, inst.rs1, inst.rs2} \subseteq Reg
  BY DEF WellFormed
<1>2. Reg \subseteq 0 .. 31
  BY DatapathAssumption
<1>3. FormatOf(inst) = Encoding(inst.op)[1]
  BY DEF FormatOf
<1>4. {inst.rd, inst.rs1, inst.rs2} \subseteq 0 .. 31
  BY ONLY <1>1, <1>2
<1>5. inst.rd \in 0 .. 31 /\ inst.rs1 \in 0 .. 31 /\ inst.rs2 \in 0 .. 31
  BY ONLY <1>4
<1>6. /\ FormatOf(inst) \in {"R", "I", "S6", "S5", "S", "B", "U", "J"}
      /\ Encoding(inst.op)[2] \in 0 .. 127 /\ Encoding(inst.op)[3] \in 0 .. 7 /\ Encoding(inst.op)[4] \in 0 .. 127
  BY <1>1, <1>3, EncodingFits, SMTT(20)
<1> QED BY <1>1, <1>5, <1>6

\* The fields of a word are those of its instruction.
Fields(inst, w, e, f) ==
  /\ opcode(w) = e[2]
  /\ f \in {"R", "I", "S6", "S5", "U", "J"} => rd(w) = inst.rd
  /\ f \notin {"U", "J"} => funct3(w) = e[3] /\ rs1(w) = inst.rs1
  /\ f \in {"R", "S", "B"} => rs2(w) = inst.rs2
  /\ f \in {"R", "S5"} => funct7(w) = e[4]
  /\ f = "S6" => Field(w, 26, 31) = IF e[4] = 32 THEN 16 ELSE 0

\* They are so for every instruction.
LEMMA FieldsOf ==
  ASSUME NEW inst, WellFormed(inst),
         FormatOf(inst) \in {"S6", "S5"} => Encoding(inst.op)[4] \in {0, 32}
  PROVE  Fields(inst, Encode(inst), Encoding(inst.op), FormatOf(inst))
<1> DEFINE w == Encode(inst)
           e == Encoding(inst.op)
           f == FormatOf(inst)
<1>1. /\ inst.rd \in 0 .. 31 /\ inst.rs1 \in 0 .. 31 /\ inst.rs2 \in 0 .. 31
      /\ f \in {"R", "I", "S6", "S5", "S", "B", "U", "J"}
      /\ e[2] \in 0 .. 127 /\ e[3] \in 0 .. 7 /\ e[4] \in 0 .. 127
  BY NumbersOf
<1>2. /\ Holds(w, e[2], 7, 0) => opcode(w) = e[2]
      /\ Holds(w, inst.rd, 5, 7) => rd(w) = inst.rd
      /\ Holds(w, e[3], 3, 12) => funct3(w) = e[3]
      /\ Holds(w, inst.rs1, 5, 15) => rs1(w) = inst.rs1
      /\ Holds(w, inst.rs2, 5, 20) => rs2(w) = inst.rs2
      /\ Holds(w, e[4], 7, 25) => funct7(w) = e[4]
  <2> HIDE DEF w, e
  <2> QED BY <1>1, FieldsAre
<1>3. Holds(w, 16, 6, 26) => Field(w, 26, 31) = 16
  <2> HIDE DEF w
  <2> QED BY FieldsAre
<1>4. Holds(w, 0, 6, 26) => Field(w, 26, 31) = 0
  <2> HIDE DEF w
  <2> QED BY FieldsAre
<1>5. CASE f = "R"
  <2>1. /\ Holds(w, e[2], 7, 0) /\ Holds(w, inst.rd, 5, 7) /\ Holds(w, e[3], 3, 12)
        /\ Holds(w, inst.rs1, 5, 15) /\ Holds(w, inst.rs2, 5, 20) /\ Holds(w, e[4], 7, 25)
    BY <1>5, WordR, Zenon
  <2> HIDE DEF w, e, f
  <2>2. Fields(inst, w, e, f)
    BY <1>2, <1>5, <2>1 DEF Fields
  <2> QED BY <2>2 DEF w, e, f
<1>6. CASE f = "I"
  <2>1. /\ Holds(w, e[2], 7, 0) /\ Holds(w, inst.rd, 5, 7) /\ Holds(w, e[3], 3, 12)
        /\ Holds(w, inst.rs1, 5, 15)
    BY <1>6, WordI, Zenon
  <2> HIDE DEF w, e, f
  <2>2. Fields(inst, w, e, f)
    BY <1>2, <1>6, <2>1 DEF Fields
  <2> QED BY <2>2 DEF w, e, f
<1>7. CASE f = "S6"
  <2>0. 5 \in {4, 5} /\ f = (IF 5 = 5 THEN "S6" ELSE "S5") /\ e[4] \in {0, 32}
    BY <1>7
  <2>1. /\ Holds(w, e[2], 7, 0) /\ Holds(w, inst.rd, 5, 7) /\ Holds(w, e[3], 3, 12)
        /\ Holds(w, inst.rs1, 5, 15)
        /\ \A i \in 20 + 5 + 1 .. 31 : i \in w <=> i = 30 /\ e[4] = 32
    BY <2>0, WordShift, Zenon
  <2> HIDE DEF w, e, f
  <2>2. CASE e[4] = 32
    <3>1. Holds(w, 16, 6, 26)
      BY <2>1, <2>2, PutFew DEF Holds
    <3> QED BY <1>2, <1>3, <1>7, <2>1, <2>2, <3>1 DEF Fields, w, e, f
  <2>3. CASE e[4] = 0
    <3>1. Holds(w, 0, 6, 26)
      BY <2>1, <2>3, PutFew DEF Holds
    <3> QED BY <1>2, <1>4, <1>7, <2>1, <2>3, <3>1 DEF Fields, w, e, f
  <2> QED BY <2>0, <2>2, <2>3
<1>8. CASE f = "S5"
  <2>0. 4 \in {4, 5} /\ f = (IF 4 = 5 THEN "S6" ELSE "S5") /\ e[4] \in {0, 32}
    BY <1>8
  <2>1. /\ Holds(w, e[2], 7, 0) /\ Holds(w, inst.rd, 5, 7) /\ Holds(w, e[3], 3, 12)
        /\ Holds(w, inst.rs1, 5, 15)
        /\ \A i \in 20 + 4 + 1 .. 31 : i \in w <=> i = 30 /\ e[4] = 32
    BY <2>0, WordShift, Zenon
  <2> HIDE DEF w, e, f
  <2>2. Holds(w, e[4], 7, 25)
    <3>1. CASE e[4] = 32
      BY <2>1, <3>1, PutFew DEF Holds
    <3>2. CASE e[4] = 0
      BY <2>1, <3>2, PutFew DEF Holds
    <3> QED BY <2>0, <3>1, <3>2
  <2> QED BY <1>2, <1>8, <2>1, <2>2 DEF Fields, w, e, f
<1>9. CASE f = "S"
  <2>1. /\ Holds(w, e[2], 7, 0) /\ Holds(w, e[3], 3, 12) /\ Holds(w, inst.rs1, 5, 15)
        /\ Holds(w, inst.rs2, 5, 20)
    BY <1>9, WordS, Zenon
  <2> HIDE DEF w, e, f
  <2> QED BY <1>2, <1>9, <2>1 DEF Fields, w, e, f
<1>10. CASE f = "B"
  <2>1. /\ Holds(w, e[2], 7, 0) /\ Holds(w, e[3], 3, 12) /\ Holds(w, inst.rs1, 5, 15)
        /\ Holds(w, inst.rs2, 5, 20)
    BY <1>10, WordB, Zenon
  <2> HIDE DEF w, e, f
  <2> QED BY <1>2, <1>10, <2>1 DEF Fields, w, e, f
<1>11. CASE f = "U"
  <2>1. Holds(w, e[2], 7, 0) /\ Holds(w, inst.rd, 5, 7)
    BY <1>11, WordU, Zenon
  <2> HIDE DEF w, e, f
  <2> QED BY <1>2, <1>11, <2>1 DEF Fields, w, e, f
<1>12. CASE f = "J"
  <2>1. Holds(w, e[2], 7, 0) /\ Holds(w, inst.rd, 5, 7)
    BY <1>12, WordJ, Zenon
  <2> HIDE DEF w, e, f
  <2> QED BY <1>2, <1>12, <2>1 DEF Fields, w, e, f
<1> QED BY <1>1, <1>5, <1>6, <1>7, <1>8, <1>9, <1>10, <1>11, <1>12

\* So are the immediates.
LEMMA ImmsOf ==
  ASSUME NEW inst, WellFormed(inst), NEW w, w = Encode(inst), w \subseteq Bit,
         FormatOf(inst) \in {"S6", "S5"} => Encoding(inst.op)[4] \in {0, 32}
  PROVE  /\ FormatOf(inst) = "I" => imm_i(w) = inst.imm
         /\ FormatOf(inst) \in {"S6", "S5"} =>
              imm_i(w) = inst.imm \cup (IF Encoding(inst.op)[4] = 32 THEN {10} ELSE {})
         /\ FormatOf(inst) = "S" => imm_s(w) = inst.imm
         /\ FormatOf(inst) = "B" => imm_sb(w) = inst.imm
         /\ FormatOf(inst) = "J" => imm_uj(w) = inst.imm
         /\ FormatOf(inst) = "U" =>
              /\ \A i \in Bit : i \in imm_u(w) <=> i + 12 \in inst.imm \/ (i >= 20 /\ 31 \in inst.imm)
              /\ imm_u(w) \subseteq Bit /\ Shl(imm_u(w), 12) = inst.imm
<1> DEFINE f == FormatOf(inst)
           e == Encoding(inst.op)
           imm == inst.imm
<1>1. ASSUME f = "I" PROVE imm_i(w) = imm
  <2>1. Keeps(w, imm, 20, 31, 0)
    BY <1>1, WordI, Zenon
  <2>2. IsImm(imm, 0, 12)
    BY <1>1 DEF WellFormed
  <2> QED BY <2>1, <2>2, ImmI
<1>2. ASSUME NEW high \in {4, 5}, f = (IF high = 5 THEN "S6" ELSE "S5"), e[4] \in {0, 32}, imm \subseteq 0 .. high
      PROVE  imm_i(w) = imm \cup (IF e[4] = 32 THEN {10} ELSE {})
  <2>1. Keeps(w, imm, 20, 20 + high, 0)
    BY <1>2, WordShift, Zenon
  <2>2. \A i \in 20 + high + 1 .. 31 : i \in w <=> i = 30 /\ e[4] = 32
    BY <1>2, WordShift, Zenon
  <2> DEFINE n == e[4]
  <2>3. high \in {4, 5} /\ n \in {0, 32} /\ imm \subseteq 0 .. high /\ w \subseteq Bit
        /\ \A i \in 20 + high + 1 .. 31 : i \in w <=> i = 30 /\ n = 32
    BY <1>2, <2>2
  <2> HIDE DEF n, f, imm
  <2>4. imm_i(w) = imm \cup (IF n = 32 THEN {10} ELSE {})
    <3>1. HoldsShift(w, high, imm, n)
      BY <2>1, <2>3 DEF HoldsShift
    <3> QED BY <3>1, ImmShift, SMT
  <2> QED BY <2>4 DEF n
<1>3. ASSUME f \in {"S6", "S5"} PROVE imm_i(w) = imm \cup (IF e[4] = 32 THEN {10} ELSE {})
  <2>1. CASE f = "S6"
    <3>1. 5 \in {4, 5} /\ f = (IF 5 = 5 THEN "S6" ELSE "S5") /\ e[4] \in {0, 32} /\ imm \subseteq 0 .. 5
      BY <2>1 DEF WellFormed
    <3> HIDE DEF f, e, imm
    <3> QED BY <1>2, <3>1, Zenon
  <2>2. CASE f = "S5"
    <3>1. 4 \in {4, 5} /\ f = (IF 4 = 5 THEN "S6" ELSE "S5") /\ e[4] \in {0, 32} /\ imm \subseteq 0 .. 4
      BY <2>2 DEF WellFormed
    <3> HIDE DEF f, e, imm
    <3> QED BY <1>2, <3>1, Zenon
  <2> QED BY <1>3, <2>1, <2>2
<1>4. ASSUME f = "S" PROVE imm_s(w) = imm
  <2>1. Keeps(w, imm, 7, 11, 0) /\ Keeps(w, imm, 25, 31, 5)
    BY <1>4, WordS, Zenon
  <2>2. IsImm(imm, 0, 12)
    BY <1>4 DEF WellFormed
  <2> QED BY <2>1, <2>2, ImmS
<1>5. ASSUME f = "B" PROVE imm_sb(w) = imm
  <2>1. /\ Keeps(w, imm, 7, 7, 11) /\ Keeps(w, imm, 8, 11, 1) /\ Keeps(w, imm, 25, 30, 5)
        /\ Keeps(w, imm, 31, 31, 12)
    BY <1>5, WordB, Zenon
  <2>2. IsImm(imm, 1, 13)
    BY <1>5 DEF WellFormed
  <2> QED BY <2>1, <2>2, ImmB
<1>6. ASSUME f = "J" PROVE imm_uj(w) = imm
  <2>1. /\ Keeps(w, imm, 12, 19, 12) /\ Keeps(w, imm, 20, 20, 11) /\ Keeps(w, imm, 21, 30, 1)
        /\ Keeps(w, imm, 31, 31, 20)
    BY <1>6, WordJ, Zenon
  <2>2. IsImm(imm, 1, 21)
    BY <1>6 DEF WellFormed
  <2> QED BY <2>1, <2>2, ImmJ
<1>7. ASSUME f = "U"
      PROVE  /\ \A i \in Bit : i \in imm_u(w) <=> i + 12 \in imm \/ (i >= 20 /\ 31 \in imm)
             /\ imm_u(w) \subseteq Bit /\ Shl(imm_u(w), 12) = imm
  <2>1. Keeps(w, imm, 12, 31, 12)
    BY <1>7, WordU, Zenon
  <2>2. IsImm(imm, 12, 32)
    BY <1>7 DEF WellFormed
  <2> HIDE DEF imm
  <2> QED BY <2>1, <2>2, ImmU, Zenon
<1> QED BY <1>1, <1>3, <1>4, <1>5, <1>6, <1>7

\* A code that is in a table once stands for the one entry with it.
LEMMA LookupIs ==
  ASSUME NEW T, NEW t \in DOMAIN T, \A u \in DOMAIN T : T[u] = T[t] => u = t
  PROVE  Lookup(T, T[t]) = t
BY DEF Lookup

\* A code that is in no entry is none of the table's.
LEMMA LookupNone ==
  ASSUME NEW T, NEW c, \A u \in DOMAIN T : T[u] # c
  PROVE  Lookup(T, c) = "EXIT"
BY DEF Lookup

\* The tables of the code know what those of the manual do, but for SLTU and LWU.
LEMMA RTypesIs ==
  ASSUME NEW op \in DOMAIN OP
  PROVE  Lookup(RTypes, <<OP[op][1], OP[op][2]>>) = IF op = "SLTU" THEN "EXIT" ELSE op
<1>1. CASE op # "SLTU"
  <2>1. op \in DOMAIN RTypes /\ RTypes[op] = <<OP[op][1], OP[op][2]>>
    BY <1>1 DEF OP, RTypes
  <2>2. \A u \in DOMAIN RTypes : RTypes[u] = RTypes[op] => u = op
    BY <2>1 DEF RTypes
  <2> QED BY <1>1, <2>1, <2>2, LookupIs
<1>2. CASE op = "SLTU"
  <2>1. OP[op] = <<3, 0>>
    BY <1>2 DEF OP
  <2>2. \A u \in DOMAIN RTypes : RTypes[u] # <<3, 0>>
    BY DEF RTypes
  <2>3. <<OP[op][1], OP[op][2]>> = <<3, 0>>
    BY <2>1
  <2> QED BY <1>2, <2>2, <2>3, LookupNone
<1> QED BY <1>1, <1>2

\* The load table knows every load but LWU.
LEMMA LoadTypesIs ==
  ASSUME NEW op \in DOMAIN LOAD
  PROVE  Lookup(LoadTypes, LOAD[op]) = IF op = "LWU" THEN "EXIT" ELSE op
<1>1. CASE op # "LWU"
  <2>1. op \in DOMAIN LoadTypes /\ LoadTypes[op] = LOAD[op]
    BY <1>1 DEF LOAD, LoadTypes
  <2>2. \A u \in DOMAIN LoadTypes : LoadTypes[u] = LoadTypes[op] => u = op
    BY <2>1 DEF LoadTypes
  <2> QED BY <1>1, <2>1, <2>2, LookupIs
<1>2. CASE op = "LWU"
  <2>1. LOAD[op] = 6 /\ \A u \in DOMAIN LoadTypes : LoadTypes[u] # 6
    BY <1>2 DEF LOAD, LoadTypes
  <2> QED BY <1>2, <2>1, LookupNone
<1> QED BY <1>1, <1>2

\* The store table knows every store.
LEMMA StoreTypesIs == ASSUME NEW op \in DOMAIN STORE PROVE Lookup(StoreTypes, STORE[op]) = op
<1>1. op \in DOMAIN StoreTypes /\ StoreTypes[op] = STORE[op]
  BY DEF STORE, StoreTypes
<1>2. \A u \in DOMAIN StoreTypes : StoreTypes[u] = StoreTypes[op] => u = op
  BY <1>1 DEF StoreTypes
<1> QED BY <1>1, <1>2, LookupIs

\* The branch table knows every branch.
LEMMA BranchTypesIs == ASSUME NEW op \in DOMAIN BRANCH PROVE Lookup(BranchTypes, BRANCH[op]) = op
<1>1. op \in DOMAIN BranchTypes /\ BranchTypes[op] = BRANCH[op]
  BY DEF BRANCH, BranchTypes
<1>2. \A u \in DOMAIN BranchTypes : BranchTypes[u] = BranchTypes[op] => u = op
  BY <1>1 DEF BranchTypes
<1> QED BY <1>1, <1>2, LookupIs

\* The table of the immediates knows all but the shifts to the right.
LEMMA ImmTypesIs ==
  /\ \A op \in DOMAIN OP_IMM : Lookup(ImmTypes, OP_IMM[op]) = op /\ OP_IMM[op] # 5
  /\ Lookup(ImmTypes, 1) = "SLLI"
<1>1. \A u, t \in DOMAIN ImmTypes : ImmTypes[u] = ImmTypes[t] => u = t
  BY DEF ImmTypes
<1>2. \A op \in DOMAIN OP_IMM : op \in DOMAIN ImmTypes /\ ImmTypes[op] = OP_IMM[op] /\ OP_IMM[op] # 5
  BY DEF OP_IMM, ImmTypes
<1>3. "SLLI" \in DOMAIN ImmTypes /\ ImmTypes["SLLI"] = 1
  BY DEF ImmTypes
<1>4. ASSUME NEW t \in DOMAIN ImmTypes PROVE Lookup(ImmTypes, ImmTypes[t]) = t
  BY <1>1, LookupIs
<1> QED BY <1>2, <1>3, <1>4

\* The switch over the opcode.
LEMMA DecodeBy ==
  ASSUME NEW w, NEW r
  PROVE  /\ opcode(w) = 51 => Decode(w, r) = DecodeR(w, r)
         /\ opcode(w) = 59 => Decode(w, r) = DecodeOp32(w, r)
         /\ opcode(w) = 19 => Decode(w, r) = DecodeImm(w, r)
         /\ opcode(w) = 27 => Decode(w, r) = DecodeImm32(w, r)
         /\ opcode(w) = 3 => Decode(w, r) = DecodeLoad(w, r)
         /\ opcode(w) = 35 => Decode(w, r) = DecodeStore(w, r)
         /\ opcode(w) = 99 => Decode(w, r) = DecodeBranch(w, r)
         /\ opcode(w) = 55 => Decode(w, r) = DecodeUpper("LUI", w)
         /\ opcode(w) = 23 => Decode(w, r) = DecodeUpper("AUIPC", w)
         /\ opcode(w) = 111 => Decode(w, r) = DecodeJAL(w)
         /\ opcode(w) = 103 => Decode(w, r) = DecodeJALR(w, r)
         /\ opcode(w) = 115 => Decode(w, r) = DecodeSystem(w, r)
         /\ opcode(w) = 15 => Decode(w, r) = Operands("EXIT", -1, -1, -1, 0, 0, 0)
<1> DEFINE o == opcode(w)
<1>1. /\ Opcode.R = 51 /\ Opcode.IMM = 19 /\ Opcode.LUI = 55 /\ Opcode.BRANCH = 99 /\ Opcode.STORE = 35
      /\ Opcode.LOAD = 3 /\ Opcode.SYSTEM = 115 /\ Opcode.AUIPC = 23 /\ Opcode.JAL = 111
      /\ Opcode.JALR = 103 /\ Opcode.IMM32 = 27 /\ Opcode.OP32 = 59
  BY DEF Opcode
<1>2. Decode(w, r) =
        CASE o = 51  -> DecodeR(w, r)
          [] o = 19  -> DecodeImm(w, r)
          [] o = 111 -> DecodeJAL(w)
          [] o = 103 -> DecodeJALR(w, r)
          [] o = 99  -> DecodeBranch(w, r)
          [] o = 3   -> DecodeLoad(w, r)
          [] o = 35  -> DecodeStore(w, r)
          [] o = 55  -> DecodeUpper("LUI", w)
          [] o = 23  -> DecodeUpper("AUIPC", w)
          [] o = 115 -> DecodeSystem(w, r)
          [] o = 27  -> DecodeImm32(w, r)
          [] o = 59  -> DecodeOp32(w, r)
          [] OTHER   -> Operands("EXIT", -1, -1, -1, 0, 0, 0)
  BY <1>1, Zenon DEF Decode, o
<1> HIDE DEF o
<1>3. /\ o = 51 => Decode(w, r) = DecodeR(w, r)
      /\ o = 59 => Decode(w, r) = DecodeOp32(w, r)
      /\ o = 19 => Decode(w, r) = DecodeImm(w, r)
      /\ o = 27 => Decode(w, r) = DecodeImm32(w, r)
      /\ o = 3 => Decode(w, r) = DecodeLoad(w, r)
      /\ o = 35 => Decode(w, r) = DecodeStore(w, r)
      /\ o = 99 => Decode(w, r) = DecodeBranch(w, r)
      /\ o = 55 => Decode(w, r) = DecodeUpper("LUI", w)
      /\ o = 23 => Decode(w, r) = DecodeUpper("AUIPC", w)
      /\ o = 111 => Decode(w, r) = DecodeJAL(w)
      /\ o = 103 => Decode(w, r) = DecodeJALR(w, r)
      /\ o = 115 => Decode(w, r) = DecodeSystem(w, r)
      /\ o = 15 => Decode(w, r) = Operands("EXIT", -1, -1, -1, 0, 0, 0)
  BY <1>2
<1> QED BY <1>3 DEF o

\* What ID has of each kind of instruction.
LEMMA DecodeOP ==
  ASSUME NEW inst, WellFormed(inst), NEW w, w = Encode(inst), NEW r, inst.op \in DOMAIN OP
  PROVE  /\ FormatOf(inst) = "R"
         /\ Decode(w, r) = Operands(IF inst.op = "SLTU" THEN "EXIT" ELSE inst.op, inst.rd, inst.rs1, inst.rs2,
                                    r[inst.rs1], r[inst.rs2], 0)
<1>1. Encoding(inst.op) = <<"R", 51, OP[inst.op][1], OP[inst.op][2]>>
  BY EncodingIs
<1>2. FormatOf(inst) = "R"
  BY <1>1 DEF FormatOf
<1>3. /\ opcode(w) = 51 /\ rd(w) = inst.rd /\ rs1(w) = inst.rs1 /\ rs2(w) = inst.rs2
      /\ funct3(w) = OP[inst.op][1] /\ funct7(w) = OP[inst.op][2]
  BY <1>1, <1>2, FieldsOf DEF Fields
<1>4. RType(w) = IF inst.op = "SLTU" THEN "EXIT" ELSE inst.op
  BY <1>3, RTypesIs DEF RType
<1> QED BY <1>2, <1>3, <1>4, DecodeBy DEF DecodeR

\* ID takes SLLW for SRLW and MULW for an unknown type.
LEMMA DecodeOP_32 ==
  ASSUME NEW inst, WellFormed(inst), NEW w, w = Encode(inst), NEW r, inst.op \in DOMAIN OP_32
  PROVE  /\ FormatOf(inst) = "R"
         /\ Decode(w, r) = Operands(CASE inst.op = "MULW" -> "UNKNOWN" [] inst.op = "SLLW" -> "SRLW"
                                      [] OTHER -> inst.op,
                                    inst.rd, inst.rs1, inst.rs2, r[inst.rs1], r[inst.rs2], 0)
<1>1. Encoding(inst.op) = <<"R", 59, OP_32[inst.op][1], OP_32[inst.op][2]>>
  BY EncodingIs
<1>2. FormatOf(inst) = "R"
  BY <1>1 DEF FormatOf
<1>3. /\ opcode(w) = 59 /\ rd(w) = inst.rd /\ rs1(w) = inst.rs1 /\ rs2(w) = inst.rs2
      /\ funct3(w) = OP_32[inst.op][1] /\ funct7(w) = OP_32[inst.op][2]
  BY <1>1, <1>2, FieldsOf DEF Fields
<1>4. Op32Type(w) = CASE inst.op = "MULW" -> "UNKNOWN" [] inst.op = "SLLW" -> "SRLW" [] OTHER -> inst.op
  <2> DEFINE f3 == funct3(w)
             f7 == funct7(w)
  <2>1. <<inst.op, f3, f7>> \in {<<"ADDW", 0, 0>>, <<"SUBW", 0, 32>>, <<"SLLW", 1, 0>>, <<"SRLW", 5, 0>>,
                                <<"SRAW", 5, 32>>, <<"MULW", 0, 1>>}
    BY <1>3 DEF OP_32
  <2>2. Op32Type(w) =
          CASE f3 = 0        -> (CASE f7 = 0 -> "ADDW" [] f7 = 32 -> "SUBW" [] OTHER -> "UNKNOWN")
            [] f3 \in {1, 5} -> (CASE f7 = 0 -> "SRLW" [] f7 = 32 -> "SRAW" [] OTHER -> "UNKNOWN")
            [] OTHER         -> "EXIT"
    BY Zenon DEF Op32Type, ByFunct7
  <2> HIDE DEF f3, f7
  <2> QED BY <2>1, <2>2
<1> QED BY <1>2, <1>3, <1>4, DecodeBy DEF DecodeOp32

\* An operation on a register and an immediate.
LEMMA DecodeOP_IMM ==
  ASSUME NEW inst, WellFormed(inst), NEW w, w = Encode(inst), w \subseteq Bit, NEW r, inst.op \in DOMAIN OP_IMM
  PROVE  /\ FormatOf(inst) = "I"
         /\ Decode(w, r) = Operands(inst.op, inst.rd, inst.rs1, -1, r[inst.rs1], Value(inst.imm), 0)
<1>1. Encoding(inst.op) = <<"I", 19, OP_IMM[inst.op], 0>>
  BY EncodingIs
<1>2. FormatOf(inst) = "I"
  BY <1>1 DEF FormatOf
<1>3. /\ opcode(w) = 19 /\ rd(w) = inst.rd /\ rs1(w) = inst.rs1 /\ funct3(w) = OP_IMM[inst.op]
      /\ imm_i(w) = inst.imm
  BY <1>1, <1>2, FieldsOf, ImmsOf DEF Fields
<1>4. ImmType(w) = inst.op
  <2>1. Lookup(ImmTypes, funct3(w)) = inst.op /\ funct3(w) # 5
    BY <1>3, ImmTypesIs
  <2>2. funct3(w) # 5 => ImmType(w) = Lookup(ImmTypes, funct3(w))
    BY DEF ImmType
  <2> QED BY <2>1, <2>2
<1>5. Shamt(inst.op, inst.imm) = inst.imm
  BY DEF Shamt, OP_IMM
<1> QED BY <1>2, <1>3, <1>4, <1>5, DecodeBy DEF DecodeImm

\* A shift by an immediate: SRAI loses the bit of its funct7 again.
LEMMA DecodeOP_SHIFT ==
  ASSUME NEW inst, WellFormed(inst), NEW w, w = Encode(inst), w \subseteq Bit, NEW r, inst.op \in DOMAIN OP_SHIFT
  PROVE  /\ FormatOf(inst) = "S6"
         /\ Decode(w, r) = Operands(inst.op, inst.rd, inst.rs1, -1, r[inst.rs1], Value(inst.imm), 0)
<1>1. Encoding(inst.op) = <<"S6", 19, OP_SHIFT[inst.op][1], OP_SHIFT[inst.op][2]>>
  BY EncodingIs
<1>2. FormatOf(inst) = "S6" /\ Encoding(inst.op)[4] = OP_SHIFT[inst.op][2] /\ OP_SHIFT[inst.op][2] \in {0, 32}
  BY <1>1, TablesFit DEF FormatOf
<1>3. /\ opcode(w) = 19 /\ rd(w) = inst.rd /\ rs1(w) = inst.rs1 /\ funct3(w) = OP_SHIFT[inst.op][1]
      /\ Field(w, 26, 31) = IF OP_SHIFT[inst.op][2] = 32 THEN 16 ELSE 0
  BY <1>1, <1>2, FieldsOf DEF Fields
<1>4. imm_i(w) = inst.imm \cup (IF OP_SHIFT[inst.op][2] = 32 THEN {10} ELSE {})
  BY <1>2, ImmsOf
<1>5. ImmType(w) = inst.op
  <2>1. CASE inst.op = "SLLI"
    <3>1. funct3(w) = 1
      BY <1>3, <2>1 DEF OP_SHIFT
    <3>2. funct3(w) # 5 => ImmType(w) = Lookup(ImmTypes, funct3(w))
      BY DEF ImmType
    <3> QED BY <2>1, <3>1, <3>2, ImmTypesIs
  <2>2. CASE inst.op \in {"SRLI", "SRAI"}
    BY <1>3, <2>2 DEF ImmType, OP_SHIFT
  <2> QED BY <2>1, <2>2 DEF OP_SHIFT
<1>6. Shamt(inst.op, imm_i(w)) = inst.imm
  <2>1. inst.imm \subseteq 0 .. 5
    BY <1>2 DEF WellFormed
  <2>2. inst.op \in {"SLLI", "SRLI", "SRAI"}
    BY DEF OP_SHIFT
  <2> QED BY <1>4, <2>1, <2>2 DEF Shamt
<1> QED BY <1>2, <1>3, <1>5, <1>6, DecodeBy DEF DecodeImm

\* A shift of a word by an immediate: SRAIW keeps the bit of its funct7.
LEMMA DecodeOP_SHIFT_32 ==
  ASSUME NEW inst, WellFormed(inst), NEW w, w = Encode(inst), w \subseteq Bit, NEW r, inst.op \in DOMAIN OP_SHIFT_32
  PROVE  /\ FormatOf(inst) = "S5"
         /\ Decode(w, r) = Operands(inst.op, inst.rd, inst.rs1, -1, r[inst.rs1],
                                    Value(inst.imm \cup (IF inst.op = "SRAIW" THEN {10} ELSE {})), 0)
<1>1. Encoding(inst.op) = <<"S5", 27, OP_SHIFT_32[inst.op][1], OP_SHIFT_32[inst.op][2]>>
  BY EncodingIs
<1>2. FormatOf(inst) = "S5" /\ Encoding(inst.op)[4] = OP_SHIFT_32[inst.op][2] /\ OP_SHIFT_32[inst.op][2] \in {0, 32}
  BY <1>1, TablesFit DEF FormatOf
<1>3. /\ opcode(w) = 27 /\ rd(w) = inst.rd /\ rs1(w) = inst.rs1 /\ funct3(w) = OP_SHIFT_32[inst.op][1]
      /\ funct7(w) = OP_SHIFT_32[inst.op][2]
  BY <1>1, <1>2, FieldsOf DEF Fields
<1>4. imm_i(w) = inst.imm \cup (IF OP_SHIFT_32[inst.op][2] = 32 THEN {10} ELSE {})
  BY <1>2, ImmsOf
<1>5. Imm32Type(w) = inst.op /\ (OP_SHIFT_32[inst.op][2] = 32 <=> inst.op = "SRAIW")
  <2> DEFINE f3 == funct3(w)
             f7 == funct7(w)
  <2>1. <<inst.op, f3, f7>> \in {<<"SLLIW", 1, 0>>, <<"SRLIW", 5, 0>>, <<"SRAIW", 5, 32>>}
        /\ OP_SHIFT_32[inst.op][2] = f7
    BY <1>3 DEF OP_SHIFT_32
  <2>2. Imm32Type(w) =
          CASE f3 = 0 -> "ADDIW"
            [] f3 = 1 -> "SLLIW"
            [] f3 = 5 -> (CASE f7 = 0 -> "SRLIW" [] f7 = 32 -> "SRAIW" [] OTHER -> "UNKNOWN")
            [] OTHER  -> "EXIT"
    BY Zenon DEF Imm32Type, ByFunct7
  <2> HIDE DEF f3, f7
  <2> QED BY <2>1, <2>2
<1>6. Decode(w, r) = DecodeImm32(w, r)
  BY <1>3, DecodeBy
<1>7. imm_i(w) = inst.imm \cup (IF inst.op = "SRAIW" THEN {10} ELSE {})
  BY <1>4, <1>5
<1> QED BY <1>2, <1>3, <1>5, <1>6, <1>7 DEF DecodeImm32

\* A load, of which ID does not know LWU.
LEMMA DecodeLOAD ==
  ASSUME NEW inst, WellFormed(inst), NEW w, w = Encode(inst), w \subseteq Bit, NEW r, inst.op \in DOMAIN LOAD
  PROVE  /\ FormatOf(inst) = "I"
         /\ Decode(w, r) = Operands(IF inst.op = "LWU" THEN "EXIT" ELSE inst.op, inst.rd, inst.rs1, -1,
                                    r[inst.rs1], Value(inst.imm), Value(inst.imm))
<1>1. Encoding(inst.op) = <<"I", 3, LOAD[inst.op], 0>>
  BY EncodingIs
<1>2. FormatOf(inst) = "I"
  BY <1>1 DEF FormatOf
<1>3. /\ opcode(w) = 3 /\ rd(w) = inst.rd /\ rs1(w) = inst.rs1 /\ funct3(w) = LOAD[inst.op]
      /\ imm_i(w) = inst.imm
  BY <1>1, <1>2, FieldsOf, ImmsOf DEF Fields
<1>4. LoadType(w) = IF inst.op = "LWU" THEN "EXIT" ELSE inst.op
  BY <1>3, LoadTypesIs DEF LoadType
<1> QED BY <1>2, <1>3, <1>4, DecodeBy DEF DecodeLoad

\* A store.
LEMMA DecodeSTORE ==
  ASSUME NEW inst, WellFormed(inst), NEW w, w = Encode(inst), w \subseteq Bit, NEW r, inst.op \in DOMAIN STORE
  PROVE  /\ FormatOf(inst) = "S"
         /\ Decode(w, r) = Operands(inst.op, -1, inst.rs1, inst.rs2, r[inst.rs1], r[inst.rs2], Value(inst.imm))
<1>1. Encoding(inst.op) = <<"S", 35, STORE[inst.op], 0>>
  BY EncodingIs
<1>2. FormatOf(inst) = "S"
  BY <1>1 DEF FormatOf
<1>3. /\ opcode(w) = 35 /\ rs1(w) = inst.rs1 /\ rs2(w) = inst.rs2 /\ funct3(w) = STORE[inst.op]
      /\ imm_s(w) = inst.imm
  BY <1>1, <1>2, FieldsOf, ImmsOf DEF Fields
<1>4. StoreType(w) = inst.op
  BY <1>3, StoreTypesIs DEF StoreType
<1> QED BY <1>2, <1>3, <1>4, DecodeBy DEF DecodeStore

\* A branch, whose offset IF reads as ID does.
LEMMA DecodeBRANCH ==
  ASSUME NEW inst, WellFormed(inst), NEW w, w = Encode(inst), w \subseteq Bit, NEW r, inst.op \in DOMAIN BRANCH
  PROVE  /\ FormatOf(inst) = "B" /\ opcode(w) = 99 /\ imm_sb(w) = inst.imm
         /\ Decode(w, r) = Operands(inst.op, -1, inst.rs1, inst.rs2, r[inst.rs1], r[inst.rs2], Value(inst.imm))
<1>1. Encoding(inst.op) = <<"B", 99, BRANCH[inst.op], 0>>
  BY EncodingIs
<1>2. FormatOf(inst) = "B"
  BY <1>1 DEF FormatOf
<1>3. /\ opcode(w) = 99 /\ rs1(w) = inst.rs1 /\ rs2(w) = inst.rs2 /\ funct3(w) = BRANCH[inst.op]
      /\ imm_sb(w) = inst.imm
  BY <1>1, <1>2, FieldsOf, ImmsOf DEF Fields
<1>4. BranchType(w) = inst.op
  BY <1>3, BranchTypesIs DEF BranchType
<1> QED BY <1>2, <1>3, <1>4, DecodeBy DEF DecodeBranch

\* The instructions with an opcode of their own; ID does not know FENCE.
LEMMA DecodeOTHERS ==
  ASSUME NEW inst, WellFormed(inst), NEW w, w = Encode(inst), w \subseteq Bit, NEW r, inst.op \in DOMAIN OTHERS
  PROVE  /\ FormatOf(inst) = OTHERS[inst.op][1] /\ opcode(w) = OTHERS[inst.op][2]
         /\ inst.op = "ADDIW" =>
              Decode(w, r) = Operands("ADDIW", inst.rd, inst.rs1, -1, r[inst.rs1], Value(inst.imm), 0)
         /\ inst.op \in {"LUI", "AUIPC"} =>
              Decode(w, r) = Operands(inst.op, inst.rd, -1, -1, Value(imm_u(w)), 0, Value(imm_u(w)))
         /\ inst.op = "JAL" =>
              Decode(w, r) = Operands("JAL", inst.rd, -1, -1, Value(inst.imm), 0, Value(inst.imm))
         /\ inst.op = "JALR" =>
              Decode(w, r) = Operands("JALR", inst.rd, inst.rs1, -1, r[inst.rs1], Value(inst.imm), 0)
         /\ inst.op = "ECALL" => Decode(w, r) = Operands("ECALL", -1, 10, 17, r[10], r[17], 0)
         /\ inst.op = "FENCE" => Decode(w, r) = Operands("EXIT", -1, -1, -1, 0, 0, 0)
<1>1. Encoding(inst.op) = <<OTHERS[inst.op][1], OTHERS[inst.op][2], 0, 0>>
  BY EncodingIs
<1>2. FormatOf(inst) = OTHERS[inst.op][1] /\ OTHERS[inst.op][1] \in {"I", "U", "J"}
  BY <1>1, TablesFit DEF FormatOf
<1>3. Fields(inst, w, Encoding(inst.op), FormatOf(inst))
  BY <1>2, FieldsOf
<1>4. opcode(w) = OTHERS[inst.op][2]
  BY <1>1, <1>3 DEF Fields
<1>5. /\ inst.op = "ADDIW" => OTHERS[inst.op] = <<"I", 27>>
      /\ inst.op = "LUI" => OTHERS[inst.op] = <<"U", 55>>
      /\ inst.op = "AUIPC" => OTHERS[inst.op] = <<"U", 23>>
      /\ inst.op = "JAL" => OTHERS[inst.op] = <<"J", 111>>
      /\ inst.op = "JALR" => OTHERS[inst.op] = <<"I", 103>>
      /\ inst.op = "ECALL" => OTHERS[inst.op] = <<"I", 115>>
      /\ inst.op = "FENCE" => OTHERS[inst.op] = <<"I", 15>>
  BY DEF OTHERS
<1>6. ASSUME inst.op = "ADDIW"
      PROVE  Decode(w, r) = Operands("ADDIW", inst.rd, inst.rs1, -1, r[inst.rs1], Value(inst.imm), 0)
  <2>1. opcode(w) = 27 /\ funct3(w) = 0 /\ rd(w) = inst.rd /\ rs1(w) = inst.rs1 /\ imm_i(w) = inst.imm
    BY <1>1, <1>2, <1>3, <1>4, <1>5, <1>6, ImmsOf DEF Fields
  <2>2. Imm32Type(w) = "ADDIW"
    BY <2>1 DEF Imm32Type
  <2> QED BY <2>1, <2>2, DecodeBy DEF DecodeImm32
<1>7. ASSUME inst.op \in {"LUI", "AUIPC"}
      PROVE  Decode(w, r) = Operands(inst.op, inst.rd, -1, -1, Value(imm_u(w)), 0, Value(imm_u(w)))
  <2>1. rd(w) = inst.rd
    BY <1>2, <1>3, <1>5, <1>7 DEF Fields
  <2> QED BY <1>4, <1>5, <1>7, <2>1, DecodeBy DEF DecodeUpper
<1>8. ASSUME inst.op = "JAL"
      PROVE  Decode(w, r) = Operands("JAL", inst.rd, -1, -1, Value(inst.imm), 0, Value(inst.imm))
  <2>1. rd(w) = inst.rd /\ imm_uj(w) = inst.imm
    BY <1>2, <1>3, <1>5, <1>8, ImmsOf DEF Fields
  <2> QED BY <1>4, <1>5, <1>8, <2>1, DecodeBy DEF DecodeJAL
<1>9. ASSUME inst.op = "JALR"
      PROVE  Decode(w, r) = Operands("JALR", inst.rd, inst.rs1, -1, r[inst.rs1], Value(inst.imm), 0)
  <2>1. rd(w) = inst.rd /\ rs1(w) = inst.rs1 /\ imm_i(w) = inst.imm
    BY <1>2, <1>3, <1>5, <1>9, ImmsOf DEF Fields
  <2> QED BY <1>4, <1>5, <1>9, <2>1, DecodeBy DEF DecodeJALR
<1>10. ASSUME inst.op = "ECALL"
       PROVE  Decode(w, r) = Operands("ECALL", -1, 10, 17, r[10], r[17], 0)
  <2>1. FormatOf(inst) = "I" /\ funct3(w) = 0 /\ inst.imm = {}
    BY <1>1, <1>2, <1>3, <1>5, <1>10 DEF Fields, WellFormed
  <2>2. funct7(w) = 0
    <3>1. Keeps(w, inst.imm, 20, 31, 0)
      BY <2>1, WordI, Zenon
    <3>2. Holds(w, 0, 7, 25)
      BY <2>1, <3>1, PutFew DEF Keeps, Holds
    <3> QED BY <3>2, FieldsAre
  <2>3. SystemType(w) = "ECALL"
    BY <2>1, <2>2 DEF SystemType
  <2> QED BY <1>4, <1>5, <1>10, <2>3, DecodeBy DEF DecodeSystem
<1>11. ASSUME inst.op = "FENCE" PROVE Decode(w, r) = Operands("EXIT", -1, -1, -1, 0, 0, 0)
  BY <1>4, <1>5, <1>11, DecodeBy
<1> QED BY <1>2, <1>4, <1>6, <1>7, <1>8, <1>9, <1>10, <1>11

-----------------------------------------------------------------------------
(* What EX computes has the width of a register. *)

\* The widths of bytes, words and registers.
LEMMA Widths ==
  /\ ByteWidth \in Nat \ {0} /\ XLen \in Nat \ {0} /\ WordLen \in Nat \ {0} /\ XLen = WordLen + WordLen
  /\ XLen = ByteWidth * 8 /\ WordLen = ByteWidth * 4
  /\ Modulus \in Nat \ {0} /\ WordMod \in Nat \ {0} /\ Modulus = WordMod * WordMod /\ WordMod <= Modulus
  /\ ByteMod \in Nat \ {0} /\ Modulus = 2 * Two[XLen - 1] /\ WordMod = 2 * Two[WordLen - 1]
  /\ Two[XLen - 1] \in Nat \ {0} /\ Two[WordLen - 1] \in Nat \ {0}
<1>1. ByteWidth \in {2, 4, 8}
  BY DecoderAssumption
<1>2. /\ ByteWidth \in Nat \ {0} /\ XLen \in Nat \ {0} /\ WordLen \in Nat \ {0} /\ XLen = WordLen + WordLen
      /\ XLen = ByteWidth * 8 /\ WordLen = ByteWidth * 4 /\ WordLen <= XLen
  BY <1>1 DEF XLen, WordLen
<1>3. Modulus = WordMod * WordMod
  BY <1>2, TwoSum DEF Modulus, WordMod
<1>4. ByteMod \in Nat \ {0}
  BY <1>2, TwoPositive DEF ByteMod
<1>5. Modulus \in Nat \ {0} /\ Modulus = 2 * Two[XLen - 1] /\ Two[XLen - 1] \in Nat \ {0}
  BY <1>2, TwoPositive DEF Modulus
<1>6. WordMod \in Nat \ {0} /\ WordMod = 2 * Two[WordLen - 1] /\ Two[WordLen - 1] \in Nat \ {0}
  BY <1>2, TwoPositive DEF WordMod
<1>7. WordMod <= Modulus
  BY <1>2, TwoGrows DEF WordMod, Modulus
<1> QED BY <1>2, <1>3, <1>4, <1>5, <1>6, <1>7

\* A value that is cut to a register fits one.
LEMMA WrapIn == ASSUME NEW x \in Int PROVE Wrap(x) \in Double
<1>1. Modulus \in Nat \ {0}
  BY Widths
<1> QED BY <1>1, DivRem DEF Wrap, Double

\* The signed readings of a register are numbers.
LEMMA SignedIn ==
  ASSUME NEW x \in Int
  PROVE  /\ Low(x) \in 0 .. WordMod - 1 /\ Signed32(x) \in Int /\ Signed64(x) \in Int
         /\ Wrap(Signed32(x)) \in Double
<1>1. Low(x) \in 0 .. WordMod - 1
  BY Widths, DivRem DEF Low
<1>2. Two[WordLen] \in Int /\ Two[XLen] \in Int
  BY Widths, TwoIs
<1>3. Signed32(x) \in Int /\ Signed64(x) \in Int
  BY <1>1, <1>2, Widths DEF Signed32, Signed64, Signed
<1> QED BY <1>1, <1>3, WrapIn

\* A shift to the right makes a number no greater.
LEMMA DivFits ==
  ASSUME NEW m \in Nat, NEW x \in 0 .. m, NEW p \in Nat \ {0}
  PROVE  x \div p \in 0 .. x
<1> DEFINE q == x \div p
           r == x % p
<1>1. q \in Int /\ r \in 0 .. p - 1 /\ x = p * q + r
  BY DivRem
<1> HIDE DEF q, r
<1>2. q >= 0
  <2> SUFFICES ASSUME q <= -1 PROVE FALSE
    BY <1>1
  <2>1. p * q <= p * (-1)
    BY <1>1
  <2> QED BY <1>1, <2>1
<1>3. p * q >= q
  BY <1>1, <1>2
<1>4. q <= x
  BY <1>1, <1>3
<1> QED BY <1>1, <1>2, <1>4 DEF q

\* A count that is cut stands for a power.
LEMMA ShiftIn ==
  ASSUME NEW b \in Nat
  PROVE  Two[b % XLen] \in Nat \ {0} /\ Two[b % WordLen] \in Nat \ {0}
<1>1. b % XLen \in Nat /\ b % WordLen \in Nat
  <2>1. \A m \in Nat \ {0} : b % m \in 0 .. m - 1
    OBVIOUS
  <2> QED BY <2>1, Widths
<1> QED BY <1>1, TwoPositive

\* Bits make a value of a register.
LEMMA UnsignedIn == ASSUME NEW S PROVE Unsigned(S, XLen) \in Double
BY Widths, UnsignedFits DEF Double, Modulus

\* So does an immediate.
LEMMA ValueIn == ASSUME NEW S PROVE Value(S) \in Double
BY UnsignedIn DEF Value

\* The operations of EX, each on operands of its width.
LEMMA RightShiftIn ==
  ASSUME NEW t \in {"SRLI", "SRL", "SRAI", "SRA", "SRLIW", "SRLW", "SRAIW", "SRAW"},
         NEW a \in Double, NEW b \in Double
  PROVE  RightShift(t, a, b) \in Double
<1>1. a \in Int /\ a \in 0 .. Modulus - 1 /\ b \in Nat /\ Modulus - 1 \in Nat /\ WordMod - 1 \in Nat
  BY Widths DEF Double
<1>2. Two[b % XLen] \in Nat \ {0} /\ Two[b % WordLen] \in Nat \ {0}
  BY <1>1, ShiftIn
<1>3. Signed64(a) \in Int /\ Signed32(a) \in Int /\ Low(a) \in 0 .. WordMod - 1
  BY <1>1, SignedIn
<1>4. CASE t \in {"SRLI", "SRL"}
  <2>1. RightShift(t, a, b) = a \div Two[b % XLen]
    BY <1>4 DEF RightShift
  <2>2. a \div Two[b % XLen] \in 0 .. a
    BY <1>1, <1>2, DivFits
  <2> QED BY <1>1, <2>1, <2>2 DEF Double
<1>5. CASE t \in {"SRAI", "SRA"}
  <2>1. RightShift(t, a, b) = Wrap(Signed64(a) \div Two[b % XLen])
    BY <1>5 DEF RightShift
  <2>2. Signed64(a) \div Two[b % XLen] \in Int
    BY <1>2, <1>3
  <2> QED BY <2>1, <2>2, WrapIn
<1>6. CASE t \in {"SRLIW", "SRLW"}
  <2>1. RightShift(t, a, b) = Low(a) \div Two[b % WordLen]
    BY <1>6 DEF RightShift
  <2>2. Low(a) \div Two[b % WordLen] \in 0 .. Low(a)
    BY <1>1, <1>2, <1>3, DivFits
  <2>3. WordMod <= Modulus /\ WordMod \in Nat /\ Modulus \in Nat
    BY Widths
  <2> QED BY <1>3, <2>1, <2>2, <2>3 DEF Double
<1>7. CASE t \in {"SRAIW", "SRAW"}
  <2>1. RightShift(t, a, b) = Wrap(Signed32(a) \div Two[b % WordLen])
    BY <1>7 DEF RightShift
  <2>2. Signed32(a) \div Two[b % WordLen] \in Int
    BY <1>2, <1>3
  <2> QED BY <2>1, <2>2, WrapIn
<1> QED BY <1>4, <1>5, <1>6, <1>7

\* The sums of words.
LEMMA WordSumIn ==
  ASSUME NEW t \in {"ADDIW", "ADDW", "SUBW"}, NEW a \in Double, NEW b \in Double
  PROVE  WordSum(t, a, b) \in Double
<1>1. a \in Int /\ b \in Int
  BY DEF Double
<1>2. Signed32(a) + Signed32(b) \in Int /\ Signed32(a) - Signed32(b) \in Int
  BY <1>1, SignedIn
<1> DEFINE s == Signed32(a) + Signed32(b)
           d == Signed32(a) - Signed32(b)
<1>3. t \in {"ADDIW", "ADDW"} => WordSum(t, a, b) = Wrap(Signed32(s))
  BY DEF WordSum
<1>4. t = "SUBW" => WordSum(t, a, b) = Wrap(Signed32(d))
  BY DEF WordSum
<1>5. s \in Int /\ d \in Int
  BY <1>2
<1> HIDE DEF s, d
<1> QED BY <1>3, <1>4, <1>5, SignedIn

\* The quotient of the host.
LEMMA QuotientIn ==
  ASSUME NEW a \in Int, NEW b \in Int, b # 0
  PROVE  Quotient(a, b) \in Int
<1> DEFINE x == IF a < 0 THEN -a ELSE a
           y == IF b < 0 THEN -b ELSE b
<1>1. x \in Int /\ y \in Nat \ {0}
  OBVIOUS
<1>2. Quotient(a, b) = IF (a < 0) = (b < 0) THEN x \div y ELSE -(x \div y)
  BY DEF Quotient
<1> HIDE DEF x, y
<1>3. x \div y \in Int
  BY <1>1
<1> QED BY <1>2, <1>3

\* The types EX has a case for, by what they compute.
LEMMA ComputedIn ==
  ASSUME NEW x, x.valA \in Double, x.valB \in Double, x.offset \in Double, x.pc \in Double, ~ Traps(x)
  PROVE  Computed(x) \in Double
<1> DEFINE a == x.valA
           b == x.valB
           o == x.offset
           p == x.pc
           t == x.type
<1>1. a \in Int /\ b \in Int /\ o \in Int /\ p \in Int /\ b \in Nat
  BY DEF Double
<1>2. 0 \in Double /\ 1 \in Double
  <2>1. Modulus \in Nat /\ Modulus >= 2
    BY Widths
  <2> QED BY <2>1 DEF Double
<1>3. Two[b % XLen] \in Nat \ {0}
  BY <1>1, ShiftIn
<1>4. Signed64(a) \in Int /\ Signed64(b) \in Int
  BY <1>1, SignedIn
<1>5. t = "DIV" => b # 0
  BY DEF Traps
<1>6. t = "DIV" => Signed64(b) # 0
  <2>1. Two[XLen] = 2 * Two[XLen - 1] /\ Two[XLen - 1] \in Nat \ {0}
    BY Widths DEF Modulus
  <2>2. b \in 0 .. Two[XLen] - 1
    BY DEF Double, Modulus
  <2> QED BY <1>5, <2>1, <2>2 DEF Signed64, Signed
<1>7. /\ Wrap(o * 4096) \in Double /\ Wrap(p + o * 4096) \in Double /\ Wrap(p + 4) \in Double
      /\ Wrap(p + o) \in Double /\ Wrap(a + o) \in Double /\ Wrap(a + b) \in Double /\ Wrap(a - b) \in Double
  <2>1. /\ o * 4096 \in Int /\ p + o * 4096 \in Int /\ p + 4 \in Int /\ p + o \in Int /\ a + o \in Int
        /\ a + b \in Int /\ a - b \in Int
    BY <1>1
  <2> QED BY <2>1, WrapIn
<1>8. Wrap(Signed64(a) * Signed64(b)) \in Double
  <2>1. Signed64(a) * Signed64(b) \in Int
    BY <1>4
  <2> QED BY <2>1, WrapIn
<1>9. t = "DIV" => Wrap(Quotient(Signed64(a), Signed64(b))) \in Double
  BY <1>4, <1>6, QuotientIn, WrapIn
<1>10. \A c : Truth(c) \in Double
  BY <1>2 DEF Truth
<1>11. Wrap(a * Two[b % XLen]) \in Double /\ Wrap(Signed32(a * Two[b % XLen])) \in Double
  <2>1. a * Two[b % XLen] \in Int
    BY <1>1, <1>3
  <2> QED BY <2>1, WrapIn, SignedIn
<1>12. \A S : Unsigned(S, XLen) \in Double
  BY UnsignedIn
<1>13. t \in {"ADDIW", "ADDW", "SUBW"} => WordSum(t, a, b) \in Double
  BY WordSumIn
<1>14. t \in {"SRLI", "SRL", "SRAI", "SRA", "SRLIW", "SRLW", "SRAIW", "SRAW"} => RightShift(t, a, b) \in Double
  BY RightShiftIn
<1> DEFINE v == Computed(x)
<1>15. CASE t \in {"LUI", "AUIPC", "JAL", "JALR"} \cup Branches \cup Loads \cup Stores
  <2>1. t = "LUI" => v = Wrap(o * 4096)
    BY DEF Computed, Branches, Loads, Stores
  <2>2. t = "AUIPC" => v = Wrap(p + o * 4096)
    BY DEF Computed, Branches, Loads, Stores
  <2>3. t \in {"JAL", "JALR"} => v = Wrap(p + 4)
    BY DEF Computed, Branches, Loads, Stores
  <2>4. t \in Branches => v = IF Taken(x) THEN Wrap(p + o) ELSE 0
    BY DEF Computed, Branches, Loads, Stores
  <2>5. t \in Loads \cup Stores => v = Wrap(a + o)
    BY DEF Computed, Branches, Loads, Stores
  <2> HIDE DEF v
  <2>9. v \in Double
    BY <1>2, <1>7, <1>15, <2>1, <2>2, <2>3, <2>4, <2>5
  <2> QED BY <2>9 DEF v
<1>16. CASE t \in {"ADDI", "ADD", "ADDIW", "ADDW", "SUBW", "SUB", "MUL", "DIV", "SLTI", "SLT", "SLTIU"}
  <2>1. t \in {"ADDI", "ADD"} => v = Wrap(a + b)
    BY DEF Computed, Branches, Loads, Stores
  <2>2. t \in {"ADDIW", "ADDW", "SUBW"} => v = WordSum(t, a, b)
    BY DEF Computed, Branches, Loads, Stores
  <2>3. t = "SUB" => v = Wrap(a - b)
    BY DEF Computed, Branches, Loads, Stores
  <2>4. t = "MUL" => v = Wrap(Signed64(a) * Signed64(b))
    BY DEF Computed, Branches, Loads, Stores
  <2>5. t = "DIV" => v = Wrap(Quotient(Signed64(a), Signed64(b)))
    BY DEF Computed, Branches, Loads, Stores
  <2>6. t \in {"SLTI", "SLT", "SLTIU"} => \E c : v = Truth(c)
    BY DEF Computed, Branches, Loads, Stores
  <2> HIDE DEF v
  <2>9. v \in Double
    BY <1>7, <1>8, <1>9, <1>10, <1>13, <1>16, <2>1, <2>2, <2>3, <2>4, <2>5, <2>6
  <2> QED BY <2>9 DEF v
<1>17. CASE t \in {"XORI", "XOR", "ORI", "OR", "ANDI", "AND", "SLLI", "SLL", "SLLIW"}
  <2>1. t \in {"XORI", "XOR", "ORI", "OR", "ANDI", "AND"} => \E S : v = Unsigned(S, XLen)
    BY DEF Computed, Branches, Loads, Stores
  <2>2. t \in {"SLLI", "SLL"} => v = Wrap(a * Two[b % XLen])
    BY DEF Computed, Branches, Loads, Stores
  <2>3. t = "SLLIW" => v = Wrap(Signed32(a * Two[b % XLen]))
    BY DEF Computed, Branches, Loads, Stores
  <2> HIDE DEF v
  <2>9. v \in Double
    BY <1>11, <1>12, <1>17, <2>1, <2>2, <2>3
  <2> QED BY <2>9 DEF v
<1>18. CASE t \in {"SRLI", "SRL", "SRAI", "SRA", "SRLIW", "SRLW", "SRAIW", "SRAW"}
  BY <1>14, <1>18 DEF Computed, Branches, Loads, Stores
<1>19. CASE t \notin {"LUI", "AUIPC", "JAL", "JALR"} \cup Branches \cup Loads \cup Stores
                     \cup {"ADDI", "ADD", "ADDIW", "ADDW", "SUBW", "SUB", "MUL", "DIV", "SLTI", "SLT", "SLTIU"}
                     \cup {"XORI", "XOR", "ORI", "OR", "ANDI", "AND", "SLLI", "SLL", "SLLIW"}
                     \cup {"SRLI", "SRL", "SRAI", "SRA", "SRLIW", "SRLW", "SRAIW", "SRAW"}
  <2>1. v = 0
    BY <1>19 DEF Computed
  <2> QED BY <1>2, <2>1
<1> QED BY <1>15, <1>16, <1>17, <1>18, <1>19

-----------------------------------------------------------------------------
(* The way of an instruction. *)

\* What a test has.
LEMMA TestIs ==
  ASSUME NEW t \in Tests
  PROVE  /\ WellFormed(t.ins) /\ t.word = Encode(t.ins) /\ t.word \subseteq Bit
         /\ t.reg \in [Reg -> Double] /\ t.reg[0] = 0 /\ t.reg[17] # 0
         /\ t.pc \in Double /\ t.pc % 4 = 0
         /\ {t.ins.rd, t.ins.rs1, t.ins.rs2, 0, 10, 17} \subseteq Reg
         /\ t.ins.op \in Ops
         /\ t.reg[t.ins.rs1] \in Double /\ t.reg[t.ins.rs2] \in Double
         /\ t.reg[10] \in Double /\ t.reg[17] \in Double
<1>1. WellFormed(t.ins) /\ t.word = Encode(t.ins)
  BY ConformanceAssumption
<1>2. /\ t.word \subseteq Bit /\ t.reg \in [Reg -> Double] /\ t.reg[0] = 0 /\ t.reg[17] # 0
      /\ t.pc \in Double /\ t.pc % 4 = 0 /\ {0, 10, 17} \subseteq Reg
  BY DatapathAssumption
<1>3. {t.ins.rd, t.ins.rs1, t.ins.rs2} \subseteq Reg /\ t.ins.op \in Ops
  BY <1>1 DEF WellFormed
<1> QED BY <1>1, <1>2, <1>3

\* The groups of instructions.
LEMMA Groups ==
  ASSUME NEW op \in Ops
  PROVE  \/ op \in DOMAIN OP \/ op \in DOMAIN OP_32 \/ op \in DOMAIN OP_IMM \/ op \in DOMAIN OP_SHIFT
         \/ op \in DOMAIN OP_SHIFT_32 \/ op \in DOMAIN LOAD \/ op \in DOMAIN STORE \/ op \in DOMAIN BRANCH
         \/ op \in DOMAIN OTHERS
BY DEF Ops

\* What ID hands on, field by field.
LEMMA OperandsAre ==
  ASSUME NEW type, NEW dest, NEW reg1, NEW reg2, NEW valA, NEW valB, NEW offset
  PROVE  LET d == Operands(type, dest, reg1, reg2, valA, valB, offset) IN
         d.type = type /\ d.dest = dest /\ d.valA = valA /\ d.valB = valB /\ d.offset = offset
BY DEF Operands

\* What ID hands on has its types.
Handed(d) ==
  d.type # "EXIT" =>
    /\ d.valA \in Double /\ d.valB \in Double /\ d.offset \in Double
    /\ d.type \notin Branches \cup Stores \cup {"ECALL"} => d.dest \in Reg

\* It does for every test.
LEMMA Decoded ==
  ASSUME NEW t \in Tests
  PROVE  Handed(Decode(t.word, t.reg))
<1> DEFINE n == t.ins
           d == Decode(t.word, t.reg)
<1>1. /\ WellFormed(n) /\ t.word = Encode(n) /\ t.word \subseteq Bit
      /\ n.rd \in Reg /\ n.op \in Ops
      /\ t.reg[n.rs1] \in Double /\ t.reg[n.rs2] \in Double /\ t.reg[10] \in Double /\ t.reg[17] \in Double
  BY TestIs
<1>2. 0 \in Double
  BY Widths DEF Double
<1>3. \A S : Value(S) \in Double
  BY ValueIn
<1>4. ASSUME NEW type, NEW dest, NEW reg1, NEW reg2, NEW valA, NEW valB, NEW offset,
             valA \in Double, valB \in Double, offset \in Double,
             dest \in Reg \/ type \in Branches \cup Stores \cup {"ECALL", "EXIT"}
      PROVE  Handed(Operands(type, dest, reg1, reg2, valA, valB, offset))
  <2>1. LET e == Operands(type, dest, reg1, reg2, valA, valB, offset) IN
        e.type = type /\ e.dest = dest /\ e.valA = valA /\ e.valB = valB /\ e.offset = offset
    BY OperandsAre
  <2> QED BY <1>4, <2>1 DEF Handed
<1>5. CASE n.op \in DOMAIN OP
  <2>1. d = Operands(IF n.op = "SLTU" THEN "EXIT" ELSE n.op, n.rd, n.rs1, n.rs2, t.reg[n.rs1], t.reg[n.rs2], 0)
    BY <1>1, <1>5, DecodeOP
  <2> QED BY <1>1, <1>2, <1>4, <2>1, Zenon
<1>6. CASE n.op \in DOMAIN OP_32
  <2>1. \E type : d = Operands(type, n.rd, n.rs1, n.rs2, t.reg[n.rs1], t.reg[n.rs2], 0)
    <3>1. d = Operands(CASE n.op = "MULW" -> "UNKNOWN" [] n.op = "SLLW" -> "SRLW" [] OTHER -> n.op,
                                    n.rd, n.rs1, n.rs2, t.reg[n.rs1], t.reg[n.rs2], 0)
      BY <1>1, <1>6, DecodeOP_32
    <3> QED BY <3>1
  <2> QED BY <1>1, <1>2, <1>4, <2>1, Zenon
<1>7. CASE n.op \in DOMAIN OP_IMM
  <2>1. d = Operands(n.op, n.rd, n.rs1, -1, t.reg[n.rs1], Value(n.imm), 0)
    BY <1>1, <1>7, DecodeOP_IMM
  <2> QED BY <1>1, <1>2, <1>3, <1>4, <2>1, Zenon
<1>8. CASE n.op \in DOMAIN OP_SHIFT
  <2>1. d = Operands(n.op, n.rd, n.rs1, -1, t.reg[n.rs1], Value(n.imm), 0)
    BY <1>1, <1>8, DecodeOP_SHIFT
  <2> QED BY <1>1, <1>2, <1>3, <1>4, <2>1, Zenon
<1>9. CASE n.op \in DOMAIN OP_SHIFT_32
  <2>1. \E S : d = Operands(n.op, n.rd, n.rs1, -1, t.reg[n.rs1], Value(S), 0)
    BY <1>1, <1>9, DecodeOP_SHIFT_32
  <2> QED BY <1>1, <1>2, <1>3, <1>4, <2>1, Zenon
<1>10. CASE n.op \in DOMAIN LOAD
  <2>1. d = Operands(IF n.op = "LWU" THEN "EXIT" ELSE n.op, n.rd, n.rs1, -1,
                                    t.reg[n.rs1], Value(n.imm), Value(n.imm))
    BY <1>1, <1>10, DecodeLOAD
  <2> QED BY <1>1, <1>3, <1>4, <2>1, Zenon
<1>11. CASE n.op \in DOMAIN STORE
  <2>1. d = Operands(n.op, -1, n.rs1, n.rs2, t.reg[n.rs1], t.reg[n.rs2], Value(n.imm))
    BY <1>1, <1>11, DecodeSTORE
  <2>2. n.op \in Branches \cup Stores \cup {"ECALL", "EXIT"}
    BY <1>11 DEF STORE, Stores
  <2> QED BY <1>1, <1>3, <1>4, <2>1, <2>2, Zenon
<1>12. CASE n.op \in DOMAIN BRANCH
  <2>1. d = Operands(n.op, -1, n.rs1, n.rs2, t.reg[n.rs1], t.reg[n.rs2], Value(n.imm))
    BY <1>1, <1>12, DecodeBRANCH
  <2>2. n.op \in Branches \cup Stores \cup {"ECALL", "EXIT"}
    BY <1>12 DEF BRANCH, Branches
  <2> QED BY <1>1, <1>3, <1>4, <2>1, <2>2, Zenon
<1>13. CASE n.op \in DOMAIN OTHERS
  <2>1. n.op \in {"ADDIW", "LUI", "AUIPC", "JAL", "JALR", "ECALL", "FENCE"}
    BY <1>13 DEF OTHERS
  <2>2. CASE n.op = "ADDIW"
    <3>1. d = Operands("ADDIW", n.rd, n.rs1, -1, t.reg[n.rs1], Value(n.imm), 0)
      BY <1>1, <1>13, <2>2, DecodeOTHERS
    <3> QED BY <1>1, <1>2, <1>3, <1>4, <3>1, Zenon
  <2>3. CASE n.op \in {"LUI", "AUIPC"}
    <3>1. \E S : d = Operands(n.op, n.rd, -1, -1, Value(S), 0, Value(S))
      BY <1>1, <1>13, <2>3, DecodeOTHERS
    <3> QED BY <1>1, <1>2, <1>3, <1>4, <3>1, Zenon
  <2>4. CASE n.op = "JAL"
    <3>1. d = Operands("JAL", n.rd, -1, -1, Value(n.imm), 0, Value(n.imm))
      BY <1>1, <1>13, <2>4, DecodeOTHERS
    <3> QED BY <1>1, <1>2, <1>3, <1>4, <3>1, Zenon
  <2>5. CASE n.op = "JALR"
    <3>1. d = Operands("JALR", n.rd, n.rs1, -1, t.reg[n.rs1], Value(n.imm), 0)
      BY <1>1, <1>13, <2>5, DecodeOTHERS
    <3> QED BY <1>1, <1>2, <1>3, <1>4, <3>1, Zenon
  <2>6. CASE n.op = "ECALL"
    <3>1. d = Operands("ECALL", -1, 10, 17, t.reg[10], t.reg[17], 0)
      BY <1>1, <1>13, <2>6, DecodeOTHERS
    <3> QED BY <1>1, <1>2, <1>4, <3>1, Zenon
  <2>7. CASE n.op = "FENCE"
    <3>1. d = Operands("EXIT", -1, -1, -1, 0, 0, 0)
      BY <1>1, <1>13, <2>7, DecodeOTHERS
    <3> QED BY <1>2, <1>4, <3>1, Zenon
  <2> QED BY <2>1, <2>2, <2>3, <2>4, <2>5, <2>6, <2>7
<1> QED BY <1>1, <1>5, <1>6, <1>7, <1>8, <1>9, <1>10, <1>11, <1>12, <1>13, Groups

\* The same as the actions have it, of a test t and a strategy s.
Begin(t) == [reg |-> t.reg, mem |-> Contents, pc |-> t.pc]

\* The prediction of IF for an offset.
PredictBy(s, offset) ==
  CASE s = "NT"    -> FALSE
    [] s = "AT"    -> TRUE
    [] s = "BTFNT" -> ~ Signed64(offset) >= 0

\* Whether IF takes the word for a branch.
IsBranch(t)    == opcode(t.word) = Opcode.BRANCH
\* Whether it predicts that the branch is taken.
Guess(t, s)    == IsBranch(t) /\ PredictBy(s, Value(imm_sb(t.word)))
\* Where the branch goes.
Target(t)      == Wrap(t.pc + Value(imm_sb(t.word)))
\* The place behind the instruction.
Behind(t)      == Wrap(t.pc + 4)
\* Where the fetch goes on.
FetchPc(t, s)  == IF Guess(t, s) THEN Target(t) ELSE Behind(t)
\* What IF, ID and EX hand on.
Fetched(t, s)  ==
  [inst |-> t.word, pc |-> t.pc, take_branch |-> Guess(t, s),
   PCnottaken |-> IF IsBranch(t) /\ ~ Guess(t, s) THEN Target(t) ELSE Behind(t)]
Decoding(t)    == Decode(t.word, t.reg)
Issued(t, s)   == Carried(Decoding(t), Fetched(t, s))
Executed(x)    ==
  [type |-> x.type, destReg |-> x.dest, reg_write |-> Writes(x), valE |-> Computed(x), valB |-> StoreValue(x)]
\* The pc behind EX: the fetch's or where EX sends it.
PcAfter(t, s)  ==
  LET x == Issued(t, s)
  IN  IF x.type \in Branches /\ Taken(x) # x.take_branch THEN x.PCnottaken
      ELSE IF x.type \in {"JAL", "JALR"} THEN JumpTarget(x) ELSE FetchPc(t, s)

\* An exit through a system call, and an instruction that EX lets pass.
Exits(x) == x.type = "ECALL" /\ x.valB \notin {1, 2}
Goes(x)  == x.type # "EXIT" /\ ~ Traps(x) /\ ~ Exits(x)

\* The address of an access, what is read there and what a store leaves.
Place(x) == Address(Computed(x))
ContentIn(memory, addr, n, junk) ==
  [i \in 0 .. n - 1 |-> IF Inside(addr, i) THEN memory[addr + i] ELSE junk[i]]
StoredIn(memory, addr, n, val) ==
  [a \in Mapped |-> IF a \in addr .. addr + n - 1 /\ Inside(addr, a - addr)
                    THEN (val \div Two[ByteWidth * (a - addr)]) % ByteMod ELSE memory[a]]

\* The memory m and the value v that MEM leaves.
Accessed(x, m, v) ==
  /\ x.type \in Loads \cup Stores => Place(x) \in Mapped
  /\ m = IF x.type \in Stores THEN StoredIn(Contents, Place(x), MemLen[x.type], StoreValue(x)) ELSE Contents
  /\ IF x.type \in Loads
     THEN \E junk \in [Outside(Place(x), MemLen[x.type]) -> Byte] :
            v = Extended(ContentIn(Contents, Place(x), MemLen[x.type], junk), MemLen[x.type])
     ELSE v = Computed(x)

\* How far an instruction is.
AtIF(t, s, r, m, p, l)  == r = t.reg /\ m = Contents /\ p = t.pc
AtID(t, s, r, m, p, l)  == r = t.reg /\ m = Contents /\ p = FetchPc(t, s) /\ l = Fetched(t, s)
AtEX(t, s, r, m, p, l)  ==
  r = t.reg /\ m = Contents /\ p = FetchPc(t, s) /\ Decoding(t).type # "EXIT" /\ l = Issued(t, s)
AtMEM(t, s, r, m, p, l) ==
  r = t.reg /\ m = Contents /\ p = PcAfter(t, s) /\ Goes(Issued(t, s)) /\ l = Executed(Issued(t, s))
AtWB(t, s, r, m, p, l)  ==
  /\ r = t.reg /\ p = PcAfter(t, s) /\ Goes(Issued(t, s))
  /\ \E v : /\ Accessed(Issued(t, s), m, v)
            /\ l = [destReg |-> Issued(t, s).dest, reg_write |-> Writes(Issued(t, s)), valM |-> v]
\* The registers behind WB.
Left(x, r, v) == IF Writes(x) /\ x.dest # 0 THEN [r EXCEPT ![x.dest] = v] ELSE r
\* The three ends: behind WB, an exit of the process, a trap of the host.
AtEnd(t, s, r, m, p)  ==
  /\ p = PcAfter(t, s) /\ Goes(Issued(t, s))
  /\ \E v : Accessed(Issued(t, s), m, v) /\ r = Left(Issued(t, s), t.reg, v)
Exited(t, s, r, m, p) ==
  /\ r = t.reg /\ m = Contents /\ p \in {FetchPc(t, s), PcAfter(t, s)}
  /\ LET x == Issued(t, s) IN
     \/ x.type = "EXIT" /\ p = FetchPc(t, s)
     \/ Exits(x)  /\ p = FetchPc(t, s)
     \/ Goes(x) /\ x.type \in Loads \cup Stores /\ Place(x) \notin Mapped
Crashed(t, s, r, m, p) ==
  /\ r = t.reg /\ m = Contents /\ p = FetchPc(t, s)
  /\ Issued(t, s).type = "UNKNOWN" \/ Traps(Issued(t, s))

\* The state at each stage.
Path(t, s, r, m, p, l, g) ==
  \/ g = "IF" /\ AtIF(t, s, r, m, p, l)
  \/ g = "ID" /\ AtID(t, s, r, m, p, l)
  \/ g = "EX" /\ AtEX(t, s, r, m, p, l)
  \/ g = "MEM" /\ AtMEM(t, s, r, m, p, l)
  \/ g = "WB" /\ AtWB(t, s, r, m, p, l)
  \/ g = "done" /\ AtEnd(t, s, r, m, p)
  \/ g = "exit" /\ Exited(t, s, r, m, p)
  \/ g = "crash" /\ Crashed(t, s, r, m, p)

\* The invariant: the state is the one the test has come to under its strategy.
OneTest ==
  \E t \in Tests, s \in Strategies :
    test = t /\ branch_strat = s /\ before = Begin(t) /\ Path(t, s, reg, mem, pc, latch, stage)

-----------------------------------------------------------------------------

\* The pc behind EX is the fetch's or where EX sends it.
LEMMA IssuedIs ==
  ASSUME NEW t, NEW s
  PROVE  LET x == Issued(t, s)  d == Decoding(t) IN
         /\ x.type = d.type /\ x.dest = d.dest /\ x.valA = d.valA /\ x.valB = d.valB /\ x.offset = d.offset
         /\ x.pc = t.pc /\ x.take_branch = Guess(t, s)
         /\ x.PCnottaken = IF IsBranch(t) /\ ~ Guess(t, s) THEN Target(t) ELSE Behind(t)
BY DEF Issued, Carried, Fetched

\* Every run begins with a test.
LEMMA Begins == Init => OneTest
<1> SUFFICES ASSUME Init PROVE OneTest
  OBVIOUS
<1>1. test \in Tests /\ branch_strat \in Strategies /\ before = Begin(test)
  BY DEF Init, Begin
<1>2. Path(test, branch_strat, reg, mem, pc, latch, stage)
  BY DEF Init, Path, AtIF
<1> QED BY <1>1, <1>2 DEF OneTest

\* IF keeps the instruction on its way.
LEMMA Fetches ==
  ASSUME NEW t \in Tests, NEW s \in Strategies, test = t, branch_strat = s,
         Path(t, s, reg, mem, pc, latch, stage), IF_
  PROVE  Path(t, s, reg', mem', pc', latch', stage')
<1>1. stage = "IF" /\ AtIF(t, s, reg, mem, pc, latch)
  BY DEF Path, IF_
<1>2. \A offset : Predict(offset) = PredictBy(s, offset)
  BY DEF Predict, PredictBy
<1>3. pc' = FetchPc(t, s) /\ latch' = Fetched(t, s) /\ stage' = "ID"
  <2>1. pc = t.pc
    BY <1>1 DEF AtIF
  <2>2. /\ pc' = IF (IsBranch(t) /\ Predict(Value(imm_sb(t.word)))) THEN Target(t) ELSE Behind(t)
        /\ latch' = [inst |-> t.word, pc |-> t.pc, take_branch |-> (IsBranch(t) /\ Predict(Value(imm_sb(t.word)))),
                     PCnottaken |-> IF IsBranch(t) /\ ~ (IsBranch(t) /\ Predict(Value(imm_sb(t.word))))
                                    THEN Target(t) ELSE Behind(t)]
        /\ stage' = "ID"
    BY <2>1, Zenon DEF IF_, Pass, IsBranch, Target, Behind
  <2> QED BY <1>2, <2>2, Zenon DEF FetchPc, Fetched, Guess
<1>4. reg' = t.reg /\ mem' = Contents
  BY <1>1 DEF IF_, AtIF
<1> QED BY <1>3, <1>4 DEF Path, AtID

\* So does ID.
LEMMA Decodes ==
  ASSUME NEW t \in Tests, NEW s \in Strategies, test = t, branch_strat = s,
         Path(t, s, reg, mem, pc, latch, stage), ID
  PROVE  Path(t, s, reg', mem', pc', latch', stage')
<1>1. stage = "ID" /\ AtID(t, s, reg, mem, pc, latch)
  BY DEF Path, ID
<1>2. reg = t.reg /\ mem = Contents /\ pc = FetchPc(t, s) /\ latch = Fetched(t, s)
  BY <1>1 DEF AtID
<1>3. Decode(latch.inst, reg) = Decoding(t)
  BY <1>2 DEF Fetched, Decoding
<1>4. reg' = reg /\ mem' = mem /\ pc' = pc
  BY DEF ID, End
<1>5. \/ Decoding(t).type = "EXIT" /\ stage' = "exit"
      \/ Decoding(t).type = "UNKNOWN" /\ stage' = "crash"
      \/ Decoding(t).type # "EXIT" /\ stage' = "EX" /\ latch' = Carried(Decoding(t), latch)
  BY <1>3 DEF ID, End, Pass
<1>6. Issued(t, s) = Carried(Decoding(t), latch) /\ Issued(t, s).type = Decoding(t).type
  BY <1>2, IssuedIs DEF Issued
<1> QED BY <1>2, <1>4, <1>5, <1>6 DEF Path, Exited, Crashed, AtEX

\* So does EX.
LEMMA Executes ==
  ASSUME NEW t \in Tests, NEW s \in Strategies, test = t, branch_strat = s,
         Path(t, s, reg, mem, pc, latch, stage), EX
  PROVE  Path(t, s, reg', mem', pc', latch', stage')
<1>1. stage = "EX" /\ AtEX(t, s, reg, mem, pc, latch)
  BY DEF Path, EX
<1> DEFINE x == Issued(t, s)
<1>2. reg = t.reg /\ mem = Contents /\ pc = FetchPc(t, s) /\ latch = x /\ x.type # "EXIT"
  BY <1>1, IssuedIs DEF AtEX
<1>3. CASE Traps(x)
  <2>1. stage' = "crash" /\ reg' = reg /\ mem' = mem /\ pc' = pc
    BY <1>2, <1>3 DEF EX, End
  <2> QED BY <1>2, <1>3, <2>1 DEF Path, Crashed
<1>4. CASE ~ Traps(x) /\ Exits(x)
  <2>1. stage' = "exit" /\ reg' = reg /\ mem' = mem /\ pc' = pc
    BY <1>2, <1>4 DEF EX, End, Exits
  <2> QED BY <1>2, <1>4, <2>1 DEF Path, Exited
<1>5. CASE ~ Traps(x) /\ ~ Exits(x)
  <2>1. /\ stage' = "MEM" /\ latch' = Executed(x) /\ reg' = reg /\ mem' = mem
        /\ pc' = CASE x.type \in Branches /\ Taken(x) # x.take_branch -> x.PCnottaken
                   [] x.type \in {"JAL", "JALR"} -> JumpTarget(x)
                   [] OTHER -> pc
    <3> HIDE DEF x
    <3> QED BY <1>2, <1>5, Zenon DEF EX, Pass, Exits, Executed
  <2>2. pc' = PcAfter(t, s)
    <3>1. ~ (x.type \in Branches /\ x.type \in {"JAL", "JALR"})
      BY DEF Branches
    <3> QED BY <1>2, <2>1, <3>1 DEF PcAfter
  <2> QED BY <1>2, <1>5, <2>1, <2>2 DEF Path, AtMEM, Goes
<1> QED BY <1>3, <1>4, <1>5

\* So does MEM.
LEMMA Reaches ==
  ASSUME NEW t \in Tests, NEW s \in Strategies, test = t, branch_strat = s,
         Path(t, s, reg, mem, pc, latch, stage), MEM
  PROVE  Path(t, s, reg', mem', pc', latch', stage')
<1>1. stage = "MEM" /\ AtMEM(t, s, reg, mem, pc, latch)
  BY DEF Path, MEM
<1> DEFINE x == Issued(t, s)
           n == MemLen[x.type]
           y == [destReg |-> x.dest, reg_write |-> Writes(x)]
<1>2. reg = t.reg /\ mem = Contents /\ pc = PcAfter(t, s) /\ latch = Executed(x) /\ Goes(x)
  BY <1>1 DEF AtMEM
<1>3. /\ latch.type = x.type /\ latch.valE = Computed(x) /\ latch.valB = StoreValue(x)
      /\ latch.destReg = x.dest /\ latch.reg_write = Writes(x) /\ Address(latch.valE) = Place(x)
  BY <1>2 DEF Executed, Place
<1>4. Loads \cap Stores = {}
  BY DEF Loads, Stores
<1>5. CASE x.type \in Loads \cup Stores /\ Place(x) \notin Mapped
  <2>1. End("exit")
    BY <1>3, <1>5 DEF MEM
  <2> QED BY <1>2, <1>5, <2>1 DEF End, Path, Exited
<1>6. CASE x.type \in Loads /\ Place(x) \in Mapped
  <2>1. /\ \E junk \in [Outside(Place(x), n) -> Byte] : ToWB(Extended(Content(Place(x), n, junk), n))
        /\ UNCHANGED <<reg, mem, pc>>
    BY <1>3, <1>4, <1>6 DEF MEM
  <2>2. PICK junk \in [Outside(Place(x), n) -> Byte] : ToWB(Extended(Content(Place(x), n, junk), n))
    BY <2>1
  <2>3. Content(Place(x), n, junk) = ContentIn(Contents, Place(x), n, junk)
    BY <1>2 DEF Content, ContentIn
  <2> DEFINE v == Extended(ContentIn(Contents, Place(x), n, junk), n)
  <2>4. stage' = "WB" /\ latch' = [destReg |-> x.dest, reg_write |-> Writes(x), valM |-> v]
    BY <1>3, <2>2, <2>3 DEF ToWB, Pass
  <2>5. Accessed(x, Contents, v)
    BY <1>4, <1>6 DEF Accessed
  <2> HIDE DEF v
  <2>6. AtWB(t, s, reg', mem', pc', latch')
    BY <1>2, <2>1, <2>4, <2>5 DEF AtWB
  <2> QED BY <2>4, <2>6 DEF Path
<1>7. CASE x.type \in Stores /\ Place(x) \in Mapped
  <2>1. /\ mem' = Stored(Place(x), n, StoreValue(x)) /\ ToWB(Computed(x)) /\ UNCHANGED <<reg, pc>>
    BY <1>3, <1>4, <1>7 DEF MEM
  <2>2. mem' = StoredIn(Contents, Place(x), n, StoreValue(x))
    BY <1>2, <2>1 DEF Stored, StoredIn
  <2>3. stage' = "WB" /\ latch' = [destReg |-> x.dest, reg_write |-> Writes(x), valM |-> Computed(x)]
    BY <1>3, <2>1 DEF ToWB, Pass
  <2>4. Accessed(x, mem', Computed(x))
    BY <1>4, <1>7, <2>2 DEF Accessed
  <2>5. AtWB(t, s, reg', mem', pc', latch')
    BY <1>2, <2>1, <2>3, <2>4 DEF AtWB
  <2> QED BY <2>3, <2>5 DEF Path
<1>8. CASE x.type \notin Loads \cup Stores
  <2>1. ToWB(Computed(x)) /\ UNCHANGED <<reg, mem, pc>>
    BY <1>3, <1>8 DEF MEM
  <2>3. stage' = "WB" /\ latch' = [destReg |-> x.dest, reg_write |-> Writes(x), valM |-> Computed(x)]
    BY <1>3, <2>1 DEF ToWB, Pass
  <2>4. Accessed(x, mem', Computed(x))
    BY <1>2, <1>8, <2>1 DEF Accessed
  <2>5. AtWB(t, s, reg', mem', pc', latch')
    BY <1>2, <2>1, <2>3, <2>4 DEF AtWB
  <2> QED BY <2>3, <2>5 DEF Path
<1> QED BY <1>5, <1>6, <1>7, <1>8

\* So does WB.
LEMMA WritesBack ==
  ASSUME NEW t \in Tests, NEW s \in Strategies, test = t, branch_strat = s,
         Path(t, s, reg, mem, pc, latch, stage), WB
  PROVE  Path(t, s, reg', mem', pc', latch', stage')
<1>1. stage = "WB" /\ AtWB(t, s, reg, mem, pc, latch)
  BY DEF Path, WB
<1> DEFINE x == Issued(t, s)
<1>2. PICK v : Accessed(x, mem, v) /\ latch = [destReg |-> x.dest, reg_write |-> Writes(x), valM |-> v]
  BY <1>1 DEF AtWB
<1>3. reg = t.reg /\ pc = PcAfter(t, s) /\ Goes(x)
  BY <1>1 DEF AtWB
<1>4. Puts(latch) = (Writes(x) /\ x.dest # 0) /\ latch.destReg = x.dest /\ latch.valM = v
  BY <1>2 DEF Puts
<1>5. reg' = Left(x, t.reg, v)
  BY <1>3, <1>4 DEF WB, Left
<1>6. stage' = "done" /\ mem' = mem /\ pc' = pc
  BY DEF WB, Pass
<1>7. AtEnd(t, s, reg', mem', pc')
  BY <1>2, <1>3, <1>5, <1>6 DEF AtEnd
<1> QED BY <1>6, <1>7 DEF Path

\* At each stage the registers, the memory, the pc and the latch are those that
\* IF, ID, EX, MEM and WB compute from the test and the branch strategy; only what
\* a load reads behind the end of its block is free.
THEOREM OneTestInvariant == Spec => []OneTest
<1>1. ASSUME OneTest, [Next]_vars PROVE OneTest'
  <2>1. PICK t \in Tests, s \in Strategies :
          test = t /\ branch_strat = s /\ before = Begin(t) /\ Path(t, s, reg, mem, pc, latch, stage)
    BY <1>1 DEF OneTest
  <2>2. test' = t /\ branch_strat' = s /\ before' = Begin(t)
    <3>1. UNCHANGED <<branch_strat, test, before>>
      BY <1>1 DEF Next, vars, IF_, ID, EX, MEM, WB
    <3> QED BY <2>1, <3>1
  <2>3. CASE Next
    <3>1. Path(t, s, reg', mem', pc', latch', stage')
      BY <2>1, <2>3, Fetches, Decodes, Executes, Reaches, WritesBack DEF Next
    <3> QED BY <2>2, <3>1 DEF OneTest
  <2>4. CASE UNCHANGED vars
    <3>1. Path(t, s, reg', mem', pc', latch', stage')
      <4>1. reg' = reg /\ mem' = mem /\ pc' = pc /\ latch' = latch /\ stage' = stage
        BY <2>4 DEF vars
      <4> QED BY <2>1, <4>1
    <3> QED BY <2>2, <3>1 DEF OneTest
  <2> QED BY <1>1, <2>3, <2>4
<1> QED BY Begins, <1>1, PTL DEF Spec

\* The rest of a block with memory has memory.
LEMMA BlockMapped ==
  ASSUME NEW addr \in Mapped, NEW i \in Nat, Inside(addr, i)
  PROVE  addr + i \in Mapped
<1>1. BlockSize \in Nat \ {0} /\ addr \in Int
  <2>1. Two[AddrLen] \in Int
    <3>1. AddrLen \in Nat
      BY Widths, DatapathAssumption
    <3> QED BY <3>1, TwoIs
  <2> QED BY <2>1, DatapathAssumption
<1> DEFINE q == addr \div BlockSize
           r == addr % BlockSize
<1>2. q \in Int /\ r \in 0 .. BlockSize - 1 /\ addr = BlockSize * q + r
  BY <1>1, DivRem
<1>3. r + i \in 0 .. BlockSize - 1
  BY <1>1, <1>2 DEF Inside
<1>4. q * BlockSize + (r + i) \in Mapped
  BY <1>3, DatapathAssumption
<1> HIDE DEF q, r
<1>5. q * BlockSize + (r + i) = addr + i
  BY <1>1, <1>2
<1> QED BY <1>4, <1>5

\* The lengths of the accesses.
LEMMA LensAre ==
  ASSUME NEW type \in Loads \cup Stores
  PROVE  MemLen[type] \in {1, 2, 4, 8}
BY DEF MemLen, Loads, Stores

\* The bytes of a load are bytes and make a value of a register.
LEMMA BytesIn ==
  ASSUME NEW addr \in Mapped, NEW n \in {1, 2, 4, 8}, NEW junk \in [Outside(addr, n) -> Byte]
  PROVE  /\ \A i \in 0 .. n - 1 : ContentIn(Contents, addr, n, junk)[i] \in Byte
         /\ Extended(ContentIn(Contents, addr, n, junk), n) \in Double
<1> DEFINE c == ContentIn(Contents, addr, n, junk)
<1>1. Contents \in [Mapped -> Byte]
  BY DatapathAssumption
<1>2. ASSUME NEW i \in 0 .. n - 1 PROVE c[i] \in Byte
  <2>1. c[i] = IF Inside(addr, i) THEN Contents[addr + i] ELSE junk[i]
    BY DEF ContentIn
  <2>2. CASE Inside(addr, i)
    BY <1>1, <2>1, <2>2, BlockMapped
  <2>3. CASE ~ Inside(addr, i)
    <3>1. i \in Outside(addr, n)
      BY <2>3 DEF Outside
    <3> QED BY <2>1, <2>3, <3>1
  <2> QED BY <2>2, <2>3
<1> HIDE DEF c
<1>3. \A i \in 0 .. n - 1 : c[i] \in 0 .. Two[ByteWidth] - 1
  BY <1>2 DEF Byte, ByteMod
<1>4. ByteWidth \in Nat /\ n \in Nat /\ ByteWidth * n \in Nat /\ ByteWidth * n <= XLen /\ XLen \in Nat
  BY Widths
<1>5. Joined(c, ByteWidth, n) \in 0 .. Two[ByteWidth * n] - 1
  BY <1>3, <1>4, JoinedFits
<1>6. Two[ByteWidth * n] <= Modulus /\ Two[ByteWidth * n] \in Nat /\ Modulus \in Nat
  BY <1>4, TwoGrows, TwoPositive, Widths DEF Modulus
<1>7. Joined(c, ByteWidth, n) \in Double
  BY <1>5, <1>6 DEF Double
<1> QED BY <1>2, <1>7 DEF Extended, c

\* A store leaves bytes.
LEMMA StoredFits ==
  ASSUME NEW addr \in Mapped, NEW n \in {1, 2, 4, 8}, NEW val \in Int
  PROVE  StoredIn(Contents, addr, n, val) \in [Mapped -> Byte]
<1>1. Contents \in [Mapped -> Byte]
  BY DatapathAssumption
<1>2. Mapped \subseteq Int
  <2>1. Two[AddrLen] \in Int
    <3>1. AddrLen \in Nat
      BY Widths, DatapathAssumption
    <3> QED BY <3>1, TwoIs
  <2> QED BY <2>1, DatapathAssumption
<1>3. ASSUME NEW a \in Mapped, a \in addr .. addr + n - 1
      PROVE  (val \div Two[ByteWidth * (a - addr)]) % ByteMod \in Byte
  <2>1. ByteWidth \in Nat /\ a - addr \in Nat
    BY <1>2, <1>3, Widths
  <2>2. ByteWidth * (a - addr) \in Nat
    BY <2>1
  <2>3. Two[ByteWidth * (a - addr)] \in Nat \ {0}
    BY <2>2, TwoPositive
  <2>4. val \div Two[ByteWidth * (a - addr)] \in Int
    BY <2>3
  <2> QED BY <2>4, DivRem, Widths DEF Byte
<1> QED BY <1>1, <1>3 DEF StoredIn

\* The values of an instruction in flight.
LEMMA IssuedTyped ==
  ASSUME NEW t \in Tests, NEW s \in Strategies, Decoding(t).type # "EXIT"
  PROVE  LET x == Issued(t, s) IN
         /\ x.valA \in Double /\ x.valB \in Double /\ x.offset \in Double /\ x.pc \in Double
         /\ x.PCnottaken \in Double
         /\ Writes(x) => x.dest \in Reg
         /\ StoreValue(x) \in Nat
<1> DEFINE x == Issued(t, s)
           d == Decoding(t)
<1>1. Handed(d) /\ d.type # "EXIT"
  BY Decoded DEF Decoding
<1>2. d.valA \in Double /\ d.valB \in Double /\ d.offset \in Double /\ (Writes(x) => d.dest \in Reg)
  BY <1>1, IssuedIs DEF Handed, Writes
<1>3. t.pc \in Double /\ t.pc \in Int
  BY TestIs DEF Double
<1>4. Value(imm_sb(t.word)) \in Int
  BY ValueIn DEF Double
<1>5. Target(t) \in Double /\ Behind(t) \in Double
  <2>1. t.pc + Value(imm_sb(t.word)) \in Int /\ t.pc + 4 \in Int
    BY <1>3, <1>4
  <2> QED BY <2>1, WrapIn DEF Target, Behind
<1>6. /\ x.valA \in Double /\ x.valB \in Double /\ x.offset \in Double /\ x.pc \in Double
      /\ x.PCnottaken \in Double /\ (Writes(x) => x.dest \in Reg)
  BY <1>2, <1>3, <1>5, IssuedIs
<1>7. StoreValue(x) \in Nat
  <2>1. x.valB \in Nat
    BY <1>6 DEF Double
  <2>2. CASE x.type \in Stores \ {"SD"}
    <3>1. MemLen[x.type] \in Nat
      BY <2>2, LensAre
    <3>2. ByteWidth * MemLen[x.type] \in Nat
      BY <3>1, Widths
    <3>3. Two[ByteWidth * MemLen[x.type]] \in Nat \ {0}
      BY <3>2, TwoPositive
    <3>4. \A m \in Nat \ {0} : x.valB % m \in Nat
      BY <2>1
    <3> QED BY <2>2, <3>3, <3>4 DEF StoreValue
  <2>3. CASE x.type \notin Stores \ {"SD"}
    BY <2>1, <2>3 DEF StoreValue
  <2> QED BY <2>2, <2>3
<1> QED BY <1>6, <1>7

\* Every place the fetch may go on at.
LEMMA PcsIn ==
  ASSUME NEW t \in Tests, NEW s \in Strategies
  PROVE  /\ FetchPc(t, s) \in Double /\ Target(t) \in Double /\ Behind(t) \in Double
         /\ Decoding(t).type # "EXIT" => PcAfter(t, s) \in Double
<1> DEFINE x == Issued(t, s)
<1>1. t.pc \in Int /\ Value(imm_sb(t.word)) \in Int
  BY TestIs, ValueIn DEF Double
<1>2. Target(t) \in Double /\ Behind(t) \in Double
  <2>1. t.pc + Value(imm_sb(t.word)) \in Int /\ t.pc + 4 \in Int
    BY <1>1
  <2> QED BY <2>1, WrapIn DEF Target, Behind
<1>3. FetchPc(t, s) \in Double
  BY <1>2 DEF FetchPc
<1>4. ASSUME Decoding(t).type # "EXIT" PROVE PcAfter(t, s) \in Double
  <2>1. x.valA \in Double /\ x.valB \in Double /\ x.pc \in Double /\ x.PCnottaken \in Double
    BY <1>4, IssuedTyped
  <2> HIDE DEF x
  <2>2. Wrap(x.pc + x.valA) \in Double /\ Wrap(x.valA + x.valB) \in Double
    <3>1. x.pc + x.valA \in Int /\ x.valA + x.valB \in Int
      BY <2>1 DEF Double
    <3> QED BY <3>1, WrapIn
  <2>3. ASSUME NEW y \in Double PROVE 2 * (y \div 2) \in Double
    <3>1. y \in 0 .. Modulus - 1 /\ Modulus \in Nat
      BY Widths DEF Double
    <3>2. 2 * (y \div 2) \in 0 .. y
      BY <3>1
    <3> QED BY <3>1, <3>2 DEF Double
  <2>4. JumpTarget(x) \in Double
    BY <2>2, <2>3 DEF JumpTarget
  <2>5. PcAfter(t, s) \in {x.PCnottaken, JumpTarget(x), FetchPc(t, s)}
    BY DEF PcAfter, x
  <2> QED BY <1>3, <2>1, <2>4, <2>5
<1> QED BY <1>2, <1>3, <1>4

\* MEM leaves bytes in the memory and a value for WB.
LEMMA AccessedTyped ==
  ASSUME NEW t \in Tests, NEW s \in Strategies, Goes(Issued(t, s)), NEW m, NEW v, Accessed(Issued(t, s), m, v)
  PROVE  m \in [Mapped -> Byte] /\ v \in Double
<1> DEFINE x == Issued(t, s)
<1>1. Decoding(t).type # "EXIT" /\ x.type # "EXIT" /\ ~ Traps(x)
  BY IssuedIs DEF Goes
<1>2. /\ x.valA \in Double /\ x.valB \in Double /\ x.offset \in Double /\ x.pc \in Double
      /\ StoreValue(x) \in Nat
  BY <1>1, IssuedTyped
<1>3. Contents \in [Mapped -> Byte]
  BY DatapathAssumption
<1>4. Accessed(x, m, v)
  OBVIOUS
<1> HIDE DEF x
<1>5. Computed(x) \in Double
  BY <1>1, <1>2, ComputedIn
<1>6. m \in [Mapped -> Byte]
  <2>1. CASE x.type \in Stores
    <3>1. Place(x) \in Mapped /\ m = StoredIn(Contents, Place(x), MemLen[x.type], StoreValue(x))
      BY <1>4, <2>1 DEF Accessed
    <3>2. MemLen[x.type] \in {1, 2, 4, 8}
      BY <2>1, LensAre
    <3>3. StoreValue(x) \in Int
      BY <1>2
    <3> QED BY <3>1, <3>2, <3>3, StoredFits
  <2>2. CASE x.type \notin Stores
    BY <1>3, <1>4, <2>2 DEF Accessed
  <2> QED BY <2>1, <2>2
<1>7. v \in Double
  <2>1. CASE x.type \in Loads
    <3>1. Place(x) \in Mapped /\ \E junk \in [Outside(Place(x), MemLen[x.type]) -> Byte] :
            v = Extended(ContentIn(Contents, Place(x), MemLen[x.type], junk), MemLen[x.type])
      BY <1>4, <2>1 DEF Accessed
    <3> QED BY <2>1, <3>1, BytesIn, LensAre
  <2>2. CASE x.type \notin Loads
    BY <1>4, <1>5, <2>2 DEF Accessed
  <2> QED BY <2>1, <2>2
<1> QED BY <1>6, <1>7

\* At every stage the registers, the memory, the pc and the values in the latches
\* have the width the code gives them, and register 0 is zero.
THEOREM TypeCorrect == Spec => []TypeOK
<1>1. ASSUME OneTest PROVE TypeOK
  <2>1. PICK t \in Tests, s \in Strategies : Path(t, s, reg, mem, pc, latch, stage)
    BY <1>1 DEF OneTest
  <2> DEFINE x == Issued(t, s)
  <2>2. t.reg \in [Reg -> Double] /\ t.reg[0] = 0 /\ t.pc \in Double /\ Contents \in [Mapped -> Byte] /\ 0 \in Reg
    BY TestIs, DatapathAssumption
  <2>3. FetchPc(t, s) \in Double /\ (Decoding(t).type # "EXIT" => PcAfter(t, s) \in Double)
    BY PcsIn
  <2>4. Goes(x) => Decoding(t).type # "EXIT"
    BY IssuedIs DEF Goes
  <2>5. CASE stage = "IF" /\ AtIF(t, s, reg, mem, pc, latch)
    BY <2>2, <2>5 DEF TypeOK, AtIF
  <2>6. CASE stage = "ID" /\ AtID(t, s, reg, mem, pc, latch)
    BY <2>2, <2>3, <2>6 DEF TypeOK, AtID
  <2>7. CASE stage = "EX" /\ AtEX(t, s, reg, mem, pc, latch)
    <3>1. x.valA \in Double /\ x.valB \in Double /\ x.offset \in Double
      BY <2>7, IssuedTyped DEF AtEX
    <3> QED BY <2>2, <2>3, <2>7, <3>1 DEF TypeOK, AtEX
  <2>8. CASE stage = "MEM" /\ AtMEM(t, s, reg, mem, pc, latch)
    <3>1. latch = Executed(x) /\ Goes(x)
      BY <2>8 DEF AtMEM
    <3>2. /\ x.valA \in Double /\ x.valB \in Double /\ x.offset \in Double /\ x.pc \in Double
          /\ (Writes(x) => x.dest \in Reg) /\ ~ Traps(x)
      BY <2>4, <3>1, IssuedTyped DEF Goes
    <3>3. Computed(x) \in Double
      BY <3>2, ComputedIn
    <3>4. latch.valE = Computed(x) /\ latch.reg_write = Writes(x) /\ latch.destReg = x.dest
      BY <3>1 DEF Executed
    <3> QED BY <2>2, <2>3, <2>4, <2>8, <3>1, <3>2, <3>3, <3>4 DEF TypeOK, AtMEM
  <2>9. CASE stage = "WB" /\ AtWB(t, s, reg, mem, pc, latch)
    <3>1. PICK v : Accessed(x, mem, v) /\ latch = [destReg |-> x.dest, reg_write |-> Writes(x), valM |-> v]
      BY <2>9 DEF AtWB
    <3>2. reg = t.reg /\ pc = PcAfter(t, s) /\ Goes(x)
      BY <2>9 DEF AtWB
    <3>3. mem \in [Mapped -> Byte] /\ v \in Double
      BY <3>1, <3>2, AccessedTyped
    <3>4. latch.valM = v
      BY <3>1
    <3> QED BY <2>2, <2>3, <2>4, <2>9, <3>2, <3>3, <3>4 DEF TypeOK
  <2>10. CASE stage = "done" /\ AtEnd(t, s, reg, mem, pc)
    <3>1. PICK v : Accessed(x, mem, v) /\ reg = Left(x, t.reg, v)
      BY <2>10 DEF AtEnd
    <3>2. pc = PcAfter(t, s) /\ Goes(x)
      BY <2>10 DEF AtEnd
    <3>3. mem \in [Mapped -> Byte] /\ v \in Double
      BY <3>1, <3>2, AccessedTyped
    <3>4. Writes(x) => x.dest \in Reg
      BY <2>4, <3>2, IssuedTyped
    <3>5. reg \in [Reg -> Double] /\ reg[0] = 0
      BY <2>2, <3>1, <3>3, <3>4 DEF Left
    <3> QED BY <2>3, <2>4, <2>10, <3>2, <3>3, <3>5 DEF TypeOK
  <2>11. CASE stage = "exit" /\ Exited(t, s, reg, mem, pc)
    <3>1. pc = FetchPc(t, s) \/ (Goes(x) /\ pc \in {FetchPc(t, s), PcAfter(t, s)})
      BY <2>11 DEF Exited
    <3> QED BY <2>2, <2>3, <2>4, <2>11, <3>1 DEF TypeOK, Exited
  <2>12. CASE stage = "crash" /\ Crashed(t, s, reg, mem, pc)
    BY <2>2, <2>3, <2>12 DEF TypeOK, Crashed
  <2> QED BY <2>1, <2>5, <2>6, <2>7, <2>8, <2>9, <2>10, <2>11, <2>12 DEF Path
<1> QED BY <1>1, OneTestInvariant, PTL

\* The immediate an instruction was encoded with, in each of the formats I, S, B, U
\* and J, is what the masks and shifts of ID and IF make of its word, sign included
\* (simulation.cpp:376, 449-455).
THEOREM Immediates == Spec => []ImmediateIsRecovered
<1>1. ASSUME OneTest PROVE ImmediateIsRecovered
  <2>1. test \in Tests
    BY <1>1 DEF OneTest
  <2>2. WellFormed(test.ins) /\ test.word = Encode(test.ins) /\ test.word \subseteq Bit
    BY <2>1, TestIs
  <2>3. test.ins.op \in Ops
    BY <2>1, TestIs
  <2>4. FormatOf(test.ins) \in {"S6", "S5"} => Encoding(test.ins.op)[4] \in {0, 32}
    BY <2>3, EncodingIs, TablesFit, Groups DEF FormatOf
  <2>5. /\ FormatOf(test.ins) = "I" => imm_i(test.word) = test.ins.imm
        /\ FormatOf(test.ins) = "S" => imm_s(test.word) = test.ins.imm
        /\ FormatOf(test.ins) = "B" => imm_sb(test.word) = test.ins.imm
        /\ FormatOf(test.ins) = "J" => imm_uj(test.word) = test.ins.imm
        /\ FormatOf(test.ins) = "U" => Shl(imm_u(test.word), 12) = test.ins.imm
    BY <2>2, <2>4, ImmsOf
  <2> QED BY <2>5 DEF ImmediateIsRecovered, ins
<1> QED BY <1>1, OneTestInvariant, PTL

-----------------------------------------------------------------------------
(* Arithmetic: what EX computes is what the manual says. *)

\* A multiple of the modulus does not change the remainder.
LEMMA ModSame ==
  ASSUME NEW m \in Nat \ {0}, NEW x \in Int, NEW y \in Int, NEW k \in Int, x = y + m * k
  PROVE  x % m = y % m /\ x \div m = (y \div m) + k
<1> DEFINE q == y \div m
           r == y % m
<1>1. q \in Int /\ r \in 0 .. m - 1 /\ y = m * q + r
  BY DivRem
<1> HIDE DEF q, r
<1>2. q + k \in Int /\ x = m * (q + k) + r
  BY <1>1
<1>3. x \div m = q + k /\ x % m = r
  BY <1>1, <1>2, DivIs
<1> QED BY <1>3 DEF q, r

\* Nor what a register keeps.
LEMMA WrapSame ==
  ASSUME NEW x \in Int, NEW y \in Int, NEW k \in Int, x = y + Modulus * k
  PROVE  Wrap(x) = Wrap(y)
<1>1. Modulus \in Nat \ {0}
  BY Widths
<1> DEFINE m == Modulus
<1>2. m \in Nat \ {0} /\ x = y + m * k
  BY <1>1
<1> HIDE DEF m
<1>3. x % m = y % m
  BY <1>2, ModSame
<1> QED BY <1>3 DEF Wrap, m

\* Nor what a word keeps.
LEMMA LowSame ==
  ASSUME NEW x \in Int, NEW y \in Int, NEW k \in Int, x = y + WordMod * k
  PROVE  Low(x) = Low(y) /\ Signed32(x) = Signed32(y)
<1>1. Low(x) = Low(y)
  <2>1. WordMod \in Nat \ {0}
    BY Widths
  <2> DEFINE m == WordMod
  <2>2. m \in Nat \ {0} /\ x = y + m * k
    BY <2>1
  <2> HIDE DEF m
  <2>3. x % m = y % m
    BY <2>2, ModSame
  <2> QED BY <2>3 DEF Low, m
<1> QED BY <1>1 DEF Signed32

\* The manual's extension of a word is the code's cast to int32_t and back.
LEMMA ExtendsWord == ASSUME NEW x PROVE SignExtend(x, WordLen) = Wrap(Signed32(x))
BY DEF SignExtend, Signed32, Low, WordMod

\* (int32_t) changes a number by a multiple of the word.
LEMMA Signed32Mod ==
  ASSUME NEW x \in Int
  PROVE  /\ \E k \in Int : Signed32(x) = x + WordMod * k
         /\ \E k \in Int : Low(x) = x + WordMod * k
         /\ Signed32(x) \in -Two[WordLen - 1] .. Two[WordLen - 1] - 1
<1> DEFINE q == x \div WordMod
           r == Low(x)
           h == Two[WordLen - 1]
<1>1. WordMod \in Nat \ {0} /\ h \in Nat \ {0} /\ WordMod = 2 * h /\ Two[WordLen] = WordMod
  BY Widths DEF WordMod
<1>2. q \in Int /\ r \in 0 .. WordMod - 1 /\ x = WordMod * q + r
  BY <1>1, DivRem DEF Low
<1>3. Signed32(x) = IF r < h THEN r ELSE r - WordMod
  BY <1>1 DEF Signed32, Signed
<1> HIDE DEF q, r, h
<1>4. r = x + WordMod * (-q) /\ r - WordMod = x + WordMod * (-q - 1) /\ -q \in Int /\ -q - 1 \in Int
  BY <1>1, <1>2
<1>5. \E k \in Int : Signed32(x) = x + WordMod * k
  BY <1>3, <1>4
<1>6. \E k \in Int : r = x + WordMod * k
  BY <1>4
<1>7. Signed32(x) \in -h .. h - 1
  BY <1>1, <1>2, <1>3
<1> QED BY <1>5, <1>6, <1>7 DEF r, h

\* A number of the word's range is what (int32_t) makes of it.
LEMMA Signed32Is ==
  ASSUME NEW q \in -Two[WordLen - 1] .. Two[WordLen - 1] - 1, NEW y \in Int, NEW k \in Int, y = q + WordMod * k
  PROVE  Signed32(y) = q
<1> DEFINE h == Two[WordLen - 1]
<1>1. WordMod \in Nat \ {0} /\ h \in Nat \ {0} /\ WordMod = 2 * h /\ Two[WordLen] = WordMod
  BY Widths DEF WordMod
<1>2. q \in -h .. h - 1 /\ q \in Int
  BY <1>1
<1>3. Low(y) = Low(q)
  BY <1>2, LowSame
<1>4. CASE q >= 0
  <2>1. q = WordMod * 0 + q /\ q \in 0 .. WordMod - 1
    BY <1>1, <1>2, <1>4
  <2>2. Low(q) = q
    BY <1>1, <1>2, <2>1, DivIs DEF Low
  <2> QED BY <1>1, <1>2, <1>3, <2>2 DEF Signed32, Signed
<1>5. CASE q < 0
  <2>1. q = WordMod * (-1) + (q + WordMod) /\ q + WordMod \in 0 .. WordMod - 1 /\ q + WordMod >= h
    BY <1>1, <1>2, <1>5
  <2>2. Low(q) = q + WordMod
    <3> DEFINE m == WordMod
               r == q + WordMod
    <3>1. m \in Nat \ {0} /\ r \in 0 .. m - 1 /\ q = m * (-1) + r /\ -1 \in Int /\ q \in Int
      BY <1>1, <1>2, <2>1
    <3> HIDE DEF m, r
    <3>2. q % m = r
      BY <3>1, DivIs
    <3> QED BY <3>2 DEF Low, m, r
  <2> HIDE DEF h
  <2>3. Signed32(y) = IF q + WordMod < h THEN q + WordMod ELSE (q + WordMod) - WordMod
    BY <1>1, <1>3, <2>2 DEF Signed32, Signed, h
  <2> QED BY <1>1, <1>2, <2>1, <2>3
<1> QED BY <1>2, <1>4, <1>5

\* ADDW, ADDIW and SUBW.
LEMMA WordSums ==
  ASSUME NEW a \in Int, NEW b \in Int
  PROVE  /\ Wrap(Signed32(Signed32(a) + Signed32(b))) = SignExtend(a + b, WordLen)
         /\ Wrap(Signed32(Signed32(a) - Signed32(b))) = SignExtend(Modulus + a - b, WordLen)
<1>1. PICK i \in Int : Signed32(a) = a + WordMod * i
  BY Signed32Mod
<1>2. PICK j \in Int : Signed32(b) = b + WordMod * j
  BY Signed32Mod
<1>3. WordMod \in Nat /\ Modulus = WordMod * WordMod
  BY Widths
<1> DEFINE u == Signed32(a) + Signed32(b)
           v == Signed32(a) - Signed32(b)
           w == Modulus + a - b
<1>4. /\ u = (a + b) + WordMod * (i + j) /\ i + j \in Int /\ u \in Int /\ a + b \in Int
  BY <1>1, <1>2, <1>3
<1>5. /\ v = w + WordMod * (i - j - WordMod) /\ i - j - WordMod \in Int /\ v \in Int /\ w \in Int
  BY <1>1, <1>2, <1>3
<1> HIDE DEF u, v, w
<1>6. Signed32(u) = Signed32(a + b)
  BY <1>4, LowSame
<1>7. Signed32(v) = Signed32(w)
  BY <1>5, LowSame
<1> QED BY <1>6, <1>7, ExtendsWord DEF u, v, w

\* SLLIW.
LEMMA WordShiftLeft ==
  ASSUME NEW a \in Int, NEW p \in Int
  PROVE  Wrap(Signed32(a * p)) = SignExtend(Low(a) * p, WordLen)
<1>1. PICK k \in Int : Low(a) = a + WordMod * k
  BY Signed32Mod
<1>2. WordMod \in Nat
  BY Widths
<1> DEFINE u == a * p
           v == Low(a) * p
<1>3. Low(a) \in Int
  BY <1>1, <1>2
<1>4. v = u + WordMod * (k * p) /\ u \in Int /\ v \in Int /\ k * p \in Int
  BY <1>1, <1>2, <1>3
<1> HIDE DEF u, v
<1>5. Signed32(v) = Signed32(u)
  BY <1>4, LowSame
<1> QED BY <1>5, ExtendsWord DEF u, v

\* SRAW and SRAIW: shifting the sign-extended word and cutting it to a word again.
LEMMA WordShiftRight ==
  ASSUME NEW a \in Int, NEW k \in 0 .. WordLen - 1
  PROVE  Wrap(Signed32(a) \div Two[k]) = SignExtend(SignExtend(a, WordLen) \div Two[k], WordLen)
<1> DEFINE z == Signed32(a)
           p == Two[k]
           e == Two[WordLen - k]
           h == Two[WordLen - 1]
           q == z \div p
           r == z % p
<1>1. /\ h \in Nat \ {0} /\ WordMod = 2 * h /\ WordMod \in Nat \ {0} /\ Modulus = WordMod * WordMod
      /\ Modulus \in Nat \ {0} /\ WordMod <= Modulus /\ WordLen \in Nat
  BY Widths
<1>2. k \in Nat /\ WordLen - k \in Nat /\ k + (WordLen - k) = WordLen
  BY <1>1
<1>3. p \in Nat \ {0} /\ e \in Nat \ {0}
  BY <1>2, TwoPositive
<1>4. WordMod = p * e
  <2>1. Two[k + (WordLen - k)] = Two[k] * Two[WordLen - k]
    BY <1>2, TwoSum
  <2> QED BY <1>2, <2>1 DEF WordMod
<1>5. z \in -h .. h - 1
  BY Signed32Mod
<1>5a. z \in Int
  BY <1>1, <1>5
<1>6. q \in Int /\ r \in 0 .. p - 1 /\ z = p * q + r
  BY <1>3, <1>5a, DivRem
<1>7. SignExtend(a, WordLen) = Wrap(z)
  BY ExtendsWord
<1> HIDE DEF z, p, e, h, q, r
<1>8. q \in -h .. h - 1
  <2>1. ASSUME q >= h PROVE FALSE
    <3>1. p * q >= q
      BY <1>1, <1>3, <1>6, <2>1
    <3> QED BY <1>1, <1>3, <1>5, <1>6, <2>1, <3>1
  <2>2. ASSUME q <= -h - 1 PROVE FALSE
    <3>1. p * q <= p * (-h - 1)
      BY <1>1, <1>3, <1>6, <2>2
    <3>2. p * (-h - 1) = -(p * h) - p /\ p * h >= h /\ p * h \in Int
      BY <1>1, <1>3
    <3>3. p * q \in Int
      BY <1>3, <1>6
    <3>4. z <= -h - 1
      BY <1>1, <1>3, <1>6, <3>1, <3>2, <3>3
    <3> QED BY <1>1, <1>5, <3>4
  <2> QED BY <1>1, <1>6, <2>1, <2>2
<1>9. \E j \in Int : Wrap(z) \div p = q + WordMod * j
  <2>1. CASE z >= 0
    <3>1. z = Modulus * 0 + z /\ z \in 0 .. Modulus - 1
      BY <1>1, <1>5, <1>5a, <2>1
    <3>2. Wrap(z) = z
      BY <1>1, <1>5a, <3>1, DivIs DEF Wrap
    <3>3. Wrap(z) \div p = q + WordMod * 0
      BY <1>1, <1>6, <3>2 DEF q
    <3> QED BY <3>3
  <2>2. CASE z < 0
    <3>1. z = Modulus * (-1) + (z + Modulus) /\ z + Modulus \in 0 .. Modulus - 1
      BY <1>1, <1>5, <1>5a, <2>2
    <3>2. Wrap(z) = z + Modulus
      BY <1>1, <1>5a, <3>1, DivIs DEF Wrap
    <3>3. Modulus = p * (WordMod * e)
      BY <1>1, <1>3, <1>4
    <3>4. z + Modulus = z + p * (WordMod * e) /\ z + Modulus \in Int /\ WordMod * e \in Int
      BY <1>1, <1>3, <1>5a, <3>3
    <3>5. (z + Modulus) \div p = (z \div p) + WordMod * e
      BY <1>3, <1>5a, <3>4, ModSame
    <3> QED BY <1>3, <3>2, <3>5 DEF q
  <2> QED BY <1>5a, <2>1, <2>2
<1> DEFINE y == Wrap(z) \div p
<1>10. PICK j \in Int : y = q + WordMod * j
  BY <1>9
<1>11. y \in Int
  BY <1>1, <1>6, <1>10
<1> HIDE DEF y
<1>12. Signed32(y) = q
  BY <1>8, <1>10, <1>11, Signed32Is DEF h
<1>13. SignExtend(y, WordLen) = Wrap(q)
  BY <1>12, ExtendsWord
<1> QED BY <1>7, <1>13 DEF y, q, z, p

\* DIV, where the host does not trap.
LEMMA Divisions ==
  ASSUME NEW a \in Int, NEW b \in Int, b # 0
  PROVE  Quotient(a, b) = Division(a, b)
<1> DEFINE m == Magnitude(a)
           d == Magnitude(b)
           q == m \div d
           r == m % d
<1>1. m \in Nat /\ d \in Nat \ {0} /\ a = (IF a < 0 THEN -m ELSE m)
  BY DEF Magnitude
<1>2. Quotient(a, b) = IF (a < 0) = (b < 0) THEN q ELSE -q
  BY DEF Quotient, Magnitude
<1>3. Division(a, b) = (IF b < 0 THEN -1 ELSE 1) * ((a - (IF a < 0 THEN -1 ELSE 1) * r) \div d)
  BY DEF Division, Remainder
<1> HIDE DEF m, d
<1>4. q \in Int /\ r \in 0 .. d - 1 /\ m = d * q + r
  BY <1>1, DivRem
<1> HIDE DEF q, r
<1>5. CASE a < 0
  <2>1. a - (-1) * r = d * (-q) + 0 /\ -q \in Int /\ 0 \in 0 .. d - 1 /\ a - (-1) * r \in Int
    BY <1>1, <1>4, <1>5
  <2>2. (a - (-1) * r) \div d = -q
    BY <1>1, <2>1, DivIs
  <2> QED BY <1>2, <1>3, <1>4, <1>5, <2>2
<1>6. CASE ~ a < 0
  <2>1. a - 1 * r = d * q + 0 /\ 0 \in 0 .. d - 1 /\ a - 1 * r \in Int
    BY <1>1, <1>4, <1>6
  <2>2. (a - 1 * r) \div d = q
    BY <1>1, <1>4, <2>1, DivIs
  <2> QED BY <1>2, <1>3, <1>4, <1>6, <2>2
<1> QED BY <1>5, <1>6

\* A power of two that divides the number of bits a count is taken modulo.
LEMMA LensArePowers ==
  \E w \in {3, 4, 5} : WordLen = Two[w] /\ w <= XLen /\ XLen - w \in Nat /\ w + (XLen - w) = XLen
<1>1. ByteWidth \in {2, 4, 8} /\ XLen = ByteWidth * 8 /\ WordLen = ByteWidth * 4
  BY Widths, DecoderAssumption
<1> QED BY <1>1, Powers

\* SRAIW leaves a bit of funct7 in its count, above those that count.
LEMMA CountOfSRAIW ==
  ASSUME NEW imm, imm \subseteq 0 .. 4
  PROVE  Value(imm \cup {10}) % WordLen = Value(imm) % WordLen
<1>1. PICK w \in {3, 4, 5} : WordLen = Two[w] /\ w <= XLen /\ XLen - w \in Nat /\ w + (XLen - w) = XLen
  BY LensArePowers
<1>2. 31 \notin imm /\ 31 \notin imm \cup {10}
  OBVIOUS
<1>3. Value(imm) = Unsigned(imm, XLen) /\ Value(imm \cup {10}) = Unsigned(imm \cup {10}, XLen)
  <2>1. imm \cup {} = imm /\ (imm \cup {10}) \cup {} = imm \cup {10}
    OBVIOUS
  <2> QED BY <1>2, <2>1 DEF Value
<1>4. Unsigned(imm \cup {10}, w) = Unsigned(imm, w)
  <2>1. \A i \in 0 .. w - 1 : i \in imm \cup {10} <=> i \in imm
    BY <1>1
  <2> QED BY <2>1, UnsignedAgree
<1>5. ASSUME NEW S PROVE \E k \in Int : Unsigned(S, XLen) = Unsigned(S, w) + WordLen * k
  <2> DEFINE T == {i - w : i \in {j \in S : j \in 0 .. XLen - 1}}
             n == XLen - w
  <2>1. \A i \in 0 .. n - 1 : i \in T <=> i + w \in S
    <3>1. XLen \in Nat
      BY Widths
    <3> QED BY <1>1, <3>1
  <2>2. w \in Nat /\ n \in Nat /\ w + n = XLen
    BY <1>1
  <2> HIDE DEF T, n
  <2>3. Unsigned(S, w + n) = Unsigned(S, w) + Two[w] * Unsigned(T, n)
    BY <2>1, <2>2, UnsignedSplit
  <2>4. Unsigned(T, n) \in Int
    BY <2>2, UnsignedFits
  <2> QED BY <1>1, <2>2, <2>3, <2>4
<1>6. PICK k \in Int : Unsigned(imm, XLen) = Unsigned(imm, w) + WordLen * k
  BY <1>5
<1>7. PICK l \in Int : Unsigned(imm \cup {10}, XLen) = Unsigned(imm \cup {10}, w) + WordLen * l
  BY <1>5
<1> DEFINE u == Unsigned(imm, w)
           x == Unsigned(imm, XLen)
           y == Unsigned(imm \cup {10}, XLen)
<1>8. WordLen \in Nat \ {0} /\ u \in Int /\ x \in Int /\ y \in Int
  BY Widths, UnsignedFits
<1>9. x = u + WordLen * k /\ y = u + WordLen * l
  BY <1>4, <1>6, <1>7
<1> DEFINE m == WordLen
<1> HIDE DEF u, x, y, m
<1>10. x % m = u % m
  BY <1>8, <1>9, ModSame DEF m
<1>11. y % m = u % m
  BY <1>8, <1>9, ModSame DEF m
<1> QED BY <1>3, <1>10, <1>11 DEF x, y, m

\* An immediate of U format is what ID makes of it, times 2^12.
LEMMA UpperValue ==
  ASSUME NEW imm, IsImm(imm, 12, 32), NEW U, U \subseteq Bit,
         \A i \in Bit : i \in U <=> i + 12 \in imm \/ (i >= 20 /\ 31 \in imm)
  PROVE  \E k \in Int : Value(U) * 4096 = Value(imm) + Modulus * k
<1> DEFINE V == U \cup (IF 31 \in U THEN 32 .. XLen - 1 ELSE {})
           W == imm \cup (IF 31 \in imm THEN 32 .. XLen - 1 ELSE {})
           n == XLen - 12
<1>1. XLen \in {16, 32, 64} /\ n \in Nat /\ 12 + n = XLen /\ n + 12 = XLen /\ XLen \in Nat
  BY DecoderAssumption, Widths
<1>2. imm \subseteq 12 .. 31
  BY DEF IsImm
<1>3. 31 \in U <=> 31 \in imm
  BY <1>2 DEF Bit
<1>4. \A i \in 0 .. n - 1 : i \in V <=> i + 12 \in W
  <2> SUFFICES ASSUME NEW i \in 0 .. n - 1 PROVE i \in V <=> i + 12 \in W
    OBVIOUS
  <2>1. i \in Int /\ i >= 0 /\ i <= XLen - 13
    BY <1>1
  <2>2. CASE i <= 31
    <3>1. i \in Bit
      BY <2>1, <2>2 DEF Bit
    <3>2. i \in V <=> i + 12 \in imm \/ (i >= 20 /\ 31 \in imm)
      BY <2>1, <2>2, <3>1
    <3>3. i + 12 \in W <=> i + 12 \in imm \/ (31 \in imm /\ i + 12 >= 32)
      BY <1>1, <2>1
    <3> QED BY <2>1, <3>2, <3>3
  <2>3. CASE i > 31
    <3>1. i \in V <=> 31 \in imm
      BY <1>1, <1>3, <2>1, <2>3 DEF Bit
    <3>2. i + 12 \in W <=> 31 \in imm
      BY <1>1, <1>2, <2>1, <2>3
    <3> QED BY <3>1, <3>2
  <2> QED BY <2>1, <2>2, <2>3
<1>5. \A i \in 0 .. 11 : i \notin W
  BY <1>2
<1>6. Value(U) = Unsigned(V, XLen) /\ Value(imm) = Unsigned(W, XLen)
  BY DEF Value
<1> HIDE DEF V, W, n
<1>7. Unsigned(W, 12) = 0
  <2>1. \A i \in 0 .. 12 - 1 : i \in W <=> i \in {}
    BY <1>5
  <2>2. Unsigned(W, 12) = Unsigned({}, 12)
    BY <2>1, UnsignedAgree
  <2>3. Unsigned({}, 12) = 0
    <3> DEFINE S == {k \in Nat : Unsigned({}, k) = 0}
    <3>1. 0 \in S
      BY UnsignedStep
    <3>2. \A k \in Nat : k \in S => k + 1 \in S
      <4> SUFFICES ASSUME NEW k \in S PROVE k + 1 \in S
        OBVIOUS
      <4>1. Unsigned({}, k + 1) = Unsigned({}, k) + (IF k \in {} THEN Two[k] ELSE 0)
        BY UnsignedStep
      <4> QED BY <4>1
    <3> HIDE DEF S
    <3>3. \A k \in Nat : k \in S
      BY <3>1, <3>2, Induction
    <3> QED BY <3>3 DEF S
  <2> QED BY <2>2, <2>3
<1>8. Two[12] = 4096
  <2>1. Two[5 + 7] = Two[5] * Two[7]
    BY TwoSum
  <2> QED BY <2>1, Powers
<1>9. Unsigned(W, 12 + n) = Unsigned(W, 12) + Two[12] * Unsigned(V, n)
  BY <1>1, <1>4, UnsignedSplit
<1> DEFINE T == {i - n : i \in {j \in V : j \in 0 .. XLen - 1}}
<1>10. \A i \in 0 .. 12 - 1 : i \in T <=> i + n \in V
  BY <1>1
<1> HIDE DEF T
<1>11. Unsigned(V, n + 12) = Unsigned(V, n) + Two[n] * Unsigned(T, 12)
  <2> DEFINE m == 12
  <2>1. n \in Nat /\ m \in Nat /\ \A i \in 0 .. m - 1 : i \in T <=> i + n \in V
    BY <1>1, <1>10
  <2> HIDE DEF m
  <2>2. Unsigned(V, n + m) = Unsigned(V, n) + Two[n] * Unsigned(T, m)
    BY <2>1, UnsignedSplit
  <2> QED BY <2>2 DEF m
<1>12. Two[n] * 4096 = Modulus /\ Two[n] \in Int
  <2>1. Two[n + 12] = Two[n] * Two[12]
    BY <1>1, TwoSum
  <2> QED BY <1>1, <1>8, <2>1, TwoPositive DEF Modulus
<1> DEFINE u == Unsigned(V, n)
           v == Unsigned(T, 12)
<1>13. u \in Int /\ v \in Int
  BY <1>1, UnsignedFits
<1>14. Value(imm) = 4096 * u /\ Value(U) = u + Two[n] * v
  BY <1>1, <1>6, <1>7, <1>8, <1>9, <1>11, <1>13
<1> HIDE DEF u, v
<1>15. Value(U) * 4096 = Value(imm) + Modulus * v
  <2>1. (u + Two[n] * v) * 4096 = 4096 * u + (Two[n] * 4096) * v
    BY <1>12, <1>13
  <2> QED BY <1>12, <1>14, <2>1
<1> QED BY <1>13, <1>15

\* A loaded value is its own sign extension unless its sign bit is set; then the
\* extension is in the upper half of the numbers.
LEMMA LoadedSign ==
  ASSUME NEW n \in {1, 2, 4}, NEW v \in 0 .. Two[n * ByteWidth] - 1
  PROVE  LET e == SignExtend(v, n * ByteWidth) IN
         /\ e = v \/ 2 * e >= Modulus
         /\ e = v => 2 * e < Modulus
<1> DEFINE k == n * ByteWidth
           h == Two[k - 1]
           t == Two[k]
           H == Two[XLen - 1]
<1>1. k \in Nat \ {0} /\ k <= XLen - 1 /\ XLen - 1 \in Nat /\ k - 1 \in Nat
  BY Widths
<1>2. t = 2 * h /\ h \in Nat \ {0} /\ t \in Nat \ {0}
  BY <1>1, TwoPositive
<1>3. H \in Nat \ {0} /\ Modulus = 2 * H /\ Modulus \in Nat \ {0}
  BY Widths
<1>4. t <= H
  BY <1>1, TwoGrows
<1>5. v \in 0 .. t - 1 /\ v \in Int
  BY <1>2
<1>6. v % t = v
  <2>1. v = t * 0 + v
    BY <1>2, <1>5
  <2> HIDE DEF t
  <2> QED BY <1>2, <1>5, <2>1, DivIs
<1>7. SignExtend(v, k) = Wrap(IF v < h THEN v ELSE v - t)
  BY <1>6 DEF SignExtend, Signed
<1>8. n * ByteWidth = k
  OBVIOUS
<1> HIDE DEF k, h, t, H
<1>9. CASE v < h
  <2>1. v \in 0 .. Modulus - 1 /\ v = Modulus * 0 + v
    BY <1>2, <1>3, <1>4, <1>5
  <2>2. Wrap(v) = v
    BY <1>3, <1>5, <2>1, DivIs DEF Wrap
  <2>3. SignExtend(v, k) = v /\ 2 * v < Modulus
    BY <1>2, <1>3, <1>4, <1>5, <1>7, <1>9, <2>2
  <2> QED BY <1>8, <2>3
<1>10. CASE ~ v < h
  <2> DEFINE x == v - t
             r == v - t + Modulus
  <2>1. r \in 0 .. Modulus - 1 /\ x = Modulus * (-1) + r /\ x \in Int /\ 2 * r >= Modulus /\ r # v /\ r \in Int
    BY <1>2, <1>3, <1>4, <1>5, <1>10
  <2>2. SignExtend(v, k) = Wrap(x)
    BY <1>7, <1>10
  <2> HIDE DEF x, r
  <2>3. Wrap(x) = r
    BY <1>3, <2>1, DivIs DEF Wrap
  <2> QED BY <1>8, <2>1, <2>2, <2>3
<1> QED BY <1>9, <1>10

\* A store cuts its value to its width, which leaves its bytes as they are.
LEMMA StoredDigit ==
  ASSUME NEW v \in Nat, NEW n \in Nat, NEW k \in 0 .. n - 1
  PROVE  ((v % Two[ByteWidth * n]) \div Two[ByteWidth * k]) % ByteMod = (v \div Two[ByteWidth * k]) % ByteMod
<1> DEFINE P == Two[ByteWidth * k]
           R == Two[ByteWidth * (n - k - 1)]
           T == Two[ByteWidth * n]
           w == v % T
           q == v \div T
<1>1. ByteWidth \in Nat \ {0} /\ ByteMod \in Nat \ {0} /\ ByteMod = Two[ByteWidth]
  BY Widths DEF ByteMod
<1>2. ByteWidth * k \in Nat /\ ByteWidth * (n - k - 1) \in Nat /\ ByteWidth * n \in Nat
  <2>1. k \in Nat /\ n - k - 1 \in Nat
    OBVIOUS
  <2>2. \A i, j \in Nat : i * j \in Nat
    OBVIOUS
  <2> QED BY <1>1, <2>1, <2>2
<1>3. ByteWidth * n = ByteWidth * k + (ByteWidth + ByteWidth * (n - k - 1))
  BY <1>1
<1>4. P \in Nat \ {0} /\ R \in Nat \ {0} /\ T \in Nat \ {0}
  BY <1>2, TwoPositive
<1>5. T = P * (ByteMod * R)
  <2>1. Two[ByteWidth * k + (ByteWidth + ByteWidth * (n - k - 1))] =
          Two[ByteWidth * k] * Two[ByteWidth + ByteWidth * (n - k - 1)]
    <3>1. ByteWidth + ByteWidth * (n - k - 1) \in Nat
      BY <1>1, <1>2
    <3> QED BY <1>2, <3>1, TwoSum
  <2>2. Two[ByteWidth + ByteWidth * (n - k - 1)] = Two[ByteWidth] * Two[ByteWidth * (n - k - 1)]
    BY <1>1, <1>2, TwoSum
  <2> QED BY <1>1, <1>3, <2>1, <2>2
<1> HIDE DEF P, R, T
<1>6. q \in Int /\ w \in Int /\ v = T * q + w
  BY <1>4, DivRem
<1> HIDE DEF w, q
<1>7. v = w + P * (ByteMod * R * q) /\ ByteMod * R * q \in Int
  BY <1>1, <1>4, <1>5, <1>6
<1>8. v \div P = (w \div P) + ByteMod * R * q
  BY <1>4, <1>6, <1>7, ModSame
<1>9. w \div P \in Int /\ v \div P \in Int
  BY <1>4, <1>6
<1> DEFINE x == v \div P
           y == w \div P
<1>10. x = y + ByteMod * (R * q) /\ R * q \in Int /\ x \in Int /\ y \in Int
  BY <1>1, <1>4, <1>6, <1>8, <1>9
<1> HIDE DEF x, y
<1>11. x % ByteMod = y % ByteMod
  <2> DEFINE m == ByteMod
  <2>1. m \in Nat \ {0} /\ x = y + m * (R * q)
    BY <1>1, <1>10
  <2> HIDE DEF m
  <2>2. x % m = y % m
    BY <1>10, <2>1, ModSame
  <2> QED BY <2>2 DEF m
<1> QED BY <1>11 DEF x, y, w, P, T

-----------------------------------------------------------------------------
(* The comparison with the manual. *)

\* The formats of the groups.
LEMMA FormatsAre ==
  ASSUME NEW op
  PROVE  /\ op \in DOMAIN OP \cup DOMAIN OP_32 => Encoding(op)[1] = "R"
         /\ op \in DOMAIN OP_IMM \cup DOMAIN LOAD => Encoding(op)[1] = "I"
         /\ op \in DOMAIN OP_SHIFT => Encoding(op)[1] = "S6"
         /\ op \in DOMAIN OP_SHIFT_32 => Encoding(op)[1] = "S5"
         /\ op \in DOMAIN STORE => Encoding(op)[1] = "S"
         /\ op \in DOMAIN BRANCH => Encoding(op)[1] = "B"
         /\ op \in DOMAIN OTHERS => Encoding(op)[1] \in {"I", "U", "J"}
BY EncodingIs, TablesFit

\* IF takes no other instruction for a branch.
LEMMA NotBranch ==
  ASSUME NEW t \in Tests
  PROVE  IsBranch(t) <=> t.ins.op \in DOMAIN BRANCH
<1> DEFINE n == t.ins
<1>1. WellFormed(n) /\ t.word = Encode(n) /\ n.op \in Ops
  BY TestIs
<1>2. FormatOf(n) \in {"S6", "S5"} => Encoding(n.op)[4] \in {0, 32}
  BY <1>1, EncodingIs, TablesFit, Groups DEF FormatOf
<1>3. opcode(t.word) = Encoding(n.op)[2]
  BY <1>1, <1>2, FieldsOf DEF Fields
<1>4. n.op \in DOMAIN BRANCH => Encoding(n.op)[2] = 99
  BY EncodingIs
<1>5. n.op \notin DOMAIN BRANCH => Encoding(n.op)[2] \in {51, 59, 19, 27, 3, 35, 55, 23, 111, 103, 115, 15}
  <2>1. n.op \in DOMAIN OTHERS => OTHERS[n.op][2] \in {27, 55, 23, 111, 103, 115, 15}
    BY DEF OTHERS
  <2> HIDE DEF n
  <2> QED BY <1>1, <2>1, EncodingIs, Groups
<1> QED BY <1>3, <1>4, <1>5 DEF IsBranch, Opcode

\* The manual's step of a test.
ManualOf(t) == IsaStep(t.ins, Begin(t))

\* The operand that is a register or the immediate.
Second(t) == IF FormatOf(t.ins) \in {"R", "S", "B"} THEN t.reg[t.ins.rs2] ELSE Value(t.ins.imm)
\* The operand that is a register, and the value the manual computes.
First(t)  == t.reg[t.ins.rs1]
Result(t) == IsaResult(t.ins.op, First(t), Second(t), Value(t.ins.imm), t.pc)

\* The accesses of the manual and of MEM have the same lengths.
LEMMA BytesAre ==
  /\ DOMAIN IsaBytes = DOMAIN LOAD \cup DOMAIN STORE
  /\ DOMAIN LOAD = Loads \cup {"LWU"} /\ DOMAIN STORE = Stores
  /\ \A op \in Loads \cup Stores : IsaBytes[op] = MemLen[op]
  /\ \A op \in DOMAIN IsaBytes : IsaBytes[op] \in {1, 2, 4, 8}
BY DEF IsaBytes, LOAD, STORE, Loads, Stores, MemLen

\* The manual's step of an instruction without a memory access.
LEMMA ManualNoAccess ==
  ASSUME NEW t \in Tests, t.ins.op \notin DOMAIN IsaBytes, FormatOf(t.ins) # "S"
  PROVE  ManualOf(t) =
           {[reg |-> IF FormatOf(t.ins) = "B" \/ t.ins.op \in {"ECALL", "FENCE"} THEN t.reg
                     ELSE [t.reg EXCEPT ![t.ins.rd] = IF t.ins.rd = 0 THEN 0 ELSE Result(t)],
             mem |-> Contents,
             pc  |-> IF t.ins.op = "JAL" \/ (FormatOf(t.ins) = "B" /\ IsaTaken(t.ins.op, First(t), Second(t)))
                     THEN Wrap(t.pc + Value(t.ins.imm))
                     ELSE IF t.ins.op = "JALR" THEN 2 * (Wrap(First(t) + Value(t.ins.imm)) \div 2) ELSE Behind(t)]}
<1> DEFINE n == t.ins
           f == FormatOf(n)
           imm == Value(n.imm)
           a == t.reg[n.rs1]
           b == IF f \in {"R", "S", "B"} THEN t.reg[n.rs2] ELSE imm
           addr == Wrap(a + imm)
           access == IF n.op \in DOMAIN IsaBytes THEN addr .. addr + IsaBytes[n.op] - 1 ELSE {}
           Put64(value) == [t.reg EXCEPT ![n.rd] = IF n.rd = 0 THEN 0 ELSE value]
           taken == IsaTaken(n.op, a, b)
<1>1. Begin(t).reg = t.reg /\ Begin(t).mem = Contents /\ Begin(t).pc = t.pc
  BY DEF Begin
<1>2. ManualOf(t) =
        IF ~ access \subseteq Mapped THEN {}
        ELSE {[reg |-> CASE f \in {"S", "B"} \/ n.op \in {"ECALL", "FENCE"} -> t.reg
                         [] access # {} /\ f = "I" -> Put64(IsaLoaded(n.op, Contents, addr))
                         [] OTHER -> Put64(IsaResult(n.op, a, b, imm, t.pc)),
               mem |-> IF f = "S"
                       THEN [x \in Mapped |-> IF x \in access THEN (b \div Two[ByteWidth * (x - addr)]) % ByteMod
                                              ELSE Contents[x]]
                       ELSE Contents,
               pc  |-> CASE n.op = "JAL" \/ (f = "B" /\ taken) -> Wrap(t.pc + imm)
                         [] n.op = "JALR" -> 2 * (addr \div 2)
                         [] OTHER           -> Wrap(t.pc + 4)]}
  BY <1>1, ZenonT(60) DEF ManualOf, IsaStep
<1>3. access = {}
  OBVIOUS
<1>4. Result(t) = IsaResult(n.op, a, b, imm, t.pc) /\ First(t) = a /\ Second(t) = b
  BY DEF Result, First, Second
<1>5. f # "S" /\ (f = "B" => n.op # "JALR")
  <2>1. n.op \in Ops
    BY TestIs
  <2>2. n.op = "JALR" => Encoding(n.op)[1] = "I"
    BY EncodingIs DEF OTHERS
  <2> QED BY <2>2 DEF FormatOf
<1> DEFINE nop == n.op
<1> HIDE DEF f, imm, a, b, addr, access, taken, nop
<1>6. ManualOf(t) =
        {[reg |-> IF f = "B" \/ nop \in {"ECALL", "FENCE"} THEN t.reg ELSE Put64(IsaResult(nop, a, b, imm, t.pc)),
          mem |-> Contents,
          pc  |-> IF nop = "JAL" \/ (f = "B" /\ taken) THEN Wrap(t.pc + imm)
                  ELSE IF nop = "JALR" THEN 2 * (addr \div 2) ELSE Wrap(t.pc + 4)]}
  <2>1. (CASE f \in {"S", "B"} \/ nop \in {"ECALL", "FENCE"} -> t.reg
           [] access # {} /\ f = "I" -> Put64(IsaLoaded(nop, Contents, addr))
           [] OTHER -> Put64(IsaResult(nop, a, b, imm, t.pc))) =
        IF f = "B" \/ nop \in {"ECALL", "FENCE"} THEN t.reg ELSE Put64(IsaResult(nop, a, b, imm, t.pc))
    BY <1>3, <1>5
  <2>2. (CASE nop = "JAL" \/ (f = "B" /\ taken) -> Wrap(t.pc + imm)
           [] nop = "JALR" -> 2 * (addr \div 2)
           [] OTHER           -> Wrap(t.pc + 4)) =
        IF nop = "JAL" \/ (f = "B" /\ taken) THEN Wrap(t.pc + imm)
        ELSE IF nop = "JALR" THEN 2 * (addr \div 2) ELSE Wrap(t.pc + 4)
    BY <1>5 DEF nop
  <2>3. access \subseteq Mapped
    BY <1>3
  <2> QED BY <1>2, <1>5, <2>1, <2>2, <2>3, Zenon DEF nop
<1> QED BY <1>4, <1>6, Zenon DEF Behind, f, imm, a, b, addr, taken, nop

\* The manual's step of an instruction that only computes.
LEMMA ManualPlain ==
  ASSUME NEW t \in Tests, t.ins.op \notin DOMAIN IsaBytes, t.ins.op \notin {"ECALL", "FENCE", "JAL", "JALR"},
         FormatOf(t.ins) \notin {"S", "B"}
  PROVE  ManualOf(t) =
           {[reg |-> [t.reg EXCEPT ![t.ins.rd] = IF t.ins.rd = 0 THEN 0 ELSE Result(t)],
             mem |-> Contents, pc |-> Behind(t)]}
BY ManualNoAccess

\* Two values of a register make the same registers when they are the same or x0's.
LEMMA Overwrites ==
  ASSUME NEW r \in [Reg -> Double], r[0] = 0, NEW d \in Reg, NEW v, NEW w
  PROVE  ([r EXCEPT ![d] = IF d = 0 THEN 0 ELSE v] = [r EXCEPT ![d] = IF d = 0 THEN 0 ELSE w]) <=> d = 0 \/ v = w
<1>1. ASSUME [r EXCEPT ![d] = IF d = 0 THEN 0 ELSE v] = [r EXCEPT ![d] = IF d = 0 THEN 0 ELSE w], d # 0
      PROVE  v = w
  <2>1. [r EXCEPT ![d] = IF d = 0 THEN 0 ELSE v][d] = v /\ [r EXCEPT ![d] = IF d = 0 THEN 0 ELSE w][d] = w
    BY <1>1
  <2> QED BY <1>1, <2>1
<1> QED BY <1>1

\* The end of the test t under the strategy s.
At(t, s) ==
  /\ t \in Tests /\ s \in Strategies /\ test = t /\ before = Begin(t)
  /\ Path(t, s, reg, mem, pc, latch, stage)
  /\ Ended

\* The names of the comparison stand for the test.
LEMMA Names ==
  ASSUME NEW t, NEW s, At(t, s)
  PROVE  /\ ins = t.ins /\ A = First(t) /\ B = t.reg[t.ins.rs2] /\ Addr = Wrap(First(t) + Value(t.ins.imm))
         /\ Manual = ManualOf(t) /\ before.reg = t.reg
BY DEF At, ins, A, B, Addr, Manual, ManualOf, First, Begin

\* A test ends in one of three ways.
LEMMA Ends ==
  ASSUME NEW t, NEW s, At(t, s)
  PROVE  \/ stage = "done" /\ AtEnd(t, s, reg, mem, pc)
         \/ stage = "exit" /\ Exited(t, s, reg, mem, pc)
         \/ stage = "crash" /\ Crashed(t, s, reg, mem, pc)
BY DEF At, Path, Ended

\* An instruction without a memory access gets to the end unless ID or EX stop it.
LEMMA Stops ==
  ASSUME NEW t, NEW s, At(t, s), Issued(t, s).type \notin Loads \cup Stores
  PROVE  LET x == Issued(t, s) IN
         /\ Goes(x) /\ x.type # "UNKNOWN" =>
              stage = "done" /\ reg = Left(x, t.reg, Computed(x)) /\ mem = Contents /\ pc = PcAfter(t, s)
         /\ ~ Goes(x) => stage \in {"exit", "crash"}
<1> DEFINE x == Issued(t, s)
<1>1. CASE stage = "done"
  <2>1. AtEnd(t, s, reg, mem, pc)
    BY <1>1, Ends
  <2>2. PICK v : Accessed(x, mem, v) /\ reg = Left(x, t.reg, v)
    BY <2>1 DEF AtEnd
  <2>3. mem = Contents /\ v = Computed(x)
    BY <2>2 DEF Accessed
  <2> QED BY <1>1, <2>1, <2>2, <2>3 DEF AtEnd
<1>2. CASE stage = "exit"
  <2>1. Exited(t, s, reg, mem, pc)
    BY <1>2, Ends
  <2>2. ~ Goes(x)
    BY <2>1 DEF Exited, Goes
  <2> QED BY <1>2, <2>2
<1>3. CASE stage = "crash"
  <2>1. Crashed(t, s, reg, mem, pc)
    BY <1>3, Ends
  <2>2. ~ Goes(x) \/ x.type = "UNKNOWN"
    BY <2>1 DEF Crashed, Goes
  <2> QED BY <1>3, <2>2
<1> QED BY <1>1, <1>2, <1>3, Ends

\* An instruction that only computes: it does what the manual says exactly when
\* what it leaves in its register is what the manual has there.
Plain(t, s) ==
  /\ t.ins.op \notin DOMAIN IsaBytes \cup DOMAIN BRANCH \cup {"ECALL", "FENCE", "JAL", "JALR"}
  /\ Issued(t, s).type \notin Loads \cup Stores \cup Branches \cup {"EXIT", "UNKNOWN", "ECALL", "JAL", "JALR"}
  /\ Issued(t, s).dest = t.ins.rd
\* What such an instruction leaves in its register.
Leftover(t, s) == IF Writes(Issued(t, s)) THEN Computed(Issued(t, s)) ELSE t.reg[t.ins.rd]

\* What the manual has for it.
LEMMA PlainManual ==
  ASSUME NEW t, NEW s, At(t, s), Plain(t, s)
  PROVE  Manual = {[reg |-> [t.reg EXCEPT ![t.ins.rd] = IF t.ins.rd = 0 THEN 0 ELSE Result(t)],
                    mem |-> Contents, pc |-> Behind(t)]}
<1>1. t \in Tests /\ t.ins.op \in Ops
  BY TestIs DEF At
<1>2. FormatOf(t.ins) \notin {"S", "B"}
  BY <1>1, BytesAre, Groups, FormatsAre DEF Plain, FormatOf
<1> QED BY <1>1, <1>2, Names, ManualPlain DEF Plain

\* When it leaves another value there.
LEMMA PlainLeaves ==
  ASSUME NEW t, NEW s, At(t, s), Plain(t, s), NEW v
  PROVE  Leaves(v) <=> t.ins.rd # 0 /\ Result(t) # v
<1>1. t \in Tests
  BY DEF At
<1>2. t.reg \in [Reg -> Double] /\ t.ins.rd \in Reg
  BY <1>1, TestIs
<1>3. ins = t.ins
  BY Names
<1> DEFINE m == [reg |-> [t.reg EXCEPT ![t.ins.rd] = IF t.ins.rd = 0 THEN 0 ELSE Result(t)],
                 mem |-> Contents, pc |-> Behind(t)]
<1>4. Manual = {m}
  BY PlainManual
<1>5. m.reg[t.ins.rd] = IF t.ins.rd = 0 THEN 0 ELSE Result(t)
  BY <1>2
<1> HIDE DEF m
<1> QED BY <1>3, <1>4, <1>5 DEF Leaves

\* And when it does what the manual says.
LEMMA PlainConforms ==
  ASSUME NEW t, NEW s, At(t, s), Plain(t, s), ~ Traps(Issued(t, s))
  PROVE  Conforms <=> t.ins.rd = 0 \/ Leftover(t, s) = Result(t)
<1> DEFINE x == Issued(t, s)
           n == t.ins
<1>1. t \in Tests
  BY DEF At
<1>2. t.reg \in [Reg -> Double] /\ n.rd \in Reg /\ t.reg[0] = 0
  BY <1>1, TestIs
<1>3. Goes(x) /\ x.type # "UNKNOWN" /\ x.type \notin Loads \cup Stores
  BY DEF Plain, Goes, Exits
<1>4. stage = "done" /\ reg = Left(x, t.reg, Computed(x)) /\ mem = Contents /\ pc = PcAfter(t, s)
  BY <1>3, Stops
<1>5. pc = Behind(t)
  <2>1. ~ IsBranch(t)
    BY <1>1, NotBranch DEF Plain
  <2>2. FetchPc(t, s) = Behind(t)
    BY <2>1 DEF FetchPc, Guess
  <2> QED BY <1>4, <2>2 DEF PcAfter, Plain
<1>6. reg = [t.reg EXCEPT ![n.rd] = IF n.rd = 0 THEN 0 ELSE Leftover(t, s)]
  <2>1. x.dest = n.rd
    BY DEF Plain
  <2> HIDE DEF x, n
  <2>2. CASE Writes(x) /\ n.rd # 0
    BY <1>4, <2>1, <2>2 DEF Left, Leftover, x, n
  <2>3. CASE ~ Writes(x) /\ n.rd # 0
    <3>1. reg = t.reg
      BY <1>4, <2>1, <2>3 DEF Left
    <3>2. Leftover(t, s) = t.reg[n.rd]
      BY <2>3 DEF Leftover, x, n
    <3> QED BY <1>2, <2>3, <3>1, <3>2
  <2>4. CASE n.rd = 0
    <3>1. reg = t.reg
      BY <1>4, <2>1, <2>4 DEF Left
    <3> QED BY <1>2, <2>4, <3>1
  <2> QED BY <2>2, <2>3, <2>4
<1>7. Manual = {[reg |-> [t.reg EXCEPT ![n.rd] = IF n.rd = 0 THEN 0 ELSE Result(t)],
                 mem |-> Contents, pc |-> Behind(t)]}
  BY PlainManual
<1>8. Conforms <=> Manual = {[reg |-> reg, mem |-> mem, pc |-> pc]}
  BY <1>4 DEF Conforms
<1> DEFINE R == [t.reg EXCEPT ![n.rd] = IF n.rd = 0 THEN 0 ELSE Result(t)]
           L == [t.reg EXCEPT ![n.rd] = IF n.rd = 0 THEN 0 ELSE Leftover(t, s)]
<1>9. (R = L) <=> n.rd = 0 \/ Leftover(t, s) = Result(t)
  BY <1>2, Overwrites
<1> HIDE DEF R, L, n
<1>10. Manual = {[reg |-> R, mem |-> Contents, pc |-> Behind(t)]} /\ reg = L
  BY <1>6, <1>7 DEF R, L, n
<1>11. ([reg |-> R, mem |-> Contents, pc |-> Behind(t)] = [reg |-> L, mem |-> Contents, pc |-> Behind(t)]) <=> R = L
  OBVIOUS
<1>12. Conforms <=> R = L
  BY <1>4, <1>5, <1>8, <1>10, <1>11
<1> QED BY <1>9, <1>12 DEF n

\* Most operations are the manual's, some up to how they cut their operands.
LEMMA SameResult ==
  ASSUME NEW x, x.valA \in Double, x.valB \in Double, NEW imm, NEW at,
         x.type \in {"ADD", "ADDI", "SUB", "MUL", "SLT", "SLTI", "SLTIU", "XOR", "XORI", "OR", "ORI", "AND", "ANDI",
                     "SLL", "SLLI", "SRL", "SRLI", "SRA", "SRAI"}
  PROVE  Computed(x) = IsaResult(x.type, x.valA, x.valB, imm, at)
<1> DEFINE a == x.valA
           b == x.valB
           t == x.type
           v == Computed(x)
           w == IsaResult(t, a, b, imm, at)
<1>1. CASE t \in {"ADD", "ADDI"}
  <2>1. v = Wrap(a + b)
    BY <1>1 DEF Computed, Branches, Loads, Stores
  <2>2. w = Wrap(a + b)
    BY <1>1 DEF IsaResult
  <2> QED BY <2>1, <2>2
<1>2. CASE t \in {"SUB", "MUL"}
  <2>1. v = IF t = "SUB" THEN Wrap(a - b) ELSE Wrap(Signed64(a) * Signed64(b))
    BY <1>2 DEF Computed, Branches, Loads, Stores
  <2>2. w = IF t = "SUB" THEN Wrap(a - b) ELSE Wrap(Signed64(a) * Signed64(b))
    BY <1>2 DEF IsaResult
  <2> QED BY <2>1, <2>2
<1>3. CASE t \in {"SLT", "SLTI", "SLTIU"}
  <2>1. v = IF t = "SLTIU" THEN Truth(a < b) ELSE Truth(Signed64(a) < Signed64(b))
    BY <1>3 DEF Computed, Branches, Loads, Stores
  <2>2. w = IF t = "SLTIU" THEN Truth(a < b) ELSE Truth(Signed64(a) < Signed64(b))
    BY <1>3 DEF IsaResult
  <2> QED BY <2>1, <2>2
<1>4. CASE t \in {"XOR", "XORI"}
  <2>1. v = Unsigned((Bits(a) \ Bits(b)) \cup (Bits(b) \ Bits(a)), XLen)
    BY <1>4 DEF Computed, Branches, Loads, Stores
  <2>2. w = Unsigned({i \in 0 .. XLen - 1 : (i \in Bits(a)) # (i \in Bits(b))}, XLen)
    BY <1>4 DEF IsaResult
  <2>3. (Bits(a) \ Bits(b)) \cup (Bits(b) \ Bits(a)) = {i \in 0 .. XLen - 1 : (i \in Bits(a)) # (i \in Bits(b))}
    BY DEF Bits
  <2> QED BY <2>1, <2>2, <2>3
<1>5. CASE t \in {"OR", "ORI"}
  <2>1. v = Unsigned(Bits(a) \cup Bits(b), XLen)
    BY <1>5 DEF Computed, Branches, Loads, Stores
  <2>2. w = Unsigned({i \in 0 .. XLen - 1 : i \in Bits(a) \/ i \in Bits(b)}, XLen)
    BY <1>5 DEF IsaResult
  <2>3. Bits(a) \cup Bits(b) = {i \in 0 .. XLen - 1 : i \in Bits(a) \/ i \in Bits(b)}
    BY DEF Bits
  <2> QED BY <2>1, <2>2, <2>3
<1>6. CASE t \in {"AND", "ANDI"}
  <2>1. v = Unsigned(Bits(a) \cap Bits(b), XLen)
    BY <1>6 DEF Computed, Branches, Loads, Stores
  <2>2. w = Unsigned({i \in 0 .. XLen - 1 : i \in Bits(a) /\ i \in Bits(b)}, XLen)
    BY <1>6 DEF IsaResult
  <2>3. Bits(a) \cap Bits(b) = {i \in 0 .. XLen - 1 : i \in Bits(a) /\ i \in Bits(b)}
    BY DEF Bits
  <2> QED BY <2>1, <2>2, <2>3
<1>7. CASE t \in {"SLL", "SLLI"}
  <2>1. v = Wrap(a * Two[b % XLen])
    BY <1>7 DEF Computed, Branches, Loads, Stores
  <2>2. w = Wrap(a * Two[b % XLen])
    BY <1>7 DEF IsaResult
  <2> QED BY <2>1, <2>2
<1>8. CASE t \in {"SRL", "SRLI", "SRA", "SRAI"}
  <2>1. v = RightShift(t, a, b)
    BY <1>8 DEF Computed, Branches, Loads, Stores
  <2>2. RightShift(t, a, b) = IF t \in {"SRL", "SRLI"} THEN a \div Two[b % XLen]
                              ELSE Wrap(Signed64(a) \div Two[b % XLen])
    BY <1>8 DEF RightShift
  <2>3. w = IF t \in {"SRL", "SRLI"} THEN a \div Two[b % XLen] ELSE Wrap(Signed64(a) \div Two[b % XLen])
    BY <1>8 DEF IsaResult
  <2> QED BY <2>1, <2>2, <2>3
<1> QED BY <1>1, <1>2, <1>3, <1>4, <1>5, <1>6, <1>7, <1>8

\* The operations on words.
LEMMA WordResult ==
  ASSUME NEW x, x.valA \in Double, x.valB \in Double, NEW b \in Double, NEW imm, NEW at,
         x.type \in {"ADDW", "ADDIW", "SUBW", "SLLIW", "SRAW", "SRAIW"},
         x.type \in {"ADDW", "ADDIW", "SUBW", "SLLIW"} => x.valB = b,
         x.valB % WordLen = b % WordLen, x.type = "SLLIW" => b < WordLen
  PROVE  Computed(x) = IsaResult(x.type, x.valA, b, imm, at)
<1> DEFINE a == x.valA
           c == x.valB
           t == x.type
           v == Computed(x)
           w == IsaResult(t, a, b, imm, at)
<1>1. a \in Int /\ b \in Int /\ c \in Int /\ b \in Nat /\ c \in Nat
  BY DEF Double
<1>2. CASE t \in {"ADDW", "ADDIW"}
  <2>1. v = WordSum(t, a, b)
    BY <1>2 DEF Computed, Branches, Loads, Stores
  <2>2. WordSum(t, a, b) = Wrap(Signed32(Signed32(a) + Signed32(b)))
    BY <1>2 DEF WordSum
  <2>3. w = SignExtend(a + b, WordLen)
    BY <1>2 DEF IsaResult
  <2>4. Wrap(Signed32(Signed32(a) + Signed32(b))) = SignExtend(a + b, WordLen)
    BY <1>1, WordSums
  <2> QED BY <2>1, <2>2, <2>3, <2>4
<1>3. CASE t = "SUBW"
  <2>1. v = WordSum(t, a, b)
    BY <1>3 DEF Computed, Branches, Loads, Stores
  <2>2. WordSum(t, a, b) = Wrap(Signed32(Signed32(a) - Signed32(b)))
    BY <1>3 DEF WordSum
  <2>3. w = SignExtend(Modulus + a - b, WordLen)
    BY <1>3 DEF IsaResult
  <2>4. Wrap(Signed32(Signed32(a) - Signed32(b))) = SignExtend(Modulus + a - b, WordLen)
    BY <1>1, WordSums
  <2> QED BY <2>1, <2>2, <2>3, <2>4
<1>4. CASE t = "SLLIW"
  <2>1. v = Wrap(Signed32(a * Two[b % XLen]))
    BY <1>4 DEF Computed, Branches, Loads, Stores
  <2>2. w = SignExtend(Low(a) * Two[b % WordLen], WordLen)
    BY <1>4 DEF IsaResult
  <2>3. b % XLen = b /\ b % WordLen = b
    <3>1. XLen \in Nat \ {0} /\ WordLen \in Nat \ {0} /\ WordLen <= XLen
      BY Widths
    <3>2. b \in 0 .. WordLen - 1 /\ b \in 0 .. XLen - 1
      BY <1>1, <1>4, <3>1
    <3> QED BY <3>1, <3>2
  <2>4. Two[b] \in Int
    BY <1>1, TwoIs
  <2>5. Wrap(Signed32(a * Two[b])) = SignExtend(Low(a) * Two[b], WordLen)
    BY <1>1, <2>4, WordShiftLeft
  <2> QED BY <2>1, <2>2, <2>3, <2>5
<1>5. CASE t \in {"SRAW", "SRAIW"}
  <2>1. v = RightShift(t, a, c)
    BY <1>5 DEF Computed, Branches, Loads, Stores
  <2>2. RightShift(t, a, c) = Wrap(Signed32(a) \div Two[c % WordLen])
    BY <1>5 DEF RightShift
  <2>3. w = SignExtend(SignExtend(a, WordLen) \div Two[b % WordLen], WordLen)
    BY <1>5 DEF IsaResult
  <2> DEFINE k == b % WordLen
  <2>4. k \in 0 .. WordLen - 1
    BY <1>1, Widths, DivRem
  <2>5. c % WordLen = k
    OBVIOUS
  <2> HIDE DEF k
  <2>6. Wrap(Signed32(a) \div Two[k]) = SignExtend(SignExtend(a, WordLen) \div Two[k], WordLen)
    BY <1>1, <2>4, WordShiftRight
  <2> QED BY <2>1, <2>2, <2>3, <2>5, <2>6 DEF k
<1> QED BY <1>2, <1>3, <1>4, <1>5

\* The operations the list says nothing of.
LEMMA NoDeviation ==
  ASSUME ins.op \notin {"SLTU", "FENCE", "LWU", "SLLW", "MULH", "REM", "DIV", "SRLW", "SRLIW"} \cup DOMAIN IsaBytes
  PROVE  ~ Deviates
<1>1. {"LB", "LH", "LW"} \subseteq DOMAIN IsaBytes
  BY DEF IsaBytes
<1> QED BY <1>1 DEF Deviates

\* An instruction that computes what the manual says.
LEMMA PlainSame ==
  ASSUME NEW t, NEW s, At(t, s), Plain(t, s), ~ Traps(Issued(t, s)), Writes(Issued(t, s)),
         Computed(Issued(t, s)) = Result(t),
         t.ins.op \notin {"SLTU", "FENCE", "LWU", "SLLW", "MULH", "REM", "DIV", "SRLW", "SRLIW"}
  PROVE  Conforms <=> ~ Deviates
<1>1. Conforms
  BY PlainConforms DEF Leftover
<1>2. ins = t.ins /\ t.ins.op \notin DOMAIN IsaBytes
  BY Names DEF Plain
<1> QED BY <1>1, <1>2, NoDeviation

\* An instruction ID ends the process with.
LEMMA NotGoing ==
  ASSUME NEW t, NEW s, At(t, s), Issued(t, s).type \notin Loads \cup Stores, ~ Goes(Issued(t, s))
  PROVE  Conforms <=> Manual = {}
BY Stops DEF Conforms

\* What EX gets of the operands ID made.
LEMMA IssuedAs ==
  ASSUME NEW t, NEW s, NEW type, NEW dest, NEW reg1, NEW reg2, NEW valA, NEW valB, NEW offset,
         Decode(t.word, t.reg) = Operands(type, dest, reg1, reg2, valA, valB, offset)
  PROVE  LET x == Issued(t, s) IN
         x.type = type /\ x.dest = dest /\ x.valA = valA /\ x.valB = valB /\ x.offset = offset /\ x.pc = t.pc
<1>1. LET d == Operands(type, dest, reg1, reg2, valA, valB, offset) IN
      d.type = type /\ d.dest = dest /\ d.valA = valA /\ d.valB = valB /\ d.offset = offset
  BY OperandsAre
<1> QED BY <1>1, IssuedIs DEF Decoding

\* The operations on two registers: SLTU, MULH, REM and DIV may differ.
LEMMA ConformsOP ==
  ASSUME NEW t, NEW s, At(t, s), t.ins.op \in DOMAIN OP
  PROVE  Conforms <=> ~ Deviates
<1> DEFINE n == t.ins
           x == Issued(t, s)
           op == n.op
<1>1. t \in Tests
  BY DEF At
<1>2. WellFormed(n) /\ t.word = Encode(n) /\ First(t) \in Double /\ t.reg[n.rs2] \in Double
  BY <1>1, TestIs DEF First
<1>3. /\ FormatOf(n) = "R"
      /\ Decode(t.word, t.reg) = Operands(IF op = "SLTU" THEN "EXIT" ELSE op, n.rd, n.rs1, n.rs2,
                                          t.reg[n.rs1], t.reg[n.rs2], 0)
  BY <1>2, DecodeOP
<1>4. /\ x.type = (IF op = "SLTU" THEN "EXIT" ELSE op) /\ x.dest = n.rd
      /\ x.valA = First(t) /\ x.valB = Second(t)
  BY <1>3, IssuedAs DEF First, Second
<1>5. Second(t) \in Double /\ Second(t) = B /\ First(t) = A /\ ins = n
  BY <1>2, <1>3, Names DEF Second
<1>6. op \in {"ADD", "SUB", "SLL", "SLT", "SLTU", "XOR", "SRL", "SRA", "OR", "AND", "MUL", "MULH", "DIV", "REM"}
  BY DEF OP
<1> HIDE DEF x, op
<1>7. op \notin DOMAIN IsaBytes \cup DOMAIN BRANCH \cup {"ECALL", "FENCE", "JAL", "JALR"}
  BY <1>6 DEF IsaBytes, BRANCH
<1>8. CASE op # "SLTU"
  <2>1. x.type = op
    BY <1>4, <1>8
  <2>2. x.type \notin Loads \cup Stores \cup Branches \cup {"EXIT", "UNKNOWN", "ECALL", "JAL", "JALR"}
    BY <1>6, <2>1 DEF Loads, Stores, Branches
  <2>3. Plain(t, s)
    BY <1>4, <1>7, <2>2 DEF Plain, x, op
  <2>4. CASE op \in {"ADD", "SUB", "SLL", "SLT", "XOR", "SRL", "SRA", "OR", "AND", "MUL"}
    <3>1. Computed(x) = Result(t)
      <4>1. Computed(x) = IsaResult(x.type, x.valA, x.valB, Value(n.imm), t.pc)
        BY <1>2, <1>4, <1>5, <2>1, <2>4, SameResult
      <4> QED BY <1>4, <2>1, <4>1 DEF Result, op
    <3>2. Writes(x) /\ ~ Traps(x)
      BY <2>1, <2>4 DEF Writes, Traps, Branches, Stores
    <3>3. op \notin {"SLTU", "FENCE", "LWU", "SLLW", "MULH", "REM", "DIV", "SRLW", "SRLIW"}
      BY <2>4
    <3> QED BY <2>3, <3>1, <3>2, <3>3, PlainSame DEF x, op
  <2>5. CASE op \in {"MULH", "REM"}
    <3>1. ~ Writes(x) /\ ~ Traps(x)
      BY <2>1, <2>5 DEF Writes, Traps
    <3>2. Conforms <=> n.rd = 0 \/ t.reg[n.rd] = Result(t)
      BY <2>3, <3>1, PlainConforms DEF Leftover, x
    <3>3. Leaves(t.reg[n.rd]) <=> n.rd # 0 /\ Result(t) # t.reg[n.rd]
      BY <2>3, PlainLeaves
    <3>4. Deviates <=> Leaves(t.reg[n.rd])
      <4>1. ins.op \in {"MULH", "REM"} /\ before.reg[ins.rd] = t.reg[n.rd] /\ ins.op \notin DOMAIN IsaBytes
        BY <1>5, <1>7, <2>5, Names DEF op
      <4>2. ins.op \notin {"SLTU", "FENCE", "LWU", "SLLW", "DIV", "SRLW", "SRLIW", "LB", "LH", "LW"}
        BY <4>1
      <4> QED BY <4>1, <4>2, Zenon DEF Deviates
    <3> QED BY <3>2, <3>3, <3>4
  <2>6. CASE op = "DIV"
    <3>1. Writes(x)
      BY <2>1, <2>6 DEF Writes, Branches, Stores
    <3>2. Deviates <=> B = 0 \/ (A = Modulus \div 2 /\ B = Modulus - 1)
      <4>1. ins.op = "DIV" /\ ins.op \notin DOMAIN IsaBytes
        BY <1>5, <1>7, <2>6 DEF op
      <4>2. ins.op \notin {"SLTU", "FENCE", "LWU", "SLLW", "MULH", "REM", "SRLW", "SRLIW", "LB", "LH", "LW"}
        BY <4>1
      <4> QED BY <4>1, <4>2, Zenon DEF Deviates
    <3>3. Traps(x) <=> B = 0 \/ (A = Modulus \div 2 /\ B = Modulus - 1)
      <4> DEFINE h == Two[XLen - 1]
      <4>1. h \in Nat \ {0} /\ Modulus = 2 * h /\ Two[XLen] = Modulus /\ Modulus \in Nat
        BY Widths DEF Modulus
      <4>2. A \in 0 .. Modulus - 1 /\ B \in 0 .. Modulus - 1
        BY <1>2, <1>5 DEF Double
      <4>3. Traps(x) <=> B = 0 \/ (Signed64(A) = -h /\ Signed64(B) = -1)
        BY <1>4, <1>5, <2>1, <2>6 DEF Traps
      <4> HIDE DEF h
      <4>4. Modulus \div 2 = h
        BY <4>1
      <4>5. Signed64(A) = -h <=> A = h
        BY <4>1, <4>2 DEF Signed64, Signed, h
      <4>6. Signed64(B) = -1 <=> B = Modulus - 1
        BY <4>1, <4>2 DEF Signed64, Signed, h
      <4> QED BY <4>3, <4>4, <4>5, <4>6
    <3>4. CASE Traps(x)
      <4>1. Conforms <=> Manual = {}
        BY <2>2, <3>4, NotGoing DEF Goes, x
      <4>2. Manual # {}
        BY <2>3, PlainManual
      <4> QED BY <3>2, <3>3, <3>4, <4>1, <4>2
    <3>5. CASE ~ Traps(x)
      <4>1. B # 0
        BY <3>3, <3>5
      <4>2. Signed64(A) \in Int /\ Signed64(B) \in Int /\ Signed64(B) # 0
        <5>1. A \in Int /\ B \in Int
          BY <1>2, <1>5 DEF Double
        <5>2. B \in 0 .. Two[XLen] - 1 /\ Two[XLen] \in Nat
          BY <1>2, <1>5, Widths DEF Double, Modulus
        <5>3. Signed64(B) # 0
          BY <4>1, <5>2 DEF Signed64, Signed
        <5> QED BY <5>1, <5>3, SignedIn
      <4>3. Computed(x) = Wrap(Quotient(Signed64(A), Signed64(B)))
        BY <1>4, <1>5, <2>1, <2>6 DEF Computed, Branches, Loads, Stores
      <4>4. Result(t) = Wrap(Division(Signed64(A), Signed64(B)))
        BY <1>5, <2>6 DEF Result, IsaResult, op
      <4>5. Computed(x) = Result(t)
        BY <4>2, <4>3, <4>4, Divisions
      <4>6. Conforms
        BY <2>3, <3>1, <3>5, <4>5, PlainConforms DEF Leftover, x
      <4> QED BY <3>2, <3>3, <3>5, <4>6
    <3> QED BY <3>4, <3>5
  <2> QED BY <1>6, <1>8, <2>4, <2>5, <2>6
<1>9. CASE op = "SLTU"
  <2>1. x.type = "EXIT"
    BY <1>4, <1>9
  <2>2. ~ Goes(x) /\ x.type \notin Loads \cup Stores
    BY <2>1 DEF Goes, Loads, Stores
  <2>3. Conforms <=> Manual = {}
    BY <2>2, NotGoing DEF x
  <2>4. Manual # {}
    <3>1. Manual = ManualOf(t)
      BY Names
    <3>2. op \notin DOMAIN IsaBytes /\ op \notin {"ECALL", "FENCE", "JAL", "JALR"} /\ FormatOf(n) \notin {"S", "B"}
      BY <1>3, <1>7
    <3>3. \E m : ManualOf(t) = {m}
      BY <1>1, <3>2, ManualPlain DEF op
    <3> QED BY <3>1, <3>3
  <2>5. Deviates
    BY <1>5, <1>9 DEF Deviates, op
  <2> QED BY <2>3, <2>4, <2>5
<1> QED BY <1>8, <1>9

\* A shift that loses the sign a word would have.
LEMMA ShiftedOnly ==
  ASSUME NEW t, NEW s, At(t, s), Plain(t, s), Issued(t, s).type \in {"SRLW", "SRLIW"}, NEW c,
         Issued(t, s).valA = A, Issued(t, s).valB = c
  PROVE  Conforms <=> ~ Leaves(Shifted(c))
<1> DEFINE x == Issued(t, s)
<1>1. Computed(x) = Shifted(c)
  <2>1. Computed(x) = RightShift(x.type, x.valA, x.valB)
    BY DEF Computed, Branches, Loads, Stores
  <2>2. RightShift(x.type, x.valA, x.valB) = Low(x.valA) \div Two[x.valB % WordLen]
    BY DEF RightShift
  <2> QED BY <2>1, <2>2 DEF Shifted
<1>2. Writes(x) /\ ~ Traps(x)
  BY DEF Writes, Traps, Branches, Stores
<1>3. Conforms <=> t.ins.rd = 0 \/ Shifted(c) = Result(t)
  BY <1>1, <1>2, PlainConforms DEF Leftover
<1>4. Leaves(Shifted(c)) <=> t.ins.rd # 0 /\ Result(t) # Shifted(c)
  BY PlainLeaves
<1> QED BY <1>3, <1>4

\* The operations on two words: SLLW and SRLW may differ.
LEMMA ConformsOP_32 ==
  ASSUME NEW t, NEW s, At(t, s), t.ins.op \in DOMAIN OP_32, ~ Undefined
  PROVE  Conforms <=> ~ Deviates
<1> DEFINE n == t.ins
           x == Issued(t, s)
           op == n.op
<1>1. t \in Tests
  BY DEF At
<1>2. WellFormed(n) /\ t.word = Encode(n) /\ First(t) \in Double /\ t.reg[n.rs2] \in Double
  BY <1>1, TestIs DEF First
<1>3. FormatOf(n) = "R"
  BY <1>2, DecodeOP_32
<1>4. Decode(t.word, t.reg) = Operands(CASE op = "MULW" -> "UNKNOWN" [] op = "SLLW" -> "SRLW" [] OTHER -> op,
                                       n.rd, n.rs1, n.rs2, t.reg[n.rs1], t.reg[n.rs2], 0)
  BY <1>2, DecodeOP_32
<1>5. /\ x.type = (CASE op = "MULW" -> "UNKNOWN" [] op = "SLLW" -> "SRLW" [] OTHER -> op)
      /\ x.dest = n.rd /\ x.valA = First(t) /\ x.valB = Second(t)
  BY <1>3, <1>4, IssuedAs DEF First, Second
<1>6. Second(t) \in Double /\ Second(t) = B /\ First(t) = A /\ ins = n
  BY <1>2, <1>3, Names DEF Second
<1>7. op \in {"ADDW", "SUBW", "SLLW", "SRLW", "SRAW"}
  <2>1. op \in {"ADDW", "SUBW", "SLLW", "SRLW", "SRAW", "MULW"}
    BY DEF OP_32
  <2>2. op # "MULW"
    BY <1>6 DEF Undefined
  <2> QED BY <2>1, <2>2
<1> HIDE DEF x, op
<1>8. x.type = IF op = "SLLW" THEN "SRLW" ELSE op
  BY <1>5, <1>7
<1>9. op \notin DOMAIN IsaBytes \cup DOMAIN BRANCH \cup {"ECALL", "FENCE", "JAL", "JALR"}
  BY <1>7 DEF IsaBytes, BRANCH
<1>10. x.type \notin Loads \cup Stores \cup Branches \cup {"EXIT", "UNKNOWN", "ECALL", "JAL", "JALR"}
  BY <1>7, <1>8 DEF Loads, Stores, Branches
<1>11. Plain(t, s)
  BY <1>5, <1>9, <1>10 DEF Plain, x, op
<1>12. CASE op \in {"ADDW", "SUBW", "SRAW"}
  <2>1. x.type = op
    BY <1>8, <1>12
  <2>2. Computed(x) = Result(t)
    <3>1. Computed(x) = IsaResult(x.type, x.valA, Second(t), Value(n.imm), t.pc)
      BY <1>2, <1>5, <1>6, <1>12, <2>1, WordResult
    <3> QED BY <1>5, <2>1, <3>1 DEF Result, op
  <2>3. Writes(x) /\ ~ Traps(x)
    BY <1>12, <2>1 DEF Writes, Traps, Branches, Stores
  <2>4. op \notin {"SLTU", "FENCE", "LWU", "SLLW", "MULH", "REM", "DIV", "SRLW", "SRLIW"}
    BY <1>12
  <2> QED BY <1>11, <2>2, <2>3, <2>4, PlainSame DEF x, op
<1>13. CASE op \in {"SLLW", "SRLW"}
  <2>1. Conforms <=> ~ Leaves(Shifted(B))
    BY <1>5, <1>6, <1>8, <1>11, <1>13, ShiftedOnly DEF x
  <2>2. Deviates <=> Leaves(Shifted(B))
    <3>1. ins.op \in {"SLLW", "SRLW"} /\ ins.op \notin DOMAIN IsaBytes
      BY <1>6, <1>9, <1>13 DEF op
    <3>2. ins.op \notin {"SLTU", "FENCE", "LWU", "MULH", "REM", "DIV", "SRLIW", "LB", "LH", "LW"}
      BY <3>1
    <3>3. CASE ins.op = "SLLW"
      <4>1. ins.op # "SRLW"
        BY <3>3
      <4> QED BY <3>1, <3>2, <3>3, <4>1 DEF Deviates
    <3>4. CASE ins.op = "SRLW"
      <4>1. ins.op # "SLLW"
        BY <3>4
      <4> QED BY <3>1, <3>2, <3>4, <4>1 DEF Deviates
    <3> QED BY <3>1, <3>3, <3>4
  <2> QED BY <2>1, <2>2
<1> QED BY <1>7, <1>12, <1>13

\* The operations with an immediate: none differs.
LEMMA ConformsOP_IMM ==
  ASSUME NEW t, NEW s, At(t, s), t.ins.op \in DOMAIN OP_IMM \cup DOMAIN OP_SHIFT
  PROVE  Conforms <=> ~ Deviates
<1> DEFINE n == t.ins
           x == Issued(t, s)
           op == n.op
<1>1. t \in Tests
  BY DEF At
<1>2. WellFormed(n) /\ t.word = Encode(n) /\ t.word \subseteq Bit /\ First(t) \in Double
  BY <1>1, TestIs DEF First
<1>3. FormatOf(n) \in {"I", "S6"}
  BY <1>2, DecodeOP_IMM, DecodeOP_SHIFT
<1>4. Decode(t.word, t.reg) = Operands(op, n.rd, n.rs1, -1, t.reg[n.rs1], Value(n.imm), 0)
  BY <1>2, DecodeOP_IMM, DecodeOP_SHIFT
<1>5. Second(t) = Value(n.imm) /\ Second(t) \in Double
  BY <1>3, ValueIn DEF Second
<1>6. x.type = op /\ x.dest = n.rd /\ x.valA = First(t) /\ x.valB = Second(t)
  BY <1>4, <1>5, IssuedAs DEF First
<1>7. op \in {"ADDI", "SLTI", "SLTIU", "XORI", "ORI", "ANDI", "SLLI", "SRLI", "SRAI"}
  BY DEF OP_IMM, OP_SHIFT
<1> HIDE DEF x, op
<1>8. op \notin DOMAIN IsaBytes \cup DOMAIN BRANCH \cup {"ECALL", "FENCE", "JAL", "JALR"}
  BY <1>7 DEF IsaBytes, BRANCH
<1>9. x.type \notin Loads \cup Stores \cup Branches \cup {"EXIT", "UNKNOWN", "ECALL", "JAL", "JALR"}
  BY <1>6, <1>7 DEF Loads, Stores, Branches
<1>10. Plain(t, s)
  BY <1>6, <1>8, <1>9 DEF Plain, x, op
<1>11. Computed(x) = Result(t)
  <2>1. Computed(x) = IsaResult(x.type, x.valA, x.valB, Value(n.imm), t.pc)
    BY <1>2, <1>5, <1>6, <1>7, SameResult
  <2> QED BY <1>6, <2>1 DEF Result, op
<1>12. Writes(x) /\ ~ Traps(x)
  BY <1>6, <1>7 DEF Writes, Traps, Branches, Stores
<1>13. op \notin {"SLTU", "FENCE", "LWU", "SLLW", "MULH", "REM", "DIV", "SRLW", "SRLIW"}
  BY <1>7
<1> QED BY <1>10, <1>11, <1>12, <1>13, PlainSame DEF x, op

\* The shifts of words by an immediate: SRLIW may differ.
LEMMA ConformsOP_SHIFT_32 ==
  ASSUME NEW t, NEW s, At(t, s), t.ins.op \in DOMAIN OP_SHIFT_32
  PROVE  Conforms <=> ~ Deviates
<1> DEFINE n == t.ins
           x == Issued(t, s)
           op == n.op
<1>1. t \in Tests
  BY DEF At
<1>2. WellFormed(n) /\ t.word = Encode(n) /\ t.word \subseteq Bit /\ First(t) \in Double
  BY <1>1, TestIs DEF First
<1>3. FormatOf(n) = "S5"
  BY <1>2, DecodeOP_SHIFT_32
<1>4. Decode(t.word, t.reg) = Operands(op, n.rd, n.rs1, -1, t.reg[n.rs1],
                                       Value(n.imm \cup (IF op = "SRAIW" THEN {10} ELSE {})), 0)
  BY <1>2, DecodeOP_SHIFT_32
<1>5. n.imm \subseteq 0 .. 4 /\ Value(n.imm) < WordLen
  BY <1>2, <1>3 DEF WellFormed
<1>6. Second(t) = Value(n.imm) /\ Second(t) \in Double
  BY <1>3, ValueIn DEF Second
<1>7. /\ x.type = op /\ x.dest = n.rd /\ x.valA = First(t)
      /\ x.valB = Value(n.imm \cup (IF op = "SRAIW" THEN {10} ELSE {}))
  BY <1>4, IssuedAs DEF First
<1>8. op \in {"SLLIW", "SRLIW", "SRAIW"}
  BY DEF OP_SHIFT_32
<1>9. First(t) = A /\ ins = n
  BY Names
<1> HIDE DEF x, op
<1>10. x.valB \in Double /\ x.valB % WordLen = Second(t) % WordLen /\ (op # "SRAIW" => x.valB = Second(t))
  <2>1. CASE op = "SRAIW"
    BY <1>5, <1>6, <1>7, <2>1, CountOfSRAIW, ValueIn
  <2>2. CASE op # "SRAIW"
    <3>1. n.imm \cup {} = n.imm
      OBVIOUS
    <3> QED BY <1>6, <1>7, <2>2, <3>1
  <2> QED BY <2>1, <2>2
<1>11. op \notin DOMAIN IsaBytes \cup DOMAIN BRANCH \cup {"ECALL", "FENCE", "JAL", "JALR"}
  BY <1>8 DEF IsaBytes, BRANCH
<1>12. x.type \notin Loads \cup Stores \cup Branches \cup {"EXIT", "UNKNOWN", "ECALL", "JAL", "JALR"}
  BY <1>7, <1>8 DEF Loads, Stores, Branches
<1>13. Plain(t, s)
  BY <1>7, <1>11, <1>12 DEF Plain, x, op
<1>14. CASE op \in {"SLLIW", "SRAIW"}
  <2>1. Computed(x) = Result(t)
    <3>1. x.type \in {"ADDW", "ADDIW", "SUBW", "SLLIW"} => x.valB = Second(t)
      BY <1>7, <1>8, <1>10
    <3>2. x.type = "SLLIW" => Second(t) < WordLen
      BY <1>5, <1>6
    <3>3. x.valA \in Double /\ x.type \in {"ADDW", "ADDIW", "SUBW", "SLLIW", "SRAW", "SRAIW"}
      BY <1>2, <1>7, <1>14
    <3>4. Computed(x) = IsaResult(x.type, x.valA, Second(t), Value(n.imm), t.pc)
      BY <1>6, <1>10, <3>1, <3>2, <3>3, WordResult
    <3> QED BY <1>7, <3>4 DEF Result, op
  <2>2. Writes(x) /\ ~ Traps(x)
    BY <1>7, <1>14 DEF Writes, Traps, Branches, Stores
  <2>3. op \notin {"SLTU", "FENCE", "LWU", "SLLW", "MULH", "REM", "DIV", "SRLW", "SRLIW"}
    BY <1>14
  <2> QED BY <1>13, <2>1, <2>2, <2>3, PlainSame DEF x, op
<1>15. CASE op = "SRLIW"
  <2>1. x.valB = Value(n.imm) /\ x.valA = A /\ x.type \in {"SRLW", "SRLIW"}
    BY <1>6, <1>7, <1>9, <1>10, <1>15
  <2>2. Conforms <=> ~ Leaves(Shifted(Value(n.imm)))
    BY <1>13, <2>1, ShiftedOnly DEF x
  <2>3. Deviates <=> Leaves(Shifted(Value(n.imm)))
    <3>1. ins.op = "SRLIW" /\ ins.op \notin DOMAIN IsaBytes
      BY <1>9, <1>11, <1>15 DEF op
    <3>2. ins.op \notin {"SLTU", "FENCE", "LWU", "SLLW", "MULH", "REM", "DIV", "SRLW", "LB", "LH", "LW"}
      BY <3>1
    <3> QED BY <1>9, <3>1, <3>2 DEF Deviates
  <2> QED BY <2>2, <2>3
<1> QED BY <1>8, <1>14, <1>15

\* A value of a register is not cut.
LEMMA WrapSelf == ASSUME NEW x \in Double PROVE Wrap(x) = x
<1> DEFINE m == Modulus
<1>1. m \in Nat \ {0} /\ x \in 0 .. m - 1 /\ x \in Int /\ x = m * 0 + x
  BY Widths DEF Double
<1> HIDE DEF m
<1>2. x % m = x
  BY <1>1, DivIs
<1> QED BY <1>2 DEF Wrap, m

\* LUI, AUIPC and ADDIW: none differs.
LEMMA ConformsUpper ==
  ASSUME NEW t, NEW s, At(t, s), t.ins.op \in {"LUI", "AUIPC", "ADDIW"}
  PROVE  Conforms <=> ~ Deviates
<1> DEFINE n == t.ins
           x == Issued(t, s)
           op == n.op
           w == t.word
<1>1. t \in Tests
  BY DEF At
<1>2. WellFormed(n) /\ w = Encode(n) /\ w \subseteq Bit /\ First(t) \in Double /\ t.pc \in Double
  BY <1>1, TestIs DEF First
<1>3. op \in DOMAIN OTHERS
  BY DEF OTHERS
<1>4. FormatOf(n) = IF op = "ADDIW" THEN "I" ELSE "U"
  BY <1>2, <1>3, DecodeOTHERS DEF OTHERS
<1>5. Second(t) = Value(n.imm) /\ Second(t) \in Double
  BY <1>4, ValueIn DEF Second
<1>6. /\ op = "ADDIW" => x.type = op /\ x.dest = n.rd /\ x.valA = First(t) /\ x.valB = Second(t)
      /\ op # "ADDIW" => x.type = op /\ x.dest = n.rd /\ x.offset = Value(imm_u(w)) /\ x.pc = t.pc
  <2>1. op = "ADDIW" => Decode(w, t.reg) = Operands(op, n.rd, n.rs1, -1, t.reg[n.rs1], Value(n.imm), 0)
    BY <1>2, <1>3, DecodeOTHERS
  <2>2. op # "ADDIW" => Decode(w, t.reg) = Operands(op, n.rd, -1, -1, Value(imm_u(w)), 0, Value(imm_u(w)))
    BY <1>2, <1>3, DecodeOTHERS
  <2> QED BY <1>5, <2>1, <2>2, IssuedAs DEF First
<1>7. Computed(x) = Result(t)
  <2>1. CASE op = "ADDIW"
    <3>1. Computed(x) = IsaResult(x.type, x.valA, Second(t), Value(n.imm), t.pc)
      BY <1>2, <1>5, <1>6, <2>1, WordResult
    <3> QED BY <1>6, <2>1, <3>1 DEF Result
  <2>2. CASE op \in {"LUI", "AUIPC"}
    <3>1. IsImm(n.imm, 12, 32)
      BY <1>2, <1>4, <2>2 DEF WellFormed
    <3>2. /\ \A i \in Bit : i \in imm_u(w) <=> i + 12 \in n.imm \/ (i >= 20 /\ 31 \in n.imm)
          /\ imm_u(w) \subseteq Bit
      <4>1. FormatOf(n) = "U" /\ (FormatOf(n) \in {"S6", "S5"} => Encoding(n.op)[4] \in {0, 32})
        BY <1>4, <2>2
      <4> QED BY <1>2, <4>1, ImmsOf
    <3>3. PICK k \in Int : Value(imm_u(w)) * 4096 = Value(n.imm) + Modulus * k
      BY <3>1, <3>2, UpperValue
    <3> DEFINE u == Value(imm_u(w)) * 4096
               v == Value(n.imm)
    <3>4. u \in Int /\ v \in Int /\ t.pc \in Int /\ Modulus \in Int /\ v \in Double
      BY <1>2, ValueIn, Widths DEF Double
    <3>5. Computed(x) = IF op = "LUI" THEN Wrap(u) ELSE Wrap(t.pc + u)
      BY <1>6, <2>2 DEF Computed, Branches, Loads, Stores
    <3>6. Result(t) = IF op = "LUI" THEN v ELSE Wrap(t.pc + v)
      BY <2>2 DEF Result, IsaResult
    <3> HIDE DEF u, v
    <3>7. u = v + Modulus * k
      BY <3>3 DEF u, v
    <3>8. Wrap(u) = v
      BY <3>4, <3>7, WrapSame, WrapSelf
    <3>9. Wrap(t.pc + u) = Wrap(t.pc + v)
      <4> DEFINE y == t.pc + u
                 z == t.pc + v
      <4>1. y = z + Modulus * k /\ y \in Int /\ z \in Int
        BY <3>4, <3>7
      <4> HIDE DEF y, z
      <4>2. Wrap(y) = Wrap(z)
        BY <4>1, WrapSame
      <4> QED BY <4>2 DEF y, z
    <3> QED BY <3>5, <3>6, <3>8, <3>9
  <2> QED BY <2>1, <2>2
<1> HIDE DEF x, op
<1>8. x.type = op /\ x.dest = n.rd /\ op \in {"LUI", "AUIPC", "ADDIW"}
  BY <1>6 DEF op
<1>9. op \notin DOMAIN IsaBytes \cup DOMAIN BRANCH \cup {"ECALL", "FENCE", "JAL", "JALR"}
  BY <1>8 DEF IsaBytes, BRANCH
<1>10. x.type \notin Loads \cup Stores \cup Branches \cup {"EXIT", "UNKNOWN", "ECALL", "JAL", "JALR"}
  BY <1>8 DEF Loads, Stores, Branches
<1>11. Plain(t, s)
  BY <1>8, <1>9, <1>10 DEF Plain, x, op
<1>12. Writes(x) /\ ~ Traps(x)
  BY <1>8 DEF Writes, Traps, Branches, Stores
<1>13. op \notin {"SLTU", "FENCE", "LWU", "SLLW", "MULH", "REM", "DIV", "SRLW", "SRLIW"}
  BY <1>8
<1> QED BY <1>7, <1>11, <1>12, <1>13, PlainSame DEF x, op

\* The fetch goes on behind what is no branch.
LEMMA NoBranchPc ==
  ASSUME NEW t \in Tests, NEW s, t.ins.op \notin DOMAIN BRANCH
  PROVE  FetchPc(t, s) = Behind(t)
BY NotBranch DEF FetchPc, Guess

\* The jumps: none differs.
LEMMA ConformsJumps ==
  ASSUME NEW t, NEW s, At(t, s), t.ins.op \in {"JAL", "JALR"}
  PROVE  Conforms <=> ~ Deviates
<1> DEFINE n == t.ins
           x == Issued(t, s)
           op == n.op
           w == t.word
           to == IF op = "JAL" THEN Wrap(t.pc + Value(n.imm)) ELSE 2 * (Wrap(First(t) + Value(n.imm)) \div 2)
           R == [t.reg EXCEPT ![n.rd] = IF n.rd = 0 THEN 0 ELSE Wrap(t.pc + 4)]
<1>1. t \in Tests
  BY DEF At
<1>2. /\ WellFormed(n) /\ w = Encode(n) /\ w \subseteq Bit /\ n.rd \in Reg
      /\ t.reg \in [Reg -> Double] /\ t.reg[0] = 0
  BY <1>1, TestIs
<1>3. op \in DOMAIN OTHERS
  BY DEF OTHERS
<1>4. FormatOf(n) = IF op = "JAL" THEN "J" ELSE "I"
  BY <1>2, <1>3, DecodeOTHERS DEF OTHERS
<1>5. /\ x.type = op /\ x.dest = n.rd /\ x.pc = t.pc
      /\ op = "JAL" => x.valA = Value(n.imm)
      /\ op = "JALR" => x.valA = First(t) /\ x.valB = Value(n.imm)
  <2>1. op = "JAL" => Decode(w, t.reg) = Operands(op, n.rd, -1, -1, Value(n.imm), 0, Value(n.imm))
    BY <1>2, <1>3, DecodeOTHERS
  <2>2. op = "JALR" => Decode(w, t.reg) = Operands(op, n.rd, n.rs1, -1, t.reg[n.rs1], Value(n.imm), 0)
    BY <1>2, <1>3, DecodeOTHERS
  <2> QED BY <2>1, <2>2, IssuedAs DEF First
<1>6. /\ Goes(x) /\ x.type # "UNKNOWN" /\ x.type \notin Loads \cup Stores \cup Branches /\ Writes(x)
  BY <1>5 DEF Goes, Traps, Exits, Loads, Stores, Branches, Writes
<1>7. stage = "done" /\ reg = Left(x, t.reg, Computed(x)) /\ mem = Contents /\ pc = PcAfter(t, s)
  BY <1>6, Stops
<1>8. Computed(x) = Wrap(t.pc + 4)
  BY <1>5 DEF Computed, Branches, Loads, Stores
<1>9. pc = to
  <2>1. PcAfter(t, s) = JumpTarget(x)
    BY <1>5, <1>6 DEF PcAfter
  <2>2. JumpTarget(x) = to
    BY <1>5 DEF JumpTarget
  <2> QED BY <1>7, <2>1, <2>2
<1>10. reg = R
  <2>1. CASE n.rd = 0
    BY <1>2, <1>5, <1>7, <2>1 DEF Left
  <2>2. CASE n.rd # 0
    BY <1>2, <1>5, <1>6, <1>7, <1>8, <2>2 DEF Left
  <2> QED BY <2>1, <2>2
<1>11. Manual = {[reg |-> R, mem |-> Contents, pc |-> to]}
  <2>1. op \notin DOMAIN IsaBytes /\ FormatOf(n) \notin {"S", "B"}
    BY <1>4 DEF IsaBytes
  <2>2. Result(t) = Wrap(t.pc + 4)
    BY DEF Result, IsaResult
  <2>3. ManualOf(t) =
           {[reg |-> IF FormatOf(n) = "B" \/ n.op \in {"ECALL", "FENCE"} THEN t.reg
                     ELSE [t.reg EXCEPT ![n.rd] = IF n.rd = 0 THEN 0 ELSE Result(t)],
             mem |-> Contents,
             pc  |-> IF n.op = "JAL" \/ (FormatOf(n) = "B" /\ IsaTaken(n.op, First(t), Second(t)))
                     THEN Wrap(t.pc + Value(n.imm))
                     ELSE IF n.op = "JALR" THEN 2 * (Wrap(First(t) + Value(n.imm)) \div 2) ELSE Behind(t)]}
    BY <1>1, <2>1, ManualNoAccess
  <2>4. n.op \notin {"ECALL", "FENCE"} /\ n.op \in {"JAL", "JALR"}
    OBVIOUS
  <2> QED BY <2>1, <2>2, <2>3, <2>4, Names
<1>12. Conforms
  BY <1>7, <1>9, <1>10, <1>11 DEF Conforms
<1>13. ~ Deviates
  <2>1. ins = n /\ op \notin DOMAIN IsaBytes
    BY Names DEF IsaBytes
  <2> QED BY <2>1, NoDeviation
<1> QED BY <1>12, <1>13

\* ECALL of a known number passes; FENCE ends the process.
LEMMA ConformsSystem ==
  ASSUME NEW t, NEW s, At(t, s), t.ins.op \in {"ECALL", "FENCE"}, ~ Undefined
  PROVE  Conforms <=> ~ Deviates
<1> DEFINE n == t.ins
           x == Issued(t, s)
           op == n.op
           w == t.word
<1>1. t \in Tests
  BY DEF At
<1>2. WellFormed(n) /\ w = Encode(n) /\ w \subseteq Bit
  BY <1>1, TestIs
<1>3. op \in DOMAIN OTHERS
  BY DEF OTHERS
<1>4. FormatOf(n) = "I"
  BY <1>2, <1>3, DecodeOTHERS DEF OTHERS
<1>5. op \notin DOMAIN IsaBytes /\ op \notin DOMAIN BRANCH /\ ins = n
  BY Names DEF IsaBytes, BRANCH
<1>6. Manual = {[reg |-> t.reg, mem |-> Contents, pc |-> Behind(t)]}
  <2>1. ManualOf(t) =
           {[reg |-> IF FormatOf(n) = "B" \/ n.op \in {"ECALL", "FENCE"} THEN t.reg
                     ELSE [t.reg EXCEPT ![n.rd] = IF n.rd = 0 THEN 0 ELSE Result(t)],
             mem |-> Contents,
             pc  |-> IF n.op = "JAL" \/ (FormatOf(n) = "B" /\ IsaTaken(n.op, First(t), Second(t)))
                     THEN Wrap(t.pc + Value(n.imm))
                     ELSE IF n.op = "JALR" THEN 2 * (Wrap(First(t) + Value(n.imm)) \div 2) ELSE Behind(t)]}
    BY <1>1, <1>4, <1>5, ManualNoAccess
  <2>2. n.op \notin {"JAL", "JALR"} /\ n.op \in {"ECALL", "FENCE"} /\ FormatOf(n) # "B"
    BY <1>4
  <2> QED BY <2>1, <2>2, Names
<1>7. CASE op = "ECALL"
  <2>1. Decode(w, t.reg) = Operands("ECALL", -1, 10, 17, t.reg[10], t.reg[17], 0)
    BY <1>2, <1>3, <1>7, DecodeOTHERS
  <2>2. x.type = "ECALL" /\ x.valB = t.reg[17]
    BY <2>1, IssuedAs
  <2>3. t.reg[17] \in {1, 2}
    BY <1>5, <1>7, Names DEF Undefined
  <2>4. /\ Goes(x) /\ x.type # "UNKNOWN" /\ x.type \notin Loads \cup Stores \cup Branches /\ ~ Writes(x)
    BY <2>2, <2>3 DEF Goes, Traps, Exits, Loads, Stores, Branches, Writes
  <2>5. stage = "done" /\ reg = Left(x, t.reg, Computed(x)) /\ mem = Contents /\ pc = PcAfter(t, s)
    BY <2>4, Stops
  <2>6. reg = t.reg
    BY <2>4, <2>5 DEF Left
  <2>7. pc = Behind(t)
    BY <1>1, <1>5, <2>2, <2>4, <2>5, NoBranchPc DEF PcAfter
  <2>8. Conforms
    BY <1>6, <2>5, <2>6, <2>7 DEF Conforms
  <2>9. ~ Deviates
    BY <1>5, <1>7, NoDeviation
  <2> QED BY <2>8, <2>9
<1>8. CASE op = "FENCE"
  <2>1. Decode(w, t.reg) = Operands("EXIT", -1, -1, -1, 0, 0, 0)
    BY <1>2, <1>3, <1>8, DecodeOTHERS
  <2>2. x.type = "EXIT"
    BY <2>1, IssuedAs
  <2>3. ~ Goes(x) /\ x.type \notin Loads \cup Stores
    BY <2>2 DEF Goes, Loads, Stores
  <2>4. Conforms <=> Manual = {}
    BY <2>3, NotGoing
  <2>5. Deviates
    BY <1>5, <1>8 DEF Deviates
  <2> QED BY <1>6, <2>4, <2>5
<1> QED BY <1>7, <1>8

\* A branch goes where the manual has it go under every prediction.
LEMMA ConformsBRANCH ==
  ASSUME NEW t, NEW s, At(t, s), t.ins.op \in DOMAIN BRANCH
  PROVE  Conforms <=> ~ Deviates
<1> DEFINE n == t.ins
           x == Issued(t, s)
           op == n.op
           w == t.word
           taken == IsaTaken(op, First(t), Second(t))
<1>1. t \in Tests /\ s \in Strategies
  BY DEF At
<1>2. WellFormed(n) /\ w = Encode(n) /\ w \subseteq Bit
  BY <1>1, TestIs
<1>3. /\ FormatOf(n) = "B" /\ imm_sb(w) = n.imm
      /\ Decode(w, t.reg) = Operands(op, -1, n.rs1, n.rs2, t.reg[n.rs1], t.reg[n.rs2], Value(n.imm))
  BY <1>2, DecodeBRANCH
<1>4. x.type = op /\ x.valA = First(t) /\ x.valB = Second(t)
  BY <1>3, IssuedAs DEF First, Second
<1>5. op \in {"BEQ", "BNE", "BLT", "BGE", "BLTU", "BGEU"}
  BY DEF BRANCH
<1>6. op \notin DOMAIN IsaBytes
  BY <1>5 DEF IsaBytes
<1>7. Taken(x) = taken /\ Taken(x) \in BOOLEAN
  <2> DEFINE a == First(t)
             b == Second(t)
             o == op
  <2>1. Taken(x) = CASE o = "BEQ"  -> a = b
                     [] o = "BNE"  -> a # b
                     [] o = "BLT"  -> Signed64(a) < Signed64(b)
                     [] o = "BGE"  -> Signed64(a) >= Signed64(b)
                     [] o = "BLTU" -> a < b
                     [] o = "BGEU" -> a >= b
                     [] OTHER           -> FALSE
    BY <1>4, Zenon DEF Taken
  <2>2. taken = CASE o = "BEQ"  -> a = b
                     [] o = "BNE"  -> a # b
                     [] o = "BLT"  -> Signed64(a) < Signed64(b)
                     [] o = "BGE"  -> Signed64(a) >= Signed64(b)
                     [] o = "BLTU" -> a < b
                     [] o = "BGEU" -> a >= b
    BY Zenon DEF IsaTaken
  <2> HIDE DEF a, b, o, x, taken
  <2>3. o \in {"BEQ", "BNE", "BLT", "BGE", "BLTU", "BGEU"}
    BY <1>5 DEF o
  <2>4. CASE o = "BEQ"
    <3>1. Taken(x) = (a = b)
      BY <2>1, <2>4
    <3>2. taken = (a = b)
      BY <2>2, <2>4
    <3> QED BY <3>1, <3>2
  <2>5. CASE o = "BNE"
    <3>1. Taken(x) = (a # b)
      BY <2>1, <2>5
    <3>2. taken = (a # b)
      BY <2>2, <2>5
    <3> QED BY <3>1, <3>2
  <2>6. CASE o = "BLT"
    <3>1. Taken(x) = (Signed64(a) < Signed64(b))
      BY <2>1, <2>6
    <3>2. taken = (Signed64(a) < Signed64(b))
      BY <2>2, <2>6
    <3> QED BY <3>1, <3>2
  <2>7. CASE o = "BGE"
    <3>1. Taken(x) = (Signed64(a) >= Signed64(b))
      BY <2>1, <2>7
    <3>2. taken = (Signed64(a) >= Signed64(b))
      BY <2>2, <2>7
    <3> QED BY <3>1, <3>2
  <2>8. CASE o = "BLTU"
    <3>1. Taken(x) = (a < b)
      BY <2>1, <2>8
    <3>2. taken = (a < b)
      BY <2>2, <2>8
    <3> QED BY <3>1, <3>2
  <2>9. CASE o = "BGEU"
    <3>1. Taken(x) = (a >= b)
      BY <2>1, <2>9
    <3>2. taken = (a >= b)
      BY <2>2, <2>9
    <3> QED BY <3>1, <3>2
  <2> QED BY <2>3, <2>4, <2>5, <2>6, <2>7, <2>8, <2>9
<1>8. Goes(x) /\ x.type # "UNKNOWN" /\ x.type \notin Loads \cup Stores /\ x.type \in Branches /\ ~ Writes(x)
  BY <1>4, <1>5 DEF Goes, Traps, Exits, Loads, Stores, Branches, Writes
<1>9. stage = "done" /\ reg = Left(x, t.reg, Computed(x)) /\ mem = Contents /\ pc = PcAfter(t, s)
  BY <1>8, Stops
<1>10. reg = t.reg
  BY <1>8, <1>9 DEF Left
<1>11. IsBranch(t) /\ Guess(t, s) \in BOOLEAN
  <2>1. IsBranch(t) = TRUE
    BY <1>1, NotBranch DEF IsBranch
  <2>2. PredictBy(s, Value(imm_sb(w))) \in BOOLEAN
    BY <1>1 DEF PredictBy, Strategies
  <2> QED BY <2>1, <2>2 DEF Guess
<1>12. PcAfter(t, s) = IF taken THEN Target(t) ELSE Behind(t)
  <2>1. /\ x.take_branch = Guess(t, s)
        /\ x.PCnottaken = IF IsBranch(t) /\ ~ Guess(t, s) THEN Target(t) ELSE Behind(t)
    BY IssuedIs
  <2> HIDE DEF x, taken
  <2>2. PcAfter(t, s) = IF Taken(x) # Guess(t, s) THEN (IF ~ Guess(t, s) THEN Target(t) ELSE Behind(t))
                        ELSE IF Guess(t, s) THEN Target(t) ELSE Behind(t)
    <3>1. x.type \notin {"JAL", "JALR"}
      BY <1>8 DEF Branches
    <3> QED BY <1>8, <1>11, <2>1, <3>1 DEF PcAfter, FetchPc, x
  <2> QED BY <1>7, <1>11, <2>2
<1>13. Target(t) = Wrap(t.pc + Value(n.imm))
  BY <1>3 DEF Target
<1>14. Manual = {[reg |-> t.reg, mem |-> Contents, pc |-> IF taken THEN Target(t) ELSE Behind(t)]}
  <2>1. ManualOf(t) =
           {[reg |-> IF FormatOf(n) = "B" \/ n.op \in {"ECALL", "FENCE"} THEN t.reg
                     ELSE [t.reg EXCEPT ![n.rd] = IF n.rd = 0 THEN 0 ELSE Result(t)],
             mem |-> Contents,
             pc  |-> IF n.op = "JAL" \/ (FormatOf(n) = "B" /\ taken)
                     THEN Wrap(t.pc + Value(n.imm))
                     ELSE IF n.op = "JALR" THEN 2 * (Wrap(First(t) + Value(n.imm)) \div 2) ELSE Behind(t)]}
    BY <1>1, <1>3, <1>6, ManualNoAccess
  <2>2. n.op \notin {"JAL", "JALR"}
    BY <1>5
  <2> HIDE DEF taken
  <2> QED BY <1>3, <1>13, <2>1, <2>2, Names
<1>15. Conforms
  BY <1>9, <1>10, <1>12, <1>14 DEF Conforms
<1>16. ~ Deviates
  <2>1. ins = n
    BY Names
  <2> QED BY <1>5, <1>6, <2>1, NoDeviation
<1> QED BY <1>15, <1>16

\* The places an access reaches in the manual, and what it leaves there.
Reached(t) == LET addr == Wrap(First(t) + Value(t.ins.imm)) IN addr .. addr + IsaBytes[t.ins.op] - 1
\* What a store leaves there.
Written(t) ==
  LET addr == Wrap(First(t) + Value(t.ins.imm))
  IN  [y \in Mapped |-> IF y \in Reached(t) THEN (Second(t) \div Two[ByteWidth * (y - addr)]) % ByteMod
                        ELSE Contents[y]]
\* What a load reads there.
LoadedValue(t) == IsaLoaded(t.ins.op, Contents, Wrap(First(t) + Value(t.ins.imm)))

\* The address has the width of a register.
LEMMA AddrIn ==
  ASSUME NEW t \in Tests
  PROVE  Wrap(First(t) + Value(t.ins.imm)) \in Double
<1>1. First(t) + Value(t.ins.imm) \in Int
  BY TestIs, ValueIn DEF First, Double
<1> QED BY <1>1, WrapIn

\* The manual's step of an access.
LEMMA ManualAccess ==
  ASSUME NEW t \in Tests, t.ins.op \in DOMAIN IsaBytes
  PROVE  /\ t.ins.op \in DOMAIN LOAD => ManualOf(t) =
              IF ~ Reached(t) \subseteq Mapped THEN {}
              ELSE {[reg |-> [t.reg EXCEPT ![t.ins.rd] = IF t.ins.rd = 0 THEN 0 ELSE LoadedValue(t)],
                     mem |-> Contents, pc |-> Behind(t)]}
         /\ t.ins.op \in DOMAIN STORE => ManualOf(t) =
              IF ~ Reached(t) \subseteq Mapped THEN {}
              ELSE {[reg |-> t.reg, mem |-> Written(t), pc |-> Behind(t)]}
<1> DEFINE n == t.ins
           f == FormatOf(n)
           imm == Value(n.imm)
           a == t.reg[n.rs1]
           b == IF f \in {"R", "S", "B"} THEN t.reg[n.rs2] ELSE imm
           addr == Wrap(a + imm)
           access == IF n.op \in DOMAIN IsaBytes THEN addr .. addr + IsaBytes[n.op] - 1 ELSE {}
           Put64(value) == [t.reg EXCEPT ![n.rd] = IF n.rd = 0 THEN 0 ELSE value]
           taken == IsaTaken(n.op, a, b)
           nop == n.op
           fun == [y \in Mapped |-> IF y \in access THEN (b \div Two[ByteWidth * (y - addr)]) % ByteMod
                                    ELSE Contents[y]]
           loaded == IsaLoaded(n.op, Contents, addr)
<1>1. Begin(t).reg = t.reg /\ Begin(t).mem = Contents /\ Begin(t).pc = t.pc
  BY DEF Begin
<1>2. ManualOf(t) =
        IF ~ access \subseteq Mapped THEN {}
        ELSE {[reg |-> CASE f \in {"S", "B"} \/ n.op \in {"ECALL", "FENCE"} -> t.reg
                         [] access # {} /\ f = "I" -> Put64(IsaLoaded(n.op, Contents, addr))
                         [] OTHER -> Put64(IsaResult(n.op, a, b, imm, t.pc)),
               mem |-> IF f = "S" THEN fun ELSE Contents,
               pc  |-> CASE n.op = "JAL" \/ (f = "B" /\ taken) -> Wrap(t.pc + imm)
                         [] n.op = "JALR" -> 2 * (addr \div 2)
                         [] OTHER           -> Wrap(t.pc + 4)]}
  BY <1>1, ZenonT(60) DEF ManualOf, IsaStep
<1>3. addr \in Int
  BY AddrIn DEF First, Double
<1>4. access # {}
  <2>1. IsaBytes[n.op] \in {1, 2, 4, 8}
    BY BytesAre
  <2>2. addr \in access
    BY <1>3, <2>1
  <2> QED BY <2>2
<1>5. Reached(t) = access /\ LoadedValue(t) = loaded /\ Written(t) = fun
  BY Zenon DEF Reached, LoadedValue, Written, First, Second
<1>6. n.op \notin {"JAL", "JALR", "ECALL", "FENCE"}
  BY DEF IsaBytes
<1>7. (n.op \in DOMAIN LOAD => f = "I") /\ (n.op \in DOMAIN STORE => f = "S")
  BY FormatsAre DEF FormatOf
<1> HIDE DEF f, imm, a, b, addr, access, taken, nop, fun, loaded
<1>8. ASSUME f \in {"I", "S"}
      PROVE  ManualOf(t) = IF ~ access \subseteq Mapped THEN {}
                           ELSE {[reg |-> IF f = "S" THEN t.reg ELSE Put64(loaded),
                                  mem |-> IF f = "S" THEN fun ELSE Contents,
                                  pc  |-> Wrap(t.pc + 4)]}
  <2>1. (CASE f \in {"S", "B"} \/ n.op \in {"ECALL", "FENCE"} -> t.reg
           [] access # {} /\ f = "I" -> Put64(IsaLoaded(n.op, Contents, addr))
           [] OTHER -> Put64(IsaResult(n.op, a, b, imm, t.pc))) =
        IF f = "S" THEN t.reg ELSE Put64(loaded)
    <3>1. CASE f = "S"
      BY <1>6, <3>1
    <3>2. CASE f = "I"
      BY <1>4, <1>6, <3>2 DEF loaded
    <3> QED BY <1>8, <3>1, <3>2
  <2>2. (CASE n.op = "JAL" \/ (f = "B" /\ taken) -> Wrap(t.pc + imm)
           [] n.op = "JALR" -> 2 * (addr \div 2)
           [] OTHER           -> Wrap(t.pc + 4)) = Wrap(t.pc + 4)
    BY <1>6, <1>8
  <2> QED BY <1>2, <2>1, <2>2, Zenon
<1>9. n.op \in DOMAIN LOAD => ManualOf(t) =
        IF ~ access \subseteq Mapped THEN {}
        ELSE {[reg |-> Put64(loaded), mem |-> Contents, pc  |-> Wrap(t.pc + 4)]}
  <2> SUFFICES ASSUME n.op \in DOMAIN LOAD PROVE ManualOf(t) =
        IF ~ access \subseteq Mapped THEN {}
        ELSE {[reg |-> Put64(loaded), mem |-> Contents, pc  |-> Wrap(t.pc + 4)]}
    OBVIOUS
  <2>1. f = "I"
    BY <1>7
  <2>2. f # "S" /\ f \in {"I", "S"}
    BY <2>1
  <2> QED BY <1>8, <2>2, Zenon
<1>10. n.op \in DOMAIN STORE => ManualOf(t) =
         IF ~ access \subseteq Mapped THEN {} ELSE {[reg |-> t.reg, mem |-> fun, pc  |-> Wrap(t.pc + 4)]}
  <2> SUFFICES ASSUME n.op \in DOMAIN STORE PROVE ManualOf(t) =
         IF ~ access \subseteq Mapped THEN {} ELSE {[reg |-> t.reg, mem |-> fun, pc  |-> Wrap(t.pc + 4)]}
    OBVIOUS
  <2>1. f = "S"
    BY <1>7
  <2>2. f = "S" /\ f \in {"I", "S"}
    BY <2>1
  <2> QED BY <1>8, <2>2, Zenon
<1> QED BY <1>5, <1>9, <1>10, Zenon DEF Behind

\* An address the manual reaches is not cut.
LEMMA AddressSelf ==
  ASSUME NEW a \in Mapped
  PROVE  Address(a) = a
<1> DEFINE m == Two[AddrLen]
<1>1. m \in Nat \ {0}
  <2>1. AddrLen \in Nat
    BY Widths, DatapathAssumption
  <2> QED BY <2>1, TwoPositive
<1>2. a \in 0 .. m - 1
  BY DatapathAssumption
<1> HIDE DEF m
<1>3. a \in Int /\ a = m * 0 + a
  BY <1>1, <1>2
<1>4. a % m = a
  BY <1>1, <1>2, <1>3, DivIs
<1> QED BY <1>4 DEF Address, m

\* LWU ends the process.
LEMMA ConformsLWU ==
  ASSUME NEW t, NEW s, At(t, s), t.ins.op = "LWU"
  PROVE  Conforms <=> ~ Deviates
<1> DEFINE x == Issued(t, s)
<1>1. t \in Tests /\ WellFormed(t.ins) /\ t.word = Encode(t.ins) /\ t.word \subseteq Bit
  BY TestIs DEF At
<1>2. t.ins.op \in DOMAIN LOAD
  BY DEF LOAD
<1>3. Decode(t.word, t.reg) =
        Operands("EXIT", t.ins.rd, t.ins.rs1, -1, t.reg[t.ins.rs1], Value(t.ins.imm), Value(t.ins.imm))
  BY <1>1, <1>2, DecodeLOAD
<1>4. x.type = "EXIT"
  BY <1>3, IssuedAs
<1>5. ~ Goes(x) /\ x.type \notin Loads \cup Stores
  BY <1>4 DEF Goes, Loads, Stores
<1>6. Conforms <=> Manual = {}
  BY <1>5, NotGoing
<1>7. Deviates <=> Manual # {}
  <2>1. ins.op = "LWU"
    BY Names
  <2>2. ins.op \notin {"SLTU", "FENCE", "SLLW", "MULH", "REM", "DIV", "SRLW", "SRLIW", "LB", "LH", "LW"}
    BY <2>1
  <2>3. ins.op \notin DOMAIN IsaBytes \ {"LWU"}
    BY <2>1
  <2> QED BY <2>1, <2>2, <2>3, Zenon DEF Deviates
<1> QED BY <1>6, <1>7

\* What an access does at its end.
AccessEnd(t, s) ==
  /\ stage = "done" /\ Place(Issued(t, s)) \in Mapped /\ pc = Behind(t)
  /\ \E v : Accessed(Issued(t, s), mem, v) /\ reg = Left(Issued(t, s), t.reg, v)

\* Every access gets there or ends the process for want of memory.
LEMMA AccessIs ==
  ASSUME NEW t, NEW s, At(t, s), t.ins.op \in Loads \cup Stores
  PROVE  LET x == Issued(t, s) IN
         /\ x.type = t.ins.op /\ (t.ins.op \in Loads => x.dest = t.ins.rd) /\ Place(x) = Address(Addr)
         /\ t.ins.op \in Stores => x.valB = Second(t) /\ Second(t) \in Double
         /\ Addr = Wrap(First(t) + Value(t.ins.imm)) /\ Addr \in Double
         /\ AccessEnd(t, s) \/ (stage = "exit" /\ Place(x) \notin Mapped)
<1> DEFINE n == t.ins
           x == Issued(t, s)
           op == n.op
<1>1. t \in Tests
  BY DEF At
<1>2. WellFormed(n) /\ t.word = Encode(n) /\ t.word \subseteq Bit /\ t.reg[n.rs2] \in Double
  BY <1>1, TestIs
<1>3. op \in Loads => op \in DOMAIN LOAD /\ op # "LWU"
  BY DEF Loads, LOAD
<1>4. op \in Stores => op \in DOMAIN STORE
  BY DEF Stores, STORE
<1>5. op \in Loads =>
        Decode(t.word, t.reg) = Operands(op, n.rd, n.rs1, -1, t.reg[n.rs1], Value(n.imm), Value(n.imm))
  BY <1>2, <1>3, DecodeLOAD
<1>6. op \in Stores => FormatOf(n) = "S" /\
        Decode(t.word, t.reg) = Operands(op, -1, n.rs1, n.rs2, t.reg[n.rs1], t.reg[n.rs2], Value(n.imm))
  BY <1>2, <1>4, DecodeSTORE
<1>7. /\ x.type = op /\ x.valA = First(t) /\ x.offset = Value(n.imm)
      /\ op \in Loads => x.dest = n.rd
      /\ op \in Stores => x.valB = Second(t) /\ Second(t) \in Double
  BY <1>2, <1>5, <1>6, IssuedAs DEF First, Second
<1>8. Addr = Wrap(First(t) + Value(n.imm)) /\ Addr \in Double
  BY <1>1, Names, AddrIn
<1> HIDE DEF x, op
<1>9. op \in Loads \cup Stores
  BY DEF op
<1>10. Computed(x) = Addr
  BY <1>7, <1>8, <1>9 DEF Computed, Branches, Loads, Stores
<1>11. Place(x) = Address(Addr)
  BY <1>10 DEF Place
<1>12. x.type \notin {"EXIT", "UNKNOWN", "JAL", "JALR", "ECALL", "DIV"} \cup Branches
  BY <1>7, <1>9 DEF Loads, Stores, Branches
<1>13. Goes(x)
  BY <1>12 DEF Goes, Traps, Exits
<1>14. CASE stage = "done"
  <2>1. AtEnd(t, s, reg, mem, pc)
    BY <1>14, Ends
  <2>2. PICK v : Accessed(x, mem, v) /\ reg = Left(x, t.reg, v)
    BY <2>1 DEF AtEnd, x
  <2>3. Place(x) \in Mapped
    BY <1>7, <1>9, <2>2 DEF Accessed
  <2>4. pc = Behind(t)
    <3>1. op \notin DOMAIN BRANCH
      BY <1>9 DEF Loads, Stores, BRANCH
    <3>2. FetchPc(t, s) = Behind(t)
      BY <1>1, <3>1, NoBranchPc DEF op
    <3>3. PcAfter(t, s) = FetchPc(t, s)
      BY <1>12 DEF PcAfter, x
    <3> QED BY <2>1, <3>2, <3>3 DEF AtEnd
  <2>5. AccessEnd(t, s)
    BY <1>14, <2>2, <2>3, <2>4 DEF AccessEnd, x
  <2> QED BY <1>7, <1>8, <1>11, <2>5 DEF x, op
<1>15. CASE stage = "exit"
  <2>1. Exited(t, s, reg, mem, pc)
    BY <1>15, Ends
  <2>2. Place(x) \notin Mapped
    BY <1>12, <1>13, <2>1 DEF Exited, Exits, x
  <2> QED BY <1>7, <1>8, <1>11, <1>15, <2>2 DEF x, op
<1>16. CASE stage = "crash"
  <2>1. Crashed(t, s, reg, mem, pc)
    BY <1>16, Ends
  <2>2. FALSE
    BY <1>12, <1>13, <2>1 DEF Crashed, Goes, x
  <2> QED BY <2>2
<1> QED BY <1>14, <1>15, <1>16, Ends

\* Where the manual has an access the whole of it lies inside its block.
LEMMA WholeInside ==
  ASSUME NEW t, NEW s, At(t, s), t.ins.op \in Loads \cup Stores, Manual # {}, ~ Undefined
  PROVE  /\ Reached(t) \subseteq Mapped /\ Addr \in Mapped /\ Address(Addr) = Addr /\ Addr \in Nat
         /\ MemLen[t.ins.op] = IsaBytes[t.ins.op] /\ IsaBytes[t.ins.op] \in {1, 2, 4, 8}
         /\ Reached(t) = Addr .. Addr + IsaBytes[t.ins.op] - 1
         /\ \A i \in 0 .. IsaBytes[t.ins.op] - 1 : Inside(Addr, i)
<1> DEFINE n == IsaBytes[t.ins.op]
<1>1. t \in Tests /\ Manual = ManualOf(t) /\ ins = t.ins
  BY Names DEF At
<1>2. t.ins.op \in DOMAIN IsaBytes /\ (t.ins.op \in DOMAIN LOAD \/ t.ins.op \in DOMAIN STORE) /\ t.ins.op # "LWU"
  BY BytesAre DEF Loads, Stores
<1>3. Reached(t) \subseteq Mapped
  BY <1>1, <1>2, ManualAccess
<1>4. Addr = Wrap(First(t) + Value(t.ins.imm)) /\ Addr \in Double
  BY AccessIs
<1>5. Addr \in Nat
  BY <1>4 DEF Double
<1>6. MemLen[t.ins.op] = n /\ n \in {1, 2, 4, 8}
  BY <1>2, BytesAre
<1>7. Reached(t) = Addr .. Addr + n - 1
  BY <1>4, Zenon DEF Reached
<1> HIDE DEF n
<1>8. Addr \in Mapped
  <2>1. Addr \in Addr .. Addr + n - 1
    BY <1>5, <1>6
  <2> QED BY <1>3, <1>7, <2>1
<1>9. Address(Addr) = Addr
  BY <1>8, AddressSelf
<1>10. ~ (Addr % BlockSize) + n > BlockSize
  BY <1>1, <1>2, <1>9 DEF Undefined, n
<1>11. \A i \in 0 .. n - 1 : Inside(Addr, i)
  <2>1. BlockSize \in Nat \ {0}
    BY DatapathAssumption
  <2>2. Addr % BlockSize \in Int
    BY <1>5, <2>1
  <2> QED BY <1>6, <1>10, <2>1, <2>2 DEF Inside
<1> QED BY <1>3, <1>5, <1>6, <1>7, <1>8, <1>9, <1>11 DEF n

\* An access without memory, in the manual or behind the cut of the address.
LEMMA ConformsNoMemory ==
  ASSUME NEW t, NEW s, At(t, s), t.ins.op \in Loads \cup Stores, ~ Undefined,
         Manual = {} \/ stage = "exit"
  PROVE  Conforms <=> ~ Deviates
<1>1. AccessEnd(t, s) \/ (stage = "exit" /\ Place(Issued(t, s)) \notin Mapped)
  BY AccessIs
<1>2. Place(Issued(t, s)) = Address(Addr) /\ ins = t.ins
  BY AccessIs, Names
<1>3. Manual = {}
  <2> SUFFICES ASSUME Manual # {}, stage = "exit" PROVE FALSE
    OBVIOUS
  <2>1. Addr \in Mapped /\ Address(Addr) = Addr
    BY WholeInside
  <2> QED BY <1>1, <1>2, <2>1 DEF AccessEnd
<1>4. Conforms <=> stage # "done"
  BY <1>1, <1>3 DEF Conforms, AccessEnd
<1>5. Deviates <=> Address(Addr) \in Mapped
  <2>1. ins.op \in DOMAIN IsaBytes \ {"LWU"}
    BY <1>2, BytesAre DEF Loads, Stores
  <2>2. ins.op \notin {"SLTU", "FENCE", "LWU", "SLLW", "MULH", "REM", "DIV", "SRLW", "SRLIW"}
    BY <1>2 DEF Loads, Stores
  <2> QED BY <1>3, <2>1, <2>2, Zenon DEF Deviates
<1> QED BY <1>1, <1>2, <1>4, <1>5 DEF AccessEnd

\* A load finds the bytes of the manual; only their sign may be missing.
LEMMA ConformsLOAD ==
  ASSUME NEW t, NEW s, At(t, s), t.ins.op \in Loads, ~ Undefined
  PROVE  Conforms <=> ~ Deviates
<1> DEFINE op == t.ins.op
           d == t.ins.rd
           x == Issued(t, s)
           n == IsaBytes[op]
           c == [i \in 0 .. n - 1 |-> Contents[Addr + i]]
           v == Joined(c, ByteWidth, n)
           e == IF op \in {"LB", "LH", "LW"} THEN SignExtend(v, n * ByteWidth) ELSE v
           R == [t.reg EXCEPT ![d] = IF d = 0 THEN 0 ELSE e]
           L == [t.reg EXCEPT ![d] = IF d = 0 THEN 0 ELSE v]
<1>1. CASE Manual = {} \/ stage = "exit"
  BY <1>1, ConformsNoMemory
<1>2. CASE Manual # {} /\ stage # "exit"
  <2>1. /\ Reached(t) \subseteq Mapped /\ Addr \in Mapped /\ Address(Addr) = Addr /\ Addr \in Nat
        /\ MemLen[op] = n /\ n \in {1, 2, 4, 8} /\ Reached(t) = Addr .. Addr + n - 1
        /\ \A i \in 0 .. n - 1 : Inside(Addr, i)
    BY <1>2, WholeInside
  <2>2. /\ x.type = op /\ x.dest = d /\ Place(x) = Addr /\ AccessEnd(t, s)
        /\ Addr = Wrap(First(t) + Value(t.ins.imm))
    BY <1>2, <2>1, AccessIs
  <2>3. t \in Tests /\ t.reg \in [Reg -> Double] /\ t.reg[0] = 0 /\ d \in Reg
    BY TestIs DEF At
  <2>4. PICK w : Accessed(x, mem, w) /\ reg = Left(x, t.reg, w)
    BY <2>2 DEF AccessEnd
  <2>5. op \in Loads /\ op \notin Stores /\ op \in DOMAIN LOAD /\ op \in DOMAIN IsaBytes /\ op # "LWU"
    BY DEF Loads, Stores, LOAD, IsaBytes
  <2>6. PICK junk \in [Outside(Addr, n) -> Byte] : w = Extended(ContentIn(Contents, Addr, n, junk), n)
    BY <2>1, <2>2, <2>4, <2>5 DEF Accessed
  <2>7. ContentIn(Contents, Addr, n, junk) = c
    BY <2>1 DEF ContentIn
  <2>8. w = v
    BY <2>6, <2>7 DEF Extended
  <2>9. mem = Contents
    BY <2>2, <2>4, <2>5 DEF Accessed
  <2>10. Writes(x)
    BY <2>2, <2>5 DEF Writes, Loads, Branches, Stores
  <2>11. LoadedValue(t) = e
    BY <2>2, Zenon DEF LoadedValue, IsaLoaded
  <2>12. Manual = {[reg |-> R, mem |-> Contents, pc |-> Behind(t)]}
    <3>1. Manual = ManualOf(t)
      BY Names
    <3>2. ManualOf(t) =
              IF ~ Reached(t) \subseteq Mapped THEN {}
              ELSE {[reg |-> [t.reg EXCEPT ![t.ins.rd] = IF t.ins.rd = 0 THEN 0 ELSE LoadedValue(t)],
                     mem |-> Contents, pc |-> Behind(t)]}
      BY <2>3, <2>5, ManualAccess
    <3> QED BY <2>1, <2>11, <3>1, <3>2, Zenon
  <2>13. v \in 0 .. Two[n * ByteWidth] - 1
    <3>1. Contents \in [Mapped -> Byte]
      BY DatapathAssumption
    <3>2. \A i \in 0 .. n - 1 : Addr + i \in Mapped
      BY <2>1
    <3>5. n \in {1, 2, 4, 8}
      BY <2>1
    <3> HIDE DEF n
    <3>3. \A i \in 0 .. n - 1 : c[i] \in 0 .. Two[ByteWidth] - 1
      BY <3>1, <3>2 DEF Byte, ByteMod
    <3>4. ByteWidth \in Nat /\ n \in Nat /\ ByteWidth * n = n * ByteWidth
      <4>1. ByteWidth \in Nat /\ n \in Nat
        BY <3>5, Widths
      <4> QED BY ONLY <3>5, <4>1
    <3> HIDE DEF c
    <3> QED BY <3>3, <3>4, JoinedFits
  <2>14. ins = t.ins
    BY Names
  <2> DEFINE sgn == op \in {"LB", "LH", "LW"}
  <2>15. /\ e = v \/ 2 * e >= Modulus
         /\ sgn /\ e = v => 2 * e < Modulus
         /\ ~ sgn => e = v
    <3>1. op \in {"LB", "LH", "LW"} => n \in {1, 2, 4}
      BY DEF IsaBytes
    <3> HIDE DEF v, n
    <3>2. op \in {"LB", "LH", "LW"} => LET y == SignExtend(v, n * ByteWidth) IN
            (y = v \/ 2 * y >= Modulus) /\ (y = v => 2 * y < Modulus)
      BY <2>13, <3>1, LoadedSign
    <3> QED BY <3>2
  <2>16. stage = "done" /\ pc = Behind(t)
    BY <2>2 DEF AccessEnd
  <2>17. Deviates <=> sgn /\ d # 0 /\ 2 * (CHOOSE m \in Manual : TRUE).reg[d] >= Modulus
    <3>1. ins.op \notin {"SLTU", "FENCE", "LWU", "SLLW", "MULH", "REM", "DIV", "SRLW", "SRLIW"}
      BY <2>14 DEF Loads
    <3> QED BY <1>2, <2>14, <3>1, Zenon DEF Deviates
  <2> HIDE DEF x, n, c, v, e, op, d
  <2>18. (R = L) <=> d = 0 \/ e = v
    BY <2>3, Overwrites
  <2>19. reg = L
    <3>1. CASE d = 0
      BY <2>2, <2>3, <2>4, <3>1 DEF Left
    <3>2. CASE d # 0
      BY <2>2, <2>3, <2>4, <2>8, <2>10, <3>2 DEF Left
    <3> QED BY <3>1, <3>2
  <2>20. d # 0 => R[d] = e
    BY <2>3
  <2> HIDE DEF R, L, sgn
  <2>21. (CHOOSE m \in Manual : TRUE).reg[d] = R[d]
    <3> DEFINE M == [reg |-> R, mem |-> Contents, pc |-> Behind(t)]
    <3>1. M.reg = R
      OBVIOUS
    <3>2. Manual = {M}
      BY <2>12
    <3> HIDE DEF M
    <3>3. (CHOOSE m \in Manual : TRUE) = M
      BY <3>2
    <3> QED BY <3>1, <3>3
  <2>22. ([reg |-> R, mem |-> Contents, pc |-> Behind(t)] = [reg |-> L, mem |-> Contents, pc |-> Behind(t)]) <=> R = L
    OBVIOUS
  <2>23. Conforms <=> R = L
    BY <2>9, <2>12, <2>16, <2>19, <2>22 DEF Conforms
  <2>24. Deviates <=> sgn /\ d # 0 /\ 2 * e >= Modulus
    BY <2>17, <2>20, <2>21
  <2>25. ~ (2 * e >= Modulus /\ 2 * e < Modulus)
    <3>1. e \in Int /\ Modulus \in Int
      <4>1. Modulus \in Int /\ v \in Int
        BY <2>13, Widths
      <4>2. \A y \in Int : Wrap(y) \in Int
        BY WrapIn DEF Double
      <4>3. v % Two[n * ByteWidth] \in Int /\ Two[n * ByteWidth] \in Int
        <5>1. n * ByteWidth \in Nat
          BY <2>1, Widths
        <5>2. Two[n * ByteWidth] \in Nat \ {0}
          BY <5>1, TwoPositive
        <5> QED BY <4>1, <5>2, DivRem
      <4>4. Signed(v % Two[n * ByteWidth], n * ByteWidth) \in Int
        BY <4>3 DEF Signed
      <4>5. SignExtend(v, n * ByteWidth) \in Int
        BY <4>2, <4>4 DEF SignExtend
      <4> QED BY <4>1, <4>5 DEF e
    <3> QED BY <3>1
  <2> QED BY <2>15, <2>18, <2>23, <2>24, <2>25
<1> QED BY <1>1, <1>2

\* A store leaves the bytes of the manual.
LEMMA ConformsSTORE ==
  ASSUME NEW t, NEW s, At(t, s), t.ins.op \in Stores, ~ Undefined
  PROVE  Conforms <=> ~ Deviates
<1> DEFINE op == t.ins.op
           x == Issued(t, s)
           n == IsaBytes[op]
<1>1. CASE Manual = {} \/ stage = "exit"
  BY <1>1, ConformsNoMemory
<1>2. CASE Manual # {} /\ stage # "exit"
  <2>1. /\ Reached(t) \subseteq Mapped /\ Addr \in Mapped /\ Address(Addr) = Addr /\ Addr \in Nat
        /\ MemLen[op] = n /\ n \in {1, 2, 4, 8} /\ Reached(t) = Addr .. Addr + n - 1
        /\ \A i \in 0 .. n - 1 : Inside(Addr, i)
    BY <1>2, WholeInside
  <2>2. /\ x.type = op /\ Place(x) = Addr /\ AccessEnd(t, s)
        /\ x.valB = Second(t) /\ Second(t) \in Double
        /\ Addr = Wrap(First(t) + Value(t.ins.imm))
    BY <1>2, <2>1, AccessIs
  <2>3. t \in Tests
    BY DEF At
  <2>4. PICK w : Accessed(x, mem, w) /\ reg = Left(x, t.reg, w)
    BY <2>2 DEF AccessEnd
  <2>5. op \in DOMAIN STORE /\ op \in DOMAIN IsaBytes /\ ~ Writes(x)
    BY <2>2 DEF Stores, STORE, IsaBytes, Writes
  <2>6. reg = t.reg
    BY <2>4, <2>5 DEF Left
  <2>7. mem = StoredIn(Contents, Addr, n, StoreValue(x))
    BY <2>1, <2>2, <2>4 DEF Accessed
  <2> DEFINE b == Second(t)
             u == StoreValue(x)
  <2>8. u = IF op # "SD" THEN b % Two[ByteWidth * n] ELSE b
    BY <2>1, <2>2 DEF StoreValue
  <2>9. b \in Nat /\ n \in Nat
    BY <2>1, <2>2 DEF Double
  <2> HIDE DEF b, u, x, op, n
  <2>10. \A k \in 0 .. n - 1 : (u \div Two[ByteWidth * k]) % ByteMod = (b \div Two[ByteWidth * k]) % ByteMod
    <3>1. \A k \in 0 .. n - 1 :
            ((b % Two[ByteWidth * n]) \div Two[ByteWidth * k]) % ByteMod = (b \div Two[ByteWidth * k]) % ByteMod
      BY <2>9, StoredDigit
    <3> QED BY <2>8, <3>1
  <2>11. Mapped \subseteq Int
    <3>1. AddrLen \in Nat
      BY Widths, DatapathAssumption
    <3>2. Two[AddrLen] \in Int
      BY <3>1, TwoIs
    <3> QED BY <3>2, DatapathAssumption
  <2> DEFINE S == [a \in Mapped |-> IF a \in Addr .. Addr + n - 1 /\ Inside(Addr, a - Addr)
                                    THEN (u \div Two[ByteWidth * (a - Addr)]) % ByteMod ELSE Contents[a]]
             W == [y \in Mapped |-> IF y \in Addr .. Addr + n - 1
                                    THEN (b \div Two[ByteWidth * (y - Addr)]) % ByteMod ELSE Contents[y]]
  <2>12. S = W
    <3> SUFFICES ASSUME NEW a \in Mapped PROVE S[a] = W[a]
      OBVIOUS
    <3>1. CASE a \in Addr .. Addr + n - 1
      <4>1. a - Addr \in 0 .. n - 1
        BY <2>1, <2>9, <2>11, <3>1
      <4>2. Inside(Addr, a - Addr)
        BY <2>1, <4>1
      <4>3. (u \div Two[ByteWidth * (a - Addr)]) % ByteMod = (b \div Two[ByteWidth * (a - Addr)]) % ByteMod
        BY <2>10, <4>1
      <4> QED BY <3>1, <4>2, <4>3
    <3>2. CASE a \notin Addr .. Addr + n - 1
      BY <3>2
    <3> QED BY <3>1, <3>2
  <2>13. StoredIn(Contents, Addr, n, u) = S
    BY DEF StoredIn
  <2>14. Written(t) = W
    <3>1. Reached(t) = Addr .. Addr + n - 1 /\ Wrap(First(t) + Value(t.ins.imm)) = Addr
      BY <2>1, <2>2 DEF n, op
    <3> HIDE DEF W
    <3>2. Written(t) = [y \in Mapped |-> IF y \in Addr .. Addr + n - 1
                                    THEN (b \div Two[ByteWidth * (y - Addr)]) % ByteMod ELSE Contents[y]]
      BY <3>1, Zenon DEF Written, b
    <3> QED BY <3>2 DEF W
  <2>15. mem = Written(t)
    BY <2>7, <2>12, <2>13, <2>14 DEF u
  <2>16. Manual = {[reg |-> t.reg, mem |-> Written(t), pc |-> Behind(t)]}
    <3>1. Manual = ManualOf(t)
      BY Names
    <3>2. ManualOf(t) =
              IF ~ Reached(t) \subseteq Mapped THEN {}
              ELSE {[reg |-> t.reg, mem |-> Written(t), pc |-> Behind(t)]}
      BY <2>3, <2>5, ManualAccess DEF op
    <3> QED BY <2>1, <3>1, <3>2
  <2>17. stage = "done" /\ pc = Behind(t)
    BY <2>2 DEF AccessEnd
  <2>18. Conforms
    BY <2>6, <2>15, <2>16, <2>17 DEF Conforms
  <2>19. ~ Deviates
    <3>1. ins.op \notin {"SLTU", "FENCE", "LWU", "SLLW", "MULH", "REM", "DIV", "SRLW", "SRLIW", "LB", "LH", "LW"}
      BY Names DEF Stores
    <3> QED BY <1>2, <3>1, Zenon DEF Deviates
  <2> QED BY <2>18, <2>19
<1> QED BY <1>1, <1>2

\* An instruction the code runs to its end, or ends the process on, does what the
\* manual says exactly when it is not on the list of deviations: for every operand,
\* every encoding and every prediction, for bytes of 2, 4 and 8 bits, and wherever
\* the outcome does not hang on what lies behind a block or on the environment
\* (simulation.cpp:443-846, 910-1206, 1230-1327).
THEOREM Conformance == Spec => []ConformsButForTheList
<1>1. ASSUME OneTest PROVE ConformsButForTheList
  <2> SUFFICES ASSUME Ended, ~ Undefined PROVE Conforms <=> ~ Deviates
    BY DEF ConformsButForTheList
  <2>1. PICK t \in Tests, s \in Strategies :
          test = t /\ branch_strat = s /\ before = Begin(t) /\ Path(t, s, reg, mem, pc, latch, stage)
    BY <1>1 DEF OneTest
  <2>2. At(t, s)
    BY <2>1 DEF At
  <2>3. t.ins.op \in Ops
    BY TestIs
  <2>4. t.ins.op \in DOMAIN LOAD => t.ins.op = "LWU" \/ t.ins.op \in Loads
    BY DEF LOAD, Loads
  <2>5. t.ins.op \in DOMAIN STORE => t.ins.op \in Stores
    BY DEF STORE, Stores
  <2>6. t.ins.op \in DOMAIN OTHERS =>
          t.ins.op \in {"LUI", "AUIPC", "ADDIW"} \/ t.ins.op \in {"JAL", "JALR"} \/ t.ins.op \in {"ECALL", "FENCE"}
    BY DEF OTHERS
  <2>7. t.ins.op \in DOMAIN OP_IMM \/ t.ins.op \in DOMAIN OP_SHIFT => t.ins.op \in DOMAIN OP_IMM \cup DOMAIN OP_SHIFT
    OBVIOUS
  <2>8. CASE t.ins.op \in DOMAIN OP
    BY <2>2, <2>8, ConformsOP
  <2>9. CASE t.ins.op \in DOMAIN OP_32
    BY <2>2, <2>9, ConformsOP_32
  <2>10. CASE t.ins.op \in DOMAIN OP_IMM \cup DOMAIN OP_SHIFT
    BY <2>2, <2>10, ConformsOP_IMM
  <2>11. CASE t.ins.op \in DOMAIN OP_SHIFT_32
    BY <2>2, <2>11, ConformsOP_SHIFT_32
  <2>12. CASE t.ins.op \in DOMAIN LOAD
    BY <2>2, <2>4, <2>12, ConformsLOAD, ConformsLWU
  <2>13. CASE t.ins.op \in DOMAIN STORE
    BY <2>2, <2>5, <2>13, ConformsSTORE
  <2>14. CASE t.ins.op \in DOMAIN BRANCH
    BY <2>2, <2>14, ConformsBRANCH
  <2>15. CASE t.ins.op \in DOMAIN OTHERS
    BY <2>2, <2>6, <2>15, ConformsUpper, ConformsJumps, ConformsSystem
  <2> QED BY <2>3, <2>7, <2>8, <2>9, <2>10, <2>11, <2>12, <2>13, <2>14, <2>15, Groups
<1> QED BY <1>1, OneTestInvariant, PTL
=============================================================================
