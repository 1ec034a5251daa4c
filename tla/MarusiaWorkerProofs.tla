------------------------ MODULE MarusiaWorkerProofs ------------------------
(***************************************************************************)
(* The Marusia worker: what its search for floors computes, for all words, *)
(* roots, houses and requests of any length, and that its link has one     *)
(* operation at a time, for any number of requests, pings and failures.    *)
(***************************************************************************)
EXTENDS MarusiaWorker, WellFoundedInduction, TLAPS

(* A set of numbers has a least member, and a bounded one a greatest.      *)
LEMMA Least ==
    ASSUME NEW T \in SUBSET Nat, T # {}
    PROVE  \E m \in T : \A k \in T : m <= k
<1>1. IsWellFoundedOn(OpToRel(<, Nat), Nat)
  BY NatLessThanWellFounded
<1>2. PICK x \in T : \A y \in T : ~ (<<y, x>> \in OpToRel(<, Nat))
  BY <1>1, WFMin
<1>3. \A y \in T : ~(y < x)
  BY <1>2 DEF OpToRel
<1>4. \A y \in T : x <= y
  BY <1>3
<1> QED BY <1>4

LEMMA Greatest ==
    ASSUME NEW n \in Nat, NEW T \in SUBSET (1..n), T # {}
    PROVE  \E m \in T : \A k \in T : k <= m
<1> DEFINE U == {n - i : i \in T}
<1>1. U \in SUBSET Nat /\ U # {}
  <2>1. \A i \in T : n - i \in Nat
    OBVIOUS
  <2>2. U \in SUBSET Nat
    BY <2>1, Zenon
  <2>3. U # {}
    BY Zenon
  <2> QED BY <2>2, <2>3, Zenon
<1>2. PICK u \in U : \A k \in U : u <= k
  <2> HIDE DEF U
  <2> QED BY <1>1, Least, Zenon
<1>3. PICK m \in T : u = n - m
  BY Zenon
<1>4. ASSUME NEW k \in T PROVE k <= m
  <2>1. n - k \in U
    OBVIOUS
  <2>2. n - m <= n - k
    BY <1>2, <1>3, <2>1
  <2>3. m \in Int /\ k \in Int
    OBVIOUS
  <2> QED BY <2>2, <2>3
<1> QED BY <1>4

(* Induction: the sets below say of which numbers a fact is true.          *)
LEMMA Induct ==
    ASSUME NEW T \in SUBSET Nat, 0 \in T, \A n \in T : n + 1 \in T
    PROVE  T = Nat
<1> SUFFICES ASSUME Nat \ T # {} PROVE FALSE
  OBVIOUS
<1>1. PICK m \in Nat \ T : \A k \in Nat \ T : m <= k
  <2>1. Nat \ T \in SUBSET Nat
    OBVIOUS
  <2> QED BY <2>1, Least, Zenon
<1>2. m # 0 /\ m - 1 \in Nat /\ m - 1 \in T
  BY <1>1
<1> QED BY <1>2

-----------------------------------------------------------------------------
(* The two loops of the search as one: pass k is root k \div n of word     *)
(* k % n, counted from 0.                                                  *)

LEMMA DivMod ==
    ASSUME NEW n \in Nat, n > 0, NEW k \in Nat
    PROVE  /\ k \div n \in Nat /\ k % n \in 0..(n - 1)
           /\ k = (k \div n) * n + (k % n)
BY Z3

LEMMA DivModUnique ==
    ASSUME NEW n \in Nat, NEW a \in Nat, NEW r \in 0..(n - 1), NEW k \in Nat, k = a * n + r
    PROVE  k \div n = a /\ k % n = r
BY Z3

LEMMA RowsApart ==
    ASSUME NEW n \in Nat, NEW a \in Nat, NEW b \in Nat, a < b
    PROVE  a * n + n <= b * n
<1>1. (b - a - 1) * n >= 0
  BY Z3
<1>2. (b - a - 1) * n = b * n - a * n - n
  BY Z3
<1>3. a * n \in Int /\ b * n \in Int
  OBVIOUS
<1> QED BY <1>1, <1>2, <1>3

(* Number of the pass of root i and word j, of n words.                    *)
At(n, i, j) == (i - 1) * n + j

(* The root and the word of pass k.                                        *)
RootOf(n, k) == ((k - 1) \div n) + 1

WordOf(n, k) == ((k - 1) % n) + 1

LEMMA AtPlace ==
    ASSUME NEW n \in Nat, NEW m \in Nat, NEW i \in 1..m, NEW j \in 1..n
    PROVE  /\ At(n, i, j) \in 1..(m * n)
           /\ RootOf(n, At(n, i, j)) = i /\ WordOf(n, At(n, i, j)) = j
<1> DEFINE a == i - 1
           r == j - 1
           k == At(n, i, j) - 1
<1>1. a \in Nat /\ a < m /\ r \in 0..(n - 1)
  OBVIOUS
<1>2. a * n \in Nat /\ m * n \in Nat /\ a * n + n <= m * n
  BY <1>1, RowsApart, Z3
<1>3. k = a * n + r
  BY <1>1, <1>2 DEF At
<1>4. k \in Nat /\ k < m * n
  BY <1>1, <1>2, <1>3
<1>5. k \div n = a /\ k % n = r
  <2> HIDE DEF a, r, k
  <2> QED BY <1>1, <1>3, <1>4, DivModUnique
<1>6. At(n, i, j) = k + 1
  BY <1>2 DEF At
<1> QED BY <1>1, <1>2, <1>4, <1>5, <1>6 DEF RootOf, WordOf

LEMMA PlaceOf ==
    ASSUME NEW n \in Nat, n > 0, NEW m \in Nat, NEW k \in 1..(m * n)
    PROVE  \E i \in 1..m, j \in 1..n : k = At(n, i, j)
<1> DEFINE q == (k - 1) \div n
           r == (k - 1) % n
<1>1. m * n \in Nat /\ k - 1 \in Nat /\ k - 1 < m * n
  BY Z3
<1>2. q \in Nat /\ r \in 0..(n - 1) /\ k - 1 = q * n + r
  BY <1>1, DivMod
<1> HIDE DEF q, r
<1>3. q < m
  <2> SUFFICES ASSUME ~(q < m) PROVE FALSE
    OBVIOUS
  <2>1. q * n >= m * n
    BY <1>2, Z3
  <2>2. q * n \in Nat
    BY <1>2, Z3
  <2> QED BY <1>1, <1>2, <2>1, <2>2
<1>4. q + 1 \in 1..m /\ r + 1 \in 1..n
  BY <1>2, <1>3
<1>5. k = At(n, q + 1, r + 1)
  <2>1. (q + 1) - 1 = q
    BY <1>2
  <2>2. q * n \in Nat
    BY <1>2, Z3
  <2> QED BY <1>2, <2>1, <2>2 DEF At
<1> QED BY <1>4, <1>5

(* A later pass has a later root, or the same and a later word.            *)
LEMMA LaterPass ==
    ASSUME NEW n \in Nat, NEW m \in Nat, NEW i \in 1..m, NEW j \in 1..n,
           NEW a \in 1..m, NEW b \in 1..n, a < i \/ (a = i /\ b <= j)
    PROVE  At(n, a, b) <= At(n, i, j)
<1>1. (i - 1) * n \in Nat /\ (a - 1) * n \in Nat
  BY Z3
<1>2. CASE a < i
  <2>1. (a - 1) * n + n <= (i - 1) * n
    BY <1>2, RowsApart
  <2> QED BY <1>1, <2>1 DEF At
<1>3. CASE a = i /\ b <= j
  BY <1>1, <1>3 DEF At
<1> QED BY <1>2, <1>3

-----------------------------------------------------------------------------
(* bufNum after k passes, from what it was before the last of them.        *)
Searched(p, k, v) ==
    IF Pass(p, k).root \in RootsIn[Pass(p, k).word] THEN <<Pass(p, k).word>> ELSE v

SearchLoop(p, n, f) ==
    f = [k \in 0..n |-> IF k = 0 THEN <<>> ELSE Searched(p, k, f[k - 1])]

LEMMA SearchDefined ==
    ASSUME NEW p, NEW n \in Nat
    PROVE  \E f : SearchLoop(p, n, f)
<1> DEFINE T == {m \in Nat : \E f : SearchLoop(p, m, f)}
<1>1. 0 \in T
  <2>1. SearchLoop(p, 0, [k \in 0..0 |-> <<>>])
    BY DEF SearchLoop
  <2> QED BY <2>1
<1>2. ASSUME NEW m \in T PROVE m + 1 \in T
  <2>1. m \in Nat /\ m + 1 \in Nat
    OBVIOUS
  <2>2. PICK f : SearchLoop(p, m, f)
    BY Zenon
  <2> DEFINE g == [k \in 0..(m + 1) |-> IF k <= m THEN f[k] ELSE Searched(p, k, f[k - 1])]
  <2>3. \A k \in 0..m : f[k] = IF k = 0 THEN <<>> ELSE Searched(p, k, f[k - 1])
    BY <2>2 DEF SearchLoop
  <2>4. ASSUME NEW k \in 0..(m + 1)
        PROVE  g[k] = IF k = 0 THEN <<>> ELSE Searched(p, k, g[k - 1])
    <3>1. CASE k = 0
      BY <2>1, <2>3, <3>1
    <3>2. CASE k # 0
      <4>1. k - 1 \in 0..(m + 1) /\ k - 1 <= m
        BY <2>1, <3>2
      <4>2. g[k - 1] = f[k - 1]
        BY <4>1
      <4>3. g[k] = Searched(p, k, f[k - 1])
        <5>1. CASE k <= m
          BY <2>1, <2>3, <3>2, <5>1
        <5>2. CASE ~(k <= m)
          BY <5>2
        <5> QED BY <5>1, <5>2
      <4> QED BY <3>2, <4>2, <4>3
    <3> QED BY <3>1, <3>2
  <2>5. g = [k \in 0..(m + 1) |-> IF k = 0 THEN <<>> ELSE Searched(p, k, g[k - 1])]
    <3>1. g = [k \in 0..(m + 1) |-> g[k]]
      OBVIOUS
    <3> HIDE DEF g
    <3> QED BY <2>4, <3>1
  <2>6. SearchLoop(p, m + 1, g)
    BY <2>5, Zenon DEF SearchLoop
  <2> QED BY <2>1, <2>6
<1>3. T = Nat
  <2>1. T \in SUBSET Nat
    OBVIOUS
  <2> HIDE DEF T
  <2> QED BY <1>1, <1>2, <2>1, Induct
<1>4. n \in T
  BY <1>3
<1> QED BY <1>4

LEMMA BufNumIs ==
    ASSUME NEW p, Passes(p) \in Nat
    PROVE  \E f : SearchLoop(p, Passes(p), f) /\ BufNum(p) = f[Passes(p)]
<1> DEFINE g == CHOOSE f : SearchLoop(p, Passes(p), f)
<1>1. \E f : SearchLoop(p, Passes(p), f)
  BY SearchDefined
<1>2. SearchLoop(p, Passes(p), g)
  BY <1>1, Zenon
<1>3. BufNum(p) = g[Passes(p)]
  BY Zenon DEF BufNum, SearchLoop, Searched
<1> QED BY <1>2, <1>3

(* Pass k finds a root in its word.                                        *)
Hit(p, k) == Pass(p, k).root \in RootsIn[Pass(p, k).word]

(* What the search has found after n passes: the word of the last hit.     *)
LastHit(p, n, v) ==
    \/ v = <<>> /\ \A k \in 1..n : ~Hit(p, k)
    \/ \E k \in 1..n : /\ Hit(p, k) /\ v = <<Pass(p, k).word>>
                       /\ \A i \in 1..n : Hit(p, i) => i <= k

LEMMA LastHitStep ==
    ASSUME NEW p, NEW m \in Nat, NEW v, LastHit(p, m, v)
    PROVE  LastHit(p, m + 1, Searched(p, m + 1, v))
<1>1. m + 1 \in 1..(m + 1) /\ \A k \in 1..(m + 1) : k \in Int /\ (k = m + 1 \/ k \in 1..m)
  OBVIOUS
<1>2. CASE Hit(p, m + 1)
  <2>1. Searched(p, m + 1, v) = <<Pass(p, m + 1).word>>
    BY <1>2 DEF Searched, Hit
  <2>2. \A i \in 1..(m + 1) : i <= m + 1
    OBVIOUS
  <2> QED BY <1>1, <1>2, <2>1, <2>2 DEF LastHit
<1>3. CASE ~Hit(p, m + 1)
  <2>1. Searched(p, m + 1, v) = v
    BY <1>3 DEF Searched, Hit
  <2>2. CASE v = <<>> /\ \A k \in 1..m : ~Hit(p, k)
    BY <1>1, <1>3, <2>1, <2>2 DEF LastHit
  <2>3. ASSUME NEW k \in 1..m, Hit(p, k), v = <<Pass(p, k).word>>,
               \A i \in 1..m : Hit(p, i) => i <= k
        PROVE  LastHit(p, m + 1, v)
    <3>1. k \in 1..(m + 1)
      OBVIOUS
    <3>2. \A i \in 1..(m + 1) : Hit(p, i) => i <= k
      BY <1>1, <1>3, <2>3
    <3> QED BY <2>3, <3>1, <3>2 DEF LastHit
  <2> QED BY <2>1, <2>2, <2>3 DEF LastHit
<1> QED BY <1>2, <1>3

LEMMA SearchFinds ==
    ASSUME NEW p, Passes(p) \in Nat
    PROVE  LastHit(p, Passes(p), BufNum(p))
<1> DEFINE N == Passes(p)
<1>1. PICK f : SearchLoop(p, N, f) /\ BufNum(p) = f[N]
  BY BufNumIs
<1>2. \A k \in 0..N : f[k] = IF k = 0 THEN <<>> ELSE Searched(p, k, f[k - 1])
  BY <1>1 DEF SearchLoop
<1> HIDE DEF N
<1> DEFINE T == {m \in Nat : m <= N => LastHit(p, m, f[m])}
<1>3. N \in Nat
  BY DEF N
<1>4. 0 \in T
  <2>1. f[0] = <<>>
    BY <1>2, <1>3
  <2>2. \A k \in 1..0 : ~Hit(p, k)
    OBVIOUS
  <2> QED BY <2>1, <2>2 DEF LastHit
<1>5. ASSUME NEW m \in T PROVE m + 1 \in T
  <2> SUFFICES ASSUME m + 1 <= N PROVE LastHit(p, m + 1, f[m + 1])
    OBVIOUS
  <2>1. m \in Nat /\ m <= N /\ m + 1 \in 0..N /\ m + 1 # 0 /\ (m + 1) - 1 = m
    BY <1>3
  <2>2. f[m + 1] = Searched(p, m + 1, f[m])
    BY <1>2, <2>1
  <2>3. LastHit(p, m, f[m])
    BY <2>1
  <2> QED BY <2>1, <2>2, <2>3, LastHitStep
<1>6. T = Nat
  <2>1. T \in SUBSET Nat
    OBVIOUS
  <2> HIDE DEF T
  <2> QED BY <1>4, <1>5, <2>1, Induct
<1>7. LastHit(p, N, f[N])
  BY <1>3, <1>6
<1> QED BY <1>1, <1>7 DEF N

-----------------------------------------------------------------------------
LEMMA Roots == Len(KeyRoots) \in Nat /\ DOMAIN KeyRoots = 1..Len(KeyRoots)
BY DEF KeyRoots

LEMMA Spoken ==
    ASSUME NEW p \in Said
    PROVE  /\ Len(p.tokens) \in Nat /\ Len(p.tokens) > 0
           /\ DOMAIN p.tokens = 1..Len(p.tokens)
           /\ \A j \in DOMAIN p.tokens : p.tokens[j] \in Words
           /\ Passes(p) \in Nat
<1>1. PICK n \in 1..MaxWords : p.tokens \in [1..n -> Words]
  BY DEF Said, Phrases
<1>2. n \in Nat /\ n > 0
  BY RecognitionAssumption
<1>3. p.tokens \in Seq(Words) /\ Len(p.tokens) = n
  BY <1>1, <1>2
<1>4. Passes(p) \in Nat
  <2>1. Len(KeyRoots) \in Nat /\ Len(p.tokens) \in Nat
    BY <1>2, <1>3, Roots
  <2> QED BY <2>1, Z3 DEF Passes
<1> QED BY <1>1, <1>2, <1>3, <1>4

(* Root i is in word j.                                                    *)
Has(p, i, j) == KeyRoots[i] \in RootsIn[p.tokens[j]]

LEMMA PassAt ==
    ASSUME NEW p \in Said, NEW i \in DOMAIN KeyRoots, NEW j \in DOMAIN p.tokens
    PROVE  LET k == At(Len(p.tokens), i, j)
           IN  k \in 1..Passes(p) /\ (Hit(p, k) <=> Has(p, i, j)) /\ Pass(p, k).word = p.tokens[j]
<1> DEFINE n == Len(p.tokens)
           k == At(n, i, j)
           m == Len(KeyRoots)
<1>1. n \in Nat /\ m \in Nat /\ i \in 1..m /\ j \in 1..n
  BY Roots, Spoken
<1>2. Passes(p) = m * n
  BY DEF Passes
<1>3. k \in 1..(m * n) /\ RootOf(n, k) = i /\ WordOf(n, k) = j
  <2> HIDE DEF n, m
  <2> QED BY <1>1, AtPlace
<1>4. Pass(p, k).root = KeyRoots[i] /\ Pass(p, k).word = p.tokens[j]
  <2> HIDE DEF k
  <2> QED BY <1>3 DEF Pass, RootOf, WordOf
<1> QED BY <1>2, <1>3, <1>4 DEF Hit, Has

LEMMA PassIs ==
    ASSUME NEW p \in Said, NEW k \in 1..Passes(p)
    PROVE  \E i \in DOMAIN KeyRoots, j \in DOMAIN p.tokens : k = At(Len(p.tokens), i, j)
<1> DEFINE n == Len(p.tokens)
           m == Len(KeyRoots)
<1>1. n \in Nat /\ n > 0 /\ m \in Nat /\ DOMAIN KeyRoots = 1..m /\ DOMAIN p.tokens = 1..n
  BY Roots, Spoken
<1>2. k \in 1..(m * n)
  BY DEF Passes
<1> HIDE DEF n, m
<1>3. \E i \in 1..m, j \in 1..n : k = At(n, i, j)
  BY <1>1, <1>2, PlaceOf
<1> QED BY <1>1, <1>3 DEF n

(* The two loops keep the word of the last root, of several such words the *)
(* last; and nothing when no word has a root.                              *)
Chosen(p, v) ==
    \/ v = <<>> /\ \A i \in DOMAIN KeyRoots, j \in DOMAIN p.tokens : ~Has(p, i, j)
    \/ \E i \in DOMAIN KeyRoots, j \in DOMAIN p.tokens :
          /\ Has(p, i, j) /\ v = <<p.tokens[j]>>
          /\ \A a \in DOMAIN KeyRoots, b \in DOMAIN p.tokens :
                Has(p, a, b) => a < i \/ (a = i /\ b <= j)

LEMMA BufNumChosen ==
    ASSUME NEW p \in Said
    PROVE  Chosen(p, BufNum(p))
<1> DEFINE N == Passes(p)
           n == Len(p.tokens)
           m == Len(KeyRoots)
           v == BufNum(p)
<1>1. LastHit(p, N, v)
  BY Spoken, SearchFinds
<1>2. n \in Nat /\ m \in Nat /\ DOMAIN KeyRoots = 1..m /\ DOMAIN p.tokens = 1..n
  BY Roots, Spoken
<1>3. CASE v = <<>> /\ \A k \in 1..N : ~Hit(p, k)
  <2>1. ASSUME NEW i \in DOMAIN KeyRoots, NEW j \in DOMAIN p.tokens PROVE ~Has(p, i, j)
    BY <1>3, PassAt
  <2> QED BY <1>3, <2>1 DEF Chosen
<1>4. ASSUME NEW k \in 1..N, Hit(p, k), v = <<Pass(p, k).word>>,
             \A l \in 1..N : Hit(p, l) => l <= k
      PROVE  Chosen(p, v)
  <2>1. PICK i \in DOMAIN KeyRoots, j \in DOMAIN p.tokens : k = At(n, i, j)
    BY PassIs
  <2>2. Has(p, i, j) /\ v = <<p.tokens[j]>>
    BY <1>4, <2>1, PassAt
  <2>3. ASSUME NEW a \in DOMAIN KeyRoots, NEW b \in DOMAIN p.tokens, Has(p, a, b)
        PROVE  a < i \/ (a = i /\ b <= j)
    <3> DEFINE l == At(n, a, b)
    <3>1. l \in 1..N /\ Hit(p, l)
      BY <2>3, PassAt
    <3>2. l <= k
      BY <1>4, <3>1
    <3>3. a \in 1..m /\ b \in 1..n /\ i \in 1..m /\ j \in 1..n
      BY <1>2
    <3> SUFFICES ASSUME ~(a < i \/ (a = i /\ b <= j)) PROVE FALSE
      OBVIOUS
    <3>4. i < a \/ (i = a /\ j <= b)
      BY <3>3
    <3>5. k <= l
      <4> HIDE DEF n, m
      <4> QED BY <1>2, <2>1, <3>3, <3>4, LaterPass
    <3>6. k = l
      <4>1. N \in Nat /\ l \in Int /\ k \in Int
        BY <3>1, Spoken
      <4> HIDE DEF l, N
      <4> QED BY <3>2, <3>5, <4>1
    <3>7. a = i /\ b = j
      <4>1. RootOf(n, l) = a /\ WordOf(n, l) = b
        <5> HIDE DEF n, m
        <5> QED BY <1>2, <3>3, AtPlace
      <4>2. RootOf(n, k) = i /\ WordOf(n, k) = j
        <5> HIDE DEF n, m, l, N, v
        <5>1. RootOf(n, At(n, i, j)) = i /\ WordOf(n, At(n, i, j)) = j
          BY <1>2, <3>3, AtPlace
        <5> QED BY <2>1, <5>1
      <4> HIDE DEF l, n
      <4> QED BY <3>6, <4>1, <4>2
    <3> QED BY <3>3, <3>7
  <2> QED BY <2>2, <2>3 DEF Chosen
<1> QED BY <1>1, <1>3, <1>4 DEF LastHit

(* A key of __num_roots that is one word is an ordinal and has its value;  *)
(* the empty string is no key.                                             *)
LEMMA OneWordKeys ==
    /\ <<>> \notin DOMAIN NumRoots
    /\ \A w : /\ <<w>> \in DOMAIN NumRoots <=> w \in DOMAIN Numeral
              /\ w \in DOMAIN Numeral => NumRoots[<<w>>] = Numeral[w]
<1> DEFINE One   == {<<w>> : w \in DOMAIN Numeral}
           Minus == {<<"minus", w>> : w \in {v \in DOMAIN Numeral : Numeral[v] \in 1..3}}
           Tens  == {<<"dvadcat", w>> : w \in {v \in DOMAIN Numeral : Numeral[v] \in 1..9}}
<1>1. NumRoots = [k \in One \cup Minus \cup Tens |->
            IF k \in One THEN Numeral[k[1]]
            ELSE IF k \in Minus THEN -Numeral[k[2]] ELSE 20 + Numeral[k[2]]]
  BY Zenon DEF NumRoots
<1>2. \A v, w, x : <<w>> # <<v, x>> /\ <<>> # <<v, x>> /\ <<>> # <<w>>
  OBVIOUS
<1>3. \A w, v : <<w>> = <<v>> => w = v
  OBVIOUS
<1>4. \A w : <<w>>[1] = w
  OBVIOUS
<1>5. \A w : <<w>> \in One <=> w \in DOMAIN Numeral
  BY <1>3, Zenon
<1>6. \A w : <<w>> \notin Minus /\ <<w>> \notin Tens
  BY <1>2, Zenon
<1>7. <<>> \notin One \cup Minus \cup Tens
  BY <1>2, Zenon
<1> HIDE DEF One, Minus, Tens
<1>8. DOMAIN NumRoots = One \cup Minus \cup Tens
  BY <1>1, Zenon
<1>9. \A w : <<w>> \in One => NumRoots[<<w>>] = Numeral[<<w>>[1]]
  BY <1>1
<1> QED BY <1>4, <1>5, <1>6, <1>7, <1>8, <1>9

-----------------------------------------------------------------------------
LEMMA LiftIs ==
    ASSUME NEW p, FlagMqtt(p)
    PROVE  IF BufNum(p) \in DOMAIN NumRoots
           THEN AnalizeRequest(p).t = "lift" /\ AnalizeRequest(p).floor = NumRoots[BufNum(p)]
           ELSE AnalizeRequest(p).t = "throws"
<1>1. AnalizeRequest(p) = LiftAnswer(p)
  BY DEF AnalizeRequest
<1> QED BY <1>1 DEF LiftAnswer, ToFloor

LEMMA StaticIs ==
    ASSUME NEW p, ~FlagMqtt(p)
    PROVE  AnalizeRequest(p).t \in {"unknown", "static"}
<1>1. AnalizeRequest(p) = StaticAnswer(p)
  BY DEF AnalizeRequest
<1>2. PICK found : StaticAnswer(p) =
          [t |-> IF found = 0 \/ StaticPhrases[found].resp = "" THEN "unknown" ELSE "static",
           floor |-> 0, says |-> found]
  BY Zenon DEF StaticAnswer
<1> DEFINE none == found = 0 \/ StaticPhrases[found].resp = ""
<1>3. StaticAnswer(p) = [t |-> IF none THEN "unknown" ELSE "static", floor |-> 0, says |-> found]
  BY <1>2, Zenon
<1> HIDE DEF none
<1> QED BY <1>1, <1>3

(* __num_roots.at answers for no word but one of the phrase.               *)
LEMMA NoFloorMadeUp == FloorWasSaid
<1> SUFFICES ASSUME NEW p \in Said, AnalizeRequest(p).t = "lift"
             PROVE  /\ FlagMqtt(p)
                    /\ \E j \in DOMAIN p.tokens :
                          /\ p.tokens[j] \in DOMAIN Numeral
                          /\ AnalizeRequest(p).floor = Numeral[p.tokens[j]]
  BY DEF FloorWasSaid
<1>1. FlagMqtt(p)
  BY StaticIs
<1>2. BufNum(p) \in DOMAIN NumRoots /\ AnalizeRequest(p).floor = NumRoots[BufNum(p)]
  BY <1>1, LiftIs
<1>3. PICK j \in DOMAIN p.tokens : BufNum(p) = <<p.tokens[j]>>
  BY <1>2, BufNumChosen, OneWordKeys DEF Chosen
<1>4. p.tokens[j] \in DOMAIN Numeral /\ NumRoots[<<p.tokens[j]>>] = Numeral[p.tokens[j]]
  BY <1>2, <1>3, OneWordKeys
<1> QED BY <1>1, <1>2, <1>3, <1>4

(* Every root that the search finds is one of the ordinal's, and it finds  *)
(* one: the word it keeps is the ordinal, whichever root came last.        *)
LEMMA ClearRecognized == ClearIsRecognized
<1> SUFFICES ASSUME NEW p \in Said, NEW j \in DOMAIN p.tokens,
                    FlagMqtt(p), p.tokens[j] \in DOMAIN Numeral,
                    \A k \in DOMAIN p.tokens \ {j} : RootsIn[p.tokens[k]] = {}
             PROVE  /\ AnalizeRequest(p).t = "lift"
                    /\ AnalizeRequest(p).floor = Numeral[p.tokens[j]]
  BY DEF ClearIsRecognized
<1>1. p.tokens[j] \in Words \cap DOMAIN Numeral
  BY Spoken
<1>2. PICK i \in DOMAIN KeyRoots : Has(p, i, j)
  BY <1>1, OrdinalsAssumption DEF Has
<1>3. ASSUME NEW a \in DOMAIN KeyRoots, NEW b \in DOMAIN p.tokens, Has(p, a, b) PROVE b = j
  BY <1>3 DEF Has
<1>4. BufNum(p) = <<p.tokens[j]>>
  BY <1>2, <1>3, BufNumChosen DEF Chosen
<1>5. BufNum(p) \in DOMAIN NumRoots /\ NumRoots[BufNum(p)] = Numeral[p.tokens[j]]
  BY <1>4, OneWordKeys
<1> QED BY <1>5, LiftIs

LEMMA RankIs ==
    ASSUME NEW p \in Said, NEW j \in DOMAIN p.tokens
    PROVE  /\ Rank(p.tokens[j]) \in Nat
           /\ Rank(p.tokens[j]) > 0 => Rank(p.tokens[j]) \in DOMAIN KeyRoots
                                       /\ Has(p, Rank(p.tokens[j]), j)
           /\ \A i \in DOMAIN KeyRoots : Has(p, i, j) => i <= Rank(p.tokens[j])
<1> DEFINE at == {i \in DOMAIN KeyRoots : KeyRoots[i] \in RootsIn[p.tokens[j]]}
           r  == CHOOSE i \in at : \A k \in at : k <= i
<1>1. Rank(p.tokens[j]) = IF at = {} THEN 0 ELSE r
  BY Zenon DEF Rank
<1>2. at \in SUBSET (1..Len(KeyRoots)) /\ Len(KeyRoots) \in Nat
  BY Roots
<1>3. \A i \in DOMAIN KeyRoots : Has(p, i, j) <=> i \in at
  BY DEF Has
<1>4. CASE at = {}
  BY <1>1, <1>3, <1>4
<1>5. CASE at # {}
  <2> HIDE DEF at
  <2>1. \E m \in at : \A k \in at : k <= m
    BY <1>2, <1>5, Greatest, Zenon
  <2>2. r \in at /\ \A k \in at : k <= r
    BY <2>1, Zenon
  <2>3. r \in 1..Len(KeyRoots) /\ r \in DOMAIN KeyRoots
    BY <1>2, <2>2, Roots
  <2> HIDE DEF r
  <2> QED BY <1>1, <1>2, <1>3, <1>5, <2>2, <2>3
<1> QED BY <1>4, <1>5

(* The word whose last root comes last is the word of the last hit.        *)
LEMMA LastWins == LastRootWins
<1> SUFFICES ASSUME NEW p \in Said, NEW j \in DOMAIN p.tokens,
                    FlagMqtt(p), Rank(p.tokens[j]) > 0,
                    \A k \in DOMAIN p.tokens :
                        \/ Rank(p.tokens[k]) < Rank(p.tokens[j])
                        \/ Rank(p.tokens[k]) = Rank(p.tokens[j]) /\ k <= j
             PROVE  IF <<p.tokens[j]>> \in DOMAIN NumRoots
                    THEN /\ AnalizeRequest(p).t = "lift"
                         /\ AnalizeRequest(p).floor = NumRoots[<<p.tokens[j]>>]
                    ELSE AnalizeRequest(p).t = "throws"
  BY DEF LastRootWins
<1> DEFINE r == Rank(p.tokens[j])
<1>1. r \in DOMAIN KeyRoots /\ Has(p, r, j) /\ r \in Nat
  BY RankIs
<1>2. PICK i \in DOMAIN KeyRoots, b \in DOMAIN p.tokens :
          /\ Has(p, i, b) /\ BufNum(p) = <<p.tokens[b]>>
          /\ \A a \in DOMAIN KeyRoots, c \in DOMAIN p.tokens :
                Has(p, a, c) => a < i \/ (a = i /\ c <= b)
  BY <1>1, BufNumChosen DEF Chosen
<1>3. r < i \/ (r = i /\ j <= b)
  BY <1>1, <1>2
<1>4. i <= Rank(p.tokens[b]) /\ Rank(p.tokens[b]) \in Nat
  BY <1>2, RankIs
<1>5. Rank(p.tokens[b]) < r \/ (Rank(p.tokens[b]) = r /\ b <= j)
  OBVIOUS
<1>6. i \in Nat /\ b \in Nat /\ j \in Nat
  BY Roots, Spoken
<1> HIDE DEF r
<1>7. b = j
  BY <1>1, <1>3, <1>4, <1>5, <1>6
<1>8. BufNum(p) = <<p.tokens[j]>>
  BY <1>2, <1>7
<1> QED BY <1>8, LiftIs

(* The values of the ordinals, and those of the keys with two words.       *)
LEMMA OrdinalValues == \A w \in DOMAIN Numeral : Numeral[w] \in 0..20 \cup {30}
BY DEF Numeral

LEMMA TwoWordValues == TwoWordFloors \subseteq -3..-1 \cup 21..29
<1> DEFINE One   == {<<w>> : w \in DOMAIN Numeral}
           Minus == {<<"minus", w>> : w \in {v \in DOMAIN Numeral : Numeral[v] \in 1..3}}
           Tens  == {<<"dvadcat", w>> : w \in {v \in DOMAIN Numeral : Numeral[v] \in 1..9}}
<1>1. NumRoots = [k \in One \cup Minus \cup Tens |->
            IF k \in One THEN Numeral[k[1]]
            ELSE IF k \in Minus THEN -Numeral[k[2]] ELSE 20 + Numeral[k[2]]]
  BY Zenon DEF NumRoots
<1>2. \A k \in One : Len(k) = 1
  OBVIOUS
<1>3. \A k \in Minus : Numeral[k[2]] \in 1..3
  OBVIOUS
<1>4. \A k \in Tens : Numeral[k[2]] \in 1..9
  OBVIOUS
<1> HIDE DEF One, Minus, Tens
<1>5. ASSUME NEW k \in DOMAIN NumRoots, Len(k) = 2
      PROVE  NumRoots[k] \in -3..-1 \cup 21..29
  <2>1. k \notin One /\ k \in Minus \cup Tens
    BY <1>1, <1>2, <1>5
  <2>2. NumRoots[k] = IF k \in Minus THEN -Numeral[k[2]] ELSE 20 + Numeral[k[2]]
    BY <1>1, <2>1
  <2> QED BY <1>3, <1>4, <2>1, <2>2
<1> QED BY <1>5 DEF TwoWordFloors

(* at() is asked for one word, and no single word has such a value.        *)
LEMMA NotTwoWords == TwoWordsNeverMeant
<1> SUFFICES ASSUME NEW p \in Said, AnalizeRequest(p).t = "lift"
             PROVE  AnalizeRequest(p).floor \notin TwoWordFloors
  BY DEF TwoWordsNeverMeant
<1>1. AnalizeRequest(p).floor \in 0..20 \cup {30}
  BY NoFloorMadeUp, OrdinalValues DEF FloorWasSaid
<1> QED BY <1>1, TwoWordValues

-----------------------------------------------------------------------------
(* The search, for every request there can be, of any number of words and  *)
(* with whatever roots they share: no floor is made up, the floor is the   *)
(* one meant when the phrase is clear, and when it is not the one whose    *)
(* root comes last in __key_roots; the keys with two words serve nobody.   *)
THEOREM SearchRight ==
    FloorWasSaid /\ ClearIsRecognized /\ LastRootWins /\ TwoWordsNeverMeant
BY NoFloorMadeUp, ClearRecognized, LastWins, NotTwoWords

(* So the floor that __analizeRequest sends a lift to is always that of    *)
(* one word: what it sets numFloor from does not change.                   *)
THEOREM FloorAlwaysOfOneWord == Spec => []FloorIsOfOneWord
<1>1. FloorIsOfOneWord
  BY SearchRight DEF FloorIsOfOneWord
<1> QED BY <1>1, PTL

-----------------------------------------------------------------------------
(* The link.  What a socket holds of the worker's strands: their number,   *)
(* and the handlers they will come to.                                     *)
Size(x) == Len(x.pend) + Len(x.ready)

Names(q) == {q[i].h : i \in DOMAIN q}

Waiting(x) == Names(x.pend) \cup Names(x.ready)

(* A receive that succeeds has got something.                              *)
Fruitful(c) == c.ok /\ c.h \in {"reciveCommand", "sendResponse"} => c.got # <<>>

Completions == {c \in Completion : Fruitful(c)}

Sockets ==
    [sock     : {"closed", "opened", "connecting", "connected"},
     pend     : Seq(Op),
     ready    : Seq(Completions),
     peer     : Peers,
     toServer : Seq(Msg),
     toWorker : Seq(Msg)]

LEMMA FailedOperation ==
    ASSUME NEW op, op.h \in Handlers, op.m \in Msg
    PROVE  Failed(op) \in Completions /\ Failed(op).h = op.h
<1>1. Failed(op) \in Completion /\ ~Failed(op).ok /\ Failed(op).h = op.h
  BY DEF Failed, Completion
<1> QED BY <1>1 DEF Completions, Fruitful

LEMMA SucceededOperation ==
    ASSUME NEW op \in Op, NEW got \in Seq(Msg),
           op.h \in {"reciveCommand", "sendResponse"} => got # <<>>
    PROVE  Succeeded(op, got) \in Completions /\ Succeeded(op, got).h = op.h
<1>1. /\ Succeeded(op, got) \in Completion
      /\ Succeeded(op, got).h = op.h /\ Succeeded(op, got).got = got
  BY DEF Succeeded, Op, Completion
<1> QED BY <1>1 DEF Completions, Fruitful

LEMMA SocketFields ==
    ASSUME NEW x \in Sockets
    PROVE  /\ x.pend \in Seq(Op) /\ x.ready \in Seq(Completions)
           /\ x.toServer \in Seq(Msg) /\ x.toWorker \in Seq(Msg)
           /\ Size(x) \in Nat /\ Len(x.pend) \in Nat /\ Len(x.ready) \in Nat
BY DEF Sockets, Size

LEMMA SocketsTyped == Sockets \subseteq SocketType
<1>1. ASSUME NEW x \in Sockets PROVE x \in SocketType
  <2>1. x.ready \in Seq(Completions)
    BY SocketFields
  <2>2. x.ready \in Seq(Completion)
    <3>1. Completions \subseteq Completion
      BY DEF Completions
    <3> QED BY <2>1, <3>1
  <2> QED BY <2>2, Zenon DEF Sockets, SocketType
<1> QED BY <1>1

(* The handlers of sequences of operations and completions.                *)
LEMMA NamesAppend ==
    ASSUME NEW S, NEW q \in Seq(S), NEW c
    PROVE  Names(Append(q, c)) \subseteq Names(q) \cup {c.h}
<1> SUFFICES ASSUME NEW i \in DOMAIN Append(q, c)
             PROVE  Append(q, c)[i].h \in Names(q) \cup {c.h}
  BY DEF Names
<1>1. (i \in DOMAIN q /\ Append(q, c)[i] = q[i]) \/ Append(q, c)[i] = c
  OBVIOUS
<1> QED BY <1>1 DEF Names

LEMMA NamesConcatenation ==
    ASSUME NEW S, NEW a \in Seq(S), NEW b \in Seq(S)
    PROVE  Names(a \o b) \subseteq Names(a) \cup Names(b)
<1> SUFFICES ASSUME NEW i \in DOMAIN (a \o b)
             PROVE  (a \o b)[i].h \in Names(a) \cup Names(b)
  BY DEF Names
<1>1. \/ i \in DOMAIN a /\ (a \o b)[i] = a[i]
      \/ i - Len(a) \in DOMAIN b /\ (a \o b)[i] = b[i - Len(a)]
  OBVIOUS
<1> QED BY <1>1 DEF Names

LEMMA NamesTail ==
    ASSUME NEW S, NEW q \in Seq(S), q # <<>>
    PROVE  Names(Tail(q)) \subseteq Names(q)
<1> SUFFICES ASSUME NEW i \in DOMAIN Tail(q)
             PROVE  Tail(q)[i].h \in Names(q)
  BY DEF Names
<1>1. i + 1 \in DOMAIN q /\ Tail(q)[i] = q[i + 1]
  OBVIOUS
<1> QED BY <1>1 DEF Names

LEMMA NamesPart ==
    ASSUME NEW S, NEW q \in Seq(S), NEW a \in Nat, NEW b \in Nat, a >= 1, b <= Len(q)
    PROVE  Names(SubSeq(q, a, b)) \subseteq Names(q)
<1> SUFFICES ASSUME NEW i \in DOMAIN SubSeq(q, a, b)
             PROVE  SubSeq(q, a, b)[i].h \in Names(q)
  BY DEF Names
<1>1. a + i - 1 \in DOMAIN q /\ SubSeq(q, a, b)[i] = q[a + i - 1]
  OBVIOUS
<1> QED BY <1>1 DEF Names

LEMMA Concatenation ==
    ASSUME NEW S, NEW a \in Seq(S), NEW b \in Seq(S)
    PROVE  a \o b \in Seq(S) /\ Len(a \o b) = Len(a) + Len(b)
OBVIOUS

LEMMA Removal ==
    ASSUME NEW S, NEW q \in Seq(S), NEW i \in DOMAIN q
    PROVE  /\ RemoveAt(q, i) \in Seq(S) /\ Len(RemoveAt(q, i)) = Len(q) - 1
           /\ Names(RemoveAt(q, i)) \subseteq Names(q)
<1>1. i \in 1..Len(q) /\ Len(q) \in Nat
  OBVIOUS
<1> DEFINE a == SubSeq(q, 1, i - 1)
           b == SubSeq(q, i + 1, Len(q))
<1>2. a \in Seq(S) /\ Len(a) = i - 1
  BY <1>1
<1>3. b \in Seq(S) /\ Len(b) = Len(q) - i
  BY <1>1
<1>4. RemoveAt(q, i) = a \o b
  BY DEF RemoveAt
<1>5. Names(a) \subseteq Names(q) /\ Names(b) \subseteq Names(q)
  <2>1. i - 1 \in Nat /\ i + 1 \in Nat /\ i - 1 <= Len(q) /\ i + 1 >= 1
    BY <1>1
  <2> QED BY <1>1, <2>1, NamesPart
<1> HIDE DEF a, b
<1>6. a \o b \in Seq(S) /\ Len(a \o b) = Len(a) + Len(b)
  BY <1>2, <1>3, Concatenation
<1>7. Names(a \o b) \subseteq Names(q)
  BY <1>2, <1>3, <1>5, NamesConcatenation
<1> QED BY <1>1, <1>2, <1>3, <1>4, <1>6, <1>7

LEMMA NobodyWaits ==
    ASSUME NEW x \in Sockets, Size(x) = 0
    PROVE  Waiting(x) = {}
<1>1. Len(x.pend) \in Nat /\ Len(x.ready) \in Nat /\ x.pend \in Seq(Op) /\ x.ready \in Seq(Completions)
  BY SocketFields
<1>2. Len(x.pend) = 0 /\ Len(x.ready) = 0
  <2> DEFINE a == Len(x.pend)
             b == Len(x.ready)
  <2>1. a \in Nat /\ b \in Nat /\ a + b = 0
    BY <1>1 DEF Size
  <2> HIDE DEF a, b
  <2>2. a = 0 /\ b = 0
    BY <2>1
  <2> QED BY <2>2 DEF a, b
<1>3. DOMAIN x.pend = {} /\ DOMAIN x.ready = {}
  BY <1>1, <1>2
<1> QED BY <1>3 DEF Waiting, Names

-----------------------------------------------------------------------------
(* What may happen to a socket: a strand goes on, or one more begins, that *)
(* comes to handler h.                                                     *)
Went(y, x) == y \in Sockets /\ Size(y) = Size(x) /\ Waiting(y) \subseteq Waiting(x)

Begun(y, x, h) == y \in Sockets /\ Size(y) = Size(x) + 1 /\ Waiting(y) \subseteq Waiting(x) \cup {h}

(* The other fields of a socket do not matter.                             *)
LEMMA SameStrands ==
    ASSUME NEW x, NEW y, NEW z, Went(z, x), y \in Sockets, y.pend = z.pend, y.ready = z.ready
    PROVE  Went(y, x)
BY DEF Went, Size, Waiting

LEMMA CloseKept ==
    ASSUME NEW x \in Sockets
    PROVE  Went(Close(x), x)
<1>1. CASE x.sock = "closed"
  BY <1>1, SocketFields DEF Close, Went
<1>2. CASE x.sock # "closed"
  <2> DEFINE E == [i \in DOMAIN x.pend |-> Failed(x.pend[i])]
             y == Close(x)
  <2>1. ASSUME NEW i \in DOMAIN x.pend PROVE E[i] \in Completions /\ E[i].h = x.pend[i].h
    <3>1. x.pend[i] \in Op
      BY SocketFields
    <3> QED BY <3>1, FailedOperation DEF Op
  <2>2. E \in Seq(Completions) /\ Len(E) = Len(x.pend) /\ DOMAIN E = DOMAIN x.pend
    <3>1. DOMAIN x.pend = 1..Len(x.pend) /\ Len(x.pend) \in Nat /\ DOMAIN E = DOMAIN x.pend
      BY SocketFields
    <3> HIDE DEF E
    <3>2. E = [i \in 1..Len(x.pend) |-> E[i]]
      BY <3>1 DEF E
    <3>3. E \in [1..Len(x.pend) -> Completions]
      BY <2>1, <3>1, <3>2
    <3> QED BY <3>1, <3>3
  <2>3. y = [x EXCEPT !.sock = "closed", !.pend = <<>>, !.ready = @ \o E,
                      !.peer = "none", !.toServer = <<>>, !.toWorker = <<>>]
    BY <1>2 DEF Close
  <2>4. Names(E) \subseteq Names(x.pend)
    <3> HIDE DEF E
    <3> QED BY <2>1, <2>2 DEF Names
  <2> HIDE DEF E, y
  <2> DEFINE r == x.ready \o E
             d == <<>>
  <2>5. r \in Seq(Completions) /\ Len(r) = Len(x.ready) + Len(E)
    BY <2>2, SocketFields, Concatenation
  <2>6. Names(r) \subseteq Names(x.ready) \cup Names(E)
    BY <2>2, SocketFields, NamesConcatenation
  <2>7. y = [x EXCEPT !.sock = "closed", !.pend = d, !.ready = r,
                      !.peer = "none", !.toServer = d, !.toWorker = d]
    BY <2>3
  <2>8. d \in Seq(Op) /\ d \in Seq(Msg) /\ Len(d) = 0 /\ Names(d) = {}
    BY DEF Names
  <2> HIDE DEF r, d
  <2>9. y \in Sockets /\ y.pend = d /\ y.ready = r
    BY <2>5, <2>7, <2>8, Zenon DEF Sockets, Peers
  <2>10. Size(y) = Size(x)
    <3> DEFINE a == Len(x.pend)
               b == Len(x.ready)
               n == Len(r)
    <3>1. a \in Nat /\ b \in Nat
      BY SocketFields
    <3>2. n = b + a /\ Size(y) = 0 + n /\ Size(x) = a + b
      BY <2>2, <2>5, <2>8, <2>9 DEF Size
    <3> HIDE DEF a, b, n
    <3> QED BY <3>1, <3>2
  <2>11. Waiting(y) \subseteq Waiting(x)
    BY <2>4, <2>6, <2>8, <2>9 DEF Waiting
  <2> QED BY <2>9, <2>10, <2>11 DEF Went, y
<1> QED BY <1>1, <1>2

Ending(x, c) == [x EXCEPT !.ready = Append(@, c)]

LEMMA ReadyAppended ==
    ASSUME NEW x \in Sockets, NEW c \in Completions
    PROVE  Begun(Ending(x, c), x, c.h)
<1> DEFINE y == Ending(x, c)
           r == Append(x.ready, c)
<1>1. x.ready \in Seq(Completions)
  BY SocketFields
<1>2. r \in Seq(Completions) /\ Len(r) = Len(x.ready) + 1 /\ Names(r) \subseteq Names(x.ready) \cup {c.h}
  BY <1>1, NamesAppend
<1>3. y = [x EXCEPT !.ready = r]
  BY DEF Ending
<1> HIDE DEF r, y
<1>4. y \in Sockets /\ y.ready = r /\ y.pend = x.pend
  BY <1>2, <1>3, Zenon DEF Sockets
<1>5. Size(y) = Size(x) + 1
  <2> DEFINE a == Len(x.pend)
             b == Len(x.ready)
             n == Len(r)
  <2>1. a \in Nat /\ b \in Nat
    BY SocketFields
  <2>2. n = b + 1 /\ Size(y) = a + n /\ Size(x) = a + b
    BY <1>2, <1>4 DEF Size
  <2> HIDE DEF a, b, n
  <2> QED BY <2>1, <2>2
<1>6. Waiting(y) \subseteq Waiting(x) \cup {c.h}
  BY <1>2, <1>4 DEF Waiting
<1> QED BY <1>4, <1>5, <1>6 DEF Begun, y

Opening(x, k, op) == [x EXCEPT !.sock = k, !.pend = Append(@, op)]

LEMMA PendAppended ==
    ASSUME NEW x \in Sockets, NEW op \in Op, NEW k,
           k \in {"closed", "opened", "connecting", "connected"}
    PROVE  Begun(Opening(x, k, op), x, op.h)
<1> DEFINE y == Opening(x, k, op)
           r == Append(x.pend, op)
<1>1. x.pend \in Seq(Op)
  BY SocketFields
<1>2. r \in Seq(Op) /\ Len(r) = Len(x.pend) + 1 /\ Names(r) \subseteq Names(x.pend) \cup {op.h}
  BY <1>1, NamesAppend
<1>3. y = [x EXCEPT !.sock = k, !.pend = r]
  BY DEF Opening, Sockets
<1> HIDE DEF r, y
<1>4. y \in Sockets /\ y.ready = x.ready /\ y.pend = r
  BY <1>2, <1>3, Zenon DEF Sockets
<1>5. Size(y) = Size(x) + 1
  <2> DEFINE a == Len(x.pend)
             b == Len(x.ready)
             n == Len(r)
  <2>1. a \in Nat /\ b \in Nat
    BY SocketFields
  <2>2. n = a + 1 /\ Size(y) = n + b /\ Size(x) = a + b
    BY <1>2, <1>4 DEF Size
  <2> HIDE DEF a, b, n
  <2> QED BY <2>1, <2>2
<1>6. Waiting(y) \subseteq Waiting(x) \cup {op.h}
  BY <1>2, <1>4 DEF Waiting
<1> QED BY <1>4, <1>5, <1>6 DEF Begun, y

LEMMA FailsAtOnce ==
    ASSUME NEW x \in Sockets, NEW op, op.h \in Handlers, op.m \in Msg
    PROVE  Begun([x EXCEPT !.ready = Append(@, Failed(op))], x, op.h)
<1>1. Failed(op) \in Completions /\ Failed(op).h = op.h
  BY FailedOperation
<1>2. Begun(Ending(x, Failed(op)), x, op.h)
  BY <1>1, ReadyAppended
<1> QED BY <1>2 DEF Ending

LEMMA BeginKept ==
    ASSUME NEW x \in Sockets, NEW op \in Op
    PROVE  Begun(Begin(x, op), x, op.h)
<1>1. CASE x.sock = "closed"
  <2>1. op.h \in Handlers /\ op.m \in Msg
    BY DEF Op
  <2>2. Begun([x EXCEPT !.ready = Append(@, Failed(op))], x, op.h)
    BY <2>1, FailsAtOnce
  <2> QED BY <1>1, <2>2 DEF Begin
<1>2. CASE x.sock # "closed"
  <2> DEFINE k == x.sock
  <2>1. Begin(x, op) = Opening(x, k, op) /\ k \in {"closed", "opened", "connecting", "connected"}
    BY <1>2 DEF Begin, Opening, Sockets
  <2> HIDE DEF k
  <2> QED BY <2>1, PendAppended
<1> QED BY <1>1, <1>2

LEMMA SendKept ==
    ASSUME NEW x \in Sockets, NEW h \in Handlers, NEW m \in Msg
    PROVE  Begun(AsyncSend(x, h, m), x, h)
<1>1. Operation(h, m) \in Op /\ Operation(h, m).h = h
  BY DEF Operation, Op
<1> QED BY <1>1, BeginKept DEF AsyncSend

LEMMA PlainMessage ==
    ASSUME NEW t, t \in {"none", "connect", "reply", "ping", "pong", "request", "answer", "junk"}
    PROVE  Plain(t) \in Msg
BY DEF Plain, Msg

LEMMA NoMessage == NoMsg \in Msg
BY PlainMessage DEF NoMsg

LEMMA ReceiveKept ==
    ASSUME NEW x \in Sockets, NEW h \in Handlers
    PROVE  Begun(AsyncReceive(x, h), x, h)
<1>1. Operation(h, NoMsg) \in Op /\ Operation(h, NoMsg).h = h
  BY NoMessage DEF Operation, Op
<1> QED BY <1>1, BeginKept DEF AsyncReceive

LEMMA ConnectKept ==
    ASSUME NEW x \in Sockets
    PROVE  Begun(ConnectToMS(x), x, "sendConnect")
<1> DEFINE op == Operation("sendConnect", NoMsg)
           y == ConnectToMS(x)
<1>1. op \in Op /\ op.h = "sendConnect" /\ op.h \in Handlers /\ op.m \in Msg
  BY NoMessage DEF Operation, Op, Handlers
<1>2. y = IF x.sock \in {"closed", "opened"}
          THEN [x EXCEPT !.sock = "connecting", !.pend = Append(@, op)]
          ELSE [x EXCEPT !.ready = Append(@, Failed(op))]
  BY DEF ConnectToMS, AsyncConnect
<1> HIDE DEF op, y
<1>3. CASE x.sock \in {"closed", "opened"}
  <2> DEFINE k == "connecting"
  <2>1. y = Opening(x, k, op) /\ k \in {"closed", "opened", "connecting", "connected"}
    BY <1>2, <1>3 DEF Opening
  <2> HIDE DEF k
  <2>2. Begun(y, x, op.h)
    BY <1>1, <2>1, PendAppended
  <2> QED BY <1>1, <2>2 DEF y
<1>4. CASE x.sock \notin {"closed", "opened"}
  <2>1. Begun([x EXCEPT !.ready = Append(@, Failed(op))], x, op.h)
    BY <1>1, FailsAtOnce
  <2> QED BY <1>1, <1>2, <1>4, <2>1 DEF y
<1> QED BY <1>3, <1>4

-----------------------------------------------------------------------------
(* The reactor: an operation completes.                                    *)
LEMMA CompleteKept ==
    ASSUME NEW x \in Sockets, NEW i \in DOMAIN x.pend, NEW c \in Completions, c.h = x.pend[i].h
    PROVE  Went(Complete(x, i, c), x)
<1> DEFINE y == Complete(x, i, c)
           p == RemoveAt(x.pend, i)
           r == Append(x.ready, c)
<1>1. x.pend \in Seq(Op) /\ x.ready \in Seq(Completions)
  BY SocketFields
<1>2. r \in Seq(Completions) /\ Len(r) = Len(x.ready) + 1 /\ Names(r) \subseteq Names(x.ready) \cup {c.h}
  BY <1>1, NamesAppend
<1>3. p \in Seq(Op) /\ Len(p) = Len(x.pend) - 1 /\ Names(p) \subseteq Names(x.pend)
  BY <1>1, Removal
<1>4. y = [x EXCEPT !.pend = p, !.ready = r]
  BY DEF Complete
<1> HIDE DEF y, p, r
<1>5. y \in Sockets /\ y.ready = r /\ y.pend = p
  BY <1>2, <1>3, <1>4, Zenon DEF Sockets
<1>6. Size(y) = Size(x)
  <2> DEFINE a == Len(x.pend)
             b == Len(x.ready)
             d == Len(p)
             e == Len(r)
  <2>1. a \in Nat /\ b \in Nat
    BY SocketFields
  <2>2. d = a - 1 /\ e = b + 1 /\ Size(y) = d + e /\ Size(x) = a + b
    BY <1>2, <1>3, <1>5 DEF Size
  <2> HIDE DEF a, b, d, e
  <2> QED BY <2>1, <2>2
<1>7. Waiting(y) \subseteq Waiting(x)
  <2>1. c.h \in Names(x.pend)
    BY DEF Names
  <2> QED BY <1>2, <1>3, <1>5, <2>1 DEF Waiting
<1> QED BY <1>5, <1>6, <1>7 DEF Went, y

LEMMA PendingOperation ==
    ASSUME NEW x \in Sockets, NEW i \in DOMAIN x.pend
    PROVE  x.pend[i] \in Op /\ x.pend[i].h \in Handlers /\ x.pend[i].m \in Msg
<1>1. x.pend[i] \in Op
  BY SocketFields
<1> QED BY <1>1 DEF Op

LEMMA FailsKept ==
    ASSUME NEW x \in Sockets, NEW i \in DOMAIN x.pend
    PROVE  Went(OperationFails(x, i), x)
<1>1. Failed(x.pend[i]) \in Completions /\ Failed(x.pend[i]).h = x.pend[i].h
  BY PendingOperation, FailedOperation
<1>2. Went(Complete(x, i, Failed(x.pend[i])), x)
  BY <1>1, CompleteKept
<1> QED BY <1>2 DEF OperationFails

LEMMA RefusedKept ==
    ASSUME NEW x \in Sockets, NEW i \in DOMAIN x.pend
    PROVE  Went(ConnectRefused(x, i), x)
<1> DEFINE z == OperationFails(x, i)
           y == ConnectRefused(x, i)
<1>1. Went(z, x)
  BY FailsKept
<1>2. y = [z EXCEPT !.sock = "opened"]
  BY DEF ConnectRefused, OperationFails
<1> HIDE DEF y, z
<1>3. y \in Sockets /\ y.pend = z.pend /\ y.ready = z.ready
  BY <1>1, <1>2, Zenon DEF Went, Sockets
<1>4. Went(y, x)
  BY <1>1, <1>3, SameStrands
<1> QED BY <1>4 DEF y

(* An operation that is no receive succeeds.                               *)
LEMMA SucceedsKept ==
    ASSUME NEW x \in Sockets, NEW i \in DOMAIN x.pend,
           x.pend[i].h \notin {"reciveCommand", "sendResponse"}
    PROVE  Went(Complete(x, i, Succeeded(x.pend[i], <<>>)), x)
<1> DEFINE g == <<>>
           op == x.pend[i]
           c == Succeeded(op, g)
<1>1. op \in Op /\ g \in Seq(Msg)
  BY PendingOperation
<1> HIDE DEF g, op
<1>2. c \in Completions /\ c.h = op.h
  BY <1>1, SucceededOperation DEF op
<1> HIDE DEF c
<1>3. Went(Complete(x, i, c), x)
  BY <1>2, CompleteKept DEF op
<1> QED BY <1>3 DEF c, op, g

LEMMA ConnectedKept ==
    ASSUME NEW x \in Sockets, NEW i \in DOMAIN x.pend,
           x.pend[i].h \notin {"reciveCommand", "sendResponse"}
    PROVE  Went(Connected(x, i), x)
<1> DEFINE z == Complete(x, i, Succeeded(x.pend[i], <<>>))
           y == Connected(x, i)
<1>1. Went(z, x)
  BY SucceedsKept
<1>2. y = [z EXCEPT !.sock = "connected", !.peer = "open"]
  BY DEF Connected
<1> HIDE DEF y, z
<1>3. y \in Sockets /\ y.pend = z.pend /\ y.ready = z.ready
  BY <1>1, <1>2, Zenon DEF Went, Sockets, Peers
<1>4. Went(y, x)
  BY <1>1, <1>3, SameStrands
<1> QED BY <1>4 DEF y

LEMMA SentKept ==
    ASSUME NEW x \in Sockets, NEW i \in DOMAIN x.pend,
           x.pend[i].h \notin {"reciveCommand", "sendResponse"}
    PROVE  Went(SendDone(x, i), x)
<1> DEFINE z == Complete(x, i, Succeeded(x.pend[i], <<>>))
           y == SendDone(x, i)
           t == IF x.peer \in {"open", "accepted"} /\ x.pend[i].m # NoMsg
                THEN Append(z.toServer, x.pend[i].m) ELSE z.toServer
<1>1. Went(z, x)
  BY SucceedsKept
<1>2. y = [z EXCEPT !.toServer = t]
  BY DEF SendDone
<1> HIDE DEF y, z
<1>3. x.pend[i].m \in Msg
  BY PendingOperation
<1>4. t \in Seq(Msg)
  BY <1>1, <1>3, SocketFields DEF Went
<1> HIDE DEF t
<1>5. y \in Sockets /\ y.pend = z.pend /\ y.ready = z.ready
  BY <1>1, <1>2, <1>4, Zenon DEF Went, Sockets
<1>6. Went(y, x)
  BY <1>1, <1>5, SameStrands
<1> QED BY <1>6 DEF y

(* A receive returns the first k messages.                                 *)
LEMMA ReceivedKept ==
    ASSUME NEW x \in Sockets, NEW i \in DOMAIN x.pend,
           NEW k, k \in Nat, k # 0, k <= Len(x.toWorker)
    PROVE  Went(ReceiveDone(x, i, k), x)
<1> DEFINE g == SubSeq(x.toWorker, 1, k)
           w == SubSeq(x.toWorker, k + 1, Len(x.toWorker))
           op == x.pend[i]
           c == Succeeded(op, g)
           z == Complete(x, i, c)
           y == ReceiveDone(x, i, k)
<1>1. op \in Op /\ x.toWorker \in Seq(Msg)
  BY SocketFields
<1>2. g \in Seq(Msg) /\ g # <<>> /\ w \in Seq(Msg)
  BY <1>1
<1>3. y = [z EXCEPT !.toWorker = w]
  BY DEF ReceiveDone, Complete
<1> HIDE DEF g, w, op
<1>4. c \in Completions /\ c.h = op.h
  BY <1>1, <1>2, SucceededOperation
<1> HIDE DEF c
<1>5. Went(z, x)
  BY <1>4, CompleteKept DEF op
<1> HIDE DEF z, y
<1>6. y \in Sockets /\ y.pend = z.pend /\ y.ready = z.ready
  BY <1>2, <1>3, <1>5, Zenon DEF Went, Sockets
<1>7. Went(y, x)
  BY <1>5, <1>6, SameStrands
<1> QED BY <1>7 DEF y

(* A receive returns the first k messages and the beginning of the next.   *)
LEMMA SplitKept ==
    ASSUME NEW x \in Sockets, NEW i \in DOMAIN x.pend, NEW k, k \in Nat, k < Len(x.toWorker),
           NEW first \in Msg, NEW rest \in Msg
    PROVE  Went(ReceiveSplit(x, i, k, first, rest), x)
<1> DEFINE g == Append(SubSeq(x.toWorker, 1, k), first)
           w == <<rest>> \o SubSeq(x.toWorker, k + 2, Len(x.toWorker))
           op == x.pend[i]
           c == Succeeded(op, g)
           z == Complete(x, i, c)
           y == ReceiveSplit(x, i, k, first, rest)
<1>1. op \in Op /\ x.toWorker \in Seq(Msg)
  BY SocketFields
<1>2. g \in Seq(Msg) /\ g # <<>>
  <2>1. SubSeq(x.toWorker, 1, k) \in Seq(Msg)
    BY <1>1
  <2> QED BY <2>1
<1>3. w \in Seq(Msg)
  <2>1. SubSeq(x.toWorker, k + 2, Len(x.toWorker)) \in Seq(Msg)
    BY <1>1
  <2> QED BY <2>1, Concatenation
<1>4. y = [z EXCEPT !.toWorker = w]
  BY DEF ReceiveSplit, Complete
<1> HIDE DEF g, w, op
<1>5. c \in Completions /\ c.h = op.h
  BY <1>1, <1>2, SucceededOperation
<1> HIDE DEF c
<1>6. Went(z, x)
  BY <1>5, CompleteKept DEF op
<1> HIDE DEF z, y
<1>7. y \in Sockets /\ y.pend = z.pend /\ y.ready = z.ready
  BY <1>3, <1>4, <1>6, Zenon DEF Went, Sockets
<1>8. Went(y, x)
  BY <1>6, <1>7, SameStrands
<1> QED BY <1>8 DEF y

(* A handler's completion is taken from the socket.                        *)
LEMMA PoppedKept ==
    ASSUME s \in Sockets, s.ready # <<>>
    PROVE  /\ Popped \in Sockets /\ Size(Popped) = Size(s) - 1 /\ Size(s) \in Nat
           /\ Waiting(Popped) \subseteq Waiting(s)
           /\ Done \in Completions /\ Done.h \in Waiting(s)
<1> DEFINE y == Popped
           r == Tail(s.ready)
<1>1. s.ready \in Seq(Completions) /\ Size(s) \in Nat
  BY SocketFields
<1>2. r \in Seq(Completions) /\ Len(r) = Len(s.ready) - 1 /\ Names(r) \subseteq Names(s.ready)
  BY <1>1, NamesTail
<1>3. Done \in Completions /\ Done.h \in Waiting(s)
  <2>1. 1 \in DOMAIN s.ready /\ Done = s.ready[1]
    BY <1>1 DEF Done
  <2> QED BY <1>1, <2>1 DEF Waiting, Names
<1>4. y = [s EXCEPT !.ready = r]
  BY DEF Popped
<1> HIDE DEF y, r
<1>5. y \in Sockets /\ y.ready = r /\ y.pend = s.pend
  BY <1>2, <1>4, Zenon DEF Sockets
<1>6. Size(y) = Size(s) - 1
  <2> DEFINE a == Len(s.pend)
             b == Len(s.ready)
             n == Len(r)
  <2>1. a \in Nat /\ b \in Nat
    BY SocketFields
  <2>2. n = b - 1 /\ Size(y) = a + n /\ Size(s) = a + b
    BY <1>2, <1>5 DEF Size
  <2> HIDE DEF a, b, n
  <2> QED BY <2>1, <2>2
<1>7. Waiting(y) \subseteq Waiting(s)
  BY <1>2, <1>5 DEF Waiting
<1> QED BY <1>1, <1>3, <1>5, <1>6, <1>7 DEF y

-----------------------------------------------------------------------------
(* The answers to the messages of one receive.                             *)
Handler(m) == IF Answers(m) THEN "reciveAnswer" ELSE "sendResponse"

LEMMA RespondKept ==
    ASSUME NEW x, x[1] \in Sockets, x[2] \in Msg, NEW m \in Msg
    PROVE  Begun(Respond(x, m)[1], x[1], Handler(m)) /\ Respond(x, m)[2] \in Msg
<1> DEFINE y == IF m.p # NoPhrase /\ Stranger(m.p) THEN Stop(x[1]) ELSE x[1]
           a == CASE m.t = "ping" -> Plain("pong")
                  [] m.t = "request" -> [Plain("answer") EXCEPT !.q = m.q]
                  [] OTHER -> x[2]
           w == x[1]
           z == Respond(x, m)
<1>1. z = IF m.t = "request" /\ ~Understood(m.p)
          THEN <<AsyncReceive(y, "sendResponse"), x[2]>>
          ELSE <<AsyncSend(y, "reciveAnswer", a), a>>
  BY Zenon DEF Respond
<1>2. a \in Msg
  <2>1. m.q \in Requests \cup {NoRequest}
    BY DEF Msg
  <2>2. [Plain("answer") EXCEPT !.q = m.q] \in Msg
    BY <2>1 DEF Plain, Msg
  <2>3. Plain("pong") \in Msg
    BY PlainMessage
  <2> QED BY <2>2, <2>3
<1>3. Went(y, w)
  <2>1. Went(w, w)
    BY DEF Went
  <2>2. Went(Stop(w), w)
    BY CloseKept DEF Stop
  <2> QED BY <2>1, <2>2
<1>4. y \in Sockets /\ Size(y) = Size(w) /\ Waiting(y) \subseteq Waiting(w)
  BY <1>3 DEF Went
<1> HIDE DEF y, a, w, z
<1>5. CASE m.t = "request" /\ ~Understood(m.p)
  <2>1. z[1] = AsyncReceive(y, "sendResponse") /\ z[2] \in Msg /\ Handler(m) = "sendResponse"
    BY <1>1, <1>5 DEF Handler, Answers
  <2>2. "sendResponse" \in Handlers
    BY DEF Handlers
  <2>3. Begun(z[1], y, "sendResponse")
    BY <1>4, <2>1, <2>2, ReceiveKept
  <2>4. Begun(z[1], w, Handler(m))
    BY <1>4, <2>1, <2>3 DEF Begun
  <2> QED BY <2>1, <2>4 DEF z, w
<1>6. CASE ~(m.t = "request" /\ ~Understood(m.p))
  <2>1. z[1] = AsyncSend(y, "reciveAnswer", a) /\ z[2] \in Msg /\ Handler(m) = "reciveAnswer"
    BY <1>1, <1>2, <1>6 DEF Handler, Answers
  <2>2. "reciveAnswer" \in Handlers
    BY DEF Handlers
  <2>3. Begun(z[1], y, "reciveAnswer")
    BY <1>2, <1>4, <2>1, <2>2, SendKept
  <2>4. Begun(z[1], w, Handler(m))
    BY <1>4, <2>1, <2>3 DEF Begun
  <2> QED BY <2>1, <2>4 DEF z, w
<1> QED BY <1>5, <1>6

RespondLoop(got, n, f) ==
    f = [k \in 0..n |-> IF k = 0 THEN <<Popped, buf>> ELSE Respond(f[k - 1], got[k])]

LEMMA RespondDefined ==
    ASSUME NEW got, NEW n \in Nat
    PROVE  \E f : RespondLoop(got, n, f)
<1> DEFINE T == {m \in Nat : \E f : RespondLoop(got, m, f)}
<1>1. 0 \in T
  <2>1. RespondLoop(got, 0, [k \in 0..0 |-> <<Popped, buf>>])
    BY DEF RespondLoop
  <2> QED BY <2>1
<1>2. ASSUME NEW STATE m, m \in T PROVE m + 1 \in T
  <2>1. m \in Nat /\ m + 1 \in Nat
    BY <1>2
  <2>2. PICK f : RespondLoop(got, m, f)
    BY <1>2, Zenon
  <2> DEFINE g == [k \in 0..(m + 1) |-> IF k <= m THEN f[k] ELSE Respond(f[k - 1], got[k])]
  <2>3. \A k \in 0..m : f[k] = IF k = 0 THEN <<Popped, buf>> ELSE Respond(f[k - 1], got[k])
    BY <2>2 DEF RespondLoop
  <2>4. ASSUME NEW k \in 0..(m + 1)
        PROVE  g[k] = IF k = 0 THEN <<Popped, buf>> ELSE Respond(g[k - 1], got[k])
    <3>1. CASE k = 0
      BY <2>1, <2>3, <3>1
    <3>2. CASE k # 0
      <4>1. k - 1 \in 0..(m + 1) /\ k - 1 <= m
        BY <2>1, <3>2
      <4>2. g[k - 1] = f[k - 1]
        BY <4>1
      <4>3. g[k] = Respond(f[k - 1], got[k])
        <5>1. CASE k <= m
          BY <2>1, <2>3, <3>2, <5>1
        <5>2. CASE ~(k <= m)
          BY <5>2
        <5> QED BY <5>1, <5>2
      <4> QED BY <3>2, <4>2, <4>3
    <3> QED BY <3>1, <3>2
  <2>5. g = [k \in 0..(m + 1) |-> IF k = 0 THEN <<Popped, buf>> ELSE Respond(g[k - 1], got[k])]
    <3>1. g = [k \in 0..(m + 1) |-> g[k]]
      OBVIOUS
    <3> HIDE DEF g
    <3> QED BY <2>4, <3>1
  <2>6. RespondLoop(got, m + 1, g)
    BY <2>5, Zenon DEF RespondLoop
  <2> QED BY <2>1, <2>6
<1>3. T = Nat
  <2>1. T \in SUBSET Nat
    OBVIOUS
  <2> HIDE DEF T
  <2> QED BY <1>1, <1>2, <2>1, Induct
<1>4. n \in T
  BY <1>3
<1> QED BY <1>4

(* Every message is answered or arms a receive; of one message alone       *)
(* exactly one strand comes.                                               *)
LEMMA RespondedKept ==
    ASSUME NEW got, got \in Seq(Msg), Popped \in Sockets, buf \in Msg
    PROVE  /\ Responded(got)[1] \in Sockets /\ Responded(got)[2] \in Msg
           /\ Len(got) = 1 => Begun(Responded(got)[1], Popped, Handler(got[1]))
<1> DEFINE n == Len(got)
           g == CHOOSE f : RespondLoop(got, n, f)
<1>1. n \in Nat
  OBVIOUS
<1>2. \E f : RespondLoop(got, n, f)
  BY <1>1, RespondDefined
<1>3. RespondLoop(got, n, g)
  BY <1>2, Zenon
<1>4. Responded(got) = g[n]
  BY Zenon DEF Responded, RespondLoop
<1> HIDE DEF g
<1>5. \A k \in 0..n : g[k] = IF k = 0 THEN <<Popped, buf>> ELSE Respond(g[k - 1], got[k])
  BY <1>3 DEF RespondLoop
<1>6. g[0] = <<Popped, buf>> /\ g[0][1] = Popped /\ g[0][2] = buf
  BY <1>1, <1>5
<1> DEFINE T == {m \in Nat : m <= n => g[m][1] \in Sockets /\ g[m][2] \in Msg}
<1>7. 0 \in T
  BY <1>6
<1>8. ASSUME NEW STATE m, m \in T PROVE m + 1 \in T
  <2> SUFFICES ASSUME m + 1 <= n PROVE g[m + 1][1] \in Sockets /\ g[m + 1][2] \in Msg
    BY <1>8
  <2>1. /\ m \in Nat /\ m <= n /\ m + 1 \in 0..n /\ m + 1 # 0 /\ (m + 1) - 1 = m
        /\ m + 1 \in DOMAIN got
    BY <1>1, <1>8
  <2>2. g[m + 1] = Respond(g[m], got[m + 1])
    BY <1>5, <2>1
  <2>3. g[m][1] \in Sockets /\ g[m][2] \in Msg
    BY <1>8, <2>1
  <2>4. got[m + 1] \in Msg
    BY <2>1
  <2> QED BY <2>2, <2>3, <2>4, RespondKept DEF Begun
<1>9. T = Nat
  <2>1. T \in SUBSET Nat
    OBVIOUS
  <2> HIDE DEF T
  <2> QED BY <1>7, <1>8, <2>1, Induct
<1>10. g[n][1] \in Sockets /\ g[n][2] \in Msg
  BY <1>1, <1>9
<1>11. ASSUME n = 1 PROVE Begun(g[n][1], Popped, Handler(got[1]))
  <2>1. 1 \in 0..n /\ 1 - 1 = 0 /\ 1 \in DOMAIN got /\ got[1] \in Msg
    BY <1>11
  <2>2. g[n] = Respond(g[0], got[1])
    BY <1>5, <1>11, <2>1
  <2> QED BY <1>6, <2>1, <2>2, RespondKept
<1> QED BY <1>4, <1>10, <1>11

-----------------------------------------------------------------------------
(* While messages were answered one by one there is one strand; and if it  *)
(* is the answer's, __flag_end_send is set, so that the receive after it   *)
(* is armed.                                                               *)
Strand ==
    together \/ (Size(s) = 1 /\ ("reciveAnswer" \in Waiting(s) => endSend))

LinkInv ==
    /\ s \in Sockets /\ TypeOK
    /\ Strand

Flags == {endSend, skewed, resending, together} \subseteq BOOLEAN

Rest ==
    /\ json \in Seq(Msg) /\ parser \in {"clean", "mid", "spoilt"} /\ tables \subseteq Tables
    /\ asked \subseteq Requests /\ answered \subseteq Requests /\ mixed \subseteq Requests
    /\ pings \in 0..MaxSent /\ faults \in 0..MaxFaults /\ splits \in 0..MaxSplits

LEMMA TypeParts == s \in Sockets /\ TypeOK <=> s \in Sockets /\ buf \in Msg /\ Flags /\ Rest
BY SocketsTyped DEF TypeOK, Flags, Rest

LEMMA LinkStarts == Init => LinkInv
<1> SUFFICES ASSUME Init PROVE LinkInv
  OBVIOUS
<1>1. NewSocket \in Sockets
  BY DEF NewSocket, Sockets, Peers
<1>2. Size(NewSocket) = 0 /\ Waiting(NewSocket) = {}
  BY DEF NewSocket, Size, Waiting, Names
<1>3. Begun(s, NewSocket, "sendConnect")
  BY <1>1, ConnectKept DEF Init
<1>4. s \in Sockets /\ Size(s) = 1 /\ Waiting(s) \subseteq {"sendConnect"}
  BY <1>2, <1>3 DEF Begun
<1>5. buf \in Msg
  BY NoMessage DEF Init
<1>6. Flags /\ Rest
  <2>1. Flags
    BY Zenon DEF Init, Flags
  <2>2. Rest
    BY ConstantsAssumption DEF Init, Rest
  <2> QED BY <2>1, <2>2
<1>7. "reciveAnswer" \notin Waiting(s)
  BY <1>4
<1> QED BY <1>4, <1>5, <1>6, <1>7, TypeParts DEF LinkInv, Strand

(* A step that only moves strands on.                                      *)
LEMMA WentKeeps ==
    ASSUME LinkInv, Went(s', s), Rest',
           UNCHANGED <<buf, endSend, skewed, resending, together>>
    PROVE  LinkInv'
<1>1. s' \in Sockets /\ Size(s') = Size(s) /\ Waiting(s') \subseteq Waiting(s)
  BY DEF Went
<1>2. Strand'
  BY <1>1 DEF LinkInv, Strand
<1>3. buf \in Msg /\ Flags
  BY TypeParts DEF LinkInv
<1>4. (buf \in Msg /\ Flags)'
  BY <1>3 DEF Flags
<1>5. (s \in Sockets /\ TypeOK)'
  BY <1>1, <1>4, SocketsTyped DEF TypeOK, Flags, Rest
<1> QED BY <1>2, <1>5 DEF LinkInv

LEMMA RestKept ==
    ASSUME LinkInv, UNCHANGED <<received, others>>
    PROVE  Rest'
BY DEF LinkInv, TypeOK, Rest, received, others, server, network

LEMMA RestReceived ==
    ASSUME LinkInv, json' \in Seq(Msg), parser' \in {"clean", "mid", "spoilt"}, UNCHANGED others
    PROVE  Rest'
BY DEF LinkInv, TypeOK, Rest, others, server, network

(* A handler that begins one operation, of handler h.                      *)
LEMMA OneGoesOn ==
    ASSUME LinkInv, s.ready # <<>>, NEW h, Begun(s', Popped, h),
           buf' \in Msg, Flags', Rest', together => together',
           ~together' /\ h = "reciveAnswer" => endSend'
    PROVE  LinkInv'
<1>1. s' \in Sockets /\ Size(s') = Size(Popped) + 1 /\ Waiting(s') \subseteq Waiting(Popped) \cup {h}
  BY DEF Begun
<1>2. Popped \in Sockets /\ Size(Popped) = Size(s) - 1
  BY PoppedKept DEF LinkInv
<1>3. Strand'
  <2>1. CASE together'
    BY <2>1 DEF Strand
  <2>2. CASE ~together'
    <3>1. Size(s) = 1
      BY <2>2 DEF LinkInv, Strand
    <3>2. Size(Popped) = 0
      BY <1>2, <3>1
    <3>3. Waiting(Popped) = {}
      BY <1>2, <3>2, NobodyWaits
    <3>4. Size(s') = 1 /\ Waiting(s') \subseteq {h}
      BY <1>1, <3>2, <3>3
    <3> QED BY <2>2, <3>4 DEF Strand
  <2> QED BY <2>1, <2>2
<1>4. TypeOK'
  BY <1>1, SocketsTyped DEF TypeOK, Flags, Rest
<1> QED BY <1>1, <1>3, <1>4 DEF LinkInv

(* What a handler knows when it runs.                                      *)
LEMMA HandlerRuns ==
    ASSUME LinkInv, NEW h, NEW ok, Runs(h, ok)
    PROVE  /\ s.ready # <<>> /\ Popped \in Sockets /\ buf \in Msg /\ Flags /\ Rest
           /\ Done \in Completions /\ Done.h = h /\ Done.ok = ok
           /\ Done.h \in Handlers /\ Done.m \in Msg /\ Done.got \in Seq(Msg)
           /\ ~together /\ h = "reciveAnswer" => endSend
<1>1. s.ready # <<>> /\ Done.h = h /\ Done.ok = ok
  BY DEF Runs
<1>2. Popped \in Sockets /\ Done \in Completions /\ Done.h \in Waiting(s)
  BY <1>1, PoppedKept DEF LinkInv
<1>3. buf \in Msg /\ Flags /\ Rest
  BY TypeParts DEF LinkInv
<1>4. Done.h \in Handlers /\ Done.m \in Msg /\ Done.got \in Seq(Msg)
  BY <1>2 DEF Completions, Completion
<1>5. ~together /\ h = "reciveAnswer" => endSend
  BY <1>1, <1>2 DEF LinkInv, Strand
<1> QED BY <1>1, <1>2, <1>3, <1>4, <1>5

LEMMA FlagsKept ==
    ASSUME Flags, UNCHANGED <<endSend, skewed, resending, together>>
    PROVE  Flags'
BY DEF Flags

LEMMA ReconnectKeeps ==
    ASSUME LinkInv, Reconnect
    PROVE  LinkInv'
<1>1. PICK h : Runs(h, FALSE)
  BY DEF Reconnect
<1>2. s.ready # <<>> /\ Popped \in Sockets /\ buf \in Msg /\ Flags
  BY <1>1, HandlerRuns
<1>3. /\ s' = ConnectToMS(Stop(Popped))
      /\ UNCHANGED <<buf, received, endSend, skewed, others, resending, together>>
  BY DEF Reconnect
<1>4. Went(Stop(Popped), Popped)
  BY <1>2, CloseKept DEF Stop
<1> DEFINE y == Stop(Popped)
<1>5. y \in Sockets /\ Size(y) = Size(Popped) /\ Waiting(y) \subseteq Waiting(Popped)
  BY <1>4 DEF Went
<1> HIDE DEF y
<1>6. Begun(s', y, "sendConnect")
  BY <1>3, <1>5, ConnectKept DEF y
<1>7. Begun(s', Popped, "sendConnect")
  BY <1>5, <1>6 DEF Begun
<1>8. buf' \in Msg /\ Flags' /\ Rest' /\ (together => together')
  BY <1>2, <1>3, FlagsKept, RestKept
<1> QED BY <1>2, <1>7, <1>8, OneGoesOn

LEMMA SendConnectKeeps ==
    ASSUME LinkInv, SendConnect
    PROVE  LinkInv'
<1>1. /\ Runs("sendConnect", TRUE) /\ buf' = Plain("connect")
      /\ s' = AsyncSend(Popped, "reciveConnect", buf')
      /\ UNCHANGED <<received, endSend, skewed, others, resending, together>>
  BY DEF SendConnect
<1>2. s.ready # <<>> /\ Popped \in Sockets /\ Flags
  BY <1>1, HandlerRuns
<1>3. buf' \in Msg
  BY <1>1, PlainMessage
<1>4. Begun(s', Popped, "reciveConnect")
  <2>1. "reciveConnect" \in Handlers
    BY DEF Handlers
  <2> QED BY <1>1, <1>2, <1>3, <2>1, SendKept
<1>5. Flags' /\ Rest' /\ (together => together')
  BY <1>1, <1>2, FlagsKept, RestKept
<1> QED BY <1>2, <1>3, <1>4, <1>5, OneGoesOn

LEMMA SendAgainKeeps ==
    ASSUME LinkInv, SendAgain
    PROVE  LinkInv'
<1>1. /\ Runs("reciveConnect", FALSE) \/ Runs("reciveAnswer", FALSE)
      /\ resending' = TRUE /\ s' = AsyncSend(Popped, Done.h, buf)
      /\ UNCHANGED <<buf, received, endSend, skewed, others, together>>
  BY DEF SendAgain
<1> DEFINE h == Done.h
<1>2. Runs(h, FALSE)
  BY <1>1 DEF Runs
<1>3. /\ s.ready # <<>> /\ Popped \in Sockets /\ buf \in Msg /\ Flags /\ h \in Handlers
      /\ ~together /\ h = "reciveAnswer" => endSend
  BY <1>2, HandlerRuns
<1> HIDE DEF h
<1>4. Begun(s', Popped, h)
  BY <1>1, <1>3, SendKept DEF h
<1>5. Flags' /\ Rest' /\ buf' \in Msg
  BY <1>1, <1>3, RestKept DEF Flags
<1> QED BY <1>1, <1>3, <1>4, <1>5, OneGoesOn

LEMMA ReciveConnectKeeps ==
    ASSUME LinkInv, ReciveConnect
    PROVE  LinkInv'
<1>1. /\ Runs("reciveConnect", TRUE) /\ buf' = NoMsg
      /\ s' = AsyncReceive(Popped, "reciveCommand")
      /\ UNCHANGED <<received, endSend, skewed, others, resending, together>>
  BY DEF ReciveConnect
<1>2. s.ready # <<>> /\ Popped \in Sockets /\ Flags
  BY <1>1, HandlerRuns
<1>3. Begun(s', Popped, "reciveCommand")
  <2>1. "reciveCommand" \in Handlers
    BY DEF Handlers
  <2> QED BY <1>1, <1>2, <2>1, ReceiveKept
<1>4. Flags' /\ Rest' /\ buf' \in Msg /\ (together => together')
  BY <1>1, <1>2, NoMessage, FlagsKept, RestKept
<1> QED BY <1>2, <1>3, <1>4, OneGoesOn

(* What the parser makes of a receive.                                     *)
LEMMA ParsedIs ==
    ASSUME NEW got, got \in Seq(Msg), got # <<>>
    PROVE  /\ Parsed(got) \in Seq(Msg)
           /\ ~Cut(got) => Len(Parsed(got)) = Len(got)
<1> DEFINE n == Len(got) - IF Cut(got) THEN 1 ELSE 0
<1>1. n \in Nat /\ n <= Len(got) /\ (~Cut(got) => n = Len(got))
  <2>1. Len(got) \in Nat /\ Len(got) >= 1
    OBVIOUS
  <2> QED BY <2>1
<1>2. Parsed(got) = [i \in 1..n |-> Whole(got[i])]
  BY DEF Parsed
<1> HIDE DEF n
<1>3. ASSUME NEW i \in 1..n PROVE Whole(got[i]) \in Msg
  <2>1. got[i] \in Msg
    BY <1>1
  <2> QED BY <2>1 DEF Whole, Msg
<1>4. Parsed(got) \in [1..n -> Msg]
  BY <1>2, <1>3
<1>5. Parsed(got) \in Seq(Msg) /\ Len(Parsed(got)) = n
  BY <1>1, <1>4
<1> QED BY <1>1, <1>5

LEMMA JsonNotFullKeeps ==
    ASSUME LinkInv, JsonNotFull
    PROVE  LinkInv'
<1> DEFINE got == Done.got
<1>1. /\ Runs("reciveCommand", TRUE) \/ Runs("sendResponse", TRUE)
      /\ IF Broken(got) THEN parser' = "spoilt" /\ UNCHANGED json
         ELSE parser' \in {"mid", "spoilt"} /\ json' = json \o Parsed(got)
      /\ s' = AsyncReceive(Popped, "reciveCommand")
      /\ UNCHANGED <<buf, endSend, skewed, others, resending, together>>
  BY DEF JsonNotFull
<1>2. /\ s.ready # <<>> /\ Popped \in Sockets /\ Flags /\ buf \in Msg
      /\ Done \in Completions /\ Done.h \in {"reciveCommand", "sendResponse"} /\ Done.ok
      /\ got \in Seq(Msg)
  BY <1>1, HandlerRuns
<1>3. Parsed(got) \in Seq(Msg)
  <2>1. got # <<>>
    BY <1>2 DEF Completions, Fruitful
  <2> HIDE DEF got
  <2> QED BY <1>2, <2>1, ParsedIs
<1> HIDE DEF got
<1>4. json' \in Seq(Msg) /\ parser' \in {"clean", "mid", "spoilt"}
  <2>1. json \in Seq(Msg)
    BY DEF LinkInv, TypeOK
  <2> QED BY <1>1, <1>3, <2>1, Concatenation
<1>5. Rest' /\ Flags' /\ buf' \in Msg /\ (together => together')
  BY <1>1, <1>2, <1>4, RestReceived, FlagsKept
<1>6. Begun(s', Popped, "reciveCommand")
  <2>1. "reciveCommand" \in Handlers
    BY DEF Handlers
  <2> QED BY <1>1, <1>2, <2>1, ReceiveKept
<1> QED BY <1>2, <1>5, <1>6, OneGoesOn

LEMMA JsonFullKeeps ==
    ASSUME LinkInv, JsonFull, UNCHANGED others
    PROVE  Rest'
<1>1. json' = <<>> /\ parser' = "clean"
  BY DEF JsonFull
<1> QED BY <1>1, RestReceived

LEMMA ReciveCommandKeeps ==
    ASSUME LinkInv, ReciveCommand
    PROVE  LinkInv'
<1>1. /\ Runs("reciveCommand", TRUE) /\ JsonFull
      /\ s' = AsyncReceive(Popped, "sendResponse")
      /\ UNCHANGED <<buf, endSend, skewed, others, resending, together>>
  BY DEF ReciveCommand
<1>2. s.ready # <<>> /\ Popped \in Sockets /\ Flags /\ buf \in Msg
  BY <1>1, HandlerRuns
<1>3. Begun(s', Popped, "sendResponse")
  <2>1. "sendResponse" \in Handlers
    BY DEF Handlers
  <2> QED BY <1>1, <1>2, <2>1, ReceiveKept
<1>4. Flags' /\ Rest' /\ buf' \in Msg /\ (together => together')
  BY <1>1, <1>2, FlagsKept, JsonFullKeeps
<1> QED BY <1>2, <1>3, <1>4, OneGoesOn

(* Once two messages were answered at once only the types are promised.    *)
LEMMA TogetherKeeps ==
    ASSUME s' \in Sockets, buf' \in Msg, Flags', Rest', together'
    PROVE  LinkInv'
BY SocketsTyped DEF LinkInv, TypeOK, Flags, Rest, Strand

(* One message is answered, and the flag set, or it throws, and a receive  *)
(* armed.                                                                  *)
LEMMA SendResponseKeeps ==
    ASSUME LinkInv, SendResponse
    PROVE  LinkInv'
<1> DEFINE new == Done.got
           got == json \o Parsed(new)
<1>1. /\ Runs("sendResponse", TRUE) /\ JsonFull
      /\ s' = Responded(got)[1] /\ buf' = Responded(got)[2]
      /\ endSend' = (endSend \/ Answers(Last(got)))
      /\ together' = (together \/ Len(got) > 1)
      /\ UNCHANGED <<skewed, others, resending>>
  BY DEF SendResponse
<1>2. /\ s.ready # <<>> /\ Popped \in Sockets /\ buf \in Msg /\ Flags
      /\ Done \in Completions /\ Done.h = "sendResponse" /\ Done.ok = TRUE /\ new \in Seq(Msg)
  BY <1>1, HandlerRuns
<1>3. new # <<>> /\ ~Cut(new)
  BY <1>1, <1>2 DEF Completions, Fruitful, JsonFull, Full
<1> HIDE DEF new
<1>4. got \in Seq(Msg) /\ Len(got) \in Nat /\ Len(got) >= 1
  <2> DEFINE a == Parsed(new)
  <2>1. a \in Seq(Msg) /\ Len(a) = Len(new)
    BY <1>2, <1>3, ParsedIs
  <2>2. Len(new) \in Nat /\ Len(new) >= 1
    BY <1>2, <1>3
  <2>3. json \in Seq(Msg)
    BY DEF LinkInv, TypeOK
  <2> HIDE DEF a
  <2>4. json \o a \in Seq(Msg) /\ Len(json \o a) = Len(json) + Len(a)
    BY <2>1, <2>3, Concatenation
  <2>5. Len(json) \in Nat
    BY <2>3
  <2> QED BY <2>1, <2>2, <2>4, <2>5 DEF a
<1> HIDE DEF got
<1>5. /\ s' \in Sockets /\ buf' \in Msg
      /\ Len(got) = 1 => Begun(s', Popped, Handler(got[1]))
  BY <1>1, <1>2, <1>4, RespondedKept
<1>6. together' \in BOOLEAN /\ endSend' \in BOOLEAN /\ (together => together')
  BY <1>1, Zenon
<1>7. Flags'
  BY <1>1, <1>2, <1>6 DEF Flags
<1>8. Rest'
  BY <1>1, JsonFullKeeps
<1>9. CASE together'
  BY <1>5, <1>7, <1>8, <1>9, TogetherKeeps
<1>10. CASE ~together'
  <2>1. Len(got) = 1
    <3> DEFINE n == Len(got)
    <3>1. ~(n > 1)
      BY <1>1, <1>10, Zenon
    <3>2. n \in Nat /\ n >= 1
      BY <1>4
    <3> HIDE DEF n
    <3>3. n = 1
      BY <3>1, <3>2
    <3> QED BY <3>3 DEF n
  <2>2. Begun(s', Popped, Handler(got[1]))
    BY <1>5, <2>1
  <2>3. Handler(got[1]) = "reciveAnswer" => endSend'
    <3>1. Last(got) = got[1]
      BY <2>1 DEF Last
    <3>2. Handler(got[1]) = "reciveAnswer" => Answers(got[1])
      BY DEF Handler
    <3> QED BY <1>1, <3>1, <3>2
  <2> QED BY <1>2, <1>5, <1>6, <1>7, <1>8, <2>2, <2>3, OneGoesOn
<1> QED BY <1>9, <1>10

(* The flag is set when the answer is the only strand, so the receive is   *)
(* armed.                                                                  *)
LEMMA ReciveAnswerKeeps ==
    ASSUME LinkInv, ReciveAnswer
    PROVE  LinkInv'
<1>1. /\ Runs("reciveAnswer", TRUE) /\ buf' = NoMsg /\ endSend' = FALSE
      /\ s' = IF endSend THEN AsyncReceive(Popped, "sendResponse") ELSE Popped
      /\ UNCHANGED <<received, skewed, others, resending, together>>
  BY DEF ReciveAnswer
<1>2. /\ s.ready # <<>> /\ Popped \in Sockets /\ Flags
      /\ ~together => endSend
  BY <1>1, HandlerRuns
<1>3. Flags' /\ Rest' /\ buf' \in Msg
  BY <1>1, <1>2, NoMessage, RestKept DEF Flags
<1>4. CASE endSend
  <2>1. "sendResponse" \in Handlers
    BY DEF Handlers
  <2>2. Begun(s', Popped, "sendResponse")
    BY <1>1, <1>2, <1>4, <2>1, ReceiveKept
  <2> QED BY <1>1, <1>2, <1>3, <2>2, OneGoesOn
<1>5. CASE ~endSend
  <2>1. together' /\ s' \in Sockets
    BY <1>1, <1>2, <1>5
  <2> QED BY <1>3, <2>1, TogetherKeeps
<1> QED BY <1>4, <1>5

LEMMA SendSkewsKeeps ==
    ASSUME LinkInv, SendSkews
    PROVE  LinkInv'
<1>1. /\ Runs("reciveAnswer", TRUE) /\ skewed' = TRUE
      /\ \/ s' = [Popped EXCEPT !.ready = Append(@, Failed(Done))]
         \/ s' = AsyncSend(Popped, "reciveAnswer", Plain("junk"))
      /\ UNCHANGED <<buf, received, endSend, others, resending, together>>
  BY DEF SendSkews
<1>2. /\ s.ready # <<>> /\ Popped \in Sockets /\ buf \in Msg /\ Flags
      /\ Done.h = "reciveAnswer" /\ Done.h \in Handlers /\ Done.m \in Msg
      /\ ~together => endSend
  BY <1>1, HandlerRuns
<1>3. Flags' /\ Rest' /\ buf' \in Msg
  BY <1>1, <1>2, RestKept DEF Flags
<1>4. Begun(s', Popped, "reciveAnswer")
  <2>1. Begun([Popped EXCEPT !.ready = Append(@, Failed(Done))], Popped, Done.h)
    BY <1>2, FailsAtOnce
  <2>2. Plain("junk") \in Msg /\ "reciveAnswer" \in Handlers
    BY PlainMessage DEF Handlers
  <2>3. Begun(AsyncSend(Popped, "reciveAnswer", Plain("junk")), Popped, "reciveAnswer")
    BY <1>2, <2>2, SendKept
  <2> QED BY <1>1, <1>2, <2>1, <2>3
<1> QED BY <1>1, <1>2, <1>3, <1>4, OneGoesOn

LEMMA HandleKeeps ==
    ASSUME LinkInv, Handle
    PROVE  LinkInv'
BY ReconnectKeeps, SendConnectKeeps, SendAgainKeeps, ReciveConnectKeeps, ReciveCommandKeeps,
   JsonNotFullKeeps, SendResponseKeeps, ReciveAnswerKeeps, SendSkewsKeeps DEF Handle

-----------------------------------------------------------------------------
LEMMA WireKeeps ==
    ASSUME LinkInv, NEW x, Went(x, s), Wire(x)
    PROVE  LinkInv'
<1>1. /\ Went(s', s) /\ UNCHANGED <<buf, endSend, skewed, resending, together>>
      /\ UNCHANGED <<received, others>>
  BY DEF Wire, worker, others
<1>2. Rest'
  BY <1>1, RestKept
<1> QED BY <1>1, <1>2, WentKeeps

(* A receive ends; splits is what is left to be said.                      *)
LEMMA ArrivesKeeps ==
    ASSUME LinkInv, NEW x, Went(x, s), x.ready # <<>>, Last(x.ready).got \in Seq(Msg),
           splits' \in 0..MaxSplits, Arrives(x)
    PROVE  LinkInv'
<1> DEFINE got == Last(x.ready).got
<1>1. /\ s' = x /\ UNCHANGED <<worker, server>>
      /\ mixed' = IF Alone(got) THEN mixed
                  ELSE mixed \cup ({got[j].q : j \in DOMAIN got} \ {NoRequest})
  BY DEF Arrives
<1>2. \A j \in DOMAIN got : got[j].q \in Requests \cup {NoRequest}
  <2>1. got \in Seq(Msg)
    OBVIOUS
  <2> HIDE DEF got
  <2>2. \A j \in DOMAIN got : got[j] \in Msg
    BY <2>1
  <2> QED BY <2>2 DEF Msg
<1> HIDE DEF got
<1>3. mixed' \subseteq Requests
  <2>1. mixed \subseteq Requests
    BY DEF LinkInv, TypeOK
  <2> QED BY <1>1, <1>2, <2>1
<1>4. Rest'
  BY <1>1, <1>3 DEF LinkInv, TypeOK, Rest, worker, received, server
<1>5. UNCHANGED <<buf, endSend, skewed, resending, together>> /\ Went(s', s)
  BY <1>1 DEF worker
<1> QED BY <1>4, <1>5, WentKeeps

(* What a receive returned is the last of the completions.                 *)
LEMMA GotIs ==
    ASSUME NEW x \in Sockets, NEW i \in DOMAIN x.pend, NEW y, NEW got, got \in Seq(Msg),
           y.ready = Complete(x, i, Succeeded(x.pend[i], got)).ready
    PROVE  y.ready # <<>> /\ Last(y.ready).got \in Seq(Msg)
<1> DEFINE c == Succeeded(x.pend[i], got)
           r == x.ready
<1>1. c.got = got
  BY DEF Succeeded
<1>2. r \in Seq(Completions)
  BY SocketFields
<1>3. y.ready = Append(r, c)
  BY DEF Complete, Sockets
<1> HIDE DEF c, r
<1>4. y.ready # <<>> /\ Last(y.ready) = c
  BY <1>2, <1>3 DEF Last
<1> QED BY <1>1, <1>4

LEMMA ReceiveKeeps ==
    ASSUME LinkInv, NEW i \in DOMAIN s.pend, NEW k \in 1..Len(s.toWorker),
           Arrives(ReceiveDone(s, i, k)), UNCHANGED splits
    PROVE  LinkInv'
<1> DEFINE x == ReceiveDone(s, i, k)
           got == SubSeq(s.toWorker, 1, k)
<1>1. s \in Sockets /\ s.toWorker \in Seq(Msg) /\ splits \in 0..MaxSplits
  BY SocketFields DEF LinkInv, TypeOK
<1>2. k \in Nat /\ k # 0 /\ k <= Len(s.toWorker)
  BY <1>1
<1>3. Went(x, s)
  BY <1>1, <1>2, ReceivedKept
<1>4. got \in Seq(Msg)
  BY <1>1, <1>2
<1>5. x.ready = Complete(s, i, Succeeded(s.pend[i], got)).ready
  BY DEF ReceiveDone, Complete
<1> HIDE DEF x, got
<1>6. x.ready # <<>> /\ Last(x.ready).got \in Seq(Msg)
  BY <1>1, <1>4, <1>5, GotIs
<1> QED BY <1>1, <1>3, <1>6, ArrivesKeeps DEF x

LEMMA SplitKeeps ==
    ASSUME LinkInv, NEW i \in DOMAIN s.pend, NEW k, k \in Nat, Splits(i, k)
    PROVE  LinkInv'
<1> DEFINE m == s.toWorker[k + 1]
           a == [m EXCEPT !.piece = "first"]
           b == [m EXCEPT !.piece = "rest"]
           x == ReceiveSplit(s, i, k, a, b)
           got == Append(SubSeq(s.toWorker, 1, k), a)
<1>1. s \in Sockets /\ s.toWorker \in Seq(Msg) /\ splits \in 0..MaxSplits
  BY SocketFields DEF LinkInv, TypeOK
<1>2. /\ k < Len(s.toWorker) /\ splits < MaxSplits /\ splits' = splits + 1
      /\ Arrives(x)
  BY DEF Splits
<1>3. m \in Msg
  BY <1>1, <1>2
<1>4. a \in Msg /\ b \in Msg
  BY <1>3 DEF Msg
<1> HIDE DEF a, b, m
<1>5. Went(x, s)
  BY <1>1, <1>2, <1>4, SplitKept
<1>6. got \in Seq(Msg)
  <2>1. SubSeq(s.toWorker, 1, k) \in Seq(Msg)
    BY <1>1, <1>2
  <2> QED BY <1>4, <2>1
<1>7. x.ready = Complete(s, i, Succeeded(s.pend[i], got)).ready
  BY DEF ReceiveSplit, Complete
<1> HIDE DEF x, got
<1>8. x.ready # <<>> /\ Last(x.ready).got \in Seq(Msg)
  BY <1>1, <1>6, <1>7, GotIs
<1>9. splits' \in 0..MaxSplits
  BY <1>1, <1>2, ConstantsAssumption
<1> QED BY <1>2, <1>5, <1>8, <1>9, ArrivesKeeps

LEMMA ReactorKeeps ==
    ASSUME LinkInv, Reactor
    PROVE  LinkInv'
<1>1. s \in Sockets
  BY DEF LinkInv
<1>2. PICK i \in DOMAIN s.pend :
        \/ s.pend[i].h = "sendConnect" /\ Wire(Connected(s, i))
        \/ IsSend(s.pend[i]) /\ Wire(SendDone(s, i))
        \/ \E k \in 0..MaxChunk :
              \/ k \in 1..Len(s.toWorker) /\ Arrives(ReceiveDone(s, i, k)) /\ UNCHANGED splits
              \/ Splits(i, k)
        \/ Wire(OperationFails(s, i))
  BY Zenon DEF Reactor
<1>3. CASE s.pend[i].h = "sendConnect" /\ Wire(Connected(s, i))
  <2>1. Went(Connected(s, i), s)
    BY <1>1, <1>3, ConnectedKept
  <2> QED BY <1>3, <2>1, WireKeeps
<1>4. CASE IsSend(s.pend[i]) /\ Wire(SendDone(s, i))
  <2>1. Went(SendDone(s, i), s)
    BY <1>1, <1>4, SentKept DEF IsSend
  <2> QED BY <1>4, <2>1, WireKeeps
<1>5. ASSUME NEW k \in 0..MaxChunk,
             \/ k \in 1..Len(s.toWorker) /\ Arrives(ReceiveDone(s, i, k)) /\ UNCHANGED splits
             \/ Splits(i, k)
      PROVE  LinkInv'
  <2>1. k \in Nat
    BY ConstantsAssumption
  <2> QED BY <1>5, <2>1, ReceiveKeeps, SplitKeeps
<1>6. CASE Wire(OperationFails(s, i))
  <2>1. Went(OperationFails(s, i), s)
    BY <1>1, FailsKept
  <2> QED BY <1>6, <2>1, WireKeeps
<1> QED BY <1>2, <1>3, <1>4, <1>5, <1>6

(* The server's end: only the messages under way and its state change.     *)
LEMMA ServerEnd ==
    ASSUME NEW x \in Sockets, NEW y, NEW p, NEW a, NEW b,
           y = [x EXCEPT !.peer = p, !.toServer = a, !.toWorker = b],
           p \in Peers, a \in Seq(Msg), b \in Seq(Msg)
    PROVE  Went(y, x)
<1>1. y \in Sockets /\ y.pend = x.pend /\ y.ready = x.ready
  BY Zenon DEF Sockets
<1>2. Went(x, x)
  BY DEF Went
<1> QED BY <1>1, <1>2, SameStrands

LEMMA ServerSendsKept ==
    ASSUME LinkInv, NEW m \in Msg, s' = [s EXCEPT !.toWorker = Append(@, m)]
    PROVE  Went(s', s)
<1> DEFINE p == s.peer
           a == s.toServer
           b == Append(s.toWorker, m)
<1>1. s \in Sockets
  BY DEF LinkInv
<1>2. p \in Peers /\ a \in Seq(Msg) /\ b \in Seq(Msg)
  BY <1>1 DEF Sockets
<1>3. s' = [s EXCEPT !.peer = p, !.toServer = a, !.toWorker = b]
  BY <1>1 DEF Sockets
<1> HIDE DEF p, a, b
<1> QED BY <1>1, <1>2, <1>3, ServerEnd

LEMMA ServerReadsKeeps ==
    ASSUME LinkInv, ServerReads
    PROVE  LinkInv'
<1> DEFINE m == Head(s.toServer)
           x == [s EXCEPT !.toServer = Tail(@)]
           p == IF m.t = "connect" THEN "accepted" ELSE s.peer
           a == Tail(s.toServer)
           b == IF m.t = "connect" THEN Append(s.toWorker, Plain("reply")) ELSE s.toWorker
<1>1. /\ s.toServer # <<>>
      /\ s' = IF m.t = "connect"
              THEN [x EXCEPT !.toWorker = Append(@, Plain("reply")), !.peer = "accepted"]
              ELSE x
      /\ answered' = answered \cup ({m.q} \ {NoRequest})
      /\ UNCHANGED <<worker, network, asked, pings, faults>>
  BY DEF ServerReads
<1>2. s \in Sockets /\ s.toServer \in Seq(Msg) /\ s.toWorker \in Seq(Msg)
  BY SocketFields DEF LinkInv
<1>3. m \in Msg /\ a \in Seq(Msg)
  BY <1>1, <1>2
<1>4. Plain("reply") \in Msg
  BY PlainMessage
<1>5. b \in Seq(Msg)
  BY <1>2, <1>4
<1>6. p \in Peers
  BY <1>2 DEF Sockets, Peers
<1>7. s' = [s EXCEPT !.peer = p, !.toServer = a, !.toWorker = b]
  <2>1. CASE m.t = "connect"
    BY <1>1, <1>2, <2>1 DEF Sockets
  <2>2. CASE m.t # "connect"
    BY <1>1, <1>2, <2>2 DEF Sockets
  <2> QED BY <2>1, <2>2
<1>8. Rest'
  <2>1. m.q \in Requests \cup {NoRequest}
    BY <1>3 DEF Msg
  <2>2. Rest
    BY TypeParts DEF LinkInv
  <2> QED BY <1>1, <2>1, <2>2 DEF Rest, worker, received, network
<1> HIDE DEF p, a, b
<1>9. Went(s', s)
  BY <1>2, <1>3, <1>5, <1>6, <1>7, ServerEnd
<1> QED BY <1>1, <1>8, <1>9, WentKeeps DEF worker

LEMMA ServerPingsKeeps ==
    ASSUME LinkInv, ServerPings
    PROVE  LinkInv'
<1>1. /\ pings < MaxSent /\ pings' = pings + 1
      /\ s' = [s EXCEPT !.toWorker = Append(@, Plain("ping"))]
      /\ UNCHANGED <<worker, network, asked, answered, faults>>
  BY DEF ServerPings, ServerSends
<1>2. Went(s', s)
  BY <1>1, PlainMessage, ServerSendsKept
<1>3. Rest'
  <2>1. Rest
    BY TypeParts DEF LinkInv
  <2> QED BY <1>1, <2>1, ConstantsAssumption DEF Rest, worker, received, network
<1> QED BY <1>1, <1>2, <1>3, WentKeeps DEF worker

LEMMA ServerAsksKeeps ==
    ASSUME LinkInv, NEW q \in Requests, NEW p \in Heard, ServerAsks(q, p)
    PROVE  LinkInv'
<1> DEFINE m == [Plain("request") EXCEPT !.q = q, !.p = p]
<1>1. /\ asked' = asked \cup {q} /\ s' = [s EXCEPT !.toWorker = Append(@, m)]
      /\ UNCHANGED <<worker, network, answered, pings, faults>>
  BY DEF ServerAsks, ServerSends
<1>2. m \in Msg
  BY DEF Plain, Msg
<1> HIDE DEF m
<1>3. Went(s', s)
  BY <1>1, <1>2, ServerSendsKept
<1>4. Rest'
  <2>1. Rest
    BY TypeParts DEF LinkInv
  <2> QED BY <1>1, <2>1 DEF Rest, worker, received, network
<1> QED BY <1>1, <1>3, <1>4, WentKeeps DEF worker

LEMMA ServerFailsKeeps ==
    ASSUME LinkInv, ServerFails
    PROVE  LinkInv'
<1>1. /\ faults < MaxFaults /\ faults' = faults + 1
      /\ \/ \E end \in {"closed", "gone"}, left \in {s.toWorker, <<>>} :
               s' = [s EXCEPT !.peer = end, !.toWorker = left]
         \/ \E i \in DOMAIN s.pend : s' = ConnectRefused(s, i)
      /\ UNCHANGED <<worker, network, asked, answered, pings>>
  BY Zenon DEF ServerFails
<1>2. s \in Sockets /\ s.toServer \in Seq(Msg) /\ s.toWorker \in Seq(Msg)
  BY SocketFields DEF LinkInv
<1>3. Went(s', s)
  <2>1. ASSUME NEW end \in {"closed", "gone"}, NEW left \in {s.toWorker, <<>>},
               s' = [s EXCEPT !.peer = end, !.toWorker = left]
        PROVE  Went(s', s)
    <3> DEFINE a == s.toServer
    <3>1. s' = [s EXCEPT !.peer = end, !.toServer = a, !.toWorker = left]
      BY <1>2, <2>1 DEF Sockets
    <3>2. end \in Peers
      BY DEF Peers
    <3>3. a \in Seq(Msg) /\ left \in Seq(Msg)
      <4>1. <<>> \in Seq(Msg)
        OBVIOUS
      <4> QED BY <1>2, <4>1, Zenon
    <3> HIDE DEF a
    <3> QED BY <1>2, <3>1, <3>2, <3>3, ServerEnd
  <2>2. ASSUME NEW i \in DOMAIN s.pend, s' = ConnectRefused(s, i) PROVE Went(s', s)
    BY <1>2, <2>2, RefusedKept
  <2> QED BY <1>1, <2>1, <2>2
<1>4. Rest'
  <2>1. Rest
    BY TypeParts DEF LinkInv
  <2> QED BY <1>1, <2>1, ConstantsAssumption DEF Rest, worker, received, network
<1> QED BY <1>1, <1>3, <1>4, WentKeeps DEF worker

LEMMA EnvironmentKeeps ==
    ASSUME LinkInv, Environment
    PROVE  LinkInv'
<1>1. CASE SendFails
  <2>1. PICK i \in DOMAIN s.pend : Wire(OperationFails(s, i))
    BY <1>1 DEF SendFails
  <2>2. Went(OperationFails(s, i), s)
    BY FailsKept DEF LinkInv
  <2> QED BY <2>1, <2>2, WireKeeps
<1>2. CASE ServerReads \/ ServerPings \/ ServerFails
  BY <1>2, ServerReadsKeeps, ServerPingsKeeps, ServerFailsKeeps
<1>3. CASE \E q \in Requests, p \in Heard : ServerAsks(q, p)
  BY <1>3, ServerAsksKeeps
<1> QED BY <1>1, <1>2, <1>3 DEF Environment

LEMMA SetDbInfoKeeps ==
    ASSUME LinkInv, NEW T \in Loads, SetDbInfo(T)
    PROVE  LinkInv'
<1>1. /\ tables' = T
      /\ UNCHANGED <<s, buf, received, endSend, skewed, server, network, resending, together>>
  BY DEF SetDbInfo
<1>2. Went(s', s)
  BY <1>1 DEF LinkInv, Went
<1>3. Rest'
  <2>1. Rest /\ T \subseteq Tables
    BY TypeParts, ConstantsAssumption DEF LinkInv
  <2> QED BY <1>1, <2>1 DEF Rest, received, server, network
<1> QED BY <1>1, <1>2, <1>3, WentKeeps

LEMMA LinkKeeps ==
    ASSUME LinkInv, [Next]_vars
    PROVE  LinkInv'
<1>1. CASE UNCHANGED vars
  <2>1. UNCHANGED <<s, buf, endSend, skewed, resending, together, received, others>>
    BY <1>1 DEF vars, received, others
  <2>2. Went(s', s)
    BY <2>1 DEF LinkInv, Went
  <2>3. Rest'
    BY <2>1, RestKept
  <2> QED BY <2>1, <2>2, <2>3, WentKeeps
<1>2. CASE Handle \/ Reactor \/ Environment
  BY <1>2, HandleKeeps, ReactorKeeps, EnvironmentKeeps
<1>3. CASE \E T \in Loads : SetDbInfo(T)
  BY <1>3, SetDbInfoKeeps
<1> QED BY <1>1, <1>2, <1>3 DEF Next

(* As long as __sendResponse answers messages one by one the worker has    *)
(* exactly one operation: through failed connects, sends that are tried    *)
(* again, requests that throw, messages in pieces, a parser that fails and *)
(* stations that are not in the tables it goes on listening, and no answer *)
(* overwrites another in __buf_send.  For any number of requests, pings,   *)
(* pieces and failures.                                                    *)
THEOREM LinkAlwaysSound == Spec => []LinkSound
<1>1. LinkInv => LinkSound
  BY DEF LinkInv, LinkSound, OneStrand, Strand, Size
<1> QED BY <1>1, LinkStarts, LinkKeeps, PTL DEF Spec
=============================================================================
