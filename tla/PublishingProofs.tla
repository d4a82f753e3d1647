-------------------------- MODULE PublishingProofs --------------------------
(***************************************************************************)
(* The versions that update proposes, and what several people's publishes, *)
(* updates, builds and deletes leave in the registry, for every set of     *)
(* people, skills and versions and any number of commands, edits, builds   *)
(* and lost answers.                                                       *)
(*                                                                         *)
(* Versions are compared by the first token in which they differ; that     *)
(* this is a total order (VersionsOrdered) and that every finite set of    *)
(* versions has a greatest one (GreatestExists) is proved first.           *)
(***************************************************************************)
EXTENDS Publishing, FiniteSetTheorems, SequenceTheorems, NaturalsInduction,
        WellFoundedInduction, TLAPS

-----------------------------------------------------------------------------
(* Sequences compared at the first place where they differ.                *)

\* c[<<a, b>>] is -1, 0 or 1 and says how a compares to b.
Orders(c, T) ==
    /\ c \in [T \X T -> {-1, 0, 1}]
    /\ \A a, b \in T : c[<<a, b>>] = 0 <=> a = b
    /\ \A a, b \in T : c[<<a, b>>] = 1 <=> c[<<b, a>>] = -1
    /\ \A a, b, d \in T : c[<<a, b>>] = -1 /\ c[<<b, d>>] = -1 => c[<<a, d>>] = -1

Lex(s, t, c) == Lexicographic(s, t, [i \in Common(s, t) |-> c[<<s[i], t[i]>>]])

\* s and t part at place k.
Parts(s, t, k) ==
    /\ k \in Nat \ {0} /\ (k <= Len(s) \/ k <= Len(t))
    /\ \A i \in Nat \ {0} : i < k => i <= Len(s) /\ i <= Len(t) /\ s[i] = t[i]
    /\ k <= Len(s) /\ k <= Len(t) => s[k] # t[k]

LEMMA FirstIs ==
    ASSUME NEW D \in SUBSET Nat, D # {}
    PROVE  FirstOf(D) \in D /\ \A k \in D : FirstOf(D) <= k
  <1>1. IsWellFoundedOn(OpToRel(<, Nat), Nat)
    BY NatLessThanWellFounded
  <1>2. PICK i \in D : \A k \in D : <<k, i>> \notin OpToRel(<, Nat)
    BY <1>1, WFMin
  <1>3. \A k \in D : i <= k
    <2>1. \A k \in D : ~(k < i)
      BY <1>2 DEF OpToRel
    <2> QED
      BY <2>1
  <1> QED
    BY <1>3 DEF FirstOf

LEMMA FirstIsUnique ==
    ASSUME NEW D \in SUBSET Nat, NEW k \in D, \A i \in D : k <= i
    PROVE  FirstOf(D) = k
  <1>1. FirstOf(D) \in D /\ FirstOf(D) <= k
    BY FirstIs
  <1>2. k <= FirstOf(D) /\ k \in Nat /\ FirstOf(D) \in Nat
    BY <1>1
  <1> QED
    BY <1>1, <1>2

LEMMA LexAt ==
    ASSUME NEW T, NEW c, Orders(c, T), NEW s \in Seq(T), NEW t \in Seq(T),
           NEW k, Parts(s, t, k)
    PROVE  Lex(s, t, c) = IF k > Len(s) THEN -1
                          ELSE IF k > Len(t) THEN 1 ELSE c[<<s[k], t[k]>>]
  <1> DEFINE sign == [i \in Common(s, t) |-> c[<<s[i], t[i]>>]]
             D == {i \in Positions(s, t) : i \in Common(s, t) => sign[i] # 0}
  <1>1. /\ Len(s) \in Nat /\ Len(t) \in Nat
        /\ DOMAIN s = 1..Len(s) /\ DOMAIN t = 1..Len(t)
        /\ Common(s, t) = {i \in Nat \ {0} : i <= Len(s) /\ i <= Len(t)}
        /\ Positions(s, t) = {i \in Nat \ {0} : i <= Len(s) \/ i <= Len(t)}
    BY DEF Common, Positions
  <1>2. \A i \in Common(s, t) : s[i] \in T /\ t[i] \in T /\ sign[i] = c[<<s[i], t[i]>>]
    BY <1>1
  <1>3. \A i \in Common(s, t) : sign[i] = 0 <=> s[i] = t[i]
    BY <1>2 DEF Orders
  <1>4. k \in D
    BY <1>1, <1>3 DEF Parts
  <1>5. ASSUME NEW i \in D PROVE k <= i
    <2>1. i \in Nat \ {0} /\ k \in Nat
      BY <1>1 DEF Parts
    <2>2. i < k => i \in Common(s, t) /\ s[i] = t[i]
      BY <1>1, <2>1 DEF Parts
    <2>3. i \in Common(s, t) => s[i] # t[i]
      BY <1>3
    <2>4. ~(i < k)
      BY <2>2, <2>3
    <2> QED
      BY <2>1, <2>4
  <1>6. D \in SUBSET Nat
    BY <1>1
  <1>7. FirstOf(D) = k /\ D # {}
    BY <1>4, <1>5, <1>6, FirstIsUnique
  <1>8. Lex(s, t, c) = IF FirstOf(D) > Len(s) THEN -1
                       ELSE IF FirstOf(D) > Len(t) THEN 1 ELSE sign[FirstOf(D)]
    BY <1>7 DEF Lex, Lexicographic
  <1>9. k <= Len(s) /\ k <= Len(t) => sign[k] = c[<<s[k], t[k]>>]
    BY <1>1, <1>2 DEF Parts
  <1>10. k \in Nat
    BY DEF Parts
  <1> HIDE DEF D, sign
  <1> QED
    BY <1>1, <1>7, <1>8, <1>9, <1>10

LEMMA LexEqual ==
    ASSUME NEW T, NEW c, Orders(c, T), NEW s \in Seq(T)
    PROVE  Lex(s, s, c) = 0
  <1>1. \A i \in Common(s, s) : s[i] \in T
    BY DEF Common
  <1>2. \A i \in Positions(s, s) : i \in Common(s, s)
    BY DEF Positions, Common
  <1>3. \A i \in Common(s, s) : c[<<s[i], s[i]>>] = 0
    BY <1>1 DEF Orders
  <1> QED
    BY <1>2, <1>3 DEF Lex, Lexicographic

LEMMA Parted ==
    ASSUME NEW T, NEW s \in Seq(T), NEW t \in Seq(T), s # t
    PROVE  \E k : Parts(s, t, k)
  <1> DEFINE D == {i \in Nat \ {0} : /\ i <= Len(s) \/ i <= Len(t)
                                     /\ i <= Len(s) /\ i <= Len(t) => s[i] # t[i]}
  <1>1. /\ Len(s) \in Nat /\ Len(t) \in Nat
        /\ s \in [1..Len(s) -> T] /\ t \in [1..Len(t) -> T]
    OBVIOUS
  <1>2. D # {}
    <2>1. CASE Len(s) # Len(t)
      <3>1. Len(s) < Len(t) \/ Len(t) < Len(s)
        <4>1. \A m, n \in Nat : m # n => m < n \/ n < m
          OBVIOUS
        <4> QED
          BY <1>1, <2>1, <4>1
      <3>2. Len(s) < Len(t) => Len(s) + 1 \in D
        BY <1>1
      <3>3. Len(t) < Len(s) => Len(t) + 1 \in D
        BY <1>1
      <3> QED
        BY <3>1, <3>2, <3>3
    <2>2. CASE Len(s) = Len(t)
      <3>1. PICK i \in 1..Len(s) : s[i] # t[i]
        BY <1>1, <2>2
      <3>2. i \in D
        BY <1>1, <2>2, <3>1
      <3> QED
        BY <3>2
    <2> QED
      BY <2>1, <2>2
  <1>3. FirstOf(D) \in D /\ \A i \in D : FirstOf(D) <= i
    BY <1>2, FirstIs
  <1>4. FirstOf(D) \in Nat \ {0}
    BY <1>3
  <1>5. ASSUME NEW i \in Nat \ {0}, i < FirstOf(D)
        PROVE  i <= Len(s) /\ i <= Len(t) /\ s[i] = t[i]
    <2>1. i \notin D
      BY <1>3, <1>4, <1>5
    <2>2. i <= Len(s) \/ i <= Len(t)
      BY <1>1, <1>3, <1>4, <1>5
    <2> QED
      BY <2>1, <2>2
  <1>6. Parts(s, t, FirstOf(D))
    BY <1>3, <1>4, <1>5 DEF Parts
  <1> QED
    BY <1>6

\* A total order of the elements makes one of the sequences.
LexOrder(c, T) == [p \in Seq(T) \X Seq(T) |-> Lex(p[1], p[2], c)]

LEMMA LexValue ==
    ASSUME NEW T, NEW c, Orders(c, T), NEW s \in Seq(T), NEW t \in Seq(T)
    PROVE  /\ Lex(s, t, c) \in {-1, 0, 1}
           /\ Lex(s, t, c) = 0 <=> s = t
           /\ Lex(s, t, c) = 1 <=> Lex(t, s, c) = -1
  <1>1. CASE s = t
    BY <1>1, LexEqual
  <1>2. CASE s # t
    <2>1. PICK k : Parts(s, t, k)
      BY <1>2, Parted
    <2>2. Parts(t, s, k)
      BY <2>1 DEF Parts
    <2>3. /\ Lex(s, t, c) = IF k > Len(s) THEN -1
                            ELSE IF k > Len(t) THEN 1 ELSE c[<<s[k], t[k]>>]
          /\ Lex(t, s, c) = IF k > Len(t) THEN -1
                            ELSE IF k > Len(s) THEN 1 ELSE c[<<t[k], s[k]>>]
      <3>1. Lex(s, t, c) = IF k > Len(s) THEN -1
                           ELSE IF k > Len(t) THEN 1 ELSE c[<<s[k], t[k]>>]
        BY <2>1, LexAt
      <3>2. Lex(t, s, c) = IF k > Len(t) THEN -1
                           ELSE IF k > Len(s) THEN 1 ELSE c[<<t[k], s[k]>>]
        BY <2>2, LexAt
      <3> QED
        BY <3>1, <3>2
    <2>4. k \in Nat \ {0} /\ Len(s) \in Nat /\ Len(t) \in Nat /\ (k <= Len(s) \/ k <= Len(t))
      BY <2>1 DEF Parts
    <2>5. ASSUME k <= Len(s), k <= Len(t)
          PROVE  /\ c[<<s[k], t[k]>>] \in {-1, 1}
                 /\ c[<<s[k], t[k]>>] = 1 <=> c[<<t[k], s[k]>>] = -1
      <3>1. s[k] \in T /\ t[k] \in T /\ s[k] # t[k]
        BY <2>1, <2>4, <2>5 DEF Parts
      <3>2. c[<<s[k], t[k]>>] \in {-1, 0, 1}
        BY <3>1 DEF Orders
      <3> QED
        BY <3>1, <3>2 DEF Orders
    <2> QED
      BY <1>2, <2>3, <2>4, <2>5
  <1> QED
    BY <1>1, <1>2

Less(s, t, c) == Lex(s, t, c) = -1
LessAt(s, t, c, k) == k <= Len(t) /\ (k <= Len(s) => c[<<s[k], t[k]>>] = -1)

LEMMA LexBelow ==
    ASSUME NEW T, NEW c, Orders(c, T), NEW s \in Seq(T), NEW t \in Seq(T),
           NEW k, Parts(s, t, k)
    PROVE  Less(s, t, c) => LessAt(s, t, c, k)
  <1>1. Lex(s, t, c) = IF k > Len(s) THEN -1
                       ELSE IF k > Len(t) THEN 1 ELSE c[<<s[k], t[k]>>]
    BY LexAt
  <1>2. k \in Nat /\ Len(s) \in Nat /\ Len(t) \in Nat /\ (k <= Len(s) \/ k <= Len(t))
    BY DEF Parts
  <1> QED
    BY <1>1, <1>2 DEF Less, LessAt

LEMMA LexTransitive ==
    ASSUME NEW T, NEW c, Orders(c, T), NEW s \in Seq(T), NEW t \in Seq(T), NEW u \in Seq(T),
           Less(s, t, c), Less(t, u, c)
    PROVE  Less(s, u, c)
  <1>1. s # t /\ t # u
    BY LexValue DEF Less
  <1>2. PICK k : Parts(s, t, k)
    BY <1>1, Parted
  <1>3. PICK m : Parts(t, u, m)
    BY <1>1, Parted
  <1>4. /\ k \in Nat \ {0} /\ m \in Nat \ {0}
        /\ Len(s) \in Nat /\ Len(t) \in Nat /\ Len(u) \in Nat
    BY <1>2, <1>3 DEF Parts
  <1>5. /\ k <= Len(t) /\ (k <= Len(s) => c[<<s[k], t[k]>>] = -1)
        /\ m <= Len(u) /\ (m <= Len(t) => c[<<t[m], u[m]>>] = -1)
    <2>1. LessAt(s, t, c, k) /\ LessAt(t, u, c, m)
      BY <1>2, <1>3, LexBelow
    <2> QED
      BY <2>1 DEF LessAt
  <1>6. /\ \A i \in 1..Len(s) : s[i] \in T
        /\ \A i \in 1..Len(t) : t[i] \in T
        /\ \A i \in 1..Len(u) : u[i] \in T
    OBVIOUS
  <1>7. CASE k < m
    <2>1. t[k] = u[k] /\ k <= Len(u)
      BY <1>3, <1>4, <1>7 DEF Parts
    <2>2. Parts(s, u, k)
      BY <1>2, <1>3, <1>4, <1>7, <2>1 DEF Parts
    <2> QED
      BY <1>4, <1>5, <2>1, <2>2, LexAt DEF Less
  <1>8. CASE m < k
    <2>1. s[m] = t[m] /\ m <= Len(s) /\ m <= Len(t)
      BY <1>2, <1>4, <1>8 DEF Parts
    <2>2. Parts(s, u, m)
      BY <1>2, <1>3, <1>4, <1>8, <2>1 DEF Parts
    <2> QED
      BY <1>4, <1>5, <2>1, <2>2, LexAt DEF Less
  <1>9. CASE m = k
    <2>1. ASSUME k <= Len(s) PROVE c[<<s[k], u[k]>>] = -1 /\ s[k] # u[k]
      <3>1. s[k] \in T /\ t[k] \in T /\ u[k] \in T
        BY <1>4, <1>5, <1>6, <1>9, <2>1
      <3>2. c[<<s[k], u[k]>>] = -1
        BY <1>5, <1>9, <2>1, <3>1 DEF Orders
      <3> QED
        BY <3>1, <3>2 DEF Orders
    <2>2. Parts(s, u, k)
      BY <1>2, <1>3, <1>4, <1>5, <1>9, <2>1 DEF Parts
    <2> QED
      BY <1>4, <1>5, <1>9, <2>1, <2>2, LexAt DEF Less
  <1> QED
    BY <1>4, <1>7, <1>8, <1>9

LEMMA LexOrders ==
    ASSUME NEW T, NEW c, Orders(c, T)
    PROVE  Orders(LexOrder(c, T), Seq(T))
  <1>1. \A s, t \in Seq(T) : LexOrder(c, T)[<<s, t>>] = Lex(s, t, c)
    BY DEF LexOrder
  <1>2. LexOrder(c, T) \in [Seq(T) \X Seq(T) -> {-1, 0, 1}]
    BY LexValue DEF LexOrder
  <1>3. \A s, t \in Seq(T) : /\ Lex(s, t, c) = 0 <=> s = t
                             /\ Lex(s, t, c) = 1 <=> Lex(t, s, c) = -1
    BY LexValue
  <1>4. \A s, t, u \in Seq(T) : Lex(s, t, c) = -1 /\ Lex(t, u, c) = -1 => Lex(s, u, c) = -1
    BY LexTransitive DEF Less
  <1> HIDE DEF LexOrder
  <1> QED
    BY <1>1, <1>2, <1>3, <1>4 DEF Orders

-----------------------------------------------------------------------------
(* Digits, tokens and versions.                                            *)

DigitOrder == [p \in (0..9) \X (0..9) |-> Order(p[1], p[2])]
TokenOrder == [p \in Token \X Token |-> CompareTokens(p[1], p[2])]

LEMMA OrderFacts ==
    ASSUME NEW m \in Int, NEW n \in Int
    PROVE  /\ Order(m, n) \in {-1, 0, 1}
           /\ Order(m, n) = 0 <=> m = n
           /\ Order(m, n) = -1 <=> m < n
           /\ Order(m, n) = 1 <=> n < m
  BY DEF Order

LEMMA OrderOrders ==
    ASSUME NEW D \in SUBSET Int, NEW c, c = [p \in D \X D |-> Order(p[1], p[2])]
    PROVE  Orders(c, D)
  <1>1. ASSUME NEW m \in D, NEW n \in D
        PROVE  /\ c[<<m, n>>] = Order(m, n) /\ c[<<n, m>>] = Order(n, m)
               /\ m \in Int /\ n \in Int
    OBVIOUS
  <1>2. c \in [D \X D -> {-1, 0, 1}]
    BY OrderFacts
  <1>3. ASSUME NEW m \in D, NEW n \in D
        PROVE  /\ c[<<m, n>>] = 0 <=> m = n
               /\ c[<<m, n>>] = 1 <=> c[<<n, m>>] = -1
    <2>1. m \in Int /\ n \in Int
      OBVIOUS
    <2> QED
      BY <1>1, <2>1, OrderFacts
  <1>4. ASSUME NEW m \in D, NEW n \in D, NEW k \in D, c[<<m, n>>] = -1, c[<<n, k>>] = -1
        PROVE  c[<<m, k>>] = -1
    <2>1. m < n /\ n < k /\ m \in Int /\ n \in Int /\ k \in Int
      BY <1>1, <1>4, OrderFacts
    <2>2. m < k
      BY <2>1
    <2> QED
      BY <1>1, <2>1, <2>2, OrderFacts
  <1> QED
    BY <1>2, <1>3, <1>4 DEF Orders

LEMMA DigitsOrdered == Orders(DigitOrder, 0..9)
  <1>1. 0..9 \in SUBSET Int
    OBVIOUS
  <1> QED
    BY <1>1, OrderOrders DEF DigitOrder

LEMMA DigitsAt ==
    ASSUME NEW s \in Seq(0..9), NEW t \in Seq(0..9), NEW k, Parts(s, t, k)
    PROVE  Lex(s, t, DigitOrder) = IF k > Len(s) THEN -1
                                   ELSE IF k > Len(t) THEN 1 ELSE DigitOrder[<<s[k], t[k]>>]
  BY DigitsOrdered, LexAt

LEMMA DigitsCompared ==
    ASSUME NEW s \in Seq(0..9), NEW t \in Seq(0..9)
    PROVE  CompareDigits(s, t) = Lex(s, t, DigitOrder)
  <1>1. \A i \in Common(s, t) : s[i] \in 0..9 /\ t[i] \in 0..9
    BY DEF Common
  <1>2. \A i \in Common(s, t) : Order(s[i], t[i]) = DigitOrder[<<s[i], t[i]>>]
    BY <1>1 DEF DigitOrder
  <1>3. [i \in Common(s, t) |-> Order(s[i], t[i])]
          = [i \in Common(s, t) |-> DigitOrder[<<s[i], t[i]>>]]
    BY <1>2
  <1> QED
    BY <1>3 DEF CompareDigits, Lex

LEMMA DigitsFacts ==
    ASSUME NEW s \in Seq(0..9), NEW t \in Seq(0..9)
    PROVE  /\ CompareDigits(s, t) \in {-1, 0, 1}
           /\ CompareDigits(s, t) = 0 <=> s = t
           /\ CompareDigits(s, t) = 1 <=> CompareDigits(t, s) = -1
  BY DigitsCompared, DigitsOrdered, LexValue

LEMMA DigitsTransitive ==
    ASSUME NEW s \in Seq(0..9), NEW t \in Seq(0..9), NEW u \in Seq(0..9),
           CompareDigits(s, t) = -1, CompareDigits(t, u) = -1
    PROVE  CompareDigits(s, u) = -1
  BY DigitsCompared, DigitsOrdered, LexTransitive DEF Less

LEMMA NumbersAreNat == Numbers \in SUBSET Nat
  <1>1. Printed \in Nat
    BY NumberAssumption
  <1> QED
    BY <1>1 DEF Numbers

LEMMA TokenFields ==
    ASSUME NEW a \in Token
    PROVE  /\ a = [kind |-> a.kind, value |-> a.value, digits |-> a.digits]
           /\ a.kind \in {"number", "text"} /\ a.value \in Nat /\ a.digits \in Seq(0..9)
           /\ a.kind = "number" => a.digits = <<>> /\ a.value \in Numbers
  <1>1. <<>> \in Seq(0..9)
    OBVIOUS
  <1>2. CASE a \in [kind : {"number"}, value : Numbers, digits : {<<>>}]
    BY <1>1, <1>2, NumbersAreNat
  <1>3. CASE a \in [kind : {"text"}, value : Nat, digits : Seq(0..9)]
    BY <1>3
  <1> QED
    BY <1>2, <1>3 DEF Token

LEMMA TokensFacts ==
    ASSUME NEW a \in Token, NEW b \in Token
    PROVE  /\ CompareTokens(a, b) \in {-1, 0, 1}
           /\ CompareTokens(a, b) = 0 <=> a = b
           /\ CompareTokens(a, b) = 1 <=> CompareTokens(b, a) = -1
  <1>1. /\ a.value \in Int /\ b.value \in Int
        /\ a.digits \in Seq(0..9) /\ b.digits \in Seq(0..9)
        /\ a.kind \in {"number", "text"} /\ b.kind \in {"number", "text"}
        /\ a.kind = b.kind /\ a.value = b.value /\ a.digits = b.digits => a = b
    BY TokenFields
  <1>2. CASE a.kind # b.kind
    BY <1>1, <1>2 DEF CompareTokens
  <1>3. CASE a.kind = b.kind /\ (a.value # b.value \/ a.kind = "number")
    <2>1. CompareTokens(a, b) = Order(a.value, b.value) /\ CompareTokens(b, a) = Order(b.value, a.value)
      BY <1>3 DEF CompareTokens
    <2>2. a.value = b.value => a.digits = b.digits
      BY <1>3, TokenFields
    <2> QED
      BY <1>1, <1>3, <2>1, <2>2, OrderFacts
  <1>4. CASE a.kind = b.kind /\ a.value = b.value /\ a.kind # "number"
    <2>1. /\ CompareTokens(a, b) = CompareDigits(a.digits, b.digits)
          /\ CompareTokens(b, a) = CompareDigits(b.digits, a.digits)
      BY <1>4 DEF CompareTokens
    <2> QED
      BY <1>1, <1>4, <2>1, DigitsFacts
  <1> QED
    BY <1>2, <1>3, <1>4

LEMMA TokensTransitive ==
    ASSUME NEW a \in Token, NEW b \in Token, NEW d \in Token,
           CompareTokens(a, b) = -1, CompareTokens(b, d) = -1
    PROVE  CompareTokens(a, d) = -1
  <1>1. /\ a.value \in Int /\ b.value \in Int /\ d.value \in Int
        /\ a.digits \in Seq(0..9) /\ b.digits \in Seq(0..9) /\ d.digits \in Seq(0..9)
        /\ a.kind \in {"number", "text"} /\ b.kind \in {"number", "text"}
        /\ d.kind \in {"number", "text"}
    BY TokenFields
  <1>2. ASSUME NEW x \in Token, NEW y \in Token, CompareTokens(x, y) = -1
        PROVE  \/ x.kind = "text" /\ y.kind = "number"
               \/ x.kind = y.kind /\ x.value < y.value
               \/ /\ x.kind = "text" /\ y.kind = "text" /\ x.value = y.value
                  /\ CompareDigits(x.digits, y.digits) = -1
    <2>1. x.value \in Int /\ y.value \in Int /\ x.kind \in {"number", "text"} /\ y.kind \in {"number", "text"}
      BY TokenFields
    <2> QED
      BY <1>2, <2>1, OrderFacts DEF CompareTokens
  <1>3. \/ a.kind = "text" /\ b.kind = "number"
        \/ a.kind = b.kind /\ a.value < b.value
        \/ /\ a.kind = "text" /\ b.kind = "text" /\ a.value = b.value
           /\ CompareDigits(a.digits, b.digits) = -1
    BY <1>2
  <1>4. \/ b.kind = "text" /\ d.kind = "number"
        \/ b.kind = d.kind /\ b.value < d.value
        \/ /\ b.kind = "text" /\ d.kind = "text" /\ b.value = d.value
           /\ CompareDigits(b.digits, d.digits) = -1
    BY <1>2
  <1>5. \/ a.kind = "text" /\ d.kind = "number"
        \/ a.kind = d.kind /\ a.value < d.value
        \/ /\ a.kind = "text" /\ d.kind = "text" /\ a.value = d.value
           /\ CompareDigits(a.digits, d.digits) = -1
    <2>1. CompareDigits(a.digits, b.digits) = -1 /\ CompareDigits(b.digits, d.digits) = -1 =>
              CompareDigits(a.digits, d.digits) = -1
      BY <1>1, DigitsTransitive
    <2> QED
      BY <1>1, <1>3, <1>4, <2>1
  <1> QED
    BY <1>1, <1>5, OrderFacts DEF CompareTokens

LEMMA TokensOrdered == Orders(TokenOrder, Token)
  <1>1. \A a, b \in Token : TokenOrder[<<a, b>>] = CompareTokens(a, b)
    BY DEF TokenOrder
  <1>2. TokenOrder \in [Token \X Token -> {-1, 0, 1}]
    BY TokensFacts DEF TokenOrder
  <1>3. \A a, b \in Token : /\ CompareTokens(a, b) = 0 <=> a = b
                            /\ CompareTokens(a, b) = 1 <=> CompareTokens(b, a) = -1
    BY TokensFacts
  <1>4. \A a, b, d \in Token : CompareTokens(a, b) = -1 /\ CompareTokens(b, d) = -1
                                 => CompareTokens(a, d) = -1
    BY TokensTransitive
  <1> HIDE DEF TokenOrder
  <1> QED
    BY <1>1, <1>2, <1>3, <1>4 DEF Orders

LEMMA VersionsCompared ==
    ASSUME NEW v \in Seq(Token), NEW w \in Seq(Token)
    PROVE  CompareVersions(v, w) = Lex(v, w, TokenOrder)
  <1>1. \A i \in Common(v, w) : v[i] \in Token /\ w[i] \in Token
    BY DEF Common
  <1>2. \A i \in Common(v, w) : CompareTokens(v[i], w[i]) = TokenOrder[<<v[i], w[i]>>]
    BY <1>1 DEF TokenOrder
  <1>3. [i \in Common(v, w) |-> CompareTokens(v[i], w[i])]
          = [i \in Common(v, w) |-> TokenOrder[<<v[i], w[i]>>]]
    BY <1>2
  <1> QED
    BY <1>3 DEF CompareVersions, Lex

\* compareVersions is a total order of the versions.
LEMMA VersionsOrdered ==
    /\ \A v, w \in Seq(Token) :
         /\ CompareVersions(v, w) \in {-1, 0, 1}
         /\ CompareVersions(v, w) = 0 <=> v = w
         /\ CompareVersions(v, w) = 1 <=> CompareVersions(w, v) = -1
    /\ \A u, v, w \in Seq(Token) :
         CompareVersions(u, v) = -1 /\ CompareVersions(v, w) = -1 => CompareVersions(u, w) = -1
  <1>1. ASSUME NEW v \in Seq(Token), NEW w \in Seq(Token)
        PROVE  /\ CompareVersions(v, w) \in {-1, 0, 1}
               /\ CompareVersions(v, w) = 0 <=> v = w
               /\ CompareVersions(v, w) = 1 <=> CompareVersions(w, v) = -1
    BY VersionsCompared, TokensOrdered, LexValue
  <1>2. ASSUME NEW u \in Seq(Token), NEW v \in Seq(Token), NEW w \in Seq(Token),
               CompareVersions(u, v) = -1, CompareVersions(v, w) = -1
        PROVE  CompareVersions(u, w) = -1
    <2>1. Less(u, v, TokenOrder) /\ Less(v, w, TokenOrder)
      BY <1>2, VersionsCompared DEF Less
    <2>2. Less(u, w, TokenOrder)
      BY <2>1, TokensOrdered, LexTransitive
    <2> QED
      BY <2>2, VersionsCompared DEF Less
  <1> QED
    BY <1>1, <1>2

\* What is greater than the greatest is greater than all.
LEMMA GreaterThanBoth ==
    ASSUME NEW c \in Seq(Token), NEW m \in Seq(Token), NEW v \in Seq(Token),
           CompareVersions(c, m) > 0, CompareVersions(v, m) <= 0
    PROVE  CompareVersions(c, v) = 1
  <1>1. CompareVersions(c, m) \in {-1, 0, 1} /\ CompareVersions(v, m) \in {-1, 0, 1}
    BY VersionsOrdered
  <1>2. CompareVersions(c, m) = 1 /\ CompareVersions(m, c) = -1
    BY <1>1, VersionsOrdered
  <1>3. CASE v = m
    BY <1>2, <1>3
  <1>4. CASE v # m
    <2>1. CompareVersions(v, m) = -1
      BY <1>1, <1>4, VersionsOrdered
    <2>2. CompareVersions(v, c) = -1
      BY <1>2, <2>1, VersionsOrdered
    <2> QED
      BY <2>2, VersionsOrdered
  <1> QED
    BY <1>3, <1>4

\* A finite set of versions has a greatest one.
LEMMA GreatestExists ==
    ASSUME NEW S \in SUBSET Seq(Token), S # {}, IsFiniteSet(S)
    PROVE  \E v \in S : \A w \in S : CompareVersions(w, v) <= 0
  <1> DEFINE Above(v) == {w \in S : CompareVersions(v, w) = -1}
  <1>1. IsWellFoundedOn(StrictSubsetOrdering(S), SUBSET S)
    BY FS_StrictSubsetOrderingWellFounded, FS_FiniteSubsetsOfFinite
  <1>2. {Above(v) : v \in S} \subseteq SUBSET S /\ {Above(v) : v \in S} # {}
    OBVIOUS
  <1>3. PICK A \in {Above(v) : v \in S} :
          \A B \in {Above(v) : v \in S} : ~(<<B, A>> \in StrictSubsetOrdering(S))
    BY <1>1, <1>2, WFMin
  <1>4. PICK v \in S : A = Above(v)
    BY <1>3
  <1>5. ASSUME NEW w \in S, CompareVersions(v, w) = -1 PROVE FALSE
    <2>1. v \in Seq(Token) /\ w \in Seq(Token)
      OBVIOUS
    <2>2. Above(w) \subseteq Above(v)
      BY <1>5, <2>1, VersionsOrdered
    <2>3. w \in Above(v) /\ w \notin Above(w)
      BY <1>5, <2>1, VersionsOrdered
    <2>4. <<Above(w), Above(v)>> \in StrictSubsetOrdering(S)
      BY <2>2, <2>3 DEF StrictSubsetOrdering
    <2> QED
      BY <1>3, <1>4, <2>4
  <1>6. ASSUME NEW w \in S PROVE CompareVersions(w, v) <= 0
    <2>1. v \in Seq(Token) /\ w \in Seq(Token)
      OBVIOUS
    <2>2. CompareVersions(w, v) \in {-1, 0}
      BY <1>5, <2>1, VersionsOrdered
    <2> QED
      BY <2>2
  <1> QED
    BY <1>6

-----------------------------------------------------------------------------
(* The version that is proposed.                                           *)

LEMMA LastNotNine ==
    ASSUME NEW ds \in Seq(0..9), ~AllNines(ds)
    PROVE  \E p \in DOMAIN ds : ds[p] # 9 /\ \A k \in DOMAIN ds : k > p => ds[k] = 9
  <1> DEFINE D == {Len(ds) - i : i \in {i \in DOMAIN ds : ds[i] # 9}}
  <1>1. DOMAIN ds = 1..Len(ds) /\ Len(ds) \in Nat
    OBVIOUS
  <1>2. D \in SUBSET Nat /\ D # {}
    BY <1>1 DEF AllNines
  <1>3. FirstOf(D) \in D /\ \A k \in D : FirstOf(D) <= k
    BY <1>2, FirstIs
  <1>4. PICK p \in DOMAIN ds : ds[p] # 9 /\ FirstOf(D) = Len(ds) - p
    BY <1>3
  <1>5. ASSUME NEW k \in DOMAIN ds, k > p, ds[k] # 9 PROVE FALSE
    <2>1. Len(ds) - k \in D
      BY <1>5
    <2>2. Len(ds) - p <= Len(ds) - k
      BY <1>3, <1>4, <2>1
    <2> QED
      BY <1>1, <1>5, <2>2
  <1> QED
    BY <1>4, <1>5

LEMMA NextDigitsFacts ==
    ASSUME NEW ds \in Seq(0..9), ds # <<>>
    PROVE  /\ NextDigits(ds) \in Seq(0..9)
           /\ AllNines(ds) => CompareDigits(NextDigits(ds), ds) = -1
           /\ ~AllNines(ds) => CompareDigits(NextDigits(ds), ds) = 1
  <1>1. DOMAIN ds = 1..Len(ds) /\ Len(ds) \in Nat \ {0} /\ ds \in [1..Len(ds) -> 0..9]
    OBVIOUS
  <1>2. CASE AllNines(ds)
    <2> DEFINE zeros == [i \in DOMAIN ds |-> 0]
    <2>1. zeros \in [1..Len(ds) -> 0..9]
      BY <1>1
    <2>2. zeros \in Seq(0..9)
      BY <1>1, <2>1
    <2>3. NextDigits(ds) = <<1>> \o zeros
      BY <1>2 DEF NextDigits
    <2> HIDE DEF zeros
    <2>4. <<1>> \in Seq(0..9) /\ Len(<<1>>) = 1 /\ <<1>>[1] = 1
      OBVIOUS
    <2>5. NextDigits(ds) \in Seq(0..9)
      BY <2>2, <2>3, <2>4
    <2>6. Len(NextDigits(ds)) >= 1 /\ NextDigits(ds)[1] = 1
      BY <2>2, <2>3, <2>4
    <2>7. ds[1] = 9
      BY <1>1, <1>2 DEF AllNines
    <2>8. Parts(NextDigits(ds), ds, 1)
      BY <1>1, <2>6, <2>7 DEF Parts
    <2>9. Lex(NextDigits(ds), ds, DigitOrder) = DigitOrder[<<1, 9>>]
      <3>1. Lex(NextDigits(ds), ds, DigitOrder) =
              IF 1 > Len(NextDigits(ds)) THEN -1
              ELSE IF 1 > Len(ds) THEN 1 ELSE DigitOrder[<<NextDigits(ds)[1], ds[1]>>]
        BY <2>5, <2>8, DigitsAt
      <3>2. Len(NextDigits(ds)) \in Nat
        BY <2>5
      <3> QED
        BY <1>1, <2>6, <2>7, <3>1, <3>2
    <2>10. DigitOrder[<<1, 9>>] = -1
      BY DEF DigitOrder, Order
    <2> QED
      BY <1>2, <2>5, <2>9, <2>10, DigitsCompared
  <1>3. CASE ~AllNines(ds)
    <2> DEFINE p == CHOOSE i \in DOMAIN ds :
                      ds[i] # 9 /\ \A k \in DOMAIN ds : k > i => ds[k] = 9
               next == [i \in DOMAIN ds |->
                          IF i < p THEN ds[i] ELSE IF i = p THEN ds[i] + 1 ELSE 0]
    <2>1. p \in DOMAIN ds /\ ds[p] # 9
      BY <1>3, LastNotNine
    <2>2. NextDigits(ds) = next
      BY <1>3 DEF NextDigits
    <2> HIDE DEF p
    <2>3. ds[p] \in 0..8 /\ ds[p] + 1 \in 0..9
      BY <1>1, <2>1
    <2>4. next \in [1..Len(ds) -> 0..9]
      BY <1>1, <2>1, <2>3
    <2>5. next \in Seq(0..9) /\ Len(next) = Len(ds)
      BY <1>1, <2>4
    <2>6. next[p] = ds[p] + 1 /\ \A i \in 1..Len(ds) : i < p => next[i] = ds[i]
      BY <1>1, <2>1
    <2>7. p \in Nat \ {0} /\ p <= Len(ds)
      BY <1>1, <2>1
    <2> HIDE DEF next
    <2>8. Parts(next, ds, p)
      BY <1>1, <2>3, <2>5, <2>6, <2>7 DEF Parts
    <2>9. Lex(next, ds, DigitOrder) = DigitOrder[<<ds[p] + 1, ds[p]>>]
      <3>1. Lex(next, ds, DigitOrder) =
              IF p > Len(next) THEN -1
              ELSE IF p > Len(ds) THEN 1 ELSE DigitOrder[<<next[p], ds[p]>>]
        BY <2>5, <2>8, DigitsAt
      <3> QED
        BY <1>1, <2>5, <2>6, <2>7, <3>1
    <2>10. DigitOrder[<<ds[p] + 1, ds[p]>>] = 1
      BY <2>3 DEF DigitOrder, Order
    <2> QED
      BY <1>3, <2>2, <2>5, <2>9, <2>10, DigitsCompared
  <1> QED
    BY <1>2, <1>3

LEMMA VersionAt ==
    ASSUME NEW v \in Seq(Token), NEW w \in Seq(Token), NEW k, Parts(v, w, k), k <= Len(v)
    PROVE  CompareVersions(v, w) = IF k > Len(w) THEN 1 ELSE CompareTokens(v[k], w[k])
  <1>1. CompareVersions(v, w) = IF k > Len(v) THEN -1
                                ELSE IF k > Len(w) THEN 1 ELSE TokenOrder[<<v[k], w[k]>>]
    BY VersionsCompared, TokensOrdered, LexAt
  <1>2. k \in Nat \ {0} /\ Len(v) \in Nat /\ Len(w) \in Nat
    BY DEF Parts
  <1>3. k <= Len(w) => TokenOrder[<<v[k], w[k]>>] = CompareTokens(v[k], w[k])
    BY <1>2 DEF TokenOrder
  <1> QED
    BY <1>1, <1>2, <1>3

\* Counting the last token up is greater exactly when the token is.
LEMMA LastTokenReplaced ==
    ASSUME NEW v \in Seq(Token), v # <<>>, NEW t \in Token, t # v[Len(v)],
           NEW w, w = [v EXCEPT ![Len(v)] = t]
    PROVE  w \in Seq(Token) /\ CompareVersions(w, v) = CompareTokens(t, v[Len(v)])
  <1>1. PICK n \in Nat \ {0} : n = Len(v)
    OBVIOUS
  <1>2. v \in [1..n -> Token] /\ w = [v EXCEPT ![n] = t] /\ t # v[n]
    BY <1>1
  <1>3. w \in [1..n -> Token] /\ w[n] = t /\ \A i \in 1..n : i # n => w[i] = v[i]
    BY <1>2
  <1>4. w \in Seq(Token)
    BY <1>3
  <1>5. Len(w) = n
    BY <1>3, <1>4
  <1>6. \A i \in Nat \ {0} : i < n => i <= n /\ w[i] = v[i]
    BY <1>3
  <1>7. Parts(w, v, n)
    BY <1>1, <1>2, <1>3, <1>5, <1>6 DEF Parts
  <1>8. CompareVersions(w, v) = IF n > Len(v) THEN 1 ELSE CompareTokens(w[n], v[n])
    <2>1. n <= Len(w)
      BY <1>5
    <2> QED
      BY <1>4, <1>7, <2>1, VersionAt
  <1>9. ~(n > Len(v))
    BY <1>1
  <1>10. CompareVersions(w, v) = CompareTokens(t, v[n])
    BY <1>3, <1>8, <1>9
  <1> QED
    BY <1>1, <1>4, <1>10

\* The next number is a number: one more below Exact, and from there on the
\* same one or the next there is.
LEMMA NextNumberFacts ==
    ASSUME NEW n \in Numbers
    PROVE  NextNumber(n) \in Numbers /\ NextNumber(n) \in Nat /\ n \in Nat
           /\ NextNumber(n) >= n
  <1>1. /\ Exact \in Nat /\ Exact >= 4 /\ Exact % 4 = 0 /\ Printed \in Nat /\ 2 * Exact < Printed
        /\ n \in Nat /\ n < Printed /\ (n < Exact \/ (n < 2 * Exact /\ n % 2 = 0) \/ n % 4 = 0)
    BY NumberAssumption DEF Numbers
  <1>2. CASE n < Exact
    <2>1. NextNumber(n) = n + 1
      BY <1>2 DEF NextNumber
    <2>2. n + 1 < Exact \/ n + 1 = Exact
      BY <1>1, <1>2
    <2>3. n + 1 \in 0..(Printed - 1)
      BY <1>1, <1>2
    <2>4. n + 1 = Exact => (n + 1) % 4 = 0
      BY <1>1
    <2> QED
      BY <1>1, <2>1, <2>2, <2>3, <2>4 DEF Numbers
  <1>3. CASE ~(n < Exact) /\ n < 2 * Exact /\ n % 4 = 2
    <2>1. NextNumber(n) = n + 2
      BY <1>3 DEF NextNumber
    <2>2. (n + 2) % 4 = 0 /\ n + 2 < 2 * Exact + 1
      BY <1>1, <1>3
    <2>3. n + 2 \in 0..(Printed - 1)
      BY <1>1, <2>2
    <2> QED
      BY <1>1, <2>1, <2>2, <2>3 DEF Numbers
  <1>4. CASE ~(n < Exact) /\ ~(n < 2 * Exact /\ n % 4 = 2)
    <2>1. NextNumber(n) = n
      BY <1>4 DEF NextNumber
    <2> QED
      BY <1>1, <2>1
  <1> QED
    BY <1>2, <1>3, <1>4

LEMMA NumberIsToken ==
    ASSUME NEW n \in Numbers
    PROVE  Number(n) \in Token
  BY DEF Number, Token

LEMMA FirstNumbers == Number(0) \in Token /\ Number(1) \in Token
  <1>1. 0 \in Numbers /\ 1 \in Numbers
    BY NumberAssumption DEF Numbers
  <1> QED
    BY <1>1, NumberIsToken

(* suggestNextVersion proposes a greater version unless it carries into    *)
(* the digits of a word, where it proposes a smaller one (rc9 is followed  *)
(* by rc10, which is compared as text), or counts a number up that is too  *)
(* large for it, where it proposes the version itself (from 2^53 on).      *)
THEOREM SuggestionTheorem ==
    ASSUME NEW v \in Seq(Token), Countable(v)
    PROVE  /\ SuggestNextVersion(v) \in Seq(Token)
           /\ CompareVersions(SuggestNextVersion(v), v) > 0 <=> ~CarriesInText(v) /\ ~StaysPut(v)
           /\ StaysPut(v) => SuggestNextVersion(v) = v
  <1> DEFINE last == v[Len(v)]
             next == SuggestNextVersion(v)
  <1>1. CASE v = <<>>
    <2>1. next = <<Number(0), Number(0), Number(1)>>
      BY <1>1 DEF SuggestNextVersion
    <2>2. Number(0) \in Token /\ Number(1) \in Token
      BY FirstNumbers
    <2> HIDE DEF next
    <2>3. next \in Seq(Token) /\ Len(next) = 3 /\ Len(v) = 0
      <3> DEFINE zero == Number(0)  one == Number(1)
      <3>1. zero \in Token /\ one \in Token /\ next = <<zero, zero, one>>
        BY <2>1, <2>2
      <3> HIDE DEF zero, one
      <3> QED
        BY <1>1, <3>1
    <2>4. Parts(next, v, 1)
      BY <2>3 DEF Parts
    <2>5. CompareVersions(next, v) = IF 1 > Len(v) THEN 1 ELSE CompareTokens(next[1], v[1])
      <3>1. 1 <= Len(next)
        BY <2>3
      <3> QED
        BY <2>3, <2>4, <3>1, VersionAt
    <2>6. CompareVersions(next, v) = 1
      BY <2>3, <2>5
    <2> QED
      BY <1>1, <2>3, <2>6 DEF CarriesInText, StaysPut, next
  <1>2. ASSUME v # <<>>
        PROVE  /\ Len(v) \in Nat \ {0} /\ last \in Token
               /\ last = [kind |-> last.kind, value |-> last.value, digits |-> last.digits]
               /\ last.value \in Nat /\ last.digits \in Seq(0..9)
               /\ last.kind \in {"number", "text"}
    <2>1. Len(v) \in Nat \ {0} /\ last \in Token
      BY <1>2
    <2> QED
      BY <2>1, TokenFields
  <1>3. CASE v # <<>> /\ last.kind = "number"
    <2> DEFINE n == NextNumber(last.value)
    <2>1. next = [v EXCEPT ![Len(v)] = Number(n)]
      BY <1>3 DEF SuggestNextVersion
    <2>2. last.value \in Numbers /\ last.value \in Nat /\ last.digits = <<>>
          /\ last = [kind |-> last.kind, value |-> last.value, digits |-> last.digits]
      BY <1>2, <1>3, TokenFields
    <2>3. n \in Numbers /\ n \in Nat /\ n >= last.value
      BY <2>2, NextNumberFacts
    <2>4. ~CarriesInText(v) /\ (StaysPut(v) <=> n = last.value)
      BY <1>3 DEF CarriesInText, StaysPut
    <2> HIDE DEF n
    <2>5. Number(n) \in Token /\ Number(n).kind = "number" /\ Number(n).value = n
      BY <2>3, NumberIsToken DEF Number
    <2>6. CASE n = last.value
      <3>1. Number(n) = last
        BY <1>3, <2>2, <2>6 DEF Number
      <3>2. next = v
        BY <1>3, <2>1, <3>1
      <3>3. CompareVersions(next, v) = 0
        BY <3>2, VersionsOrdered
      <3> QED
        BY <2>4, <2>6, <3>2, <3>3
    <2>7. CASE n # last.value
      <3>1. Number(n) # last
        BY <2>5, <2>7
      <3>2. CompareTokens(Number(n), last) = 1
        <4>1. CompareTokens(Number(n), last) = Order(n, last.value)
          BY <1>3, <2>5 DEF CompareTokens
        <4> QED
          BY <2>2, <2>3, <2>7, <4>1 DEF Order
      <3>3. next \in Seq(Token) /\ CompareVersions(next, v) = 1
        BY <1>3, <2>1, <2>5, <3>1, <3>2, LastTokenReplaced
      <3> QED
        BY <2>4, <2>7, <3>3
    <2> QED
      BY <2>6, <2>7
  <1>4. CASE v # <<>> /\ last.kind = "text" /\ last.digits = <<>>
    <2>1. next = Append(v, Number(1))
      BY <1>4 DEF SuggestNextVersion
    <2>2. Number(1) \in Token
      BY FirstNumbers
    <2>3. /\ next \in Seq(Token) /\ Len(next) = Len(v) + 1 /\ Len(v) \in Nat
          /\ \A i \in 1..Len(v) : next[i] = v[i]
      BY <2>1, <2>2
    <2> HIDE DEF next
    <2>4. Parts(next, v, Len(v) + 1)
      BY <2>3 DEF Parts
    <2>5. CompareVersions(next, v) = 1
      BY <2>3, <2>4, VersionAt
    <2> QED
      BY <1>4, <2>3, <2>5 DEF CarriesInText, StaysPut, next
  <1>5. CASE v # <<>> /\ last.kind = "text" /\ last.digits # <<>>
    <2> DEFINE t == [last EXCEPT !.digits = NextDigits(last.digits)]
    <2>0. CompareDigits(NextDigits(last.digits), last.digits) # 0
      BY <1>2, <1>5, NextDigitsFacts
    <2>1. next = [v EXCEPT ![Len(v)] = t]
      BY <1>5 DEF SuggestNextVersion
    <2>2. NextDigits(last.digits) \in Seq(0..9) /\ NextDigits(last.digits) # last.digits
      BY <1>2, <1>5, <2>0, NextDigitsFacts, DigitsFacts
    <2>3. /\ t.kind = "text" /\ t.value = last.value /\ t.digits = NextDigits(last.digits)
          /\ t = [kind |-> "text", value |-> last.value, digits |-> NextDigits(last.digits)]
      BY <1>2, <1>5
    <2> HIDE DEF t
    <2>4. t \in Token /\ t # last
      <3> DEFINE ds == NextDigits(last.digits)
                 n == last.value
      <3>0. n \in Nat /\ ds \in Seq(0..9) /\ t = [kind |-> "text", value |-> n, digits |-> ds]
        BY <1>2, <1>5, <2>2, <2>3
      <3> HIDE DEF ds, n
      <3>1. t \in [kind : {"text"}, value : Nat, digits : Seq(0..9)]
        BY <3>0
      <3>2. t \in Token
        BY <3>1 DEF Token
      <3>3. t.digits # last.digits
        BY <2>2, <2>3
      <3> QED
        BY <3>2, <3>3
    <2>5. CompareTokens(t, last) = CompareDigits(NextDigits(last.digits), last.digits)
      BY <1>2, <1>5, <2>3 DEF CompareTokens
    <2>6. next \in Seq(Token) /\ CompareVersions(next, v) = CompareTokens(t, last)
      BY <1>5, <2>1, <2>4, LastTokenReplaced DEF t
    <2>7. CompareVersions(next, v) = IF AllNines(last.digits) THEN -1 ELSE 1
      BY <1>2, <1>5, <2>5, <2>6, NextDigitsFacts
    <2> QED
      BY <1>5, <2>6, <2>7 DEF CarriesInText, StaysPut
  <1> QED
    BY <1>1, <1>2, <1>3, <1>4, <1>5

-----------------------------------------------------------------------------
(* The workspaces.                                                         *)

\* A dependency file is a set of entries no two of which have the same key.
LEMMA FileIs ==
    ASSUME NEW file
    PROVE  file \in Files <=> /\ file \in SUBSET EntrySet
                              /\ \A e, f \in file : e.key = f.key => e = f
  <1>1. ASSUME file \in Files
        PROVE  /\ file \in SUBSET EntrySet
               /\ \A e, f \in file : e.key = f.key => e = f
    <2>0. PICK K \in SUBSET (Skills \cup Aliases) :
            \E g \in [K -> Skills \X Versions] :
               file = {Entry(k, g[k][1], g[k][2]) : k \in K}
      BY <1>1 DEF Files
    <2>1. PICK g \in [K -> Skills \X Versions] :
            file = {Entry(k, g[k][1], g[k][2]) : k \in K}
      BY <2>0
    <2>2. \A k \in K : g[k][1] \in Skills /\ g[k][2] \in Versions
      OBVIOUS
    <2>3. ASSUME NEW e \in file
          PROVE  \E k \in K : e = [key |-> k, skill |-> g[k][1], version |-> g[k][2]]
      BY <2>1 DEF Entry
    <2>4. \A e \in file : e \in EntrySet
      BY <2>2, <2>3 DEF EntrySet
    <2>5. \A e, f \in file : e.key = f.key => e = f
      BY <2>3
    <2> QED
      BY <2>4, <2>5
  <1>2. ASSUME file \in SUBSET EntrySet, \A e, f \in file : e.key = f.key => e = f
        PROVE  file \in Files
    <2> DEFINE K == {e.key : e \in file}
               At(k) == CHOOSE e \in file : e.key = k
               g == [k \in K |-> <<At(k).skill, At(k).version>>]
    <2>1. \A e \in file : /\ e = [key |-> e.key, skill |-> e.skill, version |-> e.version]
                          /\ e.key \in Skills \cup Aliases
                          /\ e.skill \in Skills /\ e.version \in Versions
      BY <1>2 DEF EntrySet
    <2>2. \A k \in K : At(k) \in file /\ At(k).key = k
      OBVIOUS
    <2>3. \A e \in file : At(e.key) = e
      BY <1>2, <2>2
    <2>4. K \in SUBSET (Skills \cup Aliases)
      BY <2>1
    <2> HIDE DEF At, K
    <2>5. g \in [K -> Skills \X Versions]
      BY <2>1, <2>2
    <2>6. \A k \in K : g[k][1] = At(k).skill /\ g[k][2] = At(k).version
      OBVIOUS
    <2> HIDE DEF g
    <2>7. \A k \in K : Entry(k, g[k][1], g[k][2]) = At(k)
      BY <2>1, <2>2, <2>6 DEF Entry
    <2>8. \A e \in file : e.key \in K
      BY DEF K
    <2>9. file = {Entry(k, g[k][1], g[k][2]) : k \in K}
      BY <2>2, <2>3, <2>7, <2>8
    <2> QED
      BY <2>4, <2>5, <2>9 DEF Files
  <1> QED
    BY <1>1, <1>2

\* What a build writes is a dependency file.
LEMMA MergedIsFile ==
    ASSUME NEW old \in Files \cup {None}, NEW new \in Files
    PROVE  Merged(Entries(old), new) \in Files
  <1>1. Entries(old) \in SUBSET EntrySet
        /\ \A e, f \in Entries(old) : e.key = f.key => e = f
    BY FileIs, FileAssumption DEF Entries
  <1>2. new \in SUBSET EntrySet /\ \A e, f \in new : e.key = f.key => e = f
    BY FileIs
  <1> DEFINE merged == Merged(Entries(old), new)
  <1>3. merged \in SUBSET EntrySet
    BY <1>1, <1>2 DEF Merged
  <1>4. \A e, f \in merged : e.key = f.key => e = f
    BY <1>1, <1>2 DEF Merged
  <1> QED
    BY <1>3, <1>4, FileIs

LEMMA ReferencesAreFile ==
    ASSUME NEW p \in People, NEW refs,
           refs = {} \/ (\E s \in Skills : refs = AllReferences(p, s))
                     \/ (\E r \in References : refs = {r}),
           md \in [People -> [Skills -> Versions \cup {None}]],
           \A r \in refs : md[p][r.skill] # None
    PROVE  {Entry(EntryKey(r.skill, r.alias), r.skill, md[p][r.skill]) : r \in refs} \in Files
  <1> DEFINE new == {Entry(EntryKey(r.skill, r.alias), r.skill, md[p][r.skill]) : r \in refs}
  <1>1. \A r \in refs : r.skill \in Skills /\ r.alias \in Aliases \cup {None}
    <2>1. CASE refs = {}
      BY <2>1
    <2>2. CASE \E s \in Skills : refs = AllReferences(p, s)
      BY <2>2 DEF AllReferences
    <2>3. CASE \E r \in References : refs = {r}
      BY <2>3 DEF References
    <2> QED
      BY <2>1, <2>2, <2>3
  <1>2. \A r \in refs : /\ EntryKey(r.skill, r.alias) \in Skills \cup Aliases
                        /\ md[p][r.skill] \in Versions
    BY <1>1 DEF EntryKey
  <1>3. new \in SUBSET EntrySet
    BY <1>1, <1>2 DEF Entry, EntrySet
  <1>4. \A e, f \in new : e.key = f.key => e = f
    <2>1. CASE refs = {}
      BY <2>1
    <2>2. CASE \E s \in Skills : refs = AllReferences(p, s)
      <3>1. \A r \in refs : r.alias = None
        BY <2>2 DEF AllReferences
      <3>2. \A e \in new : e.key = e.skill /\ e = Entry(e.skill, e.skill, md[p][e.skill])
        BY <3>1 DEF Entry, EntryKey
      <3> QED
        BY <3>2
    <2>3. CASE \E r \in References : refs = {r}
      BY <2>3
    <2> QED
      BY <2>1, <2>2, <2>3
  <1> QED
    BY <1>3, <1>4, FileIs

\* What a workspace holds.
WorkspaceTyped ==
    /\ md \in [People -> [Skills -> Versions \cup {None}]]
    /\ plain \in [People -> [Skills -> Files \cup {None, Torn}]]
    /\ lock \in [People -> [Skills -> Files \cup {None, Torn}]]
    /\ build \in [People -> [pc : {"plain", "lock"}, skill : Skills, entries : Files]
                            \cup {NoBuild}]
    /\ buildBreaks \in Nat

\* Nothing is torn or half built while no build broke: a build that still has
\* to write the lock has the other file's entries for it.
Unbroken ==
    buildBreaks = 0 =>
        \A p \in People, s \in Skills :
            /\ plain[p][s] # Torn /\ lock[p][s] # Torn
            /\ build[p].skill # s => plain[p][s] = lock[p][s]
            /\ build[p].pc = "lock" /\ build[p].skill = s => plain[p][s] = build[p].entries

LEMMA WorkspaceTypedIsTypeOK ==
    ASSUME WorkspaceTyped
    PROVE  WorkspaceTypeOK
  <1> SUFFICES ASSUME NEW p \in People, NEW s \in Skills
               PROVE  /\ plain[p][s] \in {None, Torn} \/ plain[p][s] \subseteq EntrySet
                      /\ lock[p][s] \in {None, Torn} \/ lock[p][s] \subseteq EntrySet
                      /\ Unambiguous(plain[p][s]) /\ Unambiguous(lock[p][s])
    BY DEF WorkspaceTypeOK
  <1>1. plain[p][s] \in Files \cup {None, Torn} /\ lock[p][s] \in Files \cup {None, Torn}
    BY DEF WorkspaceTyped
  <1> QED
    BY <1>1, FileIs DEF Unambiguous

LEMMA WorkspaceStarts ==
    ASSUME InitWorkspace
    PROVE  WorkspaceTyped /\ Unbroken
  <1>1. md \in [People -> [Skills -> Versions \cup {None}]]
    BY FirstAssumption DEF InitWorkspace
  <1>2. FirstEntries \in [Skills -> Files \cup {None, Torn}]
    BY FirstAssumption
  <1>3. plain \in [People -> [Skills -> Files \cup {None, Torn}]]
        /\ lock \in [People -> [Skills -> Files \cup {None, Torn}]]
    BY <1>2 DEF InitWorkspace
  <1>4. build \in [People -> {NoBuild}] /\ buildBreaks = 0 /\ plain = lock
    BY DEF InitWorkspace
  <1>5. WorkspaceTyped
    BY <1>1, <1>3, <1>4 DEF WorkspaceTyped
  <1>6. \A p \in People, s \in Skills : plain[p][s] # Torn /\ plain[p][s] = lock[p][s]
    BY FirstAssumption, FileAssumption, SentinelAssumption DEF InitWorkspace
  <1>7. \A p \in People : build[p].pc = "idle"
    BY <1>4 DEF NoBuild
  <1> QED
    BY <1>5, <1>6, <1>7 DEF Unbroken

LEMMA BuildStarts ==
    ASSUME WorkspaceTyped, Unbroken, NEW p \in People, NEW s \in Skills, NEW refs,
           refs = {} \/ (\E n \in Skills : refs = AllReferences(p, n))
                     \/ (\E r \in References : refs = {r}),
           Build(p, s, refs)
    PROVE  WorkspaceTyped' /\ Unbroken'
  <1> DEFINE new == {Entry(EntryKey(r.skill, r.alias), r.skill, md[p][r.skill]) : r \in refs}
             merged == Merged(Entries(plain[p][s]), new)
             started == [pc |-> "plain", skill |-> s, entries |-> merged]
  <1>1. new \in Files
    BY ReferencesAreFile DEF Build, WorkspaceTyped
  <1>2. plain[p][s] \in Files \cup {None}
    BY DEF Build, WorkspaceTyped
  <1> HIDE DEF new
  <1>3. merged \in Files
    BY <1>1, <1>2, MergedIsFile
  <1>4. build' = [build EXCEPT ![p] = started] /\ build[p].pc = "idle"
        /\ UNCHANGED <<md, plain, lock, buildBreaks>>
    BY DEF Build, workspace, new
  <1> HIDE DEF merged
  <1>5. started \in [pc : {"plain", "lock"}, skill : Skills, entries : Files]
    BY <1>3
  <1>6. WorkspaceTyped'
    BY <1>4, <1>5 DEF WorkspaceTyped
  <1>7. build[p] = NoBuild
    BY <1>4 DEF WorkspaceTyped
  <1>8. \A n \in Skills : build[p].skill # n
    BY <1>7, SentinelAssumption DEF NoBuild
  <1>9. /\ \A q \in People : q # p => build'[q] = build[q]
        /\ build'[p].pc = "plain"
    BY <1>4 DEF WorkspaceTyped
  <1> QED
    BY <1>4, <1>6, <1>8, <1>9 DEF Unbroken

LEMMA WorkspaceKept ==
    ASSUME WorkspaceTyped, Unbroken, NEW p \in People, WorkspaceNext(p)
    PROVE  WorkspaceTyped' /\ Unbroken'
  <1>1. CASE \E s \in Skills, v \in Pool : Format(p, s, v) \/ InitTemplate(p, s, v)
    <2>1. PICK s \in Skills, v \in Pool : Format(p, s, v) \/ InitTemplate(p, s, v)
      BY <1>1
    <2>2. md' = [md EXCEPT ![p][s] = v] /\ UNCHANGED <<plain, lock, build, buildBreaks>>
      BY <2>1 DEF Format, InitTemplate
    <2>3. v \in Versions
      BY DEF Versions
    <2> QED
      BY <2>2, <2>3 DEF WorkspaceTyped, Unbroken
  <1>2. CASE \E s \in Skills, r \in References : Build(p, s, {r})
    BY <1>2, BuildStarts
  <1>3. CASE \E s \in Skills : Build(p, s, {}) \/ Build(p, s, AllReferences(p, s))
    BY <1>3, BuildStarts
  <1> DEFINE b == build[p]
  <1>4. b.pc # "idle" => b.skill \in Skills /\ b.entries \in Files
                         /\ b = [pc |-> b.pc, skill |-> b.skill, entries |-> b.entries]
    BY DEF WorkspaceTyped, NoBuild
  <1>5. NoBuild.skill \notin Skills /\ NoBuild.pc = "idle"
    BY SentinelAssumption DEF NoBuild
  <1>6. CASE WritePlain(p)
    <2>1. /\ plain' = [plain EXCEPT ![p][b.skill] = b.entries]
          /\ build' = [build EXCEPT ![p].pc = "lock"]
          /\ b.pc = "plain" /\ UNCHANGED <<md, lock, buildBreaks>>
      BY <1>6 DEF WritePlain
    <2>2. build'[p] = [pc |-> "lock", skill |-> b.skill, entries |-> b.entries]
          /\ \A q \in People : q # p => build'[q] = build[q]
      BY <1>4, <2>1 DEF WorkspaceTyped
    <2>3. WorkspaceTyped'
      BY <1>4, <2>1, <2>2 DEF WorkspaceTyped
    <2>4. \A q \in People, s \in Skills :
            plain'[q][s] = IF q = p /\ s = b.skill THEN b.entries ELSE plain[q][s]
      BY <1>4, <2>1 DEF WorkspaceTyped
    <2>5. b.entries # Torn
      BY <1>4, <2>1, FileAssumption
    <2> QED
      BY <2>1, <2>2, <2>3, <2>4, <2>5 DEF Unbroken
  <1>7. CASE WriteLock(p)
    <2>1. /\ lock' = [lock EXCEPT ![p][b.skill] = b.entries]
          /\ build' = [build EXCEPT ![p] = NoBuild]
          /\ b.pc = "lock" /\ UNCHANGED <<md, plain, buildBreaks>>
      BY <1>7 DEF WriteLock, LockEntries
    <2>2. build'[p] = NoBuild /\ \A q \in People : q # p => build'[q] = build[q]
      BY <2>1 DEF WorkspaceTyped
    <2>3. WorkspaceTyped'
      BY <1>4, <2>1, <2>2 DEF WorkspaceTyped
    <2>4. \A q \in People, s \in Skills :
            lock'[q][s] = IF q = p /\ s = b.skill THEN b.entries ELSE lock[q][s]
      BY <1>4, <2>1 DEF WorkspaceTyped
    <2>5. b.entries # Torn
      BY <1>4, <2>1, FileAssumption
    <2> QED
      BY <1>5, <2>1, <2>2, <2>3, <2>4, <2>5 DEF Unbroken
  <1>8. CASE BuildBreaks(p)
    <2>1. /\ build' = [build EXCEPT ![p] = NoBuild]
          /\ buildBreaks' = buildBreaks + 1 /\ b.pc # "idle" /\ md' = md
          /\ plain' = plain \/ plain' = [plain EXCEPT ![p][b.skill] = Torn]
          /\ lock' = lock \/ lock' = [lock EXCEPT ![p][b.skill] = Torn]
      BY <1>8 DEF BuildBreaks
    <2>2. WorkspaceTyped'
      <3>1. /\ plain' \in [People -> [Skills -> Files \cup {None, Torn}]]
            /\ lock' \in [People -> [Skills -> Files \cup {None, Torn}]]
        <4> DEFINE F == Files \cup {None, Torn}
                   torn(f) == [f EXCEPT ![p][b.skill] = Torn]
        <4>1. ASSUME NEW f \in [People -> [Skills -> F]]
              PROVE  torn(f) \in [People -> [Skills -> F]]
          <5>1. Torn \in F
            OBVIOUS
          <5> HIDE DEF F
          <5> QED
            BY <1>4, <2>1, <5>1
        <4> QED
          BY <2>1, <4>1 DEF WorkspaceTyped
      <3>2. build' \in [People -> [pc : {"plain", "lock"}, skill : Skills, entries : Files]
                                 \cup {NoBuild}]
        BY <2>1 DEF WorkspaceTyped
      <3> QED
        BY <2>1, <3>1, <3>2 DEF WorkspaceTyped
    <2>3. buildBreaks' # 0
      BY <2>1 DEF WorkspaceTyped
    <2> QED
      BY <2>2, <2>3 DEF Unbroken
  <1> QED
    BY <1>1, <1>2, <1>3, <1>6, <1>7, <1>8 DEF WorkspaceNext

-----------------------------------------------------------------------------
(* The registry.                                                           *)

RegistryTyped ==
    /\ registry \in [Keys -> (SUBSET Keys) \cup {None, Torn}]
    /\ ever \in SUBSET Keys /\ IsFiniteSet(ever)
    /\ \A k \in Keys : registry[k] # None => k \in ever

LEMMA NeedsAreKeys ==
    ASSUME NEW file \in Files \cup {None, Torn}
    PROVE  /\ Needs(file) \in (SUBSET Keys) \cup {Torn}
           /\ file # Torn => /\ Needs(file) \in SUBSET Keys
                             /\ Needs(file) = {Key(e) : e \in Entries(file)}
  <1>1. CASE file = Torn
    BY <1>1 DEF Needs
  <1>2. CASE file # Torn
    <2>1. Entries(file) \in SUBSET EntrySet
      BY <1>2, FileIs DEF Entries
    <2>2. Needs(file) = {<<e.skill, e.version>> : e \in Entries(file)}
      BY <1>2 DEF Needs
    <2>3. \A e \in EntrySet : <<e.skill, e.version>> \in Keys
      BY DEF EntrySet, Keys
    <2> QED
      BY <2>1, <2>2, <2>3 DEF Key
  <1> QED
    BY <1>1, <1>2

LEMMA StoreKeeps ==
    ASSUME WorkspaceTyped, RegistryTyped, NEW p \in People, NEW k \in Keys,
           NEW force \in BOOLEAN, Store(p, k, force)
    PROVE  /\ RegistryTyped' /\ ever \subseteq ever'
           /\ k \in ever' /\ registry'[k] # None
           /\ \A n \in Keys : registry'[n] = registry[n]
                              \/ (n = k /\ registry'[n] = Bundle(p, k[1]))
  <1>1. CASE registry[k] = None \/ force
    <2>1. registry' = [registry EXCEPT ![k] = Bundle(p, k[1])] /\ ever' = ever \cup {k}
      BY <1>1 DEF Store
    <2>2. Bundle(p, k[1]) \in (SUBSET Keys) \cup {Torn}
      <3>1. k[1] \in Skills
        BY DEF Keys
      <3>2. (IF lock[p][k[1]] # None THEN lock[p][k[1]] ELSE plain[p][k[1]])
              \in Files \cup {None, Torn}
        BY <3>1 DEF WorkspaceTyped
      <3> QED
        BY <3>2, NeedsAreKeys DEF Bundle
    <2>3. Bundle(p, k[1]) # None
      BY <2>2, KeysAssumption, SentinelAssumption
    <2>4. IsFiniteSet(ever') /\ ever' \in SUBSET Keys
      BY <2>1, FS_AddElement DEF RegistryTyped
    <2> QED
      BY <2>1, <2>2, <2>3, <2>4 DEF RegistryTyped
  <1>2. CASE ~(registry[k] = None \/ force)
    BY <1>2 DEF Store, service, RegistryTyped
  <1> QED
    BY <1>1, <1>2

\* An upload whose needs were all published keeps the registry installable.
LEMMA StoreInstallable ==
    ASSUME WorkspaceTyped, Unbroken, RegistryTyped, PublishedIsInstallable,
           NEW p \in People, NEW k \in Keys, NEW force \in BOOLEAN, Store(p, k, force),
           build[p].pc = "idle", buildBreaks' = buildBreaks,
           \A e \in Entries(plain[p][k[1]]) : Key(e) \in ever
    PROVE  PublishedIsInstallable'
  <1>1. /\ ever \subseteq ever'
        /\ \A n \in Keys : registry'[n] = registry[n]
                           \/ (n = k /\ registry'[n] = Bundle(p, k[1]))
    BY StoreKeeps
  <1>2. ASSUME buildBreaks = 0
        PROVE  Bundle(p, k[1]) \in SUBSET ever /\ Bundle(p, k[1]) # Torn
    <2>1. k[1] \in Skills
      BY DEF Keys
    <2>2. build[p].skill # k[1]
      <3>1. build[p] = NoBuild
        BY DEF WorkspaceTyped
      <3> QED
        BY <2>1, <3>1, SentinelAssumption DEF NoBuild
    <2>3. plain[p][k[1]] # Torn /\ lock[p][k[1]] = plain[p][k[1]]
      BY <1>2, <2>1, <2>2 DEF Unbroken
    <2>4. plain[p][k[1]] \in Files \cup {None, Torn}
      BY <2>1 DEF WorkspaceTyped
    <2>5. Bundle(p, k[1]) = Needs(plain[p][k[1]])
      BY <2>3 DEF Bundle
    <2>6. Bundle(p, k[1]) = {Key(e) : e \in Entries(plain[p][k[1]])}
          /\ Bundle(p, k[1]) \in SUBSET Keys
      BY <2>3, <2>4, <2>5, NeedsAreKeys
    <2> QED
      BY <2>6, KeysAssumption
  <1> QED
    BY <1>1, <1>2 DEF PublishedIsInstallable

LEMMA VersionsAreTokens == Versions \in SUBSET Seq(Token)
  BY PoolAssumption, SuggestionTheorem DEF Versions

LEMMA VersionsAreFinite ==
    ASSUME RegistryTyped, NEW s \in Skills
    PROVE  VersionsOf(s) \in SUBSET Seq(Token) /\ IsFiniteSet(VersionsOf(s))
  <1>1. Versions \in SUBSET Seq(Token)
    BY VersionsAreTokens
  <1> DEFINE R == {k \in ever : k[1] = s /\ registry[k] # None}
             f == [k \in R |-> k[2]]
  <1>2. IsFiniteSet(R)
    BY FS_Subset DEF RegistryTyped
  <1>3. \A v \in VersionsOf(s) : <<s, v>> \in R
    BY DEF VersionsOf, RegistryTyped, Keys
  <1>4. \A k \in R : k = <<s, k[2]>> /\ k[2] \in Versions
    BY DEF RegistryTyped, Keys
  <1>5. \A k \in R : k[2] \in VersionsOf(s)
    BY <1>4 DEF VersionsOf
  <1> HIDE DEF R
  <1>6. f \in Surjection(R, VersionsOf(s))
    <2>1. f \in [R -> VersionsOf(s)]
      BY <1>5
    <2>2. \A v \in VersionsOf(s) : f[<<s, v>>] = v
      BY <1>3
    <2> QED
      BY <1>3, <2>1, <2>2 DEF Surjection
  <1>7. IsFiniteSet(VersionsOf(s))
    BY <1>2, <1>6, FS_Surjection
  <1> QED
    BY <1>1, <1>7 DEF VersionsOf

LEMMA MaxIsGreatest ==
    ASSUME RegistryTyped, NEW s \in Skills, VersionsOf(s) # {}
    PROVE  /\ MaxVersion(VersionsOf(s)) \in VersionsOf(s)
           /\ \A v \in VersionsOf(s) : CompareVersions(v, MaxVersion(VersionsOf(s))) <= 0
  BY VersionsAreFinite, GreatestExists DEF MaxVersion

-----------------------------------------------------------------------------
(* The commands.                                                           *)

Frames == [skill : Skills, version : Versions, left : SUBSET EntrySet]
Jobs == [op : {"none", "publish", "update", "delete"},
         pc : {"idle", "select", "choose", "upload"},
         result : {"none", "ok", "exists", "failed"},
         skill : Skills \cup {None}, force : BOOLEAN, tty : BOOLEAN,
         stack : Seq(Frames), uploaded : SUBSET Keys,
         found : SUBSET Versions, max : Versions \cup {<<>>},
         chosen : Versions \cup {None}]

\* An upload goes down from the command's skill, in the version SKILL.md has,
\* through skills that are all different below it.
Descends(p, j) ==
    /\ Key(j.stack[1]) = <<j.skill, md[p][j.skill]>>
    /\ \A i, n \in 2..Len(j.stack) : j.stack[i].skill = j.stack[n].skill => i = n

\* What a skill being uploaded needs is still to be looked at, or uploaded, or
\* being uploaded above it.
Awaits(p, j) ==
    \A i \in 1..Len(j.stack) :
        /\ plain[p][j.stack[i].skill] # Torn
        /\ \A e \in Entries(plain[p][j.stack[i].skill]) :
              \/ e \in j.stack[i].left
              \/ Key(e) \in j.uploaded
              \/ i < Len(j.stack) /\ Key(e) = Key(j.stack[i + 1])

\* An update compares with the greatest of the versions it found.
Tops(j) == \A v \in j.found : CompareVersions(v, j.max) <= 0

JobOK(p, j) ==
    /\ j \in Jobs
    /\ (j.pc = "upload") = (j.stack # <<>>)
    /\ j.pc # "idle" => build[p].pc = "idle" /\ j.skill \in Skills
    /\ j.op = "update" => ~j.force
    /\ j.uploaded \subseteq ever
    /\ j.pc = "upload" =>
        /\ Descends(p, j) /\ Awaits(p, j)
        /\ j.op = "update" => j.chosen = md[p][j.skill] /\ IsGreater(j.chosen, j.max)
    /\ j.pc = "choose" \/ (j.pc = "upload" /\ j.op = "update") => Tops(j)

IInv ==
    /\ WorkspaceTyped /\ Unbroken
    /\ RegistryTyped /\ PublishedIsInstallable
    /\ DOMAIN job = People /\ \A p \in People : JobOK(p, job[p])

\* A command that has ended asks nothing of the workspace.
LEMMA EndedJobOK ==
    ASSUME NEW p \in People, NEW j \in Jobs, job'[p] = j, j.pc = "idle", j.stack = <<>>,
           j.op = "update" => ~j.force, j.uploaded \subseteq ever'
    PROVE  JobOK(p, job[p])'
  BY DEF JobOK

\* Nor does what others do disturb a command.
LEMMA JobUndisturbed ==
    ASSUME NEW p \in People, JobOK(p, job[p]), ever \subseteq ever', job'[p] = job[p],
           md'[p] = md[p], plain'[p] = plain[p], build'[p] = build[p]
    PROVE  JobOK(p, job[p])'
  <1>1. Descends(p, job[p]) => Descends(p, job[p])'
    BY DEF Descends
  <1>2. Awaits(p, job[p]) => Awaits(p, job[p])'
    BY DEF Awaits
  <1> QED
    BY <1>1, <1>2 DEF JobOK

\* The first frame of an upload, with everything still to be looked at.
LEMMA FirstFrame ==
    ASSUME WorkspaceTyped, NEW p \in People, NEW s \in Skills, NEW v \in Versions,
           plain[p][s] # Torn
    PROVE  [skill |-> s, version |-> v, left |-> Entries(plain[p][s])] \in Frames
  <1>1. plain[p][s] \in Files \cup {None}
    BY DEF WorkspaceTyped
  <1>2. Entries(plain[p][s]) \in SUBSET EntrySet
    BY <1>1, FileIs DEF Entries
  <1> QED
    BY <1>2 DEF Frames

\* A command starts to upload.
LEMMA UploadStarts ==
    ASSUME NEW p \in People, NEW j \in Jobs, NEW f \in Frames, job'[p] = j,
           j.pc = "upload", j.stack = <<f>>, j.skill = f.skill,
           md'[p][f.skill] = f.version, plain'[p][f.skill] # Torn,
           f.left = Entries(plain'[p][f.skill]), build'[p].pc = "idle",
           j.op = "update" => ~j.force /\ j.chosen = f.version /\ IsGreater(j.chosen, j.max),
           j.op = "update" => Tops(j),
           j.uploaded \subseteq ever'
    PROVE  JobOK(p, job[p])'
  <1>1. Len(j.stack) = 1 /\ j.stack[1] = f /\ j.stack # <<>> /\ f.skill \in Skills
    BY DEF Frames
  <1>2. Descends(p, job[p])'
    BY <1>1 DEF Descends, Key
  <1>3. Awaits(p, job[p])'
    BY <1>1 DEF Awaits
  <1> QED
    BY <1>1, <1>2, <1>3 DEF JobOK

LEMMA OthersKept ==
    ASSUME IInv, NEW p \in People, DOMAIN job' = People, ever \subseteq ever',
           \A q \in People : q # p => /\ job'[q] = job[q] /\ md'[q] = md[q]
                                      /\ plain'[q] = plain[q] /\ build'[q] = build[q],
           WorkspaceTyped', Unbroken', RegistryTyped', PublishedIsInstallable',
           JobOK(p, job[p])'
    PROVE  IInv'
  <1>1. \A q \in People : q # p => JobOK(q, job[q])'
    BY JobUndisturbed DEF IInv
  <1> QED
    BY <1>1 DEF IInv

\* A command takes a step of its own: it leaves other people's jobs alone.
LEMMA NextJob ==
    ASSUME IInv, NEW p \in People, NEW j, job' = [job EXCEPT ![p] = j]
    PROVE  /\ DOMAIN job' = People /\ job'[p] = j
           /\ \A q \in People : q # p => job'[q] = job[q]
  BY DEF IInv

LEMMA JobFields ==
    ASSUME NEW j \in Jobs
    PROVE  /\ j = [op |-> j.op, pc |-> j.pc, result |-> j.result, skill |-> j.skill,
                   force |-> j.force, tty |-> j.tty, stack |-> j.stack,
                   uploaded |-> j.uploaded, found |-> j.found, max |-> j.max,
                   chosen |-> j.chosen]
           /\ j.op \in {"none", "publish", "update", "delete"}
           /\ j.pc \in {"idle", "select", "choose", "upload"}
           /\ j.result \in {"none", "ok", "exists", "failed"}
           /\ j.skill \in Skills \cup {None} /\ j.force \in BOOLEAN /\ j.tty \in BOOLEAN
           /\ j.stack \in Seq(Frames) /\ j.uploaded \in SUBSET Keys
           /\ j.found \in SUBSET Versions
           /\ j.max \in Versions \cup {<<>>} /\ j.chosen \in Versions \cup {None}
  BY DEF Jobs

LEMMA NoJobIsJob == NoJob \in Jobs /\ NoJob.stack = <<>> /\ NoJob.uploaded = {}
  <1>1. <<>> \in Seq(Frames)
    OBVIOUS
  <1>2. {} \in SUBSET Keys
    OBVIOUS
  <1> QED
    BY <1>1, <1>2 DEF NoJob, Jobs

LEMMA Starts ==
    ASSUME Init
    PROVE  IInv
  <1>1. WorkspaceTyped /\ Unbroken
    BY WorkspaceStarts DEF Init
  <1>2. {} \in SUBSET Keys /\ {} # None /\ {} # Torn
    BY KeysAssumption
  <1>3. registry \in [Keys -> (SUBSET Keys) \cup {None, Torn}]
    BY <1>2 DEF Init
  <1>4. ever = Published /\ \A k \in Keys : registry[k] = IF k \in Published THEN {} ELSE None
    BY DEF Init
  <1>5. RegistryTyped
    BY <1>3, <1>4, PublishedAssumption DEF RegistryTyped
  <1>6. PublishedIsInstallable
    BY <1>2, <1>4 DEF PublishedIsInstallable
  <1>7. DOMAIN job = People /\ \A p \in People : job[p] = NoJob
    BY DEF Init
  <1>8. NoJob.pc = "idle" /\ NoJob.op = "none"
    BY DEF NoJob
  <1>9. \A p \in People : JobOK(p, job[p])
    BY <1>7, <1>8, NoJobIsJob DEF JobOK
  <1> QED
    BY <1>1, <1>5, <1>6, <1>7, <1>9 DEF IInv

LEMMA WorkspaceUnchanged ==
    ASSUME IInv, UNCHANGED <<workspace, building>>
    PROVE  WorkspaceTyped' /\ Unbroken'
  BY DEF IInv, workspace, building, WorkspaceTyped, Unbroken

LEMMA ServiceUnchanged ==
    ASSUME IInv, UNCHANGED service, buildBreaks' = 0 => buildBreaks = 0
    PROVE  RegistryTyped' /\ PublishedIsInstallable' /\ ever \subseteq ever'
  BY DEF IInv, service, RegistryTyped, PublishedIsInstallable

LEMMA WorkspaceStepKept ==
    ASSUME IInv, NEW p \in People, WorkspaceStep(p)
    PROVE  IInv'
  <1>1. WorkspaceTyped' /\ Unbroken'
    BY WorkspaceKept DEF IInv, WorkspaceStep
  <1>2. \A q \in People : q # p => /\ md'[q] = md[q] /\ plain'[q] = plain[q]
                                   /\ build'[q] = build[q]
    BY DEF IInv, WorkspaceTyped, WorkspaceStep, WorkspaceNext, Format, InitTemplate, Build,
           WritePlain, WriteLock, BuildBreaks, workspace
  <1>3. buildBreaks' = 0 => buildBreaks = 0
    <2>1. buildBreaks' = buildBreaks \/ buildBreaks' = buildBreaks + 1
      <3>1. BuildBreaks(p) => buildBreaks' = buildBreaks + 1
        BY DEF BuildBreaks
      <3>2. WritePlain(p) \/ WriteLock(p) => buildBreaks' = buildBreaks
        BY DEF WritePlain, WriteLock
      <3>3. \A s, refs : Build(p, s, refs) => buildBreaks' = buildBreaks
        BY DEF Build
      <3>4. \A s, v : Format(p, s, v) \/ InitTemplate(p, s, v) => buildBreaks' = buildBreaks
        BY DEF Format, InitTemplate
      <3> QED
        BY <3>1, <3>2, <3>3, <3>4 DEF WorkspaceStep, WorkspaceNext
    <2>2. buildBreaks \in Nat
      BY DEF IInv, WorkspaceTyped
    <2> QED
      BY <2>1, <2>2
  <1>4. UNCHANGED <<service, job>> /\ job[p].pc = "idle"
    BY DEF WorkspaceStep
  <1>5. RegistryTyped' /\ PublishedIsInstallable' /\ ever \subseteq ever'
    BY <1>3, <1>4, ServiceUnchanged
  <1>6. JobOK(p, job[p]) /\ DOMAIN job = People
    BY DEF IInv
  <1>7. JobOK(p, job[p])'
    BY <1>4, <1>5, <1>6, EndedJobOK DEF JobOK
  <1> QED
    BY <1>1, <1>2, <1>4, <1>5, <1>6, <1>7, OthersKept

\* The steps that only read the registry.
LEMMA ReadingKept ==
    ASSUME IInv, NEW p \in People, NEW j, job' = [job EXCEPT ![p] = j],
           UNCHANGED <<workspace, building, service>>, JobOK(p, job[p])'
    PROVE  IInv'
  <1>1. WorkspaceTyped' /\ Unbroken' /\ UNCHANGED <<md, plain, build, buildBreaks>>
    BY WorkspaceUnchanged DEF workspace, building
  <1>2. RegistryTyped' /\ PublishedIsInstallable' /\ ever \subseteq ever'
    BY <1>1, ServiceUnchanged
  <1> QED
    BY <1>1, <1>2, NextJob, OthersKept

LEMMA PublishKept ==
    ASSUME IInv, NEW p \in People, NEW s \in Skills, NEW force \in BOOLEAN,
           Publish(p, s, force)
    PROVE  IInv'
  <1> DEFINE j == [NoJob EXCEPT !.op = "publish", !.skill = s, !.force = force]
  <1>1. job' = [job EXCEPT ![p] = Uploading(p, j)]
        /\ UNCHANGED <<workspace, building, service>>
    BY DEF Publish
  <1>2. build[p].pc = "idle" /\ md[p][s] # None
    BY DEF Publish, Free, IsSkillDir
  <1>3. /\ md[p][s] \in Versions /\ ever' = ever
        /\ md'[p] = md[p] /\ plain'[p] = plain[p] /\ build'[p] = build[p]
    BY <1>1, <1>2 DEF IInv, WorkspaceTyped, workspace, building, service
  <1>4. j \in Jobs /\ j.op = "publish" /\ j.skill = s /\ j.uploaded = {} /\ j.stack = <<>>
    BY NoJobIsJob DEF NoJob, Jobs
  <1>5. job'[p] = Uploading(p, j)
    BY <1>1, NextJob
  <1> HIDE DEF j
  <1>6. CASE plain[p][s] = Torn
    <2> DEFINE failed == [j EXCEPT !.pc = "idle", !.result = "failed"]
    <2>1. Uploading(p, j) = failed
      BY <1>4, <1>6 DEF Uploading
    <2>2. failed \in Jobs /\ failed.pc = "idle" /\ failed.stack = <<>>
          /\ failed.op = "publish" /\ failed.uploaded = {}
      BY <1>4 DEF Jobs
    <2>3. JobOK(p, job[p])'
      BY <1>5, <2>1, <2>2, EndedJobOK
    <2> QED
      BY <1>1, <2>3, ReadingKept
  <1>7. CASE plain[p][s] # Torn
    <2> DEFINE f == [skill |-> s, version |-> md[p][s], left |-> Entries(plain[p][s])]
               going == [j EXCEPT !.pc = "upload", !.stack = <<f>>]
    <2>1. Uploading(p, j) = going
      BY <1>4, <1>7 DEF Uploading, Frame
    <2>2. f \in Frames
      BY <1>3, <1>7, FirstFrame DEF IInv
    <2>3. f.skill = s /\ f.version = md[p][s] /\ f.left = Entries(plain[p][s])
      OBVIOUS
    <2> HIDE DEF f
    <2>4. <<f>> \in Seq(Frames)
      BY <2>2
    <2>5. going \in Jobs /\ going.pc = "upload" /\ going.stack = <<f>> /\ going.skill = s
          /\ going.op = "publish" /\ going.uploaded = {}
      BY <1>4, <2>4 DEF Jobs
    <2> HIDE DEF going
    <2>6. JobOK(p, job[p])'
      BY <1>2, <1>3, <1>5, <1>7, <2>1, <2>2, <2>3, <2>5, UploadStarts
    <2> QED
      BY <1>1, <2>6, ReadingKept
  <1> QED
    BY <1>6, <1>7

LEMMA DeleteKept ==
    ASSUME IInv, NEW p \in People, NEW k \in Keys, Delete(p, k[1], k[2])
    PROVE  IInv'
  <1> DEFINE j == [NoJob EXCEPT !.op = "delete", !.skill = k[1], !.result = "ok"]
  <1>1. /\ job' = [job EXCEPT ![p] = j] /\ registry' = [registry EXCEPT ![k] = None]
        /\ UNCHANGED <<workspace, building, ever>>
    <2>1. k = <<k[1], k[2]>>
      BY DEF Keys
    <2> QED
      BY <2>1 DEF Delete
  <1>2. WorkspaceTyped' /\ Unbroken' /\ UNCHANGED <<md, plain, build, buildBreaks, ever>>
    BY <1>1, WorkspaceUnchanged DEF workspace, building
  <1>3. \A n \in Keys : registry'[n] = None \/ registry'[n] = registry[n]
    BY <1>1 DEF IInv, RegistryTyped
  <1>4. RegistryTyped'
    BY <1>1, <1>2, <1>3 DEF IInv, RegistryTyped
  <1>5. PublishedIsInstallable'
    BY <1>2, <1>3 DEF IInv, PublishedIsInstallable
  <1>6. j \in Jobs /\ j.pc = "idle" /\ j.op = "delete" /\ j.uploaded = {} /\ j.stack = <<>>
    <2>1. k[1] \in Skills
      BY DEF Keys
    <2> QED
      BY <2>1, NoJobIsJob DEF NoJob, Jobs
  <1>7. job'[p] = j
    BY <1>1, NextJob
  <1> HIDE DEF j
  <1>8. JobOK(p, job[p])'
    BY <1>6, <1>7, EndedJobOK
  <1> QED
    BY <1>1, <1>2, <1>4, <1>5, <1>8, NextJob, OthersKept

\* A command that only asks so far.
LEMMA AskingJobOK ==
    ASSUME NEW p \in People, NEW j \in Jobs, job'[p] = j, j.pc \in {"select", "choose"},
           j.stack = <<>>, j.skill \in Skills, j.op = "update" => ~j.force,
           build'[p].pc = "idle", j.uploaded \subseteq ever', j.pc = "choose" => Tops(j)
    PROVE  JobOK(p, job[p])'
  BY DEF JobOK, Tops

LEMMA UpdateKept ==
    ASSUME IInv, NEW p \in People, NEW s \in Skills, NEW tty \in BOOLEAN, Update(p, s, tty)
    PROVE  IInv'
  <1> DEFINE j == [NoJob EXCEPT !.op = "update", !.pc = "select", !.skill = s, !.tty = tty]
  <1>1. job' = [job EXCEPT ![p] = j] /\ UNCHANGED <<workspace, building, service>>
        /\ build[p].pc = "idle"
    BY DEF Update, Free
  <1>2. build'[p].pc = "idle"
    BY <1>1 DEF building
  <1>3. j \in Jobs /\ j.pc = "select" /\ j.skill = s /\ ~j.force /\ j.uploaded = {}
        /\ j.stack = <<>>
    BY NoJobIsJob DEF NoJob, Jobs
  <1>4. job'[p] = j
    BY <1>1, NextJob
  <1> HIDE DEF j
  <1>5. JobOK(p, job[p])'
    BY <1>2, <1>3, <1>4, AskingJobOK
  <1> QED
    BY <1>1, <1>5, ReadingKept

LEMMA LoadRemoteSkillKept ==
    ASSUME IInv, NEW p \in People, LoadRemoteSkill(p)
    PROVE  IInv'
  <1> DEFINE j == job[p]
             found == VersionsOf(j.skill)
             failed == [j EXCEPT !.pc = "idle", !.result = "failed"]
             choosing == [j EXCEPT !.pc = "choose", !.found = found, !.max = MaxVersion(found)]
  <1>1. j.pc = "select" /\ UNCHANGED <<workspace, building, service>>
        /\ job' = [job EXCEPT ![p] = IF found = {} THEN failed ELSE choosing]
    BY DEF LoadRemoteSkill
  <1>2. /\ j \in Jobs /\ j.stack = <<>> /\ build[p].pc = "idle" /\ j.skill \in Skills
        /\ j.op = "update" => ~j.force
        /\ j.uploaded \subseteq ever
    BY <1>1 DEF IInv, JobOK
  <1>3. build'[p].pc = "idle" /\ j.uploaded \subseteq ever'
    BY <1>1, <1>2 DEF building, service
  <1>4. CASE found = {}
    <2>1. failed \in Jobs /\ failed.pc = "idle" /\ failed.stack = <<>>
          /\ failed.op = j.op /\ failed.force = j.force /\ failed.uploaded = j.uploaded
      BY <1>2 DEF Jobs
    <2>2. job' = [job EXCEPT ![p] = failed] /\ job'[p] = failed
      BY <1>1, <1>4, NextJob
    <2> HIDE DEF failed
    <2>3. JobOK(p, job[p])'
      BY <1>2, <1>3, <2>1, <2>2, EndedJobOK
    <2> QED
      BY <1>1, <2>2, <2>3, ReadingKept
  <1>5. CASE found # {}
    <2>1. /\ MaxVersion(found) \in Versions /\ found \in SUBSET Versions
          /\ \A v \in found : CompareVersions(v, MaxVersion(found)) <= 0
      BY <1>2, <1>5, MaxIsGreatest DEF IInv, VersionsOf
    <2>2. choosing \in Jobs /\ choosing.pc = "choose" /\ choosing.stack = <<>>
          /\ choosing.op = j.op /\ choosing.force = j.force
          /\ choosing.uploaded = j.uploaded /\ choosing.skill = j.skill
          /\ choosing.found = found /\ choosing.max = MaxVersion(found)
      BY <1>2, <2>1 DEF Jobs
    <2>3. job' = [job EXCEPT ![p] = choosing] /\ job'[p] = choosing
      BY <1>1, <1>5, NextJob
    <2> HIDE DEF choosing
    <2>5. Tops(choosing)
      BY <2>1, <2>2 DEF Tops
    <2>4. JobOK(p, job[p])'
      BY <1>2, <1>3, <2>2, <2>3, <2>5, AskingJobOK
    <2> QED
      BY <1>1, <2>3, <2>4, ReadingKept
  <1> QED
    BY <1>4, <1>5

LEMMA ChooseKept ==
    ASSUME IInv, NEW p \in People, NEW v \in Versions, Choose(p, v)
    PROVE  IInv'
  <1> DEFINE j == job[p]
             s == j.skill
             refused == [j EXCEPT !.pc = "idle", !.result = "failed"]
             failed == [j EXCEPT !.pc = "idle", !.result = "failed", !.chosen = v]
             f == [skill |-> s, version |-> v, left |-> Entries(plain[p][s])]
             going == [j EXCEPT !.pc = "upload", !.chosen = v, !.stack = <<f>>]
  <1>1. j.pc = "choose" /\ UNCHANGED <<plain, lock, building, service>>
    BY DEF Choose
  <1>2. /\ j \in Jobs /\ j.stack = <<>> /\ build[p].pc = "idle" /\ s \in Skills
        /\ j.op = "update" => ~j.force
        /\ j.uploaded \subseteq ever /\ Tops(j)
    BY <1>1 DEF IInv, JobOK
  <1>3. \/ /\ ~IsGreater(v, j.max) /\ md' = md
           /\ job' = [job EXCEPT ![p] = refused]
        \/ /\ IsGreater(v, j.max) /\ md' = [md EXCEPT ![p][s] = v]
           /\ plain[p][s] = Torn /\ job' = [job EXCEPT ![p] = failed]
        \/ /\ IsGreater(v, j.max) /\ md' = [md EXCEPT ![p][s] = v]
           /\ plain[p][s] # Torn /\ job' = [job EXCEPT ![p] = going]
    <2>1. [Frame(p, s) EXCEPT !.version = v] = f
      BY DEF Frame
    <2>2. Finish(p, "failed") => job' = [job EXCEPT ![p] = refused]
      BY DEF Finish
    <2> QED
      BY <2>1, <2>2 DEF Choose
  <1>4. build'[p].pc = "idle" /\ j.uploaded \subseteq ever' /\ plain'[p] = plain[p]
        /\ UNCHANGED <<plain, lock, build, buildBreaks, ever>>
    BY <1>1, <1>2 DEF building, service
  <1>5. WorkspaceTyped' /\ Unbroken'
    <2>1. md' = md \/ md' = [md EXCEPT ![p][s] = v]
      BY <1>3
    <2>2. md' \in [People -> [Skills -> Versions \cup {None}]]
      <3> DEFINE V == Versions \cup {None}
      <3>1. md \in [People -> [Skills -> V]] /\ v \in V
        BY DEF IInv, WorkspaceTyped
      <3> HIDE DEF V
      <3>2. md' \in [People -> [Skills -> V]]
        BY <1>2, <2>1, <3>1
      <3> QED
        BY <3>2 DEF V
    <2> QED
      BY <1>4, <2>2 DEF IInv, WorkspaceTyped, Unbroken
  <1>6. RegistryTyped' /\ PublishedIsInstallable' /\ ever \subseteq ever'
    BY <1>1, <1>4, ServiceUnchanged
  <1>7. \A q \in People : q # p => /\ md'[q] = md[q] /\ plain'[q] = plain[q]
                                   /\ build'[q] = build[q]
    BY <1>3, <1>4 DEF IInv, WorkspaceTyped
  <1>8. DOMAIN job' = People /\ \A q \in People : q # p => job'[q] = job[q]
    BY <1>3, NextJob
  <1>9. JobOK(p, job[p])'
    <2>1. CASE job' = [job EXCEPT ![p] = refused]
      <3>1. refused \in Jobs /\ refused.pc = "idle" /\ refused.stack = <<>>
            /\ refused.op = j.op /\ refused.force = j.force /\ refused.uploaded = j.uploaded
        BY <1>2 DEF Jobs
      <3>2. job'[p] = refused
        BY <2>1, NextJob
      <3> HIDE DEF refused
      <3> QED
        BY <1>2, <1>4, <3>1, <3>2, EndedJobOK
    <2>2. CASE job' = [job EXCEPT ![p] = failed]
      <3>1. failed \in Jobs /\ failed.pc = "idle" /\ failed.stack = <<>>
            /\ failed.op = j.op /\ failed.force = j.force /\ failed.uploaded = j.uploaded
        BY <1>2 DEF Jobs
      <3>2. job'[p] = failed
        BY <2>2, NextJob
      <3> HIDE DEF failed
      <3> QED
        BY <1>2, <1>4, <3>1, <3>2, EndedJobOK
    <2>3. CASE /\ IsGreater(v, j.max) /\ md' = [md EXCEPT ![p][s] = v]
               /\ plain[p][s] # Torn /\ job' = [job EXCEPT ![p] = going]
      <3>1. f \in Frames
        BY <1>2, <2>3, FirstFrame DEF IInv
      <3>2. f.skill = s /\ f.version = v /\ f.left = Entries(plain[p][s])
        OBVIOUS
      <3> HIDE DEF f
      <3>3. <<f>> \in Seq(Frames)
        BY <3>1
      <3>4. going \in Jobs /\ going.pc = "upload" /\ going.stack = <<f>>
            /\ going.skill = s /\ going.op = j.op /\ going.force = j.force
            /\ going.uploaded = j.uploaded /\ going.chosen = v /\ going.max = j.max
            /\ going.found = j.found
        BY <1>2, <3>3 DEF Jobs
      <3>5. job'[p] = going
        BY <2>3, NextJob
      <3> HIDE DEF going
      <3>6. md'[p][s] = v
        BY <1>2, <2>3 DEF IInv, WorkspaceTyped
      <3>7. IsGreater(going.chosen, going.max)
        BY <2>3, <3>4
      <3>8. Tops(going)
        BY <1>2, <3>4 DEF Tops
      <3> QED
        BY <1>2, <1>4, <2>3, <3>1, <3>2, <3>4, <3>5, <3>6, <3>7, <3>8, UploadStarts
    <2> QED
      BY <1>3, <2>1, <2>2, <2>3
  <1> QED
    BY <1>5, <1>6, <1>7, <1>8, <1>9, OthersKept

\* The stack with an entry of its top looked at.
Rest(st, e) == [st EXCEPT ![Len(st)].left = @ \ {e}]
SameFrames(st, rest, e) ==
    \A i \in 1..Len(st) :
        /\ rest[i].skill = st[i].skill /\ Key(rest[i]) = Key(st[i])
        /\ rest[i].left = IF i = Len(st) THEN st[i].left \ {e} ELSE st[i].left

LEMMA Looked ==
    ASSUME NEW st \in Seq(Frames), st # <<>>, NEW e
    PROVE  /\ Rest(st, e) \in Seq(Frames) /\ Len(Rest(st, e)) = Len(st)
           /\ Rest(st, e) # <<>> /\ SameFrames(st, Rest(st, e), e)
  <1>1. PICK n \in Nat \ {0} : n = Len(st)
    OBVIOUS
  <1>2. st \in [1..n -> Frames]
    BY <1>1
  <1> DEFINE rest == Rest(st, e)
             top == [st[n] EXCEPT !.left = @ \ {e}]
  <1>3. top \in Frames /\ top.skill = st[n].skill /\ top.version = st[n].version
        /\ top.left = st[n].left \ {e}
    <2>1. st[n] \in Frames
      BY <1>2
    <2> QED
      BY <2>1 DEF Frames
  <1>4. rest = [st EXCEPT ![n] = top]
    BY <1>1 DEF Rest
  <1> HIDE DEF top, rest
  <1>5. rest \in [1..n -> Frames]
        /\ \A i \in 1..n : rest[i] = IF i = n THEN top ELSE st[i]
    BY <1>2, <1>3, <1>4
  <1>6. rest \in Seq(Frames)
    BY <1>5
  <1>7. Len(rest) = n
    BY <1>5, <1>6
  <1>8. \A i \in 1..n : /\ rest[i].skill = st[i].skill
                        /\ rest[i].version = st[i].version
                        /\ rest[i].left = IF i = n THEN st[i].left \ {e} ELSE st[i].left
    BY <1>3, <1>5
  <1>9. SameFrames(st, rest, e)
    BY <1>1, <1>8 DEF SameFrames, Key
  <1>10. rest # <<>>
    BY <1>7
  <1> QED
    BY <1>1, <1>6, <1>7, <1>9, <1>10 DEF rest

\* An upload that goes on.
LEMMA UploadGoes ==
    ASSUME IInv, NEW p \in People, job[p].pc = "upload",
           NEW j \in Jobs, job'[p] = j, j.pc = "upload", j.stack # <<>>,
           j.op = job[p].op, j.force = job[p].force, j.skill = job[p].skill,
           j.chosen = job[p].chosen, j.max = job[p].max, j.found = job[p].found,
           Descends(p, j), Awaits(p, j), j.uploaded \subseteq ever',
           UNCHANGED <<workspace, building>>
    PROVE  JobOK(p, job[p])'
  <1>1. UNCHANGED <<md, plain, build>>
    BY DEF workspace, building
  <1>2. Descends(p, job[p])' /\ Awaits(p, job[p])'
    BY <1>1 DEF Descends, Awaits
  <1>3. JobOK(p, job[p])
    BY DEF IInv
  <1>4. j.op = "update" => Tops(j)
    BY <1>3 DEF JobOK, Tops
  <1> QED
    BY <1>1, <1>2, <1>3, <1>4 DEF JobOK, Tops

LEMMA VisitKept ==
    ASSUME IInv, NEW p \in People, Visit(p)
    PROVE  IInv'
  <1> DEFINE j == job[p]
             st == j.stack
             n == Len(st)
  <1>1. j.pc = "upload" /\ UNCHANGED <<workspace, building, service>>
    BY DEF Visit
  <1>2. /\ j \in Jobs /\ st \in Seq(Frames) /\ st # <<>>
        /\ j.op = "update" => ~j.force
        /\ j.uploaded \subseteq ever /\ Descends(p, j) /\ Awaits(p, j)
    BY <1>1, JobFields DEF IInv, JobOK
  <1>3. n \in Nat \ {0} /\ st[n] \in Frames
    BY <1>2
  <1>4. j.uploaded \subseteq ever'
    BY <1>1, <1>2 DEF service
  <1>5. PICK e \in st[n].left :
          job' = [job EXCEPT ![p] =
            IF Key(e) \in j.uploaded
            THEN [j EXCEPT !.stack = [st EXCEPT ![n].left = @ \ {e}]]
            ELSE IF /\ e.skill \notin Visiting(j)
                    /\ VersionMatches(p, e) /\ plain[p][e.skill] # Torn
            THEN [j EXCEPT !.stack =
                    Append([st EXCEPT ![n].left = @ \ {e}], Frame(p, e.skill))]
            ELSE [j EXCEPT !.pc = "idle", !.result = "failed", !.stack = <<>>]]
    BY DEF Visit, Current
  <1> DEFINE rest == [st EXCEPT ![n].left = @ \ {e}]
             passed == [j EXCEPT !.stack = rest]
             f == Frame(p, e.skill)
             going == [j EXCEPT !.stack = Append(rest, f)]
             failed == [j EXCEPT !.pc = "idle", !.result = "failed", !.stack = <<>>]
  <1>7. e \in EntrySet
    BY <1>3 DEF Frames
  <1>6a. n = Len(st) /\ st = j.stack /\ rest = Rest(st, e)
    BY DEF Rest
  <1> HIDE DEF rest, n, st
  <1>6. /\ rest \in Seq(Frames) /\ Len(rest) = n /\ rest # <<>>
        /\ \A i \in 1..n : /\ rest[i].skill = st[i].skill /\ Key(rest[i]) = Key(st[i])
                           /\ rest[i].left = IF i = n THEN st[i].left \ {e} ELSE st[i].left
    <2>1. /\ rest \in Seq(Frames) /\ Len(rest) = Len(st)
          /\ rest # <<>> /\ SameFrames(st, rest, e)
      BY <1>2, <1>6a, Looked
    <2> QED
      BY <1>6a, <2>1 DEF SameFrames
  <1>8. CASE Key(e) \in j.uploaded
    <2>1. passed \in Jobs /\ passed.pc = "upload" /\ passed.stack = rest
          /\ passed.op = j.op /\ passed.force = j.force /\ passed.skill = j.skill
          /\ passed.chosen = j.chosen /\ passed.max = j.max /\ passed.uploaded = j.uploaded
          /\ passed.found = j.found
      BY <1>1, <1>2, <1>6 DEF Jobs
    <2>2. job' = [job EXCEPT ![p] = passed] /\ job'[p] = passed
      BY <1>5, <1>8, NextJob DEF rest, st, n
    <2> HIDE DEF passed
    <2>3. Descends(p, passed)
      <3>1. 1 \in 1..n /\ \A i \in 2..n : i \in 1..n
        BY <1>3
      <3>2. Key(rest[1]) = Key(st[1]) /\ \A i \in 2..n : rest[i].skill = st[i].skill
        BY <1>6, <3>1
      <3> QED
        <4>1. Key(st[1]) = <<j.skill, md[p][j.skill]>>
              /\ \A i, k \in 2..n : st[i].skill = st[k].skill => i = k
          BY <1>2, <1>6a DEF Descends
        <4>2. \A i, k \in 2..n : rest[i].skill = rest[k].skill => i = k
          BY <3>2, <4>1
        <4> QED
          BY <1>6, <2>1, <3>2, <4>1, <4>2 DEF Descends
    <2>4. Awaits(p, passed)
      <3>1. ASSUME NEW i \in 1..n
            PROVE  /\ plain[p][rest[i].skill] # Torn
                   /\ \A x \in Entries(plain[p][rest[i].skill]) :
                        \/ x \in rest[i].left \/ Key(x) \in j.uploaded
                        \/ i < n /\ Key(x) = Key(rest[i + 1])
        <4>1. /\ plain[p][st[i].skill] # Torn
              /\ \A x \in Entries(plain[p][st[i].skill]) :
                   \/ x \in st[i].left \/ Key(x) \in j.uploaded
                   \/ i < n /\ Key(x) = Key(st[i + 1])
          BY <1>2, <1>6a DEF Awaits
        <4>2. i < n => i + 1 \in 1..n
          BY <1>3
        <4>3. rest[i].skill = st[i].skill /\ st[i].left \subseteq rest[i].left \cup {e}
          BY <1>6
        <4>4. i < n => Key(rest[i + 1]) = Key(st[i + 1])
          BY <1>6, <4>2
        <4> QED
          BY <1>8, <4>1, <4>3, <4>4
      <3> QED
        BY <1>6, <2>1, <3>1 DEF Awaits
    <2>5. JobOK(p, job[p])'
      BY <1>1, <1>4, <1>6, <2>1, <2>2, <2>3, <2>4, UploadGoes
    <2> QED
      BY <1>1, <2>2, <2>5, ReadingKept
  <1>9. CASE /\ Key(e) \notin j.uploaded /\ e.skill \notin Visiting(j)
             /\ VersionMatches(p, e) /\ plain[p][e.skill] # Torn
    <2>1. e.skill \in Skills /\ md[p][e.skill] = e.version /\ e.version \in Versions
      BY <1>7, <1>9 DEF EntrySet, VersionMatches
    <2>2. f \in Frames /\ f.skill = e.skill /\ Key(f) = Key(e)
          /\ f.left = Entries(plain[p][e.skill])
      BY <1>9, <2>1, FirstFrame DEF IInv, Frame, Key
    <2> HIDE DEF f
    <2> DEFINE new == Append(rest, f)
    <2>3. /\ new \in Seq(Frames) /\ Len(new) = n + 1 /\ new # <<>> /\ new[n + 1] = f
          /\ \A i \in 1..n : new[i] = rest[i]
      BY <1>3, <1>6, <2>2
    <2> HIDE DEF new
    <2>4. going \in Jobs /\ going.pc = "upload" /\ going.stack = new
          /\ going.op = j.op /\ going.force = j.force /\ going.skill = j.skill
          /\ going.chosen = j.chosen /\ going.max = j.max /\ going.uploaded = j.uploaded
          /\ going.found = j.found
      BY <1>1, <1>2, <2>3 DEF Jobs, new
    <2>5. job' = [job EXCEPT ![p] = going] /\ job'[p] = going
      BY <1>5, <1>9, NextJob DEF rest, f, st, n
    <2> HIDE DEF going
    <2>6. Descends(p, going)
      <3>1. Key(new[1]) = Key(st[1])
        <4>1. 1 \in 1..n
          BY <1>3
        <4> QED
          BY <1>6, <2>3, <4>1
      <3>2. \A i \in 2..n : st[i].skill # f.skill
        BY <1>6a, <1>9, <2>2 DEF Visiting
      <3>3. \A i \in 2..n : new[i].skill = st[i].skill /\ new[i].skill # new[n + 1].skill
        <4>1. \A i \in 2..n : i \in 1..n
          BY <1>3
        <4> QED
          BY <1>6, <2>3, <3>2, <4>1
      <3>4. \A i, k \in 2..n : st[i].skill = st[k].skill => i = k
        BY <1>2, <1>6a DEF Descends
      <3>5. \A i \in 2..(n + 1) : i \in 2..n \/ i = n + 1
        BY <1>3
      <3>6. \A i, k \in 2..(n + 1) : new[i].skill = new[k].skill => i = k
        BY <3>3, <3>4, <3>5
      <3> QED
        BY <1>2, <1>6a, <2>3, <2>4, <3>1, <3>6 DEF Descends
    <2>7. Awaits(p, going)
      <3>1. \A i \in 1..n : /\ new[i].skill = st[i].skill /\ Key(new[i]) = Key(st[i])
                            /\ st[i].left \subseteq new[i].left \cup {e}
                            /\ i # n => st[i].left \subseteq new[i].left
        BY <1>6, <2>3
      <3>2. ASSUME NEW i \in 1..n
            PROVE  /\ plain[p][new[i].skill] # Torn
                   /\ \A x \in Entries(plain[p][new[i].skill]) :
                        \/ x \in new[i].left \/ Key(x) \in j.uploaded
                        \/ i < n + 1 /\ Key(x) = Key(new[i + 1])
        <4>1. /\ plain[p][st[i].skill] # Torn
              /\ \A x \in Entries(plain[p][st[i].skill]) :
                   \/ x \in st[i].left \/ Key(x) \in j.uploaded
                   \/ i < n /\ Key(x) = Key(st[i + 1])
          BY <1>2, <1>6a DEF Awaits
        <4>2. i < n => i + 1 \in 1..n
          BY <1>3
        <4>3. i < n => Key(new[i + 1]) = Key(st[i + 1])
          <5> DEFINE k == i + 1
          <5>1. i < n => k \in 1..n
            BY <4>2
          <5> HIDE DEF k
          <5>2. i < n => Key(new[k]) = Key(st[k])
            BY <3>1, <5>1
          <5> QED
            BY <5>2 DEF k
        <4>6. st[i].left \subseteq new[i].left \cup {e} /\ new[i].skill = st[i].skill
              /\ (i < n => st[i].left \subseteq new[i].left)
          <5>1. i < n => i # n
            BY <1>3
          <5> QED
            BY <3>1, <5>1
        <4>4. i = n => Key(new[i + 1]) = Key(e)
          BY <2>2, <2>3
        <4>5. i < n + 1 /\ (i < n \/ i = n)
          BY <1>3
        <4> QED
          BY <4>1, <4>3, <4>4, <4>5, <4>6
      <3>3. /\ plain[p][new[n + 1].skill] # Torn
            /\ \A x \in Entries(plain[p][new[n + 1].skill]) : x \in new[n + 1].left
        BY <1>9, <2>2, <2>3
      <3> QED
        BY <1>3, <2>3, <2>4, <3>2, <3>3 DEF Awaits
    <2>8. JobOK(p, job[p])'
      BY <1>1, <1>4, <2>3, <2>4, <2>5, <2>6, <2>7, UploadGoes
    <2> QED
      BY <1>1, <2>5, <2>8, ReadingKept
  <1>10. CASE /\ Key(e) \notin j.uploaded
              /\ ~(/\ e.skill \notin Visiting(j)
                   /\ VersionMatches(p, e) /\ plain[p][e.skill] # Torn)
    <2>1. <<>> \in Seq(Frames)
      OBVIOUS
    <2>2. failed \in Jobs /\ failed.pc = "idle" /\ failed.stack = <<>>
          /\ failed.op = j.op /\ failed.force = j.force /\ failed.uploaded = j.uploaded
      BY <1>2, <2>1 DEF Jobs
    <2>3. job' = [job EXCEPT ![p] = failed] /\ job'[p] = failed
      BY <1>5, <1>10, NextJob
    <2> HIDE DEF failed
    <2>4. JobOK(p, job[p])'
      BY <1>2, <1>4, <2>2, <2>3, EndedJobOK
    <2> QED
      BY <1>1, <2>3, <2>4, ReadingKept
  <1> QED
    BY <1>8, <1>9, <1>10

\* What is known of an upload that is about to ask the registry.
LEMMA UploadFacts ==
    ASSUME IInv, NEW p \in People, job[p].pc = "upload", Current(job[p]).left = {}
    PROVE  LET j == job[p]  n == Len(j.stack)  k == Key(Current(j)) IN
           /\ j \in Jobs /\ j.stack \in Seq(Frames) /\ n \in Nat \ {0}
           /\ Current(j) = j.stack[n] /\ k \in Keys /\ k[1] = j.stack[n].skill
           /\ n = 1 => k = <<j.skill, md[p][j.skill]>>
           /\ build[p].pc = "idle" /\ j.uploaded \subseteq ever
           /\ Descends(p, j) /\ Awaits(p, j)
           /\ plain[p][k[1]] # Torn
           /\ \A e \in Entries(plain[p][k[1]]) : Key(e) \in j.uploaded
           /\ j.op = "update" => /\ ~j.force /\ j.chosen = md[p][j.skill]
                                 /\ IsGreater(j.chosen, j.max) /\ Tops(j)
  <1> DEFINE j == job[p]  n == Len(j.stack)  k == Key(Current(j))
  <1>1. /\ j \in Jobs /\ j.stack \in Seq(Frames) /\ j.stack # <<>>
        /\ build[p].pc = "idle" /\ j.uploaded \subseteq ever
        /\ Descends(p, j) /\ Awaits(p, j)
        /\ j.op = "update" => /\ ~j.force /\ j.chosen = md[p][j.skill]
                              /\ IsGreater(j.chosen, j.max) /\ Tops(j)
    BY JobFields DEF IInv, JobOK
  <1>2. n \in Nat \ {0} /\ j.stack[n] \in Frames /\ Current(j) = j.stack[n]
    BY <1>1 DEF Current
  <1>3. k = <<j.stack[n].skill, j.stack[n].version>> /\ k \in Keys
    BY <1>2 DEF Key, Frames, Keys
  <1>4. k[1] = j.stack[n].skill
    BY <1>3
  <1>5. n = 1 => k = <<j.skill, md[p][j.skill]>>
    BY <1>1, <1>2 DEF Descends
  <1>6. /\ plain[p][k[1]] # Torn
        /\ \A e \in Entries(plain[p][k[1]]) : Key(e) \in j.uploaded
    <2>1. n \in 1..n /\ ~(n < n)
      BY <1>2
    <2>2. j.stack[n].left = {}
      BY <1>2
    <2> QED
      BY <1>1, <1>4, <2>1, <2>2 DEF Awaits
  <1> QED
    BY <1>1, <1>2, <1>3, <1>4, <1>5, <1>6

\* A step that asks the registry to store what is on top of the stack.
LEMMA StoringKept ==
    ASSUME IInv, NEW p \in People, job[p].pc = "upload", Current(job[p]).left = {},
           Store(p, Key(Current(job[p])), job[p].force) \/ UNCHANGED service,
           NEW j, job' = [job EXCEPT ![p] = j], UNCHANGED <<workspace, building>>,
           JobOK(p, job[p])'
    PROVE  IInv'
  <1>1. UNCHANGED <<md, plain, build, buildBreaks>>
    BY DEF workspace, building
  <1>2. WorkspaceTyped' /\ Unbroken'
    BY WorkspaceUnchanged
  <1>3. RegistryTyped' /\ PublishedIsInstallable' /\ ever \subseteq ever'
    <2>1. CASE UNCHANGED service
      BY <1>1, <2>1, ServiceUnchanged
    <2>2. CASE Store(p, Key(Current(job[p])), job[p].force)
      <3> DEFINE k == Key(Current(job[p]))
                 force == job[p].force
      <3>1. /\ job[p] \in Jobs /\ k \in Keys /\ build[p].pc = "idle"
            /\ job[p].uploaded \subseteq ever
            /\ \A e \in Entries(plain[p][k[1]]) : Key(e) \in job[p].uploaded
        BY UploadFacts
      <3>2. force \in BOOLEAN
        BY <3>1 DEF Jobs
      <3>3. \A e \in Entries(plain[p][k[1]]) : Key(e) \in ever
        BY <3>1
      <3>4. Store(p, k, force)
        BY <2>2
      <3> HIDE DEF k, force
      <3> QED
        BY <1>1, <3>1, <3>2, <3>3, <3>4, StoreKeeps, StoreInstallable DEF IInv
    <2> QED
      BY <2>1, <2>2
  <1> QED
    BY <1>1, <1>2, <1>3, NextJob, OthersKept

\* The stack without its top.
LEMMA Popped ==
    ASSUME NEW st \in Seq(Frames), Len(st) > 1
    PROVE  LET rest == SubSeq(st, 1, Len(st) - 1) IN
           /\ rest \in Seq(Frames) /\ Len(rest) = Len(st) - 1 /\ rest # <<>>
           /\ \A i \in 1..(Len(st) - 1) : rest[i] = st[i]
  <1>1. PICK m \in Nat \ {0} : m = Len(st) - 1
    OBVIOUS
  <1>2. \A i \in 1..m : st[i] \in Frames
    BY <1>1
  <1> DEFINE rest == SubSeq(st, 1, m)
  <1>3. /\ rest \in Seq(Frames) /\ Len(rest) = IF 1 <= m THEN m - 1 + 1 ELSE 0
        /\ \A i \in 1..(m - 1 + 1) : rest[i] = st[1 + i - 1]
    BY <1>2, SubSeqProperties
  <1> HIDE DEF rest
  <1>4. Len(rest) = m /\ \A i \in 1..m : rest[i] = st[i]
    BY <1>3
  <1>5. rest # <<>>
    BY <1>4
  <1> QED
    BY <1>1, <1>3, <1>4, <1>5 DEF rest

LEMMA UploadKept ==
    ASSUME IInv, NEW p \in People, Upload(p)
    PROVE  IInv'
  <1> DEFINE j == job[p]
             st == j.stack
             n == Len(st)
             k == Key(Current(j))
             done == DependencyDone(j)
             result == IF Taken(k) /\ ~j.force THEN "exists" ELSE "ok"
             ended == [j EXCEPT !.pc = "idle", !.stack = <<>>, !.result = result]
  <1>1. /\ j.pc = "upload" /\ Current(j).left = {} /\ Store(p, k, j.force)
        /\ UNCHANGED <<workspace, building>>
        /\ job' = [job EXCEPT ![p] = IF n > 1 THEN done ELSE ended]
    BY DEF Upload
  <1>2. /\ j \in Jobs /\ st \in Seq(Frames) /\ n \in Nat \ {0}
        /\ Current(j) = st[n] /\ k \in Keys
        /\ j.uploaded \subseteq ever /\ Descends(p, j) /\ Awaits(p, j)
        /\ j.op = "update" => ~j.force
    BY <1>1, UploadFacts
  <1>3. ever \subseteq ever' /\ k \in ever'
    <2>1. j.force \in BOOLEAN
      BY <1>2 DEF Jobs
    <2> QED
      BY <1>1, <1>2, <2>1, StoreKeeps DEF IInv
  <1>4. CASE n > 1
    <2> DEFINE rest == SubSeq(st, 1, n - 1)
               m == n - 1
    <2>1. /\ rest \in Seq(Frames) /\ Len(rest) = m /\ rest # <<>>
          /\ \A i \in 1..m : rest[i] = st[i]
      BY <1>2, <1>4, Popped
    <2>2. m \in Nat \ {0} /\ n = m + 1 /\ \A i \in 1..m : i \in 1..n
      BY <1>2, <1>4
    <2>3. done = [j EXCEPT !.stack = rest, !.uploaded = @ \cup {k}]
      BY <1>2 DEF DependencyDone
    <2>4. n = Len(j.stack) /\ st = j.stack /\ k = Key(st[n])
      BY <1>2
    <2> HIDE DEF rest, m, n, st, k, done
    <2>5. /\ done \in Jobs /\ done.pc = "upload" /\ done.stack = rest
          /\ done.op = j.op /\ done.force = j.force /\ done.skill = j.skill
          /\ done.chosen = j.chosen /\ done.max = j.max /\ done.found = j.found
          /\ done.uploaded = j.uploaded \cup {k}
      BY <1>1, <1>2, <2>1, <2>3 DEF Jobs
    <2>6. job' = [job EXCEPT ![p] = done] /\ job'[p] = done
      BY <1>1, <1>4, NextJob
    <2>7. Descends(p, done)
      <3>1. Key(st[1]) = <<j.skill, md[p][j.skill]>>
            /\ \A i, l \in 2..n : st[i].skill = st[l].skill => i = l
        BY <1>2, <2>4 DEF Descends
      <3>2. 1 \in 1..m /\ \A i \in 2..m : i \in 1..m /\ i \in 2..n
        BY <2>2
      <3>3. Key(rest[1]) = Key(st[1]) /\ \A i \in 2..m : rest[i] = st[i]
        BY <2>1, <3>2
      <3>4. \A i, l \in 2..m : rest[i].skill = rest[l].skill => i = l
        BY <3>1, <3>2, <3>3
      <3> QED
        BY <2>1, <2>5, <3>1, <3>3, <3>4 DEF Descends
    <2>8. Awaits(p, done)
      <3>1. ASSUME NEW i \in 1..m
            PROVE  /\ plain[p][rest[i].skill] # Torn
                   /\ \A x \in Entries(plain[p][rest[i].skill]) :
                        \/ x \in rest[i].left \/ Key(x) \in done.uploaded
                        \/ i < m /\ Key(x) = Key(rest[i + 1])
        <4>1. /\ plain[p][st[i].skill] # Torn
              /\ \A x \in Entries(plain[p][st[i].skill]) :
                   \/ x \in st[i].left \/ Key(x) \in j.uploaded
                   \/ i < n /\ Key(x) = Key(st[i + 1])
          BY <1>2, <2>2, <2>4 DEF Awaits
        <4>2. rest[i] = st[i]
          BY <2>1
        <4>3. i < m => Key(rest[i + 1]) = Key(st[i + 1])
          <5>1. i < m => i + 1 \in 1..m
            BY <2>2
          <5> QED
            BY <2>1, <5>1
        <4>4. i = m => Key(st[i + 1]) = k
          BY <2>2, <2>4
        <4>5. i < m \/ i = m
          BY <2>2
        <4> QED
          BY <2>5, <4>1, <4>2, <4>3, <4>4, <4>5
      <3> QED
        BY <2>1, <2>5, <3>1 DEF Awaits
    <2>9. done.uploaded \subseteq ever'
      BY <1>2, <1>3, <2>5
    <2>10. JobOK(p, job[p])'
      BY <1>1, <2>1, <2>5, <2>6, <2>7, <2>8, <2>9, UploadGoes
    <2> QED
      BY <1>1, <2>6, <2>10, StoringKept DEF k
  <1>5. CASE ~(n > 1)
    <2>1. <<>> \in Seq(Frames) /\ result \in {"exists", "ok"}
      OBVIOUS
    <2>2. /\ ended \in Jobs /\ ended.pc = "idle" /\ ended.stack = <<>>
          /\ ended.op = j.op /\ ended.force = j.force /\ ended.uploaded = j.uploaded
      <3> HIDE DEF result
      <3> QED
        BY <1>2, <2>1 DEF Jobs
    <2>3. job' = [job EXCEPT ![p] = ended] /\ job'[p] = ended
      BY <1>1, <1>5, NextJob
    <2> HIDE DEF ended
    <2>4. ended.uploaded \subseteq ever' /\ (ended.op = "update" => ~ended.force)
      BY <1>2, <1>3, <2>2
    <2>5. JobOK(p, job[p])'
      BY <2>2, <2>3, <2>4, EndedJobOK
    <2> QED
      BY <1>1, <2>3, <2>5, StoringKept
  <1> QED
    BY <1>4, <1>5

LEMMA UploadFailsKept ==
    ASSUME IInv, NEW p \in People, UploadFails(p)
    PROVE  IInv'
  <1> DEFINE j == job[p]
             failed == [j EXCEPT !.pc = "idle", !.result = "failed", !.stack = <<>>]
  <1>1. /\ j.pc = "upload" /\ Current(j).left = {} /\ UNCHANGED <<workspace, building>>
        /\ Store(p, Key(Current(j)), j.force) \/ UNCHANGED service
    BY DEF UploadFails
  <1>2. /\ j \in Jobs /\ Key(Current(j)) \in Keys /\ j.uploaded \subseteq ever
        /\ j.op = "update" => ~j.force
    BY <1>1, UploadFacts
  <1>3. job' = [job EXCEPT ![p] = failed]
    <2>1. job[p] \in Jobs /\ DOMAIN job = People
      BY <1>2 DEF IInv
    <2> QED
      BY <2>1 DEF UploadFails
  <1>4. ever \subseteq ever'
    <2>1. j.force \in BOOLEAN
      BY <1>2 DEF Jobs
    <2>2. CASE Store(p, Key(Current(j)), j.force)
      BY <1>2, <2>1, <2>2, StoreKeeps DEF IInv
    <2>3. CASE UNCHANGED service
      BY <2>3 DEF service
    <2> QED
      BY <1>1, <2>2, <2>3
  <1>5. <<>> \in Seq(Frames)
    OBVIOUS
  <1>6. /\ failed \in Jobs /\ failed.pc = "idle" /\ failed.stack = <<>>
        /\ failed.op = j.op /\ failed.force = j.force /\ failed.uploaded = j.uploaded
    BY <1>2, <1>5 DEF Jobs
  <1>7. job'[p] = failed
    BY <1>3, NextJob
  <1> HIDE DEF failed
  <1>8. JobOK(p, job[p])'
    BY <1>2, <1>4, <1>6, <1>7, EndedJobOK
  <1> QED
    BY <1>1, <1>3, <1>8, StoringKept

LEMMA Inductive ==
    ASSUME IInv, [Next]_vars
    PROVE  IInv'
  <1>1. CASE Next
    <2>1. PICK p \in People :
            \/ WorkspaceStep(p)
            \/ \E s \in Skills, b \in BOOLEAN : Publish(p, s, b) \/ Update(p, s, b)
            \/ \E k \in Keys : Delete(p, k[1], k[2])
            \/ \E v \in Versions : Choose(p, v)
            \/ LoadRemoteSkill(p)
            \/ Visit(p) \/ Upload(p) \/ UploadFails(p)
      BY <1>1 DEF Next
    <2>2. CASE \E s \in Skills, b \in BOOLEAN : Publish(p, s, b) \/ Update(p, s, b)
      BY <2>2, PublishKept, UpdateKept
    <2> QED
      BY <2>1, <2>2, WorkspaceStepKept, DeleteKept, ChooseKept, LoadRemoteSkillKept,
         VisitKept, UploadKept, UploadFailsKept
  <1>2. CASE UNCHANGED vars
    <2>1. UNCHANGED <<workspace, building, service, job>>
      BY <1>2 DEF vars
    <2>2. WorkspaceTyped' /\ Unbroken' /\ UNCHANGED <<md, plain, build, buildBreaks>>
      BY <2>1, WorkspaceUnchanged DEF workspace, building
    <2>3. RegistryTyped' /\ PublishedIsInstallable' /\ ever \subseteq ever'
      BY <2>1, <2>2, ServiceUnchanged
    <2>4. \A p \in People : JobOK(p, job[p])'
      BY <2>1, <2>2, <2>3, JobUndisturbed DEF IInv
    <2> QED
      BY <2>1, <2>2, <2>3, <2>4 DEF IInv
  <1> QED
    BY <1>1, <1>2

THEOREM Invariance == Spec => []IInv
  <1>1. Init => IInv
    BY Starts
  <1>2. IInv /\ [Next]_vars => IInv'
    BY Inductive
  <1> QED
    BY <1>1, <1>2, PTL DEF Spec

(* Every variable keeps its type, the dependency files have one entry for  *)
(* a key, and an upload holds each dependency once.                        *)
THEOREM TypeSafety == Spec => []TypeOK
  <1>1. IInv => TypeOK
    <2> SUFFICES ASSUME IInv
                 PROVE  TypeOK
      OBVIOUS
    <2>1. WorkspaceTypeOK
      BY WorkspaceTypedIsTypeOK DEF IInv
    <2>2. ASSUME NEW p \in People
          PROVE  /\ job[p].pc \in {"idle", "select", "choose", "upload"}
                 /\ job[p].result \in {"none", "ok", "exists", "failed"}
                 /\ (job[p].pc = "upload") = (job[p].stack # <<>>)
                 /\ \A i, n \in 2..Len(job[p].stack) :
                       job[p].stack[i].skill = job[p].stack[n].skill => i = n
      <3>1. JobOK(p, job[p])
        BY DEF IInv
      <3>2. job[p].stack = <<>> => 2..Len(job[p].stack) = {}
        OBVIOUS
      <3> QED
        BY <3>1, <3>2, JobFields DEF JobOK, Descends
    <2> QED
      BY <2>1, <2>2 DEF TypeOK, IInv, RegistryTyped
  <1> QED
    BY <1>1, Invariance, PTL

(* A build that was not broken leaves skill-deps.json and its lock with    *)
(* the same entries.                                                       *)
THEOREM FilesAgreeTheorem == Spec => []FilesAgree
  <1>1. IInv => FilesAgree
    BY DEF IInv, Unbroken, FilesAgree
  <1> QED
    BY <1>1, Invariance, PTL

(* While no build was broken, every dependency that an installer reads     *)
(* from a version of the registry was published itself, whoever uploaded   *)
(* it and whatever failed on the way.                                      *)
THEOREM InstallableTheorem == Spec => []PublishedIsInstallable
  <1>1. IInv => PublishedIsInstallable
    BY DEF IInv
  <1> QED
    BY <1>1, Invariance, PTL

\* An upload ends well only by asking the registry to store its root.
LEMMA OnlyOwnJob ==
    ASSUME IInv, Next, NEW p \in People, job[p].pc = "upload", job'[p].pc = "idle",
           job'[p].result \in {"ok", "exists"}
    PROVE  /\ Upload(p) /\ Len(job[p].stack) = 1
           /\ job'[p].result = "ok" => ~(Taken(Key(Current(job[p]))) /\ ~job[p].force)
  <1> DEFINE j == job[p]
  <1>1. j \in Jobs /\ DOMAIN job = People
    BY DEF IInv, JobOK
  <1>2. PICK q \in People :
            \/ WorkspaceStep(q)
            \/ \E s \in Skills, b \in BOOLEAN : Publish(q, s, b) \/ Update(q, s, b)
            \/ \E k \in Keys : Delete(q, k[1], k[2])
            \/ \E v \in Versions : Choose(q, v)
            \/ LoadRemoteSkill(q)
            \/ Visit(q) \/ Upload(q) \/ UploadFails(q)
    BY DEF Next
  <1>3. q = p
    <2>1. job'[p] # job[p]
      OBVIOUS
    <2>2. \A x : job' = [job EXCEPT ![q] = x] => p = q \/ job'[p] = job[p]
      BY <1>1
    <2>3. \/ job' = job
          \/ \E x : job' = [job EXCEPT ![q] = x]
          \/ UploadFails(q) \/ \E v \in Versions : Choose(q, v)
      BY <1>2 DEF WorkspaceStep, Publish, Update, Delete, LoadRemoteSkill, Visit, Upload
    <2>4. UploadFails(q) \/ (\E v \in Versions : Choose(q, v)) => p = q \/ job'[p] = job[p]
      BY <1>1 DEF UploadFails, Choose, Finish
    <2> QED
      BY <2>1, <2>2, <2>3, <2>4
  <1>4. ~UploadFails(p)
    BY <1>1 DEF UploadFails, Jobs
  <1>5. ~Visit(p)
    <2>1. ASSUME Visit(p), NEW x, job' = [job EXCEPT ![p] = x]
          PROVE  job'[p] = x
      BY <1>1, <2>1
    <2> QED
      BY <1>1, <2>1 DEF Visit, Jobs
  <1>6. Upload(p)
    BY <1>2, <1>3, <1>4, <1>5 DEF WorkspaceStep, Publish, Update, Delete, Choose,
       LoadRemoteSkill, Free
  <1>7. job'[p] = IF Len(j.stack) > 1 THEN DependencyDone(j)
                  ELSE [j EXCEPT !.pc = "idle", !.stack = <<>>,
                          !.result = IF Taken(Key(Current(j))) /\ ~j.force
                                     THEN "exists" ELSE "ok"]
    BY <1>1, <1>6 DEF Upload
  <1>8. DependencyDone(j).pc = "upload"
    BY <1>1 DEF DependencyDone, Jobs
  <1>9. Len(j.stack) \in Nat \ {0}
    BY <1>6, UploadFacts DEF Upload
  <1>10. ~(Len(j.stack) > 1) /\ Len(j.stack) = 1
    <2>1. Len(j.stack) > 1 => job'[p] = DependencyDone(j)
      BY <1>7
    <2>2. ~(Len(j.stack) > 1)
      BY <1>8, <2>1
    <2> DEFINE n == Len(j.stack)
    <2>3. n \in Nat \ {0} /\ ~(n > 1)
      BY <1>9, <2>2
    <2> HIDE DEF n
    <2>4. n = 1
      BY <2>3
    <2> QED
      BY <2>2, <2>4 DEF n
  <1>11. job'[p].result = IF Taken(Key(Current(j))) /\ ~j.force THEN "exists" ELSE "ok"
    BY <1>1, <1>7, <1>10 DEF Jobs
  <1> QED
    BY <1>6, <1>10, <1>11

(* A publish that ends well leaves the version and everything it needs     *)
(* published, however often it was tried.                                  *)
THEOREM SuccessTheorem == Spec => SuccessIsComplete
  <1>1. IInv /\ [Next]_vars =>
          [\A p \in People :
             job[p].pc = "upload" /\ job'[p].pc = "idle" /\ Settled(job'[p]) =>
                 /\ registry'[<<job[p].skill, md[p][job[p].skill]>>] # None
                 /\ Needs(plain[p][job[p].skill]) \subseteq ever']_vars
    <2> SUFFICES ASSUME IInv, Next, NEW p \in People,
                        job[p].pc = "upload", job'[p].pc = "idle", Settled(job'[p])
                 PROVE  /\ registry'[<<job[p].skill, md[p][job[p].skill]>>] # None
                        /\ Needs(plain[p][job[p].skill]) \subseteq ever'
      OBVIOUS
    <2> DEFINE j == job[p]  k == Key(Current(j))
    <2>1. Upload(p) /\ Len(j.stack) = 1
      BY OnlyOwnJob DEF Settled
    <2>2. /\ Current(j).left = {} /\ Store(p, k, j.force)
      BY <2>1 DEF Upload
    <2>3. /\ j \in Jobs /\ k \in Keys /\ k = <<j.skill, md[p][j.skill]>>
          /\ j.uploaded \subseteq ever /\ plain[p][k[1]] # Torn
          /\ \A e \in Entries(plain[p][k[1]]) : Key(e) \in j.uploaded
      BY <2>1, <2>2, UploadFacts
    <2>4. ever \subseteq ever' /\ registry'[k] # None
      <3>1. j.force \in BOOLEAN
        BY <2>3 DEF Jobs
      <3> QED
        BY <2>2, <2>3, <3>1, StoreKeeps DEF IInv
    <2>5. k[1] = j.skill /\ k[1] \in Skills
      BY <2>3 DEF Keys
    <2>6. Needs(plain[p][j.skill]) = {Key(e) : e \in Entries(plain[p][j.skill])}
      BY <2>3, <2>5, NeedsAreKeys DEF IInv, WorkspaceTyped
    <2> QED
      BY <2>3, <2>4, <2>5, <2>6
  <1> QED
    BY <1>1, Invariance, PTL DEF Spec, SuccessIsComplete

(* An update puts into the registry only a version that is not there and   *)
(* is greater than each one it had found, whatever was proposed to it.     *)
THEOREM UpdatesTheorem == Spec => UpdatesGoForward
  <1>1. IInv /\ [Next]_vars =>
          [\A p \in People : LET j == job[p]
                                 k == <<j.skill, j.chosen>> IN
             j.op = "update" /\ j.pc = "upload" /\ job'[p].pc = "idle"
             /\ job'[p].result = "ok" =>
                 /\ ~Taken(k) /\ registry'[k] # None
                 /\ \A v \in j.found : CompareVersions(j.chosen, v) > 0]_vars
    <2> SUFFICES ASSUME IInv, Next, NEW p \in People, job[p].op = "update",
                        job[p].pc = "upload", job'[p].pc = "idle", job'[p].result = "ok"
                 PROVE  LET j == job[p]
                            k == <<j.skill, j.chosen>> IN
                        /\ ~Taken(k) /\ registry'[k] # None
                        /\ \A v \in j.found : CompareVersions(j.chosen, v) > 0
      OBVIOUS
    <2> DEFINE j == job[p]  k == Key(Current(j))
    <2>1. Upload(p) /\ Len(j.stack) = 1 /\ ~(Taken(k) /\ ~j.force)
      BY OnlyOwnJob
    <2>2. /\ Current(j).left = {} /\ Store(p, k, j.force)
      BY <2>1 DEF Upload
    <2>3. /\ j \in Jobs /\ k \in Keys /\ k = <<j.skill, md[p][j.skill]>>
          /\ ~j.force /\ j.chosen = md[p][j.skill] /\ IsGreater(j.chosen, j.max) /\ Tops(j)
      BY <2>1, <2>2, UploadFacts
    <2>4. registry'[k] # None
      <3>1. j.force \in BOOLEAN
        BY <2>3 DEF Jobs
      <3> QED
        BY <2>2, <2>3, <3>1, StoreKeeps DEF IInv
    <2>5. ASSUME NEW v \in j.found
          PROVE  CompareVersions(j.chosen, v) > 0
      <3>1. /\ j.chosen \in Versions /\ v \in Versions
            /\ j.max \in Versions \cup {<<>>} /\ Versions \in SUBSET Seq(Token)
        <4>1. j.chosen = k[2] /\ k[2] \in Versions
          BY <2>3 DEF Keys
        <4> QED
          BY <2>3, <4>1, JobFields, VersionsAreTokens
      <3>2. <<>> \in Seq(Token)
        OBVIOUS
      <3> DEFINE c == j.chosen
                 m == j.max
      <3>3. c \in Seq(Token) /\ m \in Seq(Token) /\ v \in Seq(Token)
        BY <3>1, <3>2
      <3>4. CompareVersions(c, m) > 0 /\ CompareVersions(v, m) <= 0
        BY <2>3 DEF IsGreater, Tops
      <3> HIDE DEF c, m
      <3>5. CompareVersions(c, v) = 1
        BY <3>3, <3>4, GreaterThanBoth
      <3> QED
        BY <3>5 DEF c
    <2> QED
      BY <2>1, <2>3, <2>4, <2>5
  <1> QED
    BY <1>1, Invariance, PTL DEF Spec, UpdatesGoForward
=============================================================================
