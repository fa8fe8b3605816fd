------------------------------ MODULE SeqFacts ------------------------------
(***************************************************************************)
(* What pushing, popping, taking and removing an element does to the range *)
(* of a sequence: facts about the stacks and queues of the component       *)
(* modules, cited by their proofs.  Last, that a set of naturals has a     *)
(* least element, which is how an induction is written here: the least     *)
(* counterexample is taken and refuted.                                    *)
(***************************************************************************)
EXTENDS Integers, Sequences, Functions, WellFoundedInduction, TLAPS

(* Popping a stack without repetitions removes its top from the range. *)
LEMMA PopFacts ==
  ASSUME NEW S, NEW s \in Seq(S), s # << >>
  PROVE  LET t == SubSeq(s, 1, Len(s) - 1)
             x == s[Len(s)]
         IN /\ t \in Seq(S) /\ x \in S
            /\ Range(s) = Range(t) \cup {x}
            /\ IsInjective(s) => IsInjective(t) /\ x \notin Range(t)
<1> DEFINE t == SubSeq(s, 1, Len(s) - 1)
           x == s[Len(s)]
<1>0. Len(s) \in Nat
  OBVIOUS
<1>1. Len(s) \in Nat /\ Len(s) > 0 /\ DOMAIN s = 1 .. Len(s)
  OBVIOUS
<1>2. t \in Seq(S) /\ Len(t) = Len(s) - 1 /\ DOMAIN t = 1 .. Len(s) - 1
  BY <1>1
<1>3. \A i \in 1 .. Len(s) - 1 : t[i] = s[i]
  BY <1>1
<1>4. x \in S
  BY <1>1
<1>5. Range(s) = Range(t) \cup {x}
  <2>1. ASSUME NEW y \in Range(s) PROVE y \in Range(t) \cup {x}
    <3>1. PICK i \in 1 .. Len(s) : y = s[i]
      BY <1>1, <2>1 DEF Range
    <3>2. CASE i = Len(s)
      BY <3>1, <3>2
    <3>3. CASE i # Len(s)
      <4>1. i \in 1 .. Len(s) - 1
        BY <1>0, <3>3
      <4> QED BY <1>2, <1>3, <3>1, <4>1 DEF Range
    <3> QED BY <3>2, <3>3
  <2>2. ASSUME NEW y \in Range(t) PROVE y \in Range(s)
    <3>1. PICK i \in 1 .. Len(s) - 1 : y = t[i]
      BY <1>2, <2>2 DEF Range
    <3>2. i \in 1 .. Len(s) /\ y = s[i]
      BY <1>1, <1>3, <3>1
    <3> QED BY <1>1, <3>2 DEF Range
  <2>3. x \in Range(s)
    <3>1. Len(s) \in DOMAIN s
      BY <1>1
    <3> QED BY <3>1 DEF Range
  <2> QED BY <2>1, <2>2, <2>3
<1>6. ASSUME IsInjective(s) PROVE IsInjective(t) /\ x \notin Range(t)
  <2>1. IsInjective(t)
    BY <1>1, <1>2, <1>3, <1>6 DEF IsInjective
  <2>2. ASSUME x \in Range(t) PROVE FALSE
    <3>1. PICK i \in 1 .. Len(s) - 1 : x = t[i]
      BY <1>2, <2>2 DEF Range
    <3>2. s[i] = s[Len(s)] /\ i \in DOMAIN s /\ Len(s) \in DOMAIN s
      BY <1>1, <1>3, <3>1
    <3>3. i = Len(s)
      BY <1>6, <3>2 DEF IsInjective
    <3> QED BY <1>1, <3>3
  <2> QED BY <2>1, <2>2
<1> QED BY <1>2, <1>4, <1>5, <1>6

(* Pushing an index that is not there keeps the stack free of repetitions. *)
LEMMA PushFacts ==
  ASSUME NEW S, NEW s \in Seq(S), NEW x \in S
  PROVE  /\ Append(s, x) \in Seq(S)
         /\ Range(Append(s, x)) = Range(s) \cup {x}
         /\ IsInjective(s) /\ x \notin Range(s) => IsInjective(Append(s, x))
<1> DEFINE t == Append(s, x)
<1>1. /\ t \in Seq(S) /\ Len(t) = Len(s) + 1 /\ Len(s) \in Nat
      /\ DOMAIN s = 1 .. Len(s) /\ DOMAIN t = 1 .. Len(s) + 1
  OBVIOUS
<1>2. t[Len(s) + 1] = x /\ \A i \in 1 .. Len(s) : t[i] = s[i]
  OBVIOUS
<1>3. Range(t) = Range(s) \cup {x}
  <2>1. ASSUME NEW y \in Range(t) PROVE y \in Range(s) \cup {x}
    <3>1. PICK i \in 1 .. Len(s) + 1 : y = t[i]
      BY <1>1, <2>1 DEF Range
    <3>2. CASE i = Len(s) + 1
      BY <1>2, <3>1, <3>2
    <3>3. CASE i # Len(s) + 1
      <4>1. i \in 1 .. Len(s)
        BY <1>1, <3>1, <3>3
      <4> QED BY <1>1, <1>2, <3>1, <4>1 DEF Range
    <3> QED BY <3>2, <3>3
  <2>2. ASSUME NEW y \in Range(s) PROVE y \in Range(t)
    <3>1. PICK i \in 1 .. Len(s) : y = s[i]
      BY <1>1, <2>2 DEF Range
    <3>2. i \in 1 .. Len(s) + 1 /\ y = t[i]
      BY <1>1, <1>2, <3>1
    <3> QED BY <1>1, <3>2 DEF Range
  <2>3. x \in Range(t)
    <3>1. Len(s) + 1 \in DOMAIN t
      BY <1>1
    <3> QED BY <1>2, <3>1 DEF Range
  <2> QED BY <2>1, <2>2, <2>3
<1>4. ASSUME IsInjective(s), x \notin Range(s) PROVE IsInjective(t)
  <2>1. \A i \in 1 .. Len(s) : s[i] # x
    BY <1>1, <1>4 DEF Range
  <2>2. ASSUME NEW i \in 1 .. Len(s) + 1, NEW j \in 1 .. Len(s) + 1, t[i] = t[j]
        PROVE  i = j
    <3>1. CASE i \in 1 .. Len(s) /\ j \in 1 .. Len(s)
      <4>1. s[i] = s[j]
        BY <1>2, <2>2, <3>1
      <4> QED BY <1>1, <1>4, <3>1, <4>1 DEF IsInjective
    <3>2. CASE i = Len(s) + 1 \/ j = Len(s) + 1
      BY <1>1, <1>2, <2>1, <2>2, <3>2
    <3> QED BY <1>1, <2>2, <3>1, <3>2
  <2> QED BY <1>1, <2>2 DEF IsInjective
<1> QED BY <1>1, <1>3, <1>4

(* Taking the head of a queue leaves the rest. *)
LEMMA TakeFacts ==
  ASSUME NEW S, NEW s \in Seq(S), s # << >>
  PROVE  /\ Head(s) \in S /\ Tail(s) \in Seq(S)
         /\ Range(s) = Range(Tail(s)) \cup {Head(s)}
         /\ IsInjective(s) => IsInjective(Tail(s)) /\ Head(s) \notin Range(Tail(s))
<1>0. Len(s) \in Nat
  OBVIOUS
<1>1. Len(s) > 0 /\ DOMAIN s = 1 .. Len(s)
  OBVIOUS
<1>2. Head(s) \in S /\ Tail(s) \in Seq(S) /\ Head(s) = s[1]
  OBVIOUS
<1>3. /\ DOMAIN Tail(s) = 1 .. Len(s) - 1
      /\ \A i \in 1 .. Len(s) - 1 : Tail(s)[i] = s[i + 1]
  OBVIOUS
<1>4. ASSUME NEW y \in Range(s) PROVE y \in Range(Tail(s)) \cup {Head(s)}
  <2>1. PICK i \in 1 .. Len(s) : y = s[i]
    BY <1>1, <1>4 DEF Range
  <2>2. CASE i = 1
    BY <1>2, <2>1, <2>2
  <2>3. CASE i # 1
    <3>1. i - 1 \in 1 .. Len(s) - 1 /\ (i - 1) + 1 = i
      BY <1>0, <2>3
    <3>2. y = Tail(s)[i - 1]
      BY <1>3, <2>1, <3>1
    <3> QED BY <1>3, <3>1, <3>2 DEF Range
  <2> QED BY <2>2, <2>3
<1>5. ASSUME NEW y \in Range(Tail(s)) PROVE y \in Range(s)
  <2>1. PICK i \in 1 .. Len(s) - 1 : y = Tail(s)[i]
    BY <1>3, <1>5 DEF Range
  <2>2. i + 1 \in 1 .. Len(s)
    BY <1>0
  <2> QED BY <1>1, <1>3, <2>1, <2>2 DEF Range
<1>6. Head(s) \in Range(s)
  <2>1. 1 \in DOMAIN s
    BY <1>0, <1>1
  <2> QED BY <1>2, <2>1 DEF Range
<1>7. ASSUME IsInjective(s)
      PROVE  IsInjective(Tail(s)) /\ Head(s) \notin Range(Tail(s))
  <2>1. \A i \in 1 .. Len(s) - 1 : i + 1 \in 1 .. Len(s) /\ 1 \in 1 .. Len(s) /\ i + 1 # 1
    BY <1>0
  <2>2. ASSUME NEW i \in 1 .. Len(s) - 1, NEW j \in 1 .. Len(s) - 1, Tail(s)[i] = Tail(s)[j]
        PROVE  i = j
    <3>1. s[i + 1] = s[j + 1]
      BY <1>3, <2>2
    <3>2. i + 1 = j + 1
      BY <1>1, <1>7, <2>1, <3>1 DEF IsInjective
    <3> QED BY <1>0, <3>2
  <2>3. ASSUME Head(s) \in Range(Tail(s)) PROVE FALSE
    <3>1. PICK i \in 1 .. Len(s) - 1 : Head(s) = Tail(s)[i]
      BY <1>3, <2>3 DEF Range
    <3>2. s[1] = s[i + 1]
      BY <1>2, <1>3, <3>1
    <3> QED BY <1>1, <1>7, <2>1, <3>2 DEF IsInjective
  <2> QED BY <1>3, <2>2, <2>3 DEF IsInjective
<1> QED BY <1>2, <1>4, <1>5, <1>6, <1>7

(* What a concatenation has where. *)
LEMMA ConcatFacts ==
  ASSUME NEW S, NEW u \in Seq(S), NEW v \in Seq(S)
  PROVE  /\ u \o v \in Seq(S)
         /\ Len(u \o v) = Len(u) + Len(v)
         /\ \A j \in 1 .. Len(u) : (u \o v)[j] = u[j]
         /\ \A j \in Len(u) + 1 .. Len(u) + Len(v) : (u \o v)[j] = v[j - Len(u)]
<1>1. u \o v \in Seq(S)
  OBVIOUS
<1>2. Len(u \o v) = Len(u) + Len(v)
  OBVIOUS
<1>3. \A j \in 1 .. Len(u) : (u \o v)[j] = u[j]
  OBVIOUS
<1>4. \A j \in Len(u) + 1 .. Len(u) + Len(v) : (u \o v)[j] = v[j - Len(u)]
  OBVIOUS
<1> QED BY <1>1, <1>2, <1>3, <1>4

(* Removing the i-th element keeps all the others. *)
LEMMA RemoveFacts ==
  ASSUME NEW S, NEW s \in Seq(S), NEW i \in 1 .. Len(s)
  PROVE  LET t == SubSeq(s, 1, i - 1) \o SubSeq(s, i + 1, Len(s))
         IN  /\ t \in Seq(S) /\ Range(s) = Range(t) \cup {s[i]}
             /\ IsInjective(s) => IsInjective(t) /\ s[i] \notin Range(t)
<1> DEFINE u == SubSeq(s, 1, i - 1)
           v == SubSeq(s, i + 1, Len(s))
           t == u \o v
<1>0. Len(s) \in Nat /\ i \in Nat /\ 1 <= i /\ i <= Len(s)
  OBVIOUS
<1>1. u \in Seq(S) /\ Len(u) = i - 1 /\ \A j \in 1 .. i - 1 : u[j] = s[j]
  BY <1>0
<1>2. /\ v \in Seq(S) /\ Len(v) = Len(s) - i
      /\ \A j \in 1 .. Len(s) - i : v[j] = s[i + j]
  BY <1>0
<1>b. SubSeq(s, 1, i - 1) \o SubSeq(s, i + 1, Len(s)) = t
  OBVIOUS
<1> HIDE DEF u, v
<1>c. /\ t \in Seq(S) /\ Len(t) = Len(u) + Len(v)
      /\ \A j \in 1 .. Len(u) : t[j] = u[j]
      /\ \A j \in Len(u) + 1 .. Len(u) + Len(v) : t[j] = v[j - Len(u)]
  <2>1. u \in Seq(S) /\ v \in Seq(S)
    BY <1>1, <1>2
  <2> QED BY <2>1, ConcatFacts, Zenon
<1> HIDE DEF t
<1>3. t \in Seq(S) /\ Len(t) = Len(s) - 1
  BY <1>0, <1>1, <1>2, <1>c
<1>4. DOMAIN s = 1 .. Len(s) /\ DOMAIN t = 1 .. Len(s) - 1
  BY <1>3
<1>5. \A j \in 1 .. i - 1 : t[j] = s[j]
  BY <1>1, <1>c
<1>6. \A j \in i .. Len(s) - 1 : t[j] = s[j + 1]
  <2> TAKE j \in i .. Len(s) - 1
  <2>1. /\ j - (i - 1) \in 1 .. Len(s) - i /\ i + (j - (i - 1)) = j + 1
        /\ j \in Len(u) + 1 .. Len(u) + Len(v) /\ j - Len(u) = j - (i - 1)
    BY <1>0, <1>1, <1>2
  <2>2. t[j] = v[j - Len(u)]
    BY <1>c, <2>1
  <2> QED BY <1>2, <2>1, <2>2
<1>7. ASSUME NEW y \in Range(s) PROVE y \in Range(t) \cup {s[i]}
  <2>1. PICK j \in 1 .. Len(s) : y = s[j]
    BY <1>4, <1>7 DEF Range
  <2>2. CASE j \in 1 .. i - 1
    <3>1. j \in 1 .. Len(s) - 1
      BY <1>0, <2>2
    <3> QED BY <1>4, <1>5, <2>1, <2>2, <3>1 DEF Range
  <2>3. CASE j \in i + 1 .. Len(s)
    <3>1. j - 1 \in i .. Len(s) - 1 /\ (j - 1) + 1 = j /\ j - 1 \in 1 .. Len(s) - 1
      BY <1>0, <2>3
    <3>2. y = t[j - 1]
      BY <1>6, <2>1, <3>1
    <3> QED BY <1>4, <3>1, <3>2 DEF Range
  <2>4. CASE j = i
    BY <2>1, <2>4
  <2>5. j \in 1 .. i - 1 \/ j \in i + 1 .. Len(s) \/ j = i
    BY <1>0
  <2> QED BY <2>2, <2>3, <2>4, <2>5
<1>8. ASSUME NEW y \in Range(t) PROVE y \in Range(s)
  <2>1. PICK j \in 1 .. Len(s) - 1 : y = t[j]
    BY <1>4, <1>8 DEF Range
  <2>2. CASE j \in 1 .. i - 1
    <3>1. j \in 1 .. Len(s)
      BY <1>0, <2>2
    <3> QED BY <1>4, <1>5, <2>1, <2>2, <3>1 DEF Range
  <2>3. CASE j \in i .. Len(s) - 1
    <3>1. j + 1 \in 1 .. Len(s)
      BY <1>0, <2>3
    <3> QED BY <1>4, <1>6, <2>1, <2>3, <3>1 DEF Range
  <2>4. j \in 1 .. i - 1 \/ j \in i .. Len(s) - 1
    BY <1>0
  <2> QED BY <2>2, <2>3, <2>4
<1>9. s[i] \in Range(s)
  BY <1>4 DEF Range
<1>10. ASSUME IsInjective(s) PROVE IsInjective(t) /\ s[i] \notin Range(t)
  <2> DEFINE at(j) == IF j < i THEN j ELSE j + 1
  <2>1. ASSUME NEW j \in 1 .. Len(s) - 1
        PROVE  at(j) \in DOMAIN s /\ t[j] = s[at(j)] /\ at(j) # i
    <3>1. CASE j < i
      <4>1. j \in 1 .. i - 1
        BY <1>0, <3>1
      <4> QED BY <1>0, <1>4, <1>5, <3>1, <4>1
    <3>2. CASE ~(j < i)
      <4>1. j \in i .. Len(s) - 1
        BY <1>0, <3>2
      <4> QED BY <1>0, <1>4, <1>6, <3>2, <4>1
    <3> QED BY <3>1, <3>2
  <2>2. \A j, k \in 1 .. Len(s) - 1 : at(j) = at(k) => j = k
    BY <1>0
  <2> HIDE DEF at
  <2>3. \A j, k \in 1 .. Len(s) - 1 : t[j] = t[k] => j = k
    BY <1>10, <2>1, <2>2 DEF IsInjective
  <2>4. \A j \in 1 .. Len(s) - 1 : t[j] # s[i]
    BY <1>4, <1>10, <2>1 DEF IsInjective
  <2> QED BY <1>4, <2>3, <2>4 DEF IsInjective, Range
<1> QED BY <1>b, <1>3, <1>7, <1>8, <1>9, <1>10

(* A set of naturals that is not empty has a least element. *)
LEMMA LeastNatural ==
  ASSUME NEW T \in SUBSET Nat, T # {}
  PROVE  \E x \in T : \A y \in T : x <= y
<1> DEFINE R == OpToRel(<, Nat)
<1>1. IsWellFoundedOn(R, Nat)
  BY NatLessThanWellFounded
<1>2. \A x, y \in Nat : y < x => <<y, x>> \in R
  BY DEF OpToRel
<1> HIDE DEF R
<1>3. PICK x \in T : \A y \in T : ~ (<<y, x>> \in R)
  BY <1>1, WFMin
<1>4. ASSUME NEW y \in T PROVE x <= y
  <2>1. ~(y < x)
    BY <1>2, <1>3
  <2> QED BY <2>1
<1> QED BY <1>4

(* k steps within Q, and their run from b. *)
AreSteps(F, k, Q) == F \in [1 .. k -> [Q -> Q]]
IsRun(g, F, k, Q, b) == /\ g \in [0 .. k -> Q] /\ g[0] = b
                        /\ \A n \in 1 .. k : g[n] = F[n][g[n - 1]]

(* A function that is to start with b and to take the n-th step from its    *)
(* value at n - 1 exists, for steps that stay within a set.                 *)
LEMMA Iterate ==
  ASSUME NEW k \in Nat, NEW Q, NEW b \in Q, NEW F, AreSteps(F, k, Q)
  PROVE  \E g : IsRun(g, F, k, Q, b)
<1> DEFINE Upto(j, g) == /\ g \in [0 .. j -> Q] /\ g[0] = b
                         /\ \A n \in 1 .. j : g[n] = F[n][g[n - 1]]
           T == {j \in 0 .. k : ~ \E g : Upto(j, g)}
<1>0. F \in [1 .. k -> [Q -> Q]]
  BY DEF AreSteps
<1>1. T = {}
  <2>1. SUFFICES ASSUME T # {} PROVE FALSE
    OBVIOUS
  <2>2. PICK j \in T : \A i \in T : j <= i
    <3>1. T \in SUBSET Nat
      OBVIOUS
    <3> HIDE DEF T
    <3> QED BY <2>1, <3>1, LeastNatural
  <2>3. CASE j = 0
    <3> DEFINE h == [n \in 0 .. 0 |-> b]
    <3>1. h \in [0 .. 0 -> Q] /\ h[0] = b
      OBVIOUS
    <3>2. 1 .. 0 = {}
      OBVIOUS
    <3> HIDE DEF h
    <3>3. Upto(0, h)
      BY <3>1, <3>2, Zenon
    <3> QED BY <2>2, <2>3, <3>3
  <2>4. CASE j # 0
    <3>0. T \subseteq 0 .. k
      OBVIOUS
    <3>1. j \in 1 .. k /\ j - 1 \in 0 .. k /\ j - 1 \notin T
      <4> HIDE DEF T
      <4> QED BY <2>2, <2>4, <3>0
    <3>2. PICK g : Upto(j - 1, g)
      BY <3>1
    <3> DEFINE h == [n \in 0 .. j |-> IF n = j THEN F[j][g[j - 1]] ELSE g[n]]
    <3>3. g[j - 1] \in Q /\ F[j] \in [Q -> Q]
      BY <1>0, <3>1, <3>2
    <3>4. h \in [0 .. j -> Q]
      <4>1. \A n \in 0 .. j : n # j => n \in 0 .. j - 1
        BY <3>1
      <4> QED BY <3>2, <3>3, <4>1
    <3>5. h[0] = b
      BY <3>1, <3>2
    <3>6. ASSUME NEW n \in 1 .. j PROVE h[n] = F[n][h[n - 1]]
      <4>1. n \in 0 .. j /\ n - 1 \in 0 .. j - 1 /\ n - 1 \in 0 .. j /\ n - 1 # j
        BY <3>1
      <4>2. h[n - 1] = g[n - 1]
        BY <4>1
      <4>3. CASE n = j
        BY <4>1, <4>2, <4>3
      <4>4. CASE n # j
        <5>1. n \in 1 .. j - 1 /\ h[n] = g[n]
          BY <3>1, <4>1, <4>4
        <5> QED BY <3>2, <4>2, <5>1
      <4> QED BY <4>3, <4>4
    <3> HIDE DEF h
    <3>7. Upto(j, h)
      BY <3>4, <3>5, <3>6
    <3> QED BY <2>2, <3>7
  <2> QED BY <2>3, <2>4
<1>2. PICK g : Upto(k, g)
  <2>1. k \in 0 .. k
    OBVIOUS
  <2> HIDE DEF Upto
  <2> QED BY <1>1, <2>1
<1> QED BY <1>2 DEF IsRun

(* What holds at 0 and climbs from each number to the next holds up to k. *)
LEMMA Climb ==
  ASSUME NEW k \in Nat, NEW S, 0 \in S, \A n \in 1 .. k : n - 1 \in S => n \in S
  PROVE  \A n \in 0 .. k : n \in S
<1> DEFINE T == {n \in 0 .. k : n \notin S}
<1>1. SUFFICES ASSUME T # {} PROVE FALSE
  OBVIOUS
<1>2. PICK n \in T : \A i \in T : n <= i
  <2>1. T \in SUBSET Nat
    OBVIOUS
  <2> HIDE DEF T
  <2> QED BY <1>1, <2>1, LeastNatural
<1>3. n # 0 /\ n \in 1 .. k /\ n - 1 \in 0 .. k
  BY <1>2
<1>4. n - 1 \notin T
  BY <1>2, <1>3
<1> QED BY <1>2, <1>3, <1>4

(* A function whose every step stays within a set stays within it. *)
LEMMA IterateStays ==
  ASSUME NEW k \in Nat, NEW Q, NEW g, g[0] \in Q,
         \A n \in 1 .. k : g[n - 1] \in Q => g[n] \in Q
  PROVE  \A n \in 0 .. k : g[n] \in Q
<1> DEFINE S == {n \in 0 .. k : g[n] \in Q}
<1>1. 0 \in S /\ \A n \in 1 .. k : n - 1 \in S => n \in S
  OBVIOUS
<1>2. \A n \in 0 .. k : n \in S
  <2> HIDE DEF S
  <2> QED BY <1>1, Climb
<1> QED BY <1>2
=============================================================================
