--------------------------- MODULE SequenceFacts ---------------------------
(* What Head, Tail and Append do to the elements of a sequence, and to the last of
   them that says something on a matter, used by the proofs about channels; induction
   on the natural numbers and recursion over them, used by those about parsers. *)
EXTENDS Integers, Sequences, WellFoundedInduction, TLAPS

LEMMA TailFacts ==
    ASSUME NEW T, NEW s \in Seq(T), s # <<>>
    PROVE  /\ Len(s) \in Nat /\ Len(s) >= 1
           /\ Head(s) = s[1] /\ Head(s) \in T
           /\ Tail(s) \in Seq(T) /\ Len(Tail(s)) = Len(s) - 1
           /\ DOMAIN s = 1..Len(s) /\ DOMAIN Tail(s) = 1..(Len(s) - 1)
           /\ \A i \in DOMAIN Tail(s) : i + 1 \in DOMAIN s /\ Tail(s)[i] = s[i + 1]
  OBVIOUS

LEMMA AppendFacts ==
    ASSUME NEW T, NEW s \in Seq(T), NEW x \in T
    PROVE  /\ Len(s) \in Nat
           /\ Append(s, x) \in Seq(T) /\ Len(Append(s, x)) = Len(s) + 1
           /\ DOMAIN s = 1..Len(s) /\ DOMAIN Append(s, x) = 1..(Len(s) + 1)
           /\ \A i \in DOMAIN s : Append(s, x)[i] = s[i]
           /\ Append(s, x)[Len(s) + 1] = x
  OBVIOUS

\* The last word of s on a matter is w: words are the elements g is defined for, g says
\* what they mean, and v is the word before s.
LastWord(s, g, v, w) ==
    /\ \A i \in DOMAIN s :
          s[i] \in DOMAIN g /\ (\A j \in DOMAIN s : j > i => s[j] \notin DOMAIN g)
              => w = g[s[i]]
    /\ (\A i \in DOMAIN s : s[i] \notin DOMAIN g) => w = v

LEMMA LastWordAppended ==
    ASSUME NEW T, NEW s \in Seq(T), NEW x \in T, NEW g, NEW v, NEW w
    PROVE  /\ x \notin DOMAIN g /\ LastWord(s, g, v, w) => LastWord(Append(s, x), g, v, w)
           /\ x \in DOMAIN g => LastWord(Append(s, x), g, v, g[x])
  <1> DEFINE t == Append(s, x)
  <1>1. /\ Len(s) \in Nat /\ DOMAIN s = 1..Len(s) /\ DOMAIN t = 1..(Len(s) + 1)
        /\ \A i \in DOMAIN s : t[i] = s[i]
        /\ t[Len(s) + 1] = x
    BY AppendFacts
  <1> HIDE DEF t
  <1>2. ASSUME x \notin DOMAIN g, LastWord(s, g, v, w) PROVE LastWord(t, g, v, w)
    <2>1. ASSUME NEW i \in DOMAIN t, t[i] \in DOMAIN g,
                 \A j \in DOMAIN t : j > i => t[j] \notin DOMAIN g
          PROVE  w = g[t[i]]
      <3>1. i \in DOMAIN s
        BY <1>1, <1>2, <2>1
      <3>2. t[i] = s[i] /\ \A j \in DOMAIN s : j > i => s[j] \notin DOMAIN g
        BY <1>1, <2>1, <3>1
      <3>3. QED
        BY <1>2, <2>1, <3>1, <3>2 DEF LastWord
    <2>2. ASSUME \A i \in DOMAIN t : t[i] \notin DOMAIN g PROVE w = v
      <3>1. \A i \in DOMAIN s : i \in DOMAIN t /\ s[i] = t[i]
        BY <1>1
      <3>2. QED
        BY <1>2, <2>2, <3>1 DEF LastWord
    <2>3. QED
      BY <2>1, <2>2 DEF LastWord
  <1>3. ASSUME x \in DOMAIN g PROVE LastWord(t, g, v, g[x])
    <2>1. Len(s) + 1 \in DOMAIN t
      BY <1>1
    <2>2. ASSUME NEW i \in DOMAIN t, \A j \in DOMAIN t : j > i => t[j] \notin DOMAIN g
          PROVE  t[i] = x
      BY <1>1, <1>3, <2>1, <2>2
    <2>3. QED
      BY <1>1, <1>3, <2>1, <2>2 DEF LastWord
  <1>4. QED
    BY <1>2, <1>3 DEF t

LEMMA LastWordTaken ==
    ASSUME NEW T, NEW s \in Seq(T), s # <<>>, NEW g, NEW v, NEW w, LastWord(s, g, v, w)
    PROVE  /\ Head(s) \notin DOMAIN g => LastWord(Tail(s), g, v, w)
           /\ Head(s) \in DOMAIN g => LastWord(Tail(s), g, g[Head(s)], w)
  <1> DEFINE t == Tail(s)
             h == Head(s)
  <1>1. /\ Len(s) \in Nat /\ Len(s) >= 1 /\ DOMAIN s = 1..Len(s)
        /\ DOMAIN t = 1..(Len(s) - 1)
        /\ \A i \in DOMAIN t : i + 1 \in DOMAIN s /\ t[i] = s[i + 1]
        /\ h = s[1] /\ 1 \in DOMAIN s
    BY TailFacts
  <1> HIDE DEF t, h
  <1>2. \A j \in DOMAIN s : j = 1 \/ (j - 1 \in DOMAIN t /\ s[j] = t[j - 1])
    <2> SUFFICES ASSUME NEW j \in DOMAIN s, j # 1
                 PROVE  j - 1 \in DOMAIN t /\ s[j] = t[j - 1]
      OBVIOUS
    <2>1. j - 1 \in DOMAIN t /\ (j - 1) + 1 = j
      BY <1>1
    <2>2. QED
      BY <1>1, <2>1
  <1>3. ASSUME NEW i \in DOMAIN t, t[i] \in DOMAIN g,
               \A j \in DOMAIN t : j > i => t[j] \notin DOMAIN g
        PROVE  w = g[t[i]]
    <2>1. i + 1 \in DOMAIN s /\ t[i] = s[i + 1] /\ i \in Nat /\ i >= 1
      BY <1>1
    <2>2. ASSUME NEW j \in DOMAIN s, j > i + 1 PROVE s[j] \notin DOMAIN g
      <3>1. j \in Nat /\ j # 1 /\ j - 1 > i
        BY <1>1, <2>1, <2>2
      <3>2. j - 1 \in DOMAIN t /\ s[j] = t[j - 1]
        BY <1>2, <3>1
      <3>3. QED
        BY <1>3, <3>1, <3>2
    <2>3. QED
      BY <1>3, <2>1, <2>2 DEF LastWord
  <1>4. ASSUME \A i \in DOMAIN t : t[i] \notin DOMAIN g, h \notin DOMAIN g PROVE w = v
    BY <1>1, <1>2, <1>4 DEF LastWord
  <1>5. ASSUME \A i \in DOMAIN t : t[i] \notin DOMAIN g, h \in DOMAIN g PROVE w = g[h]
    <2>1. \A j \in DOMAIN s : j > 1 => s[j] \notin DOMAIN g
      BY <1>1, <1>2, <1>5
    <2>2. QED
      BY <1>1, <1>5, <2>1 DEF LastWord
  <1>6. QED
    BY <1>3, <1>4, <1>5 DEF LastWord, t, h

-----------------------------------------------------------------------------
\* Induction on the natural numbers, for a set of them.
LEMMA Induction ==
    ASSUME NEW S \in SUBSET Nat, 0 \in S, \A n \in S : n + 1 \in S
    PROVE  S = Nat
  <1> DEFINE less == OpToRel(<, Nat)
             T == Nat \ S
  <1>1. ASSUME T # {} PROVE FALSE
    <2>1. \E x \in T : \A y \in T : ~ (<<y, x>> \in less)
      <3>1. T \subseteq Nat
        OBVIOUS
      <3>2. IsWellFoundedOn(less, Nat)
        BY NatLessThanWellFounded
      <3> HIDE DEF less, T
      <3> QED
        BY <1>1, <3>1, <3>2, WFMin
    <2>2. PICK x \in T : \A y \in T : ~ (<<y, x>> \in less)
      BY <2>1
    <2>3. x \in Nat /\ x # 0 /\ x - 1 \in Nat
      OBVIOUS
    <2>4. <<x - 1, x>> \in less
      BY <2>3 DEF OpToRel
    <2>5. x - 1 \in S
      BY <2>2, <2>3, <2>4
    <2> QED
      BY <2>3, <2>5
  <1> QED
    BY <1>1

\* The first n values of a function that is defined by recursion.
Recursion(f, n, c, step) ==
    f[0] = c /\ \A i \in 1..n : f[i] = step[<<f[i - 1], i>>]

\* There is such a function.
LEMMA RecursionExists ==
    ASSUME NEW N \in Nat, NEW T, NEW c \in T, NEW step \in [T \X (1..N) -> T]
    PROVE  \E f \in [0..N -> T] : Recursion(f, N, c, step)
  <1> DEFINE P(n) == \E f \in [0..N -> T] : Recursion(f, n, c, step)
             S == {n \in Nat : n <= N => P(n)}
  <1>1. 0 \in S
    <2> DEFINE f == [i \in 0..N |-> c]
    <2>1. f \in [0..N -> T] /\ f[0] = c
      OBVIOUS
    <2>2. Recursion(f, 0, c, step)
      BY <2>1 DEF Recursion
    <2> QED
      BY <2>1, <2>2
  <1>2. ASSUME NEW n \in S PROVE n + 1 \in S
    <2>1. ASSUME n + 1 <= N PROVE P(n + 1)
      <3>1. n \in Nat /\ P(n) /\ n + 1 \in 1..N /\ n \in 0..N
        BY <1>2, <2>1
      <3>2. PICK f \in [0..N -> T] : Recursion(f, n, c, step)
        BY <3>1
      <3> DEFINE x == step[<<f[n], n + 1>>]
                 g == [f EXCEPT ![n + 1] = x]
      <3>3. f[n] \in T
        BY <3>1
      <3>4. x \in T
        BY <3>1, <3>3
      <3> HIDE DEF x
      <3>5. g \in [0..N -> T] /\ g[n + 1] = x
        BY <3>1, <3>4
      <3>6. \A i \in 0..N : i # n + 1 => g[i] = f[i]
        OBVIOUS
      <3> HIDE DEF g
      <3>7. ASSUME NEW i \in 1..(n + 1) PROVE g[i] = step[<<g[i - 1], i>>]
        <4>1. CASE i = n + 1
          <5>1. i - 1 = n /\ n \in 0..N /\ n # n + 1
            BY <3>1, <4>1
          <5>2. g[i - 1] = f[n]
            BY <3>6, <5>1
          <5> QED
            BY <3>5, <4>1, <5>2 DEF x
        <4>2. CASE i # n + 1
          <5>1. i \in 1..n /\ i \in 0..N /\ i - 1 \in 0..N /\ i - 1 # n + 1
            BY <3>1, <4>2
          <5> QED
            BY <3>2, <3>6, <4>2, <5>1 DEF Recursion
        <4> QED
          BY <4>1, <4>2
      <3>8. g[0] = c
        BY <3>1, <3>2, <3>6 DEF Recursion
      <3>9. Recursion(g, n + 1, c, step)
        BY <3>7, <3>8 DEF Recursion
      <3> QED
        BY <3>5, <3>9
    <2> QED
      BY <1>2, <2>1
  <1> HIDE DEF P
  <1>3. S \in SUBSET Nat
    OBVIOUS
  <1> HIDE DEF S
  <1>4. S = Nat
    BY <1>1, <1>2, <1>3, Induction
  <1>5. P(N)
    BY <1>4 DEF S
  <1> QED
    BY <1>5 DEF P
=============================================================================
