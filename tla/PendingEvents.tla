----------------------------- MODULE PendingEvents -----------------------------
(* Queues of events, the oldest first: what is pending of a class of events,  *)
(* and what the last of a class is.  An invariant of a component that handles *)
(* its events in order says what the last pending event of a class will do,   *)
(* and what holds when none is pending; the lemmas say what posting an event  *)
(* and taking the oldest make of that.                                        *)
EXTENDS Naturals, Sequences, TLAPS

\* No event of the class C is pending in s.
NoneIn(s, C) == \A i \in 1 .. Len(s) : s[i] \notin C

\* The last event of the class C pending in s, if any, is one of A.
Ends(s, C, A) ==
    \/ NoneIn(s, C)
    \/ \E i \in 1 .. Len(s) :
          /\ s[i] \in C /\ s[i] \in A
          /\ \A j \in 1 .. Len(s) : j > i => s[j] \notin C

\* An event of B is pending in s, and later one of A.
Before(s, B, A) == \E i, k \in 1 .. Len(s) : i < k /\ s[i] \in B /\ s[k] \in A

\* After an event of U one of B is pending, and later one of A.
Chain(s, U, B, A) ==
    \A i \in 1 .. Len(s) : s[i] \in U =>
        \E j, k \in 1 .. Len(s) : i < j /\ j < k /\ s[j] \in B /\ s[k] \in A

\* The event e is pending in s.
Has(s, e) == \E i \in 1 .. Len(s) : s[i] = e

\* After every event a pending in s comes an event d.
Covered(s, a, d) == \A i \in 1 .. Len(s) : s[i] = a => \E j \in 1 .. Len(s) : i < j /\ s[j] = d

-----------------------------------------------------------------------------
LEMMA AppendFacts ==
    ASSUME NEW S, NEW s \in Seq(S), NEW x \in S
    PROVE  /\ Append(s, x) \in Seq(S)
           /\ Len(s) \in Nat
           /\ Len(Append(s, x)) = Len(s) + 1
           /\ Append(s, x)[Len(s) + 1] = x
           /\ \A i \in 1 .. Len(s) : Append(s, x)[i] = s[i]
OBVIOUS

LEMMA TailFacts ==
    ASSUME NEW S, NEW s \in Seq(S), s # <<>>
    PROVE  /\ Tail(s) \in Seq(S)
           /\ Head(s) \in S
           /\ Head(s) = s[1]
           /\ Len(s) \in Nat /\ Len(s) > 0
           /\ Len(Tail(s)) = Len(s) - 1
           /\ \A i \in 1 .. Len(Tail(s)) : Tail(s)[i] = s[i + 1]
OBVIOUS

LEMMA NoneOfEmpty == ASSUME NEW C PROVE NoneIn(<<>>, C)
BY DEF NoneIn

LEMMA NoneAppend ==
    ASSUME NEW S, NEW s \in Seq(S), NEW x \in S, NEW C
    PROVE  NoneIn(Append(s, x), C) <=> NoneIn(s, C) /\ x \notin C
BY AppendFacts DEF NoneIn

LEMMA NoneTail ==
    ASSUME NEW S, NEW s \in Seq(S), NEW C, s # <<>>
    PROVE  NoneIn(s, C) <=> NoneIn(Tail(s), C) /\ Head(s) \notin C
<1>1. ASSUME NoneIn(s, C) PROVE NoneIn(Tail(s), C) /\ Head(s) \notin C
  BY <1>1, TailFacts DEF NoneIn
<1>2. ASSUME NoneIn(Tail(s), C), Head(s) \notin C PROVE NoneIn(s, C)
  <2> SUFFICES ASSUME NEW i \in 1 .. Len(s) PROVE s[i] \notin C
    BY DEF NoneIn
  <2>1. CASE i = 1
    BY <1>2, <2>1, TailFacts
  <2>2. CASE i # 1
    <3>1. i - 1 \in 1 .. Len(Tail(s)) /\ Tail(s)[i - 1] = s[i]
      BY <2>2, TailFacts
    <3> QED BY <1>2, <3>1 DEF NoneIn
  <2> QED BY <2>1, <2>2
<1> QED BY <1>1, <1>2

LEMMA EndsAppendOther ==
    ASSUME NEW S, NEW s \in Seq(S), NEW x \in S, NEW C, NEW A, x \notin C, Ends(s, C, A)
    PROVE  Ends(Append(s, x), C, A)
<1>1. CASE NoneIn(s, C)
  BY <1>1, NoneAppend DEF Ends
<1>2. CASE ~NoneIn(s, C)
  <2>1. PICK i \in 1 .. Len(s) : /\ s[i] \in C /\ s[i] \in A
                                 /\ \A j \in 1 .. Len(s) : j > i => s[j] \notin C
    BY <1>2 DEF Ends
  <2>2. i \in 1 .. Len(Append(s, x)) /\ Append(s, x)[i] = s[i]
    BY AppendFacts
  <2>3. ASSUME NEW j \in 1 .. Len(Append(s, x)), j > i PROVE Append(s, x)[j] \notin C
    BY <2>1, <2>3, AppendFacts
  <2> QED BY <2>1, <2>2, <2>3 DEF Ends
<1> QED BY <1>1, <1>2

LEMMA EndsAppend ==
    ASSUME NEW S, NEW s \in Seq(S), NEW x \in S, NEW C, NEW A, x \in C, x \in A
    PROVE  Ends(Append(s, x), C, A)
<1>1. Len(s) + 1 \in 1 .. Len(Append(s, x)) /\ Append(s, x)[Len(s) + 1] = x
  BY AppendFacts
<1>2. \A j \in 1 .. Len(Append(s, x)) : ~(j > Len(s) + 1)
  BY AppendFacts
<1> QED BY <1>1, <1>2 DEF Ends

LEMMA EndsTail ==
    ASSUME NEW S, NEW s \in Seq(S), NEW C, NEW A, s # <<>>, Ends(s, C, A)
    PROVE  /\ Ends(Tail(s), C, A)
           /\ NoneIn(Tail(s), C) => NoneIn(s, C) \/ (Head(s) \in C /\ Head(s) \in A)
<1>1. CASE NoneIn(s, C)
  BY <1>1, NoneTail DEF Ends
<1>2. CASE ~NoneIn(s, C)
  <2>1. PICK i \in 1 .. Len(s) : /\ s[i] \in C /\ s[i] \in A
                                 /\ \A j \in 1 .. Len(s) : j > i => s[j] \notin C
    BY <1>2 DEF Ends
  <2>2. CASE i = 1
    <3>1. NoneIn(Tail(s), C)
      <4> SUFFICES ASSUME NEW k \in 1 .. Len(Tail(s)) PROVE Tail(s)[k] \notin C
        BY DEF NoneIn
      <4>1. k + 1 \in 1 .. Len(s) /\ k + 1 > i /\ Tail(s)[k] = s[k + 1]
        BY <2>2, TailFacts
      <4> QED BY <4>1, <2>1
    <3> QED BY <2>1, <2>2, <3>1, TailFacts DEF Ends
  <2>3. CASE i # 1
    <3>1. i - 1 \in 1 .. Len(Tail(s)) /\ Tail(s)[i - 1] = s[i]
      BY <2>3, TailFacts
    <3>2. ASSUME NEW j \in 1 .. Len(Tail(s)), j > i - 1 PROVE Tail(s)[j] \notin C
      BY <2>1, <3>2, TailFacts
    <3>3. ~NoneIn(Tail(s), C)
      BY <2>1, <3>1 DEF NoneIn
    <3> QED BY <2>1, <3>1, <3>2, <3>3 DEF Ends
  <2> QED BY <2>2, <2>3
<1> QED BY <1>1, <1>2

LEMMA EndsWeaken ==
    ASSUME NEW s, NEW C, NEW A, NEW B, Ends(s, C, A), C \cap A \subseteq B
    PROVE  Ends(s, C, B)
BY DEF Ends

\* Of a class with events in A only, either none or one in A is pending.
LEMMA EndsNone ==
    ASSUME NEW s, NEW C, NEW A, NEW D, Ends(s, C, A), C \cap A \subseteq D, NoneIn(s, D)
    PROVE  NoneIn(s, C)
BY DEF Ends, NoneIn

LEMMA BeforeAppend ==
    ASSUME NEW S, NEW s \in Seq(S), NEW x \in S, NEW B, NEW A
    PROVE  /\ Before(s, B, A) => Before(Append(s, x), B, A)
           /\ ~NoneIn(s, B) /\ x \in A => Before(Append(s, x), B, A)
BY AppendFacts DEF Before, NoneIn

LEMMA BeforeTail ==
    ASSUME NEW S, NEW s \in Seq(S), NEW B, NEW A, s # <<>>, Before(s, B, A)
    PROVE  Before(Tail(s), B, A) \/ Head(s) \in B
<1>1. PICK i, k \in 1 .. Len(s) : i < k /\ s[i] \in B /\ s[k] \in A
  BY DEF Before
<1>2. CASE i = 1
  BY <1>1, <1>2, TailFacts
<1>3. CASE i # 1
  <2>1. /\ i - 1 \in 1 .. Len(Tail(s)) /\ Tail(s)[i - 1] = s[i]
        /\ k - 1 \in 1 .. Len(Tail(s)) /\ Tail(s)[k - 1] = s[k]
        /\ i - 1 < k - 1
    BY <1>1, <1>3, TailFacts
  <2> QED BY <1>1, <2>1 DEF Before
<1> QED BY <1>2, <1>3

LEMMA ChainAppend ==
    ASSUME NEW S, NEW s \in Seq(S), NEW x \in S, NEW U, NEW B, NEW A, x \notin U, Chain(s, U, B, A)
    PROVE  Chain(Append(s, x), U, B, A)
<1> SUFFICES ASSUME NEW i \in 1 .. Len(Append(s, x)), Append(s, x)[i] \in U
             PROVE  \E j, k \in 1 .. Len(Append(s, x)) :
                       i < j /\ j < k /\ Append(s, x)[j] \in B /\ Append(s, x)[k] \in A
  BY DEF Chain
<1>1. i \in 1 .. Len(s) /\ Append(s, x)[i] = s[i]
  BY AppendFacts
<1>2. PICK j \in 1 .. Len(s), k \in 1 .. Len(s) : i < j /\ j < k /\ s[j] \in B /\ s[k] \in A
  BY <1>1 DEF Chain
<1> QED BY <1>2, AppendFacts

\* If the last of C is in B then from each of U, all of C, one of B follows.
LEMMA ChainStart ==
    ASSUME NEW S, NEW s \in Seq(S), NEW x \in S, NEW C, NEW A, NEW U, NEW B,
           Ends(s, C, B), U \subseteq C, U \cap B = {}, x \in A, x \notin U
    PROVE  Chain(Append(s, x), U, B, A)
<1> SUFFICES ASSUME NEW i \in 1 .. Len(Append(s, x)), Append(s, x)[i] \in U
             PROVE  \E j, k \in 1 .. Len(Append(s, x)) :
                       i < j /\ j < k /\ Append(s, x)[j] \in B /\ Append(s, x)[k] \in A
  BY DEF Chain
<1>1. i \in 1 .. Len(s) /\ s[i] \in U
  BY AppendFacts
<1>2. ~NoneIn(s, C)
  BY <1>1 DEF NoneIn
<1>3. PICK j \in 1 .. Len(s) : /\ s[j] \in C /\ s[j] \in B
                               /\ \A k \in 1 .. Len(s) : k > j => s[k] \notin C
  BY <1>2 DEF Ends
<1>4. i < j
  BY <1>1, <1>3
<1> QED BY <1>3, <1>4, AppendFacts

LEMMA ChainTail ==
    ASSUME NEW S, NEW s \in Seq(S), s # <<>>, NEW U, NEW B, NEW A, Chain(s, U, B, A)
    PROVE  /\ Chain(Tail(s), U, B, A)
           /\ Head(s) \in U => Before(Tail(s), B, A)
<1>1. ASSUME NEW i \in 1 .. Len(s), s[i] \in U
      PROVE  \E j, k \in 1 .. Len(Tail(s)) :
                i - 1 < j /\ j < k /\ Tail(s)[j] \in B /\ Tail(s)[k] \in A
  <2>1. PICK j \in 1 .. Len(s), k \in 1 .. Len(s) : i < j /\ j < k /\ s[j] \in B /\ s[k] \in A
    BY <1>1 DEF Chain
  <2>2. /\ j - 1 \in 1 .. Len(Tail(s)) /\ Tail(s)[j - 1] = s[j]
        /\ k - 1 \in 1 .. Len(Tail(s)) /\ Tail(s)[k - 1] = s[k]
        /\ i - 1 < j - 1 /\ j - 1 < k - 1
    BY <2>1, TailFacts
  <2> QED BY <2>1, <2>2
<1>2. Chain(Tail(s), U, B, A)
  <2> SUFFICES ASSUME NEW i \in 1 .. Len(Tail(s)), Tail(s)[i] \in U
               PROVE  \E j, k \in 1 .. Len(Tail(s)) :
                         i < j /\ j < k /\ Tail(s)[j] \in B /\ Tail(s)[k] \in A
    BY DEF Chain
  <2>1. i + 1 \in 1 .. Len(s) /\ s[i + 1] \in U /\ (i + 1) - 1 = i
    BY TailFacts
  <2> QED BY <1>1, <2>1
<1>3. ASSUME Head(s) \in U PROVE Before(Tail(s), B, A)
  <2>1. 1 \in 1 .. Len(s) /\ s[1] \in U
    BY <1>3, TailFacts
  <2> QED BY <1>1, <2>1 DEF Before
<1> QED BY <1>2, <1>3

LEMMA EndsSome ==
    ASSUME NEW s, NEW C, NEW B, Ends(s, C, B), ~NoneIn(s, C)
    PROVE  ~NoneIn(s, B)
BY DEF Ends, NoneIn

LEMMA ConcatFacts ==
    ASSUME NEW S, NEW s \in Seq(S), NEW t \in Seq(S)
    PROVE  /\ s \o t \in Seq(S)
           /\ Len(s) \in Nat /\ Len(t) \in Nat
           /\ Len(s \o t) = Len(s) + Len(t)
           /\ \A i \in 1 .. Len(s \o t) : (s \o t)[i] = IF i <= Len(s) THEN s[i] ELSE t[i - Len(s)]
OBVIOUS

LEMMA HasAppend ==
    ASSUME NEW S, NEW s \in Seq(S), NEW x \in S, NEW e
    PROVE  Has(Append(s, x), e) <=> Has(s, e) \/ x = e
<1>1. ASSUME Has(s, e) \/ x = e PROVE Has(Append(s, x), e)
  <2>1. Len(s) + 1 \in 1 .. Len(Append(s, x)) /\ \A i \in 1 .. Len(s) : i \in 1 .. Len(Append(s, x))
    BY AppendFacts
  <2> QED BY <1>1, <2>1, AppendFacts DEF Has
<1>2. ASSUME Has(Append(s, x), e), x # e PROVE Has(s, e)
  <2>1. PICK i \in 1 .. Len(Append(s, x)) : Append(s, x)[i] = e
    BY <1>2 DEF Has
  <2>2. i # Len(s) + 1
    BY <1>2, <2>1, AppendFacts
  <2>3. i \in 1 .. Len(s)
    BY <2>2, AppendFacts
  <2> QED BY <2>1, <2>3, AppendFacts DEF Has
<1> QED BY <1>1, <1>2

LEMMA HasTail ==
    ASSUME NEW S, NEW s \in Seq(S), NEW e, s # <<>>
    PROVE  Has(s, e) <=> Has(Tail(s), e) \/ Head(s) = e
<1>1. ASSUME Has(s, e), Head(s) # e PROVE Has(Tail(s), e)
  <2>1. PICK i \in 1 .. Len(s) : s[i] = e
    BY <1>1 DEF Has
  <2>2. i # 1
    BY <1>1, <2>1, TailFacts
  <2>3. i - 1 \in 1 .. Len(Tail(s)) /\ Tail(s)[i - 1] = s[i]
    BY <2>2, TailFacts
  <2> QED BY <2>1, <2>3 DEF Has
<1>2. ASSUME Has(Tail(s), e) PROVE Has(s, e)
  <2>1. PICK i \in 1 .. Len(Tail(s)) : Tail(s)[i] = e
    BY <1>2 DEF Has
  <2>2. i + 1 \in 1 .. Len(s) /\ s[i + 1] = e
    BY <2>1, TailFacts
  <2> QED BY <2>2 DEF Has
<1>3. ASSUME Head(s) = e PROVE Has(s, e)
  <2>1. 1 \in 1 .. Len(s)
    BY TailFacts
  <2> QED BY <1>3, <2>1, TailFacts DEF Has
<1> QED BY <1>1, <1>2, <1>3

\* What is pending in s is pending after more is posted.
LEMMA HasConcat ==
    ASSUME NEW S, NEW s \in Seq(S), NEW t \in Seq(S), NEW e
    PROVE  /\ s \o t \in Seq(S)
           /\ Has(s \o t, e) <=> Has(s, e) \/ Has(t, e)
<1>1. /\ s \o t \in Seq(S)
      /\ Len(s) \in Nat /\ Len(t) \in Nat
      /\ Len(s \o t) = Len(s) + Len(t)
      /\ \A i \in 1 .. Len(s \o t) : (s \o t)[i] = IF i <= Len(s) THEN s[i] ELSE t[i - Len(s)]
  BY ConcatFacts
<1>2. ASSUME Has(s, e) PROVE Has(s \o t, e)
  <2>1. PICK i \in 1 .. Len(s) : s[i] = e
    BY <1>2 DEF Has
  <2>2. i \in 1 .. Len(s \o t) /\ (s \o t)[i] = e
    BY <1>1, <2>1
  <2> QED BY <2>2 DEF Has
<1>3. ASSUME Has(t, e) PROVE Has(s \o t, e)
  <2>1. PICK i \in 1 .. Len(t) : t[i] = e
    BY <1>3 DEF Has
  <2>2. i + Len(s) \in 1 .. Len(s \o t) /\ (s \o t)[i + Len(s)] = e
    BY <1>1, <2>1
  <2> QED BY <2>2 DEF Has
<1>4. ASSUME Has(s \o t, e) PROVE Has(s, e) \/ Has(t, e)
  <2>1. PICK i \in 1 .. Len(s \o t) : (s \o t)[i] = e
    BY <1>4 DEF Has
  <2>2. CASE i <= Len(s)
    <3>1. i \in 1 .. Len(s) /\ s[i] = e
      BY <1>1, <2>1, <2>2
    <3> QED BY <3>1 DEF Has
  <2>3. CASE ~(i <= Len(s))
    <3>1. i - Len(s) \in 1 .. Len(t) /\ t[i - Len(s)] = e
      BY <1>1, <2>1, <2>3
    <3> QED BY <3>1 DEF Has
  <2> QED BY <2>2, <2>3
<1> QED BY <1>1, <1>2, <1>3, <1>4

LEMMA CoveredConcat ==
    ASSUME NEW S, NEW s \in Seq(S), NEW t \in Seq(S), NEW a, NEW d,
           Covered(s, a, d), ~Has(t, a)
    PROVE  Covered(s \o t, a, d)
<1> SUFFICES ASSUME NEW i \in 1 .. Len(s \o t), (s \o t)[i] = a
             PROVE  \E j \in 1 .. Len(s \o t) : i < j /\ (s \o t)[j] = d
  BY DEF Covered
<1>1. /\ Len(s) \in Nat /\ Len(t) \in Nat
      /\ Len(s \o t) = Len(s) + Len(t)
      /\ \A k \in 1 .. Len(s \o t) : (s \o t)[k] = IF k <= Len(s) THEN s[k] ELSE t[k - Len(s)]
  BY ConcatFacts
<1>2. CASE i <= Len(s)
  <2>1. i \in 1 .. Len(s) /\ s[i] = a
    BY <1>1, <1>2
  <2>2. PICK j \in 1 .. Len(s) : i < j /\ s[j] = d
    BY <2>1 DEF Covered
  <2>3. j \in 1 .. Len(s \o t) /\ (s \o t)[j] = d
    BY <1>1, <2>2
  <2> QED BY <2>2, <2>3
<1>3. CASE ~(i <= Len(s))
  <2>1. i - Len(s) \in 1 .. Len(t) /\ t[i - Len(s)] = a
    BY <1>1, <1>3
  <2> QED BY <2>1 DEF Has
<1> QED BY <1>2, <1>3

\* An event d is posted after all of a.
LEMMA CoveredAppend ==
    ASSUME NEW S, NEW s \in Seq(S), NEW a, NEW d \in S, a # d
    PROVE  Covered(Append(s, d), a, d)
<1> SUFFICES ASSUME NEW i \in 1 .. Len(Append(s, d)), Append(s, d)[i] = a
             PROVE  \E j \in 1 .. Len(Append(s, d)) : i < j /\ Append(s, d)[j] = d
  BY DEF Covered
<1>1. i # Len(s) + 1
  BY AppendFacts
<1>2. i < Len(s) + 1 /\ Len(s) + 1 \in 1 .. Len(Append(s, d))
  BY <1>1, AppendFacts
<1> QED BY <1>2, AppendFacts

LEMMA CoveredTail ==
    ASSUME NEW S, NEW s \in Seq(S), s # <<>>, NEW a, NEW d, Covered(s, a, d)
    PROVE  /\ Covered(Tail(s), a, d)
           /\ Head(s) = a => Has(Tail(s), d)
<1>1. ASSUME NEW i \in 1 .. Len(s), s[i] = a
      PROVE  \E j \in 1 .. Len(Tail(s)) : i - 1 < j /\ Tail(s)[j] = d
  <2>1. PICK j \in 1 .. Len(s) : i < j /\ s[j] = d
    BY <1>1 DEF Covered
  <2>2. j - 1 \in 1 .. Len(Tail(s)) /\ Tail(s)[j - 1] = s[j] /\ i - 1 < j - 1
    BY <2>1, TailFacts
  <2> QED BY <2>1, <2>2
<1>2. Covered(Tail(s), a, d)
  <2> SUFFICES ASSUME NEW i \in 1 .. Len(Tail(s)), Tail(s)[i] = a
               PROVE  \E j \in 1 .. Len(Tail(s)) : i < j /\ Tail(s)[j] = d
    BY DEF Covered
  <2>1. i + 1 \in 1 .. Len(s) /\ s[i + 1] = a /\ (i + 1) - 1 = i
    BY TailFacts
  <2> QED BY <1>1, <2>1
<1>3. ASSUME Head(s) = a PROVE Has(Tail(s), d)
  <2>1. 1 \in 1 .. Len(s) /\ s[1] = a
    BY <1>3, TailFacts
  <2> QED BY <1>1, <2>1 DEF Has
<1> QED BY <1>2, <1>3

\* An event other than a is posted.
LEMMA CoveredAppendOther ==
    ASSUME NEW S, NEW s \in Seq(S), NEW x \in S, NEW a, NEW d, x # a, Covered(s, a, d)
    PROVE  Covered(Append(s, x), a, d)
<1> SUFFICES ASSUME NEW i \in 1 .. Len(Append(s, x)), Append(s, x)[i] = a
             PROVE  \E j \in 1 .. Len(Append(s, x)) : i < j /\ Append(s, x)[j] = d
  BY DEF Covered
<1>1. i \in 1 .. Len(s) /\ s[i] = a
  BY AppendFacts
<1>2. PICK j \in 1 .. Len(s) : i < j /\ s[j] = d
  BY <1>1 DEF Covered
<1>3. j \in 1 .. Len(Append(s, x)) /\ Append(s, x)[j] = d
  BY <1>2, AppendFacts
<1> QED BY <1>2, <1>3
=============================================================================
