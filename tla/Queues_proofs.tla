--------------------------- MODULE Queues_proofs ---------------------------
(* What the queue operations preserve, for the proofs of the components.   *)
EXTENDS Integers, Sequences, Queues, SequenceTheorems, TLAPS

\* The elements of a queue are elements of its type.
LEMMA ElemsType ==
  ASSUME NEW S, NEW s \in Seq(S)
  PROVE  Elems(s) \subseteq S
BY ElementOfSeq DEF Elems

LEMMA ElemsEmpty == Elems(<< >>) = {} /\ NoRepeat(<< >>)
BY DEF Elems, NoRepeat

\* TAILQ_INSERT_TAIL adds the entry to the elements; of a new entry it makes no
\* duplicate.
LEMMA AppendFacts ==
  ASSUME NEW S, NEW s \in Seq(S), NEW x \in S
  PROVE  /\ Append(s, x) \in Seq(S)
         /\ Elems(Append(s, x)) = Elems(s) \cup {x}
         /\ NoRepeat(s) /\ x \notin Elems(s) => NoRepeat(Append(s, x))
<1>1. /\ Append(s, x) \in Seq(S)
      /\ Len(Append(s, x)) = Len(s) + 1
      /\ \A i \in 1..Len(s) : Append(s, x)[i] = s[i]
      /\ Append(s, x)[Len(s) + 1] = x
  BY AppendProperties
<1>2. Elems(Append(s, x)) = Elems(s) \cup {x}
  <2>1. Elems(Append(s, x)) \subseteq Elems(s) \cup {x}
    BY <1>1 DEF Elems
  <2>2. Elems(s) \subseteq Elems(Append(s, x))
    BY <1>1 DEF Elems
  <2>3. x \in Elems(Append(s, x))
    BY <1>1, LenProperties DEF Elems
  <2>4. QED
    BY <2>1, <2>2, <2>3
<1>3. NoRepeat(s) /\ x \notin Elems(s) => NoRepeat(Append(s, x))
  BY <1>1, LenProperties DEF NoRepeat, Elems
<1>4. QED
  BY <1>1, <1>2, <1>3

\* Removing the head of a queue without duplicates takes that entry out of the
\* elements and nothing else.
LEMMA TailFacts ==
  ASSUME NEW S, NEW s \in Seq(S), s # << >>, NoRepeat(s)
  PROVE  /\ Head(s) \in S /\ Tail(s) \in Seq(S)
         /\ Head(s) \in Elems(s)
         /\ Elems(Tail(s)) = Elems(s) \ {Head(s)}
         /\ NoRepeat(Tail(s))
<1>1. /\ Head(s) \in S /\ Tail(s) \in Seq(S)
      /\ Len(Tail(s)) = Len(s) - 1
      /\ \A i \in 1..Len(Tail(s)) : Tail(s)[i] = s[i + 1]
  BY HeadTailProperties
<1>2. Len(s) \in Nat \ {0} /\ Head(s) = s[1]
  BY EmptySeq
<1>3. Head(s) \in Elems(s)
  BY <1>2 DEF Elems
<1>4. NoRepeat(Tail(s))
  BY <1>1, <1>2 DEF NoRepeat
<1>5. Elems(Tail(s)) \subseteq Elems(s) \ {Head(s)}
  BY <1>1, <1>2 DEF NoRepeat, Elems
<1>6. Elems(s) \ {Head(s)} \subseteq Elems(Tail(s))
  <2> SUFFICES ASSUME NEW i \in 1..Len(s), s[i] # Head(s)
               PROVE  s[i] \in Elems(Tail(s))
    BY DEF Elems
  <2>1. i - 1 \in 1..Len(Tail(s)) /\ Tail(s)[i - 1] = s[i]
    BY <1>1, <1>2
  <2>2. QED
    BY <2>1 DEF Elems
<1>7. QED
  BY <1>1, <1>3, <1>4, <1>5, <1>6

\* LIST_INSERT_HEAD
LEMMA PushFacts ==
  ASSUME NEW S, NEW s \in Seq(S), NEW x \in S
  PROVE  /\ <<x>> \o s \in Seq(S)
         /\ Elems(<<x>> \o s) = Elems(s) \cup {x}
         /\ NoRepeat(s) /\ x \notin Elems(s) => NoRepeat(<<x>> \o s)
<1> DEFINE t == <<x>> \o s
<1>1. <<x>> \in Seq(S) /\ Len(<<x>>) = 1 /\ <<x>>[1] = x
  OBVIOUS
<1>2. /\ t \in Seq(S)
      /\ Len(t) = 1 + Len(s)
      /\ \A i \in 1..(1 + Len(s)) : t[i] = IF i <= 1 THEN x ELSE s[i - 1]
  BY <1>1, ConcatProperties
<1>3. Len(s) \in Nat
  BY LenProperties
<1> HIDE DEF t
<1>4. Elems(t) \subseteq Elems(s) \cup {x}
  <2> SUFFICES ASSUME NEW i \in 1..Len(t), t[i] # x
               PROVE  t[i] \in Elems(s)
    BY DEF Elems
  <2>1. i - 1 \in 1..Len(s) /\ t[i] = s[i - 1]
    BY <1>2, <1>3
  <2>2. QED
    BY <2>1 DEF Elems
<1>5. Elems(s) \cup {x} \subseteq Elems(t)
  <2>1. x \in Elems(t)
    <3>1. 1 \in 1..Len(t) /\ t[1] = x
      BY <1>2, <1>3
    <3>2. QED
      BY <3>1 DEF Elems
  <2>2. ASSUME NEW i \in 1..Len(s) PROVE s[i] \in Elems(t)
    <3>1. i + 1 \in 1..Len(t) /\ t[i + 1] = s[i]
      BY <1>2, <1>3
    <3>2. QED
      BY <3>1 DEF Elems
  <2>3. QED
    BY <2>1, <2>2 DEF Elems
<1>6. NoRepeat(s) /\ x \notin Elems(s) => NoRepeat(t)
  <2> SUFFICES ASSUME NoRepeat(s), x \notin Elems(s),
                      NEW i \in 1..Len(t), NEW j \in 1..Len(t), t[i] = t[j]
               PROVE  i = j
    BY DEF NoRepeat
  <2>1. CASE i = 1 \/ j = 1
    BY <2>1, <1>2, <1>3 DEF Elems
  <2>2. CASE i # 1 /\ j # 1
    BY <2>2, <1>2, <1>3 DEF NoRepeat
  <2>3. QED
    BY <2>1, <2>2
<1>7. QED
  BY <1>2, <1>4, <1>5, <1>6 DEF t

\* LIST_REMOVE and TAILQ_REMOVE take out the i-th entry and nothing else.
LEMMA RemoveFacts ==
  ASSUME NEW S, NEW s \in Seq(S), NEW i \in 1..Len(s)
  PROVE  /\ WithoutAt(s, i) \in Seq(S)
         /\ NoRepeat(s) => /\ Elems(WithoutAt(s, i)) = Elems(s) \ {s[i]}
                           /\ NoRepeat(WithoutAt(s, i))
<1> DEFINE t == WithoutAt(s, i)
<1>1. Len(s) \in Nat \ {0}
  BY LenProperties
<1>2. \A j \in 1..(Len(s) - 1) : (IF j < i THEN j ELSE j + 1) \in 1..Len(s)
  BY <1>1
<1>3. t \in [1..(Len(s) - 1) -> S]
  BY <1>2, ElementOfSeq DEF WithoutAt
<1>4. Len(s) - 1 \in Nat
  BY <1>1
<1>5. t \in Seq(S) /\ Len(t) = Len(s) - 1
  BY <1>3, <1>4
<1>6. \A j \in 1..(Len(s) - 1) : t[j] = s[IF j < i THEN j ELSE j + 1]
  BY DEF WithoutAt
<1> HIDE DEF t
<1>7. ASSUME NoRepeat(s) PROVE NoRepeat(t)
  <2> SUFFICES ASSUME NEW j \in 1..Len(t), NEW k \in 1..Len(t), t[j] = t[k]
               PROVE  j = k
    BY DEF NoRepeat
  <2>1. (IF j < i THEN j ELSE j + 1) = (IF k < i THEN k ELSE k + 1)
    BY <1>2, <1>5, <1>6, <1>7, SMTT(30) DEF NoRepeat
  <2>2. QED
    BY <2>1, <1>1, <1>5
<1>8. ASSUME NoRepeat(s) PROVE Elems(t) \subseteq Elems(s) \ {s[i]}
  <2> SUFFICES ASSUME NEW j \in 1..Len(t)
               PROVE  t[j] \in Elems(s) \ {s[i]}
    BY DEF Elems
  <2> DEFINE k == IF j < i THEN j ELSE j + 1
  <2>1. k \in 1..Len(s) /\ k # i /\ t[j] = s[k]
    BY <1>1, <1>2, <1>5, <1>6
  <2>2. QED
    BY <2>1, <1>8 DEF Elems, NoRepeat
<1>9. Elems(s) \ {s[i]} \subseteq Elems(t)
  <2> SUFFICES ASSUME NEW k \in 1..Len(s), s[k] # s[i]
               PROVE  s[k] \in Elems(t)
    BY DEF Elems
  <2>1. k # i
    OBVIOUS
  <2>2. CASE k < i
    <3>1. k \in 1..Len(t) /\ t[k] = s[k]
      BY <2>2, <1>1, <1>5, <1>6
    <3>2. QED
      BY <3>1 DEF Elems
  <2>3. CASE k > i
    <3>1. k - 1 \in 1..Len(t) /\ t[k - 1] = s[(k - 1) + 1]
      BY <2>3, <1>1, <1>5, <1>6
    <3>2. QED
      BY <3>1, <1>1 DEF Elems
  <2>4. QED
    BY <2>1, <2>2, <2>3, <1>1
<1>10. QED
  BY <1>5, <1>7, <1>8, <1>9 DEF t

\* LIST_FIRST and LIST_NEXT return an entry of the list or nil.
LEMMA NextFacts ==
  ASSUME NEW S, NEW s \in Seq(S), NEW x, NEW nil
  PROVE  /\ FirstOf(s, nil) \in Elems(s) \cup {nil}
         /\ NextOf(s, x, nil) \in Elems(s) \cup {nil}
<1>1. FirstOf(s, nil) \in Elems(s) \cup {nil}
  <2>1. CASE s = << >>
    BY <2>1 DEF FirstOf
  <2>2. CASE s # << >>
    <3>1. 1 \in 1..Len(s)
      BY <2>2, EmptySeq
    <3>2. QED
      BY <3>1, <2>2 DEF FirstOf, Elems
  <2>3. QED
    BY <2>1, <2>2
<1>2. NextOf(s, x, nil) \in Elems(s) \cup {nil}
  <2>1. CASE \E i \in 1..(Len(s) - 1) : s[i] = x
    <3> DEFINE k == CHOOSE i \in 1..(Len(s) - 1) : s[i] = x
    <3>1. k \in 1..(Len(s) - 1)
      BY <2>1
    <3>2. 1 + k \in 1..Len(s)
      BY <3>1, LenProperties
    <3>3. NextOf(s, x, nil) = s[1 + k]
      BY <2>1 DEF NextOf
    <3> HIDE DEF k
    <3>4. QED
      BY <3>2, <3>3 DEF Elems
  <2>2. CASE ~\E i \in 1..(Len(s) - 1) : s[i] = x
    BY <2>2 DEF NextOf
  <2>3. QED
    BY <2>1, <2>2
<1>3. QED
  BY <1>1, <1>2

\* LIST_NEXT of an element of a list without duplicates is what follows it.
LEMMA NextOfIs ==
  ASSUME NEW S, NEW s \in Seq(S), NoRepeat(s), NEW i \in 1..Len(s), NEW nil
  PROVE  NextOf(s, s[i], nil) = IF i < Len(s) THEN s[i + 1] ELSE nil
<1>0. Len(s) \in Nat
  BY LenProperties
<1>1. CASE i < Len(s)
  <2>1. i \in 1..(Len(s) - 1)
    BY <1>0, <1>1
  <2> DEFINE n == CHOOSE k \in 1..(Len(s) - 1) : s[k] = s[i]
  <2>2. n \in 1..(Len(s) - 1) /\ s[n] = s[i]
    BY <2>1
  <2>3. NextOf(s, s[i], nil) = s[1 + n]
    BY <2>1 DEF NextOf
  <2> HIDE DEF n
  <2>4. n = i
    BY <1>0, <2>2 DEF NoRepeat
  <2>5. QED
    BY <1>0, <1>1, <2>3, <2>4
<1>2. CASE ~(i < Len(s))
  <2>1. \A k \in 1..(Len(s) - 1) : s[k] # s[i]
    BY <1>0, <1>2 DEF NoRepeat
  <2>2. QED
    BY <1>2, <2>1 DEF NextOf
<1>3. QED
  BY <1>1, <1>2

\* After a removal what came later is one place further to the front.
LEMMA RemovedPlaces ==
  ASSUME NEW S, NEW s \in Seq(S), NEW i \in 1..Len(s)
  PROVE  /\ Len(WithoutAt(s, i)) = Len(s) - 1
         /\ \A j \in 1..(Len(s) - 1) : WithoutAt(s, i)[j] = s[IF j < i THEN j ELSE j + 1]
<1>1. Len(s) \in Nat \ {0}
  BY LenProperties
<1>2. WithoutAt(s, i) \in Seq(S)
  BY RemoveFacts
<1>3. DOMAIN WithoutAt(s, i) = 1..(Len(s) - 1) /\ DOMAIN WithoutAt(s, i) = 1..Len(WithoutAt(s, i))
  BY <1>2, LenProperties DEF WithoutAt
<1>4. Len(WithoutAt(s, i)) = Len(s) - 1
  BY <1>1, <1>2, <1>3, LenProperties
<1>5. QED
  BY <1>4 DEF WithoutAt

\* The places of the elements of a queue after TAILQ_INSERT_TAIL and after the head was
\* taken.
LEMMA AppendPlaces ==
  ASSUME NEW S, NEW s \in Seq(S), NEW x \in S
  PROVE  /\ Append(s, x) \in Seq(S)
         /\ Len(s) \in Nat /\ Len(Append(s, x)) = Len(s) + 1
         /\ \A i \in 1..Len(s) : Append(s, x)[i] = s[i]
         /\ Append(s, x)[Len(s) + 1] = x
BY AppendProperties, LenProperties

LEMMA TailPlaces ==
  ASSUME NEW S, NEW s \in Seq(S), s # << >>
  PROVE  /\ Tail(s) \in Seq(S)
         /\ Len(s) \in Nat \ {0} /\ Len(Tail(s)) = Len(s) - 1
         /\ Head(s) = s[1] /\ Head(s) \in S /\ Head(s) \in Elems(s)
         /\ \A i \in 1..(Len(s) - 1) : Tail(s)[i] = s[i + 1]
         /\ Elems(s) = Elems(Tail(s)) \cup {Head(s)}
<1>1. /\ Tail(s) \in Seq(S) /\ Len(Tail(s)) = Len(s) - 1 /\ Head(s) \in S
      /\ \A i \in 1..Len(Tail(s)) : Tail(s)[i] = s[i + 1]
  BY HeadTailProperties
<1>2. Len(s) \in Nat \ {0} /\ Head(s) = s[1]
  BY EmptySeq, LenProperties
<1>3. Head(s) \in Elems(s)
  BY <1>2 DEF Elems
<1>4. Elems(Tail(s)) \subseteq Elems(s)
  <2> SUFFICES ASSUME NEW i \in 1..Len(Tail(s)) PROVE Tail(s)[i] \in Elems(s)
    BY DEF Elems
  <2>1. i + 1 \in 1..Len(s) /\ Tail(s)[i] = s[i + 1]
    BY <1>1, <1>2
  <2>2. QED
    BY <2>1 DEF Elems
<1>5. ASSUME NEW i \in 1..Len(s) PROVE s[i] \in Elems(Tail(s)) \cup {Head(s)}
  <2>1. CASE i = 1
    BY <1>2, <2>1
  <2>2. CASE i # 1
    <3>1. i - 1 \in 1..Len(Tail(s)) /\ Tail(s)[i - 1] = s[(i - 1) + 1]
      BY <1>1, <1>2, <2>2
    <3>2. s[i] = Tail(s)[i - 1]
      BY <3>1, <1>2
    <3>3. QED
      BY <3>1, <3>2 DEF Elems
  <2>3. QED
    BY <2>1, <2>2
<1>6. Elems(s) \subseteq Elems(Tail(s)) \cup {Head(s)}
  BY <1>5 DEF Elems
<1>7. QED
  BY <1>1, <1>2, <1>3, <1>4, <1>6

\* TAILQ_REMOVE takes out the one entry it is given, or nothing.
LEMMA WithoutFacts ==
  ASSUME NEW S, NEW s \in Seq(S), NoRepeat(s), NEW x
  PROVE  /\ Without(s, x) \in Seq(S) /\ NoRepeat(Without(s, x))
         /\ Elems(Without(s, x)) = Elems(s) \ {x}
<1>1. CASE x \in Elems(s)
  <2> DEFINE n == CHOOSE i \in 1..Len(s) : s[i] = x
  <2>1. n \in 1..Len(s) /\ s[n] = x
    BY <1>1 DEF Elems
  <2>2. Without(s, x) = WithoutAt(s, n)
    BY <1>1 DEF Without
  <2> HIDE DEF n
  <2>3. QED
    BY <2>1, <2>2, RemoveFacts
<1>2. CASE x \notin Elems(s)
  BY <1>2 DEF Without
<1>3. QED
  BY <1>1, <1>2

=============================================================================
