---------------------------- MODULE SequenceLemmas ----------------------------
(***************************************************************************)
(* Lemmas about the sequences the models keep: which elements an operation *)
(* leaves in a sequence, and that none of them is there twice.             *)
(***************************************************************************)
EXTENDS Integers, SequencesExt, SequenceTheorems, FiniteSetTheorems, WellFoundedInduction, TLAPS

\* A set of numbers has a least one.
LEMMA LeastNatural ==
  ASSUME NEW S \in SUBSET Nat, S # {}
  PROVE  \E n \in S : \A m \in S : n <= m
<1> DEFINE R == OpToRel(<, Nat)
<1>1. PICK n \in S : \A m \in S : <<m, n>> \notin R
  <2> HIDE DEF R
  <2>1. IsWellFoundedOn(R, Nat)
    BY NatLessThanWellFounded DEF R
  <2> QED BY <2>1, WFMin
<1>2. ASSUME NEW m \in S, m < n PROVE FALSE
  BY <1>1, <1>2 DEF OpToRel
<1> QED BY <1>2

\* A sequence of members of S: what it holds, and where.
LEMMA Elements ==
  ASSUME NEW S, NEW s \in Seq(S)
  PROVE  ToSet(s) = {s[i] : i \in 1 .. Len(s)} /\ ToSet(s) \subseteq S /\ DOMAIN s = 1 .. Len(s) /\ Len(s) \in Nat
BY LenProperties, ElementOfSeq DEF ToSet

\* What a sequence holds when an element comes at the end, once if it was not there.
LEMMA AppendElements ==
  ASSUME NEW S, NEW s \in Seq(S), NEW x \in S
  PROVE  /\ ToSet(Append(s, x)) = ToSet(s) \cup {x}
         /\ IsInjective(s) /\ x \notin ToSet(s) => IsInjective(Append(s, x))
<1> DEFINE t == Append(s, x)
<1>1. /\ t \in Seq(S) /\ Len(t) = Len(s) + 1 /\ Len(s) \in Nat
      /\ (\A i \in 1 .. Len(s) : t[i] = s[i]) /\ t[Len(s) + 1] = x
      /\ DOMAIN t = 1 .. Len(s) + 1 /\ DOMAIN s = 1 .. Len(s)
  BY AppendProperties, LenProperties
<1> HIDE DEF t
<1>2. ToSet(t) = ToSet(s) \cup {x}
  <2>1. ASSUME NEW i \in 1 .. Len(s) + 1 PROVE t[i] \in ToSet(s) \cup {x}
    BY <1>1, <2>1 DEF ToSet
  <2>2. ASSUME NEW i \in 1 .. Len(s) PROVE s[i] \in ToSet(t)
    BY <1>1, <2>2 DEF ToSet
  <2>3. x \in ToSet(t)
    BY <1>1 DEF ToSet
  <2> QED BY <1>1, <2>1, <2>2, <2>3 DEF ToSet
<1>3. ASSUME IsInjective(s), x \notin ToSet(s) PROVE IsInjective(t)
  BY <1>1, <1>3 DEF IsInjective, ToSet
<1> QED BY <1>2, <1>3 DEF t

\* What a queue holds when its first element is taken.
LEMMA TailElements ==
  ASSUME NEW S, NEW s \in Seq(S), s # <<>>
  PROVE  /\ Head(s) \in S /\ Tail(s) \in Seq(S) /\ Len(Tail(s)) = Len(s) - 1
         /\ ToSet(s) = ToSet(Tail(s)) \cup {Head(s)}
         /\ IsInjective(s) => IsInjective(Tail(s)) /\ Head(s) \notin ToSet(Tail(s))
<1>1. /\ Head(s) \in S /\ Tail(s) \in Seq(S) /\ Len(Tail(s)) = Len(s) - 1 /\ Len(s) \in Nat \ {0}
      /\ Head(s) = s[1] /\ (\A i \in 1 .. Len(s) - 1 : Tail(s)[i] = s[i + 1])
      /\ DOMAIN s = 1 .. Len(s) /\ DOMAIN Tail(s) = 1 .. Len(s) - 1
  <2>1. Head(s) \in S /\ Tail(s) \in Seq(S) /\ Len(s) \in Nat \ {0}
    BY HeadTailProperties, EmptySeq
  <2>2. Len(Tail(s)) = Len(s) - 1 /\ Head(s) = s[1] /\ (\A i \in 1 .. Len(s) - 1 : Tail(s)[i] = s[i + 1])
    BY HeadTailProperties, LenProperties, <2>1
  <2> QED BY <2>1, <2>2, LenProperties
<1> DEFINE h == Head(s) t == Tail(s)
<1> HIDE DEF h, t
<1>2. ToSet(s) = ToSet(t) \cup {h}
  <2>1. ASSUME NEW i \in 1 .. Len(s) PROVE s[i] \in ToSet(t) \cup {h}
    <3>1. CASE i = 1
      BY <1>1, <3>1 DEF h
    <3>2. CASE i # 1
      <4>1. i - 1 \in 1 .. Len(s) - 1 /\ s[i] = t[i - 1]
        BY <1>1, <2>1, <3>2 DEF t
      <4> QED BY <1>1, <4>1 DEF ToSet, t
    <3> QED BY <3>1, <3>2
  <2>2. ASSUME NEW i \in 1 .. Len(s) - 1 PROVE t[i] \in ToSet(s)
    BY <1>1, <2>2 DEF ToSet, t
  <2>3. h \in ToSet(s)
    BY <1>1 DEF ToSet, h
  <2> QED BY <1>1, <2>1, <2>2, <2>3 DEF ToSet, t
<1>3. ASSUME IsInjective(s) PROVE IsInjective(t) /\ h \notin ToSet(t)
  <2>1. IsInjective(t)
    BY <1>1, <1>3 DEF IsInjective, t
  <2>2. ASSUME NEW i \in 1 .. Len(s) - 1, t[i] = h PROVE FALSE
    BY <1>1, <1>3, <2>2 DEF IsInjective, t, h
  <2> QED BY <1>1, <2>1, <2>2 DEF ToSet, t
<1> QED BY <1>1, <1>2, <1>3 DEF h, t

\* Two sequences in a row hold what each holds, once if they have nothing in common.
LEMMA ConcatElements ==
  ASSUME NEW S, NEW s \in Seq(S), NEW t \in Seq(S)
  PROVE  /\ s \o t \in Seq(S)
         /\ ToSet(s \o t) = ToSet(s) \cup ToSet(t)
         /\ IsInjective(s) /\ IsInjective(t) /\ ToSet(s) \cap ToSet(t) = {} => IsInjective(s \o t)
<1> DEFINE u == s \o t
<1>1. /\ u \in Seq(S) /\ Len(u) = Len(s) + Len(t) /\ Len(s) \in Nat /\ Len(t) \in Nat
      /\ DOMAIN u = 1 .. Len(s) + Len(t) /\ DOMAIN s = 1 .. Len(s) /\ DOMAIN t = 1 .. Len(t)
      /\ (\A i \in 1 .. Len(s) + Len(t) : u[i] = IF i <= Len(s) THEN s[i] ELSE t[i - Len(s)])
  BY ConcatProperties, LenProperties
<1> HIDE DEF u
<1>2. ToSet(u) = ToSet(s) \cup ToSet(t)
  <2>1. ASSUME NEW i \in 1 .. Len(s) + Len(t) PROVE u[i] \in ToSet(s) \cup ToSet(t)
    <3>1. CASE i <= Len(s)
      BY <1>1, <2>1, <3>1 DEF ToSet
    <3>2. CASE ~(i <= Len(s))
      <4>1. i - Len(s) \in 1 .. Len(t) /\ u[i] = t[i - Len(s)]
        BY <1>1, <2>1, <3>2
      <4> QED BY <1>1, <4>1 DEF ToSet
    <3> QED BY <3>1, <3>2
  <2>2. ASSUME NEW i \in 1 .. Len(s) PROVE s[i] \in ToSet(u)
    <3>1. i \in 1 .. Len(s) + Len(t) /\ u[i] = s[i]
      BY <1>1, <2>2
    <3> QED BY <1>1, <3>1 DEF ToSet
  <2>3. ASSUME NEW i \in 1 .. Len(t) PROVE t[i] \in ToSet(u)
    <3>1. Len(s) + i \in 1 .. Len(s) + Len(t) /\ u[Len(s) + i] = t[i]
      <4>1. Len(s) + i \in 1 .. Len(s) + Len(t) /\ ~(Len(s) + i <= Len(s)) /\ Len(s) + i - Len(s) = i
        BY <1>1, <2>3
      <4> QED BY <1>1, <4>1
    <3> QED BY <1>1, <3>1 DEF ToSet
  <2> QED BY <1>1, <2>1, <2>2, <2>3 DEF ToSet
<1>3. ASSUME IsInjective(s), IsInjective(t), ToSet(s) \cap ToSet(t) = {} PROVE IsInjective(u)
  <2>1. ASSUME NEW i \in 1 .. Len(s) + Len(t), NEW j \in 1 .. Len(s) + Len(t), u[i] = u[j], i <= Len(s), ~(j <= Len(s))
        PROVE  FALSE
    <3>1. u[i] \in ToSet(s)
      BY <1>1, <2>1 DEF ToSet
    <3>2. j - Len(s) \in 1 .. Len(t) /\ u[j] = t[j - Len(s)]
      BY <1>1, <2>1
    <3>3. u[j] \in ToSet(t)
      BY <1>1, <3>2 DEF ToSet
    <3> QED BY <1>3, <2>1, <3>1, <3>3
  <2>2. ASSUME NEW i \in 1 .. Len(s) + Len(t), NEW j \in 1 .. Len(s) + Len(t), u[i] = u[j], ~(i <= Len(s)), ~(j <= Len(s))
        PROVE  i = j
    <3>1. i - Len(s) \in 1 .. Len(t) /\ j - Len(s) \in 1 .. Len(t) /\ t[i - Len(s)] = t[j - Len(s)]
      BY <1>1, <2>2
    <3>2. i - Len(s) = j - Len(s)
      BY <1>1, <1>3, <3>1 DEF IsInjective
    <3> QED BY <1>1, <3>2
  <2>3. ASSUME NEW i \in 1 .. Len(s) + Len(t), NEW j \in 1 .. Len(s) + Len(t), u[i] = u[j], i <= Len(s), j <= Len(s)
        PROVE  i = j
    BY <1>1, <1>3, <2>3 DEF IsInjective
  <2> QED BY <1>1, <2>1, <2>2, <2>3 DEF IsInjective
<1> QED BY <1>1, <1>2, <1>3 DEF u

\* A sequence without repetition is as long as the set of its elements is large.
LEMMA InjectiveCardinality ==
  ASSUME NEW S, NEW s \in Seq(S), IsInjective(s)
  PROVE  IsFiniteSet(ToSet(s)) /\ Cardinality(ToSet(s)) = Len(s)
<1>1. s \in [1 .. Len(s) -> ToSet(s)] /\ Len(s) \in Nat /\ DOMAIN s = 1 .. Len(s)
  BY LenProperties DEF ToSet
<1>2. s \in Bijection(1 .. Len(s), ToSet(s))
  BY <1>1 DEF Bijection, Injection, Surjection, ToSet, IsInjective
<1>3. IsFiniteSet(1 .. Len(s)) /\ Cardinality(1 .. Len(s)) = Len(s)
  <2>1. 1 \in Int /\ Len(s) \in Int
    BY <1>1
  <2>2. IsFiniteSet(1 .. Len(s)) /\ Cardinality(1 .. Len(s)) = (IF 1 > Len(s) THEN 0 ELSE Len(s) - 1 + 1)
    BY <2>1, FS_Interval
  <2> QED BY <1>1, <2>2
<1> QED BY <1>2, <1>3, FS_Bijection DEF ExistsBijection

-----------------------------------------------------------------------------
Increasing(s) == \A j, k \in DOMAIN s : j < k => s[j] < s[k]

\* An element above all others keeps the order when it comes at the end.
LEMMA IncreasingAppend ==
  ASSUME NEW S \in SUBSET Nat, NEW s \in Seq(S), NEW x \in S,
         Increasing(s), \A y \in ToSet(s) : y < x
  PROVE  Append(s, x) \in Seq(S) /\ Increasing(Append(s, x))
<1> DEFINE t == Append(s, x)
<1>1. /\ t \in Seq(S) /\ Len(s) \in Nat
      /\ (\A i \in 1 .. Len(s) : t[i] = s[i]) /\ t[Len(s) + 1] = x
      /\ DOMAIN t = 1 .. Len(s) + 1 /\ DOMAIN s = 1 .. Len(s)
  BY AppendProperties, LenProperties
<1> HIDE DEF t
<1>2. ASSUME NEW j \in 1 .. Len(s) + 1, NEW k \in 1 .. Len(s) + 1, j < k PROVE t[j] < t[k]
  <2>1. j \in 1 .. Len(s) /\ t[j] = s[j] /\ s[j] \in ToSet(s)
    BY <1>1, <1>2 DEF ToSet
  <2>2. CASE k = Len(s) + 1
    BY <1>1, <2>1, <2>2
  <2>3. CASE k # Len(s) + 1
    <3>1. k \in 1 .. Len(s) /\ t[k] = s[k]
      BY <1>1, <2>3
    <3> QED BY <1>1, <1>2, <2>1, <3>1 DEF Increasing
  <2> QED BY <2>2, <2>3
<1> QED BY <1>1, <1>2 DEF t, Increasing

\* The first element of an increasing sequence is below the others.
LEMMA IncreasingTail ==
  ASSUME NEW S \in SUBSET Nat, NEW s \in Seq(S), Increasing(s), s # <<>>
  PROVE  Increasing(Tail(s)) /\ \A y \in ToSet(Tail(s)) : Head(s) < y
<1>1. /\ Tail(s) \in Seq(S) /\ Len(s) \in Nat \ {0} /\ Head(s) = s[1]
      /\ (\A i \in 1 .. Len(s) - 1 : Tail(s)[i] = s[i + 1])
      /\ DOMAIN s = 1 .. Len(s) /\ DOMAIN Tail(s) = 1 .. Len(s) - 1
  <2>1. Head(s) \in S /\ Tail(s) \in Seq(S) /\ Len(s) \in Nat \ {0}
    BY HeadTailProperties, EmptySeq
  <2>2. Len(Tail(s)) = Len(s) - 1 /\ Head(s) = s[1] /\ (\A i \in 1 .. Len(s) - 1 : Tail(s)[i] = s[i + 1])
    BY HeadTailProperties, LenProperties, <2>1
  <2> QED BY <2>1, <2>2, LenProperties
<1> DEFINE h == Head(s) t == Tail(s)
<1> HIDE DEF h, t
<1>2. ASSUME NEW j \in 1 .. Len(s) - 1, NEW k \in 1 .. Len(s) - 1, j < k PROVE t[j] < t[k]
  <2>1. t[j] = s[j + 1] /\ t[k] = s[k + 1] /\ j + 1 \in 1 .. Len(s) /\ k + 1 \in 1 .. Len(s) /\ j + 1 < k + 1
    BY <1>1, <1>2 DEF t
  <2> QED BY <1>1, <2>1 DEF Increasing
<1>3. ASSUME NEW i \in 1 .. Len(s) - 1 PROVE h < t[i]
  <2>1. t[i] = s[i + 1] /\ i + 1 \in 1 .. Len(s) /\ 1 < i + 1 /\ 1 \in 1 .. Len(s) /\ h = s[1]
    BY <1>1 DEF t, h
  <2> QED BY <1>1, <2>1 DEF Increasing
<1> QED BY <1>1, <1>2, <1>3 DEF Increasing, ToSet, h, t

=============================================================================
