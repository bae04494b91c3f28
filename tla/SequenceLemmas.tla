---------------------------- MODULE SequenceLemmas --------------------------
(***************************************************************************)
(* Facts about sequences and their elements, and about sets of naturals,   *)
(* that the proofs of several components rest on.                          *)
(***************************************************************************)
EXTENDS Integers, SequencesExt, WellFoundedInduction, TLAPS

\* A sequence, whatever its elements are.
IsSequence(s) == s \in Seq(ToSet(s))

\* What takes and puts at the ends of a sequence do to its elements.
LEMMA NoItems == IsSequence(<<>>) /\ ToSet(<<>>) = {}
  BY DEF IsSequence, ToSet

\* A sequence of one element.
LEMMA OneItem ==
  ASSUME NEW e
  PROVE  IsSequence(<<e>>) /\ ToSet(<<e>>) = {e}
<1>1. ToSet(<<e>>) = {e}
  BY DEF ToSet
<1> QED BY <1>1 DEF IsSequence

\* Two sequences, one after the other.
LEMMA JoinedItems ==
  ASSUME NEW s, NEW t, IsSequence(s), IsSequence(t)
  PROVE  IsSequence(s \o t) /\ ToSet(s \o t) = ToSet(s) \cup ToSet(t)
<1> DEFINE S == ToSet(s) \cup ToSet(t)
<1>1. s \in Seq(S) /\ t \in Seq(S)
  BY DEF IsSequence
<1>2. /\ Len(s) \in Nat /\ Len(t) \in Nat
      /\ DOMAIN s = 1 .. Len(s) /\ DOMAIN t = 1 .. Len(t)
      /\ s \o t \in Seq(S)
      /\ Len(s \o t) = Len(s) + Len(t)
      /\ DOMAIN (s \o t) = 1 .. (Len(s) + Len(t))
      /\ \A i \in 1 .. (Len(s) + Len(t)) : (s \o t)[i] = IF i <= Len(s) THEN s[i] ELSE t[i - Len(s)]
  <2> HIDE DEF S
  <2> QED BY <1>1
<1>3. \A i \in DOMAIN (s \o t) : (s \o t)[i] \in S
  <2>1. ASSUME NEW i \in 1 .. (Len(s) + Len(t)) PROVE (s \o t)[i] \in S
    <3>1. CASE i <= Len(s)
      BY <1>2, <3>1 DEF ToSet
    <3>2. CASE ~(i <= Len(s))
      <4>1. i - Len(s) \in 1 .. Len(t)
        BY <1>2, <3>2
      <4> QED BY <1>2, <3>2, <4>1 DEF ToSet
    <3> QED BY <3>1, <3>2
  <2> QED BY <1>2, <2>1
<1>4. ASSUME NEW i \in DOMAIN s PROVE s[i] \in ToSet(s \o t)
  <2>1. i \in DOMAIN (s \o t) /\ (s \o t)[i] = s[i]
    BY <1>2
  <2> QED BY <2>1 DEF ToSet
<1>5. ASSUME NEW i \in DOMAIN t PROVE t[i] \in ToSet(s \o t)
  <2>1. Len(s) + i \in DOMAIN (s \o t) /\ (s \o t)[Len(s) + i] = t[i]
    BY <1>2
  <2> QED BY <2>1 DEF ToSet
<1>6. ToSet(s \o t) = S
  <2>1. ToSet(s \o t) \subseteq S
    BY <1>3 DEF ToSet
  <2>2. S \subseteq ToSet(s \o t)
    BY <1>4, <1>5 DEF ToSet
  <2> QED BY <2>1, <2>2
<1> QED BY <1>2, <1>6 DEF IsSequence

\* One more element, at the end.
LEMMA AppendedItem ==
  ASSUME NEW s, NEW e, IsSequence(s)
  PROVE  IsSequence(Append(s, e)) /\ ToSet(Append(s, e)) = ToSet(s) \cup {e}
<1>1. Append(s, e) = s \o <<e>>
  <2> DEFINE S == ToSet(s) \cup {e}
  <2>1. s \in Seq(S) /\ e \in S
    BY DEF IsSequence
  <2> HIDE DEF S
  <2> QED BY <2>1
<1> QED BY <1>1, OneItem, JoinedItems

\* The first element is taken.
LEMMA TakenItem ==
  ASSUME NEW s, IsSequence(s), s # <<>>
  PROVE  /\ Head(s) \in ToSet(s)
         /\ IsSequence(Tail(s)) /\ ToSet(Tail(s)) \subseteq ToSet(s)
<1> DEFINE S == ToSet(s)
<1>1. s \in Seq(S)
  BY DEF IsSequence
<1>2. /\ Head(s) \in S /\ Tail(s) \in Seq(S)
      /\ Len(Tail(s)) \in Nat /\ DOMAIN Tail(s) = 1 .. Len(Tail(s))
      /\ \A i \in DOMAIN Tail(s) : Tail(s)[i] \in S
  <2> HIDE DEF S
  <2> QED BY <1>1
<1>3. ToSet(Tail(s)) \subseteq S
  BY <1>2 DEF ToSet
<1>4. Tail(s) \in Seq(ToSet(Tail(s)))
  <2>1. \A i \in DOMAIN Tail(s) : Tail(s)[i] \in ToSet(Tail(s))
    BY DEF ToSet
  <2> DEFINE T == ToSet(Tail(s))
             u == Tail(s)
  <2>2. u \in Seq(S) /\ DOMAIN u = 1 .. Len(u) /\ Len(u) \in Nat /\ \A i \in DOMAIN u : u[i] \in T
    BY <1>2, <2>1
  <2> HIDE DEF S, T, u
  <2>3. u \in Seq(T)
    BY <2>2
  <2> QED BY <2>3 DEF T, u
<1> QED BY <1>2, <1>3, <1>4 DEF IsSequence

\* Where the elements are, after the first is taken.
LEMMA TakenPlaces ==
  ASSUME NEW s, IsSequence(s), s # <<>>
  PROVE  /\ 1 \in DOMAIN s /\ Head(s) = s[1] /\ DOMAIN s \subseteq Nat \ {0}
         /\ \A i \in DOMAIN Tail(s) : i \in Nat \ {0} /\ i + 1 \in DOMAIN s /\ Tail(s)[i] = s[i + 1]
<1> DEFINE S == ToSet(s)
<1>1. s \in Seq(S)
  BY DEF IsSequence
<1> HIDE DEF S
<1> QED BY <1>1

\* Where they are after another is appended.
LEMMA AppendedPlaces ==
  ASSUME NEW s, NEW e, IsSequence(s)
  PROVE  /\ DOMAIN s \subseteq Nat \ {0}
         /\ \A i \in DOMAIN Append(s, e) : /\ i \in Nat \ {0}
                                           /\ \/ i \in DOMAIN s /\ Append(s, e)[i] = s[i]
                                              \/ Append(s, e)[i] = e /\ i \notin DOMAIN s
         /\ \A i \in DOMAIN Append(s, e), j \in DOMAIN Append(s, e) : i < j => i \in DOMAIN s
<1> DEFINE S == ToSet(s) \cup {e}
<1>1. s \in Seq(S) /\ e \in S
  BY DEF IsSequence
<1> HIDE DEF S
<1> QED BY <1>1

\* A set of naturals that is not empty has a least element; the least
\* counterexample is how the lemmas below argue by induction.
LEMMA Least ==
  ASSUME NEW T, T \subseteq Nat, T # {}
  PROVE  \E x \in T : \A y \in T : x <= y
<1>1. PICK x \in T : \A y \in T : ~ (<<y, x>> \in OpToRel(<, Nat))
  BY NatLessThanWellFounded, WFMin
<1>2. \A y \in T : y \in Nat /\ x \in Nat /\ ~ (y < x)
  BY <1>1 DEF OpToRel
<1>3. \A y \in T : x <= y
  BY <1>2
<1> QED BY <1>3

\* A bounded set of naturals that is not empty has a greatest element.
LEMMA Greatest ==
  ASSUME NEW b \in Nat, NEW T, T \subseteq 0 .. b, T # {}
  PROVE  \E x \in T : \A y \in T : y <= x
<1> DEFINE U == {b - x : x \in T}
<1>1. U \subseteq Nat /\ U # {}
  <2>1. \A x \in T : b - x \in Nat
    OBVIOUS
  <2> QED BY <2>1
<1> HIDE DEF U
<1>2. PICK u \in U : \A v \in U : u <= v
  BY <1>1, Least
<1> USE DEF U
<1>3. PICK x \in T : u = b - x
  OBVIOUS
<1>4. ASSUME NEW y \in T PROVE y <= x
  <2>1. b - x <= b - y
    BY <1>2, <1>3
  <2>2. x \in 0 .. b /\ y \in 0 .. b
    OBVIOUS
  <2> QED BY <2>1, <2>2
<1> QED BY <1>4

\* The first element of one list moves to the end of another.
LEMMA NextIsMoved ==
  ASSUME NEW a, NEW b, IsSequence(a), IsSequence(b), b # <<>>
  PROVE  Append(a, Head(b)) \o Tail(b) = a \o b
<1> DEFINE S == ToSet(a) \cup ToSet(b)
<1>1. a \in Seq(S) /\ b \in Seq(S)
  BY DEF IsSequence
<1> HIDE DEF S
<1> DEFINE u == Append(a, Head(b)) \o Tail(b)
           v == a \o b
<1>2. /\ u \in Seq(S) /\ v \in Seq(S) /\ Len(u) = Len(v)
      /\ \A i \in 1 .. Len(u) : u[i] = v[i]
  BY <1>1
<1> HIDE DEF u, v
<1>3. u = v
  BY <1>2
<1> QED BY <1>3 DEF u, v

\* A list begins with what it is joined to.
LEMMA JoinedHasPrefix ==
  ASSUME NEW a, NEW b, IsSequence(a), IsSequence(b)
  PROVE  IsPrefix(a, a \o b)
<1> DEFINE S == ToSet(a) \cup ToSet(b)
<1>1. a \in Seq(S) /\ b \in Seq(S)
  BY DEF IsSequence
<1> HIDE DEF S
<1> QED BY <1>1 DEF IsPrefix

\* Where the elements of two joined sequences are.
LEMMA JoinedSequences ==
  ASSUME NEW S, NEW a \in Seq(S), NEW b \in Seq(S)
  PROVE  /\ a \o b \in Seq(S) /\ Len(a \o b) = Len(a) + Len(b)
         /\ \A i \in DOMAIN a : (a \o b)[i] = a[i]
         /\ \A i \in DOMAIN b : (a \o b)[Len(a) + i] = b[i]
<1>1. a \o b \in Seq(S) /\ Len(a \o b) = Len(a) + Len(b)
  OBVIOUS
<1>2. ASSUME NEW i \in DOMAIN a PROVE (a \o b)[i] = a[i]
  OBVIOUS
<1>3. ASSUME NEW i \in DOMAIN b PROVE (a \o b)[Len(a) + i] = b[i]
  OBVIOUS
<1> QED BY <1>1, <1>2, <1>3
=============================================================================
