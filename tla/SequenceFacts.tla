--------------------------- MODULE SequenceFacts ---------------------------
(***************************************************************************)
(* Facts about sequences that the proofs about queues and streams rest on. *)
(***************************************************************************)
EXTENDS Naturals, Sequences, SequencesExt, SequenceTheorems, FiniteSetTheorems,
        WellFoundedInduction, TLAPS

(* The first n elements of a sequence. *)
LEMMA FirstOf ==
    ASSUME NEW S, NEW s \in Seq(S), NEW n \in 0 .. Len(s)
    PROVE  /\ SubSeq(s, 1, n) \in Seq(S) /\ Len(SubSeq(s, 1, n)) = n
           /\ \A i \in 1 .. n : SubSeq(s, 1, n)[i] = s[i]
<1>1. \A i \in 1 .. n : s[i] \in S
  OBVIOUS
<1>2. 1 \in Int /\ n \in Int /\ n - 1 + 1 = n /\ n >= 0
  OBVIOUS
<1>3. /\ SubSeq(s, 1, n) \in Seq(S)
      /\ Len(SubSeq(s, 1, n)) = IF 1 <= n THEN n - 1 + 1 ELSE 0
      /\ \A i \in 1 .. n - 1 + 1 : SubSeq(s, 1, n)[i] = s[1 + i - 1]
  BY <1>1, <1>2, SubSeqProperties
<1>4. Len(SubSeq(s, 1, n)) = n
  BY <1>2, <1>3
<1>5. \A i \in 1 .. n : 1 + i - 1 = i /\ i \in 1 .. n - 1 + 1
  BY <1>2
<1> QED
  BY <1>3, <1>4, <1>5

(* What is appended to the second part is appended to the whole. *)
LEMMA ConcatAppend ==
    ASSUME NEW S, NEW s \in Seq(S), NEW t \in Seq(S), NEW e \in S
    PROVE  s \o Append(t, e) = Append(s \o t, e)
<1>1. Append(t, e) = t \o <<e>> /\ <<e>> \in Seq(S)
  BY AppendIsConcat
<1>2. s \o t \in Seq(S)
  BY ConcatProperties
<1>3. Append(s \o t, e) = (s \o t) \o <<e>>
  BY <1>2, AppendIsConcat
<1> QED
  BY <1>1, <1>3, ConcatAssociative

(* A queue is its head and what is behind it. *)
LEMMA HeadThenTail ==
    ASSUME NEW S, NEW s \in Seq(S), s # <<>>
    PROVE  <<Head(s)>> \o Tail(s) = s
<1>1. Head(s) \in S /\ Tail(s) \in Seq(S) /\ Len(Tail(s)) = Len(s) - 1
  BY HeadTailProperties
<1>2. \A i \in 1 .. Len(Tail(s)) : Tail(s)[i] = s[i + 1]
  BY HeadTailProperties
<1>3. <<Head(s)>> \in Seq(S) /\ Len(<<Head(s)>>) = 1
  BY <1>1
<1>4. /\ <<Head(s)>> \o Tail(s) \in Seq(S)
      /\ Len(<<Head(s)>> \o Tail(s)) = Len(s)
      /\ \A i \in 1 .. Len(s) : (<<Head(s)>> \o Tail(s))[i] =
             IF i <= 1 THEN <<Head(s)>>[i] ELSE Tail(s)[i - 1]
  BY <1>1, <1>3, ConcatProperties
<1>5. \A i \in 1 .. Len(s) : (<<Head(s)>> \o Tail(s))[i] = s[i]
  BY <1>1, <1>2, <1>4
<1> QED
  BY <1>4, <1>5, SeqEqual

(* The head stays in front of whatever follows the queue. *)
LEMMA HeadInFront ==
    ASSUME NEW S, NEW s \in Seq(S), NEW t \in Seq(S), s # <<>>
    PROVE  s \o t = <<Head(s)>> \o (Tail(s) \o t)
<1> DEFINE h == <<Head(s)>>
           r == Tail(s)
<1>1. h \in Seq(S) /\ r \in Seq(S)
  BY HeadTailProperties
<1>2. h \o r = s
  BY HeadThenTail
<1> HIDE DEF h, r
<1>3. (h \o r) \o t = h \o (r \o t)
  BY <1>1, ConcatAssociative
<1> QED
  BY <1>2, <1>3 DEF h, r

(* A published frame leaves earlier shares alone. *)
LEMMA SubSeqStable ==
    ASSUME NEW S, NEW s \in Seq(S), NEW e \in S,
           NEW m \in Nat \ {0}, NEW n \in 0 .. Len(s)
    PROVE  SubSeq(Append(s, e), m, n) = SubSeq(s, m, n)
<1> DEFINE t == Append(s, e)
<1>1. /\ t \in Seq(S) /\ Len(t) = Len(s) + 1
      /\ \A i \in 1 .. Len(s) : t[i] = s[i]
      /\ Len(s) \in Nat
  BY AppendProperties
<1> HIDE DEF t
<1>2. \A i \in m .. n : t[i] = s[i] /\ s[i] \in S /\ t[i] \in S
  BY <1>1
<1>3. /\ SubSeq(t, m, n) \in Seq(S)
      /\ Len(SubSeq(t, m, n)) = IF m <= n THEN n - m + 1 ELSE 0
      /\ \A i \in 1 .. n - m + 1 : SubSeq(t, m, n)[i] = t[m + i - 1]
  BY <1>2, SubSeqProperties
<1>4. /\ SubSeq(s, m, n) \in Seq(S)
      /\ Len(SubSeq(s, m, n)) = IF m <= n THEN n - m + 1 ELSE 0
      /\ \A i \in 1 .. n - m + 1 : SubSeq(s, m, n)[i] = s[m + i - 1]
  BY <1>2, SubSeqProperties
<1>5. \A i \in 1 .. Len(SubSeq(t, m, n)) : SubSeq(t, m, n)[i] = SubSeq(s, m, n)[i]
  BY <1>1, <1>2, <1>3, <1>4
<1>6. SubSeq(t, m, n) = SubSeq(s, m, n)
  BY <1>3, <1>4, <1>5, SeqEqual
<1> QED
  BY <1>6 DEF t

(* A published frame extends the share of whoever was up to date.          *)
LEMMA SubSeqAppend ==
    ASSUME NEW S, NEW s \in Seq(S), NEW e \in S, NEW m \in 1 .. Len(s) + 1
    PROVE  SubSeq(Append(s, e), m, Len(s) + 1) = Append(SubSeq(s, m, Len(s)), e)
<1> DEFINE t == Append(s, e)
           n == Len(s) + 1
<1>1. /\ t \in Seq(S) /\ Len(t) = n /\ t[n] = e
      /\ Len(s) \in Nat /\ m \in Nat \ {0}
  BY AppendProperties
<1>2. m \in 1 .. Len(t) /\ n \in m .. Len(t)
  BY <1>1
<1> HIDE DEF t
<1>3. SubSeq(t, m, n) = SubSeq(t, m, n - 1) \o << t[n] >>
  BY <1>1, <1>2, SubSeqRecursiveSecond
<1>4. n - 1 = Len(s)
  BY <1>1
<1>5. SubSeq(t, m, Len(s)) = SubSeq(s, m, Len(s))
  <2>1. Len(s) \in 0 .. Len(s)
    BY <1>1
  <2> QED
    BY <1>1, <2>1, SubSeqStable DEF t
<1>6. SubSeq(s, m, Len(s)) \in Seq(S)
  <2>1. \A i \in m .. Len(s) : s[i] \in S
    BY <1>1
  <2> QED
    BY <1>1, <2>1, SubSeqProperties
<1>7. Append(SubSeq(s, m, Len(s)), e) = SubSeq(s, m, Len(s)) \o <<e>>
  BY <1>6, AppendIsConcat
<1> QED
  BY <1>1, <1>3, <1>4, <1>5, <1>7 DEF t

(* The head of a queue that moves to the end of what was taken before. *)
LEMMA HeadMoves ==
    ASSUME NEW S, NEW s \in Seq(S), NEW t \in Seq(S), t # <<>>
    PROVE  Append(s, Head(t)) \o Tail(t) = s \o t
<1> DEFINE h == <<Head(t)>>
           r == Tail(t)
<1>1. h \in Seq(S) /\ r \in Seq(S) /\ Head(t) \in S
  BY HeadTailProperties
<1>2. Append(s, Head(t)) = s \o h
  BY <1>1, AppendIsConcat
<1>3. h \o r = t
  BY HeadThenTail
<1> HIDE DEF h, r
<1>4. (s \o h) \o r = s \o (h \o r)
  BY <1>1, ConcatAssociative
<1> QED
  BY <1>2, <1>3, <1>4 DEF r

(* A reader that has taken the first of several parts takes the head of    *)
(* the second one next.                                                    *)
LEMMA NextOfConcat ==
    ASSUME NEW S, NEW s \in Seq(S), NEW t \in Seq(S), t # <<>>,
           NEW u \in Seq(S), NEW v \in Seq(S)
    PROVE  /\ Len(s) < Len(s \o t \o u \o v)
           /\ SubSeq(s \o t \o u \o v, 1, Len(s) + 1) = Append(s, Head(t))
<1> DEFINE one == s \o t
           two == one \o u
           all == two \o v
           n == Len(s) + 1
<1>1. /\ one \in Seq(S) /\ Len(one) = Len(s) + Len(t)
      /\ Len(s) \in Nat /\ Len(t) \in Nat /\ Len(t) > 0 /\ Head(t) \in S
      /\ \A i \in 1 .. Len(s) : one[i] = s[i]
      /\ one[n] = Head(t)
  <2>1. Len(t) \in Nat /\ Len(t) > 0 /\ Head(t) = t[1] /\ Len(s) \in Nat
    OBVIOUS
  <2>2. /\ one \in Seq(S) /\ Len(one) = Len(s) + Len(t)
        /\ \A i \in 1 .. Len(one) :
               one[i] = IF i <= Len(s) THEN s[i] ELSE t[i - Len(s)]
    BY ConcatProperties
  <2>3. n \in 1 .. Len(one) /\ n - Len(s) = 1 /\ ~(n <= Len(s))
    BY <2>1, <2>2
  <2> QED
    BY <2>1, <2>2, <2>3
<1> HIDE DEF one
<1>2. /\ two \in Seq(S) /\ Len(two) >= Len(one)
      /\ \A i \in 1 .. Len(one) : two[i] = one[i]
  BY <1>1, ConcatProperties
<1> HIDE DEF two
<1>3. /\ all \in Seq(S) /\ Len(all) >= Len(two)
      /\ \A i \in 1 .. Len(two) : all[i] = two[i]
  BY <1>2, ConcatProperties
<1> HIDE DEF all
<1>4. Len(s) < Len(all) /\ Len(one) \in Nat /\ Len(two) \in Nat /\ Len(all) \in Nat
  BY <1>1, <1>2, <1>3
<1>5. \A i \in 1 .. n : all[i] = Append(s, Head(t))[i]
  <2>0. \A i \in 1 .. n : all[i] = one[i]
    <3> SUFFICES ASSUME NEW i \in 1 .. n PROVE all[i] = one[i]
      OBVIOUS
    <3>1. i \in 1 .. Len(one) /\ i \in 1 .. Len(two)
      BY <1>1, <1>2, <1>4
    <3> QED
      BY <1>2, <1>3, <3>1
  <2>1. \A i \in 1 .. Len(s) : i \in 1 .. n /\ all[i] = s[i]
    BY <1>1, <2>0
  <2>2. n \in 1 .. n
    BY <1>1
  <2>3. all[n] = one[n]
    BY <2>0, <2>2
  <2> SUFFICES ASSUME NEW i \in 1 .. n PROVE all[i] = Append(s, Head(t))[i]
    OBVIOUS
  <2>4. /\ Append(s, Head(t))[n] = Head(t)
        /\ \A k \in 1 .. Len(s) : Append(s, Head(t))[k] = s[k]
    BY <1>1, AppendProperties
  <2>5. i \in 1 .. Len(s) \/ i = n
    BY <1>1
  <2> QED
    BY <1>1, <2>1, <2>2, <2>3, <2>4, <2>5
<1>6. SubSeq(all, 1, n) \in Seq(S) /\ Len(SubSeq(all, 1, n)) = n
      /\ \A i \in 1 .. n : SubSeq(all, 1, n)[i] = all[i]
  BY <1>1, <1>3, <1>4, SubSeqProperties
<1>7. Append(s, Head(t)) \in Seq(S) /\ Len(Append(s, Head(t))) = n
  BY <1>1, AppendProperties
<1>8. SubSeq(all, 1, n) = Append(s, Head(t))
  BY <1>5, <1>6, <1>7, SeqEqual
<1> QED
  BY <1>4, <1>8 DEF all, two, one

-----------------------------------------------------------------------------
(***************************************************************************)
(* Induction.  A property is given as the set of what has it, so that a    *)
(* first-order prover can use the principle.                               *)
(***************************************************************************)

(* Every non-empty set of naturals has a least element: the strict-subset  *)
(* ordering of the intervals 1 .. n is well founded.                       *)
LEMMA LeastNatural ==
    ASSUME NEW T \in SUBSET Nat, T # {}
    PROVE  \E x \in T : \A y \in T : x <= y
<1> DEFINE U == {1 .. n : n \in T}
<1>1. U \subseteq FiniteSubsetsOf(Nat) /\ U # {}
  <2>1. \A n \in T : IsFiniteSet(1 .. n)
    BY FS_Interval
  <2>2. \A n \in T : 1 .. n \in SUBSET Nat
    OBVIOUS
  <2> QED
    BY <2>1, <2>2 DEF FiniteSubsetsOf
<1> HIDE DEF U
<1>2. PICK x \in U : \A y \in U : ~ (<<y, x>> \in StrictSubsetOrdering(Nat))
  BY <1>1, FS_StrictSubsetOrderingWellFounded, WFMin
<1>3. PICK n \in T : x = 1 .. n
  BY <1>2 DEF U
<1>4. ASSUME NEW m \in T, m < n PROVE FALSE
  <2>1. 1 .. m \in U
    BY DEF U
  <2>2. n \in 1 .. n /\ n \notin 1 .. m /\ (1 .. m) \subseteq (1 .. n)
    BY <1>4
  <2>3. x \in SUBSET Nat /\ 1 .. m \in SUBSET Nat /\ 1 .. m # x
    BY <1>3, <2>2
  <2>4. <<1 .. m, x>> \in StrictSubsetOrdering(Nat)
    BY <1>3, <2>2, <2>3 DEF StrictSubsetOrdering
  <2> QED
    BY <1>2, <2>1, <2>4
<1> QED
  BY <1>3, <1>4

(* Induction over the naturals, for a property given as a set. *)
LEMMA NaturalsBySet ==
    ASSUME NEW U, 0 \in U, \A n \in Nat : n \in U => n + 1 \in U
    PROVE  Nat \subseteq U
<1> DEFINE T == {n \in Nat : n \notin U}
<1> SUFFICES ASSUME T # {} PROVE FALSE
  OBVIOUS
<1>1. PICK x \in T : \A y \in T : x <= y
  BY LeastNatural
<1>2. x # 0 /\ x - 1 \in Nat /\ x - 1 \notin T
  BY <1>1
<1>3. x - 1 \in U /\ (x - 1) + 1 = x
  BY <1>1, <1>2
<1> QED
  BY <1>1, <1>2, <1>3

(* Induction over sequences, element by element from the empty one. *)
LEMMA SequencesBySet ==
    ASSUME NEW S, NEW U, <<>> \in U,
           \A s \in Seq(S) : \A e \in S : s \in U => Append(s, e) \in U
    PROVE  Seq(S) \subseteq U
<1> DEFINE V == {n \in Nat : \A s \in Seq(S) : Len(s) = n => s \in U}
<1>1. 0 \in V
  <2> SUFFICES ASSUME NEW s \in Seq(S), Len(s) = 0 PROVE s \in U
    OBVIOUS
  <2>1. s = <<>>
    BY EmptySeq
  <2> QED
    BY <2>1
<1>2. ASSUME NEW n \in Nat, n \in V PROVE n + 1 \in V
  <2> SUFFICES ASSUME NEW s \in Seq(S), Len(s) = n + 1 PROVE s \in U
    BY <1>2
  <2> DEFINE r == SubSeq(s, 1, n)
  <2>1. \A i \in 1 .. n : s[i] \in S
    BY <1>2
  <2>2. r \in Seq(S) /\ Len(r) = n /\ \A i \in 1 .. n : r[i] = s[i]
    BY <1>2, <2>1, SubSeqProperties
  <2>3. s[n + 1] \in S
    BY <1>2
  <2> HIDE DEF r
  <2>4. r \in U
    BY <1>2, <2>2
  <2>5. Append(r, s[n + 1]) = s
    <3>1. /\ Append(r, s[n + 1]) \in Seq(S)
          /\ Len(Append(r, s[n + 1])) = n + 1
          /\ \A i \in 1 .. n : Append(r, s[n + 1])[i] = r[i]
          /\ Append(r, s[n + 1])[n + 1] = s[n + 1]
      BY <2>2, <2>3, AppendProperties
    <3>2. \A i \in 1 .. Len(s) : Append(r, s[n + 1])[i] = s[i]
      BY <2>2, <3>1, <1>2
    <3> QED
      BY <3>1, <3>2, SeqEqual
  <2> QED
    BY <2>2, <2>3, <2>4, <2>5
<1> HIDE DEF V
<1>3. Nat \subseteq V
  BY <1>1, <1>2, NaturalsBySet
<1> QED
  BY <1>3 DEF V

-----------------------------------------------------------------------------
(***************************************************************************)
(* FlattenSeq is a recursive function; what it computes follows by the     *)
(* induction above.                                                        *)
(***************************************************************************)

(* What FlattenSeq computes on its way, up to the n-th sequence. *)
Flattened(ss, n, f) ==
    f = [i \in 1 .. n |-> IF i = 1 THEN ss[i] ELSE f[i - 1] \o ss[i]]

(* There is such a function, ... *)
LEMMA FlattenedExists ==
    ASSUME NEW ss, NEW n \in Nat
    PROVE  \E f : Flattened(ss, n, f)
<1> DEFINE U == {k \in Nat : \E f : Flattened(ss, k, f)}
<1>1. 0 \in U
  <2> DEFINE f == [i \in 1 .. 0 |-> ss[i]]
  <2>1. Flattened(ss, 0, f)
    BY DEF Flattened
  <2> QED
    BY <2>1
<1>2. ASSUME NEW k \in Nat, k \in U PROVE k + 1 \in U
  <2>1. PICK f : Flattened(ss, k, f)
    BY <1>2
  <2> DEFINE last == IF k = 0 THEN ss[k + 1] ELSE f[k] \o ss[k + 1]
             g == [i \in 1 .. k + 1 |-> IF i = k + 1 THEN last ELSE f[i]]
  <2>2. ASSUME NEW i \in 1 .. k + 1
        PROVE  g[i] = IF i = 1 THEN ss[i] ELSE g[i - 1] \o ss[i]
    <3>1. CASE i = k + 1
      BY <3>1
    <3>2. CASE i # k + 1
      <4>1. i \in 1 .. k /\ g[i] = f[i] /\ (i # 1 => g[i - 1] = f[i - 1])
        BY <3>2
      <4>2. f[i] = IF i = 1 THEN ss[i] ELSE f[i - 1] \o ss[i]
        BY <2>1, <4>1 DEF Flattened
      <4> QED
        BY <4>1, <4>2
    <3> QED
      BY <3>1, <3>2
  <2>3. g = [i \in 1 .. k + 1 |-> g[i]]
    OBVIOUS
  <2> HIDE DEF g
  <2>4. Flattened(ss, k + 1, g)
    BY <2>2, <2>3 DEF Flattened
  <2> QED
    BY <2>4
<1> HIDE DEF U
<1>3. Nat \subseteq U
  BY <1>1, <1>2, NaturalsBySet
<1> QED
  BY <1>3 DEF U


(* Two sequences have the same first m elements. *)
SameUpTo(ss, tt, m) == \A i \in 1 .. m : ss[i] = tt[i]

(* It depends on the sequences alone. *)
LEMMA FlattenedAgrees ==
    ASSUME NEW ss, NEW tt, NEW m \in Nat, NEW n \in Nat, m <= n,
           SameUpTo(ss, tt, m)
    PROVE  \A f, g : Flattened(ss, m, f) /\ Flattened(tt, n, g)
                         => \A i \in 1 .. m : f[i] = g[i]
<1> SUFFICES ASSUME NEW f, NEW g, Flattened(ss, m, f), Flattened(tt, n, g)
             PROVE  \A i \in 1 .. m : f[i] = g[i]
  OBVIOUS
<1> DEFINE U == {k \in Nat : k \in 1 .. m => f[k] = g[k]}
<1>1. 0 \in U
  OBVIOUS
<1>2. ASSUME NEW k \in Nat, k \in U PROVE k + 1 \in U
  <2> SUFFICES ASSUME k + 1 \in 1 .. m PROVE f[k + 1] = g[k + 1]
    OBVIOUS
  <2>1. k + 1 \in 1 .. n
    OBVIOUS
  <2>2. f[k + 1] = IF k + 1 = 1 THEN ss[k + 1] ELSE f[(k + 1) - 1] \o ss[k + 1]
    BY DEF Flattened
  <2>3. g[k + 1] = IF k + 1 = 1 THEN tt[k + 1] ELSE g[(k + 1) - 1] \o tt[k + 1]
    BY <2>1 DEF Flattened
  <2>4. CASE k = 0
    BY <2>2, <2>3, <2>4 DEF SameUpTo
  <2>5. CASE k # 0
    <3>1. k \in 1 .. m /\ (k + 1) - 1 = k /\ k + 1 # 1
      BY <2>5
    <3>2. f[k] = g[k]
      BY <1>2, <3>1
    <3> QED
      BY <2>2, <2>3, <3>1, <3>2 DEF SameUpTo
  <2> QED
    BY <2>4, <2>5
<1> HIDE DEF U
<1>3. Nat \subseteq U
  BY <1>1, <1>2, NaturalsBySet
<1> QED
  BY <1>3 DEF U

(* ... and FlattenSeq takes its last value. *)
LEMMA FlattenByFunction ==
    ASSUME NEW ss, Len(ss) \in Nat \ {0}, NEW f, Flattened(ss, Len(ss), f)
    PROVE  FlattenSeq(ss) = f[Len(ss)]
<1> DEFINE g == CHOOSE h : h = [i \in 1 .. Len(ss) |->
                                   IF i = 1 THEN ss[i] ELSE h[i - 1] \o ss[i]]
<1>1. FlattenSeq(ss) = g[Len(ss)]
  BY DEF FlattenSeq
<1>2. Flattened(ss, Len(ss), g)
  BY FlattenedExists DEF Flattened
<1> HIDE DEF g
<1>3. \A i \in 1 .. Len(ss) : f[i] = g[i]
  <2>1. Len(ss) \in Nat /\ Len(ss) <= Len(ss) /\ SameUpTo(ss, ss, Len(ss))
    BY DEF SameUpTo
  <2>2. \A p, q : Flattened(ss, Len(ss), p) /\ Flattened(ss, Len(ss), q)
                      => \A i \in 1 .. Len(ss) : p[i] = q[i]
    BY <2>1, FlattenedAgrees
  <2>3. Flattened(ss, Len(ss), f)
    OBVIOUS
  <2> QED
    BY <1>2, <2>2, <2>3
<1> QED
  BY <1>1, <1>3

(* Nothing flattens to nothing, ... *)
LEMMA FlattenEmpty == FlattenSeq(<<>>) = <<>>
BY DEF FlattenSeq

(* A further sequence is appended to what was flattened before. *)
LEMMA FlattenAppend ==
    ASSUME NEW S, NEW ss \in Seq(Seq(S)), NEW x \in Seq(S), FlattenSeq(ss) \in Seq(S)
    PROVE  FlattenSeq(Append(ss, x)) = FlattenSeq(ss) \o x
<1> DEFINE n == Len(ss)
           tt == Append(ss, x)
<1>1. /\ Len(tt) = n + 1 /\ n \in Nat /\ tt[n + 1] = x
      /\ \A i \in 1 .. n : ss[i] = tt[i]
  BY AppendProperties
<1> HIDE DEF tt
<1>0. n + 1 \in Nat /\ n + 1 \in 1 .. n + 1 /\ n <= n + 1
  BY <1>1
<1>2. PICK g : Flattened(tt, n + 1, g)
  BY <1>0, FlattenedExists
<1>3. FlattenSeq(tt) = g[n + 1]
  BY <1>1, <1>2, FlattenByFunction
<1>4. g[n + 1] = IF n + 1 = 1 THEN tt[n + 1] ELSE g[(n + 1) - 1] \o tt[n + 1]
  <2>1. g = [i \in 1 .. n + 1 |-> IF i = 1 THEN tt[i] ELSE g[i - 1] \o tt[i]]
    BY <1>2 DEF Flattened
  <2> QED
    BY <1>0, <2>1
<1>5. CASE n = 0
  <2>1. ss = <<>>
    BY <1>5, EmptySeq
  <2>2. FlattenSeq(ss) \o x = x
    BY <2>1, FlattenEmpty, ConcatEmptySeq
  <2> QED
    BY <1>1, <1>3, <1>4, <1>5, <2>2 DEF tt
<1>6. CASE n # 0
  <2>1. PICK f : Flattened(ss, n, f)
    BY <1>1, FlattenedExists
  <2>2. FlattenSeq(ss) = f[n]
    BY <1>1, <1>6, <2>1, FlattenByFunction
  <2>3. \A i \in 1 .. n : f[i] = g[i]
    <3>1. \A p, q : Flattened(ss, n, p) /\ Flattened(tt, n + 1, q)
                        => \A i \in 1 .. n : p[i] = q[i]
      <4>1. n \in Nat /\ n + 1 \in Nat /\ n <= n + 1 /\ SameUpTo(ss, tt, n)
        BY <1>1 DEF SameUpTo
      <4> HIDE DEF n
      <4> QED
        BY <4>1, FlattenedAgrees
    <3> QED
      BY <1>2, <2>1, <3>1
  <2>4. n \in 1 .. n /\ (n + 1) - 1 = n /\ n + 1 # 1
    BY <1>1, <1>6
  <2> QED
    BY <1>1, <1>3, <1>4, <2>2, <2>3, <2>4 DEF tt
<1> QED
  BY <1>5, <1>6

(* ... and sequences over S to one over S. *)
LEMMA FlattenType ==
    ASSUME NEW S
    PROVE  \A ss \in Seq(Seq(S)) : FlattenSeq(ss) \in Seq(S)
<1> DEFINE U == {ss \in Seq(Seq(S)) : FlattenSeq(ss) \in Seq(S)}
<1>1. <<>> \in U
  <2>1. <<>> \in Seq(Seq(S)) /\ <<>> \in Seq(S)
    OBVIOUS
  <2> QED
    BY <2>1, FlattenEmpty
<1>2. ASSUME NEW ss \in Seq(Seq(S)), NEW x \in Seq(S), ss \in U
      PROVE  Append(ss, x) \in U
  <2>1. FlattenSeq(ss) \in Seq(S)
    BY <1>2
  <2>2. Append(ss, x) \in Seq(Seq(S))
    BY AppendProperties
  <2>3. FlattenSeq(ss) \o x \in Seq(S)
    BY <2>1, ConcatProperties
  <2> QED
    BY <2>1, <2>2, <2>3, FlattenAppend
<1> HIDE DEF U
<1>3. Seq(Seq(S)) \subseteq U
  BY <1>1, <1>2, SequencesBySet
<1> QED
  BY <1>3 DEF U

(* Flattening what is concatenated concatenates what is flattened. *)
LEMMA FlattenConcat ==
    ASSUME NEW S, NEW ss \in Seq(Seq(S))
    PROVE  \A tt \in Seq(Seq(S)) :
               FlattenSeq(ss \o tt) = FlattenSeq(ss) \o FlattenSeq(tt)
<1> DEFINE F(tt) == FlattenSeq(tt)
           U == {tt \in Seq(Seq(S)) : F(ss \o tt) = F(ss) \o F(tt)}
<1>0. F(ss) \in Seq(S)
  BY FlattenType
<1>1. <<>> \in U
  <2>1. ss \o <<>> = ss /\ F(ss) \o <<>> = F(ss)
    BY <1>0, ConcatEmptySeq
  <2> QED
    BY <2>1, FlattenEmpty, EmptySeq
<1>2. ASSUME NEW tt \in Seq(Seq(S)), NEW x \in Seq(S), tt \in U
      PROVE  Append(tt, x) \in U
  <2>1. F(ss \o tt) = F(ss) \o F(tt) /\ F(tt) \in Seq(S)
    BY <1>2, FlattenType
  <2>2. Append(tt, x) \in Seq(Seq(S)) /\ ss \o tt \in Seq(Seq(S))
    BY AppendProperties, ConcatProperties
  <2>3. ss \o Append(tt, x) = Append(ss \o tt, x)
    BY ConcatAppend
  <2>4. F(Append(ss \o tt, x)) = F(ss \o tt) \o x
    BY <2>2, FlattenType, FlattenAppend
  <2>5. F(Append(tt, x)) = F(tt) \o x
    BY <2>1, FlattenAppend
  <2> HIDE DEF F
  <2>6. \A p, q, r \in Seq(S) : (p \o q) \o r = p \o (q \o r)
    BY ConcatAssociative
  <2>7. (F(ss) \o F(tt)) \o x = F(ss) \o (F(tt) \o x)
    BY <1>0, <2>1, <2>6
  <2> QED
    BY <2>1, <2>2, <2>3, <2>4, <2>5, <2>7
<1> HIDE DEF U
<1>3. Seq(Seq(S)) \subseteq U
  BY <1>1, <1>2, SequencesBySet
<1> QED
  BY <1>3 DEF U

(* One sequence on its own. *)
LEMMA FlattenOne ==
    ASSUME NEW S, NEW x \in Seq(S)
    PROVE  FlattenSeq(<< x >>) = x
<1>1. << x >> = Append(<<>>, x) /\ <<>> \in Seq(Seq(S)) /\ <<>> \in Seq(S)
  OBVIOUS
<1>2. FlattenSeq(Append(<<>>, x)) = <<>> \o x
  BY <1>1, FlattenEmpty, FlattenAppend
<1> QED
  BY <1>1, <1>2, ConcatEmptySeq

(* Flattening starts with the first sequence, ... *)
LEMMA FlattenHead ==
    ASSUME NEW S, NEW ss \in Seq(Seq(S)), ss # <<>>
    PROVE  FlattenSeq(ss) = Head(ss) \o FlattenSeq(Tail(ss))
<1> DEFINE h == << Head(ss) >>
           t == Tail(ss)
<1>1. Head(ss) \in Seq(S) /\ h \in Seq(Seq(S)) /\ t \in Seq(Seq(S))
  BY HeadTailProperties
<1>2. ss = h \o t
  BY HeadThenTail
<1>3. FlattenSeq(h) = Head(ss)
  BY <1>1, FlattenOne
<1> HIDE DEF h, t
<1>4. FlattenSeq(h \o t) = FlattenSeq(h) \o FlattenSeq(t)
  BY <1>1, FlattenConcat
<1> QED
  BY <1>2, <1>3, <1>4 DEF t

(* ... ends with the last one, ... *)
LEMMA FlattenFront ==
    ASSUME NEW S, NEW ss \in Seq(Seq(S)), ss # <<>>
    PROVE  /\ SubSeq(ss, 1, Len(ss) - 1) \in Seq(Seq(S))
           /\ FlattenSeq(ss) = FlattenSeq(SubSeq(ss, 1, Len(ss) - 1)) \o ss[Len(ss)]
<1> DEFINE f == SubSeq(ss, 1, Len(ss) - 1)
<1>1. Len(ss) \in Nat /\ Len(ss) >= 1 /\ ss[Len(ss)] \in Seq(S)
  OBVIOUS
<1>2. /\ f \in Seq(Seq(S)) /\ Len(f) = Len(ss) - 1
      /\ \A i \in 1 .. Len(ss) - 1 : f[i] = ss[i]
  <2>1. Len(ss) - 1 \in 0 .. Len(ss)
    BY <1>1
  <2> QED
    BY <2>1, FirstOf
<1> HIDE DEF f
<1>3. Append(f, ss[Len(ss)]) = ss
  <2> DEFINE a == Append(f, ss[Len(ss)])
  <2>1. /\ a \in Seq(Seq(S)) /\ Len(a) = Len(ss)
        /\ \A i \in 1 .. Len(ss) - 1 : a[i] = f[i]
        /\ a[Len(ss)] = ss[Len(ss)]
    BY <1>1, <1>2, AppendProperties
  <2>2. \A i \in 1 .. Len(ss) : a[i] = ss[i]
    BY <1>1, <1>2, <2>1
  <2> HIDE DEF a
  <2>3. a = ss
    BY <2>1, <2>2, SeqEqual
  <2> QED
    BY <2>3 DEF a
<1>4. FlattenSeq(Append(f, ss[Len(ss)])) = FlattenSeq(f) \o ss[Len(ss)]
  BY <1>1, <1>2, FlattenType, FlattenAppend
<1> QED
  BY <1>2, <1>3, <1>4 DEF f

(* ... and has another end when that one is replaced. *)
LEMMA FlattenLastReplaced ==
    ASSUME NEW S, NEW ss \in Seq(Seq(S)), ss # <<>>, NEW x \in Seq(S)
    PROVE  FlattenSeq([ss EXCEPT ![Len(ss)] = x])
               = FlattenSeq(SubSeq(ss, 1, Len(ss) - 1)) \o x
<1> DEFINE n == Len(ss)
           tt == [ss EXCEPT ![n] = x]
<1>1. n \in Nat /\ n >= 1
  OBVIOUS
<1>2. /\ tt \in Seq(Seq(S)) /\ Len(tt) = n
      /\ \A i \in 1 .. n : tt[i] = IF i = n THEN x ELSE ss[i]
  BY <1>1, ExceptSeq
<1> HIDE DEF tt
<1>3. tt # <<>> /\ tt[n] = x
  BY <1>1, <1>2
<1>4. FlattenSeq(tt) = FlattenSeq(SubSeq(tt, 1, n - 1)) \o tt[n]
  BY <1>2, <1>3, FlattenFront
<1>5. SubSeq(tt, 1, n - 1) = SubSeq(ss, 1, n - 1)
  <2>1. \A i \in 1 .. n - 1 : tt[i] = ss[i] /\ tt[i] \in Seq(S) /\ ss[i] \in Seq(S)
    BY <1>1, <1>2
  <2>2. n - 1 \in 0 .. n /\ Len(tt) = n
    BY <1>1, <1>2
  <2> DEFINE p == SubSeq(tt, 1, n - 1)
             q == SubSeq(ss, 1, n - 1)
  <2>3. /\ p \in Seq(Seq(S)) /\ Len(p) = n - 1
        /\ \A i \in 1 .. n - 1 : p[i] = tt[i]
    BY <1>2, <2>2, FirstOf
  <2>4. /\ q \in Seq(Seq(S)) /\ Len(q) = n - 1
        /\ \A i \in 1 .. n - 1 : q[i] = ss[i]
    BY <2>2, FirstOf
  <2> HIDE DEF p, q
  <2>5. Len(p) = Len(q) /\ \A i \in 1 .. Len(p) : p[i] = q[i]
    BY <2>1, <2>3, <2>4
  <2>6. p = q
    BY <2>3, <2>4, <2>5, SeqEqual
  <2> QED
    BY <2>6 DEF p, q
<1> QED
  BY <1>3, <1>4, <1>5 DEF tt

(* The prefixes of a sequence grow by its elements, up to the whole. *)
LEMMA PrefixGrows ==
    ASSUME NEW S, NEW s \in Seq(S), NEW n \in Nat, n < Len(s)
    PROVE  SubSeq(s, 1, n + 1) = Append(SubSeq(s, 1, n), s[n + 1])
<1> DEFINE p == SubSeq(s, 1, n)
           q == SubSeq(s, 1, n + 1)
           a == Append(p, s[n + 1])
<1>0. n \in 0 .. Len(s) /\ n + 1 \in 0 .. Len(s) /\ s[n + 1] \in S
  OBVIOUS
<1>1. p \in Seq(S) /\ Len(p) = n /\ \A i \in 1 .. n : p[i] = s[i]
  BY <1>0, FirstOf
<1>2. q \in Seq(S) /\ Len(q) = n + 1 /\ \A i \in 1 .. n + 1 : q[i] = s[i]
  BY <1>0, FirstOf
<1> HIDE DEF p, q
<1>3. /\ a \in Seq(S) /\ Len(a) = n + 1 /\ a[n + 1] = s[n + 1]
      /\ \A i \in 1 .. n : a[i] = p[i]
  BY <1>0, <1>1, AppendProperties
<1> HIDE DEF a
<1>4. Len(q) = Len(a) /\ \A i \in 1 .. Len(q) : q[i] = a[i]
  BY <1>1, <1>2, <1>3
<1>5. q = a
  BY <1>2, <1>3, <1>4, SeqEqual
<1> QED
  BY <1>5 DEF p, q, a

(* The whole sequence is a prefix of itself. *)
LEMMA WholePrefix ==
    ASSUME NEW S, NEW s \in Seq(S)
    PROVE  SubSeq(s, 1, Len(s)) = s
<1> DEFINE p == SubSeq(s, 1, Len(s))
<1>1. Len(s) \in 0 .. Len(s)
  OBVIOUS
<1>2. p \in Seq(S) /\ Len(p) = Len(s) /\ \A i \in 1 .. Len(s) : p[i] = s[i]
  BY <1>1, FirstOf
<1> HIDE DEF p
<1>3. p = s
  BY <1>2, SeqEqual
<1> QED
  BY <1>3 DEF p

(* Empty sequences between the others leave no trace. *)
Spaced(ss, tt) ==
    /\ Len(tt) = 2 * Len(ss)
    /\ \A k \in 1 .. Len(ss) : tt[2 * k - 1] = <<>> /\ tt[2 * k] = ss[k]

(* They flatten to the same. *)
LEMMA FlattenSpaced ==
    ASSUME NEW S
    PROVE  \A ss \in Seq(Seq(S)) : \A tt \in Seq(Seq(S)) :
               Spaced(ss, tt) => FlattenSeq(tt) = FlattenSeq(ss)
<1> DEFINE Goal(ss) == \A tt \in Seq(Seq(S)) :
                           Spaced(ss, tt) => FlattenSeq(tt) = FlattenSeq(ss)
           U == {ss \in Seq(Seq(S)) : Goal(ss)}
<1>1. <<>> \in U
  <2> SUFFICES ASSUME NEW tt \in Seq(Seq(S)), Spaced(<<>>, tt)
               PROVE  FlattenSeq(tt) = FlattenSeq(<<>>)
    OBVIOUS
  <2>1. Len(tt) = 0
    BY DEF Spaced
  <2>2. tt = <<>>
    BY <2>1, EmptySeq
  <2> QED
    BY <2>2
<1>2. ASSUME NEW ss \in Seq(Seq(S)), NEW x \in Seq(S), ss \in U
      PROVE  Append(ss, x) \in U
  <2> DEFINE sx == Append(ss, x)
             n == Len(ss)
  <2>1. /\ sx \in Seq(Seq(S)) /\ Len(sx) = n + 1 /\ n \in Nat
        /\ \A i \in 1 .. n : sx[i] = ss[i]
        /\ sx[n + 1] = x
    BY AppendProperties
  <2> HIDE DEF sx
  <2>2. ASSUME NEW tt \in Seq(Seq(S)), Spaced(sx, tt)
        PROVE  FlattenSeq(tt) = FlattenSeq(sx)
    <3> DEFINE one == SubSeq(tt, 1, 2 * n)
               two == SubSeq(tt, 1, 2 * n + 1)
    <3>1. /\ Len(tt) = 2 * n + 2
          /\ \A k \in 1 .. n + 1 : tt[2 * k - 1] = <<>> /\ tt[2 * k] = sx[k]
      BY <2>1, <2>2 DEF Spaced
    <3>2. tt[2 * n + 1] = <<>> /\ tt[2 * n + 2] = x
      <4>1. n + 1 \in 1 .. n + 1 /\ 2 * (n + 1) - 1 = 2 * n + 1 /\ 2 * (n + 1) = 2 * n + 2
        BY <2>1
      <4> QED
        BY <2>1, <3>1, <4>1
    <3>3. /\ 2 * n \in Nat /\ 2 * n \in 0 .. Len(tt) /\ 2 * n < Len(tt)
          /\ 2 * n + 1 \in Nat /\ 2 * n + 1 < Len(tt) /\ 2 * n + 1 \in 0 .. Len(tt)
          /\ (2 * n + 1) + 1 = Len(tt) /\ (2 * n + 1) + 1 = 2 * n + 2
      <4> HIDE DEF n, one, two
      <4>1. \A m \in Nat : \A l : l = 2 * m + 2 =>
                /\ 2 * m \in Nat /\ 2 * m \in 0 .. l /\ 2 * m < l
                /\ 2 * m + 1 \in Nat /\ 2 * m + 1 < l /\ 2 * m + 1 \in 0 .. l
                /\ (2 * m + 1) + 1 = l /\ (2 * m + 1) + 1 = 2 * m + 2
        OBVIOUS
      <4>2. n \in Nat /\ Len(tt) = 2 * n + 2
        BY <2>1, <3>1
      <4> QED
        BY <4>1, <4>2
    <3>4. two = Append(one, <<>>)
      BY <3>2, <3>3, PrefixGrows
    <3>5. tt = Append(two, x)
      <4>1. SubSeq(tt, 1, (2 * n + 1) + 1) = Append(SubSeq(tt, 1, 2 * n + 1), tt[(2 * n + 1) + 1])
        BY <3>3, PrefixGrows
      <4>2. SubSeq(tt, 1, Len(tt)) = tt
        BY WholePrefix
      <4> QED
        BY <3>2, <3>3, <4>1, <4>2
    <3>6. /\ one \in Seq(Seq(S)) /\ Len(one) = 2 * n
          /\ \A i \in 1 .. 2 * n : one[i] = tt[i]
      BY <3>3, FirstOf
    <3>7. two \in Seq(Seq(S))
      BY <3>3, FirstOf
    <3> HIDE DEF one, two
    <3>8. Spaced(ss, one)
      <4>1. ASSUME NEW k \in 1 .. n PROVE one[2 * k - 1] = <<>> /\ one[2 * k] = ss[k]
        <5>1. k \in 1 .. n + 1 /\ 2 * k - 1 \in 1 .. 2 * n /\ 2 * k \in 1 .. 2 * n
          BY <2>1
        <5> QED
          BY <2>1, <3>1, <3>6, <5>1
      <4> QED
        BY <3>6, <4>1 DEF Spaced
    <3>9. FlattenSeq(one) = FlattenSeq(ss)
      BY <1>2, <3>6, <3>8
    <3>10. /\ FlattenSeq(one) \in Seq(S) /\ FlattenSeq(two) \in Seq(S)
           /\ FlattenSeq(ss) \in Seq(S) /\ <<>> \in Seq(S)
      BY <3>6, <3>7, FlattenType
    <3>11. FlattenSeq(two) = FlattenSeq(one) \o <<>>
      BY <3>4, <3>6, <3>10, FlattenAppend
    <3>12. FlattenSeq(tt) = FlattenSeq(two) \o x
      BY <3>5, <3>7, <3>10, FlattenAppend
    <3>13. FlattenSeq(sx) = FlattenSeq(ss) \o x
      BY <3>10, FlattenAppend DEF sx
    <3>14. FlattenSeq(one) \o <<>> = FlattenSeq(one)
      BY <3>10, ConcatEmptySeq
    <3> QED
      BY <3>9, <3>11, <3>12, <3>13, <3>14
  <2> QED
    BY <2>1, <2>2 DEF sx
<1> HIDE DEF U
<1>3. Seq(Seq(S)) \subseteq U
  BY <1>1, <1>2, SequencesBySet
<1> QED
  BY <1>3 DEF U

(* What is taken from the front of a concatenation comes from its first    *)
(* part.                                                                   *)
LEMMA TailOfConcat ==
    ASSUME NEW S, NEW s \in Seq(S), NEW t \in Seq(S), s # <<>>
    PROVE  Tail(s \o t) = Tail(s) \o t
<1> DEFINE st == s \o t
           a == Tail(st)
           r == Tail(s)
           b == r \o t
<1>0. Len(s) \in Nat \ {0} /\ Len(t) \in Nat
  OBVIOUS
<1>1. /\ st \in Seq(S) /\ Len(st) = Len(s) + Len(t)
      /\ \A i \in 1 .. Len(s) + Len(t) : st[i] = IF i <= Len(s) THEN s[i] ELSE t[i - Len(s)]
  BY ConcatProperties
<1> HIDE DEF st
<1>2. /\ a \in Seq(S) /\ Len(a) = Len(s) + Len(t) - 1
      /\ \A i \in 1 .. Len(s) + Len(t) - 1 : a[i] = st[i + 1]
  <2>1. st # <<>>
    BY <1>0, <1>1
  <2>2. a \in Seq(S) /\ Len(a) = Len(st) - 1 /\ \A i \in 1 .. Len(a) : a[i] = st[i + 1]
    BY <1>1, <2>1, HeadTailProperties
  <2> HIDE DEF a
  <2> QED
    BY <1>1, <2>2
<1>3. /\ r \in Seq(S) /\ Len(r) = Len(s) - 1
      /\ \A i \in 1 .. Len(r) : r[i] = s[i + 1]
  BY HeadTailProperties
<1> HIDE DEF r
<1>4. /\ b \in Seq(S) /\ Len(b) = Len(r) + Len(t)
      /\ \A i \in 1 .. Len(r) + Len(t) : b[i] = IF i <= Len(r) THEN r[i] ELSE t[i - Len(r)]
  BY <1>3, ConcatProperties
<1> HIDE DEF a, b
<1>5. ASSUME NEW i \in 1 .. Len(a) PROVE a[i] = b[i]
  <2>1. i + 1 \in 1 .. Len(s) + Len(t) /\ i \in 1 .. Len(r) + Len(t)
        /\ i \in 1 .. Len(s) + Len(t) - 1
    BY <1>0, <1>2, <1>3
  <2>2. CASE i + 1 <= Len(s)
    <3>1. i \in 1 .. Len(r) /\ i <= Len(r)
      BY <1>0, <1>3, <2>1, <2>2
    <3>2. a[i] = s[i + 1]
      BY <1>1, <1>2, <2>1, <2>2
    <3>3. b[i] = r[i] /\ r[i] = s[i + 1]
      BY <1>3, <1>4, <2>1, <3>1
    <3> QED
      BY <3>2, <3>3
  <2>3. CASE ~(i + 1 <= Len(s))
    <3>1. ~(i <= Len(r)) /\ (i + 1) - Len(s) = i - Len(r)
      BY <1>0, <1>3, <2>1, <2>3
    <3>2. a[i] = t[(i + 1) - Len(s)]
      BY <1>1, <1>2, <2>1, <2>3
    <3>3. b[i] = t[i - Len(r)]
      BY <1>4, <2>1, <3>1
    <3> QED
      BY <3>1, <3>2, <3>3
  <2> QED
    BY <2>2, <2>3
<1>6. Len(a) = Len(b) /\ \A i \in 1 .. Len(a) : a[i] = b[i]
  BY <1>0, <1>2, <1>3, <1>4, <1>5
<1>7. a = b
  BY <1>2, <1>4, <1>6, SeqEqual
<1> QED
  BY <1>7 DEF a, b, r, st

(* Flattening has another start when the first sequence is replaced. *)
LEMMA FlattenFirstReplaced ==
    ASSUME NEW S, NEW ss \in Seq(Seq(S)), ss # <<>>, NEW x \in Seq(S)
    PROVE  FlattenSeq([ss EXCEPT ![1] = x]) = x \o FlattenSeq(Tail(ss))
<1> DEFINE n == Len(ss)
           tt == [ss EXCEPT ![1] = x]
<1>1. n \in Nat /\ n >= 1
  OBVIOUS
<1>2. /\ tt \in Seq(Seq(S)) /\ Len(tt) = n
      /\ \A i \in 1 .. n : tt[i] = IF i = 1 THEN x ELSE ss[i]
  BY <1>1, ExceptSeq
<1> HIDE DEF tt
<1>3. tt # <<>> /\ Head(tt) = x
  BY <1>1, <1>2
<1>4. FlattenSeq(tt) = Head(tt) \o FlattenSeq(Tail(tt))
  BY <1>2, <1>3, FlattenHead
<1>5. Tail(tt) = Tail(ss)
  <2> DEFINE p == Tail(tt)
             q == Tail(ss)
  <2>1. /\ p \in Seq(Seq(S)) /\ Len(p) = n - 1 /\ \A i \in 1 .. Len(p) : p[i] = tt[i + 1]
    BY <1>2, <1>3, HeadTailProperties
  <2>2. /\ q \in Seq(Seq(S)) /\ Len(q) = n - 1 /\ \A i \in 1 .. Len(q) : q[i] = ss[i + 1]
    BY HeadTailProperties
  <2> HIDE DEF p, q, n
  <2>3. ASSUME NEW i \in 1 .. Len(p) PROVE p[i] = q[i]
    <3>1. i + 1 \in 1 .. n /\ i + 1 # 1 /\ i \in 1 .. Len(q)
      BY <1>1, <2>1, <2>2
    <3> QED
      BY <1>2, <2>1, <2>2, <3>1
  <2>4. Len(p) = Len(q) /\ \A i \in 1 .. Len(p) : p[i] = q[i]
    BY <2>1, <2>2, <2>3
  <2>5. p = q
    BY <2>1, <2>2, <2>4, SeqEqual
  <2> QED
    BY <2>5 DEF p, q
<1> QED
  BY <1>3, <1>4, <1>5 DEF tt

=============================================================================
