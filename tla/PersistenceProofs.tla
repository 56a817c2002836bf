------------------------- MODULE PersistenceProofs -------------------------
(***************************************************************************)
(* The messages and the file of a node, for every bound of Persistence:    *)
(* what is written is read as it was, and Load takes the last Dump, or a   *)
(* beginning of it.  The way there: sequences of sequences; the fields of  *)
(* one member of a stream; the tables of the thirteen types, which agree   *)
(* with each other; a message as a stream, read back alone or behind       *)
(* another one; the record of a node, and the record cut anywhere; the     *)
(* node and its file; the uses of one message object; last, the calls.     *)
(***************************************************************************)
EXTENDS PersistenceMC, SequenceTheorems, WellFoundedInduction, TLAPS

\* Induction over a set of numbers, from the smallest one that is not in it.
LEMMA FromZero ==
  ASSUME NEW P, 0 \in P, \A n \in Nat : n \in P => n + 1 \in P
  PROVE  Nat \subseteq P
<1> DEFINE Less == OpToRel(<, Nat)
           Missing == Nat \ P
<1> SUFFICES ASSUME Missing # {} PROVE FALSE
  OBVIOUS
<1>1. IsWellFoundedOn(Less, Nat)
  BY NatLessThanWellFounded DEF OpToRel
<1>2. PICK b \in Missing : \A c \in Missing : ~ (<<c, b>> \in Less)
  <2>1. Missing \subseteq Nat
    OBVIOUS
  <2> HIDE DEF Missing, Less
  <2> QED  BY <1>1, <2>1, WFMin
<1>3. b \in Nat /\ b - 1 \in Nat /\ b - 1 < b /\ (b - 1) + 1 = b
  OBVIOUS
<1>4. <<b - 1, b>> \in Less
  BY <1>3 DEF OpToRel
<1>5. b - 1 \in P
  BY <1>2, <1>3, <1>4
<1>6. (b - 1) + 1 \in P
  BY <1>3, <1>5
<1> QED  BY <1>3, <1>6

-----------------------------------------------------------------------------
(* A sequence of sequences, one behind the other.                          *)

\* What FlattenSeq computes on the way.
Flattens(fl, ss, n) ==
    fl = [i \in 1 .. n |-> IF i = 1 THEN ss[i] ELSE fl[i - 1] \o ss[i]]

\* What FlattenSeq computes on the way exists, for every number of parts.
LEMMA FlattensExists ==
  ASSUME NEW S, NEW ss \in Seq(Seq(S))
  PROVE  \A n \in Nat : n <= Len(ss) => \E fl : Flattens(fl, ss, n)
<1> DEFINE P == {n \in Nat : n <= Len(ss) => \E fl : Flattens(fl, ss, n)}
<1>1. 0 \in P
  <2>1. Flattens([i \in 1 .. 0 |-> ss[i]], ss, 0)
    BY DEF Flattens
  <2> QED  BY <2>1
<1>2. ASSUME NEW n \in Nat, n \in P PROVE n + 1 \in P
  <2> SUFFICES ASSUME n + 1 <= Len(ss) PROVE \E fl : Flattens(fl, ss, n + 1)
    OBVIOUS
  <2>1. PICK fl : Flattens(fl, ss, n)
    BY <1>2
  <2> DEFINE gl == [i \in 1 .. n + 1 |-> IF i <= n THEN fl[i]
                                        ELSE IF n = 0 THEN ss[1] ELSE fl[n] \o ss[n + 1]]
  <2>2. \A i \in 1 .. n + 1 : gl[i] = IF i = 1 THEN ss[i] ELSE gl[i - 1] \o ss[i]
    <3> TAKE i \in 1 .. n + 1
    <3>1. CASE i = n + 1 /\ n = 0
      BY <3>1
    <3>2. CASE i = n + 1 /\ n # 0
      BY <3>2
    <3>3. CASE i <= n
      <4>1. gl[i] = fl[i] /\ i \in 1 .. n
        BY <3>3
      <4>2. i # 1 => gl[i - 1] = fl[i - 1]
        BY <3>3
      <4>3. fl[i] = IF i = 1 THEN ss[i] ELSE fl[i - 1] \o ss[i]
        BY <2>1, <4>1 DEF Flattens
      <4> HIDE DEF gl
      <4> QED  BY <4>1, <4>2, <4>3
    <3> QED  BY <3>1, <3>2, <3>3
  <2>3. gl = [i \in 1 .. n + 1 |-> IF i = 1 THEN ss[i] ELSE gl[i - 1] \o ss[i]]
    <3>1. gl = [i \in 1 .. n + 1 |-> gl[i]]
      OBVIOUS
    <3> HIDE DEF gl
    <3> QED  BY <2>2, <3>1
  <2> HIDE DEF gl
  <2> QED  BY <2>3 DEF Flattens
<1>3. Nat \subseteq P
  <2> HIDE DEF P
  <2> QED  BY <1>1, <1>2, FromZero
<1> QED  BY <1>3

\* It depends on nothing behind the position it has reached.
LEMMA FlattensAgree ==
  ASSUME NEW S, NEW ss \in Seq(Seq(S)), NEW tt \in Seq(Seq(S)), NEW n \in Nat, NEW m \in Nat,
         n <= Len(ss), m <= Len(tt), n <= m, \A i \in 1 .. n : ss[i] = tt[i],
         NEW fl, NEW gl, Flattens(fl, ss, n), Flattens(gl, tt, m)
  PROVE  \A i \in 1 .. n : fl[i] = gl[i] /\ fl[i] \in Seq(S)
<1> DEFINE P == {k \in Nat : k \in 1 .. n => fl[k] = gl[k] /\ fl[k] \in Seq(S)}
<1>1. 0 \in P
  OBVIOUS
<1>2. ASSUME NEW k \in Nat, k \in P PROVE k + 1 \in P
  <2> SUFFICES ASSUME k + 1 \in 1 .. n PROVE fl[k + 1] = gl[k + 1] /\ fl[k + 1] \in Seq(S)
    OBVIOUS
  <2>1. fl[k + 1] = IF k + 1 = 1 THEN ss[k + 1] ELSE fl[(k + 1) - 1] \o ss[k + 1]
    BY DEF Flattens
  <2>2. gl[k + 1] = IF k + 1 = 1 THEN tt[k + 1] ELSE gl[(k + 1) - 1] \o tt[k + 1]
    <3>1. k + 1 \in 1 .. m
      OBVIOUS
    <3> QED  BY <3>1 DEF Flattens
  <2>3. ss[k + 1] = tt[k + 1] /\ ss[k + 1] \in Seq(S)
    OBVIOUS
  <2>4. CASE k = 0
    BY <2>1, <2>2, <2>3, <2>4
  <2>5. CASE k # 0
    <3>1. fl[k] = gl[k] /\ fl[k] \in Seq(S) /\ (k + 1) - 1 = k /\ k + 1 # 1
      BY <1>2, <2>5
    <3>2. fl[k] \o ss[k + 1] \in Seq(S)
      BY <2>3, <3>1
    <3> QED  BY <2>1, <2>2, <2>3, <3>1, <3>2
  <2> QED  BY <2>4, <2>5
<1>3. Nat \subseteq P
  <2> HIDE DEF P
  <2> QED  BY <1>1, <1>2, FromZero
<1> QED  BY <1>3

\* Nothing behind nothing.
LEMMA FlattenEmpty == FlattenSeq(<<>>) = <<>>
BY DEF FlattenSeq

\* FlattenSeq is the last of what it computes on the way.
LEMMA FlattenAt ==
  ASSUME NEW S, NEW ss \in Seq(Seq(S)), ss # <<>>
  PROVE  \E fl : Flattens(fl, ss, Len(ss)) /\ FlattenSeq(ss) = fl[Len(ss)]
<1> DEFINE fl == CHOOSE fl : Flattens(fl, ss, Len(ss))
<1>1. Flattens(fl, ss, Len(ss))
  <2>1. \E gl : Flattens(gl, ss, Len(ss))
    BY FlattensExists
  <2> HIDE DEF Flattens
  <2> QED  BY <2>1
<1>2. FlattenSeq(ss) = fl[Len(ss)]
  BY DEF FlattenSeq, Flattens
<1> QED  BY <1>1, <1>2

\* One more part comes behind the others.
LEMMA FlattenAppend ==
  ASSUME NEW S, NEW ss \in Seq(Seq(S)), NEW s \in Seq(S)
  PROVE  FlattenSeq(Append(ss, s)) = FlattenSeq(ss) \o s /\ FlattenSeq(ss) \in Seq(S)
<1> DEFINE tt == Append(ss, s)
           n == Len(ss)
<1>1. tt \in Seq(Seq(S)) /\ tt # <<>> /\ Len(tt) = n + 1 /\ n \in Nat
  BY AppendProperties
<1>2. tt[n + 1] = s /\ \A i \in 1 .. n : ss[i] = tt[i]
  OBVIOUS
<1>3. PICK gl : Flattens(gl, tt, n + 1) /\ FlattenSeq(tt) = gl[n + 1]
  BY <1>1, FlattenAt
<1>4. gl[n + 1] = IF n + 1 = 1 THEN s ELSE gl[(n + 1) - 1] \o s
  <2>1. n + 1 \in 1 .. n + 1
    BY <1>1
  <2> HIDE DEF tt, n
  <2>2. gl[n + 1] = IF n + 1 = 1 THEN tt[n + 1] ELSE gl[(n + 1) - 1] \o tt[n + 1]
    BY <1>3, <2>1 DEF Flattens
  <2> QED  BY <1>2, <2>2
<1>5. CASE ss = <<>>
  <2>1. gl[n + 1] = s /\ FlattenSeq(ss) = <<>>
    BY <1>4, <1>5, FlattenEmpty
  <2> QED  BY <1>3, <2>1
<1>6. CASE ss # <<>>
  <2>1. PICK fl : Flattens(fl, ss, n) /\ FlattenSeq(ss) = fl[n]
    BY <1>6, FlattenAt
  <2>2. n \in 1 .. n
    BY <1>6
  <2>3. \A i \in 1 .. n : fl[i] = gl[i] /\ fl[i] \in Seq(S)
    <3> HIDE DEF tt, n
    <3>1. n <= n + 1 /\ n + 1 \in Nat /\ n <= Len(ss) /\ n + 1 <= Len(tt)
      BY <1>1 DEF n
    <3> QED  BY <1>1, <1>2, <1>3, <2>1, <3>1, FlattensAgree
  <2>4. fl[n] = gl[n] /\ fl[n] \in Seq(S)
    BY <2>2, <2>3
  <2> HIDE DEF tt
  <2>5. (n + 1) - 1 = n /\ n + 1 # 1
    BY <2>2
  <2> HIDE DEF n
  <2>6. gl[n + 1] = fl[n] \o s
    BY <1>4, <2>4, <2>5
  <2>7. FlattenSeq(tt) = FlattenSeq(ss) \o s
    BY <1>3, <2>1, <2>6
  <2> QED  BY <2>1, <2>4, <2>7 DEF tt
<1> QED  BY <1>5, <1>6

\* Induction over a set of sequences, by what is appended.
LEMMA FromEmpty ==
  ASSUME NEW S, NEW P, <<>> \in P,
         \A s \in Seq(S), u \in S : s \in P => Append(s, u) \in P
  PROVE  Seq(S) \subseteq P
<1> SUFFICES ASSUME NEW s \in Seq(S) PROVE s \in P
  OBVIOUS
<1> DEFINE Q == {n \in Nat : n <= Len(s) => SubSeq(s, 1, n) \in P}
<1>1. 0 \in Q
  <2>1. SubSeq(s, 1, 0) = <<>>
    BY SubSeqEmpty
  <2> QED  BY <2>1
<1>2. ASSUME NEW n \in Nat, n \in Q PROVE n + 1 \in Q
  <2> SUFFICES ASSUME n + 1 <= Len(s) PROVE SubSeq(s, 1, n + 1) \in P
    OBVIOUS
  <2>1. SubSeq(s, 1, n) \in P /\ SubSeq(s, 1, n) \in Seq(S) /\ s[n + 1] \in S
    BY <1>2
  <2>2. SubSeq(s, 1, n + 1) = Append(SubSeq(s, 1, n), s[n + 1])
    <3>1. 1 \in 1 .. Len(s) /\ n + 1 \in 1 .. Len(s) /\ (n + 1) - 1 = n
      OBVIOUS
    <3>2. SubSeq(s, 1, n + 1) = SubSeq(s, 1, n) \o << s[n + 1] >>
      BY <3>1, SubSeqRecursiveSecond
    <3> QED  BY <2>1, <3>2, AppendIsConcat
  <2> QED  BY <2>1, <2>2
<1>3. Nat \subseteq Q
  <2> HIDE DEF Q
  <2> QED  BY <1>1, <1>2, FromZero
<1>4. Len(s) \in Nat
  OBVIOUS
<1>5. Len(s) \in Q
  <2> HIDE DEF Q
  <2> QED  BY <1>3, <1>4
<1>6. SubSeq(s, 1, Len(s)) \in P
  BY <1>4, <1>5
<1> QED  BY <1>6, SubSeqFull

\* The parts of a stream make up a stream.
LEMMA FlattenType ==
  ASSUME NEW S, NEW ss \in Seq(Seq(S))
  PROVE  FlattenSeq(ss) \in Seq(S)
<1>1. <<>> \in Seq(S)
  OBVIOUS
<1> QED  BY <1>1, FlattenAppend

\* A single part is the whole.
LEMMA FlattenOfOne ==
  ASSUME NEW S, NEW s \in Seq(S)
  PROVE  FlattenSeq(<< s >>) = s
<1>1. << s >> = Append(<<>>, s) /\ <<>> \in Seq(Seq(S))
  OBVIOUS
<1>2. FlattenSeq(<< s >>) = FlattenSeq(<<>>) \o s
  BY <1>1, FlattenAppend
<1> QED  BY <1>2, FlattenEmpty

\* The parts of two sequences: those of the first, then those of the second.
LEMMA FlattenConcat ==
  ASSUME NEW S, NEW ss \in Seq(Seq(S)), NEW tt \in Seq(Seq(S))
  PROVE  FlattenSeq(ss \o tt) = FlattenSeq(ss) \o FlattenSeq(tt)
<1> DEFINE R == Seq(S)
           P == {t \in Seq(R) : FlattenSeq(ss \o t) = FlattenSeq(ss) \o FlattenSeq(t)}
<1> HIDE DEF R
<1>r. ss \in Seq(R) /\ tt \in Seq(R)
  BY DEF R
<1>1. <<>> \in P
  <2>1. FlattenSeq(ss) \in Seq(S)
    BY FlattenType
  <2> QED  BY <1>r, <2>1, FlattenEmpty
<1>2. ASSUME NEW t \in Seq(R), NEW u \in R, t \in P PROVE Append(t, u) \in P
  <2>1. ss \o t \in Seq(R) /\ ss \o Append(t, u) = Append(ss \o t, u)
    BY <1>r
  <2>2. FlattenSeq(Append(ss \o t, u)) = FlattenSeq(ss \o t) \o u
    BY <2>1, FlattenAppend DEF R
  <2>3. FlattenSeq(Append(t, u)) = FlattenSeq(t) \o u
    BY FlattenAppend DEF R
  <2>4. FlattenSeq(ss) \in Seq(S) /\ FlattenSeq(t) \in Seq(S) /\ u \in Seq(S)
    BY FlattenType DEF R
  <2>5. (FlattenSeq(ss) \o FlattenSeq(t)) \o u = FlattenSeq(ss) \o (FlattenSeq(t) \o u)
    BY <2>4, ConcatAssociative, SMTT(30)
  <2>6. Append(t, u) \in Seq(R)
    OBVIOUS
  <2> QED  BY <1>2, <2>1, <2>2, <2>3, <2>5, <2>6
<1>3. Seq(R) \subseteq P
  <2> HIDE DEF P
  <2> QED  BY <1>1, <1>2, FromEmpty
<1> QED  BY <1>r, <1>3

\* Empty sequences leave no trace.
LEMMA FlattenSingle ==
  ASSUME NEW S, NEW ss \in Seq(Seq(S)), NEW x, \A i \in 1 .. Len(ss) : i # x => ss[i] = <<>>
  PROVE  FlattenSeq(ss) = IF x \in 1 .. Len(ss) THEN ss[x] ELSE <<>>
<1> DEFINE R == Seq(S)
           Only(t) == \A i \in 1 .. Len(t) : i # x => t[i] = <<>>
           P == {t \in Seq(R) : Only(t) => FlattenSeq(t) = IF x \in 1 .. Len(t) THEN t[x] ELSE <<>>}
<1>r. ss \in Seq(R) /\ <<>> \in R
  OBVIOUS
<1> HIDE DEF R
<1>1. <<>> \in P
  BY FlattenEmpty
<1>2. ASSUME NEW t \in Seq(R), NEW u \in R, t \in P PROVE Append(t, u) \in P
  <2> DEFINE v == Append(t, u)
             n == Len(t)
  <2>1. v \in Seq(R) /\ Len(v) = n + 1 /\ n \in Nat
    BY AppendProperties
  <2>2. v[n + 1] = u /\ \A i \in 1 .. n : v[i] = t[i]
    OBVIOUS
  <2>3. FlattenSeq(v) = FlattenSeq(t) \o u
    BY FlattenAppend DEF R
  <2>4. u \in Seq(S) /\ FlattenSeq(t) \in Seq(S)
    BY FlattenType DEF R
  <2> SUFFICES ASSUME Only(v) PROVE FlattenSeq(v) = IF x \in 1 .. Len(v) THEN v[x] ELSE <<>>
    BY <2>1
  <2> HIDE DEF v
  <2>5. Only(t)
    BY <2>1, <2>2
  <2>6. FlattenSeq(t) = IF x \in 1 .. n THEN t[x] ELSE <<>>
    BY <1>2, <2>5
  <2>7. CASE x = n + 1
    BY <2>1, <2>2, <2>3, <2>4, <2>6, <2>7
  <2>8. CASE x # n + 1
    <3>1. u = <<>> /\ FlattenSeq(v) = FlattenSeq(t)
      BY <2>1, <2>2, <2>3, <2>4, <2>8
    <3> QED  BY <2>1, <2>2, <2>6, <2>8, <3>1
  <2> QED  BY <2>7, <2>8
<1>3. Seq(R) \subseteq P
  <2> HIDE DEF P
  <2> QED  BY <1>1, <1>2, FromEmpty
<1> QED  BY <1>r, <1>3

\* Every element comes from one of the sequences, and they keep their order.
LEMMA FlattenOrder ==
  ASSUME NEW S, NEW ss \in Seq(Seq(S))
  PROVE  \E seg \in [1 .. Len(FlattenSeq(ss)) -> 1 .. Len(ss)] :
           /\ \A a \in 1 .. Len(FlattenSeq(ss)) :
                \E j \in 1 .. Len(ss[seg[a]]) : FlattenSeq(ss)[a] = ss[seg[a]][j]
           /\ \A a, b \in 1 .. Len(FlattenSeq(ss)) : a <= b => seg[a] <= seg[b]
<1> DEFINE R == Seq(S)
           Origin(seg, t) ==
              /\ \A a \in 1 .. Len(FlattenSeq(t)) :
                   \E j \in 1 .. Len(t[seg[a]]) : FlattenSeq(t)[a] = t[seg[a]][j]
              /\ \A a, b \in 1 .. Len(FlattenSeq(t)) : a <= b => seg[a] <= seg[b]
           P == {t \in Seq(R) : \E seg
             \in [1 .. Len(FlattenSeq(t)) -> 1 .. Len(t)] : Origin(seg, t)}
<1>r. ss \in Seq(R) /\ <<>> \in R
  OBVIOUS
<1> HIDE DEF R
<1>1. <<>> \in P
  <2>1. Len(FlattenSeq(<<>>)) = 0 /\ <<>> \in Seq(R)
    BY FlattenEmpty
  <2>2. [a \in 1 .. 0 |-> a] \in [1 .. 0 -> 1 .. Len(<<>>)]
    OBVIOUS
  <2>3. Origin([a \in 1 .. 0 |-> a], <<>>)
    BY <2>1
  <2> HIDE DEF Origin
  <2> QED  BY <2>1, <2>2, <2>3
<1>2. ASSUME NEW t \in Seq(R), NEW u \in R, t \in P PROVE Append(t, u) \in P
  <2> DEFINE v == Append(t, u)
             n == Len(t)
             L == Len(FlattenSeq(t))
             M == L + Len(u)
  <2>1. v \in Seq(R) /\ Len(v) = n + 1 /\ n \in Nat
    BY AppendProperties
  <2>2. v[n + 1] = u /\ \A i \in 1 .. n : v[i] = t[i]
    OBVIOUS
  <2>3. FlattenSeq(v) = FlattenSeq(t) \o u
    BY FlattenAppend DEF R
  <2>4. u \in Seq(S) /\ FlattenSeq(t) \in Seq(S) /\ Len(u) \in Nat /\ L \in Nat
    <3>1. u \in Seq(S) /\ FlattenSeq(t) \in Seq(S)
      BY FlattenType DEF R
    <3> QED  BY <3>1
  <2>5. Len(FlattenSeq(v)) = M
    BY <2>3, <2>4
  <2>6. \A a \in 1 .. M : FlattenSeq(v)[a] = IF a <= L THEN FlattenSeq(t)[a] ELSE u[a - L]
    BY <2>3, <2>4, ConcatProperties
  <2>7. PICK seg \in [1 .. L -> 1 .. n] : Origin(seg, t)
    <3> HIDE DEF Origin
    <3> QED  BY <1>2
  <2> DEFINE new == [a \in 1 .. M |-> IF a <= L THEN seg[a] ELSE n + 1]
  <2> HIDE DEF v, n, L
  <2>8. new \in [1 .. M -> 1 .. n + 1]
    BY <2>1, <2>4, <2>7
  <2>9. ASSUME NEW a \in 1 .. M
        PROVE  \E j \in 1 .. Len(v[new[a]]) : FlattenSeq(v)[a] = v[new[a]][j]
    <3>1. CASE a <= L
      <4>1. a \in 1 .. L /\ new[a] = seg[a] /\ seg[a] \in 1 .. n
        BY <2>4, <2>7, <3>1
      <4>2. PICK j \in 1 .. Len(t[seg[a]]) : FlattenSeq(t)[a] = t[seg[a]][j]
        BY <2>7, <4>1 DEF L
      <4>3. v[new[a]] = t[seg[a]] /\ FlattenSeq(v)[a] = FlattenSeq(t)[a]
        BY <2>2, <2>6, <3>1, <4>1
      <4> QED  BY <4>2, <4>3
    <3>2. CASE ~ (a <= L)
      <4>1. new[a] = n + 1 /\ v[new[a]] = u /\ a - L \in 1 .. Len(u)
        BY <2>2, <2>4, <3>2
      <4>2. FlattenSeq(v)[a] = u[a - L]
        BY <2>6, <3>2
      <4> QED  BY <4>1, <4>2
    <3> QED  BY <3>1, <3>2
  <2>10. ASSUME NEW a \in 1 .. M, NEW b \in 1 .. M, a <= b
         PROVE  new[a] <= new[b]
    <3>1. CASE b <= L
      <4>1. a \in 1 .. L /\ b \in 1 .. L /\ new[a] = seg[a] /\ new[b] = seg[b]
        BY <2>4, <2>10, <3>1
      <4> QED  BY <2>7, <2>10, <4>1 DEF L
    <3>2. CASE ~ (b <= L)
      <4>1. new[b] = n + 1 /\ new[a] \in 1 .. n + 1
        BY <2>8, <3>2
      <4> QED  BY <2>1, <4>1
    <3> QED  BY <3>1, <3>2
  <2>11. new \in [1 .. Len(FlattenSeq(v)) -> 1 .. Len(v)]
    BY <2>1, <2>5, <2>8
  <2>12. Origin(new, v)
    <3> HIDE DEF new, M
    <3> QED  BY <2>5, <2>9, <2>10
  <2> HIDE DEF Origin, new
  <2> QED  BY <2>1, <2>11, <2>12 DEF v
<1>3. Seq(R) \subseteq P
  <2> HIDE DEF P
  <2> QED  BY <1>1, <1>2, FromEmpty
<1> QED  BY <1>r, <1>3

-----------------------------------------------------------------------------
(* The fields of one member.                                               *)

Kept(T, s, f) == [i \in DOMAIN s |-> IF MemberOf(T, s[i]) = f THEN << s[i] >> ELSE <<>>]

\* The fields of one member, each in a part of its own, are streams.
LEMMA KeptType ==
  ASSUME NEW S, NEW T, NEW f, NEW s \in Seq(S)
  PROVE  /\ Kept(T, s, f) \in Seq(Seq(S)) /\ Len(Kept(T, s, f)) = Len(s)
         /\ \A i \in 1 .. Len(s) :
              Kept(T, s, f)[i] = IF MemberOf(T, s[i]) = f THEN << s[i] >> ELSE <<>>
<1> DEFINE e(i) == IF MemberOf(T, s[i]) = f THEN << s[i] >> ELSE <<>>
<1>1. Len(s) \in Nat /\ DOMAIN s = 1 .. Len(s)
  OBVIOUS
<1>2. Kept(T, s, f) = [i \in 1 .. Len(s) |-> e(i)]
  BY <1>1 DEF Kept
<1>3. \A i \in 1 .. Len(s) : e(i) \in Seq(S)
  OBVIOUS
<1> DEFINE R == Seq(S)
<1> HIDE DEF e
<1>4. \A i \in 1 .. Len(s) : e(i) \in R
  BY <1>3
<1> HIDE DEF R
<1>5. [i \in 1 .. Len(s) |-> e(i)] \in Seq(R)
  BY <1>1, <1>4
<1>6. Len([i \in 1 .. Len(s) |-> e(i)]) = Len(s)
  BY <1>1
<1> QED  BY <1>2, <1>5, <1>6 DEF R, e

\* FieldsFor joins those parts.
LEMMA FieldsForIs ==
  ASSUME NEW T, NEW s, NEW f
  PROVE  FieldsFor(T, s, f) = FlattenSeq(Kept(T, s, f))
BY DEF FieldsFor, Kept

\* The fields of one member are fields of the stream.
LEMMA FieldsType ==
  ASSUME NEW S, NEW T, NEW f, NEW s \in Seq(S)
  PROVE  FieldsFor(T, s, f) \in Seq(S)
BY FieldsForIs, KeptType, FlattenType

\* An empty stream has no fields.
LEMMA FieldsEmpty == ASSUME NEW T, NEW f PROVE FieldsFor(T, <<>>, f) = <<>>
<1>1. Kept(T, <<>>, f) = <<>>
  BY DEF Kept
<1> QED  BY <1>1, FieldsForIs, FlattenEmpty

\* The fields of two streams, one behind the other.
LEMMA FieldsConcat ==
  ASSUME NEW S, NEW T, NEW f, NEW s \in Seq(S), NEW t \in Seq(S)
  PROVE  FieldsFor(T, s \o t, f) = FieldsFor(T, s, f) \o FieldsFor(T, t, f)
<1> DEFINE q == s \o t
           a == Kept(T, s, f)
           b == Kept(T, t, f)
           c == Kept(T, q, f)
<1>1. a \in Seq(Seq(S)) /\ b \in Seq(Seq(S)) /\ Len(a) = Len(s) /\ Len(b) = Len(t)
  BY KeptType
<1>2. /\ q \in Seq(S) /\ Len(q) = Len(s) + Len(t)
      /\ \A i \in 1 .. Len(s) + Len(t) : q[i] = IF i <= Len(s) THEN s[i] ELSE t[i - Len(s)]
  BY ConcatProperties
<1> HIDE DEF q
<1>3. c \in Seq(Seq(S)) /\ Len(c) = Len(s) + Len(t)
  BY <1>2, KeptType
<1> DEFINE R == Seq(S)
<1>4. a \in Seq(R) /\ b \in Seq(R) /\ c \in Seq(R)
  BY <1>1, <1>3
<1>5. Len(s) \in Nat /\ Len(t) \in Nat
  OBVIOUS
<1>6. \A i \in 1 .. Len(q) : c[i] = IF MemberOf(T, q[i]) = f THEN << q[i] >> ELSE <<>>
  BY <1>2, KeptType
<1>7. \A i \in 1 .. Len(s) : a[i] = IF MemberOf(T, s[i]) = f THEN << s[i] >> ELSE <<>>
  BY KeptType
<1>8. \A i \in 1 .. Len(t) : b[i] = IF MemberOf(T, t[i]) = f THEN << t[i] >> ELSE <<>>
  BY KeptType
<1>9. \A i \in 1 .. Len(s) + Len(t) : c[i] = IF i <= Len(s) THEN a[i] ELSE b[i - Len(s)]
  <2> TAKE i \in 1 .. Len(s) + Len(t)
  <2>1. c[i] = IF MemberOf(T, q[i]) = f THEN << q[i] >> ELSE <<>>
    <3> HIDE DEF c
    <3> QED  BY <1>2, <1>6
  <2> HIDE DEF c, R
  <2>2. CASE i <= Len(s)
    <3>1. i \in 1 .. Len(s) /\ q[i] = s[i]
      BY <1>2, <1>5, <2>2
    <3>2. a[i] = IF MemberOf(T, s[i]) = f THEN << s[i] >> ELSE <<>>
      BY <1>7, <3>1
    <3> HIDE DEF a, b
    <3> QED  BY <2>1, <2>2, <3>1, <3>2
  <2>3. CASE ~ (i <= Len(s))
    <3>1. i - Len(s) \in 1 .. Len(t) /\ q[i] = t[i - Len(s)]
      BY <1>2, <1>5, <2>3
    <3>2. b[i - Len(s)] = IF MemberOf(T, t[i - Len(s)]) = f THEN << t[i - Len(s)] >> ELSE <<>>
      BY <1>8, <3>1
    <3> HIDE DEF a, b
    <3> QED  BY <2>1, <2>3, <3>1, <3>2
  <2> QED  BY <2>2, <2>3
<1>10. c = a \o b
  <2> HIDE DEF a, b, c, R
  <2>1. /\ a \o b \in Seq(R) /\ Len(a \o b) = Len(a) + Len(b)
        /\ \A i \in 1 .. Len(a) + Len(b) : (a \o b)[i] = IF i <= Len(a) THEN a[i] ELSE b[i - Len(a)]
    BY <1>4, ConcatProperties
  <2>2. \A i \in 1 .. Len(c) : c[i] = (a \o b)[i]
    BY <1>1, <1>3, <1>9, <2>1
  <2>3. Len(c) = Len(a \o b)
    BY <1>1, <1>3, <2>1
  <2> QED  BY <1>4, <2>1, <2>2, <2>3, SeqEqual
<1>11. FlattenSeq(a \o b) = FlattenSeq(a) \o FlattenSeq(b)
  <2> HIDE DEF a, b
  <2> QED  BY <1>1, FlattenConcat
<1>12. FieldsFor(T, q, f) = FieldsFor(T, s, f) \o FieldsFor(T, t, f)
  BY <1>10, <1>11, FieldsForIs
<1> QED  BY <1>12 DEF q

\* A stream of one field.
LEMMA FieldsOne ==
  ASSUME NEW T, NEW f, NEW u
  PROVE  FieldsFor(T, << u >>, f) = IF MemberOf(T, u) = f THEN << u >> ELSE <<>>
<1> DEFINE v == IF MemberOf(T, u) = f THEN << u >> ELSE <<>>
<1>1. v \in Seq({u})
  OBVIOUS
<1>2. Kept(T, << u >>, f) = << v >>
  BY DEF Kept
<1> HIDE DEF v
<1>3. FlattenSeq(<< v >>) = v
  BY <1>1, FlattenOfOne
<1> QED  BY <1>2, <1>3, FieldsForIs DEF v

\* A stream with one more field.
LEMMA FieldsAppend ==
  ASSUME NEW S, NEW T, NEW f, NEW s \in Seq(S), NEW u \in S
  PROVE  FieldsFor(T, Append(s, u), f) =
           IF MemberOf(T, u) = f THEN Append(FieldsFor(T, s, f), u) ELSE FieldsFor(T, s, f)
<1> DEFINE w == << u >>
           g == FieldsFor(T, s, f)
<1>1. w \in Seq(S) /\ Append(s, u) = s \o w
  BY AppendIsConcat
<1>2. g \in Seq(S)
  BY FieldsType
<1>3. FieldsFor(T, w, f) = IF MemberOf(T, u) = f THEN w ELSE <<>>
  BY FieldsOne
<1> HIDE DEF g
<1>4. g \o w = Append(g, u) /\ g \o <<>> = g
  BY <1>2, AppendIsConcat, ConcatEmptySeq
<1> HIDE DEF w
<1>5. FieldsFor(T, s \o w, f) = g \o FieldsFor(T, w, f)
  BY <1>1, FieldsConcat DEF g
<1>6. FieldsFor(T, Append(s, u), f) = g \o FieldsFor(T, w, f)
  BY <1>1, <1>5
<1>7. FieldsFor(T, Append(s, u), f) = IF MemberOf(T, u) = f THEN Append(g, u) ELSE g
  BY <1>3, <1>4, <1>6
<1> QED  BY <1>7 DEF g

\* Nothing, everything or something of a stream belongs to a member.
LEMMA FieldsPresent ==
  ASSUME NEW S, NEW T, NEW f, NEW s \in Seq(S)
  PROVE  /\ (\A i \in 1 .. Len(s) : MemberOf(T, s[i]) = f) => FieldsFor(T, s, f) = s
         /\ FieldsFor(T, s, f) # <<>> <=> \E i \in 1 .. Len(s) : MemberOf(T, s[i]) = f
<1> DEFINE All(t) == \A i \in 1 .. Len(t) : MemberOf(T, t[i]) = f
           Some(t) == \E i \in 1 .. Len(t) : MemberOf(T, t[i]) = f
           P == {t \in Seq(S) : /\ All(t) => FieldsFor(T, t, f) = t
                                /\ FieldsFor(T, t, f) # <<>> <=> Some(t)}
<1>1. <<>> \in P
  BY FieldsEmpty
<1>2. ASSUME NEW t \in Seq(S), NEW u \in S, t \in P PROVE Append(t, u) \in P
  <2> DEFINE v == Append(t, u)
  <2>1. v \in Seq(S) /\ Len(v) = Len(t) + 1 /\ Len(t) \in Nat
    OBVIOUS
  <2>2. v[Len(t) + 1] = u /\ \A i \in 1 .. Len(t) : v[i] = t[i]
    OBVIOUS
  <2>3. FieldsFor(T, v, f) = IF MemberOf(T, u) = f THEN Append(FieldsFor(T, t, f), u)
                                                  ELSE FieldsFor(T, t, f)
    BY FieldsAppend
  <2>4. FieldsFor(T, t, f) \in Seq(S)
    BY FieldsType
  <2>5. v = Append(t, u)
    OBVIOUS
  <2> HIDE DEF v
  <2>6. All(v) => MemberOf(T, u) = f /\ All(t)
    BY <2>1, <2>2
  <2>7. All(v) => FieldsFor(T, v, f) = v
    BY <1>2, <2>3, <2>5, <2>6
  <2>8. Some(v) <=> MemberOf(T, u) = f \/ Some(t)
    <3>1. Some(t) => Some(v)
      BY <2>1, <2>2
    <3>2. MemberOf(T, u) = f => Some(v)
      <4>1. Len(t) + 1 \in 1 .. Len(v)
        BY <2>1
      <4> QED  BY <2>2, <4>1
    <3>3. ASSUME NEW i \in 1 .. Len(v), MemberOf(T, v[i]) = f
          PROVE  MemberOf(T, u) = f \/ Some(t)
      <4>1. CASE i = Len(t) + 1
        BY <2>2, <3>3, <4>1
      <4>2. CASE i # Len(t) + 1
        <5>1. i \in 1 .. Len(t)
          BY <2>1, <4>2
        <5> QED  BY <2>2, <3>3, <5>1
      <4> QED  BY <4>1, <4>2
    <3> QED  BY <3>1, <3>2, <3>3
  <2>9. MemberOf(T, u) = f => FieldsFor(T, v, f) # <<>>
    BY <2>3, <2>4, AppendProperties
  <2>10. FieldsFor(T, v, f) # <<>> <=> Some(v)
    <3> HIDE DEF Some
    <3>1. FieldsFor(T, t, f) # <<>> <=> Some(t)
      BY <1>2
    <3> QED  BY <2>3, <2>8, <2>9, <3>1
  <2> HIDE DEF Some, All
  <2>11. v \in P
    BY <2>1, <2>7, <2>10
  <2> QED  BY <2>5, <2>11
<1>3. Seq(S) \subseteq P
  <2> HIDE DEF P
  <2> QED  BY <1>1, <1>2, FromEmpty
<1>4. s \in P
  BY <1>3
<1> QED  BY <1>4

\* The same of each sequence of a sequence.
Sifted(T, ss, f) == [i \in 1 .. Len(ss) |-> FieldsFor(T, ss[i], f)]

\* The fields of a stream of many parts: those of each part, in their order.
LEMMA FieldsOfFlatten ==
  ASSUME NEW S, NEW T, NEW f, NEW ss \in Seq(Seq(S))
  PROVE  /\ Sifted(T, ss, f) \in Seq(Seq(S))
         /\ FieldsFor(T, FlattenSeq(ss), f) = FlattenSeq(Sifted(T, ss, f))
<1> DEFINE R == Seq(S)
           P == {t \in Seq(R) : /\ Sifted(T, t, f) \in Seq(R)
                                /\ FieldsFor(T, FlattenSeq(t), f) = FlattenSeq(Sifted(T, t, f))}
<1>r. ss \in Seq(R) /\ <<>> \in R /\ \A u \in R : FieldsFor(T, u, f) \in R
  BY FieldsType
<1> HIDE DEF R
<1>0. Sifted(T, <<>>, f) = <<>>
  BY DEF Sifted
<1>1. <<>> \in P
  <2>1. FieldsFor(T, FlattenSeq(<<>>), f) = <<>> /\ FlattenSeq(Sifted(T, <<>>, f)) = <<>>
    BY <1>0, FieldsEmpty, FlattenEmpty
  <2>2. <<>> \in Seq(R)
    OBVIOUS
  <2>4. Sifted(T, <<>>, f) \in Seq(R)
    BY <1>0, <2>2, Zenon
  <2>3. FieldsFor(T, FlattenSeq(<<>>), f) = FlattenSeq(Sifted(T, <<>>, f))
    BY <2>1
  <2> QED  BY <2>2, <2>3, <2>4
<1>2. ASSUME NEW t \in Seq(R), NEW u \in R, t \in P PROVE Append(t, u) \in P
  <2> DEFINE v == Append(t, u)
             n == Len(t)
  <2>1. v \in Seq(R) /\ Len(v) = n + 1 /\ n \in Nat
    BY AppendProperties
  <2>2. v[n + 1] = u /\ \A i \in 1 .. n : v[i] = t[i]
    OBVIOUS
  <2>3. Sifted(T, t, f) \in Seq(R) /\ Len(Sifted(T, t, f)) = n /\ FieldsFor(T, u, f) \in R
    BY <1>2, <1>r DEF Sifted
  <2>4. Sifted(T, v, f) = Append(Sifted(T, t, f), FieldsFor(T, u, f))
    <3> DEFINE g == Sifted(T, t, f)
               x == FieldsFor(T, u, f)
               w == Append(g, x)
               z == Sifted(T, v, f)
    <3>1. g \in Seq(R) /\ Len(g) = n /\ x \in R
      BY <2>3
    <3>2. \A i \in 1 .. n : g[i] = FieldsFor(T, t[i], f)
      BY DEF Sifted
    <3>3. z \in [1 .. n + 1 -> R] /\ \A i \in 1 .. n + 1 : z[i] = FieldsFor(T, v[i], f)
      <4> HIDE DEF v
      <4>1. \A i \in 1 .. n + 1 : v[i] \in R
        BY <2>1
      <4> QED  BY <1>r, <2>1, <4>1 DEF Sifted
    <3>4. z \in Seq(R) /\ Len(z) = n + 1
      <4> HIDE DEF z, n
      <4> QED  BY <2>1, <3>3
    <3> HIDE DEF g, x, z
    <3>5. w \in Seq(R) /\ Len(w) = n + 1 /\ w[n + 1] = x /\ \A i \in 1 .. n : w[i] = g[i]
      <4> HIDE DEF n
      <4> QED  BY <2>1, <3>1
    <3> HIDE DEF w, v
    <3>6. \A i \in 1 .. n + 1 : z[i] = w[i]
      <4> TAKE i \in 1 .. n + 1
      <4>1. CASE i = n + 1
        BY <2>1, <2>2, <3>3, <3>5, <4>1 DEF x
      <4>2. CASE i # n + 1
        <5>1. i \in 1 .. n
          BY <2>1, <4>2
        <5> QED  BY <2>2, <3>2, <3>3, <3>5, <5>1
      <4> QED  BY <4>1, <4>2
    <3>7. z = w
      BY <3>4, <3>5, <3>6, SeqEqual
    <3> QED  BY <3>7 DEF w, z, g, x
  <2>5. FlattenSeq(v) = FlattenSeq(t) \o u
    BY FlattenAppend DEF R
  <2>6. FlattenSeq(t) \in Seq(S) /\ u \in Seq(S)
    BY FlattenType DEF R
  <2>7. FieldsFor(T, FlattenSeq(t) \o u, f) = FieldsFor(T, FlattenSeq(t), f) \o FieldsFor(T, u, f)
    BY <2>6, FieldsConcat
  <2> HIDE DEF v
  <2>8. FlattenSeq(Append(Sifted(T, t, f), FieldsFor(T, u, f)))
          = FlattenSeq(Sifted(T, t, f)) \o FieldsFor(T, u, f)
    BY <2>3, FlattenAppend DEF R
  <2>9. Sifted(T, v, f) \in Seq(R)
    BY <2>3, <2>4, AppendProperties
  <2>10. FieldsFor(T, FlattenSeq(t), f) = FlattenSeq(Sifted(T, t, f))
    BY <1>2
  <2>11. FieldsFor(T, FlattenSeq(v), f) = FlattenSeq(Sifted(T, v, f))
    BY <2>4, <2>5, <2>7, <2>8, <2>10
  <2>12. v \in P
    BY <2>1, <2>9, <2>11
  <2> QED  BY <2>12 DEF v
<1>3. Seq(R) \subseteq P
  <2> HIDE DEF P
  <2> QED  BY <1>1, <1>2, FromEmpty
<1>4. ss \in P
  BY <1>r, <1>3
<1> QED  BY <1>4 DEF R

-----------------------------------------------------------------------------
(* The tables.                                                             *)

WellFormed(T) ==
    LET wire == Schema[T].wire
    IN  /\ Len(wire) \in Nat /\ DOMAIN wire = 1 .. Len(wire)
        /\ \A i, j \in DOMAIN wire :
             wire[i][1] = wire[j][1] \/ wire[i][2] = wire[j][2] => i = j
        /\ Members(T) = {wire[i][2] : i \in DOMAIN wire}
        /\ DOMAIN Schema[T].bits = Members(T) \ {"entries"}
        /\ \A f, g \in DOMAIN Schema[T].bits : Bit(T, f) = Bit(T, g) => f = g

\* The tables of each type.
LEMMA IsLogEntry ==
  /\ Schema["LogEntry"].impl = LogEntryImpl /\ Schema["LogEntry"].bits = LogEntryBits
  /\ Schema["LogEntry"].clear = LogEntryClear /\ Schema["LogEntry"].wire = LogEntryWire
  /\ Schema["LogEntry"].required = LogEntryRequired /\ Schema["LogEntry"].swapped = LogEntrySwapped
BY DEF Schema, Type

LEMMA IsAppendEntriesRequest ==
  /\ Schema["AppendEntriesRequest"].impl = AppendEntriesRequestImpl
  /\ Schema["AppendEntriesRequest"].bits = AppendEntriesRequestBits
  /\ Schema["AppendEntriesRequest"].clear = AppendEntriesRequestClear
  /\ Schema["AppendEntriesRequest"].wire = AppendEntriesRequestWire
  /\ Schema["AppendEntriesRequest"].required = AppendEntriesRequestRequired
  /\ Schema["AppendEntriesRequest"].swapped = AppendEntriesRequestSwapped
BY DEF Schema, Type

LEMMA IsAppendEntriesResponse ==
  /\ Schema["AppendEntriesResponse"].impl = AppendEntriesResponseImpl
  /\ Schema["AppendEntriesResponse"].bits = AppendEntriesResponseBits
  /\ Schema["AppendEntriesResponse"].clear = AppendEntriesResponseClear
  /\ Schema["AppendEntriesResponse"].wire = AppendEntriesResponseWire
  /\ Schema["AppendEntriesResponse"].required = AppendEntriesResponseRequired
  /\ Schema["AppendEntriesResponse"].swapped = AppendEntriesResponseSwapped
BY DEF Schema, Type

LEMMA IsRequestVoteRequest ==
  /\ Schema["RequestVoteRequest"].impl = RequestVoteRequestImpl
  /\ Schema["RequestVoteRequest"].bits = RequestVoteRequestBits
  /\ Schema["RequestVoteRequest"].clear = RequestVoteRequestClear
  /\ Schema["RequestVoteRequest"].wire = RequestVoteRequestWire
  /\ Schema["RequestVoteRequest"].required = RequestVoteRequestRequired
  /\ Schema["RequestVoteRequest"].swapped = RequestVoteRequestSwapped
BY DEF Schema, Type

LEMMA IsRequestVoteResponse ==
  /\ Schema["RequestVoteResponse"].impl = RequestVoteResponseImpl
  /\ Schema["RequestVoteResponse"].bits = RequestVoteResponseBits
  /\ Schema["RequestVoteResponse"].clear = RequestVoteResponseClear
  /\ Schema["RequestVoteResponse"].wire = RequestVoteResponseWire
  /\ Schema["RequestVoteResponse"].required = RequestVoteResponseRequired
  /\ Schema["RequestVoteResponse"].swapped = RequestVoteResponseSwapped
BY DEF Schema, Type

LEMMA IsInstallSnapshotRequest ==
  /\ Schema["InstallSnapshotRequest"].impl = InstallSnapshotRequestImpl
  /\ Schema["InstallSnapshotRequest"].bits = InstallSnapshotRequestBits
  /\ Schema["InstallSnapshotRequest"].clear = InstallSnapshotRequestClear
  /\ Schema["InstallSnapshotRequest"].wire = InstallSnapshotRequestWire
  /\ Schema["InstallSnapshotRequest"].required = InstallSnapshotRequestRequired
  /\ Schema["InstallSnapshotRequest"].swapped = InstallSnapshotRequestSwapped
BY DEF Schema, Type

LEMMA IsInstallSnapshotResponse ==
  /\ Schema["InstallSnapshotResponse"].impl = InstallSnapshotResponseImpl
  /\ Schema["InstallSnapshotResponse"].bits = InstallSnapshotResponseBits
  /\ Schema["InstallSnapshotResponse"].clear = InstallSnapshotResponseClear
  /\ Schema["InstallSnapshotResponse"].wire = InstallSnapshotResponseWire
  /\ Schema["InstallSnapshotResponse"].required = InstallSnapshotResponseRequired
  /\ Schema["InstallSnapshotResponse"].swapped = InstallSnapshotResponseSwapped
BY DEF Schema, Type

LEMMA IsConfRecord ==
  /\ Schema["ConfRecord"].impl = ConfRecordImpl /\ Schema["ConfRecord"].bits = ConfRecordBits
  /\ Schema["ConfRecord"].clear = ConfRecordClear /\ Schema["ConfRecord"].wire = ConfRecordWire
  /\ Schema["ConfRecord"].required = ConfRecordRequired
  /\ Schema["ConfRecord"].swapped = ConfRecordSwapped
BY DEF Schema, Type

LEMMA IsPersistRecord ==
  /\ Schema["PersistRecord"].impl = PersistRecordImpl
  /\ Schema["PersistRecord"].bits = PersistRecordBits
  /\ Schema["PersistRecord"].clear = PersistRecordClear
  /\ Schema["PersistRecord"].wire = PersistRecordWire
  /\ Schema["PersistRecord"].required = PersistRecordRequired
  /\ Schema["PersistRecord"].swapped = PersistRecordSwapped
BY DEF Schema, Type

LEMMA IsPutAppendRequest ==
  /\ Schema["PutAppendRequest"].impl = PutAppendRequestImpl
  /\ Schema["PutAppendRequest"].bits = PutAppendRequestBits
  /\ Schema["PutAppendRequest"].clear = PutAppendRequestClear
  /\ Schema["PutAppendRequest"].wire = PutAppendRequestWire
  /\ Schema["PutAppendRequest"].required = PutAppendRequestRequired
  /\ Schema["PutAppendRequest"].swapped = PutAppendRequestSwapped
BY DEF Schema, Type

LEMMA IsPutAppendResponse ==
  /\ Schema["PutAppendResponse"].impl = PutAppendResponseImpl
  /\ Schema["PutAppendResponse"].bits = PutAppendResponseBits
  /\ Schema["PutAppendResponse"].clear = PutAppendResponseClear
  /\ Schema["PutAppendResponse"].wire = PutAppendResponseWire
  /\ Schema["PutAppendResponse"].required = PutAppendResponseRequired
  /\ Schema["PutAppendResponse"].swapped = PutAppendResponseSwapped
BY DEF Schema, Type

LEMMA IsGetRequest ==
  /\ Schema["GetRequest"].impl = GetRequestImpl /\ Schema["GetRequest"].bits = GetRequestBits
  /\ Schema["GetRequest"].clear = GetRequestClear /\ Schema["GetRequest"].wire = GetRequestWire
  /\ Schema["GetRequest"].required = GetRequestRequired
  /\ Schema["GetRequest"].swapped = GetRequestSwapped
BY DEF Schema, Type

LEMMA IsGetResponse ==
  /\ Schema["GetResponse"].impl = GetResponseImpl /\ Schema["GetResponse"].bits = GetResponseBits
  /\ Schema["GetResponse"].clear = GetResponseClear /\ Schema["GetResponse"].wire = GetResponseWire
  /\ Schema["GetResponse"].required = GetResponseRequired
  /\ Schema["GetResponse"].swapped = GetResponseSwapped
BY DEF Schema, Type

\* The tables of each type agree with each other: written once, read once, a
\* has-bit each.
LEMMA LogEntryWellFormed == WellFormed("LogEntry")
<1>1. Len(LogEntryWire) \in Nat /\ DOMAIN LogEntryWire = 1 .. Len(LogEntryWire)
  BY DEF LogEntryWire
<1>2. \A i, j \in DOMAIN LogEntryWire :
        LogEntryWire[i][1] = LogEntryWire[j][1] \/ LogEntryWire[i][2] = LogEntryWire[j][2] => i = j
  BY DEF LogEntryWire
<1>3. Members("LogEntry") = {LogEntryImpl[i] : i \in DOMAIN LogEntryImpl}
  BY IsLogEntry DEF Members, ToSet
<1>4. Members("LogEntry") = {LogEntryWire[i][2] : i \in DOMAIN LogEntryWire}
  BY <1>3 DEF LogEntryImpl, LogEntryWire
<1>5. DOMAIN LogEntryBits = Members("LogEntry") \ {"entries"}
  BY <1>3 DEF LogEntryImpl, LogEntryBits
<1>6. \A f, g \in DOMAIN LogEntryBits : LogEntryBits[f] = LogEntryBits[g] => f = g
  BY DEF LogEntryBits
<1> QED  BY IsLogEntry, <1>1, <1>2, <1>4, <1>5, <1>6 DEF WellFormed, Bit

LEMMA AppendEntriesRequestWellFormed == WellFormed("AppendEntriesRequest")
<1>1. Len(AppendEntriesRequestWire) \in Nat
        /\ DOMAIN AppendEntriesRequestWire = 1 .. Len(AppendEntriesRequestWire)
  BY DEF AppendEntriesRequestWire
<1>2. \A i, j \in DOMAIN AppendEntriesRequestWire :
        AppendEntriesRequestWire[i][1] = AppendEntriesRequestWire[j][1]
        \/ AppendEntriesRequestWire[i][2] = AppendEntriesRequestWire[j][2] => i = j
  BY DEF AppendEntriesRequestWire
<1>3. Members("AppendEntriesRequest")
        = {AppendEntriesRequestImpl[i] : i \in DOMAIN AppendEntriesRequestImpl}
  BY IsAppendEntriesRequest DEF Members, ToSet
<1>4. Members("AppendEntriesRequest")
        = {AppendEntriesRequestWire[i][2] : i \in DOMAIN AppendEntriesRequestWire}
  BY <1>3 DEF AppendEntriesRequestImpl, AppendEntriesRequestWire
<1>5. DOMAIN AppendEntriesRequestBits = Members("AppendEntriesRequest") \ {"entries"}
  BY <1>3 DEF AppendEntriesRequestImpl, AppendEntriesRequestBits
<1>6. \A f, g \in DOMAIN AppendEntriesRequestBits : AppendEntriesRequestBits[f]
        = AppendEntriesRequestBits[g] => f = g
  BY DEF AppendEntriesRequestBits
<1> QED  BY IsAppendEntriesRequest, <1>1, <1>2, <1>4, <1>5, <1>6 DEF WellFormed, Bit

LEMMA AppendEntriesResponseWellFormed == WellFormed("AppendEntriesResponse")
<1>1. Len(AppendEntriesResponseWire) \in Nat
        /\ DOMAIN AppendEntriesResponseWire = 1 .. Len(AppendEntriesResponseWire)
  BY DEF AppendEntriesResponseWire
<1>2. \A i, j \in DOMAIN AppendEntriesResponseWire :
        AppendEntriesResponseWire[i][1] = AppendEntriesResponseWire[j][1]
        \/ AppendEntriesResponseWire[i][2] = AppendEntriesResponseWire[j][2] => i = j
  BY DEF AppendEntriesResponseWire
<1>3. Members("AppendEntriesResponse")
        = {AppendEntriesResponseImpl[i] : i \in DOMAIN AppendEntriesResponseImpl}
  BY IsAppendEntriesResponse DEF Members, ToSet
<1>4. Members("AppendEntriesResponse")
        = {AppendEntriesResponseWire[i][2] : i \in DOMAIN AppendEntriesResponseWire}
  BY <1>3 DEF AppendEntriesResponseImpl, AppendEntriesResponseWire
<1>5. DOMAIN AppendEntriesResponseBits = Members("AppendEntriesResponse") \ {"entries"}
  BY <1>3 DEF AppendEntriesResponseImpl, AppendEntriesResponseBits
<1>6. \A f, g \in DOMAIN AppendEntriesResponseBits : AppendEntriesResponseBits[f]
        = AppendEntriesResponseBits[g] => f = g
  BY DEF AppendEntriesResponseBits
<1> QED  BY IsAppendEntriesResponse, <1>1, <1>2, <1>4, <1>5, <1>6 DEF WellFormed, Bit

LEMMA RequestVoteRequestWellFormed == WellFormed("RequestVoteRequest")
<1>1. Len(RequestVoteRequestWire) \in Nat
        /\ DOMAIN RequestVoteRequestWire = 1 .. Len(RequestVoteRequestWire)
  BY DEF RequestVoteRequestWire
<1>2. \A i, j \in DOMAIN RequestVoteRequestWire :
        RequestVoteRequestWire[i][1] = RequestVoteRequestWire[j][1]
        \/ RequestVoteRequestWire[i][2] = RequestVoteRequestWire[j][2] => i = j
  BY DEF RequestVoteRequestWire
<1>3. Members("RequestVoteRequest")
        = {RequestVoteRequestImpl[i] : i \in DOMAIN RequestVoteRequestImpl}
  BY IsRequestVoteRequest DEF Members, ToSet
<1>4. Members("RequestVoteRequest")
        = {RequestVoteRequestWire[i][2] : i \in DOMAIN RequestVoteRequestWire}
  BY <1>3 DEF RequestVoteRequestImpl, RequestVoteRequestWire
<1>5. DOMAIN RequestVoteRequestBits = Members("RequestVoteRequest") \ {"entries"}
  BY <1>3 DEF RequestVoteRequestImpl, RequestVoteRequestBits
<1>6. \A f, g \in DOMAIN RequestVoteRequestBits : RequestVoteRequestBits[f]
        = RequestVoteRequestBits[g] => f = g
  BY DEF RequestVoteRequestBits
<1> QED  BY IsRequestVoteRequest, <1>1, <1>2, <1>4, <1>5, <1>6 DEF WellFormed, Bit

LEMMA RequestVoteResponseWellFormed == WellFormed("RequestVoteResponse")
<1>1. Len(RequestVoteResponseWire) \in Nat
        /\ DOMAIN RequestVoteResponseWire = 1 .. Len(RequestVoteResponseWire)
  BY DEF RequestVoteResponseWire
<1>2. \A i, j \in DOMAIN RequestVoteResponseWire :
        RequestVoteResponseWire[i][1] = RequestVoteResponseWire[j][1]
        \/ RequestVoteResponseWire[i][2] = RequestVoteResponseWire[j][2] => i = j
  BY DEF RequestVoteResponseWire
<1>3. Members("RequestVoteResponse")
        = {RequestVoteResponseImpl[i] : i \in DOMAIN RequestVoteResponseImpl}
  BY IsRequestVoteResponse DEF Members, ToSet
<1>4. Members("RequestVoteResponse")
        = {RequestVoteResponseWire[i][2] : i \in DOMAIN RequestVoteResponseWire}
  BY <1>3 DEF RequestVoteResponseImpl, RequestVoteResponseWire
<1>5. DOMAIN RequestVoteResponseBits = Members("RequestVoteResponse") \ {"entries"}
  BY <1>3 DEF RequestVoteResponseImpl, RequestVoteResponseBits
<1>6. \A f, g \in DOMAIN RequestVoteResponseBits : RequestVoteResponseBits[f]
        = RequestVoteResponseBits[g] => f = g
  BY DEF RequestVoteResponseBits
<1> QED  BY IsRequestVoteResponse, <1>1, <1>2, <1>4, <1>5, <1>6 DEF WellFormed, Bit

LEMMA InstallSnapshotRequestWellFormed == WellFormed("InstallSnapshotRequest")
<1>1. Len(InstallSnapshotRequestWire) \in Nat
        /\ DOMAIN InstallSnapshotRequestWire = 1 .. Len(InstallSnapshotRequestWire)
  BY DEF InstallSnapshotRequestWire
<1>2. \A i, j \in DOMAIN InstallSnapshotRequestWire :
        InstallSnapshotRequestWire[i][1] = InstallSnapshotRequestWire[j][1]
        \/ InstallSnapshotRequestWire[i][2] = InstallSnapshotRequestWire[j][2] => i = j
  BY DEF InstallSnapshotRequestWire
<1>3. Members("InstallSnapshotRequest")
        = {InstallSnapshotRequestImpl[i] : i \in DOMAIN InstallSnapshotRequestImpl}
  BY IsInstallSnapshotRequest DEF Members, ToSet
<1>4. Members("InstallSnapshotRequest")
        = {InstallSnapshotRequestWire[i][2] : i \in DOMAIN InstallSnapshotRequestWire}
  BY <1>3 DEF InstallSnapshotRequestImpl, InstallSnapshotRequestWire
<1>5. DOMAIN InstallSnapshotRequestBits = Members("InstallSnapshotRequest") \ {"entries"}
  BY <1>3 DEF InstallSnapshotRequestImpl, InstallSnapshotRequestBits
<1>6. \A f, g \in DOMAIN InstallSnapshotRequestBits : InstallSnapshotRequestBits[f]
        = InstallSnapshotRequestBits[g] => f = g
  BY DEF InstallSnapshotRequestBits
<1> QED  BY IsInstallSnapshotRequest, <1>1, <1>2, <1>4, <1>5, <1>6 DEF WellFormed, Bit

LEMMA InstallSnapshotResponseWellFormed == WellFormed("InstallSnapshotResponse")
<1>1. Len(InstallSnapshotResponseWire) \in Nat
        /\ DOMAIN InstallSnapshotResponseWire = 1 .. Len(InstallSnapshotResponseWire)
  BY DEF InstallSnapshotResponseWire
<1>2. \A i, j \in DOMAIN InstallSnapshotResponseWire :
        InstallSnapshotResponseWire[i][1] = InstallSnapshotResponseWire[j][1]
        \/ InstallSnapshotResponseWire[i][2] = InstallSnapshotResponseWire[j][2] => i = j
  BY DEF InstallSnapshotResponseWire
<1>3. Members("InstallSnapshotResponse")
        = {InstallSnapshotResponseImpl[i] : i \in DOMAIN InstallSnapshotResponseImpl}
  BY IsInstallSnapshotResponse DEF Members, ToSet
<1>4. Members("InstallSnapshotResponse")
        = {InstallSnapshotResponseWire[i][2] : i \in DOMAIN InstallSnapshotResponseWire}
  BY <1>3 DEF InstallSnapshotResponseImpl, InstallSnapshotResponseWire
<1>5. DOMAIN InstallSnapshotResponseBits = Members("InstallSnapshotResponse") \ {"entries"}
  BY <1>3 DEF InstallSnapshotResponseImpl, InstallSnapshotResponseBits
<1>6. \A f, g \in DOMAIN InstallSnapshotResponseBits : InstallSnapshotResponseBits[f]
        = InstallSnapshotResponseBits[g] => f = g
  BY DEF InstallSnapshotResponseBits
<1> QED  BY IsInstallSnapshotResponse, <1>1, <1>2, <1>4, <1>5, <1>6 DEF WellFormed, Bit

LEMMA ConfRecordWellFormed == WellFormed("ConfRecord")
<1>1. Len(ConfRecordWire) \in Nat /\ DOMAIN ConfRecordWire = 1 .. Len(ConfRecordWire)
  BY DEF ConfRecordWire
<1>2. \A i, j \in DOMAIN ConfRecordWire :
        ConfRecordWire[i][1] = ConfRecordWire[j][1]
        \/ ConfRecordWire[i][2] = ConfRecordWire[j][2] => i = j
  BY DEF ConfRecordWire
<1>3. Members("ConfRecord") = {ConfRecordImpl[i] : i \in DOMAIN ConfRecordImpl}
  BY IsConfRecord DEF Members, ToSet
<1>4. Members("ConfRecord") = {ConfRecordWire[i][2] : i \in DOMAIN ConfRecordWire}
  BY <1>3 DEF ConfRecordImpl, ConfRecordWire
<1>5. DOMAIN ConfRecordBits = Members("ConfRecord") \ {"entries"}
  BY <1>3 DEF ConfRecordImpl, ConfRecordBits
<1>6. \A f, g \in DOMAIN ConfRecordBits : ConfRecordBits[f] = ConfRecordBits[g] => f = g
  BY DEF ConfRecordBits
<1> QED  BY IsConfRecord, <1>1, <1>2, <1>4, <1>5, <1>6 DEF WellFormed, Bit

LEMMA PersistRecordWellFormed == WellFormed("PersistRecord")
<1>1. Len(PersistRecordWire) \in Nat /\ DOMAIN PersistRecordWire = 1 .. Len(PersistRecordWire)
  BY DEF PersistRecordWire
<1>2. \A i, j \in DOMAIN PersistRecordWire :
        PersistRecordWire[i][1] = PersistRecordWire[j][1]
        \/ PersistRecordWire[i][2] = PersistRecordWire[j][2] => i = j
  BY DEF PersistRecordWire
<1>3. Members("PersistRecord") = {PersistRecordImpl[i] : i \in DOMAIN PersistRecordImpl}
  BY IsPersistRecord DEF Members, ToSet
<1>4. Members("PersistRecord") = {PersistRecordWire[i][2] : i \in DOMAIN PersistRecordWire}
  BY <1>3 DEF PersistRecordImpl, PersistRecordWire
<1>5. DOMAIN PersistRecordBits = Members("PersistRecord") \ {"entries"}
  BY <1>3 DEF PersistRecordImpl, PersistRecordBits
<1>6. \A f, g \in DOMAIN PersistRecordBits : PersistRecordBits[f] = PersistRecordBits[g] => f = g
  BY DEF PersistRecordBits
<1> QED  BY IsPersistRecord, <1>1, <1>2, <1>4, <1>5, <1>6 DEF WellFormed, Bit

LEMMA PutAppendRequestWellFormed == WellFormed("PutAppendRequest")
<1>1. Len(PutAppendRequestWire) \in Nat
        /\ DOMAIN PutAppendRequestWire = 1 .. Len(PutAppendRequestWire)
  BY DEF PutAppendRequestWire
<1>2. \A i, j \in DOMAIN PutAppendRequestWire :
        PutAppendRequestWire[i][1] = PutAppendRequestWire[j][1]
        \/ PutAppendRequestWire[i][2] = PutAppendRequestWire[j][2] => i = j
  BY DEF PutAppendRequestWire
<1>3. Members("PutAppendRequest") = {PutAppendRequestImpl[i] : i \in DOMAIN PutAppendRequestImpl}
  BY IsPutAppendRequest DEF Members, ToSet
<1>4. Members("PutAppendRequest") = {PutAppendRequestWire[i][2] : i \in DOMAIN PutAppendRequestWire}
  BY <1>3 DEF PutAppendRequestImpl, PutAppendRequestWire
<1>5. DOMAIN PutAppendRequestBits = Members("PutAppendRequest") \ {"entries"}
  BY <1>3 DEF PutAppendRequestImpl, PutAppendRequestBits
<1>6. \A f, g \in DOMAIN PutAppendRequestBits : PutAppendRequestBits[f] = PutAppendRequestBits[g]
        => f = g
  BY DEF PutAppendRequestBits
<1> QED  BY IsPutAppendRequest, <1>1, <1>2, <1>4, <1>5, <1>6 DEF WellFormed, Bit

LEMMA PutAppendResponseWellFormed == WellFormed("PutAppendResponse")
<1>1. Len(PutAppendResponseWire) \in Nat
        /\ DOMAIN PutAppendResponseWire = 1 .. Len(PutAppendResponseWire)
  BY DEF PutAppendResponseWire
<1>2. \A i, j \in DOMAIN PutAppendResponseWire :
        PutAppendResponseWire[i][1] = PutAppendResponseWire[j][1]
        \/ PutAppendResponseWire[i][2] = PutAppendResponseWire[j][2] => i = j
  BY DEF PutAppendResponseWire
<1>3. Members("PutAppendResponse") = {PutAppendResponseImpl[i] : i \in DOMAIN PutAppendResponseImpl}
  BY IsPutAppendResponse DEF Members, ToSet
<1>4. Members("PutAppendResponse")
        = {PutAppendResponseWire[i][2] : i \in DOMAIN PutAppendResponseWire}
  BY <1>3 DEF PutAppendResponseImpl, PutAppendResponseWire
<1>5. DOMAIN PutAppendResponseBits = Members("PutAppendResponse") \ {"entries"}
  BY <1>3 DEF PutAppendResponseImpl, PutAppendResponseBits
<1>6. \A f, g \in DOMAIN PutAppendResponseBits : PutAppendResponseBits[f] = PutAppendResponseBits[g]
        => f = g
  BY DEF PutAppendResponseBits
<1> QED  BY IsPutAppendResponse, <1>1, <1>2, <1>4, <1>5, <1>6 DEF WellFormed, Bit

LEMMA GetRequestWellFormed == WellFormed("GetRequest")
<1>1. Len(GetRequestWire) \in Nat /\ DOMAIN GetRequestWire = 1 .. Len(GetRequestWire)
  BY DEF GetRequestWire
<1>2. \A i, j \in DOMAIN GetRequestWire :
        GetRequestWire[i][1] = GetRequestWire[j][1]
        \/ GetRequestWire[i][2] = GetRequestWire[j][2] => i = j
  BY DEF GetRequestWire
<1>3. Members("GetRequest") = {GetRequestImpl[i] : i \in DOMAIN GetRequestImpl}
  BY IsGetRequest DEF Members, ToSet
<1>4. Members("GetRequest") = {GetRequestWire[i][2] : i \in DOMAIN GetRequestWire}
  BY <1>3 DEF GetRequestImpl, GetRequestWire
<1>5. DOMAIN GetRequestBits = Members("GetRequest") \ {"entries"}
  BY <1>3 DEF GetRequestImpl, GetRequestBits
<1>6. \A f, g \in DOMAIN GetRequestBits : GetRequestBits[f] = GetRequestBits[g] => f = g
  BY DEF GetRequestBits
<1> QED  BY IsGetRequest, <1>1, <1>2, <1>4, <1>5, <1>6 DEF WellFormed, Bit

LEMMA GetResponseWellFormed == WellFormed("GetResponse")
<1>1. Len(GetResponseWire) \in Nat /\ DOMAIN GetResponseWire = 1 .. Len(GetResponseWire)
  BY DEF GetResponseWire
<1>2. \A i, j \in DOMAIN GetResponseWire :
        GetResponseWire[i][1] = GetResponseWire[j][1]
        \/ GetResponseWire[i][2] = GetResponseWire[j][2] => i = j
  BY DEF GetResponseWire
<1>3. Members("GetResponse") = {GetResponseImpl[i] : i \in DOMAIN GetResponseImpl}
  BY IsGetResponse DEF Members, ToSet
<1>4. Members("GetResponse") = {GetResponseWire[i][2] : i \in DOMAIN GetResponseWire}
  BY <1>3 DEF GetResponseImpl, GetResponseWire
<1>5. DOMAIN GetResponseBits = Members("GetResponse") \ {"entries"}
  BY <1>3 DEF GetResponseImpl, GetResponseBits
<1>6. \A f, g \in DOMAIN GetResponseBits : GetResponseBits[f] = GetResponseBits[g] => f = g
  BY DEF GetResponseBits
<1> QED  BY IsGetResponse, <1>1, <1>2, <1>4, <1>5, <1>6 DEF WellFormed, Bit

-----------------------------------------------------------------------------
(* A message as a stream.                                                  *)

IsSeq(s) == s \in Seq(ToSet(s))

\* The members of a message without their bits are as in a new one.
FlatProper(T, m) ==
    /\ m = [has |-> m.has, mem |-> [f \in Members(T) |-> m.mem[f]]]
    /\ m.has \subseteq Bits(T)
    /\ \A f \in Members(T) \ {"entries"} : Bit(T, f) \notin m.has => m.mem[f] = Zero(f)
Proper(T, m) ==
    /\ FlatProper(T, m)
    /\ "entries" \in Members(T) =>
         /\ IsSeq(m.mem["entries"])
         /\ \A i \in DOMAIN m.mem["entries"] : FlatProper("LogEntry", m.mem["entries"][i])
    /\ "conf_record" \in Members(T) => FlatProper("ConfRecord", m.mem["conf_record"])

\* A function over 1 .. n is a sequence over what it takes.
LEMMA MapIsSeq ==
  ASSUME NEW n \in Nat, NEW S, NEW s \in [1 .. n -> S]
  PROVE  IsSeq(s) /\ Len(s) = n /\ DOMAIN s = 1 .. n
<1>1. DOMAIN s = 1 .. n /\ s \in Seq(S) /\ Len(s) = n
  OBVIOUS
<1>2. s \in [1 .. n -> ToSet(s)]
  BY <1>1 DEF ToSet
<1>3. s \in Seq(ToSet(s))
  BY <1>2
<1> QED  BY <1>1, <1>3 DEF IsSeq

\* Every sequence is one over its own elements.
LEMMA SeqOwnRange ==
  ASSUME NEW S, NEW s \in Seq(S)
  PROVE  IsSeq(s)
<1>1. Len(s) \in Nat /\ s \in [1 .. Len(s) -> S]
  OBVIOUS
<1> QED  BY <1>1, MapIsSeq

Segments(T, m) == [i \in DOMAIN Schema[T].wire |-> FieldsOf(T, m, Schema[T].wire[i])]
Content(T, m) == UNION {ToSet(Segments(T, m)[i]) : i \in DOMAIN Schema[T].wire}

\* What is written for a member: fields with its tag, a sequence of them.
LEMMA FieldsOfShape ==
  ASSUME NEW T, NEW m, WellFormed(T), Proper(T, m), NEW i \in DOMAIN Schema[T].wire
  PROVE  LET w == Schema[T].wire[i]
             fields == FieldsOf(T, m, w)
         IN  /\ IsSeq(fields)
             /\ \A j \in 1 .. Len(fields) : fields[j].tag = w[1] /\ fields[j].whole
             /\ w[2] # "entries" => (fields # <<>> <=> Bit(T, w[2]) \in m.has) /\ Len(fields) <= 1
<1> DEFINE w == Schema[T].wire[i]
           fields == FieldsOf(T, m, w)
           one(v) == << Field(w[1], v) >>
<1>0. w[2] \in Members(T)
  BY DEF WellFormed
<1>1. ASSUME NEW v PROVE IsSeq(one(v)) /\ Len(one(v)) = 1 /\ one(v)[1] = Field(w[1], v)
  <2>1. one(v) \in Seq({Field(w[1], v)})
    OBVIOUS
  <2>2. IsSeq(one(v))
    <3> HIDE DEF one
    <3> QED  BY <2>1, SeqOwnRange
  <2>3. Len(one(v)) = 1 /\ one(v)[1] = Field(w[1], v)
    OBVIOUS
  <2> QED  BY <2>2, <2>3
<1>2. ASSUME NEW v PROVE Field(w[1], v).tag = w[1] /\ Field(w[1], v).whole
  BY DEF Field
<1>3. IsSeq(<<>>) /\ Len(<<>>) = 0
  <2>1. <<>> \in Seq({})
    OBVIOUS
  <2> QED  BY <2>1, SeqOwnRange
<1>4. CASE w[2] = "entries"
  <2> DEFINE e == m.mem["entries"]
  <2>1. IsSeq(e)
    BY <1>0, <1>4 DEF Proper
  <2>2. fields = [j \in DOMAIN e |-> Field(w[1], FlatFields("LogEntry", e[j]))]
    BY <1>4 DEF FieldsOf
  <2>3. Len(e) \in Nat /\ DOMAIN e = 1 .. Len(e)
    BY <2>1 DEF IsSeq
  <2>4. fields \in [1 .. Len(e) -> ToSet(fields)]
    BY <2>2, <2>3 DEF ToSet
  <2>5. \A j \in 1 .. Len(e) : fields[j] = Field(w[1], FlatFields("LogEntry", e[j]))
    BY <2>2, <2>3
  <2> HIDE DEF fields, e
  <2>6. IsSeq(fields) /\ Len(fields) = Len(e)
    BY <2>3, <2>4, MapIsSeq
  <2>7. \A j \in 1 .. Len(fields) : fields[j].tag = w[1] /\ fields[j].whole
    BY <1>2, <2>5, <2>6
  <2> QED  BY <1>4, <2>6, <2>7 DEF fields
<1>5. CASE w[2] # "entries"
  <2>1. PICK v : fields = IF Bit(T, w[2]) \in m.has THEN one(v) ELSE <<>>
    <3>1. CASE w[2] = "conf_record"
      BY <1>5, <3>1 DEF FieldsOf
    <3>2. CASE w[2] # "conf_record"
      BY <1>5, <3>2 DEF FieldsOf, FlatField
    <3> QED  BY <3>1, <3>2
  <2> HIDE DEF fields, one, w
  <2>2. CASE Bit(T, w[2]) \in m.has
    <3>1. fields = one(v) /\ Len(fields) = 1
      BY <1>1, <2>1, <2>2
    <3>2. IsSeq(fields) /\ fields # <<>>
      BY <1>1, <1>3, <3>1
    <3>3. \A j \in 1 .. Len(fields) : fields[j].tag = w[1] /\ fields[j].whole
      BY <1>1, <1>2, <3>1
    <3> QED  BY <2>2, <3>1, <3>2, <3>3 DEF fields, w
  <2>3. CASE Bit(T, w[2]) \notin m.has
    <3>1. fields = <<>> /\ Len(fields) = 0
      BY <1>3, <2>1, <2>3
    <3> QED  BY <1>3, <2>3, <3>1 DEF fields, w
  <2> QED  BY <2>2, <2>3 DEF w
<1> QED  BY <1>4, <1>5

\* The tag of a member is read as that member's.
LEMMA TagRead ==
  ASSUME NEW T, WellFormed(T), NEW i \in DOMAIN Schema[T].wire, NEW u,
         u.tag = Schema[T].wire[i][1]
  PROVE  MemberOf(T, u) = Schema[T].wire[i][2]
<1> DEFINE w == Schema[T].wire[i]
<1>1. w \in ToSet(Schema[T].wire) /\ w[1] = u.tag
  BY DEF ToSet
<1>2. \A v \in ToSet(Schema[T].wire) : v[1] = u.tag => v = w
  BY DEF WellFormed, ToSet
<1> HIDE DEF w
<1>3. (CHOOSE v \in ToSet(Schema[T].wire) : v[1] = u.tag) = w
  BY <1>1, <1>2
<1> QED  BY <1>1, <1>3 DEF MemberOf, w

\* What Serialize writes for each row of the table is a stream.
LEMMA SegmentsType ==
  ASSUME NEW T, NEW m, WellFormed(T), Proper(T, m)
  PROVE  /\ Segments(T, m) \in Seq(Seq(Content(T, m)))
         /\ Len(Segments(T, m)) = Len(Schema[T].wire)
<1> DEFINE C == Content(T, m)
           n == Len(Schema[T].wire)
           seg(i) == FieldsOf(T, m, Schema[T].wire[i])
<1>1. n \in Nat /\ DOMAIN Schema[T].wire = 1 .. n
  BY DEF WellFormed
<1>2. \A i \in 1 .. n : Segments(T, m)[i] = seg(i)
  BY <1>1 DEF Segments
<1>3. ASSUME NEW i \in 1 .. n PROVE seg(i) \in Seq(C)
  <2>1. seg(i) \in Seq(ToSet(seg(i)))
    BY <1>1, FieldsOfShape DEF IsSeq
  <2>2. ToSet(seg(i)) \subseteq C
    BY <1>1, <1>2 DEF Content
  <2> HIDE DEF seg, C
  <2> QED  BY <2>1, <2>2, SeqMonotonic
<1> DEFINE R == Seq(C)
<1> HIDE DEF seg, C, R, n
<1>4. \A i \in 1 .. n : seg(i) \in R
  BY <1>3 DEF R
<1>5. [i \in 1 .. n |-> seg(i)] \in Seq(R) /\ Len([i \in 1 .. n |-> seg(i)]) = n
  BY <1>1, <1>4
<1>6. Segments(T, m) = [i \in 1 .. n |-> seg(i)]
  BY <1>1 DEF Segments, seg
<1> QED  BY <1>5, <1>6 DEF R, C, n

\* Serialize joins what it writes for the rows of the table.
LEMMA SerializeIs ==
  ASSUME NEW T, NEW m, WellFormed(T), Proper(T, m)
  PROVE  /\ Serialize(T, m) = FlattenSeq(Segments(T, m))
         /\ Serialize(T, m) \in Seq(Content(T, m))
<1>1. Serialize(T, m) = FlattenSeq(Segments(T, m))
  BY DEF Serialize, Segments
<1> QED  BY <1>1, SegmentsType, FlattenType

\* The fields of a member are those written for it.
LEMMA SerializeFields ==
  ASSUME NEW T, NEW m, WellFormed(T), Proper(T, m), NEW x \in DOMAIN Schema[T].wire
  PROVE  FieldsFor(T, Serialize(T, m), Schema[T].wire[x][2]) = FieldsOf(T, m, Schema[T].wire[x])
<1> DEFINE C == Content(T, m)
           ss == Segments(T, m)
           f == Schema[T].wire[x][2]
           each == Sifted(T, ss, f)
           n == Len(ss)
<1>1. /\ ss \in Seq(Seq(C)) /\ DOMAIN Schema[T].wire = 1 .. n /\ n \in Nat
      /\ Serialize(T, m) = FlattenSeq(ss)
  BY SegmentsType, SerializeIs DEF WellFormed
<1>2. each \in Seq(Seq(C)) /\ FieldsFor(T, FlattenSeq(ss), f) = FlattenSeq(each)
  <2> HIDE DEF C, ss, f
  <2> QED  BY <1>1, FieldsOfFlatten
<1>3. ASSUME NEW i \in 1 .. n
      PROVE  /\ ss[i] \in Seq(C)
             /\ \A j \in 1 .. Len(ss[i]) : MemberOf(T, ss[i][j]) = Schema[T].wire[i][2]
  <2>1. ss[i] = FieldsOf(T, m, Schema[T].wire[i])
    BY <1>1 DEF Segments
  <2>2. \A j \in 1 .. Len(ss[i]) : ss[i][j].tag = Schema[T].wire[i][1]
    BY <1>1, <2>1, FieldsOfShape
  <2>3. ss[i] \in Seq(C)
    <3> HIDE DEF ss, C
    <3> QED  BY <1>1
  <2> HIDE DEF ss
  <2>4. \A j \in 1 .. Len(ss[i]) : MemberOf(T, ss[i][j]) = Schema[T].wire[i][2]
    BY <1>1, <2>2, TagRead
  <2> QED  BY <2>3, <2>4
<1>4. ASSUME NEW i \in 1 .. n
      PROVE  FieldsFor(T, ss[i], f) = IF i = x THEN ss[i] ELSE <<>>
  <2>1. i = x <=> Schema[T].wire[i][2] = f
    BY <1>1 DEF WellFormed
  <2>2. CASE i = x
    <3> HIDE DEF ss, C
    <3> QED  BY <1>3, <2>1, <2>2, FieldsPresent
  <2>3. CASE i # x
    <3> HIDE DEF ss, C, f
    <3>1. \A j \in 1 .. Len(ss[i]) : MemberOf(T, ss[i][j]) # f
      BY <1>3, <2>1, <2>3
    <3> QED  BY <1>3, <2>3, <3>1, FieldsPresent
  <2> QED  BY <2>2, <2>3
<1>5. FlattenSeq(each) = ss[x]
  <2>1. Len(each) = n /\ \A i \in 1 .. n : each[i] = IF i = x THEN ss[i] ELSE <<>>
    <3> HIDE DEF ss, f
    <3> QED  BY <1>1, <1>4 DEF Sifted
  <2> HIDE DEF each, C, ss, n
  <2>2. FlattenSeq(each) = IF x \in 1 .. Len(each) THEN each[x] ELSE <<>>
    BY <1>2, <2>1, FlattenSingle
  <2> QED  BY <1>1, <2>1, <2>2
<1>6. ss[x] = FieldsOf(T, m, Schema[T].wire[x])
  BY <1>1 DEF Segments
<1> QED  BY <1>1, <1>2, <1>5, <1>6

-----------------------------------------------------------------------------
(* Reading what was written: one message, or two, the second behind the     *)
(* first.                                                                  *)

\* The two streams are sequences over one set.
LEMMA TwoStreams ==
  ASSUME NEW T, NEW m, NEW n, WellFormed(T), Proper(T, m), Proper(T, n)
  PROVE  /\ Serialize(T, m) \in Seq(Content(T, m) \cup Content(T, n))
         /\ Serialize(T, n) \in Seq(Content(T, m) \cup Content(T, n))
<1> DEFINE A == Content(T, m)
           B == Content(T, n)
<1>1. Serialize(T, m) \in Seq(A) /\ Serialize(T, n) \in Seq(B)
  BY SerializeIs
<1>2. A \subseteq A \cup B /\ B \subseteq A \cup B
  OBVIOUS
<1> HIDE DEF A, B
<1>3. Serialize(T, m) \in Seq(A \cup B) /\ Serialize(T, n) \in Seq(A \cup B)
  BY <1>1, <1>2, SeqMonotonic
<1> QED  BY <1>3 DEF A, B

\* Of two messages, one behind the other, a member's fields are those of the
\* two.
LEMMA FieldsOfTwo ==
  ASSUME NEW T, NEW m, NEW n, WellFormed(T), Proper(T, m), Proper(T, n),
         NEW x \in DOMAIN Schema[T].wire
  PROVE  FieldsFor(T, Serialize(T, m) \o Serialize(T, n), Schema[T].wire[x][2]) =
           FieldsOf(T, m, Schema[T].wire[x]) \o FieldsOf(T, n, Schema[T].wire[x])
<1> DEFINE f == Schema[T].wire[x][2]
<1>1. FieldsFor(T, Serialize(T, m) \o Serialize(T, n), f) =
        FieldsFor(T, Serialize(T, m), f) \o FieldsFor(T, Serialize(T, n), f)
  <2> DEFINE S == Content(T, m) \cup Content(T, n)
             p == Serialize(T, m)
             q == Serialize(T, n)
  <2>1. p \in Seq(S) /\ q \in Seq(S)
    BY TwoStreams
  <2> HIDE DEF f, S, p, q
  <2>2. FieldsFor(T, p \o q, f) = FieldsFor(T, p, f) \o FieldsFor(T, q, f)
    BY <2>1, FieldsConcat
  <2> QED  BY <2>2 DEF p, q
<1> QED  BY <1>1, SerializeFields

\* Every member has its place in the stream.
LEMMA WireOf ==
  ASSUME NEW T, WellFormed(T), NEW f \in Members(T)
  PROVE  \E x \in DOMAIN Schema[T].wire : Schema[T].wire[x][2] = f
BY DEF WellFormed

\* Every member has a has-bit of its own, but the repeated one.
LEMMA BitOf ==
  ASSUME NEW T, WellFormed(T)
  PROVE  /\ DOMAIN Schema[T].bits = Members(T) \ {"entries"}
         /\ \A f, g \in DOMAIN Schema[T].bits : Bit(T, f) = Bit(T, g) => f = g
BY DEF WellFormed

\* Two streams, of which one may be empty.
LEMMA ConcatEmpty ==
  ASSUME NEW a, NEW b, IsSeq(a), IsSeq(b)
  PROVE  /\ a \o b # <<>> <=> a # <<>> \/ b # <<>>
         /\ IsSeq(a \o b)
         /\ a \o <<>> = a /\ <<>> \o a = a
<1> DEFINE S == ToSet(a) \cup ToSet(b)
<1>1. a \in Seq(ToSet(a)) /\ b \in Seq(ToSet(b))
  BY DEF IsSeq
<1>2. ToSet(a) \subseteq S /\ ToSet(b) \subseteq S
  OBVIOUS
<1> HIDE DEF S
<1>3. a \in Seq(S) /\ b \in Seq(S)
  BY <1>1, <1>2, SeqMonotonic
<1>4. a \o b \in Seq(S)
  BY <1>3, ConcatProperties
<1>5. IsSeq(a \o b)
  BY <1>4, SeqOwnRange
<1>6. a \o b # <<>> <=> a # <<>> \/ b # <<>>
  BY <1>3, ConcatEqualIffEmpty
<1> QED  BY <1>3, <1>5, <1>6, ConcatEmptySeq

\* Every has-bit of either message is set again, and no other.
LEMMA ReadBits ==
  ASSUME NEW T, NEW m, NEW n, WellFormed(T), Proper(T, m), Proper(T, n)
  PROVE  ParsedBits(T, Serialize(T, m) \o Serialize(T, n)) = m.has \cup n.has
<1> DEFINE s == Serialize(T, m) \o Serialize(T, n)
           there == {g \in DOMAIN Schema[T].bits : FieldsFor(T, s, g) # <<>>}
<1>1. ASSUME NEW g \in DOMAIN Schema[T].bits
      PROVE  FieldsFor(T, s, g) # <<>> <=> Bit(T, g) \in m.has \cup n.has
  <2>1. g \in Members(T) /\ g # "entries"
    BY BitOf
  <2>2. PICK x \in DOMAIN Schema[T].wire : Schema[T].wire[x][2] = g
    BY <2>1, WireOf
  <2> DEFINE a == FieldsOf(T, m, Schema[T].wire[x])
             b == FieldsOf(T, n, Schema[T].wire[x])
  <2>3. FieldsFor(T, s, g) = a \o b
    BY <2>2, FieldsOfTwo
  <2>4. IsSeq(a) /\ (a # <<>> <=> Bit(T, g) \in m.has)
    BY <2>1, <2>2, FieldsOfShape
  <2>5. IsSeq(b) /\ (b # <<>> <=> Bit(T, g) \in n.has)
    BY <2>1, <2>2, FieldsOfShape
  <2> HIDE DEF a, b, s
  <2> QED  BY <2>3, <2>4, <2>5, ConcatEmpty
<1>2. there = {g \in DOMAIN Schema[T].bits : Bit(T, g) \in m.has \cup n.has}
  <2> HIDE DEF s
  <2> QED  BY <1>1
<1>3. m.has \subseteq Bits(T) /\ n.has \subseteq Bits(T)
  BY DEF Proper, FlatProper
<1>4. {Bit(T, f) : f \in there} = m.has \cup n.has
  <2> HIDE DEF there
  <2> QED  BY <1>2, <1>3 DEF Bits
<1> QED  BY <1>4 DEF ParsedBits

\* The last value of a plain member wins.
LEMMA ReadPlain ==
  ASSUME NEW T, NEW m, NEW n, WellFormed(T), Proper(T, m), Proper(T, n),
         NEW f \in Members(T), f \notin {"entries", "conf_record"}, NEW to
  PROVE  LastOf(T, to, Serialize(T, m) \o Serialize(T, n), f) =
           IF Bit(T, f) \in n.has THEN n.mem[f]
           ELSE IF Bit(T, f) \in m.has THEN m.mem[f] ELSE to.mem[f]
<1> DEFINE s == Serialize(T, m) \o Serialize(T, n)
<1>1. PICK x \in DOMAIN Schema[T].wire : Schema[T].wire[x][2] = f
  BY WireOf
<1> DEFINE w == Schema[T].wire[x]
           one(p) == << Field(w[1], p.mem[f]) >>
           fields == FieldsFor(T, s, f)
<1>2. ASSUME NEW p
      PROVE  FieldsOf(T, p, w) = IF Bit(T, f) \in p.has THEN one(p) ELSE <<>>
  BY <1>1 DEF FieldsOf, FlatField
<1>3. fields = FieldsOf(T, m, w) \o FieldsOf(T, n, w)
  BY <1>1, FieldsOfTwo
<1>4. LastOf(T, to, s, f) = IF fields = <<>> THEN to.mem[f] ELSE Last(fields).val
  BY DEF LastOf
<1>5. IsSeq(<<>>) /\ \A p : one(p)[1].val = p.mem[f] /\ one(p)[1] = Field(w[1], p.mem[f])
  <2>1. <<>> \in Seq({})
    OBVIOUS
  <2> QED  BY <2>1, SeqOwnRange DEF Field
<1>a. IsSeq(FieldsOf(T, m, w)) /\ IsSeq(FieldsOf(T, n, w))
  BY FieldsOfShape
<1> HIDE DEF s, fields
<1>6. CASE Bit(T, f) \in n.has
  <2>1. Last(fields) = one(n)[1] /\ fields # <<>>
    <3>1. CASE Bit(T, f) \in m.has
      <4>1. fields = one(m) \o one(n)
        BY <1>2, <1>3, <1>6, <3>1
      <4> QED  BY <4>1 DEF Last
    <3>2. CASE Bit(T, f) \notin m.has
      <4>0. FieldsOf(T, m, w) = <<>> /\ FieldsOf(T, n, w) = one(n)
        BY <1>2, <1>6, <3>2
      <4>1. fields = one(n)
        <5> HIDE DEF one, w
        <5> QED  BY <1>3, <1>a, <4>0, ConcatEmpty
      <4> QED  BY <4>1 DEF Last
    <3> QED  BY <3>1, <3>2
  <2> HIDE DEF one
  <2> QED  BY <1>4, <1>5, <1>6, <2>1 DEF s
<1>7. CASE Bit(T, f) \notin n.has /\ Bit(T, f) \in m.has
  <2>0. FieldsOf(T, m, w) = one(m) /\ FieldsOf(T, n, w) = <<>>
    BY <1>2, <1>7
  <2>1. fields = one(m)
    <3> HIDE DEF one, w
    <3> QED  BY <1>3, <1>a, <2>0, ConcatEmpty
  <2>2. Last(fields) = one(m)[1] /\ fields # <<>>
    BY <2>1 DEF Last
  <2> HIDE DEF one
  <2> QED  BY <1>4, <1>5, <1>7, <2>2 DEF s
<1>8. CASE Bit(T, f) \notin n.has /\ Bit(T, f) \notin m.has
  <2>0. FieldsOf(T, m, w) = <<>> /\ FieldsOf(T, n, w) = <<>>
    BY <1>2, <1>8
  <2>1. fields = <<>>
    <3> HIDE DEF one, w
    <3> QED  BY <1>3, <1>a, <2>0, ConcatEmpty
  <2> QED  BY <1>4, <1>8, <2>1 DEF s
<1> QED  BY <1>6, <1>7, <1>8

-----------------------------------------------------------------------------
(* The two nested types.                                                   *)

IsFlat(T) == WellFormed(T) /\ "entries" \notin Members(T) /\ "conf_record" \notin Members(T)

\* A type without nested messages: a new message, and what a proper one is.
LEMMA FlatNew ==
  ASSUME NEW T, IsFlat(T)
  PROVE  /\ Flat(T) = New(T) /\ FlatProper(T, Flat(T))
         /\ \A m : Proper(T, m) <=> FlatProper(T, m)
<1>1. \A f \in Members(T) : Zero(f) = 0
  BY DEF IsFlat, Zero
<1>2. Flat(T) = New(T)
  BY <1>1 DEF Flat, New
<1>3. FlatProper(T, Flat(T))
  BY <1>1 DEF FlatProper, Flat
<1>4. \A m : Proper(T, m) <=> FlatProper(T, m)
  BY DEF Proper, IsFlat
<1> QED  BY <1>2, <1>3, <1>4

\* The writer of a nested message is Serialize at its type.
LEMMA FlatSerialize ==
  ASSUME NEW T, IsFlat(T), NEW m
  PROVE  FlatFields(T, m) = Serialize(T, m)
<1> DEFINE wire == Schema[T].wire
<1>1. \A i \in DOMAIN wire : wire[i][2] \in Members(T)
  BY DEF IsFlat, WellFormed
<1>2. \A i \in DOMAIN wire : FieldsOf(T, m, wire[i]) = FlatField(T, m, wire[i])
  BY <1>1 DEF IsFlat, FieldsOf
<1>3. [i \in DOMAIN wire |-> FieldsOf(T, m, wire[i])]
        = [i \in DOMAIN wire |-> FlatField(T, m, wire[i])]
  BY <1>2
<1> QED  BY <1>3 DEF FlatFields, Serialize

\* Two flat messages, one behind the other, are read as the merged one.
LEMMA FlatReadTwo ==
  ASSUME NEW T, IsFlat(T), NEW m, NEW n, FlatProper(T, m), FlatProper(T, n)
  PROVE  FlatParse(T, Flat(T), FlatFields(T, m) \o FlatFields(T, n)) = FlatMerge(T, m, n)
<1> DEFINE s == Serialize(T, m) \o Serialize(T, n)
<1>1. FlatFields(T, m) \o FlatFields(T, n) = s
  BY FlatSerialize
<1>2. WellFormed(T) /\ Proper(T, m) /\ Proper(T, n)
  BY FlatNew DEF IsFlat
<1>3. ParsedBits(T, s) = m.has \cup n.has
  BY <1>2, ReadBits
<1>4. ASSUME NEW f \in Members(T)
      PROVE  LastOf(T, Flat(T), s, f) = IF Bit(T, f) \in n.has THEN n.mem[f] ELSE m.mem[f]
  <2>1. f \notin {"entries", "conf_record"}
    BY DEF IsFlat
  <2>2. Bit(T, f) \notin m.has => m.mem[f] = Flat(T).mem[f]
    BY <2>1 DEF FlatProper, Flat, Zero
  <2>3. LastOf(T, Flat(T), s, f) =
          IF Bit(T, f) \in n.has THEN n.mem[f]
          ELSE IF Bit(T, f) \in m.has THEN m.mem[f] ELSE Flat(T).mem[f]
    BY <1>2, <2>1, ReadPlain
  <2> HIDE DEF s
  <2> QED  BY <2>2, <2>3
<1> HIDE DEF s
<1>5. FlatParse(T, Flat(T), s) = FlatMerge(T, m, n)
  <2>1. [f \in Members(T) |-> LastOf(T, Flat(T), s, f)] =
          [f \in Members(T) |-> IF Bit(T, f) \in n.has THEN n.mem[f] ELSE m.mem[f]]
    BY <1>4
  <2>2. Flat(T).has = {}
    BY DEF Flat
  <2> QED  BY <1>3, <2>1, <2>2 DEF FlatParse, FlatMerge
<1> QED  BY <1>1, <1>5

\* A new message is written as nothing, and nothing merged changes nothing.
LEMMA NewIsEmpty ==
  ASSUME NEW T, IsFlat(T)
  PROVE  FlatFields(T, Flat(T)) = <<>>
<1> DEFINE wire == Schema[T].wire
           ss == [i \in DOMAIN wire |-> FlatField(T, Flat(T), wire[i])]
<1>1. \A i \in DOMAIN wire : ss[i] = <<>>
  BY DEF FlatField, Flat
<1>2. ss \in Seq(Seq({})) /\ Len(ss) = Len(wire) /\ Len(wire) \in Nat
  <2>1. Len(wire) \in Nat /\ DOMAIN wire = 1 .. Len(wire) /\ <<>> \in Seq({})
    BY DEF IsFlat, WellFormed
  <2>2. ss \in [1 .. Len(wire) -> Seq({})]
    <3> HIDE DEF wire
    <3> QED  BY <1>1, <2>1
  <2> HIDE DEF ss, wire
  <2> QED  BY <2>1, <2>2
<1>3. FlattenSeq(ss) = <<>>
  <2>1. DOMAIN wire = 1 .. Len(wire)
    BY DEF IsFlat, WellFormed
  <2> HIDE DEF ss, wire
  <2>2. \A i \in 1 .. Len(ss) : ss[i] = <<>>
    BY <1>1, <1>2, <2>1
  <2>3. 0 \notin 1 .. Len(ss)
    BY <1>2
  <2> QED  BY <1>2, <2>2, <2>3, FlattenSingle
<1> QED  BY <1>3 DEF FlatFields

\* A message without nested ones is read as it was written.
LEMMA FlatRead ==
  ASSUME NEW T, IsFlat(T), NEW m, FlatProper(T, m)
  PROVE  FlatParse(T, Flat(T), FlatFields(T, m)) = m
<1>1. FlatParse(T, Flat(T), FlatFields(T, m) \o FlatFields(T, Flat(T))) = FlatMerge(T, m, Flat(T))
  BY FlatNew, FlatReadTwo
<1>2. FlatFields(T, m) \o FlatFields(T, Flat(T)) = FlatFields(T, m)
  <2>1. FlatFields(T, m) \in Seq(Content(T, m))
    BY FlatNew, FlatSerialize, SerializeIs DEF IsFlat
  <2> QED  BY <2>1, NewIsEmpty, ConcatEmptySeq
<1>3. FlatMerge(T, m, Flat(T)) = m
  <2>1. Flat(T).has = {}
    BY DEF Flat
  <2>2. FlatMerge(T, m, Flat(T)) = [has |-> m.has, mem |-> [f \in Members(T) |-> m.mem[f]]]
    BY <2>1 DEF FlatMerge
  <2> QED  BY <2>2 DEF FlatProper
<1> QED  BY <1>1, <1>2, <1>3

-----------------------------------------------------------------------------
(* Reading the repeated member and the nested one.                         *)

\* What ParsedEntries adds: a message for each field.
ReadEach(fields) == [i \in DOMAIN fields |-> FlatParse("LogEntry", Flat("LogEntry"), fields[i].val)]

\* The two nested types hold no messages themselves.
LEMMA LogEntryFlat == IsFlat("LogEntry") /\ IsFlat("ConfRecord")
<1>1. Members("LogEntry") = {LogEntryImpl[i] : i \in DOMAIN LogEntryImpl}
  BY IsLogEntry DEF Members, ToSet
<1>2. "entries" \notin Members("LogEntry") /\ "conf_record" \notin Members("LogEntry")
  BY <1>1 DEF LogEntryImpl
<1>3. Members("ConfRecord") = {ConfRecordImpl[i] : i \in DOMAIN ConfRecordImpl}
  BY IsConfRecord DEF Members, ToSet
<1>4. "entries" \notin Members("ConfRecord") /\ "conf_record" \notin Members("ConfRecord")
  BY <1>3 DEF ConfRecordImpl
<1> QED  BY LogEntryWellFormed, ConfRecordWellFormed, <1>2, <1>4 DEF IsFlat

\* Two beginnings of the numbers that are the same end at the same number.
LEMMA SameLength ==
  ASSUME NEW n \in Nat, NEW k \in Nat, 1 .. n = 1 .. k
  PROVE  n = k
<1>1. \A i \in Nat : i \in 1 .. n <=> i \in 1 .. k
  OBVIOUS
<1>2. n <= k
  <2>1. CASE n = 0  BY <2>1
  <2>2. CASE n # 0  BY <1>1, <2>2
  <2> QED  BY <2>1, <2>2
<1>3. k <= n
  <2>1. CASE k = 0  BY <2>1
  <2>2. CASE k # 0  BY <1>1, <2>2
  <2> QED  BY <2>1, <2>2
<1> QED  BY <1>2, <1>3

\* What is written for the entries: one field each, which is read back.
LEMMA EntriesWritten ==
  ASSUME NEW T, NEW m, WellFormed(T), Proper(T, m), NEW x \in DOMAIN Schema[T].wire,
         Schema[T].wire[x][2] = "entries"
  PROVE  LET a == FieldsOf(T, m, Schema[T].wire[x])
             e == m.mem["entries"]
         IN  /\ IsSeq(a) /\ IsSeq(e) /\ Len(a) = Len(e) /\ Len(e) \in Nat
             /\ \A i \in 1 .. Len(e) :
                  FlatParse("LogEntry", Flat("LogEntry"), a[i].val) = e[i]
<1> DEFINE a == FieldsOf(T, m, Schema[T].wire[x])
           e == m.mem["entries"]
           t == Schema[T].wire[x][1]
<1>1. "entries" \in Members(T)
  BY DEF WellFormed
<1>2. IsSeq(e) /\ \A i \in DOMAIN e : FlatProper("LogEntry", e[i])
  BY <1>1 DEF Proper
<1>3. a = [i \in DOMAIN e |-> Field(t, FlatFields("LogEntry", e[i]))]
  BY DEF FieldsOf
<1>4. IsSeq(a)
  BY FieldsOfShape
<1>5. DOMAIN e = 1 .. Len(e) /\ Len(e) \in Nat /\ DOMAIN a = 1 .. Len(a) /\ Len(a) \in Nat
  BY <1>2, <1>4 DEF IsSeq
<1>6. Len(a) = Len(e)
  <2>1. DOMAIN a = DOMAIN e
    BY <1>3
  <2> HIDE DEF a, e
  <2>2. 1 .. Len(a) = 1 .. Len(e)
    BY <1>5, <2>1
  <2> QED  BY <1>5, <2>2, SameLength
<1>7. ASSUME NEW i \in 1 .. Len(e)
      PROVE  FlatParse("LogEntry", Flat("LogEntry"), a[i].val) = e[i]
  <2>1. a[i] = Field(t, FlatFields("LogEntry", e[i]))
    <3>1. i \in DOMAIN e
      BY <1>5
    <3> HIDE DEF a, e, t
    <3>2. a[i] = [j \in DOMAIN e |-> Field(t, FlatFields("LogEntry", e[j]))][i]
      BY <1>3
    <3> QED  BY <3>1, <3>2
  <2>a. a[i].val = FlatFields("LogEntry", e[i])
    <3> HIDE DEF a, e, t
    <3> QED  BY <2>1 DEF Field
  <2>2. FlatProper("LogEntry", e[i])
    BY <1>2, <1>5
  <2> HIDE DEF a, e
  <2> QED  BY <2>a, <2>2, LogEntryFlat, FlatRead
<1> QED  BY <1>2, <1>4, <1>5, <1>6, <1>7

\* The entries that are read: one for each field.
LEMMA ReadEachSeq ==
  ASSUME NEW fields, IsSeq(fields)
  PROVE  /\ IsSeq(ReadEach(fields)) /\ Len(ReadEach(fields)) = Len(fields)
         /\ \A i \in 1 .. Len(fields) :
              ReadEach(fields)[i] = FlatParse("LogEntry", Flat("LogEntry"), fields[i].val)
<1> DEFINE r == ReadEach(fields)
<1>1. Len(fields) \in Nat /\ DOMAIN fields = 1 .. Len(fields)
  BY DEF IsSeq
<1>2. r \in [1 .. Len(fields) -> ToSet(r)]
  BY <1>1 DEF ReadEach, ToSet
<1>3. \A i \in 1 .. Len(fields) : r[i] = FlatParse("LogEntry", Flat("LogEntry"), fields[i].val)
  BY <1>1 DEF ReadEach
<1> HIDE DEF r
<1>4. IsSeq(r) /\ Len(r) = Len(fields)
  BY <1>1, <1>2, MapIsSeq
<1> QED  BY <1>3, <1>4 DEF r

\* The entries of two messages, one behind the other, are read as their entries
\* joined.
LEMMA ReadEntries ==
  ASSUME NEW T, NEW m, NEW n, WellFormed(T), Proper(T, m), Proper(T, n), "entries" \in Members(T)
  PROVE  ParsedEntries(<<>>, FieldsFor(T, Serialize(T, m) \o Serialize(T, n), "entries")) =
           m.mem["entries"] \o n.mem["entries"]
<1>1. PICK x \in DOMAIN Schema[T].wire : Schema[T].wire[x][2] = "entries"
  BY WireOf
<1> DEFINE a == FieldsOf(T, m, Schema[T].wire[x])
           b == FieldsOf(T, n, Schema[T].wire[x])
           d == m.mem["entries"]
           e == n.mem["entries"]
           fields == a \o b
           both == d \o e
           P(v) == FlatParse("LogEntry", Flat("LogEntry"), v)
           S == ToSet(a) \cup ToSet(b)
           E == ToSet(d) \cup ToSet(e)
<1>2. FieldsFor(T, Serialize(T, m) \o Serialize(T, n), "entries") = fields
  BY <1>1, FieldsOfTwo
<1>3. /\ IsSeq(a) /\ IsSeq(d) /\ Len(a) = Len(d) /\ Len(d) \in Nat
      /\ \A i \in 1 .. Len(d) : P(a[i].val) = d[i]
  BY <1>1, EntriesWritten
<1>4. /\ IsSeq(b) /\ IsSeq(e) /\ Len(b) = Len(e) /\ Len(e) \in Nat
      /\ \A i \in 1 .. Len(e) : P(b[i].val) = e[i]
  BY <1>1, EntriesWritten
<1>5. a \in Seq(S) /\ b \in Seq(S) /\ d \in Seq(E) /\ e \in Seq(E)
  <2>1. ToSet(a) \subseteq S /\ ToSet(b) \subseteq S /\ ToSet(d) \subseteq E /\ ToSet(e) \subseteq E
    OBVIOUS
  <2> HIDE DEF a, b, d, e, S, E
  <2> QED  BY <1>3, <1>4, <2>1, SeqMonotonic DEF IsSeq
<1> HIDE DEF a, b, d, e, S, E, P
<1>6. /\ fields \in Seq(S) /\ Len(fields) = Len(a) + Len(b)
      /\ \A i \in 1 .. Len(fields) : fields[i] = IF i <= Len(a) THEN a[i] ELSE b[i - Len(a)]
      /\ both \in Seq(E) /\ Len(both) = Len(d) + Len(e)
      /\ \A i \in 1 .. Len(both) : both[i] = IF i <= Len(d) THEN d[i] ELSE e[i - Len(d)]
  BY <1>5, ConcatProperties
<1> HIDE DEF fields, both
<1> DEFINE r == ReadEach(fields)
<1>7. IsSeq(fields)
  BY <1>6, SeqOwnRange
<1>8. IsSeq(r) /\ Len(r) = Len(fields) /\ \A i \in 1 .. Len(fields) : r[i] = P(fields[i].val)
  BY <1>7, ReadEachSeq DEF P
<1> HIDE DEF r
<1>9. ASSUME NEW i \in 1 .. Len(both) PROVE r[i] = both[i]
  <2>1. CASE i <= Len(d)
    BY <1>3, <1>4, <1>6, <1>8, <2>1
  <2>2. CASE ~ (i <= Len(d))
    <3>1. i - Len(d) \in 1 .. Len(e) /\ i \in 1 .. Len(fields)
      BY <1>3, <1>4, <1>6, <2>2
    <3>2. fields[i] = b[i - Len(d)] /\ both[i] = e[i - Len(d)]
      BY <1>3, <1>6, <2>2, <3>1
    <3> QED  BY <1>4, <1>8, <3>1, <3>2
  <2> QED  BY <2>1, <2>2
<1>10. r = both
  <2>1. r \in Seq(ToSet(r)) /\ Len(r) = Len(both) /\ IsSeq(both)
    BY <1>3, <1>4, <1>6, <1>8, SeqOwnRange DEF IsSeq
  <2>2. both \in Seq(ToSet(both))
    BY <2>1 DEF IsSeq
  <2> QED  BY <1>9, <2>1, <2>2
<1>11. <<>> \o r = r
  BY <1>8, ConcatEmptySeq DEF IsSeq
<1>12. ParsedEntries(<<>>, fields) = <<>> \o r
  BY DEF ParsedEntries, r, ReadEach
<1> QED  BY <1>2, <1>10, <1>11, <1>12 DEF both, d, e

-----------------------------------------------------------------------------

\* What ParsedConf reads: the fields of all records one behind the other.
AllOf(fields) == [i \in DOMAIN fields |-> fields[i].val]

\* Two parts.
LEMMA FlattenOfTwo ==
  ASSUME NEW S, NEW p \in Seq(S), NEW q \in Seq(S)
  PROVE  FlattenSeq(<< p, q >>) = p \o q
<1> DEFINE R == Seq(S)
           u == << p >>
<1>1. p \in R
  OBVIOUS
<1>2. << p, q >> = Append(u, q)
  OBVIOUS
<1> HIDE DEF R
<1>3. u \in Seq(R)
  BY <1>1
<1>4. FlattenSeq(u) = p
  BY FlattenOfOne
<1> HIDE DEF u
<1>5. FlattenSeq(Append(u, q)) = FlattenSeq(u) \o q
  BY <1>3, FlattenAppend DEF R
<1> QED  BY <1>2, <1>4, <1>5

\* Two tuples of one element make one of two.
LEMMA TwoOnes == ASSUME NEW u, NEW v PROVE << u >> \o << v >> = << u, v >>
<1> DEFINE a == << u >>
           b == << v >>
           S == {u, v}
<1>1. a \in Seq(S) /\ b \in Seq(S) /\ Len(a) = 1 /\ Len(b) = 1 /\ a[1] = u /\ b[1] = v
  OBVIOUS
<1> HIDE DEF a, b, S
<1> DEFINE c == a \o b
<1>2. c \in Seq(S) /\ Len(c) = 2 /\ c[1] = u /\ c[2] = v
  BY <1>1, ConcatProperties
<1> HIDE DEF c
<1>3. c = << u, v >>
  BY <1>2
<1> QED  BY <1>3 DEF c, a, b

\* The bytes of at most two nested fields, joined.
LEMMA ConfFields ==
  ASSUME NEW a, NEW b, NEW S, NEW p \in Seq(S), NEW q \in Seq(S), NEW t,
         (a = <<>> /\ p = <<>>) \/ a = << Field(t, p) >>,
         (b = <<>> /\ q = <<>>) \/ b = << Field(t, q) >>
  PROVE  FlattenSeq(AllOf(a \o b)) = p \o q
<1> DEFINE R == Seq(S)
<1>0. p \in R /\ q \in R /\ <<>> \in R
  OBVIOUS
<1>1. /\ <<>> \o q = q /\ p \o <<>> = p
  BY ConcatEmptySeq
<1>2. \A v : Field(t, v).val = v
  BY DEF Field
<1>3. CASE a = <<>> /\ p = <<>> /\ b = <<>> /\ q = <<>>
  <2>1. AllOf(a \o b) = <<>>
    BY <1>3 DEF AllOf
  <2> QED  BY <1>1, <1>3, <2>1, FlattenEmpty
<1>4. CASE a = <<>> /\ p = <<>> /\ b = << Field(t, q) >>
  <2>1. a \o b = << Field(t, q) >>
    BY <1>4
  <2>2. AllOf(a \o b) = << q >>
    BY <1>2, <2>1 DEF AllOf
  <2> QED  BY <1>1, <1>4, <2>2, FlattenOfOne
<1>5. CASE a = << Field(t, p) >> /\ b = <<>> /\ q = <<>>
  <2>1. a \o b = << Field(t, p) >>
    BY <1>5
  <2>2. AllOf(a \o b) = << p >>
    BY <1>2, <2>1 DEF AllOf
  <2> QED  BY <1>1, <1>5, <2>2, FlattenOfOne
<1>6. CASE a = << Field(t, p) >> /\ b = << Field(t, q) >>
  <2>1. a \o b = << Field(t, p), Field(t, q) >>
    BY <1>6, TwoOnes
  <2>2. AllOf(a \o b) = << p, q >>
    BY <1>2, <2>1 DEF AllOf
  <2> QED  BY <2>2, FlattenOfTwo
<1> QED  BY <1>3, <1>4, <1>5, <1>6

\* What is written for the nested record: nothing, or one field of its bytes.
LEMMA ConfWritten ==
  ASSUME NEW T, NEW m, WellFormed(T), Proper(T, m), NEW x \in DOMAIN Schema[T].wire,
         Schema[T].wire[x][2] = "conf_record"
  PROVE  LET a == FieldsOf(T, m, Schema[T].wire[x])
             p == FlatFields("ConfRecord", m.mem["conf_record"])
         IN  /\ (a = <<>> /\ p = <<>>) \/ a = << Field(Schema[T].wire[x][1], p) >>
             /\ FlatProper("ConfRecord", m.mem["conf_record"])
             /\ IsSeq(p)
<1> DEFINE a == FieldsOf(T, m, Schema[T].wire[x])
           c == m.mem["conf_record"]
           p == FlatFields("ConfRecord", c)
<1>1. "conf_record" \in Members(T)
  BY DEF WellFormed
<1>2. FlatProper("ConfRecord", c)
  BY <1>1 DEF Proper
<1>3. a = IF Bit(T, "conf_record") \in m.has THEN << Field(Schema[T].wire[x][1], p) >> ELSE <<>>
  BY DEF FieldsOf
<1>4. Bit(T, "conf_record") \notin m.has => c = Flat("ConfRecord")
  BY <1>1 DEF Proper, FlatProper, Zero
<1>5. Bit(T, "conf_record") \notin m.has => p = <<>>
  BY <1>4, NewIsEmpty, LogEntryFlat
<1>6. IsSeq(p)
  <2>1. Proper("ConfRecord", c) /\ p = Serialize("ConfRecord", c) /\ WellFormed("ConfRecord")
    BY <1>2, LogEntryFlat, FlatNew, FlatSerialize DEF IsFlat
  <2> HIDE DEF p, c
  <2> QED  BY <2>1, SerializeIs, SeqOwnRange
<1> HIDE DEF a, c, p
<1>7. (a = <<>> /\ p = <<>>) \/ a = << Field(Schema[T].wire[x][1], p) >>
  BY <1>3, <1>5
<1> QED  BY <1>2, <1>6, <1>7 DEF a, c, p

\* The nested records of two messages are read as the merged one.
LEMMA ReadConf ==
  ASSUME NEW T, NEW m, NEW n, WellFormed(T), Proper(T, m), Proper(T, n),
         "conf_record" \in Members(T)
  PROVE  ParsedConf(Flat("ConfRecord"),
                    FieldsFor(T, Serialize(T, m) \o Serialize(T, n), "conf_record")) =
           FlatMerge("ConfRecord", m.mem["conf_record"], n.mem["conf_record"])
<1>1. PICK x \in DOMAIN Schema[T].wire : Schema[T].wire[x][2] = "conf_record"
  BY WireOf
<1> DEFINE a == FieldsOf(T, m, Schema[T].wire[x])
           b == FieldsOf(T, n, Schema[T].wire[x])
           c == m.mem["conf_record"]
           d == n.mem["conf_record"]
           p == FlatFields("ConfRecord", c)
           q == FlatFields("ConfRecord", d)
           t == Schema[T].wire[x][1]
           S == ToSet(p) \cup ToSet(q)
<1>2. FieldsFor(T, Serialize(T, m) \o Serialize(T, n), "conf_record") = a \o b
  BY <1>1, FieldsOfTwo
<1>3. /\ (a = <<>> /\ p = <<>>) \/ a = << Field(t, p) >>
      /\ FlatProper("ConfRecord", c) /\ IsSeq(p)
  BY <1>1, ConfWritten
<1>4. /\ (b = <<>> /\ q = <<>>) \/ b = << Field(t, q) >>
      /\ FlatProper("ConfRecord", d) /\ IsSeq(q)
  BY <1>1, ConfWritten
<1>5. FlatParse("ConfRecord", Flat("ConfRecord"), p \o q) = FlatMerge("ConfRecord", c, d)
  <2> HIDE DEF c, d
  <2> QED  BY <1>3, <1>4, LogEntryFlat, FlatReadTwo
<1>6. ToSet(p) \subseteq S /\ ToSet(q) \subseteq S
  OBVIOUS
<1> HIDE DEF a, b, c, d, p, q, t, S
<1>7. p \in Seq(S) /\ q \in Seq(S)
  BY <1>3, <1>4, <1>6, SeqMonotonic DEF IsSeq
<1>8. FlattenSeq(AllOf(a \o b)) = p \o q
  BY <1>3, <1>4, <1>7, ConfFields, SMTT(30)
<1>9. ParsedConf(Flat("ConfRecord"), a \o b) =
        FlatParse("ConfRecord", Flat("ConfRecord"), FlattenSeq(AllOf(a \o b)))
  BY DEF ParsedConf, AllOf
<1> QED  BY <1>2, <1>5, <1>8, <1>9 DEF c, d

-----------------------------------------------------------------------------
(* Whole messages.                                                         *)

\* A new message is proper, and cleared already.
LEMMA NewProper ==
  ASSUME NEW T, WellFormed(T)
  PROVE  Proper(T, New(T)) /\ Clear(T, New(T)) = New(T)
<1>1. New(T) = [has |-> {}, mem |-> [f \in Members(T) |-> Zero(f)]]
  BY DEF New
<1>2. FlatProper(T, New(T))
  BY <1>1 DEF FlatProper
<1>3. "entries" \in Members(T) => New(T).mem["entries"] = <<>>
  BY <1>1 DEF Zero
<1>4. IsSeq(<<>>) /\ DOMAIN <<>> = {}
  <2>1. <<>> \in Seq({}) /\ DOMAIN <<>> = {}
    OBVIOUS
  <2>2. IsSeq(<<>>)
    BY <2>1, SeqOwnRange
  <2> QED  BY <2>1, <2>2
<1>5. "conf_record" \in Members(T) => New(T).mem["conf_record"] = Flat("ConfRecord")
  BY <1>1 DEF Zero
<1>6. Proper(T, New(T))
  BY <1>2, <1>3, <1>4, <1>5, FlatNew, LogEntryFlat DEF Proper
<1>7. Clear(T, New(T)) = New(T)
  <2> DEFINE reset == {f \in Members(T) : \E i \in DOMAIN Schema[T].clear :
                        /\ f \in Schema[T].clear[i][2]
                        /\ Schema[T].clear[i][1] = 0
                             \/ Mask(Schema[T].clear[i][1]) \cap New(T).has # {}}
  <2>1. Clear(T, New(T)) =
          [has |-> {}, mem
            |-> [f \in Members(T) |-> IF f \in reset THEN Zero(f) ELSE New(T).mem[f]]]
    BY DEF Clear
  <2> HIDE DEF reset
  <2>2. [f \in Members(T) |-> IF f \in reset THEN Zero(f) ELSE New(T).mem[f]] =
          [f \in Members(T) |-> Zero(f)]
    BY <1>1
  <2> QED  BY <1>1, <2>1, <2>2
<1> QED  BY <1>6, <1>7

\* Two messages, one behind the other, are read as the merged one.
THEOREM TwoRead ==
  ASSUME NEW T, WellFormed(T), NEW m, NEW n, Proper(T, m), Proper(T, n)
  PROVE  MergeFromStream(T, New(T), Serialize(T, m) \o Serialize(T, n)) = MergeFrom(T, m, n)
<1> DEFINE s == Serialize(T, m) \o Serialize(T, n)
           got == MergeFromStream(T, New(T), s)
<1>1. ParsedBits(T, s) = m.has \cup n.has
  BY ReadBits
<1>2. New(T).has = {} /\ \A f \in Members(T) : New(T).mem[f] = Zero(f)
  BY DEF New
<1>3. "entries" \in Members(T) =>
        ParsedEntries(New(T).mem["entries"], FieldsFor(T, s, "entries")) =
          m.mem["entries"] \o n.mem["entries"]
  <2>1. "entries" \in Members(T) => New(T).mem["entries"] = <<>>
    BY <1>2 DEF Zero
  <2> QED  BY <2>1, ReadEntries
<1>4. "conf_record" \in Members(T) =>
        ParsedConf(New(T).mem["conf_record"], FieldsFor(T, s, "conf_record")) =
          FlatMerge("ConfRecord", m.mem["conf_record"], n.mem["conf_record"])
  BY <1>2, ReadConf DEF Zero
<1>5. ASSUME NEW f \in Members(T), f \notin {"entries", "conf_record"}
      PROVE  LastOf(T, New(T), s, f) = IF Bit(T, f) \in n.has THEN n.mem[f] ELSE m.mem[f]
  <2>1. Bit(T, f) \notin m.has => m.mem[f] = New(T).mem[f]
    BY <1>2, <1>5 DEF Proper, FlatProper
  <2>2. LastOf(T, New(T), s, f) =
          IF Bit(T, f) \in n.has THEN n.mem[f]
          ELSE IF Bit(T, f) \in m.has THEN m.mem[f] ELSE New(T).mem[f]
    BY <1>5, ReadPlain
  <2> HIDE DEF s
  <2> QED  BY <2>1, <2>2
<1> HIDE DEF s
<1> DEFINE read(f) == CASE f = "entries"     -> ParsedEntries(New(T).mem[f], FieldsFor(T, s, f))
                        [] f = "conf_record" -> ParsedConf(New(T).mem[f], FieldsFor(T, s, f))
                        [] OTHER             -> LastOf(T, New(T), s, f)
           merged(f) == CASE f = "entries"     -> m.mem[f] \o n.mem[f]
                          [] f = "conf_record" -> FlatMerge("ConfRecord", m.mem[f], n.mem[f])
                          [] f \notin {"entries", "conf_record"} ->
                               IF Bit(T, f) \in n.has THEN n.mem[f] ELSE m.mem[f]
<1>6. ASSUME NEW f \in Members(T) PROVE read(f) = merged(f)
  <2>1. CASE f = "entries"
    BY <1>3, <2>1
  <2>2. CASE f = "conf_record"
    BY <1>4, <2>2
  <2>3. CASE f \notin {"entries", "conf_record"}
    <3>1. read(f) = LastOf(T, New(T), s, f)
      BY <2>3
    <3>2. merged(f) = IF Bit(T, f) \in n.has THEN n.mem[f] ELSE m.mem[f]
      BY <2>3
    <3> HIDE DEF read, merged
    <3> QED  BY <1>5, <2>3, <3>1, <3>2
  <2> QED  BY <2>1, <2>2, <2>3
<1>7. got = [has |-> New(T).has \cup ParsedBits(T, s), mem |-> [f \in Members(T) |-> read(f)]]
  BY DEF MergeFromStream
<1>8. MergeFrom(T, m, n) = [has |-> m.has \cup n.has, mem |-> [f \in Members(T) |-> merged(f)]]
  BY DEF MergeFrom
<1>9. [f \in Members(T) |-> read(f)] = [f \in Members(T) |-> merged(f)]
  <2> HIDE DEF read, merged
  <2> QED  BY <1>6
<1> HIDE DEF read, merged
<1>10. got = MergeFrom(T, m, n)
  BY <1>1, <1>2, <1>7, <1>8, <1>9
<1> QED  BY <1>10 DEF s

\* Nothing merged into a message changes nothing.
LEMMA MergeNew ==
  ASSUME NEW T, WellFormed(T), NEW m, Proper(T, m)
  PROVE  MergeFrom(T, m, New(T)) = m
<1>1. New(T).has = {} /\ \A f \in Members(T) : New(T).mem[f] = Zero(f)
  BY DEF New
<1>2. "entries" \in Members(T) => m.mem["entries"] \o New(T).mem["entries"] = m.mem["entries"]
  BY <1>1, ConcatEmptySeq DEF Zero, Proper, IsSeq
<1>3. "conf_record" \in Members(T) =>
        FlatMerge("ConfRecord", m.mem["conf_record"], New(T).mem["conf_record"])
          = m.mem["conf_record"]
  <2> SUFFICES ASSUME "conf_record" \in Members(T)
               PROVE  FlatMerge("ConfRecord", m.mem["conf_record"], New(T).mem["conf_record"])
                 = m.mem["conf_record"]
    OBVIOUS
  <2> DEFINE c == m.mem["conf_record"]
  <2>1. FlatProper("ConfRecord", c) /\ New(T).mem["conf_record"] = Flat("ConfRecord")
    BY <1>1 DEF Proper, Zero
  <2>2. Flat("ConfRecord").has = {}
    BY DEF Flat
  <2> HIDE DEF c
  <2>3. FlatMerge("ConfRecord", c, Flat("ConfRecord")) =
          [has |-> c.has, mem |-> [f \in Members("ConfRecord") |-> c.mem[f]]]
    BY <2>2 DEF FlatMerge
  <2> QED  BY <2>1, <2>3 DEF FlatProper, c
<1> DEFINE merged(f) == CASE f = "entries"     -> m.mem[f] \o New(T).mem[f]
                          [] f = "conf_record" -> FlatMerge("ConfRecord", m.mem[f], New(T).mem[f])
                          [] f \notin {"entries", "conf_record"} ->
                               IF Bit(T, f) \in New(T).has THEN New(T).mem[f] ELSE m.mem[f]
<1>4. ASSUME NEW f \in Members(T) PROVE merged(f) = m.mem[f]
  BY <1>1, <1>2, <1>3
<1>5. MergeFrom(T, m, New(T))
        = [has |-> m.has \cup New(T).has, mem |-> [f \in Members(T) |-> merged(f)]]
  BY DEF MergeFrom
<1>6. m = [has |-> m.has, mem |-> [f \in Members(T) |-> m.mem[f]]]
  BY DEF Proper, FlatProper
<1> HIDE DEF merged
<1> QED  BY <1>1, <1>4, <1>5, <1>6

\* A new message is written as nothing.
LEMMA NewWritten ==
  ASSUME NEW T, WellFormed(T)
  PROVE  Serialize(T, New(T)) = <<>>
<1> DEFINE ss == Segments(T, New(T))
           C == Content(T, New(T))
<1>1. New(T).has = {} /\ \A f \in Members(T) : New(T).mem[f] = Zero(f)
  BY DEF New
<1>2. ASSUME NEW i \in DOMAIN Schema[T].wire PROVE FieldsOf(T, New(T), Schema[T].wire[i]) = <<>>
  <2> DEFINE w == Schema[T].wire[i]
  <2>0. w[2] \in Members(T)
    BY DEF WellFormed
  <2>1. CASE w[2] = "entries"
    <3>1. New(T).mem["entries"] = <<>>
      BY <1>1, <2>0, <2>1 DEF Zero
    <3>2. FieldsOf(T, New(T), w) =
            [j \in DOMAIN New(T).mem["entries"]
              |-> Field(w[1], FlatFields("LogEntry", New(T).mem["entries"][j]))]
      BY <2>1 DEF FieldsOf
    <3>3. FieldsOf(T, New(T), w) =
            [j \in DOMAIN <<>> |-> Field(w[1], FlatFields("LogEntry", New(T).mem["entries"][j]))]
      BY <3>1, <3>2
    <3>4. [j \in DOMAIN <<>> |-> Field(w[1], FlatFields("LogEntry", New(T).mem["entries"][j]))]
            = <<>>
      OBVIOUS
    <3> QED  BY <3>3, <3>4
  <2>2. CASE w[2] = "conf_record"
    BY <1>1, <2>2 DEF FieldsOf
  <2>3. CASE w[2] \notin {"entries", "conf_record"}
    BY <1>1, <2>3 DEF FieldsOf, FlatField
  <2> QED  BY <2>1, <2>2, <2>3
<1>3. ss \in Seq(Seq(C)) /\ Len(ss) \in Nat /\ DOMAIN Schema[T].wire = 1 .. Len(ss)
  BY NewProper, SegmentsType DEF WellFormed
<1>4. \A i \in 1 .. Len(ss) : ss[i] = <<>>
  BY <1>2, <1>3 DEF Segments
<1>5. Serialize(T, New(T)) = FlattenSeq(ss)
  BY NewProper, SerializeIs
<1> HIDE DEF ss, C
<1>6. 0 \notin 1 .. Len(ss)
  BY <1>3
<1>7. FlattenSeq(ss) = <<>>
  BY <1>3, <1>4, <1>6, FlattenSingle
<1> QED  BY <1>5, <1>7

\* What was written is whole to the last field.
LEMMA WrittenWhole ==
  ASSUME NEW T, WellFormed(T), NEW m, Proper(T, m)
  PROVE  ~ Failed(Serialize(T, m))
<1> DEFINE s == Serialize(T, m)
           C == Content(T, m)
<1>1. s \in Seq(C)
  BY SerializeIs
<1>2. \A u \in C : u.whole
  <2> SUFFICES ASSUME NEW i \in DOMAIN Schema[T].wire, NEW u \in ToSet(Segments(T, m)[i])
    PROVE u.whole
    BY DEF Content
  <2> DEFINE a == FieldsOf(T, m, Schema[T].wire[i])
  <2>1. Segments(T, m)[i] = a
    BY DEF Segments
  <2>2. IsSeq(a) /\ \A j \in 1 .. Len(a) : a[j].whole
    BY FieldsOfShape
  <2> HIDE DEF a
  <2>3. DOMAIN a = 1 .. Len(a)
    BY <2>2 DEF IsSeq
  <2>4. u \in {a[j] : j \in 1 .. Len(a)}
    BY <2>1, <2>3 DEF ToSet
  <2> QED  BY <2>2, <2>4
<1> HIDE DEF s, C
<1>3. s # <<>> => Last(s) \in C
  BY <1>1 DEF Last
<1> QED  BY <1>2, <1>3 DEF Failed, s

\* A message is read as it was written, and accepted just if it is complete.
THEOREM OneRead ==
  ASSUME NEW T, WellFormed(T), NEW m, Proper(T, m)
  PROVE  Parse(T, New(T), Serialize(T, m)) = [msg |-> m, ok |-> IsInitialized(T, m)]
<1> DEFINE s == Serialize(T, m)
<1>1. s \o Serialize(T, New(T)) = s
  <2>1. s \in Seq(Content(T, m))
    BY SerializeIs
  <2> HIDE DEF s
  <2> QED  BY <2>1, NewWritten, ConcatEmptySeq
<1>2. MergeFromStream(T, New(T), s) = m
  <2>1. MergeFromStream(T, New(T), s \o Serialize(T, New(T))) = MergeFrom(T, m, New(T))
    BY NewProper, TwoRead
  <2> QED  BY <1>1, <2>1, MergeNew
<1>3. ~ Failed(s)
  BY WrittenWhole
<1>4. Clear(T, New(T)) = New(T)
  BY NewProper
<1>5. Parse(T, New(T), s) =
        LET parsed == MergeFromStream(T, New(T), s)
        IN  [msg |-> parsed, ok |-> ~ Failed(s) /\ IsInitialized(T, parsed)]
  BY <1>4 DEF Parse
<1> HIDE DEF s
<1>6. (~ Failed(s) /\ IsInitialized(T, m)) = IsInitialized(T, m)
  BY <1>3 DEF IsInitialized
<1>7. Parse(T, New(T), s) = [msg |-> m, ok |-> ~ Failed(s) /\ IsInitialized(T, m)]
  BY <1>2, <1>5
<1> QED  BY <1>6, <1>7 DEF s

-----------------------------------------------------------------------------
(* All thirteen types.                                                     *)

\* The thirteen types.
LEMMA TypesAre ==
  Types = {"LogEntry", "AppendEntriesRequest", "AppendEntriesResponse", "RequestVoteRequest",
           "RequestVoteResponse", "InstallSnapshotRequest", "InstallSnapshotResponse", "ConfRecord",
           "PersistRecord", "PutAppendRequest", "PutAppendResponse", "GetRequest", "GetResponse"}
BY DEF Types, Schema

\* The tables of all of them agree with each other.
LEMMA AllWellFormed == \A T \in Types : WellFormed(T)
BY TypesAre, LogEntryWellFormed, AppendEntriesRequestWellFormed, AppendEntriesResponseWellFormed,
   RequestVoteRequestWellFormed, RequestVoteResponseWellFormed, InstallSnapshotRequestWellFormed,
   InstallSnapshotResponseWellFormed, ConfRecordWellFormed, PersistRecordWellFormed,
   PutAppendRequestWellFormed, PutAppendResponseWellFormed, GetRequestWellFormed,
   GetResponseWellFormed

\* Only the persistent record has a nested message.
LEMMA OnlyPersistRecord ==
  /\ \A T \in Types : "conf_record" \in Members(T) => T = "PersistRecord"
  /\ Bit("PersistRecord", "conf_record") = 4
<1>1. "conf_record" \notin Members("LogEntry")
  <2>1. Members("LogEntry") = {LogEntryImpl[i] : i \in DOMAIN LogEntryImpl}
    BY IsLogEntry DEF Members, ToSet
  <2> QED  BY <2>1 DEF LogEntryImpl
<1>2. "conf_record" \notin Members("AppendEntriesRequest")
  <2>1. Members("AppendEntriesRequest")
          = {AppendEntriesRequestImpl[i] : i \in DOMAIN AppendEntriesRequestImpl}
    BY IsAppendEntriesRequest DEF Members, ToSet
  <2> QED  BY <2>1 DEF AppendEntriesRequestImpl
<1>3. "conf_record" \notin Members("AppendEntriesResponse")
  <2>1. Members("AppendEntriesResponse")
          = {AppendEntriesResponseImpl[i] : i \in DOMAIN AppendEntriesResponseImpl}
    BY IsAppendEntriesResponse DEF Members, ToSet
  <2> QED  BY <2>1 DEF AppendEntriesResponseImpl
<1>4. "conf_record" \notin Members("RequestVoteRequest")
  <2>1. Members("RequestVoteRequest")
          = {RequestVoteRequestImpl[i] : i \in DOMAIN RequestVoteRequestImpl}
    BY IsRequestVoteRequest DEF Members, ToSet
  <2> QED  BY <2>1 DEF RequestVoteRequestImpl
<1>5. "conf_record" \notin Members("RequestVoteResponse")
  <2>1. Members("RequestVoteResponse")
          = {RequestVoteResponseImpl[i] : i \in DOMAIN RequestVoteResponseImpl}
    BY IsRequestVoteResponse DEF Members, ToSet
  <2> QED  BY <2>1 DEF RequestVoteResponseImpl
<1>6. "conf_record" \notin Members("InstallSnapshotRequest")
  <2>1. Members("InstallSnapshotRequest")
          = {InstallSnapshotRequestImpl[i] : i \in DOMAIN InstallSnapshotRequestImpl}
    BY IsInstallSnapshotRequest DEF Members, ToSet
  <2> QED  BY <2>1 DEF InstallSnapshotRequestImpl
<1>7. "conf_record" \notin Members("InstallSnapshotResponse")
  <2>1. Members("InstallSnapshotResponse")
          = {InstallSnapshotResponseImpl[i] : i \in DOMAIN InstallSnapshotResponseImpl}
    BY IsInstallSnapshotResponse DEF Members, ToSet
  <2> QED  BY <2>1 DEF InstallSnapshotResponseImpl
<1>8. "conf_record" \notin Members("ConfRecord")
  <2>1. Members("ConfRecord") = {ConfRecordImpl[i] : i \in DOMAIN ConfRecordImpl}
    BY IsConfRecord DEF Members, ToSet
  <2> QED  BY <2>1 DEF ConfRecordImpl
<1>10. "conf_record" \notin Members("PutAppendRequest")
  <2>1. Members("PutAppendRequest") = {PutAppendRequestImpl[i] : i \in DOMAIN PutAppendRequestImpl}
    BY IsPutAppendRequest DEF Members, ToSet
  <2> QED  BY <2>1 DEF PutAppendRequestImpl
<1>11. "conf_record" \notin Members("PutAppendResponse")
  <2>1. Members("PutAppendResponse")
          = {PutAppendResponseImpl[i] : i \in DOMAIN PutAppendResponseImpl}
    BY IsPutAppendResponse DEF Members, ToSet
  <2> QED  BY <2>1 DEF PutAppendResponseImpl
<1>12. "conf_record" \notin Members("GetRequest")
  <2>1. Members("GetRequest") = {GetRequestImpl[i] : i \in DOMAIN GetRequestImpl}
    BY IsGetRequest DEF Members, ToSet
  <2> QED  BY <2>1 DEF GetRequestImpl
<1>13. "conf_record" \notin Members("GetResponse")
  <2>1. Members("GetResponse") = {GetResponseImpl[i] : i \in DOMAIN GetResponseImpl}
    BY IsGetResponse DEF Members, ToSet
  <2> QED  BY <2>1 DEF GetResponseImpl
<1> QED  BY TypesAre, IsPersistRecord, <1>1, <1>2, <1>3, <1>4, <1>5, <1>6, <1>7, <1>8, <1>10, <1>11,
            <1>12, <1>13 DEF Bit, PersistRecordBits

\* A message with any set of has-bits: its members, and those without their
\* bit.
LEMMA PaintedProper ==
  ASSUME NEW T, WellFormed(T), NEW has, has \subseteq Bits(T), NEW c \in Nat
  PROVE  LET m == Painted(T, has, c)
         IN  /\ m = [has |-> m.has, mem |-> [f \in Members(T) |-> m.mem[f]]]
             /\ m.has = has
             /\ \A f \in Members(T) \ {"entries"} : Bit(T, f) \notin has => m.mem[f] = 0
<1> DEFINE paint(f) == IF f \in DOMAIN Schema[T].bits /\ Bit(T, f) \in has THEN c * Bit(T, f) ELSE 0
           m == Painted(T, has, c)
<1>1. m = [has |-> has, mem |-> [f \in Members(T) |-> paint(f)]]
  BY DEF Painted
<1>2. \A f \in Members(T) : Bit(T, f) \notin has => paint(f) = 0
  OBVIOUS
<1> HIDE DEF paint
<1> QED  BY <1>1, <1>2

\* Without nested messages it is proper.
LEMMA FlatPainted ==
  ASSUME NEW T, IsFlat(T), NEW has, has \subseteq Bits(T), NEW c \in Nat
  PROVE  FlatProper(T, Painted(T, has, c))
<1>1. \A f \in Members(T) : Zero(f) = 0
  BY DEF IsFlat, Zero
<1> DEFINE m == Painted(T, has, c)
<1>2. /\ m = [has |-> m.has, mem |-> [f \in Members(T) |-> m.mem[f]]]
      /\ m.has = has
      /\ \A f \in Members(T) \ {"entries"} : Bit(T, f) \notin has => m.mem[f] = 0
  BY PaintedProper DEF IsFlat
<1> HIDE DEF m
<1>3. FlatProper(T, m)
  BY <1>1, <1>2 DEF FlatProper
<1> QED  BY <1>3 DEF m

\* A message with entries and a record put in.
LEMMA NestProper ==
  ASSUME NEW T \in Types, NEW has, has \subseteq Bits(T), NEW c \in Nat,
         NEW entries, IsSeq(entries), \A i \in DOMAIN entries : FlatProper("LogEntry", entries[i]),
         NEW conf, FlatProper("ConfRecord", conf)
  PROVE  Proper(T, Nest(Painted(T, has, c), entries, conf))
<1> DEFINE p == Painted(T, has, c)
           m == Nest(p, entries, conf)
           put(f) == CASE f = "entries"     -> entries
                       [] f = "conf_record" -> IF Bit("PersistRecord", f)
                         \in p.has THEN conf ELSE Flat("ConfRecord")
                       [] OTHER             -> p.mem[f]
<1>1. WellFormed(T)
  BY AllWellFormed
<1>2. /\ p = [has |-> p.has, mem |-> [f \in Members(T) |-> p.mem[f]]]
      /\ p.has = has
      /\ \A f \in Members(T) \ {"entries"} : Bit(T, f) \notin has => p.mem[f] = 0
  BY <1>1, PaintedProper
<1>3. m = [p EXCEPT !.mem = [f \in DOMAIN p.mem |-> put(f)]]
  BY DEF Nest
<1> HIDE DEF p, m
<1>4. put("entries") = entries
  OBVIOUS
<1>5. FlatProper("ConfRecord", put("conf_record"))
  BY FlatNew, LogEntryFlat
<1>6. ASSUME NEW f \in Members(T) \ {"entries"}, Bit(T, f) \notin has PROVE put(f) = Zero(f)
  <2>1. CASE f = "conf_record"
    <3>1. T = "PersistRecord"
      BY <2>1, OnlyPersistRecord
    <3>2. put(f) = Flat("ConfRecord")
      BY <1>2, <1>6, <2>1, <3>1
    <3> QED  BY <2>1, <3>2 DEF Zero
  <2>2. CASE f # "conf_record"
    BY <1>2, <1>6, <2>2 DEF Zero
  <2> QED  BY <2>1, <2>2
<1> HIDE DEF put
<1>7. DOMAIN p.mem = Members(T)
  BY <1>2
<1>8. m = [has |-> has, mem |-> [f \in Members(T) |-> put(f)]]
  <2>1. p = [has |-> has, mem |-> p.mem]
    BY <1>2
  <2> QED  BY <1>3, <1>7, <2>1
<1>9. m.has = has /\ (\A f \in Members(T) : m.mem[f] = put(f))
        /\ m = [has |-> m.has, mem |-> [f \in Members(T) |-> m.mem[f]]]
  BY <1>8
<1>10. FlatProper(T, m)
  BY <1>6, <1>9 DEF FlatProper
<1>11. Proper(T, m)
  BY <1>4, <1>5, <1>9, <1>10 DEF Proper
<1> QED  BY <1>11 DEF m, p

\* The has-bits of the two nested types.
LEMMA LogEntryBitsAre == Bits("LogEntry") = {1, 2, 4, 8} /\ Bits("ConfRecord") = {1, 2, 4, 8}
<1>1. Bits("LogEntry") = {LogEntryBits[f] : f \in DOMAIN LogEntryBits}
  BY IsLogEntry DEF Bits, Bit
<1>2. Bits("ConfRecord") = {ConfRecordBits[f] : f \in DOMAIN ConfRecordBits}
  BY IsConfRecord DEF Bits, Bit
<1> QED  BY <1>1, <1>2 DEF LogEntryBits, ConfRecordBits

\* Two masks, bit by bit.
LEMMA MasksAre == Mask(10) = {2, 8} /\ Mask(15) = {1, 2, 4, 8}
BY DEF Mask

\* The entries of the sampled messages are proper.
LEMMA EntriesProper ==
  /\ FlatProper("LogEntry", FullEntry) /\ FlatProper("LogEntry", HalfEntry)
  /\ \A entries \in {<<>>, <<FullEntry>>, <<HalfEntry>>, <<FullEntry, HalfEntry>>} :
       IsSeq(entries) /\ \A i \in DOMAIN entries : FlatProper("LogEntry", entries[i])
<1>1. FlatProper("LogEntry", FullEntry) /\ FlatProper("LogEntry", HalfEntry)
  BY FlatPainted, LogEntryFlat, LogEntryBitsAre, MasksAre DEF FullEntry, HalfEntry
<1>2. \A u, v : /\ <<>> \in Seq({u, v}) /\ << u >> \in Seq({u, v}) /\ << u, v >> \in Seq({u, v})
                /\ DOMAIN <<>> = {} /\ DOMAIN << u >> = {1} /\ DOMAIN << u, v >> = {1, 2}
  OBVIOUS
<1>3. \A u, v : IsSeq(<<>>) /\ IsSeq(<< u >>) /\ IsSeq(<< u, v >>)
  BY <1>2, SeqOwnRange
<1>4. \A u, v : << u >>[1] = u /\ << u, v >>[1] = u /\ << u, v >>[2] = v
  OBVIOUS
<1>5. ASSUME NEW entries \in {<<>>, <<FullEntry>>, <<HalfEntry>>, <<FullEntry, HalfEntry>>}
      PROVE  IsSeq(entries) /\ \A i \in DOMAIN entries : FlatProper("LogEntry", entries[i])
  <2>1. CASE entries = <<>>
    BY <1>2, <1>3, <2>1
  <2>2. CASE entries = <<FullEntry>>
    BY <1>1, <1>2, <1>3, <1>4, <2>2, ZenonT(60)
  <2>3. CASE entries = <<HalfEntry>>
    BY <1>1, <1>2, <1>3, <1>4, <2>3, ZenonT(60)
  <2>4. CASE entries = <<FullEntry, HalfEntry>>
    <3>1. IsSeq(entries)
      BY <1>3, <2>4
    <3>2. DOMAIN entries = {1, 2} /\ entries[1] = FullEntry /\ entries[2] = HalfEntry
      BY <2>4
    <3> QED  BY <1>1, <3>1, <3>2
  <2> QED  BY <2>1, <2>2, <2>3, <2>4
<1> QED  BY <1>1, <1>5

\* So are their nested records.
LEMMA ConfsProper ==
  \A has \in {{}, {1, 4}, Mask(15), {2}} :
    \A c \in Nat : FlatProper("ConfRecord", Painted("ConfRecord", has, c))
<1>1. \A has \in {{}, {1, 4}, Mask(15), {2}} : has \subseteq Bits("ConfRecord")
  BY LogEntryBitsAre, MasksAre
<1> QED  BY <1>1, FlatPainted, LogEntryFlat

\* The messages over which the properties are evaluated.
LEMMA ObjectsProper == \A T \in Types : \A m \in Objects(T) : Proper(T, m)
<1> SUFFICES ASSUME NEW T \in Types, NEW m \in Objects(T) PROVE Proper(T, m)
  OBVIOUS
<1>1. CASE Members(T) \cap {"entries", "conf_record"} = {}
  <2>1. IsFlat(T)
    BY <1>1, AllWellFormed DEF IsFlat
  <2>2. PICK has \in SUBSET Bits(T), c \in {0, 1} : m = Painted(T, has, c)
    BY <1>1 DEF Objects, FlatObjects
  <2>3. FlatProper(T, m)
    BY <2>1, <2>2, FlatPainted
  <2> QED  BY <2>1, <2>3, FlatNew
<1>2. CASE Members(T) \cap {"entries", "conf_record"} # {}
  <2>1. PICK p \in FlatObjects(T), entries \in {<<>>, <<FullEntry>>, <<FullEntry, HalfEntry>>},
             has \in {{}, {1, 4}, Mask(15)} :
          m = Nest(p, entries, Painted("ConfRecord", has, 1))
    BY <1>2 DEF Objects
  <2>2. PICK bits \in SUBSET Bits(T), c \in {0, 1} : p = Painted(T, bits, c)
    BY DEF FlatObjects
  <2>3. FlatProper("ConfRecord", Painted("ConfRecord", has, 1))
    BY ConfsProper
  <2>4. IsSeq(entries) /\ \A i \in DOMAIN entries : FlatProper("LogEntry", entries[i])
    BY EntriesProper
  <2>5. c \in Nat
    BY <2>2
  <2> QED  BY <2>1, <2>2, <2>3, <2>4, <2>5, NestProper
<1> QED  BY <1>1, <1>2

\* The second messages are proper too.
LEMMA SamplesProper == \A T \in Types : \A m \in Samples(T) : Proper(T, m)
<1> SUFFICES ASSUME NEW T \in Types, NEW m \in Samples(T) PROVE Proper(T, m)
  OBVIOUS
<1>1. PICK has \in {{}, Bits(T), Bits(T) \cap Mask(42)} :
        m = Nest(Painted(T, has, 3), <<HalfEntry>>, Painted("ConfRecord", {2}, 3))
  BY DEF Samples
<1>2. has \subseteq Bits(T)
  OBVIOUS
<1>3. FlatProper("ConfRecord", Painted("ConfRecord", {2}, 3))
  BY ConfsProper
<1> DEFINE entries == <<HalfEntry>>
<1>4. IsSeq(entries) /\ \A i \in DOMAIN entries : FlatProper("LogEntry", entries[i])
  <2>1. entries \in {<<>>, <<FullEntry>>, <<HalfEntry>>, <<FullEntry, HalfEntry>>}
    OBVIOUS
  <2> HIDE DEF entries
  <2> QED  BY <2>1, EntriesProper
<1>5. m = Nest(Painted(T, has, 3), entries, Painted("ConfRecord", {2}, 3))
  BY <1>1
<1> HIDE DEF entries
<1> QED  BY <1>2, <1>3, <1>4, <1>5, NestProper

\* Every sampled message of every type is read as it was written, and as the
\* merged one with another behind it: the tables of the generated accessors,
\* writers and parsers fit.
THEOREM CodecIsInverse == CodecRoundTrip
<1> SUFFICES ASSUME NEW T \in Types, NEW m \in Objects(T)
             PROVE  /\ Parse(T, New(T), Serialize(T, m)) = [msg |-> m, ok |-> IsInitialized(T, m)]
                    /\ \A n \in Samples(T) :
                        Parse(T, New(T), Serialize(T, m) \o Serialize(T, n)).msg
                          = MergeFrom(T, m, n)
  BY DEF CodecRoundTrip
<1>1. WellFormed(T) /\ Proper(T, m)
  BY AllWellFormed, ObjectsProper
<1>2. Parse(T, New(T), Serialize(T, m)) = [msg |-> m, ok |-> IsInitialized(T, m)]
  BY <1>1, OneRead
<1>3. ASSUME NEW n \in Samples(T)
      PROVE  Parse(T, New(T), Serialize(T, m) \o Serialize(T, n)).msg = MergeFrom(T, m, n)
  <2> DEFINE s == Serialize(T, m) \o Serialize(T, n)
  <2>1. MergeFromStream(T, New(T), s) = MergeFrom(T, m, n)
    BY <1>1, SamplesProper, TwoRead
  <2>2. Clear(T, New(T)) = New(T)
    BY <1>1, NewProper
  <2> HIDE DEF s
  <2>3. Parse(T, New(T), s).msg = MergeFromStream(T, New(T), s)
    BY <2>2 DEF Parse
  <2> QED  BY <2>1, <2>3 DEF s
<1> QED  BY <1>2, <1>3

\* So in every state: ParseFromIstream of what SerializeToOstream wrote gives
\* the message.
THEOREM EveryMessageRoundTrips == Spec => []MessagesRoundTrip
<1>1. MessagesRoundTrip
  BY CodecIsInverse DEF MessagesRoundTrip
<1> QED  BY <1>1, PTL

-----------------------------------------------------------------------------
(* Copies.                                                                 *)

\* The copy constructor keeps a message as it is.
LEMMA CopySame ==
  ASSUME NEW T, NEW m, FlatProper(T, m)
  PROVE  CopyOf(T, m) = m
<1> DEFINE copied(f) == IF f # "entries" /\ Delimited(T, f) /\ Bit(T, f) \notin m.has
                        THEN Zero(f) ELSE m.mem[f]
<1>1. CopyOf(T, m) = [has |-> m.has, mem |-> [f \in Members(T) |-> copied(f)]]
  BY DEF CopyOf
<1>2. \A f \in Members(T) : copied(f) = m.mem[f]
  BY DEF FlatProper
<1> HIDE DEF copied
<1> QED  BY <1>1, <1>2 DEF FlatProper

\* A new message merged with another becomes that one.
LEMMA NewMerge ==
  ASSUME NEW T, WellFormed(T), NEW m, Proper(T, m)
  PROVE  MergeFrom(T, New(T), m) = m
<1>1. New(T).has = {} /\ \A f \in Members(T) : New(T).mem[f] = Zero(f)
  BY DEF New
<1>2. "entries" \in Members(T) => New(T).mem["entries"] \o m.mem["entries"] = m.mem["entries"]
  BY <1>1, ConcatEmptySeq DEF Zero, Proper, IsSeq
<1>3. "conf_record" \in Members(T) =>
        FlatMerge("ConfRecord", New(T).mem["conf_record"], m.mem["conf_record"])
          = m.mem["conf_record"]
  <2> SUFFICES ASSUME "conf_record" \in Members(T)
               PROVE  FlatMerge("ConfRecord", New(T).mem["conf_record"], m.mem["conf_record"])
                 = m.mem["conf_record"]
    OBVIOUS
  <2> DEFINE c == m.mem["conf_record"]
             z == Flat("ConfRecord")
             merged(f) == IF Bit("ConfRecord", f) \in c.has THEN c.mem[f] ELSE z.mem[f]
  <2>1. FlatProper("ConfRecord", c) /\ New(T).mem["conf_record"] = z
    BY <1>1 DEF Proper, Zero
  <2>2. z.has = {} /\ \A f \in Members("ConfRecord") : z.mem[f] = Zero(f) /\ f # "entries"
    BY LogEntryFlat DEF Flat, IsFlat, Zero
  <2> HIDE DEF c, z
  <2>3. FlatMerge("ConfRecord", z, c)
          = [has |-> z.has \cup c.has, mem |-> [f \in Members("ConfRecord") |-> merged(f)]]
    BY DEF FlatMerge
  <2>4. \A f \in Members("ConfRecord") : merged(f) = c.mem[f]
    BY <2>1, <2>2 DEF FlatProper
  <2> HIDE DEF merged
  <2>5. FlatMerge("ConfRecord", z, c) = c
    BY <2>1, <2>2, <2>3, <2>4 DEF FlatProper
  <2> QED  BY <2>1, <2>5 DEF c
<1> DEFINE merged(f) == CASE f = "entries"     -> New(T).mem[f] \o m.mem[f]
                          [] f = "conf_record" -> FlatMerge("ConfRecord", New(T).mem[f], m.mem[f])
                          [] f \notin {"entries", "conf_record"} ->
                               IF Bit(T, f) \in m.has THEN m.mem[f] ELSE New(T).mem[f]
<1>4. ASSUME NEW f \in Members(T) PROVE merged(f) = m.mem[f]
  <2>1. f # "entries" /\ Bit(T, f) \notin m.has => m.mem[f] = New(T).mem[f]
    BY <1>1 DEF Proper, FlatProper
  <2> QED  BY <1>2, <1>3, <2>1
<1>5. MergeFrom(T, New(T), m)
        = [has |-> New(T).has \cup m.has, mem |-> [f \in Members(T) |-> merged(f)]]
  BY DEF MergeFrom
<1>6. m = [has |-> m.has, mem |-> [f \in Members(T) |-> m.mem[f]]]
  BY DEF Proper, FlatProper
<1> HIDE DEF merged
<1> QED  BY <1>1, <1>4, <1>5, <1>6

\* An assignment to a new message makes it the other one.
LEMMA CopyInto ==
  ASSUME NEW T, WellFormed(T), NEW m, Proper(T, m), NEW u, Clear(T, u) = New(T)
  PROVE  CopyFrom(T, u, m) = m
BY NewMerge DEF CopyFrom

\* Whatever a nested message is read from, it has the members whose bits it has.
LEMMA ParsedProper ==
  ASSUME NEW T, IsFlat(T), NEW s
  PROVE  FlatProper(T, FlatParse(T, Flat(T), s))
<1> DEFINE z == Flat(T)
           m == FlatParse(T, z, s)
<1>1. WellFormed(T) /\ "entries" \notin Members(T) /\ "conf_record" \notin Members(T)
  BY DEF IsFlat
<1>2. z.has = {} /\ \A f \in Members(T) : z.mem[f] = 0 /\ Zero(f) = 0
  BY <1>1 DEF Flat, Zero
<1> HIDE DEF z
<1>3. m = [has |-> z.has \cup ParsedBits(T, s), mem |-> [f \in Members(T) |-> LastOf(T, z, s, f)]]
  BY DEF FlatParse
<1>4. ParsedBits(T, s) \subseteq Bits(T)
  BY DEF ParsedBits, Bits
<1>5. ASSUME NEW f \in Members(T), Bit(T, f) \notin ParsedBits(T, s)
      PROVE  LastOf(T, z, s, f) = Zero(f)
  <2>1. f \in DOMAIN Schema[T].bits
    BY <1>1, BitOf
  <2>2. FieldsFor(T, s, f) = <<>>
    BY <1>5, <2>1 DEF ParsedBits
  <2> QED  BY <1>2, <2>2 DEF LastOf
<1>6. FlatProper(T, m)
  BY <1>2, <1>3, <1>4, <1>5 DEF FlatProper
<1> QED  BY <1>6 DEF z

-----------------------------------------------------------------------------
(* A node and its record.                                                  *)

IsLog(logs) == IsSeq(logs) /\ \A i \in DOMAIN logs : FlatProper("LogEntry", logs[i])
IsNode(n) ==
    /\ n = [term |-> n.term, votedFor |-> n.votedFor, logs |-> n.logs]
    /\ IsLog(n.logs)

\* The entry the code makes is proper.
LEMMA EntryProper ==
  ASSUME NEW data, NEW term, NEW index
  PROVE  FlatProper("LogEntry", NewEntry(data, term, index))
<1> DEFINE values == [data |-> data, command |-> 0, term |-> term, index |-> index]
           m == NewEntry(data, term, index)
           value(f) == IF f \in DOMAIN values THEN values[f] ELSE Zero(f)
<1>1. DOMAIN values = {"data", "command", "term", "index"}
  OBVIOUS
<1>2. DOMAIN Schema["LogEntry"].bits = {"data", "command", "term", "index"}
  BY IsLogEntry DEF LogEntryBits
<1>3. m = [has |-> {Bit("LogEntry", f) : f \in DOMAIN values},
           mem |-> [f \in Members("LogEntry") |-> value(f)]]
  BY DEF NewEntry, Filled
<1> HIDE DEF values, m
<1>4. m.has = Bits("LogEntry")
  BY <1>1, <1>2, <1>3 DEF Bits
<1>5. \A f \in Members("LogEntry") : Bit("LogEntry", f) \in Bits("LogEntry")
  BY BitOf, LogEntryFlat DEF IsFlat, Bits
<1> HIDE DEF value
<1>6. FlatProper("LogEntry", m)
  BY <1>3, <1>4, <1>5 DEF FlatProper
<1> QED  BY <1>6 DEF m

\* The record before its entries are added: what Dump set in it.
LEMMA HeaderIs ==
  ASSUME NEW n
  PROVE  LET h == Header(n)
         IN  /\ h = [has |-> {1, 2, 8, 16}, mem |-> [f \in Members("PersistRecord") |-> h.mem[f]]]
             /\ h.mem["term"] = n.term /\ h.mem["vote_for"] = n.votedFor
             /\ h.mem["name"] = Addr /\ h.mem["last_seq"] = 0
             /\ h.mem["conf_record"] = Flat("ConfRecord")
<1> DEFINE values == [name |-> Addr, vote_for |-> n.votedFor, term |-> n.term, last_seq |-> 0]
           h == Header(n)
           value(f) == IF f \in DOMAIN values THEN values[f] ELSE Zero(f)
<1>1. /\ DOMAIN values = {"name", "vote_for", "term", "last_seq"}
      /\ values["name"] = Addr /\ values["vote_for"] = n.votedFor
      /\ values["term"] = n.term /\ values["last_seq"] = 0
  OBVIOUS
<1>2. h = [has |-> {Bit("PersistRecord", f) : f \in DOMAIN values},
           mem |-> [f \in Members("PersistRecord") |-> value(f)]]
  BY DEF Header, Filled
<1>3. {Bit("PersistRecord", f) : f \in {"name", "vote_for", "term", "last_seq"}} = {1, 2, 8, 16}
  BY IsPersistRecord DEF Bit, PersistRecordBits
<1>4. Members("PersistRecord") = {"entries", "name", "vote_for", "conf_record", "term", "last_seq"}
  <2>1. Members("PersistRecord") = {PersistRecordImpl[i] : i \in DOMAIN PersistRecordImpl}
    BY IsPersistRecord DEF Members, ToSet
  <2> QED  BY <2>1 DEF PersistRecordImpl
<1> HIDE DEF values, h
<1>5. /\ value("term") = n.term /\ value("vote_for") = n.votedFor
      /\ value("name") = Addr /\ value("last_seq") = 0
      /\ value("conf_record") = Flat("ConfRecord")
  BY <1>1 DEF Zero
<1> HIDE DEF value
<1>6. h = [has |-> {1, 2, 8, 16}, mem |-> [f \in Members("PersistRecord") |-> h.mem[f]]]
  BY <1>1, <1>2, <1>3
<1>7. \A f \in Members("PersistRecord") : h.mem[f] = value(f)
  BY <1>2
<1> QED  BY <1>4, <1>5, <1>6, <1>7 DEF h

\* The record of a node: what Dump set in it, and the log.
LEMMA RecordIs ==
  ASSUME NEW n, IsNode(n)
  PROVE  LET r == RecordOf(n)
         IN  /\ Proper("PersistRecord", r)
             /\ r.has = {1, 2, 8, 16}
             /\ r.mem["term"] = n.term /\ r.mem["vote_for"] = n.votedFor
             /\ r.mem["entries"] = n.logs
             /\ r.mem["name"] = Addr /\ r.mem["last_seq"] = 0
             /\ r.mem["conf_record"] = Flat("ConfRecord")
<1> DEFINE h == Header(n)
           r == RecordOf(n)
           M == Members("PersistRecord")
           copies == [i \in DOMAIN n.logs |-> CopyFrom("LogEntry", New("LogEntry"), n.logs[i])]
<1>1. IsSeq(n.logs) /\ \A i \in DOMAIN n.logs : FlatProper("LogEntry", n.logs[i])
  BY DEF IsNode, IsLog
<1>2. \A i \in DOMAIN n.logs : CopyFrom("LogEntry", New("LogEntry"), n.logs[i]) = n.logs[i]
  BY <1>1, CopyInto, NewProper, FlatNew, LogEntryFlat DEF IsFlat
<1>3. copies = n.logs
  <2>1. copies = [i \in DOMAIN n.logs |-> n.logs[i]]
    BY <1>2
  <2>2. n.logs = [i \in DOMAIN n.logs |-> n.logs[i]]
    BY <1>1 DEF IsSeq
  <2> QED  BY <2>1, <2>2
<1>4. r = [h EXCEPT !.mem["entries"] = n.logs]
  BY <1>3 DEF RecordOf
<1>5. /\ h = [has |-> {1, 2, 8, 16}, mem |-> [f \in M |-> h.mem[f]]]
      /\ h.mem["term"] = n.term /\ h.mem["vote_for"] = n.votedFor
      /\ h.mem["name"] = Addr /\ h.mem["last_seq"] = 0
      /\ h.mem["conf_record"] = Flat("ConfRecord")
  BY HeaderIs
<1>6. M = {"entries", "name", "vote_for", "conf_record", "term", "last_seq"}
  <2>1. M = {PersistRecordImpl[i] : i \in DOMAIN PersistRecordImpl}
    BY IsPersistRecord DEF Members, ToSet
  <2> QED  BY <2>1 DEF PersistRecordImpl
<1> HIDE DEF h, r, M, copies
<1>7. r = [has |-> {1, 2, 8, 16}, mem |-> [f \in M |-> IF f = "entries" THEN n.logs ELSE h.mem[f]]]
  BY <1>4, <1>5, <1>6
<1>8. r.has = {1, 2, 8, 16} /\ \A f \in M : r.mem[f] = IF f = "entries" THEN n.logs ELSE h.mem[f]
  BY <1>7
<1>9. r = [has |-> r.has, mem |-> [f \in M |-> r.mem[f]]]
  BY <1>7
<1>10. /\ r.mem["term"] = n.term /\ r.mem["vote_for"] = n.votedFor
       /\ r.mem["entries"] = n.logs
       /\ r.mem["name"] = Addr /\ r.mem["last_seq"] = 0
       /\ r.mem["conf_record"] = Flat("ConfRecord")
  BY <1>5, <1>6, <1>8
<1>11. /\ Bit("PersistRecord", "name") = 1 /\ Bit("PersistRecord", "vote_for") = 2
       /\ Bit("PersistRecord", "conf_record") = 4
       /\ Bit("PersistRecord", "term") = 8 /\ Bit("PersistRecord", "last_seq") = 16
       /\ Bits("PersistRecord") = {1, 2, 4, 8, 16}
  <2>1. Bits("PersistRecord") = {PersistRecordBits[f] : f \in DOMAIN PersistRecordBits}
    BY IsPersistRecord DEF Bits, Bit
  <2> QED  BY <2>1, IsPersistRecord DEF Bit, PersistRecordBits
<1>12. \A f \in M \ {"entries"} : Bit("PersistRecord", f) \notin r.has => f = "conf_record"
  BY <1>6, <1>8, <1>11
<1>13. FlatProper("PersistRecord", r)
  BY <1>8, <1>9, <1>10, <1>11, <1>12 DEF FlatProper, Zero, M
<1>14. Proper("PersistRecord", r)
  BY <1>1, <1>10, <1>13, FlatNew, LogEntryFlat DEF Proper
<1> QED  BY <1>8, <1>10, <1>14 DEF r

\* What Load makes of a log it has read is that log.
LEMMA LoadedLog ==
  ASSUME NEW logs, IsLog(logs)
  PROVE  [i \in DOMAIN logs |-> CopyOf("LogEntry", logs[i])] = logs
<1>1. \A i \in DOMAIN logs : CopyOf("LogEntry", logs[i]) = logs[i]
  BY CopySame DEF IsLog
<1>2. logs = [i \in DOMAIN logs |-> logs[i]]
  BY DEF IsLog, IsSeq
<1> QED  BY <1>1, <1>2

\* The node is what its record says.
LEMMA NodeBack ==
  ASSUME NEW n, IsNode(n)
  PROVE  NodeOf(RecordOf(n)) = n
<1> DEFINE r == RecordOf(n)
<1>1. r.mem["term"] = n.term /\ r.mem["vote_for"] = n.votedFor /\ r.mem["entries"] = n.logs
  BY RecordIs
<1>2. [i \in DOMAIN n.logs |-> CopyOf("LogEntry", n.logs[i])] = n.logs
  BY LoadedLog DEF IsNode
<1> HIDE DEF r
<1>3. NodeOf(r) = [term |-> n.term, votedFor |-> n.votedFor, logs |-> n.logs]
  BY <1>1, <1>2 DEF NodeOf
<1> QED  BY <1>3 DEF r, IsNode

-----------------------------------------------------------------------------
(* The record on the file, field by field.                                 *)

Written(n) == Serialize("PersistRecord", RecordOf(n))

Six(a, b, c, d, e, f) == << a, b, c, d, e, f >>
Joined(a, b, c, d, e, f) == ((((a \o b) \o c) \o d) \o e) \o f

IsAppended(s, t, u, k) == Len(s) = k + 1 /\ (\A i \in 1 .. k : s[i] = t[i]) /\ s[k + 1] = u

\* One more element.
LEMMA Appended ==
  ASSUME NEW R, NEW t \in Seq(R), NEW u \in R, NEW k \in Nat, Len(t) = k
  PROVE  Append(t, u) \in Seq(R) /\ IsAppended(Append(t, u), t, u, k)
BY AppendProperties DEF IsAppended

\* Six parts.
LEMMA FlattenOfSix ==
  ASSUME NEW S, NEW a \in Seq(S), NEW b \in Seq(S), NEW c \in Seq(S),
         NEW d \in Seq(S), NEW e \in Seq(S), NEW f \in Seq(S)
  PROVE  FlattenSeq(Six(a, b, c, d, e, f)) = Joined(a, b, c, d, e, f)
<1> DEFINE R == Seq(S)
           s1 == << a >>
           s2 == Append(s1, b)
           s3 == Append(s2, c)
           s4 == Append(s3, d)
           s5 == Append(s4, e)
           s6 == Append(s5, f)
<1>1. a \in R /\ b \in R /\ c \in R /\ d \in R /\ e \in R /\ f \in R
  OBVIOUS
<1>2. FlattenSeq(s1) = a
  BY FlattenOfOne
<1>3. 1 \in Nat /\ 2 \in Nat /\ 3 \in Nat /\ 4 \in Nat /\ 5 \in Nat
  OBVIOUS
<1> HIDE DEF R
<1>4. s1 \in Seq(R) /\ Len(s1) = 1 /\ s1[1] = a
  BY <1>1
<1> HIDE DEF s1
<1>5. s2 \in Seq(R) /\ IsAppended(s2, s1, b, 1)
  BY <1>1, <1>3, <1>4, Appended
<1>6. FlattenSeq(s2) = a \o b
  BY <1>4, <1>2, FlattenAppend, <1>1 DEF R
<1> HIDE DEF s2
<1>7. Len(s2) = 2 /\ s2[1] = a /\ s2[2] = b
  BY <1>4, <1>5 DEF IsAppended
<1>8. s3 \in Seq(R) /\ IsAppended(s3, s2, c, 2)
  BY <1>1, <1>3, <1>5, <1>7, Appended
<1>9. FlattenSeq(s3) = (a \o b) \o c
  BY <1>5, <1>6, FlattenAppend, <1>1 DEF R
<1> HIDE DEF s3
<1>10. Len(s3) = 3 /\ s3[1] = a /\ s3[2] = b /\ s3[3] = c
  BY <1>5, <1>7, <1>8 DEF IsAppended
<1>11. s4 \in Seq(R) /\ IsAppended(s4, s3, d, 3)
  BY <1>1, <1>3, <1>8, <1>10, Appended
<1>12. FlattenSeq(s4) = ((a \o b) \o c) \o d
  BY <1>8, <1>9, FlattenAppend, <1>1 DEF R
<1> HIDE DEF s4
<1>13. Len(s4) = 4 /\ s4[1] = a /\ s4[2] = b /\ s4[3] = c /\ s4[4] = d
  BY <1>8, <1>10, <1>11 DEF IsAppended
<1>14. s5 \in Seq(R) /\ IsAppended(s5, s4, e, 4)
  BY <1>1, <1>3, <1>11, <1>13, Appended
<1>15. FlattenSeq(s5) = (((a \o b) \o c) \o d) \o e
  BY <1>11, <1>12, FlattenAppend, <1>1 DEF R
<1> HIDE DEF s5
<1>16. Len(s5) = 5 /\ s5[1] = a /\ s5[2] = b /\ s5[3] = c /\ s5[4] = d /\ s5[5] = e
  BY <1>11, <1>13, <1>14 DEF IsAppended
<1>17. s6 \in Seq(R) /\ IsAppended(s6, s5, f, 5)
  BY <1>1, <1>3, <1>14, <1>16, Appended
<1>18. FlattenSeq(s6) = ((((a \o b) \o c) \o d) \o e) \o f
  BY <1>14, <1>15, FlattenAppend, <1>1 DEF R
<1> HIDE DEF s6
<1>19. Len(s6) = 6 /\ s6[1] = a /\ s6[2] = b /\ s6[3] = c /\ s6[4] = d /\ s6[5] = e /\ s6[6] = f
  BY <1>14, <1>16, <1>17 DEF IsAppended
<1>20. s6 = << a, b, c, d, e, f >>
  BY <1>17, <1>19
<1> QED  BY <1>18, <1>20 DEF Six, Joined

\* Three fields, then some, then one.
Stream(x, y, z, es, u) == FlattenSeq(Six(<<x>>, <<y>>, <<z>>, es, <<>>, <<u>>))

\* Where the fields of the record stand.
LEMMA RecordShape ==
  ASSUME NEW x, NEW y, NEW z, NEW u, NEW es, IsSeq(es)
  PROVE  LET s == Stream(x, y, z, es, u)
         IN  /\ IsSeq(s) /\ Len(s) = Len(es) + 4
             /\ s[1] = x /\ s[2] = y /\ s[3] = z
             /\ \A j \in 1 .. Len(es) : s[3 + j] = es[j]
             /\ s[Len(es) + 4] = u
<1> DEFINE S == {x, y, z, u} \cup ToSet(es)
           x1 == << x >>
           y1 == << y >>
           z1 == << z >>
           u1 == << u >>
           o == <<>>
<1>1. /\ x1 \in Seq(S) /\ Len(x1) = 1 /\ x1[1] = x
      /\ y1 \in Seq(S) /\ Len(y1) = 1 /\ y1[1] = y
      /\ z1 \in Seq(S) /\ Len(z1) = 1 /\ z1[1] = z
      /\ u1 \in Seq(S) /\ Len(u1) = 1 /\ u1[1] = u
      /\ o \in Seq(S) /\ Len(o) = 0
  <2>1. x \in S /\ y \in S /\ z \in S /\ u \in S
    OBVIOUS
  <2> HIDE DEF S
  <2> QED  BY <2>1
<1>2. es \in Seq(S) /\ Len(es) \in Nat
  <2>1. ToSet(es) \subseteq S
    OBVIOUS
  <2> HIDE DEF S
  <2> QED  BY <2>1, SeqMonotonic DEF IsSeq
<1> DEFINE s == FlattenSeq(Six(x1, y1, z1, es, o, u1))
           c2 == x1 \o y1
           c3 == c2 \o z1
           c4 == c3 \o es
           c5 == c4 \o o
           c6 == c5 \o u1
<1> HIDE DEF S, x1, y1, z1, u1, o
<1>3. s = c6
  <2>1. /\ x1 \in Seq(S) /\ y1 \in Seq(S) /\ z1 \in Seq(S) /\ es \in Seq(S)
        /\ o \in Seq(S) /\ u1 \in Seq(S)
    BY <1>1, <1>2
  <2>2. s = Joined(x1, y1, z1, es, o, u1)
    BY <2>1, FlattenOfSix
  <2> QED  BY <2>2 DEF Joined
<1> HIDE DEF s
<1>4. c2 \in Seq(S) /\ Len(c2) = 2 /\ c2[1] = x /\ c2[2] = y
  BY <1>1, ConcatProperties
<1> HIDE DEF c2
<1>5. c3 \in Seq(S) /\ Len(c3) = 3 /\ c3[1] = x /\ c3[2] = y /\ c3[3] = z
  BY <1>1, <1>4, ConcatProperties, SMTT(30)
<1> HIDE DEF c3
<1>6. /\ c4 \in Seq(S) /\ Len(c4) = Len(es) + 3 /\ c4[1] = x /\ c4[2] = y /\ c4[3] = z
      /\ \A j \in 1 .. Len(es) : c4[3 + j] = es[j]
  <2>a. /\ c4 \in Seq(S) /\ Len(c4) = Len(c3) + Len(es)
        /\ \A i \in 1 .. Len(c3) + Len(es) : c4[i] = IF i <= Len(c3) THEN c3[i] ELSE es[i - Len(c3)]
    BY <1>2, <1>5, ConcatProperties, Zenon
  <2> HIDE DEF c4
  <2>1. /\ c4 \in Seq(S) /\ Len(c4) = 3 + Len(es)
        /\ \A i \in 1 .. Len(c4) : c4[i] = IF i <= 3 THEN c3[i] ELSE es[i - 3]
    BY <1>2, <1>5, <2>a
  <2>2. ASSUME NEW j \in 1 .. Len(es) PROVE c4[3 + j] = es[j]
    <3>1. 3 + j \in 1 .. Len(c4) /\ ~ (3 + j <= 3) /\ (3 + j) - 3 = j
      BY <1>2, <2>1
    <3> QED  BY <2>1, <3>1
  <2> QED  BY <1>2, <1>5, <2>1, <2>2
<1> HIDE DEF c4
<1>7. c5 = c4
  <2>1. o = <<>>
    BY DEF o
  <2> QED  BY <1>6, <2>1, ConcatEmptySeq
<1> HIDE DEF c5
<1>8. /\ c6 \in Seq(S) /\ Len(c6) = Len(c4) + 1
      /\ \A i \in 1 .. Len(c6) : c6[i] = IF i <= Len(c4) THEN c4[i] ELSE u1[i - Len(c4)]
  <2>1. /\ c6 \in Seq(S) /\ Len(c6) = Len(c4) + Len(u1)
        /\ \A i \in 1 .. Len(c4) + Len(u1) : c6[i] = IF i <= Len(c4) THEN c4[i] ELSE u1[i - Len(c4)]
    BY <1>1, <1>6, <1>7, ConcatProperties, ZenonT(60)
  <2> HIDE DEF c6
  <2> QED  BY <1>1, <2>1
<1> HIDE DEF c6
<1>9. \A i \in 1 .. Len(c4) : c6[i] = c4[i]
  BY <1>2, <1>6, <1>8
<1>10. c6[Len(es) + 4] = u
  BY <1>1, <1>2, <1>6, <1>8, SMTT(30)
<1>11. c6[1] = x /\ c6[2] = y /\ c6[3] = z
  BY <1>2, <1>6, <1>9
<1>12. ASSUME NEW j \in 1 .. Len(es) PROVE c6[3 + j] = es[j]
  BY <1>2, <1>6, <1>9
<1>13. IsSeq(c6)
  BY <1>8, SeqOwnRange
<1>14. Len(c6) = Len(es) + 4
  BY <1>2, <1>6, <1>8
<1> QED  BY <1>3, <1>10, <1>11, <1>12, <1>13, <1>14 DEF Stream, s, x1, y1, z1, u1, o

\* The record as it is written: term, name, vote, the entries, the last
\* sequence number.
LEMMA WrittenIs ==
  ASSUME NEW n, IsNode(n)
  PROVE  LET s == Written(n)
             e == Len(n.logs)
         IN  /\ IsSeq(s) /\ Len(s) = e + 4 /\ e \in Nat
             /\ s[1] = Field(8, n.term) /\ s[2] = Field(18, Addr) /\ s[3] = Field(26, n.votedFor)
             /\ \A j \in 1 .. e : s[3 + j] = Field(34, FlatFields("LogEntry", n.logs[j]))
             /\ s[e + 4] = Field(48, 0)
<1> DEFINE r == RecordOf(n)
           wire == PersistRecordWire
           es == [i \in DOMAIN n.logs |-> Field(34, FlatFields("LogEntry", n.logs[i]))]
           ss == [i \in 1 .. 6 |-> FieldsOf("PersistRecord", r, wire[i])]
           s == Written(n)
<1>1. /\ r.has = {1, 2, 8, 16}
      /\ r.mem["term"] = n.term /\ r.mem["vote_for"] = n.votedFor
      /\ r.mem["entries"] = n.logs
      /\ r.mem["name"] = Addr /\ r.mem["last_seq"] = 0
  BY RecordIs
<1>2. IsSeq(n.logs)
  BY DEF IsNode, IsLog
<1>3. /\ Bit("PersistRecord", "name") = 1 /\ Bit("PersistRecord", "vote_for") = 2
      /\ Bit("PersistRecord", "conf_record") = 4
      /\ Bit("PersistRecord", "term") = 8 /\ Bit("PersistRecord", "last_seq") = 16
  BY IsPersistRecord DEF Bit, PersistRecordBits
<1>4. /\ wire[1] = <<8, "term">> /\ wire[2] = <<18, "name">> /\ wire[3] = <<26, "vote_for">>
      /\ wire[4] = <<34, "entries">> /\ wire[5] = <<42, "conf_record">>
           /\ wire[6] = <<48, "last_seq">>
      /\ DOMAIN wire = 1 .. 6
  BY DEF PersistRecordWire
<1>5. s = FlattenSeq(ss)
  BY <1>4, IsPersistRecord DEF Written, Serialize
<1> HIDE DEF r, wire
<1>6. /\ FieldsOf("PersistRecord", r, wire[1]) = << Field(8, n.term) >>
      /\ FieldsOf("PersistRecord", r, wire[2]) = << Field(18, Addr) >>
      /\ FieldsOf("PersistRecord", r, wire[3]) = << Field(26, n.votedFor) >>
      /\ FieldsOf("PersistRecord", r, wire[5]) = <<>>
      /\ FieldsOf("PersistRecord", r, wire[6]) = << Field(48, 0) >>
  BY <1>1, <1>3, <1>4 DEF FieldsOf, FlatField
<1>7. FieldsOf("PersistRecord", r, wire[4]) = es
  BY <1>1, <1>4 DEF FieldsOf
<1>8. /\ IsSeq(es) /\ Len(es) = Len(n.logs) /\ Len(n.logs) \in Nat
      /\ \A j \in 1 .. Len(n.logs) : es[j] = Field(34, FlatFields("LogEntry", n.logs[j]))
  <2>1. Len(n.logs) \in Nat /\ DOMAIN n.logs = 1 .. Len(n.logs)
    BY <1>2 DEF IsSeq
  <2>2. es \in [1 .. Len(n.logs) -> ToSet(es)]
    BY <2>1 DEF ToSet
  <2>3. \A j \in 1 .. Len(n.logs) : es[j] = Field(34, FlatFields("LogEntry", n.logs[j]))
    BY <2>1
  <2> HIDE DEF es
  <2>4. IsSeq(es) /\ Len(es) = Len(n.logs)
    BY <2>1, <2>2, MapIsSeq
  <2> QED  BY <2>1, <2>3, <2>4
<1> HIDE DEF es
<1> DEFINE x == Field(8, n.term)
           y == Field(18, Addr)
           z == Field(26, n.votedFor)
           u == Field(48, 0)
           six == Six(<< x >>, << y >>, << z >>, es, <<>>, << u >>)
           q == Stream(x, y, z, es, u)
<1>9. ss = six
  <2>1. /\ six[1] = << Field(8, n.term) >> /\ six[2] = << Field(18, Addr) >>
        /\ six[3] = << Field(26, n.votedFor) >> /\ six[4] = es /\ six[5] = <<>>
        /\ six[6] = << Field(48, 0) >>
    BY DEF Six
  <2>2. \A i \in 1 .. 6 : ss[i] = FieldsOf("PersistRecord", r, wire[i])
    OBVIOUS
  <2>3. six = [i \in 1 .. 6 |-> six[i]]
    BY DEF Six
  <2>4. ss = [i \in 1 .. 6 |-> ss[i]]
    OBVIOUS
  <2> HIDE DEF ss, six
  <2>5. \A i \in 1 .. 6 : i = 1 \/ i = 2 \/ i = 3 \/ i = 4 \/ i = 5 \/ i = 6
    OBVIOUS
  <2>6. \A i \in 1 .. 6 : ss[i] = six[i]
    BY <1>6, <1>7, <2>1, <2>2, <2>5
  <2> QED  BY <2>3, <2>4, <2>6
<1>10. /\ IsSeq(q) /\ Len(q) = Len(es) + 4
       /\ q[1] = x /\ q[2] = y /\ q[3] = z
       /\ \A j \in 1 .. Len(es) : q[3 + j] = es[j]
       /\ q[Len(es) + 4] = u
  <2> HIDE DEF x, y, z, u
  <2> QED  BY <1>8, RecordShape
<1>11. q = FlattenSeq(six)
  BY DEF Stream
<1> HIDE DEF six, ss, s, q
<1> QED  BY <1>5, <1>8, <1>9, <1>10, <1>11 DEF s

-----------------------------------------------------------------------------
(* A stream that was cut.                                                  *)

\* p is a beginning of s, whose last field may be incomplete, with one of the
\* values given for its place.
CutOf(s, p, values) ==
    /\ IsSeq(p) /\ Len(p) <= Len(s)
    /\ \A i \in 1 .. Len(p) :
        /\ p[i].tag = s[i].tag
        /\ i < Len(p) => p[i] = s[i]
    /\ \/ \A i \in 1 .. Len(p) : p[i] = s[i]
       \/ /\ p # <<>>
          /\ ~ p[Len(p)].whole
          /\ p[Len(p)].val \in values[Len(p)]

FlatValues(s) == [i \in DOMAIN s |-> {Torn}]
Values(T, s) == [i \in DOMAIN s |-> IF MemberOf(T, s[i]) \in {"entries", "conf_record"}
                                    THEN FlatCuts(s[i].val) \ {s[i].val} ELSE {Torn}]

\* A beginning of a stream is a cut of it.
LEMMA PrefixCut ==
  ASSUME NEW S, NEW s \in Seq(S), NEW k \in 0 .. Len(s), NEW values
  PROVE  CutOf(s, SubSeq(s, 1, k), values)
<1> DEFINE p == SubSeq(s, 1, k)
<1>1. p \in Seq(S) /\ Len(p) = k /\ Len(s) \in Nat /\ k \in Nat /\ \A i \in 1 .. k : p[i] = s[i]
  OBVIOUS
<1> HIDE DEF p
<1>2. IsSeq(p)
  BY <1>1, SeqOwnRange
<1>3. CutOf(s, p, values)
  BY <1>1, <1>2 DEF CutOf
<1> QED  BY <1>3 DEF p

\* So is a beginning and the next field torn.
LEMMA TornCut ==
  ASSUME NEW S, NEW s \in Seq(S), NEW i \in 1 .. Len(s), NEW values, NEW v \in values[i],
         s[i] = Field(s[i].tag, s[i].val)
  PROVE  CutOf(s, Append(SubSeq(s, 1, i - 1), [s[i] EXCEPT !.val = v, !.whole = FALSE]), values)
<1> DEFINE u == [s[i] EXCEPT !.val = v, !.whole = FALSE]
           b == SubSeq(s, 1, i - 1)
           p == Append(b, u)
           R == S \cup {u}
<1>1. Len(s) \in Nat /\ i \in Nat /\ i >= 1 /\ i <= Len(s) /\ i - 1 \in Nat
  OBVIOUS
<1>2. u.tag = s[i].tag /\ u.val = v /\ u.whole = FALSE
  BY DEF Field
<1>3. s \in Seq(R) /\ u \in R
  <2>1. S \subseteq R /\ u \in R
    OBVIOUS
  <2> HIDE DEF R
  <2> QED  BY <2>1, SeqMonotonic
<1> HIDE DEF u, R
<1>4. b \in Seq(R) /\ Len(b) = i - 1 /\ \A j \in 1 .. i - 1 : b[j] = s[j]
  BY <1>1, <1>3
<1> HIDE DEF b
<1>5. p \in Seq(R) /\ IsAppended(p, b, u, i - 1)
  BY <1>1, <1>3, <1>4, Appended
<1> HIDE DEF p
<1>6. Len(p) = i /\ p[i] = u /\ \A j \in 1 .. i - 1 : p[j] = s[j]
  BY <1>1, <1>4, <1>5 DEF IsAppended
<1>7. IsSeq(p) /\ p # <<>>
  BY <1>1, <1>5, <1>6, SeqOwnRange
<1>8. \A j \in 1 .. i : j = i \/ j \in 1 .. i - 1
  BY <1>1
<1>9. CutOf(s, p, values)
  BY <1>1, <1>2, <1>6, <1>7, <1>8 DEF CutOf
<1> QED  BY <1>9 DEF p, b, u

\* FlatCuts are such cuts.
LEMMA FlatCutsAre ==
  ASSUME NEW S, NEW s \in Seq(S), \A i \in 1 .. Len(s) : s[i] = Field(s[i].tag, s[i].val),
         NEW p \in FlatCuts(s)
  PROVE  CutOf(s, p, FlatValues(s))
<1>1. DOMAIN s = 1 .. Len(s)
  OBVIOUS
<1>2. CASE p \in Prefixes(s)
  BY <1>2, PrefixCut DEF Prefixes
<1>3. CASE p \notin Prefixes(s)
  <2>1. PICK i \in 1 .. Len(s) : p \in {Append(SubSeq(s, 1, i - 1), u) : u \in Within(s[i], {Torn})}
    BY <1>1, <1>3 DEF FlatCuts
  <2>2. p = Append(SubSeq(s, 1, i - 1), [s[i] EXCEPT !.val = Torn, !.whole = FALSE])
    BY <2>1 DEF Within
  <2>3. Torn \in FlatValues(s)[i]
    BY <1>1 DEF FlatValues
  <2> QED  BY <2>2, <2>3, TornCut
<1> QED  BY <1>2, <1>3

\* And so are Cuts, in which a nested message is torn at one of its own cuts.
LEMMA CutsAre ==
  ASSUME NEW T, NEW S, NEW s \in Seq(S), \A i \in 1 .. Len(s) : s[i] = Field(s[i].tag, s[i].val),
         NEW p \in Cuts(T, s)
  PROVE  CutOf(s, p, Values(T, s))
<1>1. DOMAIN s = 1 .. Len(s)
  OBVIOUS
<1>2. CASE p \in Prefixes(s)
  BY <1>2, PrefixCut DEF Prefixes
<1>3. CASE p \notin Prefixes(s)
  <2>1. PICK i \in 1 .. Len(s) :
          p \in {Append(SubSeq(s, 1, i - 1), u) :
                   u \in Within(s[i], IF MemberOf(T, s[i]) \in {"entries", "conf_record"}
                                      THEN FlatCuts(s[i].val) \ {s[i].val} ELSE {Torn})}
    BY <1>1, <1>3 DEF Cuts
  <2>2. Values(T, s)[i] = IF MemberOf(T, s[i]) \in {"entries", "conf_record"}
                          THEN FlatCuts(s[i].val) \ {s[i].val} ELSE {Torn}
    BY <1>1 DEF Values
  <2>3. PICK v \in Values(T, s)[i] :
          p = Append(SubSeq(s, 1, i - 1), [s[i] EXCEPT !.val = v, !.whole = FALSE])
    BY <2>1, <2>2 DEF Within
  <2> QED  BY <2>3, TornCut
<1> QED  BY <1>2, <1>3

\* A cut stream is the whole one, ends within a field, or lacks the last one.
LEMMA CutEnds ==
  ASSUME NEW S, NEW s \in Seq(S), NEW p, NEW values, CutOf(s, p, values)
  PROVE  p = s \/ Failed(p) \/ Len(p) < Len(s)
<1>1. p \in Seq(ToSet(p)) /\ Len(p) \in Nat /\ Len(s) \in Nat /\ Len(p) <= Len(s)
  BY DEF CutOf, IsSeq
<1>2. CASE \A i \in 1 .. Len(p) : p[i] = s[i]
  <2>1. SUFFICES ASSUME Len(p) = Len(s) PROVE p = s
    BY <1>1
  <2>2. s \in Seq(ToSet(s))
    BY SeqOwnRange DEF IsSeq
  <2> QED  BY <1>1, <1>2, <2>1, <2>2
<1>3. CASE p # <<>> /\ ~ p[Len(p)].whole
  BY <1>3 DEF Failed, Last
<1> QED  BY <1>2, <1>3 DEF CutOf

\* The fields found for a member are fields of the stream, and that member's.
LEMMA FieldsElements ==
  ASSUME NEW S, NEW T, NEW f, NEW s \in Seq(S), NEW j \in 1 .. Len(FieldsFor(T, s, f))
  PROVE  \E i \in 1 .. Len(s) : FieldsFor(T, s, f)[j] = s[i] /\ MemberOf(T, s[i]) = f
<1> DEFINE those == {u \in ToSet(s) : MemberOf(T, u) = f}
           R == Seq(those)
           k == Kept(T, s, f)
<1>1. Len(k) = Len(s) /\ k \in Seq(Seq(S)) /\ Len(s) \in Nat /\ DOMAIN s = 1 .. Len(s)
      /\ \A i \in 1 .. Len(s) : k[i] = IF MemberOf(T, s[i]) = f THEN << s[i] >> ELSE <<>>
  BY KeptType
<1>2. \A i \in 1 .. Len(s) : s[i] \in ToSet(s)
  BY <1>1 DEF ToSet
<1>3. \A u \in those : << u >> \in R
  OBVIOUS
<1>4. <<>> \in R
  OBVIOUS
<1>5. \A i \in 1 .. Len(s) : MemberOf(T, s[i]) = f => s[i] \in those
  BY <1>2
<1> HIDE DEF k, R, those
<1>6. \A i \in 1 .. Len(s) : k[i] \in R
  BY <1>1, <1>3, <1>4, <1>5
<1>7. k \in Seq(R)
  BY <1>1, <1>6
<1>8. FieldsFor(T, s, f) \in Seq(those)
  BY <1>7, FieldsForIs, FlattenType DEF R, k
<1>9. FieldsFor(T, s, f)[j] \in those
  BY <1>8
<1> QED  BY <1>1, <1>9 DEF those, ToSet

-----------------------------------------------------------------------------
(* A torn entry.                                                           *)

\* The member of a field depends on its tag alone.
LEMMA TagOnly ==
  ASSUME NEW T, NEW u, NEW v, u.tag = v.tag
  PROVE  MemberOf(T, u) = MemberOf(T, v)
BY DEF MemberOf

\* What is written of a flat message: the members whose bits it has.
LEMMA FlatElements ==
  ASSUME NEW T, IsFlat(T), NEW m, FlatProper(T, m)
  PROVE  LET s == FlatFields(T, m)
         IN  /\ IsSeq(s)
             /\ \A i \in 1 .. Len(s) :
                  /\ s[i] = Field(s[i].tag, s[i].val)
                  /\ MemberOf(T, s[i]) \in Members(T)
                  /\ Bit(T, MemberOf(T, s[i])) \in m.has
                  /\ s[i].val = m.mem[MemberOf(T, s[i])]
<1> DEFINE s == FlatFields(T, m)
           C == Content(T, m)
<1>1. WellFormed(T) /\ Proper(T, m) /\ s = Serialize(T, m)
  BY FlatNew, FlatSerialize DEF IsFlat
<1>2. s \in Seq(C)
  BY <1>1, SerializeIs
<1>3. ASSUME NEW u \in C
      PROVE  /\ u = Field(u.tag, u.val)
             /\ MemberOf(T, u) \in Members(T)
             /\ Bit(T, MemberOf(T, u)) \in m.has
             /\ u.val = m.mem[MemberOf(T, u)]
  <2>1. PICK i \in DOMAIN Schema[T].wire : u \in ToSet(Segments(T, m)[i])
    BY DEF Content
  <2> DEFINE w == Schema[T].wire[i]
             a == FieldsOf(T, m, w)
  <2>2. Segments(T, m)[i] = a
    BY DEF Segments
  <2>3. w[2] \in Members(T) /\ w[2] \notin {"entries", "conf_record"}
    BY <1>1 DEF WellFormed, IsFlat
  <2>4. a = IF Bit(T, w[2]) \in m.has THEN << Field(w[1], m.mem[w[2]]) >> ELSE <<>>
    BY <2>3 DEF FieldsOf, FlatField
  <2>5. u = Field(w[1], m.mem[w[2]]) /\ Bit(T, w[2]) \in m.has
    <3> HIDE DEF a, w
    <3> QED  BY <2>1, <2>2, <2>4 DEF ToSet
  <2>6. u.tag = w[1] /\ u.val = m.mem[w[2]]
    BY <2>5 DEF Field
  <2>7. MemberOf(T, u) = w[2]
    BY <1>1, <2>6, TagRead
  <2> HIDE DEF w
  <2> QED  BY <2>3, <2>5, <2>6, <2>7
<1> HIDE DEF s, C
<1>4. IsSeq(s) /\ \A i \in 1 .. Len(s) : s[i] \in C
  BY <1>2, SeqOwnRange
<1> QED  BY <1>3, <1>4 DEF s

\* An entry torn within is read as a part of the entry: every member as it was,
\* or not set.
LEMMA PartRead ==
  ASSUME NEW of, FlatProper("LogEntry", of), NEW v \in FlatCuts(FlatFields("LogEntry", of))
  PROVE  Part(FlatParse("LogEntry", Flat("LogEntry"), v), of)
<1> DEFINE T == "LogEntry"
           s == FlatFields(T, of)
           z == Flat(T)
           m == FlatParse(T, z, v)
<1>1. IsFlat(T) /\ WellFormed(T)
  BY LogEntryFlat DEF IsFlat
<1>2. /\ IsSeq(s)
      /\ \A i \in 1 .. Len(s) :
           /\ s[i] = Field(s[i].tag, s[i].val)
           /\ MemberOf(T, s[i]) \in Members(T)
           /\ Bit(T, MemberOf(T, s[i])) \in of.has
           /\ s[i].val = of.mem[MemberOf(T, s[i])]
  BY <1>1, FlatElements
<1>3. CutOf(s, v, FlatValues(s))
  <2> HIDE DEF s
  <2>1. v \in FlatCuts(s)
    BY DEF s
  <2> QED  BY <1>2, <2>1, FlatCutsAre DEF IsSeq
<1> HIDE DEF s
<1>4. IsSeq(v) /\ Len(v) <= Len(s) /\ Len(s) \in Nat /\ Len(v) \in Nat /\ DOMAIN s = 1 .. Len(s)
  BY <1>2, <1>3 DEF CutOf, IsSeq
<1>5. ASSUME NEW i \in 1 .. Len(v)
      PROVE  /\ Bit(T, MemberOf(T, v[i])) \in of.has
             /\ v[i].val \in {of.mem[MemberOf(T, v[i])], Torn}
  <2>1. i \in 1 .. Len(s)
    BY <1>4
  <2>2. v[i].tag = s[i].tag /\ (v[i] = s[i] \/ (i = Len(v) /\ v[i].val \in FlatValues(s)[i]))
    BY <1>3, <1>4 DEF CutOf
  <2>3. FlatValues(s)[i] = {Torn}
    BY <1>4, <2>1 DEF FlatValues
  <2>4. MemberOf(T, v[i]) = MemberOf(T, s[i])
    BY <2>2, TagOnly
  <2> QED  BY <1>2, <2>1, <2>2, <2>3, <2>4
<1>6. ASSUME NEW f, FieldsFor(T, v, f) # <<>>
      PROVE  Bit(T, f) \in of.has /\ Last(FieldsFor(T, v, f)).val \in {of.mem[f], Torn}
  <2> DEFINE g == FieldsFor(T, v, f)
  <2>1. g \in Seq(ToSet(v))
    BY <1>4, FieldsType DEF IsSeq
  <2>2. Len(g) \in 1 .. Len(g) /\ Last(g) = g[Len(g)]
    <3> HIDE DEF g
    <3>1. g # <<>>
      BY <1>6 DEF g
    <3> QED  BY <2>1, <3>1 DEF Last
  <2>3. PICK i \in 1 .. Len(v) : g[Len(g)] = v[i] /\ MemberOf(T, v[i]) = f
    BY <1>4, <2>2, FieldsElements DEF IsSeq
  <2> QED  BY <1>5, <2>2, <2>3
<1>7. z.has = {} /\ \A f \in Members(T) : z.mem[f] = 0
  BY DEF Flat
<1> HIDE DEF z
<1>8. m = [has |-> z.has \cup ParsedBits(T, v), mem |-> [f \in Members(T) |-> LastOf(T, z, v, f)]]
  BY DEF FlatParse
<1>9. ParsedBits(T, v) \subseteq of.has
  BY <1>6 DEF ParsedBits
<1>10. \A f \in Members(T) : LastOf(T, z, v, f) \in {of.mem[f], 0, Torn}
  BY <1>6, <1>7 DEF LastOf
<1>11. Part(m, of)
  BY <1>7, <1>8, <1>9, <1>10 DEF Part
<1> QED  BY <1>11 DEF z

-----------------------------------------------------------------------------
(* The fields of a stream of which the places are known.                   *)

\* A member with one field, at a known place.
LEMMA OneField ==
  ASSUME NEW S, NEW T, NEW f, NEW s \in Seq(S), NEW x,
         \A i \in 1 .. Len(s) : MemberOf(T, s[i]) = f <=> i = x
  PROVE  FieldsFor(T, s, f) = IF x \in 1 .. Len(s) THEN << s[x] >> ELSE <<>>
<1> DEFINE k == Kept(T, s, f)
<1>1. /\ k \in Seq(Seq(S)) /\ Len(k) = Len(s)
      /\ \A i \in 1 .. Len(s) : k[i] = IF MemberOf(T, s[i]) = f THEN << s[i] >> ELSE <<>>
  BY KeptType
<1> HIDE DEF k
<1>2. \A i \in 1 .. Len(k) : i # x => k[i] = <<>>
  BY <1>1
<1>3. FlattenSeq(k) = IF x \in 1 .. Len(k) THEN k[x] ELSE <<>>
  BY <1>1, <1>2, FlattenSingle
<1>4. FieldsFor(T, s, f) = FlattenSeq(k)
  BY FieldsForIs DEF k
<1> QED  BY <1>1, <1>3, <1>4

\* A member whose fields stand together.
LEMMA BlockField ==
  ASSUME NEW S, NEW T, NEW f, NEW s \in Seq(S), NEW a \in Nat, NEW b \in Nat, a <= b, b <= Len(s),
         \A i \in 1 .. Len(s) : MemberOf(T, s[i]) = f <=> a < i /\ i <= b
  PROVE  /\ FieldsFor(T, s, f) \in Seq(S) /\ Len(FieldsFor(T, s, f)) = b - a
         /\ \A j \in 1 .. b - a : FieldsFor(T, s, f)[j] = s[a + j]
<1> DEFINE x == SubSeq(s, 1, a)
           y == SubSeq(s, a + 1, b)
           z == SubSeq(s, b + 1, Len(s))
           xy == x \o y
           all == xy \o z
<1>1. Len(s) \in Nat /\ \A i \in 1 .. Len(s) : s[i] \in S
  OBVIOUS
<1>2. x \in Seq(S) /\ Len(x) = a /\ \A i \in 1 .. a : x[i] = s[i]
  BY <1>1, SubSeqProperties
<1>3. y \in Seq(S) /\ Len(y) = b - a /\ \A i \in 1 .. b - a : y[i] = s[a + i]
  BY <1>1, SubSeqProperties
<1>4. z \in Seq(S) /\ Len(z) = Len(s) - b /\ \A i \in 1 .. Len(s) - b : z[i] = s[b + i]
  <2> DEFINE l == Len(s)
             c == b + 1
  <2>1. c \in Int /\ l \in Int /\ \A i \in c .. l : s[i] \in S
    BY <1>1
  <2>2. l - c + 1 = l - b /\ (IF c <= l THEN l - c + 1 ELSE 0) = l - b /\
          \A i \in 1 .. l - b : c + i - 1 = b + i
    BY <1>1
  <2>3. z = SubSeq(s, c, l)
    BY DEF z
  <2> HIDE DEF l, c, z
  <2>4. /\ z \in Seq(S) /\ Len(z) = (IF c <= l THEN l - c + 1 ELSE 0)
        /\ \A i \in 1 .. l - c + 1 : z[i] = s[c + i - 1]
    BY <2>1, <2>3, SubSeqProperties
  <2>5. z \in Seq(S) /\ Len(z) = l - b /\ \A i \in 1 .. l - b : z[i] = s[b + i]
    BY <2>2, <2>4
  <2> QED  BY <2>5 DEF l
<1> HIDE DEF x, y, z
<1>5. /\ xy \in Seq(S) /\ Len(xy) = Len(x) + Len(y)
      /\ \A i \in 1 .. Len(x) + Len(y) : xy[i] = IF i <= Len(x) THEN x[i] ELSE y[i - Len(x)]
  BY <1>2, <1>3, ConcatProperties, ZenonT(60)
<1>6. FieldsFor(T, xy, f) = FieldsFor(T, x, f) \o FieldsFor(T, y, f)
  BY <1>2, <1>3, FieldsConcat
<1> HIDE DEF xy
<1>7. Len(xy) = b /\ \A i \in 1 .. b : xy[i] = s[i]
  <2>1. Len(xy) = b
    BY <1>2, <1>3, <1>5
  <2>2. ASSUME NEW i \in 1 .. b PROVE xy[i] = s[i]
    <3>1. CASE i <= a
      BY <1>2, <1>3, <1>5, <3>1
    <3>2. CASE ~ (i <= a)
      <4>1. i - a \in 1 .. b - a /\ a + (i - a) = i
        BY <3>2
      <4>2. xy[i] = y[i - a]
        BY <1>2, <1>3, <1>5, <3>2
      <4> QED  BY <1>3, <4>1, <4>2
    <3> QED  BY <3>1, <3>2
  <2> QED  BY <2>1, <2>2
<1>8. /\ all \in Seq(S) /\ Len(all) = Len(xy) + Len(z)
      /\ \A i \in 1 .. Len(xy) + Len(z) : all[i] = IF i <= Len(xy) THEN xy[i] ELSE z[i - Len(xy)]
  <2>1. xy \in Seq(S) /\ z \in Seq(S)
    BY <1>4, <1>5
  <2> QED  BY <2>1, ConcatProperties
<1>9. FieldsFor(T, all, f) = FieldsFor(T, xy, f) \o FieldsFor(T, z, f)
  BY <1>4, <1>5, FieldsConcat, SMTT(30)
<1> HIDE DEF all
<1>10. all = s
  <2>1. Len(all) = Len(s)
    BY <1>1, <1>4, <1>7, <1>8
  <2>2. ASSUME NEW i \in 1 .. Len(s) PROVE all[i] = s[i]
    <3>1. CASE i <= b
      BY <1>1, <1>4, <1>7, <1>8, <3>1, SMTT(30)
    <3>2. CASE ~ (i <= b)
      <4>1. i - b \in 1 .. Len(s) - b /\ b + (i - b) = i
        BY <1>1, <3>2
      <4>2. all[i] = z[i - b]
        BY <1>1, <1>4, <1>7, <1>8, <3>2
      <4> QED  BY <1>4, <4>1, <4>2
    <3> QED  BY <3>1, <3>2
  <2> QED  BY <1>8, <2>1, <2>2
<1>11. FieldsFor(T, x, f) = <<>>
  <2>1. \A i \in 1 .. Len(x) : MemberOf(T, x[i]) # f
    BY <1>1, <1>2
  <2> QED  BY <1>2, <2>1, FieldsPresent
<1>12. FieldsFor(T, y, f) = y
  <2>1. ASSUME NEW i \in 1 .. Len(y) PROVE MemberOf(T, y[i]) = f
    <3>1. a + i \in 1 .. Len(s) /\ a < a + i /\ a + i <= b
      BY <1>1, <1>3
    <3> QED  BY <1>3, <3>1
  <2> QED  BY <1>3, <2>1, FieldsPresent
<1>13. FieldsFor(T, z, f) = <<>>
  <2>1. ASSUME NEW i \in 1 .. Len(z) PROVE MemberOf(T, z[i]) # f
    <3>1. b + i \in 1 .. Len(s) /\ ~ (b + i <= b)
      BY <1>1, <1>4
    <3> QED  BY <1>1, <1>4, <3>1
  <2> QED  BY <1>4, <2>1, FieldsPresent
<1>14. FieldsFor(T, s, f) = y
  <2>1. <<>> \o y = y /\ y \o <<>> = y
    BY <1>3, ConcatEmptySeq
  <2> QED  BY <1>6, <1>9, <1>10, <1>11, <1>12, <1>13, <2>1
<1> QED  BY <1>3, <1>14

-----------------------------------------------------------------------------
(* What Load makes of a file.                                              *)

\* The members of the persistent record.
LEMMA PersistMembers ==
  /\ Members("PersistRecord") = {"entries", "name", "vote_for", "conf_record", "term", "last_seq"}
  /\ WellFormed("PersistRecord")
<1>1. Members("PersistRecord") = {PersistRecordImpl[i] : i \in DOMAIN PersistRecordImpl}
  BY IsPersistRecord DEF Members, ToSet
<1>2. Members("PersistRecord") = {"entries", "name", "vote_for", "conf_record", "term", "last_seq"}
  BY <1>1 DEF PersistRecordImpl
<1> QED  BY <1>2, PersistRecordWellFormed

\* Whatever is read as entries is a log.
LEMMA ReadLog ==
  ASSUME NEW fields, IsSeq(fields)
  PROVE  IsLog(ReadEach(fields)) /\ Len(ReadEach(fields)) = Len(fields)
<1> DEFINE r == ReadEach(fields)
<1>1. /\ IsSeq(r) /\ Len(r) = Len(fields)
      /\ \A i \in 1 .. Len(fields) : r[i] = FlatParse("LogEntry", Flat("LogEntry"), fields[i].val)
  BY ReadEachSeq
<1>2. \A i \in 1 .. Len(fields) : FlatProper("LogEntry", r[i])
  BY <1>1, ParsedProper, LogEntryFlat
<1> HIDE DEF r
<1>3. DOMAIN r = 1 .. Len(fields)
  BY <1>1 DEF IsSeq
<1>4. IsLog(r)
  BY <1>1, <1>2, <1>3 DEF IsLog
<1> QED  BY <1>1, <1>4 DEF r

\* What Load takes from a file, whatever is in it.
LEMMA LoadedNode ==
  ASSUME NEW p, IsSeq(p)
  PROVE  LET P == "PersistRecord"
             loaded == Parse(P, New(P), p)
             n == NodeOf(loaded.msg)
         IN  /\ n.term = LastOf(P, New(P), p, "term")
             /\ n.votedFor = LastOf(P, New(P), p, "vote_for")
             /\ n.logs = ReadEach(FieldsFor(P, p, "entries"))
             /\ IsNode(n)
             /\ loaded.msg.has = ParsedBits(P, p)
             /\ loaded.ok <=> ~ Failed(p) /\ IsInitialized(P, loaded.msg)
<1> DEFINE P == "PersistRecord"
           z == New(P)
           loaded == Parse(P, z, p)
           m == MergeFromStream(P, z, p)
           fields == FieldsFor(P, p, "entries")
           r == ReadEach(fields)
           M == Members(P)
           read(f) == CASE f = "entries"     -> ParsedEntries(z.mem[f], FieldsFor(P, p, f))
                        [] f = "conf_record" -> ParsedConf(z.mem[f], FieldsFor(P, p, f))
                        [] OTHER             -> LastOf(P, z, p, f)
<1>1. Clear(P, z) = z
  BY NewProper, PersistMembers
<1>2. loaded = [msg |-> m, ok |-> ~ Failed(p) /\ IsInitialized(P, m)]
  BY <1>1 DEF Parse
<1>3. m = [has |-> z.has \cup ParsedBits(P, p), mem |-> [f \in M |-> read(f)]]
  BY DEF MergeFromStream
<1>4. z.has = {} /\ z.mem["entries"] = <<>>
  BY PersistMembers DEF New, Zero
<1>5. read("term") = LastOf(P, z, p, "term") /\ read("vote_for") = LastOf(P, z, p, "vote_for")
  OBVIOUS
<1>6. read("entries") = ParsedEntries(<<>>, fields)
  BY <1>4
<1>7. IsSeq(fields)
  <2>1. fields \in Seq(ToSet(p))
    BY FieldsType DEF IsSeq
  <2> HIDE DEF fields
  <2> QED  BY <2>1, SeqOwnRange
<1> HIDE DEF read, m, fields, z, loaded
<1>8. IsLog(r)
  BY <1>7, ReadLog
<1>9. ParsedEntries(<<>>, fields) = r
  <2>1. ParsedEntries(<<>>, fields) = <<>> \o r
    BY DEF ParsedEntries, ReadEach
  <2>2. r \in Seq(ToSet(r))
    BY <1>8 DEF IsLog, IsSeq
  <2> HIDE DEF r
  <2> QED  BY <2>1, <2>2, ConcatEmptySeq
<1> HIDE DEF r
<1>10. /\ m.has = ParsedBits(P, p)
       /\ m.mem["term"] = LastOf(P, z, p, "term")
       /\ m.mem["vote_for"] = LastOf(P, z, p, "vote_for")
       /\ m.mem["entries"] = r
  BY <1>3, <1>4, <1>5, <1>6, <1>9, PersistMembers
<1>11. [i \in DOMAIN r |-> CopyOf("LogEntry", r[i])] = r
  BY <1>8, LoadedLog
<1>12. NodeOf(m) = [term |-> LastOf(P, z, p, "term"), votedFor |-> LastOf(P, z, p, "vote_for"), logs
         |-> r]
  BY <1>10, <1>11 DEF NodeOf
<1>13. IsNode(NodeOf(m))
  BY <1>8, <1>12 DEF IsNode
<1>14. loaded.msg = m /\ (loaded.ok <=> ~ Failed(p) /\ IsInitialized(P, m))
  BY <1>2
<1> QED  BY <1>10, <1>12, <1>13, <1>14 DEF r, fields, z, loaded

\* The members of the fields of a record, in the order of the stream.
LEMMA PersistTags ==
  ASSUME NEW u
  PROVE  /\ u.tag = 8 => MemberOf("PersistRecord", u) = "term"
         /\ u.tag = 18 => MemberOf("PersistRecord", u) = "name"
         /\ u.tag = 26 => MemberOf("PersistRecord", u) = "vote_for"
         /\ u.tag = 34 => MemberOf("PersistRecord", u) = "entries"
         /\ u.tag = 48 => MemberOf("PersistRecord", u) = "last_seq"
<1> DEFINE wire == Schema["PersistRecord"].wire
<1>1. /\ wire[1] = <<8, "term">> /\ wire[2] = <<18, "name">> /\ wire[3] = <<26, "vote_for">>
      /\ wire[4] = <<34, "entries">> /\ wire[6] = <<48, "last_seq">>
      /\ DOMAIN wire = 1 .. 6
  BY IsPersistRecord DEF PersistRecordWire
<1>2. \A i \in 1 .. 6 : u.tag = wire[i][1] => MemberOf("PersistRecord", u) = wire[i][2]
  BY <1>1, TagRead, PersistMembers
<1> HIDE DEF wire
<1>3. /\ wire[1][1] = 8 /\ wire[1][2] = "term" /\ wire[2][1] = 18 /\ wire[2][2] = "name"
      /\ wire[3][1] = 26 /\ wire[3][2] = "vote_for" /\ wire[4][1] = 34 /\ wire[4][2] = "entries"
      /\ wire[6][1] = 48 /\ wire[6][2] = "last_seq"
  BY <1>1
<1>4. 1 \in 1 .. 6 /\ 2 \in 1 .. 6 /\ 3 \in 1 .. 6 /\ 4 \in 1 .. 6 /\ 6 \in 1 .. 6
  OBVIOUS
<1> QED  BY <1>2, <1>3, <1>4

\* Which member each field of a cut record belongs to.
LEMMA PersistPlaces ==
  ASSUME NEW d, IsNode(d), NEW p, NEW values, CutOf(Written(d), p, values)
  PROVE  /\ Len(p) \in Nat /\ Len(p) <= Len(d.logs) + 4 /\ Len(d.logs) \in Nat
         /\ \A i \in 1 .. Len(p) :
              MemberOf("PersistRecord", p[i]) =
                IF i = 1 THEN "term" ELSE IF i = 2 THEN "name" ELSE IF i = 3 THEN "vote_for"
                ELSE IF i <= Len(d.logs) + 3 THEN "entries" ELSE "last_seq"
<1> DEFINE s == Written(d)
           e == Len(d.logs)
<1>1. /\ IsSeq(s) /\ Len(s) = e + 4 /\ e \in Nat
      /\ s[1] = Field(8, d.term) /\ s[2] = Field(18, Addr) /\ s[3] = Field(26, d.votedFor)
      /\ \A j \in 1 .. e : s[3 + j] = Field(34, FlatFields("LogEntry", d.logs[j]))
      /\ s[e + 4] = Field(48, 0)
  BY WrittenIs
<1>2. \A t, v : Field(t, v).tag = t
  BY DEF Field
<1> HIDE DEF s, e
<1>3. /\ s[1].tag = 8 /\ s[2].tag = 18 /\ s[3].tag = 26 /\ s[e + 4].tag = 48
      /\ \A j \in 1 .. e : s[3 + j].tag = 34
  <2>1. s[1].tag = 8 /\ s[2].tag = 18 /\ s[3].tag = 26 /\ s[e + 4].tag = 48
    <3>1. s[1] = Field(8, d.term) /\ s[2] = Field(18, Addr) /\ s[3] = Field(26, d.votedFor)
          /\ s[e + 4] = Field(48, 0)
      BY <1>1
    <3>2. Field(8, d.term).tag = 8 /\ Field(18, Addr).tag = 18 /\ Field(26, d.votedFor).tag = 26
          /\ Field(48, 0).tag = 48
      BY <1>2
    <3> QED  BY <3>1, <3>2
  <2>2. ASSUME NEW j \in 1 .. e PROVE s[3 + j].tag = 34
    <3>1. s[3 + j] = Field(34, FlatFields("LogEntry", d.logs[j]))
      BY <1>1
    <3> QED  BY <1>2, <3>1, SMTT(30)
  <2> QED  BY <2>1, <2>2
<1>4. Len(p) \in Nat /\ Len(p) <= e + 4 /\ \A i \in 1 .. Len(p) : p[i].tag = s[i].tag
  <2>1. CutOf(s, p, values)
    BY DEF s
  <2>2. IsSeq(p) /\ Len(p) <= Len(s) /\ \A i \in 1 .. Len(p) : p[i].tag = s[i].tag
    BY <2>1 DEF CutOf
  <2> QED  BY <1>1, <2>2 DEF IsSeq
<1>5. ASSUME NEW i \in 1 .. Len(p)
      PROVE  MemberOf("PersistRecord", p[i]) =
                IF i = 1 THEN "term" ELSE IF i = 2 THEN "name" ELSE IF i = 3 THEN "vote_for"
                ELSE IF i <= e + 3 THEN "entries" ELSE "last_seq"
  <2>1. CASE i = 1  BY <1>3, <1>4, <2>1, PersistTags
  <2>2. CASE i = 2  BY <1>3, <1>4, <2>2, PersistTags
  <2>3. CASE i = 3  BY <1>3, <1>4, <2>3, PersistTags
  <2>4. CASE i > 3 /\ i <= e + 3
    <3>1. i - 3 \in 1 .. e /\ 3 + (i - 3) = i
      BY <1>1, <2>4
    <3>2. p[i].tag = 34
      BY <1>3, <1>4, <3>1
    <3> QED  BY <2>4, <3>2, PersistTags
  <2>5. CASE i > 3 /\ ~ (i <= e + 3)
    <3>1. i = e + 4
      BY <1>1, <1>4, <2>5
    <3>2. p[i].tag = 48
      BY <1>3, <1>4, <3>1
    <3> QED  BY <2>5, <3>2, PersistTags
  <2>6. i = 1 \/ i = 2 \/ i = 3 \/ i > 3
    BY <1>4
  <2> QED  BY <2>1, <2>2, <2>3, <2>4, <2>5, <2>6
<1> QED  BY <1>1, <1>4, <1>5 DEF e

-----------------------------------------------------------------------------
(* What Load makes of a file that is a beginning of a record.              *)

\* The fields of the four members, by their places.
LEMMA PersistFields ==
  ASSUME NEW d, IsNode(d), NEW p, NEW values, CutOf(Written(d), p, values)
  PROVE  LET P == "PersistRecord"
             l == Len(p)
             e == Len(d.logs)
             k == IF l <= 3 THEN 0 ELSE IF l <= e + 3 THEN l - 3 ELSE e
             es == FieldsFor(P, p, "entries")
         IN  /\ FieldsFor(P, p, "term") = IF 1 <= l THEN << p[1] >> ELSE <<>>
             /\ FieldsFor(P, p, "vote_for") = IF 3 <= l THEN << p[3] >> ELSE <<>>
             /\ FieldsFor(P, p, "last_seq") = IF e + 4 <= l THEN << p[e + 4] >> ELSE <<>>
             /\ IsSeq(es) /\ Len(es) = k
             /\ \A j \in 1 .. k : es[j] = p[3 + j]
<1> DEFINE P == "PersistRecord"
           l == Len(p)
           e == Len(d.logs)
           k == IF l <= 3 THEN 0 ELSE IF l <= e + 3 THEN l - 3 ELSE e
           es == FieldsFor(P, p, "entries")
           S == ToSet(p)
           name(i) == IF i = 1 THEN "term" ELSE IF i = 2 THEN "name" ELSE IF i = 3 THEN "vote_for"
                      ELSE IF i <= e + 3 THEN "entries" ELSE "last_seq"
<1>1. l \in Nat /\ l <= e + 4 /\ e \in Nat /\ \A i \in 1 .. l : MemberOf(P, p[i]) = name(i)
  BY PersistPlaces
<1>2. p \in Seq(S)
  BY DEF CutOf, IsSeq
<1>3. \A i \in 1 .. l : /\ name(i) = "term" <=> i = 1
                        /\ name(i) = "vote_for" <=> i = 3
                        /\ name(i) = "last_seq" <=> i = e + 4
                        /\ name(i) = "entries" <=> 3 < i /\ i <= e + 3
  BY <1>1
<1> HIDE DEF name, S
<1>4. FieldsFor(P, p, "term") = IF 1 <= l THEN << p[1] >> ELSE <<>>
  <2>1. \A i \in 1 .. Len(p) : MemberOf(P, p[i]) = "term" <=> i = 1
    BY <1>1, <1>3
  <2>2. FieldsFor(P, p, "term") = IF 1 \in 1 .. Len(p) THEN << p[1] >> ELSE <<>>
    BY <1>2, <2>1, OneField
  <2>3. 1 \in 1 .. Len(p) <=> 1 <= l
    BY <1>1
  <2> QED  BY <2>2, <2>3
<1>5. FieldsFor(P, p, "vote_for") = IF 3 <= l THEN << p[3] >> ELSE <<>>
  <2>1. \A i \in 1 .. Len(p) : MemberOf(P, p[i]) = "vote_for" <=> i = 3
    BY <1>1, <1>3
  <2>2. FieldsFor(P, p, "vote_for") = IF 3 \in 1 .. Len(p) THEN << p[3] >> ELSE <<>>
    BY <1>2, <2>1, OneField
  <2>3. 3 \in 1 .. Len(p) <=> 3 <= l
    BY <1>1
  <2> QED  BY <2>2, <2>3
<1>6. FieldsFor(P, p, "last_seq") = IF e + 4 <= l THEN << p[e + 4] >> ELSE <<>>
  <2> DEFINE x == e + 4
  <2>1. \A i \in 1 .. Len(p) : MemberOf(P, p[i]) = "last_seq" <=> i = x
    BY <1>1, <1>3
  <2>3. x \in 1 .. Len(p) <=> e + 4 <= l
    BY <1>1
  <2> HIDE DEF x
  <2>2. FieldsFor(P, p, "last_seq") = IF x \in 1 .. Len(p) THEN << p[x] >> ELSE <<>>
    BY <1>2, <2>1, OneField
  <2> QED  BY <2>2, <2>3 DEF x
<1>7. es \in Seq(S) /\ Len(es) = k /\ \A j \in 1 .. k : es[j] = p[3 + j]
  <2>0. ASSUME NEW b \in Nat, 3 <= b, b <= l,
               \A i \in 1 .. l : MemberOf(P, p[i]) = "entries" <=> 3 < i /\ i <= b
        PROVE  es \in Seq(S) /\ Len(es) = b - 3 /\ \A j \in 1 .. b - 3 : es[j] = p[3 + j]
    BY <1>2, <2>0, BlockField
  <2> HIDE DEF e, es
  <2>1. CASE l <= 3
    <3>1. \A i \in 1 .. Len(p) : MemberOf(P, p[i]) # "entries"
      BY <1>1, <1>3, <2>1
    <3>2. es = <<>>
      BY <1>2, <3>1, FieldsPresent DEF es
    <3>a. <<>> \in Seq(S) /\ Len(<<>>) = 0
      OBVIOUS
    <3>3. es \in Seq(S) /\ Len(es) = 0
      BY <3>2, <3>a, Zenon
    <3> QED  BY <2>1, <3>3
  <2>2. CASE l > 3 /\ l <= e + 3
    <3>1. \A i \in 1 .. l : MemberOf(P, p[i]) = "entries" <=> 3 < i /\ i <= l
      BY <1>1, <1>3, <2>2
    <3>2. es \in Seq(S) /\ Len(es) = l - 3 /\ \A j \in 1 .. l - 3 : es[j] = p[3 + j]
      BY <1>1, <2>0, <2>2, <3>1
    <3> QED  BY <1>1, <2>2, <3>2
  <2>3. CASE l > 3 /\ ~ (l <= e + 3)
    <3> DEFINE b == e + 3
    <3>1. b \in Nat /\ 3 <= b /\ b <= l /\ b - 3 = e /\ k = e
      BY <1>1, <2>3
    <3>2. \A i \in 1 .. l : MemberOf(P, p[i]) = "entries" <=> 3 < i /\ i <= b
      BY <1>1, <1>3, <2>3
    <3> HIDE DEF b, k
    <3>4. es \in Seq(S) /\ Len(es) = b - 3 /\ \A j \in 1 .. b - 3 : es[j] = p[3 + j]
      BY <2>0, <3>1, <3>2
    <3> QED  BY <3>1, <3>4
  <2> QED  BY <1>1, <2>1, <2>2, <2>3
<1>8. IsSeq(es)
  <2> HIDE DEF es
  <2> QED  BY <1>7, SeqOwnRange
<1> QED  BY <1>4, <1>5, <1>6, <1>7, <1>8

\* Every field of a record is whole, and has the shape the cuts work on.
LEMMA WrittenFields ==
  ASSUME NEW d, IsNode(d)
  PROVE  /\ IsSeq(Written(d))
         /\ \A i \in 1 .. Len(Written(d)) :
              Written(d)[i] = Field(Written(d)[i].tag, Written(d)[i].val)
<1> DEFINE s == Written(d)
           e == Len(d.logs)
<1>1. /\ IsSeq(s) /\ Len(s) = e + 4 /\ e \in Nat
      /\ s[1] = Field(8, d.term) /\ s[2] = Field(18, Addr) /\ s[3] = Field(26, d.votedFor)
      /\ \A j \in 1 .. e : s[3 + j] = Field(34, FlatFields("LogEntry", d.logs[j]))
      /\ s[e + 4] = Field(48, 0)
  BY WrittenIs
<1>2. \A t, v : Field(t, v) = Field(Field(t, v).tag, Field(t, v).val)
  BY DEF Field
<1> HIDE DEF s, e
<1>3. ASSUME NEW i \in 1 .. Len(s) PROVE \E t, v : s[i] = Field(t, v)
  <2>1. CASE i <= 3
    <3>1. i = 1 \/ i = 2 \/ i = 3
      BY <2>1
    <3> QED  BY <1>1, <3>1
  <2>2. CASE i > 3 /\ i <= e + 3
    <3>1. i - 3 \in 1 .. e /\ 3 + (i - 3) = i
      BY <1>1, <2>2
    <3> QED  BY <1>1, <3>1
  <2>3. CASE ~ (i <= e + 3)
    <3>1. i = e + 4
      BY <1>1, <2>3
    <3> QED  BY <1>1, <3>1
  <2> QED  BY <1>1, <2>1, <2>2, <2>3
<1>4. \A i \in 1 .. Len(s) : s[i] = Field(s[i].tag, s[i].val)
  BY <1>2, <1>3
<1> QED  BY <1>1, <1>4 DEF s

\* What a beginning of a record leaves in the node is a beginning of the node.
LEMMA CutLoaded ==
  ASSUME NEW d, IsNode(d), NEW p, CutOf(Written(d), p, Values("PersistRecord", Written(d)))
  PROVE  IsBeginning(NodeOf(Parse("PersistRecord", New("PersistRecord"), p).msg), d)
<1> DEFINE P == "PersistRecord"
           s == Written(d)
           values == Values(P, s)
           n == NodeOf(Parse(P, New(P), p).msg)
           l == Len(p)
           e == Len(d.logs)
           k == IF l <= 3 THEN 0 ELSE IF l <= e + 3 THEN l - 3 ELSE e
           es == FieldsFor(P, p, "entries")
<1>1. /\ n.term = LastOf(P, New(P), p, "term")
      /\ n.votedFor = LastOf(P, New(P), p, "vote_for")
      /\ n.logs = ReadEach(es)
  BY LoadedNode DEF CutOf
<1>2. /\ FieldsFor(P, p, "term") = IF 1 <= l THEN << p[1] >> ELSE <<>>
      /\ FieldsFor(P, p, "vote_for") = IF 3 <= l THEN << p[3] >> ELSE <<>>
      /\ IsSeq(es) /\ Len(es) = k
      /\ \A j \in 1 .. k : es[j] = p[3 + j]
  BY PersistFields
<1>3. New(P).mem["term"] = 0 /\ New(P).mem["vote_for"] = 0
  BY PersistMembers DEF New, Zero
<1>4. \A u : Last(<< u >>) = u /\ << u >> # <<>>
  BY DEF Last
<1>5. n.term = IF 1 <= l THEN p[1].val ELSE 0
  BY <1>1, <1>2, <1>3, <1>4 DEF LastOf
<1>6. n.votedFor = IF 3 <= l THEN p[3].val ELSE 0
  BY <1>1, <1>2, <1>3, <1>4 DEF LastOf
<1>7. /\ IsSeq(s) /\ Len(s) = e + 4 /\ e \in Nat
      /\ s[1] = Field(8, d.term) /\ s[3] = Field(26, d.votedFor)
      /\ \A j \in 1 .. e : s[3 + j] = Field(34, FlatFields("LogEntry", d.logs[j]))
  BY WrittenIs
<1>8. l \in Nat /\ l <= e + 4
  BY PersistPlaces
<1>9. \A t, v : Field(t, v).tag = t /\ Field(t, v).val = v
  BY DEF Field
<1>10. DOMAIN s = 1 .. Len(s)
  BY <1>7 DEF IsSeq
<1>11. \A i \in 1 .. Len(s) : values[i] = IF MemberOf(P, s[i]) \in {"entries", "conf_record"}
                                          THEN FlatCuts(s[i].val) \ {s[i].val} ELSE {Torn}
  BY <1>10 DEF Values
<1>12. IsLog(d.logs)
  BY DEF IsNode
<1>13. \A i \in 1 .. l : p[i] = s[i] \/ (i = l /\ p[i].val \in values[i])
  <2>1. CutOf(s, p, values)
    OBVIOUS
  <2> HIDE DEF s, values, l, P
  <2> QED  BY <1>8, <2>1 DEF CutOf, l
<1> HIDE DEF s, values, n, l, e, es, k
<1>14. 1 <= l => p[1].val = d.term \/ (l = 1 /\ p[1].val = Torn)
  <2>1. s[1].tag = 8 /\ s[1].val = d.term
    BY <1>7, <1>9
  <2>2. MemberOf(P, s[1]) = "term" /\ 1 \in 1 .. Len(s)
    BY <1>7, <2>1, PersistTags
  <2>3. values[1] = {Torn}
    BY <1>11, <2>2
  <2> QED  BY <1>8, <1>13, <2>1, <2>3
<1>15. 3 <= l => p[3].val = d.votedFor \/ (l = 3 /\ p[3].val = Torn)
  <2>1. s[3].tag = 26 /\ s[3].val = d.votedFor
    BY <1>7, <1>9
  <2>2. MemberOf(P, s[3]) = "vote_for" /\ 3 \in 1 .. Len(s)
    BY <1>7, <2>1, PersistTags
  <2>3. values[3] = {Torn}
    BY <1>11, <2>2
  <2> QED  BY <1>8, <1>13, <2>1, <2>3
<1>16. k \in Nat /\ k <= e /\ (l <= 3 => k = 0) /\ k + 3 <= l + 3
         /\ (k # 0 => k + 3 <= l /\ (k < e => k + 3 = l))
  BY <1>7, <1>8 DEF k
<1>17. /\ IsSeq(n.logs) /\ Len(n.logs) = k
       /\ \A j \in 1 .. k : n.logs[j] = FlatParse("LogEntry", Flat("LogEntry"), es[j].val)
  BY <1>1, <1>2, ReadEachSeq
<1>18. ASSUME NEW j \in 1 .. k
       PROVE  n.logs[j] = d.logs[j] \/ (j = k /\ Part(n.logs[j], d.logs[j]))
  <2>1. j \in 1 .. e /\ 3 + j \in 1 .. l /\ 3 + j \in 1 .. Len(s)
    BY <1>7, <1>8, <1>16
  <2>2. FlatProper("LogEntry", d.logs[j])
    BY <1>12, <2>1 DEF IsLog, IsSeq, e
  <2>3. s[3 + j] = Field(34, FlatFields("LogEntry", d.logs[j]))
    BY <1>7, <2>1
  <2>4. s[3 + j].tag = 34 /\ s[3 + j].val = FlatFields("LogEntry", d.logs[j])
    BY <1>9, <2>3
  <2>5. n.logs[j] = FlatParse("LogEntry", Flat("LogEntry"), p[3 + j].val)
    BY <1>2, <1>17
  <2>6. CASE p[3 + j] = s[3 + j]
    <3>1. n.logs[j] = FlatParse("LogEntry", Flat("LogEntry"), FlatFields("LogEntry", d.logs[j]))
      BY <2>4, <2>5, <2>6
    <3> QED  BY <2>2, <3>1, FlatRead, LogEntryFlat
  <2>7. CASE 3 + j = l /\ p[3 + j].val \in values[3 + j]
    <3>1. MemberOf(P, s[3 + j]) = "entries"
      BY <2>4, PersistTags
    <3>2. p[3 + j].val \in FlatCuts(FlatFields("LogEntry", d.logs[j]))
      BY <1>11, <2>1, <2>4, <2>7, <3>1
    <3>3. Part(n.logs[j], d.logs[j])
      BY <2>2, <2>5, <3>2, PartRead
    <3>4. j = k
      BY <1>16, <2>7
    <3> QED  BY <3>3, <3>4
  <2> QED  BY <1>13, <2>1, <2>6, <2>7
<1>19. DOMAIN n.logs = 1 .. k
  BY <1>17 DEF IsSeq
<1>20. n.term \in {d.term, 0, Torn} /\ (n.term # d.term => n.votedFor = 0)
  BY <1>5, <1>6, <1>8, <1>14
<1>21. n.votedFor \in {d.votedFor, 0, Torn} /\ (n.votedFor # d.votedFor => k = 0)
  BY <1>6, <1>8, <1>15, <1>16
<1>22. k = 0 => n.logs = <<>>
  BY <1>17 DEF IsSeq
<1>23. IsBeginning(n, d)
  <2>1. Len(n.logs) <= Len(d.logs)
    BY <1>16, <1>17 DEF e
  <2>2. \A i \in DOMAIN n.logs : n.logs[i] = d.logs[i]
          \/ (i = Len(n.logs) /\ Part(n.logs[i], d.logs[i]))
    BY <1>17, <1>18, <1>19
  <2> QED  BY <1>20, <1>21, <1>22, <2>1, <2>2 DEF IsBeginning
<1> QED  BY <1>23 DEF n

\* A record that is accepted is complete.
LEMMA CutRefused ==
  ASSUME NEW d, IsNode(d), NEW p, CutOf(Written(d), p, Values("PersistRecord", Written(d))),
         Parse("PersistRecord", New("PersistRecord"), p).ok
  PROVE  p = Written(d)
<1> DEFINE P == "PersistRecord"
           s == Written(d)
           values == Values(P, s)
           loaded == Parse(P, New(P), p)
           e == Len(d.logs)
<1>1. /\ loaded.msg.has = ParsedBits(P, p)
      /\ loaded.ok <=> ~ Failed(p) /\ IsInitialized(P, loaded.msg)
  BY LoadedNode DEF CutOf
<1>2. IsSeq(s) /\ Len(s) = e + 4
  BY WrittenIs
<1>3. FieldsFor(P, p, "last_seq") = IF e + 4 <= Len(p) THEN << p[e + 4] >> ELSE <<>>
  BY PersistFields
<1>4. Len(p) \in Nat /\ e \in Nat
  BY PersistPlaces
<1>5. CutOf(s, p, values)
  OBVIOUS
<1>6. loaded.ok
  OBVIOUS
<1>7. /\ Bit(P, "last_seq") = 16 /\ "last_seq" \in Members(P)
      /\ Mask(Schema[P].required) = {1, 2, 8, 16}
  <2>1. Mask(27) = {1, 2, 8, 16}
    BY DEF Mask
  <2> QED  BY <2>1, IsPersistRecord, PersistMembers DEF Bit, PersistRecordBits,
              PersistRecordRequired
<1> HIDE DEF s, values, loaded, e
<1>8. p = s \/ Failed(p) \/ Len(p) < Len(s)
  BY <1>2, <1>5, CutEnds DEF IsSeq
<1>9. ~ Failed(p)
  BY <1>1, <1>6
<1>10. ~ (Len(p) < Len(s))
  <2>1. SUFFICES ASSUME Len(p) < Len(s) PROVE FALSE
    OBVIOUS
  <2>2. FieldsFor(P, p, "last_seq") = <<>>
    BY <1>2, <1>3, <1>4, <2>1
  <2>3. 16 \in ParsedBits(P, p)
    BY <1>1, <1>6, <1>7 DEF IsInitialized, Complete
  <2>4. PICK g \in DOMAIN Schema[P].bits : FieldsFor(P, p, g) # <<>> /\ Bit(P, g) = 16
    BY <2>3 DEF ParsedBits
  <2>5. g = "last_seq"
    BY <1>7, <2>4, BitOf, PersistMembers
  <2> QED  BY <2>2, <2>4, <2>5
<1> QED  BY <1>8, <1>9, <1>10 DEF s

\* A record that was written to its end is the node it was made from.
LEMMA WholeLoaded ==
  ASSUME NEW d, IsNode(d)
  PROVE  NodeOf(Parse("PersistRecord", New("PersistRecord"), Written(d)).msg) = d
<1> DEFINE P == "PersistRecord"
           r == RecordOf(d)
<1>1. Proper(P, r)
  BY RecordIs
<1>2. Parse(P, New(P), Serialize(P, r)) = [msg |-> r, ok |-> IsInitialized(P, r)]
  BY <1>1, PersistMembers, OneRead
<1>3. Parse(P, New(P), Serialize(P, r)).msg = r
  BY <1>2
<1> QED  BY <1>3, NodeBack DEF Written

-----------------------------------------------------------------------------
(* The file of a node.                                                     *)

\* A Dump under way writes the record of the node it was called with into a file
\* that was emptied for it.
Dumping ==
    at = "dumping" =>
        /\ exists
        /\ record = Written(dumped)
        /\ ~ whole

\* Without the file there was no Dump to end.
NoFile == ~ exists => ~ whole

FileInv == Dumping /\ NoFile /\ FileIsCut /\ whole \in BOOLEAN

\* Dump keeps the invariant whatever node it is called with.
LEMMA DumpKeeps == ASSUME NEW n, FileInv, Dump(n) PROVE FileInv'
<1>1. /\ at' = "dumping" /\ exists' /\ file' = <<>> /\ dumped' = n /\ ~ whole'
      /\ record' = Written(n)
  BY DEF Dump, Written
<1>2. Dumping'  BY <1>1 DEF Dumping, Written
<1>3. NoFile'  BY <1>1 DEF NoFile
<1>4. FileIsCut'  BY <1>1 DEF FileIsCut
<1>5. whole' \in BOOLEAN  BY DEF Dump
<1> QED  BY <1>2, <1>3, <1>4, <1>5 DEF FileInv

\* Every step keeps it; those that call Dump by the lemma above.
LEMMA StepKeeps == FileInv /\ [Next]_vars => FileInv'
<1> SUFFICES ASSUME FileInv, [Next]_vars PROVE FileInv'
  OBVIOUS
<1>1. CASE Run
  BY <1>1 DEF Run, FileInv, Dumping, NoFile, FileIsCut
<1>2. CASE DoElection
  BY <1>2, DumpKeeps DEF DoElection
<1>3. CASE OnRequestVoteRequest
  BY <1>3, DumpKeeps DEF OnRequestVoteRequest
<1>4. CASE OnRequestVoteResponse
  BY <1>4, DumpKeeps DEF OnRequestVoteResponse
<1>5. CASE LearnTerm
  BY <1>5 DEF LearnTerm, FileInv, Dumping, NoFile, FileIsCut
<1>6. CASE DoLog
  BY <1>6, DumpKeeps DEF DoLog
<1>7. CASE OnAppendEntriesRequest
  BY <1>7, DumpKeeps DEF OnAppendEntriesRequest
<1>8. CASE Write
  <2>1. record = Written(dumped) /\ exists /\ ~ whole
    BY <1>8 DEF Write, FileInv, Dumping
  <2>2. file' \in Cuts("PersistRecord", Written(dumped))
    BY <1>8, <2>1 DEF Write
  <2>3. FileIsCut'
    BY <1>8, <2>1, <2>2 DEF Write, FileIsCut, Written
  <2> QED  BY <1>8, <2>1, <2>3 DEF Write, FileInv, Dumping, NoFile, Written
<1>9. CASE Close
  <2>1. record = Written(dumped) /\ exists
    BY <1>9 DEF Close, FileInv, Dumping
  <2>2. file' = Written(dumped')
    BY <1>9, <2>1 DEF Close
  <2>3. FileIsCut'
    BY <2>2 DEF FileIsCut, Written
  <2> QED  BY <1>9, <2>1, <2>3 DEF Close, FileInv, Dumping, NoFile
<1>10. CASE Crash
  BY <1>10 DEF Crash, FileInv, Dumping, NoFile, FileIsCut
<1>11. CASE UNCHANGED vars
  BY <1>11 DEF vars, FileInv, Dumping, NoFile, FileIsCut
<1> QED
  BY <1>1, <1>2, <1>3, <1>4, <1>5, <1>6, <1>7, <1>8, <1>9, <1>10, <1>11 DEF Next

\* In every state, after any number of Dumps that ended or were cut short by a
\* crash, the file is a beginning of what the last Dump had to write.
THEOREM FileNeverMixed == Spec => []FileIsCut
<1>1. Init => FileInv
  BY DEF Init, FileInv, Dumping, NoFile, FileIsCut
<1>2. FileInv => FileIsCut
  BY DEF FileInv
<1> QED  BY <1>1, <1>2, StepKeeps, PTL DEF Spec

-----------------------------------------------------------------------------
(* What is loaded.                                                         *)

\* A log of no entries.
LEMMA EmptyLog == IsLog(<<>>)
<1>1. <<>> \in Seq({}) /\ DOMAIN <<>> = {}
  OBVIOUS
<1>2. IsSeq(<<>>)
  BY <1>1, SeqOwnRange
<1> QED  BY <1>1, <1>2 DEF IsLog

\* A log with one more entry.
LEMMA LongerLog ==
  ASSUME NEW logs, IsLog(logs), NEW u, FlatProper("LogEntry", u)
  PROVE  IsLog(Append(logs, u))
<1> DEFINE R == ToSet(logs) \cup {u}
           a == Append(logs, u)
           k == Len(logs)
<1>1. logs \in Seq(R) /\ u \in R
  <2>1. ToSet(logs) \subseteq R /\ u \in R
    OBVIOUS
  <2> HIDE DEF R
  <2> QED  BY <2>1, SeqMonotonic DEF IsLog, IsSeq
<1> HIDE DEF R
<1>2. k \in Nat /\ DOMAIN logs = 1 .. k
  BY <1>1
<1>3. a \in Seq(R) /\ IsAppended(a, logs, u, k)
  BY <1>1, <1>2, Appended
<1> HIDE DEF a
<1>4. IsSeq(a) /\ DOMAIN a = 1 .. k + 1
  <2>1. DOMAIN a = 1 .. Len(a)
    BY <1>3
  <2>2. Len(a) = k + 1
    BY <1>3 DEF IsAppended
  <2> QED  BY <1>3, <2>1, <2>2, SeqOwnRange
<1>5. ASSUME NEW i \in 1 .. k + 1 PROVE FlatProper("LogEntry", a[i])
  <2>1. CASE i = k + 1
    BY <1>3, <2>1 DEF IsAppended
  <2>2. CASE i # k + 1
    <3>1. i \in 1 .. k
      BY <1>2, <2>2
    <3>2. a[i] = logs[i]
      BY <1>3, <3>1 DEF IsAppended
    <3> QED  BY <1>2, <3>1, <3>2 DEF IsLog
  <2> QED  BY <2>1, <2>2
<1> QED  BY <1>4, <1>5 DEF IsLog, a

\* A beginning of a log is a log.
LEMMA ShorterLog ==
  ASSUME NEW logs, IsLog(logs), NEW kept \in Prefixes(logs)
  PROVE  IsLog(kept)
<1>1. logs \in Seq(ToSet(logs)) /\ Len(logs) \in Nat /\ DOMAIN logs = 1 .. Len(logs)
  BY DEF IsLog, IsSeq
<1>2. PICK k \in 0 .. Len(logs) : kept = SubSeq(logs, 1, k)
  BY DEF Prefixes
<1>3. kept \in Seq(ToSet(logs)) /\ DOMAIN kept = 1 .. k /\
        \A i \in 1 .. k : kept[i] = logs[i] /\ i \in 1 .. Len(logs)
  BY <1>1, <1>2
<1>4. IsSeq(kept)
  BY <1>3, SeqOwnRange
<1> QED  BY <1>1, <1>3, <1>4 DEF IsLog

\* The file is a beginning of the record in the sense of the cuts.
LEMMA FileCut ==
  ASSUME IsNode(dumped), FileIsCut, exists
  PROVE  CutOf(Written(dumped), file, Values("PersistRecord", Written(dumped)))
<1> DEFINE s == Written(dumped)
           values == Values("PersistRecord", s)
<1>1. IsSeq(s) /\ \A i \in 1 .. Len(s) : s[i] = Field(s[i].tag, s[i].val)
  BY WrittenFields
<1>2. file \in {<<>>, s} \cup Cuts("PersistRecord", s)
  BY DEF FileIsCut, Written
<1> HIDE DEF s
<1>3. s \in Seq(ToSet(s)) /\ Len(s) \in Nat
  BY <1>1 DEF IsSeq
<1>4. CASE file = <<>>
  <2>1. SubSeq(s, 1, 0) = <<>> /\ 0 \in 0 .. Len(s)
    BY <1>3
  <2> HIDE DEF values
  <2>2. CutOf(s, SubSeq(s, 1, 0), values)
    BY <1>3, <2>1, PrefixCut
  <2> QED  BY <1>4, <2>1, <2>2 DEF s, values
<1>5. CASE file = s
  <2>1. SubSeq(s, 1, Len(s)) = s /\ Len(s) \in 0 .. Len(s)
    BY <1>3, SubSeqFull
  <2> HIDE DEF values
  <2>2. CutOf(s, SubSeq(s, 1, Len(s)), values)
    BY <1>3, <2>1, PrefixCut
  <2> QED  BY <1>5, <2>1, <2>2 DEF s, values
<1>6. CASE file \in Cuts("PersistRecord", s)
  <2>1. CutOf(s, file, values)
    BY <1>1, <1>3, <1>6, CutsAre
  <2> QED  BY <2>1 DEF s
<1> QED  BY <1>2, <1>4, <1>5, <1>6

\* The node, and the one of the last Dump, have a log of proper entries.
NodeInv == FileInv /\ IsNode(node) /\ IsNode(dumped)

\* Dump of a proper node keeps the invariant.
LEMMA DumpNode ==
  ASSUME NEW n, NodeInv, IsNode(n), IsNode(node'), Dump(n)
  PROVE  NodeInv'
<1>1. dumped' = n
  BY DEF Dump
<1> QED  BY <1>1, DumpKeeps DEF NodeInv

\* A change of term or vote leaves the log alone.
LEMMA SameLog ==
  ASSUME NEW n, IsNode(n), NEW t, NEW v
  PROVE  /\ IsNode([n EXCEPT !.term = t])
         /\ IsNode([n EXCEPT !.term = t, !.votedFor = v])
<1> DEFINE Node(a, b) == [term |-> a, votedFor |-> b, logs |-> n.logs]
<1>1. n = [term |-> n.term, votedFor |-> n.votedFor, logs |-> n.logs] /\ IsLog(n.logs)
  BY DEF IsNode
<1>2. \A a, b : IsNode(Node(a, b))
  <2> TAKE a, b
  <2>1. Node(a, b).term = a /\ Node(a, b).votedFor = b /\ Node(a, b).logs = n.logs
    OBVIOUS
  <2>2. Node(a, b) = [term |-> Node(a, b).term, votedFor |-> Node(a, b).votedFor,
                      logs |-> Node(a, b).logs]
    BY <2>1
  <2>3. IsLog(Node(a, b).logs)
    BY <1>1, <2>1
  <2> HIDE DEF Node
  <2> QED  BY <2>2, <2>3 DEF IsNode
<1>3. [n EXCEPT !.term = t] = Node(t, n.votedFor)
  BY <1>1
<1>4. [n EXCEPT !.term = t, !.votedFor = v] = Node(t, v)
  <2> DEFINE m == [n EXCEPT !.term = t]
  <2>1. m = [term |-> t, votedFor |-> n.votedFor, logs |-> n.logs]
    BY <1>1
  <2> HIDE DEF m
  <2>2. [m EXCEPT !.votedFor = v] = Node(t, v)
    BY <2>1
  <2>3. [n EXCEPT !.term = t, !.votedFor = v] = [m EXCEPT !.votedFor = v]
    BY Zenon DEF m
  <2> QED  BY <2>2, <2>3
<1> HIDE DEF Node
<1> QED  BY <1>2, <1>3, <1>4

\* Another log of proper entries.
LEMMA OtherLog ==
  ASSUME NEW n, IsNode(n), NEW logs, IsLog(logs)
  PROVE  IsNode([n EXCEPT !.logs = logs])
BY DEF IsNode

\* Whatever the file holds, Load makes a proper node of it.
LEMMA LoadKeeps ==
  ASSUME NodeInv, exists
  PROVE  IsNode(NodeOf(Loaded.msg))
<1>1. IsSeq(file)
  BY FileCut DEF CutOf, NodeInv, FileInv
<1> QED  BY <1>1, LoadedNode DEF Loaded

\* Every step keeps the invariant.
LEMMA NodeStep == NodeInv /\ [Next]_vars => NodeInv'
<1> SUFFICES ASSUME NodeInv, [Next]_vars PROVE NodeInv'
  OBVIOUS
<1>0. FileInv'
  BY StepKeeps DEF NodeInv
<1>1. CASE Run
  <2>1. IsNode(node')
    <3>1. CASE exists
      BY <1>1, <3>1, LoadKeeps DEF Run
    <3>2. CASE ~ exists
      BY <1>1, <3>2 DEF Run, NodeInv
    <3> QED  BY <3>1, <3>2
  <2> QED  BY <1>0, <1>1, <2>1 DEF Run, NodeInv
<1>2. CASE DoElection
  <2>1. PICK t \in HigherTerms : node' = [node EXCEPT !.term = t, !.votedFor = Addr] /\ Dump(node')
    BY <1>2 DEF DoElection
  <2>2. IsNode(node')
    BY <2>1, SameLog DEF NodeInv
  <2> QED  BY <2>1, <2>2, DumpNode
<1>3. CASE OnRequestVoteRequest
  <2>1. PICK t \in HigherTerms : node' = [node EXCEPT !.term = t] /\ Dump(node')
    BY <1>3 DEF OnRequestVoteRequest
  <2>2. IsNode(node')
    BY <2>1, SameLog DEF NodeInv
  <2> QED  BY <2>1, <2>2, DumpNode
<1>4. CASE OnRequestVoteResponse
  <2>1. PICK t \in HigherTerms : node' = [node EXCEPT !.term = t] /\ Dump(node)
    BY <1>4 DEF OnRequestVoteResponse
  <2>2. IsNode(node') /\ IsNode(node)
    BY <2>1, SameLog DEF NodeInv
  <2> QED  BY <2>1, <2>2, DumpNode
<1>5. CASE LearnTerm
  <2>1. PICK t \in HigherTerms : node' = [node EXCEPT !.term = t]
    BY <1>5 DEF LearnTerm
  <2>2. IsNode(node')
    BY <2>1, SameLog DEF NodeInv
  <2> QED  BY <1>0, <1>5, <2>2 DEF LearnTerm, NodeInv
<1>6. CASE DoLog
  <2>1. PICK c \in Commands :
          node' = [node EXCEPT !.logs = Append(@, NewEntry(c, node.term, LastLogIndex(@) + 1))]
    BY <1>6 DEF DoLog
  <2> DEFINE u == NewEntry(c, node.term, LastLogIndex(node.logs) + 1)
             logs == Append(node.logs, u)
  <2>2. IsLog(logs)
    <3>1. IsLog(node.logs) /\ FlatProper("LogEntry", u)
      BY EntryProper DEF NodeInv, IsNode
    <3> HIDE DEF u
    <3> QED  BY <3>1, LongerLog
  <2>3. node' = [node EXCEPT !.logs = logs]
    BY <2>1
  <2> HIDE DEF logs
  <2>4. IsNode(node')
    BY <2>2, <2>3, OtherLog DEF NodeInv
  <2>5. Dump(node')
    BY <1>6 DEF DoLog
  <2> QED  BY <2>4, <2>5, DumpNode
<1>7. CASE OnAppendEntriesRequest
  <2>1. Dump(node')
    BY <1>7 DEF OnAppendEntriesRequest
  <2>2. CASE node' = node
    BY <2>1, <2>2, DumpNode DEF NodeInv
  <2>3. CASE node' # node
    <3>1. PICK kept \in Prefixes(node.logs), c \in Commands, t \in 1 .. MaxTerm :
            node' = [node EXCEPT !.logs = Append(kept, NewEntry(c, t, LastLogIndex(kept) + 1))]
      BY <1>7, <2>3 DEF OnAppendEntriesRequest
    <3> DEFINE u == NewEntry(c, t, LastLogIndex(kept) + 1)
               logs == Append(kept, u)
    <3>2. IsLog(logs)
      <4>1. IsLog(kept)
        BY ShorterLog DEF NodeInv, IsNode
      <4>2. FlatProper("LogEntry", u)
        BY EntryProper
      <4> HIDE DEF u
      <4> QED  BY <4>1, <4>2, LongerLog
    <3>3. node' = [node EXCEPT !.logs = logs]
      BY <3>1
    <3> HIDE DEF logs
    <3>4. IsNode(node')
      BY <3>2, <3>3, OtherLog DEF NodeInv
    <3> QED  BY <2>1, <3>4, DumpNode
  <2> QED  BY <2>2, <2>3
<1>8. CASE Write
  BY <1>0, <1>8 DEF Write, NodeInv
<1>9. CASE Close
  BY <1>0, <1>9 DEF Close, NodeInv
<1>10. CASE Crash
  <2>1. IsNode(Fresh)
    BY EmptyLog DEF IsNode, Fresh
  <2> QED  BY <1>0, <1>10, <2>1 DEF Crash, NodeInv
<1>11. CASE UNCHANGED vars
  BY <1>0, <1>11 DEF vars, NodeInv
<1> QED
  BY <1>1, <1>2, <1>3, <1>4, <1>5, <1>6, <1>7, <1>8, <1>9, <1>10, <1>11 DEF Next

\* The first node is proper, and there is no file.
LEMMA NodeInit == Init => NodeInv
<1>1. Init => FileInv
  BY DEF Init, FileInv, Dumping, NoFile, FileIsCut
<1>2. IsNode(Fresh)
  BY EmptyLog DEF IsNode, Fresh
<1> QED  BY <1>1, <1>2 DEF Init, NodeInv

\* A file that Load would accept is the record of the last Dump to its end.
LEMMA AcceptedIsWhole == NodeInv => TornIsRefused
<1> SUFFICES ASSUME NodeInv, exists, Loaded.ok PROVE NodeOf(Loaded.msg) = dumped
  BY DEF TornIsRefused
<1>1. IsNode(dumped) /\ CutOf(Written(dumped), file, Values("PersistRecord", Written(dumped)))
  BY FileCut DEF NodeInv, FileInv
<1>2. file = Written(dumped)
  BY <1>1, CutRefused DEF Loaded
<1> QED  BY <1>1, <1>2, WholeLoaded DEF Loaded

\* Only Run starts a node, and what it loads is a beginning of the last Dump.
LEMMA StartLoads ==
  ASSUME NodeInv, [Next]_vars, at = "down", at' = "up", exists
  PROVE  IF whole THEN node' = dumped ELSE IsBeginning(node', dumped)
<1>1. Run
  <2>1. \A n : ~ Dump(n)
    BY DEF Dump
  <2> QED  BY <2>1 DEF Next, vars, DoElection, OnRequestVoteRequest, OnRequestVoteResponse,
                       LearnTerm, DoLog, OnAppendEntriesRequest, Write, Close, Crash
<1>2. node' = NodeOf(Loaded.msg)
  BY <1>1 DEF Run
<1>3. CASE whole
  <2>1. file = Written(dumped)
    BY <1>3 DEF NodeInv, FileInv, FileIsCut, Written
  <2> QED  BY <1>2, <1>3, <2>1, WholeLoaded DEF Loaded, NodeInv
<1>4. CASE ~ whole
  <2>1. CutOf(Written(dumped), file, Values("PersistRecord", Written(dumped)))
    BY FileCut DEF NodeInv, FileInv
  <2>2. IsBeginning(NodeOf(Loaded.msg), dumped)
    BY <2>1, CutLoaded DEF Loaded, NodeInv
  <2> QED  BY <1>2, <1>4, <2>2
<1> QED  BY <1>3, <1>4

\* A crash may leave any beginning of the record in the file: ParseFromIstream
\* returns true only for the record of the last Dump, whole.
THEOREM TornFileIsRefused == Spec => []TornIsRefused
<1> QED  BY NodeInit, NodeStep, AcceptedIsWhole, PTL DEF Spec

\* Load does not look at that result: still, a node started from a whole file
\* is the one of the last Dump, and from any other file a beginning of it: its
\* term and vote or none, and the first of its entries, of which the last may
\* be torn.
THEOREM LoadIsBeginning == Spec => LoadedIsBeginning
<1>1. NodeInv /\ [Next]_vars =>
        [at = "down" /\ at' = "up" /\ exists =>
           IF whole THEN node' = dumped ELSE IsBeginning(node', dumped)]_vars
  BY StartLoads
<1> QED  BY <1>1, NodeInit, NodeStep, PTL DEF Spec, LoadedIsBeginning

-----------------------------------------------------------------------------
(* What is left of an earlier use of a message object.                     *)

\* Clear() resets a member if this holds of one of its groups, whichever bits are
\* set: it always does, or does if the member's own bit is set.
Resets(T, f, group) ==
    /\ f \in group[2]
    /\ group[1] = 0 \/ (f # "entries" /\ Bit(T, f) \in Mask(group[1]))
ClearsAll(T) ==
    \A f \in Members(T) : \E i \in DOMAIN Schema[T].clear : Resets(T, f, Schema[T].clear[i])

\* InternalSwap exchanges every member, in the block of memory or by its address.
Place(T, f) == CHOOSE i \in DOMAIN Schema[T].impl : Schema[T].impl[i] = f
Exchanges(T, f) ==
    \/ Place(T, f) \in Place(T, Schema[T].swapped[1]) .. Place(T, Schema[T].swapped[2])
    \/ Delimited(T, f) /\ f # "conf_record"
SwapsAll(T) == \A f \in Members(T) : Exchanges(T, f)

\* The masks of Clear(), bit by bit.
LEMMA ClearMasks ==
  /\ Mask(1) = {1}
  /\ Mask(2) = {2}
  /\ Mask(4) = {4}
  /\ Mask(6) = {2, 4}
  /\ Mask(14) = {2, 4, 8}
  /\ Mask(24) = {8, 16}
  /\ Mask(30) = {2, 4, 8, 16}
  /\ Mask(126) = {2, 4, 8, 16, 32, 64}
  /\ Mask(252) = {4, 8, 16, 32, 64, 128}
  /\ Mask(254) = {2, 4, 8, 16, 32, 64, 128}
BY DEF Mask

\* Each type clears all of its members.
LEMMA LogEntryClears == ClearsAll("LogEntry")
<1>1. Members("LogEntry") = {LogEntryImpl[i] : i \in DOMAIN LogEntryImpl}
  BY IsLogEntry DEF Members, ToSet
<1>2. Members("LogEntry") = {"data", "index", "term", "command"}
  BY <1>1 DEF LogEntryImpl
<1>3. 1 \in DOMAIN LogEntryClear
  BY DEF LogEntryClear
<1>4. Resets("LogEntry", "data", LogEntryClear[1])
  BY IsLogEntry, ClearMasks DEF Resets, Bit, LogEntryClear, LogEntryBits
<1>5. 2 \in DOMAIN LogEntryClear
  BY DEF LogEntryClear
<1>6. Resets("LogEntry", "index", LogEntryClear[2])
  BY IsLogEntry, ClearMasks DEF Resets, Bit, LogEntryClear, LogEntryBits
<1>7. Resets("LogEntry", "term", LogEntryClear[2])
  BY IsLogEntry, ClearMasks DEF Resets, Bit, LogEntryClear, LogEntryBits
<1>8. Resets("LogEntry", "command", LogEntryClear[2])
  BY IsLogEntry, ClearMasks DEF Resets, Bit, LogEntryClear, LogEntryBits
<1> QED  BY IsLogEntry, <1>2, <1>3, <1>4, <1>5, <1>6, <1>7, <1>8 DEF ClearsAll

LEMMA AppendEntriesRequestClears == ClearsAll("AppendEntriesRequest")
<1>1. Members("AppendEntriesRequest")
        = {AppendEntriesRequestImpl[i] : i \in DOMAIN AppendEntriesRequestImpl}
  BY IsAppendEntriesRequest DEF Members, ToSet
<1>2. Members("AppendEntriesRequest") = {"entries", "name", "term", "prev_log_index",
                                         "prev_log_term", "leader_commit", "time", "seq",
                                         "initial"}
  BY <1>1 DEF AppendEntriesRequestImpl
<1>3. 1 \in DOMAIN AppendEntriesRequestClear
  BY DEF AppendEntriesRequestClear
<1>4. Resets("AppendEntriesRequest", "entries", AppendEntriesRequestClear[1])
  BY DEF Resets, AppendEntriesRequestClear
<1>5. 2 \in DOMAIN AppendEntriesRequestClear
  BY DEF AppendEntriesRequestClear
<1>6. Resets("AppendEntriesRequest", "name", AppendEntriesRequestClear[2])
  BY IsAppendEntriesRequest, ClearMasks DEF Resets, Bit, AppendEntriesRequestClear,
     AppendEntriesRequestBits
<1>7. 3 \in DOMAIN AppendEntriesRequestClear
  BY DEF AppendEntriesRequestClear
<1>8. Resets("AppendEntriesRequest", "term", AppendEntriesRequestClear[3])
  BY IsAppendEntriesRequest, ClearMasks DEF Resets, Bit, AppendEntriesRequestClear,
     AppendEntriesRequestBits
<1>9. Resets("AppendEntriesRequest", "prev_log_index", AppendEntriesRequestClear[3])
  BY IsAppendEntriesRequest, ClearMasks DEF Resets, Bit, AppendEntriesRequestClear,
     AppendEntriesRequestBits
<1>10. Resets("AppendEntriesRequest", "prev_log_term", AppendEntriesRequestClear[3])
  BY IsAppendEntriesRequest, ClearMasks DEF Resets, Bit, AppendEntriesRequestClear,
     AppendEntriesRequestBits
<1>11. Resets("AppendEntriesRequest", "leader_commit", AppendEntriesRequestClear[3])
  BY IsAppendEntriesRequest, ClearMasks DEF Resets, Bit, AppendEntriesRequestClear,
     AppendEntriesRequestBits
<1>12. Resets("AppendEntriesRequest", "time", AppendEntriesRequestClear[3])
  BY IsAppendEntriesRequest, ClearMasks DEF Resets, Bit, AppendEntriesRequestClear,
     AppendEntriesRequestBits
<1>13. Resets("AppendEntriesRequest", "seq", AppendEntriesRequestClear[3])
  BY IsAppendEntriesRequest, ClearMasks DEF Resets, Bit, AppendEntriesRequestClear,
     AppendEntriesRequestBits
<1>14. Resets("AppendEntriesRequest", "initial", AppendEntriesRequestClear[3])
  BY IsAppendEntriesRequest, ClearMasks DEF Resets, Bit, AppendEntriesRequestClear,
     AppendEntriesRequestBits
<1> QED  BY IsAppendEntriesRequest, <1>2, <1>3, <1>4, <1>5, <1>6, <1>7, <1>8, <1>9, <1>10, <1>11,
            <1>12, <1>13, <1>14 DEF ClearsAll

LEMMA AppendEntriesResponseClears == ClearsAll("AppendEntriesResponse")
<1>1. Members("AppendEntriesResponse")
        = {AppendEntriesResponseImpl[i] : i \in DOMAIN AppendEntriesResponseImpl}
  BY IsAppendEntriesResponse DEF Members, ToSet
<1>2. Members("AppendEntriesResponse") = {"name", "term", "last_log_index", "last_log_term",
                                          "time", "seq", "success"}
  BY <1>1 DEF AppendEntriesResponseImpl
<1>3. 1 \in DOMAIN AppendEntriesResponseClear
  BY DEF AppendEntriesResponseClear
<1>4. Resets("AppendEntriesResponse", "name", AppendEntriesResponseClear[1])
  BY IsAppendEntriesResponse, ClearMasks DEF Resets, Bit, AppendEntriesResponseClear,
     AppendEntriesResponseBits
<1>5. 2 \in DOMAIN AppendEntriesResponseClear
  BY DEF AppendEntriesResponseClear
<1>6. Resets("AppendEntriesResponse", "term", AppendEntriesResponseClear[2])
  BY IsAppendEntriesResponse, ClearMasks DEF Resets, Bit, AppendEntriesResponseClear,
     AppendEntriesResponseBits
<1>7. Resets("AppendEntriesResponse", "last_log_index", AppendEntriesResponseClear[2])
  BY IsAppendEntriesResponse, ClearMasks DEF Resets, Bit, AppendEntriesResponseClear,
     AppendEntriesResponseBits
<1>8. Resets("AppendEntriesResponse", "last_log_term", AppendEntriesResponseClear[2])
  BY IsAppendEntriesResponse, ClearMasks DEF Resets, Bit, AppendEntriesResponseClear,
     AppendEntriesResponseBits
<1>9. Resets("AppendEntriesResponse", "time", AppendEntriesResponseClear[2])
  BY IsAppendEntriesResponse, ClearMasks DEF Resets, Bit, AppendEntriesResponseClear,
     AppendEntriesResponseBits
<1>10. Resets("AppendEntriesResponse", "seq", AppendEntriesResponseClear[2])
  BY IsAppendEntriesResponse, ClearMasks DEF Resets, Bit, AppendEntriesResponseClear,
     AppendEntriesResponseBits
<1>11. Resets("AppendEntriesResponse", "success", AppendEntriesResponseClear[2])
  BY IsAppendEntriesResponse, ClearMasks DEF Resets, Bit, AppendEntriesResponseClear,
     AppendEntriesResponseBits
<1> QED  BY IsAppendEntriesResponse, <1>2, <1>3, <1>4, <1>5, <1>6, <1>7, <1>8, <1>9, <1>10, <1>11
            DEF ClearsAll

LEMMA RequestVoteRequestClears == ClearsAll("RequestVoteRequest")
<1>1. Members("RequestVoteRequest")
        = {RequestVoteRequestImpl[i] : i \in DOMAIN RequestVoteRequestImpl}
  BY IsRequestVoteRequest DEF Members, ToSet
<1>2. Members("RequestVoteRequest") = {"name", "term", "last_log_index", "last_log_term", "time",
                                       "seq", "initial"}
  BY <1>1 DEF RequestVoteRequestImpl
<1>3. 1 \in DOMAIN RequestVoteRequestClear
  BY DEF RequestVoteRequestClear
<1>4. Resets("RequestVoteRequest", "name", RequestVoteRequestClear[1])
  BY IsRequestVoteRequest, ClearMasks DEF Resets, Bit, RequestVoteRequestClear,
     RequestVoteRequestBits
<1>5. 2 \in DOMAIN RequestVoteRequestClear
  BY DEF RequestVoteRequestClear
<1>6. Resets("RequestVoteRequest", "term", RequestVoteRequestClear[2])
  BY IsRequestVoteRequest, ClearMasks DEF Resets, Bit, RequestVoteRequestClear,
     RequestVoteRequestBits
<1>7. Resets("RequestVoteRequest", "last_log_index", RequestVoteRequestClear[2])
  BY IsRequestVoteRequest, ClearMasks DEF Resets, Bit, RequestVoteRequestClear,
     RequestVoteRequestBits
<1>8. Resets("RequestVoteRequest", "last_log_term", RequestVoteRequestClear[2])
  BY IsRequestVoteRequest, ClearMasks DEF Resets, Bit, RequestVoteRequestClear,
     RequestVoteRequestBits
<1>9. Resets("RequestVoteRequest", "time", RequestVoteRequestClear[2])
  BY IsRequestVoteRequest, ClearMasks DEF Resets, Bit, RequestVoteRequestClear,
     RequestVoteRequestBits
<1>10. Resets("RequestVoteRequest", "seq", RequestVoteRequestClear[2])
  BY IsRequestVoteRequest, ClearMasks DEF Resets, Bit, RequestVoteRequestClear,
     RequestVoteRequestBits
<1>11. Resets("RequestVoteRequest", "initial", RequestVoteRequestClear[2])
  BY IsRequestVoteRequest, ClearMasks DEF Resets, Bit, RequestVoteRequestClear,
     RequestVoteRequestBits
<1> QED  BY IsRequestVoteRequest, <1>2, <1>3, <1>4, <1>5, <1>6, <1>7, <1>8, <1>9, <1>10, <1>11 DEF
            ClearsAll

LEMMA RequestVoteResponseClears == ClearsAll("RequestVoteResponse")
<1>1. Members("RequestVoteResponse")
        = {RequestVoteResponseImpl[i] : i \in DOMAIN RequestVoteResponseImpl}
  BY IsRequestVoteResponse DEF Members, ToSet
<1>2. Members("RequestVoteResponse") = {"name", "term", "time", "seq", "vote_granted"}
  BY <1>1 DEF RequestVoteResponseImpl
<1>3. 1 \in DOMAIN RequestVoteResponseClear
  BY DEF RequestVoteResponseClear
<1>4. Resets("RequestVoteResponse", "name", RequestVoteResponseClear[1])
  BY IsRequestVoteResponse, ClearMasks DEF Resets, Bit, RequestVoteResponseClear,
     RequestVoteResponseBits
<1>5. 2 \in DOMAIN RequestVoteResponseClear
  BY DEF RequestVoteResponseClear
<1>6. Resets("RequestVoteResponse", "term", RequestVoteResponseClear[2])
  BY IsRequestVoteResponse, ClearMasks DEF Resets, Bit, RequestVoteResponseClear,
     RequestVoteResponseBits
<1>7. Resets("RequestVoteResponse", "time", RequestVoteResponseClear[2])
  BY IsRequestVoteResponse, ClearMasks DEF Resets, Bit, RequestVoteResponseClear,
     RequestVoteResponseBits
<1>8. Resets("RequestVoteResponse", "seq", RequestVoteResponseClear[2])
  BY IsRequestVoteResponse, ClearMasks DEF Resets, Bit, RequestVoteResponseClear,
     RequestVoteResponseBits
<1>9. Resets("RequestVoteResponse", "vote_granted", RequestVoteResponseClear[2])
  BY IsRequestVoteResponse, ClearMasks DEF Resets, Bit, RequestVoteResponseClear,
     RequestVoteResponseBits
<1> QED  BY IsRequestVoteResponse, <1>2, <1>3, <1>4, <1>5, <1>6, <1>7, <1>8, <1>9 DEF ClearsAll

LEMMA InstallSnapshotRequestClears == ClearsAll("InstallSnapshotRequest")
<1>1. Members("InstallSnapshotRequest")
        = {InstallSnapshotRequestImpl[i] : i \in DOMAIN InstallSnapshotRequestImpl}
  BY IsInstallSnapshotRequest DEF Members, ToSet
<1>2. Members("InstallSnapshotRequest") = {"name", "data", "term", "last_included_index",
                                           "last_included_term", "time", "seq", "initial"}
  BY <1>1 DEF InstallSnapshotRequestImpl
<1>3. 1 \in DOMAIN InstallSnapshotRequestClear
  BY DEF InstallSnapshotRequestClear
<1>4. Resets("InstallSnapshotRequest", "name", InstallSnapshotRequestClear[1])
  BY IsInstallSnapshotRequest, ClearMasks DEF Resets, Bit, InstallSnapshotRequestClear,
     InstallSnapshotRequestBits
<1>5. 2 \in DOMAIN InstallSnapshotRequestClear
  BY DEF InstallSnapshotRequestClear
<1>6. Resets("InstallSnapshotRequest", "data", InstallSnapshotRequestClear[2])
  BY IsInstallSnapshotRequest, ClearMasks DEF Resets, Bit, InstallSnapshotRequestClear,
     InstallSnapshotRequestBits
<1>7. 3 \in DOMAIN InstallSnapshotRequestClear
  BY DEF InstallSnapshotRequestClear
<1>8. Resets("InstallSnapshotRequest", "term", InstallSnapshotRequestClear[3])
  BY IsInstallSnapshotRequest, ClearMasks DEF Resets, Bit, InstallSnapshotRequestClear,
     InstallSnapshotRequestBits
<1>9. Resets("InstallSnapshotRequest", "last_included_index", InstallSnapshotRequestClear[3])
  BY IsInstallSnapshotRequest, ClearMasks DEF Resets, Bit, InstallSnapshotRequestClear,
     InstallSnapshotRequestBits
<1>10. Resets("InstallSnapshotRequest", "last_included_term", InstallSnapshotRequestClear[3])
  BY IsInstallSnapshotRequest, ClearMasks DEF Resets, Bit, InstallSnapshotRequestClear,
     InstallSnapshotRequestBits
<1>11. Resets("InstallSnapshotRequest", "time", InstallSnapshotRequestClear[3])
  BY IsInstallSnapshotRequest, ClearMasks DEF Resets, Bit, InstallSnapshotRequestClear,
     InstallSnapshotRequestBits
<1>12. Resets("InstallSnapshotRequest", "seq", InstallSnapshotRequestClear[3])
  BY IsInstallSnapshotRequest, ClearMasks DEF Resets, Bit, InstallSnapshotRequestClear,
     InstallSnapshotRequestBits
<1>13. Resets("InstallSnapshotRequest", "initial", InstallSnapshotRequestClear[3])
  BY IsInstallSnapshotRequest, ClearMasks DEF Resets, Bit, InstallSnapshotRequestClear,
     InstallSnapshotRequestBits
<1> QED  BY IsInstallSnapshotRequest, <1>2, <1>3, <1>4, <1>5, <1>6, <1>7, <1>8, <1>9, <1>10, <1>11,
            <1>12, <1>13 DEF ClearsAll

LEMMA InstallSnapshotResponseClears == ClearsAll("InstallSnapshotResponse")
<1>1. Members("InstallSnapshotResponse")
        = {InstallSnapshotResponseImpl[i] : i \in DOMAIN InstallSnapshotResponseImpl}
  BY IsInstallSnapshotResponse DEF Members, ToSet
<1>2. Members("InstallSnapshotResponse") = {"name", "term", "last_included_index",
                                            "last_included_term", "time", "seq", "success"}
  BY <1>1 DEF InstallSnapshotResponseImpl
<1>3. 1 \in DOMAIN InstallSnapshotResponseClear
  BY DEF InstallSnapshotResponseClear
<1>4. Resets("InstallSnapshotResponse", "name", InstallSnapshotResponseClear[1])
  BY IsInstallSnapshotResponse, ClearMasks DEF Resets, Bit, InstallSnapshotResponseClear,
     InstallSnapshotResponseBits
<1>5. 2 \in DOMAIN InstallSnapshotResponseClear
  BY DEF InstallSnapshotResponseClear
<1>6. Resets("InstallSnapshotResponse", "term", InstallSnapshotResponseClear[2])
  BY IsInstallSnapshotResponse, ClearMasks DEF Resets, Bit, InstallSnapshotResponseClear,
     InstallSnapshotResponseBits
<1>7. Resets("InstallSnapshotResponse", "last_included_index", InstallSnapshotResponseClear[2])
  BY IsInstallSnapshotResponse, ClearMasks DEF Resets, Bit, InstallSnapshotResponseClear,
     InstallSnapshotResponseBits
<1>8. Resets("InstallSnapshotResponse", "last_included_term", InstallSnapshotResponseClear[2])
  BY IsInstallSnapshotResponse, ClearMasks DEF Resets, Bit, InstallSnapshotResponseClear,
     InstallSnapshotResponseBits
<1>9. Resets("InstallSnapshotResponse", "time", InstallSnapshotResponseClear[2])
  BY IsInstallSnapshotResponse, ClearMasks DEF Resets, Bit, InstallSnapshotResponseClear,
     InstallSnapshotResponseBits
<1>10. Resets("InstallSnapshotResponse", "seq", InstallSnapshotResponseClear[2])
  BY IsInstallSnapshotResponse, ClearMasks DEF Resets, Bit, InstallSnapshotResponseClear,
     InstallSnapshotResponseBits
<1>11. Resets("InstallSnapshotResponse", "success", InstallSnapshotResponseClear[2])
  BY IsInstallSnapshotResponse, ClearMasks DEF Resets, Bit, InstallSnapshotResponseClear,
     InstallSnapshotResponseBits
<1> QED  BY IsInstallSnapshotResponse, <1>2, <1>3, <1>4, <1>5, <1>6, <1>7, <1>8, <1>9, <1>10, <1>11
            DEF ClearsAll

LEMMA ConfRecordClears == ClearsAll("ConfRecord")
<1>1. Members("ConfRecord") = {ConfRecordImpl[i] : i \in DOMAIN ConfRecordImpl}
  BY IsConfRecord DEF Members, ToSet
<1>2. Members("ConfRecord") = {"peers", "index", "index2", "state"}
  BY <1>1 DEF ConfRecordImpl
<1>3. 1 \in DOMAIN ConfRecordClear
  BY DEF ConfRecordClear
<1>4. Resets("ConfRecord", "peers", ConfRecordClear[1])
  BY IsConfRecord, ClearMasks DEF Resets, Bit, ConfRecordClear, ConfRecordBits
<1>5. 2 \in DOMAIN ConfRecordClear
  BY DEF ConfRecordClear
<1>6. Resets("ConfRecord", "index", ConfRecordClear[2])
  BY IsConfRecord, ClearMasks DEF Resets, Bit, ConfRecordClear, ConfRecordBits
<1>7. Resets("ConfRecord", "index2", ConfRecordClear[2])
  BY IsConfRecord, ClearMasks DEF Resets, Bit, ConfRecordClear, ConfRecordBits
<1>8. Resets("ConfRecord", "state", ConfRecordClear[2])
  BY IsConfRecord, ClearMasks DEF Resets, Bit, ConfRecordClear, ConfRecordBits
<1> QED  BY IsConfRecord, <1>2, <1>3, <1>4, <1>5, <1>6, <1>7, <1>8 DEF ClearsAll

LEMMA PersistRecordClears == ClearsAll("PersistRecord")
<1>1. Members("PersistRecord") = {PersistRecordImpl[i] : i \in DOMAIN PersistRecordImpl}
  BY IsPersistRecord DEF Members, ToSet
<1>2. Members("PersistRecord") = {"entries", "name", "vote_for", "conf_record", "term", "last_seq"}
  BY <1>1 DEF PersistRecordImpl
<1>3. 1 \in DOMAIN PersistRecordClear
  BY DEF PersistRecordClear
<1>4. Resets("PersistRecord", "entries", PersistRecordClear[1])
  BY DEF Resets, PersistRecordClear
<1>5. 2 \in DOMAIN PersistRecordClear
  BY DEF PersistRecordClear
<1>6. Resets("PersistRecord", "name", PersistRecordClear[2])
  BY IsPersistRecord, ClearMasks DEF Resets, Bit, PersistRecordClear, PersistRecordBits
<1>7. 3 \in DOMAIN PersistRecordClear
  BY DEF PersistRecordClear
<1>8. Resets("PersistRecord", "vote_for", PersistRecordClear[3])
  BY IsPersistRecord, ClearMasks DEF Resets, Bit, PersistRecordClear, PersistRecordBits
<1>9. 4 \in DOMAIN PersistRecordClear
  BY DEF PersistRecordClear
<1>10. Resets("PersistRecord", "conf_record", PersistRecordClear[4])
  BY IsPersistRecord, ClearMasks DEF Resets, Bit, PersistRecordClear, PersistRecordBits
<1>11. 5 \in DOMAIN PersistRecordClear
  BY DEF PersistRecordClear
<1>12. Resets("PersistRecord", "term", PersistRecordClear[5])
  BY IsPersistRecord, ClearMasks DEF Resets, Bit, PersistRecordClear, PersistRecordBits
<1>13. Resets("PersistRecord", "last_seq", PersistRecordClear[5])
  BY IsPersistRecord, ClearMasks DEF Resets, Bit, PersistRecordClear, PersistRecordBits
<1> QED  BY IsPersistRecord, <1>2, <1>3, <1>4, <1>5, <1>6, <1>7, <1>8, <1>9, <1>10, <1>11, <1>12,
            <1>13 DEF ClearsAll

LEMMA PutAppendRequestClears == ClearsAll("PutAppendRequest")
<1>1. Members("PutAppendRequest") = {PutAppendRequestImpl[i] : i \in DOMAIN PutAppendRequestImpl}
  BY IsPutAppendRequest DEF Members, ToSet
<1>2. Members("PutAppendRequest") = {"key", "value", "op", "clerkid", "cmdindex"}
  BY <1>1 DEF PutAppendRequestImpl
<1>3. 1 \in DOMAIN PutAppendRequestClear
  BY DEF PutAppendRequestClear
<1>4. Resets("PutAppendRequest", "key", PutAppendRequestClear[1])
  BY IsPutAppendRequest, ClearMasks DEF Resets, Bit, PutAppendRequestClear, PutAppendRequestBits
<1>5. 2 \in DOMAIN PutAppendRequestClear
  BY DEF PutAppendRequestClear
<1>6. Resets("PutAppendRequest", "value", PutAppendRequestClear[2])
  BY IsPutAppendRequest, ClearMasks DEF Resets, Bit, PutAppendRequestClear, PutAppendRequestBits
<1>7. 3 \in DOMAIN PutAppendRequestClear
  BY DEF PutAppendRequestClear
<1>8. Resets("PutAppendRequest", "op", PutAppendRequestClear[3])
  BY IsPutAppendRequest, ClearMasks DEF Resets, Bit, PutAppendRequestClear, PutAppendRequestBits
<1>9. 4 \in DOMAIN PutAppendRequestClear
  BY DEF PutAppendRequestClear
<1>10. Resets("PutAppendRequest", "clerkid", PutAppendRequestClear[4])
  BY IsPutAppendRequest, ClearMasks DEF Resets, Bit, PutAppendRequestClear, PutAppendRequestBits
<1>11. Resets("PutAppendRequest", "cmdindex", PutAppendRequestClear[4])
  BY IsPutAppendRequest, ClearMasks DEF Resets, Bit, PutAppendRequestClear, PutAppendRequestBits
<1> QED  BY IsPutAppendRequest, <1>2, <1>3, <1>4, <1>5, <1>6, <1>7, <1>8, <1>9, <1>10, <1>11 DEF
            ClearsAll

LEMMA PutAppendResponseClears == ClearsAll("PutAppendResponse")
<1>1. Members("PutAppendResponse") = {PutAppendResponseImpl[i] : i \in DOMAIN PutAppendResponseImpl}
  BY IsPutAppendResponse DEF Members, ToSet
<1>2. Members("PutAppendResponse") = {"err", "wrongleader"}
  BY <1>1 DEF PutAppendResponseImpl
<1>3. 1 \in DOMAIN PutAppendResponseClear
  BY DEF PutAppendResponseClear
<1>4. Resets("PutAppendResponse", "err", PutAppendResponseClear[1])
  BY IsPutAppendResponse, ClearMasks DEF Resets, Bit, PutAppendResponseClear, PutAppendResponseBits
<1>5. 2 \in DOMAIN PutAppendResponseClear
  BY DEF PutAppendResponseClear
<1>6. Resets("PutAppendResponse", "wrongleader", PutAppendResponseClear[2])
  BY DEF Resets, PutAppendResponseClear
<1> QED  BY IsPutAppendResponse, <1>2, <1>3, <1>4, <1>5, <1>6 DEF ClearsAll

LEMMA GetRequestClears == ClearsAll("GetRequest")
<1>1. Members("GetRequest") = {GetRequestImpl[i] : i \in DOMAIN GetRequestImpl}
  BY IsGetRequest DEF Members, ToSet
<1>2. Members("GetRequest") = {"key", "clerkid", "cmdindex"}
  BY <1>1 DEF GetRequestImpl
<1>3. 1 \in DOMAIN GetRequestClear
  BY DEF GetRequestClear
<1>4. Resets("GetRequest", "key", GetRequestClear[1])
  BY IsGetRequest, ClearMasks DEF Resets, Bit, GetRequestClear, GetRequestBits
<1>5. 2 \in DOMAIN GetRequestClear
  BY DEF GetRequestClear
<1>6. Resets("GetRequest", "clerkid", GetRequestClear[2])
  BY IsGetRequest, ClearMasks DEF Resets, Bit, GetRequestClear, GetRequestBits
<1>7. Resets("GetRequest", "cmdindex", GetRequestClear[2])
  BY IsGetRequest, ClearMasks DEF Resets, Bit, GetRequestClear, GetRequestBits
<1> QED  BY IsGetRequest, <1>2, <1>3, <1>4, <1>5, <1>6, <1>7 DEF ClearsAll

LEMMA GetResponseClears == ClearsAll("GetResponse")
<1>1. Members("GetResponse") = {GetResponseImpl[i] : i \in DOMAIN GetResponseImpl}
  BY IsGetResponse DEF Members, ToSet
<1>2. Members("GetResponse") = {"err", "value", "wrongleader"}
  BY <1>1 DEF GetResponseImpl
<1>3. 1 \in DOMAIN GetResponseClear
  BY DEF GetResponseClear
<1>4. Resets("GetResponse", "err", GetResponseClear[1])
  BY IsGetResponse, ClearMasks DEF Resets, Bit, GetResponseClear, GetResponseBits
<1>5. 2 \in DOMAIN GetResponseClear
  BY DEF GetResponseClear
<1>6. Resets("GetResponse", "value", GetResponseClear[2])
  BY IsGetResponse, ClearMasks DEF Resets, Bit, GetResponseClear, GetResponseBits
<1>7. 3 \in DOMAIN GetResponseClear
  BY DEF GetResponseClear
<1>8. Resets("GetResponse", "wrongleader", GetResponseClear[3])
  BY DEF Resets, GetResponseClear
<1> QED  BY IsGetResponse, <1>2, <1>3, <1>4, <1>5, <1>6, <1>7, <1>8 DEF ClearsAll

\* So do all of them.
LEMMA AllClear == \A T \in Types : ClearsAll(T)
BY TypesAre, LogEntryClears, AppendEntriesRequestClears, AppendEntriesResponseClears,
   RequestVoteRequestClears, RequestVoteResponseClears, InstallSnapshotRequestClears,
   InstallSnapshotResponseClears, ConfRecordClears, PersistRecordClears, PutAppendRequestClears,
   PutAppendResponseClears, GetRequestClears, GetResponseClears

\* The place of a member among different ones.
LEMMA PlaceIs ==
  ASSUME NEW T, \A i, j \in DOMAIN Schema[T].impl : Schema[T].impl[i] = Schema[T].impl[j] => i = j,
         NEW k \in DOMAIN Schema[T].impl
  PROVE  Place(T, Schema[T].impl[k]) = k
BY DEF Place

\* Each type swaps all of its members.
LEMMA LogEntrySwaps == SwapsAll("LogEntry")
<1>1. Members("LogEntry") = {LogEntryImpl[i] : i \in DOMAIN LogEntryImpl}
        /\ DOMAIN LogEntryImpl = 1 .. 4
  BY IsLogEntry DEF Members, ToSet, LogEntryImpl
<1>2. \A i, j \in DOMAIN LogEntryImpl : LogEntryImpl[i] = LogEntryImpl[j] => i = j
  BY DEF LogEntryImpl
<1>3. \A i \in 1 .. 4 : Place("LogEntry", LogEntryImpl[i]) = i
  BY <1>1, <1>2, IsLogEntry, PlaceIs
<1>4. LogEntrySwapped[1] = LogEntryImpl[2] /\ LogEntrySwapped[2] = LogEntryImpl[4]
  BY DEF LogEntrySwapped, LogEntryImpl
<1>5. \A i \in 2 .. 4 : Exchanges("LogEntry", LogEntryImpl[i])
  <2>1. 2 \in 1 .. 4 /\ 4 \in 1 .. 4 /\ 2 .. 4 \subseteq 1 .. 4
    OBVIOUS
  <2> QED  BY <1>3, <1>4, <2>1, IsLogEntry DEF Exchanges
<1>6. Exchanges("LogEntry", LogEntryImpl[1])
  <2>1. 4 \in DOMAIN LogEntryWire /\ LogEntryWire[4] = <<34, "data">> /\ 34 % 8 = 2
    BY DEF LogEntryWire
  <2>2. LogEntryImpl[1] = "data"
    BY DEF LogEntryImpl
  <2>3. Delimited("LogEntry", "data")
    BY <2>1, IsLogEntry DEF Delimited
  <2> QED  BY <2>2, <2>3 DEF Exchanges
<1> QED  BY <1>1, <1>5, <1>6 DEF SwapsAll

LEMMA AppendEntriesRequestSwaps == SwapsAll("AppendEntriesRequest")
<1>1. Members("AppendEntriesRequest")
        = {AppendEntriesRequestImpl[i] : i \in DOMAIN AppendEntriesRequestImpl}
          /\ DOMAIN AppendEntriesRequestImpl = 1 .. 9
  BY IsAppendEntriesRequest DEF Members, ToSet, AppendEntriesRequestImpl
<1>2. \A i, j \in DOMAIN AppendEntriesRequestImpl : AppendEntriesRequestImpl[i]
        = AppendEntriesRequestImpl[j] => i = j
  BY DEF AppendEntriesRequestImpl
<1>3. \A i \in 1 .. 9 : Place("AppendEntriesRequest", AppendEntriesRequestImpl[i]) = i
  BY <1>1, <1>2, IsAppendEntriesRequest, PlaceIs
<1>4. AppendEntriesRequestSwapped[1] = AppendEntriesRequestImpl[3]
        /\ AppendEntriesRequestSwapped[2] = AppendEntriesRequestImpl[9]
  BY DEF AppendEntriesRequestSwapped, AppendEntriesRequestImpl
<1>5. \A i \in 3 .. 9 : Exchanges("AppendEntriesRequest", AppendEntriesRequestImpl[i])
  <2>1. 3 \in 1 .. 9 /\ 9 \in 1 .. 9 /\ 3 .. 9 \subseteq 1 .. 9
    OBVIOUS
  <2> QED  BY <1>3, <1>4, <2>1, IsAppendEntriesRequest DEF Exchanges
<1>6. Exchanges("AppendEntriesRequest", AppendEntriesRequestImpl[1])
  <2>1. 6 \in DOMAIN AppendEntriesRequestWire /\ AppendEntriesRequestWire[6] = <<50, "entries">>
          /\ 50 % 8 = 2
    BY DEF AppendEntriesRequestWire
  <2>2. AppendEntriesRequestImpl[1] = "entries"
    BY DEF AppendEntriesRequestImpl
  <2>3. Delimited("AppendEntriesRequest", "entries")
    BY <2>1, IsAppendEntriesRequest DEF Delimited
  <2> QED  BY <2>2, <2>3 DEF Exchanges
<1>7. Exchanges("AppendEntriesRequest", AppendEntriesRequestImpl[2])
  <2>1. 1 \in DOMAIN AppendEntriesRequestWire /\ AppendEntriesRequestWire[1] = <<10, "name">>
          /\ 10 % 8 = 2
    BY DEF AppendEntriesRequestWire
  <2>2. AppendEntriesRequestImpl[2] = "name"
    BY DEF AppendEntriesRequestImpl
  <2>3. Delimited("AppendEntriesRequest", "name")
    BY <2>1, IsAppendEntriesRequest DEF Delimited
  <2> QED  BY <2>2, <2>3 DEF Exchanges
<1> QED  BY <1>1, <1>5, <1>6, <1>7 DEF SwapsAll

LEMMA AppendEntriesResponseSwaps == SwapsAll("AppendEntriesResponse")
<1>1. Members("AppendEntriesResponse")
        = {AppendEntriesResponseImpl[i] : i \in DOMAIN AppendEntriesResponseImpl}
          /\ DOMAIN AppendEntriesResponseImpl = 1 .. 7
  BY IsAppendEntriesResponse DEF Members, ToSet, AppendEntriesResponseImpl
<1>2. \A i, j \in DOMAIN AppendEntriesResponseImpl : AppendEntriesResponseImpl[i]
        = AppendEntriesResponseImpl[j] => i = j
  BY DEF AppendEntriesResponseImpl
<1>3. \A i \in 1 .. 7 : Place("AppendEntriesResponse", AppendEntriesResponseImpl[i]) = i
  BY <1>1, <1>2, IsAppendEntriesResponse, PlaceIs
<1>4. AppendEntriesResponseSwapped[1] = AppendEntriesResponseImpl[2]
        /\ AppendEntriesResponseSwapped[2] = AppendEntriesResponseImpl[7]
  BY DEF AppendEntriesResponseSwapped, AppendEntriesResponseImpl
<1>5. \A i \in 2 .. 7 : Exchanges("AppendEntriesResponse", AppendEntriesResponseImpl[i])
  <2>1. 2 \in 1 .. 7 /\ 7 \in 1 .. 7 /\ 2 .. 7 \subseteq 1 .. 7
    OBVIOUS
  <2> QED  BY <1>3, <1>4, <2>1, IsAppendEntriesResponse DEF Exchanges
<1>6. Exchanges("AppendEntriesResponse", AppendEntriesResponseImpl[1])
  <2>1. 1 \in DOMAIN AppendEntriesResponseWire /\ AppendEntriesResponseWire[1] = <<10, "name">>
          /\ 10 % 8 = 2
    BY DEF AppendEntriesResponseWire
  <2>2. AppendEntriesResponseImpl[1] = "name"
    BY DEF AppendEntriesResponseImpl
  <2>3. Delimited("AppendEntriesResponse", "name")
    BY <2>1, IsAppendEntriesResponse DEF Delimited
  <2> QED  BY <2>2, <2>3 DEF Exchanges
<1> QED  BY <1>1, <1>5, <1>6 DEF SwapsAll

LEMMA RequestVoteRequestSwaps == SwapsAll("RequestVoteRequest")
<1>1. Members("RequestVoteRequest")
        = {RequestVoteRequestImpl[i] : i \in DOMAIN RequestVoteRequestImpl}
          /\ DOMAIN RequestVoteRequestImpl = 1 .. 7
  BY IsRequestVoteRequest DEF Members, ToSet, RequestVoteRequestImpl
<1>2. \A i, j \in DOMAIN RequestVoteRequestImpl : RequestVoteRequestImpl[i]
        = RequestVoteRequestImpl[j] => i = j
  BY DEF RequestVoteRequestImpl
<1>3. \A i \in 1 .. 7 : Place("RequestVoteRequest", RequestVoteRequestImpl[i]) = i
  BY <1>1, <1>2, IsRequestVoteRequest, PlaceIs
<1>4. RequestVoteRequestSwapped[1] = RequestVoteRequestImpl[2]
        /\ RequestVoteRequestSwapped[2] = RequestVoteRequestImpl[7]
  BY DEF RequestVoteRequestSwapped, RequestVoteRequestImpl
<1>5. \A i \in 2 .. 7 : Exchanges("RequestVoteRequest", RequestVoteRequestImpl[i])
  <2>1. 2 \in 1 .. 7 /\ 7 \in 1 .. 7 /\ 2 .. 7 \subseteq 1 .. 7
    OBVIOUS
  <2> QED  BY <1>3, <1>4, <2>1, IsRequestVoteRequest DEF Exchanges
<1>6. Exchanges("RequestVoteRequest", RequestVoteRequestImpl[1])
  <2>1. 1 \in DOMAIN RequestVoteRequestWire /\ RequestVoteRequestWire[1] = <<10, "name">>
          /\ 10 % 8 = 2
    BY DEF RequestVoteRequestWire
  <2>2. RequestVoteRequestImpl[1] = "name"
    BY DEF RequestVoteRequestImpl
  <2>3. Delimited("RequestVoteRequest", "name")
    BY <2>1, IsRequestVoteRequest DEF Delimited
  <2> QED  BY <2>2, <2>3 DEF Exchanges
<1> QED  BY <1>1, <1>5, <1>6 DEF SwapsAll

LEMMA RequestVoteResponseSwaps == SwapsAll("RequestVoteResponse")
<1>1. Members("RequestVoteResponse")
        = {RequestVoteResponseImpl[i] : i \in DOMAIN RequestVoteResponseImpl}
          /\ DOMAIN RequestVoteResponseImpl = 1 .. 5
  BY IsRequestVoteResponse DEF Members, ToSet, RequestVoteResponseImpl
<1>2. \A i, j \in DOMAIN RequestVoteResponseImpl : RequestVoteResponseImpl[i]
        = RequestVoteResponseImpl[j] => i = j
  BY DEF RequestVoteResponseImpl
<1>3. \A i \in 1 .. 5 : Place("RequestVoteResponse", RequestVoteResponseImpl[i]) = i
  BY <1>1, <1>2, IsRequestVoteResponse, PlaceIs
<1>4. RequestVoteResponseSwapped[1] = RequestVoteResponseImpl[2]
        /\ RequestVoteResponseSwapped[2] = RequestVoteResponseImpl[5]
  BY DEF RequestVoteResponseSwapped, RequestVoteResponseImpl
<1>5. \A i \in 2 .. 5 : Exchanges("RequestVoteResponse", RequestVoteResponseImpl[i])
  <2>1. 2 \in 1 .. 5 /\ 5 \in 1 .. 5 /\ 2 .. 5 \subseteq 1 .. 5
    OBVIOUS
  <2> QED  BY <1>3, <1>4, <2>1, IsRequestVoteResponse DEF Exchanges
<1>6. Exchanges("RequestVoteResponse", RequestVoteResponseImpl[1])
  <2>1. 1 \in DOMAIN RequestVoteResponseWire /\ RequestVoteResponseWire[1] = <<10, "name">>
          /\ 10 % 8 = 2
    BY DEF RequestVoteResponseWire
  <2>2. RequestVoteResponseImpl[1] = "name"
    BY DEF RequestVoteResponseImpl
  <2>3. Delimited("RequestVoteResponse", "name")
    BY <2>1, IsRequestVoteResponse DEF Delimited
  <2> QED  BY <2>2, <2>3 DEF Exchanges
<1> QED  BY <1>1, <1>5, <1>6 DEF SwapsAll

LEMMA InstallSnapshotRequestSwaps == SwapsAll("InstallSnapshotRequest")
<1>1. Members("InstallSnapshotRequest")
        = {InstallSnapshotRequestImpl[i] : i \in DOMAIN InstallSnapshotRequestImpl}
          /\ DOMAIN InstallSnapshotRequestImpl = 1 .. 8
  BY IsInstallSnapshotRequest DEF Members, ToSet, InstallSnapshotRequestImpl
<1>2. \A i, j \in DOMAIN InstallSnapshotRequestImpl : InstallSnapshotRequestImpl[i]
        = InstallSnapshotRequestImpl[j] => i = j
  BY DEF InstallSnapshotRequestImpl
<1>3. \A i \in 1 .. 8 : Place("InstallSnapshotRequest", InstallSnapshotRequestImpl[i]) = i
  BY <1>1, <1>2, IsInstallSnapshotRequest, PlaceIs
<1>4. InstallSnapshotRequestSwapped[1] = InstallSnapshotRequestImpl[3]
        /\ InstallSnapshotRequestSwapped[2] = InstallSnapshotRequestImpl[8]
  BY DEF InstallSnapshotRequestSwapped, InstallSnapshotRequestImpl
<1>5. \A i \in 3 .. 8 : Exchanges("InstallSnapshotRequest", InstallSnapshotRequestImpl[i])
  <2>1. 3 \in 1 .. 8 /\ 8 \in 1 .. 8 /\ 3 .. 8 \subseteq 1 .. 8
    OBVIOUS
  <2> QED  BY <1>3, <1>4, <2>1, IsInstallSnapshotRequest DEF Exchanges
<1>6. Exchanges("InstallSnapshotRequest", InstallSnapshotRequestImpl[1])
  <2>1. 2 \in DOMAIN InstallSnapshotRequestWire /\ InstallSnapshotRequestWire[2] = <<18, "name">>
          /\ 18 % 8 = 2
    BY DEF InstallSnapshotRequestWire
  <2>2. InstallSnapshotRequestImpl[1] = "name"
    BY DEF InstallSnapshotRequestImpl
  <2>3. Delimited("InstallSnapshotRequest", "name")
    BY <2>1, IsInstallSnapshotRequest DEF Delimited
  <2> QED  BY <2>2, <2>3 DEF Exchanges
<1>7. Exchanges("InstallSnapshotRequest", InstallSnapshotRequestImpl[2])
  <2>1. 5 \in DOMAIN InstallSnapshotRequestWire /\ InstallSnapshotRequestWire[5] = <<50, "data">>
          /\ 50 % 8 = 2
    BY DEF InstallSnapshotRequestWire
  <2>2. InstallSnapshotRequestImpl[2] = "data"
    BY DEF InstallSnapshotRequestImpl
  <2>3. Delimited("InstallSnapshotRequest", "data")
    BY <2>1, IsInstallSnapshotRequest DEF Delimited
  <2> QED  BY <2>2, <2>3 DEF Exchanges
<1> QED  BY <1>1, <1>5, <1>6, <1>7 DEF SwapsAll

LEMMA InstallSnapshotResponseSwaps == SwapsAll("InstallSnapshotResponse")
<1>1. Members("InstallSnapshotResponse")
        = {InstallSnapshotResponseImpl[i] : i \in DOMAIN InstallSnapshotResponseImpl}
          /\ DOMAIN InstallSnapshotResponseImpl = 1 .. 7
  BY IsInstallSnapshotResponse DEF Members, ToSet, InstallSnapshotResponseImpl
<1>2. \A i, j \in DOMAIN InstallSnapshotResponseImpl : InstallSnapshotResponseImpl[i]
        = InstallSnapshotResponseImpl[j] => i = j
  BY DEF InstallSnapshotResponseImpl
<1>3. \A i \in 1 .. 7 : Place("InstallSnapshotResponse", InstallSnapshotResponseImpl[i]) = i
  BY <1>1, <1>2, IsInstallSnapshotResponse, PlaceIs
<1>4. InstallSnapshotResponseSwapped[1] = InstallSnapshotResponseImpl[2]
        /\ InstallSnapshotResponseSwapped[2] = InstallSnapshotResponseImpl[7]
  BY DEF InstallSnapshotResponseSwapped, InstallSnapshotResponseImpl
<1>5. \A i \in 2 .. 7 : Exchanges("InstallSnapshotResponse", InstallSnapshotResponseImpl[i])
  <2>1. 2 \in 1 .. 7 /\ 7 \in 1 .. 7 /\ 2 .. 7 \subseteq 1 .. 7
    OBVIOUS
  <2> QED  BY <1>3, <1>4, <2>1, IsInstallSnapshotResponse DEF Exchanges
<1>6. Exchanges("InstallSnapshotResponse", InstallSnapshotResponseImpl[1])
  <2>1. 2 \in DOMAIN InstallSnapshotResponseWire /\ InstallSnapshotResponseWire[2] = <<18, "name">>
          /\ 18 % 8 = 2
    BY DEF InstallSnapshotResponseWire
  <2>2. InstallSnapshotResponseImpl[1] = "name"
    BY DEF InstallSnapshotResponseImpl
  <2>3. Delimited("InstallSnapshotResponse", "name")
    BY <2>1, IsInstallSnapshotResponse DEF Delimited
  <2> QED  BY <2>2, <2>3 DEF Exchanges
<1> QED  BY <1>1, <1>5, <1>6 DEF SwapsAll

LEMMA ConfRecordSwaps == SwapsAll("ConfRecord")
<1>1. Members("ConfRecord") = {ConfRecordImpl[i] : i \in DOMAIN ConfRecordImpl}
        /\ DOMAIN ConfRecordImpl = 1 .. 4
  BY IsConfRecord DEF Members, ToSet, ConfRecordImpl
<1>2. \A i, j \in DOMAIN ConfRecordImpl : ConfRecordImpl[i] = ConfRecordImpl[j] => i = j
  BY DEF ConfRecordImpl
<1>3. \A i \in 1 .. 4 : Place("ConfRecord", ConfRecordImpl[i]) = i
  BY <1>1, <1>2, IsConfRecord, PlaceIs
<1>4. ConfRecordSwapped[1] = ConfRecordImpl[2] /\ ConfRecordSwapped[2] = ConfRecordImpl[4]
  BY DEF ConfRecordSwapped, ConfRecordImpl
<1>5. \A i \in 2 .. 4 : Exchanges("ConfRecord", ConfRecordImpl[i])
  <2>1. 2 \in 1 .. 4 /\ 4 \in 1 .. 4 /\ 2 .. 4 \subseteq 1 .. 4
    OBVIOUS
  <2> QED  BY <1>3, <1>4, <2>1, IsConfRecord DEF Exchanges
<1>6. Exchanges("ConfRecord", ConfRecordImpl[1])
  <2>1. 1 \in DOMAIN ConfRecordWire /\ ConfRecordWire[1] = <<10, "peers">> /\ 10 % 8 = 2
    BY DEF ConfRecordWire
  <2>2. ConfRecordImpl[1] = "peers"
    BY DEF ConfRecordImpl
  <2>3. Delimited("ConfRecord", "peers")
    BY <2>1, IsConfRecord DEF Delimited
  <2> QED  BY <2>2, <2>3 DEF Exchanges
<1> QED  BY <1>1, <1>5, <1>6 DEF SwapsAll

LEMMA PersistRecordSwaps == SwapsAll("PersistRecord")
<1>1. Members("PersistRecord") = {PersistRecordImpl[i] : i \in DOMAIN PersistRecordImpl}
        /\ DOMAIN PersistRecordImpl = 1 .. 6
  BY IsPersistRecord DEF Members, ToSet, PersistRecordImpl
<1>2. \A i, j \in DOMAIN PersistRecordImpl : PersistRecordImpl[i] = PersistRecordImpl[j] => i = j
  BY DEF PersistRecordImpl
<1>3. \A i \in 1 .. 6 : Place("PersistRecord", PersistRecordImpl[i]) = i
  BY <1>1, <1>2, IsPersistRecord, PlaceIs
<1>4. PersistRecordSwapped[1] = PersistRecordImpl[4]
        /\ PersistRecordSwapped[2] = PersistRecordImpl[6]
  BY DEF PersistRecordSwapped, PersistRecordImpl
<1>5. \A i \in 4 .. 6 : Exchanges("PersistRecord", PersistRecordImpl[i])
  <2>1. 4 \in 1 .. 6 /\ 6 \in 1 .. 6 /\ 4 .. 6 \subseteq 1 .. 6
    OBVIOUS
  <2> QED  BY <1>3, <1>4, <2>1, IsPersistRecord DEF Exchanges
<1>6. Exchanges("PersistRecord", PersistRecordImpl[1])
  <2>1. 4 \in DOMAIN PersistRecordWire /\ PersistRecordWire[4] = <<34, "entries">> /\ 34 % 8 = 2
    BY DEF PersistRecordWire
  <2>2. PersistRecordImpl[1] = "entries"
    BY DEF PersistRecordImpl
  <2>3. Delimited("PersistRecord", "entries")
    BY <2>1, IsPersistRecord DEF Delimited
  <2> QED  BY <2>2, <2>3 DEF Exchanges
<1>7. Exchanges("PersistRecord", PersistRecordImpl[2])
  <2>1. 2 \in DOMAIN PersistRecordWire /\ PersistRecordWire[2] = <<18, "name">> /\ 18 % 8 = 2
    BY DEF PersistRecordWire
  <2>2. PersistRecordImpl[2] = "name"
    BY DEF PersistRecordImpl
  <2>3. Delimited("PersistRecord", "name")
    BY <2>1, IsPersistRecord DEF Delimited
  <2> QED  BY <2>2, <2>3 DEF Exchanges
<1>8. Exchanges("PersistRecord", PersistRecordImpl[3])
  <2>1. 3 \in DOMAIN PersistRecordWire /\ PersistRecordWire[3] = <<26, "vote_for">> /\ 26 % 8 = 2
    BY DEF PersistRecordWire
  <2>2. PersistRecordImpl[3] = "vote_for"
    BY DEF PersistRecordImpl
  <2>3. Delimited("PersistRecord", "vote_for")
    BY <2>1, IsPersistRecord DEF Delimited
  <2> QED  BY <2>2, <2>3 DEF Exchanges
<1> QED  BY <1>1, <1>5, <1>6, <1>7, <1>8 DEF SwapsAll

LEMMA PutAppendRequestSwaps == SwapsAll("PutAppendRequest")
<1>1. Members("PutAppendRequest") = {PutAppendRequestImpl[i] : i \in DOMAIN PutAppendRequestImpl}
        /\ DOMAIN PutAppendRequestImpl = 1 .. 5
  BY IsPutAppendRequest DEF Members, ToSet, PutAppendRequestImpl
<1>2. \A i, j \in DOMAIN PutAppendRequestImpl : PutAppendRequestImpl[i] = PutAppendRequestImpl[j]
        => i = j
  BY DEF PutAppendRequestImpl
<1>3. \A i \in 1 .. 5 : Place("PutAppendRequest", PutAppendRequestImpl[i]) = i
  BY <1>1, <1>2, IsPutAppendRequest, PlaceIs
<1>4. PutAppendRequestSwapped[1] = PutAppendRequestImpl[4]
        /\ PutAppendRequestSwapped[2] = PutAppendRequestImpl[5]
  BY DEF PutAppendRequestSwapped, PutAppendRequestImpl
<1>5. \A i \in 4 .. 5 : Exchanges("PutAppendRequest", PutAppendRequestImpl[i])
  <2>1. 4 \in 1 .. 5 /\ 5 \in 1 .. 5 /\ 4 .. 5 \subseteq 1 .. 5
    OBVIOUS
  <2> QED  BY <1>3, <1>4, <2>1, IsPutAppendRequest DEF Exchanges
<1>6. Exchanges("PutAppendRequest", PutAppendRequestImpl[1])
  <2>1. 1 \in DOMAIN PutAppendRequestWire /\ PutAppendRequestWire[1] = <<10, "key">> /\ 10 % 8 = 2
    BY DEF PutAppendRequestWire
  <2>2. PutAppendRequestImpl[1] = "key"
    BY DEF PutAppendRequestImpl
  <2>3. Delimited("PutAppendRequest", "key")
    BY <2>1, IsPutAppendRequest DEF Delimited
  <2> QED  BY <2>2, <2>3 DEF Exchanges
<1>7. Exchanges("PutAppendRequest", PutAppendRequestImpl[2])
  <2>1. 2 \in DOMAIN PutAppendRequestWire /\ PutAppendRequestWire[2] = <<18, "value">> /\ 18 % 8 = 2
    BY DEF PutAppendRequestWire
  <2>2. PutAppendRequestImpl[2] = "value"
    BY DEF PutAppendRequestImpl
  <2>3. Delimited("PutAppendRequest", "value")
    BY <2>1, IsPutAppendRequest DEF Delimited
  <2> QED  BY <2>2, <2>3 DEF Exchanges
<1>8. Exchanges("PutAppendRequest", PutAppendRequestImpl[3])
  <2>1. 3 \in DOMAIN PutAppendRequestWire /\ PutAppendRequestWire[3] = <<26, "op">> /\ 26 % 8 = 2
    BY DEF PutAppendRequestWire
  <2>2. PutAppendRequestImpl[3] = "op"
    BY DEF PutAppendRequestImpl
  <2>3. Delimited("PutAppendRequest", "op")
    BY <2>1, IsPutAppendRequest DEF Delimited
  <2> QED  BY <2>2, <2>3 DEF Exchanges
<1> QED  BY <1>1, <1>5, <1>6, <1>7, <1>8 DEF SwapsAll

LEMMA PutAppendResponseSwaps == SwapsAll("PutAppendResponse")
<1>1. Members("PutAppendResponse") = {PutAppendResponseImpl[i] : i \in DOMAIN PutAppendResponseImpl}
        /\ DOMAIN PutAppendResponseImpl = 1 .. 2
  BY IsPutAppendResponse DEF Members, ToSet, PutAppendResponseImpl
<1>2. \A i, j \in DOMAIN PutAppendResponseImpl : PutAppendResponseImpl[i] = PutAppendResponseImpl[j]
        => i = j
  BY DEF PutAppendResponseImpl
<1>3. \A i \in 1 .. 2 : Place("PutAppendResponse", PutAppendResponseImpl[i]) = i
  BY <1>1, <1>2, IsPutAppendResponse, PlaceIs
<1>4. PutAppendResponseSwapped[1] = PutAppendResponseImpl[2]
        /\ PutAppendResponseSwapped[2] = PutAppendResponseImpl[2]
  BY DEF PutAppendResponseSwapped, PutAppendResponseImpl
<1>5. \A i \in 2 .. 2 : Exchanges("PutAppendResponse", PutAppendResponseImpl[i])
  <2>1. 2 \in 1 .. 2 /\ 2 \in 1 .. 2 /\ 2 .. 2 \subseteq 1 .. 2
    OBVIOUS
  <2> QED  BY <1>3, <1>4, <2>1, IsPutAppendResponse DEF Exchanges
<1>6. Exchanges("PutAppendResponse", PutAppendResponseImpl[1])
  <2>1. 2 \in DOMAIN PutAppendResponseWire /\ PutAppendResponseWire[2] = <<18, "err">> /\ 18 % 8 = 2
    BY DEF PutAppendResponseWire
  <2>2. PutAppendResponseImpl[1] = "err"
    BY DEF PutAppendResponseImpl
  <2>3. Delimited("PutAppendResponse", "err")
    BY <2>1, IsPutAppendResponse DEF Delimited
  <2> QED  BY <2>2, <2>3 DEF Exchanges
<1> QED  BY <1>1, <1>5, <1>6 DEF SwapsAll

LEMMA GetRequestSwaps == SwapsAll("GetRequest")
<1>1. Members("GetRequest") = {GetRequestImpl[i] : i \in DOMAIN GetRequestImpl}
        /\ DOMAIN GetRequestImpl = 1 .. 3
  BY IsGetRequest DEF Members, ToSet, GetRequestImpl
<1>2. \A i, j \in DOMAIN GetRequestImpl : GetRequestImpl[i] = GetRequestImpl[j] => i = j
  BY DEF GetRequestImpl
<1>3. \A i \in 1 .. 3 : Place("GetRequest", GetRequestImpl[i]) = i
  BY <1>1, <1>2, IsGetRequest, PlaceIs
<1>4. GetRequestSwapped[1] = GetRequestImpl[2] /\ GetRequestSwapped[2] = GetRequestImpl[3]
  BY DEF GetRequestSwapped, GetRequestImpl
<1>5. \A i \in 2 .. 3 : Exchanges("GetRequest", GetRequestImpl[i])
  <2>1. 2 \in 1 .. 3 /\ 3 \in 1 .. 3 /\ 2 .. 3 \subseteq 1 .. 3
    OBVIOUS
  <2> QED  BY <1>3, <1>4, <2>1, IsGetRequest DEF Exchanges
<1>6. Exchanges("GetRequest", GetRequestImpl[1])
  <2>1. 1 \in DOMAIN GetRequestWire /\ GetRequestWire[1] = <<10, "key">> /\ 10 % 8 = 2
    BY DEF GetRequestWire
  <2>2. GetRequestImpl[1] = "key"
    BY DEF GetRequestImpl
  <2>3. Delimited("GetRequest", "key")
    BY <2>1, IsGetRequest DEF Delimited
  <2> QED  BY <2>2, <2>3 DEF Exchanges
<1> QED  BY <1>1, <1>5, <1>6 DEF SwapsAll

LEMMA GetResponseSwaps == SwapsAll("GetResponse")
<1>1. Members("GetResponse") = {GetResponseImpl[i] : i \in DOMAIN GetResponseImpl}
        /\ DOMAIN GetResponseImpl = 1 .. 3
  BY IsGetResponse DEF Members, ToSet, GetResponseImpl
<1>2. \A i, j \in DOMAIN GetResponseImpl : GetResponseImpl[i] = GetResponseImpl[j] => i = j
  BY DEF GetResponseImpl
<1>3. \A i \in 1 .. 3 : Place("GetResponse", GetResponseImpl[i]) = i
  BY <1>1, <1>2, IsGetResponse, PlaceIs
<1>4. GetResponseSwapped[1] = GetResponseImpl[3] /\ GetResponseSwapped[2] = GetResponseImpl[3]
  BY DEF GetResponseSwapped, GetResponseImpl
<1>5. \A i \in 3 .. 3 : Exchanges("GetResponse", GetResponseImpl[i])
  <2>1. 3 \in 1 .. 3 /\ 3 \in 1 .. 3 /\ 3 .. 3 \subseteq 1 .. 3
    OBVIOUS
  <2> QED  BY <1>3, <1>4, <2>1, IsGetResponse DEF Exchanges
<1>6. Exchanges("GetResponse", GetResponseImpl[1])
  <2>1. 2 \in DOMAIN GetResponseWire /\ GetResponseWire[2] = <<18, "err">> /\ 18 % 8 = 2
    BY DEF GetResponseWire
  <2>2. GetResponseImpl[1] = "err"
    BY DEF GetResponseImpl
  <2>3. Delimited("GetResponse", "err")
    BY <2>1, IsGetResponse DEF Delimited
  <2> QED  BY <2>2, <2>3 DEF Exchanges
<1>7. Exchanges("GetResponse", GetResponseImpl[2])
  <2>1. 3 \in DOMAIN GetResponseWire /\ GetResponseWire[3] = <<26, "value">> /\ 26 % 8 = 2
    BY DEF GetResponseWire
  <2>2. GetResponseImpl[2] = "value"
    BY DEF GetResponseImpl
  <2>3. Delimited("GetResponse", "value")
    BY <2>1, IsGetResponse DEF Delimited
  <2> QED  BY <2>2, <2>3 DEF Exchanges
<1> QED  BY <1>1, <1>5, <1>6, <1>7 DEF SwapsAll

\* So do all of them.
LEMMA AllSwap == \A T \in Types : SwapsAll(T)
BY TypesAre, LogEntrySwaps, AppendEntriesRequestSwaps, AppendEntriesResponseSwaps,
   RequestVoteRequestSwaps, RequestVoteResponseSwaps, InstallSnapshotRequestSwaps,
   InstallSnapshotResponseSwaps, ConfRecordSwaps, PersistRecordSwaps, PutAppendRequestSwaps,
   PutAppendResponseSwaps, GetRequestSwaps, GetResponseSwaps

\* Whatever a message was used for, Clear() makes it a new one.
LEMMA ClearIsNew ==
  ASSUME NEW T \in Types, NEW m, FlatProper(T, m)
  PROVE  Clear(T, m) = New(T)
<1> DEFINE clear == Schema[T].clear
           reset == {f \in Members(T) : \E i \in DOMAIN clear :
                       LET group == clear[i]
                       IN  /\ f \in group[2]
                           /\ group[1] = 0 \/ Mask(group[1]) \cap m.has # {}}
           left(f) == IF f \in reset THEN Zero(f) ELSE m.mem[f]
<1>1. Clear(T, m) = [has |-> {}, mem |-> [f \in Members(T) |-> left(f)]]
  BY DEF Clear
<1>2. ASSUME NEW f \in Members(T) PROVE left(f) = Zero(f)
  <2>1. PICK i \in DOMAIN clear : Resets(T, f, clear[i])
    BY AllClear DEF ClearsAll
  <2>2. CASE clear[i][1] = 0
    BY <2>1, <2>2 DEF Resets
  <2>3. CASE clear[i][1] # 0
    <3>1. f # "entries" /\ Bit(T, f) \in Mask(clear[i][1]) /\ f \in clear[i][2]
      BY <2>1, <2>3 DEF Resets
    <3>2. CASE Bit(T, f) \in m.has
      <4>1. Mask(clear[i][1]) \cap m.has # {}
        BY <3>1, <3>2
      <4> QED  BY <3>1, <4>1
    <3>3. CASE Bit(T, f) \notin m.has
      BY <3>1, <3>3 DEF FlatProper
    <3> QED  BY <3>2, <3>3
  <2> QED  BY <2>2, <2>3
<1> HIDE DEF left
<1> QED  BY <1>1, <1>2 DEF New

\* Whatever it held, a message swapped with another is that one.
LEMMA SwapIsOther ==
  ASSUME NEW T \in Types, NEW m, NEW other, FlatProper(T, other)
  PROVE  SwapIn(T, m, other) = other
<1> DEFINE impl == Schema[T].impl
           pos(f) == CHOOSE i \in DOMAIN impl : impl[i] = f
           exchanged(f) == \/ pos(f) \in pos(Schema[T].swapped[1]) .. pos(Schema[T].swapped[2])
                           \/ Delimited(T, f) /\ f # "conf_record"
           left(f) == IF exchanged(f) THEN other.mem[f] ELSE m.mem[f]
<1>1. SwapIn(T, m, other) = [has |-> other.has, mem |-> [f \in Members(T) |-> left(f)]]
  BY DEF SwapIn
<1>2. \A f : pos(f) = Place(T, f)
  BY DEF Place
<1>3. \A f : exchanged(f) <=> Exchanges(T, f)
  <2> HIDE DEF pos
  <2> QED  BY <1>2 DEF Exchanges
<1>4. \A f \in Members(T) : exchanged(f)
  BY <1>3, AllSwap DEF SwapsAll
<1> HIDE DEF exchanged
<1>5. \A f \in Members(T) : left(f) = other.mem[f]
  BY <1>4
<1> HIDE DEF left
<1> QED  BY <1>1, <1>5 DEF FlatProper

\* Whatever a message is read from, it has the members whose bits it has.
LEMMA ReadProper ==
  ASSUME NEW T, WellFormed(T), NEW s
  PROVE  FlatProper(T, Parse(T, New(T), s).msg)
<1> DEFINE z == New(T)
           m == MergeFromStream(T, z, s)
           read(f) == CASE f = "entries"     -> ParsedEntries(z.mem[f], FieldsFor(T, s, f))
                        [] f = "conf_record" -> ParsedConf(z.mem[f], FieldsFor(T, s, f))
                        [] OTHER             -> LastOf(T, z, s, f)
<1>1. Parse(T, New(T), s).msg = m
  BY NewProper DEF Parse
<1>2. z.has = {} /\ \A f \in Members(T) : z.mem[f] = Zero(f)
  BY DEF New
<1> HIDE DEF z
<1>3. m = [has |-> z.has \cup ParsedBits(T, s), mem |-> [f \in Members(T) |-> read(f)]]
  BY DEF MergeFromStream
<1>4. ParsedBits(T, s) \subseteq Bits(T)
  BY DEF ParsedBits, Bits
<1>5. ASSUME NEW f \in Members(T), f # "entries", Bit(T, f) \notin ParsedBits(T, s)
      PROVE  read(f) = Zero(f)
  <2>1. f \in DOMAIN Schema[T].bits
    BY <1>5, BitOf
  <2>2. FieldsFor(T, s, f) = <<>>
    BY <1>5, <2>1 DEF ParsedBits
  <2>3. CASE f = "conf_record"
    <3>1. ParsedConf(Flat("ConfRecord"), <<>>) = Flat("ConfRecord")
      <4> DEFINE C == "ConfRecord"
                 y == Flat(C)
      <4>1. FlattenSeq([i \in DOMAIN <<>> |-> <<>>[i].val]) = <<>>
        <5>1. [i \in DOMAIN <<>> |-> <<>>[i].val] = <<>>
          OBVIOUS
        <5> QED  BY <5>1, FlattenEmpty
      <4>2. ParsedConf(y, <<>>) = FlatParse(C, y, <<>>)
        BY <4>1 DEF ParsedConf
      <4>3. ParsedBits(C, <<>>) = {}
        BY FieldsEmpty DEF ParsedBits
      <4>4. \A g : LastOf(C, y, <<>>, g) = y.mem[g]
        BY FieldsEmpty DEF LastOf
      <4>5. y = [has |-> y.has, mem |-> [g \in Members(C) |-> y.mem[g]]]
        BY DEF Flat
      <4> HIDE DEF y
      <4>6. FlatParse(C, y, <<>>) = y
        BY <4>3, <4>4, <4>5 DEF FlatParse
      <4> QED  BY <4>2, <4>6 DEF y
    <3> QED  BY <1>2, <2>2, <2>3, <3>1 DEF Zero
  <2>4. CASE f # "conf_record"
    BY <1>2, <1>5, <2>2, <2>4 DEF LastOf
  <2> QED  BY <2>3, <2>4
<1> HIDE DEF read
<1>6. FlatProper(T, m)
  BY <1>2, <1>3, <1>4, <1>5 DEF FlatProper
<1> QED  BY <1>1, <1>6 DEF z

\* Whatever a message object was left with by a parse, of a whole stream or of one
\* cut anywhere: cleared it is new, copied it is the same, assigned or swapped it
\* is the other message.  The tables of Clear() and InternalSwap are complete.
THEOREM UsesLeaveNothing == NothingSurvives
<1> SUFFICES ASSUME NEW T \in Types, NEW s
             PROVE  LET used == Parse(T, New(T), s).msg
                    IN  /\ Clear(T, used) = New(T)
                        /\ CopyOf(T, used) = used
                        /\ \A other \in Samples(T) :
                            /\ CopyFrom(T, used, other) = other
                            /\ SwapIn(T, used, other) = other
  BY DEF NothingSurvives
<1> DEFINE used == Parse(T, New(T), s).msg
<1>1. WellFormed(T)
  BY AllWellFormed
<1>2. FlatProper(T, used)
  BY <1>1, ReadProper
<1> HIDE DEF used
<1>3. Clear(T, used) = New(T)
  BY <1>2, ClearIsNew
<1>4. CopyOf(T, used) = used
  BY <1>2, CopySame
<1>5. ASSUME NEW other \in Samples(T)
      PROVE  CopyFrom(T, used, other) = other /\ SwapIn(T, used, other) = other
  <2>1. Proper(T, other)
    BY SamplesProper
  <2>2. CopyFrom(T, used, other) = other
    BY <1>1, <1>3, <2>1, CopyInto
  <2> QED  BY <2>1, <2>2, SwapIsOther DEF Proper
<1> QED  BY <1>3, <1>4, <1>5 DEF used

\* So in every state: no message object keeps anything of an earlier use.
THEOREM MessagesAreReused == Spec => []MessagesForget
<1>1. MessagesForget
  BY UsesLeaveNothing DEF MessagesForget
<1> QED  BY <1>1, PTL

-----------------------------------------------------------------------------
(* What one end builds and the other reads.                                *)

\* A proper message arrives as it is, and is accepted if it is complete.
LEMMA SentIs ==
  ASSUME NEW T \in Types, NEW m, Proper(T, m)
  PROVE  Sent(T, T, m) = [msg |-> m, ok |-> IsInitialized(T, m)]
<1>1. CopyOf(T, m) = m
  BY CopySame DEF Proper
<1>2. WellFormed(T)
  BY AllWellFormed
<1> QED  BY <1>1, <1>2, OneRead DEF Sent

\* The setters of members without nested messages leave a proper message.
LEMMA BuiltProper ==
  ASSUME NEW T \in Types, NEW members,
         ToSet(members) \subseteq Members(T) \ {"entries", "conf_record"}
  PROVE  /\ Proper(T, Build(T, members))
         /\ Build(T, members).has = {Bit(T, f) : f \in ToSet(members)}
         /\ "entries" \in Members(T) => Build(T, members).mem["entries"] = <<>>
         /\ \A f \in Members(T) \ {"entries"} :
              Bit(T, f) \notin Build(T, members).has => Build(T, members).mem[f] = Zero(f)
<1> DEFINE values == [f \in ToSet(members) |-> Bit(T, f)]
           value(f) == IF f \in DOMAIN values THEN values[f] ELSE Zero(f)
           m == Build(T, members)
<1>1. WellFormed(T) /\ DOMAIN Schema[T].bits = Members(T) \ {"entries"}
  BY AllWellFormed, BitOf
<1>2. DOMAIN values = ToSet(members)
  OBVIOUS
<1>3. m = [has |-> {Bit(T, f) : f \in DOMAIN values}, mem |-> [f \in Members(T) |-> value(f)]]
  BY DEF Build, Filled
<1>4. \A f : f \notin ToSet(members) => value(f) = Zero(f)
  BY <1>2
<1> HIDE DEF values, value, m
<1>5. m.has = {Bit(T, f) : f \in ToSet(members)} /\ \A f \in Members(T) : m.mem[f] = value(f)
  BY <1>2, <1>3
<1>6. m = [has |-> m.has, mem |-> [f \in Members(T) |-> m.mem[f]]]
  BY <1>3
<1>7. m.has \subseteq Bits(T)
  BY <1>1, <1>5 DEF Bits
<1>8. \A f \in Members(T) \ {"entries"} : Bit(T, f) \notin m.has => m.mem[f] = Zero(f)
  BY <1>4, <1>5
<1>9. FlatProper(T, m)
  BY <1>6, <1>7, <1>8 DEF FlatProper
<1>10. "entries" \in Members(T) => m.mem["entries"] = <<>>
  BY <1>4, <1>5 DEF Zero
<1>11. "conf_record" \in Members(T) => FlatProper("ConfRecord", m.mem["conf_record"])
  BY <1>4, <1>5, LogEntryFlat, FlatNew DEF Zero
<1>12. Proper(T, m)
  BY <1>9, <1>10, <1>11, EmptyLog DEF Proper, IsLog
<1> QED  BY <1>5, <1>8, <1>10, <1>12 DEF m

\* It arrives if every required member is among them.
LEMMA BuiltArrives ==
  ASSUME NEW T \in Types, NEW members,
         ToSet(members) \subseteq Members(T) \ {"entries", "conf_record"},
         Mask(Schema[T].required) \subseteq {Bit(T, f) : f \in ToSet(members)}
  PROVE  Arrives(T, T, Build(T, members))
<1> DEFINE m == Build(T, members)
<1>1. /\ Proper(T, m) /\ m.has = {Bit(T, f) : f \in ToSet(members)}
      /\ "entries" \in Members(T) => m.mem["entries"] = <<>>
  BY BuiltProper
<1>2. Complete(T, m)
  BY <1>1 DEF Complete
<1>3. "conf_record" \in Members(T) => Bit("PersistRecord", "conf_record") \notin m.has
  <2> SUFFICES ASSUME "conf_record" \in Members(T), NEW f \in ToSet(members),
                      Bit(T, f) = Bit(T, "conf_record")
               PROVE  FALSE
    BY <1>1, OnlyPersistRecord
  <2>1. f \in DOMAIN Schema[T].bits /\ "conf_record" \in DOMAIN Schema[T].bits
    BY AllWellFormed, BitOf
  <2> QED  BY <2>1, AllWellFormed, BitOf
<1> HIDE DEF m
<1>4. IsInitialized(T, m)
  BY <1>1, <1>2, <1>3 DEF IsInitialized
<1>5. Sent(T, T, m) = [msg |-> m, ok |-> TRUE]
  BY <1>1, <1>4, SentIs
<1> QED  BY <1>5 DEF Arrives, m

\* One without any member is refused where there are required ones.
LEMMA NothingArrives ==
  ASSUME NEW T \in Types, Mask(Schema[T].required) # {}
  PROVE  ~ Sent(T, T, Build(T, <<>>)).ok
<1> DEFINE m == Build(T, <<>>)
<1>1. ToSet(<<>>) = {}
  BY DEF ToSet
<1>2. Proper(T, m) /\ m.has = {}
  BY <1>1, BuiltProper
<1> HIDE DEF m
<1>3. ~ IsInitialized(T, m)
  BY <1>2 DEF IsInitialized, Complete
<1> QED  BY <1>2, <1>3, SentIs DEF m

\* The required masks, bit by bit.
LEMMA RequiredMasks ==
  /\ Mask(3) = {1, 2}
  /\ Mask(7) = {1, 2, 4}
  /\ Mask(14) = {2, 4, 8}
  /\ Mask(31) = {1, 2, 4, 8, 16}
  /\ Mask(127) = {1, 2, 4, 8, 16, 32, 64}
  /\ Mask(255) = {1, 2, 4, 8, 16, 32, 64, 128}
BY DEF Mask

\* The types of the calls: their members, and the bits of the required ones.
LEMMA LogEntryNeeds ==
  /\ "LogEntry" \in Types
  /\ Members("LogEntry") = {"data", "index", "term", "command"}
  /\ Mask(Schema["LogEntry"].required) = {2, 4, 8}
  /\ Bit("LogEntry", "data") = 1
  /\ Bit("LogEntry", "index") = 2
  /\ Bit("LogEntry", "term") = 4
  /\ Bit("LogEntry", "command") = 8
<1>1. Members("LogEntry") = {LogEntryImpl[i] : i \in DOMAIN LogEntryImpl}
  BY IsLogEntry DEF Members, ToSet
<1>2. Members("LogEntry") = {"data", "index", "term", "command"}
  BY <1>1 DEF LogEntryImpl
<1>3. Mask(Schema["LogEntry"].required) = {2, 4, 8}
  BY IsLogEntry, RequiredMasks DEF LogEntryRequired
<1> QED  BY <1>2, <1>3, TypesAre, IsLogEntry DEF Bit, LogEntryBits

LEMMA RequestVoteRequestNeeds ==
  /\ "RequestVoteRequest" \in Types
  /\ Members("RequestVoteRequest") = {"name", "term", "last_log_index", "last_log_term", "time",
                                      "seq", "initial"}
  /\ Mask(Schema["RequestVoteRequest"].required) = {1, 2, 4, 8, 16, 32, 64}
  /\ Bit("RequestVoteRequest", "name") = 1
  /\ Bit("RequestVoteRequest", "term") = 2
  /\ Bit("RequestVoteRequest", "last_log_index") = 4
  /\ Bit("RequestVoteRequest", "last_log_term") = 8
  /\ Bit("RequestVoteRequest", "time") = 16
  /\ Bit("RequestVoteRequest", "seq") = 32
  /\ Bit("RequestVoteRequest", "initial") = 64
<1>1. Members("RequestVoteRequest")
        = {RequestVoteRequestImpl[i] : i \in DOMAIN RequestVoteRequestImpl}
  BY IsRequestVoteRequest DEF Members, ToSet
<1>2. Members("RequestVoteRequest") = {"name", "term", "last_log_index", "last_log_term", "time",
                                       "seq", "initial"}
  BY <1>1 DEF RequestVoteRequestImpl
<1>3. Mask(Schema["RequestVoteRequest"].required) = {1, 2, 4, 8, 16, 32, 64}
  BY IsRequestVoteRequest, RequiredMasks DEF RequestVoteRequestRequired
<1> QED  BY <1>2, <1>3, TypesAre, IsRequestVoteRequest DEF Bit, RequestVoteRequestBits

LEMMA RequestVoteResponseNeeds ==
  /\ "RequestVoteResponse" \in Types
  /\ Members("RequestVoteResponse") = {"name", "term", "time", "seq", "vote_granted"}
  /\ Mask(Schema["RequestVoteResponse"].required) = {1, 2, 4, 8, 16}
  /\ Bit("RequestVoteResponse", "name") = 1
  /\ Bit("RequestVoteResponse", "term") = 2
  /\ Bit("RequestVoteResponse", "time") = 4
  /\ Bit("RequestVoteResponse", "seq") = 8
  /\ Bit("RequestVoteResponse", "vote_granted") = 16
<1>1. Members("RequestVoteResponse")
        = {RequestVoteResponseImpl[i] : i \in DOMAIN RequestVoteResponseImpl}
  BY IsRequestVoteResponse DEF Members, ToSet
<1>2. Members("RequestVoteResponse") = {"name", "term", "time", "seq", "vote_granted"}
  BY <1>1 DEF RequestVoteResponseImpl
<1>3. Mask(Schema["RequestVoteResponse"].required) = {1, 2, 4, 8, 16}
  BY IsRequestVoteResponse, RequiredMasks DEF RequestVoteResponseRequired
<1> QED  BY <1>2, <1>3, TypesAre, IsRequestVoteResponse DEF Bit, RequestVoteResponseBits

LEMMA AppendEntriesRequestNeeds ==
  /\ "AppendEntriesRequest" \in Types
  /\ Members("AppendEntriesRequest") = {"entries", "name", "term", "prev_log_index",
                                        "prev_log_term", "leader_commit", "time", "seq",
                                        "initial"}
  /\ Mask(Schema["AppendEntriesRequest"].required) = {1, 2, 4, 8, 16, 32, 64, 128}
  /\ Bit("AppendEntriesRequest", "name") = 1
  /\ Bit("AppendEntriesRequest", "term") = 2
  /\ Bit("AppendEntriesRequest", "prev_log_index") = 4
  /\ Bit("AppendEntriesRequest", "prev_log_term") = 8
  /\ Bit("AppendEntriesRequest", "leader_commit") = 16
  /\ Bit("AppendEntriesRequest", "time") = 32
  /\ Bit("AppendEntriesRequest", "seq") = 64
  /\ Bit("AppendEntriesRequest", "initial") = 128
<1>1. Members("AppendEntriesRequest")
        = {AppendEntriesRequestImpl[i] : i \in DOMAIN AppendEntriesRequestImpl}
  BY IsAppendEntriesRequest DEF Members, ToSet
<1>2. Members("AppendEntriesRequest") = {"entries", "name", "term", "prev_log_index",
                                         "prev_log_term", "leader_commit", "time", "seq",
                                         "initial"}
  BY <1>1 DEF AppendEntriesRequestImpl
<1>3. Mask(Schema["AppendEntriesRequest"].required) = {1, 2, 4, 8, 16, 32, 64, 128}
  BY IsAppendEntriesRequest, RequiredMasks DEF AppendEntriesRequestRequired
<1> QED  BY <1>2, <1>3, TypesAre, IsAppendEntriesRequest DEF Bit, AppendEntriesRequestBits

LEMMA AppendEntriesResponseNeeds ==
  /\ "AppendEntriesResponse" \in Types
  /\ Members("AppendEntriesResponse") = {"name", "term", "last_log_index", "last_log_term",
                                         "time", "seq", "success"}
  /\ Mask(Schema["AppendEntriesResponse"].required) = {1, 2, 4, 8, 16, 32, 64}
  /\ Bit("AppendEntriesResponse", "name") = 1
  /\ Bit("AppendEntriesResponse", "term") = 2
  /\ Bit("AppendEntriesResponse", "last_log_index") = 4
  /\ Bit("AppendEntriesResponse", "last_log_term") = 8
  /\ Bit("AppendEntriesResponse", "time") = 16
  /\ Bit("AppendEntriesResponse", "seq") = 32
  /\ Bit("AppendEntriesResponse", "success") = 64
<1>1. Members("AppendEntriesResponse")
        = {AppendEntriesResponseImpl[i] : i \in DOMAIN AppendEntriesResponseImpl}
  BY IsAppendEntriesResponse DEF Members, ToSet
<1>2. Members("AppendEntriesResponse") = {"name", "term", "last_log_index", "last_log_term",
                                          "time", "seq", "success"}
  BY <1>1 DEF AppendEntriesResponseImpl
<1>3. Mask(Schema["AppendEntriesResponse"].required) = {1, 2, 4, 8, 16, 32, 64}
  BY IsAppendEntriesResponse, RequiredMasks DEF AppendEntriesResponseRequired
<1> QED  BY <1>2, <1>3, TypesAre, IsAppendEntriesResponse DEF Bit, AppendEntriesResponseBits

LEMMA InstallSnapshotResponseNeeds ==
  /\ "InstallSnapshotResponse" \in Types
  /\ Members("InstallSnapshotResponse") = {"name", "term", "last_included_index",
                                           "last_included_term", "time", "seq", "success"}
  /\ Mask(Schema["InstallSnapshotResponse"].required) = {1, 2, 4, 8, 16, 32, 64}
  /\ Bit("InstallSnapshotResponse", "name") = 1
  /\ Bit("InstallSnapshotResponse", "term") = 2
  /\ Bit("InstallSnapshotResponse", "last_included_index") = 4
  /\ Bit("InstallSnapshotResponse", "last_included_term") = 8
  /\ Bit("InstallSnapshotResponse", "time") = 16
  /\ Bit("InstallSnapshotResponse", "seq") = 32
  /\ Bit("InstallSnapshotResponse", "success") = 64
<1>1. Members("InstallSnapshotResponse")
        = {InstallSnapshotResponseImpl[i] : i \in DOMAIN InstallSnapshotResponseImpl}
  BY IsInstallSnapshotResponse DEF Members, ToSet
<1>2. Members("InstallSnapshotResponse") = {"name", "term", "last_included_index",
                                            "last_included_term", "time", "seq", "success"}
  BY <1>1 DEF InstallSnapshotResponseImpl
<1>3. Mask(Schema["InstallSnapshotResponse"].required) = {1, 2, 4, 8, 16, 32, 64}
  BY IsInstallSnapshotResponse, RequiredMasks DEF InstallSnapshotResponseRequired
<1> QED  BY <1>2, <1>3, TypesAre, IsInstallSnapshotResponse DEF Bit, InstallSnapshotResponseBits

LEMMA GetRequestNeeds ==
  /\ "GetRequest" \in Types
  /\ Members("GetRequest") = {"key", "clerkid", "cmdindex"}
  /\ Mask(Schema["GetRequest"].required) = {1, 2, 4}
  /\ Bit("GetRequest", "key") = 1
  /\ Bit("GetRequest", "clerkid") = 2
  /\ Bit("GetRequest", "cmdindex") = 4
<1>1. Members("GetRequest") = {GetRequestImpl[i] : i \in DOMAIN GetRequestImpl}
  BY IsGetRequest DEF Members, ToSet
<1>2. Members("GetRequest") = {"key", "clerkid", "cmdindex"}
  BY <1>1 DEF GetRequestImpl
<1>3. Mask(Schema["GetRequest"].required) = {1, 2, 4}
  BY IsGetRequest, RequiredMasks DEF GetRequestRequired
<1> QED  BY <1>2, <1>3, TypesAre, IsGetRequest DEF Bit, GetRequestBits

LEMMA GetResponseNeeds ==
  /\ "GetResponse" \in Types
  /\ Members("GetResponse") = {"err", "value", "wrongleader"}
  /\ Mask(Schema["GetResponse"].required) = {1, 2, 4}
  /\ Bit("GetResponse", "err") = 1
  /\ Bit("GetResponse", "value") = 2
  /\ Bit("GetResponse", "wrongleader") = 4
<1>1. Members("GetResponse") = {GetResponseImpl[i] : i \in DOMAIN GetResponseImpl}
  BY IsGetResponse DEF Members, ToSet
<1>2. Members("GetResponse") = {"err", "value", "wrongleader"}
  BY <1>1 DEF GetResponseImpl
<1>3. Mask(Schema["GetResponse"].required) = {1, 2, 4}
  BY IsGetResponse, RequiredMasks DEF GetResponseRequired
<1> QED  BY <1>2, <1>3, TypesAre, IsGetResponse DEF Bit, GetResponseBits

LEMMA PutAppendRequestNeeds ==
  /\ "PutAppendRequest" \in Types
  /\ Members("PutAppendRequest") = {"key", "value", "op", "clerkid", "cmdindex"}
  /\ Mask(Schema["PutAppendRequest"].required) = {1, 2, 4, 8, 16}
  /\ Bit("PutAppendRequest", "key") = 1
  /\ Bit("PutAppendRequest", "value") = 2
  /\ Bit("PutAppendRequest", "op") = 4
  /\ Bit("PutAppendRequest", "clerkid") = 8
  /\ Bit("PutAppendRequest", "cmdindex") = 16
<1>1. Members("PutAppendRequest") = {PutAppendRequestImpl[i] : i \in DOMAIN PutAppendRequestImpl}
  BY IsPutAppendRequest DEF Members, ToSet
<1>2. Members("PutAppendRequest") = {"key", "value", "op", "clerkid", "cmdindex"}
  BY <1>1 DEF PutAppendRequestImpl
<1>3. Mask(Schema["PutAppendRequest"].required) = {1, 2, 4, 8, 16}
  BY IsPutAppendRequest, RequiredMasks DEF PutAppendRequestRequired
<1> QED  BY <1>2, <1>3, TypesAre, IsPutAppendRequest DEF Bit, PutAppendRequestBits

LEMMA PutAppendResponseNeeds ==
  /\ "PutAppendResponse" \in Types
  /\ Members("PutAppendResponse") = {"err", "wrongleader"}
  /\ Mask(Schema["PutAppendResponse"].required) = {1, 2}
  /\ Bit("PutAppendResponse", "err") = 1
  /\ Bit("PutAppendResponse", "wrongleader") = 2
<1>1. Members("PutAppendResponse") = {PutAppendResponseImpl[i] : i \in DOMAIN PutAppendResponseImpl}
  BY IsPutAppendResponse DEF Members, ToSet
<1>2. Members("PutAppendResponse") = {"err", "wrongleader"}
  BY <1>1 DEF PutAppendResponseImpl
<1>3. Mask(Schema["PutAppendResponse"].required) = {1, 2}
  BY IsPutAppendResponse, RequiredMasks DEF PutAppendResponseRequired
<1> QED  BY <1>2, <1>3, TypesAre, IsPutAppendResponse DEF Bit, PutAppendResponseBits

\* What is set by two lists of setters, one behind the other.
LEMMA ToSetConcat ==
  ASSUME NEW a, NEW b, IsSeq(a), IsSeq(b)
  PROVE  ToSet(a \o b) = ToSet(a) \cup ToSet(b)
<1> DEFINE S == ToSet(a) \cup ToSet(b)
           c == a \o b
<1>1. a \in Seq(S) /\ b \in Seq(S) /\ DOMAIN a = 1 .. Len(a) /\ DOMAIN b = 1 .. Len(b)
      /\ Len(a) \in Nat /\ Len(b) \in Nat
  BY DEF IsSeq
<1>2. \A x : x \in ToSet(a) <=> \E i \in 1 .. Len(a) : a[i] = x
  BY <1>1 DEF ToSet
<1>3. \A x : x \in ToSet(b) <=> \E i \in 1 .. Len(b) : b[i] = x
  BY <1>1 DEF ToSet
<1> HIDE DEF S
<1>4. /\ DOMAIN c = 1 .. Len(a) + Len(b)
      /\ \A i \in 1 .. Len(a) + Len(b) : c[i] = IF i <= Len(a) THEN a[i] ELSE b[i - Len(a)]
  BY <1>1, ConcatProperties
<1> HIDE DEF c
<1>5. \A x : x \in ToSet(c) <=> \E i \in 1 .. Len(a) + Len(b) : c[i] = x
  BY <1>4 DEF ToSet
<1>6. ASSUME NEW x \in ToSet(a) PROVE x \in ToSet(c)
  <2>1. PICK i \in 1 .. Len(a) : a[i] = x
    BY <1>2
  <2>2. i \in 1 .. Len(a) + Len(b) /\ c[i] = x
    BY <1>1, <1>4, <2>1
  <2> QED  BY <1>5, <2>2
<1>7. ASSUME NEW x \in ToSet(b) PROVE x \in ToSet(c)
  <2>1. PICK i \in 1 .. Len(b) : b[i] = x
    BY <1>3
  <2>2. i + Len(a) \in 1 .. Len(a) + Len(b) /\ (i + Len(a)) - Len(a) = i /\ ~ (i + Len(a) <= Len(a))
    BY <1>1
  <2>3. c[i + Len(a)] = x
    BY <1>4, <2>1, <2>2
  <2> QED  BY <1>5, <2>2, <2>3
<1>8. ASSUME NEW x \in ToSet(c) PROVE x \in ToSet(a) \/ x \in ToSet(b)
  <2>1. PICK i \in 1 .. Len(a) + Len(b) : c[i] = x
    BY <1>5
  <2>2. CASE i <= Len(a)
    BY <1>1, <1>2, <1>4, <2>1, <2>2
  <2>3. CASE ~ (i <= Len(a))
    <3>1. i - Len(a) \in 1 .. Len(b) /\ b[i - Len(a)] = x
      BY <1>1, <1>4, <2>1, <2>3
    <3> QED  BY <1>3, <3>1
  <2> QED  BY <2>2, <2>3
<1> QED  BY <1>6, <1>7, <1>8 DEF c

\* RequestVote: the request, and the answers that name who answers.
LEMMA VoteRequest == Arrives("RequestVoteRequest", "RequestVoteRequest", RequestVoteArgs)
<1> DEFINE members == <<"initial", "last_log_term", "last_log_index", "name", "seq", "term",
                        "time">>
<1>1. ToSet(members) = {"initial", "last_log_term", "last_log_index", "name", "seq", "term", "time"}
  BY DEF ToSet
<1>2. RequestVoteArgs = Build("RequestVoteRequest", members)
  BY DEF RequestVoteArgs
<1> HIDE DEF members
<1> QED  BY <1>1, <1>2, RequestVoteRequestNeeds, BuiltArrives

\* An answer arrives just if something was set in it.
AnswerRead(T, members) ==
    IF members = <<>> THEN ~ Sent(T, T, Build(T, members)).ok
    ELSE Arrives(T, T, Build(T, members))

\* RequestVote: every answer that says who answers arrives; that of a node that
\* is not running, which says nothing, is refused.
LEMMA VoteAnswer ==
  \A path \in DOMAIN VoteAnswers : AnswerRead("RequestVoteResponse", VoteAnswers[path])
<1> DEFINE T == "RequestVoteResponse"
           a == <<"name", "seq", "time", "term", "vote_granted">>
<1>1. ToSet(a) = {"name", "seq", "time", "term", "vote_granted"} /\ a # <<>>
  BY DEF ToSet
<1>2. \A path \in DOMAIN VoteAnswers : VoteAnswers[path] = <<>> \/ VoteAnswers[path] = a
  BY DEF VoteAnswers
<1> HIDE DEF a
<1>3. Arrives(T, T, Build(T, a))
  BY <1>1, RequestVoteResponseNeeds, BuiltArrives
<1>4. ~ Sent(T, T, Build(T, <<>>)).ok
  BY RequestVoteResponseNeeds, NothingArrives
<1>5. AnswerRead(T, a) /\ AnswerRead(T, <<>>)
  BY <1>1, <1>3, <1>4 DEF AnswerRead
<1> QED  BY <1>2, <1>5

\* AppendEntries: whatever the handler appended, all members are set.
LEMMA AppendAnswer ==
  \A path \in DOMAIN AppendAnswers : AnswerRead("AppendEntriesResponse", AppendAnswers[path])
<1> DEFINE T == "AppendEntriesResponse"
           a == <<"name", "success", "seq", "term", "last_log_index", "last_log_term", "time">>
           b == <<"success", "last_log_index", "last_log_term">>
<1>1. /\ ToSet(a) = {"name", "success", "seq", "term", "last_log_index", "last_log_term", "time"}
      /\ ToSet(b) = {"success", "last_log_index", "last_log_term"} /\ a # <<>>
  BY DEF ToSet
<1>2. IsSeq(a) /\ IsSeq(b)
  <2>1. a \in Seq({"name", "success", "seq", "term", "last_log_index", "last_log_term", "time"})
        /\ b \in Seq({"success", "last_log_index", "last_log_term"})
    OBVIOUS
  <2> QED  BY <1>1, <2>1 DEF IsSeq
<1>3. \A path \in DOMAIN AppendAnswers : AppendAnswers[path] = a \/ AppendAnswers[path] = a \o b
  BY DEF AppendAnswers
<1> HIDE DEF a, b
<1>4. ToSet(a \o b) = ToSet(a)
  BY <1>1, <1>2, ToSetConcat
<1>5. a \o b # <<>>
  BY <1>1, <1>2, ConcatEmpty
<1>6. \A c : ToSet(c) = ToSet(a) => Arrives(T, T, Build(T, c))
  BY <1>1, AppendEntriesResponseNeeds, BuiltArrives
<1>7. AnswerRead(T, a) /\ AnswerRead(T, a \o b)
  BY <1>1, <1>4, <1>5, <1>6 DEF AnswerRead
<1> QED  BY <1>3, <1>7

\* InstallSnapshot's handler sets nothing.
LEMMA SnapshotAnswer ==
  \A path \in DOMAIN SnapshotAnswers : AnswerRead("InstallSnapshotResponse", SnapshotAnswers[path])
<1>1. \A path \in DOMAIN SnapshotAnswers : SnapshotAnswers[path] = <<>>
  BY DEF SnapshotAnswers
<1>2. AnswerRead("InstallSnapshotResponse", <<>>)
  BY InstallSnapshotResponseNeeds, NothingArrives DEF AnswerRead
<1> QED  BY <1>1, <1>2

\* The client's two calls.
LEMMA ClientRequests ==
  /\ Arrives("GetRequest", "GetRequest", GetArgs)
  /\ Arrives("PutAppendRequest", "PutAppendRequest", PutArgs)
<1> DEFINE a == <<"key", "clerkid", "cmdindex">>
           b == <<"key", "value", "op", "clerkid", "cmdindex">>
<1>1. ToSet(a) = {"key", "clerkid", "cmdindex"}
        /\ ToSet(b) = {"key", "value", "op", "clerkid", "cmdindex"}
  BY DEF ToSet
<1>2. GetArgs = Build("GetRequest", a) /\ PutArgs = Build("PutAppendRequest", b)
  BY DEF GetArgs, PutArgs
<1> HIDE DEF a, b
<1>3. Arrives("GetRequest", "GetRequest", GetArgs)
  BY <1>1, <1>2, GetRequestNeeds, BuiltArrives
<1>4. Arrives("PutAppendRequest", "PutAppendRequest", PutArgs)
  BY <1>1, <1>2, PutAppendRequestNeeds, BuiltArrives
<1> QED  BY <1>3, <1>4

\* Get: every path sets all three members.
LEMMA GetAnswer == \A path \in DOMAIN GetAnswers : AnswerRead("GetResponse", GetAnswers[path])
<1> DEFINE a == <<"err", "value", "wrongleader">>
<1>1. ToSet(a) = {"err", "value", "wrongleader"} /\ a # <<>>
  BY DEF ToSet
<1>2. \A path \in DOMAIN GetAnswers : GetAnswers[path] = a
  BY DEF GetAnswers
<1> HIDE DEF a
<1>3. Arrives("GetResponse", "GetResponse", Build("GetResponse", a))
  BY <1>1, GetResponseNeeds, BuiltArrives
<1> QED  BY <1>1, <1>2, <1>3 DEF AnswerRead

\* PutAppend: both paths set both.
LEMMA PutAnswer == \A path \in DOMAIN PutAnswers : AnswerRead("PutAppendResponse", PutAnswers[path])
<1> DEFINE a == <<"err", "wrongleader">>
           b == <<"wrongleader", "err">>
<1>1. /\ ToSet(a) = {"err", "wrongleader"} /\ a # <<>>
      /\ ToSet(b) = {"err", "wrongleader"} /\ b # <<>>
  BY DEF ToSet
<1>2. \A path \in DOMAIN PutAnswers : PutAnswers[path] = a \/ PutAnswers[path] = b
  BY DEF PutAnswers
<1> HIDE DEF a, b
<1>3. \A c : ToSet(c) = {"err", "wrongleader"} =>
        Arrives("PutAppendResponse", "PutAppendResponse", Build("PutAppendResponse", c))
  BY PutAppendResponseNeeds, BuiltArrives
<1> QED  BY <1>1, <1>2, <1>3 DEF AnswerRead

\* AppendEntries: the request arrives whatever entries it carries, and is refused
\* if one of them lacks a required member.
THEOREM EntriesArrive ==
  ASSUME NEW entries, IsLog(entries)
  PROVE  LET T == "AppendEntriesRequest"
             m == AppendEntriesArgs(entries)
         IN  /\ IF \A i \in DOMAIN entries : Complete("LogEntry", entries[i])
                THEN Arrives(T, T, m) ELSE ~ Sent(T, T, m).ok
             /\ m.mem["entries"] = entries
<1> DEFINE T == "AppendEntriesRequest"
           members == <<"name", "term", "leader_commit", "time", "prev_log_index",
                        "prev_log_term", "seq", "initial">>
           p == Build(T, members)
           m == [p EXCEPT !.mem["entries"] = entries]
           value(f) == IF f = "entries" THEN entries ELSE p.mem[f]
<1>1. ToSet(members) = {"name", "term", "leader_commit", "time", "prev_log_index",
                        "prev_log_term", "seq", "initial"}
  BY DEF ToSet
<1>2. AppendEntriesArgs(entries) = m
  BY DEF AppendEntriesArgs, WithEntries
<1> HIDE DEF members
<1>3. Proper(T, p) /\ p.has = {Bit(T, f) : f \in ToSet(members)}
  BY <1>1, AppendEntriesRequestNeeds, BuiltProper
<1>4. p = [has |-> p.has, mem |-> [f \in Members(T) |-> p.mem[f]]]
  BY <1>3 DEF Proper, FlatProper
<1> HIDE DEF p
<1>5. m = [has |-> p.has, mem |-> [f \in Members(T) |-> value(f)]]
  <2>1. p.mem = [f \in Members(T) |-> p.mem[f]]
    BY <1>4
  <2>2. [p.mem EXCEPT !["entries"] = entries] = [f \in Members(T) |-> value(f)]
    BY <2>1
  <2>3. m = [has |-> p.has, mem |-> [p.mem EXCEPT !["entries"] = entries]]
    BY <1>4
  <2> QED  BY <2>2, <2>3
<1> HIDE DEF m
<1>6. m.has = p.has /\ (\A f \in Members(T) : m.mem[f] = value(f)) /\ "entries" \in Members(T)
  BY <1>5, AppendEntriesRequestNeeds
<1>7. m = [has |-> m.has, mem |-> [f \in Members(T) |-> m.mem[f]]]
  BY <1>5
<1>8. m.mem["entries"] = entries
  BY <1>6
<1>9. FlatProper(T, m)
  BY <1>3, <1>6, <1>7 DEF Proper, FlatProper
<1>10. Proper(T, m)
  BY <1>8, <1>9, AppendEntriesRequestNeeds DEF Proper, IsLog
<1>11. Complete(T, m)
  BY <1>1, <1>3, <1>6, AppendEntriesRequestNeeds DEF Complete
<1>12. IsInitialized(T, m) <=> \A i \in DOMAIN entries : Complete("LogEntry", entries[i])
  BY <1>6, <1>8, <1>11, AppendEntriesRequestNeeds DEF IsInitialized
<1>13. Sent(T, T, m) = [msg |-> m, ok |-> IsInitialized(T, m)]
  BY <1>10, AppendEntriesRequestNeeds, SentIs
<1>14. IsInitialized(T, m) => Arrives(T, T, m)
  <2> SUFFICES ASSUME IsInitialized(T, m) PROVE Sent(T, T, m) = [msg |-> m, ok |-> TRUE]
    BY DEF Arrives
  <2> QED  BY <1>13
<1>15. ~ IsInitialized(T, m) => ~ Sent(T, T, m).ok
  BY <1>13
<1> QED  BY <1>2, <1>8, <1>12, <1>14, <1>15

\* An entry of DoLog has the required members, that of no index has none.
LEMMA TwoEntries ==
  /\ FlatProper("LogEntry", LoggedEntry) /\ Complete("LogEntry", LoggedEntry)
  /\ FlatProper("LogEntry", NoEntry) /\ ~ Complete("LogEntry", NoEntry)
<1> DEFINE T == "LogEntry"
           members == <<"data", "command", "term", "index">>
<1>1. ToSet(members) = {"data", "command", "term", "index"}
  BY DEF ToSet
<1>2. LoggedEntry = Build(T, members)
  BY DEF LoggedEntry
<1> HIDE DEF members
<1>3. Proper(T, LoggedEntry) /\ LoggedEntry.has = {Bit(T, f) : f \in ToSet(members)}
  BY <1>1, <1>2, LogEntryNeeds, BuiltProper
<1>4. Complete(T, LoggedEntry)
  BY <1>1, <1>3, LogEntryNeeds DEF Complete
<1>5. Proper(T, NoEntry) /\ NoEntry.has = {}
  BY LogEntryNeeds, AllWellFormed, NewProper DEF NoEntry, New
<1>6. ~ Complete(T, NoEntry)
  BY <1>5, LogEntryNeeds DEF Complete
<1> QED  BY <1>3, <1>4, <1>5, <1>6 DEF Proper

\* AppendEntries: the requests of DoAppendEntries are refused just if they hold
\* the entry of no index.
LEMMA AppendRequest ==
  \A m \in Requests["AppendEntries"] :
     IF NoEntry \in ToSet(m.mem.entries)
     THEN ~ Sent("AppendEntriesRequest", "AppendEntriesRequest", m).ok
     ELSE Arrives("AppendEntriesRequest", "AppendEntriesRequest", m)
<1> DEFINE T == "AppendEntriesRequest"
           lists == {<<>>, <<LoggedEntry>>, <<LoggedEntry, LoggedEntry>>, <<LoggedEntry, NoEntry>>}
<1> SUFFICES ASSUME NEW entries \in lists
             PROVE  LET m == AppendEntriesArgs(entries)
                    IN  IF NoEntry \in ToSet(m.mem.entries) THEN ~ Sent(T, T, m).ok
                        ELSE Arrives(T, T, m)
  BY DEF Requests
<1>1. entries \in Seq({LoggedEntry, NoEntry})
  <2> DEFINE S == {LoggedEntry, NoEntry}
             x == LoggedEntry
             y == NoEntry
  <2>1. x \in S /\ y \in S
    OBVIOUS
  <2> HIDE DEF S, x, y
  <2>2. <<>> \in Seq(S) /\ <<x>> \in Seq(S) /\ <<x, x>> \in Seq(S) /\ <<x, y>> \in Seq(S)
    BY <2>1
  <2> QED  BY <2>2 DEF S, x, y
<1>2. IsSeq(entries) /\ \A i \in DOMAIN entries : entries[i] \in {LoggedEntry, NoEntry}
  BY <1>1, SeqOwnRange
<1>3. IsLog(entries)
  BY <1>2, TwoEntries DEF IsLog
<1> HIDE DEF lists
<1>4. \A x : x \in ToSet(entries) <=> \E i \in DOMAIN entries : entries[i] = x
  BY DEF ToSet
<1>5. NoEntry \in ToSet(entries) <=> ~ \A i \in DOMAIN entries : Complete("LogEntry", entries[i])
  BY <1>2, <1>4, TwoEntries
<1> DEFINE m == AppendEntriesArgs(entries)
<1>6. /\ IF NoEntry \notin ToSet(entries) THEN Arrives(T, T, m) ELSE ~ Sent(T, T, m).ok
      /\ m.mem.entries = entries
  BY <1>3, <1>5, EntriesArrive
<1> HIDE DEF m
<1> QED  BY <1>6 DEF m

\* Both services register the handler of a method under the index its stub calls,
\* and every message is understood but the three that lack required members.
THEOREM BothEndsAgree == CallsUnderstood
<1>1. Understood(RaftMessagesStub, RaftMessagesService)
  <2> DEFINE stub == RaftMessagesStub
             service == RaftMessagesService
  <2>1. /\ DOMAIN stub = {"RequestVote", "AppendEntries", "InstallSnapshot"}
        /\ stub["RequestVote"] = <<0, "RequestVoteRequest", "RequestVoteResponse">>
        /\ stub["AppendEntries"] = <<1, "AppendEntriesRequest", "AppendEntriesResponse">>
        /\ stub["InstallSnapshot"] = <<2, "InstallSnapshotRequest", "InstallSnapshotResponse">>
    BY DEF RaftMessagesStub
  <2>2. /\ service[1] = <<"RequestVote", "RequestVoteRequest", "RequestVoteResponse">>
        /\ service[2] = <<"AppendEntries", "AppendEntriesRequest", "AppendEntriesResponse">>
        /\ service[3] = <<"InstallSnapshot", "InstallSnapshotRequest", "InstallSnapshotResponse">>
    BY DEF RaftMessagesService
  <2>3. /\ Requests["RequestVote"] = {RequestVoteArgs} /\ Requests["InstallSnapshot"] = {}
        /\ Answers["RequestVote"] = VoteAnswers /\ Answers["AppendEntries"] = AppendAnswers
        /\ Answers["InstallSnapshot"] = SnapshotAnswers
    BY DEF Requests, Answers
  <2>4. "entries" \notin Members("RequestVoteRequest")
          /\ "entries" \in Members("AppendEntriesRequest")
    BY RequestVoteRequestNeeds, AppendEntriesRequestNeeds
  <2> HIDE DEF stub, service
  <2>5. Understood(stub, service)
    BY <2>1, <2>2, <2>3, <2>4, VoteRequest, VoteAnswer, AppendRequest, AppendAnswer, SnapshotAnswer
       DEF Understood, AnswerRead
  <2> QED  BY <2>5 DEF stub, service
<1>2. Understood(kvserverStub, kvserverService)
  <2> DEFINE stub == kvserverStub
             service == kvserverService
  <2>1. /\ DOMAIN stub = {"Get", "PutAppend"}
        /\ stub["Get"] = <<0, "GetRequest", "GetResponse">>
        /\ stub["PutAppend"] = <<1, "PutAppendRequest", "PutAppendResponse">>
    BY DEF kvserverStub
  <2>2. /\ service[1] = <<"Get", "GetRequest", "GetResponse">>
        /\ service[2] = <<"PutAppend", "PutAppendRequest", "PutAppendResponse">>
    BY DEF kvserverService
  <2>3. /\ Requests["Get"] = {GetArgs} /\ Requests["PutAppend"] = {PutArgs}
        /\ Answers["Get"] = GetAnswers /\ Answers["PutAppend"] = PutAnswers
    BY DEF Requests, Answers
  <2>4. "entries" \notin Members("GetRequest") /\ "entries" \notin Members("PutAppendRequest")
    BY GetRequestNeeds, PutAppendRequestNeeds
  <2> HIDE DEF stub, service
  <2>5. Understood(stub, service)
    BY <2>1, <2>2, <2>3, <2>4, ClientRequests, GetAnswer, PutAnswer DEF Understood, AnswerRead
  <2> QED  BY <2>5 DEF stub, service
<1>3. DOMAIN Ends = {1, 2}
  BY DEF Ends
<1>4. /\ Ends[1].stub = RaftMessagesStub /\ Ends[1].service = RaftMessagesService
      /\ Ends[2].stub = kvserverStub /\ Ends[2].service = kvserverService
  BY DEF Ends
<1>5. \A i \in {1, 2} : Understood(Ends[i].stub, Ends[i].service)
  BY <1>1, <1>2, <1>4
<1> QED  BY <1>3, <1>5 DEF CallsUnderstood

\* So in every state.
THEOREM CallsAreUnderstood == Spec => []MessagesUnderstood
<1>1. MessagesUnderstood
  BY BothEndsAgree DEF MessagesUnderstood
<1> QED  BY <1>1, PTL
=============================================================================
