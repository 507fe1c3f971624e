----------------------------- MODULE CommandProofs -----------------------------
(***************************************************************************)
(* Proofs about the command and about the frames that carry its results.   *)
(*                                                                         *)
(* The frames come first: by induction over their number, what was framed  *)
(* is what is read, whatever stands behind it, and what was read was       *)
(* framed.  V is any alphabet that has the numbers.  Then the invariant of *)
(* the command, from which its properties follow, and last the policy.     *)
(***************************************************************************)
EXTENDS Command, SequenceTheorems, FiniteSetTheorems, DataInduction

(* Sequences                                                               *)

\* No element comes twice.
Distinct(s) == \A i, j \in 1..Len(s) : s[i] = s[j] => i = j

\* A function over 1..n is a sequence.
LEMMA FunctionIsSeq ==
  ASSUME NEW S, NEW n \in Nat, NEW f \in [1..n -> S]
  PROVE  f \in Seq(S) /\ Len(f) = n
OBVIOUS

\* A sequence is a function over its places.
LEMMA SeqIsFunction ==
  ASSUME NEW S, NEW s \in Seq(S)
  PROVE  /\ Len(s) \in Nat /\ ToSet(s) = {s[k] : k \in 1..Len(s)}
         /\ s \in [1..Len(s) -> ToSet(s)] /\ DOMAIN s = 1..Len(s)
BY LenProperties DEF ToSet

\* There are n places in a sequence of n elements.
LEMMA IntervalSize ==
  ASSUME NEW n \in Nat
  PROVE  IsFiniteSet(1..n) /\ Cardinality(1..n) = n
BY FS_Interval

\* Sequences of none, one and two elements.
LEMMA SmallSequences ==
  ASSUME NEW S, NEW a \in S, NEW b \in S
  PROVE  <<>> \in Seq(S) /\ <<a>> \in Seq(S) /\ <<a, b>> \in Seq(S)
OBVIOUS

\* Appending adds one element, and keeps the elements distinct if it is new.
LEMMA AppendToSet ==
  ASSUME NEW S, NEW s \in Seq(S), NEW x \in S
  PROVE  /\ ToSet(Append(s, x)) = ToSet(s) \cup {x}
         /\ x \notin ToSet(s) /\ Distinct(s) => Distinct(Append(s, x))
<1> DEFINE longer == Append(s, x)
           n == Len(s)
<1>1. /\ n \in Nat /\ longer \in Seq(S) /\ Len(longer) = n + 1
      /\ (\A i \in 1..n : longer[i] = s[i]) /\ longer[n + 1] = x
  OBVIOUS
<1> HIDE DEF longer
<1>2. ToSet(s) = {s[k] : k \in 1..n}
  BY SeqIsFunction
<1>3. ToSet(longer) = {longer[k] : k \in 1..n + 1}
  BY <1>1, SeqIsFunction
<1> HIDE DEF n
<1>4. ToSet(longer) = ToSet(s) \cup {x}
  <2>1. ASSUME NEW y \in ToSet(longer) PROVE y \in ToSet(s) \cup {x}
    BY <1>1, <1>2, <1>3
  <2>2. ASSUME NEW y \in ToSet(s) PROVE y \in ToSet(longer)
    BY <1>1, <1>2, <1>3
  <2>3. x \in ToSet(longer)
    BY <1>1, <1>3
  <2> QED
    BY <2>1, <2>2, <2>3
<1>5. ASSUME x \notin ToSet(s), Distinct(s) PROVE Distinct(longer)
  <2> SUFFICES ASSUME NEW i \in 1..n + 1, NEW j \in 1..n + 1, longer[i] = longer[j] PROVE i = j
    BY <1>1 DEF Distinct
  <2>1. CASE i \in 1..n /\ j \in 1..n
    BY <1>1, <1>5, <2>1 DEF Distinct, n
  <2>2. CASE i = n + 1 /\ j \in 1..n
    BY <1>1, <1>2, <1>5, <2>2
  <2>3. CASE j = n + 1 /\ i \in 1..n
    BY <1>1, <1>2, <1>5, <2>3
  <2> QED
    BY <1>1, <2>1, <2>2, <2>3
<1> QED
  BY <1>4, <1>5 DEF longer

\* The empty sequence has no elements.
LEMMA NothingDistinct == ToSet(<<>>) = {} /\ Distinct(<<>>)
BY DEF ToSet, Distinct

\* The last element is an element.
LEMMA LastOfLines ==
  ASSUME NEW S, NEW s \in Seq(S), s # <<>>
  PROVE  Last(s) \in ToSet(s) /\ Last(s) \in S
<1>1. Len(s) \in 1..Len(s)
  OBVIOUS
<1>2. Last(s) = s[Len(s)]
  BY DEF Last
<1> QED
  BY <1>1, <1>2, SeqIsFunction

\* A finite set as a sequence.
LEMMA SetAsSequence ==
  ASSUME NEW S, IsFiniteSet(S)
  PROVE  SetToSeq(S) \in Seq(S) /\ Distinct(SetToSeq(S)) /\ ToSet(SetToSeq(S)) = S
<1> DEFINE n == Cardinality(S)
           s == SetToSeq(S)
<1>1. n \in Nat /\ ExistsBijection(1..n, S)
  BY FS_CardinalityType
<1>2. PICK f \in [1..n -> S] : IsInjective(f)
  BY <1>1 DEF ExistsBijection, Bijection, Injection
<1>3. s \in [1..n -> S] /\ IsInjective(s)
  BY <1>2 DEF SetToSeq
<1> HIDE DEF s
<1>4. s \in Injection(1..n, S)
  BY <1>3 DEF Injection
<1>5. Cardinality(1..n) = n
  BY <1>1, IntervalSize
<1>6. s \in Surjection(1..n, S)
  BY <1>4, <1>5, FS_Injection
<1> HIDE DEF n
<1>7. s \in Seq(S) /\ Len(s) = n /\ DOMAIN s = 1..n
  BY <1>1, <1>3, FunctionIsSeq
<1>8. Distinct(s)
  BY <1>3, <1>7 DEF Distinct, IsInjective
<1>9. ToSet(s) = S
  BY <1>3, <1>6, <1>7 DEF Surjection, ToSet
<1> QED
  BY <1>7, <1>8, <1>9 DEF s

\* Two parts of a sequence that adjoin are one part.
Adjoin(s, m, k, n) == SubSeq(s, m, k) \o SubSeq(s, k + 1, n) = SubSeq(s, m, n)

\* Parts that adjoin do.
LEMMA Adjoining ==
  ASSUME NEW V, NEW s \in Seq(V),
         NEW m \in 1..Len(s) + 1, NEW k \in m - 1..Len(s), NEW n \in k..Len(s)
  PROVE  Adjoin(s, m, k, n)
BY ConcatAdjacentSubSeq DEF Adjoin

-----------------------------------------------------------------------------
(* Frames                                                                  *)

\* The frame of a text: its length, and then the text.
Frame(text) == <<Len(text)>> \o text

\* What a frame contains.
LEMMA FrameType ==
  ASSUME NEW V, Nat \subseteq V, NEW t \in Seq(V)
  PROVE  /\ Frame(t) \in Seq(V)
         /\ Len(Frame(t)) = Len(t) + 1
         /\ Frame(t)[1] = Len(t)
         /\ \A i \in 1..Len(t) : Frame(t)[i + 1] = t[i]
BY DEF Frame

\* appendFramedString appends a frame.
LEMMA Appends ==
  ASSUME NEW V, Nat \subseteq V, NEW t \in Seq(V), NEW p \in Seq(V)
  PROVE  appendFramedString(p, t) = p \o Frame(t) /\ appendFramedString(p, t) \in Seq(V)
<1>1. Len(t) \in V /\ <<Len(t)>> \in Seq(V)
  OBVIOUS
<1>2. (p \o <<Len(t)>>) \o t = p \o (<<Len(t)>> \o t)
  BY <1>1, ConcatAssociative
<1> QED
  BY <1>1, <1>2 DEF appendFramedString, Frame

\* A frame that is there is read, and nothing more.
LEMMA ReadsFrame ==
  ASSUME NEW V, Nat \subseteq V, NEW t \in Seq(V), NEW z \in Seq(V), NEW texts \in Seq(Seq(V)),
         NEW read, read = [ok |-> TRUE, texts |-> texts, rest |-> Frame(t) \o z]
  PROVE  consumeBytes(read) = [ok |-> TRUE, texts |-> Append(texts, t), rest |-> z]
<1> DEFINE frame == Frame(t)
           rest == frame \o z
<1>a. /\ frame \in Seq(V) /\ Len(frame) = Len(t) + 1 /\ frame[1] = Len(t)
      /\ \A i \in 1..Len(t) : frame[i + 1] = t[i]
  BY FrameType
<1>b. Len(t) \in Nat /\ Len(z) \in Nat
  OBVIOUS
<1> HIDE DEF frame
<1>e. /\ frame \o z \in Seq(V) /\ Len(frame \o z) = Len(frame) + Len(z)
      /\ \A i \in 1..Len(frame) + Len(z) :
            (frame \o z)[i] = IF i <= Len(frame) THEN frame[i] ELSE z[i - Len(frame)]
  <2>1. frame \in Seq(V) /\ z \in Seq(V)
    BY <1>a
  <2> HIDE DEF rest
  <2> QED
    BY <2>1, ConcatProperties
<1>c. /\ rest \in Seq(V) /\ Len(rest) = Len(frame) + Len(z)
      /\ \A i \in 1..Len(frame) + Len(z) :
            rest[i] = IF i <= Len(frame) THEN frame[i] ELSE z[i - Len(frame)]
  BY <1>e, Zenon
<1> HIDE DEF rest
<1>1. Len(rest) = 1 + Len(t) + Len(z) /\ rest[1] = Len(t)
  BY <1>a, <1>b, <1>c
<1>d. Head(rest) = Len(t) /\ rest # <<>>
  BY <1>1, <1>b, <1>c
<1>2. \A i \in 1..Len(t) : rest[1 + i] = t[i]
  <2> TAKE i \in 1..Len(t)
  <2>1. 1 + i \in 1..Len(frame) + Len(z) /\ 1 + i <= Len(frame) /\ 1 + i = i + 1
    BY <1>a, <1>b
  <2> QED
    BY <2>1, <1>a, <1>c
<1>3. \A i \in 1..Len(z) : rest[1 + Len(t) + i] = z[i]
  <2> TAKE i \in 1..Len(z)
  <2>1. /\ 1 + Len(t) + i \in 1..Len(frame) + Len(z) /\ ~ (1 + Len(t) + i <= Len(frame))
        /\ (1 + Len(t) + i) - Len(frame) = i
    BY <1>a, <1>b
  <2> QED
    BY <2>1, <1>a, <1>c
<1>4. SubSeq(rest, 2, 1 + Len(t)) = t
  <2>1. SubSeq(rest, 2, 1 + Len(t)) \in Seq(V) /\ Len(SubSeq(rest, 2, 1 + Len(t))) = Len(t)
    BY <1>1, <1>b, <1>c
  <2>2. \A i \in 1..Len(t) : SubSeq(rest, 2, 1 + Len(t))[i] = t[i]
    BY <1>1, <1>2, <1>b, <1>c
  <2> QED
    BY <2>1, <2>2, SeqEqual
<1>5. SubSeq(rest, 2 + Len(t), Len(rest)) = z
  <2>1. /\ SubSeq(rest, 2 + Len(t), Len(rest)) \in Seq(V)
        /\ Len(SubSeq(rest, 2 + Len(t), Len(rest))) = Len(z)
    BY <1>1, <1>b, <1>c
  <2>2. \A i \in 1..Len(z) : SubSeq(rest, 2 + Len(t), Len(rest))[i] = z[i]
    BY <1>1, <1>3, <1>b, <1>c
  <2> QED
    BY <2>1, <2>2, SeqEqual
<1>6. read.ok = TRUE /\ read.texts = texts /\ read.rest = rest
  BY DEF rest, frame
<1>7. Head(rest) \in 0..Len(rest) - 1
  BY <1>1, <1>b, <1>d
<1> QED
  BY <1>1, <1>4, <1>5, <1>6, <1>7, <1>d DEF consumeBytes

\* The states of a reader.
States(V) == [ok : BOOLEAN, texts : Seq(Seq(V)), rest : Seq(V)]

\* A frame that was read was there, and is a text; what cannot be read changes nothing.
LEMMA FrameRead ==
  ASSUME NEW V, Nat \subseteq V, NEW read \in States(V)
  PROVE  /\ consumeBytes(read) \in States(V)
         /\ consumeBytes(read).ok =>
               /\ read.ok
               /\ \E t \in Seq(V) : /\ consumeBytes(read).texts = Append(read.texts, t)
                                    /\ read.rest = Frame(t) \o consumeBytes(read).rest
<1> DEFINE rest == read.rest
           length == Head(rest)
           t == SubSeq(rest, 2, 1 + length)
           z == SubSeq(rest, 2 + length, Len(rest))
<1>1. CASE ~read.ok \/ rest = <<>> \/ length \notin 0..Len(rest) - 1
  BY <1>1 DEF consumeBytes, States
<1>2. CASE read.ok /\ rest # <<>> /\ length \in 0..Len(rest) - 1
  <2>1. /\ consumeBytes(read) = [ok |-> TRUE, texts |-> Append(read.texts, t), rest |-> z]
        /\ rest \in Seq(V) /\ Len(rest) \in Nat /\ length \in Nat /\ length < Len(rest)
        /\ rest[1] = length
    BY <1>2 DEF consumeBytes, States
  <2> HIDE DEF rest, length
  <2>2. t \in Seq(V) /\ Len(t) = length /\ \A i \in 1..length : t[i] = rest[i + 1]
    BY <2>1
  <2>3. /\ z \in Seq(V) /\ Len(z) = Len(rest) - 1 - length
        /\ \A i \in 1..Len(z) : z[i] = rest[1 + length + i]
    BY <2>1
  <2> HIDE DEF t, z
  <2>4. rest = Frame(t) \o z
    <3> DEFINE frame == Frame(t)
    <3>a. /\ frame \in Seq(V) /\ Len(frame) = length + 1 /\ frame[1] = length
          /\ \A i \in 1..length : frame[i + 1] = t[i]
      BY <2>2, FrameType
    <3> HIDE DEF frame
    <3>c. /\ frame \o z \in Seq(V) /\ Len(frame \o z) = Len(frame) + Len(z)
          /\ \A i \in 1..Len(frame) + Len(z) :
                (frame \o z)[i] = IF i <= Len(frame) THEN frame[i] ELSE z[i - Len(frame)]
      BY <2>3, <3>a, ConcatProperties
    <3>1. Len(frame \o z) = Len(rest)
      BY <2>1, <2>3, <3>a, <3>c
    <3>2. \A i \in 1..Len(rest) : (frame \o z)[i] = rest[i]
      <4> TAKE i \in 1..Len(rest)
      <4>0. (frame \o z)[i] = IF i <= Len(frame) THEN frame[i] ELSE z[i - Len(frame)]
        BY <3>c, <3>1
      <4>1. CASE i = 1
        BY <2>1, <3>a, <4>0, <4>1
      <4>2. CASE i \in 2..1 + length
        <5>1. i - 1 \in 1..length /\ (i - 1) + 1 = i /\ i <= Len(frame)
          BY <2>1, <3>a, <4>2
        <5>2. frame[i] = t[i - 1] /\ t[i - 1] = rest[i]
          BY <2>2, <3>a, <5>1
        <5> QED
          BY <4>0, <5>1, <5>2
      <4>3. CASE i > 1 + length
        <5>1. /\ i - Len(frame) \in 1..Len(z) /\ 1 + length + (i - Len(frame)) = i
              /\ ~ (i <= Len(frame))
          BY <2>1, <2>3, <3>a, <4>3
        <5> QED
          BY <2>3, <4>0, <5>1
      <4>4. i = 1 \/ i \in 2..1 + length \/ i > 1 + length
        BY <2>1
      <4> QED
        BY <4>1, <4>2, <4>3, <4>4, Zenon
    <3>3. frame \o z = rest
      BY <2>1, <3>c, <3>1, <3>2, SeqEqual
    <3> QED
      BY <3>3 DEF frame
  <2>5. Append(read.texts, t) \in Seq(Seq(V))
    BY <2>2 DEF States
  <2>6. consumeBytes(read).texts = Append(read.texts, t) /\ consumeBytes(read).rest = z
    BY <2>1
  <2>7. consumeBytes(read) \in States(V)
    BY <2>1, <2>3, <2>5 DEF States
  <2>8. read.rest = Frame(t) \o consumeBytes(read).rest
    BY <2>4, <2>6 DEF rest
  <2> QED
    BY <1>2, <2>2, <2>6, <2>7, <2>8
<1> QED
  BY <1>1, <1>2

\* The frames before the k-th, for every k.
LEMMA FramedByText ==
  ASSUME NEW V, Nat \subseteq V, NEW texts \in Seq(Seq(V))
  PROVE  \E f \in [0..Len(texts) -> Seq(V)] :
            /\ f[0] = <<>>
            /\ \A i \in 1..Len(texts) : f[i] = f[i - 1] \o Frame(texts[i])
            /\ Framed(texts) = f[Len(texts)]
<1> DEFINE n == Len(texts)
           step == [i \in 1..n |-> [p \in Seq(V) |-> p \o Frame(texts[i])]]
           Frames(f) == f = [i \in 0..n |-> IF i = 0 THEN <<>>
                                           ELSE appendFramedString(f[i - 1], texts[i])]
<1>1. n \in Nat /\ <<>> \in Seq(V)
  OBVIOUS
<1>2. \A i \in 1..n : texts[i] \in Seq(V) /\ Frame(texts[i]) \in Seq(V)
  BY FrameType
<1>3. ASSUME NEW i \in 1..n, NEW p \in Seq(V)
      PROVE  /\ p \o Frame(texts[i]) \in Seq(V)
             /\ appendFramedString(p, texts[i]) = p \o Frame(texts[i])
  BY <1>2, Appends, ConcatProperties
<1>4. step \in [1..n -> [Seq(V) -> Seq(V)]]
  BY <1>3
<1>5. \A i \in 1..n, p \in Seq(V) : step[i][p] = p \o Frame(texts[i])
  OBVIOUS
<1>6. Framed(texts) = (CHOOSE f : Frames(f))[n]
  BY Zenon DEF Framed
<1> HIDE DEF n, step
<1>7. PICK f \in [0..n -> Seq(V)] : Iterates(f, n, <<>>, step)
  BY <1>1, <1>4, Iteration
<1>8. f[0] = <<>> /\ \A i \in 1..n : f[i - 1] \in Seq(V) /\ f[i] = step[i][f[i - 1]]
  BY <1>1, <1>7 DEF Iterates
<1>9. \A i \in 1..n : f[i] = f[i - 1] \o Frame(texts[i])
  BY <1>5, <1>8
<1>10. \A i \in 1..n : f[i] = appendFramedString(f[i - 1], texts[i])
  BY <1>3, <1>8, <1>9
<1>11. Frames(f)
  <2>1. f = [i \in 0..n |-> f[i]]
    OBVIOUS
  <2>2. ASSUME NEW i \in 0..n
        PROVE  f[i] = IF i = 0 THEN <<>> ELSE appendFramedString(f[i - 1], texts[i])
    BY <1>1, <1>8, <1>10
  <2> QED
    BY <2>1, <2>2
<1> DEFINE g == CHOOSE h : Frames(h)
<1>12. Frames(g)
  BY <1>11
<1> HIDE DEF g
<1>13. g[0] = <<>> /\ \A i \in 1..n : g[i] = appendFramedString(g[i - 1], texts[i])
  BY <1>1, <1>12
<1>14. GoOnAlike(f, g, n)
  BY <1>8, <1>10, <1>13 DEF GoOnAlike
<1>15. Alike(f, g, n)
  BY <1>1, <1>14, OneIteration
<1>16. Framed(texts) = f[n]
  BY <1>1, <1>6, <1>15 DEF g, Alike
<1> QED
  BY <1>8, <1>9, <1>16 DEF n

\* One text more is one frame more.
LEMMA FramedAppend ==
  ASSUME NEW V, Nat \subseteq V, NEW texts \in Seq(Seq(V)), NEW t \in Seq(V)
  PROVE  Framed(Append(texts, t)) = Framed(texts) \o Frame(t)
<1> DEFINE n == Len(texts)
           longer == Append(texts, t)
<1>1. n \in Nat /\ longer \in Seq(Seq(V)) /\ Len(longer) = n + 1
  OBVIOUS
<1>2. \A i \in 1..n : longer[i] = texts[i]
  OBVIOUS
<1>3. longer[n + 1] = t
  OBVIOUS
<1>4. PICK f \in [0..Len(texts) -> Seq(V)] :
         /\ f[0] = <<>>
         /\ \A i \in 1..Len(texts) : f[i] = f[i - 1] \o Frame(texts[i])
         /\ Framed(texts) = f[Len(texts)]
  BY FramedByText
<1> HIDE DEF longer
<1>5. PICK g \in [0..Len(longer) -> Seq(V)] :
         /\ g[0] = <<>>
         /\ \A i \in 1..Len(longer) : g[i] = g[i - 1] \o Frame(longer[i])
         /\ Framed(longer) = g[Len(longer)]
  BY <1>1, FramedByText
<1> HIDE DEF n
<1>6. \A i \in 1..n : f[i] = f[i - 1] \o Frame(texts[i]) /\ g[i] = g[i - 1] \o Frame(texts[i])
  <2> TAKE i \in 1..n
  <2>1. i \in 1..Len(longer)
    BY <1>1
  <2> QED
    BY <1>2, <1>4, <1>5, <2>1 DEF n
<1>7. GoOnAlike(f, g, n)
  BY <1>4, <1>5, <1>6 DEF GoOnAlike
<1>11. Alike(f, g, n)
  BY <1>1, <1>7, OneIteration
<1>8. f[n] = g[n]
  BY <1>1, <1>11 DEF Alike
<1>9. n + 1 \in 1..Len(longer) /\ (n + 1) - 1 = n
  BY <1>1
<1>10. g[n + 1] = g[n] \o Frame(t)
  BY <1>3, <1>5, <1>9
<1> QED
  BY <1>1, <1>4, <1>5, <1>8, <1>10 DEF n, longer

\* Frames are a payload.
LEMMA FramedType ==
  ASSUME NEW V, Nat \subseteq V, NEW texts \in Seq(Seq(V))
  PROVE  Framed(texts) \in Seq(V)
<1>1. PICK f \in [0..Len(texts) -> Seq(V)] : Framed(texts) = f[Len(texts)]
  BY FramedByText
<1> QED
  BY <1>1

\* No texts, no frames.
LEMMA FramedNothing == Framed(<<>>) = <<>>
<1>1. <<>> \in Seq(Seq(Nat)) /\ Len(<<>>) = 0
  OBVIOUS
<1>2. PICK f \in [0..Len(<<>>) -> Seq(Nat)] : f[0] = <<>> /\ Framed(<<>>) = f[Len(<<>>)]
  BY <1>1, FramedByText
<1> QED
  BY <1>1, <1>2

\* The frame of the last text stands between those before it and what follows.
FrameSplit(texts, t, z) == Framed(Append(texts, t)) \o z = Framed(texts) \o (Frame(t) \o z)

\* Appending a text does that.
LEMMA FramedAppendBefore ==
  ASSUME NEW V, Nat \subseteq V, NEW texts \in Seq(Seq(V)), NEW t \in Seq(V), NEW z \in Seq(V)
  PROVE  FrameSplit(texts, t, z)
<1> DEFINE a == Framed(texts)
           b == Frame(t)
<1>1. a \in Seq(V) /\ b \in Seq(V)
  BY FramedType, FrameType
<1>2. Framed(Append(texts, t)) = a \o b
  BY FramedAppend
<1> HIDE DEF a, b
<1>3. (a \o b) \o z = a \o (b \o z)
  BY <1>1, ConcatAssociative
<1> QED
  BY <1>2, <1>3 DEF a, b, FrameSplit

\* A frame is at least its length.
LEMMA FramedLength ==
  ASSUME NEW V, Nat \subseteq V, NEW texts \in Seq(Seq(V))
  PROVE  Len(Framed(texts)) >= Len(texts)
<1> DEFINE n == Len(texts)
<1>1. PICK f \in [0..n -> Seq(V)] :
         /\ f[0] = <<>>
         /\ \A i \in 1..n : f[i] = f[i - 1] \o Frame(texts[i])
         /\ Framed(texts) = f[n]
  BY FramedByText
<1>2. n \in Nat /\ \A i \in 1..n : texts[i] \in Seq(V)
  OBVIOUS
<1>3. \A i \in 1..n : Frame(texts[i]) \in Seq(V) /\ Len(Frame(texts[i])) >= 1
  <2> TAKE i \in 1..n
  <2>1. Frame(texts[i]) \in Seq(V) /\ Len(Frame(texts[i])) = Len(texts[i]) + 1
    BY <1>2, FrameType
  <2> QED
    BY <1>2, <2>1
<1> HIDE DEF n
<1> DEFINE T == {i \in 0..n : Len(f[i]) >= i}
<1>4. 0 \in T
  BY <1>1, <1>2
<1>5. ASSUME NEW i \in 1..n, i - 1 \in T PROVE i \in T
  <2> DEFINE a == f[i - 1]
             b == Frame(texts[i])
  <2>1. a \in Seq(V) /\ b \in Seq(V) /\ Len(b) >= 1 /\ Len(a) >= i - 1 /\ f[i] = a \o b
    BY <1>1, <1>2, <1>3, <1>5
  <2> HIDE DEF a, b
  <2>2. Len(a \o b) = Len(a) + Len(b) /\ Len(a) \in Nat /\ Len(b) \in Nat
    BY <2>1, ConcatProperties
  <2>3. Len(f[i]) >= i
    BY <1>2, <2>1, <2>2
  <2> QED
    BY <2>3
<1> HIDE DEF T
<1>6. 0..n \subseteq T
  BY <1>2, <1>4, <1>5, UpTo
<1> QED
  BY <1>1, <1>2, <1>6 DEF T, n

-----------------------------------------------------------------------------
(* Reading frames                                                          *)

\* A reader that has read nothing.
Begun(payload) == [ok |-> TRUE, texts |-> <<>>, rest |-> payload]

\* The reader after every frame.
LEMMA ConsumedByFrame ==
  ASSUME NEW V, Nat \subseteq V, NEW payload \in Seq(V), NEW n \in Nat
  PROVE  \E f \in [0..n -> States(V)] :
            /\ f[0] = Begun(payload)
            /\ \A i \in 1..n : f[i] = consumeBytes(f[i - 1])
            /\ Consumed(payload, n) = f[n]
<1> DEFINE a == Begun(payload)
           step == [i \in 1..n |-> [read \in States(V) |-> consumeBytes(read)]]
           Reads(f) == f = [i \in 0..n |-> IF i = 0 THEN a ELSE consumeBytes(f[i - 1])]
<1>1. a \in States(V)
  BY DEF States, Begun
<1>2. \A read \in States(V) : consumeBytes(read) \in States(V)
  BY FrameRead
<1>3. step \in [1..n -> [States(V) -> States(V)]]
  BY <1>2
<1>4. \A i \in 1..n, read \in States(V) : step[i][read] = consumeBytes(read)
  OBVIOUS
<1>5. Consumed(payload, n) = (CHOOSE f : Reads(f))[n]
  BY Zenon DEF Consumed, Begun
<1> HIDE DEF a, step
<1>6. PICK f \in [0..n -> States(V)] : Iterates(f, n, a, step)
  BY <1>1, <1>3, Iteration
<1>7. f[0] = a /\ \A i \in 1..n : f[i - 1] \in States(V) /\ f[i] = step[i][f[i - 1]]
  BY <1>6 DEF Iterates
<1>8. \A i \in 1..n : f[i] = consumeBytes(f[i - 1])
  BY <1>4, <1>7
<1>9. Reads(f)
  <2>1. f = [i \in 0..n |-> f[i]]
    OBVIOUS
  <2>2. \A i \in 0..n : f[i] = IF i = 0 THEN a ELSE consumeBytes(f[i - 1])
    BY <1>7, <1>8
  <2> QED
    BY <2>1, <2>2
<1> DEFINE g == CHOOSE h : Reads(h)
<1>10. Reads(g)
  BY <1>9
<1> HIDE DEF g
<1>11. g[0] = a /\ \A i \in 1..n : g[i] = consumeBytes(g[i - 1])
  BY <1>10
<1>12. GoOnAlike(f, g, n)
  BY <1>7, <1>8, <1>11 DEF GoOnAlike
<1>13. Consumed(payload, n) = f[n]
  BY <1>5, <1>12, OneIteration DEF g, Alike
<1> QED
  BY <1>7, <1>8, <1>13 DEF a

\* A reader begins with nothing, and reads a frame at a time.
LEMMA ConsumedNext ==
  ASSUME NEW V, Nat \subseteq V, NEW payload \in Seq(V), NEW n \in Nat
  PROVE  /\ Consumed(payload, n) \in States(V)
         /\ n = 0 => Consumed(payload, n) = Begun(payload)
         /\ n # 0 => Consumed(payload, n) = consumeBytes(Consumed(payload, n - 1))
<1>1. PICK f \in [0..n -> States(V)] :
         /\ f[0] = Begun(payload)
         /\ \A i \in 1..n : f[i] = consumeBytes(f[i - 1])
         /\ Consumed(payload, n) = f[n]
  BY ConsumedByFrame
<1>2. Consumed(payload, n) \in States(V) /\ (n = 0 => Consumed(payload, n) = Begun(payload))
  BY <1>1
<1>3. CASE n # 0
  <2> DEFINE m == n - 1
  <2>1. m \in Nat /\ \A i \in 1..m : i \in 1..n
    BY <1>3
  <2> HIDE DEF m
  <2>2. PICK g \in [0..m -> States(V)] :
           /\ g[0] = Begun(payload)
           /\ \A i \in 1..m : g[i] = consumeBytes(g[i - 1])
           /\ Consumed(payload, m) = g[m]
    BY <2>1, ConsumedByFrame
  <2>3. GoOnAlike(f, g, m)
    BY <1>1, <2>1, <2>2 DEF GoOnAlike
  <2>4. f[m] = g[m]
    BY <2>1, <2>3, OneIteration DEF Alike
  <2> QED
    BY <1>1, <1>2, <1>3, <2>2, <2>4 DEF m
<1> QED
  BY <1>2, <1>3

\* The texts framed are the texts read.
ReadBack(texts, z) ==
    Consumed(Framed(texts) \o z, Len(texts)) = [ok |-> TRUE, texts |-> texts, rest |-> z]

\* What was framed is read again, and what stands behind it is left.
LEMMA FramedIsConsumed ==
  ASSUME NEW V, Nat \subseteq V, NEW texts \in Seq(Seq(V)), NEW z \in Seq(V)
  PROVE  ReadBack(texts, z)
<1> DEFINE T == {m \in 0..Len(texts) :
                    \A s \in Seq(Seq(V)), y \in Seq(V) : Len(s) = m => ReadBack(s, y)}
<1>1. 0 \in T
  <2> SUFFICES ASSUME NEW s \in Seq(Seq(V)), NEW y \in Seq(V), Len(s) = 0
               PROVE  ReadBack(s, y)
    OBVIOUS
  <2>1. s = <<>>
    BY EmptySeq
  <2>2. Framed(s) \o y = y
    BY <2>1, FramedNothing, ConcatEmptySeq
  <2>3. Consumed(y, 0) = Begun(y)
    BY ConsumedNext
  <2> QED
    BY <2>1, <2>2, <2>3 DEF Begun, ReadBack
<1>2. ASSUME NEW m \in 1..Len(texts), m - 1 \in T PROVE m \in T
  <2> SUFFICES ASSUME NEW s \in Seq(Seq(V)), NEW y \in Seq(V), Len(s) = m
               PROVE  ReadBack(s, y)
    OBVIOUS
  <2>1. s # <<>>
    OBVIOUS
  <2>2. PICK before \in Seq(Seq(V)), t \in Seq(V) : s = Append(before, t)
    BY <2>1, SequenceEmptyOrAppend
  <2>3. Len(before) = m - 1 /\ m \in Nat /\ m # 0
    BY <2>2
  <2> DEFINE rest == Frame(t) \o y
             payload == Framed(s) \o y
  <2>4. /\ Framed(before) \in Seq(V) /\ Frame(t) \in Seq(V)
        /\ Framed(s) = Framed(before) \o Frame(t)
    BY <2>2, FramedType, FrameType, FramedAppend
  <2>5. rest \in Seq(V)
    BY <2>4, ConcatProperties
  <2>6. payload = Framed(before) \o rest /\ payload \in Seq(V)
    <3>1. Framed(Append(before, t)) \o y = Framed(before) \o (Frame(t) \o y)
      <4>1. FrameSplit(before, t, y)
        BY FramedAppendBefore
      <4> QED
        BY <4>1 DEF FrameSplit
    <3>2. payload = Framed(before) \o rest
      BY <2>2, <3>1
    <3>3. Framed(before) \o rest \in Seq(V)
      BY <2>4, <2>5, ConcatProperties
    <3> QED
      BY <3>2, <3>3
  <2>7. ReadBack(before, rest)
    BY <1>2, <2>3, <2>5
  <2>8. Consumed(payload, m - 1) = [ok |-> TRUE, texts |-> before, rest |-> rest]
    BY <2>3, <2>6, <2>7 DEF ReadBack
  <2> DEFINE read == Consumed(payload, m - 1)
  <2>9. Consumed(payload, m) = consumeBytes(read)
    BY <2>3, <2>6, ConsumedNext
  <2> HIDE DEF read, payload
  <2>10. read = [ok |-> TRUE, texts |-> before, rest |-> Frame(t) \o y]
    BY <2>8 DEF read
  <2>11. consumeBytes(read) = [ok |-> TRUE, texts |-> Append(before, t), rest |-> y]
    BY <2>10, ReadsFrame
  <2> QED
    BY <2>2, <2>9, <2>11 DEF payload, ReadBack
<1> HIDE DEF T
<1>0. Len(texts) \in Nat
  OBVIOUS
<1>3. 0..Len(texts) \subseteq T
  BY <1>0, <1>1, <1>2, UpTo
<1>4. Len(texts) \in T
  BY <1>0, <1>3
<1> QED
  BY <1>4 DEF T

\* What was read was framed.
LEMMA ConsumedIsFramed ==
  ASSUME NEW V, Nat \subseteq V, NEW payload \in Seq(V), NEW n \in Nat, Consumed(payload, n).ok
  PROVE  /\ Len(Consumed(payload, n).texts) = n
         /\ payload = Framed(Consumed(payload, n).texts) \o Consumed(payload, n).rest
<1> DEFINE Whole(m) == /\ Len(Consumed(payload, m).texts) = m
                       /\ payload = Framed(Consumed(payload, m).texts) \o Consumed(payload, m).rest
           T == {m \in 0..n : Consumed(payload, m).ok => Whole(m)}
<1>1. 0 \in T
  <2>1. Consumed(payload, 0) = Begun(payload)
    BY ConsumedNext
  <2>2. Framed(<<>>) \o payload = payload
    BY FramedNothing, ConcatEmptySeq
  <2>3. Begun(payload).texts = <<>> /\ Begun(payload).rest = payload /\ Len(<<>>) = 0
    BY DEF Begun
  <2>4. Whole(0)
    BY <2>1, <2>2, <2>3
  <2> HIDE DEF Whole
  <2> QED
    BY <2>4
<1>2. ASSUME NEW m \in 1..n, m - 1 \in T PROVE m \in T
  <2> SUFFICES ASSUME Consumed(payload, m).ok PROVE Whole(m)
    <3> HIDE DEF Whole
    <3> QED
      OBVIOUS
  <2> DEFINE read == Consumed(payload, m - 1)
             then == Consumed(payload, m)
  <2>1. m \in Nat /\ m - 1 \in Nat /\ m # 0
    OBVIOUS
  <2>2. read \in States(V) /\ then \in States(V) /\ then = consumeBytes(read)
    BY <2>1, ConsumedNext
  <2>3. /\ read.texts \in Seq(Seq(V)) /\ read.rest \in Seq(V)
        /\ then.texts \in Seq(Seq(V)) /\ then.rest \in Seq(V)
    BY <2>2 DEF States
  <2>4. then.ok
    OBVIOUS
  <2> HIDE DEF read, then
  <2>5. read.ok
    BY <2>2, <2>4, FrameRead
  <2>6. PICK t \in Seq(V) : then.texts = Append(read.texts, t) /\ read.rest = Frame(t) \o then.rest
    BY <2>2, <2>4, FrameRead
  <2>7. Len(read.texts) = m - 1 /\ payload = Framed(read.texts) \o read.rest
    BY <1>2, <2>5 DEF read
  <2>8. Len(then.texts) = m
    BY <2>3, <2>6, <2>7 DEF ReadBack
  <2>11. Framed(Append(read.texts, t)) \o then.rest = Framed(read.texts) \o (Frame(t) \o then.rest)
    <3>1. FrameSplit(read.texts, t, then.rest)
      BY <2>3, FramedAppendBefore
    <3> QED
      BY <3>1 DEF FrameSplit
  <2>12. payload = Framed(then.texts) \o then.rest
    BY <2>6, <2>7, <2>11
  <2> QED
    BY <2>8, <2>12 DEF then
<1> HIDE DEF T
<1>3. 0..n \subseteq T
  BY <1>1, <1>2, UpTo
<1>4. n \in T
  BY <1>3
<1> QED
  BY <1>4 DEF T

\* A payload is a count and the frames that follow.
LEMMA Counted ==
  ASSUME NEW V, Nat \subseteq V, NEW n \in Nat, NEW frames \in Seq(V)
  PROVE  /\ <<n>> \o frames \in Seq(V)
         /\ <<n>> \o frames # <<>>
         /\ Head(<<n>> \o frames) = n
         /\ Tail(<<n>> \o frames) = frames
         /\ Len(<<n>> \o frames) = Len(frames) + 1
<1>1. n \in V
  OBVIOUS
<1>2. <<n>> \o frames \in Seq(V) /\ Len(<<n>> \o frames) = Len(frames) + 1 /\ <<n>> \o frames # <<>>
  BY <1>1
<1>3. Head(<<n>> \o frames) = n
  BY <1>1
<1>4. Tail(<<n>> \o frames) = frames
  BY <1>1
<1> QED
  BY <1>2, <1>3, <1>4

\* A payload that is not empty has a first byte, and the others.
LEMMA Counting ==
  ASSUME NEW V, NEW payload \in Seq(V), payload # <<>>
  PROVE  payload = <<Head(payload)>> \o Tail(payload) /\ Tail(payload) \in Seq(V)
         /\ Len(payload) = Len(Tail(payload)) + 1 /\ Len(payload) \in Nat
BY HeadTailProperties

\* What is read exactly is not read with more behind it.
LEMMA WholeIsNoPrefix ==
  ASSUME NEW V, Nat \subseteq V, NEW p \in Seq(V), NEW q \in Prefixes(p) \ {p}, NEW n \in Nat,
         q # <<>>, Consumed(Tail(q), n).ok, Consumed(Tail(q), n).rest = <<>>
  PROVE  p # <<>> /\ Head(p) = Head(q) /\ Consumed(Tail(p), n).rest # <<>>
<1>1. PICK l \in 0..Len(p) : q = SubSeq(p, 1, l)
  BY DEF Prefixes
<1>2. Len(p) \in Nat /\ l # Len(p) /\ l # 0
  BY <1>1, SubSeqFull
<1> DEFINE z == SubSeq(p, l + 1, Len(p))
<1>3. q \in Seq(V) /\ Len(q) = l /\ z \in Seq(V) /\ Len(z) = Len(p) - l
  BY <1>1, <1>2
<1>4. p = q \o z
  <2>1. SubSeq(p, 1, l) \o SubSeq(p, l + 1, Len(p)) = SubSeq(p, 1, Len(p))
    <3>1. 1 \in 1..Len(p) + 1 /\ l \in 1 - 1..Len(p) /\ Len(p) \in l..Len(p)
      BY <1>2
    <3>2. Adjoin(p, 1, l, Len(p))
      BY <3>1, Adjoining
    <3> QED
      BY <3>2 DEF Adjoin
  <2> QED
    BY <1>1, <2>1, SubSeqFull
<1> HIDE DEF z
<1>5. z # <<>> /\ Head(p) = Head(q) /\ p # <<>> /\ Tail(p) = Tail(q) \o z /\ Tail(q) \in Seq(V)
  <2>1. z # <<>> /\ p # <<>> /\ Head(p) = Head(q)
    BY <1>1, <1>2, <1>3
  <2>2. Tail(q) \in Seq(V) /\ Len(Tail(q)) = l - 1 /\ \A i \in 1..l - 1 : Tail(q)[i] = q[i + 1]
    BY <1>2, <1>3, HeadTailProperties
  <2>3. Tail(p) = Tail(q) \o z
    <3>1. Tail(p) = SubSeq(p, 2, Len(p)) /\ Tail(q) = SubSeq(q, 2, l)
      BY <1>2, <1>3, <2>1
    <3>2. SubSeq(q, 2, l) = SubSeq(p, 2, l)
      BY <1>1, <1>2
    <3>3. SubSeq(p, 2, l) \o SubSeq(p, l + 1, Len(p)) = SubSeq(p, 2, Len(p))
      <4>1. 2 \in 1..Len(p) + 1 /\ l \in 2 - 1..Len(p) /\ Len(p) \in l..Len(p)
        BY <1>2
      <4>2. Adjoin(p, 2, l, Len(p))
        BY <4>1, Adjoining
      <4> QED
        BY <4>2 DEF Adjoin
    <3> QED
      BY <3>1, <3>2, <3>3 DEF z
  <2> QED
    BY <2>1, <2>2, <2>3
<1> DEFINE read == Consumed(Tail(q), n)
           texts == read.texts
<1>6. read \in States(V) /\ Len(texts) = n /\ Tail(q) = Framed(texts) \o <<>>
  BY <1>5, ConsumedNext, ConsumedIsFramed
<1> HIDE DEF read
<1>7. texts \in Seq(Seq(V))
  BY <1>6 DEF States
<1> HIDE DEF texts
<1>8. Framed(texts) \in Seq(V)
  BY <1>7, FramedType
<1>9. Tail(q) = Framed(texts)
  BY <1>6, <1>8, ConcatEmptySeq
<1>10. ReadBack(texts, z)
  BY <1>3, <1>7, FramedIsConsumed
<1>11. Consumed(Tail(p), n) = [ok |-> TRUE, texts |-> texts, rest |-> z]
  BY <1>5, <1>6, <1>9, <1>10 DEF ReadBack
<1> QED
  BY <1>5, <1>11

-----------------------------------------------------------------------------
(* Streams of documents                                                    *)

\* Whatever the documents are, and however many, the host reads the documents that the
\* guest framed (EncodeStreamOutput, DecodeStreamOutput).
THEOREM StreamArrives ==
  ASSUME NEW V, Nat \subseteq V, NEW documents \in Seq(Seq(V))
  PROVE  DecodeStreamOutput(EncodeStreamOutput(documents)) = {documents}
<1> DEFINE n == Len(documents)
           frames == Framed(documents)
           payload == <<n>> \o frames
<1>1. n \in Nat /\ frames \in Seq(V) /\ Len(frames) >= n
  BY FramedType, FramedLength
<1>2. Consumed(frames \o <<>>, n) = [ok |-> TRUE, texts |-> documents, rest |-> <<>>]
  <2>1. <<>> \in Seq(V)
    OBVIOUS
  <2>2. ReadBack(documents, <<>>)
    BY <2>1, FramedIsConsumed
  <2> QED
    BY <2>2 DEF ReadBack
<1>3. EncodeStreamOutput(documents) = payload
  BY DEF EncodeStreamOutput
<1> HIDE DEF frames
<1>4. frames \o <<>> = frames
  BY <1>1, ConcatEmptySeq
<1> HIDE DEF n
<1>5. /\ payload # <<>> /\ Head(payload) = n /\ Tail(payload) = frames
      /\ Len(payload) = Len(frames) + 1
  BY <1>1, Counted
<1> HIDE DEF payload
<1>6. Head(payload) \in 0..Len(payload) - 1
  BY <1>1, <1>5
<1> DEFINE read == Consumed(Tail(payload), Head(payload))
<1> HIDE DEF read
<1>7. read = [ok |-> TRUE, texts |-> documents, rest |-> <<>>]
  BY <1>2, <1>4, <1>5 DEF read
<1> QED
  BY <1>3, <1>5, <1>6, <1>7 DEF DecodeStreamOutput, read

\* Whatever a payload is, the documents read from it are framed to it and to nothing else.
LEMMA StreamExact ==
  ASSUME NEW V, Nat \subseteq V, NEW payload \in Seq(V), NEW d \in DecodeStreamOutput(payload)
  PROVE  d \in Seq(Seq(V)) /\ EncodeStreamOutput(d) = payload
<1> DEFINE n == Head(payload)
           read == Consumed(Tail(payload), n)
<1>1. payload # <<>> /\ n \in 0..Len(payload) - 1 /\ read.ok /\ read.rest = <<>> /\ d = read.texts
  BY DEF DecodeStreamOutput
<1>2. /\ payload = <<n>> \o Tail(payload) /\ Tail(payload) \in Seq(V)
      /\ n \in Nat
  BY <1>1, Counting
<1> HIDE DEF n
<1>3. read \in States(V)
  BY <1>2, ConsumedNext
<1>4. Len(read.texts) = n /\ Tail(payload) = Framed(read.texts) \o read.rest
  BY <1>1, <1>2, ConsumedIsFramed
<1> HIDE DEF read
<1>5. d \in Seq(Seq(V))
  BY <1>1, <1>3 DEF States
<1>6. Framed(d) \in Seq(V)
  BY <1>5, FramedType
<1>7. Framed(d) \o <<>> = Framed(d)
  BY <1>6, ConcatEmptySeq
<1>8. Tail(payload) = Framed(d)
  BY <1>1, <1>4, <1>7
<1> QED
  BY <1>1, <1>2, <1>4, <1>5, <1>8 DEF EncodeStreamOutput

\* A stream cut short is not taken for a stream.
LEMMA StreamNotCut ==
  ASSUME NEW V, Nat \subseteq V, NEW p \in Seq(V), NEW q \in Prefixes(p) \ {p},
         DecodeStreamOutput(p) # {}
  PROVE  DecodeStreamOutput(q) = {}
<1> SUFFICES ASSUME DecodeStreamOutput(q) # {} PROVE FALSE
  OBVIOUS
<1> DEFINE n == Head(q)
<1>1. q # <<>> /\ n \in Nat /\ Consumed(Tail(q), n).ok /\ Consumed(Tail(q), n).rest = <<>>
  BY DEF DecodeStreamOutput
<1>2. Consumed(Tail(p), Head(p)).rest = <<>>
  BY DEF DecodeStreamOutput
<1> HIDE DEF n
<1>3. Head(p) = Head(q) /\ Consumed(Tail(p), n).rest # <<>>
  BY <1>1, WholeIsNoPrefix
<1> QED
  BY <1>2, <1>3 DEF n

-----------------------------------------------------------------------------
(* Files                                                                   *)

\* The names are at the odd places, the contents at the even ones.
LEMMA Halves ==
  ASSUME NEW n \in Nat, NEW k \in 1..2 * n
  PROVE  /\ (k + 1) \div 2 \in 1..n
         /\ k % 2 = 1 => k = 2 * ((k + 1) \div 2) - 1
         /\ k % 2 # 1 => k = 2 * ((k + 1) \div 2)
OBVIOUS

\* Names at the odd places, contents at the even.
Alternate(texts, names, files) ==
    /\ Len(texts) = 2 * Len(names)
    /\ \A k \in 1..Len(names) : texts[2 * k - 1] = names[k] /\ texts[2 * k] = files[names[k]]

\* NamesAndContents does that.
LEMMA Alternates ==
  ASSUME NEW V, NEW names \in Seq(Seq(V)), NEW files \in [ToSet(names) -> Seq(V)]
  PROVE  /\ NamesAndContents(names, files) \in Seq(Seq(V))
         /\ Alternate(NamesAndContents(names, files), names, files)
<1> DEFINE n == Len(names)
           texts == NamesAndContents(names, files)
           m(k) == (k + 1) \div 2
<1>1. n \in Nat /\ \A k \in 1..n : names[k] \in Seq(V) /\ names[k] \in ToSet(names)
  BY DEF ToSet
<1>2. \A k \in 1..n : files[names[k]] \in Seq(V)
  BY <1>1
<1>3. texts = [k \in 1..2 * n |-> IF k % 2 = 1 THEN names[m(k)] ELSE files[names[m(k)]]]
  BY DEF NamesAndContents
<1>4. ASSUME NEW k \in 1..2 * n PROVE m(k) \in 1..n
  BY <1>1
<1>5. ASSUME NEW k \in 1..n
      PROVE  /\ 2 * k - 1 \in 1..2 * n /\ (2 * k - 1) % 2 = 1 /\ m(2 * k - 1) = k
             /\ 2 * k \in 1..2 * n /\ (2 * k) % 2 = 0 /\ m(2 * k) = k
  BY <1>1
<1> HIDE DEF n, texts, m
<1>6. \A k \in 1..2 * n : texts[k] \in Seq(V)
  <2> TAKE k \in 1..2 * n
  <2>1. texts[k] = IF k % 2 = 1 THEN names[m(k)] ELSE files[names[m(k)]]
    BY <1>3
  <2> QED
    BY <1>1, <1>2, <1>4, <2>1
<1>7. texts \in [1..2 * n -> Seq(V)] /\ 2 * n \in Nat
  BY <1>1, <1>3, <1>6
<1>8. texts \in Seq(Seq(V)) /\ Len(texts) = 2 * n
  BY <1>7, FunctionIsSeq
<1>9. \A k \in 1..n : texts[2 * k - 1] = names[k] /\ texts[2 * k] = files[names[k]]
  <2> TAKE k \in 1..n
  <2>1. texts[2 * k - 1] = names[k]
    BY <1>3, <1>5
  <2>2. texts[2 * k] = files[names[k]]
    BY <1>3, <1>5
  <2> QED
    BY <2>1, <2>2
<1> QED
  BY <1>8, <1>9 DEF n, texts, Alternate

\* From names and contents that alternate, the files are found.
LEMMA FilesFound ==
  ASSUME NEW V, NEW names \in Seq(Seq(V)), NEW files \in [ToSet(names) -> Seq(V)], NEW texts,
         Distinct(names), Alternate(texts, names, files)
  PROVE  Files(texts, Len(names)) = {files}
<1> DEFINE n == Len(names)
           all == {texts[2 * k - 1] : k \in 1..n}
           at(x) == CHOOSE k \in 1..n : texts[2 * k - 1] = x
           found == [x \in all |-> texts[2 * at(x)]]
<1>1. /\ n \in Nat /\ ToSet(names) = {names[k] : k \in 1..n}
      /\ names \in [1..n -> ToSet(names)] /\ DOMAIN names = 1..n
  BY SeqIsFunction
<1>2. all = ToSet(names)
  <2>1. \A k \in 1..n : texts[2 * k - 1] = names[k]
    BY DEF Alternate
  <2> HIDE DEF n
  <2> QED
    BY <1>1, <2>1
<1>3. IsFiniteSet(1..n) /\ Cardinality(1..n) = n
  BY <1>1, IntervalSize
<1>4. names \in Injection(1..n, ToSet(names)) /\ names \in Surjection(1..n, ToSet(names))
  <2>1. \A x \in ToSet(names) : \E k \in 1..n : names[k] = x
    BY <1>1
  <2>2. \A i, j \in 1..n : names[i] = names[j] => i = j
    BY DEF Distinct
  <2> QED
    BY <1>1, <2>1, <2>2 DEF Injection, Surjection, IsInjective
<1>5. Cardinality(all) = n
  BY <1>2, <1>3, <1>4, FS_Surjection
<1>6. ASSUME NEW x \in ToSet(names) PROVE texts[2 * at(x)] = files[x]
  <2>1. PICK k \in 1..n : names[k] = x
    BY <1>1
  <2>2. at(x) \in 1..n /\ texts[2 * at(x) - 1] = x
    <3>1. \E i \in 1..n : texts[2 * i - 1] = x
      BY <2>1 DEF Alternate
    <3> QED
      BY <3>1
  <2> HIDE DEF at
  <2>3. names[at(x)] = x /\ texts[2 * at(x)] = files[names[at(x)]]
    BY <2>2 DEF Alternate
  <2> QED
    BY <2>3
<1>7. found = [x \in ToSet(names) |-> files[x]]
  BY <1>2, <1>6
<1>8. found = files
  BY <1>7
<1>9. Files(texts, n) = {found}
  BY <1>5 DEF Files
<1> QED
  BY <1>8, <1>9

\* Whatever the files are, and in whatever order their names, the host reads the files that
\* the guest framed (EncodeMultiOutput, DecodeMultiOutput).
THEOREM MultiArrives ==
  ASSUME NEW V, Nat \subseteq V, NEW names \in Seq(Seq(V)), NEW files \in [ToSet(names) -> Seq(V)],
         Distinct(names)
  PROVE  /\ EncodeMultiOutput(names, files) \in Seq(V)
         /\ DecodeMultiOutput(EncodeMultiOutput(names, files)) = {files}
<1> DEFINE n == Len(names)
           texts == NamesAndContents(names, files)
           frames == Framed(texts)
           payload == <<n>> \o frames
<1>1. n \in Nat /\ texts \in Seq(Seq(V)) /\ Alternate(texts, names, files)
  BY Alternates
<1> HIDE DEF texts
<1>2. Len(texts) = 2 * n /\ Files(texts, n) = {files}
  BY <1>1, FilesFound DEF Alternate
<1>3. frames \in Seq(V) /\ Len(frames) >= 2 * n
  BY <1>1, <1>2, FramedType, FramedLength
<1>4. Consumed(frames \o <<>>, 2 * n) = [ok |-> TRUE, texts |-> texts, rest |-> <<>>]
  <2>1. <<>> \in Seq(V)
    OBVIOUS
  <2>2. ReadBack(texts, <<>>)
    BY <1>1, <2>1, FramedIsConsumed
  <2> QED
    BY <1>2, <2>2 DEF ReadBack
<1>5. EncodeMultiOutput(names, files) = payload
  BY DEF EncodeMultiOutput, texts
<1> HIDE DEF frames
<1>6. frames \o <<>> = frames
  BY <1>3, ConcatEmptySeq
<1> HIDE DEF n
<1>7. /\ payload \in Seq(V) /\ payload # <<>> /\ Head(payload) = n /\ Tail(payload) = frames
      /\ Len(payload) = Len(frames) + 1
  BY <1>1, <1>3, Counted
<1> HIDE DEF payload
<1>8. Head(payload) \in 0..((Len(payload) - 1) \div 2)
  <2>1. Len(frames) \in Nat /\ (Len(payload) - 1) \div 2 \in Nat /\ (Len(payload) - 1) = Len(frames)
    BY <1>3, <1>7
  <2>2. n <= Len(frames) \div 2
    BY <1>1, <1>3, <2>1
  <2> QED
    BY <1>1, <1>7, <2>1, <2>2
<1> DEFINE read == Consumed(Tail(payload), 2 * Head(payload))
<1> HIDE DEF read
<1>9. read = [ok |-> TRUE, texts |-> texts, rest |-> <<>>]
  BY <1>4, <1>6, <1>7 DEF read
<1>10. DecodeMultiOutput(payload) = Files(read.texts, Head(payload))
  BY <1>7, <1>8, <1>9 DEF DecodeMultiOutput, read
<1>11. read.texts = texts
  BY <1>9
<1> QED
  BY <1>2, <1>5, <1>7, <1>10, <1>11

\* Files that were read come from names and contents that alternate.
LEMMA FilesAlternate ==
  ASSUME NEW V, NEW n \in Nat, NEW texts \in Seq(Seq(V)), Len(texts) = 2 * n,
         NEW files \in Files(texts, n)
  PROVE  \E names \in Seq(Seq(V)) :
            /\ names \in SetToSeqs(DOMAIN files) /\ Len(names) = n
            /\ NamesAndContents(names, files) = texts
<1> DEFINE all == {texts[2 * k - 1] : k \in 1..n}
           at(x) == CHOOSE k \in 1..n : texts[2 * k - 1] = x
           names == [k \in 1..n |-> texts[2 * k - 1]]
<1>1. Cardinality(all) = n /\ files = [x \in all |-> texts[2 * at(x)]]
  BY DEF Files
<1>2. \A k \in 1..2 * n : texts[k] \in Seq(V)
  BY ElementOfSeq
<1>3. \A k \in 1..n :
         2 * k - 1 \in 1..2 * n /\ texts[2 * k - 1] \in Seq(V) /\ texts[2 * k - 1] \in all
  BY <1>2
<1>4. names \in [1..n -> Seq(V)] /\ names \in [1..n -> all]
  BY <1>3
<1>5. names \in Seq(Seq(V)) /\ Len(names) = n
  BY <1>4
<1>6. \A k \in 1..n : names[k] = texts[2 * k - 1]
  OBVIOUS
<1> HIDE DEF names
<1>7. names \in Surjection(1..n, all)
  <2>1. \A x \in all : \E k \in 1..n : names[k] = x
    BY <1>6
  <2> QED
    BY <1>4, <2>1 DEF Surjection
<1>8. IsFiniteSet(1..n) /\ Cardinality(1..n) = n
  BY IntervalSize
<1>9. names \in Injection(1..n, all)
  BY <1>1, <1>7, <1>8, FS_SurjSameCardinalityImpliesInj
<1>10. \A i, j \in 1..n : names[i] = names[j] => i = j
  BY <1>4, <1>9 DEF Injection, IsInjective
<1>11. DOMAIN files = all
  BY <1>1
<1>12. names \in SetToSeqs(DOMAIN files)
  BY <1>1, <1>4, <1>10, <1>11 DEF SetToSeqs
<1>13. ASSUME NEW k \in 1..n PROVE files[names[k]] = texts[2 * k]
  <2>1. names[k] \in all /\ files[names[k]] = texts[2 * at(names[k])]
    BY <1>1, <1>4
  <2>2. at(names[k]) \in 1..n /\ texts[2 * at(names[k]) - 1] = names[k]
    <3>1. \E i \in 1..n : texts[2 * i - 1] = names[k]
      BY <1>6
    <3> QED
      BY <3>1
  <2> HIDE DEF at
  <2>3. names[at(names[k])] = names[k]
    BY <1>6, <2>2
  <2>4. at(names[k]) = k
    BY <1>10, <2>2, <2>3
  <2> QED
    BY <2>1, <2>4
<1>14. NamesAndContents(names, files) = texts
  <2> DEFINE m(k) == (k + 1) \div 2
  <2>1. NamesAndContents(names, files)
          = [k \in 1..2 * n |-> IF k % 2 = 1 THEN names[m(k)] ELSE files[names[m(k)]]]
    BY <1>5 DEF NamesAndContents
  <2>2. ASSUME NEW k \in 1..2 * n
        PROVE  /\ m(k) \in 1..n
               /\ k % 2 = 1 => k = 2 * m(k) - 1
               /\ k % 2 # 1 => k = 2 * m(k)
    BY Halves
  <2> HIDE DEF m
  <2>3. ASSUME NEW k \in 1..2 * n
        PROVE  (IF k % 2 = 1 THEN names[m(k)] ELSE files[names[m(k)]]) = texts[k]
    <3>1. CASE k % 2 = 1
      BY <1>6, <2>2, <3>1
    <3>2. CASE k % 2 # 1
      BY <1>13, <2>2, <3>2
    <3> QED
      BY <3>1, <3>2
  <2>4. NamesAndContents(names, files) = [k \in 1..2 * n |-> texts[k]]
    BY <2>1, <2>3
  <2>5. texts = [k \in 1..2 * n |-> texts[k]]
    OBVIOUS
  <2> QED
    BY <2>4, <2>5
<1> QED
  BY <1>5, <1>12, <1>14

\* Whatever a payload is, the files read from it are framed to it.
LEMMA MultiExact ==
  ASSUME NEW V, Nat \subseteq V, NEW payload \in Seq(V), NEW files \in DecodeMultiOutput(payload)
  PROVE  \E names \in SetToSeqs(DOMAIN files) : EncodeMultiOutput(names, files) = payload
<1> DEFINE n == Head(payload)
           read == Consumed(Tail(payload), 2 * n)
<1>1. /\ payload # <<>> /\ n \in 0..((Len(payload) - 1) \div 2)
      /\ read.ok /\ read.rest = <<>> /\ files \in Files(read.texts, n)
  BY DEF DecodeMultiOutput
<1>2. payload = <<n>> \o Tail(payload) /\ Tail(payload) \in Seq(V) /\ n \in Nat /\ 2 * n \in Nat
  BY <1>1, Counting
<1> HIDE DEF n
<1>3. read \in States(V)
  BY <1>2, ConsumedNext
<1>4. Len(read.texts) = 2 * n /\ Tail(payload) = Framed(read.texts) \o read.rest
  BY <1>1, <1>2, ConsumedIsFramed
<1> HIDE DEF read
<1>5. read.texts \in Seq(Seq(V))
  BY <1>3 DEF States
<1>6. Framed(read.texts) \in Seq(V)
  BY <1>5, FramedType
<1>7. Framed(read.texts) \o <<>> = Framed(read.texts)
  BY <1>6, ConcatEmptySeq
<1>8. PICK names \in Seq(Seq(V)) :
         /\ names \in SetToSeqs(DOMAIN files) /\ Len(names) = n
         /\ NamesAndContents(names, files) = read.texts
  BY <1>1, <1>2, <1>4, <1>5, FilesAlternate
<1>9. EncodeMultiOutput(names, files) = payload
  BY <1>1, <1>2, <1>4, <1>7, <1>8 DEF EncodeMultiOutput
<1> QED
  BY <1>8, <1>9

\* Files cut short are not taken for files.
LEMMA MultiNotCut ==
  ASSUME NEW V, Nat \subseteq V, NEW p \in Seq(V), NEW q \in Prefixes(p) \ {p},
         DecodeMultiOutput(p) # {}
  PROVE  DecodeMultiOutput(q) = {}
<1> SUFFICES ASSUME DecodeMultiOutput(q) # {} PROVE FALSE
  OBVIOUS
<1> DEFINE n == 2 * Head(q)
<1>1. q # <<>> /\ n \in Nat /\ Consumed(Tail(q), n).ok /\ Consumed(Tail(q), n).rest = <<>>
  BY DEF DecodeMultiOutput
<1>2. Consumed(Tail(p), 2 * Head(p)).rest = <<>>
  BY DEF DecodeMultiOutput
<1> HIDE DEF n
<1>3. Head(p) = Head(q) /\ Consumed(Tail(p), n).rest # <<>>
  BY <1>1, WholeIsNoPrefix
<1> QED
  BY <1>2, <1>3 DEF n

-----------------------------------------------------------------------------
(* Payloads                                                                *)

\* The host takes from any payload, of any length and over any alphabet, only what the
\* guest frames to that payload, and takes nothing from one cut short.
THEOREM EveryPayloadExact ==
  ASSUME NEW V, Nat \subseteq V, NEW payload \in Seq(V)
  PROVE  Exact(payload)
<1>1. \A d \in DecodeStreamOutput(payload) : EncodeStreamOutput(d) = payload
  BY StreamExact
<1>2. \A f \in DecodeMultiOutput(payload) :
        \E names \in SetToSeqs(DOMAIN f) : EncodeMultiOutput(names, f) = payload
  BY MultiExact
<1>3. ASSUME DecodeStreamOutput(payload) # {}, NEW q \in Prefixes(payload) \ {payload}
      PROVE  DecodeStreamOutput(q) = {}
  BY <1>3, StreamNotCut
<1>4. ASSUME DecodeMultiOutput(payload) # {}, NEW q \in Prefixes(payload) \ {payload}
      PROVE  DecodeMultiOutput(q) = {}
  BY <1>4, MultiNotCut
<1> QED
  BY <1>1, <1>2, <1>3, <1>4 DEF Exact

\* So whatever may arrive at the host is taken exactly.
THEOREM PayloadsAreExact == PayloadsExact
<1> SUFFICES ASSUME NEW p \in Payloads PROVE Exact(p)
  BY DEF PayloadsExact
<1>1. p \in Seq(Nat)
  BY PayloadsAssumption
<1> QED
  BY <1>1, EveryPayloadExact

\* A text is a sequence of bytes.
LEMMA TextsAreSequences == Texts \subseteq Seq(Nat)
<1>1. ASSUME NEW p \in Payloads, NEW i \in 1..Len(p) + 1, NEW j \in 0..Len(p)
      PROVE  SubSeq(p, i, j) \in Seq(Nat)
  <2>1. p \in Seq(Nat)
    BY PayloadsAssumption
  <2> QED
    BY <2>1
<1> DEFINE parts(p) == {SubSeq(p, i, j) : i \in 1..Len(p) + 1, j \in 0..Len(p)}
<1>2. ASSUME NEW p \in Payloads, NEW t \in parts(p) PROVE t \in Seq(Nat)
  <2>1. PICK i \in 1..Len(p) + 1, j \in 0..Len(p) : t = SubSeq(p, i, j)
    OBVIOUS
  <2> HIDE DEF parts
  <2> QED
    BY <1>1, <2>1
<1>3. Texts = UNION {parts(p) : p \in Payloads}
  BY DEF Texts
<1> HIDE DEF parts
<1> QED
  BY <1>2, <1>3

\* Two texts, the empty one and texts that repeat too, arrive as they were framed.
THEOREM TextsRoundTrip == RoundTrips
<1> DEFINE V == Nat
<1> SUFFICES ASSUME NEW a \in Seq(V), NEW b \in Seq(V)
             PROVE  /\ \A d \in {<<>>, <<a>>, <<a, b>>} :
                         DecodeStreamOutput(EncodeStreamOutput(d)) = {d}
                    /\ LET two == [n \in {a, <<>>} |-> b]
                       IN  DecodeMultiOutput(EncodeMultiOutput(SetToSeq({a, <<>>}), two)) = {two}
  BY TextsAreSequences DEF RoundTrips
<1>1. \A d \in {<<>>, <<a>>, <<a, b>>} : d \in Seq(Seq(V))
  BY SmallSequences
<1>2. \A d \in {<<>>, <<a>>, <<a, b>>} : DecodeStreamOutput(EncodeStreamOutput(d)) = {d}
  BY <1>1, StreamArrives
<1> DEFINE both == {a, <<>>}
           names == SetToSeq(both)
           two == [n \in both |-> b]
<1>3. both \subseteq Seq(V) /\ IsFiniteSet(both)
  <2>1. IsFiniteSet({a})
    BY FS_Singleton
  <2>2. IsFiniteSet({a} \cup {<<>>})
    BY <2>1, FS_AddElement
  <2>3. {a} \cup {<<>>} = both
    OBVIOUS
  <2>4. both \subseteq Seq(V)
    BY SmallSequences
  <2> QED
    BY <2>2, <2>3, <2>4
<1> HIDE DEF both
<1>4. names \in Seq(both) /\ Distinct(names) /\ ToSet(names) = both
  BY <1>3, SetAsSequence
<1> HIDE DEF names
<1>5. names \in Seq(Seq(V))
  BY <1>3, <1>4, SeqMonotonic
<1>6. two \in [ToSet(names) -> Seq(V)]
  BY <1>4
<1>7. DecodeMultiOutput(EncodeMultiOutput(names, two)) = {two}
  <2>1. Nat \subseteq V
    OBVIOUS
  <2> HIDE DEF V, two
  <2> QED
    BY <2>1, <1>4, <1>5, <1>6, MultiArrives
<1> QED
  BY <1>2, <1>7 DEF both, names

-----------------------------------------------------------------------------
(* The invariant of the command                                            *)

\* Where the process is before it has a result, with one, writing it, and ending.
Early   == {"idle", "started", "resolving", "reading", "caching", "creating", "evaluating"}
Between == {"tracing", "opening"}
Writing == {"writing", "placing", "truncating", "filling"}
Ended   == {"leaving", "exited", "killed"}

\* What a file of a result contains, and what an evaluation comes to.
Contents == Lines \ {Absent, Dir, Torn}
Results  == [files : MultiResults \cup {None}, lines : Seq(Lines)]

\* The kinds of the values that the proofs need.
TypeOK ==
    /\ pc \in Early \cup Between \cup Writing \cup Ended
    /\ result \in Results \cup {None}
    /\ sink \in Seq(Lines)
    /\ disk \in [ToSet(Names) -> Lines \cup {Absent, Dir, Torn}]

\* A result is there from the evaluation on, and nothing is written before it is.
Stages ==
    /\ pc \in Early => result = None
    /\ pc \in Between \cup Writing => result # None
    /\ pc \in Early \cup Between => sink = <<>> /\ placed = {}

\* Several files and a stream exclude each other from parseArgs on.
OneKind ==
    /\ pc = "resolving" => inv.print \/ ~(inv.multi /\ inv.stream)
    /\ pc \notin {"idle", "started", "resolving"} \cup Ended => ~(inv.multi /\ inv.stream)

\* The manifest names the files of the result, and those alone.
Listing ==
    result # None =>
        IF inv.multi THEN ToSet(result.lines) = DOMAIN result.files ELSE result.files = None

\* The lines written are the first lines of the result; a file is written for the last.
Written ==
    pc \in Writing =>
        /\ Len(sink) <= Len(result.lines)
        /\ sink = SubSeq(result.lines, 1, Len(sink))
        /\ pc # "writing" => sink # <<>> /\ inv.multi

\* The manifest is ahead of the files, and is in its file.
Manifest ==
    /\ placed \subseteq ToSet(sink)
    /\ sink # <<>> /\ inv.toFile => out = sink
    /\ pc \in Writing /\ inv.toFile => out = sink

\* Every file listed has its bytes, but for the one at hand.
Filled ==
    /\ pc \in Writing =>
        \A n \in ToSet(sink) \cap DOMAIN result.files :
            (pc # "writing" /\ n = File) \/ disk[n] = result.files[n]
    /\ pc = "truncating" => disk[File] # Content

\* After a success, everything is where it belongs.
Done ==
    pc \in {"leaving", "exited"} /\ status = 0 /\ result # None =>
        /\ sink = result.lines
        /\ inv.toFile => out = result.lines
        /\ \A n \in DOMAIN result.files : disk[n] = result.files[n]

\* Everything above.
IInv == TypeOK /\ Stages /\ OneKind /\ Listing /\ Written /\ Manifest /\ Filled /\ Done

-----------------------------------------------------------------------------
(* Results                                                                 *)

\* The names so far that files has, at every name.
LEMMA SortedByName ==
  ASSUME NEW files
  PROVE  \E f \in [0..Len(Names) -> Seq(Lines)] :
            /\ f[0] = <<>>
            /\ \A i \in 1..Len(Names) :
                  f[i] = IF Names[i] \in DOMAIN files THEN Append(f[i - 1], Names[i]) ELSE f[i - 1]
            /\ Sorted(files) = f[Len(Names)]
<1> DEFINE n == Len(Names)
           D == DOMAIN files
           next(i, s) == IF Names[i] \in D THEN Append(s, Names[i]) ELSE s
           step == [i \in 1..n |-> [s \in Seq(Lines) |-> next(i, s)]]
           Sorts(f) == f = [i \in 0..n |-> CASE i = 0 -> <<>>
                                             [] i > 0 /\ Names[i] \in D -> Append(f[i - 1], Names[i])
                                             [] OTHER -> f[i - 1]]
<1>1. n \in Nat /\ <<>> \in Seq(Lines) /\ \A i \in 1..n : Names[i] \in Lines
  BY NamesAssumption
<1>2. Sorted(files) = (CHOOSE f : Sorts(f))[n]
  BY Zenon DEF Sorted
<1> HIDE DEF n, D
<1>3. ASSUME NEW i \in 1..n, NEW s \in Seq(Lines) PROVE next(i, s) \in Seq(Lines)
  <2>1. Append(s, Names[i]) \in Seq(Lines)
    BY <1>1, AppendProperties
  <2> QED
    BY <2>1
<1>4. step \in [1..n -> [Seq(Lines) -> Seq(Lines)]]
  BY <1>3
<1>5. \A i \in 1..n, s \in Seq(Lines) : step[i][s] = next(i, s)
  OBVIOUS
<1> HIDE DEF step
<1>6. PICK f \in [0..n -> Seq(Lines)] : Iterates(f, n, <<>>, step)
  BY <1>1, <1>4, Iteration
<1>7. f[0] = <<>> /\ \A i \in 1..n : f[i - 1] \in Seq(Lines) /\ f[i] = step[i][f[i - 1]]
  BY <1>1, <1>6 DEF Iterates
<1>8. \A i \in 1..n : f[i] = next(i, f[i - 1])
  BY <1>5, <1>7
<1>9. Sorts(f)
  <2>1. f = [i \in 0..n |-> f[i]]
    OBVIOUS
  <2>2. ASSUME NEW i \in 0..n
        PROVE  f[i] = CASE i = 0 -> <<>>
                        [] i > 0 /\ Names[i] \in D -> Append(f[i - 1], Names[i])
                        [] OTHER -> f[i - 1]
    <3>1. CASE i = 0
      BY <1>7, <3>1
    <3>2. CASE i \in 1..n
      <4>1. f[i] = next(i, f[i - 1])
        BY <1>8, <3>2
      <4>2. i > 0 /\ i # 0
        BY <1>1, <3>2
      <4> QED
        BY <4>1, <4>2
    <3> QED
      BY <1>1, <3>1, <3>2
  <2> QED
    BY <2>1, <2>2
<1> DEFINE g == CHOOSE h : Sorts(h)
<1>10. Sorts(g)
  BY <1>9
<1> HIDE DEF g
<1>11. g[0] = <<>> /\ \A i \in 1..n : g[i] = next(i, g[i - 1])
  <2>1. g[0] = <<>>
    BY <1>1, <1>10
  <2>2. ASSUME NEW i \in 1..n PROVE g[i] = next(i, g[i - 1])
    <3>1. i \in 0..n /\ i # 0 /\ i > 0
      BY <1>1
    <3>2. g[i] = CASE i = 0 -> <<>>
                   [] i > 0 /\ Names[i] \in D -> Append(g[i - 1], Names[i])
                   [] OTHER -> g[i - 1]
      BY <1>10, <3>1
    <3> QED
      BY <3>1, <3>2
  <2> QED
    BY <2>1, <2>2
<1>12. GoOnAlike(f, g, n)
  BY <1>7, <1>8, <1>11 DEF GoOnAlike
<1>13. Alike(f, g, n)
  BY <1>1, <1>12, OneIteration
<1>14. Sorted(files) = f[n]
  BY <1>1, <1>2, <1>13 DEF g, Alike
<1> QED
  BY <1>7, <1>8, <1>14 DEF n, D

\* The manifest has every file, once.
LEMMA SortedNames ==
  ASSUME NEW files, DOMAIN files \subseteq ToSet(Names)
  PROVE  /\ Sorted(files) \in Seq(Lines) /\ Distinct(Sorted(files))
         /\ ToSet(Sorted(files)) = DOMAIN files
<1> DEFINE n == Len(Names)
           D == DOMAIN files
           first(k) == {Names[j] : j \in 1..k}
<1>1. /\ n \in Nat /\ ToSet(Names) = first(n)
      /\ \A i \in 1..n : Names[i] \in Lines
  BY NamesAssumption, SeqIsFunction
<1>2. \A i, j \in 1..n : Names[i] = Names[j] => i = j
  BY NamesAssumption
<1>3. PICK f \in [0..n -> Seq(Lines)] :
         /\ f[0] = <<>>
         /\ \A i \in 1..n : f[i] = IF Names[i] \in D THEN Append(f[i - 1], Names[i]) ELSE f[i - 1]
         /\ Sorted(files) = f[n]
  BY SortedByName
<1> HIDE DEF n, D
<1> DEFINE T == {k \in 0..n : Distinct(f[k]) /\ ToSet(f[k]) = D \cap first(k)}
<1>4. 0 \in T
  BY <1>1, <1>3, NothingDistinct
<1>5. ASSUME NEW k \in 1..n, k - 1 \in T PROVE k \in T
  <2> DEFINE s == f[k - 1]
             x == Names[k]
  <2>1. s \in Seq(Lines) /\ x \in Lines /\ Distinct(s) /\ ToSet(s) = D \cap first(k - 1)
    BY <1>1, <1>3, <1>5
  <2>2. first(k) = first(k - 1) \cup {x}
    BY <1>1
  <2>3. x \notin first(k - 1)
    <3> SUFFICES ASSUME NEW j \in 1..k - 1, Names[j] = x PROVE FALSE
      OBVIOUS
    <3>1. j \in 1..n /\ j # k
      BY <1>1
    <3> QED
      BY <1>2, <3>1
  <2>4. f[k] = IF x \in D THEN Append(s, x) ELSE s
    BY <1>3
  <2> HIDE DEF s, x, first
  <2>5. CASE x \in D
    <3>1. ToSet(Append(s, x)) = ToSet(s) \cup {x} /\ Distinct(Append(s, x))
      BY <2>1, <2>3, AppendToSet
    <3>2. Distinct(f[k])
      BY <2>4, <2>5, <3>1
    <3>3. ToSet(f[k]) = D \cap first(k)
      BY <2>1, <2>2, <2>4, <2>5, <3>1
    <3> QED
      BY <3>2, <3>3
  <2>6. CASE x \notin D
    <3>1. Distinct(f[k])
      BY <2>1, <2>4, <2>6
    <3>2. ToSet(f[k]) = D \cap first(k)
      BY <2>1, <2>2, <2>4, <2>6
    <3> QED
      BY <3>1, <3>2
  <2> QED
    BY <2>5, <2>6
<1> HIDE DEF T
<1>6. 0..n \subseteq T
  BY <1>1, <1>4, <1>5, UpTo
<1>7. Distinct(f[n]) /\ ToSet(f[n]) = D \cap first(n)
  BY <1>1, <1>6 DEF T
<1>8. D \subseteq first(n)
  BY <1>1 DEF D
<1> HIDE DEF first
<1>9. ToSet(f[n]) = D
  BY <1>7, <1>8
<1>10. Sorted(files) = f[n] /\ f[n] \in Seq(Lines)
  BY <1>1, <1>3
<1> QED
  BY <1>7, <1>9, <1>10 DEF D

\* The host reads the result that the guest framed, every one of MultiResults.
THEOREM ResultsArrive ==
  ASSUME NEW files \in MultiResults
  PROVE  /\ EncodeMultiOutput(Sorted(files), files) \in Seq(Nat \cup Words)
         /\ DecodeMultiOutput(EncodeMultiOutput(Sorted(files), files)) = {files}
<1> DEFINE V == Nat \cup Words
           names == Sorted(files)
<1>1. PICK among \in SUBSET ToSet(Names) : files \in [among -> Contents]
  BY ResultsAssumption DEF Contents
<1>2. DOMAIN files = among
  BY <1>1
<1>3. names \in Seq(Lines) /\ Distinct(names) /\ ToSet(names) = among
  BY <1>1, <1>2, SortedNames
<1>4. Lines \subseteq Seq(V)
  BY SeqMonotonic DEF Lines
<1> HIDE DEF names, V
<1>5. names \in Seq(Seq(V))
  BY <1>3, <1>4, SeqMonotonic
<1>6. files \in [ToSet(names) -> Seq(V)]
  BY <1>1, <1>3, <1>4 DEF Contents
<1>7. Nat \subseteq V
  BY DEF V
<1> QED
  BY <1>3, <1>5, <1>6, <1>7, MultiArrives DEF names, V

\* What the guest frames for any result means that result and nothing else.
THEOREM ResultsAreExact == ResultsExact
<1> SUFFICES ASSUME NEW files \in MultiResults
             PROVE  Exact(EncodeMultiOutput(Sorted(files), files))
  BY DEF ResultsExact
<1> DEFINE V == Nat \cup Words
           payload == EncodeMultiOutput(Sorted(files), files)
<1>1. payload \in Seq(V) /\ Nat \subseteq V
  BY ResultsArrive
<1> HIDE DEF payload, V
<1>2. Exact(payload)
  BY <1>1, EveryPayloadExact
<1> QED
  BY <1>2 DEF payload

\* The manifest of a result is its names, each once, in lines that can be written.
LEMMA SortedLines ==
  ASSUME NEW files \in MultiResults
  PROVE  Sorted(files) \in Seq(Lines) /\ ToSet(Sorted(files)) = DOMAIN files
<1>1. PICK among \in SUBSET ToSet(Names) : files \in [among -> Contents]
  BY ResultsAssumption DEF Contents
<1>2. DOMAIN files \subseteq ToSet(Names)
  BY <1>1
<1> QED
  BY <1>2, SortedNames

\* A stream is lines.
LEMMA StreamLinesType ==
  ASSUME NEW documents \in Seq(Lines)
  PROVE  StreamLines(documents) \in Seq(Lines)
<1> DEFINE n == Len(documents)
           line(k) == IF k = 2 * n + 1 THEN <<"...">>
                      ELSE IF k % 2 = 1 THEN <<"---">>
                      ELSE documents[k \div 2]
           m == 2 * n + 1
           lines == [k \in 1..m |-> line(k)]
<1>1. <<"...">> \in Lines /\ <<"---">> \in Lines
  <2>1. "..." \in Words /\ "---" \in Words
    BY DEF Words
  <2> QED
    BY <2>1, SmallSequences DEF Lines
<1>2. n \in Nat /\ \A k \in 1..n : documents[k] \in Lines
  OBVIOUS
<1>3. ASSUME NEW k \in 1..m PROVE line(k) \in Lines
  <2>1. CASE k = 2 * n + 1
    BY <1>1, <2>1
  <2>2. CASE k # 2 * n + 1 /\ k % 2 = 1
    BY <1>1, <2>2
  <2>3. CASE k # 2 * n + 1 /\ k % 2 # 1
    <3> HIDE DEF n
    <3>1. k \div 2 \in 1..n
      BY <1>2, <2>3
    <3> QED
      BY <1>2, <2>3, <3>1
  <2> QED
    BY <2>1, <2>2, <2>3
<1>4. m \in Nat
  BY <1>2
<1> HIDE DEF n, m, line
<1>5. lines \in [1..m -> Lines]
  BY <1>3
<1>6. lines \in Seq(Lines)
  BY <1>4, <1>5, FunctionIsSeq
<1>7. StreamLines(documents) = IF documents = <<>> THEN <<>> ELSE lines
  BY Zenon DEF StreamLines, lines, line, m, n
<1>8. <<>> \in Seq(Lines)
  OBVIOUS
<1> QED
  BY <1>6, <1>7, <1>8

\* A result is not the lack of one.
LEMMA NoneIsNoResult == \A f, l : [files |-> f, lines |-> l] # None
<1> TAKE f, l
<1>1. DOMAIN [files |-> f, lines |-> l] = {"files", "lines"}
  OBVIOUS
<1>2. DOMAIN None = {}
  BY DEF None
<1> QED
  BY <1>1, <1>2

\* What an evaluation came to.
CameTo ==
    /\ result' \in Results /\ result' # None
    /\ IF inv.multi THEN ToSet(result'.lines) = DOMAIN result'.files ELSE result'.files = None
    /\ inv.stream => \E documents \in Documents : result'.lines = StreamLines(documents)

\* An evaluation that succeeds comes to a result as the host unframed it, files or lines.
LEMMA EvaluationComesTo ==
  ASSUME EvaluationSucceeds, OneKind
  PROVE  CameTo
<1>0. ~ (inv.multi /\ inv.stream)
  BY DEF EvaluationSucceeds, OneKind, Ended
<1>1. ASSUME inv.multi, NEW files \in MultiResults,
             NEW received \in DecodeMultiOutput(EncodeMultiOutput(Sorted(files), files)),
             result' = [files |-> received, lines |-> Sorted(received)]
      PROVE  CameTo
  <2>1. received = files
    BY ResultsArrive
  <2>2. Sorted(files) \in Seq(Lines) /\ ToSet(Sorted(files)) = DOMAIN files
    BY SortedLines
  <2>3. result'.files = files /\ result'.lines = Sorted(files)
    BY <1>1, <2>1
  <2>4. result' \in Results
    BY <1>1, <2>1, <2>2 DEF Results
  <2> QED
    BY <1>0, <1>1, <2>2, <2>3, <2>4, NoneIsNoResult DEF CameTo
<1>2. ASSUME inv.stream, NEW documents \in Documents,
             NEW received \in DecodeStreamOutput(EncodeStreamOutput(documents)),
             result' = [files |-> None, lines |-> StreamLines(received)]
      PROVE  CameTo
  <2> DEFINE V == Nat \cup Words
  <2>1. documents \in Seq(Lines) /\ Lines \subseteq Seq(V) /\ Nat \subseteq V
    BY DocumentsAssumption, SeqMonotonic DEF Lines
  <2> HIDE DEF V
  <2>2. documents \in Seq(Seq(V))
    BY <2>1, SeqMonotonic
  <2>3. received = documents
    BY <2>1, <2>2, StreamArrives
  <2>4. result'.files = None /\ result'.lines = StreamLines(documents)
    BY <1>2, <2>3
  <2>5. StreamLines(documents) \in Seq(Lines)
    BY <2>1, StreamLinesType
  <2>6. result' \in Results
    BY <1>2, <2>3, <2>5 DEF Results
  <2> QED
    BY <1>0, <1>2, <2>4, <2>6, NoneIsNoResult DEF CameTo
<1>3. ASSUME ~ inv.multi, ~ inv.stream, NEW document \in UNION {ToSet(d) : d \in Documents},
             result' = [files |-> None, lines |-> <<document>>]
      PROVE  CameTo
  <2>1. document \in Lines
    <3>1. PICK d \in Documents : document \in ToSet(d)
      OBVIOUS
    <3>2. d \in Seq(Lines)
      BY DocumentsAssumption
    <3>3. PICK k \in 1..Len(d) : document = d[k]
      BY <3>1, <3>2, SeqIsFunction
    <3> QED
      BY <3>2, <3>3
  <2>2. <<document>> \in Seq(Lines)
    BY <2>1
  <2>3. result' \in Results /\ result'.files = None
    BY <1>3, <2>2 DEF Results
  <2> QED
    BY <1>3, <2>3, NoneIsNoResult DEF CameTo
<1> QED
  BY <1>1, <1>2, <1>3 DEF EvaluationSucceeds

-----------------------------------------------------------------------------
(* The file at hand                                                        *)

\* A name is not beneath itself.
LEMMA NotOwnParent ==
  ASSUME NEW n \in Lines
  PROVE  n \notin Parents(n)
<1> SUFFICES ASSUME NEW k \in 1..Len(n) - 1, n = SubSeq(n, 1, k) PROVE FALSE
  BY DEF Parents
<1>1. Len(n) \in Nat /\ k < Len(n)
  BY DEF Lines
<1>2. Len(SubSeq(n, 1, k)) = k
  BY <1>1 DEF Lines
<1> QED
  BY <1>1, <1>2

\* The file at hand is listed, and part of the result.
AtHand ==
    /\ File \in ToSet(sink) /\ File \in Lines
    /\ inv.multi
    /\ File \in DOMAIN result.files

\* The files of a result are beneath the directory, and have contents.
FilesOfResult ==
    \A n \in DOMAIN result.files : n \in ToSet(Names) /\ result.files[n] \in Contents

\* So the kinds say.
LEMMA ResultFiles ==
  ASSUME TypeOK, result # None
  PROVE  FilesOfResult
<1>1. result.files \in MultiResults \cup {None}
  BY DEF TypeOK, Results
<1>2. CASE result.files \in MultiResults
  <2>1. PICK among \in SUBSET ToSet(Names) : result.files \in [among -> Contents]
    BY <1>2, ResultsAssumption DEF Contents
  <2> QED
    BY <2>1 DEF FilesOfResult
<1>3. CASE result.files = None
  BY <1>3 DEF FilesOfResult, None
<1> QED
  BY <1>1, <1>2, <1>3

\* The lines written for -m are names of files of the result.
LEMMA ListedSoFar ==
  ASSUME TypeOK, Stages, Listing, Written, pc \in Writing, inv.multi
  PROVE  ToSet(sink) \subseteq DOMAIN result.files
<1>1. result # None /\ result.lines \in Seq(Lines) /\ sink \in Seq(Lines)
  BY DEF TypeOK, Stages, Results
<1>2. ToSet(result.lines) = DOMAIN result.files
  BY <1>1 DEF Listing
<1>3. Len(sink) <= Len(result.lines) /\ sink = SubSeq(result.lines, 1, Len(sink))
  BY DEF Written
<1>4. ASSUME NEW k \in 1..Len(sink) PROVE sink[k] \in ToSet(result.lines)
  <2>1. sink[k] = result.lines[k] /\ k \in 1..Len(result.lines)
    BY <1>1, <1>3
  <2> QED
    BY <1>1, <2>1, SeqIsFunction
<1> QED
  BY <1>1, <1>2, <1>4, SeqIsFunction

\* So is the last one, whose file is written.
LEMMA FileAtHand ==
  ASSUME TypeOK, Stages, Listing, Written, pc \in Writing \ {"writing"}
  PROVE  AtHand
<1>1. sink \in Seq(Lines) /\ sink # <<>> /\ inv.multi
  BY DEF TypeOK, Written
<1>2. File \in ToSet(sink) /\ File \in Lines
  BY <1>1, LastOfLines DEF File
<1> QED
  BY <1>1, <1>2, ListedSoFar DEF AtHand

-----------------------------------------------------------------------------
(* Every step                                                              *)

\* Every step keeps the invariant.
LEMMA CommandStep ==
  ASSUME IInv, [Next]_vars
  PROVE  IInv'
<1> USE DEF IInv, Early, Between, Writing, Ended
<1>1. CASE Start
  BY <1>1 DEF Start, Exit, Disks, TypeOK, Stages, OneKind, Listing, Written, Manifest, Filled,
     File, Content, Done
<1>2. CASE ParseArgs
  BY <1>2 DEF ParseArgs, Exit, Disks, WellFormed, TypeOK, Stages, OneKind, Listing, Written,
     Manifest, Filled, File, Content, Done
<1>3. CASE ResolvePolicy
  BY <1>3 DEF ResolvePolicy, Exit, Disks, TypeOK, Stages, OneKind, Listing, Written, Manifest,
     Filled, File, Content, Done
<1>4. CASE ReadInputs
  BY <1>4 DEF ReadInputs, Exit, Disks, TypeOK, Stages, OneKind, Listing, Written, Manifest,
     Filled, File, Content, Done
<1>5. CASE OpenCache
  BY <1>5 DEF OpenCache, Exit, Disks, TypeOK, Stages, OneKind, Listing, Written, Manifest,
     Filled, File, Content, Done
<1>6. CASE NewEngine
  BY <1>6 DEF NewEngine, Exit, Disks, TypeOK, Stages, OneKind, Listing, Written, Manifest,
     Filled, File, Content, Done
<1>7. CASE EvaluationSucceeds
  <2>a. CameTo
    BY <1>7, EvaluationComesTo DEF EvaluationSucceeds
  <2>1. TypeOK'
    BY <1>7, <2>a DEF EvaluationSucceeds, Exit, Disks, TypeOK, CameTo
  <2>2. Stages'
    BY <1>7, <2>a DEF EvaluationSucceeds, Exit, Disks, Stages, CameTo
  <2>3. Listing'
    BY <1>7, <2>a DEF EvaluationSucceeds, Exit, Disks, Listing, Stages, CameTo
  <2>4. OneKind' /\ Written' /\ Manifest' /\ Filled' /\ Done'
    BY <1>7 DEF EvaluationSucceeds, Exit, Disks, Stages, OneKind, Written, Manifest, Filled,
       Done, File, Content
  <2> QED
    BY <2>1, <2>2, <2>3, <2>4
<1>8. CASE EvaluationFails
  BY <1>8 DEF EvaluationFails, Exit, Disks, TypeOK, Stages, OneKind, Listing, Written,
     Manifest, Filled, File, Content, Done
<1>9. CASE WriteTrace
  BY <1>9 DEF WriteTrace, Exit, Disks, TypeOK, Stages, OneKind, Listing, Written, Manifest,
     Filled, File, Content, Done
<1>10. CASE OpenSink
  <2>a. sink' = <<>> /\ ToSet(sink') = {}
    BY <1>10, NothingDistinct DEF OpenSink, Stages
  <2>1. TypeOK'
    BY <1>10 DEF OpenSink, Exit, Disks, TypeOK
  <2>2. Manifest'
    BY <1>10 DEF OpenSink, Exit, Disks, Manifest, Stages
  <2>3. Filled'
    BY <1>10, <2>a DEF OpenSink, Exit, Disks, Filled, File, Content
  <2>4. Written'
    BY <1>10 DEF OpenSink, Exit, Disks, Written, Stages
  <2>5. Stages' /\ OneKind' /\ Listing' /\ Done'
    BY <1>10 DEF OpenSink, Exit, Disks, Stages, OneKind, Listing, Done
  <2> QED
    BY <2>1, <2>2, <2>3, <2>4, <2>5
<1>11. CASE WriteLine
  <2>a. /\ result # None /\ result.lines \in Seq(Lines) /\ sink \in Seq(Lines)
        /\ Len(sink) + 1 \in 1..Len(result.lines)
    BY <1>11 DEF WriteLine, TypeOK, Stages, Results
  <2>b. result.lines[Len(sink) + 1] \in Lines
    BY <2>a
  <2>c. sink' \in Seq(Lines) /\ ToSet(sink') = ToSet(sink) \cup {result.lines[Len(sink) + 1]}
    BY <1>11, <2>a, <2>b, AppendToSet DEF WriteLine
  <2>d. sink' # <<>> /\ File' = result.lines[Len(sink) + 1]
    BY <1>11, <2>a, <2>b DEF WriteLine, File, Last
  <2>1. TypeOK'
    BY <1>11, <2>c DEF WriteLine, Exit, Disks, TypeOK
  <2>2. Written'
    BY <1>11, <2>a DEF WriteLine, Exit, Disks, Written, Stages
  <2>3. Manifest'
    BY <1>11, <2>c DEF WriteLine, Exit, Disks, Manifest, Stages
  <2>4. Filled'
    BY <1>11, <2>a, <2>c, <2>d DEF WriteLine, Exit, Disks, Filled, Listing, None
  <2>5. Stages' /\ OneKind' /\ Listing' /\ Done'
    BY <1>11 DEF WriteLine, Exit, Disks, Stages, OneKind, Listing, Done
  <2> QED
    BY <2>1, <2>2, <2>3, <2>4, <2>5
<1>12. CASE Place
  <2>a. AtHand /\ FilesOfResult
    BY <1>12, FileAtHand, ResultFiles DEF Place, Stages
  <2>b. File \notin Parents(File)
    BY <2>a, NotOwnParent DEF AtHand
  <2>1. TypeOK'
    BY <1>12, <2>a DEF Place, Exit, Disks, TypeOK, AtHand, FilesOfResult
  <2>2. Filled'
    BY <1>12, <2>a, <2>b DEF Place, Exit, Disks, Filled, File, Content, AtHand, FilesOfResult,
       Contents, Same, Blocked, TypeOK
  <2>3. Stages' /\ OneKind' /\ Listing' /\ Written' /\ Manifest' /\ Done'
    BY <1>12 DEF Place, Exit, Disks, Stages, OneKind, Listing, Written, Manifest, Done
  <2> QED
    BY <2>1, <2>2, <2>3
<1>13. CASE Truncate
  <2>a. AtHand /\ FilesOfResult
    BY <1>13, FileAtHand, ResultFiles DEF Truncate, Stages
  <2>1. TypeOK'
    BY <1>13, <2>a DEF Truncate, Exit, Disks, TypeOK, AtHand
  <2>2. Manifest'
    BY <1>13, <2>a DEF Truncate, Exit, Disks, Manifest, Stages, AtHand
  <2>3. Filled'
    BY <1>13, <2>a DEF Truncate, Exit, Disks, Filled, File, Content, FilesOfResult, TypeOK
  <2>4. Stages' /\ OneKind' /\ Listing' /\ Written' /\ Done'
    BY <1>13 DEF Truncate, Exit, Disks, Stages, OneKind, Listing, Written, Done
  <2> QED
    BY <2>1, <2>2, <2>3, <2>4
<1>14. CASE Fill
  <2>a. AtHand /\ FilesOfResult
    BY <1>14, FileAtHand, ResultFiles DEF Fill, Stages
  <2>1. TypeOK'
    BY <1>14, <2>a DEF Fill, Exit, Disks, TypeOK, AtHand, FilesOfResult, Contents, Content
  <2>2. Filled'
    BY <1>14, <2>a DEF Fill, Exit, Disks, Filled, File, Content, FilesOfResult, TypeOK
  <2>3. Stages' /\ OneKind' /\ Listing' /\ Written' /\ Manifest' /\ Done'
    BY <1>14 DEF Fill, Exit, Disks, Stages, OneKind, Listing, Written, Manifest, Done
  <2> QED
    BY <2>1, <2>2, <2>3
<1>15. CASE Finish
  <2>a. result # None /\ result.lines \in Seq(Lines) /\ sink \in Seq(Lines)
    BY <1>15 DEF Finish, TypeOK, Stages, Results
  <2>b. sink = result.lines
    BY <1>15, <2>a, SubSeqFull DEF Finish, Written
  <2>c. DOMAIN result.files \subseteq ToSet(sink)
    BY <2>a, <2>b DEF Listing, None
  <2>1. Done'
    BY <1>15, <2>a, <2>b, <2>c DEF Finish, Exit, Disks, Done, Stages, Manifest, Filled
  <2>2. TypeOK' /\ Stages' /\ OneKind' /\ Listing' /\ Written' /\ Manifest' /\ Filled'
    BY <1>15 DEF Finish, Exit, Disks, Stages, TypeOK, OneKind, Listing, Written, Manifest,
       Filled, File, Content
  <2> QED
    BY <2>1, <2>2
<1>16. CASE CallFails
  BY <1>16 DEF CallFails, Exit, Disks, Calling, TypeOK, Stages, OneKind, Listing, Written,
     Manifest, Filled, File, Content, Done
<1>17. CASE Release
  BY <1>17 DEF Release, Exit, Disks, TypeOK, Stages, OneKind, Listing, Written, Manifest,
     Filled, File, Content, Done
<1>18. CASE Kill
  BY <1>18 DEF Kill, Exit, Disks, TypeOK, Stages, OneKind, Listing, Written, Manifest, Filled,
     File, Content, Done
<1>19. CASE UNCHANGED vars
  BY <1>19 DEF vars, TypeOK, Stages, OneKind, Listing, Written, Manifest, Filled, File,
     Content, Done
<1> QED
  BY <1>1, <1>2, <1>3, <1>4, <1>5, <1>6, <1>7, <1>8, <1>9, <1>10, <1>11, <1>12, <1>13, <1>14,
     <1>15, <1>16, <1>17, <1>18, <1>19 DEF Next

\* The invariant holds in every state of every run of the command.
THEOREM CommandInvariant == Spec => []IInv
<1>1. Init => IInv
  <2> SUFFICES ASSUME Init PROVE IInv
    OBVIOUS
  <2>1. TypeOK
    <3>1. disk \in [ToSet(Names) -> Lines \cup {Absent, Dir, Torn}]
      BY DEF Init
    <3> QED
      BY <3>1 DEF Init, TypeOK, Early
  <2>2. Stages /\ OneKind /\ Listing /\ Written /\ Done
    BY DEF Init, Stages, OneKind, Listing, Written, Done, Early, Between, Writing, Ended
  <2>3. Manifest /\ Filled
    BY DEF Init, Manifest, Filled, Writing
  <2> QED
    BY <2>1, <2>2, <2>3 DEF IInv
<1>2. IInv /\ [Next]_vars => IInv'
  BY CommandStep
<1> QED
  BY <1>1, <1>2, PTL DEF Spec

\* A file is truncated only after its name is in the manifest, and what is written of the
\* manifest is in its file (writeMulti): for any results, any names and any number of runs
\* that fail or are killed.
THEOREM ManifestIsAhead == Spec => []ListedBeforeWritten
<1>1. IInv => ListedBeforeWritten
  BY DEF IInv, Manifest, ListedBeforeWritten
<1> QED
  BY <1>1, CommandInvariant, PTL

\* When the command exits with 0, all of the result is written (writeResult, writeMulti),
\* whatever was on the disk before.
THEOREM SuccessIsWhole == Spec => []DoneMeansWritten
<1>1. IInv => DoneMeansWritten
  BY DEF IInv, Done, DoneMeansWritten
<1> QED
  BY <1>1, CommandInvariant, PTL

\* What a step does to a file that has its bytes.
Kept ==
    result' # None =>
        \A n \in DOMAIN result'.files : disk[n] = result'.files[n] => disk'[n] = disk[n]

\* Making directories does not, since a file where a directory must be is refused; nor does
\* the truncation, which is of the file at hand and only if it differs.
LEMMA StepKeeps == IInv /\ [Next]_vars => Kept
<1> SUFFICES ASSUME IInv, [Next]_vars, result' # None,
                    NEW n \in DOMAIN result'.files, disk[n] = result'.files[n]
             PROVE  disk'[n] = disk[n]
  BY DEF Kept
<1> USE DEF IInv
<1>1. CASE Place
  <2>1. result' = result /\ result # None
    BY <1>1 DEF Place, Stages, Writing
  <2>2. FilesOfResult
    BY <2>1, ResultFiles
  <2>3. disk[n] \in Contents /\ n \in DOMAIN disk
    BY <2>1, <2>2 DEF FilesOfResult, TypeOK
  <2> QED
    BY <1>1, <2>3 DEF Place, Blocked, Contents
<1>2. CASE Truncate
  <2>1. result' = result /\ result # None
    BY <1>2 DEF Truncate, Stages, Writing
  <2>2. disk[File] # Content
    BY <1>2 DEF Truncate, Filled
  <2>3. n # File
    BY <2>1, <2>2 DEF Content
  <2> QED
    BY <1>2, <2>3 DEF Truncate, TypeOK
<1>3. CASE Fill
  <2>1. result' = result
    BY <1>3 DEF Fill
  <2> QED
    BY <1>3, <2>1 DEF Fill, Content, TypeOK
<1>4. CASE UNCHANGED disk
  BY <1>4
<1> QED
  BY <1>1, <1>2, <1>3, <1>4
  DEF Next, vars, Disks, Start, ParseArgs, ResolvePolicy, ReadInputs, OpenCache, NewEngine,
      EvaluationSucceeds, EvaluationFails, WriteTrace, OpenSink, WriteLine, Finish, CallFails,
      Release, Kill

\* A file that has its bytes is not rewritten (writeMulti).
THEOREM UnchangedIsKept == Spec => UnchangedKept
<1>1. IInv /\ [Next]_vars => [Kept]_vars
  BY StepKeeps
<1>2. Spec => [][Kept]_vars
  BY <1>1, CommandInvariant, PTL DEF Spec
<1> QED
  BY <1>2, Zenon DEF UnchangedKept, Kept

\* With -y, the lines are those of a stream of documents that was evaluated.
Streamed ==
    result # None /\ inv.stream =>
        \E documents \in Documents : result.lines = StreamLines(documents)

\* The lines and the command line stay, once there.
LEMMA StepStreams == IInv /\ Streamed /\ [Next]_vars => Streamed'
<1> SUFFICES ASSUME IInv, Streamed, [Next]_vars PROVE Streamed'
  OBVIOUS
<1>1. CASE EvaluationSucceeds
  <2>1. CameTo /\ inv' = inv
    BY <1>1, EvaluationComesTo DEF EvaluationSucceeds, IInv
  <2> QED
    BY <2>1 DEF CameTo, Streamed
<1>2. CASE Start
  BY <1>2 DEF Start, Streamed
<1>3. CASE UNCHANGED <<inv, result>>
  BY <1>3 DEF Streamed
<1> QED
  BY <1>1, <1>2, <1>3
  DEF Next, vars, ParseArgs, ResolvePolicy, ReadInputs, OpenCache, NewEngine, EvaluationFails,
      WriteTrace, OpenSink, WriteLine, Place, Truncate, Fill, Finish, CallFails, Release, Kill

\* The texts and files arrive as they were framed, and no payload means two things
\* (protocol.go), in every state of every run.
THEOREM FramesAreExact == Spec => []FramesExact
<1>1. Init => Streamed
  BY DEF Init, Streamed
<1>2. Spec => []Streamed
  BY <1>1, StepStreams, CommandInvariant, PTL DEF Spec
<1>3. IInv /\ Streamed => FramesExact
  <2> SUFFICES ASSUME IInv, Streamed PROVE FramesExact
    OBVIOUS
  <2>1. result # None => result.files \in MultiResults \cup {None}
    BY DEF IInv, TypeOK, Results
  <2>2. RoundTrips /\ PayloadsExact /\ ResultsExact
    BY TextsRoundTrip, PayloadsAreExact, ResultsAreExact
  <2> QED
    BY <2>1, <2>2 DEF FramesExact, Streamed
<1> QED
  BY <1>2, <1>3, CommandInvariant, PTL

-----------------------------------------------------------------------------
(* The policy                                                              *)

\* What a flag is.
FlagType == [field : STRING, digits : Nat, scale : Nat \ {0}]

\* A count within the quotient has a product within the word: what parseByteSize relies on.
LEMMA ProductFits ==
  ASSUME NEW m \in Nat, NEW s \in Nat \ {0}, NEW d \in Nat \ {0}, d <= m \div s
  PROVE  d * s \in 1..m
<1>1. m = s * (m \div s) + (m % s) /\ m % s >= 0 /\ m \div s \in Nat
  OBVIOUS
<1>2. PICK e \in Nat : m \div s = d + e
  <2>1. (m \div s) - d \in Nat /\ m \div s = d + ((m \div s) - d)
    BY <1>1
  <2> QED
    BY <2>1
<1>3. s * (d + e) = s * d + s * e /\ s * e >= 0 /\ s * d >= 1 /\ s * d = d * s /\ s * d \in Nat
  OBVIOUS
<1> QED
  BY <1>1, <1>2, <1>3

\* The product of a flag that parses does not wrap, fits the field it sets, and is
\* not zero.
LEMMA ParsedValue ==
  ASSUME NEW flag \in FlagType, Parses(flag)
  PROVE  /\ flag.field \in Fields
         /\ Narrowed(flag) = flag.digits * Scale(flag)
         /\ Narrowed(flag) \in Nat \ {0}
<1>1. Scale(flag) \in Nat \ {0}
  BY DEF Scale, FlagType
<1>2. flag.digits \in Nat \ {0} /\ flag.digits <= MaxUint64 \div Scale(flag) /\ MaxUint64 \in Nat
  BY WordsAssumption DEF Parses, FlagType
<1>3. flag.field \in Fields
  BY DEF Parses, SizeFlags, CountFlags, Fields, EngineFields, RequestFields
<1> DEFINE v == flag.digits * Scale(flag)
<1>4. v \in 1..MaxUint64
  BY <1>1, <1>2, ProductFits
<1> HIDE DEF v
<1>5. v % (MaxUint64 + 1) = v
  BY <1>2, <1>4
<1>6. parseByteSize(flag) = v
  BY <1>5 DEF parseByteSize, v
<1>7. flag.field \in WideFlags \cup {"MaxStack"} \/ v <= MaxUint32
  BY DEF Parses, v
<1>8. v <= MaxUint32 => v % (MaxUint32 + 1) = v
  BY <1>4, WordsAssumption
<1>9. Narrowed(flag) = v
  BY <1>6, <1>7, <1>8 DEF Narrowed
<1> QED
  BY <1>2, <1>3, <1>4, <1>9 DEF v

\* The policy after every flag.
LEMMA OverrideByFlag ==
  ASSUME NEW base \in [Fields -> Int], NEW flags \in Seq(FlagType),
         \A k \in 1..Len(flags) : Parses(flags[k])
  PROVE  \E f \in [0..Len(flags) -> [Fields -> Int]] :
            /\ f[0] = base
            /\ \A i \in 1..Len(flags) :
                  f[i] = [f[i - 1] EXCEPT ![flags[i].field] = Narrowed(flags[i])]
            /\ Override(base, flags) = f[Len(flags)]
<1> DEFINE n == Len(flags)
           S == [Fields -> Int]
           next(i, p) == [p EXCEPT ![flags[i].field] = Narrowed(flags[i])]
           step == [i \in 1..n |-> [p \in S |-> next(i, p)]]
           Sets(f) == f = [i \in 0..n |-> IF i = 0 THEN base ELSE next(i, f[i - 1])]
<1>1. n \in Nat /\ base \in S
  OBVIOUS
<1>2. ASSUME NEW i \in 1..n PROVE flags[i].field \in Fields /\ Narrowed(flags[i]) \in Int
  <2>1. flags[i] \in FlagType /\ Parses(flags[i])
    OBVIOUS
  <2> QED
    BY <2>1, ParsedValue
<1>3. ASSUME NEW i \in 1..n, NEW p \in S PROVE next(i, p) \in S
  BY <1>2
<1>4. Override(base, flags) = (CHOOSE f : Sets(f))[n]
  BY Zenon DEF Override
<1>5. step \in [1..n -> [S -> S]]
  BY <1>3
<1>6. \A i \in 1..n, p \in S : step[i][p] = next(i, p)
  OBVIOUS
<1> HIDE DEF n, S, step, next
<1>7. PICK f \in [0..n -> S] : Iterates(f, n, base, step)
  BY <1>1, <1>5, Iteration
<1>8. f[0] = base /\ \A i \in 1..n : f[i - 1] \in S /\ f[i] = step[i][f[i - 1]]
  BY <1>1, <1>7 DEF Iterates
<1>9. \A i \in 1..n : f[i] = next(i, f[i - 1])
  BY <1>6, <1>8
<1>10. Sets(f)
  <2>1. f = [i \in 0..n |-> f[i]]
    OBVIOUS
  <2>2. \A i \in 0..n : f[i] = IF i = 0 THEN base ELSE next(i, f[i - 1])
    BY <1>1, <1>8, <1>9
  <2> QED
    BY <2>1, <2>2
<1> DEFINE g == CHOOSE h : Sets(h)
<1>11. Sets(g)
  BY <1>10
<1> HIDE DEF g
<1>12. g[0] = base /\ \A i \in 1..n : g[i] = next(i, g[i - 1])
  BY <1>1, <1>11
<1>13. GoOnAlike(f, g, n)
  BY <1>8, <1>9, <1>12 DEF GoOnAlike
<1>14. Alike(f, g, n)
  BY <1>1, <1>13, OneIteration
<1>15. Override(base, flags) = f[n]
  BY <1>1, <1>4, <1>14 DEF g, Alike
<1> QED
  BY <1>8, <1>9, <1>15 DEF n, S, next

\* The last flag that names a ceiling sets it, and no other does.
LastNaming(flags, n, c, k) ==
    k \in 1..n /\ flags[k].field = c /\ \A j \in 1..n : flags[j].field = c => j <= k

\* Override does that, and leaves every other ceiling as it was.
LEMMA OverrideByLast ==
  ASSUME NEW base \in [Fields -> Int], NEW flags \in Seq(FlagType),
         \A k \in 1..Len(flags) : Parses(flags[k]), NEW c \in Fields
  PROVE  /\ Override(base, flags) \in [Fields -> Int]
         /\ (\A k \in 1..Len(flags) : flags[k].field # c) => Override(base, flags)[c] = base[c]
         /\ \A k : LastNaming(flags, Len(flags), c, k) =>
               Override(base, flags)[c] = Narrowed(flags[k])
<1> DEFINE n == Len(flags)
<1>1. PICK f \in [0..n -> [Fields -> Int]] :
         /\ f[0] = base
         /\ \A i \in 1..n : f[i] = [f[i - 1] EXCEPT ![flags[i].field] = Narrowed(flags[i])]
         /\ Override(base, flags) = f[n]
  BY OverrideByFlag
<1>2. n \in Nat
  OBVIOUS
<1> HIDE DEF n
<1>3. ASSUME NEW i \in 1..n PROVE f[i - 1] \in [Fields -> Int] /\ i - 1 \in 0..n
  BY <1>1, <1>2
<1> DEFINE Set(m) ==
             /\ (\A k \in 1..m : flags[k].field # c) => f[m][c] = base[c]
             /\ \A k : LastNaming(flags, m, c, k) => f[m][c] = Narrowed(flags[k])
           T == {m \in 0..n : Set(m)}
<1>4. 0 \in T
  BY <1>1, <1>2 DEF LastNaming
<1>5. ASSUME NEW m \in 1..n, m - 1 \in T PROVE m \in T
  <2>0. m \in Nat /\ m \in 1..m /\ \A k \in 1..m : k \in 1..m - 1 \/ k = m
    BY <1>2
  <2>1. Set(m - 1)
    BY <1>5
  <2>2. f[m] = [f[m - 1] EXCEPT ![flags[m].field] = Narrowed(flags[m])]
    BY <1>1
  <2>3. CASE flags[m].field = c
    <3>1. f[m][c] = Narrowed(flags[m])
      BY <1>3, <2>2, <2>3
    <3>2. ASSUME NEW k, LastNaming(flags, m, c, k) PROVE k = m
      BY <2>0, <2>3, <3>2 DEF LastNaming
    <3> QED
      BY <2>0, <2>3, <3>1, <3>2
  <2>4. CASE flags[m].field # c
    <3>1. f[m][c] = f[m - 1][c]
      BY <1>3, <2>2, <2>4
    <3>2. ASSUME NEW k, LastNaming(flags, m, c, k) PROVE LastNaming(flags, m - 1, c, k)
      BY <2>0, <2>4, <3>2 DEF LastNaming
    <3>3. (\A k \in 1..m : flags[k].field # c) => \A k \in 1..m - 1 : flags[k].field # c
      BY <2>0
    <3>4. (\A k \in 1..m : flags[k].field # c) => f[m][c] = base[c]
      BY <2>1, <3>1, <3>3
    <3>5. ASSUME NEW k, LastNaming(flags, m, c, k) PROVE f[m][c] = Narrowed(flags[k])
      BY <2>1, <3>1, <3>2, <3>5
    <3>6. Set(m)
      BY <3>4, <3>5
    <3> HIDE DEF Set
    <3> QED
      BY <3>6
  <2> QED
    BY <2>3, <2>4
<1> HIDE DEF T
<1>6. 0..n \subseteq T
  BY <1>2, <1>4, <1>5, UpTo
<1>7. Set(n)
  BY <1>2, <1>6 DEF T
<1> QED
  BY <1>1, <1>2, <1>7 DEF n

\* The defaults are within the ceilings, and none of them is zero.
LEMMA Defaults ==
  \A f \in Fields :
     /\ defaultConfig[f] \in Nat \ {0} /\ hardCeilings[f] \in Nat
     /\ defaultConfig[f] <= hardCeilings[f]
BY SMT DEF Fields, EngineFields, RequestFields, defaultConfig, hardCeilings

\* The flags that a command line has, and its file.
Sensible(i) ==
    /\ i.flags \in Seq(FlagType)
    /\ DOMAIN i.file \subseteq Fields
    /\ \A f \in DOMAIN i.file : i.file[f] \in Int

\* The policy resolved is the one asked for.
Policied(p, file, flags) ==
    /\ p \in [Fields -> Int]
    /\ \A f \in Fields : Inherit(p[f], defaultConfig[f]) = Asked(f, file, flags)

\* The policy resolved is, when normalized, what the operator asked for.
LEMMA PolicyAsked ==
  ASSUME NEW i, Sensible(i), \A k \in 1..Len(i.flags) : Parses(i.flags[k])
  PROVE  Policied(resolvePolicy(i.file, i.flags), i.file, i.flags)
<1> DEFINE file == i.file
           flags == i.flags
           base == loadPolicyFile(file)
           n == Len(flags)
<1>1. /\ flags \in Seq(FlagType) /\ n \in Nat
      /\ \A k \in 1..n : flags[k] \in FlagType /\ Parses(flags[k])
  BY DEF Sensible
<1>2. /\ base \in [Fields -> Int]
      /\ \A f \in Fields : base[f] = IF f \in DOMAIN file THEN file[f] ELSE defaultConfig[f]
  BY Defaults DEF loadPolicyFile, Sensible
<1>3. resolvePolicy(file, flags) = Override(base, flags)
  BY DEF resolvePolicy
<1> HIDE DEF base, file, flags
<1>4. ASSUME NEW f \in Fields
      PROVE  /\ Override(base, flags) \in [Fields -> Int]
             /\ Inherit(Override(base, flags)[f], defaultConfig[f]) = Asked(f, file, flags)
  <2> DEFINE naming == {k \in 1..n : flags[k].field = f}
             last == CHOOSE k \in naming : \A j \in naming : j <= k
  <2>1. /\ Override(base, flags) \in [Fields -> Int]
        /\ (\A k \in 1..n : flags[k].field # f) => Override(base, flags)[f] = base[f]
        /\ \A k : LastNaming(flags, n, f, k) => Override(base, flags)[f] = Narrowed(flags[k])
    BY <1>1, <1>2, OverrideByLast
  <2> HIDE DEF n
  <2>2. Asked(f, file, flags) =
           IF naming # {} THEN flags[last].digits * Scale(flags[last])
           ELSE IF f \in DOMAIN file /\ file[f] # 0 THEN file[f] ELSE defaultConfig[f]
    BY Zenon DEF Asked, n
  <2>3. CASE naming # {}
    <3>1. \E k \in naming : \A j \in naming : j <= k
      <4>1. naming \subseteq 0..n
        BY <1>1
      <4> HIDE DEF naming
      <4> QED
        BY <1>1, <2>3, <4>1, GreatestElement
    <3>2. last \in naming /\ \A j \in naming : j <= last
      BY <3>1
    <3> HIDE DEF last
    <3>3. LastNaming(flags, n, f, last) /\ last \in 1..n
      BY <3>2 DEF LastNaming
    <3>4. Override(base, flags)[f] = Narrowed(flags[last])
      BY <2>1, <3>3
    <3>5. /\ Narrowed(flags[last]) = flags[last].digits * Scale(flags[last])
          /\ Narrowed(flags[last]) # 0
      BY <1>1, <3>3, ParsedValue
    <3> QED
      BY <2>1, <2>2, <2>3, <3>4, <3>5 DEF Inherit
  <2>4. CASE naming = {}
    <3>1. Override(base, flags)[f] = base[f]
      BY <2>1, <2>4
    <3> QED
      BY <1>2, <2>1, <2>2, <2>4, <3>1 DEF Inherit
  <2> QED
    BY <2>3, <2>4
<1>5. Override(base, flags) \in [Fields -> Int]
  <2>1. "MaxFuel" \in Fields
    BY DEF Fields, RequestFields
  <2> QED
    BY <1>4, <2>1
<1> QED
  BY <1>3, <1>4, <1>5 DEF Policied, file, flags

\* To normalize a policy again changes nothing.
LEMMA NormalizedTwice ==
  ASSUME NEW p \in [Fields -> Int], ConfigAccepted(p)
  PROVE  /\ normalizeConfig(p) \in [Fields -> Int]
         /\ ConfigAccepted(normalizeConfig(p))
         /\ normalizeConfig(normalizeConfig(p)) = normalizeConfig(p)
<1> DEFINE q == normalizeConfig(p)
<1>1. q \in [Fields -> Int] /\ \A f \in Fields : q[f] = Inherit(p[f], defaultConfig[f]) /\ q[f] # 0
  BY Defaults DEF normalizeConfig, Inherit
<1>2. \A f \in Fields : 0 <= q[f] /\ q[f] <= hardCeilings[f]
  BY <1>1, Defaults DEF ConfigAccepted, Inherit
<1>3. normalizeConfig(q) = [f \in Fields |-> Inherit(q[f], defaultConfig[f])]
  BY DEF normalizeConfig
<1> HIDE DEF q
<1>4. \A f \in Fields : Inherit(q[f], defaultConfig[f]) = q[f]
  BY <1>1 DEF Inherit
<1>5. normalizeConfig(q) = q
  BY <1>1, <1>3, <1>4
<1> QED
  BY <1>1, <1>2, <1>5 DEF q, ConfigAccepted

\* A policy is not the lack of one.
LEMMA NoPolicy == \A p \in [Fields -> Int] : p # None
<1> TAKE p \in [Fields -> Int]
<1>1. "MaxFuel" \in DOMAIN p
  BY DEF Fields, RequestFields
<1> QED
  BY <1>1 DEF None

\* A command line is known from the start, its flags parsed before they are resolved, and
\* its policy resolved before an engine is made.
Resolving ==
    /\ pc # "idle" => inv \in Invocations
    /\ pc = "resolving" => \A k \in 1..Len(inv.flags) : Parses(inv.flags[k])
    /\ policy # None => policy \in [Fields -> Int]
    /\ pc \in {"reading", "caching", "creating"} => policy # None
    /\ PolicyInForce

\* Every step keeps that.
LEMMA StepResolves == Resolving /\ [Next]_vars => Resolving'
<1> SUFFICES ASSUME Resolving, [Next]_vars PROVE Resolving'
  OBVIOUS
<1>1. CASE Start
  BY <1>1 DEF Start, Resolving, PolicyInForce
<1>2. CASE ParseArgs
  BY <1>2 DEF ParseArgs, WellFormed, Resolving, PolicyInForce, Exit
<1>3. CASE ResolvePolicy
  <2> DEFINE asked == resolvePolicy(inv.file, inv.flags)
  <2>0. inv' = inv /\ inv \in Invocations /\ pc' # "resolving"
    BY <1>3 DEF ResolvePolicy, Resolving, Exit
  <2>1. Policied(asked, inv.file, inv.flags)
    <3>1. Sensible(inv) /\ \A k \in 1..Len(inv.flags) : Parses(inv.flags[k])
      BY <1>3, InvocationsAssumption DEF ResolvePolicy, Resolving, Sensible, FlagType
    <3> QED
      BY <3>1, PolicyAsked
  <2>2. CASE ConfigAccepted(asked)
    <3>1. policy' = normalizeConfig(asked)
      BY <1>3, <2>2 DEF ResolvePolicy
    <3>2. /\ policy' \in [Fields -> Int] /\ ConfigAccepted(policy')
          /\ normalizeConfig(policy') = policy'
      BY <2>1, <2>2, <3>1, NormalizedTwice DEF Policied
    <3>3. \A f \in Fields : policy'[f] = Asked(f, inv.file, inv.flags)
      BY <2>1, <3>1 DEF Policied, normalizeConfig
    <3> QED
      BY <2>0, <3>2, <3>3, NoPolicy DEF Resolving, PolicyInForce
  <2>3. CASE ~ ConfigAccepted(asked)
    <3>1. policy' = policy /\ pc' = "leaving"
      BY <1>3, <2>3 DEF ResolvePolicy, Exit
    <3> QED
      BY <2>0, <3>1 DEF Resolving, PolicyInForce
  <2> QED
    BY <2>2, <2>3
<1>4. CASE NewEngine
  <2>1. policy' = policy
    BY <1>4 DEF NewEngine, Resolving, PolicyInForce
  <2> QED
    BY <1>4, <2>1 DEF NewEngine, Resolving, PolicyInForce
<1>5. CASE /\ UNCHANGED <<inv, policy>> /\ pc' # "resolving" /\ pc # "idle"
           /\ pc' = "caching" => pc = "reading"
           /\ pc' = "creating" => pc = "caching"
           /\ pc' # "reading"
  BY <1>5 DEF Resolving, PolicyInForce
<1>6. CASE UNCHANGED <<inv, policy, pc>>
  BY <1>6 DEF Resolving, PolicyInForce
<1>7. CASE ReadInputs
  BY <1>5, <1>7 DEF ReadInputs, Exit
<1>8. CASE OpenCache
  BY <1>5, <1>8 DEF OpenCache
<1>9. CASE EvaluationSucceeds \/ EvaluationFails \/ WriteTrace
  BY <1>5, <1>9 DEF EvaluationSucceeds, EvaluationFails, WriteTrace, Exit
<1>10. CASE OpenSink \/ WriteLine \/ Place \/ Truncate \/ Fill \/ Finish
  BY <1>5, <1>10 DEF OpenSink, WriteLine, Place, Truncate, Fill, Finish, Exit
<1>11. CASE CallFails \/ Release \/ Kill
  BY <1>5, <1>11 DEF CallFails, Release, Kill, Calling, Exit
<1>12. CASE UNCHANGED vars
  BY <1>6, <1>12 DEF vars
<1> QED
  BY <1>1, <1>2, <1>3, <1>4, <1>7, <1>8, <1>9, <1>10, <1>11, <1>12 DEF Next

\* The policy in force is to the byte what the operator asked for (resolvePolicy,
\* parseByteSize, normalizeConfig), for words of any width.
THEOREM PolicyIsInForce == Spec => []PolicyInForce
<1>1. Init => Resolving
  BY DEF Init, Resolving, PolicyInForce
<1>2. Spec => []Resolving
  BY <1>1, StepResolves, PTL DEF Spec
<1>3. Resolving => PolicyInForce
  BY DEF Resolving
<1> QED
  BY <1>2, <1>3, PTL
=============================================================================
