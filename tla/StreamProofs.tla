---------------------------- MODULE StreamProofs ----------------------------
(***************************************************************************)
(* One turn on its way to the page, proved for any texts, arguments,       *)
(* number of events and of tries: each event is given to the page once,    *)
(* whatever was cut, opened again or replayed; the answer that is kept     *)
(* says what the events said; and the page that is told the end shows      *)
(* how the answer begins.                                                  *)
(***************************************************************************)
EXTENDS Stream, SequenceTheorems, WellFoundedInduction, NaturalsInduction, TLAPS

-----------------------------------------------------------------------------
(* Induction, and folds over a sequence                                    *)

LessThan == {p \in Nat \X Nat : p[1] < p[2]}

\* Of some numbers one is the least.
LEMMA LeastNumber ==
  ASSUME NEW numbers \in SUBSET Nat, numbers # {}
  PROVE  \E n \in numbers : \A m \in numbers : n <= m
<1>1. IsWellFoundedOn(LessThan, Nat)
  BY NatLessThanWellFounded DEF OpToRel, LessThan
<1>2. PICK n \in numbers : \A m \in numbers : <<m, n>> \notin LessThan
  BY <1>1, WFMin
<1>3. ASSUME NEW m \in numbers PROVE n <= m
  <2>1. <<m, n>> \notin LessThan /\ <<m, n>> \in Nat \X Nat
    BY <1>2
  <2>2. ~(<<m, n>>[1] < <<m, n>>[2])
    BY ONLY <2>1 DEF LessThan
  <2> QED
    BY <2>2
<1> QED
  BY <1>3

\* Counting up: what holds at 0 and, when it holds at a number, at the next.
LEMMA Counting ==
  ASSUME NEW n \in Nat, NEW right, 0 \in right,
         \A i \in 1..n : i - 1 \in right => i \in right
  PROVE  \A i \in 0..n : i \in right
<1> DEFINE wrong == {i \in 0..n : i \notin right}
<1>1. ASSUME wrong # {} PROVE FALSE
  <2>1. wrong \in SUBSET Nat
    OBVIOUS
  <2>2. PICK i \in wrong : \A j \in wrong : i <= j
    BY <1>1, <2>1, LeastNumber
  <2>3. i \in 1..n /\ i - 1 \in 0..n /\ ~(i <= i - 1)
    BY <2>2
  <2>4. i - 1 \in right
    BY <2>2, <2>3
  <2> QED
    BY <2>2, <2>3, <2>4
<1> QED
  BY <1>1

\* What holds of the empty sequence and, when it holds of one, of one element more.
LEMMA Lengthening ==
  ASSUME NEW S, NEW right, <<>> \in right,
         \A s \in Seq(S), e \in S : s \in right => Append(s, e) \in right
  PROVE  \A s \in Seq(S) : s \in right
<1> SUFFICES ASSUME NEW s \in Seq(S) PROVE s \in right
  OBVIOUS
<1> DEFINE n == Len(s)
           places == {k \in 0..n : SubSeq(s, 1, k) \in right}
<1>0. n \in Nat
  BY LenProperties
<1>1. 0 \in places
  <2>1. SubSeq(s, 1, 0) = <<>>
    BY SubSeqEmpty
  <2>2. 0 \in 0..n
    BY <1>0
  <2> QED
    BY <2>1, <2>2
<1>2. ASSUME NEW k \in 1..n, k - 1 \in places PROVE k \in places
  <2>1. /\ SubSeq(s, 1, k - 1) \in Seq(S) /\ s[k] \in S
        /\ SubSeq(s, 1, k) = Append(SubSeq(s, 1, k - 1), s[k])
    <3>1. n \in Nat /\ s[k] \in S /\ \A i \in 1..n : s[i] \in S
      BY LenProperties, ElementOfSeq
    <3>2. SubSeq(s, 1, k - 1) \in Seq(S) /\ SubSeq(s, 1, k) \in Seq(S)
      BY <3>1, SubSeqProperties
    <3>3. SubSeq(s, 1, k) = SubSeq(s, 1, k - 1) \o <<s[k]>>
      BY <3>1, SubSeqRecursiveSecond
    <3> QED
      BY <3>1, <3>2, <3>3, AppendIsConcat
  <2>2. SubSeq(s, 1, k - 1) \in right
    BY <1>2
  <2>3. Append(SubSeq(s, 1, k - 1), s[k]) \in right
    BY <2>1, <2>2
  <2>4. k \in 0..n
    BY <1>0
  <2> QED
    BY <2>1, <2>3, <2>4
<1>3. \A k \in 0..n : k \in places
  <2> HIDE DEF places, n
  <2>1. \A k \in 1..n : k - 1 \in places => k \in places
    BY <1>2
  <2> QED
    BY <1>0, <1>1, <2>1, Counting
<1>4. SubSeq(s, 1, Len(s)) = s /\ Len(s) \in 0..n
  BY SubSeqFull, LenProperties
<1> QED
  BY <1>3, <1>4

\* f holds what a fold has come to after each of the elements.
Folds(f, start, step, s) ==
  f = [n \in 0..Len(s) |-> IF n = 0 THEN start ELSE step[f[n - 1]][s[n]]]

LEMMA FoldExists ==
  ASSUME NEW V, NEW S, NEW start \in V, NEW step \in [V -> [S -> V]], NEW s \in Seq(S)
  PROVE  \E f \in [0..Len(s) -> V] : Folds(f, start, step, s)
<1> DEFINE right == {z \in Seq(S) : \E f \in [0..Len(z) -> V] : Folds(f, start, step, z)}
<1>1. <<>> \in right
  <2> DEFINE f == [n \in 0..0 |-> start]
  <2>1. f \in [0..Len(<<>>) -> V] /\ Folds(f, start, step, <<>>)
    BY DEF Folds
  <2> QED
    BY <2>1
<1>2. ASSUME NEW z \in Seq(S), NEW e \in S, z \in right PROVE Append(z, e) \in right
  <2>1. PICK f \in [0..Len(z) -> V] : Folds(f, start, step, z)
    BY <1>2
  <2> DEFINE n == Len(z)
             y == Append(z, e)
             value == step[f[n]][e]
             g == [m \in 0..n + 1 |-> IF m = n + 1 THEN value ELSE f[m]]
  <2>2. /\ n \in Nat /\ y \in Seq(S) /\ Len(y) = n + 1 /\ y[n + 1] = e
        /\ \A m \in 1..n : y[m] = z[m]
    OBVIOUS
  <2>3. value \in V
    <3>1. n \in 0..n
      BY <2>2
    <3>2. f[n] \in V
      BY <3>1
    <3>3. step[f[n]] \in [S -> V]
      BY <3>2
    <3> QED
      BY <3>3
  <2> HIDE DEF n, y, value
  <2>4. g \in [0..Len(y) -> V]
    BY <2>2, <2>3 DEF n
  <2>5. \A m \in 0..n : f[m] = IF m = 0 THEN start ELSE step[f[m - 1]][z[m]]
    BY <2>1 DEF Folds, n
  <2>6. ASSUME NEW m \in 0..n + 1
        PROVE  g[m] = IF m = 0 THEN start ELSE step[g[m - 1]][y[m]]
    <3>1. CASE m = n + 1
      <4>1. g[m] = value /\ g[m - 1] = f[n] /\ y[m] = e /\ m # 0
        BY <2>2, <3>1
      <4> QED
        BY <4>1 DEF value
    <3>2. CASE m \in 1..n
      <4>0. m \in Nat /\ m # n + 1 /\ m - 1 \in 0..n + 1 /\ m - 1 # n + 1
        BY <2>2, <3>2
      <4>1. g[m] = f[m] /\ g[m - 1] = f[m - 1] /\ y[m] = z[m] /\ m \in 0..n /\ m # 0
        BY <2>2, <3>2, <4>0
      <4> QED
        BY <2>5, <4>1
    <3>3. CASE m = 0
      <4>1. g[m] = f[0] /\ 0 \in 0..n
        BY <2>2, <3>3
      <4> QED
        BY <2>5, <3>3, <4>1
    <3> QED
      BY <2>2, <3>1, <3>2, <3>3
  <2> HIDE DEF g
  <2>7. g = [m \in 0..Len(y) |-> IF m = 0 THEN start ELSE step[g[m - 1]][y[m]]]
    BY <2>2, <2>4, <2>6
  <2> QED
    BY <2>2, <2>4, <2>7 DEF Folds, y
<1>3. \A z \in Seq(S) : z \in right
  <2> HIDE DEF right
  <2> QED
    BY <1>1, <1>2, Lengthening
<1> QED
  BY <1>3

\* g goes on from f as f does.
Follows(g, f, start, step, s) ==
  /\ g[0] = start
  /\ \A n \in 1..Len(s) : g[n - 1] = f[n - 1] => g[n] = step[f[n - 1]][s[n]]

\* A function that follows a fold is the fold.
LEMMA FoldIsOne ==
  ASSUME NEW start, NEW step, NEW S, NEW s \in Seq(S), NEW f, Folds(f, start, step, s),
         NEW g, Follows(g, f, start, step, s)
  PROVE  \A n \in 0..Len(s) : g[n] = f[n]
<1> DEFINE right == {n \in 0..Len(s) : g[n] = f[n]}
<1>1. \A n \in 0..Len(s) : f[n] = IF n = 0 THEN start ELSE step[f[n - 1]][s[n]]
  BY DEF Folds
<1>2. 0 \in right
  <2>1. 0 \in 0..Len(s)
    BY LenProperties
  <2> QED
    BY <1>1, <2>1 DEF Follows
<1>3. ASSUME NEW n \in 1..Len(s), n - 1 \in right PROVE n \in right
  <2>1. g[n] = step[f[n - 1]][s[n]]
    BY <1>3 DEF Follows
  <2>2. n \in 0..Len(s) /\ n # 0
    OBVIOUS
  <2>3. f[n] = step[f[n - 1]][s[n]]
    BY <1>1, <2>2
  <2> QED
    BY <2>1, <2>2, <2>3
<1>4. \A n \in 0..Len(s) : n \in right
  <2> HIDE DEF right
  <2>1. \A n \in 1..Len(s) : n - 1 \in right => n \in right
    BY <1>3
  <2>2. Len(s) \in Nat
    BY LenProperties
  <2> QED
    BY <1>2, <2>1, <2>2, Counting
<1> QED
  BY <1>4

\* What a fold comes to with one element more.
LEMMA FoldAppends ==
  ASSUME NEW start, NEW step, NEW S, NEW s \in Seq(S), NEW e \in S,
         NEW f, Folds(f, start, step, s), NEW g, Folds(g, start, step, Append(s, e))
  PROVE  g[Len(s) + 1] = step[f[Len(s)]][e]
<1> DEFINE y == Append(s, e)
<1>1. /\ Len(s) \in Nat /\ Len(y) = Len(s) + 1 /\ y[Len(s) + 1] = e
      /\ \A n \in 1..Len(s) : y[n] = s[n]
  OBVIOUS
<1>2. \A n \in 0..Len(s) + 1 : g[n] = IF n = 0 THEN start ELSE step[g[n - 1]][y[n]]
  BY <1>1 DEF Folds
<1> HIDE DEF y
<1>3. g[0] = start
  BY <1>1, <1>2
<1>4. ASSUME NEW n \in 1..Len(s), g[n - 1] = f[n - 1] PROVE g[n] = step[f[n - 1]][s[n]]
  <2>1. n \in 0..Len(s) + 1 /\ n # 0 /\ y[n] = s[n]
    BY <1>1
  <2> QED
    BY <1>2, <1>4, <2>1
<1>5. \A n \in 0..Len(s) : g[n] = f[n]
  <2>1. Follows(g, f, start, step, s)
    BY <1>3, <1>4 DEF Follows
  <2> QED
    BY <2>1, FoldIsOne
<1>6. /\ Len(s) + 1 \in 0..Len(s) + 1 /\ Len(s) + 1 # 0 /\ Len(s) \in 0..Len(s)
      /\ Len(s) + 1 - 1 = Len(s)
  BY <1>1
<1> QED
  BY <1>1, <1>2, <1>5, <1>6

-----------------------------------------------------------------------------
(* The text of some parts                                                  *)

\* Any string may be a character; the provers know of no literal that it is one.
Chars == STRING \cup {"pair", "replacement"}

Text == Seq(Chars)

LEMMA Joining ==
  /\ <<>> \in Text
  /\ \A a \in Text : a \o <<>> = a /\ <<>> \o a = a
  /\ \A a, b \in Text : a \o b \in Text
  /\ \A a, b, c \in Text : (a \o b) \o c = a \o (b \o c)
BY EmptySeq, ConcatEmptySeq, ConcatProperties, ConcatAssociative DEF Text

\* What has a text has one of characters.
HaveText(S) == \A p \in S : p.kind = "text" => "text" \in DOMAIN p /\ p.text \in Text

TextStep(S) == [v \in Text |-> [p \in S |-> IF p.kind = "text" THEN v \o p.text ELSE v]]

LEMMA TextStepIs ==
  ASSUME NEW S, HaveText(S)
  PROVE  /\ <<>> \in Text /\ TextStep(S) \in [Text -> [S -> Text]]
         /\ \A v \in Text, p \in S :
              TextStep(S)[v][p] = IF p.kind = "text" THEN v \o p.text ELSE v
<1>1. ASSUME NEW v \in Text, NEW p \in S
      PROVE  (IF p.kind = "text" THEN v \o p.text ELSE v) \in Text
  <2>1. CASE p.kind = "text"
    <3>1. p.text \in Text
      BY <2>1 DEF HaveText
    <3>2. v \o p.text \in Text
      BY <3>1, ConcatProperties DEF Text
    <3> QED
      BY <2>1, <3>2
  <2> QED
    BY <2>1
<1>2. <<>> \in Text
  BY EmptySeq DEF Text
<1> QED
  BY <1>1, <1>2 DEF TextStep

LEMMA TextFolds ==
  ASSUME NEW S, HaveText(S), NEW s \in Seq(S)
  PROVE  \E f \in [0..Len(s) -> Text] : Folds(f, <<>>, TextStep(S), s) /\ TextOf(s) = f[Len(s)]
<1> DEFINE step == TextStep(S)
           IsText(f) == f = [n \in 0..Len(s) |->
                               IF n = 0 THEN <<>>
                               ELSE IF s[n].kind = "text" THEN f[n - 1] \o s[n].text
                               ELSE f[n - 1]]
           text == CHOOSE f : IsText(f)
<1>1. /\ <<>> \in Text /\ step \in [Text -> [S -> Text]]
      /\ \A v \in Text, p \in S : step[v][p] = IF p.kind = "text" THEN v \o p.text ELSE v
  BY TextStepIs
<1>2. Len(s) \in Nat /\ \A n \in 1..Len(s) : s[n] \in S
  BY LenProperties, ElementOfSeq
<1> HIDE DEF step
<1>3. PICK f \in [0..Len(s) -> Text] : Folds(f, <<>>, step, s)
  BY <1>1, FoldExists
<1>4. \A n \in 0..Len(s) : f[n] = IF n = 0 THEN <<>> ELSE step[f[n - 1]][s[n]]
  BY <1>3 DEF Folds
<1>5. IsText(f)
  <2>1. ASSUME NEW n \in 0..Len(s)
        PROVE  f[n] = IF n = 0 THEN <<>>
                      ELSE IF s[n].kind = "text" THEN f[n - 1] \o s[n].text
                      ELSE f[n - 1]
    <3>1. CASE n = 0
      BY <1>4, <3>1
    <3>2. CASE n # 0
      <4>1. n \in 1..Len(s) /\ n - 1 \in 0..Len(s)
        BY <1>2, <3>2
      <4>2. f[n - 1] \in Text /\ s[n] \in S
        BY <1>2, <1>3, <4>1
      <4>3. f[n] = step[f[n - 1]][s[n]]
        BY <1>4, <3>2
      <4> QED
        BY <1>1, <3>2, <4>2, <4>3
    <3> QED
      BY <3>1, <3>2
  <2> QED
    BY <1>3, <2>1
<1>6. IsText(text) /\ TextOf(s) = text[Len(s)]
  BY <1>5 DEF TextOf
<1> HIDE DEF text
<1>7. \A n \in 0..Len(s) : text[n] = IF n = 0 THEN <<>>
                                  ELSE IF s[n].kind = "text" THEN text[n - 1] \o s[n].text
                                  ELSE text[n - 1]
  BY <1>6
<1>8. \A n \in 0..Len(s) : text[n] = f[n]
  <2>1. text[0] = <<>>
    BY <1>2, <1>7
  <2>2. ASSUME NEW n \in 1..Len(s), text[n - 1] = f[n - 1]
        PROVE  text[n] = step[f[n - 1]][s[n]]
    <3>1. n \in 0..Len(s) /\ n # 0 /\ n - 1 \in 0..Len(s)
      BY <1>2
    <3>2. f[n - 1] \in Text /\ s[n] \in S
      BY <1>2, <1>3, <3>1
    <3>3. text[n] = IF s[n].kind = "text" THEN text[n - 1] \o s[n].text ELSE text[n - 1]
      BY <1>7, <3>1
    <3> QED
      BY <1>1, <2>2, <3>2, <3>3
  <2>3. Follows(text, f, <<>>, step, s)
    BY <2>1, <2>2 DEF Follows
  <2> QED
    BY <1>3, <2>3, FoldIsOne
<1>9. Len(s) \in 0..Len(s)
  BY <1>2
<1> QED
  BY <1>3, <1>6, <1>8, <1>9 DEF step

\* The text of one part more.
LEMMA TextOfMore ==
  ASSUME NEW S, HaveText(S)
  PROVE  /\ TextOf(<<>>) = <<>>
         /\ \A s \in Seq(S) : TextOf(s) \in Text
         /\ \A s \in Seq(S), e \in S :
              TextOf(Append(s, e)) = IF e.kind = "text" THEN TextOf(s) \o e.text ELSE TextOf(s)
<1>1. TextOf(<<>>) = <<>>
  <2>1. <<>> \in Seq(S) /\ Len(<<>>) = 0
    BY EmptySeq
  <2>2. PICK f \in [0..Len(<<>>) -> Text] :
               Folds(f, <<>>, TextStep(S), <<>>) /\ TextOf(<<>>) = f[Len(<<>>)]
    BY <2>1, TextFolds
  <2>3. 0 \in 0..Len(<<>>)
    BY <2>1
  <2>4. f[0] = <<>>
    BY <2>2, <2>3 DEF Folds
  <2> QED
    BY <2>1, <2>2, <2>4
<1>2. ASSUME NEW s \in Seq(S) PROVE TextOf(s) \in Text
  <2>1. PICK f \in [0..Len(s) -> Text] : TextOf(s) = f[Len(s)]
    BY TextFolds
  <2>2. Len(s) \in 0..Len(s)
    BY LenProperties
  <2> QED
    BY <2>1, <2>2
<1>3. ASSUME NEW s \in Seq(S), NEW e \in S
      PROVE  TextOf(Append(s, e)) = IF e.kind = "text" THEN TextOf(s) \o e.text ELSE TextOf(s)
  <2>1. Append(s, e) \in Seq(S) /\ Len(Append(s, e)) = Len(s) + 1
    BY AppendProperties
  <2>2. PICK f \in [0..Len(s) -> Text] :
               Folds(f, <<>>, TextStep(S), s) /\ TextOf(s) = f[Len(s)]
    BY TextFolds
  <2>3. PICK g \in [0..Len(Append(s, e)) -> Text] :
               /\ Folds(g, <<>>, TextStep(S), Append(s, e))
               /\ TextOf(Append(s, e)) = g[Len(Append(s, e))]
    BY <2>1, TextFolds
  <2>4. g[Len(s) + 1] = TextStep(S)[f[Len(s)]][e]
    BY <2>2, <2>3, FoldAppends
  <2>5. TextOf(s) \in Text
    BY <1>2
  <2> QED
    BY <2>1, <2>2, <2>3, <2>4, <2>5, TextStepIs
<1> QED
  BY <1>1, <1>2, <1>3

\* The text of parts whose last one is gone on with.
LEMMA TextOfLonger ==
  ASSUME NEW S, HaveText(S), NEW s \in Seq(S), s # <<>>, NEW text \in Text,
         s[Len(s)].kind = "text", [s EXCEPT ![Len(s)].text = @ \o text] \in Seq(S)
  PROVE  TextOf([s EXCEPT ![Len(s)].text = @ \o text]) = TextOf(s) \o text
<1>1. PICK z \in Seq(S), e \in S : s = Append(z, e)
  BY SequenceEmptyOrAppend
<1>2. /\ Len(z) \in Nat /\ Len(s) = Len(z) + 1 /\ s[Len(z) + 1] = e
      /\ \A i \in 1..Len(z) : s[i] = z[i]
  BY <1>1, LenProperties, AppendProperties
<1> DEFINE n == Len(s)
           y == [s EXCEPT ![n].text = @ \o text]
<1>3. y \in Seq(S) /\ n \in 1..n /\ DOMAIN s = 1..n /\ Len(y) = n
  <2>1. DOMAIN s = 1..n /\ n \in Nat /\ n \in 1..n
    BY <1>2, LenProperties
  <2>2. DOMAIN y = 1..n /\ y \in Seq(S)
    BY <2>1
  <2> HIDE DEF y
  <2>3. Len(y) = n
    BY <2>1, <2>2, LenProperties
  <2> QED
    BY <2>1, <2>2, <2>3
<1>4. y[n] = [e EXCEPT !.text = @ \o text] /\ \A i \in 1..Len(z) : y[i] = z[i]
  BY <1>2, <1>3
<1> HIDE DEF y, n
<1>5. y[n] \in S
  BY <1>3, ElementOfSeq
<1>6. /\ e.kind = "text" /\ "text" \in DOMAIN e /\ e.text \in Text
      /\ y[n].kind = "text" /\ y[n].text = e.text \o text
  <2>1. e.kind = "text"
    BY <1>2
  <2>2. "text" \in DOMAIN e /\ e.text \in Text
    BY <2>1 DEF HaveText
  <2>3. y[n].kind = e.kind /\ y[n].text = e.text \o text
    BY <1>4, <2>2
  <2> QED
    BY <2>1, <2>2, <2>3
<1>7. y = Append(z, y[n])
  <2>1. /\ Append(z, y[n]) \in Seq(S) /\ Len(Append(z, y[n])) = n
        /\ \A i \in 1..Len(z) : Append(z, y[n])[i] = z[i]
        /\ Append(z, y[n])[n] = y[n]
    BY <1>2, <1>5, AppendProperties DEF n
  <2>2. \A i \in 1..n : i \in 1..Len(z) \/ i = n
    BY <1>2 DEF n
  <2>3. \A i \in 1..Len(y) : y[i] = Append(z, y[n])[i]
    BY <1>3, <1>4, <2>1, <2>2
  <2> QED
    BY <1>3, <2>1, <2>3, SeqEqual
<1>8. TextOf(y) = TextOf(z) \o y[n].text
  <2>1. \A p \in S : p.kind = "text" => TextOf(Append(z, p)) = TextOf(z) \o p.text
    BY TextOfMore
  <2>2. TextOf(Append(z, y[n])) = TextOf(z) \o y[n].text
    BY <1>5, <1>6, <2>1
  <2> QED
    BY <1>7, <2>2
<1>9. TextOf(s) = TextOf(z) \o e.text /\ TextOf(z) \in Text
  BY <1>1, <1>6, TextOfMore
<1>10. TextOf(z) \o (e.text \o text) = (TextOf(z) \o e.text) \o text
  BY <1>6, <1>9, Joining
<1> QED
  BY <1>6, <1>8, <1>9, <1>10 DEF y, n

\* The text of parts that differ in nothing but what is not text.
LEMMA TextOfAlike ==
  ASSUME NEW S, HaveText(S), NEW s \in Seq(S), NEW r \in Seq(S), Len(r) = Len(s),
         \A i \in 1..Len(s) : /\ r[i].kind = s[i].kind
                              /\ s[i].kind = "text" => r[i].text = s[i].text
  PROVE  TextOf(r) = TextOf(s)
<1>1. PICK f \in [0..Len(s) -> Text] :
             Folds(f, <<>>, TextStep(S), s) /\ TextOf(s) = f[Len(s)]
  BY TextFolds
<1>2. PICK g \in [0..Len(r) -> Text] :
             Folds(g, <<>>, TextStep(S), r) /\ TextOf(r) = g[Len(r)]
  BY TextFolds
<1>3. \A n \in 0..Len(s) : g[n] = IF n = 0 THEN <<>> ELSE TextStep(S)[g[n - 1]][r[n]]
  BY <1>2 DEF Folds
<1>4. Len(s) \in Nat /\ 0 \in 0..Len(s) /\ Len(s) \in 0..Len(s)
  BY LenProperties
<1>5. \A v \in Text, p \in S : TextStep(S)[v][p] = IF p.kind = "text" THEN v \o p.text ELSE v
  BY TextStepIs
<1>6. \A n \in 1..Len(s) : s[n] \in S /\ r[n] \in S
  BY ElementOfSeq
<1>7. ASSUME NEW n \in 1..Len(s), g[n - 1] = f[n - 1]
      PROVE  g[n] = TextStep(S)[f[n - 1]][s[n]]
  <2>1. n \in 0..Len(s) /\ n # 0 /\ n - 1 \in 0..Len(s)
    BY <1>4
  <2>2. f[n - 1] \in Text /\ g[n] = TextStep(S)[f[n - 1]][r[n]]
    BY <1>1, <1>3, <1>7, <2>1
  <2> QED
    BY <1>5, <1>6, <2>2
<1>8. g[0] = <<>>
  BY <1>3, <1>4
<1>9. Follows(g, f, <<>>, TextStep(S), s)
  BY <1>7, <1>8 DEF Follows
<1>10. \A n \in 0..Len(s) : g[n] = f[n]
  BY <1>1, <1>9, FoldIsOne
<1> QED
  BY <1>1, <1>2, <1>4, <1>10

LEMMA FrontMore ==
  ASSUME NEW S, NEW s \in Seq(S), NEW n \in 1..Len(s)
  PROVE  SubSeq(s, 1, n) = Append(SubSeq(s, 1, n - 1), s[n])
<1>1. Len(s) \in Nat /\ s[n] \in S /\ \A i \in 1..Len(s) : s[i] \in S
  BY LenProperties, ElementOfSeq
<1>2. SubSeq(s, 1, n - 1) \in Seq(S)
  BY <1>1, SubSeqProperties
<1>3. SubSeq(s, 1, n) = SubSeq(s, 1, n - 1) \o <<s[n]>>
  BY <1>1, SubSeqRecursiveSecond
<1> QED
  BY <1>1, <1>2, <1>3, AppendIsConcat

\* An answer that holds no thinking is shown whole.
LEMMA ViewIsWhole ==
  ASSUME NEW S, \A p \in S : p.kind # "reasoning", NEW s \in Seq(S), NEW failed
  PROVE  MessageView([parts |-> s, failed |-> failed]).parts = s
<1> DEFINE message == [parts |-> s, failed |-> failed]
           IsView(f) == f = [n \in 0..Len(message.parts) |->
                               IF n = 0 THEN <<>>
                               ELSE IF message.parts[n].kind = "reasoning" THEN f[n - 1]
                               ELSE Append(f[n - 1], message.parts[n])]
           view == CHOOSE f : IsView(f)
           front == [n \in 0..Len(s) |-> SubSeq(s, 1, n)]
<1>1. Len(s) \in Nat /\ \A n \in 1..Len(s) : s[n] \in S /\ s[n].kind # "reasoning"
  BY LenProperties, ElementOfSeq
<1>2. \A n \in 1..Len(s) : SubSeq(s, 1, n) = Append(SubSeq(s, 1, n - 1), s[n])
  BY FrontMore
<1>3. SubSeq(s, 1, 0) = <<>> /\ SubSeq(s, 1, Len(s)) = s
  BY SubSeqEmpty, SubSeqFull
<1>4. IsView(front)
  <2>1. ASSUME NEW n \in 0..Len(s)
        PROVE  front[n] = IF n = 0 THEN <<>>
                          ELSE IF s[n].kind = "reasoning" THEN front[n - 1]
                          ELSE Append(front[n - 1], s[n])
    <3>1. CASE n = 0
      BY <1>3, <3>1
    <3>2. CASE n # 0
      <4>1. n \in 1..Len(s) /\ n - 1 \in 0..Len(s)
        BY <1>1, <3>2
      <4> QED
        BY <1>1, <1>2, <3>2, <4>1
    <3> QED
      BY <3>1, <3>2
  <2> QED
    BY <2>1
<1>5. IsView(view) /\ MessageView(message).parts = view[Len(s)]
  BY <1>4 DEF MessageView
<1> HIDE DEF view
<1>6. \A n \in 0..Len(s) : view[n] = IF n = 0 THEN <<>>
                                  ELSE IF s[n].kind = "reasoning" THEN view[n - 1]
                                  ELSE Append(view[n - 1], s[n])
  BY <1>5
<1> HIDE DEF IsView
<1> DEFINE right == {n \in 0..Len(s) : view[n] = SubSeq(s, 1, n)}
<1>7. 0 \in right
  <2>1. 0 \in 0..Len(s)
    BY <1>1
  <2> QED
    BY <1>3, <1>6, <2>1
<1>8. \A n \in 1..Len(s) : n - 1 \in right => n \in right
  <2> SUFFICES ASSUME NEW n \in 1..Len(s), n - 1 \in right PROVE n \in right
    OBVIOUS
  <2>1. n \in 0..Len(s) /\ n # 0
    BY <1>1
  <2>2. view[n] = Append(view[n - 1], s[n])
    BY <1>1, <1>6, <2>1
  <2> QED
    BY <1>2, <2>1, <2>2
<1>9. \A n \in 0..Len(s) : n \in right
  <2> HIDE DEF right
  <2> QED
    BY <1>1, <1>7, <1>8, Counting
<1>10. Len(s) \in 0..Len(s)
  BY <1>1
<1> QED
  BY <1>3, <1>5, <1>9, <1>10

\* A text is how another begins when it agrees with it as far as it goes.
LEMMA PrefixIs ==
  ASSUME NEW a \in Text, NEW b \in Text
  PROVE  IsPrefix(a, b) <=> Len(a) <= Len(b) /\ \A i \in 1..Len(a) : a[i] = b[i]
<1>1. Len(a) \in Nat /\ Len(b) \in Nat
  BY LenProperties DEF Text
<1>2. ASSUME Len(a) <= Len(b)
      PROVE  SubSeq(a, 1, Len(a)) = SubSeq(b, 1, Len(a)) <=> \A i \in 1..Len(a) : a[i] = b[i]
  <2> DEFINE n == Len(a)
             front == SubSeq(b, 1, n)
  <2>1. /\ front \in Text /\ Len(front) = n
        /\ \A i \in 1..n : front[i] = b[i]
    <3>1. n \in Int /\ \A i \in 1..n : b[i] \in Chars
      BY <1>1, <1>2, ElementOfSeq DEF Text
    <3>2. /\ front \in Seq(Chars) /\ Len(front) = IF 1 <= n THEN n - 1 + 1 ELSE 0
          /\ \A i \in 1..n - 1 + 1 : front[i] = b[1 + i - 1]
      BY <3>1, SubSeqProperties
    <3>3. n \in Nat
      BY <1>1
    <3> HIDE DEF n, front
    <3>4. Len(front) = n /\ n - 1 + 1 = n /\ \A i \in 1..n : 1 + i - 1 = i
      BY <3>2, <3>3
    <3>5. \A i \in 1..n : front[i] = b[i]
      BY <3>2, <3>4
    <3> QED
      BY <3>2, <3>4, <3>5 DEF Text
  <2>2. SubSeq(a, 1, n) = a
    BY SubSeqFull DEF Text
  <2> HIDE DEF front
  <2>3. (\A i \in 1..n : a[i] = front[i]) => a = front
    BY <2>1, SeqEqual DEF Text
  <2> QED
    BY <2>1, <2>2, <2>3 DEF front
<1> QED
  BY <1>2 DEF IsPrefix

LEMMA Beginnings ==
  /\ \A a \in Text : IsPrefix(<<>>, a) /\ IsPrefix(a, a)
  /\ \A a, b \in Text : IsPrefix(a, a \o b)
  /\ \A a, b, c \in Text : IsPrefix(a, b) /\ IsPrefix(b, c) => IsPrefix(a, c)
  /\ \A a, b, c \in Text :
       IsPrefix(a, c) /\ IsPrefix(b, c) => IsPrefix(a, b) \/ IsPrefix(b, a)
<1>0. \A a \in Text : Len(a) \in Nat
  BY LenProperties DEF Text
<1>1. \A a \in Text : IsPrefix(<<>>, a) /\ IsPrefix(a, a)
  <2>1. <<>> \in Text /\ Len(<<>>) = 0
    BY EmptySeq DEF Text
  <2> QED
    BY <1>0, <2>1, PrefixIs
<1>2. \A a, b \in Text : IsPrefix(a, a \o b)
  <2> SUFFICES ASSUME NEW a \in Text, NEW b \in Text PROVE IsPrefix(a, a \o b)
    OBVIOUS
  <2>1. /\ a \o b \in Text /\ Len(a \o b) = Len(a) + Len(b)
        /\ \A i \in 1..Len(a) + Len(b) : (a \o b)[i] = IF i <= Len(a) THEN a[i] ELSE b[i - Len(a)]
    BY ConcatProperties DEF Text
  <2>2. \A i \in 1..Len(a) : i \in 1..Len(a) + Len(b) /\ i <= Len(a)
    BY <1>0
  <2> DEFINE c == a \o b
  <2> HIDE DEF c
  <2>3. c \in Text /\ Len(a) <= Len(c) /\ \A i \in 1..Len(a) : a[i] = c[i]
    BY <1>0, <2>1, <2>2 DEF c
  <2>4. IsPrefix(a, c)
    BY <2>3, PrefixIs
  <2> QED
    BY <2>4 DEF c
<1>3. \A a, b, c \in Text : IsPrefix(a, b) /\ IsPrefix(b, c) => IsPrefix(a, c)
  <2> SUFFICES ASSUME NEW a \in Text, NEW b \in Text, NEW c \in Text,
                      IsPrefix(a, b), IsPrefix(b, c)
               PROVE  IsPrefix(a, c)
    OBVIOUS
  <2>1. Len(a) <= Len(b) /\ \A i \in 1..Len(a) : a[i] = b[i]
    BY PrefixIs
  <2>2. Len(b) <= Len(c) /\ \A i \in 1..Len(b) : b[i] = c[i]
    BY PrefixIs
  <2>3. Len(a) <= Len(c) /\ \A i \in 1..Len(a) : a[i] = c[i]
    BY <1>0, <2>1, <2>2
  <2> QED
    BY <2>3, PrefixIs
<1>4. \A a, b, c \in Text :
        IsPrefix(a, c) /\ IsPrefix(b, c) => IsPrefix(a, b) \/ IsPrefix(b, a)
  <2> SUFFICES ASSUME NEW a \in Text, NEW b \in Text, NEW c \in Text,
                      IsPrefix(a, c), IsPrefix(b, c)
               PROVE  IsPrefix(a, b) \/ IsPrefix(b, a)
    OBVIOUS
  <2>1. Len(a) <= Len(c) /\ \A i \in 1..Len(a) : a[i] = c[i]
    BY PrefixIs
  <2>2. Len(b) <= Len(c) /\ \A i \in 1..Len(b) : b[i] = c[i]
    BY PrefixIs
  <2>3. \/ Len(a) <= Len(b) /\ \A i \in 1..Len(a) : a[i] = b[i]
        \/ Len(b) <= Len(a) /\ \A i \in 1..Len(b) : b[i] = a[i]
    BY <1>0, <2>1, <2>2
  <2> QED
    BY <2>3, PrefixIs
<1> QED
  BY <1>1, <1>2, <1>3, <1>4

-----------------------------------------------------------------------------
(* Cleaning                                                                *)

\* What cleaning leaves: no NUL and no half of a pair; and when no half was alone, no replacement.
CleanChars == Chars \ {"nul", "high", "low"}
PureChars == CleanChars \ {"replacement"}

Unbroken == Seq(Chars \ {"nul"})

JoinStep == [v \in Unbroken |-> [c \in Chars |-> Joins(v, c)]]

LEMMA JoinsType ==
  ASSUME NEW v \in Unbroken, NEW c \in Chars
  PROVE  Joins(v, c) \in Unbroken
<1>1. CASE c = "low" /\ v # <<>> /\ Last(v) = "high"
  <2>1. Len(v) \in Nat \ {0} /\ \A i \in 1..Len(v) - 1 : v[i] \in Chars \ {"nul"}
    BY <1>1, EmptySeq, ElementOfSeq DEF Unbroken
  <2>2. SubSeq(v, 1, Len(v) - 1) \in Unbroken
    BY <2>1, SubSeqProperties DEF Unbroken
  <2>3. "pair" \in Chars \ {"nul"}
    BY DEF Chars
  <2>4. Append(SubSeq(v, 1, Len(v) - 1), "pair") \in Unbroken
    BY <2>2, <2>3, AppendProperties DEF Unbroken
  <2>5. Joins(v, c) = Append(Front(v), "pair")
    BY <1>1 DEF Joins
  <2> QED
    BY <2>4, <2>5 DEF Front
<1>2. CASE c # "nul" /\ ~(c = "low" /\ v # <<>> /\ Last(v) = "high")
  BY <1>2, AppendProperties DEF Joins, Unbroken
<1>3. CASE c = "nul"
  BY <1>3 DEF Joins
<1> QED
  BY <1>1, <1>2, <1>3

LEMMA JoinedFolds ==
  ASSUME NEW s \in Text
  PROVE  \E f \in [0..Len(s) -> Unbroken] :
           Folds(f, <<>>, JoinStep, s) /\ Joined(s) = f[Len(s)]
<1> DEFINE IsJoined(f) == f = [n \in 0..Len(s) |-> IF n = 0 THEN <<>> ELSE Joins(f[n - 1], s[n])]
           joined == CHOOSE f : IsJoined(f)
<1>1. /\ <<>> \in Unbroken /\ JoinStep \in [Unbroken -> [Chars -> Unbroken]]
      /\ \A v \in Unbroken, c \in Chars : JoinStep[v][c] = Joins(v, c)
  BY JoinsType, EmptySeq DEF JoinStep, Unbroken
<1>2. Len(s) \in Nat /\ s \in Seq(Chars) /\ \A n \in 1..Len(s) : s[n] \in Chars
  BY LenProperties, ElementOfSeq DEF Text
<1>3. PICK f \in [0..Len(s) -> Unbroken] : Folds(f, <<>>, JoinStep, s)
  BY <1>1, <1>2, FoldExists
<1>4. \A n \in 0..Len(s) : f[n] = IF n = 0 THEN <<>> ELSE JoinStep[f[n - 1]][s[n]]
  BY <1>3 DEF Folds
<1>5. IsJoined(f)
  <2>1. ASSUME NEW n \in 0..Len(s)
        PROVE  f[n] = IF n = 0 THEN <<>> ELSE Joins(f[n - 1], s[n])
    <3>1. CASE n = 0
      BY <1>4, <3>1
    <3>2. CASE n # 0
      <4>1. n \in 1..Len(s) /\ n - 1 \in 0..Len(s)
        BY <1>2, <3>2
      <4>2. f[n - 1] \in Unbroken /\ s[n] \in Chars
        BY <1>2, <1>3, <4>1
      <4> QED
        BY <1>1, <1>4, <3>2, <4>2
    <3> QED
      BY <3>1, <3>2
  <2> QED
    BY <1>3, <2>1
<1>6. IsJoined(joined) /\ Joined(s) = joined[Len(s)]
  BY <1>5 DEF Joined
<1> HIDE DEF joined
<1>7. \A n \in 0..Len(s) : joined[n] = IF n = 0 THEN <<>> ELSE Joins(joined[n - 1], s[n])
  BY <1>6
<1>8. \A n \in 0..Len(s) : joined[n] = f[n]
  <2>1. joined[0] = <<>>
    BY <1>2, <1>7
  <2>2. ASSUME NEW n \in 1..Len(s), joined[n - 1] = f[n - 1]
        PROVE  joined[n] = JoinStep[f[n - 1]][s[n]]
    <3>1. n \in 0..Len(s) /\ n # 0 /\ n - 1 \in 0..Len(s)
      BY <1>2
    <3>2. f[n - 1] \in Unbroken /\ s[n] \in Chars
      BY <1>2, <1>3, <3>1
    <3> QED
      BY <1>1, <1>7, <2>2, <3>1, <3>2
  <2>3. Follows(joined, f, <<>>, JoinStep, s)
    BY <2>1, <2>2 DEF Follows
  <2> QED
    BY <1>2, <1>3, <2>3, FoldIsOne
<1>9. Len(s) \in 0..Len(s)
  BY <1>2
<1> QED
  BY <1>3, <1>6, <1>8, <1>9

LEMMA JoinedMore ==
  /\ Joined(<<>>) = <<>>
  /\ \A s \in Text : Joined(s) \in Unbroken
  /\ \A s \in Text, c \in Chars : Joined(Append(s, c)) = Joins(Joined(s), c)
<1>1. Joined(<<>>) = <<>>
  <2>1. <<>> \in Text /\ Len(<<>>) = 0
    BY EmptySeq DEF Text
  <2>2. PICK f \in [0..Len(<<>>) -> Unbroken] :
               Folds(f, <<>>, JoinStep, <<>>) /\ Joined(<<>>) = f[Len(<<>>)]
    BY <2>1, JoinedFolds
  <2>3. 0 \in 0..Len(<<>>)
    BY <2>1
  <2>4. f[0] = <<>>
    BY <2>2, <2>3 DEF Folds
  <2> QED
    BY <2>1, <2>2, <2>4
<1>2. ASSUME NEW s \in Text PROVE Joined(s) \in Unbroken
  <2>1. PICK f \in [0..Len(s) -> Unbroken] : Joined(s) = f[Len(s)]
    BY JoinedFolds
  <2>2. Len(s) \in 0..Len(s)
    BY LenProperties DEF Text
  <2> QED
    BY <2>1, <2>2
<1>3. ASSUME NEW s \in Text, NEW c \in Chars PROVE Joined(Append(s, c)) = Joins(Joined(s), c)
  <2>1. Append(s, c) \in Text /\ Len(Append(s, c)) = Len(s) + 1 /\ s \in Seq(Chars)
    BY AppendProperties DEF Text
  <2>2. PICK f \in [0..Len(s) -> Unbroken] :
               Folds(f, <<>>, JoinStep, s) /\ Joined(s) = f[Len(s)]
    BY JoinedFolds
  <2>3. PICK g \in [0..Len(Append(s, c)) -> Unbroken] :
               /\ Folds(g, <<>>, JoinStep, Append(s, c))
               /\ Joined(Append(s, c)) = g[Len(Append(s, c))]
    BY <2>1, JoinedFolds
  <2>4. g[Len(s) + 1] = JoinStep[f[Len(s)]][c]
    BY <2>1, <2>2, <2>3, FoldAppends
  <2>5. Joined(s) \in Unbroken
    BY <1>2
  <2> QED
    BY <2>1, <2>2, <2>3, <2>4, <2>5 DEF JoinStep
<1> QED
  BY <1>1, <1>2, <1>3

LEMMA FrontAndLast ==
  ASSUME NEW S, NEW s \in Seq(S), NEW e \in S
  PROVE  Front(Append(s, e)) = s /\ Last(Append(s, e)) = e
<1> DEFINE y == Append(s, e)
<1>1. /\ Len(s) \in Nat /\ Len(y) = Len(s) + 1 /\ y[Len(s) + 1] = e /\ y \in Seq(S)
      /\ \A i \in 1..Len(s) : y[i] = s[i]
  BY LenProperties, AppendProperties
<1> HIDE DEF y
<1>2. Last(y) = e
  BY <1>1 DEF Last
<1> DEFINE n == Len(s)
           front == SubSeq(y, 1, n)
<1>3. n \in Int /\ \A i \in 1..n : y[i] \in S
  BY <1>1, ElementOfSeq
<1>4. /\ front \in Seq(S) /\ Len(front) = IF 1 <= n THEN n - 1 + 1 ELSE 0
      /\ \A i \in 1..n - 1 + 1 : front[i] = y[1 + i - 1]
  BY <1>3, SubSeqProperties
<1> HIDE DEF front
<1>5. Len(front) = Len(s) /\ \A i \in 1..Len(s) : front[i] = s[i]
  <2>1. n - 1 + 1 = n /\ \A i \in 1..n : 1 + i - 1 = i
    BY <1>1
  <2> QED
    BY <1>1, <1>4, <2>1
<1>6. front = s
  BY <1>4, <1>5, SeqEqual
<1>7. Front(y) = SubSeq(y, 1, Len(y) - 1) /\ Len(y) - 1 = n
  BY <1>1 DEF Front
<1> QED
  BY <1>2, <1>6, <1>7 DEF y, front

LEMMA AppendAfter ==
  ASSUME NEW S, NEW s \in Seq(S), NEW t \in Seq(S), NEW e \in S
  PROVE  s \o Append(t, e) = Append(s \o t, e)
<1>1. <<e>> \in Seq(S) /\ Append(t, e) = t \o <<e>>
  BY AppendIsConcat
<1>2. s \o t \in Seq(S)
  BY ConcatProperties
<1>3. Append(s \o t, e) = (s \o t) \o <<e>>
  BY <1>2, AppendIsConcat
<1>4. (s \o t) \o <<e>> = s \o (t \o <<e>>)
  BY <1>1, ConcatAssociative
<1> QED
  BY <1>1, <1>3, <1>4

LEMMA CleanTextIs ==
  ASSUME NEW t \in Text
  PROVE  /\ CleanText(t) \in Seq(CleanChars) /\ Len(CleanText(t)) = Len(Joined(t))
         /\ \A i \in 1..Len(Joined(t)) :
              CleanText(t)[i] = IF Joined(t)[i] \in Halves THEN "replacement" ELSE Joined(t)[i]
<1> DEFINE joined == Joined(t)
           n == Len(joined)
           value == [i \in 1..n |-> IF joined[i] \in Halves THEN "replacement" ELSE joined[i]]
<1>1. joined \in Seq(Chars \ {"nul"})
  BY JoinedMore DEF Unbroken
<1> HIDE DEF joined
<1>2. n \in Nat /\ DOMAIN joined = 1..n /\ \A i \in 1..n : joined[i] \in Chars \ {"nul"}
  BY <1>1, LenProperties, ElementOfSeq
<1>3. CleanText(t) = value
  BY <1>2 DEF CleanText, joined
<1> HIDE DEF n
<1>4. value \in [1..n -> CleanChars]
  BY <1>2 DEF CleanChars, Chars, Halves
<1> HIDE DEF value
<1>5. value \in Seq(CleanChars)
  BY <1>2, <1>4, SeqDef
<1>6. Len(value) = n
  BY <1>2, <1>4, <1>5, LenProperties
<1> QED
  BY <1>2, <1>3, <1>5, <1>6 DEF value, n, joined

\* A clean text is left as it is.
LEMMA CleanIsLeft ==
  ASSUME NEW t \in Seq(CleanChars)
  PROVE  CleanText(t) = t
<1>1. CleanChars \subseteq Chars /\ \A c \in CleanChars : c \notin {"nul", "high", "low"}
  BY DEF CleanChars
<1>2. Seq(CleanChars) \subseteq Text
  BY <1>1, SeqMonotonic DEF Text
<1> DEFINE right == {s \in Seq(CleanChars) : Joined(s) = s}
<1>3. <<>> \in right
  BY JoinedMore, EmptySeq
<1>4. ASSUME NEW s \in Seq(CleanChars), NEW c \in CleanChars, s \in right
      PROVE  Append(s, c) \in right
  <2>1. Joined(Append(s, c)) = Joins(s, c)
    BY <1>1, <1>2, <1>4, JoinedMore
  <2>2. Joins(s, c) = Append(s, c)
    BY <1>1 DEF Joins
  <2>3. Append(s, c) \in Seq(CleanChars)
    BY AppendProperties
  <2> QED
    BY <2>1, <2>2, <2>3
<1>5. \A s \in Seq(CleanChars) : s \in right
  <2> HIDE DEF right
  <2> QED
    BY <1>3, <1>4, Lengthening
<1>6. Joined(t) = t /\ t \in Text
  BY <1>2, <1>5
<1>7. /\ CleanText(t) \in Seq(CleanChars) /\ Len(CleanText(t)) = Len(t)
      /\ \A i \in 1..Len(t) : CleanText(t)[i] = IF t[i] \in Halves THEN "replacement" ELSE t[i]
  BY <1>6, CleanTextIs
<1>8. \A i \in 1..Len(t) : t[i] \in CleanChars
  BY ElementOfSeq
<1>9. \A i \in 1..Len(t) : CleanText(t)[i] = t[i]
  BY <1>1, <1>7, <1>8 DEF Halves
<1> QED
  BY <1>7, <1>9, SeqEqual

LEMMA JoinsAfter ==
  ASSUME NEW j \in Unbroken, j = <<>> \/ Last(j) # "high", NEW k \in Unbroken, NEW c \in Chars
  PROVE  Joins(j \o k, c) = j \o Joins(k, c)
<1> DEFINE S == Chars \ {"nul"}
<1>1. j \in Seq(S) /\ k \in Seq(S) /\ j \o k \in Seq(S)
  BY ConcatProperties DEF Unbroken
<1>2. CASE c = "nul"
  BY <1>2 DEF Joins
<1>3. CASE c # "nul" /\ k = <<>>
  <2>1. j \o k = j /\ Joins(k, c) = Append(k, c) /\ Joins(j, c) = Append(j, c)
    BY <1>1, <1>3, ConcatEmptySeq DEF Joins
  <2>2. j \o Append(k, c) = Append(j \o k, c)
    BY <1>1, <1>3, AppendAfter
  <2> QED
    BY <2>1, <2>2
<1>4. CASE c # "nul" /\ k # <<>>
  <2>1. PICK z \in Seq(S), e \in S : k = Append(z, e)
    BY <1>1, <1>4, SequenceEmptyOrAppend
  <2>2. j \o z \in Seq(S) /\ j \o k = Append(j \o z, e) /\ j \o k # <<>>
    BY <1>1, <2>1, AppendAfter, ConcatProperties, AppendProperties
  <2>3. Front(k) = z /\ Last(k) = e /\ Front(j \o k) = j \o z /\ Last(j \o k) = e
    <3> HIDE DEF S
    <3>1. Front(k) = z /\ Last(k) = e
      BY <2>1, FrontAndLast
    <3>2. Front(Append(j \o z, e)) = j \o z /\ Last(Append(j \o z, e)) = e
      BY <2>1, <2>2, FrontAndLast
    <3> QED
      BY <2>2, <3>1, <3>2
  <2>4. "pair" \in S /\ c \in S
    BY <1>4 DEF Chars
  <2>5. /\ j \o Append(z, "pair") = Append(j \o z, "pair")
        /\ j \o Append(k, c) = Append(j \o k, c)
    BY <1>1, <2>4, AppendAfter
  <2> QED
    BY <1>4, <2>2, <2>3, <2>5 DEF Joins
<1> QED
  BY <1>2, <1>3, <1>4

LEMMA JoinedAfter ==
  ASSUME NEW s \in Text, Joined(s) = <<>> \/ Last(Joined(s)) # "high", NEW t \in Text
  PROVE  Joined(s \o t) = Joined(s) \o Joined(t)
<1> DEFINE right == {x \in Text : Joined(s \o x) = Joined(s) \o Joined(x)}
<1>1. <<>> \in right
  <2>1. Joined(s) \o <<>> = Joined(s)
    BY JoinedMore, ConcatEmptySeq DEF Unbroken
  <2> QED
    BY <2>1, JoinedMore, Joining
<1>2. ASSUME NEW x \in Seq(Chars), NEW c \in Chars, x \in right PROVE Append(x, c) \in right
  <2>1. /\ s \in Seq(Chars) /\ Append(x, c) \in Text /\ x \in Text
        /\ s \o Append(x, c) = Append(s \o x, c) /\ s \o x \in Text
    BY AppendAfter, AppendProperties, ConcatProperties DEF Text
  <2>2. Joined(Append(s \o x, c)) = Joins(Joined(s \o x), c)
    BY <2>1, JoinedMore
  <2>3. Joined(s) \in Unbroken /\ Joined(x) \in Unbroken
    BY <2>1, JoinedMore
  <2>4. Joins(Joined(s) \o Joined(x), c) = Joined(s) \o Joins(Joined(x), c)
    BY <2>3, JoinsAfter
  <2>5. Joined(Append(x, c)) = Joins(Joined(x), c)
    BY <2>1, JoinedMore
  <2> QED
    BY <1>2, <2>1, <2>2, <2>4, <2>5
<1>3. \A x \in Seq(Chars) : x \in right
  <2> HIDE DEF right
  <2> QED
    BY <1>1, <1>2, Lengthening
<1> QED
  BY <1>3 DEF Text

\* Of a text in which no half was alone and a text after it, each is cleaned on its own.
LEMMA CleanAfterPure ==
  ASSUME NEW s \in Text, CleanText(s) \in Seq(PureChars), NEW t \in Text
  PROVE  CleanText(s \o t) = CleanText(s) \o CleanText(t)
<1>1. /\ Joined(s) \in Seq(Chars) /\ Joined(t) \in Seq(Chars) /\ s \o t \in Text
      /\ Len(Joined(s)) \in Nat /\ Len(Joined(t)) \in Nat
  BY JoinedMore, Joining, SeqMonotonic, LenProperties DEF Unbroken
<1>2. ASSUME Joined(s) # <<>>, Last(Joined(s)) = "high" PROVE FALSE
  <2>1. Len(Joined(s)) \in 1..Len(Joined(s))
    BY <1>1, <1>2, EmptySeq
  <2>2. CleanText(s)[Len(Joined(s))] = "replacement"
    BY <1>2, <2>1, CleanTextIs DEF Last, Halves
  <2>3. CleanText(s)[Len(Joined(s))] \in PureChars
    BY <2>1, CleanTextIs, ElementOfSeq
  <2> QED
    BY <2>2, <2>3 DEF PureChars
<1>3. Joined(s \o t) = Joined(s) \o Joined(t)
  BY <1>2, JoinedAfter
<1> DEFINE j == Joined(s)
           k == Joined(t)
           a == CleanText(s)
           b == CleanText(t)
           c == CleanText(s \o t)
<1>4. /\ a \in Seq(CleanChars) /\ Len(a) = Len(j)
      /\ \A i \in 1..Len(j) : a[i] = IF j[i] \in Halves THEN "replacement" ELSE j[i]
  BY CleanTextIs
<1>5. /\ b \in Seq(CleanChars) /\ Len(b) = Len(k)
      /\ \A i \in 1..Len(k) : b[i] = IF k[i] \in Halves THEN "replacement" ELSE k[i]
  BY CleanTextIs
<1>6. /\ c \in Seq(CleanChars) /\ Len(c) = Len(j \o k)
      /\ \A i \in 1..Len(j \o k) :
           c[i] = IF (j \o k)[i] \in Halves THEN "replacement" ELSE (j \o k)[i]
  BY <1>1, <1>3, CleanTextIs
<1>7. j \in Seq(Chars) /\ k \in Seq(Chars) /\ Len(j) \in Nat /\ Len(k) \in Nat
  BY <1>1
<1> HIDE DEF j, k, a, b, c
<1>8. /\ Len(j \o k) = Len(j) + Len(k)
      /\ \A i \in 1..Len(j) + Len(k) : (j \o k)[i] = IF i <= Len(j) THEN j[i] ELSE k[i - Len(j)]
  BY <1>7, ConcatProperties
<1>9. /\ a \o b \in Seq(CleanChars) /\ Len(a \o b) = Len(j) + Len(k)
      /\ \A i \in 1..Len(j) + Len(k) : (a \o b)[i] = IF i <= Len(j) THEN a[i] ELSE b[i - Len(j)]
  BY <1>4, <1>5, ConcatProperties
<1>10. ASSUME NEW i \in 1..Len(j) + Len(k) PROVE c[i] = (a \o b)[i]
  <2>1. CASE i <= Len(j)
    <3>1. i \in 1..Len(j)
      BY <1>7, <2>1
    <3> QED
      BY <1>4, <1>6, <1>8, <1>9, <2>1, <3>1
  <2>2. CASE ~(i <= Len(j))
    <3>1. i - Len(j) \in 1..Len(k)
      BY <1>7, <2>2
    <3> QED
      BY <1>5, <1>6, <1>8, <1>9, <2>2, <3>1
  <2> QED
    BY <2>1, <2>2
<1>11. c = a \o b
  BY <1>6, <1>8, <1>9, <1>10, SeqEqual
<1> QED
  BY <1>11 DEF a, b, c

-----------------------------------------------------------------------------
(* What the runner builds, and what the events hold                        *)

Args == Arguments \cup {"", "plain"}

Ends == {"finished", "failed", "cancelled", "interrupted"}

\* Parts, events and documents whose texts are of some characters.
PartsOver(C) ==
  [kind : {"text"}, text : Seq(C)] \cup [kind : {"tool_call"}, call : Nat, arguments : Args]
    \cup [kind : {"tool_result"}, call : Nat, text : Seq(C)]

EventsOver(C) ==
  [kind : {"message_started", "message_completed"}, body : [message : {"answer"}]]
    \cup [kind : {"text_piece", "reasoning_piece"}, body : [text : Seq(C)]]
    \cup [kind : {"call_started", "call_completed"}, body : [call : Nat]]
    \cup [kind : {"arguments_piece"}, body : [call : Nat, arguments : Args]]
    \cup [kind : {"result_landed"}, body : [call : Nat, text : Seq(C)]]
    \cup [kind : {"turn_ended"}, body : [state : Ends]]

DocumentsOver(C) ==
  {[v |-> 1, position |-> p, kind |-> e.kind, body |-> e.body] :
     p \in Nat \ {0}, e \in EventsOver(C)}

BuiltOver(C) ==
  [parts : Seq(PartsOver(C)), calls : UNION {[S -> Args] : S \in SUBSET Nat}]

LEMMA DocumentIs ==
  ASSUME NEW C, NEW d \in DocumentsOver(C)
  PROVE  /\ d.v = 1 /\ d.position \in Nat \ {0} /\ Event(d.kind, d.body) \in EventsOver(C)
         /\ d = [v |-> 1, position |-> d.position, kind |-> d.kind, body |-> d.body]
<1>1. PICK p \in Nat \ {0}, e \in EventsOver(C) :
             d = [v |-> 1, position |-> p, kind |-> e.kind, body |-> e.body]
  BY DEF DocumentsOver
<1>2. e = Event(e.kind, e.body)
  BY DEF EventsOver, Event
<1> QED
  BY <1>1, <1>2

\* The kinds of event, and what is in each.
LEMMA EventIs ==
  ASSUME NEW C, NEW kind, NEW body, Event(kind, body) \in EventsOver(C)
  PROVE  \/ kind \in {"message_started", "message_completed"} /\ body \in [message : {"answer"}]
         \/ kind \in {"text_piece", "reasoning_piece"} /\ body \in [text : Seq(C)]
         \/ kind \in {"call_started", "call_completed"} /\ body \in [call : Nat]
         \/ kind = "arguments_piece" /\ body \in [call : Nat, arguments : Args]
         \/ kind = "result_landed" /\ body \in [call : Nat, text : Seq(C)]
         \/ kind = "turn_ended" /\ body \in [state : Ends]
BY DEF EventsOver, Event

LEMMA DocumentReads ==
  ASSUME NEW C, NEW d \in DocumentsOver(C)
  PROVE  Reads(d)
<1>1. d.v = 1 /\ d.position \in Nat \ {0} /\ Event(d.kind, d.body) \in EventsOver(C)
  BY DocumentIs
<1> DEFINE kind == d.kind
           body == d.body
<1>2. kind \in DOMAIN EventKeys /\ DOMAIN body = EventKeys[kind]
  <2>1. Event(kind, body) \in EventsOver(C)
    BY <1>1
  <2> HIDE DEF kind, body
  <2>2. CASE kind \in {"message_started", "message_completed"} /\ body \in [message : {"answer"}]
    <3>1. DOMAIN body = {"message"}
      BY <2>2
    <3> QED
      BY <2>2, <3>1 DEF EventKeys
  <2>3. CASE kind \in {"text_piece", "reasoning_piece"} /\ body \in [text : Seq(C)]
    <3>1. DOMAIN body = {"text"}
      BY <2>3
    <3> QED
      BY <2>3, <3>1 DEF EventKeys
  <2>4. CASE kind \in {"call_started", "call_completed"} /\ body \in [call : Nat]
    <3>1. DOMAIN body = {"call"}
      BY <2>4
    <3> QED
      BY <2>4, <3>1 DEF EventKeys
  <2>5. CASE kind = "arguments_piece" /\ body \in [call : Nat, arguments : Args]
    <3>1. DOMAIN body = {"call", "arguments"}
      BY <2>5
    <3> QED
      BY <2>5, <3>1 DEF EventKeys
  <2>6. CASE kind = "result_landed" /\ body \in [call : Nat, text : Seq(C)]
    <3>1. DOMAIN body = {"call", "text"}
      BY <2>6
    <3> QED
      BY <2>6, <3>1 DEF EventKeys
  <2>7. CASE kind = "turn_ended" /\ body \in [state : Ends]
    <3>1. DOMAIN body = {"state"}
      BY <2>7
    <3> QED
      BY <2>7, <3>1 DEF EventKeys
  <2> QED
    BY <2>1, <2>2, <2>3, <2>4, <2>5, <2>6, <2>7, EventIs
<1> QED
  BY <1>1, <1>2 DEF Reads

\* What is written of an event: its text cleaned, and all else as it is.
LEMMA DocumentOf ==
  ASSUME NEW p \in Nat \ {0}, NEW e \in EventsOver(Chars)
  PROVE  /\ Document(p, e) \in DocumentsOver(CleanChars)
         /\ Document(p, e).position = p /\ Document(p, e).kind = e.kind
         /\ \A key \in DOMAIN e.body :
              Document(p, e).body[key] = IF key = "text" THEN CleanText(e.body.text)
                                         ELSE e.body[key]
<1> DEFINE body == IF "text" \in DOMAIN e.body THEN [e.body EXCEPT !.text = CleanText(@)]
                   ELSE e.body
<1>1. Document(p, e) = [v |-> 1, position |-> p, kind |-> e.kind, body |-> body]
  BY DEF Document, EventToDocument
<1>2. Event(e.kind, e.body) \in EventsOver(Chars)
  BY DEF EventsOver, Event
<1>3. \A key \in DOMAIN e.body : body[key] = IF key = "text" THEN CleanText(e.body.text)
                                              ELSE e.body[key]
  BY <1>2, EventIs
<1>4. Event(e.kind, body) \in EventsOver(CleanChars)
  <2>1. CASE e.kind \in {"text_piece", "reasoning_piece"} /\ e.body \in [text : Seq(Chars)]
    <3>1. CleanText(e.body.text) \in Seq(CleanChars)
      BY <2>1, CleanTextIs DEF Text
    <3>2. body = [text |-> CleanText(e.body.text)]
      BY <2>1
    <3> QED
      BY <2>1, <3>1, <3>2 DEF EventsOver, Event
  <2>2. CASE e.kind = "result_landed" /\ e.body \in [call : Nat, text : Seq(Chars)]
    <3>1. CleanText(e.body.text) \in Seq(CleanChars)
      BY <2>2, CleanTextIs DEF Text
    <3>2. body = [call |-> e.body.call, text |-> CleanText(e.body.text)]
      BY <2>2
    <3> QED
      BY <2>2, <3>1, <3>2 DEF EventsOver, Event
  <2>3. CASE "text" \notin DOMAIN e.body
    BY <1>2, <2>3, EventIs DEF EventsOver, Event
  <2> QED
    BY <1>2, <2>1, <2>2, <2>3, EventIs
<1>5. Event(e.kind, body).kind = e.kind /\ Event(e.kind, body).body = body
  BY DEF Event
<1> HIDE DEF body
<1> QED
  BY <1>1, <1>3, <1>4, <1>5 DEF DocumentsOver

LEMMA WithTextType ==
  ASSUME NEW C, NEW p \in Seq(PartsOver(C)), NEW text \in Seq(C)
  PROVE  WithText(p, text) \in Seq(PartsOver(C))
<1>1. CASE p # <<>> /\ p[Len(p)].kind = "text"
  <2>1. Len(p) \in 1..Len(p) /\ p[Len(p)] \in PartsOver(C)
    BY <1>1, EmptySeq, ElementOfSeq
  <2> DEFINE part == p[Len(p)]
  <2>2. part \in [kind : {"text"}, text : Seq(C)]
    BY <1>1, <2>1 DEF PartsOver
  <2>3. part.text \o text \in Seq(C)
    BY <2>2, ConcatProperties
  <2> HIDE DEF part
  <2>4. [part EXCEPT !.text = @ \o text] \in [kind : {"text"}, text : Seq(C)]
    BY <2>2, <2>3
  <2>5. [part EXCEPT !.text = @ \o text] \in PartsOver(C)
    BY <2>4 DEF PartsOver
  <2>6. [p EXCEPT ![Len(p)] = [part EXCEPT !.text = @ \o text]] \in Seq(PartsOver(C))
    BY <2>1, <2>5, ExceptSeq
  <2> QED
    BY <1>1, <2>6 DEF WithText, part
<1>2. CASE ~(p # <<>> /\ p[Len(p)].kind = "text")
  <2>1. TextPart(text) \in PartsOver(C)
    BY DEF TextPart, PartsOver
  <2> QED
    BY <1>2, <2>1, AppendProperties DEF WithText
<1> QED
  BY <1>1, <1>2

LEMMA NotedType ==
  ASSUME NEW S \in SUBSET Nat, NEW calls \in [S -> Args], NEW call \in Nat, NEW arguments \in Args
  PROVE  Noted(calls, call, arguments) \in [S \cup {call} -> Args]
BY DEF Noted

BuiltOf(p, calls) == [parts |-> p, calls |-> calls]

LEMMA BuiltIs ==
  ASSUME NEW C, NEW p \in Seq(PartsOver(C)), NEW S \in SUBSET Nat, NEW calls \in [S -> Args]
  PROVE  BuiltOf(p, calls) \in BuiltOver(C)
BY DEF BuiltOver, BuiltOf

\* What each kind of event does to what is built.
RebuiltAs(p, calls, d) ==
  LET rebuilt == Rebuilt(BuiltOf(p, calls), d)
      body == d.body
  IN  /\ d.kind = "text_piece" =>
           rebuilt = BuiltOf(WithText(p, body.text), calls)
      /\ d.kind = "call_started" =>
           rebuilt = BuiltOf(p, Noted(calls, body.call, ""))
      /\ d.kind = "arguments_piece" =>
           rebuilt = BuiltOf(p, IF body.call \in DOMAIN calls
                                THEN Noted(calls, body.call, body.arguments) ELSE calls)
      /\ d.kind = "call_completed" =>
           rebuilt = IF body.call \in DOMAIN calls
                     THEN BuiltOf(Append(p, ToolCallPart(body.call, calls[body.call])),
                                  [c \in DOMAIN calls \ {body.call} |-> calls[c]])
                     ELSE BuiltOf(p, calls)
      /\ d.kind = "result_landed" =>
           rebuilt = BuiltOf(Append(p, ToolResultPart(body.call, body.text)), calls)
      /\ d.kind \in {"message_started", "reasoning_piece", "message_completed", "turn_ended"} =>
           rebuilt = BuiltOf(p, calls)

LEMMA RebuiltIs ==
  ASSUME NEW p, NEW calls, NEW d
  PROVE  RebuiltAs(p, calls, d)
<1>1. CASE d.kind = "text_piece"
  BY <1>1 DEF RebuiltAs, Rebuilt, BuiltOf
<1>2. CASE d.kind = "call_started"
  BY <1>2 DEF RebuiltAs, Rebuilt, BuiltOf
<1>3. CASE d.kind = "arguments_piece"
  BY <1>3 DEF RebuiltAs, Rebuilt, BuiltOf
<1>4. CASE d.kind = "call_completed"
  BY <1>4 DEF RebuiltAs, Rebuilt, BuiltOf, Completed
<1>5. CASE d.kind = "result_landed"
  BY <1>5 DEF RebuiltAs, Rebuilt, BuiltOf
<1>6. CASE d.kind \in {"message_started", "reasoning_piece", "message_completed", "turn_ended"}
  BY <1>6 DEF RebuiltAs, Rebuilt, BuiltOf
<1> QED
  BY <1>1, <1>2, <1>3, <1>4, <1>5, <1>6 DEF RebuiltAs, Rebuilt, BuiltOf

LEMMA RebuiltType ==
  ASSUME NEW C, NEW built \in BuiltOver(C), NEW d \in DocumentsOver(C)
  PROVE  Rebuilt(built, d) \in BuiltOver(C)
<1>1. PICK p \in Seq(PartsOver(C)), S \in SUBSET Nat : \E calls \in [S -> Args] :
             built = BuiltOf(p, calls)
  BY DEF BuiltOver, BuiltOf
<1>2. PICK calls \in [S -> Args] : built = BuiltOf(p, calls)
  BY <1>1
<1> DEFINE kind == d.kind
           body == d.body
           rebuilt == Rebuilt(BuiltOf(p, calls), d)
<1>3. Event(kind, body) \in EventsOver(C)
  BY DocumentIs
<1>4. built \in BuiltOver(C)
  OBVIOUS
<1>5. RebuiltAs(p, calls, d)
  BY RebuiltIs
<1>6. SUFFICES rebuilt \in BuiltOver(C)
  BY <1>2
<1> HIDE DEF rebuilt
<1>7. CASE kind \in {"text_piece", "reasoning_piece"} /\ body \in [text : Seq(C)]
  <2>1. WithText(p, body.text) \in Seq(PartsOver(C))
    BY <1>7, WithTextType
  <2>2. rebuilt = BuiltOf(IF kind = "text_piece" THEN WithText(p, body.text) ELSE p, calls)
    BY <1>7, <1>5 DEF RebuiltAs, rebuilt
  <2> QED
    BY <2>1, <2>2, BuiltIs
<1>8. CASE kind = "call_started" /\ body \in [call : Nat]
  <2>1. rebuilt = BuiltOf(p, Noted(calls, body.call, ""))
    BY <1>8, <1>5 DEF RebuiltAs, rebuilt
  <2>2. /\ Noted(calls, body.call, "") \in [S \cup {body.call} -> Args]
        /\ S \cup {body.call} \in SUBSET Nat
    BY <1>8, NotedType DEF Args
  <2> QED
    BY <2>1, <2>2, BuiltIs
<1>9. CASE kind = "arguments_piece" /\ body \in [call : Nat, arguments : Args]
  <2>1. rebuilt = BuiltOf(p, IF body.call \in DOMAIN calls
                             THEN Noted(calls, body.call, body.arguments) ELSE calls)
    BY <1>9, <1>5 DEF RebuiltAs, rebuilt
  <2>2. /\ Noted(calls, body.call, body.arguments) \in [S \cup {body.call} -> Args]
        /\ S \cup {body.call} \in SUBSET Nat
    BY <1>9, NotedType
  <2> QED
    BY <2>1, <2>2, BuiltIs
<1>10. CASE kind = "call_completed" /\ body \in [call : Nat]
  <2> DEFINE call == body.call
             part == ToolCallPart(call, calls[call])
             rest == [c \in DOMAIN calls \ {call} |-> calls[c]]
  <2>1. rebuilt = IF call \in DOMAIN calls THEN BuiltOf(Append(p, part), rest)
                  ELSE BuiltOf(p, calls)
    BY <1>10, <1>5 DEF RebuiltAs, rebuilt
  <2>2. CASE call \in DOMAIN calls
    <3>1. part \in PartsOver(C)
      BY <1>10, <2>2 DEF ToolCallPart, PartsOver
    <3>2. Append(p, part) \in Seq(PartsOver(C))
      BY <3>1, AppendProperties
    <3>3. rest \in [S \ {call} -> Args] /\ S \ {call} \in SUBSET Nat
      OBVIOUS
    <3> HIDE DEF part, rest
    <3> QED
      BY <2>1, <2>2, <3>2, <3>3, BuiltIs
  <2>3. CASE call \notin DOMAIN calls
    BY <1>2, <1>4, <2>1, <2>3
  <2> QED
    BY <2>2, <2>3
<1>11. CASE kind = "result_landed" /\ body \in [call : Nat, text : Seq(C)]
  <2> DEFINE part == ToolResultPart(body.call, body.text)
  <2>1. rebuilt = BuiltOf(Append(p, part), calls)
    BY <1>11, <1>5 DEF RebuiltAs, rebuilt
  <2>2. part \in PartsOver(C)
    BY <1>11 DEF ToolResultPart, PartsOver
  <2>3. Append(p, part) \in Seq(PartsOver(C))
    BY <2>2, AppendProperties
  <2> QED
    BY <2>1, <2>3, BuiltIs
<1>12. CASE kind \in {"message_started", "message_completed", "turn_ended"}
  BY <1>2, <1>4, <1>12, <1>5 DEF RebuiltAs, rebuilt
<1> HIDE DEF kind, body
<1> QED
  BY <1>3, <1>7, <1>8, <1>9, <1>10, <1>11, <1>12, EventIs
RebuildStep(C) == [built \in BuiltOver(C) |-> [d \in DocumentsOver(C) |-> Rebuilt(built, d)]]

LEMMA BuiltFolds ==
  ASSUME NEW C, NEW s \in Seq(DocumentsOver(C))
  PROVE  \E f \in [0..Len(s) -> BuiltOver(C)] :
           Folds(f, NothingBuilt, RebuildStep(C), s) /\ Built(s) = f[Len(s)]
<1> DEFINE step == RebuildStep(C)
           IsBuilt(f) == f = [n \in 0..Len(s) |->
                                IF n = 0 THEN NothingBuilt ELSE Rebuilt(f[n - 1], s[n])]
           built == CHOOSE f : IsBuilt(f)
<1>1. /\ NothingBuilt \in BuiltOver(C)
      /\ step \in [BuiltOver(C) -> [DocumentsOver(C) -> BuiltOver(C)]]
      /\ \A v \in BuiltOver(C), d \in DocumentsOver(C) : step[v][d] = Rebuilt(v, d)
  <2>1. <<>> \in Seq(PartsOver(C)) /\ [call \in {} |-> ""] \in [{} -> Args]
    BY EmptySeq
  <2>2. BuiltOf(<<>>, [call \in {} |-> ""]) \in BuiltOver(C)
    <3> DEFINE calls == [call \in {} |-> ""]
    <3> HIDE DEF calls
    <3>1. calls \in [{} -> Args]
      BY <2>1 DEF calls
    <3>2. BuiltOf(<<>>, calls) \in BuiltOver(C)
      BY <2>1, <3>1, BuiltIs
    <3> QED
      BY <3>2 DEF calls
  <2> QED
    BY <2>2, RebuiltType DEF NothingBuilt, BuiltOf, RebuildStep
<1>2. Len(s) \in Nat /\ \A n \in 1..Len(s) : s[n] \in DocumentsOver(C)
  BY LenProperties, ElementOfSeq
<1> HIDE DEF step
<1>3. PICK f \in [0..Len(s) -> BuiltOver(C)] : Folds(f, NothingBuilt, step, s)
  BY <1>1, FoldExists
<1>4. \A n \in 0..Len(s) : f[n] = IF n = 0 THEN NothingBuilt ELSE step[f[n - 1]][s[n]]
  BY <1>3 DEF Folds
<1>5. IsBuilt(f)
  <2>1. ASSUME NEW n \in 0..Len(s)
        PROVE  f[n] = IF n = 0 THEN NothingBuilt ELSE Rebuilt(f[n - 1], s[n])
    <3>1. CASE n = 0
      BY <1>4, <3>1
    <3>2. CASE n # 0
      <4>1. n \in 1..Len(s) /\ n - 1 \in 0..Len(s)
        BY <1>2, <3>2
      <4>2. f[n - 1] \in BuiltOver(C) /\ s[n] \in DocumentsOver(C)
        BY <1>2, <1>3, <4>1
      <4> QED
        BY <1>1, <1>4, <3>2, <4>2
    <3> QED
      BY <3>1, <3>2
  <2> QED
    BY <1>3, <2>1
<1>6. IsBuilt(built) /\ Built(s) = built[Len(s)]
  BY <1>5 DEF Built
<1> HIDE DEF built
<1>7. \A n \in 0..Len(s) : built[n] = IF n = 0 THEN NothingBuilt ELSE Rebuilt(built[n - 1], s[n])
  BY <1>6
<1>8. \A n \in 0..Len(s) : built[n] = f[n]
  <2>1. built[0] = NothingBuilt
    BY <1>2, <1>7
  <2>2. ASSUME NEW n \in 1..Len(s), built[n - 1] = f[n - 1] PROVE built[n] = step[f[n - 1]][s[n]]
    <3>1. n \in 0..Len(s) /\ n # 0 /\ n - 1 \in 0..Len(s)
      BY <1>2
    <3>2. f[n - 1] \in BuiltOver(C) /\ s[n] \in DocumentsOver(C)
      BY <1>2, <1>3, <3>1
    <3> QED
      BY <1>1, <1>7, <2>2, <3>1, <3>2
  <2>3. Follows(built, f, NothingBuilt, step, s)
    BY <2>1, <2>2 DEF Follows
  <2> QED
    BY <1>3, <2>3, FoldIsOne
<1>9. Len(s) \in 0..Len(s)
  BY <1>2
<1> QED
  BY <1>3, <1>6, <1>8, <1>9 DEF step

\* What is built of one event more.
LEMMA BuiltMore ==
  ASSUME NEW C
  PROVE  /\ Built(<<>>) = NothingBuilt
         /\ \A s \in Seq(DocumentsOver(C)) : Built(s) \in BuiltOver(C)
         /\ \A s \in Seq(DocumentsOver(C)), d \in DocumentsOver(C) :
              Built(Append(s, d)) = Rebuilt(Built(s), d)
<1>1. Built(<<>>) = NothingBuilt
  <2>1. <<>> \in Seq(DocumentsOver(C)) /\ Len(<<>>) = 0
    BY EmptySeq
  <2>2. PICK f \in [0..Len(<<>>) -> BuiltOver(C)] :
               Folds(f, NothingBuilt, RebuildStep(C), <<>>) /\ Built(<<>>) = f[Len(<<>>)]
    BY <2>1, BuiltFolds
  <2>3. 0 \in 0..Len(<<>>)
    BY <2>1
  <2>4. f[0] = NothingBuilt
    BY <2>2, <2>3 DEF Folds
  <2> QED
    BY <2>1, <2>2, <2>4
<1>2. ASSUME NEW s \in Seq(DocumentsOver(C)) PROVE Built(s) \in BuiltOver(C)
  <2>1. PICK f \in [0..Len(s) -> BuiltOver(C)] : Built(s) = f[Len(s)]
    BY BuiltFolds
  <2>2. Len(s) \in 0..Len(s)
    BY LenProperties
  <2> QED
    BY <2>1, <2>2
<1>3. ASSUME NEW s \in Seq(DocumentsOver(C)), NEW d \in DocumentsOver(C)
      PROVE  Built(Append(s, d)) = Rebuilt(Built(s), d)
  <2>1. Append(s, d) \in Seq(DocumentsOver(C)) /\ Len(Append(s, d)) = Len(s) + 1
    BY AppendProperties
  <2>2. PICK f \in [0..Len(s) -> BuiltOver(C)] :
               Folds(f, NothingBuilt, RebuildStep(C), s) /\ Built(s) = f[Len(s)]
    BY BuiltFolds
  <2>3. PICK g \in [0..Len(Append(s, d)) -> BuiltOver(C)] :
               /\ Folds(g, NothingBuilt, RebuildStep(C), Append(s, d))
               /\ Built(Append(s, d)) = g[Len(Append(s, d))]
    BY <2>1, BuiltFolds
  <2>4. g[Len(s) + 1] = RebuildStep(C)[f[Len(s)]][d]
    BY <2>2, <2>3, FoldAppends
  <2>5. Built(s) \in BuiltOver(C)
    BY <1>2
  <2> QED
    BY <2>1, <2>2, <2>3, <2>4, <2>5 DEF RebuildStep
<1> QED
  BY <1>1, <1>2, <1>3

\* The parts of an answer, cleaned.
CleanedParts(p) == [i \in DOMAIN p |-> PartToDocument(p[i])]

\* Only texts are cleaned.
LEMMA CleanedPart ==
  ASSUME NEW part \in PartsOver(Chars)
  PROVE  /\ PartToDocument(part) \in PartsOver(CleanChars)
         /\ PartToDocument(part).kind = part.kind
         /\ part.kind = "tool_call" => PartToDocument(part) = part
         /\ part.kind = "text" => PartToDocument(part) = TextPart(CleanText(part.text))
         /\ part.kind = "tool_result" =>
              PartToDocument(part) = ToolResultPart(part.call, CleanText(part.text))
<1>1. CASE part \in [kind : {"tool_call"}, call : Nat, arguments : Args]
  BY <1>1 DEF PartToDocument, PartsOver
<1>2. CASE part \in [kind : {"text"}, text : Seq(Chars)]
  <2> DEFINE text == CleanText(part.text)
  <2>1. text \in Seq(CleanChars)
    BY <1>2, CleanTextIs DEF Text
  <2>2. PartToDocument(part) = [part EXCEPT !.text = text]
    BY <1>2 DEF PartToDocument
  <2>3. [part EXCEPT !.text = text] = [kind |-> "text", text |-> text]
    BY <1>2
  <2> HIDE DEF text
  <2>4. [kind |-> "text", text |-> text] \in PartsOver(CleanChars)
    BY <2>1 DEF PartsOver
  <2> QED
    BY <1>2, <2>2, <2>3, <2>4 DEF TextPart, text
<1>3. CASE part \in [kind : {"tool_result"}, call : Nat, text : Seq(Chars)]
  <2> DEFINE text == CleanText(part.text)
  <2>1. text \in Seq(CleanChars)
    BY <1>3, CleanTextIs DEF Text
  <2>2. PartToDocument(part) = [part EXCEPT !.text = text]
    BY <1>3 DEF PartToDocument
  <2>3. [part EXCEPT !.text = text] = [kind |-> "tool_result", call |-> part.call, text |-> text]
    BY <1>3
  <2> HIDE DEF text
  <2>4. [kind |-> "tool_result", call |-> part.call, text |-> text] \in PartsOver(CleanChars)
    BY <1>3, <2>1 DEF PartsOver
  <2> QED
    BY <1>3, <2>2, <2>3, <2>4 DEF ToolResultPart, text
<1> QED
  BY <1>1, <1>2, <1>3 DEF PartsOver

LEMMA Wider ==
  ASSUME NEW C, NEW D, C \subseteq D
  PROVE  PartsOver(C) \subseteq PartsOver(D) /\ DocumentsOver(C) \subseteq DocumentsOver(D)
<1>1. Seq(C) \subseteq Seq(D)
  BY SeqMonotonic
<1>2. EventsOver(C) \subseteq EventsOver(D)
  <2> SUFFICES ASSUME NEW e \in EventsOver(C) PROVE e \in EventsOver(D)
    OBVIOUS
  <2>1. CASE e \in [kind : {"text_piece", "reasoning_piece"}, body : [text : Seq(C)]]
    <3>1. e \in [kind : {"text_piece", "reasoning_piece"}, body : [text : Seq(D)]]
      BY <1>1, <2>1
    <3> QED
      BY <3>1 DEF EventsOver
  <2>2. CASE e \in [kind : {"result_landed"}, body : [call : Nat, text : Seq(C)]]
    <3>1. e \in [kind : {"result_landed"}, body : [call : Nat, text : Seq(D)]]
      BY <1>1, <2>2
    <3> QED
      BY <3>1 DEF EventsOver
  <2> QED
    BY <2>1, <2>2 DEF EventsOver
<1> QED
  BY <1>1, <1>2 DEF PartsOver, DocumentsOver

LEMMA FewerChars ==
  /\ PureChars \subseteq CleanChars /\ CleanChars \subseteq Chars
  /\ PartsOver(PureChars) \subseteq PartsOver(CleanChars)
  /\ PartsOver(CleanChars) \subseteq PartsOver(Chars)
  /\ DocumentsOver(PureChars) \subseteq DocumentsOver(CleanChars)
<1>1. PureChars \subseteq CleanChars /\ CleanChars \subseteq Chars
  BY DEF PureChars, CleanChars
<1> QED
  BY <1>1, Wider

LEMMA CleanPartLeft ==
  ASSUME NEW part \in PartsOver(CleanChars)
  PROVE  PartToDocument(part) = part
<1>1. CASE part \in [kind : {"tool_call"}, call : Nat, arguments : Args]
  BY <1>1 DEF PartToDocument
<1>2. CASE part \in [kind : {"text"}, text : Seq(CleanChars)]
  <2>1. CleanText(part.text) = part.text
    BY <1>2, CleanIsLeft
  <2>2. PartToDocument(part) = [part EXCEPT !.text = part.text]
    BY <1>2, <2>1 DEF PartToDocument
  <2> QED
    BY <1>2, <2>2
<1>3. CASE part \in [kind : {"tool_result"}, call : Nat, text : Seq(CleanChars)]
  <2>1. CleanText(part.text) = part.text
    BY <1>3, CleanIsLeft
  <2>2. PartToDocument(part) = [part EXCEPT !.text = part.text]
    BY <1>3, <2>1 DEF PartToDocument
  <2> QED
    BY <1>3, <2>2
<1> QED
  BY <1>1, <1>2, <1>3 DEF PartsOver

LEMMA CleanedPartsIs ==
  ASSUME NEW p \in Seq(PartsOver(Chars))
  PROVE  /\ CleanedParts(p) \in Seq(PartsOver(CleanChars)) /\ Len(CleanedParts(p)) = Len(p)
         /\ \A i \in 1..Len(p) : CleanedParts(p)[i] = PartToDocument(p[i])
<1> DEFINE n == Len(p)
           value == [i \in 1..n |-> PartToDocument(p[i])]
<1>1. n \in Nat /\ DOMAIN p = 1..n /\ \A i \in 1..n : p[i] \in PartsOver(Chars)
  BY LenProperties, ElementOfSeq
<1>2. CleanedParts(p) = value
  BY <1>1 DEF CleanedParts
<1> HIDE DEF n
<1>3. value \in [1..n -> PartsOver(CleanChars)]
  BY <1>1, CleanedPart
<1> HIDE DEF value
<1>4. value \in Seq(PartsOver(CleanChars))
  BY <1>1, <1>3, SeqDef
<1>5. Len(value) = n
  BY <1>1, <1>3, <1>4, LenProperties
<1> QED
  BY <1>2, <1>4, <1>5 DEF value, n

LEMMA CleanedPartsMore ==
  /\ CleanedParts(<<>>) = <<>>
  /\ \A p \in Seq(PartsOver(Chars)), part \in PartsOver(Chars) :
       CleanedParts(Append(p, part)) = Append(CleanedParts(p), PartToDocument(part))
<1>1. CleanedParts(<<>>) = <<>>
  <2>1. <<>> \in Seq(PartsOver(Chars)) /\ Len(<<>>) = 0
    BY EmptySeq
  <2> QED
    BY <2>1, CleanedPartsIs, EmptySeq
<1>2. ASSUME NEW p \in Seq(PartsOver(Chars)), NEW part \in PartsOver(Chars)
      PROVE  CleanedParts(Append(p, part)) = Append(CleanedParts(p), PartToDocument(part))
  <2> DEFINE q == Append(p, part)
             a == CleanedParts(q)
             b == Append(CleanedParts(p), PartToDocument(part))
  <2>1. /\ q \in Seq(PartsOver(Chars)) /\ Len(q) = Len(p) + 1 /\ q[Len(p) + 1] = part
        /\ \A i \in 1..Len(p) : q[i] = p[i]
    BY AppendProperties
  <2> HIDE DEF q
  <2>2. /\ a \in Seq(PartsOver(CleanChars)) /\ Len(a) = Len(p) + 1
        /\ \A i \in 1..Len(p) + 1 : a[i] = PartToDocument(q[i])
    BY <2>1, CleanedPartsIs
  <2>3. /\ CleanedParts(p) \in Seq(PartsOver(CleanChars)) /\ Len(CleanedParts(p)) = Len(p)
        /\ \A i \in 1..Len(p) : CleanedParts(p)[i] = PartToDocument(p[i])
    BY CleanedPartsIs
  <2>4. PartToDocument(part) \in PartsOver(CleanChars)
    BY CleanedPart
  <2>5. /\ b \in Seq(PartsOver(CleanChars)) /\ Len(b) = Len(p) + 1
        /\ b[Len(p) + 1] = PartToDocument(part)
        /\ \A i \in 1..Len(p) : b[i] = CleanedParts(p)[i]
    BY <2>3, <2>4, AppendProperties
  <2>6. Len(p) \in Nat
    BY LenProperties
  <2> HIDE DEF a, b
  <2>7. \A i \in 1..Len(a) : a[i] = b[i]
    <3> SUFFICES ASSUME NEW i \in 1..Len(a) PROVE a[i] = b[i]
      OBVIOUS
    <3>1. i \in 1..Len(p) + 1 /\ (i \in 1..Len(p) \/ i = Len(p) + 1)
      BY <2>2, <2>6
    <3> QED
      BY <2>1, <2>2, <2>3, <2>5, <3>1
  <2>8. a = b
    BY <2>2, <2>5, <2>7, SeqEqual
  <2> QED
    BY <2>8 DEF a, b, q
<1> QED
  BY <1>1, <1>2

LEMMA CleanPartsLeft ==
  ASSUME NEW p \in Seq(PartsOver(CleanChars))
  PROVE  CleanedParts(p) = p
<1>1. p \in Seq(PartsOver(Chars))
  BY FewerChars, SeqMonotonic
<1>2. /\ CleanedParts(p) \in Seq(PartsOver(CleanChars)) /\ Len(CleanedParts(p)) = Len(p)
      /\ \A i \in 1..Len(p) : CleanedParts(p)[i] = PartToDocument(p[i])
  BY <1>1, CleanedPartsIs
<1>3. \A i \in 1..Len(p) : p[i] \in PartsOver(CleanChars)
  BY ElementOfSeq
<1>4. \A i \in 1..Len(p) : CleanedParts(p)[i] = p[i]
  BY <1>2, <1>3, CleanPartLeft
<1> QED
  BY <1>2, <1>4, SeqEqual

LEMMA SameText ==
  ASSUME NEW T, NEW x \in [kind : {"text"}, text : T], NEW y \in [kind : {"text"}, text : T],
         x.text = y.text
  PROVE  x = y
OBVIOUS

LEMMA WithTextMore ==
  ASSUME NEW C, NEW p \in Seq(PartsOver(C)), NEW part \in PartsOver(C), NEW text \in Seq(C)
  PROVE  WithText(Append(p, part), text) =
           IF part.kind = "text" THEN Append(p, TextPart(part.text \o text))
           ELSE Append(Append(p, part), TextPart(text))
<1> DEFINE n == Len(p) + 1
           q == Append(p, part)
<1>1. /\ Len(p) \in Nat /\ q \in Seq(PartsOver(C)) /\ q # <<>> /\ Len(q) = n /\ q[n] = part
      /\ \A i \in 1..Len(p) : q[i] = p[i]
  BY LenProperties, AppendProperties
<1>2. CASE part.kind = "text"
  <2> DEFINE longer == TextPart(part.text \o text)
             a == [q EXCEPT ![n] = longer]
             b == Append(p, longer)
  <2>1. part \in [kind : {"text"}, text : Seq(C)]
    BY <1>2 DEF PartsOver
  <2>2. part.text \o text \in Seq(C)
    BY <2>1, ConcatProperties
  <2>3. [part EXCEPT !.text = part.text \o text] \in [kind : {"text"}, text : Seq(C)]
    BY <2>1, <2>2
  <2>4. [part EXCEPT !.text = part.text \o text].text = part.text \o text
    BY <2>1
  <2>5. [part EXCEPT !.text = part.text \o text] = longer
    <3>1. longer \in [kind : {"text"}, text : Seq(C)] /\ longer.text = part.text \o text
      BY <2>2 DEF TextPart
    <3> HIDE DEF longer
    <3> QED
      BY <2>3, <2>4, <3>1, SameText
  <2>6. longer \in PartsOver(C)
    BY <2>2 DEF TextPart, PartsOver
  <2> HIDE DEF longer, q
  <2>7. WithText(q, text) = a
    <3>1. WithText(q, text)
            = [q EXCEPT ![Len(q)] = [q[Len(q)] EXCEPT !.text = q[Len(q)].text \o text]]
      BY <1>1, <1>2 DEF WithText
    <3> QED
      BY <1>1, <2>5, <3>1
  <2>8. n \in 1..Len(q)
    BY <1>1
  <2>9. /\ a \in Seq(PartsOver(C)) /\ Len(a) = n
        /\ \A j \in 1..Len(q) : a[j] = IF j = n THEN longer ELSE q[j]
    BY <1>1, <2>6, <2>8, ExceptSeq
  <2>10. /\ b \in Seq(PartsOver(C)) /\ Len(b) = n /\ b[n] = longer
         /\ \A i \in 1..Len(p) : b[i] = p[i]
    BY <2>6, AppendProperties
  <2> HIDE DEF a, b
  <2>11. \A i \in 1..Len(a) : a[i] = b[i]
    <3> SUFFICES ASSUME NEW i \in 1..Len(a) PROVE a[i] = b[i]
      OBVIOUS
    <3>1. i \in 1..Len(q)
      BY <1>1, <2>9
    <3>2. CASE i = n
      BY <2>9, <2>10, <3>1, <3>2
    <3>3. CASE i # n
      <4>1. i \in 1..Len(p)
        BY <1>1, <3>1, <3>3
      <4> QED
        BY <1>1, <2>9, <2>10, <3>1, <3>3, <4>1
    <3> QED
      BY <3>2, <3>3
  <2>12. a = b
    BY <2>9, <2>10, <2>11, SeqEqual
  <2> QED
    BY <1>2, <2>7, <2>12 DEF b, q, longer
<1>3. CASE part.kind # "text"
  <2> HIDE DEF q
  <2> QED
    BY <1>1, <1>3 DEF WithText, q
<1> QED
  BY <1>2, <1>3

\* Text that goes on is cleaned on its own, when what came before it held no half of a pair.
LEMMA CleanedWithText ==
  ASSUME NEW p \in Seq(PartsOver(Chars)), CleanedParts(p) \in Seq(PartsOver(PureChars)),
         NEW text \in Text
  PROVE  CleanedParts(WithText(p, text)) = WithText(CleanedParts(p), CleanText(text))
<1>0. text \in Seq(Chars) /\ CleanText(text) \in Seq(CleanChars)
  BY CleanTextIs DEF Text
<1>1. TextPart(text) \in PartsOver(Chars) /\ TextPart(text).kind = "text"
      /\ TextPart(text).text = text
  BY <1>0 DEF TextPart, PartsOver
<1>2. PartToDocument(TextPart(text)) = TextPart(CleanText(text))
  BY <1>1, CleanedPart
<1>3. CASE p = <<>>
  <2>1. WithText(p, text) = Append(p, TextPart(text)) /\ CleanedParts(p) = <<>>
    BY <1>3, CleanedPartsMore DEF WithText
  <2>2. WithText(<<>>, CleanText(text)) = Append(<<>>, TextPart(CleanText(text)))
    BY DEF WithText
  <2> QED
    BY <1>1, <1>2, <1>3, <2>1, <2>2, CleanedPartsMore
<1>4. CASE p # <<>>
  <2>1. PICK q \in Seq(PartsOver(Chars)), part \in PartsOver(Chars) : p = Append(q, part)
    BY <1>4, SequenceEmptyOrAppend
  <2> DEFINE cleaned == PartToDocument(part)
  <2>2. /\ CleanedParts(p) = Append(CleanedParts(q), cleaned)
        /\ CleanedParts(q) \in Seq(PartsOver(CleanChars)) /\ cleaned \in PartsOver(CleanChars)
    BY <2>1, CleanedPartsMore, CleanedPartsIs, CleanedPart
  <2>3. cleaned \in PartsOver(PureChars)
    <3> HIDE DEF cleaned
    <3>1. /\ Len(CleanedParts(p)) = Len(CleanedParts(q)) + 1
          /\ CleanedParts(p)[Len(CleanedParts(q)) + 1] = cleaned
          /\ Len(CleanedParts(q)) \in Nat
      BY <2>2, AppendProperties, LenProperties
    <3>2. Len(CleanedParts(q)) + 1 \in 1..Len(CleanedParts(p))
      BY <3>1
    <3> QED
      BY <3>1, <3>2, ElementOfSeq
  <2>4. WithText(p, text) = IF part.kind = "text" THEN Append(q, TextPart(part.text \o text))
                            ELSE Append(Append(q, part), TextPart(text))
    BY <1>0, <2>1, WithTextMore
  <2>5. WithText(CleanedParts(p), CleanText(text)) =
          IF cleaned.kind = "text"
          THEN Append(CleanedParts(q), TextPart(cleaned.text \o CleanText(text)))
          ELSE Append(Append(CleanedParts(q), cleaned), TextPart(CleanText(text)))
    <3> HIDE DEF cleaned
    <3> QED
      BY <1>0, <2>2, WithTextMore
  <2>6. cleaned.kind = part.kind
    BY CleanedPart
  <2>7. CASE part.kind = "text"
    <3>1. part.text \in Text /\ cleaned = TextPart(CleanText(part.text))
      BY <2>7, CleanedPart DEF PartsOver, Text
    <3>2. CleanText(part.text) \in Seq(PureChars)
      BY <2>3, <3>1 DEF PartsOver, TextPart
    <3>3. CleanText(part.text \o text) = CleanText(part.text) \o CleanText(text)
      BY <3>1, <3>2, CleanAfterPure
    <3> DEFINE longer == TextPart(part.text \o text)
    <3>4. part.text \o text \in Seq(Chars)
      BY <1>0, <3>1, ConcatProperties DEF Text
    <3>5. longer \in PartsOver(Chars) /\ longer.kind = "text" /\ longer.text = part.text \o text
      BY <3>4 DEF TextPart, PartsOver
    <3>6. PartToDocument(longer) = TextPart(CleanText(part.text \o text))
      BY <3>5, CleanedPart
    <3>7. CleanedParts(Append(q, longer)) = Append(CleanedParts(q), PartToDocument(longer))
      BY <3>5, CleanedPartsMore
    <3>8. cleaned.text = CleanText(part.text)
      BY <3>1 DEF TextPart
    <3> QED
      BY <2>4, <2>5, <2>6, <2>7, <3>3, <3>6, <3>7, <3>8
  <2>8. CASE part.kind # "text"
    <3>1. Append(q, part) \in Seq(PartsOver(Chars))
      BY AppendProperties
    <3>2. CleanedParts(Append(Append(q, part), TextPart(text)))
            = Append(CleanedParts(Append(q, part)), TextPart(CleanText(text)))
      BY <1>1, <1>2, <3>1, CleanedPartsMore
    <3> QED
      BY <2>1, <2>2, <2>4, <2>5, <2>6, <2>8, <3>2
  <2> QED
    BY <2>7, <2>8
<1> QED
  BY <1>3, <1>4

-----------------------------------------------------------------------------
(* The log                                                                 *)

Doc == DocumentsOver(CleanChars)

Ordered(l) == \A i, j \in 1..Len(l) : i < j => l[i].position < l[j].position

UpTo(l, p) == \A i \in 1..Len(l) : l[i].position <= p

Open(l) == \A i \in 1..Len(l) : l[i].kind # "turn_ended"

\* Half a character was replaced in one of the documents.
Replaced(l) ==
  \E i \in DOMAIN l : "text" \in DOMAIN l[i].body /\ Contains(l[i].body.text, "replacement")

Calling(l) == Built(l).calls

\* What a document more does to what is built.
BuiltAs(l, d, m) ==
  LET body == d.body
  IN  /\ d.kind = "text_piece" =>
           PartialAnswer(m) = WithText(PartialAnswer(l), body.text) /\ Calling(m) = Calling(l)
      /\ d.kind = "call_started" =>
           PartialAnswer(m) = PartialAnswer(l) /\ Calling(m) = Noted(Calling(l), body.call, "")
      /\ d.kind = "arguments_piece" =>
           /\ PartialAnswer(m) = PartialAnswer(l)
           /\ body.call \in DOMAIN Calling(l) =>
                Calling(m) = Noted(Calling(l), body.call, body.arguments)
      /\ d.kind = "call_completed" =>
           PartialAnswer(m) = IF body.call \in DOMAIN Calling(l)
                              THEN Append(PartialAnswer(l),
                                          ToolCallPart(body.call, Calling(l)[body.call]))
                              ELSE PartialAnswer(l)
      /\ d.kind = "result_landed" =>
           PartialAnswer(m) = Append(PartialAnswer(l), ToolResultPart(body.call, body.text))
      /\ d.kind \in {"message_started", "reasoning_piece", "message_completed", "turn_ended"} =>
           PartialAnswer(m) = PartialAnswer(l)

LEMMA BuiltFrom ==
  ASSUME NEW C, NEW l \in Seq(DocumentsOver(C)), NEW d \in DocumentsOver(C)
  PROVE  /\ PartialAnswer(l) \in Seq(PartsOver(C))
         /\ \E S \in SUBSET Nat : Calling(l) \in [S -> Args]
         /\ BuiltAs(l, d, Append(l, d))
<1> DEFINE p == PartialAnswer(l)
           calls == Calling(l)
           m == Append(l, d)
<1>1. Built(l) \in BuiltOver(C) /\ Built(m) = Rebuilt(Built(l), d)
  BY BuiltMore
<1>2. p \in Seq(PartsOver(C)) /\ \E S \in SUBSET Nat : calls \in [S -> Args]
  BY <1>1 DEF BuiltOver, PartialAnswer, Calling
<1>3. Built(l) = BuiltOf(p, calls)
  BY <1>1 DEF BuiltOver, BuiltOf, PartialAnswer, Calling
<1>4. RebuiltAs(p, calls, d) /\ Built(m) = Rebuilt(BuiltOf(p, calls), d)
  BY <1>1, <1>3, RebuiltIs
<1>5. \A q, c : BuiltOf(q, c).parts = q /\ BuiltOf(q, c).calls = c
  BY DEF BuiltOf
<1>6. BuiltAs(l, d, m)
  <2>1. PartialAnswer(m) = Built(m).parts /\ Calling(m) = Built(m).calls
    BY DEF PartialAnswer, Calling
  <2> HIDE DEF m
  <2>2. CASE d.kind = "text_piece"
    BY <1>4, <1>5, <2>1, <2>2 DEF RebuiltAs, BuiltAs
  <2>3. CASE d.kind = "call_started"
    <3> DEFINE noted == Noted(calls, d.body.call, "")
    <3>1. Built(m) = BuiltOf(p, noted)
      BY <1>4, <2>3 DEF RebuiltAs
    <3> HIDE DEF noted
    <3>2. PartialAnswer(m) = p /\ Calling(m) = noted
      BY <2>1, <3>1 DEF BuiltOf
    <3> QED
      BY <2>3, <3>2 DEF BuiltAs, noted
  <2>4. CASE d.kind = "arguments_piece"
    BY <1>4, <1>5, <2>1, <2>4 DEF RebuiltAs, BuiltAs
  <2>5. CASE d.kind = "call_completed"
    BY <1>4, <1>5, <2>1, <2>5 DEF RebuiltAs, BuiltAs
  <2>6. CASE d.kind = "result_landed"
    <3>1. Built(m) = BuiltOf(Append(p, ToolResultPart(d.body.call, d.body.text)), calls)
      BY <1>4, <2>6 DEF RebuiltAs
    <3>2. PartialAnswer(m) = Append(p, ToolResultPart(d.body.call, d.body.text))
      BY <2>1, <3>1 DEF BuiltOf
    <3> QED
      BY <2>6, <3>2 DEF BuiltAs
  <2>7. CASE d.kind \in {"message_started", "reasoning_piece", "message_completed", "turn_ended"}
    <3>1. Built(m) = BuiltOf(p, calls)
      BY <1>4, <2>7 DEF RebuiltAs
    <3>2. PartialAnswer(m) = p
      BY <1>5, <2>1, <3>1
    <3> QED
      BY <2>7, <3>2 DEF BuiltAs
  <2> QED
    BY <2>2, <2>3, <2>4, <2>5, <2>6, <2>7 DEF BuiltAs
<1> QED
  BY <1>2, <1>6

\* m is l and the document d after it.
Grown(l, d, m) ==
  /\ m = Append(l, d) /\ m \in Seq(Doc) /\ Len(m) = Len(l) + 1 /\ Front(m) = l
  /\ m[Len(l) + 1] = d /\ \A i \in 1..Len(l) : m[i] = l[i]
  /\ Ordered(m) /\ UpTo(m, d.position)
  /\ Replaced(l) => Replaced(m)
  /\ BuiltAs(l, d, m)

LEMMA Growing ==
  ASSUME NEW l \in Seq(Doc), NEW p \in Nat, Ordered(l), UpTo(l, p),
         NEW d \in Doc, d.position > p
  PROVE  Grown(l, d, Append(l, d))
<1> DEFINE m == Append(l, d)
<1>1. /\ Len(l) \in Nat /\ m \in Seq(Doc) /\ Len(m) = Len(l) + 1 /\ m[Len(l) + 1] = d
      /\ \A i \in 1..Len(l) : m[i] = l[i]
  BY LenProperties, AppendProperties
<1>2. Front(m) = l /\ BuiltAs(l, d, m)
  BY FrontAndLast, BuiltFrom DEF Doc
<1>3. DOMAIN l = 1..Len(l) /\ DOMAIN m = 1..Len(m)
  BY <1>1, LenProperties
<1>4. d.position \in Nat /\ \A i \in 1..Len(l) : l[i].position \in Nat
  BY DocumentIs, ElementOfSeq DEF Doc
<1> DEFINE n == Len(l)
<1>5. \A i \in 1..n + 1 : i \in 1..n \/ i = n + 1
  BY <1>1
<1>6. n \in Nat /\ m = Append(l, d)
  BY <1>1
<1> HIDE DEF m
<1>7. UpTo(m, d.position)
  BY <1>1, <1>4, <1>5 DEF UpTo
<1>8. Ordered(m)
  <2> SUFFICES ASSUME NEW i \in 1..Len(m), NEW j \in 1..Len(m), i < j
               PROVE  m[i].position < m[j].position
    BY DEF Ordered
  <2>1. CASE j \in 1..n
    <3>1. i \in 1..n
      BY <1>1, <2>1
    <3> QED
      BY <1>1, <2>1, <3>1 DEF Ordered
  <2>2. CASE j = n + 1
    <3>1. i \in 1..n
      BY <1>1, <2>2
    <3>2. l[i].position <= p
      BY <3>1 DEF UpTo
    <3> QED
      BY <1>1, <1>4, <2>2, <3>1, <3>2
  <2> QED
    BY <1>1, <2>1, <2>2
<1>9. Replaced(l) => Replaced(m)
  BY <1>1, <1>3, <1>5 DEF Replaced
<1> QED
  BY <1>1, <1>2, <1>6, <1>7, <1>8, <1>9 DEF Grown, m

\* Nothing was replaced: no text in the log holds a replacement.
LEMMA PureLog ==
  ASSUME NEW l \in Seq(Doc), ~Replaced(l)
  PROVE  l \in Seq(DocumentsOver(PureChars))
<1>1. Len(l) \in Nat /\ DOMAIN l = 1..Len(l) /\ l \in [1..Len(l) -> Doc]
  BY LenProperties
<1>2. ASSUME NEW i \in 1..Len(l) PROVE l[i] \in DocumentsOver(PureChars)
  <2> DEFINE d == l[i]
  <2>1. d \in Doc
    BY <1>1
  <2>2. "text" \in DOMAIN d.body => ~Contains(d.body.text, "replacement")
    BY <1>1 DEF Replaced
  <2> HIDE DEF d
  <2>3. /\ d.v = 1 /\ d.position \in Nat \ {0} /\ Event(d.kind, d.body) \in EventsOver(CleanChars)
        /\ d = [v |-> 1, position |-> d.position, kind |-> d.kind, body |-> d.body]
    BY <2>1, DocumentIs DEF Doc
  <2>4. ASSUME NEW text \in Seq(CleanChars), ~Contains(text, "replacement")
        PROVE  text \in Seq(PureChars)
    <3>1. Len(text) \in Nat /\ text \in [1..Len(text) -> CleanChars]
      BY LenProperties
    <3>2. \A j \in 1..Len(text) : text[j] \in PureChars
      BY <2>4, <3>1 DEF Contains, PureChars
    <3>3. text \in [1..Len(text) -> PureChars]
      BY <3>1, <3>2
    <3> QED
      BY <3>1, <3>3, SeqDef
  <2>5. Event(d.kind, d.body) \in EventsOver(PureChars)
    <3>1. CASE d.kind \in {"text_piece", "reasoning_piece"} /\ d.body \in [text : Seq(CleanChars)]
      <4>1. d.body.text \in Seq(PureChars)
        BY <2>2, <2>4, <3>1
      <4>2. d.body \in [text : Seq(PureChars)]
        BY <3>1, <4>1
      <4> QED
        BY <3>1, <4>2 DEF EventsOver, Event
    <3>2. CASE d.kind = "result_landed" /\ d.body \in [call : Nat, text : Seq(CleanChars)]
      <4>1. d.body.text \in Seq(PureChars)
        BY <2>2, <2>4, <3>2
      <4>2. d.body \in [call : Nat, text : Seq(PureChars)]
        BY <3>2, <4>1
      <4> QED
        BY <3>2, <4>2 DEF EventsOver, Event
    <3>3. CASE d.kind \notin {"text_piece", "reasoning_piece", "result_landed"}
      BY <2>3, <3>3, EventIs DEF EventsOver, Event
    <3> QED
      BY <2>3, <3>1, <3>2, <3>3, EventIs
  <2>6. Event(d.kind, d.body).kind = d.kind /\ Event(d.kind, d.body).body = d.body
    BY DEF Event
  <2>7. d \in DocumentsOver(PureChars)
    BY <2>3, <2>5, <2>6 DEF DocumentsOver
  <2> QED
    BY <2>7 DEF d
<1>3. l \in [1..Len(l) -> DocumentsOver(PureChars)]
  BY <1>1, <1>2
<1> QED
  BY <1>1, <1>3, SeqDef

-----------------------------------------------------------------------------
(* The runner                                                              *)

Streaming == {"starting", "streaming", "called", "argued"}
Stopping == {"breaking", "closing"}

RunnerTypeOK ==
  /\ parts \in Seq(PartsOver(Chars))
  /\ runner \in [pc : Streaming \cup Stopping \cup {"gone"}, call : Nat, arguments : Args,
                 position : Nat]
  /\ turn \in {"active"} \cup Ends

\* Positions grow, and a turn's end is in its log once, last.
LogInv ==
  /\ log \in Seq(Doc) /\ Ordered(log)
  /\ turn = "active" => UpTo(log, runner.position) /\ Open(log)
  /\ turn # "active" =>
       \A i \in 1..Len(log) : log[i].kind = "turn_ended" => i = Len(log) /\ log[i].body.state = turn

\* The call the runner is on is in the log.
CallsInv ==
  /\ runner.pc \in {"called", "argued"} => runner.call \in DOMAIN Calling(log)
  /\ runner.pc = "argued" => Calling(log)[runner.call] = runner.arguments

\* Parts say what the events of a log say.
Says(p, l) == CleanedParts(p) = PartialAnswer(l)

\* Parts say that and, last, the one text they have, which no event says.
SaysHanded(p, l) == HandedOver(CleanedParts(p)) /\ Front(CleanedParts(p)) = PartialAnswer(l)

\* What the runner holds is what the log says, but for a write that failed, and what was handed
\* over when the call that was to finish the turn failed.
SaysInv ==
  ~Replaced(log) =>
    /\ runner.pc \in Streaming => Says(parts, log)
    /\ runner.pc \in Stopping =>
         \/ Says(parts, log)
         \/ log # <<>> /\ Says(parts, Front(log))
         \/ SaysHanded(parts, log)

AnswerSays(p) ==
  ~Replaced(log) =>
    \/ Says(p, log)
    \/ SaysHanded(p, log)
    \/ turn # "finished" /\ Told # <<>> /\ Says(p, Front(Told))

AnswerInv ==
  \/ turn # "finished" /\ answer = None
  \/ /\ turn \in Ends \ {"cancelled"}
     /\ \E p \in Seq(PartsOver(Chars)) :
          answer = Kept(StoredMessage(p, turn # "finished")) /\ AnswerSays(p)

RunnerInv == RunnerTypeOK /\ LogInv /\ CallsInv /\ SaysInv /\ AnswerInv

LEMMA RunnerInvInit ==
  Init => RunnerInv
<1> SUFFICES ASSUME Init PROVE RunnerInv
  OBVIOUS
<1>1. /\ log = <<>> /\ parts = <<>> /\ turn = "active" /\ answer = None
      /\ runner = [pc |-> "starting", call |-> 0, arguments |-> "plain", position |-> 0]
  BY DEF Init
<1>2. RunnerTypeOK
  BY <1>1, EmptySeq DEF RunnerTypeOK, Streaming, Args
<1>3. LogInv
  BY <1>1, EmptySeq DEF LogInv, Ordered, UpTo, Open
<1>4. CallsInv
  BY <1>1 DEF CallsInv
<1>5. SaysInv
  <2>1. PartialAnswer(<<>>) = <<>>
    BY BuiltMore DEF PartialAnswer, NothingBuilt
  <2> QED
    BY <1>1, <2>1, CleanedPartsMore DEF SaysInv, Says, Stopping
<1>6. AnswerInv
  BY <1>1 DEF AnswerInv
<1> QED
  BY <1>2, <1>3, <1>4, <1>5, <1>6 DEF RunnerInv

LEMMA PiecesAreEvents ==
  /\ MessageStarted \in EventsOver(Chars) /\ MessageCompleted \in EventsOver(Chars)
  /\ \A text \in Text : /\ TextPiece(text) \in EventsOver(Chars)
                         /\ ReasoningPiece(text) \in EventsOver(Chars)
  /\ \A call \in Nat : /\ CallStarted(call) \in EventsOver(Chars)
                        /\ CallCompleted(call) \in EventsOver(Chars)
  /\ \A call \in Nat, arguments \in Args : ArgumentsPiece(call, arguments) \in EventsOver(Chars)
  /\ \A call \in Nat, text \in Text : ResultLanded(call, text) \in EventsOver(Chars)
  /\ \A state \in Ends : TurnEnded(state) \in EventsOver(Chars)
BY DEF EventsOver, Event, MessageStarted, MessageCompleted, TextPiece, ReasoningPiece, CallStarted,
       CallCompleted, ArgumentsPiece, ResultLanded, TurnEnded, Text

LEMMA TextsAreText ==
  Texts \subseteq Text /\ Texts \cup {<<>>} \subseteq Text /\ Arguments \subseteq Args
<1>1. STRING \subseteq Chars
  BY DEF Chars
<1>2. Texts \subseteq Text
  BY <1>1, TextsAssumption, SeqMonotonic DEF Text
<1> QED
  BY <1>2, Joining DEF Args

\* The document of an event, written at the runner's next position.
LEMMA Logged ==
  ASSUME NEW l \in Seq(Doc), NEW p \in Nat, Ordered(l), UpTo(l, p), NEW event \in EventsOver(Chars)
  PROVE  LET d == Document(p + 1, event)
         IN  /\ d \in Doc /\ d.position = p + 1 /\ d.kind = event.kind
             /\ Grown(l, d, Append(l, d))
             /\ \A key \in DOMAIN event.body :
                  d.body[key] = IF key = "text" THEN CleanText(event.body.text) ELSE event.body[key]
<1> DEFINE d == Document(p + 1, event)
<1>1. /\ d \in Doc /\ d.position = p + 1 /\ d.kind = event.kind
      /\ \A key \in DOMAIN event.body :
           d.body[key] = IF key = "text" THEN CleanText(event.body.text) ELSE event.body[key]
  BY DocumentOf DEF Doc
<1>2. Grown(l, d, Append(l, d))
  <2> HIDE DEF d
  <2> QED
    BY <1>1, Growing
<1> QED
  BY <1>1, <1>2

LEMMA LogInvWrites ==
  ASSUME RunnerTypeOK, LogInv, turn = "active", turn' = turn, NEW event \in EventsOver(Chars),
         event.kind # "turn_ended", log' = Append(log, Document(runner.position + 1, event)),
         runner'.position = runner.position + 1
  PROVE  /\ LogInv' /\ Grown(log, Document(runner.position + 1, event), log')
<1> DEFINE d == Document(runner.position + 1, event)
<1>1. /\ log \in Seq(Doc) /\ Ordered(log) /\ UpTo(log, runner.position) /\ Open(log)
      /\ runner.position \in Nat
  BY DEF LogInv, RunnerTypeOK
<1>2. /\ d \in Doc /\ d.position = runner.position + 1 /\ d.kind = event.kind
      /\ Grown(log, d, log')
  BY <1>1, Logged
<1> HIDE DEF d
<1>3. Open(log')
  <2> SUFFICES ASSUME NEW i \in 1..Len(log') PROVE log'[i].kind # "turn_ended"
    BY DEF Open
  <2>1. Len(log) \in Nat
    BY <1>1, LenProperties
  <2>2. i \in 1..Len(log) \/ i = Len(log) + 1
    BY <1>2, <2>1 DEF Grown
  <2> QED
    BY <1>1, <1>2, <2>2 DEF Grown, Open
<1>4. UpTo(log', runner'.position)
  BY <1>2 DEF Grown
<1>5. LogInv'
  BY <1>2, <1>3, <1>4 DEF LogInv, Grown
<1> QED
  BY <1>2, <1>5 DEF d

LEMMA StillActive ==
  ASSUME AnswerInv, turn = "active", turn' = turn, answer' = answer
  PROVE  AnswerInv'
<1>1. answer = None
  BY DEF AnswerInv, Ends
<1> QED
  BY <1>1 DEF AnswerInv, None

\* What a write that succeeds leaves to show: the parts it goes with say what it says.
LEMMA WritesKeep ==
  ASSUME RunnerInv, NEW event \in EventsOver(Chars), event.kind # "turn_ended", NEW from, NEW next,
         next \in [pc : Streaming, call : Nat, arguments : Args, position : Nat],
         next.position = runner.position, from \in Streaming,
         Writes(event, from, next), turn' = turn, answer' = answer,
         parts' \in Seq(PartsOver(Chars)), CallsInv',
         ~Replaced(log) /\ ~Replaced(log') /\ Says(parts, log) => Says(parts', log')
  PROVE  RunnerInv'
<1>0. /\ RunnerTypeOK /\ LogInv /\ SaysInv /\ AnswerInv /\ turn = "active" /\ runner.pc = from
      /\ log' = Append(log, Document(runner.position + 1, event))
      /\ runner' = [next EXCEPT !.position = next.position + 1]
  BY DEF RunnerInv, Writes
<1>1. /\ runner' \in [pc : Streaming, call : Nat, arguments : Args, position : Nat]
      /\ runner'.position = runner.position + 1
  BY <1>0
<1>2. RunnerTypeOK'
  BY <1>0, <1>1 DEF RunnerTypeOK
<1>3. LogInv' /\ Grown(log, Document(runner.position + 1, event), log')
  BY <1>0, <1>1, LogInvWrites
<1>4. SaysInv'
  <2>1. runner'.pc \in Streaming /\ runner'.pc \notin Stopping
    BY <1>1 DEF Streaming, Stopping
  <2>2. ~Replaced(log') => ~Replaced(log)
    BY <1>3 DEF Grown
  <2>3. ~Replaced(log) => Says(parts, log)
    BY <1>0 DEF SaysInv
  <2>4. ~Replaced(log') => Says(parts', log')
    BY <2>2, <2>3
  <2> QED
    BY <2>1, <2>4 DEF SaysInv
<1>5. AnswerInv'
  BY <1>0, StillActive
<1> QED
  BY <1>2, <1>3, <1>4, <1>5 DEF RunnerInv

LEMMA InvBegin ==
  ASSUME RunnerInv, Begin
  PROVE  RunnerInv'
<1> DEFINE event == MessageStarted
           next == [runner EXCEPT !.pc = "streaming"]
           d == Document(runner.position + 1, event)
<1>1. /\ RunnerTypeOK /\ LogInv /\ Writes(event, "starting", next)
      /\ parts' = parts /\ turn' = turn /\ answer' = answer
  BY DEF RunnerInv, Begin
<1>2. /\ next \in [pc : Streaming, call : Nat, arguments : Args, position : Nat]
      /\ next.position = runner.position /\ "starting" \in Streaming
  BY <1>1 DEF RunnerTypeOK, Streaming
<1>3. event \in EventsOver(Chars) /\ event.kind = "message_started"
  BY PiecesAreEvents DEF MessageStarted, Event
<1>4. /\ turn = "active" /\ log' = Append(log, d) /\ runner'.pc = "streaming"
      /\ runner'.position = runner.position + 1
  BY <1>1 DEF Writes, RunnerTypeOK
<1>5. Grown(log, d, log') /\ d.kind = event.kind
  BY <1>1, <1>3, <1>4, LogInvWrites, Logged DEF LogInv, RunnerTypeOK
<1> HIDE DEF event, next, d
<1>6. CallsInv'
  BY <1>4 DEF CallsInv
<1>7. Says(parts, log) => Says(parts', log')
  BY <1>1, <1>3, <1>5 DEF Says, Grown, BuiltAs
<1>8. parts' \in Seq(PartsOver(Chars))
  BY <1>1 DEF RunnerTypeOK
<1> QED
  BY <1>1, <1>2, <1>3, <1>6, <1>7, <1>8, WritesKeep

LEMMA InvSay ==
  ASSUME RunnerInv, NEW text \in Texts, Say(text)
  PROVE  RunnerInv'
<1> DEFINE event == TextPiece(text)
           d == Document(runner.position + 1, event)
<1>0. text \in Text
  BY TextsAreText
<1>1. /\ RunnerTypeOK /\ LogInv /\ Writes(event, "streaming", runner)
      /\ parts' = WithText(parts, text) /\ turn' = turn /\ answer' = answer
  BY DEF RunnerInv, Say
<1>2. event \in EventsOver(Chars) /\ event.kind = "text_piece" /\ event.body = [text |-> text]
  BY <1>0, PiecesAreEvents DEF TextPiece, Event
<1>3. /\ turn = "active" /\ log' = Append(log, d) /\ runner'.pc = "streaming"
      /\ runner'.position = runner.position + 1
  BY <1>1 DEF Writes, RunnerTypeOK
<1>4. /\ Grown(log, d, log') /\ d.kind = event.kind
      /\ \A key \in DOMAIN event.body :
           d.body[key] = IF key = "text" THEN CleanText(event.body.text) ELSE event.body[key]
  BY <1>1, <1>2, <1>3, LogInvWrites, Logged DEF LogInv, RunnerTypeOK
<1>5. d.kind = "text_piece" /\ d.body.text = CleanText(text)
  BY <1>2, <1>4
<1> HIDE DEF event, d
<1>6. CallsInv'
  BY <1>3 DEF CallsInv
<1>7. parts' \in Seq(PartsOver(Chars))
  BY <1>0, <1>1, WithTextType DEF RunnerTypeOK, Text
<1>8. ASSUME ~Replaced(log), Says(parts, log) PROVE Says(parts', log')
  <2>1. log \in Seq(DocumentsOver(PureChars))
    BY <1>1, <1>8, PureLog DEF LogInv
  <2>2. PartialAnswer(log) \in Seq(PartsOver(PureChars))
    BY <2>1, BuiltMore DEF PartialAnswer, BuiltOver
  <2>3. CleanedParts(parts') = WithText(CleanedParts(parts), CleanText(text))
    BY <1>0, <1>1, <1>8, <2>2, CleanedWithText DEF RunnerTypeOK, Says
  <2>4. PartialAnswer(log') = WithText(PartialAnswer(log), CleanText(text))
    BY <1>4, <1>5 DEF Grown, BuiltAs
  <2> QED
    BY <1>8, <2>3, <2>4 DEF Says
<1>9. /\ runner \in [pc : Streaming, call : Nat, arguments : Args, position : Nat]
      /\ "streaming" \in Streaming
  BY <1>1 DEF RunnerTypeOK, Streaming, Writes
<1> QED
  BY <1>1, <1>2, <1>6, <1>7, <1>8, <1>9, WritesKeep

LEMMA InvThink ==
  ASSUME RunnerInv, NEW text \in Texts, Think(text)
  PROVE  RunnerInv'
<1> DEFINE event == ReasoningPiece(text)
           d == Document(runner.position + 1, event)
<1>1. /\ RunnerTypeOK /\ LogInv /\ Writes(event, "streaming", runner)
      /\ parts' = parts /\ turn' = turn /\ answer' = answer
  BY DEF RunnerInv, Think
<1>2. event \in EventsOver(Chars) /\ event.kind = "reasoning_piece"
  BY TextsAreText, PiecesAreEvents DEF ReasoningPiece, Event
<1>3. /\ turn = "active" /\ log' = Append(log, d) /\ runner'.pc = "streaming"
      /\ runner'.position = runner.position + 1
  BY <1>1 DEF Writes, RunnerTypeOK
<1>4. Grown(log, d, log') /\ d.kind = "reasoning_piece"
  BY <1>1, <1>2, <1>3, LogInvWrites, Logged DEF LogInv, RunnerTypeOK
<1> HIDE DEF event, d
<1>5. CallsInv'
  BY <1>3 DEF CallsInv
<1>6. Says(parts, log) => Says(parts', log')
  BY <1>1, <1>4 DEF Says, Grown, BuiltAs
<1>7. parts' \in Seq(PartsOver(Chars))
  BY <1>1 DEF RunnerTypeOK
<1>8. /\ runner \in [pc : Streaming, call : Nat, arguments : Args, position : Nat]
      /\ "streaming" \in Streaming
  BY <1>1 DEF RunnerTypeOK, Streaming, Writes
<1> QED
  BY <1>1, <1>2, <1>5, <1>6, <1>7, <1>8, WritesKeep

LEMMA InvCall ==
  ASSUME RunnerInv, NEW arguments \in Arguments, Call(arguments)
  PROVE  RunnerInv'
<1> DEFINE call == runner.call + 1
           event == CallStarted(call)
           next == [runner EXCEPT !.pc = "called", !.call = call, !.arguments = arguments]
           d == Document(runner.position + 1, event)
<1>1. /\ RunnerTypeOK /\ LogInv /\ Writes(event, "streaming", next)
      /\ parts' = parts /\ turn' = turn /\ answer' = answer
  BY DEF RunnerInv, Call
<1>2. /\ call \in Nat /\ event \in EventsOver(Chars) /\ event.kind = "call_started"
      /\ event.body = [call |-> call]
  BY <1>1, PiecesAreEvents DEF CallStarted, Event, RunnerTypeOK
<1>3. /\ next \in [pc : Streaming, call : Nat, arguments : Args, position : Nat]
      /\ next.position = runner.position /\ "streaming" \in Streaming
  BY <1>1, <1>2, TextsAreText DEF RunnerTypeOK, Streaming
<1>4. /\ turn = "active" /\ log' = Append(log, d) /\ runner'.pc = "called" /\ runner'.call = call
      /\ runner'.position = runner.position + 1
  BY <1>1, <1>2 DEF Writes, RunnerTypeOK
<1>5. /\ Grown(log, d, log') /\ d.kind = event.kind
      /\ \A key \in DOMAIN event.body :
           d.body[key] = IF key = "text" THEN CleanText(event.body.text) ELSE event.body[key]
  BY <1>1, <1>2, <1>4, LogInvWrites, Logged DEF LogInv, RunnerTypeOK
<1>6. d.kind = "call_started" /\ d.body.call = call
  BY <1>2, <1>5
<1> HIDE DEF event, next, d
<1>7. CallsInv'
  <2>1. Calling(log') = Noted(Calling(log), call, "")
    BY <1>5, <1>6 DEF Grown, BuiltAs
  <2>2. call \in DOMAIN Calling(log')
    BY <2>1 DEF Noted
  <2> QED
    BY <1>4, <2>2 DEF CallsInv
<1>8. Says(parts, log) => Says(parts', log')
  BY <1>1, <1>5, <1>6 DEF Says, Grown, BuiltAs
<1>9. parts' \in Seq(PartsOver(Chars))
  BY <1>1 DEF RunnerTypeOK
<1> QED
  BY <1>1, <1>2, <1>3, <1>7, <1>8, <1>9, WritesKeep

LEMMA InvGiveArguments ==
  ASSUME RunnerInv, GiveArguments
  PROVE  RunnerInv'
<1> DEFINE event == ArgumentsPiece(runner.call, runner.arguments)
           next == [runner EXCEPT !.pc = "argued"]
           d == Document(runner.position + 1, event)
<1>1. /\ RunnerTypeOK /\ LogInv /\ CallsInv /\ Writes(event, "called", next)
      /\ parts' = parts /\ turn' = turn /\ answer' = answer
  BY DEF RunnerInv, GiveArguments
<1>2. /\ event \in EventsOver(Chars) /\ event.kind = "arguments_piece"
      /\ event.body = [call |-> runner.call, arguments |-> runner.arguments]
  BY <1>1, PiecesAreEvents DEF ArgumentsPiece, Event, RunnerTypeOK
<1>3. /\ next \in [pc : Streaming, call : Nat, arguments : Args, position : Nat]
      /\ next.position = runner.position /\ "called" \in Streaming
  BY <1>1 DEF RunnerTypeOK, Streaming
<1>4. /\ turn = "active" /\ log' = Append(log, d) /\ runner.pc = "called" /\ runner'.pc = "argued"
      /\ runner'.call = runner.call /\ runner'.arguments = runner.arguments
      /\ runner'.position = runner.position + 1
  BY <1>1 DEF Writes, RunnerTypeOK
<1>5. /\ Grown(log, d, log') /\ d.kind = event.kind
      /\ \A key \in DOMAIN event.body :
           d.body[key] = IF key = "text" THEN CleanText(event.body.text) ELSE event.body[key]
  BY <1>1, <1>2, <1>4, LogInvWrites, Logged DEF LogInv, RunnerTypeOK
<1>6. /\ d.kind = "arguments_piece" /\ d.body.call = runner.call
      /\ d.body.arguments = runner.arguments
  BY <1>2, <1>5
<1> HIDE DEF event, next, d
<1>7. CallsInv'
  <2>1. runner.call \in DOMAIN Calling(log)
    BY <1>1, <1>4 DEF CallsInv
  <2>2. Calling(log') = Noted(Calling(log), runner.call, runner.arguments)
    BY <1>5, <1>6, <2>1 DEF Grown, BuiltAs
  <2>3. runner.call \in DOMAIN Calling(log') /\ Calling(log')[runner.call] = runner.arguments
    BY <2>2 DEF Noted
  <2> QED
    BY <1>4, <2>3 DEF CallsInv
<1>8. Says(parts, log) => Says(parts', log')
  BY <1>1, <1>5, <1>6 DEF Says, Grown, BuiltAs
<1>9. parts' \in Seq(PartsOver(Chars))
  BY <1>1 DEF RunnerTypeOK
<1> QED
  BY <1>1, <1>2, <1>3, <1>7, <1>8, <1>9, WritesKeep

LEMMA InvCompleteCall ==
  ASSUME RunnerInv, CompleteCall
  PROVE  RunnerInv'
<1> DEFINE event == CallCompleted(runner.call)
           next == [runner EXCEPT !.pc = "streaming"]
           part == ToolCallPart(runner.call, runner.arguments)
           d == Document(runner.position + 1, event)
<1>1. /\ RunnerTypeOK /\ LogInv /\ CallsInv /\ Writes(event, "argued", next)
      /\ parts' = Append(parts, part) /\ turn' = turn /\ answer' = answer
  BY DEF RunnerInv, CompleteCall
<1>2. /\ event \in EventsOver(Chars) /\ event.kind = "call_completed"
      /\ event.body = [call |-> runner.call]
  BY <1>1, PiecesAreEvents DEF CallCompleted, Event, RunnerTypeOK
<1>3. /\ next \in [pc : Streaming, call : Nat, arguments : Args, position : Nat]
      /\ next.position = runner.position /\ "argued" \in Streaming
  BY <1>1 DEF RunnerTypeOK, Streaming
<1>4. /\ turn = "active" /\ log' = Append(log, d) /\ runner.pc = "argued"
      /\ runner'.pc = "streaming" /\ runner'.position = runner.position + 1
  BY <1>1 DEF Writes, RunnerTypeOK
<1>5. /\ Grown(log, d, log') /\ d.kind = event.kind
      /\ \A key \in DOMAIN event.body :
           d.body[key] = IF key = "text" THEN CleanText(event.body.text) ELSE event.body[key]
  BY <1>1, <1>2, <1>4, LogInvWrites, Logged DEF LogInv, RunnerTypeOK
<1>6. d.kind = "call_completed" /\ d.body.call = runner.call
  BY <1>2, <1>5
<1>7. part \in PartsOver(Chars) /\ part.kind = "tool_call"
  BY <1>1 DEF RunnerTypeOK, ToolCallPart, PartsOver
<1>8. PartToDocument(part) = part
  <2> HIDE DEF part
  <2> QED
    BY <1>7, CleanedPart
<1> HIDE DEF event, next, d
<1>9. CallsInv'
  BY <1>4 DEF CallsInv
<1>10. Says(parts, log) => Says(parts', log')
  <2>1. PartialAnswer(log') = Append(PartialAnswer(log), part)
    BY <1>1, <1>4, <1>5, <1>6 DEF CallsInv, Grown, BuiltAs
  <2>2. CleanedParts(parts') = Append(CleanedParts(parts), part)
    <3> HIDE DEF part
    <3> QED
      BY <1>1, <1>7, <1>8, CleanedPartsMore DEF RunnerTypeOK
  <2> QED
    BY <2>1, <2>2 DEF Says
<1>11. parts' \in Seq(PartsOver(Chars))
  <2> HIDE DEF part
  <2> QED
    BY <1>1, <1>7, AppendProperties DEF RunnerTypeOK
<1> QED
  BY <1>1, <1>2, <1>3, <1>9, <1>10, <1>11, WritesKeep

LEMMA CallsAreNumbers ==
  ASSUME log \in Seq(Doc), NEW call \in Calls
  PROVE  call \in Nat
<1>1. PICK i \in DOMAIN log : log[i].kind = "call_completed" /\ call = log[i].body.call
  BY DEF Calls
<1>2. log[i] \in Doc
  BY ElementOfSeq, LenProperties
<1>3. Event(log[i].kind, log[i].body) \in EventsOver(CleanChars)
  BY <1>2, DocumentIs DEF Doc
<1>4. log[i].body \in [call : Nat]
  BY <1>1, <1>3, EventIs
<1> QED
  BY <1>1, <1>4

LEMMA InvResult ==
  ASSUME RunnerInv, NEW call \in Calls, NEW text \in Texts, Result(call, text)
  PROVE  RunnerInv'
<1> DEFINE event == ResultLanded(call, text)
           part == ToolResultPart(call, text)
           d == Document(runner.position + 1, event)
<1>0. text \in Text
  BY TextsAreText
<1>1. /\ RunnerTypeOK /\ LogInv /\ Writes(event, "streaming", runner)
      /\ parts' = Append(parts, part) /\ turn' = turn /\ answer' = answer
  BY DEF RunnerInv, Result
<1>2. call \in Nat
  BY <1>1, CallsAreNumbers DEF LogInv
<1>3. /\ event \in EventsOver(Chars) /\ event.kind = "result_landed"
      /\ event.body = [call |-> call, text |-> text]
  BY <1>0, <1>2, PiecesAreEvents DEF ResultLanded, Event
<1>4. /\ turn = "active" /\ log' = Append(log, d) /\ runner'.pc = "streaming"
      /\ runner'.position = runner.position + 1
  BY <1>1 DEF Writes, RunnerTypeOK
<1>5. /\ Grown(log, d, log') /\ d.kind = event.kind
      /\ \A key \in DOMAIN event.body :
           d.body[key] = IF key = "text" THEN CleanText(event.body.text) ELSE event.body[key]
  BY <1>1, <1>3, <1>4, LogInvWrites, Logged DEF LogInv, RunnerTypeOK
<1>6. d.kind = "result_landed" /\ d.body.call = call /\ d.body.text = CleanText(text)
  BY <1>3, <1>5
<1>7. /\ part \in PartsOver(Chars) /\ part.kind = "tool_result" /\ part.call = call
      /\ part.text = text
  BY <1>0, <1>2 DEF ToolResultPart, PartsOver, Text
<1> HIDE DEF event, part, d
<1>8. PartToDocument(part) = ToolResultPart(call, CleanText(text))
  BY <1>7, CleanedPart
<1>9. CallsInv'
  BY <1>4 DEF CallsInv
<1>10. Says(parts, log) => Says(parts', log')
  <2>1. PartialAnswer(log') = Append(PartialAnswer(log), ToolResultPart(call, CleanText(text)))
    BY <1>5, <1>6 DEF Grown, BuiltAs
  <2>2. CleanedParts(parts') = Append(CleanedParts(parts), ToolResultPart(call, CleanText(text)))
    BY <1>1, <1>7, <1>8, CleanedPartsMore DEF RunnerTypeOK
  <2> QED
    BY <2>1, <2>2 DEF Says
<1>11. parts' \in Seq(PartsOver(Chars))
  BY <1>1, <1>7, AppendProperties DEF RunnerTypeOK
<1>12. /\ runner \in [pc : Streaming, call : Nat, arguments : Args, position : Nat]
       /\ "streaming" \in Streaming
  BY <1>1 DEF RunnerTypeOK, Streaming, Writes
<1> QED
  BY <1>1, <1>3, <1>9, <1>10, <1>11, <1>12, WritesKeep

\* What the runner may be writing is an event, and none of them the end.
LEMMA WritingIs ==
  ASSUME RunnerInv, runner.pc \in Streaming, NEW text \in Texts, NEW event \in Writing(text)
  PROVE  event \in EventsOver(Chars) /\ event.kind # "turn_ended"
<1>1. /\ log \in Seq(Doc) /\ runner.call \in Nat /\ runner.call + 1 \in Nat
      /\ runner.arguments \in Args /\ text \in Text
  BY TextsAreText DEF RunnerInv, RunnerTypeOK, LogInv
<1>2. CASE runner.pc = "starting"
  <2>1. event = MessageStarted
    BY <1>2 DEF Writing
  <2> QED
    BY <2>1, PiecesAreEvents DEF MessageStarted, Event
<1>3. CASE runner.pc = "called"
  <2>1. event = ArgumentsPiece(runner.call, runner.arguments)
    BY <1>3 DEF Writing
  <2> QED
    BY <1>1, <2>1, PiecesAreEvents DEF ArgumentsPiece, Event
<1>4. CASE runner.pc = "argued"
  <2>1. event = CallCompleted(runner.call)
    BY <1>4 DEF Writing
  <2> QED
    BY <1>1, <2>1, PiecesAreEvents DEF CallCompleted, Event
<1>5. CASE runner.pc = "streaming"
  <2>1. \/ event = TextPiece(text) \/ event = ReasoningPiece(text)
        \/ event = CallStarted(runner.call + 1)
        \/ \E call \in Calls : event = ResultLanded(call, text)
    <3>1. Writing(text) = {TextPiece(text), ReasoningPiece(text), CallStarted(runner.call + 1)} \cup
                          {ResultLanded(call, text) : call \in Calls \ Results}
      BY <1>5 DEF Writing
    <3>2. \/ event \in {TextPiece(text), ReasoningPiece(text), CallStarted(runner.call + 1)}
          \/ event \in {ResultLanded(call, text) : call \in Calls \ Results}
      BY <3>1, Zenon
    <3>3. event \in {ResultLanded(call, text) : call \in Calls \ Results} =>
            \E call \in Calls : event = ResultLanded(call, text)
      OBVIOUS
    <3> QED
      BY <3>2, <3>3, Zenon
  <2>2. CASE event = TextPiece(text) \/ event = ReasoningPiece(text)
    <3>1. TextPiece(text).kind = "text_piece" /\ ReasoningPiece(text).kind = "reasoning_piece"
      BY DEF TextPiece, ReasoningPiece, Event
    <3>2. event \in EventsOver(Chars)
      BY <1>1, <2>2, PiecesAreEvents
    <3> QED
      BY <2>2, <3>1, <3>2
  <2>3. CASE event = CallStarted(runner.call + 1)
    BY <1>1, <2>3, PiecesAreEvents DEF CallStarted, Event
  <2>4. CASE \E call \in Calls : event = ResultLanded(call, text)
    <3>1. PICK call \in Calls : event = ResultLanded(call, text)
      BY <2>4
    <3>2. call \in Nat
      BY <1>1, CallsAreNumbers
    <3> QED
      BY <1>1, <3>1, <3>2, PiecesAreEvents DEF ResultLanded, Event
  <2> QED
    BY <2>1, <2>2, <2>3, <2>4
<1> QED
  BY <1>2, <1>3, <1>4, <1>5 DEF Streaming

\* A log that has grown, but for its last event, is what it was.
LEMMA GrownFront ==
  ASSUME NEW l \in Seq(Doc), NEW d, NEW m, Grown(l, d, m)
  PROVE  Front(m) = l /\ m # <<>> /\ Last(m) = d
<1>1. Len(l) \in Nat /\ Len(m) = Len(l) + 1 /\ m \in Seq(Doc)
  BY LenProperties DEF Grown
<1> QED
  BY <1>1, EmptySeq DEF Grown, Last

LEMMA InvWriteFails ==
  ASSUME RunnerInv, NEW text \in Texts, WriteFails(text)
  PROVE  RunnerInv'
<1>a. PICK event \in Writing(text) :
        log' \in {log, Append(log, Document(runner.position + 1, event))}
  BY DEF WriteFails
<1> DEFINE d == Document(runner.position + 1, event)
<1>1. /\ RunnerTypeOK /\ LogInv /\ SaysInv /\ AnswerInv
      /\ runner.pc \in Streaming /\ turn = "active"
      /\ log' = log \/ log' = Append(log, d)
      /\ parts' = parts /\ turn' = turn /\ answer' = answer
  BY <1>a DEF RunnerInv, WriteFails, Streaming
<1>2. /\ runner' \in [pc : Streaming \cup Stopping \cup {"gone"}, call : Nat, arguments : Args,
                      position : Nat]
      /\ runner'.pc \in Stopping \cup {"gone"} /\ runner'.position = runner.position + 1
  <2>1. PICK pc \in Stopping \cup {"gone"} :
          runner' = [runner EXCEPT !.pc = pc, !.position = runner.position + 1]
    BY DEF WriteFails, Stopping
  <2>2. runner \in [pc : Streaming \cup Stopping \cup {"gone"}, call : Nat, arguments : Args,
                   position : Nat]
    BY <1>1 DEF RunnerTypeOK
  <2> DEFINE position == runner.position + 1
             stopped == [runner EXCEPT !.pc = pc, !.position = position]
  <2>3. position \in Nat
    BY <2>2
  <2> HIDE DEF position, d
  <2>4. /\ stopped \in [pc : Streaming \cup Stopping \cup {"gone"}, call : Nat, arguments : Args,
                       position : Nat]
        /\ stopped.pc = pc /\ stopped.position = position
    BY <2>2, <2>3
  <2> QED
    BY <2>1, <2>4 DEF position
<1>3. event \in EventsOver(Chars) /\ event.kind # "turn_ended"
  BY <1>a, <1>1, WritingIs DEF RunnerInv
<1>4. log' = log \/ (LogInv' /\ Grown(log, d, log'))
  <2>1. ASSUME log' = Append(log, d) PROVE LogInv' /\ Grown(log, d, log')
    BY <1>1, <1>2, <1>3, <2>1, LogInvWrites
  <2> QED
    BY <1>1, <2>1
<1> HIDE DEF d
<1>5. RunnerTypeOK'
  BY <1>1, <1>2 DEF RunnerTypeOK
<1>6. LogInv'
  <2>1. CASE log' = log
    <3>1. \A i \in 1..Len(log) : log[i].position \in Nat
      BY <1>1, ElementOfSeq, DocumentIs DEF LogInv, Doc
    <3>2. UpTo(log, runner'.position)
      BY <1>1, <1>2, <3>1 DEF LogInv, UpTo, RunnerTypeOK
    <3> QED
      BY <1>1, <2>1, <3>2 DEF LogInv
  <2> QED
    BY <1>4, <2>1
<1>7. CallsInv'
  BY <1>2 DEF CallsInv, Stopping
<1>8. SaysInv'
  <2>1. runner.pc \in Streaming /\ runner'.pc \notin Streaming
    BY <1>1, <1>2 DEF Streaming, Stopping
  <2>2. CASE log' = log
    BY <1>1, <2>1, <2>2 DEF SaysInv, Says
  <2>3. CASE Grown(log, d, log')
    <3>1. Front(log') = log /\ log' # <<>> /\ (Replaced(log) => Replaced(log'))
      BY <1>1, <2>3, GrownFront DEF LogInv, Grown
    <3> QED
      BY <1>1, <2>1, <3>1 DEF SaysInv, Says
  <2> QED
    BY <1>4, <2>2, <2>3
<1>9. AnswerInv'
  BY <1>1, StillActive
<1> QED
  BY <1>5, <1>6, <1>7, <1>8, <1>9 DEF RunnerInv

LEMMA OneEvent ==
  ASSUME NEW p \in Nat, NEW e, Document(p + 1, e) \in Doc, NEW l \in Seq(Doc)
  PROVE  l \o [i \in DOMAIN <<e>> |-> Document(p + i, <<e>>[i])] = Append(l, Document(p + 1, e))
<1> DEFINE d == Document(p + 1, e)
           s == [i \in DOMAIN <<e>> |-> Document(p + i, <<e>>[i])]
<1>1. s = <<d>>
  OBVIOUS
<1>2. Append(l, d) = l \o <<d>>
  BY AppendIsConcat
<1> QED
  BY <1>1, <1>2

LEMMA TwoEvents ==
  ASSUME NEW p \in Nat, NEW e, Document(p + 1, e) \in Doc, NEW f, Document(p + 2, f) \in Doc,
         NEW l \in Seq(Doc)
  PROVE  l \o [i \in DOMAIN <<e, f>> |-> Document(p + i, <<e, f>>[i])]
           = Append(Append(l, Document(p + 1, e)), Document(p + 2, f))
<1> DEFINE c == Document(p + 1, e)
           d == Document(p + 2, f)
           s == [i \in DOMAIN <<e, f>> |-> Document(p + i, <<e, f>>[i])]
<1>1. s = <<c, d>>
  OBVIOUS
<1> HIDE DEF c, d, s
<1>2. c \in Doc /\ d \in Doc
  BY DEF c, d
<1>3. <<c>> \in Seq(Doc) /\ <<d>> \in Seq(Doc) /\ <<c, d>> = <<c>> \o <<d>>
  <2>1. <<c>> = Append(<<>>, c) /\ <<d>> = Append(<<>>, d) /\ <<c, d>> = Append(<<c>>, d)
    OBVIOUS
  <2>2. <<c>> \in Seq(Doc) /\ <<d>> \in Seq(Doc)
    BY <1>2, <2>1, EmptySeq, AppendProperties
  <2>3. Append(<<c>>, d) = <<c>> \o <<d>>
    BY <1>2, <2>2, AppendIsConcat
  <2> QED
    BY <2>1, <2>2, <2>3
<1>4. Append(l, c) \in Seq(Doc) /\ Append(l, c) = l \o <<c>>
  BY <1>2, AppendProperties, AppendIsConcat
<1>5. Append(Append(l, c), d) = (l \o <<c>>) \o <<d>>
  BY <1>2, <1>4, AppendIsConcat
<1>6. (l \o <<c>>) \o <<d>> = l \o (<<c>> \o <<d>>)
  BY <1>3, ConcatAssociative
<1> QED
  BY <1>1, <1>3, <1>5, <1>6 DEF c, d, s

LEMMA LogInvEnds ==
  ASSUME NEW l \in Seq(Doc), Open(l), NEW d, Grown(l, d, log'), d.body.state = turn', turn' \in Ends
  PROVE  LogInv'
<1>1. Len(l) \in Nat
  BY LenProperties
<1>2. ASSUME NEW i \in 1..Len(log'), log'[i].kind = "turn_ended"
      PROVE  i = Len(log') /\ log'[i].body.state = turn'
  <2>1. i \in 1..Len(l) \/ i = Len(l) + 1
    BY <1>1 DEF Grown
  <2>2. i \notin 1..Len(l)
    BY <1>2 DEF Grown, Open
  <2> QED
    BY <2>1, <2>2 DEF Grown
<1>3. turn' # "active"
  BY DEF Ends
<1> QED
  BY <1>2, <1>3 DEF LogInv, Grown

\* A turn that ends with one event, in a log that said what the parts say.
LEMMA EndsWithOne ==
  ASSUME RunnerTypeOK, LogInv, NEW state \in Ends, NEW message,
         EndTurn(state, message, <<TurnEnded(state)>>)
  PROVE  LET d == Document(runner.position + 1, TurnEnded(state))
         IN  /\ LogInv' /\ Grown(log, d, log') /\ d.kind = "turn_ended"
             /\ PartialAnswer(log') = PartialAnswer(log)
             /\ turn = "active" /\ turn' = state /\ answer' = message
<1> DEFINE event == TurnEnded(state)
           d == Document(runner.position + 1, event)
<1>1. /\ turn = "active" /\ turn' = state /\ answer' = message
      /\ log' = log \o [i \in DOMAIN <<event>> |-> Document(runner.position + i, <<event>>[i])]
  BY DEF EndTurn
<1>2. /\ log \in Seq(Doc) /\ Ordered(log) /\ UpTo(log, runner.position) /\ Open(log)
      /\ runner.position \in Nat
  BY <1>1 DEF LogInv, RunnerTypeOK
<1>3. event \in EventsOver(Chars) /\ event.kind = "turn_ended" /\ event.body = [state |-> state]
  BY PiecesAreEvents DEF TurnEnded, Event
<1> HIDE DEF event
<1>4. /\ d \in Doc /\ d.kind = event.kind /\ Grown(log, d, Append(log, d))
      /\ \A key \in DOMAIN event.body :
           d.body[key] = IF key = "text" THEN CleanText(event.body.text) ELSE event.body[key]
  BY <1>2, <1>3, Logged
<1>5. log' = Append(log, d)
  BY <1>1, <1>2, <1>4, OneEvent
<1>6. d.kind = "turn_ended" /\ d.body.state = state
  BY <1>3, <1>4
<1> HIDE DEF d
<1>7. LogInv'
  BY <1>1, <1>2, <1>4, <1>5, <1>6, LogInvEnds
<1>8. PartialAnswer(log') = PartialAnswer(log)
  BY <1>4, <1>5, <1>6 DEF Grown, BuiltAs
<1> QED
  BY <1>1, <1>4, <1>5, <1>6, <1>7, <1>8 DEF d, event

LEMMA RunnerGone ==
  ASSUME RunnerTypeOK, runner' = [runner EXCEPT !.pc = "gone"], parts' \in Seq(PartsOver(Chars)),
         turn' \in {"active"} \cup Ends
  PROVE  RunnerTypeOK' /\ CallsInv' /\ SaysInv'
<1>1. /\ runner' \in [pc : Streaming \cup Stopping \cup {"gone"}, call : Nat, arguments : Args,
                      position : Nat]
      /\ runner'.pc = "gone" /\ "gone" \notin Streaming \cup Stopping
  BY DEF RunnerTypeOK, Streaming, Stopping
<1> QED
  BY <1>1 DEF RunnerTypeOK, CallsInv, SaysInv

\* What is kept as the answer of a turn that ended says what its log says.
LEMMA AnswerKept ==
  ASSUME NEW p \in Seq(PartsOver(Chars)), turn' \in Ends \ {"cancelled"},
         answer' = Kept(StoredMessage(p, turn' # "finished")),
         ~Replaced(log') =>
           \/ Says(p, log')
           \/ SaysHanded(p, log')
           \/ turn' # "finished" /\ Told' # <<>> /\ Says(p, Front(Told'))
  PROVE  AnswerInv'
BY DEF AnswerInv, AnswerSays

\* A text, after parts that have none.
LEMMA HandedOverMore ==
  ASSUME NEW p \in Seq(PartsOver(Chars)), NEW part \in PartsOver(Chars), part.kind = "text",
         \A i \in DOMAIN p : p[i].kind # "text"
  PROVE  /\ HandedOver(CleanedParts(Append(p, part)))
         /\ Front(CleanedParts(Append(p, part))) = CleanedParts(p)
<1> DEFINE c == CleanedParts(p)
           d == PartToDocument(part)
           q == Append(c, d)
<1>1. CleanedParts(Append(p, part)) = q
  BY CleanedPartsMore
<1>2. /\ c \in Seq(PartsOver(CleanChars)) /\ d \in PartsOver(CleanChars) /\ d.kind = "text"
      /\ DOMAIN c = DOMAIN p /\ \A i \in DOMAIN p : c[i] = PartToDocument(p[i])
  BY CleanedPartsIs, CleanedPart DEF CleanedParts
<1>3. \A i \in DOMAIN p : c[i].kind # "text"
  BY <1>2, CleanedPart, ElementOfSeq, LenProperties
<1> HIDE DEF c, d
<1>4. /\ Len(c) \in Nat /\ Len(q) = Len(c) + 1 /\ q \in Seq(PartsOver(CleanChars))
      /\ q[Len(c) + 1] = d /\ \A i \in 1..Len(c) : q[i] = c[i]
  BY <1>2, LenProperties, AppendProperties
<1>5. DOMAIN q = 1..Len(c) + 1 /\ DOMAIN p = 1..Len(c) /\ q # <<>>
  BY <1>2, <1>4, LenProperties, EmptySeq
<1> HIDE DEF q
<1>6. HandedOver(q)
  BY <1>2, <1>3, <1>4, <1>5 DEF HandedOver
<1>7. Front(q) = c
  BY <1>2, FrontAndLast DEF q
<1> QED
  BY <1>1, <1>6, <1>7 DEF c

LEMMA InvFinish ==
  ASSUME RunnerInv, NEW text \in Texts \cup {<<>>}, Finish(text)
  PROVE  RunnerInv'
<1> DEFINE c == Document(runner.position + 1, MessageCompleted)
           d == Document(runner.position + 2, TurnEnded("finished"))
           l == Append(log, c)
           part == TextPart(text)
<1>0. text \in Text /\ part \in PartsOver(Chars)
  BY TextsAreText DEF TextPart, PartsOver, Text
<1>1. /\ RunnerTypeOK /\ LogInv /\ SaysInv /\ runner.pc = "streaming" /\ turn = "active"
      /\ parts' = parts \/ parts' = Append(parts, part)
      /\ runner \in [pc : Streaming \cup Stopping \cup {"gone"}, call : Nat, arguments : Args,
                     position : Nat]
  BY DEF RunnerInv, RunnerTypeOK, Finish
<1>2. /\ log \in Seq(Doc) /\ Ordered(log) /\ UpTo(log, runner.position) /\ Open(log)
      /\ runner.position \in Nat /\ parts \in Seq(PartsOver(Chars))
  BY <1>1 DEF LogInv, RunnerTypeOK
<1>3. parts' \in Seq(PartsOver(Chars))
  <2> HIDE DEF part
  <2>1. part \in PartsOver(Chars) /\ parts \in Seq(PartsOver(Chars))
    BY <1>0, <1>2
  <2>2. Append(parts, part) \in Seq(PartsOver(Chars))
    BY ONLY <2>1, AppendProperties
  <2>3. parts' = parts \/ parts' = Append(parts, part)
    BY <1>1
  <2> QED
    BY ONLY <2>1, <2>2, <2>3
<1>4. ~Replaced(log) => Says(parts, log)
  BY <1>1 DEF SaysInv, Streaming
<1>a. parts' # parts => \A i \in DOMAIN parts : parts[i].kind # "text"
  BY DEF Finish
<1>b. ~Replaced(log) => Says(parts', log) \/ SaysHanded(parts', log)
  <2> HIDE DEF part
  <2>1. CASE parts' = parts
    BY <1>4, <2>1 DEF Says
  <2>2. CASE parts' # parts
    <3>1. part.kind = "text" /\ parts' = Append(parts, part)
      BY <1>1, <2>2 DEF part, TextPart
    <3>2. /\ HandedOver(CleanedParts(Append(parts, part)))
          /\ Front(CleanedParts(Append(parts, part))) = CleanedParts(parts)
      BY <1>0, <1>2, <1>a, <2>2, <3>1, HandedOverMore
    <3> QED
      BY <1>4, <3>1, <3>2 DEF Says, SaysHanded
  <2> QED
    BY <2>1, <2>2
<1>5. CASE /\ EndTurn("finished", Kept(StoredMessage(parts', FALSE)),
                      <<MessageCompleted, TurnEnded("finished")>>)
           /\ runner' = [runner EXCEPT !.pc = "gone"]
  <2>1. /\ EndTurn("finished", Kept(StoredMessage(parts', FALSE)),
                   <<MessageCompleted, TurnEnded("finished")>>)
        /\ runner' = [runner EXCEPT !.pc = "gone"]
    BY <1>5
  <2>2. /\ MessageCompleted \in EventsOver(Chars) /\ MessageCompleted.kind = "message_completed"
        /\ TurnEnded("finished") \in EventsOver(Chars) /\ TurnEnded("finished").kind = "turn_ended"
        /\ TurnEnded("finished").body = [state |-> "finished"]
    BY PiecesAreEvents DEF Ends, MessageCompleted, TurnEnded, Event
  <2>3. c \in Doc /\ c.position = runner.position + 1 /\ c.kind = "message_completed" /\ Grown(log, c, l)
    BY <1>2, <2>2, Logged
  <2> DEFINE e == TurnEnded("finished")
             m == Append(l, d)
  <2>4. /\ d \in Doc /\ d.kind = "turn_ended" /\ d.body.state = "finished" /\ Grown(l, d, m)
    <3> DEFINE p == runner.position + 1
    <3>1. l \in Seq(Doc) /\ Ordered(l) /\ UpTo(l, p) /\ p \in Nat /\ p + 1 = runner.position + 2
      BY <1>2, <2>3 DEF Grown
    <3> HIDE DEF l, p
    <3>2. /\ Document(p + 1, e) \in Doc /\ Document(p + 1, e).kind = e.kind
          /\ Grown(l, Document(p + 1, e), Append(l, Document(p + 1, e)))
          /\ \A key \in DOMAIN e.body :
               Document(p + 1, e).body[key] =
                 IF key = "text" THEN CleanText(e.body.text) ELSE e.body[key]
      <4> HIDE DEF e
      <4> QED
        BY <2>2, <3>1, Logged DEF e
    <3> QED
      BY <2>2, <3>1, <3>2
  <2>5. log' = m
    <3>1. log' = log \o [i \in DOMAIN <<MessageCompleted, e>> |->
                            Document(runner.position + i, <<MessageCompleted, e>>[i])]
      BY <2>1 DEF EndTurn
    <3> QED
      BY <1>2, <2>3, <2>4, <3>1, TwoEvents
  <2> HIDE DEF c, d, l, e, m, part
  <2>6. turn' = "finished" /\ turn' \in Ends /\ answer' = Kept(StoredMessage(parts', FALSE))
    BY <2>1 DEF EndTurn, Ends
  <2>7. Open(l)
    <3>1. \A i \in 1..Len(l) : i \in 1..Len(log) \/ i = Len(log) + 1
      BY <1>2, <2>3, LenProperties DEF Grown
    <3> QED
      BY <1>2, <2>3, <3>1 DEF Open, Grown
  <2>8. LogInv'
    BY <2>3, <2>4, <2>5, <2>6, <2>7, LogInvEnds DEF Grown
  <2>9. PartialAnswer(log') = PartialAnswer(log) /\ (~Replaced(log') => ~Replaced(log))
    BY <2>3, <2>4, <2>5 DEF Grown, BuiltAs
  <2>10. RunnerTypeOK' /\ CallsInv' /\ SaysInv'
    BY <1>1, <1>3, <2>1, <2>6, RunnerGone
  <2>11. PICK p \in Seq(PartsOver(Chars)) : p = parts'
    BY <1>3
  <2>12. ~Replaced(log') => Says(p, log') \/ SaysHanded(p, log')
    BY <1>b, <2>9, <2>11 DEF Says, SaysHanded
  <2>13. AnswerInv'
    BY <2>6, <2>11, <2>12, AnswerKept
  <2> QED
    BY <2>8, <2>10, <2>13 DEF RunnerInv
<1>6. CASE /\ runner' = [runner EXCEPT !.pc = "breaking", !.position = runner.position + 2]
           /\ log' = log /\ turn' = turn /\ answer' = answer
  <2>1. /\ runner' = [runner EXCEPT !.pc = "breaking", !.position = runner.position + 2]
        /\ log' = log /\ turn' = turn /\ answer' = answer
    BY <1>6
  <2> HIDE DEF c, d, l, part
  <2> DEFINE position == runner.position + 2
  <2>2. position \in Nat /\ position > runner.position
    BY <1>2
  <2>3. /\ runner' \in [pc : Streaming \cup Stopping \cup {"gone"}, call : Nat, arguments : Args,
                        position : Nat]
        /\ runner'.pc = "breaking" /\ runner'.position = position
    <3>1. runner' = [runner EXCEPT !.pc = "breaking", !.position = position]
      BY <2>1
    <3> HIDE DEF position
    <3> QED
      BY <1>1, <2>2, <3>1 DEF Stopping
  <2> HIDE DEF position
  <2>4. RunnerTypeOK'
    BY <1>1, <1>3, <2>1, <2>3 DEF RunnerTypeOK
  <2>5. LogInv'
    <3>1. \A i \in 1..Len(log) : log[i].position \in Nat
      BY <1>2, ElementOfSeq, DocumentIs DEF Doc
    <3>2. UpTo(log, position)
      BY <1>2, <2>2, <3>1 DEF UpTo
    <3> QED
      BY <1>1, <1>2, <2>1, <2>3, <3>2 DEF LogInv
  <2>6. CallsInv' /\ SaysInv'
    <3>1. ~Replaced(log') => Says(parts', log') \/ SaysHanded(parts', log')
      BY <1>b, <2>1
    <3>2. runner'.pc \notin Streaming /\ runner'.pc \notin {"called", "argued"}
      BY <2>3 DEF Streaming
    <3> QED
      BY <3>1, <3>2 DEF CallsInv, SaysInv
  <2>7. AnswerInv'
    BY <1>1, <2>1, StillActive DEF RunnerInv
  <2> QED
    BY <2>4, <2>5, <2>6, <2>7 DEF RunnerInv
<1> QED
  BY <1>5, <1>6 DEF Finish

\* Two logs that begin alike.
LEMMA SameStart ==
  ASSUME NEW S, NEW l \in Seq(S), NEW m \in Seq(S), Len(l) <= Len(m),
         \A i \in 1..Len(l) : m[i] = l[i], NEW k \in 0..Len(l)
  PROVE  SubSeq(m, 1, k) = SubSeq(l, 1, k)
<1>1. /\ SubSeq(m, 1, k) \in Seq(S) /\ Len(SubSeq(m, 1, k)) = k
      /\ SubSeq(l, 1, k) \in Seq(S) /\ Len(SubSeq(l, 1, k)) = k
      /\ \A i \in 1..k : SubSeq(m, 1, k)[i] = m[i] /\ SubSeq(l, 1, k)[i] = l[i]
  BY LenProperties, SubSeqProperties
<1>2. \A i \in 1..k : SubSeq(m, 1, k)[i] = SubSeq(l, 1, k)[i]
  BY <1>1, LenProperties
<1> QED
  BY <1>1, <1>2, SeqEqual

LEMMA InvEndsBadly ==
  ASSUME RunnerInv, NEW state \in {"interrupted", "failed"}, runner.pc \in Streaming \cup Stopping,
         EndsBadly(state)
  PROVE  RunnerInv'
<1>1. /\ RunnerTypeOK /\ LogInv /\ SaysInv /\ AnswerInv /\ parts' = parts
      /\ runner' = [runner EXCEPT !.pc = "gone"]
      /\ \/ log' = log /\ turn' = turn /\ answer' = answer
         \/ EndTurn(state, Kept(StoredMessage(parts, TRUE)), <<TurnEnded(state)>>) /\ CanStore(parts)
  BY DEF RunnerInv, EndsBadly
<1>2. /\ runner'.position = runner.position /\ parts \in Seq(PartsOver(Chars))
      /\ turn \in {"active"} \cup Ends /\ state \in Ends
  BY <1>1 DEF RunnerTypeOK, Ends
<1>3. CASE log' = log /\ turn' = turn /\ answer' = answer
  <2>1. RunnerTypeOK' /\ CallsInv' /\ SaysInv'
    BY <1>1, <1>2, <1>3, RunnerGone
  <2>2. LogInv'
    BY <1>1, <1>2, <1>3 DEF LogInv
  <2>3. AnswerInv'
    <3>1. Told' = Told
      BY <1>3 DEF Told
    <3> QED
      BY <1>1, <1>3, <3>1 DEF AnswerInv, AnswerSays
  <2> QED
    BY <2>1, <2>2, <2>3 DEF RunnerInv
<1>4. CASE EndTurn(state, Kept(StoredMessage(parts, TRUE)), <<TurnEnded(state)>>) /\ CanStore(parts)
  <2> DEFINE d == Document(runner.position + 1, TurnEnded(state))
  <2>1. /\ LogInv' /\ Grown(log, d, log') /\ d.kind = "turn_ended"
        /\ PartialAnswer(log') = PartialAnswer(log)
        /\ turn = "active" /\ turn' = state /\ answer' = Kept(StoredMessage(parts, TRUE))
    BY <1>1, <1>2, <1>4, EndsWithOne
  <2> HIDE DEF d
  <2>2. RunnerTypeOK' /\ CallsInv' /\ SaysInv'
    BY <1>1, <1>2, <2>1, RunnerGone
  <2>3. turn' \in Ends \ {"cancelled"} /\ turn' # "finished"
    BY <1>2, <2>1
  <2>4. ~Replaced(log') =>
          \/ Says(parts, log')
          \/ SaysHanded(parts, log')
          \/ Told' # <<>> /\ Says(parts, Front(Told'))
    <3>1. Told' = log /\ (~Replaced(log') => ~Replaced(log))
      BY <1>1, <2>1, GrownFront DEF LogInv, Grown, Told
    <3>2. runner.pc \in Streaming \/ runner.pc \in Stopping
      OBVIOUS
    <3>3. ~Replaced(log) => \/ Says(parts, log)
                            \/ SaysHanded(parts, log)
                            \/ log # <<>> /\ Says(parts, Front(log))
      BY <1>1, <3>2 DEF SaysInv
    <3>4. (Says(parts, log) => Says(parts, log')) /\ (SaysHanded(parts, log) => SaysHanded(parts, log'))
      BY <2>1 DEF Says, SaysHanded
    <3> QED
      BY <3>1, <3>3, <3>4
  <2>5. AnswerInv'
    BY <1>2, <2>1, <2>3, <2>4, AnswerKept
  <2> QED
    BY <2>1, <2>2, <2>5 DEF RunnerInv
<1> QED
  BY <1>1, <1>3, <1>4

LEMMA InvCancelled ==
  ASSUME RunnerInv, Cancelled
  PROVE  RunnerInv'
<1>1. /\ RunnerTypeOK /\ LogInv /\ parts' = parts /\ runner' = [runner EXCEPT !.pc = "gone"]
      /\ EndTurn("cancelled", None, <<TurnEnded("cancelled")>>)
  BY DEF RunnerInv, Cancelled
<1>2. "cancelled" \in Ends /\ parts \in Seq(PartsOver(Chars))
  BY <1>1 DEF Ends, RunnerTypeOK
<1>3. LogInv' /\ turn' = "cancelled" /\ answer' = None
  BY <1>1, <1>2, EndsWithOne
<1>4. RunnerTypeOK' /\ CallsInv' /\ SaysInv'
  BY <1>1, <1>2, <1>3, RunnerGone
<1>5. AnswerInv'
  BY <1>3 DEF AnswerInv
<1> QED
  BY <1>3, <1>4, <1>5 DEF RunnerInv

\* A turn that ends with nothing of it written, and no answer.
LEMMA InvEndsBare ==
  ASSUME RunnerInv, NEW state \in {"interrupted", "failed", "cancelled"}, EndsBare(state)
  PROVE  RunnerInv'
<1>1. /\ RunnerTypeOK /\ LogInv /\ AnswerInv /\ turn = "active" /\ turn' = state
      /\ log' = log /\ parts' = parts /\ answer' = answer
      /\ runner' = [runner EXCEPT !.pc = "gone"]
  BY DEF RunnerInv, EndsBare
<1>2. parts' \in Seq(PartsOver(Chars)) /\ turn' \in Ends
  BY <1>1 DEF RunnerTypeOK, Ends
<1>3. RunnerTypeOK' /\ CallsInv' /\ SaysInv'
  BY <1>1, <1>2, RunnerGone
<1>4. LogInv'
  BY <1>1 DEF LogInv, Open
<1>5. AnswerInv'
  BY <1>1 DEF AnswerInv, Ends
<1> QED
  BY <1>3, <1>4, <1>5 DEF RunnerInv

LEMMA InvReaderReads ==
  ASSUME RunnerInv, ReaderReads
  PROVE  RunnerInv'
<1>1. log' = log /\ parts' = parts /\ runner' = runner /\ turn' = turn /\ answer' = answer
  BY DEF ReaderReads
<1>2. Told' = Told
  BY <1>1 DEF Told
<1> QED
  BY <1>1, <1>2 DEF RunnerInv, RunnerTypeOK, LogInv, CallsInv, SaysInv, AnswerInv, AnswerSays

LEMMA InvLeaves ==
  ASSUME RunnerInv, EngineFails \/ RunnerLost
  PROVE  RunnerInv'
<1>1. /\ RunnerTypeOK /\ LogInv /\ CallsInv /\ SaysInv /\ AnswerInv
      /\ log' = log /\ parts' = parts /\ turn' = turn /\ answer' = answer
  BY DEF RunnerInv, EngineFails, RunnerLost
<1>2. /\ runner'.position = runner.position
      /\ runner' \in [pc : Streaming \cup Stopping \cup {"gone"}, call : Nat, arguments : Args,
                      position : Nat]
      /\ \/ runner.pc = "streaming" /\ runner'.pc = "breaking"
         \/ runner'.pc = "gone"
  BY <1>1 DEF RunnerTypeOK, EngineFails, RunnerLost, Stopping
<1>3. RunnerTypeOK' /\ LogInv' /\ CallsInv'
  BY <1>1, <1>2 DEF RunnerTypeOK, LogInv, CallsInv
<1>4. SaysInv'
  BY <1>1, <1>2 DEF SaysInv, Streaming, Stopping
<1>5. AnswerInv'
  <2>1. Told' = Told
    BY <1>1 DEF Told
  <2> QED
    BY <1>1, <2>1 DEF AnswerInv, AnswerSays
<1> QED
  BY <1>3, <1>4, <1>5 DEF RunnerInv

LEMMA InvReaderEnds ==
  ASSUME RunnerInv, seen \in Nat, ReaderEnds
  PROVE  RunnerInv'
<1> DEFINE events == SubSeq(log, 1, seen)
           p == PartialAnswer(events)
<1>1. /\ RunnerTypeOK /\ LogInv /\ CallsInv /\ SaysInv /\ turn = "active" /\ turn' = "interrupted"
      /\ answer' = Kept(StoredMessage(p, TRUE)) /\ log' = log /\ parts' = parts /\ runner' = runner
      /\ Len(log) = seen \/ Len(log) = seen + 1
  BY DEF RunnerInv, ReaderEnds
<1>2. RunnerTypeOK' /\ CallsInv' /\ SaysInv' /\ turn' \in Ends \ {"cancelled"} /\ turn' # "finished"
  BY <1>1 DEF RunnerTypeOK, CallsInv, SaysInv, Ends
<1>3. LogInv'
  BY <1>1 DEF LogInv, Open
<1>4. /\ log \in Seq(Doc) /\ Len(log) \in Nat /\ seen \in 0..Len(log) /\ SubSeq(log, 1, Len(log)) = log
      /\ events \in Seq(Doc)
  BY <1>1, LenProperties, SubSeqFull, SubSeqProperties DEF LogInv
<1>5. Told' = log
  <2>1. Len(log) > 0 => Last(log).kind # "turn_ended"
    BY <1>1, <1>4 DEF LogInv, Open, Last
  <2>2. log # <<>> => Len(log) > 0
    BY <1>4, EmptySeq
  <2> QED
    BY <1>1, <2>1, <2>2 DEF Told
<1>6. events = log \/ (log # <<>> /\ events = Front(log))
  <2>1. CASE Len(log) = seen
    BY <1>4, <2>1
  <2>2. CASE Len(log) = seen + 1
    BY <1>4, <2>2, EmptySeq DEF Front
  <2> QED
    BY <1>1, <2>1, <2>2
<1> HIDE DEF events
<1>7. p \in Seq(PartsOver(Chars)) /\ CleanedParts(p) = p
  <2>1. p \in Seq(PartsOver(CleanChars))
    BY <1>4, BuiltMore DEF Doc, PartialAnswer, BuiltOver
  <2> QED
    BY <2>1, FewerChars, SeqMonotonic, CleanPartsLeft
<1>8. Says(p, log') \/ (Told' # <<>> /\ Says(p, Front(Told')))
  BY <1>1, <1>5, <1>6, <1>7 DEF Says
<1> HIDE DEF p
<1>9. AnswerInv'
  BY <1>1, <1>2, <1>7, <1>8, AnswerKept
<1> QED
  BY <1>2, <1>3, <1>9 DEF RunnerInv

RunnerStep ==
  \/ RunnerStreams \/ RunnerEnds \/ EngineFails \/ Cancelled \/ RunnerLost
  \/ \E state \in {"interrupted", "failed", "cancelled"} : EndsBare(state)
  \/ ReaderReads \/ ReaderEnds

ClientStep ==
  \/ SendNext \/ FindNothing \/ ReadRecord \/ Cut \/ Deliver \/ Retry \/ ReopenFails
  \/ \E replayed \in Replayed : Reopen(replayed)

LEMMA NextIs ==
  Next <=> RunnerStep \/ ClientStep
BY DEF Next, RunnerStep, ClientStep

\* How many events a reader has read, at any step.
LEMMA SeenStep ==
  log \in Seq(Doc) /\ seen \in Nat /\ [Next]_vars => seen' \in Nat
<1> SUFFICES ASSUME log \in Seq(Doc), seen \in Nat, [Next]_vars PROVE seen' \in Nat
  OBVIOUS
<1>1. StillHeld => seen' \in Nat
  BY DEF StillHeld
<1>2. ReaderReads => seen' \in Nat
  BY LenProperties DEF ReaderReads
<1>3. RunnerStreams \/ EngineFails \/ Cancelled \/ RunnerLost \/ ReaderEnds => StillHeld
  BY DEF RunnerStreams, Begin, Say, Think, WriteFails, Call, GiveArguments, CompleteCall, Result,
         EngineFails, Cancelled, RunnerLost, ReaderEnds
<1>4. RunnerEnds \/ (\E state \in {"interrupted", "failed", "cancelled"} : EndsBare(state)) => StillHeld
  BY DEF RunnerEnds, Finish, Breaks, Stopped, EndsBadly, EndsBare
<1>5. ClientStep \/ UNCHANGED vars => seen' = seen
  BY DEF ClientStep, SendNext, FindNothing, ReadRecord, Cut, Deliver, Retry, ReopenFails, Reopen,
         vars, runnerVars
<1> QED
  BY <1>1, <1>2, <1>3, <1>4, <1>5, NextIs DEF RunnerStep

LEMMA RunnerInvStep ==
  RunnerInv /\ seen \in Nat /\ [Next]_vars => RunnerInv'
<1> SUFFICES ASSUME RunnerInv, seen \in Nat, [Next]_vars PROVE RunnerInv'
  OBVIOUS
<1>1. CASE RunnerStreams
  BY <1>1, InvBegin, InvSay, InvThink, InvWriteFails, InvCall, InvGiveArguments, InvCompleteCall,
     InvResult DEF RunnerStreams
<1>2. CASE RunnerEnds
  <2>1. CASE Breaks
    <3>1. PICK state \in {"interrupted", "failed"} :
            runner.pc \in Streaming \cup Stopping /\ EndsBadly(state)
      BY <2>1 DEF Breaks, Stopping
    <3> QED
      BY <3>1, InvEndsBadly
  <2>2. CASE \E state \in {"interrupted", "failed"} : Stopped(state)
    <3>1. PICK state \in {"interrupted", "failed"} :
            runner.pc \in Streaming \cup Stopping /\ EndsBadly(state)
      BY <2>2 DEF Stopped, Streaming
    <3> QED
      BY <3>1, InvEndsBadly
  <2> QED
    BY <1>2, <2>1, <2>2, InvFinish DEF RunnerEnds
<1>3. CASE UNCHANGED runnerVars
  <2>1. log' = log /\ parts' = parts /\ runner' = runner /\ turn' = turn /\ answer' = answer
    BY <1>3 DEF runnerVars
  <2>2. Told' = Told
    BY <2>1 DEF Told
  <2> QED
    BY <2>1, <2>2 DEF RunnerInv, RunnerTypeOK, LogInv, CallsInv, SaysInv, AnswerInv, AnswerSays
<1>4. ClientStep \/ UNCHANGED vars => UNCHANGED runnerVars
  BY DEF ClientStep, SendNext, FindNothing, ReadRecord, Cut, Deliver, Retry, ReopenFails, Reopen,
         vars, runnerVars
<1> QED
  BY <1>1, <1>2, <1>3, <1>4, NextIs, InvCancelled, InvEndsBare, InvLeaves, InvReaderReads,
     InvReaderEnds DEF RunnerStep

-----------------------------------------------------------------------------
(* The answer that is kept                                                 *)

LEMMA PartReads ==
  ASSUME NEW part \in PartsOver(CleanChars)
  PROVE  /\ PartFromDocument(part) = part /\ part.kind \in DOMAIN PartKeys
         /\ DOMAIN part = PartKeys[part.kind]
<1>1. CASE part \in [kind : {"tool_call"}, call : Nat, arguments : Args]
  <2>1. part = [kind |-> "tool_call", call |-> part.call, arguments |-> part.arguments]
    BY <1>1
  <2> QED
    BY <1>1, <2>1 DEF PartFromDocument, ToolCallPart, PartKeys
<1>2. CASE part \in [kind : {"text"}, text : Seq(CleanChars)]
  <2>1. part = [kind |-> "text", text |-> part.text]
    BY <1>2
  <2> QED
    BY <1>2, <2>1 DEF PartFromDocument, PartKeys
<1>3. CASE part \in [kind : {"tool_result"}, call : Nat, text : Seq(CleanChars)]
  <2>1. part = [kind |-> "tool_result", call |-> part.call, text |-> part.text]
    BY <1>3
  <2> QED
    BY <1>3, <2>1 DEF PartFromDocument, ToolResultPart, PartKeys
<1> QED
  BY <1>1, <1>2, <1>3 DEF PartsOver

LEMMA KeptIs ==
  ASSUME NEW p \in Seq(PartsOver(Chars)), NEW failed \in BOOLEAN
  PROVE  LET document == StoredMessage(p, failed)
             message == MessageFromDocument(document)
         IN  /\ document.parts = CleanedParts(p) /\ message.parts = CleanedParts(p)
             /\ message.failed = failed /\ MessageReads(document)
<1> DEFINE q == CleanedParts(p)
           document == StoredMessage(p, failed)
<1>1. q \in Seq(PartsOver(CleanChars)) /\ Len(q) \in Nat /\ DOMAIN q = 1..Len(q)
  BY CleanedPartsIs, LenProperties
<1>2. \A i \in 1..Len(q) : q[i] \in PartsOver(CleanChars)
  BY <1>1, ElementOfSeq
<1>3. document = IF failed THEN [v |-> 1, parts |-> q, failed |-> TRUE] ELSE [v |-> 1, parts |-> q]
  BY DEF StoredMessage, CleanedParts
<1> HIDE DEF q
<1>4. /\ document.parts = q /\ document.v = 1 /\ ("failed" \in DOMAIN document) = failed
      /\ DOMAIN document = IF failed THEN {"v", "parts", "failed"} ELSE {"v", "parts"}
  BY <1>3
<1> HIDE DEF document
<1>5. ASSUME NEW i \in 1..Len(q)
      PROVE  /\ PartFromDocument(q[i]) = q[i] /\ q[i].kind \in DOMAIN PartKeys
             /\ DOMAIN q[i] = PartKeys[q[i].kind]
  BY <1>2, PartReads
<1>6. [i \in DOMAIN q |-> PartFromDocument(q[i])] = q
  BY <1>1, <1>5
<1>7. MessageReads(document)
  BY <1>1, <1>4, <1>5 DEF MessageReads
<1>8. MessageFromDocument(document) = [parts |-> q, failed |-> failed]
  BY <1>4, <1>6 DEF MessageFromDocument
<1> QED
  BY <1>4, <1>7, <1>8 DEF q, document

LEMMA BuiltIsKept ==
  ASSUME NEW l \in Seq(Doc)
  PROVE  /\ PartialAnswer(l) \in Seq(PartsOver(CleanChars))
         /\ StoredMessage(PartialAnswer(l), TRUE).parts = PartialAnswer(l)
<1>1. PartialAnswer(l) \in Seq(PartsOver(CleanChars))
  BY BuiltMore DEF Doc, PartialAnswer, BuiltOver
<1>2. PartialAnswer(l) \in Seq(PartsOver(Chars)) /\ CleanedParts(PartialAnswer(l)) = PartialAnswer(l)
  BY <1>1, FewerChars, SeqMonotonic, CleanPartsLeft
<1> QED
  BY <1>1, <1>2, KeptIs

\* Every reachable state of the runner.
LEMMA RunnerInvAlways ==
  Spec => [](RunnerInv /\ seen \in Nat)
<1>1. Init => RunnerInv /\ seen \in Nat
  BY RunnerInvInit DEF Init
<1>2. RunnerInv /\ seen \in Nat /\ [Next]_vars => (RunnerInv /\ seen \in Nat)'
  BY RunnerInvStep, SeenStep DEF RunnerInv, LogInv
<1> QED
  BY <1>1, <1>2, PTL DEF Spec

\* What the events of a turn but its end say is what all of them say.
LEMMA ToldIs ==
  ASSUME log \in Seq(Doc)
  PROVE  /\ Told \in Seq(Doc) /\ PartialAnswer(Told) = PartialAnswer(log)
         /\ Told # <<>> => Front(Told) \in Seq(Doc) /\ \E k \in 0..Len(log) : Front(Told) = SubSeq(log, 1, k)
<1>a. ASSUME NEW l \in Seq(Doc), NEW k \in 0..Len(l) PROVE SubSeq(l, 1, k) \in Seq(Doc)
  BY LenProperties, SubSeqProperties
<1>1. CASE Told = log
  <2>1. Len(log) \in Nat /\ (log # <<>> => Len(log) > 0)
    BY LenProperties, EmptySeq
  <2>2. log # <<>> => Len(log) - 1 \in 0..Len(log) /\ Front(log) = SubSeq(log, 1, Len(log) - 1)
    BY <2>1 DEF Front
  <2>3. \A k \in 0..Len(log) : SubSeq(log, 1, k) \in Seq(Doc)
    BY <1>a
  <2> QED
    BY <1>1, <2>2, <2>3
<1>2. CASE Told # log
  <2>1. log # <<>> /\ Last(log).kind = "turn_ended" /\ Told = Front(log)
    BY <1>2 DEF Told
  <2>2. PICK l \in Seq(Doc), d \in Doc : log = Append(l, d)
    BY <2>1, SequenceEmptyOrAppend
  <2>3. Told = l /\ Last(log) = d
    BY <2>1, <2>2, FrontAndLast
  <2>4. PartialAnswer(log) = PartialAnswer(l)
    <3>1. BuiltAs(l, d, Append(l, d)) /\ d.kind = "turn_ended"
      BY <2>1, <2>3, BuiltFrom DEF Doc
    <3> QED
      BY <2>2, <3>1 DEF BuiltAs
  <2>5. /\ Len(l) \in Nat /\ Len(log) = Len(l) + 1 /\ (l # <<>> => Len(l) > 0)
        /\ \A i \in 1..Len(l) : log[i] = l[i]
    BY <2>2, LenProperties, EmptySeq, AppendProperties
  <2>6. ASSUME l # <<>>
        PROVE  Front(l) \in Seq(Doc) /\ \E k \in 0..Len(log) : Front(l) = SubSeq(log, 1, k)
    <3>1. Len(l) - 1 \in 0..Len(l) /\ Len(l) - 1 \in 0..Len(log) /\ Len(l) <= Len(log)
      BY <2>5, <2>6
    <3>2. SubSeq(log, 1, Len(l) - 1) = SubSeq(l, 1, Len(l) - 1)
      BY <2>5, <3>1, SameStart
    <3>3. SubSeq(l, 1, Len(l) - 1) \in Seq(Doc)
      BY <1>a, <3>1
    <3> QED
      BY <3>1, <3>2, <3>3 DEF Front
  <2> QED
    BY <2>3, <2>4, <2>6
<1> QED
  BY <1>1, <1>2

\* Whatever the engine streamed and however the turn ended, the answer the store keeps says what
\* the turn's events said: what the runner held in its parts (MessageBuilder) and what a reader
\* builds again from the events it read (partial_answer) are one answer, but for a text handed over
\* at the end and for the one event that a failed write, or a reader's two calls, may leave out.
THEOREM StoredAsStreamedAlways ==
  Spec => []StoredAsStreamed
<1>1. RunnerInv => StoredAsStreamed
  <2> SUFFICES ASSUME RunnerInv, ~answer.none PROVE StoredAsStreamed
    BY DEF StoredAsStreamed
  <2>1. log \in Seq(Doc) /\ AnswerInv /\ answer # None
    BY DEF RunnerInv, LogInv, None
  <2>2. PICK p \in Seq(PartsOver(Chars)) :
          answer = Kept(StoredMessage(p, turn # "finished")) /\ AnswerSays(p)
    BY <2>1 DEF AnswerInv
  <2> DEFINE kept == MessageFromDocument(answer.document).parts
  <2>3. kept = CleanedParts(p)
    <3>1. answer.document = StoredMessage(p, turn # "finished") /\ (turn # "finished") \in BOOLEAN
      BY <2>2 DEF Kept
    <3> QED
      BY <3>1, KeptIs
  <2>4. AsKept(Told) = PartialAnswer(log)
    BY <2>1, ToldIs, BuiltIsKept DEF AsKept
  <2>5. Told # <<>> => AsKept(Front(Told)) = PartialAnswer(Front(Told))
    BY <2>1, ToldIs, BuiltIsKept DEF AsKept
  <2> HIDE DEF kept
  <2>6. \/ kept = AsKept(Told)
        \/ HandedOver(kept) /\ Front(kept) = AsKept(Told)
        \/ turn # "finished" /\ Told # <<>> /\ kept = AsKept(Front(Told))
        \/ Cleaned
    BY <2>2, <2>3, <2>4, <2>5 DEF AnswerSays, Says, SaysHanded, Cleaned, Replaced
  <2> QED
    BY <2>6 DEF StoredAsStreamed, kept
<1> QED
  BY <1>1, RunnerInvAlways, PTL

-----------------------------------------------------------------------------
(* The page                                                                *)

PageParts ==
  [kind : {"text", "reasoning"}, stretch : Nat, text : Text]
    \cup [kind : {"tool_call"}, call : Nat, answered : BOOLEAN]

PageType ==
  [state : {"none", "running", "stored", "failed", "cancelled"}, parts : Seq(PageParts),
   thinking : Nat, writing : BOOLEAN]

\* The answer may still grow.
MayGrow(pg) == pg.state \in {"none", "running"}

\* The page after an event that tells it no text.
Untold(pg, after) ==
  /\ after \in PageType /\ TextOf(after.parts) = TextOf(pg.parts)
  /\ MayGrow(after) => MayGrow(pg)

LEMMA PagePartsHaveText ==
  HaveText(PageParts)
BY DEF HaveText, PageParts

LEMMA UntoldIs ==
  /\ \A pg \in PageType : Untold(pg, pg)
  /\ \A a, b, c \in PageType : Untold(a, b) /\ Untold(b, c) => Untold(a, c)
BY DEF Untold

LEMMA OpenedIs ==
  ASSUME NEW pg \in PageType
  PROVE  /\ Untold(pg, Opened(pg))
         /\ Opened(pg).state = "running" <=> MayGrow(pg)
         /\ ~MayGrow(pg) => Opened(pg) = pg
<1>1. CASE pg.state # "none"
  BY <1>1, UntoldIs DEF Opened, MayGrow, PageType
<1>2. CASE pg.state = "none"
  <2> DEFINE open == [pg EXCEPT !.state = "running", !.writing = TRUE, !.thinking = 0]
  <2>1. open \in PageType /\ open.parts = pg.parts /\ open.state = "running"
    BY DEF PageType
  <2>2. Opened(pg) = open
    BY <1>2 DEF Opened
  <2> HIDE DEF open
  <2> QED
    BY <1>2, <2>1, <2>2 DEF Untold, MayGrow
<1> QED
  BY <1>1, <1>2

\* A part more, of whatever kind.
LEMMA PartMore ==
  ASSUME NEW pg \in PageType, NEW part \in PageParts
  PROVE  LET after == [pg EXCEPT !.parts = Append(pg.parts, part)]
         IN  /\ after \in PageType /\ after.state = pg.state
             /\ TextOf(after.parts) = IF part.kind = "text" THEN TextOf(pg.parts) \o part.text
                                      ELSE TextOf(pg.parts)
<1>1. pg.parts \in Seq(PageParts)
  BY DEF PageType
<1> DEFINE more == Append(pg.parts, part)
<1>2. /\ more \in Seq(PageParts)
      /\ TextOf(more) = IF part.kind = "text" THEN TextOf(pg.parts) \o part.text
                        ELSE TextOf(pg.parts)
  BY <1>1, AppendProperties, PagePartsHaveText, TextOfMore
<1> HIDE DEF more
<1>3. /\ [pg EXCEPT !.parts = more] \in PageType /\ [pg EXCEPT !.parts = more].parts = more
      /\ [pg EXCEPT !.parts = more].state = pg.state
  BY <1>2 DEF PageType
<1> QED
  BY <1>2, <1>3 DEF more

LEMMA AppendedIs ==
  ASSUME NEW pg \in PageType, NEW kind \in {"text", "reasoning"}, NEW stretch \in Nat, NEW text \in Text
  PROVE  LET after == Appended(pg, kind, stretch, text)
         IN  /\ after \in PageType /\ after.state = pg.state
             /\ TextOf(after.parts) = IF kind = "text" THEN TextOf(pg.parts) \o text
                                      ELSE TextOf(pg.parts)
<1> DEFINE s == pg.parts
           n == Len(s)
           new == [kind |-> kind, stretch |-> stretch, text |-> text]
           longer == [s EXCEPT ![n].text = @ \o text]
<1>1. s \in Seq(PageParts) /\ n \in Nat
  BY LenProperties DEF PageType
<1>2. CASE n > 0 /\ s[n].kind = kind /\ kind # "tool_call" /\ s[n].stretch = stretch
  <2>1. n \in 1..n /\ s # <<>> /\ s[n] \in PageParts /\ DOMAIN s = 1..n
    BY <1>1, <1>2, EmptySeq, ElementOfSeq, LenProperties
  <2>2. s[n] \in [kind : {"text", "reasoning"}, stretch : Nat, text : Text]
    BY <1>2, <2>1 DEF PageParts
  <2>3. s[n].text \o text \in Text
    BY <2>2, Joining
  <2> DEFINE part == [s[n] EXCEPT !.text = s[n].text \o text]
  <2>4. part \in PageParts /\ part.kind = kind
    BY <1>2, <2>2, <2>3 DEF PageParts
  <2> DEFINE changed == [s EXCEPT ![n] = part]
  <2>5. longer = changed
    OBVIOUS
  <2>6. /\ longer \in Seq(PageParts) /\ Len(longer) = n
        /\ \A j \in 1..n : longer[j] = IF j = n THEN part ELSE s[j]
    <3> HIDE DEF part, longer, s
    <3>1. /\ changed \in Seq(PageParts) /\ Len(changed) = n
          /\ \A j \in 1..n : changed[j] = IF j = n THEN part ELSE s[j]
      BY <1>1, <2>1, <2>4, ExceptSeq
    <3> HIDE DEF changed
    <3> QED
      BY <2>5, <3>1
  <2> HIDE DEF part, changed
  <2>7. TextOf(longer) = IF kind = "text" THEN TextOf(s) \o text ELSE TextOf(s)
    <3>1. CASE kind = "text"
      <4>1. s[Len(s)].kind = "text" /\ longer \in Seq(PageParts)
        BY <1>2, <2>6, <3>1
      <4>2. TextOf([s EXCEPT ![Len(s)].text = @ \o text]) = TextOf(s) \o text
        <5> HIDE DEF s
        <5> QED
          BY <1>1, <2>1, <4>1, PagePartsHaveText, TextOfLonger
      <4> QED
        BY <3>1, <4>2
    <3>2. CASE kind = "reasoning"
      <4> HIDE DEF longer, s, n
      <4>1. \A i \in 1..n : /\ longer[i].kind = s[i].kind
                            /\ s[i].kind = "text" => longer[i].text = s[i].text
        BY <1>2, <2>4, <2>6, <3>2
      <4> QED
        BY <1>1, <2>6, <3>2, <4>1, PagePartsHaveText, TextOfAlike DEF n
    <3> QED
      BY <3>1, <3>2
  <2>8. Appended(pg, kind, stretch, text) = [pg EXCEPT !.parts = longer]
    BY <1>2 DEF Appended
  <2> HIDE DEF longer
  <2>9. /\ [pg EXCEPT !.parts = longer] \in PageType /\ [pg EXCEPT !.parts = longer].parts = longer
        /\ [pg EXCEPT !.parts = longer].state = pg.state
    BY <2>6 DEF PageType
  <2> QED
    BY <2>7, <2>8, <2>9
<1>3. CASE ~(n > 0 /\ s[n].kind = kind /\ kind # "tool_call" /\ s[n].stretch = stretch)
  <2>1. new \in PageParts /\ new.kind = kind /\ new.text = text
    BY DEF PageParts
  <2>2. Appended(pg, kind, stretch, text) = [pg EXCEPT !.parts = Append(pg.parts, new)]
    BY <1>3 DEF Appended
  <2> HIDE DEF new
  <2> QED
    BY <2>1, <2>2, PartMore
<1> QED
  BY <1>2, <1>3

LEMMA StretchOpenedIs ==
  ASSUME NEW pg \in PageType, NEW stretch \in Nat
  PROVE  Untold(pg, StretchOpened(pg, stretch))
<1>1. CASE pg.thinking = stretch \/ ~pg.writing
  BY <1>1, UntoldIs DEF StretchOpened
<1>2. CASE ~(pg.thinking = stretch \/ ~pg.writing)
  <2> DEFINE part == [kind |-> "reasoning", stretch |-> stretch, text |-> <<>>]
             more == [pg EXCEPT !.parts = Append(pg.parts, part)]
             after == [pg EXCEPT !.thinking = stretch, !.parts = Append(pg.parts, part)]
  <2>1. part \in PageParts /\ part.kind = "reasoning"
    BY Joining DEF PageParts
  <2>2. StretchOpened(pg, stretch) = after
    BY <1>2 DEF StretchOpened
  <2> HIDE DEF part
  <2>3. more \in PageType /\ more.state = pg.state /\ TextOf(more.parts) = TextOf(pg.parts)
    BY <2>1, PartMore
  <2>4. after = [more EXCEPT !.thinking = stretch]
    BY DEF PageType
  <2> HIDE DEF more, after
  <2>5. after \in PageType /\ after.state = more.state /\ after.parts = more.parts
    BY <2>3, <2>4 DEF PageType
  <2> QED
    BY <2>2, <2>3, <2>5 DEF Untold, MayGrow
<1> QED
  BY <1>1, <1>2

LEMMA AnsweredIs ==
  ASSUME NEW pg \in PageType, NEW call
  PROVE  Untold(pg, Answered(pg, call))
<1> DEFINE s == pg.parts
           n == Len(s)
           answered == [i \in 1..n |-> IF s[i].kind = "tool_call" /\ s[i].call = call
                                       THEN [s[i] EXCEPT !.answered = TRUE] ELSE s[i]]
           state == IF pg.state = "running" /\ ~Unanswered(answered) THEN "stored" ELSE pg.state
           after == [pg EXCEPT !.parts = answered, !.state = state]
<1>1. s \in Seq(PageParts) /\ n \in Nat /\ DOMAIN s = 1..n /\ \A i \in 1..n : s[i] \in PageParts
  BY LenProperties, ElementOfSeq DEF PageType
<1>2. Answered(pg, call) = after
  BY <1>1 DEF Answered
<1> HIDE DEF s, n
<1>3. \A i \in 1..n : /\ answered[i] \in PageParts /\ answered[i].kind = s[i].kind
                      /\ s[i].kind = "text" => answered[i].text = s[i].text
  BY <1>1 DEF PageParts
<1>4. answered \in [1..n -> PageParts]
  BY <1>3
<1> HIDE DEF answered
<1>5. answered \in Seq(PageParts) /\ Len(answered) = n
  <2>1. answered \in Seq(PageParts)
    BY <1>1, <1>4, SeqDef
  <2> QED
    BY <1>1, <1>4, <2>1, LenProperties
<1>6. TextOf(answered) = TextOf(s)
  BY <1>1, <1>3, <1>5, PagePartsHaveText, TextOfAlike DEF n
<1>7. /\ state \in {"none", "running", "stored", "failed", "cancelled"}
      /\ state \in {"none", "running"} => state = pg.state
  BY DEF PageType
<1> HIDE DEF state
<1>8. after \in PageType /\ after.parts = answered /\ after.state = state
  BY <1>5, <1>7 DEF PageType
<1> QED
  BY <1>2, <1>6, <1>7, <1>8 DEF Untold, MayGrow, s

-----------------------------------------------------------------------------
(* What is sent of the log, and what it does to the page                   *)

\* A document as it is sent, a piece of thinking in the stretch that is open.
ContentOf(d, stretch) ==
  IF d.kind = "reasoning_piece"
  THEN [type |-> "REASONING_MESSAGE_CONTENT", id |-> d.position,
        body |-> [stretch |-> stretch, text |-> d.body.text]]
  ELSE [Mapped(EventFromDocument(d)) EXCEPT !.id = d.position]

SentAs(d) == {ContentOf(d, stretch) : stretch \in Nat}

\* What is sent with no document of its own: the stream's beginning, and a stretch's two ends.
Edges == {"REASONING_MESSAGE_START", "REASONING_MESSAGE_END"}

Plain == {RunStarted} \cup [type : Edges, id : {0}, body : [stretch : Nat]]

\* The end of a turn that is told from its record.
TerminalOf(state, p) == [Mapped(TurnEnded(state)) EXCEPT !.id = p]

LEMMA PlainIs ==
  ASSUME NEW w \in Plain
  PROVE  w.id = 0 /\ ~IsTerminal(w) /\ (w # RunStarted => w.type \in Edges)
BY DEF Plain, Edges, RunStarted, Wire, IsTerminal

LEMMA TerminalIs ==
  ASSUME NEW state \in Ends, NEW p \in Nat
  PROVE  LET w == TerminalOf(state, p)
         IN  w.id = p /\ IsTerminal(w) /\ w.body.state = state /\ w # RunStarted
BY DEF TerminalOf, Mapped, TurnEnded, Event, Wire, IsTerminal, RunStarted

LEMMA SentIs ==
  ASSUME NEW d \in Doc, NEW w \in SentAs(d)
  PROVE  /\ w.id = d.position /\ w.type \notin Edges /\ w # RunStarted
         /\ IsTerminal(w) <=> d.kind = "turn_ended"
         /\ \A key \in DOMAIN d.body : w.body[key] = d.body[key]
         /\ d.kind = "reasoning_piece" =>
              w.type = "REASONING_MESSAGE_CONTENT" /\ w.body.stretch \in Nat
         /\ d.kind \notin {"reasoning_piece", "turn_ended"} => w.type = WireTypeOf[d.kind]
<1>1. PICK stretch \in Nat : w = ContentOf(d, stretch)
  BY DEF SentAs
<1> DEFINE kind == d.kind
           body == d.body
           position == d.position
<1>2. Event(kind, body) \in EventsOver(CleanChars)
  BY DocumentIs DEF Doc
<1> HIDE DEF kind, body, position
<1>3. w = IF kind = "reasoning_piece"
          THEN [type |-> "REASONING_MESSAGE_CONTENT", id |-> position,
                body |-> [stretch |-> stretch, text |-> body.text]]
          ELSE [Mapped(Event(kind, body)) EXCEPT !.id = position]
  BY <1>1 DEF ContentOf, EventFromDocument, kind, body, position
<1>4. CASE kind = "reasoning_piece"
  <2>1. body \in [text : Seq(CleanChars)]
    BY <1>2, <1>4, EventIs
  <2>2. w = [type |-> "REASONING_MESSAGE_CONTENT", id |-> position,
             body |-> [stretch |-> stretch, text |-> body.text]]
    BY <1>3, <1>4
  <2>3. /\ w.id = position /\ w.type = "REASONING_MESSAGE_CONTENT" /\ w.body.stretch = stretch
        /\ w.body.text = body.text
    BY <2>2
  <2>4. \A key \in DOMAIN body : w.body[key] = body[key]
    BY <2>1, <2>3
  <2> QED
    BY <1>4, <2>3, <2>4 DEF Edges, IsTerminal, RunStarted, Wire, kind, body, position
<1>5. CASE kind = "turn_ended"
  <2>1. /\ w.id = position /\ w.type \in {"RUN_FINISHED", "RUN_ERROR"} /\ w.body = body
    BY <1>3, <1>5 DEF Mapped, Event, Wire
  <2> QED
    BY <1>5, <2>1 DEF Edges, IsTerminal, RunStarted, Wire, kind, body, position
<1>6. CASE kind \notin {"reasoning_piece", "turn_ended"}
  <2>1. /\ w.id = position /\ w.type = WireTypeOf[kind] /\ w.body = body
    BY <1>3, <1>6 DEF Mapped, Event, Wire
  <2>2. /\ WireTypeOf[kind] \notin Edges \cup {"RUN_STARTED", "RUN_FINISHED", "RUN_ERROR"}
    BY <1>2, <1>6, EventIs DEF WireTypeOf, Edges
  <2> QED
    BY <1>6, <2>1, <2>2 DEF IsTerminal, RunStarted, Wire, kind, body, position
<1> QED
  BY <1>4, <1>5, <1>6

LEMMA AppliedPlain ==
  ASSUME NEW pg \in PageType, NEW w \in Plain
  PROVE  Untold(pg, Applied(pg, w))
<1>1. CASE w = RunStarted
  BY <1>1, UntoldIs DEF Applied, RunStarted, Wire, IsTerminal
<1>2. CASE w.type = "REASONING_MESSAGE_START" /\ w.body.stretch \in Nat
  BY <1>2, StretchOpenedIs DEF Applied, IsTerminal
<1>3. CASE w.type = "REASONING_MESSAGE_END"
  <2> DEFINE closed == [pg EXCEPT !.thinking = 0]
  <2>1. closed \in PageType /\ closed.parts = pg.parts /\ closed.state = pg.state
    BY DEF PageType
  <2>2. Applied(pg, w) = IF pg.thinking = w.body.stretch THEN closed ELSE pg
    BY <1>3 DEF Applied, IsTerminal
  <2> HIDE DEF closed
  <2> QED
    BY <2>1, <2>2, UntoldIs DEF Untold, MayGrow
<1> QED
  BY <1>1, <1>2, <1>3 DEF Plain, Edges

LEMMA AppliedTerminal ==
  ASSUME NEW pg \in PageType, NEW w, IsTerminal(w)
  PROVE  /\ Untold(pg, Applied(pg, w))
         /\ Applied(pg, w).state # "running" /\ Applied(pg, w).thinking = 0
<1> DEFINE state == IF pg.state # "running" THEN pg.state
                    ELSE IF w.type = "RUN_ERROR" THEN "failed"
                    ELSE IF w.body.state = "cancelled" THEN "cancelled"
                    ELSE "stored"
           after == [pg EXCEPT !.writing = FALSE, !.thinking = 0, !.state = state]
<1>1. Applied(pg, w) = after
  BY DEF Applied, IsTerminal
<1>2. /\ state \in {"none", "running", "stored", "failed", "cancelled"}
      /\ state # "running" /\ (state = "none" => pg.state = "none")
  BY DEF PageType
<1> HIDE DEF state
<1>3. after \in PageType /\ after.state = state /\ after.thinking = 0 /\ after.parts = pg.parts
  BY <1>2 DEF PageType
<1> QED
  BY <1>1, <1>2, <1>3 DEF Untold, MayGrow

\* A piece of text is gone on with while the answer may still grow, and only then.
LEMMA AppliedText ==
  ASSUME NEW pg \in PageType, NEW d \in Doc, NEW w \in SentAs(d), d.kind = "text_piece"
  PROVE  /\ Applied(pg, w) \in PageType
         /\ MayGrow(pg) => TextOf(Applied(pg, w).parts) = TextOf(pg.parts) \o d.body.text
         /\ ~MayGrow(pg) => Applied(pg, w) = pg
<1>1. Event(d.kind, d.body) \in EventsOver(CleanChars)
  BY DocumentIs DEF Doc
<1>2. d.body \in [text : Seq(CleanChars)]
  BY <1>1, EventIs
<1>3. d.body.text \in Text /\ w.type = "TEXT_MESSAGE_CONTENT" /\ w.body.text = d.body.text
  BY <1>2, SentIs, FewerChars, SeqMonotonic DEF WireTypeOf, Text
<1>4. Applied(pg, w) = IF Opened(pg).state = "running" THEN Appended(Opened(pg), "text", 0, d.body.text)
                       ELSE pg
  BY <1>3 DEF Applied, IsTerminal
<1>5. Untold(pg, Opened(pg)) /\ (Opened(pg).state = "running" <=> MayGrow(pg))
  BY OpenedIs
<1>6. Opened(pg) \in PageType /\ TextOf(Opened(pg).parts) = TextOf(pg.parts)
  BY <1>5 DEF Untold
<1>7. /\ Appended(Opened(pg), "text", 0, d.body.text) \in PageType
      /\ TextOf(Appended(Opened(pg), "text", 0, d.body.text).parts) = TextOf(pg.parts) \o d.body.text
  BY <1>3, <1>6, AppendedIs
<1> QED
  BY <1>4, <1>5, <1>7

\* Nothing else tells it text.
LEMMA AppliedOther ==
  ASSUME NEW pg \in PageType, NEW d \in Doc, NEW w \in SentAs(d), d.kind # "text_piece"
  PROVE  Untold(pg, Applied(pg, w))
<1>0. Event(d.kind, d.body) \in EventsOver(CleanChars)
  BY DocumentIs DEF Doc
<1>1. CASE d.kind = "message_started"
  <2>1. w.type = "TEXT_MESSAGE_START"
    BY <1>1, SentIs DEF WireTypeOf
  <2> QED
    BY <2>1, OpenedIs DEF Applied, IsTerminal
<1>2. CASE d.kind = "message_completed"
  <2>1. w.type = "TEXT_MESSAGE_END"
    BY <1>2, SentIs DEF WireTypeOf
  <2> DEFINE state == IF Unanswered(pg.parts) THEN "running" ELSE "stored"
             after == [pg EXCEPT !.state = state, !.writing = FALSE, !.thinking = 0]
  <2>2. Applied(pg, w) = IF pg.state # "running" THEN pg ELSE after
    BY <2>1 DEF Applied, IsTerminal
  <2>3. state \in {"running", "stored"}
    OBVIOUS
  <2> HIDE DEF state
  <2>4. after \in PageType /\ after.parts = pg.parts
    BY <2>3 DEF PageType
  <2> HIDE DEF after
  <2> QED
    BY <2>2, <2>4, UntoldIs DEF Untold, MayGrow
<1>3. CASE d.kind = "reasoning_piece"
  <2>1. w.type = "REASONING_MESSAGE_CONTENT" /\ w.body.stretch \in Nat
    BY <1>3, SentIs
  <2>2. d.body \in [text : Seq(CleanChars)]
    BY <1>0, <1>3, EventIs
  <2>3. w.body.text \in Text
    BY <2>2, SentIs, FewerChars, SeqMonotonic DEF Text
  <2> DEFINE open == StretchOpened(pg, w.body.stretch)
             after == Appended(open, "reasoning", w.body.stretch, w.body.text)
  <2>4. Untold(pg, open) /\ open \in PageType
    BY <2>1, StretchOpenedIs DEF Untold
  <2>5. Applied(pg, w) = IF ~pg.writing THEN pg ELSE after
    BY <2>1 DEF Applied, IsTerminal
  <2> HIDE DEF open
  <2>6. after \in PageType /\ after.state = open.state /\ TextOf(after.parts) = TextOf(open.parts)
    BY <2>1, <2>3, <2>4, AppendedIs
  <2> HIDE DEF after
  <2>7. Untold(pg, after)
    BY <2>4, <2>6 DEF Untold, MayGrow
  <2> QED
    BY <2>5, <2>7, UntoldIs
<1>4. CASE d.kind = "call_started"
  <2>1. w.type = "TOOL_CALL_START" /\ d.body \in [call : Nat]
    BY <1>0, <1>4, SentIs, EventIs DEF WireTypeOf
  <2>2. w.body.call \in Nat
    BY <2>1, SentIs
  <2> DEFINE open == Opened(pg)
             part == [kind |-> "tool_call", call |-> w.body.call, answered |-> FALSE]
             after == [open EXCEPT !.parts = Append(open.parts, part)]
  <2>3. Applied(pg, w) = IF open.state # "running" \/ Holds(open, w.body.call) THEN open ELSE after
    BY <2>1 DEF Applied, IsTerminal
  <2>4. Untold(pg, open) /\ open \in PageType
    BY OpenedIs DEF Untold
  <2>5. part \in PageParts /\ part.kind = "tool_call"
    BY <2>2 DEF PageParts
  <2> HIDE DEF open, part
  <2>6. after \in PageType /\ after.state = open.state /\ TextOf(after.parts) = TextOf(open.parts)
    BY <2>4, <2>5, PartMore
  <2> HIDE DEF after
  <2>7. Untold(pg, after)
    BY <2>4, <2>6 DEF Untold, MayGrow
  <2> QED
    BY <2>3, <2>4, <2>7
<1>5. CASE d.kind \in {"arguments_piece", "call_completed"}
  <2>1. w.type \in {"TOOL_CALL_ARGS", "TOOL_CALL_END"}
    BY <1>5, SentIs DEF WireTypeOf
  <2>2. Applied(pg, w) = pg
    BY <2>1 DEF Applied, IsTerminal
  <2> QED
    BY <2>2, UntoldIs
<1>6. CASE d.kind = "result_landed"
  <2>1. w.type = "TOOL_CALL_RESULT"
    BY <1>6, SentIs DEF WireTypeOf
  <2>2. Applied(pg, w) = IF Holds(pg, w.body.call) THEN Answered(pg, w.body.call) ELSE pg
    BY <2>1 DEF Applied, IsTerminal
  <2> QED
    BY <2>2, AnsweredIs, UntoldIs
<1>7. CASE d.kind = "turn_ended"
  BY <1>7, SentIs, AppliedTerminal
<1> QED
  BY <1>0, <1>1, <1>2, <1>3, <1>4, <1>5, <1>6, <1>7, EventIs

LEMMA PartsHaveText ==
  HaveText(PartsOver(CleanChars))
<1>1. Seq(CleanChars) \subseteq Text
  BY FewerChars, SeqMonotonic DEF Text
<1> QED
  BY <1>1 DEF HaveText, PartsOver

\* The text that the events of a log bring.
Said(l) == TextOf(PartialAnswer(l))

LEMMA SaidMore ==
  /\ Said(<<>>) = <<>>
  /\ \A l \in Seq(Doc) : Said(l) \in Text
  /\ \A l \in Seq(Doc), d \in Doc :
       Said(Append(l, d)) = IF d.kind = "text_piece" THEN Said(l) \o d.body.text ELSE Said(l)
<1>1. HaveText(PartsOver(CleanChars))
  BY PartsHaveText
<1>2. Said(<<>>) = <<>>
  BY <1>1, BuiltMore, TextOfMore DEF Said, PartialAnswer, NothingBuilt
<1>3. \A l \in Seq(Doc) : Said(l) \in Text
  BY <1>1, BuiltIsKept, TextOfMore DEF Said
<1>4. ASSUME NEW l \in Seq(Doc), NEW d \in Doc
      PROVE  Said(Append(l, d)) = IF d.kind = "text_piece" THEN Said(l) \o d.body.text ELSE Said(l)
  <2> DEFINE p == PartialAnswer(l)
             q == PartialAnswer(Append(l, d))
  <2>1. p \in Seq(PartsOver(CleanChars)) /\ BuiltAs(l, d, Append(l, d))
        /\ \E S \in SUBSET Nat : Calling(l) \in [S -> Args]
    BY BuiltFrom DEF Doc
  <2>2. Event(d.kind, d.body) \in EventsOver(CleanChars)
    BY DocumentIs DEF Doc
  <2>3. CASE d.kind = "text_piece"
    <3>1. q = WithText(p, d.body.text) /\ d.body \in [text : Seq(CleanChars)]
      BY <2>1, <2>2, <2>3, EventIs DEF BuiltAs
    <3> DEFINE text == d.body.text
    <3>2. text \in Seq(CleanChars) /\ text \in Text
      BY <3>1, FewerChars, SeqMonotonic DEF Text
    <3> HIDE DEF p, text
    <3>3. WithText(p, text) \in Seq(PartsOver(CleanChars))
      BY <2>1, <3>2, WithTextType
    <3>4. TextOf(WithText(p, text)) = TextOf(p) \o text
      <4>1. CASE p # <<>> /\ p[Len(p)].kind = "text"
        BY <1>1, <2>1, <3>2, <3>3, <4>1, TextOfLonger DEF WithText
      <4>2. CASE ~(p # <<>> /\ p[Len(p)].kind = "text")
        <5>1. /\ TextPart(text) \in PartsOver(CleanChars)
              /\ TextPart(text).kind = "text" /\ TextPart(text).text = text
          BY <3>2 DEF TextPart, PartsOver
        <5> QED
          BY <1>1, <2>1, <4>2, <5>1, TextOfMore DEF WithText
      <4> QED
        BY <4>1, <4>2
    <3> QED
      BY <2>3, <3>1, <3>4 DEF Said, p, text
  <2>4. CASE d.kind = "call_completed"
    <3> DEFINE part == ToolCallPart(d.body.call, Calling(l)[d.body.call])
    <3>1. q = IF d.body.call \in DOMAIN Calling(l) THEN Append(p, part) ELSE p
      BY <2>1, <2>4 DEF BuiltAs
    <3>2. d.body.call \in DOMAIN Calling(l) => part \in PartsOver(CleanChars) /\ part.kind = "tool_call"
      BY <2>1 DEF ToolCallPart, PartsOver
    <3> HIDE DEF p, part
    <3>3. d.body.call \in DOMAIN Calling(l) => TextOf(Append(p, part)) = TextOf(p)
      BY <1>1, <2>1, <3>2, TextOfMore
    <3> QED
      BY <2>4, <3>1, <3>3 DEF Said, p
  <2>5. CASE d.kind = "result_landed"
    <3> DEFINE part == ToolResultPart(d.body.call, d.body.text)
    <3>1. q = Append(p, part) /\ d.body \in [call : Nat, text : Seq(CleanChars)]
      BY <2>1, <2>2, <2>5, EventIs DEF BuiltAs
    <3>2. part \in PartsOver(CleanChars) /\ part.kind = "tool_result"
      BY <3>1 DEF ToolResultPart, PartsOver
    <3> HIDE DEF p, part
    <3>3. TextOf(Append(p, part)) = TextOf(p)
      BY <1>1, <2>1, <3>2, TextOfMore
    <3> QED
      BY <2>5, <3>1, <3>3 DEF Said, p
  <2>6. CASE d.kind \notin {"text_piece", "call_completed", "result_landed"}
    <3>1. q = p
      BY <2>1, <2>2, <2>6, EventIs DEF BuiltAs
    <3> QED
      BY <2>6, <3>1 DEF Said
  <2> QED
    BY <2>3, <2>4, <2>5, <2>6
<1> QED
  BY <1>2, <1>3, <1>4

\* What the page shows of the events of a log: how their text begins, and all of it while the
\* answer may grow.
Shows(pg, l) ==
  /\ pg \in PageType /\ IsPrefix(TextOf(pg.parts), Said(l))
  /\ MayGrow(pg) => TextOf(pg.parts) = Said(l)

LEMMA ShowsStill ==
  ASSUME NEW pg, NEW after, NEW l, Shows(pg, l), Untold(pg, after)
  PROVE  Shows(after, l)
BY DEF Shows, Untold

LEMMA ShowsMore ==
  ASSUME NEW pg, NEW l \in Seq(Doc), Shows(pg, l), NEW d \in Doc, NEW w \in SentAs(d)
  PROVE  Shows(Applied(pg, w), Append(l, d))
<1>1. pg \in PageType /\ pg.parts \in Seq(PageParts)
  BY DEF Shows, PageType
<1>2. TextOf(pg.parts) \in Text /\ Said(l) \in Text
  BY <1>1, PagePartsHaveText, TextOfMore, SaidMore
<1>3. CASE d.kind = "text_piece"
  <2>1. Said(Append(l, d)) = Said(l) \o d.body.text
    BY <1>3, SaidMore
  <2>2. d.body.text \in Text
    <3>1. Event(d.kind, d.body) \in EventsOver(CleanChars)
      BY DocumentIs DEF Doc
    <3>2. d.body \in [text : Seq(CleanChars)]
      BY <1>3, <3>1, EventIs
    <3> QED
      BY <3>2, FewerChars, SeqMonotonic DEF Text
  <2>3. /\ Applied(pg, w) \in PageType
        /\ MayGrow(pg) => TextOf(Applied(pg, w).parts) = TextOf(pg.parts) \o d.body.text
        /\ ~MayGrow(pg) => Applied(pg, w) = pg
    BY <1>1, <1>3, AppliedText
  <2>4. Said(l) \o d.body.text \in Text
    BY <1>2, <2>2, Joining
  <2>5. CASE MayGrow(pg)
    <3>1. TextOf(Applied(pg, w).parts) = Said(Append(l, d))
      BY <2>1, <2>3, <2>5 DEF Shows
    <3> QED
      BY <2>1, <2>3, <2>4, <3>1, Beginnings DEF Shows
  <2>6. CASE ~MayGrow(pg)
    <3>1. IsPrefix(TextOf(pg.parts), Said(l)) /\ IsPrefix(Said(l), Said(l) \o d.body.text)
      BY <1>2, <2>2, Beginnings DEF Shows
    <3>2. IsPrefix(TextOf(pg.parts), Said(Append(l, d)))
      BY <1>2, <2>1, <2>4, <3>1, Beginnings
    <3> QED
      BY <1>1, <2>3, <2>6, <3>2 DEF Shows
  <2> QED
    BY <2>5, <2>6
<1>4. CASE d.kind # "text_piece"
  <2>1. Said(Append(l, d)) = Said(l)
    BY <1>4, SaidMore
  <2>2. Untold(pg, Applied(pg, w))
    BY <1>1, <1>4, AppliedOther
  <2> QED
    BY <2>1, <2>2 DEF Shows, Untold
<1> QED
  BY <1>3, <1>4

\* What a log said is how it goes on.
LEMMA SaidBegins ==
  ASSUME NEW l \in Seq(Doc), NEW k \in 0..Len(l)
  PROVE  SubSeq(l, 1, k) \in Seq(Doc) /\ IsPrefix(Said(SubSeq(l, 1, k)), Said(l))
<1> DEFINE front(i) == SubSeq(l, 1, i)
           right == {i \in 0..Len(l) : i >= k => IsPrefix(Said(front(k)), Said(front(i)))}
<1>1. Len(l) \in Nat /\ \A i \in 1..Len(l) : l[i] \in Doc
  BY LenProperties, ElementOfSeq
<1>2. \A i \in 0..Len(l) : front(i) \in Seq(Doc)
  BY <1>1, SubSeqProperties
<1>3. \A i \in 1..Len(l) : front(i) = Append(front(i - 1), l[i])
  BY FrontMore
<1>4. front(Len(l)) = l
  BY SubSeqFull
<1> HIDE DEF front
<1>5. \A i \in 0..Len(l) : Said(front(i)) \in Text
  BY <1>2, SaidMore
<1>6. 0 \in right
  <2>1. 0 \in 0..Len(l) /\ (0 >= k => k = 0)
    BY <1>1
  <2> QED
    BY <1>5, <2>1, Beginnings
<1>7. ASSUME NEW i \in 1..Len(l), i - 1 \in right PROVE i \in right
  <2>1. i \in 0..Len(l) /\ i - 1 \in 0..Len(l) /\ (i >= k => i = k \/ i - 1 >= k)
    BY <1>1
  <2>2. CASE i = k
    BY <1>5, <2>1, <2>2, Beginnings
  <2>3. CASE i - 1 >= k
    <3>1. front(i - 1) \in Seq(Doc) /\ l[i] \in Doc /\ front(i) = Append(front(i - 1), l[i])
      BY <1>1, <1>2, <1>3, <2>1
    <3>2. IsPrefix(Said(front(i - 1)), Said(front(i)))
      <4>1. CASE l[i].kind = "text_piece"
        <5>1. l[i].body.text \in Text
          <6>1. Event(l[i].kind, l[i].body) \in EventsOver(CleanChars)
            BY <3>1, DocumentIs DEF Doc
          <6>2. l[i].body \in [text : Seq(CleanChars)]
            BY <4>1, <6>1, EventIs
          <6> QED
            BY <6>2, FewerChars, SeqMonotonic DEF Text
        <5>2. Said(front(i)) = Said(front(i - 1)) \o l[i].body.text
          BY <3>1, <4>1, SaidMore
        <5> QED
          BY <1>5, <2>1, <5>1, <5>2, Beginnings
      <4>2. CASE l[i].kind # "text_piece"
        <5>1. Said(front(i)) = Said(front(i - 1))
          BY <3>1, <4>2, SaidMore
        <5> QED
          BY <1>5, <2>1, <5>1, Beginnings
      <4> QED
        BY <4>1, <4>2
    <3>3. IsPrefix(Said(front(k)), Said(front(i - 1)))
      BY <1>7, <2>3
    <3> QED
      BY <1>5, <2>1, <3>2, <3>3, Beginnings
  <2> QED
    BY <2>1, <2>2, <2>3
<1> HIDE DEF right
<1>8. \A i \in 0..Len(l) : i \in right
  BY <1>1, <1>6, <1>7, Counting
<1>9. Len(l) \in 0..Len(l) /\ Len(l) >= k
  BY <1>1
<1>10. Len(l) \in right
  BY <1>8, <1>9
<1>11. IsPrefix(Said(front(k)), Said(front(Len(l))))
  BY <1>9, <1>10 DEF right
<1> QED
  BY <1>2, <1>4, <1>11 DEF front

-----------------------------------------------------------------------------
(* The events that were read                                               *)

\* p is the position of the k-th document, or of none.
Had(l, p, k) == k \in 0..Len(l) /\ p = IF k = 0 THEN 0 ELSE l[k].position

Contents(r) == {i \in DOMAIN r : r[i].type \notin Edges /\ ~IsTerminal(r[i])}

Numbered(l, p) == {i \in DOMAIN l : l[i].position <= p /\ l[i].kind # "turn_ended"}

\* The contents of what was read are the documents up to a position, once and in order.
Once(r, l, p) ==
  /\ \A i, j \in Contents(r) : i < j => r[i].id < r[j].id
  /\ \A j \in Numbered(l, p) : \E i \in Contents(r) : r[i].id = l[j].position
  /\ \A i \in Contents(r) : \E j \in Numbered(l, p) :
       /\ r[i].id = l[j].position
       /\ \A key \in DOMAIN l[j].body : r[i].body[key] = l[j].body[key]

LEMMA OnceIs ==
  ReadsOnce <=> Once(read, log, client.position)
BY DEF ReadsOnce, Once, Contents, Numbered, Edges

LEMMA PositionsCount ==
  ASSUME NEW l \in Seq(Doc), Ordered(l)
  PROVE  /\ Len(l) \in Nat /\ DOMAIN l = 1..Len(l)
         /\ \A i \in 1..Len(l) : l[i] \in Doc /\ l[i].position \in Nat \ {0}
         /\ \A p, k : Had(l, p, k) =>
              /\ p \in Nat
              /\ \A i \in 1..Len(l) : l[i].position <= p <=> i <= k
         /\ \A p, j, k : Had(l, p, j) /\ Had(l, p, k) => j = k
<1>1. Len(l) \in Nat /\ DOMAIN l = 1..Len(l)
  BY LenProperties
<1>2. \A i \in 1..Len(l) : l[i] \in Doc /\ l[i].position \in Nat \ {0}
  BY ElementOfSeq, DocumentIs DEF Doc
<1>3. ASSUME NEW p, NEW k, Had(l, p, k)
      PROVE  p \in Nat /\ \A i \in 1..Len(l) : l[i].position <= p <=> i <= k
  <2>1. CASE k = 0
    BY <1>1, <1>2, <1>3, <2>1 DEF Had
  <2>2. CASE k # 0
    <3>1. k \in 1..Len(l) /\ p = l[k].position
      BY <1>1, <1>3, <2>2 DEF Had
    <3>2. ASSUME NEW i \in 1..Len(l) PROVE l[i].position <= p <=> i <= k
      <4>1. i < k \/ i = k \/ k < i
        BY <3>1
      <4>2. i < k => l[i].position < l[k].position
        BY <3>1 DEF Ordered
      <4>3. k < i => l[k].position < l[i].position
        BY <3>1 DEF Ordered
      <4>4. l[i].position \in Nat /\ l[k].position \in Nat
        BY <1>2, <3>1
      <4> QED
        BY <3>1, <4>1, <4>2, <4>3, <4>4
    <3> QED
      BY <1>2, <3>1, <3>2
  <2> QED
    BY <2>1, <2>2
<1>4. ASSUME NEW p, NEW j, NEW k, Had(l, p, j), Had(l, p, k) PROVE j = k
  <2>1. j \in 0..Len(l) /\ k \in 0..Len(l)
    BY <1>4 DEF Had
  <2>2. \A i \in 1..Len(l) : i <= j <=> i <= k
    BY <1>3, <1>4
  <2>3. (j \in 1..Len(l) => j <= k) /\ (k \in 1..Len(l) => k <= j)
    BY <2>1, <2>2
  <2> QED
    BY <1>1, <2>1, <2>3
<1> QED
  BY <1>1, <1>2, <1>3, <1>4

\* An event with no document of its own, or the end of the turn: nothing more was read.
LEMMA OnceStill ==
  ASSUME NEW S, NEW r \in Seq(S), NEW w \in S, w.type \in Edges \/ IsTerminal(w),
         NEW l, NEW p, NEW q, Once(r, l, p), Numbered(l, q) = Numbered(l, p)
  PROVE  Once(Append(r, w), l, q)
<1> DEFINE s == Append(r, w)
<1>1. /\ Len(r) \in Nat /\ s \in Seq(S) /\ Len(s) = Len(r) + 1 /\ s[Len(r) + 1] = w
      /\ \A i \in 1..Len(r) : s[i] = r[i]
  BY LenProperties, AppendProperties
<1>2. DOMAIN r = 1..Len(r) /\ DOMAIN s = 1..Len(r) + 1
  BY <1>1, LenProperties
<1> HIDE DEF s
<1>3. \A i \in 1..Len(r) + 1 : i \in 1..Len(r) \/ i = Len(r) + 1
  BY <1>1
<1>4. Contents(s) = Contents(r) /\ \A i \in Contents(r) : s[i] = r[i]
  BY <1>1, <1>2, <1>3 DEF Contents
<1>5. Once(s, l, q)
  BY <1>4 DEF Once
<1> QED
  BY <1>5 DEF s

\* The next document of the log is read.
LEMMA OnceMore ==
  ASSUME NEW S, NEW r \in Seq(S), NEW l \in Seq(Doc), Ordered(l), NEW k \in 1..Len(l), NEW p,
         Had(l, p, k - 1), l[k].kind # "turn_ended", NEW w \in S, w \in SentAs(l[k]), Once(r, l, p)
  PROVE  Once(Append(r, w), l, l[k].position)
<1> DEFINE s == Append(r, w)
           d == l[k]
           q == d.position
           n == Len(r)
<1>1. /\ n \in Nat /\ s \in Seq(S) /\ Len(s) = n + 1 /\ s[n + 1] = w
      /\ \A i \in 1..n : s[i] = r[i]
  BY LenProperties, AppendProperties
<1>2. DOMAIN r = 1..n /\ DOMAIN s = 1..n + 1
  BY <1>1, LenProperties
<1>3. \A i \in 1..n + 1 : i \in 1..n \/ i = n + 1
  BY <1>1
<1>4. /\ Len(l) \in Nat /\ DOMAIN l = 1..Len(l) /\ d \in Doc
      /\ \A i \in 1..Len(l) : l[i].position \in Nat
      /\ \A i \in 1..Len(l) : l[i].position <= p <=> i <= k - 1
  BY PositionsCount
<1>5. Had(l, q, k)
  BY <1>4 DEF Had
<1>6. \A i \in 1..Len(l) : l[i].position <= q <=> i <= k
  BY <1>5, PositionsCount
<1>7. /\ w.id = q /\ w.type \notin Edges /\ ~IsTerminal(w)
      /\ \A key \in DOMAIN d.body : w.body[key] = d.body[key]
  BY <1>4, SentIs
<1>8. p \in Nat /\ q \in Nat /\ p < q
  <2>1. p \in Nat
    BY PositionsCount
  <2>2. ~(q <= p) /\ q \in Nat
    BY <1>4
  <2> QED
    BY <2>1, <2>2
<1> HIDE DEF s, n
<1>9. Contents(s) = Contents(r) \cup {n + 1}
  BY <1>1, <1>2, <1>3, <1>7 DEF Contents
<1>10. Contents(r) \subseteq 1..n /\ \A i \in Contents(r) : s[i] = r[i]
  BY <1>1, <1>2 DEF Contents
<1>11. Numbered(l, q) = Numbered(l, p) \cup {k}
  <2>1. \A i \in 1..Len(l) : i <= k <=> i <= k - 1 \/ i = k
    BY <1>4
  <2>2. \A i \in 1..Len(l) : l[i].position <= q <=> l[i].position <= p \/ i = k
    BY <1>4, <1>6, <2>1
  <2>3. Numbered(l, q) \subseteq Numbered(l, p) \cup {k}
    BY <1>4, <2>2 DEF Numbered
  <2>4. Numbered(l, p) \cup {k} \subseteq Numbered(l, q)
    BY <1>4, <2>2 DEF Numbered
  <2> QED
    BY <2>3, <2>4
<1>12. \A i \in Contents(r) : s[i].id < q
  <2> SUFFICES ASSUME NEW i \in Contents(r) PROVE s[i].id < q
    OBVIOUS
  <2>1. PICK j \in Numbered(l, p) : r[i].id = l[j].position
    BY DEF Once
  <2>2. j \in 1..Len(l) /\ l[j].position <= p /\ l[j].position \in Nat
    BY <1>4 DEF Numbered
  <2> QED
    BY <1>8, <1>10, <2>1, <2>2
<1> HIDE DEF d, q
<1>13. \A i, j \in Contents(s) : i < j => s[i].id < s[j].id
  <2> SUFFICES ASSUME NEW i \in Contents(s), NEW j \in Contents(s), i < j PROVE s[i].id < s[j].id
    OBVIOUS
  <2>1. i \in Contents(r)
    BY <1>1, <1>9, <1>10
  <2>2. CASE j \in Contents(r)
    BY <1>10, <2>1, <2>2 DEF Once
  <2>3. CASE j = n + 1
    BY <1>1, <1>7, <1>12, <2>1, <2>3
  <2> QED
    BY <1>9, <2>2, <2>3
<1>14. \A j \in Numbered(l, q) : \E i \in Contents(s) : s[i].id = l[j].position
  <2> SUFFICES ASSUME NEW j \in Numbered(l, q) PROVE \E i \in Contents(s) : s[i].id = l[j].position
    OBVIOUS
  <2>1. CASE j \in Numbered(l, p)
    <3>1. PICK i \in Contents(r) : r[i].id = l[j].position
      BY <2>1 DEF Once
    <3> QED
      BY <1>9, <1>10, <3>1
  <2>2. CASE j = k
    BY <1>1, <1>7, <1>9, <2>2 DEF q, d
  <2> QED
    BY <1>11, <2>1, <2>2
<1>15. ASSUME NEW i \in Contents(s)
       PROVE  \E j \in Numbered(l, q) :
                /\ s[i].id = l[j].position
                /\ \A key \in DOMAIN l[j].body : s[i].body[key] = l[j].body[key]
  <2>1. CASE i \in Contents(r)
    <3>1. PICK j \in Numbered(l, p) :
                 /\ r[i].id = l[j].position
                 /\ \A key \in DOMAIN l[j].body : r[i].body[key] = l[j].body[key]
      BY <2>1 DEF Once
    <3> QED
      BY <1>10, <1>11, <2>1, <3>1
  <2>2. CASE i = n + 1
    BY <1>1, <1>7, <1>11, <2>2 DEF q, d
  <2> QED
    BY <1>9, <2>1, <2>2
<1> QED
  BY <1>13, <1>14, <1>15 DEF Once, s, q, d

-----------------------------------------------------------------------------
(* The client                                                              *)

Endings == {TerminalOf(state, p) : state \in Ends, p \in Nat}

WireEvents == Plain \cup (UNION {SentAs(d) : d \in Doc}) \cup Endings

ClientTypeOK ==
  /\ conn \in [open : BOOLEAN, after : Nat, thinking : Nat, quiet : BOOLEAN, queue : Seq(WireEvents)]
  /\ client \in [pc : {"reading", "opening", "over", "lost"}, position : Nat, tries : 0..Retries,
                 carried : BOOLEAN]
  /\ read \in Seq(WireEvents)

\* The server sent nothing that the client has not had.
Settled == conn.after = client.position

\* The last event on its way: the stream's beginning or a stretch's end; one the client has had,
\* sent again; the document after those it has had; or the turn's end, from its record.
MayWait(w) ==
  \/ Settled /\ w \in Plain
  \/ /\ Settled
     /\ \E i \in 1..Len(log) : /\ log[i].position <= client.position /\ log[i].kind # "turn_ended"
                               /\ w \in SentAs(log[i])
  \/ \E k \in 1..Len(log) : /\ Had(log, client.position, k - 1) /\ conn.after = log[k].position
                            /\ w \in SentAs(log[k])
  \/ Settled /\ turn # "active" /\ w = TerminalOf(turn, conn.after)

\* At most two events are on their way, and only the last carries a position.
QueueInv ==
  conn.open =>
    /\ conn.quiet => conn.queue = <<>>
    /\ \/ conn.queue = <<>> /\ Settled
       \/ \E w \in WireEvents :
            /\ MayWait(w)
            /\ conn.queue = <<w>> \/ \E b \in Plain : conn.queue = <<b, w>>

\* The page shows the documents the client has had.
PageInv ==
  \E k \in 0..Len(log) : Had(log, client.position, k) /\ Shows(page, SubSeq(log, 1, k))

OverInv ==
  client.pc = "over" =>
    /\ turn # "active" /\ IsTerminal(Last(read)) /\ Last(read).body.state = turn
    /\ page.state # "running" /\ page.thinking = 0

ClientInv ==
  ClientTypeOK /\ QueueInv /\ Once(read, log, client.position) /\ PageInv /\ OverInv

LEMMA WireEventsAre ==
  /\ Plain \subseteq WireEvents /\ RunStarted \in Plain
  /\ \A d \in Doc : SentAs(d) \subseteq WireEvents
  /\ \A state \in Ends, p \in Nat : TerminalOf(state, p) \in WireEvents
<1>1. Plain \subseteq WireEvents /\ \A d \in Doc : SentAs(d) \subseteq WireEvents
  BY DEF WireEvents
<1>2. RunStarted \in Plain
  BY DEF Plain
<1>3. Endings \subseteq WireEvents
  BY DEF WireEvents
<1>4. \A state \in Ends, p \in Nat : TerminalOf(state, p) \in Endings
  BY DEF Endings
<1> QED
  BY <1>1, <1>2, <1>3, <1>4

LEMMA ShortQueues ==
  ASSUME NEW S, NEW a \in S, NEW b \in S
  PROVE  /\ <<a>> \in Seq(S) /\ <<a, b>> \in Seq(S) /\ <<a>> # <<>> /\ <<a, b>> # <<>>
         /\ Head(<<a>>) = a /\ Tail(<<a>>) = <<>> /\ Head(<<a, b>>) = a /\ Tail(<<a, b>>) = <<b>>
         /\ <<a>> \o <<b>> = <<a, b>>
         /\ Append(<<>>, a) = <<a>> /\ Append(<<a>>, b) = <<a, b>>
<1>1. <<a>> = Append(<<>>, a) /\ <<a, b>> = Append(<<a>>, b)
  OBVIOUS
<1>2. <<a>> \in Seq(S) /\ <<a, b>> \in Seq(S)
  BY <1>1, EmptySeq, AppendProperties
<1>3. <<a>> # <<>> /\ <<a, b>> # <<>>
  BY <1>1, <1>2, EmptySeq, AppendProperties
<1>4. Head(<<a>>) = a /\ Head(<<a, b>>) = a
  OBVIOUS
<1>5. Tail(<<a>>) = <<>> /\ Tail(<<a, b>>) = <<b>>
  OBVIOUS
<1>6. Append(<<a>>, b) = <<a>> \o <<b>>
  BY <1>2, AppendIsConcat
<1> QED
  BY <1>1, <1>2, <1>3, <1>4, <1>5, <1>6

LEMMA ClientInvInit ==
  Init => ClientInv
<1> SUFFICES ASSUME Init PROVE ClientInv
  OBVIOUS
<1>1. /\ log = <<>> /\ read = <<>> /\ page = NothingShown
      /\ conn = [Closed EXCEPT !.open = TRUE, !.queue = <<RunStarted>>]
      /\ client = [pc |-> "reading", position |-> 0, tries |-> 0, carried |-> FALSE]
  BY DEF Init
<1>2. RunStarted \in WireEvents /\ RunStarted \in Plain
  BY WireEventsAre
<1>3. /\ conn.open = TRUE /\ conn.queue = <<RunStarted>> /\ conn.after = 0 /\ conn.quiet = FALSE
      /\ conn.thinking = 0
      /\ conn = [open |-> TRUE, after |-> 0, thinking |-> 0, quiet |-> FALSE, queue |-> <<RunStarted>>]
  BY <1>1 DEF Closed
<1>4. <<RunStarted>> \in Seq(WireEvents)
  BY <1>2, ShortQueues
<1>5. ClientTypeOK
  <2> DEFINE q == <<RunStarted>>
  <2> HIDE DEF q
  <2>1. conn \in [open : BOOLEAN, after : Nat, thinking : Nat, quiet : BOOLEAN, queue : Seq(WireEvents)]
    BY <1>3, <1>4 DEF q
  <2>2. 0 \in 0..Retries
    BY RetriesAssumption
  <2> QED
    BY <1>1, <2>1, <2>2, EmptySeq DEF ClientTypeOK
<1>6. QueueInv
  BY <1>1, <1>2, <1>3 DEF QueueInv, MayWait, Settled
<1>7. log \in Seq(Doc) /\ Len(log) = 0 /\ DOMAIN read = 1..0
  BY <1>1, EmptySeq, LenProperties
<1>8. Once(read, log, client.position)
  <2>1. DOMAIN log = 1..0
    BY <1>1, <1>7, LenProperties
  <2> QED
    BY <1>7, <2>1 DEF Once, Contents, Numbered
<1>9. PageInv
  <2>1. page \in PageType /\ page.parts = <<>>
    BY <1>1, EmptySeq DEF NothingShown, PageType
  <2>2. TextOf(<<>>) = <<>> /\ Said(<<>>) = <<>> /\ IsPrefix(<<>>, <<>>)
    BY PagePartsHaveText, TextOfMore, SaidMore, Joining, Beginnings
  <2>3. SubSeq(log, 1, 0) = <<>> /\ 0 \in 0..Len(log) /\ Had(log, client.position, 0)
    BY <1>1, <1>7, SubSeqEmpty DEF Had
  <2> QED
    BY <2>1, <2>2, <2>3 DEF PageInv, Shows
<1>10. OverInv
  BY <1>1 DEF OverInv
<1> QED
  BY <1>5, <1>6, <1>8, <1>9, <1>10 DEF ClientInv

\* What a step of the runner leaves to the client: a log that goes on where it was, until the
\* turn has ended.
LogGoesOn ==
  /\ clientVars' = clientVars
  /\ Len(log) <= Len(log') /\ \A i \in 1..Len(log) : log'[i] = log[i]
  /\ turn # "active" => turn' = turn

LEMMA LongerLog ==
  ASSUME NEW S, NEW l \in Seq(S), NEW m,
         \/ m = l
         \/ \E d : m = Append(l, d)
         \/ \E d : m = l \o <<d>>
         \/ \E c, d : m = l \o <<c, d>>
  PROVE  Len(l) <= Len(m) /\ \A i \in 1..Len(l) : m[i] = l[i]
<1>1. Len(l) \in Nat
  BY LenProperties
<1>2. CASE m = l
  BY <1>1, <1>2
<1>3. CASE \E d : m = Append(l, d)
  <2>1. PICK d : m = Append(l, d)
    BY <1>3
  <2>2. l \in Seq(S \cup {d})
    BY SeqMonotonic
  <2> QED
    BY <1>1, <2>1, <2>2, AppendProperties
<1>4. ASSUME NEW T, NEW t \in Seq(T), m = l \o t
      PROVE  Len(l) <= Len(m) /\ \A i \in 1..Len(l) : m[i] = l[i]
  <2>1. l \in Seq(S \cup T) /\ t \in Seq(S \cup T) /\ Len(t) \in Nat
    BY SeqMonotonic, LenProperties
  <2>2. /\ Len(m) = Len(l) + Len(t)
        /\ \A i \in 1..Len(l) + Len(t) : m[i] = IF i <= Len(l) THEN l[i] ELSE t[i - Len(l)]
    BY <1>4, <2>1, ConcatProperties
  <2> QED
    BY <1>1, <2>1, <2>2
<1>5. CASE \E d : m = l \o <<d>>
  <2>1. PICK d : m = l \o <<d>>
    BY <1>5
  <2>2. <<d>> \in Seq({d})
    BY ShortQueues
  <2> QED
    BY <1>4, <2>1, <2>2
<1>6. CASE \E c, d : m = l \o <<c, d>>
  <2>1. PICK c, d : m = l \o <<c, d>>
    BY <1>6
  <2>2. <<c, d>> \in Seq({c, d})
    BY ShortQueues
  <2> QED
    BY <1>4, <2>1, <2>2
<1> QED
  BY <1>2, <1>3, <1>5, <1>6

LEMMA RunnerStepLeaves ==
  ASSUME RunnerInv, RunnerStep
  PROVE  LogGoesOn
<1>1. log \in Seq(Doc)
  BY DEF RunnerInv, LogInv
<1>2. clientVars' = clientVars
  BY DEF RunnerStep, RunnerStreams, RunnerEnds, Begin, Say, Think, WriteFails, Call, GiveArguments,
         CompleteCall, Result, Finish, Breaks, Stopped, EndsBadly, EngineFails, Cancelled, RunnerLost,
         EndsBare, ReaderReads, ReaderEnds
<1>3. /\ \/ log' = log
         \/ \E d : log' = Append(log, d)
         \/ \E d : log' = log \o <<d>>
         \/ \E c, d : log' = log \o <<c, d>>
      /\ turn # "active" => turn' = turn
  <2>1. CASE \E event, from, next : Writes(event, from, next) /\ turn' = turn
    BY <2>1 DEF Writes
  <2>2. CASE \E text \in Texts : WriteFails(text)
    BY <2>2 DEF WriteFails
  <2>3. ASSUME NEW state, NEW message, NEW e, EndTurn(state, message, <<e>>)
        PROVE  turn = "active" /\ \E d : log' = log \o <<d>>
    <3>1. [i \in DOMAIN <<e>> |-> Document(runner.position + i, <<e>>[i])]
            = <<Document(runner.position + 1, e)>>
      OBVIOUS
    <3> QED
      BY <2>3, <3>1 DEF EndTurn
  <2>4. ASSUME NEW state, NEW message, NEW e, NEW f, EndTurn(state, message, <<e, f>>)
        PROVE  turn = "active" /\ \E c, d : log' = log \o <<c, d>>
    <3>1. [i \in DOMAIN <<e, f>> |-> Document(runner.position + i, <<e, f>>[i])]
            = <<Document(runner.position + 1, e), Document(runner.position + 2, f)>>
      OBVIOUS
    <3> QED
      BY <2>4, <3>1 DEF EndTurn
  <2>5. CASE \E state : EndsBadly(state)
    BY <2>3, <2>5 DEF EndsBadly
  <2>6. CASE \E text : Finish(text)
    BY <2>4, <2>6 DEF Finish
  <2>7. CASE Cancelled
    BY <2>3, <2>7 DEF Cancelled
  <2>8. CASE EngineFails \/ RunnerLost \/ (\E state : EndsBare(state)) \/ ReaderReads \/ ReaderEnds
    BY <2>8 DEF EngineFails, RunnerLost, EndsBare, ReaderReads, ReaderEnds
  <2>9. RunnerStreams => \/ \E event, from, next : Writes(event, from, next) /\ turn' = turn
                         \/ \E text \in Texts : WriteFails(text)
    BY DEF RunnerStreams, Begin, Say, Think, Call, GiveArguments, CompleteCall, Result
  <2>10. RunnerEnds => (\E text : Finish(text)) \/ (\E state : EndsBadly(state))
    BY DEF RunnerEnds, Breaks, Stopped
  <2> QED
    BY <2>1, <2>2, <2>5, <2>6, <2>7, <2>8, <2>9, <2>10 DEF RunnerStep
<1> QED
  BY <1>1, <1>2, <1>3, LongerLog DEF LogGoesOn

LEMMA ClientAfterRunner ==
  ASSUME RunnerInv, RunnerInv', ClientInv, RunnerStep
  PROVE  ClientInv'
<1>1. /\ log \in Seq(Doc) /\ Ordered(log) /\ log' \in Seq(Doc) /\ Ordered(log')
  BY DEF RunnerInv, LogInv
<1>2. /\ Len(log) <= Len(log') /\ \A i \in 1..Len(log) : log'[i] = log[i]
      /\ turn # "active" => turn' = turn
      /\ conn' = conn /\ client' = client /\ read' = read /\ page' = page
  BY RunnerStepLeaves DEF LogGoesOn, clientVars
<1>3. /\ Len(log) \in Nat /\ Len(log') \in Nat /\ DOMAIN log = 1..Len(log) /\ DOMAIN log' = 1..Len(log')
  BY <1>1, LenProperties
<1>4. 0..Len(log) \subseteq 0..Len(log') /\ 1..Len(log) \subseteq 1..Len(log')
  BY <1>2, <1>3
<1>5. ASSUME NEW p, NEW k, Had(log, p, k) PROVE Had(log', p, k)
  <2>1. k # 0 => k \in 1..Len(log)
    BY <1>3, <1>5 DEF Had
  <2> QED
    BY <1>2, <1>4, <1>5, <2>1 DEF Had
<1>6. PICK k \in 0..Len(log) : Had(log, client.position, k) /\ Shows(page, SubSeq(log, 1, k))
  BY DEF ClientInv, PageInv
<1>7. Once(read, log', client.position)
  <2>1. \A i \in 1..Len(log') : log'[i].position <= client.position => i \in 1..Len(log)
    <3>1. \A i \in 1..Len(log') : log'[i].position <= client.position <=> i <= k
      BY <1>1, <1>5, <1>6, PositionsCount
    <3> QED
      BY <1>3, <1>6, <3>1
  <2>2. /\ Numbered(log', client.position) = Numbered(log, client.position)
        /\ \A i \in Numbered(log, client.position) : log'[i] = log[i]
    BY <1>2, <1>3, <1>4, <2>1 DEF Numbered
  <2>3. Once(read, log, client.position)
    BY DEF ClientInv
  <2> QED
    BY <2>2, <2>3 DEF Once
<1>8. PageInv'
  <2>1. SubSeq(log', 1, k) = SubSeq(log, 1, k)
    BY <1>1, <1>2, SameStart
  <2>2. k \in 0..Len(log') /\ Had(log', client.position, k)
    BY <1>4, <1>5, <1>6
  <2> QED
    BY <1>2, <1>6, <2>1, <2>2 DEF PageInv
<1>9. ASSUME NEW w, MayWait(w) PROVE MayWait(w)'
  <2>1. Settled' <=> Settled
    BY <1>2 DEF Settled
  <2>2. CASE \E i \in 1..Len(log) : /\ log[i].position <= client.position /\ log[i].kind # "turn_ended"
                                    /\ w \in SentAs(log[i])
    <3>1. PICK i \in 1..Len(log) : /\ log[i].position <= client.position /\ log[i].kind # "turn_ended"
                                   /\ w \in SentAs(log[i])
      BY <2>2
    <3>2. i \in 1..Len(log') /\ log'[i] = log[i]
      BY <1>2, <1>4
    <3>3. CASE Settled
      BY <1>2, <2>1, <3>1, <3>2, <3>3 DEF MayWait
    <3>4. CASE ~Settled
      <4>1. PICK j \in 1..Len(log) : /\ Had(log, client.position, j - 1) /\ conn.after = log[j].position
                                     /\ w \in SentAs(log[j])
        BY <1>9, <3>4 DEF MayWait
      <4>2. j \in 1..Len(log') /\ log'[j] = log[j] /\ Had(log', client.position, j - 1)
        BY <1>2, <1>4, <1>5, <4>1
      <4> QED
        BY <1>2, <4>1, <4>2 DEF MayWait
    <3> QED
      BY <3>3, <3>4
  <2>3. CASE \E j \in 1..Len(log) : /\ Had(log, client.position, j - 1) /\ conn.after = log[j].position
                                    /\ w \in SentAs(log[j])
    <3>1. PICK j \in 1..Len(log) : /\ Had(log, client.position, j - 1) /\ conn.after = log[j].position
                                   /\ w \in SentAs(log[j])
      BY <2>3
    <3>2. j \in 1..Len(log') /\ log'[j] = log[j] /\ Had(log', client.position, j - 1)
      BY <1>2, <1>4, <1>5, <3>1
    <3> QED
      BY <1>2, <3>1, <3>2 DEF MayWait
  <2>4. CASE Settled /\ w \in Plain
    BY <2>1, <2>4 DEF MayWait
  <2>5. CASE Settled /\ turn # "active" /\ w = TerminalOf(turn, conn.after)
    BY <1>2, <2>1, <2>5 DEF MayWait
  <2> QED
    BY <1>9, <2>2, <2>3, <2>4, <2>5 DEF MayWait
<1>10. QueueInv'
  BY <1>2, <1>9 DEF ClientInv, QueueInv, Settled
<1>11. ClientTypeOK' /\ OverInv'
  BY <1>2 DEF ClientInv, ClientTypeOK, OverInv
<1> QED
  BY <1>2, <1>7, <1>8, <1>10, <1>11 DEF ClientInv

\* A step that gives the page nothing and leaves the client where it is.
LEMMA NothingRead ==
  ASSUME ClientInv, UNCHANGED runnerVars, read' = read, page' = page,
         conn' \in [open : BOOLEAN, after : Nat, thinking : Nat, quiet : BOOLEAN,
                    queue : Seq(WireEvents)],
         client' \in [pc : {"reading", "opening", "over", "lost"}, position : Nat,
                      tries : 0..Retries, carried : BOOLEAN],
         client'.position = client.position, client'.pc = "over" => client.pc = "over", QueueInv'
  PROVE  ClientInv'
<1>1. log' = log /\ turn' = turn
  BY DEF runnerVars
<1>2. ClientTypeOK' /\ OverInv'
  BY <1>1 DEF ClientInv, ClientTypeOK, OverInv
<1>3. Once(read, log, client.position)' /\ PageInv'
  BY <1>1 DEF ClientInv, PageInv
<1> QED
  BY <1>2, <1>3 DEF ClientInv

\* What is derived of an event: the event as it is sent, and a stretch's end before it at most.
LEMMA DerivedIs ==
  ASSUME NEW thinking \in Nat, NEW event, NEW position \in Nat
  PROVE  /\ ThinkingAfter(thinking, event, position) \in Nat
         /\ \E stretch \in Nat :
              LET w == IF event.kind = "reasoning_piece"
                       THEN [type |-> "REASONING_MESSAGE_CONTENT", id |-> position,
                             body |-> [stretch |-> stretch, text |-> event.body.text]]
                       ELSE [Mapped(event) EXCEPT !.id = position]
              IN  \/ Derived(thinking, event, position) = <<w>>
                  \/ \E b \in Plain : Derived(thinking, event, position) = <<b, w>>
<1> DEFINE stretch == IF thinking = 0 THEN position ELSE thinking
           w == IF event.kind = "reasoning_piece"
                THEN [type |-> "REASONING_MESSAGE_CONTENT", id |-> position,
                      body |-> [stretch |-> stretch, text |-> event.body.text]]
                ELSE [Mapped(event) EXCEPT !.id = position]
           start == Wire("REASONING_MESSAGE_START", [stretch |-> stretch])
           end == Wire("REASONING_MESSAGE_END", [stretch |-> thinking])
           last == IF event.kind = "reasoning_piece"
                   THEN Wire("REASONING_MESSAGE_CONTENT",
                            [stretch |-> stretch, text |-> event.body.text])
                   ELSE Mapped(event)
<1>1. stretch \in Nat /\ ThinkingAfter(thinking, event, position) \in Nat
  BY DEF ThinkingAfter
<1>2. [last EXCEPT !.id = position] = w
  BY DEF Wire
<1>3. start \in Plain /\ end \in Plain
  <2> HIDE DEF stretch
  <2> QED
    BY <1>1 DEF Plain, Edges, Wire
<1>4. Derived(thinking, event, position)
        = Append(IF event.kind = "reasoning_piece" /\ thinking = 0 THEN <<start>>
                 ELSE IF event.kind # "reasoning_piece" /\ thinking # 0 THEN <<end>> ELSE <<>>, w)
  BY <1>2 DEF Derived
<1> HIDE DEF w, start, end, last
<1>5. ASSUME NEW a, NEW b PROVE Append(<<a>>, b) = <<a, b>> /\ Append(<<>>, b) = <<b>>
  <2>1. a \in {a, b} /\ b \in {a, b}
    OBVIOUS
  <2> QED
    BY <2>1, ShortQueues
<1>6. \/ Derived(thinking, event, position) = <<w>>
      \/ Derived(thinking, event, position) = <<start, w>>
      \/ Derived(thinking, event, position) = <<end, w>>
  BY <1>4, <1>5
<1>7. \/ Derived(thinking, event, position) = <<w>>
      \/ \E b \in Plain : Derived(thinking, event, position) = <<b, w>>
  BY <1>3, <1>6
<1> QED
  BY <1>1, <1>7 DEF w

LEMMA ClientAfterSends ==
  ASSUME RunnerInv, ClientInv, SendNext \/ ReadRecord
  PROVE  ClientInv'
<1>1. /\ log \in Seq(Doc) /\ Ordered(log) /\ turn \in {"active"} \cup Ends
  BY DEF RunnerInv, LogInv, RunnerTypeOK
<1>2. /\ UNCHANGED runnerVars /\ client' = client /\ read' = read /\ page' = page
      /\ log' = log /\ turn' = turn
      /\ conn \in [open : BOOLEAN, after : Nat, thinking : Nat, quiet : BOOLEAN,
                   queue : Seq(WireEvents)]
      /\ client \in [pc : {"reading", "opening", "over", "lost"}, position : Nat,
                     tries : 0..Retries, carried : BOOLEAN]
      /\ conn.open /\ QueueInv
  BY DEF SendNext, ReadRecord, ClientInv, ClientTypeOK, runnerVars
<1>3. \A w : <<w>> # <<>> /\ \A b : <<b, w>> # <<>>
  BY ShortQueues
<1>4. conn.queue = <<>> /\ Settled
  BY <1>2, <1>3 DEF QueueInv, SendNext, ReadRecord
<1>5. ASSUME NEW event, NEW position \in Nat, NEW w \in WireEvents, Sends(event, position),
             \/ Derived(conn.thinking, event, position) = <<w>>
             \/ \E b \in Plain : Derived(conn.thinking, event, position) = <<b, w>>,
             MayWait(w)'
      PROVE  ClientInv'
  <2> DEFINE queue == Derived(conn.thinking, event, position)
             thinking == ThinkingAfter(conn.thinking, event, position)
  <2>1. thinking \in Nat
    BY <1>2, DerivedIs
  <2>2. queue \in Seq(WireEvents)
    BY <1>5, WireEventsAre, ShortQueues
  <2>3. conn' = [conn EXCEPT !.after = position, !.quiet = FALSE, !.thinking = thinking,
                             !.queue = queue]
    BY <1>5 DEF Sends
  <2>4. queue = <<w>> \/ \E b \in Plain : queue = <<b, w>>
    BY <1>5
  <2> HIDE DEF queue, thinking
  <2>5. /\ conn' \in [open : BOOLEAN, after : Nat, thinking : Nat, quiet : BOOLEAN,
                      queue : Seq(WireEvents)]
        /\ conn'.queue = queue /\ conn'.quiet = FALSE
    BY <1>2, <2>1, <2>2, <2>3
  <2>6. QueueInv'
    BY <1>5, <2>4, <2>5 DEF QueueInv
  <2> QED
    BY <1>2, <2>5, <2>6, NothingRead
<1>6. CASE SendNext
  <2>1. PICK i \in After(conn.after) :
               /\ \A j \in After(conn.after) : i <= j
               /\ Sends(EventFromDocument(log[i]), log[i].position)
    BY <1>6 DEF SendNext
  <2>2. PICK k \in 0..Len(log) : Had(log, client.position, k)
    BY DEF ClientInv, PageInv
  <2>3. /\ Len(log) \in Nat /\ DOMAIN log = 1..Len(log)
        /\ \A j \in 1..Len(log) : log[j] \in Doc /\ log[j].position \in Nat
        /\ client.position \in Nat
        /\ \A j \in 1..Len(log) : log[j].position <= client.position <=> j <= k
    BY <1>1, <2>2, PositionsCount
  <2>4. After(conn.after) = {j \in 1..Len(log) : k < j}
    <3>1. \A j \in 1..Len(log) : log[j].position > client.position <=> k < j
      BY <2>2, <2>3
    <3> QED
      BY <1>4, <2>3, <3>1 DEF After, Settled
  <2>5. i \in 1..Len(log) /\ k = i - 1
    <3>1. i \in 1..Len(log) /\ k < i
      BY <2>4
    <3>2. k + 1 \in After(conn.after)
      BY <2>2, <2>3, <2>4, <3>1
    <3>3. i <= k + 1
      BY <2>1, <3>2
    <3> QED
      BY <2>2, <3>1, <3>3
  <2> DEFINE d == log[i]
  <2>6. d \in Doc /\ d.position \in Nat /\ conn.thinking \in Nat
    BY <1>2, <2>3, <2>5
  <2> DEFINE event == EventFromDocument(d)
  <2>7. event.kind = d.kind /\ event.body = d.body
    BY DEF EventFromDocument, Event
  <2> HIDE DEF d, event
  <2>8. PICK stretch \in Nat :
               \/ Derived(conn.thinking, event, d.position) = <<ContentOf(d, stretch)>>
               \/ \E b \in Plain : Derived(conn.thinking, event, d.position)
                                     = <<b, ContentOf(d, stretch)>>
    <3>1. PICK stretch \in Nat :
            LET w == IF event.kind = "reasoning_piece"
                     THEN [type |-> "REASONING_MESSAGE_CONTENT", id |-> d.position,
                           body |-> [stretch |-> stretch, text |-> event.body.text]]
                     ELSE [Mapped(event) EXCEPT !.id = d.position]
            IN  \/ Derived(conn.thinking, event, d.position) = <<w>>
                \/ \E b \in Plain : Derived(conn.thinking, event, d.position) = <<b, w>>
      BY <2>6, DerivedIs
    <3>2. ContentOf(d, stretch)
            = IF event.kind = "reasoning_piece"
              THEN [type |-> "REASONING_MESSAGE_CONTENT", id |-> d.position,
                    body |-> [stretch |-> stretch, text |-> event.body.text]]
              ELSE [Mapped(event) EXCEPT !.id = d.position]
      BY <2>7 DEF ContentOf, event
    <3> QED
      BY <3>1, <3>2
  <2>9. ContentOf(d, stretch) \in SentAs(d)
    BY DEF SentAs
  <2>10. ContentOf(d, stretch) \in WireEvents
    BY <2>6, <2>9, WireEventsAre
  <2>11. conn'.after = d.position
    BY <1>2, <2>1 DEF Sends, d
  <2>12. PICK w \in WireEvents : w = ContentOf(d, stretch)
    BY <2>10
  <2>13. MayWait(w)'
    BY <1>2, <2>2, <2>5, <2>9, <2>11, <2>12 DEF MayWait, d
  <2>14. Sends(event, d.position)
    BY <2>1 DEF d, event
  <2> QED
    BY <1>5, <2>6, <2>8, <2>12, <2>13, <2>14
<1>7. CASE ReadRecord /\ turn = "active"
  <2>1. conn' = [conn EXCEPT !.quiet = FALSE]
    BY <1>7 DEF ReadRecord
  <2>2. /\ conn' \in [open : BOOLEAN, after : Nat, thinking : Nat, quiet : BOOLEAN,
                      queue : Seq(WireEvents)]
        /\ conn'.queue = conn.queue /\ conn'.after = conn.after
    BY <1>2, <2>1
  <2>3. QueueInv'
    BY <1>2, <1>4, <2>2 DEF QueueInv, Settled
  <2> QED
    BY <1>2, <2>2, <2>3, NothingRead
<1>8. CASE ReadRecord /\ turn # "active"
  <2>1. /\ Sends(TurnEnded(turn), conn.after) /\ turn \in Ends
        /\ conn.after \in Nat /\ conn.thinking \in Nat
    BY <1>1, <1>2, <1>8 DEF ReadRecord
  <2>2. TurnEnded(turn).kind = "turn_ended"
    BY DEF TurnEnded, Event
  <2>3. \/ Derived(conn.thinking, TurnEnded(turn), conn.after) = <<TerminalOf(turn, conn.after)>>
        \/ \E b \in Plain : Derived(conn.thinking, TurnEnded(turn), conn.after)
                              = <<b, TerminalOf(turn, conn.after)>>
    BY <2>1, <2>2, DerivedIs DEF TerminalOf
  <2>4. PICK w \in WireEvents : w = TerminalOf(turn, conn.after)
    BY <2>1, WireEventsAre
  <2>5. conn'.after = conn.after
    BY <1>2, <2>1 DEF Sends
  <2>6. MayWait(w)'
    BY <1>2, <1>4, <1>8, <2>4, <2>5 DEF MayWait, Settled
  <2> QED
    BY <1>5, <2>1, <2>3, <2>4, <2>6
<1> QED
  BY <1>6, <1>7, <1>8

\* The record is read next, the stream is cut, or the client has another try or none.
LEMMA ClientAfterQuiet ==
  ASSUME RunnerInv, ClientInv, FindNothing \/ Cut \/ Retry \/ ReopenFails
  PROVE  ClientInv'
<1>1. /\ conn \in [open : BOOLEAN, after : Nat, thinking : Nat, quiet : BOOLEAN,
                   queue : Seq(WireEvents)]
      /\ client \in [pc : {"reading", "opening", "over", "lost"}, position : Nat,
                     tries : 0..Retries, carried : BOOLEAN]
      /\ QueueInv
  BY DEF ClientInv, ClientTypeOK
<1>2. CASE FindNothing
  <2>1. /\ UNCHANGED runnerVars /\ client' = client /\ read' = read /\ page' = page
        /\ conn' = [conn EXCEPT !.quiet = TRUE] /\ conn.open /\ conn.queue = <<>>
    BY <1>2 DEF FindNothing
  <2>2. conn.queue = <<>> /\ Settled
    <3>1. \A w : <<w>> # <<>> /\ \A b : <<b, w>> # <<>>
      BY ShortQueues
    <3> QED
      BY <1>1, <2>1, <3>1 DEF QueueInv
  <2>3. /\ conn' \in [open : BOOLEAN, after : Nat, thinking : Nat, quiet : BOOLEAN,
                      queue : Seq(WireEvents)]
        /\ conn'.queue = conn.queue /\ conn'.after = conn.after
    BY <1>1, <2>1
  <2>4. QueueInv'
    BY <2>1, <2>2, <2>3 DEF QueueInv, Settled
  <2> QED
    BY <1>1, <2>1, <2>3, <2>4, NothingRead
<1>3. CASE Cut
  <2>1. /\ UNCHANGED runnerVars /\ client' = client /\ read' = read /\ page' = page
        /\ conn' = [open |-> FALSE, after |-> 0, thinking |-> 0, quiet |-> FALSE, queue |-> <<>>]
    BY <1>3 DEF Cut, Closed
  <2>2. /\ conn' \in [open : BOOLEAN, after : Nat, thinking : Nat, quiet : BOOLEAN,
                      queue : Seq(WireEvents)]
        /\ conn'.open = FALSE
    BY <2>1, EmptySeq
  <2>3. QueueInv'
    BY <2>2 DEF QueueInv
  <2> QED
    BY <1>1, <2>1, <2>2, <2>3, NothingRead
<1>4. CASE Retry
  <2> DEFINE tries == IF client.carried THEN 0 ELSE client.tries
  <2>1. tries \in 0..Retries /\ Retries \in Nat
    BY <1>1, RetriesAssumption
  <2>2. /\ UNCHANGED runnerVars /\ conn' = conn /\ read' = read /\ page' = page /\ ~conn.open
        /\ client' = IF tries >= Retries THEN [client EXCEPT !.pc = "lost", !.tries = tries]
                     ELSE [client EXCEPT !.pc = "opening", !.tries = tries + 1, !.carried = FALSE]
    BY <1>4 DEF Retry
  <2> HIDE DEF tries
  <2>3. /\ client' \in [pc : {"reading", "opening", "over", "lost"}, position : Nat,
                        tries : 0..Retries, carried : BOOLEAN]
        /\ client'.position = client.position /\ client'.pc # "over"
    <3>1. CASE tries >= Retries
      <4>1. client' = [client EXCEPT !.pc = "lost", !.tries = tries]
        BY <2>2, <3>1
      <4> QED
        BY <1>1, <2>1, <4>1
    <3>2. CASE ~(tries >= Retries)
      <4>1. client' = [client EXCEPT !.pc = "opening", !.tries = tries + 1, !.carried = FALSE]
        BY <2>2, <3>2
      <4>2. tries + 1 \in 0..Retries
        BY <2>1, <3>2
      <4> QED
        BY <1>1, <4>1, <4>2
    <3> QED
      BY <3>1, <3>2
  <2>4. QueueInv'
    BY <2>2 DEF QueueInv
  <2> QED
    BY <1>1, <2>2, <2>3, <2>4, NothingRead
<1>5. CASE ReopenFails
  <2>1. /\ UNCHANGED runnerVars /\ conn' = conn /\ read' = read /\ page' = page
        /\ client' = [client EXCEPT !.pc = "reading"]
    BY <1>5 DEF ReopenFails
  <2>2. /\ client' \in [pc : {"reading", "opening", "over", "lost"}, position : Nat,
                        tries : 0..Retries, carried : BOOLEAN]
        /\ client'.position = client.position /\ client'.pc # "over"
    BY <1>1, <2>1
  <2>3. QueueInv'
    <3>1. \A w : MayWait(w)' <=> MayWait(w)
      BY <2>1, <2>2 DEF MayWait, Settled, runnerVars
    <3> QED
      BY <1>1, <2>1, <2>2, <3>1 DEF QueueInv, Settled
  <2> QED
    BY <1>1, <2>1, <2>2, <2>3, NothingRead
<1> QED
  BY <1>2, <1>3, <1>4, <1>5

\* A stream that is opened again begins with its own event, and one that is sent again at most.
LEMMA ClientAfterReopen ==
  ASSUME RunnerInv, ClientInv, NEW replayed \in Replayed, Reopen(replayed)
  PROVE  ClientInv'
<1>1. /\ client \in [pc : {"reading", "opening", "over", "lost"}, position : Nat,
                     tries : 0..Retries, carried : BOOLEAN]
      /\ log \in Seq(Doc) /\ DOMAIN log = 1..Len(log)
  BY LenProperties DEF ClientInv, ClientTypeOK, RunnerInv, LogInv
<1> DEFINE queue == <<RunStarted>> \o replayed
<1>2. /\ UNCHANGED runnerVars /\ read' = read /\ page' = page
      /\ client' = [client EXCEPT !.pc = "reading"]
      /\ conn' = [open |-> TRUE, after |-> client.position, thinking |-> 0, quiet |-> FALSE,
                  queue |-> queue]
  BY DEF Reopen, Closed
<1>3. /\ client' \in [pc : {"reading", "opening", "over", "lost"}, position : Nat,
                      tries : 0..Retries, carried : BOOLEAN]
      /\ client'.position = client.position /\ client'.pc # "over"
  BY <1>1, <1>2
<1>4. RunStarted \in WireEvents /\ RunStarted \in Plain
  BY WireEventsAre
<1>5. log' = log
  BY <1>2 DEF runnerVars
<1>6. \E w \in WireEvents :
        /\ queue = <<w>> \/ \E b \in Plain : queue = <<b, w>>
        /\ \/ w \in Plain
           \/ \E i \in 1..Len(log) : /\ log[i].position <= client.position
                                     /\ log[i].kind # "turn_ended" /\ w \in SentAs(log[i])
  <2>1. CASE replayed = <<>>
    <3>1. <<RunStarted>> \in Seq(WireEvents)
      BY <1>4, ShortQueues
    <3>2. queue = <<RunStarted>>
      BY <2>1, <3>1, ConcatEmptySeq
    <3> QED
      BY <1>4, <3>2
  <2>2. CASE replayed # <<>>
    <3>1. PICK i \in 1..Len(log) :
            /\ log[i].position <= client.position
            /\ log[i].kind \notin {"reasoning_piece", "turn_ended"}
            /\ replayed = <<[Mapped(EventFromDocument(log[i])) EXCEPT !.id = log[i].position]>>
      BY <1>1, <2>2 DEF Replayed
    <3> DEFINE d == log[i]
               w == ContentOf(d, 0)
    <3>2. d \in Doc
      BY <1>1, ElementOfSeq
    <3>3. w = [Mapped(EventFromDocument(d)) EXCEPT !.id = d.position]
      BY <3>1 DEF ContentOf
    <3>4. replayed = <<w>>
      BY <3>1, <3>3
    <3> HIDE DEF d, w
    <3>5. w \in SentAs(d)
      BY DEF SentAs, w
    <3>6. w \in WireEvents
      BY <3>2, <3>5, WireEventsAre
    <3>7. queue = <<RunStarted, w>>
      BY <1>4, <3>4, <3>6, ShortQueues
    <3> QED
      BY <1>4, <3>1, <3>5, <3>6, <3>7 DEF d
  <2> QED
    BY <2>1, <2>2
<1>7. queue \in Seq(WireEvents)
  <2>1. PICK w \in WireEvents : queue = <<w>> \/ \E b \in Plain : queue = <<b, w>>
    BY <1>6
  <2> HIDE DEF queue
  <2> QED
    BY <2>1, WireEventsAre, ShortQueues
<1> HIDE DEF queue
<1>8. conn' \in [open : BOOLEAN, after : Nat, thinking : Nat, quiet : BOOLEAN,
                 queue : Seq(WireEvents)]
  BY <1>1, <1>2, <1>7
<1>9. QueueInv'
  <2>1. /\ conn'.quiet = FALSE /\ conn'.queue = queue /\ conn'.after = client'.position
    BY <1>2, <1>3
  <2>2. PICK w \in WireEvents :
          /\ queue = <<w>> \/ \E b \in Plain : queue = <<b, w>>
          /\ \/ w \in Plain
             \/ \E i \in 1..Len(log) : /\ log[i].position <= client.position
                                       /\ log[i].kind # "turn_ended" /\ w \in SentAs(log[i])
    BY <1>6
  <2>3. MayWait(w)'
    BY <1>3, <1>5, <2>1, <2>2 DEF MayWait, Settled
  <2> QED
    BY <2>1, <2>2, <2>3 DEF QueueInv
<1> QED
  BY <1>2, <1>3, <1>8, <1>9, NothingRead

\* What the delivery of an event does to the connection, whatever the event.
LEMMA ConnectionGoesOn ==
  ASSUME ClientInv, Deliver, NEW w, w = Head(conn.queue), NEW rest \in Seq(WireEvents),
         rest = Tail(conn.queue)
  PROVE  /\ conn' \in [open : BOOLEAN, after : Nat, thinking : Nat, quiet : BOOLEAN,
                       queue : Seq(WireEvents)]
         /\ IsTerminal(w) => ~conn'.open
         /\ ~IsTerminal(w) => /\ conn'.after = conn.after /\ conn'.queue = rest
                              /\ conn'.quiet = FALSE
         /\ client.pc = "reading" /\ log' = log /\ turn' = turn
<1>1. /\ conn \in [open : BOOLEAN, after : Nat, thinking : Nat, quiet : BOOLEAN,
                   queue : Seq(WireEvents)]
      /\ client.pc = "reading" /\ conn.open /\ conn.queue # <<>> /\ log' = log /\ turn' = turn
  BY DEF ClientInv, ClientTypeOK, Deliver, runnerVars
<1>2. conn.quiet = FALSE
  BY <1>1 DEF ClientInv, QueueInv
<1>3. conn' = IF IsTerminal(w) THEN Closed ELSE [conn EXCEPT !.queue = rest]
  BY DEF Deliver
<1>4. CASE IsTerminal(w)
  <2>1. conn' = [open |-> FALSE, after |-> 0, thinking |-> 0, quiet |-> FALSE, queue |-> <<>>]
    BY <1>3, <1>4 DEF Closed
  <2> QED
    BY <1>1, <1>4, <2>1, EmptySeq
<1>5. CASE ~IsTerminal(w)
  <2>1. conn' = [conn EXCEPT !.queue = rest]
    BY <1>3, <1>5
  <2> QED
    BY <1>1, <1>2, <1>5, <2>1
<1> QED
  BY <1>4, <1>5

\* What the delivery of an event the client has not had does to the client and the page.
LEMMA ClientTakes ==
  ASSUME ClientInv, Deliver, NEW w \in WireEvents, w = Head(conn.queue), w.id \in Nat,
         ~Skips(w, client.position)
  PROVE  /\ client' \in [pc : {"reading", "opening", "over", "lost"}, position : Nat,
                         tries : 0..Retries, carried : BOOLEAN]
         /\ client'.position = IF w.id > client.position THEN w.id ELSE client.position
         /\ client'.pc = IF IsTerminal(w) THEN "over" ELSE "reading"
         /\ page' = Applied(page, w) /\ read' = IF w = RunStarted THEN read ELSE Append(read, w)
         /\ read \in Seq(WireEvents) /\ read' \in Seq(WireEvents)
<1>1. /\ client \in [pc : {"reading", "opening", "over", "lost"}, position : Nat,
                     tries : 0..Retries, carried : BOOLEAN]
      /\ read \in Seq(WireEvents)
  BY DEF ClientInv, ClientTypeOK
<1>2. /\ read' = IF w = RunStarted THEN read ELSE Append(read, w)
      /\ page' = Applied(page, w) /\ client.pc = "reading"
      /\ client' = [client EXCEPT
           !.position = IF w.id > client.position THEN w.id ELSE client.position,
           !.carried = client.carried \/ Carries(w, client.position),
           !.pc = IF IsTerminal(w) THEN "over" ELSE client.pc]
  BY DEF Deliver
<1>3. (client.carried \/ Carries(w, client.position)) \in BOOLEAN
  BY DEF Carries
<1>4. (IF IsTerminal(w) THEN "over" ELSE client.pc) \in {"reading", "over"}
  BY <1>2
<1>5. (IF w.id > client.position THEN w.id ELSE client.position) \in Nat
  BY <1>1
<1>6. read' \in Seq(WireEvents)
  BY <1>1, <1>2, AppendProperties
<1> QED
  BY <1>1, <1>2, <1>3, <1>4, <1>5, <1>6

\* The stream's beginning, or one end of a stretch.
LEMMA TakesPlain ==
  ASSUME RunnerInv, ClientInv, Deliver, NEW w \in Plain, w = Head(conn.queue),
         \/ Tail(conn.queue) = <<>> /\ Settled
         \/ \E v \in WireEvents : MayWait(v) /\ Tail(conn.queue) = <<v>>
  PROVE  ClientInv'
<1> DEFINE rest == Tail(conn.queue)
<1>1. rest \in Seq(WireEvents)
  BY EmptySeq, ShortQueues
<1> HIDE DEF rest
<1>2. /\ w \in WireEvents /\ w.id = 0 /\ ~IsTerminal(w) /\ (w # RunStarted => w.type \in Edges)
      /\ ~Skips(w, client.position) /\ client.position \in Nat
  BY WireEventsAre, PlainIs DEF Skips, ClientInv, ClientTypeOK
<1>3. /\ conn' \in [open : BOOLEAN, after : Nat, thinking : Nat, quiet : BOOLEAN,
                    queue : Seq(WireEvents)]
      /\ conn'.after = conn.after /\ conn'.queue = rest /\ conn'.quiet = FALSE
      /\ log' = log /\ turn' = turn
  BY <1>1, <1>2, ConnectionGoesOn DEF rest
<1>4. /\ client' \in [pc : {"reading", "opening", "over", "lost"}, position : Nat,
                      tries : 0..Retries, carried : BOOLEAN]
      /\ client'.position = client.position /\ client'.pc = "reading"
      /\ page' = Applied(page, w) /\ read' = IF w = RunStarted THEN read ELSE Append(read, w)
      /\ read \in Seq(WireEvents) /\ read' \in Seq(WireEvents)
  BY <1>2, ClientTakes
<1>5. ClientTypeOK' /\ OverInv'
  BY <1>3, <1>4 DEF ClientTypeOK, OverInv
<1>6. QueueInv'
  <2>1. CASE rest = <<>> /\ Settled
    BY <1>3, <1>4, <2>1 DEF QueueInv, Settled
  <2>2. CASE \E v \in WireEvents : MayWait(v) /\ rest = <<v>>
    <3>1. PICK v \in WireEvents : MayWait(v) /\ rest = <<v>>
      BY <2>2
    <3>2. MayWait(v)'
      BY <1>3, <1>4, <3>1 DEF MayWait, Settled
    <3> QED
      BY <1>3, <3>1, <3>2 DEF QueueInv
  <2> QED
    BY <2>1, <2>2 DEF rest
<1>7. Once(read, log, client.position)'
  <2>1. Once(read, log, client.position)
    BY DEF ClientInv
  <2>2. CASE w = RunStarted
    BY <1>3, <1>4, <2>1, <2>2
  <2>3. CASE w # RunStarted
    <3>1. Once(Append(read, w), log, client.position)
      BY <1>2, <1>4, <2>1, <2>3, OnceStill
    <3> QED
      BY <1>3, <1>4, <2>3, <3>1
  <2> QED
    BY <2>2, <2>3
<1>8. PageInv'
  <2>1. PICK k \in 0..Len(log) : Had(log, client.position, k) /\ Shows(page, SubSeq(log, 1, k))
    BY DEF ClientInv, PageInv
  <2>2. page \in PageType
    BY <2>1 DEF Shows
  <2>3. Shows(Applied(page, w), SubSeq(log, 1, k))
    BY <2>1, <2>2, AppliedPlain, ShowsStill
  <2> QED
    BY <1>3, <1>4, <2>1, <2>3 DEF PageInv
<1> QED
  BY <1>5, <1>6, <1>7, <1>8 DEF ClientInv

\* One the client has had, sent again: it is passed over.
LEMMA TakesAgain ==
  ASSUME RunnerInv, ClientInv, Deliver, Tail(conn.queue) = <<>>, Settled, NEW i \in 1..Len(log),
         log[i].position <= client.position, log[i].kind # "turn_ended",
         NEW w \in SentAs(log[i]), w = Head(conn.queue)
  PROVE  ClientInv'
<1>1. log \in Seq(Doc) /\ Ordered(log)
  BY DEF RunnerInv, LogInv
<1>2. log[i] \in Doc /\ log[i].position \in Nat \ {0}
  BY <1>1, PositionsCount
<1>3. ~IsTerminal(w) /\ w.id = log[i].position
  BY <1>2, SentIs
<1>4. Skips(w, client.position)
  BY <1>2, <1>3 DEF Skips
<1>5. UNCHANGED runnerVars /\ client' = client /\ read' = read /\ page' = page
  BY <1>4 DEF Deliver
<1>6. /\ conn' \in [open : BOOLEAN, after : Nat, thinking : Nat, quiet : BOOLEAN,
                    queue : Seq(WireEvents)]
      /\ conn'.after = conn.after /\ conn'.queue = <<>> /\ conn'.quiet = FALSE
  BY <1>3, EmptySeq, ConnectionGoesOn
<1>7. QueueInv'
  BY <1>5, <1>6 DEF QueueInv, Settled
<1>8. client \in [pc : {"reading", "opening", "over", "lost"}, position : Nat,
                  tries : 0..Retries, carried : BOOLEAN]
  BY DEF ClientInv, ClientTypeOK
<1> QED
  BY <1>5, <1>6, <1>7, <1>8, NothingRead

\* The document after those the client has had.
LEMMA TakesNext ==
  ASSUME RunnerInv, ClientInv, Deliver, Tail(conn.queue) = <<>>, NEW k \in 1..Len(log),
         Had(log, client.position, k - 1), conn.after = log[k].position,
         NEW w \in SentAs(log[k]), w = Head(conn.queue)
  PROVE  ClientInv'
<1> DEFINE d == log[k]
<1>1. log \in Seq(Doc) /\ Ordered(log)
  BY DEF RunnerInv, LogInv
<1>2. /\ d \in Doc /\ d.position \in Nat \ {0} /\ client.position \in Nat /\ Len(log) \in Nat
      /\ DOMAIN log = 1..Len(log)
      /\ \A j \in 1..Len(log) : log[j].position <= client.position <=> j <= k - 1
  BY <1>1, PositionsCount
<1>3. d.position > client.position
  BY <1>2
<1>4. /\ w.id = d.position /\ w \in WireEvents /\ w # RunStarted
      /\ IsTerminal(w) <=> d.kind = "turn_ended"
      /\ \A key \in DOMAIN d.body : w.body[key] = d.body[key]
  BY <1>2, SentIs, WireEventsAre
<1>5. ~Skips(w, client.position)
  BY <1>2, <1>3, <1>4 DEF Skips
<1>6. /\ conn' \in [open : BOOLEAN, after : Nat, thinking : Nat, quiet : BOOLEAN,
                    queue : Seq(WireEvents)]
      /\ IsTerminal(w) => ~conn'.open
      /\ ~IsTerminal(w) => conn'.after = conn.after /\ conn'.queue = <<>> /\ conn'.quiet = FALSE
      /\ log' = log /\ turn' = turn
  BY EmptySeq, ConnectionGoesOn
<1>7. /\ client' \in [pc : {"reading", "opening", "over", "lost"}, position : Nat,
                      tries : 0..Retries, carried : BOOLEAN]
      /\ client'.position = d.position /\ client'.pc = IF IsTerminal(w) THEN "over" ELSE "reading"
      /\ page' = Applied(page, w) /\ read' = Append(read, w)
      /\ read \in Seq(WireEvents) /\ read' \in Seq(WireEvents)
  BY <1>2, <1>3, <1>4, <1>5, ClientTakes
<1> HIDE DEF d
<1>8. ClientTypeOK'
  BY <1>6, <1>7 DEF ClientTypeOK
<1>9. QueueInv'
  BY <1>6, <1>7 DEF QueueInv, Settled, d
<1>10. Once(read, log, client.position)'
  <2>1. Once(read, log, client.position)
    BY DEF ClientInv
  <2>2. CASE d.kind # "turn_ended"
    <3>1. Once(Append(read, w), log, d.position)
      BY <1>1, <1>4, <1>7, <2>1, <2>2, OnceMore DEF d
    <3> QED
      BY <1>6, <1>7, <3>1
  <2>3. CASE d.kind = "turn_ended"
    <3>1. Numbered(log, d.position) = Numbered(log, client.position)
      <4>1. Had(log, d.position, k)
        BY DEF Had, d
      <4>2. \A j \in 1..Len(log) : log[j].position <= d.position <=> j <= k
        BY <1>1, <4>1, PositionsCount
      <4>3. \A j \in 1..Len(log) : (j <= k /\ log[j].kind # "turn_ended")
                                     <=> (j <= k - 1 /\ log[j].kind # "turn_ended")
        BY <2>3 DEF d
      <4> QED
        BY <1>2, <4>2, <4>3 DEF Numbered
    <3>2. Once(Append(read, w), log, d.position)
      BY <1>4, <1>7, <2>1, <2>3, <3>1, OnceStill
    <3> QED
      BY <1>6, <1>7, <3>2
  <2> QED
    BY <2>2, <2>3
<1>11. PageInv' /\ page \in PageType
  <2>1. PICK j \in 0..Len(log) : Had(log, client.position, j) /\ Shows(page, SubSeq(log, 1, j))
    BY DEF ClientInv, PageInv
  <2>2. j = k - 1
    BY <1>1, <2>1, PositionsCount
  <2>3. SubSeq(log, 1, k) = Append(SubSeq(log, 1, k - 1), d) /\ SubSeq(log, 1, k - 1) \in Seq(Doc)
    BY <1>1, <1>2, <2>1, <2>2, FrontMore, SaidBegins DEF d
  <2>4. Shows(Applied(page, w), SubSeq(log, 1, k))
    BY <1>2, <2>1, <2>2, <2>3, ShowsMore DEF d
  <2>5. k \in 0..Len(log) /\ Had(log, d.position, k)
    BY DEF Had, d
  <2> QED
    BY <1>6, <1>7, <2>1, <2>4, <2>5 DEF PageInv, Shows
<1>12. OverInv'
  <2>1. CASE ~IsTerminal(w)
    BY <1>7, <2>1 DEF OverInv
  <2>2. CASE IsTerminal(w)
    <3>1. Last(read') = w
      BY <1>4, <1>7, FrontAndLast
    <3>2. page'.state # "running" /\ page'.thinking = 0
      BY <1>7, <1>11, <2>2, AppliedTerminal
    <3>3. turn # "active" /\ d.body.state = turn
      BY <1>4, <2>2 DEF RunnerInv, LogInv, Open, d
    <3>4. "state" \in DOMAIN d.body
      <4>1. Event(d.kind, d.body) \in EventsOver(CleanChars)
        BY <1>2, DocumentIs DEF Doc
      <4> QED
        BY <1>4, <2>2, <4>1, EventIs
    <3> QED
      BY <1>4, <1>6, <2>2, <3>1, <3>2, <3>3, <3>4 DEF OverInv
  <2> QED
    BY <2>1, <2>2
<1> QED
  BY <1>8, <1>9, <1>10, <1>11, <1>12 DEF ClientInv

\* The turn's end, told from its record.
LEMMA TakesEnding ==
  ASSUME RunnerInv, ClientInv, Deliver, Tail(conn.queue) = <<>>, Settled, turn # "active",
         NEW w, w = TerminalOf(turn, conn.after), w = Head(conn.queue)
  PROVE  ClientInv'
<1>1. turn \in Ends /\ conn.after \in Nat /\ client.position \in Nat
  BY DEF RunnerInv, RunnerTypeOK, ClientInv, ClientTypeOK
<1>2. /\ w.id = client.position /\ IsTerminal(w) /\ w.body.state = turn /\ w # RunStarted
      /\ w \in WireEvents
  <2>1. \A state \in Ends, p \in Nat :
          LET end == TerminalOf(state, p)
          IN  /\ end.id = p /\ IsTerminal(end) /\ end.body.state = state /\ end # RunStarted
              /\ end \in WireEvents
    BY TerminalIs, WireEventsAre
  <2>2. /\ w.id = conn.after /\ IsTerminal(w) /\ w.body.state = turn /\ w # RunStarted
        /\ w \in WireEvents
    <3>1. PICK state \in Ends, p \in Nat : state = turn /\ p = conn.after
      BY <1>1
    <3>2. w = TerminalOf(state, p)
      BY <3>1
    <3>3. w.id = p
      BY <2>1, <3>2
    <3>4. IsTerminal(w)
      BY <2>1, <3>2
    <3>5. w.body.state = state
      BY <2>1, <3>2
    <3>6. w # RunStarted
      BY <2>1, <3>2
    <3>7. w \in WireEvents
      BY <2>1, <3>2
    <3> QED
      BY <3>1, <3>3, <3>4, <3>5, <3>6, <3>7
  <2> QED
    BY <2>1, <2>2 DEF Settled
<1>3. ~Skips(w, client.position)
  BY <1>2 DEF Skips
<1>4. /\ conn' \in [open : BOOLEAN, after : Nat, thinking : Nat, quiet : BOOLEAN,
                    queue : Seq(WireEvents)]
      /\ ~conn'.open /\ log' = log /\ turn' = turn
  BY <1>2, EmptySeq, ConnectionGoesOn
<1>5. /\ client' \in [pc : {"reading", "opening", "over", "lost"}, position : Nat,
                      tries : 0..Retries, carried : BOOLEAN]
      /\ client'.position = client.position /\ client'.pc = "over"
      /\ page' = Applied(page, w) /\ read' = Append(read, w)
      /\ read \in Seq(WireEvents) /\ read' \in Seq(WireEvents)
  BY <1>1, <1>2, <1>3, ClientTakes
<1>6. ClientTypeOK' /\ QueueInv'
  BY <1>4, <1>5 DEF ClientTypeOK, QueueInv
<1>7. Once(read, log, client.position)'
  <2>1. Once(read, log, client.position)
    BY DEF ClientInv
  <2>2. Once(Append(read, w), log, client.position)
    BY <1>2, <1>5, <2>1, OnceStill
  <2> QED
    BY <1>4, <1>5, <2>2
<1>8. PICK k \in 0..Len(log) : Had(log, client.position, k) /\ Shows(page, SubSeq(log, 1, k))
  BY DEF ClientInv, PageInv
<1>9. page \in PageType
  BY <1>8 DEF Shows
<1>10. /\ Untold(page, page') /\ page'.state # "running" /\ page'.thinking = 0
  BY <1>2, <1>5, <1>9, AppliedTerminal
<1>11. PageInv'
  <2>1. Shows(page', SubSeq(log, 1, k))
    BY <1>8, <1>10, ShowsStill
  <2> QED
    BY <1>4, <1>5, <1>8, <2>1 DEF PageInv
<1>12. OverInv'
  <2>1. Last(read') = w
    BY <1>2, <1>5, FrontAndLast
  <2> QED
    BY <1>2, <1>4, <1>10, <2>1 DEF OverInv
<1> QED
  BY <1>6, <1>7, <1>11, <1>12 DEF ClientInv

LEMMA ClientAfterDeliver ==
  ASSUME RunnerInv, ClientInv, Deliver
  PROVE  ClientInv'
<1>1. conn.open /\ conn.queue # <<>> /\ QueueInv
  BY DEF Deliver, ClientInv
<1>2. PICK w \in WireEvents :
        MayWait(w) /\ (conn.queue = <<w>> \/ \E b \in Plain : conn.queue = <<b, w>>)
  BY <1>1 DEF QueueInv
<1>3. CASE \E b \in Plain : conn.queue = <<b, w>>
  <2>1. PICK b \in Plain : conn.queue = <<b, w>>
    BY <1>3
  <2>2. b \in WireEvents
    BY WireEventsAre
  <2>3. Head(conn.queue) = b /\ Tail(conn.queue) = <<w>>
    BY <2>1, <2>2, ShortQueues
  <2> QED
    BY <1>2, <2>3, TakesPlain
<1>4. CASE conn.queue = <<w>>
  <2>1. Head(conn.queue) = w /\ Tail(conn.queue) = <<>>
    BY <1>4, ShortQueues
  <2> QED
    BY <1>2, <2>1, TakesPlain, TakesAgain, TakesNext, TakesEnding DEF MayWait
<1> QED
  BY <1>2, <1>3, <1>4

LEMMA ClientInvStep ==
  RunnerInv /\ RunnerInv' /\ ClientInv /\ [Next]_vars => ClientInv'
<1> SUFFICES ASSUME RunnerInv, RunnerInv', ClientInv, [Next]_vars PROVE ClientInv'
  OBVIOUS
<1>1. CASE RunnerStep
  BY <1>1, ClientAfterRunner
<1>2. CASE ClientStep
  BY <1>2, ClientAfterSends, ClientAfterQuiet, ClientAfterReopen, ClientAfterDeliver DEF ClientStep
<1>3. CASE UNCHANGED vars
  <2>1. /\ UNCHANGED runnerVars /\ client' = client /\ conn' = conn /\ read' = read /\ page' = page
        /\ log' = log /\ turn' = turn
    BY <1>3 DEF vars, runnerVars
  <2> QED
    BY <2>1 DEF ClientInv, ClientTypeOK, QueueInv, MayWait, Settled, PageInv, OverInv
<1> QED
  BY <1>1, <1>2, <1>3, NextIs

\* Every reachable state of the runner, the stream, the client and the page.
LEMMA StreamStates ==
  Spec => [](RunnerInv /\ ClientInv /\ seen \in Nat)
<1>1. Init => ClientInv
  BY ClientInvInit
<1>2. RunnerInv /\ RunnerInv' /\ ClientInv /\ [Next]_vars => ClientInv'
  BY ClientInvStep
<1> QED
  BY <1>1, <1>2, RunnerInvAlways, PTL DEF Spec

\* The types, and that a stream that is cut and opened again anywhere, by a server that goes on
\* after the position the client has and a transport that may replay, gives the page each of the
\* turn's events once and in order (events_to_ag_ui's ids, readStream's position).
THEOREM StreamInvAlways ==
  Spec => []StreamInv
<1>1. RunnerInv /\ ClientInv /\ seen \in Nat => StreamTypeOK
  <2> SUFFICES ASSUME RunnerInv, ClientInv, seen \in Nat PROVE StreamTypeOK
    OBVIOUS
  <2>1. log \in Seq(Doc) /\ Ordered(log)
    BY DEF RunnerInv, LogInv
  <2>2. /\ Len(log) \in Nat /\ DOMAIN log = 1..Len(log) /\ \A i \in 1..Len(log) : log[i] \in Doc
    BY <2>1, LenProperties, ElementOfSeq
  <2>3. ASSUME NEW i \in DOMAIN log
        PROVE  Reads(log[i]) /\ (i > 1 => log[i - 1].position < log[i].position)
    <3>1. Reads(log[i])
      BY <2>2, DocumentReads DEF Doc
    <3>2. i > 1 => i - 1 \in 1..Len(log) /\ i - 1 < i
      BY <2>2
    <3> QED
      BY <2>1, <2>2, <3>1, <3>2 DEF Ordered
  <2>4. /\ runner.pc \in {"starting", "streaming", "called", "argued", "breaking", "closing", "gone"}
        /\ turn \in {"active", "finished", "failed", "cancelled", "interrupted"}
    BY DEF RunnerInv, RunnerTypeOK, Streaming, Stopping, Ends
  <2>5. /\ conn.open \in BOOLEAN /\ conn.quiet \in BOOLEAN /\ conn.after \in Nat
        /\ client.pc \in {"reading", "opening", "over", "lost"}
        /\ client.tries \in 0..Retries /\ client.position \in Nat
    BY DEF ClientInv, ClientTypeOK
  <2>6. (turn \in {"active", "cancelled"} => answer.none) /\ (turn = "finished" => ~answer.none)
    BY DEF RunnerInv, AnswerInv, None, Kept, Ends
  <2> QED
    BY <2>3, <2>4, <2>5, <2>6 DEF StreamTypeOK
<1>2. ClientInv => ReadsOnce
  BY OnceIs DEF ClientInv
<1>3. RunnerInv /\ ClientInv /\ seen \in Nat => StreamInv
  BY <1>1, <1>2 DEF StreamInv
<1> QED
  BY <1>3, StreamStates, PTL

\* An answer that says what the log says, or a text more, or less of it when a write failed, and
\* what is shown of the log: one is how the other begins.
LEMMA ShownAndKept ==
  ASSUME NEW shown \in Text, NEW q \in Seq(PartsOver(CleanChars)), log \in Seq(Doc),
         IsPrefix(shown, Said(log))
  PROVE  /\ q = PartialAnswer(log) => IsPrefix(shown, TextOf(q))
         /\ q # <<>> /\ Front(q) = PartialAnswer(log) => IsPrefix(shown, TextOf(q))
         /\ Told # <<>> /\ q = PartialAnswer(Front(Told)) =>
              IsPrefix(shown, TextOf(q)) \/ IsPrefix(TextOf(q), shown)
<1> DEFINE S == PartsOver(CleanChars)
<1>1. HaveText(S) /\ Said(log) \in Text /\ TextOf(q) \in Text
  BY PartsHaveText, SaidMore, TextOfMore
<1>2. q = PartialAnswer(log) => IsPrefix(shown, TextOf(q))
  BY DEF Said
<1>3. ASSUME q # <<>>, Front(q) = PartialAnswer(log) PROVE IsPrefix(shown, TextOf(q))
  <2>1. PICK z \in Seq(S), e \in S : q = Append(z, e)
    BY <1>3, SequenceEmptyOrAppend
  <2> HIDE DEF S
  <2>2. Front(q) = z
    BY <2>1, FrontAndLast
  <2>3. TextOf(z) = Said(log)
    BY <1>3, <2>2 DEF Said
  <2>4. TextOf(q) = IF e.kind = "text" THEN TextOf(z) \o e.text ELSE TextOf(z)
    BY <1>1, <2>1, TextOfMore
  <2>5. e.kind = "text" => e.text \in Text
    BY <1>1 DEF HaveText
  <2>6. IsPrefix(Said(log), TextOf(q))
    BY <1>1, <2>3, <2>4, <2>5, Beginnings
  <2> QED
    BY <1>1, <2>6, Beginnings
<1>4. ASSUME Told # <<>>, q = PartialAnswer(Front(Told))
      PROVE  IsPrefix(shown, TextOf(q)) \/ IsPrefix(TextOf(q), shown)
  <2>1. PICK k \in 0..Len(log) : Front(Told) = SubSeq(log, 1, k)
    BY <1>4, ToldIs
  <2>2. IsPrefix(TextOf(q), Said(log))
    BY <1>4, <2>1, SaidBegins DEF Said
  <2> QED
    BY <1>1, <2>2, Beginnings
<1> QED
  BY <1>2, <1>3, <1>4

\* A client that is told the end is told how the turn ended, and its page shows no answer as still
\* running and no text that opening the conversation again would contradict: the reducer's fold of
\* what was sent (reduceEvent) and the stored answer's view (messageFromView) begin alike.
THEOREM EndIsShownAlways ==
  Spec => []EndIsShown
<1>1. RunnerInv /\ ClientInv => EndsAsItEnded
  BY DEF ClientInv, OverInv, EndsAsItEnded
<1>2. RunnerInv /\ ClientInv => ShowsTheAnswer
  <2> SUFFICES ASSUME RunnerInv, ClientInv, client.pc = "over" PROVE ShowsTheAnswer
    BY DEF ShowsTheAnswer
  <2> DEFINE shown == TextOf(page.parts)
             message == MessageFromDocument(answer.document)
             kept == TextOf(MessageView(message).parts)
  <2>1. page.state # "running" /\ page.thinking = 0
    BY DEF ClientInv, OverInv
  <2>2. log \in Seq(Doc) /\ AnswerInv
    BY DEF RunnerInv, LogInv
  <2>3. CASE answer = None
    <3>1. answer.none
      BY <2>3 DEF None
    <3> QED
      BY <2>1, <3>1 DEF ShowsTheAnswer
  <2>4. CASE answer # None
    <3>1. PICK p \in Seq(PartsOver(Chars)) :
            answer = Kept(StoredMessage(p, turn # "finished")) /\ AnswerSays(p)
      BY <2>2, <2>4 DEF AnswerInv
    <3> DEFINE q == CleanedParts(p)
               failed == turn # "finished"
    <3>2. answer.document = StoredMessage(p, failed) /\ failed \in BOOLEAN
      BY <3>1 DEF Kept
    <3>3. q \in Seq(PartsOver(CleanChars))
      BY CleanedPartsIs
    <3>4. /\ MessageReads(answer.document) /\ message.parts = q /\ message.failed = failed
      BY <3>2, KeptIs
    <3>5. message = [parts |-> q, failed |-> failed]
      BY <3>4 DEF MessageFromDocument
    <3> HIDE DEF q, failed, message
    <3>6. kept = TextOf(q)
      <4>1. \A part \in PartsOver(CleanChars) : part.kind # "reasoning"
        BY DEF PartsOver
      <4> QED
        BY <3>3, <3>5, <4>1, ViewIsWhole
    <3>7. shown \in Text /\ IsPrefix(shown, Said(log))
      <4>1. PICK k \in 0..Len(log) : Shows(page, SubSeq(log, 1, k))
        BY DEF ClientInv, PageInv
      <4>2. SubSeq(log, 1, k) \in Seq(Doc) /\ IsPrefix(Said(SubSeq(log, 1, k)), Said(log))
        BY <2>2, SaidBegins
      <4>3. shown \in Text /\ IsPrefix(shown, Said(SubSeq(log, 1, k)))
        BY <4>1, PagePartsHaveText, TextOfMore DEF Shows, PageType
      <4>4. Said(SubSeq(log, 1, k)) \in Text /\ Said(log) \in Text
        BY <2>2, <4>2, SaidMore
      <4> QED
        BY <4>2, <4>3, <4>4, Beginnings
    <3> HIDE DEF shown
    <3>8. Cleaned \/ IsPrefix(shown, kept) \/ (message.failed /\ IsPrefix(kept, shown))
      <4>1. CASE Replaced(log)
        BY <4>1 DEF Replaced, Cleaned
      <4>2. CASE ~Replaced(log)
        <5>1. \/ q = PartialAnswer(log)
              \/ q # <<>> /\ Front(q) = PartialAnswer(log)
              \/ failed /\ Told # <<>> /\ q = PartialAnswer(Front(Told))
          BY <3>1, <4>2 DEF AnswerSays, Says, SaysHanded, HandedOver, q, failed
        <5> QED
          BY <2>2, <3>3, <3>4, <3>6, <3>7, <5>1, ShownAndKept
      <4> QED
        BY <4>1, <4>2
    <3> QED
      BY <2>1, <3>4, <3>8 DEF ShowsTheAnswer, shown, message
  <2> QED
    BY <2>3, <2>4
<1>3. RunnerInv /\ ClientInv => EndIsShown
  BY <1>1, <1>2 DEF EndIsShown
<1> QED
  BY <1>3, StreamStates, PTL
=============================================================================
