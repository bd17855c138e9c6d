---------------------------- MODULE ThreadProofs ----------------------------
(***************************************************************************)
(* What the model is told of a conversation and what its engine remembers, *)
(* proved for any clients, turns, questions, rounds of tool calls and      *)
(* runners that outlive their lease: the tree of messages is well formed,  *)
(* every finished answer can be gone on from, and each exchange above a    *)
(* question is told once.                                                  *)
(***************************************************************************)
EXTENDS Thread, FiniteSetTheorems, WellFoundedInduction, NaturalsInduction, TLAPS

-----------------------------------------------------------------------------
(* Induction, and functions defined by recursion on what is above          *)

LessThan == {p \in Nat \X Nat : p[1] < p[2]}

\* Of some numbers one is the least.
LEMMA LeastNumber ==
  ASSUME NEW numbers \in SUBSET Nat, numbers # {}
  PROVE  \E n \in numbers : \A m \in numbers : n <= m
<1>1. IsWellFoundedOn(LessThan, Nat)
  BY NatLessThanWellFounded DEF OpToRel, LessThan
<1>2. PICK n \in numbers : \A m \in numbers : <<m, n>> \notin LessThan
  BY <1>1, WFMin
<1>3. ASSUME NEW m \in numbers PROVE n <= m
  <2>1. <<m, n>> \notin LessThan /\ <<m, n>> \in Nat \X Nat
    BY <1>2
  <2>2. ~(<<m, n>>[1] < <<m, n>>[2])
    BY ONLY <2>1 DEF LessThan
  <2> QED
    BY <2>2
<1> QED
  BY <1>3

\* Induction up to a number: what holds of each number when it holds of those below it.
LEMMA Induction ==
  ASSUME NEW n \in Nat, NEW right,
         \A i \in 0..n : (\A j \in 0..n : j < i => j \in right) => i \in right
  PROVE  \A i \in 0..n : i \in right
<1> DEFINE wrong == {i \in 0..n : i \notin right}
<1>1. ASSUME wrong # {} PROVE FALSE
  <2>1. wrong \in SUBSET Nat
    OBVIOUS
  <2>2. PICK i \in wrong : \A j \in wrong : i <= j
    BY <1>1, <2>1, LeastNumber
  <2>3. \A j \in 0..n : j < i => j \in right
    BY <2>2
  <2> QED
    BY <2>2, <2>3
<1> QED
  BY <1>1

\* A function whose value at each of 1..n follows from that at an earlier place.
Walks(f, n, start, up, step) ==
  f = [m \in 0..n |-> IF m = 0 THEN start ELSE step[m][f[up[m]]]]

LEMMA WalkExists ==
  ASSUME NEW n \in Nat, NEW V, NEW start \in V,
         NEW up \in [1..n -> Nat], \A m \in 1..n : up[m] < m,
         NEW step \in [1..n -> [V -> V]]
  PROVE  \E f \in [0..n -> V] : Walks(f, n, start, up, step)
<1> DEFINE right == {k \in 0..n : \E f \in [0..k -> V] : Walks(f, k, start, up, step)}
<1>1. ASSUME NEW k \in 0..n, \A j \in 0..n : j < k => j \in right
      PROVE  k \in right
  <2>1. CASE k = 0
    <3> DEFINE f == [m \in 0..0 |-> start]
    <3>1. f \in [0..0 -> V] /\ Walks(f, 0, start, up, step)
      BY DEF Walks
    <3> QED
      BY <2>1, <3>1
  <2>2. CASE k # 0
    <3>1. k - 1 \in 0..n /\ k - 1 < k /\ k \in 1..n
      BY <2>2
    <3>2. PICK f \in [0..k - 1 -> V] : Walks(f, k - 1, start, up, step)
      BY <1>1, <3>1
    <3> DEFINE value == step[k][f[up[k]]]
               g == [m \in 0..k |-> IF m = k THEN value ELSE f[m]]
    <3>3. up[k] \in 0..k - 1 /\ f[up[k]] \in V
      BY <3>1
    <3>4. value \in V
      BY <3>1, <3>3
    <3> HIDE DEF value
    <3>5. g \in [0..k -> V]
      <4>1. \A m \in 0..k : m = k \/ m \in 0..k - 1
        OBVIOUS
      <4> QED
        BY <3>4, <4>1
    <3>6. \A m \in 0..k : g[m] = IF m = 0 THEN start ELSE step[m][g[up[m]]]
      <4>1. SUFFICES ASSUME NEW m \in 0..k
                     PROVE  g[m] = IF m = 0 THEN start ELSE step[m][g[up[m]]]
        OBVIOUS
      <4>2. CASE m = k
        <5>1. g[m] = value /\ g[up[m]] = f[up[m]] /\ m # 0
          BY <2>2, <3>3, <4>2
        <5> QED
          BY <4>2, <5>1 DEF value
      <4>3. CASE m # k
        <5>1. m \in 0..k - 1 /\ g[m] = f[m]
          BY <4>3
        <5>2. f[m] = IF m = 0 THEN start ELSE step[m][f[up[m]]]
          BY <3>2, <5>1 DEF Walks
        <5>3. CASE m = 0
          BY <5>1, <5>2, <5>3
        <5>4. CASE m # 0
          <6>1. m \in 1..n /\ up[m] \in Nat /\ up[m] < m
            BY <4>1, <5>4
          <6>2. up[m] \in 0..k /\ up[m] # k
            BY <5>1, <6>1
          <6>3. g[up[m]] = f[up[m]]
            BY <6>2
          <6> QED
            BY <5>1, <5>2, <6>3
        <5> QED
          BY <5>3, <5>4
      <4> QED
        BY <4>2, <4>3
    <3> HIDE DEF g
    <3>7. g = [m \in 0..k |-> IF m = 0 THEN start ELSE step[m][g[up[m]]]]
      BY <3>5, <3>6
    <3>8. Walks(g, k, start, up, step)
      BY <3>7 DEF Walks
    <3> QED
      BY <3>5, <3>8
  <2> QED
    BY <2>1, <2>2
<1>2. \A k \in 0..n : k \in right
  <2> HIDE DEF right
  <2> QED
    BY <1>1, Induction
<1> QED
  BY <1>2

-----------------------------------------------------------------------------
(* The thread                                                              *)

MessageType ==
  [role : {"user", "assistant"}, parent : Nat, failed : BOOLEAN, checkpoint : Nat, turn : Nat]

\* A conversation's messages: each under an earlier one, an answer under its question.
GoodMessages(ms) ==
  /\ ms \in Seq(MessageType)
  /\ \A m \in 1..Len(ms) :
       /\ ms[m].parent \in 0..(m - 1)
       /\ ms[m].role = "user" => ~ms[m].failed /\ ms[m].checkpoint = None
       /\ ms[m].role = "assistant" =>
            /\ ms[m].parent # None /\ ms[ms[m].parent].role = "user"
            /\ ms[m].failed <=> ms[m].checkpoint = None

LEMMA GoodParents ==
  ASSUME NEW ms, GoodMessages(ms)
  PROVE  /\ Len(ms) \in Nat /\ DOMAIN ms = 1..Len(ms)
         /\ \A m \in 1..Len(ms) :
              /\ ms[m] \in MessageType /\ ms[m].checkpoint \in Nat
              /\ ms[m].parent \in 0..Len(ms) /\ ms[m].parent < m /\ ms[m].parent \in Nat
              /\ ms[m].role = "user" \/ ms[m].role = "assistant"
              /\ ms[m].role = "user" => ~ms[m].failed /\ ms[m].checkpoint = None
              /\ ms[m].role = "assistant" =>
                   /\ ms[m].parent \in 1..Len(ms)
                   /\ ms[ms[m].parent].role = "user"
                   /\ ms[m].failed <=> ms[m].checkpoint = None
                   /\ ms[ms[m].parent].parent \in 0..Len(ms)
                   /\ ms[ms[m].parent].parent \in Nat
                   /\ ms[ms[m].parent].parent < ms[m].parent
                   /\ ms[ms[m].parent].parent < m
<1>1. Len(ms) \in Nat /\ DOMAIN ms = 1..Len(ms) /\ \A m \in 1..Len(ms) : ms[m] \in MessageType
  BY DEF GoodMessages
<1>2. \A m \in 1..Len(ms) : /\ ms[m].parent \in 0..Len(ms) /\ ms[m].parent < m
                            /\ ms[m].parent \in Nat
  BY <1>1 DEF GoodMessages
<1>3. ASSUME NEW m \in 1..Len(ms), ms[m].role = "assistant"
      PROVE  /\ ms[m].parent \in 1..Len(ms)
             /\ ms[ms[m].parent].role = "user"
             /\ ms[m].failed <=> ms[m].checkpoint = None
  <2>1. /\ ms[m].parent # None /\ ms[ms[m].parent].role = "user"
        /\ ms[m].failed <=> ms[m].checkpoint = None
    BY <1>3 DEF GoodMessages
  <2> QED
    BY <1>2, <2>1 DEF None
<1>4. ASSUME NEW m \in 1..Len(ms)
      PROVE  /\ ms[m].checkpoint \in Nat /\ (ms[m].role = "user" \/ ms[m].role = "assistant")
             /\ ms[m].role = "user" => ~ms[m].failed /\ ms[m].checkpoint = None
  BY <1>1 DEF GoodMessages, MessageType
<1>5. ASSUME NEW m \in 1..Len(ms), ms[m].role = "assistant"
      PROVE  /\ ms[ms[m].parent].parent \in 0..Len(ms) /\ ms[ms[m].parent].parent \in Nat
             /\ ms[ms[m].parent].parent < ms[m].parent /\ ms[ms[m].parent].parent < m
  BY <1>1, <1>2, <1>3, <1>5
<1> QED
  BY <1>1, <1>2, <1>3, <1>4, <1>5

\* A message and those above it.
ThreadIn(ms, top) ==
  LET walk[m \in 0..Len(ms)] ==
        IF m = None THEN {} ELSE walk[ms[m].parent] \cup {m}
  IN  walk[top]

LEMMA ThreadUnfolds ==
  ASSUME NEW ms, GoodMessages(ms)
  PROVE  /\ ThreadIn(ms, None) = {}
         /\ \A m \in 1..Len(ms) : ThreadIn(ms, m) = ThreadIn(ms, ms[m].parent) \cup {m}
<1> DEFINE n == Len(ms)
           V == SUBSET (1..n)
           IsWalk(f) == f = [m \in 0..n |-> IF m = None THEN {} ELSE f[ms[m].parent] \cup {m}]
           walk == CHOOSE f : IsWalk(f)
           up == [m \in 1..n |-> ms[m].parent]
           step == [m \in 1..n |-> [v \in V |-> v \cup {m}]]
<1>1. \A m \in 0..n : ThreadIn(ms, m) = walk[m]
  BY DEF ThreadIn
<1>2. n \in Nat /\ up \in [1..n -> Nat] /\ \A m \in 1..n : up[m] < m
  BY GoodParents
<1>3. step \in [1..n -> [V -> V]] /\ {} \in V
  BY GoodParents DEF None
<1>4. PICK f \in [0..n -> V] : Walks(f, n, {}, up, step)
  BY <1>2, <1>3, WalkExists
<1>5. \A m \in 0..n : f[m] = IF m = None THEN {} ELSE f[ms[m].parent] \cup {m}
  <2>1. SUFFICES ASSUME NEW m \in 0..n
                 PROVE  f[m] = IF m = None THEN {} ELSE f[ms[m].parent] \cup {m}
    OBVIOUS
  <2>2. f[m] = IF m = 0 THEN {} ELSE step[m][f[up[m]]]
    BY <1>4 DEF Walks
  <2>3. CASE m = 0
    BY <2>2, <2>3 DEF None
  <2>4. CASE m # 0
    <3>1. m \in 1..n /\ f[up[m]] \in V
      BY <1>2, <2>4
    <3>2. step[m][f[up[m]]] = f[up[m]] \cup {m}
      BY <3>1
    <3> QED
      BY <2>2, <2>4, <3>1, <3>2 DEF None
  <2> QED
    BY <2>3, <2>4
<1>6. IsWalk(f)
  BY <1>5
<1>7. IsWalk(walk)
  BY <1>6
<1> HIDE DEF walk
<1>8. \A m \in 0..n : walk[m] = IF m = None THEN {} ELSE walk[ms[m].parent] \cup {m}
  BY <1>7
<1>9. 0 \in 0..n /\ \A m \in 1..n : m \in 0..n /\ ms[m].parent \in 0..n /\ m # 0
  BY <1>2, GoodParents
<1> HIDE DEF IsWalk, up, step, V
<1> QED
  BY <1>1, <1>8, <1>9 DEF None

\* The checkpoint of the nearest message at or above one that has any.
NearestIn(ms, top) ==
  LET walk[m \in 0..Len(ms)] ==
        IF m = None THEN None
        ELSE IF ms[m].checkpoint # None THEN ms[m].checkpoint
        ELSE walk[ms[m].parent]
  IN  walk[top]

LEMMA NearestUnfolds ==
  ASSUME NEW ms, GoodMessages(ms)
  PROVE  /\ NearestIn(ms, None) = None
         /\ \A m \in 1..Len(ms) : NearestIn(ms, m) = IF ms[m].checkpoint # None THEN ms[m].checkpoint
                                                 ELSE NearestIn(ms, ms[m].parent)
<1> DEFINE n == Len(ms)
           V == Nat
           IsWalk(f) == f = [m \in 0..n |-> IF m = None THEN None
        ELSE IF ms[m].checkpoint # None THEN ms[m].checkpoint
        ELSE f[ms[m].parent]]
           walk == CHOOSE f : IsWalk(f)
           up == [m \in 1..n |-> ms[m].parent]
           step == [m \in 1..n |-> [v \in V |-> IF ms[m].checkpoint # None THEN ms[m].checkpoint ELSE v]]
<1>1. \A m \in 0..n : NearestIn(ms, m) = walk[m]
  BY DEF NearestIn
<1>2. n \in Nat /\ up \in [1..n -> Nat] /\ \A m \in 1..n : up[m] < m
  BY GoodParents
<1>3. step \in [1..n -> [V -> V]] /\ None \in V
  BY GoodParents DEF None
<1>4. PICK f \in [0..n -> V] : Walks(f, n, None, up, step)
  BY <1>2, <1>3, WalkExists
<1>5. \A m \in 0..n : f[m] = IF m = None THEN None
        ELSE IF ms[m].checkpoint # None THEN ms[m].checkpoint
        ELSE f[ms[m].parent]
  <2>1. SUFFICES ASSUME NEW m \in 0..n
                 PROVE  f[m] = IF m = None THEN None
        ELSE IF ms[m].checkpoint # None THEN ms[m].checkpoint
        ELSE f[ms[m].parent]
    OBVIOUS
  <2>2. f[m] = IF m = 0 THEN None ELSE step[m][f[up[m]]]
    BY <1>4 DEF Walks
  <2>3. CASE m = 0
    BY <2>2, <2>3 DEF None
  <2>4. CASE m # 0
    <3>1. m \in 1..n /\ f[up[m]] \in V
      BY <1>2, <2>4
    <3>2. step[m][f[up[m]]] = IF ms[m].checkpoint # None THEN ms[m].checkpoint ELSE f[up[m]]
      BY <3>1
    <3> QED
      BY <2>2, <2>4, <3>1, <3>2 DEF None
  <2> QED
    BY <2>3, <2>4
<1>6. IsWalk(f)
  BY <1>5
<1>7. IsWalk(walk)
  BY <1>6
<1> HIDE DEF walk
<1>8. \A m \in 0..n : walk[m] = IF m = None THEN None
        ELSE IF ms[m].checkpoint # None THEN ms[m].checkpoint
        ELSE walk[ms[m].parent]
  BY <1>7
<1>9. 0 \in 0..n /\ \A m \in 1..n : m \in 0..n /\ ms[m].parent \in 0..n /\ m # 0
  BY <1>2, GoodParents
<1> HIDE DEF IsWalk, up, step, V
<1> QED
  BY <1>1, <1>8, <1>9 DEF None

\* The failed answers at or above a message, as long as what is above is one.
EarlierIn(ms, top) ==
  LET walk[m \in 0..Len(ms)] ==
        IF m # None /\ ms[m].failed THEN walk[ms[ms[m].parent].parent] \cup {m} ELSE {}
  IN  walk[top]

LEMMA EarlierUnfolds ==
  ASSUME NEW ms, GoodMessages(ms)
  PROVE  /\ EarlierIn(ms, None) = {}
         /\ \A m \in 1..Len(ms) :
              EarlierIn(ms, m) = IF ms[m].failed THEN EarlierIn(ms, ms[ms[m].parent].parent) \cup {m}
                              ELSE {}
<1> DEFINE n == Len(ms)
           V == SUBSET (1..n)
           Counts(m) == ms[m].failed
           IsWalk(f) == f = [m \in 0..n |-> IF m # None /\ Counts(m)
                                            THEN f[ms[ms[m].parent].parent] \cup {m} ELSE {}]
           walk == CHOOSE f : IsWalk(f)
           up == [m \in 1..n |-> IF Counts(m) THEN ms[ms[m].parent].parent ELSE 0]
           step == [m \in 1..n |-> [v \in V |-> IF Counts(m) THEN v \cup {m} ELSE {}]]
<1>1. \A m \in 0..n : EarlierIn(ms, m) = walk[m]
  BY DEF EarlierIn
<1>2. /\ n \in Nat
      /\ \A m \in 1..n : Counts(m) => /\ ms[ms[m].parent].parent \in 0..n
                                       /\ ms[ms[m].parent].parent \in Nat
                                       /\ ms[ms[m].parent].parent < m
  BY GoodParents
<1> HIDE DEF Counts, n
<1>3. up \in [1..n -> Nat] /\ \A m \in 1..n : up[m] < m
  BY <1>2
<1>4. step \in [1..n -> [V -> V]] /\ {} \in V
  OBVIOUS
<1>5. PICK f \in [0..n -> V] : Walks(f, n, {}, up, step)
  BY <1>2, <1>3, <1>4, WalkExists
<1>6. \A m \in 0..n : f[m] = IF m # None /\ Counts(m)
                             THEN f[ms[ms[m].parent].parent] \cup {m} ELSE {}
  <2>1. SUFFICES ASSUME NEW m \in 0..n
                 PROVE  f[m] = IF m # None /\ Counts(m)
                               THEN f[ms[ms[m].parent].parent] \cup {m} ELSE {}
    OBVIOUS
  <2>2. f[m] = IF m = 0 THEN {} ELSE step[m][f[up[m]]]
    BY <1>5 DEF Walks
  <2>3. CASE m = 0
    BY <2>2, <2>3 DEF None
  <2>4. CASE m # 0
    <3>1. m \in 1..n /\ up[m] \in 0..n
      BY <1>2, <1>3, <2>4
    <3>2. step[m][f[up[m]]] = IF Counts(m) THEN f[up[m]] \cup {m} ELSE {}
      BY <3>1
    <3> QED
      BY <2>2, <2>4, <3>1, <3>2 DEF None
  <2> QED
    BY <2>3, <2>4
<1>7. IsWalk(f)
  BY <1>6
<1>8. IsWalk(walk)
  BY <1>7
<1> HIDE DEF walk
<1>9. \A m \in 0..n : walk[m] = IF m # None /\ Counts(m)
                                THEN walk[ms[ms[m].parent].parent] \cup {m} ELSE {}
  BY <1>8
<1>10. 0 \in 0..n /\ \A m \in 1..n : m \in 0..n /\ m # 0
  BY <1>2
<1> HIDE DEF IsWalk, up, step, V
<1>11. EarlierIn(ms, 0) = {}
  BY <1>1, <1>9, <1>10 DEF None
<1>12. ASSUME NEW m \in 1..n
       PROVE  EarlierIn(ms, m) = IF Counts(m) THEN EarlierIn(ms, ms[ms[m].parent].parent) \cup {m} ELSE {}
  <2>1. CASE Counts(m)
    BY <1>1, <1>2, <1>9, <1>10, <2>1 DEF None
  <2>2. CASE ~Counts(m)
    BY <1>1, <1>9, <1>10, <2>2 DEF None
  <2> QED
    BY <2>1, <2>2
<1> QED
  BY <1>11, <1>12 DEF None, Counts, n

\* The answers at or above a message, as long as what is above is one.
ToldIn(ms, top) ==
  LET walk[m \in 0..Len(ms)] ==
        IF m # None /\ ms[m].role = "assistant" THEN walk[ms[ms[m].parent].parent] \cup {m} ELSE {}
  IN  walk[top]

LEMMA ToldUnfolds ==
  ASSUME NEW ms, GoodMessages(ms)
  PROVE  /\ ToldIn(ms, None) = {}
         /\ \A m \in 1..Len(ms) :
              ToldIn(ms, m) = IF ms[m].role = "assistant" THEN ToldIn(ms, ms[ms[m].parent].parent) \cup {m}
                              ELSE {}
<1> DEFINE n == Len(ms)
           V == SUBSET (1..n)
           Counts(m) == ms[m].role = "assistant"
           IsWalk(f) == f = [m \in 0..n |-> IF m # None /\ Counts(m)
                                            THEN f[ms[ms[m].parent].parent] \cup {m} ELSE {}]
           walk == CHOOSE f : IsWalk(f)
           up == [m \in 1..n |-> IF Counts(m) THEN ms[ms[m].parent].parent ELSE 0]
           step == [m \in 1..n |-> [v \in V |-> IF Counts(m) THEN v \cup {m} ELSE {}]]
<1>1. \A m \in 0..n : ToldIn(ms, m) = walk[m]
  BY DEF ToldIn
<1>2. /\ n \in Nat
      /\ \A m \in 1..n : Counts(m) => /\ ms[ms[m].parent].parent \in 0..n
                                       /\ ms[ms[m].parent].parent \in Nat
                                       /\ ms[ms[m].parent].parent < m
  BY GoodParents
<1> HIDE DEF Counts, n
<1>3. up \in [1..n -> Nat] /\ \A m \in 1..n : up[m] < m
  BY <1>2
<1>4. step \in [1..n -> [V -> V]] /\ {} \in V
  OBVIOUS
<1>5. PICK f \in [0..n -> V] : Walks(f, n, {}, up, step)
  BY <1>2, <1>3, <1>4, WalkExists
<1>6. \A m \in 0..n : f[m] = IF m # None /\ Counts(m)
                             THEN f[ms[ms[m].parent].parent] \cup {m} ELSE {}
  <2>1. SUFFICES ASSUME NEW m \in 0..n
                 PROVE  f[m] = IF m # None /\ Counts(m)
                               THEN f[ms[ms[m].parent].parent] \cup {m} ELSE {}
    OBVIOUS
  <2>2. f[m] = IF m = 0 THEN {} ELSE step[m][f[up[m]]]
    BY <1>5 DEF Walks
  <2>3. CASE m = 0
    BY <2>2, <2>3 DEF None
  <2>4. CASE m # 0
    <3>1. m \in 1..n /\ up[m] \in 0..n
      BY <1>2, <1>3, <2>4
    <3>2. step[m][f[up[m]]] = IF Counts(m) THEN f[up[m]] \cup {m} ELSE {}
      BY <3>1
    <3> QED
      BY <2>2, <2>4, <3>1, <3>2 DEF None
  <2> QED
    BY <2>3, <2>4
<1>7. IsWalk(f)
  BY <1>6
<1>8. IsWalk(walk)
  BY <1>7
<1> HIDE DEF walk
<1>9. \A m \in 0..n : walk[m] = IF m # None /\ Counts(m)
                                THEN walk[ms[ms[m].parent].parent] \cup {m} ELSE {}
  BY <1>8
<1>10. 0 \in 0..n /\ \A m \in 1..n : m \in 0..n /\ m # 0
  BY <1>2
<1> HIDE DEF IsWalk, up, step, V
<1>11. ToldIn(ms, 0) = {}
  BY <1>1, <1>9, <1>10 DEF None
<1>12. ASSUME NEW m \in 1..n
       PROVE  ToldIn(ms, m) = IF Counts(m) THEN ToldIn(ms, ms[ms[m].parent].parent) \cup {m} ELSE {}
  <2>1. CASE Counts(m)
    BY <1>1, <1>2, <1>9, <1>10, <2>1 DEF None
  <2>2. CASE ~Counts(m)
    BY <1>1, <1>9, <1>10, <2>2 DEF None
  <2> QED
    BY <2>1, <2>2
<1> QED
  BY <1>11, <1>12 DEF None, Counts, n

\* The four are the model's.
LEMMA WalksAreThose ==
  /\ \A m : ThreadTo(m) = ThreadIn(messages, m)
  /\ \A q : Above(q) = ThreadIn(messages, messages[q].parent)
  /\ \A q : NearestCheckpoint(q) = NearestIn(messages, messages[q].parent)
  /\ \A q : Earlier(q) = EarlierIn(messages, messages[q].parent)
  /\ \A q : Told(q) = ToldIn(messages, messages[q].parent)
BY DEF ThreadTo, ThreadIn, Above, NearestCheckpoint, NearestIn, Earlier, EarlierIn, Told, ToldIn

\* What is above a message stays as it is when messages are added.
LEMMA WalksStay ==
  ASSUME NEW ms, NEW more, GoodMessages(ms), GoodMessages(more), Len(ms) <= Len(more),
         \A m \in 1..Len(ms) : more[m] = ms[m]
  PROVE  \A m \in 0..Len(ms) :
           /\ NearestIn(more, m) = NearestIn(ms, m)
           /\ EarlierIn(more, m) = EarlierIn(ms, m)
<1> DEFINE n == Len(ms)
           right == {m \in 0..n : /\ NearestIn(more, m) = NearestIn(ms, m)
                                  /\ EarlierIn(more, m) = EarlierIn(ms, m)}
<1>1. n \in Nat /\ Len(more) \in Nat
  BY GoodParents
<1>2. ASSUME NEW m \in 0..n, \A j \in 0..n : j < m => j \in right
      PROVE  m \in right
  <2>1. CASE m = 0
    BY <2>1, NearestUnfolds, EarlierUnfolds DEF None
  <2>2. CASE m # 0
    <3>1. m \in 1..n /\ m \in 1..Len(more) /\ more[m] = ms[m]
      BY <1>1, <2>2
    <3> DEFINE p == ms[m].parent
               g == ms[p].parent
    <3>2. p \in 0..n /\ p < m
      BY <3>1, GoodParents
    <3>3. NearestIn(more, p) = NearestIn(ms, p)
      BY <1>2, <3>2
    <3>4. NearestIn(more, m) = NearestIn(ms, m)
      BY <3>1, <3>3, NearestUnfolds
    <3>5. CASE ms[m].failed
      <4>1. ms[m].role = "assistant"
        BY <3>1, <3>5, GoodParents
      <4>2. g \in 0..n /\ g < m /\ p \in 1..n
        BY <3>1, <4>1, GoodParents
      <4>3. more[p] = ms[p] /\ EarlierIn(more, g) = EarlierIn(ms, g)
        BY <1>2, <4>2
      <4>4. EarlierIn(ms, m) = EarlierIn(ms, g) \cup {m}
        BY <3>1, <3>5, EarlierUnfolds
      <4>5. more[more[m].parent].parent = g /\ more[m].failed
        BY <3>1, <3>5, <4>3
      <4>6. EarlierIn(more, m) = EarlierIn(more, g) \cup {m}
        <5> HIDE DEF g
        <5> QED
          BY <3>1, <4>5, EarlierUnfolds
      <4> QED
        BY <3>4, <4>3, <4>4, <4>6
    <3>6. CASE ~ms[m].failed
      BY <3>1, <3>4, <3>6, EarlierUnfolds
    <3> QED
      BY <3>5, <3>6
  <2> QED
    BY <2>1, <2>2
<1>3. \A m \in 0..n : m \in right
  <2> HIDE DEF right
  <2> QED
    BY <1>1, <1>2, Induction
<1> QED
  BY <1>3
\* Nothing is above a message but what was there before it.
LEMMA WalksGoBack ==
  ASSUME NEW ms, GoodMessages(ms)
  PROVE  \A m \in 0..Len(ms) :
           /\ EarlierIn(ms, m) \subseteq 1..m
           /\ ToldIn(ms, m) \subseteq 1..m
           /\ NearestIn(ms, m) \in Nat
           /\ NearestIn(ms, m) # None =>
                \E b \in 1..m : ms[b].checkpoint # None /\ ms[b].checkpoint = NearestIn(ms, m)
<1> DEFINE n == Len(ms)
           Back(m) == /\ EarlierIn(ms, m) \subseteq 1..m
                      /\ ToldIn(ms, m) \subseteq 1..m
                      /\ NearestIn(ms, m) \in Nat
                      /\ NearestIn(ms, m) # None =>
                           \E b \in 1..m : ms[b].checkpoint # None /\ ms[b].checkpoint = NearestIn(ms, m)
           right == {m \in 0..n : Back(m)}
<1>1. n \in Nat
  BY GoodParents
<1>2. ASSUME NEW m \in 0..n, \A j \in 0..n : j < m => j \in right
      PROVE  m \in right
  <2>1. CASE m = 0
    <3>1. EarlierIn(ms, m) = {} /\ ToldIn(ms, m) = {} /\ NearestIn(ms, m) = 0
      BY <2>1, NearestUnfolds, EarlierUnfolds, ToldUnfolds DEF None
    <3> QED
      BY <3>1 DEF None
  <2>2. CASE m # 0
    <3>1. m \in 1..n
      BY <1>1, <2>2
    <3> DEFINE p == ms[m].parent
               g == ms[ms[m].parent].parent
    <3>2. p \in 0..n /\ p < m /\ ms[m].checkpoint \in Nat
      BY <3>1, GoodParents
    <3>3. Back(p)
      BY <1>2, <3>2
    <3>4. /\ NearestIn(ms, m) \in Nat
          /\ NearestIn(ms, m) # None =>
               \E b \in 1..m : ms[b].checkpoint # None /\ ms[b].checkpoint = NearestIn(ms, m)
      <4>1. CASE ms[m].checkpoint # None
        <5>1. NearestIn(ms, m) = ms[m].checkpoint /\ m \in 1..m
          BY <3>1, <4>1, NearestUnfolds
        <5> QED
          BY <3>2, <4>1, <5>1
      <4>2. CASE ms[m].checkpoint = None
        <5>1. NearestIn(ms, m) = NearestIn(ms, p)
          BY <3>1, <4>2, NearestUnfolds
        <5>2. \A b \in 1..p : b \in 1..m
          BY <3>1, <3>2
        <5> QED
          BY <3>3, <5>1, <5>2
      <4> QED
        BY <4>1, <4>2
    <3>5. ASSUME ms[m].role = "assistant"
          PROVE  Back(g) /\ g < m /\ g \in 0..n
      <4>1. g \in 0..n /\ g < m
        BY <3>1, <3>5, GoodParents
      <4> QED
        BY <1>2, <4>1
    <3>6. EarlierIn(ms, m) \subseteq 1..m
      <4>1. CASE ms[m].failed
        <5>1. ms[m].role = "assistant"
          BY <3>1, <4>1, GoodParents
        <5>2. EarlierIn(ms, m) = EarlierIn(ms, g) \cup {m}
          BY <3>1, <4>1, EarlierUnfolds
        <5>3. EarlierIn(ms, g) \subseteq 1..g /\ g < m /\ g \in 0..n
          BY <3>5, <5>1
        <5> HIDE DEF g
        <5> QED
          BY <3>1, <5>2, <5>3
      <4>2. CASE ~ms[m].failed
        <5>1. EarlierIn(ms, m) = {}
          BY <3>1, <4>2, EarlierUnfolds
        <5> QED
          BY <5>1
      <4> QED
        BY <4>1, <4>2
    <3>7. ToldIn(ms, m) \subseteq 1..m
      <4>1. CASE ms[m].role = "assistant"
        <5>2. ToldIn(ms, m) = ToldIn(ms, g) \cup {m}
          BY <3>1, <4>1, ToldUnfolds
        <5>3. ToldIn(ms, g) \subseteq 1..g /\ g < m /\ g \in 0..n
          BY <3>5, <4>1
        <5> HIDE DEF g
        <5> QED
          BY <3>1, <5>2, <5>3
      <4>2. CASE ms[m].role # "assistant"
        <5>1. ToldIn(ms, m) = {}
          BY <3>1, <4>2, ToldUnfolds
        <5> QED
          BY <5>1
      <4> QED
        BY <4>1, <4>2
    <3> QED
      BY <3>4, <3>6, <3>7
  <2> QED
    BY <2>1, <2>2
<1>3. \A m \in 0..n : m \in right
  <2> HIDE DEF right
  <2> QED
    BY <1>1, <1>2, Induction
<1> QED
  BY <1>3

-----------------------------------------------------------------------------
(* Histories                                                               *)

EntryType == [what : {"asked", "round", "answer"}, question : Nat, told : SUBSET Nat]

History(sv, checkpoint) == IF checkpoint = None THEN <<>> ELSE sv[checkpoint]

LEMMA ExtendsPlaces ==
  ASSUME NEW E, NEW after \in Seq(E), NEW before \in Seq(E)
  PROVE  Extends(after, before) <=> /\ Len(after) > Len(before)
                                    /\ \A i \in 1..Len(before) : after[i] = before[i]
<1>1. ASSUME Extends(after, before), NEW i \in 1..Len(before)
      PROVE  after[i] = before[i]
  <2>1. SubSeq(after, 1, Len(before))[i] = after[i]
    BY <1>1 DEF Extends
  <2> QED
    BY <1>1, <2>1 DEF Extends
<1>2. ASSUME Len(after) > Len(before), \A i \in 1..Len(before) : after[i] = before[i]
      PROVE  SubSeq(after, 1, Len(before)) = before
  <2> DEFINE part == SubSeq(after, 1, Len(before))
  <2>1. part \in Seq(E) /\ Len(part) = Len(before)
    BY <1>2
  <2>2. \A i \in 1..Len(before) : part[i] = before[i]
    BY <1>2
  <2> HIDE DEF part
  <2>3. part = before
    BY <2>1, <2>2
  <2> QED
    BY <2>3 DEF part
<1> QED
  BY <1>1, <1>2 DEF Extends

\* The same of two histories.
LEMMA HistoryExtends ==
  \A a, b \in Seq(EntryType) :
    Extends(a, b) <=> Len(a) > Len(b) /\ \A i \in 1..Len(b) : a[i] = b[i]
<1> SUFFICES ASSUME NEW a \in Seq(EntryType), NEW b \in Seq(EntryType)
             PROVE  Extends(a, b) <=> Len(a) > Len(b) /\ \A i \in 1..Len(b) : a[i] = b[i]
  OBVIOUS
<1> QED
  BY ExtendsPlaces

LEMMA ExtendsOn ==
  ASSUME NEW E, NEW a \in Seq(E), NEW b \in Seq(E), NEW c \in Seq(E),
         Extends(a, b), Extends(b, c)
  PROVE  Extends(a, c)
<1>1. Len(a) > Len(b) /\ \A i \in 1..Len(b) : a[i] = b[i]
  BY ExtendsPlaces
<1>2. Len(b) > Len(c) /\ \A i \in 1..Len(c) : b[i] = c[i]
  BY ExtendsPlaces
<1>3. Len(a) > Len(c) /\ \A i \in 1..Len(c) : a[i] = c[i]
  <2>1. Len(a) \in Nat /\ Len(b) \in Nat /\ Len(c) \in Nat
    OBVIOUS
  <2> QED
    BY <1>1, <1>2, <2>1
<1> QED
  BY <1>3, ExtendsPlaces

LEMMA ExtendsMore ==
  ASSUME NEW E, NEW before \in Seq(E), NEW after \in Seq(E), NEW e \in E,
         after = before \/ Extends(after, before)
  PROVE  Extends(Append(after, e), before)
<1> DEFINE longer == Append(after, e)
<1>1. /\ longer \in Seq(E) /\ Len(longer) = Len(after) + 1
      /\ \A i \in 1..Len(after) : longer[i] = after[i]
  OBVIOUS
<1>2. Len(after) >= Len(before) /\ \A i \in 1..Len(before) : after[i] = before[i]
  BY ExtendsPlaces
<1>3. Len(after) \in Nat /\ Len(before) \in Nat
  OBVIOUS
<1> HIDE DEF longer
<1>4. Len(longer) > Len(before) /\ \A i \in 1..Len(before) : longer[i] = before[i]
  BY <1>1, <1>2, <1>3
<1>5. Extends(longer, before)
  BY <1>1, <1>4, ExtendsPlaces
<1> QED
  BY <1>5 DEF longer
\* Where the engine is to continue from when a question is asked, and what it is to be told of.
NearestTo(ms, q) == NearestIn(ms, ms[q].parent)

EarlierTo(ms, q) == EarlierIn(ms, ms[q].parent)

IsQuestion(ms, q) == q \in 1..Len(ms) /\ ms[q].role = "user"

IsFailure(ms, m, q) ==
  m \in 1..Len(ms) /\ ms[m].role = "assistant" /\ ms[m].failed /\ ms[m].parent = q

SavedType(sv) == \A c \in DOMAIN sv : c \in Nat /\ c # None /\ sv[c] \in Seq(EntryType)

\* A finished answer's history is held, ends with an answer, and goes on from that of the
\* nearest one above.
KeptIn(ms, sv) ==
  \A a \in 1..Len(ms) : ms[a].checkpoint # None =>
    /\ ms[a].checkpoint \in DOMAIN sv
    /\ HasFinished(sv[ms[a].checkpoint])
    /\ Extends(sv[ms[a].checkpoint], History(sv, NearestTo(ms, ms[a].parent)))

\* A history in which a question was asked and maybe answered: that of what is above the
\* question, the prompt, rounds of tool calls, and at most one answer, at its end.
Shaped(ms, sv, h, q) ==
  LET before == History(sv, NearestTo(ms, q))
      n == Len(before)
  IN  /\ Extends(h, before)
      /\ h[n + 1].what = "asked" /\ h[n + 1].question = q
      /\ EarlierTo(ms, q) \subseteq h[n + 1].told
      /\ \A m \in h[n + 1].told \ EarlierTo(ms, q) : IsFailure(ms, m, q)
      /\ \A i \in (n + 2)..Len(h) :
           /\ h[i].what # "asked" /\ h[i].question = q /\ h[i].told = {}
           /\ h[i].what = "answer" => i = Len(h)

AnswersShaped(ms, sv) ==
  \A a \in 1..Len(ms) : ms[a].checkpoint # None =>
    Shaped(ms, sv, sv[ms[a].checkpoint], ms[a].parent)

\* A question has no checkpoint of its own, and a finished answer is below one.
LEMMA NearestAbove ==
  ASSUME NEW ms, GoodMessages(ms), NEW m \in 1..Len(ms), ms[m].checkpoint # None \/ ms[m].failed
  PROVE  /\ ms[m].role = "assistant"
         /\ ms[m].parent \in 1..Len(ms) /\ ms[m].parent < m
         /\ ms[ms[m].parent].parent \in 0..Len(ms)
         /\ ms[ms[m].parent].parent < ms[m].parent /\ ms[ms[m].parent].parent < m
         /\ NearestIn(ms, ms[m].parent) = NearestTo(ms, ms[m].parent)
         /\ ThreadIn(ms, ms[m].parent) = ThreadIn(ms, ms[ms[m].parent].parent) \cup {ms[m].parent}
         /\ ms[ms[m].parent].checkpoint = None
<1>1. ms[m].role = "assistant"
  BY GoodParents
<1>2. /\ ms[m].parent \in 1..Len(ms) /\ ms[m].parent < m
      /\ ms[ms[m].parent].parent \in 0..Len(ms)
      /\ ms[ms[m].parent].parent < ms[m].parent /\ ms[ms[m].parent].parent < m
      /\ ms[ms[m].parent].role = "user"
  BY <1>1, GoodParents
<1>3. ms[ms[m].parent].checkpoint = None
  BY <1>2, GoodParents
<1>4. NearestIn(ms, ms[m].parent) = NearestTo(ms, ms[m].parent)
  BY <1>2, <1>3, NearestUnfolds DEF NearestTo
<1>5. ThreadIn(ms, ms[m].parent) = ThreadIn(ms, ms[ms[m].parent].parent) \cup {ms[m].parent}
  BY <1>2, ThreadUnfolds
<1> QED
  BY <1>1, <1>2, <1>3, <1>4, <1>5

\* The history at the nearest checkpoint above is one the engine holds, or none.
LEMMA NearestHeld ==
  ASSUME NEW ms, NEW sv, GoodMessages(ms), SavedType(sv), KeptIn(ms, sv), NEW m \in 0..Len(ms)
  PROVE  /\ History(sv, NearestIn(ms, m)) \in Seq(EntryType)
         /\ NearestIn(ms, m) # None => /\ NearestIn(ms, m) \in DOMAIN sv
                                       /\ History(sv, NearestIn(ms, m)) = sv[NearestIn(ms, m)]
<1>1. CASE NearestIn(ms, m) = None
  BY <1>1 DEF History
<1>2. CASE NearestIn(ms, m) # None
  <2>1. PICK b \in 1..m : ms[b].checkpoint # None /\ ms[b].checkpoint = NearestIn(ms, m)
    BY <1>2, WalksGoBack
  <2>2. b \in 1..Len(ms)
    BY <2>1, GoodParents
  <2>3. NearestIn(ms, m) \in DOMAIN sv
    BY <2>1, <2>2 DEF KeptIn
  <2> QED
    BY <1>2, <2>3 DEF History, SavedType
<1> QED
  BY <1>1, <1>2

\* The nearest checkpoint above goes on from every other above.
LEMMA NearestExtends ==
  ASSUME NEW ms, NEW sv, GoodMessages(ms), SavedType(sv), KeptIn(ms, sv)
  PROVE  \A m \in 0..Len(ms) : \A b \in ThreadIn(ms, m) :
           /\ b \in 1..Len(ms)
           /\ ms[b].checkpoint # None =>
                \/ History(sv, NearestIn(ms, m)) = History(sv, ms[b].checkpoint)
                \/ Extends(History(sv, NearestIn(ms, m)), History(sv, ms[b].checkpoint))
<1> DEFINE n == Len(ms)
           Reaches(m, b) == \/ History(sv, NearestIn(ms, m)) = History(sv, ms[b].checkpoint)
                            \/ Extends(History(sv, NearestIn(ms, m)), History(sv, ms[b].checkpoint))
           Holding(m) == \A b \in ThreadIn(ms, m) :
                        b \in 1..Len(ms) /\ (ms[b].checkpoint # None => Reaches(m, b))
           right == {m \in 0..n : Holding(m)}
<1>1. n \in Nat
  BY GoodParents
<1>2. ASSUME NEW m \in 0..n, \A j \in 0..n : j < m => j \in right
      PROVE  m \in right
  <2>1. CASE m = 0
    BY <2>1, ThreadUnfolds DEF None
  <2>2. CASE m # 0
    <3>1. m \in 1..n
      BY <1>1, <2>2
    <3> DEFINE p == ms[m].parent
    <3>2. p \in 0..n /\ p < m
      BY <3>1, GoodParents
    <3>3. Holding(p)
      BY <1>2, <3>2
    <3>4. ThreadIn(ms, m) = ThreadIn(ms, p) \cup {m}
      BY <3>1, ThreadUnfolds
    <3>5. CASE ms[m].checkpoint = None
      <4>1. NearestIn(ms, m) = NearestIn(ms, p)
        BY <3>1, <3>5, NearestUnfolds
      <4> HIDE DEF p
      <4> QED
        BY <3>1, <3>3, <3>4, <3>5, <4>1
    <3>6. CASE ms[m].checkpoint # None
      <4> DEFINE c == ms[m].checkpoint
      <4>1. NearestIn(ms, m) = c
        BY <3>1, <3>6, NearestUnfolds
      <4>2. NearestTo(ms, p) = NearestIn(ms, p)
        BY <3>1, <3>6, NearestAbove
      <4>3. Extends(History(sv, c), History(sv, NearestIn(ms, p)))
        BY <3>1, <3>6, <4>2 DEF KeptIn, History
      <4>4. History(sv, c) \in Seq(EntryType) /\ History(sv, NearestIn(ms, p)) \in Seq(EntryType)
        BY <3>1, <3>2, <4>1, NearestHeld
      <4>5. ASSUME NEW b \in ThreadIn(ms, p), ms[b].checkpoint # None
            PROVE  Extends(History(sv, c), History(sv, ms[b].checkpoint))
        <5>1. b \in 1..n /\ Reaches(p, b)
          BY <3>3, <4>5
        <5>2. NearestIn(ms, b) = ms[b].checkpoint
          BY <4>5, <5>1, NearestUnfolds
        <5>3. History(sv, ms[b].checkpoint) \in Seq(EntryType)
          BY <5>1, <5>2, NearestHeld
        <5> HIDE DEF c, p
        <5> QED
          BY <4>3, <4>4, <5>1, <5>3, ExtendsOn
      <4>6. ASSUME NEW b \in ThreadIn(ms, m) PROVE b \in 1..Len(ms) /\ (ms[b].checkpoint # None => Reaches(m, b))
        <5>1. CASE b = m
          BY <3>1, <4>1, <5>1
        <5>2. CASE b # m
          <6>1. b \in ThreadIn(ms, p)
            BY <3>4, <5>2
          <6> QED
            BY <3>3, <4>1, <4>5, <6>1
        <5> QED
          BY <5>1, <5>2
      <4> QED
        BY <4>6
    <3> QED
      BY <3>5, <3>6
  <2> QED
    BY <2>1, <2>2
<1>3. \A m \in 0..n : m \in right
  <2> HIDE DEF right
  <2> QED
    BY <1>1, <1>2, Induction
<1> QED
  BY <1>3
\* The places of a finished answer's history.
Places(ms, h, before, q) ==
  /\ h \in Seq(EntryType) /\ before \in Seq(EntryType)
  /\ Len(h) \in Nat /\ Len(before) \in Nat /\ Len(h) > Len(before) + 1
  /\ DOMAIN h = 1..Len(h) /\ DOMAIN before = 1..Len(before)
  /\ \A i \in 1..Len(before) : h[i] = before[i]
  /\ h[Len(before) + 1].what = "asked" /\ EarlierTo(ms, q) \subseteq h[Len(before) + 1].told
  /\ \A x \in h[Len(before) + 1].told \ EarlierTo(ms, q) : IsFailure(ms, x, q)
  /\ \A i \in (Len(before) + 2)..Len(h) : /\ h[i].question = q /\ h[i].told = {}
                                          /\ h[i].what = "answer" <=> i = Len(h)

LEMMA FinishedPlaces ==
  ASSUME NEW ms, NEW sv, GoodMessages(ms), SavedType(sv), KeptIn(ms, sv), AnswersShaped(ms, sv),
         NEW m \in 1..Len(ms), ms[m].checkpoint # None
  PROVE  Places(ms, sv[ms[m].checkpoint], History(sv, NearestTo(ms, ms[m].parent)), ms[m].parent)
<1> DEFINE h == sv[ms[m].checkpoint]
           q == ms[m].parent
           before == History(sv, NearestTo(ms, q))
<1>1. h \in Seq(EntryType) /\ HasFinished(h) /\ Extends(h, before)
  BY DEF KeptIn, SavedType
<1>2. before \in Seq(EntryType)
  <2>1. q \in 1..Len(ms) /\ ms[q].parent \in 0..Len(ms)
    BY GoodParents
  <2>2. History(sv, NearestIn(ms, ms[q].parent)) \in Seq(EntryType)
    BY <2>1, NearestHeld
  <2> QED
    BY <2>2 DEF NearestTo
<1>3. Shaped(ms, sv, h, q)
  BY DEF AnswersShaped
<1>4. /\ h[Len(before) + 1].what = "asked" /\ EarlierTo(ms, q) \subseteq h[Len(before) + 1].told
      /\ \A x \in h[Len(before) + 1].told \ EarlierTo(ms, q) : IsFailure(ms, x, q)
      /\ \A i \in (Len(before) + 2)..Len(h) : /\ h[i].question = q /\ h[i].told = {}
                                              /\ h[i].what = "answer" => i = Len(h)
  BY <1>3 DEF Shaped
<1> HIDE DEF h, q, before
<1>5. Len(h) > Len(before) /\ \A i \in 1..Len(before) : h[i] = before[i]
  BY <1>1, <1>2, HistoryExtends
<1>6. Len(h) \in Nat /\ Len(before) \in Nat /\ DOMAIN h = 1..Len(h) /\ DOMAIN before = 1..Len(before)
  BY <1>1, <1>2
<1>7. h[Len(h)].what = "answer"
  BY <1>1 DEF HasFinished
<1>8. Len(h) # Len(before) + 1
  BY <1>4, <1>7
<1>10. Len(h) > Len(before) + 1
  <2> DEFINE a == Len(h)
             b == Len(before)
  <2>1. a \in Nat /\ b \in Nat /\ a > b /\ a # b + 1
    BY <1>5, <1>6, <1>8
  <2> HIDE DEF a, b
  <2>2. a > b + 1
    BY <2>1
  <2> QED
    BY <2>2 DEF a, b
<1>11. \A i \in (Len(before) + 2)..Len(h) : /\ h[i].question = q /\ h[i].told = {}
                                            /\ h[i].what = "answer" <=> i = Len(h)
  BY <1>4, <1>6, <1>7
<1>9. Places(ms, h, before, q)
  BY <1>1, <1>2, <1>4, <1>5, <1>6, <1>10, <1>11 DEF Places
<1> QED
  BY <1>9 DEF h, q, before

\* A history speaks only of the questions above and of their answers.
LEMMA TellsOfAbove ==
  ASSUME NEW ms, NEW sv, GoodMessages(ms), SavedType(sv), KeptIn(ms, sv), AnswersShaped(ms, sv)
  PROVE  \A m \in 0..Len(ms) : \A i \in DOMAIN History(sv, NearestIn(ms, m)) :
           /\ \A x \in History(sv, NearestIn(ms, m))[i].told : x \in 1..Len(ms) /\ ms[x].parent < m
           /\ History(sv, NearestIn(ms, m))[i].what = "answer" =>
                History(sv, NearestIn(ms, m))[i].question < m
<1> DEFINE n == Len(ms)
           H(m) == History(sv, NearestIn(ms, m))
           Above0(e, m) == /\ \A x \in e.told : x \in 1..Len(ms) /\ ms[x].parent < m
                           /\ e.what = "answer" => e.question < m
           Limited(m) == \A i \in DOMAIN H(m) : Above0(H(m)[i], m)
           right == {m \in 0..n : Limited(m)}
<1>1. n \in Nat
  BY GoodParents
<1>9. ASSUME NEW m \in 0..n, NEW j \in 0..n, j < m, NEW e \in EntryType, Above0(e, j)
      PROVE  Above0(e, m)
  <2>1. \A x \in 1..Len(ms) : ms[x].parent \in Nat
    BY GoodParents
  <2>2. e.question \in Nat
    BY DEF EntryType
  <2> QED
    BY <1>9, <2>1, <2>2
<1>2. ASSUME NEW m \in 0..n, \A j \in 0..n : j < m => j \in right
      PROVE  m \in right
  <2>1. CASE m = 0
    <3>1. H(m) = <<>>
      BY <2>1, NearestUnfolds DEF None, History
    <3> QED
      BY <3>1
  <2>2. CASE m # 0
    <3>1. m \in 1..n
      BY <1>1, <2>2
    <3> DEFINE p == ms[m].parent
               g == ms[p].parent
    <3>2. p \in 0..n /\ p < m
      BY <3>1, GoodParents
    <3>3. CASE ms[m].checkpoint = None
      <4>1. H(m) = H(p)
        BY <3>1, <3>3, NearestUnfolds
      <4>2. Limited(p)
        BY <1>2, <3>2
      <4>3. H(p) \in Seq(EntryType)
        BY <3>2, NearestHeld
      <4> HIDE DEF H, p, Above0
      <4>4. \A i \in DOMAIN H(p) : H(p)[i] \in EntryType
        BY <4>3
      <4> QED
        BY <1>9, <3>2, <4>1, <4>2, <4>4
    <3>4. CASE ms[m].checkpoint # None
      <4> DEFINE h == sv[ms[m].checkpoint]
                 before == H(g)
                 k == Len(before)
      <4>1. /\ p \in 1..n /\ g \in 0..n /\ g < p /\ g < m
        BY <3>1, <3>4, NearestAbove
      <4>2. H(m) = h
        BY <3>1, <3>4, NearestUnfolds DEF History
      <4>3. /\ h \in Seq(EntryType) /\ before \in Seq(EntryType)
            /\ Len(h) \in Nat /\ k \in Nat /\ Len(h) > k + 1
            /\ DOMAIN h = 1..Len(h) /\ DOMAIN before = 1..k
            /\ \A i \in 1..k : h[i] = before[i]
            /\ h[k + 1].what = "asked"
            /\ \A x \in h[k + 1].told \ EarlierTo(ms, p) : IsFailure(ms, x, p)
            /\ \A i \in (k + 2)..Len(h) : h[i].question = p /\ h[i].told = {}
        <5>1. before = History(sv, NearestTo(ms, p))
          BY DEF NearestTo
        <5>2. Places(ms, h, History(sv, NearestTo(ms, p)), p)
          BY <3>1, <3>4, FinishedPlaces
        <5> HIDE DEF h, before, p, g
        <5> QED
          BY <5>1, <5>2 DEF Places, k
      <4>4. Limited(g)
        BY <1>2, <4>1
      <4>5. \A x \in EarlierTo(ms, p) : x \in 1..g
        BY <4>1, WalksGoBack DEF EarlierTo
      <4> HIDE DEF H, h, before, p, g, Above0
      <4>6. ASSUME NEW i \in 1..Len(h) PROVE Above0(h[i], m)
        <5>1. CASE i \in 1..k
          <6>1. before[i] \in EntryType
            BY <4>3, <5>1
          <6> QED
            BY <1>9, <4>1, <4>3, <4>4, <5>1, <6>1 DEF before
        <5>2. CASE i = k + 1
          <6>1. ASSUME NEW x \in h[i].told PROVE x \in 1..Len(ms) /\ ms[x].parent < m
            <7>1. CASE x \in EarlierTo(ms, p)
              <8>1. x \in 1..g /\ x \in 1..Len(ms)
                BY <1>1, <4>1, <4>5, <7>1
              <8>2. ms[x].parent \in Nat /\ ms[x].parent < x
                BY <8>1, GoodParents
              <8> QED
                BY <4>1, <8>1, <8>2
            <7>2. CASE x \notin EarlierTo(ms, p)
              BY <3>2, <4>3, <5>2, <6>1, <7>2 DEF IsFailure
            <7> QED
              BY <7>1, <7>2
          <6> QED
            BY <4>3, <5>2, <6>1 DEF Above0
        <5>3. CASE i \in (k + 2)..Len(h)
          BY <3>2, <4>3, <5>3 DEF Above0
        <5> QED
          BY <4>3, <5>1, <5>2, <5>3
      <4> QED
        BY <4>2, <4>3, <4>6
    <3> QED
      BY <3>3, <3>4
  <2> QED
    BY <2>1, <2>2
<1>3. \A m \in 0..n : m \in right
  <2> HIDE DEF right
  <2> QED
    BY <1>1, <1>2, Induction
<1> QED
  BY <1>3
\* The places of a history at which an answer is told.
TellsIn(ms, h, a) ==
  {i \in DOMAIN h : \/ a \in h[i].told
                    \/ h[i].what = "answer" /\ h[i].question = ms[a].parent}

\* At one place of the history, or in the note of failed answers.
OnceIn(ms, h, note, a) ==
  \/ a \in note /\ TellsIn(ms, h, a) = {}
  \/ a \notin note /\ \E i \in DOMAIN h : TellsIn(ms, h, a) = {i}

\* A finished answer's history tells what the one above it and the note under its question told.
LEMMA ToldBelow ==
  ASSUME NEW ms, GoodMessages(ms), NEW p \in 1..Len(ms),
         NEW h, NEW before, Places(ms, h, before, p),
         NEW a \in 1..Len(ms), a <= ms[p].parent,
         OnceIn(ms, before, EarlierTo(ms, p), a)
  PROVE  \E i \in DOMAIN h : TellsIn(ms, h, a) = {i}
<1> DEFINE k == Len(before)
<1>1. /\ Len(h) \in Nat /\ k \in Nat /\ Len(h) > k + 1
      /\ DOMAIN h = 1..Len(h) /\ DOMAIN before = 1..k
      /\ \A i \in 1..k : h[i] = before[i]
      /\ h[k + 1].what = "asked" /\ EarlierTo(ms, p) \subseteq h[k + 1].told
      /\ \A x \in h[k + 1].told \ EarlierTo(ms, p) : IsFailure(ms, x, p)
      /\ \A i \in (k + 2)..Len(h) : h[i].question = p /\ h[i].told = {}
  BY DEF Places
<1>2. ms[a].parent # p
  <2>1. ms[a].parent \in Nat /\ ms[a].parent < a
    BY GoodParents
  <2>2. a \in Nat /\ ms[p].parent \in Nat /\ ms[p].parent < p /\ p \in Nat
    BY GoodParents
  <2> QED
    BY <2>1, <2>2
<1> HIDE DEF k
<1>3. TellsIn(ms, h, a) = TellsIn(ms, before, a) \cup (IF a \in EarlierTo(ms, p) THEN {k + 1} ELSE {})
  <2>1. ASSUME NEW i \in 1..k PROVE i \in TellsIn(ms, h, a) <=> i \in TellsIn(ms, before, a)
    BY <1>1 DEF TellsIn
  <2>2. k + 1 \in TellsIn(ms, h, a) <=> a \in EarlierTo(ms, p)
    <3>1. k + 1 \in DOMAIN h
      BY <1>1
    <3>2. a \notin EarlierTo(ms, p) => a \notin h[k + 1].told
      BY <1>1, <1>2 DEF IsFailure
    <3> QED
      BY <1>1, <3>1, <3>2 DEF TellsIn
  <2>3. ASSUME NEW i \in (k + 2)..Len(h) PROVE i \notin TellsIn(ms, h, a)
    BY <1>1, <1>2 DEF TellsIn
  <2>4. TellsIn(ms, before, a) \subseteq 1..k /\ TellsIn(ms, h, a) \subseteq 1..Len(h)
    BY <1>1 DEF TellsIn
  <2>5. ASSUME NEW i \in 1..Len(h) PROVE i \in 1..k \/ i = k + 1 \/ i \in (k + 2)..Len(h)
    BY <1>1
  <2>6. k + 1 \notin 1..k
    BY <1>1
  <2> QED
    BY <2>1, <2>2, <2>3, <2>4, <2>5, <2>6
<1>4. CASE a \in EarlierTo(ms, p)
  <2>1. TellsIn(ms, h, a) = {k + 1} /\ k + 1 \in DOMAIN h
    BY <1>1, <1>3, <1>4 DEF OnceIn
  <2> QED
    BY <2>1
<1>5. CASE a \notin EarlierTo(ms, p)
  <2>1. PICK i \in DOMAIN before : TellsIn(ms, before, a) = {i}
    BY <1>5 DEF OnceIn
  <2>2. TellsIn(ms, h, a) = {i} /\ i \in DOMAIN h
    BY <1>1, <1>3, <1>5, <2>1
  <2> QED
    BY <2>2
<1> QED
  BY <1>4, <1>5

\* It tells its own answer at its end alone.
LEMMA ToldAtItsEnd ==
  ASSUME NEW ms, NEW m \in 1..Len(ms), NEW p, p = ms[m].parent, ~ms[m].failed,
         NEW h, NEW before, Places(ms, h, before, p),
         m \notin EarlierTo(ms, p), TellsIn(ms, before, m) = {}
  PROVE  \E i \in DOMAIN h : TellsIn(ms, h, m) = {i}
<1> DEFINE k == Len(before)
<1>1. /\ Len(h) \in Nat /\ k \in Nat /\ Len(h) > k + 1
      /\ DOMAIN h = 1..Len(h) /\ DOMAIN before = 1..k
      /\ \A i \in 1..k : h[i] = before[i]
      /\ h[k + 1].what = "asked"
      /\ \A x \in h[k + 1].told \ EarlierTo(ms, p) : IsFailure(ms, x, p)
      /\ \A i \in (k + 2)..Len(h) : h[i].question = p /\ h[i].told = {}
  BY DEF Places
<1>9. \A i \in (k + 2)..Len(h) : h[i].what = "answer" <=> i = Len(h)
  BY DEF Places
<1> HIDE DEF k
<1>2. m \notin h[k + 1].told
  BY <1>1 DEF IsFailure
<1>3. ASSUME NEW i \in 1..k PROVE i \notin TellsIn(ms, h, m)
  <2>1. i \in TellsIn(ms, h, m) <=> i \in TellsIn(ms, before, m)
    BY <1>1, <1>3 DEF TellsIn
  <2> QED
    BY <2>1
<1>4. k + 1 \notin TellsIn(ms, h, m)
  BY <1>1, <1>2 DEF TellsIn
<1>5. ASSUME NEW i \in (k + 2)..Len(h) PROVE i \in TellsIn(ms, h, m) <=> i = Len(h)
  <2>1. i \in DOMAIN h /\ h[i].question = ms[m].parent /\ m \notin h[i].told
    BY <1>1
  <2>2. i \in TellsIn(ms, h, m) <=> h[i].what = "answer"
    BY <2>1 DEF TellsIn
  <2> QED
    BY <1>9, <2>2
<1>6. TellsIn(ms, h, m) \subseteq 1..Len(h) /\ Len(h) \in 1..Len(h) /\ Len(h) \in (k + 2)..Len(h)
  BY <1>1 DEF TellsIn
<1>7. ASSUME NEW i \in 1..Len(h) PROVE i \in 1..k \/ i = k + 1 \/ i \in (k + 2)..Len(h)
  BY <1>1
<1>8. TellsIn(ms, h, m) = {Len(h)}
  BY <1>3, <1>4, <1>5, <1>6, <1>7
<1> QED
  BY <1>1, <1>6, <1>8

\* Every answer on the way up is told once.
LEMMA ToldOnceAbove ==
  ASSUME NEW ms, NEW sv, GoodMessages(ms), SavedType(sv), KeptIn(ms, sv), AnswersShaped(ms, sv)
  PROVE  \A m \in 0..Len(ms) : \A a \in ToldIn(ms, m) :
           OnceIn(ms, History(sv, NearestIn(ms, m)), EarlierIn(ms, m), a)
<1> DEFINE n == Len(ms)
           H(m) == History(sv, NearestIn(ms, m))
           AllOnce(m) == \A a \in ToldIn(ms, m) : OnceIn(ms, H(m), EarlierIn(ms, m), a)
           right == {m \in 0..n : AllOnce(m)}
<1>1. n \in Nat
  BY GoodParents
<1>2. ASSUME NEW m \in 0..n, \A j \in 0..n : j < m => j \in right
      PROVE  m \in right
  <2>1. CASE m = 0
    BY <2>1, ToldUnfolds DEF None
  <2>2. CASE m # 0 /\ ms[m].role # "assistant"
    <3>1. m \in 1..n
      BY <1>1, <2>2
    <3>2. ToldIn(ms, m) = {}
      BY <2>2, <3>1, ToldUnfolds
    <3> QED
      BY <3>2
  <2>3. CASE m # 0 /\ ms[m].role = "assistant"
    <3>1. m \in 1..n
      BY <1>1, <2>3
    <3> DEFINE p == ms[m].parent
               g == ms[p].parent
    <3>2. ms[m].checkpoint # None \/ ms[m].failed
      BY <2>3, <3>1, GoodParents
    <3>3. /\ p \in 1..n /\ p < m /\ g \in 0..n /\ g < p /\ g < m
          /\ NearestIn(ms, p) = NearestTo(ms, p) /\ p \in Nat /\ g \in Nat /\ m \in Nat
      <4>1. /\ p \in 1..n /\ p < m /\ g \in 0..n /\ g < p /\ g < m
            /\ NearestIn(ms, p) = NearestTo(ms, p)
        BY <3>1, <3>2, NearestAbove
      <4> QED
        BY <1>1, <4>1
    <3>4. ToldIn(ms, m) = ToldIn(ms, g) \cup {m}
      BY <2>3, <3>1, ToldUnfolds
    <3>5. AllOnce(g)
      BY <1>2, <3>3
    <3>6. \A a \in ToldIn(ms, g) : a \in 1..n /\ a <= g /\ a # m
      <4>1. ToldIn(ms, g) \subseteq 1..g
        BY <3>3, WalksGoBack
      <4> HIDE DEF g
      <4> QED
        BY <3>1, <3>3, <4>1
    <3>7. \A i \in DOMAIN H(g) : /\ \A x \in H(g)[i].told : x \in 1..n /\ ms[x].parent < g
                                 /\ H(g)[i].what = "answer" => H(g)[i].question < g
      BY <3>3, TellsOfAbove
    <3>8. TellsIn(ms, H(g), m) = {}
      <4> HIDE DEF H, g
      <4>1. ASSUME NEW i \in DOMAIN H(g) PROVE i \notin TellsIn(ms, H(g), m)
        <5>1. m \notin H(g)[i].told
          BY <3>3, <3>7
        <5>2. H(g)[i].what = "answer" => H(g)[i].question # p
          BY <3>3, <3>7
        <5> QED
          BY <5>1, <5>2 DEF TellsIn
      <4> QED
        BY <4>1 DEF TellsIn
    <3>9. EarlierTo(ms, p) = EarlierIn(ms, g) /\ NearestTo(ms, p) = NearestIn(ms, g)
      BY DEF EarlierTo, NearestTo
    <3>10. CASE ms[m].failed
      <4>1. ms[m].checkpoint = None
        BY <2>3, <3>1, <3>10, GoodParents
      <4>2. H(m) = H(g)
        BY <3>1, <3>3, <3>9, <4>1, NearestUnfolds
      <4>3. EarlierIn(ms, m) = EarlierIn(ms, g) \cup {m}
        BY <3>1, <3>10, EarlierUnfolds
      <4> HIDE DEF H, g, p
      <4>4. ASSUME NEW a \in ToldIn(ms, m) PROVE OnceIn(ms, H(m), EarlierIn(ms, m), a)
        <5>1. CASE a = m
          BY <3>8, <4>2, <4>3, <5>1 DEF OnceIn
        <5>2. CASE a # m
          BY <3>4, <3>5, <4>2, <4>3, <5>2 DEF OnceIn
        <5> QED
          BY <5>1, <5>2
      <4> QED
        BY <4>4
    <3>11. CASE ~ms[m].failed
      <4> DEFINE h == sv[ms[m].checkpoint]
      <4>1. ms[m].checkpoint # None
        BY <3>2, <3>11
      <4>2. H(m) = h /\ EarlierIn(ms, m) = {}
        BY <3>1, <3>11, <4>1, NearestUnfolds, EarlierUnfolds DEF History
      <4>3. Places(ms, h, H(g), p)
        BY <3>1, <3>9, <4>1, FinishedPlaces
      <4> HIDE DEF H, h
      <4>4. ASSUME NEW a \in ToldIn(ms, m) PROVE OnceIn(ms, H(m), EarlierIn(ms, m), a)
        <5>1. CASE a = m
          <6>1. m \notin EarlierTo(ms, p)
            <7>1. EarlierIn(ms, g) \subseteq 1..g
              BY <3>3, WalksGoBack
            <7> HIDE DEF g
            <7> QED
              BY <3>3, <3>9, <7>1
          <6>2. \E i \in DOMAIN h : TellsIn(ms, h, m) = {i}
            BY <3>1, <3>8, <3>11, <4>3, <6>1, ToldAtItsEnd
          <6> QED
            BY <4>2, <5>1, <6>2 DEF OnceIn
        <5>2. CASE a # m
          <6>1. a \in ToldIn(ms, g) /\ a \in 1..n /\ a <= g
            BY <3>4, <3>6, <5>2
          <6>2. OnceIn(ms, H(g), EarlierTo(ms, p), a)
            BY <3>5, <3>9, <6>1
          <6>3. \E i \in DOMAIN h : TellsIn(ms, h, a) = {i}
            BY <3>3, <4>3, <6>1, <6>2, ToldBelow
          <6> QED
            BY <4>2, <6>3 DEF OnceIn
        <5> QED
          BY <5>1, <5>2
      <4> QED
        BY <4>4
    <3> QED
      BY <3>10, <3>11
  <2> QED
    BY <2>1, <2>2, <2>3
<1>3. \A m \in 0..n : m \in right
  <2> HIDE DEF right
  <2> QED
    BY <1>1, <1>2, Induction
<1> QED
  BY <1>3
-----------------------------------------------------------------------------
(* What stays as messages are added and turns are saved                    *)

Grows(ms, more) ==
  /\ GoodMessages(ms) /\ GoodMessages(more) /\ Len(ms) <= Len(more)
  /\ \A m \in 1..Len(ms) : more[m] = ms[m]

\* What finished answers go on from is not saved over.
SavesOn(ms, sv, later) ==
  /\ SavedType(sv) /\ SavedType(later)
  /\ \A a \in 1..Len(ms) : ms[a].checkpoint # None =>
       ms[a].checkpoint \in DOMAIN later /\ later[ms[a].checkpoint] = sv[ms[a].checkpoint]

LEMMA PlacesStay ==
  ASSUME NEW ms, NEW more, Grows(ms, more), NEW q \in 1..Len(ms)
  PROVE  /\ q \in 1..Len(more) /\ more[q] = ms[q]
         /\ NearestTo(more, q) = NearestTo(ms, q)
         /\ EarlierTo(more, q) = EarlierTo(ms, q)
<1>1. q \in 1..Len(more) /\ more[q] = ms[q] /\ ms[q].parent \in 0..Len(ms)
  <2>1. Len(ms) \in Nat /\ Len(more) \in Nat /\ ms[q].parent \in 0..Len(ms)
    BY GoodParents DEF Grows
  <2> QED
    BY <2>1 DEF Grows
<1>2. /\ NearestIn(more, ms[q].parent) = NearestIn(ms, ms[q].parent)
      /\ EarlierIn(more, ms[q].parent) = EarlierIn(ms, ms[q].parent)
  BY <1>1, WalksStay DEF Grows
<1> QED
  BY <1>1, <1>2 DEF NearestTo, EarlierTo

LEMMA HistoryStays ==
  ASSUME NEW ms, NEW more, Grows(ms, more), NEW sv, NEW later, SavesOn(ms, sv, later),
         NEW q \in 1..Len(ms)
  PROVE  History(later, NearestTo(more, q)) = History(sv, NearestTo(ms, q))
<1>1. NearestTo(more, q) = NearestTo(ms, q)
  BY PlacesStay
<1>2. ms[q].parent \in 0..Len(ms) /\ Len(ms) \in Nat
  BY GoodParents DEF Grows
<1>3. CASE NearestTo(ms, q) = None
  BY <1>1, <1>3 DEF History
<1>4. CASE NearestTo(ms, q) # None
  <2>1. PICK b \in 1..ms[q].parent : ms[b].checkpoint # None /\ ms[b].checkpoint = NearestTo(ms, q)
    BY <1>2, <1>4, WalksGoBack DEF NearestTo, Grows
  <2>2. b \in 1..Len(ms)
    BY <1>2, <2>1
  <2> QED
    BY <1>1, <1>4, <2>1, <2>2 DEF History, SavesOn
<1> QED
  BY <1>3, <1>4

\* What is kept of one finished answer.
KeptOf(ms, sv, a) ==
  /\ ms[a].checkpoint \in DOMAIN sv
  /\ HasFinished(sv[ms[a].checkpoint])
  /\ Extends(sv[ms[a].checkpoint], History(sv, NearestTo(ms, ms[a].parent)))

LEMMA KeptStays ==
  ASSUME NEW ms, NEW more, Grows(ms, more), NEW sv, NEW later, SavesOn(ms, sv, later),
         KeptIn(ms, sv),
         \A a \in (Len(ms) + 1)..Len(more) : more[a].checkpoint # None => KeptOf(more, later, a)
  PROVE  KeptIn(more, later)
<1>1. Len(ms) \in Nat /\ Len(more) \in Nat
  BY GoodParents DEF Grows
<1>2. ASSUME NEW a \in 1..Len(ms), ms[a].checkpoint # None PROVE KeptOf(more, later, a)
  <2>1. more[a] = ms[a]
    BY <1>2 DEF Grows
  <2>2. ms[a].parent \in 1..Len(ms)
    BY <1>2, NearestAbove DEF Grows
  <2>3. History(later, NearestTo(more, ms[a].parent)) = History(sv, NearestTo(ms, ms[a].parent))
    BY <2>2, HistoryStays
  <2>4. ms[a].checkpoint \in DOMAIN later /\ later[ms[a].checkpoint] = sv[ms[a].checkpoint]
    BY <1>2 DEF SavesOn
  <2>5. /\ HasFinished(sv[ms[a].checkpoint])
        /\ Extends(sv[ms[a].checkpoint], History(sv, NearestTo(ms, ms[a].parent)))
    BY <1>2 DEF KeptIn
  <2> QED
    BY <2>1, <2>3, <2>4, <2>5 DEF KeptOf
<1>3. ASSUME NEW a \in 1..Len(more), more[a].checkpoint # None PROVE KeptOf(more, later, a)
  <2>1. CASE a \in 1..Len(ms)
    BY <1>2, <1>3, <2>1 DEF Grows
  <2>2. CASE a \notin 1..Len(ms)
    <3>1. a \in (Len(ms) + 1)..Len(more)
      BY <1>1, <2>2
    <3> QED
      BY <1>3, <3>1
  <2> QED
    BY <2>1, <2>2
<1> QED
  BY <1>3 DEF KeptIn, KeptOf

LEMMA ShapedStays ==
  ASSUME NEW ms, NEW more, Grows(ms, more), NEW sv, NEW later, SavesOn(ms, sv, later),
         NEW q \in 1..Len(ms), NEW h, Shaped(ms, sv, h, q)
  PROVE  Shaped(more, later, h, q)
<1>1. History(later, NearestTo(more, q)) = History(sv, NearestTo(ms, q))
  BY HistoryStays
<1>2. EarlierTo(more, q) = EarlierTo(ms, q)
  BY PlacesStay
<1>3. ASSUME NEW m, IsFailure(ms, m, q) PROVE IsFailure(more, m, q)
  <2>1. m \in 1..Len(ms) /\ m \in 1..Len(more) /\ more[m] = ms[m]
    BY <1>3, PlacesStay DEF IsFailure
  <2> QED
    BY <1>3, <2>1 DEF IsFailure
<1> QED
  BY <1>1, <1>2, <1>3 DEF Shaped

LEMMA AnswersShapedStay ==
  ASSUME NEW ms, NEW more, Grows(ms, more), NEW sv, NEW later, SavesOn(ms, sv, later),
         AnswersShaped(ms, sv),
         \A a \in (Len(ms) + 1)..Len(more) : more[a].checkpoint # None =>
           Shaped(more, later, later[more[a].checkpoint], more[a].parent)
  PROVE  AnswersShaped(more, later)
<1>1. Len(ms) \in Nat /\ Len(more) \in Nat
  BY GoodParents DEF Grows
<1>2. ASSUME NEW a \in 1..Len(more), more[a].checkpoint # None
      PROVE  Shaped(more, later, later[more[a].checkpoint], more[a].parent)
  <2>1. CASE a \in 1..Len(ms)
    <3>1. more[a] = ms[a]
      BY <2>1 DEF Grows
    <3>2. ms[a].parent \in 1..Len(ms)
      BY <1>2, <2>1, <3>1, NearestAbove DEF Grows
    <3>3. Shaped(ms, sv, sv[ms[a].checkpoint], ms[a].parent)
      BY <1>2, <2>1, <3>1 DEF AnswersShaped
    <3>4. later[ms[a].checkpoint] = sv[ms[a].checkpoint]
      BY <1>2, <2>1, <3>1 DEF SavesOn
    <3> QED
      BY <3>1, <3>2, <3>3, <3>4, ShapedStays
  <2>2. CASE a \notin 1..Len(ms)
    <3>1. a \in (Len(ms) + 1)..Len(more)
      BY <1>1, <2>2
    <3> QED
      BY <1>2, <3>1
  <2> QED
    BY <2>1, <2>2
<1> QED
  BY <1>2 DEF AnswersShaped

-----------------------------------------------------------------------------
(* The invariant                                                           *)

CallType ==
  [op : {"none", "start", "ask", "again"}, question : Nat, parent : Nat, retries : Nat,
   resume : BOOLEAN]

TurnType ==
  [state : {"queued", "running", "ended"}, create : BOOLEAN, follows : Nat, retries : Nat,
   resume : BOOLEAN]

Asked == {"streaming", "saving", "answering", "answered", "done"}

RunnerType ==
  [pc : {"none", "gone", "claimed", "created", "asked"} \cup Asked, base : Nat,
   quoted : SUBSET Nat, own : Nat, history : Seq(EntryType)]

TypesInv ==
  /\ engine \in Engines /\ known \in BOOLEAN /\ latest \in Nat /\ SavedType(saved)
  /\ GoodMessages(messages)
  /\ turns \in Seq(TurnType) /\ Len(turns) <= MaxTurns
  /\ call \in [Clients -> CallType]
  /\ runner \in [1..MaxTurns -> RunnerType]
  /\ pauses \in 0..Pauses /\ overlapped \in BOOLEAN /\ mixed \in BOOLEAN

HasAsked(h) == \E i \in DOMAIN h : h[i].what = "asked"

\* A turn answers a question, and one that retries replaces a failed answer to it.
TurnOK(ms, turn) ==
  /\ IsQuestion(ms, turn.follows)
  /\ turn.retries # None => IsFailure(ms, turn.retries, turn.follows)

\* What a call read is still so.
CallOK(ms, k) ==
  \/ k = NoCall
  \/ k.op \in {"start", "ask"} /\ k.parent \in 0..Len(ms) /\ k.retries = None
  \/ /\ k.op = "again" /\ IsQuestion(ms, k.question)
     /\ k.retries # None => IsFailure(ms, k.retries, k.question)

\* A runner that asked did so from the checkpoint and with the note of its turn's question.
RunnerOK(ms, ts, t, r) ==
  /\ r.pc # "none" => t \in 1..Len(ts) /\ ts[t].state # "queued"
  /\ r.pc \in Asked \cup {"asked"} =>
       /\ r.own # None
       /\ r.base = NearestTo(ms, ts[t].follows)
       /\ r.quoted = EarlierTo(ms, ts[t].follows)
  /\ r.pc \in Asked => HasAsked(r.history)

\* Each answer is a turn's; only the last turn may be active.
TurnsInv ==
  /\ \A m \in 1..Len(messages) : messages[m].role = "assistant" => messages[m].turn \in 1..Len(turns)
  /\ \A t \in 1..Len(turns) : TurnOK(messages, turns[t]) /\ (IsActive(t) => t = Len(turns))

EngineInv ==
  /\ engine = "langchain" => DOMAIN saved = 1..latest
  /\ latest # None => latest \in DOMAIN saved
  /\ \A t \in 1..MaxTurns : runner[t].pc = "answered" => latest # None
  /\ \A c \in DOMAIN saved : HasAsked(saved[c])

PlainInv ==
  /\ TypesInv /\ TurnsInv /\ EngineInv
  /\ \A c \in Clients : CallOK(messages, call[c])
  /\ \A t \in 1..MaxTurns : RunnerOK(messages, turns, t, runner[t])

Unkept(c) == \A a \in 1..Len(messages) : messages[a].checkpoint # c

\* What an active turn saved, and what its runner holds.
ActiveOK(t) ==
  /\ engine = "pydantic-ai" =>
       /\ runner[t].pc \in {"none", "claimed", "created", "asked"} => t \notin DOMAIN saved
       /\ runner[t].pc = "asked" => runner[t].own = t
       /\ runner[t].pc \in {"streaming", "saving", "answering"} =>
            Unkept(runner[t].own) /\ runner[t].own \in 1..Len(turns)
  /\ runner[t].pc \in Asked => Extends(runner[t].history, History(saved, runner[t].base))
  /\ runner[t].pc \in {"answering", "answered", "done"} => HasFinished(runner[t].history)
  /\ runner[t].pc = "answered" => saved[latest] = runner[t].history
  /\ runner[t].pc = "done" =>
       runner[t].own \in DOMAIN saved /\ saved[runner[t].own] = runner[t].history

MemoryInv ==
  /\ KeptIn(messages, saved)
  /\ engine = "pydantic-ai" => DOMAIN saved \subseteq 1..Len(turns)
  /\ \A t \in 1..Len(turns) : IsActive(t) => ActiveOK(t)

ActiveShaped(t) ==
  runner[t].pc \in Asked =>
    /\ Shaped(messages, saved, runner[t].history, turns[t].follows)
    /\ runner[t].pc \in {"streaming", "saving"} => ~HasFinished(runner[t].history)

ShapesInv ==
  /\ AnswersShaped(messages, saved)
  /\ \A c \in DOMAIN saved :
       \E q \in 1..Len(messages) : Shaped(messages, saved, saved[c], q)
  /\ \A t \in 1..Len(turns) : IsActive(t) => ActiveShaped(t)

\* A runner that outlived its lease may save over what was kept; a resume that went on with
\* the turn of another question mixes the two in one history.
ConversationInv ==
  /\ PlainInv
  /\ ~overlapped => MemoryInv
  /\ ~overlapped /\ ~mixed => ShapesInv
-----------------------------------------------------------------------------
(* What the invariant gives                                                *)

LEMMA MessagesDomain ==
  ASSUME TypesInv
  PROVE  /\ DOMAIN messages = 1..Len(messages) /\ Len(messages) \in Nat
         /\ DOMAIN turns = 1..Len(turns) /\ Len(turns) \in Nat /\ MaxTurns \in Nat
         /\ \A t \in 1..Len(turns) : turns[t] \in TurnType /\ t \in 1..MaxTurns
<1>1. MaxTurns \in Nat
  BY ThreadAssumption
<1>2. DOMAIN messages = 1..Len(messages) /\ Len(messages) \in Nat
  BY GoodParents DEF TypesInv
<1>3. turns \in Seq(TurnType) /\ Len(turns) <= MaxTurns
  BY DEF TypesInv
<1> QED
  BY <1>1, <1>2, <1>3

\* The tree of messages is well formed, and at most one turn is active.
LEMMA ThreadTypeOKHolds ==
  ASSUME ConversationInv
  PROVE  ThreadTypeOK
<1>1. TypesInv /\ TurnsInv
  BY DEF ConversationInv, PlainInv
<1>2. /\ DOMAIN messages = 1..Len(messages) /\ Len(messages) \in Nat
      /\ DOMAIN turns = 1..Len(turns) /\ Len(turns) \in Nat
  BY <1>1, MessagesDomain
<1>3. GoodMessages(messages)
  BY <1>1 DEF TypesInv
<1>4. ASSUME NEW m \in DOMAIN messages
      PROVE  /\ messages[m].parent \in 0..(m - 1)
             /\ messages[m].role = "assistant" => /\ messages[messages[m].parent].role = "user"
                                                 /\ messages[m].turn \in DOMAIN turns
                                                 /\ messages[m].failed <=> messages[m].checkpoint = None
  <2>1. messages[m].parent \in 0..(m - 1)
    BY <1>2, <1>3 DEF GoodMessages
  <2>2. messages[m].role = "assistant" => messages[m].turn \in DOMAIN turns
    BY <1>1, <1>2 DEF TurnsInv
  <2>3. messages[m].role = "assistant" => /\ messages[messages[m].parent].role = "user"
                                          /\ messages[m].failed <=> messages[m].checkpoint = None
    BY <1>2, <1>3, GoodParents
  <2> QED
    BY <2>1, <2>2, <2>3
<1>5. ASSUME NEW t \in DOMAIN turns PROVE messages[turns[t].follows].role = "user"
  BY <1>1, <1>2 DEF TurnsInv, TurnOK, IsQuestion
<1>6. Cardinality({t \in DOMAIN turns : IsActive(t)}) <= 1
  <2> DEFINE active == {t \in DOMAIN turns : IsActive(t)}
  <2>1. active \subseteq {Len(turns)}
    BY <1>1, <1>2 DEF TurnsInv
  <2>2. IsFiniteSet({Len(turns)}) /\ Cardinality({Len(turns)}) = 1
    BY FS_Singleton
  <2> HIDE DEF active
  <2>3. Cardinality(active) <= 1
    BY <2>1, <2>2, FS_Subset
  <2> QED
    BY <2>3 DEF active
<1>7. DOMAIN call = Clients /\ pauses \in 0..Pauses /\ engine \in Engines /\ known \in BOOLEAN
  BY <1>1 DEF TypesInv
<1> QED
  BY <1>4, <1>5, <1>6, <1>7 DEF ThreadTypeOK

LEMMA RemembersAboveHolds ==
  ASSUME ConversationInv
  PROVE  RemembersAbove
<1> SUFFICES ASSUME ~overlapped,
                    NEW a \in DOMAIN messages, messages[a].checkpoint # None
             PROVE  /\ Holds(messages[a].checkpoint)
                    /\ HasFinished(HistoryAt(messages[a].checkpoint))
                    /\ \A b \in Above(a) : messages[b].checkpoint # None =>
                         Extends(HistoryAt(messages[a].checkpoint), HistoryAt(messages[b].checkpoint))
  BY DEF RemembersAbove
<1>1. /\ GoodMessages(messages) /\ SavedType(saved) /\ KeptIn(messages, saved)
      /\ a \in 1..Len(messages)
  BY MessagesDomain DEF ConversationInv, PlainInv, TypesInv, MemoryInv
<1> DEFINE p == messages[a].parent
           c == messages[a].checkpoint
<1>2. /\ p \in 1..Len(messages) /\ p \in 0..Len(messages)
      /\ NearestIn(messages, p) = NearestTo(messages, p)
  <2>1. Len(messages) \in Nat
    BY <1>1, GoodParents
  <2> QED
    BY <1>1, <2>1, NearestAbove
<1>3. /\ c \in DOMAIN saved /\ HasFinished(saved[c]) /\ HistoryAt(c) = saved[c]
      /\ Extends(saved[c], History(saved, NearestIn(messages, p)))
  BY <1>1, <1>2 DEF KeptIn, HistoryAt
<1>4. ASSUME NEW b \in Above(a), messages[b].checkpoint # None
      PROVE  Extends(HistoryAt(c), HistoryAt(messages[b].checkpoint))
  <2>1. b \in ThreadIn(messages, p)
    BY <1>4, WalksAreThose
  <2>2. /\ b \in 1..Len(messages)
        /\ \/ History(saved, NearestIn(messages, p)) = History(saved, messages[b].checkpoint)
           \/ Extends(History(saved, NearestIn(messages, p)), History(saved, messages[b].checkpoint))
    BY <1>1, <1>2, <1>4, <2>1, NearestExtends
  <2>3. /\ History(saved, NearestIn(messages, p)) \in Seq(EntryType)
        /\ saved[c] \in Seq(EntryType)
    BY <1>1, <1>2, <1>3, NearestHeld DEF SavedType
  <2>4. NearestIn(messages, b) = messages[b].checkpoint /\ b \in 0..Len(messages)
    BY <1>1, <1>4, <2>2, NearestUnfolds
  <2>5. History(saved, messages[b].checkpoint) \in Seq(EntryType)
    BY <1>1, <2>4, NearestHeld
  <2>6. HistoryAt(messages[b].checkpoint) = History(saved, messages[b].checkpoint)
    BY DEF HistoryAt, History
  <2> HIDE DEF c, p
  <2> QED
    BY <1>3, <2>2, <2>3, <2>5, <2>6, ExtendsOn
<1> QED
  BY <1>3, <1>4 DEF Holds

LEMMA ToldOnceHolds ==
  ASSUME ConversationInv
  PROVE  ToldOnce
<1> SUFFICES ASSUME ~overlapped, ~mixed,
                    NEW t \in DOMAIN turns, runner[t].pc = "asked",
                    NEW a \in Told(turns[t].follows)
             PROVE  /\ a # turns[t].retries
                    /\ TimesTold(a, HistoryAt(runner[t].base)) + Cardinality(runner[t].quoted \cap {a}) = 1
  BY DEF ToldOnce
<1> DEFINE q == turns[t].follows
           m == messages[q].parent
           h == HistoryAt(runner[t].base)
<1>1. /\ GoodMessages(messages) /\ SavedType(saved) /\ KeptIn(messages, saved)
      /\ AnswersShaped(messages, saved) /\ t \in 1..Len(turns) /\ t \in 1..MaxTurns
  BY MessagesDomain DEF ConversationInv, PlainInv, TypesInv, MemoryInv, ShapesInv
<1>2. /\ TurnOK(messages, turns[t])
      /\ runner[t].base = NearestTo(messages, q) /\ runner[t].quoted = EarlierTo(messages, q)
  BY <1>1 DEF ConversationInv, PlainInv, TurnsInv, RunnerOK
<1>3. q \in 1..Len(messages) /\ m \in 0..Len(messages) /\ m < q /\ q \in Nat /\ m \in Nat
  <2>1. q \in 1..Len(messages)
    BY <1>2 DEF TurnOK, IsQuestion
  <2> QED
    BY <1>1, <2>1, GoodParents
<1>4. a \in ToldIn(messages, m)
  BY WalksAreThose
<1>5. OnceIn(messages, History(saved, NearestIn(messages, m)), EarlierIn(messages, m), a)
  BY <1>1, <1>3, <1>4, ToldOnceAbove
<1>6. h = History(saved, NearestIn(messages, m)) /\ runner[t].quoted = EarlierIn(messages, m)
  BY <1>2 DEF HistoryAt, History, NearestTo, EarlierTo
<1>7. a # turns[t].retries
  <2>1. ToldIn(messages, m) \subseteq 1..m
    BY <1>1, <1>3, WalksGoBack
  <2>2. a \in Nat /\ a < q /\ a # None
    <3> HIDE DEF q, m
    <3> QED
      BY <1>3, <1>4, <2>1 DEF None
  <2>3. CASE turns[t].retries = None
    BY <2>2, <2>3
  <2>4. CASE turns[t].retries # None
    <3> DEFINE r == turns[t].retries
    <3>1. r \in 1..Len(messages) /\ messages[r].parent = q
      BY <1>2, <2>4 DEF TurnOK, IsFailure
    <3>2. q < r
      BY <1>1, <3>1, GoodParents
    <3> QED
      BY <1>3, <2>2, <3>1, <3>2
  <2> QED
    BY <2>3, <2>4
<1>8. TimesTold(a, h) = Cardinality(TellsIn(messages, h, a))
  BY DEF TimesTold, TellsIn
<1> HIDE DEF h
<1>9. CASE a \in runner[t].quoted /\ TellsIn(messages, h, a) = {}
  <2>1. runner[t].quoted \cap {a} = {a}
    BY <1>9
  <2>2. Cardinality({a}) = 1
    BY FS_Singleton
  <2>3. Cardinality({}) = 0
    BY FS_EmptySet
  <2>4. TimesTold(a, h) = 0 /\ Cardinality(runner[t].quoted \cap {a}) = 1
    BY <1>8, <1>9, <2>1, <2>2, <2>3
  <2> QED
    BY <1>7, <2>4 DEF h
<1>10. CASE a \notin runner[t].quoted /\ \E i \in DOMAIN h : TellsIn(messages, h, a) = {i}
  <2>1. runner[t].quoted \cap {a} = {}
    BY <1>10
  <2>2. PICK i \in DOMAIN h : TellsIn(messages, h, a) = {i}
    BY <1>10
  <2>3. Cardinality({i}) = 1
    BY FS_Singleton
  <2>4. Cardinality({}) = 0
    BY FS_EmptySet
  <2>5. TimesTold(a, h) = 1 /\ Cardinality(runner[t].quoted \cap {a}) = 0
    BY <1>8, <2>1, <2>2, <2>3, <2>4
  <2> QED
    BY <1>7, <2>5 DEF h
<1> QED
  BY <1>5, <1>6, <1>9, <1>10 DEF OnceIn
-----------------------------------------------------------------------------
(* The initial states, and what a step must show                           *)

LEMMA ConversationInit ==
  ASSUME Init
  PROVE  ConversationInv
<1>1. messages = <<>> /\ turns = <<>> /\ saved = [c \in {} |-> <<>>] /\ latest = 0
  BY DEF Init, EngineInit, None
<1>2. Len(messages) = 0 /\ Len(turns) = 0 /\ DOMAIN saved = {} /\ 1..0 = {}
  BY <1>1
<1>3. MaxTurns \in Nat /\ Pauses \in Nat
  BY ThreadAssumption
<1>4. call = [c \in Clients |-> NoCall] /\ runner = [t \in 1..MaxTurns |-> NoRunner]
  BY DEF Init
<1>5. NoCall \in CallType /\ NoRunner \in RunnerType
  BY DEF NoCall, NoRunner, CallType, RunnerType, None, EntryType
<1>6. TypesInv
  <2>1. GoodMessages(messages)
    BY <1>1 DEF GoodMessages
  <2>2. turns \in Seq(TurnType) /\ Len(turns) <= MaxTurns
    BY <1>1, <1>3
  <2>3. call \in [Clients -> CallType] /\ runner \in [1..MaxTurns -> RunnerType]
    BY <1>4, <1>5
  <2>4. engine \in Engines /\ known = FALSE /\ overlapped = FALSE /\ mixed = FALSE /\ pauses = 0
    BY DEF Init, EngineInit
  <2>5. latest \in Nat /\ SavedType(saved) /\ pauses \in 0..Pauses
    BY <1>1, <1>2, <1>3, <2>4 DEF SavedType
  <2> QED
    BY <2>1, <2>2, <2>3, <2>4, <2>5 DEF TypesInv
<1>7. TurnsInv
  BY <1>2 DEF TurnsInv
<1>8. ASSUME NEW t \in 1..MaxTurns PROVE runner[t].pc = "none"
  BY <1>4 DEF NoRunner
<1>9. EngineInv
  BY <1>1, <1>2, <1>8 DEF EngineInv, None
<1>10. \A c \in Clients : CallOK(messages, call[c])
  BY <1>4 DEF CallOK
<1>11. \A t \in 1..MaxTurns : RunnerOK(messages, turns, t, runner[t])
  BY <1>8 DEF RunnerOK, Asked
<1>12. MemoryInv /\ ShapesInv
  BY <1>2 DEF MemoryInv, ShapesInv, KeptIn, AnswersShaped
<1> QED
  BY <1>6, <1>7, <1>9, <1>10, <1>11, <1>12 DEF ConversationInv, PlainInv

\* Turns are added, and those there leave the queue; what they answer stays.
TurnsMove(ts, later) ==
  /\ Len(ts) <= Len(later)
  /\ \A t \in 1..Len(ts) :
       /\ later[t].follows = ts[t].follows /\ later[t].retries = ts[t].retries
       /\ ts[t].state # "queued" => later[t].state # "queued"

LEMMA FailuresStay ==
  ASSUME NEW ms, NEW more, Grows(ms, more)
  PROVE  /\ Len(ms) \in Nat /\ Len(more) \in Nat /\ Len(ms) <= Len(more)
         /\ \A q : IsQuestion(ms, q) => IsQuestion(more, q)
         /\ \A m, q : IsFailure(ms, m, q) => IsFailure(more, m, q)
         /\ \A k : CallOK(ms, k) => CallOK(more, k)
         /\ \A turn : TurnOK(ms, turn) => TurnOK(more, turn)
<1>1. Len(ms) \in Nat /\ Len(more) \in Nat /\ Len(ms) <= Len(more)
  BY GoodParents DEF Grows
<1>2. ASSUME NEW q, IsQuestion(ms, q) PROVE IsQuestion(more, q)
  BY <1>2, PlacesStay DEF IsQuestion
<1>3. ASSUME NEW m, NEW q, IsFailure(ms, m, q) PROVE IsFailure(more, m, q)
  <2>1. m \in 1..Len(ms) /\ m \in 1..Len(more) /\ more[m] = ms[m]
    BY <1>3, PlacesStay DEF IsFailure
  <2> QED
    BY <1>3, <2>1 DEF IsFailure
<1>4. ASSUME NEW k, CallOK(ms, k) PROVE CallOK(more, k)
  <2>1. \A p \in 0..Len(ms) : p \in 0..Len(more)
    BY <1>1
  <2> QED
    BY <1>2, <1>3, <1>4, <2>1 DEF CallOK
<1>5. ASSUME NEW turn, TurnOK(ms, turn) PROVE TurnOK(more, turn)
  BY <1>2, <1>3, <1>5 DEF TurnOK
<1> QED
  BY <1>1, <1>2, <1>3, <1>4, <1>5

LEMMA RunnerStays ==
  ASSUME NEW ms, NEW more, Grows(ms, more), NEW ts, NEW later, TurnsMove(ts, later),
         Len(ts) \in Nat, Len(later) \in Nat, \A t \in 1..Len(ts) : TurnOK(ms, ts[t]),
         NEW t, NEW r, RunnerOK(ms, ts, t, r)
  PROVE  RunnerOK(more, later, t, r)
<1>1. CASE r.pc = "none"
  BY <1>1 DEF RunnerOK, Asked
<1>2. CASE r.pc # "none"
  <2>1. t \in 1..Len(ts) /\ ts[t].state # "queued"
    BY <1>2 DEF RunnerOK
  <2>2. t \in 1..Len(later) /\ later[t].state # "queued" /\ later[t].follows = ts[t].follows
    BY <2>1 DEF TurnsMove
  <2>3. ts[t].follows \in 1..Len(ms)
    BY <2>1 DEF TurnOK, IsQuestion
  <2>4. /\ NearestTo(more, ts[t].follows) = NearestTo(ms, ts[t].follows)
        /\ EarlierTo(more, ts[t].follows) = EarlierTo(ms, ts[t].follows)
    BY <2>3, PlacesStay
  <2> QED
    BY <2>2, <2>4 DEF RunnerOK
<1> QED
  BY <1>1, <1>2

\* What a step must show of the calls, turns and runners it changes.
LEMMA PlainStep ==
  ASSUME PlainInv, TypesInv', Grows(messages, messages'), TurnsMove(turns, turns'), EngineInv',
         \A m \in (Len(messages) + 1)..Len(messages') :
           messages'[m].role = "assistant" => messages'[m].turn \in 1..Len(turns'),
         \A t \in (Len(turns) + 1)..Len(turns') : TurnOK(messages', turns'[t]),
         \A t \in 1..Len(turns') : IsActive(t)' => t = Len(turns'),
         \A c \in Clients : call'[c] = call[c] \/ CallOK(messages', call'[c]),
         \A t \in 1..MaxTurns : runner'[t] = runner[t] \/ RunnerOK(messages', turns', t, runner'[t])
  PROVE  PlainInv'
<1>1. /\ Len(messages) \in Nat /\ Len(messages') \in Nat /\ Len(messages) <= Len(messages')
      /\ \A k : CallOK(messages, k) => CallOK(messages', k)
      /\ \A turn : TurnOK(messages, turn) => TurnOK(messages', turn)
  BY FailuresStay
<1>2. Len(turns) \in Nat /\ Len(turns') \in Nat /\ Len(turns) <= Len(turns')
  <2>1. turns \in Seq(TurnType) /\ turns' \in Seq(TurnType)
    BY DEF PlainInv, TypesInv
  <2> QED
    BY <2>1 DEF TurnsMove
<1>3. TurnsInv'
  <2>1. ASSUME NEW m \in 1..Len(messages'), messages'[m].role = "assistant"
        PROVE  messages'[m].turn \in 1..Len(turns')
    <3>1. CASE m \in 1..Len(messages)
      <4>1. messages'[m] = messages[m]
        BY <3>1 DEF Grows
      <4>2. messages[m].turn \in 1..Len(turns)
        BY <2>1, <3>1, <4>1 DEF PlainInv, TurnsInv
      <4> QED
        BY <1>2, <4>1, <4>2
    <3>2. CASE m \notin 1..Len(messages)
      <4>1. m \in (Len(messages) + 1)..Len(messages')
        BY <1>1, <3>2
      <4> QED
        BY <2>1, <4>1
    <3> QED
      BY <3>1, <3>2
  <2>2. ASSUME NEW t \in 1..Len(turns') PROVE TurnOK(messages', turns'[t])
    <3>1. CASE t \in 1..Len(turns)
      <4>1. turns'[t].follows = turns[t].follows /\ turns'[t].retries = turns[t].retries
        BY <3>1 DEF TurnsMove
      <4>2. TurnOK(messages', turns[t])
        BY <1>1, <3>1 DEF PlainInv, TurnsInv
      <4> QED
        BY <4>1, <4>2 DEF TurnOK
    <3>2. CASE t \notin 1..Len(turns)
      <4>1. t \in (Len(turns) + 1)..Len(turns')
        BY <1>2, <3>2
      <4> QED
        BY <4>1
    <3> QED
      BY <3>1, <3>2
  <2>3. \A t \in 1..Len(turns') : IsActive(t)' => t = Len(turns')
    OBVIOUS
  <2> QED
    BY <2>1, <2>2, <2>3 DEF TurnsInv
<1>4. \A c \in Clients : CallOK(messages', call'[c])
  BY <1>1 DEF PlainInv
<1>5. ASSUME NEW t \in 1..MaxTurns PROVE RunnerOK(messages', turns', t, runner'[t])
  <2>1. CASE runner'[t] = runner[t]
    <3>1. RunnerOK(messages, turns, t, runner[t])
      BY DEF PlainInv
    <3>2. \A u \in 1..Len(turns) : TurnOK(messages, turns[u])
      BY DEF PlainInv, TurnsInv
    <3>3. RunnerOK(messages', turns', t, runner[t])
      BY <1>2, <3>1, <3>2, RunnerStays
    <3> QED
      BY <2>1, <3>3
  <2>2. CASE runner'[t] # runner[t]
    BY <2>2
  <2> QED
    BY <2>1, <2>2
<1> QED
  BY <1>3, <1>4, <1>5 DEF PlainInv
-----------------------------------------------------------------------------
(* The steps, one by one: the calls, the turns and the runners             *)

LEMMA NothingMoves ==
  ASSUME TypesInv
  PROVE  /\ UNCHANGED messages => Grows(messages, messages')
         /\ UNCHANGED turns => TurnsMove(turns, turns')
<1>1. GoodMessages(messages) /\ Len(messages) \in Nat /\ Len(turns) \in Nat
  BY MessagesDomain DEF TypesInv
<1> QED
  BY <1>1 DEF Grows, TurnsMove

\* A step of a client's call alone.
LEMMA CallStep ==
  ASSUME PlainInv, NEW c \in Clients, NEW k \in CallType, Calls(c, k), CallOK(messages, k),
         UNCHANGED <<engineVars, messages, turns, runner, historyVars>>
  PROVE  PlainInv'
<1>1. call' = [call EXCEPT ![c] = k] /\ call \in [Clients -> CallType] /\ TypesInv
  BY DEF Calls, PlainInv, TypesInv
<1>2. TypesInv'
  BY <1>1 DEF TypesInv, engineVars, historyVars
<1>3. EngineInv' /\ \A t \in 1..Len(turns') : IsActive(t)' => t = Len(turns')
  BY DEF PlainInv, EngineInv, TurnsInv, engineVars, IsActive
<1>4. \A d \in Clients : call'[d] = call[d] \/ CallOK(messages', call'[d])
  BY <1>1
<1>5. Len(messages) \in Nat /\ Len(turns) \in Nat
  BY <1>1, MessagesDomain
<1>6. (Len(messages) + 1)..Len(messages') = {} /\ (Len(turns) + 1)..Len(turns') = {}
  BY <1>5
<1> QED
  BY <1>1, <1>2, <1>3, <1>4, <1>6, NothingMoves, PlainStep

LEMMA PlainStart ==
  ASSUME PlainInv, NEW c \in Clients, StartSession(c)
  PROVE  PlainInv'
<1> DEFINE k == [NoCall EXCEPT !.op = "start"]
<1>1. TypesInv /\ Len(messages) \in Nat
  BY MessagesDomain DEF PlainInv
<1>2. k \in CallType /\ k.op = "start" /\ k.parent = 0 /\ k.retries = None
  BY DEF NoCall, CallType, None
<1>3. CallOK(messages, k)
  BY <1>1, <1>2 DEF CallOK
<1> HIDE DEF k
<1>4. Calls(c, k) /\ UNCHANGED <<engineVars, messages, turns, runner, historyVars>>
  BY DEF StartSession, k
<1> QED
  BY <1>2, <1>3, <1>4, CallStep

LEMMA PlainRefused ==
  ASSUME PlainInv, NEW c \in Clients, Refused(c)
  PROVE  PlainInv'
<1>1. NoCall \in CallType /\ CallOK(messages, NoCall)
  BY DEF NoCall, CallType, None, CallOK
<1> QED
  BY <1>1, CallStep DEF Refused

\* A thread's messages are the conversation's.
LEMMA ThreadIsThere ==
  ASSUME TypesInv, NEW m \in 0..Len(messages)
  PROVE  ThreadTo(m) \subseteq 1..Len(messages)
<1> DEFINE n == Len(messages)
           right == {k \in 0..n : ThreadIn(messages, k) \subseteq 1..n}
<1>1. n \in Nat /\ GoodMessages(messages)
  BY GoodParents DEF TypesInv
<1>2. ASSUME NEW k \in 0..n, \A j \in 0..n : j < k => j \in right
      PROVE  k \in right
  <2>1. CASE k = 0
    BY <1>1, <2>1, ThreadUnfolds DEF None
  <2>2. CASE k # 0
    <3>1. k \in 1..n /\ messages[k].parent \in 0..n /\ messages[k].parent < k
      BY <1>1, <2>2, GoodParents
    <3>2. ThreadIn(messages, k) = ThreadIn(messages, messages[k].parent) \cup {k}
      BY <1>1, <3>1, ThreadUnfolds
    <3> QED
      BY <1>2, <3>1, <3>2
  <2> QED
    BY <2>1, <2>2
<1>3. \A k \in 0..n : k \in right
  <2> HIDE DEF right
  <2> QED
    BY <1>1, <1>2, Induction
<1> QED
  BY <1>3, WalksAreThose

\* What a call finds in the messages it reads.
LEMMA ReadFinds ==
  ASSUME PlainInv, NEW c \in Clients, NEW m \in DOMAIN messages,
         SendMessage(c, m) \/ EditMessage(c, m) \/ RegenerateAnswer(c, m) \/ RetryAnswer(c, m)
           \/ ResumeAnswer(c, m)
  PROVE  \E k \in CallType : Calls(c, k) /\ CallOK(messages, k)
<1>1. /\ GoodMessages(messages) /\ m \in 1..Len(messages) /\ Len(messages) \in Nat /\ TypesInv
  BY MessagesDomain DEF PlainInv, TypesInv
<1>2. m \in Nat /\ m \in 0..Len(messages) /\ Len(messages) \in 0..Len(messages)
  BY <1>1
<1>3. CASE SendMessage(c, m)
  <2> DEFINE k == [NoCall EXCEPT !.op = "ask", !.parent = m]
  <2>1. k \in CallType /\ k.op = "ask" /\ k.parent = m /\ k.retries = None
    BY <1>2 DEF NoCall, CallType, None
  <2>2. CallOK(messages, k)
    BY <1>2, <2>1 DEF CallOK
  <2> QED
    BY <1>3, <2>1, <2>2 DEF SendMessage
<1>4. CASE EditMessage(c, m)
  <2> DEFINE p == messages[m].parent
             k == [NoCall EXCEPT !.op = "ask", !.parent = p]
  <2>1. p \in 0..Len(messages) /\ p \in Nat
    BY <1>1, GoodParents
  <2>2. k \in CallType /\ k.op = "ask" /\ k.parent = p /\ k.retries = None
    BY <2>1 DEF NoCall, CallType, None
  <2>3. CallOK(messages, k)
    BY <2>1, <2>2 DEF CallOK
  <2> QED
    BY <1>4, <2>2, <2>3 DEF EditMessage
<1>5. CASE RegenerateAnswer(c, m)
  <2>1. PICK q \in Shown : messages[q].role = "user" /\ Calls(c, [NoCall EXCEPT !.op = "again", !.question = q])
    BY <1>5 DEF RegenerateAnswer
  <2> DEFINE k == [NoCall EXCEPT !.op = "again", !.question = q]
  <2>2. q \in 1..Len(messages) /\ q \in Nat
    BY <1>1, <1>2, <2>1, ThreadIsThere DEF Shown
  <2>3. k \in CallType /\ k.op = "again" /\ k.question = q /\ k.retries = None
    BY <2>2 DEF NoCall, CallType, None
  <2>4. CallOK(messages, k)
    BY <2>1, <2>2, <2>3 DEF CallOK, IsQuestion
  <2> QED
    BY <2>1, <2>3, <2>4
<1>6. ASSUME messages[m].failed
      PROVE  /\ IsQuestion(messages, messages[m].parent) /\ messages[m].parent \in Nat
             /\ IsFailure(messages, m, messages[m].parent)
  BY <1>1, <1>6, GoodParents DEF IsQuestion, IsFailure
<1>7. CASE RetryAnswer(c, m)
  <2> DEFINE p == messages[m].parent
             k == [NoCall EXCEPT !.op = "again", !.question = p, !.retries = m]
  <2>1. messages[m].failed /\ Calls(c, k)
    BY <1>7 DEF RetryAnswer
  <2>2. IsQuestion(messages, p) /\ p \in Nat /\ IsFailure(messages, m, p)
    BY <1>6, <2>1
  <2>3. k \in CallType /\ k.op = "again" /\ k.question = p /\ k.retries = m
    BY <1>2, <2>2 DEF NoCall, CallType, None
  <2>4. CallOK(messages, k)
    BY <2>2, <2>3 DEF CallOK
  <2> QED
    BY <2>1, <2>3, <2>4
<1>8. CASE ResumeAnswer(c, m)
  <2> DEFINE p == messages[m].parent
             k == [NoCall EXCEPT !.op = "again", !.question = p, !.resume = TRUE]
  <2>1. messages[m].failed /\ Calls(c, k)
    BY <1>8 DEF ResumeAnswer
  <2>2. IsQuestion(messages, p) /\ p \in Nat
    BY <1>6, <2>1
  <2>3. k \in CallType /\ k.op = "again" /\ k.question = p /\ k.retries = None
    BY <1>1, <2>2 DEF NoCall, CallType, None
  <2>4. CallOK(messages, k)
    BY <2>2, <2>3 DEF CallOK
  <2> QED
    BY <2>1, <2>3, <2>4
<1> QED
  BY <1>3, <1>4, <1>5, <1>7, <1>8

LEMMA PlainRead ==
  ASSUME PlainInv, NEW c \in Clients, NEW m \in DOMAIN messages, Read(c, m)
  PROVE  PlainInv'
<1>1. PICK k \in CallType : Calls(c, k) /\ CallOK(messages, k)
  BY ReadFinds DEF Read
<1> QED
  BY <1>1, CallStep DEF Read
\* One more message.
LEMMA OneMore ==
  ASSUME NEW ms, GoodMessages(ms), NEW e \in MessageType, e.parent \in 0..Len(ms),
         e.role = "user" => ~e.failed /\ e.checkpoint = None,
         e.role = "assistant" => /\ e.parent # None /\ ms[e.parent].role = "user"
                                 /\ e.failed <=> e.checkpoint = None
  PROVE  /\ Grows(ms, Append(ms, e)) /\ Len(Append(ms, e)) = Len(ms) + 1
         /\ Append(ms, e)[Len(ms) + 1] = e /\ Len(ms) \in Nat
<1> DEFINE more == Append(ms, e)
<1>1. /\ ms \in Seq(MessageType) /\ Len(ms) \in Nat
      /\ \A m \in 1..Len(ms) : ms[m].parent \in 0..Len(ms)
  BY GoodParents DEF GoodMessages
<1>2. /\ more \in Seq(MessageType) /\ Len(more) = Len(ms) + 1
      /\ \A m \in 1..Len(ms) : more[m] = ms[m]
      /\ more[Len(ms) + 1] = e
  BY <1>1
<1> HIDE DEF more
<1>3. GoodMessages(more)
  <2>1. ASSUME NEW m \in 1..Len(more)
        PROVE  /\ more[m].parent \in 0..(m - 1)
               /\ more[m].role = "user" => ~more[m].failed /\ more[m].checkpoint = None
               /\ more[m].role = "assistant" =>
                    /\ more[m].parent # None /\ more[more[m].parent].role = "user"
                    /\ more[m].failed <=> more[m].checkpoint = None
    <3>1. CASE m \in 1..Len(ms)
      <4>1. /\ ms[m].parent \in 0..(m - 1) /\ ms[m].parent \in 0..Len(ms)
            /\ ms[m].role = "user" => ~ms[m].failed /\ ms[m].checkpoint = None
            /\ ms[m].role = "assistant" =>
                 /\ ms[m].parent # None /\ ms[ms[m].parent].role = "user"
                 /\ ms[m].failed <=> ms[m].checkpoint = None
        BY <1>1, <3>1 DEF GoodMessages
      <4>2. ms[m].parent # None => more[ms[m].parent] = ms[ms[m].parent]
        BY <1>1, <1>2, <4>1 DEF None
      <4> QED
        BY <1>2, <3>1, <4>1, <4>2
    <3>2. CASE m = Len(ms) + 1
      <4>1. e.parent # None => more[e.parent] = ms[e.parent]
        BY <1>1, <1>2 DEF None
      <4> QED
        BY <1>1, <1>2, <3>2, <4>1
    <3> QED
      BY <1>1, <1>2, <3>1, <3>2
  <2> QED
    BY <1>2, <2>1 DEF GoodMessages
<1>4. Grows(ms, more)
  BY <1>1, <1>2, <1>3 DEF Grows
<1> QED
  BY <1>1, <1>2, <1>4 DEF more

LEMMA PlainQueue ==
  ASSUME PlainInv, NEW c \in Clients, QueueTurn(c)
  PROVE  /\ PlainInv' /\ Grows(messages, messages') /\ Len(turns') = Len(turns) + 1
         /\ \A t \in 1..Len(turns) : turns'[t] = turns[t] /\ ~IsActive(t)
         /\ \A m \in (Len(messages) + 1)..Len(messages') : messages'[m].checkpoint = None
         /\ runner[Len(turns) + 1].pc = "none"
         /\ UNCHANGED <<engineVars, runner, historyVars>>
<1> DEFINE k == call[c]
           asks == k.op \in {"start", "ask"}
           turn == [state |-> "queued", create |-> k.op = "start",
                    follows |-> IF asks THEN Len(messages) + 1 ELSE k.question,
                    retries |-> k.retries, resume |-> k.resume]
<1>1. /\ TypesInv /\ GoodMessages(messages) /\ Len(messages) \in Nat /\ Len(turns) \in Nat
      /\ MaxTurns \in Nat /\ call \in [Clients -> CallType] /\ k \in CallType
      /\ runner \in [1..MaxTurns -> RunnerType] /\ turns \in Seq(TurnType)
  BY MessagesDomain DEF PlainInv, TypesInv
<1>2. /\ k # NoCall /\ Len(turns) < MaxTurns
      /\ \A t \in DOMAIN turns : ~IsActive(t)
      /\ messages' = IF asks THEN Append(messages, Question(k.parent)) ELSE messages
      /\ turns' = Append(turns, turn)
      /\ Calls(c, NoCall)
      /\ UNCHANGED <<engineVars, runner, historyVars>>
  BY DEF QueueTurn
<1>3. CallOK(messages, k)
  BY DEF PlainInv
<1>4. /\ k.question \in Nat /\ k.parent \in Nat /\ k.retries \in Nat /\ k.resume \in BOOLEAN
  BY <1>1 DEF CallType
<1> HIDE DEF k
<1>5. /\ Grows(messages, messages') /\ TurnOK(messages', turn)
      /\ \A m \in (Len(messages) + 1)..Len(messages') :
           messages'[m].role # "assistant" /\ messages'[m].checkpoint = None
      /\ turn.follows \in Nat
  <2>1. CASE asks
    <3> DEFINE e == Question(k.parent)
    <3>1. e \in MessageType /\ e.role = "user" /\ ~e.failed /\ e.checkpoint = None /\ e.parent = k.parent
      BY <1>4 DEF Question, MessageType, None
    <3>2. k.parent \in 0..Len(messages) /\ k.retries = None
      BY <1>2, <1>3, <2>1 DEF CallOK
    <3> HIDE DEF e
    <3>3. /\ Grows(messages, Append(messages, e)) /\ Len(Append(messages, e)) = Len(messages) + 1
          /\ Append(messages, e)[Len(messages) + 1] = e
      BY <1>1, <3>1, <3>2, OneMore
    <3>4. messages' = Append(messages, e)
      BY <1>2, <2>1 DEF e
    <3>5. turn.follows = Len(messages) + 1 /\ turn.retries = None
      BY <2>1, <3>2
    <3>6. TurnOK(messages', turn)
      BY <1>1, <3>1, <3>3, <3>4, <3>5 DEF TurnOK, IsQuestion
    <3>7. \A m \in (Len(messages) + 1)..Len(messages') : m = Len(messages) + 1
      BY <1>1, <3>3, <3>4
    <3> QED
      BY <1>1, <3>1, <3>3, <3>4, <3>5, <3>6, <3>7
  <2>2. CASE ~asks
    <3>1. messages' = messages /\ Grows(messages, messages')
      BY <1>1, <1>2, <2>2, NothingMoves
    <3>2. turn.follows = k.question /\ turn.retries = k.retries
      BY <2>2
    <3>3. IsQuestion(messages, k.question) /\ (k.retries # None => IsFailure(messages, k.retries, k.question))
      BY <1>2, <1>3, <2>2 DEF CallOK
    <3>4. TurnOK(messages', turn)
      BY <3>1, <3>2, <3>3 DEF TurnOK
    <3>5. (Len(messages) + 1)..Len(messages') = {}
      BY <1>1, <3>1
    <3> QED
      BY <1>4, <3>1, <3>2, <3>4, <3>5
  <2> QED
    BY <2>1, <2>2
<1>6. turn \in TurnType
  BY <1>4, <1>5 DEF TurnType
<1> HIDE DEF turn
<1>7. /\ turns' \in Seq(TurnType) /\ Len(turns') = Len(turns) + 1
      /\ \A t \in 1..Len(turns) : turns'[t] = turns[t]
      /\ turns'[Len(turns) + 1] = turn /\ DOMAIN turns = 1..Len(turns)
  BY <1>1, <1>2, <1>6
<1>8. TurnsMove(turns, turns')
  BY <1>1, <1>7 DEF TurnsMove
<1>9. NoCall \in CallType /\ call' = [call EXCEPT ![c] = NoCall]
  BY <1>2 DEF NoCall, CallType, None, Calls
<1>10. TypesInv'
  <2>1. GoodMessages(messages')
    BY <1>5 DEF Grows
  <2>2. call' \in [Clients -> CallType]
    BY <1>1, <1>9
  <2>3. Len(turns') <= MaxTurns
    BY <1>1, <1>2, <1>7
  <2> QED
    BY <1>1, <1>2, <1>7, <2>1, <2>2, <2>3 DEF TypesInv, engineVars, historyVars
<1>11. EngineInv'
  BY <1>2 DEF PlainInv, EngineInv, engineVars
<1>12. ASSUME NEW t \in 1..Len(turns'), IsActive(t)' PROVE t = Len(turns')
  <2>1. CASE t \in 1..Len(turns)
    BY <1>2, <1>7, <1>12, <2>1 DEF IsActive
  <2>2. CASE t \notin 1..Len(turns)
    BY <1>1, <1>7, <2>2
  <2> QED
    BY <2>1, <2>2
<1>13. \A d \in Clients : call'[d] = call[d] \/ CallOK(messages', call'[d])
  BY <1>1, <1>9 DEF CallOK
<1>14. \A t \in (Len(turns) + 1)..Len(turns') : TurnOK(messages', turns'[t])
  <2>1. \A t \in (Len(turns) + 1)..Len(turns') : t = Len(turns) + 1
    BY <1>1, <1>7
  <2> QED
    BY <1>5, <1>7, <2>1
<1>15. \A t \in 1..MaxTurns : runner'[t] = runner[t]
  BY <1>2
<1>16. PlainInv'
  BY <1>5, <1>8, <1>10, <1>11, <1>12, <1>13, <1>14, <1>15, PlainStep
<1>17. runner[Len(turns) + 1].pc = "none"
  <2>1. Len(turns) + 1 \in 1..MaxTurns /\ Len(turns) + 1 \notin 1..Len(turns)
    BY <1>1, <1>2
  <2>2. RunnerOK(messages, turns, Len(turns) + 1, runner[Len(turns) + 1])
    BY <2>1 DEF PlainInv
  <2> QED
    BY <2>1, <2>2 DEF RunnerOK
<1> QED
  BY <1>2, <1>5, <1>7, <1>16, <1>17
\* What a turn's end does to the turns, and to the messages.
LEMMA EndsTurns ==
  ASSUME PlainInv, NEW t \in 1..Len(turns), NEW answers, Ends(t, answers)
  PROVE  /\ turns' \in Seq(TurnType) /\ Len(turns') = Len(turns) /\ TurnsMove(turns, turns')
         /\ turns'[t].state = "ended" /\ turns'[t].follows = turns[t].follows
         /\ turns'[t].retries = turns[t].retries
         /\ \A u \in 1..Len(turns) : u # t => turns'[u] = turns[u]
         /\ \A u \in 1..Len(turns') : IsActive(u)' => IsActive(u) /\ u # t
<1>1. /\ turns \in Seq(TurnType) /\ Len(turns) \in Nat /\ turns[t] \in TurnType
      /\ turns' = [turns EXCEPT ![t].state = "ended"] /\ DOMAIN turns = 1..Len(turns)
  BY MessagesDomain DEF PlainInv, TypesInv, Ends
<1> DEFINE ended == [turns[t] EXCEPT !.state = "ended"]
<1>2. ended \in TurnType /\ ended.state = "ended" /\ ended.follows = turns[t].follows
      /\ ended.retries = turns[t].retries
  BY <1>1 DEF TurnType
<1> HIDE DEF ended
<1>3. turns' = [turns EXCEPT ![t] = ended]
  BY <1>1 DEF ended
<1>4. /\ turns' \in Seq(TurnType) /\ Len(turns') = Len(turns) /\ turns'[t] = ended
      /\ \A u \in 1..Len(turns) : u # t => turns'[u] = turns[u]
  BY <1>1, <1>2, <1>3
<1>5. TurnsMove(turns, turns')
  <2>1. ASSUME NEW u \in 1..Len(turns)
        PROVE  /\ turns'[u].follows = turns[u].follows /\ turns'[u].retries = turns[u].retries
               /\ turns[u].state # "queued" => turns'[u].state # "queued"
    BY <1>2, <1>4
  <2> QED
    BY <1>1, <1>4, <2>1 DEF TurnsMove
<1>6. ASSUME NEW u \in 1..Len(turns'), IsActive(u)' PROVE IsActive(u) /\ u # t
  BY <1>2, <1>4, <1>6 DEF IsActive
<1> QED
  BY <1>2, <1>4, <1>5, <1>6

LEMMA EndsAnswer ==
  ASSUME PlainInv, NEW t \in 1..Len(turns), NEW failed \in BOOLEAN, NEW c \in Nat,
         failed <=> c = None, messages' = messages \o <<Answer(t, failed, c)>>
  PROVE  /\ Grows(messages, messages') /\ Len(messages') = Len(messages) + 1
         /\ messages'[Len(messages) + 1] = Answer(t, failed, c)
         /\ \A m \in (Len(messages) + 1)..Len(messages') :
              /\ m = Len(messages) + 1 /\ messages'[m].turn \in 1..Len(turns)
              /\ messages'[m].checkpoint = c /\ messages'[m].parent = turns[t].follows
         /\ IsQuestion(messages, turns[t].follows)
<1> DEFINE e == Answer(t, failed, c)
           q == turns[t].follows
<1>1. /\ GoodMessages(messages) /\ Len(messages) \in Nat /\ messages \in Seq(MessageType)
      /\ Len(turns) \in Nat /\ TurnOK(messages, turns[t])
  BY MessagesDomain DEF PlainInv, TypesInv, TurnsInv, GoodMessages
<1>2. q \in 1..Len(messages) /\ messages[q].role = "user" /\ q \in Nat /\ q # None
  BY <1>1 DEF TurnOK, IsQuestion, None
<1>3. /\ e \in MessageType /\ e.role = "assistant" /\ e.parent = q /\ e.checkpoint = c
      /\ e.failed = failed /\ e.turn = t
  BY <1>1, <1>2 DEF Answer, MessageType
<1> HIDE DEF e, q
<1>4. messages' = Append(messages, e)
  BY <1>1, <1>3 DEF e
<1>5. q \in 0..Len(messages)
  BY <1>2
<1>6. /\ Grows(messages, messages') /\ Len(messages') = Len(messages) + 1
      /\ messages'[Len(messages) + 1] = e
  BY <1>1, <1>2, <1>3, <1>4, <1>5, OneMore
<1>7. \A m \in (Len(messages) + 1)..Len(messages') : m = Len(messages) + 1
  BY <1>1, <1>6
<1> QED
  BY <1>2, <1>3, <1>6, <1>7 DEF e, q, IsQuestion

\* A step of one turn's runner, with or without its end.
LEMMA RunStep ==
  ASSUME PlainInv, NEW t \in 1..Len(turns), NEW r \in RunnerType,
         runner' = [runner EXCEPT ![t] = r], RunnerOK(messages', turns', t, r),
         Grows(messages, messages'),
         \A m \in (Len(messages) + 1)..Len(messages') : messages'[m].turn \in 1..Len(turns),
         turns' \in Seq(TurnType), Len(turns') = Len(turns), TurnsMove(turns, turns'),
         \A u \in 1..Len(turns') : IsActive(u)' => IsActive(u),
         UNCHANGED <<call, engine>>, known' \in BOOLEAN, latest' \in Nat, SavedType(saved'),
         pauses' \in 0..Pauses, overlapped' \in BOOLEAN, mixed' \in BOOLEAN, EngineInv'
  PROVE  PlainInv'
<1>1. /\ TypesInv /\ Len(turns) \in Nat /\ runner \in [1..MaxTurns -> RunnerType]
      /\ t \in 1..MaxTurns
  BY MessagesDomain DEF PlainInv, TypesInv
<1>2. runner' \in [1..MaxTurns -> RunnerType]
  BY <1>1
<1>3. TypesInv'
  BY <1>1, <1>2 DEF TypesInv, Grows
<1>4. \A u \in 1..Len(turns') : IsActive(u)' => u = Len(turns')
  BY DEF PlainInv, TurnsInv
<1>5. \A u \in 1..MaxTurns : runner'[u] = runner[u] \/ RunnerOK(messages', turns', u, runner'[u])
  BY <1>1
<1>6. (Len(turns) + 1)..Len(turns') = {}
  BY <1>1
<1> QED
  BY <1>3, <1>4, <1>5, <1>6, PlainStep

\* The engine is as it was, and no runner comes to hand over its latest state.
LEMMA EngineStays ==
  ASSUME PlainInv, UNCHANGED <<engine, saved, latest>>,
         \A u \in 1..MaxTurns : runner'[u].pc = "answered" => runner[u].pc = "answered"
  PROVE  EngineInv' /\ latest' \in Nat /\ SavedType(saved')
BY DEF PlainInv, EngineInv, TypesInv

LEMMA NoRunnerType == NoRunner \in RunnerType
BY DEF NoRunner, RunnerType, None, EntryType

LEMMA GoneRunner ==
  ASSUME PlainInv, NEW t \in 1..Len(turns), Gone(t)
  PROVE  \E r \in RunnerType :
           /\ runner' = [runner EXCEPT ![t] = r] /\ r.pc = "gone"
           /\ \A ms, ts : t \in 1..Len(ts) /\ ts[t].state # "queued" => RunnerOK(ms, ts, t, r)
           /\ \A u \in 1..MaxTurns : runner'[u].pc = "answered" => runner[u].pc = "answered"
           /\ \A u \in 1..MaxTurns : u # t => runner'[u] = runner[u]
<1> DEFINE r == [NoRunner EXCEPT !.pc = "gone"]
<1>1. r \in RunnerType /\ r.pc = "gone"
  BY NoRunnerType DEF RunnerType
<1> HIDE DEF r
<1>2. runner' = [runner EXCEPT ![t] = r]
  BY DEF Gone, r
<1>3. \A ms, ts : t \in 1..Len(ts) /\ ts[t].state # "queued" => RunnerOK(ms, ts, t, r)
  BY <1>1 DEF RunnerOK, Asked
<1>4. runner \in [1..MaxTurns -> RunnerType]
  BY DEF PlainInv, TypesInv
<1>5. ASSUME NEW u \in 1..MaxTurns
      PROVE  /\ runner'[u].pc = "answered" => runner[u].pc = "answered"
             /\ u # t => runner'[u] = runner[u]
  <2>1. CASE u = t
    BY <1>1, <1>2, <1>4, <2>1
  <2>2. CASE u # t
    BY <1>2, <1>4, <2>2
  <2> QED
    BY <2>1, <2>2
<1> QED
  BY <1>1, <1>2, <1>3, <1>5
LEMMA PlainCancel ==
  ASSUME PlainInv, NEW t \in 1..Len(turns), Cancel(t)
  PROVE  /\ PlainInv' /\ UNCHANGED <<engineVars, messages, overlapped, mixed>>
         /\ \A u \in 1..Len(turns') : ~IsActive(u)'
<1>1. /\ IsActive(t) /\ Ends(t, <<>>) /\ Gone(t) /\ UNCHANGED <<engineVars, call, historyVars>>
  BY DEF Cancel
<1>2. /\ TypesInv /\ Len(turns) \in Nat /\ messages \in Seq(MessageType) /\ Len(messages) \in Nat
  BY MessagesDomain DEF PlainInv, TypesInv, GoodMessages
<1>3. messages' = messages
  BY <1>1, <1>2 DEF Ends
<1>4. Grows(messages, messages') /\ (Len(messages) + 1)..Len(messages') = {}
  BY <1>2, <1>3, NothingMoves
<1>6. /\ turns'[t].state = "ended" /\ turns' \in Seq(TurnType) /\ Len(turns') = Len(turns) /\ TurnsMove(turns, turns')
      /\ \A u \in 1..Len(turns') : IsActive(u)' => IsActive(u) /\ u # t
  BY <1>1, EndsTurns
<1>5. PICK r \in RunnerType :
        /\ runner' = [runner EXCEPT ![t] = r] /\ RunnerOK(messages', turns', t, r)
        /\ \A u \in 1..MaxTurns : runner'[u].pc = "answered" => runner[u].pc = "answered"
  BY <1>1, <1>6, GoneRunner
<1>7. EngineInv' /\ latest' \in Nat /\ SavedType(saved')
  BY <1>1, <1>5, EngineStays DEF engineVars
<1>8. PlainInv'
  BY <1>1, <1>2, <1>4, <1>5, <1>6, <1>7, RunStep DEF engineVars, historyVars, TypesInv
<1>9. \A u \in 1..Len(turns') : ~IsActive(u)'
  BY <1>1, <1>6 DEF PlainInv, TurnsInv
<1> QED
  BY <1>1, <1>3, <1>8, <1>9 DEF historyVars

LEMMA PlainLapse ==
  ASSUME PlainInv, NEW t \in 1..Len(turns), Lapse(t)
  PROVE  /\ PlainInv' /\ UNCHANGED <<engineVars, runner, overlapped, mixed>>
         /\ Grows(messages, messages')
         /\ \A m \in (Len(messages) + 1)..Len(messages') : messages'[m].checkpoint = None
         /\ \A u \in 1..Len(turns') : ~IsActive(u)'
<1>1. /\ IsActive(t) /\ Ends(t, <<Answer(t, TRUE, None)>>)
      /\ Alive(t) => pauses < Pauses
      /\ pauses' = IF Alive(t) THEN pauses + 1 ELSE pauses
      /\ UNCHANGED <<engineVars, call, runner, overlapped, mixed>>
  BY DEF Lapse
<1>2. /\ TypesInv /\ Len(turns) \in Nat /\ t \in 1..MaxTurns
  BY MessagesDomain DEF PlainInv
<1>3. messages' = messages \o <<Answer(t, TRUE, None)>> /\ None \in Nat
  BY <1>1 DEF Ends, None
<1>4. /\ Grows(messages, messages')
      /\ \A m \in (Len(messages) + 1)..Len(messages') :
           messages'[m].turn \in 1..Len(turns) /\ messages'[m].checkpoint = None
  BY <1>3, EndsAnswer
<1>5. /\ turns' \in Seq(TurnType) /\ Len(turns') = Len(turns) /\ TurnsMove(turns, turns')
      /\ \A u \in 1..Len(turns') : IsActive(u)' => IsActive(u) /\ u # t
  BY <1>1, EndsTurns
<1>6. runner[t] \in RunnerType /\ runner' = [runner EXCEPT ![t] = runner[t]]
  BY <1>1, <1>2 DEF TypesInv
<1>7. RunnerOK(messages', turns', t, runner[t])
  <2>1. RunnerOK(messages, turns, t, runner[t]) /\ \A u \in 1..Len(turns) : TurnOK(messages, turns[u])
    BY <1>2 DEF PlainInv, TurnsInv
  <2> QED
    BY <1>2, <1>4, <1>5, <2>1, RunnerStays
<1>8. EngineInv' /\ latest' \in Nat /\ SavedType(saved')
  BY <1>1, EngineStays DEF engineVars
<1>9. pauses' \in 0..Pauses
  <2>1. pauses \in 0..Pauses /\ Pauses \in Nat
    BY <1>2, ThreadAssumption DEF TypesInv
  <2> QED
    BY <1>1, <2>1
<1>10. PlainInv'
  BY <1>1, <1>2, <1>4, <1>5, <1>6, <1>7, <1>8, <1>9, RunStep DEF engineVars, TypesInv
<1>11. \A u \in 1..Len(turns') : ~IsActive(u)'
  BY <1>1, <1>5 DEF PlainInv, TurnsInv
<1> QED
  BY <1>1, <1>4, <1>10, <1>11

\* The runner goes, and its turn ends with an answer unless it is over.
LEMMA PlainEnd ==
  ASSUME PlainInv, NEW t \in 1..Len(turns), NEW failed \in BOOLEAN, NEW c \in Nat,
         failed <=> c = None, runner[t].pc # "none",
         IF IsActive(t) THEN Ends(t, <<Answer(t, failed, c)>>) ELSE UNCHANGED <<messages, turns>>,
         Gone(t), UNCHANGED <<engineVars, call, historyVars>>
  PROVE  PlainInv'
<1>1. /\ TypesInv /\ Len(turns) \in Nat /\ Len(messages) \in Nat /\ turns \in Seq(TurnType)
  BY MessagesDomain DEF PlainInv, TypesInv
<1>4. /\ Grows(messages, messages')
      /\ \A m \in (Len(messages) + 1)..Len(messages') : messages'[m].turn \in 1..Len(turns)
      /\ turns' \in Seq(TurnType) /\ Len(turns') = Len(turns) /\ TurnsMove(turns, turns')
      /\ \A u \in 1..Len(turns') : IsActive(u)' => IsActive(u)
      /\ turns'[t].state # "queued"
  <2>1. CASE IsActive(t)
    <3>1. Ends(t, <<Answer(t, failed, c)>>)
      BY <2>1
    <3>2. messages' = messages \o <<Answer(t, failed, c)>>
      BY <3>1 DEF Ends
    <3> QED
      BY <3>1, <3>2, EndsTurns, EndsAnswer
  <2>2. CASE ~IsActive(t)
    <3>1. messages' = messages /\ turns' = turns
      BY <2>2
    <3>2. (Len(messages) + 1)..Len(messages') = {}
      BY <1>1, <3>1
    <3>3. turns[t].state # "queued"
      BY <1>1, MessagesDomain DEF PlainInv, RunnerOK
    <3> QED
      BY <1>1, <3>1, <3>2, <3>3, NothingMoves DEF IsActive
  <2> QED
    BY <2>1, <2>2
<1>2. PICK r \in RunnerType :
        /\ runner' = [runner EXCEPT ![t] = r] /\ RunnerOK(messages', turns', t, r)
        /\ \A u \in 1..MaxTurns : runner'[u].pc = "answered" => runner[u].pc = "answered"
  BY <1>1, <1>4, GoneRunner
<1>3. EngineInv' /\ latest' \in Nat /\ SavedType(saved')
  BY <1>2, EngineStays DEF engineVars
<1> QED
  BY <1>1, <1>2, <1>3, <1>4, RunStep DEF engineVars, historyVars, TypesInv

LEMMA PlainFail ==
  ASSUME PlainInv, NEW t \in 1..Len(turns), Fail(t)
  PROVE  PlainInv'
<1>1. None \in Nat /\ (TRUE <=> None = None)
  BY DEF None
<1> QED
  BY <1>1, PlainEnd DEF Fail

LEMMA PlainFinish ==
  ASSUME PlainInv, NEW t \in 1..Len(turns), Finish(t)
  PROVE  PlainInv' /\ runner[t].own \in Nat /\ runner[t].own # None
<1>1. t \in 1..MaxTurns /\ runner[t] \in RunnerType /\ runner[t].pc = "done"
  BY MessagesDomain DEF PlainInv, TypesInv, Finish
<1>2. runner[t].own \in Nat /\ runner[t].own # None
  BY <1>1 DEF PlainInv, RunnerOK, Asked, RunnerType
<1>3. FALSE <=> runner[t].own = None
  BY <1>2
<1> QED
  BY <1>2, <1>3, PlainEnd DEF Finish

LEMMA PlainCrash ==
  ASSUME PlainInv, NEW t \in 1..Len(turns), Crash(t)
  PROVE  PlainInv'
<1>1. /\ TypesInv /\ Len(turns) \in Nat /\ Len(messages) \in Nat /\ turns \in Seq(TurnType)
      /\ Gone(t) /\ UNCHANGED <<engineVars, messages, turns, call, historyVars>>
  BY MessagesDomain DEF PlainInv, TypesInv, Crash
<1>5. turns'[t].state # "queued" /\ t \in 1..Len(turns')
  BY <1>1, MessagesDomain DEF PlainInv, RunnerOK, Crash, Alive
<1>2. PICK r \in RunnerType :
        /\ runner' = [runner EXCEPT ![t] = r] /\ RunnerOK(messages', turns', t, r)
        /\ \A u \in 1..MaxTurns : runner'[u].pc = "answered" => runner[u].pc = "answered"
  BY <1>1, <1>5, GoneRunner
<1>3. EngineInv' /\ latest' \in Nat /\ SavedType(saved')
  BY <1>1, <1>2, EngineStays DEF engineVars
<1>4. (Len(messages) + 1)..Len(messages') = {} /\ \A u \in 1..Len(turns') : IsActive(u)' => IsActive(u)
  BY <1>1 DEF IsActive
<1> QED
  BY <1>1, <1>2, <1>3, <1>4, NothingMoves, RunStep DEF engineVars, historyVars, TypesInv
\* A step of the runner alone: the messages stay.
LEMMA RunnerStep ==
  ASSUME PlainInv, NEW t \in 1..Len(turns), NEW r \in RunnerType,
         runner' = [runner EXCEPT ![t] = r], RunnerOK(messages, turns', t, r),
         TurnsMove(turns, turns'), turns' \in Seq(TurnType), Len(turns') = Len(turns),
         \A u \in 1..Len(turns') : IsActive(u)' => IsActive(u),
         UNCHANGED <<call, engine, messages, pauses>>, known' \in BOOLEAN, latest' \in Nat,
         SavedType(saved'), overlapped' \in BOOLEAN, mixed' \in BOOLEAN, EngineInv'
  PROVE  PlainInv'
<1>1. /\ TypesInv /\ Len(messages) \in Nat
  BY MessagesDomain DEF PlainInv
<1>2. Grows(messages, messages') /\ (Len(messages) + 1)..Len(messages') = {}
  BY <1>1, NothingMoves
<1> QED
  BY <1>1, <1>2, RunStep DEF TypesInv

LEMMA OtherRunners ==
  ASSUME PlainInv, NEW t \in 1..Len(turns), NEW r, runner' = [runner EXCEPT ![t] = r]
  PROVE  /\ t \in 1..MaxTurns /\ runner'[t] = r /\ runner[t] \in RunnerType
         /\ RunnerOK(messages, turns, t, runner[t]) /\ TurnOK(messages, turns[t])
         /\ \A u \in 1..MaxTurns : u # t => runner'[u] = runner[u]
<1>1. t \in 1..MaxTurns /\ runner \in [1..MaxTurns -> RunnerType]
  BY MessagesDomain DEF PlainInv, TypesInv
<1> QED
  BY <1>1 DEF PlainInv, TurnsInv

LEMMA PlainClaim ==
  ASSUME PlainInv, NEW t \in 1..Len(turns), Claim(t)
  PROVE  /\ PlainInv' /\ Len(turns') = Len(turns) /\ turns'[t].follows = turns[t].follows
         /\ \A u \in 1..Len(turns) : u # t => turns'[u] = turns[u]
         /\ IsActive(t)
<1> DEFINE running == [turns[t] EXCEPT !.state = "running"]
           r == [runner[t] EXCEPT !.pc = "claimed"]
<1>1. /\ turns[t].state = "queued" /\ turns' = [turns EXCEPT ![t] = running]
      /\ runner' = [runner EXCEPT ![t] = r]
      /\ UNCHANGED <<engineVars, messages, call, historyVars>>
  BY DEF Claim, Becomes
<1>2. /\ TypesInv /\ turns \in Seq(TurnType) /\ turns[t] \in TurnType /\ Len(turns) \in Nat
      /\ t \in 1..MaxTurns
  BY MessagesDomain DEF PlainInv, TypesInv
<1>3. /\ running \in TurnType /\ running.state = "running" /\ running.follows = turns[t].follows
      /\ running.retries = turns[t].retries
  BY <1>2 DEF TurnType
<1>4. runner[t] \in RunnerType
  BY <1>2 DEF TypesInv
<1>5. r \in RunnerType /\ r.pc = "claimed"
  BY <1>4 DEF RunnerType
<1> HIDE DEF running, r
<1>6. /\ turns' \in Seq(TurnType) /\ Len(turns') = Len(turns) /\ turns'[t] = running
      /\ \A u \in 1..Len(turns) : u # t => turns'[u] = turns[u]
  BY <1>1, <1>2, <1>3
<1>7. TurnsMove(turns, turns')
  <2>1. ASSUME NEW u \in 1..Len(turns)
        PROVE  /\ turns'[u].follows = turns[u].follows /\ turns'[u].retries = turns[u].retries
               /\ turns[u].state # "queued" => turns'[u].state # "queued"
    BY <1>3, <1>6
  <2> QED
    BY <1>2, <1>6, <2>1 DEF TurnsMove
<1>8. \A u \in 1..Len(turns') : IsActive(u)' => IsActive(u)
  <2>1. IsActive(t)
    BY <1>1 DEF IsActive
  <2>2. \A u \in 1..Len(turns') : u # t => (IsActive(u)' => IsActive(u))
    BY <1>6 DEF IsActive
  <2> QED
    BY <2>1, <2>2
<1>9. RunnerOK(messages, turns', t, r)
  BY <1>3, <1>5, <1>6 DEF RunnerOK, Asked
<1>10. \A u \in 1..MaxTurns : runner'[u].pc = "answered" => runner[u].pc = "answered"
  BY <1>1, <1>5, OtherRunners
<1>11. EngineInv' /\ latest' \in Nat /\ SavedType(saved')
  BY <1>1, <1>10, EngineStays DEF engineVars
<1>12. PlainInv'
  BY <1>1, <1>2, <1>5, <1>6, <1>7, <1>8, <1>9, <1>11, RunnerStep
     DEF engineVars, historyVars, TypesInv
<1> QED
  BY <1>1, <1>3, <1>6, <1>12 DEF IsActive

LEMMA PlainCreate ==
  ASSUME PlainInv, NEW t \in 1..Len(turns), Create(t)
  PROVE  PlainInv'
<1> DEFINE r == [runner[t] EXCEPT !.pc = "created"]
<1>1. /\ runner[t].pc = "claimed" /\ runner' = [runner EXCEPT ![t] = r]
      /\ known' = TRUE /\ UNCHANGED <<engine, saved, latest, messages, turns, call, historyVars>>
  BY DEF Create, Becomes, CreateSession
<1>2. /\ TypesInv /\ turns \in Seq(TurnType) /\ t \in 1..MaxTurns
  BY MessagesDomain DEF PlainInv, TypesInv
<1>4. runner[t] \in RunnerType /\ RunnerOK(messages, turns, t, runner[t])
  BY <1>2 DEF PlainInv, TypesInv
<1>5. r \in RunnerType /\ r.pc = "created"
  BY <1>4 DEF RunnerType
<1> HIDE DEF r
<1>6. RunnerOK(messages, turns', t, r)
  BY <1>1, <1>4, <1>5 DEF RunnerOK, Asked
<1>7. \A u \in 1..MaxTurns : runner'[u].pc = "answered" => runner[u].pc = "answered"
  BY <1>1, <1>5, OtherRunners
<1>8. EngineInv' /\ latest' \in Nat /\ SavedType(saved')
  BY <1>1, <1>7, EngineStays
<1> QED
  BY <1>1, <1>2, <1>5, <1>6, <1>8, NothingMoves, RunnerStep DEF historyVars, TypesInv, IsActive

LEMMA PlainAsk ==
  ASSUME PlainInv, NEW t \in 1..Len(turns), StartMessage(t)
  PROVE  PlainInv'
<1>1. /\ runner[t].pc \in {"created", "claimed"}
      /\ UNCHANGED <<engineVars, messages, turns, call, historyVars>>
  BY DEF StartMessage
<1>2. /\ TypesInv /\ turns \in Seq(TurnType) /\ t \in 1..MaxTurns /\ Len(turns) \in Nat
      /\ GoodMessages(messages)
  BY MessagesDomain DEF PlainInv, TypesInv
<1>3. RunnerOK(messages, turns, t, runner[t]) /\ TurnOK(messages, turns[t])
  BY <1>2 DEF PlainInv, TurnsInv
<1>4. PICK r \in RunnerType :
        /\ runner' = [runner EXCEPT ![t] = r] /\ RunnerOK(messages, turns, t, r)
        /\ r.pc # "answered"
  <2>1. CASE ~IsActive(t)
    <3>1. Gone(t)
      BY <2>1 DEF StartMessage
    <3>2. PICK r \in RunnerType :
            /\ runner' = [runner EXCEPT ![t] = r] /\ r.pc = "gone"
            /\ \A ms, ts : t \in 1..Len(ts) /\ ts[t].state # "queued" => RunnerOK(ms, ts, t, r)
      BY <3>1, GoneRunner
    <3>3. turns[t].state # "queued"
      BY <1>1, <1>3 DEF RunnerOK
    <3> QED
      BY <3>2, <3>3
  <2>2. CASE IsActive(t)
    <3> DEFINE q == turns[t].follows
               r == [NoRunner EXCEPT !.pc = "asked", !.own = t, !.base = NearestCheckpoint(q),
                       !.quoted = Earlier(q)]
    <3>1. runner' = [runner EXCEPT ![t] = r]
      BY <2>2 DEF StartMessage
    <3>2. q \in 1..Len(messages) /\ messages[q].parent \in 0..Len(messages) /\ Len(messages) \in Nat
      BY <1>2, <1>3, GoodParents DEF TurnOK, IsQuestion
    <3>3. NearestCheckpoint(q) = NearestTo(messages, q) /\ Earlier(q) = EarlierTo(messages, q)
      BY WalksAreThose DEF NearestTo, EarlierTo
    <3>4. NearestTo(messages, q) \in Nat /\ EarlierTo(messages, q) \in SUBSET Nat
      <4>1. /\ NearestIn(messages, messages[q].parent) \in Nat
            /\ EarlierIn(messages, messages[q].parent) \subseteq 1..messages[q].parent
        BY <1>2, <3>2, WalksGoBack
      <4> QED
        BY <4>1 DEF NearestTo, EarlierTo
    <3>6. t \in Nat /\ t # 0
      BY <1>2
    <3>5. /\ r \in RunnerType /\ r.pc = "asked" /\ r.base = NearestTo(messages, q)
          /\ r.quoted = EarlierTo(messages, q) /\ r.own = t
      BY <3>3, <3>4, <3>6, NoRunnerType DEF RunnerType
    <3>7. turns[t].state # "queued"
      BY <1>1, <1>3 DEF RunnerOK
    <3> HIDE DEF r, q
    <3>9. RunnerOK(messages, turns, t, r)
      BY <1>1, <1>2, <3>5, <3>6, <3>7 DEF RunnerOK, Asked, None, q
    <3> QED
      BY <3>1, <3>5, <3>9
  <2> QED
    BY <2>1, <2>2
<1>5. \A u \in 1..MaxTurns : runner'[u].pc = "answered" => runner[u].pc = "answered"
  BY <1>4, OtherRunners
<1>6. EngineInv' /\ latest' \in Nat /\ SavedType(saved')
  BY <1>1, <1>5, EngineStays DEF engineVars
<1> QED
  BY <1>1, <1>2, <1>4, <1>6, NothingMoves, RunnerStep
     DEF engineVars, historyVars, TypesInv, IsActive
LEMMA GreatestNumber ==
  ASSUME NEW n \in Nat, NEW numbers \in SUBSET (1..n), numbers # {}
  PROVE  \E i \in numbers : \A j \in numbers : j <= i
<1> DEFINE others == {k \in 0..n : n - k \in numbers}
<1>1. \A i \in numbers : n - i \in others
  <2>1. ASSUME NEW i \in numbers PROVE n - i \in others
    <3>1. i \in 1..n /\ n - (n - i) = i
      OBVIOUS
    <3> QED
      BY <3>1
  <2> QED
    BY <2>1
<1>2. others \in SUBSET Nat /\ others # {}
  <2>1. \A k \in others : k \in Nat
    OBVIOUS
  <2>2. PICK i \in numbers : TRUE
    OBVIOUS
  <2>3. n - i \in others
    BY <1>1
  <2> HIDE DEF others
  <2> QED
    BY <2>1, <2>3
<1>3. PICK k \in others : \A l \in others : k <= l
  BY <1>2, LeastNumber
<1>4. ASSUME NEW j \in numbers PROVE j <= n - k
  <2>1. k <= n - j /\ k \in 0..n /\ j \in 1..n
    BY <1>1, <1>3
  <2> QED
    BY <2>1
<1> QED
  BY <1>3, <1>4

LEMMA LastAsked ==
  ASSUME NEW h \in Seq(EntryType), HasAsked(h)
  PROVE  \E i \in DOMAIN h : /\ h[i].what = "asked" /\ AskedLast(h) = h[i].question
                             /\ \A j \in DOMAIN h : h[j].what = "asked" => j <= i
<1> DEFINE asked == {i \in DOMAIN h : h[i].what = "asked"}
           last == CHOOSE i \in asked : \A j \in asked : j <= i
<1>1. asked \in SUBSET (1..Len(h)) /\ asked # {} /\ Len(h) \in Nat
  BY DEF HasAsked
<1>2. \E i \in asked : \A j \in asked : j <= i
  <2> HIDE DEF asked
  <2> QED
    BY <1>1, GreatestNumber
<1>3. last \in asked /\ \A j \in asked : j <= last
  <2> HIDE DEF asked
  <2> QED
    BY <1>2
<1>4. AskedLast(h) = h[last].question
  BY DEF AskedLast
<1> HIDE DEF last
<1> QED
  BY <1>3, <1>4

\* What a save leaves of what the engine held.
LEMMA SaveKeeps ==
  ASSUME PlainInv, NEW own \in Nat, own # None, NEW h \in Seq(EntryType), HasAsked(h), Save(own, h)
  PROVE  LET c == SavedUnder(own)
         IN  /\ c \in Nat /\ c # None /\ latest' = c /\ saved'[c] = h
             /\ DOMAIN saved' = DOMAIN saved \cup {c}
             /\ \A d \in DOMAIN saved : d # c => saved'[d] = saved[d]
             /\ SavedType(saved') /\ EngineInv' /\ latest' \in Nat
             /\ engine = "langchain" => c \notin DOMAIN saved
             /\ engine = "pydantic-ai" => c = own
             /\ UNCHANGED <<engine, known>>
<1> DEFINE c == SavedUnder(own)
<1>1. /\ latest \in Nat /\ SavedType(saved) /\ EngineInv /\ engine \in Engines
  BY DEF PlainInv, TypesInv
<1>2. /\ c \in Nat /\ c # None
      /\ engine = "langchain" => c = latest + 1
      /\ engine = "pydantic-ai" => c = own
  BY <1>1 DEF SavedUnder, None
<1> HIDE DEF c
<1>3. /\ latest' = c
      /\ saved' = [d \in DOMAIN saved \cup {c} |-> IF d = c THEN h ELSE saved[d]]
      /\ UNCHANGED <<engine, known>>
  BY DEF Save, c
<1>4. /\ DOMAIN saved' = DOMAIN saved \cup {c} /\ saved'[c] = h
      /\ \A d \in DOMAIN saved : d # c => saved'[d] = saved[d]
  BY <1>3
<1>5. SavedType(saved')
  BY <1>1, <1>2, <1>4 DEF SavedType
<1>6. engine = "langchain" => DOMAIN saved' = 1..c /\ c \notin DOMAIN saved
  BY <1>1, <1>2, <1>4 DEF EngineInv
<1>7. ASSUME NEW d \in DOMAIN saved' PROVE HasAsked(saved'[d])
  BY <1>1, <1>4 DEF EngineInv
<1>8. EngineInv'
  BY <1>2, <1>3, <1>4, <1>6, <1>7 DEF EngineInv
<1> QED
  BY <1>1, <1>2, <1>3, <1>4, <1>5, <1>6, <1>8 DEF c

LEMMA PlainBegin ==
  ASSUME PlainInv, NEW t \in 1..Len(turns), Begin(t)
  PROVE  /\ PlainInv'
         /\ HistoryAt(runner[t].base) \in Seq(EntryType)
         /\ PromptAfterFailures(turns[t].follows, runner[t].quoted, turns[t].retries) \in EntryType
<1> DEFINE before == HistoryAt(runner[t].base)
           prompt == PromptAfterFailures(turns[t].follows, runner[t].quoted, turns[t].retries)
           fresh == Append(before, prompt)
           r == [runner[t] EXCEPT !.pc = "streaming", !.history = fresh]
<1>1. /\ runner[t].pc = "asked" /\ Holds(runner[t].base)
      /\ runner' = [runner EXCEPT ![t].pc = "streaming", ![t].history = fresh]
      /\ IF engine = "langchain" THEN Saves(t, fresh) ELSE UNCHANGED <<engineVars, overlapped>>
      /\ UNCHANGED <<messages, turns, call, pauses, mixed>>
  BY DEF Begin, Ready
<1>2. /\ TypesInv /\ turns \in Seq(TurnType) /\ t \in 1..MaxTurns /\ Len(turns) \in Nat
      /\ turns[t] \in TurnType /\ runner[t] \in RunnerType /\ runner \in [1..MaxTurns -> RunnerType]
      /\ RunnerOK(messages, turns, t, runner[t])
  BY MessagesDomain DEF PlainInv, TypesInv
<1>3. before \in Seq(EntryType)
  BY <1>1, <1>2 DEF HistoryAt, Holds, TypesInv, SavedType
<1>4. prompt \in EntryType /\ prompt.what = "asked"
  BY <1>2 DEF PromptAfterFailures, Entry, EntryType, TurnType, RunnerType
<1> HIDE DEF before, prompt
<1>5. fresh \in Seq(EntryType) /\ HasAsked(fresh)
  <2>1. /\ fresh \in Seq(EntryType) /\ Len(before) + 1 \in DOMAIN fresh
        /\ fresh[Len(before) + 1] = prompt
    BY <1>3, <1>4
  <2> QED
    BY <1>4, <2>1 DEF HasAsked
<1> HIDE DEF fresh
<1>6. /\ r \in RunnerType /\ r.pc = "streaming" /\ r.history = fresh /\ r.own = runner[t].own
      /\ r.base = runner[t].base /\ r.quoted = runner[t].quoted /\ runner[t].own \in Nat
  BY <1>2, <1>5 DEF RunnerType, Asked
<1>7. runner' = [runner EXCEPT ![t] = r]
  BY <1>1, <1>2
<1> HIDE DEF r
<1>8. RunnerOK(messages, turns', t, r)
  BY <1>1, <1>2, <1>5, <1>6 DEF RunnerOK, Asked
<1>9. /\ EngineInv' /\ latest' \in Nat /\ SavedType(saved') /\ overlapped' \in BOOLEAN
      /\ UNCHANGED <<engine, known>>
  <2>1. CASE engine = "langchain"
    <3>1. Save(runner[t].own, fresh) /\ overlapped' = (overlapped \/ ~IsActive(t))
      BY <1>1, <2>1 DEF Saves
    <3>2. runner[t].own # None
      BY <1>1, <1>2 DEF RunnerOK
    <3>3. overlapped' \in BOOLEAN
      BY <3>1
    <3> QED
      BY <1>5, <1>6, <3>1, <3>2, <3>3, SaveKeeps
  <2>2. CASE engine # "langchain"
    <3>1. UNCHANGED <<engineVars, overlapped>>
      BY <1>1, <2>2
    <3>2. \A u \in 1..MaxTurns : runner'[u].pc = "answered" => runner[u].pc = "answered"
      BY <1>6, <1>7, OtherRunners
    <3> QED
      BY <1>2, <3>1, <3>2, EngineStays DEF engineVars, TypesInv
  <2> QED
    BY <2>1, <2>2
<1>10. PlainInv'
  BY <1>1, <1>2, <1>6, <1>7, <1>8, <1>9, NothingMoves, RunnerStep DEF TypesInv, IsActive
<1> QED
  BY <1>3, <1>4, <1>10 DEF before, prompt
LEMMA PlainGoOn ==
  ASSUME PlainInv, NEW t \in 1..Len(turns), GoOn(t)
  PROVE  PlainInv'
<1>1. PICK p \in Partial(t) :
        /\ runner' = [runner EXCEPT ![t].own = p, ![t].history = saved[p],
                        ![t].pc = IF HasFinished(saved[p]) THEN "done" ELSE "streaming"]
        /\ mixed' = (mixed \/ AskedLast(saved[p]) # turns[t].follows)
  BY DEF GoOn
<1> DEFINE r == [runner[t] EXCEPT !.own = p, !.history = saved[p],
                   !.pc = IF HasFinished(saved[p]) THEN "done" ELSE "streaming"]
<1>2. /\ runner[t].pc = "asked" /\ (mixed' = (mixed \/ AskedLast(saved[p]) # turns[t].follows))
      /\ UNCHANGED <<engineVars, messages, turns, call, pauses, overlapped>>
  BY <1>1 DEF GoOn, Ready
<1>3. /\ TypesInv /\ turns \in Seq(TurnType) /\ t \in 1..MaxTurns /\ Len(turns) \in Nat
      /\ runner[t] \in RunnerType /\ runner \in [1..MaxTurns -> RunnerType]
      /\ RunnerOK(messages, turns, t, runner[t])
  BY MessagesDomain DEF PlainInv, TypesInv
<1>4. p = latest /\ p # None
  BY DEF Partial, PartialTurn
<1>5. p \in DOMAIN saved /\ p \in Nat /\ saved[p] \in Seq(EntryType) /\ HasAsked(saved[p])
  BY <1>3, <1>4 DEF PlainInv, EngineInv, TypesInv, SavedType
<1>6. /\ r \in RunnerType /\ r.pc \in {"done", "streaming"} /\ r.history = saved[p] /\ r.own = p
      /\ r.base = runner[t].base /\ r.quoted = runner[t].quoted
  BY <1>3, <1>5 DEF RunnerType, Asked
<1>7. runner' = [runner EXCEPT ![t] = r]
  BY <1>1, <1>3
<1> HIDE DEF r
<1>8. RunnerOK(messages, turns', t, r)
  BY <1>2, <1>3, <1>4, <1>5, <1>6 DEF RunnerOK, Asked
<1>9. \A u \in 1..MaxTurns : runner'[u].pc = "answered" => runner[u].pc = "answered"
  BY <1>6, <1>7, OtherRunners
<1>10. EngineInv' /\ latest' \in Nat /\ SavedType(saved')
  BY <1>2, <1>9, EngineStays DEF engineVars
<1>11. mixed' \in BOOLEAN
  BY <1>2
<1> QED
  BY <1>2, <1>3, <1>6, <1>7, <1>8, <1>10, <1>11, NothingMoves, RunnerStep
     DEF engineVars, TypesInv, IsActive

LEMMA PlainTells ==
  ASSUME PlainInv, NEW t \in 1..Len(turns),
         NEW what \in {"round", "answer"}, NEW pc \in {"saving", "answering"}, Tells(t, what, pc)
  PROVE  /\ PlainInv' /\ runner[t].history \in Seq(EntryType)
         /\ Entry(what, AskedLast(runner[t].history), {}) \in EntryType
         /\ HasAsked(runner[t].history)
<1> DEFINE h == runner[t].history
           e == Entry(what, AskedLast(h), {})
           r == [runner[t] EXCEPT !.pc = pc, !.history = Append(h, e)]
<1>1. /\ runner[t].pc = "streaming"
      /\ runner' = [runner EXCEPT ![t].pc = pc,
                      ![t].history = Append(@, Entry(what, AskedLast(runner[t].history), {}))]
      /\ UNCHANGED <<engineVars, messages, turns, call, historyVars>>
  BY DEF Tells
<1>2. /\ TypesInv /\ turns \in Seq(TurnType) /\ t \in 1..MaxTurns /\ Len(turns) \in Nat
      /\ runner[t] \in RunnerType /\ runner \in [1..MaxTurns -> RunnerType]
      /\ RunnerOK(messages, turns, t, runner[t])
  BY MessagesDomain DEF PlainInv, TypesInv
<1>3. h \in Seq(EntryType) /\ HasAsked(h)
  BY <1>1, <1>2 DEF RunnerType, RunnerOK, Asked
<1>4. e \in EntryType
  <2>1. PICK i \in DOMAIN h : AskedLast(h) = h[i].question
    BY <1>3, LastAsked
  <2>2. h[i] \in EntryType
    <3> HIDE DEF h
    <3> QED
      BY <1>3
  <2>3. AskedLast(h) \in Nat
    BY <2>1, <2>2 DEF EntryType
  <2> QED
    BY <2>3 DEF Entry, EntryType
<1>5. runner' = [runner EXCEPT ![t] = r]
  BY <1>1, <1>2
<1> HIDE DEF e
<1>6. Append(h, e) \in Seq(EntryType) /\ HasAsked(Append(h, e))
  <2> DEFINE longer == Append(h, e)
  <2>1. longer \in Seq(EntryType) /\ \A i \in DOMAIN h : i \in DOMAIN longer /\ longer[i] = h[i]
    BY <1>3, <1>4
  <2> HIDE DEF longer
  <2>2. HasAsked(longer)
    BY <1>3, <2>1 DEF HasAsked
  <2> QED
    BY <2>1, <2>2 DEF longer
<1>7. /\ r \in RunnerType /\ r.pc = pc /\ r.history = Append(h, e) /\ r.own = runner[t].own
      /\ r.base = runner[t].base /\ r.quoted = runner[t].quoted
  BY <1>2, <1>6 DEF RunnerType, Asked
<1> HIDE DEF r
<1>8. RunnerOK(messages, turns', t, r)
  BY <1>1, <1>2, <1>6, <1>7 DEF RunnerOK, Asked
<1>9. \A u \in 1..MaxTurns : runner'[u].pc = "answered" => runner[u].pc = "answered"
  BY <1>5, <1>7, OtherRunners
<1>10. EngineInv' /\ latest' \in Nat /\ SavedType(saved')
  BY <1>1, <1>9, EngineStays DEF engineVars
<1>11. PlainInv'
  BY <1>1, <1>2, <1>5, <1>7, <1>8, <1>10, NothingMoves, RunnerStep
     DEF engineVars, historyVars, TypesInv, IsActive
<1> QED
  BY <1>3, <1>4, <1>11 DEF e

\* A save of what the runner holds, after a round or the answer.
LEMMA PlainSave ==
  ASSUME PlainInv, NEW t \in 1..Len(turns), runner[t].pc \in {"saving", "answering"},
         NEW pc \in {"streaming", "answered", "done"},
         Saves(t, runner[t].history), Becomes(t, pc),
         UNCHANGED <<messages, turns, call, pauses, mixed>>
  PROVE  /\ PlainInv' /\ Save(runner[t].own, runner[t].history) /\ HasAsked(runner[t].history)
         /\ runner[t].own \in Nat /\ runner[t].own # None /\ runner[t].history \in Seq(EntryType)
<1> DEFINE h == runner[t].history
           r == [runner[t] EXCEPT !.pc = pc]
<1>1. /\ Save(runner[t].own, h) /\ (overlapped' = (overlapped \/ ~IsActive(t)))
      /\ runner' = [runner EXCEPT ![t] = r]
  BY DEF Saves, Becomes
<1>2. /\ TypesInv /\ turns \in Seq(TurnType) /\ t \in 1..MaxTurns /\ Len(turns) \in Nat
      /\ runner[t] \in RunnerType /\ RunnerOK(messages, turns, t, runner[t])
  BY MessagesDomain DEF PlainInv, TypesInv
<1>3. h \in Seq(EntryType) /\ HasAsked(h) /\ runner[t].own \in Nat /\ runner[t].own # None
  BY <1>2 DEF RunnerType, RunnerOK, Asked
<1>4. /\ r \in RunnerType /\ r.pc = pc /\ r.history = h /\ r.own = runner[t].own
      /\ r.base = runner[t].base /\ r.quoted = runner[t].quoted
  BY <1>2 DEF RunnerType, Asked
<1> HIDE DEF r
<1>5. RunnerOK(messages, turns', t, r)
  BY <1>2, <1>3, <1>4 DEF RunnerOK, Asked
<1>6. EngineInv' /\ latest' \in Nat /\ SavedType(saved') /\ UNCHANGED <<engine, known>>
  BY <1>1, <1>3, SaveKeeps
<1>7. overlapped' \in BOOLEAN
  BY <1>1
<1>8. PlainInv'
  BY <1>1, <1>2, <1>4, <1>5, <1>6, <1>7, NothingMoves, RunnerStep DEF TypesInv, IsActive
<1> QED
  BY <1>1, <1>3, <1>8

LEMMA PlainHand ==
  ASSUME PlainInv, NEW t \in 1..Len(turns), Hand(t)
  PROVE  PlainInv' /\ latest \in DOMAIN saved
<1> DEFINE r == [runner[t] EXCEPT !.pc = "done", !.own = latest]
<1>1. /\ runner[t].pc = "answered"
      /\ runner' = [runner EXCEPT ![t].pc = "done", ![t].own = latest]
      /\ UNCHANGED <<engineVars, messages, turns, call, historyVars>>
  BY DEF Hand
<1>2. /\ TypesInv /\ turns \in Seq(TurnType) /\ t \in 1..MaxTurns /\ Len(turns) \in Nat
      /\ runner[t] \in RunnerType /\ runner \in [1..MaxTurns -> RunnerType]
      /\ RunnerOK(messages, turns, t, runner[t])
  BY MessagesDomain DEF PlainInv, TypesInv
<1>3. latest \in Nat /\ latest # None /\ latest \in DOMAIN saved
  BY <1>1, <1>2 DEF PlainInv, EngineInv, TypesInv
<1>4. /\ r \in RunnerType /\ r.pc = "done" /\ r.own = latest /\ r.history = runner[t].history
      /\ r.base = runner[t].base /\ r.quoted = runner[t].quoted
  BY <1>2, <1>3 DEF RunnerType, Asked
<1>5. runner' = [runner EXCEPT ![t] = r]
  BY <1>1, <1>2
<1> HIDE DEF r
<1>6. RunnerOK(messages, turns', t, r)
  BY <1>1, <1>2, <1>3, <1>4 DEF RunnerOK, Asked
<1>7. \A u \in 1..MaxTurns : runner'[u].pc = "answered" => runner[u].pc = "answered"
  BY <1>4, <1>5, OtherRunners
<1>8. EngineInv' /\ latest' \in Nat /\ SavedType(saved')
  BY <1>1, <1>7, EngineStays DEF engineVars
<1>9. PlainInv'
  BY <1>1, <1>2, <1>4, <1>5, <1>6, <1>8, NothingMoves, RunnerStep
     DEF engineVars, historyVars, TypesInv, IsActive
<1> QED
  BY <1>3, <1>9
-----------------------------------------------------------------------------
(* The steps, one by one: what the engine remembers                        *)

\* What a step must show of what is saved and of the active turn.
LEMMA MemoryStep ==
  ASSUME PlainInv, MemoryInv, Grows(messages, messages'), SavesOn(messages, saved, saved'),
         UNCHANGED engine,
         \A a \in (Len(messages) + 1)..Len(messages') :
           messages'[a].checkpoint # None => KeptOf(messages', saved', a),
         engine = "pydantic-ai" => DOMAIN saved' \subseteq 1..Len(turns'),
         \A u \in 1..Len(turns') : IsActive(u)' => ActiveOK(u)'
  PROVE  MemoryInv'
<1>1. KeptIn(messages', saved')
  BY KeptStays DEF MemoryInv
<1> QED
  BY <1>1 DEF MemoryInv

LEMMA SavesNothing ==
  ASSUME PlainInv, MemoryInv, UNCHANGED saved
  PROVE  SavesOn(messages, saved, saved')
BY DEF PlainInv, TypesInv, MemoryInv, KeptIn, SavesOn

LEMMA ActiveStays ==
  ASSUME NEW u, ActiveOK(u), UNCHANGED <<engine, saved, latest, messages>>, runner'[u] = runner[u],
         Len(turns) \in Nat, Len(turns') \in Nat, Len(turns) <= Len(turns')
  PROVE  ActiveOK(u)'
<1>1. \A c \in 1..Len(turns) : c \in 1..Len(turns')
  OBVIOUS
<1>2. \A c : Unkept(c) => Unkept(c)'
  BY DEF Unkept
<1> QED
  BY <1>1, <1>2 DEF ActiveOK

\* Nothing is active after the step, and what it adds is no finished answer.
LEMMA MemoryWithoutActive ==
  ASSUME PlainInv, MemoryInv, Grows(messages, messages'), UNCHANGED <<engine, saved>>,
         Len(turns) \in Nat, Len(turns') \in Nat, Len(turns) <= Len(turns'),
         \A a \in (Len(messages) + 1)..Len(messages') : messages'[a].checkpoint = None,
         \A u \in 1..Len(turns') : ~IsActive(u)'
  PROVE  MemoryInv'
<1>1. SavesOn(messages, saved, saved')
  BY SavesNothing
<1>2. engine = "pydantic-ai" => DOMAIN saved' \subseteq 1..Len(turns')
  BY DEF MemoryInv
<1> QED
  BY <1>1, <1>2, MemoryStep

\* The runner of one turn alone takes a step, and saves nothing.
LEMMA MemoryRunner ==
  ASSUME PlainInv, MemoryInv, NEW t, UNCHANGED <<engine, saved, latest, messages>>,
         Len(turns') = Len(turns),
         \A u \in 1..MaxTurns : u # t => runner'[u] = runner[u],
         \A u \in 1..Len(turns) : IsActive(u)' => IsActive(u),
         t \in 1..Len(turns) /\ IsActive(t)' => ActiveOK(t)'
  PROVE  MemoryInv'
<1>1. /\ TypesInv /\ Len(turns) \in Nat /\ Len(messages) \in Nat
      /\ \A u \in 1..Len(turns) : u \in 1..MaxTurns
  BY MessagesDomain DEF PlainInv
<1>2. Grows(messages, messages') /\ (Len(messages) + 1)..Len(messages') = {}
  BY <1>1, NothingMoves
<1>3. SavesOn(messages, saved, saved')
  BY SavesNothing
<1>4. engine = "pydantic-ai" => DOMAIN saved' \subseteq 1..Len(turns')
  BY DEF MemoryInv
<1>5. ASSUME NEW u \in 1..Len(turns'), IsActive(u)' PROVE ActiveOK(u)'
  <2>1. CASE u = t
    BY <1>5, <2>1
  <2>2. CASE u # t
    <3>1. runner'[u] = runner[u] /\ ActiveOK(u)
      BY <1>1, <1>5, <2>2 DEF MemoryInv
    <3> QED
      BY <1>1, <3>1, ActiveStays
  <2> QED
    BY <2>1, <2>2
<1> QED
  BY <1>2, <1>3, <1>4, <1>5, MemoryStep

LEMMA MemoryCalls ==
  ASSUME PlainInv, MemoryInv, UNCHANGED <<engineVars, messages, turns, runner>>
  PROVE  MemoryInv'
<1>1. \A u \in 1..Len(turns) : IsActive(u)' => IsActive(u)
  BY DEF IsActive
<1>2. 0 \notin 1..Len(turns)
  BY MessagesDomain DEF PlainInv
<1> QED
  BY <1>1, <1>2, MemoryRunner DEF engineVars

LEMMA MemoryQueue ==
  ASSUME PlainInv, MemoryInv, NEW c \in Clients, QueueTurn(c)
  PROVE  MemoryInv'
<1>1. /\ PlainInv' /\ Grows(messages, messages') /\ Len(turns') = Len(turns) + 1
      /\ \A t \in 1..Len(turns) : turns'[t] = turns[t] /\ ~IsActive(t)
      /\ \A m \in (Len(messages) + 1)..Len(messages') : messages'[m].checkpoint = None
      /\ runner[Len(turns) + 1].pc = "none"
      /\ UNCHANGED <<engineVars, runner, historyVars>>
  BY PlainQueue
<1>2. Len(turns) \in Nat
  BY MessagesDomain DEF PlainInv
<1>3. SavesOn(messages, saved, saved')
  BY <1>1, SavesNothing DEF engineVars
<1>4. engine = "pydantic-ai" => DOMAIN saved' \subseteq 1..Len(turns')
  BY <1>1, <1>2 DEF MemoryInv, engineVars
<1>5. ASSUME NEW u \in 1..Len(turns'), IsActive(u)' PROVE ActiveOK(u)'
  <2>1. u = Len(turns) + 1
    BY <1>1, <1>2, <1>5 DEF IsActive
  <2>2. runner'[u].pc = "none" /\ runner'[u].pc \notin Asked
    BY <1>1, <2>1 DEF Asked
  <2>3. engine = "pydantic-ai" => u \notin DOMAIN saved'
    BY <1>1, <1>2, <2>1 DEF MemoryInv, engineVars
  <2> QED
    BY <1>1, <2>2, <2>3 DEF ActiveOK, Asked, engineVars
<1> QED
  BY <1>1, <1>3, <1>4, <1>5, MemoryStep DEF engineVars

LEMMA MemoryCancel ==
  ASSUME PlainInv, MemoryInv, NEW t \in 1..Len(turns), Cancel(t)
  PROVE  MemoryInv'
<1>1. /\ UNCHANGED <<engineVars, messages, overlapped, mixed>> /\ Len(turns') = Len(turns)
      /\ \A u \in 1..Len(turns') : ~IsActive(u)'
  BY PlainCancel, EndsTurns DEF Cancel
<1>2. Len(turns) \in Nat /\ Len(messages) \in Nat /\ TypesInv
  BY MessagesDomain DEF PlainInv
<1>3. Grows(messages, messages') /\ (Len(messages) + 1)..Len(messages') = {}
  BY <1>1, <1>2, NothingMoves
<1> QED
  BY <1>1, <1>2, <1>3, MemoryWithoutActive DEF engineVars

LEMMA MemoryLapse ==
  ASSUME PlainInv, MemoryInv, NEW t \in 1..Len(turns), Lapse(t)
  PROVE  MemoryInv'
<1>1. /\ UNCHANGED <<engineVars, runner, overlapped, mixed>>
      /\ Grows(messages, messages') /\ Len(turns') = Len(turns)
      /\ \A m \in (Len(messages) + 1)..Len(messages') : messages'[m].checkpoint = None
      /\ \A u \in 1..Len(turns') : ~IsActive(u)'
  BY PlainLapse, EndsTurns DEF Lapse
<1>2. Len(turns) \in Nat
  BY MessagesDomain DEF PlainInv
<1> QED
  BY <1>1, <1>2, MemoryWithoutActive DEF engineVars

\* The runner goes, and its turn goes on without it or was over.
LEMMA MemoryGone ==
  ASSUME PlainInv, MemoryInv, NEW t \in 1..Len(turns), Gone(t),
         UNCHANGED <<engineVars, messages, turns>>
  PROVE  MemoryInv'
<1>1. PICK r \in RunnerType :
        /\ runner' = [runner EXCEPT ![t] = r] /\ r.pc = "gone"
        /\ \A u \in 1..MaxTurns : u # t => runner'[u] = runner[u]
  BY GoneRunner
<1>2. runner'[t].pc = "gone"
  BY <1>1, OtherRunners
<1>3. ActiveOK(t)'
  BY <1>2 DEF ActiveOK, Asked
<1>4. \A u \in 1..Len(turns) : IsActive(u)' => IsActive(u)
  BY DEF IsActive
<1> QED
  BY <1>1, <1>3, <1>4, MemoryRunner DEF engineVars

LEMMA MemoryFail ==
  ASSUME PlainInv, MemoryInv, NEW t \in 1..Len(turns), Fail(t)
  PROVE  MemoryInv'
<1>1. CASE IsActive(t)
  <2>1. Ends(t, <<Answer(t, TRUE, None)>>) /\ UNCHANGED engineVars
    BY <1>1 DEF Fail
  <2>2. messages' = messages \o <<Answer(t, TRUE, None)>> /\ None \in Nat
    BY <2>1 DEF Ends, None
  <2>3. /\ Grows(messages, messages')
        /\ \A m \in (Len(messages) + 1)..Len(messages') : messages'[m].checkpoint = None
    BY <2>2, EndsAnswer
  <2>4. /\ Len(turns') = Len(turns) /\ Len(turns) \in Nat
        /\ \A u \in 1..Len(turns') : IsActive(u)' => IsActive(u) /\ u # t
    BY <2>1, EndsTurns, MessagesDomain DEF PlainInv
  <2>5. \A u \in 1..Len(turns') : ~IsActive(u)'
    BY <1>1, <2>4 DEF PlainInv, TurnsInv
  <2> QED
    BY <2>1, <2>3, <2>4, <2>5, MemoryWithoutActive DEF engineVars
<1>2. CASE ~IsActive(t)
  BY <1>2, MemoryGone DEF Fail
<1> QED
  BY <1>1, <1>2

\* A runner whose turn is active stores its answer, and nothing is active after.
LEMMA FinishAnswers ==
  ASSUME PlainInv, NEW t \in 1..Len(turns), Finish(t), IsActive(t)
  PROVE  /\ runner[t].pc = "done" /\ UNCHANGED <<engine, saved, latest>>
         /\ Grows(messages, messages') /\ IsQuestion(messages, turns[t].follows)
         /\ \A m \in (Len(messages) + 1)..Len(messages') :
              /\ messages'[m].checkpoint = runner[t].own
              /\ messages'[m].parent = turns[t].follows
         /\ Len(turns') = Len(turns)
         /\ \A u \in 1..Len(turns') : ~IsActive(u)'
<1> DEFINE c == runner[t].own
<1>1. Ends(t, <<Answer(t, FALSE, c)>>) /\ UNCHANGED engineVars /\ runner[t].pc = "done"
  BY DEF Finish
<1>2. messages' = messages \o <<Answer(t, FALSE, c)>> /\ c \in Nat /\ (FALSE <=> c = None)
  BY <1>1, PlainFinish DEF Ends
<1>3. /\ Grows(messages, messages') /\ IsQuestion(messages, turns[t].follows)
      /\ \A m \in (Len(messages) + 1)..Len(messages') :
           messages'[m].checkpoint = c /\ messages'[m].parent = turns[t].follows
  BY <1>2, EndsAnswer
<1>4. /\ Len(turns') = Len(turns) /\ Len(turns) \in Nat
      /\ \A u \in 1..Len(turns') : IsActive(u)' => IsActive(u) /\ u # t
  BY <1>1, EndsTurns, MessagesDomain DEF PlainInv
<1>5. \A u \in 1..Len(turns') : ~IsActive(u)'
  BY <1>4 DEF PlainInv, TurnsInv
<1> QED
  BY <1>1, <1>3, <1>4, <1>5 DEF engineVars

\* The answer goes on from what its runner asked from.
LEMMA MemoryFinish ==
  ASSUME PlainInv, MemoryInv, NEW t \in 1..Len(turns), Finish(t)
  PROVE  MemoryInv'
<1>1. CASE IsActive(t)
  <2> DEFINE c == runner[t].own
             q == turns[t].follows
  <2>1. /\ runner[t].pc = "done" /\ UNCHANGED <<engine, saved, latest>>
        /\ Grows(messages, messages') /\ IsQuestion(messages, q)
        /\ \A m \in (Len(messages) + 1)..Len(messages') :
             messages'[m].checkpoint = c /\ messages'[m].parent = q
        /\ Len(turns') = Len(turns)
        /\ \A u \in 1..Len(turns') : ~IsActive(u)'
    BY <1>1, FinishAnswers
  <2>6. /\ c \in DOMAIN saved /\ saved[c] = runner[t].history /\ HasFinished(runner[t].history)
        /\ Extends(runner[t].history, History(saved, runner[t].base))
    BY <1>1, <2>1 DEF MemoryInv, ActiveOK, Asked
  <2>7. runner[t].base = NearestTo(messages, q)
    <3>1. t \in 1..MaxTurns
      BY MessagesDomain DEF PlainInv
    <3> QED
      BY <2>1, <3>1 DEF PlainInv, RunnerOK, Asked
  <2>8. NearestTo(messages', q) = NearestTo(messages, q)
    BY <2>1, PlacesStay DEF IsQuestion
  <2>9. saved' = saved
    BY <2>1
  <2>10. \A a \in (Len(messages) + 1)..Len(messages') : KeptOf(messages', saved', a)
    <3> HIDE DEF c, q
    <3> QED
      BY <2>1, <2>6, <2>7, <2>8, <2>9 DEF KeptOf
  <2>11. SavesOn(messages, saved, saved')
    BY <2>9, SavesNothing
  <2>12. engine = "pydantic-ai" => DOMAIN saved' \subseteq 1..Len(turns')
    BY <2>1, <2>9 DEF MemoryInv
  <2> QED
    BY <2>1, <2>10, <2>11, <2>12, MemoryStep
<1>2. CASE ~IsActive(t)
  BY <1>2, MemoryGone DEF Finish
<1> QED
  BY <1>1, <1>2
\* What an active turn's runner and its question are.
LEMMA RunnerFacts ==
  ASSUME PlainInv, NEW t \in 1..Len(turns)
  PROVE  /\ TypesInv /\ t \in 1..MaxTurns /\ Len(turns) \in Nat /\ Len(messages) \in Nat
         /\ runner \in [1..MaxTurns -> RunnerType] /\ runner[t] \in RunnerType
         /\ RunnerOK(messages, turns, t, runner[t]) /\ TurnOK(messages, turns[t])
         /\ engine \in Engines /\ DOMAIN turns = 1..Len(turns) /\ SavedType(saved)
BY MessagesDomain DEF PlainInv, TypesInv, TurnsInv

LEMMA MemoryClaim ==
  ASSUME PlainInv, MemoryInv, NEW t \in 1..Len(turns), Claim(t)
  PROVE  MemoryInv'
<1>1. /\ Len(turns') = Len(turns) /\ \A u \in 1..Len(turns) : u # t => turns'[u] = turns[u]
      /\ IsActive(t)
  BY PlainClaim
<1>2. /\ runner' = [runner EXCEPT ![t].pc = "claimed"] /\ turns[t].state = "queued"
      /\ UNCHANGED <<engineVars, messages>>
  BY DEF Claim, Becomes
<1>3. /\ t \in 1..MaxTurns /\ runner \in [1..MaxTurns -> RunnerType] /\ runner[t] \in RunnerType
      /\ RunnerOK(messages, turns, t, runner[t])
  BY RunnerFacts
<1>4. /\ runner'[t].pc = "claimed" /\ \A u \in 1..MaxTurns : u # t => runner'[u] = runner[u]
  BY <1>2, <1>3 DEF RunnerType
<1>5. runner[t].pc = "none"
  BY <1>2, <1>3 DEF RunnerOK
<1>6. engine = "pydantic-ai" => t \notin DOMAIN saved
  BY <1>1, <1>5 DEF MemoryInv, ActiveOK
<1>7. ActiveOK(t)'
  BY <1>2, <1>4, <1>6 DEF ActiveOK, Asked, engineVars
<1>8. \A u \in 1..Len(turns) : IsActive(u)' => IsActive(u)
  BY <1>1 DEF IsActive
<1> QED
  BY <1>1, <1>2, <1>4, <1>7, <1>8, MemoryRunner DEF engineVars

LEMMA MemoryCreate ==
  ASSUME PlainInv, MemoryInv, NEW t \in 1..Len(turns), Create(t)
  PROVE  MemoryInv'
<1>1. /\ runner' = [runner EXCEPT ![t].pc = "created"] /\ runner[t].pc = "claimed"
      /\ UNCHANGED <<engine, saved, latest, messages, turns>>
  BY DEF Create, Becomes, CreateSession
<1>2. /\ t \in 1..MaxTurns /\ runner \in [1..MaxTurns -> RunnerType] /\ runner[t] \in RunnerType
  BY RunnerFacts
<1>3. /\ runner'[t].pc = "created" /\ \A u \in 1..MaxTurns : u # t => runner'[u] = runner[u]
  BY <1>1, <1>2 DEF RunnerType
<1>4. ASSUME IsActive(t)' PROVE ActiveOK(t)'
  <2>1. engine = "pydantic-ai" => t \notin DOMAIN saved
    BY <1>1, <1>4 DEF MemoryInv, ActiveOK, IsActive
  <2> QED
    BY <1>1, <1>3, <2>1 DEF ActiveOK, Asked
<1>5. \A u \in 1..Len(turns) : IsActive(u)' => IsActive(u)
  BY <1>1 DEF IsActive
<1> QED
  BY <1>1, <1>3, <1>4, <1>5, MemoryRunner

LEMMA MemoryAsk ==
  ASSUME PlainInv, MemoryInv, NEW t \in 1..Len(turns), StartMessage(t)
  PROVE  MemoryInv'
<1>1. /\ runner[t].pc \in {"created", "claimed"}
      /\ UNCHANGED <<engineVars, messages, turns, call, historyVars>>
  BY DEF StartMessage
<1>2. CASE ~IsActive(t)
  BY <1>1, <1>2, MemoryGone DEF StartMessage
<1>3. CASE IsActive(t)
  <2> DEFINE r == [NoRunner EXCEPT !.pc = "asked", !.own = t,
                     !.base = NearestCheckpoint(turns[t].follows), !.quoted = Earlier(turns[t].follows)]
  <2>1. runner' = [runner EXCEPT ![t] = r]
    BY <1>3 DEF StartMessage
  <2>2. r.pc = "asked" /\ r.own = t
    BY DEF NoRunner
  <2> HIDE DEF r
  <2>3. /\ runner'[t] = r /\ \A u \in 1..MaxTurns : u # t => runner'[u] = runner[u]
    BY <2>1, OtherRunners
  <2>4. engine = "pydantic-ai" => t \notin DOMAIN saved
    BY <1>1, <1>3 DEF MemoryInv, ActiveOK
  <2>5. ActiveOK(t)'
    BY <1>1, <2>2, <2>3, <2>4 DEF ActiveOK, Asked, engineVars
  <2>6. \A u \in 1..Len(turns) : IsActive(u)' => IsActive(u)
    BY <1>1 DEF IsActive
  <2> QED
    BY <1>1, <2>3, <2>5, <2>6, MemoryRunner DEF engineVars
<1> QED
  BY <1>2, <1>3

LEMMA MemoryGoOn ==
  ASSUME PlainInv, MemoryInv, NEW t \in 1..Len(turns), GoOn(t)
  PROVE  MemoryInv'
<1>1. PICK p \in Partial(t) :
        runner' = [runner EXCEPT ![t].own = p, ![t].history = saved[p],
                     ![t].pc = IF HasFinished(saved[p]) THEN "done" ELSE "streaming"]
  BY DEF GoOn
<1>2. /\ runner[t].pc = "asked" /\ UNCHANGED <<engineVars, messages, turns>>
  BY DEF GoOn, Ready
<1>3. /\ t \in 1..MaxTurns /\ runner \in [1..MaxTurns -> RunnerType] /\ runner[t] \in RunnerType
  BY RunnerFacts
<1>4. /\ p # None /\ p \in DOMAIN saved /\ Extends(saved[p], HistoryAt(runner[t].base))
  BY DEF Partial, PartialTurn, PlainInv, EngineInv
<1>5. /\ runner'[t].pc = (IF HasFinished(saved[p]) THEN "done" ELSE "streaming")
      /\ runner'[t].own = p /\ runner'[t].history = saved[p] /\ runner'[t].base = runner[t].base
      /\ \A u \in 1..MaxTurns : u # t => runner'[u] = runner[u]
  BY <1>1, <1>3 DEF RunnerType
<1>6. ~HasFinished(saved[p]) => Unkept(p)'
  <2>1. ASSUME NEW a \in 1..Len(messages), messages[a].checkpoint = p PROVE HasFinished(saved[p])
    BY <1>4, <2>1 DEF MemoryInv, KeptIn
  <2> QED
    BY <1>2, <2>1 DEF Unkept
<1>7. engine = "pydantic-ai" => p \in 1..Len(turns)
  BY <1>4 DEF MemoryInv
<1>8. Extends(saved[p], History(saved, runner[t].base))
  BY <1>4 DEF HistoryAt, History
<1>9. ActiveOK(t)'
  <2>1. CASE HasFinished(saved[p])
    <3>1. runner'[t].pc = "done"
      BY <1>5, <2>1
    <3> QED
      BY <1>2, <1>4, <1>5, <1>8, <2>1, <3>1 DEF ActiveOK, Asked, engineVars
  <2>2. CASE ~HasFinished(saved[p])
    <3>1. runner'[t].pc = "streaming"
      BY <1>5, <2>2
    <3> QED
      BY <1>2, <1>5, <1>6, <1>7, <1>8, <2>2, <3>1 DEF ActiveOK, Asked, engineVars
  <2> QED
    BY <2>1, <2>2
<1>10. \A u \in 1..Len(turns) : IsActive(u)' => IsActive(u)
  BY <1>2 DEF IsActive
<1> QED
  BY <1>2, <1>5, <1>9, <1>10, MemoryRunner DEF engineVars

LEMMA LastEntry ==
  ASSUME NEW h \in Seq(EntryType), NEW e \in EntryType
  PROVE  HasFinished(Append(h, e)) <=> e.what = "answer"
<1>1. Len(Append(h, e)) = Len(h) + 1 /\ Append(h, e)[Len(h) + 1] = e
  OBVIOUS
<1> QED
  BY <1>1 DEF HasFinished

\* The history a runner goes on from is one of histories.
LEMMA BaseHistory ==
  ASSUME PlainInv, MemoryInv, NEW t \in 1..Len(turns), runner[t].pc \in Asked \cup {"asked"}
  PROVE  /\ History(saved, runner[t].base) \in Seq(EntryType)
         /\ runner[t].base = NearestTo(messages, turns[t].follows)
         /\ turns[t].follows \in 1..Len(messages)
<1>1. /\ runner[t].base = NearestTo(messages, turns[t].follows)
      /\ turns[t].follows \in 1..Len(messages)
  BY RunnerFacts DEF RunnerOK, TurnOK, IsQuestion
<1>2. /\ GoodMessages(messages) /\ SavedType(saved) /\ KeptIn(messages, saved)
  BY DEF PlainInv, TypesInv, MemoryInv
<1>3. messages[turns[t].follows].parent \in 0..Len(messages)
  BY <1>1, <1>2, GoodParents
<1>4. History(saved, NearestIn(messages, messages[turns[t].follows].parent)) \in Seq(EntryType)
  BY <1>2, <1>3, NearestHeld
<1> QED
  BY <1>1, <1>4 DEF NearestTo

LEMMA MemoryTells ==
  ASSUME PlainInv, MemoryInv, NEW t \in 1..Len(turns),
         Tells(t, "round", "saving") \/ Tells(t, "answer", "answering")
  PROVE  MemoryInv'
<1>1. PICK what \in {"round", "answer"}, pc \in {"saving", "answering"} :
        Tells(t, what, pc) /\ (pc = "answering" => what = "answer")
  OBVIOUS
<1> DEFINE h == runner[t].history
           e == Entry(what, AskedLast(h), {})
           longer == Append(h, e)
<1>2. /\ runner[t].pc = "streaming" /\ IsActive(t)
      /\ runner' = [runner EXCEPT ![t].pc = pc,
                      ![t].history = Append(@, Entry(what, AskedLast(runner[t].history), {}))]
      /\ UNCHANGED <<engineVars, messages, turns>>
  BY <1>1 DEF Tells
<1>3. /\ t \in 1..MaxTurns /\ runner \in [1..MaxTurns -> RunnerType] /\ runner[t] \in RunnerType
  BY RunnerFacts
<1>4. h \in Seq(EntryType) /\ e \in EntryType /\ e.what = what
  BY <1>1, PlainTells DEF Entry
<1>5. /\ runner'[t].pc = pc /\ runner'[t].history = longer /\ runner'[t].own = runner[t].own
      /\ runner'[t].base = runner[t].base
      /\ \A u \in 1..MaxTurns : u # t => runner'[u] = runner[u]
  BY <1>2, <1>3 DEF RunnerType
<1>6. ActiveOK(t)
  BY <1>2 DEF MemoryInv
<1>7. Extends(longer, History(saved, runner[t].base))
  <2>1. /\ History(saved, runner[t].base) \in Seq(EntryType)
        /\ Extends(h, History(saved, runner[t].base))
    BY <1>2, <1>6, BaseHistory DEF ActiveOK, Asked
  <2> HIDE DEF h, e
  <2> QED
    BY <1>4, <2>1, ExtendsMore
<1>8. pc = "answering" => HasFinished(longer)
  <2> HIDE DEF h, e
  <2> QED
    BY <1>1, <1>4, LastEntry
<1> HIDE DEF longer
<1>9. ActiveOK(t)'
  <2>1. engine = "pydantic-ai" => Unkept(runner[t].own) /\ runner[t].own \in 1..Len(turns)
    BY <1>2, <1>6 DEF ActiveOK
  <2>3. Unkept(runner[t].own) => Unkept(runner[t].own)'
    BY <1>2, <1>5 DEF Unkept
  <2>2. pc \in {"saving", "answering"}
    OBVIOUS
  <2> QED
    BY <1>2, <1>5, <1>7, <1>8, <2>1, <2>2, <2>3 DEF ActiveOK, Asked, Unkept, engineVars
<1>10. \A u \in 1..Len(turns) : IsActive(u)' => IsActive(u)
  BY <1>2 DEF IsActive
<1> QED
  BY <1>2, <1>5, <1>9, <1>10, MemoryRunner DEF engineVars

LEMMA MemoryHand ==
  ASSUME PlainInv, MemoryInv, NEW t \in 1..Len(turns), Hand(t)
  PROVE  MemoryInv'
<1>1. /\ runner[t].pc = "answered" /\ latest \in DOMAIN saved
      /\ runner' = [runner EXCEPT ![t].pc = "done", ![t].own = latest]
      /\ UNCHANGED <<engineVars, messages, turns>>
  BY PlainHand DEF Hand
<1>2. /\ t \in 1..MaxTurns /\ runner \in [1..MaxTurns -> RunnerType] /\ runner[t] \in RunnerType
  BY RunnerFacts
<1>3. /\ runner'[t].pc = "done" /\ runner'[t].history = runner[t].history
      /\ runner'[t].own = latest /\ runner'[t].base = runner[t].base
      /\ \A u \in 1..MaxTurns : u # t => runner'[u] = runner[u]
  BY <1>1, <1>2 DEF RunnerType
<1>4. ASSUME IsActive(t)' PROVE ActiveOK(t)'
  <2>1. ActiveOK(t)
    BY <1>1, <1>4 DEF MemoryInv, IsActive
  <2>2. /\ Extends(runner[t].history, History(saved, runner[t].base))
        /\ HasFinished(runner[t].history) /\ saved[latest] = runner[t].history
    BY <1>1, <2>1 DEF ActiveOK, Asked
  <2> QED
    BY <1>1, <1>3, <2>2 DEF ActiveOK, Asked, engineVars
<1>5. \A u \in 1..Len(turns) : IsActive(u)' => IsActive(u)
  BY <1>1 DEF IsActive
<1> QED
  BY <1>1, <1>3, <1>4, <1>5, MemoryRunner DEF engineVars
\* A save of an active turn leaves what is kept, and what its runner went on from.
LEMMA SaveLeavesKept ==
  ASSUME PlainInv, MemoryInv, NEW own \in Nat, own # None, NEW h \in Seq(EntryType), HasAsked(h),
         Save(own, h), engine = "pydantic-ai" => Unkept(own), UNCHANGED messages
  PROVE  /\ SavesOn(messages, saved, saved') /\ Grows(messages, messages')
         /\ \A q \in 1..Len(messages) :
              History(saved', NearestTo(messages, q)) = History(saved, NearestTo(messages, q))
<1> DEFINE c == SavedUnder(own)
<1>1. /\ SavedType(saved') /\ DOMAIN saved' = DOMAIN saved \cup {c}
      /\ \A d \in DOMAIN saved : d # c => saved'[d] = saved[d]
      /\ engine = "langchain" => c \notin DOMAIN saved
      /\ engine = "pydantic-ai" => c = own
  BY SaveKeeps
<1>2. /\ SavedType(saved) /\ KeptIn(messages, saved) /\ engine \in Engines /\ TypesInv
  BY DEF PlainInv, TypesInv, MemoryInv
<1> HIDE DEF c
<1>3. ASSUME NEW a \in 1..Len(messages), messages[a].checkpoint # None
      PROVE  /\ messages[a].checkpoint \in DOMAIN saved'
             /\ saved'[messages[a].checkpoint] = saved[messages[a].checkpoint]
  <2>1. messages[a].checkpoint \in DOMAIN saved
    BY <1>2, <1>3 DEF KeptIn
  <2>2. messages[a].checkpoint # c
    <3>1. CASE engine = "langchain"
      BY <1>1, <2>1, <3>1
    <3>2. CASE engine = "pydantic-ai"
      BY <1>1, <3>2 DEF Unkept
    <3> QED
      BY <1>2, <3>1, <3>2 DEF Engines
  <2> QED
    BY <1>1, <2>1, <2>2
<1>4. SavesOn(messages, saved, saved')
  BY <1>1, <1>2, <1>3 DEF SavesOn
<1>5. Grows(messages, messages')
  BY <1>2, NothingMoves
<1>6. ASSUME NEW q \in 1..Len(messages)
      PROVE  History(saved', NearestTo(messages, q)) = History(saved, NearestTo(messages, q))
  <2>1. Grows(messages, messages)
    BY <1>5
  <2> QED
    BY <1>4, <2>1, HistoryStays
<1> QED
  BY <1>4, <1>5, <1>6

LEMMA MemorySave ==
  ASSUME PlainInv, MemoryInv, NEW t \in 1..Len(turns), IsActive(t),
         NEW own \in Nat, own # None, NEW h \in Seq(EntryType), HasAsked(h), Save(own, h),
         engine = "pydantic-ai" => Unkept(own) /\ own \in 1..Len(turns),
         UNCHANGED <<messages, turns>>, ActiveOK(t)'
  PROVE  MemoryInv'
<1>1. SavesOn(messages, saved, saved') /\ Grows(messages, messages')
  BY SaveLeavesKept
<1>2. /\ DOMAIN saved' = DOMAIN saved \cup {SavedUnder(own)} /\ UNCHANGED engine
      /\ engine = "pydantic-ai" => SavedUnder(own) = own
  BY SaveKeeps
<1>3. engine = "pydantic-ai" => DOMAIN saved' \subseteq 1..Len(turns')
  BY <1>2 DEF MemoryInv
<1>4. ASSUME NEW u \in 1..Len(turns'), IsActive(u)' PROVE ActiveOK(u)'
  <2>1. IsActive(u) /\ u \in 1..Len(turns)
    BY <1>4 DEF IsActive
  <2>2. u = t
    BY <2>1 DEF PlainInv, TurnsInv
  <2> QED
    BY <2>2
<1>5. (Len(messages) + 1)..Len(messages') = {}
  BY MessagesDomain DEF PlainInv
<1> QED
  BY <1>1, <1>2, <1>3, <1>4, <1>5, MemoryStep

LEMMA MemoryBegin ==
  ASSUME PlainInv, MemoryInv, NEW t \in 1..Len(turns), Begin(t), ~overlapped'
  PROVE  MemoryInv'
<1> DEFINE before == HistoryAt(runner[t].base)
           prompt == PromptAfterFailures(turns[t].follows, runner[t].quoted, turns[t].retries)
           fresh == Append(before, prompt)
<1>1. /\ runner[t].pc = "asked"
      /\ runner' = [runner EXCEPT ![t].pc = "streaming", ![t].history = fresh]
      /\ IF engine = "langchain" THEN Saves(t, fresh) ELSE UNCHANGED <<engineVars, overlapped>>
      /\ UNCHANGED <<messages, turns, call, pauses, mixed>>
  BY DEF Begin, Ready
<1>2. /\ before \in Seq(EntryType) /\ prompt \in EntryType /\ prompt.what = "asked"
      /\ before = History(saved, runner[t].base)
  BY PlainBegin DEF HistoryAt, History, PromptAfterFailures, Entry
<1>3. /\ t \in 1..MaxTurns /\ runner \in [1..MaxTurns -> RunnerType] /\ runner[t] \in RunnerType
      /\ RunnerOK(messages, turns, t, runner[t]) /\ engine \in Engines
  BY RunnerFacts
<1>4. /\ runner'[t].pc = "streaming" /\ runner'[t].history = fresh /\ runner'[t].own = runner[t].own
      /\ runner'[t].base = runner[t].base
      /\ \A u \in 1..MaxTurns : u # t => runner'[u] = runner[u]
  BY <1>1, <1>3 DEF RunnerType
<1> HIDE DEF before, prompt
<1>5. Extends(fresh, before)
  BY <1>2, ExtendsMore
<1>6. fresh \in Seq(EntryType) /\ HasAsked(fresh)
  <2>1. /\ fresh \in Seq(EntryType) /\ Len(before) + 1 \in DOMAIN fresh
        /\ fresh[Len(before) + 1] = prompt
    BY <1>2
  <2> QED
    BY <1>2, <2>1 DEF HasAsked
<1> HIDE DEF fresh
<1>7. CASE engine = "langchain"
  <2>1. Save(runner[t].own, fresh) /\ (overlapped' = (overlapped \/ ~IsActive(t)))
    BY <1>1, <1>7 DEF Saves
  <2>2. IsActive(t)
    BY <2>1
  <2>3. runner[t].own \in Nat /\ runner[t].own # None
    BY <1>1, <1>3 DEF RunnerOK, RunnerType
  <2>4. engine # "pydantic-ai" /\ engine' = engine
    BY <1>6, <1>7, <2>1, <2>3, SaveKeeps
  <2>5. History(saved', runner[t].base) = History(saved, runner[t].base)
    BY <1>1, <1>6, <2>1, <2>3, <2>4, BaseHistory, SaveLeavesKept
  <2>6. ActiveOK(t)'
    BY <1>2, <1>4, <1>5, <2>4, <2>5 DEF ActiveOK, Asked
  <2> QED
    BY <1>1, <1>6, <2>1, <2>2, <2>3, <2>4, <2>6, MemorySave
<1>8. CASE engine = "pydantic-ai"
  <2>1. UNCHANGED <<engineVars, overlapped>>
    BY <1>1, <1>8
  <2>2. ASSUME IsActive(t)' PROVE ActiveOK(t)'
    <3>1. t \notin DOMAIN saved /\ runner[t].own = t
      BY <1>1, <1>8, <2>2 DEF MemoryInv, ActiveOK, IsActive
    <3>2. Unkept(t)
      BY <1>3, <3>1 DEF MemoryInv, KeptIn, Unkept, None
    <3>3. Unkept(runner[t].own)'
      BY <1>1, <1>4, <3>1, <3>2 DEF Unkept
    <3>4. runner'[t].own \in 1..Len(turns')
      BY <1>1, <1>4, <3>1
    <3> QED
      BY <1>2, <1>4, <1>5, <2>1, <3>3, <3>4 DEF ActiveOK, Asked, engineVars
  <2>3. \A u \in 1..Len(turns) : IsActive(u)' => IsActive(u)
    BY <1>1 DEF IsActive
  <2> QED
    BY <1>1, <1>4, <2>1, <2>2, <2>3, MemoryRunner DEF engineVars
<1> QED
  BY <1>3, <1>7, <1>8 DEF Engines

LEMMA MemorySaveRound ==
  ASSUME PlainInv, MemoryInv, NEW t \in 1..Len(turns), SaveRound(t) \/ SaveAnswer(t), ~overlapped'
  PROVE  MemoryInv'
<1> DEFINE h == runner[t].history
           own == runner[t].own
<1>1. PICK pc \in {"streaming", "answered", "done"} :
        /\ Saves(t, h) /\ Becomes(t, pc) /\ UNCHANGED <<messages, turns, call, pauses, mixed>>
        /\ \/ pc = "streaming" /\ runner[t].pc = "saving"
           \/ /\ pc = (IF engine = "langchain" THEN "answered" ELSE "done")
              /\ runner[t].pc = "answering"
  BY DEF SaveRound, SaveAnswer
<1>2. /\ Save(own, h) /\ HasAsked(h) /\ own \in Nat /\ own # None /\ h \in Seq(EntryType)
  BY <1>1, PlainSave
<1>3. IsActive(t)
  BY <1>1 DEF Saves
<1>4. /\ t \in 1..MaxTurns /\ runner \in [1..MaxTurns -> RunnerType] /\ runner[t] \in RunnerType
      /\ engine \in Engines
  BY RunnerFacts
<1>5. /\ runner'[t].pc = pc /\ runner'[t].history = h /\ runner'[t].own = own
      /\ runner'[t].base = runner[t].base
  BY <1>1, <1>4 DEF Becomes, RunnerType
<1>6. ActiveOK(t)
  BY <1>3 DEF MemoryInv
<1>7. /\ engine = "pydantic-ai" => Unkept(own) /\ own \in 1..Len(turns)
      /\ Extends(h, History(saved, runner[t].base))
      /\ runner[t].pc = "answering" => HasFinished(h)
  BY <1>1, <1>6 DEF ActiveOK, Asked
<1>8. History(saved', runner[t].base) = History(saved, runner[t].base)
  BY <1>1, <1>2, <1>7, BaseHistory, SaveLeavesKept DEF Asked
<1>9. /\ latest' = SavedUnder(own) /\ saved'[SavedUnder(own)] = h
      /\ DOMAIN saved' = DOMAIN saved \cup {SavedUnder(own)} /\ UNCHANGED engine
      /\ engine = "pydantic-ai" => SavedUnder(own) = own
  BY <1>2, SaveKeeps
<1>10. engine = "pydantic-ai" => Unkept(runner[t].own)' /\ runner'[t].own \in 1..Len(turns')
  BY <1>1, <1>5, <1>7 DEF Unkept
<1> HIDE DEF h, own
<1>11. ActiveOK(t)'
  <2>1. CASE pc = "streaming"
    BY <1>5, <1>7, <1>8, <1>9, <1>10, <2>1 DEF ActiveOK, Asked
  <2>2. CASE pc = "answered"
    BY <1>1, <1>5, <1>7, <1>8, <1>9, <2>2 DEF ActiveOK, Asked
  <2>3. CASE pc = "done"
    <3>1. engine = "pydantic-ai" /\ runner[t].pc = "answering"
      BY <1>1, <1>4, <2>3 DEF Engines
    <3> QED
      BY <1>5, <1>7, <1>8, <1>9, <2>3, <3>1 DEF ActiveOK, Asked
  <2> QED
    BY <2>1, <2>2, <2>3
<1> QED
  BY <1>1, <1>2, <1>3, <1>7, <1>11, MemorySave-----------------------------------------------------------------------------
(* The steps, one by one: what the histories tell                          *)

\* What a step must show of the histories it adds.
LEMMA ShapesStep ==
  ASSUME PlainInv, ShapesInv, Grows(messages, messages'), SavesOn(messages, saved, saved'),
         \A a \in (Len(messages) + 1)..Len(messages') : messages'[a].checkpoint # None =>
           Shaped(messages', saved', saved'[messages'[a].checkpoint], messages'[a].parent),
         \A c \in DOMAIN saved' :
           \/ c \in DOMAIN saved /\ saved'[c] = saved[c]
           \/ \E q \in 1..Len(messages') : Shaped(messages', saved', saved'[c], q),
         \A u \in 1..Len(turns') : IsActive(u)' => ActiveShaped(u)'
  PROVE  ShapesInv'
<1>1. AnswersShaped(messages', saved')
  BY AnswersShapedStay DEF ShapesInv
<1>2. ASSUME NEW c \in DOMAIN saved'
      PROVE  \E q \in 1..Len(messages') : Shaped(messages', saved', saved'[c], q)
  <2>1. CASE c \in DOMAIN saved /\ saved'[c] = saved[c]
    <3>1. PICK q \in 1..Len(messages) : Shaped(messages, saved, saved[c], q)
      BY <2>1 DEF ShapesInv
    <3>2. q \in 1..Len(messages')
      BY PlacesStay
    <3> QED
      BY <2>1, <3>1, <3>2, ShapedStays
  <2> QED
    BY <2>1
<1> QED
  BY <1>1, <1>2 DEF ShapesInv

\* Nothing is active after the step, and nothing is saved.
LEMMA ShapesWithoutActive ==
  ASSUME PlainInv, MemoryInv, ShapesInv, Grows(messages, messages'), UNCHANGED saved,
         \A a \in (Len(messages) + 1)..Len(messages') : messages'[a].checkpoint # None =>
           Shaped(messages', saved', saved'[messages'[a].checkpoint], messages'[a].parent),
         \A u \in 1..Len(turns') : ~IsActive(u)'
  PROVE  ShapesInv'
<1>1. SavesOn(messages, saved, saved')
  BY SavesNothing
<1> QED
  BY <1>1, ShapesStep

\* The runner of one turn alone takes a step, and saves nothing.
LEMMA ShapesRunner ==
  ASSUME PlainInv, MemoryInv, ShapesInv, NEW t, UNCHANGED <<saved, messages>>,
         Len(turns') = Len(turns),
         \A u \in 1..Len(turns) : turns'[u].follows = turns[u].follows,
         \A u \in 1..MaxTurns : u # t => runner'[u] = runner[u],
         \A u \in 1..Len(turns) : IsActive(u)' => IsActive(u),
         t \in 1..Len(turns) /\ IsActive(t)' => ActiveShaped(t)'
  PROVE  ShapesInv'
<1>1. /\ TypesInv /\ Len(turns) \in Nat /\ Len(messages) \in Nat
      /\ \A u \in 1..Len(turns) : u \in 1..MaxTurns
  BY MessagesDomain DEF PlainInv
<1>2. Grows(messages, messages') /\ (Len(messages) + 1)..Len(messages') = {}
  BY <1>1, NothingMoves
<1>3. SavesOn(messages, saved, saved')
  BY SavesNothing
<1>4. ASSUME NEW u \in 1..Len(turns'), IsActive(u)' PROVE ActiveShaped(u)'
  <2>1. CASE u = t
    BY <1>4, <2>1
  <2>2. CASE u # t
    <3>1. runner'[u] = runner[u] /\ ActiveShaped(u) /\ turns'[u].follows = turns[u].follows
      BY <1>1, <1>4, <2>2 DEF ShapesInv
    <3> QED
      BY <3>1 DEF ActiveShaped
  <2> QED
    BY <2>1, <2>2
<1> QED
  BY <1>2, <1>3, <1>4, ShapesStep

LEMMA ShapesCalls ==
  ASSUME PlainInv, MemoryInv, ShapesInv, UNCHANGED <<engineVars, messages, turns, runner>>
  PROVE  ShapesInv'
<1>1. \A u \in 1..Len(turns) : IsActive(u)' => IsActive(u)
  BY DEF IsActive
<1>2. 0 \notin 1..Len(turns)
  BY MessagesDomain DEF PlainInv
<1> QED
  BY <1>1, <1>2, ShapesRunner DEF engineVars

LEMMA ShapesQueue ==
  ASSUME PlainInv, MemoryInv, ShapesInv, NEW c \in Clients, QueueTurn(c)
  PROVE  ShapesInv'
<1>1. /\ PlainInv' /\ Grows(messages, messages') /\ Len(turns') = Len(turns) + 1
      /\ \A t \in 1..Len(turns) : turns'[t] = turns[t] /\ ~IsActive(t)
      /\ \A m \in (Len(messages) + 1)..Len(messages') : messages'[m].checkpoint = None
      /\ runner[Len(turns) + 1].pc = "none"
      /\ UNCHANGED <<engineVars, runner, historyVars>>
  BY PlainQueue
<1>2. Len(turns) \in Nat
  BY MessagesDomain DEF PlainInv
<1>3. SavesOn(messages, saved, saved') /\ UNCHANGED saved
  BY <1>1, SavesNothing DEF engineVars
<1>4. ASSUME NEW u \in 1..Len(turns'), IsActive(u)' PROVE ActiveShaped(u)'
  <2>1. u = Len(turns) + 1
    BY <1>1, <1>2, <1>4 DEF IsActive
  <2>2. runner'[u].pc \notin Asked
    BY <1>1, <2>1 DEF Asked
  <2> QED
    BY <2>2 DEF ActiveShaped
<1> QED
  BY <1>1, <1>3, <1>4, ShapesStep

LEMMA ShapesCancel ==
  ASSUME PlainInv, MemoryInv, ShapesInv, NEW t \in 1..Len(turns), Cancel(t)
  PROVE  ShapesInv'
<1>1. /\ UNCHANGED <<engineVars, messages, overlapped, mixed>> /\ Len(turns') = Len(turns)
      /\ \A u \in 1..Len(turns') : ~IsActive(u)'
  BY PlainCancel, EndsTurns DEF Cancel
<1>2. Len(turns) \in Nat /\ Len(messages) \in Nat /\ TypesInv
  BY MessagesDomain DEF PlainInv
<1>3. Grows(messages, messages') /\ (Len(messages) + 1)..Len(messages') = {}
  BY <1>1, <1>2, NothingMoves
<1> QED
  BY <1>1, <1>2, <1>3, ShapesWithoutActive DEF engineVars

LEMMA ShapesLapse ==
  ASSUME PlainInv, MemoryInv, ShapesInv, NEW t \in 1..Len(turns), Lapse(t)
  PROVE  ShapesInv'
<1>1. /\ UNCHANGED <<engineVars, runner, overlapped, mixed>>
      /\ Grows(messages, messages') /\ Len(turns') = Len(turns)
      /\ \A m \in (Len(messages) + 1)..Len(messages') : messages'[m].checkpoint = None
      /\ \A u \in 1..Len(turns') : ~IsActive(u)'
  BY PlainLapse, EndsTurns DEF Lapse
<1> QED
  BY <1>1, ShapesWithoutActive DEF engineVars

\* A runner that has asked nothing, or that goes.
LEMMA ShapesUnasked ==
  ASSUME PlainInv, MemoryInv, ShapesInv, NEW t \in 1..Len(turns), UNCHANGED <<saved, messages>>,
         Len(turns') = Len(turns),
         \A u \in 1..Len(turns) : turns'[u].follows = turns[u].follows,
         \A u \in 1..Len(turns) : IsActive(u)' => IsActive(u),
         NEW r, runner' = [runner EXCEPT ![t] = r], r.pc \notin Asked
  PROVE  ShapesInv'
<1>1. runner'[t] = r /\ \A u \in 1..MaxTurns : u # t => runner'[u] = runner[u]
  BY OtherRunners
<1>2. ActiveShaped(t)'
  BY <1>1 DEF ActiveShaped
<1> QED
  BY <1>1, <1>2, ShapesRunner

LEMMA ShapesGone ==
  ASSUME PlainInv, MemoryInv, ShapesInv, NEW t \in 1..Len(turns), Gone(t),
         UNCHANGED <<engineVars, messages, turns>>
  PROVE  ShapesInv'
<1>1. PICK r \in RunnerType : runner' = [runner EXCEPT ![t] = r] /\ r.pc = "gone"
  BY GoneRunner
<1>2. r.pc \notin Asked
  BY <1>1 DEF Asked
<1>3. \A u \in 1..Len(turns) : IsActive(u)' => IsActive(u)
  BY DEF IsActive
<1> QED
  BY <1>1, <1>2, <1>3, ShapesUnasked DEF engineVars

LEMMA ShapesClaim ==
  ASSUME PlainInv, MemoryInv, ShapesInv, NEW t \in 1..Len(turns), Claim(t)
  PROVE  ShapesInv'
<1> DEFINE r == [runner[t] EXCEPT !.pc = "claimed"]
<1>1. /\ runner' = [runner EXCEPT ![t] = r] /\ UNCHANGED <<engineVars, messages>>
      /\ turns' = [turns EXCEPT ![t].state = "running"] /\ turns[t].state = "queued"
  BY DEF Claim, Becomes
<1>2. /\ Len(turns') = Len(turns) /\ \A u \in 1..Len(turns) : u # t => turns'[u] = turns[u]
      /\ IsActive(t)
  BY PlainClaim
<1>3. runner[t] \in RunnerType /\ turns \in Seq(TurnType) /\ turns[t] \in TurnType
  BY RunnerFacts DEF TypesInv
<1>4. r.pc \notin Asked
  BY <1>3 DEF RunnerType, Asked
<1> HIDE DEF r
<1>5. turns'[t].follows = turns[t].follows
  BY <1>1, <1>3 DEF TurnType
<1>6. \A u \in 1..Len(turns) : turns'[u].follows = turns[u].follows
  BY <1>2, <1>5
<1>7. \A u \in 1..Len(turns) : IsActive(u)' => IsActive(u)
  BY <1>2 DEF IsActive
<1> QED
  BY <1>1, <1>2, <1>4, <1>6, <1>7, ShapesUnasked DEF engineVars

LEMMA ShapesCreate ==
  ASSUME PlainInv, MemoryInv, ShapesInv, NEW t \in 1..Len(turns), Create(t)
  PROVE  ShapesInv'
<1> DEFINE r == [runner[t] EXCEPT !.pc = "created"]
<1>1. runner' = [runner EXCEPT ![t] = r] /\ UNCHANGED <<saved, messages, turns>>
  BY DEF Create, Becomes, CreateSession
<1>2. runner[t] \in RunnerType
  BY RunnerFacts
<1>3. r.pc \notin Asked
  BY <1>2 DEF RunnerType, Asked
<1> HIDE DEF r
<1>4. \A u \in 1..Len(turns) : IsActive(u)' => IsActive(u)
  BY <1>1 DEF IsActive
<1> QED
  BY <1>1, <1>3, <1>4, ShapesUnasked

LEMMA ShapesAsk ==
  ASSUME PlainInv, MemoryInv, ShapesInv, NEW t \in 1..Len(turns), StartMessage(t)
  PROVE  ShapesInv'
<1>1. UNCHANGED <<engineVars, messages, turns>>
  BY DEF StartMessage
<1>2. CASE ~IsActive(t)
  BY <1>1, <1>2, ShapesGone DEF StartMessage
<1>3. CASE IsActive(t)
  <2> DEFINE r == [NoRunner EXCEPT !.pc = "asked", !.own = t,
                     !.base = NearestCheckpoint(turns[t].follows), !.quoted = Earlier(turns[t].follows)]
  <2>1. runner' = [runner EXCEPT ![t] = r] /\ r.pc \notin Asked
    BY <1>3 DEF StartMessage, NoRunner, Asked
  <2> HIDE DEF r
  <2>2. \A u \in 1..Len(turns) : IsActive(u)' => IsActive(u)
    BY <1>1 DEF IsActive
  <2> QED
    BY <1>1, <2>1, <2>2, ShapesUnasked DEF engineVars
<1> QED
  BY <1>2, <1>3
LEMMA ShapesFail ==
  ASSUME PlainInv, MemoryInv, ShapesInv, NEW t \in 1..Len(turns), Fail(t)
  PROVE  ShapesInv'
<1>1. CASE IsActive(t)
  <2>1. Ends(t, <<Answer(t, TRUE, None)>>) /\ UNCHANGED engineVars
    BY <1>1 DEF Fail
  <2>2. /\ messages' = messages \o <<Answer(t, TRUE, None)>> /\ None \in Nat
        /\ TRUE <=> None = None
    BY <2>1 DEF Ends, None
  <2>3. /\ Grows(messages, messages')
        /\ \A m \in (Len(messages) + 1)..Len(messages') : messages'[m].checkpoint = None
    BY <2>2, EndsAnswer
  <2>4. /\ Len(turns') = Len(turns) /\ Len(turns) \in Nat
        /\ \A u \in 1..Len(turns') : IsActive(u)' => IsActive(u) /\ u # t
    BY <2>1, EndsTurns, MessagesDomain DEF PlainInv
  <2>5. \A u \in 1..Len(turns') : ~IsActive(u)'
    BY <1>1, <2>4 DEF PlainInv, TurnsInv
  <2> QED
    BY <2>1, <2>3, <2>5, ShapesWithoutActive DEF engineVars
<1>2. CASE ~IsActive(t)
  BY <1>2, ShapesGone DEF Fail
<1> QED
  BY <1>1, <1>2

\* The answer's history is its runner's.
LEMMA ShapesFinish ==
  ASSUME PlainInv, MemoryInv, ShapesInv, NEW t \in 1..Len(turns), Finish(t)
  PROVE  ShapesInv'
<1>1. CASE IsActive(t)
  <2> DEFINE c == runner[t].own
             q == turns[t].follows
  <2>1. /\ runner[t].pc = "done" /\ UNCHANGED saved
        /\ Grows(messages, messages') /\ IsQuestion(messages, q)
        /\ \A m \in (Len(messages) + 1)..Len(messages') :
             messages'[m].checkpoint = c /\ messages'[m].parent = q
        /\ \A u \in 1..Len(turns') : ~IsActive(u)'
    BY <1>1, FinishAnswers
  <2>6. saved[c] = runner[t].history /\ Shaped(messages, saved, runner[t].history, q)
    BY <1>1, <2>1 DEF MemoryInv, ActiveOK, ShapesInv, ActiveShaped, Asked
  <2>8. SavesOn(messages, saved, saved')
    BY <2>1, SavesNothing
  <2>9. Shaped(messages', saved', saved'[c], q)
    <3> HIDE DEF c, q
    <3> QED
      BY <2>1, <2>6, <2>8, ShapedStays DEF IsQuestion
  <2> HIDE DEF c, q
  <2> QED
    BY <2>1, <2>9, ShapesWithoutActive
<1>2. CASE ~IsActive(t)
  BY <1>2, ShapesGone DEF Finish
<1> QED
  BY <1>1, <1>2

-----------------------------------------------------------------------------
(* How a history of the shape comes about                                  *)

LEMMA QuestionHistory ==
  ASSUME PlainInv, MemoryInv, NEW q \in 1..Len(messages)
  PROVE  History(saved, NearestTo(messages, q)) \in Seq(EntryType)
<1>1. /\ GoodMessages(messages) /\ SavedType(saved) /\ KeptIn(messages, saved)
  BY DEF PlainInv, TypesInv, MemoryInv
<1>2. messages[q].parent \in 0..Len(messages)
  BY <1>1, GoodParents
<1> QED
  BY <1>1, <1>2, NearestHeld DEF NearestTo

\* With the prompt: the note, and the failed answer that is retried.
LEMMA ShapedAtFirst ==
  ASSUME NEW ms, NEW sv, NEW q, History(sv, NearestTo(ms, q)) \in Seq(EntryType),
         NEW e \in EntryType, e.what = "asked", e.question = q, EarlierTo(ms, q) \subseteq e.told,
         \A m \in e.told \ EarlierTo(ms, q) : IsFailure(ms, m, q)
  PROVE  Shaped(ms, sv, Append(History(sv, NearestTo(ms, q)), e), q)
<1> DEFINE before == History(sv, NearestTo(ms, q))
           h == Append(before, e)
<1> HIDE DEF before
<1>1. before \in Seq(EntryType)
  BY DEF before
<1>2. Extends(h, before)
  BY <1>1, ExtendsMore
<1>3. h[Len(before) + 1] = e /\ (Len(before) + 2)..Len(h) = {}
  BY <1>1
<1> HIDE DEF h
<1>4. Shaped(ms, sv, h, q)
  BY <1>2, <1>3 DEF Shaped, before
<1> QED
  BY <1>4 DEF h, before

\* With a round, or the answer.
LEMMA ShapedFurther ==
  ASSUME NEW ms, NEW sv, NEW q, History(sv, NearestTo(ms, q)) \in Seq(EntryType),
         NEW h \in Seq(EntryType), Shaped(ms, sv, h, q), ~HasFinished(h),
         NEW e \in EntryType, e.what # "asked", e.question = q, e.told = {}
  PROVE  Shaped(ms, sv, Append(h, e), q)
<1> DEFINE before == History(sv, NearestTo(ms, q))
           n == Len(before)
           longer == Append(h, e)
<1> HIDE DEF before
<1>1. before \in Seq(EntryType) /\ n \in Nat
  BY DEF before
<1>2. Extends(longer, before) /\ Extends(h, before)
  BY <1>1, ExtendsMore DEF Shaped, before
<1>3. /\ Len(h) \in Nat /\ Len(longer) = Len(h) + 1 /\ longer[Len(h) + 1] = e
      /\ \A i \in 1..Len(h) : longer[i] = h[i]
  OBVIOUS
<1>4. Len(h) > n
  BY <1>1, <1>2, ExtendsPlaces
<1> HIDE DEF longer
<1>5. /\ h[n + 1].what = "asked" /\ h[n + 1].question = q
      /\ EarlierTo(ms, q) \subseteq h[n + 1].told
      /\ \A m \in h[n + 1].told \ EarlierTo(ms, q) : IsFailure(ms, m, q)
      /\ \A i \in (n + 2)..Len(h) :
           /\ h[i].what # "asked" /\ h[i].question = q /\ h[i].told = {}
           /\ h[i].what = "answer" => i = Len(h)
  BY DEF Shaped, before
<1> HIDE DEF n
<1>6. longer[n + 1] = h[n + 1]
  BY <1>1, <1>3, <1>4
<1>7. ASSUME NEW i \in (n + 2)..Len(longer)
      PROVE  /\ longer[i].what # "asked" /\ longer[i].question = q /\ longer[i].told = {}
             /\ longer[i].what = "answer" => i = Len(longer)
  <2>1. CASE i = Len(h) + 1
    BY <1>3, <2>1
  <2>2. CASE i # Len(h) + 1
    <3>1. i \in (n + 2)..Len(h) /\ i \in 1..Len(h)
      BY <1>1, <1>3, <2>2
    <3>3. longer[i] = h[i]
      BY <1>3, <3>1
    <3>2. h[i].what # "answer"
      BY <1>5, <3>1 DEF HasFinished
    <3> QED
      BY <1>5, <3>1, <3>2, <3>3
  <2> QED
    BY <2>1, <2>2
<1>8. Shaped(ms, sv, longer, q)
  BY <1>2, <1>5, <1>6, <1>7 DEF Shaped, before, n
<1> QED
  BY <1>8 DEF longer

\* The question asked last in it is its question.
LEMMA ShapedAsks ==
  ASSUME NEW ms, NEW sv, NEW q, History(sv, NearestTo(ms, q)) \in Seq(EntryType),
         NEW h \in Seq(EntryType), HasAsked(h), Shaped(ms, sv, h, q)
  PROVE  AskedLast(h) = q
<1> DEFINE n == Len(History(sv, NearestTo(ms, q)))
<1>1. PICK i \in DOMAIN h : /\ h[i].what = "asked" /\ AskedLast(h) = h[i].question
                            /\ \A j \in DOMAIN h : h[j].what = "asked" => j <= i
  BY LastAsked
<1>2. /\ h[n + 1].what = "asked" /\ h[n + 1].question = q
      /\ \A j \in (n + 2)..Len(h) : h[j].what # "asked"
      /\ Extends(h, History(sv, NearestTo(ms, q)))
  BY DEF Shaped
<1>3. n \in Nat /\ Len(h) > n /\ DOMAIN h = 1..Len(h) /\ Len(h) \in Nat
  BY <1>2, ExtendsPlaces
<1> HIDE DEF n
<1>4. i \in 1..Len(h) /\ n + 1 <= i
  BY <1>1, <1>2, <1>3
<1>5. i = n + 1
  BY <1>1, <1>2, <1>3, <1>4
<1> QED
  BY <1>1, <1>2, <1>5

-----------------------------------------------------------------------------

\* Unless it mixes two questions, the turn that is gone on with is one of the same question.
LEMMA GoesOnUnmixed ==
  ASSUME NEW t, GoOn(t), ~mixed'
  PROVE  \E p \in Partial(t) :
           /\ runner' = [runner EXCEPT ![t].own = p, ![t].history = saved[p],
                           ![t].pc = IF HasFinished(saved[p]) THEN "done" ELSE "streaming"]
           /\ AskedLast(saved[p]) = turns[t].follows
           /\ UNCHANGED <<engineVars, messages, turns>>
BY ZenonT(30) DEF GoOn

LEMMA ShapesGoOn ==
  ASSUME PlainInv, MemoryInv, ShapesInv, NEW t \in 1..Len(turns), GoOn(t), ~mixed'
  PROVE  ShapesInv'
<1>1. PICK p \in Partial(t) :
        /\ runner' = [runner EXCEPT ![t].own = p, ![t].history = saved[p],
                        ![t].pc = IF HasFinished(saved[p]) THEN "done" ELSE "streaming"]
        /\ AskedLast(saved[p]) = turns[t].follows
        /\ UNCHANGED <<engineVars, messages, turns>>
  BY GoesOnUnmixed
<1>2. UNCHANGED <<engineVars, messages, turns>>
  BY <1>1
<1>3. /\ t \in 1..MaxTurns /\ runner \in [1..MaxTurns -> RunnerType] /\ runner[t] \in RunnerType
      /\ SavedType(saved)
  BY RunnerFacts
<1>4. p \in DOMAIN saved
  BY DEF Partial, PartialTurn, PlainInv, EngineInv
<1>5. /\ runner'[t].pc = (IF HasFinished(saved[p]) THEN "done" ELSE "streaming")
      /\ runner'[t].history = saved[p]
      /\ \A u \in 1..MaxTurns : u # t => runner'[u] = runner[u]
  BY <1>1, <1>3 DEF RunnerType
<1>6. PICK q \in 1..Len(messages) : Shaped(messages, saved, saved[p], q)
  BY <1>4 DEF ShapesInv
<1>7. AskedLast(saved[p]) = q
  <2>1. saved[p] \in Seq(EntryType) /\ HasAsked(saved[p])
    BY <1>3, <1>4 DEF SavedType, PlainInv, EngineInv
  <2> QED
    BY <1>6, <2>1, QuestionHistory, ShapedAsks
<1>8. q = turns[t].follows
  BY <1>1, <1>7
<1>9. ActiveShaped(t)'
  BY <1>2, <1>5, <1>6, <1>8 DEF ActiveShaped, engineVars
<1>10. \A u \in 1..Len(turns) : IsActive(u)' => IsActive(u)
  BY <1>2 DEF IsActive
<1> QED
  BY <1>2, <1>5, <1>9, <1>10, ShapesRunner DEF engineVars

LEMMA ShapesTells ==
  ASSUME PlainInv, MemoryInv, ShapesInv, NEW t \in 1..Len(turns),
         Tells(t, "round", "saving") \/ Tells(t, "answer", "answering")
  PROVE  ShapesInv'
<1>1. PICK what \in {"round", "answer"}, pc \in {"saving", "answering"} :
        Tells(t, what, pc) /\ (pc = "saving" => what = "round")
  OBVIOUS
<1> DEFINE h == runner[t].history
           q == turns[t].follows
           e == Entry(what, AskedLast(h), {})
           longer == Append(h, e)
<1>2. /\ runner[t].pc = "streaming" /\ IsActive(t)
      /\ runner' = [runner EXCEPT ![t].pc = pc,
                      ![t].history = Append(@, Entry(what, AskedLast(runner[t].history), {}))]
      /\ UNCHANGED <<engineVars, messages, turns>>
  BY <1>1 DEF Tells
<1>3. /\ t \in 1..MaxTurns /\ runner \in [1..MaxTurns -> RunnerType] /\ runner[t] \in RunnerType
  BY RunnerFacts
<1>4. h \in Seq(EntryType) /\ e \in EntryType /\ HasAsked(h)
  BY <1>1, PlainTells
<1>5. e.what = what /\ e.question = AskedLast(h) /\ e.told = {}
  BY DEF Entry
<1>6. /\ runner'[t].pc = pc /\ runner'[t].history = longer
      /\ \A u \in 1..MaxTurns : u # t => runner'[u] = runner[u]
  BY <1>2, <1>3 DEF RunnerType
<1>7. Shaped(messages, saved, h, q) /\ ~HasFinished(h)
  BY <1>2 DEF ShapesInv, ActiveShaped, Asked
<1>8. History(saved, NearestTo(messages, q)) \in Seq(EntryType)
  BY <1>2, BaseHistory DEF Asked
<1> HIDE DEF h, q, e
<1>9. AskedLast(h) = q
  BY <1>4, <1>7, <1>8, ShapedAsks
<1>10. Shaped(messages, saved, longer, q)
  BY <1>4, <1>5, <1>7, <1>8, <1>9, ShapedFurther
<1>11. pc = "saving" => ~HasFinished(longer)
  BY <1>1, <1>4, <1>5, LastEntry
<1> HIDE DEF longer
<1>12. ActiveShaped(t)'
  BY <1>2, <1>6, <1>10, <1>11 DEF ActiveShaped, engineVars, q
<1>13. \A u \in 1..Len(turns) : IsActive(u)' => IsActive(u)
  BY <1>2 DEF IsActive
<1> QED
  BY <1>2, <1>6, <1>12, <1>13, ShapesRunner DEF engineVars

LEMMA ShapesHand ==
  ASSUME PlainInv, MemoryInv, ShapesInv, NEW t \in 1..Len(turns), Hand(t)
  PROVE  ShapesInv'
<1>1. /\ runner[t].pc = "answered"
      /\ runner' = [runner EXCEPT ![t].pc = "done", ![t].own = latest]
      /\ UNCHANGED <<engineVars, messages, turns>>
  BY DEF Hand
<1>2. /\ t \in 1..MaxTurns /\ runner \in [1..MaxTurns -> RunnerType] /\ runner[t] \in RunnerType
  BY RunnerFacts
<1>3. /\ runner'[t].pc = "done" /\ runner'[t].history = runner[t].history
      /\ \A u \in 1..MaxTurns : u # t => runner'[u] = runner[u]
  BY <1>1, <1>2 DEF RunnerType
<1>4. ASSUME IsActive(t)' PROVE ActiveShaped(t)'
  <2>1. ActiveShaped(t)
    BY <1>1, <1>4 DEF ShapesInv, IsActive
  <2>2. Shaped(messages, saved, runner[t].history, turns[t].follows)
    BY <1>1, <2>1 DEF ActiveShaped, Asked
  <2> QED
    BY <1>1, <1>3, <2>2 DEF ActiveShaped, engineVars
<1>5. \A u \in 1..Len(turns) : IsActive(u)' => IsActive(u)
  BY <1>1 DEF IsActive
<1> QED
  BY <1>1, <1>3, <1>4, <1>5, ShapesRunner DEF engineVars

LEMMA ShapesSave ==
  ASSUME PlainInv, MemoryInv, ShapesInv, NEW t \in 1..Len(turns), IsActive(t),
         NEW own \in Nat, own # None, NEW h \in Seq(EntryType), HasAsked(h), Save(own, h),
         engine = "pydantic-ai" => Unkept(own), UNCHANGED <<messages, turns>>,
         Shaped(messages, saved, h, turns[t].follows), runner'[t].history = h,
         runner'[t].pc = "streaming" => ~HasFinished(h), runner'[t].pc # "saving"
  PROVE  ShapesInv'
<1>1. SavesOn(messages, saved, saved') /\ Grows(messages, messages')
  BY SaveLeavesKept
<1>2. /\ DOMAIN saved' = DOMAIN saved \cup {SavedUnder(own)} /\ saved'[SavedUnder(own)] = h
      /\ \A d \in DOMAIN saved : d # SavedUnder(own) => saved'[d] = saved[d]
  BY SaveKeeps
<1>3. turns[t].follows \in 1..Len(messages)
  BY RunnerFacts DEF TurnOK, IsQuestion
<1>4. Shaped(messages', saved', h, turns[t].follows)
  BY <1>1, <1>3, ShapedStays
<1>5. ASSUME NEW u \in 1..Len(turns'), IsActive(u)' PROVE ActiveShaped(u)'
  <2>1. IsActive(u) /\ u \in 1..Len(turns)
    BY <1>5 DEF IsActive
  <2>2. u = t
    BY <2>1 DEF PlainInv, TurnsInv
  <2>3. ActiveShaped(t)'
    BY <1>4 DEF ActiveShaped
  <2> QED
    BY <2>2, <2>3
<1>6. (Len(messages) + 1)..Len(messages') = {}
  BY MessagesDomain DEF PlainInv
<1>7. \A c \in DOMAIN saved' :
        \/ c \in DOMAIN saved /\ saved'[c] = saved[c]
        \/ \E q \in 1..Len(messages') : Shaped(messages', saved', saved'[c], q)
  BY <1>2, <1>3, <1>4
<1> QED
  BY <1>1, <1>5, <1>6, <1>7, ShapesStep

LEMMA ShapesBegin ==
  ASSUME PlainInv, MemoryInv, ShapesInv, NEW t \in 1..Len(turns), Begin(t), ~overlapped'
  PROVE  ShapesInv'
<1> DEFINE q == turns[t].follows
           before == HistoryAt(runner[t].base)
           prompt == PromptAfterFailures(q, runner[t].quoted, turns[t].retries)
           fresh == Append(before, prompt)
<1>1. /\ runner[t].pc = "asked"
      /\ runner' = [runner EXCEPT ![t].pc = "streaming", ![t].history = fresh]
      /\ IF engine = "langchain" THEN Saves(t, fresh) ELSE UNCHANGED <<engineVars, overlapped>>
      /\ UNCHANGED <<messages, turns, call, pauses, mixed>>
  BY DEF Begin, Ready
<1>2. before \in Seq(EntryType) /\ prompt \in EntryType
  BY PlainBegin
<1>3. /\ prompt.what = "asked" /\ prompt.question = q
      /\ prompt.told = runner[t].quoted \cup ({turns[t].retries} \ {None})
  BY DEF PromptAfterFailures, Entry
<1>4. /\ t \in 1..MaxTurns /\ runner \in [1..MaxTurns -> RunnerType] /\ runner[t] \in RunnerType
      /\ RunnerOK(messages, turns, t, runner[t]) /\ TurnOK(messages, turns[t]) /\ engine \in Engines
  BY RunnerFacts
<1>5. /\ runner'[t].pc = "streaming" /\ runner'[t].history = fresh
      /\ \A u \in 1..MaxTurns : u # t => runner'[u] = runner[u]
  BY <1>1, <1>4 DEF RunnerType
<1>6. /\ runner[t].base = NearestTo(messages, q) /\ runner[t].quoted = EarlierTo(messages, q)
      /\ turns[t].retries # None => IsFailure(messages, turns[t].retries, q)
  BY <1>1, <1>4 DEF RunnerOK, TurnOK
<1>7. before = History(saved, NearestTo(messages, q))
  BY <1>6 DEF HistoryAt, History
<1> HIDE DEF before, prompt
<1>8. Shaped(messages, saved, fresh, q)
  <2>1. /\ EarlierTo(messages, q) \subseteq prompt.told
        /\ \A m \in prompt.told \ EarlierTo(messages, q) : IsFailure(messages, m, q)
    BY <1>3, <1>6
  <2> HIDE DEF q
  <2> QED
    BY <1>2, <1>3, <1>7, <2>1, ShapedAtFirst
<1>9. fresh \in Seq(EntryType) /\ HasAsked(fresh) /\ ~HasFinished(fresh)
  <2>1. /\ fresh \in Seq(EntryType) /\ Len(before) + 1 \in DOMAIN fresh
        /\ fresh[Len(before) + 1] = prompt
    BY <1>2
  <2>2. ~HasFinished(fresh)
    BY <1>2, <1>3, LastEntry
  <2> QED
    BY <1>3, <2>1, <2>2 DEF HasAsked
<1> HIDE DEF fresh
<1>10. CASE engine = "langchain"
  <2>1. Save(runner[t].own, fresh) /\ (overlapped' = (overlapped \/ ~IsActive(t)))
    BY <1>1, <1>10 DEF Saves
  <2>2. IsActive(t)
    BY <2>1
  <2>3. runner[t].own \in Nat /\ runner[t].own # None
    BY <1>1, <1>4 DEF RunnerOK, RunnerType
  <2> QED
    BY <1>1, <1>5, <1>8, <1>9, <1>10, <2>1, <2>2, <2>3, ShapesSave
<1>11. CASE engine = "pydantic-ai"
  <2>1. UNCHANGED <<engineVars, overlapped>>
    BY <1>1, <1>11
  <2>2. ActiveShaped(t)'
    BY <1>1, <1>5, <1>8, <1>9, <2>1 DEF ActiveShaped, engineVars
  <2>3. \A u \in 1..Len(turns) : IsActive(u)' => IsActive(u)
    BY <1>1 DEF IsActive
  <2> QED
    BY <1>1, <1>5, <2>1, <2>2, <2>3, ShapesRunner DEF engineVars
<1> QED
  BY <1>4, <1>10, <1>11 DEF Engines

LEMMA ShapesSaveRound ==
  ASSUME PlainInv, MemoryInv, ShapesInv, NEW t \in 1..Len(turns), SaveRound(t) \/ SaveAnswer(t),
         ~overlapped'
  PROVE  ShapesInv'
<1> DEFINE h == runner[t].history
           own == runner[t].own
<1>1. PICK pc \in {"streaming", "answered", "done"} :
        /\ Saves(t, h) /\ Becomes(t, pc) /\ UNCHANGED <<messages, turns, call, pauses, mixed>>
        /\ \/ pc = "streaming" /\ runner[t].pc = "saving"
           \/ pc # "streaming" /\ runner[t].pc = "answering"
  BY DEF SaveRound, SaveAnswer
<1>2. /\ Save(own, h) /\ HasAsked(h) /\ own \in Nat /\ own # None /\ h \in Seq(EntryType)
  BY <1>1, PlainSave
<1>3. IsActive(t)
  BY <1>1 DEF Saves
<1>4. /\ t \in 1..MaxTurns /\ runner \in [1..MaxTurns -> RunnerType] /\ runner[t] \in RunnerType
  BY RunnerFacts
<1>5. runner'[t].pc = pc /\ runner'[t].history = h
  BY <1>1, <1>4 DEF Becomes, RunnerType
<1>6. ActiveOK(t) /\ ActiveShaped(t)
  BY <1>3 DEF MemoryInv, ShapesInv
<1>7. /\ engine = "pydantic-ai" => Unkept(own)
      /\ Shaped(messages, saved, h, turns[t].follows)
      /\ runner[t].pc = "saving" => ~HasFinished(h)
  BY <1>1, <1>6 DEF ActiveOK, ActiveShaped, Asked
<1> HIDE DEF h, own
<1> QED
  BY <1>1, <1>2, <1>3, <1>5, <1>7, ShapesSave
-----------------------------------------------------------------------------
(* Every step                                                              *)

\* What a step must show: a save of a turn that had ended, or a resume of another question's,
\* once it happened, leaves nothing more to show.
LEMMA Together ==
  ASSUME ConversationInv, PlainInv', overlapped => overlapped', mixed => mixed',
         MemoryInv /\ ~overlapped' => MemoryInv',
         MemoryInv /\ ShapesInv /\ ~overlapped' /\ ~mixed' => ShapesInv'
  PROVE  ConversationInv'
BY DEF ConversationInv

LEMMA AskingStep ==
  ASSUME ConversationInv, Asking
  PROVE  ConversationInv'
<1>1. PlainInv
  BY DEF ConversationInv
<1>2. PICK c \in Clients :
        StartSession(c) \/ (\E m \in DOMAIN messages : Read(c, m)) \/ QueueTurn(c) \/ Refused(c)
  BY DEF Asking
<1>3. CASE StartSession(c)
  <2>1. UNCHANGED <<engineVars, messages, turns, runner, historyVars>>
    BY <1>3 DEF StartSession
  <2>2. PlainInv'
    BY <1>1, <1>3, PlainStart
  <2>3. MemoryInv => MemoryInv'
    BY <1>1, <2>1, MemoryCalls
  <2>4. MemoryInv /\ ShapesInv => ShapesInv'
    BY <1>1, <2>1, ShapesCalls
  <2> QED
    BY <2>1, <2>2, <2>3, <2>4, Together DEF historyVars
<1>4. CASE \E m \in DOMAIN messages : Read(c, m)
  <2>1. UNCHANGED <<engineVars, messages, turns, runner, historyVars>>
    BY <1>4 DEF Read
  <2>2. PlainInv'
    BY <1>1, <1>4, PlainRead
  <2>3. MemoryInv => MemoryInv'
    BY <1>1, <2>1, MemoryCalls
  <2>4. MemoryInv /\ ShapesInv => ShapesInv'
    BY <1>1, <2>1, ShapesCalls
  <2> QED
    BY <2>1, <2>2, <2>3, <2>4, Together DEF historyVars
<1>5. CASE QueueTurn(c)
  <2>1. PlainInv' /\ UNCHANGED historyVars
    BY <1>1, <1>5, PlainQueue
  <2>2. MemoryInv => MemoryInv'
    BY <1>1, <1>5, MemoryQueue
  <2>3. MemoryInv /\ ShapesInv => ShapesInv'
    BY <1>1, <1>5, ShapesQueue
  <2> QED
    BY <2>1, <2>2, <2>3, Together DEF historyVars
<1>6. CASE Refused(c)
  <2>1. UNCHANGED <<engineVars, messages, turns, runner, historyVars>>
    BY <1>6 DEF Refused
  <2>2. PlainInv'
    BY <1>1, <1>6, PlainRefused
  <2>3. MemoryInv => MemoryInv'
    BY <1>1, <2>1, MemoryCalls
  <2>4. MemoryInv /\ ShapesInv => ShapesInv'
    BY <1>1, <2>1, ShapesCalls
  <2> QED
    BY <2>1, <2>2, <2>3, <2>4, Together DEF historyVars
<1> QED
  BY <1>2, <1>3, <1>4, <1>5, <1>6

\* A turn is cancelled, its lease lapses, or its process dies.
LEMMA LossStep ==
  ASSUME ConversationInv, NEW t \in 1..Len(turns), Cancel(t) \/ Lapse(t) \/ Crash(t)
  PROVE  ConversationInv'
<1>1. PlainInv
  BY DEF ConversationInv
<1>2. CASE Cancel(t)
  <2>1. PlainInv' /\ UNCHANGED <<overlapped, mixed>>
    BY <1>1, <1>2, PlainCancel
  <2>2. MemoryInv => MemoryInv'
    BY <1>1, <1>2, MemoryCancel
  <2>3. MemoryInv /\ ShapesInv => ShapesInv'
    BY <1>1, <1>2, ShapesCancel
  <2> QED
    BY <2>1, <2>2, <2>3, Together
<1>3. CASE Lapse(t)
  <2>1. PlainInv' /\ UNCHANGED <<overlapped, mixed>>
    BY <1>1, <1>3, PlainLapse
  <2>2. MemoryInv => MemoryInv'
    BY <1>1, <1>3, MemoryLapse
  <2>3. MemoryInv /\ ShapesInv => ShapesInv'
    BY <1>1, <1>3, ShapesLapse
  <2> QED
    BY <2>1, <2>2, <2>3, Together
<1>4. CASE Crash(t)
  <2>1. Gone(t) /\ UNCHANGED <<engineVars, messages, turns, call, historyVars>>
    BY <1>4 DEF Crash
  <2>2. PlainInv'
    BY <1>1, <1>4, PlainCrash
  <2>3. MemoryInv => MemoryInv'
    BY <1>1, <2>1, MemoryGone
  <2>4. MemoryInv /\ ShapesInv => ShapesInv'
    BY <1>1, <2>1, ShapesGone
  <2> QED
    BY <2>1, <2>2, <2>3, <2>4, Together DEF historyVars
<1> QED
  BY <1>2, <1>3, <1>4

\* Its runner claims it, makes the engine's session, asks, and begins or goes on.
LEMMA BeginningStep ==
  ASSUME ConversationInv, NEW t \in 1..Len(turns),
         Claim(t) \/ Create(t) \/ StartMessage(t) \/ Begin(t) \/ GoOn(t)
  PROVE  ConversationInv'
<1>1. PlainInv
  BY DEF ConversationInv
<1>2. CASE Claim(t)
  <2>1. PlainInv'
    BY <1>1, <1>2, PlainClaim
  <2>2. UNCHANGED historyVars
    BY <1>2 DEF Claim
  <2>3. MemoryInv => MemoryInv'
    BY <1>1, <1>2, MemoryClaim
  <2>4. MemoryInv /\ ShapesInv => ShapesInv'
    BY <1>1, <1>2, ShapesClaim
  <2> QED
    BY <2>1, <2>2, <2>3, <2>4, Together DEF historyVars
<1>3. CASE Create(t)
  <2>1. PlainInv'
    BY <1>1, <1>3, PlainCreate
  <2>2. UNCHANGED historyVars
    BY <1>3 DEF Create
  <2>3. MemoryInv => MemoryInv'
    BY <1>1, <1>3, MemoryCreate
  <2>4. MemoryInv /\ ShapesInv => ShapesInv'
    BY <1>1, <1>3, ShapesCreate
  <2> QED
    BY <2>1, <2>2, <2>3, <2>4, Together DEF historyVars
<1>4. CASE StartMessage(t)
  <2>1. PlainInv'
    BY <1>1, <1>4, PlainAsk
  <2>2. UNCHANGED historyVars
    BY <1>4 DEF StartMessage
  <2>3. MemoryInv => MemoryInv'
    BY <1>1, <1>4, MemoryAsk
  <2>4. MemoryInv /\ ShapesInv => ShapesInv'
    BY <1>1, <1>4, ShapesAsk
  <2> QED
    BY <2>1, <2>2, <2>3, <2>4, Together DEF historyVars
<1>5. CASE Begin(t)
  <2>1. PlainInv'
    BY <1>1, <1>5, PlainBegin
  <2>2. (overlapped => overlapped') /\ UNCHANGED mixed
    BY <1>5, Zenon DEF Begin, Saves
  <2>3. MemoryInv /\ ~overlapped' => MemoryInv'
    BY <1>1, <1>5, MemoryBegin
  <2>4. MemoryInv /\ ShapesInv /\ ~overlapped' => ShapesInv'
    BY <1>1, <1>5, ShapesBegin
  <2> QED
    BY <2>1, <2>2, <2>3, <2>4, Together
<1>6. CASE GoOn(t)
  <2>1. PlainInv'
    BY <1>1, <1>6, PlainGoOn
  <2>2. UNCHANGED overlapped /\ (mixed => mixed')
    BY <1>6, Zenon DEF GoOn
  <2>3. MemoryInv => MemoryInv'
    BY <1>1, <1>6, MemoryGoOn
  <2>4. MemoryInv /\ ShapesInv /\ ~mixed' => ShapesInv'
    BY <1>1, <1>6, ShapesGoOn
  <2> QED
    BY <2>1, <2>2, <2>3, <2>4, Together
<1> QED
  BY <1>2, <1>3, <1>4, <1>5, <1>6

\* It tells of its rounds and its answer, saves them, and ends.
LEMMA StreamingStep ==
  ASSUME ConversationInv, NEW t \in 1..Len(turns),
         \/ Round(t) \/ SaveRound(t) \/ Tells(t, "answer", "answering") \/ SaveAnswer(t)
         \/ Hand(t) \/ Finish(t) \/ Fail(t)
  PROVE  ConversationInv'
<1>1. PlainInv
  BY DEF ConversationInv
<1>2. CASE Tells(t, "round", "saving") \/ Tells(t, "answer", "answering")
  <2>1. PlainInv'
    BY <1>1, <1>2, PlainTells
  <2>2. UNCHANGED historyVars
    BY <1>2 DEF Tells
  <2>3. MemoryInv => MemoryInv'
    BY <1>1, <1>2, MemoryTells
  <2>4. MemoryInv /\ ShapesInv => ShapesInv'
    BY <1>1, <1>2, ShapesTells
  <2> QED
    BY <2>1, <2>2, <2>3, <2>4, Together DEF historyVars
<1>3. CASE SaveRound(t) \/ SaveAnswer(t)
  <2>1. PICK pc \in {"streaming", "answered", "done"} :
          /\ Saves(t, runner[t].history) /\ Becomes(t, pc)
          /\ UNCHANGED <<messages, turns, call, pauses, mixed>>
          /\ runner[t].pc \in {"saving", "answering"}
    BY <1>3 DEF SaveRound, SaveAnswer
  <2>2. PlainInv'
    BY <1>1, <2>1, PlainSave
  <2>3. (overlapped => overlapped') /\ UNCHANGED mixed
    BY <2>1, Zenon DEF Saves
  <2>4. MemoryInv /\ ~overlapped' => MemoryInv'
    BY <1>1, <1>3, MemorySaveRound
  <2>5. MemoryInv /\ ShapesInv /\ ~overlapped' => ShapesInv'
    BY <1>1, <1>3, ShapesSaveRound
  <2> QED
    BY <2>2, <2>3, <2>4, <2>5, Together
<1>4. CASE Hand(t)
  <2>1. PlainInv'
    BY <1>1, <1>4, PlainHand
  <2>2. UNCHANGED historyVars
    BY <1>4 DEF Hand
  <2>3. MemoryInv => MemoryInv'
    BY <1>1, <1>4, MemoryHand
  <2>4. MemoryInv /\ ShapesInv => ShapesInv'
    BY <1>1, <1>4, ShapesHand
  <2> QED
    BY <2>1, <2>2, <2>3, <2>4, Together DEF historyVars
<1>5. CASE Finish(t)
  <2>1. PlainInv'
    BY <1>1, <1>5, PlainFinish
  <2>2. UNCHANGED historyVars
    BY <1>5 DEF Finish
  <2>3. MemoryInv => MemoryInv'
    BY <1>1, <1>5, MemoryFinish
  <2>4. MemoryInv /\ ShapesInv => ShapesInv'
    BY <1>1, <1>5, ShapesFinish
  <2> QED
    BY <2>1, <2>2, <2>3, <2>4, Together DEF historyVars
<1>6. CASE Fail(t)
  <2>1. PlainInv'
    BY <1>1, <1>6, PlainFail
  <2>2. UNCHANGED historyVars
    BY <1>6 DEF Fail
  <2>3. MemoryInv => MemoryInv'
    BY <1>1, <1>6, MemoryFail
  <2>4. MemoryInv /\ ShapesInv => ShapesInv'
    BY <1>1, <1>6, ShapesFail
  <2> QED
    BY <2>1, <2>2, <2>3, <2>4, Together DEF historyVars
<1>7. Round(t) => Tells(t, "round", "saving")
  BY DEF Round
<1> QED
  BY <1>2, <1>3, <1>4, <1>5, <1>6, <1>7

LEMMA RunningStep ==
  ASSUME ConversationInv, Running
  PROVE  ConversationInv'
<1>1. DOMAIN turns = 1..Len(turns)
  BY MessagesDomain DEF ConversationInv, PlainInv
<1>2. PICK t \in DOMAIN turns :
        \/ Cancel(t) \/ Lapse(t) \/ Crash(t)
        \/ Claim(t) \/ Create(t) \/ StartMessage(t) \/ Begin(t) \/ GoOn(t)
        \/ Round(t) \/ SaveRound(t) \/ Tells(t, "answer", "answering") \/ SaveAnswer(t)
        \/ Hand(t) \/ Finish(t) \/ Fail(t)
  BY DEF Running
<1>3. t \in 1..Len(turns)
  BY <1>1
<1> QED
  BY <1>2, <1>3, LossStep, BeginningStep, StreamingStep

LEMMA ConversationStep ==
  ASSUME ConversationInv, [Next]_vars
  PROVE  ConversationInv'
<1>1. CASE Asking
  BY <1>1, AskingStep
<1>2. CASE Running
  BY <1>2, RunningStep
<1>3. CASE UNCHANGED vars
  <2>1. PlainInv
    BY DEF ConversationInv
  <2>2. UNCHANGED <<engine, known, saved, latest, messages, turns, call, runner, pauses,
                    overlapped, mixed>>
    BY <1>3 DEF vars, engineVars, historyVars
  <2>3. PlainInv' = PlainInv
    BY <2>2 DEF PlainInv, TypesInv, TurnsInv, EngineInv, IsActive
  <2>4. MemoryInv => MemoryInv'
    BY <2>1, <2>2, MemoryCalls DEF engineVars
  <2>5. MemoryInv /\ ShapesInv => ShapesInv'
    BY <2>1, <2>2, ShapesCalls DEF engineVars
  <2> QED
    BY <2>1, <2>2, <2>3, <2>4, <2>5, Together
<1> QED
  BY <1>1, <1>2, <1>3 DEF Next

-----------------------------------------------------------------------------
(* The theorems                                                            *)

\* The inductive invariant holds whatever the clients, the engine and the runners do.
\* (worker.py _run_turn, turn_store.py and the engines)
THEOREM ConversationInvAlways == ThreadSpec => []ConversationInv
<1>1. Init => ConversationInv
  BY ConversationInit
<1>2. ConversationInv /\ [Next]_vars => ConversationInv'
  BY ConversationStep
<1> QED
  BY <1>1, <1>2, PTL DEF ThreadSpec

\* The tree of messages is well formed, and, as long as no runner saved after its turn ended and
\* no resume went on with the turn of another question, the history an engine goes on from and
\* the note in the prompt together tell every exchange above the question once.
\* (worker.py _run_turn, failures.py, the engines' partial_turn)
THEOREM ThreadInvAlways == ThreadSpec => []ThreadInv
<1>1. ConversationInv => ThreadInv
  BY ThreadTypeOKHolds, ToldOnceHolds DEF ThreadInv
<1> QED
  BY <1>1, ConversationInvAlways, PTL

\* The engine holds the checkpoint of every finished answer, ended by that answer and going on
\* from every finished answer above it, on whatever branch, as long as no runner saved after its
\* turn ended. (worker.py _run_turn's walk, the engines' partial_turn)
THEOREM RemembersAboveAlways == ThreadSpec => []RemembersAbove
<1>1. ConversationInv => RemembersAbove
  BY RemembersAboveHolds
<1> QED
  BY <1>1, ConversationInvAlways, PTL
=============================================================================
