--------------------------- MODULE FramingProofs ---------------------------
(***************************************************************************)
(* Theorems about Framing, for any number and lengths of the messages:     *)
(* what the prefixes say of one message keeps all that follow it apart.    *)
(*                                                                         *)
(* A prefix is read as the length it was made from, by induction over the  *)
(* digits.  No prover here takes a predicate for an argument; a set does   *)
(* as well, and so does a function where a recursion has a step.           *)
(***************************************************************************)
EXTENDS Framing, WellFoundedInduction, TLAPS

Texts == {t \in Seq(Bytes) : Len(t) \in Lengths}

Types ==
    /\ sent \in Seq(Texts) /\ Len(sent) <= MaxMessages
    /\ stream \in Seq(Bytes)
    /\ closed \in BOOLEAN /\ checked \in BOOLEAN /\ strayed \in BOOLEAN
    /\ at \in {"prefix", "text", "gone"} /\ size \in Nat

\* A message on its way.
Frame(text) == PrefixOf(Len(text)) \o text

\* Places that do not fall, from the n-th, which is o, to the last, which is b.
Rising(start, n, last, o, b) ==
    /\ n \in 1..last
    /\ start \in [Nat -> Nat] /\ start[n] = o /\ start[last] = b
    /\ \A k, m \in n..last : k <= m => start[k] <= start[m]

\* The messages from the n-th on lie in these bytes, one behind the other, the
\* first of them behind o bytes, the m-th behind start[m].
Lie(messages, bytes, start, n, o) ==
    /\ Rising(start, n, Len(messages) + 1, o, Len(bytes))
    /\ \A m \in n..Len(messages) :
         /\ start[m + 1] = start[m] + Len(Frame(messages[m]))
         /\ \A i \in 1..Len(Frame(messages[m])) :
              bytes[start[m] + i] = Frame(messages[m])[i]

FromOn(messages, bytes, n, o) == \E start : Lie(messages, bytes, start, n, o)

\* As many messages as were received, and they are those that were sent.
Intact ==
    /\ received \in Seq(Texts) /\ Len(received) <= Len(sent)
    /\ \A m \in 1..Len(received) : received[m] = sent[m]

\* The reader is between two messages ...
Between == at = "prefix" /\ Intact /\ FromOn(sent, stream, Len(received) + 1, 0)

\* ... or behind the prefix of one ...
Amid ==
    LET n == Len(received) + 1 IN
    /\ at = "text" /\ Intact /\ n <= Len(sent)
    /\ size = Len(sent[n]) /\ size <= Len(stream)
    /\ \A i \in 1..size : stream[i] = sent[n][i]
    /\ FromOn(sent, stream, n + 1, size)

\* ... or there is nothing more to read: the daemon takes an error for the
\* next field, the client whatever is on the stack for a length.
Ended ==
    /\ closed /\ stream = <<>>
    /\ \/ at = "text" /\ ~ checked /\ Intact
       \/ at = "gone" /\ Intact
       \/ /\ at = "gone" /\ ~ checked
          /\ \E before \in Seq(Texts) :
               /\ received = Append(before, <<>>) /\ Len(before) <= Len(sent)
               /\ \A m \in 1..Len(before) : before[m] = sent[m]

Inv == ~ strayed => Types /\ (Between \/ Amid \/ Ended)

-----------------------------------------------------------------------------
(* Sequences *)

LEMMA Appended ==
    ASSUME NEW S, NEW seq \in Seq(S), NEW e \in S
    PROVE  /\ Append(seq, e) \in Seq(S) /\ Len(seq) \in Nat
           /\ Len(Append(seq, e)) = Len(seq) + 1
           /\ Append(seq, e)[Len(seq) + 1] = e
           /\ \A i \in 1..Len(seq) : Append(seq, e)[i] = seq[i]
OBVIOUS

LEMMA Joined ==
    ASSUME NEW S, NEW a \in Seq(S), NEW b \in Seq(S)
    PROVE  /\ a \o b \in Seq(S) /\ Len(a) \in Nat /\ Len(b) \in Nat
           /\ Len(a \o b) = Len(a) + Len(b)
           /\ \A i \in 1..Len(a) : (a \o b)[i] = a[i]
           /\ \A i \in 1..Len(b) : (a \o b)[Len(a) + i] = b[i]
OBVIOUS

LEMMA Cut ==
    ASSUME NEW S, NEW seq \in Seq(S), NEW d \in 0..Len(seq)
    PROVE  /\ SubSeq(seq, d + 1, Len(seq)) \in Seq(S) /\ Len(seq) \in Nat
           /\ Len(SubSeq(seq, d + 1, Len(seq))) = Len(seq) - d
           /\ \A i \in 1..(Len(seq) - d) : SubSeq(seq, d + 1, Len(seq))[i] = seq[d + i]
OBVIOUS

LEMMA Begun ==
    ASSUME NEW S, NEW seq \in Seq(S), NEW d \in 0..Len(seq)
    PROVE  /\ SubSeq(seq, 1, d) \in Seq(S) /\ Len(seq) \in Nat
           /\ Len(SubSeq(seq, 1, d)) = d
           /\ \A i \in 1..d : SubSeq(seq, 1, d)[i] = seq[i]
OBVIOUS

LEMMA ElementIn ==
    ASSUME NEW S, NEW seq \in Seq(S)
    PROVE  Len(seq) \in Nat /\ \A i \in 1..Len(seq) : seq[i] \in S
OBVIOUS

-----------------------------------------------------------------------------
(* Digits *)

\* Induction, over the set of the numbers of which it is known.
LEMMA Induction ==
    ASSUME NEW P \in SUBSET Nat, 0 \in P, \A n \in P : n + 1 \in P
    PROVE  P = Nat
<1> DEFINE Less == OpToRel(<, Nat)
           rest == Nat \ P
<1>1. \A k, m \in Nat : k < m => <<k, m>> \in Less
  BY DEF OpToRel
<1>2. IsWellFoundedOn(Less, Nat)
  BY NatLessThanWellFounded
<1> HIDE DEF Less
<1>3. SUFFICES ASSUME rest # {} PROVE FALSE
  OBVIOUS
<1>4. PICK m \in rest : \A k \in rest : ~ (<<k, m>> \in Less)
  BY <1>2, <1>3, WFMin
<1>5. m \in Nat /\ m # 0 /\ m - 1 \in Nat /\ m - 1 < m
  BY <1>4
<1>6. m - 1 \in P
  BY <1>1, <1>4, <1>5
<1>7. (m - 1) + 1 \in P
  BY <1>6
<1> QED
  BY <1>4, <1>5, <1>7

\* The function that takes a step for each number.
Unrolls(f, S, base, step) ==
    /\ f \in [Nat -> S] /\ f[0] = base
    /\ \A k \in Nat : f[k + 1] = step[k][f[k]]

\* There is one: the values of the functions that do so up to some number agree.
LEMMA Recursion ==
    ASSUME NEW S, NEW base, NEW step, base \in S, step \in [Nat -> [S -> S]]
    PROVE  \E f : Unrolls(f, S, base, step)
<1> DEFINE From(g, m) ==
             /\ g \in [0..m -> S] /\ g[0] = base
             /\ \A k \in 0..m : k + 1 \in 0..m => g[k + 1] = step[k][g[k]]
           Reached == {m \in Nat : \E g : From(g, m)}
           Agree == {k \in Nat : \A m, n \in Nat : k <= m /\ k <= n =>
                       \A g, h : From(g, m) /\ From(h, n) => g[k] = h[k]}
<1>1. Reached = Nat
  <2>1. 0 \in Reached
    <3>1. From([k \in 0..0 |-> base], 0)
      OBVIOUS
    <3> QED
      BY <3>1
  <2>2. ASSUME NEW m \in Reached PROVE m + 1 \in Reached
    <3>1. PICK g : From(g, m)
      OBVIOUS
    <3> DEFINE h == [k \in 0..(m + 1) |-> IF k = m + 1 THEN step[m][g[m]] ELSE g[k]]
    <3>2. m \in Nat /\ m \in 0..m /\ g[m] \in S /\ step[m][g[m]] \in S
      BY <3>1
    <3>3. h \in [0..(m + 1) -> S] /\ h[0] = base
      BY <3>1, <3>2
    <3>4. ASSUME NEW k \in 0..(m + 1), k + 1 \in 0..(m + 1)
          PROVE  h[k + 1] = step[k][h[k]]
      <4>1. k \in 0..m /\ h[k] = g[k]
        BY <3>2, <3>4
      <4>2. CASE k = m
        BY <3>2, <4>1, <4>2
      <4>3. CASE k # m
        <5>1. k + 1 \in 0..m /\ h[k + 1] = g[k + 1]
          BY <3>2, <4>1, <4>3
        <5> QED
          BY <3>1, <4>1, <5>1
      <4> QED
        BY <4>2, <4>3
    <3>5. From(h, m + 1)
      BY <3>3, <3>4
    <3>6. m + 1 \in Nat
      BY <3>2
    <3> HIDE DEF From, h
    <3> QED
      BY <3>5, <3>6
  <2> HIDE DEF Reached
  <2>3. Reached \in SUBSET Nat
    BY DEF Reached
  <2> QED
    BY <2>1, <2>2, <2>3, Induction
<1>2. Agree = Nat
  <2>1. 0 \in Agree
    OBVIOUS
  <2>2. ASSUME NEW k \in Agree PROVE k + 1 \in Agree
    <3>1. ASSUME NEW m \in Nat, NEW n \in Nat, k + 1 <= m, k + 1 <= n,
                 NEW g, NEW h, From(g, m), From(h, n)
          PROVE  g[k + 1] = h[k + 1]
      <4>1. k \in Nat /\ k <= m /\ k <= n
        BY <3>1
      <4>2. g[k] = h[k]
        <5> HIDE DEF From
        <5> QED
          BY <3>1, <4>1
      <4> HIDE DEF Agree
      <4>3. k \in 0..m /\ k + 1 \in 0..m /\ k \in 0..n /\ k + 1 \in 0..n
        BY <3>1, <4>1
      <4>4. g[k + 1] = step[k][g[k]]
        BY <3>1, <4>3
      <4>5. h[k + 1] = step[k][h[k]]
        BY <3>1, <4>3
      <4> QED
        BY <4>2, <4>4, <4>5
    <3>2. k \in Nat /\ k + 1 \in Nat
      OBVIOUS
    <3> HIDE DEF From
    <3> QED
      BY <3>1, <3>2
  <2> HIDE DEF Agree
  <2>3. Agree \in SUBSET Nat
    BY DEF Agree
  <2> QED
    BY <2>1, <2>2, <2>3, Induction
<1> DEFINE G(m) == CHOOSE g : From(g, m)
           f == [m \in Nat |-> G(m)[m]]
<1>3. ASSUME NEW m \in Nat PROVE From(G(m), m)
  <2>1. \E g : From(g, m)
    BY <1>1
  <2> HIDE DEF From
  <2> QED
    BY <2>1
<1>4. ASSUME NEW m \in Nat PROVE f[m] = G(m)[m] /\ G(m)[m] \in S
  <2>1. From(G(m), m)
    BY <1>3
  <2> HIDE DEF G
  <2> QED
    BY <2>1
<1>5. ASSUME NEW k \in Nat PROVE f[k + 1] = step[k][f[k]]
  <2>1. From(G(k), k) /\ From(G(k + 1), k + 1)
    <3> HIDE DEF From, G
    <3> QED
      BY <1>3
  <2>2. f[k] = G(k)[k] /\ f[k + 1] = G(k + 1)[k + 1]
    <3> HIDE DEF G
    <3> QED
      BY k + 1 \in Nat
  <2> HIDE DEF G, f
  <2>3. G(k)[k] = G(k + 1)[k]
    <3> HIDE DEF From
    <3>1. k \in Agree /\ k + 1 \in Nat /\ k <= k /\ k <= k + 1
      <4> HIDE DEF Agree
      <4> QED
        BY <1>2
    <3> QED
      BY <2>1, <3>1
  <2> HIDE DEF Agree, Reached
  <2>4. G(k + 1)[k + 1] = step[k][G(k + 1)[k]]
    BY <2>1
  <2> QED
    BY <2>2, <2>3, <2>4
<1>6. f[0] = base
  <2>1. From(G(0), 0) /\ f[0] = G(0)[0]
    <3> HIDE DEF From, G
    <3> QED
      BY <1>3
  <2> HIDE DEF G, f
  <2> QED
    BY <2>1
<1>7. f \in [Nat -> S]
  BY <1>4
<1> QED
  BY <1>5, <1>6, <1>7 DEF Unrolls

LEMMA Product == ASSUME NEW v \in Nat, NEW d \in Nat PROVE v * Base + d \in Nat
BY ConstantsAssumption

LEMMA Division ==
    \A n \in Nat : /\ n \div Base \in Nat /\ n % Base \in 0..(Base - 1)
                   /\ n = (n \div Base) * Base + (n % Base)
                   /\ n # 0 => n \div Base < n
BY ConstantsAssumption

\* What is left of n loses a digit at each step.
LEMMA LeftDef ==
    /\ Left \in [Nat -> [Nat -> Nat]]
    /\ \A n \in Nat : Left[0][n] = n
    /\ \A k, n \in Nat : Left[k + 1][n] = Left[k][n] \div Base
<1> DEFINE S == [Nat -> Nat]
           base == [n \in Nat |-> n]
           step == [k \in Nat |-> [h \in S |-> [n \in Nat |-> h[n] \div Base]]]
<1>1. base \in S
  OBVIOUS
<1>2. step \in [Nat -> [S -> S]]
  BY ConstantsAssumption
<1>3. PICK f : Unrolls(f, S, base, step)
  <2> HIDE DEF S, base, step
  <2> QED
    BY <1>1, <1>2, Recursion
<1>4. ASSUME NEW k \in Nat
      PROVE  f[k] = [n \in Nat |-> IF k = 0 THEN n ELSE f[k - 1][n] \div Base]
  <2>1. CASE k = 0
    BY <1>3, <2>1 DEF Unrolls
  <2>2. CASE k # 0
    <3>1. k - 1 \in Nat /\ (k - 1) + 1 = k
      BY <2>2
    <3>2. f[k] = step[k - 1][f[k - 1]] /\ f[k - 1] \in S
      BY <1>3, <3>1 DEF Unrolls
    <3> QED
      BY <2>2, <3>1, <3>2
  <2> QED
    BY <2>1, <2>2
<1>5. f = [k \in Nat |-> [n \in Nat |-> IF k = 0 THEN n ELSE f[k - 1][n] \div Base]]
  BY <1>3, <1>4 DEF Unrolls
<1>6. Left = [k \in Nat |-> [n \in Nat |-> IF k = 0 THEN n ELSE Left[k - 1][n] \div Base]]
  BY <1>5 DEF Left
<1> HIDE DEF S, base, step
<1>7. \A k, n \in Nat : Left[k][n] = IF k = 0 THEN n ELSE Left[k - 1][n] \div Base
  BY <1>6
<1>8. \A k, n \in Nat : Left[k + 1][n] = Left[k][n] \div Base
  BY <1>7
<1> DEFINE P == {k \in Nat : Left[k] \in [Nat -> Nat]}
<1>9. P = Nat
  <2>1. 0 \in P
    BY <1>6
  <2>2. ASSUME NEW k \in P PROVE k + 1 \in P
    <3>1. Left[k + 1] = [n \in Nat |-> Left[k][n] \div Base]
      BY <1>6
    <3>2. ASSUME NEW n \in Nat PROVE Left[k][n] \div Base \in Nat
      BY Division
    <3> QED
      BY <3>1, <3>2
  <2> HIDE DEF P
  <2> QED
    BY <2>1, <2>2, Induction DEF P
<1> QED
  BY <1>6, <1>7, <1>8, <1>9

\* A number gains a digit at each step.
LEMMA ValueDef ==
    /\ Value \in [Nat -> [Seq(Digits) -> Nat]]
    /\ \A b \in Seq(Digits) : Value[0][b] = 0
    /\ \A b \in Seq(Digits) : \A k \in Nat :
         k + 1 \in 1..Len(b) => Value[k + 1][b] = Value[k][b] * Base + b[k + 1][2]
<1> DEFINE S == [Seq(Digits) -> Nat]
           base == [b \in Seq(Digits) |-> 0]
           Then(k, h, b) == IF k + 1 \notin 1..Len(b) THEN 0 ELSE h[b] * Base + b[k + 1][2]
           step == [k \in Nat |-> [h \in S |-> [b \in Seq(Digits) |-> Then(k, h, b)]]]
<1>1. base \in S
  OBVIOUS
<1>2. ASSUME NEW k \in Nat, NEW h \in S, NEW b \in Seq(Digits)
      PROVE  Then(k, h, b) \in Nat
  <2>1. CASE k + 1 \notin 1..Len(b)
    BY <2>1
  <2>2. CASE k + 1 \in 1..Len(b)
    <3>1. b[k + 1] \in Digits /\ h[b] \in Nat
      BY <2>2
    <3>2. b[k + 1][2] \in Nat /\ Base \in Nat
      BY <3>1, ConstantsAssumption DEF Digits
    <3>3. h[b] * Base + b[k + 1][2] \in Nat
      BY <3>1, <3>2, Product
    <3> QED
      BY <2>2, <3>3
  <2> QED
    BY <2>1, <2>2
<1>3. step \in [Nat -> [S -> S]]
  <2> HIDE DEF Then
  <2> QED
    BY <1>2
<1>4. PICK f : Unrolls(f, S, base, step)
  <2> HIDE DEF S, base, step
  <2> QED
    BY <1>1, <1>3, Recursion
<1> DEFINE Step(g, k, b) == IF k \notin 1..Len(b) THEN 0 ELSE g[k - 1][b] * Base + b[k][2]
<1>5. ASSUME NEW k \in Nat
      PROVE  f[k] = [b \in Seq(Digits) |-> Step(f, k, b)]
  <2>1. CASE k = 0
    BY <1>4, <2>1 DEF Unrolls
  <2>2. CASE k # 0
    <3>1. k - 1 \in Nat /\ (k - 1) + 1 = k
      BY <2>2
    <3>2. f[k] = step[k - 1][f[k - 1]] /\ f[k - 1] \in S
      BY <1>4, <3>1 DEF Unrolls
    <3>3. f[k] = [b \in Seq(Digits) |-> Then(k - 1, f[k - 1], b)]
      <4> HIDE DEF Then
      <4> QED
        BY <3>1, <3>2
    <3>4. \A b \in Seq(Digits) : Then(k - 1, f[k - 1], b) = Step(f, k, b)
      BY <3>1
    <3> HIDE DEF Then, Step
    <3> QED
      BY <3>3, <3>4
  <2> QED
    BY <2>1, <2>2
<1>6. f = [k \in Nat |-> [b \in Seq(Digits) |-> Step(f, k, b)]]
  <2> HIDE DEF Step
  <2> QED
    BY <1>4, <1>5 DEF Unrolls
<1>7. Value = [k \in Nat |-> [b \in Seq(Digits) |-> Step(Value, k, b)]]
  BY <1>6 DEF Value
<1> HIDE DEF S, base, step
<1>8. \A k \in Nat : \A b \in Seq(Digits) : Value[k][b] = Step(Value, k, b)
  BY <1>7
<1> DEFINE P == {k \in Nat : \A b \in Seq(Digits) : Value[k][b] \in Nat}
<1>9. P = Nat
  <2>1. 0 \in P
    BY <1>8
  <2>2. ASSUME NEW k \in P PROVE k + 1 \in P
    <3>1. ASSUME NEW b \in Seq(Digits) PROVE Value[k + 1][b] \in Nat
      <4>1. Value[k + 1][b] = Step(Value, k + 1, b) /\ k \in Nat /\ Value[k][b] \in Nat
        BY <1>8
      <4>2. CASE k + 1 \in 1..Len(b)
        <5>1. b[k + 1][2] \in Nat
          BY <4>2, ConstantsAssumption DEF Digits
        <5>2. Value[k][b] * Base + b[k + 1][2] \in Nat
          BY <4>1, <5>1, Product
        <5> QED
          BY <4>1, <4>2, <5>2
      <4> QED
        BY <4>1, <4>2
    <3> QED
      BY <3>1
  <2> HIDE DEF P
  <2> QED
    BY <2>1, <2>2, Induction DEF P
<1>10. \A b \in Seq(Digits) : Value[0][b] = 0
  BY <1>8
<1>11. ASSUME NEW b \in Seq(Digits), NEW k \in Nat, k + 1 \in 1..Len(b)
       PROVE  Value[k + 1][b] = Value[k][b] * Base + b[k + 1][2]
  BY <1>8, <1>11
<1>12. ASSUME NEW k \in Nat PROVE Value[k] \in [Seq(Digits) -> Nat]
  <2>1. Value[k] = [b \in Seq(Digits) |-> Value[k][b]]
    BY <1>7, <1>8
  <2>2. \A b \in Seq(Digits) : Value[k][b] \in Nat
    BY <1>9
  <2> QED
    BY <2>1, <2>2
<1>13. Value \in [Nat -> [Seq(Digits) -> Nat]]
  <2> HIDE DEF Step
  <2> QED
    BY <1>7, <1>12
<1> QED
  BY <1>10, <1>11, <1>13

LEMMA LeastNatural ==
    ASSUME NEW P \in SUBSET Nat, P # {}
    PROVE  \E m \in P : m = 0 \/ m - 1 \notin P
<1> DEFINE rest == Nat \ P
<1> SUFFICES ASSUME \A m \in P : m # 0 /\ m - 1 \in P PROVE FALSE
  OBVIOUS
<1>1. 0 \in rest
  OBVIOUS
<1>2. ASSUME NEW n \in rest PROVE n + 1 \in rest
  BY (n + 1) - 1 = n
<1> HIDE DEF rest
<1>3. rest = Nat
  BY <1>1, <1>2, Induction DEF rest
<1> QED
  BY <1>3 DEF rest

\* No digits are left of n after n steps, nor of 0.
LEMMA LeftEnds ==
    ASSUME NEW n \in Nat
    PROVE  \A k \in Nat : k > n => Left[k][n] = 0
<1> DEFINE P == {k \in Nat : Left[k][n] = 0 \/ Left[k][n] + k <= n}
<1>1. 0 \in P
  <2>1. Left[0][n] = n
    BY LeftDef
  <2> QED
    BY <2>1
<1>2. ASSUME NEW k \in P PROVE k + 1 \in P
  <2>1. Left[k][n] \in Nat /\ Left[k + 1][n] \in Nat
    BY LeftDef
  <2>2. Left[k + 1][n] = Left[k][n] \div Base
    BY LeftDef
  <2>3. Left[k][n] # 0 => Left[k + 1][n] < Left[k][n]
    BY <2>1, <2>2, Division
  <2>4. Left[k][n] = 0 => Left[k + 1][n] = 0
    BY <2>2, ConstantsAssumption
  <2> QED
    BY <2>1, <2>3, <2>4
<1>3. P = Nat
  <2> HIDE DEF P
  <2> QED
    BY <1>1, <1>2, Induction DEF P
<1>4. ASSUME NEW k \in Nat, k > n PROVE Left[k][n] = 0
  <2>1. k \in P /\ Left[k][n] \in Nat
    BY <1>3, LeftDef
  <2> QED
    BY <1>4, <2>1
<1> QED
  BY <1>4

LEMMA LeftStaysZero ==
    ASSUME NEW n \in Nat, NEW k \in Nat, Left[k][n] = 0
    PROVE  \A m \in Nat : m >= k => Left[m][n] = 0
<1> DEFINE P == {m \in Nat : m >= k => Left[m][n] = 0}
<1>1. 0 \in P
  OBVIOUS
<1>2. ASSUME NEW m \in P PROVE m + 1 \in P
  <2>1. CASE m + 1 = k
    BY <2>1
  <2>2. CASE m + 1 # k
    <3>1. Left[m + 1][n] = Left[m][n] \div Base
      BY LeftDef
    <3>2. m >= k => Left[m + 1][n] = 0
      BY <3>1, ConstantsAssumption
    <3> QED
      BY <2>2, <3>2
  <2> QED
    BY <2>1, <2>2
<1> HIDE DEF P
<1>3. P = Nat
  BY <1>1, <1>2, Induction DEF P
<1> QED
  BY <1>3 DEF P

\* A number has a width: that of the prefix, or the least that holds it.
LEMMA WidthFits ==
    ASSUME NEW n \in Nat
    PROVE  /\ WidthOf(n) \in Width..(n + Width) /\ Left[WidthOf(n)][n] = 0
           /\ ~ TooLong(n) => WidthOf(n) = Width
<1> DEFINE Fits(w) == Left[w][n] = 0 /\ (w > Width => Left[w - 1][n] # 0)
           wide == {w \in Nat : w >= Width /\ Left[w][n] = 0}
<1>1. Width \in Nat /\ Width # 0
  BY ConstantsAssumption
<1>2. n + Width \in wide
  BY <1>1, LeftEnds
<1>3. PICK w \in wide : w = 0 \/ w - 1 \notin wide
  <2>1. wide \in SUBSET Nat /\ wide # {}
    BY <1>2
  <2> HIDE DEF wide
  <2> QED
    BY <2>1, LeastNatural
<1>4. w \in Width..(n + Width) /\ Fits(w)
  <2>1. w > Width => w - 1 \in Nat /\ w - 1 >= Width /\ Left[w - 1][n] # 0
    BY <1>1, <1>3
  <2>2. w <= n + Width
    <3> SUFFICES ASSUME w > n + Width PROVE FALSE
      BY <1>1, <1>3
    <3>1. w - 1 \in Nat /\ w - 1 > n /\ w > Width
      BY <1>1, <1>3
    <3> QED
      BY <2>1, <3>1, LeftEnds
  <2> QED
    BY <1>1, <1>3, <2>1, <2>2
<1>5. WidthOf(n) = CHOOSE v \in Width..(n + Width) : Fits(v)
  BY DEF WidthOf
<1> HIDE DEF Fits
<1>6. WidthOf(n) \in Width..(n + Width) /\ Fits(WidthOf(n))
  BY <1>4, <1>5
<1>7. ASSUME ~ TooLong(n), WidthOf(n) # Width PROVE FALSE
  <2>1. WidthOf(n) > Width /\ WidthOf(n) - 1 \in Nat /\ WidthOf(n) - 1 >= Width
    BY <1>1, <1>6, <1>7
  <2>2. Left[WidthOf(n) - 1][n] = 0
    BY <1>1, <1>7, <2>1, LeftStaysZero DEF TooLong
  <2> QED
    BY <1>6, <2>1, <2>2 DEF Fits
<1> QED
  BY <1>6, <1>7 DEF Fits

LEMMA DecimalDigits ==
    ASSUME NEW n \in Nat
    PROVE  /\ Decimal(n) \in Seq(Digits) /\ Len(Decimal(n)) = WidthOf(n)
           /\ WidthOf(n) \in Nat \ {0}
           /\ \A i \in 1..WidthOf(n) :
                Decimal(n)[i] = <<"digit", Left[WidthOf(n) - i][n] % Base>>
<1> DEFINE w == WidthOf(n)
<1>1. w \in Nat /\ w # 0
  BY WidthFits, ConstantsAssumption
<1>2. ASSUME NEW i \in 1..w PROVE <<"digit", Left[w - i][n] % Base>> \in Digits
  <2>1. Left[w - i][n] \in Nat
    <3>1. w - i \in Nat
      BY <1>1
    <3> QED
      BY <3>1, LeftDef
  <2>2. Left[w - i][n] % Base \in 0..(Base - 1)
    BY <2>1, Division
  <2> QED
    BY <2>2 DEF Digits
<1>3. Decimal(n) = [i \in 1..w |-> <<"digit", Left[w - i][n] % Base>>]
  BY DEF Decimal
<1> HIDE DEF w
<1>4. Decimal(n) \in [1..w -> Digits]
  BY <1>2, <1>3
<1>5. Decimal(n) \in Seq(Digits) /\ Len(Decimal(n)) = w
  BY <1>1, <1>4
<1> QED
  BY <1>1, <1>3, <1>5 DEF w

\* Read digit by digit, the number comes back.
LEMMA DecimalValue ==
    ASSUME NEW n \in Nat
    PROVE  Value[WidthOf(n)][Decimal(n)] = n
<1> DEFINE w == WidthOf(n)
           d == Decimal(n)
           P == {k \in Nat : k <= w => Value[k][d] = Left[w - k][n]}
<1>1. /\ w \in Nat /\ d \in Seq(Digits) /\ Len(d) = w
      /\ \A i \in 1..w : d[i] = <<"digit", Left[w - i][n] % Base>>
  BY DecimalDigits
<1>2. Left[w][n] = 0
  BY WidthFits
<1> HIDE DEF w, d
<1>3. 0 \in P
  BY <1>1, <1>2, ValueDef
<1>4. ASSUME NEW k \in P, k + 1 <= w PROVE Value[k + 1][d] = Left[w - (k + 1)][n]
  <2> DEFINE m == w - (k + 1)
  <2>1. k \in Nat /\ m \in Nat /\ m + 1 = w - k /\ k + 1 \in 1..w /\ k <= w
    BY <1>1, <1>4
  <2>2. Value[k][d] = Left[m + 1][n]
    BY <2>1
  <2>3. Left[m][n] \in Nat /\ Left[m + 1][n] = Left[m][n] \div Base
    BY <2>1, LeftDef
  <2>4. d[k + 1][2] = Left[m][n] % Base
    BY <1>1, <2>1
  <2>5. Value[k + 1][d] = Value[k][d] * Base + d[k + 1][2]
    BY <1>1, <2>1, ValueDef
  <2> HIDE DEF m
  <2>6. Value[k + 1][d] = Left[m][n]
    BY <2>2, <2>3, <2>4, <2>5, Division
  <2> QED
    BY <2>6 DEF m
<1>5. \A k \in P : k + 1 \in P
  BY <1>4
<1>6. P = Nat
  <2> HIDE DEF P
  <2> QED
    BY <1>3, <1>5, Induction DEF P
<1>7. Value[w][d] = Left[w - w][n]
  BY <1>1, <1>6
<1>8. w - w = 0
  BY <1>1
<1> QED
  BY <1>7, <1>8, LeftDef DEF w, d

LEMMA LeadingDigits ==
    ASSUME NEW S, NEW bytes \in Seq(S)
    PROVE  /\ Leading(bytes) \in 0..Len(bytes)
           /\ \A i \in 1..Leading(bytes) : bytes[i] \in Digits
           /\ Leading(bytes) < Len(bytes) => bytes[Leading(bytes) + 1] \notin Digits
<1> DEFINE Leads(k) == /\ \A i \in 1..k : bytes[i] \in Digits
                       /\ k < Len(bytes) => bytes[k + 1] \notin Digits
           ends == {k \in Nat : k >= Len(bytes) \/ ~ (\A i \in 1..(k + 1) : bytes[i] \in Digits)}
<1>1. Len(bytes) \in Nat /\ Len(bytes) \in ends
  OBVIOUS
<1>2. PICK k \in ends : k = 0 \/ k - 1 \notin ends
  <2>1. ends \in SUBSET Nat /\ ends # {}
    BY <1>1
  <2> HIDE DEF ends
  <2> QED
    BY <2>1, LeastNatural
<1>3. k \in Nat /\ k \in 0..Len(bytes) /\ \A i \in 1..k : bytes[i] \in Digits
  <2>1. CASE k = 0
    BY <1>1, <2>1
  <2>2. CASE k # 0
    <3>1. k - 1 \in Nat /\ k - 1 \notin ends /\ (k - 1) + 1 = k
      BY <1>2, <2>2
    <3> QED
      BY <1>1, <3>1
  <2> QED
    BY <2>1, <2>2
<1>4. Leads(k)
  <2>1. k < Len(bytes) => ~ (\A i \in 1..(k + 1) : bytes[i] \in Digits)
    BY <1>1, <1>2, <1>3
  <2>2. \A i \in 1..(k + 1) : i \in 1..k \/ i = k + 1
    BY <1>3
  <2> QED
    BY <1>3, <2>1, <2>2
<1>5. Leading(bytes) = CHOOSE j \in 0..Len(bytes) : Leads(j)
  BY DEF Leading
<1> HIDE DEF Leads
<1>6. Leading(bytes) \in 0..Len(bytes) /\ Leads(Leading(bytes))
  BY <1>3, <1>4, <1>5
<1> QED
  BY <1>6 DEF Leads

\* A prefix, with no digit behind it, is read as the length that it was made from,
\* if that has not a digit too many.
THEOREM PrefixesAreRead ==
    \A n \in Nat :
      /\ Decimal(n) \in Seq(Digits) /\ Decimal(n) # <<>>
      /\ \/ TooLong(n)
         \/ /\ Len(Decimal(n)) = Width
            /\ Number(Append(Decimal(n), <<"text", 1>>)) = n
<1> SUFFICES ASSUME NEW n \in Nat
             PROVE  /\ Decimal(n) \in Seq(Digits) /\ Decimal(n) # <<>>
                    /\ ~ TooLong(n) =>
                         /\ Len(Decimal(n)) = Width
                         /\ Number(Append(Decimal(n), <<"text", 1>>)) = n
  OBVIOUS
<1> DEFINE d == Decimal(n)
           w == WidthOf(n)
           bytes == Append(d, <<"text", 1>>)
<1>1. d \in Seq(Digits) /\ Len(d) = w /\ w \in Nat \ {0} /\ Value[w][d] = n
  BY DecimalDigits, DecimalValue
<1>2. ~ TooLong(n) => w = Width
  BY WidthFits
<1> HIDE DEF d, w
<1>3. /\ bytes \in Seq(Digits \cup {<<"text", 1>>}) /\ Len(bytes) = w + 1
      /\ \A i \in 1..w : bytes[i] = d[i] /\ d[i] \in Digits
      /\ bytes[w + 1] = <<"text", 1>>
  BY <1>1
<1>4. <<"text", 1>> \notin Digits
  BY DEF Digits
<1> HIDE DEF bytes
<1>5. Leading(bytes) = w
  <2>1. /\ Leading(bytes) \in 0..(w + 1)
        /\ \A i \in 1..Leading(bytes) : bytes[i] \in Digits
        /\ Leading(bytes) < w + 1 => bytes[Leading(bytes) + 1] \notin Digits
    BY <1>3, LeadingDigits
  <2>2. Leading(bytes) # w + 1
    BY <1>1, <1>3, <1>4, <2>1
  <2>3. ~ (Leading(bytes) < w)
    <3> SUFFICES ASSUME Leading(bytes) < w PROVE FALSE
      OBVIOUS
    <3>1. Leading(bytes) + 1 \in 1..w
      BY <1>1, <2>1
    <3> QED
      BY <1>1, <1>3, <2>1, <3>1
  <2> QED
    BY <1>1, <2>1, <2>2, <2>3
<1>6. SubSeq(bytes, 1, w) = d
  <2>1. /\ SubSeq(bytes, 1, w) \in Seq(Digits \cup {<<"text", 1>>})
        /\ Len(SubSeq(bytes, 1, w)) = w
        /\ \A i \in 1..w : SubSeq(bytes, 1, w)[i] = bytes[i]
    BY <1>1, <1>3, Begun
  <2> QED
    BY <1>1, <1>3, <2>1
<1>7. Number(bytes) = n
  BY <1>1, <1>5, <1>6 DEF Number
<1> QED
  BY <1>1, <1>2, <1>7 DEF d, bytes

\* Whatever the stack holds, it is read as some number.
LEMMA StackIsRead == \A old \in Stack(Width), byte \in Behind : Number(Append(old, byte)) \in Nat
<1> SUFFICES ASSUME NEW old \in Stack(Width), NEW byte \in Behind
             PROVE  Number(Append(old, byte)) \in Nat
  OBVIOUS
<1> DEFINE S == Bytes \cup Behind
           bytes == Append(old, byte)
<1>1. old \in [1..Width -> Bytes] /\ Width \in Nat
  BY ConstantsAssumption DEF Stack
<1>2. bytes \in Seq(S)
  <2> HIDE DEF S
  <2>1. old \in [1..Width -> S] /\ byte \in S
    BY <1>1 DEF S
  <2>2. old \in Seq(S)
    BY <1>1, <2>1
  <2> QED
    BY <2>1, <2>2
<1> HIDE DEF bytes, S
<1> DEFINE k == Leading(bytes)
<1>3. k \in 0..Len(bytes) /\ \A i \in 1..k : bytes[i] \in Digits
  BY <1>2, LeadingDigits
<1>4. k \in Nat
  BY <1>2, <1>3
<1> HIDE DEF k
<1>5. SubSeq(bytes, 1, k) \in Seq(Digits)
  <2>1. /\ SubSeq(bytes, 1, k) \in Seq(S) /\ Len(SubSeq(bytes, 1, k)) = k
        /\ \A i \in 1..k : SubSeq(bytes, 1, k)[i] = bytes[i]
    BY <1>2, <1>3, Begun
  <2> QED
    BY <1>3, <1>4, <2>1
<1>6. Value[k][SubSeq(bytes, 1, k)] \in Nat
  BY <1>4, <1>5, ValueDef
<1> QED
  BY <1>6 DEF Number, k, bytes

-----------------------------------------------------------------------------
(* Bytes and messages *)

LEMMA Texting ==
    ASSUME NEW m \in 1..MaxMessages, NEW n \in Lengths
    PROVE  TextOf(m, n) \in Texts /\ Len(TextOf(m, n)) = n
<1>1. n \in Nat /\ <<"text", m>> \in Bytes
  BY ConstantsAssumption DEF Bytes
<1> QED
  BY <1>1 DEF TextOf, Texts

\* A frame is its prefix and its text; but for a text that is too long, it is
\* known where the one ends and the other begins.
LEMMA Framed ==
    ASSUME NEW text \in Texts
    PROVE  /\ Frame(text) \in Seq(Bytes) /\ Len(Frame(text)) > 0
           /\ \/ TooLong(Len(text))
              \/ /\ Len(Frame(text)) = Width + Len(text)
                 /\ Len(Decimal(Len(text))) = Width
                 /\ \A i \in 1..Width : Frame(text)[i] = Decimal(Len(text))[i]
                 /\ \A i \in 1..Len(text) : Frame(text)[Width + i] = text[i]
                 /\ Number(Append(Decimal(Len(text)), <<"text", 1>>)) = Len(text)
<1> DEFINE n == Len(text)
           prefix == Decimal(n)
<1>1. n \in Lengths /\ n \in Nat /\ text \in Seq(Bytes)
  BY ConstantsAssumption DEF Texts
<1>2. /\ prefix \in Seq(Digits) /\ prefix # <<>>
      /\ \/ TooLong(n)
         \/ Len(prefix) = Width /\ Number(Append(prefix, <<"text", 1>>)) = n
  BY <1>1, PrefixesAreRead
<1>3. prefix \in Seq(Bytes)
  BY <1>2 DEF Bytes
<1>4. Frame(text) = prefix \o text
  BY DEF Frame, PrefixOf
<1> HIDE DEF prefix
<1>5. /\ Len(prefix) \in Nat /\ Len(prefix) > 0
      /\ Frame(text) \in Seq(Bytes) /\ Len(Frame(text)) = Len(prefix) + n
      /\ \A i \in 1..Len(prefix) : Frame(text)[i] = prefix[i]
      /\ \A i \in 1..n : Frame(text)[Len(prefix) + i] = text[i]
  <2>1. Len(prefix) > 0
    BY <1>2
  <2> QED
    BY <1>1, <1>3, <1>4, <2>1, Joined
<1>6. CASE TooLong(n)
  BY <1>5, <1>6
<1>7. CASE Len(prefix) = Width /\ Number(Append(prefix, <<"text", 1>>)) = n
  BY <1>5, <1>7 DEF prefix
<1> QED
  BY <1>2, <1>6, <1>7

Extended(start, next, e) == [start EXCEPT ![next] = e]
Moved(start, n, last, d) == [m \in Nat |-> IF m \in n..last THEN start[m] - d ELSE 0]

LEMMA RisingBetween ==
    ASSUME NEW last \in Nat, NEW o \in Nat, NEW b \in Nat, NEW start, NEW n,
           Rising(start, n, last, o, b)
    PROVE  o <= b /\ \A m \in n..last : start[m] \in o..b
<1>1. /\ n \in 1..last /\ n \in Nat /\ start \in [Nat -> Nat]
      /\ start[n] = o /\ start[last] = b
      /\ \A k, m \in n..last : k <= m => start[k] <= start[m]
  BY DEF Rising
<1>2. ASSUME NEW m \in n..last PROVE start[m] \in o..b
  <2>1. n \in n..last /\ last \in n..last /\ n <= m /\ m <= last /\ m \in Nat
    BY <1>1
  <2> QED
    BY <1>1, <2>1
<1>3. n \in n..last
  BY <1>1
<1> QED
  BY <1>2, <1>3

\* A place more behind the last ...
LEMMA ExtendedRises ==
    ASSUME NEW last \in Nat, NEW o \in Nat, NEW b \in Nat, NEW start, NEW n,
           Rising(start, n, last, o, b),
           NEW e \in Nat, b <= e, NEW next \in Nat, next = last + 1
    PROVE  /\ Rising(Extended(start, next, e), n, next, o, e)
           /\ \A m \in n..last : Extended(start, next, e)[m] = start[m]
<1> DEFINE after == Extended(start, next, e)
<1>1. /\ n \in 1..last /\ n \in Nat /\ start \in [Nat -> Nat]
      /\ start[n] = o /\ start[last] = b
      /\ \A k, m \in n..last : k <= m => start[k] <= start[m]
  BY DEF Rising
<1>2. /\ after \in [Nat -> Nat] /\ after[next] = e
      /\ \A m \in n..last : after[m] = start[m]
  BY <1>1 DEF Extended
<1> HIDE DEF after
<1>3. ASSUME NEW k \in n..(next), NEW m \in n..(next), k <= m
      PROVE  after[k] <= after[m]
  <2>1. CASE m = next /\ k = next
    BY <1>2, <2>1
  <2>2. CASE m = next /\ k # next
    <3>1. k \in n..last
      BY <1>1, <2>2
    <3> QED
      BY <1>2, <2>2, <3>1, RisingBetween
  <2>3. CASE m # next
    <3>1. k \in n..last /\ m \in n..last
      BY <1>1, <1>3, <2>3
    <3> QED
      BY <1>1, <1>2, <1>3, <3>1
  <2> QED
    BY <2>1, <2>2, <2>3
<1>4. n \in 1..(next) /\ n \in n..last
  BY <1>1
<1> QED
  BY <1>1, <1>2, <1>3, <1>4 DEF Rising, after

\* ... and all places d further to the front.
LEMMA MovedRises ==
    ASSUME NEW last \in Nat, NEW o \in Nat, NEW b \in Nat, NEW start, NEW n,
           Rising(start, n, last, o, b), NEW d \in 0..o,
           NEW p \in Nat, p = o - d, NEW e \in Nat, e = b - d
    PROVE  /\ Rising(Moved(start, n, last, d), n, last, p, e)
           /\ \A m \in n..last : Moved(start, n, last, d)[m] = start[m] - d
<1> DEFINE after == Moved(start, n, last, d)
<1>1. /\ n \in 1..last /\ n \in Nat /\ start \in [Nat -> Nat]
      /\ start[n] = o /\ start[last] = b
      /\ \A k, m \in n..last : k <= m => start[k] <= start[m]
  BY DEF Rising
<1>2. \A m \in n..last : start[m] \in o..b
  BY RisingBetween
<1>3. after \in [Nat -> Nat] /\ \A m \in n..last : after[m] = start[m] - d
  BY <1>1, <1>2 DEF Moved
<1> HIDE DEF after
<1>4. \A k, m \in n..last : k <= m => after[k] <= after[m]
  BY <1>1, <1>2, <1>3
<1>5. n \in n..last /\ last \in n..last
  BY <1>1
<1> QED
  BY <1>1, <1>3, <1>4, <1>5 DEF Rising, after

LEMMA Difference == \A o \in Nat : \A d \in 0..o : o - d \in Nat
OBVIOUS

\* The bytes of a message at place a, after d others have been taken.
LEMMA Shifted ==
    ASSUME NEW o \in Nat, NEW d \in 0..o, NEW b \in Nat, NEW a \in o..b,
           NEW g \in Nat, a + g <= b, NEW i \in 1..g
    PROVE  (a - d) + i \in 1..(b - d) /\ d + ((a - d) + i) = a + i
OBVIOUS

\* A message that is sent lies behind those that are on their way.
LEMMA OneMore ==
    ASSUME NEW messages \in Seq(Texts), NEW bytes \in Seq(Bytes),
           NEW start, NEW n, NEW o \in Nat, Lie(messages, bytes, start, n, o),
           NEW text \in Texts
    PROVE  \E after : Lie(Append(messages, text), bytes \o Frame(text), after, n, o)
<1> DEFINE last == Len(messages) + 1
           b == Len(bytes)
           f == Frame(text)
           c == Len(f)
           all == Append(messages, text)
           more == bytes \o f
           next == Len(all) + 1
           e == Len(more)
           after == Extended(start, next, e)
<1>1. f \in Seq(Bytes) /\ c \in Nat
  BY Framed, Joined
<1>2. /\ all \in Seq(Texts) /\ Len(all) = last /\ last \in Nat /\ all[last] = text
      /\ \A m \in 1..Len(messages) : all[m] = messages[m]
  BY Appended
<1>3. /\ more \in Seq(Bytes) /\ Len(more) = b + c /\ b \in Nat
      /\ \A i \in 1..b : more[i] = bytes[i]
      /\ \A i \in 1..c : more[b + i] = f[i]
  BY <1>1, Joined
<1>4. /\ Rising(start, n, last, o, b)
      /\ \A m \in 1..Len(messages) : messages[m] \in Texts
      /\ \A m \in n..Len(messages) :
           /\ start[m + 1] = start[m] + Len(Frame(messages[m]))
           /\ \A i \in 1..Len(Frame(messages[m])) :
                bytes[start[m] + i] = Frame(messages[m])[i]
  BY ElementIn DEF Lie
<1>5. Len(messages) = last - 1
  BY <1>2, ElementIn
<1>n. next \in Nat /\ next = last + 1
  BY <1>2
<1>e. e \in Nat /\ e = b + c /\ b <= e
  BY <1>1, <1>3
<1> HIDE DEF last, b, c, f, all, more, next, e
<1>6. /\ Rising(after, n, next, o, e)
      /\ \A m \in n..last : after[m] = start[m]
      /\ \A m \in n..last : start[m] \in o..b
  <2>1. last \in Nat /\ b \in Nat /\ Rising(start, n, last, o, b)
    BY <1>2, <1>3, <1>4
  <2>2. \A m \in n..last : start[m] \in o..b
    BY <2>1, RisingBetween
  <2> QED
    BY <1>n, <1>e, <2>1, <2>2, ExtendedRises
<1> HIDE DEF after
<1>7. n \in 1..last /\ start[last] = b /\ after[last + 1] = b + c
  BY <1>n, <1>e, <1>4, <1>6 DEF Rising
<1>8. ASSUME NEW m \in n..last
      PROVE  /\ after[m + 1] = after[m] + Len(Frame(all[m]))
             /\ \A i \in 1..Len(Frame(all[m])) : more[after[m] + i] = Frame(all[m])[i]
  <2>1. CASE m = last
    BY <1>2, <1>3, <1>6, <1>7, <2>1 DEF f, c
  <2>2. CASE m # last
    <3>1. /\ m \in n..(last - 1) /\ m \in 1..(last - 1) /\ m + 1 \in n..last
      BY <1>2, <1>7, <2>2
    <3>2. /\ start[m + 1] = start[m] + Len(Frame(messages[m]))
          /\ \A i \in 1..Len(Frame(messages[m])) :
               bytes[start[m] + i] = Frame(messages[m])[i]
      BY <1>4, <1>5, <3>1
    <3>3. all[m] = messages[m] /\ after[m] = start[m] /\ after[m + 1] = start[m + 1]
      BY <1>2, <1>5, <1>6, <3>1
    <3>4. Len(Frame(messages[m])) \in Nat
      BY <1>4, <1>5, <3>1, Framed, ElementIn
    <3>5. start[m] \in o..b /\ start[m + 1] \in o..b
      BY <1>6, <3>1
    <3>6. \A i \in 1..Len(Frame(messages[m])) : start[m] + i \in 1..b
      <4> DEFINE g == Len(Frame(messages[m]))
      <4> HIDE DEF g
      <4>1. g \in Nat /\ start[m + 1] = start[m] + g
        BY <3>2, <3>4 DEF g
      <4>2. \A i \in 1..g : start[m] + i \in 1..b
        BY <1>3, <3>5, <4>1
      <4> QED
        BY <4>2 DEF g
    <3> QED
      BY <1>3, <3>2, <3>3, <3>6
  <2> QED
    BY <2>1, <2>2
<1>9. Lie(all, more, after, n, o)
  <2>1. Len(all) = last
    BY <1>2
  <2> QED
    BY <1>6, <1>8, <2>1 DEF Lie, next, e
<1> QED
  BY <1>9 DEF all, more, f

\* What is received is taken off the front: all that lies behind it moves up.
LEMMA Taken ==
    ASSUME NEW messages \in Seq(Texts), NEW bytes \in Seq(Bytes),
           NEW start, NEW n, NEW o \in Nat, Lie(messages, bytes, start, n, o),
           NEW d \in 0..o
    PROVE  /\ d <= Len(bytes)
           /\ \E after : Lie(messages, SubSeq(bytes, d + 1, Len(bytes)), after, n, o - d)
<1> DEFINE last == Len(messages) + 1
           b == Len(bytes)
           less == SubSeq(bytes, d + 1, b)
           after == Moved(start, n, last, d)
           p == o - d
           e == Len(less)
<1>1. last \in Nat /\ b \in Nat /\ Len(messages) = last - 1
  BY ElementIn
<1>2. /\ Rising(start, n, last, o, b)
      /\ \A m \in 1..Len(messages) : messages[m] \in Texts
      /\ \A m \in n..Len(messages) :
           /\ start[m + 1] = start[m] + Len(Frame(messages[m]))
           /\ \A i \in 1..Len(Frame(messages[m])) :
                bytes[start[m] + i] = Frame(messages[m])[i]
  BY ElementIn DEF Lie
<1>3. o <= b
  BY <1>1, <1>2, RisingBetween
<1>4. d \in 0..b
  BY <1>1, <1>3
<1>5. /\ less \in Seq(Bytes) /\ e = b - d /\ e \in Nat /\ p \in Nat
      /\ \A i \in 1..(b - d) : less[i] = bytes[d + i]
  <2>1. less \in Seq(Bytes) /\ e = b - d /\ \A i \in 1..(b - d) : less[i] = bytes[d + i]
    BY <1>4, Cut
  <2>2. e \in Nat
    BY <2>1, ElementIn
  <2>3. p \in Nat
    BY Difference
  <2> QED
    BY <2>1, <2>2, <2>3
<1> HIDE DEF last, b, less, p, e
<1>p. /\ Rising(after, n, last, p, e)
      /\ \A m \in n..last : after[m] = start[m] - d
      /\ \A m \in n..last : start[m] \in o..b
  <2>1. last \in Nat /\ b \in Nat /\ Rising(start, n, last, o, b)
    BY <1>1, <1>2
  <2>2. \A m \in n..last : start[m] \in o..b
    BY <2>1, RisingBetween
  <2>3. p = o - d
    BY DEF p
  <2> QED
    BY <1>5, <2>1, <2>2, <2>3, MovedRises
<1> HIDE DEF after
<1>6. n \in 1..last /\ \A m \in n..last : after[m] = start[m] - d
  BY <1>2, <1>p DEF Rising
<1>7. ASSUME NEW m \in n..(last - 1)
      PROVE  /\ after[m + 1] = after[m] + Len(Frame(messages[m]))
             /\ \A i \in 1..Len(Frame(messages[m])) :
                  less[after[m] + i] = Frame(messages[m])[i]
  <2> DEFINE g == Len(Frame(messages[m]))
  <2>1. m \in n..last /\ m + 1 \in n..last /\ m \in 1..(last - 1)
    BY <1>1, <1>6
  <2>2. /\ start[m + 1] = start[m] + g
        /\ \A i \in 1..g : bytes[start[m] + i] = Frame(messages[m])[i]
    BY <1>1, <1>2
  <2>3. g \in Nat
    BY <1>1, <1>2, <2>1, Framed, ElementIn
  <2> HIDE DEF g
  <2>4. /\ start[m] \in o..b /\ start[m + 1] \in o..b
        /\ after[m] = start[m] - d /\ after[m + 1] = start[m + 1] - d
    BY <1>p, <1>6, <2>1
  <2>5. \A i \in 1..g : after[m] + i \in 1..(b - d) /\ d + (after[m] + i) = start[m] + i
    <3>1. start[m] + g <= b
      BY <1>1, <2>2, <2>3, <2>4
    <3>2. \A i \in 1..g : /\ (start[m] - d) + i \in 1..(b - d)
                           /\ d + ((start[m] - d) + i) = start[m] + i
      <4> TAKE i \in 1..g
      <4>1. b \in Nat /\ g \in Nat /\ start[m] \in o..b
        BY <1>1, <2>3, <2>4
      <4> QED
        BY <3>1, <4>1, Shifted
    <3> QED
      BY <2>4, <3>2
  <2>6. after[m + 1] = after[m] + g
    BY <1>1, <2>2, <2>3, <2>4
  <2> QED
    BY <1>5, <2>2, <2>5, <2>6 DEF g
<1>8. Lie(messages, less, after, n, o - d)
  BY <1>1, <1>p, <1>5, <1>7 DEF Lie, last, e, p
<1> QED
  BY <1>4, <1>8 DEF less, b

\* The first message and those behind it.
LEMMA FirstOfThem ==
    ASSUME NEW messages \in Seq(Texts), NEW bytes \in Seq(Bytes),
           NEW n, NEW o \in Nat, FromOn(messages, bytes, n, o), n # Len(messages) + 1
    PROVE  /\ n \in 1..Len(messages)
           /\ o + Len(Frame(messages[n])) \in 0..Len(bytes)
           /\ \A i \in 1..Len(Frame(messages[n])) : bytes[o + i] = Frame(messages[n])[i]
           /\ FromOn(messages, bytes, n + 1, o + Len(Frame(messages[n])))
<1> DEFINE l == Len(messages)
           last == l + 1
           b == Len(bytes)
           next == n + 1
           g == Len(Frame(messages[n]))
           p == o + g
<1>1. PICK start : Lie(messages, bytes, start, n, o)
  BY DEF FromOn
<1>2. /\ Rising(start, n, last, o, b)
      /\ \A m \in n..l :
           /\ start[m + 1] = start[m] + Len(Frame(messages[m]))
           /\ \A i \in 1..Len(Frame(messages[m])) :
                bytes[start[m] + i] = Frame(messages[m])[i]
  BY <1>1 DEF Lie
<1>3. l \in Nat /\ b \in Nat /\ last \in Nat /\ \A m \in 1..l : messages[m] \in Texts
  BY ElementIn
<1>4. n \in 1..last /\ start[n] = o
  BY <1>2 DEF Rising
<1>5. n \in 1..l
  BY <1>3, <1>4
<1>6. g \in Nat
  BY <1>3, <1>5, Framed, ElementIn
<1>7. start[next] = p /\ \A i \in 1..g : bytes[o + i] = Frame(messages[n])[i]
  <2>1. n \in n..l
    BY <1>3, <1>5
  <2> QED
    BY <1>2, <1>4, <2>1
<1> HIDE DEF g, b
<1>8. p \in Nat /\ next \in n..last /\ next \in 1..last
  BY <1>3, <1>5, <1>6
<1>9. start[next] \in o..b
  BY <1>2, <1>3, <1>8, RisingBetween
<1>10. p \in 0..b
  BY <1>3, <1>7, <1>8, <1>9
<1>11. Rising(start, next, last, p, b)
  <2>1. \A m \in next..last : m \in n..last
    BY <1>3, <1>4
  <2>2. /\ start \in [Nat -> Nat] /\ start[last] = b
        /\ \A k, m \in n..last : k <= m => start[k] <= start[m]
    BY <1>2 DEF Rising
  <2> QED
    BY <1>7, <1>8, <2>1, <2>2 DEF Rising
<1>12. \A m \in next..l : m \in n..l
  BY <1>3, <1>5
<1>13. Lie(messages, bytes, start, next, p)
  BY <1>2, <1>11, <1>12 DEF Lie, b
<1> QED
  BY <1>5, <1>7, <1>10, <1>13 DEF FromOn, g, b

-----------------------------------------------------------------------------
(* Steps *)

LEMMA InvInit == Init => Inv
<1> SUFFICES ASSUME Init PROVE Inv
  OBVIOUS
<1>1. /\ sent = <<>> /\ stream = <<>> /\ received = <<>> /\ at = "prefix"
      /\ closed = FALSE /\ checked \in BOOLEAN /\ size = 0 /\ strayed = FALSE
  BY DEF Init
<1>2. Types
  <2>1. /\ <<>> \in Seq(Texts) /\ <<>> \in Seq(Bytes)
        /\ Len(<<>>) = 0 /\ 0 <= MaxMessages
    BY ConstantsAssumption
  <2> QED
    BY <1>1, <2>1 DEF Types
<1>3. Intact
  BY <1>1 DEF Intact
<1>4. FromOn(sent, stream, 1, 0)
  <2> DEFINE start == [m \in Nat |-> 0]
  <2>1. Rising(start, 1, 1, 0, 0)
    BY DEF Rising
  <2> HIDE DEF start
  <2>2. Lie(<<>>, <<>>, start, 1, 0)
    BY <2>1 DEF Lie
  <2> QED
    BY <1>1, <2>2 DEF FromOn
<1> QED
  BY <1>1, <1>2, <1>3, <1>4 DEF Inv, Between

\* Nothing is received by what the writer does.
LEMMA WriteKeeps ==
    ASSUME Types, Between \/ Amid \/ Ended,
           NEW n \in Lengths, Write(n)
    PROVE  Types' /\ (Between' \/ Amid' \/ Ended')
<1> DEFINE text == TextOf(Len(sent) + 1, n)
<1>1. /\ closed = FALSE /\ Len(sent) < MaxMessages
      /\ sent' = Append(sent, text) /\ stream' = stream \o Frame(text)
      /\ UNCHANGED <<closed, checked, at, size, received, strayed>>
  <2>1. Len(sent) + 1 \in 1..MaxMessages
    BY ConstantsAssumption, ElementIn DEF Types, Write
  <2>2. Len(text) = n
    BY <2>1, Texting
  <2> QED
    BY <2>2 DEF Write, Frame, Types
<1>2. text \in Texts
  <2>1. Len(sent) + 1 \in 1..MaxMessages
    BY <1>1, ConstantsAssumption, ElementIn DEF Types
  <2> QED
    BY <2>1, Texting
<1> HIDE DEF text
<1>3. /\ sent' \in Seq(Texts) /\ Len(sent') = Len(sent) + 1 /\ Len(sent) \in Nat
      /\ \A m \in 1..Len(sent) : sent'[m] = sent[m]
  BY <1>1, <1>2, Appended DEF Types
<1>4. Frame(text) \in Seq(Bytes)
  BY <1>2, Framed
<1>5. /\ stream' \in Seq(Bytes) /\ Len(stream) \in Nat /\ Len(stream) <= Len(stream')
      /\ \A i \in 1..Len(stream) : stream'[i] = stream[i]
  <2>1. Len(stream') = Len(stream) + Len(Frame(text)) /\ Len(Frame(text)) \in Nat
    BY <1>1, <1>4, Joined DEF Types
  <2> QED
    BY <1>1, <1>4, <2>1, Joined DEF Types
<1>6. Types'
  BY <1>1, <1>3, <1>5, ConstantsAssumption DEF Types
<1>7. ASSUME NEW k, NEW o \in Nat, FromOn(sent, stream, k, o)
      PROVE  FromOn(sent', stream', k, o)
  BY <1>1, <1>2, <1>7, OneMore DEF FromOn, Types
<1>8. ASSUME Intact PROVE Intact'
  BY <1>1, <1>3, <1>8 DEF Intact
<1>9. CASE Between
  BY <1>1, <1>6, <1>7, <1>8, <1>9 DEF Between
<1>10. CASE Amid
  <2> DEFINE k == Len(received) + 1
  <2>1. /\ Intact /\ k \in 1..Len(sent) /\ k \in 1..Len(sent')
        /\ sent'[k] = sent[k]
    BY <1>3, <1>10 DEF Amid, Intact
  <2>2. /\ size = Len(sent[k]) /\ size <= Len(stream) /\ size \in Nat
        /\ \A i \in 1..size : stream[i] = sent[k][i]
        /\ FromOn(sent, stream, k + 1, size) /\ at = "text"
    BY <1>10 DEF Amid, Types
  <2>3. size <= Len(stream') /\ \A i \in 1..size : stream'[i] = sent[k][i]
    BY <1>5, <2>2, ElementIn DEF Types
  <2>4. FromOn(sent', stream', k + 1, size)
    BY <1>1, <1>7, <2>2
  <2> QED
    BY <1>1, <1>6, <1>8, <2>1, <2>2, <2>3, <2>4 DEF Amid
<1>11. CASE Ended
  BY <1>1, <1>11 DEF Ended
<1> QED
  BY <1>6, <1>9, <1>10, <1>11

LEMMA CloseKeeps ==
    ASSUME Types, Between \/ Amid \/ Ended, Close
    PROVE  Types' /\ (Between' \/ Amid' \/ Ended')
<1>1. closed' = TRUE /\ UNCHANGED <<sent, stream, checked, at, size, received, strayed>>
  BY DEF Close
<1> QED
  BY <1>1 DEF Types, Between, Amid, Ended, Intact

\* What one recv() takes.
LEMMA Receives ==
    ASSUME Types, NEW n \in Nat
    PROVE  /\ stream = <<>> => Received(n) = <<>> /\ Rest(n) = <<>>
           /\ n <= Len(stream) =>
                /\ Received(n) = SubSeq(stream, 1, n)
                /\ Rest(n) = SubSeq(stream, n + 1, Len(stream))
                /\ Received(n) \in Seq(Bytes) /\ Len(Received(n)) = n
                /\ \A i \in 1..n : Received(n)[i] = stream[i]
                /\ Rest(n) \in Seq(Bytes)
                /\ \A i \in 1..(Len(stream) - n) : Rest(n)[i] = stream[n + i]
<1>1. stream \in Seq(Bytes) /\ Len(stream) \in Nat
  BY ElementIn DEF Types
<1>2. CASE stream = <<>>
  <2>1. Len(stream) = 0
    BY <1>2
  <2>2. Received(n) = SubSeq(<<>>, 1, 0)
    BY <1>2, <2>1 DEF Received
  <2>3. Received(n) = <<>>
    BY <2>2
  <2>4. Rest(n) = <<>>
    BY <1>2, <2>1, <2>3 DEF Rest
  <2>5. n <= Len(stream) => n = 0
    BY <2>1
  <2> QED
    BY <1>2, <2>1, <2>2, <2>3, <2>4, <2>5
<1>3. CASE stream # <<>> /\ n <= Len(stream)
  <2>1. n \in 0..Len(stream) /\ (n < Len(stream) \/ n = Len(stream))
    BY <1>1, <1>3
  <2>2. Received(n) = SubSeq(stream, 1, n)
    BY <2>1 DEF Received
  <2>3. /\ Received(n) \in Seq(Bytes) /\ Len(Received(n)) = n
        /\ \A i \in 1..n : Received(n)[i] = stream[i]
    BY <1>1, <2>1, <2>2, Begun
  <2>4. Rest(n) = SubSeq(stream, n + 1, Len(stream))
    BY <2>3 DEF Rest
  <2>5. /\ Rest(n) \in Seq(Bytes)
        /\ \A i \in 1..(Len(stream) - n) : Rest(n)[i] = stream[n + i]
    BY <1>1, <2>1, <2>4, Cut
  <2> QED
    BY <1>3, <2>2, <2>3, <2>4, <2>5
<1> QED
  BY <1>2, <1>3

LEMMA Same ==
    ASSUME NEW S, NEW T, NEW a \in Seq(S), NEW b \in Seq(T), Len(a) = Len(b),
           \A i \in 1..Len(a) : a[i] = b[i]
    PROVE  a = b
OBVIOUS

\* The prefix that comes first is that of the message that comes first.
LEMMA FirstPrefix ==
    ASSUME Types, Between, stream # <<>>
    PROVE  LET n == Len(received) + 1 IN
           /\ n \in 1..Len(sent) /\ sent[n] \in Texts
           /\ Received(Width) # <<>>
           /\ \/ TooLong(Len(sent[n]))
              \/ /\ Received(Width) = Decimal(Len(sent[n]))
                 /\ Len(Received(Width)) = Width
                 /\ Number(Append(Received(Width), <<"text", 1>>)) = Len(sent[n])
                 /\ Rest(Width) \in Seq(Bytes) /\ Len(sent[n]) <= Len(Rest(Width))
                 /\ \A i \in 1..Len(sent[n]) : Rest(Width)[i] = sent[n][i]
                 /\ FromOn(sent, Rest(Width), n + 1, Len(sent[n]))
<1> DEFINE n == Len(received) + 1
           text == sent[n]
           b == Len(stream)
           f == Frame(text)
           c == Len(f)
<1>1. /\ sent \in Seq(Texts) /\ stream \in Seq(Bytes) /\ b \in Nat /\ b # 0
      /\ FromOn(sent, stream, n, 0) /\ Intact /\ n \in Nat
  BY ElementIn DEF Types, Between, Intact
<1>2. n # Len(sent) + 1
  <2> SUFFICES ASSUME n = Len(sent) + 1 PROVE FALSE
    OBVIOUS
  <2>1. PICK start : Lie(sent, stream, start, n, 0)
    BY <1>1 DEF FromOn
  <2> QED
    BY <1>1, <2>1 DEF Lie, Rising
<1> HIDE DEF n
<1>3. /\ n \in 1..Len(sent) /\ 0 + c \in 0..b
      /\ \A i \in 1..c : stream[0 + i] = f[i]
      /\ FromOn(sent, stream, n + 1, 0 + c)
  BY <1>1, <1>2, FirstOfThem
<1>4. text \in Texts /\ text \in Seq(Bytes) /\ Len(text) \in Nat
  BY <1>1, <1>3, ElementIn DEF Texts
<1> HIDE DEF text
<1>5. /\ f \in Seq(Bytes) /\ c > 0 /\ c \in Nat
      /\ \/ TooLong(Len(text))
         \/ /\ c = Width + Len(text) /\ Len(Decimal(Len(text))) = Width
            /\ \A i \in 1..Width : f[i] = Decimal(Len(text))[i]
            /\ \A i \in 1..Len(text) : f[Width + i] = text[i]
            /\ Number(Append(Decimal(Len(text)), <<"text", 1>>)) = Len(text)
  BY <1>4, Framed, ElementIn
<1>6. Width \in Nat /\ Width # 0
  BY ConstantsAssumption
<1>7. Received(Width) # <<>>
  <2>1. CASE Width <= b
    <3>1. Len(Received(Width)) = Width
      BY <1>6, <2>1, Receives
    <3> QED
      BY <1>6, <3>1
  <2>2. CASE ~ (Width <= b)
    <3>1. Received(Width) = SubSeq(stream, 1, b)
      BY <1>1, <1>6, <2>2 DEF Received
    <3>2. Len(SubSeq(stream, 1, b)) = b
      BY <1>1, Begun
    <3> QED
      BY <1>1, <3>1, <3>2
  <2> QED
    BY <2>1, <2>2
<1>8. ASSUME ~ TooLong(Len(text))
      PROVE  /\ Received(Width) = Decimal(Len(text))
             /\ Len(Received(Width)) = Width
             /\ Number(Append(Received(Width), <<"text", 1>>)) = Len(text)
             /\ Rest(Width) \in Seq(Bytes) /\ Len(text) <= Len(Rest(Width))
             /\ \A i \in 1..Len(text) : Rest(Width)[i] = text[i]
             /\ FromOn(sent, Rest(Width), n + 1, Len(text))
  <2> DEFINE q == Len(text)
             digits == Decimal(q)
             rest == Rest(Width)
  <2>1. /\ c = Width + q /\ Len(digits) = Width
        /\ \A i \in 1..Width : f[i] = digits[i]
        /\ \A i \in 1..q : f[Width + i] = text[i]
        /\ Number(Append(digits, <<"text", 1>>)) = q
    BY <1>5, <1>8
  <2>2. digits \in Seq(Digits)
    BY <1>4, PrefixesAreRead DEF Texts
  <2>3. c \in 0..b /\ FromOn(sent, stream, n + 1, c) /\ \A i \in 1..c : stream[i] = f[i]
    BY <1>3, <1>5
  <2> HIDE DEF digits, q, c, b, rest
  <2>4. Width <= b /\ q \in Nat /\ Width \in 0..c /\ c \in Nat /\ c - Width = q
    BY <1>1, <1>4, <1>5, <1>6, <2>1, <2>3 DEF q
  <2>5. /\ Received(Width) \in Seq(Bytes) /\ Len(Received(Width)) = Width
        /\ \A i \in 1..Width : Received(Width)[i] = stream[i]
        /\ rest = SubSeq(stream, Width + 1, b) /\ rest \in Seq(Bytes)
        /\ \A i \in 1..(b - Width) : rest[i] = stream[Width + i]
    BY <1>6, <2>4, Receives DEF b, rest
  <2>6. \A i \in 1..Width : Received(Width)[i] = digits[i]
    BY <1>6, <2>1, <2>3, <2>4, <2>5
  <2>7. Received(Width) = digits
    BY <2>1, <2>2, <2>5, <2>6, Same
  <2>8. FromOn(sent, rest, n + 1, q)
    <3>1. PICK start : Lie(sent, stream, start, n + 1, c)
      BY <2>3 DEF FromOn
    <3> QED
      BY <1>1, <2>4, <2>5, <3>1, Taken DEF FromOn, b
  <2>9. q <= Len(rest) /\ Len(rest) = b - Width
    <3>1. Len(rest) = b - Width
      BY <1>1, <1>6, <2>4, <2>5, Cut DEF b
    <3> QED
      BY <1>1, <1>6, <2>3, <2>4, <3>1
  <2>10. \A i \in 1..q : rest[i] = text[i]
    <3> TAKE i \in 1..q
    <3>1. i \in 1..(b - Width) /\ Width + i \in 1..c
      BY <1>1, <1>6, <2>3, <2>4
    <3> QED
      BY <2>1, <2>3, <2>5, <3>1
  <2> QED
    BY <2>1, <2>5, <2>7, <2>8, <2>9, <2>10 DEF digits, q, rest
<1> QED
  BY <1>3, <1>4, <1>7, <1>8 DEF n, text

\* A prefix is read for what it is, or the reader strays.
LEMMA ReadPrefixKeeps ==
    ASSUME Types, Between \/ Amid \/ Ended, ~ strayed,
           ReadPrefix, ~ strayed'
    PROVE  Types' /\ (Between' \/ Amid' \/ Ended')
<1> DEFINE n == Len(received) + 1
<1>1. /\ Between /\ at = "prefix" /\ Readable
      /\ stream' = Rest(Width) /\ UNCHANGED <<sent, closed, checked, received>>
  BY DEF ReadPrefix, writerVars, Between, Amid, Ended
<1>2. /\ Intact /\ Intact' /\ n' = n
      /\ Width \in Nat /\ Width # 0 /\ strayed' \in BOOLEAN
  BY <1>1, ConstantsAssumption DEF Between, Intact, ReadPrefix, Types
<1>3. CASE stream = <<>>
  <2>1. closed /\ stream' = <<>> /\ Received(Width) = <<>>
    BY <1>1, <1>2, <1>3, Receives DEF Readable
  <2>2. \/ checked /\ at' = "gone" /\ size' = size
        \/ ~ checked /\ at' = "text" /\ size' \in Nat
    <3>1. CASE checked
      BY <1>3, <3>1 DEF ReadPrefix
    <3>2. CASE ~ checked
      <4>1. PICK old \in Stack(Width - Len(Received(Width))), byte \in Behind :
              at' = "text" /\ size' = Number(Append(Received(Width) \o old, byte))
        BY <3>2 DEF ReadPrefix
      <4>2. old \in Stack(Width)
        BY <1>2, <2>1, <4>1
      <4>3. <<>> \o old = old
        BY <1>2, <4>2 DEF Stack
      <4> QED
        BY <2>1, <3>2, <4>1, <4>2, <4>3, StackIsRead
    <3> QED
      BY <3>1, <3>2
  <2>3. Types'
    BY <1>1, <1>2, <1>3, <2>1, <2>2 DEF Types
  <2> QED
    BY <1>1, <1>2, <2>1, <2>2, <2>3 DEF Ended
<1>4. CASE stream # <<>>
  <2> DEFINE text == sent[n]
             prefix == Received(Width)
  <2>1. /\ n \in 1..Len(sent) /\ text \in Texts /\ prefix # <<>>
        /\ \/ TooLong(Len(text))
           \/ /\ prefix = Decimal(Len(text)) /\ Len(prefix) = Width
              /\ Number(Append(prefix, <<"text", 1>>)) = Len(text)
              /\ Rest(Width) \in Seq(Bytes) /\ Len(text) <= Len(Rest(Width))
              /\ \A i \in 1..Len(text) : Rest(Width)[i] = text[i]
              /\ FromOn(sent, Rest(Width), n + 1, Len(text))
    BY <1>1, <1>4, FirstPrefix
  <2>2. PICK old \in Stack(Width - Len(prefix)), byte \in Behind :
          /\ at' = "text" /\ size' = Number(Append(prefix \o old, byte))
          /\ strayed' = (strayed \/ (/\ prefix # <<>>
                                   /\ \/ byte \in Digits
                                      \/ \E m \in DOMAIN sent :
                                           m = n /\ TooLong(Len(sent[m]))))
    BY <1>4 DEF ReadPrefix
  <2>3. byte = <<"text", 1>> /\ ~ TooLong(Len(text))
    <3>1. byte \notin Digits /\ ~ (\E m \in DOMAIN sent : m = n /\ TooLong(Len(sent[m])))
      BY <2>1, <2>2
    <3>2. n \in DOMAIN sent
      BY <2>1 DEF Types
    <3> QED
      BY <3>1, <3>2 DEF Behind
  <2>4. prefix \o old = prefix
    <3>1. prefix \in Seq(Digits)
      BY <2>1, <2>3, PrefixesAreRead, ConstantsAssumption DEF Texts
    <3>2. Width - Len(prefix) = 0
      BY <1>2, <2>1, <2>3
    <3>3. old \in [1..0 -> Bytes]
      BY <2>2, <3>2 DEF Stack
    <3>4. old = <<>>
      BY <3>3
    <3> QED
      BY <3>1, <3>4
  <2>5. size' = Len(text) /\ Len(text) \in Nat
    BY <2>1, <2>2, <2>3, <2>4, ElementIn DEF Texts
  <2>6. Types'
    BY <1>1, <1>2, <2>1, <2>2, <2>3, <2>5 DEF Types
  <2>7. Amid'
    BY <1>1, <1>2, <2>1, <2>2, <2>3, <2>5 DEF Amid
  <2> QED
    BY <2>6, <2>7
<1> QED
  BY <1>3, <1>4

\* The text is the one whose length was read.
LEMMA ReadTextKeeps ==
    ASSUME Types, Between \/ Amid \/ Ended, ~ strayed, ReadText
    PROVE  Types' /\ (Between' \/ Amid' \/ Ended')
<1>1. /\ at = "text" /\ Readable /\ size' = 0
      /\ received' = Append(received, Received(size)) /\ stream' = Rest(size)
      /\ at' = IF ~ checked /\ stream = <<>> THEN "gone" ELSE "prefix"
      /\ UNCHANGED <<sent, closed, checked, strayed>>
  BY DEF ReadText, writerVars
<1>2. size \in Nat /\ received \in Seq(Texts) /\ Intact
  BY <1>1 DEF Types, Between, Amid, Ended, Intact
<1>3. CASE Amid
  <2> DEFINE n == Len(received) + 1
             text == sent[n]
  <2>1. /\ n <= Len(sent) /\ size = Len(text) /\ size <= Len(stream)
        /\ \A i \in 1..size : stream[i] = text[i]
        /\ FromOn(sent, stream, n + 1, size)
    BY <1>3 DEF Amid
  <2>2. /\ n \in 1..Len(sent) /\ n \in Nat /\ text \in Texts /\ text \in Seq(Bytes)
    <3>1. n \in 1..Len(sent) /\ n \in Nat
      BY <1>2, <2>1, ElementIn DEF Types
    <3> QED
      BY <3>1, ElementIn DEF Types, Texts
  <2>3. /\ Received(size) \in Seq(Bytes) /\ Len(Received(size)) = size
        /\ \A i \in 1..size : Received(size)[i] = stream[i]
        /\ stream' = SubSeq(stream, size + 1, Len(stream)) /\ stream' \in Seq(Bytes)
    BY <1>1, <1>2, <2>1, Receives
  <2>4. Received(size) = text
    BY <2>1, <2>2, <2>3, Same
  <2>5. /\ received' \in Seq(Texts) /\ Len(received') = n
        /\ received'[n] = text /\ \A m \in 1..Len(received) : received'[m] = received[m]
    BY <1>1, <1>2, <2>2, <2>4, Appended
  <2>6. Intact'
    <3>1. \A m \in 1..n : m = n \/ m \in 1..Len(received)
      BY <1>2, ElementIn
    <3> QED
      BY <1>1, <1>2, <2>1, <2>5, <3>1 DEF Intact
  <2>7. FromOn(sent, stream', n + 1, 0)
    <3>1. PICK start : Lie(sent, stream, start, n + 1, size)
      BY <2>1 DEF FromOn
    <3>2. size \in 0..size /\ size - size = 0
      BY <1>2
    <3> QED
      BY <1>2, <2>3, <3>1, <3>2, Taken DEF FromOn, Types
  <2>8. Types'
    BY <1>1, <2>3 DEF Types
  <2>9. CASE at' = "gone"
    <3>1. stream = <<>> /\ closed
      BY <1>1, <2>9 DEF Readable
    <3>2. stream' = <<>>
      BY <1>1, <1>2, <3>1, Receives
    <3> QED
      BY <1>1, <2>6, <2>8, <2>9, <3>1, <3>2 DEF Ended
  <2>10. CASE at' = "prefix"
    BY <1>1, <2>5, <2>6, <2>7, <2>8, <2>10 DEF Between
  <2> QED
    BY <1>1, <2>9, <2>10
<1>4. CASE Ended
  <2>1. /\ closed /\ stream = <<>> /\ ~ checked
        /\ stream' = <<>> /\ Received(size) = <<>> /\ at' = "gone"
    BY <1>1, <1>2, <1>4, Receives DEF Ended
  <2>2. Types'
    BY <1>1, <2>1 DEF Types
  <2> QED
    BY <1>1, <1>2, <2>1, <2>2 DEF Ended, Intact
<1> QED
  BY <1>1, <1>3, <1>4 DEF Between

LEMMA InvStep == Inv /\ [Next]_vars => Inv'
<1> SUFFICES ASSUME Inv, [Next]_vars, ~ strayed'
             PROVE  Types' /\ (Between' \/ Amid' \/ Ended')
  BY DEF Inv
<1>1. ~ strayed
  BY DEF Next, Read, Write, Close, ReadPrefix, ReadText, Over, vars
<1>2. Types /\ (Between \/ Amid \/ Ended)
  BY <1>1 DEF Inv
<1>3. ASSUME NEW n \in Lengths, Write(n) PROVE Types' /\ (Between' \/ Amid' \/ Ended')
  BY <1>2, <1>3, WriteKeeps
<1>4. CASE Close
  BY <1>2, <1>4, CloseKeeps
<1>5. CASE ReadPrefix
  BY <1>1, <1>2, <1>5, ReadPrefixKeeps
<1>6. CASE ReadText
  BY <1>1, <1>2, <1>6, ReadTextKeeps
<1>7. CASE UNCHANGED vars
  BY <1>2, <1>7 DEF vars, Types, Between, Amid, Ended, Intact
<1> QED
  BY <1>3, <1>4, <1>5, <1>6, <1>7 DEF Next, Read, Over

-----------------------------------------------------------------------------

LEMMA Invariant == Spec => []Inv
<1>1. Inv /\ [Next]_vars => Inv'
  BY InvStep
<1> QED
  BY <1>1, InvInit, PTL DEF Spec

\* The fields read are the messages sent, whole and in order, whatever the
\* lengths of those before, as long as no prefix is too long or read beyond
\* its end; and but for the empty string that the client makes of the daemon's
\* end.
THEOREM FieldsStayIntact == Spec => []FieldsIntact
<1>1. Inv => FieldsIntact
  <2> SUFFICES ASSUME Inv, ~ strayed PROVE
        \/ IsPrefix(received, sent)
        \/ /\ ~ checked /\ at = "gone"
           /\ IsPrefix(Front(received), sent) /\ Last(received) = <<>>
    BY DEF FieldsIntact
  <2>1. sent \in Seq(Texts)
    BY DEF Inv, Types
  <2>2. ASSUME NEW got \in Seq(Texts), Len(got) <= Len(sent),
               \A m \in 1..Len(got) : got[m] = sent[m]
        PROVE  IsPrefix(got, sent)
    <3>1. /\ Len(got) \in 0..Len(got) /\ Len(got) \in 0..Len(sent) /\ Len(got) \in Nat
      BY <2>1, <2>2, ElementIn
    <3>2. SubSeq(got, 1, Len(got)) = SubSeq(sent, 1, Len(got))
      <4>1. /\ SubSeq(got, 1, Len(got)) \in Seq(Texts)
            /\ SubSeq(sent, 1, Len(got)) \in Seq(Texts)
            /\ Len(SubSeq(got, 1, Len(got))) = Len(got)
            /\ Len(SubSeq(sent, 1, Len(got))) = Len(got)
            /\ \A i \in 1..Len(got) : SubSeq(got, 1, Len(got))[i] = got[i]
            /\ \A i \in 1..Len(got) : SubSeq(sent, 1, Len(got))[i] = sent[i]
        BY <2>1, <3>1, Begun
      <4> QED
        BY <2>2, <4>1, Same
    <3> QED
      BY <2>2, <3>2 DEF IsPrefix
  <2>3. CASE Intact
    BY <2>2, <2>3 DEF Intact
  <2>4. CASE ~ Intact
    <3>1. /\ at = "gone" /\ ~ checked
          /\ \E before \in Seq(Texts) :
               /\ received = Append(before, <<>>) /\ Len(before) <= Len(sent)
               /\ \A m \in 1..Len(before) : before[m] = sent[m]
      BY <2>4 DEF Inv, Between, Amid, Ended
    <3>2. PICK before \in Seq(Texts) :
            /\ received = Append(before, <<>>) /\ Len(before) <= Len(sent)
            /\ \A m \in 1..Len(before) : before[m] = sent[m]
      BY <3>1
    <3>3. Front(received) = before /\ Last(received) = <<>>
      BY <3>2 DEF Front, Last
    <3> QED
      BY <2>2, <3>1, <3>2, <3>3
  <2> QED
    BY <2>3, <2>4
<1> QED
  BY <1>1, Invariant, PTL

\* A reader that has read a prefix, and has to wait, waits for an empty text.
THEOREM OnlyEmptyTextsWait == Spec => []WaitsOnlyForEmpty
<1>1. Inv => WaitsOnlyForEmpty
  <2> SUFFICES ASSUME Inv, ~ strayed, at = "text", ~ Readable PROVE size = 0
    BY DEF WaitsOnlyForEmpty
  <2>1. Amid /\ stream = <<>> /\ size \in Nat
    BY DEF Inv, Types, Between, Ended, Readable
  <2> QED
    BY <2>1 DEF Amid
<1> QED
  BY <1>1, Invariant, PTL
=============================================================================
