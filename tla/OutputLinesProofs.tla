-------------------------- MODULE OutputLinesProofs --------------------------
(***************************************************************************)
(* Theorems about OutputLines, for any servers and any lengths of their    *)
(* texts: the unprotected static variable of strtok() mixes up lines, but  *)
(* leads no callback out of what has been written.                         *)
(***************************************************************************)
EXTENDS OutputLines, WellFoundedInduction, TLAPS

Chars == 0..Junk
Text == [Place -> Chars]

\* From place i on, the text has a terminator before anything unwritten.
Terminated(text, i) ==
    \E e \in Place : /\ e >= i /\ text[e] = Nul
                     /\ \A k \in i..e : text[k] # Junk

Good(p) == Terminated(buf[p[1]], p[2])

\* What the servers write fits into the buffers.
Sizes ==
    /\ written \in [Servers -> Nat]
    /\ \A s \in Servers : written[s] <= Length[s]
    /\ pipe \in [Servers -> Seq(0..MaxText)]
    /\ chunk \in [Servers -> Seq(0..MaxText)]
    /\ \A s \in Servers : Len(pipe[s]) <= written[s] /\ Len(chunk[s]) <= written[s]

Domains ==
    /\ buf \in [Servers -> Text]
    /\ at \in [Servers -> {"loop", "first", "token", "next", "scan", "returned"}]
    /\ tok \in [Servers -> Pointers]
    /\ saved \in Pointers
    /\ alone \in [Servers -> BOOLEAN]

\* Every pointer that strtok() is about to follow leads to a terminator: the
\* start of a buffer that was read, the token, and the static variable as soon
\* as a first token was looked for.
Safe ==
    \A s \in Servers :
      /\ at[s] = "first" => Good(<<s, 1>>)
      /\ at[s] \in {"token", "scan"} => Good(tok[s])
      /\ at[s] \in {"token", "next", "scan"} => Good(saved)

\* From place n on, the buffer still holds what was read; n is where a line
\* may begin.
Unsplit(text, read, n) ==
    /\ n \in 1..(Len(read) + 1)
    /\ n = 1 \/ n = Len(read) + 1 \/ read[n - 1] = End
    /\ \A k \in n..Len(read) : text[k] = read[k]
    /\ text[Len(read) + 1] = Nul

\* A token that has been cut off at place b: a line of what was read, and the
\* only one that begins between there and place n.
Token(text, read, b, n) ==
    \E e \in Place :
      /\ b \in 1..Len(read) /\ IsLine(read, b, e - 1) /\ e <= Len(read) + 1
      /\ text[e] = Nul /\ \A k \in b..(e - 1) : text[k] = read[k]
      /\ n = (IF e = Len(read) + 1 THEN e ELSE e + 1)

LoggedBefore(s, n) == AreLinesBefore(n, chunk[s], logged[s])

\* A callback that has strtok() for itself, from line to line.
InOrder(s) ==
    /\ logged[s] \in Seq(Seq(0..MaxText))
    /\ InCallback(s) => \A t \in Servers \ {s} : ~ InCallback(t)
    /\ at[s] = "first" => Unsplit(buf[s], chunk[s], 1) /\ LoggedBefore(s, 1)
    /\ at[s] \in {"token", "next", "scan"} =>
         saved[1] = s /\ Unsplit(buf[s], chunk[s], saved[2])
    /\ at[s] = "token" =>
         /\ tok[s][1] = s /\ LoggedBefore(s, tok[s][2])
         /\ Token(buf[s], chunk[s], tok[s][2], saved[2])
    /\ at[s] \in {"next", "scan"} => LoggedBefore(s, saved[2])
    /\ at[s] = "scan" => tok[s] = saved
    /\ at[s] = "returned" => LoggedBefore(s, Len(chunk[s]) + 1)

Alone ==
    /\ logged = [s \in Servers |-> logged[s]]
    /\ \A s \in Servers : alone[s] => InOrder(s)

-----------------------------------------------------------------------------
(* Operators *)

\* A set of naturals has a least element, the one that Min returns.
LEMMA MinIsLeast ==
    ASSUME NEW S \in SUBSET Nat, S # {}
    PROVE  Min(S) \in S /\ \A k \in S : Min(S) <= k
<1> DEFINE Less == OpToRel(<, Nat)
<1>1. \A k, m \in Nat : k < m => <<k, m>> \in Less
  BY DEF OpToRel
<1>2. IsWellFoundedOn(Less, Nat)
  BY NatLessThanWellFounded
<1> HIDE DEF Less
<1>3. PICK m \in S : \A k \in S : ~ (<<k, m>> \in Less)
  BY <1>2, WFMin
<1>4. ASSUME NEW k \in S PROVE m <= k
  <2>1. k \in Nat /\ m \in Nat
    OBVIOUS
  <2>2. ~ (k < m)
    BY <1>1, <1>3, <2>1
  <2> QED
    BY <2>1, <2>2
<1> QED
  BY <1>4 DEF Min

\* FirstOf finds the first place that holds one of the characters.
LEMMA FirstOfFinds ==
    ASSUME NEW text, NEW i \in Place, NEW chars,
           NEW e \in Place, e >= i, text[e] \in chars
    PROVE  /\ FirstOf(text, i, chars) \in Place
           /\ FirstOf(text, i, chars) >= i /\ FirstOf(text, i, chars) <= e
           /\ text[FirstOf(text, i, chars)] \in chars
           /\ \A k \in i..(FirstOf(text, i, chars) - 1) : text[k] \notin chars
<1> DEFINE found == {j \in Place : j >= i /\ text[j] \in chars}
<1>1. e \in found /\ found \in SUBSET Nat
  BY ConstantsAssumption DEF Place
<1>2. FirstOf(text, i, chars) = Min(found)
  BY <1>1 DEF FirstOf
<1>3. Min(found) \in found /\ \A k \in found : Min(found) <= k
  BY <1>1, MinIsLeast
<1>4. ASSUME NEW k \in i..(Min(found) - 1) PROVE text[k] \notin chars
  <2>1. k \in Place /\ k >= i /\ ~ (Min(found) <= k)
    BY <1>1, <1>3, ConstantsAssumption DEF Place
  <2> QED
    BY <1>3, <2>1
<1> QED
  BY <1>1, <1>2, <1>3, <1>4

LEMMA ElementIn ==
    ASSUME NEW S, NEW seq \in Seq(S), NEW k \in 1..Len(seq)
    PROVE  seq[k] \in S
OBVIOUS

LEMMA Characters ==
    /\ Nul \in Nat /\ Junk \in Nat /\ Nul # Junk /\ End # Nul /\ End # Junk
    /\ Nul \in Chars /\ 0..MaxText \subseteq Chars /\ Junk \in Chars
    /\ \A c \in Chars : c \notin NotEnd => c = End
    /\ Nul \in NotEnd /\ End \notin NotEnd
    /\ 1 \in Place /\ \A c \in 0..MaxText : c # Junk /\ c # Nul
BY ConstantsAssumption DEF Nul, Junk, End, Chars, NotEnd, Place

\* In a text with a terminator, strtok() stays before it.
LEMMA TokenInText ==
    ASSUME NEW text \in Text, NEW i \in Place, Terminated(text, i)
    PROVE  LET begin == TokenAt(text, i)
               end   == TokenEnd(text, begin)
           IN  /\ begin \in Place /\ Terminated(text, begin)
               /\ end \in Place /\ end >= begin
               /\ \A k \in begin..end : text[k] # Junk
               /\ text[end] \in {End, Nul}
               /\ text[end] # Nul => end + 1 \in Place /\ Terminated(text, end + 1)
<1> DEFINE begin == TokenAt(text, i)
           end == TokenEnd(text, begin)
<1>1. PICK e \in Place : /\ e >= i /\ text[e] = Nul
                         /\ \A k \in i..e : text[k] # Junk
  BY DEF Terminated
<1>2. begin \in Place /\ begin >= i /\ begin <= e
  <2>1. text[e] \in NotEnd
    BY <1>1, Characters
  <2> QED
    BY <1>1, <2>1, FirstOfFinds DEF TokenAt
<1> HIDE DEF begin
<1>3. end \in Place /\ end >= begin /\ end <= e /\ text[end] \in {End, Nul}
  <2>1. text[e] \in {End, Nul}
    BY <1>1
  <2> QED
    BY <1>1, <1>2, <2>1, FirstOfFinds DEF TokenEnd
<1> HIDE DEF end
<1>4. i \in Nat /\ begin \in Nat /\ end \in Nat /\ e \in Nat
  BY <1>2, <1>3, ConstantsAssumption DEF Place
<1>5. \A k \in begin..e : text[k] # Junk
  BY <1>1, <1>2, <1>4
<1>6. Terminated(text, begin)
  BY <1>1, <1>2, <1>5 DEF Terminated
<1>7. \A k \in begin..end : text[k] # Junk
  BY <1>3, <1>4, <1>5
<1>8. ASSUME text[end] # Nul PROVE end + 1 \in Place /\ Terminated(text, end + 1)
  <2>1. end # e
    BY <1>1, <1>8
  <2>2. end + 1 \in Place /\ e >= end + 1
    BY <1>3, <1>4, <2>1, ConstantsAssumption DEF Place
  <2>3. \A k \in (end + 1)..e : text[k] # Junk
    BY <1>3, <1>4, <1>2, <1>5
  <2> QED
    BY <1>1, <2>2, <2>3 DEF Terminated
<1> QED
  BY <1>2, <1>3, <1>6, <1>7, <1>8 DEF begin, end

\* A terminator more does no harm.
LEMMA StaysTerminated ==
    ASSUME NEW text \in Text, NEW i \in Place, Terminated(text, i), NEW n \in Place
    PROVE  Terminated([text EXCEPT ![n] = Nul], i)
<1> DEFINE after == [text EXCEPT ![n] = Nul]
<1>1. PICK e \in Place : /\ e >= i /\ text[e] = Nul
                         /\ \A k \in i..e : text[k] # Junk
  BY DEF Terminated
<1>2. \A k \in Place : after[k] = text[k] \/ after[k] = Nul
  BY DEF Text
<1>3. i..e \subseteq Place
  BY ConstantsAssumption DEF Place
<1> HIDE DEF after
<1>4. after[e] = Nul /\ \A k \in i..e : after[k] # Junk
  BY <1>1, <1>2, <1>3, Characters
<1> QED
  BY <1>1, <1>4 DEF Terminated, after

\* Nor does a text that is read into the buffer, with its terminator.
LEMMA ReadTerminates ==
    ASSUME NEW text \in Text, NEW new \in Seq(0..MaxText), Len(new) <= MaxText,
           NEW after \in Text,
           \A k \in Place : after[k] = IF k <= Len(new) THEN new[k]
                                       ELSE IF k = Len(new) + 1 THEN Nul ELSE text[k],
           NEW i \in Place, i = 1 \/ Terminated(text, i)
    PROVE  Terminated(after, i)
<1>1. /\ Len(new) \in Nat /\ MaxText \in Nat /\ i \in Nat /\ i >= 1
      /\ Len(new) + 1 \in Place
  BY ConstantsAssumption DEF Place
<1>2. CASE i <= Len(new) + 1
  <2>1. after[Len(new) + 1] = Nul
    BY <1>1
  <2>2. ASSUME NEW k \in i..(Len(new) + 1) PROVE after[k] # Junk
    <3>1. k \in Place
      BY <1>1, <2>2 DEF Place
    <3>2. CASE k <= Len(new)
      <4>1. k \in 1..Len(new)
        BY <1>1, <3>1, <3>2 DEF Place
      <4>2. after[k] = new[k]
        BY <3>1, <3>2
      <4>3. new[k] \in 0..MaxText
        BY <4>1, ElementIn
      <4> QED
        BY <4>2, <4>3, Characters
    <3>3. CASE k = Len(new) + 1
      BY <2>1, <3>3, Characters
    <3> QED
      BY <1>1, <2>2, <3>2, <3>3
  <2> QED
    BY <1>1, <1>2, <2>1, <2>2 DEF Terminated
<1>3. CASE i > Len(new) + 1
  <2>1. Terminated(text, i)
    BY <1>1, <1>3
  <2>2. PICK e \in Place : /\ e >= i /\ text[e] = Nul
                           /\ \A k \in i..e : text[k] # Junk
    BY <2>1 DEF Terminated
  <2>3. \A k \in i..e : k \in Place /\ after[k] = text[k]
    BY <1>1, <1>3, <2>2 DEF Place
  <2>4. e \in i..e
    BY <1>1, <2>2 DEF Place
  <2> QED
    BY <2>2, <2>3, <2>4 DEF Terminated
<1> QED
  BY <1>1, <1>2, <1>3

-----------------------------------------------------------------------------
(* Lines *)

\* strtok() cuts the next line off what is still unsplit, or finds none.
LEMMA NextLine ==
    ASSUME NEW text \in Text, NEW read, NEW l \in 0..MaxText, l = Len(read),
           \A k \in 1..l : read[k] \in 0..MaxText,
           NEW p \in Place, Unsplit(text, read, p)
    PROVE  LET b == TokenAt(text, p)
               e == TokenEnd(text, b)
               n == IF text[e] = Nul THEN e ELSE e + 1
               after == [text EXCEPT ![e] = Nul]
           IN  /\ b \in p..(l + 1) /\ \A k \in p..(b - 1) : read[k] = End
               /\ text[b] = Nul => b = l + 1
               /\ text[b] # Nul => Token(after, read, b, n) /\ Unsplit(after, read, n)
<1> DEFINE b == TokenAt(text, p)
           e == TokenEnd(text, b)
           n == IF text[e] = Nul THEN e ELSE e + 1
           after == [text EXCEPT ![e] = Nul]
<1>1. /\ MaxText \in Nat /\ l \in Nat /\ p \in Nat /\ p >= 1 /\ l + 1 \in Place /\ p <= l + 1
      /\ \A k \in 1..(l + 1) : k \in Place
  BY ConstantsAssumption DEF Place, Unsplit
<1>2. /\ p = 1 \/ p = l + 1 \/ read[p - 1] = End
      /\ \A k \in p..l : text[k] = read[k]
      /\ text[l + 1] = Nul
  BY DEF Unsplit
<1>3. \A k \in 1..l : read[k] # Nul /\ read[k] # Junk
  BY Characters
<1>4. /\ b \in Place /\ b >= p /\ b <= l + 1 /\ text[b] \in NotEnd
      /\ \A k \in p..(b - 1) : text[k] \notin NotEnd
  BY <1>1, <1>2, FirstOfFinds, Characters DEF TokenAt
<1> HIDE DEF b
<1>5. ASSUME NEW k \in p..(b - 1) PROVE read[k] = End
  <2>1. k \in p..l /\ k \in Place
    BY <1>1, <1>4, <1>5 DEF Place
  <2>2. text[k] \in Chars /\ text[k] \notin NotEnd
    BY <1>4, <2>1 DEF Text
  <2> QED
    BY <1>2, <2>1, <2>2, Characters
<1>6. b \in p..(l + 1) /\ b \in Nat
  BY <1>1, <1>4 DEF Place
<1>7. text[b] = Nul => b = l + 1
  <2> SUFFICES ASSUME b # l + 1 PROVE text[b] # Nul
    OBVIOUS
  <2>1. b \in p..l /\ b \in 1..l
    BY <1>1, <1>6
  <2> QED
    BY <1>2, <1>3, <2>1
<1>8. ASSUME text[b] # Nul PROVE Token(after, read, b, n) /\ Unsplit(after, read, n)
  <2>1. b # l + 1 /\ b \in 1..l
    BY <1>1, <1>2, <1>6, <1>8
  <2>2. /\ e \in Place /\ e >= b /\ e <= l + 1 /\ text[e] \in {End, Nul}
        /\ \A k \in b..(e - 1) : text[k] \notin {End, Nul}
    <3>1. text[l + 1] \in {End, Nul}
      BY <1>2
    <3> QED
      BY <1>1, <1>4, <3>1, FirstOfFinds DEF TokenEnd
  <2> HIDE DEF e
  <2>3. e # b
    BY <1>4, <1>8, <2>2, Characters
  <2>4. e \in (b + 1)..(l + 1) /\ e \in Nat /\ e - 1 \in b..l
    BY <1>1, <1>6, <2>1, <2>2, <2>3 DEF Place
  <2>5. ASSUME NEW k \in b..(e - 1) PROVE text[k] = read[k] /\ read[k] # End
    <3>1. k \in p..l
      BY <1>1, <1>6, <2>1, <2>4
    <3> QED
      BY <1>2, <2>2, <3>1
  <2>6. e = l + 1 \/ (read[e] = End /\ text[e] # Nul)
    <3> SUFFICES ASSUME e # l + 1 PROVE read[e] = End /\ text[e] # Nul
      OBVIOUS
    <3>1. e \in p..l /\ e \in 1..l
      BY <1>1, <1>6, <2>4
    <3> QED
      BY <1>2, <1>3, <2>2, <3>1
  <2>7. n = IF e = l + 1 THEN e ELSE e + 1
    BY <1>2, <2>6
  <2>8. b = 1 \/ read[b - 1] = End
    <3>1. CASE b = p
      BY <1>2, <2>1, <3>1
    <3>2. CASE b # p
      <4>1. b - 1 \in p..(b - 1)
        BY <1>1, <1>6, <3>2
      <4> QED
        BY <1>5, <4>1
    <3> QED
      BY <3>1, <3>2
  <2>9. IsLine(read, b, e - 1)
    <3>1. b <= e - 1 /\ (e - 1) + 1 = e /\ (e - 1 = l <=> e = l + 1)
      BY <1>1, <1>6, <2>4
    <3> QED
      BY <2>5, <2>6, <2>8, <3>1 DEF IsLine
  <2>10. after[e] = Nul /\ \A k \in Place : k # e => after[k] = text[k]
    BY <2>2 DEF Text
  <2> HIDE DEF after, n
  <2>11. \A k \in b..(e - 1) : after[k] = read[k]
    <3> TAKE k \in b..(e - 1)
    <3>1. k \in Place /\ k # e
      BY <1>1, <2>1, <2>4
    <3> QED
      BY <2>5, <2>10, <3>1
  <2>12. Token(after, read, b, n)
    BY <2>1, <2>2, <2>7, <2>9, <2>10, <2>11 DEF Token
  <2>13. /\ n \in 1..(l + 1) /\ n >= e /\ (n = l + 1 \/ (n = e + 1 /\ read[e] = End))
         /\ (n - 1 = e \/ n = l + 1) /\ \A k \in n..l : k # e
    BY <1>1, <2>1, <2>4, <2>6, <2>7
  <2>14. \A k \in n..l : after[k] = read[k]
    <3> TAKE k \in n..l
    <3>1. k \in Place /\ k \in p..l
      BY <1>1, <1>6, <2>4, <2>13
    <3> QED
      BY <1>2, <2>10, <2>13, <3>1
  <2>15. after[l + 1] = Nul
    BY <1>1, <1>2, <2>10
  <2> QED
    BY <2>12, <2>13, <2>14, <2>15 DEF Unsplit
<1> QED
  BY <1>5, <1>6, <1>7, <1>8 DEF b

\* Line ends begin no line.
LEMMA NoLineThere ==
    ASSUME NEW read, NEW l \in Nat, l = Len(read), NEW lines,
           NEW p \in 1..(l + 1), NEW q \in p..(l + 1), \A k \in p..(q - 1) : read[k] = End,
           AreLinesBefore(p, read, lines)
    PROVE  AreLinesBefore(q, read, lines)
<1>1. PICK first \in [1..Len(lines) -> 1..l] :
        /\ \A h, m \in 1..Len(lines) : h < m => first[h] < first[m]
        /\ \A m \in 1..Len(lines) :
             /\ first[m] < p
             /\ \E j \in 1..l : /\ IsLine(read, first[m], j)
                               /\ lines[m] = SubSeq(read, first[m], j)
        /\ \A i, j \in 1..l :
             IsLine(read, i, j) /\ i < p => \E m \in 1..Len(lines) : first[m] = i
  BY DEF AreLinesBefore
<1>2. ASSUME NEW m \in 1..Len(lines) PROVE first[m] < q
  <2>1. first[m] \in 1..l /\ first[m] < p
    BY <1>1
  <2> QED
    BY <2>1
<1>3. ASSUME NEW i \in 1..l, NEW j \in 1..l, IsLine(read, i, j), i < q
      PROVE  i < p
  <2> SUFFICES ASSUME ~ (i < p) PROVE FALSE
    OBVIOUS
  <2>1. i \in p..(q - 1) /\ i \in i..j
    BY <1>3 DEF IsLine
  <2> QED
    BY <1>3, <2>1 DEF IsLine
<1> QED
  BY <1>1, <1>2, <1>3 DEF AreLinesBefore

LEMMA OneMore ==
    ASSUME NEW c \in Nat, NEW D, NEW first \in [1..c -> D], NEW b \in D
    PROVE  LET then == [m \in 1..(c + 1) |-> IF m = c + 1 THEN b ELSE first[m]] IN
           /\ then \in [1..(c + 1) -> D] /\ then[c + 1] = b
           /\ \A m \in 1..c : then[m] = first[m] /\ m \in 1..(c + 1)
OBVIOUS

LEMMA Piece ==
    ASSUME NEW S, NEW seq \in Seq(S), NEW i \in Nat, NEW j \in Nat,
           1 <= i, i <= j, j <= Len(seq) + 1
    PROVE  /\ SubSeq(seq, i, j - 1) \in Seq(S) /\ Len(SubSeq(seq, i, j - 1)) = j - i
           /\ \A k \in 1..(j - i) : SubSeq(seq, i, j - 1)[k] = seq[i + k - 1]
OBVIOUS

LEMMA Same ==
    ASSUME NEW S, NEW T, NEW a \in Seq(S), NEW b \in Seq(T), Len(a) = Len(b),
           \A i \in 1..Len(a) : a[i] = b[i]
    PROVE  a = b
OBVIOUS

\* The line that was cut off is the one that comes next.
LEMMA OneLineMore ==
    ASSUME NEW read, NEW l \in Nat, l = Len(read), NEW S, NEW lines \in Seq(S),
           NEW b \in 1..l, NEW e \in 1..(l + 1), IsLine(read, b, e - 1),
           NEW n, n = (IF e = l + 1 THEN e ELSE e + 1),
           AreLinesBefore(b, read, lines), SubSeq(read, b, e - 1) \in S
    PROVE  AreLinesBefore(n, read, Append(lines, SubSeq(read, b, e - 1)))
<1> DEFINE c == Len(lines)
           more == Append(lines, SubSeq(read, b, e - 1))
<1>1. PICK first \in [1..c -> 1..l] :
        /\ \A h, m \in 1..c : h < m => first[h] < first[m]
        /\ \A m \in 1..c :
             /\ first[m] < b
             /\ \E j \in 1..l : /\ IsLine(read, first[m], j)
                               /\ lines[m] = SubSeq(read, first[m], j)
        /\ \A i, j \in 1..l :
             IsLine(read, i, j) /\ i < b => \E m \in 1..c : first[m] = i
  BY DEF AreLinesBefore
<1>2. /\ c \in Nat /\ Len(more) = c + 1 /\ more[c + 1] = SubSeq(read, b, e - 1)
      /\ \A m \in 1..c : more[m] = lines[m]
  OBVIOUS
<1> HIDE DEF c, more
<1> DEFINE then == [m \in 1..(c + 1) |-> IF m = c + 1 THEN b ELSE first[m]]
<1>3. /\ then \in [1..(c + 1) -> 1..l] /\ then[c + 1] = b
      /\ \A m \in 1..c : then[m] = first[m] /\ m \in 1..(c + 1)
  BY <1>1, <1>2, OneMore
<1>4. \A m \in 1..(c + 1) : m = c + 1 \/ m \in 1..c
  BY <1>2
<1> HIDE DEF then
<1>5. /\ b <= e - 1 /\ \A k \in b..(e - 1) : read[k] # End
      /\ e = l + 1 \/ read[e] = End
  BY DEF IsLine
<1>6. b < n /\ e - 1 \in 1..l /\ n \in Nat
  BY <1>5
<1>7. ASSUME NEW h \in 1..(c + 1), NEW m \in 1..(c + 1), h < m
      PROVE  then[h] < then[m]
  <2>1. h \in 1..c
    BY <1>2, <1>7
  <2> QED
    BY <1>1, <1>3, <1>4, <1>7, <2>1
<1>8. ASSUME NEW m \in 1..(c + 1)
      PROVE  /\ then[m] < n
             /\ \E j \in 1..l : /\ IsLine(read, then[m], j)
                               /\ more[m] = SubSeq(read, then[m], j)
  <2>1. CASE m = c + 1
    BY <1>2, <1>3, <1>6, <2>1
  <2>2. CASE m \in 1..c
    <3>1. first[m] \in 1..l /\ first[m] < b
      BY <1>1, <2>2
    <3>2. then[m] < n
      BY <1>3, <1>6, <2>2, <3>1
    <3> QED
      BY <1>1, <1>2, <1>3, <2>2, <3>2
  <2> QED
    BY <1>4, <2>1, <2>2
<1>9. ASSUME NEW i \in 1..l, NEW j \in 1..l, IsLine(read, i, j), i < n
      PROVE  \E m \in 1..(c + 1) : then[m] = i
  <2>1. i <= j /\ read[i] # End /\ (i = 1 \/ read[i - 1] = End)
    <3>1. i \in i..j
      BY <1>9 DEF IsLine
    <3> QED
      BY <1>9, <3>1 DEF IsLine
  <2>2. CASE i < b
    BY <1>1, <1>3, <1>9, <2>2
  <2>3. CASE i = b
    <3>1. c + 1 \in 1..(c + 1)
      BY <1>2
    <3> QED
      BY <1>3, <2>3, <3>1
  <2>4. CASE b < i
    <3>1. i = e \/ (i - 1 \in b..(e - 1) /\ i # 1)
      BY <1>6, <1>9, <2>4
    <3>2. i # e
      BY <1>5, <2>1, <1>9
    <3> QED
      BY <1>5, <2>1, <3>1, <3>2
  <2> QED
    BY <2>2, <2>3, <2>4
<1>10. AreLinesBefore(n, read, more)
  <2>1. /\ then \in [1..Len(more) -> 1..Len(read)]
        /\ \A h, m \in 1..Len(more) : h < m => then[h] < then[m]
        /\ \A m \in 1..Len(more) :
             /\ then[m] < n
             /\ \E j \in 1..Len(read) : /\ IsLine(read, then[m], j)
                                       /\ more[m] = SubSeq(read, then[m], j)
        /\ \A i, j \in 1..Len(read) :
             IsLine(read, i, j) /\ i < n => \E m \in 1..Len(more) : then[m] = i
    <3>1. Len(more) = c + 1 /\ Len(read) = l
      BY <1>2
    <3> QED
      BY <1>3, <1>7, <1>8, <1>9, <3>1
  <2> QED
    BY <2>1 DEF AreLinesBefore
<1> QED
  BY <1>10 DEF more

\* What is logged is what was read.
LEMMA StringRead ==
    ASSUME NEW p \in Pointers, buf[p[1]] \in Text, NEW read \in Seq(0..MaxText),
           NEW e \in Place, p[2] <= e, e <= Len(read) + 1,
           buf[p[1]][e] = Nul, \A k \in p[2]..(e - 1) : buf[p[1]][k] = read[k]
    PROVE  /\ StringAt(p) = SubSeq(read, p[2], e - 1)
           /\ SubSeq(read, p[2], e - 1) \in Seq(0..MaxText)
           /\ Len(SubSeq(read, p[2], e - 1)) = e - p[2]
<1> DEFINE text == buf[p[1]]
           b == p[2]
           all == [i \in Place |-> text[i]]
<1>1. b \in Place /\ b \in Nat /\ e \in Nat /\ b >= 1 /\ MaxText \in Nat
  BY ConstantsAssumption DEF Pointers, Place
<1> HIDE DEF b, text
<1>2. \A k \in b..(e - 1) : k \in 1..Len(read) /\ text[k] = read[k]
  BY <1>1, ElementIn DEF text, b
<1>3. FirstOf(text, b, {Nul}) = e
  <2> DEFINE f == FirstOf(text, b, {Nul})
  <2>1. f \in Place /\ f >= b /\ f <= e /\ text[f] \in {Nul}
    BY <1>1, FirstOfFinds DEF text, b
  <2> HIDE DEF f
  <2>2. ASSUME f # e PROVE FALSE
    <3>1. f \in b..(e - 1)
      BY <1>1, <2>1, <2>2 DEF Place
    <3>2. read[f] \in 0..MaxText
      BY <1>2, <3>1, ElementIn
    <3> QED
      BY <1>2, <2>1, <3>1, <3>2, Characters
  <2> QED
    BY <2>2 DEF f
<1>4. StringAt(p) = SubSeq(all, b, e - 1)
  BY <1>3 DEF StringAt, text, b
<1>5. /\ all \in Seq(Chars) /\ Len(all) = MaxText + 1
      /\ \A k \in Place : all[k] = text[k]
  BY <1>1 DEF Place, Text, text
<1> HIDE DEF all
<1> DEFINE mine == SubSeq(all, b, e - 1)
           theirs == SubSeq(read, b, e - 1)
<1>6. b <= e
  BY DEF b
<1>7. /\ mine \in Seq(Chars) /\ Len(mine) = e - b
      /\ \A k \in 1..(e - b) : mine[k] = all[b + k - 1]
  <2>1. e <= Len(all) + 1
    BY <1>1, <1>5 DEF Place
  <2> QED
    BY <1>1, <1>5, <1>6, <2>1, Piece
<1>8. /\ theirs \in Seq(0..MaxText) /\ Len(theirs) = e - b
      /\ \A k \in 1..(e - b) : theirs[k] = read[b + k - 1]
  BY <1>1, <1>6, Piece
<1> HIDE DEF mine, theirs
<1>9. ASSUME NEW k \in 1..(e - b) PROVE mine[k] = theirs[k]
  <2>1. b + k - 1 \in b..(e - 1) /\ b + k - 1 \in Place
    BY <1>1, <1>6 DEF Place
  <2> QED
    BY <1>2, <1>5, <1>7, <1>8, <2>1
<1>10. mine = theirs
  BY <1>7, <1>8, <1>9, Same
<1> QED
  BY <1>4, <1>8, <1>10 DEF mine, theirs, b

-----------------------------------------------------------------------------
(* Steps *)

LEMMA SizesStep == Sizes /\ [Next]_vars => Sizes'
<1> SUFFICES ASSUME Sizes, [Next]_vars PROVE Sizes'
  OBVIOUS
<1> USE DEF history
<1>a. <<>> \in Seq(0..MaxText) /\ Len(<<>>) = 0
  OBVIOUS
<1>1. CASE UNCHANGED <<written, pipe, chunk>>
  BY <1>1 DEF Sizes
<1>2. ASSUME NEW s \in Servers, Output(s) PROVE Sizes'
  <2>1. /\ written[s] < Length[s] /\ Length[s] \in 0..MaxText
        /\ written' = [written EXCEPT ![s] = @ + 1]
    BY <1>2, ConstantsAssumption DEF Output
  <2>2. written[s] \in Nat /\ MaxText \in Nat
    BY ConstantsAssumption DEF Sizes
  <2>3. /\ written' \in [Servers -> Nat] /\ written'[s] = written[s] + 1
        /\ \A t \in Servers : t # s => written'[t] = written[t]
    BY <2>1, <2>2 DEF Sizes
  <2>4. written'[s] \in 0..MaxText /\ End \in 0..MaxText
    BY <2>1, <2>2, <2>3 DEF End
  <2>5. PICK c \in 0..MaxText : pipe' = [pipe EXCEPT ![s] = Append(@, c)]
    BY <1>2, <2>4 DEF Output
  <2>6. /\ Append(pipe[s], c) \in Seq(0..MaxText)
        /\ Len(Append(pipe[s], c)) = Len(pipe[s]) + 1 /\ Len(pipe[s]) \in Nat
    BY DEF Sizes
  <2>7. /\ pipe' \in [Servers -> Seq(0..MaxText)] /\ Len(pipe'[s]) = Len(pipe[s]) + 1
        /\ \A t \in Servers : t # s => pipe'[t] = pipe[t]
    BY <2>5, <2>6 DEF Sizes
  <2>8. chunk' = chunk
    BY <1>2 DEF Output
  <2>9. Len(chunk[s]) \in Nat /\ Len(chunk[s]) <= written[s] /\ Len(pipe[s]) <= written[s]
    BY DEF Sizes
  <2>10. written'[s] <= Length[s] /\ Len(pipe'[s]) <= written'[s] /\ Len(chunk'[s]) <= written'[s]
    BY <2>1, <2>2, <2>3, <2>6, <2>7, <2>8, <2>9
  <2>11. ASSUME NEW t \in Servers
         PROVE  /\ written'[t] <= Length[t] /\ Len(pipe'[t]) <= written'[t]
                /\ Len(chunk'[t]) <= written'[t]
    <3>1. CASE t = s
      BY <2>10, <3>1
    <3>2. CASE t # s
      BY <2>3, <2>7, <2>8, <3>2 DEF Sizes
    <3> QED
      BY <3>1, <3>2
  <2> QED
    BY <2>3, <2>7, <2>8, <2>11 DEF Sizes
<1>3. ASSUME NEW s \in Servers, Read(s) PROVE Sizes'
  <2>1. /\ pipe' = [pipe EXCEPT ![s] = <<>>] /\ chunk' = [chunk EXCEPT ![s] = pipe[s]]
        /\ written' = written
    BY <1>3 DEF Read
  <2> QED
    BY <1>a, <2>1 DEF Sizes
<1>4. ASSUME NEW s \in Servers, Return(s) PROVE Sizes'
  <2>1. chunk' = [chunk EXCEPT ![s] = <<>>] /\ UNCHANGED <<pipe, written>>
    BY <1>4 DEF Return
  <2> QED
    BY <1>a, <2>1 DEF Sizes
<1>5. ASSUME NEW s \in Servers, FirstToken(s) \/ LogLine(s) \/ NextToken(s) \/ Scan(s)
      PROVE  Sizes'
  BY <1>5, <1>1 DEF FirstToken, LogLine, NextToken, Scan
<1> QED
  BY <1>1, <1>2, <1>3, <1>4, <1>5 DEF Next, Callback, AllLogged, vars

\* What strtok() does, given a pointer that leads to a terminator.
LEMMA StrtokStays ==
    ASSUME Domains, NEW s \in Servers, NEW p \in Pointers, Good(p), Strtok(s, p)
    PROVE  /\ buf' \in [Servers -> Text]
           /\ tok' \in [Servers -> Pointers] /\ \A t \in Servers \ {s} : tok'[t] = tok[t]
           /\ saved' \in Pointers /\ Terminated(buf'[saved'[1]], saved'[2])
           /\ \/ at' = [at EXCEPT ![s] = "returned"]
              \/ /\ at' = [at EXCEPT ![s] = "token"]
                 /\ Terminated(buf'[tok'[s][1]], tok'[s][2])
           /\ \A q \in Pointers : Good(q) => Terminated(buf'[q[1]], q[2])
<1> DEFINE o == p[1]
           text == buf[o]
           begin == TokenAt(text, p[2])
           end == TokenEnd(text, begin)
<1>1. o \in Servers /\ p[2] \in Place /\ text \in Text /\ Terminated(text, p[2])
  BY DEF Pointers, Domains, Good
<1>2. /\ begin \in Place /\ Terminated(text, begin)
      /\ end \in Place /\ end >= begin
      /\ \A k \in begin..end : text[k] # Junk
      /\ text[end] # Nul => end + 1 \in Place /\ Terminated(text, end + 1)
  BY <1>1, TokenInText
<1>3. IF text[begin] = Nul
      THEN /\ saved' = <<o, begin>>
           /\ at' = [at EXCEPT ![s] = "returned"]
           /\ UNCHANGED <<buf, tok>>
      ELSE /\ saved' = <<o, IF text[end] = Nul THEN end ELSE end + 1>>
           /\ buf' = [buf EXCEPT ![o][end] = Nul]
           /\ tok' = [tok EXCEPT ![s] = <<o, begin>>]
           /\ at' = [at EXCEPT ![s] = "token"]
  BY Zenon DEF Strtok
<1> DEFINE after == [text EXCEPT ![end] = Nul]
<1> HIDE DEF begin, end
<1>4. CASE text[begin] = Nul
  BY <1>1, <1>2, <1>3, <1>4 DEF Domains, Pointers, Good
<1>5. CASE text[begin] # Nul
  <2>1. /\ saved' = <<o, IF text[end] = Nul THEN end ELSE end + 1>>
        /\ buf' = [buf EXCEPT ![o] = after]
        /\ tok' = [tok EXCEPT ![s] = <<o, begin>>]
        /\ at' = [at EXCEPT ![s] = "token"]
    BY <1>3, <1>5
  <2>2. after \in Text
    BY <1>1, <1>2, Characters DEF Text
  <2>3. \A i \in Place : Terminated(text, i) => Terminated(after, i)
    BY <1>1, <1>2, StaysTerminated
  <2>4. after[end] = Nul
    BY <1>1, <1>2 DEF Text
  <2> HIDE DEF after
  <2>5. buf' \in [Servers -> Text] /\ buf'[o] = after /\ \A t \in Servers \ {o} : buf'[t] = buf[t]
    BY <1>1, <2>1, <2>2 DEF Domains
  <2>6. \A q \in Pointers : Good(q) => Terminated(buf'[q[1]], q[2])
    BY <2>3, <2>5 DEF Good, Pointers
  <2>7. /\ tok' \in [Servers -> Pointers] /\ tok'[s] = <<o, begin>>
        /\ \A t \in Servers \ {s} : tok'[t] = tok[t]
    BY <1>1, <1>2, <2>1 DEF Domains, Pointers
  <2>8. Terminated(buf'[tok'[s][1]], tok'[s][2])
    BY <1>2, <2>3, <2>5, <2>7
  <2>9. saved' \in Pointers /\ Terminated(buf'[saved'[1]], saved'[2])
    <3>1. CASE text[end] = Nul
      <4>1. saved' = <<o, end>>
        BY <2>1, <3>1
      <4>2. Terminated(after, end)
        <5>1. \A k \in end..end : after[k] = Nul
          BY <1>2, <2>4, ConstantsAssumption DEF Place
        <5>2. end >= end /\ Nul # Junk
          BY <1>2, Characters, ConstantsAssumption DEF Place
        <5> QED
          BY <1>2, <2>4, <5>1, <5>2 DEF Terminated
      <4> QED
        BY <1>1, <1>2, <2>5, <4>1, <4>2 DEF Pointers
    <3>2. CASE text[end] # Nul
      <4>1. saved' = <<o, end + 1>>
        BY <2>1, <3>2
      <4>2. end + 1 \in Place /\ Terminated(after, end + 1)
        BY <1>2, <2>3, <3>2
      <4> QED
        BY <1>1, <2>5, <4>1, <4>2 DEF Pointers
    <3> QED
      BY <3>1, <3>2
  <2> QED
    BY <2>1, <2>5, <2>6, <2>7, <2>8, <2>9
<1> QED
  BY <1>4, <1>5

\* A callback reads into its own buffer, whoever points into it.
LEMMA ReadStays ==
    ASSUME Sizes, Domains, NEW s \in Servers, Read(s)
    PROVE  /\ buf' \in [Servers -> Text]
           /\ Terminated(buf'[s], 1)
           /\ \A q \in Pointers : Good(q) => Terminated(buf'[q[1]], q[2])
<1> DEFINE new == pipe[s]
           after == [i \in Place |-> IF i <= Len(new) THEN new[i]
                                     ELSE IF i = Len(new) + 1 THEN Nul
                                     ELSE buf[s][i]]
<1>1. buf' = [buf EXCEPT ![s] = after]
  BY DEF Read
<1>2. /\ new \in Seq(0..MaxText) /\ Len(new) \in Nat /\ Len(new) <= MaxText
      /\ MaxText \in Nat
  BY ConstantsAssumption DEF Sizes
<1>3. buf[s] \in Text
  BY DEF Domains
<1>4. after \in Text
  <2> SUFFICES ASSUME NEW i \in Place PROVE after[i] \in Chars
    BY DEF Text
  <2>1. CASE i <= Len(new)
    <3>1. i \in 1..Len(new)
      BY <1>2, <2>1 DEF Place
    <3>2. new[i] \in 0..MaxText
      BY <1>2, <3>1, ElementIn
    <3> QED
      BY <2>1, <3>2, Characters
  <2>2. CASE ~ (i <= Len(new))
    BY <1>3, <2>2, Characters DEF Text
  <2> QED
    BY <2>1, <2>2
<1>5. \A i \in Place : after[i] = IF i <= Len(new) THEN new[i]
                                  ELSE IF i = Len(new) + 1 THEN Nul ELSE buf[s][i]
  OBVIOUS
<1> HIDE DEF after, new
<1>6. \A i \in Place : i = 1 \/ Terminated(buf[s], i) => Terminated(after, i)
  BY <1>2, <1>3, <1>4, <1>5, ReadTerminates
<1>7. buf' \in [Servers -> Text] /\ buf'[s] = after /\ \A t \in Servers \ {s} : buf'[t] = buf[t]
  BY <1>1, <1>4 DEF Domains
<1> QED
  BY <1>6, <1>7, Characters DEF Good, Pointers

LEMMA SafeStep == Sizes /\ Domains /\ Safe /\ [Next]_vars => Domains' /\ Safe'
<1> SUFFICES ASSUME Sizes, Domains, Safe, [Next]_vars PROVE Domains' /\ Safe'
  OBVIOUS
<1> USE DEF history
<1>a. saved \in Pointers /\ \A t \in Servers : tok[t] \in Pointers /\ <<t, 1>> \in Pointers
  BY Characters DEF Domains, Pointers
\* What does not touch the buffers.
<1>1. CASE UNCHANGED <<buf, at, tok, saved, alone>>
  BY <1>1 DEF Domains, Safe, Good
<1>2. ASSUME NEW s \in Servers, LogLine(s) PROVE Domains' /\ Safe'
  <2>1. at[s] = "token" /\ at' = [at EXCEPT ![s] = "next"] /\ UNCHANGED <<buf, tok, saved, alone>>
    BY <1>2 DEF LogLine
  <2> QED
    BY <2>1 DEF Domains, Safe, Good
<1>3. ASSUME NEW s \in Servers, NextToken(s) PROVE Domains' /\ Safe'
  <2>1. /\ at[s] = "next" /\ at' = [at EXCEPT ![s] = "scan"]
        /\ tok' = [tok EXCEPT ![s] = saved] /\ UNCHANGED <<buf, saved, alone>>
    BY <1>3 DEF NextToken
  <2>2. Domains'
    BY <1>a, <2>1 DEF Domains
  <2>3. Good(saved)
    BY <2>1 DEF Safe
  <2>4. ASSUME NEW t \in Servers
        PROVE  /\ at'[t] = "first" => Terminated(buf[t], 1)
               /\ at'[t] \in {"token", "scan"} => Terminated(buf[tok'[t][1]], tok'[t][2])
    <3>1. CASE t = s
      BY <2>1, <2>3, <3>1 DEF Domains, Good
    <3>2. CASE t # s
      BY <2>1, <3>2 DEF Domains, Safe, Good
    <3> QED
      BY <3>1, <3>2
  <2> QED
    BY <2>1, <2>2, <2>3, <2>4 DEF Safe, Good
<1>4. ASSUME NEW s \in Servers, Return(s) PROVE Domains' /\ Safe'
  <2>1. /\ at' = [at EXCEPT ![s] = "loop"] /\ tok' = [tok EXCEPT ![s] = <<s, 1>>]
        /\ alone' = [alone EXCEPT ![s] = TRUE] /\ UNCHANGED <<buf, saved>>
    BY <1>4 DEF Return
  <2>2. Domains'
    BY <1>a, <2>1 DEF Domains
  <2>3. \A t \in Servers : at'[t] = "loop" \/ (at'[t] = at[t] /\ tok'[t] = tok[t])
    BY <2>1 DEF Domains
  <2> QED
    BY <2>1, <2>2, <2>3 DEF Safe, Good
\* What does.
<1>5. ASSUME NEW s \in Servers, Read(s) PROVE Domains' /\ Safe'
  <2>1. /\ at[s] = "loop" /\ at' = [at EXCEPT ![s] = "first"] /\ UNCHANGED <<tok, saved>>
        /\ alone' = [t \in Servers |->
                       IF t = s THEN {u \in Servers \ {s} : InCallback(u)} = {}
                       ELSE alone[t] /\ t \notin {u \in Servers \ {s} : InCallback(u)}]
    BY <1>5 DEF Read
  <2>2. alone' \in [Servers -> BOOLEAN]
    BY <2>1, Zenon
  <2>3. /\ buf' \in [Servers -> Text]
        /\ Terminated(buf'[s], 1)
        /\ \A q \in Pointers : Good(q) => Terminated(buf'[q[1]], q[2])
    BY <1>5, ReadStays
  <2>4. Domains'
    BY <2>1, <2>2, <2>3 DEF Domains
  <2>5. at'[s] = "first" /\ \A t \in Servers \ {s} : at'[t] = at[t]
    BY <2>1 DEF Domains
  <2>6. ASSUME NEW t \in Servers
        PROVE  /\ at'[t] = "first" => Terminated(buf'[t], 1)
               /\ at'[t] \in {"token", "scan"} => Terminated(buf'[tok[t][1]], tok[t][2])
               /\ at'[t] \in {"token", "next", "scan"} => Terminated(buf'[saved[1]], saved[2])
    <3>1. CASE t = s
      BY <2>3, <2>5, <3>1
    <3>2. CASE t # s
      <4>1. /\ at[t] = "first" => Good(<<t, 1>>)
            /\ at[t] \in {"token", "scan"} => Good(tok[t])
            /\ at[t] \in {"token", "next", "scan"} => Good(saved)
        BY DEF Safe
      <4>2. at'[t] = at[t]
        BY <2>5, <3>2
      <4>3. Good(<<t, 1>>) => Terminated(buf'[t], 1)
        BY <1>a, <2>3
      <4> QED
        BY <1>a, <2>3, <4>1, <4>2, <4>3
    <3> QED
      BY <3>1, <3>2
  <2> QED
    BY <2>1, <2>4, <2>6 DEF Safe, Good
<1>6. ASSUME NEW s \in Servers, NEW p \in Pointers, Good(p), Strtok(s, p), alone' = alone
      PROVE  Domains' /\ Safe'
  <2>1. /\ buf' \in [Servers -> Text]
        /\ tok' \in [Servers -> Pointers] /\ \A t \in Servers \ {s} : tok'[t] = tok[t]
        /\ saved' \in Pointers /\ Terminated(buf'[saved'[1]], saved'[2])
        /\ \/ at' = [at EXCEPT ![s] = "returned"]
           \/ /\ at' = [at EXCEPT ![s] = "token"]
              /\ Terminated(buf'[tok'[s][1]], tok'[s][2])
        /\ \A q \in Pointers : Good(q) => Terminated(buf'[q[1]], q[2])
    BY <1>6, StrtokStays
  <2>2. Domains'
    BY <1>6, <2>1 DEF Domains
  <2>3. /\ at'[s] = "returned" \/ (at'[s] = "token" /\ Terminated(buf'[tok'[s][1]], tok'[s][2]))
        /\ \A t \in Servers \ {s} : at'[t] = at[t]
    BY <2>1 DEF Domains
  <2>4. ASSUME NEW t \in Servers
        PROVE  /\ at'[t] = "first" => Terminated(buf'[t], 1)
               /\ at'[t] \in {"token", "scan"} => Terminated(buf'[tok'[t][1]], tok'[t][2])
    <3>1. CASE t = s
      BY <2>3, <3>1
    <3>2. CASE t # s
      <4>1. /\ at[t] = "first" => Good(<<t, 1>>)
            /\ at[t] \in {"token", "scan"} => Good(tok[t])
        BY DEF Safe
      <4>2. at'[t] = at[t] /\ tok'[t] = tok[t]
        BY <2>1, <2>3, <3>2
      <4>3. Good(<<t, 1>>) => Terminated(buf'[t], 1)
        BY <1>a, <2>1
      <4> QED
        BY <1>a, <2>1, <4>1, <4>2, <4>3
    <3> QED
      BY <3>1, <3>2
  <2> QED
    BY <2>1, <2>2, <2>4 DEF Safe, Good
<1>7. ASSUME NEW s \in Servers, FirstToken(s) PROVE Domains' /\ Safe'
  <2>1. at[s] = "first" /\ Strtok(s, <<s, 1>>) /\ alone' = alone
    BY <1>7 DEF FirstToken
  <2>2. Good(<<s, 1>>) /\ <<s, 1>> \in Pointers
    BY <1>a, <2>1 DEF Safe
  <2> QED
    BY <1>6, <2>1, <2>2
<1>8. ASSUME NEW s \in Servers, Scan(s) PROVE Domains' /\ Safe'
  <2>1. at[s] = "scan" /\ Strtok(s, tok[s]) /\ alone' = alone
    BY <1>8 DEF Scan
  <2>2. Good(tok[s]) /\ tok[s] \in Pointers
    BY <1>a, <2>1 DEF Safe
  <2> QED
    BY <1>6, <2>1, <2>2
<1> QED
  BY <1>1, <1>2, <1>3, <1>4, <1>5, <1>7, <1>8 DEF Next, Callback, Output, AllLogged, vars

-----------------------------------------------------------------------------
(* A callback that runs alone *)

LEMMA ChunkIsText ==
    ASSUME Sizes, NEW s \in Servers
    PROVE  /\ chunk[s] \in Seq(0..MaxText) /\ Len(chunk[s]) \in 0..MaxText
           /\ \A k \in 1..Len(chunk[s]) : chunk[s][k] \in 0..MaxText
           /\ pipe[s] \in Seq(0..MaxText) /\ Len(pipe[s]) \in 0..MaxText
           /\ \A k \in 1..Len(pipe[s]) : pipe[s][k] \in 0..MaxText
<1>1. /\ chunk[s] \in Seq(0..MaxText) /\ Len(chunk[s]) <= written[s]
      /\ pipe[s] \in Seq(0..MaxText) /\ Len(pipe[s]) <= written[s]
      /\ written[s] \in Nat /\ written[s] <= Length[s] /\ Length[s] \in 0..MaxText
  BY ConstantsAssumption DEF Sizes
<1>2. Len(chunk[s]) \in Nat /\ Len(pipe[s]) \in Nat
  BY <1>1
<1>3. Len(chunk[s]) \in 0..MaxText /\ Len(pipe[s]) \in 0..MaxText
  BY <1>1, <1>2, ConstantsAssumption
<1> QED
  BY <1>1, <1>3, ElementIn

\* strtok(), by a callback whose lines have been logged up to where it goes on.
LEMMA StrtokInOrder ==
    ASSUME Sizes, Domains, NEW s \in Servers, NEW p \in Pointers, p[1] = s,
           Unsplit(buf[s], chunk[s], p[2]), LoggedBefore(s, p[2]), Strtok(s, p)
    PROVE  \/ /\ at'[s] = "returned"
              /\ LoggedBefore(s, Len(chunk[s]) + 1)
           \/ /\ at'[s] = "token" /\ saved'[1] = s /\ tok'[s][1] = s
              /\ Unsplit(buf'[s], chunk[s], saved'[2])
              /\ Token(buf'[s], chunk[s], tok'[s][2], saved'[2])
              /\ LoggedBefore(s, tok'[s][2])
<1> DEFINE text == buf[s]
           read == chunk[s]
           l == Len(read)
           b == TokenAt(text, p[2])
           e == TokenEnd(text, b)
           n == IF text[e] = Nul THEN e ELSE e + 1
           after == [text EXCEPT ![e] = Nul]
<1>1. text \in Text /\ p[2] \in Place /\ at \in [Servers -> {"loop", "first", "token", "next", "scan", "returned"}]
  BY DEF Domains, Pointers
<1>2. l \in 0..MaxText /\ l \in Nat /\ \A k \in 1..l : read[k] \in 0..MaxText
  BY ChunkIsText, ConstantsAssumption
<1>3. IF text[b] = Nul
      THEN /\ saved' = <<s, b>>
           /\ at' = [at EXCEPT ![s] = "returned"]
           /\ UNCHANGED <<buf, tok>>
      ELSE /\ saved' = <<s, n>>
           /\ buf' = [buf EXCEPT ![s] = after]
           /\ tok' = [tok EXCEPT ![s] = <<s, b>>]
           /\ at' = [at EXCEPT ![s] = "token"]
  BY Zenon DEF Strtok
<1>4. /\ b \in p[2]..(l + 1) /\ \A k \in p[2]..(b - 1) : read[k] = End
      /\ text[b] = Nul => b = l + 1
      /\ text[b] # Nul => Token(after, read, b, n) /\ Unsplit(after, read, n)
  BY <1>1, <1>2, NextLine
<1> HIDE DEF b, after, n
<1>5. LoggedBefore(s, b)
  <2>1. p[2] \in 1..(l + 1)
    BY DEF Unsplit
  <2> QED
    BY <1>2, <1>4, <2>1, NoLineThere DEF LoggedBefore
<1>6. CASE text[b] = Nul
  <2>1. at'[s] = "returned"
    BY <1>1, <1>3, <1>6
  <2> QED
    BY <1>4, <1>5, <1>6, <2>1
<1>7. CASE text[b] # Nul
  <2>1. /\ saved' = <<s, n>> /\ buf'[s] = after /\ tok'[s] = <<s, b>> /\ at'[s] = "token"
    BY <1>1, <1>3, <1>7 DEF Domains
  <2> QED
    BY <1>4, <1>5, <1>7, <2>1
<1> QED
  BY <1>6, <1>7

\* Who is alone in his callback is not there while another one's goes on.
LEMMA OthersInOrder ==
    ASSUME Alone, NEW t \in Servers, NEW s \in Servers \ {t}, alone[s],
           InCallback(t), UNCHANGED <<at[s], chunk[s], logged[s]>>
    PROVE  InOrder(s)'
<1>1. InOrder(s) /\ ~ InCallback(s)
  BY DEF Alone, InOrder
<1> QED
  BY <1>1 DEF InOrder, InCallback, LoggedBefore

LEMMA LogLineInOrder ==
    ASSUME Sizes, Domains, NEW s \in Servers, InOrder(s), LogLine(s),
           logged = [t \in Servers |-> logged[t]]
    PROVE  /\ logged'[s] \in Seq(Seq(0..MaxText))
           /\ AreLinesBefore(saved[2], chunk[s], logged'[s])
<1> DEFINE read == chunk[s]
           l == Len(read)
           b == tok[s][2]
           n == saved[2]
<1>1. /\ at[s] = "token" /\ tok[s][1] = s /\ tok[s] \in Pointers /\ buf[s] \in Text
      /\ AreLinesBefore(b, read, logged[s]) /\ Token(buf[s], read, b, n)
      /\ logged[s] \in Seq(Seq(0..MaxText))
  BY DEF LogLine, InOrder, LoggedBefore, Domains
<1>2. read \in Seq(0..MaxText) /\ l \in Nat
  BY ChunkIsText, ConstantsAssumption
<1>3. PICK e \in Place :
        /\ b \in 1..l /\ IsLine(read, b, e - 1) /\ e <= l + 1
        /\ buf[s][e] = Nul /\ \A k \in b..(e - 1) : buf[s][k] = read[k]
        /\ n = (IF e = l + 1 THEN e ELSE e + 1)
  BY <1>1 DEF Token
<1>4. e \in 1..(l + 1) /\ b < e /\ b <= e /\ e \in Nat /\ b \in Nat
  <2>1. b <= e - 1
    BY <1>3 DEF IsLine
  <2> QED
    BY <1>2, <1>3, <2>1, ConstantsAssumption DEF Place
<1> DEFINE line == SubSeq(read, b, e - 1)
<1>5. StringAt(tok[s]) = line /\ line \in Seq(0..MaxText) /\ Len(line) = e - b
  <2> DEFINE p == tok[s]
  <2>1. /\ p \in Pointers /\ buf[p[1]] \in Text /\ p[2] <= e /\ e <= Len(read) + 1
        /\ buf[p[1]][e] = Nul /\ \A k \in p[2]..(e - 1) : buf[p[1]][k] = read[k]
    BY <1>1, <1>3, <1>4
  <2> HIDE DEF p, read
  <2>2. /\ StringAt(p) = SubSeq(read, p[2], e - 1)
        /\ SubSeq(read, p[2], e - 1) \in Seq(0..MaxText)
        /\ Len(SubSeq(read, p[2], e - 1)) = e - p[2]
    BY <1>2, <2>1, StringRead
  <2> QED
    BY <2>2 DEF p, read
<1> HIDE DEF line
<1>6. line # <<>>
  <2>1. Len(line) # 0
    BY <1>4, <1>5
  <2> QED
    BY <2>1
<1>7. logged'[s] = Append(logged[s], line)
  <2>1. logged' = IF StringAt(tok[s]) = <<>> THEN logged
                  ELSE [logged EXCEPT ![s] = Append(@, StringAt(tok[s]))]
    BY DEF LogLine
  <2>2. logged' = [logged EXCEPT ![s] = Append(@, line)]
    BY <1>5, <1>6, <2>1
  <2> QED
    BY <2>2
<1>8. AreLinesBefore(n, read, Append(logged[s], line))
  BY <1>1, <1>2, <1>3, <1>4, <1>5, OneLineMore DEF line
<1>9. Append(logged[s], line) \in Seq(Seq(0..MaxText))
  BY <1>1, <1>5
<1> QED
  BY <1>7, <1>8, <1>9

LEMMA AloneStep == Sizes /\ Domains /\ Alone /\ [Next]_vars => Alone'
<1> SUFFICES ASSUME Sizes, Domains, Alone, [Next]_vars PROVE Alone'
  OBVIOUS
<1> USE DEF history
<1>a. /\ logged = [s \in Servers |-> logged[s]]
      /\ \A s \in Servers : alone[s] => InOrder(s)
      /\ at \in [Servers -> {"loop", "first", "token", "next", "scan", "returned"}]
  BY DEF Alone, Domains
<1>1. CASE UNCHANGED <<buf, at, tok, saved, history>>
  BY <1>1, <1>a DEF Alone, InOrder, InCallback, LoggedBefore
<1>2. ASSUME NEW t \in Servers, Read(t) PROVE Alone'
  <2> DEFINE others == {u \in Servers \ {t} : InCallback(u)}
  <2>1. /\ at[t] = "loop" /\ at' = [at EXCEPT ![t] = "first"]
        /\ chunk' = [chunk EXCEPT ![t] = pipe[t]] /\ logged' = [logged EXCEPT ![t] = <<>>]
        /\ alone' = [u \in Servers |-> IF u = t THEN others = {} ELSE alone[u] /\ u \notin others]
    BY <1>2 DEF Read
  <2>2. /\ at'[t] = "first" /\ chunk'[t] = pipe[t] /\ logged'[t] = <<>>
        /\ \A u \in Servers \ {t} : /\ at'[u] = at[u] /\ chunk'[u] = chunk[u]
                                     /\ logged'[u] = logged[u]
        /\ logged' = [u \in Servers |-> logged'[u]]
    BY <1>a, <2>1 DEF Sizes
  <2>3. ASSUME alone'[t] PROVE InOrder(t)'
    <3>1. \A u \in Servers \ {t} : ~ InCallback(u)'
      BY <2>1, <2>2, <2>3 DEF InCallback
    <3>2. Unsplit(buf'[t], pipe[t], 1)
      <4> DEFINE read == pipe[t]
                 len == Len(read)
      <4>1. /\ len \in 0..MaxText /\ len \in Nat /\ MaxText \in Nat
            /\ buf' = [buf EXCEPT ![t] = [i \in Place |-> IF i <= len THEN read[i]
                                                         ELSE IF i = len + 1 THEN Nul
                                                         ELSE buf[t][i]]]
        BY <1>2, ChunkIsText, ConstantsAssumption DEF Read
      <4> HIDE DEF read, len
      <4>2. \A i \in Place : buf'[t][i] = IF i <= len THEN read[i]
                                          ELSE IF i = len + 1 THEN Nul ELSE buf[t][i]
        BY <4>1 DEF Domains
      <4>3. \A k \in 1..len : k \in Place /\ k <= len
        BY <4>1 DEF Place
      <4>4. len + 1 \in Place /\ ~ (len + 1 <= len) /\ 1 \in 1..(len + 1)
        BY <4>1 DEF Place
      <4>5. (\A k \in 1..len : buf'[t][k] = read[k]) /\ buf'[t][len + 1] = Nul
        BY <4>2, <4>3, <4>4
      <4> QED
        BY <4>4, <4>5 DEF Unsplit, len, read
    <3>3. AreLinesBefore(1, pipe[t], <<>>)
      <4> DEFINE l == Len(pipe[t])
      <4>0. l \in Nat
        BY ChunkIsText, ConstantsAssumption
      <4> HIDE DEF l
      <4>1. PICK first : first \in [1..0 -> 1..l]
        <5>1. [m \in 1..0 |-> 1] \in [1..0 -> 1..l]
          OBVIOUS
        <5> QED
          BY <5>1
      <4>2. Len(<<>>) = 0 /\ \A m \in 1..0 : FALSE
        OBVIOUS
      <4>3. \A i \in 1..l : ~ (i < 1)
        BY <4>0
      <4> QED
        BY <4>1, <4>2, <4>3 DEF AreLinesBefore, l
    <3>4. <<>> \in Seq(Seq(0..MaxText))
      OBVIOUS
    <3> QED
      BY <2>2, <3>1, <3>2, <3>3, <3>4 DEF InOrder, LoggedBefore
  <2>4. ASSUME NEW s \in Servers \ {t}, alone'[s] PROVE InOrder(s)'
    <3>1. alone[s] /\ ~ InCallback(s) /\ InOrder(s)
      BY <1>a, <2>1, <2>4
    <3> QED
      BY <2>2, <3>1 DEF InOrder, InCallback, LoggedBefore
  <2> QED
    BY <2>2, <2>3, <2>4 DEF Alone
<1>3. ASSUME NEW t \in Servers, Return(t) PROVE Alone'
  <2>1. /\ at' = [at EXCEPT ![t] = "loop"] /\ tok' = [tok EXCEPT ![t] = <<t, 1>>]
        /\ chunk' = [chunk EXCEPT ![t] = <<>>] /\ logged' = [logged EXCEPT ![t] = <<>>]
        /\ alone' = [alone EXCEPT ![t] = TRUE] /\ UNCHANGED <<buf, saved>>
    BY <1>3 DEF Return
  <2>2. /\ at'[t] = "loop" /\ logged'[t] = <<>>
        /\ \A u \in Servers \ {t} : /\ at'[u] = at[u] /\ chunk'[u] = chunk[u]
                                     /\ logged'[u] = logged[u] /\ tok'[u] = tok[u]
                                     /\ alone'[u] = alone[u]
        /\ logged' = [u \in Servers |-> logged'[u]]
    BY <1>a, <2>1 DEF Sizes, Domains
  <2>3. InOrder(t)'
    <3>1. <<>> \in Seq(Seq(0..MaxText))
      OBVIOUS
    <3> QED
      BY <2>2, <3>1 DEF InOrder, InCallback
  <2>4. ASSUME NEW s \in Servers \ {t}, alone'[s] PROVE InOrder(s)'
    <3>1. InOrder(s)
      BY <1>a, <2>2, <2>4
    <3> QED
      BY <2>1, <2>2, <3>1 DEF InOrder, InCallback, LoggedBefore
  <2> QED
    BY <2>2, <2>3, <2>4 DEF Alone
\* The steps within a callback leave the callbacks of the others alone.
<1>4. ASSUME NEW t \in Servers, InCallback(t), UNCHANGED <<chunk, alone>>,
             \A u \in Servers \ {t} : at'[u] = at[u] /\ logged'[u] = logged[u],
             logged' = [u \in Servers |-> logged'[u]], alone[t] => InOrder(t)'
      PROVE  Alone'
  BY <1>4, OthersInOrder DEF Alone
<1>5. ASSUME NEW t \in Servers, LogLine(t) PROVE Alone'
  <2>1. /\ at[t] = "token" /\ at' = [at EXCEPT ![t] = "next"]
        /\ UNCHANGED <<buf, tok, saved, chunk, alone>>
        /\ \/ logged' = logged
           \/ logged' = [logged EXCEPT ![t] = Append(@, StringAt(tok[t]))]
    BY <1>5 DEF LogLine
  <2>2. /\ at'[t] = "next" /\ \A u \in Servers \ {t} : at'[u] = at[u] /\ logged'[u] = logged[u]
        /\ logged' = [u \in Servers |-> logged'[u]]
    BY <1>a, <2>1
  <2>3. ASSUME alone[t] PROVE InOrder(t)'
    <3>1. InOrder(t)
      BY <1>a, <2>3
    <3>2. /\ logged'[t] \in Seq(Seq(0..MaxText))
          /\ AreLinesBefore(saved[2], chunk[t], logged'[t])
      BY <1>5, <1>a, <3>1, LogLineInOrder
    <3> QED
      BY <2>1, <2>2, <3>1, <3>2 DEF InOrder, InCallback, LoggedBefore
  <2> QED
    BY <1>4, <2>1, <2>2, <2>3 DEF InCallback
<1>6. ASSUME NEW t \in Servers, NextToken(t) PROVE Alone'
  <2>1. /\ at[t] = "next" /\ at' = [at EXCEPT ![t] = "scan"]
        /\ tok' = [tok EXCEPT ![t] = saved] /\ UNCHANGED <<buf, saved, chunk, logged, alone>>
    BY <1>6 DEF NextToken
  <2>2. /\ at'[t] = "scan" /\ tok'[t] = saved /\ \A u \in Servers \ {t} : at'[u] = at[u]
    BY <2>1 DEF Domains
  <2>3. ASSUME alone[t] PROVE InOrder(t)'
    BY <1>a, <2>1, <2>2, <2>3 DEF InOrder, InCallback, LoggedBefore
  <2> QED
    BY <1>4, <1>a, <2>1, <2>2, <2>3 DEF InCallback
<1>7. ASSUME NEW t \in Servers, NEW p \in Pointers, Strtok(t, p), InCallback(t),
             UNCHANGED <<chunk, logged, alone>>,
             alone[t] => /\ p[1] = t /\ Unsplit(buf[t], chunk[t], p[2])
                         /\ LoggedBefore(t, p[2])
      PROVE  Alone'
  <2>1. \A u \in Servers \ {t} : at'[u] = at[u]
    BY <1>7, <1>a DEF Strtok
  <2>2. ASSUME alone[t] PROVE InOrder(t)'
    <3>1. InOrder(t)
      BY <1>a, <2>2
    <3>2. \/ /\ at'[t] = "returned"
             /\ LoggedBefore(t, Len(chunk[t]) + 1)
          \/ /\ at'[t] = "token" /\ saved'[1] = t /\ tok'[t][1] = t
             /\ Unsplit(buf'[t], chunk[t], saved'[2])
             /\ Token(buf'[t], chunk[t], tok'[t][2], saved'[2])
             /\ LoggedBefore(t, tok'[t][2])
      BY <1>7, <2>2, StrtokInOrder
    <3>3. \A u \in Servers \ {t} : ~ InCallback(u)'
      BY <1>7, <2>1, <3>1 DEF InOrder, InCallback
    <3>4. logged[t] \in Seq(Seq(0..MaxText))
      BY <3>1 DEF InOrder
    <3> QED
      BY <1>7, <3>2, <3>3, <3>4 DEF InOrder, LoggedBefore
  <2> QED
    BY <1>4, <1>7, <1>a, <2>1, <2>2
<1>8. ASSUME NEW t \in Servers, FirstToken(t) PROVE Alone'
  <2>1. at[t] = "first" /\ Strtok(t, <<t, 1>>) /\ UNCHANGED <<chunk, logged, alone>>
    BY <1>8 DEF FirstToken
  <2>2. <<t, 1>> \in Pointers
    BY Characters DEF Pointers
  <2>3. alone[t] => Unsplit(buf[t], chunk[t], 1) /\ LoggedBefore(t, 1)
    BY <1>a, <2>1 DEF InOrder
  <2> QED
    BY <1>7, <2>1, <2>2, <2>3 DEF InCallback
<1>9. ASSUME NEW t \in Servers, Scan(t) PROVE Alone'
  <2>1. at[t] = "scan" /\ Strtok(t, tok[t]) /\ UNCHANGED <<chunk, logged, alone>>
    BY <1>9 DEF Scan
  <2>2. tok[t] \in Pointers
    BY DEF Domains
  <2>3. alone[t] => /\ tok[t][1] = t /\ Unsplit(buf[t], chunk[t], tok[t][2])
                    /\ LoggedBefore(t, tok[t][2])
    BY <1>a, <2>1 DEF InOrder
  <2> QED
    BY <1>7, <2>1, <2>2, <2>3 DEF InCallback
<1> QED
  BY <1>1, <1>2, <1>3, <1>5, <1>6, <1>8, <1>9 DEF Next, Callback, Output, AllLogged, vars

-----------------------------------------------------------------------------

Inv == Sizes /\ Domains /\ Safe /\ Alone

LEMMA InvInit == Init => Inv
<1> SUFFICES ASSUME Init PROVE Inv
  OBVIOUS
<1>1. Sizes
  <2>1. <<>> \in Seq(0..MaxText) /\ Len(<<>>) = 0 /\ \A s \in Servers : 0 <= Length[s]
    BY ConstantsAssumption
  <2> QED
    BY <2>1 DEF Init, Sizes
<1>2. Domains
  BY Characters DEF Init, Domains, Text, Pointers
<1>3. Safe
  BY DEF Init, Safe
<1>4. Alone
  <2>1. <<>> \in Seq(Seq(0..MaxText)) /\ logged = [s \in Servers |-> <<>>]
    BY DEF Init
  <2> QED
    BY <2>1 DEF Init, Alone, InOrder, InCallback
<1> QED
  BY <1>1, <1>2, <1>3, <1>4 DEF Inv

LEMMA Invariant == Spec => []Inv
<1>1. Inv /\ [Next]_vars => Inv'
  BY SizesStep, SafeStep, AloneStep DEF Inv
<1> QED
  BY <1>1, InvInit, PTL DEF Spec

\* Every variable stays in its domain: whatever the other callbacks do to the
\* static variable of strtok(), no pointer leaves the buffer it points into.
THEOREM PointersInBuffers == Spec => []TypeOK
<1>1. Inv => TypeOK
  <2> SUFFICES ASSUME Inv PROVE TypeOK
    OBVIOUS
  <2>1. \A s \in Servers : written[s] \in 0..Length[s]
    BY ConstantsAssumption DEF Inv, Sizes
  <2> QED
    BY <2>1 DEF Inv, Sizes, Domains, Text, Chars, TypeOK
<1> QED
  BY <1>1, Invariant, PTL

\* A callback that strtok() has sent into another thread's text still finds a
\* terminator there before anything that nobody has written.
THEOREM NobodyReadsBeyond == Spec => []StaysInText
<1>1. Inv => StaysInText
  BY DEF Inv, Safe, Good, Terminated, StaysInText
<1> QED
  BY <1>1, Invariant, PTL

\* A callback that has strtok() for itself logs exactly the lines of what it
\* read, in order, however many they are, and whatever the callbacks before it
\* have left in its buffer and in the static variable.
THEOREM AloneAllIsLogged == Spec => []AloneLogsItsLines
<1>1. Inv => AloneLogsItsLines
  BY DEF Inv, Alone, InOrder, LoggedBefore, AloneLogsItsLines
<1> QED
  BY <1>1, Invariant, PTL
=============================================================================
