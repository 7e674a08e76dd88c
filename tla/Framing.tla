------------------------------ MODULE Framing ------------------------------
(***************************************************************************)
(* How one field crosses the control socket: writeToSocket() sends the     *)
(* length in decimal, filled up to four digits, and the text, in one       *)
(* send(); readFromSocket() receives four bytes, and then as many as       *)
(* atoi() makes of them.  Daemon and client have the same two functions,   *)
(* but that the client looks at no result of recv().                       *)
(*                                                                         *)
(* Base and Width stand for ten and four.  A text consists of bytes that   *)
(* are no digits: <<"text", m>> for those of the m-th message.              *)
(* The socket is a reliable stream, and the bytes of one send() arrive     *)
(* together, which holds for what fits in a kernel buffer.                 *)
(*   "beyond"  the byte that follows the four on the stack is a digit      *)
(***************************************************************************)
EXTENDS Naturals, Sequences, SequencesExt

CONSTANTS
    Base, Width,    \* of the length prefix
    Lengths,        \* the lengths that a text may have
    MaxMessages,    \* bound: messages sent
    Faults

ASSUME ConstantsAssumption ==
    /\ Base \in Nat \ {0, 1} /\ Width \in Nat \ {0}
    /\ Lengths \subseteq Nat
    /\ MaxMessages \in Nat
    /\ Faults \subseteq {"beyond"}

VARIABLES
    sent,       \* the texts sent
    stream,     \* bytes sent and not yet received
    closed,     \* the writer has closed its end
    checked,    \* whose function reads: the daemon's (TRUE) or the client's
    at,         \* where the reader is
    size,       \* what atoi() returned
    received,   \* the strings that were read
    strayed     \* history: a prefix was read wrong, or was too long

vars == <<sent, stream, closed, checked, at, size, received, strayed>>
writerVars == <<sent, closed, checked>>

Init ==
    /\ sent = <<>> /\ stream = <<>> /\ closed = FALSE
    /\ checked \in BOOLEAN
    /\ at = "prefix" /\ size = 0 /\ received = <<>> /\ strayed = FALSE

Digits == {"digit"} \X (0..(Base - 1))
Bytes == Digits \cup ({"text"} \X (1..MaxMessages))

-----------------------------------------------------------------------------
(* writeToSocket() *)

\* What is left of a number without its last k digits.
Left[k \in Nat] == [n \in Nat |-> IF k = 0 THEN n ELSE Left[k - 1][n] \div Base]

\* A length that four digits cannot say.
TooLong(n) == Left[Width][n] # 0

\* The number of digits that setw(4) makes: at least four, more if it takes more.
WidthOf(n) ==
    CHOOSE w \in Width..(n + Width) : Left[w][n] = 0 /\ (w > Width => Left[w - 1][n] # 0)

Decimal(n) ==
    [i \in 1..WidthOf(n) |-> <<"digit", Left[WidthOf(n) - i][n] % Base>>]

\* Mutant: the length counts the prefix.
PrefixOfAll(n) == Decimal(n + Width)

PrefixOf(n) == Decimal(n)

TextOf(m, n) == [i \in 1..n |-> <<"text", m>>]

Write(n) ==
    /\ ~ closed
    /\ Len(sent) < MaxMessages
    /\ LET text == TextOf(Len(sent) + 1, n) IN
         /\ sent' = Append(sent, text)
         /\ stream' = stream \o (PrefixOf(n) \o text)
    /\ UNCHANGED <<closed, checked, at, size, received, strayed>>

\* The process at the writing end is done, or dies.
Close ==
    /\ ~ closed
    /\ closed' = TRUE
    /\ UNCHANGED <<sent, stream, checked, at, size, received, strayed>>

-----------------------------------------------------------------------------
(* readFromSocket() *)

\* What recv(n) takes from the stream: all there is, up to n.
Received(n) == SubSeq(stream, 1, IF n < Len(stream) THEN n ELSE Len(stream))
Rest(n) == SubSeq(stream, Len(Received(n)) + 1, Len(stream))

\* recv() waits, even for no bytes at all, until there is one or none to come.
Readable == stream # <<>> \/ closed

\* The digits at the beginning, and the number that the first k of some digits make.
Leading(bytes) ==
    CHOOSE k \in 0..Len(bytes) : /\ \A i \in 1..k : bytes[i] \in Digits
                                 /\ k < Len(bytes) => bytes[k + 1] \notin Digits
Value[k \in Nat] ==
    [b \in Seq(Digits) |-> IF k \notin 1..Len(b) THEN 0 ELSE Value[k - 1][b] * Base + b[k][2]]

\* atoi()
Number(bytes) == Value[Leading(bytes)][SubSeq(bytes, 1, Leading(bytes))]

\* What the stack holds in the place of bytes that recv() did not deliver, and
\* in the byte behind them.
Stack(n) == [1..n -> Bytes]
Behind == IF "beyond" \in Faults THEN Digits \cup {<<"text", 1>>} ELSE {<<"text", 1>>}

\* The daemon's "error" is not the client's affair: at end-of-file the client
\* goes on with what the stack holds.
ReadPrefix ==
    /\ at = "prefix" /\ Readable
    /\ IF checked /\ stream = <<>>
       THEN at' = "gone" /\ UNCHANGED <<size, strayed>>
       ELSE LET prefix == Received(Width)
                tooLong == \E m \in DOMAIN sent :
                             m = Len(received) + 1 /\ TooLong(Len(sent[m]))
            IN  \E old \in Stack(Width - Len(prefix)), byte \in Behind :
                  /\ size' = Number(Append(prefix \o old, byte))
                  /\ at' = "text"
                  /\ strayed' = (strayed \/ (prefix # <<>> /\ (byte \in Digits \/ tooLong)))
    /\ stream' = Rest(Width)
    /\ UNCHANGED <<writerVars, received>>

\* Mutant: the text is read without looking at its length.
ReadAll ==
    /\ at = "text" /\ Readable
    /\ received' = Append(received, stream)
    /\ stream' = <<>>
    /\ at' = IF ~ checked /\ stream = <<>> THEN "gone" ELSE "prefix"
    /\ size' = 0
    /\ UNCHANGED <<writerVars, strayed>>

\* line[rc] = '\0': the string ends where recv() stopped.
ReadText ==
    /\ at = "text" /\ Readable
    /\ received' = Append(received, Received(size))
    /\ stream' = Rest(size)
    /\ at' = IF ~ checked /\ stream = <<>> THEN "gone" ELSE "prefix"
    /\ size' = 0
    /\ UNCHANGED <<writerVars, strayed>>

Read == ReadPrefix \/ ReadText

\* Nothing more will come.
Over ==
    /\ at = "gone" \/ ~ Readable
    /\ closed \/ Len(sent) = MaxMessages
    /\ UNCHANGED vars

Next == Close \/ Read \/ Over \/ \E n \in Lengths : Write(n)

Spec == Init /\ [][Next]_vars

\* The reader reads on.
FairSpec == Spec /\ WF_vars(Read)

-----------------------------------------------------------------------------
(* Properties *)

\* ControlSocket takes a field for one message, delivered whole and in order.
\* That is so unless a text has more characters than four digits can say, or
\* atoi() reads past its four bytes.  A client that gets no answer because the
\* daemon is gone takes it for an empty one.
FieldsIntact ==
    ~ strayed =>
      \/ IsPrefix(received, sent)
      \/ /\ ~ checked /\ at = "gone"
         /\ IsPrefix(Front(received), sent) /\ Last(received) = <<>>

\* The reader waits in the middle of a message only if its text is empty: the
\* writer has sent all there is, and may now be waiting for the reader.
WaitsOnlyForEmpty ==
    at = "text" /\ ~ Readable /\ ~ strayed => size = 0

\* A message is read, by whichever side, without another being sent or the
\* connection being closed; but for an empty one.
FieldsArrive ==
    \A k \in 1..MaxMessages :
      (Len(sent) > k \/ (Len(sent) = k /\ (sent[k] # <<>> \/ closed)))
        ~> (Len(received) >= k \/ strayed)
=============================================================================
