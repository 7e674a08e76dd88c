---------------------------- MODULE OutputLines ----------------------------
(***************************************************************************)
(* serverOutputEvent() takes the output of a server apart with strtok().   *)
(*                                                                         *)
(* Every running server has one thread in its event loop (OutputListener); *)
(* the threads of different servers run the callback at the same time,     *)
(* each on a buffer of its own stack, but strtok() keeps its place in the  *)
(* text in one static variable.  strtok(NULL) loads it, scans, and stores  *)
(* it; other threads run in between.  What a callback leaves in its buffer *)
(* stays there until the next one: no thread ends.                         *)
(*                                                                         *)
(* A server writes characters: line ends, and others, which are numbered   *)
(* so that no two are the same.  What is done with a line beyond logging   *)
(* it is left out: nothing ever enters the vector of listeners.            *)
(***************************************************************************)
EXTENDS Naturals, Sequences, FiniteSetsExt

CONSTANTS
    Servers,    \* the servers that are running
    Length,     \* bound: how many characters each server writes
    MaxText     \* the longest of these texts

ASSUME ConstantsAssumption ==
    /\ MaxText \in Nat
    /\ Length \in [Servers -> 0..MaxText]

End  == 0               \* '\n'
Nul  == MaxText + 1     \* '\0'
Junk == MaxText + 2     \* what nobody has written
NotEnd == (1..MaxText) \cup {Nul, Junk}

Place == 1..(MaxText + 1)

VARIABLES
    written,    \* number of characters each server has written
    pipe,       \* those that have not been read
    buf,        \* the buffer of each server's thread
    at,         \* where its callback is
    tok,        \* its char* : the thread whose buffer it points into, and where
    saved,      \* the static variable of strtok()
    chunk,      \* history: what read() delivered to the callback
    logged,     \* history: the lines that the callback logged
    alone       \* history: no other callback ran at the same time

vars == <<written, pipe, buf, at, tok, saved, chunk, logged, alone>>
history == <<chunk, logged, alone>>

Init ==
    /\ written = [s \in Servers |-> 0]
    /\ pipe = [s \in Servers |-> <<>>]
    /\ buf = [s \in Servers |-> [i \in Place |-> Junk]]
    /\ at = [s \in Servers |-> "loop"]
    /\ tok = [s \in Servers |-> <<s, 1>>]
    /\ saved \in {<<s, 1>> : s \in Servers}
    /\ chunk = [s \in Servers |-> <<>>]
    /\ logged = [s \in Servers |-> <<>>]
    /\ alone = [s \in Servers |-> TRUE]

-----------------------------------------------------------------------------
(* strtok(): all it reads and writes lies in the text at one pointer *)

\* The first place from i on that holds one of these characters, if any.
FirstOf(text, i, chars) ==
    LET found == {j \in Place : j >= i /\ text[j] \in chars}
    IN  IF found = {} THEN MaxText + 1 ELSE Min(found)

\* Where the token begins, at or behind place i; the terminator if none is left.
TokenAt(text, i) == FirstOf(text, i, NotEnd)
TokenEnd(text, i) == FirstOf(text, i, {End, Nul})

\* Thread s looks for a token at pointer p: it ends the token, moves the
\* static variable behind it, and returns NULL where the text is over.
Strtok(s, p) ==
    LET o     == p[1]
        begin == TokenAt(buf[o], p[2])
        end   == TokenEnd(buf[o], begin)
    IN  IF buf[o][begin] = Nul
        THEN /\ saved' = <<o, begin>>
             /\ at' = [at EXCEPT ![s] = "returned"]
             /\ UNCHANGED <<buf, tok>>
        ELSE /\ saved' = <<o, IF buf[o][end] = Nul THEN end ELSE end + 1>>
             /\ buf' = [buf EXCEPT ![o][end] = Nul]
             /\ tok' = [tok EXCEPT ![s] = <<o, begin>>]
             /\ at' = [at EXCEPT ![s] = "token"]

\* The string a pointer stands for: what comes before the terminator.
StringAt(p) ==
    SubSeq([i \in Place |-> buf[p[1]][i]], p[2], FirstOf(buf[p[1]], p[2], {Nul}) - 1)

-----------------------------------------------------------------------------
(* serverOutputEvent() *)

InCallback(s) == at[s] \notin {"loop", "returned"}

\* Mutant: buf[len] = '\0' is forgotten.
ReadUnterminated(s) ==
    /\ at[s] = "loop" /\ pipe[s] # <<>>
    /\ LET len == Len(pipe[s]) IN
         buf' = [buf EXCEPT ![s] = [i \in Place |-> IF i <= len THEN pipe[s][i] ELSE @[i]]]
    /\ pipe' = [pipe EXCEPT ![s] = <<>>]
    /\ at' = [at EXCEPT ![s] = "first"]
    /\ chunk' = [chunk EXCEPT ![s] = pipe[s]]
    /\ logged' = [logged EXCEPT ![s] = <<>>]
    /\ LET others == {t \in Servers \ {s} : InCallback(t)} IN
         alone' = [t \in Servers |->
                     IF t = s THEN others = {} ELSE alone[t] /\ t \notin others]
    /\ UNCHANGED <<written, tok, saved>>

\* read() takes all there is, which fits; buf[len] = '\0'.
Read(s) ==
    /\ at[s] = "loop" /\ pipe[s] # <<>>
    /\ LET len == Len(pipe[s]) IN
         buf' = [buf EXCEPT ![s] = [i \in Place |-> IF i <= len THEN pipe[s][i]
                                                    ELSE IF i = len + 1 THEN Nul
                                                    ELSE @[i]]]
    /\ pipe' = [pipe EXCEPT ![s] = <<>>]
    /\ at' = [at EXCEPT ![s] = "first"]
    /\ chunk' = [chunk EXCEPT ![s] = pipe[s]]
    /\ logged' = [logged EXCEPT ![s] = <<>>]
    /\ LET others == {t \in Servers \ {s} : InCallback(t)} IN
         alone' = [t \in Servers |->
                     IF t = s THEN others = {} ELSE alone[t] /\ t \notin others]
    /\ UNCHANGED <<written, tok, saved>>

\* Mutant: strtok(NULL, "\n") here as well.
FirstTokenContinues(s) ==
    /\ at[s] = "first"
    /\ Strtok(s, saved)
    /\ UNCHANGED <<written, pipe, history>>

\* strtok(buf, "\n")
FirstToken(s) ==
    /\ at[s] = "first"
    /\ Strtok(s, <<s, 1>>)
    /\ UNCHANGED <<written, pipe, history>>

\* Mutant: "continue" at an empty token.
LogLineRetries(s) ==
    /\ at[s] = "token"
    /\ LET line == StringAt(tok[s]) IN
         IF line = <<>> THEN UNCHANGED <<at, logged>>
         ELSE /\ logged' = [logged EXCEPT ![s] = Append(@, line)]
              /\ at' = [at EXCEPT ![s] = "next"]
    /\ UNCHANGED <<written, pipe, buf, tok, saved, chunk, alone>>

\* log->info(chars_array), unless it is empty by now
LogLine(s) ==
    /\ at[s] = "token"
    /\ LET line == StringAt(tok[s]) IN
         logged' = IF line = <<>> THEN logged
                   ELSE [logged EXCEPT ![s] = Append(@, line)]
    /\ at' = [at EXCEPT ![s] = "next"]
    /\ UNCHANGED <<written, pipe, buf, tok, saved, chunk, alone>>

\* strtok(NULL, "\n") loads its static variable ...
NextToken(s) ==
    /\ at[s] = "next"
    /\ tok' = [tok EXCEPT ![s] = saved]
    /\ at' = [at EXCEPT ![s] = "scan"]
    /\ UNCHANGED <<written, pipe, buf, saved, history>>

\* ... and goes on from there.
Scan(s) ==
    /\ at[s] = "scan"
    /\ Strtok(s, tok[s])
    /\ UNCHANGED <<written, pipe, history>>

\* Back in the event loop; the history of the callback is over.
Return(s) ==
    /\ at[s] = "returned"
    /\ at' = [at EXCEPT ![s] = "loop"]
    /\ tok' = [tok EXCEPT ![s] = <<s, 1>>]
    /\ chunk' = [chunk EXCEPT ![s] = <<>>]
    /\ logged' = [logged EXCEPT ![s] = <<>>]
    /\ alone' = [alone EXCEPT ![s] = TRUE]
    /\ UNCHANGED <<written, pipe, buf, saved>>

Callback(s) ==
    Read(s) \/ FirstToken(s) \/ LogLine(s) \/ NextToken(s) \/ Scan(s) \/ Return(s)

-----------------------------------------------------------------------------

\* The server writes a line end, or a character it never wrote before.
Output(s) ==
    /\ written[s] < Length[s]
    /\ written' = [written EXCEPT ![s] = @ + 1]
    /\ \E c \in {End, written'[s]} : pipe' = [pipe EXCEPT ![s] = Append(@, c)]
    /\ UNCHANGED <<buf, at, tok, saved, history>>

AllLogged ==
    /\ \A s \in Servers : written[s] = Length[s] /\ pipe[s] = <<>> /\ at[s] = "loop"
    /\ UNCHANGED vars

Next == AllLogged \/ \E s \in Servers : Output(s) \/ Callback(s)

Spec == Init /\ [][Next]_vars

\* Threads are scheduled.
FairSpec == Spec /\ \A s \in Servers : WF_vars(Callback(s))

-----------------------------------------------------------------------------
(* Properties *)

Pointers == Servers \X Place

\* Every variable stays in its domain; no pointer leaves its buffer.
TypeOK ==
    /\ \A s \in Servers : written[s] \in 0..Length[s]
    /\ buf \in [Servers -> [Place -> 0..Junk]]
    /\ at \in [Servers -> {"loop", "first", "token", "next", "scan", "returned"}]
    /\ tok \in [Servers -> Pointers]
    /\ saved \in Pointers
    /\ alone \in [Servers -> BOOLEAN]
    /\ \A s \in Servers : Len(pipe[s]) <= written[s] /\ Len(chunk[s]) <= written[s]

\* A line of a text: a longest stretch without a line end.
IsLine(text, i, j) ==
    /\ i <= j /\ \A k \in i..j : text[k] # End
    /\ i = 1 \/ text[i - 1] = End
    /\ j = Len(text) \/ text[j + 1] = End

\* These are the lines of a text that begin before place n, in order.
AreLinesBefore(n, text, lines) ==
    LET Places == 1..Len(text) IN
    \E first \in [1..Len(lines) -> Places] :
      /\ \A l, m \in 1..Len(lines) : l < m => first[l] < first[m]
      /\ \A m \in 1..Len(lines) :
           /\ first[m] < n
           /\ \E j \in Places : /\ IsLine(text, first[m], j)
                               /\ lines[m] = SubSeq(text, first[m], j)
      /\ \A i, j \in Places :
           IsLine(text, i, j) /\ i < n => \E m \in 1..Len(lines) : first[m] = i

\* Server.hpp:268: the output is split into lines and handed on.  A callback
\* that has strtok() for itself logs exactly the lines of what it read, and
\* logs them in order, however the callbacks before it got in each other's way.
AloneLogsItsLines ==
    \A s \in Servers :
      at[s] = "returned" /\ alone[s] =>
        AreLinesBefore(Len(chunk[s]) + 1, chunk[s], logged[s])

\* However the callbacks interleave, and whosever text strtok() is at, it
\* finds a terminator before anything that nobody has written.
StaysInText ==
    \A s \in Servers :
      at[s] \in {"token", "scan"} =>
        LET p == tok[s] IN
        \E e \in Place : /\ e >= p[2] /\ buf[p[1]][e] = Nul
                         /\ \A i \in p[2]..e : buf[p[1]][i] # Junk

\* However the callbacks interleave, each of them comes to its end.
CallbacksReturn == \A s \in Servers : InCallback(s) ~> ~ InCallback(s)
=============================================================================
