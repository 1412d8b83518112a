-------------------------- MODULE Metering_proofs --------------------------
(***************************************************************************)
(* Proofs about Metering: what nginx keeps of a response stays within its  *)
(* limits, what it captures is what the response says, and the client is   *)
(* charged for it, for every spec, request, response and limit, and        *)
(* however the network cuts the response.                                  *)
(*                                                                         *)
(* IInv relates what is kept after pos tokens to the positions of the      *)
(* response.  For an event stream the unfinished line is the tokens since  *)
(* the last newline, and the data are the text of the data lines since the *)
(* last empty line (Holds); each event that a chunk ends is then the text  *)
(* of a document of the response, and the documents at positions up to pos *)
(* are the ones captured (Captured).  Once a limit is overrun the buffer   *)
(* holds nothing any more (Dropped), and what was captured before stays.   *)
(* What a chunk does follows token by token, by induction over its length. *)
(*                                                                         *)
(* Answered, beside IInv, says that what was answered follows from the     *)
(* document, the request and what was captured.  What it is worth takes    *)
(* three steps.  An expression is worth what it means: collapsing a        *)
(* coalesce() changes neither the value of a node nor whether it depends   *)
(* on a reference that is nil (Sem), so that its rewriting ends in its     *)
(* meaning, by induction over the coalesces and over the tree.  What it    *)
(* reads in the context is what was served: the captured fields, put back  *)
(* into a document, are found where their references look (Complete,       *)
(* Alike).  And the location that nginx finds meters the request by the    *)
(* operation that OpenAPI names (MeteredAsNamed).                          *)
(***************************************************************************)
EXTENDS Metering, FiniteSetTheorems, SequenceTheorems, WellFoundedInduction, TLAPS

-----------------------------------------------------------------------------
(* Induction on the natural numbers, for a set instead of a predicate, by  *)
(* the well-foundedness of <.                                              *)

Below == {p \in Nat \X Nat : p[1] < p[2]}

(* Every set of natural numbers that is not empty has a least element.     *)
LEMMA LeastNat ==
    ASSUME NEW S \in SUBSET Nat, S # {}
    PROVE  \E n \in S : \A m \in S : n <= m
<1>1. IsWellFoundedOn(Below, Nat)
    BY NatLessThanWellFounded DEF OpToRel, Below
<1>2. \E n \in S : \A m \in S : <<m, n>> \notin Below
    BY <1>1, WFMin
<1>3. \A m, n \in Nat : m < n => <<m, n>> \in Below
    BY DEF Below
<1>4. PICK n \in S : \A m \in S : <<m, n>> \notin Below
    BY <1>2
<1>5. \A m \in S : ~(m < n)
    BY <1>3, <1>4
<1>6. \A m \in S : n <= m
    BY <1>5
<1> QED BY <1>6

(* Induction: a set with 0, and with n + 1 for every n in it, has every    *)
(* natural number.                                                         *)
LEMMA NatSetInduction ==
    ASSUME NEW S, 0 \in S, \A n \in Nat : n \in S => n + 1 \in S
    PROVE  Nat \subseteq S
<1> SUFFICES ASSUME Nat \ S # {} PROVE FALSE
    OBVIOUS
<1>1. PICK n \in Nat \ S : \A m \in Nat \ S : n <= m
    BY LeastNat
<1>2. n # 0 /\ n - 1 \in Nat
    BY <1>1
<1> QED BY <1>1, <1>2

(* The buffer after a token is made from the buffer before it.             *)
LEMMA TakeTokensStep ==
    ASSUME NEW b, NEW chunk, Len(chunk) \in Nat
    PROVE  TakeTokens(b, chunk) =
              [n \in 0..Len(chunk) |->
                 IF n = 0 THEN b
                 ELSE TakeToken(TakeTokens(b, chunk)[n - 1], chunk[n])]
<1> DEFINE Run(f, m) == f = [n \in 0..m |->
                              IF n = 0 THEN b ELSE TakeToken(f[n - 1], chunk[n])]
           S == {m \in Nat : \E f : Run(f, m)}
<1>1. 0 \in S
  <2>1. Run([n \in 0..0 |-> b], 0)
      OBVIOUS
  <2> QED BY <2>1
<1>2. ASSUME NEW m \in Nat, m \in S PROVE m + 1 \in S
  <2>1. PICK f : Run(f, m)
      BY <1>2
  <2> DEFINE g == [n \in 0..(m + 1) |->
                     IF n = m + 1 THEN TakeToken(f[m], chunk[m + 1]) ELSE f[n]]
  <2>2. ASSUME NEW n \in 0..(m + 1)
        PROVE  g[n] = IF n = 0 THEN b ELSE TakeToken(g[n - 1], chunk[n])
    <3>1. CASE n = m + 1
        BY <3>1
    <3>2. CASE n # m + 1
        <4>1. n \in 0..m /\ g[n] = f[n] /\ (n # 0 => g[n - 1] = f[n - 1])
            BY <3>2
        <4>2. f[n] = IF n = 0 THEN b ELSE TakeToken(f[n - 1], chunk[n])
            BY <2>1, <4>1
        <4> QED BY <4>1, <4>2
    <3> QED BY <3>1, <3>2
  <2>3. Run(g, m + 1) /\ m + 1 \in Nat
      BY <2>2
  <2> HIDE DEF g
  <2> QED BY <2>3
<1> HIDE DEF S
<1>3. Nat \subseteq S
    BY <1>1, <1>2, NatSetInduction
<1>4. Len(chunk) \in S
    BY <1>3
<1>5. \E f : f = [n \in 0..Len(chunk) |->
                    IF n = 0 THEN b ELSE TakeToken(f[n - 1], chunk[n])]
    BY <1>4 DEF S
<1> QED BY <1>5, Zenon DEF TakeTokens

(* So are the captured fields after a text.                                *)
LEMMA ExtractAllStep ==
    ASSUME NEW acc, NEW texts, Len(texts) \in Nat
    PROVE  ExtractAll(acc, texts) =
              [n \in 0..Len(texts) |->
                 IF n = 0 THEN acc
                 ELSE ExtractFields(ExtractAll(acc, texts)[n - 1], texts[n])]
<1> DEFINE Run(f, m) == f = [n \in 0..m |->
                              IF n = 0 THEN acc ELSE ExtractFields(f[n - 1], texts[n])]
           S == {m \in Nat : \E f : Run(f, m)}
<1>1. 0 \in S
  <2>1. Run([n \in 0..0 |-> acc], 0)
      OBVIOUS
  <2> QED BY <2>1
<1>2. ASSUME NEW m \in Nat, m \in S PROVE m + 1 \in S
  <2>1. PICK f : Run(f, m)
      BY <1>2
  <2> DEFINE g == [n \in 0..(m + 1) |->
                     IF n = m + 1 THEN ExtractFields(f[m], texts[m + 1]) ELSE f[n]]
  <2>2. ASSUME NEW n \in 0..(m + 1)
        PROVE  g[n] = IF n = 0 THEN acc ELSE ExtractFields(g[n - 1], texts[n])
    <3>1. CASE n = m + 1
        BY <3>1
    <3>2. CASE n # m + 1
        <4>1. n \in 0..m /\ g[n] = f[n] /\ (n # 0 => g[n - 1] = f[n - 1])
            BY <3>2
        <4>2. f[n] = IF n = 0 THEN acc ELSE ExtractFields(f[n - 1], texts[n])
            BY <2>1, <4>1
        <4> QED BY <4>1, <4>2
    <3> QED BY <3>1, <3>2
  <2>3. Run(g, m + 1) /\ m + 1 \in Nat
      BY <2>2
  <2> HIDE DEF g
  <2> QED BY <2>3
<1> HIDE DEF S
<1>3. Nat \subseteq S
    BY <1>1, <1>2, NatSetInduction
<1>4. Len(texts) \in S
    BY <1>3
<1>5. \E f : f = [n \in 0..Len(texts) |->
                    IF n = 0 THEN acc ELSE ExtractFields(f[n - 1], texts[n])]
    BY <1>4 DEF S
<1> QED BY <1>5, Zenon DEF ExtractAll

(* And the text of a set of data lines.                                    *)
LEMMA TextOfStep ==
    ASSUME NEW tokens, NEW lines, Len(tokens) \in Nat
    PROVE  TextOf(tokens, lines) =
              [i \in 0..Len(tokens) |->
                 CASE i = 0                -> <<>>
                   [] i > 0 /\ i \in lines -> TextOf(tokens, lines)[i - 1]
                                              \o Value(Line(tokens, i))
                   [] OTHER                -> TextOf(tokens, lines)[i - 1]]
<1> DEFINE Step(f, i) == CASE i = 0                -> <<>>
                           [] i > 0 /\ i \in lines -> f[i - 1] \o Value(Line(tokens, i))
                           [] OTHER                -> f[i - 1]
           Run(f, m) == f = [i \in 0..m |-> Step(f, i)]
           S == {m \in Nat : \E f : Run(f, m)}
<1>1. 0 \in S
  <2>1. Run([n \in 0..0 |-> <<>>], 0)
      OBVIOUS
  <2> QED BY <2>1
<1>2. ASSUME NEW m \in Nat, m \in S PROVE m + 1 \in S
  <2>1. PICK f : Run(f, m)
      BY <1>2
  <2> DEFINE g == [n \in 0..(m + 1) |-> IF n = m + 1 THEN Step(f, m + 1) ELSE f[n]]
  <2>2. ASSUME NEW n \in 0..(m + 1)
        PROVE  g[n] = Step(g, n)
    <3>1. CASE n = m + 1
        <4>1. m \in 0..(m + 1) /\ m # m + 1 /\ g[m] = f[m]
            OBVIOUS
        <4> QED BY <3>1, <4>1
    <3>2. CASE n # m + 1
        <4>1. n \in 0..m /\ g[n] = f[n] /\ (n # 0 => g[n - 1] = f[n - 1])
            BY <3>2
        <4>2. f[n] = Step(f, n)
            BY <2>1, <4>1
        <4> QED BY <4>1, <4>2
    <3> QED BY <3>1, <3>2
  <2>3. g = [i \in 0..(m + 1) |-> g[i]] /\ m + 1 \in Nat
      OBVIOUS
  <2> HIDE DEF g
  <2>4. [i \in 0..(m + 1) |-> g[i]] = [i \in 0..(m + 1) |-> Step(g, i)]
      BY <2>2, Zenon
  <2>5. Run(g, m + 1)
      BY <2>3, <2>4, Zenon
  <2> QED BY <2>3, <2>5
<1> HIDE DEF S
<1>3. Nat \subseteq S
    BY <1>1, <1>2, NatSetInduction
<1>4. Len(tokens) \in S
    BY <1>3
<1>5. \E f : f = [i \in 0..Len(tokens) |->
                    CASE i = 0                -> <<>>
                      [] i > 0 /\ i \in lines -> f[i - 1] \o Value(Line(tokens, i))
                      [] OTHER                -> f[i - 1]]
    BY <1>4 DEF S
<1> QED BY <1>5, Zenon DEF TextOf

(* What a position adds to the text: the value of its line, if that is one *)
(* of the data lines.                                                      *)
LEMMA TextOfAt ==
    ASSUME NEW tokens, NEW lines, Len(tokens) \in Nat, NEW i \in 1..Len(tokens)
    PROVE  TextOf(tokens, lines)[i] =
              IF i \in lines THEN TextOf(tokens, lines)[i - 1] \o Value(Line(tokens, i))
                             ELSE TextOf(tokens, lines)[i - 1]
<1> DEFINE text == TextOf(tokens, lines)
<1>1. text = [j \in 0..Len(tokens) |->
                CASE j = 0                -> <<>>
                  [] j > 0 /\ j \in lines -> text[j - 1] \o Value(Line(tokens, j))
                  [] OTHER                -> text[j - 1]]
    BY TextOfStep
<1> HIDE DEF text
<1>2. i \in 0..Len(tokens) /\ i > 0 /\ i # 0
    OBVIOUS
<1>3. text[i] = IF i \in lines THEN text[i - 1] \o Value(Line(tokens, i)) ELSE text[i - 1]
    BY <1>1, <1>2
<1> QED BY <1>3 DEF text

SameLines(D, E, n) == \A i \in 1..n : i \in D <=> i \in E

(* A text depends only on the lines up to it.                              *)
LEMMA TextOfAgrees ==
    ASSUME NEW tokens, Len(tokens) \in Nat, NEW D, NEW E, NEW n \in 0..Len(tokens),
           SameLines(D, E, n)
    PROVE  TextOf(tokens, D)[n] = TextOf(tokens, E)[n]
<1> DEFINE S == {m \in Nat : m <= n => TextOf(tokens, D)[m] = TextOf(tokens, E)[m]}
<1>1. 0 \in S
  <2>1. TextOf(tokens, D)[0] = <<>> /\ TextOf(tokens, E)[0] = <<>>
      BY TextOfStep
  <2> QED BY <2>1
<1>2. ASSUME NEW m \in Nat, m \in S PROVE m + 1 \in S
  <2> SUFFICES ASSUME m + 1 <= n
               PROVE  TextOf(tokens, D)[m + 1] = TextOf(tokens, E)[m + 1]
      OBVIOUS
  <2>1. TextOf(tokens, D)[m] = TextOf(tokens, E)[m]
      BY <1>2
  <2>2. /\ m + 1 \in 1..Len(tokens) /\ (m + 1) - 1 = m
        /\ m + 1 \in D <=> m + 1 \in E
      BY DEF SameLines
  <2>3. ASSUME NEW L
        PROVE  TextOf(tokens, L)[m + 1] =
                  IF m + 1 \in L THEN TextOf(tokens, L)[m] \o Value(Line(tokens, m + 1))
                                 ELSE TextOf(tokens, L)[m]
      BY <2>2, TextOfAt
  <2> QED BY <2>1, <2>2, <2>3
<1> HIDE DEF S
<1>3. Nat \subseteq S
    BY <1>1, <1>2, NatSetInduction
<1>4. n \in S
    BY <1>3
<1> QED BY <1>4 DEF S

(* The text after a position that is a line's end, or is none, of the set. *)
LEMMA TextOfNext ==
    ASSUME NEW tokens, Len(tokens) \in Nat, NEW D, NEW E,
           NEW n \in 0..(Len(tokens) - 1),
           SameLines(D, E, n)
    PROVE  TextOf(tokens, D)[n + 1] =
              IF n + 1 \in D THEN TextOf(tokens, E)[n] \o Value(Line(tokens, n + 1))
                             ELSE TextOf(tokens, E)[n]
<1>1. n \in 0..Len(tokens) /\ n + 1 \in 1..Len(tokens) /\ (n + 1) - 1 = n
    OBVIOUS
<1>2. TextOf(tokens, D)[n] = TextOf(tokens, E)[n]
    BY <1>1, TextOfAgrees
<1>3. TextOf(tokens, D)[n + 1] =
         IF n + 1 \in D THEN TextOf(tokens, D)[n] \o Value(Line(tokens, n + 1))
                        ELSE TextOf(tokens, D)[n]
    BY <1>1, TextOfAt
<1> QED BY <1>2, <1>3

(* Without data lines there is no text.                                    *)
LEMMA TextOfNothing ==
    ASSUME NEW tokens, Len(tokens) \in Nat, NEW D, NEW n \in 0..Len(tokens),
           \A i \in 1..n : i \notin D
    PROVE  TextOf(tokens, D)[n] = <<>>
<1> DEFINE S == {m \in Nat : m <= n => TextOf(tokens, D)[m] = <<>>}
<1>1. 0 \in S
  <2>1. TextOf(tokens, D)[0] = <<>>
      BY TextOfStep
  <2> QED BY <2>1
<1>2. ASSUME NEW m \in Nat, m \in S PROVE m + 1 \in S
  <2> SUFFICES ASSUME m + 1 <= n PROVE TextOf(tokens, D)[m + 1] = <<>>
      OBVIOUS
  <2>1. TextOf(tokens, D)[m] = <<>>
      BY <1>2
  <2>2. m + 1 \in 1..n /\ m + 1 \in 1..Len(tokens) /\ (m + 1) - 1 = m
      OBVIOUS
  <2>3. TextOf(tokens, D)[m + 1] =
           IF m + 1 \in D THEN TextOf(tokens, D)[m] \o Value(Line(tokens, m + 1))
                          ELSE TextOf(tokens, D)[m]
      BY <2>2, TextOfAt
  <2>4. m + 1 \notin D
      BY <2>2
  <2> QED BY <2>1, <2>3, <2>4
<1> HIDE DEF S
<1>3. Nat \subseteq S
    BY <1>1, <1>2, NatSetInduction
<1>4. n \in S
    BY <1>3
<1> QED BY <1>4 DEF S

(* The fields after one more text.                                         *)
LEMMA ExtractAllAppend ==
    ASSUME NEW acc, NEW T, NEW texts \in Seq(T), NEW text \in T
    PROVE  ExtractAll(acc, Append(texts, text))[Len(texts) + 1]
              = ExtractFields(ExtractAll(acc, texts)[Len(texts)], text)
<1> DEFINE more == Append(texts, text)
           N == Len(texts)
           S == {m \in Nat : m <= N => ExtractAll(acc, more)[m] = ExtractAll(acc, texts)[m]}
<1>0. /\ N \in Nat /\ Len(more) = N + 1 /\ more[N + 1] = text
      /\ \A i \in 1..N : more[i] = texts[i]
    OBVIOUS
<1> HIDE DEF more, N
<1>a. \A m \in 1..(N + 1) : ExtractAll(acc, more)[m]
                               = ExtractFields(ExtractAll(acc, more)[m - 1], more[m])
    BY <1>0, ExtractAllStep
<1>b. \A m \in 1..N : ExtractAll(acc, texts)[m]
                               = ExtractFields(ExtractAll(acc, texts)[m - 1], texts[m])
    BY <1>0, ExtractAllStep DEF N
<1>1. 0 \in S
    BY <1>0, ExtractAllStep DEF N
<1>2. ASSUME NEW m \in Nat, m \in S PROVE m + 1 \in S
  <2> SUFFICES ASSUME m + 1 <= N
               PROVE  ExtractAll(acc, more)[m + 1] = ExtractAll(acc, texts)[m + 1]
      OBVIOUS
  <2>1. ExtractAll(acc, more)[m] = ExtractAll(acc, texts)[m]
      BY <1>2, <1>0
  <2>2. m + 1 \in 1..N /\ m + 1 \in 1..(N + 1) /\ (m + 1) - 1 = m
      BY <1>0
  <2> QED BY <2>1, <2>2, <1>0, <1>a, <1>b
<1> HIDE DEF S
<1>3. N \in S
    BY <1>0, <1>1, <1>2, NatSetInduction
<1>4. ExtractAll(acc, more)[N] = ExtractAll(acc, texts)[N]
    BY <1>0, <1>3 DEF S
<1>5. ExtractAll(acc, more)[N + 1] = ExtractFields(ExtractAll(acc, more)[N], text)
    BY <1>0, <1>a
<1> QED BY <1>4, <1>5 DEF more, N

-----------------------------------------------------------------------------
(* Lines. *)

(* A line without its carriage return is a sequence of tokens.             *)
LEMMA WithoutCRType ==
    ASSUME NEW line \in Seq(STRING)
    PROVE  WithoutCR(line) \in Seq(STRING) /\ Len(WithoutCR(line)) <= Len(line)
<1>1. CASE line # <<>> /\ Last(line) = "cr"
  <2>1. Len(line) \in Nat /\ Len(line) >= 1
      BY <1>1
  <2>2. 1 \in Int /\ Len(line) - 1 \in Int /\ \A i \in 1..(Len(line) - 1) : line[i] \in STRING
      BY <2>1
  <2>3. /\ SubSeq(line, 1, Len(line) - 1) \in Seq(STRING)
        /\ Len(SubSeq(line, 1, Len(line) - 1)) <= Len(line)
      BY <2>1, <2>2, SubSeqProperties
  <2> QED BY <1>1, <2>3 DEF WithoutCR, Front
<1>2. CASE ~(line # <<>> /\ Last(line) = "cr")
    BY <1>2 DEF WithoutCR
<1> QED BY <1>1, <1>2

(* The value of a data line is a sequence of tokens.                       *)
LEMMA ValueType ==
    ASSUME NEW line \in Seq(STRING), IsData(line)
    PROVE  Value(line) \in Seq(STRING)
<1>1. Len(line) \in Nat /\ line # <<>> /\ Len(line) >= 1
    BY DEF IsData
<1>2. Tail(line) \in Seq(STRING)
    BY <1>1
<1>3. CASE Len(line) > 1
  <2>1. SubSeq(line, 3, Len(line)) \in Seq(STRING)
      BY <1>1, <1>3
  <2> QED BY <1>2, <2>1 DEF Value
<1>4. CASE ~(Len(line) > 1)
    BY <1>2, <1>4 DEF Value
<1> QED BY <1>3, <1>4

(* Where a line begins is unique.                                          *)
LEMMA LineStartIs ==
    ASSUME NEW tokens, NEW e \in Nat, NEW s \in 1..e,
           s = 1 \/ s - 1 \in NewLines(tokens),
           \A i \in s..(e - 1) : i \notin NewLines(tokens)
    PROVE  LineStart(tokens, e) = s
<1> DEFINE Begins(x) == /\ x = 1 \/ x - 1 \in NewLines(tokens)
                        /\ \A i \in x..(e - 1) : i \notin NewLines(tokens)
<1>1. \A x \in 1..e : Begins(x) => x = s
    OBVIOUS
<1>2. Begins(s)
    OBVIOUS
<1> QED BY <1>1, <1>2 DEF LineStart

-----------------------------------------------------------------------------
(* The buffer of an event stream. *)

BufferType ==
    [partial : Seq(STRING), lines : Nat, data : Seq(STRING), bytes : Nat,
     overflow : BOOLEAN, events : Seq(Seq(STRING))]

(* What a buffer that has not given up holds after n tokens: the line that *)
(* n is in so far, and the text of the data lines since the last empty one.*)
Holds(tokens, n, b) ==
    LET start == n + 1 - Len(b.partial)
    IN  /\ ~b.overflow
        /\ Len(b.partial) <= n
        /\ start = 1 \/ start - 1 \in NewLines(tokens)
        /\ \A i \in start..n : i \notin NewLines(tokens)
        /\ b.partial = SubSeq(tokens, start, n)
        /\ b.lines > 0 <=> DataBefore(tokens, n + 1) # {}
        /\ b.data = TextOf(tokens, DataBefore(tokens, n + 1))[n]
        /\ b.bytes = Len(b.data)
        /\ b.bytes <= MaxBuffer

EndsEvent(tokens, e) ==
    /\ e \in NewLines(tokens)
    /\ Line(tokens, e) = <<>> /\ DataBefore(tokens, e) # {}

(* The empty buffer is what is kept before the first token.                *)
LEMMA EmptyHolds ==
    ASSUME NEW tokens \in Seq(STRING)
    PROVE  EmptyBuffer \in BufferType /\ Holds(tokens, 0, EmptyBuffer)
<1>1. EmptyBuffer \in BufferType
    BY EmptySeq DEF EmptyBuffer, BufferType
<1>2. DataBefore(tokens, 0 + 1) = {}
    BY DEF DataBefore, NewLines
<1>3. Len(tokens) \in Nat /\ 0 \in 0..Len(tokens)
    OBVIOUS
<1>4. TextOf(tokens, {})[0] = <<>>
    BY <1>3, TextOfNothing
<1>5. SubSeq(tokens, 1, 0) = <<>>
    OBVIOUS
<1>6. /\ EmptyBuffer.partial = <<>> /\ EmptyBuffer.lines = 0 /\ EmptyBuffer.data = <<>>
      /\ EmptyBuffer.bytes = 0 /\ EmptyBuffer.overflow = FALSE
      /\ Len(<<>>) = 0 /\ 0 + 1 - 0 = 1 /\ 0 <= MaxBuffer /\ 0 <= 0 /\ ~(0 > 0)
      /\ 1 = 1 /\ \A i \in 1..0 : i \notin NewLines(tokens)
    BY MeteringConstants DEF EmptyBuffer
<1> HIDE DEF EmptyBuffer
<1>7. Holds(tokens, 0, EmptyBuffer)
  <2> DEFINE D == DataBefore(tokens, 0 + 1)
  <2> HIDE DEF D
  <2>1. D = {} /\ TextOf(tokens, D)[0] = <<>>
      BY <1>2, <1>4 DEF D
  <2> QED BY <2>1, <1>5, <1>6, Zenon DEF Holds, D
<1> QED BY <1>1, <1>7

(* The data lines before the next position.                                *)
LEMMA DataBeforeNext ==
    ASSUME NEW tokens \in Seq(STRING), NEW e \in DOMAIN tokens
    PROVE  DataBefore(tokens, e + 1) =
              CASE e \notin NewLines(tokens)   -> DataBefore(tokens, e)
                [] e \in NewLines(tokens) /\ Line(tokens, e) = <<>> -> {}
                [] e \in NewLines(tokens) /\ IsData(Line(tokens, e)) ->
                      DataBefore(tokens, e) \cup {e}
                [] OTHER -> DataBefore(tokens, e)
<1>1. DOMAIN tokens = 1..Len(tokens) /\ Len(tokens) \in Nat
    OBVIOUS
<1>2. NewLines(tokens) \subseteq 1..Len(tokens)
    BY <1>1 DEF NewLines
<1>3. \A d \in 1..Len(tokens) : (d < e + 1 <=> d < e \/ d = e) /\ ~(e < e) /\ ~(e + 1 < e)
    OBVIOUS
<1>4. ~IsData(<<>>)
    BY DEF IsData
<1>5. CASE e \notin NewLines(tokens)
    BY <1>1, <1>2, <1>3, <1>5 DEF DataBefore
<1>6. CASE e \in NewLines(tokens) /\ Line(tokens, e) = <<>>
  <2>1. \A d \in NewLines(tokens) : d \notin DataBefore(tokens, e + 1)
      BY <1>1, <1>2, <1>3, <1>4, <1>6 DEF DataBefore
  <2>2. DataBefore(tokens, e + 1) \subseteq NewLines(tokens)
      BY DEF DataBefore
  <2> QED BY <1>4, <1>6, <2>1, <2>2
<1>7. CASE e \in NewLines(tokens) /\ Line(tokens, e) # <<>>
  <2>1. \A d \in NewLines(tokens) :
           d \in DataBefore(tokens, e + 1) <=>
              d \in DataBefore(tokens, e) \/ (d = e /\ IsData(Line(tokens, e)))
      BY <1>1, <1>2, <1>3, <1>7 DEF DataBefore
  <2>2. DataBefore(tokens, e + 1) \subseteq NewLines(tokens)
        /\ DataBefore(tokens, e) \subseteq NewLines(tokens)
      BY DEF DataBefore
  <2> QED BY <1>7, <2>1, <2>2
<1> QED BY <1>5, <1>6, <1>7

(* A token that ends no line joins the unfinished line.                    *)
LEMMA TakeTokenPlain ==
    ASSUME NEW tokens \in Seq(STRING), NEW n \in 0..(Len(tokens) - 1),
           NEW b \in BufferType, Holds(tokens, n, b),
           tokens[n + 1] # "nl"
    PROVE  LET c == TakeToken(b, tokens[n + 1])
           IN  /\ c \in BufferType /\ Holds(tokens, n + 1, c)
               /\ c.events = b.events
               /\ Len(c.partial) = Len(b.partial) + 1
               /\ ~EndsEvent(tokens, n + 1)
<1> DEFINE length == Len(b.partial)
           start == n + 1 - length
           c == [b EXCEPT !.partial = Append(@, tokens[n + 1])]
<1>1. /\ Len(tokens) \in Nat /\ n \in Nat /\ n + 1 \in DOMAIN tokens
      /\ n + 1 \in 1..Len(tokens) /\ tokens[n + 1] \in STRING
    OBVIOUS
<1>2. n + 1 \notin NewLines(tokens)
    BY DEF NewLines
<1>3. TakeToken(b, tokens[n + 1]) = c
    BY DEF TakeToken, Holds
<1>4. /\ b.partial \in Seq(STRING) /\ Len(b.partial) \in Nat
      /\ Append(b.partial, tokens[n + 1]) \in Seq(STRING)
      /\ Len(Append(b.partial, tokens[n + 1])) = Len(b.partial) + 1
    BY <1>1 DEF BufferType
<1>5. /\ c \in BufferType
      /\ c.partial = Append(b.partial, tokens[n + 1])
      /\ c.lines = b.lines /\ c.data = b.data /\ c.bytes = b.bytes
      /\ c.overflow = b.overflow /\ c.events = b.events
    BY <1>4 DEF BufferType
<1>6. DataBefore(tokens, n + 1 + 1) = DataBefore(tokens, n + 1)
    BY <1>1, <1>2, DataBeforeNext
<1>7. TextOf(tokens, DataBefore(tokens, n + 1 + 1))[n + 1]
         = TextOf(tokens, DataBefore(tokens, n + 1))[n]
  <2>1. n + 1 \notin DataBefore(tokens, n + 1)
      BY <1>1 DEF DataBefore
  <2>2. n + 1 \in 1..Len(tokens) /\ (n + 1) - 1 = n /\ Len(tokens) \in Nat
      BY <1>1
  <2> QED BY <1>6, <2>1, <2>2, TextOfAt
<1>8. /\ start \in 1..(n + 1)
      /\ start = 1 \/ start - 1 \in NewLines(tokens)
      /\ \A i \in start..(n + 1) : i \notin NewLines(tokens)
  <2>1. /\ length <= n /\ length \in Nat /\ n \in Nat
        /\ start = 1 \/ start - 1 \in NewLines(tokens)
        /\ \A i \in start..n : i \notin NewLines(tokens)
      BY <1>1, <1>4 DEF Holds
  <2> HIDE DEF length, c
  <2>2. start \in 1..(n + 1) /\ \A i \in start..(n + 1) : i \in start..n \/ i = n + 1
      BY <2>1
  <2> QED BY <1>2, <2>1, <2>2
<1>9. Append(b.partial, tokens[n + 1]) = SubSeq(tokens, start, n + 1)
  <2>1. b.partial = SubSeq(tokens, start, n)
      BY DEF Holds
  <2> HIDE DEF start, c
  <2>0. start \in 1..Len(tokens) /\ n + 1 \in start..Len(tokens)
      BY <1>1, <1>8
  <2>2. SubSeq(tokens, start, n + 1) = SubSeq(tokens, start, n + 1 - 1) \o <<tokens[n + 1]>>
      BY <2>0, SubSeqRecursiveSecond
  <2>3. n + 1 - 1 = n
      BY <1>1
  <2>4. Append(b.partial, tokens[n + 1]) = b.partial \o <<tokens[n + 1]>>
      BY <1>1, <1>4, AppendIsConcat
  <2> QED BY <2>1, <2>2, <2>3, <2>4
<1>10. (n + 1) + 1 - Len(c.partial) = start /\ Len(c.partial) <= n + 1
  <2>1. length <= n /\ length \in Nat /\ n \in Nat /\ Len(c.partial) = length + 1
      BY <1>1, <1>4, <1>5 DEF Holds
  <2> HIDE DEF c, length
  <2> QED BY <2>1
<1> HIDE DEF c, start
<1>11. Holds(tokens, n + 1, c)
    BY <1>5, <1>6, <1>7, <1>8, <1>9, <1>10 DEF Holds
<1>12. ~EndsEvent(tokens, n + 1)
    BY <1>2 DEF EndsEvent
<1> QED BY <1>3, <1>4, <1>5, <1>11, <1>12

(* The line that a newline ends.                                           *)
LEMMA LineEnds ==
    ASSUME NEW tokens \in Seq(STRING), NEW n \in 0..(Len(tokens) - 1),
           NEW b \in BufferType, Holds(tokens, n, b)
    PROVE  /\ Line(tokens, n + 1) = WithoutCR(b.partial)
           /\ Line(tokens, n + 1) \in Seq(STRING)
<1> DEFINE length == Len(b.partial)
           start == n + 1 - length
<1>1. /\ n \in Nat /\ length \in Nat /\ b.partial \in Seq(STRING)
    BY DEF BufferType
<1>2. /\ length <= n
      /\ start = 1 \/ start - 1 \in NewLines(tokens)
      /\ \A i \in start..n : i \notin NewLines(tokens)
      /\ b.partial = SubSeq(tokens, start, n)
    BY DEF Holds
<1> HIDE DEF length
<1>3. start \in 1..(n + 1) /\ n + 1 \in Nat /\ n + 1 - 1 = n
    BY <1>1, <1>2
<1> HIDE DEF start
<1>4. LineStart(tokens, n + 1) = start
    BY <1>2, <1>3, LineStartIs
<1>5. Line(tokens, n + 1) = WithoutCR(b.partial)
    BY <1>2, <1>3, <1>4 DEF Line
<1> QED BY <1>1, <1>5, WithoutCRType

(* A newline ends the unfinished line: an empty one ends the event if      *)
(* there is any data, a data line adds to it or gives up.                  *)
LEMMA TakeTokenNewLine ==
    ASSUME NEW tokens \in Seq(STRING), NEW n \in 0..(Len(tokens) - 1),
           NEW b \in BufferType, Holds(tokens, n, b),
           tokens[n + 1] = "nl"
    PROVE  LET c == TakeToken(b, tokens[n + 1])
           IN  /\ c \in BufferType
               /\ \/ /\ c = TripOverflow(b)
                     /\ ~EndsEvent(tokens, n + 1)
                  \/ /\ Holds(tokens, n + 1, c)
                     /\ c.partial = <<>>
                     /\ c.events = IF EndsEvent(tokens, n + 1)
                                   THEN Append(b.events,
                                          TextOf(tokens, DataBefore(tokens, n + 1))[n + 1])
                                   ELSE b.events
<1> DEFINE line == Line(tokens, n + 1)
           d == [b EXCEPT !.partial = <<>>]
           D == DataBefore(tokens, n + 1)
           c == TakeToken(b, tokens[n + 1])
<1>1. /\ Len(tokens) \in Nat /\ n \in Nat /\ n + 1 \in DOMAIN tokens
      /\ n + 1 \in 1..Len(tokens) /\ n + 1 \in NewLines(tokens)
    BY DEF NewLines
<1>2. line = WithoutCR(b.partial) /\ line \in Seq(STRING)
    BY LineEnds
<1>3. c = TakeLine(d, line)
    BY <1>2 DEF TakeToken, Holds
<1>4. /\ b.lines \in Nat /\ b.data \in Seq(STRING) /\ b.bytes \in Nat
      /\ b.events \in Seq(Seq(STRING)) /\ b.overflow = FALSE
      /\ b.lines > 0 <=> D # {}
      /\ b.data = TextOf(tokens, D)[n]
      /\ b.bytes = Len(b.data) /\ b.bytes <= MaxBuffer
    BY DEF BufferType, Holds
<1>5. /\ d \in BufferType
      /\ d.partial = <<>> /\ d.lines = b.lines /\ d.data = b.data
      /\ d.bytes = b.bytes /\ d.events = b.events /\ d.overflow = b.overflow
    BY EmptySeq DEF BufferType
<1>6. /\ Len(<<>>) = 0 /\ n + 1 + 1 - 0 = n + 2 /\ n + 2 - 1 = n + 1 /\ 0 <= n + 1
      /\ \A i \in (n + 2)..(n + 1) : i \notin NewLines(tokens)
      /\ <<>> = SubSeq(tokens, n + 2, n + 1)
    BY <1>1, SubSeqEmpty
<1>7. n + 1 \notin D
    BY <1>1 DEF DataBefore
<1>8. TextOf(tokens, D)[n + 1] = TextOf(tokens, D)[n]
  <2>1. n + 1 \in 1..Len(tokens) /\ (n + 1) - 1 = n /\ Len(tokens) \in Nat
      BY <1>1
  <2> QED BY <1>7, <2>1, TextOfAt
<1>h. ASSUME NEW e \in BufferType, ~e.overflow, e.partial = <<>>,
             e.lines > 0 <=> DataBefore(tokens, n + 1 + 1) # {},
             e.data = TextOf(tokens, DataBefore(tokens, n + 1 + 1))[n + 1],
             e.bytes = Len(e.data), e.bytes <= MaxBuffer
      PROVE  Holds(tokens, n + 1, e)
    BY <1>h, <1>1, <1>6 DEF Holds
<1>9. CASE line = <<>> /\ b.lines > 0
  <2> DEFINE e == [d EXCEPT !.events = Append(@, d.data),
                            !.lines = 0, !.data = <<>>, !.bytes = 0]
  <2>0. ~IsData(line) /\ d.lines > 0
      BY <1>5, <1>9 DEF IsData
  <2>1. c = e
      BY <1>3, <1>9, <2>0 DEF TakeLine
  <2>2. Append(b.events, b.data) \in Seq(Seq(STRING)) /\ <<>> \in Seq(STRING)
      BY <1>4, AppendProperties, EmptySeq
  <2>3. /\ e \in BufferType /\ e.partial = <<>> /\ e.lines = 0 /\ e.data = <<>>
        /\ e.bytes = 0 /\ e.events = Append(b.events, b.data) /\ ~e.overflow
      BY <1>4, <1>5, <2>2 DEF BufferType
  <2>4. EndsEvent(tokens, n + 1)
      BY <1>1, <1>4, <1>9 DEF EndsEvent
  <2>5. DataBefore(tokens, n + 1 + 1) = {}
      BY <1>1, <1>9, <2>0, DataBeforeNext
  <2>6. TextOf(tokens, {})[n + 1] = <<>>
      BY <1>1, TextOfNothing
  <2> HIDE DEF e, d
  <2>7. Holds(tokens, n + 1, e)
    <3>1. ~(0 > 0) /\ 0 <= MaxBuffer
        BY MeteringConstants
    <3> QED BY <1>h, <1>6, <2>3, <2>5, <2>6, <3>1
  <2>8. e.events = Append(b.events, TextOf(tokens, D)[n + 1])
      BY <1>4, <1>8, <2>3
  <2> QED BY <2>1, <2>3, <2>4, <2>7, <2>8
<1>10. CASE IsData(line)
  <2> DEFINE value == Value(line)
  <2>0. line # <<>> /\ value \in Seq(STRING) /\ Len(value) \in Nat
      BY <1>2, <1>10, ValueType DEF IsData
  <2>1. c = DataLine(d, value)
      BY <1>3, <1>10, <2>0 DEF TakeLine
  <2>2. ~EndsEvent(tokens, n + 1)
      BY <2>0 DEF EndsEvent
  <2>3. CASE d.bytes + Len(value) > MaxBuffer
    <3>1. c = TripOverflow(d)
        BY <2>1, <2>3 DEF DataLine
    <3>2. TripOverflow(d) = TripOverflow(b)
        BY <1>5 DEF TripOverflow
    <3>3. TripOverflow(b) \in BufferType
        BY <1>4, EmptySeq DEF TripOverflow, EmptyBuffer, BufferType
    <3> QED BY <2>2, <3>1, <3>2, <3>3
  <2>4. CASE ~(d.bytes + Len(value) > MaxBuffer)
    <3> DEFINE e == AddLine(d, value)
    <3>1. c = e
        BY <2>1, <2>4 DEF DataLine
    <3>2. /\ b.data \o value \in Seq(STRING)
          /\ Len(b.data \o value) = Len(b.data) + Len(value)
        BY <1>4, <2>0, ConcatProperties
    <3>3. /\ e \in BufferType /\ e.partial = <<>> /\ e.lines = b.lines + 1
          /\ e.data = b.data \o value /\ e.bytes = b.bytes + Len(value)
          /\ e.events = b.events /\ ~e.overflow
      <4> HIDE DEF d, value
      <4>1. b.lines + 1 \in Nat /\ b.bytes + Len(value) \in Nat
          BY <1>4, <2>0
      <4> QED BY <1>4, <1>5, <3>2, <4>1 DEF AddLine, BufferType
    <3>4. DataBefore(tokens, n + 1 + 1) = D \cup {n + 1}
        BY <1>1, <1>10, <2>0, DataBeforeNext
    <3>5. TextOf(tokens, D \cup {n + 1})[n + 1] = TextOf(tokens, D)[n] \o value
      <4> DEFINE E == D \cup {n + 1}
      <4>1. SameLines(E, D, n)
          BY <1>1 DEF SameLines
      <4>2. n + 1 \in E
          OBVIOUS
      <4> HIDE DEF D, E
      <4>3. TextOf(tokens, E)[n + 1] = IF n + 1 \in E THEN TextOf(tokens, D)[n] \o Value(line)
                                                     ELSE TextOf(tokens, D)[n]
          BY <1>1, <4>1, TextOfNext
      <4> QED BY <4>2, <4>3 DEF E
    <3>6. e.lines > 0 /\ e.bytes = Len(e.data) /\ e.bytes <= MaxBuffer
      <4> HIDE DEF e, d, value
      <4> QED BY <1>4, <1>5, <2>0, <2>4, <3>2, <3>3, MeteringConstants
    <3> HIDE DEF e, d, value
    <3>7. Holds(tokens, n + 1, e)
        BY <1>4, <1>h, <3>3, <3>4, <3>5, <3>6
    <3> QED BY <2>2, <3>1, <3>3, <3>7
  <2> QED BY <2>3, <2>4
<1>11. CASE ~IsData(line) /\ ~(line = <<>> /\ b.lines > 0)
  <2>1. c = d
      BY <1>3, <1>5, <1>11 DEF TakeLine
  <2>2. ~EndsEvent(tokens, n + 1)
      BY <1>4, <1>11 DEF EndsEvent
  <2>3. DataBefore(tokens, n + 1 + 1) = D
      BY <1>1, <1>4, <1>11, DataBeforeNext
  <2> HIDE DEF d
  <2>4. Holds(tokens, n + 1, d)
      BY <1>4, <1>5, <1>8, <1>h, <2>3
  <2> QED BY <1>5, <2>1, <2>2, <2>4
<1> QED BY <1>9, <1>10, <1>11

-----------------------------------------------------------------------------
(* Captured fields. *)

(* The path of a field names at least one key.                             *)
FieldsAreKeys == \A f \in BodyFields(Fields) : f \in Seq(STRING) /\ f # <<>>

Captured(r, n) == CapturedFrom(Documents(r), BodyFields(Fields), n)

(* What is absent has no value.                                            *)
LEMMA AbsentIsNot == ~Present(Absent)
BY DEF Present, Absent

(* The last value of a field, one position later.                          *)
LEMMA LastValueNext ==
    ASSUME NEW docs, DOMAIN docs \subseteq Nat, NEW field, NEW n \in Nat
    PROVE  LastValue(docs, field, n + 1) =
              IF n + 1 \in DOMAIN docs /\ Present(At(docs[n + 1], field))
              THEN At(docs[n + 1], field)
              ELSE LastValue(docs, field, n)
<1> DEFINE Having(m) == {e \in DOMAIN docs : e <= m /\ Present(At(docs[e], field))}
           LastOf(S) == CHOOSE e \in S : \A o \in S : o <= e
<1>1. \A m : LastValue(docs, field, m) =
                IF Having(m) = {} THEN Absent ELSE At(docs[LastOf(Having(m))], field)
    BY DEF LastValue
<1>2. CASE n + 1 \in DOMAIN docs /\ Present(At(docs[n + 1], field))
  <2>1. n + 1 \in Having(n + 1) /\ \A o \in Having(n + 1) : o <= n + 1 /\ o \in Nat
      BY <1>2
  <2>2. \A e \in Having(n + 1) : (\A o \in Having(n + 1) : o <= e) => e = n + 1
      BY <2>1
  <2> HIDE DEF Having
  <2>3. LastOf(Having(n + 1)) = n + 1
      BY <2>1, <2>2
  <2> QED BY <1>1, <1>2, <2>1, <2>3
<1>3. CASE ~(n + 1 \in DOMAIN docs /\ Present(At(docs[n + 1], field)))
  <2>1. \A e \in DOMAIN docs : e <= n + 1 <=> e <= n \/ e = n + 1
      OBVIOUS
  <2>2. Having(n + 1) = Having(n)
      BY <1>3, <2>1
  <2> HIDE DEF Having, LastOf
  <2> QED BY <1>1, <1>3, <2>2
<1> QED BY <1>2, <1>3

(* A document that completes at n + 1 replaces what was captured before of *)
(* the fields it has.                                                      *)
LEMMA CapturedNext ==
    ASSUME NEW docs, DOMAIN docs \subseteq Nat, NEW n \in Nat
    PROVE  CapturedFrom(docs, BodyFields(Fields), n + 1) =
              IF n + 1 \in DOMAIN docs
              THEN AccumulateFields(CapturedFrom(docs, BodyFields(Fields), n), docs[n + 1])
              ELSE CapturedFrom(docs, BodyFields(Fields), n)
<1> DEFINE fields == BodyFields(Fields)
           has(f) == Present(At(docs[n + 1], f))
           was(f) == LastValue(docs, f, n)
           is(f)  == LastValue(docs, f, n + 1)
<1>1. CASE n + 1 \notin DOMAIN docs
  <2>1. \A f : is(f) = was(f)
      BY <1>1, LastValueNext
  <2> QED BY <1>1, <2>1 DEF CapturedFrom
<1>2. CASE n + 1 \in DOMAIN docs
  <2>1. \A f : is(f) = IF has(f) THEN At(docs[n + 1], f) ELSE was(f)
      BY <1>2, LastValueNext
  <2>2. {f \in fields : Present(is(f))} =
           {f \in fields : Present(was(f))} \cup {f \in fields : has(f)}
      BY <2>1
  <2> HIDE DEF fields
  <2> DEFINE old == CapturedFrom(docs, fields, n)
             found == {f \in fields : has(f)}
  <2>3. /\ DOMAIN old = {f \in fields : Present(was(f))}
        /\ \A f \in DOMAIN old : old[f] = was(f)
      BY DEF CapturedFrom
  <2>4. AccumulateFields(old, docs[n + 1]) =
           [f \in DOMAIN old \cup found |->
              IF f \in found THEN At(docs[n + 1], f) ELSE old[f]]
      BY DEF AccumulateFields, fields
  <2>5. CapturedFrom(docs, fields, n + 1) = [f \in DOMAIN old \cup found |-> is(f)]
      BY <2>2, <2>3 DEF CapturedFrom
  <2>6. \A f \in DOMAIN old \cup found :
           is(f) = IF f \in found THEN At(docs[n + 1], f) ELSE old[f]
      BY <2>1, <2>3
  <2> HIDE DEF old, found, is
  <2>7. CapturedFrom(docs, fields, n + 1) = AccumulateFields(old, docs[n + 1])
      BY <2>4, <2>5, <2>6
  <2> QED BY <1>2, <2>7 DEF fields, old
<1> QED BY <1>1, <1>2

(* A text without any of the search keys has none of the fields.           *)
LEMMA SkippedHasNone ==
    ASSUME FieldsAreKeys, NEW doc, DOMAIN doc \subseteq Seq(STRING),
           ~MatchesSearchKeys(doc), NEW f \in BodyFields(Fields)
    PROVE  ~Present(At(doc, f))
<1> SUFFICES ASSUME Present(At(doc, f)) PROVE FALSE
    OBVIOUS
<1>1. PICK p \in DOMAIN doc : IsPrefix(f, p)
    BY DEF Present, At
<1>2. f \in Seq(STRING) /\ f # <<>> /\ Len(f) >= 1 /\ p \in Seq(STRING)
    BY DEF FieldsAreKeys
<1>3. f[1] = p[1] /\ 1 \in DOMAIN p
    BY <1>1, <1>2 DEF IsPrefix
<1>4. f[1] \in SearchKeys(Fields)
    BY DEF SearchKeys
<1> QED BY <1>3, <1>4 DEF MatchesSearchKeys, Range

(* A document ends at a position, the first of which is 1.                 *)
LEMMA EndsAreNumbers ==
    ASSUME NEW r, r.tokens \in Seq(STRING)
    PROVE  Ends(r) \subseteq Nat \ {0}
BY DEF Ends, NewLines

(* The documents are the texts that are JSON.                              *)
LEMMA EndsArePositive ==
    ASSUME NEW r, r.tokens \in Seq(STRING)
    PROVE  /\ DOMAIN Documents(r) \subseteq Nat \ {0}
           /\ DOMAIN Documents(r) = {e \in Ends(r) : IsJSON(TextAt(r, e))}
           /\ \A e \in DOMAIN Documents(r) : Documents(r)[e] = Texts[TextAt(r, e)]
<1>1. Ends(r) \subseteq Nat \ {0}
    BY EndsAreNumbers
<1> QED BY <1>1 DEF Documents

(* Nothing is captured before the first document ends.                     *)
LEMMA CapturedNothing ==
    ASSUME NEW r, r.tokens \in Seq(STRING), NEW n, \A e \in Ends(r) : ~(e <= n)
    PROVE  Captured(r, n) = Absent
<1> DEFINE docs == Documents(r)
           fields == BodyFields(Fields)
<1>0. DOMAIN docs \subseteq Ends(r)
    BY EndsArePositive
<1> HIDE DEF docs, fields
<1>1. \A e \in DOMAIN docs : ~(e <= n)
    BY <1>0
<1>2. ASSUME NEW f PROVE ~Present(LastValue(docs, f, n))
    BY <1>1, AbsentIsNot DEF LastValue
<1>3. {f \in fields : Present(LastValue(docs, f, n))} = {}
    BY <1>2
<1>4. CapturedFrom(docs, fields, n) = Absent
    BY <1>3 DEF CapturedFrom, Absent
<1> QED BY <1>4 DEF Captured, docs, fields

(* What the text that ends at n + 1 adds, if one does.                     *)
LEMMA CapturedAtEnd ==
    ASSUME FieldsAreKeys, NEW r, r.tokens \in Seq(STRING), NEW n \in Nat,
           n + 1 \in Ends(r)
    PROVE  ExtractFields(Captured(r, n), TextAt(r, n + 1)) = Captured(r, n + 1)
<1> DEFINE docs == Documents(r)
           text == TextAt(r, n + 1)
           fields == BodyFields(Fields)
           acc == Captured(r, n)
<1>1. /\ DOMAIN docs \subseteq Nat
      /\ n + 1 \in DOMAIN docs <=> IsJSON(text)
      /\ n + 1 \in DOMAIN docs => docs[n + 1] = Texts[text]
    BY EndsArePositive
<1>2. Captured(r, n + 1) =
         IF n + 1 \in DOMAIN docs THEN AccumulateFields(acc, docs[n + 1]) ELSE acc
    BY <1>1, CapturedNext DEF Captured
<1>3. CASE ~IsJSON(text)
    BY <1>1, <1>2, <1>3 DEF ExtractFields
<1>4. CASE IsJSON(text) /\ MatchesSearchKeys(Texts[text])
    BY <1>1, <1>2, <1>4 DEF ExtractFields
<1>5. CASE IsJSON(text) /\ ~MatchesSearchKeys(Texts[text])
  <2>1. DOMAIN Texts[text] \subseteq Seq(STRING)
      BY <1>5, TokensAndDocuments DEF IsJSON, IsDocument
  <2>2. \A f \in fields : ~Present(At(Texts[text], f))
      BY <1>5, <2>1, SkippedHasNone
  <2>3. {f \in fields : Present(At(Texts[text], f))} = {}
      BY <2>2
  <2>4. acc = [f \in DOMAIN acc |-> acc[f]]
      BY DEF Captured, CapturedFrom
  <2> HIDE DEF fields, acc, text
  <2>5. AccumulateFields(acc, Texts[text]) = acc
      BY <2>3, <2>4 DEF AccumulateFields, fields
  <2> QED BY <1>1, <1>2, <1>5, <2>5 DEF ExtractFields, fields, acc, text
<1> QED BY <1>3, <1>4, <1>5

(* Where no document ends nothing is captured.                             *)
LEMMA CapturedBetween ==
    ASSUME NEW r, r.tokens \in Seq(STRING), NEW n \in Nat, n + 1 \notin Ends(r)
    PROVE  Captured(r, n + 1) = Captured(r, n)
<1>1. DOMAIN Documents(r) \subseteq Nat /\ n + 1 \notin DOMAIN Documents(r)
    BY EndsArePositive
<1> QED BY <1>1, CapturedNext DEF Captured

-----------------------------------------------------------------------------
(* A chunk of an event stream. *)

IsStream(r) == r.transport # "websocket" /\ r.sse

(* The documents of an event stream are the data of its events.            *)
LEMMA StreamEnds ==
    ASSUME NEW r, IsStream(r), r.tokens \in Seq(STRING), NEW e \in DOMAIN r.tokens
    PROVE  /\ e \in Ends(r) <=> EndsEvent(r.tokens, e)
           /\ TextAt(r, e) = TextOf(r.tokens, DataBefore(r.tokens, e))[e]
BY DEF IsStream, Ends, TextAt, EndsEvent

Extracted(acc, b) == ExtractAll(acc, b.events)[Len(b.events)]

(* What a token does to the buffer and, by the events it ends, to the      *)
(* captured fields.                                                        *)
LEMMA TakeTokenCaptures ==
    ASSUME FieldsAreKeys, NEW r, IsStream(r), r.tokens \in Seq(STRING),
           NEW n \in 0..(Len(r.tokens) - 1),
           NEW b \in BufferType, Holds(r.tokens, n, b),
           NEW acc, Extracted(acc, b) = Captured(r, n)
    PROVE  LET c == TakeToken(b, r.tokens[n + 1])
           IN  /\ c \in BufferType
               /\ Extracted(acc, c) = Captured(r, n + 1)
               /\ \/ c = TripOverflow(b)
                  \/ Holds(r.tokens, n + 1, c) /\ Len(c.partial) <= Len(b.partial) + 1
<1> DEFINE c == TakeToken(b, r.tokens[n + 1])
           text == TextOf(r.tokens, DataBefore(r.tokens, n + 1))[n + 1]
<1>1. n \in Nat /\ n + 1 \in DOMAIN r.tokens /\ r.tokens[n + 1] \in STRING
    OBVIOUS
<1>2. Len(b.partial) \in Nat /\ b.events \in Seq(Seq(STRING))
    BY DEF BufferType
<1>3. CASE r.tokens[n + 1] # "nl"
  <2>1. /\ c \in BufferType /\ Holds(r.tokens, n + 1, c) /\ c.events = b.events
        /\ Len(c.partial) = Len(b.partial) + 1 /\ ~EndsEvent(r.tokens, n + 1)
      BY <1>3, TakeTokenPlain
  <2>2. Captured(r, n + 1) = Captured(r, n)
      BY <1>1, <2>1, StreamEnds, CapturedBetween
  <2> HIDE DEF c
  <2> QED BY <1>2, <2>1, <2>2 DEF Extracted, c
<1>4. CASE r.tokens[n + 1] = "nl"
  <2>1. c \in BufferType
      BY <1>4, TakeTokenNewLine
  <2>2. CASE c = TripOverflow(b) /\ ~EndsEvent(r.tokens, n + 1)
    <3>1. c.events = b.events
        BY <2>2 DEF TripOverflow, EmptyBuffer
    <3>2. Captured(r, n + 1) = Captured(r, n)
        BY <1>1, <2>2, StreamEnds, CapturedBetween
    <3> HIDE DEF c
    <3> QED BY <2>1, <2>2, <3>1, <3>2 DEF Extracted, c
  <2>3. CASE /\ Holds(r.tokens, n + 1, c) /\ c.partial = <<>>
             /\ EndsEvent(r.tokens, n + 1) /\ c.events = Append(b.events, text)
    <3>1. n + 1 \in Ends(r) /\ text = TextAt(r, n + 1)
        BY <1>1, <2>3, StreamEnds
    <3>2. ExtractFields(Captured(r, n), text) = Captured(r, n + 1)
        BY <1>1, <3>1, CapturedAtEnd
    <3>3. text \in Seq(STRING) /\ Len(c.events) = Len(b.events) + 1
      <4> HIDE DEF c, text
      <4>1. c.events \in Seq(Seq(STRING))
          BY <2>1 DEF BufferType
      <4>2. Len(b.events) \in Nat /\ Len(Append(b.events, text)) = Len(b.events) + 1
            /\ Append(b.events, text)[Len(b.events) + 1] = text
          BY <1>2
      <4>3. Len(b.events) + 1 \in 1..Len(c.events)
          BY <2>3, <4>2
      <4> QED BY <2>3, <4>1, <4>2, <4>3, ElementOfSeq
    <3>4. ExtractAll(acc, Append(b.events, text))[Len(b.events) + 1]
             = ExtractFields(ExtractAll(acc, b.events)[Len(b.events)], text)
        BY <1>2, <3>3, ExtractAllAppend
    <3>5. Len(c.partial) <= Len(b.partial) + 1
        BY <1>2, <2>3
    <3> HIDE DEF c, text
    <3>6. Extracted(acc, c) = Captured(r, n + 1)
        BY <2>3, <3>2, <3>3, <3>4 DEF Extracted
    <3> QED BY <2>1, <2>3, <3>5, <3>6 DEF c
  <2>4. CASE /\ Holds(r.tokens, n + 1, c) /\ c.partial = <<>>
             /\ ~EndsEvent(r.tokens, n + 1) /\ c.events = b.events
    <3>1. Captured(r, n + 1) = Captured(r, n)
        BY <1>1, <2>4, StreamEnds, CapturedBetween
    <3>2. Len(c.partial) <= Len(b.partial) + 1
        BY <1>2, <2>4
    <3> HIDE DEF c
    <3> QED BY <2>1, <2>4, <3>1, <3>2 DEF Extracted, c
  <2> QED BY <1>4, <2>2, <2>3, <2>4, TakeTokenNewLine
<1> QED BY <1>3, <1>4

(* A buffer that gave up keeps nothing.                                    *)
Dropped(b) == b.overflow /\ b.partial = <<>> /\ b.data = <<>>

(* Giving up drops what is kept, and keeps the events that ended before.   *)
LEMMA TripDrops ==
    ASSUME NEW b \in BufferType
    PROVE  /\ TripOverflow(b) \in BufferType /\ Dropped(TripOverflow(b))
           /\ TripOverflow(b).events = b.events
<1>1. b.events \in Seq(Seq(STRING)) /\ <<>> \in Seq(STRING)
    BY EmptySeq DEF BufferType
<1> QED BY <1>1 DEF TripOverflow, EmptyBuffer, BufferType, Dropped

(* Without events nothing is captured.                                     *)
LEMMA NoEvents ==
    ASSUME NEW acc, NEW b, b.events = <<>>
    PROVE  Extracted(acc, b) = acc
<1>1. Len(<<>>) = 0 /\ 0 \in 0..0 /\ Len(<<>>) \in Nat
    OBVIOUS
<1>2. ExtractAll(acc, <<>>)[0] = acc
    BY <1>1, ExtractAllStep
<1> QED BY <1>1, <1>2 DEF Extracted

(* A chunk, token by token: the fields are captured from all of it, or     *)
(* from what came before capture was given up.                             *)
LEMMA ChunkCaptures ==
    ASSUME FieldsAreKeys, NEW r, IsStream(r), r.tokens \in Seq(STRING),
           NEW p \in 0..Len(r.tokens), NEW n \in p..Len(r.tokens),
           NEW b \in BufferType, Holds(r.tokens, p, b), b.events = <<>>,
           Len(b.partial) <= MaxBuffer
    PROVE  LET c == ParseSSEChunk(b, SubSeq(r.tokens, p + 1, n))
               after == Extracted(Captured(r, p), c)
           IN  /\ c \in BufferType
               /\ \/ /\ Holds(r.tokens, n, c) /\ Len(c.partial) <= MaxBuffer
                     /\ after = Captured(r, n)
                  \/ Dropped(c) /\ \E m \in 0..n : after = Captured(r, m)
<1> DEFINE chunk == SubSeq(r.tokens, p + 1, n)
           state == TakeTokens(b, chunk)
           acc == Captured(r, p)
           start == Len(b.partial)
           Good(c, k) == /\ Holds(r.tokens, p + k, c)
                         /\ Extracted(acc, c) = Captured(r, p + k)
                         /\ Len(c.partial) <= start + k
           Gone(c, k) == /\ Dropped(c)
                         /\ \E m \in 0..(p + k) : Extracted(acc, c) = Captured(r, m)
           S == {k \in Nat : k <= Len(chunk) =>
                   state[k] \in BufferType /\ (Good(state[k], k) \/ Gone(state[k], k))}
<1>1. /\ Len(r.tokens) \in Nat /\ p \in Nat /\ n \in Nat /\ p <= n /\ n <= Len(r.tokens)
      /\ start \in Nat /\ start <= MaxBuffer
    BY DEF BufferType
<1>2. /\ chunk \in Seq(STRING) /\ Len(chunk) = n - p
      /\ \A k \in 1..(n - p) : chunk[k] = r.tokens[p + k]
  <2>1. \A i \in (p + 1)..n : r.tokens[i] \in STRING
      BY <1>1, ElementOfSeq
  <2>2. p + 1 \in Int /\ n \in Int /\ n - (p + 1) + 1 = n - p
      BY <1>1
  <2>3. /\ chunk \in Seq(STRING)
        /\ Len(chunk) = IF p + 1 <= n THEN n - (p + 1) + 1 ELSE 0
        /\ \A i \in 1..(n - (p + 1) + 1) : chunk[i] = r.tokens[p + 1 + i - 1]
      BY <2>1, <2>2, SubSeqProperties
  <2>4. \A i \in 1..(n - p) : p + 1 + i - 1 = p + i
      BY <1>1
  <2> HIDE DEF chunk
  <2>5. Len(chunk) = n - p
      BY <1>1, <2>3
  <2>6. ASSUME NEW k \in 1..(n - p) PROVE chunk[k] = r.tokens[p + k]
    <3>1. k \in 1..(n - (p + 1) + 1)
        BY <2>2
    <3> QED BY <2>3, <2>4, <3>1
  <2> QED BY <2>3, <2>5, <2>6
<1> HIDE DEF chunk, start
<1>3. /\ Len(chunk) \in Nat
      /\ state[0] = b
      /\ \A k \in 1..Len(chunk) : state[k] = TakeToken(state[k - 1], chunk[k])
  <2>1. Len(chunk) \in Nat
      BY <1>1, <1>2
  <2>2. state = [k \in 0..Len(chunk) |->
                   IF k = 0 THEN b ELSE TakeToken(state[k - 1], chunk[k])]
      BY <2>1, TakeTokensStep
  <2> HIDE DEF state
  <2> QED BY <2>1, <2>2
<1> HIDE DEF state, acc
<1>4. 0 \in S
  <2>1. Extracted(acc, b) = acc /\ p + 0 = p /\ start <= start + 0
      BY <1>1, NoEvents
  <2> QED BY <1>3, <2>1 DEF acc, start
<1>5. ASSUME NEW k \in Nat, k \in S PROVE k + 1 \in S
  <2> SUFFICES ASSUME k + 1 <= Len(chunk)
               PROVE  /\ state[k + 1] \in BufferType
                      /\ Good(state[k + 1], k + 1) \/ Gone(state[k + 1], k + 1)
      OBVIOUS
  <2>1. /\ state[k] \in BufferType /\ (Good(state[k], k) \/ Gone(state[k], k))
      BY <1>3, <1>5
  <2>2. /\ p + k \in 0..(Len(r.tokens) - 1) /\ p + (k + 1) = p + k + 1
        /\ k + 1 \in 1..(n - p) /\ (k + 1) - 1 = k
      BY <1>1, <1>2
  <2>3. state[k + 1] = TakeToken(state[k], r.tokens[p + k + 1])
    <3>1. k + 1 \in 1..Len(chunk)
        BY <1>2, <2>2
    <3>2. state[k + 1] = TakeToken(state[(k + 1) - 1], chunk[k + 1])
        BY <1>3, <3>1
    <3>3. chunk[k + 1] = r.tokens[p + (k + 1)]
        BY <1>2, <2>2
    <3> QED BY <2>2, <3>2, <3>3
  <2>4. CASE Good(state[k], k)
    <3> DEFINE c == TakeToken(state[k], r.tokens[p + k + 1])
    <3>1. /\ c \in BufferType
          /\ Extracted(acc, c) = Captured(r, p + k + 1)
          /\ \/ c = TripOverflow(state[k])
             \/ /\ Holds(r.tokens, p + k + 1, c)
                /\ Len(c.partial) <= Len(state[k].partial) + 1
        BY <2>1, <2>2, <2>4, TakeTokenCaptures
    <3>2. Len(c.partial) \in Nat /\ Len(state[k].partial) \in Nat
      <4> HIDE DEF c
      <4>1. \A x \in BufferType : x.partial \in Seq(STRING)
          BY DEF BufferType
      <4>2. c.partial \in Seq(STRING) /\ state[k].partial \in Seq(STRING)
          BY <2>1, <3>1, <4>1
      <4> QED BY <4>2
    <3>3. p + (k + 1) \in 0..(p + (k + 1))
        BY <1>1
    <3> HIDE DEF c
    <3>4. CASE c = TripOverflow(state[k])
        BY <2>1, <2>2, <2>3, <3>1, <3>3, <3>4, TripDrops DEF c
    <3>5. CASE /\ Holds(r.tokens, p + k + 1, c)
               /\ Len(c.partial) <= Len(state[k].partial) + 1
      <4>1. Len(state[k].partial) <= start + k /\ start \in Nat
          BY <1>1, <2>4
      <4>2. Len(c.partial) <= start + (k + 1)
          BY <3>2, <3>5, <4>1
      <4> QED BY <2>2, <2>3, <3>1, <3>5, <4>2 DEF c
    <3> QED BY <3>1, <3>4, <3>5
  <2>5. CASE Gone(state[k], k)
    <3>1. state[k + 1] = state[k]
        BY <2>3, <2>5 DEF TakeToken, Dropped
    <3>2. 0..(p + k) \subseteq 0..(p + (k + 1))
        BY <1>1
    <3> QED BY <2>1, <2>5, <3>1, <3>2
  <2> QED BY <2>1, <2>4, <2>5
<1>6. Len(chunk) \in S
  <2> HIDE DEF S
  <2> QED BY <1>3, <1>4, <1>5, NatSetInduction
<1>7. ~b.overflow
    BY DEF Holds
<1>8. CASE start + Len(chunk) > MaxBuffer
  <2>1. ParseSSEChunk(b, chunk) = TripOverflow(b)
      BY <1>7, <1>8 DEF ParseSSEChunk, start
  <2>2. Extracted(acc, TripOverflow(b)) = acc /\ p \in 0..n
      BY <1>1, TripDrops, NoEvents
  <2> QED BY <2>1, <2>2, TripDrops DEF acc, chunk
<1>9. CASE ~(start + Len(chunk) > MaxBuffer)
  <2>1. ParseSSEChunk(b, chunk) = state[Len(chunk)]
      BY <1>7, <1>9 DEF ParseSSEChunk, start, state
  <2> DEFINE c == state[Len(chunk)]
  <2>2. c \in BufferType /\ (Good(c, Len(chunk)) \/ Gone(c, Len(chunk)))
      BY <1>3, <1>6
  <2>3. p + Len(chunk) = n /\ Len(chunk) \in Nat
      BY <1>1, <1>2
  <2>4. Len(c.partial) \in Nat
      BY <2>2 DEF BufferType
  <2> HIDE DEF c
  <2>5. ASSUME Good(c, Len(chunk))
        PROVE  Holds(r.tokens, n, c) /\ Len(c.partial) <= MaxBuffer
               /\ Extracted(acc, c) = Captured(r, n)
    <3>1. Len(c.partial) <= MaxBuffer
        BY <1>1, <1>9, <2>3, <2>4, <2>5, MeteringConstants
    <3> QED BY <2>3, <2>5, <3>1
  <2>6. ASSUME Gone(c, Len(chunk))
        PROVE  Dropped(c) /\ \E m \in 0..n : Extracted(acc, c) = Captured(r, m)
      BY <2>3, <2>6
  <2>7. ParseSSEChunk(b, chunk) = c
      BY <2>1 DEF c
  <2> QED BY <2>2, <2>5, <2>6, <2>7 DEF chunk, acc
<1> QED BY <1>8, <1>9

-----------------------------------------------------------------------------
(* The fields of a location are those of the rules of its operations. *)

(* A route of a location is an operation of the document.                  *)
LEMMA RoutesAreOperations ==
    ASSUME NEW ops, NEW i, NEW upgrade, NEW m \in LocationBlock(ops, i, upgrade).routes
    PROVE  <<LocationBlock(ops, i, upgrade).path, m>> \in DOMAIN ops
<1>1. LocationBlock(ops, i, upgrade).path = i
    BY DEF LocationBlock
<1>2. m \in HTTPRoutes(ops, i) \cup FirstWsRoute(ops, i)
    BY DEF LocationBlock
<1>3. FirstWsRoute(ops, i) \subseteq GroupRoutesByPath(ops, i)
  <2> DEFINE order == {n \in DOMAIN HTTPMethods :
                         /\ HTTPMethods[n] \in GroupRoutesByPath(ops, i)
                         /\ ops[<<i, HTTPMethods[n]>>].transport = "websocket"}
  <2>1. order \subseteq Nat
      BY DEF HTTPMethods
  <2>2. CASE order = {}
      BY <2>2 DEF FirstWsRoute
  <2>3. CASE order # {}
    <3>1. \E n \in order : \A o \in order : n <= o
        BY <2>1, <2>3, LeastNat
    <3>2. Earliest(order) \in order
      <4> HIDE DEF order
      <4> QED BY <3>1 DEF Earliest
    <3>3. FirstWsRoute(ops, i) = {HTTPMethods[Earliest(order)]}
        BY <2>3 DEF FirstWsRoute
    <3> QED BY <3>2, <3>3
  <2> QED BY <2>2, <2>3
<1>4. m \in GroupRoutesByPath(ops, i)
    BY <1>2, <1>3 DEF HTTPRoutes
<1> QED BY <1>1, <1>4 DEF GroupRoutesByPath

(* A field that a location captures is one that a rule of its operations   *)
(* reads.                                                                  *)
LEMMA FieldsOfRules ==
    ASSUME OpOf(request) # {}, NEW f \in Fields
    PROVE  \E key \in DOMAIN Ops : \E i \in DOMAIN Ops[key].rules :
              f \in ExtractResponseRefs(Ops[key].rules[i])
<1>1. LocationOf(request) # {}
    BY DEF OpOf
<1>2. Location \in LocationOf(request)
    BY <1>1 DEF Location
<1>3. PICK i : Location = LocationBlock(Ops, i, request.upgrade)
    BY <1>2 DEF LocationOf, FindLocation
<1>4. PICK m \in Location.routes : f \in CaptureFields(Ops[<<Location.path, m>>])
    BY DEF Fields, LocationFields
<1>5. <<Location.path, m>> \in DOMAIN Ops
    BY <1>3, <1>4, RoutesAreOperations
<1> QED BY <1>4, <1>5 DEF CaptureFields

(* A spec that was loaded, and what the generator accepted of it.          *)
Accepted ==
    /\ ValidSpec(spec)
    /\ \A key \in DOMAIN Ops : \A rule \in Range(Ops[key].rules) : Analyzable(rule)

(* The generator refuses a reference to the whole body, so that the path   *)
(* of every field that is captured has a key.                              *)
LEMMA AcceptedFields ==
    ASSUME spec \in Specs, Accepted, OpOf(request) # {}
    PROVE  FieldsAreKeys
<1> SUFFICES ASSUME NEW f \in Fields, ClassifyRef(f) = "body"
             PROVE  BodyFieldPath(f) \in Seq(STRING) /\ BodyFieldPath(f) # <<>>
    BY DEF FieldsAreKeys, BodyFields
<1>1. PICK key \in DOMAIN Ops :
         \E i \in DOMAIN Ops[key].rules : f \in ExtractResponseRefs(Ops[key].rules[i])
    BY FieldsOfRules
<1>2. PICK i \in DOMAIN Ops[key].rules : f \in ExtractResponseRefs(Ops[key].rules[i])
    BY <1>1
<1> DEFINE rule == Ops[key].rules[i]
<1>3. f \in Seq(STRING) /\ Analyzable(rule)
  <2>1. IsExpression(rule.capture)
      BY RulesAreParsed DEF Accepted, Ops, IsRule
  <2>2. Analyzable(rule)
      BY DEF Accepted, Range
  <2> HIDE DEF rule
  <2>3. PICK p \in DOMAIN rule.capture :
           rule.capture[p].k = "ref" /\ f = rule.capture[p].p
      BY <1>2 DEF ExtractResponseRefs, ExtractPlainRefs, rule
  <2>4. f \in Seq(STRING)
      BY <2>1, <2>3 DEF IsExpression, IsOperator, Arithmetic
  <2> QED BY <2>2, <2>4
<1> HIDE DEF rule
<1>4. Len(f) > 2 /\ Len(f) \in Nat
    BY <1>2, <1>3 DEF Analyzable, rule
<1>5. \A k \in 3..Len(f) : f[k] \in STRING
    BY <1>3, <1>4, ElementOfSeq
<1>6. /\ SubSeq(f, 3, Len(f)) \in Seq(STRING)
      /\ Len(SubSeq(f, 3, Len(f))) = IF 3 <= Len(f) THEN Len(f) - 3 + 1 ELSE 0
    BY <1>4, <1>5, SubSeqProperties
<1>7. Len(SubSeq(f, 3, Len(f))) # 0
    BY <1>4, <1>6
<1> QED BY <1>6, <1>7 DEF BodyFieldPath

-----------------------------------------------------------------------------
(* The invariant. *)

TypeInv ==
    /\ TypeOK
    /\ response.tokens \in Seq(STRING)
    /\ eof => pos = Len(response.tokens)
    /\ buffer \in BufferType /\ buffer.events = <<>>
    /\ chunks \in Seq(STRING)

Idle ==
    /\ pos = 0 /\ eof = FALSE
    /\ buffer = EmptyBuffer /\ chunks = <<>> /\ overflow = FALSE
    /\ flat = Absent

(* What nginx has captured, and what it keeps of the rest of the response, *)
(* by the kind of response.                                                *)
FaithfulFrames ==
    /\ response.transport = "websocket"
    /\ eof = FALSE /\ overflow = FALSE /\ buffer = EmptyBuffer
    /\ flat = Captured(response, pos)

FaithfulStream ==
    /\ IsStream(response) /\ overflow = FALSE
    /\ \/ Holds(response.tokens, pos, buffer) /\ flat = Captured(response, Seen)
       \/ Dropped(buffer) /\ \E n \in 0..Seen : flat = Captured(response, n)

FaithfulBody ==
    /\ response.transport # "websocket" /\ ~response.sse /\ buffer = EmptyBuffer
    /\ \/ /\ overflow = FALSE /\ flat = Captured(response, Seen)
          /\ ~eof => chunks = SubSeq(response.tokens, 1, pos)
       \/ overflow = TRUE /\ \E n \in 0..Seen : flat = Captured(response, n)

Faithful ==
    BodyFields(Fields) # {} => FaithfulFrames \/ FaithfulStream \/ FaithfulBody

IInv ==
    /\ TypeInv
    /\ pc \notin {"load", "refused"} => Accepted
    /\ pc \in {"upstream", "closed", "body", "log", "done"} => OpOf(request) # {}
    /\ pc \notin {"body", "log", "done"} => Idle
    /\ pc \in {"body", "log", "done"} =>
          /\ Faithful
          /\ response.transport = "websocket" <=> IsWebSocket

(* The fields, and what they are captured from, stay what they are.        *)
LEMMA SameFields ==
    ASSUME spec' = spec, request' = request
    PROVE  /\ Ops' = Ops /\ Fields' = Fields /\ IsWebSocket' = IsWebSocket
           /\ OpOf(request)' = OpOf(request) /\ Accepted' = Accepted
<1>1. Ops' = Ops
    BY DEF Ops
<1>2. LocationOf(request)' = LocationOf(request)
    BY <1>1 DEF LocationOf, Ops
<1>3. Location' = Location
    BY <1>2 DEF Location
<1>4. Fields' = Fields
    BY <1>1, <1>3 DEF Fields
<1>5. IsWebSocket' = IsWebSocket
    BY <1>3 DEF IsWebSocket
<1>6. OpOf(request)' = OpOf(request)
    BY <1>2 DEF OpOf
<1>7. Accepted' = Accepted
    BY <1>1 DEF Accepted
<1> QED BY <1>1, <1>4, <1>5, <1>6, <1>7

(* What a response would have captured depends on the document, the        *)
(* request and the response alone.                                         *)
LEMMA SameCaptured ==
    ASSUME spec' = spec, request' = request, response' = response, NEW n
    PROVE  CapturedFrom(Documents(response), BodyFields(Fields), n)'
              = Captured(response, n)
<1>1. Fields' = Fields
    BY SameFields
<1> QED BY <1>1 DEF Captured

(* A step that leaves the request, the response and the capture alone      *)
(* leaves the capture faithful.                                            *)
LEMMA SameFaithful ==
    ASSUME UNCHANGED <<spec, request, response, captureVars>>
    PROVE  Faithful' = Faithful
BY SameFields DEF captureVars, Faithful, FaithfulFrames, FaithfulStream, FaithfulBody,
       Captured, Seen, IsStream, Holds, Dropped

(* Initially nothing is captured.                                          *)
LEMMA InitInv == Init => IInv
<1> SUFFICES ASSUME Init PROVE IInv
    OBVIOUS
<1>1. /\ response.tokens = <<>> /\ <<>> \in Seq(STRING) /\ Len(<<>>) = 0 /\ 0 \in 0..0
      /\ 0 \in Nat
    BY EmptySeq DEF Init, NoResponse
<1>2. /\ EmptyBuffer \in BufferType /\ EmptyBuffer.events = <<>>
      /\ EmptyBuffer.partial = <<>> /\ EmptyBuffer.data = <<>>
    BY EmptySeq DEF EmptyBuffer, BufferType
<1>3. NoOutcome.kind \in Kinds
    BY DEF NoOutcome, Kinds
<1>4. /\ spec \in Specs /\ pc = "load" /\ auth = NoOutcome /\ bill = NoOutcome
      /\ Idle
    BY DEF Init, Idle
<1>5. TypeOK
  <2>1. 0 <= MaxBuffer /\ 0 <= MaxBody /\ FALSE \in BOOLEAN
      BY MeteringConstants
  <2>2. /\ pos = 0 /\ eof = FALSE /\ buffer = EmptyBuffer /\ chunks = <<>>
        /\ overflow = FALSE
      BY <1>4 DEF Idle
  <2>3. pos \in 0..Len(response.tokens)
      BY <1>1, <2>2
  <2>4. Len(buffer.partial) <= MaxBuffer /\ Len(buffer.data) <= MaxBuffer
        /\ Len(chunks) <= MaxBody
      BY <1>1, <1>2, <2>1, <2>2
  <2> QED BY <1>3, <1>4, <2>1, <2>2, <2>3, <2>4 DEF TypeOK
<1> QED BY <1>1, <1>2, <1>4, <1>5 DEF IInv, TypeInv, Idle

(* The actions that capture nothing.                                       *)
SameCapture == UNCHANGED <<response, captureVars>>

(* Such a step keeps the types and an idle capture idle.                   *)
LEMMA SameTypes ==
    ASSUME TypeInv, SameCapture, spec' = spec,
           pc' \in {"load", "refused", "idle", "denied", "passed", "upstream",
                    "closed", "body", "log", "done"},
           auth'.kind \in Kinds, bill'.kind \in Kinds
    PROVE  TypeInv' /\ Idle' = Idle
BY DEF TypeInv, TypeOK, SameCapture, captureVars, Idle

(* Loading the spec.                                                       *)
LEMMA LoadSpecInv ==
    ASSUME IInv, LoadSpec
    PROVE  IInv'
<1>1. /\ pc = "load" /\ spec' = spec /\ request' = request /\ auth' = auth
      /\ bill' = bill /\ SameCapture /\ pc' \in {"idle", "refused"}
    BY DEF LoadSpec, requestVars, SameCapture
<1>2. TypeInv /\ Idle
    BY <1>1 DEF IInv
<1>3. auth'.kind \in Kinds /\ bill'.kind \in Kinds
    BY <1>1, <1>2 DEF TypeInv, TypeOK
<1>4. TypeInv' /\ Idle'
    BY <1>1, <1>2, <1>3, SameTypes
<1>5. pc' = "idle" => Accepted
    BY DEF LoadSpec, Accepted
<1>6. Accepted' = Accepted
    BY <1>1, SameFields
<1> QED BY <1>1, <1>4, <1>5, <1>6 DEF IInv

(* What /request answers is an outcome.                                    *)
LEMMA AuthorizeKind ==
    ASSUME NEW q
    PROVE  Authorize(q).kind \in Kinds
BY DEF Authorize, Outcome, Kinds

(* Pricing the request.                                                    *)
LEMMA HandleRequestInv ==
    ASSUME IInv, HandleRequest
    PROVE  IInv'
<1>1. /\ pc = "idle" /\ spec' = spec /\ bill' = bill /\ SameCapture
      /\ pc' \in {"passed", "denied", "upstream"}
    BY DEF HandleRequest, SameCapture
<1>2. TypeInv /\ Idle /\ Accepted
    BY <1>1 DEF IInv
<1>3. PICK q : /\ request' = q
               /\ \/ auth' = NoOutcome /\ pc' = "passed"
                  \/ OpOf(q) # {} /\ auth' = Authorize(q)
    BY DEF HandleRequest
<1>4. auth'.kind \in Kinds
    BY <1>3, AuthorizeKind DEF NoOutcome, Kinds
<1>5. bill'.kind \in Kinds
    BY <1>1, <1>2 DEF TypeInv, TypeOK
<1>6. TypeInv' /\ Idle'
    BY <1>1, <1>2, <1>4, <1>5, SameTypes
<1>7. Accepted'
    BY <1>1, <1>2 DEF Accepted, Ops
<1>8. pc' # "passed" => OpOf(request)' # {}
    BY <1>1, <1>3 DEF OpOf, LocationOf, Ops
<1> QED BY <1>1, <1>6, <1>7, <1>8 DEF IInv

(* Refusing what is no handshake.                                          *)
LEMMA RefuseHandshakeInv ==
    ASSUME IInv, RefuseHandshake
    PROVE  IInv'
<1>1. /\ pc = "upstream" /\ pc' = "closed" /\ spec' = spec /\ request' = request
      /\ auth' = auth /\ bill' = bill /\ SameCapture
    BY DEF RefuseHandshake, requestVars, SameCapture
<1>2. TypeInv /\ Idle /\ Accepted /\ OpOf(request) # {}
    BY <1>1 DEF IInv
<1>3. auth'.kind \in Kinds /\ bill'.kind \in Kinds
    BY <1>1, <1>2 DEF TypeInv, TypeOK
<1>4. TypeInv' /\ Idle'
    BY <1>1, <1>2, <1>3, SameTypes
<1>5. Accepted' /\ OpOf(request)' # {}
    BY <1>1, <1>2, SameFields
<1> QED BY <1>1, <1>4, <1>5 DEF IInv

(* The response is over, or priced.                                        *)
LEMMA AfterwardsInv ==
    ASSUME IInv, EndResponse \/ HandleResponse
    PROVE  IInv'
<1>1. /\ pc \in {"body", "log"} /\ pc' \in {"log", "done"} /\ spec' = spec
      /\ request' = request /\ auth' = auth /\ SameCapture
      /\ bill' = bill \/ bill' = Capture
    BY DEF EndResponse, HandleResponse, requestVars, SameCapture
<1>2. /\ TypeInv /\ Accepted /\ OpOf(request) # {} /\ Faithful
      /\ response.transport = "websocket" <=> IsWebSocket
    BY <1>1 DEF IInv
<1>3. Capture.kind \in Kinds
    BY DEF Capture, Outcome, Kinds
<1>4. auth'.kind \in Kinds /\ bill'.kind \in Kinds
    BY <1>1, <1>2, <1>3 DEF TypeInv, TypeOK
<1>5. TypeInv'
    BY <1>1, <1>2, <1>4, SameTypes
<1>6. Accepted' /\ OpOf(request)' # {} /\ IsWebSocket' = IsWebSocket
    BY <1>1, <1>2, SameFields
<1>7. Faithful'
    BY <1>1, <1>2, SameFaithful DEF SameCapture
<1>8. response' = response
    BY <1>1 DEF SameCapture
<1> QED BY <1>1, <1>2, <1>5, <1>6, <1>7, <1>8 DEF IInv

(* The answer of the upstream: nothing is captured of its body yet.        *)
LEMMA HeaderFilterInv ==
    ASSUME IInv, HeaderFilter
    PROVE  IInv'
<1>1. /\ pc = "upstream" /\ pc' = "body" /\ spec' = spec /\ request' = request
      /\ auth' = auth /\ bill' = bill /\ UNCHANGED captureVars
    BY DEF HeaderFilter, requestVars
<1>2. TypeInv /\ Idle /\ Accepted /\ OpOf(request) # {}
    BY <1>1 DEF IInv
<1>3. PICK r \in Responses : response' = r /\ (r.transport = "websocket" <=> IsWebSocket)
    BY DEF HeaderFilter
<1>4. r.tokens \in Seq(STRING) /\ Len(r.tokens) \in Nat /\ 0 \in 0..Len(r.tokens)
    BY TokensAndDocuments
<1>5. /\ pos' = 0 /\ eof' = FALSE /\ buffer' = EmptyBuffer /\ chunks' = <<>>
      /\ overflow' = FALSE /\ flat' = Absent
    BY <1>1, <1>2 DEF captureVars, Idle
<1>6. TypeInv'
  <2>1. /\ spec' \in Specs /\ pc' \in {"body"} /\ auth'.kind \in Kinds
        /\ bill'.kind \in Kinds /\ Len(buffer'.partial) <= MaxBuffer
        /\ Len(buffer'.data) <= MaxBuffer /\ Len(chunks') <= MaxBody
        /\ overflow' \in BOOLEAN /\ eof' \in BOOLEAN
        /\ buffer' \in BufferType /\ buffer'.events = <<>> /\ chunks' \in Seq(STRING)
      BY <1>1, <1>2 DEF TypeInv, TypeOK, captureVars
  <2>2. pos' \in 0..Len(response'.tokens) /\ response'.tokens \in Seq(STRING)
      BY <1>3, <1>4, <1>5
  <2> QED BY <1>5, <2>1, <2>2 DEF TypeInv, TypeOK
<1>7. Accepted' /\ OpOf(request)' # {} /\ Fields' = Fields /\ IsWebSocket' = IsWebSocket
    BY <1>1, <1>2, SameFields
<1>8. Captured(response, 0)' = Absent
  <2>1. \A e \in Ends(r) : ~(e <= 0)
      BY <1>4, EndsAreNumbers
  <2>2. Captured(r, 0) = Absent
      BY <1>4, <2>1, CapturedNothing
  <2> QED BY <1>3, <1>7, <2>2 DEF Captured
<1>9. Holds(r.tokens, 0, EmptyBuffer)
    BY <1>4, EmptyHolds
<1>10. SubSeq(r.tokens, 1, 0) = <<>>
    BY SubSeqEmpty
<1>11. Seen' = 0
    BY <1>5 DEF Seen
<1>12. CASE r.transport = "websocket"
  <2>1. FaithfulFrames'
      BY <1>3, <1>5, <1>8, <1>12 DEF FaithfulFrames
  <2> QED BY <1>1, <1>3, <1>6, <1>7, <2>1 DEF IInv, Faithful
<1>13. CASE IsStream(r)
  <2>1. FaithfulStream'
      BY <1>3, <1>5, <1>8, <1>9, <1>11, <1>13 DEF FaithfulStream, IsStream
  <2> QED BY <1>1, <1>3, <1>6, <1>7, <2>1 DEF IInv, Faithful
<1>14. CASE r.transport # "websocket" /\ ~r.sse
  <2>1. FaithfulBody'
      BY <1>3, <1>5, <1>8, <1>10, <1>11, <1>14 DEF FaithfulBody
  <2> QED BY <1>1, <1>3, <1>6, <1>7, <2>1 DEF IInv, Faithful
<1> QED BY <1>12, <1>13, <1>14 DEF IsStream

(* A frame of a websocket is a document by itself.                         *)
LEMMA RelayFrameInv ==
    ASSUME IInv, RelayFrame
    PROVE  IInv'
<1> DEFINE frame == <<response.tokens[pos + 1]>>
<1>1. /\ pc = "body" /\ pc' = pc /\ spec' = spec /\ request' = request
      /\ auth' = auth /\ bill' = bill /\ response' = response /\ eof' = eof
      /\ buffer' = buffer /\ chunks' = chunks /\ overflow' = overflow
      /\ IsWebSocket /\ pos < Len(response.tokens) /\ pos' = pos + 1
      /\ flat' = IF BodyFields(Fields) = {} THEN flat ELSE ExtractFields(flat, frame)
    BY DEF RelayFrame, requestVars
<1>2. /\ TypeInv /\ Accepted /\ OpOf(request) # {} /\ Faithful
      /\ response.transport = "websocket"
    BY <1>1 DEF IInv
<1>3. /\ response.tokens \in Seq(STRING) /\ Len(response.tokens) \in Nat /\ pos \in Nat
      /\ pos + 1 \in 0..Len(response.tokens) /\ pos + 1 \in DOMAIN response.tokens
    BY <1>1, <1>2 DEF TypeInv, TypeOK
<1>4. eof => pos = Len(response.tokens)
    BY <1>2 DEF TypeInv
<1>5. TypeInv'
  <2>1. eof = FALSE
      BY <1>1, <1>2, <1>3, <1>4 DEF TypeInv, TypeOK
  <2> QED BY <1>1, <1>2, <1>3, <2>1 DEF TypeInv, TypeOK
<1>6. /\ Accepted' /\ OpOf(request)' # {} /\ Fields' = Fields /\ IsWebSocket' = IsWebSocket
    BY <1>1, <1>2, SameFields
<1>7. Faithful'
  <2>1. CASE BodyFields(Fields) = {}
      BY <1>6, <2>1 DEF Faithful
  <2>2. CASE BodyFields(Fields) # {}
    <3>1. FaithfulFrames
        BY <1>2, <2>2 DEF Faithful, FaithfulStream, FaithfulBody, IsStream
    <3>2. pos + 1 \in Ends(response) /\ TextAt(response, pos + 1) = frame
        BY <1>2, <1>3 DEF Ends, TextAt
    <3>3. FieldsAreKeys
        BY <1>2, AcceptedFields DEF TypeInv, TypeOK
    <3>4. ExtractFields(Captured(response, pos), frame) = Captured(response, pos + 1)
        BY <1>3, <3>2, <3>3, CapturedAtEnd
    <3>5. flat' = Captured(response, pos + 1)
        BY <1>1, <2>2, <3>1, <3>4 DEF FaithfulFrames
    <3>6. Captured(response, pos)' = Captured(response, pos + 1)
        BY <1>1, <1>6 DEF Captured
    <3>7. FaithfulFrames'
        BY <1>1, <3>1, <3>5, <3>6 DEF FaithfulFrames
    <3> QED BY <3>7 DEF Faithful
  <2> QED BY <2>1, <2>2
<1> QED BY <1>1, <1>2, <1>5, <1>6, <1>7 DEF IInv

(* How much of the response has been seen after a chunk up to n.           *)
LEMMA SeenAfter ==
    ASSUME response.tokens \in Seq(STRING), NEW n \in 0..Len(response.tokens),
           NEW last \in BOOLEAN, last => n = Len(response.tokens),
           pos' = n, eof' = last
    PROVE  /\ Seen' \in Nat /\ n <= Seen'
           /\ IsStream(response) => Captured(response, Seen') = Captured(response, n)
           /\ ~IsStream(response) /\ ~last => Seen' = n
<1>1. n \in Nat /\ Len(response.tokens) \in Nat /\ Seen' = IF last THEN n + 1 ELSE n
    BY DEF Seen
<1>2. ASSUME IsStream(response), last
      PROVE  Captured(response, n + 1) = Captured(response, n)
  <2>1. n + 1 \notin Ends(response)
      BY <1>1, <1>2 DEF Ends, IsStream, NewLines
  <2> QED BY <1>1, <2>1, CapturedBetween
<1> QED BY <1>1, <1>2

(* A chunk of an event stream keeps the capture faithful.                  *)
LEMMA StreamInv ==
    ASSUME TypeInv, FieldsAreKeys, FaithfulStream, ~eof,
           NEW n \in pos..Len(response.tokens), NEW last \in BOOLEAN,
           last => n = Len(response.tokens),
           UNCHANGED <<spec, request, response>>, pos' = n, eof' = last,
           BodyFilterSSE(SubSeq(response.tokens, pos + 1, n))
    PROVE  /\ FaithfulStream'
           /\ buffer' \in BufferType /\ buffer'.events = <<>>
           /\ Len(buffer'.partial) <= MaxBuffer /\ Len(buffer'.data) <= MaxBuffer
<1> DEFINE chunk == SubSeq(response.tokens, pos + 1, n)
           c == ParseSSEChunk(buffer, chunk)
           b == [c EXCEPT !.events = <<>>]
<1>1. /\ response.tokens \in Seq(STRING) /\ Len(response.tokens) \in Nat
      /\ pos \in 0..Len(response.tokens) /\ pos \in Nat /\ n \in Nat /\ pos <= n
      /\ n \in 0..Len(response.tokens)
      /\ buffer \in BufferType /\ buffer.events = <<>>
      /\ Len(buffer.partial) <= MaxBuffer /\ Len(buffer.data) <= MaxBuffer
    BY DEF TypeInv, TypeOK
<1>2. /\ buffer' = b /\ flat' = Extracted(flat, c) /\ overflow' = overflow
    BY DEF BodyFilterSSE, Extracted
<1>3. /\ IsStream(response) /\ overflow = FALSE /\ Seen = pos
    BY DEF FaithfulStream, Seen
<1>4. /\ Seen' \in Nat /\ n <= Seen'
      /\ Captured(response, Seen') = Captured(response, n)
    BY <1>1, <1>3, SeenAfter
<1>5. /\ c \in BufferType
      /\ \/ /\ Holds(response.tokens, n, c) /\ Len(c.partial) <= MaxBuffer
            /\ flat' = Captured(response, n)
         \/ Dropped(c) /\ \E m \in 0..n : flat' = Captured(response, m)
  <2>1. CASE Holds(response.tokens, pos, buffer) /\ flat = Captured(response, pos)
      BY <1>1, <1>2, <1>3, <2>1, ChunkCaptures
  <2>2. CASE Dropped(buffer) /\ \E m \in 0..pos : flat = Captured(response, m)
    <3>1. c = buffer
        BY <2>2 DEF ParseSSEChunk, Dropped
    <3>2. flat' = flat
        BY <1>1, <1>2, <3>1, NoEvents
    <3>3. 0..pos \subseteq 0..n
        BY <1>1
    <3> QED BY <1>1, <2>2, <3>1, <3>2, <3>3
  <2> QED BY <1>3, <2>1, <2>2 DEF FaithfulStream
<1> HIDE DEF c
<1>6. /\ b \in BufferType /\ b.events = <<>> /\ b.partial = c.partial
      /\ b.data = c.data /\ b.lines = c.lines /\ b.bytes = c.bytes
      /\ b.overflow = c.overflow
    BY <1>5, EmptySeq DEF BufferType
<1> HIDE DEF b
<1>7. /\ Holds(response.tokens, n, c) => Holds(response.tokens, n, b)
      /\ Dropped(c) => Dropped(b)
    BY <1>6 DEF Holds, Dropped
<1>8. \A m : Captured(response, m)' = Captured(response, m)
    BY SameCaptured DEF Captured
<1>9. IsStream(response)'
    BY <1>3 DEF IsStream
<1>10. Len(<<>>) = 0 /\ 0 <= MaxBuffer
    BY MeteringConstants
<1>11. CASE /\ Holds(response.tokens, n, c) /\ Len(c.partial) <= MaxBuffer
            /\ flat' = Captured(response, n)
  <2>1. Len(b.data) <= MaxBuffer
      BY <1>7, <1>11 DEF Holds
  <2>2. flat' = Captured(response, Seen')
      BY <1>4, <1>11
  <2>3. (flat = Captured(response, Seen))'
      BY <2>2, SameFields DEF Captured
  <2>4. FaithfulStream'
      BY <1>2, <1>3, <1>7, <1>9, <1>11, <2>3 DEF FaithfulStream, Holds
  <2> QED BY <1>2, <1>6, <1>11, <2>1, <2>4
<1>12. CASE Dropped(c) /\ \E m \in 0..n : flat' = Captured(response, m)
  <2>1. Len(b.partial) <= MaxBuffer /\ Len(b.data) <= MaxBuffer /\ Dropped(b)
      BY <1>7, <1>10, <1>12 DEF Dropped
  <2>2. PICK m \in 0..n : flat' = Captured(response, m)
      BY <1>12
  <2>3. m \in 0..Seen' /\ flat' = Captured(response, m)'
      BY <1>1, <1>4, <1>8, <2>2
  <2>4. FaithfulStream'
      BY <1>2, <1>3, <1>9, <2>1, <2>3 DEF FaithfulStream, Dropped
  <2> QED BY <1>2, <1>6, <2>1, <2>4
<1> QED BY <1>5, <1>11, <1>12

(* A chunk of any other body keeps it faithful: nothing is captured before *)
(* the end, and at the end from the whole body.                            *)
LEMMA BodyInv ==
    ASSUME TypeInv, FaithfulBody, ~eof,
           NEW n \in pos..Len(response.tokens), NEW last \in BOOLEAN,
           last => n = Len(response.tokens),
           UNCHANGED <<spec, request, response>>, pos' = n, eof' = last,
           BodyFilterJSON(SubSeq(response.tokens, pos + 1, n), last)
    PROVE  /\ FaithfulBody' /\ buffer' = buffer
           /\ chunks' \in Seq(STRING) /\ Len(chunks') <= MaxBody
           /\ overflow' \in BOOLEAN
<1> DEFINE tokens == response.tokens
           chunk == SubSeq(tokens, pos + 1, n)
           full == chunks \o chunk
<1>1. /\ tokens \in Seq(STRING) /\ Len(tokens) \in Nat
      /\ pos \in 0..Len(tokens) /\ pos \in Nat /\ n \in Nat /\ pos <= n
      /\ n \in 0..Len(tokens)
      /\ chunks \in Seq(STRING) /\ Len(chunks) <= MaxBody /\ overflow \in BOOLEAN
    BY DEF TypeInv, TypeOK
<1>2. /\ response.transport # "websocket" /\ ~response.sse /\ ~IsStream(response)
      /\ buffer = EmptyBuffer /\ Seen = pos
    BY DEF FaithfulBody, Seen, IsStream
<1>3. Ends(response) = {Len(tokens) + 1}
    BY <1>2 DEF Ends
<1>4. \A m \in 0..Len(tokens) : Captured(response, m) = Absent
  <2> SUFFICES ASSUME NEW m \in 0..Len(tokens) PROVE Captured(response, m) = Absent
      OBVIOUS
  <2>1. \A e \in Ends(response) : ~(e <= m)
      BY <1>1, <1>3
  <2> QED BY <1>1, <2>1, CapturedNothing
<1>5. flat = Absent
    BY <1>1, <1>2, <1>4 DEF FaithfulBody
<1>6. \A m : Captured(response, m)' = Captured(response, m)
    BY SameCaptured DEF Captured
<1>7. /\ (response.transport # "websocket" /\ ~response.sse)'
      /\ buffer' = buffer
      /\ Seen' = IF last THEN n + 1 ELSE n
    BY <1>2 DEF BodyFilterJSON, Seen
<1>8. Captured(response, 0)' = Absent /\ 0 \in 0..Seen'
    BY <1>1, <1>4, <1>6, <1>7
<1>9. full \in Seq(STRING) /\ Len(full) \in Nat
  <2>1. \A i \in (pos + 1)..n : tokens[i] \in STRING
      BY <1>1
  <2>2. chunk \in Seq(STRING)
      BY <1>1, <2>1, SubSeqProperties
  <2> HIDE DEF chunk
  <2> QED BY <1>1, <2>2
<1>10. \/ /\ overflow /\ UNCHANGED <<chunks, overflow, flat>>
       \/ /\ ~overflow /\ Len(full) > MaxBody
          /\ chunks' = <<>> /\ overflow' = TRUE /\ UNCHANGED flat
       \/ /\ ~overflow /\ Len(full) <= MaxBody
          /\ chunks' = IF last THEN <<>> ELSE full
          /\ flat' = IF last /\ IsJSON(full)
                     THEN AccumulateFields(flat, Texts[full]) ELSE flat
          /\ UNCHANGED overflow
    BY DEF BodyFilterJSON
<1> HIDE DEF full
<1>11. MaxBody \in Nat /\ <<>> \in Seq(STRING) /\ Len(<<>>) = 0
    BY MeteringConstants, EmptySeq
<1>12. CASE overflow
  <2>1. overflow' = TRUE /\ chunks' = chunks /\ flat' = Absent
      BY <1>1, <1>5, <1>12, <1>10
  <2>2. \E m \in 0..Seen' : flat' = Captured(response, m)'
      BY <1>8, <2>1
  <2>3. FaithfulBody'
      BY <1>2, <1>7, <2>1, <2>2 DEF FaithfulBody
  <2> QED BY <1>1, <1>7, <2>1, <2>3
<1>13. CASE ~overflow /\ Len(full) > MaxBody
  <2>1. overflow' = TRUE /\ chunks' = <<>> /\ flat' = Absent
      BY <1>5, <1>13, <1>9, <1>10, <1>11
  <2>2. \E m \in 0..Seen' : flat' = Captured(response, m)'
      BY <1>8, <2>1
  <2>3. FaithfulBody'
      BY <1>2, <1>7, <2>1, <2>2 DEF FaithfulBody
  <2>4. chunks' \in Seq(STRING) /\ Len(chunks') <= MaxBody
      BY <1>11, <2>1
  <2> QED BY <1>7, <2>1, <2>3, <2>4
<1>14. CASE ~overflow /\ Len(full) <= MaxBody
  <2>1. /\ overflow' = FALSE
        /\ chunks' = IF last THEN <<>> ELSE full
        /\ flat' = IF last /\ IsJSON(full)
                   THEN AccumulateFields(Absent, Texts[full]) ELSE Absent
      BY <1>1, <1>5, <1>14, <1>9, <1>10, <1>11
  <2>2. full = SubSeq(tokens, 1, n)
    <3>1. chunks = SubSeq(tokens, 1, pos)
        BY <1>14 DEF FaithfulBody
    <3>2. /\ 1 \in 1..(Len(tokens) + 1) /\ pos \in (1 - 1)..Len(tokens)
          /\ n \in pos..Len(tokens)
        BY <1>1
    <3>3. chunks \o chunk = SubSeq(tokens, 1, n)
      <4> HIDE DEF tokens
      <4> QED BY <1>1, <3>1, <3>2, ConcatAdjacentSubSeq
    <3> QED BY <3>3 DEF full
  <2>4. chunks' \in Seq(STRING) /\ Len(chunks') <= MaxBody
    <3>1. CASE last
        BY <1>11, <2>1, <3>1
    <3>2. CASE ~last
        BY <1>9, <1>14, <2>1, <3>2
    <3> QED BY <3>1, <3>2
  <2>5. CASE ~last
    <3>1. flat' = Captured(response, n)' /\ Seen' = n
        BY <1>1, <1>4, <1>6, <1>7, <2>1, <2>5
    <3>2. chunks' = SubSeq(tokens, 1, n)
        BY <2>1, <2>2, <2>5
    <3>3. FaithfulBody'
        BY <1>2, <1>7, <2>1, <3>1, <3>2 DEF FaithfulBody
    <3> QED BY <1>7, <2>1, <2>4, <3>3
  <2>6. CASE last
    <3>1. Seen' = Len(tokens) + 1 /\ full = tokens
        BY <1>1, <1>7, <2>2, <2>6, SubSeqFull
    <3>2. Captured(response, Len(tokens) + 1) =
             IF IsJSON(tokens) THEN AccumulateFields(Absent, Texts[tokens]) ELSE Absent
      <4> DEFINE docs == Documents(response)
                 end == Len(tokens) + 1
      <4>1. TextAt(response, end) = tokens /\ end \in Ends(response)
          BY <1>2, <1>3 DEF TextAt
      <4>2. /\ DOMAIN docs \subseteq Nat
            /\ end \in DOMAIN docs <=> IsJSON(tokens)
            /\ end \in DOMAIN docs => docs[end] = Texts[tokens]
        <5>1. /\ DOMAIN docs \subseteq Nat \ {0}
              /\ DOMAIN docs = {e \in Ends(response) : IsJSON(TextAt(response, e))}
              /\ \A e \in DOMAIN docs : docs[e] = Texts[TextAt(response, e)]
            BY <1>1, EndsArePositive
        <5> HIDE DEF docs, tokens, end
        <5>2. end \in DOMAIN docs <=> IsJSON(TextAt(response, end))
            BY <4>1, <5>1
        <5> QED BY <4>1, <5>1, <5>2
      <4>3. Captured(response, Len(tokens)) = Absent
          BY <1>1, <1>4
      <4> HIDE DEF docs
      <4>4. CapturedFrom(docs, BodyFields(Fields), end) =
               IF end \in DOMAIN docs
               THEN AccumulateFields(CapturedFrom(docs, BodyFields(Fields), Len(tokens)),
                                     docs[end])
               ELSE CapturedFrom(docs, BodyFields(Fields), Len(tokens))
          BY <1>1, <4>2, CapturedNext
      <4> QED BY <4>2, <4>3, <4>4 DEF Captured, docs
    <3>3. flat' = Captured(response, Seen')
        BY <2>1, <2>6, <3>1, <3>2
    <3>4. (flat = Captured(response, Seen))'
        BY <3>3, SameFields DEF Captured
    <3>5. FaithfulBody'
        BY <1>2, <1>7, <2>1, <2>6, <3>4 DEF FaithfulBody
    <3> QED BY <1>7, <2>1, <2>4, <3>5
  <2> QED BY <2>5, <2>6
<1> QED BY <1>10, <1>12, <1>13, <1>14

(* A chunk of a response.                                                  *)
LEMMA BodyFilterInv ==
    ASSUME IInv, BodyFilter
    PROVE  IInv'
<1>1. /\ pc = "body" /\ pc' = pc /\ ~IsWebSocket /\ ~eof
      /\ spec' = spec /\ request' = request /\ auth' = auth /\ bill' = bill
      /\ response' = response
    BY DEF BodyFilter, requestVars
<1>2. /\ TypeInv /\ Accepted /\ OpOf(request) # {} /\ Faithful
      /\ response.transport # "websocket"
    BY <1>1 DEF IInv
<1>3. PICK n \in pos..Len(response.tokens), last \in BOOLEAN :
         /\ last => n = Len(response.tokens)
         /\ pos' = n /\ eof' = last
         /\ LET chunk == SubSeq(response.tokens, pos + 1, n)
            IN  \/ BodyFields(Fields) = {} /\ UNCHANGED <<buffer, chunks, overflow, flat>>
                \/ BodyFields(Fields) # {} /\ response.sse /\ BodyFilterSSE(chunk)
                \/ BodyFields(Fields) # {} /\ ~response.sse /\ BodyFilterJSON(chunk, last)
    BY DEF BodyFilter
<1>4. /\ Accepted' /\ OpOf(request)' # {} /\ Fields' = Fields /\ IsWebSocket' = IsWebSocket
    BY <1>1, <1>2, SameFields
<1>5. ASSUME buffer' \in BufferType, buffer'.events = <<>>,
             Len(buffer'.partial) <= MaxBuffer, Len(buffer'.data) <= MaxBuffer,
             chunks' \in Seq(STRING), Len(chunks') <= MaxBody, overflow' \in BOOLEAN,
             Faithful'
      PROVE  IInv'
  <2>1. n \in 0..Len(response.tokens)
      BY <1>2, <1>3 DEF TypeInv, TypeOK
  <2>2. TypeInv'
      BY <1>1, <1>2, <1>3, <1>5, <2>1 DEF TypeInv, TypeOK
  <2> QED BY <1>1, <1>2, <1>4, <1>5, <2>2 DEF IInv
<1>6. CASE BodyFields(Fields) = {}
  <2>1. Faithful'
      BY <1>4, <1>6 DEF Faithful
  <2>2. UNCHANGED <<buffer, chunks, overflow>>
      BY <1>3, <1>6
  <2> QED BY <1>2, <1>5, <2>1, <2>2 DEF TypeInv, TypeOK
<1>7. CASE BodyFields(Fields) # {} /\ response.sse
  <2>1. FaithfulStream
      BY <1>2, <1>7 DEF Faithful, FaithfulFrames, FaithfulBody
  <2>2. FieldsAreKeys
      BY <1>2, AcceptedFields DEF TypeInv, TypeOK
  <2>3. /\ BodyFilterSSE(SubSeq(response.tokens, pos + 1, n))
        /\ chunks' = chunks /\ overflow' = overflow
      BY <1>3, <1>7 DEF BodyFilterSSE
  <2>4. /\ FaithfulStream'
        /\ buffer' \in BufferType /\ buffer'.events = <<>>
        /\ Len(buffer'.partial) <= MaxBuffer /\ Len(buffer'.data) <= MaxBuffer
      BY <1>1, <1>2, <1>3, <2>1, <2>2, <2>3, StreamInv
  <2>5. Faithful'
      BY <2>4 DEF Faithful
  <2> QED BY <1>2, <1>5, <2>3, <2>4, <2>5 DEF TypeInv, TypeOK
<1>8. CASE BodyFields(Fields) # {} /\ ~response.sse
  <2>1. FaithfulBody
      BY <1>2, <1>8 DEF Faithful, FaithfulFrames, FaithfulStream, IsStream
  <2>2. BodyFilterJSON(SubSeq(response.tokens, pos + 1, n), last)
      BY <1>3, <1>8
  <2>3. /\ FaithfulBody' /\ buffer' = buffer
        /\ chunks' \in Seq(STRING) /\ Len(chunks') <= MaxBody
        /\ overflow' \in BOOLEAN
      BY <1>1, <1>2, <1>3, <2>1, <2>2, BodyInv
  <2>4. Faithful'
      BY <2>3 DEF Faithful
  <2> QED BY <1>2, <1>5, <2>3, <2>4 DEF TypeInv, TypeOK
<1> QED BY <1>6, <1>7, <1>8

(* A step that changes nothing.                                            *)
LEMMA StutterInv ==
    ASSUME IInv, UNCHANGED vars
    PROVE  IInv'
<1>1. /\ pc' = pc /\ spec' = spec /\ request' = request /\ auth' = auth
      /\ bill' = bill /\ SameCapture /\ response' = response
      /\ UNCHANGED <<response, captureVars>>
    BY DEF vars, SameCapture, captureVars
<1>2. TypeInv' /\ Idle' = Idle
    BY <1>1, SameTypes DEF IInv, TypeInv, TypeOK
<1>3. /\ Accepted' = Accepted /\ OpOf(request)' = OpOf(request)
      /\ IsWebSocket' = IsWebSocket /\ Faithful' = Faithful
    BY <1>1, SameFields, SameFaithful
<1> QED BY <1>1, <1>2, <1>3 DEF IInv

-----------------------------------------------------------------------------
(* The theorems. *)

(* header-filter.lua, body-filter.lua, websocket.lua, shared.lua: at every *)
(* point of a response, what is captured and what is kept of the rest      *)
(* follow from the tokens seen so far.                                     *)
THEOREM MeteringInvariant == Spec => []IInv
<1>1. IInv /\ [Next]_vars => IInv'
  <2> SUFFICES ASSUME IInv, [Next]_vars PROVE IInv'
      OBVIOUS
  <2>1. CASE LoadSpec
      BY <2>1, LoadSpecInv
  <2>2. CASE HandleRequest
      BY <2>2, HandleRequestInv
  <2>3. CASE RefuseHandshake
      BY <2>3, RefuseHandshakeInv
  <2>4. CASE HeaderFilter
      BY <2>4, HeaderFilterInv
  <2>5. CASE BodyFilter
      BY <2>5, BodyFilterInv
  <2>6. CASE RelayFrame
      BY <2>6, RelayFrameInv
  <2>7. CASE EndResponse \/ HandleResponse
      BY <2>7, AfterwardsInv
  <2>8. CASE UNCHANGED vars
      BY <2>8, StutterInv
  <2> QED BY <2>1, <2>2, <2>3, <2>4, <2>5, <2>6, <2>7, <2>8 DEF Next
<1> QED BY <1>1, InitInv, PTL DEF Spec

(* body-filter.lua, shared.lua: the line, the event and the body that      *)
(* nginx waits for the end of stay within max_sse_buffer and               *)
(* max_body_bytes, for every limit and every response.                     *)
THEOREM MeteringTypeOK == Spec => []TypeOK
<1>1. IInv => TypeOK
    BY DEF IInv, TypeInv
<1> QED BY <1>1, MeteringInvariant, PTL

(* accumulate_fields(), parse_sse_chunk(): for every response, and however *)
(* the network cuts it into chunks, what is captured is the last value of  *)
(* each field in all the documents seen so far - or, when capture was      *)
(* given up, in those before some point.                                   *)
THEOREM MeteringCaptureIsFaithful == Spec => []CaptureIsFaithful
<1>1. IInv => CaptureIsFaithful
  <2> SUFFICES ASSUME IInv, pc \in {"body", "log", "done"}, BodyFields(Fields) # {}
               PROVE  \E n \in 0..Seen : /\ flat = Captured(response, n)
                                         /\ ~GaveUp => n = Seen
      BY DEF CaptureIsFaithful, Captured
  <2>1. FaithfulFrames \/ FaithfulStream \/ FaithfulBody
      BY DEF IInv, Faithful
  <2>2. pos \in Nat /\ eof \in BOOLEAN
      BY DEF IInv, TypeInv, TypeOK
  <2>3. Seen \in 0..Seen /\ (eof = FALSE => Seen = pos)
      BY <2>2 DEF Seen
  <2>4. CASE FaithfulFrames
      BY <2>3, <2>4 DEF FaithfulFrames
  <2>5. CASE FaithfulStream
      BY <2>3, <2>5 DEF FaithfulStream, Dropped, GaveUp
  <2>6. CASE FaithfulBody
      BY <2>3, <2>6 DEF FaithfulBody, GaveUp
  <2> QED BY <2>1, <2>4, <2>5, <2>6
<1> QED BY <1>1, MeteringInvariant, PTL

-----------------------------------------------------------------------------
(* Paths: of documents, and addresses in expressions. *)

(* The operands have two sides.                                            *)
LEMMA Sides == "a" \in Side /\ "b" \in Side /\ \A x \in Side : x \in {"a", "b"}
BY DEF Side

(* What follows a prefix.                                                  *)
LEMMA SuffixOf ==
    ASSUME NEW S, NEW p \in Seq(S), NEW r \in Seq(S)
    PROVE  /\ p \o r \in Seq(S)
           /\ IsPrefix(p, p \o r)
           /\ SubSeq(p \o r, Len(p) + 1, Len(p \o r)) = r
<1>1. /\ p \o r \in Seq(S) /\ Len(p \o r) = Len(p) + Len(r)
      /\ Len(p) \in Nat /\ Len(r) \in Nat
      /\ \A i \in 1..(Len(p) + Len(r)) :
            (p \o r)[i] = IF i <= Len(p) THEN p[i] ELSE r[i - Len(p)]
      /\ \A i \in 1..(Len(p) + Len(r)) : (p \o r)[i] \in S
    BY ConcatProperties, LenProperties, ElementOfSeq
<1>2. SubSeq(p \o r, 1, Len(p)) = SubSeq(p, 1, Len(p))
  <2>1. CASE p = <<>>
      BY <2>1, SubSeqEmpty, EmptySeq
  <2>2. CASE p # <<>>
      BY <1>1, <2>2, SubSeqOfConcat1, EmptySeq
  <2> QED BY <2>1, <2>2
<1>3. SubSeq(p \o r, Len(p) + 1, Len(p \o r)) = r
  <2> DEFINE t == SubSeq(p \o r, Len(p) + 1, Len(p) + Len(r))
  <2>1. /\ t \in Seq(S) /\ Len(t) = Len(r)
        /\ \A i \in 1..Len(r) : t[i] = (p \o r)[Len(p) + i]
    <3>1. \A i \in (Len(p) + 1)..(Len(p) + Len(r)) : (p \o r)[i] \in S
        BY <1>1
    <3>2. /\ t \in Seq(S)
          /\ Len(t) = IF Len(p) + 1 <= Len(p) + Len(r)
                      THEN Len(p) + Len(r) - (Len(p) + 1) + 1 ELSE 0
          /\ \A i \in 1..(Len(p) + Len(r) - (Len(p) + 1) + 1) :
                t[i] = (p \o r)[Len(p) + 1 + i - 1]
        BY <1>1, <3>1, SubSeqProperties
    <3> HIDE DEF t
    <3>3. Len(t) = Len(r)
        BY <1>1, <3>2
    <3>4. ASSUME NEW i \in 1..Len(r) PROVE t[i] = (p \o r)[Len(p) + i]
      <4>1. i \in 1..(Len(p) + Len(r) - (Len(p) + 1) + 1) /\ Len(p) + 1 + i - 1 = Len(p) + i
          BY <1>1
      <4> QED BY <3>2, <4>1
    <3> QED BY <3>2, <3>3, <3>4
  <2> HIDE DEF t
  <2>2. \A i \in 1..Len(r) : t[i] = r[i]
      BY <1>1, <2>1
  <2>3. t = r
      BY <2>1, <2>2, SeqEqual
  <2> QED BY <1>1, <2>3 DEF t
<1> QED BY <1>1, <1>2, <1>3 DEF IsPrefix

(* A prefix is what is followed by something.                              *)
LEMMA PrefixIsConcat ==
    ASSUME NEW S, NEW p \in Seq(S), NEW q \in Seq(S), IsPrefix(p, q)
    PROVE  /\ SubSeq(q, Len(p) + 1, Len(q)) \in Seq(S)
           /\ q = p \o SubSeq(q, Len(p) + 1, Len(q))
<1>1. /\ Len(p) \in Nat /\ Len(q) \in Nat /\ Len(p) <= Len(q)
      /\ SubSeq(p, 1, Len(p)) = SubSeq(q, 1, Len(p))
    BY LenProperties DEF IsPrefix
<1>2. SubSeq(q, 1, Len(p)) = p
    BY <1>1, SubSeqFull
<1>3. SubSeq(q, 1, Len(p)) \o SubSeq(q, Len(p) + 1, Len(q)) = SubSeq(q, 1, Len(q))
  <2>1. /\ 1 \in 1..(Len(q) + 1) /\ Len(p) \in (1 - 1)..Len(q)
        /\ Len(q) \in Len(p)..Len(q)
      BY <1>1
  <2> QED BY <2>1, ConcatAdjacentSubSeq
<1>4. SubSeq(q, 1, Len(q)) = q
    BY SubSeqFull
<1>5. SubSeq(q, Len(p) + 1, Len(q)) \in Seq(S)
  <2>1. \A i \in (Len(p) + 1)..Len(q) : q[i] \in S
      BY <1>1, ElementOfSeq
  <2> QED BY <1>1, <2>1, SubSeqProperties
<1> QED BY <1>2, <1>3, <1>4, <1>5

(* Prefixes of the same path of which one is not longer.                   *)
LEMMA PrefixesOfOne ==
    ASSUME NEW S, NEW p \in Seq(S), NEW q \in Seq(S), NEW r \in Seq(S),
           IsPrefix(p, r), IsPrefix(q, r), Len(p) <= Len(q)
    PROVE  IsPrefix(p, q)
<1>1. /\ Len(p) \in Nat /\ Len(q) \in Nat /\ Len(r) \in Nat
      /\ Len(p) <= Len(r) /\ Len(q) <= Len(r)
      /\ SubSeq(p, 1, Len(p)) = SubSeq(r, 1, Len(p))
      /\ SubSeq(q, 1, Len(q)) = SubSeq(r, 1, Len(q))
    BY LenProperties DEF IsPrefix
<1>2. SubSeq(q, 1, Len(q)) = q /\ SubSeq(p, 1, Len(p)) = p
    BY SubSeqFull
<1>3. CASE p = <<>>
    BY <1>1, <1>3, SubSeqEmpty, EmptySeq DEF IsPrefix
<1>4. CASE p # <<>>
  <2>1. Len(p) \in 1..(Len(q) - 1 + 1) /\ 1 \in 1..Len(r) /\ Len(q) \in 1..Len(r)
        /\ 1 \in 1..(Len(q) - 1 + 1)
      BY <1>1, <1>4, EmptySeq
  <2>2. SubSeq(SubSeq(r, 1, Len(q)), 1, Len(p)) = SubSeq(r, 1 + 1 - 1, 1 + Len(p) - 1)
      BY <2>1, SubSeqOfSubSeq
  <2>3. 1 + 1 - 1 = 1 /\ 1 + Len(p) - 1 = Len(p)
      BY <1>1
  <2>4. SubSeq(q, 1, Len(p)) = SubSeq(r, 1, Len(p))
      BY <1>1, <1>2, <2>2, <2>3
  <2> QED BY <1>1, <2>4 DEF IsPrefix
<1> QED BY <1>3, <1>4

(* Concatenation, Append and prefixes together.                            *)
LEMMA PathAlgebra ==
    ASSUME NEW S, NEW p \in Seq(S)
    PROVE  /\ p \o <<>> = p /\ <<>> \o p = p /\ Len(p) \in Nat
           /\ IsPrefix(<<>>, p) /\ IsPrefix(p, p)
           /\ \A x \in S : /\ Append(p, x) = p \o <<x>> /\ <<x>> \in Seq(S)
                           /\ Append(p, x) \in Seq(S) /\ Len(Append(p, x)) = Len(p) + 1
                           /\ Append(p, x) # <<>>
           /\ \A r \in Seq(S), x \in S : p \o Append(r, x) = Append(p \o r, x)
           /\ \A r, s \in Seq(S) : p \o r = p \o s => r = s
           /\ \A r \in Seq(S) : /\ p \o r \in Seq(S) /\ Len(p \o r) = Len(p) + Len(r)
                                /\ IsPrefix(p, p \o r)
                                /\ IsPrefix(r, p) /\ IsPrefix(p, r) => r = p
<1>1. /\ p \o <<>> = p /\ <<>> \o p = p /\ Len(p) \in Nat
      /\ <<>> \in Seq(S)
    BY ConcatEmptySeq, LenProperties, EmptySeq
<1>2. IsPrefix(<<>>, p) /\ IsPrefix(p, p)
  <2>1. IsPrefix(<<>>, <<>> \o p) /\ IsPrefix(p, p \o <<>>)
      BY <1>1, SuffixOf
  <2> QED BY <1>1, <2>1
<1>3. ASSUME NEW x \in S
      PROVE  /\ Append(p, x) = p \o <<x>> /\ <<x>> \in Seq(S)
             /\ Append(p, x) \in Seq(S) /\ Len(Append(p, x)) = Len(p) + 1
             /\ Append(p, x) # <<>>
    BY AppendIsConcat, AppendProperties
<1>4. ASSUME NEW r \in Seq(S), NEW x \in S PROVE p \o Append(r, x) = Append(p \o r, x)
  <2>1. Append(r, x) = r \o <<x>> /\ <<x>> \in Seq(S)
      BY AppendIsConcat
  <2>2. p \o (r \o <<x>>) = (p \o r) \o <<x>>
      BY <2>1, ConcatAssociative
  <2>3. Append(p \o r, x) = (p \o r) \o <<x>>
      BY AppendIsConcat, ConcatProperties
  <2> QED BY <2>1, <2>2, <2>3
<1>5. ASSUME NEW r \in Seq(S), NEW s \in Seq(S), p \o r = p \o s PROVE r = s
  <2>1. /\ SubSeq(p \o r, Len(p) + 1, Len(p \o r)) = r
        /\ SubSeq(p \o s, Len(p) + 1, Len(p \o s)) = s
      BY SuffixOf
  <2> QED BY <1>5, <2>1
<1>6. ASSUME NEW r \in Seq(S)
      PROVE  /\ p \o r \in Seq(S) /\ Len(p \o r) = Len(p) + Len(r)
             /\ IsPrefix(p, p \o r)
             /\ IsPrefix(r, p) /\ IsPrefix(p, r) => r = p
  <2>1. IsPrefix(r, p) /\ IsPrefix(p, r) => r = p
    <3>1. ASSUME IsPrefix(r, p), IsPrefix(p, r) PROVE r = p
      <4>1. Len(r) = Len(p) /\ SubSeq(r, 1, Len(r)) = SubSeq(p, 1, Len(r))
          BY <3>1, LenProperties DEF IsPrefix
      <4> QED BY <4>1, SubSeqFull
    <3> QED BY <3>1
  <2> QED BY <2>1, ConcatProperties, SuffixOf
<1> QED BY <1>1, <1>2, <1>3, <1>4, <1>5, <1>6

-----------------------------------------------------------------------------
(* Expressions, of at most some depth, on the way to be evaluated: a       *)
(* reference may be bound to its value.                                    *)
Tree(e, depth) ==
    /\ depth \in Nat
    /\ DOMAIN e \subseteq Seq(Side) /\ <<>> \in DOMAIN e
    /\ \A p \in DOMAIN e : Len(p) <= depth
    /\ \A p \in DOMAIN e : IsOperator(e[p]) \/ e[p].k \in {"const", "ref", "bound"}
    /\ \A p \in DOMAIN e : IsOperator(e[p]) => Operands(p) \subseteq DOMAIN e
    /\ \A p \in DOMAIN e \ {<<>>} :
          \E q \in DOMAIN e : IsOperator(e[q]) /\ p \in Operands(q)

(* A finite set of addresses has a longest.                                *)
LEMMA AddressesAreBounded ==
    ASSUME NEW D, IsFiniteSet(D), D \subseteq Seq(Side)
    PROVE  \E depth \in Nat : \A p \in D : Len(p) <= depth
<1> DEFINE Bounded(T) == \E depth \in Nat : \A p \in T : Len(p) <= depth
           K == {n \in Nat : \A T \in SUBSET D : Cardinality(T) = n => Bounded(T)}
<1>1. 0 \in K
  <2>1. ASSUME NEW T \in SUBSET D, Cardinality(T) = 0 PROVE Bounded(T)
    <3>1. IsFiniteSet(T)
        BY FS_Subset
    <3>2. T = {}
        BY <2>1, <3>1, FS_EmptySet
    <3>3. 0 \in Nat
        OBVIOUS
    <3> QED BY <3>2, <3>3
  <2> HIDE DEF Bounded
  <2> QED BY <2>1
<1>2. ASSUME NEW n \in Nat, n \in K PROVE n + 1 \in K
  <2>1. ASSUME NEW T \in SUBSET D, Cardinality(T) = n + 1 PROVE Bounded(T)
    <3>1. IsFiniteSet(T)
        BY FS_Subset
    <3>2. PICK x : x \in T
      <4>1. T # {}
          BY <2>1, <3>1, FS_EmptySet
      <4> QED BY <4>1
    <3>3. Cardinality(T \ {x}) = n
      <4>1. Cardinality(T \ {x}) = Cardinality(T) - 1
          BY <3>1, <3>2, FS_RemoveElement
      <4> QED BY <2>1, <4>1
    <3>4. Bounded(T \ {x})
      <4> HIDE DEF Bounded
      <4> QED BY <1>2, <3>3
    <3>5. PICK d \in Nat : \A p \in T \ {x} : Len(p) <= d
        BY <3>4
    <3>6. Len(x) \in Nat
        BY <3>2, LenProperties
    <3>7. \A p \in T : Len(p) \in Nat /\ (p = x \/ Len(p) <= d)
        BY <3>5, LenProperties
    <3>8. \A p \in T : Len(p) <= d + Len(x)
        BY <3>6, <3>7
    <3>9. d + Len(x) \in Nat
        BY <3>6
    <3> QED BY <3>8, <3>9
  <2> HIDE DEF Bounded
  <2> QED BY <2>1
<1> HIDE DEF K
<1>3. Nat \subseteq K
    BY <1>1, <1>2, NatSetInduction
<1>4. Cardinality(D) \in K
    BY <1>3, FS_CardinalityType
<1>5. Bounded(D)
  <2> HIDE DEF Bounded
  <2> QED BY <1>4 DEF K
<1> QED BY <1>5

(* An expression is such a tree.                                           *)
LEMMA ExpressionIsTree ==
    ASSUME NEW e, IsExpression(e)
    PROVE  \E depth : Tree(e, depth)
<1>1. PICK depth \in Nat : \A p \in DOMAIN e : Len(p) <= depth
    BY AddressesAreBounded DEF IsExpression
<1>2. \A p \in DOMAIN e : IsOperator(e[p]) \/ e[p].k \in {"const", "ref", "bound"}
    BY DEF IsExpression
<1>3. \A p \in DOMAIN e : IsOperator(e[p]) => Operands(p) \subseteq DOMAIN e
    BY DEF IsExpression, IsOperator, Arithmetic
<1>4. Tree(e, depth)
    BY <1>1, <1>2, <1>3 DEF Tree, IsExpression
<1> QED BY <1>4

(* Induction over a tree, from the leaves.                                 *)
LEMMA TreeInduction ==
    ASSUME NEW e, NEW depth, Tree(e, depth), NEW S,
           \A p \in DOMAIN e : (IsOperator(e[p]) => Operands(p) \subseteq S) => p \in S
    PROVE  DOMAIN e \subseteq S
<1> DEFINE K == {n \in Nat : \A p \in DOMAIN e : Len(p) + n > depth => p \in S}
<1>0. /\ depth \in Nat
      /\ \A p \in DOMAIN e : p \in Seq(Side) /\ Len(p) \in Nat /\ Len(p) <= depth
    BY LenProperties DEF Tree
<1>1. 0 \in K
    BY <1>0
<1>2. ASSUME NEW n \in Nat, n \in K PROVE n + 1 \in K
  <2>1. ASSUME NEW p \in DOMAIN e, Len(p) + (n + 1) > depth PROVE p \in S
    <3>1. ASSUME IsOperator(e[p]), NEW q \in Operands(p) PROVE q \in S
      <4>1. q \in DOMAIN e
          BY <3>1 DEF Tree
      <4>2. Len(q) = Len(p) + 1
          BY <1>0, PathAlgebra DEF Operands, Side
      <4>3. Len(q) + n > depth
          BY <1>0, <2>1, <4>2
      <4> QED BY <1>2, <4>1, <4>3
    <3> QED BY <3>1
  <2> QED BY <2>1
<1> HIDE DEF K
<1>3. Nat \subseteq K
    BY <1>1, <1>2, NatSetInduction
<1>4. depth + 1 \in K
    BY <1>0, <1>3
<1>5. \A p \in DOMAIN e : Len(p) + (depth + 1) > depth
    BY <1>0
<1> QED BY <1>4, <1>5 DEF K

-----------------------------------------------------------------------------
(* The meaning of an expression, node by node.                             *)
MeaningStep(m, e, env, p) ==
    CASE e[p].k = "const"    -> [value |-> e[p].c, refs |-> {}]
      [] e[p].k = "ref"      -> [value |-> Scalar(env[e[p].p]), refs |-> {e[p].p}]
      [] e[p].k = "coalesce" -> IF HasValue(env, m[Append(p, "a")].refs)
                                THEN m[Append(p, "a")] ELSE m[Append(p, "b")]
      [] OTHER -> Both(e[p].k, m[Append(p, "a")], m[Append(p, "b")])

(* It is that of the operands that a step depends on.                      *)
LEMMA MeaningStepLocal ==
    ASSUME NEW e, IsExpression(e), NEW env, NEW p \in DOMAIN e,
           NEW f, NEW g, IsOperator(e[p]) => \A q \in Operands(p) : f[q] = g[q]
    PROVE  MeaningStep(f, e, env, p) = MeaningStep(g, e, env, p)
<1>1. CASE e[p].k = "const"
    BY <1>1 DEF MeaningStep
<1>2. CASE e[p].k = "ref"
    BY <1>2 DEF MeaningStep
<1>3. CASE IsOperator(e[p])
  <2>1. f[Append(p, "a")] = g[Append(p, "a")] /\ f[Append(p, "b")] = g[Append(p, "b")]
      BY <1>3 DEF Operands, Side
  <2> QED BY <2>1 DEF MeaningStep
<1> QED BY <1>1, <1>2, <1>3 DEF IsExpression

(* Every node of an expression has a meaning.                              *)
LEMMA MeaningDefined ==
    ASSUME NEW e, IsExpression(e), NEW env
    PROVE  \E m : /\ m = [p \in DOMAIN e |-> MeaningStep(m, e, env, p)]
                  /\ Meaning(e, env) = m[<<>>]
<1>1. PICK depth : Tree(e, depth)
    BY ExpressionIsTree
<1> DEFINE Deep(n) == {p \in DOMAIN e : Len(p) + n > depth}
           Run(f, n) == f = [p \in Deep(n) |-> MeaningStep(f, e, env, p)]
           K == {n \in Nat : \E f : Run(f, n)}
<1>2. /\ depth \in Nat /\ <<>> \in DOMAIN e
      /\ \A p \in DOMAIN e : p \in Seq(Side) /\ Len(p) \in Nat /\ Len(p) <= depth
    BY <1>1, LenProperties DEF Tree
<1>3. 0 \in K
  <2>1. Deep(0) = {}
      BY <1>2
  <2>2. Run([p \in Deep(0) |-> p], 0)
      BY <2>1
  <2> QED BY <2>2
<1>4. ASSUME NEW n \in Nat, n \in K PROVE n + 1 \in K
  <2>1. PICK f : Run(f, n)
      BY <1>4
  <2> DEFINE g == [p \in Deep(n + 1) |-> MeaningStep(f, e, env, p)]
  <2>2. ASSUME NEW p \in Deep(n + 1) PROVE MeaningStep(f, e, env, p) = MeaningStep(g, e, env, p)
    <3>1. ASSUME IsOperator(e[p]), NEW q \in Operands(p) PROVE f[q] = g[q]
      <4>1. q \in DOMAIN e
          BY <1>1, <3>1 DEF Tree
      <4>2. Len(q) = Len(p) + 1
          BY <1>2, PathAlgebra DEF Operands, Side
      <4>3. q \in Deep(n) /\ q \in Deep(n + 1)
          BY <1>2, <4>1, <4>2
      <4>4. f[q] = MeaningStep(f, e, env, q)
        <5> HIDE DEF Deep
        <5> QED BY <2>1, <4>3
      <4>5. g[q] = MeaningStep(f, e, env, q)
        <5> HIDE DEF Deep
        <5> QED BY <4>3
      <4> QED BY <4>4, <4>5
    <3> HIDE DEF g
    <3> QED BY <3>1, MeaningStepLocal
  <2>3. g = [p \in Deep(n + 1) |-> MeaningStep(f, e, env, p)]
      OBVIOUS
  <2> HIDE DEF g, Deep
  <2>4. Run(g, n + 1)
      BY <2>2, <2>3, Zenon
  <2> QED BY <2>4
<1> HIDE DEF K
<1>5. Nat \subseteq K
    BY <1>3, <1>4, NatSetInduction
<1>6. depth + 1 \in K
    BY <1>2, <1>5
<1>7. Deep(depth + 1) = DOMAIN e
  <2>1. \A p \in DOMAIN e : Len(p) + (depth + 1) > depth
      BY <1>2
  <2> QED BY <2>1
<1>8. \E m : m = [p \in DOMAIN e |-> MeaningStep(m, e, env, p)]
  <2> HIDE DEF Deep
  <2> QED BY <1>6, <1>7 DEF K
<1> DEFINE m == CHOOSE m : m = [p \in DOMAIN e |-> MeaningStep(m, e, env, p)]
<1>9. m = [p \in DOMAIN e |-> MeaningStep(m, e, env, p)]
    BY <1>8, Zenon
<1>10. Meaning(e, env) = m[<<>>]
    BY Zenon DEF Meaning, MeaningStep
<1> HIDE DEF m
<1> QED BY <1>9, <1>10

-----------------------------------------------------------------------------
(* What is computed is a fraction again, whose denominator may be zero.    *)
IsNumeral(x) == x.n \in Int /\ x.d \in Nat

LEMMA QuotientType ==
    ASSUME NEW n \in Int, NEW d \in Nat
    PROVE  IsNumeral(Quotient(n, d))
BY DEF Quotient, IsNumeral, Frac, NaN

LEMMA SumType ==
    ASSUME NEW a, IsNumeral(a), NEW b, IsNumeral(b)
    PROVE  IsNumeral(Sum(a, b))
<1>1. a.n * b.d + b.n * a.d \in Int /\ a.d * b.d \in Nat
    BY DEF IsNumeral
<1>2. IsNumeral(Quotient(a.n * b.d + b.n * a.d, a.d * b.d))
    BY <1>1, QuotientType
<1>3. IsNumeral(Frac(a.n, 0))
    BY DEF IsNumeral, Frac
<1> QED BY <1>2, <1>3 DEF Sum

LEMMA ProductType ==
    ASSUME NEW a, IsNumeral(a), NEW b, IsNumeral(b)
    PROVE  IsNumeral(Product(a, b))
<1>1. a.n * b.n \in Int /\ a.d * b.d \in Nat
    BY DEF IsNumeral
<1> QED BY <1>1, QuotientType DEF Product

LEMMA ComputeType ==
    ASSUME NEW k, NEW a, IsNumeral(a), NEW b, IsNumeral(b)
    PROVE  IsNumeral(Compute(k, a, b))
<1>1. IsNumeral(NaN) /\ IsNumeral(Negative(b)) /\ IsNumeral(OneOver(b))
    BY DEF IsNumeral, NaN, Negative, OneOver, Frac
<1>2. /\ IsNumeral(Sum(a, b)) /\ IsNumeral(Sum(a, Negative(b)))
      /\ IsNumeral(Product(a, b)) /\ IsNumeral(Product(a, OneOver(b)))
    BY <1>1, SumType, ProductType
<1>3. Compute(k, a, b) \in {NaN, Sum(a, b), Sum(a, Negative(b)), Product(a, b),
                            Product(a, OneOver(b))}
    BY Zenon DEF Compute
<1> QED BY <1>1, <1>2, <1>3

(* The meaning of a node is a fraction, or no number at all, and depends   *)
(* on references of the expression.                                        *)
LEMMA MeaningType ==
    ASSUME NEW e, IsExpression(e), NEW env,
           \A ref \in ExtractPlainRefs(e) : IsNumeral(Scalar(env[ref])),
           NEW m, m = [p \in DOMAIN e |-> MeaningStep(m, e, env, p)],
           NEW p \in DOMAIN e
    PROVE  IsNumeral(m[p].value) /\ m[p].refs \subseteq ExtractPlainRefs(e)
<1> DEFINE S == {q \in DOMAIN e : /\ IsNumeral(m[q].value)
                                  /\ m[q].refs \subseteq ExtractPlainRefs(e)}
<1>1. PICK depth : Tree(e, depth)
    BY ExpressionIsTree
<1>2. ASSUME NEW q \in DOMAIN e, IsOperator(e[q]) => Operands(q) \subseteq S
      PROVE  q \in S
  <2>1. m[q] = MeaningStep(m, e, env, q)
      BY Zenon
  <2>2. CASE e[q].k = "const" /\ e[q].c.n \in Int /\ e[q].c.d \in Nat \ {0}
    <3>1. m[q] = [value |-> e[q].c, refs |-> {}]
        BY <2>1, <2>2 DEF MeaningStep
    <3> QED BY <2>2, <3>1 DEF IsNumeral
  <2>3. CASE e[q].k = "ref"
    <3>1. m[q] = [value |-> Scalar(env[e[q].p]), refs |-> {e[q].p}]
        BY <2>1, <2>3 DEF MeaningStep
    <3>2. e[q].p \in ExtractPlainRefs(e)
        BY <2>3 DEF ExtractPlainRefs
    <3> QED BY <3>1, <3>2
  <2>4. CASE IsOperator(e[q])
    <3> DEFINE a == m[Append(q, "a")]
               b == m[Append(q, "b")]
    <3>1. /\ IsNumeral(a.value) /\ a.refs \subseteq ExtractPlainRefs(e)
          /\ IsNumeral(b.value) /\ b.refs \subseteq ExtractPlainRefs(e)
        BY <1>2, <2>4 DEF Operands, Side
    <3>2. m[q] \in {a, b} \/ m[q] = Both(e[q].k, a, b)
        BY <2>1, <2>4 DEF MeaningStep, IsOperator, Arithmetic
    <3> HIDE DEF a, b
    <3>3. IsNumeral(Compute(e[q].k, a.value, b.value))
        BY <3>1, ComputeType
    <3> QED BY <3>1, <3>2, <3>3 DEF Both
  <2> QED BY <2>2, <2>3, <2>4 DEF IsExpression
<1> HIDE DEF S
<1>3. DOMAIN e \subseteq S
    BY <1>1, <1>2, TreeInduction
<1> QED BY <1>3 DEF S

-----------------------------------------------------------------------------
(* The same while the expression is rewritten: the value of a node, and    *)
(* the references it depends on that are nil.  A bound reference is not.   *)
SemStep(f, e, ctx, p) ==
    CASE e[p].k = "const"    -> [value |-> e[p].c, nil |-> {}]
      [] e[p].k = "ref"      -> [value |-> Scalar(At(ctx, e[p].p)),
                                 nil |-> {r \in {e[p].p} : Nil(ctx, r)}]
      [] e[p].k = "bound"    -> [value |-> Scalar(e[p].v), nil |-> {}]
      [] e[p].k = "coalesce" -> IF f[Append(p, "a")].nil = {}
                                THEN f[Append(p, "a")] ELSE f[Append(p, "b")]
      [] OTHER -> [value |-> Compute(e[p].k, f[Append(p, "a")].value, f[Append(p, "b")].value),
                   nil |-> f[Append(p, "a")].nil \cup f[Append(p, "b")].nil]

(* f gives every node of e its value and its nil references.               *)
IsSem(f, e, ctx) ==
    DOMAIN f = DOMAIN e /\ \A p \in DOMAIN e : f[p] = SemStep(f, e, ctx, p)

(* The values that env has of the references are those in the context.     *)
Agrees(env, ctx, refs) ==
    \A r \in refs : /\ Scalar(env[r]) = Scalar(At(ctx, r))
                    /\ Present(env[r]) <=> Present(At(ctx, r))
                    /\ Present(env[r]) /\ env[r] # Leaf(Null) <=> ~Nil(ctx, r)

(* The meaning of an expression is such.                                   *)
LEMMA MeaningIsSem ==
    ASSUME NEW e, IsExpression(e), NEW env, NEW ctx,
           Agrees(env, ctx, ExtractPlainRefs(e)),
           \A ref \in ExtractPlainRefs(e) : IsNumeral(Scalar(env[ref]))
    PROVE  \E f : /\ IsSem(f, e, ctx)
                  /\ f[<<>>].value = Meaning(e, env).value
                  /\ f[<<>>].nil = {r \in Meaning(e, env).refs : Nil(ctx, r)}
<1>1. PICK m : /\ m = [p \in DOMAIN e |-> MeaningStep(m, e, env, p)]
               /\ Meaning(e, env) = m[<<>>]
    BY MeaningDefined
<1> DEFINE nils(p) == {r \in m[p].refs : Nil(ctx, r)}
           f == [p \in DOMAIN e |-> [value |-> m[p].value, nil |-> nils(p)]]
<1>2. ASSUME NEW p \in DOMAIN e PROVE f[p] = SemStep(f, e, ctx, p)
  <2>1. m[p] = MeaningStep(m, e, env, p)
      BY <1>1, Zenon
  <2>2. CASE e[p].k = "const"
    <3>1. m[p] = [value |-> e[p].c, refs |-> {}]
        BY <2>1, <2>2 DEF MeaningStep
    <3>2. SemStep(f, e, ctx, p) = [value |-> e[p].c, nil |-> {}]
        BY <2>2 DEF SemStep
    <3>3. f[p] = [value |-> m[p].value, nil |-> nils(p)] /\ nils(p) = {}
        BY <3>1
    <3> HIDE DEF f
    <3> QED BY <3>1, <3>2, <3>3
  <2>3. CASE e[p].k = "ref"
    <3>1. m[p] = [value |-> Scalar(env[e[p].p]), refs |-> {e[p].p}]
        BY <2>1, <2>3 DEF MeaningStep
    <3>2. Scalar(env[e[p].p]) = Scalar(At(ctx, e[p].p))
        BY <2>3 DEF ExtractPlainRefs, Agrees
    <3>3. SemStep(f, e, ctx, p) = [value |-> Scalar(At(ctx, e[p].p)),
                                   nil |-> {r \in {e[p].p} : Nil(ctx, r)}]
        BY <2>3 DEF SemStep
    <3>4. /\ f[p] = [value |-> m[p].value, nil |-> nils(p)]
          /\ nils(p) = {r \in {e[p].p} : Nil(ctx, r)}
        BY <3>1
    <3> HIDE DEF f
    <3> QED BY <3>1, <3>2, <3>3, <3>4
  <2>4. CASE IsOperator(e[p])
    <3>1. Append(p, "a") \in DOMAIN e /\ Append(p, "b") \in DOMAIN e
        BY <2>4 DEF IsExpression, Operands, Side, IsOperator, Arithmetic
    <3> DEFINE a == Append(p, "a")
               b == Append(p, "b")
    <3>2. /\ f[a] = [value |-> m[a].value, nil |-> nils(a)]
          /\ f[b] = [value |-> m[b].value, nil |-> nils(b)]
          /\ f[p] = [value |-> m[p].value, nil |-> nils(p)]
        BY <3>1
    <3>3. CASE e[p].k = "coalesce"
      <4>1. m[p] = IF HasValue(env, m[a].refs) THEN m[a] ELSE m[b]
          BY <2>1, <3>3 DEF MeaningStep
      <4>2. SemStep(f, e, ctx, p) = IF f[a].nil = {} THEN f[a] ELSE f[b]
          BY <3>3 DEF SemStep
      <4>3. m[a].refs \subseteq ExtractPlainRefs(e)
          BY <1>1, <3>1, MeaningType
      <4>4. HasValue(env, m[a].refs) <=> nils(a) = {}
          BY <4>3 DEF HasValue, Agrees
      <4> HIDE DEF f, a, b
      <4> QED BY <3>2, <4>1, <4>2, <4>4
    <3>4. CASE e[p].k # "coalesce"
      <4>1. m[p] = Both(e[p].k, m[a], m[b])
          BY <2>1, <2>4, <3>4 DEF MeaningStep, IsOperator, Arithmetic
      <4>2. SemStep(f, e, ctx, p) = [value |-> Compute(e[p].k, f[a].value, f[b].value),
                                     nil |-> f[a].nil \cup f[b].nil]
          BY <2>4, <3>4 DEF SemStep, IsOperator, Arithmetic
      <4>3. /\ m[p].value = Compute(e[p].k, m[a].value, m[b].value)
            /\ m[p].refs = m[a].refs \cup m[b].refs
          BY <4>1 DEF Both
      <4>4. nils(p) = nils(a) \cup nils(b)
          BY <4>3
      <4> HIDE DEF f, a, b, nils
      <4> QED BY <3>2, <4>2, <4>3, <4>4
    <3> QED BY <3>3, <3>4
  <2> QED BY <2>2, <2>3, <2>4 DEF IsExpression
<1>3. <<>> \in DOMAIN e
    BY DEF IsExpression
<1>4. f[<<>>] = [value |-> m[<<>>].value, nil |-> nils(<<>>)]
    BY <1>3
<1>5. IsSem(f, e, ctx)
  <2>1. DOMAIN f = DOMAIN e
      OBVIOUS
  <2> HIDE DEF f
  <2> QED BY <1>2, <2>1 DEF IsSem
<1> HIDE DEF f
<1>6. /\ f[<<>>].value = Meaning(e, env).value
      /\ f[<<>>].nil = {r \in Meaning(e, env).refs : Nil(ctx, r)}
    BY <1>1, <1>4
<1> QED BY <1>5, <1>6

-----------------------------------------------------------------------------
(* What is found at a path is what continues it.                           *)
LEMMA AtIs ==
    ASSUME NEW S, NEW doc, DOMAIN doc \subseteq Seq(S), NEW path \in Seq(S)
    PROVE  /\ DOMAIN At(doc, path) = {r \in Seq(S) : path \o r \in DOMAIN doc}
           /\ \A r \in DOMAIN At(doc, path) : At(doc, path)[r] = doc[path \o r]
<1> DEFINE below == {p \in DOMAIN doc : IsPrefix(path, p)}
           D == {SubSeq(p, Len(path) + 1, Len(p)) : p \in below}
<1>1. At(doc, path) = [q \in D |-> doc[path \o q]]
    BY DEF At
<1>2. D = {r \in Seq(S) : path \o r \in DOMAIN doc}
  <2>1. ASSUME NEW p \in below
        PROVE  /\ SubSeq(p, Len(path) + 1, Len(p)) \in Seq(S)
               /\ path \o SubSeq(p, Len(path) + 1, Len(p)) = p
      BY PrefixIsConcat
  <2>2. ASSUME NEW r \in Seq(S), path \o r \in DOMAIN doc PROVE r \in D
    <3>1. IsPrefix(path, path \o r)
        BY SuffixOf
    <3>2. SubSeq(path \o r, Len(path) + 1, Len(path \o r)) = r
        BY SuffixOf
    <3> QED BY <2>2, <3>1, <3>2
  <2>3. D \subseteq {r \in Seq(S) : path \o r \in DOMAIN doc}
      BY <2>1
  <2> HIDE DEF D
  <2> QED BY <2>2, <2>3
<1> HIDE DEF D
<1> QED BY <1>1, <1>2

(* Documents that are found are the same if they have the same values.     *)
LEMMA SameAt ==
    ASSUME NEW c, NEW d, NEW p, NEW q, DOMAIN At(c, p) = DOMAIN At(d, q),
           \A r \in DOMAIN At(c, p) : At(c, p)[r] = At(d, q)[r]
    PROVE  At(c, p) = At(d, q)
<1>1. \A doc, path : \E D : At(doc, path) = [r \in D |-> doc[path \o r]]
    BY DEF At
<1>2. PICK C : At(c, p) = [r \in C |-> c[p \o r]]
    BY <1>1
<1>3. PICK D : At(d, q) = [r \in D |-> d[q \o r]]
    BY <1>1
<1> QED BY <1>2, <1>3

(* What is found below what is found.                                      *)
LEMMA AtAt ==
    ASSUME NEW S, NEW doc, DOMAIN doc \subseteq Seq(S), NEW p \in Seq(S), NEW q \in Seq(S)
    PROVE  At(At(doc, p), q) = At(doc, p \o q)
<1> DEFINE d == At(doc, p)
           pq == p \o q
<1>1. pq \in Seq(S) /\ \A r \in Seq(S) : q \o r \in Seq(S) /\ pq \o r = p \o (q \o r)
    BY ConcatProperties, ConcatAssociative
<1>2. /\ DOMAIN d = {r \in Seq(S) : p \o r \in DOMAIN doc}
      /\ \A r \in DOMAIN d : d[r] = doc[p \o r]
    BY AtIs, ZenonT(60)
<1> HIDE DEF d, pq
<1>3. /\ DOMAIN At(d, q) = {r \in Seq(S) : q \o r \in DOMAIN d}
      /\ \A r \in DOMAIN At(d, q) : At(d, q)[r] = d[q \o r]
  <2>1. DOMAIN d \subseteq Seq(S)
      BY <1>2
  <2> QED BY <2>1, AtIs, ZenonT(60)
<1>4. /\ DOMAIN At(doc, pq) = {r \in Seq(S) : pq \o r \in DOMAIN doc}
      /\ \A r \in DOMAIN At(doc, pq) : At(doc, pq)[r] = doc[pq \o r]
  <2>1. pq \in Seq(S)
      BY <1>1
  <2> QED BY <2>1, AtIs, ZenonT(60)
<1>5. DOMAIN At(d, q) = DOMAIN At(doc, pq)
    BY <1>1, <1>2, <1>3, <1>4
<1>6. \A r \in DOMAIN At(d, q) : At(d, q)[r] = At(doc, pq)[r]
    BY <1>1, <1>2, <1>3, <1>4, ZenonT(60)
<1>7. At(d, q) = At(doc, pq)
    BY <1>5, <1>6, SameAt
<1> QED BY <1>7 DEF d, pq

(* Nothing is below a leaf.                                                *)
LEMMA NothingBelowLeaf ==
    ASSUME NEW e, NEW depth, Tree(e, depth), NEW q \in DOMAIN e, ~IsOperator(e[q]),
           NEW s \in Seq(Side), q \o s \in DOMAIN e
    PROVE  s = <<>>
<1> DEFINE Longer == {r \in Seq(Side) : r # <<>> /\ q \o r \in DOMAIN e}
           L == {Len(r) : r \in Longer}
<1> SUFFICES ASSUME s # <<>> PROVE FALSE
    OBVIOUS
<1>1. s \in Longer /\ q \in Seq(Side)
    BY DEF Tree
<1>2. L \in SUBSET Nat /\ L # {}
  <2>1. \A r \in Longer : Len(r) \in Nat
      BY LenProperties
  <2> QED BY <1>1, <2>1
<1>3. PICK n \in L : \A l \in L : n <= l
  <2> HIDE DEF L
  <2> QED BY <1>2, LeastNat
<1>4. PICK r \in Longer : Len(r) = n
    OBVIOUS
<1>5. PICK t \in Seq(Side), x \in Side : r = Append(t, x)
  <2>1. r \in Seq(Side) /\ r # <<>>
      OBVIOUS
  <2> QED BY <2>1, SequenceEmptyOrAppend
<1>6. q \o r = Append(q \o t, x) /\ q \o t \in Seq(Side) /\ Len(r) = Len(t) + 1
      /\ Len(t) \in Nat
    BY <1>1, <1>5, PathAlgebra
<1>7. q \o r # <<>>
    BY <1>6, PathAlgebra
<1>8. PICK p \in DOMAIN e : IsOperator(e[p]) /\ q \o r \in Operands(p)
    BY <1>7 DEF Tree
<1>9. PICK y \in Side : p \in Seq(Side) /\ q \o r = Append(p, y)
    BY <1>8 DEF Operands, Side, Tree
<1>10. p = q \o t
  <2>1. Append(p, y) = Append(q \o t, x)
      BY <1>6, <1>9
  <2>2. /\ p \in Seq(Side) /\ q \o t \in Seq(Side) /\ x \in Side /\ y \in Side
      BY <1>6, <1>9
  <2>3. \A u, v \in Seq(Side) : \A i, j \in Side : Append(u, i) = Append(v, j) => u = v
    <3> QED BY AppendInjective
  <2> QED BY <2>1, <2>2, <2>3
<1>11. t # <<>>
    BY <1>1, <1>8, <1>10, PathAlgebra, ZenonT(60)
<1>12. Len(t) \in L
    BY <1>8, <1>10, <1>11
<1>13. n <= Len(t)
  <2> HIDE DEF L
  <2> QED BY <1>3, <1>12
<1> QED BY <1>4, <1>6, <1>13

(* Without a coalesce() below it, a node depends on all the references     *)
(* below it.                                                               *)
LEMMA NilBelow ==
    ASSUME NEW e, NEW depth, Tree(e, depth), NEW ctx, NEW f, IsSem(f, e, ctx),
           NEW p \in DOMAIN e, \A q \in Coalesces(e) : ~IsPrefix(p, q)
    PROVE  f[p].nil = {r \in ExtractPlainRefs(At(e, p)) : Nil(ctx, r)}
<1> DEFINE Refs(q) == ExtractPlainRefs(At(e, q))
           Free(q) == \A c \in Coalesces(e) : ~IsPrefix(q, c)
           S == {q \in DOMAIN e : Free(q) => f[q].nil = {r \in Refs(q) : Nil(ctx, r)}}
<1>1. DOMAIN e \subseteq Seq(Side)
    BY DEF Tree
<1>2. ASSUME NEW q \in DOMAIN e
      PROVE  Refs(q) = {e[q \o s].p : s \in {s \in Seq(Side) : q \o s \in DOMAIN e
                                                           /\ e[q \o s].k = "ref"}}
  <2>1. /\ DOMAIN At(e, q) = {s \in Seq(Side) : q \o s \in DOMAIN e}
        /\ \A s \in DOMAIN At(e, q) : At(e, q)[s] = e[q \o s]
      BY <1>1, AtIs, ZenonT(60)
  <2> QED BY <2>1 DEF ExtractPlainRefs
<1>3. ASSUME NEW q \in DOMAIN e, IsOperator(e[q])
      PROVE  Refs(q) = Refs(Append(q, "a")) \cup Refs(Append(q, "b"))
  <2>1. /\ \A x \in Side : Append(q, x) \in DOMAIN e
        /\ q \in Seq(Side) /\ "a" \in Side /\ "b" \in Side
        /\ \A x \in Side : x \in {"a", "b"}
      BY <1>1, <1>3, Sides DEF Tree, Operands
  <2>2. ASSUME NEW s \in Seq(Side), s # <<>>
        PROVE  \E x \in Side, t \in Seq(Side) : q \o s = Append(q, x) \o t
    <3>1. /\ s = SubSeq(s, 1, Len(s)) /\ Len(s) \in Nat \ {0}
        BY <2>2, SubSeqFull, EmptySeq
    <3>2. /\ 1 \in 1..Len(s) /\ Len(s) \in 1..Len(s)
        BY <3>1
    <3>3. SubSeq(s, 1, Len(s)) = <<s[1]>> \o SubSeq(s, 1 + 1, Len(s))
        BY <3>2, SubSeqRecursiveFirst
    <3>4. s[1] \in Side
        BY <3>2, ElementOfSeq
    <3>5. SubSeq(s, 1 + 1, Len(s)) \in Seq(Side)
      <4>1. \A i \in (1 + 1)..Len(s) : s[i] \in Side
          BY <3>1, ElementOfSeq
      <4>2. 1 + 1 \in Int /\ Len(s) \in Int
          BY <3>1
      <4> QED BY <4>1, <4>2, SubSeqProperties
    <3>6. <<s[1]>> \in Seq(Side) /\ Append(q, s[1]) = q \o <<s[1]>>
        BY <2>1, <3>4, PathAlgebra
    <3> DEFINE t == SubSeq(s, 1 + 1, Len(s))
               u == <<s[1]>>
    <3>7. u \in Seq(Side) /\ t \in Seq(Side) /\ s = u \o t /\ Append(q, s[1]) = q \o u
        BY <3>1, <3>3, <3>5, <3>6
    <3> HIDE DEF t, u
    <3>8. q \o (u \o t) = (q \o u) \o t
      <4>1. q \in Seq(Side) /\ u \in Seq(Side) /\ t \in Seq(Side)
          BY <2>1, <3>7
      <4> QED BY <4>1, ConcatAssociative, SMTT(40)
    <3> QED BY <3>4, <3>7, <3>8
  <2>3. q \o <<>> = q /\ e[q].k # "ref"
      BY <1>3, <2>1, PathAlgebra DEF IsOperator, Arithmetic
  <2>4. \A r \in Refs(q) : r \in Refs(Append(q, "a")) \cup Refs(Append(q, "b"))
    <3>1. TAKE r \in Refs(q)
    <3>2. PICK s \in Seq(Side) : q \o s \in DOMAIN e /\ e[q \o s].k = "ref" /\ r = e[q \o s].p
        BY <1>2
    <3>3. s # <<>>
        BY <2>3, <3>2
    <3>4. PICK x \in Side, t \in Seq(Side) : q \o s = Append(q, x) \o t
        BY <2>2, <3>3
    <3>5. Append(q, x) \in DOMAIN e
        BY <2>1
    <3>6. r \in Refs(Append(q, x))
        BY <1>2, <3>2, <3>4, <3>5
    <3> HIDE DEF Refs
    <3> QED BY <2>1, <3>6
  <2>5. ASSUME NEW x \in Side, NEW r \in Refs(Append(q, x)) PROVE r \in Refs(q)
    <3>1. Append(q, x) \in DOMAIN e
        BY <2>1
    <3>2. PICK t \in Seq(Side) : /\ Append(q, x) \o t \in DOMAIN e
                               /\ e[Append(q, x) \o t].k = "ref"
                               /\ r = e[Append(q, x) \o t].p
        BY <1>2, <3>1
    <3>3. /\ <<x>> \in Seq(Side) /\ Append(q, x) = q \o <<x>>
          /\ <<x>> \o t \in Seq(Side)
        BY <2>1, PathAlgebra
    <3>4. (q \o <<x>>) \o t = q \o (<<x>> \o t)
        BY <2>1, <3>3, ConcatAssociative
    <3> QED BY <1>2, <3>2, <3>3, <3>4
  <2> HIDE DEF Refs
  <2> QED BY <2>1, <2>4, <2>5
<1>4. ASSUME NEW q \in DOMAIN e, Free(q), IsOperator(e[q]), NEW c \in Operands(q)
      PROVE  Free(c)
  <2>1. q \in Seq(Side) /\ c \in Seq(Side) /\ IsPrefix(q, c)
    <3>1. PICK x \in Side : c = Append(q, x)
        BY <1>4 DEF Operands, Side
    <3>2. q \in Seq(Side)
        BY <1>1
    <3>3. <<x>> \in Seq(Side) /\ c = q \o <<x>>
        BY <3>1, <3>2, PathAlgebra
    <3> QED BY <3>2, <3>3, PathAlgebra
  <2>2. ASSUME NEW d \in Coalesces(e), IsPrefix(c, d) PROVE FALSE
    <3>1. d \in Seq(Side)
        BY <1>1 DEF Coalesces
    <3>2. /\ c \o SubSeq(d, Len(c) + 1, Len(d)) = d /\ SubSeq(d, Len(c) + 1, Len(d)) \in Seq(Side)
          /\ q \o SubSeq(c, Len(q) + 1, Len(c)) = c /\ SubSeq(c, Len(q) + 1, Len(c)) \in Seq(Side)
        BY <2>1, <2>2, <3>1, PrefixIsConcat
    <3>3. PICK s \in Seq(Side), t \in Seq(Side) : d = (q \o s) \o t
        BY <3>2
    <3>4. s \o t \in Seq(Side) /\ d = q \o (s \o t)
        BY <2>1, <3>3, ConcatAssociative, ConcatProperties, SMTT(40)
    <3>5. IsPrefix(q, d)
        BY <2>1, <3>4, PathAlgebra
    <3> QED BY <1>4, <3>5
  <2> QED BY <2>2
<1>5. ASSUME NEW q \in DOMAIN e, IsOperator(e[q]) => Operands(q) \subseteq S
      PROVE  q \in S
  <2> SUFFICES ASSUME Free(q) PROVE f[q].nil = {r \in Refs(q) : Nil(ctx, r)}
      OBVIOUS
  <2>1. f[q] = SemStep(f, e, ctx, q)
      BY DEF IsSem
  <2>2. CASE IsOperator(e[q])
    <3> DEFINE a == Append(q, "a")
               b == Append(q, "b")
    <3>1. e[q].k # "coalesce"
      <4>1. IsPrefix(q, q)
          BY <1>1, PathAlgebra
      <4> QED BY <4>1 DEF Coalesces
    <3>2. f[q].nil = f[a].nil \cup f[b].nil
        BY <2>1, <2>2, <3>1 DEF SemStep, IsOperator, Arithmetic
    <3>3. a \in Operands(q) /\ b \in Operands(q)
        BY DEF Operands, Side
    <3>4. /\ f[a].nil = {r \in Refs(a) : Nil(ctx, r)}
          /\ f[b].nil = {r \in Refs(b) : Nil(ctx, r)}
      <4>1. Free(a) /\ Free(b)
        <5> HIDE DEF a, b, Free
        <5> QED BY <1>4, <2>2, <3>3
      <4>2. a \in S /\ b \in S
          BY <1>5, <2>2, <3>3
      <4> HIDE DEF a, b, Free, Refs
      <4> QED BY <4>1, <4>2
    <3>5. Refs(q) = Refs(a) \cup Refs(b)
        BY <1>3, <2>2
    <3> HIDE DEF a, b, Refs
    <3> QED BY <3>2, <3>4, <3>5
  <2>3. CASE ~IsOperator(e[q])
    <3>1. \A s \in Seq(Side) : q \o s \in DOMAIN e => s = <<>>
        BY <2>3, NothingBelowLeaf
    <3>2. <<>> \in Seq(Side) /\ q \o <<>> = q
        BY <1>1, PathAlgebra, EmptySeq
    <3>3. Refs(q) = IF e[q].k = "ref" THEN {e[q].p} ELSE {}
      <4>1. {s \in Seq(Side) : q \o s \in DOMAIN e /\ e[q \o s].k = "ref"}
               = IF e[q].k = "ref" THEN {<<>>} ELSE {}
          BY <3>1, <3>2
      <4> HIDE DEF Refs
      <4> QED BY <1>2, <3>2, <4>1, ZenonT(60)
    <3>4. f[q].nil = IF e[q].k = "ref" THEN {r \in {e[q].p} : Nil(ctx, r)} ELSE {}
      <4>1. e[q].k \in {"const", "ref", "bound"}
          BY <2>3 DEF Tree
      <4> QED BY <2>1, <4>1 DEF SemStep
    <3> HIDE DEF Refs
    <3> QED BY <3>3, <3>4
  <2> QED BY <2>2, <2>3
<1> HIDE DEF S
<1>6. DOMAIN e \subseteq S
    BY <1>5, TreeInduction
<1> QED BY <1>6 DEF S

-----------------------------------------------------------------------------
(* What is left of a coalesce() when it is collapsed: the operand that is  *)
(* taken, with its references bound if it is the primary.                  *)
Taken(e, p, ctx) ==
    IF \E ref \in ExtractPlainRefs(At(e, Append(p, "a"))) : Nil(ctx, ref)
    THEN "b" ELSE "a"

(* A node with its reference bound to the value it has.                    *)
Bound(node, ctx) ==
    IF node.k = "ref" THEN [k |-> "bound", v |-> At(ctx, node.p)] ELSE node

(* The node that the collapsed coalesce() leaves at r below its own        *)
(* address.                                                                *)
Moved(e, p, ctx, r) ==
    LET node == e[Append(p, Taken(e, p, ctx)) \o r]
    IN  IF Taken(e, p, ctx) = "a" THEN Bound(node, ctx) ELSE node

(* c is e with the coalesce() at p collapsed; px is its operand that is    *)
(* left.                                                                   *)
Collapsed(e, p, ctx, px, c) ==
    /\ \A q : q \in DOMAIN c <=>
            \/ q \in DOMAIN e /\ ~IsPrefix(p, q)
            \/ \E r \in Seq(Side) : q = p \o r /\ px \o r \in DOMAIN e
    /\ \A q \in DOMAIN e : ~IsPrefix(p, q) => c[q] = e[q]
    /\ \A r \in Seq(Side) : px \o r \in DOMAIN e => c[p \o r] = Moved(e, p, ctx, r)

(* CollapseAt() replaces the coalesce() by what is left of it, and nothing *)
(* else.                                                                   *)
LEMMA CollapseIs ==
    ASSUME NEW e, NEW depth, Tree(e, depth), NEW ctx, NEW p \in DOMAIN e
    PROVE  Collapsed(e, p, ctx, Append(p, Taken(e, p, ctx)), CollapseAt(e, p, ctx))
<1> DEFINE x == Taken(e, p, ctx)
           px == Append(p, x)
           new == Collapse(At(e, p), ctx)
           kept == {q \in DOMAIN e : ~IsPrefix(p, q)}
           D == kept \cup {p \o r : r \in DOMAIN new}
<1>1. /\ DOMAIN e \subseteq Seq(Side) /\ p \in Seq(Side) /\ x \in Side
      /\ px \in Seq(Side) /\ \A y \in Side : Append(p, y) = p \o <<y>> /\ <<y>> \in Seq(Side)
                                        /\ Append(p, y) \in Seq(Side)
  <2>1. DOMAIN e \subseteq Seq(Side) /\ p \in Seq(Side) /\ x \in Side
      BY Sides DEF Tree, Taken
  <2> QED BY <2>1, PathAlgebra
<1>2. ASSUME NEW y \in Side
      PROVE  /\ Operand(At(e, p), y) = At(e, Append(p, y))
             /\ DOMAIN At(e, Append(p, y)) = {r \in Seq(Side) : Append(p, y) \o r \in DOMAIN e}
             /\ \A r \in DOMAIN At(e, Append(p, y)) :
                   At(e, Append(p, y))[r] = e[Append(p, y) \o r]
  <2>1. At(At(e, p), <<y>>) = At(e, p \o <<y>>)
    <3>1. DOMAIN e \subseteq Seq(Side)
        BY <1>1
    <3> DEFINE u == <<y>>
    <3>2. p \in Seq(Side) /\ u \in Seq(Side)
        BY <1>1
    <3> HIDE DEF u
    <3>3. At(At(e, p), u) = At(e, p \o u)
        BY <3>1, <3>2, AtAt
    <3> QED BY <3>3 DEF u
  <2> DEFINE py == Append(p, y)
  <2>2. py \in Seq(Side)
      BY <1>1
  <2> HIDE DEF py
  <2>3. /\ DOMAIN At(e, py) = {r \in Seq(Side) : py \o r \in DOMAIN e}
        /\ \A r \in DOMAIN At(e, py) : At(e, py)[r] = e[py \o r]
    <3>1. DOMAIN e \subseteq Seq(Side)
        BY <1>1
    <3> QED BY <2>2, <3>1, AtIs, ZenonT(60)
  <2> QED BY <1>1, <2>1, <2>3 DEF Operand, py
<1>3. /\ DOMAIN new = {r \in Seq(Side) : px \o r \in DOMAIN e}
      /\ \A r \in DOMAIN new : new[r] = Moved(e, p, ctx, r)
  <2>1. CASE x = "b"
    <3>1. new = At(e, px)
        BY <1>2, <2>1, Sides DEF Collapse, Taken
    <3> QED BY <1>1, <1>2, <2>1, <3>1 DEF Moved
  <2>2. CASE x = "a"
    <3>1. new = Substitute(At(e, px), ctx)
        BY <1>2, <2>2, Sides DEF Collapse, Taken
    <3>2. /\ DOMAIN new = DOMAIN At(e, px)
          /\ \A r \in DOMAIN new : new[r] = Bound(At(e, px)[r], ctx)
        BY <3>1 DEF Substitute, Bound
    <3> QED BY <1>1, <1>2, <2>2, <3>2 DEF Moved
  <2> QED BY <1>1, <2>1, <2>2, Sides
<1>4. CollapseAt(e, p, ctx) =
         [q \in D |-> IF q \in kept THEN e[q] ELSE new[SubSeq(q, Len(p) + 1, Len(q))]]
    BY DEF CollapseAt
<1>5. ASSUME NEW r \in Seq(Side)
      PROVE  IsPrefix(p, p \o r) /\ SubSeq(p \o r, Len(p) + 1, Len(p \o r)) = r
    BY <1>1, SuffixOf
<1> HIDE DEF new, x, px
<1>6. \A r \in Seq(Side) : px \o r \in DOMAIN e =>
         CollapseAt(e, p, ctx)[p \o r] = Moved(e, p, ctx, r)
  <2> TAKE r \in Seq(Side)
  <2> HAVE px \o r \in DOMAIN e
  <2>1. r \in DOMAIN new /\ p \o r \in D /\ p \o r \notin kept
      BY <1>3, <1>5
  <2> QED BY <1>3, <1>4, <1>5, <2>1
<1>7. \A q \in DOMAIN e : ~IsPrefix(p, q) => CollapseAt(e, p, ctx)[q] = e[q]
    BY <1>4
<1>8. \A q : q \in DOMAIN CollapseAt(e, p, ctx) <=>
         q \in kept \/ \E r \in Seq(Side) : q = p \o r /\ px \o r \in DOMAIN e
    BY <1>3, <1>4
<1> QED BY <1>6, <1>7, <1>8 DEF Collapsed, x, px

(* A node keeps its operator when it is moved.                             *)
LEMMA MovedKind ==
    ASSUME NEW e, NEW p, NEW ctx, NEW r
    PROVE  /\ Moved(e, p, ctx, r).k =
                 IF /\ Taken(e, p, ctx) = "a"
                    /\ e[Append(p, Taken(e, p, ctx)) \o r].k = "ref"
                 THEN "bound" ELSE e[Append(p, Taken(e, p, ctx)) \o r].k
           /\ IsOperator(Moved(e, p, ctx, r)) <=>
                 IsOperator(e[Append(p, Taken(e, p, ctx)) \o r])
BY DEF Moved, Bound, IsOperator, Arithmetic

(* A collapsed tree is a tree.                                             *)
LEMMA CollapseTree ==
    ASSUME NEW e, NEW depth, Tree(e, depth), NEW ctx, NEW p \in Coalesces(e)
    PROVE  Tree(CollapseAt(e, p, ctx), depth)
<1> DEFINE x == Taken(e, p, ctx)
           px == Append(p, x)
           c == CollapseAt(e, p, ctx)
<1>1. /\ p \in DOMAIN e /\ IsOperator(e[p]) /\ DOMAIN e \subseteq Seq(Side) /\ x \in Side
      /\ px \in DOMAIN e /\ px \in Seq(Side) /\ p \in Seq(Side)
  <2>1. p \in DOMAIN e /\ IsOperator(e[p]) /\ x \in Side /\ DOMAIN e \subseteq Seq(Side)
      BY Sides DEF Coalesces, IsOperator, Taken, Tree
  <2>2. px \in Operands(p) /\ Operands(p) \subseteq DOMAIN e
      BY <2>1 DEF Tree, Operands, Side
  <2> QED BY <2>1, <2>2
<1>c. Collapsed(e, p, ctx, px, c)
    BY <1>1, CollapseIs
<1>3. \A r : /\ IsOperator(Moved(e, p, ctx, r)) <=> IsOperator(e[px \o r])
             /\ IsOperator(Moved(e, p, ctx, r)) \/ Moved(e, p, ctx, r).k \in {"bound", e[px \o r].k}
    BY MovedKind
<1>4. \A r \in Seq(Side) : /\ p \o r \in Seq(Side) /\ Len(p \o r) = Len(p) + Len(r)
                         /\ Len(px \o r) = Len(p) + 1 + Len(r)
                         /\ Len(p) \in Nat /\ Len(r) \in Nat
                         /\ IsPrefix(p, p \o r)
                         /\ \A y \in Side : /\ p \o Append(r, y) = Append(p \o r, y)
                                          /\ px \o Append(r, y) = Append(px \o r, y)
                                          /\ Append(r, y) \in Seq(Side)
  <2> TAKE r \in Seq(Side)
  <2>1. /\ p \o r \in Seq(Side) /\ Len(p \o r) = Len(p) + Len(r) /\ IsPrefix(p, p \o r)
        /\ Len(p) \in Nat /\ Len(px) = Len(p) + 1
        /\ \A y \in Side : p \o Append(r, y) = Append(p \o r, y)
      BY <1>1, PathAlgebra
  <2>2. /\ Len(r) \in Nat /\ \A y \in Side : Append(r, y) \in Seq(Side)
      BY PathAlgebra
  <2>3. /\ Len(px \o r) = Len(px) + Len(r)
        /\ \A y \in Side : px \o Append(r, y) = Append(px \o r, y)
    <3> HIDE DEF px
    <3> QED BY <1>1, PathAlgebra
  <2> QED BY <2>1, <2>2, <2>3
<1>5. <<>> \in Seq(Side) /\ px \o <<>> = px /\ p \o <<>> = p
  <2>1. <<>> \in Seq(Side) /\ p \o <<>> = p
      BY <1>1, PathAlgebra, EmptySeq
  <2>2. px \o <<>> = px
    <3> HIDE DEF px
    <3> QED BY <1>1, PathAlgebra
  <2> QED BY <2>1, <2>2
<1> HIDE DEF c, px, x
<1>2. /\ \A q : q \in DOMAIN c <=>
            \/ q \in DOMAIN e /\ ~IsPrefix(p, q)
            \/ \E r \in Seq(Side) : q = p \o r /\ px \o r \in DOMAIN e
      /\ \A q \in DOMAIN e : ~IsPrefix(p, q) => c[q] = e[q]
      /\ \A r \in Seq(Side) : px \o r \in DOMAIN e => c[p \o r] = Moved(e, p, ctx, r)
    BY <1>c DEF Collapsed
<1>6. DOMAIN c \subseteq Seq(Side)
  <2>1. ASSUME NEW q \in DOMAIN c PROVE q \in Seq(Side)
    <3>1. \/ q \in DOMAIN e
          \/ \E r \in Seq(Side) : q = p \o r
        BY <1>2
    <3> QED BY <1>1, <1>4, <3>1
  <2> QED BY <2>1
<1>7. <<>> \in DOMAIN c
  <2>1. CASE p = <<>>
      BY <1>1, <1>2, <1>5, <2>1
  <2>2. CASE p # <<>>
    <3>1. ~IsPrefix(p, <<>>)
      <4>1. <<>> \in Seq(Side) /\ IsPrefix(<<>>, p) /\ (IsPrefix(p, <<>>) /\ IsPrefix(<<>>, p) => p = <<>>)
          BY <1>1, <1>5, PathAlgebra
      <4> QED BY <2>2, <4>1
    <3> QED BY <1>2, <3>1 DEF Tree
  <2> QED BY <2>1, <2>2
<1>8. ASSUME NEW q \in DOMAIN c PROVE Len(q) <= depth
  <2>1. CASE q \in DOMAIN e
      BY <2>1 DEF Tree
  <2>2. ASSUME NEW r \in Seq(Side), q = p \o r, px \o r \in DOMAIN e PROVE Len(q) <= depth
    <3>1. Len(px \o r) <= depth /\ depth \in Nat
        BY <2>2 DEF Tree
    <3> QED BY <1>4, <2>2, <3>1
  <2> QED BY <1>2, <2>1, <2>2
<1>9. ASSUME NEW q \in DOMAIN c
      PROVE  IsOperator(c[q]) \/ c[q].k \in {"const", "ref", "bound"}
  <2>1. CASE q \in DOMAIN e /\ ~IsPrefix(p, q)
      BY <1>2, <2>1 DEF Tree
  <2>2. ASSUME NEW r \in Seq(Side), q = p \o r, px \o r \in DOMAIN e
        PROVE  IsOperator(c[q]) \/ c[q].k \in {"const", "ref", "bound"}
    <3>1. IsOperator(e[px \o r]) \/ e[px \o r].k \in {"const", "ref", "bound"}
        BY <2>2 DEF Tree
    <3> QED BY <1>2, <1>3, <2>2, <3>1
  <2> QED BY <1>2, <2>1, <2>2
<1>10. ASSUME NEW q \in DOMAIN c, IsOperator(c[q]), NEW y \in Side
       PROVE  Append(q, y) \in DOMAIN c
  <2>1. CASE q \in DOMAIN e /\ ~IsPrefix(p, q)
    <3>1. Append(q, y) \in DOMAIN e
        BY <1>2, <1>10, <2>1 DEF Tree, Operands, Side
    <3>2. CASE ~IsPrefix(p, Append(q, y))
        BY <1>2, <3>1, <3>2
    <3>3. CASE IsPrefix(p, Append(q, y))
      <4>1. p = Append(q, y)
        <5>1. q \in Seq(Side) /\ Append(q, y) \in Seq(Side) /\ IsPrefix(q, Append(q, y))
              /\ Len(Append(q, y)) = Len(q) + 1 /\ Len(q) \in Nat /\ Len(p) \in Nat
          <6>1. q \in Seq(Side) /\ p \in Seq(Side)
              BY <1>1, <2>1
          <6>2. Append(q, y) = q \o <<y>> /\ <<y>> \in Seq(Side) /\ Append(q, y) \in Seq(Side)
                /\ Len(Append(q, y)) = Len(q) + 1 /\ Len(q) \in Nat
              BY <6>1, PathAlgebra
          <6>3. IsPrefix(q, Append(q, y))
            <7> DEFINE u == <<y>>
            <7>1. u \in Seq(Side) /\ q \in Seq(Side)
                BY <6>1, <6>2
            <7> HIDE DEF u
            <7>2. IsPrefix(q, q \o u)
                BY <7>1, PathAlgebra
            <7> QED BY <6>2, <7>2 DEF u
          <6> QED BY <6>1, <6>2, <6>3, LenProperties
        <5>2. CASE Len(p) <= Len(q)
          <6> DEFINE qy == Append(q, y)
          <6> HIDE DEF qy
          <6>1. qy \in Seq(Side) /\ IsPrefix(q, qy) /\ IsPrefix(p, qy) /\ q \in Seq(Side)
                /\ p \in Seq(Side)
              BY <1>1, <3>3, <5>1 DEF qy
          <6>2. IsPrefix(p, q)
              BY <5>2, <6>1, PrefixesOfOne
          <6> QED BY <2>1, <6>2
        <5>3. CASE Len(p) > Len(q)
          <6>1. Len(Append(q, y)) <= Len(p)
              BY <5>1, <5>3
          <6> DEFINE qy == Append(q, y)
          <6> HIDE DEF qy
          <6>2. qy \in Seq(Side) /\ IsPrefix(p, qy) /\ p \in Seq(Side) /\ Len(qy) <= Len(p)
              BY <1>1, <3>3, <5>1, <6>1 DEF qy
          <6>3. IsPrefix(qy, qy)
              BY <6>2, PathAlgebra
          <6>4. IsPrefix(qy, p)
              BY <6>2, <6>3, PrefixesOfOne
          <6> QED BY <6>2, <6>4, PathAlgebra DEF qy
        <5> QED BY <5>1, <5>2, <5>3
      <4> QED BY <1>1, <1>2, <1>5, <4>1
    <3> QED BY <3>2, <3>3
  <2>2. ASSUME NEW r \in Seq(Side), q = p \o r, px \o r \in DOMAIN e
        PROVE  Append(q, y) \in DOMAIN c
    <3>1. IsOperator(e[px \o r])
        BY <1>2, <1>3, <1>10, <2>2
    <3>2. Append(px \o r, y) \in DOMAIN e
        BY <2>2, <3>1 DEF Tree, Operands, Side
    <3> QED BY <1>2, <1>4, <2>2, <3>2
  <2> QED BY <1>2, <2>1, <2>2
<1>11. ASSUME NEW q \in DOMAIN c, q # <<>>
       PROVE  \E t \in DOMAIN c : IsOperator(c[t]) /\ q \in Operands(t)
  <2>1. CASE q \in DOMAIN e /\ (~IsPrefix(p, q) \/ q = p)
    <3>1. PICK t \in DOMAIN e : IsOperator(e[t]) /\ q \in Operands(t)
        BY <1>11, <2>1 DEF Tree
    <3>2. PICK y \in Side : q = Append(t, y)
        BY <3>1 DEF Operands, Side
    <3>3. t \in Seq(Side) /\ <<y>> \in Seq(Side) /\ q = t \o <<y>> /\ Len(q) = Len(t) + 1
          /\ Len(t) \in Nat
      <4>1. t \in Seq(Side)
          BY <1>1
      <4> QED BY <3>2, <4>1, PathAlgebra
    <3>4. ~IsPrefix(p, t)
      <4> SUFFICES ASSUME IsPrefix(p, t) PROVE FALSE
          OBVIOUS
      <4>1. Len(p) <= Len(t)
          BY DEF IsPrefix
      <4>2. q # p
          BY <3>3, <4>1
      <4>3. PICK s \in Seq(Side) : t = p \o s
          BY <1>1, <3>3, PrefixIsConcat, ZenonT(60)
      <4>4. s \o <<y>> \in Seq(Side) /\ q = p \o (s \o <<y>>)
          BY <1>1, <3>3, <4>3, ConcatProperties, ConcatAssociative, SMTT(40)
      <4>5. IsPrefix(p, q)
          BY <1>1, <4>4, PathAlgebra
      <4> QED BY <2>1, <4>2, <4>5
    <3>5. t \in DOMAIN c /\ c[t] = e[t]
        BY <1>2, <3>4
    <3> QED BY <3>1, <3>5
  <2>2. ASSUME NEW r \in Seq(Side), q = p \o r, px \o r \in DOMAIN e, r # <<>>
        PROVE  \E t \in DOMAIN c : IsOperator(c[t]) /\ q \in Operands(t)
    <3>1. PICK s \in Seq(Side), y \in Side : r = Append(s, y)
      <4>1. r \in Seq(Side) /\ r # <<>>
          BY <2>2
      <4> QED BY <4>1, SequenceEmptyOrAppend
    <3>2. px \o r = Append(px \o s, y) /\ q = Append(p \o s, y) /\ Len(px \o r) = Len(p) + 1 + Len(r)
        BY <1>4, <2>2, <3>1
    <3>3. px \o r # <<>> /\ px \o s \in Seq(Side)
      <4>1. Len(r) \in Nat /\ Len(p) \in Nat
          BY <1>4
      <4>2. Len(px \o r) # 0
          BY <3>2, <4>1
      <4>3. px \o s \in Seq(Side)
          BY <1>1, ConcatProperties
      <4> QED BY <4>2, <4>3, EmptySeq
    <3>4. PICK t \in DOMAIN e : IsOperator(e[t]) /\ px \o r \in Operands(t)
        BY <2>2, <3>3 DEF Tree
    <3>5. PICK z \in Side : t \in Seq(Side) /\ px \o r = Append(t, z)
        BY <1>1, <3>4 DEF Operands, Side
    <3>6. t = px \o s
      <4>1. \A u, v \in Seq(Side) : \A i, j \in Side : Append(u, i) = Append(v, j) => u = v
        <5> QED BY AppendInjective
      <4> QED BY <3>2, <3>3, <3>5, <4>1
    <3>7. p \o s \in DOMAIN c /\ IsOperator(c[p \o s])
        BY <1>2, <1>3, <3>4, <3>6
    <3>8. q \in Operands(p \o s)
        BY <3>2 DEF Operands, Side
    <3> QED BY <3>7, <3>8
  <2>3. CASE q = p
      BY <1>1, <2>1, <2>3
  <2> QED BY <1>2, <1>5, <2>1, <2>2, <2>3
<1> QED BY <1>6, <1>7, <1>8, <1>9, <1>10, <1>11 DEF Tree, Operands, Side, c

-----------------------------------------------------------------------------
(* Below an innermost coalesce() there is no other.                        *)
LEMMA NoneBelowInnermost ==
    ASSUME NEW e, NEW depth, Tree(e, depth), NEW p \in Innermost(e), NEW x \in Side,
           NEW r \in Seq(Side), Append(p, x) \o r \in DOMAIN e
    PROVE  e[Append(p, x) \o r].k # "coalesce"
<1> DEFINE q == Append(p, x) \o r
           u == <<x>>
<1>1. p \in Seq(Side) /\ p \in Coalesces(e)
    BY DEF Innermost, Coalesces, Tree
<1>2. u \in Seq(Side) /\ Append(p, x) = p \o u /\ Append(p, x) \in Seq(Side)
      /\ Len(Append(p, x)) = Len(p) + 1 /\ Len(p) \in Nat
    BY <1>1, PathAlgebra
<1>3. Len(q) = Len(p) + 1 + Len(r) /\ Len(r) \in Nat
  <2> DEFINE px == Append(p, x)
  <2>1. px \in Seq(Side)
      BY <1>2
  <2> HIDE DEF px
  <2>2. Len(px \o r) = Len(px) + Len(r) /\ Len(r) \in Nat
      BY <2>1, ConcatProperties, LenProperties
  <2> QED BY <1>2, <2>2 DEF px
<1>4. q # p
    BY <1>2, <1>3
<1> HIDE DEF u
<1> DEFINE w == u \o r
<1>5. q = p \o w /\ w \in Seq(Side)
    BY <1>1, <1>2, ConcatAssociative, ConcatProperties
<1> HIDE DEF q, w
<1>6. IsPrefix(p, q)
    BY <1>1, <1>5, PathAlgebra
<1>7. q \notin Coalesces(e)
    BY <1>4, <1>6 DEF Innermost
<1> QED BY <1>7 DEF Coalesces, q

(* Collapsing it removes it from the coalesce()s, and nothing else.        *)
LEMMA CollapseRemoves ==
    ASSUME NEW e, NEW depth, Tree(e, depth), NEW ctx, NEW p \in Innermost(e)
    PROVE  Coalesces(CollapseAt(e, p, ctx)) = Coalesces(e) \ {p}
<1> DEFINE x == Taken(e, p, ctx)
           px == Append(p, x)
           c == CollapseAt(e, p, ctx)
<1>1. p \in Coalesces(e) /\ p \in DOMAIN e /\ p \in Seq(Side) /\ IsPrefix(p, p) /\ x \in Side
  <2>1. p \in Coalesces(e) /\ p \in DOMAIN e /\ p \in Seq(Side) /\ x \in Side
      BY Sides DEF Innermost, Coalesces, Tree, Taken
  <2> QED BY <2>1, PathAlgebra
<1>2. Collapsed(e, p, ctx, px, c)
    BY <1>1, CollapseIs
<1>3. \A r \in Seq(Side) : px \o r \in DOMAIN e =>
         /\ e[px \o r].k # "coalesce"
         /\ Moved(e, p, ctx, r).k \in {"bound", e[px \o r].k}
    BY <1>1, NoneBelowInnermost, MovedKind
<1>4. \A r \in Seq(Side) : IsPrefix(p, p \o r)
    BY <1>1, PathAlgebra
<1> HIDE DEF c, px, x
<1>5. ASSUME NEW q \in Coalesces(c) PROVE q \in Coalesces(e) \ {p}
  <2>1. q \in DOMAIN c /\ c[q].k = "coalesce"
      BY DEF Coalesces
  <2>2. ASSUME NEW r \in Seq(Side), q = p \o r, px \o r \in DOMAIN e PROVE FALSE
    <3>1. c[q] = Moved(e, p, ctx, r)
        BY <1>2, <2>2 DEF Collapsed
    <3>2. Moved(e, p, ctx, r).k \in {"bound", e[px \o r].k} /\ e[px \o r].k # "coalesce"
        BY <1>3, <2>2
    <3> QED BY <2>1, <3>1, <3>2
  <2>3. q \in DOMAIN e /\ ~IsPrefix(p, q) /\ c[q] = e[q]
      BY <1>2, <2>1, <2>2 DEF Collapsed
  <2> QED BY <1>1, <2>1, <2>3 DEF Coalesces
<1>6. ASSUME NEW q \in Coalesces(e), q # p PROVE q \in Coalesces(c)
  <2>1. q \in DOMAIN e /\ e[q].k = "coalesce"
      BY DEF Coalesces
  <2>2. ~IsPrefix(p, q)
      BY <1>6 DEF Innermost
  <2>3. q \in DOMAIN c /\ c[q] = e[q]
      BY <1>2, <2>1, <2>2 DEF Collapsed
  <2> QED BY <2>1, <2>3 DEF Coalesces
<1>7. Coalesces(c) = Coalesces(e) \ {p}
    BY <1>5, <1>6
<1> QED BY <1>7 DEF c

(* Under the operand that is taken nothing is nil if it is the primary,    *)
(* and the coalesce() has the value of that operand.                       *)
LEMMA TakenSem ==
    ASSUME NEW e, NEW depth, Tree(e, depth), NEW ctx, NEW f, IsSem(f, e, ctx),
           NEW p \in Innermost(e)
    PROVE  /\ Append(p, Taken(e, p, ctx)) \in DOMAIN e
           /\ f[p] = f[Append(p, Taken(e, p, ctx))]
           /\ Taken(e, p, ctx) = "a" =>
                 \A r \in Seq(Side) : Append(p, "a") \o r \in DOMAIN e =>
                    f[Append(p, "a") \o r].nil = {}
<1> DEFINE a == Append(p, "a")
           Refs(q) == ExtractPlainRefs(At(e, q))
<1>1. /\ p \in DOMAIN e /\ e[p].k = "coalesce" /\ p \in Seq(Side)
      /\ \A x \in Side : Append(p, x) \in DOMAIN e
      /\ a \in DOMAIN e /\ a \in Seq(Side) /\ DOMAIN e \subseteq Seq(Side)
  <2>1. p \in DOMAIN e /\ e[p].k = "coalesce" /\ IsOperator(e[p])
      BY DEF Innermost, Coalesces, IsOperator
  <2> QED BY <2>1, Sides DEF Tree, Operands
<1>2. f[p] = IF f[a].nil = {} THEN f[a] ELSE f[Append(p, "b")]
    BY <1>1 DEF IsSem, SemStep
<1>3. ASSUME NEW r \in Seq(Side), a \o r \in DOMAIN e, NEW c \in Coalesces(e),
             IsPrefix(a \o r, c)
      PROVE  FALSE
  <2> HIDE DEF a
  <2>1. a \o r \in Seq(Side) /\ c \in Seq(Side) /\ c \in DOMAIN e /\ e[c].k = "coalesce"
      BY <1>1, ConcatProperties DEF Coalesces
  <2>2. PICK s \in Seq(Side) : c = (a \o r) \o s
    <3> DEFINE ar == a \o r
    <3>1. ar \in Seq(Side) /\ IsPrefix(ar, c)
        BY <1>3, <2>1
    <3> HIDE DEF ar
    <3>2. \E s \in Seq(Side) : c = ar \o s
        BY <2>1, <3>1, PrefixIsConcat, ZenonT(60)
    <3> QED BY <3>2 DEF ar
  <2>3. c = a \o (r \o s) /\ r \o s \in Seq(Side)
      BY <1>1, <2>2, ConcatAssociative, ConcatProperties
  <2> QED BY <2>1, <2>3, Sides, NoneBelowInnermost DEF a
<1>4. ASSUME NEW r \in Seq(Side), a \o r \in DOMAIN e
      PROVE  f[a \o r].nil = {n \in Refs(a \o r) : Nil(ctx, n)}
    BY <1>3, <1>4, NilBelow
<1>5. ASSUME NEW r \in Seq(Side), a \o r \in DOMAIN e
      PROVE  Refs(a \o r) \subseteq Refs(a)
  <2> HIDE DEF a
  <2>1. /\ DOMAIN At(e, a) = {t \in Seq(Side) : a \o t \in DOMAIN e}
        /\ \A t \in DOMAIN At(e, a) : At(e, a)[t] = e[a \o t]
      BY <1>1, AtIs, ZenonT(60)
  <2>2. At(At(e, a), r) = At(e, a \o r)
      BY <1>1, AtAt
  <2>3. DOMAIN At(e, a) \subseteq Seq(Side)
      BY <2>1
  <2> DEFINE d == At(e, a)
  <2> HIDE DEF d
  <2>4. /\ DOMAIN At(d, r) = {t \in Seq(Side) : r \o t \in DOMAIN d}
        /\ \A t \in DOMAIN At(d, r) : At(d, r)[t] = d[r \o t]
    <3>1. DOMAIN d \subseteq Seq(Side)
        BY <2>3 DEF d
    <3>2. r \in Seq(Side)
        BY <1>5
    <3> QED BY <3>1, <3>2, AtIs, ZenonT(60)
  <2>5. ExtractPlainRefs(At(d, r)) \subseteq ExtractPlainRefs(d)
      BY <2>4 DEF ExtractPlainRefs
  <2> QED BY <2>2, <2>5 DEF d
<1>6. a \o <<>> = a /\ <<>> \in Seq(Side)
  <2> HIDE DEF a
  <2> QED BY <1>1, PathAlgebra, EmptySeq
<1>7. f[a].nil = {n \in Refs(a) : Nil(ctx, n)}
    BY <1>1, <1>4, <1>6
<1>8. CASE \E ref \in Refs(a) : Nil(ctx, ref)
  <2>1. Taken(e, p, ctx) = "b"
      BY <1>8 DEF Taken
  <2>2. f[a].nil # {}
      BY <1>7, <1>8
  <2> QED BY <1>1, <1>2, <2>1, <2>2, Sides
<1>9. CASE ~\E ref \in Refs(a) : Nil(ctx, ref)
  <2>1. Taken(e, p, ctx) = "a"
      BY <1>9 DEF Taken
  <2>2. f[a].nil = {}
      BY <1>7, <1>9
  <2>3. ASSUME NEW r \in Seq(Side), a \o r \in DOMAIN e PROVE f[a \o r].nil = {}
    <3>1. f[a \o r].nil = {n \in Refs(a \o r) : Nil(ctx, n)} /\ Refs(a \o r) \subseteq Refs(a)
        BY <1>4, <1>5, <2>3
    <3> HIDE DEF a, Refs
    <3> QED BY <1>9, <3>1
  <2> QED BY <1>1, <1>2, <2>1, <2>2, <2>3
<1> QED BY <1>8, <1>9

-----------------------------------------------------------------------------
(* A step over an address enters at most at its end.                       *)
LEMMA EntersAtEnd ==
    ASSUME NEW p \in Seq(Side), NEW q \in Seq(Side), NEW y \in Side,
           ~IsPrefix(p, q), IsPrefix(p, Append(q, y))
    PROVE  p = Append(q, y)
<1> DEFINE qy == Append(q, y)
           u == <<y>>
<1>1. /\ qy \in Seq(Side) /\ qy = q \o u /\ u \in Seq(Side)
      /\ Len(qy) = Len(q) + 1 /\ Len(q) \in Nat /\ Len(p) \in Nat
    BY PathAlgebra, LenProperties
<1>2. IsPrefix(p, qy)
    OBVIOUS
<1> HIDE DEF qy, u
<1>3. IsPrefix(q, qy)
    BY <1>1, PathAlgebra
<1>4. CASE Len(p) <= Len(q)
    BY <1>1, <1>2, <1>3, <1>4, PrefixesOfOne
<1>5. CASE Len(p) > Len(q)
  <2>1. Len(qy) <= Len(p)
      BY <1>1, <1>5
  <2>a. IsPrefix(qy, qy)
      BY <1>1, PathAlgebra
  <2>2. IsPrefix(qy, p)
      BY <1>1, <1>2, <2>1, <2>a, PrefixesOfOne
  <2>3. p = qy
      BY <1>1, <1>2, <2>2, PathAlgebra
  <2> QED BY <2>3 DEF qy
<1> QED BY <1>1, <1>4, <1>5

(* What a node means depends on the node and its operands.                 *)
LEMMA SemStepLocal ==
    ASSUME NEW f, NEW e, NEW g, NEW c, NEW ctx, NEW p, NEW q, c[q] = e[p],
           IsOperator(e[p]) \/ e[p].k \in {"const", "ref", "bound"},
           IsOperator(e[p]) => \A y \in Side : g[Append(q, y)] = f[Append(p, y)]
    PROVE  SemStep(g, c, ctx, q) = SemStep(f, e, ctx, p)
<1>1. CASE e[p].k = "const"
    BY <1>1 DEF SemStep
<1>2. CASE e[p].k = "ref"
    BY <1>2 DEF SemStep
<1>3. CASE e[p].k = "bound"
    BY <1>3 DEF SemStep
<1>4. CASE IsOperator(e[p])
  <2>1. g[Append(q, "a")] = f[Append(p, "a")] /\ g[Append(q, "b")] = f[Append(p, "b")]
      BY <1>4, Sides
  <2>2. CASE e[p].k = "coalesce"
      BY <2>1, <2>2 DEF SemStep
  <2>3. CASE e[p].k # "coalesce"
      BY <1>4, <2>1, <2>3 DEF SemStep, IsOperator
  <2> QED BY <2>2, <2>3
<1> QED BY <1>1, <1>2, <1>3, <1>4

(* Collapsing an innermost coalesce() leaves the value of the expression.  *)
LEMMA CollapseSem ==
    ASSUME NEW e, NEW depth, Tree(e, depth), NEW ctx, NEW f, IsSem(f, e, ctx),
           NEW p \in Innermost(e)
    PROVE  \E g : IsSem(g, CollapseAt(e, p, ctx), ctx) /\ g[<<>>] = f[<<>>]
<1> DEFINE x == Taken(e, p, ctx)
           px == Append(p, x)
           c == CollapseAt(e, p, ctx)
           g == [q \in DOMAIN c |->
                   IF IsPrefix(p, q) THEN f[px \o SubSeq(q, Len(p) + 1, Len(q))] ELSE f[q]]
<1>1. /\ p \in DOMAIN e /\ DOMAIN e \subseteq Seq(Side) /\ p \in Seq(Side)
      /\ px \in DOMAIN e /\ px \in Seq(Side) /\ f[p] = f[px] /\ x \in Side
      /\ x = "a" => \A r \in Seq(Side) : px \o r \in DOMAIN e => f[px \o r].nil = {}
  <2>1. /\ p \in DOMAIN e /\ DOMAIN e \subseteq Seq(Side) /\ p \in Seq(Side) /\ x \in Side
      BY Sides DEF Innermost, Coalesces, Tree, Taken
  <2>2. /\ px \in DOMAIN e /\ f[p] = f[px]
        /\ x = "a" => \A r \in Seq(Side) : Append(p, "a") \o r \in DOMAIN e =>
                         f[Append(p, "a") \o r].nil = {}
      BY TakenSem
  <2> QED BY <2>1, <2>2
<1>2. Collapsed(e, p, ctx, px, c)
    BY <1>1, CollapseIs
<1>3. ASSUME NEW r \in Seq(Side)
      PROVE  /\ p \o r \in Seq(Side) /\ IsPrefix(p, p \o r)
             /\ SubSeq(p \o r, Len(p) + 1, Len(p \o r)) = r
             /\ \A y \in Side : Append(p \o r, y) = p \o Append(r, y) /\ Append(r, y) \in Seq(Side)
  <2>1. /\ p \o r \in Seq(Side) /\ IsPrefix(p, p \o r)
        /\ SubSeq(p \o r, Len(p) + 1, Len(p \o r)) = r
      BY <1>1, SuffixOf
  <2>2. \A y \in Side : p \o Append(r, y) = Append(p \o r, y)
      BY <1>1, PathAlgebra
  <2>3. \A y \in Side : Append(r, y) \in Seq(Side)
      BY PathAlgebra
  <2> QED BY <2>1, <2>2, <2>3
<1>4. \A r \in Seq(Side), y \in Side : Append(px \o r, y) = px \o Append(r, y)
  <2> HIDE DEF px
  <2> TAKE r \in Seq(Side)
  <2>1. \A y \in Side : px \o Append(r, y) = Append(px \o r, y)
      BY <1>1, PathAlgebra
  <2> QED BY <2>1
<1>5. <<>> \in Seq(Side) /\ p \o <<>> = p /\ px \o <<>> = px
  <2>1. <<>> \in Seq(Side) /\ p \o <<>> = p
      BY <1>1, PathAlgebra, EmptySeq
  <2>2. px \o <<>> = px
    <3> HIDE DEF px
    <3> QED BY <1>1, PathAlgebra
  <2> QED BY <2>1, <2>2
<1>6. \A r \in Seq(Side) :
         /\ Moved(e, p, ctx, r) = IF x = "a" THEN Bound(e[px \o r], ctx) ELSE e[px \o r]
    BY DEF Moved
<1> HIDE DEF c, px, x
<1>7. /\ \A q : q \in DOMAIN c <=>
            \/ q \in DOMAIN e /\ ~IsPrefix(p, q)
            \/ \E r \in Seq(Side) : q = p \o r /\ px \o r \in DOMAIN e
      /\ \A q \in DOMAIN e : ~IsPrefix(p, q) => c[q] = e[q]
      /\ \A r \in Seq(Side) : px \o r \in DOMAIN e => c[p \o r] = Moved(e, p, ctx, r)
    BY <1>2 DEF Collapsed
<1>8. \A q \in DOMAIN e : ~IsPrefix(p, q) => g[q] = f[q]
    BY <1>7
<1>9. \A r \in Seq(Side) : px \o r \in DOMAIN e => g[p \o r] = f[px \o r]
    BY <1>3, <1>7
<1>10. DOMAIN g = DOMAIN c
    OBVIOUS
<1> HIDE DEF g
<1>11. g[p] = f[p]
    BY <1>1, <1>5, <1>9
<1>12. ASSUME NEW q \in DOMAIN e, ~IsPrefix(p, q) PROVE g[q] = SemStep(g, c, ctx, q)
  <2>1. g[q] = f[q] /\ f[q] = SemStep(f, e, ctx, q) /\ c[q] = e[q] /\ q \in Seq(Side)
      BY <1>1, <1>7, <1>8, <1>12 DEF IsSem
  <2>2. ASSUME IsOperator(e[q]), NEW y \in Side PROVE g[Append(q, y)] = f[Append(q, y)]
    <3>1. Append(q, y) \in DOMAIN e
        BY <2>2 DEF Tree, Operands
    <3>2. CASE IsPrefix(p, Append(q, y))
      <4>1. p = Append(q, y)
          BY <1>1, <1>12, <2>1, <3>2, EntersAtEnd
      <4> QED BY <1>11, <4>1
    <3>3. CASE ~IsPrefix(p, Append(q, y))
        BY <1>8, <3>1, <3>3
    <3> QED BY <3>2, <3>3
  <2>3. IsOperator(e[q]) \/ e[q].k \in {"const", "ref", "bound"}
      BY DEF Tree
  <2>4. SemStep(g, c, ctx, q) = SemStep(f, e, ctx, q)
      BY <2>1, <2>2, <2>3, SemStepLocal
  <2> QED BY <2>1, <2>4
<1>13. ASSUME NEW r \in Seq(Side), px \o r \in DOMAIN e
       PROVE  g[p \o r] = SemStep(g, c, ctx, p \o r)
  <2> DEFINE t == px \o r
             q == p \o r
  <2>1. /\ g[q] = f[t] /\ f[t] = SemStep(f, e, ctx, t) /\ c[q] = Moved(e, p, ctx, r)
        BY <1>7, <1>9, <1>13 DEF IsSem
  <2>2. IsOperator(e[t]) \/ e[t].k \in {"const", "ref", "bound"}
      BY <1>13 DEF Tree
  <2>3. ASSUME IsOperator(e[t]), NEW y \in Side PROVE g[Append(q, y)] = f[Append(t, y)]
    <3>1. Append(t, y) \in DOMAIN e
        BY <1>13, <2>3 DEF Tree, Operands
    <3>2. Append(q, y) = p \o Append(r, y) /\ Append(t, y) = px \o Append(r, y)
          /\ Append(r, y) \in Seq(Side)
        BY <1>3, <1>4
    <3> QED BY <1>9, <3>1, <3>2
  <2>4. CASE x = "a" /\ e[t].k = "ref"
    <3>1. c[q] = [k |-> "bound", v |-> At(ctx, e[t].p)]
        BY <1>6, <2>1, <2>4 DEF Bound
    <3>2. f[t].nil = {}
        BY <1>1, <1>13, <2>4
    <3>3. f[t] = [value |-> Scalar(At(ctx, e[t].p)), nil |-> f[t].nil]
        BY <2>1, <2>4 DEF SemStep
    <3>4. SemStep(g, c, ctx, q) = [value |-> Scalar(At(ctx, e[t].p)), nil |-> {}]
        BY <3>1 DEF SemStep
    <3> QED BY <2>1, <3>2, <3>3, <3>4
  <2>5. CASE ~(x = "a" /\ e[t].k = "ref")
    <3>1. c[q] = e[t]
        BY <1>6, <2>1, <2>5 DEF Bound
    <3> HIDE DEF q, t
    <3>2. SemStep(g, c, ctx, q) = SemStep(f, e, ctx, t)
        BY <2>2, <2>3, <3>1, SemStepLocal
    <3>3. g[q] = SemStep(g, c, ctx, q)
        BY <2>1, <3>2
    <3> QED BY <3>3 DEF q
  <2> QED BY <2>4, <2>5
<1>14. IsSem(g, c, ctx)
  <2>1. ASSUME NEW q \in DOMAIN c PROVE g[q] = SemStep(g, c, ctx, q)
      BY <1>7, <1>12, <1>13
  <2> QED BY <1>10, <2>1 DEF IsSem
<1>15. g[<<>>] = f[<<>>]
  <2>1. CASE p = <<>>
      BY <1>11, <2>1
  <2>2. CASE p # <<>>
    <3>1. ~IsPrefix(p, <<>>)
      <4>1. /\ <<>> \in Seq(Side) /\ IsPrefix(<<>>, p)
            /\ (IsPrefix(p, <<>>) /\ IsPrefix(<<>>, p) => p = <<>>)
          BY <1>1, <1>5, PathAlgebra
      <4> QED BY <2>2, <4>1
    <3> QED BY <1>8, <3>1 DEF Tree
  <2> QED BY <2>1, <2>2
<1> QED BY <1>14, <1>15 DEF c

-----------------------------------------------------------------------------
(* What continues a path beyond it enters one of its sides.                *)
LEMMA Splits ==
    ASSUME NEW w \in Seq(Side), NEW q \in Seq(Side), IsPrefix(w, q), q # w
    PROVE  \E y \in Side : IsPrefix(Append(w, y), q)
<1> DEFINE s == SubSeq(q, Len(w) + 1, Len(q))
<1>1. s \in Seq(Side) /\ q = w \o s /\ w \o <<>> = w
    BY PrefixIsConcat, PathAlgebra
<1> HIDE DEF s
<1>2. s # <<>>
    BY <1>1
<1>3. s = SubSeq(s, 1, Len(s)) /\ Len(s) \in Nat \ {0}
    BY <1>1, <1>2, SubSeqFull, EmptySeq, LenProperties
<1>4. 1 \in 1..Len(s) /\ Len(s) \in 1..Len(s)
    BY <1>3
<1>5. SubSeq(s, 1, Len(s)) = <<s[1]>> \o SubSeq(s, 1 + 1, Len(s))
    BY <1>1, <1>4, SubSeqRecursiveFirst
<1>6. s[1] \in Side
    BY <1>1, <1>4, ElementOfSeq
<1>7. SubSeq(s, 1 + 1, Len(s)) \in Seq(Side)
  <2>1. \A i \in (1 + 1)..Len(s) : s[i] \in Side
      BY <1>1, <1>3, ElementOfSeq
  <2> QED BY <1>3, <2>1, SubSeqProperties
<1> DEFINE t == SubSeq(s, 1 + 1, Len(s))
           u == <<s[1]>>
           wu == w \o u
<1>8. u \in Seq(Side) /\ t \in Seq(Side) /\ s = u \o t /\ Append(w, s[1]) = wu
  <2>1. u \in Seq(Side) /\ Append(w, s[1]) = wu
      BY <1>6, PathAlgebra
  <2> QED BY <1>3, <1>5, <1>7, <2>1
<1> HIDE DEF t, u
<1>9. w \o (u \o t) = (w \o u) \o t
    BY <1>8, ConcatAssociative
<1>10. wu \in Seq(Side) /\ q = wu \o t
    BY <1>1, <1>8, <1>9, ConcatProperties
<1> HIDE DEF wu
<1>11. IsPrefix(wu, q)
    BY <1>8, <1>10, PathAlgebra
<1> QED BY <1>6, <1>8, <1>11

(* And it has that side where the path ends.                               *)
LEMMA Enters ==
    ASSUME NEW w \in Seq(Side), NEW q \in Seq(Side), NEW y \in Side,
           IsPrefix(Append(w, y), q)
    PROVE  /\ IsPrefix(w, q) /\ SubSeq(q, 1, Len(w)) = w
           /\ Len(w) + 1 \in 1..Len(q) /\ q[Len(w) + 1] = y /\ Len(w) \in Nat
<1> DEFINE u == <<y>>
           wu == Append(w, y)
<1>1. /\ u \in Seq(Side) /\ wu \in Seq(Side) /\ wu = w \o u /\ Len(wu) = Len(w) + 1
      /\ Len(w) \in Nat /\ IsPrefix(wu, q) /\ wu[Len(w) + 1] = y
    BY PathAlgebra, AppendProperties
<1> HIDE DEF u, wu
<1>2. IsPrefix(w, wu)
    BY <1>1, PathAlgebra
<1> DEFINE t == SubSeq(q, Len(wu) + 1, Len(q))
<1>3. t \in Seq(Side) /\ q = wu \o t
    BY <1>1, PrefixIsConcat
<1> HIDE DEF t
<1>4. /\ Len(q) = Len(wu) + Len(t) /\ Len(t) \in Nat
      /\ \A i \in 1..(Len(wu) + Len(t)) :
            q[i] = IF i <= Len(wu) THEN wu[i] ELSE t[i - Len(wu)]
  <2>1. /\ Len(wu \o t) = Len(wu) + Len(t)
        /\ \A i \in 1..(Len(wu) + Len(t)) :
              (wu \o t)[i] = IF i <= Len(wu) THEN wu[i] ELSE t[i - Len(wu)]
    <3>1. wu \in Seq(Side) /\ t \in Seq(Side)
        BY <1>1, <1>3
    <3> QED BY <3>1, ConcatProperties
  <2>2. Len(t) \in Nat
      BY <1>3, LenProperties
  <2> QED BY <1>3, <2>1, <2>2
<1>5. Len(w) + 1 \in 1..Len(q) /\ q[Len(w) + 1] = y
    BY <1>1, <1>4
<1> DEFINE ut == u \o t
<1>6. ut \in Seq(Side) /\ q = w \o ut
    BY <1>1, <1>3, ConcatProperties, ConcatAssociative
<1> HIDE DEF ut
<1>7. IsPrefix(w, q)
    BY <1>1, <1>6, PathAlgebra
<1>8. SubSeq(q, 1, Len(w)) = w
    BY <1>7, SubSeqFull DEF IsPrefix
<1> QED BY <1>1, <1>5, <1>7, <1>8

(* Addresses of bounded length have a first in source order.               *)
LEMMA FirstExists ==
    ASSUME NEW T, T # {}, T \subseteq Seq(Side), NEW depth \in Nat,
           \A p \in T : Len(p) <= depth
    PROVE  First(T) \in T
<1> DEFINE Under(w) == {q \in T : IsPrefix(w, q)}
           Has(w) == \E p \in Under(w) : \A q \in Under(w) : Before(p, q)
           K == {n \in Nat : \A w \in Seq(Side) : Len(w) + n > depth /\ Under(w) # {} => Has(w)}
<1>1. 0 \in K
  <2>1. ASSUME NEW w \in Seq(Side), Len(w) + 0 > depth, NEW q \in Under(w) PROVE FALSE
    <3>1. Len(w) <= Len(q) /\ Len(q) <= depth /\ Len(q) \in Nat /\ Len(w) \in Nat
        BY LenProperties DEF IsPrefix
    <3> QED BY <2>1, <3>1
  <2> QED BY <2>1
<1>2. ASSUME NEW n \in Nat, n \in K PROVE n + 1 \in K
  <2>1. ASSUME NEW w \in Seq(Side), Len(w) + (n + 1) > depth, Under(w) # {} PROVE Has(w)
    <3>1. CASE w \in T
      <4>1. IsPrefix(w, w)
          BY PathAlgebra
      <4>2. \A q \in Under(w) : Before(w, q)
          BY DEF Before
      <4> QED BY <3>1, <4>1, <4>2
    <3>2. CASE w \notin T
      <4>1. ASSUME NEW q \in Under(w)
            PROVE  q \in Under(Append(w, "a")) \/ q \in Under(Append(w, "b"))
        <5>1. q \in Seq(Side) /\ IsPrefix(w, q) /\ q # w
            BY <3>2
        <5>2. PICK y \in Side : IsPrefix(Append(w, y), q)
            BY <5>1, Splits
        <5> QED BY <5>2, Sides
      <4>2. ASSUME NEW y \in Side, NEW q \in Under(Append(w, y))
            PROVE  /\ q \in Under(w) /\ SubSeq(q, 1, Len(w)) = w
                   /\ Len(w) + 1 \in 1..Len(q) /\ q[Len(w) + 1] = y
        <5>1. q \in Seq(Side) /\ IsPrefix(Append(w, y), q)
            OBVIOUS
        <5> QED BY <5>1, Enters
      <4>3. ASSUME NEW y \in Side, Under(Append(w, y)) # {}
            PROVE  Has(Append(w, y))
        <5>1. Append(w, y) \in Seq(Side) /\ Len(Append(w, y)) = Len(w) + 1 /\ Len(w) \in Nat
            BY PathAlgebra
        <5>2. Len(Append(w, y)) + n > depth
            BY <2>1, <5>1
        <5> HIDE DEF Under, Has
        <5> QED BY <1>2, <4>3, <5>1, <5>2
      <4>4. CASE Under(Append(w, "a")) # {}
        <5>1. PICK p \in Under(Append(w, "a")) : \A q \in Under(Append(w, "a")) : Before(p, q)
          <6>1. Has(Append(w, "a"))
              BY <4>3, <4>4, Sides
          <6> QED BY <6>1
        <5>2. ASSUME NEW q \in Under(Append(w, "b")) PROVE Before(p, q)
          <6>1. /\ SubSeq(p, 1, Len(w)) = w /\ Len(w) + 1 \in 1..Len(p) /\ p[Len(w) + 1] = "a"
                /\ SubSeq(q, 1, Len(w)) = w /\ Len(w) + 1 \in 1..Len(q) /\ q[Len(w) + 1] = "b"
              BY <4>2, Sides
          <6>2. Len(w) \in Nat
              BY LenProperties
          <6>3. \E m \in 1..Len(p) : /\ m <= Len(q) /\ SubSeq(p, 1, m - 1) = SubSeq(q, 1, m - 1)
                                     /\ p[m] = "a" /\ q[m] = "b"
            <7>1. (Len(w) + 1) - 1 = Len(w) /\ Len(w) + 1 <= Len(q)
                BY <6>1, <6>2
            <7> QED BY <6>1, <7>1
          <6> QED BY <6>3 DEF Before
        <5>3. p \in Under(w)
            BY <4>2, Sides
        <5> HIDE DEF Under
        <5> QED BY <4>1, <5>1, <5>2, <5>3
      <4>5. CASE Under(Append(w, "a")) = {}
        <5>1. Under(Append(w, "b")) # {}
          <6> HIDE DEF Under
          <6> QED BY <2>1, <4>1, <4>5
        <5>2. PICK p \in Under(Append(w, "b")) : \A q \in Under(Append(w, "b")) : Before(p, q)
          <6>1. Has(Append(w, "b"))
              BY <4>3, <5>1, Sides
          <6> QED BY <6>1
        <5>3. p \in Under(w)
            BY <4>2, Sides
        <5> HIDE DEF Under
        <5> QED BY <4>1, <4>5, <5>2, <5>3
      <4> QED BY <4>4, <4>5
    <3> QED BY <3>1, <3>2
  <2> HIDE DEF Has, Under
  <2> QED BY <2>1
<1> HIDE DEF K
<1>3. Nat \subseteq K
    BY <1>1, <1>2, NatSetInduction
<1>4. depth + 1 \in K
    BY <1>3
<1>5. <<>> \in Seq(Side) /\ Len(<<>>) = 0 /\ \A q \in T : IsPrefix(<<>>, q)
    BY PathAlgebra, EmptySeq
<1>6. Under(<<>>) = T
    BY <1>5
<1>7. Has(<<>>)
  <2>1. Len(<<>>) + (depth + 1) > depth
      BY <1>5
  <2> HIDE DEF Under, Has
  <2> QED BY <1>4, <1>5, <1>6, <2>1 DEF K
<1>8. \E p \in T : \A q \in T : Before(p, q)
    BY <1>6, <1>7
<1> QED BY <1>8 DEF First

(* While there is a coalesce() there is an innermost, and it is found.     *)
LEMMA InnermostIsFound ==
    ASSUME NEW e, NEW depth, Tree(e, depth), Coalesces(e) # {}
    PROVE  First(Innermost(e)) \in Innermost(e)
<1> DEFINE L == {depth - Len(p) : p \in Coalesces(e)}
<1>1. /\ Coalesces(e) \subseteq Seq(Side) /\ depth \in Nat
      /\ \A p \in Coalesces(e) : Len(p) \in Nat /\ Len(p) <= depth
    BY LenProperties DEF Tree, Coalesces
<1>2. L \subseteq Nat /\ L # {}
    BY <1>1
<1>3. PICK n \in L : \A l \in L : n <= l
  <2> HIDE DEF L
  <2> QED BY <1>2, LeastNat
<1>4. PICK p \in Coalesces(e) : n = depth - Len(p)
    OBVIOUS
<1>5. ASSUME NEW q \in Coalesces(e), IsPrefix(p, q) PROVE p = q
  <2>1. depth - Len(p) <= depth - Len(q)
      BY <1>3, <1>4
  <2>2. Len(q) <= Len(p)
      BY <1>1, <2>1
  <2>3. p \in Seq(Side) /\ q \in Seq(Side)
      BY <1>1
  <2>4. IsPrefix(q, q)
      BY <2>3, PathAlgebra
  <2>5. IsPrefix(q, p)
      BY <1>5, <2>2, <2>3, <2>4, PrefixesOfOne
  <2> QED BY <1>5, <2>3, <2>5, PathAlgebra
<1>6. p \in Innermost(e)
    BY <1>5 DEF Innermost
<1>7. /\ Innermost(e) \subseteq Seq(Side) /\ Innermost(e) # {}
      /\ \A q \in Innermost(e) : Len(q) <= depth
    BY <1>1, <1>6 DEF Innermost
<1> QED BY <1>1, <1>7, FirstExists

-----------------------------------------------------------------------------
(* Collapsing, one coalesce() after the other.                             *)
CollapseStep(f, e, ctx, n) ==
    CASE n = 0 -> e
      [] n > 0 /\ Coalesces(f[n - 1]) # {} -> CollapseInnermost(f[n - 1], ctx)
      [] OTHER -> f[n - 1]

(* CollapseAll() takes one step for each coalesce().                       *)
LEMMA CollapseAllSteps ==
    ASSUME NEW e, NEW ctx, Cardinality(Coalesces(e)) \in Nat
    PROVE  \E f : /\ f = [n \in 0..Cardinality(Coalesces(e)) |-> CollapseStep(f, e, ctx, n)]
                  /\ CollapseAll(e, ctx) = f[Cardinality(Coalesces(e))]
<1> DEFINE N == Cardinality(Coalesces(e))
           Run(f, m) == f = [n \in 0..m |-> CollapseStep(f, e, ctx, n)]
           S == {m \in Nat : \E f : Run(f, m)}
<1>0. \A f, g, n : f[n - 1] = g[n - 1] => CollapseStep(f, e, ctx, n) = CollapseStep(g, e, ctx, n)
    BY DEF CollapseStep
<1>1. 0 \in S
  <2> DEFINE f == [n \in 0..0 |-> e]
  <2>1. ASSUME NEW n \in 0..0 PROVE CollapseStep(f, e, ctx, n) = e
      BY DEF CollapseStep
  <2>2. f = [n \in 0..0 |-> e]
      OBVIOUS
  <2> HIDE DEF f
  <2>3. Run(f, 0)
      BY <2>1, <2>2, Zenon
  <2> QED BY <2>3
<1>2. ASSUME NEW m \in Nat, m \in S PROVE m + 1 \in S
  <2>1. PICK f : Run(f, m)
      BY <1>2
  <2> DEFINE g == [n \in 0..(m + 1) |-> CollapseStep(f, e, ctx, n)]
  <2>2. ASSUME NEW n \in 0..(m + 1)
        PROVE  CollapseStep(f, e, ctx, n) = CollapseStep(g, e, ctx, n)
    <3>1. CASE n = 0
        BY <3>1 DEF CollapseStep
    <3>2. CASE n # 0
      <4>1. n - 1 \in 0..m /\ n - 1 \in 0..(m + 1)
          BY <3>2
      <4>2. f[n - 1] = CollapseStep(f, e, ctx, n - 1)
          BY <2>1, <4>1
      <4>3. g[n - 1] = CollapseStep(f, e, ctx, n - 1)
          BY <4>1
      <4> HIDE DEF g
      <4> QED BY <1>0, <4>2, <4>3
    <3> QED BY <3>1, <3>2
  <2>3. g = [n \in 0..(m + 1) |-> CollapseStep(f, e, ctx, n)]
      OBVIOUS
  <2> HIDE DEF g
  <2>4. Run(g, m + 1)
      BY <2>2, <2>3, Zenon
  <2> HIDE DEF Run
  <2> QED BY <2>4
<1> HIDE DEF S
<1>3. Nat \subseteq S
    BY <1>1, <1>2, NatSetInduction
<1>4. N \in S
    BY <1>3
<1>5. \E f : f = [n \in 0..N |-> CollapseStep(f, e, ctx, n)]
    BY <1>4 DEF S
<1> DEFINE g == CHOOSE f : f = [n \in 0..N |-> CollapseStep(f, e, ctx, n)]
<1>6. g = [n \in 0..N |-> CollapseStep(g, e, ctx, n)]
    BY <1>5, Zenon
<1>7. CollapseAll(e, ctx) = g[N]
    BY Zenon DEF CollapseAll, CollapseStep
<1> HIDE DEF g
<1> QED BY <1>6, <1>7

(* In the end there is no coalesce() left, and the value is the same.      *)
LEMMA CollapseAllSem ==
    ASSUME NEW e, NEW depth, Tree(e, depth), IsFiniteSet(DOMAIN e), NEW ctx, NEW f,
           IsSem(f, e, ctx)
    PROVE  /\ Tree(CollapseAll(e, ctx), depth) /\ Coalesces(CollapseAll(e, ctx)) = {}
           /\ \E g : IsSem(g, CollapseAll(e, ctx), ctx) /\ g[<<>>] = f[<<>>]
<1> DEFINE N == Cardinality(Coalesces(e))
<1>1. IsFiniteSet(Coalesces(e)) /\ N \in Nat
  <2>1. Coalesces(e) \subseteq DOMAIN e
      BY DEF Coalesces
  <2> QED BY <2>1, FS_Subset, FS_CardinalityType
<1>2. PICK s : s = [n \in 0..N |-> CollapseStep(s, e, ctx, n)] /\ CollapseAll(e, ctx) = s[N]
    BY <1>1, CollapseAllSteps
<1> DEFINE Good(c, n) == /\ Tree(c, depth) /\ IsFiniteSet(Coalesces(c))
                         /\ Cardinality(Coalesces(c)) = N - n
                         /\ \E g : IsSem(g, c, ctx) /\ g[<<>>] = f[<<>>]
           K == {n \in Nat : n <= N => Good(s[n], n)}
<1>3. 0 \in K
  <2>1. 0 \in 0..N
      BY <1>1
  <2>2. s[0] = CollapseStep(s, e, ctx, 0)
    <3> HIDE DEF N
    <3> QED BY <1>2, <2>1
  <2>3. s[0] = e
      BY <2>2 DEF CollapseStep
  <2>4. N - 0 = N
      BY <1>1
  <2>5. Good(e, 0)
      BY <1>1, <2>4
  <2> HIDE DEF Good
  <2> QED BY <2>3, <2>5
<1>4. ASSUME NEW n \in Nat, n \in K PROVE n + 1 \in K
  <2>1. ASSUME n + 1 <= N PROVE Good(s[n + 1], n + 1)
    <3>1. n + 1 \in 0..N /\ n <= N /\ n + 1 > 0 /\ (n + 1) - 1 = n
        BY <1>1, <2>1
    <3>2. Good(s[n], n)
        BY <1>4, <3>1
    <3>3. s[n + 1] = CollapseStep(s, e, ctx, n + 1)
      <4> HIDE DEF N
      <4> QED BY <1>2, <3>1
    <3>4. Coalesces(s[n]) # {}
      <4>1. N - n # 0
          BY <1>1, <2>1
      <4> QED BY <3>2, <4>1, FS_EmptySet
    <3>5. s[n + 1] = CollapseInnermost(s[n], ctx)
        BY <3>1, <3>3, <3>4 DEF CollapseStep
    <3> DEFINE p == First(Innermost(s[n]))
    <3>6. p \in Innermost(s[n]) /\ p \in Coalesces(s[n])
        BY <3>2, <3>4, InnermostIsFound DEF Innermost
    <3> HIDE DEF p
    <3>7. s[n + 1] = CollapseAt(s[n], p, ctx)
        BY <3>5 DEF CollapseInnermost, p
    <3>8. Coalesces(s[n + 1]) = Coalesces(s[n]) \ {p}
        BY <3>2, <3>6, <3>7, CollapseRemoves
    <3>9. /\ IsFiniteSet(Coalesces(s[n + 1]))
          /\ Cardinality(Coalesces(s[n + 1])) = N - (n + 1)
      <4>1. /\ IsFiniteSet(Coalesces(s[n]) \ {p})
            /\ Cardinality(Coalesces(s[n]) \ {p}) = Cardinality(Coalesces(s[n])) - 1
          BY <3>2, <3>6, FS_RemoveElement
      <4>2. Cardinality(Coalesces(s[n])) - 1 = N - (n + 1)
          BY <1>1, <3>2
      <4> QED BY <3>8, <4>1, <4>2
    <3>10. Tree(s[n + 1], depth)
        BY <3>2, <3>6, <3>7, CollapseTree
    <3>11. \E g : IsSem(g, s[n + 1], ctx) /\ g[<<>>] = f[<<>>]
      <4>1. PICK g : IsSem(g, s[n], ctx) /\ g[<<>>] = f[<<>>]
          BY <3>2
      <4>2. \E h : IsSem(h, CollapseAt(s[n], p, ctx), ctx) /\ h[<<>>] = g[<<>>]
          BY <3>2, <3>6, <4>1, CollapseSem
      <4> QED BY <3>7, <4>1, <4>2
    <3> QED BY <3>9, <3>10, <3>11
  <2> HIDE DEF Good
  <2> QED BY <2>1
<1> HIDE DEF K
<1>5. Nat \subseteq K
    BY <1>3, <1>4, NatSetInduction
<1>6. Good(s[N], N)
  <2>1. N \in K /\ N <= N
      BY <1>1, <1>5
  <2> HIDE DEF Good
  <2> QED BY <2>1 DEF K
<1>7. Coalesces(s[N]) = {}
  <2>1. N - N = 0
      BY <1>1
  <2> QED BY <1>6, <2>1, FS_EmptySet
<1> QED BY <1>2, <1>6, <1>7

(* Without a coalesce() it is what is evaluated.                           *)
ValueStep(v, e, p) ==
    CASE e[p].k = "const" -> e[p].c
      [] e[p].k = "bound" -> Scalar(e[p].v)
      [] OTHER -> Compute(e[p].k, v[Append(p, "a")], v[Append(p, "b")])

(* Without a coalesce(), the value of the expression whose references are  *)
(* replaced is the value of its root.                                      *)
LEMMA EvaluateSem ==
    ASSUME NEW e, NEW depth, Tree(e, depth), Coalesces(e) = {}, NEW ctx, NEW f,
           IsSem(f, e, ctx)
    PROVE  Evaluate(Substitute(e, ctx)) = f[<<>>].value
<1> DEFINE s == Substitute(e, ctx)
           w == [p \in DOMAIN s |-> f[p].value]
<1>1. DOMAIN s = DOMAIN e /\ \A p \in DOMAIN e : s[p] = Bound(e[p], ctx)
    BY DEF Substitute, Bound
<1> HIDE DEF s
<1>2. ASSUME NEW p \in DOMAIN e
      PROVE  \/ /\ IsOperator(e[p]) /\ s[p] = e[p] /\ e[p].k \notin {"const", "bound", "coalesce"}
                /\ f[p].value = Compute(e[p].k, f[Append(p, "a")].value, f[Append(p, "b")].value)
                /\ Append(p, "a") \in DOMAIN e /\ Append(p, "b") \in DOMAIN e
             \/ /\ ~IsOperator(e[p]) /\ s[p].k \in {"const", "bound"}
                /\ f[p].value = IF s[p].k = "const" THEN s[p].c ELSE Scalar(s[p].v)
  <2>1. f[p] = SemStep(f, e, ctx, p) /\ s[p] = Bound(e[p], ctx)
      BY <1>1 DEF IsSem
  <2>2. CASE IsOperator(e[p])
    <3>1. e[p].k # "coalesce"
        BY DEF Coalesces
    <3>2. s[p] = e[p]
        BY <2>1, <2>2 DEF Bound, IsOperator, Arithmetic
    <3>3. f[p] = [value |-> Compute(e[p].k, f[Append(p, "a")].value, f[Append(p, "b")].value),
                  nil |-> f[Append(p, "a")].nil \cup f[Append(p, "b")].nil]
        BY <2>1, <2>2, <3>1 DEF SemStep, IsOperator, Arithmetic
    <3>4. Append(p, "a") \in DOMAIN e /\ Append(p, "b") \in DOMAIN e
        BY <2>2, Sides DEF Tree, Operands
    <3>5. e[p].k \notin {"const", "bound", "coalesce"}
        BY <2>2, <3>1 DEF IsOperator, Arithmetic
    <3> QED BY <2>2, <3>2, <3>3, <3>4, <3>5
  <2>3. CASE ~IsOperator(e[p])
    <3>1. e[p].k \in {"const", "ref", "bound"}
        BY <2>3 DEF Tree
    <3>2. CASE e[p].k = "const"
        BY <2>1, <2>3, <3>2 DEF Bound, SemStep
    <3>3. CASE e[p].k = "ref"
        BY <2>1, <2>3, <3>3 DEF Bound, SemStep
    <3>4. CASE e[p].k = "bound"
        BY <2>1, <2>3, <3>4 DEF Bound, SemStep
    <3> QED BY <2>3, <3>1, <3>2, <3>3, <3>4
  <2> QED BY <2>2, <2>3
<1>3. \A p \in DOMAIN s : w[p] = f[p].value
    OBVIOUS
<1>4. w = [p \in DOMAIN s |-> f[p].value]
    OBVIOUS
<1> HIDE DEF w
<1>5. ASSUME NEW p \in DOMAIN s PROVE f[p].value = ValueStep(w, s, p)
  <2>1. p \in DOMAIN e
      BY <1>1
  <2>2. CASE IsOperator(e[p])
    <3>1. /\ s[p] = e[p] /\ e[p].k \notin {"const", "bound"}
          /\ f[p].value = Compute(e[p].k, f[Append(p, "a")].value, f[Append(p, "b")].value)
          /\ w[Append(p, "a")] = f[Append(p, "a")].value
          /\ w[Append(p, "b")] = f[Append(p, "b")].value
        BY <1>1, <1>2, <1>3, <2>1, <2>2
    <3> QED BY <3>1 DEF ValueStep
  <2>3. CASE ~IsOperator(e[p])
    <3>1. /\ s[p].k \in {"const", "bound"}
          /\ f[p].value = IF s[p].k = "const" THEN s[p].c ELSE Scalar(s[p].v)
        BY <1>2, <2>1, <2>3
    <3> QED BY <3>1 DEF ValueStep
  <2> QED BY <2>2, <2>3
<1>6. \E v : v = [p \in DOMAIN s |-> ValueStep(v, s, p)]
    BY <1>4, <1>5, Zenon
<1> DEFINE v == CHOOSE v : v = [p \in DOMAIN s |-> ValueStep(v, s, p)]
<1>7. v = [p \in DOMAIN s |-> ValueStep(v, s, p)]
    BY <1>6, Zenon
<1>8. Evaluate(s) = v[<<>>]
    BY Zenon DEF Evaluate, ValueStep
<1> HIDE DEF v
<1> DEFINE S == {p \in DOMAIN e : v[p] = f[p].value}
<1>9. ASSUME NEW p \in DOMAIN e, IsOperator(e[p]) => Operands(p) \subseteq S PROVE p \in S
  <2>1. v[p] = ValueStep(v, s, p)
      BY <1>1, <1>7, Zenon
  <2>2. CASE IsOperator(e[p])
    <3>1. v[Append(p, "a")] = f[Append(p, "a")].value /\ v[Append(p, "b")] = f[Append(p, "b")].value
        BY <1>9, <2>2, Sides DEF Operands
    <3>2. /\ s[p] = e[p] /\ e[p].k \notin {"const", "bound"}
          /\ f[p].value = Compute(e[p].k, f[Append(p, "a")].value, f[Append(p, "b")].value)
        BY <1>2, <2>2
    <3> QED BY <2>1, <3>1, <3>2 DEF ValueStep
  <2>3. CASE ~IsOperator(e[p])
    <3>1. /\ s[p].k \in {"const", "bound"}
          /\ f[p].value = IF s[p].k = "const" THEN s[p].c ELSE Scalar(s[p].v)
        BY <1>2, <2>3
    <3> QED BY <2>1, <3>1 DEF ValueStep
  <2> QED BY <2>2, <2>3
<1> HIDE DEF S
<1>10. DOMAIN e \subseteq S
    BY <1>9, TreeInduction
<1>11. <<>> \in S
    BY <1>10 DEF Tree
<1> QED BY <1>8, <1>11 DEF S, s

-----------------------------------------------------------------------------
(* Whole numbers times the scale.                                          *)
LEMMA TimesScale ==
    ASSUME NEW s \in Nat \ {0}, NEW a \in Int, NEW b \in Int
    PROVE  /\ a * s \in Int /\ a <= b => a * s <= b * s
           /\ a * s < b * s => a < b
           /\ (a - 1) * s = a * s - s
<1>1. a * s \in Int /\ b * s \in Int
    OBVIOUS
<1>2. ASSUME NEW c \in Int, NEW d \in Int, c <= d PROVE c * s <= d * s
  <2>1. (d - c) * s >= 0
      BY <1>2
  <2>2. (d - c) * s = d * s - c * s
      OBVIOUS
  <2> QED BY <2>1, <2>2
<1>3. a <= b => a * s <= b * s
    BY <1>2
<1>4. a * s < b * s => a < b
  <2> SUFFICES ASSUME a * s < b * s, b <= a PROVE FALSE
      OBVIOUS
  <2>1. b * s <= a * s
      BY <1>2
  <2> QED BY <1>1, <2>1
<1>5. (a - 1) * s = a * s - s
    OBVIOUS
<1> QED BY <1>1, <1>3, <1>4, <1>5

(* Rounding up gives the least amount that covers.                         *)
LEMMA LeastCovers ==
    ASSUME NEW n \in Nat, NEW rate \in Nat
    PROVE  /\ CoefficientAmount(n, rate) =
                 CHOOSE least \in 0..(n * rate) :
                    /\ least * Scale >= n * rate
                    /\ (least - 1) * Scale < n * rate
           /\ CoefficientAmount(n, rate) \in Nat
           /\ CoefficientAmount(n, rate) * Scale >= n * rate
           /\ (CoefficientAmount(n, rate) - 1) * Scale < n * rate
<1> DEFINE v == n * rate
           l == (v + Scale - 1) \div Scale
<1>1. Scale \in Nat \ {0} /\ v \in Nat
    BY PricingConstants
<1>2. /\ l \in Int /\ l * Scale <= v + Scale - 1 /\ v + Scale - 1 < l * Scale + Scale
  <2>1. v + Scale - 1 \in Int
      BY <1>1
  <2> DEFINE x == v + Scale - 1
  <2>2. ASSUME NEW y \in Int
        PROVE  /\ y \div Scale \in Int /\ (y \div Scale) * Scale <= y
               /\ y < (y \div Scale) * Scale + Scale
      BY <1>1
  <2> QED BY <2>1, <2>2
<1> HIDE DEF v, l
<1>3. /\ \A a, b \in Int : a * Scale \in Int /\ (a <= b => a * Scale <= b * Scale)
                           /\ (a * Scale < b * Scale => a < b)
                           /\ (a - 1) * Scale = a * Scale - Scale
    BY <1>1, TimesScale
<1>4. l * Scale >= v /\ (l - 1) * Scale < v
    BY <1>1, <1>2, <1>3
<1>5. l \in 0..v
  <2>1. 0 * Scale = 0 /\ (-1) * Scale = -Scale /\ v * Scale >= v /\ l * Scale \in Int
    <3>1. v * Scale >= v
      <4>1. v * (Scale - 1) >= 0
          BY <1>1
      <4>2. v * (Scale - 1) = v * Scale - v
          BY <1>1
      <4> QED BY <1>1, <4>1, <4>2
    <3> QED BY <1>1, <1>2, <1>3, <3>1
  <2>2. l >= 0
    <3>1. (-1) * Scale < l * Scale
        BY <1>1, <1>4, <2>1
    <3>2. -1 < l
        BY <1>2, <1>3, <3>1
    <3> QED BY <1>2, <3>2
  <2>3. l <= v
    <3>1. CASE v = 0
      <4>1. (l - 1) * Scale < 0 * Scale
          BY <1>4, <2>1, <3>1
      <4>2. l - 1 < 0
          BY <1>2, <1>3, <4>1
      <4> QED BY <1>2, <3>1, <4>2
    <3>2. CASE v # 0
      <4>1. (l - 1) * Scale < v * Scale
          BY <1>1, <1>2, <1>3, <1>4, <2>1
      <4>2. l - 1 < v
          BY <1>1, <1>2, <1>3, <4>1
      <4> QED BY <1>1, <1>2, <4>2
    <3> QED BY <3>1, <3>2
  <2> QED BY <1>1, <1>2, <2>2, <2>3
<1>6. ASSUME NEW m \in 0..v, m * Scale >= v, (m - 1) * Scale < v PROVE m = l
  <2>1. m \in Int /\ m - 1 \in Int /\ l - 1 \in Int
      BY <1>1, <1>2
  <2>2. (m - 1) * Scale < l * Scale /\ (l - 1) * Scale < m * Scale
      BY <1>1, <1>2, <1>3, <1>4, <1>6, <2>1
  <2>3. m - 1 < l /\ l - 1 < m
      BY <1>2, <1>3, <2>1, <2>2
  <2> QED BY <1>2, <2>1, <2>3
<1>7. l = CHOOSE least \in 0..v : least * Scale >= v /\ (least - 1) * Scale < v
    BY <1>4, <1>5, <1>6
<1>8. CoefficientAmount(n, rate) = l
    BY DEF CoefficientAmount, l, v
<1>9. l \in Nat
    BY <1>1, <1>5
<1> QED BY <1>4, <1>7, <1>8, <1>9 DEF v

(* Rounding to the nearest, halves up, leaves at most a half.              *)
LEMMA RoundedIsNearest ==
    ASSUME NEW n \in Nat, NEW d \in Nat \ {0}
    PROVE  /\ Rounded(n, d) = Nearest(n, d) /\ Rounded(n, d) \in Nat
           /\ Rounded(n, d) * (2 * d) <= 2 * n + d
           /\ 2 * n + d < Rounded(n, d) * (2 * d) + 2 * d
<1> DEFINE s == 2 * d
           r == (2 * n + d) \div s
<1>1. s \in Nat \ {0} /\ s = 2 * d
    OBVIOUS
<1>2. r \in Int /\ r * s <= 2 * n + d /\ 2 * n + d < r * s + s
  <2>1. 2 * n + d \in Int
      OBVIOUS
  <2> HIDE DEF s
  <2>2. ASSUME NEW y \in Int
        PROVE  y \div s \in Int /\ (y \div s) * s <= y /\ y < (y \div s) * s + s
      BY <1>1
  <2> QED BY <2>1, <2>2
<1> HIDE DEF s, r
<1>3. \A a, b \in Int : /\ a * s \in Int /\ (a <= b => a * s <= b * s)
                        /\ (a * s < b * s => a < b)
                        /\ (a - 1) * s = a * s - s
    BY <1>1, TimesScale
<1>4. ASSUME NEW m \in Int
      PROVE  /\ (2 * m - 1) * d = m * s - d
             /\ (2 * m + 1) * d = m * s + d
    BY <1>1
<1>5. r \in 0..n
  <2>1. 0 * s = 0 /\ (-1) * s = -s /\ (n + 1) * s = n * s + s /\ n * s >= 2 * n
    <3>1. n * s = 2 * n + 2 * (n * (d - 1))
        BY <1>1
    <3>2. n * (d - 1) >= 0 /\ n * (d - 1) \in Int
        OBVIOUS
    <3>3. n * s >= 2 * n
        BY <3>1, <3>2
    <3> QED BY <1>1, <3>3
  <2>2. (-1) * s < r * s
      BY <1>1, <1>2, <1>3, <2>1
  <2>3. r * s < (n + 1) * s
      BY <1>1, <1>2, <1>3, <2>1
  <2>4. -1 < r /\ r < n + 1
      BY <1>2, <1>3, <2>2, <2>3
  <2> QED BY <1>2, <2>4
<1>6. (2 * r - 1) * d <= 2 * n /\ 2 * n < (2 * r + 1) * d
    BY <1>1, <1>2, <1>3, <1>4
<1>7. ASSUME NEW m \in 0..n, (2 * m - 1) * d <= 2 * n, 2 * n < (2 * m + 1) * d
      PROVE  m = r
  <2>1. m \in Int /\ m - 1 \in Int /\ r - 1 \in Int
      BY <1>2
  <2>2. m * s <= 2 * n + d /\ 2 * n + d < m * s + s
      BY <1>1, <1>3, <1>4, <1>7, <2>1
  <2>3. (m - 1) * s < r * s /\ (r - 1) * s < m * s
      BY <1>1, <1>2, <1>3, <2>1, <2>2
  <2>4. m - 1 < r /\ r - 1 < m
      BY <1>2, <1>3, <2>1, <2>3
  <2> QED BY <1>2, <2>1, <2>4
<1>8. r = CHOOSE m \in 0..n : (2 * m - 1) * d <= 2 * n /\ 2 * n < (2 * m + 1) * d
    BY <1>5, <1>6, <1>7
<1>9. Rounded(n, d) = r
    BY DEF Rounded, r, s
<1> QED BY <1>1, <1>2, <1>5, <1>8, <1>9 DEF Nearest

(* coefficientToScaledBigInt() gives what is charged for.                  *)
LEMMA ScaledIsCharged ==
    ASSUME NEW n \in Nat, NEW d \in Nat \ {0}
    PROVE  CoefficientToScaled(n, d) = Charged(n, d) /\ CoefficientToScaled(n, d) \in Nat
<1>1. Scale \in Nat /\ MaxFixed \in Nat /\ n * Scale \in Nat /\ MaxFixed * d \in Nat
    BY PricingConstants
<1>2. /\ Rounded(n, d) = Nearest(n, d) /\ Rounded(n, d) \in Nat
      /\ Rounded(n * Scale, d) = Nearest(n * Scale, d) /\ Rounded(n * Scale, d) \in Nat
    BY <1>1, RoundedIsNearest
<1>3. Rounded(n, d) * Scale \in Nat
    BY <1>1, <1>2
<1>4. n >= MaxFixed * d <=> ~(n < MaxFixed * d)
    BY <1>1
<1> QED BY <1>2, <1>3, <1>4 DEF CoefficientToScaled, Charged

(* The bounds of a product by what is not negative.                        *)
LEMMA ProductMonotonic ==
    ASSUME NEW a \in Int, NEW b \in Int, NEW c \in Nat
    PROVE  a * c \in Int /\ (a <= b => a * c <= b * c) /\ (c # 0 /\ a < b => a * c < b * c)
<1>1. a * c \in Int /\ b * c \in Int /\ (b - a) * c = b * c - a * c
    OBVIOUS
<1>2. a <= b => (b - a) * c >= 0
    OBVIOUS
<1>3. c # 0 /\ a < b => (b - a) * c > 0
    OBVIOUS
<1> QED BY <1>1, <1>2, <1>3

(* coefficientToScaledBigInt() and buildResult(): how far an amount may be *)
(* from the coefficient n / d times the rate.  Rounding to the nearest     *)
(* 1 / Scale loses no more than half of one such part of the rate, and     *)
(* gains no more than that and what is missing to a whole unit.            *)
THEOREM MeteringAmountIsClose ==
    ASSUME NEW n \in Nat, NEW d \in Nat \ {0}, n < MaxFixed * d, NEW rate \in Nat,
           NEW amount, amount = CoefficientAmount(CoefficientToScaled(n, d), rate)
    PROVE  /\ (2 * Scale) * (amount * d) >= (2 * Scale * n - d) * rate
           /\ (2 * Scale) * ((amount - 1) * d) < (2 * Scale * n + d) * rate
<1> DEFINE k == CoefficientToScaled(n, d)
           s == 2 * d
           exact == 2 * Scale * n
<1>1. /\ Scale \in Nat \ {0} /\ MaxFixed \in Nat /\ n * Scale \in Nat
      /\ exact \in Nat /\ exact = 2 * (n * Scale) /\ s \in Nat \ {0} /\ s = 2 * d
    BY PricingConstants
<1>2. k = Rounded(n * Scale, d)
    BY <1>1 DEF CoefficientToScaled
<1>3. k \in Nat /\ k * s <= exact + d /\ exact + d < k * s + s
    BY <1>1, <1>2, RoundedIsNearest
<1> HIDE DEF k, s, exact
<1>4. /\ amount = CoefficientAmount(k, rate) /\ amount \in Nat
      /\ amount * Scale >= k * rate /\ (amount - 1) * Scale < k * rate
    BY <1>3, LeastCovers DEF k
<1>5. k * s \in Nat /\ exact - d <= k * s /\ exact - d \in Int /\ exact + d \in Int
    BY <1>1, <1>3
<1>6. (exact - d) * rate <= (k * s) * rate /\ (k * s) * rate <= (exact + d) * rate
    BY <1>3, <1>5, ProductMonotonic
<1>7. /\ k * rate \in Int /\ amount * Scale \in Int /\ (amount - 1) * Scale \in Int
    BY <1>1, <1>3, <1>4
<1>8. (k * rate) * s <= (amount * Scale) * s /\ ((amount - 1) * Scale) * s < (k * rate) * s
    BY <1>1, <1>4, <1>7, ProductMonotonic
<1>9. /\ (k * rate) * s = (k * s) * rate
      /\ (amount * Scale) * s = (2 * Scale) * (amount * d)
      /\ ((amount - 1) * Scale) * s = (2 * Scale) * ((amount - 1) * d)
  <2>1. amount - 1 \in Int
      BY <1>4
  <2>2. ASSUME NEW x \in Int PROVE (x * Scale) * s = (2 * Scale) * (x * d)
      BY <1>1, <2>2
  <2>3. (k * rate) * s = (k * s) * rate
      BY <1>1, <1>3
  <2> QED BY <1>4, <2>1, <2>2, <2>3
<1>10. /\ (exact - d) * rate \in Int /\ (k * s) * rate \in Int /\ (exact + d) * rate \in Int
       /\ (amount * Scale) * s \in Int /\ ((amount - 1) * Scale) * s \in Int
    BY <1>1, <1>5, <1>7
<1>11. /\ (amount * Scale) * s >= (exact - d) * rate
       /\ ((amount - 1) * Scale) * s < (exact + d) * rate
  <2> DEFINE a == (exact - d) * rate
             b == (k * s) * rate
             c == (amount * Scale) * s
             x == (exact + d) * rate
             y == ((amount - 1) * Scale) * s
  <2>1. a <= b /\ b <= x /\ b <= c /\ y < b
      BY <1>6, <1>8, <1>9
  <2>2. a \in Int /\ b \in Int /\ c \in Int /\ x \in Int /\ y \in Int
      BY <1>10
  <2> HIDE DEF a, b, c, x, y
  <2>3. c >= a /\ y < x
      BY <2>1, <2>2
  <2> QED BY <2>3 DEF a, c, x, y
<1> QED BY <1>9, <1>11 DEF exact

(* resolveExpression() gives what the expression means.                    *)
LEMMA ResolveIsMeaning ==
    ASSUME NEW e, IsExpression(e), NEW env, NEW ctx,
           Agrees(env, ctx, ExtractPlainRefs(e)),
           \A ref \in ExtractPlainRefs(e) : IsNumeral(Scalar(env[ref]))
    PROVE  /\ IsNumeral(Meaning(e, env).value)
           /\ Meaning(e, env).refs \subseteq ExtractPlainRefs(e)
           /\ ResolveExpression(e, ctx) =
                 IF /\ \A r \in Meaning(e, env).refs : Present(env[r])
                    /\ Meaning(e, env).value.t = "num"
                    /\ Meaning(e, env).value.d # 0
                 THEN [ok |-> TRUE, n |-> Meaning(e, env).value.n,
                       d |-> Meaning(e, env).value.d]
                 ELSE Failed
<1> DEFINE meaning == Meaning(e, env)
           plain == CollapseAll(e, ctx)
           value == Evaluate(Substitute(plain, ctx))
<1>1. IsNumeral(meaning.value) /\ meaning.refs \subseteq ExtractPlainRefs(e)
  <2>1. PICK m : m = [p \in DOMAIN e |-> MeaningStep(m, e, env, p)] /\ Meaning(e, env) = m[<<>>]
      BY MeaningDefined
  <2>2. <<>> \in DOMAIN e
      BY DEF IsExpression
  <2>3. IsNumeral(m[<<>>].value) /\ m[<<>>].refs \subseteq ExtractPlainRefs(e)
      BY <2>1, <2>2, MeaningType
  <2> QED BY <2>1, <2>3
<1>2. PICK f : /\ IsSem(f, e, ctx) /\ f[<<>>].value = meaning.value
               /\ f[<<>>].nil = {r \in meaning.refs : Nil(ctx, r)}
    BY MeaningIsSem
<1>3. PICK depth : Tree(e, depth)
    BY ExpressionIsTree
<1>4. IsFiniteSet(DOMAIN e)
    BY DEF IsExpression
<1>5. /\ Tree(plain, depth) /\ Coalesces(plain) = {}
      /\ \E g : IsSem(g, plain, ctx) /\ g[<<>>] = f[<<>>]
    BY <1>2, <1>3, <1>4, CollapseAllSem
<1> HIDE DEF plain
<1>6. PICK g : IsSem(g, plain, ctx) /\ g[<<>>] = f[<<>>]
    BY <1>5
<1>7. value = meaning.value
  <2>1. value = g[<<>>].value
      BY <1>5, <1>6, EvaluateSem
  <2> QED BY <1>2, <1>6, <2>1
<1>8. {r \in ExtractPlainRefs(plain) : Nil(ctx, r)} = {r \in meaning.refs : Nil(ctx, r)}
  <2>1. <<>> \in DOMAIN plain /\ \A q \in Coalesces(plain) : ~IsPrefix(<<>>, q)
      BY <1>5 DEF Tree
  <2>2. g[<<>>].nil = {r \in ExtractPlainRefs(At(plain, <<>>)) : Nil(ctx, r)}
      BY <1>5, <1>6, <2>1, NilBelow
  <2>3. ExtractPlainRefs(At(plain, <<>>)) = ExtractPlainRefs(plain)
    <3>1. DOMAIN plain \subseteq Seq(Side)
        BY <1>5 DEF Tree
    <3>2. <<>> \in Seq(Side) /\ \A q \in Seq(Side) : <<>> \o q = q
        BY EmptySeq, PathAlgebra
    <3>3. /\ DOMAIN At(plain, <<>>) = {r \in Seq(Side) : <<>> \o r \in DOMAIN plain}
          /\ \A r \in DOMAIN At(plain, <<>>) : At(plain, <<>>)[r] = plain[<<>> \o r]
        BY <3>1, <3>2, AtIs
    <3>4. /\ DOMAIN At(plain, <<>>) = DOMAIN plain
          /\ \A r \in DOMAIN plain : At(plain, <<>>)[r] = plain[r]
        BY <3>1, <3>2, <3>3
    <3> QED BY <3>4 DEF ExtractPlainRefs
  <2> QED BY <1>2, <1>6, <2>2, <2>3
<1>9. (\A r \in ExtractPlainRefs(plain) : Present(At(ctx, r))) <=>
         \A r \in meaning.refs : Present(env[r])
  <2>1. \A r : ~Present(At(ctx, r)) => Nil(ctx, r)
      BY DEF Nil
  <2>2. \A r \in meaning.refs : Present(env[r]) <=> Present(At(ctx, r))
      BY <1>1 DEF Agrees
  <2> HIDE DEF meaning
  <2> QED BY <1>8, <2>1, <2>2
<1>10. ResolveExpression(e, ctx) =
          IF /\ \A r \in ExtractPlainRefs(plain) : Present(At(ctx, r))
             /\ value.t = "num" /\ value.d # 0
          THEN [ok |-> TRUE, n |-> value.n, d |-> value.d] ELSE Failed
    BY DEF ResolveExpression, plain
<1> HIDE DEF meaning, value
<1>11. ResolveExpression(e, ctx) =
          IF /\ \A r \in meaning.refs : Present(env[r])
             /\ meaning.value.t = "num" /\ meaning.value.d # 0
          THEN [ok |-> TRUE, n |-> meaning.value.n, d |-> meaning.value.d] ELSE Failed
    BY <1>7, <1>9, <1>10
<1> QED BY <1>1, <1>11 DEF meaning

(* buildResult() gives the price of the expression.                        *)
LEMMA BuildIsPrice ==
    ASSUME NEW e, IsExpression(e), NEW env, NEW ctx,
           Agrees(env, ctx, ExtractPlainRefs(e)),
           \A ref \in ExtractPlainRefs(e) : IsNumeral(Scalar(env[ref])),
           NEW rates, \A a \in DOMAIN rates : rates[a] \in Nat,
           NEW built, built = BuildResult(ResolveExpression(e, ctx), rates)
    PROVE  \/ built.res = "error" /\ Price(e, env, rates) = {}
           \/ /\ built.res = "matched" /\ Price(e, env, rates) = {built.amount}
              /\ DOMAIN built.amount = DOMAIN rates
              /\ \A a \in DOMAIN rates : built.amount[a] \in Nat
<1> DEFINE meaning == Meaning(e, env)
           value == meaning.value
           coefficient == ResolveExpression(e, ctx)
           priced == /\ \A r \in meaning.refs : Present(env[r])
                     /\ value.t = "num" /\ value.d # 0
           units == Charged(value.n, value.d)
           scaled == CoefficientToScaled(value.n, value.d)
           price == [a \in DOMAIN rates |->
                       CHOOSE least \in 0..(units * rates[a]) :
                          /\ least * Scale >= units * rates[a]
                          /\ (least - 1) * Scale < units * rates[a]]
           amount == [a \in DOMAIN rates |-> CoefficientAmount(scaled, rates[a])]
<1>1. /\ value.n \in Int /\ value.d \in Nat
      /\ coefficient = IF priced THEN [ok |-> TRUE, n |-> value.n, d |-> value.d]
                                 ELSE Failed
    BY ResolveIsMeaning DEF IsNumeral
<1>2. Price(e, env, rates) = IF priced /\ value.n >= 0 THEN {price} ELSE {}
    BY DEF Price
<1>3. ASSUME value.d # 0, value.n >= 0
      PROVE  price = amount /\ \A a \in DOMAIN rates : amount[a] \in Nat
  <2>1. value.n \in Nat /\ value.d \in Nat \ {0}
      BY <1>1, <1>3
  <2>2. scaled = units /\ scaled \in Nat
    <3> HIDE DEF value
    <3> QED BY <2>1, ScaledIsCharged
  <2> HIDE DEF units, scaled
  <2>3. ASSUME NEW a \in DOMAIN rates
        PROVE  price[a] = CoefficientAmount(scaled, rates[a])
               /\ CoefficientAmount(scaled, rates[a]) \in Nat
      BY <2>2, LeastCovers
  <2> QED BY <2>3
<1> HIDE DEF value, coefficient, price, units
<1>4. CASE priced /\ value.n >= 0
  <2>1. /\ coefficient.ok /\ coefficient.n >= 0
        /\ coefficient.n = value.n /\ coefficient.d = value.d
      BY <1>1, <1>4
  <2>2. built = [res |-> "matched", amount |-> amount]
      BY <2>1 DEF BuildResult, coefficient
  <2> QED BY <1>2, <1>3, <1>4, <2>2
<1>5. CASE ~(priced /\ value.n >= 0)
  <2>1. ~(coefficient.ok /\ coefficient.n >= 0)
    <3> HIDE DEF priced
    <3> QED BY <1>1, <1>5 DEF Failed
  <2>2. built = [res |-> "error", amount |-> NoAmount]
      BY <2>1 DEF BuildResult, coefficient
  <2> QED BY <1>2, <1>5, <2>2
<1> QED BY <1>4, <1>5

-----------------------------------------------------------------------------
(* Documents. *)

(* What stands in a document after a value was put in it.                  *)
IsPut(S, doc, path, value, put) ==
    /\ DOMAIN put \subseteq Seq(S)
    /\ \A p : p \in DOMAIN put <=>
          \/ p \in DOMAIN doc /\ ~IsPrefix(p, path) /\ ~IsPrefix(path, p)
          \/ \E r \in DOMAIN value : p = path \o r
    /\ \A p \in DOMAIN doc : ~IsPrefix(p, path) /\ ~IsPrefix(path, p) => put[p] = doc[p]
    /\ \A r \in DOMAIN value : put[path \o r] = value[r]

(* PutAt() is: what is put is below the path, and what was beside it       *)
(* stays.                                                                  *)
LEMMA PutIs ==
    ASSUME NEW S, NEW doc, DOMAIN doc \subseteq Seq(S), NEW path \in Seq(S),
           NEW value, DOMAIN value \subseteq Seq(S)
    PROVE  IsPut(S, doc, path, value, PutAt(doc, path, value))
<1> DEFINE kept == {p \in DOMAIN doc : ~IsPrefix(p, path) /\ ~IsPrefix(path, p)}
           new == {path \o r : r \in DOMAIN value}
           put == PutAt(doc, path, value)
<1>1. put = [p \in kept \cup new |-> IF p \in kept THEN doc[p]
                                    ELSE value[SubSeq(p, Len(path) + 1, Len(p))]]
    BY DEF PutAt
<1>2. \A r \in DOMAIN value : /\ path \o r \in Seq(S) /\ IsPrefix(path, path \o r)
                              /\ SubSeq(path \o r, Len(path) + 1, Len(path \o r)) = r
    BY SuffixOf
<1>3. \A r \in DOMAIN value : path \o r \in new /\ path \o r \notin kept
    BY <1>2
<1> HIDE DEF put
<1>4. \A r \in DOMAIN value : put[path \o r] = value[r]
  <2> HIDE DEF kept, new
  <2> QED BY <1>1, <1>2, <1>3
<1>5. \A p \in DOMAIN doc : ~IsPrefix(p, path) /\ ~IsPrefix(path, p) => put[p] = doc[p]
    BY <1>1
<1>6. \A p : p \in DOMAIN put <=> p \in kept \/ p \in new
    BY <1>1
<1>7. DOMAIN put \subseteq Seq(S)
  <2>1. kept \subseteq Seq(S) /\ new \subseteq Seq(S)
      BY <1>2
  <2> HIDE DEF kept, new
  <2> QED BY <1>6, <2>1
<1>8. IsPut(S, doc, path, value, put)
    BY <1>4, <1>5, <1>6, <1>7 DEF IsPut
<1> QED BY <1>8 DEF put

(* It is found where it was put, and so is what is below it.               *)
LEMMA AtPutBelow ==
    ASSUME NEW S, NEW doc, DOMAIN doc \subseteq Seq(S), NEW path \in Seq(S),
           NEW value, DOMAIN value \subseteq Seq(S), NEW r \in Seq(S)
    PROVE  At(PutAt(doc, path, value), path \o r) = At(value, r)
<1> DEFINE put == PutAt(doc, path, value)
           pr == path \o r
<1>1. IsPut(S, doc, path, value, put)
    BY PutIs
<1>2. /\ pr \in Seq(S)
      /\ \A s \in Seq(S) : pr \o s = path \o (r \o s) /\ r \o s \in Seq(S)
    BY ConcatProperties, ConcatAssociative
<1>3. \A s, t \in Seq(S) : IsPrefix(path, path \o s) /\ (path \o s = path \o t => s = t)
    BY PathAlgebra, ZenonT(60)
<1> HIDE DEF put, pr
<1>4. /\ DOMAIN At(put, pr) = {s \in Seq(S) : pr \o s \in DOMAIN put}
      /\ \A s \in DOMAIN At(put, pr) : At(put, pr)[s] = put[pr \o s]
  <2>1. DOMAIN put \subseteq Seq(S)
      BY <1>1 DEF IsPut
  <2>2. pr \in Seq(S)
      BY <1>2
  <2> QED BY <2>1, <2>2, AtIs, ZenonT(60)
<1>5. /\ DOMAIN At(value, r) = {s \in Seq(S) : r \o s \in DOMAIN value}
      /\ \A s \in DOMAIN At(value, r) : At(value, r)[s] = value[r \o s]
    BY AtIs, ZenonT(60)
<1>6. ASSUME NEW s \in Seq(S)
      PROVE  /\ pr \o s \in DOMAIN put <=> r \o s \in DOMAIN value
             /\ r \o s \in DOMAIN value => put[pr \o s] = value[r \o s]
  <2> DEFINE rs == r \o s
  <2>1. rs \in Seq(S) /\ pr \o s = path \o rs
      BY <1>2
  <2> HIDE DEF rs
  <2>2. path \o rs \in DOMAIN put <=> rs \in DOMAIN value
      BY <1>1, <1>3, <2>1 DEF IsPut
  <2>3. rs \in DOMAIN value => put[path \o rs] = value[rs]
      BY <1>1 DEF IsPut
  <2> QED BY <2>1, <2>2, <2>3 DEF rs
<1>7. DOMAIN At(put, pr) = DOMAIN At(value, r)
    BY <1>4, <1>5, <1>6
<1>8. \A s \in DOMAIN At(put, pr) : At(put, pr)[s] = At(value, r)[s]
    BY <1>4, <1>5, <1>6, <1>7
<1>9. At(put, pr) = At(value, r)
    BY <1>7, <1>8, SameAt
<1> QED BY <1>9 DEF put, pr

(* What is neither above nor below it stays.                               *)
LEMMA AtPutBeside ==
    ASSUME NEW S, NEW doc, DOMAIN doc \subseteq Seq(S), NEW path \in Seq(S),
           NEW value, DOMAIN value \subseteq Seq(S), NEW p \in Seq(S),
           ~IsPrefix(p, path), ~IsPrefix(path, p)
    PROVE  At(PutAt(doc, path, value), p) = At(doc, p)
<1> DEFINE put == PutAt(doc, path, value)
<1>1. IsPut(S, doc, path, value, put)
    BY PutIs
<1> HIDE DEF put
<1>2. ASSUME NEW r \in Seq(S), NEW q, q = p \o r, q \in Seq(S)
      PROVE  ~IsPrefix(q, path) /\ ~IsPrefix(path, q)
  <2>1. IsPrefix(p, q) /\ Len(p) \in Nat /\ Len(path) \in Nat /\ Len(q) \in Nat
      BY <1>2, PathAlgebra, LenProperties
  <2>2. ~IsPrefix(path, q)
    <3> SUFFICES ASSUME IsPrefix(path, q) PROVE FALSE
        OBVIOUS
    <3>1. CASE Len(p) <= Len(path)
        BY <1>2, <2>1, <3>1, PrefixesOfOne
    <3>2. CASE Len(path) <= Len(p)
        BY <1>2, <2>1, <3>2, PrefixesOfOne
    <3> QED BY <2>1, <3>1, <3>2
  <2>3. ~IsPrefix(q, path)
    <3> SUFFICES ASSUME IsPrefix(q, path) PROVE FALSE
        OBVIOUS
    <3>1. SubSeq(path, Len(q) + 1, Len(path)) \in Seq(S)
          /\ path = q \o SubSeq(path, Len(q) + 1, Len(path))
        BY <1>2, PrefixIsConcat, ZenonT(60)
    <3>2. PICK s \in Seq(S) : path = q \o s
        BY <3>1
    <3> DEFINE rs == r \o s
    <3>3. rs \in Seq(S) /\ path = p \o rs
        BY <1>2, <3>2, ConcatProperties, ConcatAssociative
    <3> HIDE DEF rs
    <3>4. IsPrefix(p, p \o rs)
        BY <3>3, PathAlgebra
    <3> QED BY <3>3, <3>4
  <2> QED BY <2>2, <2>3
<1>3. \A r \in Seq(S) : p \o r \in Seq(S)
    BY ConcatProperties
<1>4. \A t \in DOMAIN value : IsPrefix(path, path \o t)
    BY PathAlgebra
<1>5. \A r \in Seq(S) : /\ p \o r \in DOMAIN put <=> p \o r \in DOMAIN doc
                        /\ p \o r \in DOMAIN doc => put[p \o r] = doc[p \o r]
  <2> TAKE r \in Seq(S)
  <2> DEFINE q == p \o r
  <2>1. ~IsPrefix(q, path) /\ ~IsPrefix(path, q)
      BY <1>2, <1>3
  <2> HIDE DEF q
  <2>2. /\ q \in DOMAIN put <=> q \in DOMAIN doc
        /\ q \in DOMAIN doc => put[q] = doc[q]
      BY <1>1, <1>4, <2>1 DEF IsPut
  <2> QED BY <2>2 DEF q
<1>6. /\ DOMAIN At(put, p) = {r \in Seq(S) : p \o r \in DOMAIN put}
      /\ \A r \in DOMAIN At(put, p) : At(put, p)[r] = put[p \o r]
  <2>1. DOMAIN put \subseteq Seq(S)
      BY <1>1 DEF IsPut
  <2> QED BY <2>1, AtIs, ZenonT(60)
<1>7. /\ DOMAIN At(doc, p) = {r \in Seq(S) : p \o r \in DOMAIN doc}
      /\ \A r \in DOMAIN At(doc, p) : At(doc, p)[r] = doc[p \o r]
    BY AtIs, ZenonT(60)
<1>8. DOMAIN At(put, p) = DOMAIN At(doc, p)
    BY <1>5, <1>6, <1>7
<1>9. \A r \in DOMAIN At(put, p) : At(put, p)[r] = At(doc, p)[r]
    BY <1>5, <1>6, <1>7
<1>10. At(put, p) = At(doc, p)
    BY <1>8, <1>9, SameAt
<1> QED BY <1>10 DEF put

(* At its root a document that was found is itself.                        *)
LEMMA AtRoot ==
    ASSUME NEW S, NEW doc, DOMAIN doc \subseteq Seq(S), NEW p \in Seq(S)
    PROVE  At(At(doc, p), <<>>) = At(doc, p)
<1>1. <<>> \in Seq(S) /\ p \o <<>> = p
    BY EmptySeq, PathAlgebra
<1> DEFINE root == <<>>
<1>2. root \in Seq(S) /\ p \o root = p
    BY <1>1
<1> HIDE DEF root
<1>3. At(At(doc, p), root) = At(doc, p \o root)
  <2>1. root \in Seq(S)
      BY <1>2
  <2> QED BY <2>1, AtAt
<1> QED BY <1>2, <1>3 DEF root

(* Documents with whole numbers and the keys the program itself uses.      *)
Keys == STRING \cup {"request", "response", "body", "status", "headers"}

(* A document of these keys, whose scalars have whole numbers.             *)
IsDoc(doc) ==
    /\ DOMAIN doc \subseteq Seq(Keys)
    /\ \A p \in DOMAIN doc : IsNumeral(doc[p])

(* The paths of a body are paths of such a document.                       *)
LEMMA KeyPaths ==
    /\ Seq(STRING) \subseteq Seq(Keys)
    /\ <<"request">> \in Seq(Keys) /\ <<"response">> \in Seq(Keys)
    /\ <<"body">> \in Seq(Keys) /\ <<"status">> \in Seq(Keys)
    /\ <<"request", "body">> \in Seq(Keys)
    /\ <<"request", "body">> = <<"request">> \o <<"body">>
<1>1. STRING \subseteq Keys
    BY DEF Keys
<1>2. Seq(STRING) \subseteq Seq(Keys)
    BY <1>1, SeqMonotonic
<1>3. \A k \in Keys : <<k>> \in Seq(Keys)
    OBVIOUS
<1>4. \A j, k \in Keys : <<j, k>> \in Seq(Keys)
    OBVIOUS
<1>5. {"request", "response", "body", "status", "headers"} \subseteq Keys
    BY DEF Keys
<1>6. <<"request", "body">> = <<"request">> \o <<"body">>
    OBVIOUS
<1> QED BY <1>2, <1>3, <1>4, <1>5, <1>6

(* The document of a body is one of these.                                 *)
LEMMA DocumentIsDoc ==
    ASSUME NEW doc, IsDocument(doc)
    PROVE  IsDoc(doc)
BY KeyPaths DEF IsDocument, IsDoc, IsNumeral

(* And so are a scalar and no document at all,                             *)
LEMMA LeafIsDoc ==
    ASSUME NEW v, IsNumeral(v)
    PROVE  IsDoc(Leaf(v)) /\ IsDoc(Absent)
<1>1. DOMAIN Leaf(v) = {<<>>} /\ Leaf(v)[<<>>] = v /\ DOMAIN Absent = {}
    BY DEF Leaf, Absent
<1>2. <<>> \in Seq(Keys)
    BY EmptySeq
<1> QED BY <1>1, <1>2 DEF IsDoc

(* what is found in one,                                                   *)
LEMMA AtIsDoc ==
    ASSUME NEW doc, IsDoc(doc), NEW p \in Seq(Keys)
    PROVE  IsDoc(At(doc, p))
<1>1. /\ DOMAIN At(doc, p) = {r \in Seq(Keys) : p \o r \in DOMAIN doc}
      /\ \A r \in DOMAIN At(doc, p) : At(doc, p)[r] = doc[p \o r]
    BY AtIs, ZenonT(60) DEF IsDoc
<1> QED BY <1>1 DEF IsDoc

(* and one put into another.                                               *)
LEMMA PutIsDoc ==
    ASSUME NEW doc, IsDoc(doc), NEW p \in Seq(Keys), NEW value, IsDoc(value)
    PROVE  IsDoc(PutAt(doc, p, value))
<1> DEFINE put == PutAt(doc, p, value)
<1>1. IsPut(Keys, doc, p, value, put)
    BY PutIs DEF IsDoc
<1> HIDE DEF put
<1>2. ASSUME NEW q \in DOMAIN put
      PROVE  IsNumeral(put[q])
  <2>1. CASE q \in DOMAIN doc /\ ~IsPrefix(q, p) /\ ~IsPrefix(p, q)
      BY <1>1, <2>1 DEF IsDoc, IsPut
  <2>2. ASSUME NEW r \in DOMAIN value, q = p \o r PROVE IsNumeral(put[q])
      BY <1>1, <2>2 DEF IsDoc, IsPut
  <2> QED BY <1>1, <2>1, <2>2 DEF IsPut
<1>3. IsDoc(put)
    BY <1>1, <1>2 DEF IsDoc, IsPut
<1> QED BY <1>3 DEF put

(* The scalar of such a document is a fraction, or no number at all.       *)
LEMMA ScalarIsNumber ==
    ASSUME NEW doc, IsDoc(doc)
    PROVE  IsNumeral(Scalar(doc))
BY DEF IsDoc, Scalar, NaN, IsNumeral

-----------------------------------------------------------------------------
(* A set of values of a finite set is finite.                              *)
LEMMA ImageIsFinite ==
    ASSUME NEW S, IsFiniteSet(S), NEW f
    PROVE  IsFiniteSet({f[x] : x \in S})
<1> DEFINE T == {f[x] : x \in S}
           g == [x \in S |-> f[x]]
<1>1. g \in Surjection(S, T)
    BY DEF Surjection
<1> HIDE DEF g, T
<1>2. IsFiniteSet(T)
    BY <1>1, FS_Surjection
<1> QED BY <1>2 DEF T

(* SetToSeq() lists the members of a finite set.                           *)
LEMMA SetToSeqIs ==
    ASSUME NEW S, IsFiniteSet(S)
    PROVE  /\ SetToSeq(S) \in Seq(S) /\ Len(SetToSeq(S)) \in Nat
           /\ \A x \in S : \E i \in 1..Len(SetToSeq(S)) : SetToSeq(S)[i] = x
           /\ \A i, j \in 1..Len(SetToSeq(S)) : SetToSeq(S)[i] = SetToSeq(S)[j] => i = j
<1> DEFINE n == Cardinality(S)
           s == SetToSeq(S)
<1>1. n \in Nat /\ ExistsBijection(1..n, S)
    BY FS_CardinalityType
<1>2. \E f \in [1..n -> S] : IsInjective(f)
    BY <1>1 DEF ExistsBijection, Bijection, Injection
<1>3. s \in [1..n -> S] /\ IsInjective(s)
    BY <1>2 DEF SetToSeq
<1> HIDE DEF s
<1>4. s \in Seq(S) /\ Len(s) = n
    BY <1>1, <1>3
<1>5. s \in Injection(1..n, S)
    BY <1>3 DEF Injection
<1>6. IsFiniteSet(1..n) /\ Cardinality(1..n) = n
  <2>1. 1 \in Int /\ n \in Int
      BY <1>1
  <2>2. IsFiniteSet(1..n) /\ Cardinality(1..n) = IF 1 > n THEN 0 ELSE n - 1 + 1
      BY <2>1, FS_Interval
  <2> QED BY <1>1, <2>2
<1>7. s \in Surjection(1..n, S)
    BY <1>5, <1>6, FS_Injection
<1>8. \A x \in S : \E i \in 1..n : s[i] = x
    BY <1>7 DEF Surjection
<1>9. \A i, j \in 1..n : s[i] = s[j] => i = j
    BY <1>3 DEF IsInjective
<1> QED BY <1>1, <1>4, <1>8, <1>9 DEF s

(* reconstruct_nested(), field by field.                                   *)
NestedStep(f, fields, acc, n) ==
    IF n = 0 THEN Absent ELSE PutAt(f[n - 1], fields[n], acc[fields[n]])

(* ReconstructNested() puts one captured field after the other.            *)
LEMMA NestedSteps ==
    ASSUME NEW acc, NEW fields, fields = SetToSeq(DOMAIN acc), Len(fields) \in Nat
    PROVE  \E g : /\ g = [n \in 0..Len(fields) |-> NestedStep(g, fields, acc, n)]
                  /\ ReconstructNested(acc) = g[Len(fields)]
<1> DEFINE N == Len(fields)
           Run(f, m) == f = [n \in 0..m |-> NestedStep(f, fields, acc, n)]
           S == {m \in Nat : \E f : Run(f, m)}
<1>0. \A f, g, n : f[n - 1] = g[n - 1] => NestedStep(f, fields, acc, n) = NestedStep(g, fields, acc, n)
    BY DEF NestedStep
<1>1. 0 \in S
  <2> DEFINE f == [n \in 0..0 |-> Absent]
  <2>1. ASSUME NEW n \in 0..0 PROVE NestedStep(f, fields, acc, n) = Absent
      BY DEF NestedStep
  <2>2. f = [n \in 0..0 |-> Absent]
      OBVIOUS
  <2> HIDE DEF f
  <2>3. Run(f, 0)
      BY <2>1, <2>2, Zenon
  <2> QED BY <2>3
<1>2. ASSUME NEW m \in Nat, m \in S PROVE m + 1 \in S
  <2>1. PICK f : Run(f, m)
      BY <1>2
  <2> DEFINE g == [n \in 0..(m + 1) |-> NestedStep(f, fields, acc, n)]
  <2>2. ASSUME NEW n \in 0..(m + 1)
        PROVE  NestedStep(f, fields, acc, n) = NestedStep(g, fields, acc, n)
    <3>1. CASE n = 0
        BY <3>1 DEF NestedStep
    <3>2. CASE n # 0
      <4>1. n - 1 \in 0..m /\ n - 1 \in 0..(m + 1)
          BY <3>2
      <4>2. f[n - 1] = NestedStep(f, fields, acc, n - 1)
          BY <2>1, <4>1
      <4>3. g[n - 1] = NestedStep(f, fields, acc, n - 1)
          BY <4>1
      <4> HIDE DEF g
      <4> QED BY <1>0, <4>2, <4>3
    <3> QED BY <3>1, <3>2
  <2>3. g = [n \in 0..(m + 1) |-> NestedStep(f, fields, acc, n)]
      OBVIOUS
  <2> HIDE DEF g
  <2>4. Run(g, m + 1)
      BY <2>2, <2>3, Zenon
  <2> HIDE DEF Run
  <2> QED BY <2>4
<1> HIDE DEF S
<1>3. Nat \subseteq S
    BY <1>1, <1>2, NatSetInduction
<1>4. N \in S
    BY <1>3
<1>5. \E f : f = [n \in 0..N |-> NestedStep(f, fields, acc, n)]
    BY <1>4 DEF S
<1> DEFINE g == CHOOSE f : f = [n \in 0..N |-> NestedStep(f, fields, acc, n)]
<1>6. g = [n \in 0..N |-> NestedStep(g, fields, acc, n)]
    BY <1>5, Zenon
<1>7. ReconstructNested(acc) = g[N]
    BY Zenon DEF ReconstructNested, NestedStep
<1> HIDE DEF g
<1> QED BY <1>6, <1>7

(* Fields of which none is a part of another are all found again, and      *)
(* nothing besides.                                                        *)
LEMMA NestedIs ==
    ASSUME NEW acc, IsFiniteSet(DOMAIN acc), DOMAIN acc \subseteq Seq(Keys),
           \A f \in DOMAIN acc : IsDoc(acc[f]),
           \A f, g \in DOMAIN acc : f # g => ~IsPrefix(f, g)
    PROVE  /\ IsDoc(ReconstructNested(acc))
           /\ \A f \in DOMAIN acc : At(ReconstructNested(acc), f) = At(acc[f], <<>>)
           /\ \A p \in Seq(Keys) :
                 (\A f \in DOMAIN acc : ~IsPrefix(f, p) /\ ~IsPrefix(p, f)) =>
                    ~Present(At(ReconstructNested(acc), p))
<1> DEFINE fields == SetToSeq(DOMAIN acc)
           N == Len(fields)
<1>1. /\ fields \in Seq(DOMAIN acc) /\ N \in Nat
      /\ \A x \in DOMAIN acc : \E i \in 1..N : fields[i] = x
      /\ \A i, j \in 1..N : fields[i] = fields[j] => i = j
    BY SetToSeqIs
<1> HIDE DEF fields
<1>2. PICK s : /\ s = [n \in 0..N |-> NestedStep(s, fields, acc, n)]
               /\ ReconstructNested(acc) = s[N]
    BY <1>1, NestedSteps DEF fields
<1>3. \A i \in 1..N : /\ fields[i] \in DOMAIN acc /\ fields[i] \in Seq(Keys)
                      /\ IsDoc(acc[fields[i]])
    BY <1>1, ElementOfSeq
<1> DEFINE Beside(p) == \A f \in DOMAIN acc : ~IsPrefix(f, p) /\ ~IsPrefix(p, f)
           Good(d, n) == /\ IsDoc(d)
                         /\ \A i \in 1..n : At(d, fields[i]) = At(acc[fields[i]], <<>>)
                         /\ \A p \in Seq(Keys) : Beside(p) => ~Present(At(d, p))
           K == {n \in Nat : n <= N => Good(s[n], n)}
<1>4. 0 \in K
  <2>1. s[0] = Absent
      BY <1>1, <1>2 DEF NestedStep
  <2>2. IsDoc(Absent) /\ DOMAIN Absent = {}
      BY LeafIsDoc DEF Absent, IsDoc
  <2>3. ASSUME NEW p \in Seq(Keys) PROVE ~Present(At(Absent, p))
    <3> DEFINE d == Absent
    <3>1. DOMAIN d \subseteq Seq(Keys) /\ DOMAIN d = {}
        BY <2>2
    <3> HIDE DEF d
    <3>2. /\ DOMAIN At(d, p) = {r \in Seq(Keys) : p \o r \in DOMAIN d}
          /\ \A r \in DOMAIN At(d, p) : At(d, p)[r] = d[p \o r]
      <4>1. DOMAIN d \subseteq Seq(Keys)
          BY <3>1
      <4> QED BY <4>1, AtIs, ZenonT(60)
    <3>3. ~Present(At(d, p))
        BY <3>1, <3>2 DEF Present
    <3> QED BY <3>3 DEF d
  <2> QED BY <2>1, <2>2, <2>3
<1>5. ASSUME NEW n \in Nat, n \in K PROVE n + 1 \in K
  <2>1. ASSUME n + 1 <= N PROVE Good(s[n + 1], n + 1)
    <3> DEFINE path == fields[n + 1]
               value == acc[path]
               d == s[n]
    <3>1. n + 1 \in 0..N /\ n + 1 \in 1..N /\ n <= N /\ (n + 1) - 1 = n /\ n + 1 # 0
      <4>1. N \in Nat
          BY <1>1
      <4> HIDE DEF N
      <4> QED BY <2>1, <4>1
    <3>2. Good(d, n)
      <4> HIDE DEF Good
      <4> QED BY <1>5, <3>1
    <3>3. s[n + 1] = PutAt(d, path, value)
      <4>1. s[n + 1] = NestedStep(s, fields, acc, n + 1)
        <5> HIDE DEF N
        <5> QED BY <1>2, <3>1
      <4> QED BY <3>1, <4>1 DEF NestedStep
    <3>4. path \in DOMAIN acc /\ path \in Seq(Keys) /\ IsDoc(value)
        BY <1>3, <3>1
    <3>5. /\ DOMAIN d \subseteq Seq(Keys) /\ DOMAIN value \subseteq Seq(Keys) /\ IsDoc(d)
        BY <3>2, <3>4 DEF IsDoc
    <3> HIDE DEF d, value
    <3>6. IsDoc(PutAt(d, path, value))
        BY <3>4, <3>5, PutIsDoc
    <3>7. ASSUME NEW p \in Seq(Keys), ~IsPrefix(p, path), ~IsPrefix(path, p)
          PROVE  At(PutAt(d, path, value), p) = At(d, p)
        BY <3>4, <3>5, <3>7, AtPutBeside
    <3>8. At(PutAt(d, path, value), path) = At(value, <<>>)
      <4> DEFINE root == <<>>
      <4>1. root \in Seq(Keys)
          BY EmptySeq
      <4>2. path \o root = path
          BY <3>4, PathAlgebra
      <4> HIDE DEF root
      <4>3. At(PutAt(d, path, value), path \o root) = At(value, root)
          BY <3>4, <3>5, <4>1, AtPutBelow, SMTT(40)
      <4> QED BY <4>2, <4>3 DEF root
    <3>9. ASSUME NEW i \in 1..(n + 1)
          PROVE  At(PutAt(d, path, value), fields[i]) = At(acc[fields[i]], <<>>)
      <4>1. CASE i = n + 1
          BY <3>8, <4>1 DEF value
      <4>2. CASE i # n + 1
        <5>1. i \in 1..n /\ i \in 1..N
            BY <3>1, <4>2
        <5>2. At(d, fields[i]) = At(acc[fields[i]], <<>>)
            BY <3>2, <5>1
        <5>3. fields[i] # path /\ fields[i] \in DOMAIN acc /\ fields[i] \in Seq(Keys)
            BY <1>1, <1>3, <3>1, <4>2, <5>1
        <5>4. ~IsPrefix(fields[i], path) /\ ~IsPrefix(path, fields[i])
            BY <3>4, <5>3
        <5> QED BY <3>7, <5>2, <5>3, <5>4
      <4> QED BY <4>1, <4>2
    <3>10. ASSUME NEW p \in Seq(Keys), Beside(p) PROVE ~Present(At(PutAt(d, path, value), p))
      <4>1. ~IsPrefix(p, path) /\ ~IsPrefix(path, p)
          BY <3>4, <3>10
      <4>2. ~Present(At(d, p))
        <5> HIDE DEF Beside
        <5> QED BY <3>2, <3>10
      <4> QED BY <3>7, <4>1, <4>2
    <3> HIDE DEF Beside
    <3> QED BY <3>3, <3>6, <3>9, <3>10
  <2> HIDE DEF Good
  <2> QED BY <2>1
<1> HIDE DEF K
<1>6. Nat \subseteq K
    BY <1>4, <1>5, NatSetInduction
<1>7. Good(s[N], N)
  <2>1. N \in K /\ N <= N
      BY <1>1, <1>6
  <2> HIDE DEF Good
  <2> QED BY <2>1 DEF K
<1> QED BY <1>1, <1>2, <1>7

-----------------------------------------------------------------------------
(* Routing. *)

(* The number that is alone in its set is the earliest.                    *)
LEMMA EarliestOfOne ==
    ASSUME NEW n \in Nat
    PROVE  Earliest({n}) = n
BY DEF Earliest

(* Of a set with at most one element, any two are the same.                *)
LEMMA AtMostOne ==
    ASSUME NEW S, IsFiniteSet(S), Cardinality(S) <= 1, NEW x \in S, NEW y \in S
    PROVE  x = y
<1> SUFFICES ASSUME x # y PROVE FALSE
    OBVIOUS
<1>1. {x, y} \subseteq S
    OBVIOUS
<1>2. IsFiniteSet({x}) /\ Cardinality({x}) = 1
    BY FS_Singleton
<1>3. Cardinality({x} \cup {y}) = 2
    BY <1>2, FS_AddElement
<1>4. {x} \cup {y} = {x, y}
    OBVIOUS
<1>5. Cardinality({x, y}) <= Cardinality(S) /\ Cardinality(S) \in Nat
    BY <1>1, FS_Subset, FS_CardinalityType
<1> QED BY <1>3, <1>4, <1>5

(* A template that matches a URL has parameters unless it is the URL.      *)
LEMMA ExactMatch ==
    ASSUME NEW template \in Seq(STRING), NEW url \in Seq(STRING),
           Param \notin Range(url), PathMatches(template, url)
    PROVE  ~HasParams(template) <=> template = url
<1>1. /\ Len(template) = Len(url)
      /\ \A k \in 1..Len(url) : template[k] = Param \/ template[k] = url[k]
    BY DEF PathMatches
<1>2. ASSUME ~HasParams(template) PROVE template = url
  <2>1. \A k \in 1..Len(template) : template[k] # Param
      BY <1>2 DEF HasParams, Range
  <2>2. \A k \in 1..Len(template) : template[k] = url[k]
      BY <1>1, <2>1
  <2> QED BY <1>1, <2>2, SeqEqual
<1>3. ASSUME template = url PROVE ~HasParams(template)
    BY <1>3 DEF HasParams
<1> QED BY <1>2, <1>3

(* Two templates that match the same URL may overlap.                      *)
LEMMA MatchesOverlap ==
    ASSUME NEW a \in Seq(STRING), NEW b \in Seq(STRING), NEW url \in Seq(STRING),
           PathMatches(a, url), PathMatches(b, url)
    PROVE  CouldOverlap(a, b)
<1>1. Len(a) = Len(url) /\ Len(b) = Len(url) /\ DOMAIN a = DOMAIN url
    BY DEF PathMatches
<1> QED BY <1>1 DEF PathMatches, CouldOverlap

(* There are finitely many methods.                                        *)
LEMMA MethodsAreFinite == IsFiniteSet(Range(HTTPMethods))
<1>1. Range(HTTPMethods) = {"GET"} \cup {"POST"} \cup {"PUT"} \cup {"PATCH"} \cup {"DELETE"}
    BY DEF Range, HTTPMethods
<1>2. \A x : IsFiniteSet({x})
    BY FS_Singleton
<1>3. IsFiniteSet({"GET"} \cup {"POST"})
    BY <1>2, FS_Union
<1>4. IsFiniteSet({"GET"} \cup {"POST"} \cup {"PUT"})
    BY <1>2, <1>3, FS_Union
<1>5. IsFiniteSet({"GET"} \cup {"POST"} \cup {"PUT"} \cup {"PATCH"})
    BY <1>2, <1>4, FS_Union
<1>6. IsFiniteSet({"GET"} \cup {"POST"} \cup {"PUT"} \cup {"PATCH"} \cup {"DELETE"})
    BY <1>2, <1>5, FS_Union
<1> QED BY <1>1, <1>6

(* The operations of a path, and those of them that are websockets, are    *)
(* among the methods of HTTP.                                              *)
LEMMA SocketsAreFew ==
    ASSUME NEW i
    PROVE  /\ IsFiniteSet(WebSockets(i))
           /\ WebSockets(i) \subseteq GroupRoutesByPath(Ops, i)
           /\ GroupRoutesByPath(Ops, i) = HTTPRoutes(Ops, i) \cup WebSockets(i)
           /\ \A m : <<i, m>> \in DOMAIN Ops => m \in GroupRoutesByPath(Ops, i)
<1>2. IsFiniteSet(Range(HTTPMethods))
    BY MethodsAreFinite
<1>3. WebSockets(i) \subseteq GroupRoutesByPath(Ops, i)
    BY DEF WebSockets
<1>4. GroupRoutesByPath(Ops, i) \subseteq Range(HTTPMethods)
    BY DEF GroupRoutesByPath
<1>5. GroupRoutesByPath(Ops, i) = HTTPRoutes(Ops, i) \cup WebSockets(i)
    BY DEF HTTPRoutes, WebSockets
<1>6. DOMAIN Ops = UNION {{<<j, m>> : m \in {m \in Methods(spec.paths[j]) :
                                ResolveRules(spec.document, spec.paths[j].ext,
                                             spec.paths[j].ops[m]) # <<>>}} :
                            j \in DOMAIN spec.paths}
    BY DEF Ops, ExtractSpec
<1>7. ASSUME NEW m, <<i, m>> \in DOMAIN Ops PROVE m \in GroupRoutesByPath(Ops, i)
  <2>1. m \in Range(HTTPMethods)
      BY <1>6, <1>7 DEF Methods
  <2> QED BY <1>7, <2>1 DEF GroupRoutesByPath
<1> QED BY <1>2, <1>3, <1>4, <1>5, <1>7, FS_Subset

(* The only websocket of a path is the one that is routed.                 *)
LEMMA RoutedSocket ==
    ASSUME NEW i, Cardinality(WebSockets(i)) <= 1
    PROVE  FirstWsRoute(Ops, i) = WebSockets(i)
<1> DEFINE order == {n \in DOMAIN HTTPMethods :
                       /\ HTTPMethods[n] \in GroupRoutesByPath(Ops, i)
                       /\ Ops[<<i, HTTPMethods[n]>>].transport = "websocket"}
<1>1. order \subseteq Nat
    BY DEF HTTPMethods
<1>2. \A n \in order : HTTPMethods[n] \in WebSockets(i)
    BY DEF WebSockets
<1>3. \A m \in WebSockets(i) : \E n \in order : m = HTTPMethods[n]
    BY DEF WebSockets, GroupRoutesByPath, Range
<1>4. FirstWsRoute(Ops, i) = IF order = {} THEN {} ELSE {HTTPMethods[Earliest(order)]}
    BY DEF FirstWsRoute
<1> HIDE DEF order
<1>5. CASE order = {}
    BY <1>3, <1>4, <1>5
<1>6. CASE order # {}
  <2>1. \E n \in order : \A o \in order : n <= o
      BY <1>1, <1>6, LeastNat
  <2>2. Earliest(order) \in order
      BY <2>1 DEF Earliest
  <2>3. HTTPMethods[Earliest(order)] \in WebSockets(i)
      BY <1>2, <2>2
  <2>4. WebSockets(i) \subseteq {HTTPMethods[Earliest(order)]}
      BY <2>3, SocketsAreFew, AtMostOne
  <2> QED BY <1>4, <1>6, <2>3, <2>4
<1> QED BY <1>5, <1>6

(* The paths of a document are numbered.                                   *)
LEMMA PathsAreNumbered ==
    ASSUME spec \in Specs, NEW key \in DOMAIN Ops
    PROVE  key = <<key[1], key[2]>> /\ key[1] \in DOMAIN spec.paths /\ key[1] \in Nat
<1>1. \E i \in DOMAIN spec.paths : \E m : key = <<i, m>>
    BY DEF Ops, ExtractSpec
<1> QED BY <1>1, Templates

(* Unless the generator warned, at most one path is named for a request.   *)
LEMMA OnePathIsNamed ==
    ASSUME spec \in Specs, NEW q, q.url \in URLs, ~Warned(q),
           NEW i \in NamedPaths(q), NEW j \in NamedPaths(q)
    PROVE  i = j
<1> DEFINE T(k) == spec.paths[k].template
<1>1. /\ i \in {key[1] : key \in DOMAIN Ops} /\ j \in {key[1] : key \in DOMAIN Ops}
      /\ PathMatches(T(i), q.url) /\ PathMatches(T(j), q.url)
    BY DEF NamedPaths
<1>2. i \in DOMAIN spec.paths /\ j \in DOMAIN spec.paths
    BY <1>1, PathsAreNumbered
<1>3. /\ T(i) \in Seq(STRING) /\ T(j) \in Seq(STRING)
      /\ q.url \in Seq(STRING) /\ Param \notin Range(q.url)
    BY <1>2, Templates
<1>4. CASE T(i) = q.url
  <2>1. T(j) = q.url
      BY <1>1, <1>4 DEF NamedPaths
  <2> QED BY <1>2, <1>4, <2>1, Templates
<1>5. CASE T(j) = q.url
  <2>1. T(i) = q.url
      BY <1>1, <1>5 DEF NamedPaths
  <2> QED BY <1>2, <1>5, <2>1, Templates
<1>6. CASE T(i) # q.url /\ T(j) # q.url
  <2>1. HasParams(T(i)) /\ HasParams(T(j))
      BY <1>1, <1>3, <1>6, ExactMatch
  <2>2. CouldOverlap(T(i), T(j))
      BY <1>1, <1>3, MatchesOverlap
  <2>3. i # j => i \in DetectOverlaps(spec, {key[1] : key \in DOMAIN Ops})
      BY <1>1, <2>1, <2>2 DEF DetectOverlaps
  <2> QED BY <2>3 DEF Warned
<1> QED BY <1>4, <1>5, <1>6

(* nginx looks for a location among the paths that are named.              *)
LEMMA LocationOfNamed ==
    ASSUME spec \in Specs, NEW q, q.url \in URLs
    PROVE  LocationOf(q) = {LocationBlock(Ops, Earliest(best), q.upgrade) :
                               best \in {NamedPaths(q)} \ {{}}}
<1> DEFINE matching == {i \in {key[1] : key \in DOMAIN Ops} :
                          PathMatches(spec.paths[i].template, q.url)}
           exact == {i \in matching : ~HasParams(spec.paths[i].template)}
           concrete == {i \in matching : spec.paths[i].template = q.url}
<1>1. ASSUME NEW i \in matching
      PROVE  ~HasParams(spec.paths[i].template) <=> spec.paths[i].template = q.url
  <2>1. i \in DOMAIN spec.paths
      BY PathsAreNumbered
  <2>2. /\ spec.paths[i].template \in Seq(STRING)
        /\ q.url \in Seq(STRING) /\ Param \notin Range(q.url)
      BY <2>1, Templates
  <2> QED BY <2>2, ExactMatch
<1>2. exact = concrete
    BY <1>1
<1>3. NamedPaths(q) = IF concrete # {} THEN concrete ELSE matching
    BY DEF NamedPaths
<1>4. LocationOf(q) = {LocationBlock(Ops, Earliest(best), q.upgrade) :
                          best \in {IF exact # {} THEN exact ELSE matching} \ {{}}}
    BY DEF LocationOf, FindLocation
<1> HIDE DEF matching, exact, concrete
<1> QED BY <1>2, <1>3, <1>4

(* The methods that the location of a path meters.                         *)
LEMMA BlockRoutes ==
    ASSUME NEW i, Cardinality(WebSockets(i)) <= 1, NEW upgrade \in BOOLEAN
    PROVE  /\ LocationBlock(Ops, i, upgrade).path = i
           /\ LocationBlock(Ops, i, upgrade).routes =
                 IF upgrade /\ WebSockets(i) # {} THEN WebSockets(i)
                 ELSE GroupRoutesByPath(Ops, i)
<1>1. /\ FirstWsRoute(Ops, i) = WebSockets(i)
      /\ GroupRoutesByPath(Ops, i) = HTTPRoutes(Ops, i) \cup WebSockets(i)
    BY RoutedSocket, SocketsAreFew
<1> QED BY <1>1 DEF LocationBlock

(* Unless the generator warned, a request is metered by the operation that *)
(* the document names for it, and there is at most one.                    *)
LEMMA MeteredAsNamed ==
    ASSUME spec \in Specs, NEW q, q.url \in URLs, q.upgrade \in BOOLEAN, ~Warned(q)
    PROVE  OpOf(q) = Named(q) /\ Cardinality(Named(q)) <= 1
<1>1. CASE NamedPaths(q) = {}
  <2>1. LocationOf(q) = {}
      BY <1>1, LocationOfNamed
  <2>2. OpOf(q) = {}
      BY <2>1 DEF OpOf
  <2>3. Named(q) = {}
      BY <1>1 DEF Named
  <2> QED BY <2>2, <2>3, FS_EmptySet
<1>2. CASE NamedPaths(q) # {}
  <2>1. PICK i : i \in NamedPaths(q)
      BY <1>2
  <2>2. NamedPaths(q) = {i}
      BY <2>1, OnePathIsNamed
  <2>3. i \in Nat
    <3>1. i \in {key[1] : key \in DOMAIN Ops}
        BY <2>1 DEF NamedPaths
    <3> QED BY <3>1, PathsAreNumbered
  <2> DEFINE block == LocationBlock(Ops, i, q.upgrade)
  <2>4. LocationOf(q) = {block}
      BY <2>2, <2>3, LocationOfNamed, EarliestOfOne
  <2>5. OpOf(q) = OperationKey(block, q.method)
      BY <2>4 DEF OpOf
  <2>6. Cardinality(WebSockets(i)) <= 1
    <3>1. ~(Cardinality(WebSockets(i)) > 1)
        BY <2>1 DEF Warned
    <3>2. Cardinality(WebSockets(i)) \in Nat
        BY SocketsAreFew, FS_CardinalityType
    <3> QED BY <3>1, <3>2
  <2>7. /\ block.path = i
        /\ block.routes = IF q.upgrade /\ WebSockets(i) # {} THEN WebSockets(i)
                          ELSE GroupRoutesByPath(Ops, i)
      BY <2>6, BlockRoutes
  <2> HIDE DEF block
  <2>8. OpOf(q) = {key \in {<<i, q.method>>} : q.method \in block.routes}
      BY <2>5, <2>7 DEF OperationKey
  <2>9. Named(q) = {key \in {<<i, q.method>>} : q.method \in block.routes}
    <3>1. ASSUME NEW key \in Named(q)
          PROVE  key = <<i, q.method>> /\ q.method \in block.routes
      <4>1. /\ key \in DOMAIN Ops /\ key[1] = i /\ key[2] = q.method
            /\ q.upgrade /\ WebSockets(i) # {} => q.method \in WebSockets(i)
          BY <2>2, <3>1 DEF Named
      <4>2. key = <<i, q.method>>
          BY <4>1, PathsAreNumbered
      <4>3. q.method \in GroupRoutesByPath(Ops, i)
          BY <4>1, <4>2, SocketsAreFew
      <4> QED BY <2>7, <4>1, <4>2, <4>3
    <3>2. ASSUME q.method \in block.routes
          PROVE  <<i, q.method>> \in Named(q)
      <4>1. q.method \in GroupRoutesByPath(Ops, i)
          BY <2>7, <3>2, SocketsAreFew
      <4>2. <<i, q.method>> \in DOMAIN Ops
          BY <4>1 DEF GroupRoutesByPath
      <4>3. q.upgrade /\ WebSockets(i) # {} => q.method \in WebSockets(i)
          BY <2>7, <3>2
      <4> QED BY <2>2, <4>2, <4>3 DEF Named
    <3> QED BY <3>1, <3>2
  <2>10. Named(q) = {} \/ Named(q) = {<<i, q.method>>}
      BY <2>9
  <2>11. Cardinality(Named(q)) <= 1
    <3>1. CASE Named(q) = {}
        BY <3>1, FS_EmptySet
    <3>2. CASE Named(q) = {<<i, q.method>>}
      <4>1. Cardinality({<<i, q.method>>}) = 1
          BY FS_Singleton
      <4> QED BY <3>2, <4>1
    <3> QED BY <2>10, <3>1, <3>2
  <2> QED BY <2>8, <2>9, <2>11
<1> QED BY <1>1, <1>2

-----------------------------------------------------------------------------
(* The context. *)

(* Documents that were put together are the same if they have the same     *)
(* values.                                                                 *)
LEMMA SamePut ==
    ASSUME NEW c, NEW p, NEW v, NEW d, NEW q, NEW w,
           DOMAIN PutAt(c, p, v) = DOMAIN PutAt(d, q, w),
           \A r \in DOMAIN PutAt(c, p, v) : PutAt(c, p, v)[r] = PutAt(d, q, w)[r]
    PROVE  PutAt(c, p, v) = PutAt(d, q, w)
<1> DEFINE f == PutAt(c, p, v)
           g == PutAt(d, q, w)
<1>1. f = [r \in DOMAIN f |-> f[r]]
    BY DEF PutAt
<1>2. g = [r \in DOMAIN g |-> g[r]]
    BY DEF PutAt
<1> HIDE DEF f, g
<1>3. DOMAIN f = DOMAIN g /\ \A r \in DOMAIN f : f[r] = g[r]
    BY DEF f, g
<1>4. f = g
    BY <1>1, <1>2, <1>3
<1> QED BY <1>4 DEF f, g

(* A path begins with a key if and only if that is its first.              *)
LEMMA FirstKey ==
    ASSUME NEW k \in Keys, NEW p \in Seq(Keys)
    PROVE  /\ <<k>> \in Seq(Keys)
           /\ IsPrefix(<<k>>, p) <=> p # <<>> /\ p[1] = k
           /\ p # <<>> /\ p[1] # k => ~IsPrefix(p, <<k>>)
<1> DEFINE one == <<k>>
<1>1. one \in Seq(Keys) /\ one # <<>> /\ one[1] = k /\ Len(one) = 1
    OBVIOUS
<1>2. ASSUME NEW s \in Seq(Keys), NEW t \in Seq(Keys), s # <<>>, IsPrefix(s, t)
      PROVE  t # <<>> /\ t[1] = s[1]
  <2>1. /\ SubSeq(t, Len(s) + 1, Len(t)) \in Seq(Keys)
        /\ t = s \o SubSeq(t, Len(s) + 1, Len(t))
      BY <1>2, PrefixIsConcat
  <2>2. PICK r \in Seq(Keys) : t = s \o r
      BY <2>1
  <2> QED BY <1>2, <2>2
<1> HIDE DEF one
<1>3. IsPrefix(one, p) => p # <<>> /\ p[1] = k
    BY <1>1, <1>2
<1>4. p # <<>> /\ p[1] # k => ~IsPrefix(p, one)
    BY <1>1, <1>2
<1>5. ASSUME p # <<>>, p[1] = k PROVE IsPrefix(one, p)
  <2>1. Tail(p) \in Seq(Keys) /\ p = <<k>> \o Tail(p)
      BY <1>5
  <2> DEFINE rest == Tail(p)
  <2>2. rest \in Seq(Keys) /\ p = one \o rest
      BY <2>1 DEF one
  <2> HIDE DEF rest
  <2>3. IsPrefix(one, one \o rest)
      BY <1>1, <2>2, PathAlgebra
  <2> QED BY <2>2, <2>3
<1> QED BY <1>1, <1>3, <1>4, <1>5 DEF one

(* The keys that the program itself uses.                                  *)
LEMMA OwnKeys ==
    /\ "request" \in Keys /\ "response" \in Keys /\ "body" \in Keys
    /\ "status" \in Keys /\ "headers" \in Keys
BY DEF Keys

(* A request for some URL, with a body or without.                         *)
IsRequest(q) ==
    /\ q.url \in URLs /\ q.upgrade \in BOOLEAN
    /\ q.body = {} \/ \E b \in Bodies : q.body = {b}

(* The context of a request is a document, all of it below request.        *)
LEMMA ContextIs ==
    ASSUME NEW q, IsRequest(q)
    PROVE  IsDoc(Context(q)) /\ \A p \in DOMAIN Context(q) : p # <<>> /\ p[1] = "request"
<1> DEFINE body == IF q.body = {} THEN Leaf(Empty) ELSE CHOOSE b \in q.body : TRUE
           path == <<"request", "body">>
<1>1. IsDoc(body)
  <2>1. IsNumeral(Empty)
      BY DEF Empty, IsNumeral
  <2>2. CASE q.body = {}
      BY <2>1, <2>2, LeafIsDoc
  <2>3. ASSUME NEW b \in Bodies, q.body = {b} PROVE IsDoc(body)
    <3>1. body = b
        BY <2>3
    <3>2. IsDocument(b)
        BY TokensAndDocuments
    <3> HIDE DEF body
    <3> QED BY <3>1, <3>2, DocumentIsDoc
  <2> QED BY <2>2, <2>3 DEF IsRequest
<1> HIDE DEF body
<1>2. Context(q) = PutAt(Absent, path, body)
    BY DEF Context, BuildContext, body
<1>3. path \in Seq(Keys) /\ path # <<>> /\ path[1] = "request" /\ Len(path) = 2
    BY KeyPaths
<1> HIDE DEF path
<1>4. IsDoc(Absent) /\ DOMAIN Absent = {}
  <2>1. IsNumeral(Null)
      BY DEF Null, IsNumeral
  <2> QED BY <2>1, LeafIsDoc DEF Absent
<1>5. IsDoc(PutAt(Absent, path, body))
    BY <1>1, <1>3, <1>4, PutIsDoc
<1>6. IsPut(Keys, Absent, path, body, PutAt(Absent, path, body))
  <2>1. DOMAIN Absent \subseteq Seq(Keys)
      BY <1>4
  <2>2. DOMAIN body \subseteq Seq(Keys)
      BY <1>1 DEF IsDoc
  <2> QED BY <1>3, <2>1, <2>2, PutIs
<1>7. ASSUME NEW p \in DOMAIN PutAt(Absent, path, body)
      PROVE  p # <<>> /\ p[1] = "request"
  <2>1. PICK r \in DOMAIN body : p = path \o r
      BY <1>4, <1>6 DEF IsPut
  <2>2. r \in Seq(Keys)
      BY <1>1 DEF IsDoc
  <2> QED BY <1>3, <2>1, <2>2
<1> QED BY <1>2, <1>5, <1>7

(* The part of a context that rules are matched with (evaluateRules()).    *)
RequestPart(ctx) == PutAt(Absent, <<"request">>, At(ctx, <<"request">>))

(* What a rule matches, before and after the response, is the context of   *)
(* the request.                                                            *)
LEMMA RequestPartOfContext ==
    ASSUME NEW q, IsRequest(q)
    PROVE  RequestPart(Context(q)) = Context(q)
<1> DEFINE ctx == Context(q)
           key == <<"request">>
           part == At(ctx, key)
<1>1. /\ DOMAIN ctx \subseteq Seq(Keys)
      /\ \A p \in DOMAIN ctx : p # <<>> /\ p[1] = "request"
    BY ContextIs DEF IsDoc
<1>2. key \in Seq(Keys)
    BY KeyPaths
<1>3. \A p \in DOMAIN ctx : IsPrefix(key, p)
  <2> TAKE p \in DOMAIN ctx
  <2>1. p \in Seq(Keys) /\ "request" \in Keys
      BY <1>1, OwnKeys
  <2> HIDE DEF ctx
  <2> QED BY <1>1, <2>1, FirstKey
<1>4. ctx = PutAt(Absent, <<"request", "body">>,
                  IF q.body = {} THEN Leaf(Empty) ELSE CHOOSE b \in q.body : TRUE)
    BY DEF Context, BuildContext
<1> HIDE DEF ctx, key
<1>5. /\ DOMAIN part = {r \in Seq(Keys) : key \o r \in DOMAIN ctx}
      /\ \A r \in DOMAIN part : part[r] = ctx[key \o r]
  <2>1. DOMAIN ctx \subseteq Seq(Keys)
      BY <1>1
  <2> QED BY <1>2, <2>1, AtIs, ZenonT(60)
<1> HIDE DEF part
<1>6. IsPut(Keys, Absent, key, part, PutAt(Absent, key, part))
  <2>1. DOMAIN Absent \subseteq Seq(Keys)
      BY DEF Absent
  <2>2. DOMAIN part \subseteq Seq(Keys)
      BY <1>5
  <2> QED BY <1>2, <2>1, <2>2, PutIs
<1> DEFINE put == PutAt(Absent, key, part)
<1>7. \A p : p \in DOMAIN put <=> \E r \in DOMAIN part : p = key \o r
  <2>1. DOMAIN Absent = {}
      BY DEF Absent
  <2> QED BY <1>6, <2>1 DEF IsPut
<1>8. ASSUME NEW p \in DOMAIN ctx PROVE \E r \in DOMAIN part : p = key \o r
  <2>1. p \in Seq(Keys) /\ IsPrefix(key, p)
      BY <1>1, <1>3
  <2>2. /\ SubSeq(p, Len(key) + 1, Len(p)) \in Seq(Keys)
        /\ p = key \o SubSeq(p, Len(key) + 1, Len(p))
      BY <1>2, <2>1, PrefixIsConcat
  <2> QED BY <1>5, <2>2
<1>9. \A r \in DOMAIN part : put[key \o r] = ctx[key \o r]
    BY <1>5, <1>6 DEF IsPut
<1> HIDE DEF put
<1>10. DOMAIN put = DOMAIN ctx
    BY <1>5, <1>7, <1>8
<1>11. \A p \in DOMAIN put : put[p] = ctx[p]
    BY <1>7, <1>9
<1>12. put = ctx
    BY <1>4, <1>10, <1>11, SamePut DEF put
<1> QED BY <1>12 DEF RequestPart, put, part, key, ctx

(* The response does not change it.                                        *)
LEMMA RequestPartWithResponse ==
    ASSUME NEW q, IsRequest(q), NEW x, IsDoc(x)
    PROVE  RequestPart(WithResponse(Context(q), x)) = Context(q)
<1> DEFINE ctx == Context(q)
           key == <<"request">>
           other == <<"response">>
<1>1. DOMAIN ctx \subseteq Seq(Keys)
    BY ContextIs DEF IsDoc
<1>2. DOMAIN x \subseteq Seq(Keys)
    BY DEF IsDoc
<1>3. key \in Seq(Keys) /\ other \in Seq(Keys)
    BY KeyPaths
<1>4. ~IsPrefix(key, other) /\ ~IsPrefix(other, key)
  <2>1. "response" \in Keys /\ key # <<>> /\ key[1] = "request" /\ "request" # "response"
      BY OwnKeys
  <2> HIDE DEF key
  <2> QED BY <1>3, <2>1, FirstKey
<1> HIDE DEF ctx, key, other
<1>5. At(PutAt(ctx, other, x), key) = At(ctx, key)
    BY <1>1, <1>2, <1>3, <1>4, AtPutBeside
<1>6. RequestPart(WithResponse(ctx, x)) = RequestPart(ctx)
    BY <1>5 DEF RequestPart, WithResponse, key, other
<1> QED BY <1>6, RequestPartOfContext DEF ctx

-----------------------------------------------------------------------------
(* What a location captures. *)

(* The references of an expression are finitely many paths.                *)
LEMMA RefsArePaths ==
    ASSUME NEW e, IsExpression(e)
    PROVE  /\ IsFiniteSet(ExtractPlainRefs(e))
           /\ \A ref \in ExtractPlainRefs(e) : ref \in Seq(STRING) /\ ref # <<>>
<1> DEFINE D == {p \in DOMAIN e : e[p].k = "ref"}
           f == [p \in D |-> e[p].p]
<1>1. IsFiniteSet(D)
    BY FS_Subset DEF IsExpression
<1>2. ExtractPlainRefs(e) = {f[p] : p \in D}
    BY DEF ExtractPlainRefs
<1>3. IsFiniteSet({f[p] : p \in D})
  <2> HIDE DEF D, f
  <2> QED BY <1>1, ImageIsFinite
<1>4. \A p \in DOMAIN e : e[p].k = "ref" => e[p].p \in Seq(STRING) \ {<<>>}
    BY DEF IsExpression, IsOperator, Arithmetic
<1> QED BY <1>2, <1>3, <1>4 DEF ExtractPlainRefs

(* A request has at most one location and at most one operation, which is  *)
(* a route of the location.                                                *)
LEMMA TheOperation ==
    ASSUME NEW key \in OpOf(request)
    PROVE  /\ OpOf(request) = {key} /\ Op = Ops[key] /\ key \in DOMAIN Ops
           /\ key = <<Location.path, request.method>>
           /\ request.method \in Location.routes
           /\ \E i : Location = LocationBlock(Ops, i, request.upgrade)
<1>1. \A l, m \in LocationOf(request) : l = m
    BY DEF LocationOf, FindLocation
<1>2. PICK l \in LocationOf(request) : key \in OperationKey(l, request.method)
    BY DEF OpOf
<1>3. Location = l
    BY <1>1, <1>2 DEF Location
<1>4. key = <<Location.path, request.method>> /\ request.method \in Location.routes
    BY <1>2, <1>3 DEF OperationKey
<1>5. OpOf(request) = {key}
  <2> SUFFICES ASSUME NEW other \in OpOf(request) PROVE other = key
      OBVIOUS
  <2>1. PICK m \in LocationOf(request) : other \in OperationKey(m, request.method)
      BY DEF OpOf
  <2>2. m = l
      BY <1>1, <1>2, <2>1
  <2> QED BY <1>2, <2>1, <2>2 DEF OperationKey
<1>6. PICK i : Location = LocationBlock(Ops, i, request.upgrade)
    BY <1>2, <1>3 DEF LocationOf, FindLocation
<1>7. key \in DOMAIN Ops
    BY <1>4, <1>6, RoutesAreOperations
<1> QED BY <1>4, <1>5, <1>6, <1>7 DEF Op

(* What the rules of the operation read of the response is captured.       *)
LEMMA FieldsOfOperation ==
    ASSUME NEW key \in OpOf(request), NEW i \in DOMAIN Ops[key].rules
    PROVE  ExtractResponseRefs(Ops[key].rules[i]) \subseteq Fields
<1>1. key = <<Location.path, request.method>> /\ request.method \in Location.routes
    BY TheOperation
<1>2. ExtractResponseRefs(Ops[key].rules[i]) \subseteq CaptureFields(Ops[key])
    BY DEF CaptureFields
<1> QED BY <1>1, <1>2 DEF Fields, LocationFields

(* The rules of every operation are a list of parsed rules.                *)
RulesAreLists ==
    \A key \in DOMAIN Ops :
       /\ Ops[key].rules \in Seq(Range(Ops[key].rules))
       /\ \A i \in DOMAIN Ops[key].rules : IsRule(Ops[key].rules[i])

(* They are, once the spec was accepted.                                   *)
LEMMA AcceptedRules ==
    ASSUME spec \in Specs, Accepted
    PROVE  RulesAreLists
BY RulesAreParsed DEF Accepted, RulesAreLists, Ops

(* There are finitely many fields.                                         *)
LEMMA FieldsAreFinite ==
    ASSUME spec \in Specs, Accepted, OpOf(request) # {}
    PROVE  IsFiniteSet(Fields) /\ IsFiniteSet(BodyFields(Fields))
<1>1. PICK key \in OpOf(request) : TRUE
    OBVIOUS
<1>2. PICK i : Location = LocationBlock(Ops, i, request.upgrade)
    BY TheOperation
<1> DEFINE routes == Location.routes
           fields == [m \in routes |-> CaptureFields(Ops[<<Location.path, m>>])]
<1>3. \A m \in routes : <<Location.path, m>> \in DOMAIN Ops
    BY <1>2, RoutesAreOperations
<1>4. IsFiniteSet(routes)
  <2>1. routes \subseteq Range(HTTPMethods)
    <3>1. Location.path = i
        BY <1>2 DEF LocationBlock
    <3>2. ASSUME NEW m \in routes PROVE m \in Range(HTTPMethods)
      <4>1. <<i, m>> \in DOMAIN Ops
          BY <1>3, <3>1
      <4>2. m \in GroupRoutesByPath(Ops, i)
          BY <4>1, SocketsAreFew
      <4> QED BY <4>2 DEF GroupRoutesByPath
    <3> QED BY <3>2
  <2> QED BY <2>1, MethodsAreFinite, FS_Subset
<1>5. ASSUME NEW m \in routes PROVE IsFiniteSet(fields[m])
  <2> DEFINE op == Ops[<<Location.path, m>>]
             refs == [j \in DOMAIN op.rules |-> ExtractResponseRefs(op.rules[j])]
  <2>1. op.rules \in Seq(Range(op.rules)) /\ \A j \in DOMAIN op.rules : IsRule(op.rules[j])
      BY <1>3, AcceptedRules DEF RulesAreLists
  <2>2. IsFiniteSet(DOMAIN op.rules)
    <3>1. DOMAIN op.rules = 1..Len(op.rules) /\ Len(op.rules) \in Nat
        BY <2>1
    <3> HIDE DEF op
    <3>2. 1 \in Int /\ Len(op.rules) \in Int
        BY <3>1
    <3>3. IsFiniteSet(1..Len(op.rules))
        BY <3>2, FS_Interval
    <3> QED BY <3>1, <3>3
  <2>3. ASSUME NEW j \in DOMAIN op.rules PROVE IsFiniteSet(refs[j])
    <3>1. IsExpression(op.rules[j].capture)
        BY <2>1 DEF IsRule
    <3>2. IsFiniteSet(ExtractPlainRefs(op.rules[j].capture))
        BY <3>1, RefsArePaths
    <3>3. ExtractResponseRefs(op.rules[j]) \subseteq ExtractPlainRefs(op.rules[j].capture)
        BY DEF ExtractResponseRefs
    <3> QED BY <3>2, <3>3, FS_Subset
  <2>4. fields[m] = UNION {refs[j] : j \in DOMAIN op.rules}
      BY DEF CaptureFields
  <2> HIDE DEF op, refs
  <2>5. IsFiniteSet({refs[j] : j \in DOMAIN op.rules})
      BY <2>2, ImageIsFinite
  <2>6. \A T \in {refs[j] : j \in DOMAIN op.rules} : IsFiniteSet(T)
      BY <2>3
  <2>7. IsFiniteSet(UNION {refs[j] : j \in DOMAIN op.rules})
      BY <2>5, <2>6, FS_UNION
  <2> QED BY <2>4, <2>7
<1>6. Fields = UNION {fields[m] : m \in routes}
    BY DEF Fields, LocationFields
<1> HIDE DEF fields, routes
<1>7. IsFiniteSet(UNION {fields[m] : m \in routes})
  <2>1. IsFiniteSet({fields[m] : m \in routes})
      BY <1>4, ImageIsFinite
  <2>2. \A T \in {fields[m] : m \in routes} : IsFiniteSet(T)
      BY <1>5
  <2> QED BY <2>1, <2>2, FS_UNION
<1>8. IsFiniteSet(Fields)
    BY <1>6, <1>7
<1> DEFINE inBody == {f \in Fields : ClassifyRef(f) = "body"}
           path == [f \in inBody |-> BodyFieldPath(f)]
<1>9. IsFiniteSet(inBody)
    BY <1>8, FS_Subset
<1>10. BodyFields(Fields) = {path[f] : f \in inBody}
    BY DEF BodyFields
<1> HIDE DEF inBody, path
<1>11. IsFiniteSet({path[f] : f \in inBody})
    BY <1>9, ImageIsFinite
<1> QED BY <1>8, <1>10, <1>11

(* Every document of a response is one.                                    *)
LEMMA DocumentsAreDocs ==
    ASSUME NEW r, NEW e \in DOMAIN Documents(r)
    PROVE  IsDoc(Documents(r)[e])
<1>1. Documents(r)[e] = Texts[TextAt(r, e)] /\ IsJSON(TextAt(r, e))
    BY DEF Documents
<1>2. IsDocument(Texts[TextAt(r, e)])
    BY <1>1, TokensAndDocuments DEF IsJSON
<1> QED BY <1>1, <1>2, DocumentIsDoc

(* The last value of a field is a document.                                *)
LEMMA LastValueIsDoc ==
    ASSUME NEW r, DOMAIN Documents(r) \subseteq Nat, NEW f \in Seq(Keys), NEW n \in Nat
    PROVE  /\ IsDoc(LastValue(Documents(r), f, n))
           /\ At(LastValue(Documents(r), f, n), <<>>) = LastValue(Documents(r), f, n)
              \/ ~Present(LastValue(Documents(r), f, n))
<1> DEFINE docs == Documents(r)
           having == {e \in DOMAIN docs : e <= n /\ Present(At(docs[e], f))}
           last == CHOOSE e \in having : \A o \in having : o <= e
<1>1. LastValue(docs, f, n) = IF having = {} THEN Absent ELSE At(docs[last], f)
    BY DEF LastValue
<1>2. CASE having = {}
  <2>1. IsNumeral(Null)
      BY DEF Null, IsNumeral
  <2>2. IsDoc(Absent)
      BY <2>1, LeafIsDoc
  <2> QED BY <1>1, <1>2, <2>2, AbsentIsNot
<1>3. CASE having # {}
  <2>1. having \subseteq Nat /\ \A e \in having : e <= n
      OBVIOUS
  <2>2. \E e \in having : \A o \in having : o <= e
    <3> DEFINE S == {n - e : e \in having}
    <3>1. S \in SUBSET Nat /\ S # {}
        BY <1>3, <2>1
    <3>2. PICK m \in S : \A o \in S : m <= o
        BY <3>1, LeastNat
    <3>3. PICK e \in having : m = n - e
        BY <3>2
    <3>4. ASSUME NEW o \in having PROVE o <= e
      <4>1. n - o \in S
          OBVIOUS
      <4>2. n - e <= n - o
          BY <3>2, <3>3, <4>1
      <4>3. e \in Nat /\ o \in Nat
          BY <2>1
      <4> QED BY <4>2, <4>3
    <3> QED BY <3>4
  <2>3. last \in having
    <3> HIDE DEF having
    <3> QED BY <2>2
  <2>4. last \in DOMAIN docs
      BY <2>3
  <2> HIDE DEF last, having
  <2>5. IsDoc(docs[last])
      BY <2>4, DocumentsAreDocs
  <2> HIDE DEF docs
  <2>6. IsDoc(At(docs[last], f))
      BY <2>5, AtIsDoc
  <2>7. DOMAIN docs[last] \subseteq Seq(Keys)
      BY <2>5 DEF IsDoc
  <2>8. At(At(docs[last], f), <<>>) = At(docs[last], f)
      BY <2>7, AtRoot
  <2> QED BY <1>1, <1>3, <2>6, <2>8 DEF docs
<1> QED BY <1>2, <1>3

-----------------------------------------------------------------------------
(* What the rules read of a response. *)

(* The state of a response whose capture was not given up.                 *)
HeaderFiltered ==
    head = IF IsWebSocket
           THEN PutAt(Absent, <<"status">>, Leaf(Num(200)))
           ELSE [p \in {p \in DOMAIN response.head :
                          \/ p = <<"status">>
                          \/ p[2] \in HeaderNames(Fields)} |-> response.head[p]]

(* A response that was captured completely.                                *)
Complete ==
    /\ spec \in Specs /\ Accepted /\ OpOf(request) # {} /\ IsRequest(request)
    /\ response \in Responses /\ HeaderFiltered
    /\ Seen \in Nat /\ flat = Captured(response, Seen) /\ NoPathConflicts(Fields)

(* The same scalar, there at the same time and null at the same time.      *)
Alike(c, d) ==
    /\ Scalar(c) = Scalar(d)
    /\ Present(c) <=> Present(d)
    /\ c = Leaf(Null) <=> d = Leaf(Null)

(* A document is like itself.                                              *)
LEMMA SameIsAlike ==
    ASSUME NEW c, NEW d, c = d \/ (~Present(c) /\ ~Present(d))
    PROVE  Alike(c, d)
<1>1. CASE ~Present(c) /\ ~Present(d)
  <2>1. DOMAIN c = {} /\ DOMAIN d = {}
      BY <1>1 DEF Present
  <2>2. DOMAIN Leaf(Null) = {<<>>}
      BY DEF Leaf
  <2>3. c # Leaf(Null) /\ d # Leaf(Null)
      BY <2>1, <2>2
  <2>4. Scalar(c) = NaN /\ Scalar(d) = NaN
      BY <2>1 DEF Scalar
  <2> QED BY <1>1, <2>3, <2>4 DEF Alike
<1>2. CASE c = d
    BY <1>2 DEF Alike
<1> QED BY <1>1, <1>2

(* A document with a value below its root is no scalar.                    *)
LEMMA BranchesAlike ==
    ASSUME NEW c, NEW d, NEW p \in DOMAIN c, NEW q \in DOMAIN d, p # <<>>, q # <<>>
    PROVE  Alike(c, d)
<1>1. DOMAIN Leaf(Null) = {<<>>}
    BY DEF Leaf
<1>2. Present(c) /\ Present(d) /\ DOMAIN c # {<<>>} /\ DOMAIN d # {<<>>}
    BY DEF Present
<1>3. c # Leaf(Null) /\ d # Leaf(Null)
    BY <1>1, <1>2
<1>4. Scalar(c) = NaN /\ Scalar(d) = NaN
    BY <1>2 DEF Scalar
<1> QED BY <1>2, <1>3, <1>4 DEF Alike

(* The fields of the body, put together again, are the last values that    *)
(* the response gave them.                                                 *)
LEMMA NestedBody ==
    ASSUME Complete
    PROVE  /\ IsDoc(ReconstructNested(flat))
           /\ \A f \in BodyFields(Fields) :
                 /\ f \in Seq(Keys)
                 /\ Alike(LastValue(Documents(response), f, Seen),
                          At(ReconstructNested(flat), f))
                 /\ IsDoc(LastValue(Documents(response), f, Seen))
<1> DEFINE docs == Documents(response)
           fields == BodyFields(Fields)
           Latest(f) == LastValue(docs, f, Seen)
<1>1. \A f \in fields : f \in Seq(STRING) /\ f \in Seq(Keys)
    BY AcceptedFields, KeyPaths DEF Complete, FieldsAreKeys
<1>2. DOMAIN docs \subseteq Nat
    BY TokensAndDocuments, EndsArePositive DEF Complete
<1>3. ASSUME NEW f \in fields
      PROVE  IsDoc(Latest(f)) /\ (At(Latest(f), <<>>) = Latest(f) \/ ~Present(Latest(f)))
    BY <1>1, <1>2, LastValueIsDoc DEF Complete
<1>4. flat = [f \in {f \in fields : Present(Latest(f))} |-> Latest(f)]
    BY DEF Complete, Captured, CapturedFrom
<1>5. ASSUME NEW f \in fields, NEW g \in fields, f # g PROVE ~IsPrefix(f, g)
  <2>1. PICK r \in Fields : ClassifyRef(r) = "body" /\ f = BodyFieldPath(r)
      BY <1>5 DEF BodyFields
  <2>2. PICK s \in Fields : ClassifyRef(s) = "body" /\ g = BodyFieldPath(s)
      BY <1>5 DEF BodyFields
  <2> QED BY <1>5, <2>1, <2>2 DEF Complete, NoPathConflicts
<1>6. IsFiniteSet(fields)
    BY FieldsAreFinite DEF Complete
<1> HIDE DEF docs, fields, Latest
<1>7. /\ DOMAIN flat \subseteq fields /\ IsFiniteSet(DOMAIN flat)
      /\ \A f \in DOMAIN flat : flat[f] = Latest(f) /\ Present(Latest(f))
      /\ \A f \in fields : f \notin DOMAIN flat => ~Present(Latest(f))
    BY <1>4, <1>6, FS_Subset
<1>8. DOMAIN flat \subseteq Seq(Keys)
    BY <1>1, <1>7
<1>9. \A f \in DOMAIN flat : IsDoc(flat[f])
    BY <1>3, <1>7
<1>10. \A f, g \in DOMAIN flat : f # g => ~IsPrefix(f, g)
    BY <1>5, <1>7
<1>11. /\ IsDoc(ReconstructNested(flat))
       /\ \A f \in DOMAIN flat : At(ReconstructNested(flat), f) = At(flat[f], <<>>)
       /\ \A p \in Seq(Keys) :
             (\A f \in DOMAIN flat : ~IsPrefix(f, p) /\ ~IsPrefix(p, f)) =>
                ~Present(At(ReconstructNested(flat), p))
    BY <1>7, <1>8, <1>9, <1>10, NestedIs
<1> DEFINE nested == ReconstructNested(flat)
<1> HIDE DEF nested
<1>12. ASSUME NEW f \in fields
       PROVE  Latest(f) = At(nested, f) \/ (~Present(Latest(f)) /\ ~Present(At(nested, f)))
  <2>1. CASE f \in DOMAIN flat
      BY <1>3, <1>7, <1>11, <2>1 DEF nested
  <2>2. CASE f \notin DOMAIN flat
    <3>1. \A g \in DOMAIN flat : ~IsPrefix(g, f) /\ ~IsPrefix(f, g)
        BY <1>5, <1>7, <2>2
    <3> QED BY <1>1, <1>7, <1>11, <2>2, <3>1 DEF nested
  <2> QED BY <2>1, <2>2
<1>13. \A f \in fields : Alike(Latest(f), At(nested, f))
    BY <1>12, SameIsAlike
<1> QED BY <1>1, <1>3, <1>11, <1>13 DEF nested, docs, fields, Latest

(* The status and the headers are documents, with a status.                *)
LEMMA HeadIs ==
    ASSUME response \in Responses, HeaderFiltered
    PROVE  /\ IsDoc(response.head) /\ IsDoc(head)
           /\ <<"status">> \in DOMAIN response.head /\ <<"status">> \in DOMAIN head
<1>1. IsDoc(response.head) /\ <<"status">> \in DOMAIN response.head
    BY TokensAndDocuments, DocumentIsDoc
<1>2. CASE ~IsWebSocket
    BY <1>1, <1>2 DEF HeaderFiltered, IsDoc
<1>3. CASE IsWebSocket
  <2> DEFINE path == <<"status">>
             value == Leaf(Num(200))
             root == <<>>
  <2>1. head = PutAt(Absent, path, value)
      BY <1>3 DEF HeaderFiltered
  <2>2. path \in Seq(Keys)
      BY KeyPaths
  <2>3. IsDoc(value) /\ IsDoc(Absent)
    <3>1. IsNumeral(Num(200))
        BY DEF Num, Frac, IsNumeral
    <3> QED BY <3>1, LeafIsDoc
  <2>4. root \in DOMAIN value /\ path \o root = path
    <3>1. root \in DOMAIN value
        BY DEF Leaf
    <3> HIDE DEF path
    <3> QED BY <2>2, <3>1, PathAlgebra
  <2> HIDE DEF path, value, root
  <2>5. IsDoc(PutAt(Absent, path, value))
      BY <2>2, <2>3, PutIsDoc
  <2>6. IsPut(Keys, Absent, path, value, PutAt(Absent, path, value))
    <3>1. DOMAIN Absent \subseteq Seq(Keys)
        BY <2>3 DEF IsDoc
    <3>2. DOMAIN value \subseteq Seq(Keys)
        BY <2>3 DEF IsDoc
    <3> QED BY <2>2, <3>1, <3>2, PutIs
  <2>7. path \in DOMAIN head
      BY <2>1, <2>4, <2>6 DEF IsPut
  <2> QED BY <1>1, <2>1, <2>5, <2>7 DEF path
<1> QED BY <1>2, <1>3

(* The captured response, as handleResponse() gets it.                     *)
Response == PutAt(head, <<"body">>, ReconstructNested(flat))

(* Where the captured response is in the context.                          *)
LEMMA ResponseIs ==
    ASSUME Complete
    PROVE  /\ IsDoc(Response) /\ <<"status">> \in DOMAIN Response
           /\ \A f \in Seq(Keys) :
                 /\ <<"body">> \o f \in Seq(Keys)
                 /\ At(Response, <<"body">> \o f) = At(ReconstructNested(flat), f)
           /\ \A t \in Seq(Keys) : t # <<>> /\ t[1] # "body" => At(Response, t) = At(head, t)
<1> DEFINE path == <<"body">>
           nested == ReconstructNested(flat)
<1>1. IsDoc(head) /\ <<"status">> \in DOMAIN head /\ IsDoc(nested)
    BY HeadIs, NestedBody DEF Complete
<1>2. /\ path \in Seq(Keys) /\ <<"status">> \in Seq(Keys)
      /\ \A t \in Seq(Keys) : t # <<>> /\ t[1] # "body" => ~IsPrefix(path, t) /\ ~IsPrefix(t, path)
    BY KeyPaths, OwnKeys, FirstKey
<1>3. <<"status">> # <<>> /\ <<"status">>[1] # "body"
    OBVIOUS
<1> HIDE DEF path, nested
<1>4. DOMAIN head \subseteq Seq(Keys)
    BY <1>1 DEF IsDoc
<1>5. DOMAIN nested \subseteq Seq(Keys)
    BY <1>1 DEF IsDoc
<1>6. IsDoc(PutAt(head, path, nested))
    BY <1>1, <1>2, PutIsDoc
<1>7. IsPut(Keys, head, path, nested, PutAt(head, path, nested))
    BY <1>2, <1>4, <1>5, PutIs
<1>8. <<"status">> \in DOMAIN PutAt(head, path, nested)
    BY <1>1, <1>2, <1>3, <1>7 DEF IsPut
<1>9. ASSUME NEW f \in Seq(Keys)
      PROVE  path \o f \in Seq(Keys) /\ At(PutAt(head, path, nested), path \o f) = At(nested, f)
  <2>1. path \in Seq(Keys)
      BY <1>2
  <2>2. path \o f \in Seq(Keys)
      BY <2>1, ConcatProperties
  <2>3. At(PutAt(head, path, nested), path \o f) = At(nested, f)
      BY <1>4, <1>5, <2>1, AtPutBelow
  <2> QED BY <2>2, <2>3
<1>10. ASSUME NEW t \in Seq(Keys), t # <<>>, t[1] # "body"
       PROVE  At(PutAt(head, path, nested), t) = At(head, t)
  <2>1. path \in Seq(Keys)
      BY <1>2
  <2>2. ~IsPrefix(t, path)
      BY <1>2, <1>10
  <2>3. ~IsPrefix(path, t)
      BY <1>2, <1>10
  <2> QED BY <1>4, <1>5, <2>1, <2>2, <2>3, AtPutBeside
<1> QED BY <1>6, <1>8, <1>9, <1>10 DEF Response, path, nested

(* And of a context, the response is put beside the request.               *)
LEMMA CapturedContextIs ==
    ASSUME Complete
    PROVE  /\ CapturedContext = WithResponse(Context(request), Response)
           /\ \A t \in Seq(Keys) : /\ <<"response">> \o t \in Seq(Keys)
                                   /\ At(CapturedContext, <<"response">> \o t) = At(Response, t)
           /\ \A p \in Seq(Keys) : p # <<>> /\ p[1] # "response" =>
                 At(CapturedContext, p) = At(Context(request), p)
<1> DEFINE path == <<"response">>
           ctx == Context(request)
<1>1. IsDoc(ctx)
    BY ContextIs DEF Complete
<1>2. IsDoc(Response)
    BY ResponseIs
<1>3. /\ path \in Seq(Keys)
      /\ \A t \in Seq(Keys) : t # <<>> /\ t[1] # "response" => ~IsPrefix(path, t) /\ ~IsPrefix(t, path)
    BY KeyPaths, OwnKeys, FirstKey
<1>4. CapturedContext = PutAt(ctx, path, Response)
    BY DEF CapturedContext, WithResponse, Response
<1> HIDE DEF path, ctx
<1>5. DOMAIN ctx \subseteq Seq(Keys)
    BY <1>1 DEF IsDoc
<1>6. DOMAIN Response \subseteq Seq(Keys)
    BY <1>2 DEF IsDoc
<1>7. ASSUME NEW t \in Seq(Keys)
      PROVE  path \o t \in Seq(Keys) /\ At(PutAt(ctx, path, Response), path \o t) = At(Response, t)
  <2>1. path \in Seq(Keys)
      BY <1>3
  <2>2. path \o t \in Seq(Keys)
      BY <2>1, ConcatProperties
  <2>3. At(PutAt(ctx, path, Response), path \o t) = At(Response, t)
      BY <1>5, <1>6, <2>1, AtPutBelow
  <2> QED BY <2>2, <2>3
<1>8. ASSUME NEW p \in Seq(Keys), p # <<>>, p[1] # "response"
      PROVE  At(PutAt(ctx, path, Response), p) = At(ctx, p)
  <2>1. path \in Seq(Keys)
      BY <1>3
  <2>2. ~IsPrefix(p, path)
      BY <1>3, <1>8
  <2>3. ~IsPrefix(path, p)
      BY <1>3, <1>8
  <2> QED BY <1>5, <1>6, <2>1, <2>2, <2>3, AtPutBeside
<1> QED BY <1>4, <1>7, <1>8 DEF path, ctx, WithResponse

-----------------------------------------------------------------------------
(* Values that are alike agree for an expression.                          *)
LEMMA AlikeAgrees ==
    ASSUME NEW env, NEW ctx, NEW refs, \A r \in refs : Alike(env[r], At(ctx, r))
    PROVE  Agrees(env, ctx, refs)
BY DEF Agrees, Alike, Nil

(* The keys of a path, from its first.                                     *)
LEMMA KeyByKey ==
    ASSUME NEW p \in Seq(Keys), p # <<>>
    PROVE  /\ Tail(p) \in Seq(Keys) /\ p = <<p[1]>> \o Tail(p)
           /\ Len(Tail(p)) = Len(p) - 1 /\ Len(p) \in Nat
           /\ \A n \in 1..(Len(p) - 1) : Tail(p)[n] = p[n + 1]
OBVIOUS

(* A path of more than one key is two keys and the rest.                   *)
LEMMA TwoKeys ==
    ASSUME NEW p \in Seq(Keys), Len(p) > 1
    PROVE  /\ BodyFieldPath(p) \in Seq(Keys)
           /\ p = <<p[1]>> \o (<<p[2]>> \o BodyFieldPath(p))
           /\ p[2] \in Keys
<1>1. Len(p) \in Nat /\ p # <<>> /\ p[2] \in Keys /\ p[1] \in Keys
    OBVIOUS
<1>2. \A i \in 3..Len(p) : p[i] \in Keys
    BY <1>1, ElementOfSeq
<1>3. 3 \in Int /\ Len(p) \in Int
    BY <1>1
<1>4. /\ SubSeq(p, 3, Len(p)) \in Seq(Keys)
      /\ Len(SubSeq(p, 3, Len(p))) = IF 3 <= Len(p) THEN Len(p) - 3 + 1 ELSE 0
      /\ \A i \in 1..(Len(p) - 3 + 1) : SubSeq(p, 3, Len(p))[i] = p[3 + i - 1]
    BY <1>2, <1>3, SubSeqProperties
<1>5a. Len(SubSeq(p, 3, Len(p))) = Len(p) - 2
  <2> DEFINE n == Len(p)
             m == Len(SubSeq(p, 3, Len(p)))
  <2>1. n \in Nat /\ n > 1 /\ m = IF 3 <= n THEN n - 3 + 1 ELSE 0
      BY <1>1, <1>4
  <2> HIDE DEF n, m
  <2>2. m = n - 2
      BY <2>1
  <2> QED BY <2>2 DEF n, m
<1> DEFINE rest == SubSeq(p, 3, Len(p))
<1>5. Len(rest) = Len(p) - 2
    BY <1>5a
<1>6. \A i \in 1..(Len(p) - 2) : rest[i] = p[i + 2]
  <2> TAKE i \in 1..(Len(p) - 2)
  <2>1. i \in 1..(Len(p) - 3 + 1) /\ 3 + i - 1 = i + 2
      BY <1>1
  <2> QED BY <1>4, <2>1
<1>7. rest \in Seq(Keys)
    BY <1>4
<1> HIDE DEF rest
<1> DEFINE whole == <<p[1]>> \o (<<p[2]>> \o rest)
<1>8. whole \in Seq(Keys) /\ Len(whole) = Len(p)
    BY <1>1, <1>5, <1>7
<1>9. ASSUME NEW i \in 1..Len(p) PROVE whole[i] = p[i]
  <2>1. CASE i = 1
      BY <1>1, <1>7, <2>1
  <2>2. CASE i = 2
      BY <1>1, <1>7, <2>2
  <2>3. CASE i > 2
    <3>1. i - 2 \in 1..(Len(p) - 2) /\ (i - 2) + 2 = i
        BY <1>1, <2>3
    <3>2. rest[i - 2] = p[i]
        BY <1>6, <3>1
    <3>3. whole[i] = rest[i - 2]
        BY <1>1, <1>5, <1>7, <2>3
    <3> QED BY <3>2, <3>3
  <2> HIDE DEF whole, rest
  <2> QED BY <1>1, <2>1, <2>2, <2>3
<1>10. whole = p
  <2> HIDE DEF whole
  <2> QED BY <1>8, <1>9, SeqEqual
<1> QED BY <1>1, <1>7, <1>10 DEF rest, BodyFieldPath

(* The header filter keeps the status and the headers that are read.       *)
LEMMA HeadFound ==
    ASSUME Complete, ~IsWebSocket, NEW ref \in Fields, ref \in Seq(Keys),
           Len(ref) > 1, ClassifyRef(ref) # "body"
    PROVE  At(head, Tail(ref)) = At(response.head, Tail(ref))
<1> DEFINE t == Tail(ref)
           full == response.head
<1>1. /\ IsDoc(full) /\ IsDoc(head)
      /\ \A p \in DOMAIN full : p = <<"status">> \/ (Len(p) = 2 /\ p[1] = "headers")
    BY HeadIs, TokensAndDocuments DEF Complete
<1>2. head = [p \in {p \in DOMAIN full : p = <<"status">> \/ p[2] \in HeaderNames(Fields)}
                 |-> full[p]]
    BY DEF Complete, HeaderFiltered
<1>3. /\ t \in Seq(Keys) /\ t # <<>> /\ t[1] = ref[2] /\ Len(t) = Len(ref) - 1
      /\ Len(ref) \in Nat
      /\ Len(ref) > 2 => t[2] = ref[3]
    OBVIOUS
<1>4. \/ ref = <<"response", "status">> /\ t[1] = "status"
      \/ Len(ref) > 2 /\ t[1] = "headers" /\ t[2] \in HeaderNames(Fields)
  <2>1. CASE ref = <<"response", "status">>
      BY <1>3, <2>1
  <2>2. CASE Len(ref) > 2 /\ ref[2] = "headers"
    <3>1. ClassifyRef(ref) = "headers"
        BY <2>2 DEF ClassifyRef
    <3>2. ref[3] \in HeaderNames(Fields)
        BY <3>1 DEF HeaderNames
    <3> QED BY <1>3, <2>2, <3>2
  <2> QED BY <2>1, <2>2 DEF ClassifyRef
<1> HIDE DEF t, full
<1>5. DOMAIN full \subseteq Seq(Keys)
    BY <1>1 DEF IsDoc
<1>6. DOMAIN head \subseteq Seq(Keys)
    BY <1>1 DEF IsDoc
<1>7. t \in Seq(Keys)
    BY <1>3
<1>8. /\ DOMAIN At(full, t) = {r \in Seq(Keys) : t \o r \in DOMAIN full}
      /\ \A r \in DOMAIN At(full, t) : At(full, t)[r] = full[t \o r]
    BY <1>5, <1>7, AtIs, ZenonT(60)
<1>9. /\ DOMAIN At(head, t) = {r \in Seq(Keys) : t \o r \in DOMAIN head}
      /\ \A r \in DOMAIN At(head, t) : At(head, t)[r] = head[t \o r]
    BY <1>6, <1>7, AtIs, ZenonT(60)
<1>10. ASSUME NEW r \in Seq(Keys)
       PROVE  /\ t \o r \in DOMAIN full <=> t \o r \in DOMAIN head
              /\ t \o r \in DOMAIN head => head[t \o r] = full[t \o r]
  <2> DEFINE p == t \o r
  <2>1. p[1] = t[1] /\ (Len(t) > 1 => p[2] = t[2])
      BY <1>3
  <2>2. ASSUME p \in DOMAIN full PROVE p = <<"status">> \/ p[2] \in HeaderNames(Fields)
    <3>1. CASE t[1] = "status"
      <4>1. p[1] = "status"
          BY <2>1, <3>1
      <4> HIDE DEF p
      <4> QED BY <1>1, <2>2, <4>1
    <3>2. CASE Len(ref) > 2 /\ t[2] \in HeaderNames(Fields)
      <4>1. p[2] \in HeaderNames(Fields)
          BY <1>3, <2>1, <3>2
      <4> QED BY <4>1
    <3> QED BY <1>4, <3>1, <3>2
  <2> HIDE DEF p
  <2>3. (p \in DOMAIN full <=> p \in DOMAIN head) /\ (p \in DOMAIN head => head[p] = full[p])
      BY <1>2, <2>2
  <2> QED BY <2>3 DEF p
<1>11. DOMAIN At(head, t) = DOMAIN At(full, t)
    BY <1>8, <1>9, <1>10
<1>12. \A r \in DOMAIN At(head, t) : At(head, t)[r] = At(full, t)[r]
    BY <1>8, <1>9, <1>10, <1>11
<1>13. At(head, t) = At(full, t)
    BY <1>11, <1>12, SameAt
<1> QED BY <1>13 DEF t, full

(* Everything is at the root of a document.                                *)
LEMMA AllAtRoot ==
    ASSUME NEW S, NEW doc, DOMAIN doc \subseteq Seq(S), NEW p \in DOMAIN doc
    PROVE  p \in DOMAIN At(doc, <<>>)
<1> DEFINE root == <<>>
<1>1. root \in Seq(S) /\ p \in Seq(S) /\ root \o p = p
    BY EmptySeq, PathAlgebra
<1> HIDE DEF root
<1>2. root \in Seq(S)
    BY <1>1
<1>3. /\ DOMAIN At(doc, root) = {r \in Seq(S) : root \o r \in DOMAIN doc}
      /\ \A r \in DOMAIN At(doc, root) : At(doc, root)[r] = doc[root \o r]
    BY <1>2, AtIs, ZenonT(60)
<1> QED BY <1>1, <1>3 DEF root

(* A reference of a rule to the response finds in what was captured what   *)
(* it would find in the response.                                          *)
LEMMA ResponseRefServed ==
    ASSUME Complete, NEW key \in OpOf(request), NEW i \in DOMAIN Ops[key].rules,
           NEW e, e = Ops[key].rules[i].capture,
           NEW ref \in ExtractPlainRefs(e), IsResponse(ref), ref \in Seq(Keys)
    PROVE  Alike(Served(e)[ref], At(CapturedContext, ref)) /\ IsDoc(Served(e)[ref])
<1> DEFINE rule == Ops[key].rules[i]
           h == IF IsWebSocket THEN head ELSE response.head
           t == Tail(ref)
<1>1. /\ ref # <<>> /\ ref[1] = "response" /\ Len(ref) \in Nat /\ Len(ref) >= 1
      /\ t \in Seq(Keys) /\ ref = <<"response">> \o t /\ Len(t) = Len(ref) - 1
      /\ Len(ref) > 1 => t # <<>> /\ t[1] = ref[2]
  <2>1. ref # <<>> /\ ref[1] = "response"
      BY DEF IsResponse
  <2>2. /\ t \in Seq(Keys) /\ ref = <<ref[1]>> \o t /\ Len(t) = Len(ref) - 1
        /\ Len(ref) \in Nat /\ \A n \in 1..(Len(ref) - 1) : t[n] = ref[n + 1]
      BY <2>1, KeyByKey
  <2> HIDE DEF t
  <2>3. Len(ref) >= 1
      BY <2>1
  <2>4. Len(ref) > 1 => t # <<>> /\ t[1] = ref[2]
      BY <2>2
  <2> QED BY <2>1, <2>2, <2>3, <2>4
<1>2. At(CapturedContext, ref) = At(Response, t)
  <2> HIDE DEF t
  <2>1. t \in Seq(Keys)
      BY <1>1
  <2>2. At(CapturedContext, <<"response">> \o t) = At(Response, t)
      BY <2>1, CapturedContextIs
  <2> QED BY <1>1, <2>2
<1>3. /\ IsDoc(h) /\ <<"status">> \in DOMAIN h
      /\ IsDoc(Response) /\ <<"status">> \in DOMAIN Response
    BY HeadIs, ResponseIs DEF Complete
<1>4. Len(ref) > 1 => /\ ref \in Fields
                      /\ ClassifyRef(ref) = "body" => ref[2] = "body"
  <2> SUFFICES ASSUME Len(ref) > 1
               PROVE  ref \in Fields /\ (ClassifyRef(ref) = "body" => ref[2] = "body")
      OBVIOUS
  <2>1. ref \in ExtractResponseRefs(rule)
      BY DEF ExtractResponseRefs
  <2>2. ref \in Fields
      BY <2>1, FieldsOfOperation
  <2>3. Analyzable(rule)
      BY TheOperation DEF Complete, Accepted, Range
  <2> QED BY <2>1, <2>2, <2>3 DEF Analyzable
<1>5. Served(e)[ref] =
         IF Len(ref) > 1 /\ ref[2] = "body"
         THEN LastValue(Documents(response), BodyFieldPath(ref), Seen)
         ELSE At(h, t)
    BY DEF Served
<1> HIDE DEF h, t
<1>6. CASE Len(ref) > 1 /\ ref[2] = "body"
  <2> DEFINE f == BodyFieldPath(ref)
  <2>1. ref = <<"response">> \o (<<"body">> \o f) /\ f \in Seq(Keys)
      BY <1>1, <1>6, TwoKeys
  <2>2. ClassifyRef(ref) = "body"
      BY <1>6 DEF ClassifyRef
  <2>3. f \in BodyFields(Fields)
      BY <1>4, <1>6, <2>2 DEF BodyFields
  <2>4. Served(e)[ref] = LastValue(Documents(response), f, Seen)
      BY <1>5, <1>6
  <2> HIDE DEF f
  <2> DEFINE bf == <<"body">> \o f
  <2>5. bf \in Seq(Keys) /\ At(Response, bf) = At(ReconstructNested(flat), f)
      BY <2>1, ResponseIs
  <2>6. ref = <<"response">> \o bf
      BY <2>1
  <2> HIDE DEF bf
  <2>7. At(CapturedContext, <<"response">> \o bf) = At(Response, bf)
      BY <2>5, CapturedContextIs
  <2>8. /\ Alike(LastValue(Documents(response), f, Seen), At(ReconstructNested(flat), f))
        /\ IsDoc(LastValue(Documents(response), f, Seen))
      BY <2>3, NestedBody
  <2> QED BY <2>4, <2>5, <2>6, <2>7, <2>8
<1>7. CASE Len(ref) > 1 /\ ref[2] # "body"
  <2>1. At(Response, t) = At(head, t)
      BY <1>1, <1>7, ResponseIs
  <2>2. At(h, t) = At(head, t)
    <3>1. CASE IsWebSocket
        BY <3>1 DEF h
    <3>2. CASE ~IsWebSocket
        BY <1>4, <1>7, <3>2, HeadFound DEF h, t
    <3> QED BY <3>1, <3>2
  <2>3. IsDoc(At(h, t))
      BY <1>1, <1>3, AtIsDoc
  <2> QED BY <1>2, <1>5, <1>7, <2>1, <2>2, <2>3, SameIsAlike
<1>8. CASE Len(ref) = 1
  <2> DEFINE status == <<"status">>
             root == <<>>
  <2>1. t = root /\ root \in Seq(Keys)
    <3>1. Len(t) = 0
        BY <1>1, <1>8
    <3> QED BY <1>1, <3>1, EmptySeq
  <2>2. status \in Seq(Keys) /\ root \o status = status /\ status # root
      BY KeyPaths
  <2> HIDE DEF status, root
  <2>3. ASSUME NEW d, IsDoc(d), status \in DOMAIN d PROVE status \in DOMAIN At(d, root)
    <3>1. DOMAIN d \subseteq Seq(Keys)
        BY <2>3 DEF IsDoc
    <3> QED BY <2>3, <3>1, AllAtRoot DEF root
  <2>4. status \in DOMAIN At(h, t) /\ status \in DOMAIN At(Response, t)
      BY <1>3, <2>1, <2>3 DEF status
  <2>5. Alike(At(h, t), At(Response, t))
      BY <2>2, <2>4, BranchesAlike DEF root
  <2>6. IsDoc(At(h, t))
      BY <1>1, <1>3, AtIsDoc
  <2> QED BY <1>2, <1>5, <1>8, <2>5, <2>6
<1> QED BY <1>1, <1>6, <1>7, <1>8

(* So an expression means the same for what was captured as for what was   *)
(* served.                                                                 *)
LEMMA ServedAgrees ==
    ASSUME Complete, NEW key \in OpOf(request), NEW i \in DOMAIN Ops[key].rules,
           NEW e, e = Ops[key].rules[i].capture, IsExpression(e)
    PROVE  /\ Agrees(Served(e), CapturedContext, ExtractPlainRefs(e))
           /\ \A ref \in ExtractPlainRefs(e) : IsNumeral(Scalar(Served(e)[ref]))
<1>1. ASSUME NEW ref \in ExtractPlainRefs(e)
      PROVE  Alike(Served(e)[ref], At(CapturedContext, ref)) /\ IsDoc(Served(e)[ref])
  <2>1. ref \in Seq(Keys) /\ ref # <<>>
      BY RefsArePaths, KeyPaths
  <2>2. CASE IsResponse(ref)
      BY <2>1, <2>2, ResponseRefServed
  <2>3. CASE ~IsResponse(ref)
    <3>1. Served(e)[ref] = At(Context(request), ref)
        BY <2>3 DEF Served
    <3>2. At(CapturedContext, ref) = At(Context(request), ref)
        BY <2>1, <2>3, CapturedContextIs DEF IsResponse
    <3>3. IsDoc(Context(request))
        BY ContextIs DEF Complete
    <3>4. IsDoc(At(Context(request), ref))
        BY <2>1, <3>3, AtIsDoc
    <3> QED BY <3>1, <3>2, <3>4, SameIsAlike
  <2> QED BY <2>2, <2>3
<1>2. \A ref \in ExtractPlainRefs(e) : Alike(Served(e)[ref], At(CapturedContext, ref))
    BY <1>1
<1>3. Agrees(Served(e), CapturedContext, ExtractPlainRefs(e))
    BY <1>2, AlikeAgrees
<1> QED BY <1>1, <1>3, ScalarIsNumber

(* And before the response, for the request.                               *)
LEMMA RequestedAgrees ==
    ASSUME NEW q, IsRequest(q), NEW e, IsExpression(e)
    PROVE  /\ Agrees(Requested(e, q), Context(q), ExtractPlainRefs(e))
           /\ \A ref \in ExtractPlainRefs(e) : IsNumeral(Scalar(Requested(e, q)[ref]))
<1>1. ASSUME NEW ref \in ExtractPlainRefs(e)
      PROVE  /\ Requested(e, q)[ref] = At(Context(q), ref)
             /\ IsDoc(Requested(e, q)[ref])
  <2>1. ref \in Seq(Keys)
      BY RefsArePaths, KeyPaths
  <2>2. Requested(e, q)[ref] = At(Context(q), ref)
      BY DEF Requested
  <2>3. IsDoc(Context(q))
      BY ContextIs
  <2>4. IsDoc(At(Context(q), ref))
      BY <2>1, <2>3, AtIsDoc
  <2> QED BY <2>2, <2>4
<1>2. \A ref \in ExtractPlainRefs(e) : Alike(Requested(e, q)[ref], At(Context(q), ref))
    BY <1>1, SameIsAlike
<1> QED BY <1>1, <1>2, AlikeAgrees, ScalarIsNumber

(* What does not read the response means the same after it.                *)
LEMMA RequestedAgreesAfter ==
    ASSUME Complete, NEW e, IsExpression(e), ~ReadsResponse(e)
    PROVE  Agrees(Requested(e, request), CapturedContext, ExtractPlainRefs(e))
<1>1. ASSUME NEW ref \in ExtractPlainRefs(e)
      PROVE  Requested(e, request)[ref] = At(CapturedContext, ref)
  <2>1. ref \in Seq(Keys) /\ ref # <<>> /\ ~IsResponse(ref)
      BY RefsArePaths, KeyPaths DEF ReadsResponse
  <2>2. At(CapturedContext, ref) = At(Context(request), ref)
      BY <2>1, CapturedContextIs DEF IsResponse
  <2> QED BY <2>2 DEF Requested
<1>2. \A ref \in ExtractPlainRefs(e) : Alike(Requested(e, request)[ref], At(CapturedContext, ref))
    BY <1>1, SameIsAlike
<1> QED BY <1>2, AlikeAgrees

-----------------------------------------------------------------------------
(* Rules and rates. *)

(* A spec that was loaded, and all that was checked of it.                 *)
Loaded ==
    /\ spec \in Specs /\ Accepted
    /\ \A key \in DOMAIN Ops :
          /\ ValidRates(Ops[key].rates)
          /\ \A rule \in Range(Ops[key].rules) : ValidRule(rule)

(* The rates of an operation are whole numbers, for known assets.          *)
LEMMA RatesOfOperation ==
    ASSUME Loaded, NEW key \in DOMAIN Ops
    PROVE  /\ DOMAIN Ops[key].rates \subseteq Assets
           /\ \A a \in DOMAIN Ops[key].rates : Ops[key].rates[a] \in Nat
<1> DEFINE path == spec.paths[key[1]]
           operation == path.ops[key[2]]
           raw == ResolveRates(spec.document, path.ext, operation)
<1>1. /\ Ops[key] = Operation(spec, key[1], key[2])
      /\ key[1] \in DOMAIN spec.paths /\ key[2] \in Methods(path)
    BY DEF Ops, ExtractSpec
<1>2. Ops[key].rates = Parsed(raw)
    BY <1>1 DEF Operation
<1>3. spec.document \in Extensions(spec)
    BY DEF Extensions
<1>4. path.ext \in Extensions(spec)
    BY <1>1 DEF Extensions
<1>5. operation \in Extensions(spec)
    BY <1>1 DEF Extensions
<1>6. raw = NoAmount \/ \E ext \in Extensions(spec) : raw \in ext.rates
  <2> HIDE DEF path, operation
  <2>1. CASE operation.rates # {}
      BY <1>5, <2>1 DEF ResolveRates
  <2>2. CASE operation.rates = {} /\ path.ext.rates # {}
      BY <1>4, <2>2 DEF ResolveRates
  <2>3. CASE operation.rates = {} /\ path.ext.rates = {} /\ spec.document.rates # {}
      BY <1>3, <2>3 DEF ResolveRates
  <2>4. CASE operation.rates = {} /\ path.ext.rates = {} /\ spec.document.rates = {}
      BY <2>4 DEF ResolveRates
  <2> QED BY <2>1, <2>2, <2>3, <2>4
<1> HIDE DEF raw
<1>7. ASSUME NEW a \in DOMAIN raw PROVE Parsed(raw)[a] \in Nat
  <2>1. raw # NoAmount
      BY <1>7 DEF NoAmount
  <2>2. PICK ext \in Extensions(spec) : raw \in ext.rates
      BY <1>6, <2>1
  <2>3. raw[a].n \in Int
      BY <1>7, <2>2, RatesAreNumbers DEF Loaded
  <2>4. ParseRateValue(raw[a]) # {}
      BY <1>7, <2>2 DEF Loaded, Accepted, ValidSpec, ValidatePricingExtension, ValidateRates
  <2>5. \A n \in ParseRateValue(raw[a]) : n \in Nat
      BY <2>3 DEF ParseRateValue
  <2>6. Parsed(raw)[a] = CHOOSE n \in ParseRateValue(raw[a]) : TRUE
      BY <1>7 DEF Parsed
  <2> HIDE DEF raw
  <2> QED BY <2>4, <2>5, <2>6
<1>8. DOMAIN Parsed(raw) = DOMAIN raw
    BY DEF Parsed
<1> QED BY <1>2, <1>7, <1>8 DEF Loaded, ValidRates

(* The rules that a request matches.                                       *)
Matching(op, q) == {i \in DOMAIN op.rules : Matches(op.rules[i], Context(q))}

(* The first of some positions.                                            *)
FirstOf(S) == CHOOSE m \in S : \A o \in S : m <= o

(* It is among them, and before the others.                                *)
LEMMA FirstIs ==
    ASSUME NEW S \in SUBSET Nat, S # {}
    PROVE  /\ FirstOf(S) \in S
           /\ \A i \in S : (\A o \in S : i <= o) <=> i = FirstOf(S)
<1>1. \E n \in S : \A m \in S : n <= m
    BY LeastNat
<1>2. FirstOf(S) \in S /\ \A o \in S : FirstOf(S) <= o
    BY <1>1 DEF FirstOf
<1> DEFINE n == FirstOf(S)
<1> HIDE DEF n
<1>3. n \in S /\ n \in Nat /\ \A o \in S : n <= o
    BY <1>2 DEF n
<1>4. \A i \in S : (\A o \in S : i <= o) <=> i = n
    BY <1>3
<1> QED BY <1>3, <1>4 DEF n

(* The rule that prices a request is the first of them.                    *)
LEMMA RuleIsFirst ==
    ASSUME NEW q, NEW key, Named(q) = {key}, DOMAIN Ops[key].rules \subseteq Nat
    PROVE  /\ RatesFor(q) = {Ops[key].rates}
           /\ RuleFor(q) = IF Matching(Ops[key], q) = {} THEN {}
                           ELSE {Ops[key].rules[FirstOf(Matching(Ops[key], q))]}
<1> DEFINE op == Ops[key]
           matching == Matching(op, q)
           listed == UNION {{<<Ops[k].rules[i], i, k>> : i \in DOMAIN Ops[k].rules} :
                               k \in Named(q)}
           first == {r \in listed : /\ Matches(r[1], Context(q))
                                    /\ \A o \in listed : Matches(o[1], Context(q)) =>
                                                            r[2] <= o[2]}
<1>1. RatesFor(q) = {op.rates}
    BY DEF RatesFor
<1>2. RuleFor(q) = {r[1] : r \in first}
    BY DEF RuleFor
<1>3. \A r : r \in listed <=> \E i \in DOMAIN op.rules : r = <<op.rules[i], i, key>>
    OBVIOUS
<1>4. matching \in SUBSET Nat /\ matching \subseteq DOMAIN op.rules
      /\ \A i \in DOMAIN op.rules : i \in matching <=> Matches(op.rules[i], Context(q))
    BY DEF Matching
<1> HIDE DEF listed, op, matching
<1>5. \A r : r \in first <=>
         \E i \in matching : r = <<op.rules[i], i, key>> /\ \A o \in matching : i <= o
  <2>1. ASSUME NEW r \in first
        PROVE  \E i \in matching : r = <<op.rules[i], i, key>> /\ \A o \in matching : i <= o
    <3>1. PICK i \in DOMAIN op.rules : r = <<op.rules[i], i, key>>
        BY <1>3
    <3>2. i \in matching
        BY <1>4, <3>1
    <3>3. ASSUME NEW o \in matching PROVE i <= o
      <4>1. <<op.rules[o], o, key>> \in listed
          BY <1>3, <1>4
      <4>2. Matches(op.rules[o], Context(q))
          BY <1>4
      <4> QED BY <3>1, <4>1, <4>2
    <3> QED BY <3>1, <3>2, <3>3
  <2>2. ASSUME NEW i \in matching, \A o \in matching : i <= o
        PROVE  <<op.rules[i], i, key>> \in first
    <3>1. <<op.rules[i], i, key>> \in listed /\ Matches(op.rules[i], Context(q))
        BY <1>3, <1>4
    <3>2. ASSUME NEW o \in listed, Matches(o[1], Context(q)) PROVE i <= o[2]
      <4>1. PICK j \in DOMAIN op.rules : o = <<op.rules[j], j, key>>
          BY <1>3
      <4> QED BY <1>4, <2>2, <3>2, <4>1
    <3> QED BY <3>1, <3>2
  <2> HIDE DEF first
  <2> QED BY <2>1, <2>2
<1> HIDE DEF first
<1>6. CASE matching = {}
    BY <1>1, <1>2, <1>5, <1>6 DEF op, matching
<1>7. CASE matching # {}
  <2>1. /\ FirstOf(matching) \in matching
        /\ \A i \in matching : (\A o \in matching : i <= o) <=> i = FirstOf(matching)
      BY <1>4, <1>7, FirstIs
  <2> DEFINE n == FirstOf(matching)
  <2> HIDE DEF n
  <2>2. \A r : r \in first <=> r = <<op.rules[n], n, key>>
      BY <1>5, <2>1 DEF n
  <2> DEFINE one == <<op.rules[n], n, key>>
  <2>3. first = {one} /\ one[1] = op.rules[n]
      BY <2>2
  <2> HIDE DEF one
  <2>4. {r[1] : r \in first} = {op.rules[n]}
      BY <2>3
  <2> QED BY <1>1, <1>2, <1>7, <2>4 DEF op, matching, n
<1> QED BY <1>6, <1>7

(* What evaluateRules() gives, for a context of the request.               *)
Evaluated(rule, expr, ctx, rates) ==
    [res |-> BuildResult(ResolveExpression(expr, ctx), rates).res,
     amount |-> BuildResult(ResolveExpression(expr, ctx), rates).amount,
     hasAuthorize |-> rule.authorize # {}]

(* The outcome of a request that no rule matches.                          *)
Unmatched == [res |-> "unmatched", amount |-> NoAmount, hasAuthorize |-> FALSE]

(* evaluateRules() evaluates an expression of the first matching rule.     *)
LEMMA EvaluateRulesIs ==
    ASSUME NEW op, NEW q, NEW ctx, RequestPart(ctx) = Context(q), NEW phase,
           NEW rule, rule = op.rules[FirstOf(Matching(op, q))]
    PROVE  EvaluateRules(op, phase, ctx) =
              IF Matching(op, q) = {} THEN Unmatched
              ELSE Evaluated(rule,
                             IF phase = "authorize" /\ rule.authorize # {}
                             THEN CHOOSE e \in rule.authorize : TRUE
                             ELSE rule.capture,
                             IF phase = "capture" THEN ctx ELSE Context(q),
                             op.rates)
<1> DEFINE part == PutAt(Absent, <<"request">>, At(ctx, <<"request">>))
           found == {i \in DOMAIN op.rules : Matches(op.rules[i], part)}
           first == op.rules[CHOOSE m \in found : \A o \in found : m <= o]
           expr == IF phase = "authorize" /\ first.authorize # {}
                   THEN CHOOSE e \in first.authorize : TRUE ELSE first.capture
           where == IF phase = "capture" THEN ctx ELSE part
           built == BuildResult(ResolveExpression(expr, where), op.rates)
<1>1. EvaluateRules(op, phase, ctx) =
         IF found = {} THEN Unmatched
         ELSE [res |-> built.res, amount |-> built.amount,
               hasAuthorize |-> first.authorize # {}]
    BY DEF EvaluateRules, Unmatched
<1>2. part = Context(q)
    BY DEF RequestPart
<1> HIDE DEF part
<1>3. found = Matching(op, q)
    BY <1>2 DEF Matching
<1> HIDE DEF found
<1>4. first = rule
    BY <1>3 DEF FirstOf
<1> HIDE DEF first
<1>5. /\ expr = IF phase = "authorize" /\ rule.authorize # {}
                THEN CHOOSE e \in rule.authorize : TRUE ELSE rule.capture
      /\ where = IF phase = "capture" THEN ctx ELSE Context(q)
    BY <1>2, <1>4
<1> HIDE DEF expr, where
<1> QED BY <1>1, <1>3, <1>4, <1>5 DEF Evaluated

(* toPricing() of an amount is its price.                                  *)
LEMMA PricedIs ==
    ASSUME NEW kind, NEW amount, DOMAIN amount \subseteq Assets,
           \A a \in DOMAIN amount : amount[a] \in Nat
    PROVE  /\ Priced(kind, {}) = Outcome("error", NoAmount)
           /\ Priced(kind, {amount}) = IF DOMAIN ToPricing(amount) = {}
                                       THEN Outcome("free", NoAmount)
                                       ELSE Outcome(kind, ToPricing(amount))
<1>1. Priced(kind, {}) = Outcome("error", NoAmount)
    BY DEF Priced
<1>2. (CHOOSE x \in {amount} : TRUE) = amount
    OBVIOUS
<1>3. {a \in DOMAIN amount : amount[a] > 0} = {a \in DOMAIN amount \cap Assets : amount[a] # 0}
    OBVIOUS
<1>4. [a \in {a \in DOMAIN amount : amount[a] > 0} |-> amount[a]] = ToPricing(amount)
    BY <1>3 DEF ToPricing
<1>5. {amount} # {}
    OBVIOUS
<1>6. Priced(kind, {amount}) = IF DOMAIN ToPricing(amount) = {}
                               THEN Outcome("free", NoAmount)
                               ELSE Outcome(kind, ToPricing(amount))
    BY <1>2, <1>4, <1>5, Zenon DEF Priced
<1> QED BY <1>1, <1>6

-----------------------------------------------------------------------------
(* What is asked and what is charged. *)

(* The outcome that an amount makes.                                       *)
Asked(kind, built) ==
    IF built.res = "error" THEN Outcome("error", NoAmount)
    ELSE IF DOMAIN ToPricing(built.amount) = {} THEN Outcome("free", NoAmount)
    ELSE Outcome(kind, ToPricing(built.amount))

(* What is asked for an expression is the price of what it means.          *)
LEMMA AskedIsPriced ==
    ASSUME NEW e, IsExpression(e), NEW env, NEW ctx,
           Agrees(env, ctx, ExtractPlainRefs(e)),
           \A ref \in ExtractPlainRefs(e) : IsNumeral(Scalar(env[ref])),
           NEW rates, \A a \in DOMAIN rates : rates[a] \in Nat,
           DOMAIN rates \subseteq Assets, NEW kind
    PROVE  LET built == BuildResult(ResolveExpression(e, ctx), rates)
           IN  /\ Asked(kind, built) = Priced(kind, Price(e, env, rates))
               /\ built.res = "error" <=> Price(e, env, rates) = {}
<1> DEFINE built == BuildResult(ResolveExpression(e, ctx), rates)
           price == Price(e, env, rates)
<1>1. \/ built.res = "error" /\ price = {}
      \/ /\ built.res = "matched" /\ price = {built.amount}
         /\ DOMAIN built.amount = DOMAIN rates
         /\ \A a \in DOMAIN rates : built.amount[a] \in Nat
    BY BuildIsPrice
<1> HIDE DEF built, price
<1>2. CASE built.res = "error" /\ price = {}
  <2>1. Priced(kind, price) = Outcome("error", NoAmount)
      BY <1>2 DEF Priced
  <2> QED BY <1>2, <2>1 DEF Asked, built, price
<1>3. CASE /\ built.res = "matched" /\ price = {built.amount}
           /\ DOMAIN built.amount = DOMAIN rates
           /\ \A a \in DOMAIN rates : built.amount[a] \in Nat
  <2> DEFINE amount == built.amount
  <2>1. DOMAIN amount \subseteq Assets /\ \A a \in DOMAIN amount : amount[a] \in Nat
      BY <1>3
  <2> HIDE DEF amount
  <2>2. Priced(kind, {amount}) = IF DOMAIN ToPricing(amount) = {}
                                 THEN Outcome("free", NoAmount)
                                 ELSE Outcome(kind, ToPricing(amount))
      BY <2>1, PricedIs
  <2>3. price = {amount} /\ price # {} /\ built.res # "error"
      BY <1>3 DEF amount
  <2>4. Asked(kind, built) = Priced(kind, price)
      BY <2>2, <2>3 DEF Asked, amount
  <2> QED BY <2>3, <2>4 DEF built, price
<1> QED BY <1>1, <1>2, <1>3

(* The parts of what evaluateRules() returns.                              *)
LEMMA EvaluatedIs ==
    ASSUME NEW rule, NEW e, NEW ctx, NEW rates,
           NEW result, result = Evaluated(rule, e, ctx, rates),
           NEW built, built = BuildResult(ResolveExpression(e, ctx), rates)
    PROVE  /\ result.res = built.res /\ result.amount = built.amount
           /\ rule.authorize # {} => result.hasAuthorize
           /\ rule.authorize = {} => ~result.hasAuthorize
<1> DEFINE has == rule.authorize # {}
<1>1. result = [res |-> built.res, amount |-> built.amount, hasAuthorize |-> has]
    BY DEF Evaluated
<1> HIDE DEF has
<1>2. result.hasAuthorize = has /\ result.res = built.res /\ result.amount = built.amount
    BY <1>1
<1>3. rule.authorize # {} => result.hasAuthorize
    BY <1>2, Zenon DEF has
<1>4. rule.authorize = {} => ~result.hasAuthorize
    BY <1>2, Zenon DEF has
<1> QED BY <1>2, <1>3, <1>4

(* The first conjunct about prices of ChargedForWhatWasServed: what        *)
(* /request answered is the price of the rule,                             *)
AskedFor(q, outcome) ==
    \A rates \in RatesFor(q) :
       \/ RuleFor(q) = {} /\ outcome.kind = "free"
       \/ \E rule \in RuleFor(q) :
             \/ /\ rule.authorize = {}
                /\ outcome = Priced("settle", Price(rule.capture,
                                       Requested(rule.capture, q), rates))
             \/ \E e \in rule.authorize :
                   outcome = Priced("verify", Price(e, Requested(e, q), rates))

(* and the second: so is what /response answered.                          *)
ChargedFor(outcome) ==
    \A rates \in RatesFor(request) :
       \/ RuleFor(request) = {} /\ outcome.kind = "free"
       \/ \E rule \in RuleFor(request) :
             \/ rule.authorize = {} /\ outcome.kind = "free"
             \/ /\ rule.authorize # {}
                /\ outcome = Priced("settle", Price(rule.capture,
                                       Served(rule.capture), rates))

(* OpenAPI names one operation for the request, and that is the one        *)
(* metered.                                                                *)
NamedOnly(q, key) == Named(q) = {key} /\ OpOf(q) = {key}

(* The operation's rules, and the first that the request matches.          *)
LEMMA RuleOfRequest ==
    ASSUME Loaded, NEW q, NEW key, NamedOnly(q, key)
    PROVE  /\ key \in DOMAIN Ops /\ RatesFor(q) = {Ops[key].rates}
           /\ Matching(Ops[key], q) = {} => RuleFor(q) = {}
           /\ Matching(Ops[key], q) # {} =>
                 \E i \in DOMAIN Ops[key].rules :
                    /\ i = FirstOf(Matching(Ops[key], q))
                    /\ RuleFor(q) = {Ops[key].rules[i]}
                    /\ IsRule(Ops[key].rules[i]) /\ ValidRule(Ops[key].rules[i])
<1>1. Named(q) = {key} /\ key \in DOMAIN Ops
    BY DEF Named, NamedOnly
<1>2. /\ Ops[key].rules \in Seq(Range(Ops[key].rules))
      /\ \A i \in DOMAIN Ops[key].rules : IsRule(Ops[key].rules[i])
    BY <1>1, AcceptedRules DEF Loaded, RulesAreLists
<1>3. DOMAIN Ops[key].rules \subseteq Nat
  <2> DEFINE rules == Ops[key].rules
             T == Range(rules)
  <2>1. rules \in Seq(T)
      BY <1>2
  <2> HIDE DEF rules, T
  <2>2. DOMAIN rules \subseteq Nat
      BY <2>1
  <2> QED BY <2>2 DEF rules
<1>4. /\ RatesFor(q) = {Ops[key].rates}
      /\ RuleFor(q) = IF Matching(Ops[key], q) = {} THEN {}
                      ELSE {Ops[key].rules[FirstOf(Matching(Ops[key], q))]}
    BY <1>1, <1>3, RuleIsFirst
<1>5. ASSUME Matching(Ops[key], q) # {}
      PROVE  FirstOf(Matching(Ops[key], q)) \in DOMAIN Ops[key].rules
  <2>1. /\ Matching(Ops[key], q) \in SUBSET Nat
        /\ Matching(Ops[key], q) \subseteq DOMAIN Ops[key].rules
      BY <1>3 DEF Matching
  <2> QED BY <1>5, <2>1, FirstIs
<1>6. \A i \in DOMAIN Ops[key].rules : ValidRule(Ops[key].rules[i])
    BY <1>1 DEF Loaded, Range
<1> QED BY <1>1, <1>2, <1>4, <1>5, <1>6

(* The outcome of /request, unless it is an error.                         *)
LEMMA AuthorizeIs ==
    ASSUME NEW q, NEW key, OpOf(q) = {key}, Authorize(q).kind # "error",
           NEW result, result = EvaluateRules(Ops[key], "authorize", Context(q))
    PROVE  /\ result.res # "error"
           /\ Authorize(q) = IF DOMAIN ToPricing(result.amount) = {}
                             THEN Outcome("free", NoAmount)
                             ELSE Outcome(IF result.hasAuthorize THEN "verify" ELSE "settle",
                                          ToPricing(result.amount))
<1>1. (CHOOSE k \in OpOf(q) : TRUE) = key
    OBVIOUS
<1>2. Outcome("error", NoAmount).kind = "error"
    BY DEF Outcome
<1>3. ~(BodyMissing(q) \/ result.res = "error")
  <2> SUFFICES ASSUME BodyMissing(q) \/ result.res = "error" PROVE FALSE
      OBVIOUS
  <2>1. Authorize(q) = Outcome("error", NoAmount)
      BY <1>1 DEF Authorize
  <2> QED BY <1>2, <2>1
<1>4. CASE DOMAIN ToPricing(result.amount) = {}
    BY <1>1, <1>3, <1>4 DEF Authorize
<1>5. CASE DOMAIN ToPricing(result.amount) # {}
    BY <1>1, <1>3, <1>5 DEF Authorize
<1> QED BY <1>3, <1>4, <1>5

(* A client is asked for the price of the rule its request matches.        *)
LEMMA AskedAsNamed ==
    ASSUME Loaded, NEW q, IsRequest(q), NEW key, NamedOnly(q, key),
           Authorize(q).kind # "error"
    PROVE  AskedFor(q, Authorize(q))
<1> DEFINE op == Ops[key]
           result == EvaluateRules(op, "authorize", Context(q))
<1>1. OpOf(q) = {key} /\ RatesFor(q) = {op.rates} /\ key \in DOMAIN Ops
    BY RuleOfRequest DEF NamedOnly
<1>2. /\ result.res # "error"
      /\ Authorize(q) = IF DOMAIN ToPricing(result.amount) = {}
                        THEN Outcome("free", NoAmount)
                        ELSE Outcome(IF result.hasAuthorize THEN "verify" ELSE "settle",
                                     ToPricing(result.amount))
    BY <1>1, AuthorizeIs
<1>3. RequestPart(Context(q)) = Context(q)
    BY RequestPartOfContext
<1>4. CASE Matching(op, q) = {}
  <2>1. result = Unmatched
      BY <1>3, <1>4, EvaluateRulesIs
  <2>2. DOMAIN ToPricing(result.amount) = {}
      BY <2>1 DEF ToPricing, Unmatched, NoAmount
  <2>3. Authorize(q).kind = "free"
      BY <1>2, <2>2 DEF Outcome
  <2>4. RuleFor(q) = {}
      BY <1>4, RuleOfRequest
  <2> QED BY <2>3, <2>4 DEF AskedFor
<1>5. CASE Matching(op, q) # {}
  <2>1. PICK i \in DOMAIN op.rules :
           /\ i = FirstOf(Matching(op, q)) /\ RuleFor(q) = {op.rules[i]}
           /\ IsRule(op.rules[i]) /\ ValidRule(op.rules[i])
      BY <1>5, RuleOfRequest
  <2> DEFINE rule == op.rules[i]
             e == IF rule.authorize # {} THEN CHOOSE x \in rule.authorize : TRUE
                                         ELSE rule.capture
             kind == IF rule.authorize # {} THEN "verify" ELSE "settle"
             built == BuildResult(ResolveExpression(e, Context(q)), op.rates)
  <2>2. result = Evaluated(rule, e, Context(q), op.rates)
      BY <1>3, <1>5, <2>1, EvaluateRulesIs
  <2>3. /\ result.res = built.res /\ result.amount = built.amount
        /\ rule.authorize # {} => result.hasAuthorize
        /\ rule.authorize = {} => ~result.hasAuthorize
      BY <2>2, EvaluatedIs
  <2>4. IsExpression(e)
      BY <2>1 DEF IsRule
  <2>5. /\ DOMAIN op.rates \subseteq Assets
        /\ \A a \in DOMAIN op.rates : op.rates[a] \in Nat
      BY <1>1, RatesOfOperation
  <2> HIDE DEF result, e
  <2>6. /\ Agrees(Requested(e, q), Context(q), ExtractPlainRefs(e))
        /\ \A ref \in ExtractPlainRefs(e) : IsNumeral(Scalar(Requested(e, q)[ref]))
      BY <2>4, RequestedAgrees
  <2>7. Asked(kind, built) = Priced(kind, Price(e, Requested(e, q), op.rates))
    <3> HIDE DEF op, kind
    <3> QED BY <2>4, <2>5, <2>6, AskedIsPriced
  <2> HIDE DEF built
  <2>8. Authorize(q) = Asked(kind, built)
      BY <1>2, <2>3 DEF Asked
  <2>9. CASE rule.authorize = {}
    <3>1. e = rule.capture /\ kind = "settle"
        BY <2>9 DEF e
    <3>2. Authorize(q) = Priced("settle", Price(rule.capture, Requested(rule.capture, q), op.rates))
        BY <2>7, <2>8, <3>1
    <3> QED BY <1>1, <2>1, <2>9, <3>2 DEF AskedFor
  <2>10. CASE rule.authorize # {}
    <3>1. e \in rule.authorize /\ kind = "verify"
        BY <2>10 DEF e
    <3>2. Authorize(q) = Priced("verify", Price(e, Requested(e, q), op.rates))
        BY <2>7, <2>8, <3>1
    <3> QED BY <1>1, <2>1, <3>1, <3>2 DEF AskedFor
  <2> QED BY <2>9, <2>10
<1> QED BY <1>4, <1>5

(* And is charged its price for the response that was served.              *)
LEMMA ChargedAsServed ==
    ASSUME Loaded, Complete, NEW key, NamedOnly(request, key),
           Authorize(request).kind # "error"
    PROVE  ChargedFor(Capture)
<1> DEFINE op == Ops[key]
           captured == EvaluateRules(op, "capture", CapturedContext)
           authorized == EvaluateRules(op, "authorize", Context(request))
           pricing == ToPricing(captured.amount)
<1>1. /\ OpOf(request) = {key} /\ RatesFor(request) = {op.rates} /\ key \in DOMAIN Ops
      /\ IsRequest(request)
    BY RuleOfRequest DEF NamedOnly, Complete
<1>2. authorized.res # "error"
    BY <1>1, AuthorizeIs
<1>3. Op = op
    BY <1>1, TheOperation
<1>4. Capture = IF captured.res = "error" THEN Outcome("error", NoAmount)
                ELSE IF authorized.hasAuthorize /\ DOMAIN pricing # {}
                THEN Outcome("settle", pricing) ELSE Outcome("free", NoAmount)
  <2>1. Capture = CASE "error" \in {captured.res, authorized.res} -> Outcome("error", NoAmount)
                    [] /\ "error" \notin {captured.res, authorized.res}
                       /\ authorized.hasAuthorize /\ DOMAIN pricing # {} ->
                          Outcome("settle", pricing)
                    [] OTHER -> Outcome("free", NoAmount)
      BY <1>3 DEF Capture
  <2> HIDE DEF captured, authorized, pricing
  <2> QED BY <1>2, <2>1
<1>5. RequestPart(Context(request)) = Context(request)
    BY <1>1, RequestPartOfContext
<1>6. RequestPart(CapturedContext) = Context(request)
  <2>1. IsDoc(Response) /\ CapturedContext = WithResponse(Context(request), Response)
      BY ResponseIs, CapturedContextIs
  <2> QED BY <1>1, <2>1, RequestPartWithResponse
<1>7. CASE Matching(op, request) = {}
  <2>1. captured = Unmatched /\ authorized = Unmatched
      BY <1>5, <1>6, <1>7, EvaluateRulesIs
  <2>2. Capture.kind = "free"
    <3>1. captured.res # "error" /\ ~authorized.hasAuthorize
        BY <2>1 DEF Unmatched
    <3> HIDE DEF captured, authorized, pricing
    <3> QED BY <1>4, <3>1 DEF Outcome
  <2>3. RuleFor(request) = {}
      BY <1>7, RuleOfRequest
  <2> QED BY <2>2, <2>3 DEF ChargedFor
<1>8. CASE Matching(op, request) # {}
  <2>1. PICK i \in DOMAIN op.rules :
           /\ i = FirstOf(Matching(op, request)) /\ RuleFor(request) = {op.rules[i]}
           /\ IsRule(op.rules[i]) /\ ValidRule(op.rules[i])
      BY <1>8, RuleOfRequest
  <2> DEFINE rule == op.rules[i]
             e == rule.capture
             built == BuildResult(ResolveExpression(e, CapturedContext), op.rates)
  <2>2. captured = Evaluated(rule, e, CapturedContext, op.rates)
      BY <1>6, <1>8, <2>1, EvaluateRulesIs
  <2>3. captured.res = built.res /\ captured.amount = built.amount
      BY <2>2 DEF Evaluated
  <2>4. IsExpression(e)
      BY <2>1 DEF IsRule
  <2>5. /\ DOMAIN op.rates \subseteq Assets
        /\ \A a \in DOMAIN op.rates : op.rates[a] \in Nat
      BY <1>1, RatesOfOperation
  <2>6. CASE rule.authorize # {}
    <3>1. authorized.hasAuthorize
      <4>1. authorized = Evaluated(rule, CHOOSE x \in rule.authorize : TRUE,
                                   Context(request), op.rates)
          BY <1>5, <1>8, <2>1, <2>6, EvaluateRulesIs
      <4> QED BY <2>6, <4>1, EvaluatedIs
    <3>2. /\ Agrees(Served(e), CapturedContext, ExtractPlainRefs(e))
          /\ \A ref \in ExtractPlainRefs(e) : IsNumeral(Scalar(Served(e)[ref]))
        BY <1>1, <2>4, ServedAgrees
    <3>3. Asked("settle", built) = Priced("settle", Price(e, Served(e), op.rates))
      <4> HIDE DEF op, e
      <4> QED BY <2>4, <2>5, <3>2, AskedIsPriced
    <3> HIDE DEF captured, authorized, built
    <3>4. Capture = Asked("settle", built)
        BY <1>4, <2>3, <3>1 DEF Asked
    <3>5. Capture = Priced("settle", Price(rule.capture, Served(rule.capture), op.rates))
        BY <3>3, <3>4
    <3> QED BY <1>1, <2>1, <2>6, <3>5 DEF ChargedFor
  <2>7. CASE rule.authorize = {}
    <3>1. authorized = Evaluated(rule, e, Context(request), op.rates)
        BY <1>5, <1>8, <2>1, <2>7, EvaluateRulesIs
    <3>2. /\ ~authorized.hasAuthorize
          /\ BuildResult(ResolveExpression(e, Context(request)), op.rates).res # "error"
      <4>1. /\ authorized.res = BuildResult(ResolveExpression(e, Context(request)), op.rates).res
            /\ rule.authorize = {} => ~authorized.hasAuthorize
          BY <3>1, EvaluatedIs
      <4> QED BY <1>2, <2>7, <4>1
    <3>3. ~ReadsResponse(e)
        BY <2>1, <2>7 DEF ValidRule
    <3> HIDE DEF captured, authorized
    <3>4. /\ Agrees(Requested(e, request), Context(request), ExtractPlainRefs(e))
          /\ \A ref \in ExtractPlainRefs(e) : IsNumeral(Scalar(Requested(e, request)[ref]))
        BY <1>1, <2>4, RequestedAgrees
    <3>5. Agrees(Requested(e, request), CapturedContext, ExtractPlainRefs(e))
        BY <2>4, <3>3, RequestedAgreesAfter
    <3>6. /\ BuildResult(ResolveExpression(e, Context(request)), op.rates).res = "error"
                <=> Price(e, Requested(e, request), op.rates) = {}
          /\ built.res = "error" <=> Price(e, Requested(e, request), op.rates) = {}
      <4> HIDE DEF op, e
      <4> QED BY <2>4, <2>5, <3>4, <3>5, AskedIsPriced
    <3> HIDE DEF built
    <3>7. Capture.kind = "free"
        BY <1>4, <2>3, <3>2, <3>6 DEF Outcome
    <3> QED BY <2>1, <2>7, <3>7 DEF ChargedFor
  <2> QED BY <2>6, <2>7
<1> QED BY <1>7, <1>8

-----------------------------------------------------------------------------
(* What was answered stays what it was: a second invariant, beside IInv.   *)
Answered ==
    /\ pc \notin {"load", "refused"} => Loaded
    /\ pc \notin {"load", "refused", "idle"} =>
          /\ IsRequest(request)
          /\ pc = "passed" <=> OpOf(request) = {}
          /\ pc # "passed" => /\ auth = Authorize(request)
                              /\ pc = "denied" <=> auth.kind = "error"
    /\ pc \in {"body", "log", "done"} =>
          /\ response \in Responses /\ HeaderFiltered
          /\ BodyFields(Fields) = {} => flat = Absent
    /\ pc = "done" => bill = Capture

(* It depends on the document and the request.                             *)
LEMMA SameAnswers ==
    ASSUME spec' = spec, request' = request
    PROVE  /\ Loaded' = Loaded /\ IsRequest(request)' = IsRequest(request)
           /\ Authorize(request)' = Authorize(request)
           /\ OpOf(request)' = OpOf(request)
           /\ Fields' = Fields /\ IsWebSocket' = IsWebSocket
<1>1. /\ Ops' = Ops /\ Fields' = Fields /\ IsWebSocket' = IsWebSocket
      /\ OpOf(request)' = OpOf(request) /\ Accepted' = Accepted
    BY SameFields
<1>2. Loaded' = Loaded
    BY <1>1 DEF Loaded
<1>3. IsRequest(request)' = IsRequest(request)
    BY DEF IsRequest
<1>4. Authorize(request)' = Authorize(request)
    BY <1>1 DEF Authorize, BodyMissing, Context
<1> QED BY <1>1, <1>2, <1>3, <1>4

(* And on what was captured.                                               *)
LEMMA SameBill ==
    ASSUME spec' = spec, request' = request, head' = head, flat' = flat
    PROVE  Capture' = Capture
<1>1. Op' = Op
    BY SameFields DEF Op
<1>2. CapturedContext' = CapturedContext
    BY DEF CapturedContext, Context
<1> QED BY <1>1, <1>2 DEF Capture, Context

(* Each action keeps Answered: the document is accepted once,              *)
LEMMA LoadSpecAnswers ==
    ASSUME IInv, Answered, LoadSpec
    PROVE  Answered'
<1>1. /\ pc = "load" /\ pc' \in {"idle", "refused"} /\ spec' = spec /\ request' = request
      /\ spec \in Specs
    BY DEF LoadSpec, requestVars, IInv, TypeInv, TypeOK
<1>2. pc' = "idle" => Loaded
    BY <1>1 DEF LoadSpec, Loaded, Accepted
<1>3. Loaded' = Loaded
    BY <1>1, SameAnswers
<1> QED BY <1>1, <1>2, <1>3 DEF Answered

(* the request is answered once,                                           *)
LEMMA HandleRequestAnswers ==
    ASSUME IInv, Answered, HandleRequest
    PROVE  Answered'
<1>1. /\ pc = "idle" /\ spec' = spec /\ pc' \in {"passed", "denied", "upstream"} /\ Loaded
    BY DEF HandleRequest, Answered
<1>2. PICK q \in [url : URLs, method : {"GET", "POST"}, upgrade : BOOLEAN,
                  body : {{}} \cup {{b} : b \in Bodies}] :
         /\ request' = q
         /\ \/ OpOf(q) = {} /\ auth' = NoOutcome /\ pc' = "passed"
            \/ /\ OpOf(q) # {} /\ auth' = Authorize(q)
               /\ pc' = IF auth'.kind = "error" THEN "denied" ELSE "upstream"
    BY DEF HandleRequest
<1>3. IsRequest(q)
    BY <1>2 DEF IsRequest
<1>4. /\ Loaded' /\ IsRequest(request)' /\ OpOf(request)' = OpOf(q)
      /\ Authorize(request)' = Authorize(q)
  <2>1. Ops' = Ops
      BY <1>1 DEF Ops
  <2>2. Loaded'
      BY <1>1, <2>1 DEF Loaded, Accepted
  <2>3. OpOf(request)' = OpOf(q)
      BY <1>1, <1>2, <2>1 DEF OpOf, LocationOf
  <2>4. Authorize(request)' = Authorize(q)
      BY <1>2, <2>1, <2>3 DEF Authorize, BodyMissing, Context
  <2>5. IsRequest(request)'
      BY <1>2, <1>3 DEF IsRequest
  <2> QED BY <2>2, <2>3, <2>4, <2>5
<1>5. /\ pc' = "passed" <=> OpOf(q) = {}
      /\ pc' # "passed" => auth' = Authorize(q) /\ (pc' = "denied" <=> auth'.kind = "error")
    BY <1>2
<1>6. /\ pc' = "passed" <=> OpOf(request)' = {}
      /\ pc' # "passed" => /\ auth' = Authorize(request)'
                           /\ pc' = "denied" <=> auth'.kind = "error"
    BY <1>4, <1>5
<1> QED BY <1>1, <1>4, <1>6 DEF Answered

(* the head is captured when the response starts,                          *)
LEMMA HeaderFilterAnswers ==
    ASSUME IInv, Answered, HeaderFilter
    PROVE  Answered'
<1>1. /\ pc = "upstream" /\ pc' = "body" /\ spec' = spec /\ request' = request
      /\ auth' = auth /\ flat' = flat
    BY DEF HeaderFilter, requestVars, captureVars
<1>2. flat = Absent
    BY <1>1 DEF IInv, Idle
<1>3. PICK r \in Responses :
         /\ response' = r
         /\ head' = IF IsWebSocket
                    THEN PutAt(Absent, <<"status">>, Leaf(Num(200)))
                    ELSE [p \in {p \in DOMAIN r.head :
                                   \/ p = <<"status">>
                                   \/ p[2] \in HeaderNames(Fields)} |-> r.head[p]]
    BY DEF HeaderFilter
<1>4. /\ Loaded' = Loaded /\ IsRequest(request)' = IsRequest(request)
      /\ Authorize(request)' = Authorize(request) /\ OpOf(request)' = OpOf(request)
      /\ Fields' = Fields /\ IsWebSocket' = IsWebSocket
    BY <1>1, SameAnswers
<1>5. response' \in Responses /\ HeaderFiltered'
    BY <1>3, <1>4 DEF HeaderFiltered
<1> QED BY <1>1, <1>2, <1>4, <1>5 DEF Answered

(* the rest of a response leaves all of it as it is,                       *)
LEMMA OthersAnswer ==
    ASSUME IInv, Answered,
           RefuseHandshake \/ BodyFilter \/ RelayFrame \/ EndResponse \/ UNCHANGED vars
    PROVE  Answered'
<1>1. /\ spec' = spec /\ request' = request /\ auth' = auth /\ bill' = bill
      /\ response' = response /\ head' = head
      /\ \/ pc' = pc
         \/ pc = "upstream" /\ pc' = "closed"
         \/ pc = "body" /\ pc' = "log"
      /\ BodyFields(Fields) = {} => flat' = flat
      /\ pc = "done" => flat' = flat
  <2>1. CASE RefuseHandshake
      BY <2>1 DEF RefuseHandshake, requestVars, captureVars
  <2>2. CASE BodyFilter
      BY <2>2 DEF BodyFilter, requestVars
  <2>3. CASE RelayFrame
      BY <2>3 DEF RelayFrame, requestVars
  <2>4. CASE EndResponse
      BY <2>4 DEF EndResponse, requestVars, captureVars
  <2>5. CASE UNCHANGED vars
      BY <2>5 DEF vars
  <2> QED BY <2>1, <2>2, <2>3, <2>4, <2>5
<1>2. /\ Loaded' = Loaded /\ IsRequest(request)' = IsRequest(request)
      /\ Authorize(request)' = Authorize(request) /\ OpOf(request)' = OpOf(request)
      /\ Fields' = Fields /\ IsWebSocket' = IsWebSocket
    BY <1>1, SameAnswers
<1>3. HeaderFiltered' = HeaderFiltered
    BY <1>1, <1>2 DEF HeaderFiltered
<1>4. pc = "done" => Capture' = Capture
    BY <1>1, SameBill
<1>5. /\ pc' \notin {"load", "refused"} => Loaded'
      /\ pc' \notin {"load", "refused", "idle"} =>
            /\ IsRequest(request)'
            /\ pc' = "passed" <=> OpOf(request)' = {}
            /\ pc' # "passed" => /\ auth' = Authorize(request)'
                                 /\ pc' = "denied" <=> auth'.kind = "error"
    BY <1>1, <1>2 DEF Answered
<1>6. pc' \in {"body", "log", "done"} =>
         /\ response' \in Responses /\ HeaderFiltered'
         /\ BodyFields(Fields)' = {} => flat' = Absent
    BY <1>1, <1>2, <1>3 DEF Answered
<1>7. pc' = "done" => bill' = Capture'
    BY <1>1, <1>4 DEF Answered
<1> QED BY <1>5, <1>6, <1>7 DEF Answered

(* and what is billed is the price of what was captured.                   *)
LEMMA HandleResponseAnswers ==
    ASSUME IInv, Answered, HandleResponse
    PROVE  Answered'
<1>1. /\ pc = "log" /\ pc' = "done" /\ spec' = spec /\ request' = request /\ auth' = auth
      /\ response' = response /\ head' = head /\ flat' = flat /\ bill' = Capture
    BY DEF HandleResponse, requestVars, captureVars
<1>2. /\ Loaded' = Loaded /\ IsRequest(request)' = IsRequest(request)
      /\ Authorize(request)' = Authorize(request) /\ OpOf(request)' = OpOf(request)
      /\ Fields' = Fields /\ IsWebSocket' = IsWebSocket
    BY <1>1, SameAnswers
<1>3. HeaderFiltered' = HeaderFiltered
    BY <1>1, <1>2 DEF HeaderFiltered
<1>4. Capture' = Capture
    BY <1>1, SameBill
<1> QED BY <1>1, <1>2, <1>3, <1>4 DEF Answered

(* A response that is over was captured completely, unless a limit was     *)
(* overrun or the rules of the location contradict each other.             *)
LEMMA DoneIsComplete ==
    ASSUME IInv, Answered, pc = "done", ~GaveUp, NoPathConflicts(Fields)
    PROVE  Complete
<1>1. /\ Loaded /\ IsRequest(request) /\ response \in Responses /\ HeaderFiltered
      /\ BodyFields(Fields) = {} => flat = Absent
    BY DEF Answered
<1>2. spec \in Specs /\ Accepted /\ OpOf(request) # {}
    BY DEF IInv, TypeInv, TypeOK
<1>3. Seen \in Nat
  <2>1. response.tokens \in Seq(STRING) /\ pos \in 0..Len(response.tokens)
      BY DEF IInv, TypeInv, TypeOK
  <2>2. pos \in Nat
      BY <2>1
  <2> QED BY <2>2 DEF Seen
<1>4. flat = Captured(response, Seen)
  <2>1. CASE BodyFields(Fields) = {}
    <3>1. Captured(response, Seen) = Absent
        BY <2>1 DEF Captured, CapturedFrom, Absent
    <3> QED BY <1>1, <2>1, <3>1
  <2>2. CASE BodyFields(Fields) # {}
    <3>1. FaithfulFrames \/ FaithfulStream \/ FaithfulBody
        BY <2>2 DEF IInv, Faithful
    <3>2. ~overflow /\ ~buffer.overflow
        BY DEF GaveUp
    <3>3. CASE FaithfulFrames
        BY <3>3 DEF FaithfulFrames, Seen
    <3>4. CASE FaithfulStream
        BY <3>2, <3>4 DEF FaithfulStream, Dropped
    <3>5. CASE FaithfulBody
        BY <3>2, <3>5 DEF FaithfulBody
    <3> QED BY <3>1, <3>3, <3>4, <3>5
  <2> QED BY <2>1, <2>2
<1> QED BY <1>1, <1>2, <1>3, <1>4 DEF Complete

(* generateLocationBlocks(), createPricingEvaluator(), handleRequest(),    *)
(* handleResponse(): for every spec, request and response, what is asked   *)
(* for and what is charged is the price of what was asked for and served,  *)
(* by the first rule that matches in the operation that OpenAPI names.     *)
THEOREM MeteringChargedForWhatWasServed == Spec => []ChargedForWhatWasServed
<1>1. Init => Answered
    BY DEF Init, Answered
<1>2. IInv /\ Answered /\ [Next]_vars => Answered'
  <2> SUFFICES ASSUME IInv, Answered, [Next]_vars PROVE Answered'
      OBVIOUS
  <2>1. CASE LoadSpec
      BY <2>1, LoadSpecAnswers
  <2>2. CASE HandleRequest
      BY <2>2, HandleRequestAnswers
  <2>3. CASE HeaderFilter
      BY <2>3, HeaderFilterAnswers
  <2>4. CASE HandleResponse
      BY <2>4, HandleResponseAnswers
  <2>5. CASE RefuseHandshake \/ BodyFilter \/ RelayFrame \/ EndResponse \/ UNCHANGED vars
      BY <2>5, OthersAnswer
  <2> QED BY <2>1, <2>2, <2>3, <2>4, <2>5 DEF Next
<1>3. IInv /\ Answered => ChargedForWhatWasServed
  <2> SUFFICES ASSUME IInv, Answered,
                      pc \notin {"load", "refused", "idle", "denied"}, ~Warned(request)
               PROVE  /\ Cardinality(Named(request)) <= 1
                      /\ pc = "passed" <=> Named(request) = {}
                      /\ pc # "passed" => AskedFor(request, auth)
                      /\ pc = "done" /\ ~GaveUp /\ NoPathConflicts(Fields) =>
                            ChargedFor(bill)
      BY DEF ChargedForWhatWasServed, AskedFor, ChargedFor
  <2>1. /\ Loaded /\ IsRequest(request)
        /\ pc = "passed" <=> OpOf(request) = {}
        /\ pc # "passed" => auth = Authorize(request) /\ auth.kind # "error"
      BY DEF Answered
  <2>2. OpOf(request) = Named(request) /\ Cardinality(Named(request)) <= 1
      BY <2>1, MeteredAsNamed DEF Loaded, IsRequest
  <2>3. ASSUME pc # "passed"
        PROVE  /\ AskedFor(request, auth)
               /\ pc = "done" /\ ~GaveUp /\ NoPathConflicts(Fields) => ChargedFor(bill)
    <3>1. PICK key \in OpOf(request) : TRUE
        BY <2>1, <2>3
    <3>2. NamedOnly(request, key)
        BY <2>2, TheOperation DEF NamedOnly
    <3>3. AskedFor(request, auth)
        BY <2>1, <2>3, <3>2, AskedAsNamed
    <3>4. ASSUME pc = "done", ~GaveUp, NoPathConflicts(Fields) PROVE ChargedFor(bill)
      <4>1. Complete /\ bill = Capture
          BY <3>4, DoneIsComplete DEF Answered
      <4> QED BY <2>1, <2>3, <3>2, <4>1, ChargedAsServed
    <3> QED BY <3>3, <3>4
  <2> QED BY <2>1, <2>2, <2>3
<1>4. Spec => []IInv
    BY MeteringInvariant
<1> QED BY <1>1, <1>2, <1>3, <1>4, PTL DEF Spec
=============================================================================
