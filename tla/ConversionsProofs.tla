--------------------------- MODULE ConversionsProofs ---------------------------
(***************************************************************************)
(* Proofs about the conversions: whatever harness a session starts in,     *)
(* whatever it writes and however often the session is converted.          *)
(***************************************************************************)
EXTENDS Conversions, FiniteSetTheorems, SequenceTheorems, NaturalsInduction,
        WellFoundedInduction, TLAPS

(***************************************************************************)
(* Lists: sequences of whatever elements.                                  *)
(***************************************************************************)
IsList(s) == s \in Seq(ToSet(s))

\* A sequence over some set is one over its own elements.
LEMMA OwnElements ==
  ASSUME NEW S, NEW s \in Seq(S)
  PROVE  IsList(s) /\ ToSet(s) \subseteq S
<1>1. Len(s) \in Nat /\ s \in [1 .. Len(s) -> S] /\ DOMAIN s = 1 .. Len(s)
  BY LenProperties
<1>2. s \in [1 .. Len(s) -> ToSet(s)]
  BY <1>1 DEF ToSet
<1>3. s \in Seq(ToSet(s))
  BY <1>1, <1>2, SeqDef
<1>4. ToSet(s) \subseteq S
  BY <1>1 DEF ToSet
<1>5. QED
  BY <1>3, <1>4 DEF IsList

LEMMA Lengths ==
  ASSUME NEW s, IsList(s)
  PROVE  /\ Len(s) \in Nat /\ DOMAIN s = 1 .. Len(s)
         /\ s # <<>> => Len(s) > 0 /\ 1 \in DOMAIN s
         /\ \A i \in 1 .. Len(s) : s[i] \in ToSet(s)
<1>1. Len(s) \in Nat /\ DOMAIN s = 1 .. Len(s) /\ (s # <<>> => Len(s) > 0)
  BY LenProperties, EmptySeq DEF IsList
<1>2. QED
  BY <1>1 DEF ToSet

\* An element has a place.
LEMMA Placed ==
  ASSUME NEW s, IsList(s), NEW e \in ToSet(s)
  PROVE  \E i \in 1 .. Len(s) : s[i] = e
BY Lengths DEF ToSet

LEMMA NoneListed == IsList(<<>>) /\ ToSet(<<>>) = {} /\ Len(<<>>) = 0
<1>1. <<>> \in Seq({}) /\ Len(<<>>) = 0
  BY EmptySeq
<1>2. ToSet(<<>>) = {}
  BY DEF ToSet
<1>3. QED
  BY <1>1, <1>2 DEF IsList

LEMMA OneListed ==
  ASSUME NEW e
  PROVE  IsList(<<e>>) /\ ToSet(<<e>>) = {e} /\ Len(<<e>>) = 1 /\ <<e>> # <<>> /\ <<e>>[1] = e
<1>1. <<e>> \in Seq({e}) /\ Len(<<e>>) = 1 /\ <<e>>[1] = e
  OBVIOUS
<1>2. IsList(<<e>>)
  BY <1>1, OwnElements
<1>3. ToSet(<<e>>) = {e}
  BY <1>1, <1>2, OwnElements, Lengths
<1>4. QED
  BY <1>1, <1>2, <1>3

LEMMA Together ==
  ASSUME NEW s, IsList(s), NEW t, IsList(t)
  PROVE  /\ IsList(s \o t) /\ ToSet(s \o t) = ToSet(s) \cup ToSet(t)
         /\ Len(s \o t) = Len(s) + Len(t)
         /\ s # <<>> \/ t # <<>> => s \o t # <<>>
<1> DEFINE S == ToSet(s) \cup ToSet(t)
<1>1. s \in Seq(S) /\ t \in Seq(S)
  BY SeqMonotonic DEF IsList
<1>2. Len(s) \in Nat /\ Len(t) \in Nat
  BY Lengths
<1> HIDE DEF S
<1>3. /\ s \o t \in Seq(S) /\ Len(s \o t) = Len(s) + Len(t)
      /\ \A i \in 1 .. Len(s) + Len(t) :
           (s \o t)[i] = IF i <= Len(s) THEN s[i] ELSE t[i - Len(s)]
  BY <1>1, ConcatProperties
<1>4. IsList(s \o t) /\ ToSet(s \o t) \subseteq S
  BY <1>3, OwnElements
<1>5. ASSUME NEW e \in ToSet(s) PROVE e \in ToSet(s \o t)
  <2>1. PICK i \in 1 .. Len(s) : s[i] = e
    BY <1>5, Placed
  <2>2. i \in 1 .. Len(s) + Len(t) /\ (s \o t)[i] = e
    BY <1>2, <1>3, <2>1
  <2>3. QED
    BY <1>3, <1>4, <2>2, Lengths
<1>6. ASSUME NEW e \in ToSet(t) PROVE e \in ToSet(s \o t)
  <2>1. PICK i \in 1 .. Len(t) : t[i] = e
    BY <1>6, Placed
  <2>2. PICK k \in Nat : k = Len(s) + i
    BY <1>2, <2>1
  <2>3. k \in 1 .. Len(s) + Len(t) /\ ~ (k <= Len(s)) /\ k - Len(s) = i
    BY <1>2, <2>1, <2>2
  <2>4. (s \o t)[k] = e
    BY <1>3, <2>1, <2>3
  <2>5. QED
    BY <1>3, <1>4, <2>3, <2>4, Lengths
<1>7. s # <<>> \/ t # <<>> => s \o t # <<>>
  BY <1>2, <1>3, Lengths, EmptySeq
<1>8. QED
  BY <1>3, <1>4, <1>5, <1>6, <1>7 DEF S

LEMMA Appended ==
  ASSUME NEW s, IsList(s), NEW e
  PROVE  /\ IsList(Append(s, e)) /\ ToSet(Append(s, e)) = ToSet(s) \cup {e}
         /\ Len(Append(s, e)) = Len(s) + 1 /\ Append(s, e) # <<>>
         /\ \A i \in 1 .. Len(s) : Append(s, e)[i] = s[i]
         /\ Append(s, e)[Len(s) + 1] = e
<1> DEFINE S == ToSet(s) \cup {e}
<1>1. s \in Seq(S)
  BY SeqMonotonic DEF IsList
<1>2. e \in S
  OBVIOUS
<1>3. Len(s) \in Nat
  BY Lengths
<1> HIDE DEF S
<1>4. /\ Append(s, e) \in Seq(S) /\ Len(Append(s, e)) = Len(s) + 1
      /\ \A i \in 1 .. Len(s) : Append(s, e)[i] = s[i]
      /\ Append(s, e)[Len(s) + 1] = e
  BY <1>1, <1>2, AppendProperties
<1>5. IsList(Append(s, e)) /\ ToSet(Append(s, e)) \subseteq S
  BY <1>4, OwnElements
<1>6. Append(s, e) # <<>>
  BY <1>3, <1>4, EmptySeq
<1>7. e \in ToSet(Append(s, e))
  <2>1. Len(s) + 1 \in 1 .. Len(Append(s, e))
    BY <1>3, <1>4
  <2>2. \A i \in 1 .. Len(Append(s, e)) : Append(s, e)[i] \in ToSet(Append(s, e))
    BY <1>5, Lengths
  <2>3. QED
    BY <1>4, <2>1, <2>2
<1>8. ASSUME NEW d \in ToSet(s) PROVE d \in ToSet(Append(s, e))
  <2>1. PICK i \in 1 .. Len(s) : s[i] = d
    BY <1>8, Placed
  <2>2. i \in 1 .. Len(Append(s, e)) /\ Append(s, e)[i] = d
    BY <1>3, <1>4, <2>1
  <2>3. QED
    BY <1>5, <2>2, Lengths
<1>9. QED
  BY <1>4, <1>5, <1>6, <1>7, <1>8 DEF S

\* A function on the numbers from 1 to n is a list.
LEMMA Tabled ==
  ASSUME NEW n \in Nat, NEW f, f = [i \in 1 .. n |-> f[i]]
  PROVE  IsList(f) /\ Len(f) = n /\ ToSet(f) = {f[i] : i \in 1 .. n}
<1>1. f \in [1 .. n -> {f[i] : i \in 1 .. n}]
  BY Zenon
<1>2. f \in Seq({f[i] : i \in 1 .. n})
  BY <1>1, SeqDef
<1>3. DOMAIN f = 1 .. n
  BY <1>1
<1>4. Len(f) = n
  <2>1. DOMAIN f = 1 .. Len(f) /\ Len(f) \in Nat
    BY <1>2, LenProperties
  <2>2. QED
    BY <1>3, <2>1
<1>5. QED
  BY <1>2, <1>3, <1>4, OwnElements DEF ToSet

\* Tail and the first element of a list make it up.
LEMMA Tailed ==
  ASSUME NEW s, IsList(s), s # <<>>
  PROVE  /\ IsList(Tail(s)) /\ ToSet(Tail(s)) \subseteq ToSet(s) /\ Len(Tail(s)) = Len(s) - 1
<1>1. Tail(s) \in Seq(ToSet(s)) /\ Len(Tail(s)) = Len(s) - 1
  BY HeadTailProperties DEF IsList
<1>2. QED
  BY <1>1, OwnElements

(***************************************************************************)
(* Induction over numbers.                                                 *)
(***************************************************************************)
LEMMA LeastNumber ==
  ASSUME NEW T, T \subseteq Nat, T # {}
  PROVE  \E m \in T : \A k \in T : m <= k
<1> DEFINE R == OpToRel(<, Nat)
<1>1. IsWellFoundedOn(R, Nat)
  BY NatLessThanWellFounded
<1>2. \A x, y \in Nat : x < y => <<x, y>> \in R
  BY DEF OpToRel
<1> HIDE DEF R
<1>3. PICK x \in T : \A y \in T : ~ (<<y, x>> \in R)
  BY <1>1, WFMin
<1>4. ASSUME NEW k \in T, ~ (x <= k) PROVE FALSE
  <2>1. k \in Nat /\ x \in Nat /\ k < x
    BY <1>4
  <2>2. QED
    BY <1>2, <1>3, <2>1
<1>5. QED
  BY <1>4

\* A set of numbers with 0 in it, and with each number the next up to n, has
\* all of them up to n.
LEMMA AllNumbers ==
  ASSUME NEW T, NEW n \in Nat, 0 \in T, \A k \in 1 .. n : k - 1 \in T => k \in T
  PROVE  \A k \in 0 .. n : k \in T
<1> DEFINE Off == {k \in 0 .. n : k \notin T}
<1>1. SUFFICES ASSUME Off # {} PROVE FALSE
  OBVIOUS
<1>2. Off \subseteq Nat /\ \A k \in Off : k \in 0 .. n /\ k \notin T
  OBVIOUS
<1>3. \A k \in 0 .. n : k \notin Off => k \in T
  OBVIOUS
<1> HIDE DEF Off
<1>4. PICK m \in Off : \A k \in Off : m <= k
  BY <1>1, <1>2, LeastNumber
<1>5. m \in 1 .. n
  BY <1>2, <1>4
<1>6. m - 1 \in 0 .. n /\ ~ (m <= m - 1)
  BY <1>5
<1>7. m - 1 \in T
  BY <1>3, <1>4, <1>6
<1>8. QED
  BY <1>2, <1>4, <1>5, <1>7

(***************************************************************************)
(* The recursive functions of the model.  Each goes through the numbers    *)
(* from 0 up and takes a step at each of them; x says which function it is *)
(* and of what.  That such a function exists is shown once for them all.   *)
(***************************************************************************)
Step(x, p, i) ==
  CASE x[1] = "kept" -> IF i \in x[3] THEN Append(p, x[2][i]) ELSE p
    [] x[1] = "flatten" -> IF i = 1 THEN x[2][i] ELSE p \o x[2][i]
    [] x[1] = "codex" -> OnLine(p, x[2][i])
    [] x[1] = "claude" -> ClaudeOnRecord(p, x[2][i])
    [] x[1] = "simple blocks" -> BlockToCommon(p, x[2][i], x[3], i)
    [] x[1] = "simple" -> EntryToCommon(p, x[2][i], i)
    [] x[1] = "opencode parts" -> OnPart(p, x[2][i])
    [] x[1] = "opencode assistant" -> AssistantPart(x[2], p, x[3][i])
    [] x[1] = "opencode" -> OpenCodeOnMessage(x[2], p, i)
    [] x[1] = "fx" -> FxOnMessage(p, x[2][i], i = Len(x[2]))
    [] x[1] = "grok_bot blocks" ->
         IF x[2].content[i].kind \in GrokBotKinds(x[2].role)
         THEN ProjectBlock(p, x[2].content[i], x[3], i) ELSE p
    [] x[1] = "grok_bot" -> GrokBotOnRecord(p, x[2][i], i)
    [] x[1] = "grok_bot written" -> GrokBotOnMessage(p, x[2][i])
    [] x[1] = "cursor" -> p \o BlobMessage(x[2][i], Len(p))
    [] x[1] = "cursor turns" -> CursorOnMessage(p, x[2][i], x[3], x[4])
    [] x[1] = "cursor_desktop" -> OnBubble(p, x[2][i])
    [] x[1] = "cursor_desktop results" -> AttachResult(p, x[2][i])
    [] x[1] = "cursor_desktop written" -> CursorDesktopOnMessage(p, x[2][i])
    [] x[1] = "chatgpt up" -> ChatGptParentOf(x[2], p)
    [] x[1] = "chatgpt" -> OnNode(x[2], p, x[3][i])
    [] x[1] = "claude_chat up" -> ClaudeChatParentOf(x[2], p)
    [] x[1] = "claude_chat role" -> AppendRoleBlock(p, x[2], x[3][i])
    [] x[1] = "claude_chat blocks" -> PushBlock(p, x[2], i)
    [] x[1] = "claude_chat" -> PushNativeMessage(p, x[2][i])

Running(x, start, n, f) == [i \in 0 .. n |-> IF i = 0 THEN start ELSE Step(x, f[i - 1], i)]

LEMMA RunExists ==
  ASSUME NEW x, NEW start, NEW n \in Nat
  PROVE  \E f : f = Running(x, start, n, f)
<1> DEFINE Next1(f, i) == IF i = 0 THEN start ELSE Step(x, f[i - 1], i)
           Runs(k) == \E f : f = [i \in 0 .. k |-> Next1(f, i)]
           T == {k \in 0 .. n : Runs(k)}
<1>1. 0 \in T
  <2> DEFINE g == [i \in 0 .. 0 |-> start]
  <2>1. g = [i \in 0 .. 0 |-> Next1(g, i)]
    OBVIOUS
  <2> HIDE DEF g
  <2>2. Runs(0)
    BY <2>1
  <2> HIDE DEF Runs
  <2>3. QED
    BY <2>2
<1>2. ASSUME NEW k \in 1 .. n, k - 1 \in T PROVE k \in T
  <2>1. PICK h : h = [i \in 0 .. k - 1 |-> Next1(h, i)]
    BY <1>2
  <2> DEFINE g == [i \in 0 .. k |-> IF i = k THEN Next1(h, k) ELSE h[i]]
  <2>2. ASSUME NEW i \in 0 .. k PROVE g[i] = Next1(g, i)
    <3>1. i # 0 => g[i - 1] = h[i - 1]
      OBVIOUS
    <3>2. Next1(g, i) = Next1(h, i)
      BY <3>1
    <3>3. i # k => h[i] = Next1(h, i)
      <4>1. i # k => i \in 0 .. k - 1
        OBVIOUS
      <4>2. \A j \in 0 .. k - 1 : h[j] = Next1(h, j)
        BY <2>1
      <4>3. QED
        BY <4>1, <4>2
    <3>4. QED
      BY <3>2, <3>3
  <2>3. g = [i \in 0 .. k |-> Next1(g, i)]
    BY <2>2
  <2>4. Runs(k)
    BY <2>3
  <2>5. QED
    BY <2>4
<1> HIDE DEF T
<1>3. \A k \in 0 .. n : k \in T
  BY <1>1, <1>2, AllNumbers
<1>4. Runs(n)
  BY <1>3 DEF T
<1>5. QED
  BY <1>4 DEF Running

RunOf(x, start, n, f) ==
  f[0] = start /\ \A i \in 1 .. n : f[i] = Step(x, f[i - 1], i)

LEMMA Started ==
  ASSUME NEW x, NEW start, NEW n \in Nat, NEW f, f = Running(x, start, n, f)
  PROVE  RunOf(x, start, n, f)
<1>1. 0 \in 0 .. n /\ \A i \in 1 .. n : i \in 0 .. n /\ i # 0
  OBVIOUS
<1>2. \A i \in 0 .. n : f[i] = IF i = 0 THEN start ELSE Step(x, f[i - 1], i)
  BY DEF Running
<1>3. QED
  BY <1>1, <1>2 DEF RunOf

\* What Kept keeps: the elements at those places, and no other; of a list of
\* rising numbers, a list of rising numbers.
LEMMA KeptRuns ==
  ASSUME NEW s, IsList(s), NEW at
  PROVE  \E f : /\ f[0] = <<>>
                /\ \A i \in 1 .. Len(s) : f[i] = IF i \in at THEN Append(f[i - 1], s[i]) ELSE f[i - 1]
                /\ Kept(s, at) = f[Len(s)]
<1> DEFINE n == Len(s)
           F(f) == [i \in 0 .. n |-> IF i = 0 THEN <<>>
                                     ELSE IF i \in at THEN Append(f[i - 1], s[i]) ELSE f[i - 1]]
           upTo == CHOOSE f : f = F(f)
<1>1. \E f : f = F(f)
  <2>1. PICK f : f = Running(<<"kept", s, at>>, <<>>, n, f)
    BY RunExists, Lengths
  <2>2. f = F(f)
    BY <2>1 DEF Running, Step
  <2>3. QED
    BY <2>2
<1>2. upTo = F(upTo)
  BY <1>1
<1>3. Kept(s, at) = upTo[n]
  BY DEF Kept
<1> HIDE DEF upTo, n
<1>4. upTo[0] = <<>> /\ \A i \in 1 .. n : upTo[i] = IF i \in at THEN Append(upTo[i - 1], s[i]) ELSE upTo[i - 1]
  <2>1. n \in Nat
    BY Lengths DEF n
  <2>2. 0 \in 0 .. n /\ \A i \in 1 .. n : i \in 0 .. n /\ i # 0
    BY <2>1
  <2>3. QED
    BY <1>2, <2>2
<1>5. QED
  BY <1>3, <1>4 DEF n

LEMMA KeptElements ==
  ASSUME NEW s, IsList(s), NEW at
  PROVE  /\ IsList(Kept(s, at))
         /\ \A e \in ToSet(Kept(s, at)) : \E i \in 1 .. Len(s) : i \in at /\ s[i] = e
<1> DEFINE n == Len(s)
           From(e) == \E i \in 1 .. Len(s) : i \in at /\ s[i] = e
<1>1. PICK f : /\ f[0] = <<>>
               /\ \A i \in 1 .. n : f[i] = IF i \in at THEN Append(f[i - 1], s[i]) ELSE f[i - 1]
               /\ Kept(s, at) = f[n]
  BY KeptRuns
<1> DEFINE Good(p) == IsList(p) /\ \A e \in ToSet(p) : From(e)
           T == {i \in 0 .. n : Good(f[i])}
<1>2. n \in Nat
  BY Lengths
<1>3. 0 \in T
  BY <1>1, <1>2, NoneListed
<1>4. ASSUME NEW i \in 1 .. n, i - 1 \in T PROVE i \in T
  <2>1. Good(f[i - 1])
    BY <1>4
  <2>2. CASE i \in at
    <3>1. f[i] = Append(f[i - 1], s[i])
      BY <1>1, <2>2
    <3>2. IsList(f[i]) /\ ToSet(f[i]) = ToSet(f[i - 1]) \cup {s[i]}
      BY <2>1, <3>1, Appended
    <3>3. From(s[i])
      BY <2>2
    <3>4. Good(f[i])
      BY <2>1, <3>2, <3>3
    <3>5. QED
      BY <1>2, <3>4
  <2>3. CASE i \notin at
    <3>1. f[i] = f[i - 1]
      BY <1>1, <2>3
    <3>2. QED
      BY <1>2, <2>1, <3>1
  <2>4. QED
    BY <2>2, <2>3
<1> HIDE DEF T, n, Good
<1>5. n \in T
  BY <1>2, <1>3, <1>4, AllNumbers
<1>6. Good(f[n])
  BY <1>5 DEF T
<1>7. QED
  BY <1>1, <1>6 DEF Good

LEMMA FlattenRuns ==
  ASSUME NEW ss, IsList(ss), ss # <<>>
  PROVE  \E f : /\ f[1] = ss[1]
                /\ \A i \in 2 .. Len(ss) : f[i] = f[i - 1] \o ss[i]
                /\ FlattenSeq(ss) = f[Len(ss)]
<1> DEFINE n == Len(ss)
           F(f) == [i \in 1 .. n |-> IF i = 1 THEN ss[i] ELSE f[i - 1] \o ss[i]]
           flatten == CHOOSE f : f = F(f)
<1>1. n \in Nat /\ n > 0
  BY Lengths
<1>2. \E f : f = F(f)
  <2>1. PICK f : f = Running(<<"flatten", ss>>, <<>>, n, f)
    BY <1>1, RunExists
  <2> DEFINE g == [i \in 1 .. n |-> f[i]]
  <2>2. ASSUME NEW i \in 1 .. n PROVE g[i] = IF i = 1 THEN ss[i] ELSE g[i - 1] \o ss[i]
    <3>1. f[i] = IF i = 1 THEN ss[i] ELSE f[i - 1] \o ss[i]
      BY <1>1, <2>1 DEF Running, Step
    <3>2. i # 1 => g[i - 1] = f[i - 1]
      BY <1>1
    <3>3. QED
      BY <3>1, <3>2
  <2>3. g = F(g)
    BY <2>2
  <2>4. QED
    BY <2>3
<1>3. flatten = F(flatten)
  BY <1>2
<1>4. FlattenSeq(ss) = flatten[n]
  BY <1>1 DEF FlattenSeq
<1> HIDE DEF flatten, n
<1>5. flatten[1] = ss[1] /\ \A i \in 2 .. n : flatten[i] = flatten[i - 1] \o ss[i]
  <2>1. 1 \in 1 .. n /\ \A i \in 2 .. n : i \in 1 .. n /\ i # 1
    BY <1>1
  <2>2. QED
    BY <1>3, <2>1
<1>6. QED
  BY <1>4, <1>5 DEF n

\* What is flattened has the elements of the parts.
LEMMA FlattenedElements ==
  ASSUME NEW ss, IsList(ss), \A s \in ToSet(ss) : IsList(s)
  PROVE  /\ IsList(FlattenSeq(ss))
         /\ \A e \in ToSet(FlattenSeq(ss)) : \E s \in ToSet(ss) : e \in ToSet(s)
<1> DEFINE n == Len(ss)
           From(e) == \E s \in ToSet(ss) : e \in ToSet(s)
           Good(p) == IsList(p) /\ \A e \in ToSet(p) : From(e)
<1>1. n \in Nat /\ \A i \in 1 .. n : ss[i] \in ToSet(ss)
  BY Lengths
<1>2. CASE ss = <<>>
  <2>1. FlattenSeq(ss) = <<>>
    BY <1>2, NoneListed DEF FlattenSeq
  <2>2. QED
    BY <2>1, NoneListed
<1>3. CASE ss # <<>>
  <2>1. PICK f : /\ f[1] = ss[1]
                 /\ \A i \in 2 .. n : f[i] = f[i - 1] \o ss[i]
                 /\ FlattenSeq(ss) = f[n]
    BY <1>3, FlattenRuns
  <2> DEFINE T == {i \in 0 .. n : i = 0 \/ Good(f[i])}
  <2>2. ASSUME NEW i \in 1 .. n PROVE Good(ss[i])
    BY <1>1
  <2>3. ASSUME NEW i \in 1 .. n, i - 1 \in T PROVE i \in T
    <3>1. CASE i = 1
      <4>1. Good(f[i])
        BY <2>1, <2>2, <3>1
      <4>2. QED
        BY <1>1, <4>1
    <3>2. CASE i # 1
      <4>1. f[i] = f[i - 1] \o ss[i]
        <5>1. i \in 2 .. n
          BY <1>1, <3>2
        <5>2. QED
          BY <2>1, <5>1
      <4>2. Good(f[i - 1])
        BY <2>3, <3>2
      <4>3. IsList(f[i]) /\ ToSet(f[i]) = ToSet(f[i - 1]) \cup ToSet(ss[i])
        BY <2>2, <4>1, <4>2, Together
      <4>4. Good(f[i])
        BY <2>2, <4>2, <4>3
      <4>5. QED
        BY <1>1, <4>4
    <3>3. QED
      BY <3>1, <3>2
  <2>4. 0 \in T
    BY <1>1
  <2>5. n \in Nat /\ n # 0
    BY <1>3, Lengths
  <2> HIDE DEF T, n, Good
  <2>6. n \in T
    BY <2>3, <2>4, <2>5, AllNumbers
  <2>7. Good(f[n])
    BY <2>5, <2>6 DEF T
  <2>8. QED
    BY <2>1, <2>7 DEF Good
<1>4. QED
  BY <1>2, <1>3

(***************************************************************************)
(* What TypeOK says of a conversation, message by message.                 *)
(***************************************************************************)
BlockOK(role, b) ==
  /\ b.kind \in Blocks(role)
  /\ role = "user" /\ b.kind = "use" => b.tool = Release
  /\ b.kind = "artifact" => "kind" \in DOMAIN b
ContentOK(role, content) == IsList(content) /\ \A b \in ToSet(content) : BlockOK(role, b)
MessageOK(msg) ==
  /\ msg.role \in {"user", "assistant"}
  /\ ContentOK(msg.role, msg.content) /\ msg.content # <<>>
BodyOK(body) == IsList(body) /\ \A msg \in ToSet(body) : MessageOK(msg)

LEMMA NoMessages == BodyOK(<<>>)
BY NoneListed DEF BodyOK

LEMMA OneMessage ==
  ASSUME NEW msg, MessageOK(msg)
  PROVE  BodyOK(<<msg>>)
BY OneListed DEF BodyOK

LEMMA MoreMessages ==
  ASSUME NEW body, BodyOK(body), NEW more, BodyOK(more)
  PROVE  BodyOK(body \o more)
BY Together DEF BodyOK

LEMMA OneMoreMessage ==
  ASSUME NEW body, BodyOK(body), NEW msg, MessageOK(msg)
  PROVE  BodyOK(Append(body, msg))
BY Appended DEF BodyOK

LEMMA FlattenedMessages ==
  ASSUME NEW n \in Nat, NEW bodies, bodies = [i \in 1 .. n |-> bodies[i]],
         \A i \in 1 .. n : BodyOK(bodies[i])
  PROVE  BodyOK(FlattenSeq(bodies))
<1>1. IsList(bodies) /\ ToSet(bodies) = {bodies[i] : i \in 1 .. n}
  BY Tabled
<1>2. \A s \in ToSet(bodies) : BodyOK(s)
  BY <1>1
<1>3. \A s \in ToSet(bodies) : IsList(s)
  BY <1>2 DEF BodyOK
<1>4. /\ IsList(FlattenSeq(bodies))
      /\ \A e \in ToSet(FlattenSeq(bodies)) : \E s \in ToSet(bodies) : e \in ToSet(s)
  BY <1>1, <1>3, FlattenedElements
<1>5. QED
  BY <1>2, <1>4 DEF BodyOK

\* A message of one block.
LEMMA OneBlock ==
  ASSUME NEW role \in {"user", "assistant"}, NEW b, BlockOK(role, b)
  PROVE  MessageOK([role |-> role, content |-> <<b>>])
<1>1. IsList(<<b>>) /\ ToSet(<<b>>) = {b} /\ <<b>> # <<>>
  BY OneListed
<1>2. ContentOK(role, <<b>>)
  BY <1>1 DEF ContentOK
<1>3. QED
  BY <1>1, <1>2 DEF MessageOK

\* A message is shown if it has content.
LEMMA ShownIfAny ==
  ASSUME NEW role \in {"user", "assistant"}, NEW content, ContentOK(role, content)
  PROVE  BodyOK(IF content = <<>> THEN <<>> ELSE <<[role |-> role, content |-> content]>>)
<1>1. CASE content = <<>>
  BY <1>1, NoMessages
<1>2. CASE content # <<>>
  <2>1. MessageOK([role |-> role, content |-> content])
    BY <1>2 DEF MessageOK
  <2>2. QED
    BY <1>2, <2>1, OneMessage
<1>3. QED
  BY <1>1, <1>2

LEMMA TwoMessages ==
  ASSUME NEW first, MessageOK(first), NEW second, MessageOK(second)
  PROVE  BodyOK(<<first, second>>)
<1>1. <<first, second>> = Append(<<first>>, second)
  OBVIOUS
<1>2. QED
  BY <1>1, OneMessage, OneMoreMessage

(***************************************************************************)
(* What a harness's log is like, whoever wrote it: line by line the lists  *)
(* and the blocks to_common relies on.                                     *)
(***************************************************************************)
OnlyKinds(content, kinds) == IsList(content) /\ \A b \in ToSet(content) : b.kind \in kinds

PiLineOK(l) ==
  \/ l.type = "message" /\ l.role \in {"user", "assistant"}
  \/ l.type = "custom_message"
  => IsList(l.content)
CodexLineOK(l) ==
  /\ l.type = "message" => IsList(l.content)
  /\ l.type \in {"web_search_call", "web_search_end"} => l.action \in {"a", "b"}
ClaudeLineOK(l) ==
  /\ l.type \in {"user", "assistant"} /\ l.envelope = "none" =>
       IsList(l.content) /\ \A b \in ToSet(l.content) : BlockOK(l.type, ParseBlock(b))
  /\ l.type \in {"user", "system"} => l.envelope \in {"none", "command", "stdout", "caveat"}
SimpleLineOK(l) ==
  l.type = "message" /\ l.role \in {"user", "assistant"} =>
    ContentOK(l.role, l.content) /\ l.content # <<>>
HermesLineOK(l) ==
  l.type = "row" =>
    /\ "active" \in DOMAIN l
    /\ l.active => /\ l.role \in {"user", "assistant"} => OnlyKinds(l.content, {"text", "image"})
                   /\ l.role = "assistant" => IsList(l.calls)
OpenCodeLineOK(l) ==
  l.type = "message" => IsList(l.parts) /\ l = OpenCodeRecord(l.role, l.parts)
AmpLineOK(l) == l.type = "message" => IsList(l.content)
FxLineOK(l) ==
  l.type = "turn" =>
    /\ OnlyKinds(l.images, {"image"})
    /\ l.kind = "interrupted" => IsList(l.call)
    /\ l.kind # "interrupted" =>
         /\ IsList(l.steps)
         /\ \A step \in ToSet(l.steps) : IsList(step.calls) /\ OnlyKinds(step.results, {"result"})
GrokLineOK(l) == l.type = "assistant" => IsList(l.calls)
GrokBotLineOK(l) ==
  IsList(l.content) /\ (l.role = "user" => \A b \in ToSet(l.content) : b.kind # "use")
AntigravityLineOK(l) ==
  /\ l.type = "user_input" => IsList(l.images)
  /\ l.type = "planner" => IsList(l.calls)
CursorLineOK(l) == l.type = "json" => IsList(l.content)
ChatGptLineOK(l) == l.type = "node" /\ l.reasoning => l.role = "assistant"
FilesOK(b) == IsList(b.files) /\ \A f \in ToSet(b.files) : BlockOK("assistant", f)
ClaudeChatLineOK(l) ==
  l.type = "message" =>
    /\ OnlyKinds(l.images, {"image"}) /\ IsList(l.content)
    /\ \A b \in ToSet(l.content) : b.kind = "result" => FilesOK(b)

LineOK(h, l) ==
  CASE h = "pi" -> PiLineOK(l)
    [] h = "codex" -> CodexLineOK(l)
    [] h = "claude" -> ClaudeLineOK(l)
    [] h = "simple" -> SimpleLineOK(l)
    [] h = "hermes" -> HermesLineOK(l)
    [] h = "opencode" -> OpenCodeLineOK(l)
    [] h = "amp" -> AmpLineOK(l)
    [] h = "fx" -> FxLineOK(l)
    [] h = "grok" -> GrokLineOK(l)
    [] h = "grok_bot" -> GrokBotLineOK(l)
    [] h = "antigravity" -> AntigravityLineOK(l)
    [] h = "cursor" -> CursorLineOK(l)
    [] h = "chatgpt" -> ChatGptLineOK(l)
    [] h = "claude_chat" -> ClaudeChatLineOK(l)
    [] OTHER -> TRUE

LEMMA LinesAre ==
  ASSUME NEW l
  PROVE  /\ LineOK("pi", l) <=> PiLineOK(l)
         /\ LineOK("codex", l) <=> CodexLineOK(l)
         /\ LineOK("claude", l) <=> ClaudeLineOK(l)
         /\ LineOK("simple", l) <=> SimpleLineOK(l)
         /\ LineOK("hermes", l) <=> HermesLineOK(l)
         /\ LineOK("opencode", l) <=> OpenCodeLineOK(l)
         /\ LineOK("amp", l) <=> AmpLineOK(l)
         /\ LineOK("fx", l) <=> FxLineOK(l)
         /\ LineOK("grok", l) <=> GrokLineOK(l)
         /\ LineOK("grok_bot", l) <=> GrokBotLineOK(l)
         /\ LineOK("antigravity", l) <=> AntigravityLineOK(l)
         /\ LineOK("cursor", l) <=> CursorLineOK(l)
         /\ LineOK("chatgpt", l) <=> ChatGptLineOK(l)
         /\ LineOK("claude_chat", l) <=> ClaudeChatLineOK(l)
         /\ LineOK("cursor_desktop", l)
BY DEF LineOK

LogOK(h, lines) == IsList(lines) /\ \A l \in ToSet(lines) : LineOK(h, l)

LEMMA OneLine ==
  ASSUME NEW h, NEW l, LineOK(h, l)
  PROVE  LogOK(h, <<l>>)
BY OneListed DEF LogOK

LEMMA NoLines == ASSUME NEW h PROVE LogOK(h, <<>>)
BY NoneListed DEF LogOK

LEMMA MoreLines ==
  ASSUME NEW h, NEW lines, LogOK(h, lines), NEW more, LogOK(h, more)
  PROVE  LogOK(h, lines \o more)
BY Together DEF LogOK

LEMMA OneMoreLine ==
  ASSUME NEW h, NEW lines, LogOK(h, lines), NEW l, LineOK(h, l)
  PROVE  LogOK(h, Append(lines, l))
BY Appended DEF LogOK

LEMMA FlattenedLines ==
  ASSUME NEW h, NEW n \in Nat, NEW parts, parts = [i \in 1 .. n |-> parts[i]],
         \A i \in 1 .. n : LogOK(h, parts[i])
  PROVE  LogOK(h, FlattenSeq(parts))
<1>1. IsList(parts) /\ ToSet(parts) = {parts[i] : i \in 1 .. n}
  BY Tabled
<1>2. \A s \in ToSet(parts) : LogOK(h, s)
  BY <1>1
<1>3. \A s \in ToSet(parts) : IsList(s)
  BY <1>2 DEF LogOK
<1>4. /\ IsList(FlattenSeq(parts))
      /\ \A e \in ToSet(FlattenSeq(parts)) : \E s \in ToSet(parts) : e \in ToSet(s)
  BY <1>1, <1>3, FlattenedElements
<1>5. QED
  BY <1>2, <1>4 DEF LogOK

\* One line is put in another's place.
Put(s, i, e) == [s EXCEPT ![i] = e]

LEMMA PutIn ==
  ASSUME NEW s, IsList(s), NEW i, i \in 1 .. Len(s), NEW e
  PROVE  /\ IsList(Put(s, i, e)) /\ ToSet(Put(s, i, e)) \subseteq ToSet(s) \cup {e}
         /\ Len(Put(s, i, e)) = Len(s)
         /\ \A k \in 1 .. Len(s) : Put(s, i, e)[k] = IF k = i THEN e ELSE s[k]
<1> DEFINE r == Put(s, i, e)
<1>1. Len(s) \in Nat /\ DOMAIN s = 1 .. Len(s) /\ \A k \in 1 .. Len(s) : s[k] \in ToSet(s)
  BY Lengths
<1>2. PICK g : g = [k \in 1 .. Len(s) |-> IF k = i THEN e ELSE s[k]]
  OBVIOUS
<1>3. /\ IsList(r) /\ Len(r) = Len(s)
      /\ \A x \in ToSet(r) : \E k \in 1 .. Len(s) : x = r[k]
      /\ \A k \in 1 .. Len(s) : r[k] = IF k = i THEN e ELSE s[k]
  <2>1. g = [k \in 1 .. Len(s) |-> g[k]] /\ \A k \in 1 .. Len(s) : g[k] = IF k = i THEN e ELSE s[k]
    BY <1>2
  <2>2. IsList(g) /\ Len(g) = Len(s) /\ ToSet(g) = {g[k] : k \in 1 .. Len(s)}
    BY <1>1, <2>1, Tabled
  <2>3. \A x \in ToSet(g) : \E k \in 1 .. Len(s) : x = g[k]
    BY <2>2
  <2>4. r = g
    BY <1>1, <1>2 DEF Put
  <2>5. QED
    BY <2>1, <2>2, <2>3, <2>4, Zenon
<1> HIDE DEF r
<1>4. \A k \in 1 .. Len(s) : r[k] \in ToSet(s) \cup {e}
  BY <1>1, <1>3
<1>5. ToSet(r) \subseteq ToSet(s) \cup {e}
  <2>1. SUFFICES ASSUME NEW x \in ToSet(r)
                 PROVE  x \in ToSet(s) \cup {e}
    OBVIOUS
  <2>2. PICK k \in 1 .. Len(s) : x = r[k]
    BY <1>3
  <2>3. QED
    BY <1>4, <2>2
<1>6. QED
  BY <1>3, <1>5 DEF r

LEMMA Replaced ==
  ASSUME NEW s, IsList(s), NEW i \in 1 .. Len(s), NEW e, NEW r, r = [s EXCEPT ![i] = e]
  PROVE  /\ IsList(r) /\ ToSet(r) \subseteq ToSet(s) \cup {e} /\ Len(r) = Len(s)
         /\ \A k \in 1 .. Len(s) : r[k] = IF k = i THEN e ELSE s[k]
<1>1. r = Put(s, i, e)
  BY DEF Put
<1>2. /\ IsList(Put(s, i, e)) /\ ToSet(Put(s, i, e)) \subseteq ToSet(s) \cup {e}
      /\ Len(Put(s, i, e)) = Len(s)
      /\ \A k \in 1 .. Len(s) : Put(s, i, e)[k] = IF k = i THEN e ELSE s[k]
  BY PutIn
<1>3. QED
  BY <1>1, <1>2, Zenon

LEMMA ReplacedLine ==
  ASSUME NEW h, NEW lines, LogOK(h, lines), NEW i \in 1 .. Len(lines), NEW l, LineOK(h, l),
         NEW grown, grown = [lines EXCEPT ![i] = l]
  PROVE  LogOK(h, grown)
<1>1. IsList(lines) /\ \A e \in ToSet(lines) : LineOK(h, e)
  BY DEF LogOK
<1>2. IsList(grown) /\ ToSet(grown) \subseteq ToSet(lines) \cup {l}
  <2>1. grown = Put(lines, i, l)
    BY DEF Put
  <2>2. IsList(Put(lines, i, l)) /\ ToSet(Put(lines, i, l)) \subseteq ToSet(lines) \cup {l}
    BY <1>1, PutIn
  <2>3. QED
    BY <2>1, <2>2, Zenon
<1>3. QED
  BY <1>1, <1>2 DEF LogOK

\* The blocks of some kinds.
LEMMA OfKindElements ==
  ASSUME NEW content, IsList(content), NEW kinds
  PROVE  /\ OnlyKinds(OfKind(content, kinds), kinds)
         /\ ToSet(OfKind(content, kinds)) \subseteq ToSet(content)
<1> DEFINE at == {i \in DOMAIN content : content[i].kind \in kinds}
<1>1. OfKind(content, kinds) = Kept(content, at)
  BY DEF OfKind, Where
<1>2. /\ IsList(Kept(content, at))
      /\ \A e \in ToSet(Kept(content, at)) : \E i \in 1 .. Len(content) : i \in at /\ content[i] = e
  BY KeptElements
<1>3. \A i \in 1 .. Len(content) : content[i] \in ToSet(content)
  BY Lengths
<1>4. QED
  BY <1>1, <1>2, <1>3 DEF OnlyKinds

\* What is done to each element of a list gives a list.
LEMMA EachElements ==
  ASSUME NEW s, IsList(s), NEW f, f = [i \in DOMAIN s |-> f[i]]
  PROVE  /\ IsList(f) /\ Len(f) = Len(s) /\ DOMAIN f = 1 .. Len(s)
         /\ \A e \in ToSet(f) : \E i \in 1 .. Len(s) : e = f[i]
<1>1. DOMAIN s = 1 .. Len(s) /\ Len(s) \in Nat
  BY Lengths
<1>2. f = [i \in 1 .. Len(s) |-> f[i]]
  BY <1>1, Zenon
<1>3. IsList(f) /\ Len(f) = Len(s) /\ ToSet(f) = {f[i] : i \in 1 .. Len(s)}
  BY <1>1, <1>2, Tabled
<1>4. QED
  BY <1>1, <1>2, <1>3

\* What is kept of a list is of its elements.
LEMMA KeptSome ==
  ASSUME NEW s, IsList(s), NEW at
  PROVE  IsList(Kept(s, at)) /\ ToSet(Kept(s, at)) \subseteq ToSet(s)
<1>1. \A i \in 1 .. Len(s) : s[i] \in ToSet(s)
  BY Lengths
<1>2. QED
  BY <1>1, KeptElements

\* What is shown of a list of lines, turn by turn.
LEMMA OneOrNone ==
  ASSUME NEW role \in {"user", "assistant"}, NEW content, ContentOK(role, content)
  PROVE  BodyOK(IfSome(content, <<[role |-> role, content |-> content]>>))
BY ShownIfAny DEF IfSome

\* What a stop leaves as it is: every field but its own.
LEMMA StopLeaves ==
  ASSUME NEW other, NEW entry, NEW field \in DOMAIN entry, field # "stop"
  PROVE  field \in DOMAIN StoppedAs(other, entry) /\ StoppedAs(other, entry)[field] = entry[field]
<1>1. CASE ~ IsAborted(other)
  BY <1>1 DEF StoppedAs
<1>2. CASE IsAborted(other)
  <2>1. StoppedAs(other, entry)
        = [f \in DOMAIN entry \cup {"stop"} |-> IF f = "stop" THEN "aborted" ELSE entry[f]]
    BY <1>2 DEF StoppedAs
  <2>2. QED
    BY <2>1
<1>3. QED
  BY <1>1, <1>2

LEMMA StoppedMessageOK ==
  ASSUME NEW other, NEW role, NEW content, MessageOK([role |-> role, content |-> content])
  PROVE  MessageOK(StoppedAs(other, [role |-> role, content |-> content]))
<1>1. PICK msg : msg = [role |-> role, content |-> content]
  OBVIOUS
<1>2. "role" \in DOMAIN msg /\ "content" \in DOMAIN msg /\ msg.role = role /\ msg.content = content
  BY <1>1
<1>3. StoppedAs(other, msg).role = role /\ StoppedAs(other, msg).content = content
  BY <1>2, StopLeaves
<1>4. MessageOK(StoppedAs(other, msg))
  BY <1>1, <1>2, <1>3 DEF MessageOK
<1>5. QED
  BY <1>1, <1>4

LEMMA StoppedOrNone ==
  ASSUME NEW other, NEW role \in {"user", "assistant"}, NEW content, ContentOK(role, content)
  PROVE  BodyOK(IfSome(content, <<StoppedAs(other, [role |-> role, content |-> content])>>))
<1>1. CASE content = <<>>
  BY <1>1, NoMessages DEF IfSome
<1>2. CASE content # <<>>
  <2>1. MessageOK([role |-> role, content |-> content])
    BY <1>2 DEF MessageOK
  <2>2. QED
    BY <1>2, <2>1, StoppedMessageOK, OneMessage DEF IfSome
<1>3. QED
  BY <1>1, <1>2

\* A message cut short, of the model.
LEMMA AbortedOrNone ==
  ASSUME NEW content, ContentOK("assistant", content)
  PROVE  BodyOK(IfSome(content, <<Aborted(content)>>))
<1>1. CASE content = <<>>
  BY <1>1, NoMessages DEF IfSome
<1>2. CASE content # <<>>
  <2>1. MessageOK(Aborted(content))
    BY <1>2 DEF MessageOK, Aborted
  <2>2. QED
    BY <1>2, <2>1, OneMessage DEF IfSome
<1>3. QED
  BY <1>1, <1>2

LEMMA TwoAppended ==
  ASSUME NEW a, NEW b
  PROVE  <<a, b>> = Append(<<a>>, b)
OBVIOUS

LEMMA TwoListed ==
  ASSUME NEW a, NEW b
  PROVE  IsList(<<a, b>>) /\ ToSet(<<a, b>>) = {a, b} /\ <<a, b>> # <<>>
<1>1. <<a, b>> = Append(<<a>>, b)
  BY TwoAppended
<1>2. IsList(<<a>>) /\ ToSet(<<a>>) = {a}
  BY OneListed
<1>3. IsList(Append(<<a>>, b)) /\ ToSet(Append(<<a>>, b)) = {a, b} /\ Append(<<a>>, b) # <<>>
  BY <1>2, Appended
<1>4. QED
  BY <1>1, <1>3

(***************************************************************************)
(* What the harnesses write (NativeLogs).                                  *)
(***************************************************************************)
LEMMA Asked ==
  ASSUME NEW n, NEW content \in Asks(n)
  PROVE  OnlyKinds(content, {"text", "image"}) /\ content # <<>>
<1>1. CASE content = <<Text(<<n>>)>>
  BY <1>1, OneListed DEF OnlyKinds, Text
<1>2. CASE content = <<Text(<<n>>), Image(<<n>>)>>
  BY <1>2, TwoListed DEF OnlyKinds, Text, Image
<1>3. QED
  BY <1>1, <1>2 DEF Asks

LEMMA Said ==
  ASSUME NEW n
  PROVE  OnlyKinds(Says(n), {"thinking", "text"}) /\ Says(n) # <<>>
BY TwoListed DEF Says, OnlyKinds, Text, Thinking

LEMMA Called ==
  ASSUME NEW n, NEW tool, NEW content \in Calls(n, tool)
  PROVE  OnlyKinds(content, {"use"}) /\ content # <<>>
<1>1. CASE content = <<Use(<<"a", n>>, tool)>>
  BY <1>1, OneListed DEF OnlyKinds, Use
<1>2. CASE content = <<Use(<<"a", n>>, tool), Use(<<"b", n>>, tool)>>
  BY <1>2, TwoListed DEF OnlyKinds, Use
<1>3. QED
  BY <1>1, <1>2 DEF Calls

\* What is written one line at a time.
LEMMA LineAppended ==
  ASSUME NEW h, NEW lines, LogOK(h, lines), NEW written, \A l \in written : LineOK(h, l),
         NEW grown \in Appending(lines, written)
  PROVE  LogOK(h, grown)
<1>1. PICK l \in written : grown = Append(lines, l)
  BY DEF Appending
<1>2. QED
  BY <1>1, OneMoreLine

\* A line for each element of a list, and one for what is left, if any.
LEMMA LineForEach ==
  ASSUME NEW h, NEW s, IsList(s), NEW f, f = [i \in DOMAIN s |-> f[i]],
         \A i \in 1 .. Len(s) : LineOK(h, f[i])
  PROVE  LogOK(h, f)
<1>1. IsList(f) /\ \A e \in ToSet(f) : \E i \in 1 .. Len(s) : e = f[i]
  BY EachElements
<1>2. QED
  BY <1>1 DEF LogOK

LEMMA LineIfSome ==
  ASSUME NEW h, NEW content, NEW l, content # <<>> => LineOK(h, l)
  PROVE  LogOK(h, IfSome(content, <<l>>))
BY OneLine, NoLines DEF IfSome

LEMMA Fronted ==
  ASSUME NEW s, IsList(s), s # <<>>
  PROVE  /\ IsList(Front(s)) /\ ToSet(Front(s)) \subseteq ToSet(s)
         /\ Last(s) \in ToSet(s)
<1>1. Len(s) \in Nat /\ Len(s) > 0 /\ \A i \in 1 .. Len(s) : s[i] \in ToSet(s)
  BY Lengths
<1> DEFINE f == [i \in 1 .. Len(s) - 1 |-> s[i]]
<1>2. Front(s) = f
  BY <1>1 DEF Front
<1>3. f = [i \in 1 .. Len(s) - 1 |-> f[i]] /\ \A i \in 1 .. Len(s) - 1 : f[i] \in ToSet(s)
  BY <1>1
<1> HIDE DEF f
<1>4. Len(s) - 1 \in Nat
  BY <1>1
<1>5. IsList(f) /\ ToSet(f) \subseteq ToSet(s)
  BY <1>3, <1>4, Tabled
<1>6. Last(s) \in ToSet(s)
  BY <1>1 DEF Last
<1>7. QED
  BY <1>2, <1>5, <1>6

(***************************************************************************)
(* A session whose first line is of another kind than those that follow.   *)
(***************************************************************************)
LEMMA Headed ==
  ASSUME NEW e, NEW t, IsList(t), NEW s, s = <<e>> \o t
  PROVE  IsList(s) /\ s # <<>> /\ s[1] = e /\ Tail(s) = t
<1> DEFINE S == ToSet(t) \cup {e}
<1>1. t \in Seq(S) /\ <<e>> \in Seq(S)
  BY SeqMonotonic DEF IsList
<1>2. Len(t) \in Nat /\ Len(<<e>>) = 1 /\ <<e>>[1] = e
  BY Lengths
<1> HIDE DEF S
<1>3. /\ s \in Seq(S) /\ Len(s) = 1 + Len(t)
      /\ \A i \in 1 .. 1 + Len(t) : s[i] = IF i <= 1 THEN <<e>>[i] ELSE t[i - 1]
  BY <1>1, <1>2, ConcatProperties
<1>4. s # <<>> /\ s[1] = e
  BY <1>2, <1>3, EmptySeq
<1>5. IsList(s)
  BY <1>3, OwnElements
<1>6. /\ Tail(s) \in Seq(S) /\ Len(Tail(s)) = Len(t)
      /\ \A i \in 1 .. Len(t) : Tail(s)[i] = s[i + 1]
  BY <1>2, <1>3, <1>4, HeadTailProperties
<1>7. \A i \in 1 .. Len(t) : Tail(s)[i] = t[i]
  <2>1. \A i \in 1 .. Len(t) : i + 1 \in 1 .. 1 + Len(t) /\ ~ (i + 1 <= 1) /\ i + 1 - 1 = i
    BY <1>2
  <2>2. QED
    BY <1>3, <1>6, <2>1
<1>8. Tail(s) = t
  BY <1>1, <1>6, <1>7, SeqEqual
<1>9. QED
  BY <1>4, <1>5, <1>8

LEMMA FirstReplaced ==
  ASSUME NEW s, IsList(s), s # <<>>, NEW e, NEW r, r = [s EXCEPT ![1] = e]
  PROVE  IsList(r) /\ r # <<>> /\ r[1] = e /\ Tail(r) = Tail(s)
<1>1. Len(s) \in Nat /\ 1 \in 1 .. Len(s)
  BY Lengths
<1>2. /\ IsList(r) /\ Len(r) = Len(s)
      /\ \A k \in 1 .. Len(s) : r[k] = IF k = 1 THEN e ELSE s[k]
  <2>1. PICK g : g = [k \in 1 .. Len(s) |-> IF k = 1 THEN e ELSE s[k]]
    OBVIOUS
  <2>2. g = [k \in 1 .. Len(s) |-> g[k]] /\ \A k \in 1 .. Len(s) : g[k] = IF k = 1 THEN e ELSE s[k]
    BY <2>1
  <2>3. IsList(g) /\ Len(g) = Len(s)
    BY <1>1, <2>2, Tabled
  <2>4. r = g
    BY <2>1, Lengths
  <2>5. QED
    BY <2>2, <2>3, <2>4, Zenon
<1>3. r # <<>> /\ r[1] = e
  BY <1>1, <1>2, NoneListed
<1> DEFINE S == ToSet(s) \cup ToSet(r)
<1>4. s \in Seq(S) /\ r \in Seq(S)
  BY <1>2, SeqMonotonic DEF IsList
<1> HIDE DEF S
<1>5. /\ Tail(s) \in Seq(S) /\ Len(Tail(s)) = Len(s) - 1 /\ \A i \in 1 .. Len(Tail(s)) : Tail(s)[i] = s[i + 1]
      /\ Tail(r) \in Seq(S) /\ Len(Tail(r)) = Len(s) - 1 /\ \A i \in 1 .. Len(Tail(s)) : Tail(r)[i] = r[i + 1]
  BY <1>2, <1>3, <1>4, HeadTailProperties
<1>6. \A i \in 1 .. Len(Tail(s)) : Tail(r)[i] = Tail(s)[i]
  <2>1. \A i \in 1 .. Len(Tail(s)) : i + 1 \in 1 .. Len(s) /\ i + 1 # 1
    BY <1>1, <1>5
  <2>2. QED
    BY <1>2, <1>5, <2>1
<1>7. Tail(r) = Tail(s)
  BY <1>4, <1>5, <1>6, SeqEqual
<1>8. QED
  BY <1>2, <1>3, <1>7

(***************************************************************************)
(* Content and lines put together piece by piece.                          *)
(***************************************************************************)
LEMMA NoContent == ASSUME NEW role PROVE ContentOK(role, <<>>)
BY NoneListed DEF ContentOK

LEMMA OneBlockContent ==
  ASSUME NEW role, NEW b, BlockOK(role, b)
  PROVE  ContentOK(role, <<b>>)
BY OneListed DEF ContentOK

LEMMA MoreContent ==
  ASSUME NEW role, NEW content, ContentOK(role, content), NEW more, ContentOK(role, more)
  PROVE  ContentOK(role, content \o more)
BY Together DEF ContentOK

LEMMA BlockForEach ==
  ASSUME NEW role, NEW s, IsList(s), NEW f, f = [i \in DOMAIN s |-> f[i]],
         \A i \in 1 .. Len(s) : BlockOK(role, f[i])
  PROVE  ContentOK(role, f)
<1>1. IsList(f) /\ \A e \in ToSet(f) : \E i \in 1 .. Len(s) : e = f[i]
  BY EachElements
<1>2. QED
  BY <1>1 DEF ContentOK

LEMMA FlattenedContent ==
  ASSUME NEW role, NEW s, IsList(s), NEW f, f = [i \in DOMAIN s |-> f[i]],
         \A i \in 1 .. Len(s) : ContentOK(role, f[i])
  PROVE  ContentOK(role, FlattenSeq(f))
<1>1. IsList(f) /\ \A e \in ToSet(f) : \E i \in 1 .. Len(s) : e = f[i]
  BY EachElements
<1>2. \A e \in ToSet(f) : ContentOK(role, e)
  BY <1>1
<1>3. \A e \in ToSet(f) : IsList(e)
  BY <1>2 DEF ContentOK
<1>4. /\ IsList(FlattenSeq(f))
      /\ \A e \in ToSet(FlattenSeq(f)) : \E t \in ToSet(f) : e \in ToSet(t)
  BY <1>1, <1>3, FlattenedElements
<1>5. QED
  BY <1>2, <1>4 DEF ContentOK

LEMMA FlattenedLists ==
  ASSUME NEW s, IsList(s), NEW f, f = [i \in DOMAIN s |-> f[i]],
         \A i \in 1 .. Len(s) : IsList(f[i])
  PROVE  IsList(FlattenSeq(f))
<1>1. IsList(f) /\ \A e \in ToSet(f) : \E i \in 1 .. Len(s) : e = f[i]
  BY EachElements
<1>2. \A e \in ToSet(f) : IsList(e)
  BY <1>1
<1>3. QED
  BY <1>1, <1>2, FlattenedElements

\* A body read message by message, a log written message by message.
LEMMA ReadEach ==
  ASSUME NEW s, IsList(s), NEW f, f = [i \in DOMAIN s |-> f[i]],
         \A i \in 1 .. Len(s) : BodyOK(f[i])
  PROVE  BodyOK(FlattenSeq(f))
<1>1. PICK n \in Nat : n = Len(s)
  BY Lengths
<1>2. f = [i \in 1 .. n |-> f[i]] /\ \A i \in 1 .. n : BodyOK(f[i])
  BY <1>1, Lengths
<1>3. QED
  BY <1>2, FlattenedMessages

LEMMA WrittenEach ==
  ASSUME NEW h, NEW s, IsList(s), NEW f, f = [i \in DOMAIN s |-> f[i]],
         \A i \in 1 .. Len(s) : LogOK(h, f[i])
  PROVE  LogOK(h, FlattenSeq(f))
<1>1. PICK n \in Nat : n = Len(s)
  BY Lengths
<1>2. f = [i \in 1 .. n |-> f[i]] /\ \A i \in 1 .. n : LogOK(h, f[i])
  BY <1>1, Lengths
<1>3. QED
  BY <1>2, FlattenedLines

\* The elements of a list, by their places.
LEMMA Members ==
  ASSUME NEW s, IsList(s)
  PROVE  \A i \in 1 .. Len(s) : i \in DOMAIN s /\ s[i] \in ToSet(s)
BY Lengths

LEMMA MemberBlocks ==
  ASSUME NEW content, NEW kinds, OnlyKinds(content, kinds)
  PROVE  \A i \in 1 .. Len(content) : i \in DOMAIN content /\ content[i].kind \in kinds
BY Lengths DEF OnlyKinds

LEMMA MemberMessages ==
  ASSUME NEW body, BodyOK(body)
  PROVE  IsList(body) /\ \A i \in 1 .. Len(body) : i \in DOMAIN body /\ MessageOK(body[i])
BY Lengths DEF BodyOK

LEMMA MemberLines ==
  ASSUME NEW h, NEW lines, LogOK(h, lines)
  PROVE  IsList(lines) /\ \A i \in 1 .. Len(lines) : i \in DOMAIN lines /\ LineOK(h, lines[i])
BY Lengths DEF LogOK

\* Only texts and images, or only what the model says, are fit to be shown.
LEMMA UserKinds ==
  ASSUME NEW content, OnlyKinds(content, {"text", "image", "result"})
  PROVE  ContentOK("user", content)
BY DEF OnlyKinds, ContentOK, BlockOK, Blocks

LEMMA AssistantKinds ==
  ASSUME NEW content, OnlyKinds(content, {"text", "image", "thinking", "use"})
  PROVE  ContentOK("assistant", content)
BY DEF OnlyKinds, ContentOK, BlockOK, Blocks

LEMMA ResultOK ==
  ASSUME NEW id, NEW v, NEW err
  PROVE  BlockOK("user", Result(id, v, err))
BY DEF BlockOK, Blocks, Result

LEMMA UseOK ==
  ASSUME NEW id, NEW tool
  PROVE  BlockOK("assistant", Use(id, tool))
BY DEF BlockOK, Blocks, Use

LEMMA ThoughtOK ==
  ASSUME NEW v
  PROVE  BlockOK("assistant", Thinking(v))
BY DEF BlockOK, Blocks, Thinking

LEMMA TextOK ==
  ASSUME NEW role, NEW v
  PROVE  BlockOK(role, Text(v))
BY DEF BlockOK, Blocks, Text

LEMMA ImageOK ==
  ASSUME NEW role, NEW v
  PROVE  BlockOK(role, Image(v))
BY DEF BlockOK, Blocks, Image

\* A line is put in another's place, if there is such a place.
LEMMA LineChanged ==
  ASSUME NEW h, NEW lines, LogOK(h, lines), NEW i, NEW l, i \in 1 .. Len(lines) => LineOK(h, l),
         NEW grown, grown = [lines EXCEPT ![i] = l]
  PROVE  LogOK(h, grown)
<1>1. IsList(lines) /\ DOMAIN lines = 1 .. Len(lines) /\ lines = [k \in DOMAIN lines |-> lines[k]]
  BY Lengths DEF LogOK, IsList
<1>2. PICK g : g = [k \in DOMAIN lines |-> IF k = i THEN l ELSE lines[k]]
  OBVIOUS
<1>3. g = [k \in DOMAIN lines |-> g[k]] /\ \A k \in DOMAIN lines : g[k] = IF k = i THEN l ELSE lines[k]
  BY <1>2
<1>4. \A k \in 1 .. Len(lines) : LineOK(h, g[k])
  BY <1>1, <1>3, MemberLines
<1>5. LogOK(h, g)
  BY <1>1, <1>3, <1>4, LineForEach
<1>6. grown = g
  BY <1>1, <1>2
<1>7. QED
  BY <1>5, <1>6, Zenon

(***************************************************************************)
(* Amp.                                                                    *)
(***************************************************************************)
LEMMA AmpBlockRead ==
  ASSUME NEW role \in {"user", "assistant"}, NEW b, b.kind \in AmpRead[role]
  PROVE  ContentOK(role, ToBlock(b))
<1>1. b.kind \in IF role = "user" THEN {"text", "image", "run"} ELSE {"text", "thinking", "use", "image"}
  BY DEF AmpRead
<1>2. CASE b.kind \in {"text", "thinking"}
  <2>1. ToBlock(b) = IF b.v = Blank THEN <<>> ELSE <<b>>
    BY <1>2 DEF ToBlock
  <2>2. BlockOK(role, b)
    BY <1>1, <1>2 DEF BlockOK, Blocks
  <2>3. QED
    BY <2>1, <2>2, NoContent, OneBlockContent
<1>3. CASE b.kind = "image"
  <2>1. ToBlock(b) = <<b>>
    BY <1>3 DEF ToBlock
  <2>2. BlockOK(role, b)
    BY <1>1, <1>3 DEF BlockOK, Blocks
  <2>3. QED
    BY <2>1, <2>2, OneBlockContent
<1>4. CASE b.kind = "use"
  <2>1. ToBlock(b) = <<Use(b.id, AmpNormalizeTool(b.tool))>>
    BY <1>4 DEF ToBlock
  <2>2. role = "assistant"
    BY <1>1, <1>4
  <2>3. QED
    BY <2>1, <2>2, UseOK, OneBlockContent
<1>5. CASE b.kind = "run"
  <2>1. PICK err : err = (b.status \in {"error", "cancelled", "rejected-by-user"})
    OBVIOUS
  <2>2. ToBlock(b) = <<Result(b.id, b.v, err)>>
    BY <1>5, <2>1 DEF ToBlock
  <2>3. role = "user"
    BY <1>1, <1>5
  <2>4. QED
    BY <2>2, <2>3, ResultOK, OneBlockContent
<1>6. QED
  BY <1>1, <1>2, <1>3, <1>4, <1>5

LEMMA AmpTurnsOK ==
  ASSUME NEW line, AmpLineOK(line)
  PROVE  BodyOK(AmpTurns(line))
<1>1. DOMAIN AmpRead = {"user", "assistant"}
  BY DEF AmpRead
<1>2. CASE line.type # "message" \/ line.role \notin DOMAIN AmpRead
  <2>1. AmpTurns(line) = <<>>
    BY <1>2 DEF AmpTurns
  <2>2. QED
    BY <2>1, NoMessages
<1>3. CASE line.type = "message" /\ line.role \in {"user", "assistant"}
  <2> DEFINE read == OfKind(line.content, AmpRead[line.role])
             blocks == [i \in DOMAIN read |-> ToBlock(read[i])]
             content == FlattenSeq(blocks)
  <2>1. AmpTurns(line) = IfSome(content, <<StoppedAs(line, Message(line.role, content))>>)
    BY <1>1, <1>3 DEF AmpTurns, Each
  <2>2. OnlyKinds(read, AmpRead[line.role])
    BY <1>3, OfKindElements DEF AmpLineOK
  <2> HIDE DEF read
  <2>3. blocks = [i \in DOMAIN read |-> blocks[i]] /\ \A i \in 1 .. Len(read) : ContentOK(line.role, blocks[i])
    BY <1>3, <2>2, MemberBlocks, AmpBlockRead
  <2> HIDE DEF blocks
  <2>4. ContentOK(line.role, content)
    BY <2>2, <2>3, FlattenedContent DEF OnlyKinds
  <2> HIDE DEF content
  <2>5. QED
    BY <1>3, <2>1, <2>4, StoppedOrNone DEF Message
<1>4. QED
  BY <1>1, <1>2, <1>3

LEMMA AmpBodyRead ==
  ASSUME NEW lines, LogOK("amp", lines)
  PROVE  BodyOK(AmpToCommon(lines))
<1> DEFINE turns == [i \in DOMAIN lines |-> AmpTurns(lines[i])]
<1>1. AmpToCommon(lines) = FlattenSeq(turns)
  BY DEF AmpToCommon, Each
<1>2. turns = [i \in DOMAIN lines |-> turns[i]] /\ \A i \in 1 .. Len(lines) : BodyOK(turns[i])
  BY MemberLines, LinesAre, AmpTurnsOK
<1> HIDE DEF turns
<1>3. QED
  BY <1>1, <1>2, MemberLines, ReadEach

LEMMA AmpMessageWritten ==
  ASSUME NEW msg, MessageOK(msg)
  PROVE  LineOK("amp", MessageValue(msg))
<1> DEFINE asked == [i \in DOMAIN msg.content |-> UserValue(msg.content[i])]
           said == [i \in DOMAIN msg.content |-> AssistantValue(msg.content[i])]
<1>1. MessageValue(msg)
      = StoppedAs(msg, AmpEntry(msg.role, FlattenSeq(IF msg.role = "user" THEN asked ELSE said)))
  BY DEF MessageValue, Each
<1>2. IsList(msg.content)
  BY DEF MessageOK, ContentOK
<1>3. \A e : IsList(<<e>>) /\ IsList(<<>>)
  BY OneListed, NoneListed
<1>4. \A b : IsList(UserValue(b))
  BY <1>3 DEF UserValue
<1>5. \A b : IsList(AssistantValue(b))
  BY <1>3 DEF AssistantValue
<1>6. asked = [i \in DOMAIN msg.content |-> asked[i]] /\ \A i \in 1 .. Len(msg.content) : IsList(asked[i])
  BY <1>2, <1>4, Members
<1>7. said = [i \in DOMAIN msg.content |-> said[i]] /\ \A i \in 1 .. Len(msg.content) : IsList(said[i])
  BY <1>2, <1>5, Members
<1> HIDE DEF asked, said
<1>8. IsList(FlattenSeq(asked))
  BY <1>2, <1>6, FlattenedLists
<1>9. IsList(FlattenSeq(said))
  BY <1>2, <1>7, FlattenedLists
<1>10. PICK content : content = FlattenSeq(IF msg.role = "user" THEN asked ELSE said)
  OBVIOUS
<1>11. IsList(content)
  BY <1>8, <1>9, <1>10
<1>12. PICK line : line = AmpEntry(msg.role, content)
  OBVIOUS
<1>13. "content" \in DOMAIN line /\ line.content = content
  BY <1>12 DEF AmpEntry
<1>14. StoppedAs(msg, line).content = content
  BY <1>13, StopLeaves
<1>15. QED
  BY <1>1, <1>10, <1>11, <1>12, <1>14, LinesAre DEF AmpLineOK

LEMMA AmpWritten ==
  ASSUME NEW meta, NEW body, BodyOK(body)
  PROVE  LogOK("amp", AmpFromCommon(meta, body))
<1> DEFINE entries == [i \in DOMAIN body |-> MessageValue(body[i])]
<1>1. PICK id : AmpFromCommon(meta, body) = <<Thread(id, meta.title, TRUE)>> \o entries
  BY DEF AmpFromCommon, Each
<1>2. entries = [i \in DOMAIN body |-> entries[i]] /\ \A i \in 1 .. Len(body) : LineOK("amp", entries[i])
  BY MemberMessages, AmpMessageWritten
<1> HIDE DEF entries
<1>3. LogOK("amp", entries)
  BY <1>2, MemberMessages, LineForEach
<1>4. LineOK("amp", Thread(id, meta.title, TRUE))
  BY LinesAre DEF AmpLineOK, Thread
<1>5. QED
  BY <1>1, <1>3, <1>4, OneLine, MoreLines

LEMMA AmpGrown ==
  ASSUME NEW lines, LogOK("amp", lines), NEW n, NEW grown \in AmpGrow(lines, n)
  PROVE  LogOK("amp", grown)
<1> DEFINE Ran(id) == Run(id, Output(n, id), IF Fails(id) THEN "cancelled" ELSE "done")
           open == Open(AmpToCommon(lines))
           asks == {AmpEntry("user", c) : c \in Asks(n)}
           says == {AmpEntry("assistant", c) : c \in {Says(n)} \cup Calls(n, "shell_command")}
           ones == {AmpEntry("user", <<Ran(id)>>) : id \in open}
           twos == {AmpEntry("user", <<Ran(p[1]), Ran(p[2])>>) : p \in {p \in open \X open : p[1] # p[2]}}
           written == asks \cup says \cup ones \cup twos
<1>1. grown \in Appending(lines, written)
  <2>1. AmpGrow(lines, n) = Appending(lines, written)
    BY Zenon DEF AmpGrow
  <2> HIDE DEF written
  <2>2. QED
    BY <2>1
<1> HIDE DEF Ran, open
<1>2. \A role, content : IsList(content) => LineOK("amp", AmpEntry(role, content))
  BY LinesAre DEF AmpLineOK, AmpEntry
<1>3. \A l \in asks : LineOK("amp", l)
  BY <1>2, Asked DEF OnlyKinds
<1>4. \A l \in says : LineOK("amp", l)
  BY <1>2, Said, Called DEF OnlyKinds
<1>5. \A l \in ones : LineOK("amp", l)
  <2>1. \A e : LineOK("amp", AmpEntry("user", <<e>>))
    BY <1>2, OneListed, Zenon
  <2>2. QED
    BY <2>1
<1>6. \A l \in twos : LineOK("amp", l)
  <2>1. \A d, e : LineOK("amp", AmpEntry("user", <<d, e>>))
    BY <1>2, TwoListed, Zenon
  <2>2. QED
    BY <2>1
<1> HIDE DEF asks, says, ones, twos
<1>7. \A l \in written : LineOK("amp", l)
  BY <1>3, <1>4, <1>5, <1>6
<1> HIDE DEF written
<1>8. QED
  BY <1>1, <1>7, LineAppended

(***************************************************************************)
(* Antigravity.                                                            *)
(***************************************************************************)
LEMMA NotBlankOK ==
  ASSUME NEW role, NEW v, NEW b, BlockOK(role, b)
  PROVE  ContentOK(role, AntigravityNotBlank(v, b))
BY NoContent, OneBlockContent DEF AntigravityNotBlank

LEMMA UserInputRead ==
  ASSUME NEW step, IsList(step.images)
  PROVE  BodyOK(UserInputMessage(step))
<1> DEFINE images == [i \in DOMAIN step.images |-> Image(step.images[i])]
           content == AntigravityNotBlank(step.v, Text(step.v)) \o images
<1>1. UserInputMessage(step) = IfSome(content, <<User(content)>>)
  BY DEF UserInputMessage, Each
<1>2. images = [i \in DOMAIN step.images |-> images[i]]
      /\ \A i \in 1 .. Len(step.images) : BlockOK("user", images[i])
  BY Members, ImageOK
<1> HIDE DEF images
<1>3. ContentOK("user", images)
  BY <1>2, BlockForEach
<1>4. ContentOK("user", content)
  BY <1>3, NotBlankOK, TextOK, MoreContent
<1> HIDE DEF content
<1>5. QED
  BY <1>1, <1>4, OneOrNone DEF User

LEMMA PlannerRead ==
  ASSUME NEW step, IsList(step.calls)
  PROVE  BodyOK(PlannerMessage(step))
<1> DEFINE calls == [i \in DOMAIN step.calls |->
                       Use(step.calls[i].id, AntigravityNormalizeTool(step.calls[i].tool))]
           content == AntigravityNotBlank(step.thought, Thinking(step.thought))
                      \o AntigravityNotBlank(step.v, Text(step.v)) \o calls
<1>1. PlannerMessage(step) = IfSome(content, <<StoppedAs(step, Assistant(content))>>)
  BY DEF PlannerMessage, Each
<1>2. calls = [i \in DOMAIN step.calls |-> calls[i]]
      /\ \A i \in 1 .. Len(step.calls) : BlockOK("assistant", calls[i])
  BY Members, UseOK
<1> HIDE DEF calls
<1>3. ContentOK("assistant", calls)
  BY <1>2, BlockForEach
<1>4. ContentOK("assistant", content)
  <2>1. ContentOK("assistant", AntigravityNotBlank(step.thought, Thinking(step.thought)))
    BY NotBlankOK, ThoughtOK
  <2>2. ContentOK("assistant", AntigravityNotBlank(step.v, Text(step.v)))
    BY NotBlankOK, TextOK
  <2>3. QED
    BY <1>3, <2>1, <2>2, MoreContent
<1> HIDE DEF content
<1>5. QED
  BY <1>1, <1>4, StoppedOrNone DEF Assistant

LEMMA StepRead ==
  ASSUME NEW step, AntigravityLineOK(step)
  PROVE  BodyOK(AntigravityTurns(step))
<1>1. CASE step.type = "user_input"
  BY <1>1, UserInputRead DEF AntigravityTurns, AntigravityLineOK
<1>2. CASE step.type = "planner"
  BY <1>2, PlannerRead DEF AntigravityTurns, AntigravityLineOK
<1>3. CASE step.type = "tool"
  <2>1. PICK err : err = (step.failed \/ step.status \in {"error", "canceled"})
    OBVIOUS
  <2>2. AntigravityTurns(step) = IF step.status = "pending" THEN <<>>
                                 ELSE <<User(<<Result(step.id, step.v, err)>>)>>
    BY <1>3, <2>1 DEF AntigravityTurns, ToolResultMessage
  <2>3. MessageOK(User(<<Result(step.id, step.v, err)>>))
    BY ResultOK, OneBlock DEF User
  <2>4. QED
    BY <2>2, <2>3, OneMessage, NoMessages
<1>4. CASE step.type \notin {"user_input", "planner", "tool"}
  <2>1. AntigravityTurns(step) = <<>>
    BY <1>4 DEF AntigravityTurns
  <2>2. QED
    BY <2>1, NoMessages
<1>5. QED
  BY <1>1, <1>2, <1>3, <1>4

LEMMA AntigravityRead ==
  ASSUME NEW lines, LogOK("antigravity", lines)
  PROVE  BodyOK(AntigravityToCommon(lines))
<1> DEFINE turns == [i \in DOMAIN lines |-> AntigravityTurns(lines[i])]
<1>1. AntigravityToCommon(lines) = FlattenSeq(turns)
  BY DEF AntigravityToCommon, Each
<1>2. turns = [i \in DOMAIN lines |-> turns[i]] /\ \A i \in 1 .. Len(lines) : BodyOK(turns[i])
  BY MemberLines, LinesAre, StepRead
<1> HIDE DEF turns
<1>3. QED
  BY <1>1, <1>2, MemberLines, ReadEach

LEMMA AntigravityLines ==
  /\ \A id : LineOK("antigravity", Trajectory(id))
  /\ \A title : LineOK("antigravity", Checkpoint(title))
  /\ \A id, status, v, failed : LineOK("antigravity", ToolStep(id, status, v, failed))
  /\ \A v, images : IsList(images) => LineOK("antigravity", UserInput(v, images))
  /\ \A thought, v, calls : IsList(calls) => LineOK("antigravity", Planner(thought, v, calls))
BY LinesAre DEF AntigravityLineOK, Trajectory, Checkpoint, ToolStep, UserInput, Planner

LEMMA StoppedPlannerOK ==
  ASSUME NEW thought, NEW v, NEW calls, IsList(calls), NEW other
  PROVE  LineOK("antigravity", StoppedAs(other, Planner(thought, v, calls)))
<1>1. PICK step : step = Planner(thought, v, calls)
  OBVIOUS
<1>2. {"type", "calls"} \subseteq DOMAIN step /\ step.type = "planner" /\ step.calls = calls
  BY <1>1 DEF Planner
<1>3. StoppedAs(other, step).type = "planner" /\ StoppedAs(other, step).calls = calls
  BY <1>2, StopLeaves
<1>4. QED
  BY <1>1, <1>3, LinesAre DEF AntigravityLineOK

LEMMA UserStepsWritten ==
  ASSUME NEW msg, MessageOK(msg), NEW known
  PROVE  LogOK("antigravity", UserSteps(msg, known))
<1> DEFINE shown == OfKind(msg.content, {"image"})
           images == [i \in DOMAIN shown |-> shown[i].v]
           said == Kept(msg.content, {i \in DOMAIN msg.content :
                                        msg.content[i].kind \in {"text", "thinking", "artifact"}})
           orphans == Kept(msg.content, {i \in DOMAIN msg.content :
                                           msg.content[i].kind = "result" /\ msg.content[i].id \notin known})
           text == Joined(said \o orphans)
<1>1. UserSteps(msg, known) = IF text = Blank /\ images = <<>> THEN <<>> ELSE <<UserInput(text, images)>>
  BY DEF UserSteps, Each, Where
<1> HIDE DEF text
<1>2. IsList(shown)
  BY OfKindElements DEF MessageOK, ContentOK, OnlyKinds
<1> HIDE DEF shown
<1>3. IsList(images)
  BY <1>2, EachElements
<1> HIDE DEF images
<1>4. QED
  BY <1>1, <1>3, AntigravityLines, OneLine, NoLines

LEMMA AssistantStepsWritten ==
  ASSUME NEW msg, MessageOK(msg), NEW results
  PROVE  LogOK("antigravity", AssistantSteps(msg, results))
<1> DEFINE uses == OfKind(msg.content, {"use"})
           calls == [i \in DOMAIN uses |-> Use(uses[i].id, AntigravityDenormalizeTool(uses[i].tool))]
           ended == [i \in DOMAIN uses |-> ToolStepOf(uses[i], results)]
<1>1. AssistantSteps(msg, results) = <<PlannerStep(msg)>> \o ended
  BY DEF AssistantSteps, Each
<1>2. PICK thought, v : PlannerStep(msg) = StoppedAs(msg, Planner(thought, v, calls))
  BY DEF PlannerStep, Each
<1>3. IsList(uses)
  BY OfKindElements DEF MessageOK, ContentOK, OnlyKinds
<1> HIDE DEF uses
<1>4. IsList(calls)
  BY <1>3, EachElements
<1>5. ended = [i \in DOMAIN uses |-> ended[i]] /\ \A i \in 1 .. Len(uses) : LineOK("antigravity", ended[i])
  <2>1. \A c : LineOK("antigravity", ToolStepOf(c, results))
    BY AntigravityLines DEF ToolStepOf
  <2>2. QED
    BY <1>3, <2>1, Members
<1> HIDE DEF calls, ended
<1>6. LogOK("antigravity", ended)
  BY <1>3, <1>5, LineForEach
<1>7. LineOK("antigravity", PlannerStep(msg))
  BY <1>2, <1>4, StoppedPlannerOK
<1>8. QED
  BY <1>1, <1>6, <1>7, OneLine, MoreLines

LEMMA AntigravityWritten ==
  ASSUME NEW meta, NEW body, BodyOK(body)
  PROVE  LogOK("antigravity", AntigravityFromCommon(meta, body))
<1> DEFINE flat == Each(LAMBDA f : f.block, Flat(body))
           results == OfKind(flat, {"result"})
           known == ToSet(Each(LAMBDA b : b.id, OfKind(flat, {"use"})))
           steps2 == [i \in DOMAIN body |-> IF body[i].role = "user" THEN UserSteps(body[i], known)
                                           ELSE AssistantSteps(body[i], results)]
<1>1. AntigravityFromCommon(meta, body) = <<Trajectory(meta.id)>> \o FlattenSeq(steps2)
  BY DEF AntigravityFromCommon, Each
<1> HIDE DEF results, known
<1>2. steps2 = [i \in DOMAIN body |-> steps2[i]]
      /\ \A i \in 1 .. Len(body) : LogOK("antigravity", steps2[i])
  BY MemberMessages, UserStepsWritten, AssistantStepsWritten
<1> HIDE DEF steps2
<1>3. LogOK("antigravity", FlattenSeq(steps2))
  BY <1>2, MemberMessages, WrittenEach
<1>4. QED
  BY <1>1, <1>3, AntigravityLines, OneLine, MoreLines

LEMMA AntigravityGrown ==
  ASSUME NEW lines, LogOK("antigravity", lines), NEW n, NEW grown \in AntigravityGrow(lines, n)
  PROVE  LogOK("antigravity", grown)
<1> DEFINE Begun(calls) == [k \in DOMAIN calls |-> ToolStep(calls[k].id, "pending", Blank, FALSE)]
           pending == {i \in DOMAIN lines : /\ lines[i].type = "tool" /\ lines[i].status = "pending"
                                            /\ Own(lines[i].id)}
           said == {<<UserInput(<<n>>, <<>>)>>, <<UserInput(<<n>>, << <<n>> >>)>>,
                    <<Planner(<<n>>, <<n>>, <<>>)>>, <<Checkpoint(Renamed)>>}
           called == {<<Planner(Blank, <<n>>, c)>> \o Begun(c) : c \in Calls(n, "run_command")}
           ended == {[lines EXCEPT ![i] = ToolStep(@.id, "done", Output(n, @.id), Fails(@.id))] : i \in pending}
<1>1. grown \in {lines \o more : more \in said \cup called} \cup ended
  BY Zenon DEF AntigravityGrow, Each
<1>2. ASSUME NEW more \in said PROVE LogOK("antigravity", more)
  <2>1. IsList(<<>>) /\ IsList(<< <<n>> >>)
    BY NoneListed, OneListed
  <2>2. QED
    BY <2>1, AntigravityLines, OneLine
<1>3. ASSUME NEW more \in called PROVE LogOK("antigravity", more)
  <2>1. PICK c \in Calls(n, "run_command") : more = <<Planner(Blank, <<n>>, c)>> \o Begun(c)
    OBVIOUS
  <2>2. IsList(c)
    BY Called DEF OnlyKinds
  <2>3. PICK begun : begun = Begun(c)
    OBVIOUS
  <2>4. begun = [k \in DOMAIN c |-> begun[k]] /\ \A k \in 1 .. Len(c) : LineOK("antigravity", begun[k])
    BY <2>2, <2>3, Members, AntigravityLines
  <2> HIDE DEF Begun
  <2>5. LogOK("antigravity", begun)
    BY <2>2, <2>4, LineForEach
  <2>6. QED
    BY <2>1, <2>2, <2>3, <2>5, AntigravityLines, OneLine, MoreLines
<1>4. CASE grown \in {lines \o more : more \in said \cup called}
  <2> HIDE DEF said, called, ended, pending, Begun
  <2>1. PICK more \in said \cup called : grown = lines \o more
    BY <1>4
  <2>2. LogOK("antigravity", more)
    BY <1>2, <1>3, <2>1
  <2>3. QED
    BY <2>1, <2>2, MoreLines
<1>5. CASE grown \in ended
  <2>1. PICK i \in pending :
          grown = [lines EXCEPT ![i] = ToolStep(@.id, "done", Output(n, @.id), Fails(@.id))]
    BY <1>5
  <2>2. PICK l : l = ToolStep(lines[i].id, "done", Output(n, lines[i].id), Fails(lines[i].id))
    OBVIOUS
  <2>3. grown = [lines EXCEPT ![i] = l]
    BY <2>1, <2>2
  <2>4. LineOK("antigravity", l)
    BY <2>2, AntigravityLines
  <2> HIDE DEF ended, pending, said, called
  <2>5. QED
    BY <2>3, <2>4, LineChanged
<1> HIDE DEF said, called, ended
<1>6. QED
  BY <1>1, <1>4, <1>5

(***************************************************************************)
(* From the end of a conversation up to its root: a way that has come to   *)
(* nothing leads nowhere, so before the root it has come to a line each.   *)
(***************************************************************************)
LEMMA WayUp ==
  ASSUME NEW n \in Nat, NEW up, NEW S,
         \A k \in 0 .. n : IsList(up[k]) /\ ToSet(up[k]) \subseteq S,
         \A k \in 1 .. n : up[k - 1] = <<>> => up[k] = <<>>,
         NEW root \in 1 .. n, up[root - 1] # <<>>
  PROVE  \A k \in 1 .. root : up[k - 1][1] \in S
<1> DEFINE Met(k) == up[k] = <<>> \/ \A j \in 0 .. k : up[j] # <<>>
           T == {k \in 0 .. n : Met(k)}
<1>1. 0 \in T
  <2>1. \A j \in 0 .. 0 : j = 0
    OBVIOUS
  <2>2. Met(0)
    BY <2>1
  <2>3. QED
    BY <2>2
<1>2. ASSUME NEW k \in 1 .. n, k - 1 \in T PROVE k \in T
  <2>1. \A j \in 0 .. k : j = k \/ j \in 0 .. k - 1
    OBVIOUS
  <2>2. Met(k)
    BY <1>2, <2>1
  <2>3. QED
    BY <2>2
<1> HIDE DEF T
<1>3. \A k \in 0 .. n : k \in T
  BY <1>1, <1>2, AllNumbers
<1>4. \A j \in 0 .. root - 1 : up[j] # <<>>
  <2>1. root - 1 \in 0 .. n
    OBVIOUS
  <2>2. Met(root - 1)
    BY <1>3, <2>1 DEF T
  <2>3. QED
    BY <2>2
<1>5. QED
  <2>1. ASSUME NEW k \in 1 .. root PROVE up[k - 1][1] \in S
    <3>1. PICK j \in 0 .. root - 1 : j = k - 1
      OBVIOUS
    <3>2. j \in 0 .. n /\ up[j] # <<>>
      BY <1>4, <3>1
    <3>3. IsList(up[j]) /\ ToSet(up[j]) \subseteq S
      BY <3>2
    <3>4. up[j][1] \in ToSet(up[j])
      BY <3>2, <3>3, Lengths
    <3>5. QED
      BY <3>1, <3>3, <3>4
  <2>2. QED
    BY <2>1

LEMMA TurnedRound ==
  ASSUME NEW n \in Nat, NEW s, s = [k \in 1 .. n |-> s[k]], NEW S, \A k \in 1 .. n : s[k] \in S,
         NEW path, path = Reverse(s)
  PROVE  IsList(path) /\ ToSet(path) \subseteq S
<1>1. Len(s) = n
  BY Tabled
<1> DEFINE r == [i \in 1 .. n |-> s[(n - i) + 1]]
<1>2. path = r
  BY <1>1 DEF Reverse
<1>3. r = [i \in 1 .. n |-> r[i]] /\ \A i \in 1 .. n : r[i] \in S
  <2>1. \A i \in 1 .. n : (n - i) + 1 \in 1 .. n
    OBVIOUS
  <2>2. QED
    BY <2>1
<1> HIDE DEF r
<1>4. IsList(r) /\ ToSet(r) = {r[i] : i \in 1 .. n}
  BY <1>3, Tabled
<1>5. IsList(r) /\ ToSet(r) \subseteq S
  BY <1>3, <1>4
<1>6. QED
  BY <1>2, <1>5, Zenon
(***************************************************************************)
(* ChatGPT.                                                                *)
(***************************************************************************)
ChatGptOK(lines) ==
  /\ LogOK("chatgpt", lines) /\ lines # <<>>
  /\ \E id, title, current : lines[1] = ChatGptConversation(id, title, current)

LEMMA ChatGptNodesAre ==
  ASSUME NEW lines, LogOK("chatgpt", lines)
  PROVE  /\ IsList(ChatGptNodes(lines))
         /\ \A node \in ToSet(ChatGptNodes(lines)) : node.reasoning => node.role = "assistant"
<1> DEFINE at == {i \in DOMAIN lines : lines[i].type = "node"}
<1>1. ChatGptNodes(lines) = Kept(lines, at)
  BY DEF ChatGptNodes, Where
<1>2. \A i \in at : lines[i].type = "node"
  OBVIOUS
<1> HIDE DEF at
<1>3. /\ IsList(Kept(lines, at))
      /\ \A e \in ToSet(Kept(lines, at)) : \E i \in 1 .. Len(lines) : i \in at /\ lines[i] = e
  BY KeptElements DEF LogOK
<1>4. \A i \in 1 .. Len(lines) : ChatGptLineOK(lines[i])
  BY MemberLines, LinesAre
<1>5. QED
  BY <1>1, <1>2, <1>3, <1>4 DEF ChatGptLineOK

LEMMA ChatGptNodeFound ==
  ASSUME NEW lines, LogOK("chatgpt", lines), NEW id
  PROVE  IsList(NodeAt(lines, id)) /\ ToSet(NodeAt(lines, id)) \subseteq ToSet(ChatGptNodes(lines))
<1>1. PICK nodes : nodes = ChatGptNodes(lines)
  OBVIOUS
<1> DEFINE at == {i \in DOMAIN nodes : nodes[i].id = id}
<1>2. NodeAt(lines, id) = Kept(nodes, at)
  BY <1>1 DEF NodeAt, Where
<1> HIDE DEF at
<1>3. IsList(nodes)
  BY <1>1, ChatGptNodesAre
<1>4. QED
  BY <1>1, <1>2, <1>3, KeptSome

LEMMA ChatGptUp ==
  ASSUME NEW lines, Len(lines) \in Nat
  PROVE  \E f : /\ RunOf(<<"chatgpt up", lines>>, NodeAt(lines, lines[1].current), Len(lines), f)
                /\ ChatGptAncestors(lines) = [k \in 1 .. Len(lines) |-> f[k - 1]]
<1> DEFINE start == NodeAt(lines, lines[1].current)
           F(f) == [k \in 0 .. Len(lines) |->
                      IF k = 0 THEN NodeAt(lines, lines[1].current) ELSE ChatGptParentOf(lines, f[k - 1])]
           up == CHOOSE f : f = F(f)
           x == <<"chatgpt up", lines>>
<1>1. \A f : F(f) = Running(x, start, Len(lines), f)
  BY DEF Running, Step
<1>2. ChatGptAncestors(lines) = [k \in 1 .. Len(lines) |-> up[k - 1]]
  BY DEF ChatGptAncestors
<1> HIDE DEF x, start
<1>3. PICK f : f = Running(x, start, Len(lines), f)
  BY RunExists
<1>4. up = F(up)
  BY <1>1, <1>3
<1> HIDE DEF up
<1>5. RunOf(x, start, Len(lines), up)
  BY <1>1, <1>4, Started
<1>6. QED
  BY <1>2, <1>5 DEF x, start

LEMMA ChatGptPath ==
  ASSUME NEW lines, LogOK("chatgpt", lines)
  PROVE  /\ IsList(ChatGptActivePath(lines))
         /\ ToSet(ChatGptActivePath(lines)) \subseteq ToSet(ChatGptNodes(lines))
<1>1. PICK n \in Nat : n = Len(lines)
  BY Lengths DEF LogOK
<1>2. PICK start : start = NodeAt(lines, lines[1].current)
  OBVIOUS
<1>3. PICK f : /\ RunOf(<<"chatgpt up", lines>>, start, n, f)
               /\ ChatGptAncestors(lines) = [k \in 1 .. n |-> f[k - 1]]
  <2>1. \E f : /\ RunOf(<<"chatgpt up", lines>>, NodeAt(lines, lines[1].current), Len(lines), f)
               /\ ChatGptAncestors(lines) = [k \in 1 .. Len(lines) |-> f[k - 1]]
    BY <1>1, ChatGptUp
  <2>2. QED
    BY <1>1, <1>2, <2>1, Zenon
<1>4. f[0] = start /\ \A k \in 1 .. n : f[k] = ChatGptParentOf(lines, f[k - 1])
  BY <1>3 DEF RunOf, Step
<1>5. \A k \in 0 .. n : IsList(f[k]) /\ ToSet(f[k]) \subseteq ToSet(ChatGptNodes(lines))
  <2>1. ASSUME NEW k \in 0 .. n PROVE IsList(f[k]) /\ ToSet(f[k]) \subseteq ToSet(ChatGptNodes(lines))
    <3>1. CASE k = 0
      BY <1>2, <1>4, <3>1, ChatGptNodeFound
    <3>2. CASE k # 0
      <4>1. f[k] = ChatGptParentOf(lines, f[k - 1])
        BY <1>4, <3>2
      <4>2. QED
        BY <4>1, NoneListed, ChatGptNodeFound DEF ChatGptParentOf
    <3>3. QED
      BY <3>1, <3>2
  <2>2. QED
    BY <2>1
<1>6. \A k \in 1 .. n : f[k - 1] = <<>> => f[k] = <<>>
  BY <1>4 DEF ChatGptParentOf
<1> DEFINE up == ChatGptAncestors(lines)
           roots == {k \in DOMAIN up : up[k] # <<>> /\ up[k][1].parent = NoId}
           root == CHOOSE k \in roots : TRUE
           s == [k \in 1 .. root |-> up[k][1]]
<1>7. ChatGptActivePath(lines) = IF roots = {} THEN ChatGptNodes(lines) ELSE Reverse(s)
  BY DEF ChatGptActivePath
<1>8. DOMAIN up = 1 .. n /\ \A k \in 1 .. n : up[k] = f[k - 1]
  BY <1>3
<1> HIDE DEF up
<1>9. CASE roots = {}
  BY <1>7, <1>9, ChatGptNodesAre
<1>10. CASE roots # {}
  <2>1. PICK top \in roots : top = root
    BY <1>10
  <2>2. top \in 1 .. n /\ f[top - 1] # <<>>
    BY <1>8, <2>1
  <2>3. PICK t : t = [k \in 1 .. top |-> up[k][1]]
    OBVIOUS
  <2>4. s = t
    BY <2>1, <2>3
  <2>5. t = [k \in 1 .. top |-> t[k]] /\ \A k \in 1 .. top : t[k] = f[k - 1][1]
    BY <1>8, <2>2, <2>3
  <2> HIDE DEF s, root, roots
  <2>6. PICK path : path = Reverse(t)
    OBVIOUS
  <2>7. PICK S : S = ToSet(ChatGptNodes(lines))
    OBVIOUS
  <2>8. \A k \in 0 .. n : IsList(f[k]) /\ ToSet(f[k]) \subseteq S
    BY <1>5, <2>7
  <2>9. \A k \in 1 .. top : f[k - 1][1] \in S
    BY <1>6, <2>2, <2>8, WayUp
  <2>10. IsList(path) /\ ToSet(path) \subseteq S
    <3>1. top \in Nat /\ \A k \in 1 .. top : t[k] \in S
      BY <2>2, <2>5, <2>9
    <3>2. t = [k \in 1 .. top |-> t[k]]
      BY <2>5
    <3>3. QED
      BY <2>6, <3>1, <3>2, TurnedRound
  <2>11. QED
    BY <1>7, <1>10, <2>4, <2>6, <2>7, <2>10, Zenon
<1>11. QED
  BY <1>9, <1>10

LEMMA ChatGptRuns ==
  ASSUME NEW lines, NEW path, path = ChatGptActivePath(lines), Len(path) \in Nat
  PROVE  \E f : /\ RunOf(<<"chatgpt", lines, path>>, [out |-> <<>>, lastToolId |-> NoId], Len(path), f)
                /\ ChatGptToCommon(lines) = f[Len(path)].out
<1> DEFINE start == [out |-> <<>>, lastToolId |-> NoId]
           F(f) == [i \in 0 .. Len(path) |->
                      IF i = 0 THEN [out |-> <<>>, lastToolId |-> NoId]
                      ELSE OnNode(lines, f[i - 1], path[i])]
           shown == CHOOSE f : f = F(f)
           x == <<"chatgpt", lines, path>>
<1>1. \A f : F(f) = Running(x, start, Len(path), f)
  BY DEF Running, Step
<1>2. ChatGptToCommon(lines) = shown[Len(path)].out
  BY DEF ChatGptToCommon
<1> HIDE DEF x, start
<1>3. PICK f : f = Running(x, start, Len(path), f)
  BY RunExists
<1>4. shown = F(shown)
  BY <1>1, <1>3
<1> HIDE DEF shown
<1>5. RunOf(x, start, Len(path), shown)
  BY <1>1, <1>4, Started
<1>6. QED
  BY <1>2, <1>5 DEF x, start

NodesShownOK(s) == s = [out |-> s.out, lastToolId |-> s.lastToolId] /\ BodyOK(s.out)

LEMMA ChatGptNodeRead ==
  ASSUME NEW lines, NEW s, NodesShownOK(s), NEW node, node.reasoning => node.role = "assistant"
  PROVE  NodesShownOK(OnNode(lines, s, node))
<1>1. ASSUME NEW more, BodyOK(more), NEW last PROVE NodesShownOK([out |-> s.out \o more, lastToolId |-> last])
  <2>1. PICK out : out = s.out \o more
    OBVIOUS
  <2>2. BodyOK(out)
    BY <1>1, <2>1, MoreMessages DEF NodesShownOK
  <2>3. QED
    BY <2>1, <2>2 DEF NodesShownOK
<1>2. ASSUME NEW msg, MessageOK(msg), NEW last PROVE NodesShownOK([out |-> Append(s.out, msg), lastToolId |-> last])
  <2>1. PICK out : out = Append(s.out, msg)
    OBVIOUS
  <2>2. BodyOK(out)
    BY <1>2, <2>1, OneMoreMessage DEF NodesShownOK
  <2>3. QED
    BY <2>1, <2>2 DEF NodesShownOK
<1>3. CASE node.role = "tool"
  <2>1. PICK result : result = Result(ChatGptResultId(lines, node, s.lastToolId), node.v, FALSE)
    OBVIOUS
  <2>2. PICK more, out : /\ more = IF node.v = Blank THEN <<>> ELSE <<User(<<result>>)>>
                         /\ out = s.out \o more
    OBVIOUS
  <2>3. OnNode(lines, s, node) = [s EXCEPT !.out = out]
    BY <1>3, <2>1, <2>2 DEF OnNode
  <2>4. MessageOK(User(<<result>>))
    BY <2>1, ResultOK, OneBlock DEF User
  <2>5. BodyOK(more)
    BY <2>2, <2>4, NoMessages, OneMessage
  <2>6. [s EXCEPT !.out = out] = [out |-> out, lastToolId |-> s.lastToolId]
    BY DEF NodesShownOK
  <2>7. BodyOK(out)
    BY <2>2, <2>5, MoreMessages DEF NodesShownOK
  <2>8. NodesShownOK([out |-> out, lastToolId |-> s.lastToolId])
    BY <2>7 DEF NodesShownOK
  <2>9. QED
    BY <2>3, <2>6, <2>8
<1>4. CASE node.role = "assistant" /\ ~ node.hidden /\ IsCall(node)
  <2>1. PICK msg : msg = Assistant(<<Use(node.id, node.recipient)>>)
    OBVIOUS
  <2>2. OnNode(lines, s, node) = [out |-> Append(s.out, msg), lastToolId |-> node.id]
    BY <1>4, <2>1 DEF OnNode
  <2>3. MessageOK(msg)
    BY <2>1, UseOK, OneBlock DEF Assistant
  <2>4. QED
    BY <1>2, <2>2, <2>3
<1>5. CASE /\ node.role = "user" \/ (node.role = "assistant" /\ ~ IsCall(node))
           /\ ~ node.hidden /\ node.v # Blank
  <2>1. PICK text, thought : text = Text(node.v) /\ thought = Thinking(node.v)
    OBVIOUS
  <2>2. PICK b : b = IF node.reasoning THEN thought ELSE text
    OBVIOUS
  <2>3. PICK msg : msg = Message(node.role, <<b>>)
    OBVIOUS
  <2>4. OnNode(lines, s, node) = [s EXCEPT !.out = Append(@, msg)]
    BY <1>5, <2>1, <2>2, <2>3 DEF OnNode
  <2>5. BlockOK(node.role, b)
    BY <1>5, <2>1, <2>2, TextOK, ThoughtOK
  <2>6. MessageOK(msg)
    BY <1>5, <2>3, <2>5, OneBlock DEF Message
  <2>7. [s EXCEPT !.out = Append(@, msg)] = [out |-> Append(s.out, msg), lastToolId |-> s.lastToolId]
    BY DEF NodesShownOK
  <2>8. QED
    BY <1>2, <2>4, <2>6, <2>7
<1>6. CASE /\ node.role # "tool"
           /\ ~ (node.role = "assistant" /\ ~ node.hidden /\ IsCall(node))
           /\ ~ (/\ node.role = "user" \/ (node.role = "assistant" /\ ~ IsCall(node))
                 /\ ~ node.hidden /\ node.v # Blank)
  BY <1>6 DEF OnNode
<1>7. QED
  BY <1>3, <1>4, <1>5, <1>6

LEMMA ChatGptRead ==
  ASSUME NEW lines, LogOK("chatgpt", lines)
  PROVE  BodyOK(ChatGptToCommon(lines))
<1>1. PICK path, start : path = ChatGptActivePath(lines) /\ start = [out |-> <<>>, lastToolId |-> NoId]
  OBVIOUS
<1>2. IsList(path) /\ \A node \in ToSet(path) : node.reasoning => node.role = "assistant"
  BY <1>1, ChatGptPath, ChatGptNodesAre
<1>3. PICK n \in Nat : n = Len(path)
  BY <1>2, Lengths
<1>4. PICK f : RunOf(<<"chatgpt", lines, path>>, start, n, f) /\ ChatGptToCommon(lines) = f[n].out
  BY <1>1, <1>3, ChatGptRuns
<1>5. \A i \in 1 .. n : path[i].reasoning => path[i].role = "assistant"
  BY <1>2, <1>3, Members
<1> DEFINE T == {i \in 0 .. n : NodesShownOK(f[i])}
<1>6. 0 \in T
  <2>1. NodesShownOK(start)
    BY <1>1, NoMessages DEF NodesShownOK
  <2>2. f[0] = start
    BY <1>4 DEF RunOf
  <2>3. QED
    BY <2>1, <2>2
<1>7. ASSUME NEW i \in 1 .. n, i - 1 \in T PROVE i \in T
  <2>1. f[i] = OnNode(lines, f[i - 1], path[i])
    BY <1>4 DEF RunOf, Step
  <2>2. NodesShownOK(f[i])
    BY <1>5, <1>7, <2>1, ChatGptNodeRead
  <2>3. QED
    BY <2>2
<1> HIDE DEF T
<1>8. n \in T
  BY <1>6, <1>7, AllNumbers
<1>9. QED
  BY <1>4, <1>8 DEF T, NodesShownOK

LEMMA ChatGptNodeOK ==
  ASSUME NEW id, NEW parent, NEW role, NEW recipient, NEW reasoning \in BOOLEAN, NEW hidden, NEW v,
         reasoning => role = "assistant"
  PROVE  LineOK("chatgpt", ChatGptNode(id, parent, role, recipient, reasoning, hidden, v))
BY LinesAre DEF ChatGptLineOK, ChatGptNode

LEMMA ChatGptGrown ==
  ASSUME NEW lines, ChatGptOK(lines), NEW n, NEW grown \in ChatGptGrow(lines, n)
  PROVE  ChatGptOK(grown)
<1>1. PICK node, head : /\ grown = Append([lines EXCEPT ![1].current = head], node)
                        /\ LineOK("chatgpt", node)
  <2> DEFINE id == <<"node", n>>
             here == lines[1].current
             at == NodeAt(lines, here)
             beside == IF at = <<>> THEN {} ELSE {at[1].parent}
             Node(parent, role, recipient, reasoning, hidden) ==
               ChatGptNode(id, parent, role, recipient, reasoning, hidden, <<n>>)
             called == at # <<>> /\ IsCall(at[1])
             said == {Node(here, "user", "all", FALSE, FALSE), Node(here, "assistant", "all", TRUE, FALSE),
                      Node(here, "system", "all", FALSE, TRUE), Node(here, "assistant", "python", FALSE, FALSE)}
             tried == {Node(parent, "assistant", "all", FALSE, FALSE) : parent \in {here} \cup beside}
             answered == {Node(here, "tool", "all", FALSE, FALSE) : i \in IF called THEN {1} ELSE {}}
  <2>1. PICK node \in said \cup tried \cup answered : grown = Append([lines EXCEPT ![1].current = id], node)
    BY Zenon DEF ChatGptGrow
  <2> HIDE DEF id, here, beside, called
  <2>2. \A parent, role, recipient, hidden : LineOK("chatgpt", Node(parent, role, recipient, FALSE, hidden))
    BY ChatGptNodeOK
  <2>3. LineOK("chatgpt", Node(here, "assistant", "all", TRUE, FALSE))
    BY ChatGptNodeOK
  <2> HIDE DEF Node
  <2>4. LineOK("chatgpt", node)
    BY <2>1, <2>2, <2>3
  <2>5. QED
    BY <2>1, <2>4
<1>2. PICK id, title, current : lines[1] = ChatGptConversation(id, title, current)
  BY DEF ChatGptOK
<1>3. PICK l, moved : l = ChatGptConversation(id, title, head) /\ moved = [lines EXCEPT ![1] = l]
  OBVIOUS
<1>4. [lines EXCEPT ![1].current = head] = moved
  <2>1. [lines[1] EXCEPT !.current = head] = l
    BY <1>2, <1>3 DEF ChatGptConversation
  <2>2. QED
    BY <1>3, <2>1, Zenon
<1>5. LogOK("chatgpt", lines) /\ lines # <<>> /\ IsList(lines)
  BY DEF ChatGptOK, LogOK
<1>6. LineOK("chatgpt", l)
  BY <1>3, LinesAre DEF ChatGptLineOK, ChatGptConversation
<1>7. LogOK("chatgpt", moved)
  BY <1>3, <1>5, <1>6, LineChanged
<1>8. IsList(moved) /\ moved # <<>> /\ moved[1] = l
  BY <1>3, <1>5, FirstReplaced
<1>9. grown = Append(moved, node)
  BY <1>1, <1>4, Zenon
<1>10. LogOK("chatgpt", grown)
  BY <1>1, <1>7, <1>9, OneMoreLine
<1>11. grown # <<>> /\ grown[1] = l
  <2>1. 1 \in 1 .. Len(moved)
    BY <1>8, Lengths
  <2>2. QED
    BY <1>8, <1>9, <2>1, Appended
<1>12. QED
  BY <1>3, <1>10, <1>11 DEF ChatGptOK

(***************************************************************************)
(* Claude Code.                                                            *)
(***************************************************************************)
ClaudeStart == [out |-> <<>>, open |-> NoId]

LEMMA ClaudeRuns ==
  ASSUME NEW lines, Len(ClaudeRecords(lines)) \in Nat
  PROVE  LET records == ClaudeRecords(lines)
         IN \E f : /\ RunOf(<<"claude", records>>, ClaudeStart, Len(records), f)
                   /\ ClaudeToCommon(lines) = f[Len(records)].out
<1> DEFINE records == ClaudeRecords(lines)
           F(f) == [i \in 0 .. Len(records) |->
                      IF i = 0 THEN [out |-> <<>>, open |-> NoId] ELSE ClaudeOnRecord(f[i - 1], records[i])]
           read == CHOOSE f : f = F(f)
<1>1. \A f : F(f) = Running(<<"claude", records>>, ClaudeStart, Len(records), f)
  BY DEF Running, Step, ClaudeStart
<1>2. ClaudeToCommon(lines) = read[Len(records)].out
  BY DEF ClaudeToCommon
<1> HIDE DEF records
<1>3. PICK f : f = Running(<<"claude", records>>, ClaudeStart, Len(records), f)
  BY RunExists DEF records
<1>4. read = F(read)
  BY <1>1, <1>3
<1> HIDE DEF read
<1>5. RunOf(<<"claude", records>>, ClaudeStart, Len(records), read)
  BY <1>1, <1>4, Started DEF records
<1>6. QED
  BY <1>2, <1>5 DEF records

\* What is parsed of a list of blocks is a message if there is any.
LEMMA ClaudeContentRead ==
  ASSUME NEW role \in {"user", "assistant"}, NEW content, IsList(content),
         \A b \in ToSet(content) : BlockOK(role, ParseBlock(b))
  PROVE  BodyOK(IfSome(content, <<Message(role, Each(ParseBlock, content))>>))
<1> DEFINE read == [i \in DOMAIN content |-> ParseBlock(content[i])]
<1>1. Each(ParseBlock, content) = read
  BY DEF Each
<1>2. \A i \in 1 .. Len(content) : i \in DOMAIN content /\ BlockOK(role, ParseBlock(content[i]))
  BY Lengths
<1>3. \A i \in 1 .. Len(content) : BlockOK(role, read[i])
  BY <1>2
<1>4. read = [i \in DOMAIN content |-> read[i]]
  OBVIOUS
<1> HIDE DEF read
<1>5. /\ IsList(read) /\ Len(read) = Len(content)
      /\ \A b \in ToSet(read) : \E i \in 1 .. Len(content) : b = read[i]
  BY <1>4, EachElements
<1>6. ContentOK(role, read)
  BY <1>3, <1>5 DEF ContentOK
<1>7. content # <<>> => read # <<>>
  BY <1>5, Lengths, NoneListed
<1>8. content # <<>> => MessageOK([role |-> role, content |-> read])
  BY <1>6, <1>7 DEF MessageOK
<1>9. QED
  BY <1>1, <1>8, OneMessage, NoMessages DEF IfSome, Message

ClaudeOK(s) == s = [out |-> s.out, open |-> s.open] /\ BodyOK(s.out)

LEMMA EnvelopeRead ==
  ASSUME NEW s, ClaudeOK(s), NEW line, line.envelope \in {"command", "stdout", "caveat"}
  PROVE  ClaudeOK(FromEnvelope(s, line))
<1>1. CASE line.envelope = "command"
  <2>1. FromEnvelope(s, line) = [out |-> Append(s.out, User(<<Use(line.uuid, Release)>>)), open |-> line.uuid]
    BY <1>1 DEF FromEnvelope
  <2>2. BlockOK("user", Use(line.uuid, Release))
    BY DEF BlockOK, Blocks, Use
  <2>3. MessageOK(User(<<Use(line.uuid, Release)>>))
    BY <2>2, OneBlock DEF User
  <2>4. BodyOK(Append(s.out, User(<<Use(line.uuid, Release)>>)))
    BY <2>3, OneMoreMessage DEF ClaudeOK
  <2>5. QED
    BY <2>1, <2>4 DEF ClaudeOK
<1>2. CASE line.envelope = "stdout"
  <2>1. PICK id : FromEnvelope(s, line)
                  = [out |-> Append(s.out, User(<<Result(id, line.content[1].v, FALSE)>>)), open |-> NoId]
    BY <1>2 DEF FromEnvelope
  <2>2. PICK v : v = line.content[1].v
    OBVIOUS
  <2>3. BlockOK("user", Result(id, v, FALSE))
    BY DEF BlockOK, Blocks, Result
  <2>4. MessageOK(User(<<Result(id, v, FALSE)>>))
    BY <2>3, OneBlock DEF User
  <2>5. BodyOK(Append(s.out, User(<<Result(id, v, FALSE)>>)))
    BY <2>4, OneMoreMessage DEF ClaudeOK
  <2>6. QED
    BY <2>1, <2>2, <2>5 DEF ClaudeOK
<1>3. CASE line.envelope = "caveat"
  BY <1>3 DEF FromEnvelope
<1>4. QED
  BY <1>1, <1>2, <1>3

LEMMA ClaudeLineRead ==
  ASSUME NEW s, ClaudeOK(s), NEW line, ClaudeLineOK(line)
  PROVE  ClaudeOK(ClaudeOnRecord(s, line))
<1>1. CASE line.type \in {"user", "assistant"} /\ line.envelope = "none"
  <2> DEFINE more == IfSome(line.content, <<Message(line.type, Each(ParseBlock, line.content))>>)
  <2>1. ClaudeOnRecord(s, line) = [s EXCEPT !.out = @ \o more]
    BY <1>1 DEF ClaudeOnRecord
  <2>2. BodyOK(more)
    BY <1>1, ClaudeContentRead DEF ClaudeLineOK
  <2> HIDE DEF more
  <2>3. PICK out : out = s.out \o more
    OBVIOUS
  <2>4. BodyOK(out)
    BY <2>2, <2>3, MoreMessages DEF ClaudeOK
  <2>5. [s EXCEPT !.out = out] = [out |-> out, open |-> s.open]
    BY DEF ClaudeOK
  <2>6. QED
    BY <2>1, <2>3, <2>4, <2>5 DEF ClaudeOK
<1>2. CASE line.type \in {"user", "system"} /\ line.envelope # "none"
  <2>1. ClaudeOnRecord(s, line) = FromEnvelope(s, line)
    BY <1>2 DEF ClaudeOnRecord
  <2>2. QED
    BY <1>2, <2>1, EnvelopeRead DEF ClaudeLineOK
<1>3. CASE /\ ~ (line.type \in {"user", "assistant"} /\ line.envelope = "none")
           /\ ~ (line.type \in {"user", "system"} /\ line.envelope # "none")
  BY <1>3 DEF ClaudeOnRecord
<1>4. QED
  BY <1>1, <1>2, <1>3

LEMMA ClaudeRead ==
  ASSUME NEW lines, LogOK("claude", lines)
  PROVE  BodyOK(ClaudeToCommon(lines))
<1> DEFINE records == ClaudeRecords(lines)
           n == Len(records)
<1>1. IsList(records) /\ ToSet(records) \subseteq ToSet(lines)
  <2> DEFINE at == {i \in DOMAIN lines : lines[i].type # "junk"}
  <2>1. records = Kept(lines, at)
    BY DEF ClaudeRecords, Where
  <2> HIDE DEF at, records
  <2>2. QED
    BY <2>1, KeptSome DEF LogOK
<1>2. n \in Nat /\ \A i \in 1 .. n : ClaudeLineOK(records[i])
  <2> HIDE DEF records
  <2>1. QED
    BY <1>1, Lengths, LinesAre DEF LogOK
<1>3. PICK f : RunOf(<<"claude", records>>, ClaudeStart, n, f) /\ ClaudeToCommon(lines) = f[n].out
  BY <1>2, ClaudeRuns
<1> DEFINE T == {i \in 0 .. n : ClaudeOK(f[i])}
<1> HIDE DEF n, records
<1>4. 0 \in T
  BY <1>2, <1>3, NoMessages DEF RunOf, ClaudeOK, ClaudeStart
<1>5. ASSUME NEW i \in 1 .. n, i - 1 \in T PROVE i \in T
  <2>1. f[i] = ClaudeOnRecord(f[i - 1], records[i])
    BY <1>3 DEF RunOf, Step
  <2>2. ClaudeOK(f[i])
    BY <1>2, <1>5, <2>1, ClaudeLineRead
  <2>3. QED
    BY <1>2, <2>2
<1> HIDE DEF T
<1>6. n \in T
  BY <1>2, <1>4, <1>5, AllNumbers
<1>7. QED
  BY <1>3, <1>6 DEF T, ClaudeOK

LEMMA Lowered ==
  ASSUME NEW msg, MessageOK(msg)
  PROVE  BodyOK(Lower(msg))
<1> DEFINE at == {i \in DOMAIN msg.content : Published(msg.content[i])}
           files == IF msg.role = "assistant" THEN Kept(msg.content, at) ELSE <<>>
           results == [i \in DOMAIN files |-> Result(files[i].id, OwnWords, FALSE)]
<1>1. Lower(msg) = <<msg>> \o IfSome(files, <<User(results)>>)
  BY DEF Lower, Where, Each
<1>2. IsList(files)
  <2>1. IsList(msg.content)
    BY DEF MessageOK, ContentOK
  <2> HIDE DEF at
  <2>2. IsList(Kept(msg.content, at))
    BY <2>1, KeptSome
  <2>3. QED
    BY <2>2, NoneListed
<1> HIDE DEF files
<1>3. \A i \in 1 .. Len(files) : i \in DOMAIN files
  BY <1>2, Lengths
<1>4. \A i \in 1 .. Len(files) : BlockOK("user", results[i])
  <2>1. \A id : BlockOK("user", Result(id, OwnWords, FALSE))
    BY DEF BlockOK, Blocks, Result
  <2>2. QED
    BY <1>3, <2>1
<1>5. results = [i \in DOMAIN files |-> results[i]]
  OBVIOUS
<1> HIDE DEF results
<1>6. /\ IsList(results) /\ Len(results) = Len(files)
      /\ \A b \in ToSet(results) : \E i \in 1 .. Len(files) : b = results[i]
  BY <1>2, <1>5, EachElements
<1>7. ContentOK("user", results)
  BY <1>4, <1>6 DEF ContentOK
<1>8. files # <<>> => results # <<>>
  BY <1>2, <1>6, Lengths, NoneListed
<1>9. files # <<>> => MessageOK(User(results))
  BY <1>7, <1>8 DEF MessageOK, User
<1>10. BodyOK(IfSome(files, <<User(results)>>))
  BY <1>9, OneMessage, NoMessages DEF IfSome
<1>11. QED
  BY <1>1, <1>10, OneMessage, MoreMessages

LEMMA RecordWritten ==
  ASSUME NEW session, NEW body, BodyOK(body), NEW i \in 1 .. Len(body)
  PROVE  LineOK("claude", RecordOf(session, body, i))
<1> DEFINE msg == body[i]
           entry == Each(SerializeBlock, msg.content)
<1>1. MessageOK(msg)
  BY Lengths DEF BodyOK
<1>2. PICK uuid, parent : RecordOf(session, body, i) \in
        {Envelope("user", "command", uuid, parent, session, Blank),
         Envelope("system", "stdout", uuid, parent, session, msg.content[1].v),
         ClaudeEntry(msg.role, uuid, parent, session, entry)}
  BY DEF RecordOf
<1>3. ClaudeLineOK(Envelope("user", "command", uuid, parent, session, Blank))
  BY DEF ClaudeLineOK, Envelope
<1>4. ClaudeLineOK(Envelope("system", "stdout", uuid, parent, session, msg.content[1].v))
  BY DEF ClaudeLineOK, Envelope
<1>5. IsList(entry) /\ \A b \in ToSet(entry) : BlockOK(msg.role, ParseBlock(b))
  <2> DEFINE written == [k \in DOMAIN msg.content |-> SerializeBlock(msg.content[k])]
  <2>1. entry = written /\ written = [k \in DOMAIN msg.content |-> written[k]]
    BY DEF Each
  <2>2. IsList(msg.content) /\ \A k \in 1 .. Len(msg.content) :
          k \in DOMAIN msg.content /\ BlockOK(msg.role, msg.content[k])
    BY <1>1, Lengths DEF MessageOK, ContentOK
  <2>3. ASSUME NEW k \in 1 .. Len(msg.content) PROVE BlockOK(msg.role, ParseBlock(written[k]))
    <3> DEFINE b == msg.content[k]
    <3>1. written[k] = SerializeBlock(b) /\ BlockOK(msg.role, b)
      BY <2>2
    <3> HIDE DEF b, written
    <3>2. CASE b.kind = "artifact" /\ b.source = "path"
      <4>1. SerializeBlock(b) = [kind |-> "artifact_call", id |-> b.id, v |-> b.v]
        BY <3>2 DEF SerializeBlock, ArtifactCall
      <4>2. ParseBlock(SerializeBlock(b)) = Artifact(b.id, b.v, "path")
        BY <4>1 DEF ParseBlock
      <4>3. QED
        BY <3>1, <3>2, <4>2 DEF BlockOK, Artifact
    <3>3. CASE b.kind = "artifact" /\ b.source = "inline"
      <4>1. SerializeBlock(b) = [kind |-> "document", id |-> NoId, v |-> b.v]
        BY <3>3 DEF SerializeBlock, Document
      <4>2. ParseBlock(SerializeBlock(b)) = Artifact(NoId, b.v, "inline")
        BY <4>1 DEF ParseBlock
      <4>3. QED
        BY <3>1, <3>3, <4>2 DEF BlockOK, Artifact
    <3>4. CASE ~ (b.kind = "artifact" /\ b.source \in {"path", "inline"})
      <4>1. SerializeBlock(b) = b
        BY <3>4 DEF SerializeBlock
      <4>2. b.kind \notin {"artifact_call", "document"}
        BY <3>1 DEF BlockOK, Blocks
      <4>3. ParseBlock(b) = b
        BY <4>2 DEF ParseBlock
      <4>4. QED
        BY <3>1, <4>1, <4>3
    <3>5. QED
      BY <3>2, <3>3, <3>4
  <2> HIDE DEF written, entry
  <2>4. IsList(written) /\ \A b \in ToSet(written) : \E k \in 1 .. Len(msg.content) : b = written[k]
    BY <2>1, <2>2, EachElements
  <2>5. QED
    BY <2>1, <2>3, <2>4
<1> HIDE DEF entry
<1>6. ClaudeLineOK(ClaudeEntry(msg.role, uuid, parent, session, entry))
  BY <1>1, <1>5 DEF ClaudeLineOK, ClaudeEntry, MessageOK
<1>7. QED
  BY <1>2, <1>3, <1>4, <1>6, LinesAre

LEMMA ClaudeWritten ==
  ASSUME NEW meta, NEW messages, BodyOK(messages)
  PROVE  LogOK("claude", ClaudeFromCommon(meta, messages))
<1> DEFINE parts == Each(Lower, messages)
           body == FlattenSeq(parts)
           records == [i \in DOMAIN body |-> RecordOf(meta.id, body, i)]
           anchored == \E i \in DOMAIN records : records[i].type \in {"user", "assistant"}
           front == IF meta.title # NoId /\ anchored THEN <<Title("summary", meta.title)>> ELSE <<>>
<1>1. /\ DOMAIN messages = 1 .. Len(messages) /\ Len(messages) \in Nat
      /\ \A i \in 1 .. Len(messages) : MessageOK(messages[i])
  BY Lengths DEF BodyOK
<1>2. parts = [i \in 1 .. Len(messages) |-> parts[i]] /\ \A i \in 1 .. Len(messages) : BodyOK(parts[i])
  BY <1>1, Lowered DEF Each
<1>3. ClaudeFromCommon(meta, messages) = front \o records
  BY DEF ClaudeFromCommon
<1> HIDE DEF parts
<1>4. BodyOK(body)
  BY <1>1, <1>2, FlattenedMessages
<1> HIDE DEF body
<1>5. \A i \in 1 .. Len(body) : LineOK("claude", records[i])
  BY <1>4, RecordWritten, Lengths DEF BodyOK
<1>6. records = [i \in DOMAIN body |-> records[i]]
  OBVIOUS
<1>7. LogOK("claude", front)
  <2>1. LineOK("claude", Title("summary", meta.title))
    BY LinesAre DEF ClaudeLineOK, Title
  <2>2. QED
    BY <2>1, OneLine, NoLines
<1> HIDE DEF records, front
<1>8. LogOK("claude", records)
  BY <1>4, <1>5, <1>6, LineForEach DEF BodyOK
<1>9. QED
  BY <1>3, <1>7, <1>8, MoreLines

LEMMA ClaudeEntryOK ==
  ASSUME NEW role \in {"user", "assistant"}, NEW uuid, NEW parent, NEW session, NEW content,
         OnlyKinds(content, IF role = "user" THEN {"text", "image", "result"} ELSE {"text", "thinking", "use"})
  PROVE  ClaudeLineOK(ClaudeEntry(role, uuid, parent, session, content))
<1>1. ASSUME NEW b \in ToSet(content) PROVE BlockOK(role, ParseBlock(b))
  <2>1. b.kind \in IF role = "user" THEN {"text", "image", "result"} ELSE {"text", "thinking", "use"}
    BY DEF OnlyKinds
  <2>2. ParseBlock(b) = b
    BY <2>1 DEF ParseBlock
  <2>3. QED
    BY <2>1, <2>2 DEF BlockOK, Blocks
<1>2. QED
  BY <1>1 DEF ClaudeLineOK, ClaudeEntry, OnlyKinds

LEMMA ClaudeGrown ==
  ASSUME NEW lines, LogOK("claude", lines), NEW session, NEW n, NEW grown \in ClaudeGrow(lines, session, n)
  PROVE  LogOK("claude", grown)
<1> DEFINE entries == SelectSeq(lines, LAMBDA l : l.type \in {"user", "assistant", "system"})
           uuid == <<"uuid", n>>
           parent == IF entries = <<>> THEN NoId ELSE Last(entries).uuid
           Entry(role, content) == ClaudeEntry(role, uuid, parent, session, content)
           command == entries # <<>> /\ Last(entries).envelope = "command"
           flat == Each(LAMBDA f : f.block, Flat(ClaudeToCommon(lines)))
           answered == {OfKind(flat, {"result"})[i].id : i \in DOMAIN OfKind(flat, {"result"})}
           published == Where(flat, Published)
           files == {published[i].id : i \in DOMAIN published}
           open == Open(ClaudeToCommon(lines))
           asks == {Entry("user", c) : c \in Asks(n)}
           says == {Entry("assistant", c) : c \in {<<Thinking(<<n>>)>>, <<Text(<<n>>)>>} \cup Calls(n, "Bash")}
           publishes == {Entry("assistant", <<ArtifactCall(<<"a", n>>, <<n>>)>>)}
           answers == {Entry("user", <<Result(id, Output(n, id), Fails(id))>>) : id \in open \cup (files \ answered)}
           commands == {Envelope("user", e, uuid, parent, session, <<n>>) : e \in {"command", "caveat"}}
           prints == {Envelope("system", "stdout", uuid, parent, session, <<n>>) :
                        i \in IF command THEN {1} ELSE {}}
           written == asks \cup says \cup publishes \cup answers \cup commands \cup prints
                      \cup {Title("custom-title", Renamed)}
<1>1. grown \in Appending(lines, written)
  <2>1. ClaudeGrow(lines, session, n) = Appending(lines, written)
    BY Zenon DEF ClaudeGrow
  <2> HIDE DEF written
  <2>2. QED
    BY <2>1
<1> HIDE DEF parent, open, command, answered, files
<1>2. ASSUME NEW l \in asks PROVE ClaudeLineOK(l)
  <2>1. PICK c \in Asks(n) : l = Entry("user", c)
    OBVIOUS
  <2>2. OnlyKinds(c, {"text", "image", "result"})
    BY Asked DEF OnlyKinds
  <2>3. QED
    BY <2>1, <2>2, ClaudeEntryOK
<1>3. ASSUME NEW l \in says PROVE ClaudeLineOK(l)
  <2>1. PICK c \in {<<Thinking(<<n>>)>>, <<Text(<<n>>)>>} \cup Calls(n, "Bash") : l = Entry("assistant", c)
    OBVIOUS
  <2>2. OnlyKinds(<<Thinking(<<n>>)>>, {"text", "thinking", "use"})
    BY OneListed DEF OnlyKinds, Thinking
  <2>3. OnlyKinds(<<Text(<<n>>)>>, {"text", "thinking", "use"})
    BY OneListed DEF OnlyKinds, Text
  <2>4. OnlyKinds(c, {"text", "thinking", "use"})
    BY <2>2, <2>3, Called DEF OnlyKinds
  <2>5. QED
    BY <2>1, <2>4, ClaudeEntryOK
<1>4. ASSUME NEW l \in publishes PROVE ClaudeLineOK(l)
  <2>1. PICK b : b = ArtifactCall(<<"a", n>>, <<n>>)
    OBVIOUS
  <2>2. l = [type |-> "assistant", uuid |-> uuid, parent |-> parent, session |-> session,
             envelope |-> "none", content |-> <<b>>]
    BY <2>1 DEF ClaudeEntry
  <2>3. BlockOK("assistant", ParseBlock(b))
    BY <2>1 DEF BlockOK, Blocks, ParseBlock, ArtifactCall, Artifact
  <2>4. IsList(<<b>>) /\ ToSet(<<b>>) = {b}
    BY OneListed
  <2>5. QED
    BY <2>2, <2>3, <2>4 DEF ClaudeLineOK
<1>5. ASSUME NEW l \in answers PROVE ClaudeLineOK(l)
  <2>1. PICK id : l = Entry("user", <<Result(id, Output(n, id), Fails(id))>>)
    OBVIOUS
  <2>2. PICK b : b = Result(id, Output(n, id), Fails(id))
    OBVIOUS
  <2>3. OnlyKinds(<<b>>, {"text", "image", "result"})
    BY <2>2, OneListed DEF OnlyKinds, Result
  <2>4. QED
    BY <2>1, <2>2, <2>3, ClaudeEntryOK
<1>6. ASSUME NEW l \in commands \cup prints PROVE ClaudeLineOK(l)
  <2>1. PICK type \in {"user", "system"}, e \in {"command", "caveat", "stdout"} :
          l = Envelope(type, e, uuid, parent, session, <<n>>)
    OBVIOUS
  <2>2. QED
    BY <2>1 DEF ClaudeLineOK, Envelope
<1>7. ClaudeLineOK(Title("custom-title", Renamed))
  BY DEF ClaudeLineOK, Title
<1> HIDE DEF asks, says, publishes, answers, commands, prints
<1>8. \A l \in written : LineOK("claude", l)
  BY <1>2, <1>3, <1>4, <1>5, <1>6, <1>7, LinesAre
<1> HIDE DEF written
<1>9. QED
  BY <1>1, <1>8, LineAppended

\* The files written out are files still.
LEMMA MaterializedOK ==
  ASSUME NEW body, BodyOK(body)
  PROVE  BodyOK(Materialized(body))
<1> DEFINE ToPath(b) == IF b.kind = "artifact" THEN [b EXCEPT !.source = "path"] ELSE b
           Done(msg) == StoppedAs(msg, Message(msg.role, [k \in DOMAIN msg.content |-> ToPath(msg.content[k])]))
           done == [i \in DOMAIN body |-> Done(body[i])]
<1>1. Materialized(body) = done
  BY DEF Materialized, Each
<1>2. IsList(body) /\ \A i \in 1 .. Len(body) : i \in DOMAIN body /\ MessageOK(body[i])
  BY Lengths DEF BodyOK
<1>3. ASSUME NEW msg, MessageOK(msg) PROVE MessageOK(Done(msg))
  <2> DEFINE content == [k \in DOMAIN msg.content |-> ToPath(msg.content[k])]
  <2>1. Done(msg) = StoppedAs(msg, [role |-> msg.role, content |-> content])
    BY DEF Message
  <2>2. IsList(msg.content) /\ msg.content # <<>> /\ msg.role \in {"user", "assistant"}
        /\ \A k \in 1 .. Len(msg.content) : k \in DOMAIN msg.content /\ BlockOK(msg.role, msg.content[k])
    <3> HIDE DEF content, Done, ToPath
    <3>1. QED
      BY <1>3, Lengths DEF MessageOK, ContentOK
  <2>3. ASSUME NEW b, BlockOK(msg.role, b) PROVE BlockOK(msg.role, ToPath(b))
    <3>1. CASE b.kind = "artifact"
      <4>1. PICK c : c = [b EXCEPT !.source = "path"]
        OBVIOUS
      <4>2. c.kind = b.kind /\ DOMAIN c = DOMAIN b
        BY <3>1, <4>1, <2>3 DEF BlockOK
      <4>3. BlockOK(msg.role, c)
        BY <2>3, <3>1, <4>2 DEF BlockOK
      <4>4. QED
        BY <3>1, <4>1, <4>3
    <3>2. CASE b.kind # "artifact"
      BY <2>3, <3>2
    <3>3. QED
      BY <3>1, <3>2
  <2>4. content = [k \in DOMAIN msg.content |-> content[k]]
        /\ \A k \in 1 .. Len(msg.content) : BlockOK(msg.role, content[k])
    BY <2>2, <2>3
  <2> HIDE DEF content, ToPath, Done
  <2>5. /\ IsList(content) /\ Len(content) = Len(msg.content)
        /\ \A b \in ToSet(content) : \E k \in 1 .. Len(msg.content) : b = content[k]
    BY <2>2, <2>4, EachElements
  <2>6. ContentOK(msg.role, content) /\ content # <<>>
    BY <2>2, <2>4, <2>5, Lengths, NoneListed DEF ContentOK
  <2>7. MessageOK([role |-> msg.role, content |-> content])
    BY <2>2, <2>6 DEF MessageOK
  <2>8. QED
    BY <2>1, <2>7, StoppedMessageOK
<1> HIDE DEF Done
<1>4. done = [i \in DOMAIN body |-> done[i]] /\ \A i \in 1 .. Len(body) : MessageOK(done[i])
  BY <1>2, <1>3
<1> HIDE DEF done
<1>5. IsList(done) /\ \A m \in ToSet(done) : \E i \in 1 .. Len(body) : m = done[i]
  BY <1>2, <1>4, EachElements
<1>6. QED
  BY <1>1, <1>4, <1>5 DEF BodyOK

(***************************************************************************)
(* Claude's chat.                                                          *)
(***************************************************************************)
ClaudeChatOK(lines) ==
  /\ LogOK("claude_chat", lines) /\ lines # <<>>
  /\ \E id, title, leaf : lines[1] = Chat(id, title, leaf)

NativeOK(m) ==
  /\ OnlyKinds(m.images, {"image"}) /\ IsList(m.content)
  /\ \A b \in ToSet(m.content) : b.kind = "result" => FilesOK(b)

LEMMA ClaudeChatMessagesAre ==
  ASSUME NEW lines, LogOK("claude_chat", lines)
  PROVE  /\ IsList(ClaudeChatMessages(lines))
         /\ \A m \in ToSet(ClaudeChatMessages(lines)) : NativeOK(m)
<1> DEFINE at == {i \in DOMAIN lines : lines[i].type = "message"}
<1>1. ClaudeChatMessages(lines) = Kept(lines, at)
  BY DEF ClaudeChatMessages, Where
<1>2. \A i \in at : lines[i].type = "message"
  OBVIOUS
<1> HIDE DEF at
<1>3. /\ IsList(Kept(lines, at))
      /\ \A e \in ToSet(Kept(lines, at)) : \E i \in 1 .. Len(lines) : i \in at /\ lines[i] = e
  BY KeptElements DEF LogOK
<1>4. \A i \in 1 .. Len(lines) : ClaudeChatLineOK(lines[i])
  BY MemberLines, LinesAre
<1>5. QED
  BY <1>1, <1>2, <1>3, <1>4 DEF ClaudeChatLineOK, NativeOK

LEMMA ClaudeChatNamed ==
  ASSUME NEW lines, LogOK("claude_chat", lines), NEW uuid
  PROVE  IsList(Named(lines, uuid)) /\ ToSet(Named(lines, uuid)) \subseteq ToSet(ClaudeChatMessages(lines))
<1>1. PICK messages : messages = ClaudeChatMessages(lines)
  OBVIOUS
<1> DEFINE at == {i \in DOMAIN messages : messages[i].uuid = uuid}
<1>2. Where(messages, LAMBDA m : m.uuid = uuid) = Kept(messages, at)
  BY DEF Where
<1> HIDE DEF at
<1>3. PICK found : found = Kept(messages, at)
  OBVIOUS
<1>4. Named(lines, uuid) = IF found = <<>> THEN <<>> ELSE <<Last(found)>>
  BY <1>1, <1>2, <1>3 DEF Named
<1>5. IsList(messages)
  BY <1>1, ClaudeChatMessagesAre
<1>6. IsList(found) /\ ToSet(found) \subseteq ToSet(messages)
  BY <1>3, <1>5, KeptSome
<1>7. CASE found = <<>>
  BY <1>4, <1>7, NoneListed
<1>8. CASE found # <<>>
  <2>1. PICK last : last = Last(found)
    OBVIOUS
  <2>2. last \in ToSet(messages)
    BY <1>6, <1>8, <2>1, Fronted
  <2>3. QED
    BY <1>1, <1>4, <1>8, <2>1, <2>2, OneListed
<1>9. QED
  BY <1>7, <1>8

LEMMA ClaudeChatUp ==
  ASSUME NEW lines, Len(lines) \in Nat
  PROVE  \E f : /\ RunOf(<<"claude_chat up", lines>>, Named(lines, lines[1].leaf), Len(lines), f)
                /\ ClaudeChatAncestors(lines) = [k \in 1 .. Len(lines) |-> f[k - 1]]
<1> DEFINE start == Named(lines, lines[1].leaf)
           F(f) == [k \in 0 .. Len(lines) |->
                      IF k = 0 THEN Named(lines, lines[1].leaf) ELSE ClaudeChatParentOf(lines, f[k - 1])]
           up == CHOOSE f : f = F(f)
           x == <<"claude_chat up", lines>>
<1>1. \A f : F(f) = Running(x, start, Len(lines), f)
  BY DEF Running, Step
<1>2. ClaudeChatAncestors(lines) = [k \in 1 .. Len(lines) |-> up[k - 1]]
  BY DEF ClaudeChatAncestors
<1> HIDE DEF x, start
<1>3. PICK f : f = Running(x, start, Len(lines), f)
  BY RunExists
<1>4. up = F(up)
  BY <1>1, <1>3
<1> HIDE DEF up
<1>5. RunOf(x, start, Len(lines), up)
  BY <1>1, <1>4, Started
<1>6. QED
  BY <1>2, <1>5 DEF x, start

LEMMA ClaudeChatPath ==
  ASSUME NEW lines, LogOK("claude_chat", lines)
  PROVE  /\ IsList(ClaudeChatActivePath(lines))
         /\ ToSet(ClaudeChatActivePath(lines)) \subseteq ToSet(ClaudeChatMessages(lines))
<1>1. PICK n \in Nat : n = Len(lines)
  BY Lengths DEF LogOK
<1>2. PICK start : start = Named(lines, lines[1].leaf)
  OBVIOUS
<1>3. PICK f : /\ RunOf(<<"claude_chat up", lines>>, start, n, f)
               /\ ClaudeChatAncestors(lines) = [k \in 1 .. n |-> f[k - 1]]
  <2>1. \E f : /\ RunOf(<<"claude_chat up", lines>>, Named(lines, lines[1].leaf), Len(lines), f)
               /\ ClaudeChatAncestors(lines) = [k \in 1 .. Len(lines) |-> f[k - 1]]
    BY <1>1, ClaudeChatUp
  <2>2. QED
    BY <1>1, <1>2, <2>1, Zenon
<1>4. f[0] = start /\ \A k \in 1 .. n : f[k] = ClaudeChatParentOf(lines, f[k - 1])
  BY <1>3 DEF RunOf, Step
<1>5. \A k \in 0 .. n : IsList(f[k]) /\ ToSet(f[k]) \subseteq ToSet(ClaudeChatMessages(lines))
  <2>1. ASSUME NEW k \in 0 .. n PROVE IsList(f[k]) /\ ToSet(f[k]) \subseteq ToSet(ClaudeChatMessages(lines))
    <3>1. CASE k = 0
      BY <1>2, <1>4, <3>1, ClaudeChatNamed
    <3>2. CASE k # 0
      <4>1. f[k] = ClaudeChatParentOf(lines, f[k - 1])
        BY <1>4, <3>2
      <4>2. QED
        BY <4>1, NoneListed, ClaudeChatNamed DEF ClaudeChatParentOf
    <3>3. QED
      BY <3>1, <3>2
  <2>2. QED
    BY <2>1
<1>6. \A k \in 1 .. n : f[k - 1] = <<>> => f[k] = <<>>
  BY <1>4 DEF ClaudeChatParentOf
<1> DEFINE up == ClaudeChatAncestors(lines)
           roots == {k \in DOMAIN up : up[k] # <<>> /\ up[k][1].parent = NoId}
           root == CHOOSE k \in roots : TRUE
           s == [k \in 1 .. root |-> up[k][1]]
<1>7. ClaudeChatActivePath(lines) = IF roots = {} THEN ClaudeChatMessages(lines) ELSE Reverse(s)
  BY DEF ClaudeChatActivePath
<1>8. DOMAIN up = 1 .. n /\ \A k \in 1 .. n : up[k] = f[k - 1]
  BY <1>3
<1> HIDE DEF up
<1>9. CASE roots = {}
  BY <1>7, <1>9, ClaudeChatMessagesAre
<1>10. CASE roots # {}
  <2>1. PICK top \in roots : top = root
    BY <1>10
  <2>2. top \in 1 .. n /\ f[top - 1] # <<>>
    BY <1>8, <2>1
  <2>3. PICK t : t = [k \in 1 .. top |-> up[k][1]]
    OBVIOUS
  <2>4. s = t
    BY <2>1, <2>3
  <2>5. t = [k \in 1 .. top |-> t[k]] /\ \A k \in 1 .. top : t[k] = f[k - 1][1]
    BY <1>8, <2>2, <2>3
  <2> HIDE DEF s, root, roots
  <2>6. PICK path : path = Reverse(t)
    OBVIOUS
  <2>7. PICK S : S = ToSet(ClaudeChatMessages(lines))
    OBVIOUS
  <2>8. \A k \in 0 .. n : IsList(f[k]) /\ ToSet(f[k]) \subseteq S
    BY <1>5, <2>7
  <2>9. \A k \in 1 .. top : f[k - 1][1] \in S
    BY <1>6, <2>2, <2>8, WayUp
  <2>10. IsList(path) /\ ToSet(path) \subseteq S
    <3>1. top \in Nat /\ \A k \in 1 .. top : t[k] \in S
      BY <2>2, <2>5, <2>9
    <3>2. t = [k \in 1 .. top |-> t[k]]
      BY <2>5
    <3>3. QED
      BY <2>6, <3>1, <3>2, TurnedRound
  <2>11. QED
    BY <1>7, <1>10, <2>4, <2>6, <2>7, <2>10, Zenon
<1>11. QED
  BY <1>9, <1>10

(***************************************************************************)
(* What AppendRoleBlock puts together.                                     *)
(***************************************************************************)
Chatting(out, role, pending, last) ==
  [out |-> out, role |-> role, pending |-> pending, lastToolId |-> last]
ChattingOK(s) ==
  /\ s = Chatting(s.out, s.role, s.pending, s.lastToolId)
  /\ BodyOK(s.out) /\ s.role \in {"user", "assistant"} /\ ContentOK(s.role, s.pending)

LEMMA ChattingIs ==
  ASSUME NEW out, BodyOK(out), NEW role \in {"user", "assistant"}, NEW pending, ContentOK(role, pending),
         NEW last
  PROVE  ChattingOK(Chatting(out, role, pending, last))
BY DEF ChattingOK, Chatting

LEMMA RoleBlockAppended ==
  ASSUME NEW s, ChattingOK(s), NEW role \in {"user", "assistant"}, NEW b, BlockOK(role, b)
  PROVE  ChattingOK(AppendRoleBlock(s, role, b))
<1>1. PICK out, was, pending, last : s = Chatting(out, was, pending, last)
  BY DEF ChattingOK
<1>2. s.out = out /\ s.role = was /\ s.pending = pending /\ s.lastToolId = last
  BY <1>1 DEF Chatting
<1>3. BodyOK(out) /\ was \in {"user", "assistant"} /\ ContentOK(was, pending)
  BY <1>2 DEF ChattingOK
<1>4. CASE was = role \/ pending = <<>>
  <2>1. PICK more : more = Append(pending, b)
    OBVIOUS
  <2>2. ContentOK(role, more)
    BY <1>3, <1>4, <2>1, Appended, NoContent DEF ContentOK
  <2>3. AppendRoleBlock(s, role, b) = [s EXCEPT !.role = role, !.pending = more]
    BY <1>2, <1>4, <2>1 DEF AppendRoleBlock
  <2>4. PICK r : r = [s EXCEPT !.role = role]
    OBVIOUS
  <2>5. r = Chatting(out, role, pending, last)
    BY <1>1, <2>4 DEF Chatting
  <2>6. PICK t : t = [r EXCEPT !.pending = more]
    OBVIOUS
  <2>7. t = Chatting(out, role, more, last)
    BY <2>5, <2>6 DEF Chatting
  <2>8. AppendRoleBlock(s, role, b) = t
    BY <2>3, <2>4, <2>6, Zenon
  <2>9. QED
    BY <1>3, <2>2, <2>7, <2>8, ChattingIs
<1>5. CASE ~ (was = role \/ pending = <<>>)
  <2>1. PICK msg : msg = Message(was, pending)
    OBVIOUS
  <2>2. MessageOK(msg)
    BY <1>3, <1>5, <2>1 DEF MessageOK, Message
  <2>3. PICK more : more = Append(out, msg)
    OBVIOUS
  <2>4. BodyOK(more)
    BY <1>3, <2>2, <2>3, OneMoreMessage
  <2>5. PICK one : one = <<b>>
    OBVIOUS
  <2>6. ContentOK(role, one)
    BY <2>5, OneBlockContent
  <2>7. AppendRoleBlock(s, role, b) = [s EXCEPT !.out = more, !.role = role, !.pending = one]
    BY <1>2, <1>5, <2>1, <2>3, <2>5 DEF AppendRoleBlock
  <2>8. PICK q : q = [s EXCEPT !.out = more]
    OBVIOUS
  <2>9. q = Chatting(more, was, pending, last)
    BY <1>1, <2>8 DEF Chatting
  <2>10. PICK r : r = [q EXCEPT !.role = role]
    OBVIOUS
  <2>11. r = Chatting(more, role, pending, last)
    BY <2>9, <2>10 DEF Chatting
  <2>12. PICK t : t = [r EXCEPT !.pending = one]
    OBVIOUS
  <2>13. t = Chatting(more, role, one, last)
    BY <2>11, <2>12 DEF Chatting
  <2>14. AppendRoleBlock(s, role, b) = t
    BY <2>7, <2>8, <2>10, <2>12, Zenon
  <2>15. QED
    BY <2>4, <2>6, <2>13, <2>14, ChattingIs
<1>6. QED
  BY <1>4, <1>5

LEMMA RoleBlockRuns ==
  ASSUME NEW s, NEW role, NEW blocks, Len(blocks) \in Nat
  PROVE  \E f : /\ RunOf(<<"claude_chat role", role, blocks>>, s, Len(blocks), f)
                /\ AppendRoleBlocks(s, role, blocks) = f[Len(blocks)]
<1> DEFINE F(f) == [j \in 0 .. Len(blocks) |->
                      IF j = 0 THEN s ELSE AppendRoleBlock(f[j - 1], role, blocks[j])]
           upTo == CHOOSE f : f = F(f)
           x == <<"claude_chat role", role, blocks>>
<1>1. \A f : F(f) = Running(x, s, Len(blocks), f)
  BY DEF Running, Step
<1>2. AppendRoleBlocks(s, role, blocks) = upTo[Len(blocks)]
  BY DEF AppendRoleBlocks
<1> HIDE DEF x
<1>3. PICK f : f = Running(x, s, Len(blocks), f)
  BY RunExists
<1>4. upTo = F(upTo)
  BY <1>1, <1>3
<1> HIDE DEF upTo
<1>5. RunOf(x, s, Len(blocks), upTo)
  BY <1>1, <1>4, Started
<1>6. QED
  BY <1>2, <1>5 DEF x

LEMMA RoleBlocksAppended ==
  ASSUME NEW s, ChattingOK(s), NEW role \in {"user", "assistant"}, NEW blocks,
         IsList(blocks), \A b \in ToSet(blocks) : BlockOK(role, b)
  PROVE  ChattingOK(AppendRoleBlocks(s, role, blocks))
<1>1. Len(blocks) \in Nat /\ \A j \in 1 .. Len(blocks) : BlockOK(role, blocks[j])
  BY Lengths
<1>2. \E f : /\ RunOf(<<"claude_chat role", role, blocks>>, s, Len(blocks), f)
             /\ AppendRoleBlocks(s, role, blocks) = f[Len(blocks)]
  BY <1>1, RoleBlockRuns
<1>3. PICK n \in Nat : n = Len(blocks)
  BY <1>1
<1>4. PICK f : RunOf(<<"claude_chat role", role, blocks>>, s, n, f) /\ AppendRoleBlocks(s, role, blocks) = f[n]
  BY <1>2, <1>3, Zenon
<1> DEFINE T == {j \in 0 .. n : ChattingOK(f[j])}
<1>5. f[0] = s
  BY <1>4 DEF RunOf
<1>6. 0 \in T
  BY <1>5
<1>7. ASSUME NEW j \in 1 .. n, j - 1 \in T PROVE j \in T
  <2>1. f[j] = AppendRoleBlock(f[j - 1], role, blocks[j])
    BY <1>4 DEF RunOf, Step
  <2>2. BlockOK(role, blocks[j])
    BY <1>1, <1>3
  <2>3. ChattingOK(f[j])
    BY <1>7, <2>1, <2>2, RoleBlockAppended
  <2>4. QED
    BY <2>3
<1> HIDE DEF T
<1>8. n \in T
  BY <1>6, <1>7, AllNumbers
<1>9. QED
  BY <1>4, <1>8 DEF T

LEMMA BlockPushed ==
  ASSUME NEW s, ChattingOK(s), NEW native, NativeOK(native), native.sender \in {"user", "assistant"},
         NEW j \in 1 .. Len(native.content)
  PROVE  ChattingOK(PushBlock(s, native, j))
<1>1. PICK b : b = native.content[j]
  OBVIOUS
<1>2. b.kind = "result" => FilesOK(b)
  BY <1>1, Members DEF NativeOK
<1>3. PICK id, answer, result : /\ id = IF b.id = NoId THEN SyntheticBlockId(native.uuid, j) ELSE b.id
                                /\ answer = ClaudeChatResultId(s, native.uuid, b, j)
                                /\ result = Result(answer, b.v, b.err)
  OBVIOUS
<1>4. PICK answered : answered = AppendRoleBlock(s, "user", result)
  OBVIOUS
<1>5. PushBlock(s, native, j) =
        CASE b.kind = "text" -> IF b.v = Blank THEN s ELSE AppendRoleBlock(s, native.sender, b)
          [] b.kind = "image" -> AppendRoleBlock(s, native.sender, b)
          [] b.kind = "thinking" -> IF b.v = Blank THEN s ELSE AppendRoleBlock(s, "assistant", b)
          [] b.kind = "use" ->
               [AppendRoleBlock(s, "assistant", Use(id, ClaudeChatNormalizeTool(b.tool))) EXCEPT !.lastToolId = id]
          [] b.kind = "result" -> AppendRoleBlocks(answered, "assistant", b.files)
          [] b.kind = "artifact" -> AppendRoleBlock(s, "assistant", Artifact(id, b.v, "inline"))
          [] OTHER -> s
  BY <1>1, <1>3, <1>4, Zenon DEF PushBlock
<1>6. CASE b.kind \in {"text", "image"}
  <2>1. BlockOK(native.sender, b)
    BY <1>6 DEF BlockOK, Blocks
  <2>2. ChattingOK(AppendRoleBlock(s, native.sender, b))
    BY <2>1, RoleBlockAppended
  <2>3. PushBlock(s, native, j) \in {s, AppendRoleBlock(s, native.sender, b)}
    BY <1>5, <1>6
  <2>4. QED
    BY <2>2, <2>3
<1>7. CASE b.kind = "thinking"
  <2>1. BlockOK("assistant", b)
    BY <1>7 DEF BlockOK, Blocks
  <2>2. ChattingOK(AppendRoleBlock(s, "assistant", b))
    BY <2>1, RoleBlockAppended
  <2>3. PushBlock(s, native, j) \in {s, AppendRoleBlock(s, "assistant", b)}
    BY <1>5, <1>7
  <2>4. QED
    BY <2>2, <2>3
<1>8. CASE b.kind = "use"
  <2>1. PICK use : use = Use(id, ClaudeChatNormalizeTool(b.tool))
    OBVIOUS
  <2>2. PICK said : said = AppendRoleBlock(s, "assistant", use)
    OBVIOUS
  <2>3. ChattingOK(said)
    BY <2>1, <2>2, UseOK, RoleBlockAppended
  <2>4. PushBlock(s, native, j) = [said EXCEPT !.lastToolId = id]
    BY <1>5, <1>8, <2>1, <2>2
  <2>5. [said EXCEPT !.lastToolId = id] = Chatting(said.out, said.role, said.pending, id)
    BY <2>3 DEF ChattingOK, Chatting
  <2>6. QED
    BY <2>3, <2>4, <2>5, ChattingIs DEF ChattingOK
<1>9. CASE b.kind = "result"
  <2>1. ChattingOK(answered)
    BY <1>3, <1>4, ResultOK, RoleBlockAppended
  <2>2. IsList(b.files) /\ \A e \in ToSet(b.files) : BlockOK("assistant", e)
    BY <1>2, <1>9 DEF FilesOK
  <2>3. PushBlock(s, native, j) = AppendRoleBlocks(answered, "assistant", b.files)
    BY <1>5, <1>9
  <2>4. QED
    BY <2>1, <2>2, <2>3, RoleBlocksAppended
<1>10. CASE b.kind = "artifact"
  <2>1. PICK file : file = Artifact(id, b.v, "inline")
    OBVIOUS
  <2>2. BlockOK("assistant", file)
    BY <2>1 DEF BlockOK, Blocks, Artifact
  <2>3. PushBlock(s, native, j) = AppendRoleBlock(s, "assistant", file)
    BY <1>5, <1>10, <2>1
  <2>4. QED
    BY <2>2, <2>3, RoleBlockAppended
<1>11. CASE b.kind \notin {"text", "image", "thinking", "use", "result", "artifact"}
  BY <1>5, <1>11
<1>12. QED
  BY <1>6, <1>7, <1>8, <1>9, <1>10, <1>11

LEMMA PushRuns ==
  ASSUME NEW s, NEW native, Len(native.content) \in Nat
  PROVE  \E f : /\ RunOf(<<"claude_chat blocks", native>>, s, Len(native.content), f)
                /\ PushBlocks(s, native) = f[Len(native.content)]
<1> DEFINE F(f) == [j \in 0 .. Len(native.content) |-> IF j = 0 THEN s ELSE PushBlock(f[j - 1], native, j)]
           upTo == CHOOSE f : f = F(f)
           x == <<"claude_chat blocks", native>>
<1>1. \A f : F(f) = Running(x, s, Len(native.content), f)
  BY DEF Running, Step
<1>2. PushBlocks(s, native) = upTo[Len(native.content)]
  BY DEF PushBlocks
<1> HIDE DEF x
<1>3. PICK f : f = Running(x, s, Len(native.content), f)
  BY RunExists
<1>4. upTo = F(upTo)
  BY <1>1, <1>3
<1> HIDE DEF upTo
<1>5. RunOf(x, s, Len(native.content), upTo)
  BY <1>1, <1>4, Started
<1>6. QED
  BY <1>2, <1>5 DEF x

LEMMA BlocksPushed ==
  ASSUME NEW s, ChattingOK(s), NEW native, NativeOK(native), native.sender \in {"user", "assistant"}
  PROVE  ChattingOK(PushBlocks(s, native))
<1>1. Len(native.content) \in Nat
  BY Lengths DEF NativeOK
<1>2. \E f : /\ RunOf(<<"claude_chat blocks", native>>, s, Len(native.content), f)
             /\ PushBlocks(s, native) = f[Len(native.content)]
  BY <1>1, PushRuns
<1>3. PICK n \in Nat : n = Len(native.content)
  BY <1>1
<1>4. PICK f : RunOf(<<"claude_chat blocks", native>>, s, n, f) /\ PushBlocks(s, native) = f[n]
  BY <1>2, <1>3, Zenon
<1> DEFINE T == {j \in 0 .. n : ChattingOK(f[j])}
<1>5. f[0] = s
  BY <1>4 DEF RunOf
<1>6. 0 \in T
  BY <1>5
<1>7. ASSUME NEW j \in 1 .. n, j - 1 \in T PROVE j \in T
  <2>1. f[j] = PushBlock(f[j - 1], native, j)
    BY <1>4 DEF RunOf, Step
  <2>2. j \in 1 .. Len(native.content)
    BY <1>3
  <2>3. ChattingOK(f[j])
    BY <1>7, <2>1, <2>2, BlockPushed
  <2>4. QED
    BY <2>3
<1> HIDE DEF T
<1>8. n \in T
  BY <1>6, <1>7, AllNumbers
<1>9. QED
  BY <1>4, <1>8 DEF T

LEMMA NativeMessagePushed ==
  ASSUME NEW out, BodyOK(out), NEW native, NativeOK(native)
  PROVE  BodyOK(PushNativeMessage(out, native))
<1>1. CASE native.sender \notin {"user", "assistant"}
  BY <1>1 DEF PushNativeMessage
<1>2. CASE native.sender \in {"user", "assistant"}
  <2>1. PICK start : start = Chatting(out, native.sender, <<>>, NoId)
    OBVIOUS
  <2>2. ChattingOK(start)
    BY <1>2, <2>1, NoContent, ChattingIs
  <2>3. PICK read : read = PushBlocks(start, native)
    OBVIOUS
  <2>4. ChattingOK(read)
    BY <1>2, <2>2, <2>3, BlocksPushed
  <2>5. PICK text, added : text = Text(native.text) /\ added = AppendRoleBlock(read, native.sender, text)
    OBVIOUS
  <2>6. ChattingOK(added)
    BY <1>2, <2>4, <2>5, TextOK, RoleBlockAppended
  <2>7. PICK said : /\ said \in {read, added}
                    /\ said = IF \/ native.text = Blank
                                 \/ \E j \in DOMAIN native.content : native.content[j] = Text(native.text)
                              THEN read ELSE added
    OBVIOUS
  <2>8. ChattingOK(said)
    BY <2>4, <2>6, <2>7
  <2>9. PICK shown : shown = AppendRoleBlocks(said, native.sender, native.images)
    OBVIOUS
  <2>10. ChattingOK(shown)
    <3>1. \A b \in ToSet(native.images) : BlockOK(native.sender, b)
      BY DEF NativeOK, OnlyKinds, BlockOK, Blocks
    <3>2. IsList(native.images)
      BY DEF NativeOK, OnlyKinds
    <3>3. QED
      BY <1>2, <2>8, <2>9, <3>1, <3>2, RoleBlocksAppended
  <2>11. PushNativeMessage(out, native) =
           shown.out \o IfSome(shown.pending, <<Message(shown.role, shown.pending)>>)
    BY <1>2, <2>1, <2>3, <2>5, <2>7, <2>9, Zenon DEF PushNativeMessage, Chatting
  <2>12. BodyOK(IfSome(shown.pending, <<Message(shown.role, shown.pending)>>))
    BY <2>10, OneOrNone DEF ChattingOK, Message
  <2>13. QED
    BY <2>10, <2>11, <2>12, MoreMessages DEF ChattingOK
<1>3. QED
  BY <1>1, <1>2

LEMMA ClaudeChatRuns ==
  ASSUME NEW lines, NEW path, path = ClaudeChatActivePath(lines), Len(path) \in Nat
  PROVE  \E f : /\ RunOf(<<"claude_chat", path>>, <<>>, Len(path), f)
                /\ ClaudeChatToCommon(lines) = f[Len(path)]
<1> DEFINE F(f) == [i \in 0 .. Len(path) |-> IF i = 0 THEN <<>> ELSE PushNativeMessage(f[i - 1], path[i])]
           shown == CHOOSE f : f = F(f)
           x == <<"claude_chat", path>>
<1>1. \A f : F(f) = Running(x, <<>>, Len(path), f)
  BY DEF Running, Step
<1>2. ClaudeChatToCommon(lines) = shown[Len(path)]
  BY DEF ClaudeChatToCommon
<1> HIDE DEF x
<1>3. PICK f : f = Running(x, <<>>, Len(path), f)
  BY RunExists
<1>4. shown = F(shown)
  BY <1>1, <1>3
<1> HIDE DEF shown
<1>5. RunOf(x, <<>>, Len(path), shown)
  BY <1>1, <1>4, Started
<1>6. QED
  BY <1>2, <1>5 DEF x

LEMMA ClaudeChatRead ==
  ASSUME NEW lines, ClaudeChatOK(lines)
  PROVE  BodyOK(ClaudeChatToCommon(lines))
<1>1. PICK path : path = ClaudeChatActivePath(lines)
  OBVIOUS
<1>2. IsList(path) /\ \A m \in ToSet(path) : NativeOK(m)
  BY <1>1, ClaudeChatPath, ClaudeChatMessagesAre DEF ClaudeChatOK
<1>3. Len(path) \in Nat /\ \A i \in 1 .. Len(path) : NativeOK(path[i])
  BY <1>2, Lengths
<1>4. \E f : RunOf(<<"claude_chat", path>>, <<>>, Len(path), f) /\ ClaudeChatToCommon(lines) = f[Len(path)]
  BY <1>1, <1>3, ClaudeChatRuns
<1>5. PICK n \in Nat : n = Len(path)
  BY <1>3
<1>6. PICK f : RunOf(<<"claude_chat", path>>, <<>>, n, f) /\ ClaudeChatToCommon(lines) = f[n]
  BY <1>4, <1>5, Zenon
<1> DEFINE T == {i \in 0 .. n : BodyOK(f[i])}
<1>7. f[0] = <<>>
  BY <1>6 DEF RunOf
<1>8. 0 \in T
  BY <1>7, NoMessages
<1>9. ASSUME NEW i \in 1 .. n, i - 1 \in T PROVE i \in T
  <2>1. f[i] = PushNativeMessage(f[i - 1], path[i])
    BY <1>6 DEF RunOf, Step
  <2>2. NativeOK(path[i])
    BY <1>3, <1>5
  <2>3. BodyOK(f[i])
    BY <1>9, <2>1, <2>2, NativeMessagePushed
  <2>4. QED
    BY <2>3
<1> HIDE DEF T
<1>10. n \in T
  BY <1>8, <1>9, AllNumbers
<1>11. QED
  BY <1>6, <1>10 DEF T

(***************************************************************************)
(* What the chat gains.                                                    *)
(***************************************************************************)
LEMMA NativeIs ==
  ASSUME NEW uuid, NEW parent, NEW sender, NEW content, NEW text, NEW images,
         OnlyKinds(images, {"image"}), IsList(content),
         \A b \in ToSet(content) : b.kind = "result" => FilesOK(b)
  PROVE  LineOK("claude_chat", Native(uuid, parent, sender, content, text, images))
BY LinesAre DEF ClaudeChatLineOK, Native

LEMMA NoResults ==
  ASSUME NEW uuid, NEW parent, NEW sender, NEW content, NEW text, NEW images, NEW kinds,
         OnlyKinds(images, {"image"}), OnlyKinds(content, kinds), "result" \notin kinds
  PROVE  LineOK("claude_chat", Native(uuid, parent, sender, content, text, images))
<1>1. IsList(content) /\ \A b \in ToSet(content) : b.kind = "result" => FilesOK(b)
  BY DEF OnlyKinds
<1>2. QED
  BY <1>1, NativeIs

LEMMA NoImages == OnlyKinds(<<>>, {"image"})
BY NoneListed DEF OnlyKinds

LEMMA CallsAnswered ==
  ASSUME NEW calls, OnlyKinds(calls, {"use"}), NEW f, f = [i \in DOMAIN calls |-> f[i]],
         \A i \in 1 .. Len(calls) : \E id, v, err : f[i] = Returned(id, v, err, <<>>)
  PROVE  /\ IsList(calls \o f)
         /\ \A b \in ToSet(calls \o f) : b.kind = "result" => FilesOK(b)
<1>1. IsList(calls) /\ \A b \in ToSet(calls) : b.kind = "use"
  BY DEF OnlyKinds
<1>2. IsList(f) /\ \A e \in ToSet(f) : \E i \in 1 .. Len(calls) : e = f[i]
  BY <1>1, EachElements
<1>3. \A e \in ToSet(f) : FilesOK(e)
  <2>1. ASSUME NEW e \in ToSet(f) PROVE e.files = <<>>
    <3>1. PICK i \in 1 .. Len(calls) : e = f[i]
      BY <1>2
    <3>2. PICK id, v, err : e = Returned(id, v, err, <<>>)
      BY <3>1
    <3>3. QED
      BY <3>2 DEF Returned
  <2>2. QED
    BY <2>1, NoneListed DEF FilesOK
<1>4. IsList(calls \o f) /\ ToSet(calls \o f) = ToSet(calls) \cup ToSet(f)
  BY <1>1, <1>2, Together
<1>5. QED
  BY <1>1, <1>3, <1>4

LEMMA ClaudeChatGrown ==
  ASSUME NEW lines, ClaudeChatOK(lines), NEW n, NEW grown \in ClaudeChatGrow(lines, n)
  PROVE  ClaudeChatOK(grown)
<1>1. PICK message, head : /\ grown = Append([lines EXCEPT ![1].leaf = head], message)
                           /\ LineOK("claude_chat", message)
  <2> DEFINE uuid == <<"uuid", n>>
             here == lines[1].leaf
             at == Named(lines, here)
             beside == IF at = <<>> THEN {} ELSE {at[1].parent}
             returned(calls) == Each(LAMBDA c : Returned(c.id, Output(n, c.id), Fails(c.id), <<>>), calls)
             Answered(calls) == calls \o returned(calls)
             files == <<Artifact(<<"f", n>>, <<n>>, "inline")>>
             use == Use(<<"a", n>>, "present")
             result == Returned(NoId, <<n>>, FALSE, files)
             published == <<use, result>>
             asked == {Native(uuid, here, "user", <<>>, <<n>>, <<Image(<<n>>)>>),
                       Native(uuid, here, "user", <<Text(<<n>>)>>, <<n>>, <<>>)}
             said == {Native(uuid, parent, "assistant", Says(n), Blank, <<>>) : parent \in {here} \cup beside}
             contents == {Answered(calls) : calls \in Calls(n, "bash_tool")} \cup {published}
             called == {Native(uuid, here, "assistant", c, Blank, <<>>) : c \in contents}
  <2>1. PICK message \in asked \cup said \cup called : grown = Append([lines EXCEPT ![1].leaf = uuid], message)
    BY Zenon DEF ClaudeChatGrow
  <2> HIDE DEF uuid, here, beside
  <2>2. ASSUME NEW m \in asked PROVE LineOK("claude_chat", m)
    <3>1. OnlyKinds(<<Image(<<n>>)>>, {"image"}) /\ OnlyKinds(<<Text(<<n>>)>>, {"text"})
      BY OneListed DEF OnlyKinds, Image, Text
    <3>2. OnlyKinds(<<>>, {"text"})
      BY NoneListed DEF OnlyKinds
    <3>3. PICK images, texts : images = <<Image(<<n>>)>> /\ texts = <<Text(<<n>>)>>
      OBVIOUS
    <3>4. LineOK("claude_chat", Native(uuid, here, "user", <<>>, <<n>>, images))
      BY <3>1, <3>2, <3>3, NoResults
    <3>5. LineOK("claude_chat", Native(uuid, here, "user", texts, <<n>>, <<>>))
      BY <3>1, <3>3, NoImages, NoResults
    <3>6. QED
      BY <3>3, <3>4, <3>5, Zenon
  <2>3. ASSUME NEW m \in said PROVE LineOK("claude_chat", m)
    <3>1. PICK parent : m = Native(uuid, parent, "assistant", Says(n), Blank, <<>>)
      OBVIOUS
    <3>2. QED
      BY <3>1, Said, NoImages, NoResults
  <2>4. ASSUME NEW c \in contents
        PROVE IsList(c) /\ \A b \in ToSet(c) : b.kind = "result" => FilesOK(b)
    <3>1. CASE c = published
      <4>1. FilesOK(result)
        <5>1. PICK file : file = Artifact(<<"f", n>>, <<n>>, "inline")
          OBVIOUS
        <5>2. BlockOK("assistant", file)
          BY <5>1 DEF BlockOK, Blocks, Artifact
        <5>3. result.files = <<file>>
          BY <5>1 DEF Returned
        <5>4. QED
          BY <5>2, <5>3, OneListed DEF FilesOK
      <4>2. use.kind = "use"
        BY DEF Use
      <4> HIDE DEF use, result
      <4>3. IsList(<<use, result>>) /\ ToSet(<<use, result>>) = {use, result}
        BY TwoListed
      <4>4. QED
        BY <3>1, <4>1, <4>2, <4>3
    <3>2. ASSUME NEW calls \in Calls(n, "bash_tool"), c = Answered(calls)
          PROVE IsList(c) /\ \A b \in ToSet(c) : b.kind = "result" => FilesOK(b)
      <4> DEFINE f == [i \in DOMAIN calls |->
                         Returned(calls[i].id, Output(n, calls[i].id), Fails(calls[i].id), <<>>)]
      <4>1. c = calls \o f
        BY <3>2, Zenon DEF Each
      <4>2. f = [i \in DOMAIN calls |-> f[i]]
        BY Zenon
      <4>3. OnlyKinds(calls, {"use"})
        BY Called
      <4>4. \A i \in 1 .. Len(calls) : i \in DOMAIN calls
        BY <4>3, Members DEF OnlyKinds
      <4>5. \A i \in 1 .. Len(calls) : \E id, v, err : f[i] = Returned(id, v, err, <<>>)
        BY <4>4
      <4> HIDE DEF f
      <4>6. QED
        BY <4>1, <4>2, <4>3, <4>5, CallsAnswered
    <3>3. QED
      BY <3>1, <3>2
  <2>5. ASSUME NEW m \in called PROVE LineOK("claude_chat", m)
    <3>1. PICK c \in contents : m = Native(uuid, here, "assistant", c, Blank, <<>>)
      OBVIOUS
    <3> HIDE DEF contents
    <3>2. QED
      BY <2>4, <3>1, NoImages, NativeIs
  <2> HIDE DEF asked, said, called
  <2>6. QED
    BY <2>1, <2>2, <2>3, <2>5
<1>2. PICK id, title, leaf : lines[1] = Chat(id, title, leaf)
  BY DEF ClaudeChatOK
<1>3. PICK l, moved : l = Chat(id, title, head) /\ moved = [lines EXCEPT ![1] = l]
  OBVIOUS
<1>4. [lines EXCEPT ![1].leaf = head] = moved
  <2>1. [lines[1] EXCEPT !.leaf = head] = l
    BY <1>2, <1>3 DEF Chat
  <2>2. QED
    BY <1>3, <2>1, Zenon
<1>5. LogOK("claude_chat", lines) /\ lines # <<>> /\ IsList(lines)
  BY DEF ClaudeChatOK, LogOK
<1>6. LineOK("claude_chat", l)
  BY <1>3, LinesAre DEF ClaudeChatLineOK, Chat
<1>7. LogOK("claude_chat", moved)
  BY <1>3, <1>5, <1>6, LineChanged
<1>8. IsList(moved) /\ moved # <<>> /\ moved[1] = l
  BY <1>3, <1>5, FirstReplaced
<1>9. grown = Append(moved, message)
  BY <1>1, <1>4, Zenon
<1>10. LogOK("claude_chat", grown)
  BY <1>1, <1>7, <1>9, OneMoreLine
<1>11. grown # <<>> /\ grown[1] = l
  <2>1. 1 \in 1 .. Len(moved)
    BY <1>8, Lengths
  <2>2. QED
    BY <1>8, <1>9, <2>1, Appended
<1>12. QED
  BY <1>3, <1>10, <1>11 DEF ClaudeChatOK

(***************************************************************************)
(* Codex.                                                                  *)
(***************************************************************************)
\* What the queue shows in the end.
CodexShown(s) ==
  Each(LAMBDA q : Message(q.role, q.content), Where(s.queue, LAMBDA q : q.fallback \notin s.canonical))

LEMMA CodexRuns ==
  ASSUME NEW lines, Len(lines) \in Nat
  PROVE  \E f : /\ RunOf(<<"codex", lines>>, CodexStart, Len(lines), f)
                /\ CodexToCommon(lines) = CodexShown(f[Len(lines)])
<1> DEFINE F(f) == [i \in 0 .. Len(lines) |-> IF i = 0 THEN CodexStart ELSE OnLine(f[i - 1], lines[i])]
           read == CHOOSE f : f = F(f)
<1>1. \A f : F(f) = Running(<<"codex", lines>>, CodexStart, Len(lines), f)
  BY DEF Running, Step
<1>2. CodexToCommon(lines) = CodexShown(read[Len(lines)])
  BY DEF CodexToCommon, CodexShown
<1>3. PICK f : f = Running(<<"codex", lines>>, CodexStart, Len(lines), f)
  BY RunExists
<1>4. read = F(read)
  BY <1>1, <1>3
<1> HIDE DEF read
<1>5. RunOf(<<"codex", lines>>, CodexStart, Len(lines), read)
  BY <1>1, <1>4, Started
<1>6. QED
  BY <1>2, <1>5

\* The queue holds messages, and a search that is not named yet stands in it
\* where unresolved says.
TurnOK(q) == q = [role |-> q.role, content |-> q.content, fallback |-> q.fallback]
             /\ MessageOK(Message(q.role, q.content))
Unnamed(q) == \E id : q = Queued("assistant", <<Use(id, "WebSearch")>>)
CodexOK(s) ==
  /\ s = [queue |-> s.queue, canonical |-> s.canonical, pending |-> s.pending,
          unresolved |-> s.unresolved]
  /\ IsList(s.queue) /\ \A q \in ToSet(s.queue) : TurnOK(q)
  /\ s.unresolved = [a \in {"a", "b"} |-> s.unresolved[a]]
  /\ \A a \in {"a", "b"} :
       /\ IsList(s.unresolved[a])
       /\ \A k \in ToSet(s.unresolved[a]) : k \in 1 .. Len(s.queue) /\ Unnamed(s.queue[k])

LEMMA CallQueued ==
  ASSUME NEW id, NEW tool
  PROVE  TurnOK(Queued("assistant", <<Use(id, tool)>>))
<1>1. BlockOK("assistant", Use(id, tool))
  BY DEF BlockOK, Blocks, Use
<1>2. MessageOK([role |-> "assistant", content |-> <<Use(id, tool)>>])
  BY <1>1, OneBlock
<1>3. QED
  BY <1>2 DEF TurnOK, Queued, Message

LEMMA ResultQueued ==
  ASSUME NEW id, NEW v, NEW err
  PROVE  TurnOK(Queued("user", <<Result(id, v, err)>>))
<1>1. BlockOK("user", Result(id, v, err))
  BY DEF BlockOK, Blocks, Result
<1>2. MessageOK([role |-> "user", content |-> <<Result(id, v, err)>>])
  BY <1>1, OneBlock
<1>3. QED
  BY <1>2 DEF TurnOK, Queued, Message

LEMMA Pushed ==
  ASSUME NEW s, CodexOK(s), NEW q, TurnOK(q)
  PROVE  /\ CodexOK(CodexPush(s, q))
         /\ CodexPush(s, q).queue = Append(s.queue, q)
         /\ CodexPush(s, q).unresolved = s.unresolved
         /\ CodexPush(s, q).pending = s.pending
<1> DEFINE t == CodexPush(s, q)
<1>1. t = [queue |-> Append(s.queue, q), canonical |-> s.canonical, pending |-> s.pending,
           unresolved |-> s.unresolved]
  <2>1. s = [queue |-> s.queue, canonical |-> s.canonical, pending |-> s.pending,
             unresolved |-> s.unresolved]
    BY DEF CodexOK
  <2>2. t = [[queue |-> s.queue, canonical |-> s.canonical, pending |-> s.pending,
              unresolved |-> s.unresolved] EXCEPT !.queue = Append(s.queue, q)]
    BY <2>1, Zenon DEF CodexPush
  <2>3. QED
    BY <2>2
<1>2. IsList(s.queue) /\ \A e \in ToSet(s.queue) : TurnOK(e)
  BY DEF CodexOK
<1>3. /\ IsList(t.queue) /\ ToSet(t.queue) = ToSet(s.queue) \cup {q}
      /\ Len(t.queue) = Len(s.queue) + 1
      /\ \A i \in 1 .. Len(s.queue) : t.queue[i] = s.queue[i]
  BY <1>1, <1>2, Appended
<1>4. Len(s.queue) \in Nat
  BY <1>2, Lengths
<1> HIDE DEF t
<1>5. ASSUME NEW a \in {"a", "b"}, NEW k \in ToSet(s.unresolved[a])
      PROVE k \in 1 .. Len(t.queue) /\ Unnamed(t.queue[k])
  <2>1. k \in 1 .. Len(s.queue) /\ Unnamed(s.queue[k])
    BY DEF CodexOK
  <2>2. t.queue[k] = s.queue[k]
    BY <1>3, <2>1
  <2>3. QED
    BY <1>3, <1>4, <2>1, <2>2
<1>6. \A e \in ToSet(t.queue) : TurnOK(e)
  BY <1>2, <1>3
<1>7. CodexOK(t)
  BY <1>1, <1>3, <1>5, <1>6 DEF CodexOK
<1>8. QED
  BY <1>1, <1>7 DEF t

\* canonical and pending matter to no message.
LEMMA Noted ==
  ASSUME NEW s, CodexOK(s), NEW canonical, NEW pending
  PROVE  CodexOK([queue |-> s.queue, canonical |-> canonical, pending |-> pending,
                  unresolved |-> s.unresolved])
BY DEF CodexOK

\* An open search is given its id.
LEMMA SearchNamed ==
  ASSUME NEW s, CodexOK(s), NEW act \in {"a", "b"}, NEW id, s.unresolved[act] # <<>>
  PROVE  CodexOK([s EXCEPT !.queue[Last(s.unresolved[act])].content[1].id = id,
                           !.unresolved[act] = Front(s.unresolved[act])])
<1> DEFINE open == s.unresolved[act]
           k == Last(open)
           q == Queued("assistant", <<Use(id, "WebSearch")>>)
           queue == [s.queue EXCEPT ![k] = q]
           unresolved == [s.unresolved EXCEPT ![act] = Front(open)]
           t == [queue |-> queue, canonical |-> s.canonical, pending |-> s.pending,
                 unresolved |-> unresolved]
<1>1. /\ s = [queue |-> s.queue, canonical |-> s.canonical, pending |-> s.pending,
              unresolved |-> s.unresolved]
      /\ IsList(s.queue)
      /\ s.unresolved = [a \in {"a", "b"} |-> s.unresolved[a]]
  BY DEF CodexOK
<1>2. /\ IsList(open) /\ k \in ToSet(open) /\ IsList(Front(open)) /\ ToSet(Front(open)) \subseteq ToSet(open)
  BY Fronted DEF CodexOK
<1>3. k \in 1 .. Len(s.queue) /\ Unnamed(s.queue[k])
  BY <1>2 DEF CodexOK
<1> HIDE DEF k
<1>4. [s.queue EXCEPT ![k].content[1].id = id] = queue
  <2>1. PICK old : s.queue[k] = Queued("assistant", <<Use(old, "WebSearch")>>)
    BY <1>3 DEF Unnamed
  <2>2. [s.queue[k] EXCEPT !.content[1].id = id] = q
    BY <2>1 DEF Queued, Use
  <2>3. [s.queue EXCEPT ![k].content[1].id = id] = [s.queue EXCEPT ![k] = [s.queue[k] EXCEPT !.content[1].id = id]]
    OBVIOUS
  <2>4. QED
    BY <2>2, <2>3
<1>5. [s EXCEPT !.queue[k].content[1].id = id, !.unresolved[act] = Front(open)] = t
  <2> DEFINE r == [queue |-> s.queue, canonical |-> s.canonical, pending |-> s.pending,
                   unresolved |-> s.unresolved]
             named == [queue |-> queue, canonical |-> s.canonical, pending |-> s.pending,
                       unresolved |-> s.unresolved]
  <2>1. [r EXCEPT !.queue[k].content[1].id = id, !.unresolved[act] = Front(open)]
        = [[r EXCEPT !.queue[k].content[1].id = id] EXCEPT !.unresolved[act] = Front(open)]
    OBVIOUS
  <2>2. [r EXCEPT !.queue[k].content[1].id = id]
        = [r EXCEPT !.queue = [s.queue EXCEPT ![k].content[1].id = id]]
    OBVIOUS
  <2>3. [r EXCEPT !.queue = queue] = named
    OBVIOUS
  <2>4. [named EXCEPT !.unresolved[act] = Front(open)] = t
    OBVIOUS
  <2>5. s = r
    BY <1>1
  <2> HIDE DEF r, named, queue, t
  <2>6. [r EXCEPT !.queue[k].content[1].id = id] = named
    BY <1>4, <2>2, <2>3, Zenon
  <2>7. [r EXCEPT !.queue[k].content[1].id = id, !.unresolved[act] = Front(open)] = t
    BY <2>1, <2>4, <2>6, Zenon
  <2>8. QED
    BY <2>5, <2>7, Zenon
<1>6. /\ IsList(queue) /\ ToSet(queue) \subseteq ToSet(s.queue) \cup {q} /\ Len(queue) = Len(s.queue)
      /\ \A j \in 1 .. Len(s.queue) : queue[j] = IF j = k THEN q ELSE s.queue[j]
  <2> DEFINE old == s.queue
  <2>1. queue = Put(old, k, q)
    BY DEF Put
  <2>2. IsList(old) /\ k \in 1 .. Len(old)
    BY <1>1, <1>3
  <2> HIDE DEF queue, q, open, t, old, unresolved
  <2>3. /\ IsList(queue) /\ ToSet(queue) \subseteq ToSet(old) \cup {q} /\ Len(queue) = Len(old)
        /\ \A j \in 1 .. Len(old) : queue[j] = IF j = k THEN q ELSE old[j]
    BY <2>1, <2>2, PutIn
  <2>4. QED
    BY <2>3 DEF old
<1>7. \A e \in ToSet(queue) : TurnOK(e)
  BY <1>6, CallQueued DEF CodexOK
<1>8. unresolved = [a \in {"a", "b"} |-> unresolved[a]] /\ unresolved[act] = Front(open)
      /\ \A a \in {"a", "b"} : a # act => unresolved[a] = s.unresolved[a]
  BY <1>1
<1> HIDE DEF queue, unresolved, q, open
<1>9. ASSUME NEW a \in {"a", "b"}
      PROVE  IsList(unresolved[a]) /\ ToSet(unresolved[a]) \subseteq ToSet(s.unresolved[a])
  BY <1>2, <1>8 DEF CodexOK, open
<1>10. ASSUME NEW a \in {"a", "b"}, NEW j \in ToSet(unresolved[a])
       PROVE  j \in 1 .. Len(queue) /\ Unnamed(queue[j])
  <2>1. j \in 1 .. Len(s.queue) /\ Unnamed(s.queue[j])
    BY <1>9 DEF CodexOK
  <2>2. Unnamed(q)
    BY DEF Unnamed, q
  <2>3. QED
    BY <1>6, <2>1, <2>2
<1>11. CodexOK(t)
  BY <1>6, <1>7, <1>8, <1>9, <1>10 DEF CodexOK
<1>12. QED
  BY <1>5, <1>11 DEF open, k

LEMMA CodexShape ==
  ASSUME NEW s, CodexOK(s)
  PROVE  s = [queue |-> s.queue, canonical |-> s.canonical, pending |-> s.pending,
              unresolved |-> s.unresolved]
BY DEF CodexOK

LEMMA SearchEnded ==
  ASSUME NEW s, CodexOK(s), NEW line, line.action \in {"a", "b"}
  PROVE  CodexOK(OnSearchEnd(s, line))
<1> DEFINE open == s.unresolved[line.action]
           named == IF open = <<>> THEN s
                    ELSE [s EXCEPT !.queue[Last(open)].content[1].id = line.id,
                                   !.unresolved[line.action] = Front(open)]
           noted == [named EXCEPT !.pending[line.action] = Append(@, line.id),
                                  !.canonical = @ \cup {line.id}]
<1>1. OnSearchEnd(s, line) = CodexPush(noted, Queued("user", <<Result(line.id, line.v, FALSE)>>))
  BY DEF OnSearchEnd, PushResult
<1>2. CodexOK(named)
  BY SearchNamed
<1> HIDE DEF named, open
<1>3. CodexOK(noted)
  <2>1. PICK w, c : w = Append(named.pending[line.action], line.id) /\ c = named.canonical \cup {line.id}
    OBVIOUS
  <2>2. named = [queue |-> named.queue, canonical |-> named.canonical, pending |-> named.pending,
                 unresolved |-> named.unresolved]
    BY <1>2, CodexShape
  <2> DEFINE waits == [queue |-> named.queue, canonical |-> named.canonical,
                       pending |-> [named.pending EXCEPT ![line.action] = w],
                       unresolved |-> named.unresolved]
             t == [queue |-> named.queue, canonical |-> c,
                   pending |-> [named.pending EXCEPT ![line.action] = w],
                   unresolved |-> named.unresolved]
  <2>3. noted = [named EXCEPT !.pending[line.action] = w, !.canonical = c]
    BY <2>1
  <2>4. [named EXCEPT !.pending[line.action] = w, !.canonical = c]
        = [[named EXCEPT !.pending[line.action] = w] EXCEPT !.canonical = c]
    OBVIOUS
  <2>5. [named EXCEPT !.pending[line.action] = w] = waits
    BY <2>2
  <2>6. [waits EXCEPT !.canonical = c] = t
    OBVIOUS
  <2>7. CodexOK(t)
    BY <1>2, Noted
  <2> HIDE DEF waits, t, noted
  <2>8. noted = t
    BY <2>3, <2>4, <2>5, <2>6, Zenon
  <2>9. QED
    BY <2>7, <2>8
<1> HIDE DEF noted
<1>4. TurnOK(Queued("user", <<Result(line.id, line.v, FALSE)>>))
  BY ResultQueued
<1>5. QED
  BY <1>1, <1>3, <1>4, Pushed

LEMMA UnresolvedAppended ==
  ASSUME NEW q, NEW c, NEW p, NEW u, NEW a, NEW k
  PROVE  [[queue |-> q, canonical |-> c, pending |-> p, unresolved |-> u]
            EXCEPT !.unresolved[a] = Append(@, k)]
         = [queue |-> q, canonical |-> c, pending |-> p,
            unresolved |-> [u EXCEPT ![a] = Append(@, k)]]
OBVIOUS

LEMMA SearchCalled ==
  ASSUME NEW s, CodexOK(s), NEW line, line.action \in {"a", "b"}
  PROVE  CodexOK(OnSearchCall(s, line))
<1> DEFINE waiting == s.pending[line.action]
           Call(id) == Queued("assistant", <<Use(id, "WebSearch")>>)
<1>1. CASE line.id # NoId
  <2>1. OnSearchCall(s, line) = CodexPush(s, Call(line.id))
    BY <1>1 DEF OnSearchCall, PushCall
  <2>2. QED
    BY <2>1, Pushed, CallQueued
<1>2. CASE line.id = NoId /\ waiting # <<>>
  <2> DEFINE pending == [s.pending EXCEPT ![line.action] = Front(@)]
             taken == [s EXCEPT !.pending[line.action] = Front(@)]
             t == [queue |-> s.queue, canonical |-> s.canonical, pending |-> pending,
                   unresolved |-> s.unresolved]
  <2>1. OnSearchCall(s, line) = CodexPush(taken, Call(Last(waiting)))
    BY <1>2 DEF OnSearchCall, PushCall
  <2>2. taken = t
    <3> DEFINE r == [queue |-> s.queue, canonical |-> s.canonical, pending |-> s.pending,
                     unresolved |-> s.unresolved]
    <3>1. s = r
      BY CodexShape
    <3>2. [r EXCEPT !.pending[line.action] = Front(@)] = t
      OBVIOUS
    <3> HIDE DEF r, t
    <3>3. QED
      BY <3>1, <3>2, Zenon
  <2>3. CodexOK(t)
    BY Noted
  <2> HIDE DEF taken, t, waiting
  <2>4. QED
    BY <2>1, <2>2, <2>3, Pushed, CallQueued
<1>3. CASE line.id = NoId /\ waiting = <<>>
  <2> DEFINE id == <<"web_search", Len(s.queue)>>
             named == CodexPush(s, Call(id))
             k == Len(named.queue)
             unresolved == [named.unresolved EXCEPT ![line.action] = Append(@, k)]
             t == [queue |-> named.queue, canonical |-> named.canonical, pending |-> named.pending,
                   unresolved |-> unresolved]
  <2>1. OnSearchCall(s, line) = [named EXCEPT !.unresolved[line.action] = Append(@, k)]
    BY <1>3 DEF OnSearchCall, PushCall
  <2>2. CodexOK(named) /\ named.queue = Append(s.queue, Call(id))
    BY Pushed, CallQueued
  <2>3. k \in 1 .. Len(named.queue) /\ named.queue[k] = Call(id)
    <3>1. IsList(s.queue) /\ Len(s.queue) \in Nat
      BY Lengths DEF CodexOK
    <3> HIDE DEF named
    <3>2. k = Len(s.queue) + 1 /\ named.queue[Len(s.queue) + 1] = Call(id)
      BY <2>2, <3>1, Appended
    <3>3. QED
      BY <3>1, <3>2
  <2> HIDE DEF named, k
  <2>4. [named EXCEPT !.unresolved[line.action] = Append(@, k)] = t
    <3> DEFINE r == [queue |-> named.queue, canonical |-> named.canonical, pending |-> named.pending,
                     unresolved |-> named.unresolved]
    <3>1. named = r
      BY <2>2, CodexShape
    <3>2. [r EXCEPT !.unresolved[line.action] = Append(@, k)] = t
      BY UnresolvedAppended
    <3> HIDE DEF r, t
    <3>3. QED
      BY <3>1, <3>2, Zenon
  <2>5. unresolved = [a \in {"a", "b"} |-> unresolved[a]]
        /\ unresolved[line.action] = Append(named.unresolved[line.action], k)
        /\ \A a \in {"a", "b"} : a # line.action => unresolved[a] = named.unresolved[a]
    BY <2>2 DEF CodexOK
  <2> HIDE DEF unresolved
  <2>6. ASSUME NEW a \in {"a", "b"}
        PROVE  IsList(unresolved[a]) /\ ToSet(unresolved[a]) \subseteq ToSet(named.unresolved[a]) \cup {k}
    <3>1. IsList(named.unresolved[a])
      BY <2>2 DEF CodexOK
    <3>2. PICK more : more = Append(named.unresolved[line.action], k)
      OBVIOUS
    <3>3. IsList(named.unresolved[line.action])
      BY <2>2 DEF CodexOK
    <3>4. IsList(more) /\ ToSet(more) = ToSet(named.unresolved[line.action]) \cup {k}
      BY <3>2, <3>3, Appended
    <3>5. QED
      BY <2>5, <3>1, <3>2, <3>4
  <2>7. ASSUME NEW a \in {"a", "b"}, NEW j \in ToSet(unresolved[a])
        PROVE  j \in 1 .. Len(named.queue) /\ Unnamed(named.queue[j])
    <3>1. CASE j = k
      BY <2>3, <3>1 DEF Unnamed
    <3>2. CASE j \in ToSet(named.unresolved[a])
      BY <2>2, <3>2 DEF CodexOK
    <3>3. QED
      BY <2>6, <3>1, <3>2
  <2>8. CodexOK(t)
    BY <2>2, <2>5, <2>6, <2>7 DEF CodexOK
  <2>9. QED
    BY <2>1, <2>4, <2>8
<1>4. QED
  BY <1>1, <1>2, <1>3

LEMMA CodexMessageRead ==
  ASSUME NEW s, CodexOK(s), NEW line, line.type = "message", IsList(line.content)
  PROVE  CodexOK(CodexOnMessage(s, line))
<1> DEFINE content == ParseContent(line.content)
           q == Queued(line.role, content)
<1>1. content = OfKind(line.content, {"text", "image"})
  BY DEF ParseContent, OfKind
<1>2. OnlyKinds(content, {"text", "image"})
  BY <1>1, OfKindElements
<1>3. CodexOnMessage(s, line) = IF line.role \in {"user", "assistant"} /\ content # <<>>
                                THEN CodexPush(s, q) ELSE s
  BY DEF CodexOnMessage
<1> HIDE DEF content
<1>4. ASSUME line.role \in {"user", "assistant"}, content # <<>> PROVE TurnOK(q)
  <2>1. ContentOK(line.role, content)
    BY <1>2, <1>4 DEF OnlyKinds, ContentOK, BlockOK, Blocks
  <2>2. q.role = line.role /\ q.content = content
        /\ q = [role |-> q.role, content |-> q.content, fallback |-> q.fallback]
    BY DEF Queued
  <2>3. QED
    BY <1>4, <2>1, <2>2 DEF TurnOK, Message, MessageOK
<1> HIDE DEF q
<1>5. QED
  BY <1>3, <1>4, Pushed

LEMMA ThoughtQueued ==
  ASSUME NEW v
  PROVE  TurnOK(Queued("assistant", <<Thinking(v)>>))
<1>1. BlockOK("assistant", Thinking(v))
  BY DEF BlockOK, Blocks, Thinking
<1>2. MessageOK([role |-> "assistant", content |-> <<Thinking(v)>>])
  BY <1>1, OneBlock
<1>3. QED
  BY <1>2 DEF TurnOK, Queued, Message

LEMMA CodexLineRead ==
  ASSUME NEW s, CodexOK(s), NEW line, CodexLineOK(line)
  PROVE  CodexOK(OnLine(s, line))
<1>1. CASE line.type = "message"
  BY <1>1, CodexMessageRead DEF OnLine, CodexLineOK
<1>2. CASE line.type = "reasoning"
  BY <1>2, ThoughtQueued, Pushed DEF OnLine
<1>3. CASE line.type = "function_call"
  BY <1>3, CallQueued, Pushed DEF OnLine, PushCall
<1>4. CASE line.type = "function_call_output"
  <2> DEFINE q == Queued("user", <<Result(line.id, line.v, FALSE)>>)
             t == [q EXCEPT !.fallback = line.id]
  <2>1. OnLine(s, line) = CodexPush(s, t)
    BY <1>4 DEF OnLine
  <2>2. t.role = q.role /\ t.content = q.content
        /\ t = [role |-> t.role, content |-> t.content, fallback |-> t.fallback]
    <3>1. PICK content : content = <<Result(line.id, line.v, FALSE)>>
      OBVIOUS
    <3>2. q = [role |-> "user", content |-> content, fallback |-> NoId]
      BY <3>1 DEF Queued
    <3> HIDE DEF q
    <3>3. t = [role |-> "user", content |-> content, fallback |-> line.id]
      BY <3>2
    <3>4. QED
      BY <3>2, <3>3
  <2>3. TurnOK(q)
    BY ResultQueued
  <2> HIDE DEF t, q
  <2>4. TurnOK(t)
    BY <2>2, <2>3 DEF TurnOK
  <2>5. QED
    BY <2>1, <2>4, Pushed
<1>5. CASE line.type = "custom_tool_call"
  BY <1>5, CallQueued, Pushed DEF OnLine, PushCall
<1>6. CASE line.type \in {"custom_tool_call_output", "exec_command_end"}
  <2> DEFINE taken == [s EXCEPT !.canonical = @ \cup {line.id}]
             t == [queue |-> s.queue, canonical |-> s.canonical \cup {line.id}, pending |-> s.pending,
                   unresolved |-> s.unresolved]
  <2>1. OnLine(s, line) = CodexPush(taken, Queued("user", <<Result(line.id, line.v, line.err)>>))
    BY <1>6 DEF OnLine, PushResult
  <2>2. taken = t
    <3> DEFINE r == [queue |-> s.queue, canonical |-> s.canonical, pending |-> s.pending,
                     unresolved |-> s.unresolved]
    <3>1. s = r
      BY CodexShape
    <3>2. [r EXCEPT !.canonical = @ \cup {line.id}] = t
      OBVIOUS
    <3> HIDE DEF r, t
    <3>3. QED
      BY <3>1, <3>2, Zenon
  <2>3. CodexOK(t)
    BY Noted
  <2> HIDE DEF taken, t
  <2>4. QED
    BY <2>1, <2>2, <2>3, Pushed, ResultQueued
<1>7. CASE line.type = "web_search_end"
  BY <1>7, SearchEnded DEF OnLine, CodexLineOK
<1>8. CASE line.type = "web_search_call"
  BY <1>8, SearchCalled DEF OnLine, CodexLineOK
<1>9. CASE line.type \notin {"message", "reasoning", "function_call", "function_call_output",
                             "custom_tool_call", "custom_tool_call_output", "exec_command_end",
                             "web_search_end", "web_search_call"}
  <2>1. OnLine(s, line) = s
    BY <1>9 DEF OnLine
  <2>2. QED
    BY <2>1
<1>10. QED
  BY <1>1, <1>2, <1>3, <1>4, <1>5, <1>6, <1>7, <1>8, <1>9

LEMMA CodexStarts == CodexOK(CodexStart)
<1>1. CodexStart.queue = <<>> /\ \A a \in {"a", "b"} : CodexStart.unresolved[a] = <<>>
  BY DEF CodexStart
<1>2. CodexStart = [queue |-> CodexStart.queue, canonical |-> CodexStart.canonical,
                    pending |-> CodexStart.pending, unresolved |-> CodexStart.unresolved]
      /\ CodexStart.unresolved = [a \in {"a", "b"} |-> CodexStart.unresolved[a]]
  BY DEF CodexStart
<1>3. QED
  BY <1>1, <1>2, NoneListed DEF CodexOK

LEMMA ShownOK ==
  ASSUME NEW s, CodexOK(s)
  PROVE  BodyOK(CodexShown(s))
<1> DEFINE at == {i \in DOMAIN s.queue : s.queue[i].fallback \notin s.canonical}
           kept == Kept(s.queue, at)
           shown == [i \in DOMAIN kept |-> Message(kept[i].role, kept[i].content)]
<1>1. CodexShown(s) = shown
  BY DEF CodexShown, Where, Each
<1>2. IsList(s.queue) /\ \A q \in ToSet(s.queue) : TurnOK(q)
  BY DEF CodexOK
<1> HIDE DEF at
<1>3. IsList(kept) /\ \A q \in ToSet(kept) : TurnOK(q)
  BY <1>2, KeptSome
<1> HIDE DEF kept
<1>4. \A i \in 1 .. Len(kept) : i \in DOMAIN kept /\ TurnOK(kept[i])
  BY <1>3, Lengths
<1>5. \A i \in 1 .. Len(kept) : MessageOK(shown[i])
  BY <1>4 DEF TurnOK
<1>6. shown = [i \in DOMAIN kept |-> shown[i]]
  OBVIOUS
<1> HIDE DEF shown
<1>7. IsList(shown) /\ \A m \in ToSet(shown) : \E i \in 1 .. Len(kept) : m = shown[i]
  BY <1>3, <1>6, EachElements
<1>8. QED
  BY <1>1, <1>5, <1>7 DEF BodyOK

LEMMA CodexRead ==
  ASSUME NEW lines, LogOK("codex", lines)
  PROVE  BodyOK(CodexToCommon(lines))
<1> DEFINE n == Len(lines)
<1>1. n \in Nat /\ \A i \in 1 .. n : CodexLineOK(lines[i])
  BY Lengths, LinesAre DEF LogOK
<1>2. PICK f : RunOf(<<"codex", lines>>, CodexStart, n, f) /\ CodexToCommon(lines) = CodexShown(f[n])
  BY <1>1, CodexRuns
<1> DEFINE T == {i \in 0 .. n : CodexOK(f[i])}
<1> HIDE DEF n
<1>3. 0 \in T
  BY <1>1, <1>2, CodexStarts DEF RunOf
<1>4. ASSUME NEW i \in 1 .. n, i - 1 \in T PROVE i \in T
  <2>1. f[i] = OnLine(f[i - 1], lines[i])
    BY <1>2 DEF RunOf, Step
  <2>2. CodexOK(f[i])
    BY <1>1, <1>4, <2>1, CodexLineRead
  <2>3. QED
    BY <1>1, <2>2
<1> HIDE DEF T
<1>5. n \in T
  BY <1>1, <1>3, <1>4, AllNumbers
<1>6. CodexOK(f[n])
  BY <1>5 DEF T
<1>7. QED
  BY <1>2, <1>6, ShownOK

LEMMA MessageLinesOK ==
  ASSUME NEW msg, MessageOK(msg)
  PROVE  LogOK("codex", MessageLines(msg))
<1> DEFINE said == OfKind(msg.content, {"text", "image", "artifact"})
           content == [i \in DOMAIN said |-> IF said[i].kind = "artifact" THEN DisplayText(said[i]) ELSE said[i]]
           rest == OfKind(msg.content, {"thinking", "use", "result"})
           items == [i \in DOMAIN rest |-> ItemOf(rest[i])]
<1>1. MessageLines(msg) = items \o IfSome(content, <<CodexItem(msg.role, content)>>)
  BY DEF MessageLines, Each
<1>2. OnlyKinds(rest, {"thinking", "use", "result"}) /\ IsList(said)
  BY OfKindElements DEF MessageOK, ContentOK, OnlyKinds
<1>3. IsList(content)
  BY <1>2, EachElements
<1> HIDE DEF said, rest, content
<1>4. \A i \in 1 .. Len(rest) : i \in DOMAIN rest /\ rest[i].kind \in {"thinking", "use", "result"}
  BY <1>2, Lengths DEF OnlyKinds
<1>5. ASSUME NEW i \in 1 .. Len(rest) PROVE LineOK("codex", items[i])
  <2>1. items[i] = ItemOf(rest[i])
    BY <1>4
  <2>2. CodexLineOK(ItemOf(rest[i]))
    BY <1>4 DEF ItemOf, CodexReasoning, FunctionCall, FunctionOutput, CodexLineOK
  <2>3. QED
    BY <2>1, <2>2, LinesAre
<1>6. items = [i \in DOMAIN rest |-> items[i]]
  OBVIOUS
<1> HIDE DEF items
<1>7. LogOK("codex", items)
  BY <1>2, <1>5, <1>6, LineForEach DEF OnlyKinds
<1>8. LineOK("codex", CodexItem(msg.role, content))
  BY <1>3, LinesAre DEF CodexLineOK, CodexItem
<1>9. QED
  BY <1>1, <1>7, <1>8, LineIfSome, MoreLines

LEMMA CodexWritten ==
  ASSUME NEW meta, NEW body, BodyOK(body)
  PROVE  LogOK("codex", CodexFromCommon(meta, body))
<1> DEFINE parts == Each(MessageLines, body)
<1>1. DOMAIN body = 1 .. Len(body) /\ Len(body) \in Nat /\ \A i \in 1 .. Len(body) : MessageOK(body[i])
  BY Lengths DEF BodyOK
<1>2. parts = [i \in 1 .. Len(body) |-> parts[i]] /\ \A i \in 1 .. Len(body) : LogOK("codex", parts[i])
  BY <1>1, MessageLinesOK DEF Each
<1>3. CodexFromCommon(meta, body) = <<SessionMeta(meta.id)>> \o FlattenSeq(parts)
  BY DEF CodexFromCommon
<1> HIDE DEF parts
<1>4. LogOK("codex", FlattenSeq(parts))
  BY <1>1, <1>2, FlattenedLines
<1>5. LineOK("codex", SessionMeta(meta.id))
  BY LinesAre DEF CodexLineOK, SessionMeta
<1>6. QED
  BY <1>3, <1>4, <1>5, OneLine, MoreLines

LEMMA CodexGrown ==
  ASSUME NEW lines, LogOK("codex", lines), NEW n, NEW grown \in CodexGrow(lines, n)
  PROVE  LogOK("codex", grown)
<1> DEFINE open == Open(CodexToCommon(lines))
           ended == {lines[i].id : i \in {i \in DOMAIN lines : lines[i].type = "exec_command_end"}}
           Times(type, action) ==
             Cardinality({i \in DOMAIN lines : lines[i].type = type /\ lines[i].action = action})
           ending == {action \in {"a", "b"} :
                        Times("web_search_end", action) <= Times("web_search_call", action)}
           said == {CodexItem("user", c) : c \in Asks(n)}
                   \cup {CodexItem("assistant", <<Text(<<n>>)>>), CodexReasoning(<<n>>), CodexSetup}
           called == {FunctionCall(<<"a", n>>, "exec_command"), FunctionCall(<<"b", n>>, "update_plan"),
                      CustomCall(<<"a", n>>, "apply_patch: one hunk")}
           ends == {ExecEnd(e[1], Output(n, e[1]), e[2]) : e \in {id \in open : id[1] = "a"} \X BOOLEAN}
           outputs == {FunctionOutput(id, Output(n, id)) : id \in (open \cup ended)}
           custom == {CustomOutput(id, Output(n, id), FALSE) : id \in {id \in open : id[1] = "a"}}
           sought == {SearchCall(NoId, action) : action \in {"a", "b"}}
           searches == {SearchEnd(<<"s", n>>, <<n>>, action) : action \in ending}
           written == said \cup called \cup ends \cup outputs \cup custom
                      \cup sought \cup searches
<1>1. grown \in Appending(lines, written)
  <2>1. CodexGrow(lines, n) = Appending(lines, written)
    BY Zenon DEF CodexGrow
  <2> HIDE DEF written
  <2>2. QED
    BY <2>1
<1>2. \A l \in said : CodexLineOK(l)
  BY Asked, OneListed DEF CodexLineOK, CodexItem, CodexReasoning, CodexSetup, OnlyKinds
<1>3. \A l \in called : CodexLineOK(l)
  <2>1. \A id, name : CodexLineOK(FunctionCall(id, name)) /\ CodexLineOK(CustomCall(id, name))
    BY DEF CodexLineOK, FunctionCall, CustomCall
  <2>2. QED
    BY <2>1
<1>4. \A l \in ends \cup outputs \cup custom : CodexLineOK(l)
  BY DEF CodexLineOK, ExecEnd, FunctionOutput, CustomOutput
<1>5. \A l \in sought : CodexLineOK(l)
  BY DEF CodexLineOK, SearchCall
<1>6. ASSUME NEW l \in searches PROVE CodexLineOK(l)
  <2> HIDE DEF Times
  <2>1. PICK action \in {"a", "b"} : l = SearchEnd(<<"s", n>>, <<n>>, action)
    OBVIOUS
  <2>2. QED
    BY <2>1 DEF CodexLineOK, SearchEnd
<1> HIDE DEF open, ended, said, called, ends, outputs, custom, sought, searches
<1>7. \A l \in written : LineOK("codex", l)
  BY <1>2, <1>3, <1>4, <1>5, <1>6, LinesAre
<1> HIDE DEF written
<1>8. QED
  BY <1>1, <1>7, LineAppended

(***************************************************************************)
(* Cursor.                                                                 *)
(***************************************************************************)
LEMMA CursorUserRead ==
  ASSUME NEW content, IsList(content)
  PROVE  ContentOK("user", ParseUserContent(content))
<1> DEFINE at == {i \in DOMAIN content :
                    content[i].kind = "image" \/ (content[i].kind = "text" /\ content[i].v # Blank)}
<1>1. ParseUserContent(content) = Kept(content, at)
  BY DEF ParseUserContent, Where
<1>2. \A i \in at : content[i].kind \in {"text", "image"}
  OBVIOUS
<1> HIDE DEF at
<1>3. /\ IsList(Kept(content, at))
      /\ \A e \in ToSet(Kept(content, at)) : \E i \in 1 .. Len(content) : i \in at /\ content[i] = e
  BY KeptElements
<1>4. OnlyKinds(Kept(content, at), {"text", "image", "result"})
  BY <1>2, <1>3 DEF OnlyKinds
<1>5. QED
  BY <1>1, <1>4, UserKinds

LEMMA CursorToolRead ==
  ASSUME NEW content, IsList(content)
  PROVE  ContentOK("user", ParseToolContent(content))
<1> DEFINE at == {i \in DOMAIN content : content[i].kind = "result" /\ content[i].id # NoId}
<1>1. ParseToolContent(content) = Kept(content, at)
  BY DEF ParseToolContent, Where
<1>2. \A i \in at : content[i].kind = "result"
  OBVIOUS
<1> HIDE DEF at
<1>3. /\ IsList(Kept(content, at))
      /\ \A e \in ToSet(Kept(content, at)) : \E i \in 1 .. Len(content) : i \in at /\ content[i] = e
  BY KeptElements
<1>4. OnlyKinds(Kept(content, at), {"text", "image", "result"})
  BY <1>2, <1>3 DEF OnlyKinds
<1>5. QED
  BY <1>1, <1>4, UserKinds

LEMMA CursorAssistantRead ==
  ASSUME NEW content, IsList(content), NEW i
  PROVE  ContentOK("assistant", ParseAssistantContent(content, i))
<1> DEFINE at == {k \in DOMAIN content : \/ content[k].kind \in {"thinking", "use", "image"}
                                         \/ content[k].kind = "text" /\ content[k].v # Blank}
           shown == Kept(content, at)
           read == [j \in DOMAIN shown |->
                      IF shown[j].kind = "use"
                      THEN Use(IF shown[j].id = NoId THEN ToolUseId(i, j) ELSE shown[j].id,
                               CursorTool(shown[j].tool))
                      ELSE shown[j]]
<1>1. ParseAssistantContent(content, i) = read
  BY DEF ParseAssistantContent, Where
<1>2. \A k \in at : content[k].kind \in {"thinking", "use", "image", "text"}
  OBVIOUS
<1> HIDE DEF at
<1>3. /\ IsList(shown)
      /\ \A e \in ToSet(shown) : \E k \in 1 .. Len(content) : k \in at /\ content[k] = e
  BY KeptElements
<1>4. OnlyKinds(shown, {"thinking", "use", "image", "text"})
  BY <1>2, <1>3 DEF OnlyKinds
<1> HIDE DEF shown
<1>5. ASSUME NEW j \in 1 .. Len(shown) PROVE BlockOK("assistant", read[j])
  <2>1. j \in DOMAIN shown /\ shown[j].kind \in {"thinking", "use", "image", "text"}
    BY <1>4, MemberBlocks
  <2>2. CASE shown[j].kind = "use"
    <3>1. PICK id, tool : read[j] = Use(id, tool)
      BY <2>1, <2>2
    <3>2. QED
      BY <3>1, UseOK
  <2>3. CASE shown[j].kind # "use"
    <3>1. read[j] = shown[j]
      BY <2>1, <2>3
    <3>2. QED
      BY <2>1, <2>3, <3>1 DEF BlockOK, Blocks
  <2>4. QED
    BY <2>2, <2>3
<1>6. read = [j \in DOMAIN shown |-> read[j]]
  OBVIOUS
<1> HIDE DEF read
<1>7. QED
  BY <1>1, <1>3, <1>5, <1>6, BlockForEach

LEMMA CursorLineRead ==
  ASSUME NEW line, CursorLineOK(line), NEW i
  PROVE  BodyOK(BlobMessage(line, i))
<1>1. ASSUME NEW role \in {"user", "assistant"}, NEW content, ContentOK(role, content)
      PROVE  BodyOK(IfSome(content, <<Message(role, content)>>))
  BY <1>1, OneOrNone DEF Message
<1>2. CASE line.type = "json" /\ line.role = "user"
  <2>1. PICK content : content = ParseUserContent(line.content)
    OBVIOUS
  <2>2. BlobMessage(line, i) = IfSome(content, <<Message("user", content)>>)
    BY <1>2, <2>1 DEF BlobMessage
  <2>3. ContentOK("user", content)
    BY <1>2, <2>1, CursorUserRead DEF CursorLineOK
  <2>4. QED
    BY <1>1, <2>2, <2>3
<1>3. CASE line.type = "json" /\ line.role = "assistant"
  <2>1. PICK content : content = ParseAssistantContent(line.content, i)
    OBVIOUS
  <2>2. BlobMessage(line, i) = IfSome(content, <<Message("assistant", content)>>)
    BY <1>3, <2>1 DEF BlobMessage
  <2>3. ContentOK("assistant", content)
    BY <1>3, <2>1, CursorAssistantRead DEF CursorLineOK
  <2>4. QED
    BY <1>1, <2>2, <2>3
<1>4. CASE line.type = "json" /\ line.role = "tool"
  <2>1. PICK content : content = ParseToolContent(line.content)
    OBVIOUS
  <2>2. BlobMessage(line, i) = IfSome(content, <<Message("user", content)>>)
    BY <1>4, <2>1 DEF BlobMessage
  <2>3. ContentOK("user", content)
    BY <1>4, <2>1, CursorToolRead DEF CursorLineOK
  <2>4. QED
    BY <1>1, <2>2, <2>3
<1>5. CASE ~ (line.type = "json" /\ line.role \in {"user", "assistant", "tool"})
  <2>1. BlobMessage(line, i) = <<>>
    BY <1>5 DEF BlobMessage
  <2>2. QED
    BY <2>1, NoMessages
<1>6. QED
  BY <1>2, <1>3, <1>4, <1>5

LEMMA CursorRuns ==
  ASSUME NEW lines, Len(lines) \in Nat
  PROVE  \E f : RunOf(<<"cursor", lines>>, <<>>, Len(lines), f) /\ CursorToCommon(lines) = f[Len(lines)]
<1> DEFINE F(f) == [i \in 0 .. Len(lines) |->
                      IF i = 0 THEN <<>> ELSE f[i - 1] \o BlobMessage(lines[i], Len(f[i - 1]))]
           read == CHOOSE f : f = F(f)
           x == <<"cursor", lines>>
<1>1. \A f : F(f) = Running(x, <<>>, Len(lines), f)
  BY DEF Running, Step
<1>2. CursorToCommon(lines) = read[Len(lines)]
  BY DEF CursorToCommon
<1> HIDE DEF x
<1>3. PICK f : f = Running(x, <<>>, Len(lines), f)
  BY RunExists
<1>4. read = F(read)
  BY <1>1, <1>3
<1> HIDE DEF read
<1>5. RunOf(x, <<>>, Len(lines), read)
  BY <1>1, <1>4, Started
<1>6. QED
  BY <1>2, <1>5 DEF x

LEMMA CursorRead ==
  ASSUME NEW lines, LogOK("cursor", lines)
  PROVE  BodyOK(CursorToCommon(lines))
<1>1. PICK n : n = Len(lines)
  OBVIOUS
<1>2. n \in Nat /\ \A i \in 1 .. n : CursorLineOK(lines[i])
  BY <1>1, Lengths, MemberLines, LinesAre
<1>3. PICK f : RunOf(<<"cursor", lines>>, <<>>, n, f) /\ CursorToCommon(lines) = f[n]
  BY <1>1, <1>2, CursorRuns
<1> DEFINE T == {i \in 0 .. n : BodyOK(f[i])}
<1>4. 0 \in T
  BY <1>2, <1>3, NoMessages DEF RunOf
<1>5. ASSUME NEW i \in 1 .. n, i - 1 \in T PROVE i \in T
  <2>1. f[i] = f[i - 1] \o BlobMessage(lines[i], Len(f[i - 1]))
    BY <1>3 DEF RunOf, Step
  <2>2. PICK more : more = BlobMessage(lines[i], Len(f[i - 1]))
    OBVIOUS
  <2>3. BodyOK(more)
    BY <1>2, <2>2, CursorLineRead
  <2>4. BodyOK(f[i])
    BY <1>5, <2>1, <2>2, <2>3, MoreMessages
  <2>5. QED
    BY <1>2, <2>4
<1> HIDE DEF T
<1>6. n \in T
  BY <1>2, <1>4, <1>5, AllNumbers
<1>7. QED
  BY <1>3, <1>6 DEF T

LEMMA CursorJsonOK ==
  ASSUME NEW role, NEW content, IsList(content)
  PROVE  LineOK("cursor", Json(role, content))
BY LinesAre DEF CursorLineOK, Json

LEMMA CursorUserWritten ==
  ASSUME NEW content, IsList(content)
  PROVE  LogOK("cursor", UserValues(content))
<1> DEFINE at == {i \in DOMAIN content : content[i].kind # "result"}
           said == Kept(content, at)
           values == [i \in DOMAIN said |-> SerializeUserBlock(said[i])]
<1>1. PICK results : results = OfKind(content, {"result"})
  OBVIOUS
<1> DEFINE answers == [i \in DOMAIN results |-> Json("tool", <<results[i]>>)]
<1>2. UserValues(content) = answers \o IfSome(said, <<Json("user", values)>>)
  BY <1>1 DEF UserValues, Each, Where
<1> HIDE DEF at
<1>3. IsList(said) /\ IsList(results)
  BY <1>1, KeptSome, OfKindElements DEF OnlyKinds
<1>4. values = [i \in DOMAIN said |-> values[i]]
  OBVIOUS
<1>5. answers = [i \in DOMAIN results |-> answers[i]]
      /\ \A i \in 1 .. Len(results) : LineOK("cursor", answers[i])
  <2>1. \A b : LineOK("cursor", Json("tool", <<b>>))
    BY OneListed, CursorJsonOK
  <2>2. QED
    BY <1>3, <2>1, Members
<1> HIDE DEF said, values, answers
<1>6. LogOK("cursor", answers)
  BY <1>3, <1>5, LineForEach
<1>7. IsList(values)
  BY <1>3, <1>4, EachElements
<1>8. LogOK("cursor", IfSome(said, <<Json("user", values)>>))
  BY <1>7, CursorJsonOK, LineIfSome
<1>9. QED
  BY <1>2, <1>6, <1>8, MoreLines

LEMMA CursorAssistantWritten ==
  ASSUME NEW content, IsList(content)
  PROVE  LogOK("cursor", AssistantValues(content))
<1> DEFINE at == {i \in DOMAIN content : content[i].kind # "result"}
           kept == Kept(content, at)
           values == [i \in DOMAIN kept |-> SerializeAssistantBlock(kept[i])]
<1>1. AssistantValues(content) = IfSome(kept, <<Json("assistant", values)>>)
  BY DEF AssistantValues, Each, Where
<1> HIDE DEF at
<1>2. IsList(kept)
  BY KeptSome
<1>3. values = [i \in DOMAIN kept |-> values[i]]
  OBVIOUS
<1> HIDE DEF kept, values
<1>4. IsList(values)
  BY <1>2, <1>3, EachElements
<1>5. QED
  BY <1>1, <1>4, CursorJsonOK, LineIfSome

\* The turns of the graph.
TurnsOK(turns) == IsList(turns) /\ \A t \in ToSet(turns) : t = CursorTurn(t.v, t.steps)

LEMMA CursorExtended ==
  ASSUME NEW turns, TurnsOK(turns), NEW more
  PROVE  TurnsOK(Extend(turns, more))
<1>1. ASSUME NEW v, NEW took PROVE TurnsOK(<<CursorTurn(v, took)>>)
  BY OneListed DEF TurnsOK, CursorTurn
<1>2. CASE turns = <<>>
  BY <1>1, <1>2 DEF Extend
<1>3. CASE turns # <<>>
  <2>1. PICK n, t, took, grown, r : /\ n = Len(turns) /\ t = turns[n] /\ took = t.steps \o more
                                    /\ grown = [t EXCEPT !.steps = took]
                                    /\ r = [turns EXCEPT ![n] = grown]
    OBVIOUS
  <2>2. Extend(turns, more) = r
    BY <1>3, <2>1, Zenon DEF Extend
  <2>3. IsList(turns) /\ n \in 1 .. Len(turns) /\ t = CursorTurn(t.v, t.steps)
    BY <1>3, <2>1, Lengths DEF TurnsOK
  <2>4. grown = CursorTurn(t.v, took)
    <3>1. PICK v, old : t = CursorTurn(v, old)
      BY <2>3
    <3>2. t.v = v /\ [t EXCEPT !.steps = took] = CursorTurn(v, took)
      BY <3>1 DEF CursorTurn
    <3>3. QED
      BY <2>1, <3>2, Zenon
  <2>5. grown = CursorTurn(grown.v, grown.steps)
    BY <2>4 DEF CursorTurn
  <2>6. IsList(r) /\ ToSet(r) \subseteq ToSet(turns) \cup {grown}
    BY <2>1, <2>3, Replaced
  <2>7. QED
    BY <2>2, <2>5, <2>6 DEF TurnsOK
<1>4. QED
  BY <1>2, <1>3

LEMMA CursorTurnWritten ==
  ASSUME NEW turns, TurnsOK(turns), NEW msg, NEW results, NEW uses
  PROVE  TurnsOK(CursorOnMessage(turns, msg, results, uses))
<1>1. CASE msg.role = "user"
  <2>1. PICK text, orphan : text = UserStateText(msg.content) /\ orphan = OrphanText(msg.content, uses)
    OBVIOUS
  <2>2. PICK opened : opened = turns \o IF text = Blank THEN <<>> ELSE <<CursorTurn(text, <<>>)>>
    OBVIOUS
  <2>3. TurnsOK(<<>>) /\ TurnsOK(<<CursorTurn(text, <<>>)>>)
    BY NoneListed, OneListed DEF TurnsOK, CursorTurn
  <2>4. TurnsOK(opened)
    BY <2>2, <2>3, Together DEF TurnsOK
  <2>5. CursorOnMessage(turns, msg, results, uses)
        = IF orphan = Blank THEN opened ELSE Extend(opened, <<Text(orphan)>>)
    BY <1>1, <2>1, <2>2 DEF CursorOnMessage, UserStateTurns
  <2>6. QED
    BY <2>4, <2>5, CursorExtended
<1>2. CASE msg.role # "user"
  BY <1>2, CursorExtended DEF CursorOnMessage
<1>3. QED
  BY <1>1, <1>2

LEMMA CursorTurnsRun ==
  ASSUME NEW body, Len(body) \in Nat
  PROVE  \E results, uses, f : /\ RunOf(<<"cursor turns", body, results, uses>>, <<>>, Len(body), f)
                               /\ StateTurns(body) = f[Len(body)]
<1> DEFINE flat == Each(LAMBDA e : e.block, Flat(body))
<1>1. PICK results, uses : /\ results = OfKind(flat, {"result"})
                           /\ uses = ToSet(Each(LAMBDA b : b.id, OfKind(flat, {"use"})))
  OBVIOUS
<1> DEFINE F(f) == [i \in 0 .. Len(body) |->
                      IF i = 0 THEN <<>> ELSE CursorOnMessage(f[i - 1], body[i], results, uses)]
           written == CHOOSE f : f = F(f)
           x == <<"cursor turns", body, results, uses>>
<1>2. \A f : F(f) = Running(x, <<>>, Len(body), f)
  BY DEF Running, Step
<1>3. StateTurns(body) = written[Len(body)]
  BY <1>1, Zenon DEF StateTurns
<1> HIDE DEF x
<1>4. PICK f : f = Running(x, <<>>, Len(body), f)
  BY RunExists
<1>5. written = F(written)
  BY <1>2, <1>4
<1> HIDE DEF written
<1>6. RunOf(x, <<>>, Len(body), written)
  BY <1>2, <1>5, Started
<1>7. QED
  BY <1>3, <1>6 DEF x

LEMMA CursorTurnsWritten ==
  ASSUME NEW body, IsList(body)
  PROVE  LogOK("cursor", StateTurns(body))
<1>1. PICK n \in Nat : n = Len(body)
  BY Lengths
<1>2. PICK results, uses, f : /\ RunOf(<<"cursor turns", body, results, uses>>, <<>>, n, f)
                              /\ StateTurns(body) = f[n]
  BY <1>1, CursorTurnsRun
<1> DEFINE T == {i \in 0 .. n : TurnsOK(f[i])}
<1>3. 0 \in T
  <2>1. TurnsOK(<<>>)
    BY NoneListed DEF TurnsOK
  <2>2. f[0] = <<>>
    BY <1>2 DEF RunOf
  <2>3. QED
    BY <2>1, <2>2
<1>4. ASSUME NEW i \in 1 .. n, i - 1 \in T PROVE i \in T
  <2>1. f[i] = CursorOnMessage(f[i - 1], body[i], results, uses)
    BY <1>2 DEF RunOf, Step
  <2>2. TurnsOK(f[i])
    BY <1>4, <2>1, CursorTurnWritten
  <2>3. QED
    BY <2>2
<1> HIDE DEF T
<1>5. n \in T
  BY <1>3, <1>4, AllNumbers
<1>6. TurnsOK(StateTurns(body))
  BY <1>2, <1>5 DEF T
<1>7. ASSUME NEW v, NEW took PROVE LineOK("cursor", CursorTurn(v, took))
  BY LinesAre DEF CursorLineOK, CursorTurn
<1>8. QED
  BY <1>6, <1>7 DEF TurnsOK, LogOK

LEMMA CursorWritten ==
  ASSUME NEW meta, NEW body, BodyOK(body)
  PROVE  LogOK("cursor", CursorFromCommon(meta, body))
<1> DEFINE values == [i \in DOMAIN body |->
                        IF body[i].role = "user" THEN UserValues(body[i].content)
                        ELSE AssistantValues(body[i].content)]
<1>1. PICK head : head = CursorHeader(meta.id, IF meta.title = NoId THEN CursorImported ELSE meta.title)
  OBVIOUS
<1>2. CursorFromCommon(meta, body) = <<head>> \o FlattenSeq(values) \o StateTurns(body)
  BY <1>1 DEF CursorFromCommon, Each
<1>3. IsList(body) /\ \A i \in 1 .. Len(body) : i \in DOMAIN body /\ IsList(body[i].content)
  BY MemberMessages DEF MessageOK, ContentOK
<1>4. values = [i \in DOMAIN body |-> values[i]]
      /\ \A i \in 1 .. Len(body) : LogOK("cursor", values[i])
  BY <1>3, CursorUserWritten, CursorAssistantWritten
<1> HIDE DEF values
<1>5. LogOK("cursor", FlattenSeq(values)) /\ LogOK("cursor", StateTurns(body))
  BY <1>3, <1>4, WrittenEach, CursorTurnsWritten
<1>6. LineOK("cursor", head)
  BY <1>1, LinesAre DEF CursorLineOK, CursorHeader
<1>7. QED
  BY <1>2, <1>5, <1>6, OneLine, MoreLines

LEMMA CursorGrown ==
  ASSUME NEW lines, LogOK("cursor", lines), NEW n, NEW grown \in CursorGrow(lines, n)
  PROVE  LogOK("cursor", grown)
<1> DEFINE open == Open(CursorToCommon(lines))
           asks == {Json("user", c) : c \in Asks(n)}
           says == {Json("assistant", c) :
                      c \in {Says(n), <<Use(NoId, "Read")>>} \cup Calls(n, "Shell")}
           answers == {Json("tool", <<Result(id, Output(n, id), Fails(id))>>) : id \in open}
           others == {Injected(<<n>>), Json("system", <<Text(<<n>>)>>)}
           written == asks \cup says \cup answers \cup others
<1>1. grown \in Appending(lines, written)
  <2>1. CursorGrow(lines, n) = Appending(lines, written)
    BY Zenon DEF CursorGrow
  <2> HIDE DEF written
  <2>2. QED
    BY <2>1
<1> HIDE DEF open
<1>2. ASSUME NEW l \in asks PROVE LineOK("cursor", l)
  BY Asked, CursorJsonOK DEF OnlyKinds
<1>3. ASSUME NEW l \in says PROVE LineOK("cursor", l)
  <2>1. PICK c \in {Says(n), <<Use(NoId, "Read")>>} \cup Calls(n, "Shell") : l = Json("assistant", c)
    OBVIOUS
  <2>2. IsList(c)
    BY <2>1, Said, Called, OneListed DEF OnlyKinds
  <2>3. QED
    BY <2>1, <2>2, CursorJsonOK
<1>4. \A b, role : LineOK("cursor", Json(role, <<b>>))
  BY OneListed, CursorJsonOK
<1>5. ASSUME NEW l \in answers PROVE LineOK("cursor", l)
  BY <1>4, Zenon
<1>6. ASSUME NEW l \in others PROVE LineOK("cursor", l)
  <2>1. LineOK("cursor", Injected(<<n>>))
    BY LinesAre DEF CursorLineOK, Injected
  <2>2. QED
    BY <1>4, <2>1
<1> HIDE DEF asks, says, answers, others
<1>7. \A l \in written : LineOK("cursor", l)
  BY <1>2, <1>3, <1>5, <1>6
<1> HIDE DEF written
<1>8. QED
  BY <1>1, <1>7, LineAppended

(***************************************************************************)
(* Cursor's desktop app: any list of bubbles is read.                      *)
(***************************************************************************)
BubblesOK(s) ==
  /\ s = [out |-> s.out, pending |-> s.pending]
  /\ BodyOK(s.out) /\ ContentOK("assistant", s.pending)

LEMMA BubblesFlushed ==
  ASSUME NEW s, BubblesOK(s)
  PROVE  BubblesOK(CursorDesktopFlush(s))
<1>1. PICK content, more, out : /\ content = s.pending
                                /\ more = IfSome(content, <<Assistant(content)>>)
                                /\ out = s.out \o more
  OBVIOUS
<1>2. CursorDesktopFlush(s) = [out |-> out, pending |-> <<>>]
  BY <1>1 DEF CursorDesktopFlush
<1>3. BodyOK(more)
  BY <1>1, OneOrNone DEF BubblesOK, Assistant
<1>4. BodyOK(out)
  BY <1>1, <1>3, MoreMessages DEF BubblesOK
<1>5. QED
  BY <1>2, <1>4, NoContent DEF BubblesOK

LEMMA BubbleWaits ==
  ASSUME NEW s, BubblesOK(s), NEW b, BlockOK("assistant", b)
  PROVE  BubblesOK([s EXCEPT !.pending = Append(@, b)])
<1>1. PICK pending : pending = Append(s.pending, b)
  OBVIOUS
<1>2. [s EXCEPT !.pending = pending] = [out |-> s.out, pending |-> pending]
  BY DEF BubblesOK
<1>3. ContentOK("assistant", pending)
  BY <1>1, Appended DEF BubblesOK, ContentOK
<1>4. QED
  BY <1>1, <1>2, <1>3 DEF BubblesOK

LEMMA BubbleShown ==
  ASSUME NEW s, BubblesOK(s), NEW msg, MessageOK(msg)
  PROVE  BubblesOK([s EXCEPT !.out = Append(@, msg)])
<1>1. PICK out : out = Append(s.out, msg)
  OBVIOUS
<1>2. [s EXCEPT !.out = out] = [out |-> out, pending |-> s.pending]
  BY DEF BubblesOK
<1>3. BodyOK(out)
  BY <1>1, OneMoreMessage DEF BubblesOK
<1>4. QED
  BY <1>1, <1>2, <1>3 DEF BubblesOK

LEMMA BubbleCalls ==
  ASSUME NEW s, BubblesOK(s), NEW bubble
  PROVE  BubblesOK(PushToolCall(s, bubble))
<1>1. PICK id : id = IF bubble.id = NoId THEN DeterministicId(Len(s.out)) ELSE SanitizeCallId(bubble.id)
  OBVIOUS
<1>2. PICK use, err, result : /\ use = Use(id, CursorDesktopNormalizeTool(bubble.tool))
                              /\ err = (bubble.status = "error")
                              /\ result = Result(id, bubble.v, err)
  OBVIOUS
<1>3. PICK waiting, called, answer : /\ waiting = [s EXCEPT !.pending = Append(@, use)]
                                     /\ called = CursorDesktopFlush(waiting)
                                     /\ answer = User(<<result>>)
  OBVIOUS
<1>4. PushToolCall(s, bubble) = IF bubble.status \notin {"completed", "error"} THEN called
                                ELSE [called EXCEPT !.out = Append(@, answer)]
  BY <1>1, <1>2, <1>3, Zenon DEF PushToolCall
<1>5. BlockOK("assistant", use) /\ MessageOK(answer)
  BY <1>2, <1>3, UseOK, ResultOK, OneBlock DEF User
<1>6. BubblesOK(waiting)
  BY <1>3, <1>5, BubbleWaits
<1>7. BubblesOK(called)
  BY <1>3, <1>6, BubblesFlushed
<1>8. BubblesOK([called EXCEPT !.out = Append(@, answer)])
  BY <1>5, <1>7, BubbleShown
<1>9. QED
  BY <1>4, <1>7, <1>8, Zenon

LEMMA BubbleRead ==
  ASSUME NEW s, BubblesOK(s), NEW bubble
  PROVE  BubblesOK(OnBubble(s, bubble))
<1>1. PICK text, thought : text = Text(bubble.v) /\ thought = Thinking(bubble.v)
  OBVIOUS
<1>2. BlockOK("assistant", text) /\ BlockOK("assistant", thought) /\ MessageOK(User(<<text>>))
  BY <1>1, TextOK, ThoughtOK, OneBlock DEF User
<1>3. CASE bubble.type = "user"
  <2>1. PICK flushed, asked : flushed = CursorDesktopFlush(s) /\ asked = User(<<text>>)
    OBVIOUS
  <2>2. OnBubble(s, bubble) = IF bubble.v = Blank THEN flushed
                              ELSE [flushed EXCEPT !.out = Append(@, asked)]
    BY <1>1, <1>3, <2>1 DEF OnBubble
  <2>3. BubblesOK(flushed)
    BY <2>1, BubblesFlushed
  <2>4. BubblesOK([flushed EXCEPT !.out = Append(@, asked)])
    BY <1>2, <2>1, <2>3, BubbleShown
  <2>5. QED
    BY <2>2, <2>3, <2>4, Zenon
<1>4. CASE bubble.type \in {"thinking", "text"}
  <2>1. PICK b \in {text, thought} : b = IF bubble.type = "text" THEN text ELSE thought
    OBVIOUS
  <2>2. OnBubble(s, bubble) = [s EXCEPT !.pending = IF bubble.v = Blank THEN @ ELSE Append(@, b)]
    BY <1>1, <1>4, <2>1 DEF OnBubble
  <2>3. CASE bubble.v = Blank
    <3>1. [s EXCEPT !.pending = s.pending] = s
      BY DEF BubblesOK
    <3>2. QED
      BY <2>2, <2>3, <3>1
  <2>4. CASE bubble.v # Blank
    <3>1. OnBubble(s, bubble) = [s EXCEPT !.pending = Append(@, b)]
      BY <2>2, <2>4
    <3>2. BlockOK("assistant", b)
      BY <1>2, <2>1
    <3>3. QED
      BY <3>1, <3>2, BubbleWaits
  <2>5. QED
    BY <2>3, <2>4
<1>5. CASE bubble.type = "tool"
  BY <1>5, BubbleCalls DEF OnBubble
<1>6. CASE bubble.type \notin {"user", "thinking", "text", "tool"}
  BY <1>6 DEF OnBubble
<1>7. QED
  BY <1>3, <1>4, <1>5, <1>6

BubbleStart == [out |-> <<>>, pending |-> <<>>]

LEMMA BubblesRun ==
  ASSUME NEW lines, Len(lines) \in Nat
  PROVE  \E f : /\ RunOf(<<"cursor_desktop", lines>>, BubbleStart, Len(lines), f)
                /\ CursorDesktopToCommon(lines) = CursorDesktopFlush(f[Len(lines)]).out
<1> DEFINE F(f) == [i \in 0 .. Len(lines) |->
                      IF i = 0 THEN [out |-> <<>>, pending |-> <<>>] ELSE OnBubble(f[i - 1], lines[i])]
           read == CHOOSE f : f = F(f)
           x == <<"cursor_desktop", lines>>
<1>1. \A f : F(f) = Running(x, BubbleStart, Len(lines), f)
  BY DEF Running, Step, BubbleStart
<1>2. CursorDesktopToCommon(lines) = CursorDesktopFlush(read[Len(lines)]).out
  BY DEF CursorDesktopToCommon
<1> HIDE DEF x
<1>3. PICK f : f = Running(x, BubbleStart, Len(lines), f)
  BY RunExists
<1>4. read = F(read)
  BY <1>1, <1>3
<1> HIDE DEF read
<1>5. RunOf(x, BubbleStart, Len(lines), read)
  BY <1>1, <1>4, Started
<1>6. QED
  BY <1>2, <1>5 DEF x

LEMMA CursorDesktopRead ==
  ASSUME NEW lines, LogOK("cursor_desktop", lines)
  PROVE  BodyOK(CursorDesktopToCommon(lines))
<1>1. PICK n \in Nat : n = Len(lines)
  BY Lengths DEF LogOK
<1>2. PICK f : /\ RunOf(<<"cursor_desktop", lines>>, BubbleStart, n, f)
               /\ CursorDesktopToCommon(lines) = CursorDesktopFlush(f[n]).out
  BY <1>1, BubblesRun
<1> DEFINE T == {i \in 0 .. n : BubblesOK(f[i])}
<1>3. 0 \in T
  <2>1. BubblesOK(BubbleStart)
    BY NoMessages, NoContent DEF BubblesOK, BubbleStart
  <2>2. f[0] = BubbleStart
    BY <1>2 DEF RunOf
  <2>3. QED
    BY <2>1, <2>2
<1>4. ASSUME NEW i \in 1 .. n, i - 1 \in T PROVE i \in T
  <2>1. f[i] = OnBubble(f[i - 1], lines[i])
    BY <1>2 DEF RunOf, Step
  <2>2. BubblesOK(f[i])
    BY <1>4, <2>1, BubbleRead
  <2>3. QED
    BY <2>2
<1> HIDE DEF T
<1>5. n \in T
  BY <1>3, <1>4, AllNumbers
<1>6. BubblesOK(CursorDesktopFlush(f[n]))
  BY <1>5, BubblesFlushed DEF T
<1>7. QED
  BY <1>2, <1>6 DEF BubblesOK

LEMMA ListedBubbles == ASSUME NEW s PROVE LogOK("cursor_desktop", s) <=> IsList(s)
BY LinesAre DEF LogOK

LEMMA BubbleChanged ==
  ASSUME NEW s, IsList(s), NEW i, NEW e, NEW r, r = [s EXCEPT ![i] = e]
  PROVE  IsList(r)
BY LineChanged, LinesAre, ListedBubbles

LEMMA BubbleAnswered ==
  ASSUME NEW bubbles, IsList(bubbles), NEW b
  PROVE  IsList(AttachResult(bubbles, b))
<1>1. PICK k, status : k = CallBubble(bubbles, b.id) /\ status = IF b.err THEN "error" ELSE "completed"
  OBVIOUS
<1>2. PICK once, twice, one, two : /\ one = [bubbles[k] EXCEPT !.v = b.v]
                                   /\ once = [bubbles EXCEPT ![k] = one]
                                   /\ two = [once[k] EXCEPT !.status = status]
                                   /\ twice = [once EXCEPT ![k] = two]
  OBVIOUS
<1>3. [bubbles EXCEPT ![k].v = b.v, ![k].status = status] = twice
  BY <1>2, Zenon
<1>4. AttachResult(bubbles, b) = IF k = 0 THEN bubbles ELSE twice
  BY <1>1, <1>3 DEF AttachResult
<1>5. IsList(once)
  BY <1>2, BubbleChanged
<1>6. IsList(twice)
  BY <1>2, <1>5, BubbleChanged
<1>7. QED
  BY <1>4, <1>6

LEMMA ResultsAttach ==
  ASSUME NEW bubbles, NEW results, Len(results) \in Nat
  PROVE  \E f : /\ RunOf(<<"cursor_desktop results", results>>, bubbles, Len(results), f)
                /\ AttachResults(bubbles, results) = f[Len(results)]
<1> DEFINE F(f) == [r \in 0 .. Len(results) |->
                      IF r = 0 THEN bubbles ELSE AttachResult(f[r - 1], results[r])]
           attached == CHOOSE f : f = F(f)
           x == <<"cursor_desktop results", results>>
<1>1. \A f : F(f) = Running(x, bubbles, Len(results), f)
  BY DEF Running, Step
<1>2. AttachResults(bubbles, results) = attached[Len(results)]
  BY DEF AttachResults
<1> HIDE DEF x
<1>3. PICK f : f = Running(x, bubbles, Len(results), f)
  BY RunExists
<1>4. attached = F(attached)
  BY <1>1, <1>3
<1> HIDE DEF attached
<1>5. RunOf(x, bubbles, Len(results), attached)
  BY <1>1, <1>4, Started
<1>6. QED
  BY <1>2, <1>5 DEF x

LEMMA ResultsAttached ==
  ASSUME NEW bubbles, IsList(bubbles), NEW results, IsList(results)
  PROVE  IsList(AttachResults(bubbles, results))
<1>1. PICK n \in Nat : n = Len(results)
  BY Lengths
<1>2. PICK f : /\ RunOf(<<"cursor_desktop results", results>>, bubbles, n, f)
               /\ AttachResults(bubbles, results) = f[n]
  BY <1>1, ResultsAttach
<1> DEFINE T == {r \in 0 .. n : IsList(f[r])}
<1>3. 0 \in T
  <2>1. f[0] = bubbles
    BY <1>2 DEF RunOf
  <2>2. QED
    BY <2>1
<1>4. ASSUME NEW r \in 1 .. n, r - 1 \in T PROVE r \in T
  <2>1. f[r] = AttachResult(f[r - 1], results[r])
    BY <1>2 DEF RunOf, Step
  <2>2. IsList(f[r])
    BY <1>4, <2>1, BubbleAnswered
  <2>3. QED
    BY <2>2
<1> HIDE DEF T
<1>5. n \in T
  BY <1>3, <1>4, AllNumbers
<1>6. QED
  BY <1>2, <1>5 DEF T

LEMMA BubblesWritten ==
  ASSUME NEW bubbles, IsList(bubbles), NEW msg, IsList(msg.content)
  PROVE  IsList(CursorDesktopOnMessage(bubbles, msg))
<1>1. CASE msg.role = "user"
  <2>1. PICK results, v : /\ results = OfKind(msg.content, {"result"})
                          /\ v = Joined(OfKind(msg.content, {"text"}))
    OBVIOUS
  <2>2. PICK attached, asked : /\ attached = AttachResults(bubbles, results)
                               /\ asked = IF v = Blank THEN <<>> ELSE <<UserBubble(v)>>
    OBVIOUS
  <2>3. CursorDesktopOnMessage(bubbles, msg) = attached \o asked
    BY <1>1, <2>1, <2>2 DEF CursorDesktopOnMessage, OnUserMessage
  <2>4. IsList(results)
    BY <2>1, OfKindElements DEF OnlyKinds
  <2>5. IsList(attached) /\ IsList(asked)
    BY <2>2, <2>4, ResultsAttached, NoneListed, OneListed
  <2>6. QED
    BY <2>3, <2>5, Together
<1>2. CASE msg.role # "user"
  <2> DEFINE said == [i \in DOMAIN msg.content |-> BubbleOf(msg.content[i])]
  <2>1. CursorDesktopOnMessage(bubbles, msg) = bubbles \o FlattenSeq(said)
    BY <1>2 DEF CursorDesktopOnMessage, Each
  <2>2. ASSUME NEW b PROVE IsList(BubbleOf(b))
    BY NoneListed, OneListed DEF BubbleOf
  <2>3. said = [i \in DOMAIN msg.content |-> said[i]] /\ \A i \in 1 .. Len(msg.content) : IsList(said[i])
    BY <2>2, Members
  <2> HIDE DEF said
  <2>4. IsList(FlattenSeq(said))
    BY <2>3, FlattenedLists
  <2>5. QED
    BY <2>1, <2>4, Together
<1>3. QED
  BY <1>1, <1>2

LEMMA BubblesWrite ==
  ASSUME NEW body, Len(body) \in Nat
  PROVE  \E f : /\ RunOf(<<"cursor_desktop written", body>>, <<>>, Len(body), f)
                /\ BubblesFromMessages(body) = f[Len(body)]
<1> DEFINE F(f) == [i \in 0 .. Len(body) |->
                      IF i = 0 THEN <<>> ELSE CursorDesktopOnMessage(f[i - 1], body[i])]
           written == CHOOSE f : f = F(f)
           x == <<"cursor_desktop written", body>>
<1>1. \A f : F(f) = Running(x, <<>>, Len(body), f)
  BY DEF Running, Step
<1>2. BubblesFromMessages(body) = written[Len(body)]
  BY DEF BubblesFromMessages
<1> HIDE DEF x
<1>3. PICK f : f = Running(x, <<>>, Len(body), f)
  BY RunExists
<1>4. written = F(written)
  BY <1>1, <1>3
<1> HIDE DEF written
<1>5. RunOf(x, <<>>, Len(body), written)
  BY <1>1, <1>4, Started
<1>6. QED
  BY <1>2, <1>5 DEF x

LEMMA CursorDesktopWritten ==
  ASSUME NEW meta, NEW body, BodyOK(body)
  PROVE  LogOK("cursor_desktop", CursorDesktopFromCommon(meta, body))
<1>1. PICK n \in Nat : n = Len(body)
  BY MemberMessages, Lengths
<1>2. \A i \in 1 .. n : IsList(body[i].content)
  BY <1>1, MemberMessages DEF MessageOK, ContentOK
<1>3. PICK f : /\ RunOf(<<"cursor_desktop written", body>>, <<>>, n, f)
               /\ BubblesFromMessages(body) = f[n]
  BY <1>1, BubblesWrite
<1> DEFINE T == {i \in 0 .. n : IsList(f[i])}
<1>4. 0 \in T
  <2>1. f[0] = <<>>
    BY <1>3 DEF RunOf
  <2>2. QED
    BY <2>1, NoneListed
<1>5. ASSUME NEW i \in 1 .. n, i - 1 \in T PROVE i \in T
  <2>1. f[i] = CursorDesktopOnMessage(f[i - 1], body[i])
    BY <1>3 DEF RunOf, Step
  <2>2. IsList(f[i])
    BY <1>2, <1>5, <2>1, BubblesWritten
  <2>3. QED
    BY <2>2
<1> HIDE DEF T
<1>6. n \in T
  BY <1>4, <1>5, AllNumbers
<1>7. IsList(BubblesFromMessages(body))
  BY <1>3, <1>6 DEF T
<1>8. PICK head : head = CursorDesktopHeader(meta.id, TitleFor(meta, body))
  OBVIOUS
<1>9. CursorDesktopFromCommon(meta, body) = <<head>> \o BubblesFromMessages(body)
  BY <1>8 DEF CursorDesktopFromCommon
<1>10. QED
  BY <1>7, <1>9, OneListed, Together, ListedBubbles

LEMMA CursorDesktopGrown ==
  ASSUME NEW lines, LogOK("cursor_desktop", lines), NEW n, NEW grown \in CursorDesktopGrow(lines, n)
  PROVE  LogOK("cursor_desktop", grown)
<1> DEFINE pending == {i \in DOMAIN lines : /\ lines[i].type = "tool" /\ lines[i].status = "started"
                                            /\ Own(lines[i].id)}
           Begun(id) == ToolBubble(id, "run_terminal_command_v2", "started", Blank)
           written == {UserBubble(<<n>>), ThinkingBubble(<<n>>),
                       TextBubble(<<n>>), Begun(<<"a", n>>), Begun(<<"b", n>>)}
           ended == {[lines EXCEPT ![i] = ToolBubble(@.id, @.tool,
                        IF Fails(@.id) THEN "error" ELSE "completed", Output(n, @.id))] : i \in pending}
<1>1. grown \in Appending(lines, written) \cup ended
  BY Zenon DEF CursorDesktopGrow
<1>2. CASE grown \in ended
  <2>1. PICK i \in pending :
          grown = [lines EXCEPT ![i] = ToolBubble(@.id, @.tool,
                     IF Fails(@.id) THEN "error" ELSE "completed", Output(n, @.id))]
    BY <1>2, Zenon
  <2>2. PICK l : l = ToolBubble(lines[i].id, lines[i].tool,
                       IF Fails(lines[i].id) THEN "error" ELSE "completed", Output(n, lines[i].id))
    OBVIOUS
  <2>3. grown = [lines EXCEPT ![i] = l]
    BY <2>1, <2>2, Zenon
  <2> HIDE DEF pending, ended
  <2>4. QED
    BY <2>3, LinesAre, LineChanged
<1> HIDE DEF written, ended
<1>3. QED
  BY <1>1, <1>2, LinesAre, LineAppended

(***************************************************************************)
(* fx: the first line holds the thoughts of the turns that follow.         *)
(***************************************************************************)
ThoughtsOK(reasoning) == \A p \in DOMAIN reasoning : OnlyKinds(reasoning[p], {"thinking"})
FxOK(lines) == LogOK("fx", lines) /\ lines # <<>> /\ ThoughtsOK(lines[1].reasoning)

LEMMA FxSpoken ==
  ASSUME NEW role, NEW v
  PROVE  ContentOK(role, Spoken(v))
BY TextOK, OneBlockContent, NoContent DEF Spoken

LEMMA FxThoughts ==
  ASSUME NEW reasoning, ThoughtsOK(reasoning), NEW p,
         NEW thoughts, thoughts = (IF p \in DOMAIN reasoning THEN reasoning[p] ELSE <<>>)
  PROVE  ContentOK("assistant", thoughts)
<1>1. CASE p \in DOMAIN reasoning
  <2>1. OnlyKinds(thoughts, {"thinking"})
    BY <1>1 DEF ThoughtsOK
  <2>2. QED
    BY <2>1, AssistantKinds DEF OnlyKinds
<1>2. CASE p \notin DOMAIN reasoning
  BY <1>2, NoContent
<1>3. QED
  BY <1>1, <1>2

LEMMA FxSays ==
  ASSUME NEW reasoning, ThoughtsOK(reasoning), NEW p, NEW content, ContentOK("assistant", content),
         NEW thoughts, thoughts = (IF p \in DOMAIN reasoning THEN reasoning[p] ELSE <<>>)
  PROVE  BodyOK(IfSome(thoughts \o content, <<Assistant(thoughts \o content)>>))
<1>1. ContentOK("assistant", thoughts)
  BY FxThoughts
<1>2. PICK said : said = thoughts \o content
  OBVIOUS
<1>3. ContentOK("assistant", said)
  BY <1>1, <1>2, MoreContent
<1>4. QED
  BY <1>2, <1>3, OneOrNone DEF Assistant

LEMMA FxCallsRead ==
  ASSUME NEW s, IsList(s), NEW f, f = [i \in DOMAIN s |-> Use(s[i].id, FxNormalizeTool(s[i].tool))]
  PROVE  ContentOK("assistant", f)
<1>1. f = [i \in DOMAIN s |-> f[i]] /\ \A i \in 1 .. Len(s) : BlockOK("assistant", f[i])
  BY Members, UseOK
<1>2. QED
  BY <1>1, BlockForEach

LEMMA FxPromptRead ==
  ASSUME NEW v, NEW images, OnlyKinds(images, {"image"}), NEW prompt, prompt = Spoken(v) \o images
  PROVE  BodyOK(IfSome(prompt, <<User(prompt)>>))
<1>1. ContentOK("user", images)
  BY UserKinds DEF OnlyKinds
<1>2. ContentOK("user", prompt)
  BY <1>1, FxSpoken, MoreContent
<1>3. QED
  BY <1>2, OneOrNone DEF User

\* A turn that was interrupted: what was said, and the call not yet made.
LEMMA FxInterruptedRead ==
  ASSUME NEW turn, FxLineOK(turn), turn.type = "turn", turn.kind = "interrupted",
         NEW t, NEW reasoning, ThoughtsOK(reasoning)
  PROVE  BodyOK(EmitTurn(turn, t, reasoning))
<1> DEFINE uses == [i \in DOMAIN turn.call |-> Use(turn.call[i].id, FxNormalizeTool(turn.call[i].tool))]
<1>1. PICK prompt : prompt = Spoken(turn.text) \o turn.images
  OBVIOUS
<1>2. PICK thoughts : thoughts = IF <<t, 0>> \in DOMAIN reasoning THEN reasoning[<<t, 0>>] ELSE <<>>
  OBVIOUS
<1>3. PICK calls : calls = uses
  OBVIOUS
<1>4. PICK said : said = thoughts \o (Spoken(turn.final) \o calls)
  OBVIOUS
<1>5. EmitTurn(turn, t, reasoning) = IfSome(prompt, <<User(prompt)>>) \o IfSome(said, <<Aborted(said)>>)
  BY <1>1, <1>2, <1>3, <1>4 DEF EmitTurn, Each
<1>6. OnlyKinds(turn.images, {"image"}) /\ IsList(turn.call)
  BY DEF FxLineOK
<1>7. BodyOK(IfSome(prompt, <<User(prompt)>>))
  BY <1>1, <1>6, FxPromptRead
<1>8. ContentOK("assistant", calls)
  BY <1>3, <1>6, FxCallsRead
<1>9. ContentOK("assistant", said)
  <2>1. ContentOK("assistant", thoughts)
    BY <1>2, FxThoughts
  <2>2. QED
    BY <1>4, <1>8, <2>1, FxSpoken, MoreContent
<1>10. QED
  BY <1>5, <1>7, <1>9, AbortedOrNone, MoreMessages

LEMMA FxCommittedRead ==
  ASSUME NEW turn, FxLineOK(turn), turn.type = "turn", turn.kind # "interrupted",
         NEW t, NEW reasoning, ThoughtsOK(reasoning)
  PROVE  BodyOK(EmitTurn(turn, t, reasoning))
<1> DEFINE Thoughts(a) == IF <<t, a>> \in DOMAIN reasoning THEN reasoning[<<t, a>>] ELSE <<>>
           Says1(a, content) == IfSome(Thoughts(a) \o content, <<Assistant(Thoughts(a) \o content)>>)
           Uses(step) == [i \in DOMAIN step.calls |->
                            Use(step.calls[i].id, FxNormalizeTool(step.calls[i].tool))]
           Took(k) == Says1(k - 1, Spoken(turn.steps[k].text) \o Uses(turn.steps[k]))
                      \o IfSome(turn.steps[k].results, <<User(turn.steps[k].results)>>)
           took == [k \in DOMAIN turn.steps |-> Took(k)]
           prompt == Spoken(turn.text) \o turn.images
           final == Says1(Len(turn.steps), Spoken(turn.final))
<1>1. EmitTurn(turn, t, reasoning) = IfSome(prompt, <<User(prompt)>>) \o (FlattenSeq(took) \o final)
  BY DEF EmitTurn, Each
<1>2. ASSUME NEW a, NEW content, ContentOK("assistant", content) PROVE BodyOK(Says1(a, content))
  BY <1>2, FxSays
<1>3. BodyOK(IfSome(prompt, <<User(prompt)>>))
  BY FxPromptRead DEF FxLineOK
<1>4. BodyOK(final)
  <2> HIDE DEF Says1
  <2>1. QED
    BY <1>2, FxSpoken
<1>5. IsList(turn.steps) /\ \A k \in 1 .. Len(turn.steps) :
        IsList(turn.steps[k].calls) /\ OnlyKinds(turn.steps[k].results, {"result"})
  BY Members DEF FxLineOK
<1>6. ASSUME NEW k \in 1 .. Len(turn.steps) PROVE BodyOK(Took(k))
  <2>1. PICK step : step = turn.steps[k]
    OBVIOUS
  <2>2. IsList(step.calls) /\ OnlyKinds(step.results, {"result"})
    BY <1>5, <2>1
  <2>3. PICK calls : calls = Uses(step)
    OBVIOUS
  <2>4. ContentOK("assistant", calls)
    BY <2>2, <2>3, FxCallsRead
  <2>5. PICK content : content = Spoken(step.text) \o calls
    OBVIOUS
  <2>6. ContentOK("assistant", content)
    BY <2>4, <2>5, FxSpoken, MoreContent
  <2> HIDE DEF Says1, Uses
  <2>7. BodyOK(Says1(k - 1, content))
    BY <1>2, <2>6
  <2>8. ContentOK("user", step.results)
    BY <2>2, UserKinds DEF OnlyKinds
  <2>9. PICK results : results = step.results
    OBVIOUS
  <2>10. BodyOK(IfSome(results, <<User(results)>>))
    BY <2>8, <2>9, OneOrNone DEF User
  <2>11. Took(k) = Says1(k - 1, content) \o IfSome(results, <<User(results)>>)
    BY <2>1, <2>3, <2>5, <2>9
  <2> HIDE DEF Took
  <2>12. QED
    BY <2>7, <2>10, <2>11, MoreMessages
<1> HIDE DEF Took, Says1, Uses
<1>7. took = [k \in DOMAIN turn.steps |-> took[k]] /\ \A k \in 1 .. Len(turn.steps) : BodyOK(took[k])
  BY <1>5, <1>6, Members
<1> HIDE DEF took, prompt, final
<1>8. BodyOK(FlattenSeq(took))
  BY <1>5, <1>7, ReadEach
<1>9. QED
  BY <1>1, <1>3, <1>4, <1>8, MoreMessages

LEMMA FxTurnRead ==
  ASSUME NEW turn, FxLineOK(turn), turn.type = "turn", NEW t, NEW reasoning, ThoughtsOK(reasoning)
  PROVE  BodyOK(EmitTurn(turn, t, reasoning))
BY FxInterruptedRead, FxCommittedRead

LEMMA FxRead ==
  ASSUME NEW lines, FxOK(lines)
  PROVE  BodyOK(FxToCommon(lines))
<1> DEFINE at == {i \in DOMAIN lines : lines[i].type = "turn"}
           turns == Kept(lines, at)
           said == [t \in DOMAIN turns |-> EmitTurn(turns[t], t - 1, lines[1].reasoning)]
<1>1. FxToCommon(lines) = FlattenSeq(said)
  BY DEF FxToCommon, Where
<1>2. LogOK("fx", lines) /\ ThoughtsOK(lines[1].reasoning)
  BY DEF FxOK
<1>3. IsList(turns) /\ \A turn \in ToSet(turns) : \E i \in 1 .. Len(lines) : i \in at /\ lines[i] = turn
  <2> HIDE DEF at
  <2>1. QED
    BY <1>2, KeptElements DEF LogOK
<1>4. \A turn \in ToSet(turns) : FxLineOK(turn) /\ turn.type = "turn"
  <2> HIDE DEF turns
  <2>1. QED
    BY <1>2, <1>3, MemberLines, LinesAre
<1> HIDE DEF turns
<1>5. said = [t \in DOMAIN turns |-> said[t]] /\ \A t \in 1 .. Len(turns) : BodyOK(said[t])
  BY <1>2, <1>3, <1>4, Members, FxTurnRead
<1> HIDE DEF said
<1>6. QED
  BY <1>1, <1>3, <1>5, ReadEach

\* What is kept of the numbers up to n is numbers that rise.
Rising(p, n) ==
  /\ IsList(p)
  /\ \A k \in 1 .. Len(p) : p[k] \in 1 .. n
  /\ \A k \in 1 .. Len(p) - 1 : p[k] < p[k + 1]

LEMMA RisingOn ==
  ASSUME NEW i \in Nat, i > 0, NEW p, Rising(p, i - 1)
  PROVE  Rising(p, i) /\ Rising(Append(p, i), i)
<1>1. Len(p) \in Nat /\ IsList(p) /\ \A k \in 1 .. Len(p) : p[k] \in 1 .. i - 1
  BY Lengths DEF Rising
<1>2. Rising(p, i)
  <2>1. \A k \in 1 .. Len(p) : p[k] \in 1 .. i
    BY <1>1
  <2>2. QED
    BY <2>1 DEF Rising
<1>3. PICK q : q = Append(p, i)
  OBVIOUS
<1>4. /\ IsList(q) /\ Len(q) = Len(p) + 1
      /\ \A k \in 1 .. Len(p) : q[k] = p[k]
      /\ q[Len(p) + 1] = i
  BY <1>1, <1>3, Appended
<1>5. \A k \in 1 .. Len(q) : q[k] \in 1 .. i
  <2>1. ASSUME NEW k \in 1 .. Len(q) PROVE q[k] \in 1 .. i
    <3>1. CASE k \in 1 .. Len(p)
      <4>1. q[k] = p[k] /\ p[k] \in 1 .. i - 1
        BY <1>1, <1>4, <3>1
      <4>2. QED
        BY <4>1
    <3>2. CASE k = Len(p) + 1
      BY <1>4, <3>2
    <3>3. QED
      BY <1>1, <1>4, <3>1, <3>2
  <2>2. QED
    BY <2>1
<1>6. \A k \in 1 .. Len(q) - 1 : q[k] < q[k + 1]
  <2>1. ASSUME NEW k \in 1 .. Len(q) - 1 PROVE q[k] < q[k + 1]
    <3>1. k \in 1 .. Len(p) /\ q[k] = p[k] /\ p[k] \in 1 .. i - 1
      BY <1>1, <1>4
    <3>2. CASE k = Len(p)
      BY <1>4, <3>1, <3>2
    <3>3. CASE k # Len(p)
      <4>1. k \in 1 .. Len(p) - 1 /\ k + 1 \in 1 .. Len(p)
        BY <1>1, <3>1, <3>3
      <4>2. p[k] < p[k + 1] /\ q[k + 1] = p[k + 1]
        BY <1>4, <4>1 DEF Rising
      <4>3. QED
        BY <3>1, <4>2
    <3>4. QED
      BY <3>2, <3>3
  <2>2. QED
    BY <2>1
<1>7. QED
  BY <1>2, <1>3, <1>4, <1>5, <1>6 DEF Rising

LEMMA KeptRising ==
  ASSUME NEW n \in Nat, NEW s, IsList(s), Len(s) = n, \A i \in 1 .. n : s[i] = i, NEW at
  PROVE  Rising(Kept(s, at), n)
<1>2. PICK f : /\ f[0] = <<>>
               /\ \A i \in 1 .. n : f[i] = IF i \in at THEN Append(f[i - 1], s[i]) ELSE f[i - 1]
               /\ Kept(s, at) = f[n]
  <2>1. \E f : /\ f[0] = <<>>
               /\ \A i \in 1 .. Len(s) : f[i] = IF i \in at THEN Append(f[i - 1], s[i]) ELSE f[i - 1]
               /\ Kept(s, at) = f[Len(s)]
    BY KeptRuns
  <2>2. QED
    BY <2>1, Zenon
<1> DEFINE T == {i \in 0 .. n : Rising(f[i], i)}
<1>3. 0 \in T
  <2>1. Rising(<<>>, 0)
    BY NoneListed DEF Rising
  <2>2. QED
    BY <1>2, <2>1
<1>4. ASSUME NEW i \in 1 .. n, i - 1 \in T PROVE i \in T
  <2>1. Rising(f[i - 1], i - 1) /\ i \in Nat /\ i > 0
    BY <1>4
  <2>2. Rising(f[i - 1], i) /\ Rising(Append(f[i - 1], i), i)
    BY <2>1, RisingOn
  <2>3. Rising(f[i], i)
    BY <1>2, <2>2
  <2>4. QED
    BY <2>3
<1> HIDE DEF T
<1>5. n \in T
  BY <1>3, <1>4, AllNumbers
<1>6. QED
  BY <1>2, <1>5 DEF T

\* A part of a list.
LEMMA Part ==
  ASSUME NEW s, IsList(s), NEW i \in 1 .. Len(s), NEW j \in i .. Len(s), NEW p, p = SubSeq(s, i, j)
  PROVE  IsList(p) /\ p # <<>> /\ ToSet(p) \subseteq ToSet(s)
<1>1. Len(s) \in Nat /\ \A k \in i .. j : s[k] \in ToSet(s)
  BY Lengths
<1>2. i \in Int /\ j \in Int /\ i <= j
  BY <1>1
<1>3. p \in Seq(ToSet(s)) /\ Len(p) = j - i + 1
  BY <1>1, <1>2, SubSeqProperties
<1>4. p # <<>>
  BY <1>2, <1>3, EmptySeq
<1>5. QED
  BY <1>3, <1>4, OwnElements

SegmentOK(seg) == BodyOK(seg) /\ seg # <<>>

LEMMA FxSegmentsCut ==
  ASSUME NEW body, BodyOK(body)
  PROVE  /\ IsList(FxSegments(body))
         /\ FxSegments(body) = [k \in DOMAIN FxSegments(body) |-> FxSegments(body)[k]]
         /\ \A k \in 1 .. Len(FxSegments(body)) : SegmentOK(FxSegments(body)[k])
<1> DEFINE n == Len(body)
           places == [i \in DOMAIN body |-> i]
           at == {i \in DOMAIN places : places[i] = 1 \/ IsPrompt(body[places[i]])}
           starts == Kept(places, at)
           End(k) == IF k = Len(starts) THEN n ELSE starts[k + 1] - 1
           segments == [k \in DOMAIN starts |-> SubSeq(body, starts[k], End(k))]
<1>1. FxSegments(body) = segments
  BY DEF FxSegments, Where
<1>2. IsList(body) /\ n \in Nat /\ DOMAIN body = 1 .. n
  BY Lengths DEF BodyOK
<1>3. Rising(starts, n)
  <2>1. places = [i \in 1 .. n |-> places[i]] /\ \A i \in 1 .. n : places[i] = i
    BY <1>2
  <2> HIDE DEF places, at, n
  <2>2. IsList(places) /\ Len(places) = n
    BY <1>2, <2>1, Tabled
  <2>3. QED
    BY <1>2, <2>1, <2>2, KeptRising
<1> HIDE DEF starts
<1>4. /\ IsList(starts) /\ Len(starts) \in Nat /\ DOMAIN starts = 1 .. Len(starts)
      /\ \A k \in 1 .. Len(starts) : starts[k] \in 1 .. n
  BY <1>3, Lengths DEF Rising
<1>5. ASSUME NEW k \in 1 .. Len(starts) PROVE starts[k] \in 1 .. n /\ End(k) \in starts[k] .. n
  <2>1. CASE k = Len(starts)
    BY <1>2, <1>4, <2>1
  <2>2. CASE k # Len(starts)
    <3>1. k \in 1 .. Len(starts) - 1 /\ k + 1 \in 1 .. Len(starts)
      <4>1. PICK m \in Nat : m = Len(starts)
        BY <1>4
      <4>2. k \in 1 .. m /\ k # m
        BY <2>2, <4>1
      <4>3. k \in 1 .. m - 1 /\ k + 1 \in 1 .. m
        BY <4>2
      <4>4. QED
        BY <4>1, <4>3
    <3>2. starts[k] < starts[k + 1]
      BY <1>3, <3>1 DEF Rising
    <3>3. starts[k] \in 1 .. n /\ starts[k + 1] \in 1 .. n
      BY <1>4, <3>1
    <3>4. QED
      BY <1>2, <2>2, <3>2, <3>3
  <2>3. QED
    BY <2>1, <2>2
<1>6. ASSUME NEW k \in 1 .. Len(starts) PROVE SegmentOK(segments[k])
  <2>1. PICK i, j, seg : i = starts[k] /\ j = End(k) /\ seg = SubSeq(body, i, j)
    OBVIOUS
  <2>2. segments[k] = seg
    BY <1>4, <2>1
  <2>3. i \in 1 .. n /\ j \in i .. n
    BY <1>5, <2>1
  <2>4. IsList(seg) /\ seg # <<>> /\ ToSet(seg) \subseteq ToSet(body)
    BY <1>2, <2>1, <2>3, Part
  <2>5. QED
    BY <2>2, <2>4 DEF SegmentOK, BodyOK
<1>7. segments = [k \in DOMAIN starts |-> segments[k]] /\ DOMAIN segments = DOMAIN starts
  OBVIOUS
<1> HIDE DEF segments
<1>8. IsList(segments) /\ Len(segments) = Len(starts)
  BY <1>4, <1>7, EachElements
<1>9. QED
  BY <1>1, <1>6, <1>7, <1>8

LEMMA FxCut ==
  ASSUME NEW seg, SegmentOK(seg)
  PROVE  BodyOK(FxPrompt(seg)) /\ BodyOK(FxRest(seg))
<1>1. IsList(seg) /\ seg # <<>> /\ \A msg \in ToSet(seg) : MessageOK(msg)
  BY DEF SegmentOK, BodyOK
<1>2. MessageOK(seg[1])
  BY <1>1, Lengths
<1>3. BodyOK(Tail(seg))
  BY <1>1, Tailed DEF BodyOK
<1>4. QED
  BY <1>2, <1>3, NoMessages, OneMessage DEF FxPrompt, FxRest, SegmentOK

StepOK(step) ==
  /\ step = FxStep(step.text, step.calls, step.results)
  /\ IsList(step.calls) /\ OnlyKinds(step.results, {"result"})
StepsOK(taken) == IsList(taken) /\ \A step \in ToSet(taken) : StepOK(step)
FxTakenOK(s) == s = [steps |-> s.steps, final |-> s.final] /\ StepsOK(s.steps)

LEMMA FxStepOK ==
  ASSUME NEW text, NEW calls, IsList(calls), NEW results, OnlyKinds(results, {"result"})
  PROVE  StepOK(FxStep(text, calls, results))
BY DEF StepOK, FxStep

LEMMA NoneOfKind == ASSUME NEW kinds PROVE OnlyKinds(<<>>, kinds)
BY NoneListed DEF OnlyKinds

LEMMA FxCallsWritten ==
  ASSUME NEW msg, IsList(msg.content)
  PROVE  IsList(ToolCalls(msg))
<1>1. PICK uses : uses = OfKind(msg.content, {"use"})
  OBVIOUS
<1> DEFINE calls == [i \in DOMAIN uses |-> Use(uses[i].id, FxDenormalizeTool(uses[i].tool))]
<1>2. ToolCalls(msg) = calls
  BY <1>1 DEF ToolCalls, Each
<1>3. IsList(uses)
  BY <1>1, OfKindElements DEF OnlyKinds
<1>4. calls = [i \in DOMAIN uses |-> calls[i]]
  OBVIOUS
<1> HIDE DEF calls
<1>5. QED
  BY <1>2, <1>3, <1>4, EachElements

LEMMA FxMessageTaken ==
  ASSUME NEW s, FxTakenOK(s), NEW msg, MessageOK(msg), NEW last \in BOOLEAN
  PROVE  FxTakenOK(FxOnMessage(s, msg, last))
<1>1. PICK calls, results, text : /\ calls = ToolCalls(msg) /\ text = JoinedText(msg)
                                  /\ results = OfKind(msg.content, {"result"})
  OBVIOUS
<1>2. IsList(msg.content) /\ msg.role \in {"user", "assistant"}
  BY DEF MessageOK, ContentOK
<1>3. IsList(calls) /\ OnlyKinds(results, {"result"})
  BY <1>1, <1>2, FxCallsWritten, OfKindElements
<1>4. CASE msg.role = "assistant" /\ calls = <<>> /\ last
  <2>1. FxOnMessage(s, msg, last) = [s EXCEPT !.final = text]
    BY <1>1, <1>4 DEF FxOnMessage
  <2>2. [s EXCEPT !.final = text] = [steps |-> s.steps, final |-> text]
    BY DEF FxTakenOK
  <2>3. QED
    BY <2>1, <2>2 DEF FxTakenOK
<1>5. CASE msg.role = "assistant" /\ ~ (calls = <<>> /\ last)
  <2>1. PICK steps1 : steps1 = Append(s.steps, FxStep(text, calls, <<>>))
    OBVIOUS
  <2>2. FxOnMessage(s, msg, last) = [s EXCEPT !.steps = steps1]
    BY <1>1, <1>5, <2>1 DEF FxOnMessage
  <2>3. [s EXCEPT !.steps = steps1] = [steps |-> steps1, final |-> s.final]
    BY DEF FxTakenOK
  <2>4. StepOK(FxStep(text, calls, <<>>))
    BY <1>3, FxStepOK, NoneOfKind
  <2>5. StepsOK(steps1)
    BY <2>1, <2>4, Appended DEF FxTakenOK, StepsOK
  <2>6. QED
    BY <2>2, <2>3, <2>5 DEF FxTakenOK
<1>6. CASE msg.role = "user" /\ results # <<>> /\ s.steps # <<>>
  <2>1. PICK n : n = Len(s.steps)
    OBVIOUS
  <2>2. n \in 1 .. Len(s.steps) /\ StepOK(s.steps[n]) /\ IsList(s.steps)
    BY <1>6, <2>1, Lengths DEF FxTakenOK, StepsOK
  <2>3. PICK step : step = s.steps[n]
    OBVIOUS
  <2>4. PICK more : more = step.results \o results
    OBVIOUS
  <2>5. OnlyKinds(more, {"result"})
    BY <1>3, <2>2, <2>3, <2>4, Together DEF OnlyKinds, StepOK
  <2>6. PICK grown : grown = [step EXCEPT !.results = more]
    OBVIOUS
  <2>7. StepOK(grown)
    <3>1. grown = FxStep(step.text, step.calls, more)
      BY <2>2, <2>3, <2>6 DEF StepOK, FxStep
    <3>2. QED
      BY <2>2, <2>3, <2>5, <3>1, FxStepOK DEF StepOK
  <2>8. PICK steps1 : steps1 = [s.steps EXCEPT ![n] = grown]
    OBVIOUS
  <2>9. StepsOK(steps1)
    BY <2>2, <2>7, <2>8, Replaced DEF FxTakenOK, StepsOK
  <2>10. FxOnMessage(s, msg, last) = [s EXCEPT !.steps[n].results = @ \o results]
    BY <1>1, <1>6, <2>1 DEF FxOnMessage
  <2>11. [s EXCEPT !.steps[n].results = @ \o results] = [s EXCEPT !.steps = steps1]
    BY <2>3, <2>4, <2>6, <2>8, Zenon
  <2>12. [s EXCEPT !.steps = steps1] = [steps |-> steps1, final |-> s.final]
    BY DEF FxTakenOK
  <2>13. QED
    BY <2>9, <2>10, <2>11, <2>12 DEF FxTakenOK
<1>7. CASE msg.role = "user" /\ ~ (results # <<>> /\ s.steps # <<>>)
  BY <1>1, <1>7 DEF FxOnMessage
<1>8. QED
  BY <1>2, <1>4, <1>5, <1>6, <1>7

FxStart == [steps |-> <<>>, final |-> Blank]

LEMMA FxTakes ==
  ASSUME NEW body, Len(body) \in Nat
  PROVE  \E f : RunOf(<<"fx", body>>, FxStart, Len(body), f) /\ FxTaken(body) = f[Len(body)]
<1> DEFINE F(f) == [j \in 0 .. Len(body) |->
                      IF j = 0 THEN [steps |-> <<>>, final |-> Blank]
                      ELSE FxOnMessage(f[j - 1], body[j], j = Len(body))]
           upTo == CHOOSE f : f = F(f)
           x == <<"fx", body>>
<1>1. \A f : F(f) = Running(x, FxStart, Len(body), f)
  BY DEF Running, Step, FxStart
<1>2. FxTaken(body) = upTo[Len(body)]
  BY DEF FxTaken
<1> HIDE DEF x
<1>3. PICK f : f = Running(x, FxStart, Len(body), f)
  BY RunExists
<1>4. upTo = F(upTo)
  BY <1>1, <1>3
<1> HIDE DEF upTo
<1>5. RunOf(x, FxStart, Len(body), upTo)
  BY <1>1, <1>4, Started
<1>6. QED
  BY <1>2, <1>5 DEF x

LEMMA FxTookOK ==
  ASSUME NEW body, BodyOK(body)
  PROVE  FxTakenOK(FxTaken(body))
<1>1. PICK n : n = Len(body)
  OBVIOUS
<1>2. n \in Nat /\ \A i \in 1 .. n : MessageOK(body[i])
  BY <1>1, MemberMessages, Lengths
<1>3. PICK f : RunOf(<<"fx", body>>, FxStart, n, f) /\ FxTaken(body) = f[n]
  BY <1>1, <1>2, FxTakes
<1> DEFINE T == {j \in 0 .. n : FxTakenOK(f[j])}
<1>4. 0 \in T
  <2>1. FxTakenOK(FxStart)
    BY NoneListed DEF FxTakenOK, FxStart, StepsOK
  <2>2. f[0] = FxStart
    BY <1>3 DEF RunOf
  <2>3. QED
    BY <1>2, <2>1, <2>2
<1>5. ASSUME NEW j \in 1 .. n, j - 1 \in T PROVE j \in T
  <2>1. PICK last \in BOOLEAN : last = (j = Len(body))
    OBVIOUS
  <2>2. f[j] = FxOnMessage(f[j - 1], body[j], last)
    BY <1>3, <2>1 DEF RunOf, Step
  <2>3. FxTakenOK(f[j])
    BY <1>2, <1>5, <2>2, FxMessageTaken
  <2>4. QED
    BY <1>2, <2>3
<1> HIDE DEF T
<1>6. n \in T
  BY <1>2, <1>4, <1>5, AllNumbers
<1>7. QED
  BY <1>3, <1>6 DEF T

LEMMA FxTurnOK ==
  ASSUME NEW text, NEW images, OnlyKinds(images, {"image"}), NEW final,
         NEW steps1, IsList(steps1),
         \A step \in ToSet(steps1) : IsList(step.calls) /\ OnlyKinds(step.results, {"result"})
  PROVE  LineOK("fx", FxTurn(text, images, steps1, final))
BY LinesAre DEF FxLineOK, FxTurn

LEMMA FxBrokenOK ==
  ASSUME NEW text, NEW images, OnlyKinds(images, {"image"}), NEW final, NEW call, IsList(call)
  PROVE  LineOK("fx", FxInterrupted(text, images, final, call))
BY LinesAre DEF FxLineOK, FxInterrupted

LEMMA FxTurnWritten ==
  ASSUME NEW prompt, BodyOK(prompt), NEW body, BodyOK(body)
  PROVE  LineOK("fx", BuildTurn(prompt, body))
<1> DEFINE images == [i \in DOMAIN prompt |-> OfKind(prompt[i].content, {"image"})]
           shown == FlattenSeq(images)
<1>1. PICK text, taken : text = FlattenSeq(Each(JoinedText, prompt)) /\ taken = FxTaken(body)
  OBVIOUS
<1>2. \/ BuildTurn(prompt, body) = FxTurn(text, shown, taken.steps, taken.final)
      \/ \E said, call : BuildTurn(prompt, body) = FxInterrupted(text, shown, said, <<call>>)
  <2>1. PICK said, call : said = JoinedText(body[1]) /\ call = ToolCalls(body[1])[1]
    OBVIOUS
  <2>2. BuildTurn(prompt, body) = IF Interrupted(body) THEN FxInterrupted(text, shown, said, <<call>>)
                                  ELSE FxTurn(text, shown, taken.steps, taken.final)
    BY <1>1, <2>1 DEF BuildTurn, Each
  <2> HIDE DEF shown
  <2>3. QED
    BY <2>2
<1>3. IsList(prompt) /\ \A i \in 1 .. Len(prompt) : i \in DOMAIN prompt /\ IsList(prompt[i].content)
  BY MemberMessages DEF MessageOK, ContentOK
<1>4. images = [i \in DOMAIN prompt |-> images[i]]
      /\ \A i \in 1 .. Len(prompt) : OnlyKinds(images[i], {"image"})
  BY <1>3, OfKindElements
<1> HIDE DEF images
<1>5. OnlyKinds(shown, {"image"})
  <2>1. IsList(images) /\ \A e \in ToSet(images) : \E i \in 1 .. Len(prompt) : e = images[i]
    BY <1>3, <1>4, EachElements
  <2>2. \A e \in ToSet(images) : OnlyKinds(e, {"image"})
    BY <1>4, <2>1
  <2>3. \A e \in ToSet(images) : IsList(e)
    BY <2>2 DEF OnlyKinds
  <2>4. /\ IsList(shown)
        /\ \A b \in ToSet(shown) : \E e \in ToSet(images) : b \in ToSet(e)
    BY <2>1, <2>3, FlattenedElements
  <2>5. QED
    BY <2>2, <2>4 DEF OnlyKinds
<1> HIDE DEF shown
<1>6. StepsOK(taken.steps)
  BY <1>1, FxTookOK DEF FxTakenOK
<1>7. LineOK("fx", FxTurn(text, shown, taken.steps, taken.final))
  BY <1>5, <1>6, FxTurnOK DEF StepsOK, StepOK
<1>8. \A said, call : LineOK("fx", FxInterrupted(text, shown, said, <<call>>))
  BY <1>5, FxBrokenOK, OneListed
<1>9. QED
  BY <1>2, <1>7, <1>8

LEMMA FxReasoningOK ==
  ASSUME NEW segments, \A k \in 1 .. Len(segments) : SegmentOK(segments[k]), Len(segments) \in Nat
  PROVE  ThoughtsOK(RecordReasoning(segments))
<1> DEFINE at(rest) == {i \in DOMAIN rest : rest[i].role = "assistant"}
           Turned(t) == Kept(FxRest(segments[t + 1]), at(FxRest(segments[t + 1])))
           Thoughts(t, a) == OfKind(Turned(t)[a + 1].content, {"thinking"})
           places == UNION {{<<t, a>> : a \in 0 .. Len(Turned(t)) - 1} : t \in 0 .. Len(segments) - 1}
           recorded == {p \in places : Thoughts(p[1], p[2]) # <<>>}
<1>1. RecordReasoning(segments) = [p \in recorded |-> Thoughts(p[1], p[2])]
  BY DEF RecordReasoning, Where
<1>2. ASSUME NEW t \in 0 .. Len(segments) - 1 PROVE IsList(Turned(t)) /\ \A msg \in ToSet(Turned(t)) : MessageOK(msg)
  <2>1. PICK rest, k : k = t + 1 /\ rest = FxRest(segments[k])
    OBVIOUS
  <2>2. k \in 1 .. Len(segments)
    BY <2>1
  <2>3. BodyOK(rest)
    BY <2>1, <2>2, FxCut
  <2>4. Turned(t) = Kept(rest, at(rest))
    BY <2>1
  <2> HIDE DEF at, Turned
  <2>5. QED
    BY <2>3, <2>4, KeptSome DEF BodyOK
<1> HIDE DEF Turned
<1>3. ASSUME NEW t \in 0 .. Len(segments) - 1, NEW a \in 0 .. Len(Turned(t)) - 1
      PROVE  OnlyKinds(Thoughts(t, a), {"thinking"})
  <2>1. IsList(Turned(t)) /\ Len(Turned(t)) \in Nat
    BY <1>2, Lengths
  <2>2. PICK k : k = a + 1
    OBVIOUS
  <2>3. k \in 1 .. Len(Turned(t))
    BY <2>1, <2>2
  <2>4. MessageOK(Turned(t)[k])
    BY <1>2, <2>1, <2>3, Members
  <2>5. IsList(Turned(t)[k].content)
    BY <2>4 DEF MessageOK, ContentOK
  <2>6. QED
    BY <2>2, <2>5, OfKindElements
<1>4. ASSUME NEW p \in recorded PROVE OnlyKinds(Thoughts(p[1], p[2]), {"thinking"})
  <2> HIDE DEF Thoughts
  <2>1. PICK t \in 0 .. Len(segments) - 1 : p \in {<<t, a>> : a \in 0 .. Len(Turned(t)) - 1}
    OBVIOUS
  <2>2. PICK a \in 0 .. Len(Turned(t)) - 1 : p = <<t, a>>
    BY <2>1
  <2>3. p[1] = t /\ p[2] = a
    BY <2>2
  <2>4. QED
    BY <1>3, <2>3
<1> HIDE DEF recorded, Thoughts
<1>5. QED
  BY <1>1, <1>4 DEF ThoughtsOK

LEMMA FxWritten ==
  ASSUME NEW meta, NEW body, BodyOK(body)
  PROVE  FxOK(FxFromCommon(meta, body))
<1>1. PICK segments : segments = FxSegments(body)
  OBVIOUS
<1> DEFINE turns == [k \in DOMAIN segments |-> BuildTurn(FxPrompt(segments[k]), FxRest(segments[k]))]
<1>2. PICK reasoning : reasoning = RecordReasoning(segments)
  OBVIOUS
<1>3. PICK head : head = FxSession(meta.id, meta.title, reasoning)
  OBVIOUS
<1>4. FxFromCommon(meta, body) = <<head>> \o turns
  BY <1>1, <1>2, <1>3 DEF FxFromCommon, Each
<1>5. /\ IsList(segments) /\ Len(segments) \in Nat
      /\ \A k \in 1 .. Len(segments) : k \in DOMAIN segments /\ SegmentOK(segments[k])
  BY <1>1, FxSegmentsCut, Lengths
<1>6. turns = [k \in DOMAIN segments |-> turns[k]]
      /\ \A k \in 1 .. Len(segments) : LineOK("fx", turns[k])
  BY <1>5, FxCut, FxTurnWritten
<1> HIDE DEF turns
<1>7. LogOK("fx", turns)
  BY <1>5, <1>6, LineForEach
<1>8. ThoughtsOK(reasoning)
  BY <1>2, <1>5, FxReasoningOK
<1>9. LineOK("fx", head) /\ head.reasoning = reasoning
  BY <1>3, LinesAre DEF FxLineOK, FxSession
<1>10. PICK lines : lines = <<head>> \o turns
  OBVIOUS
<1>11. IsList(lines) /\ lines # <<>> /\ lines[1] = head
  BY <1>7, <1>10, Headed DEF LogOK
<1>61. LogOK("fx", lines)
  BY <1>7, <1>9, <1>10, OneLine, MoreLines
<1>13. QED
  BY <1>4, <1>8, <1>9, <1>10, <1>11, <1>61 DEF FxOK

LEMMA FxGrown ==
  ASSUME NEW lines, FxOK(lines), NEW n, NEW grown \in FxGrow(lines, n)
  PROVE  FxOK(grown)
<1> DEFINE Answers1(calls) == [i \in DOMAIN calls |-> Result(calls[i].id, Output(n, calls[i].id), Fails(calls[i].id))]
           Took(calls) == FxStep(<<n>>, calls, Answers1(calls))
           Steps == {<<>>} \cup {<<Took(calls)>> : calls \in Calls(n, "terminal")}
           Turn(images, took) == FxTurn(<<n>>, images, took, <<n>>)
           plain == {Turn(<<>>, took) : took \in Steps}
           shown == {Turn(<<Image(<<n>>)>>, <<>>)}
           broken == {FxInterrupted(<<n>>, <<>>, <<n>>, call) : call \in {<<>>, <<Use(<<"a", n>>, "terminal")>>}}
           written == plain \cup shown \cup broken
<1>1. grown \in Appending(lines, written)
  <2>1. FxGrow(lines, n) = Appending(lines, written)
    BY Zenon DEF FxGrow, Each
  <2> HIDE DEF written
  <2>2. QED
    BY <2>1
<1>2. ASSUME NEW calls \in Calls(n, "terminal") PROVE StepOK(Took(calls))
  <2>1. IsList(calls)
    BY Called DEF OnlyKinds
  <2>2. PICK results : results = Answers1(calls)
    OBVIOUS
  <2>3. results = [i \in DOMAIN calls |-> results[i]] /\ \A i \in 1 .. Len(calls) : results[i].kind = "result"
    BY <2>1, <2>2, Members DEF Result
  <2>4. OnlyKinds(results, {"result"})
    <3> HIDE DEF Answers1
    <3>1. results = [i \in DOMAIN calls |-> results[i]]
      BY <2>3
    <3>2. IsList(results) /\ \A e \in ToSet(results) : \E i \in 1 .. Len(calls) : e = results[i]
      BY <2>1, <3>1, EachElements
    <3>3. QED
      BY <2>3, <3>2 DEF OnlyKinds
  <2>5. Took(calls) = FxStep(<<n>>, calls, results)
    BY <2>2
  <2> HIDE DEF Took
  <2>6. QED
    BY <2>1, <2>4, <2>5, FxStepOK
<1> HIDE DEF Took
<1>3. ASSUME NEW took \in Steps PROVE StepsOK(took)
  <2>1. CASE took = <<>>
    BY <2>1, NoneListed DEF StepsOK
  <2>2. CASE took # <<>>
    <3>1. PICK calls \in Calls(n, "terminal") : took = <<Took(calls)>>
      BY <2>2
    <3>2. QED
      BY <1>2, <3>1, OneListed DEF StepsOK
  <2>3. QED
    BY <2>1, <2>2
<1> HIDE DEF Steps
<1>4. ASSUME NEW images, OnlyKinds(images, {"image"}), NEW took, StepsOK(took)
      PROVE  LineOK("fx", Turn(images, took))
  BY <1>4, FxTurnOK DEF StepsOK, StepOK
<1> HIDE DEF Turn
<1>5. OnlyKinds(<<Image(<<n>>)>>, {"image"}) /\ OnlyKinds(<<>>, {"image"}) /\ StepsOK(<<>>)
  BY NoneListed, OneListed DEF OnlyKinds, Image, StepsOK
<1>6. \A l \in plain \cup shown : LineOK("fx", l)
  BY <1>3, <1>4, <1>5
<1>61. \A l \in broken : LineOK("fx", l)
  BY <1>5, FxBrokenOK, NoneListed, OneListed
<1> HIDE DEF plain, shown, broken
<1>7. PICK l : grown = Append(lines, l) /\ LineOK("fx", l)
  BY <1>1, <1>6, <1>61 DEF Appending
<1>8. LogOK("fx", lines) /\ lines # <<>> /\ IsList(lines)
  BY DEF FxOK, LogOK
<1>9. 1 \in 1 .. Len(lines)
  BY <1>8, Lengths
<1>10. grown # <<>> /\ grown[1] = lines[1]
  BY <1>7, <1>8, <1>9, Appended
<1>11. QED
  BY <1>7, <1>8, <1>10, OneMoreLine DEF FxOK

(***************************************************************************)
(* Grok.                                                                   *)
(***************************************************************************)
LEMMA GrokImagesOK ==
  ASSUME NEW lines, IsList(lines), NEW n
  PROVE  ContentOK("user", ImagesOf(lines, n))
<1> DEFINE at == {i \in DOMAIN lines : lines[i].type = "image_chunk" /\ lines[i].prompt = n}
           chunks == Kept(lines, at)
           images == [i \in DOMAIN chunks |-> Image(chunks[i].v)]
<1>1. ImagesOf(lines, n) = images
  BY DEF ImagesOf, Each, Where
<1> HIDE DEF at
<1>2. IsList(chunks)
  BY KeptSome
<1> HIDE DEF chunks
<1>3. images = [i \in DOMAIN chunks |-> images[i]] /\ \A i \in 1 .. Len(chunks) : BlockOK("user", images[i])
  BY <1>2, Members, ImageOK
<1> HIDE DEF images
<1>4. QED
  BY <1>1, <1>2, <1>3, BlockForEach

LEMMA GrokAssistantRead ==
  ASSUME NEW line, IsList(line.calls)
  PROVE  ContentOK("assistant", AssistantBlocks(line))
<1> DEFINE said == IF line.v = Blank THEN <<>> ELSE <<Text(line.v)>>
           calls == [i \in DOMAIN line.calls |-> Use(line.calls[i].id, GrokNormalizeTool(line.calls[i].tool))]
<1>1. AssistantBlocks(line) = said \o calls
  BY DEF AssistantBlocks, Each
<1>2. ContentOK("assistant", said)
  BY NoContent, OneBlockContent, TextOK
<1>3. calls = [i \in DOMAIN line.calls |-> calls[i]]
      /\ \A i \in 1 .. Len(line.calls) : BlockOK("assistant", calls[i])
  BY Members, UseOK
<1> HIDE DEF said, calls
<1>4. QED
  BY <1>1, <1>2, <1>3, BlockForEach, MoreContent

LEMMA StoppedOK ==
  ASSUME NEW lines, NEW i, NEW role, NEW content, MessageOK([role |-> role, content |-> content])
  PROVE  MessageOK(Stopped(lines, i, [role |-> role, content |-> content]))
BY StoppedMessageOK DEF Stopped

LEMMA GrokTurnsOK ==
  ASSUME NEW lines, LogOK("grok", lines), NEW i \in 1 .. Len(lines)
  PROVE  BodyOK(GrokTurns(lines, i))
<1> DEFINE line == lines[i]
<1>1. GrokLineOK(line) /\ IsList(lines)
  BY MemberLines, LinesAre
<1>2. CASE IsPromptLine(line)
  <2>1. PICK earlier : earlier = PromptsUpTo(lines, i - 1)
    OBVIOUS
  <2>2. PICK content, images : images = ImagesOf(lines, earlier) /\ content = <<Text(line.v)>> \o images
    OBVIOUS
  <2>3. ContentOK("user", images) /\ ContentOK("user", <<Text(line.v)>>)
    BY <1>1, <2>2, GrokImagesOK, OneBlockContent, TextOK
  <2>4. ContentOK("user", content)
    BY <2>2, <2>3, MoreContent
  <2>5. content # <<>>
    BY <2>2, <2>3, OneListed, Together DEF ContentOK
  <2>6. MessageOK(User(content))
    BY <2>4, <2>5 DEF MessageOK, User
  <2>7. GrokTurns(lines, i) = <<User(content)>>
    <3>1. line.type = "user"
      BY <1>2 DEF IsPromptLine
    <3>2. QED
      BY <1>2, <2>1, <2>2, <3>1 DEF GrokTurns
  <2>8. QED
    BY <2>6, <2>7, OneMessage
<1>3. CASE line.type = "assistant"
  <2>1. PICK content : content = AssistantBlocks(line)
    OBVIOUS
  <2>2. ~ IsPromptLine(line)
    BY <1>3 DEF IsPromptLine
  <2>3. GrokTurns(lines, i) = IfSome(content, <<Stopped(lines, i, Assistant(content))>>)
    BY <1>3, <2>1, <2>2 DEF GrokTurns
  <2>4. ContentOK("assistant", content)
    BY <1>1, <1>3, <2>1, GrokAssistantRead DEF GrokLineOK
  <2>5. CASE content = <<>>
    BY <2>3, <2>5, NoMessages DEF IfSome
  <2>6. CASE content # <<>>
    <3>1. MessageOK([role |-> "assistant", content |-> content])
      BY <2>4, <2>6 DEF MessageOK
    <3>2. MessageOK(Stopped(lines, i, Assistant(content)))
      BY <3>1, StoppedOK DEF Assistant
    <3>3. QED
      BY <2>3, <2>6, <3>2, OneMessage DEF IfSome
  <2>7. QED
    BY <2>5, <2>6
<1>4. CASE line.type = "reasoning"
  <2>1. ~ IsPromptLine(line)
    BY <1>4 DEF IsPromptLine
  <2>2. GrokTurns(lines, i) = <<Assistant(<<Thinking(line.v)>>)>>
    BY <1>4, <2>1 DEF GrokTurns
  <2>3. QED
    BY <2>2, ThoughtOK, OneBlock, OneMessage DEF Assistant
<1>5. CASE line.type = "tool_result"
  <2>1. ~ IsPromptLine(line)
    BY <1>5 DEF IsPromptLine
  <2>2. PICK err : err = (line.id \in GrokFailed(lines))
    OBVIOUS
  <2>3. GrokTurns(lines, i) = <<User(<<Result(line.id, line.v, err)>>)>>
    BY <1>5, <2>1, <2>2 DEF GrokTurns
  <2>4. QED
    BY <2>3, ResultOK, OneBlock, OneMessage DEF User
<1>6. CASE ~ IsPromptLine(line) /\ line.type \notin {"assistant", "reasoning", "tool_result"}
  <2>1. GrokTurns(lines, i) = <<>>
    BY <1>6 DEF GrokTurns
  <2>2. QED
    BY <2>1, NoMessages
<1>7. QED
  BY <1>2, <1>3, <1>4, <1>5, <1>6

LEMMA GrokRead ==
  ASSUME NEW lines, LogOK("grok", lines)
  PROVE  BodyOK(GrokToCommon(lines))
<1> DEFINE turns == [i \in DOMAIN lines |-> GrokTurns(lines, i)]
<1>1. GrokToCommon(lines) = FlattenSeq(turns)
  BY DEF GrokToCommon
<1>2. turns = [i \in DOMAIN lines |-> turns[i]] /\ \A i \in 1 .. Len(lines) : BodyOK(turns[i])
  BY MemberLines, GrokTurnsOK
<1> HIDE DEF turns
<1>3. QED
  BY <1>1, <1>2, MemberLines, ReadEach

LEMMA GrokOtherLines ==
  /\ \A id, v : LineOK("grok", GrokToolResult(id, v))
  /\ \A id, failed : LineOK("grok", CallUpdate(id, failed))
  /\ \A v : LineOK("grok", UserLine(v))
  /\ \A p, v : LineOK("grok", ImageChunk(p, v))
  /\ \A v : LineOK("grok", GrokReasoning(v))
  /\ \A id, title : LineOK("grok", GrokSummary(id, title))
  /\ \A v, calls : IsList(calls) => LineOK("grok", AssistantLine(v, calls))
  /\ LineOK("grok", UserInfo)
BY LinesAre DEF GrokLineOK, GrokToolResult, CallUpdate, UserLine, ImageChunk, GrokReasoning,
                GrokSummary, AssistantLine, UserInfo

LEMMA TurnOverOK ==
  ASSUME NEW body, NEW i
  PROVE  LogOK("grok", TurnOver(body, i))
<1>1. ASSUME NEW other PROVE LineOK("grok", TurnCompleted) /\ LineOK("grok", StoppedAs(other, TurnCompleted))
  <2>1. PICK line : line = TurnCompleted
    OBVIOUS
  <2>2. "type" \in DOMAIN line /\ line.type = "turn_completed"
    BY <2>1 DEF TurnCompleted
  <2>3. StoppedAs(other, line).type = "turn_completed"
    BY <2>2, StopLeaves
  <2>4. GrokLineOK(line) /\ GrokLineOK(StoppedAs(other, line))
    BY <2>2, <2>3 DEF GrokLineOK
  <2>5. QED
    BY <2>1, <2>4, LinesAre
<1>2. \/ TurnOver(body, i) = <<>>
      \/ TurnOver(body, i) = <<TurnCompleted>>
      \/ \E other : TurnOver(body, i) = <<StoppedAs(other, TurnCompleted)>>
  BY Zenon DEF TurnOver
<1>3. QED
  BY <1>1, <1>2, NoLines, OneLine

LEMMA TwoLines ==
  ASSUME NEW h, NEW l, LineOK(h, l), NEW m, LineOK(h, m)
  PROVE  LogOK(h, <<l, m>>)
BY TwoListed DEF LogOK

LEMMA GrokUserWritten ==
  ASSUME NEW msg, MessageOK(msg), NEW n, NEW over, LogOK("grok", over)
  PROVE  LogOK("grok", UserLines(msg, n, over))
<1> DEFINE results == OfKind(msg.content, {"result"})
           images == OfKind(msg.content, {"image"})
           answers == [i \in DOMAIN results |->
                         <<GrokToolResult(results[i].id, results[i].v), CallUpdate(results[i].id, results[i].err)>>]
           chunks == [i \in DOMAIN images |-> ImageChunk(n, images[i].v)]
<1>1. PICK text :
        UserLines(msg, n, over) = FlattenSeq(answers)
                                  \o IF ~ GrokPrompts(msg) THEN <<>>
                                     ELSE over \o <<UserLine(text)>> \o chunks
  BY DEF UserLines, PromptImages, Each
<1>2. IsList(results) /\ IsList(images)
  BY OfKindElements DEF MessageOK, ContentOK, OnlyKinds
<1> HIDE DEF results, images
<1>3. answers = [i \in DOMAIN results |-> answers[i]] /\ \A i \in 1 .. Len(results) : LogOK("grok", answers[i])
  BY <1>2, Members, GrokOtherLines, TwoLines
<1>4. chunks = [i \in DOMAIN images |-> chunks[i]] /\ \A i \in 1 .. Len(images) : LineOK("grok", chunks[i])
  BY <1>2, Members, GrokOtherLines
<1> HIDE DEF answers, chunks
<1>5. LogOK("grok", FlattenSeq(answers))
  BY <1>2, <1>3, WrittenEach
<1>6. LogOK("grok", chunks)
  BY <1>2, <1>4, LineForEach
<1>7. LogOK("grok", over \o <<UserLine(text)>> \o chunks)
  BY <1>6, GrokOtherLines, OneLine, MoreLines
<1>8. QED
  BY <1>1, <1>5, <1>7, NoLines, MoreLines

LEMMA GrokAssistantWritten ==
  ASSUME NEW msg, MessageOK(msg)
  PROVE  LogOK("grok", PushAssistant(msg))
<1> DEFINE thoughts == OfKind(msg.content, {"thinking"})
           uses == OfKind(msg.content, {"use"})
           texts == OfKind(msg.content, {"text", "artifact"})
           calls == [i \in DOMAIN uses |-> Use(uses[i].id, GrokDenormalizeTool(uses[i].tool))]
           reasons == [i \in DOMAIN thoughts |-> GrokReasoning(thoughts[i].v)]
<1>1. PushAssistant(msg) = reasons \o IF texts = <<>> /\ calls = <<>> THEN <<>>
                                      ELSE <<AssistantLine(Joined(texts), calls)>>
  BY DEF PushAssistant, Each
<1>2. IsList(thoughts) /\ IsList(uses)
  BY OfKindElements DEF MessageOK, ContentOK, OnlyKinds
<1> HIDE DEF thoughts, uses
<1>3. IsList(calls)
  BY <1>2, EachElements
<1>4. reasons = [i \in DOMAIN thoughts |-> reasons[i]]
      /\ \A i \in 1 .. Len(thoughts) : LineOK("grok", reasons[i])
  BY <1>2, Members, GrokOtherLines
<1> HIDE DEF reasons, calls, texts
<1>5. LogOK("grok", reasons)
  BY <1>2, <1>4, LineForEach
<1>6. LogOK("grok", <<AssistantLine(Joined(texts), calls)>>)
  BY <1>3, GrokOtherLines, OneLine
<1>7. QED
  BY <1>1, <1>5, <1>6, NoLines, MoreLines

LEMMA GrokWritten ==
  ASSUME NEW meta, NEW body, BodyOK(body)
  PROVE  LogOK("grok", GrokFromCommon(meta, body))
<1> DEFINE Earlier(i) == Cardinality({k \in 1 .. i - 1 : GrokPrompts(body[k])})
           parts == [i \in DOMAIN body |-> IF body[i].role = "user" THEN UserLines(body[i], Earlier(i), TurnOver(body, i))
                                           ELSE PushAssistant(body[i])]
<1>1. GrokFromCommon(meta, body) = <<GrokSummary(meta.id, meta.title)>> \o FlattenSeq(parts)
                                 \o TurnOver(body, Len(body) + 1)
  BY DEF GrokFromCommon
<1> HIDE DEF Earlier
<1>2. parts = [i \in DOMAIN body |-> parts[i]] /\ \A i \in 1 .. Len(body) : LogOK("grok", parts[i])
  BY MemberMessages, GrokUserWritten, GrokAssistantWritten, TurnOverOK
<1> HIDE DEF parts
<1>3. LogOK("grok", FlattenSeq(parts))
  BY <1>2, MemberMessages, WrittenEach
<1>4. QED
  BY <1>1, <1>3, GrokOtherLines, OneLine, MoreLines, TurnOverOK

LEMMA GrokGrown ==
  ASSUME NEW lines, LogOK("grok", lines), NEW n, NEW grown \in GrokGrow(lines, n)
  PROVE  LogOK("grok", grown)
<1> DEFINE prompts == Cardinality({i \in DOMAIN lines : IsPromptLine(lines[i])})
           asked == <<UserLine(<<n>>)>>
           shown == <<ImageChunk(prompts, <<n>>)>>
           said == {asked, asked \o shown, <<UserInfo>>,
                    <<GrokReasoning(<<n>>)>>, <<AssistantLine(<<n>>, <<>>)>>}
           called == {<<AssistantLine(Blank, c)>> : c \in Calls(n, "Shell")}
           answered == {<<CallUpdate(id, Fails(id)), GrokToolResult(id, Output(n, id))>> :
                          id \in Open(GrokToCommon(lines))}
           written == said \cup called \cup answered
<1>1. grown \in {lines \o more : more \in written}
  BY Zenon DEF GrokGrow
<1>2. LogOK("grok", asked) /\ LogOK("grok", shown)
  BY GrokOtherLines, OneLine
<1>3. \A more \in said : LogOK("grok", more)
  <2> HIDE DEF asked, shown
  <2>1. LogOK("grok", asked \o shown)
    BY <1>2, MoreLines
  <2>2. LogOK("grok", <<UserInfo>>) /\ LogOK("grok", <<GrokReasoning(<<n>>)>>)
        /\ LogOK("grok", <<AssistantLine(<<n>>, <<>>)>>)
    BY GrokOtherLines, OneLine, NoneListed
  <2>3. QED
    BY <1>2, <2>1, <2>2
<1>4. \A more \in called : LogOK("grok", more)
  BY GrokOtherLines, OneLine, Called DEF OnlyKinds
<1>5. \A more \in answered : LogOK("grok", more)
  BY GrokOtherLines, TwoLines
<1> HIDE DEF said, called, answered
<1>6. \A more \in written : LogOK("grok", more)
  BY <1>3, <1>4, <1>5
<1> HIDE DEF written
<1>7. QED
  BY <1>1, <1>6, MoreLines

(***************************************************************************)
(* Grok Bot.                                                               *)
(***************************************************************************)
GrokBotStart(pending) == [out |-> <<>>, pending |-> pending]
GrokBotRole(line) == IF line.role = "assistant" THEN "assistant" ELSE "user"

LEMMA GrokBotBlocksRun ==
  ASSUME NEW pending, NEW line, Len(line.content) \in Nat, NEW i
  PROVE  \E f : /\ RunOf(<<"grok_bot blocks", line, i>>, GrokBotStart(pending), Len(line.content), f)
                /\ ProjectBlocks(pending, line, i) = f[Len(line.content)]
<1> DEFINE F(f) == [j \in 0 .. Len(line.content) |->
                      IF j = 0 THEN [out |-> <<>>, pending |-> pending]
                      ELSE IF line.content[j].kind \in GrokBotKinds(line.role)
                      THEN ProjectBlock(f[j - 1], line.content[j], i, j) ELSE f[j - 1]]
           upTo == CHOOSE f : f = F(f)
           x == <<"grok_bot blocks", line, i>>
<1>1. \A f : F(f) = Running(x, GrokBotStart(pending), Len(line.content), f)
  BY DEF Running, Step, GrokBotStart
<1>2. ProjectBlocks(pending, line, i) = upTo[Len(line.content)]
  BY DEF ProjectBlocks
<1> HIDE DEF x
<1>3. PICK f : f = Running(x, GrokBotStart(pending), Len(line.content), f)
  BY RunExists
<1>4. upTo = F(upTo)
  BY <1>1, <1>3
<1> HIDE DEF upTo
<1>5. RunOf(x, GrokBotStart(pending), Len(line.content), upTo)
  BY <1>1, <1>4, Started
<1>6. QED
  BY <1>2, <1>5 DEF x

LEMMA GrokBotRuns ==
  ASSUME NEW lines, Len(lines) \in Nat
  PROVE  \E f : /\ RunOf(<<"grok_bot", lines>>, GrokBotStart(<<>>), Len(lines), f)
                /\ GrokBotToCommon(lines) = f[Len(lines)].out
<1> DEFINE F(f) == [i \in 0 .. Len(lines) |->
                      IF i = 0 THEN [out |-> <<>>, pending |-> <<>>]
                      ELSE GrokBotOnRecord(f[i - 1], lines[i], i)]
           read == CHOOSE f : f = F(f)
           x == <<"grok_bot", lines>>
<1>1. \A f : F(f) = Running(x, GrokBotStart(<<>>), Len(lines), f)
  BY DEF Running, Step, GrokBotStart
<1>2. GrokBotToCommon(lines) = read[Len(lines)].out
  BY DEF GrokBotToCommon
<1> HIDE DEF x
<1>3. PICK f : f = Running(x, GrokBotStart(<<>>), Len(lines), f)
  BY RunExists
<1>4. read = F(read)
  BY <1>1, <1>3
<1> HIDE DEF read
<1>5. RunOf(x, GrokBotStart(<<>>), Len(lines), read)
  BY <1>1, <1>4, Started
<1>6. QED
  BY <1>2, <1>5 DEF x

GrokBotBlocksOK(role, s) == s = [out |-> s.out, pending |-> s.pending] /\ ContentOK(role, s.out)

LEMMA GrokBotBlockRead ==
  ASSUME NEW line, GrokBotLineOK(line), NEW j \in 1 .. Len(line.content),
         line.content[j].kind \in GrokBotKinds(line.role),
         NEW s, GrokBotBlocksOK(GrokBotRole(line), s), NEW i
  PROVE  GrokBotBlocksOK(GrokBotRole(line), ProjectBlock(s, line.content[j], i, j))
<1>1. PICK b, role : b = line.content[j] /\ role = GrokBotRole(line)
  OBVIOUS
<1>2. ASSUME NEW c, BlockOK(role, c), NEW pending
      PROVE  GrokBotBlocksOK(role, [out |-> Append(s.out, c), pending |-> pending])
  <2>1. PICK out : out = Append(s.out, c)
    OBVIOUS
  <2>2. ContentOK(role, out)
    BY <1>1, <1>2, <2>1, Appended DEF GrokBotBlocksOK, ContentOK
  <2>3. QED
    BY <2>1, <2>2 DEF GrokBotBlocksOK
<1>3. /\ line.role = "user" => b.kind # "use"
      /\ b.kind \in GrokBotKinds(line.role)
  BY <1>1, Members DEF GrokBotLineOK
<1>4. /\ b.kind \in {"text", "use", "thinking", "result"}
      /\ b.kind \in {"use", "thinking"} => role = "assistant"
      /\ b.kind = "result" => role = "user"
  BY <1>1, <1>3 DEF GrokBotKinds, GrokBotRole
<1>5. CASE b.kind = "use"
  <2>1. PICK c, pending : /\ \E id : c = Use(id, GrokBotNormalizeTool(b.tool))
                          /\ ProjectBlock(s, b, i, j) = [out |-> Append(s.out, c), pending |-> pending]
    BY <1>5 DEF ProjectBlock
  <2>2. BlockOK(role, c)
    BY <1>4, <1>5, <2>1, UseOK
  <2>3. QED
    BY <1>1, <1>2, <2>1, <2>2
<1>6. CASE b.kind = "result"
  <2>1. PICK c, pending : /\ \E id : c = Result(id, b.v, b.err)
                          /\ ProjectBlock(s, b, i, j) = [out |-> Append(s.out, c), pending |-> pending]
    BY <1>6 DEF ProjectBlock
  <2>2. BlockOK(role, c)
    BY <1>4, <1>6, <2>1, ResultOK
  <2>3. QED
    BY <1>1, <1>2, <2>1, <2>2
<1>7. CASE b.kind \in {"text", "thinking"}
  <2>1. ProjectBlock(s, b, i, j) = IF b.v = Blank THEN s ELSE [s EXCEPT !.out = Append(@, b)]
    BY <1>7 DEF ProjectBlock
  <2>2. PICK out : out = Append(s.out, b)
    OBVIOUS
  <2>3. [s EXCEPT !.out = out] = [out |-> out, pending |-> s.pending]
    BY DEF GrokBotBlocksOK
  <2>4. BlockOK(role, b)
    BY <1>1, <1>4, <1>7 DEF BlockOK, Blocks, GrokBotRole
  <2>5. QED
    BY <1>1, <1>2, <2>1, <2>2, <2>3, <2>4
<1>8. QED
  BY <1>4, <1>5, <1>6, <1>7

LEMMA GrokBotBlocksRead ==
  ASSUME NEW line, GrokBotLineOK(line), NEW pending, NEW i
  PROVE  GrokBotBlocksOK(GrokBotRole(line), ProjectBlocks(pending, line, i))
<1>1. PICK n, start : n = Len(line.content) /\ start = GrokBotStart(pending)
  OBVIOUS
<1>2. n \in Nat
  BY <1>1, Lengths DEF GrokBotLineOK
<1>3. PICK f : /\ RunOf(<<"grok_bot blocks", line, i>>, start, n, f)
               /\ ProjectBlocks(pending, line, i) = f[n]
  BY <1>1, <1>2, GrokBotBlocksRun
<1> DEFINE T == {j \in 0 .. n : GrokBotBlocksOK(GrokBotRole(line), f[j])}
<1>4. 0 \in T
  <2>1. GrokBotBlocksOK(GrokBotRole(line), start)
    BY <1>1, NoContent DEF GrokBotBlocksOK, GrokBotStart
  <2>2. f[0] = start
    BY <1>3 DEF RunOf
  <2>3. QED
    BY <1>2, <2>1, <2>2
<1>5. ASSUME NEW j \in 1 .. n, j - 1 \in T PROVE j \in T
  <2>1. f[j] = IF line.content[j].kind \in GrokBotKinds(line.role)
               THEN ProjectBlock(f[j - 1], line.content[j], i, j) ELSE f[j - 1]
    BY <1>3 DEF RunOf, Step
  <2>2. GrokBotBlocksOK(GrokBotRole(line), f[j])
    BY <1>1, <1>5, <2>1, GrokBotBlockRead
  <2>3. QED
    BY <1>2, <2>2
<1> HIDE DEF T
<1>6. n \in T
  BY <1>2, <1>4, <1>5, AllNumbers
<1>7. QED
  BY <1>3, <1>6 DEF T

GrokBotOK(s) == BodyOK(s.out)

LEMMA GrokBotLineRead ==
  ASSUME NEW s, GrokBotOK(s), NEW line, GrokBotLineOK(line), NEW i
  PROVE  GrokBotOK(GrokBotOnRecord(s, line, i))
<1>1. PICK read, role : read = ProjectBlocks(s.pending, line, i) /\ role = GrokBotRole(line)
  OBVIOUS
<1>2. PICK content, more : content = read.out /\ more = IfSome(content, <<Message(role, content)>>)
  OBVIOUS
<1>3. GrokBotOnRecord(s, line, i) = [out |-> s.out \o more, pending |-> read.pending]
  BY <1>1, <1>2 DEF GrokBotOnRecord, GrokBotRole
<1>4. ContentOK(role, content) /\ role \in {"user", "assistant"}
  BY <1>1, <1>2, GrokBotBlocksRead DEF GrokBotBlocksOK, GrokBotRole
<1>5. BodyOK(more)
  BY <1>2, <1>4, OneOrNone DEF Message
<1>6. QED
  BY <1>3, <1>5, MoreMessages DEF GrokBotOK

LEMMA GrokBotRead ==
  ASSUME NEW lines, LogOK("grok_bot", lines)
  PROVE  BodyOK(GrokBotToCommon(lines))
<1>1. PICK n : n = Len(lines)
  OBVIOUS
<1>2. n \in Nat /\ \A i \in 1 .. n : GrokBotLineOK(lines[i])
  BY <1>1, Lengths, MemberLines, LinesAre
<1>3. PICK f : RunOf(<<"grok_bot", lines>>, GrokBotStart(<<>>), n, f) /\ GrokBotToCommon(lines) = f[n].out
  BY <1>1, <1>2, GrokBotRuns
<1> DEFINE T == {i \in 0 .. n : GrokBotOK(f[i])}
<1>4. 0 \in T
  BY <1>2, <1>3, NoMessages DEF RunOf, GrokBotOK, GrokBotStart
<1>5. ASSUME NEW i \in 1 .. n, i - 1 \in T PROVE i \in T
  <2>1. f[i] = GrokBotOnRecord(f[i - 1], lines[i], i)
    BY <1>3 DEF RunOf, Step
  <2>2. GrokBotOK(f[i])
    BY <1>2, <1>5, <2>1, GrokBotLineRead
  <2>3. QED
    BY <1>2, <2>2
<1> HIDE DEF T
<1>6. n \in T
  BY <1>2, <1>4, <1>5, AllNumbers
<1>7. QED
  BY <1>3, <1>6 DEF T, GrokBotOK

LEMMA GrokBotRecordOK ==
  ASSUME NEW role, NEW content, IsList(content),
         role = "user" => \A b \in ToSet(content) : b.kind # "use"
  PROVE  LineOK("grok_bot", GrokBotRecord(role, content))
BY LinesAre DEF GrokBotLineOK, GrokBotRecord

LEMMA GrokBotOneOK ==
  ASSUME NEW role, role # "user", NEW b
  PROVE  LineOK("grok_bot", GrokBotRecord(role, <<b>>))
BY OneListed, GrokBotRecordOK

LEMMA GrokBotUserWritten ==
  ASSUME NEW names, NEW msg, IsList(msg.content)
  PROVE  LogOK("grok_bot", UserRecords(names, msg))
<1>1. PICK said, uses, results : /\ said = OfKind(msg.content, {"text"})
                                 /\ uses = OfKind(msg.content, {"use"})
                                 /\ results = OfKind(msg.content, {"result"})
  OBVIOUS
<1>2. OnlyKinds(said, {"text"}) /\ IsList(uses) /\ IsList(results)
  BY <1>1, OfKindElements DEF OnlyKinds
<1> DEFINE calls == [i \in DOMAIN uses |->
                       GrokBotRecord("assistant", <<NativeUse(uses[i].id, GrokBotDenormalizeTool(uses[i].tool))>>)]
           answers == [i \in DOMAIN results |->
                         GrokBotRecord("tool", <<NativeResult(NameOf(names, results[i].id), results[i].v, results[i].err)>>)]
<1>3. UserRecords(names, msg) = calls \o IfSome(said, <<GrokBotRecord("user", said)>>) \o answers
  BY <1>1, Zenon DEF UserRecords, Each
<1>4. calls = [i \in DOMAIN uses |-> calls[i]]
      /\ \A i \in 1 .. Len(uses) : LineOK("grok_bot", calls[i])
  <2>1. \A b : LineOK("grok_bot", GrokBotRecord("assistant", <<b>>))
    BY GrokBotOneOK
  <2>2. QED
    BY <1>2, <2>1, Members
<1>5. answers = [i \in DOMAIN results |-> answers[i]]
      /\ \A i \in 1 .. Len(results) : LineOK("grok_bot", answers[i])
  <2>1. \A b : LineOK("grok_bot", GrokBotRecord("tool", <<b>>))
    BY GrokBotOneOK
  <2>2. QED
    BY <1>2, <2>1, Members
<1> HIDE DEF calls, answers
<1>6. LogOK("grok_bot", calls) /\ LogOK("grok_bot", answers)
  BY <1>2, <1>4, <1>5, LineForEach
<1>7. LineOK("grok_bot", GrokBotRecord("user", said))
  BY <1>2, GrokBotRecordOK DEF OnlyKinds
<1>8. LogOK("grok_bot", IfSome(said, <<GrokBotRecord("user", said)>>))
  BY <1>7, LineIfSome
<1>9. QED
  BY <1>3, <1>6, <1>8, MoreLines

LEMMA GrokBotAssistantWritten ==
  ASSUME NEW msg, IsList(msg.content)
  PROVE  LogOK("grok_bot", AssistantRecords(msg))
<1> DEFINE at == {i \in DOMAIN msg.content :
                    \/ msg.content[i].kind \in {"thinking", "use"}
                    \/ msg.content[i].kind = "text" /\ msg.content[i].v # Blank}
           kept == Kept(msg.content, at)
           native == [i \in DOMAIN kept |->
                        IF kept[i].kind = "use" THEN NativeUse(kept[i].id, GrokBotDenormalizeTool(kept[i].tool))
                        ELSE kept[i]]
<1>1. AssistantRecords(msg) = IfSome(native, <<GrokBotRecord("assistant", native)>>)
  BY Zenon DEF AssistantRecords, Each, Where
<1> HIDE DEF at
<1>2. IsList(kept)
  BY KeptSome
<1>3. native = [i \in DOMAIN kept |-> native[i]]
  OBVIOUS
<1> HIDE DEF kept, native
<1>4. IsList(native)
  BY <1>2, <1>3, EachElements
<1>5. QED
  BY <1>1, <1>4, GrokBotRecordOK, LineIfSome

GrokBotWrittenOK(s) == LogOK("grok_bot", s.out)

LEMMA GrokBotMessageWritten ==
  ASSUME NEW s, GrokBotWrittenOK(s), NEW msg, MessageOK(msg)
  PROVE  GrokBotWrittenOK(GrokBotOnMessage(s, msg))
<1>1. PICK names : names = Remember(s.names, msg.content)
  OBVIOUS
<1>2. PICK more : more = IF msg.role = "user" THEN UserRecords(names, msg) ELSE AssistantRecords(msg)
  OBVIOUS
<1>3. GrokBotOnMessage(s, msg) = [names |-> names, out |-> s.out \o more]
  BY <1>1, <1>2 DEF GrokBotOnMessage
<1>4. LogOK("grok_bot", more)
  BY <1>2, GrokBotUserWritten, GrokBotAssistantWritten DEF MessageOK, ContentOK
<1>5. QED
  BY <1>3, <1>4, MoreLines DEF GrokBotWrittenOK

LEMMA GrokBotWrites ==
  ASSUME NEW meta, NEW body, Len(body) \in Nat
  PROVE  \E f : /\ RunOf(<<"grok_bot written", body>>, [names |-> <<>>, out |-> <<>>], Len(body), f)
                /\ GrokBotFromCommon(meta, body) = f[Len(body)].out
<1> DEFINE start == [names |-> <<>>, out |-> <<>>]
           F(f) == [i \in 0 .. Len(body) |->
                      IF i = 0 THEN [names |-> <<>>, out |-> <<>>] ELSE GrokBotOnMessage(f[i - 1], body[i])]
           written == CHOOSE f : f = F(f)
           x == <<"grok_bot written", body>>
<1>1. \A f : F(f) = Running(x, start, Len(body), f)
  BY DEF Running, Step
<1>2. GrokBotFromCommon(meta, body) = written[Len(body)].out
  BY DEF GrokBotFromCommon
<1> HIDE DEF x, start
<1>3. PICK f : f = Running(x, start, Len(body), f)
  BY RunExists
<1>4. written = F(written)
  BY <1>1, <1>3
<1> HIDE DEF written
<1>5. RunOf(x, start, Len(body), written)
  BY <1>1, <1>4, Started
<1>6. QED
  BY <1>2, <1>5 DEF x, start

LEMMA GrokBotWritten ==
  ASSUME NEW meta, NEW body, BodyOK(body)
  PROVE  LogOK("grok_bot", GrokBotFromCommon(meta, body))
<1>1. PICK n, start : n = Len(body) /\ start = [names |-> <<>>, out |-> <<>>]
  OBVIOUS
<1>2. n \in Nat /\ \A i \in 1 .. n : MessageOK(body[i])
  BY <1>1, MemberMessages, Lengths
<1>3. PICK f : RunOf(<<"grok_bot written", body>>, start, n, f) /\ GrokBotFromCommon(meta, body) = f[n].out
  BY <1>1, <1>2, GrokBotWrites
<1> DEFINE T == {i \in 0 .. n : GrokBotWrittenOK(f[i])}
<1>4. 0 \in T
  <2>1. GrokBotWrittenOK(start)
    BY <1>1, NoLines DEF GrokBotWrittenOK
  <2>2. f[0] = start
    BY <1>3 DEF RunOf
  <2>3. QED
    BY <1>2, <2>1, <2>2
<1>5. ASSUME NEW i \in 1 .. n, i - 1 \in T PROVE i \in T
  <2>1. f[i] = GrokBotOnMessage(f[i - 1], body[i])
    BY <1>3 DEF RunOf, Step
  <2>2. GrokBotWrittenOK(f[i])
    BY <1>2, <1>5, <2>1, GrokBotMessageWritten
  <2>3. QED
    BY <1>2, <2>2
<1> HIDE DEF T
<1>6. n \in T
  BY <1>2, <1>4, <1>5, AllNumbers
<1>7. QED
  BY <1>3, <1>6 DEF T, GrokBotWrittenOK

LEMMA GrokBotGrown ==
  ASSUME NEW lines, LogOK("grok_bot", lines), NEW n, NEW grown \in GrokBotGrow(lines, n)
  PROVE  LogOK("grok_bot", grown)
<1> DEFINE open == Open(GrokBotToCommon(lines))
           Native1(calls) == [i \in DOMAIN calls |-> NativeUse(calls[i].id, calls[i].tool)]
           said == {GrokBotRecord("user", <<Text(<<n>>)>>), GrokBotRecord("assistant", Says(n)),
                    GrokBotRecord("assistant", <<NativeUse(NoId, "read")>>)}
           called == {GrokBotRecord("assistant", Native1(calls)) : calls \in Calls(n, "shell")}
           answered == {GrokBotRecord("tool", <<NativeResult("shell", <<n + 10>>, FALSE)>>) : id \in open}
           written == said \cup called \cup answered
<1>1. grown \in Appending(lines, written)
  <2>1. GrokBotGrow(lines, n) = Appending(lines, written)
    BY Zenon DEF GrokBotGrow, Each
  <2> HIDE DEF written
  <2>2. QED
    BY <2>1
<1> HIDE DEF open
<1>2. ASSUME NEW l \in said PROVE LineOK("grok_bot", l)
  <2>1. LineOK("grok_bot", GrokBotRecord("user", <<Text(<<n>>)>>))
    BY OneListed, GrokBotRecordOK DEF Text
  <2>2. LineOK("grok_bot", GrokBotRecord("assistant", Says(n)))
    BY Said, GrokBotRecordOK DEF OnlyKinds
  <2>3. LineOK("grok_bot", GrokBotRecord("assistant", <<NativeUse(NoId, "read")>>))
    BY GrokBotOneOK
  <2>4. QED
    BY <2>1, <2>2, <2>3
<1>3. ASSUME NEW l \in called PROVE LineOK("grok_bot", l)
  <2>1. PICK calls \in Calls(n, "shell") : l = GrokBotRecord("assistant", Native1(calls))
    OBVIOUS
  <2>2. PICK native : native = Native1(calls)
    OBVIOUS
  <2>3. IsList(calls) /\ native = [i \in DOMAIN calls |-> native[i]]
    BY <2>2, Called DEF OnlyKinds
  <2> HIDE DEF Native1
  <2>4. IsList(native)
    BY <2>3, EachElements
  <2>5. QED
    BY <2>1, <2>2, <2>4, GrokBotRecordOK
<1>4. ASSUME NEW l \in answered PROVE LineOK("grok_bot", l)
  BY GrokBotOneOK
<1> HIDE DEF said, called, answered
<1>5. \A l \in written : LineOK("grok_bot", l)
  BY <1>2, <1>3, <1>4
<1> HIDE DEF written
<1>6. QED
  BY <1>1, <1>5, LineAppended

(***************************************************************************)
(* Hermes.                                                                 *)
(***************************************************************************)
LEMMA HermesBlocksRead ==
  ASSUME NEW content, OnlyKinds(content, {"text", "image"})
  PROVE  OnlyKinds(ContentBlocks(content), {"text", "image"})
<1> DEFINE at == {i \in DOMAIN content : content[i].kind = "text" => content[i].v # Blank}
<1>1. ContentBlocks(content) = IF Len(content) = 1 THEN Kept(content, at) ELSE content
  BY DEF ContentBlocks, Where
<1> HIDE DEF at
<1>2. OnlyKinds(Kept(content, at), {"text", "image"})
  BY KeptSome DEF OnlyKinds
<1>3. QED
  BY <1>1, <1>2

LEMMA HermesAssistantRead ==
  ASSUME NEW row, OnlyKinds(row.content, {"text", "image"}), IsList(row.calls)
  PROVE  ContentOK("assistant", AssistantMessage(row))
<1> DEFINE thought == IF row.reasoning = Blank THEN <<>> ELSE <<Thinking(row.reasoning)>>
           calls == [i \in DOMAIN row.calls |-> Use(row.calls[i].id, HermesNormalizeTool(row.calls[i].tool))]
<1>1. AssistantMessage(row) = thought \o ContentBlocks(row.content) \o calls
  BY DEF AssistantMessage, Each
<1>2. ContentOK("assistant", thought)
  BY NoContent, OneBlockContent, ThoughtOK
<1>3. ContentOK("assistant", ContentBlocks(row.content))
  BY HermesBlocksRead, AssistantKinds DEF OnlyKinds
<1>4. calls = [i \in DOMAIN row.calls |-> calls[i]]
      /\ \A i \in 1 .. Len(row.calls) : BlockOK("assistant", calls[i])
  BY Members, UseOK
<1> HIDE DEF thought, calls
<1>5. ContentOK("assistant", calls)
  BY <1>4, BlockForEach
<1>6. QED
  BY <1>1, <1>2, <1>3, <1>5, MoreContent

LEMMA HermesRowRead ==
  ASSUME NEW row, HermesLineOK(row), row.type = "row", row.active
  PROVE  BodyOK(MessageFromRow(row))
<1>1. CASE row.role = "user"
  <2>1. PICK content : content = ContentBlocks(row.content)
    OBVIOUS
  <2>2. MessageFromRow(row) = IfSome(content, <<User(content)>>)
    BY <1>1, <2>1 DEF MessageFromRow
  <2>3. ContentOK("user", content)
    BY <1>1, <2>1, HermesBlocksRead, UserKinds DEF HermesLineOK, OnlyKinds
  <2>4. QED
    BY <2>2, <2>3, OneOrNone DEF User
<1>2. CASE row.role = "assistant"
  <2>1. PICK content : content = AssistantMessage(row)
    OBVIOUS
  <2>2. MessageFromRow(row) = IfSome(content, <<StoppedAs(row, Assistant(content))>>)
    BY <1>2, <2>1 DEF MessageFromRow
  <2>3. ContentOK("assistant", content)
    BY <1>2, <2>1, HermesAssistantRead DEF HermesLineOK
  <2>4. QED
    BY <2>2, <2>3, StoppedOrNone DEF Assistant
<1>3. CASE row.role = "tool"
  <2>1. MessageFromRow(row) = IF row.id = NoId THEN <<>> ELSE <<User(<<Result(row.id, row.v, row.err)>>)>>
    BY <1>3 DEF MessageFromRow
  <2>2. MessageOK(User(<<Result(row.id, row.v, row.err)>>))
    BY ResultOK, OneBlock DEF User
  <2>3. QED
    BY <2>1, <2>2, OneMessage, NoMessages
<1>4. CASE row.role \notin {"user", "assistant", "tool"}
  <2>1. MessageFromRow(row) = <<>>
    BY <1>4 DEF MessageFromRow
  <2>2. QED
    BY <2>1, NoMessages
<1>5. QED
  BY <1>1, <1>2, <1>3, <1>4

LEMMA HermesRead ==
  ASSUME NEW lines, LogOK("hermes", lines)
  PROVE  BodyOK(HermesToCommon(lines))
<1> DEFINE at == {i \in DOMAIN lines : lines[i].type = "row" /\ lines[i].active}
           rows == Kept(lines, at)
           turns == [i \in DOMAIN rows |-> MessageFromRow(rows[i])]
<1>1. HermesToCommon(lines) = FlattenSeq(turns)
  BY DEF HermesToCommon, Each, Where
<1>2. IsList(rows) /\ \A row \in ToSet(rows) : \E i \in 1 .. Len(lines) : i \in at /\ lines[i] = row
  <2> HIDE DEF at
  <2>1. QED
    BY KeptElements DEF LogOK
<1>3. \A row \in ToSet(rows) : HermesLineOK(row) /\ row.type = "row" /\ row.active
  <2> HIDE DEF rows
  <2>1. QED
    BY <1>2, MemberLines, LinesAre
<1> HIDE DEF rows
<1>4. turns = [i \in DOMAIN rows |-> turns[i]] /\ \A i \in 1 .. Len(rows) : BodyOK(turns[i])
  BY <1>2, <1>3, Members, HermesRowRead
<1> HIDE DEF turns
<1>5. QED
  BY <1>1, <1>2, <1>4, ReadEach

LEMMA HermesNative ==
  ASSUME NEW content, IsList(content)
  PROVE  OnlyKinds(NativeContent(content), {"text", "image"})
<1> DEFINE said == OfKind(content, {"text", "image"})
<1>1. OnlyKinds(said, {"text", "image"})
  BY OfKindElements
<1>2. PICK v : v = Joined(said)
  OBVIOUS
<1>3. NativeContent(content) = IF Mentions(content, "image") THEN said
                               ELSE IF v = Blank THEN <<>> ELSE <<Text(v)>>
  BY <1>2 DEF NativeContent
<1>4. OnlyKinds(<<>>, {"text", "image"}) /\ OnlyKinds(<<Text(v)>>, {"text", "image"})
  BY NoneListed, OneListed DEF OnlyKinds, Text
<1> HIDE DEF said
<1>5. QED
  BY <1>1, <1>3, <1>4

LEMMA HermesRowOK ==
  ASSUME NEW role, NEW content, OnlyKinds(content, {"text", "image"}), NEW reasoning,
         NEW calls, IsList(calls)
  PROVE  LineOK("hermes", HermesRow(role, content, reasoning, calls))
BY LinesAre DEF HermesLineOK, HermesRow

LEMMA HermesStoppedRowOK ==
  ASSUME NEW role, NEW content, OnlyKinds(content, {"text", "image"}), NEW reasoning,
         NEW calls, IsList(calls), NEW other
  PROVE  LineOK("hermes", StoppedAs(other, HermesRow(role, content, reasoning, calls)))
<1>1. PICK row : row = HermesRow(role, content, reasoning, calls)
  OBVIOUS
<1>2. /\ {"active", "content", "calls"} \subseteq DOMAIN row
      /\ row.content = content /\ row.calls = calls
  BY <1>1 DEF HermesRow
<1>3. PICK stopped : stopped = StoppedAs(other, row)
  OBVIOUS
<1>4. "active" \in DOMAIN stopped /\ stopped.content = content /\ stopped.calls = calls
  BY <1>2, <1>3, StopLeaves
<1>5. HermesLineOK(stopped)
  BY <1>4 DEF HermesLineOK
<1>6. QED
  BY <1>1, <1>3, <1>5, LinesAre

LEMMA HermesToolRowOK ==
  ASSUME NEW id, NEW v, NEW err
  PROVE  LineOK("hermes", ToolRow(id, v, err))
BY LinesAre DEF HermesLineOK, ToolRow

LEMMA HermesMessageWritten ==
  ASSUME NEW msg, MessageOK(msg)
  PROVE  LogOK("hermes", RowsFromMessage(msg))
<1> DEFINE native == NativeContent(msg.content)
           uses == OfKind(msg.content, {"use"})
           results == OfKind(msg.content, {"result"})
           calls == [i \in DOMAIN uses |-> Use(uses[i].id, HermesDenormalizeTool(uses[i].tool))]
           answers == [i \in DOMAIN results |-> ToolRow(results[i].id, results[i].v, results[i].err)]
<1>1. PICK reasoning :
        RowsFromMessage(msg)
        = IF msg.role = "user"
          THEN answers \o IfSome(native, <<HermesRow("user", native, Blank, <<>>)>>)
          ELSE <<StoppedAs(msg, HermesRow("assistant", native, reasoning, calls))>>
  BY DEF RowsFromMessage, Each
<1>2. IsList(msg.content)
  BY DEF MessageOK, ContentOK
<1>3. OnlyKinds(native, {"text", "image"}) /\ IsList(uses) /\ IsList(results)
  BY <1>2, HermesNative, OfKindElements DEF OnlyKinds
<1> HIDE DEF native, uses, results
<1>4. IsList(calls)
  BY <1>3, EachElements
<1>5. LogOK("hermes", answers)
  <2>1. answers = [i \in DOMAIN results |-> answers[i]]
        /\ \A i \in 1 .. Len(results) : LineOK("hermes", answers[i])
    BY <1>3, Members, HermesToolRowOK
  <2> HIDE DEF answers
  <2>2. QED
    BY <1>3, <2>1, LineForEach
<1> HIDE DEF calls, answers
<1>6. LineOK("hermes", HermesRow("user", native, Blank, <<>>))
  BY <1>3, HermesRowOK, NoneListed
<1>7. LineOK("hermes", StoppedAs(msg, HermesRow("assistant", native, reasoning, calls)))
  BY <1>3, <1>4, HermesStoppedRowOK
<1>8. LogOK("hermes", answers \o IfSome(native, <<HermesRow("user", native, Blank, <<>>)>>))
  BY <1>5, <1>6, LineIfSome, MoreLines
<1>9. QED
  BY <1>1, <1>7, <1>8, OneLine

LEMMA HermesWritten ==
  ASSUME NEW meta, NEW body, BodyOK(body)
  PROVE  LogOK("hermes", HermesFromCommon(meta, body))
<1> DEFINE rows == [i \in DOMAIN body |-> RowsFromMessage(body[i])]
<1>1. HermesFromCommon(meta, body) = <<HermesSession(meta.id, meta.title)>> \o FlattenSeq(rows)
  BY DEF HermesFromCommon, Each
<1>2. rows = [i \in DOMAIN body |-> rows[i]] /\ \A i \in 1 .. Len(body) : LogOK("hermes", rows[i])
  BY MemberMessages, HermesMessageWritten
<1> HIDE DEF rows
<1>3. LogOK("hermes", FlattenSeq(rows))
  BY <1>2, MemberMessages, WrittenEach
<1>4. LineOK("hermes", HermesSession(meta.id, meta.title))
  BY LinesAre DEF HermesLineOK, HermesSession
<1>5. QED
  BY <1>1, <1>3, <1>4, OneLine, MoreLines

LEMMA HermesGrown ==
  ASSUME NEW lines, LogOK("hermes", lines), NEW n, NEW grown \in HermesGrow(lines, n)
  PROVE  LogOK("hermes", grown)
<1> DEFINE open == Open(HermesToCommon(lines))
           asks == {HermesRow("user", c, Blank, <<>>) : c \in Asks(n)}
           says == {HermesRow("assistant", <<Text(<<n>>)>>, <<n>>, <<>>)}
           calls == {HermesRow("assistant", <<>>, Blank, c) : c \in Calls(n, "terminal")}
           answers == {ToolRow(id, Output(n, id), Fails(id)) : id \in open}
           written == asks \cup says \cup calls \cup answers
           rewound == {[lines EXCEPT ![i] = Rewound(@)] : i \in {i \in {Len(lines)} : lines[i].type = "row"}}
<1>1. grown \in Appending(lines, written) \cup rewound
  BY Zenon DEF HermesGrow
<1>2. \A l \in asks : LineOK("hermes", l)
  BY HermesRowOK, Asked, NoneListed
<1>3. \A l \in says : LineOK("hermes", l)
  <2>1. OnlyKinds(<<Text(<<n>>)>>, {"text", "image"})
    BY OneListed DEF OnlyKinds, Text
  <2>2. QED
    BY <2>1, HermesRowOK, NoneListed
<1>4. \A l \in calls : LineOK("hermes", l)
  <2>1. OnlyKinds(<<>>, {"text", "image"})
    BY NoneListed DEF OnlyKinds
  <2>2. QED
    BY <2>1, HermesRowOK, Called DEF OnlyKinds
<1> HIDE DEF open
<1>5. \A l \in answers : LineOK("hermes", l)
  BY HermesToolRowOK
<1>6. CASE grown \in Appending(lines, written)
  <2> HIDE DEF asks, says, calls, answers
  <2>1. \A l \in written : LineOK("hermes", l)
    BY <1>2, <1>3, <1>4, <1>5
  <2> HIDE DEF written
  <2>2. QED
    BY <1>6, <2>1, LineAppended
<1>7. CASE grown \in rewound
  <2>1. PICK i \in {Len(lines)} : lines[i].type = "row" /\ grown = [lines EXCEPT ![i] = Rewound(@)]
    BY <1>7
  <2>2. PICK l : l = Rewound(lines[i])
    OBVIOUS
  <2>3. grown = [lines EXCEPT ![i] = l]
    BY <2>1, <2>2
  <2>4. ASSUME i \in 1 .. Len(lines) PROVE LineOK("hermes", l)
    <3>1. HermesLineOK(lines[i])
      BY <2>4, MemberLines, LinesAre
    <3>2. "active" \in DOMAIN lines[i]
      BY <2>1, <3>1 DEF HermesLineOK
    <3>3. l.active = FALSE /\ "active" \in DOMAIN l
      BY <2>2, <3>2 DEF Rewound
    <3>4. HermesLineOK(l)
      BY <3>3 DEF HermesLineOK
    <3>5. QED
      BY <3>4, LinesAre
  <2> HIDE DEF rewound, written
  <2>5. QED
    BY <2>3, <2>4, LineChanged
<1>8. QED
  BY <1>1, <1>6, <1>7

(***************************************************************************)
(* OpenCode.                                                               *)
(***************************************************************************)
LEMMA OpenCodeShows ==
  ASSUME NEW parts, IsList(parts), NEW kinds
  PROVE  OnlyKinds(OpenCodeShown(parts, kinds), kinds)
<1> DEFINE at == {i \in DOMAIN parts :
                    parts[i].kind \in kinds /\ (parts[i].kind \in {"text", "thinking"} => parts[i].v # Blank)}
<1>1. OpenCodeShown(parts, kinds) = Kept(parts, at)
  BY DEF OpenCodeShown, Where
<1>2. \A i \in at : parts[i].kind \in kinds
  OBVIOUS
<1> HIDE DEF at
<1>3. /\ IsList(Kept(parts, at))
      /\ \A e \in ToSet(Kept(parts, at)) : \E i \in 1 .. Len(parts) : i \in at /\ parts[i] = e
  BY KeptElements
<1>4. QED
  BY <1>1, <1>2, <1>3 DEF OnlyKinds

OpenCodeStart == [out |-> <<>>, pending |-> <<>>]

LEMMA OpenCodePartsRun ==
  ASSUME NEW parts, NEW shown, shown = OpenCodeShown(parts, {"text", "thinking", "image", "tool"}),
         Len(shown) \in Nat
  PROVE  \E f : /\ RunOf(<<"opencode parts", shown>>, OpenCodeStart, Len(shown), f)
                /\ BuildAssistantMessages(parts) = OpenCodeFlush(f[Len(shown)])
<1> DEFINE F(f) == [j \in 0 .. Len(shown) |->
                      IF j = 0 THEN [out |-> <<>>, pending |-> <<>>] ELSE OnPart(f[j - 1], shown[j])]
           read == CHOOSE f : f = F(f)
           x == <<"opencode parts", shown>>
<1>1. \A f : F(f) = Running(x, OpenCodeStart, Len(shown), f)
  BY DEF Running, Step, OpenCodeStart
<1>2. BuildAssistantMessages(parts) = OpenCodeFlush(read[Len(shown)])
  BY DEF BuildAssistantMessages
<1> HIDE DEF x
<1>3. PICK f : f = Running(x, OpenCodeStart, Len(shown), f)
  BY RunExists
<1>4. read = F(read)
  BY <1>1, <1>3
<1> HIDE DEF read
<1>5. RunOf(x, OpenCodeStart, Len(shown), read)
  BY <1>1, <1>4, Started
<1>6. QED
  BY <1>2, <1>5 DEF x

OpenCodePartsOK(s) ==
  /\ s = [out |-> s.out, pending |-> s.pending]
  /\ BodyOK(s.out) /\ OnlyKinds(s.pending, {"text", "thinking", "image"})

LEMMA OpenCodeFlushed ==
  ASSUME NEW s, OpenCodePartsOK(s)
  PROVE  BodyOK(OpenCodeFlush(s))
<1>1. ContentOK("assistant", s.pending)
  BY AssistantKinds DEF OpenCodePartsOK, OnlyKinds
<1>2. PICK content : content = s.pending
  OBVIOUS
<1>3. OpenCodeFlush(s) = s.out \o IfSome(content, <<Assistant(content)>>)
  BY <1>2 DEF OpenCodeFlush
<1>4. QED
  BY <1>1, <1>2, <1>3, OneOrNone, MoreMessages DEF OpenCodePartsOK, Assistant

LEMMA OpenCodeToolRead ==
  ASSUME NEW part
  PROVE  BodyOK(ParseTool(part))
<1>1. PICK use, result, err : /\ err = (part.status = "error")
                              /\ use = Use(part.id, OpenCodeNormalizeTool(part.tool))
                              /\ result = Result(part.id, part.v, err)
  OBVIOUS
<1>2. ParseTool(part) = <<Assistant(<<use>>)>>
                        \o IF part.status = "running" THEN <<>> ELSE <<User(<<result>>)>>
  BY <1>1 DEF ParseTool
<1>3. BlockOK("assistant", use) /\ BlockOK("user", result)
  BY <1>1, UseOK, ResultOK
<1>4. MessageOK(Assistant(<<use>>)) /\ MessageOK(User(<<result>>))
  BY <1>3, OneBlock DEF Assistant, User
<1>5. QED
  BY <1>2, <1>4, OneMessage, NoMessages, MoreMessages

LEMMA OpenCodePartRead ==
  ASSUME NEW s, OpenCodePartsOK(s), NEW part, part.kind \in {"text", "thinking", "image", "tool"}
  PROVE  OpenCodePartsOK(OnPart(s, part))
<1>1. CASE part.kind = "tool"
  <2>1. PICK out : out = OpenCodeFlush(s) \o ParseTool(part)
    OBVIOUS
  <2>2. OnPart(s, part) = [out |-> out, pending |-> <<>>]
    BY <1>1, <2>1 DEF OnPart
  <2>3. BodyOK(out)
    BY <2>1, OpenCodeFlushed, OpenCodeToolRead, MoreMessages
  <2>4. QED
    BY <2>2, <2>3, NoneListed DEF OpenCodePartsOK, OnlyKinds
<1>2. CASE part.kind # "tool"
  <2>1. PICK pending : pending = Append(s.pending, part)
    OBVIOUS
  <2>2. OnPart(s, part) = [out |-> s.out, pending |-> pending]
    BY <1>2, <2>1 DEF OnPart, OpenCodePartsOK
  <2>3. OnlyKinds(pending, {"text", "thinking", "image"})
    BY <1>2, <2>1, Appended DEF OnlyKinds, OpenCodePartsOK
  <2>4. QED
    BY <2>2, <2>3 DEF OpenCodePartsOK
<1>3. QED
  BY <1>1, <1>2

LEMMA OpenCodeAssistantRead ==
  ASSUME NEW parts, IsList(parts)
  PROVE  BodyOK(BuildAssistantMessages(parts))
<1>1. PICK shown : shown = OpenCodeShown(parts, {"text", "thinking", "image", "tool"})
  OBVIOUS
<1>2. PICK n : n = Len(shown)
  OBVIOUS
<1>3. n \in Nat /\ \A j \in 1 .. n : shown[j].kind \in {"text", "thinking", "image", "tool"}
  <2>1. OnlyKinds(shown, {"text", "thinking", "image", "tool"})
    BY <1>1, OpenCodeShows
  <2>2. QED
    BY <1>2, <2>1, MemberBlocks, Lengths DEF OnlyKinds
<1>4. PICK f : /\ RunOf(<<"opencode parts", shown>>, OpenCodeStart, n, f)
               /\ BuildAssistantMessages(parts) = OpenCodeFlush(f[n])
  BY <1>1, <1>2, <1>3, OpenCodePartsRun
<1> DEFINE T == {j \in 0 .. n : OpenCodePartsOK(f[j])}
<1>5. 0 \in T
  <2>1. OpenCodePartsOK(OpenCodeStart)
    BY NoMessages, NoneListed DEF OpenCodePartsOK, OpenCodeStart, OnlyKinds
  <2>2. f[0] = OpenCodeStart
    BY <1>4 DEF RunOf
  <2>3. QED
    BY <1>3, <2>1, <2>2
<1>6. ASSUME NEW j \in 1 .. n, j - 1 \in T PROVE j \in T
  <2>1. f[j] = OnPart(f[j - 1], shown[j])
    BY <1>4 DEF RunOf, Step
  <2>2. OpenCodePartsOK(f[j])
    BY <1>3, <1>6, <2>1, OpenCodePartRead
  <2>3. QED
    BY <1>3, <2>2
<1> HIDE DEF T
<1>7. n \in T
  BY <1>3, <1>5, <1>6, AllNumbers
<1>8. QED
  BY <1>4, <1>7, OpenCodeFlushed DEF T

LEMMA OpenCodeLineRead ==
  ASSUME NEW line, OpenCodeLineOK(line)
  PROVE  BodyOK(OpenCodeTurns(line))
<1>1. CASE line.type = "message" /\ line.role = "user"
  <2>1. PICK content : content = OpenCodeShown(line.parts, {"text", "image"})
    OBVIOUS
  <2>2. OpenCodeTurns(line) = IfSome(content, <<User(content)>>)
    BY <1>1, <2>1 DEF OpenCodeTurns, BuildUserMessage
  <2>3. ContentOK("user", content)
    BY <1>1, <2>1, OpenCodeShows, UserKinds DEF OpenCodeLineOK, OnlyKinds
  <2>4. QED
    BY <2>2, <2>3, OneOrNone DEF User
<1>2. CASE line.type = "message" /\ line.role = "assistant"
  <2>1. OpenCodeTurns(line) = BuildAssistantMessages(line.parts)
    BY <1>2 DEF OpenCodeTurns
  <2>2. QED
    BY <1>2, <2>1, OpenCodeAssistantRead DEF OpenCodeLineOK
<1>3. CASE ~ (line.type = "message" /\ line.role = "user") /\ ~ (line.type = "message" /\ line.role = "assistant")
  <2>1. OpenCodeTurns(line) = <<>>
    BY <1>3 DEF OpenCodeTurns
  <2>2. QED
    BY <2>1, NoMessages
<1>4. QED
  BY <1>1, <1>2, <1>3

LEMMA OpenCodeRead ==
  ASSUME NEW lines, LogOK("opencode", lines)
  PROVE  BodyOK(OpenCodeToCommon(lines))
<1> DEFINE turns == [i \in DOMAIN lines |-> OpenCodeTurns(lines[i])]
<1>1. OpenCodeToCommon(lines) = FlattenSeq(turns)
  BY DEF OpenCodeToCommon, Each
<1>2. IsList(lines) /\ \A i \in 1 .. Len(lines) : i \in DOMAIN lines /\ OpenCodeLineOK(lines[i])
  BY MemberLines, LinesAre
<1>3. turns = [i \in DOMAIN lines |-> turns[i]] /\ \A i \in 1 .. Len(lines) : BodyOK(turns[i])
  BY <1>2, OpenCodeLineRead
<1> HIDE DEF turns
<1>4. QED
  BY <1>1, <1>2, <1>3, ReadEach

\* What is written for a message: its parts, and how far the walk has come.
OpenCodeWalkOK(s) == s = [parts |-> s.parts, idx |-> s.idx] /\ IsList(s.parts) /\ s.idx \in Nat

LEMMA OpenCodeWalksRun ==
  ASSUME NEW body, NEW i, NEW content, content = body[i].content, Len(content) \in Nat
  PROVE  \E f : /\ RunOf(<<"opencode assistant", body, content>>,
                         [parts |-> <<StepStart>>, idx |-> i], Len(content), f)
                /\ AssistantParts(body, i) = f[Len(content)]
<1> DEFINE F(f) == [j \in 0 .. Len(content) |->
                      IF j = 0 THEN [parts |-> <<StepStart>>, idx |-> i]
                      ELSE AssistantPart(body, f[j - 1], content[j])]
           walk == CHOOSE f : f = F(f)
           x == <<"opencode assistant", body, content>>
           start == [parts |-> <<StepStart>>, idx |-> i]
<1>1. \A f : F(f) = Running(x, start, Len(content), f)
  BY DEF Running, Step
<1>2. AssistantParts(body, i) = walk[Len(content)]
  BY DEF AssistantParts
<1> HIDE DEF x, start
<1>3. PICK f : f = Running(x, start, Len(content), f)
  BY RunExists
<1>4. walk = F(walk)
  BY <1>1, <1>3
<1> HIDE DEF walk
<1>5. RunOf(x, start, Len(content), walk)
  BY <1>1, <1>4, Started
<1>6. QED
  BY <1>2, <1>5 DEF x, start

LEMMA OpenCodePartWritten ==
  ASSUME NEW body, NEW s, OpenCodeWalkOK(s), NEW b, NEW role, BlockOK(role, b)
  PROVE  OpenCodeWalkOK(AssistantPart(body, s, b))
<1>1. ASSUME NEW part PROVE OpenCodeWalkOK([s EXCEPT !.parts = Append(@, part)])
  <2>1. PICK parts : parts = Append(s.parts, part)
    OBVIOUS
  <2>2. IsList(parts)
    BY <2>1, Appended DEF OpenCodeWalkOK
  <2>3. [s EXCEPT !.parts = parts] = [parts |-> parts, idx |-> s.idx]
    BY DEF OpenCodeWalkOK
  <2>4. QED
    BY <2>1, <2>2, <2>3 DEF OpenCodeWalkOK
<1>2. b.kind \in {"text", "image", "artifact", "thinking", "result", "use"}
  BY DEF BlockOK, Blocks
<1>3. CASE b.kind \in {"text", "thinking", "image"}
  BY <1>1, <1>3 DEF AssistantPart
<1>4. CASE b.kind = "artifact"
  BY <1>1, <1>4 DEF AssistantPart
<1>5. CASE b.kind = "result"
  BY <1>1, <1>5 DEF AssistantPart
<1>6. CASE b.kind = "use" /\ OpenCodeAnswer(body, s.idx + 1, b.id)
  <2>1. PICK part : AssistantPart(body, s, b) = [parts |-> Append(s.parts, part), idx |-> s.idx + 1]
    BY <1>6 DEF AssistantPart
  <2>2. PICK parts, idx : parts = Append(s.parts, part) /\ idx = s.idx + 1
    OBVIOUS
  <2>3. IsList(parts) /\ idx \in Nat
    BY <2>2, Appended DEF OpenCodeWalkOK
  <2>4. QED
    BY <2>1, <2>2, <2>3 DEF OpenCodeWalkOK
<1>7. CASE b.kind = "use" /\ ~ OpenCodeAnswer(body, s.idx + 1, b.id)
  BY <1>1, <1>7 DEF AssistantPart
<1>8. QED
  BY <1>2, <1>3, <1>4, <1>5, <1>6, <1>7

LEMMA OpenCodeAssistantWritten ==
  ASSUME NEW body, NEW i \in Nat, MessageOK(body[i])
  PROVE  OpenCodeWalkOK(AssistantParts(body, i))
<1>1. PICK content, n, start : content = body[i].content /\ n = Len(content)
                               /\ start = [parts |-> <<StepStart>>, idx |-> i]
  OBVIOUS
<1>2. ContentOK(body[i].role, content)
  BY <1>1 DEF MessageOK
<1>3. n \in Nat /\ \A j \in 1 .. n : BlockOK(body[i].role, content[j])
  BY <1>1, <1>2, Lengths DEF ContentOK
<1>4. PICK f : /\ RunOf(<<"opencode assistant", body, content>>, start, n, f)
               /\ AssistantParts(body, i) = f[n]
  BY <1>1, <1>3, OpenCodeWalksRun
<1> DEFINE T == {j \in 0 .. n : OpenCodeWalkOK(f[j])}
<1>5. 0 \in T
  <2>1. OpenCodeWalkOK(start)
    BY <1>1, OneListed DEF OpenCodeWalkOK
  <2>2. f[0] = start
    BY <1>4 DEF RunOf
  <2>3. QED
    BY <1>3, <2>1, <2>2
<1>6. ASSUME NEW j \in 1 .. n, j - 1 \in T PROVE j \in T
  <2>1. f[j] = AssistantPart(body, f[j - 1], content[j])
    BY <1>4 DEF RunOf, Step
  <2>2. OpenCodeWalkOK(f[j])
    BY <1>3, <1>6, <2>1, OpenCodePartWritten
  <2>3. QED
    BY <1>3, <2>2
<1> HIDE DEF T
<1>7. n \in T
  BY <1>3, <1>5, <1>6, AllNumbers
<1>8. QED
  BY <1>4, <1>7 DEF T

LEMMA OpenCodeUserWritten ==
  ASSUME NEW msg, MessageOK(msg), msg.role = "user"
  PROVE  IsList(FlattenSeq(Each(UserPart, msg.content)))
<1> DEFINE parts == [i \in DOMAIN msg.content |-> UserPart(msg.content[i])]
<1>1. Each(UserPart, msg.content) = parts
  BY DEF Each
<1>2. IsList(msg.content)
  BY DEF MessageOK, ContentOK
<1>3. ASSUME NEW b PROVE IsList(UserPart(b))
  BY NoneListed, OneListed DEF UserPart
<1>4. parts = [i \in DOMAIN msg.content |-> parts[i]]
      /\ \A i \in 1 .. Len(msg.content) : IsList(parts[i])
  BY <1>2, <1>3, Members
<1> HIDE DEF parts
<1>5. QED
  BY <1>1, <1>2, <1>4, FlattenedLists

OpenCodeOK(s) == s = [out |-> s.out, idx |-> s.idx] /\ LogOK("opencode", s.out) /\ s.idx \in Nat

LEMMA OpenCodeRecordOK ==
  ASSUME NEW role, NEW parts, IsList(parts)
  PROVE  LineOK("opencode", OpenCodeRecord(role, parts))
BY LinesAre DEF OpenCodeLineOK, OpenCodeRecord

LEMMA OpenCodeMessageWritten ==
  ASSUME NEW body, NEW i \in Nat, MessageOK(body[i]), NEW s, OpenCodeOK(s)
  PROVE  OpenCodeOK(OpenCodeOnMessage(body, s, i))
<1>1. ASSUME NEW role, NEW parts, IsList(parts), NEW idx \in Nat
      PROVE  OpenCodeOK([out |-> Append(s.out, OpenCodeRecord(role, parts)), idx |-> idx])
  <2>1. PICK out : out = Append(s.out, OpenCodeRecord(role, parts))
    OBVIOUS
  <2>2. LogOK("opencode", out)
    BY <1>1, <2>1, OpenCodeRecordOK, OneMoreLine DEF OpenCodeOK
  <2>3. QED
    BY <2>1, <2>2 DEF OpenCodeOK
<1>2. s.idx \in Nat /\ body[i].role \in {"user", "assistant"}
  BY DEF OpenCodeOK, MessageOK
<1>3. CASE i <= s.idx
  <2>1. ~ (i > s.idx)
    BY <1>2, <1>3
  <2>2. OpenCodeOnMessage(body, s, i) = s
    BY <1>3, <2>1 DEF OpenCodeOnMessage
  <2>3. QED
    BY <2>2
<1>4. CASE ~ (i <= s.idx) /\ body[i].role = "user"
  <2>1. PICK parts : parts = FlattenSeq(Each(UserPart, body[i].content))
    OBVIOUS
  <2>2. IsList(parts)
    BY <1>4, <2>1, OpenCodeUserWritten
  <2>3. OpenCodeOnMessage(body, s, i) = [out |-> Append(s.out, OpenCodeRecord("user", parts)), idx |-> i]
    BY <1>2, <1>4, <2>1 DEF OpenCodeOnMessage
  <2>4. QED
    BY <1>1, <2>2, <2>3
<1>5. CASE ~ (i <= s.idx) /\ body[i].role = "assistant"
  <2>1. PICK walk : walk = AssistantParts(body, i)
    OBVIOUS
  <2>2. IsList(walk.parts) /\ walk.idx \in Nat
    BY <2>1, OpenCodeAssistantWritten DEF OpenCodeWalkOK
  <2>3. OpenCodeOnMessage(body, s, i)
        = [out |-> Append(s.out, OpenCodeRecord("assistant", walk.parts)), idx |-> walk.idx]
    BY <1>2, <1>5, <2>1 DEF OpenCodeOnMessage
  <2>4. QED
    BY <1>1, <2>2, <2>3
<1>6. QED
  BY <1>2, <1>3, <1>4, <1>5

LEMMA OpenCodeRuns ==
  ASSUME NEW meta, NEW body, Len(body) \in Nat
  PROVE  \E f : /\ RunOf(<<"opencode", body>>, [out |-> <<>>, idx |-> 0], Len(body), f)
                /\ OpenCodeFromCommon(meta, body)
                   = <<OpenCodeSession(SesId(meta.id), meta.title)>> \o f[Len(body)].out
<1> DEFINE start == [out |-> <<>>, idx |-> 0]
           F(f) == [i \in 0 .. Len(body) |->
                      IF i = 0 THEN [out |-> <<>>, idx |-> 0] ELSE OpenCodeOnMessage(body, f[i - 1], i)]
           written == CHOOSE f : f = F(f)
           x == <<"opencode", body>>
<1>1. \A f : F(f) = Running(x, start, Len(body), f)
  BY DEF Running, Step
<1>2. OpenCodeFromCommon(meta, body)
      = <<OpenCodeSession(SesId(meta.id), meta.title)>> \o written[Len(body)].out
  BY DEF OpenCodeFromCommon
<1> HIDE DEF x, start
<1>3. PICK f : f = Running(x, start, Len(body), f)
  BY RunExists
<1>4. written = F(written)
  BY <1>1, <1>3
<1> HIDE DEF written
<1>5. RunOf(x, start, Len(body), written)
  BY <1>1, <1>4, Started
<1>6. QED
  BY <1>2, <1>5 DEF x, start

LEMMA OpenCodeWritten ==
  ASSUME NEW meta, NEW body, BodyOK(body)
  PROVE  LogOK("opencode", OpenCodeFromCommon(meta, body))
<1>1. PICK n, start : n = Len(body) /\ start = [out |-> <<>>, idx |-> 0]
  OBVIOUS
<1>2. n \in Nat /\ \A i \in 1 .. n : MessageOK(body[i])
  BY <1>1, MemberMessages, Lengths
<1>3. PICK f : /\ RunOf(<<"opencode", body>>, start, n, f)
               /\ OpenCodeFromCommon(meta, body)
                  = <<OpenCodeSession(SesId(meta.id), meta.title)>> \o f[n].out
  BY <1>1, <1>2, OpenCodeRuns
<1> DEFINE T == {i \in 0 .. n : OpenCodeOK(f[i])}
<1>4. 0 \in T
  <2>1. OpenCodeOK(start)
    BY <1>1, NoLines DEF OpenCodeOK
  <2>2. QED
    BY <1>2, <1>3, <2>1 DEF RunOf
<1>5. ASSUME NEW i \in 1 .. n, i - 1 \in T PROVE i \in T
  <2>1. f[i] = OpenCodeOnMessage(body, f[i - 1], i)
    BY <1>3 DEF RunOf, Step
  <2>2. i \in Nat /\ OpenCodeOK(f[i - 1])
    BY <1>5
  <2>3. OpenCodeOK(f[i])
    BY <1>2, <2>1, <2>2, OpenCodeMessageWritten
  <2>4. QED
    BY <1>2, <2>3
<1> HIDE DEF T
<1>6. LogOK("opencode", f[n].out)
  <2>1. n \in T
    BY <1>2, <1>4, <1>5, AllNumbers
  <2>2. QED
    BY <2>1 DEF T, OpenCodeOK
<1>7. LineOK("opencode", OpenCodeSession(SesId(meta.id), meta.title))
  BY LinesAre DEF OpenCodeLineOK, OpenCodeSession
<1>8. QED
  BY <1>3, <1>6, <1>7, OneLine, MoreLines

LEMMA OpenCodeUpdated ==
  ASSUME NEW lines, LogOK("opencode", lines), NEW i, lines[i].type = "message",
         NEW j, j \in DOMAIN lines[i].parts, NEW part
  PROVE  LogOK("opencode", [lines EXCEPT ![i].parts[j] = part])
<1>1. PICK l, parts : /\ l = [lines[i] EXCEPT !.parts = parts]
                      /\ parts = [lines[i].parts EXCEPT ![j] = part]
  OBVIOUS
<1>2. [lines EXCEPT ![i].parts[j] = part] = [lines EXCEPT ![i] = l]
  BY <1>1, Zenon
<1>3. ASSUME i \in 1 .. Len(lines) PROVE LineOK("opencode", l)
  <2>1. OpenCodeLineOK(lines[i])
    BY <1>3, MemberLines, LinesAre
  <2>2. PICK role, old : lines[i] = OpenCodeRecord(role, old) /\ IsList(old)
    BY <2>1 DEF OpenCodeLineOK
  <2>3. lines[i].parts = old /\ l = OpenCodeRecord(role, parts)
    BY <1>1, <2>2 DEF OpenCodeRecord
  <2>4. j \in 1 .. Len(old)
    BY <2>2, <2>3, Lengths
  <2>5. IsList(parts)
    <3>1. parts = [old EXCEPT ![j] = part]
      BY <1>1, <2>3
    <3>2. QED
      BY <2>2, <2>4, <3>1, Replaced
  <2>6. QED
    BY <2>3, <2>5, OpenCodeRecordOK
<1>4. QED
  BY <1>2, <1>3, LineChanged

LEMMA OpenCodeGrown ==
  ASSUME NEW lines, LogOK("opencode", lines), NEW n, NEW grown \in OpenCodeGrow(lines, n)
  PROVE  LogOK("opencode", grown)
<1> DEFINE open == {p \in (DOMAIN lines) \X (1 .. 4) :
                      /\ lines[p[1]].type = "message" /\ p[2] \in DOMAIN lines[p[1]].parts
                      /\ lines[p[1]].parts[p[2]].kind = "tool"
                      /\ lines[p[1]].parts[p[2]].status = "running"
                      /\ Own(lines[p[1]].parts[p[2]].id)}
           Calling(id) == OpenCodeTool(id, "bash", "running", Blank)
           asks == {OpenCodeRecord("user", c) : c \in Asks(n) \cup {<<Synthetic(<<n>>)>>}}
           says == {OpenCodeRecord("assistant", <<StepStart>> \o c) :
                      c \in {Says(n), <<Calling(<<"a", n>>)>>,
                             <<Text(<<n>>), Calling(<<"a", n>>), Calling(<<"b", n>>)>>}}
           ended == {[lines EXCEPT ![p[1]].parts[p[2]] =
                        OpenCodeTool(@.id, @.tool, IF Fails(@.id) THEN "error" ELSE "completed",
                                     Output(n, @.id))] : p \in open}
<1>1. grown \in Appending(lines, asks \cup says) \cup ended
  BY Zenon DEF OpenCodeGrow
<1>2. ASSUME NEW l \in asks PROVE LineOK("opencode", l)
  <2>1. PICK c \in Asks(n) \cup {<<Synthetic(<<n>>)>>} : l = OpenCodeRecord("user", c)
    OBVIOUS
  <2>2. IsList(c)
    BY Asked, OneListed DEF OnlyKinds
  <2>3. QED
    BY <2>1, <2>2, OpenCodeRecordOK
<1>3. ASSUME NEW l \in says PROVE LineOK("opencode", l)
  <2>1. PICK one, other : one = Calling(<<"a", n>>) /\ other = Calling(<<"b", n>>)
    OBVIOUS
  <2>2. PICK c \in {Says(n), <<one>>, <<Text(<<n>>), one, other>>} :
          l = OpenCodeRecord("assistant", <<StepStart>> \o c)
    BY <2>1
  <2>3. IsList(Says(n)) /\ IsList(<<one>>) /\ IsList(<<Text(<<n>>), one>>)
    BY Said, OneListed, TwoListed DEF OnlyKinds
  <2>4. IsList(<<Text(<<n>>), one, other>>)
    <3>1. PICK text : text = Text(<<n>>)
      OBVIOUS
    <3>2. PICK two : two = <<text, one>>
      OBVIOUS
    <3>3. <<text, one, other>> = Append(two, other)
      BY <3>2
    <3>4. IsList(two)
      BY <2>3, <3>1, <3>2, Zenon
    <3>5. IsList(Append(two, other))
      BY <3>4, Appended
    <3>6. QED
      BY <3>1, <3>3, <3>5, Zenon
  <2>5. IsList(<<StepStart>> \o c)
    BY <2>2, <2>3, <2>4, OneListed, Together
  <2>6. QED
    BY <2>2, <2>5, OpenCodeRecordOK
<1>4. ASSUME NEW g \in ended PROVE LogOK("opencode", g)
  <2>1. PICK p \in open :
          g = [lines EXCEPT ![p[1]].parts[p[2]] =
                 OpenCodeTool(@.id, @.tool, IF Fails(@.id) THEN "error" ELSE "completed",
                              Output(n, @.id))]
    BY Zenon
  <2>2. PICK i, j : i = p[1] /\ j = p[2]
    OBVIOUS
  <2>3. lines[i].type = "message" /\ j \in DOMAIN lines[i].parts
    BY <2>2
  <2> HIDE DEF open, ended
  <2>4. PICK old : old = lines[i].parts[j]
    OBVIOUS
  <2>5. PICK part : part = OpenCodeTool(old.id, old.tool, IF Fails(old.id) THEN "error" ELSE "completed",
                                        Output(n, old.id))
    OBVIOUS
  <2>6. g = [lines EXCEPT ![i].parts[j] = part]
    BY <2>1, <2>2, <2>4, <2>5, Zenon
  <2>7. QED
    BY <2>3, <2>6, OpenCodeUpdated
<1> HIDE DEF asks, says, ended
<1>5. \A l \in asks \cup says : LineOK("opencode", l)
  BY <1>2, <1>3
<1>6. QED
  BY <1>1, <1>4, <1>5, LineAppended

(***************************************************************************)
(* pi.                                                                     *)
(***************************************************************************)
LEMMA UserParsed ==
  ASSUME NEW content, IsList(content)
  PROVE  ContentOK("user", ParseUser(content))
<1> DEFINE shown == OfKind(content, {"text", "image"})
           at == {i \in DOMAIN shown : shown[i].kind \in {"text", "thinking"} => shown[i].v # Blank}
<1>1. OnlyKinds(shown, {"text", "image"})
  BY OfKindElements
<1>2. ParseUser(content) = Kept(shown, at)
  BY DEF ParseUser, PiNotBlank, Where
<1> HIDE DEF shown, at
<1>3. OnlyKinds(Kept(shown, at), {"text", "image"})
  BY <1>1, KeptSome DEF OnlyKinds
<1>4. QED
  BY <1>2, <1>3 DEF OnlyKinds, ContentOK, BlockOK, Blocks

LEMMA AssistantParsed ==
  ASSUME NEW content, IsList(content)
  PROVE  ContentOK("assistant", ParseAssistant(content))
<1> DEFINE said == OfKind(content, {"text", "thinking", "use"})
           at == {i \in DOMAIN said : said[i].kind \in {"text", "thinking"} => said[i].v # Blank}
           shown == Kept(said, at)
           read == [i \in DOMAIN shown |-> IF shown[i].kind = "use"
                                           THEN Use(shown[i].id, PiNormalize(shown[i].tool))
                                           ELSE shown[i]]
<1>1. OnlyKinds(said, {"text", "thinking", "use"})
  BY OfKindElements
<1>2. ParseAssistant(content) = read
  BY DEF ParseAssistant, PiNotBlank, Where
<1> HIDE DEF said, at
<1>3. OnlyKinds(shown, {"text", "thinking", "use"})
  BY <1>1, KeptSome DEF OnlyKinds
<1>4. \A i \in 1 .. Len(shown) : i \in DOMAIN shown /\ shown[i].kind \in {"text", "thinking", "use"}
  BY <1>3, Lengths DEF OnlyKinds
<1> HIDE DEF shown
<1>5. \A i \in 1 .. Len(shown) : BlockOK("assistant", read[i])
  BY <1>4 DEF BlockOK, Blocks, Use
<1>6. IsList(read) /\ \A b \in ToSet(read) : \E i \in 1 .. Len(shown) : b = read[i]
  BY <1>3, EachElements DEF OnlyKinds
<1>7. QED
  BY <1>2, <1>5, <1>6 DEF ContentOK

LEMMA PiTurnsOK ==
  ASSUME NEW lines, LogOK("pi", lines), NEW i \in 1 .. Len(lines)
  PROVE  BodyOK(PiTurns(lines, i))
<1> DEFINE line == lines[i]
<1>1. PiLineOK(line)
  BY Lengths, LinesAre DEF LogOK
<1>2. CASE line.type = "message" /\ line.role = "user"
  <2>1. PiTurns(lines, i) = IfSome(ParseUser(line.content), <<User(ParseUser(line.content))>>)
    BY <1>2 DEF PiTurns
  <2>2. ContentOK("user", ParseUser(line.content))
    BY <1>1, <1>2, UserParsed DEF PiLineOK
  <2>3. QED
    BY <2>1, <2>2, OneOrNone DEF User
<1>3. CASE line.type = "message" /\ line.role = "assistant"
  <2>1. PiTurns(lines, i)
        = IfSome(ParseAssistant(line.content), <<StoppedAs(line, Assistant(ParseAssistant(line.content)))>>)
    BY <1>3 DEF PiTurns
  <2>2. ContentOK("assistant", ParseAssistant(line.content))
    BY <1>1, <1>3, AssistantParsed DEF PiLineOK
  <2>3. QED
    BY <2>1, <2>2, StoppedOrNone DEF Assistant
<1>4. CASE line.type = "message" /\ line.role = "toolResult"
  <2>1. PiTurns(lines, i) = <<User(<<Result(line.id, line.v, line.err)>>)>>
    BY <1>4 DEF PiTurns
  <2>2. BlockOK("user", Result(line.id, line.v, line.err))
    BY DEF BlockOK, Blocks, Result
  <2>3. QED
    BY <2>1, <2>2, OneBlock, OneMessage DEF User
<1>5. CASE line.type = "message" /\ line.role = "bashExecution"
  <2>1. PICK seq : PiTurns(lines, i) = BashTurns(line, seq)
    BY <1>5 DEF PiTurns
  <2> DEFINE call == Assistant(<<Use(<<"bash_exec", seq>>, "Bash")>>)
             answer == User(<<Result(<<"bash_exec", seq>>, line.v, line.err)>>)
  <2>2. MessageOK(call)
    <3>1. BlockOK("assistant", Use(<<"bash_exec", seq>>, "Bash"))
      BY DEF BlockOK, Blocks, Use
    <3>2. QED
      BY <3>1, OneBlock DEF Assistant
  <2>3. MessageOK(answer)
    <3>1. BlockOK("user", Result(<<"bash_exec", seq>>, line.v, line.err))
      BY DEF BlockOK, Blocks, Result
    <3>2. QED
      BY <3>1, OneBlock DEF User
  <2>4. BashTurns(line, seq) = IF line.excluded THEN <<>> ELSE <<call, answer>>
    BY DEF BashTurns
  <2> HIDE DEF call, answer
  <2>5. BodyOK(<<call, answer>>)
    BY <2>2, <2>3, TwoMessages
  <2>6. QED
    BY <2>1, <2>4, <2>5, NoMessages
<1>6. CASE line.type = "custom_message"
  <2>1. PiTurns(lines, i) = IfSome(ParseUser(line.content), <<User(ParseUser(line.content))>>)
    BY <1>6 DEF PiTurns
  <2>2. ContentOK("user", ParseUser(line.content))
    BY <1>1, <1>6, UserParsed DEF PiLineOK
  <2>3. QED
    BY <2>1, <2>2, OneOrNone DEF User
<1>7. CASE /\ line.type # "custom_message"
           /\ line.type = "message" => line.role \notin {"user", "assistant", "toolResult", "bashExecution"}
  <2>1. PiTurns(lines, i) = <<>>
    BY <1>7 DEF PiTurns
  <2>2. QED
    BY <2>1, NoMessages
<1>8. QED
  BY <1>2, <1>3, <1>4, <1>5, <1>6, <1>7

LEMMA PiRead ==
  ASSUME NEW lines, LogOK("pi", lines)
  PROVE  BodyOK(PiToCommon(lines))
<1> DEFINE turns == [i \in DOMAIN lines |-> PiTurns(lines, i)]
<1>1. DOMAIN lines = 1 .. Len(lines) /\ Len(lines) \in Nat
  BY Lengths DEF LogOK
<1>2. turns = [i \in 1 .. Len(lines) |-> turns[i]] /\ \A i \in 1 .. Len(lines) : BodyOK(turns[i])
  BY <1>1, PiTurnsOK
<1>3. PiToCommon(lines) = FlattenSeq(turns)
  BY DEF PiToCommon
<1> HIDE DEF turns
<1>4. QED
  BY <1>1, <1>2, <1>3, FlattenedMessages

LEMMA PiEntryOK ==
  ASSUME NEW other, NEW role, NEW content, IsList(content)
  PROVE  PiLineOK(PiEntry(role, content)) /\ PiLineOK(StoppedAs(other, PiEntry(role, content)))
<1>1. PICK line : line = PiEntry(role, content)
  OBVIOUS
<1>2. "content" \in DOMAIN line /\ line.content = content
  BY <1>1 DEF PiEntry
<1>3. StoppedAs(other, line).content = content
  BY <1>2, StopLeaves
<1>4. QED
  BY <1>1, <1>2, <1>3 DEF PiLineOK

LEMMA PayloadsOK ==
  ASSUME NEW msg, MessageOK(msg)
  PROVE  LogOK("pi", Payloads(msg))
<1> DEFINE results == OfKind(msg.content, {"result"})
           said == OfKind(msg.content, IF msg.role = "user"
                                       THEN {"text", "image", "artifact"}
                                       ELSE {"text", "thinking", "artifact", "use"})
           content == [i \in DOMAIN said |->
                         CASE said[i].kind = "artifact" -> DisplayText(said[i])
                           [] said[i].kind = "use" -> Use(said[i].id, PiDenormalize(said[i].tool))
                           [] OTHER -> said[i]]
           answers == Each(ResultLine, results)
<1>1. Payloads(msg) = (IF msg.role = "user" THEN answers ELSE <<>>)
                      \o IfSome(content, <<StoppedAs(msg, PiEntry(msg.role, content))>>)
  BY DEF Payloads
<1>2. IsList(results) /\ IsList(said)
  BY OfKindElements DEF MessageOK, ContentOK, OnlyKinds
<1>3. answers = [i \in DOMAIN results |-> answers[i]]
      /\ \A i \in 1 .. Len(results) : answers[i] = ResultLine(results[i])
  BY <1>2, Lengths DEF Each
<1>4. IsList(content)
  BY <1>2, EachElements
<1> HIDE DEF results, said, content, answers
<1>5. LogOK("pi", answers)
  <2>1. \A i \in 1 .. Len(results) : LineOK("pi", answers[i])
    BY <1>3, LinesAre DEF PiLineOK, ResultLine, PiToolResult
  <2>2. QED
    BY <1>2, <1>3, <2>1, LineForEach
<1>6. LogOK("pi", IfSome(content, <<StoppedAs(msg, PiEntry(msg.role, content))>>))
  <2>1. LineOK("pi", StoppedAs(msg, PiEntry(msg.role, content)))
    BY <1>4, PiEntryOK, LinesAre
  <2>2. QED
    BY <2>1, LineIfSome
<1>7. LogOK("pi", IF msg.role = "user" THEN answers ELSE <<>>)
  BY <1>5, NoLines
<1>8. QED
  BY <1>1, <1>6, <1>7, MoreLines

LEMMA PiWritten ==
  ASSUME NEW meta, NEW body, BodyOK(body)
  PROVE  LogOK("pi", PiFromCommon(meta, body))
<1> DEFINE parts == Each(Payloads, body)
<1>1. DOMAIN body = 1 .. Len(body) /\ Len(body) \in Nat /\ \A i \in 1 .. Len(body) : MessageOK(body[i])
  BY Lengths DEF BodyOK
<1>2. parts = [i \in 1 .. Len(body) |-> parts[i]] /\ \A i \in 1 .. Len(body) : LogOK("pi", parts[i])
  BY <1>1, PayloadsOK DEF Each
<1>3. PiFromCommon(meta, body) = <<PiHeader(meta.id)>> \o FlattenSeq(parts)
  BY DEF PiFromCommon
<1> HIDE DEF parts
<1>4. LogOK("pi", FlattenSeq(parts))
  BY <1>1, <1>2, FlattenedLines
<1>5. LogOK("pi", <<PiHeader(meta.id)>>)
  <2>1. LineOK("pi", PiHeader(meta.id))
    BY LinesAre DEF PiLineOK, PiHeader
  <2>2. QED
    BY <2>1, OneLine
<1>6. QED
  BY <1>3, <1>4, <1>5, MoreLines

LEMMA PiGrown ==
  ASSUME NEW lines, LogOK("pi", lines), NEW n, NEW grown \in PiGrow(lines, n)
  PROVE  LogOK("pi", grown)
<1> DEFINE written ==
             {PiEntry("user", c) : c \in Asks(n)}
             \cup {PiEntry("assistant", c) : c \in {Says(n)} \cup Calls(n, "bash")}
             \cup {StoppedAs(Aborted(c), PiEntry("assistant", c)) : c \in Calls(n, "bash")}
             \cup {PiToolResult(id, Output(n, id), Fails(id)) : id \in Open(PiToCommon(lines))}
             \cup {BashExecution(<<n>>, FALSE, excluded) : excluded \in BOOLEAN}
             \cup {[type |-> "session_info", title |-> Renamed], PiLine("junk")}
<1>1. grown \in Appending(lines, written)
  BY DEF PiGrow
<1>2. ASSUME NEW l \in written PROVE PiLineOK(l)
  <2>1. CASE l \in {PiEntry("user", c) : c \in Asks(n)}
    BY <2>1, Asked DEF PiLineOK, PiEntry, OnlyKinds
  <2>2. CASE l \in {PiEntry("assistant", c) : c \in {Says(n)} \cup Calls(n, "bash")}
    BY <2>2, Said, Called DEF PiLineOK, PiEntry, OnlyKinds
  <2>3. CASE l \in {PiToolResult(id, Output(n, id), Fails(id)) : id \in Open(PiToCommon(lines))}
    BY <2>3 DEF PiLineOK, PiToolResult
  <2>4. CASE l \in {BashExecution(<<n>>, FALSE, excluded) : excluded \in BOOLEAN}
    BY <2>4 DEF PiLineOK, BashExecution
  <2>5. CASE l \in {[type |-> "session_info", title |-> Renamed], PiLine("junk")}
    BY <2>5 DEF PiLineOK, PiLine
  <2>6. CASE l \in {StoppedAs(Aborted(c), PiEntry("assistant", c)) : c \in Calls(n, "bash")}
    <3>1. PICK c \in Calls(n, "bash") : l = StoppedAs(Aborted(c), PiEntry("assistant", c))
      BY <2>6
    <3>2. QED
      BY <3>1, Called, PiEntryOK DEF OnlyKinds
  <2>7. QED
    BY <2>1, <2>2, <2>3, <2>4, <2>5, <2>6
<1> HIDE DEF written
<1>3. \A l \in written : LineOK("pi", l)
  BY <1>2, LinesAre
<1>4. QED
  BY <1>1, <1>3, LineAppended

(***************************************************************************)
(* The simple format.                                                      *)
(***************************************************************************)
SimpleStart(pending) == [out |-> <<>>, pending |-> pending]

LEMMA SimpleBlocksRun ==
  ASSUME NEW pending, NEW content, Len(content) \in Nat, NEW i
  PROVE  \E f : /\ RunOf(<<"simple blocks", content, i>>, SimpleStart(pending), Len(content), f)
                /\ BlocksToCommon(pending, content, i) = f[Len(content)]
<1> DEFINE F(f) == [j \in 0 .. Len(content) |->
                      IF j = 0 THEN [out |-> <<>>, pending |-> pending]
                      ELSE BlockToCommon(f[j - 1], content[j], i, j)]
           read == CHOOSE f : f = F(f)
           x == <<"simple blocks", content, i>>
<1>1. \A f : F(f) = Running(x, SimpleStart(pending), Len(content), f)
  BY DEF Running, Step, SimpleStart
<1>2. BlocksToCommon(pending, content, i) = read[Len(content)]
  BY DEF BlocksToCommon
<1> HIDE DEF x
<1>3. PICK f : f = Running(x, SimpleStart(pending), Len(content), f)
  BY RunExists
<1>4. read = F(read)
  BY <1>1, <1>3
<1> HIDE DEF read
<1>5. RunOf(x, SimpleStart(pending), Len(content), read)
  BY <1>1, <1>4, Started
<1>6. QED
  BY <1>2, <1>5 DEF x

LEMMA SimpleRuns ==
  ASSUME NEW lines, Len(lines) \in Nat
  PROVE  \E f : /\ RunOf(<<"simple", lines>>, SimpleStart(<<>>), Len(lines), f)
                /\ SimpleToCommon(lines) = f[Len(lines)].out
<1> DEFINE F(f) == [i \in 0 .. Len(lines) |->
                      IF i = 0 THEN [out |-> <<>>, pending |-> <<>>]
                      ELSE EntryToCommon(f[i - 1], lines[i], i)]
           read == CHOOSE f : f = F(f)
           x == <<"simple", lines>>
<1>1. \A f : F(f) = Running(x, SimpleStart(<<>>), Len(lines), f)
  BY DEF Running, Step, SimpleStart
<1>2. SimpleToCommon(lines) = read[Len(lines)].out
  BY DEF SimpleToCommon
<1> HIDE DEF x
<1>3. PICK f : f = Running(x, SimpleStart(<<>>), Len(lines), f)
  BY RunExists
<1>4. read = F(read)
  BY <1>1, <1>3
<1> HIDE DEF read
<1>5. RunOf(x, SimpleStart(<<>>), Len(lines), read)
  BY <1>1, <1>4, Started
<1>6. QED
  BY <1>2, <1>5 DEF x

\* Each block read is one block of the message.
SimpleBlocksOK(role, s, j) ==
  s = [out |-> s.out, pending |-> s.pending] /\ ContentOK(role, s.out) /\ Len(s.out) = j

LEMMA SimpleBlockRead ==
  ASSUME NEW role, NEW s, NEW k \in Nat, SimpleBlocksOK(role, s, k),
         NEW b, BlockOK(role, b), NEW i, NEW j
  PROVE  SimpleBlocksOK(role, BlockToCommon(s, b, i, j), k + 1)
<1>1. ASSUME NEW c, BlockOK(role, c), NEW out, out = Append(s.out, c), NEW pending
      PROVE  SimpleBlocksOK(role, [out |-> out, pending |-> pending], k + 1)
  <2>1. IsList(s.out) /\ Len(s.out) = k /\ \A d \in ToSet(s.out) : BlockOK(role, d)
    BY DEF SimpleBlocksOK, ContentOK
  <2>2. IsList(out) /\ Len(out) = k + 1 /\ ToSet(out) = ToSet(s.out) \cup {c}
    BY <1>1, <2>1, Appended
  <2>3. QED
    BY <1>1, <2>1, <2>2 DEF SimpleBlocksOK, ContentOK
<1>2. CASE b.kind = "use"
  <2>1. PICK id, pending :
          BlockToCommon(s, b, i, j) = [out |-> Append(s.out, Use(id, b.tool)), pending |-> pending]
    BY <1>2 DEF BlockToCommon
  <2>2. PICK c, out : c = Use(id, b.tool) /\ out = Append(s.out, c)
    OBVIOUS
  <2>3. BlockOK(role, c)
    BY <1>2, <2>2 DEF BlockOK, Use
  <2>4. QED
    BY <1>1, <2>1, <2>2, <2>3
<1>3. CASE b.kind = "result"
  <2>1. PICK id, pending :
          BlockToCommon(s, b, i, j) = [out |-> Append(s.out, Result(id, b.v, b.err)), pending |-> pending]
    BY <1>3 DEF BlockToCommon
  <2>2. PICK c, out : c = Result(id, b.v, b.err) /\ out = Append(s.out, c)
    OBVIOUS
  <2>3. BlockOK(role, c)
    BY <1>3, <2>2 DEF BlockOK, Result
  <2>4. QED
    BY <1>1, <2>1, <2>2, <2>3
<1>4. CASE b.kind \notin {"use", "result"}
  <2>1. BlockToCommon(s, b, i, j) = [s EXCEPT !.out = Append(@, b)]
    BY <1>4 DEF BlockToCommon
  <2>2. PICK out : out = Append(s.out, b)
    OBVIOUS
  <2>3. [s EXCEPT !.out = out] = [out |-> out, pending |-> s.pending]
    BY DEF SimpleBlocksOK
  <2>4. QED
    BY <1>1, <2>1, <2>2, <2>3
<1>5. QED
  BY <1>2, <1>3, <1>4

LEMMA SimpleBlocksRead ==
  ASSUME NEW role, NEW content, ContentOK(role, content), NEW pending, NEW i
  PROVE  SimpleBlocksOK(role, BlocksToCommon(pending, content, i), Len(content))
<1> DEFINE n == Len(content)
           start == SimpleStart(pending)
<1>1. n \in Nat /\ \A j \in 1 .. n : BlockOK(role, content[j])
  BY Lengths DEF ContentOK
<1>2. PICK f : RunOf(<<"simple blocks", content, i>>, start, n, f)
               /\ BlocksToCommon(pending, content, i) = f[n]
  BY <1>1, SimpleBlocksRun
<1> DEFINE T == {j \in 0 .. n : SimpleBlocksOK(role, f[j], j)}
<1>3. SimpleBlocksOK(role, start, 0)
  BY NoneListed DEF SimpleBlocksOK, ContentOK, SimpleStart
<1> HIDE DEF n, start
<1>4. 0 \in T
  <2>1. SimpleBlocksOK(role, f[0], 0)
    BY <1>2, <1>3 DEF RunOf
  <2>2. QED
    BY <1>1, <2>1
<1>5. ASSUME NEW j \in 1 .. n, j - 1 \in T PROVE j \in T
  <2>1. f[j] = BlockToCommon(f[j - 1], content[j], i, j)
    BY <1>2 DEF RunOf, Step
  <2>2. j - 1 \in Nat /\ j - 1 + 1 = j
    BY <1>1
  <2>3. SimpleBlocksOK(role, f[j], j)
    BY <1>1, <1>5, <2>1, <2>2, SimpleBlockRead
  <2>4. QED
    BY <1>1, <2>3
<1> HIDE DEF T
<1>6. n \in T
  BY <1>1, <1>4, <1>5, AllNumbers
<1>7. QED
  BY <1>2, <1>6 DEF T, n

SimpleOK(s) == BodyOK(s.out)

LEMMA SimpleLineRead ==
  ASSUME NEW s, SimpleOK(s), NEW line, SimpleLineOK(line), NEW i
  PROVE  SimpleOK(EntryToCommon(s, line, i))
<1>1. CASE line.type # "message" \/ line.role \notin {"user", "assistant"}
  BY <1>1 DEF EntryToCommon
<1>2. CASE line.type = "message" /\ line.role \in {"user", "assistant"}
  <2> DEFINE read == BlocksToCommon(s.pending, line.content, i)
             msg == StoppedAs(line, Message(line.role, read.out))
  <2>1. EntryToCommon(s, line, i) = [out |-> Append(s.out, msg), pending |-> read.pending]
    BY <1>2 DEF EntryToCommon
  <2>2. ContentOK(line.role, line.content) /\ line.content # <<>>
    BY <1>2 DEF SimpleLineOK
  <2>3. SimpleBlocksOK(line.role, read, Len(line.content))
    BY <2>2, SimpleBlocksRead
  <2> HIDE DEF read
  <2>4. ContentOK(line.role, read.out) /\ read.out # <<>>
    BY <2>2, <2>3, Lengths, NoneListed DEF SimpleBlocksOK, ContentOK
  <2>5. MessageOK(msg)
    <3>1. MessageOK([role |-> line.role, content |-> read.out])
      BY <1>2, <2>4 DEF MessageOK
    <3>2. QED
      BY <3>1, StoppedMessageOK DEF Message
  <2> HIDE DEF msg
  <2>6. QED
    BY <2>1, <2>5, OneMoreMessage DEF SimpleOK
<1>3. QED
  BY <1>1, <1>2

LEMMA SimpleRead ==
  ASSUME NEW lines, LogOK("simple", lines)
  PROVE  BodyOK(SimpleToCommon(lines))
<1> DEFINE n == Len(lines)
<1>1. n \in Nat /\ \A i \in 1 .. n : SimpleLineOK(lines[i])
  BY Lengths, LinesAre DEF LogOK
<1>2. PICK f : RunOf(<<"simple", lines>>, SimpleStart(<<>>), n, f) /\ SimpleToCommon(lines) = f[n].out
  BY <1>1, SimpleRuns
<1> DEFINE T == {i \in 0 .. n : SimpleOK(f[i])}
<1> HIDE DEF n
<1>3. 0 \in T
  BY <1>1, <1>2, NoMessages DEF RunOf, SimpleOK, SimpleStart
<1>4. ASSUME NEW i \in 1 .. n, i - 1 \in T PROVE i \in T
  <2>1. f[i] = EntryToCommon(f[i - 1], lines[i], i)
    BY <1>2 DEF RunOf, Step
  <2>2. SimpleOK(f[i])
    BY <1>1, <1>4, <2>1, SimpleLineRead
  <2>3. QED
    BY <1>1, <2>2
<1> HIDE DEF T
<1>5. n \in T
  BY <1>1, <1>3, <1>4, AllNumbers
<1>6. QED
  BY <1>2, <1>5 DEF T, SimpleOK

LEMMA SimpleWritten ==
  ASSUME NEW meta, NEW body, BodyOK(body)
  PROVE  LogOK("simple", SimpleFromCommon(meta, body))
<1> DEFINE entries == [i \in DOMAIN body |-> StoppedAs(body[i], SimpleEntry(body[i].role, body[i].content))]
<1>1. SimpleFromCommon(meta, body) = <<Doc(meta.id, meta.title)>> \o entries
  BY DEF SimpleFromCommon, Each
<1>2. IsList(body) /\ \A i \in 1 .. Len(body) : i \in DOMAIN body /\ MessageOK(body[i])
  BY Lengths DEF BodyOK
<1>3. ASSUME NEW i \in 1 .. Len(body) PROVE LineOK("simple", entries[i])
  <2>1. PICK line : line = SimpleEntry(body[i].role, body[i].content)
    OBVIOUS
  <2>2. /\ {"role", "content"} \subseteq DOMAIN line
        /\ line.role = body[i].role /\ line.content = body[i].content
    BY <2>1 DEF SimpleEntry
  <2>3. StoppedAs(body[i], line).role = body[i].role /\ StoppedAs(body[i], line).content = body[i].content
    BY <2>2, StopLeaves
  <2>4. SimpleLineOK(StoppedAs(body[i], line))
    BY <1>2, <2>3 DEF SimpleLineOK, MessageOK
  <2>5. entries[i] = StoppedAs(body[i], line)
    BY <1>2, <2>1
  <2>6. QED
    BY <2>4, <2>5, LinesAre
<1>4. entries = [i \in DOMAIN body |-> entries[i]]
  OBVIOUS
<1> HIDE DEF entries
<1>5. LogOK("simple", entries)
  BY <1>2, <1>3, <1>4, LineForEach
<1>6. LineOK("simple", Doc(meta.id, meta.title))
  BY LinesAre DEF SimpleLineOK, Doc
<1>7. QED
  BY <1>1, <1>5, <1>6, OneLine, MoreLines

LEMMA SimpleEntryOK ==
  ASSUME NEW role \in {"user", "assistant"}, NEW content, content # <<>>,
         OnlyKinds(content, IF role = "user" THEN {"text", "image", "result"} ELSE {"text", "thinking", "use"})
  PROVE  SimpleLineOK(SimpleEntry(role, content))
BY DEF SimpleLineOK, SimpleEntry, ContentOK, OnlyKinds, BlockOK, Blocks

LEMMA SimpleGrown ==
  ASSUME NEW lines, LogOK("simple", lines), NEW n, NEW grown \in SimpleGrow(lines, n)
  PROVE  LogOK("simple", grown)
<1> DEFINE open == Open(SimpleToCommon(lines))
           Files(source) == <<Artifact(<<"f", n>>, <<n>>, source)>>
           asks == {SimpleEntry("user", c) : c \in Asks(n) \cup {Files("inline")}}
           says == {SimpleEntry("assistant", c) :
                      c \in {Says(n), <<Use(NoId, "Bash")>>, Files("path")} \cup Calls(n, "Bash")}
           answers == {SimpleEntry("user", <<Result(id, Output(n, id), Fails(id))>>) : id \in open \cup {NoId}}
           written == asks \cup says \cup answers \cup {SimpleEntry("system", <<Text(<<n>>)>>)}
<1>1. grown \in Appending(lines, written)
  <2>1. SimpleGrow(lines, n) = Appending(lines, written)
    BY Zenon DEF SimpleGrow
  <2> HIDE DEF written
  <2>2. QED
    BY <2>1
<1> HIDE DEF open
<1>2. ASSUME NEW role \in {"user", "assistant"}, NEW source PROVE SimpleLineOK(SimpleEntry(role, Files(source)))
  <2>1. PICK b : b = Artifact(<<"f", n>>, <<n>>, source)
    OBVIOUS
  <2>2. BlockOK(role, b)
    BY <2>1 DEF BlockOK, Blocks, Artifact
  <2>3. ContentOK(role, <<b>>) /\ <<b>> # <<>>
    BY <2>2, OneListed DEF ContentOK
  <2>4. QED
    BY <2>1, <2>3 DEF SimpleLineOK, SimpleEntry
<1> HIDE DEF Files
<1>3. ASSUME NEW l \in asks PROVE SimpleLineOK(l)
  <2>1. PICK c \in Asks(n) \cup {Files("inline")} : l = SimpleEntry("user", c)
    OBVIOUS
  <2>2. c \in Asks(n) => c # <<>> /\ OnlyKinds(c, {"text", "image", "result"})
    BY Asked DEF OnlyKinds
  <2>3. QED
    BY <1>2, <2>1, <2>2, SimpleEntryOK
<1>4. ASSUME NEW l \in says PROVE SimpleLineOK(l)
  <2>1. PICK c \in {Says(n), <<Use(NoId, "Bash")>>, Files("path")} \cup Calls(n, "Bash") :
          l = SimpleEntry("assistant", c)
    OBVIOUS
  <2>2. c = <<Use(NoId, "Bash")>> => c # <<>> /\ OnlyKinds(c, {"text", "thinking", "use"})
    BY OneListed DEF OnlyKinds, Use
  <2>3. c \in {Says(n)} \cup Calls(n, "Bash") => c # <<>> /\ OnlyKinds(c, {"text", "thinking", "use"})
    BY Said, Called DEF OnlyKinds
  <2>4. QED
    BY <1>2, <2>1, <2>2, <2>3, SimpleEntryOK
<1>5. ASSUME NEW l \in answers PROVE SimpleLineOK(l)
  <2>1. PICK id : l = SimpleEntry("user", <<Result(id, Output(n, id), Fails(id))>>)
    OBVIOUS
  <2>2. PICK b : b = Result(id, Output(n, id), Fails(id))
    OBVIOUS
  <2>3. OnlyKinds(<<b>>, {"text", "image", "result"}) /\ <<b>> # <<>>
    BY <2>2, OneListed DEF OnlyKinds, Result
  <2>4. QED
    BY <2>1, <2>2, <2>3, SimpleEntryOK
<1>6. SimpleLineOK(SimpleEntry("system", <<Text(<<n>>)>>))
  BY DEF SimpleLineOK, SimpleEntry
<1> HIDE DEF asks, says, answers
<1>7. \A l \in written : LineOK("simple", l)
  BY <1>3, <1>4, <1>5, <1>6, LinesAre
<1> HIDE DEF written
<1>8. QED
  BY <1>1, <1>7, LineAppended

(***************************************************************************)
(* Share and Cowork: another format's lines behind one of their own.       *)
(***************************************************************************)
BehindOK(h, lines) == IsList(lines) /\ lines # <<>> /\ LogOK(h, Tail(lines))

LEMMA PutBehind ==
  ASSUME NEW h, NEW first, NEW rest, LogOK(h, rest)
  PROVE  BehindOK(h, <<first>> \o rest)
<1>1. PICK s : s = <<first>> \o rest
  OBVIOUS
<1>2. IsList(rest)
  BY DEF LogOK
<1>3. IsList(s) /\ s # <<>> /\ Tail(s) = rest
  BY <1>1, <1>2, Headed
<1>4. BehindOK(h, s)
  BY <1>3 DEF BehindOK
<1>5. QED
  BY <1>1, <1>4

LEMMA ShareRead ==
  ASSUME NEW lines, BehindOK("simple", lines)
  PROVE  BodyOK(ShareToCommon(lines))
BY SimpleRead DEF BehindOK, ShareToCommon

LEMMA ShareWritten ==
  ASSUME NEW meta, NEW body, BodyOK(body)
  PROVE  BehindOK("simple", ShareFromCommon(meta, body))
BY SimpleWritten, PutBehind DEF ShareFromCommon

LEMMA ShareGrown ==
  ASSUME NEW lines, BehindOK("simple", lines), NEW n, NEW grown \in ShareGrow(lines, n)
  PROVE  BehindOK("simple", grown)
<1>1. PICK doc \in SimpleGrow(Tail(lines), n) : grown = <<lines[1]>> \o doc
  BY DEF ShareGrow
<1>2. LogOK("simple", Tail(lines))
  BY DEF BehindOK
<1>3. LogOK("simple", doc)
  BY <1>2, SimpleGrown
<1>4. QED
  BY <1>1, <1>3, PutBehind

LEMMA CoworkRead ==
  ASSUME NEW lines, BehindOK("claude", lines)
  PROVE  BodyOK(CoworkToCommon(lines))
BY ClaudeRead DEF BehindOK, CoworkToCommon

LEMMA CoworkWritten ==
  ASSUME NEW meta, NEW body, BodyOK(body)
  PROVE  BehindOK("claude", CoworkFromCommon(meta, body))
<1>1. PICK first, named : CoworkFromCommon(meta, body) = <<first>> \o ClaudeFromCommon(named, body)
  BY DEF CoworkFromCommon
<1>2. LogOK("claude", ClaudeFromCommon(named, body))
  BY ClaudeWritten
<1>3. QED
  BY <1>1, <1>2, PutBehind

LEMMA CoworkGrown ==
  ASSUME NEW lines, BehindOK("claude", lines), NEW n, NEW grown \in CoworkGrow(lines, n)
  PROVE  BehindOK("claude", grown)
<1>1. CASE grown \in {<<lines[1]>> \o more : more \in ClaudeGrow(Tail(lines), lines[1].cli, n)}
  <2>1. PICK more \in ClaudeGrow(Tail(lines), lines[1].cli, n) : grown = <<lines[1]>> \o more
    BY <1>1
  <2>2. LogOK("claude", Tail(lines))
    BY DEF BehindOK
  <2>3. LogOK("claude", more)
    BY <2>2, ClaudeGrown
  <2>4. QED
    BY <2>1, <2>3, PutBehind
<1>2. CASE grown = [lines EXCEPT ![1].title = Renamed]
  <2>1. PICK first : first = [lines[1] EXCEPT !.title = Renamed]
    OBVIOUS
  <2>2. grown = [lines EXCEPT ![1] = first]
    BY <1>2, <2>1
  <2>3. IsList(lines) /\ lines # <<>>
    BY DEF BehindOK
  <2>4. IsList(grown) /\ grown # <<>> /\ grown[1] = first /\ Tail(grown) = Tail(lines)
    BY <2>2, <2>3, FirstReplaced
  <2>5. QED
    BY <2>4 DEF BehindOK
<1>3. QED
  BY <1>1, <1>2 DEF CoworkGrow

(***************************************************************************)
(* A session of any of the harnesses.                                      *)
(***************************************************************************)
SessionOK(h, lines) ==
  CASE h = "fx" -> FxOK(lines)
    [] h = "chatgpt" -> ChatGptOK(lines)
    [] h = "claude_chat" -> ClaudeChatOK(lines)
    [] h = "cowork" -> BehindOK("claude", lines)
    [] h = "share" -> BehindOK("simple", lines)
    [] h = "campfire" -> LogOK("pi", lines)
    [] OTHER -> LogOK(h, lines)

ByLine == {"pi", "codex", "claude", "simple", "hermes", "opencode", "amp", "grok", "grok_bot",
          "antigravity", "cursor", "cursor_desktop"}
Apart == {"fx", "chatgpt", "claude_chat", "cowork", "share", "campfire"}

LEMMA HarnessesAre == DOMAIN Empty = ByLine \cup Apart
BY DEF Empty, ByLine, Apart

LEMMA SessionsAre ==
  ASSUME NEW lines
  PROVE  /\ \A h \in ByLine : SessionOK(h, lines) <=> LogOK(h, lines)
         /\ SessionOK("fx", lines) <=> FxOK(lines)
         /\ SessionOK("chatgpt", lines) <=> ChatGptOK(lines)
         /\ SessionOK("claude_chat", lines) <=> ClaudeChatOK(lines)
         /\ SessionOK("cowork", lines) <=> BehindOK("claude", lines)
         /\ SessionOK("share", lines) <=> BehindOK("simple", lines)
         /\ SessionOK("campfire", lines) <=> LogOK("pi", lines)
BY DEF SessionOK, ByLine

\* A session nothing was written to yet.
LEMMA EmptyIs ==
  /\ Empty["pi"] = <<PiHeader(SessionId)>>
  /\ Empty["codex"] = <<SessionMeta(SessionId)>>
  /\ Empty["claude"] = <<Title("summary", SessionTitle)>>
  /\ Empty["simple"] = <<Doc(SessionId, SessionTitle)>>
  /\ Empty["hermes"] = <<HermesSession(SessionId, SessionTitle)>>
  /\ Empty["opencode"] = <<OpenCodeSession(SessionId, Placeholder)>>
  /\ Empty["amp"] = <<Thread(SessionId, SessionTitle, TRUE)>>
  /\ Empty["fx"] = <<FxSession(SessionId, NoId, <<>>)>>
  /\ Empty["grok"] = <<GrokSummary(SessionId, SessionTitle)>>
  /\ Empty["grok_bot"] = <<>>
  /\ Empty["antigravity"] = <<Trajectory(SessionId)>>
  /\ Empty["cursor"] = <<CursorHeader(SessionId, SessionTitle)>>
  /\ Empty["cursor_desktop"] = <<CursorDesktopHeader(SessionId, NoId)>>
  /\ Empty["chatgpt"] = <<ChatGptConversation(SessionId, SessionTitle, NoId)>>
  /\ Empty["claude_chat"] = <<Chat(SessionId, SessionTitle, NoId)>>
  /\ Empty["cowork"] = <<CoworkHeader(<<"local", 1>>, SessionId, NoId)>>
  /\ Empty["campfire"] = <<PiHeader(SessionId)>>
  /\ Empty["share"] = <<Slug(SessionId), Doc(NoId, SessionTitle)>>
BY Zenon DEF Empty

LEMMA FirstLines ==
  ASSUME NEW id, NEW title
  PROVE  /\ LineOK("pi", PiHeader(id)) /\ LineOK("codex", SessionMeta(id))
         /\ LineOK("claude", Title("summary", title)) /\ LineOK("simple", Doc(id, title))
         /\ LineOK("hermes", HermesSession(id, title)) /\ LineOK("opencode", OpenCodeSession(id, title))
         /\ LineOK("amp", Thread(id, title, TRUE)) /\ LineOK("fx", FxSession(id, title, <<>>))
         /\ LineOK("grok", GrokSummary(id, title)) /\ LineOK("antigravity", Trajectory(id))
         /\ LineOK("cursor", CursorHeader(id, title))
         /\ LineOK("cursor_desktop", CursorDesktopHeader(id, title))
         /\ LineOK("chatgpt", ChatGptConversation(id, title, NoId))
         /\ LineOK("claude_chat", Chat(id, title, NoId))
<1>1. PiLineOK(PiHeader(id)) /\ CodexLineOK(SessionMeta(id)) /\ ClaudeLineOK(Title("summary", title))
  BY DEF PiLineOK, PiHeader, CodexLineOK, SessionMeta, ClaudeLineOK, Title
<1>2. SimpleLineOK(Doc(id, title)) /\ HermesLineOK(HermesSession(id, title))
  BY DEF SimpleLineOK, Doc, HermesLineOK, HermesSession
<1>3. OpenCodeLineOK(OpenCodeSession(id, title)) /\ AmpLineOK(Thread(id, title, TRUE))
  BY DEF OpenCodeLineOK, OpenCodeSession, AmpLineOK, Thread
<1>4. FxLineOK(FxSession(id, title, <<>>)) /\ GrokLineOK(GrokSummary(id, title))
  BY DEF FxLineOK, FxSession, GrokLineOK, GrokSummary
<1>5. AntigravityLineOK(Trajectory(id)) /\ CursorLineOK(CursorHeader(id, title))
  BY DEF AntigravityLineOK, Trajectory, CursorLineOK, CursorHeader
<1>6. ChatGptLineOK(ChatGptConversation(id, title, NoId)) /\ ClaudeChatLineOK(Chat(id, title, NoId))
  BY DEF ChatGptLineOK, ChatGptConversation, ClaudeChatLineOK, Chat
<1>7. QED
  BY <1>1, <1>2, <1>3, <1>4, <1>5, <1>6, LinesAre

LEMMA EmptyOK == ASSUME NEW h \in DOMAIN Empty PROVE SessionOK(h, Empty[h])
<1>1. CASE h \in ByLine
  <2>1. LogOK(h, Empty[h])
    BY <1>1, EmptyIs, FirstLines, OneLine, NoLines DEF ByLine
  <2>2. QED
    BY <1>1, <2>1, SessionsAre
<1>2. CASE h = "fx"
  <2>1. PICK l : l = FxSession(SessionId, NoId, <<>>)
    OBVIOUS
  <2>2. LogOK("fx", <<l>>) /\ <<l>> # <<>> /\ <<l>>[1] = l
    BY <2>1, FirstLines, OneLine, OneListed
  <2>3. ThoughtsOK(l.reasoning)
    BY <2>1, NoneListed DEF FxSession, ThoughtsOK, KeptRising
  <2>4. FxOK(<<l>>)
    BY <2>2, <2>3 DEF FxOK
  <2>5. QED
    BY <1>2, <2>1, <2>4, EmptyIs, SessionsAre
<1>3. CASE h = "chatgpt"
  <2>1. PICK l : l = ChatGptConversation(SessionId, SessionTitle, NoId)
    OBVIOUS
  <2>2. LogOK("chatgpt", <<l>>) /\ <<l>> # <<>> /\ <<l>>[1] = l
    BY <2>1, FirstLines, OneLine, OneListed
  <2>3. ChatGptOK(<<l>>)
    BY <2>1, <2>2 DEF ChatGptOK
  <2>4. QED
    BY <1>3, <2>1, <2>3, EmptyIs, SessionsAre
<1>4. CASE h = "claude_chat"
  <2>1. PICK l : l = Chat(SessionId, SessionTitle, NoId)
    OBVIOUS
  <2>2. LogOK("claude_chat", <<l>>) /\ <<l>> # <<>> /\ <<l>>[1] = l
    BY <2>1, FirstLines, OneLine, OneListed
  <2>3. ClaudeChatOK(<<l>>)
    BY <2>1, <2>2 DEF ClaudeChatOK
  <2>4. QED
    BY <1>4, <2>1, <2>3, EmptyIs, SessionsAre
<1>5. CASE h = "cowork"
  <2>1. PICK l : l = CoworkHeader(<<"local", 1>>, SessionId, NoId)
    OBVIOUS
  <2>2. BehindOK("claude", <<l>> \o <<>>)
    BY NoLines, PutBehind
  <2>3. <<l>> \o <<>> = <<l>>
    OBVIOUS
  <2>4. QED
    BY <1>5, <2>1, <2>2, <2>3, EmptyIs, SessionsAre
<1>6. CASE h = "share"
  <2>1. PICK slug, doc : slug = Slug(SessionId) /\ doc = Doc(NoId, SessionTitle)
    OBVIOUS
  <2>2. LogOK("simple", <<doc>>)
    BY <2>1, FirstLines, OneLine
  <2>3. BehindOK("simple", <<slug>> \o <<doc>>)
    BY <2>2, PutBehind
  <2>4. <<slug>> \o <<doc>> = <<slug, doc>>
    <3>1. PICK S : S = {slug, doc}
      OBVIOUS
    <3>2. slug \in S /\ doc \in S
      BY <3>1
    <3>3. <<slug>> \in Seq(S)
      BY <3>2
    <3>4. Append(<<slug>>, doc) = <<slug>> \o <<doc>>
      BY <3>2, <3>3, AppendIsConcat
    <3>5. Append(<<slug>>, doc) = <<slug, doc>>
      BY TwoAppended
    <3>6. QED
      BY <3>4, <3>5
  <2>5. QED
    BY <1>6, <2>1, <2>3, <2>4, EmptyIs, SessionsAre
<1>7. CASE h = "campfire"
  <2>1. LogOK("pi", Empty["campfire"])
    BY EmptyIs, FirstLines, OneLine
  <2>2. QED
    BY <1>7, <2>1, SessionsAre
<1>8. QED
  BY <1>1, <1>2, <1>3, <1>4, <1>5, <1>6, <1>7, HarnessesAre DEF Apart

LEMMA Read ==
  ASSUME NEW h \in DOMAIN Empty, NEW lines, SessionOK(h, lines)
  PROVE  BodyOK(ToCommon(h, lines))
<1>1. CASE h \in {"pi", "codex", "claude", "simple", "hermes", "opencode"}
  <2>1. LogOK(h, lines)
    BY <1>1, SessionsAre DEF ByLine
  <2>2. QED
    BY <1>1, <2>1, PiRead, CodexRead, ClaudeRead, SimpleRead, HermesRead, OpenCodeRead DEF ToCommon, OfPi
<1>2. CASE h \in {"amp", "grok", "grok_bot", "antigravity", "cursor", "cursor_desktop"}
  <2>1. LogOK(h, lines)
    BY <1>2, SessionsAre DEF ByLine
  <2>2. QED
    BY <1>2, <2>1, AmpBodyRead, GrokRead, GrokBotRead, AntigravityRead, CursorRead, CursorDesktopRead
       DEF ToCommon, OfPi
<1>3. CASE h \in Apart
  <2>1. CASE h = "fx"
    BY <2>1, SessionsAre, FxRead DEF ToCommon, OfPi
  <2>2. CASE h = "chatgpt"
    BY <2>2, SessionsAre, ChatGptRead DEF ToCommon, OfPi, ChatGptOK
  <2>3. CASE h = "claude_chat"
    BY <2>3, SessionsAre, ClaudeChatRead DEF ToCommon, OfPi
  <2>4. CASE h = "cowork"
    BY <2>4, SessionsAre, CoworkRead DEF ToCommon, OfPi
  <2>5. CASE h = "share"
    BY <2>5, SessionsAre, ShareRead DEF ToCommon, OfPi
  <2>6. CASE h = "campfire"
    BY <2>6, SessionsAre, PiRead DEF ToCommon, OfPi
  <2>7. QED
    BY <1>3, <2>1, <2>2, <2>3, <2>4, <2>5, <2>6 DEF Apart
<1>4. QED
  BY <1>1, <1>2, <1>3, HarnessesAre DEF ByLine

LEMMA Written ==
  ASSUME NEW h \in DOMAIN Empty, h \notin {"chatgpt", "claude_chat"}, NEW meta, NEW body, BodyOK(body)
  PROVE  SessionOK(h, FromCommon(h, meta, body))
<1>1. CASE h \in {"pi", "codex", "claude", "simple", "hermes", "opencode"}
  <2>1. LogOK(h, FromCommon(h, meta, body))
    BY <1>1, PiWritten, CodexWritten, ClaudeWritten, SimpleWritten, HermesWritten, OpenCodeWritten
       DEF FromCommon, OfPi
  <2>2. QED
    BY <1>1, <2>1, SessionsAre DEF ByLine
<1>2. CASE h \in {"amp", "grok", "grok_bot", "antigravity", "cursor", "cursor_desktop"}
  <2>1. LogOK(h, FromCommon(h, meta, body))
    BY <1>2, AmpWritten, GrokWritten, GrokBotWritten, AntigravityWritten, CursorWritten,
       CursorDesktopWritten DEF FromCommon, OfPi
  <2>2. QED
    BY <1>2, <2>1, SessionsAre DEF ByLine
<1>3. CASE h \in {"fx", "cowork", "share", "campfire"}
  <2>1. CASE h = "fx"
    BY <2>1, SessionsAre, FxWritten DEF FromCommon, OfPi
  <2>2. CASE h = "cowork"
    BY <2>2, SessionsAre, CoworkWritten DEF FromCommon, OfPi
  <2>3. CASE h = "share"
    BY <2>3, SessionsAre, ShareWritten DEF FromCommon, OfPi
  <2>4. CASE h = "campfire"
    BY <2>4, SessionsAre, PiWritten DEF FromCommon, OfPi
  <2>5. QED
    BY <1>3, <2>1, <2>2, <2>3, <2>4
<1>4. QED
  BY <1>1, <1>2, <1>3, HarnessesAre DEF ByLine, Apart

LEMMA Grown ==
  ASSUME NEW h \in DOMAIN Empty, NEW lines, SessionOK(h, lines), NEW n, NEW grown \in Grow(h, lines, n)
  PROVE  SessionOK(h, grown)
<1>1. CASE h \in {"pi", "codex", "simple", "hermes", "opencode"}
  <2>1. LogOK(h, lines)
    BY <1>1, SessionsAre DEF ByLine
  <2>2. LogOK(h, grown)
    BY <1>1, <2>1, PiGrown, CodexGrown, SimpleGrown, HermesGrown, OpenCodeGrown DEF Grow, OfPi
  <2>3. QED
    BY <1>1, <2>2, SessionsAre DEF ByLine
<1>2. CASE h = "claude"
  <2>1. LogOK("claude", lines)
    BY <1>2, SessionsAre DEF ByLine
  <2>2. PICK session : grown \in ClaudeGrow(lines, session, n)
    BY <1>2 DEF Grow, OfPi
  <2>3. LogOK("claude", grown)
    BY <2>1, <2>2, ClaudeGrown
  <2>4. QED
    BY <1>2, <2>3, SessionsAre DEF ByLine
<1>3. CASE h \in {"amp", "grok", "grok_bot", "antigravity", "cursor", "cursor_desktop"}
  <2>1. LogOK(h, lines)
    BY <1>3, SessionsAre DEF ByLine
  <2>2. LogOK(h, grown)
    BY <1>3, <2>1, AmpGrown, GrokGrown, GrokBotGrown, AntigravityGrown, CursorGrown, CursorDesktopGrown
       DEF Grow, OfPi
  <2>3. QED
    BY <1>3, <2>2, SessionsAre DEF ByLine
<1>4. CASE h \in Apart
  <2>1. CASE h = "fx"
    BY <2>1, SessionsAre, FxGrown DEF Grow, OfPi
  <2>2. CASE h = "chatgpt"
    BY <2>2, SessionsAre, ChatGptGrown DEF Grow, OfPi
  <2>3. CASE h = "claude_chat"
    BY <2>3, SessionsAre, ClaudeChatGrown DEF Grow, OfPi
  <2>4. CASE h = "cowork"
    BY <2>4, SessionsAre, CoworkGrown DEF Grow, OfPi
  <2>5. CASE h = "share"
    BY <2>5, SessionsAre, ShareGrown DEF Grow, OfPi
  <2>6. CASE h = "campfire"
    BY <2>6, SessionsAre, PiGrown DEF Grow, OfPi
  <2>7. QED
    BY <1>4, <2>1, <2>2, <2>3, <2>4, <2>5, <2>6 DEF Apart
<1>5. QED
  BY <1>1, <1>2, <1>3, <1>4, HarnessesAre DEF ByLine

(***************************************************************************)
(* The inductive invariant.  That what is read is well formed does not     *)
(* carry itself from step to step: a decoder is owed a log it can read.    *)
(* So the invariant says of the log what the decoder of its harness relies *)
(* on; the harness keeps that when it writes (Grown), an encoder           *)
(* establishes it for the harness it writes for (Written), and a decoder   *)
(* makes a well-formed conversation of it (Read), which is all the next    *)
(* encoder asks for.                                                       *)
(***************************************************************************)
IInv ==
  /\ harness \in DOMAIN Empty /\ live \in BOOLEAN
  /\ steps \in 0 .. MaxSteps /\ hops \in 0 .. MaxHops
  /\ SessionOK(harness, log)
  /\ BodyOK(common)

LEMMA IInvImplies == IInv => TypeOK
<1> SUFFICES ASSUME IInv PROVE TypeOK
  OBVIOUS
<1>1. ASSUME NEW i \in DOMAIN common PROVE MessageOK(common[i])
  BY Lengths DEF IInv, BodyOK
<1>2. ASSUME NEW i \in DOMAIN common, NEW j \in DOMAIN common[i].content
      PROVE  BlockOK(common[i].role, common[i].content[j])
  BY <1>1, Lengths DEF MessageOK, ContentOK
<1>3. \A i \in DOMAIN common : common[i].content # <<>>
  BY <1>1 DEF MessageOK
<1>4. QED
  BY <1>2, <1>3 DEF IInv, TypeOK, BlockOK

LEMMA IInvInit == Init => IInv
<1> SUFFICES ASSUME Init PROVE IInv
  OBVIOUS
<1>1. harness \in DOMAIN Empty
  BY BoundsAssumption DEF Init
<1>2. SessionOK(harness, log)
  BY <1>1, EmptyOK DEF Init
<1>3. steps \in 0 .. MaxSteps /\ hops \in 0 .. MaxHops
  BY BoundsAssumption DEF Init
<1>4. QED
  BY <1>1, <1>2, <1>3, NoMessages DEF IInv, Init

LEMMA ConvertedKeeps ==
  ASSUME IInv, NEW target \in DOMAIN Empty, target \notin {"chatgpt", "claude_chat"},
         NEW meta, NEW body, BodyOK(body), NEW alive \in BOOLEAN, Converted(target, meta, body, alive)
  PROVE  IInv'
<1>1. /\ harness' = target /\ log' = FromCommon(target, meta, body) /\ common' = ToCommon(target, log')
      /\ live' = alive /\ hops' = hops + 1 /\ hops < MaxHops /\ steps' = steps
  BY DEF Converted
<1>2. SessionOK(target, log')
  BY <1>1, Written
<1>3. BodyOK(common')
  BY <1>1, <1>2, Read
<1>4. steps' \in 0 .. MaxSteps /\ hops' \in 0 .. MaxHops
  BY <1>1, BoundsAssumption DEF IInv
<1>5. SessionOK(harness', log')
  BY <1>1, <1>2
<1>6. QED
  BY <1>1, <1>3, <1>4, <1>5 DEF IInv

LEMMA IInvNext == IInv /\ [Next]_vars => IInv'
<1> SUFFICES ASSUME IInv, [Next]_vars PROVE IInv'
  OBVIOUS
<1>1. CASE Work
  <2>1. PICK grown \in Grow(harness, log, steps + 1) : log' = grown
    BY <1>1 DEF Work
  <2>2. harness \in DOMAIN Empty /\ SessionOK(harness, log)
    BY DEF IInv
  <2>3. SessionOK(harness, log')
    BY <2>1, <2>2, Grown
  <2>4. BodyOK(common')
    BY <1>1, <2>2, <2>3, Read DEF Work
  <2>5. harness' = harness /\ live' = live /\ hops' = hops
    BY <1>1 DEF Work
  <2>6. steps' \in 0 .. MaxSteps
    BY <1>1, BoundsAssumption DEF Work, IInv
  <2>7. SessionOK(harness', log')
    BY <2>3, <2>5
  <2>8. QED
    BY <2>4, <2>5, <2>6, <2>7 DEF IInv
<1>2. CASE \E target \in Targets : Continue(target)
  <2>1. PICK target \in Targets : Continue(target)
    BY <1>2
  <2>2. target \in DOMAIN Empty /\ target \notin {"chatgpt", "claude_chat"}
    BY BoundsAssumption
  <2>3. PICK meta, body : /\ Converted(target, meta, body, TRUE)
                          /\ body = IF target = "claude" THEN Materialized(common) ELSE common
    BY <2>1 DEF Continue
  <2>4. BodyOK(body)
    BY <2>3, MaterializedOK DEF IInv
  <2>5. QED
    BY <2>2, <2>3, <2>4, ConvertedKeeps
<1>3. CASE \E target \in Exports \ {"share"} : Export(target)
  <2>1. PICK target \in Exports : Export(target)
    BY <1>3
  <2>2. target \in DOMAIN Empty /\ target \notin {"chatgpt", "claude_chat"}
    BY BoundsAssumption
  <2>3. PICK meta : Converted(target, meta, common, FALSE)
    BY <2>1 DEF Export
  <2>4. BodyOK(common)
    BY DEF IInv
  <2>5. QED
    BY <2>2, <2>3, <2>4, ConvertedKeeps
<1>4. CASE "share" \in Exports /\ Push
  <2>1. "share" \in DOMAIN Empty /\ "share" \notin {"chatgpt", "claude_chat"}
    BY <1>4, BoundsAssumption
  <2>2. PICK meta : Converted("share", meta, common, FALSE)
    BY <1>4 DEF Push
  <2>3. BodyOK(common)
    BY DEF IInv
  <2>4. QED
    BY <2>1, <2>2, <2>3, ConvertedKeeps
<1>5. CASE UNCHANGED vars
  BY <1>5 DEF vars, IInv
<1>6. QED
  BY <1>1, <1>2, <1>3, <1>4, <1>5 DEF Next

(***************************************************************************)
(* Whatever harness a session starts in, whatever the harnesses write to   *)
(* it and however often it is converted, continued, exported or published: *)
(* what to_common reads has no empty message, a result is the user's and a *)
(* thought the model's, and the only calls of the user's own are commands  *)
(* (common.rs).                                                            *)
(***************************************************************************)
THEOREM ConversationsAreWellFormed == Spec => []TypeOK
<1>1. Init => IInv
  BY IInvInit
<1>2. IInv /\ [Next]_vars => IInv'
  BY IInvNext
<1>3. IInv => TypeOK
  BY IInvImplies
<1>4. QED
  BY <1>1, <1>2, <1>3, PTL DEF Spec
=============================================================================
