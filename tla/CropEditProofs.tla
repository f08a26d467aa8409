---------------------------- MODULE CropEditProofs ----------------------------
(***************************************************************************)
(* Proofs about the crop editor, for any conversation, any length of the   *)
(* history and any number of changes.                                      *)
(***************************************************************************)
EXTENDS CropEdit, FiniteSetTheorems, SequenceTheorems, TLAPS

(***************************************************************************)
(* The histories are sequences, of whatever steps.                         *)
(***************************************************************************)
IsSeq(s) == s \in Seq(ToSet(s))

\* A sequence over some set is one over its own members.
LEMMA OwnMembers ==
  ASSUME NEW S, NEW s \in Seq(S)
  PROVE  IsSeq(s)
<1>1. Len(s) \in Nat /\ s \in [1 .. Len(s) -> S] /\ DOMAIN s = 1 .. Len(s)
  BY LenProperties
<1>2. s \in [1 .. Len(s) -> ToSet(s)]
  BY <1>1 DEF ToSet
<1>3. QED
  BY <1>1, <1>2, SeqDef DEF IsSeq

LEMMA Lengths ==
  ASSUME NEW s, IsSeq(s)
  PROVE  Len(s) \in Nat /\ DOMAIN s = 1 .. Len(s) /\ (s # <<>> => Len(s) > 0)
BY LenProperties, EmptySeq DEF IsSeq

LEMMA Appended ==
  ASSUME NEW s, IsSeq(s), NEW e
  PROVE  /\ IsSeq(Append(s, e)) /\ Len(Append(s, e)) = Len(s) + 1
         /\ \A k \in 1 .. Len(s) : Append(s, e)[k] = s[k]
         /\ Append(s, e)[Len(s) + 1] = e
<1> DEFINE S == ToSet(s) \cup {e}
<1>1. s \in Seq(S)
  BY SeqMonotonic DEF IsSeq
<1>2. e \in S
  OBVIOUS
<1> HIDE DEF S
<1>3. Append(s, e) \in Seq(S)
  BY <1>1, <1>2, AppendProperties
<1>4. IsSeq(Append(s, e))
  BY <1>3, OwnMembers
<1>5. QED
  BY <1>1, <1>2, <1>4, AppendProperties

LEMMA Fronted ==
  ASSUME NEW s, IsSeq(s), s # <<>>
  PROVE  /\ IsSeq(Front(s)) /\ Len(Front(s)) = Len(s) - 1
         /\ \A k \in 1 .. Len(s) - 1 : Front(s)[k] = s[k]
<1>1. Len(s) \in Nat /\ Len(s) > 0 /\ \A k \in 1 .. Len(s) : s[k] \in ToSet(s)
  BY Lengths, ElementOfSeq DEF IsSeq
<1>2. \A k \in 1 .. Len(s) - 1 : s[k] \in ToSet(s)
  BY <1>1
<1>3. /\ SubSeq(s, 1, Len(s) - 1) \in Seq(ToSet(s))
      /\ Len(SubSeq(s, 1, Len(s) - 1)) = IF 1 <= Len(s) - 1 THEN Len(s) - 1 - 1 + 1 ELSE 0
      /\ \A k \in 1 .. Len(s) - 1 - 1 + 1 : SubSeq(s, 1, Len(s) - 1)[k] = s[1 + k - 1]
  BY <1>1, <1>2, SubSeqProperties
<1>4. IsSeq(Front(s))
  BY <1>3, OwnMembers DEF Front
<1>5. Len(Front(s)) = Len(s) - 1
  <2>1. \A n \in Nat : n > 0 => (IF 1 <= n - 1 THEN n - 1 - 1 + 1 ELSE 0) = n - 1
    OBVIOUS
  <2>2. QED
    BY <1>1, <1>3, <2>1 DEF Front
<1>6. ASSUME NEW k \in 1 .. Len(s) - 1 PROVE Front(s)[k] = s[k]
  <2>1. k \in 1 .. Len(s) - 1 - 1 + 1 /\ 1 + k - 1 = k
    BY <1>1
  <2>2. QED
    BY <1>3, <2>1 DEF Front
<1>7. QED
  BY <1>4, <1>5, <1>6

LEMMA Tailed ==
  ASSUME NEW s, IsSeq(s), s # <<>>
  PROVE  /\ IsSeq(Tail(s)) /\ Len(Tail(s)) = Len(s) - 1
         /\ \A k \in 1 .. Len(s) - 1 : Tail(s)[k] = s[k + 1]
<1>1. /\ Tail(s) \in Seq(ToSet(s)) /\ Len(Tail(s)) = Len(s) - 1
      /\ \A k \in 1 .. Len(Tail(s)) : Tail(s)[k] = s[k + 1]
  BY HeadTailProperties DEF IsSeq
<1>2. IsSeq(Tail(s))
  BY <1>1, OwnMembers
<1>3. QED
  BY <1>1, <1>2

(***************************************************************************)
(* The inductive invariant.                                                *)
(***************************************************************************)
\* What a step in the histories says of the state before it and after it.
IsState(a) == a = [kept |-> a.kept, body |-> a.body]

Rewrites(a, step, b) ==
  /\ step.kind = "message" /\ step.at \in DOMAIN b.body /\ a.kept = b.kept
  /\ a.body = [b.body EXCEPT ![step.at] = step.before]
  /\ b.body = [a.body EXCEPT ![step.at] = step.after]

Undoes(a, step, b) ==
  /\ IsState(a)
  /\ \/ step.kind = "kept" /\ a.kept = step.kept /\ a.body = b.body
     \/ Rewrites(a, step, b)

Redoes(a, step, b) ==
  /\ IsState(b)
  /\ \/ step.kind = "kept" /\ b.kept = step.kept /\ a.body = b.body
     \/ Rewrites(a, step, b)

\* A trail of states that the steps lead along: back from the present one, and
\* on from it, in the reverse order of the stack.
LeadsBack(trail, past) ==
  \A k \in 1 .. Len(past) : Undoes(trail[k], past[k], trail[k + 1])
LeadsOn(trail, n, future) ==
  \A k \in 1 .. Len(future) :
    Redoes(trail[n + k - 1], future[Len(future) + 1 - k], trail[n + k])

Retraces(trail, past, future, now) ==
  trail[Len(past) + 1] = now /\ LeadsBack(trail, past) /\ LeadsOn(trail, Len(past) + 1, future)

\* There is one, and it begins where the editor did unless steps were forgotten;
\* the two histories share the room of Depth steps.
Opening == [kept |-> opening, body |-> original]

TrailInv ==
  /\ IsSeq(undo) /\ IsSeq(redo) /\ Len(undo) + Len(redo) <= Depth
  /\ \E trail : Retraces(trail, undo, redo, Now) /\ (~ forgot => trail[1] = Opening)

\* The messages are counted as they are, and only messages are.
BodyInv ==
  /\ body \in [Numbers -> {body[i] : i \in Numbers}]
  /\ edited = {i \in Numbers : body[i] # original[i]}
  /\ cursor \in Numbers /\ editing \subseteq Numbers

\* Nobody leaves while a message is out, or unasked with something to undo.
LeftInv ==
  /\ ended # "no" => editing = Nowhere
  /\ ended = "unasked" => undo = <<>>

EditorInv == TrailInv /\ BodyInv /\ LeftInv

LEMMA EditorStarts == Init => EditorInv
<1> SUFFICES ASSUME Init PROVE EditorInv
  OBVIOUS
<1>1. /\ original \in Opened /\ original # <<>> /\ body = original
      /\ undo = <<>> /\ redo = <<>> /\ opening = kept /\ edited = {}
      /\ editing = Nowhere /\ ended = "no"
      /\ cursor = 1 \/ cursor \in DOMAIN original
  BY DEF Init
<1>2. IsSeq(original)
  BY <1>1, OpenedAssumption DEF IsSeq
<1>3. 1 \in DOMAIN original /\ original \in [Numbers -> {original[i] : i \in Numbers}]
  <2>1. Len(original) \in Nat /\ Len(original) > 0 /\ DOMAIN original = 1 .. Len(original)
    BY <1>1, <1>2, Lengths
  <2>2. original \in [1 .. Len(original) -> ToSet(original)]
    BY <1>2, LenProperties DEF IsSeq
  <2>3. QED
    BY <2>1, <2>2 DEF Numbers
<1>4. BodyInv /\ LeftInv
  BY <1>1, <1>3 DEF BodyInv, LeftInv, Numbers, Nowhere
<1>5. TrailInv
  <2>1. IsSeq(<<>>) /\ Len(<<>>) = 0
    BY EmptySeq DEF IsSeq
  <2>2. Retraces([k \in {1} |-> Now], undo, redo, Now)
    BY <1>1, <2>1 DEF Retraces, LeadsBack, LeadsOn
  <2>3. [k \in {1} |-> Now][1] = Opening
    BY <1>1 DEF Now, Opening
  <2>4. Len(undo) + Len(redo) <= Depth
    BY <1>1, <2>1, DepthAssumption
  <2>5. QED
    BY <1>1, <2>1, <2>2, <2>3, <2>4 DEF TrailInv
<1>6. QED
  BY <1>4, <1>5 DEF EditorInv

(***************************************************************************)
(* Trails, when the histories grow and shrink.                             *)
(***************************************************************************)
\* A change ends the trail in the new state.
Extended(trail, n, next) == [k \in 1 .. n + 2 |-> IF k = n + 2 THEN next ELSE trail[k]]

LEMMA TrailGrows ==
  ASSUME NEW past, IsSeq(past), NEW step, NEW trail, NEW next,
         LeadsBack(trail, past), Undoes(trail[Len(past) + 1], step, next)
  PROVE  /\ Retraces(Extended(trail, Len(past), next), Append(past, step), <<>>, next)
         /\ Extended(trail, Len(past), next)[1] = trail[1]
<1> DEFINE n == Len(past)
           longer == Extended(trail, n, next)
<1>1. /\ n \in Nat /\ Len(Append(past, step)) = n + 1
      /\ \A k \in 1 .. n : Append(past, step)[k] = past[k]
      /\ Append(past, step)[n + 1] = step
  BY Lengths, Appended
<1> HIDE DEF n
<1>2. longer[n + 2] = next /\ \A k \in 1 .. n + 1 : longer[k] = trail[k]
  BY <1>1 DEF Extended
<1>3. longer[1] = trail[1] /\ longer[n + 1] = trail[n + 1]
  BY <1>1, <1>2
<1> HIDE DEF longer
<1>4. ASSUME NEW k \in 1 .. n + 1
      PROVE  Undoes(longer[k], Append(past, step)[k], longer[k + 1])
  <2>1. CASE k = n + 1
    BY <1>1, <1>2, <1>3, <2>1 DEF n
  <2>2. CASE k \in 1 .. n
    <3>1. k + 1 \in 1 .. n + 1 /\ k \in 1 .. n + 1
      BY <1>1, <2>2
    <3>2. QED
      BY <1>1, <1>2, <2>2, <3>1 DEF LeadsBack, n
  <2>3. QED
    BY <1>1, <2>1, <2>2
<1>5. LeadsBack(longer, Append(past, step))
  BY <1>1, <1>4 DEF LeadsBack
<1>6. LeadsOn(longer, n + 2, <<>>)
  BY EmptySeq DEF LeadsOn
<1>7. Retraces(longer, Append(past, step), <<>>, next)
  BY <1>1, <1>2, <1>5, <1>6 DEF Retraces
<1>8. QED
  BY <1>3, <1>7 DEF longer, n

\* The oldest step can be forgotten.
Later(trail, n) == [k \in 1 .. n |-> trail[k + 1]]

LEMMA TrailShrinks ==
  ASSUME NEW past, IsSeq(past), past # <<>>, NEW trail, NEW now,
         trail[Len(past) + 1] = now, LeadsBack(trail, past)
  PROVE  /\ Later(trail, Len(past))[Len(Tail(past)) + 1] = now
         /\ LeadsBack(Later(trail, Len(past)), Tail(past))
<1> DEFINE n == Len(past)
           shorter == Later(trail, n)
<1>1. /\ n \in Nat /\ n > 0 /\ Len(Tail(past)) = n - 1
      /\ \A k \in 1 .. n - 1 : Tail(past)[k] = past[k + 1]
  BY Lengths, Tailed
<1> HIDE DEF n
<1>2. \A k \in 1 .. n : shorter[k] = trail[k + 1]
  BY DEF Later
<1> HIDE DEF shorter
<1>3. shorter[(n - 1) + 1] = now
  BY <1>1, <1>2 DEF n
<1>4. ASSUME NEW k \in 1 .. n - 1
      PROVE  Undoes(shorter[k], Tail(past)[k], shorter[k + 1])
  <2>1. k \in 1 .. n /\ k + 1 \in 1 .. n
    BY <1>1
  <2>2. QED
    BY <1>1, <1>2, <2>1 DEF LeadsBack, n
<1>5. QED
  BY <1>1, <1>3, <1>4 DEF LeadsBack, shorter, n

\* Taking the last step back moves the present one state back on the same trail.
LEMMA TrailBack ==
  ASSUME NEW past, IsSeq(past), past # <<>>, NEW future, IsSeq(future), NEW trail, NEW now,
         Retraces(trail, past, future, now), NEW before, NEW again,
         trail[Len(past)] = before, Redoes(before, again, now)
  PROVE  Retraces(trail, Front(past), Append(future, again), before)
<1> DEFINE n == Len(past)
           m == Len(future)
<1>1. /\ n \in Nat /\ n > 0 /\ Len(Front(past)) = n - 1
      /\ \A k \in 1 .. n - 1 : Front(past)[k] = past[k]
  BY Lengths, Fronted
<1>2. /\ m \in Nat /\ Len(Append(future, again)) = m + 1
      /\ \A k \in 1 .. m : Append(future, again)[k] = future[k]
      /\ Append(future, again)[m + 1] = again
  BY Lengths, Appended
<1>3. /\ trail[n + 1] = now /\ \A k \in 1 .. n : Undoes(trail[k], past[k], trail[k + 1])
      /\ \A k \in 1 .. m : Redoes(trail[(n + 1) + k - 1], future[m + 1 - k], trail[(n + 1) + k])
  BY DEF Retraces, LeadsBack, LeadsOn
<1>4. trail[n] = before
  OBVIOUS
<1> HIDE DEF n, m
<1>5. trail[(n - 1) + 1] = before
  BY <1>1, <1>4
<1>6. \A k \in 1 .. n - 1 : Undoes(trail[k], Front(past)[k], trail[k + 1])
  BY <1>1, <1>3
<1>7. ASSUME NEW k \in 1 .. m + 1
      PROVE  Redoes(trail[((n - 1) + 1) + k - 1], Append(future, again)[(m + 1) + 1 - k],
                    trail[((n - 1) + 1) + k])
  <2>1. CASE k = 1
    <3>1. ((n - 1) + 1) + k - 1 = n /\ (m + 1) + 1 - k = m + 1 /\ ((n - 1) + 1) + k = n + 1
      BY <1>1, <1>2, <2>1
    <3>2. QED
      BY <1>2, <1>3, <1>4, <3>1
  <2>2. CASE k # 1
    <3>1. /\ k - 1 \in 1 .. m /\ (m + 1) + 1 - k = m + 1 - (k - 1) /\ m + 1 - (k - 1) \in 1 .. m
          /\ ((n - 1) + 1) + k - 1 = (n + 1) + (k - 1) - 1
          /\ ((n - 1) + 1) + k = (n + 1) + (k - 1)
      BY <1>1, <1>2, <2>2
    <3>2. QED
      BY <1>2, <1>3, <3>1
  <2>3. QED
    BY <2>1, <2>2
<1>8. QED
  BY <1>1, <1>2, <1>5, <1>6, <1>7 DEF Retraces, LeadsBack, LeadsOn

\* Doing a step again moves it one state on.
LEMMA TrailOn ==
  ASSUME NEW past, IsSeq(past), NEW future, IsSeq(future), future # <<>>, NEW trail, NEW now,
         Retraces(trail, past, future, now), NEW after, NEW back,
         trail[Len(past) + 2] = after, Undoes(now, back, after)
  PROVE  Retraces(trail, Append(past, back), Front(future), after)
<1> DEFINE n == Len(past)
           m == Len(future)
<1>1. /\ n \in Nat /\ Len(Append(past, back)) = n + 1
      /\ \A k \in 1 .. n : Append(past, back)[k] = past[k]
      /\ Append(past, back)[n + 1] = back
  BY Lengths, Appended
<1>2. /\ m \in Nat /\ m > 0 /\ Len(Front(future)) = m - 1
      /\ \A k \in 1 .. m - 1 : Front(future)[k] = future[k]
  BY Lengths, Fronted
<1>3. /\ trail[n + 1] = now /\ \A k \in 1 .. n : Undoes(trail[k], past[k], trail[k + 1])
      /\ \A k \in 1 .. m : Redoes(trail[(n + 1) + k - 1], future[m + 1 - k], trail[(n + 1) + k])
  BY DEF Retraces, LeadsBack, LeadsOn
<1>4. trail[n + 2] = after
  OBVIOUS
<1> HIDE DEF n, m
<1>5. trail[(n + 1) + 1] = after
  BY <1>1, <1>4
<1>6. ASSUME NEW k \in 1 .. n + 1
      PROVE  Undoes(trail[k], Append(past, back)[k], trail[k + 1])
  <2>1. CASE k = n + 1
    BY <1>1, <1>3, <1>5, <2>1
  <2>2. CASE k \in 1 .. n
    BY <1>1, <1>3, <2>2
  <2>3. QED
    BY <1>1, <2>1, <2>2
<1>7. ASSUME NEW k \in 1 .. m - 1
      PROVE  Redoes(trail[((n + 1) + 1) + k - 1], Front(future)[(m - 1) + 1 - k],
                    trail[((n + 1) + 1) + k])
  <2>1. /\ k + 1 \in 1 .. m /\ (m - 1) + 1 - k = m + 1 - (k + 1) /\ m + 1 - (k + 1) \in 1 .. m - 1
        /\ ((n + 1) + 1) + k - 1 = (n + 1) + (k + 1) - 1
        /\ ((n + 1) + 1) + k = (n + 1) + (k + 1)
    BY <1>1, <1>2
  <2>2. QED
    BY <1>2, <1>3, <2>1
<1>8. QED
  BY <1>1, <1>2, <1>5, <1>6, <1>7 DEF Retraces, LeadsBack, LeadsOn

(***************************************************************************)
(* The parts of the invariant under the steps of the editor.               *)
(***************************************************************************)
LEMMA NowIsAState == IsState(Now) /\ Now.kept = kept /\ Now.body = body
BY DEF IsState, Now

LEMMA HistoryKept ==
  ASSUME TrailInv, UNCHANGED <<undo, redo, kept, body, forgot, original, opening>>
  PROVE  TrailInv'
BY DEF TrailInv, Now, Opening

\* The trail a change leaves: the states up to the present one and the new one,
\* without the oldest when there is no room for it.
Remembered(trail, next) ==
  IF Len(undo) < Depth THEN Extended(trail, Len(undo), next)
  ELSE Extended(Later(trail, Len(undo)), Len(undo) - 1, next)

LEMMA RecordTrail ==
  ASSUME TrailInv, NEW step, Record(step), Undoes(Now, step, Now'),
         NEW trail, Retraces(trail, undo, redo, Now)
  PROVE  /\ Retraces(Remembered(trail, Now'), undo', redo', Now')
         /\ IsSeq(undo') /\ redo' = <<>>
         /\ Len(undo') = IF Len(undo) < Depth THEN Len(undo) + 1 ELSE Len(undo)
         /\ ~ forgot' => ~ forgot /\ Remembered(trail, Now')[1] = trail[1]
<1>1. /\ trail[Len(undo) + 1] = Now /\ LeadsBack(trail, undo)
      /\ IsSeq(undo) /\ Len(undo) \in Nat /\ redo' = <<>>
  BY Lengths DEF Retraces, TrailInv, Record
<1>2. CASE Len(undo) < Depth
  <2>1. undo' = Append(undo, step) /\ (~ forgot' => ~ forgot)
    BY <1>2 DEF Record
  <2>2. IsSeq(undo') /\ Len(undo') = Len(undo) + 1
    BY <1>1, <2>1, Appended
  <2>3. /\ Retraces(Extended(trail, Len(undo), Now'), undo', <<>>, Now')
        /\ Extended(trail, Len(undo), Now')[1] = trail[1]
    BY <1>1, <2>1, TrailGrows
  <2>4. QED
    BY <1>1, <1>2, <2>1, <2>2, <2>3 DEF Remembered
<1>3. CASE ~ (Len(undo) < Depth)
  <2>1. undo # <<>> /\ forgot'
    <3>1. Len(undo) >= Depth /\ Len(undo) # 0
      BY <1>1, <1>3, DepthAssumption
    <3>2. undo # <<>>
      BY <3>1, EmptySeq
    <3>3. forgot'
      BY <3>1 DEF Record
    <3>4. QED
      BY <3>2, <3>3
  <2>2. /\ undo' = Append(Tail(undo), step) /\ IsSeq(Tail(undo))
        /\ Len(Tail(undo)) = Len(undo) - 1
    BY <1>1, <1>3, <2>1, Tailed DEF Record
  <2>3. IsSeq(undo') /\ Len(undo') = (Len(undo) - 1) + 1
    BY <2>2, Appended
  <2>4. /\ Later(trail, Len(undo))[Len(Tail(undo)) + 1] = Now
        /\ LeadsBack(Later(trail, Len(undo)), Tail(undo))
    BY <1>1, <2>1, TrailShrinks
  <2>5. Retraces(Extended(Later(trail, Len(undo)), Len(Tail(undo)), Now'), undo', <<>>, Now')
    <3>1. Undoes(Later(trail, Len(undo))[Len(Tail(undo)) + 1], step, Now')
      BY <2>4
    <3>2. QED
      BY <2>2, <2>4, <3>1, TrailGrows
  <2>6. Len(undo') = Len(undo)
    BY <1>1, <2>3
  <2>7. QED
    BY <1>1, <1>3, <2>1, <2>2, <2>3, <2>5, <2>6 DEF Remembered
<1>4. QED
  BY <1>2, <1>3

LEMMA RecordKeeps ==
  ASSUME TrailInv, NEW step, Record(step), Undoes(Now, step, Now'), UNCHANGED fixed
  PROVE  TrailInv'
<1>1. PICK trail : Retraces(trail, undo, redo, Now) /\ (~ forgot => trail[1] = Opening)
  BY DEF TrailInv
<1>2. Opening' = Opening
  BY DEF fixed, Opening
<1>3. /\ Retraces(Remembered(trail, Now'), undo', redo', Now')
      /\ IsSeq(undo') /\ redo' = <<>>
      /\ Len(undo') = IF Len(undo) < Depth THEN Len(undo) + 1 ELSE Len(undo)
      /\ ~ forgot' => ~ forgot /\ Remembered(trail, Now')[1] = trail[1]
  BY <1>1, RecordTrail
<1>4. IsSeq(<<>>) /\ Len(<<>>) = 0
  BY EmptySeq DEF IsSeq
<1>5. Len(undo') + Len(redo') <= Depth
  <2>1. Len(undo) \in Nat /\ Len(redo) \in Nat /\ Len(undo) + Len(redo) <= Depth
    BY Lengths DEF TrailInv
  <2>2. QED
    BY <1>3, <1>4, <2>1, DepthAssumption
<1>6. QED
  BY <1>1, <1>2, <1>3, <1>4, <1>5 DEF TrailInv

LEMMA PutKeeps ==
  ASSUME BodyInv, NEW i \in Numbers, NEW message, PutMessage(i, message), UNCHANGED fixed
  PROVE  /\ body' = [body EXCEPT ![i] = message]
         /\ body' \in [Numbers -> {body'[j] : j \in Numbers}]
         /\ edited' = {j \in Numbers : body'[j] # original[j]}
<1>1. body' = [body EXCEPT ![i] = message] /\ body \in [Numbers -> {body[j] : j \in Numbers}]
  BY DEF BodyInv, PutMessage
<1>2. body' = [j \in Numbers |-> IF j = i THEN message ELSE body[j]]
  BY <1>1
<1>3. /\ body'[i] = message
      /\ \A j \in Numbers : j # i => body'[j] = body[j]
  BY <1>2
<1>4. edited = {j \in Numbers : body[j] # original[j]}
  BY DEF BodyInv
<1>5. edited' = IF message = original[i] THEN edited \ {i} ELSE edited \cup {i}
  BY DEF PutMessage
<1>6. edited' = {j \in Numbers : body'[j] # original[j]}
  BY <1>3, <1>4, <1>5
<1>7. QED
  BY <1>1, <1>2, <1>6

(***************************************************************************)
(* The steps that change the session.                                      *)
(***************************************************************************)
LEMMA SelectionKeeps ==
  ASSUME EditorInv, NEW next, OnSelection(next)
  PROVE  EditorInv'
<1>1. /\ UNCHANGED fixed /\ ended = "no" /\ editing = Nowhere
      /\ UNCHANGED <<editing, ended, cursor, body, edited>> /\ kept' = next
  BY DEF OnSelection, Key, Disarmed, Commit
<1>2. BodyInv' /\ LeftInv'
  BY <1>1 DEF EditorInv, BodyInv, LeftInv, Numbers, fixed
<1>3. TrailInv'
  <2>1. CASE next = kept
    BY <1>1, <2>1, HistoryKept DEF EditorInv, OnSelection, Commit, fixed
  <2>2. CASE next # kept
    <3>1. Record(KeptStep(kept))
      BY <2>2 DEF OnSelection, Commit
    <3>2. Undoes(Now, KeptStep(kept), Now')
      BY <1>1, NowIsAState DEF Undoes, KeptStep, Now
    <3>3. QED
      BY <1>1, <3>1, <3>2, RecordKeeps DEF EditorInv
  <2>3. QED
    BY <2>1, <2>2
<1>4. QED
  BY <1>2, <1>3 DEF EditorInv

LEMMA TakeBackTrail ==
  ASSUME EditorInv, TakeBack, NEW trail, Retraces(trail, undo, redo, Now)
  PROVE  /\ Retraces(trail, undo', redo', Now')
         /\ IsSeq(undo') /\ Len(undo) \in Nat \ {0} /\ Len(undo') = Len(undo) - 1
         /\ IsSeq(redo') /\ Len(redo) \in Nat /\ Len(redo') = Len(redo) + 1
         /\ \/ UNCHANGED <<body, edited>>
            \/ /\ undo[Len(undo)].at \in Numbers
               /\ PutMessage(undo[Len(undo)].at, undo[Len(undo)].before)
<1> DEFINE step == undo[Len(undo)]
<1>1. /\ UNCHANGED fixed /\ ended = "no" /\ editing = Nowhere /\ undo # <<>>
      /\ UNCHANGED <<editing, ended, cursor, forgot>> /\ undo' = Front(undo)
  BY DEF TakeBack, Key, Disarmed
<1>2. IsSeq(undo) /\ IsSeq(redo) /\ Len(undo) \in Nat /\ Len(undo) > 0
  BY <1>1, Lengths DEF EditorInv, TrailInv
<1> DEFINE before == trail[Len(undo)]
<1>4. Undoes(before, step, Now)
  BY <1>2 DEF Retraces, LeadsBack
<1>5. PICK again : /\ redo' = Append(redo, again) /\ Redoes(before, again, Now)
                   /\ before = Now'
                   /\ \/ UNCHANGED <<body, edited>>
                      \/ step.at \in Numbers /\ PutMessage(step.at, step.before)
  <2>1. CASE step.kind = "kept"
    <3>1. /\ kept' = step.kept /\ redo' = Append(redo, KeptStep(kept))
          /\ UNCHANGED <<body, edited>>
      BY <2>1 DEF TakeBack
    <3>2. IsState(before) /\ before.kept = step.kept /\ before.body = body
      BY <1>4, <2>1, NowIsAState DEF Undoes, Rewrites
    <3>3. before = Now'
      BY <3>1, <3>2 DEF Now, IsState
    <3>4. Redoes(before, KeptStep(kept), Now)
      BY <3>2, NowIsAState DEF Redoes, KeptStep
    <3>5. QED
      BY <3>1, <3>3, <3>4
  <2>2. CASE step.kind = "message"
    <3>1. /\ PutMessage(step.at, step.before) /\ redo' = Append(redo, step) /\ kept' = kept
      BY <2>2 DEF TakeBack
    <3>2. IsState(before) /\ Rewrites(before, step, Now)
      BY <1>4, <2>2 DEF Undoes
    <3>3. step.at \in Numbers
      BY <3>2, NowIsAState DEF Rewrites, EditorInv, BodyInv
    <3>4. body' = [body EXCEPT ![step.at] = step.before]
      BY <3>1 DEF PutMessage
    <3>5. before = Now'
      BY <3>1, <3>2, <3>4, NowIsAState DEF Rewrites, Now, IsState
    <3>6. QED
      BY <3>1, <3>2, <3>3, <3>5, NowIsAState DEF Redoes
  <2>3. QED
    BY <2>1, <2>2 DEF TakeBack
<1>6. Retraces(trail, Front(undo), Append(redo, again), before)
  BY <1>1, <1>2, <1>5, TrailBack
<1>7. /\ IsSeq(undo') /\ Len(undo') = Len(undo) - 1
      /\ IsSeq(redo') /\ Len(redo) \in Nat /\ Len(redo') = Len(redo) + 1
  BY <1>1, <1>2, <1>5, Fronted, Appended, Lengths
<1>8. QED
  BY <1>1, <1>2, <1>5, <1>6, <1>7

LEMMA TakeBackKeeps ==
  ASSUME EditorInv, TakeBack
  PROVE  EditorInv'
<1>1. /\ UNCHANGED fixed /\ ended = "no" /\ editing = Nowhere
      /\ UNCHANGED <<editing, ended, cursor, forgot>>
  BY DEF TakeBack, Key, Disarmed
<1>2. PICK trail : Retraces(trail, undo, redo, Now) /\ (~ forgot => trail[1] = Opening)
  BY DEF EditorInv, TrailInv
<1>3. /\ Retraces(trail, undo', redo', Now')
      /\ IsSeq(undo') /\ Len(undo) \in Nat \ {0} /\ Len(undo') = Len(undo) - 1
      /\ IsSeq(redo') /\ Len(redo) \in Nat /\ Len(redo') = Len(redo) + 1
      /\ \/ UNCHANGED <<body, edited>>
         \/ /\ undo[Len(undo)].at \in Numbers
            /\ PutMessage(undo[Len(undo)].at, undo[Len(undo)].before)
  BY <1>2, TakeBackTrail
<1>4. TrailInv'
  <2>1. Opening' = Opening
    BY <1>1 DEF fixed, Opening
  <2>2. Len(undo') + Len(redo') <= Depth
    BY <1>3, DepthAssumption DEF EditorInv, TrailInv
  <2>3. QED
    BY <1>1, <1>2, <1>3, <2>1, <2>2 DEF TrailInv
<1>5. BodyInv'
  BY <1>1, <1>3, PutKeeps DEF EditorInv, BodyInv, Numbers, fixed
<1>6. LeftInv'
  BY <1>1 DEF LeftInv
<1>7. QED
  BY <1>4, <1>5, <1>6 DEF EditorInv

LEMMA DoAgainTrail ==
  ASSUME EditorInv, DoAgain, NEW trail, Retraces(trail, undo, redo, Now)
  PROVE  /\ Retraces(trail, undo', redo', Now')
         /\ IsSeq(undo') /\ Len(undo) \in Nat /\ Len(undo') = Len(undo) + 1
         /\ IsSeq(redo') /\ Len(redo) \in Nat \ {0} /\ Len(redo') = Len(redo) - 1
         /\ \/ UNCHANGED <<body, edited>>
            \/ /\ redo[Len(redo)].at \in Numbers
               /\ PutMessage(redo[Len(redo)].at, redo[Len(redo)].after)
<1> DEFINE step == redo[Len(redo)]
<1>1. /\ UNCHANGED fixed /\ ended = "no" /\ editing = Nowhere /\ redo # <<>>
      /\ UNCHANGED <<editing, ended, cursor, forgot>> /\ redo' = Front(redo)
  BY DEF DoAgain, Key, Disarmed
<1>2. /\ IsSeq(undo) /\ IsSeq(redo) /\ Len(undo) \in Nat
      /\ Len(redo) \in Nat /\ Len(redo) > 0
  BY <1>1, Lengths DEF EditorInv, TrailInv
<1> DEFINE after == trail[Len(undo) + 2]
<1>4. Redoes(Now, step, after)
  <2>1. /\ 1 \in 1 .. Len(redo) /\ Len(redo) + 1 - 1 = Len(redo)
        /\ (Len(undo) + 1) + 1 - 1 = Len(undo) + 1 /\ (Len(undo) + 1) + 1 = Len(undo) + 2
    BY <1>2
  <2>2. trail[Len(undo) + 1] = Now
    BY DEF Retraces
  <2>3. QED
    BY <2>1, <2>2 DEF Retraces, LeadsOn
<1>5. PICK back : /\ undo' = Append(undo, back) /\ Undoes(Now, back, after)
                  /\ after = Now'
                  /\ \/ UNCHANGED <<body, edited>>
                     \/ step.at \in Numbers /\ PutMessage(step.at, step.after)
  <2>1. CASE step.kind = "kept"
    <3>1. /\ kept' = step.kept /\ undo' = Append(undo, KeptStep(kept))
          /\ UNCHANGED <<body, edited>>
      BY <2>1 DEF DoAgain
    <3>2. IsState(after) /\ after.kept = step.kept /\ after.body = body
      BY <1>4, <2>1, NowIsAState DEF Redoes, Rewrites
    <3>3. after = Now'
      BY <3>1, <3>2 DEF Now, IsState
    <3>4. Undoes(Now, KeptStep(kept), after)
      BY <3>2, NowIsAState DEF Undoes, KeptStep
    <3>5. QED
      BY <3>1, <3>3, <3>4
  <2>2. CASE step.kind = "message"
    <3>1. /\ PutMessage(step.at, step.after) /\ undo' = Append(undo, step) /\ kept' = kept
      BY <2>2 DEF DoAgain
    <3>2. IsState(after) /\ Rewrites(Now, step, after)
      BY <1>4, <2>2 DEF Redoes
    <3>3. step.at \in Numbers
      <4>1. DOMAIN after.body = DOMAIN body
        BY <3>2, NowIsAState DEF Rewrites
      <4>2. QED
        BY <3>2, <4>1 DEF Rewrites, EditorInv, BodyInv
    <3>4. body' = [body EXCEPT ![step.at] = step.after]
      BY <3>1 DEF PutMessage
    <3>5. after = Now'
      BY <3>1, <3>2, <3>4, NowIsAState DEF Rewrites, Now, IsState
    <3>6. QED
      BY <3>1, <3>2, <3>3, <3>5, NowIsAState DEF Undoes
  <2>3. QED
    BY <2>1, <2>2 DEF DoAgain
<1>6. Retraces(trail, Append(undo, back), Front(redo), after)
  BY <1>1, <1>2, <1>5, TrailOn
<1>7. /\ IsSeq(undo') /\ Len(undo') = Len(undo) + 1
      /\ IsSeq(redo') /\ Len(redo') = Len(redo) - 1
  BY <1>1, <1>2, <1>5, Fronted, Appended
<1>8. QED
  BY <1>1, <1>2, <1>5, <1>6, <1>7

LEMMA DoAgainKeeps ==
  ASSUME EditorInv, DoAgain
  PROVE  EditorInv'
<1>1. /\ UNCHANGED fixed /\ ended = "no" /\ editing = Nowhere
      /\ UNCHANGED <<editing, ended, cursor, forgot>>
  BY DEF DoAgain, Key, Disarmed
<1>2. PICK trail : Retraces(trail, undo, redo, Now) /\ (~ forgot => trail[1] = Opening)
  BY DEF EditorInv, TrailInv
<1>3. /\ Retraces(trail, undo', redo', Now')
      /\ IsSeq(undo') /\ Len(undo) \in Nat /\ Len(undo') = Len(undo) + 1
      /\ IsSeq(redo') /\ Len(redo) \in Nat \ {0} /\ Len(redo') = Len(redo) - 1
      /\ \/ UNCHANGED <<body, edited>>
         \/ /\ redo[Len(redo)].at \in Numbers
            /\ PutMessage(redo[Len(redo)].at, redo[Len(redo)].after)
  BY <1>2, DoAgainTrail
<1>4. TrailInv'
  <2>1. Opening' = Opening
    BY <1>1 DEF fixed, Opening
  <2>2. Len(undo') + Len(redo') <= Depth
    BY <1>3, DepthAssumption DEF EditorInv, TrailInv
  <2>3. QED
    BY <1>1, <1>2, <1>3, <2>1, <2>2 DEF TrailInv
<1>5. BodyInv'
  BY <1>1, <1>3, PutKeeps DEF EditorInv, BodyInv, Numbers, fixed
<1>6. LeftInv'
  BY <1>1 DEF LeftInv
<1>7. QED
  BY <1>4, <1>5, <1>6 DEF EditorInv

LEMMA RewriteIsUndone ==
  ASSUME EditorInv, NEW i \in Numbers, NEW after, PutMessage(i, after), UNCHANGED <<fixed, kept>>
  PROVE  Undoes(Now, MessageStep(i, body[i], after), Now')
<1>1. body' = [body EXCEPT ![i] = after] /\ body \in [Numbers -> {body[j] : j \in Numbers}]
  BY DEF PutMessage, EditorInv, BodyInv
<1>2. body = [body' EXCEPT ![i] = body[i]] /\ i \in DOMAIN body'
  BY <1>1
<1>3. Rewrites(Now, MessageStep(i, body[i], after), Now')
  BY <1>1, <1>2 DEF Rewrites, MessageStep, Now
<1>4. QED
  BY <1>3, NowIsAState DEF Undoes

LEMMA ConcludeKeeps ==
  ASSUME EditorInv, ConcludeEdit
  PROVE  EditorInv'
<1>1. PICK i \in editing : \E after \in Applied(body[i]) :
             Record(MessageStep(i, body[i], after)) /\ PutMessage(i, after)
  BY DEF ConcludeEdit
<1> PICK after : Record(MessageStep(i, body[i], after)) /\ PutMessage(i, after)
  BY <1>1
<1>2. UNCHANGED <<fixed, kept, cursor, ended>> /\ editing' = Nowhere /\ i \in Numbers
  BY DEF ConcludeEdit, selection, EditorInv, BodyInv
<1>3. /\ body' = [body EXCEPT ![i] = after]
      /\ body' \in [Numbers -> {body'[j] : j \in Numbers}]
      /\ edited' = {j \in Numbers : body'[j] # original[j]}
  BY <1>1, <1>2, PutKeeps DEF EditorInv
<1>4. Undoes(Now, MessageStep(i, body[i], after), Now')
  BY <1>1, <1>2, RewriteIsUndone
<1>5. TrailInv'
  BY <1>1, <1>2, <1>4, RecordKeeps DEF EditorInv
<1>6. BodyInv'
  BY <1>2, <1>3 DEF EditorInv, BodyInv, Numbers, fixed, Nowhere
<1>7. LeftInv'
  BY <1>1, <1>2 DEF EditorInv, LeftInv, Nowhere
<1>8. QED
  BY <1>5, <1>6, <1>7 DEF EditorInv

\* The steps that change nothing of the session.
LEMMA OthersKeep ==
  ASSUME EditorInv, UNCHANGED <<fixed, session>>, cursor' \in Numbers, editing' \subseteq Numbers,
         LeftInv'
  PROVE  EditorInv'
<1>1. TrailInv'
  BY HistoryKept DEF EditorInv, fixed, session
<1>2. BodyInv'
  BY DEF EditorInv, BodyInv, Numbers, fixed, session
<1>3. QED
  BY <1>1, <1>2 DEF EditorInv

(***************************************************************************)
(* Trail is the trail the invariant speaks of.                             *)
(***************************************************************************)
\* Every set of numbers has a least one: what induction over numbers rests on.
LEMMA LeastNumber ==
  ASSUME NEW T, T \subseteq Nat, T # {}
  PROVE  \E m \in T : \A k \in T : m <= k
<1> DEFINE R == OpToRel(<, Nat)
<1>1. IsWellFoundedOn(R, Nat)
  BY NatLessThanWellFounded
<1>2. \A x, y \in Nat : x < y => <<x, y>> \in R
  BY DEF OpToRel
<1> HIDE DEF R
<1>3. PICK x \in T : \A y \in T : ~ (<<y, x>> \in R)
  BY <1>1, WFMin
<1>4. ASSUME NEW k \in T, ~ (x <= k) PROVE FALSE
  <2>1. k \in Nat /\ x \in Nat /\ k < x
    BY <1>4
  <2>2. QED
    BY <1>2, <1>3, <2>1
<1>5. QED
  BY <1>4

\* A step leads from a state to the one before it, and to the one after it.
LEMMA StepsLead ==
  ASSUME NEW a, NEW step, NEW b, IsState(a), IsState(b)
  PROVE  /\ Undoes(a, step, b) => StepBack(b, step) = a
         /\ Redoes(a, step, b) => StepOn(a, step) = b
<1>1. b = [kept |-> b.kept, body |-> b.body] /\ a = [kept |-> a.kept, body |-> a.body]
  BY DEF IsState
<1>2. ASSUME Undoes(a, step, b) PROVE StepBack(b, step) = a
  <2>1. CASE step.kind = "kept"
    <3>1. a.kept = step.kept /\ a.body = b.body
      BY <1>2, <2>1 DEF Undoes, Rewrites
    <3>2. StepBack(b, step) = [kept |-> step.kept, body |-> b.body]
      BY <1>1, <2>1 DEF StepBack
    <3>3. QED
      BY <1>1, <3>1, <3>2
  <2>2. CASE step.kind # "kept"
    <3>1. a.kept = b.kept /\ a.body = [b.body EXCEPT ![step.at] = step.before]
      BY <1>2, <2>2 DEF Undoes, Rewrites
    <3>2. StepBack(b, step) = [kept |-> b.kept, body |-> [b.body EXCEPT ![step.at] = step.before]]
      BY <1>1, <2>2 DEF StepBack
    <3>3. QED
      BY <1>1, <3>1, <3>2
  <2>3. QED
    BY <2>1, <2>2
<1>3. ASSUME Redoes(a, step, b) PROVE StepOn(a, step) = b
  <2>1. CASE step.kind = "kept"
    <3>1. b.kept = step.kept /\ a.body = b.body
      BY <1>3, <2>1 DEF Redoes, Rewrites
    <3>2. StepOn(a, step) = [kept |-> step.kept, body |-> a.body]
      BY <1>1, <2>1 DEF StepOn
    <3>3. QED
      BY <1>1, <3>1, <3>2
  <2>2. CASE step.kind # "kept"
    <3>1. a.kept = b.kept /\ b.body = [a.body EXCEPT ![step.at] = step.after]
      BY <1>3, <2>2 DEF Redoes, Rewrites
    <3>2. StepOn(a, step) = [kept |-> a.kept, body |-> [a.body EXCEPT ![step.at] = step.after]]
      BY <1>1, <2>2 DEF StepOn
    <3>3. QED
      BY <1>1, <3>1, <3>2
  <2>3. QED
    BY <2>1, <2>2
<1>4. QED
  BY <1>2, <1>3

\* So going back along the steps is going back along the trail,
LEMMA BackAlongTrail ==
  ASSUME NEW past, IsSeq(past), NEW trail, LeadsBack(trail, past),
         NEW now, IsState(now), trail[Len(past) + 1] = now
  PROVE  \A k \in 0 .. Len(past) : Backward(now, past)[k] = trail[Len(past) + 1 - k]
<1> DEFINE n == Len(past)
           Next1(state, k) == IF k = 0 THEN now ELSE StepBack(state[k - 1], past[n + 1 - k])
           back == [k \in 0 .. n |-> trail[n + 1 - k]]
           state == CHOOSE f : f = [k \in 0 .. n |-> Next1(f, k)]
<1>1. n \in Nat
  BY Lengths
<1>2. Backward(now, past) = state
  BY DEF Backward
<1>3. \A k \in 1 .. n : Undoes(trail[k], past[k], trail[k + 1])
  BY DEF LeadsBack
<1>4. trail[n + 1] = now
  OBVIOUS
<1> HIDE DEF n, state
<1>5. \A k \in 1 .. n + 1 : IsState(trail[k])
  <2>1. \A k \in 1 .. n : IsState(trail[k])
    BY <1>3 DEF Undoes
  <2>2. QED
    BY <1>1, <1>4, <2>1
<1>6. ASSUME NEW k \in 1 .. n
      PROVE  StepBack(trail[n + 1 - (k - 1)], past[n + 1 - k]) = trail[n + 1 - k]
  <2>1. n + 1 - k \in 1 .. n /\ n + 1 - k \in 1 .. n + 1
        /\ n + 1 - (k - 1) = (n + 1 - k) + 1 /\ (n + 1 - k) + 1 \in 1 .. n + 1
    BY <1>1
  <2>2. Undoes(trail[n + 1 - k], past[n + 1 - k], trail[(n + 1 - k) + 1])
    BY <1>3, <2>1
  <2>3. QED
    BY <1>5, <2>1, <2>2, StepsLead
<1>7. back = [k \in 0 .. n |-> Next1(back, k)]
  <2>1. ASSUME NEW k \in 0 .. n PROVE back[k] = Next1(back, k)
    <3>1. CASE k = 0
      BY <1>1, <1>4, <3>1
    <3>2. CASE k # 0
      <4>1. k \in 1 .. n /\ k - 1 \in 0 .. n
        BY <1>1, <3>2
      <4>2. back[k - 1] = trail[n + 1 - (k - 1)] /\ back[k] = trail[n + 1 - k]
        BY <4>1
      <4>3. QED
        BY <1>6, <3>2, <4>1, <4>2
    <3>3. QED
      BY <3>1, <3>2
  <2>2. QED
    BY <2>1
<1>8. state = [k \in 0 .. n |-> Next1(state, k)]
  <2> HIDE DEF back, Next1
  <2>1. QED
    BY <1>7 DEF state
<1> DEFINE Off == {k \in 0 .. n : state[k] # trail[n + 1 - k]}
<1>9. ASSUME Off # {} PROVE FALSE
  <2>1. PICK k \in Off : \A j \in Off : k <= j
    <3>1. Off \subseteq Nat
      BY <1>1
    <3> HIDE DEF Off
    <3>2. QED
      BY <1>9, <3>1, LeastNumber
  <2>2. k \in 0 .. n /\ state[k] = Next1(state, k)
    BY <1>8
  <2>3. CASE k = 0
    BY <1>1, <1>4, <2>1, <2>2, <2>3
  <2>4. CASE k # 0
    <3>1. k \in 1 .. n /\ k - 1 \in 0 .. n /\ ~ (k <= k - 1)
      BY <1>1, <2>2, <2>4
    <3>2. state[k - 1] = trail[n + 1 - (k - 1)]
      BY <2>1, <3>1
    <3>3. QED
      BY <1>6, <2>1, <2>2, <2>4, <3>1, <3>2
  <2>5. QED
    BY <2>3, <2>4
<1>10. QED
  BY <1>2, <1>9 DEF n

\* and going on along them is going on along it.
LEMMA OnAlongTrail ==
  ASSUME NEW n \in Nat, NEW future, IsSeq(future), NEW trail, LeadsOn(trail, n, future),
         NEW now, IsState(now), trail[n] = now
  PROVE  \A k \in 0 .. Len(future) : Onward(now, future)[k] = trail[n + k]
<1> DEFINE m == Len(future)
           Next1(state, k) == IF k = 0 THEN now ELSE StepOn(state[k - 1], future[m + 1 - k])
           on == [k \in 0 .. m |-> trail[n + k]]
           state == CHOOSE f : f = [k \in 0 .. m |-> Next1(f, k)]
<1>1. m \in Nat
  BY Lengths
<1>2. Onward(now, future) = state
  BY DEF Onward
<1>3. \A k \in 1 .. m : Redoes(trail[n + k - 1], future[m + 1 - k], trail[n + k])
  BY DEF LeadsOn
<1> HIDE DEF m, state
<1>4. \A k \in 0 .. m : IsState(trail[n + k])
  <2>1. \A k \in 1 .. m : IsState(trail[n + k])
    BY <1>3 DEF Redoes
  <2>2. n + 0 = n
    OBVIOUS
  <2>3. QED
    BY <1>1, <2>1, <2>2
<1>5. ASSUME NEW k \in 1 .. m
      PROVE  StepOn(trail[n + (k - 1)], future[m + 1 - k]) = trail[n + k]
  <2>1. k - 1 \in 0 .. m /\ k \in 0 .. m /\ n + k - 1 = n + (k - 1)
    BY <1>1
  <2>2. Redoes(trail[n + (k - 1)], future[m + 1 - k], trail[n + k])
    BY <1>3, <2>1
  <2>3. QED
    BY <1>4, <2>1, <2>2, StepsLead
<1>6. on = [k \in 0 .. m |-> Next1(on, k)]
  <2>1. ASSUME NEW k \in 0 .. m PROVE on[k] = Next1(on, k)
    <3>1. CASE k = 0
      BY <1>1, <3>1
    <3>2. CASE k # 0
      <4>1. k \in 1 .. m /\ k - 1 \in 0 .. m
        BY <1>1, <3>2
      <4>2. on[k - 1] = trail[n + (k - 1)] /\ on[k] = trail[n + k]
        BY <4>1
      <4>3. QED
        BY <1>5, <3>2, <4>1, <4>2
    <3>3. QED
      BY <3>1, <3>2
  <2>2. QED
    BY <2>1
<1>7. state = [k \in 0 .. m |-> Next1(state, k)]
  <2> HIDE DEF on, Next1
  <2>1. QED
    BY <1>6 DEF state
<1> DEFINE Off == {k \in 0 .. m : state[k] # trail[n + k]}
<1>8. ASSUME Off # {} PROVE FALSE
  <2>1. PICK k \in Off : \A j \in Off : k <= j
    <3>1. Off \subseteq Nat
      BY <1>1
    <3> HIDE DEF Off
    <3>2. QED
      BY <1>8, <3>1, LeastNumber
  <2>2. k \in 0 .. m /\ state[k] = Next1(state, k)
    BY <1>7
  <2>3. CASE k = 0
    BY <1>1, <2>1, <2>2, <2>3
  <2>4. CASE k # 0
    <3>1. k \in 1 .. m /\ k - 1 \in 0 .. m /\ ~ (k <= k - 1)
      BY <1>1, <2>2, <2>4
    <3>2. state[k - 1] = trail[n + (k - 1)]
      BY <2>1, <3>1
    <3>3. QED
      BY <1>5, <2>1, <2>2, <2>4, <3>1, <3>2
  <2>5. QED
    BY <2>3, <2>4
<1>9. QED
  BY <1>2, <1>8 DEF m

LEMMA TrailIsTheTrail ==
  ASSUME NEW past, IsSeq(past), NEW future, IsSeq(future), NEW now, IsState(now),
         NEW trail, Retraces(trail, past, future, now)
  PROVE  /\ Len(past) \in Nat /\ Len(future) \in Nat
         /\ TrailOf(past, now, future) = [k \in 1 .. Len(past) + 1 + Len(future) |-> trail[k]]
<1> DEFINE n == Len(past) + 1
           m == Len(future)
<1>1. Len(past) \in Nat /\ n \in Nat /\ m \in Nat
  BY Lengths
<1>2. \A k \in 0 .. Len(past) : Backward(now, past)[k] = trail[n - k]
  BY BackAlongTrail DEF Retraces
<1>3. \A k \in 0 .. m : Onward(now, future)[k] = trail[n + k]
  BY <1>1, OnAlongTrail DEF Retraces
<1>4. TrailOf(past, now, future)
        = [k \in 1 .. n + m |-> IF k <= n THEN Backward(now, past)[n - k] ELSE Onward(now, future)[k - n]]
  BY DEF TrailOf
<1>5. Len(past) = n - 1
  BY <1>1
<1> HIDE DEF n, m
<1>6. ASSUME NEW k \in 1 .. n + m
      PROVE  (IF k <= n THEN Backward(now, past)[n - k] ELSE Onward(now, future)[k - n]) = trail[k]
  <2>1. CASE k <= n
    <3>1. n - k \in 0 .. Len(past) /\ n - (n - k) = k
      BY <1>1, <1>5, <2>1
    <3>2. QED
      BY <1>2, <2>1, <3>1
  <2>2. CASE ~ (k <= n)
    <3>1. k - n \in 0 .. m /\ n + (k - n) = k
      BY <1>1, <2>2
    <3>2. QED
      BY <1>3, <2>2, <3>1
  <2>3. QED
    BY <2>1, <2>2
<1>7. QED
  BY <1>1, <1>4, <1>6 DEF n, m

(***************************************************************************)
(* The histories as one line of states.                                    *)
(***************************************************************************)
LEMMA AsFunction ==
  ASSUME NEW s, IsSeq(s)
  PROVE  s = [k \in 1 .. Len(s) |-> s[k]]
<1>1. s \in [1 .. Len(s) -> ToSet(s)]
  BY LenProperties DEF IsSeq
<1>2. QED
  BY <1>1

LEMMA AsSequence ==
  ASSUME NEW n \in Nat, NEW f
  PROVE  IsSeq([k \in 1 .. n |-> f[k]]) /\ Len([k \in 1 .. n |-> f[k]]) = n
<1> DEFINE s == [k \in 1 .. n |-> f[k]]
           S == {f[k] : k \in 1 .. n}
<1>1. s \in [1 .. n -> S]
  OBVIOUS
<1>2. s \in Seq(S)
  BY <1>1, SeqDef
<1>3. Len(s) = n
  <2>1. DOMAIN s = 1 .. n /\ DOMAIN s = 1 .. Len(s) /\ Len(s) \in Nat
    BY <1>2, LenProperties
  <2> HIDE DEF s
  <2>2. QED
    BY <2>1
<1>4. QED
  BY <1>2, <1>3, OwnMembers

LEMMA PartOf ==
  ASSUME NEW s, IsSeq(s), NEW a \in Nat \ {0}, NEW b \in Nat, a <= b, b <= Len(s)
  PROVE  /\ IsSeq(SubSeq(s, a, b)) /\ Len(SubSeq(s, a, b)) = b - a + 1
         /\ \A k \in 1 .. b - a + 1 : SubSeq(s, a, b)[k] = s[a + k - 1]
<1>1. \A k \in a .. b : s[k] \in ToSet(s)
  BY ElementOfSeq, Lengths DEF IsSeq
<1>2. /\ SubSeq(s, a, b) \in Seq(ToSet(s))
      /\ Len(SubSeq(s, a, b)) = IF a <= b THEN b - a + 1 ELSE 0
      /\ \A k \in 1 .. b - a + 1 : SubSeq(s, a, b)[k] = s[a + k - 1]
  BY <1>1, SubSeqProperties
<1>3. QED
  BY <1>2, OwnMembers

LEMMA ChangeIsOne ==
  ASSUME EditorInv, NEW step, Record(step), Undoes(Now, step, Now'), Now' # Now
  PROVE  History!Change
<1> DEFINE n == Len(undo)
           m == Len(redo)
<1>1. PICK trail : Retraces(trail, undo, redo, Now)
  BY DEF EditorInv, TrailInv
<1>2. /\ Retraces(Remembered(trail, Now'), undo', redo', Now')
      /\ IsSeq(undo') /\ redo' = <<>>
      /\ Len(undo') = IF n < Depth THEN n + 1 ELSE n
  BY <1>1, RecordTrail DEF EditorInv
<1>3. IsSeq(undo) /\ IsSeq(redo) /\ n \in Nat /\ m \in Nat /\ n + m <= Depth /\ Depth \in Nat
  BY Lengths, DepthAssumption DEF EditorInv, TrailInv
<1>4. Trail = [k \in 1 .. n + 1 + m |-> trail[k]] /\ trail[n + 1] = Now
  BY <1>1, <1>3, NowIsAState, TrailIsTheTrail DEF Trail, Retraces
<1>5. Trail' = [k \in 1 .. Len(undo') + 1 + 0 |-> Remembered(trail, Now')[k]]
  <2>1. IsState(Now') /\ IsSeq(<<>>) /\ Len(<<>>) = 0
    BY EmptySeq DEF IsState, Now, IsSeq
  <2>2. Trail' = TrailOf(undo', Now', redo')
    BY DEF Trail
  <2>3. QED
    BY <1>2, <2>1, <2>2, TrailIsTheTrail
<1> DEFINE T == Trail
           past == SubSeq(T, 1, n + 1)
           longer == Append(past, Now')
<1>6. IsSeq(T) /\ Len(T) = n + 1 + m
  BY <1>3, <1>4, AsSequence
<1>7. T[n + 1] = Now
  BY <1>3, <1>4
<1>8. IsSeq(past) /\ Len(past) = n + 1 /\ \A k \in 1 .. n + 1 : past[k] = trail[k]
  <2> HIDE DEF T, n, m
  <2>1. n + 1 \in Nat /\ 1 <= n + 1 /\ n + 1 <= Len(T) /\ n + 1 - 1 + 1 = n + 1
    BY <1>3, <1>6
  <2>2. /\ IsSeq(past) /\ Len(past) = n + 1
        /\ \A k \in 1 .. n + 1 : past[k] = T[1 + k - 1]
    BY <1>6, <2>1, PartOf
  <2>3. ASSUME NEW k \in 1 .. n + 1 PROVE T[1 + k - 1] = trail[k]
    <3>1. 1 + k - 1 = k /\ k \in 1 .. n + 1 + m
      BY <1>3
    <3>2. QED
      BY <1>4, <3>1 DEF T, n, m
  <2>4. QED
    BY <2>2, <2>3
<1>9. /\ IsSeq(longer) /\ Len(longer) = n + 2
      /\ \A k \in 1 .. n + 1 : longer[k] = trail[k]
      /\ longer[n + 2] = Now'
  <2> HIDE DEF past
  <2>1. (n + 1) + 1 = n + 2
    BY <1>3
  <2>2. QED
    BY <1>8, <2>1, Appended
<1> HIDE DEF n, m, T, past, longer
<1>10. Trail' = History!Newest(longer)
  <2>1. CASE n < Depth
    <3>1. History!Newest(longer) = longer
      BY <1>3, <1>9, <2>1 DEF History!Newest
    <3>2. Trail' = [k \in 1 .. n + 2 |-> Extended(trail, n, Now')[k]]
      <4>1. Len(undo') + 1 + 0 = n + 2
        BY <1>2, <1>3, <2>1
      <4>2. Remembered(trail, Now') = Extended(trail, n, Now')
        BY <2>1 DEF Remembered, n
      <4>3. QED
        BY <1>5, <4>1, <4>2
    <3>3. ASSUME NEW k \in 1 .. n + 2 PROVE Extended(trail, n, Now')[k] = longer[k]
      <4>1. Extended(trail, n, Now')[k] = IF k = n + 2 THEN Now' ELSE trail[k]
        BY DEF Extended
      <4>2. k # n + 2 => k \in 1 .. n + 1
        BY <1>3
      <4>3. QED
        BY <1>9, <4>1, <4>2
    <3>4. longer = [k \in 1 .. n + 2 |-> longer[k]]
      BY <1>9, AsFunction
    <3>5. QED
      BY <3>1, <3>2, <3>3, <3>4
  <2>2. CASE ~ (n < Depth)
    <3> DEFINE newer == SubSeq(longer, 2, n + 2)
    <3>1. n = Depth /\ n \in Nat \ {0} /\ Len(longer) - Depth = 2 /\ ~ (Len(longer) <= Depth + 1)
      BY <1>3, <1>9, <2>2, DepthAssumption
    <3>2. History!Newest(longer) = newer
      BY <1>9, <3>1 DEF History!Newest
    <3>3. Trail' = [k \in 1 .. n + 1 |-> Extended(Later(trail, n), n - 1, Now')[k]]
      <4>1. Len(undo') + 1 + 0 = n + 1
        BY <1>2, <1>3, <2>2
      <4>2. Remembered(trail, Now') = Extended(Later(trail, n), n - 1, Now')
        BY <2>2 DEF Remembered, n
      <4>3. QED
        BY <1>5, <4>1, <4>2
    <3>4. IsSeq(newer) /\ Len(newer) = n + 1 /\ \A k \in 1 .. n + 1 : newer[k] = longer[k + 1]
      <4>1. PICK last \in Nat : last = n + 2
        BY <1>3
      <4>2. 2 \in Nat \ {0} /\ 2 <= last /\ last <= Len(longer) /\ newer = SubSeq(longer, 2, last)
        BY <1>3, <1>9, <4>1
      <4> HIDE DEF newer
      <4>3. /\ IsSeq(newer) /\ Len(newer) = last - 2 + 1
            /\ \A k \in 1 .. last - 2 + 1 : newer[k] = longer[2 + k - 1]
        BY <1>9, <4>2, PartOf
      <4>4. last - 2 + 1 = n + 1 /\ \A k \in 1 .. n + 1 : 2 + k - 1 = k + 1
        BY <1>3, <4>1
      <4>5. QED
        BY <4>3, <4>4
    <3> HIDE DEF newer
    <3>5. ASSUME NEW k \in 1 .. n + 1
          PROVE  Extended(Later(trail, n), n - 1, Now')[k] = newer[k]
      <4>1. (n - 1) + 2 = n + 1 /\ (n + 1) + 1 = n + 2
        BY <3>1
      <4>2. Extended(Later(trail, n), n - 1, Now')[k]
              = IF k = n + 1 THEN Now' ELSE Later(trail, n)[k]
        BY <4>1 DEF Extended
      <4>3. k # n + 1 => k \in 1 .. n /\ k + 1 \in 1 .. n + 1
        BY <3>1
      <4>4. k # n + 1 => Later(trail, n)[k] = trail[k + 1]
        BY <4>3 DEF Later
      <4>5. QED
        BY <1>9, <3>4, <4>1, <4>2, <4>3, <4>4
    <3>6. newer = [k \in 1 .. n + 1 |-> newer[k]]
      BY <3>4, AsFunction
    <3>7. QED
      BY <3>2, <3>3, <3>5, <3>6
  <2>3. QED
    BY <2>1, <2>2
<1>11. Len(undo') + 1 = Len(Trail') /\ Trail'[Len(undo') + 1] = Now'
  <2>1. Len(undo') \in Nat
    BY <1>2, <1>3
  <2>2. Len(Trail') = Len(undo') + 1
    <3>1. Len(undo') + 1 + 0 = Len(undo') + 1 /\ Len(undo') + 1 \in Nat
      BY <2>1
    <3>2. QED
      BY <1>5, <3>1, AsSequence
  <2>3. Remembered(trail, Now')[Len(undo') + 1] = Now'
    BY <1>2 DEF Retraces
  <2>4. Len(undo') + 1 \in 1 .. Len(undo') + 1 + 0
    BY <2>1
  <2>5. QED
    BY <1>5, <2>2, <2>3, <2>4
<1>12. QED
  BY <1>7, <1>10, <1>11 DEF History!Change, n, T, past, longer

LEMMA BackIsOne ==
  ASSUME EditorInv, TakeBack
  PROVE  History!Back
<1>1. PICK trail : Retraces(trail, undo, redo, Now)
  BY DEF EditorInv, TrailInv
<1>2. /\ Retraces(trail, undo', redo', Now')
      /\ IsSeq(undo') /\ Len(undo) \in Nat \ {0} /\ Len(undo') = Len(undo) - 1
      /\ IsSeq(redo') /\ Len(redo) \in Nat /\ Len(redo') = Len(redo) + 1
  BY <1>1, TakeBackTrail
<1>3. Trail = [k \in 1 .. Len(undo) + 1 + Len(redo) |-> trail[k]]
  BY <1>1, NowIsAState, TrailIsTheTrail DEF Trail, EditorInv, TrailInv
<1>4. Trail' = [k \in 1 .. Len(undo') + 1 + Len(redo') |-> trail[k]]
  <2>1. IsState(Now') /\ Trail' = TrailOf(undo', Now', redo')
    BY DEF IsState, Now, Trail
  <2>2. QED
    BY <1>2, <2>1, TrailIsTheTrail
<1>5. /\ Len(undo') + 1 + Len(redo') = Len(undo) + 1 + Len(redo)
      /\ Len(undo) + 1 > 1 /\ Len(undo') + 1 = (Len(undo) + 1) - 1
  BY <1>2
<1>6. QED
  BY <1>3, <1>4, <1>5 DEF History!Back

LEMMA ForwardIsOne ==
  ASSUME EditorInv, DoAgain
  PROVE  History!Forward
<1>1. PICK trail : Retraces(trail, undo, redo, Now)
  BY DEF EditorInv, TrailInv
<1>2. /\ Retraces(trail, undo', redo', Now')
      /\ IsSeq(undo') /\ Len(undo) \in Nat /\ Len(undo') = Len(undo) + 1
      /\ IsSeq(redo') /\ Len(redo) \in Nat \ {0} /\ Len(redo') = Len(redo) - 1
  BY <1>1, DoAgainTrail
<1>3. Trail = [k \in 1 .. Len(undo) + 1 + Len(redo) |-> trail[k]]
  BY <1>1, NowIsAState, TrailIsTheTrail DEF Trail, EditorInv, TrailInv
<1>4. Trail' = [k \in 1 .. Len(undo') + 1 + Len(redo') |-> trail[k]]
  <2>1. IsState(Now') /\ Trail' = TrailOf(undo', Now', redo')
    BY DEF IsState, Now, Trail
  <2>2. QED
    BY <1>2, <2>1, TrailIsTheTrail
<1>5. /\ Len(undo') + 1 + Len(redo') = Len(undo) + 1 + Len(redo)
      /\ Len(undo) + 1 < Len(undo) + 1 + Len(redo) /\ Len(undo') + 1 = (Len(undo) + 1) + 1
      /\ Len(undo) + 1 + Len(redo) \in Nat
  BY <1>2
<1>6. Len(Trail) = Len(undo) + 1 + Len(redo)
  BY <1>3, <1>5, AsSequence
<1>7. QED
  BY <1>3, <1>4, <1>5, <1>6 DEF History!Forward

\* A change leaves another state than the one it found.
LEMMA CommitIsOne ==
  ASSUME EditorInv, NEW next, OnSelection(next)
  PROVE  History!Change \/ UNCHANGED History!history
<1>1. UNCHANGED <<fixed, body>> /\ kept' = next
  BY DEF OnSelection, Key, Commit
<1>2. CASE next = kept
  <2>1. UNCHANGED <<undo, redo, kept, body>>
    BY <1>1, <1>2 DEF OnSelection, Commit
  <2>2. UNCHANGED History!history
    BY <2>1 DEF History!history, Trail, Now
  <2>3. QED
    BY <2>2
<1>3. CASE next # kept
  <2>1. Record(KeptStep(kept))
    BY <1>3 DEF OnSelection, Commit
  <2>2. Undoes(Now, KeptStep(kept), Now')
    BY <1>1, NowIsAState DEF Undoes, KeptStep, Now
  <2>3. Now' # Now
    BY <1>1, <1>3 DEF Now
  <2>4. QED
    BY <2>1, <2>2, <2>3, ChangeIsOne
<1>4. QED
  BY <1>2, <1>3

LEMMA RewriteIsOne ==
  ASSUME EditorInv, ConcludeEdit
  PROVE  History!Change
<1>1. PICK i \in editing : \E after \in Applied(body[i]) \ {body[i]} :
             Record(MessageStep(i, body[i], after)) /\ PutMessage(i, after)
  BY DEF ConcludeEdit
<1> PICK after \in Applied(body[i]) \ {body[i]} :
           Record(MessageStep(i, body[i], after)) /\ PutMessage(i, after)
  BY <1>1
<1>2. UNCHANGED <<fixed, kept>> /\ i \in Numbers
  BY DEF ConcludeEdit, EditorInv, BodyInv
<1>3. body' = [body EXCEPT ![i] = after] /\ i \in DOMAIN body
  BY <1>1, <1>2 DEF PutMessage, EditorInv, BodyInv
<1>4. Undoes(Now, MessageStep(i, body[i], after), Now')
  BY <1>1, <1>2, RewriteIsUndone
<1>5. Now' # Now
  <2>1. body'[i] # body[i]
    BY <1>1, <1>3
  <2>2. QED
    BY <2>1 DEF Now
<1>6. QED
  BY <1>1, <1>4, <1>5, ChangeIsOne

LEMMA HistoryStarts == Init => History!Init
<1> SUFFICES ASSUME Init PROVE History!Init
  OBVIOUS
<1>1. undo = <<>> /\ redo = <<>> /\ IsSeq(<<>>) /\ Len(<<>>) = 0
  BY EmptySeq DEF Init, IsSeq
<1>2. Len(Trail) = 1
  <2>1. Retraces([k \in {1} |-> Now], undo, redo, Now)
    BY <1>1 DEF Retraces, LeadsBack, LeadsOn
  <2>2. Trail = [k \in 1 .. Len(undo) + 1 + Len(redo) |-> [j \in {1} |-> Now][k]]
    BY <1>1, <2>1, NowIsAState, TrailIsTheTrail DEF Trail
  <2>3. Len(undo) + 1 + Len(redo) = 1
    BY <1>1
  <2>4. QED
    BY <2>2, <2>3, AsSequence
<1>3. QED
  BY <1>1, <1>2 DEF History!Init

(***************************************************************************)
(* What a message ties is what its blocks tie, one after the other.        *)
(***************************************************************************)
\* One step of the run InMessage makes over the blocks.
OnNext(s, at, content, run, j) == IF j = 0 THEN s ELSE OnBlock(run[j - 1], at, content[j])

LEMMA RunExists ==
  ASSUME NEW s, NEW at, NEW content, NEW n \in Nat
  PROVE  \E run : run = [j \in 0 .. n |-> OnNext(s, at, content, run, j)]
<1> DEFINE Runs(k) == \E run : run = [j \in 0 .. k |-> OnNext(s, at, content, run, j)]
           T == {k \in Nat : ~ Runs(k)}
<1>1. SUFFICES ASSUME T # {} PROVE FALSE
  OBVIOUS
<1>2. PICK m \in T : \A k \in T : m <= k
  BY <1>1, LeastNumber
<1>3. CASE m = 0
  <2> DEFINE g == [j \in 0 .. 0 |-> s]
  <2>1. g = [j \in 0 .. 0 |-> OnNext(s, at, content, g, j)]
    BY DEF OnNext
  <2>2. QED
    BY <1>3, <2>1
<1>4. CASE m # 0
  <2>1. m - 1 \in Nat /\ ~ (m - 1 \in T)
    BY <1>2, <1>4
  <2>2. PICK h : h = [j \in 0 .. m - 1 |-> OnNext(s, at, content, h, j)]
    BY <2>1
  <2> DEFINE g == [j \in 0 .. m |-> IF j = m THEN OnNext(s, at, content, h, m) ELSE h[j]]
  <2>3. ASSUME NEW j \in 0 .. m PROVE g[j] = OnNext(s, at, content, g, j)
    <3>1. j # 0 => j - 1 \in 0 .. m /\ j - 1 # m
      BY <1>2
    <3>2. j # 0 => g[j - 1] = h[j - 1]
      BY <3>1
    <3>3. OnNext(s, at, content, g, j) = OnNext(s, at, content, h, j)
      BY <3>2 DEF OnNext
    <3>4. CASE j = m
      BY <3>3, <3>4
    <3>5. CASE j # m
      <4>1. j \in 0 .. m - 1
        BY <1>2, <3>5
      <4>2. h[j] = OnNext(s, at, content, h, j)
        BY <2>2, <4>1
      <4>3. QED
        BY <3>3, <3>5, <4>2
    <3>6. QED
      BY <3>4, <3>5
  <2>4. g = [j \in 0 .. m |-> OnNext(s, at, content, g, j)]
    BY <2>3
  <2>5. Runs(m)
    BY <2>4
  <2>6. QED
    BY <1>2, <2>5
<1>5. QED
  BY <1>3, <1>4

\* The blocks up to each of them; and whatever follows them alike is what
\* InMessage computes.
Following(s, at, content) ==
  CHOOSE run : run = [j \in 0 .. Len(content) |-> OnNext(s, at, content, run, j)]

LEMMA FollowingFollows ==
  ASSUME NEW s, NEW at, NEW content, IsSeq(content)
  PROVE  /\ Following(s, at, content)[0] = s
         /\ \A j \in 1 .. Len(content) :
              Following(s, at, content)[j] = OnBlock(Following(s, at, content)[j - 1], at, content[j])
         /\ InMessage(s, at, content) = Following(s, at, content)[Len(content)]
<1> DEFINE run == Following(s, at, content)
           n == Len(content)
<1>1. n \in Nat
  BY Lengths
<1>2. run = [j \in 0 .. n |-> OnNext(s, at, content, run, j)]
  BY <1>1, RunExists DEF Following
<1>3. InMessage(s, at, content) = run[n]
  BY DEF InMessage, Following, OnNext
<1> HIDE DEF run, n
<1>4. \A j \in 0 .. n : run[j] = OnNext(s, at, content, run, j)
  BY <1>2
<1>5. run[0] = s
  BY <1>1, <1>4 DEF OnNext
<1>6. \A j \in 1 .. n : run[j] = OnBlock(run[j - 1], at, content[j])
  BY <1>1, <1>4 DEF OnNext
<1>7. QED
  BY <1>3, <1>5, <1>6 DEF run, n

LEMMA FollowsOnly ==
  ASSUME NEW s, NEW at, NEW content, IsSeq(content), NEW g, g[0] = s,
         \A j \in 1 .. Len(content) : g[j] = OnBlock(g[j - 1], at, content[j])
  PROVE  InMessage(s, at, content) = g[Len(content)]
<1> DEFINE run == Following(s, at, content)
           n == Len(content)
           Off == {j \in 0 .. n : run[j] # g[j]}
<1>1. n \in Nat
  BY Lengths
<1>2. /\ run[0] = s /\ \A j \in 1 .. n : run[j] = OnBlock(run[j - 1], at, content[j])
      /\ InMessage(s, at, content) = run[n]
  BY FollowingFollows
<1>3. \A j \in 1 .. n : g[j] = OnBlock(g[j - 1], at, content[j])
  OBVIOUS
<1> HIDE DEF run, n
<1>4. ASSUME Off # {} PROVE FALSE
  <2>1. PICK m \in Off : \A k \in Off : m <= k
    <3>1. Off \subseteq Nat
      BY <1>1
    <3> HIDE DEF Off
    <3>2. QED
      BY <1>4, <3>1, LeastNumber
  <2>2. m \in 0 .. n /\ run[m] # g[m]
    BY <2>1
  <2>3. m # 0
    BY <1>2, <2>2
  <2>4. m \in 1 .. n /\ m - 1 \in 0 .. n /\ ~ (m <= m - 1)
    BY <1>1, <2>2, <2>3
  <2>5. run[m - 1] = g[m - 1]
    BY <2>1, <2>4
  <2>6. QED
    BY <1>2, <1>3, <2>2, <2>4, <2>5
<1>5. n \in 0 .. n
  BY <1>1
<1>6. QED
  BY <1>2, <1>4, <1>5 DEF n

LEMMA NoBlocks ==
  ASSUME NEW s, NEW at
  PROVE  InMessage(s, at, <<>>) = s
<1>1. IsSeq(<<>>) /\ Len(<<>>) = 0
  BY EmptySeq DEF IsSeq
<1>2. QED
  BY <1>1, FollowingFollows

LEMMA OneMoreBlock ==
  ASSUME NEW s, NEW at, NEW content, IsSeq(content), NEW block
  PROVE  InMessage(s, at, Append(content, block)) = OnBlock(InMessage(s, at, content), at, block)
<1> DEFINE n == Len(content)
           more == Append(content, block)
           run == Following(s, at, content)
           g == [j \in 0 .. n + 1 |-> IF j = n + 1 THEN OnBlock(run[n], at, block) ELSE run[j]]
<1>1. /\ n \in Nat /\ IsSeq(more) /\ Len(more) = n + 1
      /\ \A j \in 1 .. n : more[j] = content[j]
      /\ more[n + 1] = block
  BY Lengths, Appended
<1>2. /\ run[0] = s /\ \A j \in 1 .. n : run[j] = OnBlock(run[j - 1], at, content[j])
      /\ InMessage(s, at, content) = run[n]
  BY FollowingFollows
<1> HIDE DEF n, more, run
<1>3. g[n + 1] = OnBlock(run[n], at, block) /\ \A j \in 0 .. n : g[j] = run[j]
  BY <1>1
<1>4. g[0] = s
  BY <1>1, <1>2, <1>3
<1> HIDE DEF g
<1>5. ASSUME NEW j \in 1 .. n + 1 PROVE g[j] = OnBlock(g[j - 1], at, more[j])
  <2>1. j - 1 \in 0 .. n
    BY <1>1
  <2>2. CASE j = n + 1
    <3>1. j - 1 = n
      BY <1>1, <2>2
    <3>2. QED
      BY <1>1, <1>3, <2>1, <2>2, <3>1
  <2>3. CASE j # n + 1
    <3>1. j \in 1 .. n /\ j \in 0 .. n
      BY <1>1, <2>3
    <3>2. QED
      BY <1>1, <1>2, <1>3, <2>1, <3>1
  <2>4. QED
    BY <2>2, <2>3
<1>6. InMessage(s, at, more) = g[n + 1]
  BY <1>1, <1>4, <1>5, FollowsOnly
<1>7. QED
  BY <1>2, <1>3, <1>6 DEF more

(***************************************************************************)
(* A text that is rewritten ties what the one before it tied.              *)
(***************************************************************************)
TiesAlike(at, content, other) ==
  IsSeq(content) /\ \A s : InMessage(s, at, content) = InMessage(s, at, other)

LEMMA OneSection ==
  ASSUME NEW before, IsSeq(before), NEW x
  PROVE  before \o <<x>> = Append(before, x)
BY AppendIsConcat, SeqMonotonic DEF IsSeq

LEMMA SectionsTie ==
  ASSUME NEW block, NEW section \in Reads(block), NEW before, IsSeq(before), NEW at
  PROVE  /\ IsSeq(before \o section)
         /\ \A s : InMessage(s, at, before \o section) = OnBlock(InMessage(s, at, before), at, block)
<1>1. ASSUME NEW x, section = <<x>>, \A t : OnBlock(t, at, x) = OnBlock(t, at, block)
      PROVE  /\ IsSeq(before \o section)
             /\ \A s : InMessage(s, at, before \o section)
                         = OnBlock(InMessage(s, at, before), at, block)
  <2>1. before \o section = Append(before, x)
    BY <1>1, OneSection
  <2>2. IsSeq(Append(before, x))
    BY Appended
  <2>3. \A s : InMessage(s, at, Append(before, x)) = OnBlock(InMessage(s, at, before), at, x)
    BY OneMoreBlock
  <2>4. QED
    BY <1>1, <2>1, <2>2, <2>3
<1>2. CASE block.kind \in {"text", "thinking"}
  <2>1. \A t : OnBlock(t, at, block) = t
    BY <1>2 DEF OnBlock
  <2>2. \/ section = <<block>>
        \/ section = <<[kind |-> block.kind, v |-> Rewritten]>>
        \/ section = <<>>
    BY <1>2 DEF Reads
  <2>3. CASE section = <<block>>
    BY <1>1, <2>3
  <2>4. CASE section = <<[kind |-> block.kind, v |-> Rewritten]>>
    <3> DEFINE x == [kind |-> block.kind, v |-> Rewritten]
    <3>1. x.kind = block.kind
      OBVIOUS
    <3>2. section = <<x>>
      BY <2>4
    <3> HIDE DEF x
    <3>3. \A t : OnBlock(t, at, x) = t
      BY <1>2, <3>1 DEF OnBlock
    <3>4. QED
      BY <1>1, <2>1, <3>2, <3>3
  <2>5. CASE section = <<>>
    <3>1. before \o section = before
      BY <2>5, ConcatEmptySeq DEF IsSeq
    <3>2. QED
      BY <2>1, <3>1
  <2>6. QED
    BY <2>2, <2>3, <2>4, <2>5
<1>3. CASE block.kind = "use"
  <2>1. section = <<block>> \/ section = <<Use(block.id, "rewritten")>>
    BY <1>3 DEF Reads
  <2> DEFINE x == Use(block.id, "rewritten")
  <2>2. x.kind = "use" /\ x.id = block.id
    BY DEF Use
  <2> HIDE DEF x
  <2>3. \A t : OnBlock(t, at, x) = OnBlock(t, at, block)
    BY <1>3, <2>2 DEF OnBlock
  <2>4. QED
    BY <1>1, <2>1, <2>3 DEF x
<1>4. CASE block.kind = "result"
  <2>1. section = <<block>> \/ section = <<Result(block.id, Rewritten, block.err)>>
    BY <1>4 DEF Reads
  <2> DEFINE x == Result(block.id, Rewritten, block.err)
  <2>2. x.kind = "result" /\ x.id = block.id
    BY DEF Result
  <2> HIDE DEF x
  <2>3. \A t : OnBlock(t, at, x) = OnBlock(t, at, block)
    BY <1>4, <2>2 DEF OnBlock
  <2>4. QED
    BY <1>1, <2>1, <2>3 DEF x
<1>5. CASE block.kind \notin {"text", "thinking", "use", "result"}
  <2>1. section = <<block>>
    BY <1>5 DEF Reads
  <2>2. QED
    BY <1>1, <2>1
<1>6. QED
  BY <1>2, <1>3, <1>4, <1>5

\* One step of what Applied puts together.
ReadOn(content, upTo, j) ==
  IF j = 0 THEN {<<>>} ELSE WithSections(upTo[j - 1], content[j])

LEMMA ReadingExists ==
  ASSUME NEW content, NEW n \in Nat
  PROVE  \E upTo : upTo = [j \in 0 .. n |-> ReadOn(content, upTo, j)]
<1> DEFINE Runs(k) == \E upTo : upTo = [j \in 0 .. k |-> ReadOn(content, upTo, j)]
           T == {k \in Nat : ~ Runs(k)}
<1>1. SUFFICES ASSUME T # {} PROVE FALSE
  OBVIOUS
<1>2. PICK m \in T : \A k \in T : m <= k
  BY <1>1, LeastNumber
<1>3. CASE m = 0
  <2> DEFINE g == [j \in 0 .. 0 |-> {<<>>}]
  <2>1. g = [j \in 0 .. 0 |-> ReadOn(content, g, j)]
    BY DEF ReadOn
  <2>2. QED
    BY <1>3, <2>1
<1>4. CASE m # 0
  <2>1. m - 1 \in Nat /\ ~ (m - 1 \in T)
    BY <1>2, <1>4
  <2>2. PICK h : h = [j \in 0 .. m - 1 |-> ReadOn(content, h, j)]
    BY <2>1
  <2> DEFINE g == [j \in 0 .. m |-> IF j = m THEN ReadOn(content, h, m) ELSE h[j]]
  <2>3. ASSUME NEW j \in 0 .. m PROVE g[j] = ReadOn(content, g, j)
    <3>1. j # 0 => j - 1 \in 0 .. m /\ j - 1 # m
      BY <1>2
    <3>2. j # 0 => g[j - 1] = h[j - 1]
      BY <3>1
    <3>3. ReadOn(content, g, j) = ReadOn(content, h, j)
      BY <3>2 DEF ReadOn
    <3>4. CASE j = m
      BY <3>3, <3>4
    <3>5. CASE j # m
      <4>1. j \in 0 .. m - 1
        BY <1>2, <3>5
      <4>2. h[j] = ReadOn(content, h, j)
        BY <2>2, <4>1
      <4>3. QED
        BY <3>3, <3>5, <4>2
    <3>6. QED
      BY <3>4, <3>5
  <2>4. g = [j \in 0 .. m |-> ReadOn(content, g, j)]
    BY <2>3
  <2>5. Runs(m)
    BY <2>4
  <2>6. QED
    BY <1>2, <2>5
<1>5. QED
  BY <1>3, <1>4

LEMMA AppliedTies ==
  ASSUME NEW message, IsSeq(message.content), NEW after \in Applied(message), NEW at
  PROVE  TiesAlike(at, after.content, message.content)
<1> DEFINE content == message.content
           n == Len(content)
           upTo == CHOOSE f : f = [j \in 0 .. n |-> ReadOn(content, f, j)]
           Alike(j) == \A read \in upTo[j] :
                         /\ IsSeq(read)
                         /\ \A s : InMessage(s, at, read) = Following(s, at, content)[j]
           Off == {j \in 0 .. n : ~ Alike(j)}
<1>1. n \in Nat
  BY Lengths
<1>2. upTo = [j \in 0 .. n |-> ReadOn(content, upTo, j)]
  BY <1>1, ReadingExists
<1>3. after.content \in upTo[n]
  <2>1. PICK read \in upTo[n] : after = Message(message.role, read)
    BY DEF Applied, ReadOn
  <2>2. QED
    BY <2>1 DEF Message
<1>4. \A s : /\ Following(s, at, content)[0] = s
             /\ \A j \in 1 .. n : Following(s, at, content)[j]
                                    = OnBlock(Following(s, at, content)[j - 1], at, content[j])
             /\ InMessage(s, at, content) = Following(s, at, content)[n]
  BY FollowingFollows
<1> HIDE DEF n, upTo, content
<1>5. ASSUME Off # {} PROVE FALSE
  <2>1. PICK m \in Off : \A k \in Off : m <= k
    <3>1. Off \subseteq Nat
      BY <1>1
    <3> HIDE DEF Off
    <3>2. QED
      BY <1>5, <3>1, LeastNumber
  <2>2. m \in 0 .. n /\ ~ Alike(m) /\ upTo[m] = ReadOn(content, upTo, m)
    BY <1>2, <2>1
  <2>3. CASE m = 0
    <3>1. upTo[m] = {<<>>}
      BY <2>2, <2>3 DEF ReadOn
    <3>2. IsSeq(<<>>)
      BY EmptySeq DEF IsSeq
    <3>3. Alike(m)
      BY <1>4, <2>3, <3>1, <3>2, NoBlocks
    <3>4. QED
      BY <2>2, <3>3
  <2>4. CASE m # 0
    <3>1. m \in 1 .. n /\ m - 1 \in 0 .. n /\ ~ (m <= m - 1)
      BY <1>1, <2>2, <2>4
    <3>2. Alike(m - 1)
      BY <2>1, <3>1
    <3>3. ASSUME NEW read \in upTo[m]
          PROVE  /\ IsSeq(read)
                 /\ \A s : InMessage(s, at, read) = Following(s, at, content)[m]
      <4>1. PICK before \in upTo[m - 1], section \in Reads(content[m]) : read = before \o section
        <5>1. read \in WithSections(upTo[m - 1], content[m])
          BY <2>2, <2>4 DEF ReadOn
        <5>2. QED
          BY <5>1 DEF WithSections
      <4>2. /\ IsSeq(before)
            /\ \A s : InMessage(s, at, before) = Following(s, at, content)[m - 1]
        BY <3>2
      <4>3. /\ IsSeq(read)
            /\ \A s : InMessage(s, at, read) = OnBlock(InMessage(s, at, before), at, content[m])
        BY <4>1, <4>2, SectionsTie
      <4>4. QED
        BY <1>4, <3>1, <4>2, <4>3
    <3>4. QED
      BY <2>2, <3>3
  <2>5. QED
    BY <2>3, <2>4
<1>6. Alike(n)
  BY <1>1, <1>5
<1>7. QED
  BY <1>3, <1>4, <1>6 DEF TiesAlike, content

(***************************************************************************)
(* What a conversation ties.                                               *)
(***************************************************************************)
OnMessage(messages, run, i) ==
  IF i = 0 THEN Untied ELSE InMessage(run[i - 1], i, messages[i].content)

LEMMA TyingExists ==
  ASSUME NEW messages, NEW n \in Nat
  PROVE  \E run : run = [i \in 0 .. n |-> OnMessage(messages, run, i)]
<1> DEFINE Runs(k) == \E run : run = [i \in 0 .. k |-> OnMessage(messages, run, i)]
           T == {k \in Nat : ~ Runs(k)}
<1>1. SUFFICES ASSUME T # {} PROVE FALSE
  OBVIOUS
<1>2. PICK m \in T : \A k \in T : m <= k
  BY <1>1, LeastNumber
<1>3. CASE m = 0
  <2> DEFINE g == [i \in 0 .. 0 |-> Untied]
  <2>1. g = [i \in 0 .. 0 |-> OnMessage(messages, g, i)]
    BY DEF OnMessage
  <2>2. QED
    BY <1>3, <2>1
<1>4. CASE m # 0
  <2>1. m - 1 \in Nat /\ ~ (m - 1 \in T)
    BY <1>2, <1>4
  <2>2. PICK h : h = [i \in 0 .. m - 1 |-> OnMessage(messages, h, i)]
    BY <2>1
  <2> DEFINE g == [i \in 0 .. m |-> IF i = m THEN OnMessage(messages, h, m) ELSE h[i]]
  <2>3. ASSUME NEW i \in 0 .. m PROVE g[i] = OnMessage(messages, g, i)
    <3>1. i # 0 => i - 1 \in 0 .. m /\ i - 1 # m
      BY <1>2
    <3>2. i # 0 => g[i - 1] = h[i - 1]
      BY <3>1
    <3>3. OnMessage(messages, g, i) = OnMessage(messages, h, i)
      BY <3>2 DEF OnMessage
    <3>4. CASE i = m
      BY <3>3, <3>4
    <3>5. CASE i # m
      <4>1. i \in 0 .. m - 1
        BY <1>2, <3>5
      <4>2. h[i] = OnMessage(messages, h, i)
        BY <2>2, <4>1
      <4>3. QED
        BY <3>3, <3>5, <4>2
    <3>6. QED
      BY <3>4, <3>5
  <2>4. g = [i \in 0 .. m |-> OnMessage(messages, g, i)]
    BY <2>3
  <2>5. Runs(m)
    BY <2>4
  <2>6. QED
    BY <1>2, <2>5
<1>5. QED
  BY <1>3, <1>4

Tying(messages) ==
  CHOOSE run : run = [i \in 0 .. Len(messages) |-> OnMessage(messages, run, i)]

LEMMA TyingTies ==
  ASSUME NEW messages, Len(messages) \in Nat
  PROVE  /\ Tying(messages)[0] = Untied
         /\ \A i \in 1 .. Len(messages) :
              Tying(messages)[i] = InMessage(Tying(messages)[i - 1], i, messages[i].content)
         /\ ToolPairs(messages) = Tying(messages)[Len(messages)]
<1> DEFINE run == Tying(messages)
           n == Len(messages)
<1>1. run = [i \in 0 .. n |-> OnMessage(messages, run, i)]
  BY TyingExists DEF Tying
<1>2. ToolPairs(messages) = run[n]
  BY DEF ToolPairs, Tying, OnMessage
<1>3. n \in Nat
  OBVIOUS
<1> HIDE DEF run, n
<1>4. \A i \in 0 .. n : run[i] = OnMessage(messages, run, i)
  BY <1>1
<1>5. run[0] = Untied
  BY <1>3, <1>4 DEF OnMessage
<1>6. \A i \in 1 .. n : run[i] = InMessage(run[i - 1], i, messages[i].content)
  BY <1>3, <1>4 DEF OnMessage
<1>7. QED
  BY <1>2, <1>5, <1>6 DEF run, n

\* Two conversations whose messages tie alike tie the same calls to the same
\* results.
LEMMA PairsAlike ==
  ASSUME NEW messages, NEW others, Len(others) \in Nat, Len(messages) = Len(others),
         \A i \in 1 .. Len(others) : TiesAlike(i, messages[i].content, others[i].content)
  PROVE  ToolPairs(messages) = ToolPairs(others)
<1> DEFINE n == Len(others)
           f == Tying(messages)
           g == Tying(others)
           Off == {i \in 0 .. n : f[i] # g[i]}
<1>1. /\ f[0] = Untied /\ g[0] = Untied
      /\ \A i \in 1 .. n : f[i] = InMessage(f[i - 1], i, messages[i].content)
      /\ \A i \in 1 .. n : g[i] = InMessage(g[i - 1], i, others[i].content)
      /\ ToolPairs(messages) = f[n] /\ ToolPairs(others) = g[n]
  BY TyingTies
<1>2. \A i \in 1 .. n : \A s :
        InMessage(s, i, messages[i].content) = InMessage(s, i, others[i].content)
  BY DEF TiesAlike
<1>3. n \in Nat
  OBVIOUS
<1> HIDE DEF n, f, g
<1>4. ASSUME Off # {} PROVE FALSE
  <2>1. PICK m \in Off : \A k \in Off : m <= k
    <3>1. Off \subseteq Nat
      BY <1>3
    <3> HIDE DEF Off
    <3>2. QED
      BY <1>4, <3>1, LeastNumber
  <2>2. m \in 0 .. n /\ f[m] # g[m] /\ m # 0
    BY <1>1, <2>1
  <2>3. m \in 1 .. n /\ m - 1 \in 0 .. n /\ ~ (m <= m - 1)
    BY <1>3, <2>2
  <2>4. f[m - 1] = g[m - 1]
    BY <2>1, <2>3
  <2>5. QED
    BY <1>1, <1>2, <2>2, <2>3, <2>4
<1>5. n \in 0 .. n
  BY <1>3
<1>6. QED
  BY <1>1, <1>4, <1>5

\* What is tied are messages of the conversation.
Within(s, numbers) ==
  /\ s = [outstanding |-> s.outstanding, resolved |-> s.resolved,
          pairs |-> s.pairs, ambiguous |-> s.ambiguous]
  /\ \A w \in s.outstanding : w.at \in numbers
  /\ \A pair \in s.pairs : pair[1] \in numbers /\ pair[2] \in numbers

LEMMA BlockWithin ==
  ASSUME NEW s, NEW numbers, Within(s, numbers), NEW at \in numbers, NEW block
  PROVE  Within(OnBlock(s, at, block), numbers)
<1> DEFINE id == block.id
<1>1. s = [outstanding |-> s.outstanding, resolved |-> s.resolved,
           pairs |-> s.pairs, ambiguous |-> s.ambiguous]
  BY DEF Within
<1>2. CASE block.kind = "use"
  <2>1. OnBlock(s, at, block) = OnUse(s, at, id)
    BY <1>2 DEF OnBlock
  <2>2. CASE Waiting(s, id) # {}
    <3>1. OnUse(s, at, id) = [outstanding |-> s.outstanding, resolved |-> s.resolved,
                              pairs |-> s.pairs, ambiguous |-> TRUE]
      BY <1>1, <2>2 DEF OnUse
    <3>2. QED
      BY <2>1, <3>1 DEF Within
  <2>3. CASE Waiting(s, id) = {}
    <3>1. OnUse(s, at, id) = [outstanding |-> s.outstanding \cup {[id |-> id, at |-> at]},
                              resolved |-> s.resolved \ {id},
                              pairs |-> s.pairs, ambiguous |-> s.ambiguous]
      BY <1>1, <2>3 DEF OnUse
    <3>2. QED
      BY <2>1, <3>1 DEF Within
  <2>4. QED
    BY <2>2, <2>3
<1>3. CASE block.kind = "result"
  <2>1. OnBlock(s, at, block) = OnResult(s, at, id)
    BY <1>3 DEF OnBlock
  <2>2. CASE id \in s.resolved
    <3>1. OnResult(s, at, id) = [outstanding |-> s.outstanding, resolved |-> s.resolved,
                                 pairs |-> s.pairs, ambiguous |-> TRUE]
      BY <1>1, <2>2 DEF OnResult
    <3>2. QED
      BY <2>1, <3>1 DEF Within
  <2>3. CASE id \notin s.resolved /\ Waiting(s, id) # {}
    <3> DEFINE call == CHOOSE w \in Waiting(s, id) : TRUE
    <3>1. call \in s.outstanding
      BY <2>3 DEF Waiting
    <3>2. OnResult(s, at, id) = [outstanding |-> s.outstanding \ {call},
                                 resolved |-> s.resolved \cup {id},
                                 pairs |-> s.pairs \cup {<<call.at, at>>},
                                 ambiguous |-> s.ambiguous]
      BY <1>1, <2>3 DEF OnResult
    <3> HIDE DEF call
    <3>3. QED
      BY <2>1, <3>1, <3>2 DEF Within
  <2>4. CASE id \notin s.resolved /\ Waiting(s, id) = {}
    BY <2>1, <2>4 DEF OnResult
  <2>5. QED
    BY <2>2, <2>3, <2>4
<1>4. CASE block.kind # "use" /\ block.kind # "result"
  BY <1>4 DEF OnBlock
<1>5. QED
  BY <1>2, <1>3, <1>4

LEMMA MessageWithin ==
  ASSUME NEW s, NEW numbers, Within(s, numbers), NEW at \in numbers,
         NEW content, IsSeq(content)
  PROVE  Within(InMessage(s, at, content), numbers)
<1> DEFINE n == Len(content)
           run == Following(s, at, content)
           Off == {j \in 0 .. n : ~ Within(run[j], numbers)}
<1>1. n \in Nat
  BY Lengths
<1>2. /\ run[0] = s /\ \A j \in 1 .. n : run[j] = OnBlock(run[j - 1], at, content[j])
      /\ InMessage(s, at, content) = run[n]
  BY FollowingFollows
<1> HIDE DEF n, run
<1>3. ASSUME Off # {} PROVE FALSE
  <2>1. PICK m \in Off : \A k \in Off : m <= k
    <3>1. Off \subseteq Nat
      BY <1>1
    <3> HIDE DEF Off
    <3>2. QED
      BY <1>3, <3>1, LeastNumber
  <2>2. m \in 0 .. n /\ ~ Within(run[m], numbers) /\ m # 0
    BY <1>2, <2>1
  <2>3. m \in 1 .. n /\ m - 1 \in 0 .. n /\ ~ (m <= m - 1)
    BY <1>1, <2>2
  <2>4. Within(run[m - 1], numbers)
    BY <2>1, <2>3
  <2>5. QED
    BY <1>2, <2>2, <2>3, <2>4, BlockWithin
<1>4. n \in 0 .. n
  BY <1>1
<1>5. QED
  BY <1>2, <1>3, <1>4

LEMMA PairsWithin ==
  ASSUME NEW messages, Len(messages) \in Nat,
         \A i \in 1 .. Len(messages) : IsSeq(messages[i].content)
  PROVE  \A pair \in Pairs(messages) :
           pair[1] \in 1 .. Len(messages) /\ pair[2] \in 1 .. Len(messages)
<1> DEFINE n == Len(messages)
           run == Tying(messages)
           Off == {i \in 0 .. n : ~ Within(run[i], 1 .. n)}
<1>1. /\ run[0] = Untied /\ ToolPairs(messages) = run[n]
      /\ \A i \in 1 .. n : run[i] = InMessage(run[i - 1], i, messages[i].content)
  BY TyingTies
<1>2. n \in Nat
  OBVIOUS
<1> HIDE DEF n, run
<1>3. Within(Untied, 1 .. n)
  BY DEF Within, Untied
<1>4. ASSUME Off # {} PROVE FALSE
  <2>1. PICK m \in Off : \A k \in Off : m <= k
    <3>1. Off \subseteq Nat
      BY <1>2
    <3> HIDE DEF Off
    <3>2. QED
      BY <1>4, <3>1, LeastNumber
  <2>2. m \in 0 .. n /\ ~ Within(run[m], 1 .. n) /\ m # 0
    BY <1>1, <1>3, <2>1
  <2>3. m \in 1 .. n /\ m - 1 \in 0 .. n /\ ~ (m <= m - 1)
    BY <1>2, <2>2
  <2>4. Within(run[m - 1], 1 .. n)
    BY <2>1, <2>3
  <2>5. IsSeq(messages[m].content)
    BY <2>3 DEF n
  <2>6. QED
    BY <1>1, <2>2, <2>3, <2>4, <2>5, MessageWithin
<1>5. Within(run[n], 1 .. n)
  BY <1>2, <1>4
<1>6. QED
  BY <1>1, <1>5 DEF Pairs, Within, n

(***************************************************************************)
(* What is tied to something, and what is closed.                          *)
(***************************************************************************)
Closed(some, tied) == \A link \in tied : link \cap some # {} => link \subseteq some

OnRound(some, tied, found, k) == IF k = 0 THEN some ELSE WithTied(found[k - 1], tied)

LEMMA RoundsExist ==
  ASSUME NEW some, NEW tied, NEW n \in Nat
  PROVE  \E found : found = [k \in 0 .. n |-> OnRound(some, tied, found, k)]
<1> DEFINE Runs(k) == \E found : found = [j \in 0 .. k |-> OnRound(some, tied, found, j)]
           T == {k \in Nat : ~ Runs(k)}
<1>1. SUFFICES ASSUME T # {} PROVE FALSE
  OBVIOUS
<1>2. PICK m \in T : \A k \in T : m <= k
  BY <1>1, LeastNumber
<1>3. CASE m = 0
  <2> DEFINE g == [j \in 0 .. 0 |-> some]
  <2>1. g = [j \in 0 .. 0 |-> OnRound(some, tied, g, j)]
    BY DEF OnRound
  <2>2. QED
    BY <1>3, <2>1
<1>4. CASE m # 0
  <2>1. m - 1 \in Nat /\ ~ (m - 1 \in T)
    BY <1>2, <1>4
  <2>2. PICK h : h = [j \in 0 .. m - 1 |-> OnRound(some, tied, h, j)]
    BY <2>1
  <2> DEFINE g == [j \in 0 .. m |-> IF j = m THEN OnRound(some, tied, h, m) ELSE h[j]]
  <2>3. ASSUME NEW j \in 0 .. m PROVE g[j] = OnRound(some, tied, g, j)
    <3>1. j # 0 => j - 1 \in 0 .. m /\ j - 1 # m
      BY <1>2
    <3>2. j # 0 => g[j - 1] = h[j - 1]
      BY <3>1
    <3>3. OnRound(some, tied, g, j) = OnRound(some, tied, h, j)
      BY <3>2 DEF OnRound
    <3>4. CASE j = m
      BY <3>3, <3>4
    <3>5. CASE j # m
      <4>1. j \in 0 .. m - 1
        BY <1>2, <3>5
      <4>2. h[j] = OnRound(some, tied, h, j)
        BY <2>2, <4>1
      <4>3. QED
        BY <3>3, <3>5, <4>2
    <3>6. QED
      BY <3>4, <3>5
  <2>4. g = [j \in 0 .. m |-> OnRound(some, tied, g, j)]
    BY <2>3
  <2>5. Runs(m)
    BY <2>4
  <2>6. QED
    BY <1>2, <2>5
<1>5. QED
  BY <1>3, <1>4

\* A round that finds nothing was made of a closed set, and every other one
\* finds another of the messages that are tied: so in as many rounds as there
\* are of those everything is found.
LEMMA ClosureCloses ==
  ASSUME NEW some, NEW tied, IsFiniteSet(UNION tied)
  PROVE  /\ Closed(Closure(some, tied), tied)
         /\ Closure(some, tied) \subseteq some \cup UNION tied
<1> DEFINE V == UNION tied
           n == Cardinality(V)
           found == CHOOSE f : f = [k \in 0 .. n |-> OnRound(some, tied, f, k)]
           Good(k) == /\ found[k] \subseteq some \cup V
                      /\ Closed(found[k], tied) \/ Cardinality(found[k] \cap V) > k
           Off == {k \in 0 .. n : ~ Good(k)}
<1>1. n \in Nat
  BY FS_CardinalityType
<1>2. found = [k \in 0 .. n |-> OnRound(some, tied, found, k)]
  BY <1>1, RoundsExist
<1>3. Closure(some, tied) = found[n]
  BY DEF Closure, OnRound
<1>4. \A S : /\ IsFiniteSet(S \cap V) /\ Cardinality(S \cap V) \in Nat
             /\ Cardinality(S \cap V) <= n
  BY FS_Subset, FS_CardinalityType
<1>5. \A link \in tied : link \subseteq V
  OBVIOUS
<1> HIDE DEF n, found
<1>6. ASSUME Off # {} PROVE FALSE
  <2>1. PICK m \in Off : \A k \in Off : m <= k
    <3>1. Off \subseteq Nat
      BY <1>1
    <3> HIDE DEF Off
    <3>2. QED
      BY <1>6, <3>1, LeastNumber
  <2>2. m \in 0 .. n /\ ~ Good(m) /\ found[m] = OnRound(some, tied, found, m)
    BY <1>2, <2>1
  <2>3. CASE m = 0
    <3>1. found[m] = some
      BY <2>2, <2>3 DEF OnRound
    <3>2. ASSUME ~ Closed(some, tied) PROVE Cardinality(some \cap V) > 0
      <4>1. some \cap V # {}
        BY <1>5, <3>2 DEF Closed
      <4>2. Cardinality(some \cap V) # 0
        BY <1>4, <4>1, FS_EmptySet
      <4>3. Cardinality(some \cap V) \in Nat
        BY <1>4
      <4>4. QED
        BY <4>2, <4>3
    <3>3. QED
      BY <2>2, <2>3, <3>1, <3>2
  <2>4. CASE m # 0
    <3>1. m - 1 \in 0 .. n /\ ~ (m <= m - 1) /\ m \in Nat
      BY <1>1, <2>2, <2>4
    <3> DEFINE before == found[m - 1]
               after == found[m]
    <3>2. Good(m - 1)
      BY <2>1, <3>1
    <3>3. after = WithTied(before, tied)
      BY <2>2, <2>4 DEF OnRound
    <3>4. before \subseteq some \cup V
      BY <3>2
    <3>5. Closed(before, tied) \/ Cardinality(before \cap V) > m - 1
      BY <3>2
    <3>6. ~ (after \subseteq some \cup V) \/ (~ Closed(after, tied) /\ ~ (Cardinality(after \cap V) > m))
      BY <2>2
    <3> HIDE DEF before, after, Good, Off
    <3>7. after \subseteq some \cup V /\ before \subseteq after
      BY <3>3, <3>4 DEF WithTied
    <3>8. CASE Closed(before, tied)
      <4>1. after = before
        BY <3>3, <3>8 DEF WithTied, Closed
      <4>2. QED
        BY <3>6, <3>7, <3>8, <4>1
    <3>9. CASE ~ Closed(before, tied)
      <4>1. PICK link \in tied : link \cap before # {} /\ ~ (link \subseteq before)
        BY <3>9 DEF Closed
      <4>2. PICK y \in link : y \notin before
        BY <4>1
      <4>3. y \in after \cap V /\ y \notin before \cap V
        BY <3>3, <4>1, <4>2 DEF WithTied
      <4>4. before \cap V \subseteq after \cap V /\ before \cap V # after \cap V
        BY <3>7, <4>3
      <4>5. Cardinality(before \cap V) < Cardinality(after \cap V)
        <5>1. IsFiniteSet(after \cap V) /\ Cardinality(after \cap V) \in Nat /\ Cardinality(before \cap V) \in Nat
          BY <1>4
        <5>2. /\ Cardinality(before \cap V) <= Cardinality(after \cap V)
              /\ (Cardinality(before \cap V) = Cardinality(after \cap V)
                    => before \cap V = after \cap V)
          BY <4>4, <5>1, FS_Subset
        <5>3. QED
          BY <4>4, <5>1, <5>2
      <4>6. Cardinality(after \cap V) > m
        <5>1. /\ Cardinality(before \cap V) \in Nat /\ Cardinality(after \cap V) \in Nat
              /\ Cardinality(before \cap V) > m - 1
          BY <1>4, <3>5, <3>9
        <5>2. QED
          BY <3>1, <4>5, <5>1
      <4>7. QED
        BY <3>6, <3>7, <4>6
    <3>10. QED
      BY <3>8, <3>9
  <2>5. QED
    BY <2>3, <2>4
<1>7. Good(n)
  <2>1. n \in 0 .. n
    BY <1>1
  <2> HIDE DEF Good
  <2>2. QED
    BY <1>6, <2>1
<1>8. ~ (Cardinality(found[n] \cap V) > n)
  <2>1. Cardinality(found[n] \cap V) \in Nat /\ Cardinality(found[n] \cap V) <= n
    BY <1>4
  <2>2. QED
    BY <1>1, <2>1
<1>9. QED
  BY <1>3, <1>7, <1>8

LEMMA ClosedTogether ==
  ASSUME NEW some, NEW others, NEW tied, Closed(some, tied), Closed(others, tied)
  PROVE  Closed(some \cup others, tied) /\ Closed(some \ others, tied)
<1>1. ASSUME NEW link \in tied, link \cap (some \cup others) # {}
      PROVE  link \subseteq some \cup others
  BY <1>1 DEF Closed
<1>2. ASSUME NEW link \in tied, link \cap (some \ others) # {}
      PROVE  link \subseteq some \ others
  <2>1. link \subseteq some /\ ~ (link \subseteq others)
    BY <1>2 DEF Closed
  <2>2. link \cap others = {}
    BY <2>1 DEF Closed
  <2>3. QED
    BY <2>1, <2>2
<1>3. QED
  BY <1>1, <1>2 DEF Closed

(***************************************************************************)
(* The states the session was in, each of which Enter would keep: what is  *)
(* kept is closed under the ties of the conversation that was opened, and  *)
(* every message still ties what it tied then.                             *)
(***************************************************************************)
Fits(state, messages, tied) ==
  /\ state.kept \subseteq DOMAIN messages /\ Closed(state.kept, tied)
  /\ state.body = [i \in DOMAIN messages |-> state.body[i]]
  /\ \A i \in DOMAIN messages : TiesAlike(i, state.body[i].content, messages[i].content)

OpenedInv ==
  /\ original \in Opened /\ original # <<>> /\ ~ Ambiguous(original)
  /\ links = {{pair[1], pair[2]} : pair \in Pairs(original)}

FitInv ==
  /\ OpenedInv /\ anchor \subseteq Numbers
  /\ \A k \in DOMAIN Trail : Fits(Trail[k], original, links)

LEMMA OpenedWell ==
  ASSUME OpenedInv
  PROVE  /\ Len(original) \in Nat /\ Numbers = 1 .. Len(original) /\ 1 \in Numbers
         /\ \A i \in Numbers : IsSeq(original[i].content)
         /\ \A pair \in Pairs(original) : pair[1] \in Numbers /\ pair[2] \in Numbers
         /\ UNION links \subseteq Numbers /\ IsFiniteSet(UNION links)
<1>1. IsSeq(original) /\ \A i \in DOMAIN original : IsSeq(original[i].content)
  BY OpenedAssumption DEF OpenedInv, IsSeq
<1>2. Len(original) \in Nat /\ Numbers = 1 .. Len(original) /\ 1 \in Numbers
  <2>1. Len(original) \in Nat /\ Len(original) > 0 /\ DOMAIN original = 1 .. Len(original)
    BY <1>1, Lengths DEF OpenedInv
  <2>2. QED
    BY <2>1 DEF Numbers
<1>3. \A i \in Numbers : IsSeq(original[i].content)
  BY <1>1 DEF Numbers
<1>4. \A pair \in Pairs(original) : pair[1] \in Numbers /\ pair[2] \in Numbers
  BY <1>2, <1>3, PairsWithin
<1>5. UNION links \subseteq Numbers
  BY <1>4 DEF OpenedInv
<1>6. IsFiniteSet(UNION links)
  <2>1. IsFiniteSet(1 .. Len(original))
    BY <1>2, FS_Interval
  <2>2. QED
    BY <1>2, <1>5, <2>1, FS_Subset
<1>7. QED
  BY <1>2, <1>3, <1>4, <1>5, <1>6

\* What a selection is tied to is messages of the conversation.
LEMMA SelectionWithin ==
  ASSUME OpenedInv, anchor \subseteq Numbers, cursor \in Numbers
  PROVE  /\ Closure(Selection, links) \subseteq Numbers
         /\ Closed(Closure(Selection, links), links)
<1>1. /\ Len(original) \in Nat /\ Numbers = 1 .. Len(original)
      /\ UNION links \subseteq Numbers /\ IsFiniteSet(UNION links)
  BY OpenedWell
<1>2. \A a, b \in Numbers : Between(a, b) \subseteq Numbers
  BY <1>1 DEF Between
<1>3. Selection \subseteq Numbers
  <2>1. CASE anchor = Nowhere
    BY <1>2, <2>1 DEF Selection
  <2>2. CASE anchor # Nowhere
    <3>1. (CHOOSE a \in anchor : TRUE) \in Numbers
      BY <2>2 DEF Nowhere
    <3>2. QED
      BY <1>2, <2>2, <3>1 DEF Selection
  <2>3. QED
    BY <2>1, <2>2
<1>4. QED
  BY <1>1, <1>3, ClosureCloses

LEMMA NowFits ==
  ASSUME EditorInv, FitInv
  PROVE  Fits(Now, original, links)
<1>1. PICK trail : Retraces(trail, undo, redo, Now)
  BY DEF EditorInv, TrailInv
<1>2. /\ Len(undo) \in Nat /\ Len(redo) \in Nat
      /\ Trail = [k \in 1 .. Len(undo) + 1 + Len(redo) |-> trail[k]]
  BY <1>1, NowIsAState, TrailIsTheTrail DEF Trail, EditorInv, TrailInv
<1>3. Len(undo) + 1 \in DOMAIN Trail /\ Trail[Len(undo) + 1] = Now
  BY <1>1, <1>2 DEF Retraces
<1>4. QED
  BY <1>3 DEF FitInv

\* After a change every state on the trail was on it before, but for the new one.
LEMMA RecordedStates ==
  ASSUME EditorInv, NEW step, Record(step), Undoes(Now, step, Now')
  PROVE  \A k \in DOMAIN Trail' :
           Trail'[k] = Now' \/ \E j \in DOMAIN Trail : Trail'[k] = Trail[j]
<1> DEFINE n == Len(undo)
           m == Len(redo)
<1>1. PICK trail : Retraces(trail, undo, redo, Now)
  BY DEF EditorInv, TrailInv
<1>2. /\ n \in Nat /\ m \in Nat /\ Trail = [k \in 1 .. n + 1 + m |-> trail[k]]
  BY <1>1, NowIsAState, TrailIsTheTrail DEF Trail, EditorInv, TrailInv
<1>3. /\ Retraces(Remembered(trail, Now'), undo', redo', Now')
      /\ IsSeq(undo') /\ redo' = <<>>
      /\ Len(undo') = IF n < Depth THEN n + 1 ELSE n
  BY <1>1, RecordTrail DEF EditorInv
<1>4. Trail' = [k \in 1 .. Len(undo') + 1 + 0 |-> Remembered(trail, Now')[k]]
  <2>1. IsState(Now') /\ IsSeq(<<>>) /\ Len(<<>>) = 0
    BY EmptySeq DEF IsState, Now, IsSeq
  <2>2. Trail' = TrailOf(undo', Now', redo')
    BY DEF Trail
  <2>3. QED
    BY <1>3, <2>1, <2>2, TrailIsTheTrail
<1> HIDE DEF m
<1>5. CASE n < Depth
  <2>1. Remembered(trail, Now') = Extended(trail, n, Now') /\ Len(undo') + 1 + 0 = n + 2
    BY <1>2, <1>3, <1>5 DEF Remembered
  <2> HIDE DEF n
  <2>2. ASSUME NEW k \in 1 .. n + 2
        PROVE  \/ Extended(trail, n, Now')[k] = Now'
               \/ k \in 1 .. n + 1 + m /\ Extended(trail, n, Now')[k] = trail[k]
    <3>1. Extended(trail, n, Now')[k] = IF k = n + 2 THEN Now' ELSE trail[k]
      BY DEF Extended
    <3>2. k # n + 2 => k \in 1 .. n + 1 + m
      BY <1>2
    <3>3. QED
      BY <3>1, <3>2
  <2>3. QED
    BY <1>2, <1>4, <2>1, <2>2
<1>6. CASE ~ (n < Depth)
  <2>1. /\ Remembered(trail, Now') = Extended(Later(trail, n), n - 1, Now')
        /\ Len(undo') + 1 + 0 = n + 1 /\ n \in Nat \ {0}
    BY <1>2, <1>3, <1>6, DepthAssumption DEF Remembered
  <2> HIDE DEF n
  <2>2. ASSUME NEW k \in 1 .. n + 1
        PROVE  \/ Extended(Later(trail, n), n - 1, Now')[k] = Now'
               \/ /\ k + 1 \in 1 .. n + 1 + m
                  /\ Extended(Later(trail, n), n - 1, Now')[k] = trail[k + 1]
    <3>1. (n - 1) + 2 = n + 1
      BY <2>1
    <3>2. Extended(Later(trail, n), n - 1, Now')[k]
            = IF k = n + 1 THEN Now' ELSE Later(trail, n)[k]
      BY <3>1 DEF Extended
    <3>3. k # n + 1 => k \in 1 .. n /\ k + 1 \in 1 .. n + 1 + m
      BY <1>2, <2>1
    <3>4. k # n + 1 => Later(trail, n)[k] = trail[k + 1]
      BY <3>3 DEF Later
    <3>5. QED
      BY <3>2, <3>3, <3>4
  <2>3. ASSUME NEW k \in 1 .. n + 1
        PROVE  Trail'[k] = Now' \/ \E j \in DOMAIN Trail : Trail'[k] = Trail[j]
    <3>1. Trail'[k] = Extended(Later(trail, n), n - 1, Now')[k]
      BY <1>4, <2>1
    <3>2. CASE /\ k + 1 \in 1 .. n + 1 + m
               /\ Extended(Later(trail, n), n - 1, Now')[k] = trail[k + 1]
      <4>1. k + 1 \in DOMAIN Trail /\ Trail[k + 1] = trail[k + 1]
        BY <1>2, <3>2
      <4>2. QED
        BY <3>1, <3>2, <4>1
    <3>3. QED
      BY <2>2, <3>1, <3>2
  <2>4. DOMAIN Trail' = 1 .. n + 1
    BY <1>4, <2>1
  <2>5. QED
    BY <2>3, <2>4
<1>7. QED
  BY <1>5, <1>6

LEMMA RecordFits ==
  ASSUME EditorInv, FitInv, NEW step, Record(step), Undoes(Now, step, Now'),
         UNCHANGED fixed, (anchor \subseteq Numbers)', Fits(Now', original, links)
  PROVE  FitInv'
<1>1. original' = original /\ links' = links
  BY DEF fixed
<1>2. OpenedInv'
  BY <1>1 DEF FitInv, OpenedInv
<1>3. \A k \in DOMAIN Trail' : Fits(Trail'[k], original, links)
  BY RecordedStates DEF FitInv
<1>4. QED
  BY <1>1, <1>2, <1>3 DEF FitInv

LEMMA OthersFit ==
  ASSUME FitInv, UNCHANGED Trail, UNCHANGED fixed, (anchor \subseteq Numbers)'
  PROVE  FitInv'
<1>1. original' = original /\ links' = links
  BY DEF fixed
<1>2. OpenedInv'
  BY <1>1 DEF FitInv, OpenedInv
<1>3. \A k \in DOMAIN Trail' : Fits(Trail'[k], original, links)
  BY DEF FitInv
<1>4. QED
  BY <1>1, <1>2, <1>3 DEF FitInv

LEMMA SelectionFits ==
  ASSUME EditorInv, FitInv, NEW next, OnSelection(next),
         next \subseteq Numbers, Closed(next, links)
  PROVE  FitInv'
<1>1. UNCHANGED <<fixed, body>> /\ kept' = next /\ (anchor \subseteq Numbers)'
  BY DEF OnSelection, Key, Commit, Nowhere
<1>2. CASE next = kept
  <2>1. UNCHANGED <<undo, redo, kept, body>>
    BY <1>1, <1>2 DEF OnSelection, Commit
  <2>2. UNCHANGED Trail
    BY <2>1 DEF Trail, Now
  <2>3. QED
    BY <1>1, <2>2, OthersFit
<1>3. CASE next # kept
  <2>1. Record(KeptStep(kept))
    BY <1>3 DEF OnSelection, Commit
  <2>2. Undoes(Now, KeptStep(kept), Now')
    BY <1>1, NowIsAState DEF Undoes, KeptStep, Now
  <2>3. Fits(Now', original, links)
    <3>1. Fits(Now, original, links)
      BY NowFits
    <3>2. Now'.kept = next /\ Now'.body = Now.body
      BY <1>1 DEF Now
    <3>3. QED
      BY <3>1, <3>2 DEF Fits, Numbers
  <2>4. QED
    BY <1>1, <2>1, <2>2, <2>3, RecordFits
<1>4. QED
  BY <1>2, <1>3

LEMMA RewriteFits ==
  ASSUME EditorInv, FitInv, ConcludeEdit
  PROVE  FitInv'
<1>1. PICK i \in editing : \E after \in Applied(body[i]) \ {body[i]} :
             Record(MessageStep(i, body[i], after)) /\ PutMessage(i, after)
  BY DEF ConcludeEdit
<1> PICK after \in Applied(body[i]) \ {body[i]} :
           Record(MessageStep(i, body[i], after)) /\ PutMessage(i, after)
  BY <1>1
<1>2. UNCHANGED <<fixed, kept, anchor>> /\ i \in Numbers
  BY DEF ConcludeEdit, EditorInv, BodyInv, selection
<1>3. body' = [body EXCEPT ![i] = after]
  BY <1>1 DEF PutMessage
<1>4. Undoes(Now, MessageStep(i, body[i], after), Now')
  BY <1>1, <1>2, RewriteIsUndone
<1>5. (anchor \subseteq Numbers)'
  BY <1>2 DEF FitInv, fixed, Numbers
<1>6. Fits(Now', original, links)
  <2>1. /\ kept \subseteq Numbers /\ Closed(kept, links)
        /\ body = [j \in Numbers |-> body[j]]
        /\ \A j \in Numbers : TiesAlike(j, body[j].content, original[j].content)
    BY NowFits DEF Fits, Now, Numbers
  <2>2. TiesAlike(i, after.content, body[i].content)
    <3>1. IsSeq(body[i].content)
      BY <1>2, <2>1 DEF TiesAlike
    <3>2. QED
      BY <3>1, AppliedTies
  <2>3. TiesAlike(i, after.content, original[i].content)
    BY <1>2, <2>1, <2>2 DEF TiesAlike
  <2>4. body' = [j \in Numbers |-> IF j = i THEN after ELSE body[j]]
    BY <1>3, <2>1
  <2>5. body' = [j \in Numbers |-> body'[j]]
    BY <2>4
  <2>6. \A j \in Numbers : TiesAlike(j, body'[j].content, original[j].content)
    BY <2>1, <2>3, <2>4
  <2>7. Now'.kept = kept /\ Now'.body = body'
    BY <1>2 DEF Now
  <2>8. QED
    BY <2>1, <2>5, <2>6, <2>7 DEF Fits, Numbers
<1>7. QED
  BY <1>1, <1>2, <1>4, <1>5, <1>6, RecordFits

LEMMA FitStarts == Init => FitInv
<1> SUFFICES ASSUME Init PROVE FitInv
  OBVIOUS
<1>1. /\ OpenedInv /\ body = original /\ anchor = Nowhere
      /\ undo = <<>> /\ redo = <<>> /\ IsSeq(<<>>) /\ Len(<<>>) = 0
  BY EmptySeq DEF Init, OpenedInv, IsSeq
<1>2. /\ Len(original) \in Nat /\ Numbers = 1 .. Len(original)
      /\ \A i \in Numbers : IsSeq(original[i].content)
      /\ UNION links \subseteq Numbers /\ IsFiniteSet(UNION links)
  BY <1>1, OpenedWell
<1>3. kept \subseteq Numbers /\ Closed(kept, links)
  <2>1. CASE kept = DOMAIN original
    BY <1>2, <2>1 DEF Closed, Numbers
  <2>2. ASSUME NEW a \in Numbers, NEW b \in a .. Len(original), kept = Closure(a .. b, links)
        PROVE  kept \subseteq Numbers /\ Closed(kept, links)
    <3>1. a .. b \subseteq Numbers
      BY <1>2
    <3>2. QED
      BY <1>2, <2>2, <3>1, ClosureCloses
  <2>3. QED
    BY <2>1, <2>2 DEF Init, Numbers
<1>4. Fits(Now, original, links)
  <2>1. IsSeq(original)
    BY <1>1, OpenedAssumption DEF OpenedInv, IsSeq
  <2>2. original = [i \in Numbers |-> original[i]]
    BY <1>2, <2>1, AsFunction
  <2>3. \A i \in Numbers : TiesAlike(i, original[i].content, original[i].content)
    BY <1>2 DEF TiesAlike
  <2>4. QED
    BY <1>1, <1>3, <2>2, <2>3 DEF Fits, Now, Numbers
<1>5. Trail = [k \in 1 .. 1 |-> Now]
  <2>1. Retraces([k \in {1} |-> Now], undo, redo, Now)
    BY <1>1 DEF Retraces, LeadsBack, LeadsOn
  <2>2. Trail = [k \in 1 .. Len(undo) + 1 + Len(redo) |-> [j \in {1} |-> Now][k]]
    BY <1>1, <2>1, NowIsAState, TrailIsTheTrail DEF Trail
  <2>3. Len(undo) + 1 + Len(redo) = 1
    BY <1>1
  <2>4. QED
    BY <2>2, <2>3
<1>6. QED
  BY <1>1, <1>4, <1>5 DEF FitInv, Nowhere

\* The session, whatever was done to it, is one Enter keeps.
LEMMA FitIsKept ==
  ASSUME EditorInv, FitInv
  PROVE  WhatIsKeptMayBeKept
<1>1. /\ Len(original) \in Nat /\ Numbers = 1 .. Len(original)
  BY OpenedWell DEF FitInv
<1>2. /\ kept \subseteq Numbers /\ Closed(kept, links)
      /\ body = [j \in Numbers |-> body[j]]
      /\ \A j \in Numbers : TiesAlike(j, body[j].content, original[j].content)
  BY NowFits DEF Fits, Now, Numbers
<1>3. Len(body) = Len(original) /\ DOMAIN body = Numbers
  <2>1. Len([k \in 1 .. Len(original) |-> body[k]]) = Len(original)
    BY <1>1, AsSequence
  <2>2. QED
    BY <1>1, <1>2, <2>1
<1>4. ToolPairs(body) = ToolPairs(original)
  BY <1>1, <1>2, <1>3, PairsAlike
<1>5. ~ Ambiguous(body) /\ Pairs(body) = Pairs(original)
  BY <1>4 DEF Ambiguous, Pairs, FitInv, OpenedInv
<1>6. ASSUME NEW pair \in Pairs(original) PROVE ~ Splits(pair, kept)
  <2>1. {pair[1], pair[2]} \in links
    BY DEF FitInv, OpenedInv
  <2>2. {pair[1], pair[2]} \cap kept # {} => {pair[1], pair[2]} \subseteq kept
    BY <1>2, <2>1 DEF Closed
  <2>3. QED
    BY <2>2 DEF Splits
<1>7. QED
  BY <1>2, <1>3, <1>5, <1>6 DEF WhatIsKeptMayBeKept, MayKeep

\* No step makes what is kept unfit.
LEMMA FitSteps ==
  ASSUME EditorInv, FitInv, [Next]_vars
  PROVE  FitInv'
<1>1. Numbers' = Numbers /\ UNCHANGED fixed
  BY DEF Next, vars, fixed, Numbers, Move, SelectRange, ToggleSelecting, MarkStart, MarkEnd,
    ClearSelection, Cut, Restore, Toggle, KeepOnly, OnSelection, TakeBack, DoAgain, BeginEdit,
    ConcludeEdit, AbandonEdit, Quit, Interrupt, Confirm, Key
<1>2. anchor \subseteq Numbers /\ cursor \in Numbers /\ 1 \in Numbers
  BY OpenedWell DEF FitInv, EditorInv, BodyInv
<1>3. /\ Closure(Selection, links) \subseteq Numbers
      /\ Closed(Closure(Selection, links), links)
  BY <1>2, SelectionWithin DEF FitInv
<1>4. kept \subseteq Numbers /\ Closed(kept, links)
  BY NowFits DEF Fits, Now, Numbers
<1>5. UNCHANGED <<undo, redo, kept, body>> => UNCHANGED Trail
  BY DEF Trail, Now
<1>6. CASE Cut
  BY <1>3, <1>4, <1>6, ClosedTogether, SelectionFits DEF Cut
<1>7. CASE Restore
  BY <1>3, <1>4, <1>7, ClosedTogether, SelectionFits DEF Restore
<1>8. CASE KeepOnly
  BY <1>3, <1>8, SelectionFits DEF KeepOnly
<1>9. CASE TakeBack
  <2>1. UNCHANGED Trail
    BY <1>9, BackIsOne DEF History!Back
  <2>2. (anchor \subseteq Numbers)'
    BY <1>9 DEF TakeBack, Nowhere
  <2>3. QED
    BY <1>1, <2>1, <2>2, OthersFit
<1>10. CASE DoAgain
  <2>1. UNCHANGED Trail
    BY <1>10, ForwardIsOne DEF History!Forward
  <2>2. (anchor \subseteq Numbers)'
    BY <1>10 DEF DoAgain, Nowhere
  <2>3. QED
    BY <1>1, <2>1, <2>2, OthersFit
<1>11. CASE ConcludeEdit
  BY <1>11, RewriteFits
<1>12. CASE \E i \in Numbers : Move(i) \/ (\E b \in Numbers : SelectRange(i, b))
  <2>1. (anchor \subseteq Numbers)' /\ UNCHANGED session
    BY <1>1, <1>2, <1>12 DEF Move, SelectRange
  <2>2. QED
    BY <1>1, <1>5, <2>1, OthersFit DEF session
<1>13. CASE ToggleSelecting \/ MarkStart \/ MarkEnd \/ ClearSelection
  <2>1. (anchor \subseteq Numbers)' /\ UNCHANGED session
    BY <1>1, <1>2, <1>13 DEF ToggleSelecting, MarkStart, MarkEnd, ClearSelection, Nowhere
  <2>2. QED
    BY <1>1, <1>5, <2>1, OthersFit DEF session
<1>14. CASE BeginEdit \/ AbandonEdit \/ Quit \/ Interrupt \/ Confirm \/ UNCHANGED vars
  <2>1. (anchor \subseteq Numbers)' /\ UNCHANGED session
    BY <1>1, <1>2, <1>14
    DEF BeginEdit, AbandonEdit, Quit, Interrupt, Confirm, vars, selection
  <2>2. QED
    BY <1>1, <1>5, <2>1, OthersFit DEF session
<1>15. CASE Toggle
  BY <1>6, <1>7, <1>15 DEF Toggle
<1>16. QED
  BY <1>6, <1>7, <1>8, <1>9, <1>10, <1>11, <1>12, <1>13, <1>14, <1>15 DEF Next

(***************************************************************************)
(* Theorems.                                                               *)
(***************************************************************************)
\* The inductive invariant holds in every reachable state.
THEOREM EditorInvariant == Spec => []EditorInv
<1>1. Init => EditorInv
  BY EditorStarts
<1>2. EditorInv /\ [Next]_vars => EditorInv'
  <2> SUFFICES ASSUME EditorInv, [Next]_vars PROVE EditorInv'
    OBVIOUS
  <2>1. cursor \in Numbers /\ editing \subseteq Numbers /\ LeftInv /\ Numbers' = Numbers
    BY DEF EditorInv, BodyInv, Next, vars, fixed, Numbers, Move, SelectRange, ToggleSelecting,
      MarkStart, MarkEnd, ClearSelection, Cut, Restore, Toggle, KeepOnly, OnSelection, TakeBack,
      DoAgain, BeginEdit, ConcludeEdit, AbandonEdit, Quit, Interrupt, Confirm, Key
  <2>2. CASE \E i \in Numbers : Move(i) \/ (\E b \in Numbers : SelectRange(i, b))
    BY <2>1, <2>2, OthersKeep DEF Move, SelectRange, Key, Disarmed, LeftInv
  <2>3. CASE ToggleSelecting \/ MarkStart \/ MarkEnd \/ ClearSelection
    BY <2>1, <2>3, OthersKeep
    DEF ToggleSelecting, MarkStart, MarkEnd, ClearSelection, Key, Disarmed, LeftInv
  <2>4. CASE Cut \/ Restore \/ Toggle \/ KeepOnly
    BY <2>4, SelectionKeeps DEF Cut, Restore, Toggle, KeepOnly
  <2>5. CASE TakeBack
    BY <2>5, TakeBackKeeps
  <2>6. CASE DoAgain
    BY <2>6, DoAgainKeeps
  <2>7. CASE BeginEdit
    BY <2>1, <2>7, OthersKeep DEF BeginEdit, Key, LeftInv, selection
  <2>8. CASE ConcludeEdit
    BY <2>8, ConcludeKeeps
  <2>9. CASE AbandonEdit
    BY <2>1, <2>9, OthersKeep DEF AbandonEdit, LeftInv, selection, session, Nowhere
  <2>10. CASE Quit \/ Interrupt \/ Confirm
    BY <2>1, <2>10, OthersKeep DEF Quit, Interrupt, Confirm, Key, LeftInv, selection, session
  <2>11. CASE UNCHANGED vars
    BY <2>1, <2>11, OthersKeep DEF vars, LeftInv, selection, session
  <2>12. QED
    BY <2>2, <2>3, <2>4, <2>5, <2>6, <2>7, <2>8, <2>9, <2>10, <2>11 DEF Next
<1>3. QED
  BY <1>1, <1>2, PTL DEF Spec

\* The messages that count as edited are those that differ from the ones the
\* editor opened, and nobody leaves unasked with anything changed, unless steps
\* were forgotten: for every length of the history and of the session.
THEOREM ChangesAreToldTheorem == Spec => []ChangesAreTold
<1>1. EditorInv => ChangesAreTold
  <2> SUFFICES ASSUME EditorInv PROVE ChangesAreTold
    OBVIOUS
  <2>1. edited = {i \in Numbers : body[i] # original[i]}
    BY DEF EditorInv, BodyInv
  <2>2. ASSUME ended = "unasked", ~ forgot PROVE body = original /\ kept = opening
    <3>1. undo = <<>> /\ Len(undo) = 0
      BY <2>2, EmptySeq DEF EditorInv, LeftInv
    <3>2. PICK trail : Retraces(trail, undo, redo, Now) /\ trail[1] = Opening
      BY <2>2 DEF EditorInv, TrailInv
    <3>3. trail[1] = Now
      BY <3>1, <3>2 DEF Retraces
    <3>4. QED
      BY <3>2, <3>3 DEF Now, Opening
  <2>3. QED
    BY <2>1, <2>2 DEF ChangesAreTold
<1>2. QED
  BY <1>1, EditorInvariant, PTL

\* Undo and redo go back and forth on one line of states, the kept messages and
\* every text together; a change ends the line in another state and forgets what
\* was undone, and of the past as many states are remembered as there is room
\* for.  The editor implements that history, step by step.
THEOREM HistoryIsLinearTheorem == Spec => HistoryIsLinear
<1>1. Init => History!Init
  BY HistoryStarts
<1>2. EditorInv /\ [Next]_vars
        => [History!Change \/ History!Back \/ History!Forward]_(History!history)
  <2> SUFFICES ASSUME EditorInv, [Next]_vars
               PROVE  \/ History!Change \/ History!Back \/ History!Forward
                      \/ UNCHANGED History!history
    OBVIOUS
  <2>1. CASE Cut \/ Restore \/ Toggle \/ KeepOnly
    BY <2>1, CommitIsOne DEF Cut, Restore, Toggle, KeepOnly
  <2>2. CASE TakeBack
    BY <2>2, BackIsOne
  <2>3. CASE DoAgain
    BY <2>3, ForwardIsOne
  <2>4. CASE ConcludeEdit
    BY <2>4, RewriteIsOne
  <2>5. CASE UNCHANGED session
    BY <2>5 DEF session, History!history, Trail, Now
  <2>6. QED
    BY <2>1, <2>2, <2>3, <2>4, <2>5
    DEF Next, vars, Move, SelectRange, ToggleSelecting, MarkStart, MarkEnd, ClearSelection,
        BeginEdit, AbandonEdit, Quit, Interrupt, Confirm
<1>3. QED
  BY <1>1, <1>2, EditorInvariant, PTL DEF Spec, HistoryIsLinear, History!Spec

\* Whatever was cut, restored, undone, done again and rewritten, Enter keeps what
\* is kept: no call is left without its result, and no result without its call,
\* for any conversation the editor opens and any ties in it.
THEOREM WhatIsKeptMayBeKeptTheorem == Spec => []WhatIsKeptMayBeKept
<1>1. Init => EditorInv /\ FitInv
  BY EditorStarts, FitStarts
<1>2. EditorInv /\ FitInv /\ [Next]_vars => FitInv'
  BY FitSteps
<1>3. EditorInv /\ FitInv => WhatIsKeptMayBeKept
  BY FitIsKept
<1>4. QED
  BY <1>1, <1>2, <1>3, EditorInvariant, PTL DEF Spec
=============================================================================
