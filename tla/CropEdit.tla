------------------------------- MODULE CropEdit -------------------------------
(***************************************************************************)
(* The crop editor (pager.rs): the messages of a session that are kept,    *)
(* the selection the keys act on, the undo and redo histories, and the     *)
(* user's own editor through which the text of a message is changed        *)
(* (draft.rs).  Scrolling, the help page, the prompt while it is typed and *)
(* notices change none of it and are left out.                             *)
(***************************************************************************)
EXTENDS Cropping

CONSTANTS Opened,      \* the conversations the editor may be opened with
          Depth,       \* how many steps can be undone (500)
          MaxChanges   \* bound: how often the session is changed

ASSUME DepthAssumption == Depth \in Nat \ {0} /\ MaxChanges \in Nat
ASSUME OpenedAssumption ==
  \A b \in Opened : /\ b \in Seq(ToSet(b))
                     /\ \A i \in DOMAIN b : b[i].content \in Seq(ToSet(b[i].content))

VARIABLES
  original,   \* the messages as the editor opened them
  opening,    \* the numbers of those it kept when it opened (history)
  body,       \* the messages now
  links,      \* the numbers of messages tied by a call and its result
  kept,       \* the numbers of the messages that stay
  cursor, anchor,   \* the ends of the selection; anchor is a set of at most one
  undo, redo,       \* the steps that can be taken back, and those taken back
  edited,     \* the numbers of the messages whose text was changed
  editing,    \* the message out in the user's editor, a set of at most one
  mode,       \* "armed" after a first q
  ended,      \* how the editor was left
  changes, forgot   \* changes so far, and whether a step was forgotten (history)

selection == <<cursor, anchor>>
session == <<kept, body, undo, redo, edited, changes, forgot>>
fixed == <<original, opening, links>>
vars == <<fixed, session, selection, editing, mode, ended>>

Numbers == DOMAIN original
Nowhere == {}

KeptStep(before) == [kind |-> "kept", kept |-> before]
MessageStep(i, before, after) == [kind |-> "message", at |-> i, before |-> before, after |-> after]

(***************************************************************************)
(* The selection, and what is tied to it.                                  *)
(***************************************************************************)
Between(a, b) == IF a <= b THEN a .. b ELSE b .. a
Selection == Between(IF anchor = Nowhere THEN cursor ELSE CHOOSE a \in anchor : TRUE, cursor)

WithTied(some, tied) == some \cup UNION {link \in tied : link \cap some # {}}

\* The mutation that follows a tie once.
Closure_Fault(some, tied) == WithTied(some, tied)

\* What is tied to some, directly or through others: there is nothing more to
\* find after as many rounds as there are messages that are tied.
Closure(some, tied) ==
  LET rounds == Cardinality(UNION tied)
      found[k \in 0 .. rounds] == IF k = 0 THEN some ELSE WithTied(found[k - 1], tied)
  IN found[rounds]

(***************************************************************************)
(* A message as a text, and back: a section a block.  A text or a thought  *)
(* that is emptied is dropped, a call or a result never is; images and     *)
(* files are not in the text.  A call whose input changes is another tool, *)
(* and an emptied result is one that was rewritten.                        *)
(***************************************************************************)
Editable(block) == block.kind \in {"text", "thinking", "use", "result"}
HasDraft(message) == \E j \in DOMAIN message.content : Editable(message.content[j])

Rewritten == OwnWords
Reads(block) ==
  CASE block.kind \in {"text", "thinking"} ->
         {<<block>>, <<[kind |-> block.kind, v |-> Rewritten]>>, <<>>}
    [] block.kind = "use" -> {<<block>>, <<Use(block.id, "rewritten")>>}
    [] block.kind = "result" -> {<<block>>, <<Result(block.id, Rewritten, block.err)>>}
    [] OTHER -> {<<block>>}

WithSections(some, block) == {before \o section : before \in some, section \in Reads(block)}

\* Every message the file of one can be read back as, a block after the other.
Applied(message) ==
  LET content == message.content
      upTo[j \in 0 .. Len(content)] ==
        IF j = 0 THEN {<<>>} ELSE WithSections(upTo[j - 1], content[j])
  IN {Message(message.role, read) : read \in upTo[Len(content)]}

(***************************************************************************)
(* Opening: a session in which calls are ambiguous, or an empty one, is    *)
(* refused.  The range the command names is kept with what is tied to it,  *)
(* and that is no step to undo.                                            *)
(***************************************************************************)
Init ==
  /\ original \in {b \in Opened : b # <<>> /\ ~ Ambiguous(b)}
  /\ body = original
  /\ links = {{pair[1], pair[2]} : pair \in Pairs(original)}
  /\ \/ kept = DOMAIN original /\ cursor = 1
     \/ \E a \in DOMAIN original : \E b \in a .. Len(original) :
          kept = Closure(a .. b, links) /\ cursor = a
  /\ opening = kept /\ anchor = Nowhere
  /\ undo = <<>> /\ redo = <<>> /\ edited = {}
  /\ editing = Nowhere /\ mode = "editing" /\ ended = "no"
  /\ changes = 0 /\ forgot = FALSE

\* A key that reaches the crop editor.  Any key disarms q.
Key == ended = "no" /\ editing = Nowhere /\ UNCHANGED fixed
Disarmed == mode' = "editing" /\ UNCHANGED <<editing, ended>>

Move(i) == /\ Key /\ Disarmed /\ cursor' = i /\ UNCHANGED <<anchor, session>>
SelectRange(a, b) == /\ Key /\ Disarmed /\ a < b
                     /\ anchor' = {a} /\ cursor' = b /\ UNCHANGED session
ToggleSelecting == /\ Key /\ Disarmed
                   /\ anchor' = IF anchor = Nowhere THEN {cursor} ELSE Nowhere
                   /\ UNCHANGED <<cursor, session>>
MarkStart == /\ Key /\ Disarmed /\ anchor' = {cursor} /\ UNCHANGED <<cursor, session>>
MarkEnd == /\ Key /\ Disarmed
           /\ anchor' = IF anchor = Nowhere THEN {1} ELSE anchor
           /\ UNCHANGED <<cursor, session>>
ClearSelection == /\ Key /\ Disarmed /\ anchor # Nowhere
                  /\ anchor' = Nowhere /\ UNCHANGED <<cursor, session>>

(***************************************************************************)
(* Changes.  A change is remembered, the oldest one goes when there are    *)
(* more than Depth, and what was undone cannot be redone any more.         *)
(***************************************************************************)
\* The mutation that keeps what was undone.
Record_Fault(step) ==
  /\ changes < MaxChanges /\ changes' = changes + 1
  /\ undo' = IF Len(undo) < Depth THEN Append(undo, step) ELSE Append(Tail(undo), step)
  /\ forgot' = (forgot \/ Len(undo) >= Depth)
  /\ redo' = redo

Record(step) ==
  /\ changes < MaxChanges /\ changes' = changes + 1
  /\ undo' = IF Len(undo) < Depth THEN Append(undo, step) ELSE Append(Tail(undo), step)
  /\ forgot' = (forgot \/ Len(undo) >= Depth)
  /\ redo' = <<>>

Commit(next) ==
  /\ kept' = next
  /\ IF next = kept THEN UNCHANGED <<undo, redo, changes, forgot>> ELSE Record(KeptStep(kept))
  /\ UNCHANGED <<body, edited>>

OnSelection(next) == Key /\ Disarmed /\ Commit(next) /\ anchor' = Nowhere /\ UNCHANGED cursor

Cut == OnSelection(kept \ Closure(Selection, links))
Restore == OnSelection(kept \cup Closure(Selection, links))
Toggle == IF Selection \cap kept = {} THEN Restore ELSE Cut
KeepOnly == OnSelection(Closure(Selection, links))

\* The mutation that leaves the mark of an edit that was taken back.
PutMessage_Fault(i, message) ==
  /\ body' = [body EXCEPT ![i] = message]
  /\ edited' = edited \cup {i}

PutMessage(i, message) ==
  /\ body' = [body EXCEPT ![i] = message]
  /\ edited' = IF message = original[i] THEN edited \ {i} ELSE edited \cup {i}

TakeBack ==
  LET step == undo[Len(undo)]
  IN /\ Key /\ Disarmed /\ undo # <<>>
     /\ undo' = Front(undo) /\ anchor' = Nowhere
     /\ \/ /\ step.kind = "kept"
           /\ kept' = step.kept /\ redo' = Append(redo, KeptStep(kept))
           /\ UNCHANGED <<body, edited>>
        \/ /\ step.kind = "message"
           /\ PutMessage(step.at, step.before) /\ redo' = Append(redo, step)
           /\ UNCHANGED kept
     /\ UNCHANGED <<cursor, changes, forgot>>

DoAgain ==
  LET step == redo[Len(redo)]
  IN /\ Key /\ Disarmed /\ redo # <<>>
     /\ redo' = Front(redo) /\ anchor' = Nowhere
     /\ \/ /\ step.kind = "kept"
           /\ kept' = step.kept /\ undo' = Append(undo, KeptStep(kept))
           /\ UNCHANGED <<body, edited>>
        \/ /\ step.kind = "message"
           /\ PutMessage(step.at, step.after) /\ undo' = Append(undo, step)
           /\ UNCHANGED kept
     /\ UNCHANGED <<cursor, changes, forgot>>

(***************************************************************************)
(* The user's editor.  While it is open no key reaches the crop editor,    *)
(* but for the one that stops waiting for an editor in its own window.     *)
(***************************************************************************)
BeginEdit ==
  /\ Key /\ mode' = "editing"
  /\ cursor \in kept /\ HasDraft(body[cursor])
  /\ editing' = {cursor}
  /\ UNCHANGED <<session, selection, ended>>

ConcludeEdit ==
  /\ \E i \in editing : \E after \in Applied(body[i]) \ {body[i]} :
       Record(MessageStep(i, body[i], after)) /\ PutMessage(i, after)
  /\ editing' = Nowhere
  /\ UNCHANGED <<fixed, kept, selection, mode, ended>>

\* The text did not change or cannot be read back, the editor failed, or it
\* is not waited for any more.
AbandonEdit ==
  /\ editing # Nowhere /\ editing' = Nowhere
  /\ UNCHANGED <<fixed, session, selection, mode, ended>>

(***************************************************************************)
(* Leaving.                                                                *)
(***************************************************************************)
Quit ==
  /\ Key
  /\ \/ undo # <<>> /\ mode # "armed" /\ mode' = "armed" /\ UNCHANGED ended
     \/ undo = <<>> /\ mode # "armed" /\ ended' = "unasked" /\ mode' = "editing"
     \/ mode = "armed" /\ ended' = "asked" /\ mode' = "editing"
  /\ UNCHANGED <<session, selection, editing>>
Interrupt == Key /\ ended' = "interrupted" /\ mode' = "editing" /\ UNCHANGED <<session, selection, editing>>

Confirm ==
  /\ Key /\ MayKeep(body, kept)
  /\ ended' = "confirmed" /\ mode' = "editing"
  /\ UNCHANGED <<session, selection, editing>>

Next == \/ \E i \in Numbers : Move(i) \/ (\E b \in Numbers : SelectRange(i, b))
        \/ ToggleSelecting \/ MarkStart \/ MarkEnd \/ ClearSelection
        \/ Cut \/ Restore \/ Toggle \/ KeepOnly \/ TakeBack \/ DoAgain
        \/ BeginEdit \/ ConcludeEdit \/ AbandonEdit
        \/ Quit \/ Interrupt \/ Confirm

Spec == Init /\ [][Next]_vars

(***************************************************************************)
(* Properties.                                                             *)
(***************************************************************************)
\* Whatever was cut, restored, undone and rewritten, what is kept ties no
\* call to a result that is gone: Enter never refuses it.
WhatIsKeptMayBeKept == kept # {} => MayKeep(body, kept)

\* The editor says what was changed: the messages it counts as edited are
\* those that differ from the ones it opened, and it lets nobody leave
\* unasked who changed anything, unless steps were forgotten.
ChangesAreTold ==
  /\ edited = {i \in Numbers : body[i] # original[i]}
  /\ ended = "unasked" /\ ~ forgot => body = original /\ kept = opening

\* Undo and redo go back and forth over the states the session was in, the
\* kept messages and the text of all of them together.
Now == [kept |-> kept, body |-> body]
StepBack(state, step) ==
  IF step.kind = "kept" THEN [state EXCEPT !.kept = step.kept]
  ELSE [state EXCEPT !.body = [@ EXCEPT ![step.at] = step.before]]
StepOn(state, step) ==
  IF step.kind = "kept" THEN [state EXCEPT !.kept = step.kept]
  ELSE [state EXCEPT !.body = [@ EXCEPT ![step.at] = step.after]]

\* The states so many steps back from one, and so many steps on.
Backward(now, past) ==
  LET state[k \in 0 .. Len(past)] ==
        IF k = 0 THEN now ELSE StepBack(state[k - 1], past[Len(past) + 1 - k])
  IN state
Onward(now, future) ==
  LET state[k \in 0 .. Len(future)] ==
        IF k = 0 THEN now ELSE StepOn(state[k - 1], future[Len(future) + 1 - k])
  IN state

TrailOf(past, now, future) ==
  LET n == Len(past) + 1
  IN [k \in 1 .. n + Len(future) |->
        IF k <= n THEN Backward(now, past)[n - k] ELSE Onward(now, future)[k - n]]

Trail == TrailOf(undo, Now, redo)

History == INSTANCE LinearHistory WITH states <- Trail, at <- Len(undo) + 1
HistoryIsLinear == History!Spec
===============================================================================
