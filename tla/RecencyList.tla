---------------------------- MODULE RecencyList -----------------------------
(***************************************************************************)
(* What a clipboard history promises about its texts: a list without       *)
(* repetition, ordered by last use, that loses entries at the old end or   *)
(* by removal of a chosen one.                                             *)
(***************************************************************************)
EXTENDS Naturals, Sequences, SequencesExt

CONSTANT Text

VARIABLE recent   \* the newest first

Init == recent = <<>>

\* a new text comes to the front; room is made at the old end
Add(text) ==
    /\ \A i \in DOMAIN recent : recent[i] # text
    /\ \E kept \in 0 .. Len(recent) + 1 :
           recent' = SubSeq(Cons(text, recent), 1, kept)

\* a text already held comes to the front
Touch(i) == recent' = Cons(recent[i], RemoveAt(recent, i))

Forget(i) == recent' = RemoveAt(recent, i)

Evict == \E kept \in 0 .. Len(recent) : recent' = SubSeq(recent, 1, kept)

Next ==
    \/ \E text \in Text : Add(text)
    \/ \E i \in DOMAIN recent : Touch(i)
    \/ \E i \in DOMAIN recent : Forget(i)
    \/ Evict

Spec == Init /\ [][Next]_recent
=============================================================================
