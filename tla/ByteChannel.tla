---------------------------- MODULE ByteChannel -----------------------------
(***************************************************************************)
(* What a serial line promises its two ends: the bytes sent arrive, whole, *)
(* in order and once.  Two may be under way: one on the wire, one already  *)
(* received and not yet taken.  Only a reset loses any.                    *)
(***************************************************************************)
EXTENDS Sequences, Naturals

CONSTANT Payload

VARIABLES queue,   \* bytes sent and not yet taken, oldest first
          taken,   \* the byte taken last
          resets   \* how many resets there have been

vars == <<queue, taken, resets>>

Init == queue = <<>> /\ taken \in Payload /\ resets = 0

Send(b) ==
  /\ Len(queue) < 2
  /\ queue' = Append(queue, b)
  /\ UNCHANGED <<taken, resets>>

Take ==
  /\ queue # <<>>
  /\ taken' = Head(queue)
  /\ queue' = Tail(queue)
  /\ UNCHANGED resets

\* What is left of the queue when any of its bytes may be lost.
Survivors == {<<>>} \union {SubSeq(queue, i, j) : i, j \in DOMAIN queue}

\* A byte may be sent on the edge of the reset.
Reset ==
  /\ resets' = resets + 1
  /\ \E b \in Payload, q \in Survivors : queue' \in {q, Append(q, b)}
  /\ UNCHANGED taken

Next == Take \/ Reset \/ \E b \in Payload : Send(b)

Safety == Init /\ [][Next]_vars

Spec == Safety /\ WF_vars(Take)
=============================================================================
