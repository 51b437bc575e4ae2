----------------------------- MODULE BlockFifo -----------------------------
(***************************************************************************)
(* What rtl/streamers/dropping_buffer.vhd promises to the receive streamer *)
(* that writes it and to the user who reads it: a bounded FIFO whose words *)
(* become readable in blocks.  A word is stored in the pending tail; the   *)
(* tail is later accepted (it joins the readable words) or dropped (it is  *)
(* gone).  Readable words leave in order, each once, and nothing leaves    *)
(* that was not accepted.  One step is one clock cycle, in which a word    *)
(* may leave, the tail may be closed and a word may be stored.             *)
(***************************************************************************)
EXTENDS Naturals, Sequences

CONSTANTS Data,       \* the words
          Capacity    \* how many words the FIFO holds, readable and pending

VARIABLES committed,  \* the accepted words the reader has not taken
          pending,    \* the words stored since the last accept or drop
          out,        \* the word on the output
          valid       \* the output shows a word taken in the last cycle

vars == <<committed, pending, out, valid>>

(* The word stored in a cycle, if any, as a sequence of at most one. *)
Stored == {<<>>} \cup {<<d>> : d \in Data}

(* The reader's half of a cycle: a readable word leaves, or none does. *)
Deliver == /\ committed # <<>>
           /\ out' = Head(committed)
           /\ valid' = TRUE
NoDelivery == valid' = FALSE /\ UNCHANGED out

(* The writer's half: `left` is what the reader left of the readable words.*)
Keep(left, new)   == committed' = left            /\ pending' = pending \o new
Accept(left, new) == committed' = left \o pending /\ pending' = new
Drop(left)        == committed' = left            /\ pending' = <<>>
Clear             == committed' = <<>>            /\ pending' = <<>>

Write(left) ==
  \/ \E new \in Stored :
       /\ Len(committed) + Len(pending) + Len(new) <= Capacity
       /\ Keep(left, new) \/ Accept(left, new)
  \/ Drop(left)
  \/ Clear

Init == /\ committed = <<>>
        /\ pending = <<>>
        /\ out \in Data
        /\ valid \in BOOLEAN

Next == \/ Deliver /\ Write(Tail(committed))
        \/ NoDelivery /\ Write(committed)

Spec == Init /\ [][Next]_vars
=============================================================================
