------------------------------ MODULE BytePipe ------------------------------
(***************************************************************************)
(* What a proxied connection promises for one direction: the bytes that    *)
(* one end has sent reach the other end in order, each of them once, and   *)
(* then the end of them does.  Bytes are numbered in the order of sending. *)
(* After a break the receiver may see an end early, but no gap.            *)
(***************************************************************************)
EXTENDS Naturals, Sequences

CONSTANT MaxBytes  \* bound: bytes sent, a natural number

VARIABLES
  sent,      \* number of bytes sent
  finished,  \* the sender will send no more
  received,  \* the bytes received
  ended,     \* the receiver has seen an end
  broken     \* an end has left, or something between them has failed

vars == <<sent, finished, received, ended, broken>>

FirstBytes(n) == [i \in 1 .. n |-> i]

Init ==
  /\ sent = 0
  /\ ~ finished
  /\ received = <<>>
  /\ ~ ended
  /\ ~ broken

Send ==
  /\ ~ finished /\ sent < MaxBytes
  /\ sent' = sent + 1
  /\ UNCHANGED <<finished, received, ended, broken>>

Finish ==
  /\ ~ finished
  /\ finished' = TRUE
  /\ UNCHANGED <<sent, received, ended, broken>>

Deliver ==
  /\ ~ ended
  /\ \E n \in Len(received) + 1 .. sent : received' = FirstBytes(n)
  /\ UNCHANGED <<sent, finished, ended, broken>>

End ==
  /\ ~ ended
  /\ broken \/ (finished /\ Len(received) = sent)
  /\ ended' = TRUE
  /\ UNCHANGED <<sent, finished, received, broken>>

(* The sender may be the one that breaks it. *)
Break ==
  /\ ~ broken
  /\ broken' = TRUE
  /\ finished' \in {finished, TRUE}
  /\ UNCHANGED <<sent, received, ended>>

Next == Send \/ Finish \/ Deliver \/ End \/ Break

(* All that is sent arrives, and the end of it when there is one, though   *)
(* neither end ever does more.                                             *)
Delivery ==
  []<>(broken \/ (Len(received) = sent /\ (finished => ended)))

Spec == Init /\ [][Next]_vars /\ Delivery
=============================================================================
