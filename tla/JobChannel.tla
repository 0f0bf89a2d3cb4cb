----------------------------- MODULE JobChannel -----------------------------
(***************************************************************************)
(* What the RFS needs of the queue between its epoll thread and its pool:  *)
(* a channel that hands every job to exactly one worker, in the order the  *)
(* jobs came in.                                                           *)
(***************************************************************************)
EXTENDS Naturals, Sequences

CONSTANT Job

VARIABLES sent,    \* jobs deposited so far, oldest first
          taken    \* jobs handed to workers so far, oldest first

Init == sent = <<>> /\ taken = <<>>

Deposit == \E j \in Job : sent' = Append(sent, j) /\ UNCHANGED taken

Extract ==
  /\ Len(taken) < Len(sent)
  /\ taken' = Append(taken, sent[Len(taken) + 1])
  /\ UNCHANGED sent

Spec == Init /\ [][Deposit \/ Extract]_<<sent, taken>>

=============================================================================
