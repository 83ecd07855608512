------------------------ MODULE BlockingListsPromise ------------------------
(* BlockingLists implements HandOff.                                       *)
EXTENDS BlockingLists

\* The line as the abstract specification has it: the senders still open.
Open(queue) ==
    LET upto[i \in 0 .. Len(queue)] ==
            IF i = 0 THEN << >>
            ELSE upto[i - 1] \o (IF queue[i] = Gone THEN << >> ELSE <<queue[i]>>)
    IN  upto[Len(queue)]
OpenLine == [k \in Keys |-> Open(waiters[k])]

Promise == INSTANCE HandOff WITH list <- items, line <- OpenLine, hand <- slot

\* The loops over the queue, the abandoned senders and the timeouts implement
\* the direct hand-over of elements to clients, fairness included.
KeepsPromise == Promise!Spec
=============================================================================
