------------------------------- MODULE HandOff -------------------------------
(***************************************************************************)
(* What pushes and blocking pops promise, with no mutex, no loop over a    *)
(* queue and no abandoned senders: each key has a list and a line of       *)
(* clients.  Elements meet clients head to head, and until they have,      *)
(* nobody else takes an element from the list or joins the line.  A client *)
(* may walk away while in line or with an element already in its hand; the *)
(* second is the only way an element is lost.                              *)
(***************************************************************************)
EXTENDS Integers, Sequences

CONSTANTS Clients, Keys, Elements, MaxBatch, NoElement

VARIABLES
    list,  \* per key, the elements waiting for clients
    line,  \* per key, the clients waiting for elements
    hand   \* per client, the element it has been handed

vars == <<list, line, hand>>

Init ==
    /\ list = [k \in Keys |-> << >>]
    /\ line = [k \in Keys |-> << >>]
    /\ hand = [c \in Clients |-> NoElement]

\* Elements are added at one end, whether or not anyone is in line.
Offer(k) ==
    /\ \E n \in 0 .. MaxBatch : \E b \in [1 .. n -> Elements] :
          list' = [list EXCEPT ![k] = @ \o b] \/ list' = [list EXCEPT ![k] = b \o @]
    /\ UNCHANGED <<line, hand>>

\* Elements leave from the front, or the whole list is overwritten, but never
\* ahead of a client in line.
Take(k) ==
    /\ line[k] = << >>
    /\ \E n \in 1 .. Len(list[k]) :
          list' = [list EXCEPT ![k] = SubSeq(@, n + 1, Len(@))]
    /\ UNCHANGED <<line, hand>>

\* A client in no line and with nothing in hand joins the back of the line for
\* a key that has nothing to offer.
JoinLine(c, k) ==
    /\ list[k] = << >>
    /\ hand[c] = NoElement
    /\ \A l \in Keys : \A i \in DOMAIN line[l] : line[l][i] # c
    /\ line' = [line EXCEPT ![k] = Append(@, c)]
    /\ UNCHANGED <<list, hand>>

\* The first in line is handed the first element.
Serve(k) ==
    /\ line[k] # << >>
    /\ list[k] # << >>
    /\ hand' = [hand EXCEPT ![Head(line[k])] = Head(list[k])]
    /\ line' = [line EXCEPT ![k] = Tail(@)]
    /\ list' = [list EXCEPT ![k] = Tail(@)]

\* A client is done with what it was handed, having read it or given up.
Finish(c) ==
    /\ hand[c] # NoElement
    /\ hand' = [hand EXCEPT ![c] = NoElement]
    /\ UNCHANGED <<list, line>>

\* A client walks away from its place in line.
Leave(c) ==
    /\ \E k \in Keys : \E i \in DOMAIN line[k] :
          /\ line[k][i] = c
          /\ line' = [line EXCEPT ![k] = SubSeq(@, 1, i - 1) \o SubSeq(@, i + 1, Len(@))]
    /\ UNCHANGED <<list, hand>>

Next ==
    \/ \E k \in Keys : Offer(k) \/ Take(k) \/ Serve(k)
    \/ \E c \in Clients : Finish(c) \/ Leave(c) \/ \E k \in Keys : JoinLine(c, k)

\* Elements and clients that can meet do, and what was handed over is used.
Fairness ==
    /\ \A k \in Keys : WF_vars(Serve(k))
    /\ \A c \in Clients : WF_vars(Finish(c))

Spec == Init /\ [][Next]_vars /\ Fairness
=============================================================================
