---------------------------- MODULE UserChannel -----------------------------
(***************************************************************************)
(* What the controllers and the goroutine of a user idler rely on when     *)
(* they meet at its channel: the idler takes the users one at a time, in   *)
(* the order in which they were accepted, each once, while it waits in its *)
(* select; and until it takes the next, the builds of the user it works on *)
(* are those it was sent.                                                  *)
(***************************************************************************)
EXTENDS Integers, Sequences

CONSTANTS
  Idlers,
  Nobody,   \* the builds of the user an idler starts with
  Capacity

VARIABLES
  offered,  \* for each idler, the users that handlers are about to send it
  queue,    \* the users accepted for each idler and not taken yet
  current,  \* the user it works on
  free      \* whether it waits for the next

channelVars == <<queue, current, free>>

ChannelInit ==
  /\ queue = [i \in Idlers |-> <<>>]
  /\ current = [i \in Idlers |-> Nobody]
  /\ free = [i \in Idlers |-> TRUE]

\* What is offered is the handlers' affair.
Accept(i) ==
  /\ Len(queue[i]) < Capacity
  /\ \E u \in offered[i] : queue' = [queue EXCEPT ![i] = Append(@, u)]
  /\ UNCHANGED <<current, free>>

Take(i) ==
  /\ free[i] /\ queue[i] # <<>>
  /\ current' = [current EXCEPT ![i] = Head(queue[i])]
  /\ queue' = [queue EXCEPT ![i] = Tail(@)]
  /\ free' = [free EXCEPT ![i] = FALSE]

\* It checks the same user again, or leaves.
Begin(i) ==
  /\ free[i]
  /\ free' = [free EXCEPT ![i] = FALSE]
  /\ UNCHANGED <<queue, current>>

End(i) ==
  /\ ~free[i]
  /\ free' = [free EXCEPT ![i] = TRUE]
  /\ UNCHANGED <<queue, current>>

ChannelNext ==
  \E i \in Idlers : Take(i) \/ Begin(i) \/ End(i) \/ Accept(i)

ChannelSpec == ChannelInit /\ [][ChannelNext]_channelVars
=============================================================================
