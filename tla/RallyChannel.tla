---------------------------- MODULE RallyChannel ----------------------------
(***************************************************************************)
(* What a live view may rely on (backend/internal/realtime, Broadcast): a  *)
(* lossy channel per subscriber.  A frame reaches it at most once, only    *)
(* while the frame is being broadcast and the subscriber is there, and     *)
(* what was accepted is delivered in the order of acceptance.  Frames may  *)
(* be missing; two views may see concurrent frames in different orders.    *)
(***************************************************************************)
EXTENDS Naturals, Sequences, SequencesExt

CONSTANTS Subscribers, Frames

VARIABLES
  open,     \* the subscribers that are connected
  sending,  \* the frames whose Broadcast has been called and has not returned
  over,     \* the frames whose Broadcast has returned
  pending,  \* what each subscriber has accepted and not written out
  got       \* what each client has received

vars == <<open, sending, over, pending, got>>

Init ==
  /\ open = {}
  /\ sending = {}
  /\ over = {}
  /\ pending = [s \in Subscribers |-> <<>>]
  /\ got = [s \in Subscribers |-> <<>>]

Open(s) ==
  /\ open' = open \cup {s}
  /\ UNCHANGED <<sending, over, pending, got>>

Call(f) ==
  /\ f \notin sending \cup over
  /\ sending' = sending \cup {f}
  /\ UNCHANGED <<open, over, pending, got>>

Accept(s, f) ==
  /\ s \in open
  /\ f \in sending
  /\ f \notin ToSet(pending[s]) \cup ToSet(got[s])
  /\ pending' = [pending EXCEPT ![s] = Append(@, f)]
  /\ UNCHANGED <<open, sending, over, got>>

Return(f) ==
  /\ f \in sending
  /\ sending' = sending \ {f}
  /\ over' = over \cup {f}
  /\ UNCHANGED <<open, pending, got>>

Deliver(s) ==
  /\ s \in open
  /\ pending[s] # <<>>
  /\ pending' = [pending EXCEPT ![s] = Tail(@)]
  /\ got' = [got EXCEPT ![s] = Append(@, Head(pending[s]))]
  /\ UNCHANGED <<open, sending, over>>

\* A view goes for good, with whatever it had not been given yet.
Leave(s) ==
  /\ open' = open \ {s}
  /\ pending' = [pending EXCEPT ![s] = <<>>]
  /\ UNCHANGED <<sending, over, got>>

Next ==
  \/ \E s \in Subscribers : Open(s) \/ Deliver(s) \/ Leave(s)
  \/ \E f \in Frames : Call(f) \/ Return(f)
  \/ \E s \in Subscribers, f \in Frames : Accept(s, f)

Spec == Init /\ [][Next]_vars

=============================================================================
