---------------------------- MODULE BoundedFifo ----------------------------
(* What a bounded queue promises: elements leave in the order they came,    *)
(* each once, and there are never more than Capacity of them.               *)
EXTENDS Naturals, Sequences

CONSTANTS Element, Capacity

VARIABLES items,  \* the elements, oldest first
          in,     \* the element the producer offered last
          out     \* the element handed to the consumer last

Init == items = <<>> /\ in \in Element /\ out \in Element

Offer(v) ==
  /\ in' = v
  /\ UNCHANGED <<items, out>>

Push ==
  /\ Len(items) < Capacity
  /\ items' = Append(items, in)
  /\ UNCHANGED <<in, out>>

Pop ==
  /\ items # <<>>
  /\ out' = Head(items)
  /\ items' = Tail(items)
  /\ UNCHANGED in

\* The oldest element is thrown away to make room in a full queue.
Drop ==
  /\ items # <<>>
  /\ Len(items) = Capacity
  /\ items' = Tail(items)
  /\ UNCHANGED <<in, out>>

Next == (\E v \in Element : Offer(v)) \/ Push \/ Pop \/ Drop

Spec == Init /\ [][Next]_<<items, in, out>>
=============================================================================
