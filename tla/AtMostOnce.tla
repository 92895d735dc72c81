----------------------------- MODULE AtMostOnce -----------------------------
(* What the outbox of src/store.js promises to its users: the text of an      *)
(* operational event is typed into a terminal at most once, whatever crashes, *)
(* and an acknowledgement is recorded only for a text that was typed.         *)
CONSTANT Events

VARIABLES writes,   \* how often the text of an event was typed
          acked     \* the events whose acknowledgement is recorded

vars == <<writes, acked>>

Init == /\ writes = [e \in Events |-> 0]
        /\ acked = {}

Write(e) == /\ writes[e] = 0
            /\ writes' = [writes EXCEPT ![e] = 1]
            /\ UNCHANGED acked

Acknowledge(e) == /\ writes[e] = 1
                  /\ acked' = acked \union {e}
                  /\ UNCHANGED writes

Next == \E e \in Events : Write(e) \/ Acknowledge(e)

Spec == Init /\ [][Next]_vars
=============================================================================
