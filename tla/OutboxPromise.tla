---------------------------- MODULE OutboxPromise ----------------------------
(***************************************************************************)
(* What the outbox promises to the transaction that wrote an event: the    *)
(* event is owed until it was sent or until the relay has given it up in   *)
(* the open, and only a human takes a given-up event away.                 *)
(***************************************************************************)
CONSTANT Events

VARIABLES
    state,  \* "absent", "owed", "closed", "given_up" or "discarded"
    sent    \* the bus accepted the event at least once

vars == <<state, sent>>

Init ==
    /\ state = [e \in Events |-> "absent"]
    /\ sent = [e \in Events |-> FALSE]

\* The business transaction commits, with the event in it
Owe(e) ==
    /\ state[e] \in {"absent", "discarded"}
    /\ state' = [state EXCEPT ![e] = "owed"]
    /\ UNCHANGED sent

Send(e) ==
    /\ state[e] # "absent"
    /\ sent' = [sent EXCEPT ![e] = TRUE]
    /\ UNCHANGED state

\* One pass closes what was sent and gives up what could not be
Settle(Closed, Hopeless) ==
    /\ Closed \cap Hopeless = {}
    /\ \A e \in Closed \cup Hopeless : state[e] = "owed"
    /\ \A e \in Closed : sent[e]
    /\ state' = [e \in Events |-> CASE e \in Closed -> "closed"
                                    [] e \in Hopeless -> "given_up"
                                    [] OTHER -> state[e]]
    /\ UNCHANGED sent

\* The operator's two verbs touch only what was given up
Redrive(e) ==
    /\ state[e] = "given_up"
    /\ state' = [state EXCEPT ![e] = "owed"]
    /\ UNCHANGED sent

Discard(e) ==
    /\ state[e] = "given_up"
    /\ state' = [state EXCEPT ![e] = "discarded"]
    /\ UNCHANGED sent

Next ==
    \/ \E e \in Events : Owe(e) \/ Send(e) \/ Redrive(e) \/ Discard(e)
    \/ \E Closed, Hopeless \in SUBSET Events : Settle(Closed, Hopeless)

Spec == Init /\ [][Next]_vars
=============================================================================
