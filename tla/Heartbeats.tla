----------------------------- MODULE Heartbeats -----------------------------
(***************************************************************************)
(* What starts the reconciler's passes: the heartbeats of the lab hosts    *)
(* (lab_host/rabbitmq_publisher.py), the queue at the broker, the thread   *)
(* that consumes it and the periodic thread (rabbitmq_consumer.py), and    *)
(* the lock and the order of the hosts in reconcile_heartbeat_payload.     *)
(* What a pass does for a host is module Reconciler.                       *)
(*                                                                         *)
(* The queue is durable and its messages persistent. What a connection has *)
(* been delivered and has not acknowledged goes back to the queue with the *)
(* connection. The consumer connects once: its thread ends with its        *)
(* connection and starts again with the control plane.                     *)
(***************************************************************************)
EXTENDS Naturals, Sequences, FiniteSets, Functions

CONSTANTS
    N,          \* registered hosts, numbered by their ids
    Message,    \* heartbeats at the broker at one time; each is used again
    Prefetch,   \* basic_qos(prefetch_count=10)
    None,
    MaxFaults   \* bound on restarts, broken connections and failing hosts

Host == 1..N
Sender == 0..N  \* 0 is a lab host the registry does not know
Thread == {"consumer", "periodic"}

ASSUME SizeAssumption == N \in Nat \ {0} /\ Prefetch \in Nat \ {0}
ASSUME MessageAssumption == Message \cap (Sender \cup {None}) = {}
ASSUME NoneAssumption == None \notin Sender /\ None \notin Thread
ASSUME BoundAssumption == MaxFaults \in Nat

VARIABLES
    broker, queue, taken,   \* taken: delivered and not acknowledged
    bound,      \* the queue was declared and bound to the exchange
    from,       \* the sender of a message
    linked,     \* publishers with a connection
    conn,       \* the consumer's connection
    state,      \* where each thread is
    hand,       \* the message being handled
    lock,       \* _RECONCILE_LOCK
    left,       \* the hosts a pass has not come to
    down,       \* hosts at whose visit a call raises
    faults,
    \* history
    heard,      \* messages that were handled, to the end
    cut         \* messages that went back to the queue

mail == <<broker, queue, taken, bound, from, linked, conn>>
work == <<state, hand, lock, left>>
vars == <<mail, work, down, faults, heard, cut>>

Mail == Range(queue) \cup Range(taken)

TypeOK ==
    /\ broker \in {"up", "down"} /\ conn \in {"open", "broken"} /\ bound \in {"yes", "no"}
    /\ queue \in Seq(Message) /\ taken \in Seq(Message)
    /\ from \in [Message -> Sender \cup {None}]
    /\ linked \subseteq Sender
    /\ state \in [Thread -> {"start", "idle", "busy", "done", "raised", "dead"}]
    /\ hand \in Message \cup {None}
    /\ lock \in Thread \cup {None}
    /\ left \in [Thread -> Seq(Host)]
    /\ down \subseteq Host /\ faults \in 0..MaxFaults
    /\ heard \subseteq Message /\ cut \subseteq Message
    /\ conn = "open" => broker = "up" /\ bound = "yes"

Init ==
    /\ broker \in {"up", "down"} /\ bound = "no" /\ conn = "broken"
    /\ queue = <<>> /\ taken = <<>> /\ from = [m \in Message |-> None] /\ linked = {}
    /\ state = [t \in Thread |-> IF t = "consumer" THEN "start" ELSE "idle"]
    /\ hand = None /\ lock = None /\ left = [t \in Thread |-> <<>>]
    /\ down = {} /\ faults = 0 /\ heard = {} /\ cut = {}

Fault == faults < MaxFaults /\ faults' = faults + 1

\* mutation: basic_consume(auto_ack=True)
GiveBack_Nothing == queue' = queue /\ taken' = <<>> /\ cut' = cut

\* what was not acknowledged is at the head of the queue again
GiveBack ==
    /\ queue' = taken \o queue /\ taken' = <<>>
    /\ cut' = cut \cup Range(taken)

-----------------------------------------------------------------------------
(* Lab hosts: _publish_loop.                                               *)

Link(s) ==
    /\ broker = "up" /\ s \notin linked
    /\ linked' = linked \cup {s}
    /\ UNCHANGED <<broker, queue, taken, bound, from, conn, work, down, faults, heard, cut>>

\* an exchange to which no queue is bound drops the message
Publish(s) ==
    /\ s \in linked
    /\ \E m \in Message \ (Mail \cup {hand}) :
        IF bound = "yes"
        THEN /\ queue' = Append(queue, m) /\ from' = [from EXCEPT ![m] = s]
             /\ heard' = heard \ {m} /\ cut' = cut \ {m}
        ELSE UNCHANGED <<queue, from, heard, cut>>
    /\ UNCHANGED <<broker, taken, bound, linked, conn, work, down, faults>>

\* anything raises, and the loop connects again
Unlink(s) ==
    /\ Fault /\ s \in linked
    /\ linked' = linked \ {s}
    /\ UNCHANGED <<broker, queue, taken, bound, from, conn, work, down, heard, cut>>

-----------------------------------------------------------------------------
(* The consumer: _consume_forever.                                         *)

Start ==
    /\ state["consumer"] = "start"
    /\ IF broker = "up"
       THEN conn' = "open" /\ bound' = "yes" /\ state' = [state EXCEPT !["consumer"] = "idle"]
       ELSE UNCHANGED <<conn, bound>> /\ state' = [state EXCEPT !["consumer"] = "dead"]
    /\ UNCHANGED <<broker, queue, taken, from, linked, hand, lock, left, down, faults, heard, cut>>

\* the broker sends what the consumer may hold
Deliver ==
    /\ conn = "open" /\ queue # <<>> /\ Len(taken) < Prefetch
    /\ queue' = Tail(queue) /\ taken' = Append(taken, Head(queue))
    /\ UNCHANGED <<broker, bound, from, linked, conn, work, down, faults, heard, cut>>

\* what is known of a thread's call of the reconciler when it has ended
Ended(t, outcome) ==
    /\ state' = [state EXCEPT ![t] = outcome]
    /\ heard' = IF t = "consumer" THEN heard \cup ({hand'} \ {None}) ELSE heard

\* reconcile_heartbeat_payload is submitted: its pass begins, or is skipped
Enter(t, hosts) ==
    \/ lock = None /\ lock' = t /\ left' = [left EXCEPT ![t] = hosts]
       /\ state' = [state EXCEPT ![t] = "busy"] /\ heard' = heard
    \/ lock # None /\ UNCHANGED <<lock, left>> /\ Ended(t, "done")

\* mutation: ORDER BY id DESC
All_Descending == [i \in Host |-> N + 1 - i]

\* list_all
All == [i \in Host |-> i]

\* _on_message, handle_heartbeat
Take ==
    /\ state["consumer"] = "idle" /\ conn = "open" /\ taken # <<>>
    /\ hand' = Head(taken)
    /\ Enter("consumer", IF from[hand'] \in Host THEN <<from[hand']>> ELSE All)
    /\ UNCHANGED <<mail, down, faults, cut>>

\* mutation: basic_nack(requeue=True)
Answer_Requeue ==
    /\ state["consumer"] \in {"done", "raised"}
    /\ IF conn = "open"
       THEN /\ taken' = Tail(taken) /\ state' = [state EXCEPT !["consumer"] = "idle"]
            /\ queue' = IF state["consumer"] = "raised" THEN <<hand>> \o queue ELSE queue
       ELSE UNCHANGED <<taken, queue>> /\ state' = [state EXCEPT !["consumer"] = "dead"]
    /\ hand' = None
    /\ UNCHANGED <<broker, bound, from, linked, conn, lock, left, down, faults, heard, cut>>

\* mutation: nothing answers a payload whose pass raised
Answer_NoNack ==
    /\ state["consumer"] \in {"done", "raised"}
    /\ IF conn = "open"
       THEN /\ taken' = IF state["consumer"] = "raised" THEN taken ELSE Tail(taken)
            /\ state' = [state EXCEPT !["consumer"] = "idle"]
       ELSE UNCHANGED taken /\ state' = [state EXCEPT !["consumer"] = "dead"]
    /\ hand' = None
    /\ UNCHANGED <<broker, queue, bound, from, linked, conn, lock, left, down, faults, heard, cut>>

\* basic_ack, or basic_nack(requeue=False): either raises without a connection
Answer ==
    /\ state["consumer"] \in {"done", "raised"}
    /\ IF conn = "open"
       THEN taken' = Tail(taken) /\ state' = [state EXCEPT !["consumer"] = "idle"]
       ELSE UNCHANGED taken /\ state' = [state EXCEPT !["consumer"] = "dead"]
    /\ hand' = None
    /\ UNCHANGED <<broker, queue, bound, from, linked, conn, lock, left, down, faults, heard, cut>>

\* start_consuming raises
Die ==
    /\ state["consumer"] = "idle" /\ conn = "broken"
    /\ state' = [state EXCEPT !["consumer"] = "dead"]
    /\ UNCHANGED <<mail, hand, lock, left, down, faults, heard, cut>>

-----------------------------------------------------------------------------
(* The periodic thread, and the passes of both.                            *)

Wake ==
    /\ state["periodic"] = "idle"
    /\ Enter("periodic", All)
    /\ UNCHANGED <<mail, hand, down, faults, cut>>

\* _periodic_reconcile_forever catches whatever was raised
Rest ==
    /\ state["periodic"] \in {"done", "raised"}
    /\ state' = [state EXCEPT !["periodic"] = "idle"]
    /\ UNCHANGED <<mail, hand, lock, left, down, faults, heard, cut>>

\* _reconcile_for_host: what it raises ends the pass, and the lock is released
Visit(t) ==
    /\ left[t] # <<>> /\ UNCHANGED hand
    /\ IF Head(left[t]) \in down
       THEN left' = [left EXCEPT ![t] = <<>>] /\ lock' = None /\ Ended(t, "raised")
       ELSE /\ left' = [left EXCEPT ![t] = Tail(@)]
            /\ IF Tail(left[t]) # <<>> THEN UNCHANGED <<lock, state, heard>>
               ELSE lock' = None /\ Ended(t, "done")
    /\ UNCHANGED <<mail, down, faults, cut>>

-----------------------------------------------------------------------------
(* Faults.                                                                 *)

BrokerDown ==
    /\ Fault /\ broker = "up"
    /\ broker' = "down" /\ conn' = "broken" /\ linked' = {} /\ GiveBack
    /\ UNCHANGED <<bound, from, work, down, heard>>

BrokerUp ==
    /\ broker = "down" /\ broker' = "up"
    /\ UNCHANGED <<queue, taken, bound, from, linked, conn, work, down, faults, heard, cut>>

\* a pass longer than the connection's heartbeat lets the broker close it
Break ==
    /\ Fault /\ conn = "open"
    /\ conn' = "broken" /\ GiveBack
    /\ UNCHANGED <<broker, bound, from, linked, work, down, heard>>

\* the control plane restarts: start_consumer_thread
Restart ==
    /\ Fault
    /\ conn' = "broken" /\ GiveBack
    /\ state' = [t \in Thread |-> IF t = "consumer" THEN "start" ELSE "idle"]
    /\ hand' = None /\ lock' = None /\ left' = [t \in Thread |-> <<>>]
    /\ UNCHANGED <<broker, bound, from, linked, down, heard>>

HostDown(h) ==
    /\ Fault /\ down' = down \cup {h}
    /\ UNCHANGED <<mail, work, heard, cut>>

HostUp(h) ==
    /\ h \in down /\ down' = down \ {h}
    /\ UNCHANGED <<mail, work, faults, heard, cut>>

Next ==
    \/ \E s \in Sender : Link(s) \/ Publish(s) \/ Unlink(s)
    \/ Start \/ Deliver \/ Take \/ Answer \/ Die \/ Wake \/ Rest
    \/ \E t \in Thread : Visit(t)
    \/ BrokerDown \/ BrokerUp \/ Break \/ Restart
    \/ \E h \in Host : HostDown(h) \/ HostUp(h)

\* the broker delivers and the threads run; calls of a pass have timeouts
Fairness ==
    /\ WF_vars(Start) /\ WF_vars(Deliver) /\ WF_vars(Take) /\ WF_vars(Answer) /\ WF_vars(Die)
    /\ WF_vars(Wake) /\ WF_vars(Rest)
    /\ \A t \in Thread : WF_vars(Visit(t))

Spec == Init /\ [][Next]_vars
FairSpec == Spec /\ Fairness

-----------------------------------------------------------------------------

\* Every heartbeat the broker queued is at the broker once, or was handled to
\* the end: acknowledgements come after the pass, and what a broken connection
\* or a restart cuts short comes back (_on_message, basic_qos, durable queue).
NoneLost ==
    /\ \A m \in Message : from[m] # None => m \in Mail \cup heard
    /\ IsInjective(queue \o taken)

\* A heartbeat is handled again only if a connection was lost in between: one
\* whose pass raised is not put back (basic_nack with requeue=False).
OnceUnlessCut ==
    state["consumer"] = "busy" /\ hand \in heard => hand \in cut

\* One pass at a time, and the lock is its thread's: a thread that was refused
\* the lock leaves it alone (reconcile_heartbeat_payload).
OnePass ==
    \A t \in Thread : state[t] = "busy" <=> lock = t

\* While the consumer lives, every heartbeat is handled in the end, those of
\* hosts that fail and those that are skipped among the others.
Consumed ==
    \A m \in Message :
        m \in Mail \ heard ~> m \in heard \/ state["consumer"] = "dead"

VisitHost(h) == \E t \in Thread : left[t] # <<>> /\ Head(left[t]) = h /\ Visit(t)

\* A host is visited again and again if the hosts before it fail no more and
\* the periodic thread is not refused the lock for ever, whatever became of the
\* broker and of the consumer (_periodic_reconcile_forever, list_all).
Visited ==
    \A h \in Host :
        <>[](down \cap 1..(h - 1) = {}) /\ []<>(state["periodic"] = "busy")
            => []<><<VisitHost(h)>>_vars

=============================================================================
