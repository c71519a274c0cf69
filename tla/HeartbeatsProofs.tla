-------------------------- MODULE HeartbeatsProofs --------------------------
(***************************************************************************)
(* Proofs about Heartbeats, for any hosts, messages, prefetch count and    *)
(* bound on faults: the type invariant, that no heartbeat is lost or       *)
(* handled twice without a break, and that one pass runs at a time.        *)
(***************************************************************************)
EXTENDS Heartbeats, SequenceTheorems, TLAPS

-----------------------------------------------------------------------------
(* Ranges and repetitions of sequences.                                    *)

LEMMA Joined ==
    ASSUME NEW S, NEW s \in Seq(S), NEW t \in Seq(S)
    PROVE  /\ Range(s \o t) = Range(s) \cup Range(t)
           /\ IsInjective(s \o t) <=>
                /\ IsInjective(s) /\ IsInjective(t)
                /\ Range(s) \cap Range(t) = {}
<1> DEFINE m == Len(s)
           n == Len(t)
           st == s \o t
<1>1. /\ st \in Seq(S) /\ m \in Nat /\ n \in Nat
      /\ DOMAIN s = 1..m /\ DOMAIN t = 1..n /\ DOMAIN st = 1..(m + n)
      /\ \A i \in 1..m : st[i] = s[i]
      /\ \A i \in 1..n : st[m + i] = t[i]
  BY ConcatProperties, LenProperties
<1> HIDE DEF m, n, st
<1>2. Range(st) = Range(s) \cup Range(t)
  BY RangeConcatenation DEF st
<1>3. ASSUME IsInjective(st)
      PROVE  IsInjective(s) /\ IsInjective(t) /\ Range(s) \cap Range(t) = {}
  <2>1. IsInjective(s)
    BY <1>1, <1>3 DEF IsInjective
  <2>2. IsInjective(t)
    <3> SUFFICES ASSUME NEW a \in 1..n, NEW b \in 1..n, t[a] = t[b] PROVE a = b
      BY <1>1 DEF IsInjective
    <3>1. m + a \in DOMAIN st /\ m + b \in DOMAIN st /\ st[m + a] = st[m + b]
      BY <1>1
    <3>2. m + a = m + b
      BY <1>3, <3>1 DEF IsInjective
    <3> QED BY <1>1, <3>2
  <2>3. ASSUME NEW a \in 1..m, NEW b \in 1..n, s[a] = t[b] PROVE FALSE
    <3>1. a \in DOMAIN st /\ m + b \in DOMAIN st /\ st[a] = st[m + b] /\ a # m + b
      BY <1>1, <2>3
    <3> QED BY <1>3, <3>1 DEF IsInjective
  <2> QED BY <1>1, <2>1, <2>2, <2>3 DEF Range
<1>4. ASSUME IsInjective(s), IsInjective(t), Range(s) \cap Range(t) = {}
      PROVE  IsInjective(st)
  <2>1. \A a \in 1..m, b \in 1..n : s[a] # t[b]
    BY <1>1, <1>4 DEF Range
  <2> SUFFICES ASSUME NEW a \in 1..(m + n), NEW b \in 1..(m + n), st[a] = st[b] PROVE a = b
    BY <1>1 DEF IsInjective
  <2>2. \A i \in 1..(m + n) : i \in 1..m \/ (i - m \in 1..n /\ st[i] = t[i - m])
    <3> SUFFICES ASSUME NEW i \in 1..(m + n), i \notin 1..m PROVE i - m \in 1..n /\ st[i] = t[i - m]
      OBVIOUS
    <3>1. i - m \in 1..n /\ m + (i - m) = i
      BY <1>1
    <3> QED BY <1>1, <3>1
  <2>3. CASE a \in 1..m /\ b \in 1..m
    BY <1>1, <1>4, <2>3 DEF IsInjective
  <2>4. CASE a \notin 1..m /\ b \notin 1..m
    <3>1. a - m \in DOMAIN t /\ b - m \in DOMAIN t /\ t[a - m] = t[b - m]
      BY <1>1, <2>2, <2>4
    <3>2. a - m = b - m
      BY <1>4, <3>1 DEF IsInjective
    <3> QED BY <1>1, <3>2
  <2>5. CASE a \in 1..m /\ b \notin 1..m
    BY <1>1, <2>1, <2>2, <2>5
  <2>6. CASE a \notin 1..m /\ b \in 1..m
    BY <1>1, <2>1, <2>2, <2>6
  <2> QED BY <2>3, <2>4, <2>5, <2>6
<1> QED BY <1>2, <1>3, <1>4 DEF st

LEMMA Shortened ==
    ASSUME NEW S, NEW s \in Seq(S), s # <<>>
    PROVE  /\ Head(s) \in S /\ Tail(s) \in Seq(S)
           /\ Range(s) = {Head(s)} \cup Range(Tail(s))
           /\ IsInjective(s) => IsInjective(Tail(s)) /\ Head(s) \notin Range(Tail(s))
<1>1. /\ Head(s) \in S /\ Tail(s) \in Seq(S) /\ Head(s) = s[1]
      /\ Len(s) \in Nat \ {0} /\ DOMAIN s = 1..Len(s) /\ DOMAIN Tail(s) = 1..(Len(s) - 1)
      /\ \A i \in 1..(Len(s) - 1) : Tail(s)[i] = s[i + 1]
  BY HeadTailProperties, LenProperties, EmptySeq
<1>2. Range(s) = {Head(s)} \cup Range(Tail(s))
  <2>1. \A i \in 1..Len(s) : i = 1 \/ (i - 1 \in 1..(Len(s) - 1) /\ s[i] = Tail(s)[i - 1])
    <3> SUFFICES ASSUME NEW i \in 1..Len(s), i # 1
                 PROVE  i - 1 \in 1..(Len(s) - 1) /\ s[i] = Tail(s)[i - 1]
      OBVIOUS
    <3>1. i - 1 \in 1..(Len(s) - 1) /\ (i - 1) + 1 = i
      BY <1>1
    <3> QED BY <1>1, <3>1
  <2>2. \A i \in 1..(Len(s) - 1) : i + 1 \in 1..Len(s)
    BY <1>1
  <2>3. ASSUME NEW x, x \in Range(s) PROVE x \in {Head(s)} \cup Range(Tail(s))
    <3>1. PICK i \in 1..Len(s) : x = s[i]
      BY <1>1, <2>3 DEF Range
    <3>2. CASE i = 1
      BY <1>1, <3>1, <3>2
    <3>3. CASE i # 1
      <4>1. i - 1 \in DOMAIN Tail(s) /\ x = Tail(s)[i - 1]
        BY <1>1, <2>1, <3>1, <3>3
      <4> QED BY <4>1 DEF Range
    <3> QED BY <3>2, <3>3
  <2>4. Range(Tail(s)) \subseteq Range(s)
    BY <1>1, <2>2 DEF Range
  <2>5. Head(s) \in Range(s)
    BY <1>1 DEF Range
  <2> QED BY <2>3, <2>4, <2>5
<1>3. ASSUME IsInjective(s)
      PROVE  IsInjective(Tail(s)) /\ Head(s) \notin Range(Tail(s))
  <2>1. \A i \in 1..(Len(s) - 1) : i + 1 \in DOMAIN s /\ 1 \in DOMAIN s /\ i + 1 # 1
    BY <1>1
  <2>2. ASSUME NEW a \in 1..(Len(s) - 1), NEW b \in 1..(Len(s) - 1), Tail(s)[a] = Tail(s)[b]
        PROVE  a = b
    <3>1. a + 1 = b + 1
      BY <1>1, <1>3, <2>1, <2>2 DEF IsInjective
    <3> QED BY <1>1, <3>1
  <2>3. \A i \in 1..(Len(s) - 1) : Tail(s)[i] # Head(s)
    BY <1>1, <1>3, <2>1 DEF IsInjective
  <2> QED BY <1>1, <2>2, <2>3 DEF IsInjective, Range
<1> QED BY <1>1, <1>2, <1>3

LEMMA Extended ==
    ASSUME NEW S, NEW s \in Seq(S), NEW e \in S
    PROVE  /\ Append(s, e) \in Seq(S) /\ Append(s, e) # <<>>
           /\ s # <<>> => Head(Append(s, e)) = Head(s)
           /\ Range(Append(s, e)) = Range(s) \cup {e}
           /\ IsInjective(s) /\ e \notin Range(s) => IsInjective(Append(s, e))
<1>1. /\ Append(s, e) \in Seq(S) /\ Append(s, e) # <<>>
      /\ s # <<>> => Head(Append(s, e)) = Head(s)
  BY AppendProperties, HeadTailAppend
<1>2. /\ Len(s) \in Nat /\ DOMAIN s = 1..Len(s) /\ DOMAIN Append(s, e) = 1..(Len(s) + 1)
      /\ \A i \in 1..Len(s) : Append(s, e)[i] = s[i]
      /\ Append(s, e)[Len(s) + 1] = e
  BY <1>1, AppendProperties, LenProperties
<1>3. 1..(Len(s) + 1) = 1..Len(s) \cup {Len(s) + 1}
  BY <1>2
<1>4. Range(Append(s, e)) = Range(s) \cup {e}
  BY <1>2, <1>3 DEF Range
<1>5. ASSUME IsInjective(s), e \notin Range(s) PROVE IsInjective(Append(s, e))
  <2>1. \A i \in 1..Len(s) : s[i] # e
    BY <1>2, <1>5 DEF Range
  <2> QED BY <1>2, <1>3, <1>5, <2>1 DEF IsInjective
<1> QED BY <1>1, <1>4, <1>5

LEMMA Nothing == Range(<<>>) = {} /\ IsInjective(<<>>)
  BY DEF Range, IsInjective

-----------------------------------------------------------------------------
(* The inductive invariant.                                                *)

(* Where the threads are: a pass has hosts left as long as its thread is    *)
(* busy, which is as long as it has the lock.                               *)
Control ==
    /\ OnePass
    /\ \A t \in Thread : left[t] # <<>> <=> state[t] = "busy"
    /\ hand # None <=> state["consumer"] \in {"busy", "done", "raised"}

(* Where the heartbeats are: none is twice at the broker, the one in hand   *)
(* is the oldest of those delivered or went back, and one that is at the    *)
(* broker after it was handled went back or is about to be acknowledged.    *)
Handling ==
    /\ IsInjective(queue) /\ IsInjective(taken) /\ Range(queue) \cap Range(taken) = {}
    /\ hand # None /\ conn = "open" => taken # <<>> /\ hand = Head(taken)
    /\ hand # None /\ conn = "broken" => hand \in cut
    /\ state["consumer"] \in {"done", "raised"} => hand \in heard
    /\ \A m \in Mail \cap heard : m \in cut \/ (m = hand /\ state["consumer"] \in {"done", "raised"})
    /\ \A m \in Message : from[m] # None => m \in Mail \cup heard

IInv == TypeOK /\ Control /\ Handling

\* The invariant gives the properties.
LEMMA Properties == IInv => NoneLost /\ OnceUnlessCut /\ OnePass
<1> SUFFICES ASSUME IInv PROVE NoneLost /\ OnceUnlessCut /\ OnePass
  OBVIOUS
<1>1. NoneLost
  <2>1. IsInjective(queue \o taken)
    BY Joined DEF IInv, TypeOK, Handling
  <2> QED BY <2>1 DEF IInv, Handling, NoneLost
<1>2. OnceUnlessCut
  <2> SUFFICES ASSUME state["consumer"] = "busy", hand \in heard PROVE hand \in cut
    BY DEF OnceUnlessCut
  <2>1. hand # None /\ conn \in {"open", "broken"}
    BY DEF IInv, TypeOK, Control
  <2>2. CASE conn = "open"
    <3>1. hand \in Mail
      BY <2>1, <2>2, Shortened DEF IInv, TypeOK, Handling, Mail
    <3> QED BY <3>1 DEF IInv, Handling
  <2>3. CASE conn = "broken"
    BY <2>1, <2>3 DEF IInv, Handling
  <2> QED BY <2>1, <2>2, <2>3
<1> QED BY <1>1, <1>2 DEF IInv, Control

LEMMA InitHolds == Init => IInv
<1> SUFFICES ASSUME Init PROVE IInv
  OBVIOUS
<1>1. TypeOK
  BY BoundAssumption, SizeAssumption, EmptySeq DEF Init, TypeOK, Thread
<1>2. Control
  BY NoneAssumption DEF Init, Control, OnePass, Thread
<1>3. Handling
  <2>1. queue = <<>> /\ taken = <<>> /\ hand = None /\ Mail = {}
    BY Nothing DEF Init, Mail
  <2>2. IsInjective(queue) /\ IsInjective(taken) /\ Range(queue) \cap Range(taken) = {}
    BY <2>1, Nothing
  <2>3. state["consumer"] = "start" /\ \A m \in Message : from[m] = None
    BY DEF Init, Thread
  <2> QED BY <2>1, <2>2, <2>3 DEF Handling
<1> QED BY <1>1, <1>2, <1>3 DEF IInv

-----------------------------------------------------------------------------
(* Steps.                                                                  *)

LEMMA LinkHolds == ASSUME IInv, NEW s \in Sender, Link(s) PROVE IInv'
<1>1. TypeOK'
  BY DEF IInv, TypeOK, Link, work
<1>2. Control' /\ Handling'
  BY DEF IInv, Control, OnePass, Handling, Mail, Link, work
<1> QED BY <1>1, <1>2 DEF IInv

LEMMA UnlinkHolds == ASSUME IInv, NEW s \in Sender, Unlink(s) PROVE IInv'
<1>1. TypeOK'
  BY BoundAssumption DEF IInv, TypeOK, Unlink, Fault, work
<1>2. Control' /\ Handling'
  BY DEF IInv, Control, OnePass, Handling, Mail, Unlink, work
<1> QED BY <1>1, <1>2 DEF IInv

LEMMA PublishHolds == ASSUME IInv, NEW s \in Sender, Publish(s) PROVE IInv'
<1>1. PICK m \in Message \ (Mail \cup {hand}) :
        IF bound = "yes"
        THEN /\ queue' = Append(queue, m) /\ from' = [from EXCEPT ![m] = s]
             /\ heard' = heard \ {m} /\ cut' = cut \ {m}
        ELSE UNCHANGED <<queue, from, heard, cut>>
  BY DEF Publish
<1>2. UNCHANGED <<broker, taken, bound, linked, conn, work, down, faults>>
  BY DEF Publish
<1>3. CASE bound = "yes"
  <2>1. /\ Append(queue, m) \in Seq(Message)
        /\ Range(queue') = Range(queue) \cup {m}
        /\ IsInjective(queue')
    <3>1. /\ queue \in Seq(Message) /\ IsInjective(queue) /\ m \in Message /\ m \notin Range(queue)
          /\ queue' = Append(queue, m)
      BY <1>1, <1>3 DEF IInv, TypeOK, Handling, Mail
    <3> QED BY <3>1, Extended
  <2>2. TypeOK'
    BY <1>1, <1>2, <1>3, <2>1 DEF IInv, TypeOK, work
  <2>3. Control'
    BY <1>2 DEF IInv, Control, OnePass, work
  <2>4. Mail' = Mail \cup {m}
    BY <1>2, <2>1 DEF Mail
  <2>5. m \notin Range(taken) /\ m # hand
    BY DEF Mail
  <2>6. Handling'
    BY <1>1, <1>2, <1>3, <2>1, <2>4, <2>5 DEF IInv, TypeOK, Handling, work
  <2> QED BY <2>2, <2>3, <2>6 DEF IInv
<1>4. CASE bound # "yes"
  <2>1. UNCHANGED <<queue, from, heard, cut>>
    BY <1>1, <1>4
  <2>2. TypeOK'
    BY <1>2, <2>1 DEF IInv, TypeOK, work
  <2>3. Control' /\ Handling'
    BY <1>2, <2>1 DEF IInv, Control, OnePass, Handling, Mail, work
  <2> QED BY <2>2, <2>3 DEF IInv
<1> QED BY <1>3, <1>4

LEMMA StartHolds == ASSUME IInv, Start PROVE IInv'
<1>1. /\ state["consumer"] = "start" /\ state'["consumer"] \in {"idle", "dead"}
      /\ state' \in [Thread -> {"start", "idle", "busy", "done", "raised", "dead"}]
      /\ \A t \in Thread \ {"consumer"} : state'[t] = state[t]
  BY DEF Start, IInv, TypeOK, Thread
<1>2. TypeOK'
  BY <1>1 DEF IInv, TypeOK, Start
<1>3. Control'
  BY <1>1 DEF IInv, Control, OnePass, Start, Thread
<1>4. hand = None
  BY <1>1 DEF IInv, Control
<1>5. Handling'
  BY <1>1, <1>4 DEF IInv, Handling, Mail, Start
<1> QED BY <1>2, <1>3, <1>5 DEF IInv

LEMMA DeliverHolds == ASSUME IInv, Deliver PROVE IInv'
<1>1. /\ queue # <<>> /\ conn = "open"
      /\ queue' = Tail(queue) /\ taken' = Append(taken, Head(queue))
      /\ UNCHANGED <<broker, bound, from, linked, conn, work, down, faults, heard, cut>>
  BY DEF Deliver
<1>2. /\ queue \in Seq(Message) /\ taken \in Seq(Message)
      /\ IsInjective(queue) /\ IsInjective(taken) /\ Range(queue) \cap Range(taken) = {}
  BY DEF IInv, TypeOK, Handling
<1>3. /\ Head(queue) \in Message /\ queue' \in Seq(Message)
      /\ Range(queue) = {Head(queue)} \cup Range(queue')
      /\ IsInjective(queue') /\ Head(queue) \notin Range(queue')
  BY <1>1, <1>2, Shortened
<1>4. /\ taken' \in Seq(Message) /\ taken' # <<>>
      /\ taken # <<>> => Head(taken') = Head(taken)
      /\ Range(taken') = Range(taken) \cup {Head(queue)}
      /\ IsInjective(taken')
  BY <1>1, <1>2, <1>3, Extended
<1>5. TypeOK'
  BY <1>1, <1>3, <1>4 DEF IInv, TypeOK, work
<1>6. Control'
  BY <1>1 DEF IInv, Control, OnePass, work
<1>7. Mail' = Mail /\ Range(queue') \cap Range(taken') = {}
  BY <1>2, <1>3, <1>4 DEF Mail
<1>8. Handling'
  BY <1>1, <1>3, <1>4, <1>7 DEF IInv, Handling, work
<1> QED BY <1>5, <1>6, <1>8 DEF IInv

\* A thread is given the lock with hosts to visit, or is done.
LEMMA Entered ==
    ASSUME IInv, NEW t \in Thread, NEW hosts \in Seq(Host), hosts # <<>>,
           state[t] = "idle", Enter(t, hosts)
    PROVE  /\ state' \in [Thread -> {"start", "idle", "busy", "done", "raised", "dead"}]
           /\ \A u \in Thread \ {t} : state'[u] = state[u]
           /\ state'[t] \in {"busy", "done"}
           /\ lock' \in Thread \cup {None}
           /\ left' \in [Thread -> Seq(Host)]
           /\ OnePass'
           /\ \A u \in Thread : left'[u] # <<>> <=> state'[u] = "busy"
           /\ heard' = IF t = "consumer" /\ state'[t] = "done" THEN heard \cup ({hand'} \ {None})
                       ELSE heard
<1>1. /\ state \in [Thread -> {"start", "idle", "busy", "done", "raised", "dead"}]
      /\ lock \in Thread \cup {None} /\ left \in [Thread -> Seq(Host)]
      /\ \A u \in Thread : state[u] = "busy" <=> lock = u
      /\ \A u \in Thread : left[u] # <<>> <=> state[u] = "busy"
  BY DEF IInv, TypeOK, Control, OnePass
<1>2. CASE /\ lock = None /\ lock' = t /\ left' = [left EXCEPT ![t] = hosts]
           /\ state' = [state EXCEPT ![t] = "busy"] /\ heard' = heard
  BY <1>1, <1>2, NoneAssumption DEF OnePass
<1>3. CASE lock # None /\ UNCHANGED <<lock, left>> /\ Ended(t, "done")
  BY <1>1, <1>3 DEF OnePass, Ended
<1> QED BY <1>2, <1>3 DEF Enter

LEMMA HostLists == All \in Seq(Host) /\ All # <<>> /\ \A h \in Host : <<h>> \in Seq(Host) /\ <<h>> # <<>>
<1>1. All \in Seq(Host)
  BY SizeAssumption, SeqDef DEF All, Host
<1>2. 1 \in DOMAIN All
  BY SizeAssumption DEF All, Host
<1> QED BY <1>1, <1>2

LEMMA TakeHolds == ASSUME IInv, Take PROVE IInv'
<1> DEFINE hosts == IF from[hand'] \in Host THEN <<from[hand']>> ELSE All
<1>1. /\ state["consumer"] = "idle" /\ conn = "open" /\ taken # <<>> /\ hand' = Head(taken)
      /\ Enter("consumer", hosts)
      /\ UNCHANGED <<mail, down, faults, cut>>
  BY DEF Take
<1>2. hosts \in Seq(Host) /\ hosts # <<>>
  BY HostLists
<1>3. taken \in Seq(Message) /\ Range(taken) \subseteq Mail
  BY DEF IInv, TypeOK, Mail
<1>4. hand' \in Message /\ hand' \in Mail /\ hand' # None
  BY <1>1, <1>3, Shortened, MessageAssumption
<1> HIDE DEF hosts
<1>5. /\ state' \in [Thread -> {"start", "idle", "busy", "done", "raised", "dead"}]
      /\ state'["consumer"] \in {"busy", "done"}
      /\ lock' \in Thread \cup {None}
      /\ left' \in [Thread -> Seq(Host)]
      /\ OnePass'
      /\ \A u \in Thread : left'[u] # <<>> <=> state'[u] = "busy"
      /\ heard' = IF state'["consumer"] = "done" THEN heard \cup {hand'} ELSE heard
  BY <1>1, <1>2, <1>4, Entered DEF Thread
<1>6. TypeOK'
  BY <1>1, <1>4, <1>5 DEF IInv, TypeOK, mail
<1>7. Control'
  BY <1>4, <1>5 DEF Control
<1>8. hand = None /\ Mail' = Mail
  BY <1>1 DEF IInv, Control, Mail, mail
<1>9. Handling'
  BY <1>1, <1>4, <1>5, <1>8 DEF IInv, TypeOK, Handling, mail
<1> QED BY <1>6, <1>7, <1>9 DEF IInv

LEMMA AnswerHolds == ASSUME IInv, Answer PROVE IInv'
<1>1. /\ state["consumer"] \in {"done", "raised"} /\ hand' = None
      /\ UNCHANGED <<broker, queue, bound, from, linked, conn, lock, left, down, faults, heard, cut>>
      /\ IF conn = "open"
         THEN taken' = Tail(taken) /\ state' = [state EXCEPT !["consumer"] = "idle"]
         ELSE UNCHANGED taken /\ state' = [state EXCEPT !["consumer"] = "dead"]
  BY DEF Answer
<1>2. /\ state' \in [Thread -> {"start", "idle", "busy", "done", "raised", "dead"}]
      /\ state'["consumer"] \in {"idle", "dead"}
      /\ \A t \in Thread \ {"consumer"} : state'[t] = state[t]
  BY <1>1 DEF IInv, TypeOK, Thread
<1>3. Control'
  BY <1>1, <1>2 DEF IInv, Control, OnePass, Thread
<1>4. hand # None /\ hand \in heard /\ taken \in Seq(Message)
  BY <1>1 DEF IInv, TypeOK, Control, Handling
<1>5. CASE conn = "open"
  <2>1. taken # <<>> /\ hand = Head(taken)
    BY <1>4, <1>5 DEF IInv, Handling
  <2>2. /\ taken' \in Seq(Message) /\ Range(taken) = {hand} \cup Range(taken')
        /\ IsInjective(taken') /\ hand \notin Range(taken')
    <3>1. taken' = Tail(taken) /\ IsInjective(taken)
      BY <1>1, <1>5 DEF IInv, Handling
    <3> QED BY <1>4, <2>1, <3>1, Shortened
  <2>3. TypeOK'
    BY <1>1, <1>2, <2>2 DEF IInv, TypeOK
  <2>4. Mail' = Mail \ {hand}
    BY <1>1, <2>2 DEF IInv, Handling, Mail
  <2>5. Handling'
    BY <1>1, <1>2, <1>4, <2>2, <2>4 DEF IInv, Handling
  <2> QED BY <1>3, <2>3, <2>5 DEF IInv
<1>6. CASE conn # "open"
  <2>1. TypeOK'
    BY <1>1, <1>2, <1>6 DEF IInv, TypeOK
  <2>2. Mail' = Mail /\ conn = "broken" /\ hand \in cut
    BY <1>1, <1>4, <1>6 DEF IInv, TypeOK, Handling, Mail
  <2>3. Handling'
    BY <1>1, <1>2, <1>6, <2>2 DEF IInv, Handling
  <2> QED BY <1>3, <2>1, <2>3 DEF IInv
<1> QED BY <1>5, <1>6

LEMMA DieHolds == ASSUME IInv, Die PROVE IInv'
<1>1. /\ state["consumer"] = "idle" /\ state'["consumer"] = "dead"
      /\ state' \in [Thread -> {"start", "idle", "busy", "done", "raised", "dead"}]
      /\ \A t \in Thread \ {"consumer"} : state'[t] = state[t]
  BY DEF Die, IInv, TypeOK, Thread
<1>2. TypeOK'
  BY <1>1 DEF IInv, TypeOK, Die, mail
<1>3. Control'
  BY <1>1 DEF IInv, Control, OnePass, Die, Thread
<1>4. Handling'
  BY <1>1, <1>3 DEF IInv, Handling, Mail, Die, mail
<1> QED BY <1>2, <1>3, <1>4 DEF IInv

LEMMA WakeHolds == ASSUME IInv, Wake PROVE IInv'
<1>1. /\ state["periodic"] = "idle" /\ Enter("periodic", All)
      /\ UNCHANGED <<mail, hand, down, faults, cut>>
  BY DEF Wake
<1>2. /\ state' \in [Thread -> {"start", "idle", "busy", "done", "raised", "dead"}]
      /\ state'["consumer"] = state["consumer"]
      /\ lock' \in Thread \cup {None}
      /\ left' \in [Thread -> Seq(Host)]
      /\ OnePass'
      /\ \A u \in Thread : left'[u] # <<>> <=> state'[u] = "busy"
      /\ heard' = heard
  BY <1>1, HostLists, Entered DEF Thread
<1>3. TypeOK'
  BY <1>1, <1>2 DEF IInv, TypeOK, mail
<1>4. Control'
  BY <1>1, <1>2 DEF IInv, Control
<1>5. Handling'
  BY <1>1, <1>2 DEF IInv, Handling, Mail, mail
<1> QED BY <1>3, <1>4, <1>5 DEF IInv

LEMMA RestHolds == ASSUME IInv, Rest PROVE IInv'
<1>1. /\ state["periodic"] \in {"done", "raised"} /\ state'["periodic"] = "idle"
      /\ state' \in [Thread -> {"start", "idle", "busy", "done", "raised", "dead"}]
      /\ state'["consumer"] = state["consumer"]
  BY DEF Rest, IInv, TypeOK, Thread
<1>2. TypeOK'
  BY <1>1 DEF IInv, TypeOK, Rest, mail
<1>3. Control'
  BY <1>1 DEF IInv, Control, OnePass, Rest, Thread
<1>4. Handling'
  BY <1>1 DEF IInv, Handling, Mail, Rest, mail
<1> QED BY <1>2, <1>3, <1>4 DEF IInv

LEMMA VisitHolds == ASSUME IInv, NEW t \in Thread, Visit(t) PROVE IInv'
<1>1. /\ left[t] # <<>> /\ left[t] \in Seq(Host) /\ state[t] = "busy" /\ lock = t
      /\ UNCHANGED <<hand, broker, queue, taken, bound, from, linked, conn, down, faults, cut>>
  BY DEF Visit, IInv, TypeOK, Control, OnePass, mail
<1>2. Tail(left[t]) \in Seq(Host)
  BY <1>1, HeadTailProperties
<1>3. CASE Head(left[t]) \notin down /\ Tail(left[t]) # <<>>
  <2>1. left' = [left EXCEPT ![t] = Tail(@)] /\ UNCHANGED <<lock, state, heard>>
    BY <1>3 DEF Visit
  <2>2. TypeOK'
    BY <1>1, <1>2, <2>1 DEF IInv, TypeOK
  <2>3. Control'
    BY <1>1, <1>3, <2>1 DEF IInv, TypeOK, Control, OnePass
  <2>4. Handling'
    BY <1>1, <2>1 DEF IInv, Handling, Mail
  <2> QED BY <2>2, <2>3, <2>4 DEF IInv
<1>4. CASE Head(left[t]) \in down \/ Tail(left[t]) = <<>>
  <2>1. PICK outcome \in {"done", "raised"} :
          left' = [left EXCEPT ![t] = <<>>] /\ lock' = None /\ Ended(t, outcome)
    BY <1>4 DEF Visit
  <2>2. /\ state' = [state EXCEPT ![t] = outcome]
        /\ state' \in [Thread -> {"start", "idle", "busy", "done", "raised", "dead"}]
        /\ heard' = IF t = "consumer" THEN heard \cup ({hand} \ {None}) ELSE heard
        /\ left' \in [Thread -> Seq(Host)]
    BY <1>1, <2>1, EmptySeq DEF IInv, TypeOK, Ended
  <2>3. heard' \subseteq Message
    BY <2>2 DEF IInv, TypeOK
  <2>4. TypeOK'
    BY <1>1, <2>1, <2>2, <2>3 DEF IInv, TypeOK
  <2>5. Control'
    BY <1>1, <2>1, <2>2, NoneAssumption DEF IInv, TypeOK, Control, OnePass
  <2>6. CASE t = "consumer"
    <3>1. hand # None /\ heard' = heard \cup {hand} /\ state'["consumer"] = outcome
      BY <1>1, <2>2, <2>6 DEF IInv, TypeOK, Control
    <3>2. Handling'
      BY <1>1, <2>6, <3>1 DEF IInv, Handling, Mail
    <3> QED BY <2>4, <2>5, <3>2 DEF IInv
  <2>7. CASE t # "consumer"
    <3>1. heard' = heard /\ state'["consumer"] = state["consumer"]
      BY <2>2, <2>7 DEF IInv, TypeOK, Thread
    <3>2. Handling'
      BY <1>1, <3>1 DEF IInv, Handling, Mail
    <3> QED BY <2>4, <2>5, <3>2 DEF IInv
  <2> QED BY <2>6, <2>7
<1> QED BY <1>3, <1>4

\* A connection ends: what it held is at the queue's head.
LEMMA GivenBack ==
    ASSUME IInv, GiveBack
    PROVE  /\ queue' \in Seq(Message) /\ taken' = <<>> /\ taken' \in Seq(Message)
           /\ Mail' = Mail /\ cut' \subseteq Message /\ cut \subseteq cut'
           /\ IsInjective(queue') /\ IsInjective(taken') /\ Range(queue') \cap Range(taken') = {}
           /\ hand # None => hand \in cut'
<1>1. /\ queue \in Seq(Message) /\ taken \in Seq(Message)
      /\ IsInjective(queue) /\ IsInjective(taken) /\ Range(queue) \cap Range(taken) = {}
      /\ cut \subseteq Message
  BY DEF IInv, TypeOK, Handling
<1>2. queue' = taken \o queue /\ taken' = <<>> /\ cut' = cut \cup Range(taken)
  BY DEF GiveBack
<1>3. /\ queue' \in Seq(Message) /\ IsInjective(queue')
      /\ Range(queue') = Range(taken) \cup Range(queue)
  BY <1>1, <1>2, Joined, ConcatProperties
<1>4. Range(taken') = {} /\ IsInjective(taken') /\ taken' \in Seq(Message)
  BY <1>2, Nothing, EmptySeq
<1>5. Range(taken) \subseteq Message
  BY <1>1, RangeOfSeq
<1>6. ASSUME hand # None PROVE hand \in cut'
  <2>1. CASE conn = "open"
    BY <1>1, <1>2, <1>6, <2>1, Shortened DEF IInv, Handling
  <2>2. CASE conn = "broken"
    BY <1>2, <1>6, <2>2 DEF IInv, Handling
  <2> QED BY <2>1, <2>2 DEF IInv, TypeOK
<1> QED BY <1>1, <1>2, <1>3, <1>4, <1>5, <1>6 DEF Mail

LEMMA BreakHolds == ASSUME IInv, BrokerDown \/ Break PROVE IInv'
<1>1. /\ GiveBack /\ conn' = "broken" /\ broker' \in {"up", "down"} /\ linked' \subseteq Sender
      /\ UNCHANGED <<bound, from, state, hand, lock, left, down, heard>>
      /\ faults' \in 0..MaxFaults
  BY BoundAssumption DEF BrokerDown, Break, Fault, IInv, TypeOK, work
<1>2. TypeOK'
  BY <1>1, GivenBack DEF IInv, TypeOK
<1>3. Control'
  BY <1>1 DEF IInv, Control, OnePass
<1>4. Handling'
  BY <1>1, GivenBack DEF IInv, Handling
<1> QED BY <1>2, <1>3, <1>4 DEF IInv

LEMMA RestartHolds == ASSUME IInv, Restart PROVE IInv'
<1>1. /\ GiveBack /\ conn' = "broken" /\ hand' = None /\ lock' = None
      /\ state' = [t \in Thread |-> IF t = "consumer" THEN "start" ELSE "idle"]
      /\ left' = [t \in Thread |-> <<>>]
      /\ UNCHANGED <<broker, bound, from, linked, down, heard>>
      /\ faults' \in 0..MaxFaults
  BY BoundAssumption DEF Restart, Fault, IInv, TypeOK
<1>2. TypeOK'
  <2>1. /\ state' \in [Thread -> {"start", "idle", "busy", "done", "raised", "dead"}]
        /\ left' \in [Thread -> Seq(Host)]
    BY <1>1, EmptySeq
  <2> QED BY <1>1, <2>1, GivenBack DEF IInv, TypeOK
<1>3. Control'
  BY <1>1, NoneAssumption DEF Control, OnePass, Thread
<1>4. Handling'
  <2>1. hand = None \/ hand \in cut'
    BY <1>1, GivenBack
  <2>2. \A m \in Mail \cap heard : m \in cut'
    <3> SUFFICES ASSUME NEW m \in Mail \cap heard, m \notin cut' PROVE FALSE
      OBVIOUS
    <3>1. m = hand /\ hand # None
      BY <1>1, GivenBack DEF IInv, Handling, Control
    <3> QED BY <2>1, <3>1
  <2> QED BY <1>1, <2>2, GivenBack DEF IInv, Handling, Thread
<1> QED BY <1>2, <1>3, <1>4 DEF IInv

LEMMA WorldHolds ==
    ASSUME IInv, BrokerUp \/ \E h \in Host : HostDown(h) \/ HostUp(h)
    PROVE  IInv'
<1>1. /\ UNCHANGED <<queue, taken, bound, from, linked, conn, state, hand, lock, left, heard, cut>>
      /\ broker' \in {"up", "down"} /\ (broker = "up" => broker' = "up")
      /\ down' \subseteq Host /\ faults' \in 0..MaxFaults
  BY BoundAssumption DEF IInv, TypeOK, BrokerUp, HostDown, HostUp, Fault, mail, work
<1>2. TypeOK'
  BY <1>1 DEF IInv, TypeOK
<1>3. Control' /\ Handling'
  BY <1>1 DEF IInv, Control, OnePass, Handling, Mail
<1> QED BY <1>2, <1>3 DEF IInv

LEMMA StepHolds == IInv /\ [Next]_vars => IInv'
<1> SUFFICES ASSUME IInv, [Next]_vars PROVE IInv'
  OBVIOUS
<1>1. CASE UNCHANGED vars
  BY <1>1 DEF IInv, TypeOK, Control, OnePass, Handling, Mail, vars, mail, work
<1>2. CASE \E s \in Sender : Link(s) \/ Publish(s) \/ Unlink(s)
  BY <1>2, LinkHolds, PublishHolds, UnlinkHolds
<1>3. CASE Start \/ Deliver \/ Take \/ Answer \/ Die
  BY <1>3, StartHolds, DeliverHolds, TakeHolds, AnswerHolds, DieHolds
<1>4. CASE Wake \/ Rest \/ \E t \in Thread : Visit(t)
  BY <1>4, WakeHolds, RestHolds, VisitHolds
<1>5. CASE BrokerDown \/ BrokerUp \/ Break \/ Restart \/ \E h \in Host : HostDown(h) \/ HostUp(h)
  BY <1>5, BreakHolds, RestartHolds, WorldHolds
<1> QED BY <1>1, <1>2, <1>3, <1>4, <1>5 DEF Next

LEMMA Always == Spec => []IInv
<1> QED BY InitHolds, StepHolds, PTL DEF Spec

-----------------------------------------------------------------------------

(* Connections, deliveries, threads and the lock stay what they are said to *)
(* be: what is connected has a broker that is up and a bound queue.         *)
THEOREM TypeCorrect == Spec => []TypeOK
<1>1. IInv => TypeOK
  BY DEF IInv
<1> QED BY <1>1, Always, PTL

(* No heartbeat that reached the queue is lost or at the broker twice,      *)
(* through any number of broken connections, restarts and failing passes.   *)
THEOREM HeartbeatsNotLost == Spec => []NoneLost
<1> QED BY Properties, Always, PTL

\* A heartbeat is handled again only after a connection was lost.
THEOREM HandledOnce == Spec => []OnceUnlessCut
<1> QED BY Properties, Always, PTL

(* One pass runs at a time, that of the thread that has the lock, which no   *)
(* thread that was refused takes from it.                                   *)
THEOREM PassesExclude == Spec => []OnePass
<1> QED BY Properties, Always, PTL

=============================================================================
